---------------------------- MODULE MCDelegation ----------------------------
EXTENDS Delegation, TLC

CONSTANTS w1, w2, t1, t2, agent, other

MCDeps == [t \in Tasks |-> {}]
Ready == [status |-> "ready", dev |-> NoDev, qa |-> FALSE]
Tested == [status |-> "dev_done", dev |-> agent, qa |-> FALSE]
In(st, tasks) == [stage |-> st, tasks |-> tasks]
InQa == [Tested EXCEPT !.status = "qa_in_progress", !.qa = TRUE]
Both(b1, b2) == (w1 :> b1) @@ (w2 :> b2)
Given == In("full_implementation", t1 :> [Ready EXCEPT !.dev = other])
Dropped == In("full_code_review", t1 :> [Ready EXCEPT !.status = "cancelled"])
\* One item with two tasks, new, to be tested, or one new and one in the hands of
\* QA; another with the first task only, which somebody has been given, or which
\* is off the board.
MCBoards == {Both(In("full_implementation", [t \in Tasks |-> Ready]), Given),
             Both(In("full_qa", [t \in Tasks |-> Tested]), Given),
             Both(In("full_implementation", [t \in Tasks |-> IF t = t1 THEN Ready ELSE InQa]), Dropped)}
\* The first task must stay in the safe zones, of which there are none, or no
\* more than one may be active.
Of(class, files) == [class |-> class, files |-> files, kind |-> "dev"]
MCShapes == {(t1 :> Of("parallel_limited", {1})) @@ (t2 :> Of("parallel_safe", {2}))}
MCPlans == {[mode |-> "limited", max |-> NoLimit, zones |-> {}],
            [mode |-> "enabled", max |-> 1, zones |-> {1, 2}]}

\* Processes and runs are interchangeable.
Symmetry == Permutations(Procs) \union Permutations(Runs)
============================================================================
