------------------------ MODULE MCSupervisorDialogue ------------------------
EXTENDS SupervisorDialogue, TLC

CONSTANTS m1, m2, m3, m4, m5, k1, k2, k3

\* One change that nobody need see, and the two kinds that call for a human.
MCChanges == {{"stage_changed"}, {"stage_changed", "work_item_blocked"}, {"task_blocked"}}

\* Three proposals with a key each, one of them incomplete, another of the first
\* key that is refused, and a call for attention.
Msg(id, key, crosses, complete, kind) ==
    [id |-> id, key |-> key, crosses |-> crosses, complete |-> complete, kind |-> kind]
MCInbox == {Msg(m1, k1, FALSE, TRUE, "proposal"), Msg(m2, k2, FALSE, TRUE, "proposal"),
            Msg(m3, k1, TRUE, TRUE, "proposal"), Msg(m4, k3, FALSE, FALSE, "proposal"),
            Msg(m5, None, FALSE, TRUE, "attention")}

\* Many messages, or many events, or some of both.
MCBounds == {<<0, 5>>, <<2, 2>>, <<3, 1>>, <<4, 0>>}
\* Writers and calls are interchangeable.
Symmetry == Permutations(Writers) \union Permutations(Calls)
============================================================================
