------------------------- MODULE SupervisorDialogue -------------------------
(* The dialogue of a work item with an external supervisor:                  *)
(* src/openkit-runtime/lib/supervisor-dialogue-store.js and                  *)
(* src/runtime/supervisor. Commands append events to one file, dispatchers   *)
(* send the events that are not delivered and await an answer, and messages  *)
(* of the supervisor are judged and recorded. Every function reads the whole *)
(* file and writes it back; two of them do not overlap here, but a           *)
(* dispatcher goes on from a list it read before it awaited the answer.      *)
EXTENDS Naturals, Sequences, FiniteSets, Functions

CONSTANTS
    Writers,        \* processes that commit commands and append their events
    Calls,          \* calls of dispatchPending in progress at a time
    MsgIds, Keys,   \* ids and proposal keys of inbound messages
    Inbox,          \* the messages the supervisor sends, any number of times
    None, Half,     \* no key; the content of a file whose writer died
    Limit,          \* events in one payload
    MAX_DEDUPE_ENTRIES,
    Changes,        \* what commands change, as sets of aspects
    Bounds,         \* bounds, in pairs: how many events, and how many messages with them
    MaxCalls, MaxDeaths

\* deriveProposalKey: only a proposal has a key. A message crosses the authority
\* boundary, or is incomplete when intent, target or body is missing.
Message == {m \in [id : MsgIds, key : Keys \union {None}, crosses : BOOLEAN, complete : BOOLEAN,
                   kind : {"attention", "ack", "concern", "proposal"}] : m.key # None <=> m.kind = "proposal"}

ASSUME DialogueAssumption ==
    /\ None \notin Keys /\ Inbox \subseteq Message
    /\ Limit \in Nat \ {0} /\ MAX_DEDUPE_ENTRIES \in Nat \ {0}
    /\ Bounds \subseteq Nat \X Nat /\ MaxCalls \in Nat /\ MaxDeaths \in Nat

VARIABLES
    store,      \* supervisor-dialogue.json
    emit,       \* emit[w]: the events a committed command has still to append
    call,       \* call[c]: the locals of a call of dispatchPending
    accepted,   \* ids of the events the supervisor has accepted
    epoch,      \* how often the store was started anew
    ids,        \* number of events appended, the id of the last one
    stray,      \* history: an answer about an earlier store came, or a late failure
                \* reopened an event that had been skipped
    messages, calls, deaths

vars == <<store, emit, call, accepted, epoch, ids, stray, messages, calls, deaths>>
counts == <<messages, calls, deaths>>

Statuses  == {"pending", "delivered", "failed", "skipped"}
Retryable == {"pending", "failed"}
Verdicts  == {"rejected_authority_boundary", "invalid_rejected", "attention_required",
              "acknowledged", "concern_recorded", "recorded_suggestion"}
Dispositions == Verdicts \union {"duplicate_ignored"}
----------------------------------------------------------------------------
(* What a command announces. A change is a set of aspects of the new state   *)
(* that differ from the old; blocked and paused call for a human.            *)
StateAspects == {"stage_changed", "approval_changed", "verification_signal", "issue_or_blocker_signal",
                 "issue_status_changed", "work_item_blocked", "work_item_unblocked",
                 "work_item_paused", "work_item_resumed"}
BoardAspects == {"task_status_changed", "task_blocked", "task_unblocked"}
CallsForHuman == {"work_item_blocked", "work_item_paused", "task_blocked"}
When(aspect, change) == IF aspect \in change THEN <<aspect>> ELSE <<>>
HumanCall(change) == IF change \intersect CallsForHuman # {} THEN <<"human_attention_needed">> ELSE <<>>
buildSupervisorEventsForStateChange(change) ==
    When("stage_changed", change) \o When("approval_changed", change) \o When("verification_signal", change)
        \o When("issue_or_blocker_signal", change) \o When("issue_status_changed", change)
        \o When("work_item_blocked", change) \o When("work_item_unblocked", change)
        \o When("work_item_paused", change) \o When("work_item_resumed", change)
        \o HumanCall(change)
BoardEvents(change) ==
    When("task_status_changed", change) \o When("task_blocked", change) \o When("task_unblocked", change)
\* Mutant: a blocked task calls for nobody.
BuildEventsForTasksOnly(change) == BoardEvents(change)
buildSupervisorEventsForTaskBoardChange(change) == BoardEvents(change) \o HumanCall(change)
Announced(change) == IF change \subseteq StateAspects THEN buildSupervisorEventsForStateChange(change)
                     ELSE buildSupervisorEventsForTaskBoardChange(change)
Types == StateAspects \union BoardAspects \union {"human_attention_needed"}
----------------------------------------------------------------------------
(* The store and what its functions do to it.                                 *)
Event   == [id : Nat, seq : Nat, type : Types, status : Statuses]
Inbound == [id : MsgIds, key : Keys \union {None}, disposition : Dispositions]
Session == [health : {"unconfigured", "healthy", "disabled", "degraded"}, degraded : BOOLEAN, attention : BOOLEAN]

EmptyStore == [events |-> <<>>, last |-> 0, cursor |-> 0,
               inbound |-> <<>>, processed |-> 0, keys |-> <<>>,
               session |-> [health |-> "unconfigured", degraded |-> TRUE, attention |-> FALSE]]

Seqs(list)        == {e.seq : e \in list}
Highest(S)        == CHOOSE n \in S \union {0} : \A m \in S : m <= n
With(events, S)   == {e \in Range(events) : e.status \in S}
Cursor(events)    == Highest(Seqs(With(events, {"delivered"})))
\* The n events of a list that come first. A list in the order of its numbers is
\* the set of its events.
First(list, n)    == {e \in list : Cardinality({f \in list : f.seq <= e.seq}) <= n}

appendSupervisorEvent(s, id, type) ==
    [s EXCEPT !.events = Append(@, [id |-> id, seq |-> s.last + 1, type |-> type, status |-> "pending"]),
              !.last = @ + 1]

\* A store that cannot be parsed is replaced by an empty one.
recordSupervisorAppendFailure(s) ==
    [(IF s = Half THEN EmptyStore ELSE s)
        EXCEPT !.session = [health |-> "degraded", degraded |-> TRUE, attention |-> TRUE]]

listPendingSupervisorEvents(s) == First(With(s.events, Retryable), Limit)

\* Mutant: the status of the attempt becomes the health of the session.
HealthIsStatus(status) == status
HealthAfter(status) ==
    CASE status = "delivered" -> "healthy" [] status = "skipped" -> "disabled" [] OTHER -> "degraded"
\* One attempt per event sent, in order: those of "given" are delivered, the rest
\* of the list gets the other status, whatever it had. The first number that is
\* not found throws, and the attempts before it stay.
recordSupervisorEventDeliveryAttempt(s, list, given, other) ==
    LET tried == {e \in list : \A f \in list : f.seq <= e.seq => f.seq \in Seqs(Range(s.events))}
        Attempt(seq) == IF seq \in Seqs(given) THEN "delivered" ELSE other
        events == [i \in DOMAIN s.events |->
                      IF s.events[i].seq \in Seqs(tried)
                      THEN [s.events[i] EXCEPT !.status = Attempt(s.events[i].seq)] ELSE s.events[i]]
        last == Attempt(Highest(Seqs(tried)))
    IN  IF tried = {} THEN s
        ELSE [s EXCEPT !.events = events, !.cursor = Cursor(events),
                       !.session.health = HealthAfter(last), !.session.degraded = last # "delivered"]
AllFound(s, list) == Seqs(list) \subseteq Seqs(Range(s.events))

\* Mutant: everything in the store is marked, what came during the call too.
MarkAllDelivered(s, seq) ==
    LET events == [i \in DOMAIN s.events |->
                      IF s.events[i].status \in Retryable
                      THEN [s.events[i] EXCEPT !.status = "delivered"] ELSE s.events[i]]
    IN  [s EXCEPT !.events = events, !.cursor = Cursor(events),
                  !.session.health = "healthy", !.session.degraded = FALSE]

markSupervisorEventsDelivered(s, seq) ==
    LET upto   == IF s.cursor > seq THEN s.cursor ELSE seq
        bound  == IF upto < s.last THEN upto ELSE s.last
        events == [i \in DOMAIN s.events |->
                      IF s.events[i].seq <= bound /\ s.events[i].status \in Retryable
                      THEN [s.events[i] EXCEPT !.status = "delivered"] ELSE s.events[i]]
    IN  [s EXCEPT !.events = events, !.cursor = Cursor(events),
                  !.session.health = "healthy", !.session.degraded = FALSE]

\* Mutant: one key less is kept.
RememberFewer(keys, key) ==
    LET all == IF key = None \/ key \in Range(keys) THEN keys ELSE Append(keys, key)
    IN  SubSeq(all, IF Len(all) > MAX_DEDUPE_ENTRIES - 1 THEN Len(all) - MAX_DEDUPE_ENTRIES + 2 ELSE 1, Len(all))

\* The keys of the last messages, whatever became of them.
rememberDedupe(keys, key) ==
    LET all == IF key = None \/ key \in Range(keys) THEN keys ELSE Append(keys, key)
    IN  SubSeq(all, IF Len(all) > MAX_DEDUPE_ENTRIES THEN Len(all) - MAX_DEDUPE_ENTRIES + 1 ELSE 1, Len(all))

Disposition(s, m, verdict) ==
    IF m.id \in {r.id : r \in Range(s.inbound)} \/ (m.key # None /\ m.key \in Range(s.keys))
    THEN "duplicate_ignored" ELSE verdict

recordInboundSupervisorMessage(s, m, verdict) ==
    LET d == Disposition(s, m, verdict) IN
    [s EXCEPT !.inbound = Append(@, [id |-> m.id, key |-> m.key, disposition |-> d]),
              !.processed = IF d = "duplicate_ignored" THEN @ ELSE Len(s.inbound) + 1,
              !.keys = rememberDedupe(@, m.key),
              !.session.attention = @ \/ d = "attention_required"]
----------------------------------------------------------------------------
Idle == [at |-> "idle", list |-> {}, epoch |-> 0]

Writes(w) == emit[w] # <<>>
\* The bound on events and messages: so many more of each may come.
Room(e, n) == \E b \in Bounds : \A w \in Writers : ids + Len(emit[w]) + e <= b[1] /\ messages + n <= b[2]

\* mutate, withTaskBoard: the state is written; the events follow, one by one.
Commit(w) ==
    /\ ~Writes(w)
    /\ \E change \in Changes :
           /\ Room(Len(Announced(change)), 0)
           /\ emit' = [emit EXCEPT ![w] = Announced(change)]
    /\ UNCHANGED <<store, call, accepted, epoch, ids, stray, counts>>

\* appendSupervisorEvents, one event; emitSupervisorEvents drops the rest of
\* the list when the file cannot be read.
AppendEvent(w) ==
    /\ Writes(w) /\ store # Half
    /\ store' = appendSupervisorEvent(store, ids + 1, Head(emit[w]))
    /\ emit' = [emit EXCEPT ![w] = Tail(@)]
    /\ ids' = ids + 1
    /\ UNCHANGED <<call, accepted, epoch, stray, counts>>

AppendFails(w) ==
    /\ Writes(w)
    /\ \/ store = Half /\ deaths' = deaths /\ epoch' = epoch + 1
       \/ store # Half /\ deaths < MaxDeaths /\ deaths' = deaths + 1 /\ epoch' = epoch
    /\ store' = recordSupervisorAppendFailure(store)
    /\ stray' = (stray /\ store # Half)
    /\ emit' = [emit EXCEPT ![w] = <<>>]
    /\ UNCHANGED <<call, accepted, ids, messages, calls>>

\* dispatchPending, up to the await.
Dispatch(c) ==
    /\ call[c].at = "idle" /\ store # Half
    /\ calls < MaxCalls
    /\ listPendingSupervisorEvents(store) # {}
    /\ calls' = calls + 1
    /\ call' = [call EXCEPT ![c] = [at |-> "await", list |-> listPendingSupervisorEvents(store), epoch |-> epoch]]
    /\ UNCHANGED <<store, emit, accepted, epoch, ids, stray, messages, deaths>>

\* What a call does with the answer: n of its events were delivered.
AfterAnswer(s, list, answer, n) ==
    LET all == Cardinality(list)
        failed == recordSupervisorEventDeliveryAttempt(s, list, {}, "failed") IN
    CASE answer = "ok" /\ n = all -> markSupervisorEventsDelivered(s, Highest(Seqs(list)))
      [] answer = "disabled"      -> recordSupervisorEventDeliveryAttempt(s, list, {}, "skipped")
      [] answer # "disabled" /\ n \in 1 .. all /\ ~(answer = "ok" /\ n = all) ->
             recordSupervisorEventDeliveryAttempt(s, list, First(list, n), "failed")
      [] answer \in {"failure", "unconfigured"} /\ n = 0 ->
             IF AllFound(s, list) THEN [failed EXCEPT !.session.health = "degraded", !.session.degraded = TRUE]
             ELSE failed
      [] answer = "unknown" /\ n = 0 -> [s EXCEPT !.session.health = "degraded", !.session.degraded = TRUE]

\* normalizeDeliveryResult: an answer that is ok for less than all is partial.
Answers(list) == {<<"ok", Cardinality(list)>>, <<"disabled", 0>>, <<"unconfigured", 0>>, <<"unknown", 0>>}
                 \union {<<"failure", n>> : n \in 0 .. Cardinality(list)}
                 \union {<<"partial_delivery", n>> : n \in 1 .. Cardinality(list) - 1}
\* A payload that failed may have been accepted: the answer came too late.
Taken(list, answer, n) == {First(list, n)} \union (IF answer = "failure" THEN {list} ELSE {})

\* An event that was skipped and not accepted is to be sent again.
Reopened == \E i \in DOMAIN store.events :
    store.events[i].status = "skipped" /\ store'.events[i].status = "failed" /\ store.events[i].id \notin accepted'

Answer(c) ==
    /\ call[c].at = "await"
    /\ \E a \in Answers(call[c].list) :
         /\ \E took \in Taken(call[c].list, a[1], a[2]) : accepted' = accepted \union {e.id : e \in took}
         /\ store' = IF store = Half THEN Half ELSE AfterAnswer(store, call[c].list, a[1], a[2])
    /\ call' = [call EXCEPT ![c] = Idle]
    /\ stray' = (stray \/ (store # Half /\ (call[c].epoch # epoch \/ Reopened)))
    /\ UNCHANGED <<emit, epoch, ids, counts>>

adjudicateInboundMessage(m) ==
    CASE m.crosses -> "rejected_authority_boundary"
      [] ~m.crosses /\ ~m.complete -> "invalid_rejected"
      [] ~m.crosses /\ m.complete ->
           CASE m.kind = "attention" -> "attention_required" [] m.kind = "ack" -> "acknowledged"
             [] m.kind = "concern" -> "concern_recorded" [] OTHER -> "recorded_suggestion"
ReceiveInbound(m) ==
    /\ store # Half
    /\ Room(0, 1)
    /\ messages' = messages + 1
    /\ store' = recordInboundSupervisorMessage(store, m, adjudicateInboundMessage(m))
    /\ UNCHANGED <<emit, call, accepted, epoch, ids, stray, calls, deaths>>

\* A process dies: before it has appended everything, or while it awaits an
\* answer. It may leave the file cut short. A writer that goes on although it
\* could append neither its events nor the degraded marker (emitSupervisorEvents,
\* its inner catch) leaves the same: its events are gone and nothing tells.
Die ==
    /\ deaths < MaxDeaths
    /\ deaths' = deaths + 1
    /\ store' \in {store, Half}
    /\ \/ \E w \in Writers : Writes(w) /\ emit' = [emit EXCEPT ![w] = <<>>] /\ UNCHANGED call
       \/ \E c \in Calls : call[c].at = "await" /\ call' = [call EXCEPT ![c] = Idle] /\ UNCHANGED emit
    /\ UNCHANGED <<accepted, epoch, ids, stray, messages, calls>>

Init ==
    /\ store = EmptyStore
    /\ emit = [w \in Writers |-> <<>>]
    /\ call = [c \in Calls |-> Idle]
    /\ accepted = {} /\ epoch = 0 /\ ids = 0 /\ stray = FALSE
    /\ messages = 0 /\ calls = 0 /\ deaths = 0

Next == \/ \E w \in Writers : Commit(w) \/ AppendEvent(w) \/ AppendFails(w)
        \/ \E c \in Calls : Dispatch(c) \/ Answer(c)
        \/ \E m \in Inbox : ReceiveInbound(m)
        \/ Die
Spec == Init /\ [][Next]_vars
----------------------------------------------------------------------------
Store == [events : Seq(Event), last : Nat, cursor : Nat, inbound : Seq(Inbound), processed : Nat,
          keys : Seq(Keys), session : Session]
TypeOK ==
    /\ store \in Store \union {Half}
    /\ emit \in [Writers -> Seq(Types)]
    /\ call \in [Calls -> [at : {"idle", "await"}, list : SUBSET Event, epoch : Nat]]
    /\ accepted \subseteq Nat /\ epoch \in Nat /\ ids \in Nat /\ stray \in BOOLEAN
    /\ messages \in Nat /\ calls \in 0 .. MaxCalls /\ deaths \in 0 .. MaxDeaths

\* Calls overlap, answers are late, a call marks every event up to the last
\* one it sent: still an event counts as delivered only if the supervisor accepted
\* it, as long as no answer about a store that was lost has come, whose numbers
\* now mean other events, and no late failure has reopened an event below that
\* had been skipped meanwhile (markSupervisorEventsDelivered).
DeliveredWasAccepted ==
    store # Half /\ ~stray => \A e \in Range(store.events) : e.status = "delivered" => e.id \in accepted

\* A proposal is taken up once: after it was, the same key is not recorded as
\* anything but a duplicate until MAX_DEDUPE_ENTRIES others have come. A
\* repetition does not count as news of the key (rememberDedupe).
ProposalsTakenOnce ==
    store # Half =>
    \A i, j \in DOMAIN store.inbound :
        LET r == store.inbound[i] s == store.inbound[j] IN
        (/\ i < j /\ r.key # None /\ r.key = s.key
         /\ r.disposition # "duplicate_ignored" /\ s.disposition # "duplicate_ignored")
        => Cardinality({store.inbound[k].key : k \in i .. j} \ {None, r.key}) >= MAX_DEDUPE_ENTRIES

\* Blocked or paused work calls for a human: the call follows in the events,
\* or is about to, unless a process died or a write failed on the way.
HumanIsCalled ==
    (store # Half /\ deaths = 0) =>
    \A i \in DOMAIN store.events :
        store.events[i].type \in CallsForHuman
        => \/ \E j \in DOMAIN store.events : j > i /\ store.events[j].type = "human_attention_needed"
           \/ \E w \in Writers : "human_attention_needed" \in Range(emit[w])
============================================================================
