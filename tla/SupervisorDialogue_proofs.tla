---------------------- MODULE SupervisorDialogue_proofs ----------------------
(* The dialogue with the supervisor is well-typed; an event that counts as    *)
(* delivered was accepted; a proposal is taken up once; blocked and paused    *)
(* work calls for a human.                                                    *)
EXTENDS SupervisorDialogue, TLAPS, SequenceTheorems, FiniteSetTheorems, WellFoundedInduction
----------------------------------------------------------------------------
(* Facts about the operators of the model.                                    *)

\* The highest number of a bounded set is in it, or there is none.
LEMMA HighestIn ==
    ASSUME NEW b \in Nat, NEW S \in SUBSET (1 .. b)
    PROVE  /\ Highest(S) \in S \union {0}
           /\ \A m \in S : m <= Highest(S)
<1> DEFINE U == {n \in Nat : \A m \in S : m <= n}
<1>1. PICK n \in U : \A m \in U : ~ (<<m, n>> \in OpToRel(<, Nat))
  <2>1. b \in U OBVIOUS
  <2>2. U \subseteq Nat /\ U # {} BY <2>1
  <2> QED BY <2>2, NatLessThanWellFounded, WFMin
<1>2. \A m \in U : ~ (m < n) BY <1>1 DEF OpToRel
<1>3. n \in S \union {0}
  <2>1. CASE n = 0 BY <2>1
  <2>2. CASE n # 0 /\ n \notin S
    <3>1. n - 1 \in U BY <2>2
    <3> QED BY <3>1, <1>2
  <2> QED BY <2>1, <2>2
<1>4. \E h \in S \union {0} : \A m \in S : m <= h BY <1>3
<1> QED BY <1>4 DEF Highest

\* What is announced of a change: aspects of it, then perhaps the call for a human.
LEMMA OneOrNone ==
    ASSUME NEW S
    PROVE  <<>> \in Seq(S) /\ \A x \in S : <<x>> \in Seq(S)
OBVIOUS

LEMMA WhenTyped ==
    ASSUME NEW change, NEW aspect \in Types
    PROVE  When(aspect, change) \in Seq(change \intersect Types)
<1> DEFINE S == change \intersect Types
<1>1. <<>> \in Seq(S) /\ \A x \in S : <<x>> \in Seq(S) BY OneOrNone
<1> QED BY <1>1 DEF When

LEMMA Joined ==
    ASSUME NEW S
    PROVE  \A s, t \in Seq(S) : s \o t \in Seq(S)
BY ConcatProperties

LEMMA HumanCallTyped ==
    ASSUME NEW change
    PROVE  /\ HumanCall(change) \in Seq(Types)
           /\ change \intersect CallsForHuman # {} =>
                  HumanCall(change) = <<"human_attention_needed">>
<1>1. <<>> \in Seq(Types) /\ \A x \in Types : <<x>> \in Seq(Types) BY OneOrNone
<1>2. HumanCall(change) \in {<<>>, <<"human_attention_needed">>} BY DEF HumanCall
<1>3. "human_attention_needed" \in Types BY DEF Types
<1>4. HumanCall(change) \in Seq(Types) BY <1>1, <1>2, <1>3
<1> QED BY <1>4 DEF HumanCall

LEMMA AnnouncedBody ==
    ASSUME NEW change
    PROVE  \E body \in Seq(change \intersect Types) : Announced(change) = body \o HumanCall(change)
<1> DEFINE S == change \intersect Types
<1> DEFINE W(aspect) == When(aspect, change)
<1>1. \A aspect \in StateAspects \union BoardAspects : W(aspect) \in Seq(S)
  BY WhenTyped DEF Types
<1>2. \A s, t \in Seq(S) : s \o t \in Seq(S) BY Joined
<1> DEFINE state == W("stage_changed") \o W("approval_changed") \o W("verification_signal")
        \o W("issue_or_blocker_signal") \o W("issue_status_changed")
        \o W("work_item_blocked") \o W("work_item_unblocked")
        \o W("work_item_paused") \o W("work_item_resumed")
<1>3. state \in Seq(S)
  <2>1. /\ W("stage_changed") \in Seq(S) /\ W("approval_changed") \in Seq(S)
        /\ W("verification_signal") \in Seq(S) /\ W("issue_or_blocker_signal") \in Seq(S)
        /\ W("issue_status_changed") \in Seq(S) /\ W("work_item_blocked") \in Seq(S)
        /\ W("work_item_unblocked") \in Seq(S) /\ W("work_item_paused") \in Seq(S)
        /\ W("work_item_resumed") \in Seq(S)
    BY <1>1 DEF StateAspects
  <2> HIDE DEF S, W
  <2> QED BY <2>1, <1>2
<1>4. BoardEvents(change) \in Seq(S)
  <2>1. /\ W("task_status_changed") \in Seq(S) /\ W("task_blocked") \in Seq(S)
        /\ W("task_unblocked") \in Seq(S)
    BY <1>1 DEF BoardAspects
  <2>2. BoardEvents(change) = W("task_status_changed") \o W("task_blocked") \o W("task_unblocked")
    BY DEF BoardEvents
  <2> HIDE DEF S, W
  <2> QED BY <2>1, <2>2, <1>2
<1>5. CASE change \subseteq StateAspects
  <2>1. Announced(change) = state \o HumanCall(change)
    BY <1>5 DEF Announced, buildSupervisorEventsForStateChange
  <2> QED BY <2>1, <1>3
<1>6. CASE ~(change \subseteq StateAspects)
  <2>1. Announced(change) = BoardEvents(change) \o HumanCall(change)
    BY <1>6 DEF Announced, buildSupervisorEventsForTaskBoardChange
  <2> QED BY <2>1, <1>4
<1> QED BY <1>5, <1>6

\* Whatever calls for a human is followed by the call.
Followed(s) == \A p \in 1 .. Len(s) :
    s[p] \in CallsForHuman => \E q \in 1 .. Len(s) : q > p /\ s[q] = "human_attention_needed"

LEMMA AnnouncedCalls ==
    ASSUME NEW change
    PROVE  Announced(change) \in Seq(Types) /\ Followed(Announced(change))
<1>1. PICK body \in Seq(change \intersect Types) : Announced(change) = body \o HumanCall(change)
  BY AnnouncedBody
<1>2. body \in Seq(Types) BY <1>1
<1>3. HumanCall(change) \in Seq(Types) BY HumanCallTyped
<1> DEFINE a == body \o HumanCall(change)
<1>4. /\ a \in Seq(Types)
      /\ Len(a) = Len(body) + Len(HumanCall(change))
      /\ \A i \in 1 .. Len(body) + Len(HumanCall(change)) :
             a[i] = IF i <= Len(body) THEN body[i] ELSE HumanCall(change)[i - Len(body)]
  BY <1>2, <1>3, ConcatProperties
<1>5. Followed(a)
  <2> SUFFICES ASSUME NEW p \in 1 .. Len(a), a[p] \in CallsForHuman
               PROVE  \E q \in 1 .. Len(a) : q > p /\ a[q] = "human_attention_needed"
    BY DEF Followed
  <2> HIDE DEF a
  <2>1. CASE p <= Len(body)
    <3>1. a[p] = body[p] /\ body[p] \in change BY <2>1, <1>1, <1>4
    <3>2. HumanCall(change) = <<"human_attention_needed">> BY <3>1, HumanCallTyped
    <3>3. Len(a) = Len(body) + 1 /\ a[Len(body) + 1] = "human_attention_needed"
      <4>1. Len(HumanCall(change)) = 1 /\ HumanCall(change)[1] = "human_attention_needed" BY <3>2
      <4>2. Len(body) \in Nat BY <1>1
      <4>3. a[Len(body) + 1] = HumanCall(change)[Len(body) + 1 - Len(body)] BY <4>1, <4>2, <1>4
      <4> QED BY <4>1, <4>2, <4>3, <1>4
    <3> QED BY <3>3, <2>1, <1>1
  <2>2. CASE p > Len(body)
    <3>1. a[p] = HumanCall(change)[p - Len(body)] /\ p - Len(body) \in 1 .. Len(HumanCall(change))
      BY <2>2, <1>4, <1>2, <1>3
    <3>2. HumanCall(change)[p - Len(body)] = "human_attention_needed"
      BY <3>1 DEF HumanCall
    <3> QED BY <3>1, <3>2 DEF CallsForHuman
  <2> QED BY <2>1, <2>2, <1>1
<1> QED BY <1>1, <1>4, <1>5

----------------------------------------------------------------------------
(* What the functions do to a store whose events are numbered in order.       *)

Sound(s) == /\ s \in Store
            /\ s.last = Len(s.events)
            /\ \A i \in 1 .. Len(s.events) : s.events[i].seq = i

\* r has the events of s, with other statuses perhaps, and its messages.
SameEvents(s, r) ==
    /\ Len(r.events) = Len(s.events) /\ r.last = s.last
    /\ \A i \in 1 .. Len(s.events) : /\ r.events[i].id = s.events[i].id
                                     /\ r.events[i].seq = s.events[i].seq
                                     /\ r.events[i].type = s.events[i].type
    /\ r.inbound = s.inbound /\ r.keys = s.keys

\* The statuses of r are those of s, but for the events with the numbers of T.
Attempted(s, r, T, given, other) ==
    \A i \in 1 .. Len(s.events) :
        r.events[i].status = IF i \in T THEN IF i \in Seqs(given) THEN "delivered" ELSE other
                             ELSE s.events[i].status
\* ... but for the open events up to number b.
Marked(s, r, b) ==
    \A i \in 1 .. Len(s.events) :
        r.events[i].status = IF i <= b /\ s.events[i].status \in Retryable THEN "delivered"
                             ELSE s.events[i].status

LEMMA SequenceOf ==
    ASSUME NEW S, NEW n \in Nat, NEW f \in [1 .. n -> S]
    PROVE  f \in Seq(S) /\ Len(f) = n
OBVIOUS

LEMMA SeqsWith ==
    ASSUME NEW s, Sound(s), NEW S
    PROVE  /\ Len(s.events) \in Nat
           /\ DOMAIN s.events = 1 .. Len(s.events)
           /\ \A i \in 1 .. Len(s.events) : s.events[i] \in Event
           /\ Range(s.events) \subseteq Event
           /\ Seqs(Range(s.events)) = 1 .. Len(s.events)
           /\ Seqs(With(s.events, S)) \subseteq 1 .. Len(s.events)
           /\ \A i \in 1 .. Len(s.events) :
                  i \in Seqs(With(s.events, S)) <=> s.events[i].status \in S
<1>1. s.events \in Seq(Event) BY DEF Sound, Store
<1>2. /\ Len(s.events) \in Nat /\ DOMAIN s.events = 1 .. Len(s.events)
      /\ \A i \in 1 .. Len(s.events) : s.events[i] \in Event
  BY <1>1
<1>3. \A i \in 1 .. Len(s.events) : s.events[i].seq = i BY DEF Sound
<1> QED BY <1>2, <1>3 DEF Seqs, With, Range

\* The cursor is the number of the last event delivered.
LEMMA CursorAt ==
    ASSUME NEW s, Sound(s)
    PROVE  /\ Cursor(s.events) \in 0 .. Len(s.events)
           /\ Cursor(s.events) # 0 => s.events[Cursor(s.events)].status = "delivered"
           /\ \A i \in 1 .. Len(s.events) :
                  s.events[i].status = "delivered" => i <= Cursor(s.events)
<1> DEFINE S == Seqs(With(s.events, {"delivered"}))
<1>1. /\ Len(s.events) \in Nat /\ S \subseteq 1 .. Len(s.events)
      /\ \A i \in 1 .. Len(s.events) : i \in S <=> s.events[i].status \in {"delivered"}
  BY SeqsWith
<1>2. Highest(S) \in S \union {0} /\ \A m \in S : m <= Highest(S)
  <2> HIDE DEF S
  <2> QED BY <1>1, HighestIn
<1>3. Cursor(s.events) = Highest(S) BY DEF Cursor
<1>4. \A i \in 1 .. Len(s.events) : i \in S <=> s.events[i].status = "delivered" BY <1>1
<1> DEFINE n == Len(s.events)
<1> DEFINE h == Cursor(s.events)
<1>5. /\ n \in Nat /\ S \subseteq 1 .. n /\ h \in S \union {0}
      /\ \A m \in S : m <= h
  BY <1>1, <1>2, <1>3
<1>6. h \in 0 .. n /\ (h # 0 => h \in S /\ h \in 1 .. n)
  <2> HIDE DEF S, n, h
  <2> QED BY <1>5
<1> HIDE DEF S
<1> QED BY <1>4, <1>5, <1>6

\* A store with other statuses is a store, with the cursor where they put it.
OnlyStatuses(s, events) ==
    /\ events \in [1 .. Len(s.events) -> Event]
    /\ \A i \in 1 .. Len(s.events) : /\ events[i].id = s.events[i].id
                                     /\ events[i].seq = s.events[i].seq
                                     /\ events[i].type = s.events[i].type
Settled(s, events, r) ==
    \E health \in {"healthy", "disabled", "degraded"}, degraded \in BOOLEAN :
        r = [s EXCEPT !.events = events, !.cursor = Cursor(events),
                      !.session.health = health, !.session.degraded = degraded]

LEMMA OtherStatuses ==
    ASSUME NEW s, Sound(s), NEW events, OnlyStatuses(s, events),
           NEW r, Settled(s, events, r)
    PROVE  /\ Sound(r) /\ SameEvents(s, r)
           /\ r.events = events /\ r.cursor = Cursor(events)
<1> USE DEF OnlyStatuses
<1>0. PICK health \in {"healthy", "disabled", "degraded"}, degraded \in BOOLEAN :
        r = [s EXCEPT !.events = events, !.cursor = Cursor(events),
                      !.session.health = health, !.session.degraded = degraded]
  BY DEF Settled
<1>1. s \in Store /\ Len(s.events) \in Nat BY SeqsWith DEF Sound
<1>2. events \in Seq(Event) /\ Len(events) = Len(s.events) BY <1>1, SequenceOf
<1>3. r.events = events /\ r.cursor = Cursor(events) /\ r.last = s.last
      /\ r.inbound = s.inbound /\ r.keys = s.keys
  BY <1>0, <1>1 DEF Store
<1>4. SameEvents(s, r) BY <1>2, <1>3 DEF SameEvents
<1>5. Cursor(events) \in Nat
  <2> DEFINE t == [s EXCEPT !.events = events, !.cursor = 0]
  <2>1. t \in Store /\ t.events = events /\ t.last = s.last BY <1>1, <1>2 DEF Store
  <2>2. Sound(t) BY <2>1, <1>2 DEF Sound
  <2>3. Cursor(t.events) \in 0 .. Len(t.events)
    <3> HIDE DEF t
    <3> QED BY <2>2, CursorAt
  <2> QED BY <2>1, <2>3, <1>2, <1>1
<1>6. r \in Store
  <2>1. s.session \in Session BY <1>1 DEF Store
  <2>2. [s.session EXCEPT !.health = health, !.degraded = degraded] \in Session
    BY <2>1 DEF Session
  <2>3. r = [s EXCEPT !.events = events, !.cursor = Cursor(events),
                     !.session = [s.session EXCEPT !.health = health, !.degraded = degraded]]
    BY <1>0, <1>1, <2>1 DEF Store, Session
  <2> QED BY <2>2, <2>3, <1>1, <1>2, <1>5 DEF Store
<1>7. Sound(r) BY <1>2, <1>3, <1>6 DEF Sound
<1> QED BY <1>3, <1>4, <1>7

\* Attempts: events of the list get the status of theirs; the rest stay.
LEMMA AttemptFacts ==
    ASSUME NEW s, Sound(s), s.cursor = Cursor(s.events),
           NEW list, NEW given, NEW other \in {"failed", "skipped"},
           NEW r, r = recordSupervisorEventDeliveryAttempt(s, list, given, other)
    PROVE  /\ Sound(r) /\ SameEvents(s, r) /\ r.cursor = Cursor(r.events)
           /\ \E T \in SUBSET Seqs(list) : Attempted(s, r, T, given, other)
<1> DEFINE tried == {e \in list : \A f \in list : f.seq <= e.seq => f.seq \in Seqs(Range(s.events))}
<1> DEFINE Attempt(seq) == IF seq \in Seqs(given) THEN "delivered" ELSE other
<1> DEFINE events == [i \in DOMAIN s.events |->
                         IF s.events[i].seq \in Seqs(tried)
                         THEN [s.events[i] EXCEPT !.status = Attempt(s.events[i].seq)] ELSE s.events[i]]
<1> DEFINE last == Attempt(Highest(Seqs(tried)))
<1>1. /\ Len(s.events) \in Nat /\ DOMAIN s.events = 1 .. Len(s.events)
      /\ \A i \in 1 .. Len(s.events) : s.events[i] \in Event /\ s.events[i].seq = i
  BY SeqsWith DEF Sound
<1>2. CASE tried = {}
  <2>1. r = s BY <1>2 DEF recordSupervisorEventDeliveryAttempt
  <2>2. SameEvents(s, s) BY DEF SameEvents
  <2>3. Attempted(s, s, {}, given, other) BY DEF Attempted
  <2> QED BY <2>1, <2>2, <2>3
<1>3. CASE tried # {}
  <2>1. r = [s EXCEPT !.events = events, !.cursor = Cursor(events),
                      !.session.health = HealthAfter(last), !.session.degraded = last # "delivered"]
    BY <1>3 DEF recordSupervisorEventDeliveryAttempt
  <2>2. \A seq : Attempt(seq) \in Statuses BY DEF Statuses
  <2>3. \A i \in 1 .. Len(s.events) :
          /\ events[i] = IF i \in Seqs(tried) THEN [s.events[i] EXCEPT !.status = Attempt(i)] ELSE s.events[i]
          /\ events[i] \in Event
          /\ events[i].id = s.events[i].id /\ events[i].seq = s.events[i].seq
          /\ events[i].type = s.events[i].type
          /\ events[i].status = IF i \in Seqs(tried) THEN Attempt(i) ELSE s.events[i].status
    <3> SUFFICES ASSUME NEW i \in 1 .. Len(s.events)
                 PROVE  /\ events[i] = IF i \in Seqs(tried) THEN [s.events[i] EXCEPT !.status = Attempt(i)] ELSE s.events[i]
                        /\ events[i] \in Event
                        /\ events[i].id = s.events[i].id /\ events[i].seq = s.events[i].seq
                        /\ events[i].type = s.events[i].type
                        /\ events[i].status = IF i \in Seqs(tried) THEN Attempt(i) ELSE s.events[i].status
      OBVIOUS
    <3>1. events[i] = IF i \in Seqs(tried) THEN [s.events[i] EXCEPT !.status = Attempt(i)] ELSE s.events[i]
      BY <1>1
    <3>2. s.events[i] \in Event /\ Attempt(i) \in Statuses BY <1>1, <2>2
    <3> HIDE DEF events, Attempt, tried
    <3> QED BY <3>1, <3>2 DEF Event
  <2>4. events \in [1 .. Len(s.events) -> Event]
    <3>1. DOMAIN events = 1 .. Len(s.events) /\ events = [i \in DOMAIN events |-> events[i]] BY <1>1
    <3> HIDE DEF events
    <3> QED BY <3>1, <2>3
  <2>5. HealthAfter(last) \in {"healthy", "disabled", "degraded"} BY DEF HealthAfter
  <2>6. Settled(s, events, r)
    <3>1. PICK d \in BOOLEAN : d = (last # "delivered") OBVIOUS
    <3>2. r = [s EXCEPT !.events = events, !.cursor = Cursor(events),
                        !.session.health = HealthAfter(last), !.session.degraded = d]
      BY <2>1, <3>1
    <3> HIDE DEF events, last
    <3> QED BY <3>2, <2>5 DEF Settled
  <2>7. Sound(r) /\ SameEvents(s, r) /\ r.events = events /\ r.cursor = Cursor(events)
    <3> HIDE DEF events
    <3>1. OnlyStatuses(s, events) BY <2>3, <2>4 DEF OnlyStatuses
    <3> QED BY <2>6, <3>1, OtherStatuses
  <2>8. Seqs(tried) \subseteq Seqs(list) BY DEF Seqs
  <2>9. Attempted(s, r, Seqs(tried), given, other)
    <3> HIDE DEF events, tried
    <3> QED BY <2>3, <2>7 DEF Attempted
  <2> QED BY <2>7, <2>8, <2>9
<1> QED BY <1>2, <1>3

\* Events up to a number are marked, those that are open.
LEMMA MarkFacts ==
    ASSUME NEW s, Sound(s), s.cursor = Cursor(s.events), NEW seq \in Nat,
           NEW r, r = markSupervisorEventsDelivered(s, seq)
    PROVE  /\ Sound(r) /\ SameEvents(s, r) /\ r.cursor = Cursor(r.events)
           /\ \E b \in Nat : /\ Marked(s, r, b)
                             /\ b <= seq \/ b <= s.cursor
                             /\ s.cursor <= b
<1> DEFINE upto == IF s.cursor > seq THEN s.cursor ELSE seq
<1> DEFINE bound == IF upto < s.last THEN upto ELSE s.last
<1> DEFINE events == [i \in DOMAIN s.events |->
                         IF s.events[i].seq <= bound /\ s.events[i].status \in Retryable
                         THEN [s.events[i] EXCEPT !.status = "delivered"] ELSE s.events[i]]
<1>1. /\ Len(s.events) \in Nat /\ DOMAIN s.events = 1 .. Len(s.events)
      /\ \A i \in 1 .. Len(s.events) : s.events[i] \in Event /\ s.events[i].seq = i
      /\ s.last = Len(s.events) /\ s.cursor \in 0 .. Len(s.events)
  BY SeqsWith, CursorAt DEF Sound
<1>2. Settled(s, events, r)
  <2>1. r = [s EXCEPT !.events = events, !.cursor = Cursor(events),
                      !.session.health = "healthy", !.session.degraded = FALSE]
    BY DEF markSupervisorEventsDelivered
  <2> HIDE DEF events
  <2> QED BY <2>1 DEF Settled
<1>3. bound \in Nat /\ (bound <= seq \/ bound <= s.cursor) /\ s.cursor <= bound BY <1>1
<1>4. \A i \in 1 .. Len(s.events) :
        /\ events[i] \in Event
        /\ events[i].id = s.events[i].id /\ events[i].seq = s.events[i].seq
        /\ events[i].type = s.events[i].type
        /\ events[i].status = IF i <= bound /\ s.events[i].status \in Retryable THEN "delivered"
                              ELSE s.events[i].status
  <2> SUFFICES ASSUME NEW i \in 1 .. Len(s.events)
               PROVE  /\ events[i] \in Event
                      /\ events[i].id = s.events[i].id /\ events[i].seq = s.events[i].seq
                      /\ events[i].type = s.events[i].type
                      /\ events[i].status = IF i <= bound /\ s.events[i].status \in Retryable THEN "delivered"
                                            ELSE s.events[i].status
    OBVIOUS
  <2>1. events[i] = IF i <= bound /\ s.events[i].status \in Retryable
                    THEN [s.events[i] EXCEPT !.status = "delivered"] ELSE s.events[i]
    BY <1>1
  <2>2. s.events[i] \in Event BY <1>1
  <2> HIDE DEF events, bound
  <2> QED BY <2>1, <2>2 DEF Event, Statuses
<1>5. events \in [1 .. Len(s.events) -> Event]
  <2>1. DOMAIN events = 1 .. Len(s.events) /\ events = [i \in DOMAIN events |-> events[i]] BY <1>1
  <2> HIDE DEF events
  <2> QED BY <2>1, <1>4
<1>6. Sound(r) /\ SameEvents(s, r) /\ r.events = events /\ r.cursor = Cursor(events)
  <2> HIDE DEF events
  <2>1. OnlyStatuses(s, events) BY <1>4, <1>5 DEF OnlyStatuses
  <2> QED BY <1>2, <2>1, OtherStatuses
<1>7. Marked(s, r, bound)
  <2> HIDE DEF events, bound
  <2> QED BY <1>4, <1>6 DEF Marked
<1> HIDE DEF events, bound
<1> QED BY <1>3, <1>6, <1>7

\* The first events of a list, by number.
LEMMA FirstFacts ==
    ASSUME NEW list \in SUBSET Event, IsFiniteSet(list), NEW n \in Nat
    PROVE  /\ First(list, n) \subseteq list
           /\ First(list, Cardinality(list)) = list
           /\ \A e \in First(list, n), f \in list : f.seq <= e.seq => f \in First(list, n)
<1> DEFINE Below(e) == {f \in list : f.seq <= e.seq}
<1>1. \A e : IsFiniteSet(Below(e)) /\ Cardinality(Below(e)) <= Cardinality(list)
             /\ Cardinality(Below(e)) \in Nat
  BY FS_Subset, FS_CardinalityType
<1>2. First(list, Cardinality(list)) = list BY <1>1 DEF First
<1>3. ASSUME NEW e \in First(list, n), NEW f \in list, f.seq <= e.seq
      PROVE  f \in First(list, n)
  <2>1. e \in list /\ Cardinality(Below(e)) <= n BY DEF First
  <2>2. Below(f) \subseteq Below(e) BY <1>3, <2>1 DEF Event
  <2>3. Cardinality(Below(f)) <= Cardinality(Below(e))
    <3> HIDE DEF Below
    <3> QED BY <2>2, <1>1, FS_Subset
  <2>4. Cardinality(Below(f)) <= n
    <3> HIDE DEF Below
    <3> QED BY <2>1, <2>3, <1>1
  <2> QED BY <2>4 DEF First
<1> QED BY <1>2, <1>3 DEF First

LEMMA OtherSession ==
    ASSUME NEW s, Sound(s), NEW r,
           r = [s EXCEPT !.session.health = "degraded", !.session.degraded = TRUE]
    PROVE  /\ Sound(r) /\ r.events = s.events /\ r.cursor = s.cursor /\ r.last = s.last
           /\ r.inbound = s.inbound /\ r.keys = s.keys
<1>1. s \in Store /\ s.session \in Session BY DEF Sound, Store
<1>2. [s.session EXCEPT !.health = "degraded", !.degraded = TRUE] \in Session BY <1>1 DEF Session
<1>3. r = [s EXCEPT !.session = [s.session EXCEPT !.health = "degraded", !.degraded = TRUE]]
  BY <1>1 DEF Store, Session
<1>4. r \in Store /\ r.events = s.events /\ r.cursor = s.cursor /\ r.last = s.last
      /\ r.inbound = s.inbound /\ r.keys = s.keys
  BY <1>1, <1>2, <1>3 DEF Store
<1> QED BY <1>4 DEF Sound

\* What an answer does: attempts, with those that were sent delivered, or marks.
Tries(s, r, list, n) ==
    \E T \in SUBSET Seqs(list), given \in {{}, First(list, n)}, other \in {"failed", "skipped"} :
        Attempted(s, r, T, given, other)
Marks(s, r, list) ==
    \E b \in Nat : /\ Marked(s, r, b)
                   /\ b <= Highest(Seqs(list)) \/ b <= s.cursor
                   /\ s.cursor <= b

LEMMA AnswerFacts ==
    ASSUME NEW s, Sound(s), s.cursor = Cursor(s.events),
           NEW list \in SUBSET Event, IsFiniteSet(list),
           NEW m \in Nat, Seqs(list) \subseteq 1 .. m,
           NEW answer, NEW n, <<answer, n>> \in Answers(list),
           NEW r, r = AfterAnswer(s, list, answer, n)
    PROVE  /\ Sound(r) /\ SameEvents(s, r) /\ r.cursor = Cursor(r.events)
           /\ Tries(s, r, list, n) \/ (answer = "ok" /\ n = Cardinality(list) /\ Marks(s, r, list))
<1> DEFINE all == Cardinality(list)
<1>0. all \in Nat BY FS_CardinalityType
<1>1. \/ answer = "ok" /\ n = all
      \/ answer = "disabled"
      \/ answer # "disabled" /\ n \in 1 .. all /\ ~(answer = "ok" /\ n = all)
      \/ answer \in {"failure", "unconfigured"} /\ n = 0
      \/ answer = "unknown" /\ n = 0
  <2> HIDE DEF all
  <2>1. Answers(list) = {<<"ok", all>>, <<"disabled", 0>>, <<"unconfigured", 0>>, <<"unknown", 0>>}
                 \union {<<"failure", k>> : k \in 0 .. all}
                 \union {<<"partial_delivery", k>> : k \in 1 .. all - 1}
    BY DEF Answers, all
  <2>2. CASE <<answer, n>> \in {<<"ok", all>>, <<"disabled", 0>>, <<"unconfigured", 0>>, <<"unknown", 0>>}
    BY <2>2
  <2>3. CASE <<answer, n>> \in {<<"failure", k>> : k \in 0 .. all} BY <2>3, <1>0
  <2>4. CASE <<answer, n>> \in {<<"partial_delivery", k>> : k \in 1 .. all - 1} BY <2>4, <1>0
  <2> QED BY <2>1, <2>2, <2>3, <2>4
<1>2. CASE answer = "ok" /\ n = all
  <2>1. r = markSupervisorEventsDelivered(s, Highest(Seqs(list)))
    BY <1>2 DEF AfterAnswer
  <2>2. Highest(Seqs(list)) \in Nat
    <3> DEFINE S == Seqs(list)
    <3>1. S \in SUBSET (1 .. m) OBVIOUS
    <3> HIDE DEF S
    <3>2. Highest(S) \in S \union {0} BY <3>1, HighestIn
    <3> QED BY <3>1, <3>2 DEF S
  <2> QED BY <1>2, <2>1, <2>2, MarkFacts DEF Marks
<1>3. CASE answer = "disabled"
  <2>1. r = recordSupervisorEventDeliveryAttempt(s, list, {}, "skipped")
    BY <1>3 DEF AfterAnswer
  <2> QED BY <2>1, AttemptFacts DEF Tries
<1>4. CASE answer # "disabled" /\ n \in 1 .. all /\ ~(answer = "ok" /\ n = all)
  <2>1. r = recordSupervisorEventDeliveryAttempt(s, list, First(list, n), "failed")
    BY <1>4, <1>0 DEF AfterAnswer
  <2> QED BY <2>1, AttemptFacts DEF Tries
<1>5. CASE answer \in {"failure", "unconfigured"} /\ n = 0
  <2> DEFINE failed == recordSupervisorEventDeliveryAttempt(s, list, {}, "failed")
  <2>1. r = IF AllFound(s, list) THEN [failed EXCEPT !.session.health = "degraded", !.session.degraded = TRUE]
            ELSE failed
    BY <1>5, <1>0 DEF AfterAnswer
  <2>2. /\ Sound(failed) /\ SameEvents(s, failed) /\ failed.cursor = Cursor(failed.events)
        /\ \E T \in SUBSET Seqs(list) : Attempted(s, failed, T, {}, "failed")
    BY AttemptFacts
  <2> HIDE DEF failed
  <2>3. CASE r = failed BY <2>2, <2>3 DEF Tries
  <2>4. CASE r = [failed EXCEPT !.session.health = "degraded", !.session.degraded = TRUE]
    <3>1. /\ Sound(r) /\ r.events = failed.events /\ r.cursor = failed.cursor /\ r.last = failed.last
          /\ r.inbound = failed.inbound /\ r.keys = failed.keys
      BY <2>2, <2>4, OtherSession
    <3>2. SameEvents(s, r) /\ r.cursor = Cursor(r.events) BY <2>2, <3>1 DEF SameEvents
    <3>3. Tries(s, r, list, n) BY <2>2, <3>1 DEF Tries, Attempted
    <3> QED BY <3>1, <3>2, <3>3
  <2> QED BY <2>1, <2>3, <2>4
<1>6. CASE answer = "unknown" /\ n = 0
  <2>1. r = [s EXCEPT !.session.health = "degraded", !.session.degraded = TRUE]
    BY <1>6, <1>0 DEF AfterAnswer
  <2>2. /\ Sound(r) /\ r.events = s.events /\ r.cursor = s.cursor /\ r.last = s.last
        /\ r.inbound = s.inbound /\ r.keys = s.keys
    BY <2>1, OtherSession
  <2>3. SameEvents(s, r) /\ r.cursor = Cursor(r.events) BY <2>2 DEF SameEvents
  <2>4. Attempted(s, r, {}, {}, "failed") BY <2>2 DEF Attempted
  <2> QED BY <2>2, <2>3, <2>4 DEF Tries
<1> QED BY <1>1, <1>2, <1>3, <1>4, <1>5, <1>6

----------------------------------------------------------------------------
(* The inductive invariant.                                                   *)

Numbered == store # Half => Sound(store) /\ store.cursor = Cursor(store.events)
Bounded(list) == IsFiniteSet(list) /\ \E m \in Nat : Seqs(list) \subseteq 1 .. m
Listed == \A c \in Calls : Bounded(call[c].list) /\ call[c].epoch <= epoch
TInv == TypeOK /\ Numbered /\ Listed

\* A call awaits the answer about events of the store as it is now.
Awaits(c)   == call[c].at = "await" /\ call[c].epoch = epoch
Events      == 1 .. Len(store.events)
\* An event that is to be sent and was never accepted.
Unsent(i)   == store.events[i].status \in Retryable /\ store.events[i].id \notin accepted
\* The numbers a call holds still mean the events it has sent.
Named == store # Half =>
    \A c \in Calls : Awaits(c) =>
        \A e \in call[c].list : e.seq \in Events /\ store.events[e.seq].id = e.id
\* A call has sent every such event up to the last one it has sent.
Covered == store # Half /\ ~stray =>
    \A c \in Calls : Awaits(c) =>
        \A e \in call[c].list : \A i \in Events : i <= e.seq /\ Unsent(i) => i \in Seqs(call[c].list)
\* Such an event is above everything that was delivered.
Above == store # Half /\ ~stray =>
    \A i, j \in Events : store.events[i].status = "delivered" /\ Unsent(j) => i < j
DInv == DeliveredWasAccepted /\ Named /\ Covered /\ Above

\* What is yet to be appended calls for a human after what needs the call.
HInv == HumanIsCalled /\ \A w \in Writers : Followed(emit[w])

\* The keys of messages i to j other than that of message i; of those from i on.
Others(s, i, j) == {s[k].key : k \in i .. j} \ {None, s[i].key}
OtherKeys(i) == Others(store.inbound, i, Len(store.inbound))
TakenUp(i) == store.inbound[i].key # None /\ store.inbound[i].disposition # "duplicate_ignored"
\* Key number p is that of message i, and the keys after it came with later messages.
StillKept(i, p) ==
    /\ store.keys[p] = store.inbound[i].key
    /\ \A q \in 1 .. Len(store.keys) : q > p =>
           \E k \in i .. Len(store.inbound) : store.inbound[k].key = store.keys[q]
KeysOnce == store # Half =>
    /\ Len(store.keys) <= MAX_DEDUPE_ENTRIES
    /\ \A p, q \in 1 .. Len(store.keys) : store.keys[p] = store.keys[q] => p = q
\* A proposal taken up is among the keys, unless as many others have come.
KeptOrSpent == store # Half =>
    \A i \in 1 .. Len(store.inbound) : TakenUp(i) =>
        \/ \E p \in 1 .. Len(store.keys) : StillKept(i, p)
        \/ Cardinality(OtherKeys(i)) >= MAX_DEDUPE_ENTRIES
PInv == ProposalsTakenOnce /\ KeysOnce /\ KeptOrSpent

IInv == TInv /\ DInv /\ HInv /\ PInv

----------------------------------------------------------------------------
(* The types, and the numbers of the events.                                  *)

LEMMA EmptyFacts ==
    /\ Sound(EmptyStore) /\ EmptyStore.cursor = Cursor(EmptyStore.events)
    /\ Len(EmptyStore.events) = 0 /\ Len(EmptyStore.inbound) = 0 /\ Len(EmptyStore.keys) = 0
<1>1. /\ EmptyStore.events = <<>> /\ EmptyStore.inbound = <<>> /\ EmptyStore.keys = <<>>
      /\ EmptyStore.last = 0 /\ EmptyStore.cursor = 0
  BY DEF EmptyStore
<1>2. EmptyStore \in Store
  <2>1. /\ <<>> \in Seq(Event) /\ <<>> \in Seq(Inbound) /\ <<>> \in Seq(Keys) BY OneOrNone
  <2> QED BY <2>1 DEF EmptyStore, Store, Session
<1>3. Sound(EmptyStore) BY <1>1, <1>2 DEF Sound
<1>4. Cursor(EmptyStore.events) \in 0 .. Len(EmptyStore.events) BY <1>3, CursorAt
<1> QED BY <1>1, <1>3, <1>4

LEMMA AppendFailureFacts ==
    ASSUME NEW s, Sound(s), s.cursor = Cursor(s.events), NEW r,
           r = [s EXCEPT !.session = [health |-> "degraded", degraded |-> TRUE, attention |-> TRUE]]
    PROVE  /\ Sound(r) /\ r.events = s.events /\ r.cursor = Cursor(r.events)
           /\ r.inbound = s.inbound /\ r.keys = s.keys
<1>1. [health |-> "degraded", degraded |-> TRUE, attention |-> TRUE] \in Session BY DEF Session
<1>2. s \in Store BY DEF Sound
<1>3. r \in Store /\ r.events = s.events /\ r.cursor = s.cursor /\ r.last = s.last
      /\ r.inbound = s.inbound /\ r.keys = s.keys
  BY <1>1, <1>2 DEF Store
<1> QED BY <1>3 DEF Sound

\* r has one event more than s, at the end.
OneMore(s, r, id, type) ==
    /\ Len(r.events) = Len(s.events) + 1
    /\ \A i \in 1 .. Len(s.events) : r.events[i] = s.events[i]
    /\ r.events[Len(s.events) + 1] = [id |-> id, seq |-> Len(s.events) + 1, type |-> type, status |-> "pending"]

LEMMA AppendFacts ==
    ASSUME NEW s, Sound(s), s.cursor = Cursor(s.events), NEW id \in Nat, NEW type \in Types,
           NEW r, r = appendSupervisorEvent(s, id, type)
    PROVE  Sound(r) /\ r.cursor = Cursor(r.events) /\ OneMore(s, r, id, type)
<1> DEFINE e == [id |-> id, seq |-> s.last + 1, type |-> type, status |-> "pending"]
<1>1. s \in Store /\ s.events \in Seq(Event) /\ s.last = Len(s.events) /\ s.last \in Nat
  BY DEF Sound, Store
<1>2. e \in Event BY <1>1 DEF Event, Statuses
<1>3. /\ r \in Store /\ r.events = Append(s.events, e) /\ r.last = s.last + 1
      /\ r.cursor = s.cursor /\ r.inbound = s.inbound /\ r.keys = s.keys
  <2>1. r = [s EXCEPT !.events = Append(s.events, e), !.last = s.last + 1]
    BY <1>1 DEF appendSupervisorEvent, Store
  <2> HIDE DEF e
  <2>2. PICK events \in Seq(Event) : events = Append(s.events, e) BY <1>1, <1>2, AppendProperties
  <2>3. PICK last \in Nat : last = s.last + 1 BY <1>1
  <2>4. r = [s EXCEPT !.events = events, !.last = last] BY <2>1, <2>2, <2>3
  <2>5. /\ r \in Store /\ r.events = events /\ r.last = last
        /\ r.cursor = s.cursor /\ r.inbound = s.inbound /\ r.keys = s.keys
    BY <2>4, <1>1 DEF Store
  <2> QED BY <2>2, <2>3, <2>5
<1>4. /\ Len(r.events) = Len(s.events) + 1
      /\ \A i \in 1 .. Len(s.events) : r.events[i] = s.events[i]
      /\ r.events[Len(s.events) + 1] = e
  <2> HIDE DEF e
  <2> QED BY <1>1, <1>2, <1>3, AppendProperties
<1>5. Sound(r)
  <2>1. e.seq = Len(s.events) + 1 BY <1>1
  <2> HIDE DEF e
  <2> QED BY <2>1, <1>1, <1>3, <1>4 DEF Sound
<1>6. With(r.events, {"delivered"}) = With(s.events, {"delivered"})
  <2>1. e.status # "delivered" OBVIOUS
  <2>2. DOMAIN r.events = 1 .. Len(s.events) + 1 /\ DOMAIN s.events = 1 .. Len(s.events)
    BY SeqsWith, <1>4, <1>5
  <2> HIDE DEF e
  <2> QED BY <2>1, <2>2, <1>1, <1>4 DEF With, Range
<1>7. r.cursor = Cursor(r.events) BY <1>3, <1>6 DEF Cursor
<1> QED BY <1>1, <1>3, <1>4, <1>5, <1>7 DEF OneMore

\* The keys after a message: as they were, or the key at the end and, when
\* there are too many, the first gone.
LEMMA RememberTyped ==
    ASSUME NEW keys \in Seq(Keys), NEW key \in Keys \union {None}
    PROVE  rememberDedupe(keys, key) \in Seq(Keys)
<1>0. MAX_DEDUPE_ENTRIES \in Nat \ {0} BY DialogueAssumption
<1> DEFINE all == IF key = None \/ key \in Range(keys) THEN keys ELSE Append(keys, key)
<1> DEFINE a == IF Len(all) > MAX_DEDUPE_ENTRIES THEN Len(all) - MAX_DEDUPE_ENTRIES + 1 ELSE 1
<1>1. all \in Seq(Keys)
  <2>1. key # None => Append(keys, key) \in Seq(Keys) BY AppendProperties
  <2> QED BY <2>1
<1> HIDE DEF all
<1>2. Len(all) \in Nat /\ a \in Nat \ {0} BY <1>0, <1>1
<1>3. \A i \in a .. Len(all) : all[i] \in Keys BY <1>1, <1>2
<1>4. SubSeq(all, a, Len(all)) \in Seq(Keys)
  <2> HIDE DEF a
  <2> QED BY <1>2, <1>3, SubSeqProperties
<1>5. rememberDedupe(keys, key) = SubSeq(all, a, Len(all)) BY DEF rememberDedupe, all
<1> QED BY <1>4, <1>5

LEMMA RememberFacts ==
    ASSUME NEW keys \in Seq(Keys), NEW key \in Keys \union {None},
           Len(keys) <= MAX_DEDUPE_ENTRIES, NEW r, r = rememberDedupe(keys, key)
    PROVE  /\ key = None \/ key \in Range(keys) => r = keys
           /\ ~(key = None \/ key \in Range(keys)) =>
                IF Len(keys) < MAX_DEDUPE_ENTRIES
                THEN /\ Len(r) = Len(keys) + 1 /\ r[Len(keys) + 1] = key
                     /\ \A p \in 1 .. Len(keys) : r[p] = keys[p]
                ELSE /\ Len(r) = Len(keys) /\ r[Len(keys)] = key
                     /\ \A p \in 1 .. Len(keys) - 1 : r[p] = keys[p + 1]
<1>0. MAX_DEDUPE_ENTRIES \in Nat \ {0} /\ Len(keys) \in Nat BY DialogueAssumption
<1> DEFINE kept == IF key = None \/ key \in Range(keys) THEN keys ELSE Append(keys, key)
<1> DEFINE a == IF Len(kept) > MAX_DEDUPE_ENTRIES THEN Len(kept) - MAX_DEDUPE_ENTRIES + 1 ELSE 1
<1>3. r = SubSeq(kept, a, Len(kept)) BY DEF rememberDedupe
<1>1. CASE key = None \/ key \in Range(keys)
  <2>5. kept = keys BY <1>1
  <2>6. a = 1
    <3> HIDE DEF kept
    <3> QED BY <1>0, <2>5
  <2>1. r = SubSeq(keys, 1, Len(keys)) BY <1>3, <2>5, <2>6
  <2>2. \A i \in 1 .. Len(keys) : keys[i] \in Keys OBVIOUS
  <2>3. /\ SubSeq(keys, 1, Len(keys)) \in Seq(Keys)
        /\ Len(SubSeq(keys, 1, Len(keys))) = Len(keys)
        /\ \A i \in 1 .. Len(keys) : SubSeq(keys, 1, Len(keys))[i] = keys[i]
    BY <2>2, <1>0
  <2>4. SubSeq(keys, 1, Len(keys)) = keys BY <2>3, SeqEqual
  <2> QED BY <1>1, <2>1, <2>4
<1>2. CASE ~(key = None \/ key \in Range(keys))
  <2> DEFINE all == Append(keys, key)
  <2>1. /\ all \in Seq(Keys) /\ Len(all) = Len(keys) + 1 /\ all[Len(keys) + 1] = key
        /\ \A p \in 1 .. Len(keys) : all[p] = keys[p]
    BY <1>2, AppendProperties
  <2>6. kept = all BY <1>2
  <2>2. r = SubSeq(all, IF Len(all) > MAX_DEDUPE_ENTRIES THEN Len(all) - MAX_DEDUPE_ENTRIES + 1 ELSE 1, Len(all))
    <3> HIDE DEF kept, all
    <3> QED BY <1>3, <2>6
  <2> HIDE DEF all
  <2>3. \A i \in 1 .. Len(all) : all[i] \in Keys BY <2>1
  <2>4. CASE Len(keys) < MAX_DEDUPE_ENTRIES
    <3>5. ~(Len(all) > MAX_DEDUPE_ENTRIES) BY <2>1, <2>4, <1>0
    <3>1. r = SubSeq(all, 1, Len(all)) BY <2>2, <3>5
    <3>2. Len(r) = Len(all) /\ \A i \in 1 .. Len(all) : r[i] = all[1 + i - 1]
      BY <3>1, <2>1, <2>3, <1>0, SubSeqProperties
    <3>3. Len(r) = Len(keys) + 1 /\ r[Len(keys) + 1] = key BY <3>2, <2>1, <1>0
    <3>4. \A p \in 1 .. Len(keys) : r[p] = keys[p] BY <3>2, <2>1, <1>0
    <3> QED BY <1>2, <2>4, <3>3, <3>4
  <2>5. CASE ~(Len(keys) < MAX_DEDUPE_ENTRIES)
    <3>0. Len(keys) = MAX_DEDUPE_ENTRIES BY <2>5, <1>0
    <3>1. r = SubSeq(all, 2, Len(all)) BY <2>1, <2>2, <3>0, <1>0
    <3>2. Len(r) = Len(all) - 1 /\ \A i \in 1 .. Len(all) - 1 : r[i] = all[2 + i - 1]
      BY <3>1, <2>1, <2>3, <3>0, <1>0, SubSeqProperties
    <3>3. Len(r) = Len(keys) /\ r[Len(keys)] = key BY <3>2, <2>1, <3>0, <1>0
    <3>4. \A p \in 1 .. Len(keys) - 1 : r[p] = keys[p + 1] BY <3>2, <2>1, <1>0
    <3> QED BY <1>2, <2>5, <3>3, <3>4
  <2> QED BY <2>4, <2>5
<1> QED BY <1>1, <1>2

LEMMA InboundFacts ==
    ASSUME NEW s, Sound(s), s.cursor = Cursor(s.events), NEW m \in Inbox,
           NEW r, r = recordInboundSupervisorMessage(s, m, adjudicateInboundMessage(m)),
           NEW d, d = Disposition(s, m, adjudicateInboundMessage(m))
    PROVE  /\ Sound(r) /\ r.events = s.events /\ r.cursor = Cursor(r.events)
           /\ r.inbound = Append(s.inbound, [id |-> m.id, key |-> m.key, disposition |-> d])
           /\ [id |-> m.id, key |-> m.key, disposition |-> d] \in Inbound
           /\ r.keys = rememberDedupe(s.keys, m.key)
<1>1. s \in Store /\ s.session \in Session /\ s.inbound \in Seq(Inbound) /\ s.keys \in Seq(Keys)
  BY DEF Sound, Store
<1>2. m \in Message /\ m.id \in MsgIds /\ m.key \in Keys \union {None}
  BY DialogueAssumption DEF Message
<1>3. d \in Dispositions
  <2>1. m.kind \in {"attention", "ack", "concern", "proposal"} /\ m.crosses \in BOOLEAN
        /\ m.complete \in BOOLEAN
    BY <1>2 DEF Message
  <2>2. adjudicateInboundMessage(m) \in Verdicts BY <2>1 DEF adjudicateInboundMessage, Verdicts
  <2> QED BY <2>2 DEF Disposition, Dispositions
<1> DEFINE rec == [id |-> m.id, key |-> m.key, disposition |-> d]
<1>4. rec \in Inbound BY <1>2, <1>3 DEF Inbound
<1>5. PICK inbound \in Seq(Inbound) : inbound = Append(s.inbound, rec)
  <2> HIDE DEF rec
  <2> QED BY <1>1, <1>4, AppendProperties
<1>6. PICK keys \in Seq(Keys) : keys = rememberDedupe(s.keys, m.key)
  BY <1>1, <1>2, RememberTyped
<1>7. PICK processed \in Nat :
        processed = IF d = "duplicate_ignored" THEN s.processed ELSE Len(s.inbound) + 1
  BY <1>1 DEF Store
<1>8. PICK attention \in BOOLEAN :
        attention = (s.session.attention \/ d = "attention_required")
  BY <1>1 DEF Session
<1>9. [s.session EXCEPT !.attention = attention] \in Session BY <1>1, <1>8 DEF Session
<1>10. PICK session \in Session : session = [s.session EXCEPT !.attention = attention] BY <1>9
<1>11. r = [s EXCEPT !.inbound = inbound, !.processed = processed, !.keys = keys, !.session = session]
  <2>1. r = [s EXCEPT !.inbound = Append(@, rec),
                      !.processed = IF d = "duplicate_ignored" THEN @ ELSE Len(s.inbound) + 1,
                      !.keys = rememberDedupe(@, m.key),
                      !.session.attention = @ \/ d = "attention_required"]
    BY DEF recordInboundSupervisorMessage
  <2> HIDE DEF rec
  <2> QED BY <2>1, <1>1, <1>5, <1>6, <1>7, <1>8, <1>10 DEF Store, Session
<1>12. /\ r \in Store /\ r.events = s.events /\ r.cursor = s.cursor /\ r.last = s.last
       /\ r.inbound = inbound /\ r.keys = keys
  BY <1>11, <1>1 DEF Store
<1> QED BY <1>4, <1>5, <1>6, <1>12 DEF Sound

\* The events to be sent are finitely many.
LEMMA PendingFacts ==
    ASSUME NEW s, Sound(s), NEW list, list = listPendingSupervisorEvents(s)
    PROVE  /\ list \in SUBSET Event /\ Bounded(list)
           /\ Seqs(list) \subseteq 1 .. Len(s.events)
           /\ list \subseteq With(s.events, Retryable)
<1> DEFINE all == With(s.events, Retryable)
<1>1. list \subseteq all BY DEF listPendingSupervisorEvents, First
<1>2. /\ Len(s.events) \in Nat /\ DOMAIN s.events = 1 .. Len(s.events)
      /\ Range(s.events) \subseteq Event /\ Seqs(all) \subseteq 1 .. Len(s.events)
  BY SeqsWith
<1>3. IsFiniteSet(Range(s.events))
  <2>1. s.events \in [1 .. Len(s.events) -> Range(s.events)]
    <3>1. s.events \in Seq(Event) BY DEF Sound, Store
    <3> QED BY <3>1, <1>2 DEF Range
  <2>2. s.events \in Surjection(1 .. Len(s.events), Range(s.events))
    BY <2>1, <1>2 DEF Surjection, Range
  <2>3. IsFiniteSet(1 .. Len(s.events)) BY <1>2, FS_Interval
  <2> QED BY <2>2, <2>3, FS_Surjection
<1>4. all \subseteq Range(s.events) BY DEF With
<1>5. IsFiniteSet(list) BY <1>1, <1>3, <1>4, FS_Subset
<1>6. Seqs(list) \subseteq Seqs(all) BY <1>1 DEF Seqs
<1> QED BY <1>1, <1>2, <1>4, <1>5, <1>6 DEF Bounded

LEMMA NothingBounded == Bounded({})
<1>1. IsFiniteSet({}) BY FS_EmptySet
<1>2. Seqs({}) = {} BY DEF Seqs
<1> QED BY <1>1, <1>2 DEF Bounded

LEMMA InitTypes == Init => TInv
<1> SUFFICES ASSUME Init PROVE TInv OBVIOUS
<1>1. Sound(store) /\ store.cursor = Cursor(store.events) BY EmptyFacts DEF Init
<1>2. emit \in [Writers -> Seq(Types)]
  <2>1. <<>> \in Seq(Types) BY OneOrNone
  <2> QED BY <2>1 DEF Init
<1>3. call \in [Calls -> [at : {"idle", "await"}, list : SUBSET Event, epoch : Nat]]
  BY DEF Init, Idle
<1>4. Listed
  <2>1. epoch = 0 /\ \A c \in Calls : call[c].list = {} /\ call[c].epoch = 0 BY DEF Init, Idle
  <2>2. ASSUME NEW c \in Calls PROVE Bounded(call[c].list)
    <3>1. call[c].list = {} BY <2>1
    <3> QED BY <3>1, NothingBounded, Zenon
  <2>3. \A c \in Calls : call[c].epoch <= epoch BY <2>1
  <2> QED BY <2>2, <2>3 DEF Listed
<1>5. /\ accepted \subseteq Nat /\ epoch \in Nat /\ ids \in Nat /\ stray \in BOOLEAN
      /\ messages \in Nat /\ calls \in 0 .. MaxCalls /\ deaths \in 0 .. MaxDeaths
  <2>1. MaxCalls \in Nat /\ MaxDeaths \in Nat BY DialogueAssumption
  <2>2. stray \in BOOLEAN BY Zenon DEF Init
  <2>3. accepted = {} /\ epoch = 0 /\ ids = 0 /\ messages = 0 /\ calls = 0 /\ deaths = 0 BY DEF Init
  <2> QED BY <2>1, <2>2, <2>3
<1>6. store \in Store BY <1>1 DEF Sound
<1>7. TypeOK BY <1>2, <1>3, <1>5, <1>6 DEF TypeOK
<1>8. Numbered BY <1>1 DEF Numbered
<1> QED BY <1>4, <1>7, <1>8 DEF TInv

LEMMA TypesStay == TInv /\ [Next]_vars => TInv'
<1> SUFFICES ASSUME TInv, [Next]_vars PROVE TInv' OBVIOUS
<1>0. /\ store # Half => Sound(store) /\ store.cursor = Cursor(store.events)
      /\ emit \in [Writers -> Seq(Types)]
      /\ call \in [Calls -> [at : {"idle", "await"}, list : SUBSET Event, epoch : Nat]]
      /\ accepted \subseteq Nat /\ epoch \in Nat /\ ids \in Nat /\ stray \in BOOLEAN
      /\ messages \in Nat /\ calls \in 0 .. MaxCalls /\ deaths \in 0 .. MaxDeaths
      /\ MaxCalls \in Nat /\ MaxDeaths \in Nat
      /\ Listed
  BY DialogueAssumption DEF TInv, TypeOK, Numbered
\* It is enough to show each part.
<1>1. ASSUME store' # Half => Sound(store') /\ store'.cursor = Cursor(store'.events),
             emit' \in [Writers -> Seq(Types)],
             call' \in [Calls -> [at : {"idle", "await"}, list : SUBSET Event, epoch : Nat]],
             Listed',
             accepted' \subseteq Nat /\ epoch' \in Nat /\ ids' \in Nat /\ stray' \in BOOLEAN,
             messages' \in Nat /\ calls' \in 0 .. MaxCalls /\ deaths' \in 0 .. MaxDeaths
      PROVE  TInv'
  BY <1>1 DEF TInv, TypeOK, Numbered, Sound
<1>2. ASSUME NEW w \in Writers, Commit(w) PROVE TInv'
  <2>1. emit' \in [Writers -> Seq(Types)] BY <1>0, <1>2, AnnouncedCalls DEF Commit
  <2> QED BY <1>0, <1>1, <1>2, <2>1 DEF Commit, Listed, counts
<1>3. ASSUME NEW w \in Writers, AppendEvent(w) PROVE TInv'
  <2>1. emit[w] \in Seq(Types) /\ emit[w] # <<>> BY <1>0, <1>3 DEF AppendEvent, Writes
  <2>2. Head(emit[w]) \in Types /\ Tail(emit[w]) \in Seq(Types) BY <2>1
  <2>3. store # Half /\ store' = appendSupervisorEvent(store, ids + 1, Head(emit[w]))
    BY <1>3 DEF AppendEvent
  <2>4. ids + 1 \in Nat BY <1>0
  <2>5. Sound(store') /\ store'.cursor = Cursor(store'.events)
    <3>1. Sound(store) /\ store.cursor = Cursor(store.events) BY <1>0, <2>3
    <3>2. PICK type \in Types, id \in Nat : store' = appendSupervisorEvent(store, id, type)
      BY <2>2, <2>3, <2>4
    <3> QED BY <3>1, <3>2, AppendFacts
  <2>6. emit' \in [Writers -> Seq(Types)] BY <1>0, <1>3, <2>2 DEF AppendEvent
  <2> QED BY <1>0, <1>1, <1>3, <2>4, <2>5, <2>6 DEF AppendEvent, Listed, counts
<1>4. ASSUME NEW w \in Writers, AppendFails(w) PROVE TInv'
  <2>1. Sound(store') /\ store'.cursor = Cursor(store'.events)
    <3>1. store' = [(IF store = Half THEN EmptyStore ELSE store)
            EXCEPT !.session = [health |-> "degraded", degraded |-> TRUE, attention |-> TRUE]]
      BY <1>4 DEF AppendFails, recordSupervisorAppendFailure
    <3> QED BY <1>0, <3>1, EmptyFacts, AppendFailureFacts
  <2>2. emit' \in [Writers -> Seq(Types)]
    <3>1. <<>> \in Seq(Types) BY OneOrNone
    <3> QED BY <1>0, <1>4, <3>1 DEF AppendFails
  <2>3. epoch' \in Nat /\ epoch <= epoch' /\ deaths' \in 0 .. MaxDeaths /\ stray' \in BOOLEAN
    BY <1>0, <1>4 DEF AppendFails
  <2>4. Listed'
    <3>1. call' = call BY <1>4 DEF AppendFails
    <3>2. \A c \in Calls : call[c].epoch \in Nat BY <1>0
    <3> QED BY <1>0, <2>3, <3>1, <3>2 DEF Listed
  <2> QED BY <1>0, <1>1, <1>4, <2>1, <2>2, <2>3, <2>4 DEF AppendFails
<1>5. ASSUME NEW c \in Calls, Dispatch(c) PROVE TInv'
  <2> DEFINE list == listPendingSupervisorEvents(store)
  <2>1. store # Half /\ call' = [call EXCEPT ![c] = [at |-> "await", list |-> list, epoch |-> epoch]]
    BY <1>5 DEF Dispatch
  <2>2. Sound(store) BY <1>0, <2>1
  <2>3. list \in SUBSET Event /\ Bounded(list) BY <2>2, PendingFacts
  <2> HIDE DEF list
  <2>4. call' \in [Calls -> [at : {"idle", "await"}, list : SUBSET Event, epoch : Nat]]
    BY <1>0, <2>1, <2>3
  <2>5. Listed'
    <3>1. epoch' = epoch /\ epoch <= epoch BY <1>0, <1>5 DEF Dispatch
    <3>2. \A d \in Calls : call'[d] = IF d = c THEN [at |-> "await", list |-> list, epoch |-> epoch] ELSE call[d]
      BY <1>0, <2>1
    <3> QED BY <1>0, <2>3, <3>1, <3>2 DEF Listed
  <2>6. calls' \in 0 .. MaxCalls BY <1>0, <1>5 DEF Dispatch
  <2> QED BY <1>0, <1>1, <1>5, <2>1, <2>4, <2>5, <2>6 DEF Dispatch
<1>6. ASSUME NEW c \in Calls, Answer(c) PROVE TInv'
  <2> DEFINE list == call[c].list
  <2>0. list \in SUBSET Event /\ IsFiniteSet(list) BY <1>0 DEF Listed, Bounded
  <2>1. PICK m \in Nat : Seqs(list) \subseteq 1 .. m BY <1>0 DEF Listed, Bounded
  <2>2. PICK a \in Answers(list) :
          /\ \E took \in Taken(list, a[1], a[2]) : accepted' = accepted \union {e.id : e \in took}
          /\ store' = IF store = Half THEN Half ELSE AfterAnswer(store, list, a[1], a[2])
    BY <1>6 DEF Answer
  <2>3. a = <<a[1], a[2]>> BY <2>2 DEF Answers
  <2>4. store' # Half => Sound(store') /\ store'.cursor = Cursor(store'.events)
    <3> HIDE DEF list
    <3>1. CASE store = Half BY <2>2, <3>1
    <3>2. CASE store # Half
      <4>1. Sound(store) /\ store.cursor = Cursor(store.events) BY <1>0, <3>2
      <4>2. <<a[1], a[2]>> \in Answers(list) /\ store' = AfterAnswer(store, list, a[1], a[2])
        BY <2>2, <2>3, <3>2
      <4> QED BY <4>1, <4>2, <2>0, <2>1, AnswerFacts
    <3> QED BY <3>1, <3>2
  <2>5. accepted' \subseteq Nat
    <3>1. PICK took \in Taken(list, a[1], a[2]) : accepted' = accepted \union {e.id : e \in took}
      BY <2>2
    <3>2. took \subseteq list BY DEF Taken, First
    <3>3. \A e \in took : e.id \in Nat BY <2>0, <3>2 DEF Event
    <3> QED BY <1>0, <3>1, <3>3
  <2>6. /\ call' = [call EXCEPT ![c] = Idle]
        /\ call' \in [Calls -> [at : {"idle", "await"}, list : SUBSET Event, epoch : Nat]]
    BY <1>0, <1>6 DEF Answer, Idle
  <2>7. Listed'
    <3>1. epoch' = epoch /\ 0 <= epoch BY <1>0, <1>6 DEF Answer
    <3>2. \A d \in Calls : call'[d] = call[d] \/ (call'[d].list = {} /\ call'[d].epoch = 0)
      BY <1>0, <2>6 DEF Idle
    <3> QED BY <1>0, <3>1, <3>2, NothingBounded DEF Listed
  <2>8. stray' \in BOOLEAN BY <1>0, <1>6 DEF Answer
  <2> QED BY <1>0, <1>1, <1>6, <2>4, <2>5, <2>6, <2>7, <2>8 DEF Answer, counts
<1>7. ASSUME NEW m \in Inbox, ReceiveInbound(m) PROVE TInv'
  <2>1. Sound(store') /\ store'.cursor = Cursor(store'.events)
    <3>1. store # Half /\ store' = recordInboundSupervisorMessage(store, m, adjudicateInboundMessage(m))
      BY <1>7 DEF ReceiveInbound
    <3> QED BY <1>0, <3>1, InboundFacts
  <2>2. messages' \in Nat BY <1>0, <1>7 DEF ReceiveInbound
  <2> QED BY <1>0, <1>1, <1>7, <2>1, <2>2 DEF ReceiveInbound, Listed
<1>8. ASSUME Die PROVE TInv'
  <2>1. emit' \in [Writers -> Seq(Types)]
    <3>1. <<>> \in Seq(Types) BY OneOrNone
    <3> QED BY <1>0, <1>8, <3>1 DEF Die
  <2>2. call' \in [Calls -> [at : {"idle", "await"}, list : SUBSET Event, epoch : Nat]]
    BY <1>0, <1>8 DEF Die, Idle
  <2>3. Listed'
    <3>1. epoch' = epoch /\ 0 <= epoch BY <1>0, <1>8 DEF Die
    <3>2. \A d \in Calls : call'[d] = call[d] \/ (call'[d].list = {} /\ call'[d].epoch = 0)
      BY <1>0, <1>8 DEF Die, Idle
    <3> QED BY <1>0, <3>1, <3>2, NothingBounded DEF Listed
  <2>4. store' # Half => Sound(store') /\ store'.cursor = Cursor(store'.events)
    BY <1>0, <1>8 DEF Die
  <2>5. deaths' \in 0 .. MaxDeaths BY <1>0, <1>8 DEF Die
  <2> QED BY <1>0, <1>1, <1>8, <2>1, <2>2, <2>3, <2>4, <2>5 DEF Die
<1>9. CASE UNCHANGED vars BY <1>0, <1>1, <1>9 DEF vars, counts, Listed
<1> QED BY <1>2, <1>3, <1>4, <1>5, <1>6, <1>7, <1>8, <1>9 DEF Next

----------------------------------------------------------------------------
(* The call for a human.                                                      *)

Human == "human_attention_needed"
Coming(w) == Human \in Range(emit[w])

LEMMA NothingFollowed == Followed(<<>>) /\ Human \notin Range(<<>>)
<1>1. Len(<<>>) = 0 /\ DOMAIN <<>> = {} OBVIOUS
<1> QED BY <1>1 DEF Followed, Range

\* The events of the new store have the types of the old; nobody forgets the call.
LEMMA HumanStillCalled ==
    ASSUME TInv, TInv', HInv, deaths' = deaths,
           store' # Half => /\ store # Half /\ Len(store'.events) = Len(store.events)
                            /\ \A i \in 1 .. Len(store.events) : store'.events[i].type = store.events[i].type,
           \A w \in Writers : Followed(emit'[w]) /\ (Coming(w) => Coming(w)')
    PROVE  HInv'
<1>1. CASE ~(store' # Half /\ deaths' = 0) BY <1>1 DEF HInv, HumanIsCalled
<1>2. CASE store' # Half /\ deaths' = 0
  <2>1. store # Half /\ deaths = 0 /\ Sound(store) /\ Sound(store') BY <1>2 DEF TInv, Numbered
  <2>2. DOMAIN store.events = 1 .. Len(store.events) /\ DOMAIN store'.events = 1 .. Len(store.events)
    BY <2>1, <1>2, SeqsWith
  <2>3. \A i \in 1 .. Len(store.events) : store.events[i].type \in CallsForHuman
        => \/ \E j \in 1 .. Len(store.events) : j > i /\ store.events[j].type = Human
           \/ \E w \in Writers : Coming(w)
    BY <2>1, <2>2 DEF HInv, HumanIsCalled, Human, Coming
  <2>4. \A i \in 1 .. Len(store.events) : store'.events[i].type \in CallsForHuman
        => \/ \E j \in 1 .. Len(store.events) : j > i /\ store'.events[j].type = Human
           \/ \E w \in Writers : Coming(w)'
    BY <2>3, <1>2
  <2>5. HumanIsCalled' BY <2>2, <2>4 DEF HumanIsCalled, Human, Coming
  <2> QED BY <2>5 DEF HInv
<1> QED BY <1>1, <1>2

\* The next event of a writer is appended.
LEMMA HumanAfterAppend ==
    ASSUME TInv, TInv', HInv, NEW w \in Writers, AppendEvent(w)
    PROVE  HInv'
<1>1. /\ store # Half /\ store' = appendSupervisorEvent(store, ids + 1, Head(emit[w]))
      /\ emit[w] # <<>> /\ emit' = [emit EXCEPT ![w] = Tail(emit[w])] /\ deaths' = deaths
  BY DEF AppendEvent, Writes, counts
<1>2. /\ Sound(store) /\ store.cursor = Cursor(store.events) /\ ids + 1 \in Nat
      /\ emit \in [Writers -> Seq(Types)]
  BY <1>1 DEF TInv, TypeOK, Numbered
<1> DEFINE n == Len(store.events)
<1> DEFINE s == emit[w]
<1>3. /\ s \in Seq(Types) /\ s # <<>> /\ Len(s) \in Nat \ {0}
      /\ Head(s) \in Types /\ Head(s) = s[1]
      /\ Len(Tail(s)) = Len(s) - 1 /\ \A p \in 1 .. Len(s) - 1 : Tail(s)[p] = s[p + 1]
      /\ Tail(s) \in Seq(Types)
  <2>1. s \in Seq(Types) /\ s # <<>> BY <1>1, <1>2
  <2> HIDE DEF s
  <2> QED BY <2>1, HeadTailProperties
<1>4. /\ Sound(store') /\ Len(store'.events) = n + 1 /\ n \in Nat
      /\ \A i \in 1 .. n : store'.events[i] = store.events[i]
      /\ store'.events[n + 1].type = s[1]
  <2>1. /\ Sound(store') /\ Len(store'.events) = n + 1
        /\ \A i \in 1 .. n : store'.events[i] = store.events[i]
        /\ store'.events[n + 1] = [id |-> ids + 1, seq |-> n + 1, type |-> Head(s), status |-> "pending"]
    BY <1>1, <1>2, <1>3, AppendFacts DEF OneMore
  <2>2. n \in Nat BY <1>2, SeqsWith
  <2> HIDE DEF n, s
  <2> QED BY <2>1, <2>2, <1>3
<1>5. Followed(s) BY DEF HInv
<1>6. Followed(Tail(s))
  <2> SUFFICES ASSUME NEW p \in 1 .. Len(Tail(s)), Tail(s)[p] \in CallsForHuman
               PROVE  \E q \in 1 .. Len(Tail(s)) : q > p /\ Tail(s)[q] = "human_attention_needed"
    BY DEF Followed
  <2> HIDE DEF s
  <2>1. p + 1 \in 1 .. Len(s) /\ s[p + 1] \in CallsForHuman BY <1>3
  <2>2. PICK q \in 1 .. Len(s) : q > p + 1 /\ s[q] = "human_attention_needed" BY <2>1, <1>5 DEF Followed
  <2>3. q - 1 \in 1 .. Len(Tail(s)) /\ q - 1 > p BY <2>2, <1>3
  <2>4. Tail(s)[q - 1] = s[q] BY <2>2, <2>3, <1>3
  <2> QED BY <2>2, <2>3, <2>4
<1>7. \A v \in Writers : emit'[v] = IF v = w THEN Tail(s) ELSE emit[v] BY <1>1, <1>2
<1>8. \A v \in Writers : Followed(emit'[v]) BY <1>6, <1>7 DEF HInv
\* The call was among the events of the writer: it has been appended or it remains.
<1>9. Coming(w) => store'.events[n + 1].type = Human \/ Coming(w)'
  <2> SUFFICES ASSUME Coming(w), s[1] # Human PROVE Human \in Range(Tail(s))
    BY <1>4, <1>7 DEF Coming
  <2>1. PICK p \in 1 .. Len(s) : s[p] = Human
    <3>1. DOMAIN s = 1 .. Len(s) BY <1>3
    <3> QED BY <3>1 DEF Coming, Range
  <2> HIDE DEF s
  <2>2. p - 1 \in 1 .. Len(Tail(s)) /\ Tail(s)[p - 1] = Human BY <2>1, <1>3
  <2>3. DOMAIN Tail(s) = 1 .. Len(Tail(s)) BY <1>3
  <2> QED BY <2>2, <2>3 DEF Range
<1>10. s[1] \in CallsForHuman => Coming(w)'
  <2> SUFFICES ASSUME s[1] \in CallsForHuman PROVE Human \in Range(Tail(s))
    BY <1>7 DEF Coming
  <2> HIDE DEF s
  <2>1. PICK q \in 1 .. Len(s) : q > 1 /\ s[q] = Human BY <1>3, <1>5 DEF Followed, Human
  <2>2. q - 1 \in 1 .. Len(Tail(s)) /\ Tail(s)[q - 1] = Human BY <2>1, <1>3
  <2>3. DOMAIN Tail(s) = 1 .. Len(Tail(s)) BY <1>3
  <2> QED BY <2>2, <2>3 DEF Range
<1>11. HumanIsCalled'
  <2>1. DOMAIN store.events = 1 .. n /\ DOMAIN store'.events = 1 .. n + 1
    BY <1>2, <1>4, SeqsWith
  <2> SUFFICES ASSUME deaths' = 0, NEW i \in 1 .. n + 1, store'.events[i].type \in CallsForHuman
               PROVE  \/ \E j \in 1 .. n + 1 : j > i /\ store'.events[j].type = Human
                      \/ \E v \in Writers : Coming(v)'
    BY <2>1 DEF HumanIsCalled, Human, Coming
  <2> HIDE DEF n, s
  <2>2. CASE i = n + 1 BY <2>2, <1>4, <1>10
  <2>3. CASE i \in 1 .. n
    <3>1. store.events[i].type \in CallsForHuman BY <2>3, <1>4
    <3>2. \/ \E j \in 1 .. n : j > i /\ store.events[j].type = Human
          \/ \E v \in Writers : Coming(v)
      BY <3>1, <2>1, <2>3, <1>1 DEF HInv, HumanIsCalled, Human, Coming
    <3>3. CASE \E j \in 1 .. n : j > i /\ store.events[j].type = Human BY <3>3, <1>4
    <3>4. CASE \E v \in Writers : Coming(v)
      <4>1. PICK v \in Writers : Coming(v) BY <3>4
      <4>2. CASE v = w BY <4>1, <4>2, <1>4, <1>9, <2>3
      <4>3. CASE v # w
        <5>1. Coming(v)' BY <4>1, <4>3, <1>7 DEF Coming
        <5> QED BY <5>1
      <4> QED BY <4>2, <4>3
    <3> QED BY <3>2, <3>3, <3>4
  <2> QED BY <2>2, <2>3, <1>4
<1> QED BY <1>8, <1>11 DEF HInv

\* An answer: n events of the list, the first, were accepted, perhaps more.
LEMMA AnswerStep ==
    ASSUME TInv, NEW c \in Calls, Answer(c), store # Half
    PROVE  /\ call[c].list \in SUBSET Event /\ IsFiniteSet(call[c].list)
           /\ SameEvents(store, store')
           /\ \E n \in Nat :
                /\ \A e \in First(call[c].list, n) : e.id \in accepted'
                /\ accepted \subseteq accepted'
                /\ \/ Tries(store, store', call[c].list, n)
                   \/ n = Cardinality(call[c].list) /\ Marks(store, store', call[c].list)
<1> DEFINE list == call[c].list
<1>1. /\ Sound(store) /\ store.cursor = Cursor(store.events)
      /\ call \in [Calls -> [at : {"idle", "await"}, list : SUBSET Event, epoch : Nat]]
      /\ Listed
  BY DEF TInv, TypeOK, Numbered
<1>2. list \in SUBSET Event /\ IsFiniteSet(list) BY <1>1 DEF Listed, Bounded
<1>3. PICK m \in Nat : Seqs(list) \subseteq 1 .. m BY <1>1 DEF Listed, Bounded
<1>4. PICK a \in Answers(list) :
        /\ \E took \in Taken(list, a[1], a[2]) : accepted' = accepted \union {e.id : e \in took}
        /\ store' = IF store = Half THEN Half ELSE AfterAnswer(store, list, a[1], a[2])
  BY DEF Answer
<1>5. a = <<a[1], a[2]>> /\ a[2] \in Nat
  <2>1. Cardinality(list) \in Nat BY <1>2, FS_CardinalityType
  <2> HIDE DEF list
  <2> QED BY <1>4, <2>1 DEF Answers
<1>6. /\ SameEvents(store, store')
      /\ Tries(store, store', list, a[2]) \/ (a[2] = Cardinality(list) /\ Marks(store, store', list))
  <2>1. <<a[1], a[2]>> \in Answers(list) /\ store' = AfterAnswer(store, list, a[1], a[2])
    BY <1>4, <1>5
  <2> HIDE DEF list
  <2> QED BY <2>1, <1>1, <1>2, <1>3, AnswerFacts
<1>7. PICK took \in Taken(list, a[1], a[2]) : accepted' = accepted \union {e.id : e \in took} BY <1>4
<1>8. First(list, a[2]) \subseteq took BY <1>7 DEF Taken, First
<1>9. /\ \A e \in First(list, a[2]) : e.id \in accepted'
      /\ accepted \subseteq accepted'
  BY <1>7, <1>8
<1> QED BY <1>2, <1>5, <1>6, <1>9

LEMMA HumanStays == TInv /\ TInv' /\ HInv /\ [Next]_vars => HInv'
<1> SUFFICES ASSUME TInv, TInv', HInv, [Next]_vars PROVE HInv' OBVIOUS
<1>0. emit \in [Writers -> Seq(Types)] /\ \A w \in Writers : Followed(emit[w])
  BY DEF TInv, TypeOK, HInv
<1>1. ASSUME NEW w \in Writers, Commit(w) PROVE HInv'
  <2>1. /\ store' = store /\ deaths' = deaths /\ emit[w] = <<>>
        /\ \E change : emit' = [emit EXCEPT ![w] = Announced(change)]
    BY <1>1 DEF Commit, Writes, counts
  <2>2. \A v \in Writers : Followed(emit'[v]) /\ (Coming(v) => Coming(v)')
    <3>1. ~Coming(w) BY <2>1, NothingFollowed DEF Coming
    <3>2. \A v \in Writers : v # w => emit'[v] = emit[v] BY <1>0, <2>1
    <3>3. Followed(emit'[w]) BY <1>0, <2>1, AnnouncedCalls
    <3> QED BY <1>0, <3>1, <3>2, <3>3 DEF Coming
  <2> QED BY <2>1, <2>2, HumanStillCalled
<1>2. ASSUME NEW w \in Writers, AppendEvent(w) PROVE HInv' BY <1>2, HumanAfterAppend
<1>3. ASSUME NEW w \in Writers, AppendFails(w) PROVE HInv'
  <2>1. /\ emit' = [emit EXCEPT ![w] = <<>>]
        /\ store' = recordSupervisorAppendFailure(store)
        /\ store = Half \/ deaths' = deaths + 1
    BY <1>3 DEF AppendFails
  <2>2. \A v \in Writers : Followed(emit'[v]) BY <1>0, <2>1, NothingFollowed
  <2>3. HumanIsCalled'
    <3>1. CASE store = Half
      <4>1. store'.events = EmptyStore.events
        BY <2>1, <3>1 DEF recordSupervisorAppendFailure, EmptyStore
      <4>2. DOMAIN store'.events = {} BY <4>1 DEF EmptyStore
      <4> QED BY <4>2 DEF HumanIsCalled
    <3>2. CASE deaths' = deaths + 1
      <4>1. deaths' # 0 BY <3>2 DEF TInv, TypeOK
      <4> QED BY <4>1 DEF HumanIsCalled
    <3> QED BY <2>1, <3>1, <3>2
  <2> QED BY <2>2, <2>3 DEF HInv
<1>4. ASSUME NEW c \in Calls, Dispatch(c) PROVE HInv'
  <2>1. store' = store /\ emit' = emit /\ deaths' = deaths BY <1>4 DEF Dispatch
  <2> QED BY <2>1, <1>0, HumanStillCalled DEF Coming
<1>5. ASSUME NEW c \in Calls, Answer(c) PROVE HInv'
  <2>1. emit' = emit /\ deaths' = deaths /\ (store = Half => store' = Half)
    BY <1>5 DEF Answer, counts
  <2>2. store' # Half => /\ store # Half /\ Len(store'.events) = Len(store.events)
                         /\ \A i \in 1 .. Len(store.events) : store'.events[i].type = store.events[i].type
    BY <2>1, <1>5, AnswerStep DEF SameEvents
  <2> QED BY <2>1, <2>2, <1>0, HumanStillCalled DEF Coming
<1>6. ASSUME NEW m \in Inbox, ReceiveInbound(m) PROVE HInv'
  <2>1. /\ emit' = emit /\ deaths' = deaths /\ store # Half
        /\ store' = recordInboundSupervisorMessage(store, m, adjudicateInboundMessage(m))
    BY <1>6 DEF ReceiveInbound
  <2>2. Sound(store) /\ store.cursor = Cursor(store.events) BY <2>1 DEF TInv, Numbered
  <2>3. store'.events = store.events BY <2>1, <2>2, InboundFacts
  <2> QED BY <2>1, <2>3, <1>0, HumanStillCalled DEF Coming
<1>7. ASSUME Die PROVE HInv'
  <2>1. deaths' # 0 BY <1>7 DEF Die, TInv, TypeOK
  <2>2. \A v \in Writers : emit'[v] = emit[v] \/ emit'[v] = <<>> BY <1>0, <1>7 DEF Die
  <2>3. \A v \in Writers : Followed(emit'[v]) BY <1>0, <2>2, NothingFollowed
  <2> QED BY <2>1, <2>3 DEF HInv, HumanIsCalled
<1>8. CASE UNCHANGED vars
  <2>1. store' = store /\ emit' = emit /\ deaths' = deaths BY <1>8 DEF vars, counts
  <2> QED BY <2>1, <1>0, HumanStillCalled DEF Coming
<1> QED BY <1>1, <1>2, <1>3, <1>4, <1>5, <1>6, <1>7, <1>8 DEF Next

LEMMA InitHuman == Init => HInv
<1> SUFFICES ASSUME Init PROVE HInv OBVIOUS
<1>1. DOMAIN store.events = {} BY DEF Init, EmptyStore
<1>2. \A w \in Writers : Followed(emit[w]) BY NothingFollowed DEF Init
<1> QED BY <1>1, <1>2 DEF HInv, HumanIsCalled

----------------------------------------------------------------------------
(* What counts as delivered was accepted.                                     *)

LEMMA EventsSound ==
    ASSUME TInv, store # Half
    PROVE  /\ Sound(store) /\ store.cursor = Cursor(store.events)
           /\ Len(store.events) \in Nat /\ DOMAIN store.events = Events
           /\ \A i \in Events : store.events[i] \in Event /\ store.events[i].seq = i
<1>1. Sound(store) /\ store.cursor = Cursor(store.events) BY DEF TInv, Numbered
<1> QED BY <1>1, SeqsWith DEF Events, Sound

\* The same events, and no call that awaits an answer but those that did.
LEMMA DeliveryUndisturbed ==
    ASSUME DInv, epoch' = epoch, stray' = stray, accepted' = accepted,
           store' # Half => store # Half /\ store'.events = store.events,
           \A d \in Calls : call'[d] = call[d] \/ ~Awaits(d)'
    PROVE  DInv'
<1>1. CASE store' = Half BY <1>1 DEF DInv, DeliveredWasAccepted, Named, Covered, Above
<1>2. CASE store' # Half
  <2>1. store # Half /\ store'.events = store.events BY <1>2
  <2>2. Events' = Events /\ \A i : Unsent(i)' <=> Unsent(i) BY <2>1 DEF Events, Unsent
  <2>3. \A d \in Calls : Awaits(d)' => Awaits(d) /\ call'[d] = call[d] BY DEF Awaits
  <2>4. DeliveredWasAccepted' BY <2>1 DEF DInv, DeliveredWasAccepted
  <2>5. Named' BY <2>1, <2>2, <2>3 DEF DInv, Named
  <2>6. Covered' BY <2>1, <2>2, <2>3 DEF DInv, Covered
  <2>7. Above' BY <2>1, <2>2 DEF DInv, Above
  <2> QED BY <2>4, <2>5, <2>6, <2>7 DEF DInv
<1> QED BY <1>1, <1>2

LEMMA DeliveryAfterAppend ==
    ASSUME TInv, TInv', DInv, NEW w \in Writers, AppendEvent(w)
    PROVE  DInv'
<1>1. /\ store # Half /\ store' = appendSupervisorEvent(store, ids + 1, Head(emit[w]))
      /\ emit[w] # <<>> /\ call' = call /\ accepted' = accepted /\ epoch' = epoch /\ stray' = stray
  BY DEF AppendEvent, Writes
<1>2. /\ Sound(store) /\ store.cursor = Cursor(store.events)
      /\ Len(store.events) \in Nat /\ DOMAIN store.events = Events
      /\ \A i \in Events : store.events[i] \in Event /\ store.events[i].seq = i
  BY <1>1, EventsSound
<1> DEFINE n == Len(store.events)
<1>3. /\ Sound(store') /\ Len(store'.events) = n + 1
      /\ \A i \in 1 .. n : store'.events[i] = store.events[i]
      /\ store'.events[n + 1].status = "pending"
  <2>1. emit[w] \in Seq(Types) /\ ids + 1 \in Nat BY DEF TInv, TypeOK
  <2>2. Head(emit[w]) \in Types BY <1>1, <2>1
  <2>3. /\ Sound(store') /\ Len(store'.events) = n + 1
        /\ \A i \in 1 .. n : store'.events[i] = store.events[i]
        /\ store'.events[n + 1] = [id |-> ids + 1, seq |-> n + 1, type |-> Head(emit[w]), status |-> "pending"]
    BY <1>1, <1>2, <2>1, <2>2, AppendFacts DEF OneMore
  <2> QED BY <2>3
<1>4. Events' = 1 .. n + 1 /\ Events = 1 .. n /\ n \in Nat BY <1>2, <1>3 DEF Events
<1>5. DOMAIN store'.events = 1 .. n + 1 BY <1>3, SeqsWith
<1>6. \A i \in 1 .. n : Unsent(i)' <=> Unsent(i) BY <1>1, <1>3 DEF Unsent
<1>7. \A d \in Calls : Awaits(d)' <=> Awaits(d) BY <1>1 DEF Awaits
<1> HIDE DEF n
<1>8. DeliveredWasAccepted'
  BY <1>1, <1>2, <1>3, <1>4, <1>5 DEF DInv, DeliveredWasAccepted, Range
<1>9. Named' BY <1>1, <1>3, <1>4, <1>7 DEF DInv, Named
<1>10. Covered'
  <2> SUFFICES ASSUME ~stray, NEW d \in Calls, Awaits(d), NEW e \in call[d].list, NEW i \in 1 .. n + 1,
                      i <= e.seq, Unsent(i)'
               PROVE  i \in Seqs(call[d].list)
    BY <1>1, <1>4, <1>7 DEF Covered
  <2>1. e.seq \in 1 .. n BY <1>1, <1>4 DEF DInv, Named
  <2>2. i \in 1 .. n BY <2>1, <1>4
  <2> QED BY <2>2, <1>1, <1>4, <1>6 DEF DInv, Covered
<1>11. Above'
  <2> SUFFICES ASSUME ~stray, NEW i \in 1 .. n + 1, NEW j \in 1 .. n + 1,
                      store'.events[i].status = "delivered", Unsent(j)'
               PROVE  i < j
    BY <1>1, <1>4 DEF Above
  <2>1. i \in 1 .. n BY <1>3, <1>4
  <2>2. CASE j = n + 1 BY <2>1, <2>2, <1>4
  <2>3. CASE j \in 1 .. n BY <2>1, <2>3, <1>1, <1>3, <1>4, <1>6 DEF DInv, Above
  <2> QED BY <2>2, <2>3, <1>4
<1> QED BY <1>8, <1>9, <1>10, <1>11 DEF DInv

LEMMA DeliveryAfterDispatch ==
    ASSUME TInv, DInv, NEW c \in Calls, Dispatch(c)
    PROVE  DInv'
<1> DEFINE list == listPendingSupervisorEvents(store)
<1>1. /\ store # Half /\ store' = store /\ accepted' = accepted /\ epoch' = epoch /\ stray' = stray
      /\ call' = [call EXCEPT ![c] = [at |-> "await", list |-> list, epoch |-> epoch]]
  BY DEF Dispatch
<1>2. /\ Sound(store) /\ Len(store.events) \in Nat /\ DOMAIN store.events = Events
      /\ \A i \in Events : store.events[i] \in Event /\ store.events[i].seq = i
  BY <1>1, EventsSound
<1>3. /\ list \subseteq With(store.events, Retryable) /\ list \in SUBSET Event
      /\ Seqs(list) \subseteq 1 .. Len(store.events)
  BY <1>2, PendingFacts
<1>4. \A d \in Calls : call'[d] = IF d = c THEN [at |-> "await", list |-> list, epoch |-> epoch] ELSE call[d]
  <2>1. DOMAIN call = Calls BY DEF TInv, TypeOK
  <2> HIDE DEF list
  <2> QED BY <1>1, <2>1
<1>5. Events' = Events /\ \A i : Unsent(i)' <=> Unsent(i) BY <1>1 DEF Events, Unsent
<1>6. \A d \in Calls : d # c => (Awaits(d)' <=> Awaits(d)) /\ call'[d] = call[d] BY <1>1, <1>4 DEF Awaits
<1>7. call'[c].list = list BY <1>4
<1>8. \A e \in list : e.seq \in Events /\ store.events[e.seq] = e
  <2> SUFFICES ASSUME NEW e \in list PROVE e.seq \in Events /\ store.events[e.seq] = e OBVIOUS
  <2>1. e \in Range(store.events) BY <1>3 DEF With
  <2>2. PICK i \in Events : e = store.events[i] BY <1>2, <2>1 DEF Range
  <2> QED BY <1>2, <2>2
<1>9. \A e \in list : \A i \in Events : i <= e.seq /\ Unsent(i) => i \in Seqs(list)
  <2> SUFFICES ASSUME NEW e \in list, NEW i \in Events, i <= e.seq, Unsent(i) PROVE i \in Seqs(list)
    OBVIOUS
  <2> DEFINE all == With(store.events, Retryable)
  <2>1. list = First(all, Limit) BY DEF listPendingSupervisorEvents
  <2>2. all \subseteq Range(store.events) /\ all \in SUBSET Event BY <1>2, SeqsWith DEF With
  <2>3. IsFiniteSet(all)
    <3>1. store.events \in [Events -> Range(store.events)]
      <4>1. store.events \in Seq(Event) BY <1>2 DEF Sound, Store
      <4> QED BY <4>1, <1>2 DEF Range
    <3>2. store.events \in Surjection(Events, Range(store.events))
      BY <3>1, <1>2 DEF Surjection, Range
    <3>3. IsFiniteSet(Events)
      <4>1. PICK n \in Int : n = Len(store.events) BY <1>2
      <4>2. IsFiniteSet(1 .. n) BY FS_Interval
      <4> QED BY <4>1, <4>2 DEF Events
    <3>4. IsFiniteSet(Range(store.events)) BY <3>2, <3>3, FS_Surjection
    <3> HIDE DEF all
    <3> QED BY <3>4, <2>2, FS_Subset
  <2>4. store.events[i] \in all BY <1>2 DEF With, Range, Unsent
  <2>5. store.events[i].seq <= e.seq BY <1>2
  <2>6. store.events[i] \in list
    <3>1. Limit \in Nat BY DialogueAssumption
    <3> HIDE DEF all, list
    <3> QED BY <3>1, <2>1, <2>2, <2>3, <2>4, <2>5, FirstFacts
  <2> HIDE DEF list
  <2> QED BY <2>6, <1>2 DEF Seqs
<1> HIDE DEF list
<1>10. DeliveredWasAccepted' BY <1>1 DEF DInv, DeliveredWasAccepted
<1>11. Named'
  <2>1. ASSUME NEW d \in Calls, Awaits(d)', NEW e \in call'[d].list
        PROVE  e.seq \in Events /\ store.events[e.seq].id = e.id
    <3>1. CASE d = c BY <2>1, <3>1, <1>7, <1>8
    <3>2. CASE d # c BY <2>1, <3>2, <1>1, <1>6 DEF DInv, Named
    <3> QED BY <3>1, <3>2
  <2> QED BY <2>1, <1>1, <1>5 DEF Named
<1>12. Covered'
  <2>1. ASSUME ~stray, NEW d \in Calls, Awaits(d)', NEW e \in call'[d].list,
               NEW i \in Events, i <= e.seq, Unsent(i)
        PROVE  i \in Seqs(call'[d].list)
    <3>1. CASE d = c BY <2>1, <3>1, <1>7, <1>9
    <3>2. CASE d # c BY <2>1, <3>2, <1>1, <1>6 DEF DInv, Covered
    <3> QED BY <3>1, <3>2
  <2> QED BY <2>1, <1>1, <1>5 DEF Covered
<1>13. Above' BY <1>1, <1>5 DEF DInv, Above
<1> QED BY <1>10, <1>11, <1>12, <1>13 DEF DInv

LEMMA DeliveryAfterAnswer ==
    ASSUME TInv, TInv', DInv, NEW c \in Calls, Answer(c)
    PROVE  DInv'
<1> DEFINE list == call[c].list
<1>1. /\ call' = [call EXCEPT ![c] = Idle] /\ epoch' = epoch /\ call[c].at = "await"
      /\ stray' = (stray \/ (store # Half /\ (call[c].epoch # epoch \/ Reopened)))
      /\ store = Half => store' = Half
  BY DEF Answer
<1>2. \A d \in Calls : Awaits(d)' => d # c /\ Awaits(d) /\ call'[d] = call[d]
  <2>1. DOMAIN call = Calls BY DEF TInv, TypeOK
  <2> QED BY <1>1, <2>1 DEF Awaits, Idle
<1>3. CASE store' = Half BY <1>3 DEF DInv, DeliveredWasAccepted, Named, Covered, Above
<1>4. CASE store' # Half
  <2>0. store # Half BY <1>1, <1>4
  <2>1. /\ Sound(store) /\ store.cursor = Cursor(store.events)
        /\ Len(store.events) \in Nat /\ DOMAIN store.events = Events
        /\ \A i \in Events : store.events[i] \in Event /\ store.events[i].seq = i
    BY <2>0, EventsSound
  <2>2. Sound(store') BY <1>4 DEF TInv, Numbered
  <2>3. list \in SUBSET Event /\ IsFiniteSet(list) /\ SameEvents(store, store')
    BY <2>0, AnswerStep
  <2>4. PICK n \in Nat :
          /\ \A e \in First(list, n) : e.id \in accepted'
          /\ accepted \subseteq accepted'
          /\ \/ Tries(store, store', list, n)
             \/ n = Cardinality(list) /\ Marks(store, store', list)
    BY <2>0, AnswerStep
  <2>5. /\ Events' = Events /\ DOMAIN store'.events = Events
        /\ \A i \in Events : store'.events[i].id = store.events[i].id
    <3>1. DOMAIN store'.events = 1 .. Len(store'.events) BY <2>2, SeqsWith
    <3> QED BY <2>3, <3>1 DEF SameEvents, Events
  <2>6. /\ First(list, n) \subseteq list
        /\ First(list, Cardinality(list)) = list
        /\ \A e \in First(list, n), f \in list : f.seq <= e.seq => f \in First(list, n)
    <3> HIDE DEF list
    <3> QED BY <2>3, FirstFacts
  <2>7. Named' BY <2>0, <1>2, <2>5 DEF DInv, Named
  <2>8. CASE stray' BY <2>7, <2>8 DEF DInv, DeliveredWasAccepted, Covered, Above
  <2>9. CASE ~stray'
    <3>1. ~stray /\ call[c].epoch = epoch /\ ~Reopened /\ Awaits(c) BY <1>1, <2>0, <2>9 DEF Awaits
    <3>2. \A i \in Events : store.events[i].status = "delivered" => store.events[i].id \in accepted
      BY <2>0, <2>1, <3>1 DEF DInv, DeliveredWasAccepted, Range
    <3>3. \A e \in list : e.seq \in Events /\ store.events[e.seq].id = e.id
      BY <2>0, <3>1 DEF DInv, Named
    <3>4. \A e \in list : \A i \in Events : i <= e.seq /\ Unsent(i) => i \in Seqs(list)
      BY <2>0, <3>1 DEF DInv, Covered
    <3>5. \A i, j \in Events : store.events[i].status = "delivered" /\ Unsent(j) => i < j
      BY <2>0, <3>1 DEF DInv, Above
    <3>6. \A i \in Events : store.events[i].status = "skipped" /\ store'.events[i].status = "failed"
                            => store.events[i].id \in accepted'
      BY <2>1, <2>5, <3>1 DEF Reopened
    <3>7. \A i \in Events : store.events[i].status \in Statuses BY <2>1 DEF Event
    <3> DEFINE Now(i) == store'.events[i].status
    <3> DEFINE Was(i) == store.events[i].status
    \* What remains to be shown of either kind of answer.
    <3>8. /\ \A i \in Events : Now(i) \in Retryable /\ ~(Was(i) \in Retryable) =>
                 Now(i) = "failed" /\ Was(i) \in {"delivered", "skipped"}
          /\ \A i \in Events : Now(i) = "delivered" /\ Was(i) # "delivered" =>
                 /\ store.events[i].id \in accepted'
                 /\ \A j \in Events : Unsent(j) /\ Unsent(j)' => i < j
      <4>1. CASE Tries(store, store', list, n)
        <5>1. PICK T \in SUBSET Seqs(list), given \in {{}, First(list, n)}, other \in {"failed", "skipped"} :
                Attempted(store, store', T, given, other)
          BY <4>1 DEF Tries
        <5>2. \A i \in Events : Now(i) = IF i \in T THEN IF i \in Seqs(given) THEN "delivered" ELSE other
                                         ELSE Was(i)
          BY <5>1 DEF Attempted, Events
        <5>3. \A i \in Events : Now(i) \in Retryable /\ ~(Was(i) \in Retryable) =>
                 Now(i) = "failed" /\ Was(i) \in {"delivered", "skipped"}
          <6> HIDE DEF Now, Was
          <6>1. \A i \in Events : Was(i) \in Statuses BY <3>7 DEF Was
          <6> QED BY <5>2, <6>1 DEF Retryable, Statuses
        <5>4. ASSUME NEW i \in Events, Now(i) = "delivered", Was(i) # "delivered"
              PROVE  /\ store.events[i].id \in accepted'
                     /\ \A j \in Events : Unsent(j) /\ Unsent(j)' => i < j
          <6>1. i \in Seqs(given) BY <5>2, <5>4
          <6>2. PICK e \in First(list, n) : e.seq = i BY <5>1, <6>1 DEF Seqs
          <6>3. e \in list /\ store.events[i].id = e.id BY <2>6, <3>3, <6>2
          <6>4. store.events[i].id \in accepted' BY <2>4, <6>2, <6>3
          <6>5. ASSUME NEW j \in Events, Unsent(j), Unsent(j)', ~(i < j) PROVE FALSE
            <7>1. j <= e.seq
              <8>1. i \in Nat /\ j \in Nat BY <2>1 DEF Events
              <8> QED BY <6>2, <6>5, <8>1
            <7>2. j \in Seqs(list) BY <3>4, <6>3, <6>5, <7>1
            <7>3. PICK f \in list : f.seq = j BY <7>2 DEF Seqs
            <7>4. f \in First(list, n) BY <2>6, <6>2, <7>1, <7>3
            <7>5. f.id \in accepted' /\ store.events[j].id = f.id BY <2>4, <3>3, <7>3, <7>4
            <7> QED BY <2>5, <6>5, <7>5 DEF Unsent
          <6> QED BY <6>4, <6>5
        <5> HIDE DEF Now, Was
        <5> QED BY <5>3, <5>4
      <4>2. CASE n = Cardinality(list) /\ Marks(store, store', list)
        <5>1. PICK b \in Nat : /\ Marked(store, store', b)
                               /\ b <= Highest(Seqs(list)) \/ b <= store.cursor
                               /\ store.cursor <= b
          BY <4>2 DEF Marks
        <5>2. \A i \in Events : Now(i) = IF i <= b /\ Was(i) \in Retryable THEN "delivered" ELSE Was(i)
          BY <5>1 DEF Marked, Events
        <5>3. \A i \in Events : Now(i) \in Retryable => Was(i) \in Retryable
          <6> HIDE DEF Now, Was
          <6> QED BY <5>2 DEF Retryable
        <5>4. First(list, n) = list BY <4>2, <2>6
        <5>5. Events \subseteq Nat BY <2>1 DEF Events
        <5>6. ASSUME NEW i \in Events, Now(i) = "delivered", Was(i) # "delivered"
              PROVE  /\ store.events[i].id \in accepted'
                     /\ \A j \in Events : Unsent(j) /\ Unsent(j)' => i < j
          <6>1. i <= b /\ Was(i) \in Retryable BY <5>2, <5>6
          <6>2. ASSUME NEW j \in Events, Unsent(j), Unsent(j)' PROVE i < j
            <7>1. Now(j) \in Retryable /\ Was(j) \in Retryable BY <6>2 DEF Unsent
            <7>2. ~(j <= b) BY <5>2, <7>1 DEF Retryable
            <7> QED BY <6>1, <7>2, <5>5
          <6>3. ASSUME store.events[i].id \notin accepted' PROVE FALSE
            <7>1. Unsent(i) BY <2>4, <6>1, <6>3 DEF Unsent
            <7>2. CASE b <= store.cursor
              <8>1. /\ Cursor(store.events) \in 0 .. Len(store.events)
                    /\ Cursor(store.events) # 0 => store.events[Cursor(store.events)].status = "delivered"
                BY <2>1, CursorAt
              <8>2. i <= store.cursor /\ store.cursor \in 0 .. Len(store.events)
                BY <2>1, <5>5, <6>1, <7>2, <8>1
              <8>3. store.cursor \in Events BY <2>1, <8>2 DEF Events
              <8>4. store.events[store.cursor].status = "delivered"
                BY <2>1, <8>1, <8>3 DEF Events
              <8>5. store.cursor < i BY <3>5, <7>1, <8>3, <8>4
              <8> QED BY <8>2, <8>5, <5>5
            <7>3. CASE b <= Highest(Seqs(list))
              <8> DEFINE h == Highest(Seqs(list))
              <8>1. Seqs(list) \subseteq 1 .. Len(store.events)
                BY <3>3 DEF Seqs, Events
              <8>2. h \in Seqs(list) \union {0}
                <9> DEFINE S == Seqs(list)
                <9>1. PICK m \in Nat : m = Len(store.events) BY <2>1
                <9>2. S \in SUBSET (1 .. m) BY <8>1, <9>1
                <9> HIDE DEF S
                <9>3. Highest(S) \in S \union {0} BY <9>2, HighestIn
                <9> QED BY <9>3 DEF S
              <8>3. h # 0 /\ i <= h
                <9>1. i \in Nat \ {0} BY DEF Events
                <9>2. h \in Nat BY <8>1, <8>2, <2>1
                <9> HIDE DEF h
                <9> QED BY <9>1, <9>2, <6>1, <7>3 DEF h
              <8>4. PICK e \in list : e.seq = h BY <8>2, <8>3 DEF Seqs
              <8>5. i \in Seqs(list) BY <3>4, <7>1, <8>3, <8>4
              <8>6. PICK f \in list : f.seq = i BY <8>5 DEF Seqs
              <8>7. f.id \in accepted' /\ store.events[i].id = f.id BY <2>4, <3>3, <5>4, <8>6
              <8> QED BY <6>3, <8>7
            <7> QED BY <5>1, <7>2, <7>3
          <6> QED BY <6>2, <6>3
        <5> HIDE DEF Now, Was
        <5> QED BY <5>3, <5>6
      <4> QED BY <2>4, <4>1, <4>2
    <3>9. \A i \in Events : Unsent(i)' => Unsent(i)
      <4> SUFFICES ASSUME NEW i \in Events, Unsent(i)', ~Unsent(i) PROVE FALSE OBVIOUS
      <4>1. Now(i) \in Retryable /\ store.events[i].id \notin accepted' BY <2>5 DEF Unsent
      <4>2. store.events[i].id \notin accepted /\ ~(Was(i) \in Retryable) BY <2>4, <4>1 DEF Unsent
      <4>3. Now(i) = "failed" /\ Was(i) \in {"delivered", "skipped"} BY <3>8, <4>1, <4>2
      <4> QED BY <3>2, <3>6, <4>1, <4>2, <4>3
    <3>10. DeliveredWasAccepted'
      <4> SUFFICES ASSUME NEW i \in Events, Now(i) = "delivered" PROVE store.events[i].id \in accepted'
        BY <2>5 DEF DeliveredWasAccepted, Range
      <4>1. CASE Was(i) = "delivered" BY <4>1, <3>2, <2>4
      <4>2. CASE Was(i) # "delivered" BY <4>2, <3>8
      <4> QED BY <4>1, <4>2
    <3>11. Covered'
      <4> SUFFICES ASSUME NEW d \in Calls, Awaits(d), NEW e \in call[d].list, NEW i \in Events,
                          i <= e.seq, Unsent(i)'
                   PROVE  i \in Seqs(call[d].list)
        BY <1>2, <2>5 DEF Covered
      <4> QED BY <2>0, <3>1, <3>9 DEF DInv, Covered
    <3>12. Above'
      <4> SUFFICES ASSUME NEW i \in Events, NEW j \in Events, Now(i) = "delivered", Unsent(j)'
                   PROVE  i < j
        BY <2>5 DEF Above
      <4>1. Unsent(j) BY <3>9
      <4>2. CASE Was(i) = "delivered" BY <4>1, <4>2, <3>5
      <4>3. CASE Was(i) # "delivered" BY <4>1, <4>3, <3>8
      <4> QED BY <4>2, <4>3
    <3> QED BY <2>7, <3>10, <3>11, <3>12 DEF DInv
  <2> QED BY <2>8, <2>9
<1> QED BY <1>3, <1>4

LEMMA DeliveryStays == TInv /\ TInv' /\ DInv /\ [Next]_vars => DInv'
<1> SUFFICES ASSUME TInv, TInv', DInv, [Next]_vars PROVE DInv' OBVIOUS
<1>1. ASSUME NEW w \in Writers, Commit(w) PROVE DInv'
  <2>1. store' = store /\ call' = call /\ accepted' = accepted /\ epoch' = epoch /\ stray' = stray
    BY <1>1 DEF Commit
  <2> QED BY <2>1, DeliveryUndisturbed
<1>2. ASSUME NEW w \in Writers, AppendEvent(w) PROVE DInv' BY <1>2, DeliveryAfterAppend
<1>3. ASSUME NEW w \in Writers, AppendFails(w) PROVE DInv'
  <2>1. /\ call' = call /\ accepted' = accepted /\ store' = recordSupervisorAppendFailure(store)
        /\ store = Half => epoch' = epoch + 1
        /\ store # Half => epoch' = epoch /\ stray' = stray
    BY <1>3 DEF AppendFails, TInv, TypeOK
  <2>2. CASE store # Half
    <3>1. Sound(store) /\ store.cursor = Cursor(store.events) BY <2>2, EventsSound
    <3>2. store' = [store EXCEPT !.session = [health |-> "degraded", degraded |-> TRUE, attention |-> TRUE]]
      BY <2>1, <2>2 DEF recordSupervisorAppendFailure
    <3>3. store'.events = store.events BY <3>1, <3>2, AppendFailureFacts
    <3> QED BY <2>1, <2>2, <3>3, DeliveryUndisturbed
  <2>3. CASE store = Half
    <3>1. store'.events = <<>>
      BY <2>1, <2>3 DEF recordSupervisorAppendFailure, EmptyStore
    <3>2. Events' = {} /\ DOMAIN store'.events = {} BY <3>1 DEF Events
    <3>3. \A d \in Calls : ~Awaits(d)'
      <4>1. \A d \in Calls : call[d].epoch <= epoch /\ call[d].epoch \in Nat /\ epoch \in Nat
        BY DEF TInv, TypeOK, Listed
      <4> QED BY <2>1, <2>3, <4>1 DEF Awaits
    <3> QED BY <3>2, <3>3 DEF DInv, DeliveredWasAccepted, Named, Covered, Above, Range
  <2> QED BY <2>2, <2>3
<1>4. ASSUME NEW c \in Calls, Dispatch(c) PROVE DInv' BY <1>4, DeliveryAfterDispatch
<1>5. ASSUME NEW c \in Calls, Answer(c) PROVE DInv' BY <1>5, DeliveryAfterAnswer
<1>6. ASSUME NEW m \in Inbox, ReceiveInbound(m) PROVE DInv'
  <2>1. /\ call' = call /\ accepted' = accepted /\ epoch' = epoch /\ stray' = stray /\ store # Half
        /\ store' = recordInboundSupervisorMessage(store, m, adjudicateInboundMessage(m))
    BY <1>6 DEF ReceiveInbound
  <2>2. Sound(store) /\ store.cursor = Cursor(store.events) BY <2>1, EventsSound
  <2>3. store'.events = store.events BY <2>1, <2>2, InboundFacts
  <2> QED BY <2>1, <2>3, DeliveryUndisturbed
<1>7. ASSUME Die PROVE DInv'
  <2>1. /\ accepted' = accepted /\ epoch' = epoch /\ stray' = stray /\ store' \in {store, Half}
    BY <1>7 DEF Die
  <2>2. \A d \in Calls : call'[d] = call[d] \/ call'[d].at = "idle"
    BY <1>7 DEF Die, Idle, TInv, TypeOK
  <2>3. \A d \in Calls : call'[d] = call[d] \/ ~Awaits(d)' BY <2>2 DEF Awaits
  <2> QED BY <2>1, <2>3, DeliveryUndisturbed
<1>8. CASE UNCHANGED vars
  <2>1. store' = store /\ call' = call /\ accepted' = accepted /\ epoch' = epoch /\ stray' = stray
    BY <1>8 DEF vars
  <2> QED BY <2>1, DeliveryUndisturbed
<1> QED BY <1>1, <1>2, <1>3, <1>4, <1>5, <1>6, <1>7, <1>8 DEF Next

LEMMA InitDelivery == Init => DInv
<1> SUFFICES ASSUME Init PROVE DInv OBVIOUS
<1>1. store.events = <<>> BY DEF Init, EmptyStore
<1>2. Events = {} /\ DOMAIN store.events = {} BY <1>1 DEF Events
<1>3. \A d \in Calls : ~Awaits(d) BY DEF Init, Idle, Awaits
<1> QED BY <1>2, <1>3 DEF DInv, DeliveredWasAccepted, Named, Covered, Above, Range

----------------------------------------------------------------------------
(* A proposal is taken up once.                                               *)

LEMMA InboundSound ==
    ASSUME TInv, store # Half
    PROVE  /\ store.inbound \in Seq(Inbound) /\ store.keys \in Seq(Keys)
           /\ DOMAIN store.inbound = 1 .. Len(store.inbound) /\ Len(store.inbound) \in Nat
           /\ DOMAIN store.keys = 1 .. Len(store.keys) /\ Len(store.keys) \in Nat
           /\ \A i \in 1 .. Len(store.inbound) : store.inbound[i].key \in Keys \union {None}
           /\ \A p \in 1 .. Len(store.keys) : store.keys[p] \in Keys
<1>1. store.inbound \in Seq(Inbound) /\ store.keys \in Seq(Keys) BY DEF TInv, TypeOK, Store
<1>2. /\ DOMAIN store.inbound = 1 .. Len(store.inbound) /\ Len(store.inbound) \in Nat
      /\ DOMAIN store.keys = 1 .. Len(store.keys) /\ Len(store.keys) \in Nat
      /\ \A i \in 1 .. Len(store.inbound) : store.inbound[i] \in Inbound
      /\ \A p \in 1 .. Len(store.keys) : store.keys[p] \in Keys
  BY <1>1
<1> QED BY <1>1, <1>2 DEF Inbound

LEMMA ProposalsUndisturbed ==
    ASSUME PInv,
           store' # Half => store # Half /\ store'.inbound = store.inbound /\ store'.keys = store.keys
    PROVE  PInv'
<1>1. CASE store' = Half BY <1>1 DEF PInv, ProposalsTakenOnce, KeysOnce, KeptOrSpent
<1>2. CASE store' # Half
  <2>1. store # Half /\ store'.inbound = store.inbound /\ store'.keys = store.keys BY <1>2
  <2>2. ProposalsTakenOnce' BY <2>1 DEF PInv, ProposalsTakenOnce
  <2>3. KeysOnce' BY <2>1 DEF PInv, KeysOnce
  <2>4. KeptOrSpent' BY <2>1 DEF PInv, KeptOrSpent, TakenUp, StillKept, OtherKeys
  <2> QED BY <2>2, <2>3, <2>4 DEF PInv
<1> QED BY <1>1, <1>2

\* The keys of a stretch of messages are finitely many.
LEMMA OthersFinite ==
    ASSUME NEW s, NEW i \in Nat, NEW j \in Nat
    PROVE  IsFiniteSet(Others(s, i, j)) /\ Cardinality(Others(s, i, j)) \in Nat
<1> DEFINE f == [k \in i .. j |-> s[k].key]
<1> DEFINE T == {s[k].key : k \in i .. j}
<1>1. f \in Surjection(i .. j, T) BY DEF Surjection
<1>2. IsFiniteSet(i .. j) BY FS_Interval
<1>3. IsFiniteSet(T)
  <2> HIDE DEF f, T
  <2> QED BY <1>1, <1>2, FS_Surjection
<1>4. Others(s, i, j) \in SUBSET T BY DEF Others
<1> HIDE DEF T
<1>5. IsFiniteSet(Others(s, i, j)) BY <1>3, <1>4, FS_Subset
<1> QED BY <1>5, FS_CardinalityType

LEMMA ProposalsAfterMessage ==
    ASSUME TInv, TInv', PInv, NEW m \in Inbox, ReceiveInbound(m)
    PROVE  PInv'
<1> DEFINE N == Len(store.inbound)
<1> DEFINE L == Len(store.keys)
<1> DEFINE M == MAX_DEDUPE_ENTRIES
<1> DEFINE x == m.key
<1> DEFINE d == Disposition(store, m, adjudicateInboundMessage(m))
<1> DEFINE rec == [id |-> m.id, key |-> m.key, disposition |-> d]
<1>1. /\ store # Half
      /\ store' = recordInboundSupervisorMessage(store, m, adjudicateInboundMessage(m))
  BY DEF ReceiveInbound
<1>0. SUFFICES ASSUME store' # Half PROVE PInv'
  BY DEF PInv, ProposalsTakenOnce, KeysOnce, KeptOrSpent
<1>2. Sound(store) /\ store.cursor = Cursor(store.events) BY <1>1, EventsSound
<1>3. /\ store.inbound \in Seq(Inbound) /\ store.keys \in Seq(Keys)
      /\ DOMAIN store.inbound = 1 .. N /\ N \in Nat
      /\ DOMAIN store.keys = 1 .. L /\ L \in Nat
      /\ \A i \in 1 .. N : store.inbound[i].key \in Keys \union {None}
      /\ \A p \in 1 .. L : store.keys[p] \in Keys
  BY <1>1, InboundSound
<1>4. M \in Nat \ {0} /\ None \notin Keys BY DialogueAssumption
<1>5. x \in Keys \union {None} BY DialogueAssumption DEF Message
<1>6. /\ store'.inbound = Append(store.inbound, rec) /\ rec \in Inbound
      /\ store'.keys = rememberDedupe(store.keys, x)
  <2>1. PICK dd : dd = d OBVIOUS
  <2> HIDE DEF d
  <2> QED BY <1>1, <1>2, <2>1, InboundFacts DEF d
<1>7. /\ Len(store'.inbound) = N + 1
      /\ \A k \in 1 .. N : store'.inbound[k] = store.inbound[k]
      /\ store'.inbound[N + 1].key = x
      /\ store'.inbound[N + 1].disposition = d
  <2>1. rec.key = x /\ rec.disposition = d OBVIOUS
  <2> HIDE DEF rec
  <2> QED BY <1>3, <1>6, <2>1, AppendProperties
<1>8. L <= M /\ \A p, q \in 1 .. L : store.keys[p] = store.keys[q] => p = q
  BY <1>1 DEF PInv, KeysOnce
<1>9. \A i \in 1 .. N : TakenUp(i) =>
        (\E p \in 1 .. L : StillKept(i, p)) \/ Cardinality(OtherKeys(i)) >= M
  BY <1>1 DEF PInv, KeptOrSpent
<1>10. x # None /\ x \in Range(store.keys) => d = "duplicate_ignored" BY DEF Disposition
<1>11. \A i \in 1 .. N : TakenUp(i)' <=> TakenUp(i) BY <1>7 DEF TakenUp
<1>12. Range(store.keys) = {store.keys[p] : p \in 1 .. L} BY <1>3 DEF Range
\* Keys that have come since do not go away.
<1>13. ASSUME NEW i \in 1 .. N PROVE Cardinality(OtherKeys(i)) <= Cardinality(OtherKeys(i)')
  <2>1. OtherKeys(i)' = Others(store'.inbound, i, N + 1) BY <1>7 DEF OtherKeys
  <2>2. OtherKeys(i) \subseteq OtherKeys(i)'
    <3>1. \A k \in i .. N : k \in 1 .. N /\ k \in i .. N + 1 BY <1>3
    <3> QED BY <2>1, <3>1, <1>7 DEF OtherKeys, Others
  <2>3. IsFiniteSet(OtherKeys(i)')
    <3>1. N + 1 \in Nat /\ i \in Nat BY <1>3
    <3> QED BY <2>1, <3>1, OthersFinite
  <2> QED BY <2>2, <2>3, FS_Subset
<1>14. \A i \in 1 .. N : Cardinality(OtherKeys(i)) >= M => Cardinality(OtherKeys(i)') >= M
  <2> SUFFICES ASSUME NEW i \in 1 .. N, Cardinality(OtherKeys(i)) >= M
               PROVE  Cardinality(OtherKeys(i)') >= M
    OBVIOUS
  <2>0. N + 1 \in Nat /\ i \in Nat BY <1>3
  <2>1. OtherKeys(i)' = Others(store'.inbound, i, N + 1) BY <1>7 DEF OtherKeys
  <2>2. OtherKeys(i) = Others(store.inbound, i, N) BY DEF OtherKeys
  <2>4. Cardinality(OtherKeys(i)) \in Nat /\ Cardinality(OtherKeys(i)') \in Nat
    BY <1>3, <2>0, <2>1, <2>2, OthersFinite
  <2> QED BY <2>4, <1>4, <1>13
<1> HIDE DEF d, rec
<1>15. ProposalsTakenOnce'
  <2> DEFINE Between(i, j) == Others(store'.inbound, i, j)
  <2>1. SUFFICES ASSUME NEW i \in 1 .. N + 1, NEW j \in 1 .. N + 1, i < j, TakenUp(i)', TakenUp(j)',
                        store'.inbound[i].key = store'.inbound[j].key
                 PROVE  Cardinality(Between(i, j)) >= M
    <3>1. DOMAIN store'.inbound = 1 .. N + 1
      <4>1. store'.inbound \in Seq(Inbound) BY <1>3, <1>6, AppendProperties
      <4> QED BY <4>1, <1>7
    <3> QED BY <2>1, <3>1 DEF ProposalsTakenOnce, TakenUp, Others
  <2>2. CASE j \in 1 .. N
    <3>1. i \in 1 .. N BY <1>3, <2>1, <2>2
    <3>2. Between(i, j) = Others(store.inbound, i, j)
      <4>1. \A k \in i .. j : k \in 1 .. N BY <1>3, <2>2, <3>1
      <4> QED BY <3>1, <4>1, <1>7 DEF Others
    <3>3. TakenUp(i) /\ TakenUp(j) /\ store.inbound[i].key = store.inbound[j].key
      BY <1>7, <1>11, <2>1, <2>2, <3>1
    <3>4. Cardinality(Others(store.inbound, i, j)) >= M
      BY <1>1, <1>3, <2>1, <2>2, <3>1, <3>3 DEF PInv, ProposalsTakenOnce, TakenUp, Others
    <3> HIDE DEF Between
    <3> QED BY <3>2, <3>4
  <2>3. CASE j = N + 1
    <3>1. i \in 1 .. N BY <1>3, <2>1, <2>3
    <3>2. x # None /\ x \notin Range(store.keys) /\ store.inbound[i].key = x
      BY <1>7, <1>10, <2>1, <2>3, <3>1 DEF TakenUp
    <3>3. ~ \E p \in 1 .. L : StillKept(i, p) BY <1>12, <3>2 DEF StillKept
    <3>4. Cardinality(OtherKeys(i)) >= M BY <1>9, <1>11, <2>1, <3>1, <3>3
    <3>5. OtherKeys(i)' = Between(i, j) BY <1>7, <2>3 DEF OtherKeys
    <3> QED BY <1>14, <3>1, <3>4, <3>5
  <2> QED BY <1>3, <2>2, <2>3
<1>16. CASE x = None \/ x \in Range(store.keys)
  <2>1. store'.keys = store.keys BY <1>3, <1>5, <1>6, <1>8, <1>16, RememberFacts
  <2>2. KeysOnce' BY <1>8, <2>1 DEF KeysOnce
  <2>3. KeptOrSpent'
    <3> SUFFICES ASSUME NEW i \in 1 .. N + 1, TakenUp(i)'
                 PROVE  (\E p \in 1 .. L : StillKept(i, p)') \/ Cardinality(OtherKeys(i)') >= M
      BY <1>7, <2>1 DEF KeptOrSpent
    <3>1. i \in 1 .. N
      <4>1. x = None \/ d = "duplicate_ignored" BY <1>10, <1>16
      <4>2. i # N + 1 BY <1>7, <4>1 DEF TakenUp
      <4> QED BY <4>2, <1>3
    <3>2. ASSUME NEW p \in 1 .. L, StillKept(i, p) PROVE StillKept(i, p)'
      <4>1. \A k \in i .. N : k \in i .. N + 1 /\ k \in 1 .. N BY <1>3, <3>1
      <4> QED BY <1>7, <2>1, <3>1, <3>2, <4>1 DEF StillKept
    <3> QED BY <1>9, <1>11, <1>14, <3>1, <3>2
  <2> QED BY <1>15, <2>2, <2>3 DEF PInv
<1>17. CASE x # None /\ x \notin Range(store.keys)
  <2>0. /\ L < M => /\ Len(store'.keys) = L + 1 /\ store'.keys[L + 1] = x
                    /\ \A p \in 1 .. L : store'.keys[p] = store.keys[p]
        /\ ~(L < M) => /\ Len(store'.keys) = L /\ store'.keys[L] = x
                       /\ \A p \in 1 .. L - 1 : store'.keys[p] = store.keys[p + 1]
    BY <1>3, <1>5, <1>6, <1>8, <1>17, RememberFacts
  <2>1. \A p \in 1 .. L : store.keys[p] # x BY <1>12, <1>17
  <2>2. KeysOnce'
    <3>1. CASE L < M
      <4>1. \A p \in 1 .. L + 1 : p \in 1 .. L \/ p = L + 1 BY <1>3
      <4>2. \A p, q \in 1 .. L : store'.keys[p] = store'.keys[q] => p = q BY <1>8, <2>0, <3>1
      <4>3. \A p \in 1 .. L : store'.keys[p] # store'.keys[L + 1] BY <2>0, <2>1, <3>1
      <4>4. \A p, q \in 1 .. L + 1 : store'.keys[p] = store'.keys[q] => p = q
        BY <4>1, <4>2, <4>3
      <4>5. L + 1 <= M BY <1>3, <1>4, <3>1
      <4> QED BY <4>4, <4>5, <2>0, <3>1 DEF KeysOnce
    <3>2. CASE ~(L < M)
      <4>1. \A p \in 1 .. L : (p \in 1 .. L - 1 /\ p + 1 \in 1 .. L) \/ p = L BY <1>3
      <4>2. \A p \in 1 .. L - 1 : store'.keys[p] # x BY <2>0, <2>1, <3>2, <1>3
      <4>3. \A p, q \in 1 .. L - 1 : store'.keys[p] = store'.keys[q] => p = q
        BY <1>3, <1>8, <2>0, <3>2
      <4>4. \A p, q \in 1 .. L : store'.keys[p] = store'.keys[q] => p = q
        BY <4>1, <4>2, <4>3, <2>0, <3>2
      <4> QED BY <4>4, <2>0, <3>2, <1>8 DEF KeysOnce
    <3> QED BY <3>1, <3>2
  <2>3. KeptOrSpent'
    <3> SUFFICES ASSUME NEW i \in 1 .. N + 1, TakenUp(i)'
                 PROVE  \/ \E p \in 1 .. Len(store'.keys) : StillKept(i, p)'
                        \/ Cardinality(OtherKeys(i)') >= M
      BY <1>7 DEF KeptOrSpent
    <3>1. CASE i = N + 1
      <4>1. PICK p \in 1 .. Len(store'.keys) : p = Len(store'.keys) /\ store'.keys[p] = x
        BY <2>0, <1>3, <1>4, <1>8
      <4>2. \A q \in 1 .. Len(store'.keys) : ~(q > p) BY <4>1, <2>0, <1>3
      <4>3. StillKept(i, p)' BY <1>7, <3>1, <4>1, <4>2 DEF StillKept
      <4> QED BY <4>3
    <3>2. CASE i \in 1 .. N
      <4>1. TakenUp(i) /\ store'.inbound[i].key = store.inbound[i].key BY <1>7, <1>11, <3>2
      <4>2. \A k \in i .. N : k \in i .. N + 1 /\ store'.inbound[k] = store.inbound[k]
        BY <1>3, <1>7, <3>2
      <4>3. N + 1 \in i .. N + 1 BY <1>3, <3>2
      <4>4. ASSUME NEW p \in 1 .. L, StillKept(i, p), L < M PROVE StillKept(i, p)'
        <5>1. store'.keys[p] = store'.inbound[i].key BY <2>0, <4>1, <4>4 DEF StillKept
        <5>2. ASSUME NEW q \in 1 .. L + 1, q > p
              PROVE  \E k \in i .. N + 1 : store'.inbound[k].key = store'.keys[q]
          <6>1. CASE q = L + 1 BY <6>1, <1>7, <2>0, <4>3, <4>4
          <6>2. CASE q \in 1 .. L
            <7>1. PICK k \in i .. N : store.inbound[k].key = store.keys[q]
              BY <4>4, <5>2, <6>2 DEF StillKept
            <7> QED BY <7>1, <2>0, <4>2, <4>4, <6>2
          <6>3. q = L + 1 \/ q \in 1 .. L BY <1>3, <5>2
          <6> QED BY <6>1, <6>2, <6>3
        <5> QED BY <5>1, <5>2, <1>7, <2>0, <4>4 DEF StillKept
      <4>5. ASSUME NEW p \in 1 .. L, StillKept(i, p), ~(L < M), p > 1 PROVE StillKept(i, p - 1)'
        <5>0. p - 1 \in 1 .. L - 1 BY <1>3, <4>5
        <5>1. store'.keys[p - 1] = store'.inbound[i].key
          <6>1. store'.keys[p - 1] = store.keys[p - 1 + 1] BY <2>0, <4>5, <5>0
          <6>2. p - 1 + 1 = p BY <1>3
          <6> QED BY <6>1, <6>2, <4>1, <4>5 DEF StillKept
        <5>2. ASSUME NEW q \in 1 .. L, q > p - 1
              PROVE  \E k \in i .. N + 1 : store'.inbound[k].key = store'.keys[q]
          <6>1. CASE q = L BY <6>1, <1>7, <2>0, <4>3, <4>5
          <6>2. CASE q # L
            <7>0. q \in 1 .. L - 1 /\ q + 1 \in 1 .. L /\ q + 1 > p BY <6>2, <5>2, <1>3
            <7>1. PICK k \in i .. N : store.inbound[k].key = store.keys[q + 1]
              BY <4>5, <7>0 DEF StillKept
            <7> QED BY <7>0, <7>1, <2>0, <4>2, <4>5
          <6> QED BY <6>1, <6>2
        <5> QED BY <5>1, <5>2, <1>7, <2>0, <4>5 DEF StillKept
      \* The key is the one that goes: as many others as are kept have come after it.
      <4>6. ASSUME StillKept(i, 1), ~(L < M) PROVE Cardinality(OtherKeys(i)') >= M
        <5>0. L = M /\ 1 \in 1 .. L BY <1>3, <1>4, <1>8, <4>6
        <5> DEFINE T == OtherKeys(i)'
        <5>1. T = {store'.inbound[k].key : k \in i .. N + 1} \ {None, store'.inbound[i].key}
          BY <1>7 DEF OtherKeys, Others
        <5>2. store'.inbound[i].key = store.keys[1] BY <4>1, <4>6 DEF StillKept
        <5>3. \A q \in 1 .. M : store'.keys[q] \in T
          <6> SUFFICES ASSUME NEW q \in 1 .. M PROVE store'.keys[q] \in T OBVIOUS
          <6>1. CASE q = L
            <7>1. store'.keys[q] = x BY <6>1, <2>0, <4>6
            <7>2. x # store.keys[1] BY <2>1, <5>0
            <7>3. x \in {store'.inbound[k].key : k \in i .. N + 1} BY <1>7, <4>3
            <7> QED BY <7>1, <7>2, <7>3, <5>1, <5>2, <1>17
          <6>2. CASE q # L
            <7>0. q \in 1 .. L - 1 /\ q + 1 \in 1 .. L /\ q + 1 > 1 BY <6>2, <5>0, <1>3
            <7>1. store'.keys[q] = store.keys[q + 1] BY <7>0, <2>0, <4>6
            <7>2. PICK k \in i .. N : store.inbound[k].key = store.keys[q + 1]
              BY <4>6, <7>0 DEF StillKept
            <7>3. store.keys[q + 1] # store.keys[1]
              <8>1. q + 1 # 1 BY <7>0
              <8> QED BY <8>1, <7>0, <5>0, <1>8
            <7>4. store.keys[q + 1] # None BY <7>0, <1>3, <1>4
            <7>5. store'.keys[q] \in {store'.inbound[j].key : j \in i .. N + 1} BY <7>1, <7>2, <4>2
            <7> QED BY <7>1, <7>3, <7>4, <7>5, <5>1, <5>2
          <6> QED BY <6>1, <6>2
        <5>4. IsFiniteSet(T)
          <6>1. N + 1 \in Nat /\ i \in Nat BY <1>3, <3>2
          <6> QED BY <1>7, <6>1, OthersFinite DEF OtherKeys
        <5> DEFINE f == [q \in 1 .. M |-> store'.keys[q]]
        <5>5. \A p, q \in 1 .. M : store'.keys[p] = store'.keys[q] => p = q
          BY <2>0, <2>2, <4>6, <5>0, <1>0 DEF KeysOnce
        <5> HIDE DEF T
        <5>6. f \in Injection(1 .. M, T) BY <5>3, <5>5 DEF Injection, IsInjective
        <5> HIDE DEF f
        <5>7. Cardinality(1 .. M) <= Cardinality(T) BY <5>4, <5>6, FS_Injection
        <5>8. Cardinality(1 .. M) = M BY <1>4, FS_Interval
        <5>9. Cardinality(T) \in Nat BY <5>4, FS_CardinalityType
        <5>10. Cardinality(T) >= M BY <5>7, <5>8, <5>9, <1>4
        <5> QED BY <5>10 DEF T
      <4>7. CASE \E p \in 1 .. L : StillKept(i, p)
        <5>1. PICK p \in 1 .. L : StillKept(i, p) BY <4>7
        <5>2. CASE L < M
          <6>1. p \in 1 .. Len(store'.keys) BY <5>2, <2>0, <1>3
          <6> QED BY <4>4, <5>1, <5>2, <6>1
        <5>3. CASE ~(L < M) /\ p > 1
          <6>1. p - 1 \in 1 .. Len(store'.keys) BY <5>3, <2>0, <1>3
          <6> QED BY <4>5, <5>1, <5>3, <6>1
        <5>4. CASE ~(L < M) /\ p = 1 BY <4>6, <5>1, <5>4
        <5> QED BY <5>2, <5>3, <5>4, <1>3
      <4> QED BY <1>9, <1>14, <3>2, <4>1, <4>7
    <3> QED BY <3>1, <3>2, <1>3
  <2> QED BY <1>15, <2>2, <2>3 DEF PInv
<1> QED BY <1>16, <1>17

LEMMA ProposalsStay == TInv /\ TInv' /\ PInv /\ [Next]_vars => PInv'
<1> SUFFICES ASSUME TInv, TInv', PInv, [Next]_vars PROVE PInv' OBVIOUS
<1>1. ASSUME NEW w \in Writers, Commit(w) PROVE PInv'
  BY <1>1, ProposalsUndisturbed DEF Commit
<1>2. ASSUME NEW w \in Writers, AppendEvent(w) PROVE PInv'
  <2>1. store # Half /\ store' = appendSupervisorEvent(store, ids + 1, Head(emit[w]))
    BY <1>2 DEF AppendEvent
  <2>2. store \in Store BY <2>1, EventsSound DEF Sound
  <2>3. store'.inbound = store.inbound /\ store'.keys = store.keys
    BY <2>1, <2>2 DEF appendSupervisorEvent, Store
  <2> QED BY <2>1, <2>3, ProposalsUndisturbed
<1>3. ASSUME NEW w \in Writers, AppendFails(w) PROVE PInv'
  <2>1. store' = recordSupervisorAppendFailure(store) BY <1>3 DEF AppendFails
  <2>2. CASE store # Half
    <3>1. Sound(store) /\ store.cursor = Cursor(store.events) BY <2>2, EventsSound
    <3>2. store' = [store EXCEPT !.session = [health |-> "degraded", degraded |-> TRUE, attention |-> TRUE]]
      BY <2>1, <2>2 DEF recordSupervisorAppendFailure
    <3>3. store'.inbound = store.inbound /\ store'.keys = store.keys BY <3>1, <3>2, AppendFailureFacts
    <3> QED BY <2>2, <3>3, ProposalsUndisturbed
  <2>3. CASE store = Half
    <3>1. store'.inbound = <<>> /\ store'.keys = <<>>
      BY <2>1, <2>3 DEF recordSupervisorAppendFailure, EmptyStore
    <3>2. /\ DOMAIN store'.inbound = {} /\ Len(store'.inbound) = 0 /\ Len(store'.keys) = 0 BY <3>1
    <3>3. MAX_DEDUPE_ENTRIES \in Nat BY DialogueAssumption
    <3> QED BY <3>2, <3>3 DEF PInv, ProposalsTakenOnce, KeysOnce, KeptOrSpent
  <2> QED BY <2>2, <2>3
<1>4. ASSUME NEW c \in Calls, Dispatch(c) PROVE PInv'
  BY <1>4, ProposalsUndisturbed DEF Dispatch
<1>5. ASSUME NEW c \in Calls, Answer(c) PROVE PInv'
  <2>1. store = Half => store' = Half BY <1>5 DEF Answer
  <2>2. store' # Half => store # Half /\ store'.inbound = store.inbound /\ store'.keys = store.keys
    BY <2>1, <1>5, AnswerStep DEF SameEvents
  <2> QED BY <2>2, ProposalsUndisturbed
<1>6. ASSUME NEW m \in Inbox, ReceiveInbound(m) PROVE PInv' BY <1>6, ProposalsAfterMessage
<1>7. ASSUME Die PROVE PInv' BY <1>7, ProposalsUndisturbed DEF Die
<1>8. CASE UNCHANGED vars BY <1>8, ProposalsUndisturbed DEF vars
<1> QED BY <1>1, <1>2, <1>3, <1>4, <1>5, <1>6, <1>7, <1>8 DEF Next

LEMMA InitProposals == Init => PInv
<1> SUFFICES ASSUME Init PROVE PInv OBVIOUS
<1>1. store.inbound = <<>> /\ store.keys = <<>> BY DEF Init, EmptyStore
<1>2. DOMAIN store.inbound = {} /\ Len(store.inbound) = 0 /\ Len(store.keys) = 0 BY <1>1
<1>3. MAX_DEDUPE_ENTRIES \in Nat BY DialogueAssumption
<1> QED BY <1>2, <1>3 DEF PInv, ProposalsTakenOnce, KeysOnce, KeptOrSpent

----------------------------------------------------------------------------
(* The theorems.                                                              *)

LEMMA InitInvariant == Init => IInv
BY InitTypes, InitDelivery, InitHuman, InitProposals DEF IInv

LEMMA NextInvariant == IInv /\ [Next]_vars => IInv'
BY TypesStay, DeliveryStays, HumanStays, ProposalsStay DEF IInv

\* The numbers of the store, of the calls and of the keys fit together in every
\* reachable state, whatever order commands, answers, messages and deaths come in.
THEOREM DialogueInvariant == Spec => []IInv
BY InitInvariant, NextInvariant, PTL DEF Spec

\* The store, what is yet to be appended and the locals of the calls have their types.
THEOREM DialogueTyped == Spec => []TypeOK
<1>1. IInv => TypeOK BY DEF IInv, TInv
<1> QED BY <1>1, DialogueInvariant, PTL

\* An event counts as delivered only if the supervisor accepted it, however calls
\* overlap and answers are late (markSupervisorEventsDelivered, applyDeliveryAttempt).
THEOREM DeliveredAccepted == Spec => []DeliveredWasAccepted
<1>1. IInv => DeliveredWasAccepted BY DEF IInv, DInv
<1> QED BY <1>1, DialogueInvariant, PTL

\* A proposal that was taken up is not taken up again until as many other keys
\* have come as are remembered (rememberDedupe).
THEOREM ProposalTakenOnce == Spec => []ProposalsTakenOnce
<1>1. IInv => ProposalsTakenOnce BY DEF IInv, PInv
<1> QED BY <1>1, DialogueInvariant, PTL

\* Blocked and paused work calls for a human as long as nothing failed
\* (emitSupervisorEvents, buildSupervisorEventsForStateChange).
THEOREM HumanCalled == Spec => []HumanIsCalled
<1>1. IInv => HumanIsCalled BY DEF IInv, HInv
<1> QED BY <1>1, DialogueInvariant, PTL

=============================================================================
