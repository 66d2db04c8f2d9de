------------------------ MODULE EventDeliveryProofs ------------------------
(***************************************************************************)
(* Safety of EventDelivery for every number of records, consumers,         *)
(* dispatchers, cursors and attempts.                                      *)
(***************************************************************************)
EXTENDS EventDelivery, TLAPS

\* What the row operators keep true of a row.
WellFormed(row) ==
  /\ row \in Row
  /\ row.status = "none" => row = NoRow
  /\ row.status = "open" => row.failures < MaximumFailures

LEMMA NoRowWellFormed == WellFormed(NoRow)
  BY ConsumerProgressAssumption DEF WellFormed, NoRow, Row, Statuses

LEMMA SweptWellFormed ==
  ASSUME NEW row, WellFormed(row)
  PROVE  WellFormed(Swept(row))
  BY DEF WellFormed, Row, Statuses, Swept

LEMMA ClaimedWellFormed ==
  ASSUME NEW row, NEW cursor \in Cursors, WellFormed(row), Claimable(row)
  PROVE  WellFormed(Claimed(row, cursor))
<1>1. row.attempts + 1 \in 0 .. MaximumDeliveryAttempts
  BY ConsumerProgressAssumption DEF WellFormed, Row, NoRow, Claimable
<1>2. row.failures < MaximumFailures
  BY ConsumerProgressAssumption DEF WellFormed, Row, NoRow, Claimable
<1> QED
  BY <1>1, <1>2 DEF WellFormed, Row, Statuses, Claimed

LEMMA AcknowledgedWellFormed ==
  ASSUME NEW row, WellFormed(row)
  PROVE  WellFormed(Acknowledged(row))
  BY DEF WellFormed, Row, Statuses, Acknowledged

LEMMA FailureReportedWellFormed ==
  ASSUME NEW row, WellFormed(row), row.status = "open",
         NEW budget \in {1, MaximumFailures}
  PROVE  WellFormed(FailureReported(row, budget))
<1>1. row.failures + 1 \in 0 .. MaximumFailures
  BY ConsumerProgressAssumption DEF WellFormed, Row
<1>2. CASE row.failures + 1 >= budget
  BY <1>1, <1>2 DEF WellFormed, Row, Statuses, FailureReported
<1>3. CASE ~(row.failures + 1 >= budget)
  <2>1. row.failures + 1 < MaximumFailures
    BY <1>1, <1>3, ConsumerProgressAssumption DEF WellFormed, Row
  <2> QED
    BY <1>1, <1>3, <2>1 DEF WellFormed, Row, Statuses, FailureReported
<1> QED
  BY <1>2, <1>3

LEMMA LapsedWellFormed ==
  ASSUME NEW row, WellFormed(row), row.status = "open"
  PROVE  WellFormed(Lapsed(row))
  BY DEF WellFormed, Row, Statuses, Lapsed

-----------------------------------------------------------------------------
\* The shape of the local state of a dispatcher that is at work.
WorkingShape(state) ==
  state.stage # "idle" =>
    /\ state.consumer \in Consumers
    /\ state.cursor \in Cursors
    /\ state.stage \in {"delivering", "settling"} =>
         state.current \in Occurrence /\ state.current \notin state.waiting

IdleShape(state) == state.stage = "idle" => state = Idle

RowsWellFormed ==
  \A c \in Consumers, o \in Occurrence : WellFormed(progress[c][o])

\* A retention statement only ever holds occurrences that another one follows,
\* so the largest sequence of a record is never among them.
TrimmingFollowed ==
  \A o \in trimming : \E newer \in outbox : Precedes(o, newer)

\* The typing invariant: it carries what keeps the types, that sequence
\* numbers grow one by one.
TypeInv ==
  /\ TypeOK
  /\ RowsWellFormed
  /\ \A d \in Dispatchers : WorkingShape(dispatcher[d]) /\ IdleShape(dispatcher[d])
  /\ SequenceNeverReused
  /\ TrimmingFollowed

\* Dispatcher d settles the row under the row's current claim, and goes on.
SettledBy(d, c, o) ==
  /\ dispatcher[d].stage = "settling"
  /\ dispatcher[d].consumer = c
  /\ dispatcher[d].current = o
  /\ progress[c][o].cursor = dispatcher[d].cursor
  /\ dispatcher'[d] = NextOf(dispatcher[d])

\* Everything a step may do to one row.
RowStep(c, o) ==
  LET row == progress[c][o] IN
  \/ progress'[c][o] = row
  \/ Exhausted(row) /\ progress'[c][o] = Swept(row)
  \/ /\ o \in outbox /\ Claimable(row) /\ Unblocked(c, o)
     /\ \E cursor \in Cursors \ CursorsInUse :
          progress'[c][o] = Claimed(row, cursor)
  \/ /\ row.status = "open"
     /\ \E d \in Dispatchers : SettledBy(d, c, o)
     /\ progress'[c][o] = Acknowledged(row)
  \/ /\ row.status = "open"
     /\ \E d \in Dispatchers : SettledBy(d, c, o)
     /\ \E budget \in {1, MaximumFailures} :
          progress'[c][o] = FailureReported(row, budget)
  \/ row.status = "open" /\ progress'[c][o] = Lapsed(row)
  \/ o \in trimming /\ o \notin outbox' /\ progress'[c][o] = NoRow

\* Everything a step may do to the outbox.
OutboxStep ==
  \/ outbox' = outbox
  \/ \E r \in Records : Append(r)
  \/ Trim

LEMMA ClaimedCursor ==
  ASSUME Cursors \ CursorsInUse # {}
  PROVE  (CHOOSE k \in Cursors \ CursorsInUse : TRUE) \in Cursors \ CursorsInUse
  OBVIOUS

LEMMA RowsChange ==
  ASSUME TypeInv, [Next]_vars, NEW c \in Consumers, NEW o \in Occurrence
  PROVE  RowStep(c, o)
<1> USE DEF TypeInv, TypeOK
<1>1. ASSUME NEW d \in Dispatchers, NEW e \in Consumers, ClaimStep(d, e)
      PROVE  RowStep(c, o)
  <2>1. PICK swept \in SUBSET outbox, batch \in SUBSET outbox :
          Claim(d, e, swept, batch)
    BY <1>1 DEF ClaimStep
  <2> DEFINE cursor == CHOOSE k \in Cursors \ CursorsInUse : TRUE
  <2>2. cursor \in Cursors \ CursorsInUse
    BY <2>1, ClaimedCursor DEF Claim
  <2>3. progress' = [progress EXCEPT ![e] = [q \in Occurrence |->
            IF q \in swept THEN Swept(progress[e][q])
            ELSE IF q \in batch THEN Claimed(progress[e][q], cursor)
            ELSE progress[e][q]]]
    BY <2>1 DEF Claim
  <2>4. swept \subseteq ExhaustedFor(e) /\ batch \subseteq Eligible(e)
    BY <2>1 DEF Claim
  <2> HIDE DEF cursor
  <2>5. CASE c # e
    BY <2>3, <2>5 DEF RowStep
  <2>6. CASE c = e
    <3>1. progress'[c][o] = IF o \in swept THEN Swept(progress[c][o])
            ELSE IF o \in batch THEN Claimed(progress[c][o], cursor)
            ELSE progress[c][o]
      BY <2>3, <2>6
    <3>2. CASE o \in swept
      <4>1. Exhausted(progress[c][o])
        BY <2>4, <2>6, <3>2 DEF ExhaustedFor
      <4> QED
        BY <3>1, <3>2, <4>1 DEF RowStep
    <3>3. CASE o \notin swept /\ o \in batch
      <4>1. o \in outbox /\ Claimable(progress[c][o]) /\ Unblocked(c, o)
        BY <2>4, <2>6, <3>3 DEF Eligible
      <4>2. progress'[c][o] = Claimed(progress[c][o], cursor)
        BY <3>1, <3>3
      <4> QED
        BY <2>2, <4>1, <4>2 DEF RowStep
    <3>4. CASE o \notin swept /\ o \notin batch
      BY <3>1, <3>4 DEF RowStep
    <3> QED
      BY <3>2, <3>3, <3>4
  <2> QED
    BY <2>5, <2>6
<1>2. ASSUME NEW d \in Dispatchers, Acknowledge(d) \/ ReportFailure(d)
      PROVE  RowStep(c, o)
  <2> DEFINE e == dispatcher[d].consumer
             q == dispatcher[d].current
  <2>1. CASE UNCHANGED progress
    BY <2>1 DEF RowStep
  <2>2. CASE ~ UNCHANGED progress
    <3>1. SettledBy(d, e, q) /\ progress[e][q].status = "open"
      BY <1>2, <2>2 DEF Acknowledge, ReportFailure, MayReportFailure, Holds,
         OwnRow, SettledBy, GoOn
    <3>2. \E row \in {Acknowledged(progress[e][q])} \union
            {FailureReported(progress[e][q], b) : b \in {1, MaximumFailures}} :
              progress' = [progress EXCEPT ![e][q] = row]
      BY <1>2, <2>2 DEF Acknowledge, ReportFailure, SetRow, OwnRow
    <3> HIDE DEF e, q
    <3>3. CASE c = e /\ o = q
      <4>1. \/ progress'[c][o] = Acknowledged(progress[c][o])
            \/ \E b \in {1, MaximumFailures} :
                 progress'[c][o] = FailureReported(progress[c][o], b)
        BY <3>2, <3>3
      <4> QED
        BY <3>1, <3>3, <4>1 DEF RowStep
    <3>4. CASE ~(c = e /\ o = q)
      BY <3>2, <3>4 DEF RowStep
    <3> QED
      BY <3>3, <3>4
  <2> QED
    BY <2>1, <2>2
<1>4. ASSUME NEW e \in Consumers, NEW q \in Occurrence, LapseLease(e, q)
      PROVE  RowStep(c, o)
  BY <1>4 DEF LapseLease, SetRow, RowStep
<1>5. CASE Trim
  BY <1>5 DEF Trim, RowStep
<1>6. CASE UNCHANGED progress
  BY <1>6 DEF RowStep
<1> QED
  BY <1>1, <1>2, <1>4, <1>5, <1>6
  DEF Next, vars, BatchStep, Append, Renew, Deliver, Interrupt, Crash,
      ReadTrimmable

LEMMA OutboxChanges ==
  ASSUME [Next]_vars
  PROVE  OutboxStep
  BY DEF Next, vars, OutboxStep, ClaimStep, Claim, BatchStep, Renew, Deliver,
      Acknowledge, ReportFailure, Interrupt, Crash, LapseLease, ReadTrimmable

\* Everything a step may do to the local state of one dispatcher.
DispatcherStep(d) ==
  LET s == dispatcher[d] IN
  \/ dispatcher'[d] = s
  \/ dispatcher'[d] = Idle
  \/ /\ s.stage = "idle"
     /\ \E c \in Consumers : \E batch \in SUBSET Eligible(c),
           cursor \in Cursors \ CursorsInUse :
          dispatcher'[d] = [Idle EXCEPT !.stage = "choosing", !.consumer = c,
                                        !.cursor = cursor, !.waiting = batch]
  \/ /\ s.stage = "choosing"
     /\ \E o \in s.waiting :
          \/ /\ Holds(OwnRow(d, o), s.cursor)
             /\ dispatcher'[d] = [s EXCEPT !.waiting = @ \ {o},
                                    !.stage = "delivering", !.current = o]
          \/ dispatcher'[d] = NextOf([s EXCEPT !.waiting = @ \ {o}])
  \/ /\ s.stage = "delivering"
     /\ \E outcome \in Outcomes :
          dispatcher'[d] = [s EXCEPT !.stage = "settling", !.outcome = outcome]
  \/ s.stage = "settling" /\ dispatcher'[d] = NextOf(s)

LEMMA EligibleRetained ==
  \A c : Eligible(c) \subseteq outbox
  BY DEF Eligible

LEMMA DispatchersChange ==
  ASSUME TypeInv, [Next]_vars, NEW d \in Dispatchers
  PROVE  DispatcherStep(d)
<1> USE DEF TypeInv, TypeOK
<1>1. ASSUME NEW e \in Dispatchers, NEW c \in Consumers, ClaimStep(e, c)
      PROVE  DispatcherStep(d)
  <2>1. PICK swept \in SUBSET outbox, batch \in SUBSET outbox :
          Claim(e, c, swept, batch)
    BY <1>1 DEF ClaimStep
  <2> DEFINE cursor == CHOOSE k \in Cursors \ CursorsInUse : TRUE
  <2>2. cursor \in Cursors \ CursorsInUse
    BY <2>1, ClaimedCursor DEF Claim
  <2>3. /\ dispatcher[e].stage = "idle"
        /\ dispatcher' = [dispatcher EXCEPT ![e] =
             IF batch = {} THEN Idle
             ELSE [Idle EXCEPT !.stage = "choosing", !.consumer = c,
                               !.cursor = cursor, !.waiting = batch]]
    BY <2>1 DEF Claim
  <2>4. batch \subseteq Eligible(c)
    BY <2>1 DEF Claim
  <2> HIDE DEF cursor
  <2> QED
    BY <2>2, <2>3, <2>4 DEF DispatcherStep
<1>2. ASSUME NEW e \in Dispatchers, NEW o \in Occurrence, Renew(e, o)
      PROVE  DispatcherStep(d)
  <2> DEFINE rest == [dispatcher[e] EXCEPT !.waiting = @ \ {o}]
  <2>1. CASE Holds(OwnRow(e, o), dispatcher[e].cursor)
    <3>1. dispatcher' = [dispatcher EXCEPT ![e] =
            [rest EXCEPT !.stage = "delivering", !.current = o]]
      BY <1>2, <2>1 DEF Renew
    <3>2. [rest EXCEPT !.stage = "delivering", !.current = o] =
          [dispatcher[e] EXCEPT !.waiting = @ \ {o},
                                !.stage = "delivering", !.current = o]
      BY DEF DispatcherState
    <3>3. o \in dispatcher[e].waiting /\ dispatcher[e].stage = "choosing"
      BY <1>2 DEF Renew
    <3> HIDE DEF rest
    <3> QED
      BY <2>1, <3>1, <3>2, <3>3 DEF DispatcherStep
  <2>2. CASE ~Holds(OwnRow(e, o), dispatcher[e].cursor)
    <3>1. dispatcher' = [dispatcher EXCEPT ![e] = NextOf(rest)]
      BY <1>2, <2>2 DEF Renew
    <3>2. o \in dispatcher[e].waiting /\ dispatcher[e].stage = "choosing"
      BY <1>2 DEF Renew
    <3> QED
      BY <3>1, <3>2 DEF DispatcherStep
  <2> QED
    BY <2>1, <2>2
<1>3. ASSUME NEW e \in Dispatchers, Deliver(e)
      PROVE  DispatcherStep(d)
  BY <1>3 DEF Deliver, DispatcherStep, DispatcherState
<1>4. ASSUME NEW e \in Dispatchers, Acknowledge(e) \/ ReportFailure(e)
      PROVE  DispatcherStep(d)
  <2>1. /\ dispatcher[e].stage = "settling"
        /\ dispatcher' = [dispatcher EXCEPT ![e] = NextOf(dispatcher[e])]
    BY <1>4 DEF Acknowledge, ReportFailure, GoOn
  <2> QED
    BY <2>1 DEF DispatcherStep
<1>5. ASSUME NEW e \in Dispatchers, Interrupt(e)
      PROVE  DispatcherStep(d)
  <2>1. CASE /\ dispatcher[e].stage = "choosing"
             /\ \E o \in dispatcher[e].waiting :
                  dispatcher' = [dispatcher EXCEPT ![e] =
                    NextOf([dispatcher[e] EXCEPT !.waiting = @ \ {o}])]
    <3>1. PICK o \in dispatcher[e].waiting :
            dispatcher' = [dispatcher EXCEPT ![e] =
              NextOf([dispatcher[e] EXCEPT !.waiting = @ \ {o}])]
      BY <2>1
    <3>2. dispatcher'[e] = NextOf([dispatcher[e] EXCEPT !.waiting = @ \ {o}])
      BY <3>1
    <3> QED
      BY <2>1, <3>1, <3>2 DEF DispatcherStep
  <2>2. CASE dispatcher[e].stage = "settling" /\ GoOn(e)
    BY <2>2 DEF GoOn, DispatcherStep
  <2> QED
    BY <1>5, <2>1, <2>2 DEF Interrupt
<1>6. ASSUME NEW e \in Dispatchers, Crash(e)
      PROVE  DispatcherStep(d)
  BY <1>6 DEF Crash, DispatcherStep
<1>7. CASE UNCHANGED dispatcher
  BY <1>7 DEF DispatcherStep
<1> QED
  BY <1>1, <1>2, <1>3, <1>4, <1>5, <1>6, <1>7
  DEF Next, vars, BatchStep, Append, LapseLease, ReadTrimmable, Trim

LEMMA NextOfShape ==
  ASSUME NEW state \in DispatcherState, WorkingShape(state),
         state.stage # "idle"
  PROVE  /\ NextOf(state) \in DispatcherState
         /\ WorkingShape(NextOf(state))
         /\ IdleShape(NextOf(state))
  BY DEF DispatcherState, WorkingShape, IdleShape, NextOf, Idle, Stages, Outcomes

-----------------------------------------------------------------------------
\* A save's first number is one more than the number of occurrences the record
\* has had.
LEMMA AppendFirst ==
  ASSUME TypeInv, NEW r \in Records, NEW first \in 1 .. MaxSequence,
         IsNextSequence(r, first)
  PROVE  first = appended[r] + 1
<1>1. appended[r] \in Nat
  BY EventDeliveryAssumption DEF TypeInv, TypeOK
<1>2. /\ first - 1 \in Sequences(r) \union {0}
      /\ \A k \in Sequences(r) : k < first
  BY DEF IsNextSequence
<1>3. \A k \in Sequences(r) : k <= appended[r]
  BY DEF TypeInv, SequenceNeverReused
<1>4. appended[r] > 0 => appended[r] \in Sequences(r)
  BY DEF TypeInv, SequenceNeverReused
<1>5. first - 1 <= appended[r]
  BY <1>1, <1>2, <1>3
<1>6. appended[r] < first
  BY <1>1, <1>2, <1>4
<1> QED
  BY <1>1, <1>5, <1>6

LEMMA TypeInit == Init => TypeInv
<1> SUFFICES ASSUME Init PROVE TypeInv
  OBVIOUS
<1>1. progress \in [Consumers -> [Occurrence -> Row]] /\ RowsWellFormed
  BY NoRowWellFormed DEF Init, RowsWellFormed, WellFormed
<1>2. /\ dispatcher \in [Dispatchers -> DispatcherState]
      /\ \A d \in Dispatchers :
           WorkingShape(dispatcher[d]) /\ IdleShape(dispatcher[d])
  BY DEF Init, Idle, DispatcherState, Stages, Outcomes, WorkingShape, IdleShape
<1>3. appended \in [Records -> 0 .. MaxSequence]
  BY EventDeliveryAssumption DEF Init
<1>4. SequenceNeverReused
  BY DEF Init, SequenceNeverReused, Sequences
<1> QED
  BY <1>1, <1>2, <1>3, <1>4 DEF Init, TypeInv, TypeOK, TrimmingFollowed

LEMMA TypeStep == TypeInv /\ [Next]_vars => TypeInv'
<1> SUFFICES ASSUME TypeInv, [Next]_vars PROVE TypeInv'
  OBVIOUS
<1> USE DEF TypeInv, TypeOK
<1>1. RowsWellFormed'
  <2>1. SUFFICES ASSUME NEW c \in Consumers, NEW o \in Occurrence
                 PROVE  WellFormed(progress'[c][o])
    BY DEF RowsWellFormed
  <2>2. WellFormed(progress[c][o]) /\ RowStep(c, o)
    BY RowsChange DEF RowsWellFormed
  <2> QED
    BY <2>2, NoRowWellFormed, SweptWellFormed, ClaimedWellFormed,
       AcknowledgedWellFormed, FailureReportedWellFormed, LapsedWellFormed
    DEF RowStep
<1>2. progress' \in [Consumers -> [Occurrence -> Row]]
  <2>1. \A c \in Consumers, o \in Occurrence : progress'[c][o] \in Row
    BY <1>1 DEF RowsWellFormed, WellFormed
  <2>2. progress' \in [Consumers -> [Occurrence -> Row]]
    <3>1. CASE UNCHANGED progress
      BY <3>1
    <3>2. CASE \E d \in Dispatchers, c \in Consumers : ClaimStep(d, c)
      <4>a. PICK c \in Consumers : \E X :
              progress' = [progress EXCEPT ![c] = [o \in Occurrence |-> X[o]]]
        <5>1. PICK c \in Consumers, d \in Dispatchers,
                swept \in SUBSET outbox, batch \in SUBSET outbox :
                  Claim(d, c, swept, batch)
          BY <3>2 DEF ClaimStep
        <5> DEFINE cursor == CHOOSE k \in Cursors \ CursorsInUse : TRUE
                   F == [o \in Occurrence |->
                     IF o \in swept THEN Swept(progress[c][o])
                     ELSE IF o \in batch THEN Claimed(progress[c][o], cursor)
                     ELSE progress[c][o]]
        <5>2. progress' = [progress EXCEPT ![c] = F]
          BY <5>1 DEF Claim
        <5>3. F = [o \in Occurrence |-> F[o]]
          OBVIOUS
        <5> HIDE DEF F
        <5> QED
          BY <5>2, <5>3
      <4>1. PICK X :
              progress' = [progress EXCEPT ![c] = [o \in Occurrence |-> X[o]]]
        BY <4>a
      <4> DEFINE G == [o \in Occurrence |-> X[o]]
      <4>2. progress'[c] = G
        BY <4>1
      <4>3. \A o \in Occurrence : G[o] \in Row
        BY <2>1, <4>2
      <4>4. G \in [Occurrence -> Row]
        BY <4>3
      <4> QED
        BY <4>1, <4>4
    <3>3. CASE \E c \in Consumers, o \in Occurrence : \E X :
                 progress' = [progress EXCEPT ![c][o] = X]
      <4>a. PICK c \in Consumers, o \in Occurrence : \E X :
              progress' = [progress EXCEPT ![c][o] = X]
        BY <3>3
      <4>1. PICK X : progress' = [progress EXCEPT ![c][o] = X]
        BY <4>a
      <4>2. X \in Row
        BY <2>1, <4>1
      <4> QED
        BY <4>1, <4>2
    <3>4. CASE Trim
      BY <3>4, NoRowWellFormed DEF Trim, WellFormed
    <3>5. ASSUME NEW d \in Dispatchers, Acknowledge(d) \/ ReportFailure(d)
          PROVE  \/ UNCHANGED progress
                 \/ \E c \in Consumers, o \in Occurrence : \E X :
                      progress' = [progress EXCEPT ![c][o] = X]
      <4>1. dispatcher[d].stage = "settling" /\ WorkingShape(dispatcher[d])
        BY <3>5 DEF Acknowledge, ReportFailure
      <4>2. /\ dispatcher[d].consumer \in Consumers
            /\ dispatcher[d].current \in Occurrence
        BY <4>1 DEF WorkingShape
      <4> QED
        BY <3>5, <4>2 DEF Acknowledge, ReportFailure, SetRow
    <3> QED
      BY <3>1, <3>2, <3>3, <3>4, <3>5
      DEF Next, vars, BatchStep, Renew, Deliver, Interrupt, Crash, LapseLease,
          ReadTrimmable, Append, SetRow
  <2> QED
    BY <2>2
<1>3. \A d \in Dispatchers : /\ dispatcher'[d] \in DispatcherState
                             /\ WorkingShape(dispatcher'[d])
                             /\ IdleShape(dispatcher'[d])
  <2> SUFFICES ASSUME NEW d \in Dispatchers
               PROVE  /\ dispatcher'[d] \in DispatcherState
                      /\ WorkingShape(dispatcher'[d])
                      /\ IdleShape(dispatcher'[d])
    OBVIOUS
  <2> DEFINE s == dispatcher[d]
  <2>1. s \in DispatcherState /\ WorkingShape(s) /\ IdleShape(s)
    OBVIOUS
  <2>2. DispatcherStep(d)
    BY DispatchersChange
  <2>3. CASE dispatcher'[d] = s
    BY <2>1, <2>3
  <2>4. CASE dispatcher'[d] = Idle
    BY <2>4 DEF Idle, DispatcherState, Stages, Outcomes, WorkingShape, IdleShape
  <2>5. ASSUME NEW c \in Consumers, NEW batch \in SUBSET Eligible(c),
               NEW cursor \in Cursors \ CursorsInUse,
               dispatcher'[d] = [Idle EXCEPT !.stage = "choosing", !.consumer = c,
                                   !.cursor = cursor, !.waiting = batch]
        PROVE  /\ dispatcher'[d] \in DispatcherState
               /\ WorkingShape(dispatcher'[d]) /\ IdleShape(dispatcher'[d])
    <3>1. batch \subseteq Occurrence
      BY EligibleRetained
    <3>2. dispatcher'[d] \in DispatcherState
      BY <2>5, <3>1 DEF Idle, DispatcherState, Stages, Outcomes
    <3>3. /\ dispatcher'[d].stage = "choosing"
          /\ dispatcher'[d].consumer \in Consumers /\ dispatcher'[d].cursor \in Cursors
      BY <2>5 DEF Idle
    <3> QED
      BY <3>2, <3>3 DEF WorkingShape, IdleShape
  <2>6. ASSUME s.stage = "choosing", NEW o \in s.waiting
        PROVE  LET t == [s EXCEPT !.waiting = @ \ {o},
                            !.stage = "delivering", !.current = o] IN
               /\ t \in DispatcherState /\ WorkingShape(t) /\ IdleShape(t)
    BY <2>1, <2>6 DEF DispatcherState, Stages, WorkingShape, IdleShape
  <2>7. ASSUME s.stage = "choosing", NEW o \in s.waiting
        PROVE  LET t == NextOf([s EXCEPT !.waiting = @ \ {o}]) IN
               /\ t \in DispatcherState /\ WorkingShape(t) /\ IdleShape(t)
    <3> DEFINE u == [s EXCEPT !.waiting = @ \ {o}]
    <3>1. u \in DispatcherState /\ WorkingShape(u) /\ u.stage # "idle"
      BY <2>1, <2>7 DEF DispatcherState, Stages, WorkingShape
    <3> HIDE DEF u
    <3>2. NextOf(u) \in DispatcherState /\ WorkingShape(NextOf(u)) /\ IdleShape(NextOf(u))
      BY <3>1, NextOfShape
    <3> QED
      BY <3>2 DEF u
  <2>8. ASSUME s.stage = "delivering", NEW outcome \in Outcomes
        PROVE  LET t == [s EXCEPT !.stage = "settling", !.outcome = outcome] IN
               /\ t \in DispatcherState /\ WorkingShape(t) /\ IdleShape(t)
    BY <2>1, <2>8 DEF DispatcherState, Stages, WorkingShape, IdleShape
  <2>9. CASE s.stage = "settling" /\ dispatcher'[d] = NextOf(s)
    BY <2>1, <2>9, NextOfShape
  <2> HIDE DEF s
  <2>10. CASE \E c \in Consumers : \E batch \in SUBSET Eligible(c),
               cursor \in Cursors \ CursorsInUse :
               dispatcher'[d] = [Idle EXCEPT !.stage = "choosing", !.consumer = c,
                                   !.cursor = cursor, !.waiting = batch]
    BY <2>5, <2>10
  <2>11. CASE /\ s.stage = "choosing"
              /\ \E o \in s.waiting :
                   \/ dispatcher'[d] = [s EXCEPT !.waiting = @ \ {o},
                                          !.stage = "delivering", !.current = o]
                   \/ dispatcher'[d] = NextOf([s EXCEPT !.waiting = @ \ {o}])
    BY <2>6, <2>7, <2>11
  <2>12. CASE /\ s.stage = "delivering"
              /\ \E outcome \in Outcomes :
                   dispatcher'[d] = [s EXCEPT !.stage = "settling", !.outcome = outcome]
    BY <2>8, <2>12
  <2> QED
    BY <2>2, <2>3, <2>4, <2>9, <2>10, <2>11, <2>12 DEF DispatcherStep, s
<1>4. dispatcher' \in [Dispatchers -> DispatcherState]
  <2>1. dispatcher' = [d \in Dispatchers |-> dispatcher'[d]]
    BY DEF Next, vars, ClaimStep, Claim, BatchStep, Renew, Deliver, GoOn,
       Acknowledge, ReportFailure, Interrupt, Crash, LapseLease,
       ReadTrimmable, Trim, Append
  <2> QED
    BY <1>3, <2>1
<1>5. CASE \E r \in Records : Append(r)
  <2>1. PICK r \in Records, first \in 1 .. MaxSequence, last \in 1 .. MaxSequence :
          /\ first <= last
          /\ IsNextSequence(r, first)
          /\ outbox' = outbox \union
               {[record |-> r, sequence |-> n] : n \in first .. last}
          /\ appended' = [appended EXCEPT ![r] = @ + (last - first + 1)]
          /\ UNCHANGED <<progress, dispatcher, trimming, acknowledged>>
    BY <1>5 DEF Append
  <2>2. first = appended[r] + 1 /\ appended[r] \in Nat
    BY <2>1, AppendFirst, EventDeliveryAssumption
  <2>3. appended'[r] = last /\ appended' = [appended EXCEPT ![r] = last]
    <3>1. appended'[r] = appended[r] + (last - first + 1)
      BY <2>1
    <3>2. appended[r] + (last - first + 1) = last
      BY <2>2, EventDeliveryAssumption
    <3>3. appended' = [appended EXCEPT ![r] = appended'[r]]
      BY <2>1
    <3> QED
      BY <3>1, <3>2, <3>3
  <2>4. first .. last \subseteq 1 .. MaxSequence
    BY <2>1, EventDeliveryAssumption
  <2>5. outbox' \subseteq Occurrence /\ outbox \subseteq outbox'
    BY <2>1, <2>4 DEF Occurrence
  <2>6. SequenceNeverReused'
    <3> SUFFICES ASSUME NEW q \in Records
                 PROVE  /\ \A k \in Sequences(q)' : k <= appended'[q]
                        /\ appended'[q] > 0 => appended'[q] \in Sequences(q)'
      BY DEF SequenceNeverReused
    <3>1. CASE q # r
      <4>1. Sequences(q)' = Sequences(q)
        BY <2>1, <3>1 DEF Sequences
      <4>2. appended'[q] = appended[q]
        BY <2>3, <3>1
      <4> QED
        BY <4>1, <4>2 DEF SequenceNeverReused
    <3>2. CASE q = r
      <4>1. Sequences(r)' = Sequences(r) \union first .. last
        <5>1. \A n \in first .. last :
                /\ [record |-> r, sequence |-> n].record = r
                /\ [record |-> r, sequence |-> n].sequence = n
          OBVIOUS
        <5>2. ASSUME NEW k \in Sequences(r)'
              PROVE  k \in Sequences(r) \union first .. last
          BY <2>1, <5>1, <5>2 DEF Sequences
        <5>3. ASSUME NEW k \in Sequences(r) PROVE k \in Sequences(r)'
          BY <2>1, <5>3 DEF Sequences
        <5>4. ASSUME NEW k \in first .. last PROVE k \in Sequences(r)'
          BY <2>1, <5>1, <5>4 DEF Sequences
        <5> QED
          BY <5>2, <5>3, <5>4
      <4>2. \A k \in Sequences(r) : k \in Nat /\ k <= appended[r]
        BY EventDeliveryAssumption DEF SequenceNeverReused, Sequences, Occurrence
      <4>3. last \in first .. last
        BY <2>1
      <4>4. \A k \in Sequences(r)' : k <= last
        BY <2>1, <2>2, <4>1, <4>2
      <4> QED
        BY <2>3, <3>2, <4>1, <4>3, <4>4
    <3> QED
      BY <3>1, <3>2
  <2>7. appended' \in [Records -> 0 .. MaxSequence]
    BY <2>3, EventDeliveryAssumption
  <2>8. TrimmingFollowed' /\ trimming' \subseteq outbox'
    BY <2>1, <2>5 DEF TrimmingFollowed, Precedes
  <2> QED
    BY <1>1, <1>2, <1>3, <1>4, <2>1, <2>5, <2>6, <2>7, <2>8
<1>6. CASE Trim
  <2>1. /\ outbox' = outbox \ trimming /\ trimming' = {}
        /\ UNCHANGED <<appended, acknowledged>>
    BY <1>6 DEF Trim
  <2>2. SequenceNeverReused'
    <3> SUFFICES ASSUME NEW r \in Records
                 PROVE  /\ \A k \in Sequences(r)' : k <= appended[r]
                        /\ appended[r] > 0 => appended[r] \in Sequences(r)'
      BY <2>1 DEF SequenceNeverReused
    <3>1. \A k \in Sequences(r)' : k \in Sequences(r)
      BY <2>1 DEF Sequences
    <3>2. ASSUME appended[r] > 0 PROVE appended[r] \in Sequences(r)'
      <4>1. appended[r] \in Sequences(r)
        BY <3>2 DEF SequenceNeverReused
      <4>2. PICK o \in outbox : o.record = r /\ o.sequence = appended[r]
        BY <4>1 DEF Sequences
      <4>3. o \notin trimming
        <5> SUFFICES ASSUME o \in trimming PROVE FALSE
          OBVIOUS
        <5>1. PICK newer \in outbox : Precedes(o, newer)
          BY DEF TrimmingFollowed
        <5>2. newer.sequence \in Sequences(r)
          BY <4>2, <5>1 DEF Precedes, Sequences
        <5>3. newer.sequence <= appended[r]
          BY <5>2 DEF SequenceNeverReused
        <5>4. newer.sequence \in Nat /\ o.sequence \in Nat
          BY EventDeliveryAssumption DEF Occurrence
        <5> QED
          BY <4>2, <5>1, <5>3, <5>4 DEF Precedes
      <4>4. o \in outbox'
        BY <2>1, <4>2, <4>3
      <4> QED
        BY <4>2, <4>4 DEF Sequences
    <3> QED
      BY <3>1, <3>2 DEF SequenceNeverReused
  <2> QED
    BY <1>1, <1>2, <1>3, <1>4, <2>1, <2>2 DEF TrimmingFollowed
<1>7. CASE ReadTrimmable
  <2>1. /\ trimming' \subseteq {o \in outbox : Trimmable(o)}
        /\ UNCHANGED <<outbox, appended, acknowledged>>
    BY <1>7 DEF ReadTrimmable
  <2>2. TrimmingFollowed'
    BY <2>1 DEF TrimmingFollowed, Trimmable
  <2>3. SequenceNeverReused'
    BY <2>1 DEF SequenceNeverReused, Sequences
  <2> QED
    BY <1>1, <1>2, <1>3, <1>4, <2>1, <2>2, <2>3
<1>8. CASE UNCHANGED <<outbox, trimming, appended>>
  <2>1. acknowledged' \subseteq Consumers \X Occurrence
    <3>1. ASSUME NEW d \in Dispatchers, Acknowledge(d)
          PROVE  acknowledged' \subseteq Consumers \X Occurrence
      <4>1. /\ dispatcher[d].consumer \in Consumers
            /\ dispatcher[d].current \in Occurrence
        BY <3>1 DEF Acknowledge, WorkingShape
      <4> QED
        BY <3>1, <4>1 DEF Acknowledge
    <3>2. CASE UNCHANGED acknowledged
      BY <3>2
    <3> QED
      BY <3>1, <3>2 DEF Next, vars, ClaimStep, Claim, BatchStep, Renew, Deliver,
         ReportFailure, Interrupt, Crash, LapseLease, ReadTrimmable, Trim, Append
  <2>2. SequenceNeverReused'
    BY <1>8 DEF SequenceNeverReused, Sequences
  <2> QED
    BY <1>1, <1>2, <1>3, <1>4, <1>8, <2>1, <2>2 DEF TrimmingFollowed
<1> QED
  BY <1>5, <1>6, <1>7, <1>8
  DEF Next, vars, ClaimStep, Claim, BatchStep, Renew, Deliver, Acknowledge,
      ReportFailure, Interrupt, Crash, LapseLease

\* Every variable keeps its type, and the largest retained sequence is always
\* the last one ever given.
THEOREM Typing == Spec => []TypeInv
  BY TypeInit, TypeStep, PTL DEF Spec

\* Every variable keeps its type.
THEOREM TypeCorrect == Spec => []TypeOK
<1>1. TypeInv => TypeOK
  BY DEF TypeInv
<1> QED
  BY Typing, <1>1, PTL

\* append_record_occurrence_set never gives a sequence number twice, although
\* it counts from the largest one that retention has left in the outbox.
THEOREM NumbersNeverReused == Spec => []SequenceNeverReused
<1>1. TypeInv => SequenceNeverReused
  BY DEF TypeInv
<1> QED
  BY Typing, <1>1, PTL

\* An acknowledged or failed row is never written again: no late settlement,
\* reclaim or sweep reopens or overwrites it until retention removes it.
THEOREM FinishedRowsKept == Spec => FinishedForGood
<1> DEFINE Kept(c, o) ==
      progress[c][o].status \in {"acknowledged", "failed"} =>
        \/ progress'[c][o] = progress[c][o]
        \/ progress'[c][o] = NoRow /\ o \notin outbox'
<1>1. TypeInv /\ [Next]_vars => [\A c \in Consumers, o \in Occurrence : Kept(c, o)]_vars
  <2> SUFFICES ASSUME TypeInv, [Next]_vars,
                      NEW c \in Consumers, NEW o \in Occurrence
               PROVE  Kept(c, o)
    OBVIOUS
  <2> QED
    BY RowsChange DEF RowStep, Exhausted, Claimable
<1> QED
  BY Typing, <1>1, PTL DEF Spec, FinishedForGood

-----------------------------------------------------------------------------
\* A row exists only for an occurrence that is still in the outbox (the
\* foreign key of the table, kept by Trim's two deletes).
RowsRetained ==
  \A c \in Consumers, o \in Occurrence :
    progress[c][o].status # "none" => o \in outbox

OrderInv == TypeInv /\ RowsRetained /\ RowsInOrder

LEMMA OrderInit == Init => OrderInv
  BY TypeInit DEF Init, OrderInv, RowsRetained, RowsInOrder, NoRow

LEMMA OrderStep == OrderInv /\ [Next]_vars => OrderInv'
<1> SUFFICES ASSUME OrderInv, [Next]_vars PROVE OrderInv'
  OBVIOUS
<1> USE DEF OrderInv
<1>1. TypeInv'
  BY TypeStep
<1>2. CASE \E r \in Records : Append(r)
  <2>1. PICK r \in Records, first \in 1 .. MaxSequence, last \in 1 .. MaxSequence :
          /\ \A k \in Sequences(r) : k < first
          /\ outbox' = outbox \union
               {[record |-> r, sequence |-> n] : n \in first .. last}
          /\ UNCHANGED progress
    BY <1>2 DEF Append, IsNextSequence
  <2>2. RowsRetained'
    BY <2>1 DEF RowsRetained
  <2>3. ASSUME NEW c \in Consumers, NEW o \in outbox', NEW p \in outbox',
               Precedes(p, o), progress[c][o].status # "none"
        PROVE  progress[c][p].status = "acknowledged"
    <3>1. o \in Occurrence /\ p \in Occurrence
      BY <1>1 DEF TypeInv, TypeOK
    <3>2. o \in outbox
      BY <2>3, <3>1 DEF RowsRetained
    <3>3. p \in outbox
      <4> SUFFICES ASSUME p \notin outbox PROVE FALSE
        OBVIOUS
      <4>1. PICK n \in first .. last : p = [record |-> r, sequence |-> n]
        BY <2>1
      <4>2. o.sequence \in Sequences(r)
        BY <2>3, <3>2, <4>1 DEF Precedes, Sequences
      <4>3. o.sequence < first /\ first <= n /\ p.sequence = n
        BY <2>1, <4>1, <4>2
      <4> QED
        BY <2>3, <3>1, <4>3, EventDeliveryAssumption DEF Precedes, Occurrence
    <3> QED
      BY <2>3, <3>2, <3>3 DEF RowsInOrder
  <2> QED
    BY <1>1, <2>1, <2>2, <2>3 DEF RowsInOrder, Precedes
<1>3. CASE Trim
  <2>1. /\ outbox' = outbox \ trimming
        /\ progress' = [c \in Consumers |-> [o \in Occurrence |->
             IF o \in trimming THEN NoRow ELSE progress[c][o]]]
    BY <1>3 DEF Trim
  <2>2. outbox' \subseteq Occurrence
    BY <1>1 DEF TypeInv, TypeOK
  <2>3. RowsRetained'
    BY <2>1 DEF RowsRetained, NoRow
  <2>4. \A c \in Consumers, o \in outbox' : progress'[c][o] = progress[c][o]
    BY <2>1, <2>2
  <2>5. RowsInOrder'
    BY <2>1, <2>4 DEF RowsInOrder, Precedes
  <2> QED
    BY <1>1, <2>3, <2>5
<1>4. CASE UNCHANGED outbox
  <2>1. outbox \subseteq Occurrence
    BY DEF TypeInv, TypeOK
  <2>2. ASSUME NEW c \in Consumers, NEW o \in Occurrence,
               progress'[c][o].status # "none"
        PROVE  \/ progress[c][o].status # "none"
               \/ o \in outbox /\ Unblocked(c, o)
    BY <2>2, RowsChange DEF RowStep, NoRow, Exhausted
  <2>3. RowsRetained'
    BY <1>4, <2>2 DEF RowsRetained
  <2>4. ASSUME NEW c \in Consumers, NEW o \in outbox, NEW p \in outbox,
               Precedes(p, o), progress'[c][o].status # "none"
        PROVE  progress'[c][p].status = "acknowledged"
    <3>1. progress[c][p].status = "acknowledged"
      BY <2>1, <2>2, <2>4 DEF RowsInOrder, Unblocked
    <3>2. p \in Occurrence /\ RowStep(c, p)
      BY <2>1, RowsChange
    <3> QED
      BY <1>4, <3>1, <3>2 DEF RowStep, Exhausted, Claimable
  <2> QED
    BY <1>1, <1>4, <2>3, <2>4 DEF RowsInOrder, Precedes
<1> QED
  BY <1>2, <1>3, <1>4, OutboxChanges DEF OutboxStep

\* Whatever dispatchers, lapses, failures, crashes and retention do, no
\* consumer ever starts an occurrence before it has acknowledged all earlier
\* occurrences of the record that the outbox still holds.
THEOREM DeliveryInOrder == Spec => []RowsInOrder
<1>1. OrderInv => RowsInOrder
  BY DEF OrderInv
<1> QED
  BY OrderInit, OrderStep, <1>1, PTL DEF Spec

-----------------------------------------------------------------------------
\* Two dispatchers at work never share a cursor.
CursorsDistinct ==
  \A d, e \in Dispatchers :
    d # e /\ dispatcher[d].stage # "idle"
      => dispatcher[d].cursor # dispatcher[e].cursor

HolderInv == TypeInv /\ CursorsDistinct /\ HolderNotOvertaken

LEMMA OneDispatcher ==
  ASSUME [Next]_vars, TypeInv
  PROVE  \/ UNCHANGED dispatcher
         \/ \E e \in Dispatchers : \A d \in Dispatchers :
              d # e => dispatcher'[d] = dispatcher[d]
<1>1. dispatcher \in [Dispatchers -> DispatcherState]
  BY DEF TypeInv, TypeOK
<1>2. UNCHANGED dispatcher \/ \E e \in Dispatchers : \E X :
        dispatcher' = [dispatcher EXCEPT ![e] = X]
  <2>1. ASSUME NEW e \in Dispatchers, Deliver(e)
        PROVE  \E X : dispatcher' = [dispatcher EXCEPT ![e] = X]
    BY <1>1, <2>1 DEF Deliver
  <2> QED
    BY <2>1 DEF Next, vars, ClaimStep, Claim, BatchStep, Renew, GoOn,
      Acknowledge, ReportFailure, Interrupt, Crash, LapseLease, ReadTrimmable,
      Trim, Append
<1> QED
  BY <1>1, <1>2

\* What a dispatcher holds after a step it held before it, under the same
\* cursor, or claimed in this step.
LEMMA HeldBefore ==
  ASSUME TypeInv, [Next]_vars, NEW d \in Dispatchers, NEW o \in Held(d)'
  PROVE  /\ dispatcher'[d].stage # "idle"
         /\ \/ dispatcher[d].stage = "idle"
            \/ /\ dispatcher[d].stage # "idle"
               /\ o \in Held(d)
               /\ dispatcher'[d].cursor = dispatcher[d].cursor
               /\ dispatcher'[d].consumer = dispatcher[d].consumer
               /\ dispatcher'[d] = NextOf(dispatcher[d])
                    => o \in dispatcher[d].waiting
<1> DEFINE s == dispatcher[d]
           t == dispatcher'[d]
<1>1. /\ s \in DispatcherState /\ t \in DispatcherState
      /\ WorkingShape(s) /\ IdleShape(s) /\ IdleShape(t)
  BY TypeStep DEF TypeInv, TypeOK
<1>2. o \in t.waiting \/ (t.stage \in {"delivering", "settling"} /\ o = t.current)
  BY DEF Held
<1>3. t.stage # "idle"
  <2> SUFFICES ASSUME t.stage = "idle" PROVE FALSE
    OBVIOUS
  <2>1. t = Idle
    BY <1>1 DEF IdleShape
  <2> QED
    BY <1>2, <2>1 DEF Idle
<1>4. ASSUME s.stage # "idle"
      PROVE  /\ o \in s.waiting \/ (s.stage \in {"delivering", "settling"} /\ o = s.current)
             /\ t.cursor = s.cursor /\ t.consumer = s.consumer
             /\ t = NextOf(s) => o \in s.waiting
  <2>1. CASE t = s
    <3>1. /\ o \in s.waiting \/ (s.stage \in {"delivering", "settling"} /\ o = s.current)
          /\ t.cursor = s.cursor /\ t.consumer = s.consumer
      BY <1>2, <2>1
    <3>2. NextOf(s).stage \in {"idle", "choosing"}
      BY <1>1 DEF DispatcherState, NextOf, Idle
    <3>3. o \notin s.waiting => t # NextOf(s)
      BY <2>1, <3>1, <3>2
    <3> HIDE DEF s, t
    <3> QED
      BY <3>1, <3>3
  <2>2. CASE t = Idle
    BY <1>2, <2>2 DEF Idle
  <2>3. ASSUME NEW q \in s.waiting, s.stage = "choosing",
               t = [s EXCEPT !.waiting = @ \ {q},
                             !.stage = "delivering", !.current = q]
        PROVE  /\ o \in s.waiting
               /\ t.cursor = s.cursor /\ t.consumer = s.consumer
    BY <1>1, <1>2, <2>3 DEF DispatcherState
  <2>4. ASSUME NEW q \in s.waiting, s.stage = "choosing",
               t = NextOf([s EXCEPT !.waiting = @ \ {q}])
        PROVE  /\ o \in s.waiting
               /\ t.cursor = s.cursor /\ t.consumer = s.consumer
    BY <1>1, <1>2, <2>4 DEF DispatcherState, NextOf, Idle
  <2>5. ASSUME NEW outcome \in Outcomes, s.stage = "delivering",
               t = [s EXCEPT !.stage = "settling", !.outcome = outcome]
        PROVE  /\ o \in s.waiting \/ o = s.current
               /\ t.cursor = s.cursor /\ t.consumer = s.consumer
               /\ t # NextOf(s)
    <3>1. t.stage = "settling"
      BY <1>1, <2>5 DEF DispatcherState
    <3>2. NextOf(s).stage \in {"idle", "choosing"}
      BY <1>1 DEF DispatcherState, NextOf, Idle
    <3>3. /\ o \in s.waiting \/ o = s.current
          /\ t.cursor = s.cursor /\ t.consumer = s.consumer
      BY <1>1, <1>2, <2>5 DEF DispatcherState
    <3> QED
      BY <3>1, <3>2, <3>3
  <2>6. CASE s.stage = "settling" /\ t = NextOf(s)
    BY <1>1, <1>2, <2>6 DEF DispatcherState, NextOf, Idle
  <2> HIDE DEF s, t
  <2>7. DispatcherStep(d)
    BY DispatchersChange
  <2> QED
    BY <1>4, <2>1, <2>2, <2>3, <2>4, <2>5, <2>6, <2>7 DEF DispatcherStep, s, t
<1> QED
  BY <1>3, <1>4 DEF Held

\* A cursor at work after a step was at work before it, or is fresh.
LEMMA CursorBefore ==
  ASSUME TypeInv, [Next]_vars, NEW d \in Dispatchers
  PROVE  \/ dispatcher'[d] = dispatcher[d]
         \/ dispatcher'[d].cursor = NoCursor /\ dispatcher'[d].stage = "idle"
         \/ /\ dispatcher[d].stage = "idle"
            /\ dispatcher'[d].cursor \in Cursors \ CursorsInUse
         \/ /\ dispatcher[d].stage # "idle"
            /\ dispatcher'[d].cursor = dispatcher[d].cursor
<1> DEFINE s == dispatcher[d]
           t == dispatcher'[d]
<1>1. s \in DispatcherState
  BY DEF TypeInv, TypeOK
<1>2. CASE t = Idle
  BY <1>2 DEF Idle
<1>3. ASSUME NEW c \in Consumers, NEW batch \in SUBSET Eligible(c),
             NEW cursor \in Cursors \ CursorsInUse,
             t = [Idle EXCEPT !.stage = "choosing", !.consumer = c,
                              !.cursor = cursor, !.waiting = batch]
      PROVE  t.cursor \in Cursors \ CursorsInUse
  BY <1>3 DEF Idle
<1>4. ASSUME NEW q \in s.waiting,
             t = [s EXCEPT !.waiting = @ \ {q},
                           !.stage = "delivering", !.current = q]
      PROVE  t.cursor = s.cursor
  BY <1>1, <1>4 DEF DispatcherState
<1>5. ASSUME NEW q \in s.waiting, t = NextOf([s EXCEPT !.waiting = @ \ {q}])
      PROVE  t = Idle \/ t.cursor = s.cursor
  BY <1>1, <1>5 DEF DispatcherState, NextOf
<1>6. ASSUME NEW outcome \in Outcomes,
             t = [s EXCEPT !.stage = "settling", !.outcome = outcome]
      PROVE  t.cursor = s.cursor
  BY <1>1, <1>6 DEF DispatcherState
<1> HIDE DEF s, t
<1>8. DispatcherStep(d)
  BY DispatchersChange
<1>7. t = NextOf(s) => t = Idle \/ t.cursor = s.cursor
  BY <1>1 DEF DispatcherState, NextOf
<1> QED
  BY <1>2, <1>3, <1>4, <1>5, <1>6, <1>7, <1>8 DEF DispatcherStep, s, t

LEMMA OwnCursorInUse ==
  ASSUME NEW d \in Dispatchers
  PROVE  dispatcher[d].cursor \in CursorsInUse
  BY DEF CursorsInUse

LEMMA RowCursorInUse ==
  ASSUME NEW c \in Consumers, NEW o \in Occurrence
  PROVE  progress[c][o].cursor \in CursorsInUse
  BY DEF CursorsInUse

LEMMA CursorsStep ==
  ASSUME TypeInv, [Next]_vars, CursorsDistinct
  PROVE  CursorsDistinct'
<1> SUFFICES ASSUME NEW d \in Dispatchers, NEW e \in Dispatchers, d # e,
                    dispatcher'[d].stage # "idle"
             PROVE  dispatcher'[d].cursor # dispatcher'[e].cursor
  BY DEF CursorsDistinct
<1>1. dispatcher[d].cursor \in CursorsInUse /\ dispatcher[e].cursor \in CursorsInUse
  BY OwnCursorInUse
<1>2. dispatcher'[d].cursor \in Cursors
  BY TypeStep DEF TypeInv, WorkingShape
<1>3. dispatcher'[d] = dispatcher[d] \/ dispatcher'[e] = dispatcher[e]
  BY OneDispatcher
<1>4. CASE dispatcher'[e] = dispatcher[e]
  BY <1>1, <1>2, <1>4, CursorBefore DEF CursorsDistinct
<1>5. CASE dispatcher'[d] = dispatcher[d]
  BY <1>1, <1>2, <1>5, CursorBefore, ConsumerProgressAssumption
  DEF CursorsDistinct
<1> QED
  BY <1>3, <1>4, <1>5

\* What a step may do to a row whose claim the row still names afterwards.
LEMMA RowKeepsCursor ==
  ASSUME NEW c \in Consumers, NEW o \in Occurrence, RowStep(c, o),
         RowsWellFormed,
         progress'[c][o].cursor # NoCursor
  PROVE  \/ progress'[c][o] = progress[c][o]
         \/ /\ progress'[c][o].cursor \notin CursorsInUse
            /\ progress'[c][o].status = "open"
         \/ /\ progress'[c][o].cursor = progress[c][o].cursor
            /\ \/ \E d \in Dispatchers : SettledBy(d, c, o)
               \/ progress'[c][o].status = "open"
               \/ progress'[c][o].status = "failed" /\ ~progress'[c][o].live
<1> DEFINE row == progress[c][o]
<1>1. row \in Row
  BY DEF RowsWellFormed, WellFormed
<1>2. ASSUME Exhausted(row)
      PROVE  /\ Swept(row).cursor = row.cursor
             /\ Swept(row).status = "failed" /\ ~Swept(row).live
  BY <1>1, <1>2 DEF Row, Exhausted, Swept
<1>3. ASSUME NEW cursor
      PROVE  /\ Claimed(row, cursor).cursor = cursor
             /\ Claimed(row, cursor).status = "open"
  BY <1>1 DEF Row, Claimed
<1>4. Acknowledged(row).cursor = row.cursor
  BY <1>1 DEF Row, Acknowledged
<1>5. ASSUME NEW budget
      PROVE  FailureReported(row, budget).cursor = row.cursor
  BY <1>1 DEF Row, FailureReported
<1>6. ASSUME row.status = "open"
      PROVE  Lapsed(row).cursor = row.cursor /\ Lapsed(row).status = "open"
  BY <1>1, <1>6 DEF Row, Lapsed
<1>7. NoRow.cursor = NoCursor
  BY DEF NoRow
<1> HIDE DEF row
<1> QED
  BY <1>2, <1>3, <1>4, <1>5, <1>6, <1>7 DEF RowStep, row

LEMMA HolderStep == HolderInv /\ [Next]_vars => HolderInv'
<1> SUFFICES ASSUME HolderInv, [Next]_vars PROVE HolderInv'
  OBVIOUS
<1> USE DEF HolderInv
<1>1. TypeInv' /\ CursorsDistinct'
  BY TypeStep, CursorsStep
<1>2. SUFFICES ASSUME NEW d \in Dispatchers, NEW o \in Held(d)',
                      OwnRow(d, o)'.cursor = dispatcher'[d].cursor
               PROVE  \/ OwnRow(d, o)'.status = "open"
                      \/ OwnRow(d, o)'.status = "failed" /\ ~OwnRow(d, o)'.live
  BY <1>1 DEF HolderNotOvertaken
<1> DEFINE c == dispatcher'[d].consumer
           row == progress'[c][o]
<1>3. OwnRow(d, o)' = row
  BY DEF OwnRow
<1>4. dispatcher'[d].stage # "idle"
  BY HeldBefore
<1>5. /\ c \in Consumers /\ o \in Occurrence
      /\ row.cursor \in Cursors /\ row.cursor # NoCursor
  <2>1. dispatcher'[d] \in DispatcherState /\ WorkingShape(dispatcher'[d])
    BY <1>1 DEF TypeInv, TypeOK
  <2>2. o \in Occurrence
    BY <2>1 DEF Held, DispatcherState, WorkingShape
  <2> QED
    BY <1>2, <1>3, <1>4, <2>1, <2>2, ConsumerProgressAssumption DEF WorkingShape
<1> HIDE DEF c
<1>6. \/ row = progress[c][o]
      \/ row.cursor \notin CursorsInUse /\ row.status = "open"
      \/ /\ row.cursor = progress[c][o].cursor
         /\ \/ \E e \in Dispatchers : SettledBy(e, c, o)
            \/ row.status = "open"
            \/ row.status = "failed" /\ ~row.live
  BY <1>5, RowsChange, RowKeepsCursor DEF TypeInv
<1>7. CASE dispatcher[d].stage = "idle"
  <2>1. row.cursor \notin CursorsInUse
    BY <1>2, <1>3, <1>4, <1>7, CursorBefore
  <2> QED
    BY <1>3, <1>5, <1>6, <2>1, RowCursorInUse
<1>8. CASE dispatcher[d].stage # "idle"
  <2>1. /\ o \in Held(d) /\ dispatcher[d].consumer = c
        /\ row.cursor = dispatcher[d].cursor
        /\ dispatcher'[d] = NextOf(dispatcher[d]) => o \in dispatcher[d].waiting
    BY <1>2, <1>3, <1>8, HeldBefore DEF c
  <2>2. row.cursor \in CursorsInUse
    BY <2>1, OwnCursorInUse
  <2>3. CASE row = progress[c][o]
    BY <1>3, <2>1, <2>3 DEF HolderNotOvertaken, OwnRow
  <2>4. ASSUME row.cursor = progress[c][o].cursor,
               NEW e \in Dispatchers, SettledBy(e, c, o)
        PROVE  FALSE
    <3>1. e = d
      BY <2>1, <2>4, <1>8 DEF SettledBy, CursorsDistinct
    <3>2. o \in dispatcher[d].waiting
      BY <2>1, <2>4, <3>1 DEF SettledBy
    <3> QED
      BY <2>4, <3>1, <3>2 DEF SettledBy, TypeInv, WorkingShape
  <2> QED
    BY <1>3, <1>6, <2>2, <2>3, <2>4
<1> QED
  BY <1>7, <1>8

\* A dispatcher that still works under a row's current claim is the only one
\* that can finish the row, apart from the sweep once the lease has lapsed: an
\* acknowledgement is never made for, or after, another dispatcher's claim.
THEOREM HolderKept == Spec => []HolderNotOvertaken
<1>1. Init => HolderInv
  <2> SUFFICES ASSUME Init PROVE HolderInv
    OBVIOUS
  <2>1. \A d \in Dispatchers : dispatcher[d] = Idle
    BY DEF Init
  <2> QED
    BY <2>1, TypeInit DEF Idle, HolderInv, CursorsDistinct, HolderNotOvertaken, Held
<1>2. HolderInv => HolderNotOvertaken
  BY DEF HolderInv
<1> QED
  BY <1>1, <1>2, HolderStep, PTL DEF Spec

-----------------------------------------------------------------------------
\* Of two occurrences of one record the later one is blocked by the earlier,
\* which is claimable and so not acknowledged: a claim never returns both.
LEMMA BatchOnePerRecord ==
  ASSUME TypeInv, NEW c \in Consumers, NEW o \in Eligible(c),
         NEW p \in Eligible(c), o.record = p.record
  PROVE  o = p
<1>1. o \in outbox /\ p \in outbox /\ o \in Occurrence /\ p \in Occurrence
  BY DEF Eligible, TypeInv, TypeOK
<1>2. ~Precedes(o, p) /\ ~Precedes(p, o)
  BY <1>1 DEF Eligible, Unblocked, Claimable
<1>3. o.sequence = p.sequence
  BY <1>1, <1>2, EventDeliveryAssumption DEF Precedes, Occurrence
<1> QED
  BY <1>1, <1>3 DEF Occurrence

LEMMA OnePerRecordStep ==
  TypeInv /\ OnePerRecord /\ [Next]_vars => OnePerRecord'
<1> SUFFICES ASSUME TypeInv, OnePerRecord, [Next]_vars, NEW d \in Dispatchers,
                    NEW o \in Held(d)', NEW p \in Held(d)', o.record = p.record
             PROVE  o = p
  BY DEF OnePerRecord
<1>1. CASE dispatcher[d].stage # "idle"
  BY <1>1, HeldBefore DEF OnePerRecord
<1>2. CASE dispatcher[d].stage = "idle"
  <2>1. dispatcher'[d].stage # "idle" /\ DispatcherStep(d)
    BY HeldBefore, DispatchersChange
  <2>2. dispatcher'[d] # dispatcher[d] /\ dispatcher'[d] # Idle
    BY <1>2, <2>1 DEF Idle
  <2>3. PICK c \in Consumers : \E batch \in SUBSET Eligible(c),
             cursor \in Cursors \ CursorsInUse :
          dispatcher'[d] = [Idle EXCEPT !.stage = "choosing", !.consumer = c,
                                        !.cursor = cursor, !.waiting = batch]
    BY <1>2, <2>1, <2>2 DEF DispatcherStep
  <2>4. PICK batch \in SUBSET Eligible(c), cursor \in Cursors \ CursorsInUse :
          dispatcher'[d] = [Idle EXCEPT !.stage = "choosing", !.consumer = c,
                                        !.cursor = cursor, !.waiting = batch]
    BY <2>3
  <2>5. dispatcher'[d].waiting = batch /\ dispatcher'[d].stage = "choosing"
    BY <2>4 DEF Idle
  <2>6. Held(d)' = batch
    BY <2>5 DEF Held
  <2> QED
    BY <2>6, BatchOnePerRecord
<1> QED
  BY <1>1, <1>2

\* The occurrences a dispatcher holds of one claim are of different records,
\* so delivering them in any order keeps every record's order.
THEOREM HoldsOnePerRecord == Spec => []OnePerRecord
<1>1. Init => OnePerRecord
  <2> SUFFICES ASSUME Init PROVE OnePerRecord
    OBVIOUS
  <2>1. \A d \in Dispatchers : dispatcher[d] = Idle
    BY DEF Init
  <2> QED
    BY <2>1 DEF Idle, OnePerRecord, Held
<1> QED
  BY <1>1, OnePerRecordStep, Typing, PTL DEF Spec
=============================================================================
