------------------------ MODULE OrderedDeliveryProofs ------------------------
(***************************************************************************)
(* EventDelivery implements OrderedDelivery: for every number of records,   *)
(* consumers, dispatchers, cursors and attempts, each of its steps is a     *)
(* step of the promise or a stutter under the mapping StatusOf.             *)
(***************************************************************************)
EXTENDS EventDeliveryProofs

\* A retained occurrence was acknowledged exactly when its row says so.
AckRecorded ==
  \A c \in Consumers, o \in Occurrence :
    /\ progress[c][o].status = "acknowledged" => <<c, o>> \in acknowledged
    /\ <<c, o>> \in acknowledged /\ o \in outbox =>
         progress[c][o].status = "acknowledged"

\* Only what was appended is acknowledged.
AckAppended ==
  \A c \in Consumers, o \in Occurrence :
    <<c, o>> \in acknowledged => o.sequence <= appended[o.record]

\* What retention has read some consumer acknowledged, and it stays so.
TrimmingAcknowledged ==
  \A o \in trimming : \E c \in Consumers : progress[c][o].status = "acknowledged"

PromiseInv == OrderInv /\ AckRecorded /\ AckAppended /\ TrimmingAcknowledged

\* A number that was never given is not in the outbox.
LEMMA RetainedAppended ==
  ASSUME TypeInv, NEW o \in outbox
  PROVE  o \in Occurrence /\ o.sequence <= appended[o.record]
<1>1. o \in Occurrence
  BY DEF TypeInv, TypeOK
<1>2. o.record \in Records /\ o.sequence \in Sequences(o.record)
  BY <1>1 DEF Occurrence, Sequences
<1> QED
  BY <1>1, <1>2 DEF TypeInv, SequenceNeverReused

LEMMA OccurrenceTypes ==
  ASSUME TypeInv, NEW o \in Occurrence
  PROVE  o.record \in Records /\ o.sequence \in Nat /\ appended[o.record] \in Nat
  BY EventDeliveryAssumption DEF TypeInv, TypeOK, Occurrence

\* What one save does to the counters, in numbers.
LEMMA AppendNumbers ==
  ASSUME TypeInv, NEW r \in Records, Append(r)
  PROVE  \E first, last \in 1 .. MaxSequence :
           /\ first <= last /\ first = appended[r] + 1
           /\ outbox' = outbox \union {[record |-> r, sequence |-> n] : n \in first .. last}
           /\ appended' = [appended EXCEPT ![r] = last]
           /\ UNCHANGED <<progress, dispatcher, trimming, acknowledged>>
<1>1. PICK first \in 1 .. MaxSequence, last \in 1 .. MaxSequence :
        /\ first <= last /\ IsNextSequence(r, first)
        /\ outbox' = outbox \union {[record |-> r, sequence |-> n] : n \in first .. last}
        /\ appended' = [appended EXCEPT ![r] = @ + (last - first + 1)]
        /\ UNCHANGED <<progress, dispatcher, trimming, acknowledged>>
  BY DEF Append
<1>2. first = appended[r] + 1 /\ appended[r] \in Nat
  BY <1>1, AppendFirst, EventDeliveryAssumption DEF TypeInv, TypeOK
<1>3. appended[r] + (last - first + 1) = last
  BY <1>2, EventDeliveryAssumption
<1>4. appended' = [appended EXCEPT ![r] = last]
  BY <1>1, <1>3
<1> QED
  BY <1>1, <1>2, <1>4

\* The counters never fall.
LEMMA AppendedGrows ==
  ASSUME TypeInv, [Next]_vars, NEW r \in Records
  PROVE  appended[r] <= appended'[r]
<1>1. appended[r] \in Nat
  BY EventDeliveryAssumption DEF TypeInv, TypeOK
<1>2. CASE UNCHANGED appended
  BY <1>1, <1>2
<1>3. ASSUME NEW q \in Records, Append(q) PROVE appended[r] <= appended'[r]
  <2>1. PICK last \in 1 .. MaxSequence :
          appended' = [appended EXCEPT ![q] = last] /\ appended[q] + 1 <= last
    BY <1>3, AppendNumbers
  <2> QED
    BY <1>1, <2>1, EventDeliveryAssumption DEF TypeInv, TypeOK
<1> QED
  BY <1>2, <1>3 DEF Next, vars, ClaimStep, Claim, BatchStep, Renew, Deliver,
     Acknowledge, ReportFailure, Interrupt, Crash, LapseLease, ReadTrimmable, Trim

LEMMA PromiseInit == Init => PromiseInv
  BY OrderInit DEF Init, PromiseInv, AckRecorded, AckAppended, TrimmingAcknowledged, NoRow

-----------------------------------------------------------------------------
\* An acknowledgement turns one open row and is recorded, or does nothing.
LEMMA AcknowledgeChange ==
  ASSUME TypeInv, NEW d \in Dispatchers, Acknowledge(d)
  PROVE  /\ UNCHANGED <<outbox, trimming, appended>>
         /\ \/ UNCHANGED <<progress, acknowledged>>
            \/ \E c \in Consumers, o \in Occurrence :
                 /\ progress[c][o].status = "open"
                 /\ progress' = [progress EXCEPT ![c][o] = Acknowledged(progress[c][o])]
                 /\ acknowledged' = acknowledged \union {<<c, o>>}
<1> DEFINE c == dispatcher[d].consumer
           o == dispatcher[d].current
<1>1. c \in Consumers /\ o \in Occurrence
  BY DEF TypeInv, WorkingShape, Acknowledge
<1>2. CASE Holds(OwnRow(d, o), dispatcher[d].cursor)
  BY <1>1, <1>2 DEF Acknowledge, Holds, OwnRow, SetRow
<1>3. CASE ~Holds(OwnRow(d, o), dispatcher[d].cursor)
  BY <1>3 DEF Acknowledge
<1> QED
  BY <1>2, <1>3 DEF Acknowledge

\* A reported failure is terminal for one open row of an occurrence, or leaves
\* the row open, or does nothing.
LEMMA FailureChange ==
  ASSUME TypeInv, NEW d \in Dispatchers, ReportFailure(d)
  PROVE  /\ UNCHANGED <<outbox, trimming, appended, acknowledged>>
         /\ \/ UNCHANGED progress
            \/ \E c \in Consumers, o \in Occurrence : \E row :
                 /\ progress[c][o].status = "open"
                 /\ row.status \in {"open", "failed"}
                 /\ progress' = [progress EXCEPT ![c][o] = row]
<1> DEFINE c == dispatcher[d].consumer
           o == dispatcher[d].current
           budget == IF dispatcher[d].outcome = "terminal_failure"
                     THEN 1 ELSE MaximumFailures
           row == FailureReported(OwnRow(d, o), budget)
<1>1. c \in Consumers /\ o \in Occurrence
  BY DEF TypeInv, WorkingShape, ReportFailure
<1>2. progress[c][o] \in Row
  BY <1>1 DEF TypeInv, TypeOK
<1>3. CASE MayReportFailure(OwnRow(d, o), dispatcher[d].cursor)
  <2>1. progress[c][o].status = "open"
    BY <1>3 DEF MayReportFailure, OwnRow
  <2>2. row.status \in {"open", "failed"}
    BY <1>2, <2>1 DEF FailureReported, OwnRow, Row
  <2>3. progress' = [progress EXCEPT ![c][o] = row]
    BY <1>3 DEF ReportFailure, SetRow
  <2> HIDE DEF c, o, row
  <2>4. \E e \in Consumers, q \in Occurrence : \E r :
          /\ progress[e][q].status = "open"
          /\ r.status \in {"open", "failed"}
          /\ progress' = [progress EXCEPT ![e][q] = r]
    BY <1>1, <2>1, <2>2, <2>3
  <2> QED
    BY <2>4 DEF ReportFailure
<1>4. CASE ~MayReportFailure(OwnRow(d, o), dispatcher[d].cursor)
  BY <1>4 DEF ReportFailure
<1> QED
  BY <1>3, <1>4

\* Only an acknowledgement makes a row acknowledged or records one.
LEMMA OthersAcknowledgeNothing ==
  ASSUME TypeInv, [Next]_vars, \A d \in Dispatchers : ~Acknowledge(d),
         NEW c \in Consumers, NEW o \in Occurrence
  PROVE  /\ acknowledged' = acknowledged
         /\ progress'[c][o].status = "acknowledged" =>
              progress[c][o].status = "acknowledged"
<1> USE DEF TypeInv, TypeOK
<1>1. ASSUME NEW d \in Dispatchers, NEW e \in Consumers, ClaimStep(d, e)
      PROVE  /\ acknowledged' = acknowledged
             /\ progress'[c][o].status = "acknowledged" =>
                  progress[c][o].status = "acknowledged"
  <2>1. PICK swept \in SUBSET outbox, batch \in SUBSET outbox :
          Claim(d, e, swept, batch)
    BY <1>1 DEF ClaimStep
  <2> DEFINE cursor == CHOOSE k \in Cursors \ CursorsInUse : TRUE
  <2>2. progress' = [progress EXCEPT ![e] = [q \in Occurrence |->
            IF q \in swept THEN Swept(progress[e][q])
            ELSE IF q \in batch THEN Claimed(progress[e][q], cursor)
            ELSE progress[e][q]]]
    BY <2>1 DEF Claim
  <2> HIDE DEF cursor
  <2>3. progress[e][o] \in Row
    OBVIOUS
  <2>4. progress'[c][o] \in {Swept(progress[e][o]), Claimed(progress[e][o], cursor),
                              progress[c][o]}
    BY <2>2
  <2>5. /\ Swept(progress[e][o]).status = "failed"
        /\ Claimed(progress[e][o], cursor).status = "open"
    BY <2>3 DEF Swept, Claimed, Row
  <2> QED
    BY <2>1, <2>4, <2>5 DEF Claim
<1>2. ASSUME NEW d \in Dispatchers, ReportFailure(d)
      PROVE  /\ acknowledged' = acknowledged
             /\ progress'[c][o].status = "acknowledged" =>
                  progress[c][o].status = "acknowledged"
  <2>1. CASE UNCHANGED progress
    BY <1>2, <2>1, FailureChange
  <2>2. ASSUME NEW e \in Consumers, NEW q \in Occurrence, NEW row,
               row.status \in {"open", "failed"},
               progress' = [progress EXCEPT ![e][q] = row]
        PROVE  progress'[c][o].status = "acknowledged" =>
                 progress[c][o].status = "acknowledged"
    BY <2>2
  <2> QED
    BY <1>2, <2>1, <2>2, FailureChange
<1>3. ASSUME NEW e \in Consumers, NEW q \in Occurrence, LapseLease(e, q)
      PROVE  /\ acknowledged' = acknowledged
             /\ progress'[c][o].status = "acknowledged" =>
                  progress[c][o].status = "acknowledged"
  <2>1. progress[e][q] \in Row /\ progress[e][q].status = "open"
    BY <1>3 DEF LapseLease
  <2>2. Lapsed(progress[e][q]).status = "open"
    BY <2>1 DEF Lapsed, Row
  <2> QED
    BY <1>3, <2>2 DEF LapseLease, SetRow
<1>4. CASE Trim
  BY <1>4 DEF Trim, NoRow
<1>5. CASE UNCHANGED <<progress, acknowledged>>
  BY <1>5
<1> QED
  BY <1>1, <1>2, <1>3, <1>4, <1>5
  DEF Next, vars, BatchStep, Append, Renew, Deliver, Interrupt, Crash,
      ReadTrimmable

\* An acknowledged row stays as long as its occurrence.
LEMMA AcknowledgedStays ==
  ASSUME TypeInv, [Next]_vars, NEW c \in Consumers, NEW o \in Occurrence,
         progress[c][o].status = "acknowledged", o \in outbox'
  PROVE  progress'[c][o].status = "acknowledged"
  BY RowsChange DEF RowStep, Exhausted, Claimable

LEMMA PromiseStep == PromiseInv /\ [Next]_vars => PromiseInv'
<1> SUFFICES ASSUME PromiseInv, [Next]_vars PROVE PromiseInv'
  OBVIOUS
<1> USE DEF PromiseInv, OrderInv
<1>1. OrderInv'
  BY OrderStep
<1>2. ASSUME NEW c \in Consumers, NEW o \in Occurrence
      PROVE  /\ progress'[c][o].status = "acknowledged" => <<c, o>> \in acknowledged'
             /\ <<c, o>> \in acknowledged' /\ <<c, o>> \notin acknowledged =>
                  /\ progress'[c][o].status = "acknowledged"
                  /\ o.sequence <= appended[o.record]
  <2>1. ASSUME NEW d \in Dispatchers, Acknowledge(d),
               ~UNCHANGED <<progress, acknowledged>>
        PROVE  /\ progress'[c][o].status = "acknowledged" => <<c, o>> \in acknowledged'
               /\ <<c, o>> \in acknowledged' /\ <<c, o>> \notin acknowledged =>
                    /\ progress'[c][o].status = "acknowledged"
                    /\ o.sequence <= appended[o.record]
    <3>1. PICK e \in Consumers, q \in Occurrence :
            /\ progress[e][q].status = "open"
            /\ progress' = [progress EXCEPT ![e][q] = Acknowledged(progress[e][q])]
            /\ acknowledged' = acknowledged \union {<<e, q>>}
      BY <2>1, AcknowledgeChange
    <3>2. q.sequence <= appended[q.record]
      BY <3>1, RetainedAppended DEF RowsRetained
    <3>3. progress[e][q] \in Row /\ progress \in [Consumers -> [Occurrence -> Row]]
      BY DEF TypeInv, TypeOK
    <3>4. progress'[e][q].status = "acknowledged"
      BY <3>1, <3>3 DEF Acknowledged, Row
    <3>5. ~(c = e /\ o = q) => progress'[c][o] = progress[c][o]
      BY <3>1, <3>3
    <3> QED
      BY <3>1, <3>2, <3>4, <3>5 DEF AckRecorded
  <2>2. CASE UNCHANGED <<progress, acknowledged>>
    BY <2>2 DEF AckRecorded
  <2>3. CASE \A d \in Dispatchers : ~Acknowledge(d)
    BY <2>3, OthersAcknowledgeNothing DEF AckRecorded
  <2> QED
    BY <2>1, <2>2, <2>3
<1>3. acknowledged \subseteq acknowledged'
  <2>1. ASSUME NEW d \in Dispatchers, Acknowledge(d)
        PROVE  acknowledged \subseteq acknowledged'
    BY <2>1, AcknowledgeChange
  <2> QED
    BY <2>1 DEF Next, vars, ClaimStep, Claim, BatchStep, Append, Renew, Deliver,
       ReportFailure, Interrupt, Crash, LapseLease, ReadTrimmable, Trim
<1>4. AckAppended'
  <2>1. SUFFICES ASSUME NEW c \in Consumers, NEW o \in Occurrence,
                        <<c, o>> \in acknowledged'
                 PROVE  o.sequence <= appended'[o.record]
    BY DEF AckAppended
  <2>2. o.sequence <= appended[o.record]
    BY <1>2, <2>1 DEF AckAppended
  <2>3. appended[o.record] <= appended'[o.record] /\ appended'[o.record] \in Nat
    <3>1. o.record \in Records
      BY OccurrenceTypes
    <3> QED
      BY <1>1, <3>1, AppendedGrows, EventDeliveryAssumption DEF TypeInv, TypeOK
  <2> QED
    BY <2>2, <2>3, OccurrenceTypes
<1>5. AckRecorded'
  <2>1. SUFFICES ASSUME NEW c \in Consumers, NEW o \in Occurrence,
                        <<c, o>> \in acknowledged, o \in outbox'
                 PROVE  progress'[c][o].status = "acknowledged"
    BY <1>2 DEF AckRecorded
  <2>2. CASE o \in outbox
    BY <2>1, <2>2, AcknowledgedStays DEF AckRecorded
  <2>3. CASE o \notin outbox
    <3>1. PICK r \in Records : Append(r)
      BY <2>1, <2>3, OutboxChanges DEF OutboxStep, Trim
    <3>2. PICK first \in 1 .. MaxSequence, last \in 1 .. MaxSequence :
            /\ first = appended[r] + 1
            /\ outbox' = outbox \union {[record |-> r, sequence |-> n] : n \in first .. last}
      BY <3>1, AppendNumbers
    <3>3. o.record = r /\ o.sequence >= appended[r] + 1
      BY <2>1, <2>3, <3>2
    <3>4. o.sequence <= appended[o.record]
      BY <2>1 DEF AckAppended
    <3> QED
      BY <3>3, <3>4, OccurrenceTypes
  <2> QED
    BY <2>2, <2>3
<1>6. TrimmingAcknowledged'
  <2>1. SUFFICES ASSUME NEW o \in trimming'
                 PROVE  \E c \in Consumers : progress'[c][o].status = "acknowledged"
    BY DEF TrimmingAcknowledged
  <2>2. o \in outbox' /\ o \in Occurrence
    BY <1>1, <2>1 DEF TypeInv, TypeOK
  <2>3. \E c \in Consumers : progress[c][o].status = "acknowledged"
    <3>1. CASE ReadTrimmable
      BY <2>1, <3>1 DEF ReadTrimmable, Trimmable
    <3>2. CASE trimming' = trimming
      BY <2>1, <3>2 DEF TrimmingAcknowledged
    <3>3. CASE Trim
      BY <2>1, <3>3 DEF Trim
    <3> QED
      BY <3>1, <3>2, <3>3 DEF Next, vars, ClaimStep, Claim, BatchStep, Append,
         Renew, Deliver, Acknowledge, ReportFailure, Interrupt, Crash, LapseLease
  <2> QED
    BY <2>2, <2>3, AcknowledgedStays
<1> QED
  BY <1>1, <1>4, <1>5, <1>6

-----------------------------------------------------------------------------
\* What StatusOf is, case by case.
StatusIs(c, o) ==
  /\ o.sequence > appended[o.record] => StatusOf(c, o) = "absent"
  /\ <<c, o>> \in acknowledged => StatusOf(c, o) = "acknowledged"
  /\ o.sequence <= appended[o.record] /\ o \notin outbox
       /\ <<c, o>> \notin acknowledged => StatusOf(c, o) = "discarded"
  /\ o \in outbox /\ <<c, o>> \notin acknowledged =>
       StatusOf(c, o) = IF progress[c][o].status = "failed"
                        THEN "failed" ELSE "pending"

StatusesAre == \A c \in Consumers, o \in Occurrence : StatusIs(c, o)

LEMMA StatusCases == PromiseInv => StatusesAre
<1> SUFFICES ASSUME PromiseInv, NEW c \in Consumers, NEW o \in Occurrence
             PROVE  StatusIs(c, o)
  BY DEF StatusesAre
<1>1. o.sequence \in Nat /\ appended[o.record] \in Nat
  BY OccurrenceTypes DEF PromiseInv, OrderInv
<1>2. o \in outbox => o.sequence <= appended[o.record]
  BY RetainedAppended DEF PromiseInv, OrderInv
<1>3. <<c, o>> \in acknowledged => o.sequence <= appended[o.record]
  BY DEF PromiseInv, AckAppended
<1>4. CASE o.sequence > appended[o.record]
  BY <1>1, <1>2, <1>3, <1>4 DEF StatusIs, StatusOf
<1>5. CASE <<c, o>> \in acknowledged
  BY <1>1, <1>3, <1>5 DEF StatusIs, StatusOf
<1>6. CASE o.sequence <= appended[o.record] /\ <<c, o>> \notin acknowledged
  BY <1>1, <1>6 DEF StatusIs, StatusOf
<1> QED
  BY <1>1, <1>4, <1>5, <1>6

LEMMA StatusCasesNext == PromiseInv' => StatusesAre'
  BY StatusCases, PTL

\* A status is kept when nothing it depends on changes.
LEMMA StatusKept ==
  ASSUME UNCHANGED <<outbox, appended, acknowledged>>, NEW c, NEW o,
         progress'[c][o].status = "failed" <=> progress[c][o].status = "failed"
  PROVE  StatusOf(c, o)' = StatusOf(c, o)
  BY DEF StatusOf

\* An open row's occurrence is pending, and everything before it is done.
LEMMA OpenIsNext ==
  ASSUME PromiseInv, NEW c \in Consumers, NEW o \in Occurrence,
         progress[c][o].status = "open"
  PROVE  /\ StatusOf(c, o) = "pending"
         /\ \A p \in Occurrence :
              Precedes(p, o) => StatusOf(c, p) \in {"acknowledged", "discarded"}
<1> USE DEF PromiseInv, OrderInv
<1>1. StatusesAre
  BY StatusCases
<1>2. o \in outbox /\ <<c, o>> \notin acknowledged
  BY DEF RowsRetained, AckRecorded
<1>3. StatusOf(c, o) = "pending"
  BY <1>1, <1>2 DEF StatusesAre, StatusIs
<1>4. ASSUME NEW p \in Occurrence, Precedes(p, o)
      PROVE  StatusOf(c, p) \in {"acknowledged", "discarded"}
  <2>1. StatusIs(c, p)
    BY <1>1 DEF StatusesAre
  <2>2. CASE p \in outbox
    <3>1. <<c, p>> \in acknowledged
      BY <1>2, <1>4, <2>2 DEF RowsInOrder, AckRecorded
    <3> QED
      BY <2>1, <3>1 DEF StatusIs
  <2>3. CASE p \notin outbox
    <3>1. o.sequence <= appended[o.record]
      BY <1>2, RetainedAppended
    <3>2. p.sequence <= appended[p.record]
      <4>1. p.record = o.record /\ p.sequence < o.sequence
        BY <1>4 DEF Precedes
      <4>2. p.sequence \in Nat /\ o.sequence \in Nat /\ appended[o.record] \in Nat
        BY OccurrenceTypes
      <4> QED
        BY <3>1, <4>1, <4>2
    <3> QED
      BY <2>1, <2>3, <3>2 DEF StatusIs
  <2> QED
    BY <2>2, <2>3
<1> QED
  BY <1>3, <1>4

\* The promise's variable.
Mapped == [c \in Consumers |-> [o \in Occurrence |-> StatusOf(c, o)]]

LEMMA InitKept == Init => Promise!Init
<1> SUFFICES ASSUME Init, NEW c \in Consumers, NEW o \in Occurrence
             PROVE  StatusOf(c, o) = "absent"
  BY DEF Promise!Init, Promise!Occurrence, Occurrence
<1>1. PromiseInv /\ StatusesAre
  BY PromiseInit, StatusCases
<1>2. appended[o.record] = 0 /\ o.sequence > 0
  BY DEF Init, Occurrence
<1> QED
  BY <1>1, <1>2 DEF StatusesAre, StatusIs

\* One acknowledged row is one acknowledgement of the promise.
LEMMA AcknowledgeKept ==
  ASSUME PromiseInv, PromiseInv', NEW d \in Dispatchers, Acknowledge(d)
  PROVE  Promise!Next \/ UNCHANGED Mapped
<1>1. TypeInv /\ UNCHANGED <<outbox, appended>>
  BY AcknowledgeChange DEF PromiseInv, OrderInv
<1>2. CASE UNCHANGED <<progress, acknowledged>>
  BY <1>1, <1>2 DEF Mapped, StatusOf
<1>3. ASSUME NEW c \in Consumers, NEW o \in Occurrence,
             progress[c][o].status = "open",
             progress' = [progress EXCEPT ![c][o] = Acknowledged(progress[c][o])],
             acknowledged' = acknowledged \union {<<c, o>>}
      PROVE  Promise!Acknowledge(c, o)
  <2>1. StatusOf(c, o) = "pending" /\ Promise!InOrder(c, o)
    BY <1>3, OpenIsNext DEF Promise!InOrder, Promise!Occurrence, Occurrence,
       Promise!Precedes, Precedes
  <2>2. StatusOf(c, o)' = "acknowledged"
    BY <1>3, StatusCasesNext DEF StatusesAre, StatusIs
  <2>3. ASSUME NEW e \in Consumers, NEW p \in Occurrence, ~(e = c /\ p = o)
        PROVE  StatusOf(e, p)' = StatusOf(e, p)
    <3>1. <<e, p>> # <<c, o>>
      BY <2>3
    <3>2. progress'[e][p] = progress[e][p]
      BY <1>1, <1>3, <2>3 DEF TypeInv, TypeOK
    <3>3. <<e, p>> \in acknowledged' <=> <<e, p>> \in acknowledged
      BY <1>3, <3>1
    <3> QED
      BY <1>1, <3>2, <3>3 DEF StatusOf
  <2>4. Mapped' = [Mapped EXCEPT ![c][o] = "acknowledged"]
    BY <2>2, <2>3 DEF Mapped
  <2> QED
    BY <2>1, <2>4 DEF Promise!Acknowledge, Mapped, Promise!Occurrence, Occurrence
<1> QED
  BY <1>1, <1>2, <1>3, AcknowledgeChange DEF Promise!Next, Promise!Occurrence, Occurrence

\* A set of open rows that turns failed is one failure of the promise.
LEMMA FailKept ==
  ASSUME PromiseInv, PromiseInv', UNCHANGED <<outbox, appended, acknowledged>>,
         NEW c \in Consumers, NEW failed \in SUBSET Occurrence,
         \A o \in failed : /\ progress[c][o].status = "open"
                           /\ progress'[c][o].status = "failed",
         \A e \in Consumers, o \in Occurrence : e # c \/ o \notin failed =>
           (progress'[e][o].status = "failed" <=> progress[e][o].status = "failed")
  PROVE  Promise!Next \/ UNCHANGED Mapped
<1>1. \A e \in Consumers, o \in Occurrence :
        e # c \/ o \notin failed => StatusOf(e, o)' = StatusOf(e, o)
  BY StatusKept
<1>2. CASE failed = {}
  BY <1>1, <1>2 DEF Mapped
<1>3. CASE failed # {}
  <2>1. \A o \in failed : StatusOf(c, o) = "pending" /\ Promise!InOrder(c, o)
    BY OpenIsNext DEF Promise!InOrder, Promise!Occurrence, Occurrence,
       Promise!Precedes, Precedes
  <2>2. ASSUME NEW o \in failed PROVE StatusOf(c, o)' = "failed"
    <3>1. o \in Occurrence /\ o \in outbox' /\ <<c, o>> \notin acknowledged'
      BY DEF PromiseInv, OrderInv, RowsRetained, AckRecorded
    <3> QED
      BY <3>1, StatusCasesNext DEF StatusesAre, StatusIs
  <2>3. Mapped' = [Mapped EXCEPT ![c] = [o \in Occurrence |->
                     IF o \in failed THEN "failed" ELSE Mapped[c][o]]]
    <3> DEFINE After == [o \in Occurrence |->
                 IF o \in failed THEN "failed" ELSE StatusOf(c, o)]
    <3>1. [o \in Occurrence |-> StatusOf(c, o)'] = After
      BY <1>1, <2>2
    <3>2. \A e \in Consumers : e # c =>
            [o \in Occurrence |-> StatusOf(e, o)'] = [o \in Occurrence |-> StatusOf(e, o)]
      BY <1>1
    <3>3. After = [o \in Occurrence |-> IF o \in failed THEN "failed" ELSE Mapped[c][o]]
      BY DEF Mapped
    <3>4. Mapped' = [Mapped EXCEPT ![c] = After]
      <4> HIDE DEF After
      <4> QED
        BY <3>1, <3>2 DEF Mapped
    <3> QED
      BY <3>3, <3>4
  <2>4. Promise!Fail(c)
    BY <1>3, <2>1, <2>3 DEF Promise!Fail, Mapped, Promise!Occurrence, Occurrence
  <2> QED
    BY <2>4 DEF Promise!Next
<1> QED
  BY <1>2, <1>3

LEMMA ClaimKept ==
  ASSUME PromiseInv, PromiseInv', NEW d \in Dispatchers, NEW c \in Consumers,
         ClaimStep(d, c)
  PROVE  Promise!Next \/ UNCHANGED Mapped
<1>0. TypeOK
  BY DEF PromiseInv, OrderInv, TypeInv
<1>1. PICK swept \in SUBSET outbox, batch \in SUBSET outbox :
        Claim(d, c, swept, batch)
  BY DEF ClaimStep
<1> DEFINE cursor == CHOOSE k \in Cursors \ CursorsInUse : TRUE
<1>2. /\ swept \subseteq ExhaustedFor(c) /\ batch \subseteq Eligible(c)
      /\ progress' = [progress EXCEPT ![c] = [q \in Occurrence |->
           IF q \in swept THEN Swept(progress[c][q])
           ELSE IF q \in batch THEN Claimed(progress[c][q], cursor)
           ELSE progress[c][q]]]
      /\ UNCHANGED <<outbox, appended, acknowledged>>
  BY <1>1 DEF Claim
<1> HIDE DEF cursor
<1>3. ASSUME NEW o \in Occurrence
      PROVE  /\ o \in swept => /\ progress[c][o].status = "open"
                               /\ progress'[c][o].status = "failed"
             /\ o \notin swept =>
                  (progress'[c][o].status = "failed" <=> progress[c][o].status = "failed")
  <2>1. progress[c][o] \in Row
    BY <1>0 DEF TypeOK
  <2>2. progress'[c][o] = IF o \in swept THEN Swept(progress[c][o])
                          ELSE IF o \in batch THEN Claimed(progress[c][o], cursor)
                          ELSE progress[c][o]
    BY <1>0, <1>2 DEF TypeOK
  <2>3. /\ Swept(progress[c][o]).status = "failed"
        /\ Claimed(progress[c][o], cursor).status = "open"
    BY <2>1 DEF Swept, Claimed, Row
  <2>4. o \in swept => progress[c][o].status = "open"
    BY <1>2 DEF ExhaustedFor, Exhausted
  <2>5. o \in batch => progress[c][o].status \in {"none", "open"}
    BY <1>2 DEF Eligible, Claimable
  <2> QED
    BY <2>2, <2>3, <2>4, <2>5
<1>4. \A e \in Consumers, o \in Occurrence :
        e # c => progress'[e][o] = progress[e][o]
  BY <1>0, <1>2 DEF TypeOK
<1>5. swept \in SUBSET Occurrence
  BY <1>0 DEF TypeOK
<1>6. /\ \A o \in swept : /\ progress[c][o].status = "open"
                          /\ progress'[c][o].status = "failed"
      /\ \A e \in Consumers, o \in Occurrence : e # c \/ o \notin swept =>
           (progress'[e][o].status = "failed" <=> progress[e][o].status = "failed")
  BY <1>3, <1>4, <1>5
<1>7. UNCHANGED <<outbox, appended, acknowledged>>
  BY <1>2
<1> QED
  BY <1>5, <1>6, <1>7, FailKept

LEMMA ReportFailureKept ==
  ASSUME PromiseInv, PromiseInv', NEW d \in Dispatchers, ReportFailure(d)
  PROVE  Promise!Next \/ UNCHANGED Mapped
<1>1. TypeInv /\ UNCHANGED <<outbox, appended, acknowledged>>
  BY FailureChange DEF PromiseInv, OrderInv
<1>2. CASE UNCHANGED progress
  BY <1>1, <1>2 DEF Mapped, StatusOf
<1>3. ASSUME NEW c \in Consumers, NEW o \in Occurrence, NEW row,
             progress[c][o].status = "open", row.status \in {"open", "failed"},
             progress' = [progress EXCEPT ![c][o] = row]
      PROVE  Promise!Next \/ UNCHANGED Mapped
  <2> DEFINE failed == IF row.status = "failed" THEN {o} ELSE {}
  <2>1. progress'[c][o] = row
    BY <1>1, <1>3 DEF TypeInv, TypeOK
  <2>2. \A e \in Consumers, p \in Occurrence :
          e # c \/ p # o => progress'[e][p] = progress[e][p]
    BY <1>1, <1>3 DEF TypeInv, TypeOK
  <2>3. \A p \in failed : /\ progress[c][p].status = "open"
                          /\ progress'[c][p].status = "failed"
    BY <1>3, <2>1
  <2>4. \A e \in Consumers, p \in Occurrence : e # c \/ p \notin failed =>
          (progress'[e][p].status = "failed" <=> progress[e][p].status = "failed")
    BY <1>3, <2>1, <2>2
  <2>5. failed \in SUBSET Occurrence
    OBVIOUS
  <2> HIDE DEF failed
  <2> QED
    BY <1>1, <2>3, <2>4, <2>5, FailKept
<1> QED
  BY <1>1, <1>2, <1>3, FailureChange

LEMMA LapseKept ==
  ASSUME PromiseInv, NEW c \in Consumers, NEW o \in Occurrence, LapseLease(c, o)
  PROVE  UNCHANGED Mapped
<1>1. progress \in [Consumers -> [Occurrence -> Row]] /\ progress[c][o] \in Row
  BY DEF PromiseInv, OrderInv, TypeInv, TypeOK
<1>2. \A e \in Consumers, p \in Occurrence :
        progress'[e][p].status = progress[e][p].status
  BY <1>1 DEF LapseLease, SetRow, Lapsed, Row
<1> QED
  BY <1>2 DEF LapseLease, Mapped, StatusOf

LEMMA AppendKept ==
  ASSUME PromiseInv, PromiseInv', NEW r \in Records, Append(r)
  PROVE  Promise!Next
<1> USE DEF PromiseInv, OrderInv
<1>1. PICK first \in 1 .. MaxSequence, last \in 1 .. MaxSequence :
        /\ first <= last /\ first = appended[r] + 1
        /\ outbox' = outbox \union {[record |-> r, sequence |-> n] : n \in first .. last}
        /\ appended' = [appended EXCEPT ![r] = last]
        /\ UNCHANGED <<progress, dispatcher, trimming, acknowledged>>
  BY AppendNumbers
<1> DEFINE new == {o \in Occurrence : o.record = r /\ o.sequence \in first .. last}
           old == {o \in Occurrence : o.record = r /\ o.sequence < first}
<1>2. StatusesAre /\ StatusesAre'
  BY StatusCases, StatusCasesNext
<1>3. ASSUME NEW o \in Occurrence
      PROVE  o.record \in Records /\ o.sequence \in Nat
               /\ appended[o.record] \in Nat /\ appended'[o.record] \in Nat
  BY OccurrenceTypes, <1>1, EventDeliveryAssumption DEF TypeInv, TypeOK
<1>4. ASSUME NEW o \in Occurrence
      PROVE  /\ o \in new <=> o \in outbox' /\ o \notin outbox
             /\ o \in new => o.sequence > appended[o.record]
             /\ o \in new => o.sequence <= appended'[o.record]
  <2>1. o \in new <=> o \in {[record |-> r, sequence |-> n] : n \in first .. last}
    BY DEF Occurrence
  <2>2. o \in new => o.sequence > appended[o.record]
    BY <1>1, <1>3
  <2>3. o \in new => o.sequence <= appended'[o.record]
    BY <1>1, <1>3 DEF TypeInv, TypeOK
  <2>4. o \in outbox => o.sequence <= appended[o.record]
    BY RetainedAppended
  <2> QED
    BY <1>1, <1>3, <2>1, <2>2, <2>3, <2>4
<1> HIDE DEF new, old
<1>5. ASSUME NEW c \in Consumers, NEW o \in new
      PROVE  StatusOf(c, o) = "absent" /\ StatusOf(c, o)' = "pending"
  <2>1. o \in Occurrence
    BY DEF new
  <2>2. StatusOf(c, o) = "absent"
    BY <1>2, <1>4, <2>1 DEF StatusesAre, StatusIs
  <2>3. progress'[c][o].status = "none"
    BY <1>1, <1>4, <2>1 DEF RowsRetained
  <2>4. <<c, o>> \notin acknowledged' /\ o \in outbox'
    BY <1>4, <2>1, <2>3 DEF AckRecorded
  <2> QED
    BY <1>2, <2>1, <2>2, <2>3, <2>4 DEF StatusesAre, StatusIs
<1>6. ASSUME NEW c \in Consumers, NEW o \in Occurrence, o \notin new
      PROVE  StatusOf(c, o)' = StatusOf(c, o)
  <2>1. o \in outbox' <=> o \in outbox
    BY <1>1, <1>4, <1>6
  <2>2. o.sequence > appended'[o.record] <=> o.sequence > appended[o.record]
    <3>1. CASE o.record # r
      BY <1>1, <1>3, <3>1 DEF TypeInv, TypeOK
    <3>2. CASE o.record = r
      <4>1. appended'[r] = last
        BY <1>1 DEF TypeInv, TypeOK
      <4>2. o.sequence < first \/ o.sequence > last
        BY <1>3, <1>6, <3>2 DEF new
      <4> QED
        BY <1>1, <1>3, <3>2, <4>1, <4>2
    <3> QED
      BY <3>1, <3>2
  <2>3. o.sequence <= appended'[o.record] <=> o.sequence <= appended[o.record]
    BY <1>3, <2>2
  <2> QED
    BY <1>1, <2>1, <2>2, <2>3 DEF StatusOf
<1>7. ASSUME NEW c \in Consumers, NEW o \in old PROVE StatusOf(c, o) # "absent"
  <2>1. o \in Occurrence /\ o.sequence <= appended[o.record]
    BY <1>1, <1>3 DEF old
  <2>2. StatusIs(c, o)
    BY <1>2, <2>1 DEF StatusesAre
  <2> QED
    BY <2>1, <2>2 DEF StatusIs
<1>8. Mapped' = [c \in Consumers |-> [o \in Occurrence |->
                   IF o \in new THEN "pending" ELSE StatusOf(c, o)]]
  BY <1>5, <1>6 DEF Mapped
<1>9. /\ \A o \in old : \A c \in Consumers : Mapped[c][o] # "absent"
      /\ \A o \in new : \A c \in Consumers : Mapped[c][o] = "absent"
  BY <1>5, <1>7 DEF Mapped, old, new
<1>10. Promise!Append
  BY <1>1, <1>8, <1>9 DEF Promise!Append, Promise!Present, Promise!Occurrence,
     Occurrence, Mapped, new, old
<1> QED
  BY <1>10 DEF Promise!Next

LEMMA TrimKept ==
  ASSUME PromiseInv, PromiseInv', Trim
  PROVE  Promise!Next
<1> USE DEF PromiseInv, OrderInv
<1>1. /\ trimming # {} /\ trimming \subseteq outbox /\ outbox \subseteq Occurrence
      /\ outbox' = outbox \ trimming
      /\ progress' = [c \in Consumers |-> [o \in Occurrence |->
           IF o \in trimming THEN NoRow ELSE progress[c][o]]]
      /\ UNCHANGED <<appended, acknowledged>>
  BY DEF Trim, TypeInv, TypeOK
<1>2. StatusesAre /\ StatusesAre'
  BY StatusCases, StatusCasesNext
<1>3. ASSUME NEW o \in outbox, NEW c \in Consumers PROVE StatusOf(c, o) # "absent"
  BY <1>1, <1>2 DEF StatusesAre, StatusIs
<1>4. ASSUME NEW o \in trimming
      PROVE  /\ \E c \in Consumers : StatusOf(c, o) = "acknowledged"
             /\ \E newer \in Occurrence : /\ Precedes(o, newer)
                  /\ \A c \in Consumers : StatusOf(c, newer) # "absent"
  <2>1. \E c \in Consumers : StatusOf(c, o) = "acknowledged"
    <3>1. PICK c \in Consumers : progress[c][o].status = "acknowledged"
      BY DEF TrimmingAcknowledged
    <3>2. o \in Occurrence
      BY <1>1
    <3>3. <<c, o>> \in acknowledged
      BY <3>1, <3>2 DEF AckRecorded
    <3>4. StatusIs(c, o)
      BY <1>2, <3>2 DEF StatusesAre
    <3>5. StatusOf(c, o) = "acknowledged"
      BY <3>3, <3>4 DEF StatusIs
    <3> QED
      BY <3>5
  <2>2. \E newer \in outbox : Precedes(o, newer)
    BY DEF TypeInv, TrimmingFollowed
  <2> QED
    BY <1>1, <1>3, <2>1, <2>2
<1>5. ASSUME NEW c \in Consumers, NEW o \in trimming
      PROVE  StatusOf(c, o)' = IF StatusOf(c, o) # "acknowledged"
                               THEN "discarded" ELSE StatusOf(c, o)
  <2>1. o \in Occurrence /\ o.sequence <= appended[o.record] /\ o \in outbox
    BY <1>1, RetainedAppended
  <2>2. StatusIs(c, o) /\ StatusIs(c, o)'
    BY <1>2, <2>1 DEF StatusesAre
  <2>3. CASE <<c, o>> \in acknowledged
    BY <1>1, <2>2, <2>3 DEF StatusIs
  <2>4. CASE <<c, o>> \notin acknowledged
    <3>1. StatusOf(c, o)' = "discarded"
      BY <1>1, <2>1, <2>2, <2>4 DEF StatusIs
    <3> QED
      BY <2>1, <2>2, <2>4, <3>1 DEF StatusIs
  <2> QED
    BY <2>3, <2>4
<1>6. ASSUME NEW c \in Consumers, NEW o \in Occurrence, o \notin trimming
      PROVE  StatusOf(c, o)' = StatusOf(c, o)
  <2>1. o \in outbox' <=> o \in outbox
    BY <1>1, <1>6
  <2>2. progress'[c][o] = progress[c][o]
    BY <1>1, <1>6
  <2> QED
    BY <1>1, <2>1, <2>2 DEF StatusOf
<1>7. Mapped' = [c \in Consumers |-> [o \in Occurrence |->
        IF o \in trimming /\ Mapped[c][o] # "acknowledged"
        THEN "discarded" ELSE Mapped[c][o]]]
  BY <1>5, <1>6 DEF Mapped
<1>8. Promise!Discard
  <2>1. \A o \in trimming :
          /\ \E c \in Consumers : Mapped[c][o] = "acknowledged"
          /\ \E newer \in Occurrence :
               Precedes(o, newer) /\ \A c \in Consumers : Mapped[c][newer] # "absent"
    BY <1>1, <1>4 DEF Mapped
  <2>2. /\ trimming \in SUBSET Promise!Occurrence
        /\ Occurrence = Promise!Occurrence
        /\ \A o, newer : Precedes(o, newer) <=> Promise!Precedes(o, newer)
    BY <1>1 DEF Promise!Occurrence, Occurrence, Promise!Precedes, Precedes
  <2>3. /\ \A o : Promise!Present(o) <=> \A c \in Consumers : Mapped[c][o] # "absent"
        /\ Promise!Discard <=>
             \E gone \in SUBSET Promise!Occurrence :
               /\ gone # {}
               /\ \A o \in gone :
                    /\ \E c \in Consumers : Mapped[c][o] = "acknowledged"
                    /\ \E newer \in Promise!Occurrence :
                         Promise!Precedes(o, newer) /\ Promise!Present(newer)
               /\ Mapped' = [c \in Consumers |-> [o \in Promise!Occurrence |->
                    IF o \in gone /\ Mapped[c][o] # "acknowledged"
                    THEN "discarded" ELSE Mapped[c][o]]]
    BY Zenon DEF Promise!Present, Promise!Discard, Mapped
  <2> QED
    BY <1>1, <1>7, <2>1, <2>2, <2>3
<1> QED
  BY <1>8 DEF Promise!Next

LEMMA StepKept ==
  PromiseInv /\ PromiseInv' /\ [Next]_vars => Promise!Next \/ UNCHANGED Mapped
<1> SUFFICES ASSUME PromiseInv, PromiseInv', [Next]_vars
             PROVE  Promise!Next \/ UNCHANGED Mapped
  OBVIOUS
<1>1. CASE UNCHANGED <<outbox, progress, appended, acknowledged>>
  BY <1>1 DEF Mapped, StatusOf
<1> QED
  BY <1>1, AppendKept, ClaimKept, AcknowledgeKept, ReportFailureKept, LapseKept, TrimKept
  DEF Next, vars, BatchStep, Renew, Deliver, Interrupt, Crash, ReadTrimmable

\* Delivery keeps the promise of OrderedDelivery: per consumer and record in
\* order and at most once, with failures that hold back what follows, and
\* retention only behind an acknowledgement, whatever the dispatchers, leases,
\* crashes and retention statements do.
THEOREM PromiseKept == Spec => ImplementsPromise
<1>1. PromiseInv /\ PromiseInv' /\ [Next]_vars => [Promise!Next]_Mapped
  BY StepKept
<1> QED
  BY <1>1, PromiseInit, PromiseStep, InitKept, PTL
  DEF Spec, ImplementsPromise, Promise!Spec, Mapped
==============================================================================
