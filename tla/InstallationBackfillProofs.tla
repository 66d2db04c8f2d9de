--------------------- MODULE InstallationBackfillProofs ---------------------
(***************************************************************************)
(* Theorems about InstallationBackfill for every number of releases, record *)
(* types, records, dispatchers and faults, and every page size and budget.  *)
(*                                                                         *)
(* CaughtUp rests on what a dispatcher that is about to acknowledge knows   *)
(* (CompletedKnows).  FailuresAreFaults rests on the accounts of the two    *)
(* budgets: each attempt but the one under way and each failure, reported   *)
(* or about to be, since the last page has cost a fault of its own.         *)
(***************************************************************************)
EXTENDS InstallationBackfill, TLAPS

Open(r) == progress[r].status = "open"

\* What WriteRows leaves alone when it is given the rows as they are.
RowsRemembered ==
  \A r \in Releases :
    ~Open(r) => Remembered(progress[r]) = progress[r] /\ checkpoint[r] = Start

OpenMayFail == \A r \in Releases : Open(r) => progress[r].failures < MaximumFailures

RowsRetained == \A r \in Releases : progress[r].status # "none" => r \in outbox

AtWork == \A d \in Dispatchers : dispatcher[d].stage # "idle" => dispatcher[d].release \in Releases

TypeInv == TypeOK /\ RowsRemembered /\ OpenMayFail /\ RowsRetained /\ AtWork

CompletedKnows ==
  \A d \in Dispatchers, r \in Releases :
    /\ Open(r) /\ WorksOn(d, r)
    /\ dispatcher[d].stage = "settling" /\ dispatcher[d].outcome = "completed"
    /\ r = installed /\ ~missed
    => checkpoint[r].complete

CursorsDistinct ==
  \A d, e \in Dispatchers :
    d # e /\ dispatcher[d].stage # "idle" /\ dispatcher[e].stage # "idle"
    => dispatcher[d].cursor # dispatcher[e].cursor

\* d's delivery has gone wrong and will be reported without a further fault.
Tainted(d, r) ==
  /\ WorksOn(d, r)
  /\ \/ ~progress[r].live
     \/ dispatcher[d].stage = "settling" /\ dispatcher[d].outcome = "retryable_failure"

\* The attempt under way has not gone wrong.
Clean(r) == \E d \in Dispatchers : WorksOn(d, r) /\ ~Tainted(d, r)

Account(r) ==
  Open(r) =>
    /\ progress[r].attempts <= IF Clean(r) THEN faults + 1 ELSE faults
    /\ progress[r].failures <= faults
    /\ \A d \in Dispatchers : Tainted(d, r) => progress[r].failures < faults

Accounts == \A r \in Releases : Account(r)

IInv ==
  /\ TypeInv
  /\ CompletedKnows /\ CaughtUp
  /\ CursorsDistinct /\ Accounts /\ FailuresAreFaults

-----------------------------------------------------------------------------
(* Rows.                                                                    *)

LEMMA RowShapes ==
  /\ NoRow \in Row
  /\ Start \in Checkpoint
  /\ \A row \in Row : Remembered(row) \in Row /\ Remembered(row).status = row.status
<1>1. NoRow \in Row
  BY ConsumerProgressAssumption DEF NoRow, Row, Statuses
<1>2. Start \in Checkpoint
  BY InstallationBackfillAssumption DEF Start, Checkpoint
<1>3. ASSUME NEW row \in Row
      PROVE  Remembered(row) \in Row /\ Remembered(row).status = row.status
  <2>1. row.status \in Statuses
    BY DEF Row
  <2>2. [NoRow EXCEPT !.status = row.status] \in Row
    BY <1>1, <2>1 DEF Row
  <2>3. [NoRow EXCEPT !.status = row.status].status = row.status
    BY DEF NoRow
  <2> QED
    BY <2>2, <2>3 DEF Remembered
<1> QED
  BY <1>1, <1>2, <1>3

\* What a write of the rows does to each of them.
LEMMA Written ==
  ASSUME TypeInv, NEW rows \in [Releases -> Row], WriteRows(rows)
  PROVE  /\ progress' \in [Releases -> Row] /\ checkpoint' \in [Releases -> Checkpoint]
         /\ RowsRemembered'
         /\ \A r \in Releases :
              /\ progress'[r].status = rows[r].status
              /\ rows[r] = progress[r] =>
                   progress'[r] = progress[r] /\ checkpoint'[r] = checkpoint[r]
              /\ rows[r].status = "open" =>
                   progress'[r] = rows[r] /\ checkpoint'[r] = checkpoint[r]
              /\ rows[r].status # "open" => checkpoint'[r] = Start
<1>1. \A r \in Releases : /\ progress'[r] = Remembered(rows[r])
                           /\ checkpoint'[r] = IF rows[r].status = "open"
                                               THEN checkpoint[r] ELSE Start
  BY DEF WriteRows
<1>2. /\ progress' = [r \in Releases |-> Remembered(rows[r])]
      /\ checkpoint' = [r \in Releases |->
           IF rows[r].status = "open" THEN checkpoint[r] ELSE Start]
  BY DEF WriteRows
<1>3. progress' \in [Releases -> Row] /\ checkpoint' \in [Releases -> Checkpoint]
  BY <1>2, RowShapes DEF TypeInv, TypeOK
<1>4. \A r \in Releases : progress'[r].status = rows[r].status
  BY <1>1, RowShapes
<1>5. RowsRemembered'
  BY <1>1, <1>4 DEF RowsRemembered, Open, Remembered
<1>6. \A r \in Releases : rows[r].status = "open" => Remembered(rows[r]) = rows[r]
  BY DEF Remembered
<1>7. ASSUME NEW r \in Releases, rows[r] = progress[r]
      PROVE  progress'[r] = progress[r] /\ checkpoint'[r] = checkpoint[r]
  BY <1>1, <1>6, <1>7 DEF TypeInv, RowsRemembered, Open
<1> QED
  BY <1>1, <1>3, <1>4, <1>5, <1>6, <1>7

LEMMA InitInv == Init => IInv
<1> SUFFICES ASSUME Init PROVE IInv
  OBVIOUS
<1>1. TypeOK
  <2>1. Idle \in DispatcherState
    BY DEF DispatcherState, Idle, Stages, Outcomes
  <2>2. faults \in 0 .. MaxFaults
    BY InstallationBackfillAssumption DEF Init
  <2>3. missed \in BOOLEAN
    BY DEF Init
  <2> QED
    BY <2>1, <2>2, <2>3, RowShapes DEF Init, TypeOK
<1>2. \A r \in Releases : /\ progress[r] = NoRow /\ progress[r].status = "none"
                           /\ checkpoint[r] = Start
  BY DEF Init, NoRow
<1>3. TypeInv
  BY <1>1, <1>2 DEF Init, TypeInv, RowsRemembered, Open, OpenMayFail, RowsRetained, AtWork,
                    Idle, Remembered, NoRow
<1>4. CompletedKnows /\ CaughtUp /\ CursorsDistinct
  BY <1>2 DEF Init, CompletedKnows, Open, CaughtUp, CursorsDistinct, Idle
<1>5. Accounts /\ FailuresAreFaults
  BY <1>2 DEF Accounts, Account, Open, FailuresAreFaults
<1> QED
  BY <1>3, <1>4, <1>5 DEF IInv

\* A release's account stays good if its budgets stay and either a fault is
\* spent or no delivery goes wrong.
LEMMA AccountKept ==
  ASSUME TypeInv, TypeInv', NEW r \in Releases, Account(r), Open(r), Open(r)',
         progress'[r].attempts = progress[r].attempts,
         progress'[r].failures = progress[r].failures,
         \/ faults' = faults + 1
         \/ /\ faults' = faults
            /\ Clean(r) => Clean(r)'
            /\ \A d \in Dispatchers : Tainted(d, r)' => Tainted(d, r)
  PROVE  Account(r)'
<1>1. progress[r].attempts \in Nat /\ progress[r].failures \in Nat /\ faults \in Nat
  BY ConsumerProgressAssumption, InstallationBackfillAssumption DEF TypeInv, TypeOK, Row
<1>2. CASE faults' = faults + 1
  BY <1>1, <1>2 DEF Account
<1>3. CASE /\ faults' = faults
           /\ Clean(r) => Clean(r)'
           /\ \A d \in Dispatchers : Tainted(d, r)' => Tainted(d, r)
  BY <1>1, <1>3 DEF Account
<1> QED
  BY <1>2, <1>3

\* Nothing failed that had not failed before.
LEMMA FailuresKept ==
  ASSUME TypeInv, TypeInv', FailuresAreFaults, faults' \in {faults, faults + 1},
         \A r \in Releases : progress'[r].status = "failed" => progress[r].status = "failed"
  PROVE  FailuresAreFaults'
BY ConsumerProgressAssumption, InstallationBackfillAssumption
   DEF FailuresAreFaults, TypeInv, TypeOK

-----------------------------------------------------------------------------
(* What people do.                                                          *)

\* The consumer's part of the state is left alone.
LEMMA ConsumerIdles ==
  ASSUME IInv, UNCHANGED <<progress, checkpoint, dispatcher, faults>>, TypeOK',
         outbox \subseteq outbox'
  PROVE  /\ TypeInv' /\ CursorsDistinct' /\ Accounts' /\ FailuresAreFaults'
         /\ \A r \in Releases, d \in Dispatchers :
              (Open(r)' <=> Open(r)) /\ (WorksOn(d, r)' <=> WorksOn(d, r))
<1>1. \A r \in Releases, d \in Dispatchers :
        (Open(r)' <=> Open(r)) /\ (WorksOn(d, r)' <=> WorksOn(d, r))
  BY DEF Open, WorksOn
<1>2. TypeInv'
  BY DEF IInv, TypeInv, RowsRemembered, Open, OpenMayFail, RowsRetained, AtWork
<1>3. CursorsDistinct' /\ FailuresAreFaults'
  BY DEF IInv, CursorsDistinct, FailuresAreFaults
<1>4. Accounts'
  BY DEF IInv, Accounts, Account, Open, Clean, Tainted, WorksOn
<1> QED
  BY <1>1, <1>2, <1>3, <1>4

LEMMA ActivateStep == ASSUME IInv, NEW r \in Releases, Activate(r) PROVE IInv'
<1>1. /\ installed' = r /\ outbox' = outbox \union {r} /\ missed' = UsedUp(r)
      /\ UNCHANGED <<progress, checkpoint, dispatcher, faults>>
  BY DEF Activate
<1>2. TypeOK'
  <2>1. workedOut' \subseteq Records
    BY DEF Activate
  <2>2. UsedUp(r) \in BOOLEAN
    BY DEF UsedUp
  <2> QED
    BY <1>1, <2>1, <2>2 DEF IInv, TypeInv, TypeOK
<1>3. /\ TypeInv' /\ CursorsDistinct' /\ Accounts' /\ FailuresAreFaults'
      /\ \A s \in Releases, d \in Dispatchers :
           (Open(s)' <=> Open(s)) /\ (WorksOn(d, s)' <=> WorksOn(d, s))
  BY <1>1, <1>2, ConsumerIdles
<1>4. CompletedKnows'
  <2>1. ASSUME NEW d \in Dispatchers, Open(r), WorksOn(d, r),
               dispatcher[d].stage = "settling", dispatcher[d].outcome = "completed"
        PROVE  UsedUp(r)
    BY <2>1 DEF UsedUp, IInv, TypeInv, RowsRetained, Open
  <2> QED
    BY <1>1, <1>3, <2>1 DEF CompletedKnows
<1>5. CaughtUp'
  <2>1. ASSUME ~UsedUp(r)
        PROVE  progress[r].status # "acknowledged" /\ checkpoint[r] = Start
    <3>1. CASE r \in outbox
      BY <2>1, <3>1 DEF UsedUp
    <3>2. CASE r \notin outbox
      BY <3>2 DEF IInv, TypeInv, RowsRetained, RowsRemembered, Open
    <3> QED
      BY <3>1, <3>2
  <2>2. ASSUME ~UsedUp(r), NEW rec \in Records PROVE ~Passed(r, rec)'
    BY <1>1, <2>1, <2>2, InstallationBackfillAssumption DEF Passed, Start, Records
  <2> QED
    BY <1>1, <2>2 DEF CaughtUp
<1> QED
  BY <1>3, <1>4, <1>5 DEF IInv

LEMMA DetachStep == ASSUME IInv, Detach PROVE IInv'
<1>1. installed' = NoRelease
      /\ UNCHANGED <<outbox, progress, checkpoint, workedOut, dispatcher, missed, faults>>
  BY DEF Detach
<1>2. TypeOK'
  BY <1>1 DEF IInv, TypeInv, TypeOK
<1>3. TypeInv' /\ CursorsDistinct' /\ Accounts' /\ FailuresAreFaults'
  BY <1>1, <1>2, ConsumerIdles
<1>4. CompletedKnows' /\ CaughtUp'
  BY <1>1 DEF CompletedKnows, CaughtUp, Releases, NoRelease
<1> QED
  BY <1>3, <1>4 DEF IInv

LEMMA SaveStep == ASSUME IInv, NEW rec \in Records, Save(rec) PROVE IInv'
<1>1. workedOut' = workedOut \union {rec}
      /\ UNCHANGED <<installed, outbox, progress, checkpoint, dispatcher, missed, faults>>
  BY DEF Save
<1>2. TypeOK'
  BY <1>1 DEF IInv, TypeInv, TypeOK
<1>3. /\ TypeInv' /\ CursorsDistinct' /\ Accounts' /\ FailuresAreFaults'
      /\ \A s \in Releases, d \in Dispatchers :
           (Open(s)' <=> Open(s)) /\ (WorksOn(d, s)' <=> WorksOn(d, s))
  BY <1>1, <1>2, ConsumerIdles
<1>4. CompletedKnows' /\ CaughtUp'
  BY <1>1, <1>3 DEF IInv, CompletedKnows, CaughtUp, Passed
<1> QED
  BY <1>3, <1>4 DEF IInv

-----------------------------------------------------------------------------
(* The claim and its sweep.                                                 *)

LEMMA NoneIsEmpty ==
  ASSUME TypeInv, NEW r \in Releases, progress[r].status = "none"
  PROVE  progress[r].attempts = 0 /\ progress[r].failures = 0
BY DEF TypeInv, RowsRemembered, Open, Remembered, NoRow

LEMMA SweptRow ==
  ASSUME TypeInv, NEW r \in ExhaustedRows
  PROVE  /\ r \in Releases /\ Open(r) /\ ~progress[r].live
         /\ progress[r].attempts >= MaximumDeliveryAttempts
         /\ Swept(progress[r]) \in Row /\ Swept(progress[r]).status = "failed"
<1>1. r \in Releases /\ progress[r] \in Row
  BY DEF ExhaustedRows, TypeInv, TypeOK
<1>2. Swept(progress[r]) \in Row /\ Swept(progress[r]).status = "failed"
  BY <1>1 DEF Swept, Row, Statuses
<1> QED
  BY <1>1, <1>2 DEF ExhaustedRows, Exhausted, Open

\* An exhausted row has cost as many faults as it had attempts.
LEMMA SweptIsFaulty ==
  ASSUME IInv, NEW r \in ExhaustedRows PROVE faults >= MaximumDeliveryAttempts
<1>1. Open(r) /\ ~progress[r].live /\ progress[r].attempts >= MaximumDeliveryAttempts
      /\ r \in Releases
  BY SweptRow DEF IInv
<1>2. ~Clean(r)
  BY <1>1 DEF Clean, Tainted
<1>3. progress[r].attempts <= faults
  BY <1>1, <1>2 DEF IInv, Accounts, Account
<1>4. progress[r].attempts \in Nat /\ faults \in Nat
  BY <1>1, ConsumerProgressAssumption, InstallationBackfillAssumption
     DEF IInv, TypeInv, TypeOK, Row
<1> QED
  BY <1>1, <1>3, <1>4, ConsumerProgressAssumption

LEMMA ClaimedRow ==
  ASSUME TypeInv, NEW r \in Eligible, NEW k \in Cursors
  PROVE  /\ r \in Releases /\ r \in outbox /\ r \notin ExhaustedRows
         /\ ~progress[r].live /\ progress[r].status # "acknowledged"
         /\ Claimed(progress[r], k) \in Row
         /\ Claimed(progress[r], k).status = "open"
         /\ Claimed(progress[r], k).cursor = k
         /\ Claimed(progress[r], k).live
         /\ Claimed(progress[r], k).attempts = progress[r].attempts + 1
         /\ Claimed(progress[r], k).failures = progress[r].failures
         /\ progress[r].status = "none" \/ Open(r)
<1>1. r \in Releases /\ r \in outbox /\ progress[r] \in Row /\ Claimable(progress[r])
  BY DEF Eligible, TypeInv, TypeOK
<1>2. ~progress[r].live /\ progress[r].status \in {"none", "open"}
  BY <1>1 DEF Claimable, TypeInv, RowsRemembered, Open, Remembered, NoRow
<1>3. progress[r].attempts + 1 \in 0 .. MaximumDeliveryAttempts
  BY <1>1, NoneIsEmpty, ConsumerProgressAssumption DEF Claimable, Row
<1>4. Claimed(progress[r], k) \in Row
  BY <1>1, <1>3 DEF Claimed, Row, Statuses
<1>5. /\ Claimed(progress[r], k).status = "open" /\ Claimed(progress[r], k).cursor = k
      /\ Claimed(progress[r], k).live
      /\ Claimed(progress[r], k).attempts = progress[r].attempts + 1
      /\ Claimed(progress[r], k).failures = progress[r].failures
  BY <1>1 DEF Claimed, Row
<1>6. r \notin ExhaustedRows
  <2>1. CASE progress[r].status = "none"
    BY <2>1 DEF ExhaustedRows, Exhausted
  <2>2. CASE progress[r].attempts < MaximumDeliveryAttempts
    BY <1>1, <2>2, ConsumerProgressAssumption DEF ExhaustedRows, Exhausted, Row
  <2> QED
    BY <1>1, <2>1, <2>2 DEF Claimable
<1> QED
  BY <1>1, <1>2, <1>4, <1>5, <1>6 DEF Open

\* A sweep moves checkpoints back only, and leaves unfinished work to nobody.
LEMMA SweepStep ==
  ASSUME IInv, NEW swept \in SUBSET outbox, Sweep(swept) PROVE IInv'
<1> DEFINE rows == [s \in Releases |-> IF s \in swept THEN Swept(progress[s]) ELSE progress[s]]
<1>1. /\ swept \subseteq ExhaustedRows /\ WriteRows(rows)
      /\ UNCHANGED <<installed, outbox, workedOut, dispatcher, missed, faults>>
  BY DEF Sweep
<1>2. TypeInv
  BY DEF IInv
<1>3. \A s \in swept : /\ Open(s) /\ Swept(progress[s]) \in Row
                        /\ Swept(progress[s]).status = "failed"
  BY <1>1, <1>2, SweptRow
<1>4. rows \in [Releases -> Row]
  BY <1>2, <1>3 DEF TypeInv, TypeOK
<1> HIDE DEF rows
<1>5. /\ progress' \in [Releases -> Row] /\ checkpoint' \in [Releases -> Checkpoint]
      /\ RowsRemembered'
      /\ \A s \in Releases :
           /\ s \in swept => progress'[s].status = "failed" /\ checkpoint'[s] = Start
           /\ s \notin swept => progress'[s] = progress[s] /\ checkpoint'[s] = checkpoint[s]
  BY <1>1, <1>2, <1>3, <1>4, Written DEF rows
<1>6. TypeInv'
  BY <1>1, <1>2, <1>3, <1>5 DEF TypeInv, TypeOK, OpenMayFail, RowsRetained, AtWork, Open
<1>7. \A s \in Releases : Open(s)' => /\ Open(s) /\ progress'[s] = progress[s]
                                       /\ checkpoint'[s] = checkpoint[s]
  BY <1>5 DEF Open
<1>8. CompletedKnows'
  BY <1>1, <1>7 DEF IInv, CompletedKnows, WorksOn
<1>9. CaughtUp'
  <2>1. ASSUME NEW s \in Releases, NEW rec \in Records, Passed(s, rec)' PROVE Passed(s, rec)
    BY <1>5, <2>1, InstallationBackfillAssumption DEF Passed, Start, Records
  <2> QED
    BY <1>1, <1>2, <2>1 DEF IInv, CaughtUp, TypeInv, TypeOK
<1>10. CursorsDistinct'
  BY <1>1 DEF IInv, CursorsDistinct
<1>11. Accounts'
  BY <1>1, <1>7 DEF IInv, Accounts, Account, Open, Clean, Tainted, WorksOn
<1>12. FailuresAreFaults'
  <2>1. CASE swept = {}
    BY <1>1, <1>5, <2>1 DEF IInv, FailuresAreFaults
  <2>2. CASE swept # {}
    BY <1>1, <2>2, SweptIsFaulty DEF FailuresAreFaults
  <2> QED
    BY <2>1, <2>2
<1> QED
  BY <1>6, <1>8, <1>9, <1>10, <1>11, <1>12 DEF IInv

LEMMA ClaimStep ==
  ASSUME IInv, NEW d \in Dispatchers, NEW r \in Releases, NEW swept \in SUBSET outbox,
         Claim(d, swept, r)
  PROVE  IInv'
<1> DEFINE k == CHOOSE c \in Cursors \ CursorsInUse : TRUE
           rows == [s \in Releases |->
                     IF s \in swept THEN Swept(progress[s])
                     ELSE IF s = r THEN Claimed(progress[s], k)
                     ELSE progress[s]]
<1>1. /\ dispatcher[d].stage = "idle" /\ swept \subseteq ExhaustedRows /\ r \in Eligible
      /\ Cursors \ CursorsInUse # {} /\ WriteRows(rows)
      /\ dispatcher' = [dispatcher EXCEPT ![d] =
           [Idle EXCEPT !.stage = "delivering", !.release = r, !.cursor = k]]
      /\ UNCHANGED <<installed, outbox, workedOut, missed, faults>>
  BY DEF Claim
<1>2. k \in Cursors /\ k \notin CursorsInUse
  BY <1>1
<1> HIDE DEF k
<1>3. TypeInv
  BY DEF IInv
<1>4. \A s \in swept : /\ Open(s) /\ Swept(progress[s]) \in Row
                        /\ Swept(progress[s]).status = "failed"
  BY <1>1, <1>3, SweptRow
<1>5. /\ r \in outbox /\ r \notin swept /\ ~progress[r].live
      /\ progress[r].status # "acknowledged"
      /\ Claimed(progress[r], k) \in Row /\ Claimed(progress[r], k).status = "open"
      /\ Claimed(progress[r], k).cursor = k /\ Claimed(progress[r], k).live
      /\ Claimed(progress[r], k).attempts = progress[r].attempts + 1
      /\ Claimed(progress[r], k).failures = progress[r].failures
      /\ progress[r].status = "none" \/ Open(r)
  BY <1>1, <1>2, <1>3, ClaimedRow
<1>6. rows \in [Releases -> Row]
  BY <1>3, <1>4, <1>5 DEF TypeInv, TypeOK
<1> HIDE DEF rows
<1>7. /\ progress' \in [Releases -> Row] /\ checkpoint' \in [Releases -> Checkpoint]
      /\ RowsRemembered'
      /\ progress'[r] = Claimed(progress[r], k) /\ checkpoint'[r] = checkpoint[r]
      /\ \A s \in Releases :
           /\ s \in swept => progress'[s].status = "failed" /\ checkpoint'[s] = Start
           /\ s \notin swept /\ s # r =>
                progress'[s] = progress[s] /\ checkpoint'[s] = checkpoint[s]
  BY <1>1, <1>3, <1>4, <1>5, <1>6, Written DEF rows
<1>8. \A s \in Releases : s # r /\ Open(s)' =>
        Open(s) /\ progress'[s] = progress[s] /\ checkpoint'[s] = checkpoint[s]
  BY <1>7 DEF Open
<1>9. /\ dispatcher'[d].stage = "delivering" /\ dispatcher'[d].release = r
      /\ dispatcher'[d].cursor = k
      /\ \A e \in Dispatchers : e # d => dispatcher'[e] = dispatcher[e]
      /\ dispatcher' \in [Dispatchers -> DispatcherState]
  BY <1>1, <1>2, <1>3 DEF TypeInv, TypeOK, DispatcherState, Idle, Stages, Outcomes
<1>10. TypeInv'
  <2>1. progress[r].failures < MaximumFailures
    BY <1>3, <1>5, NoneIsEmpty, ConsumerProgressAssumption DEF TypeInv, OpenMayFail
  <2>2. OpenMayFail' /\ RowsRetained' /\ AtWork'
    BY <1>1, <1>3, <1>4, <1>5, <1>7, <1>9, <2>1
       DEF TypeInv, OpenMayFail, RowsRetained, AtWork, Open
  <2> QED
    BY <1>1, <1>3, <1>7, <1>9, <2>2 DEF TypeInv, TypeOK
\* Who works on what: d on r only, and on r nobody but d.
<1>11. \A e \in Dispatchers : dispatcher[e].cursor # k
  BY <1>2 DEF CursorsInUse
<1>12. /\ \A e \in Dispatchers : WorksOn(e, r)' => e = d
       /\ WorksOn(d, r)'
       /\ \A e \in Dispatchers, s \in Releases :
            s # r /\ Open(s)' => (WorksOn(e, s)' <=> WorksOn(e, s))
       /\ \A e \in Dispatchers, s \in Releases : WorksOn(e, s) => e # d
  BY <1>1, <1>5, <1>7, <1>8, <1>9, <1>11 DEF WorksOn
<1>13. CompletedKnows'
  BY <1>1, <1>8, <1>9, <1>12 DEF IInv, CompletedKnows
<1>14. CaughtUp'
  <2>1. ASSUME NEW s \in Releases, NEW rec \in Records, Passed(s, rec)' PROVE Passed(s, rec)
    BY <1>5, <1>7, <2>1, InstallationBackfillAssumption DEF Passed, Start, Records
  <2> QED
    BY <1>1, <1>3, <2>1 DEF IInv, CaughtUp, TypeInv, TypeOK
<1>15. CursorsDistinct'
  BY <1>9, <1>11 DEF IInv, CursorsDistinct
<1>16. Accounts'
  <2>1. Account(r)'
    <3>1. ~Clean(r)
      BY <1>5 DEF Clean, Tainted
    <3>2. progress[r].attempts <= faults /\ progress[r].failures <= faults
      BY <1>3, <1>5, <3>1, NoneIsEmpty, InstallationBackfillAssumption
         DEF IInv, Accounts, Account, TypeInv, TypeOK
    <3>3. \A e \in Dispatchers : ~Tainted(e, r)'
      BY <1>5, <1>7, <1>9, <1>12 DEF Tainted
    <3>4. Clean(r)'
      BY <1>12, <3>3 DEF Clean
    <3>5. progress[r].attempts \in Nat /\ faults \in Nat
      BY <1>3, ConsumerProgressAssumption, InstallationBackfillAssumption
         DEF TypeInv, TypeOK, Row
    <3> QED
      BY <1>1, <1>5, <1>7, <3>2, <3>3, <3>4, <3>5 DEF Account
  <2>2. ASSUME NEW s \in Releases, s # r, Open(s)' PROVE Account(s)'
    <3>1. \A e \in Dispatchers : Tainted(e, s)' <=> Tainted(e, s)
      BY <1>8, <1>9, <1>12, <2>2 DEF Tainted
    <3>2. Clean(s)' <=> Clean(s)
      BY <1>12, <2>2, <3>1 DEF Clean
    <3> QED
      BY <1>1, <1>8, <2>2, <3>1, <3>2 DEF IInv, Accounts, Account
  <2> QED
    BY <2>1, <2>2 DEF Accounts, Account
<1>17. FailuresAreFaults'
  <2>1. CASE swept = {}
    BY <1>1, <1>5, <1>7, <2>1 DEF IInv, FailuresAreFaults
  <2>2. CASE swept # {}
    BY <1>1, <2>2, SweptIsFaulty DEF FailuresAreFaults
  <2> QED
    BY <2>1, <2>2
<1> QED
  BY <1>10, <1>13, <1>14, <1>15, <1>16, <1>17 DEF IInv

-----------------------------------------------------------------------------
(* One delivery.                                                            *)

\* A dispatcher at work gives up or returns; the others do not notice.
LEMMA Moves ==
  ASSUME TypeInv, CursorsDistinct, NEW d \in Dispatchers, dispatcher[d].stage # "idle",
         GiveUp(d) \/ \E o \in Outcomes : Return(d, o)
  PROVE  /\ dispatcher' \in [Dispatchers -> DispatcherState]
         /\ AtWork' /\ CursorsDistinct'
         /\ \A e \in Dispatchers : e # d => dispatcher'[e] = dispatcher[e]
         /\ GiveUp(d) => dispatcher'[d].stage = "idle"
         /\ \A o \in Outcomes : Return(d, o) =>
              /\ dispatcher'[d].stage = "settling" /\ dispatcher'[d].outcome = o
              /\ dispatcher'[d].release = dispatcher[d].release
              /\ dispatcher'[d].cursor = dispatcher[d].cursor
<1>1. dispatcher \in [Dispatchers -> DispatcherState] /\ dispatcher[d].release \in Releases
  BY DEF TypeInv, TypeOK, AtWork
<1>2. CASE GiveUp(d)
  <2>1. Idle \in DispatcherState /\ Idle.stage = "idle"
    BY DEF Idle, DispatcherState, Stages, Outcomes
  <2>2. dispatcher' = [dispatcher EXCEPT ![d] = Idle]
    BY <1>2 DEF GiveUp
  <2>3. ~\E o \in Outcomes : Return(d, o)
    BY <1>1, <2>1, <2>2 DEF Return, DispatcherState
  <2> QED
    BY <1>1, <2>1, <2>2, <2>3 DEF TypeInv, AtWork, CursorsDistinct
<1>3. CASE \E o \in Outcomes : Return(d, o)
  <2>1. PICK o \in Outcomes : Return(d, o)
    BY <1>3
  <2>2. dispatcher' = [dispatcher EXCEPT ![d].stage = "settling", ![d].outcome = o]
    BY <2>1 DEF Return
  <2>3. /\ dispatcher' \in [Dispatchers -> DispatcherState]
        /\ \A e \in Dispatchers : e # d => dispatcher'[e] = dispatcher[e]
        /\ dispatcher'[d].stage = "settling" /\ dispatcher'[d].outcome = o
        /\ dispatcher'[d].release = dispatcher[d].release
        /\ dispatcher'[d].cursor = dispatcher[d].cursor
    BY <1>1, <2>2 DEF DispatcherState, Stages
  <2>4. \A q \in Outcomes : Return(d, q) => dispatcher'[d].outcome = q
    BY <1>1 DEF Return, DispatcherState
  <2>5. ~GiveUp(d)
    BY <1>1, <2>3 DEF GiveUp, Idle
  <2>6. AtWork' /\ CursorsDistinct'
    BY <1>1, <2>3 DEF TypeInv, AtWork, CursorsDistinct
  <2> QED
    BY <2>3, <2>4, <2>5, <2>6
<1> QED
  BY <1>2, <1>3

\* A dispatcher ends its delivery without a write: with a fault, after the loss
\* of its claim, or knowing that there is nothing to do.
LEMMA Withdraws ==
  ASSUME IInv, NEW d \in Dispatchers, dispatcher[d].stage # "idle",
         UNCHANGED <<installed, outbox, progress, checkpoint, workedOut, missed>>,
         \/ Fault /\ (GiveUp(d) \/ Return(d, "retryable_failure"))
         \/ /\ faults' = faults /\ ~HoldsOwn(d)
            /\ GiveUp(d) \/ Return(d, "retryable_failure")
         \/ /\ faults' = faults /\ HoldsOwn(d) /\ NothingToDo(dispatcher[d].release)
            /\ Return(d, "completed")
  PROVE  IInv'
<1>1. TypeInv /\ CursorsDistinct
  BY DEF IInv
<1>2. {"completed", "retryable_failure"} = Outcomes
  BY DEF Outcomes
<1>3. /\ dispatcher' \in [Dispatchers -> DispatcherState]
      /\ AtWork' /\ CursorsDistinct'
      /\ \A e \in Dispatchers : e # d => dispatcher'[e] = dispatcher[e]
      /\ GiveUp(d) => dispatcher'[d].stage = "idle"
      /\ \A o \in Outcomes : Return(d, o) =>
           /\ dispatcher'[d].stage = "settling" /\ dispatcher'[d].outcome = o
           /\ dispatcher'[d].release = dispatcher[d].release
           /\ dispatcher'[d].cursor = dispatcher[d].cursor
  BY <1>1, <1>2, Moves
<1>4. faults' \in 0 .. MaxFaults /\ faults' \in {faults, faults + 1}
  BY <1>1, InstallationBackfillAssumption DEF Fault, TypeInv, TypeOK
<1>5. TypeInv'
  BY <1>1, <1>3, <1>4 DEF TypeInv, TypeOK, RowsRemembered, OpenMayFail, RowsRetained, Open
<1>6. \A s \in Releases : Open(s)' <=> Open(s)
  BY DEF Open
<1>7. /\ \A s \in Releases, e \in Dispatchers : e # d =>
           (WorksOn(e, s)' <=> WorksOn(e, s)) /\ (Tainted(e, s)' <=> Tainted(e, s))
      /\ \A s \in Releases : WorksOn(d, s)' => WorksOn(d, s)
  BY <1>1, <1>2, <1>3 DEF WorksOn, Tainted
<1>8. CompletedKnows'
  <2>1. ASSUME NEW s \in Releases, Open(s), WorksOn(d, s), s = installed, ~missed,
               dispatcher'[d].stage = "settling", dispatcher'[d].outcome = "completed"
        PROVE  checkpoint[s].complete
    <3>1. NothingToDo(dispatcher[d].release)
      BY <1>2, <1>3, <2>1
    <3> QED
      BY <2>1, <3>1 DEF NothingToDo, WorksOn
  <2> QED
    BY <1>3, <1>6, <1>7, <2>1 DEF IInv, CompletedKnows
<1>9. CaughtUp'
  BY DEF IInv, CaughtUp, Passed
<1>10. Accounts'
  <2>1. ASSUME NEW s \in Releases, Open(s), faults' = faults
        PROVE  /\ Clean(s) => Clean(s)'
               /\ \A e \in Dispatchers : Tainted(e, s)' => Tainted(e, s)
    <3>1. CASE ~HoldsOwn(d)
      <4>1. WorksOn(d, s) => Tainted(d, s)
        BY <2>1, <3>1 DEF WorksOn, Tainted, HoldsOwn, OwnRow, Holds, Open
      <4> QED
        BY <1>7, <4>1 DEF Clean, Tainted
    <3>2. CASE HoldsOwn(d)
      <4>1. dispatcher'[d].stage = "settling" /\ dispatcher'[d].outcome = "completed"
            /\ dispatcher'[d].release = dispatcher[d].release
            /\ dispatcher'[d].cursor = dispatcher[d].cursor
        BY <1>1, <1>2, <1>3, <2>1, <3>2 DEF Fault, TypeInv, TypeOK
      <4>2. WorksOn(d, s) => WorksOn(d, s)' /\ progress[s].live
        BY <3>2, <4>1 DEF WorksOn, HoldsOwn, OwnRow, Holds
      <4> QED
        BY <1>7, <4>1, <4>2 DEF Clean, Tainted
    <3> QED
      BY <3>1, <3>2
  <2>2. ASSUME NEW s \in Releases, Open(s) PROVE Account(s)'
    BY <1>1, <1>4, <1>5, <1>6, <2>1, <2>2, AccountKept DEF IInv, Accounts
  <2> QED
    BY <1>6, <2>2 DEF Accounts, Account
<1>11. FailuresAreFaults'
  BY <1>1, <1>4, <1>5, FailuresKept DEF IInv
<1> QED
  BY <1>3, <1>5, <1>8, <1>9, <1>10, <1>11 DEF IInv

LEMMA WithdrawingStep ==
  ASSUME IInv, NEW d \in Dispatchers,
         DeliverUnheld(d) \/ DeliverNothing(d) \/ FailDelivery(d) \/ Stop(d)
  PROVE  IInv'
BY Withdraws DEF DeliverUnheld, DeliverNothing, FailDelivery, Stop

\* What a page moves the checkpoint past is what was passed before and the page.
LEMMA PageCovers ==
  ASSUME NEW c \in Checkpoint, ~c.complete, NEW page \in SUBSET Records, NEW last \in 0 .. MaxId,
         IsPage(page, c), \A rec \in page : rec.id <= last,
         last = 0 \/ \E rec \in page : rec.id = last
  PROVE  LET next == NextCheckpoint(c, page, last) IN
         /\ next \in Checkpoint
         /\ \A rec \in Records :
              \/ next.complete
              \/ rec.type < next.type
              \/ rec.type = next.type /\ rec.id <= next.after
              => \/ rec.type < c.type
                 \/ rec.type = c.type /\ rec.id <= c.after
                 \/ rec \in page
<1> DEFINE next == NextCheckpoint(c, page, last)
<1>1. /\ c.type \in Nat /\ c.type >= 1 /\ c.after \in 0 .. MaxId
      /\ TypeCount \in Nat /\ MaxId \in Nat
  BY InstallationBackfillAssumption DEF Checkpoint
<1>2. \A rec \in Records : rec.type \in 1 .. TypeCount /\ rec.id \in 1 .. MaxId
  BY DEF Records
<1>3. ASSUME NEW rec \in Records, rec.type = c.type, ~(rec.id <= c.after)
      PROVE  rec \in Ahead(c)
  BY <1>1, <1>2, <1>3 DEF Ahead
<1>4. page \subseteq Ahead(c)
  BY DEF IsPage
<1>5. CASE Cardinality(page) = PageSize
  <2>1. next = [c EXCEPT !.after = last]
    BY <1>5 DEF NextCheckpoint
  <2>2. next \in Checkpoint /\ next.type = c.type /\ next.after = last /\ next.complete = c.complete
    BY <2>1 DEF Checkpoint
  <2>3. ASSUME NEW rec \in Records, rec.type = c.type, rec.id <= last, ~(rec.id <= c.after)
        PROVE  rec \in page
    <3>1. last # 0
      BY <1>2, <2>3
    <3>2. PICK end \in page : end.id = last
      BY <3>1
    <3>3. end \in Ahead(c) /\ end \in Records /\ end.type = c.type
      BY <1>4, <3>2 DEF Ahead
    <3>4. CASE rec.id < end.id
      BY <1>3, <2>3, <3>2, <3>4 DEF IsPage
    <3>5. CASE rec.id = end.id
      BY <2>3, <3>2, <3>3, <3>5 DEF Records
    <3> QED
      BY <1>2, <2>3, <3>2, <3>3, <3>4, <3>5
  <2> QED
    BY <2>2, <2>3
<1>6. CASE Cardinality(page) # PageSize
  <2>1. page = Ahead(c)
    BY <1>6 DEF IsPage
  <2>2. CASE c.type < TypeCount
    <3>1. next = [Start EXCEPT !.type = c.type + 1]
      BY <1>6, <2>2 DEF NextCheckpoint
    <3>2. next.type = c.type + 1 /\ next.after = 0 /\ ~next.complete
      BY <3>1 DEF Start
    <3>3. next \in Checkpoint
      BY <1>1, <2>2, <3>1, RowShapes DEF Checkpoint
    <3> QED
      BY <1>1, <1>2, <1>3, <2>1, <3>2, <3>3
  <2>3. CASE ~(c.type < TypeCount)
    <3>1. next = [Start EXCEPT !.complete = TRUE]
      BY <1>6, <2>3 DEF NextCheckpoint
    <3>2. next \in Checkpoint
      BY <3>1, RowShapes DEF Checkpoint
    <3> QED
      BY <1>1, <1>2, <1>3, <2>1, <2>3, <3>2
  <2> QED
    BY <2>2, <2>3
<1> QED
  BY <1>5, <1>6

LEMMA DeliverPageStep == ASSUME IInv, NEW d \in Dispatchers, DeliverPage(d) PROVE IInv'
<1>0. PICK r \in Releases : r = dispatcher[d].release
  BY DEF DeliverPage, IInv, TypeInv, AtWork
<1>1. PICK page \in SUBSET Records, last \in 0 .. MaxId :
        /\ CommitPage(r, page, last)
        /\ \/ /\ IF checkpoint'[r].complete THEN Return(d, "completed") ELSE GiveUp(d)
              /\ UNCHANGED faults
           \/ Return(d, "retryable_failure") /\ Fault
  BY <1>0 DEF DeliverPage
<1>2. /\ dispatcher[d].stage = "delivering" /\ HoldsOwn(d) /\ ~NothingToDo(r)
      /\ UNCHANGED <<installed, outbox, missed>>
  BY <1>0 DEF DeliverPage
<1>3. TypeInv /\ CursorsDistinct
  BY DEF IInv
<1>4. progress[r] \in Row /\ checkpoint[r] \in Checkpoint
  BY <1>3 DEF TypeInv, TypeOK
<1>5. /\ Open(r) /\ progress[r].live /\ progress[r].cursor = dispatcher[d].cursor
      /\ installed = r /\ ~checkpoint[r].complete
  BY <1>0, <1>2 DEF HoldsOwn, OwnRow, Holds, Open, NothingToDo
<1> DEFINE next == NextCheckpoint(checkpoint[r], page, last)
<1>6. /\ IsPage(page, checkpoint[r]) /\ workedOut' = workedOut \union page
      /\ \A rec \in page : rec.id <= last
      /\ last = 0 \/ \E rec \in page : rec.id = last
      /\ checkpoint' = [checkpoint EXCEPT ![r] = next]
      /\ progress' = [progress EXCEPT ![r] = Paged(progress[r], next.complete)]
  BY <1>1 DEF CommitPage
<1>7. /\ next \in Checkpoint
      /\ \A rec \in Records :
           \/ next.complete
           \/ rec.type < next.type
           \/ rec.type = next.type /\ rec.id <= next.after
           => \/ rec.type < checkpoint[r].type
              \/ rec.type = checkpoint[r].type /\ rec.id <= checkpoint[r].after
              \/ rec \in page
  BY <1>4, <1>5, <1>6, PageCovers
<1> HIDE DEF next
<1>8. next.complete \in BOOLEAN
  BY <1>7 DEF Checkpoint
<1>9. /\ Paged(progress[r], next.complete) \in Row
      /\ Paged(progress[r], next.complete).status = progress[r].status
      /\ Paged(progress[r], next.complete).cursor = progress[r].cursor
      /\ Paged(progress[r], next.complete).attempts = 0
      /\ Paged(progress[r], next.complete).failures = 0
      /\ next.complete => Paged(progress[r], next.complete).live
  <2>1. (progress[r].live /\ next.complete) \in BOOLEAN
    OBVIOUS
  <2>2. 0 \in 0 .. MaximumDeliveryAttempts /\ 0 \in 0 .. MaximumFailures
    BY ConsumerProgressAssumption
  <2>3. Paged(progress[r], next.complete) \in Row
    BY <1>4, <2>1, <2>2 DEF Paged, Row
  <2> QED
    BY <1>4, <1>5, <2>3 DEF Paged, Row
<1>10. /\ progress' \in [Releases -> Row] /\ checkpoint' \in [Releases -> Checkpoint]
       /\ progress'[r] = Paged(progress[r], next.complete) /\ checkpoint'[r] = next
       /\ \A s \in Releases : s # r =>
            progress'[s] = progress[s] /\ checkpoint'[s] = checkpoint[s]
  BY <1>3, <1>4, <1>6, <1>7, <1>9 DEF TypeInv, TypeOK
<1>11. {"completed", "retryable_failure"} = Outcomes
  BY DEF Outcomes
<1>12. /\ dispatcher' \in [Dispatchers -> DispatcherState]
       /\ AtWork' /\ CursorsDistinct'
       /\ \A e \in Dispatchers : e # d => dispatcher'[e] = dispatcher[e]
       /\ GiveUp(d) => dispatcher'[d].stage = "idle"
       /\ \A o \in Outcomes : Return(d, o) =>
            /\ dispatcher'[d].stage = "settling" /\ dispatcher'[d].outcome = o
            /\ dispatcher'[d].release = dispatcher[d].release
            /\ dispatcher'[d].cursor = dispatcher[d].cursor
  BY <1>1, <1>2, <1>3, <1>11, Moves
<1>13. faults \in Nat /\ faults' \in 0 .. MaxFaults /\ faults' \in {faults, faults + 1}
  BY <1>1, <1>3, InstallationBackfillAssumption DEF Fault, TypeInv, TypeOK
<1>14. \A s \in Releases : Open(s)' <=> Open(s)
  BY <1>9, <1>10 DEF Open
<1>15. TypeInv'
  <2>1. workedOut' \subseteq Records
    BY <1>3, <1>6 DEF TypeInv, TypeOK
  <2>2. TypeOK'
    BY <1>2, <1>3, <1>10, <1>12, <1>13, <2>1 DEF TypeInv, TypeOK
  <2>3. RowsRemembered' /\ RowsRetained' /\ OpenMayFail'
    BY <1>2, <1>3, <1>5, <1>9, <1>10, <1>14, ConsumerProgressAssumption
       DEF TypeInv, RowsRemembered, RowsRetained, OpenMayFail, Open
  <2> QED
    BY <1>12, <2>2, <2>3 DEF TypeInv
\* Nobody else works under the claim, and d on nothing else.
<1>16. /\ \A e \in Dispatchers : e # d => ~WorksOn(e, r)'
       /\ \A s \in Releases, e \in Dispatchers : s # r /\ e # d =>
            (WorksOn(e, s)' <=> WorksOn(e, s)) /\ (Tainted(e, s)' <=> Tainted(e, s))
       /\ \A s \in Releases : s # r => ~WorksOn(d, s) /\ ~WorksOn(d, s)'
  <2>1. \A e \in Dispatchers : e # d => ~WorksOn(e, r)'
    BY <1>1, <1>2, <1>3, <1>5, <1>9, <1>10, <1>11, <1>12, <1>0 DEF WorksOn, CursorsDistinct
  <2>2. \A s \in Releases, e \in Dispatchers : s # r /\ e # d =>
          (WorksOn(e, s)' <=> WorksOn(e, s)) /\ (Tainted(e, s)' <=> Tainted(e, s))
    BY <1>10, <1>12 DEF WorksOn, Tainted
  <2>3. \A s \in Releases : s # r => ~WorksOn(d, s) /\ ~WorksOn(d, s)'
    BY <1>1, <1>2, <1>3, <1>11, <1>12, <1>0 DEF WorksOn
  <2> QED
    BY <2>1, <2>2, <2>3
<1>17. CompletedKnows'
  <2>1. ASSUME dispatcher'[d].stage = "settling", dispatcher'[d].outcome = "completed"
        PROVE  checkpoint'[r].complete
    BY <1>1, <1>11, <1>12, <2>1
  <2> QED
    BY <1>2, <1>5, <1>16, <2>1 DEF CompletedKnows
<1>18. CaughtUp'
  <2>1. ASSUME NEW rec \in Records, Passed(r, rec)' PROVE Passed(r, rec) \/ rec \in page
    BY <1>5, <1>7, <1>9, <1>10, <2>1 DEF Passed, Open
  <2> QED
    BY <1>2, <1>5, <1>6, <2>1 DEF IInv, CaughtUp
<1>19. Accounts'
  <2>1. Account(r)'
    <3>1. ASSUME NEW e \in Dispatchers, Tainted(e, r)' PROVE faults' = faults + 1
      <4>1. e = d /\ WorksOn(d, r)'
        BY <1>16, <3>1 DEF Tainted
      <4>2. CASE Return(d, "completed") /\ checkpoint'[r].complete
        BY <1>9, <1>10, <1>11, <1>12, <3>1, <4>1, <4>2 DEF Tainted
      <4>3. CASE GiveUp(d)
        BY <1>12, <4>1, <4>3 DEF WorksOn
      <4>4. CASE Fault
        BY <4>4 DEF Fault
      <4> QED
        BY <1>1, <4>2, <4>3, <4>4
    <3> QED
      BY <1>9, <1>10, <1>13, <3>1 DEF Account
  <2>2. ASSUME NEW s \in Releases, s # r, Open(s)' PROVE Account(s)'
    <3>1. /\ Clean(s) => Clean(s)'
          /\ \A e \in Dispatchers : Tainted(e, s)' => Tainted(e, s)
      BY <1>16, <2>2 DEF Clean, Tainted
    <3>2. Account(s) /\ Open(s)
      BY <1>14, <2>2 DEF IInv, Accounts
    <3> QED
      BY <1>3, <1>10, <1>13, <1>15, <2>2, <3>1, <3>2, AccountKept
  <2> QED
    BY <2>1, <2>2 DEF Accounts, Account
<1>20. FailuresAreFaults'
  <2>1. \A s \in Releases : progress'[s].status = progress[s].status
    BY <1>9, <1>10
  <2> QED
    BY <1>3, <1>13, <1>15, <2>1, FailuresKept DEF IInv
<1> QED
  BY <1>12, <1>15, <1>17, <1>18, <1>19, <1>20 DEF IInv

-----------------------------------------------------------------------------
(* Settlement.                                                              *)

\* d writes its own row, if at all, and forgets it.
LEMMA Settles ==
  ASSUME IInv, NEW d \in Dispatchers, dispatcher[d].stage = "settling", GiveUp(d),
         NEW r \in Releases, r = dispatcher[d].release, NEW row \in Row,
         WriteRows([progress EXCEPT ![r] = row]),
         \/ row = progress[r]
         \/ Open(r) /\ row.status # "none" /\ row.cursor = progress[r].cursor,
         row.status = "open" => row.failures < MaximumFailures,
         UNCHANGED <<installed, outbox, workedOut, missed, faults>>
  PROVE  /\ TypeInv' /\ CursorsDistinct' /\ CompletedKnows'
         /\ progress'[r].status = row.status
         /\ row.status = "open" => progress'[r] = row /\ checkpoint'[r] = checkpoint[r]
         /\ row.status # "open" => checkpoint'[r] = Start
         /\ \A s \in Releases : s # r =>
              progress'[s] = progress[s] /\ checkpoint'[s] = checkpoint[s]
         /\ \A s \in Releases : s # r /\ Open(s)' => Account(s)'
         /\ \A e \in Dispatchers, s \in Releases :
              /\ WorksOn(e, s)' => e # d
              /\ e # d => dispatcher'[e] = dispatcher[e]
<1>1. TypeInv /\ CursorsDistinct /\ dispatcher[d].stage # "idle"
  BY DEF IInv
<1>2. /\ dispatcher' \in [Dispatchers -> DispatcherState]
      /\ AtWork' /\ CursorsDistinct'
      /\ \A e \in Dispatchers : e # d => dispatcher'[e] = dispatcher[e]
      /\ dispatcher'[d].stage = "idle"
  BY <1>1, Moves
<1> DEFINE rows == [progress EXCEPT ![r] = row]
<1>3. /\ rows \in [Releases -> Row] /\ WriteRows(rows)
      /\ rows[r] = row /\ \A s \in Releases : s # r => rows[s] = progress[s]
  BY <1>1 DEF TypeInv, TypeOK
<1> HIDE DEF rows
<1>4. /\ progress' \in [Releases -> Row] /\ checkpoint' \in [Releases -> Checkpoint]
      /\ RowsRemembered'
      /\ progress'[r].status = row.status
      /\ row.status = "open" => progress'[r] = row /\ checkpoint'[r] = checkpoint[r]
      /\ row.status # "open" => checkpoint'[r] = Start
      /\ \A s \in Releases : s # r =>
           progress'[s] = progress[s] /\ checkpoint'[s] = checkpoint[s]
  BY <1>1, <1>3, Written
<1>5. TypeInv'
  <2>1. OpenMayFail'
    BY <1>1, <1>4 DEF TypeInv, OpenMayFail, Open
  <2>2. RowsRetained'
    BY <1>1, <1>4 DEF TypeInv, RowsRetained, Open
  <2> QED
    BY <1>1, <1>2, <1>4, <2>1, <2>2 DEF TypeInv, TypeOK
<1>6. \A e \in Dispatchers, s \in Releases : WorksOn(e, s)' => e # d
  BY <1>2 DEF WorksOn
<1>7. /\ \A e \in Dispatchers, s \in Releases : s # r =>
           (WorksOn(e, s)' => WorksOn(e, s)) /\ (Tainted(e, s)' => Tainted(e, s))
      /\ \A s \in Releases : s # r => (Clean(s) => Clean(s)')
  <2>1. \A s \in Releases : s # r => ~WorksOn(d, s)
    BY DEF WorksOn
  <2> QED
    BY <1>2, <1>4, <1>6, <2>1 DEF WorksOn, Tainted, Clean
<1>8. CompletedKnows'
  <2>1. ASSUME NEW e \in Dispatchers, NEW s \in Releases, Open(s)', WorksOn(e, s)',
               dispatcher'[e].stage = "settling", dispatcher'[e].outcome = "completed",
               s = installed, ~missed
        PROVE  checkpoint'[s].complete
    <3>1. e # d /\ dispatcher'[e] = dispatcher[e]
      BY <1>2, <1>6, <2>1
    <3>2. CASE s # r
      BY <1>4, <1>7, <2>1, <3>1, <3>2 DEF IInv, CompletedKnows, Open
    <3>3. CASE s = r /\ row = progress[r]
      <4>1. Open(r) /\ progress'[r] = progress[r] /\ checkpoint'[r] = checkpoint[r]
        BY <1>4, <2>1, <3>3 DEF Open
      <4>2. WorksOn(e, r)
        BY <2>1, <3>1, <3>3, <4>1 DEF WorksOn
      <4> QED
        BY <2>1, <3>1, <3>3, <4>1, <4>2 DEF IInv, CompletedKnows
    <3>4. CASE s = r /\ Open(r) /\ row.cursor = progress[r].cursor
      <4>1. checkpoint'[r] = checkpoint[r] /\ progress'[r] = row
        BY <1>4, <2>1, <3>4 DEF Open
      <4>2. WorksOn(e, r)
        BY <2>1, <3>1, <3>4, <4>1 DEF WorksOn
      <4> QED
        BY <2>1, <3>1, <3>4, <4>1, <4>2 DEF IInv, CompletedKnows
    <3> QED
      BY <3>2, <3>3, <3>4
  <2> QED
    BY <2>1 DEF CompletedKnows
<1>9. ASSUME NEW s \in Releases, s # r, Open(s)' PROVE Account(s)'
  <2>1. Open(s) /\ Account(s)
    BY <1>4, <1>9 DEF IInv, Accounts, Open
  <2> QED
    BY <1>1, <1>4, <1>5, <1>7, <1>9, <2>1, AccountKept
<1> QED
  BY <1>2, <1>4, <1>5, <1>6, <1>8, <1>9

LEMMA AcknowledgeStep == ASSUME IInv, NEW d \in Dispatchers, Acknowledge(d) PROVE IInv'
<1>1. PICK r \in Releases : r = dispatcher[d].release
  BY DEF Acknowledge, IInv, TypeInv, AtWork
<1>2. PICK row : row = IF HoldsOwn(d) THEN Acknowledged(progress[r]) ELSE progress[r]
  OBVIOUS
<1>3. /\ dispatcher[d].stage = "settling" /\ dispatcher[d].outcome = "completed" /\ GiveUp(d)
      /\ WriteRows([progress EXCEPT ![r] = row])
      /\ UNCHANGED <<installed, outbox, workedOut, missed, faults>>
  BY <1>1, <1>2 DEF Acknowledge
<1>4. TypeInv /\ progress[r] \in Row
  BY DEF IInv, TypeInv, TypeOK
<1>5. HoldsOwn(d) => /\ Open(r) /\ WorksOn(d, r)
                     /\ row.status = "acknowledged" /\ row.cursor = progress[r].cursor
  BY <1>1, <1>2, <1>3, <1>4 DEF HoldsOwn, OwnRow, Holds, Open, WorksOn, Acknowledged, Row
<1>6. row \in Row
  BY <1>2, <1>4 DEF Acknowledged, Row, Statuses
<1>7. \/ row = progress[r]
      \/ Open(r) /\ row.status # "none" /\ row.cursor = progress[r].cursor
  BY <1>2, <1>5
<1>8. row.status = "open" => row = progress[r] /\ Open(r) /\ row.failures < MaximumFailures
  BY <1>2, <1>4, <1>5 DEF TypeInv, OpenMayFail, Open
<1>9. /\ TypeInv' /\ CursorsDistinct' /\ CompletedKnows'
      /\ progress'[r].status = row.status
      /\ row.status = "open" => progress'[r] = row /\ checkpoint'[r] = checkpoint[r]
      /\ row.status # "open" => checkpoint'[r] = Start
      /\ \A s \in Releases : s # r =>
           progress'[s] = progress[s] /\ checkpoint'[s] = checkpoint[s]
      /\ \A s \in Releases : s # r /\ Open(s)' => Account(s)'
      /\ \A e \in Dispatchers, s \in Releases :
           /\ WorksOn(e, s)' => e # d
           /\ e # d => dispatcher'[e] = dispatcher[e]
  BY <1>1, <1>3, <1>6, <1>7, <1>8, Settles
<1>10. CaughtUp'
  <2>1. ASSUME NEW s \in Releases, NEW rec \in Records, Passed(s, rec)', s = installed, ~missed
        PROVE  Passed(s, rec)
    <3>1. CASE s = r /\ HoldsOwn(d)
      BY <1>3, <1>5, <2>1, <3>1 DEF IInv, CompletedKnows, Passed
    <3>2. CASE s # r
      BY <1>9, <2>1, <3>2 DEF Passed
    <3>3. CASE s = r /\ row = progress[r]
      BY <1>9, <2>1, <3>3, InstallationBackfillAssumption DEF Passed, Start, Records
    <3> QED
      BY <1>2, <3>1, <3>2, <3>3
  <2> QED
    BY <1>3, <1>4, <2>1 DEF IInv, CaughtUp, TypeInv, TypeOK
<1>11. Accounts'
  <2>1. ASSUME Open(r)' PROVE Account(r)'
    <3>1. row = progress[r] /\ Open(r) /\ progress'[r] = progress[r] /\ ~HoldsOwn(d)
      BY <1>5, <1>8, <1>9, <2>1 DEF Open
    <3>2. WorksOn(d, r) => Tainted(d, r)
      BY <1>1, <3>1 DEF WorksOn, Tainted, HoldsOwn, OwnRow, Holds, Open
    <3>3. /\ Clean(r) => Clean(r)'
          /\ \A e \in Dispatchers : Tainted(e, r)' => Tainted(e, r)
      BY <1>9, <3>1, <3>2 DEF Clean, Tainted, WorksOn
    <3> QED
      BY <1>3, <1>4, <1>9, <2>1, <3>1, <3>3, AccountKept DEF IInv, Accounts
  <2> QED
    BY <1>9, <2>1 DEF Accounts, Account
<1>12. FailuresAreFaults'
  <2>1. \A s \in Releases : progress'[s].status = "failed" => progress[s].status = "failed"
    BY <1>2, <1>5, <1>9
  <2> QED
    BY <1>3, <1>4, <1>9, <2>1, FailuresKept DEF IInv
<1> QED
  BY <1>9, <1>10, <1>11, <1>12 DEF IInv

LEMMA ReportFailureStep == ASSUME IInv, NEW d \in Dispatchers, ReportFailure(d) PROVE IInv'
<1>1. PICK r \in Releases : r = dispatcher[d].release
  BY DEF ReportFailure, IInv, TypeInv, AtWork
<1> DEFINE may == MayReportFailure(progress[r], dispatcher[d].cursor)
<1>2. PICK row : row = IF may THEN FailureReported(progress[r], MaximumFailures)
                       ELSE progress[r]
  OBVIOUS
<1>3. /\ dispatcher[d].stage = "settling" /\ dispatcher[d].outcome = "retryable_failure"
      /\ GiveUp(d) /\ WriteRows([progress EXCEPT ![r] = row])
      /\ UNCHANGED <<installed, outbox, workedOut, missed, faults>>
  BY <1>1, <1>2 DEF ReportFailure
<1>4. /\ TypeInv /\ progress[r] \in Row /\ MaximumFailures \in Nat \ {0}
      /\ progress[r].attempts \in Nat /\ progress[r].failures \in Nat /\ faults \in Nat
  BY ConsumerProgressAssumption, InstallationBackfillAssumption DEF IInv, TypeInv, TypeOK, Row
<1>5. may => /\ Open(r) /\ WorksOn(d, r) /\ Tainted(d, r)
             /\ progress[r].failures < MaximumFailures
  BY <1>1, <1>3, <1>4 DEF MayReportFailure, Open, WorksOn, Tainted, TypeInv, OpenMayFail
<1>6. may => /\ row \in Row /\ row.failures = progress[r].failures + 1
             /\ row.attempts = progress[r].attempts /\ row.cursor = progress[r].cursor
             /\ row.status \in {"open", "failed"}
             /\ row.status = "open" => row.failures < MaximumFailures
             /\ row.status = "failed" => row.failures >= MaximumFailures
  <2> SUFFICES ASSUME may
               PROVE  /\ row \in Row /\ row.failures = progress[r].failures + 1
                      /\ row.attempts = progress[r].attempts
                      /\ row.cursor = progress[r].cursor
                      /\ row.status \in {"open", "failed"}
                      /\ row.status = "open" => row.failures < MaximumFailures
                      /\ row.status = "failed" => row.failures >= MaximumFailures
    OBVIOUS
  <2>1. row = FailureReported(progress[r], MaximumFailures) /\ progress[r].status = "open"
    BY <1>2, <1>5 DEF Open
  <2>2. progress[r].failures + 1 \in 0 .. MaximumFailures
    BY <1>4, <1>5
  <2>3. CASE progress[r].failures + 1 >= MaximumFailures
    <3>1. row = [progress[r] EXCEPT !.status = "failed", !.failures = progress[r].failures + 1]
      BY <2>1, <2>3 DEF FailureReported
    <3> QED
      BY <1>4, <2>2, <2>3, <3>1 DEF Row, Statuses
  <2>4. CASE ~(progress[r].failures + 1 >= MaximumFailures)
    <3>1. row = [progress[r] EXCEPT !.live = TRUE, !.failures = progress[r].failures + 1]
      BY <2>1, <2>4 DEF FailureReported
    <3>2. row \in Row
      BY <1>4, <2>2, <3>1 DEF Row
    <3>3. /\ row.status = "open" /\ row.failures = progress[r].failures + 1
          /\ row.attempts = progress[r].attempts /\ row.cursor = progress[r].cursor
      BY <1>4, <2>1, <3>1 DEF Row
    <3> QED
      BY <1>4, <2>4, <3>2, <3>3
  <2> QED
    BY <2>3, <2>4
<1> HIDE DEF may
<1>7. /\ row \in Row
      /\ \/ row = progress[r]
         \/ Open(r) /\ row.status # "none" /\ row.cursor = progress[r].cursor
      /\ row.status = "open" => Open(r) /\ row.failures < MaximumFailures
  BY <1>2, <1>4, <1>5, <1>6 DEF TypeInv, OpenMayFail, Open
<1>8. /\ TypeInv' /\ CursorsDistinct' /\ CompletedKnows'
      /\ progress'[r].status = row.status
      /\ row.status = "open" => progress'[r] = row /\ checkpoint'[r] = checkpoint[r]
      /\ row.status # "open" => checkpoint'[r] = Start
      /\ \A s \in Releases : s # r =>
           progress'[s] = progress[s] /\ checkpoint'[s] = checkpoint[s]
      /\ \A s \in Releases : s # r /\ Open(s)' => Account(s)'
      /\ \A e \in Dispatchers, s \in Releases :
           /\ WorksOn(e, s)' => e # d
           /\ e # d => dispatcher'[e] = dispatcher[e]
  BY <1>1, <1>3, <1>7, Settles
<1>9. CaughtUp'
  <2>1. ASSUME NEW s \in Releases, NEW rec \in Records, Passed(s, rec)' PROVE Passed(s, rec)
    <3>1. CASE s # r
      BY <1>8, <2>1, <3>1 DEF Passed
    <3>2. CASE s = r
      BY <1>2, <1>6, <1>8, <2>1, <3>2, InstallationBackfillAssumption
         DEF Passed, Start, Records
    <3> QED
      BY <3>1, <3>2
  <2> QED
    BY <1>3, <1>4, <2>1 DEF IInv, CaughtUp, TypeInv, TypeOK
<1>10. may => progress[r].failures < faults
  BY <1>5 DEF IInv, Accounts, Account
<1>11. Accounts'
  <2>1. ASSUME Open(r)', may PROVE Account(r)'
    <3>1. progress'[r] = row
      BY <1>8, <2>1 DEF Open
    <3>2. \A e \in Dispatchers : WorksOn(e, r) => e = d
      BY <1>3, <1>5, <2>1 DEF IInv, CursorsDistinct, WorksOn
    <3>3. progress[r].attempts <= faults
      BY <1>5, <2>1, <3>2 DEF IInv, Accounts, Account, Clean
    <3>4. \A e \in Dispatchers : ~WorksOn(e, r)'
      BY <1>6, <1>8, <2>1, <3>1, <3>2 DEF WorksOn
    <3> QED
      BY <1>3, <1>4, <1>6, <1>10, <2>1, <3>1, <3>3, <3>4 DEF Account, Clean, Tainted
  <2>2. ASSUME Open(r)', ~may PROVE Account(r)'
    <3>1. row = progress[r] /\ Open(r) /\ progress'[r] = progress[r]
      BY <1>2, <1>8, <2>2 DEF Open
    <3>2. ~WorksOn(d, r)
      BY <1>1, <2>2, <3>1 DEF may, MayReportFailure, WorksOn, Open
    <3>3. /\ Clean(r) => Clean(r)'
          /\ \A e \in Dispatchers : Tainted(e, r)' => Tainted(e, r)
      BY <1>8, <3>1, <3>2 DEF Clean, Tainted, WorksOn
    <3> QED
      BY <1>3, <1>4, <1>8, <2>2, <3>1, <3>3, AccountKept DEF IInv, Accounts
  <2> QED
    BY <1>8, <2>1, <2>2 DEF Accounts, Account
<1>12. FailuresAreFaults'
  <2>1. CASE may /\ row.status = "failed"
    <3>1. faults >= MaximumFailures
      BY <1>4, <1>6, <1>10, <2>1
    <3> QED
      BY <1>3, <3>1 DEF FailuresAreFaults
  <2>2. CASE ~(may /\ row.status = "failed")
    <3>1. \A s \in Releases : progress'[s].status = "failed" => progress[s].status = "failed"
      BY <1>2, <1>8, <2>2
    <3> QED
      BY <1>3, <1>4, <1>8, <3>1, FailuresKept DEF IInv
  <2> QED
    BY <2>1, <2>2
<1> QED
  BY <1>8, <1>9, <1>11, <1>12 DEF IInv

-----------------------------------------------------------------------------
(* Time and retention.                                                      *)

LEMMA LapseStep == ASSUME IInv, NEW r \in Releases, LapseLease(r) PROVE IInv'
<1>1. /\ Open(r) /\ progress[r].live
      /\ progress' = [progress EXCEPT ![r] = Lapsed(progress[r])]
      /\ IF \E d \in Dispatchers : WorksOn(d, r) THEN Fault ELSE UNCHANGED faults
      /\ UNCHANGED <<installed, outbox, checkpoint, workedOut, dispatcher, missed>>
  BY DEF LapseLease, Open
<1>2. TypeInv /\ progress \in [Releases -> Row]
  BY DEF IInv, TypeInv, TypeOK
<1>3. /\ progress' \in [Releases -> Row]
      /\ progress'[r].status = progress[r].status /\ progress'[r].cursor = progress[r].cursor
      /\ progress'[r].attempts = progress[r].attempts
      /\ progress'[r].failures = progress[r].failures
      /\ \A s \in Releases : s # r => progress'[s] = progress[s]
  BY <1>1, <1>2 DEF Lapsed, Row
<1>4. faults' \in 0 .. MaxFaults /\ faults' \in {faults, faults + 1}
  BY <1>1, <1>2, InstallationBackfillAssumption DEF Fault, TypeInv, TypeOK
<1>5. TypeInv'
  BY <1>1, <1>2, <1>3, <1>4
     DEF TypeInv, TypeOK, RowsRemembered, OpenMayFail, RowsRetained, AtWork, Open
<1>6. \A s \in Releases :
        /\ Open(s)' <=> Open(s)
        /\ \A e \in Dispatchers : WorksOn(e, s)' <=> WorksOn(e, s)
  BY <1>1, <1>3 DEF Open, WorksOn
<1>7. CompletedKnows' /\ CursorsDistinct'
  BY <1>1, <1>6 DEF IInv, CompletedKnows, CursorsDistinct
<1>8. CaughtUp'
  <2>1. ASSUME NEW s \in Releases, NEW rec \in Records, Passed(s, rec)' PROVE Passed(s, rec)
    BY <1>1, <1>3, <2>1 DEF Passed
  <2> QED
    BY <1>1, <1>2, <2>1 DEF IInv, CaughtUp, TypeInv, TypeOK
<1>9. Accounts'
  <2>1. ASSUME NEW s \in Releases, Open(s), faults' # faults + 1
        PROVE  /\ Clean(s) => Clean(s)'
               /\ \A e \in Dispatchers : Tainted(e, s)' => Tainted(e, s)
    <3>1. CASE s = r
      <4>1. \A e \in Dispatchers : ~WorksOn(e, r)
        BY <1>1, <2>1 DEF Fault
      <4> QED
        BY <1>6, <3>1, <4>1 DEF Clean, Tainted
    <3>2. CASE s # r
      BY <1>1, <1>3, <1>6, <3>2 DEF Clean, Tainted
    <3> QED
      BY <3>1, <3>2
  <2>2. ASSUME NEW s \in Releases, Open(s) PROVE Account(s)'
    <3>1. /\ progress'[s].attempts = progress[s].attempts
          /\ progress'[s].failures = progress[s].failures
      BY <1>3
    <3>2. Account(s) /\ Open(s)'
      BY <1>6, <2>2 DEF IInv, Accounts
    <3>3. \/ faults' = faults + 1
          \/ /\ faults' = faults
             /\ Clean(s) => Clean(s)'
             /\ \A e \in Dispatchers : Tainted(e, s)' => Tainted(e, s)
      BY <1>4, <2>1, <2>2
    <3> QED
      BY <1>2, <1>5, <2>2, <3>1, <3>2, <3>3, AccountKept
  <2> QED
    BY <1>6, <2>2 DEF Accounts, Account
<1>10. FailuresAreFaults'
  <2>1. \A s \in Releases : progress'[s].status = progress[s].status
    BY <1>3
  <2> QED
    BY <1>2, <1>4, <1>5, <2>1, FailuresKept DEF IInv
<1> QED
  BY <1>5, <1>7, <1>8, <1>9, <1>10 DEF IInv

LEMMA TrimStep == ASSUME IInv, NEW r \in Releases, Trim(r) PROVE IInv'
<1>1. /\ progress[r].status = "acknowledged" /\ outbox' = outbox \ {r}
      /\ WriteRows([progress EXCEPT ![r] = NoRow])
      /\ UNCHANGED <<installed, workedOut, dispatcher, missed, faults>>
  BY DEF Trim
<1>2. TypeInv
  BY DEF IInv
<1> DEFINE rows == [progress EXCEPT ![r] = NoRow]
<1>3. /\ rows \in [Releases -> Row] /\ WriteRows(rows)
      /\ rows[r] = NoRow /\ \A s \in Releases : s # r => rows[s] = progress[s]
  BY <1>1, <1>2, RowShapes DEF TypeInv, TypeOK
<1> HIDE DEF rows
<1>4. /\ progress' \in [Releases -> Row] /\ checkpoint' \in [Releases -> Checkpoint]
      /\ RowsRemembered'
      /\ progress'[r].status = "none" /\ checkpoint'[r] = Start
      /\ \A s \in Releases : s # r =>
           progress'[s] = progress[s] /\ checkpoint'[s] = checkpoint[s]
  BY <1>2, <1>3, Written DEF NoRow
<1>5. TypeInv'
  BY <1>1, <1>2, <1>4 DEF TypeInv, TypeOK, OpenMayFail, RowsRetained, AtWork, Open
<1>6. \A s \in Releases : Open(s)' => /\ Open(s) /\ s # r /\ progress'[s] = progress[s]
                                       /\ checkpoint'[s] = checkpoint[s]
  BY <1>4 DEF Open
<1>7. CompletedKnows' /\ CursorsDistinct'
  BY <1>1, <1>6 DEF IInv, CompletedKnows, CursorsDistinct, WorksOn
<1>8. CaughtUp'
  <2>1. ASSUME NEW s \in Releases, NEW rec \in Records, Passed(s, rec)' PROVE Passed(s, rec)
    BY <1>1, <1>4, <2>1, InstallationBackfillAssumption DEF Passed, Start, Records
  <2> QED
    BY <1>1, <1>2, <2>1 DEF IInv, CaughtUp, TypeInv, TypeOK
<1>9. Accounts'
  BY <1>1, <1>6 DEF IInv, Accounts, Account, Open, Clean, Tainted, WorksOn
<1>10. FailuresAreFaults'
  BY <1>1, <1>4 DEF IInv, FailuresAreFaults
<1> QED
  BY <1>5, <1>7, <1>8, <1>9, <1>10 DEF IInv

-----------------------------------------------------------------------------
(* The theorems.                                                            *)

LEMMA Stutters == ASSUME IInv, UNCHANGED vars PROVE IInv'
<1>1. UNCHANGED <<progress, checkpoint, dispatcher, faults>> /\ outbox \subseteq outbox'
      /\ UNCHANGED <<installed, outbox, workedOut, missed>>
  BY DEF vars
<1>2. TypeOK'
  BY <1>1 DEF IInv, TypeInv, TypeOK
<1>3. /\ TypeInv' /\ CursorsDistinct' /\ Accounts' /\ FailuresAreFaults'
      /\ \A r \in Releases, d \in Dispatchers :
           (Open(r)' <=> Open(r)) /\ (WorksOn(d, r)' <=> WorksOn(d, r))
  BY <1>1, <1>2, ConsumerIdles
<1>4. CompletedKnows' /\ CaughtUp'
  BY <1>1, <1>3 DEF IInv, CompletedKnows, CaughtUp, Passed
<1> QED
  BY <1>3, <1>4 DEF IInv

LEMMA NextInv == IInv /\ [Next]_vars => IInv'
<1> SUFFICES ASSUME IInv, [Next]_vars PROVE IInv'
  OBVIOUS
<1>1. CASE \E r \in Releases : Activate(r)
  BY <1>1, ActivateStep
<1>2. CASE Detach
  BY <1>2, DetachStep
<1>3. CASE \E rec \in Records : Save(rec)
  BY <1>3, SaveStep
<1>4. CASE \E d \in Dispatchers, r \in Releases, swept \in SUBSET outbox : Claim(d, swept, r)
  BY <1>4, ClaimStep
<1>5. CASE \E swept \in SUBSET outbox : Sweep(swept)
  BY <1>5, SweepStep
<1>6. CASE \E d \in Dispatchers : BatchStep(d) \/ Stop(d)
  BY <1>6, WithdrawingStep, DeliverPageStep, AcknowledgeStep, ReportFailureStep DEF BatchStep
<1>7. CASE \E r \in Releases : LapseLease(r) \/ Trim(r)
  BY <1>7, LapseStep, TrimStep
<1>8. CASE UNCHANGED vars
  BY <1>8, Stutters
<1> QED
  BY <1>1, <1>2, <1>3, <1>4, <1>5, <1>6, <1>7, <1>8 DEF Next

LEMMA Inductive == Spec => []IInv
BY InitInv, NextInv, PTL DEF Spec

\* Every variable of the backfill keeps its type: no row exceeds its attempts or
\* its failures, for all budgets.
THEOREM TypeCorrect == Spec => []TypeOK
<1>1. IInv => TypeOK
  BY DEF IInv, TypeInv
<1> QED
  BY <1>1, Inductive, PTL

\* Whatever the consumer has passed for the installed release holds its values
\* (derived-field-consumer.ts, installation_backfill_progress.sql), unless the
\* activation met an occurrence that was used up.
THEOREM PassedIsCaughtUp == Spec => []CaughtUp
<1>1. IInv => CaughtUp
  BY DEF IInv
<1> QED
  BY <1>1, Inductive, PTL

\* Successful pages do not spend the failure budget
\* (installation_backfill_progress.sql): only faults do.
THEOREM PagesSpendNothing == Spec => []FailuresAreFaults
<1>1. IInv => FailuresAreFaults
  BY DEF IInv
<1> QED
  BY <1>1, Inductive, PTL
=============================================================================
