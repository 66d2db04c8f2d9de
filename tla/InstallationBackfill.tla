------------------------ MODULE InstallationBackfill ------------------------
(***************************************************************************)
(* The derived values of existing records after a release is activated.    *)
(* An activation appends one occurrence for its release.  The consumer     *)
(* installation-derived-values works through the records in pages: each    *)
(* delivery commits one page, the place where the next one begins, and the *)
(* end of its own lease in one transaction, and is then claimed again.     *)
(* Meanwhile people save records and other releases are activated, earlier *)
(* ones too.                                                               *)
(*                                                                         *)
(* One application, whose occurrences are ordered by release revision.     *)
(***************************************************************************)
EXTENDS ConsumerProgress, FiniteSets

CONSTANTS
  MaxRelease,   \* bound on the release revisions
  TypeCount,    \* record types with derived fields, in the order of their ids
  MaxId,        \* bound on the records of one type
  PageSize,     \* records of one page
  Dispatchers,  \* concurrent dispatcher processes
  MaxFaults     \* bound on lost calls, stopped processes and slow holders

ASSUME InstallationBackfillAssumption ==
  /\ MaxRelease \in Nat
  /\ TypeCount \in Nat
  /\ MaxId \in Nat
  /\ PageSize \in Nat \ {0}
  /\ MaxFaults \in Nat

Releases == 1 .. MaxRelease
NoRelease == 0
Records == [type : 1 .. TypeCount, id : 1 .. MaxId]

VARIABLES
  installed,   \* the release whose bindings are active
  outbox,      \* the releases with an installation_activated occurrence
  progress,    \* the consumer's row of each occurrence
  checkpoint,  \* that row's checkpoint column
  workedOut,   \* records with derived values of the release activated last
  dispatcher,  \* local state of each dispatcher
  missed,      \* history: the activation met an occurrence already used up
  faults

vars == <<installed, outbox, progress, checkpoint, workedOut, dispatcher,
          missed, faults>>

\* Before the first page: no record type chosen, no record passed.  (Without any
\* record type the first page is empty and the last one.)
Start == [type |-> 1, after |-> 0, complete |-> FALSE]

Checkpoint == [type : 1 .. TypeCount \union {1}, after : 0 .. MaxId, complete : BOOLEAN]

Stages == {"idle", "delivering", "settling"}
Outcomes == {"completed", "retryable_failure"}

DispatcherState ==
  [stage   : Stages,
   release : Releases \union {NoRelease},
   cursor  : Cursors \union {NoCursor},
   outcome : Outcomes]

Idle == [stage |-> "idle", release |-> NoRelease, cursor |-> NoCursor,
         outcome |-> "completed"]

Init ==
  /\ installed = NoRelease
  /\ outbox = {}
  /\ progress = [r \in Releases |-> NoRow]
  /\ checkpoint = [r \in Releases |-> Start]
  /\ workedOut = {}
  /\ dispatcher = [d \in Dispatchers |-> Idle]
  /\ missed = FALSE
  /\ faults = 0

Fault == faults < MaxFaults /\ faults' = faults + 1

-----------------------------------------------------------------------------
\* d is at work under the current claim of r's row.
WorksOn(d, r) ==
  /\ dispatcher[d].stage # "idle"
  /\ dispatcher[d].release = r
  /\ dispatcher[d].cursor = progress[r].cursor

\* Nothing is left of r's occurrence for a new activation: it is acknowledged,
\* about to be, or part of the records has been passed.
UsedUp(r) ==
  /\ r \in outbox
  /\ \/ progress[r].status = "acknowledged"
     \/ checkpoint[r] # Start
     \/ \E d \in Dispatchers :
          /\ WorksOn(d, r)
          /\ dispatcher[d].stage = "settling"
          /\ dispatcher[d].outcome = "completed"

(***************************************************************************)
(* Installation, upgrade and the return to an earlier release: the prior   *)
(* release is detached and the new one activated in one transaction under  *)
(* the binding locks.  The occurrence is appended unless the outbox still  *)
(* has one for this release.                                               *)
(***************************************************************************)
Activate(r) ==
  /\ r # installed
  /\ installed' = r
  /\ outbox' = outbox \union {r}
  /\ workedOut' = {}
  /\ missed' = UsedUp(r)
  /\ UNCHANGED <<progress, checkpoint, dispatcher, faults>>

Detach ==
  /\ installed # NoRelease
  /\ installed' = NoRelease
  /\ UNCHANGED <<outbox, progress, checkpoint, workedOut, dispatcher,
                 missed, faults>>

\* A create, an update or a restore works out every derived value of its
\* record with the installed release.  (Deleted records are not told from the
\* others: a page skips them, and they come back by a restore.)
Save(rec) ==
  /\ installed # NoRelease
  /\ workedOut' = workedOut \union {rec}
  /\ UNCHANGED <<installed, outbox, progress, checkpoint, dispatcher, missed,
                 faults>>

-----------------------------------------------------------------------------
(***************************************************************************)
(* claim_consumer_occurrences for this consumer.  The occurrences of one   *)
(* application are one sequence, so at most one of them is eligible; the   *)
(* sweep that comes first may reach only some of the exhausted rows.       *)
(***************************************************************************)
Unblocked(r) == \A s \in outbox : s < r => progress[s].status = "acknowledged"

Eligible == {r \in outbox : Claimable(progress[r]) /\ Unblocked(r)}

ExhaustedRows == {r \in outbox : Exhausted(progress[r])}

\* Any cursor that nothing holds stands for a fresh one.
CursorsInUse ==
  {progress[r].cursor : r \in Releases}
    \union {dispatcher[d].cursor : d \in Dispatchers}

\* Of a finished row only the status is ever read again.
Remembered(row) ==
  IF row.status = "open" THEN row ELSE [NoRow EXCEPT !.status = row.status]

\* The rows after a write; the checkpoint of a finished one is forgotten too.
WriteRows(rows) ==
  /\ progress' = [r \in Releases |-> Remembered(rows[r])]
  /\ checkpoint' = [r \in Releases |->
       IF rows[r].status = "open" THEN checkpoint[r] ELSE Start]

Claim(d, swept, r) ==
  /\ dispatcher[d].stage = "idle"
  /\ swept \subseteq ExhaustedRows
  /\ r \in Eligible
  /\ Cursors \ CursorsInUse # {}
  /\ LET cursor == CHOOSE k \in Cursors \ CursorsInUse : TRUE IN
       /\ WriteRows([s \in Releases |->
            IF s \in swept THEN Swept(progress[s])
            ELSE IF s = r THEN Claimed(progress[s], cursor)
            ELSE progress[s]])
       /\ dispatcher' = [dispatcher EXCEPT ![d] =
            [Idle EXCEPT !.stage = "delivering", !.release = r, !.cursor = cursor]]
  /\ UNCHANGED <<installed, outbox, workedOut, missed, faults>>

\* A claim that finds nothing to claim still sweeps.
Sweep(swept) ==
  /\ swept # {}
  /\ swept \subseteq ExhaustedRows
  /\ WriteRows([s \in Releases |->
       IF s \in swept THEN Swept(progress[s]) ELSE progress[s]])
  /\ UNCHANGED <<installed, outbox, workedOut, dispatcher,
                 missed, faults>>

OwnRow(d) == progress[dispatcher[d].release]

HoldsOwn(d) == Holds(OwnRow(d), dispatcher[d].cursor)

-----------------------------------------------------------------------------
(***************************************************************************)
(* One delivery is one transaction.  It holds the row, the bindings (so no *)
(* activation comes between) and the records of the page until it commits, *)
(* and asks for a live lease at its start and at its end.  (The renewal    *)
(* that precedes it asks the same and changes nothing else here; when it   *)
(* finds the claim lost the dispatcher gives up without a report.)         *)
(***************************************************************************)
\* The records of the checkpoint's type behind its last one.
Ahead(c) == {rec \in Records : rec.type = c.type /\ rec.id > c.after}

\* The first PageSize of them, or all if there are fewer.
IsPage(page, c) ==
  /\ page \subseteq Ahead(c)
  /\ \A rec \in page, other \in Ahead(c) : other.id < rec.id => other \in page
  /\ \/ Cardinality(page) = PageSize
     \/ Cardinality(page) < PageSize /\ page = Ahead(c)

\* Mutant: the end of a record type is taken for the end of the last one.
NextCheckpointOneType(c, page, last) ==
  IF Cardinality(page) < PageSize
  THEN [Start EXCEPT !.complete = TRUE]
  ELSE [c EXCEPT !.after = last]

\* Mutant: the record type after the finished one is not remembered.
NextCheckpointRestarted(c, page, last) ==
  IF Cardinality(page) < PageSize
  THEN [Start EXCEPT !.complete = (c.type = TypeCount /\ Ahead(Start) = {})]
  ELSE [c EXCEPT !.after = last]

\* A page that is not full ends its record type; the next page begins with the
\* next type, or the work is complete.
NextCheckpoint(c, page, last) ==
  IF Cardinality(page) = PageSize THEN [c EXCEPT !.after = last]
  ELSE IF c.type < TypeCount THEN [Start EXCEPT !.type = c.type + 1]
  ELSE [Start EXCEPT !.complete = TRUE]

\* Mutant: pages spend the attempts of their occurrence.
PagedSpending(row, complete) == [row EXCEPT !.live = @ /\ complete]

\* A committed page starts the budgets anew and gives the lease back, unless
\* it was the last one: then the lease is kept for the acknowledgement.
Paged(row, complete) ==
  [row EXCEPT !.attempts = 0, !.failures = 0, !.live = @ /\ complete]

CommitPage(r, page, last) ==
  LET next == NextCheckpoint(checkpoint[r], page, last) IN
  /\ IsPage(page, checkpoint[r])
  /\ \A rec \in page : rec.id <= last
  /\ last = 0 \/ \E rec \in page : rec.id = last
  /\ workedOut' = workedOut \union page
  /\ checkpoint' = [checkpoint EXCEPT ![r] = next]
  /\ progress' = [progress EXCEPT ![r] = Paged(@, next.complete)]

Return(d, outcome) ==
  dispatcher' = [dispatcher EXCEPT ![d].stage = "settling",
                                   ![d].outcome = outcome]

\* The release is not installed (any more), or its last page was committed.
NothingToDo(r) == installed # r \/ checkpoint[r].complete

GiveUp(d) == dispatcher' = [dispatcher EXCEPT ![d] = Idle]

\* The claim is lost: the renewal is refused, or the transaction raises an error.
DeliverUnheld(d) ==
  /\ dispatcher[d].stage = "delivering"
  /\ ~HoldsOwn(d)
  /\ GiveUp(d) \/ Return(d, "retryable_failure")
  /\ UNCHANGED <<installed, outbox, progress, checkpoint, workedOut, missed,
                 faults>>

DeliverNothing(d) ==
  /\ dispatcher[d].stage = "delivering"
  /\ HoldsOwn(d)
  /\ NothingToDo(dispatcher[d].release)
  /\ Return(d, "completed")
  /\ UNCHANGED <<installed, outbox, progress, checkpoint, workedOut, missed,
                 faults>>

DeliverPage(d) ==
  LET r == dispatcher[d].release IN
  /\ dispatcher[d].stage = "delivering"
  /\ HoldsOwn(d)
  /\ ~NothingToDo(r)
  /\ \E page \in SUBSET Records, last \in 0 .. MaxId :
       /\ CommitPage(r, page, last)
       /\ \/ /\ IF checkpoint'[r].complete THEN Return(d, "completed")
                ELSE GiveUp(d)  \* "continued": there is nothing to settle
             /\ UNCHANGED faults
          \/ Return(d, "retryable_failure") /\ Fault  \* the answer is lost
  /\ UNCHANGED <<installed, outbox, missed>>

\* The transaction fails: a value cannot be worked out, the access version has
\* changed since the scope was resolved, the lease ran out before the end.
FailDelivery(d) ==
  /\ dispatcher[d].stage = "delivering"
  /\ Return(d, "retryable_failure")
  /\ Fault
  /\ UNCHANGED <<installed, outbox, progress, checkpoint, workedOut, missed>>

-----------------------------------------------------------------------------
Acknowledge(d) ==
  /\ dispatcher[d].stage = "settling"
  /\ dispatcher[d].outcome = "completed"
  /\ WriteRows([progress EXCEPT ![dispatcher[d].release] =
       IF HoldsOwn(d) THEN Acknowledged(@) ELSE @])
  /\ GiveUp(d)
  /\ UNCHANGED <<installed, outbox, workedOut, missed, faults>>

ReportFailure(d) ==
  /\ dispatcher[d].stage = "settling"
  /\ dispatcher[d].outcome = "retryable_failure"
  /\ WriteRows([progress EXCEPT ![dispatcher[d].release] =
       IF MayReportFailure(@, dispatcher[d].cursor)
       THEN FailureReported(@, MaximumFailures) ELSE @])
  /\ GiveUp(d)
  /\ UNCHANGED <<installed, outbox, workedOut, missed, faults>>

\* The process stops, the claim's answer is lost, or a renewal or settlement
\* fails: the work keeps its lease.
Stop(d) ==
  /\ dispatcher[d].stage # "idle"
  /\ GiveUp(d)
  /\ Fault
  /\ UNCHANGED <<installed, outbox, progress, checkpoint, workedOut, missed>>

\* A lease that ends under a dispatcher at work is a fault: one page is meant
\* to fit into it.
LapseLease(r) ==
  /\ progress[r].status = "open"
  /\ progress[r].live
  /\ progress' = [progress EXCEPT ![r] = Lapsed(@)]
  /\ IF \E d \in Dispatchers : WorksOn(d, r) THEN Fault ELSE UNCHANGED faults
  /\ UNCHANGED <<installed, outbox, checkpoint, workedOut, dispatcher,
                 missed>>

\* Retention deletes an acknowledged occurrence that a later release follows.
Trim(r) ==
  /\ r \in outbox
  /\ progress[r].status = "acknowledged"
  /\ \E newer \in outbox : newer > r
  /\ outbox' = outbox \ {r}
  /\ WriteRows([progress EXCEPT ![r] = NoRow])
  /\ UNCHANGED <<installed, workedOut, dispatcher, missed, faults>>

-----------------------------------------------------------------------------
BatchStep(d) ==
  \/ DeliverUnheld(d)
  \/ DeliverNothing(d)
  \/ DeliverPage(d)
  \/ FailDelivery(d)
  \/ Acknowledge(d)
  \/ ReportFailure(d)

Next ==
  \/ \E r \in Releases : Activate(r)
  \/ Detach
  \/ \E rec \in Records : Save(rec)
  \/ \E d \in Dispatchers, r \in Releases, swept \in SUBSET outbox :
       Claim(d, swept, r)
  \/ \E swept \in SUBSET outbox : Sweep(swept)
  \/ \E d \in Dispatchers : BatchStep(d) \/ Stop(d)
  \/ \E r \in Releases : LapseLease(r) \/ Trim(r)

Spec == Init /\ [][Next]_vars

\* The wake-up recurs and claims the oldest occurrence first, leases end, a
\* dispatcher that runs goes on.  What people do is not fair.
Fairness ==
  /\ \A r \in Releases :
       /\ SF_vars(\E d \in Dispatchers, swept \in SUBSET outbox :
                    Claim(d, swept, r))
       /\ SF_vars(\E swept \in SUBSET outbox : r \in swept /\ Sweep(swept))
       /\ WF_vars(LapseLease(r))
  /\ \A d \in Dispatchers : WF_vars(BatchStep(d))

FairSpec == Spec /\ Fairness

-----------------------------------------------------------------------------
\* Every variable has its type.
TypeOK ==
  /\ installed \in Releases \union {NoRelease}
  /\ outbox \subseteq Releases
  /\ progress \in [Releases -> Row]
  /\ checkpoint \in [Releases -> Checkpoint]
  /\ workedOut \subseteq Records
  /\ dispatcher \in [Dispatchers -> DispatcherState]
  /\ missed \in BOOLEAN
  /\ faults \in 0 .. MaxFaults

\* r's occurrence is acknowledged or its checkpoint has passed rec.
Passed(r, rec) ==
  \/ progress[r].status = "acknowledged"
  \/ checkpoint[r].complete
  \/ rec.type < checkpoint[r].type
  \/ rec.type = checkpoint[r].type /\ rec.id <= checkpoint[r].after

\* Unless its activation met an occurrence that was used up, whatever the
\* consumer has passed for the installed release, by its checkpoint or by the
\* acknowledgement, holds that release's values: through switches, lost answers
\* and dispatchers whose claim was taken over.
CaughtUp ==
  installed # NoRelease /\ ~missed =>
    \A rec \in Records : Passed(installed, rec) => rec \in workedOut

\* However many pages there are, an occurrence fails for good only after as
\* many faults as one of its two budgets allows.
FailuresAreFaults ==
  \A r \in Releases :
    progress[r].status = "failed" =>
      faults >= MaximumFailures \/ faults >= MaximumDeliveryAttempts

\* A release that stays installed is worked out for every record, unless its
\* activation met a used-up occurrence, or an occurrence not behind it failed.
EveryInstallationCatchesUp ==
  \A r \in Releases :
    installed = r ~>
      \/ installed # r \/ missed
      \/ workedOut = Records
      \/ \E s \in outbox : s <= r /\ progress[s].status = "failed"
=============================================================================
