-------------------------- MODULE ConsumerProgress --------------------------
(***************************************************************************)
(* One row of vortex_platform.consumer_occurrence_progress: what one       *)
(* consumer has done with one outbox occurrence.  For the consumers of     *)
(* record events the row is written only by the claim, renewal,            *)
(* acknowledgement and failure functions, and each of them is one row      *)
(* operator below.  (The installation backfill pages through rows of its   *)
(* own consumer, which receives no record events.)                         *)
(*                                                                         *)
(* Time is abstracted to whether lease_expires_at lies in the future.  A   *)
(* lease that is live may lapse at any moment (the state machines have an  *)
(* action for it); a lapsed one becomes live only by a write.              *)
(***************************************************************************)
EXTENDS Integers

CONSTANTS
  Cursors,                  \* claim cursors, one random uuid for each claim
  NoCursor,                 \* no claim yet
  MaximumDeliveryAttempts,  \* claims of one occurrence before the sweep fails it
  MaximumFailures           \* the consumer policy's maxAttempts

ASSUME ConsumerProgressAssumption ==
  /\ NoCursor \notin Cursors
  /\ MaximumDeliveryAttempts \in Nat \ {0}
  /\ MaximumFailures \in Nat \ {0}

Statuses == {"none", "open", "acknowledged", "failed"}

\* "none": there is no row.  acknowledged_at and terminally_failed_at are the
\* two final statuses.
Row == [status   : Statuses,
        cursor   : Cursors \union {NoCursor},
        live     : BOOLEAN,
        attempts : 0 .. MaximumDeliveryAttempts,
        failures : 0 .. MaximumFailures]

NoRow == [status |-> "none", cursor |-> NoCursor, live |-> FALSE,
          attempts |-> 0, failures |-> 0]

-----------------------------------------------------------------------------
\* Mutant: the cursor is not compared, any live claim will do.
HoldsAnyClaim(row, cursor) == row.status = "open" /\ row.live

\* The claim holder's test in renewal, acknowledgement and backfill paging.
Holds(row, cursor) ==
  /\ row.cursor = cursor
  /\ row.status = "open"
  /\ row.live

\* Mutant: off by one, the last attempt is never swept.
ExhaustedBeyond(row) ==
  /\ row.status = "open"
  /\ ~row.live
  /\ row.attempts > MaximumDeliveryAttempts

\* claim_consumer_occurrences: an unfinished claim whose lease lapsed after the
\* last attempt the budget allows.
Exhausted(row) ==
  /\ row.status = "open"
  /\ ~row.live
  /\ row.attempts >= MaximumDeliveryAttempts

\* The maintenance sweep that opens every claim call ends such a row.
Swept(row) == [row EXCEPT !.status = "failed"]

\* Mutant: the reclaim leaves the budget to the sweep.
ClaimableUnbudgeted(row) ==
  \/ row.status = "none"
  \/ row.status = "open" /\ ~row.live

\* Mutant: the reclaim does not ask whether the row is finished.
ClaimableFinished(row) ==
  \/ row.status = "none"
  \/ ~row.live /\ row.attempts < MaximumDeliveryAttempts

\* The upsert's condition: no row yet, or a lapsed claim with attempts left.
Claimable(row) ==
  \/ row.status = "none"
  \/ /\ row.status = "open"
     /\ ~row.live
     /\ row.attempts < MaximumDeliveryAttempts

Claimed(row, cursor) ==
  [row EXCEPT !.status = "open", !.cursor = cursor, !.live = TRUE,
              !.attempts = @ + 1]

Acknowledged(row) == [row EXCEPT !.status = "acknowledged"]

\* record_consumer_occurrence_delivery_failure asks for the cursor and an
\* unfinished row, but not for a live lease.
MayReportFailure(row, cursor) ==
  /\ row.cursor = cursor
  /\ row.status = "open"

\* The last failure the budget allows is terminal; an earlier one moves the
\* lease to the end of the backoff, which is in the future.
FailureReported(row, maxAttempts) ==
  IF row.failures + 1 >= maxAttempts
  THEN [row EXCEPT !.status = "failed", !.failures = @ + 1]
  ELSE [row EXCEPT !.live = TRUE, !.failures = @ + 1]

\* Time passes the lease's end.
Lapsed(row) == [row EXCEPT !.live = FALSE]
=============================================================================
