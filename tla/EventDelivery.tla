---------------------------- MODULE EventDelivery ----------------------------
(***************************************************************************)
(* Durable delivery of record events.  A record save appends occurrences   *)
(* to the outbox under the record's row lock.  Dispatchers (the in-process *)
(* dispatch after a request and the scheduled recovery wake-up, any number *)
(* at a time) claim occurrences for a registered consumer, hand each one   *)
(* to the consumer under a renewed lease and settle it.  The wake-up also  *)
(* trims occurrences that are older than the retention window.             *)
(*                                                                         *)
(* Every action is one database transaction or one return of the consumer; *)
(* a dispatcher may be stopped between any two of them.                    *)
(***************************************************************************)
EXTENDS ConsumerProgress, FiniteSets

CONSTANTS
  Records,       \* the subjects: one sequence of occurrences for each
  MaxSequence,   \* bound on the occurrences of one record
  Consumers,     \* registered consumers of record events
  Dispatchers,   \* concurrent dispatcher processes
  BatchLimit,    \* occurrences one claim may return
  NoConsumer, NoOccurrence

ASSUME EventDeliveryAssumption ==
  /\ MaxSequence \in Nat \ {0}
  /\ BatchLimit \in Nat \ {0}

VARIABLES
  outbox,        \* vortex_platform.event_outbox
  progress,      \* vortex_platform.consumer_occurrence_progress
  dispatcher,    \* local state of each dispatcher
  trimming,      \* occurrences a retention statement read as trimmable
  appended,      \* history: how many occurrences each record has had
  acknowledged   \* history: the <<consumer, occurrence>> pairs acknowledged

vars == <<outbox, progress, dispatcher, trimming, appended, acknowledged>>

Occurrence == [record : Records, sequence : 1 .. MaxSequence]

\* p is an earlier occurrence of o's record.
Precedes(p, o) == p.record = o.record /\ p.sequence < o.sequence

-----------------------------------------------------------------------------
(***************************************************************************)
(* A dispatcher works through one claimed batch at a time: "choosing" the  *)
(* next occurrence of the batch, "delivering" one to the consumer, then    *)
(* "settling" the outcome the consumer returned.                           *)
(***************************************************************************)
Stages == {"idle", "choosing", "delivering", "settling"}
Outcomes == {"completed", "retryable_failure", "terminal_failure"}

DispatcherState ==
  [stage    : Stages,
   consumer : Consumers \union {NoConsumer},
   cursor   : Cursors \union {NoCursor},
   waiting  : SUBSET Occurrence,
   current  : Occurrence \union {NoOccurrence},
   outcome  : Outcomes]

Idle == [stage |-> "idle", consumer |-> NoConsumer, cursor |-> NoCursor,
         waiting |-> {}, current |-> NoOccurrence, outcome |-> "completed"]

\* The occurrences d claimed and has not given up or settled.
Held(d) ==
  dispatcher[d].waiting \union
    (IF dispatcher[d].stage \in {"delivering", "settling"}
     THEN {dispatcher[d].current} ELSE {})

Init ==
  /\ outbox = {}
  /\ progress = [c \in Consumers |-> [o \in Occurrence |-> NoRow]]
  /\ dispatcher = [d \in Dispatchers |-> Idle]
  /\ trimming = {}
  /\ appended = [r \in Records |-> 0]
  /\ acknowledged = {}

-----------------------------------------------------------------------------
(***************************************************************************)
(* append_record_occurrence_set: under the record's row lock a save takes  *)
(* the numbers after the largest sequence the outbox still holds for the   *)
(* record.  There is no other counter.                                     *)
(***************************************************************************)
Sequences(r) == {o.sequence : o \in {p \in outbox : p.record = r}}

\* coalesce(max(record_sequence), 0) + 1
IsNextSequence(r, n) ==
  /\ n - 1 \in Sequences(r) \union {0}
  /\ \A k \in Sequences(r) : k < n

\* One save appends one or several occurrences of its record.
Append(r) ==
  \E first, last \in 1 .. MaxSequence :
    /\ first <= last
    /\ IsNextSequence(r, first)
    /\ outbox' = outbox \union
         {[record |-> r, sequence |-> n] : n \in first .. last}
    /\ appended' = [appended EXCEPT ![r] = @ + (last - first + 1)]
    /\ UNCHANGED <<progress, dispatcher, trimming, acknowledged>>

-----------------------------------------------------------------------------
(***************************************************************************)
(* claim_consumer_occurrences.  The sweep first fails exhausted rows (it   *)
(* is bounded and skips locked rows, so it may reach only some).  Then a   *)
(* fresh cursor claims occurrences that are claimable and whose retained   *)
(* predecessors are all acknowledged; a concurrent claim's advisory locks  *)
(* and the batch size may leave some of them out.                          *)
(***************************************************************************)
\* Mutant: a predecessor nobody has claimed yet does not block.
UnblockedByClaimed(c, o) ==
  \A p \in outbox :
    Precedes(p, o) => progress[c][p].status \in {"none", "acknowledged"}

\* Mutant: a predecessor that failed for good does not block.
UnblockedByFinished(c, o) ==
  \A p \in outbox :
    Precedes(p, o) => progress[c][p].status \in {"acknowledged", "failed"}

\* No retained predecessor is without an acknowledgement, a missing row counting
\* as one that has none.
Unblocked(c, o) ==
  \A p \in outbox : Precedes(p, o) => progress[c][p].status = "acknowledged"

Eligible(c) ==
  {o \in outbox : Claimable(progress[c][o]) /\ Unblocked(c, o)}

ExhaustedFor(c) == {o \in outbox : Exhausted(progress[c][o])}

\* A uuid is never drawn twice.  Cursors are only compared for equality, so any
\* one that nothing holds any more stands for a fresh one.
CursorsInUse ==
  {progress[c][o].cursor : c \in Consumers, o \in Occurrence}
    \union {dispatcher[d].cursor : d \in Dispatchers}

Claim(d, c, swept, batch) ==
  /\ dispatcher[d].stage = "idle"
  /\ swept \subseteq ExhaustedFor(c)
  /\ batch \subseteq Eligible(c)
  /\ swept \union batch # {}
  /\ Cardinality(batch) <= BatchLimit
  /\ Cursors \ CursorsInUse # {}
  /\ LET cursor == CHOOSE k \in Cursors \ CursorsInUse : TRUE IN
       /\ progress' = [progress EXCEPT ![c] = [o \in Occurrence |->
            IF o \in swept THEN Swept(progress[c][o])
            ELSE IF o \in batch THEN Claimed(progress[c][o], cursor)
            ELSE progress[c][o]]]
       /\ dispatcher' = [dispatcher EXCEPT ![d] =
            IF batch = {} THEN Idle
            ELSE [Idle EXCEPT !.stage = "choosing", !.consumer = c,
                              !.cursor = cursor, !.waiting = batch]]
  /\ UNCHANGED <<outbox, trimming, appended, acknowledged>>

-----------------------------------------------------------------------------
\* The dispatcher's own row of occurrence o, and its next state once it is
\* done with the current occurrence, whatever the settlement was.
OwnRow(d, o) == progress[dispatcher[d].consumer][o]

NextOf(state) ==
  IF state.waiting = {} THEN Idle
  ELSE [state EXCEPT !.stage = "choosing", !.current = NoOccurrence,
                     !.outcome = "completed"]

GoOn(d) == dispatcher' = [dispatcher EXCEPT ![d] = NextOf(@)]

SetRow(c, o, row) == progress' = [progress EXCEPT ![c][o] = row]

(***************************************************************************)
(* renew_consumer_occurrence_lease, immediately before the consumer runs.  *)
(* A claim that is no longer held is interrupted: the consumer is not      *)
(* called.  (A renewal moves the lease of a live row: here no change.)     *)
(***************************************************************************)
Renew(d, o) ==
  /\ dispatcher[d].stage = "choosing"
  /\ o \in dispatcher[d].waiting
  /\ LET rest == [dispatcher[d] EXCEPT !.waiting = @ \ {o}] IN
       dispatcher' = [dispatcher EXCEPT ![d] =
         IF Holds(OwnRow(d, o), dispatcher[d].cursor)
         THEN [rest EXCEPT !.stage = "delivering", !.current = o]
         ELSE NextOf(rest)]
  /\ UNCHANGED <<outbox, progress, trimming, appended, acknowledged>>

\* The consumer returns, or throws (a retryable failure).
Deliver(d) ==
  /\ dispatcher[d].stage = "delivering"
  /\ \E outcome \in Outcomes :
       dispatcher' = [dispatcher EXCEPT ![d].stage = "settling",
                                        ![d].outcome = outcome]
  /\ UNCHANGED <<outbox, progress, trimming, appended, acknowledged>>

\* acknowledge_consumer_occurrence.
Acknowledge(d) ==
  LET c == dispatcher[d].consumer
      o == dispatcher[d].current IN
  /\ dispatcher[d].stage = "settling"
  /\ dispatcher[d].outcome = "completed"
  /\ IF Holds(OwnRow(d, o), dispatcher[d].cursor)
     THEN /\ SetRow(c, o, Acknowledged(OwnRow(d, o)))
          /\ acknowledged' = acknowledged \union {<<c, o>>}
     ELSE UNCHANGED <<progress, acknowledged>>
  /\ GoOn(d)
  /\ UNCHANGED <<outbox, trimming, appended>>

\* record_consumer_occurrence_delivery_failure; a terminal outcome reports a
\* budget of one.
ReportFailure(d) ==
  LET c == dispatcher[d].consumer
      o == dispatcher[d].current
      budget == IF dispatcher[d].outcome = "terminal_failure"
                THEN 1 ELSE MaximumFailures IN
  /\ dispatcher[d].stage = "settling"
  /\ dispatcher[d].outcome # "completed"
  /\ IF MayReportFailure(OwnRow(d, o), dispatcher[d].cursor)
     THEN SetRow(c, o, FailureReported(OwnRow(d, o), budget))
     ELSE UNCHANGED progress
  /\ GoOn(d)
  /\ UNCHANGED <<outbox, trimming, appended, acknowledged>>

\* A settlement or renewal call that fails: the work keeps its lease, which
\* lapses into an ordinary reclaim, and the batch goes on.
Interrupt(d) ==
  /\ \/ /\ dispatcher[d].stage = "choosing"
        /\ \E o \in dispatcher[d].waiting :
             dispatcher' = [dispatcher EXCEPT ![d] =
               NextOf([dispatcher[d] EXCEPT !.waiting = @ \ {o}])]
     \/ /\ dispatcher[d].stage = "settling"
        /\ GoOn(d)
  /\ UNCHANGED <<outbox, progress, trimming, appended, acknowledged>>

\* The process stops, or a claim's answer is lost: nothing in the database
\* remembers that this dispatcher worked on the batch.
Crash(d) ==
  /\ dispatcher[d].stage # "idle"
  /\ dispatcher' = [dispatcher EXCEPT ![d] = Idle]
  /\ UNCHANGED <<outbox, progress, trimming, appended, acknowledged>>

LapseLease(c, o) ==
  /\ progress[c][o].status = "open"
  /\ progress[c][o].live
  /\ SetRow(c, o, Lapsed(progress[c][o]))
  /\ UNCHANGED <<outbox, dispatcher, trimming, appended, acknowledged>>

-----------------------------------------------------------------------------
(***************************************************************************)
(* The retention part of event_dispatch_backlog_status.  One statement     *)
(* reads, in its snapshot, occurrences that some consumer claimed, whose   *)
(* every claim is acknowledged and that a later occurrence of the record   *)
(* follows (which of them are 30 days old is a choice); it then locks the  *)
(* rows and they are deleted.  The foreign key of a claim's new row holds  *)
(* the outbox row, and the lock skips it, only until the claim commits: a  *)
(* claim that commits between the snapshot and the lock is not seen, and   *)
(* the lock finds the outbox row unchanged.                                *)
(***************************************************************************)
\* Mutant: retention forgets to keep the newest occurrence.
TrimmableNewest(o) ==
  /\ \E c \in Consumers : progress[c][o].status # "none"
  /\ \A c \in Consumers : progress[c][o].status \in {"none", "acknowledged"}

Trimmable(o) ==
  /\ \E c \in Consumers : progress[c][o].status # "none"
  /\ \A c \in Consumers : progress[c][o].status \in {"none", "acknowledged"}
  /\ \E newer \in outbox : Precedes(o, newer)

ReadTrimmable ==
  /\ trimming = {}
  /\ \E chosen \in SUBSET {o \in outbox : Trimmable(o)} :
       /\ chosen # {}
       /\ trimming' = chosen
  /\ UNCHANGED <<outbox, progress, dispatcher, appended, acknowledged>>

Trim ==
  /\ trimming # {}
  /\ outbox' = outbox \ trimming
  /\ progress' = [c \in Consumers |-> [o \in Occurrence |->
       IF o \in trimming THEN NoRow ELSE progress[c][o]]]
  /\ trimming' = {}
  /\ UNCHANGED <<dispatcher, appended, acknowledged>>

-----------------------------------------------------------------------------
ClaimStep(d, c) ==
  \E swept, batch \in SUBSET outbox : Claim(d, c, swept, batch)

\* What a running dispatcher does with its batch.
BatchStep(d) ==
  \/ \E o \in Occurrence : Renew(d, o)
  \/ Deliver(d)
  \/ Acknowledge(d)
  \/ ReportFailure(d)
  \/ Interrupt(d)

Next ==
  \/ \E r \in Records : Append(r)
  \/ \E d \in Dispatchers : \E c \in Consumers : ClaimStep(d, c)
  \/ \E d \in Dispatchers : BatchStep(d) \/ Crash(d)
  \/ \E c \in Consumers, o \in Occurrence : LapseLease(c, o)
  \/ ReadTrimmable
  \/ Trim

Spec == Init /\ [][Next]_vars

(***************************************************************************)
(* The recovery wake-up keeps claiming, oldest occurrence first, and an    *)
(* occurrence leaves the claim window after finitely many attempts, so no  *)
(* eligible or exhausted occurrence is passed over for ever; a running     *)
(* dispatcher goes on; a lease ends.  Appends, crashes and trims are not   *)
(* fair.  (The claim also leaves out an occurrence whose causation chain   *)
(* is cyclic or longer than 16: no producer sets a causation, so fairness  *)
(* assumes there is none.)                                                 *)
(***************************************************************************)
ClaimOf(c, o) ==
  \E d \in Dispatchers, swept, batch \in SUBSET outbox :
    o \in swept \union batch /\ Claim(d, c, swept, batch)

Fairness ==
  /\ \A c \in Consumers, o \in Occurrence :
       /\ SF_vars(ClaimOf(c, o))
       /\ WF_vars(LapseLease(c, o))
  /\ \A d \in Dispatchers : WF_vars(BatchStep(d))

FairSpec == Spec /\ Fairness

-----------------------------------------------------------------------------
\* Every variable has its type.
TypeOK ==
  /\ outbox \subseteq Occurrence
  /\ progress \in [Consumers -> [Occurrence -> Row]]
  /\ dispatcher \in [Dispatchers -> DispatcherState]
  /\ trimming \subseteq outbox
  /\ appended \in [Records -> 0 .. MaxSequence]
  /\ acknowledged \subseteq Consumers \X Occurrence

\* A consumer has a row for an occurrence only when it has acknowledged every
\* earlier occurrence of that record that the outbox still holds: whatever the
\* dispatchers, lapses, failures and crashes do, nothing overtakes.
RowsInOrder ==
  \A c \in Consumers : \A o, p \in outbox :
    Precedes(p, o) /\ progress[c][o].status # "none"
      => progress[c][p].status = "acknowledged"

\* While a dispatcher works under the row's current claim nobody else finishes
\* the row: it is open, or the sweep failed it after its lease lapsed.  (A row
\* that was reclaimed or trimmed has another cursor.)
HolderNotOvertaken ==
  \A d \in Dispatchers : \A o \in Held(d) :
    OwnRow(d, o).cursor = dispatcher[d].cursor =>
      \/ OwnRow(d, o).status = "open"
      \/ OwnRow(d, o).status = "failed" /\ ~OwnRow(d, o).live

\* A batch never holds two occurrences of one record: the dispatcher's guard
\* for unsettled records never has anything to do.
OnePerRecord ==
  \A d \in Dispatchers : \A o, p \in Held(d) : o.record = p.record => o = p

\* Sequence numbers are consecutive and never reused, although the only
\* counter is the largest one retained and retention deletes rows.
SequenceNeverReused ==
  \A r \in Records :
    /\ \A k \in Sequences(r) : k <= appended[r]
    /\ appended[r] > 0 => appended[r] \in Sequences(r)

\* A finished row never changes again until retention removes it.
FinishedForGood ==
  [][\A c \in Consumers, o \in Occurrence :
       progress[c][o].status \in {"acknowledged", "failed"} =>
         \/ progress'[c][o] = progress[c][o]
         \/ progress'[c][o] = NoRow /\ o \notin outbox']_vars

\* Retention removes an occurrence only when every consumer that claimed it
\* has acknowledged it.
TrimSparesClaims ==
  [][\A c \in Consumers : \A o \in outbox \ outbox' :
       progress[c][o].status \in {"none", "acknowledged"}]_vars

\* Every occurrence is eventually acknowledged, failed for good, or held back
\* by an earlier occurrence of its record that failed for good.
EventuallySettled ==
  \A c \in Consumers, o \in Occurrence :
    o \in outbox ~>
      \/ o \notin outbox
      \/ progress[c][o].status \in {"acknowledged", "failed"}
      \/ \E p \in outbox : Precedes(p, o) /\ progress[c][p].status = "failed"

-----------------------------------------------------------------------------
\* The promise of OrderedDelivery, kept by this specification.
StatusOf(c, o) ==
  CASE o.sequence > appended[o.record]     -> "absent"
    [] <<c, o>> \in acknowledged           -> "acknowledged"
    [] o \notin outbox /\ o.sequence <= appended[o.record]
         /\ <<c, o>> \notin acknowledged   -> "discarded"
    [] OTHER -> IF progress[c][o].status = "failed" THEN "failed" ELSE "pending"

Promise == INSTANCE OrderedDelivery WITH
  status <- [c \in Consumers |-> [o \in Occurrence |-> StatusOf(c, o)]]

ImplementsPromise == Promise!Spec
==============================================================================
