---------------------------- MODULE FileUploads ----------------------------
(***************************************************************************)
(* Uploads into one attachment field of one record: admission with an      *)
(* upload credential, the browser's PUT into the object store, trusted     *)
(* inspection of the stored bytes, the record save that activates the      *)
(* file, and the maintenance run that removes what was never activated.    *)
(*                                                                         *)
(* Two stores that share no transaction: rows (file_records, file_uploads  *)
(* and the record's value) and objects.  A row lock is held from the first *)
(* read of a completion to its commit, over the inspection of the object.  *)
(*                                                                         *)
(* Files are numbered in the order of their admission, which is the order  *)
(* their upload windows (24 hours each) end in.  Time is abstracted to     *)
(* whether a credential, an upload window or a cleanup claim has ended.    *)
(* Permissions, quotas and a change of the field's settings only refuse    *)
(* steps, and every step here may be left out.                             *)
(*                                                                         *)
(* A file that left the field is soft-deleted.  Its restoration within the *)
(* recovery period and its removal after it are documented, but nothing in *)
(* the code carries them out: there are no such actions.                   *)
(***************************************************************************)
EXTENDS Integers, FiniteSets

CONSTANTS
  FileCount,    \* files that may be admitted
  MaxAttached,  \* the field's maxFiles
  Cleaners,     \* processes that run the upload cleanup
  BatchLimit,   \* claims of one cleanup run (25 in the code)
  MaxFaults,    \* bound: failed calls and stops of cleaners
  NoFile        \* replaces nothing

Files == 1 .. FileCount

ASSUME FileUploadsAssumption ==
  /\ FileCount \in Nat
  /\ MaxAttached \in Nat \ {0}
  /\ BatchLimit \in Nat \ {0}
  /\ MaxFaults \in Nat
  /\ NoFile \notin Files

VARIABLES
  lifecycle,   \* file_records.lifecycle_state ("none" before admission)
  object,      \* the bytes stored at the file's own path
  credential,  \* the browser holds an upload credential that is still valid
  expired,     \* upload_expires_at has passed
  replaces,    \* file_uploads.replacing_file_id
  inspecting,  \* what an open completion read while it holds the row lock
  attached,    \* the record's value of the field
  claimant,    \* cleanup_claim_id: the cleaner that claimed the file last
  claimLive,   \* cleanup_claim_until lies in the future
  work,        \* the claims a cleaner still has to go through
  step,        \* where it is with the first of them
  faults

rows == <<lifecycle, expired, replaces, inspecting, attached, claimant, claimLive>>
vars == <<rows, object, credential, work, step, faults>>

Lifecycles == {"none", "pending", "scanning", "quarantined", "active",
               "soft_deleted", "abandoned", "removed"}
Bytes == {"clean", "unsafe"}
NoBytes == "none"
Steps == {"next", "minted", "deleted"}

TypeOK ==
  /\ lifecycle \in [Files -> Lifecycles]
  /\ object \in [Files -> Bytes \union {NoBytes}]
  /\ credential \in [Files -> BOOLEAN]
  /\ expired \in [Files -> BOOLEAN]
  /\ replaces \in [Files -> Files \union {NoFile}]
  /\ inspecting \in [Files -> Bytes \union {NoBytes}]
  /\ attached \in SUBSET Files
  /\ claimant \in [Files -> Cleaners \union {NoFile}]
  /\ claimLive \in [Files -> BOOLEAN]
  /\ work \in [Cleaners -> SUBSET Files]
  /\ step \in [Cleaners -> Steps]
  /\ faults \in 0 .. MaxFaults

Init ==
  /\ lifecycle = [f \in Files |-> "none"]
  /\ object = [f \in Files |-> NoBytes]
  /\ credential = [f \in Files |-> FALSE]
  /\ expired = [f \in Files |-> FALSE]
  /\ replaces = [f \in Files |-> NoFile]
  /\ inspecting = [f \in Files |-> NoBytes]
  /\ attached = {}
  /\ claimant = [f \in Files |-> NoFile]
  /\ claimLive = [f \in Files |-> FALSE]
  /\ work = [c \in Cleaners |-> {}]
  /\ step = [c \in Cleaners |-> "next"]
  /\ faults = 0

Locked(f) == inspecting[f] # NoBytes
Active == {f \in Files : lifecycle[f] = "active"}

-----------------------------------------------------------------------------
(* Admission, transfer and completion.                                      *)

\* reserve: the field has room (counting the file to be replaced out), the
\* pending row and its first grant are inserted and the grant is spent on one
\* credential, all in one transaction whose answer may not reach the browser.
Admit(f, r) ==
  /\ lifecycle[f] = "none"
  /\ \A g \in Files : g < f => lifecycle[g] # "none"
  /\ r \in Active \union {NoFile}
  /\ Cardinality(Active \ {r}) < MaxAttached
  /\ lifecycle' = [lifecycle EXCEPT ![f] = "pending"]
  /\ replaces' = [replaces EXCEPT ![f] = r]
  /\ \E received \in BOOLEAN : credential' = [credential EXCEPT ![f] = received]
  /\ UNCHANGED <<object, expired, inspecting, attached, claimant, claimLive,
                 work, step, faults>>

\* renew: a new grant and its credential while the upload is pending and open.
Renew(f) ==
  /\ lifecycle[f] = "pending"
  /\ ~Locked(f)
  /\ ~expired[f]
  /\ credential' = [credential EXCEPT ![f] = TRUE]
  /\ UNCHANGED <<rows, object, work, step, faults>>

\* A credential lasts at most a minute.
CredentialEnds(f) ==
  /\ credential[f]
  /\ credential' = [credential EXCEPT ![f] = FALSE]
  /\ UNCHANGED <<rows, object, work, step, faults>>

\* The storage policy grants INSERT at the admitted path only: an object that
\* is there is never overwritten.
Put(f, bytes) ==
  /\ credential[f]
  /\ object[f] = NoBytes
  /\ object' = [object EXCEPT ![f] = bytes]
  /\ UNCHANGED <<rows, credential, work, step, faults>>

\* Mutant: a grant may outlive the upload's window.
WindowEndsEarly(f) ==
  /\ lifecycle[f] # "none"
  /\ ~expired[f]
  /\ \A g \in Files : g < f => expired[g]
  /\ expired' = [expired EXCEPT ![f] = TRUE]
  /\ UNCHANGED <<lifecycle, object, credential, replaces, inspecting, attached,
                 claimant, claimLive, work, step, faults>>

\* The window ends, in the order of admission.  Neither reserve nor renew
\* accepts a grant that ends after it, so no credential is left.
WindowEnds(f) ==
  /\ lifecycle[f] # "none"
  /\ ~credential[f]
  /\ ~expired[f]
  /\ \A g \in Files : g < f => expired[g]
  /\ expired' = [expired EXCEPT ![f] = TRUE]
  /\ UNCHANGED <<lifecycle, object, credential, replaces, inspecting, attached,
                 claimant, claimLive, work, step, faults>>

\* completeFileUpload up to the inspection: the rows are read under lock, the
\* upload is pending and open, and the object is there.
Inspect(f) ==
  /\ lifecycle[f] = "pending"
  /\ ~Locked(f)
  /\ ~expired[f]
  /\ object[f] # NoBytes
  /\ inspecting' = [inspecting EXCEPT ![f] = object[f]]
  /\ UNCHANGED <<lifecycle, object, credential, expired, replaces, attached,
                 claimant, claimLive, work, step, faults>>

\* Mutant: the inspection is stored for the state it leads to.
RecordVerdict(f) ==
  /\ Locked(f)
  /\ lifecycle' = [lifecycle EXCEPT ![f] = IF expired[f] THEN @ ELSE inspecting[f]]
  /\ inspecting' = [inspecting EXCEPT ![f] = NoBytes]
  /\ UNCHANGED <<object, credential, expired, replaces, attached, claimant,
                 claimLive, work, step, faults>>

\* complete: refused when the window has ended meanwhile; clean content waits
\* for its save, any other is quarantined.  The transaction ends either way.
RecordInspection(f) ==
  /\ Locked(f)
  /\ lifecycle' = [lifecycle EXCEPT ![f] =
       IF expired[f] THEN @
       ELSE IF inspecting[f] = "clean" THEN "scanning" ELSE "quarantined"]
  /\ inspecting' = [inspecting EXCEPT ![f] = NoBytes]
  /\ UNCHANGED <<object, credential, expired, replaces, attached, claimant,
                 claimLive, work, step, faults>>

\* The inspection fails or its process stops: the transaction rolls back.
LoseInspection(f) ==
  /\ Locked(f)
  /\ inspecting' = [inspecting EXCEPT ![f] = NoBytes]
  /\ UNCHANGED <<lifecycle, object, credential, expired, replaces, attached,
                 claimant, claimLive, work, step, faults>>

-----------------------------------------------------------------------------
(* The record save.                                                         *)

\* Mutant: the replaced file is not compared with the new value.
AttachableBeside(f, value) ==
  \/ lifecycle[f] = "active" /\ f \in attached
  \/ lifecycle[f] = "scanning" /\ ~Locked(f) /\ ~expired[f]

\* Mutant: clean content is enough, whatever became of the upload.
AttachableClean(f, value) ==
  \/ lifecycle[f] = "active" /\ f \in attached
  \/ lifecycle[f] \in {"scanning", "abandoned"} /\ object[f] = "clean"

\* attach_record_files_internal: a file of the new value is already attached,
\* or a clean upload inside its window whose replaced file is still active and
\* leaves the value.
Attachable(f, value) ==
  \/ lifecycle[f] = "active" /\ f \in attached
  \/ /\ lifecycle[f] = "scanning"
     /\ ~Locked(f)
     /\ ~expired[f]
     /\ replaces[f] # NoFile =>
          replaces[f] \in Active /\ replaces[f] \notin value

\* A save writes the field, activates the new files and retires the ones that
\* left, in one transaction.
Save(value) ==
  /\ value # attached
  /\ Cardinality(value) <= MaxAttached
  /\ \A f \in value : Attachable(f, value)
  /\ attached' = value
  /\ lifecycle' = [f \in Files |->
       CASE f \in value -> "active"
         [] f \in Active \ value -> "soft_deleted"
         [] OTHER -> lifecycle[f]]
  /\ UNCHANGED <<object, credential, expired, replaces, inspecting, claimant,
                 claimLive, work, step, faults>>

-----------------------------------------------------------------------------
(* Upload cleanup.                                                          *)

\* Mutant: an expired upload is claimed whatever became of the file.
ClaimableAny ==
  {f \in Files : /\ lifecycle[f] \notin {"none", "removed"}
                 /\ expired[f]
                 /\ ~Locked(f)
                 /\ ~claimLive[f]}

\* Mutant: an upload whose first cleanup failed is not claimed again.
ClaimableOnce ==
  {f \in Files : /\ lifecycle[f] \in {"pending", "scanning", "quarantined"}
                 /\ expired[f]
                 /\ ~Locked(f)
                 /\ ~claimLive[f]}

\* claim_abandoned_file_uploads: expired, never activated, not locked by a
\* completion, and not under a live cleanup claim.
Claimable ==
  {f \in Files :
     /\ lifecycle[f] \in {"pending", "scanning", "quarantined", "abandoned"}
     /\ expired[f]
     /\ ~Locked(f)
     /\ ~claimLive[f]}

\* The first uploads of the queue, as many as a run may claim.
IsBatch(batch) ==
  /\ batch # {}
  /\ \A f \in batch, g \in Claimable \ batch : f < g
  /\ Cardinality(batch) <= BatchLimit
  /\ batch = Claimable \/ Cardinality(batch) = BatchLimit

\* One transaction marks the batch abandoned and claims it.
ClaimBatch(c) ==
  /\ work[c] = {}
  /\ \E batch \in SUBSET Claimable :
       /\ IsBatch(batch)
       /\ work' = [work EXCEPT ![c] = batch]
       /\ lifecycle' = [f \in Files |->
            IF f \in batch THEN "abandoned" ELSE lifecycle[f]]
       /\ claimant' = [f \in Files |-> IF f \in batch THEN c ELSE claimant[f]]
       /\ claimLive' = [f \in Files |-> f \in batch \/ claimLive[f]]
  /\ step' = [step EXCEPT ![c] = "next"]
  /\ UNCHANGED <<object, credential, expired, replaces, inspecting, attached,
                 faults>>

\* The claim's five minutes are over.  A run bounds each of its calls so that it
\* gets through its batch in that time: a claim that ends under its cleaner is a
\* fault (a stalled process), like a stop.
ClaimLapses(f) ==
  /\ claimLive[f]
  /\ IF \E c \in Cleaners : claimant[f] = c /\ f \in work[c]
     THEN faults < MaxFaults /\ faults' = faults + 1
     ELSE UNCHANGED faults
  /\ claimLive' = [claimLive EXCEPT ![f] = FALSE]
  /\ UNCHANGED <<lifecycle, object, credential, expired, replaces, inspecting,
                 attached, claimant, work, step>>

\* The file the cleaner is at.
At(c, f) == f \in work[c] /\ \A g \in work[c] : f <= g

Done(c, f) ==
  /\ work' = [work EXCEPT ![c] = @ \ {f}]
  /\ step' = [step EXCEPT ![c] = "next"]

\* The delete credential is minted only while the cleaner's own claim is live;
\* otherwise the file is left to a later run.
MintDelete(c, f) ==
  /\ At(c, f)
  /\ step[c] = "next"
  /\ IF claimant[f] = c /\ claimLive[f]
     THEN step' = [step EXCEPT ![c] = "minted"] /\ UNCHANGED work
     ELSE Done(c, f)
  /\ UNCHANGED <<rows, object, credential, faults>>

\* The store deletes the object (or finds it missing) and answers.
DeleteObject(c, f) ==
  /\ At(c, f)
  /\ step[c] = "minted"
  /\ object' = [object EXCEPT ![f] = NoBytes]
  /\ step' = [step EXCEPT ![c] = "deleted"]
  /\ UNCHANGED <<rows, credential, work, faults>>

\* The call fails before or after its effect: the claim is kept for a retry.
DeleteFails(c, f) ==
  /\ At(c, f)
  /\ step[c] = "minted"
  /\ faults < MaxFaults
  /\ faults' = faults + 1
  /\ \E deleted \in BOOLEAN :
       object' = IF deleted THEN [object EXCEPT ![f] = NoBytes] ELSE object
  /\ Done(c, f)
  /\ UNCHANGED <<rows, credential>>

\* finish_abandoned_file_upload: only the claim that is still the last one
\* removes the upload row, and the file is removed with it.
Finish(c, f) ==
  /\ At(c, f)
  /\ step[c] = "deleted"
  /\ lifecycle' = IF lifecycle[f] = "abandoned" /\ claimant[f] = c
                  THEN [lifecycle EXCEPT ![f] = "removed"] ELSE lifecycle
  /\ Done(c, f)
  /\ UNCHANGED <<object, credential, expired, replaces, inspecting, attached,
                 claimant, claimLive, faults>>

\* The maintenance process stops; its claims lapse in time.
CleanerStops(c) ==
  /\ work[c] # {}
  /\ faults < MaxFaults
  /\ faults' = faults + 1
  /\ work' = [work EXCEPT ![c] = {}]
  /\ step' = [step EXCEPT ![c] = "next"]
  /\ UNCHANGED <<rows, object, credential>>

-----------------------------------------------------------------------------
Cleaning(c) == \E f \in Files : MintDelete(c, f) \/ DeleteObject(c, f) \/ Finish(c, f)

Next ==
  \/ \E f \in Files :
       \/ \E r \in Files \union {NoFile} : Admit(f, r)
       \/ Renew(f)
       \/ CredentialEnds(f)
       \/ \E bytes \in Bytes : Put(f, bytes)
       \/ WindowEnds(f)
       \/ Inspect(f)
       \/ RecordInspection(f)
       \/ LoseInspection(f)
       \/ ClaimLapses(f)
  \/ \E value \in SUBSET Files : Save(value)
  \/ \E c \in Cleaners :
       \/ ClaimBatch(c)
       \/ \E f \in Files :
            \/ MintDelete(c, f)
            \/ DeleteObject(c, f)
            \/ DeleteFails(c, f)
            \/ Finish(c, f)
       \/ CleanerStops(c)

Spec == Init /\ [][Next]_vars

\* Clocks run, a completion ends, maintenance runs daily and goes through its
\* batch.  No user step is fair.
FairSpec ==
  /\ Spec
  /\ \A f \in Files :
       /\ SF_vars(WindowEnds(f))
       /\ WF_vars(CredentialEnds(f))
       /\ WF_vars(RecordInspection(f))
       /\ WF_vars(ClaimLapses(f))
  /\ \A c \in Cleaners : WF_vars(ClaimBatch(c)) /\ WF_vars(Cleaning(c))

-----------------------------------------------------------------------------
\* What the record's field names is active and still has the bytes that were
\* inspected, and a soft-deleted attachment keeps them too, as its recovery would
\* need them: no cleaner of abandoned uploads, however slow or repeated, deletes an
\* object of a file that was activated.
AttachedBytesKept ==
  /\ attached = Active
  /\ \A f \in Files :
       lifecycle[f] \in {"active", "soft_deleted"} => object[f] = "clean"

\* A file that was recorded as removed has left nothing: no object, and no
\* credential by which the browser could still put one there.
RemovedLeavesNothing ==
  \A f \in Files :
    lifecycle[f] = "removed" => object[f] = NoBytes /\ ~credential[f]

\* A replacement and the file it replaces are never attached together, though
\* several uploads may have been admitted to replace the same file.
NeverBesideItsReplacement ==
  \A f \in attached : replaces[f] \notin attached

\* An upload that maintenance claimed never comes back, whatever save or completion
\* was under way at that moment, and one that was removed stays so, whatever claim a
\* slow cleaner still works on.
GivenUpForGood ==
  [][\A f \in Files :
       /\ lifecycle[f] \in {"abandoned", "removed"} =>
            lifecycle'[f] \in {"abandoned", "removed"}
       /\ lifecycle[f] = "removed" => lifecycle'[f] = "removed"]_vars

\* Every admitted upload is activated or removed in the end: failed deletes, lost
\* answers and stopped cleaners leave no upload behind.
EveryUploadEnds ==
  \A f \in Files :
    lifecycle[f] # "none" ~> lifecycle[f] \in {"active", "soft_deleted", "removed"}

-----------------------------------------------------------------------------
\* The promise of AttachedFiles.  An upload on its way to a save is an offered
\* file whatever its step.  Nobody reads the bytes of a file that was not
\* activated or removed: there the cleaner has to have done its work.
StatusOf(f) ==
  CASE lifecycle[f] \in {"pending", "scanning", "quarantined"} -> "offered"
    [] lifecycle[f] = "active" -> "attached"
    [] lifecycle[f] = "soft_deleted" -> "retired"
    [] lifecycle[f] = "abandoned" -> "given up"
    [] lifecycle[f] = "removed" -> "gone"
    [] OTHER -> "none"

Settled(f) == lifecycle[f] \in {"active", "soft_deleted", "removed"}

Values == {value \in SUBSET Files : Cardinality(value) <= MaxAttached}

Promise == INSTANCE AttachedFiles WITH
  status <- [f \in Files |-> StatusOf(f)],
  content <- [f \in Files |-> IF Settled(f) THEN object[f] ELSE NoBytes],
  value <- attached

\* The two stores without a common transaction do what the single store of
\* AttachedFiles does: whatever is lost, late or repeated between them, no save
\* and no cleanup is seen half done.
ImplementsPromise == Promise!Spec
=============================================================================
