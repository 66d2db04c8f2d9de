------------------------- MODULE FileUploadsProofs -------------------------
(***************************************************************************)
(* Theorems about FileUploads for every number of files, cleaners, claims   *)
(* and faults.                                                              *)
(*                                                                         *)
(* The argument: bytes are deleted only for files some cleaner has claimed  *)
(* (ClaimedGivenUp), a claimed file is past its window and was never active,*)
(* and past its window there is neither a credential (NoLateCredential) nor *)
(* a completion that could still bring the file back (LockedUnchanged).     *)
(***************************************************************************)
EXTENDS FileUploads, TLAPS, FiniteSetTheorems

GivenUp == {"abandoned", "removed"}

\* A file that was not admitted has nothing.
Fresh == \A f \in Files : lifecycle[f] = "none" => ~expired[f]
NoLateCredential == \A f \in Files : expired[f] => ~credential[f]
GivenUpExpired == \A f \in Files : lifecycle[f] \in GivenUp => expired[f]
\* The row lock keeps what the completion read.
LockedUnchanged ==
  \A f \in Files : Locked(f) => lifecycle[f] = "pending" /\ object[f] = inspecting[f]
\* From the clean verdict on, the bytes stay.
VettedClean ==
  \A f \in Files : lifecycle[f] \in {"scanning", "active", "soft_deleted"} => object[f] = "clean"
ClaimedGivenUp == \A c \in Cleaners : \A f \in work[c] : lifecycle[f] \in GivenUp
DeletedIsGone ==
  \A c \in Cleaners, f \in Files : step[c] = "deleted" /\ At(c, f) => object[f] = NoBytes
RemovedIsGone == \A f \in Files : lifecycle[f] = "removed" => object[f] = NoBytes
\* What an upload replaces was attached and is at most retired.
ReplacedWasActive ==
  \A f \in Files : replaces[f] # NoFile => lifecycle[replaces[f]] \in {"active", "soft_deleted"}

IInv ==
  /\ TypeOK
  /\ attached = Active
  /\ Fresh /\ NoLateCredential /\ GivenUpExpired
  /\ LockedUnchanged /\ VettedClean
  /\ ClaimedGivenUp /\ DeletedIsGone /\ RemovedIsGone
  /\ ReplacedWasActive /\ NeverBesideItsReplacement

LEMMA InitInv == Init => IInv
<1> SUFFICES ASSUME Init PROVE IInv
  OBVIOUS
<1>1. TypeOK
  BY FileUploadsAssumption DEF Init, TypeOK, Lifecycles, Bytes, NoBytes, Steps
<1>2. attached = Active /\ NeverBesideItsReplacement
  BY DEF Init, Active, NeverBesideItsReplacement
<1>3. Fresh /\ NoLateCredential /\ GivenUpExpired /\ LockedUnchanged /\ VettedClean
  BY DEF Init, Fresh, NoLateCredential, GivenUpExpired, GivenUp, LockedUnchanged, Locked,
         VettedClean
<1>4. ClaimedGivenUp /\ DeletedIsGone /\ RemovedIsGone /\ ReplacedWasActive
  BY DEF Init, ClaimedGivenUp, DeletedIsGone, RemovedIsGone, ReplacedWasActive, NoBytes
<1> QED
  BY <1>1, <1>2, <1>3, <1>4 DEF IInv

-----------------------------------------------------------------------------
(* Admission, transfer and completion.                                      *)

LEMMA AdmitStep ==
  ASSUME IInv, NEW f \in Files, NEW r \in Files \union {NoFile}, Admit(f, r) PROVE IInv'
<1> USE DEF IInv
<1>1. /\ lifecycle[f] = "none"
      /\ lifecycle' = [lifecycle EXCEPT ![f] = "pending"]
      /\ replaces' = [replaces EXCEPT ![f] = r] /\ r \in Active \union {NoFile}
      /\ UNCHANGED <<object, expired, inspecting, attached, claimant, claimLive,
                     work, step, faults>>
  BY DEF Admit
<1>2. PICK received \in BOOLEAN : credential' = [credential EXCEPT ![f] = received]
  BY DEF Admit
<1>3. TypeOK'
  BY <1>1, <1>2 DEF TypeOK, Lifecycles
<1>4. Active' = Active /\ f \notin Active
  BY <1>1 DEF Active, TypeOK
<1>5. Fresh' /\ NoLateCredential' /\ GivenUpExpired'
  BY <1>1, <1>2 DEF Fresh, NoLateCredential, GivenUpExpired, GivenUp, TypeOK
<1>6. LockedUnchanged' /\ VettedClean'
  BY <1>1 DEF LockedUnchanged, Locked, VettedClean, TypeOK
<1>7. ClaimedGivenUp' /\ DeletedIsGone' /\ RemovedIsGone'
  BY <1>1 DEF ClaimedGivenUp, DeletedIsGone, At, RemovedIsGone, GivenUp, TypeOK
<1>8. ReplacedWasActive'
  <2>1. ASSUME NEW g \in Files, replaces'[g] # NoFile
        PROVE  lifecycle'[replaces'[g]] \in {"active", "soft_deleted"}
    <3>1. CASE g = f
      BY <1>1, <1>4, <2>1, <3>1 DEF Active, TypeOK
    <3>2. CASE g # f
      BY <1>1, <2>1, <3>2 DEF ReplacedWasActive, TypeOK
    <3> QED
      BY <3>1, <3>2
  <2> QED
    BY <2>1 DEF ReplacedWasActive
<1>9. NeverBesideItsReplacement'
  BY <1>1, <1>4 DEF NeverBesideItsReplacement, TypeOK
<1> QED
  BY <1>1, <1>3, <1>4, <1>5, <1>6, <1>7, <1>8, <1>9

\* Only credentials change.
LEMMA CredentialStep ==
  ASSUME IInv, NEW f \in Files, Renew(f) \/ CredentialEnds(f) PROVE IInv'
<1> USE DEF IInv
<1>1. UNCHANGED <<rows, object, work, step, faults>>
  BY DEF Renew, CredentialEnds
<1>2. TypeOK' /\ NoLateCredential'
  BY <1>1 DEF Renew, CredentialEnds, TypeOK, NoLateCredential, rows
<1>3. Active' = Active
  BY <1>1 DEF Active, rows
<1>4. Fresh' /\ GivenUpExpired' /\ LockedUnchanged' /\ VettedClean'
  BY <1>1 DEF Fresh, GivenUpExpired, LockedUnchanged, Locked, VettedClean, rows
<1>5. ClaimedGivenUp' /\ DeletedIsGone' /\ RemovedIsGone' /\ ReplacedWasActive'
  BY <1>1 DEF ClaimedGivenUp, DeletedIsGone, At, RemovedIsGone, ReplacedWasActive, rows
<1> QED
  BY <1>1, <1>2, <1>3, <1>4, <1>5 DEF NeverBesideItsReplacement, rows

\* The browser writes only where nothing is, and never for a file whose window
\* has ended.
LEMMA PutStep ==
  ASSUME IInv, NEW f \in Files, NEW bytes \in Bytes, Put(f, bytes) PROVE IInv'
<1> USE DEF IInv
<1>1. /\ credential[f] /\ object[f] = NoBytes
      /\ object' = [object EXCEPT ![f] = bytes]
      /\ UNCHANGED <<rows, credential, work, step, faults>>
  BY DEF Put
<1>2. ~expired[f] /\ lifecycle[f] \notin GivenUp
  BY <1>1 DEF NoLateCredential, GivenUpExpired
<1>3. TypeOK'
  BY <1>1 DEF TypeOK, rows
<1>4. Active' = Active /\ Fresh' /\ NoLateCredential' /\ GivenUpExpired'
  BY <1>1 DEF Active, Fresh, NoLateCredential, GivenUpExpired, rows
<1>5. LockedUnchanged' /\ VettedClean'
  BY <1>1 DEF LockedUnchanged, Locked, VettedClean, rows, NoBytes, TypeOK
<1>6. ClaimedGivenUp' /\ ReplacedWasActive'
  BY <1>1 DEF ClaimedGivenUp, ReplacedWasActive, rows
<1>7. DeletedIsGone' /\ RemovedIsGone'
  BY <1>1, <1>2 DEF DeletedIsGone, At, RemovedIsGone, ClaimedGivenUp, GivenUp, rows, TypeOK
<1> QED
  BY <1>1, <1>3, <1>4, <1>5, <1>6, <1>7 DEF NeverBesideItsReplacement, rows

LEMMA WindowStep == ASSUME IInv, NEW f \in Files, WindowEnds(f) PROVE IInv'
<1> USE DEF IInv
<1>1. /\ lifecycle[f] # "none" /\ ~credential[f]
      /\ expired' = [expired EXCEPT ![f] = TRUE]
      /\ UNCHANGED <<lifecycle, object, credential, replaces, inspecting, attached,
                     claimant, claimLive, work, step, faults>>
  BY DEF WindowEnds
<1>2. TypeOK' /\ Fresh' /\ NoLateCredential' /\ GivenUpExpired'
  BY <1>1 DEF TypeOK, Fresh, NoLateCredential, GivenUpExpired
<1>3. Active' = Active /\ LockedUnchanged' /\ VettedClean'
  BY <1>1 DEF Active, LockedUnchanged, Locked, VettedClean
<1>4. ClaimedGivenUp' /\ DeletedIsGone' /\ RemovedIsGone' /\ ReplacedWasActive'
  BY <1>1 DEF ClaimedGivenUp, DeletedIsGone, At, RemovedIsGone, ReplacedWasActive
<1> QED
  BY <1>1, <1>2, <1>3, <1>4 DEF NeverBesideItsReplacement

\* A completion: the verdict is on the bytes that are there.
LEMMA CompletionStep ==
  ASSUME IInv, NEW f \in Files, Inspect(f) \/ RecordInspection(f) \/ LoseInspection(f)
  PROVE  IInv'
<1> USE DEF IInv
<1>1. UNCHANGED <<object, credential, expired, replaces, attached, claimant, claimLive,
                  work, step, faults>>
  BY DEF Inspect, RecordInspection, LoseInspection
<1>2. lifecycle[f] = "pending"
  BY DEF Inspect, RecordInspection, LoseInspection, LockedUnchanged
<1>3. /\ lifecycle' = lifecycle \/ inspecting' = [inspecting EXCEPT ![f] = NoBytes]
      /\ inspecting' = [inspecting EXCEPT ![f] = NoBytes]
           \/ inspecting' = [inspecting EXCEPT ![f] = object[f]]
      /\ \E l \in {"pending", "scanning", "quarantined"} :
           /\ lifecycle' = [lifecycle EXCEPT ![f] = l]
           /\ l = "scanning" => object[f] = "clean"
  <2>1. CASE Inspect(f) \/ LoseInspection(f)
    <3>1. lifecycle' = [lifecycle EXCEPT ![f] = "pending"]
      BY <1>2, <2>1 DEF Inspect, LoseInspection, TypeOK
    <3> QED
      BY <2>1, <3>1 DEF Inspect, LoseInspection
  <2>2. CASE RecordInspection(f)
    <3>1. object[f] = inspecting[f]
      BY <2>2 DEF RecordInspection, LockedUnchanged
    <3> QED
      BY <1>2, <2>2, <3>1 DEF RecordInspection, TypeOK
  <2> QED
    BY <2>1, <2>2
<1>4. PICK l \in {"pending", "scanning", "quarantined"} :
        /\ lifecycle' = [lifecycle EXCEPT ![f] = l]
        /\ l = "scanning" => object[f] = "clean"
  BY <1>3
<1>5. TypeOK'
  BY <1>1, <1>3, <1>4 DEF TypeOK, Lifecycles
<1>6. Active' = Active
  BY <1>2, <1>4 DEF Active, TypeOK
<1>7. Fresh' /\ NoLateCredential' /\ GivenUpExpired'
  BY <1>1, <1>2, <1>4 DEF Fresh, NoLateCredential, GivenUpExpired, GivenUp, TypeOK
<1>8. LockedUnchanged'
  <2>1. Locked(f)' => lifecycle'[f] = "pending"
    BY <1>2, <1>3, <1>4 DEF Locked, TypeOK
  <2> QED
    BY <1>1, <1>3, <1>4, <2>1 DEF LockedUnchanged, Locked, TypeOK
<1>9. VettedClean'
  BY <1>1, <1>2, <1>4 DEF VettedClean, TypeOK
<1>10. ClaimedGivenUp' /\ DeletedIsGone' /\ RemovedIsGone'
  BY <1>1, <1>2, <1>4 DEF ClaimedGivenUp, DeletedIsGone, At, RemovedIsGone, GivenUp, TypeOK
<1>11. ReplacedWasActive'
  BY <1>1, <1>2, <1>4 DEF ReplacedWasActive, TypeOK
<1> QED
  BY <1>1, <1>5, <1>6, <1>7, <1>8, <1>9, <1>10, <1>11 DEF NeverBesideItsReplacement

-----------------------------------------------------------------------------
(* The record save.                                                         *)

LEMMA SaveStep == ASSUME IInv, NEW value \in SUBSET Files, Save(value) PROVE IInv'
<1> USE DEF IInv
<1>1. /\ attached' = value
      /\ \A f \in value : Attachable(f, value)
      /\ lifecycle' = [f \in Files |-> CASE f \in value -> "active"
                                         [] f \in Active \ value -> "soft_deleted"
                                         [] OTHER -> lifecycle[f]]
      /\ UNCHANGED <<object, credential, expired, replaces, inspecting, claimant,
                     claimLive, work, step, faults>>
  BY DEF Save
<1>2. \A f \in value : lifecycle'[f] = "active"
  BY <1>1
<1>3. \A f \in Active \ value : lifecycle'[f] = "soft_deleted"
  BY <1>1 DEF Active
<1>4. \A f \in Files : f \notin value /\ f \notin Active => lifecycle'[f] = lifecycle[f]
  BY <1>1
<1>5. \A f \in value : lifecycle[f] \in {"active", "scanning"} /\ ~Locked(f)
  BY <1>1 DEF Attachable, LockedUnchanged
<1>6. \A f \in Active : lifecycle[f] = "active"
  BY DEF Active
<1>7. TypeOK'
  <2>1. \A f \in Files : lifecycle'[f] \in Lifecycles
    BY <1>2, <1>3, <1>4 DEF TypeOK, Lifecycles
  <2>2. lifecycle' \in [Files -> Lifecycles]
    BY <1>1, <2>1
  <2> QED
    BY <1>1, <2>2 DEF TypeOK
<1>8. attached' = Active'
  BY <1>1, <1>2, <1>3, <1>4 DEF Active
<1>9. \A f \in Files : lifecycle'[f] \notin {"active", "soft_deleted"} => lifecycle'[f] = lifecycle[f]
  BY <1>2, <1>3, <1>4
<1>10. \A f \in Files : lifecycle[f] \in {"none", "pending", "quarantined"} \union GivenUp
                          => lifecycle'[f] = lifecycle[f]
  BY <1>4, <1>5, <1>6 DEF GivenUp
<1>11. \A f \in Files : lifecycle[f] \in {"active", "soft_deleted"}
                          => lifecycle'[f] \in {"active", "soft_deleted"}
  BY <1>2, <1>3, <1>4
<1>12. Fresh' /\ NoLateCredential' /\ GivenUpExpired'
  BY <1>1, <1>9 DEF Fresh, NoLateCredential, GivenUpExpired, GivenUp
<1>13. LockedUnchanged'
  BY <1>1, <1>10 DEF LockedUnchanged, Locked
<1>14. VettedClean'
  BY <1>1, <1>3, <1>4, <1>5, <1>6 DEF VettedClean
<1>15. ClaimedGivenUp' /\ DeletedIsGone' /\ RemovedIsGone'
  BY <1>1, <1>9, <1>10 DEF ClaimedGivenUp, DeletedIsGone, At, RemovedIsGone, GivenUp, TypeOK
<1>16. ReplacedWasActive'
  BY <1>1, <1>11, FileUploadsAssumption DEF ReplacedWasActive, TypeOK
<1>17. NeverBesideItsReplacement'
  <2> SUFFICES ASSUME NEW f \in value, replaces[f] \in value PROVE FALSE
    BY <1>1 DEF NeverBesideItsReplacement
  <2>1. replaces[f] # NoFile
    BY FileUploadsAssumption
  <2>2. lifecycle[replaces[f]] \in {"active", "soft_deleted"}
    BY <2>1 DEF ReplacedWasActive
  <2>3. replaces[f] \in attached
    BY <1>5, <2>2 DEF Active
  <2>4. CASE f \in attached
    BY <2>3, <2>4 DEF NeverBesideItsReplacement
  <2>5. CASE f \notin attached
    BY <1>1, <2>1, <2>5 DEF Attachable
  <2> QED
    BY <2>4, <2>5
<1> QED
  BY <1>7, <1>8, <1>12, <1>13, <1>14, <1>15, <1>16, <1>17

-----------------------------------------------------------------------------
(* Upload cleanup.                                                          *)

LEMMA ClaimStep == ASSUME IInv, NEW c \in Cleaners, ClaimBatch(c) PROVE IInv'
<1> USE DEF IInv
<1>1. PICK batch \in SUBSET Claimable :
        /\ work' = [work EXCEPT ![c] = batch]
        /\ lifecycle' = [f \in Files |-> IF f \in batch THEN "abandoned" ELSE lifecycle[f]]
        /\ claimant' = [f \in Files |-> IF f \in batch THEN c ELSE claimant[f]]
        /\ claimLive' = [f \in Files |-> f \in batch \/ claimLive[f]]
  BY DEF ClaimBatch
<1>2. /\ step' = [step EXCEPT ![c] = "next"]
      /\ UNCHANGED <<object, credential, expired, replaces, inspecting, attached, faults>>
  BY DEF ClaimBatch
<1>3. \A f \in batch : /\ f \in Files /\ expired[f] /\ ~Locked(f)
                       /\ lifecycle[f] \in {"pending", "scanning", "quarantined", "abandoned"}
  BY DEF Claimable
<1>4. TypeOK'
  BY <1>1, <1>2, <1>3 DEF TypeOK, Lifecycles, Steps
<1>5. Active' = Active
  BY <1>1, <1>3 DEF Active
<1>6. Fresh' /\ NoLateCredential' /\ GivenUpExpired'
  BY <1>1, <1>2, <1>3 DEF Fresh, NoLateCredential, GivenUpExpired, GivenUp
<1>7. LockedUnchanged' /\ VettedClean'
  BY <1>1, <1>2, <1>3 DEF LockedUnchanged, Locked, VettedClean
<1>8. ClaimedGivenUp'
  <2>1. ASSUME NEW d \in Cleaners, NEW f \in work'[d] PROVE lifecycle'[f] \in GivenUp
    <3>1. CASE d = c
      BY <1>1, <1>3, <2>1, <3>1 DEF GivenUp, TypeOK
    <3>2. CASE d # c
      BY <1>1, <2>1, <3>2 DEF ClaimedGivenUp, GivenUp, TypeOK
    <3> QED
      BY <3>1, <3>2
  <2> QED
    BY <2>1 DEF ClaimedGivenUp
<1>9. DeletedIsGone'
  BY <1>1, <1>2 DEF DeletedIsGone, At, TypeOK
<1>10. RemovedIsGone'
  BY <1>1, <1>2 DEF RemovedIsGone
<1>11. ReplacedWasActive'
  BY <1>1, <1>2, <1>3 DEF ReplacedWasActive, TypeOK
<1> QED
  BY <1>2, <1>4, <1>5, <1>6, <1>7, <1>8, <1>9, <1>10, <1>11 DEF NeverBesideItsReplacement

LEMMA LapseStep == ASSUME IInv, NEW f \in Files, ClaimLapses(f) PROVE IInv'
<1> USE DEF IInv
<1>1. /\ claimLive' = [claimLive EXCEPT ![f] = FALSE]
      /\ UNCHANGED <<lifecycle, object, credential, expired, replaces, inspecting,
                     attached, claimant, work, step>>
      /\ faults' = faults \/ (faults < MaxFaults /\ faults' = faults + 1)
  BY DEF ClaimLapses
<1>2. TypeOK'
  BY <1>1, FileUploadsAssumption DEF TypeOK
<1>3. Active' = Active /\ Fresh' /\ NoLateCredential' /\ GivenUpExpired' /\ LockedUnchanged' /\ VettedClean'
  BY <1>1 DEF Active, Fresh, NoLateCredential, GivenUpExpired, LockedUnchanged, Locked, VettedClean
<1>4. ClaimedGivenUp' /\ DeletedIsGone' /\ RemovedIsGone' /\ ReplacedWasActive'
  BY <1>1 DEF ClaimedGivenUp, DeletedIsGone, At, RemovedIsGone, ReplacedWasActive
<1> QED
  BY <1>1, <1>2, <1>3, <1>4 DEF NeverBesideItsReplacement

\* A cleaner goes on, keeps the row as it is, and at most loses an object of a
\* file it had claimed.
LEMMA CleanerStep ==
  ASSUME IInv, NEW c \in Cleaners,
         UNCHANGED <<rows, credential>>,
         faults' \in 0 .. MaxFaults,
         NEW left \in SUBSET work[c], work' = [work EXCEPT ![c] = left],
         NEW s \in Steps, step' = [step EXCEPT ![c] = s],
         object' = object \/ \E f \in work[c] : object' = [object EXCEPT ![f] = NoBytes],
         s = "deleted" => \A f \in left : (\A g \in left : f <= g) => object'[f] = NoBytes
  PROVE  IInv'
<1> USE DEF IInv
<1>1. \A f \in Files : object'[f] \in {object[f], NoBytes}
  BY DEF TypeOK
<1>2. \A f \in Files : lifecycle[f] \notin GivenUp => object'[f] = object[f]
  BY DEF TypeOK, ClaimedGivenUp
<1>3. TypeOK'
  BY DEF TypeOK, rows
<1>4. Active' = Active /\ Fresh' /\ NoLateCredential' /\ GivenUpExpired'
  BY DEF Active, Fresh, NoLateCredential, GivenUpExpired, rows
<1>5. LockedUnchanged' /\ VettedClean'
  BY <1>2 DEF LockedUnchanged, Locked, VettedClean, GivenUp, rows
<1>6. ClaimedGivenUp' /\ RemovedIsGone' /\ ReplacedWasActive'
  BY <1>1 DEF ClaimedGivenUp, RemovedIsGone, ReplacedWasActive, rows, TypeOK
<1>7. DeletedIsGone'
  <2>1. ASSUME NEW d \in Cleaners, NEW f \in Files, step'[d] = "deleted", At(d, f)'
        PROVE  object'[f] = NoBytes
    <3>1. CASE d = c
      BY <2>1, <3>1 DEF At, TypeOK
    <3>2. CASE d # c
      BY <1>1, <2>1, <3>2 DEF At, DeletedIsGone, TypeOK
    <3> QED
      BY <3>1, <3>2
  <2> QED
    BY <2>1 DEF DeletedIsGone
<1> QED
  BY <1>3, <1>4, <1>5, <1>6, <1>7 DEF NeverBesideItsReplacement, rows

LEMMA MintStep == ASSUME IInv, NEW c \in Cleaners, NEW f \in Files, MintDelete(c, f) PROVE IInv'
<1>1. UNCHANGED <<rows, credential>> /\ object' = object /\ faults' \in 0 .. MaxFaults
  BY DEF MintDelete, IInv, TypeOK
<1>2. work[c] \in SUBSET work[c] /\ work[c] \ {f} \in SUBSET work[c]
  OBVIOUS
<1>3. CASE claimant[f] = c /\ claimLive[f]
  <2>1. work' = [work EXCEPT ![c] = work[c]] /\ step' = [step EXCEPT ![c] = "minted"]
    BY <1>3 DEF MintDelete, IInv, TypeOK
  <2> QED
    BY <1>1, <1>2, <2>1, CleanerStep DEF Steps
<1>4. CASE ~(claimant[f] = c /\ claimLive[f])
  <2>1. work' = [work EXCEPT ![c] = work[c] \ {f}] /\ step' = [step EXCEPT ![c] = "next"]
    BY <1>4 DEF MintDelete, Done
  <2> QED
    BY <1>1, <1>2, <2>1, CleanerStep DEF Steps
<1> QED
  BY <1>3, <1>4

LEMMA DeleteStep ==
  ASSUME IInv, NEW c \in Cleaners, NEW f \in Files, DeleteObject(c, f) PROVE IInv'
<1>1. /\ UNCHANGED <<rows, credential>> /\ faults' \in 0 .. MaxFaults
      /\ f \in work[c] /\ object' = [object EXCEPT ![f] = NoBytes]
      /\ step' = [step EXCEPT ![c] = "deleted"]
  BY DEF DeleteObject, At, IInv, TypeOK
<1>2. work' = [work EXCEPT ![c] = work[c]]
  BY DEF DeleteObject, IInv, TypeOK
<1>3. \A g \in work[c] : (\A h \in work[c] : g <= h) => object'[g] = NoBytes
  BY <1>1 DEF DeleteObject, At, IInv, TypeOK, Files
<1> QED
  BY <1>1, <1>2, <1>3, CleanerStep DEF Steps

LEMMA DeleteFailsStep ==
  ASSUME IInv, NEW c \in Cleaners, NEW f \in Files, DeleteFails(c, f) PROVE IInv'
<1>1. /\ UNCHANGED <<rows, credential>> /\ f \in work[c]
      /\ object' = object \/ object' = [object EXCEPT ![f] = NoBytes]
      /\ work' = [work EXCEPT ![c] = work[c] \ {f}]
      /\ step' = [step EXCEPT ![c] = "next"]
  BY DEF DeleteFails, Done, At
<1>2. faults' \in 0 .. MaxFaults
  BY FileUploadsAssumption DEF DeleteFails, IInv, TypeOK
<1> QED
  BY <1>1, <1>2, CleanerStep DEF Steps

LEMMA StopStep == ASSUME IInv, NEW c \in Cleaners, CleanerStops(c) PROVE IInv'
<1>1. /\ UNCHANGED <<rows, credential>> /\ object' = object
      /\ work' = [work EXCEPT ![c] = {}] /\ step' = [step EXCEPT ![c] = "next"]
  BY DEF CleanerStops
<1>2. faults' \in 0 .. MaxFaults
  BY FileUploadsAssumption DEF CleanerStops, IInv, TypeOK
<1> QED
  BY <1>1, <1>2, CleanerStep DEF Steps

\* The row is removed last, when the object is gone.
LEMMA FinishStep == ASSUME IInv, NEW c \in Cleaners, NEW f \in Files, Finish(c, f) PROVE IInv'
<1> USE DEF IInv
<1>1. /\ At(c, f) /\ step[c] = "deleted"
      /\ UNCHANGED <<object, credential, expired, replaces, inspecting, attached,
                     claimant, claimLive, faults>>
      /\ work' = [work EXCEPT ![c] = work[c] \ {f}]
      /\ step' = [step EXCEPT ![c] = "next"]
      /\ \/ lifecycle' = lifecycle
         \/ lifecycle[f] = "abandoned" /\ lifecycle' = [lifecycle EXCEPT ![f] = "removed"]
  BY DEF Finish, Done
<1>2. object[f] = NoBytes
  BY <1>1 DEF DeletedIsGone
<1>3. TypeOK'
  BY <1>1 DEF TypeOK, Lifecycles, Steps
<1>4. Active' = Active
  BY <1>1 DEF Active, TypeOK
<1>5. Fresh' /\ NoLateCredential' /\ GivenUpExpired'
  BY <1>1 DEF Fresh, NoLateCredential, GivenUpExpired, GivenUp, TypeOK
<1>6. LockedUnchanged' /\ VettedClean'
  BY <1>1 DEF LockedUnchanged, Locked, VettedClean, TypeOK
<1>7. ClaimedGivenUp'
  BY <1>1 DEF ClaimedGivenUp, GivenUp, TypeOK
<1>8. DeletedIsGone'
  BY <1>1 DEF DeletedIsGone, At, TypeOK
<1>9. RemovedIsGone'
  BY <1>1, <1>2 DEF RemovedIsGone, TypeOK
<1>10. ReplacedWasActive'
  BY <1>1 DEF ReplacedWasActive, TypeOK
<1> QED
  BY <1>1, <1>3, <1>4, <1>5, <1>6, <1>7, <1>8, <1>9, <1>10 DEF NeverBesideItsReplacement

-----------------------------------------------------------------------------
LEMMA NextInv == IInv /\ [Next]_vars => IInv'
<1> SUFFICES ASSUME IInv, [Next]_vars PROVE IInv'
  OBVIOUS
<1>1. CASE UNCHANGED vars
  BY <1>1 DEF vars, rows, IInv, TypeOK, Fresh, NoLateCredential, GivenUpExpired,
              LockedUnchanged, Locked, VettedClean, ClaimedGivenUp, DeletedIsGone, At,
              RemovedIsGone, ReplacedWasActive, NeverBesideItsReplacement, Active
<1>2. ASSUME NEW f \in Files, NEW r \in Files \union {NoFile}, Admit(f, r) PROVE IInv'
  BY <1>2, AdmitStep
<1>3. ASSUME NEW f \in Files, Renew(f) \/ CredentialEnds(f) \/ WindowEnds(f) PROVE IInv'
  BY <1>3, CredentialStep, WindowStep
<1>4. ASSUME NEW f \in Files, NEW bytes \in Bytes, Put(f, bytes) PROVE IInv'
  BY <1>4, PutStep
<1>5. ASSUME NEW f \in Files, Inspect(f) \/ RecordInspection(f) \/ LoseInspection(f) PROVE IInv'
  BY <1>5, CompletionStep
<1>6. ASSUME NEW f \in Files, ClaimLapses(f) PROVE IInv'
  BY <1>6, LapseStep
<1>7. ASSUME NEW value \in SUBSET Files, Save(value) PROVE IInv'
  BY <1>7, SaveStep
<1>8. ASSUME NEW c \in Cleaners, ClaimBatch(c) \/ CleanerStops(c) PROVE IInv'
  BY <1>8, ClaimStep, StopStep
<1>9. ASSUME NEW c \in Cleaners, NEW f \in Files,
             MintDelete(c, f) \/ DeleteObject(c, f) \/ DeleteFails(c, f) \/ Finish(c, f)
      PROVE  IInv'
  BY <1>9, MintStep, DeleteStep, DeleteFailsStep, FinishStep
<1> QED
  BY <1>1, <1>2, <1>3, <1>4, <1>5, <1>6, <1>7, <1>8, <1>9 DEF Next

THEOREM Invariance == Spec => []IInv
  BY InitInv, NextInv, PTL DEF Spec

-----------------------------------------------------------------------------
(* The properties.                                                          *)

\* Rows, objects, claims and cleaners keep their types.
THEOREM TypeCorrect == Spec => []TypeOK
<1>1. IInv => TypeOK
  BY DEF IInv
<1> QED
  BY <1>1, Invariance, PTL

\* No cleaner deletes the bytes of a file that was activated, and the record names
\* the active files.
THEOREM BytesOfAttachedFilesKept == Spec => []AttachedBytesKept
<1>1. IInv => AttachedBytesKept
  BY DEF IInv, VettedClean, AttachedBytesKept
<1> QED
  BY <1>1, Invariance, PTL

\* A removed file has neither an object nor a credential to make one.
THEOREM RemovedFilesLeaveNothing == Spec => []RemovedLeavesNothing
<1>1. IInv => RemovedLeavesNothing
  BY DEF IInv, RemovedIsGone, GivenUpExpired, GivenUp, NoLateCredential, RemovedLeavesNothing
<1> QED
  BY <1>1, Invariance, PTL

\* A file and its replacement are never attached together.
THEOREM ReplacementsReplace == Spec => []NeverBesideItsReplacement
<1>1. IInv => NeverBesideItsReplacement
  BY DEF IInv
<1> QED
  BY <1>1, Invariance, PTL

\* One step leaves what was given up given up, and what was removed removed.
LEMMA GivenUpStep ==
  ASSUME IInv, [Next]_vars, NEW f \in Files
  PROVE  /\ lifecycle[f] \in GivenUp => lifecycle'[f] \in GivenUp
         /\ lifecycle[f] = "removed" => lifecycle'[f] = "removed"
<1> DEFINE G == /\ lifecycle[f] \in GivenUp => lifecycle'[f] \in GivenUp
                /\ lifecycle[f] = "removed" => lifecycle'[f] = "removed"
<1> USE DEF IInv, GivenUp
<1>1. ASSUME lifecycle' = lifecycle PROVE G
  BY <1>1
<1>2. ASSUME NEW g \in Files, NEW r \in Files \union {NoFile}, Admit(g, r) PROVE G
  BY <1>2 DEF Admit, TypeOK
<1>3. ASSUME NEW g \in Files, Renew(g) \/ CredentialEnds(g) PROVE G
  BY <1>1, <1>3 DEF Renew, CredentialEnds, rows
<1>4. ASSUME NEW g \in Files, NEW bytes \in Bytes, Put(g, bytes) PROVE G
  BY <1>1, <1>4 DEF Put, rows
<1>5. ASSUME NEW g \in Files, WindowEnds(g) \/ Inspect(g) \/ LoseInspection(g) \/ ClaimLapses(g) PROVE G
  BY <1>1, <1>5 DEF WindowEnds, Inspect, LoseInspection, ClaimLapses
<1>6. ASSUME NEW g \in Files, RecordInspection(g) PROVE G
  <2>1. lifecycle[g] = "pending"
    BY <1>6 DEF RecordInspection, LockedUnchanged
  <2> QED
    BY <1>6, <2>1 DEF RecordInspection, TypeOK
<1>7. ASSUME NEW value \in SUBSET Files, Save(value) PROVE G
  <2>1. lifecycle[f] \in GivenUp => f \notin value /\ f \notin Active
    BY <1>7 DEF Save, Attachable, Active
  <2>2. f \notin value /\ f \notin Active => lifecycle'[f] = lifecycle[f]
    BY <1>7 DEF Save
  <2> QED
    BY <2>1, <2>2
<1>8. ASSUME NEW c \in Cleaners, ClaimBatch(c) PROVE G
  BY <1>8 DEF ClaimBatch, Claimable
<1>9. ASSUME NEW c \in Cleaners, NEW g \in Files,
             MintDelete(c, g) \/ DeleteObject(c, g) \/ DeleteFails(c, g)
      PROVE  G
  BY <1>1, <1>9 DEF MintDelete, DeleteObject, DeleteFails, rows
<1>10. ASSUME NEW c \in Cleaners, NEW g \in Files, Finish(c, g) PROVE G
  BY <1>10 DEF Finish, TypeOK
<1>11. ASSUME NEW c \in Cleaners, CleanerStops(c) PROVE G
  BY <1>1, <1>11 DEF CleanerStops, rows
<1>12. CASE UNCHANGED vars
  BY <1>1, <1>12 DEF vars, rows
<1>13. G
  BY <1>2, <1>3, <1>4, <1>5, <1>6, <1>7, <1>8, <1>9, <1>10, <1>11, <1>12 DEF Next
<1> QED
  BY <1>13

\* An upload that maintenance claimed never comes back, and one that it removed
\* stays removed (claim_abandoned_file_uploads, attach_record_files_internal).
THEOREM GivenUpIsForGood == Spec => GivenUpForGood
<1> DEFINE Stays(f) == /\ lifecycle[f] \in {"abandoned", "removed"} =>
                            lifecycle'[f] \in {"abandoned", "removed"}
                       /\ lifecycle[f] = "removed" => lifecycle'[f] = "removed"
<1>1. IInv /\ [Next]_vars => [\A f \in Files : Stays(f)]_vars
  BY GivenUpStep DEF GivenUp
<1> QED
  BY <1>1, Invariance, PTL DEF Spec, GivenUpForGood
-----------------------------------------------------------------------------
(* The promise of AttachedFiles.                                            *)

Statuses == [f \in Files |-> StatusOf(f)]
Contents == [f \in Files |-> IF Settled(f) THEN object[f] ELSE NoBytes]

Hidden == UNCHANGED <<Statuses, Contents, replaces, attached>>

\* What a step leaves alone, and what one of its files can hide.
LEMMA StatusesKept ==
  ASSUME UNCHANGED lifecycle
  PROVE  UNCHANGED Statuses /\ \A f \in Files : Settled(f)' = Settled(f)
  BY DEF Statuses, StatusOf, Settled

LEMMA ContentsKept ==
  ASSUME \A f \in Files : Settled(f)' = Settled(f),
         \A f \in Files : Settled(f) => object'[f] = object[f]
  PROVE  UNCHANGED Contents
  BY DEF Contents

LEMMA NothingSeen ==
  ASSUME UNCHANGED <<lifecycle, object, replaces, attached>>
  PROVE  Hidden
  BY StatusesKept, ContentsKept DEF Hidden

\* Only a removed or an activated file is read, and its bytes are never touched.
LEMMA ObjectsHidden ==
  ASSUME NEW f \in Files, UNCHANGED <<lifecycle, replaces, attached>>,
         \A g \in Files : g # f => object'[g] = object[g],
         Settled(f) => object'[f] = object[f]
  PROVE  Hidden
<1>1. \A g \in Files : Settled(g) => object'[g] = object[g]
  OBVIOUS
<1> QED
  BY <1>1, StatusesKept, ContentsKept DEF Hidden

LEMMA AdmitKept ==
  ASSUME IInv, NEW f \in Files, NEW r \in Files \union {NoFile}, Admit(f, r)
  PROVE  Promise!Offer(f, r)
<1>1. lifecycle[f] = "none" /\ lifecycle' = [lifecycle EXCEPT ![f] = "pending"]
  BY DEF Admit
<1>2. lifecycle'[f] = "pending" /\ \A g \in Files : g # f => lifecycle'[g] = lifecycle[g]
  BY <1>1 DEF IInv, TypeOK
<1>3. Statuses[f] = "none" /\ Statuses' = [Statuses EXCEPT ![f] = "offered"]
  <2>1. StatusOf(f) = "none" /\ StatusOf(f)' = "offered"
    BY <1>1, <1>2 DEF StatusOf
  <2>2. \A g \in Files : g # f => StatusOf(g)' = StatusOf(g)
    BY <1>2 DEF StatusOf
  <2> QED
    BY <2>1, <2>2 DEF Statuses
<1>4. UNCHANGED Contents
  <2>1. \A g \in Files : Settled(g)' = Settled(g)
    BY <1>1, <1>2 DEF Settled
  <2> QED
    BY <2>1, ContentsKept DEF Admit
<1>5. (attached \ {r}) \union {f} \in Values
  <2>1. attached \subseteq Files /\ f \notin attached
    BY <1>1 DEF IInv, Active
  <2>2. IsFiniteSet(Files) /\ IsFiniteSet(attached \ {r})
    <3>1. IsFiniteSet(Files)
      <4>1. FileCount \in Int /\ 1 \in Int
        BY FileUploadsAssumption
      <4> QED
        BY <4>1, FS_Interval DEF Files
    <3>2. attached \ {r} \in SUBSET Files
      BY <2>1
    <3> QED
      BY <3>1, <3>2, FS_Subset
  <2>3. Cardinality((attached \ {r}) \union {f}) = Cardinality(attached \ {r}) + 1
    BY <2>1, <2>2, FS_AddElement
  <2>4. Cardinality(attached \ {r}) \in Nat /\ Cardinality(attached \ {r}) < MaxAttached
    BY <2>2, FS_CardinalityType DEF Admit, IInv
  <2> QED
    BY <2>1, <2>3, <2>4, FileUploadsAssumption DEF Values
<1> QED
  BY <1>3, <1>4, <1>5 DEF Admit, IInv, Promise!Offer, Statuses, Contents

LEMMA PutKept ==
  ASSUME IInv, NEW f \in Files, NEW bytes \in Bytes, Put(f, bytes)
  PROVE  Hidden
<1>1. ~Settled(f)
  <2>1. lifecycle[f] # "removed"
    BY DEF Put, IInv, NoLateCredential, GivenUpExpired, GivenUp
  <2>2. lifecycle[f] \notin {"active", "soft_deleted"}
    BY DEF Put, IInv, VettedClean, NoBytes
  <2> QED
    BY <2>1, <2>2 DEF Settled
<1>2. \A g \in Files : g # f => object'[g] = object[g]
  BY DEF Put, IInv, TypeOK
<1> QED
  BY <1>1, <1>2, ObjectsHidden DEF Put, rows

LEMMA InspectionKept ==
  ASSUME IInv, NEW f \in Files, RecordInspection(f)
  PROVE  Hidden
<1>1. lifecycle[f] = "pending"
  BY DEF RecordInspection, IInv, LockedUnchanged
<1>2. /\ lifecycle'[f] \in {"pending", "scanning", "quarantined"}
      /\ \A g \in Files : g # f => lifecycle'[g] = lifecycle[g]
  BY <1>1 DEF RecordInspection, IInv, TypeOK
<1>3. UNCHANGED Statuses /\ \A g \in Files : Settled(g)' = Settled(g)
  <2>1. \A g \in Files : StatusOf(g)' = StatusOf(g)
    BY <1>1, <1>2 DEF StatusOf
  <2> QED
    BY <1>1, <1>2, <2>1 DEF Statuses, Settled
<1> QED
  BY <1>3, ContentsKept DEF RecordInspection, Hidden

LEMMA SaveKept ==
  ASSUME IInv, NEW value \in SUBSET Files, Save(value)
  PROVE  value \in Values /\ Promise!Change(value)
<1>1. \A f \in Files :
        lifecycle'[f] = IF f \in value THEN "active"
                        ELSE IF f \in attached THEN "soft_deleted" ELSE lifecycle[f]
  BY DEF Save, IInv
<1>2. \A f \in Files : f \in attached => lifecycle[f] = "active"
  BY DEF IInv, Active
<1>3. Statuses' = [f \in Files |->
        IF f \in value THEN "attached" ELSE IF f \in attached THEN "retired" ELSE Statuses[f]]
  <2>1. \A f \in Files : f \in value => StatusOf(f)' = "attached"
    BY <1>1 DEF StatusOf
  <2>2. \A f \in Files : f \in attached \ value => StatusOf(f)' = "retired"
    BY <1>1 DEF StatusOf
  <2>3. \A f \in Files : f \notin attached \union value => StatusOf(f)' = StatusOf(f)
    BY <1>1 DEF StatusOf
  <2> QED
    BY <2>1, <2>2, <2>3 DEF Statuses
<1>4. Contents' = [f \in Files |-> IF f \in value THEN "clean" ELSE Contents[f]]
  <2>1. \A f \in value : object[f] = "clean"
    BY DEF Save, Attachable, IInv, VettedClean
  <2>2. \A f \in Files \ value : Settled(f)' = Settled(f)
    BY <1>1, <1>2 DEF Settled
  <2>3. \A f \in value : Settled(f)'
    BY <1>1 DEF Settled
  <2>4. UNCHANGED object
    BY DEF Save
  <2> QED
    BY <2>1, <2>2, <2>3, <2>4 DEF Contents
<1>5. \A f \in value \ attached :
        Statuses[f] = "offered" /\ (replaces[f] # NoFile => replaces[f] \in attached \ value)
  <2> SUFFICES ASSUME NEW f \in value \ attached
               PROVE  Statuses[f] = "offered"
                      /\ (replaces[f] # NoFile => replaces[f] \in attached \ value)
    OBVIOUS
  <2>1. /\ lifecycle[f] = "scanning"
        /\ replaces[f] # NoFile => replaces[f] \in Active /\ replaces[f] \notin value
    BY DEF Save, Attachable
  <2> QED
    BY <2>1 DEF Statuses, StatusOf, IInv
<1>6. value \in Values \ {attached}
  BY DEF Save, Values
<1> QED
  BY <1>3, <1>4, <1>5, <1>6 DEF Save, Promise!Change, Promise!MayEnter, Statuses, Contents

\* What a batch claims for the first time is given up.
LEMMA ClaimKept ==
  ASSUME IInv, NEW c \in Cleaners, ClaimBatch(c)
  PROVE  (\E files \in SUBSET Files : Promise!GiveUp(files)) \/ Hidden
<1>1. PICK batch \in SUBSET Claimable :
        lifecycle' = [f \in Files |-> IF f \in batch THEN "abandoned" ELSE lifecycle[f]]
  BY DEF ClaimBatch
<1>2. PICK files \in SUBSET Files : files = {f \in batch : lifecycle[f] # "abandoned"}
  BY DEF Claimable
<1>3. \A f \in batch : f \in Files /\ lifecycle[f] \in {"pending", "scanning", "quarantined", "abandoned"}
  BY DEF Claimable
<1>4. \A f \in files : Statuses[f] = "offered"
  BY <1>2, <1>3 DEF Statuses, StatusOf
<1>5. Statuses' = [f \in Files |-> IF f \in files THEN "given up" ELSE Statuses[f]]
  <2>1. \A f \in Files : f \in files => StatusOf(f)' = "given up"
    BY <1>1, <1>2 DEF StatusOf
  <2>2. \A f \in Files : f \notin files => StatusOf(f)' = StatusOf(f)
    BY <1>1, <1>2 DEF StatusOf
  <2> QED
    BY <2>1, <2>2 DEF Statuses
<1>6. UNCHANGED Contents
  <2>1. \A f \in Files : Settled(f)' = Settled(f)
    BY <1>1, <1>3 DEF Settled
  <2> QED
    BY <2>1, ContentsKept DEF ClaimBatch
<1>7. CASE files = {}
  <2>1. UNCHANGED Statuses
    BY <1>5, <1>7 DEF Statuses
  <2> QED
    BY <1>6, <2>1 DEF ClaimBatch, Hidden
<1>8. CASE files # {}
  BY <1>4, <1>5, <1>6, <1>8 DEF ClaimBatch, Promise!GiveUp, Statuses, Contents
<1> QED
  BY <1>7, <1>8

\* A cleaner deletes what was given up or is gone already.
LEMMA DeleteKept ==
  ASSUME IInv, NEW c \in Cleaners, NEW f \in Files, DeleteObject(c, f) \/ DeleteFails(c, f)
  PROVE  Hidden
<1>1. lifecycle[f] \in GivenUp
  BY DEF DeleteObject, DeleteFails, At, IInv, ClaimedGivenUp
<1>2. object' \in {object, [object EXCEPT ![f] = NoBytes]}
  BY DEF DeleteObject, DeleteFails
<1>3. Settled(f) => object'[f] = object[f]
  BY <1>1, <1>2 DEF Settled, GivenUp, IInv, RemovedIsGone, TypeOK
<1>4. \A g \in Files : g # f => object'[g] = object[g]
  BY <1>2 DEF IInv, TypeOK
<1> QED
  BY <1>3, <1>4, ObjectsHidden DEF DeleteObject, DeleteFails, rows

LEMMA FinishKept ==
  ASSUME IInv, NEW c \in Cleaners, NEW f \in Files, Finish(c, f)
  PROVE  Promise!Remove(f) \/ Hidden
<1>1. CASE UNCHANGED lifecycle
  BY <1>1, NothingSeen DEF Finish
<1>2. CASE lifecycle[f] = "abandoned" /\ lifecycle' = [lifecycle EXCEPT ![f] = "removed"]
  <2>1. lifecycle'[f] = "removed" /\ \A g \in Files : g # f => lifecycle'[g] = lifecycle[g]
    BY <1>2 DEF IInv, TypeOK
  <2>2. Statuses[f] = "given up" /\ Statuses' = [Statuses EXCEPT ![f] = "gone"]
    BY <1>2, <2>1 DEF Statuses, StatusOf
  <2>3. object[f] = NoBytes /\ UNCHANGED object
    BY DEF Finish, IInv, DeletedIsGone
  <2>4. UNCHANGED Contents
    BY <1>2, <2>1, <2>3 DEF Contents, Settled
  <2> QED
    BY <2>2, <2>4 DEF Finish, Promise!Remove, Statuses, Contents
<1> QED
  BY <1>1, <1>2 DEF Finish

LEMMA StepKept == IInv /\ [Next]_vars => Promise!Next \/ Hidden
<1> SUFFICES ASSUME IInv, [Next]_vars PROVE Promise!Next \/ Hidden
  OBVIOUS
<1>1. CASE UNCHANGED <<lifecycle, object, replaces, attached>>
  BY <1>1, NothingSeen
<1>2. CASE \E f \in Files, r \in Files \union {NoFile} : Admit(f, r)
  BY <1>2, AdmitKept DEF Promise!Next
<1>3. CASE \E f \in Files, bytes \in Bytes : Put(f, bytes)
  BY <1>3, PutKept
<1>4. CASE \E f \in Files : RecordInspection(f)
  BY <1>4, InspectionKept
<1>5. CASE \E value \in SUBSET Files : Save(value)
  BY <1>5, SaveKept DEF Promise!Next
<1>6. CASE \E c \in Cleaners : ClaimBatch(c)
  BY <1>6, ClaimKept DEF Promise!Next
<1>7. CASE \E c \in Cleaners, f \in Files : DeleteObject(c, f) \/ DeleteFails(c, f)
  BY <1>7, DeleteKept
<1>8. CASE \E c \in Cleaners, f \in Files : Finish(c, f)
  BY <1>8, FinishKept DEF Promise!Next
<1> QED
  BY <1>1, <1>2, <1>3, <1>4, <1>5, <1>6, <1>7, <1>8
  DEF Next, vars, rows, Renew, CredentialEnds, WindowEnds, Inspect, LoseInspection,
      ClaimLapses, MintDelete, CleanerStops

\* Rows and objects, which share no transaction, do together what the single
\* store of AttachedFiles does: a save attaches a file with its inspected bytes
\* and retires the one it replaces in the same step, and an upload that is
\* given up goes without a trace (attach_record_files_internal,
\* claim_abandoned_file_uploads, finish_abandoned_file_upload).
THEOREM FilesKeepPromise == Spec => ImplementsPromise
<1>1. Init => Promise!Init
  BY DEF Init, Promise!Init, StatusOf, Settled, NoBytes
<1>2. IInv /\ [Next]_vars => [Promise!Next]_<<Statuses, Contents, replaces, attached>>
  BY StepKept DEF Hidden
<1> QED
  BY <1>1, <1>2, Invariance, PTL
  DEF Spec, ImplementsPromise, Promise!Spec, Promise!vars, Statuses, Contents
=============================================================================
