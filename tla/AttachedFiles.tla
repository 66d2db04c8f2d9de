---------------------------- MODULE AttachedFiles ----------------------------
(***************************************************************************)
(* What the attachments of one field promise, as if rows and objects were   *)
(* in one store and each operation one step of it: a file that was offered  *)
(* is attached with its inspected bytes, or given up and then gone without  *)
(* a trace; what left the field is retired with its bytes; a file that      *)
(* replaces another one takes its place in the same step.  There are no     *)
(* windows, credentials, inspections, claims, cleaners or faults.  A        *)
(* retired file neither returns nor goes: the code has no operation that    *)
(* restores it in its recovery period or removes it afterwards.             *)
(***************************************************************************)
CONSTANTS
  Files,
  Values,  \* the sets of files that the field may hold
  NoFile   \* replaces nothing

VARIABLES
  status,    \* of each file
  content,   \* the bytes it is kept with
  replaces,  \* the file it was offered to replace
  value      \* the field's value

vars == <<status, content, replaces, value>>

Init ==
  /\ status = [f \in Files |-> "none"]
  /\ content = [f \in Files |-> "none"]
  /\ replaces = [f \in Files |-> NoFile]
  /\ value = {}

\* There is room for the file beside those it does not replace.
Offer(f, r) ==
  /\ status[f] = "none"
  /\ r \in value \union {NoFile}
  /\ (value \ {r}) \union {f} \in Values
  /\ status' = [status EXCEPT ![f] = "offered"]
  /\ replaces' = [replaces EXCEPT ![f] = r]
  /\ UNCHANGED <<content, value>>

\* A file comes in when it was offered, and for the file it replaces.
MayEnter(f, new) ==
  /\ status[f] = "offered"
  /\ replaces[f] # NoFile => replaces[f] \in value \ new

Change(new) ==
  /\ new \in Values \ {value}
  /\ \A f \in new \ value : MayEnter(f, new)
  /\ value' = new
  /\ status' = [f \in Files |->
       IF f \in new THEN "attached" ELSE IF f \in value THEN "retired" ELSE status[f]]
  /\ content' = [f \in Files |-> IF f \in new THEN "clean" ELSE content[f]]
  /\ UNCHANGED replaces

GiveUp(batch) ==
  /\ batch # {}
  /\ \A f \in batch : status[f] = "offered"
  /\ status' = [f \in Files |-> IF f \in batch THEN "given up" ELSE status[f]]
  /\ UNCHANGED <<content, replaces, value>>

Remove(f) ==
  /\ status[f] = "given up"
  /\ status' = [status EXCEPT ![f] = "gone"]
  /\ UNCHANGED <<content, replaces, value>>

Next ==
  \/ \E f \in Files : Remove(f) \/ \E r \in Files \union {NoFile} : Offer(f, r)
  \/ \E new \in Values : Change(new)
  \/ \E batch \in SUBSET Files : GiveUp(batch)

Spec == Init /\ [][Next]_vars
==============================================================================
