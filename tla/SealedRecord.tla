----------------------------- MODULE SealedRecord -----------------------------
(***************************************************************************)
(* What an evaluation record promises the people who rely on it, without   *)
(* streams, marks, requests or users: one working copy with one workflow   *)
(* status, and a history of sealed contents that only ever grows.  A copy  *)
(* changes only while it is editable, and only an approved copy is sealed  *)
(* when the policy requires review (docs/records-integrity.md, ADR 0011,   *)
(* ADR 0012).  RecordWorkflow implements it.                               *)
(***************************************************************************)
EXTENDS Sequences

CONSTANT Contents

VARIABLES status, draft, sealed, reviewed

\* reviewed, whether the policy requires review, is fixed with the program version.
sealedVars == <<status, draft, sealed, reviewed>>

Editable == {"draft", "changes_requested", "returned"}
Decided == {"approved", "changes_requested", "returned"}

RecordInit ==
  /\ status = "draft"
  /\ draft \in Contents
  /\ sealed = <<>>
  /\ reviewed \in BOOLEAN

\* Saving, or handing the draft to another owner.
Edit ==
  /\ status \in Editable
  /\ status' = "draft"
  /\ draft' \in Contents
  /\ UNCHANGED <<sealed, reviewed>>

Submit ==
  /\ status \in Editable
  /\ status' = "submitted"
  /\ UNCHANGED <<draft, sealed, reviewed>>

Decide ==
  /\ status = "submitted"
  /\ status' \in Decided
  /\ UNCHANGED <<draft, sealed, reviewed>>

Seal ==
  /\ status # "finalized"
  /\ reviewed => status = "approved"
  /\ status' = "finalized"
  /\ sealed' = Append(sealed, draft)
  /\ UNCHANGED <<draft, reviewed>>

Reopen ==
  /\ status = "finalized"
  /\ status' = "draft"
  /\ UNCHANGED <<draft, sealed, reviewed>>

RecordNext == Edit \/ Submit \/ Decide \/ Seal \/ Reopen

RecordSpec == RecordInit /\ [][RecordNext]_sealedVars
=============================================================================
