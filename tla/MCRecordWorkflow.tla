--------------------------- MODULE MCRecordWorkflow ---------------------------
(* An author who starts the draft, a lead with every capability, who can become *)
(* a contributor or stay a reviewer, and a reviewer who never can.              *)
EXTENDS RecordWorkflow, TLC

CONSTANTS author, lead, reviewer

MCUsers == {author, lead, reviewer}
MCAuthors == {author, lead}
MCCoordinators == {lead}
MCReviewers == {lead, reviewer}
MCReaders == {reviewer}
MCContents == {"blank", "written", "amended"}
MCComplete == {"written", "amended"}

\* The two halves of one instance: three users over one version, and two users,
\* the draft staying its author's, deep enough for a second version that differs.
Held == {copy} \union {pending[u].content : u \in InFlight}
AuthorityOverOne ==
  /\ Len(versions) <= 1 /\ "amended" \notin Held
  /\ \/ revision <= 2 /\ Len(events) <= 5
     \/ revision <= 1 /\ Len(events) <= 6
AmendmentsByTwo ==
  /\ pending[reviewer].op = "none" /\ \A u \in Users : pending[u].op # "transfer"
  /\ \A i \in DOMAIN events : events[i].kind # "ownership_transferred" /\ events[i].actor # reviewer
Focus == AuthorityOverOne \/ AmendmentsByTwo
FocusStep == Focus'
=============================================================================
