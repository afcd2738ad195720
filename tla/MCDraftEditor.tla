---------------------------- MODULE MCDraftEditor ----------------------------
(* A form of two fields, so that the parts of a refused copy can differ. *)
EXTENDS DraftEditor, TLC

MCFields == {"rating", "narrative"}
=============================================================================
