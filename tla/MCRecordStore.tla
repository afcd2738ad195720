---------------------------- MODULE MCRecordStore ----------------------------
(* A small schema instance for TLC: two users; no property reads what a copy says. *)
EXTENDS RecordStore, TLC

CONSTANTS u1, u2

MCUsers == {u1, u2}
MCContents == {"written"}
Symmetry == Permutations(MCUsers)
=============================================================================
