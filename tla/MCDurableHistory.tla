-------------------------- MODULE MCDurableHistory --------------------------
(***************************************************************************)
(* DurableHistory for TLC, with an int64 of -6..5: requests ask for times  *)
(* around the snapshots, for times before and after what UnixNano can      *)
(* express, and for one so early that the differences wrap.                *)
(***************************************************************************)
EXTENDS DurableHistory

MCAsked == {-9, -5, -2, 1, 3, 4, 8}
=============================================================================
