---------------------------- MODULE MC_MtReader -----------------------------
(***************************************************************************)
(* Instances of MtReader.  A DWORD holds 0..2: a read of two blocks at 2   *)
(* crosses from one OffsetHigh to the next, and one at 4 leaves the volume. *)
(***************************************************************************)
EXTENDS MtReader

MCOffset == {2, 4}
=============================================================================
