----------------------------- MODULE MCUnified -----------------------------
(* Instances of Unified for TLC. *)
EXTENDS Unified

(* Writes that need more blocks than there are, and that fall between two   *)
(* blocks.                                                                 *)
SomeRanges == {<< 0, 5 >>, << 1, 2 >>}

=============================================================================
