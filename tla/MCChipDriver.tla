---------------------------- MODULE MCChipDriver ----------------------------
(* The instance of ChipDriver for TLC. *)
EXTENDS ChipDriver
=============================================================================
