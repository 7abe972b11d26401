------------------------------ MODULE MCShdsl ------------------------------
EXTENDS Shdsl, TLC

(***************************************************************************)
(* One thread stands for the shell and the web server. Rates are model     *)
(* values: they are only compared with each other and with 0.              *)
(***************************************************************************)
MCUsers == {"user"}
Symmetry == Permutations(Rates)
=============================================================================
