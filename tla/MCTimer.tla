------------------------------ MODULE MCTimer ------------------------------
(* Timer with halves of three values, RV32 and RV64 stores, and a CLINT    *)
(* that is prompt or not.                                                  *)
EXTENDS Timer
=============================================================================
