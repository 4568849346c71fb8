------------------------------- MODULE MCBoot -------------------------------
(* Boot on a machine whose tree lists another hart than the one that reads it. *)
EXTENDS Boot

TwoHarts == {0, 1}
OneCpu == {1}
=============================================================================
