------------------------------- MODULE MCHtif -------------------------------
(* Htif with two harts.                                                    *)
EXTENDS Htif

TwoHarts == {0, 1}
Shutdown == {"putchar", "getchar", "syscall", "exit"}
Off == {"putchar", "syscall", "poweroff"}
=============================================================================
