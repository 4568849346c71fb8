------------------------------- MODULE Startup -------------------------------
(***************************************************************************)
(* Boot with the scan of the device tree: what Boot takes as the constants *)
(* Listed and Wired, the first hart reads here from the tree, one token at *)
(* a time, while the other harts come out of reset.  The actions are those *)
(* of Boot and Fdt, in the order of init_first_hart.                       *)
(***************************************************************************)
EXTENDS Boot, Fdt

ASSUME StartupAssumption == MaxHarts = MAX_HARTS

startVars == <<vars, fdtVars>>

StartInit == Init /\ FdtInit

\* Where in Boot the first hart is while a scan runs.
Place ==
  [uart |-> "hart_init", htif |-> "hart_init",
   finisher |-> "query_harts", mem |-> "query_harts", harts |-> "query_harts",
   clint |-> "query_clint", plic |-> "query_clint"]

Scan(h) ==
  /\ query \in DOMAIN Place /\ pc[h] = Place[query]
  /\ \/ Nop
     \/ Property
     \/ BeginNode
     \/ EndNode
     \/ query \notin {"harts", "plic"} /\ EndScan
  /\ UNCHANGED vars

\* hls_init(0), behind the scans for the console
ConsoleFound(h) ==
  /\ query = "finisher" /\ HartInit(h)
  /\ platform' = [platform EXCEPT !.hls[0] = hls_init]
  /\ UNCHANGED <<dtb, query, lex, last, child, scan, found>>

HartsFound(h) == query = "harts" /\ Word(lex) = FDT_END /\ EndScan /\ QueryHarts(h)
ClintFound(h) == query = "plic" /\ Word(lex) = FDT_END /\ EndScan /\ QueryClint(h)

Scanned(h) ==
  /\ Reset(h) \/ Wake(h) \/ WakeDone(h) \/ Leave(h) \/ HartPlicInit(h)
  /\ UNCHANGED fdtVars

StartStep(h) == Scan(h) \/ ConsoleFound(h) \/ HartsFound(h) \/ ClintFound(h) \/ Scanned(h)

StartSpec == StartInit /\ [][\E h \in Harts : StartStep(h)]_startVars

(* Every hart runs. *)
FairStartSpec == StartSpec /\ \A h \in Harts : WF_startVars(StartStep(h))

-----------------------------------------------------------------------------
(* Properties *)

\* What Boot takes for the results of the scans are their results: when the
\* harts are woken, hart_mask names the harts found in the tree, and hls->ipi
\* is set for the harts that the CLINT lists, and for no others.
ScanDelivers ==
  query = "finished" =>
    /\ hart_mask = platform.hart_mask
    /\ \A h \in Harts : hls[h] <=> h \in Cpus /\ platform.hls[h].ipi # Null

\* No hart is woken, and none has left the loop, while a scan still has to run.
ScansFirst == \A h \in Harts : pc[h] \in {"wake"} \cup Past => query = "finished"
=============================================================================
