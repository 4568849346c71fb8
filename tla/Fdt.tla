-------------------------------- MODULE Fdt --------------------------------
(***************************************************************************)
(* The scan of the device tree that init_first_hart makes once for every   *)
(* kind of device (machine/fdt.c, uart.c, htif.c, finisher.c).             *)
(*                                                                         *)
(* fdt_scan_helper walks over the words of a flattened tree, one recursive *)
(* call per node, and calls back at the begin of a node (open), at each    *)
(* property (prop), when the last property was seen (done) and at the end  *)
(* (close).  The callbacks of one scan share one record.                   *)
(*                                                                         *)
(* A name or a string is one word here, as a number is, and 2^32 is        *)
(* CellBase.  A node is its depth, 0 for NULL: the code knows it by the    *)
(* address of the child variable of the call above, which siblings share.  *)
(***************************************************************************)
EXTENDS Integers, Sequences
LOCAL INSTANCE SequencesExt
LOCAL INSTANCE FiniteSetsExt

CONSTANTS
  Trees,      \* the device trees, a sequence
  Flattened(_),  \* the words of a tree
  CellBase,
  MAX_HARTS,
  Self        \* the address of mem_done

ASSUME FdtAssumption == MAX_HARTS \in Nat \ {0} /\ CellBase \in Nat \ {0, 1}

Blobs == [d \in DOMAIN Trees |-> Flattened(Trees[d])]

FDT_BEGIN_NODE == 1
FDT_END_NODE == 2
FDT_PROP == 3
FDT_NOP == 4
FDT_END == 9

IRQ_S_EXT == 9
IRQ_M_EXT == 11

VARIABLES
  dtb,        \* the tree that was passed
  query,      \* the scan that runs
  lex,
  last,       \* per call of fdt_scan_helper: last and ...
  child,      \* ... the cell counts of child
  scan,       \* the record of the callbacks
  found,      \* its field done
  platform    \* what the scans leave behind
fdtVars == <<dtb, query, lex, last, child, scan, found, platform>>

Word(i) == Blobs[dtb][i]
node == Len(child) - 1
NoCells == [address_cells |-> 2, size_cells |-> 1]
Cpus == 0..(MAX_HARTS - 1)

-----------------------------------------------------------------------------
(* cells words from at on, as a 64-bit number. *)
Number(at, cells) ==
  LET upTo[i \in 0..cells] ==
        IF i = 0 THEN 0 ELSE (upTo[i - 1] * CellBase + Word(at + i - 1)) % CellBase^2
  IN upTo[cells]

\* Mutant: the counts of the node itself instead of its parent's.
M_fdt_get_address(value) == Number(value, child[node].address_cells)
(* The address of a node is written in the cells of its parent. *)
fdt_get_address(value) == Number(value, child[node - 1].address_cells)
fdt_get_size(value) == Number(value, child[node - 1].size_cells)

fdt_string_list_index(p, str) == \E i \in 0..(p.len \div 4 - 1) : Word(p.value + i) = str

(* What a scan knows about the current node.  reg is an address, or for    *)
(* memory, like value, the place of a property's words, and len their      *)
(* number; cpu and controller are nodes.                                   *)
Blank ==
  [compat |-> FALSE, reg |-> 0, value |-> 0, len |-> 0, ndev |-> 0,
   cpu |-> 0, hart |-> 0, controller |-> 0, cells |-> 0, phandle |-> 0]

At(reg, index) == [reg |-> reg, index |-> index]
Null == At(0, 0)
hls_init == [ipi |-> Null, plic_m |-> Null, plic_s |-> Null]
Nothing ==
  [uart |-> 0, htif |-> FALSE, finisher |-> 0, mem_size |-> 0, hart_mask |-> {},
   hart_phandles |-> [h \in Cpus |-> 0], hls |-> [h \in Cpus |-> hls_init],
   mtime |-> 0, plic_priorities |-> 0, plic_ndevs |-> 0]

-----------------------------------------------------------------------------
(* open *)
hart_open ==
  LET s == IF scan.cpu = 0 THEN [scan EXCEPT !.hart = -1] ELSE scan
  IN IF scan.controller = 0 THEN [s EXCEPT !.cells = 0, !.phandle = 0] ELSE s
plic_open == [Blank EXCEPT !.ndev = scan.ndev]
Opened ==
  CASE query = "harts" -> hart_open
    [] query = "plic"  -> plic_open
    [] OTHER           -> Blank

(* prop *)
AddressOf(p) == [scan EXCEPT !.reg = fdt_get_address(p.value)]
Entries(p) == [scan EXCEPT !.value = p.value, !.len = p.len \div 4]
Compatible(yes) == [scan EXCEPT !.compat = @ \/ yes]

uart_prop(p, name) ==
  CASE p.name = "compatible" -> Compatible(Word(p.value) = name)
    [] p.name = "reg"        -> AddressOf(p)
    [] OTHER                 -> scan
htif_prop(p) ==
  IF p.name = "compatible" THEN Compatible(Word(p.value) = "ucb,htif0") ELSE scan
mem_prop(p) ==
  CASE p.name = "device_type" -> Compatible(Word(p.value) = "memory")
    [] p.name = "reg"         -> Entries(p)
    [] OTHER                  -> scan
\* scan->hart is an int.
AsInt(n) == LET low == n % CellBase IN IF 2 * low < CellBase THEN low ELSE low - CellBase
hart_prop(p) ==
  CASE p.name = "device_type" /\ Word(p.value) = "cpu" -> [scan EXCEPT !.cpu = node]
    [] p.name = "interrupt-controller" -> [scan EXCEPT !.controller = node]
    [] p.name = "#interrupt-cells"     -> [scan EXCEPT !.cells = Word(p.value)]
    [] p.name = "phandle"              -> [scan EXCEPT !.phandle = Word(p.value)]
    [] p.name = "reg"                  -> [scan EXCEPT !.hart = AsInt(fdt_get_address(p.value))]
    [] OTHER                           -> scan
clint_prop(p) ==
  CASE p.name = "compatible" -> Compatible(fdt_string_list_index(p, "riscv,clint0"))
    [] p.name = "reg"        -> AddressOf(p)
    [] p.name = "interrupts-extended" -> Entries(p)
    [] OTHER                 -> scan
plic_prop(p) ==
  CASE p.name = "compatible" -> Compatible(fdt_string_list_index(p, "riscv,plic0"))
    [] p.name = "reg"        -> AddressOf(p)
    [] p.name = "interrupts-extended" -> Entries(p)
    [] p.name = "riscv,ndev" -> [scan EXCEPT !.ndev = Word(p.value)]
    [] OTHER                 -> scan
Handled(p) ==
  CASE query = "uart"     -> uart_prop(p, "sifive,uart0")
    [] query = "finisher" -> uart_prop(p, "sifive,test0")
    [] query = "htif"     -> htif_prop(p)
    [] query = "mem"      -> mem_prop(p)
    [] query = "harts"    -> hart_prop(p)
    [] query = "clint"    -> clint_prop(p)
    [] query = "plic"     -> plic_prop(p)

(* assert (!scan->cpu), assert (!scan->controller) *)
PropAsserts(p) ==
  query = "harts" =>
    /\ p.name = "device_type" /\ Word(p.value) = "cpu" => scan.cpu = 0
    /\ p.name = "interrupt-controller" => scan.controller = 0

-----------------------------------------------------------------------------
(* done: the first uart and the first finisher are taken. *)
Taken(device) == scan.compat /\ scan.reg # 0 /\ device = 0
uart_done == IF Taken(platform.uart) THEN [platform EXCEPT !.uart = scan.reg] ELSE platform
finisher_done == IF Taken(platform.finisher) THEN [platform EXCEPT !.finisher = scan.reg] ELSE platform
htif_done == [platform EXCEPT !.htif = @ \/ scan.compat]

(* Each base and size of reg; the last range with the monitor in it counts. *)
RegCells == child[node - 1].address_cells + child[node - 1].size_cells
mem_done ==
  LET base(i) == fdt_get_address(scan.value + i * RegCells)
      size(i) == fdt_get_size(scan.value + i * RegCells + child[node - 1].address_cells)
      behind(i) == (base(i) + size(i)) % CellBase^2
      around == {i \in 0..((scan.len - 1) \div RegCells) : base(i) <= Self /\ Self <= behind(i)}
  IN IF scan.compat /\ around # {} THEN [platform EXCEPT !.mem_size = size(Max(around))] ELSE platform

\* Mutant: one hart more than there are slots.
M_HasSlot(hart) == hart <= MAX_HARTS
HasSlot(hart) == hart < MAX_HARTS
hart_done ==
  IF scan.controller = node /\ scan.cpu # 0 /\ HasSlot(scan.hart)
  THEN [platform EXCEPT !.hart_phandles[scan.hart] = scan.phandle,
                        !.hart_mask = @ \cup {scan.hart},
                        !.hls[scan.hart] = hls_init]
  ELSE platform

(* The entries of interrupts-extended, of step words each, that name the   *)
(* interrupt controller of hart h; the last one counts.                    *)
HartOf(phandle) == {h \in Cpus : /\ platform.hart_phandles[h] = phandle
                                 /\ \A g \in 0..(h - 1) : platform.hart_phandles[g] # phandle}
EntriesOf(h, step) == {i \in 0..((scan.len - 1) \div step) : h \in HartOf(Word(scan.value + step * i))}
Wire(old, entries) == IF entries = {} THEN old ELSE At(scan.reg, Max(entries))

\* Mutant: two words per entry, as in the PLIC's list.
M_ClintStep == 2
ClintStep == 4
clint_done ==
  IF ~scan.compat THEN platform
  ELSE [platform EXCEPT !.mtime = scan.reg,
                        !.hls = [h \in Cpus |-> [@[h] EXCEPT !.ipi = Wire(@, EntriesOf(h, ClintStep))]]]
plic_done ==
  LET entries(h, irq) == {i \in EntriesOf(h, 2) : Word(scan.value + 2 * i + 1) = irq}
  IN IF ~scan.compat THEN platform
     ELSE [platform EXCEPT
             !.plic_priorities = scan.reg, !.plic_ndevs = scan.ndev,
             !.hls = [h \in Cpus |-> [@[h] EXCEPT !.plic_m = Wire(@, entries(h, IRQ_M_EXT)),
                                                  !.plic_s = Wire(@, entries(h, IRQ_S_EXT))]]]

Reported ==
  CASE query = "uart"     -> uart_done
    [] query = "finisher" -> finisher_done
    [] query = "htif"     -> htif_done
    [] query = "mem"      -> mem_done
    [] query = "harts"    -> hart_done
    [] query = "clint"    -> clint_done
    [] query = "plic"     -> plic_done

DoneAsserts ==
  /\ query = "mem" /\ scan.compat => scan.value # 0 /\ scan.len % RegCells = 0
  /\ query = "harts" =>
       /\ scan.cpu = node => scan.hart >= 0
       /\ scan.controller = node /\ scan.cpu # 0 => scan.phandle > 0 /\ scan.cells = 1
  /\ query \in {"clint", "plic"} /\ scan.compat => scan.reg # 0 /\ scan.value # 0 /\ ~found
  /\ query = "clint" /\ scan.compat => scan.len % 4 = 0
  /\ query = "plic" /\ scan.compat => scan.len % 2 = 0 /\ scan.ndev \in 0..1023

\* Mutant: the controller stays the current one behind its node.
M_hart_close(n) == [scan EXCEPT !.cpu = IF @ = n THEN 0 ELSE @]
(* close *)
hart_close(n) ==
  [scan EXCEPT !.cpu = IF @ = n THEN 0 ELSE @, !.controller = IF @ = n THEN 0 ELSE @]

-----------------------------------------------------------------------------
(* fdt_scan_helper, one word of the tree at a time.  The scans follow each *)
(* other as in init_first_hart.  An assertion that fails ends the run.     *)
After ==
  [uart |-> "htif", htif |-> "finisher", finisher |-> "mem", mem |-> "harts",
   harts |-> "clint", clint |-> "plic", plic |-> "finished"]
NextScan == After[query]

Survives(asserted) == query' = IF asserted THEN query ELSE "died"
Current == last[Len(last)]

(* if (!last && node && cb->done) cb->done(node, cb->extra) *)
NodeDone ==
  IF Current \/ node = 0 THEN Survives(TRUE) /\ UNCHANGED <<platform, found>>
  ELSE /\ Survives(DoneAsserts)
       /\ platform' = IF DoneAsserts THEN Reported ELSE platform
       /\ found' = (found \/ (query \in {"clint", "plic"} /\ scan.compat))

Nop ==
  /\ Word(lex) = FDT_NOP
  /\ lex' = lex + 1
  /\ UNCHANGED <<dtb, query, last, child, scan, found, platform>>

(* #address-cells and #size-cells count for the children of the node. *)
Counted(cells, p) ==
  CASE p.name = "#address-cells" -> [cells EXCEPT !.address_cells = Word(p.value)]
    [] p.name = "#size-cells"    -> [cells EXCEPT !.size_cells = Word(p.value)]
    [] OTHER                     -> cells
Property ==
  /\ Word(lex) = FDT_PROP
  /\ LET p == [name |-> Word(lex + 2), len |-> Word(lex + 1), value |-> lex + 3]
     IN /\ lex' = lex + 3 + (p.len + 3) \div 4
        /\ child' = IF node # 0 THEN [child EXCEPT ![node] = Counted(@, p)] ELSE child
        /\ Survives(~Current /\ PropAsserts(p))
        /\ scan' = Handled(p)
  /\ UNCHANGED <<dtb, last, found, platform>>

BeginNode ==
  /\ Word(lex) = FDT_BEGIN_NODE
  /\ NodeDone
  /\ lex' = lex + 2
  /\ last' = Append([last EXCEPT ![Len(last)] = TRUE], FALSE)
  /\ child' = Append(child, NoCells)
  /\ scan' = Opened
  /\ UNCHANGED dtb

EndNode ==
  /\ Word(lex) = FDT_END_NODE
  /\ NodeDone
  /\ lex' = lex + 1
  /\ last' = Front(last)
  /\ child' = Front(child)
  /\ scan' = IF query = "harts" THEN hart_close(node) ELSE scan
  /\ UNCHANGED dtb

(* FDT_END: the assertions behind the scan, and the next scan.  scan.ndev  *)
(* of the PLIC is not initialised: any value, or a wrong one.              *)
ScanAsserts ==
  /\ query = "mem" => platform.mem_size > 0
  /\ query = "clint" => found
EndScan ==
  /\ Word(lex) = FDT_END
  /\ query' = IF ScanAsserts THEN NextScan ELSE "died"
  /\ lex' = 1 /\ found' = FALSE
  /\ \E garbage \in (IF NextScan = "plic" THEN {0, -1} ELSE {0}) : scan' = [Blank EXCEPT !.ndev = garbage]
  /\ UNCHANGED <<dtb, last, child, platform>>

FdtInit ==
  /\ dtb \in DOMAIN Trees
  /\ query = "uart" /\ lex = 1
  /\ last = <<FALSE>> /\ child = <<NoCells>>
  /\ scan = Blank /\ found = FALSE
  /\ platform = Nothing
=============================================================================
