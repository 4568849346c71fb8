----------------------------- MODULE DeviceTree -----------------------------
(***************************************************************************)
(* What a device tree declares, read from the tree itself and not from its *)
(* words: the reference that the scans of Fdt are compared with.  A node   *)
(* is a record [props, nodes] of its properties, [name, value], and its    *)
(* subtrees, both sequences; a tree is [root, nops].                       *)
(***************************************************************************)
EXTENDS Startup
LOCAL INSTANCE SequencesExt
LOCAL INSTANCE FiniteSetsExt

(* The flattened form; nops: a NOP follows each property and node. *)
Gap(nops) == IF nops THEN <<FDT_NOP>> ELSE << >>
PropWords(p, nops) == <<FDT_PROP, 4 * Len(p.value), p.name>> \o p.value \o Gap(nops)
RECURSIVE NodeWords(_, _)
NodeWords(n, nops) ==
  <<FDT_BEGIN_NODE, "">>
  \o FlattenSeq([i \in DOMAIN n.props |-> PropWords(n.props[i], nops)])
  \o FlattenSeq([i \in DOMAIN n.nodes |-> NodeWords(n.nodes[i], nops)])
  \o <<FDT_END_NODE>> \o Gap(nops)

FlattenedTree(tree) == NodeWords(tree.root, tree.nops) \o <<FDT_END>>

-----------------------------------------------------------------------------
Has(n, name) == \E p \in ToSet(n.props) : p.name = name
Value(n, name) == (CHOOSE p \in ToSet(n.props) : p.name = name).value
Is(n, name, str) == Has(n, name) /\ str \in ToSet(Value(n, name))
Count(n, name, default) == IF Has(n, name) THEN Value(n, name)[1] ELSE default

\* Each node below n, with the one above, in the order of the tree
RECURSIVE Below(_)
Below(n) == FlattenSeq([i \in DOMAIN n.nodes |-> <<[up |-> n, at |-> n.nodes[i]]>> \o Below(n.nodes[i])])
Matching(root, name, str) == SelectSeq(Below(root), LAMBDA x : Is(x.at, name, str))

\* The number that cells words stand for
Big(words) == FoldLeft(LAMBDA x, w : x * CellBase + w, 0, words)
Address(x) == Big(SubSeq(Value(x.at, "reg"), 1, Count(x.up, "#address-cells", 2)))

FirstAddress(nodes) == IF nodes = << >> THEN 0 ELSE Address(nodes[1])

\* The range of memory around the monitor
MemoryAround(x) ==
  LET a == Count(x.up, "#address-cells", 2)
      step == a + Count(x.up, "#size-cells", 1)
      reg == Value(x.at, "reg")
      range(i) == [base |-> Big(SubSeq(reg, step * i + 1, step * i + a)),
                   size |-> Big(SubSeq(reg, step * i + a + 1, step * (i + 1)))]
      ranges == {range(i) : i \in 0..(Len(reg) \div step - 1)}
  IN (CHOOSE r \in ranges : r.base <= Self /\ Self < r.base + r.size).size

\* [hart, phandle] of the interrupt controllers, in or below their cpu nodes
DeclaredHarts(root) ==
  UNION {{[hart |-> Address(x), phandle |-> Value(n, "phandle")[1]] :
            n \in {c \in {x.at} \cup {y.at : y \in ToSet(Below(x.at))} : Has(c, "interrupt-controller")}}
         : x \in ToSet(Matching(root, "device_type", "cpu"))}

\* The place in a list of entries of step words where an interrupt of a hart is wired
Wiring(x, step, Names(_, _), harts, h) ==
  LET list == Value(x.at, "interrupts-extended")
      places == {i \in 0..(Len(list) \div step - 1) :
                   \E d \in harts : d.hart = h /\ Names(SubSeq(list, step * i + 1, step * (i + 1)), d.phandle)}
  IN IF places = {} THEN Null ELSE At(Address(x), Max(places))

Declared(root) ==
  LET clint == Matching(root, "compatible", "riscv,clint0")[1]
      plic  == Matching(root, "compatible", "riscv,plic0")[1]
      harts == DeclaredHarts(root)
  IN [uart     |-> FirstAddress(Matching(root, "compatible", "sifive,uart0")),
      finisher |-> FirstAddress(Matching(root, "compatible", "sifive,test0")),
      htif     |-> Matching(root, "compatible", "ucb,htif0") # << >>,
      mem_size |-> MemoryAround(Matching(root, "device_type", "memory")[1]),
      hart_mask |-> {d.hart : d \in harts} \cap Cpus,
      hart_phandles |->
        [h \in Cpus |-> IF \E d \in harts : d.hart = h THEN (CHOOSE d \in harts : d.hart = h).phandle ELSE 0],
      hls |->
        [h \in Cpus |->
           [ipi    |-> Wiring(clint, 4, LAMBDA words, p : words = <<p, 3, p, 7>>, harts, h),
            plic_m |-> Wiring(plic, 2, LAMBDA words, p : words = <<p, IRQ_M_EXT>>, harts, h),
            plic_s |-> Wiring(plic, 2, LAMBDA words, p : words = <<p, IRQ_S_EXT>>, harts, h)]],
      mtime |-> Address(clint), plic_priorities |-> Address(plic),
      plic_ndevs |-> Value(plic.at, "riscv,ndev")[1]]

\* Whatever the order of its nodes and properties, the number of cells of its
\* buses and the place of the interrupt controllers, what the scans leave in
\* the monitor's variables is what the tree declares: the records that the
\* callbacks of one scan share carry nothing from one node into another.
DeclaredPlatform == [d \in DOMAIN Trees |-> Declared(Trees[d].root)]
PlatformAsDeclared == query = "finished" => platform = DeclaredPlatform[dtb]
=============================================================================
