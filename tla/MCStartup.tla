------------------------------ MODULE MCStartup ------------------------------
(* The start of five harts, with device trees of different shapes.         *)
EXTENDS DeviceTree, SequencesExt

\* 3 is not in the device tree, 4 has no slot.
FiveHarts == 0..4
ListedHarts == {0, 1, 2, 4}

P(name, value) == [name |-> name, value |-> value]

\* How a tree is laid out: the order of the top nodes, whether properties come
\* in reverse and NOPs between them, the cells of the root, where the
\* interrupt controllers are and how many ranges the memory has.
Layout(k) ==
  [order  |-> << <<1, 2, 3, 4>>, <<4, 3, 2, 1>>, <<3, 1, 4, 2>> >>[(k % 3) + 1],
   cells  |-> <<"one", "two", "default">>[((k + (k \div 3)) % 3) + 1],
   flip   |-> (k \div 3) % 2 = 1,
   nested |-> k \div 6 = 1]

Node(l, props, nodes) ==
  [props |-> IF l.flip THEN Reverse(props) ELSE props, nodes |-> nodes]

CellsOf(l) ==
  CASE l.cells = "one"     -> <<P("#address-cells", <<1>>), P("#size-cells", <<1>>)>>
    [] l.cells = "two"     -> <<P("#address-cells", <<2>>), P("#size-cells", <<2>>)>>
    [] l.cells = "default" -> << >>

Phandle(h) == 5 + h
Controller(h) ==
  <<P("phandle", <<Phandle(h)>>), P("#interrupt-cells", <<1>>), P("interrupt-controller", << >>)>>

Cpu(l, h) ==
  LET cpu == <<P("device_type", <<"cpu">>), P("reg", <<h>>)>>
      cache == Node(l, <<P("phandle", <<2>>), P("compatible", <<"cache">>)>>, << >>)
  IN IF l.nested THEN Node(l, cpu, <<cache, Node(l, Controller(h), << >>)>>)
     ELSE Node(l, cpu \o Controller(h), <<cache>>)
CpusNode(l) ==
  Node(l, <<P("#address-cells", <<1>>), P("#size-cells", <<0>>)>>, [i \in 1..4 |-> Cpu(l, <<0, 1, 2, 4>>[i])])

\* The monitor is at 40; the second range comes with cells of one word.
Memory(l) ==
  Node(l, <<P("device_type", <<"memory">>),
            P("reg", CASE l.cells = "one"     -> <<2, 9, 32, 20>>
                       [] l.cells = "two"     -> <<0, 2, 0, 9, 1, 0, 0, 20>>
                       [] l.cells = "default" -> <<1, 0, 20>>)>>, << >>)

Soc(l) ==
  LET device(str, at, props) == Node(l, <<P("compatible", <<"vendor,device", str>>), P("reg", <<at, 1>>)>> \o props, << >>)
      single(str, at) == Node(l, <<P("compatible", <<str>>), P("reg", <<at, 1>>)>>, << >>)
      wires(irqs) == P("interrupts-extended", FlattenSeq([i \in 1..4 |-> irqs[i]]))
      clint(h) == <<Phandle(h), 3, Phandle(h), 7>>
      plic(h) == <<Phandle(h), 9, Phandle(h), 11>>
  IN Node(l, <<P("#address-cells", <<1>>), P("#size-cells", <<1>>)>>,
       <<single("sifive,uart0", 3),
         device("riscv,clint0", 4, <<wires(<<clint(2), clint(0), clint(4), clint(1)>>)>>),
         device("riscv,plic0", 5,
           <<wires(<<plic(1), plic(0), plic(2), plic(4)>>), P("riscv,ndev", <<8>>),
             P("interrupt-controller", << >>), P("phandle", <<1>>), P("#interrupt-cells", <<1>>)>>),
         single("sifive,uart0", 6),
         single("sifive,test0", 7)>>)
Htif(l) == Node(l, <<P("compatible", <<"ucb,htif0">>)>>, << >>)

Tree(l) ==
  LET top == <<CpusNode(l), Memory(l), Soc(l), Htif(l)>>
  IN [root |-> Node(l, CellsOf(l), [i \in 1..4 |-> top[l.order[i]]]), nops |-> l.flip]
AllTrees == [d \in 1..12 |-> Tree(Layout(d - 1))]
=============================================================================
