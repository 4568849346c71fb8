------------------------------ MODULE MCFpUnit ------------------------------
EXTENDS FpUnit

Format(e, f, g) == [E |-> e, F |-> f, G |-> g]
MCFmt     == Format(3, 2, 4)
MCFmaFmt  == Format(3, 1, 3)
MCRootFmt == Format(3, 6, 4)
MCRemFmt  == Format(4, 1, 3)
MCConv    == [s |-> Format(5, 2, 2), d |-> Format(5, 8, 2), rb |-> 2]
MCNarrow  == [s |-> Format(3, 1, 3), d |-> Format(4, 5, 3), rb |-> 2]
MCFractions  == {0, 1, 64, 128, 129, 192, 254, 255}
MCIntegers64 == {u \in 0..4095 : u % 64 \in {0, 1, 16, 31, 32, 33, 48, 63}}
=============================================================================
