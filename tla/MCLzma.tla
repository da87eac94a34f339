------------------------------- MODULE MCLzma -------------------------------
EXTENDS Lzma

Set(lc, lp, pb, dict, mark, cap, call, chunk, olim) ==
    [lc |-> lc, lp |-> lp, pb |-> pb, dict |-> dict, mark |-> mark, cap |-> cap,
     call |-> call, chunk |-> chunk, olim |-> olim]

\* The library call of lrzip-next, with room and without; both ways of decoding
\* in pieces, with an end marker, a dictionary that fills up and one that wraps.
MCConfs == {Set(1, 0, 1, 16, FALSE, 99, "lib", 99, 99),
            Set(0, 1, 0, 16, FALSE, 9, "lib", 99, 99),
            Set(1, 0, 1, 4, FALSE, 99, "dic", 3, 2),
            Set(1, 1, 1, 16, TRUE, 99, "dic", 1, 3),
            Set(0, 1, 1, 5, FALSE, 99, "buf", 2, 5),
            Set(1, 0, 0, 4, TRUE, 99, "buf", 4, 99)}

MCBytes == {0, 1, 2}
MCLens  == {2, 3, 5, 9}
=============================================================================
