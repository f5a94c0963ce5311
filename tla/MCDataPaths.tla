---------------------------- MODULE MCDataPaths ----------------------------
EXTENDS DataPaths

\* A small and an empty object, and an object of three parts whose last part
\* is short.  Two bytes make a unit.
Part(size) == [size |-> size, unit |-> 2]
MCStored ==
    {[parts |-> <<Part(0)>>, extended |-> FALSE],
     [parts |-> <<Part(7)>>, extended |-> FALSE],
     [parts |-> <<Part(4), Part(6), Part(3)>>, extended |-> TRUE]}
MCUnaligned == {[parts |-> <<Part(3), Part(1)>>, extended |-> TRUE]}
H(k, a, b) == [kind |-> k, a |-> a, b |-> b]
MCHeaders ==
    {H("none", 0, 0), H("several", 0, 0), H("malformed", 0, 0), H("suffix", 0, 3), H("suffix", 0, 0), H("suffix", 0, 20),
     H("from", 5, 0), H("from", 20, 0), H("span", 3, 1), H("span", 1, 20)} \cup
    {H("span", a, b) : a \in {1, 3, 4}, b \in {4, 5, 10}}
MCNoRange == {H("none", 0, 0)}

\* A simple object of three reads, an empty one, and objects of three parts,
\* short ones and ones of two reads.
W(src, multi, old) == [src |-> src, multi |-> multi, old |-> old]
MCCopies ==
    {W(<<5>>, FALSE, 0), W(<<0>>, FALSE, 1), W(<<5>>, FALSE, 1), W(<<1, 2, 2>>, TRUE, 2),
     W(<<3, 1, 4>>, TRUE, 0)}

\* Two buffers make a block; the last block has one.  The chunks end inside
\* and at the end of a block, and the last chunk is empty.
Plain == [i \in 1..7 |-> "data"]
Signed == <<"data", "data", "data", "sig", "data", "data", "data", "sig", "data",
            "sig", "sig">>
MCWire == [k \in Kind |-> IF IsChunked(k) THEN Signed ELSE Plain]

\* All faults an upload of each kind can meet.
Faults ==
    (Kind \X {"timeout", "slow", "write", "save", "leave", "shutdown", "memory"}) \cup
    ({"object", "part", "chunkedPart"} \X {"digest"}) \cup
    ({"chunked", "chunkedPart"} \X {"auth", "trailer"})
=============================================================================
