---------------------------- MODULE MCFolderPlan ----------------------------
EXTENDS FolderPlan

MCArity  == [Copy |-> <<1, 1>>, Lzma |-> <<1, 1>>, Ppmd |-> <<1, 1>>, Aes |-> <<1, 1>>,
             Zstd |-> <<1, 1>>, Bcj2 |-> <<4, 1>>]
MCMemory == [Copy |-> 0, Lzma |-> 2, Ppmd |-> 2, Aes |-> 1, Bcj2 |-> 1]

Known(m) == [method |-> m, ins |-> MCArity[m][1], outs |-> MCArity[m][2], props |-> TRUE]
New(i, o) == [method |-> "New", ins |-> i, outs |-> o, props |-> TRUE]
Broken   == [Known("Copy") EXCEPT !.props = FALSE]
WrongArity == [Known("Lzma") EXCEPT !.ins = 2]

\* Coder lists: all short chains, the odd ones out, and BCJ2 with helpers.
CoderLists ==
    BoundedSeq({Known(m) : m \in {"Copy", "Lzma", "Ppmd", "Aes"}}, 2)
    \cup { <<a, b, Known("Copy")>> : a, b \in {Known("Copy"), Known("Ppmd"), Known("Aes")} }
    \cup { <<Broken>>, <<Known("Zstd")>>, <<WrongArity>>, <<New(1, 2), New(2, 1)>>,
           <<New(2, 2)>>, <<Known("Bcj2")>>, <<Known("Bcj2"), Known("Copy")>>,
           <<Known("Lzma"), Known("Bcj2")>>, <<Known("Copy"), Known("Ppmd"), Known("Bcj2")>> }

Sorted(S) == SetToSortSeq(S, LAMBDA a, b : a < b)
PackedLists(ins, n) ==
    {<<>>} \cup UNION {{Sorted(S), Reverse(Sorted(S))} : S \in kSubset(n, 0..(ins - 1))}

\* Any pairs, one index too far included, and the right number of packed streams.
MCFolders ==
    UNION {LET ins  == StreamTotal(Ins(coders))[Len(coders)]
               outs == StreamTotal(Outs(coders))[Len(coders)]
           IN  [coders : {coders},
                pairs  : [1..(outs - 1) -> (0..ins) \X (0..outs)],
                packed : PackedLists(ins, IF ins >= outs THEN ins - outs + 1 ELSE 0)]
           : coders \in CoderLists \ {<<>>}}
=============================================================================
