----------------------------- MODULE FolderGraph -----------------------------
(***************************************************************************)
(* The coder graph of a folder (src/src/folder.rs).  A folder is a list of *)
(* coders, the pairs that bind an input stream to the output stream it     *)
(* reads, and the inputs read from packed streams.  Streams are numbered   *)
(* through the folder, coder by coder; the format counts from 0, and so do *)
(* "pairs" and "packed" here.  Coders and positions in TLA+ sequences      *)
(* count from 1.                                                           *)
(***************************************************************************)
EXTENDS Integers, Sequences, FiniteSets, SequencesExt

CONSTANTS
    MaxFolderStreams,   \* MAX_FOLDER_STREAMS
    Arity               \* method |-> <<inputs, outputs>>; no unknown method

ASSUME ArityAssumption ==
    /\ MaxFolderStreams \in Nat
    /\ \A m \in DOMAIN Arity : Arity[m] \in Nat \X Nat

Coder  == [method : STRING, ins : Nat, outs : Nat, props : BOOLEAN]
Folder == [coders : Seq(Coder), pairs : Seq(Nat \X Nat), packed : Seq(Nat)]

NoGraph == [ok |-> FALSE]

Indices(s) == [k \in 1..Len(s) |-> k]

\* A known method has exactly its registered streams; any coder has some.
StreamArity(coder) ==
    /\ coder.method \in DOMAIN Arity => <<coder.ins, coder.outs>> = Arity[coder.method]
    /\ coder.ins \in 1..MaxFolderStreams
    /\ coder.outs \in 1..MaxFolderStreams

Ins(coders)  == [c \in 1..Len(coders) |-> coders[c].ins]
Outs(coders) == [c \in 1..Len(coders) |-> coders[c].outs]

\* The coder that owns each stream, when coder c has counts[c] of them.
Numbering(counts) ==
    LET owners[c \in 0..Len(counts)] ==
            IF c = 0 THEN <<>> ELSE owners[c - 1] \o [k \in 1..counts[c] |-> c]
    IN  owners

StreamOwners(counts) == Numbering(counts)[Len(counts)]

\* The members of a set of positions, lowest first.
Filtering(n, chosen) ==
    LET kept[k \in 0..n] ==
            IF k = 0 THEN <<>>
            ELSE IF k \in chosen THEN Append(kept[k - 1], k) ELSE kept[k - 1]
    IN  kept

Ascending(n, chosen) == Filtering(n, chosen)[n]

\* One pair: both streams exist and are free, and no coder feeds itself.
Bind(b, pair) ==
    LET i == pair[1] + 1
        o == pair[2] + 1
    IN  IF /\ b.ok
           /\ i \in DOMAIN b.inputs
           /\ o \in DOMAIN b.outputs
           /\ b.source[i] = 0
           /\ o \notin b.fed
           /\ b.inputs[i] # b.outputs[o]
        THEN [b EXCEPT !.source[i] = o,
                       !.fed = @ \cup {o},
                       !.edges[b.outputs[o]] = Append(@, b.inputs[i]),
                       !.indegree[b.inputs[i]] = @ + 1]
        ELSE [b EXCEPT !.ok = FALSE]

\* source[i] is the output that input i reads, 0 while nothing is bound to it;
\* fed are the outputs bound to some input.
NewBindings(folder) ==
    LET inputs  == StreamOwners(Ins(folder.coders))
        outputs == StreamOwners(Outs(folder.coders))
    IN  [ok       |-> Len(folder.pairs) = Len(outputs) - 1,
         inputs   |-> inputs,
         outputs  |-> outputs,
         source   |-> [i \in 1..Len(inputs) |-> 0],
         fed      |-> {},
         edges    |-> [c \in 1..Len(folder.coders) |-> <<>>],
         indegree |-> [c \in 1..Len(folder.coders) |-> 0]]

Binding(folder) ==
    LET bound[k \in 0..Len(folder.pairs)] ==
            IF k = 0 THEN NewBindings(folder) ELSE Bind(bound[k - 1], folder.pairs[k])
    IN  bound

Bindings(folder) == Binding(folder)[Len(folder.pairs)]

UnboundOutputs(b) == DOMAIN b.outputs \ b.fed
UnboundInputs(b)  == {i \in DOMAIN b.source : b.source[i] = 0}

\* Faulty variant: the packed streams are handed out in input order.
PackedInputsInOrder(b, packed) == Ascending(Len(b.inputs), UnboundInputs(b))

\* Packed slot k feeds input PackedInputs[k].  One packed stream is implicit.
PackedInputs(b, packed) ==
    LET listed == [k \in DOMAIN packed |-> packed[k] + 1]
    IN  IF packed = <<>>
        THEN IF Cardinality(UnboundInputs(b)) = 1 THEN <<CHOOSE i \in UnboundInputs(b) : TRUE>> ELSE <<>>
        ELSE IF IsInjective(listed) /\ ToSet(listed) = UnboundInputs(b) THEN listed ELSE <<>>

\* A coder that has run leaves one coder less for "next" to wait for.
Release(s, next) ==
    LET left == s.waiting[next] - 1
    IN  [s EXCEPT !.waiting[next] = left,
                  !.ready = IF left = 0 THEN Append(@, next) ELSE @]

Releasing(s, readers) ==
    LET released[k \in 0..Len(readers)] ==
            IF k = 0 THEN s ELSE Release(released[k - 1], readers[k])
    IN  released

\* The last coder that became ready runs, and those that read from it are released.
RunReady(edges, s) ==
    LET c   == Last(s.ready)
        run == [s EXCEPT !.ready = Front(@), !.order = Append(@, c)]
    IN  IF s.ready = <<>> THEN s ELSE Releasing(run, edges[c])[Len(edges[c])]

\* Faulty variant: the coders run in the order they are declared.
DeclaredOrder(b) == Indices(b.edges)

\* A coder becomes ready once, so there are no more rounds than coders.
Running(b) ==
    LET n     == Len(b.edges)
        start == [waiting |-> b.indegree,
                  ready   |-> Ascending(n, {c \in 1..n : b.indegree[c] = 0}),
                  order   |-> <<>>]
        round[k \in 0..n] == IF k = 0 THEN start ELSE RunReady(b.edges, round[k - 1])
    IN  round

ExecutionOrder(b) == Running(b)[Len(b.edges)].order

(* Folder::graph: every check in the order of the code; one failure is as   *)
(* good as another, the folder is refused.                                  *)
Graph(folder) ==
    IF \E c \in DOMAIN folder.coders : ~ StreamArity(folder.coders[c]) THEN NoGraph
    ELSE LET b      == Bindings(folder)
             packed == PackedInputs(b, folder.packed)
             order  == ExecutionOrder(b)
         IN  IF /\ Len(b.inputs) <= MaxFolderStreams
                /\ Len(b.outputs) \in 1..MaxFolderStreams
                /\ b.ok
                /\ Cardinality(UnboundOutputs(b)) = 1
                /\ packed # <<>>
                /\ Len(order) = Len(folder.coders)
             THEN [ok      |-> TRUE,
                   order   |-> order,
                   packed  |-> packed,
                   final   |-> CHOOSE o \in UnboundOutputs(b) : TRUE,
                   inputs  |-> b.inputs,
                   outputs |-> b.outputs,
                   source  |-> b.source]
             ELSE NoGraph

(***************************************************************************)
(* What a graph must be, said without the algorithm.                       *)
(***************************************************************************)
\* How many streams the first c coders have.
StreamTotal(counts) ==
    LET total[c \in 0..Len(counts)] == IF c = 0 THEN 0 ELSE total[c - 1] + counts[c]
    IN  total

Owner(counts, stream) ==
    CHOOSE c \in 1..Len(counts) :
        StreamTotal(counts)[c - 1] <= stream /\ stream < StreamTotal(counts)[c]

\* Some pair binds an output of coder c to an input of coder d.
Feeds(folder, c, d) ==
    \E k \in 1..Len(folder.pairs) :
        /\ Owner(Outs(folder.coders), folder.pairs[k][2]) = c
        /\ Owner(Ins(folder.coders), folder.pairs[k][1]) = d

\* Among any coders there is one that waits for none of them.
Acyclic(folder) ==
    \A S \in SUBSET (1..Len(folder.coders)) :
        S # {} => \E d \in S : \A c \in S : ~ Feeds(folder, c, d)

(* A folder the decoder may accept: known arities, every stream named       *)
(* exists, every output but one feeds exactly one input, every other input  *)
(* is read from one packed stream, and no coder waits for its own output.   *)
WellFormed(folder) ==
    LET n     == Len(folder.coders)
        pairs == folder.pairs
        ins   == StreamTotal(Ins(folder.coders))[n]
        outs  == StreamTotal(Outs(folder.coders))[n]
        free  == (0..(ins - 1)) \ {pairs[k][1] : k \in 1..Len(pairs)}
    IN  /\ \A c \in 1..n : StreamArity(folder.coders[c])
        /\ ins <= MaxFolderStreams /\ outs \in 1..MaxFolderStreams
        /\ Len(pairs) = outs - 1
        /\ \A k \in 1..Len(pairs) : pairs[k][1] < ins /\ pairs[k][2] < outs
        /\ \A j, k \in 1..Len(pairs) :
              j # k => pairs[j][1] # pairs[k][1] /\ pairs[j][2] # pairs[k][2]
        /\ IF folder.packed = <<>> THEN Cardinality(free) = 1
           ELSE ToSet(folder.packed) = free /\ IsInjective(folder.packed)
        /\ Acyclic(folder)
=============================================================================
