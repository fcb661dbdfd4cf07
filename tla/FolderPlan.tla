------------------------------ MODULE FolderPlan ------------------------------
(***************************************************************************)
(* From a folder's graph to the readers that decode it                     *)
(* (src/src/codec/plan.rs, codec/sizes.rs, codec.rs): the topology is a    *)
(* chain of one-in one-out coders, or one BCJ2 coder fed by four chains;   *)
(* every coder's sizes are settled and the memory of all of them admitted  *)
(* before the first reader is built.  What a codec does to bytes is left   *)
(* out: a reader is the packed stream it starts from and the coders opened *)
(* on top of it, each reading from the one before.                         *)
(***************************************************************************)
EXTENDS FolderGraph

CONSTANTS
    Folders,            \* folders as a header may declare them
    Sizes,              \* sizes of packed streams and coder outputs
    UnpackSizes,        \* sizes of the decoded folder
    Memory,             \* method |-> its decoder's working set
    MemoryLimit,        \* max_decoder_working_set_bytes
    KdfLimit,           \* max_total_kdf_cycles, in key derivations
    MaxFolderCoders     \* MAX_FOLDER_CODERS

ASSUME FoldersAssumption == Folders \subseteq Folder

ASSUME SizesAssumption == Sizes \subseteq Nat /\ UnpackSizes \subseteq Nat

VARIABLES
    folder,             \* the declared folder
    password,           \* whether the caller gave one
    status,             \* "declared", "resolved", "planned", "ready", "refused"
    graph,              \* the FolderGraph
    plan,               \* channels: a packed slot and the DecodeSteps after it
    request,            \* the sizes it is decoded with
    readers,            \* per channel: the packed slot and the coders opened on it
    derived             \* key derivations charged

vars == <<folder, password, status, graph, request, plan, readers, derived>>

Preserving == {"Copy"}                          \* CoderPlan::preserves_size
SizeNeeded == {"Ppmd"}                          \* CoderPlan::Ppmd { size }
Decodable  == {"Copy", "Lzma", "Ppmd", "Aes"}   \* the arms of CoderPlan::compile
Unknown    == 0 - 1                             \* OutputSize::Unknown
Clash      == 0 - 2                             \* reconcile has failed
NoPlan     == [ok |-> FALSE]

Init ==
    /\ folder \in Folders
    /\ password \in BOOLEAN
    /\ status = "declared"
    /\ graph = NoGraph /\ request = <<>> /\ plan = NoPlan /\ readers = <<>> /\ derived = 0

Resolve ==
    /\ status = "declared"
    /\ graph' = Graph(folder)
    /\ status' = IF graph'.ok THEN "resolved" ELSE "refused"
    /\ UNCHANGED <<folder, password, request, plan, readers, derived>>

(***************************************************************************)
(* Sizes.  "declared" may be shorter than the folder's outputs when a      *)
(* caller decodes a folder on its own; the final size is always known.     *)
(***************************************************************************)
\* Faulty variant: two known sizes that differ go unnoticed.
ReconcileFirst(a, b) == IF a = Unknown THEN b ELSE a
Reconcile(a, b) ==
    IF Clash \in {a, b} \/ (Unknown \notin {a, b} /\ a # b) THEN Clash
    ELSE IF a = Unknown THEN b ELSE a

OutputSize(declared, unpack, o) ==
    IF o = graph.final THEN unpack
    ELSE IF o <= Len(declared) THEN declared[o] ELSE Unknown

\* A coder's step: "size" is what the table says of its output.
BindSize(c, size, input) ==
    [coder  |-> c, input |-> input,
     output |-> IF folder.coders[c].method \in Preserving
                THEN Reconcile(size, input) ELSE size]

\* A list of coders, the first of which reads "input" bytes.
BindSizes(coders, sizes, input) ==
    LET step[k \in 1..Len(coders)] ==
            BindSize(coders[k], sizes[k], IF k = 1 THEN input ELSE step[k - 1].output)
    IN  step

\* Walking back from the final size, a preserving coder tells its predecessor.
ChainSizes(declared, unpack) ==
    LET order == graph.order
        n     == Len(order)
        back[k \in 1..n] ==
            Reconcile(OutputSize(declared, unpack, order[k]),
                      IF k < n /\ folder.coders[order[k + 1]].method \in Preserving
                      THEN back[k + 1] ELSE Unknown)
    IN  back

Compiles(c, size) ==
    /\ folder.coders[c].method \in Decodable
    /\ folder.coders[c].props
    /\ folder.coders[c].method \in SizeNeeded => size # Unknown

StepMemory(steps) ==
    FoldLeft(LAMBDA sum, s : sum + Memory[folder.coders[s.coder].method], 0, steps)

ChainPlan(declared, packed, unpack) ==
    LET back  == ChainSizes(declared, unpack)
        steps == BindSizes(graph.order, back, packed[1])
    IN  IF /\ \A c \in DOMAIN folder.coders :
                 folder.coders[c].method \in DOMAIN Arity /\ folder.coders[c].ins = 1
                 /\ folder.coders[c].outs = 1
           /\ Len(packed) = 1
           /\ \A k \in DOMAIN back : back[k] # Clash /\ Compiles(graph.order[k], back[k])
           /\ \A k \in DOMAIN steps : steps[k].output # Clash
           /\ StepMemory(steps) <= MemoryLimit
        THEN [ok |-> TRUE, bcj2 |-> 0, channels |-> <<[slot |-> 1, steps |-> steps]>>]
        ELSE NoPlan

(***************************************************************************)
(* BCJ2: each of its four inputs is followed back, through one-in one-out  *)
(* coders, to a packed stream.                                             *)
(***************************************************************************)
Bcj2Coders == {c \in DOMAIN folder.coders : folder.coders[c].method = "Bcj2"}

\* One step back from an input.  The slot is 0 until a packed stream is met, and
\* the input is 0 once the way back is refused.
Follow(bcj2, t) ==
    LET o == graph.source[t.input]
        c == graph.outputs[o]
    IN  IF t.input = 0 \/ t.slot # 0 THEN t
        ELSE IF o = 0
        THEN [t EXCEPT !.slot = CHOOSE k \in DOMAIN graph.packed : graph.packed[k] = t.input]
        ELSE IF c = bcj2 \/ folder.coders[c].ins # 1 \/ folder.coders[c].outs # 1
        THEN [t EXCEPT !.input = 0]
        ELSE [t EXCEPT !.input = CHOOSE i \in DOMAIN graph.inputs : graph.inputs[i] = c,
                       !.coders = <<[coder |-> c, output |-> o]>> \o @]

\* No coder is met twice: as many steps as coders end the walk.
Walk(bcj2, input) ==
    LET walk[k \in 0..Len(folder.coders)] ==
            IF k = 0 THEN [input |-> input, coders |-> <<>>, slot |-> 0]
            ELSE Follow(bcj2, walk[k - 1])
    IN  walk

Channel(bcj2, input) == Walk(bcj2, input)[Len(folder.coders)]

Bcj2Inputs(bcj2) ==
    Ascending(Len(graph.inputs), {i \in DOMAIN graph.inputs : graph.inputs[i] = bcj2})

\* The four channels use distinct coders, and between them all but BCJ2 itself.
Bcj2Layout(bcj2) ==
    LET inputs   == Bcj2Inputs(bcj2)
        channels == [k \in DOMAIN inputs |-> Channel(bcj2, inputs[k])]
        used     == {p \in (DOMAIN channels) \X (DOMAIN folder.coders) :
                        p[2] \in DOMAIN channels[p[1]].coders}
        user(p)  == channels[p[1]].coders[p[2]].coder
    IN  IF /\ Cardinality(Bcj2Coders) = 1
           /\ graph.outputs[graph.final] = bcj2
           /\ Len(inputs) = 4
           /\ \A k \in DOMAIN channels : channels[k].slot # 0
           /\ \A p, q \in used : user(p) = user(q) => p = q
           /\ {user(p) : p \in used} = DOMAIN folder.coders \ {bcj2}
        THEN channels ELSE <<>>

Bcj2Plan(declared, packed, unpack) ==
    LET bcj2     == CHOOSE c \in Bcj2Coders : TRUE
        layout   == Bcj2Layout(bcj2)
        size(s)  == OutputSize(declared, unpack, s.output)
        steps(ch) == BindSizes([k \in DOMAIN ch.coders |-> ch.coders[k].coder],
                               [k \in DOMAIN ch.coders |-> size(ch.coders[k])], packed[ch.slot])
        length(ch) == IF ch.coders = <<>> THEN packed[ch.slot] ELSE Last(steps(ch)).output
        memory   == FoldLeft(LAMBDA sum, ch : sum + StepMemory(steps(ch)), Memory["Bcj2"], layout)
    IN  IF /\ folder.coders[bcj2].props
           /\ layout # <<>>
           /\ \A k \in DOMAIN layout : \A s \in ToSet(layout[k].coders) :
                 Compiles(s.coder, size(s))
           /\ \A k \in DOMAIN layout : \A s \in ToSet(steps(layout[k])) : s.output # Clash
           /\ \A k \in 1..3 : length(layout[k]) # Unknown
           /\ length(layout[1]) + length(layout[2]) + length(layout[3]) = unpack
           /\ memory + unpack <= MemoryLimit
        THEN [ok |-> TRUE, bcj2 |-> bcj2,
              channels |-> [k \in DOMAIN layout |->
                               [slot |-> layout[k].slot, steps |-> steps(layout[k])]]]
        ELSE NoPlan

ValidFolderCoderCount == Len(folder.coders) <= MaxFolderCoders

(* DecoderPlan::with_output_sizes.  A folder read from an archive has every *)
(* size declared and its packed streams counted off the pack table; a lone  *)
(* folder has one packed stream and perhaps fewer sizes.                    *)
Admissible(declared, packed, unpack) ==
    /\ Len(declared) <= Len(graph.outputs)
    /\ graph.final <= Len(declared) => declared[graph.final] = unpack
    /\ ValidFolderCoderCount
    /\ Len(packed) = Len(graph.packed)

Compile(declared, packed, unpack) ==
    /\ status = "resolved"
    /\ request' = <<declared, packed, unpack>>
    /\ plan' = IF ~ Admissible(declared, packed, unpack) THEN NoPlan
               ELSE IF Bcj2Coders # {} THEN Bcj2Plan(declared, packed, unpack)
               ELSE ChainPlan(declared, packed, unpack)
    /\ status' = IF plan'.ok THEN "planned" ELSE "refused"
    /\ readers' = IF plan'.ok
                  THEN [k \in DOMAIN plan'.channels |->
                           [slot |-> plan'.channels[k].slot, coders |-> <<>>]]
                  ELSE <<>>
    /\ UNCHANGED <<folder, password, graph, derived>>

(***************************************************************************)
(* Opening: channel by channel, from the packed stream up.                 *)
(***************************************************************************)
Pending == {k \in DOMAIN readers : Len(readers[k].coders) < Len(plan.channels[k].steps)}

NextStep(k) == plan.channels[k].steps[Len(readers[k].coders) + 1]

Open ==
    /\ status = "planned" /\ Pending # {}
    /\ LET k     == CHOOSE k \in Pending : \A j \in Pending : k <= j
           c     == NextStep(k).coder
           keyed == folder.coders[c].method = "Aes"
       IN  IF keyed /\ (~ password \/ derived = KdfLimit)
           THEN status' = "refused" /\ UNCHANGED <<readers, derived>>
           ELSE /\ readers' = [readers EXCEPT ![k].coders = Append(@, c)]
                /\ derived' = IF keyed THEN derived + 1 ELSE derived
                /\ UNCHANGED status
    /\ UNCHANGED <<folder, password, graph, request, plan>>

\* BCJ2 joins the four readers and decodes at once, which may fail.
Start ==
    /\ status = "planned" /\ Pending = {}
    /\ status' \in IF plan.bcj2 = 0 THEN {"ready"} ELSE {"ready", "refused"}
    /\ UNCHANGED <<folder, password, graph, request, plan, readers, derived>>

Done == status \in {"ready", "refused"} /\ UNCHANGED vars

Next ==
    \/ Resolve
    \/ /\ status = "resolved"
       /\ \E lone \in BOOLEAN, unpack \in UnpackSizes :
             \E packed   \in [1..(IF lone THEN 1 ELSE Len(graph.packed)) -> Sizes],
                declared \in IF lone THEN BoundedSeq(Sizes, Len(graph.outputs))
                                     ELSE [1..Len(graph.outputs) -> Sizes] :
                Compile(declared, packed, unpack)
    \/ Open
    \/ Start
    \/ Done

Spec == Init /\ [][Next]_vars
-----------------------------------------------------------------------------
Position(c) == CHOOSE k \in DOMAIN graph.order : graph.order[k] = c

FinalOwner == Owner(Outs(folder.coders), graph.final - 1)

(* Folder::graph accepts exactly the folders that can be decoded: with      *)
(* every stream accounted for once and no cycle.  Its order then runs every *)
(* coder once, after all coders it reads from; the final output is the one  *)
(* that feeds no coder; and the data of every coder ends up in it: coders   *)
(* that include the final one, and every coder that feeds one of them, are  *)
(* all there are.                                                           *)
GraphIsSound ==
    status # "declared" =>
        /\ graph.ok <=> WellFormed(folder)
        /\ graph.ok =>
            LET coders == 1..Len(folder.coders)
            IN  /\ Len(graph.order) = Len(folder.coders) /\ ToSet(graph.order) = coders
                /\ \A c, d \in coders : Feeds(folder, c, d) => Position(c) < Position(d)
                /\ \A k \in DOMAIN folder.pairs : folder.pairs[k][2] # graph.final - 1
                /\ \A R \in SUBSET coders :
                      /\ FinalOwner \in R
                      /\ \A c \in coders, d \in R : Feeds(folder, c, d) => c \in R
                      => R = coders

\* The first input of coder c; its others follow.
FirstInput(c) == StreamTotal(Ins(folder.coders))[c - 1]

\* What is opened on reader r up to its j-th coder is bound to input i: an
\* output of that coder, or the packed stream when there is none.
BoundTo(r, j, i) ==
    IF j = 0
    THEN /\ \A k \in DOMAIN folder.pairs : folder.pairs[k][1] # i
         /\ IF folder.packed = <<>> THEN r.slot = 1
            ELSE r.slot \in DOMAIN folder.packed /\ folder.packed[r.slot] = i
    ELSE \E k \in DOMAIN folder.pairs :
            /\ folder.pairs[k][1] = i
            /\ Owner(Outs(folder.coders), folder.pairs[k][2]) = r.coders[j]

(* The readers a plan opens compute what the folder declares: every coder   *)
(* is opened once and has one input, bound to what it is opened on; what is *)
(* returned is the final coder, or the four readers are BCJ2's inputs, in   *)
(* the order of its streams, and BCJ2 the final coder.                      *)
ReadersFollowTheGraph ==
    status = "ready" =>
        /\ \A k \in DOMAIN readers : \A j \in DOMAIN readers[k].coders :
              LET c == readers[k].coders[j]
              IN  /\ folder.coders[c].ins = 1 /\ folder.coders[c].outs = 1
                  /\ BoundTo(readers[k], j - 1, FirstInput(c))
        /\ \A k, l \in DOMAIN readers :
              \A i \in DOMAIN readers[k].coders, j \in DOMAIN readers[l].coders :
                  readers[k].coders[i] = readers[l].coders[j] => k = l /\ i = j
        /\ UNION {ToSet(readers[k].coders) : k \in DOMAIN readers}
               = (1..Len(folder.coders)) \ {plan.bcj2}
        /\ IF plan.bcj2 = 0
           THEN Len(readers) = 1 /\ FinalOwner = Last(readers[1].coders)
           ELSE /\ FinalOwner = plan.bcj2
                /\ Len(readers) = folder.coders[plan.bcj2].ins
                /\ \A k \in DOMAIN readers :
                      BoundTo(readers[k], Len(readers[k].coders), FirstInput(plan.bcj2) + k - 1)

(* The sizes of a plan fit together: what a coder reads is what the one     *)
(* before it writes, a coder that preserves sizes writes what it reads, no  *)
(* declared size is overruled, a codec without an end mark knows its size.  *)
SizesFit ==
    plan.ok =>
        \A ch \in ToSet(plan.channels) : \A k \in DOMAIN ch.steps :
            LET step     == ch.steps[k]
                method   == folder.coders[step.coder].method
                declared == OutputSize(request[1], request[3],
                                CHOOSE o \in DOMAIN graph.outputs : graph.outputs[o] = step.coder)
            IN  /\ step.input = IF k = 1 THEN request[2][ch.slot] ELSE ch.steps[k - 1].output
                /\ method \in Preserving => step.output = step.input
                /\ declared # Unknown => step.output = declared
                /\ method \in SizeNeeded => step.output # Unknown
=============================================================================
