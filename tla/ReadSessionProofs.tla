-------------------------- MODULE ReadSessionProofs --------------------------
(***************************************************************************)
(* Proofs of the safety properties of ReadSession, for every archive       *)
(* layout, every damage and every limit its assumptions admit.             *)
(*                                                                         *)
(* The properties are not inductive by themselves.  IInv adds where the    *)
(* shared decoder stands (DecoderInv, PositionInv), what has been checked  *)
(* on the way there (ChecksInv), what the scope claims of the folders left *)
(* behind (ScopeInv), which read may outrun cancellation (LateInv) and     *)
(* what of an eager folder is already paid for (BudgetInv).  Each part has *)
(* a lemma with one step per action; the theorems follow at the end.       *)
(***************************************************************************)
EXTENDS ReadSession, TLAPS

(* Facts about the constants, in the small portions the provers want. *)
LEMMA NatFacts ==
  Files \in Nat /\ Folders \in Nat /\ Streams \in Nat /\ MaxDecoded \in Nat
BY SizesAssumption

LEMMA LayoutTypes ==
  /\ FirstStream \in [1 .. Folders + 1 -> 1 .. Streams + 1]
  /\ FolderOf \in [Stream -> Folder]
  /\ Size \in [Stream -> Nat] /\ End \in [Stream -> Nat] /\ Unpack \in [Folder -> Nat]
BY LayoutAssumption

(* A data entry has a substream. *)
LEMMA StreamOfType ==
  /\ StreamOf \in [0 .. Files -> 0 .. Streams]
  /\ \A e \in Entry : Kind[e] = "stream" => StreamOf[e] \in Stream
<1>1. StreamOf \in [0 .. Files -> 0 .. Streams]
  BY EntriesAssumption
<1>2. ASSUME NEW e \in Entry, Kind[e] = "stream" PROVE StreamOf[e] \in Stream
  <2>1. StreamOf[e] = StreamOf[e - 1] + 1
    BY <1>2, EntriesAssumption
  <2> QED
    BY <1>1, <2>1, NatFacts DEF Entry, Stream
<1> QED
  BY <1>1, <1>2

LEMMA FirstStreamType ==
  ASSUME NEW f \in Folder
  PROVE  FirstStream[f] \in 1 .. Streams + 1 /\ FirstStream[f + 1] \in 1 .. Streams + 1
<1>1. f \in 1 .. Folders + 1 /\ f + 1 \in 1 .. Folders + 1
  BY NatFacts DEF Folder
<1> QED
  BY <1>1, LayoutTypes

LEMMA FirstStreamGrows ==
  ASSUME NEW f \in Folder
  PROVE  /\ FirstStream[f] <= FirstStream[f + 1]
         /\ \A g \in Folder : g < f => FirstStream[g + 1] <= FirstStream[f]
<1>1. f \in 1 .. Folders + 1 /\ f + 1 \in 1 .. Folders + 1 /\ f <= f + 1
  BY NatFacts DEF Folder
<1>2. \A g \in Folder : g < f => g + 1 \in 1 .. Folders + 1 /\ g + 1 <= f
  BY NatFacts DEF Folder
<1> QED
  BY <1>1, <1>2, LayoutAssumption

(* What a failing call leaves behind has the right types. *)
LEMMA CallFailsTypes ==
  ASSUME TypeOK, CallFails
  PROVE  /\ pc' \in {"idle", "closed"} /\ job' = "none" /\ got' = {}
         /\ last' \in Outcome
         /\ failedEntries' \in SUBSET Entry
         /\ okEntries' = okEntries /\ pending' = pending
<1>1. pc' \in {"idle", "closed"} /\ job' = "none" /\ got' = {}
      /\ okEntries' = okEntries /\ pending' = pending
  BY DEF CallFails
<1>2. entry \in 0 .. Files + 1
  BY NatFacts DEF TypeOK
<1>3. last' \in Outcome
  BY <1>2 DEF TypeOK, CallFails, Outcome
<1>4. failedEntries' \in SUBSET Entry
  BY DEF TypeOK, CallFails
<1> QED
  BY <1>1, <1>3, <1>4

(* The same of an entry read to its end. *)
LEMMA EntrySucceedsTypes ==
  ASSUME TypeOK, EntrySucceeds, entry \in Entry
  PROVE  /\ pc' = "idle" /\ job' = "none" /\ got' = {}
         /\ last' \in Outcome
         /\ failedEntries' = failedEntries
         /\ okEntries' \in SUBSET Entry /\ pending' \in SUBSET Entry
<1>1. pc' = "idle" /\ job' = "none" /\ got' = {} /\ failedEntries' = failedEntries
      /\ okEntries' \in SUBSET Entry /\ pending' \in SUBSET Entry
  BY DEF EntrySucceeds, TypeOK
<1>2. entry \in 0 .. Files + 1
  BY NatFacts DEF TypeOK
<1>3. last' \in Outcome
  BY <1>2 DEF TypeOK, EntrySucceeds, Outcome
<1> QED
  BY <1>1, <1>3

(* The substream that Substreams yields next lies in the active folder. *)
LEMMA NextStream ==
  ASSUME TypeOK, DecoderInv, decoder.folder # 0,
         decoder.pos < FirstStream[decoder.folder + 1]
  PROVE  /\ decoder.folder \in Folder
         /\ decoder.pos \in Stream
         /\ Size[decoder.pos] \in Nat
         /\ FolderOf[decoder.pos] = decoder.folder
<1>1. decoder.folder \in Folder /\ decoder.pos \in Nat
  BY NatFacts DEF TypeOK, Decoder, Folder
<1>2. FirstStream[decoder.folder] <= decoder.pos
  BY DEF DecoderInv
<1>3. /\ FirstStream[decoder.folder] \in 1 .. Streams + 1
      /\ FirstStream[decoder.folder + 1] \in 1 .. Streams + 1
  BY <1>1, FirstStreamType
<1>4. decoder.pos \in Stream
  BY <1>1, <1>2, <1>3, NatFacts DEF Stream
<1>5. Size[decoder.pos] \in Nat
  BY <1>4, LayoutTypes
<1>6. FolderOf[decoder.pos] = decoder.folder
  BY <1>1, <1>2, <1>4, LayoutAssumption
<1> QED
  BY <1>1, <1>4, <1>5, <1>6

(* The entry a data call is running for, and the folder it lies in. *)
LEMMA RunningEntry ==
  ASSUME CallInv, job = "entry"
  PROVE  entry \in Entry /\ StreamOf[entry] \in Stream /\ TargetFolder \in Folder
<1>1. entry \in Entry /\ Kind[entry] = "stream"
  BY DEF CallInv
<1>2. StreamOf[entry] \in Stream
  BY <1>1, StreamOfType
<1> QED
  BY <1>1, <1>2, LayoutTypes DEF TargetFolder

(* A position at or before a substream lies before the end of its folder. *)
LEMMA SeekInRange ==
  ASSUME NEW s \in Stream, NEW p \in Nat, p <= s
  PROVE  p < FirstStream[FolderOf[s] + 1]
<1>1. FolderOf[s] \in Folder
  BY LayoutTypes
<1>2. s < FirstStream[FolderOf[s] + 1]
  BY <1>1, LayoutAssumption
<1>3. FirstStream[FolderOf[s] + 1] \in Nat
  BY <1>1, NatFacts, LayoutTypes, SMTT(30) DEF Folder
<1> QED
  BY <1>2, <1>3, NatFacts DEF Stream

LEMMA FolderOfType == \A s \in Stream : FolderOf[s] \in Folder /\ FolderOf[s] # 0
<1>1. \A s \in Stream : FolderOf[s] \in Folder
  BY LayoutTypes
<1> QED
  BY <1>1, NatFacts DEF Folder

(* The substream a seek or a drained tail opens next. *)
LEMMA SeekReady ==
  ASSUME TypeOK, CallInv, DecoderInv, PositionInv, pc = "seek"
  PROVE  /\ decoder.folder # 0 /\ decoder.folder = TargetFolder
         /\ decoder.pos <= StreamOf[entry]
         /\ decoder.pos < FirstStream[decoder.folder + 1]
<1>1. job = "entry"
  BY DEF CallInv, InEntry
<1>2. decoder.folder # 0 /\ decoder.folder = TargetFolder /\ decoder.pos <= StreamOf[entry]
  BY DEF DecoderInv, PositionInv
<1>3. StreamOf[entry] \in Stream /\ decoder.pos \in Nat
  BY <1>1, RunningEntry, NatFacts DEF TypeOK, Decoder
<1>4. decoder.pos < FirstStream[decoder.folder + 1]
  BY <1>2, <1>3, SeekInRange DEF TargetFolder
<1> QED
  BY <1>2, <1>4

LEMMA TailReady ==
  ASSUME TypeOK, DecoderInv, pc = "complete", StreamsLeft # 0
  PROVE  decoder.folder # 0 /\ decoder.pos < FirstStream[decoder.folder + 1]
<1>1. decoder.folder # 0
  BY DEF DecoderInv
<1>2. decoder.folder \in Folder /\ decoder.pos \in Nat
  BY <1>1, NatFacts DEF TypeOK, Decoder, Folder
<1>3. FirstStream[decoder.folder + 1] \in Nat
  BY <1>2, NatFacts, FirstStreamType
<1> QED
  BY <1>1, <1>2, <1>3 DEF StreamsLeft, DecoderInv

(* Opening a substream moves Offset by exactly its size. *)
LEMMA OpenStreamDecoder ==
  ASSUME TypeOK, DecoderInv, OpenStream, damage' = damage, pc \notin Reading,
         pc' \in Reading, decoder.folder # 0,
         decoder.pos < FirstStream[decoder.folder + 1]
  PROVE  DecoderInv'
<1>1. /\ decoder.folder \in Folder /\ decoder.pos \in Stream
      /\ Size[decoder.pos] \in Nat /\ FolderOf[decoder.pos] = decoder.folder
  BY NextStream
<1>2. /\ decoder'.folder = decoder.folder /\ decoder'.pos = decoder.pos + 1
      /\ decoder'.decoded = decoder.decoded /\ decoder'.remaining = Size[decoder.pos]
      /\ decoder'.hashed = decoder.hashed /\ decoder'.streamHashed = {}
  BY DEF OpenStream, ActiveFolder
<1>3. /\ FirstStream[decoder.folder] <= decoder.pos /\ decoder.remaining = 0
      /\ decoder.decoded + decoder.remaining = Offset
      /\ decoder.hashed = 0 .. decoder.decoded - 1
      /\ decoder.decoded <= damage[decoder.folder].len
  BY DEF DecoderInv
<1>4. FirstStream[decoder.folder] \in Nat /\ FirstStream[decoder.folder + 1] \in Nat
      /\ decoder.pos \in Nat /\ decoder.decoded \in Nat
  BY <1>1, FirstStreamType, NatFacts DEF TypeOK, Decoder, Stream
<1>5. /\ decoder.pos + 1 # FirstStream[decoder.folder]
      /\ decoder.pos + 1 - 1 = decoder.pos
      /\ FirstStream[decoder.folder] < decoder.pos + 1
      /\ decoder.pos + 1 <= FirstStream[decoder.folder + 1]
  BY <1>3, <1>4
<1>6. decoder.decoded = Offset
  BY <1>3, <1>4
<1>7. End[decoder.pos] = Size[decoder.pos] + Offset
  BY <1>1, LayoutAssumption DEF Offset
<1>8. Offset' = End[decoder.pos]
  BY <1>2, <1>4, <1>5 DEF Offset
<1>9. decoder.decoded + Size[decoder.pos] = End[decoder.pos]
  BY <1>1, <1>4, <1>6, <1>7
<1>10. (End[decoder.pos] - Size[decoder.pos]) .. decoder.decoded - 1 = {}
  BY <1>1, <1>4, <1>9
<1>11. Size[decoder.pos] <= Size[decoder.pos]
  BY <1>1
<1>12. decoder'.pos - 1 = decoder.pos /\ FirstStream[decoder.folder] <= decoder.pos + 1
  BY <1>2, <1>3, <1>4
<1>13. pc' \notin {"complete", "seek", "open", "finishCheck"}
  BY DEF Reading
<1> QED
  BY <1>2, <1>3, <1>5, <1>8, <1>9, <1>10, <1>11, <1>12, <1>13 DEF DecoderInv

(* A chunk moves decoded_len and the digests by one offset. *)
LEMMA ChunkDecoder ==
  ASSUME TypeOK, DecoderInv, ChunkReady, HashChunk, damage' = damage, pc \in Reading, pc' = pc
  PROVE  DecoderInv'
<1> DEFINE s == decoder.pos - 1
<1>1. decoder.folder # 0 /\ decoder.folder \in Folder
  BY NatFacts DEF DecoderInv, TypeOK, Decoder, Folder
<1>2. /\ FirstStream[decoder.folder] < decoder.pos
      /\ decoder.pos <= FirstStream[decoder.folder + 1]
      /\ decoder.decoded + decoder.remaining = Offset
      /\ decoder.hashed = 0 .. decoder.decoded - 1
      /\ decoder.remaining <= Size[s]
      /\ decoder.streamHashed = (End[s] - Size[s]) .. decoder.decoded - 1
  BY <1>1 DEF DecoderInv
<1>3. /\ decoder'.folder = decoder.folder /\ decoder'.pos = decoder.pos
      /\ decoder'.decoded = decoder.decoded + 1 /\ decoder'.remaining = decoder.remaining - 1
      /\ decoder'.hashed = decoder.hashed \cup {decoder.decoded}
      /\ decoder'.streamHashed = decoder.streamHashed \cup {decoder.decoded}
  BY DEF HashChunk, ActiveFolder
<1>4. /\ FirstStream[decoder.folder] \in 1 .. Streams + 1
      /\ FirstStream[decoder.folder + 1] \in 1 .. Streams + 1
      /\ decoder.pos \in Nat /\ decoder.decoded \in Nat /\ decoder.remaining \in Nat
      /\ damage[decoder.folder].len \in Nat
  BY <1>1, FirstStreamType DEF TypeOK, Decoder, Damage
<1>5. s \in Stream
  BY <1>2, <1>4, NatFacts, SMTT(30) DEF Stream
<1>6. Size[s] \in Nat /\ End[s] \in Nat
  BY <1>5, LayoutTypes
<1>7. Offset = End[s] /\ Offset' = Offset
  BY <1>2, <1>3, <1>4 DEF Offset
<1>8. decoder.remaining > 0 /\ decoder.decoded < damage[decoder.folder].len
  BY DEF ChunkReady
<1>9. /\ decoder.decoded + 1 + (decoder.remaining - 1) = Offset
      /\ decoder.remaining - 1 <= Size[s]
      /\ decoder.decoded + 1 <= damage[decoder.folder].len
      /\ FirstStream[decoder.folder] <= decoder.pos
      /\ End[s] - Size[s] <= decoder.decoded
  <2>1. decoder.decoded + decoder.remaining = End[s] /\ decoder.remaining <= Size[s]
    BY <1>2, <1>7
  <2>2. End[s] - Size[s] <= decoder.decoded
    BY <1>4, <1>6, <2>1
  <2>3. FirstStream[decoder.folder] <= decoder.pos
    BY <1>2, <1>4
  <2>4. decoder.remaining - 1 <= Size[s] /\ decoder.decoded + 1 <= damage[decoder.folder].len
    BY <1>4, <1>6, <1>8, <2>1
  <2>5. decoder.decoded + 1 + (decoder.remaining - 1) = Offset
    BY <1>2, <1>4, SMTT(30)
  <2> QED
    BY <2>2, <2>3, <2>4, <2>5
<1>10. (0 .. decoder.decoded - 1) \cup {decoder.decoded} = 0 .. decoder.decoded + 1 - 1
  BY <1>4
<1>11. ((End[s] - Size[s]) .. decoder.decoded - 1) \cup {decoder.decoded}
         = (End[s] - Size[s]) .. decoder.decoded + 1 - 1
  <2>1. End[s] - Size[s] \in Int /\ End[s] - Size[s] <= decoder.decoded
    BY <1>6, <1>9
  <2>2. \A a \in Int : a <= decoder.decoded
           => (a .. decoder.decoded - 1) \cup {decoder.decoded} = a .. decoder.decoded + 1 - 1
    BY <1>4
  <2> QED
    BY <2>1, <2>2
<1> QED
  BY <1>1, <1>2, <1>3, <1>7, <1>9, <1>10, <1>11 DEF DecoderInv, Reading

(* StreamOf counts, so it never decreases. *)
LEMMA StreamOfMonotone ==
  ASSUME NEW d \in 0 .. Files, NEW e \in 0 .. Files, d <= e
  PROVE  StreamOf[d] <= StreamOf[e]
<1>1. StreamOf[e] \in Nat
  BY StreamOfType, NatFacts
<1>2. CASE d = 0  BY <1>1, <1>2, EntriesAssumption
<1>3. CASE d # 0  BY <1>3, NatFacts, EntriesAssumption DEF Entry
<1> QED
  BY <1>2, <1>3

(* While an entry is looked up, the decoder has not passed its substream. *)
LEMMA ReadPosition ==
  ASSUME TypeOK, CallInv, PositionInv, pc = "read", decoder.folder # 0
  PROVE  /\ decoder.pos <= StreamOf[entry - 1] + 1
         /\ decoder.pos <= StreamOf[entry] + 1
         /\ Kind[entry] = "stream" => decoder.pos <= StreamOf[entry]
<1>1. /\ entry \in Entry /\ entry - 1 \in 0 .. Files /\ entry \in 0 .. Files
      /\ nextEntry - 1 \in 0 .. Files /\ nextEntry - 1 <= entry - 1 /\ entry - 1 <= entry
  BY NatFacts DEF TypeOK, CallInv, Entry
<1>2. StreamOf[nextEntry - 1] <= StreamOf[entry - 1] /\ StreamOf[entry - 1] <= StreamOf[entry]
  BY <1>1, StreamOfMonotone
<1>3. /\ StreamOf[nextEntry - 1] \in Nat /\ StreamOf[entry - 1] \in Nat
      /\ StreamOf[entry] \in Nat /\ decoder.pos \in Nat
  BY <1>1, StreamOfType, NatFacts DEF TypeOK, Decoder
<1>4. decoder.pos <= StreamOf[nextEntry - 1] + 1
  BY DEF PositionInv
<1>5. Kind[entry] = "stream" => StreamOf[entry] = StreamOf[entry - 1] + 1
  BY <1>1, EntriesAssumption
<1> QED
  BY <1>2, <1>3, <1>4, <1>5

(* A folder that passed FolderChecks agrees with everything the archive    *)
(* records about it: its streams were checked one by one (ChecksInv) and   *)
(* the decoder stands at its declared end.                                 *)
LEMMA CompletedIsIntact ==
  ASSUME TypeOK, DecoderInv, ChecksInv, pc = "complete", StreamsLeft = 0, FolderChecks
  PROVE  Intact(decoder.folder)
<1> DEFINE f == decoder.folder
<1>1. f \in Folder /\ f # 0
  BY NatFacts DEF DecoderInv, TypeOK, Decoder, Folder
<1>2. damage[f].len \in Nat /\ decoder.decoded \in Nat /\ Unpack[f] \in Nat /\ decoder.pos \in Nat
  BY <1>1, LayoutTypes, NatFacts DEF TypeOK, Damage, Decoder
<1>3. damage[f].len = Unpack[f] /\ damage[f].ends = "eof"
  BY <1>1, <1>2 DEF FolderChecks, DecoderInv
<1>4. f \in FolderCrc => damage[f].corrupt \cap (0 .. Unpack[f] - 1) = {}
  BY DEF FolderChecks
<1>5. ASSUME NEW s \in StreamCrc, FolderOf[s] = f
      PROVE  damage[f].corrupt \cap Range(s) = {}
  <2>1. s \in Stream
    BY SizesAssumption
  <2>2. s < FirstStream[f + 1]
    BY <1>1, <1>5, <2>1, LayoutAssumption
  <2>3. FirstStream[f + 1] = decoder.pos
    <3>1. FirstStream[f + 1] \in Nat
      BY <1>1, FirstStreamType, NatFacts
    <3> QED
      BY <1>2, <3>1 DEF StreamsLeft
  <2>4. pc \notin Reading
    BY DEF Reading
  <2> QED
    BY <1>5, <2>1, <2>2, <2>3, <2>4 DEF ChecksInv, SubstreamIntact
<1> QED
  BY <1>3, <1>4, <1>5 DEF Intact

LEMMA EagerFolders == Eager \subseteq Folder
BY SizesAssumption

LEMMA NoFolderIsEager == 0 \notin Eager
BY EagerFolders, NatFacts DEF Folder

(* The decoder never passes its folder's declared size. *)
LEMMA PrepaidIsNat ==
  ASSUME TypeOK, DecoderInv
  PROVE  Prepaid \in Nat
<1>1. CASE decoder.folder \notin Eager  BY <1>1 DEF Prepaid
<1>2. CASE decoder.folder \in Eager
  <2>1. decoder.folder \in Folder /\ decoder.folder # 0
    <3>1. decoder.folder \in Folder
      BY <1>2, EagerFolders
    <3> QED
      BY <3>1, NatFacts DEF Folder
  <2>2. /\ Unpack[decoder.folder] \in Nat /\ decoder.decoded \in Nat /\ decoder.remaining \in Nat
        /\ decoder.pos \in Nat
    BY <2>1, LayoutTypes, NatFacts DEF TypeOK, Decoder
  <2>3. /\ decoder.decoded + decoder.remaining = Offset
        /\ FirstStream[decoder.folder] <= decoder.pos
        /\ decoder.pos <= FirstStream[decoder.folder + 1]
    BY <2>1 DEF DecoderInv
  <2>4. Offset \in Nat /\ Offset <= Unpack[decoder.folder]
    <3>1. CASE decoder.pos = FirstStream[decoder.folder]
      BY <2>2, <3>1 DEF Offset
    <3>2. CASE decoder.pos # FirstStream[decoder.folder]
      <4>1. /\ FirstStream[decoder.folder] \in 1 .. Streams + 1
            /\ FirstStream[decoder.folder + 1] \in 1 .. Streams + 1
        BY <2>1, FirstStreamType
      <4>2. /\ decoder.pos - 1 \in Stream
            /\ FirstStream[decoder.folder] <= decoder.pos - 1
            /\ decoder.pos - 1 < FirstStream[decoder.folder + 1]
        <5>1. /\ FirstStream[decoder.folder] \in Nat /\ FirstStream[decoder.folder] >= 1
              /\ FirstStream[decoder.folder + 1] \in Nat
              /\ FirstStream[decoder.folder + 1] <= Streams + 1
          BY <4>1, NatFacts
        <5>2. FirstStream[decoder.folder] < decoder.pos
          <6>1. \A i, j \in Nat : i <= j /\ j # i => i < j
            OBVIOUS
          <6> QED
            BY <2>2, <2>3, <3>2, <5>1, <6>1
        <5> QED
          BY <2>2, <2>3, <5>1, <5>2, NatFacts DEF Stream
      <4>3. FolderOf[decoder.pos - 1] = decoder.folder
        BY <2>1, <4>2, LayoutAssumption
      <4>4. End[decoder.pos - 1] <= Unpack[decoder.folder]
        BY <4>2, <4>3, LayoutAssumption
      <4>5. End[decoder.pos - 1] \in Nat
        BY <4>2, LayoutTypes
      <4> QED
        BY <3>2, <4>4, <4>5 DEF Offset
    <3> QED
      BY <3>1, <3>2
  <2> QED
    BY <1>2, <2>2, <2>3, <2>4 DEF Prepaid
<1> QED
  BY <1>1, <1>2

(* Dropping the decoder forgoes what is prepaid. *)
LEMMA DropKeepsBudget ==
  ASSUME TypeOK, DecoderInv, BudgetInv, decoder' = NoDecoder, UNCHANGED <<charged, produced>>
  PROVE  BudgetInv'
<1>1. Prepaid' = 0
  BY NoFolderIsEager DEF Prepaid, NoDecoder, ActiveFolder
<1>2. Prepaid \in Nat /\ charged \in Nat /\ produced \in Nat
  BY PrepaidIsNat DEF TypeOK
<1> QED
  BY <1>1, <1>2 DEF BudgetInv

(* Opening a substream decodes nothing. *)
LEMMA OpenStreamKeepsBudget ==
  ASSUME BudgetInv, OpenStream, UNCHANGED <<charged, produced>>
  PROVE  BudgetInv'
BY DEF BudgetInv, Prepaid, OpenStream, ActiveFolder

(* A chunk is either prepaid or charged when it is read. *)
LEMMA ChunkKeepsBudget ==
  ASSUME TypeOK, DecoderInv, BudgetInv, ChunkReady, TakeChunk, HashChunk
  PROVE  BudgetInv'
<1>1. /\ produced \in Nat /\ charged \in Nat /\ MaxDecoded \in Nat
      /\ decoder.decoded \in Nat /\ produced' = produced + 1
  BY NatFacts DEF TypeOK, Decoder, TakeChunk
<1>2. decoder'.folder = decoder.folder /\ decoder'.decoded = decoder.decoded + 1
  BY DEF HashChunk, ActiveFolder
<1>3. CASE decoder.folder \in Eager
  <2>1. Prepaid' = Prepaid - 1
    <3>1. Unpack[decoder.folder] \in Nat
      BY <1>3, SizesAssumption, LayoutTypes
    <3> QED
      BY <1>1, <1>2, <1>3, <3>1 DEF Prepaid
  <2>2. charged' = charged
    BY <1>3 DEF TakeChunk, PaysPerChunk
  <2>3. Prepaid \in Nat
    BY PrepaidIsNat
  <2> QED
    BY <1>1, <2>1, <2>2, <2>3 DEF BudgetInv
<1>4. CASE decoder.folder \notin Eager
  <2>1. Prepaid = 0 /\ Prepaid' = 0
    BY <1>2, <1>4 DEF Prepaid
  <2>2. charged' = charged + 1 /\ charged # MaxDecoded
    BY <1>4 DEF TakeChunk, PaysPerChunk, ChunkReady, OverLimit
  <2> QED
    BY <1>1, <2>1, <2>2 DEF BudgetInv
<1> QED
  BY <1>3, <1>4

(* What each kind of step makes of the decoder is a decoder. *)
LEMMA NoDecoderType == NoDecoder \in Decoder
BY NatFacts DEF NoDecoder, ActiveFolder, Decoder

LEMMA OpenStreamType ==
  ASSUME TypeOK, OpenStream, decoder.pos \in Stream, Size[decoder.pos] \in Nat
  PROVE  decoder' \in Decoder
BY NatFacts DEF TypeOK, OpenStream, ActiveFolder, Decoder, Stream

LEMMA HashChunkType ==
  ASSUME TypeOK, ChunkReady, HashChunk
  PROVE  decoder' \in Decoder
<1>1. decoder \in Decoder
  BY DEF TypeOK
<1>2. decoder.remaining - 1 \in Nat /\ decoder.decoded \in Nat
  BY <1>1 DEF ChunkReady, Decoder
<1> QED
  BY <1>1, <1>2 DEF HashChunk, ActiveFolder, Decoder

LEMMA TakeChunkTypes ==
  ASSUME TypeOK, TakeChunk
  PROVE  /\ charged' \in Nat /\ produced' \in Nat /\ lateChunks' \in Nat
         /\ checked' \in BOOLEAN
<1>1. charged \in Nat /\ produced \in Nat /\ lateChunks \in Nat
  BY DEF TypeOK
<1>2. charged' \in {charged, charged + 1} /\ produced' = produced + 1
  BY DEF TakeChunk
<1>3. lateChunks' \in {lateChunks, lateChunks + 1}
  BY DEF TakeChunk
<1>4. checked' \in BOOLEAN
  BY DEF TakeChunk
<1> QED
  BY <1>1, <1>2, <1>3, <1>4

(* What a failing decoder leaves behind has the right types. *)
LEMMA DecodeFailsTypes ==
  ASSUME TypeOK, DecodeFails
  PROVE  /\ pc' \in {"idle", "closed"} /\ job' = "none" /\ got' = {}
         /\ last' \in Outcome /\ failedEntries' \in SUBSET Entry
         /\ okEntries' = okEntries /\ pending' = pending
         /\ decoder' \in Decoder /\ verification' \in Scope
BY CallFailsTypes, NoDecoderType DEF DecodeFails, Scope

(* The entry a read is looking for, and the entry after it. *)
LEMMA ReadEntry ==
  ASSUME TypeOK, CallInv, pc = "read"
  PROVE  entry \in Entry /\ entry \in 1 .. Files + 1 /\ entry + 1 \in 1 .. Files + 1
<1>1. nextEntry \in 1 .. Files + 1 /\ entry \in nextEntry .. Files
  BY DEF TypeOK, CallInv
<1> QED
  BY <1>1, NatFacts DEF Entry

(* Types. *)
LEMMA TypeStep == TypeOK /\ CallInv /\ DecoderInv /\ PositionInv /\ [Next]_vars => TypeOK'
<1> SUFFICES ASSUME TypeOK, CallInv, DecoderInv, PositionInv, [Next]_vars PROVE TypeOK'
  OBVIOUS
<1> USE DEF TypeOK, Reading, archive, observed, reader
<1>1. CASE Cancel  BY <1>1 DEF Cancel
<1>2. ASSUME NEW e \in 1 .. Files + 1, RejectIndex(e) PROVE TypeOK'
  <2>1. last' \in Outcome
    BY <1>2, NatFacts DEF RejectIndex, Outcome
  <2> QED
    BY <1>2, <2>1 DEF RejectIndex
<1>3. ASSUME NEW e \in Entry, Request(e) PROVE TypeOK'
  <2>1. entry' \in 0 .. Files
    BY <1>3, NatFacts DEF Request, Entry
  <2> QED
    BY <1>3, <2>1 DEF Request
<1>4. CASE Finish
  <2>1. entry' \in 0 .. Files
    BY <1>4, NatFacts DEF Finish
  <2> QED
    BY <1>4, <2>1 DEF Finish
<1>5. CASE DropSession  BY <1>5, NoDecoderType DEF DropSession
<1>6. CASE LayoutError
  <2>1. nextEntry' \in 1 .. Files + 1
    BY <1>6, ReadEntry DEF LayoutError
  <2> QED
    BY <1>6, <2>1, CallFailsTypes DEF LayoutError
<1>7. CASE VisitDirectory
  <2>1. nextEntry' \in 1 .. Files + 1
    BY <1>7, ReadEntry DEF VisitDirectory, Located
  <2>2. last' \in Outcome
    BY <1>7, NatFacts DEF VisitDirectory, Outcome
  <2> QED
    BY <1>7, <2>1, <2>2 DEF VisitDirectory
<1>8. CASE ReadFails
  <2>1. nextEntry' \in 1 .. Files + 1
    BY <1>8, ReadEntry DEF ReadFails, Located
  <2> QED
    BY <1>8, <2>1, CallFailsTypes DEF ReadFails, Scope
<1>9. CASE ReadEmpty
  <2>1. nextEntry' \in 1 .. Files + 1 /\ entry \in Entry
    BY <1>9, ReadEntry DEF ReadEmpty, Located
  <2> QED
    BY <1>9, <2>1, EntrySucceedsTypes DEF ReadEmpty
<1>10. CASE ReadStream
  <2>1. nextEntry' \in 1 .. Files + 1
    BY <1>10, ReadEntry DEF ReadStream, Located
  <2> QED
    BY <1>10, <2>1 DEF ReadStream
<1>11. CASE FinishTables
  <2>1. last' \in Outcome
    BY <1>11, NatFacts DEF FinishTables, Outcome
  <2> QED
    BY <1>11, <2>1 DEF FinishTables
<1>12. CASE FinishCheck
  <2>1. last' \in Outcome
    BY <1>12, NatFacts DEF FinishCheck, Outcome
  <2> QED
    BY <1>12, <2>1 DEF FinishCheck
<1>13. CASE LeaveTail
  BY <1>13, NoDecoderType DEF LeaveTail, Completed, AfterComplete, Combine, Scope
<1>14. CASE DrainTail
  <2>1. decoder.folder # 0
    BY <1>14 DEF DrainTail, DecoderInv
  <2>2. decoder.folder \in Folder /\ decoder.pos \in Nat
    BY <2>1, NatFacts DEF Decoder, Folder
  <2>3. FirstStream[decoder.folder + 1] \in Nat
    BY <2>2, NatFacts, FirstStreamType
  <2>4. decoder.pos < FirstStream[decoder.folder + 1]
    BY <1>14, <2>1, <2>2, <2>3 DEF DrainTail, StreamsLeft, DecoderInv
  <2>5. decoder.pos \in Stream /\ Size[decoder.pos] \in Nat
    BY <2>1, <2>4, NextStream
  <2>6. decoder' \in Decoder
    BY <1>14, <2>5, OpenStreamType DEF DrainTail
  <2> QED
    BY <1>14, <2>6 DEF DrainTail
<1>15. CASE FolderEnds
  BY <1>15, NoDecoderType DEF FolderEnds, Completed, AfterComplete, Combine, Scope
<1>16. CASE FolderCheckFails
  BY <1>16, DecodeFailsTypes DEF FolderCheckFails
<1>17. CASE OpenFolder
  <2>1. job = "entry"
    BY <1>17 DEF OpenFolder, CallInv, InEntry
  <2>2. entry \in Entry /\ TargetFolder \in Folder
    BY <2>1, RunningEntry
  <2>3. EagerCost \in Nat /\ FirstStream[TargetFolder] \in 1 .. Streams + 1
    BY <2>2, FirstStreamType, LayoutTypes DEF EagerCost
  <2> QED
    <3>1. decoder' \in Decoder
      BY <1>17, <2>2, <2>3, NatFacts DEF OpenFolder, ActiveFolder, Decoder, Folder
    <3>2. opens' \in [Folder -> Nat]
      BY <1>17, <2>2 DEF OpenFolder
    <3>3. charged' \in Nat
      BY <1>17, <2>3 DEF OpenFolder
    <3> QED
      BY <1>17, <3>1, <3>2, <3>3 DEF OpenFolder
<1>18. CASE OpenFails
  <2>1. job = "entry"
    BY <1>18 DEF OpenFails, CallInv, InEntry
  <2>2. entry \in Entry /\ TargetFolder \in Folder
    BY <2>1, RunningEntry
  <2>3. EagerCost \in Nat
    BY <2>2, NatFacts, LayoutTypes DEF EagerCost
  <2>4. charged' \in Nat
    BY <1>18, <2>3 DEF OpenFails
  <2>5. cancelled' \in BOOLEAN
    BY <1>18 DEF OpenFails
  <2> QED
    BY <1>18, <2>4, <2>5, DecodeFailsTypes DEF OpenFails
<1>19. CASE SkipStream
  <2>1. job = "entry"
    BY <1>19 DEF SkipStream, CallInv, InEntry
  <2>2. decoder.folder # 0 /\ decoder.folder = TargetFolder /\ decoder.pos <= StreamOf[entry]
    BY <1>19 DEF SkipStream, DecoderInv, PositionInv
  <2>3. StreamOf[entry] \in Stream
    BY <2>1, RunningEntry
  <2>4. decoder.pos < FirstStream[decoder.folder + 1]
    <3>1. decoder.pos \in Nat
      BY NatFacts DEF Decoder
    <3> QED
      BY <2>2, <2>3, <3>1, SeekInRange DEF TargetFolder
  <2>5. decoder.folder \in Folder /\ decoder.pos \in Stream /\ Size[decoder.pos] \in Nat
    BY <2>2, <2>4, NextStream
  <2>6. decoder' \in Decoder
    BY <1>19, <2>5, OpenStreamType DEF SkipStream
  <2> QED
    BY <1>19, <2>6 DEF SkipStream
<1>20. CASE StartCallback
  <2>1. job = "entry"
    BY <1>20 DEF StartCallback, CallInv, InEntry
  <2>2. decoder.folder # 0 /\ decoder.folder = TargetFolder /\ decoder.pos <= StreamOf[entry]
    BY <1>20 DEF StartCallback, DecoderInv, PositionInv
  <2>3. StreamOf[entry] \in Stream
    BY <2>1, RunningEntry
  <2>4. decoder.pos < FirstStream[decoder.folder + 1]
    <3>1. decoder.pos \in Nat
      BY NatFacts DEF Decoder
    <3> QED
      BY <2>2, <2>3, <3>1, SeekInRange DEF TargetFolder
  <2>5. decoder.folder \in Folder /\ decoder.pos \in Stream /\ Size[decoder.pos] \in Nat
    BY <2>2, <2>4, NextStream
  <2>6. decoder' \in Decoder
    BY <1>20, <2>5, OpenStreamType DEF StartCallback
  <2> QED
    BY <1>20, <2>6 DEF StartCallback
<1>21. CASE ReadChunk
  <2>2. charged' \in Nat /\ produced' \in Nat
    BY <1>21, TakeChunkTypes DEF ReadChunk
  <2>3. decoder' \in Decoder
    BY <1>21, HashChunkType DEF ReadChunk
  <2>4. got' \in SUBSET Nat
    <3>1. decoder.decoded \in Nat
      BY DEF Decoder
    <3> QED
      BY <1>21, <3>1 DEF ReadChunk
  <2>5. UNCHANGED <<archive, cancelled, nextEntry, pending, verification, pc, op, entry, job,
                    last, lateCall, okEntries, failedEntries, opens>>
    BY <1>21 DEF ReadChunk
  <2>6. checked' \in BOOLEAN /\ lateChunks' \in Nat
    BY <1>21, TakeChunkTypes DEF ReadChunk
  <2> QED
    BY <2>2, <2>3, <2>4, <2>5, <2>6
<1>22. CASE ChunkCancelled
  <2>2. /\ charged' \in Nat /\ produced' \in Nat
        /\ checked' \in BOOLEAN /\ lateChunks' \in Nat
    BY <1>22, TakeChunkTypes DEF ChunkCancelled
  <2>4. CASE pc = "callback"
    <3>1. decoder' \in Decoder
      BY <1>22, <2>4, HashChunkType DEF ChunkCancelled
    <3> QED
      BY <1>22, <2>2, <2>4, <3>1 DEF ChunkCancelled
  <2>5. CASE pc # "callback"
    BY <1>22, <2>2, <2>5, DecodeFailsTypes DEF ChunkCancelled
  <2> QED
    BY <2>4, <2>5
<1>23. CASE DrainFails  BY <1>23, DecodeFailsTypes DEF DrainFails, ReadIsOver
<1>24. CASE CallbackReturns  BY <1>24 DEF CallbackReturns, ReadIsOver
<1>25. CASE CallbackFails  BY <1>25, DecodeFailsTypes DEF CallbackFails, ReadIsOver
<1>26. CASE StreamEnds
  <2>1. CASE pc = "drainEntry"
    <3>1. entry \in Entry
      BY <2>1 DEF CallInv, InEntry
    <3> QED
      BY <1>26, <2>1, <3>1, EntrySucceedsTypes DEF StreamEnds, ReadIsOver
  <2>2. CASE pc # "drainEntry"
    BY <1>26, <2>2 DEF StreamEnds, ReadIsOver
  <2> QED
    BY <2>1, <2>2
<1>27. CASE StreamMismatch  BY <1>27, DecodeFailsTypes DEF StreamMismatch, ReadIsOver
<1>28. CASE UNCHANGED vars  BY <1>28 DEF vars
<1>29. CASE CheckRead  BY <1>29 DEF CheckRead
<1> QED
  BY <1>1, <1>2, <1>3, <1>4, <1>5, <1>6, <1>7, <1>8, <1>9, <1>10, <1>11, <1>12, <1>13,
     <1>14, <1>15, <1>16, <1>17, <1>18, <1>19, <1>20, <1>21, <1>22, <1>23, <1>24, <1>25,
     <1>26, <1>27, <1>28, <1>29 DEF Next, Caller, Step

(* Which call runs, and for which entry. *)
LEMMA CallStep == TypeOK /\ CallInv /\ [Next]_vars => CallInv'
<1> SUFFICES ASSUME TypeOK, CallInv, [Next]_vars PROVE CallInv'
  OBVIOUS
<1> USE DEF TypeOK, CallInv, InEntry, Entry, Reading, archive, observed
<1>1. CASE Cancel  BY <1>1, NatFacts DEF Cancel
<1>2. ASSUME NEW e \in 1 .. Files + 1, RejectIndex(e) PROVE CallInv'
  BY <1>2, NatFacts DEF RejectIndex
<1>3. ASSUME NEW e \in Entry, Request(e) PROVE CallInv'  BY <1>3, NatFacts DEF Request
<1>4. CASE Finish  BY <1>4, NatFacts DEF Finish
<1>5. CASE DropSession  BY <1>5, NatFacts DEF DropSession
<1>6. CASE LayoutError  BY <1>6, NatFacts DEF LayoutError, CallFails
<1>7. CASE VisitDirectory  BY <1>7, NatFacts DEF VisitDirectory, Located
<1>8. CASE ReadFails  BY <1>8, NatFacts DEF ReadFails, Located, CallFails
<1>9. CASE ReadEmpty  BY <1>9, NatFacts DEF ReadEmpty, Located, EntrySucceeds
<1>10. CASE ReadStream  BY <1>10, NatFacts DEF ReadStream, Located
<1>11. CASE FinishTables  BY <1>11, NatFacts DEF FinishTables
<1>12. CASE FinishCheck  BY <1>12, NatFacts DEF FinishCheck
<1>13. CASE LeaveTail  BY <1>13, NatFacts DEF LeaveTail, Completed, AfterComplete, Combine
<1>14. CASE DrainTail  BY <1>14, NatFacts DEF DrainTail, OpenStream
<1>15. CASE FolderEnds  BY <1>15, NatFacts DEF FolderEnds, Completed, AfterComplete, Combine
<1>16. CASE FolderCheckFails
  BY <1>16, NatFacts DEF FolderCheckFails, DecodeFails, CallFails
<1>17. CASE OpenFolder  BY <1>17, NatFacts DEF OpenFolder, TargetFolder, EagerCost
<1>18. CASE OpenFails
  BY <1>18, NatFacts DEF OpenFails, DecodeFails, CallFails, TargetFolder, EagerCost
<1>19. CASE SkipStream  BY <1>19, NatFacts DEF SkipStream, OpenStream
<1>20. CASE StartCallback  BY <1>20, NatFacts DEF StartCallback, OpenStream
<1>21. CASE ReadChunk  BY <1>21, NatFacts DEF ReadChunk, ChunkReady, TakeChunk, HashChunk
<1>22. CASE ChunkCancelled
  BY <1>22, NatFacts DEF ChunkCancelled, ChunkReady, TakeChunk, HashChunk, DecodeFails,
     CallFails, PaysPerChunk
<1>23. CASE DrainFails  BY <1>23, NatFacts DEF DrainFails, DecodeFails, CallFails, Draining
<1>24. CASE CallbackReturns  BY <1>24, NatFacts DEF CallbackReturns
<1>25. CASE CallbackFails  BY <1>25, NatFacts DEF CallbackFails, DecodeFails, CallFails
<1>26. CASE StreamEnds
  <2>1. CASE pc = "drainEntry"
    <3>1. job = "entry"
      BY <2>1
    <3>2. entry \in Nat /\ nextEntry = entry + 1 /\ \A d \in pending : d >= entry
      BY <2>1, <3>1, NatFacts
    <3>3. pc' = "idle" /\ job' = "none" /\ pending' = pending \ {entry}
          /\ UNCHANGED <<api, op, nextEntry>>
      BY <1>26, <2>1 DEF StreamEnds, EntrySucceeds
    <3>4. \A d \in pending' : d >= nextEntry
      BY <3>2, <3>3, NatFacts
    <3> QED
      BY <3>3, <3>4
  <2>2. CASE pc # "drainEntry"
    BY <1>26, <2>2, NatFacts DEF StreamEnds, StreamDone, Draining
  <2> QED
    BY <2>1, <2>2
<1>27. CASE StreamMismatch
  BY <1>27, NatFacts DEF StreamMismatch, StreamDone, DecodeFails, CallFails, Draining
<1>28. CASE UNCHANGED vars  BY <1>28 DEF vars
<1>29. CASE CheckRead  BY <1>29, NatFacts DEF CheckRead
<1> QED
  BY <1>1, <1>2, <1>3, <1>4, <1>5, <1>6, <1>7, <1>8, <1>9, <1>10, <1>11, <1>12, <1>13,
     <1>14, <1>15, <1>16, <1>17, <1>18, <1>19, <1>20, <1>21, <1>22, <1>23, <1>24, <1>25,
     <1>26, <1>27, <1>28, <1>29 DEF Next, Caller, Step

(* Where the decoder stands. *)
LEMMA DecoderStep ==
  TypeOK /\ CallInv /\ DecoderInv /\ PositionInv /\ [Next]_vars => DecoderInv'
<1> SUFFICES ASSUME TypeOK, CallInv, DecoderInv, PositionInv, [Next]_vars PROVE DecoderInv'
  OBVIOUS
<1> USE DEF DecoderInv, Offset, Reading, ActiveFolder, NoDecoder, archive, observed
<1>1. CASE Cancel  BY <1>1 DEF Cancel
<1>2. ASSUME NEW e \in 1 .. Files + 1, RejectIndex(e) PROVE DecoderInv'
  BY <1>2 DEF RejectIndex
<1>3. ASSUME NEW e \in Entry, Request(e) PROVE DecoderInv'  BY <1>3 DEF Request
<1>4. CASE Finish  BY <1>4 DEF Finish
<1>5. CASE DropSession  BY <1>5 DEF DropSession
<1>6. CASE LayoutError  BY <1>6 DEF LayoutError, CallFails
<1>7. CASE VisitDirectory  BY <1>7 DEF VisitDirectory, Located
<1>8. CASE ReadFails  BY <1>8 DEF ReadFails, Located, CallFails
<1>9. CASE ReadEmpty  BY <1>9 DEF ReadEmpty, Located, EntrySucceeds
<1>10. CASE ReadStream  BY <1>10 DEF ReadStream, Located
<1>11. CASE FinishTables  BY <1>11 DEF FinishTables
<1>12. CASE FinishCheck  BY <1>12 DEF FinishCheck
<1>13. CASE LeaveTail  BY <1>13 DEF LeaveTail, Completed, AfterComplete, Combine
<1>14. CASE DrainTail
  <2>1. decoder.folder # 0 /\ decoder.pos < FirstStream[decoder.folder + 1]
    BY <1>14, TailReady DEF DrainTail
  <2> QED
    BY <1>14, <2>1, OpenStreamDecoder DEF DrainTail
<1>15. CASE FolderEnds  BY <1>15 DEF FolderEnds, Completed, AfterComplete, Combine
<1>16. CASE FolderCheckFails  BY <1>16 DEF FolderCheckFails, DecodeFails, CallFails
<1>17. CASE OpenFolder
  <2> DEFINE f == TargetFolder
  <2>1. job = "entry"
    BY <1>17 DEF OpenFolder, CallInv, InEntry
  <2>2. f \in Folder
    BY <2>1, RunningEntry
  <2>3. FirstStream[f] <= FirstStream[f] /\ FirstStream[f] <= FirstStream[f + 1]
        /\ 0 <= damage[f].len
    <3>1. FirstStream[f] \in Nat /\ damage[f].len \in Nat
      BY <2>2, FirstStreamType, NatFacts DEF TypeOK, Damage
    <3>2. FirstStream[f] <= FirstStream[f + 1]
      BY <2>2, FirstStreamGrows
    <3> QED
      BY <3>1, <3>2
  <2>4. /\ decoder'.folder = f /\ decoder'.pos = FirstStream[f] /\ decoder'.decoded = 0
        /\ decoder'.remaining = 0 /\ decoder'.hashed = {}
        /\ pc' = "seek" /\ damage' = damage
    BY <1>17 DEF OpenFolder
  <2>5. Offset' = 0
    BY <2>4
  <2>6. 0 .. 0 - 1 = {} /\ 0 + 0 = 0
    OBVIOUS
  <2> QED
    BY <2>2, <2>3, <2>4, <2>5, <2>6, NatFacts DEF Folder
<1>18. CASE OpenFails
  BY <1>18 DEF OpenFails, DecodeFails, CallFails, TargetFolder, EagerCost
<1>19. CASE SkipStream
  <2>1. decoder.folder # 0 /\ decoder.pos < FirstStream[decoder.folder + 1]
    BY <1>19, SeekReady DEF SkipStream
  <2> QED
    BY <1>19, <2>1, OpenStreamDecoder DEF SkipStream
<1>20. CASE StartCallback
  <2>1. decoder.folder # 0 /\ decoder.pos < FirstStream[decoder.folder + 1]
    BY <1>20, SeekReady DEF StartCallback
  <2> QED
    BY <1>20, <2>1, OpenStreamDecoder DEF StartCallback
<1>21. CASE ReadChunk  BY <1>21, ChunkDecoder DEF ReadChunk
<1>22. CASE ChunkCancelled
  <2>1. CASE pc = "callback"
    BY <1>22, <2>1, ChunkDecoder DEF ChunkCancelled
  <2>2. CASE pc # "callback"
    BY <1>22, <2>2 DEF ChunkCancelled, DecodeFails, CallFails
  <2> QED
    BY <2>1, <2>2
<1>23. CASE DrainFails  BY <1>23 DEF DrainFails, DecodeFails, CallFails
<1>24. CASE CallbackReturns  BY <1>24 DEF CallbackReturns
<1>25. CASE CallbackFails  BY <1>25 DEF CallbackFails, DecodeFails, CallFails
<1>26. CASE StreamEnds
  <2>1. pc' \in {"idle", "complete", "seek"} /\ decoder.remaining = 0 /\ pc \in Reading
    BY <1>26 DEF StreamEnds, StreamDone, EntrySucceeds, Draining
  <2> QED
    BY <1>26, <2>1 DEF StreamEnds
<1>27. CASE StreamMismatch  BY <1>27 DEF StreamMismatch, StreamDone, DecodeFails, CallFails
<1>28. CASE UNCHANGED vars  BY <1>28 DEF vars
<1>29. CASE CheckRead  BY <1>29 DEF CheckRead
<1> QED
  BY <1>1, <1>2, <1>3, <1>4, <1>5, <1>6, <1>7, <1>8, <1>9, <1>10, <1>11, <1>12, <1>13,
     <1>14, <1>15, <1>16, <1>17, <1>18, <1>19, <1>20, <1>21, <1>22, <1>23, <1>24, <1>25,
     <1>26, <1>27, <1>28, <1>29 DEF Next, Caller, Step

(* The decoder never passes the entries asked for. *)
LEMMA PositionStep ==
  TypeOK /\ CallInv /\ DecoderInv /\ PositionInv /\ [Next]_vars => PositionInv'
<1> SUFFICES ASSUME TypeOK, CallInv, DecoderInv, PositionInv, [Next]_vars PROVE PositionInv'
  OBVIOUS
<1> USE DEF PositionInv, TargetFolder, Reading, ActiveFolder, NoDecoder, archive, observed
<1>1. CASE Cancel  BY <1>1 DEF Cancel
<1>2. ASSUME NEW e \in 1 .. Files + 1, RejectIndex(e) PROVE PositionInv'
  BY <1>2 DEF RejectIndex
<1>3. ASSUME NEW e \in Entry, Request(e) PROVE PositionInv'  BY <1>3 DEF Request
<1>4. CASE Finish  BY <1>4 DEF Finish
<1>5. CASE DropSession  BY <1>5 DEF DropSession
<1>6. CASE LayoutError
  <2>1. pc = "read" /\ entry \in Nat
    BY <1>6, NatFacts DEF LayoutError,  TypeOK
  <2>2. nextEntry' - 1 \in {entry - 1, entry}
    BY <1>6, <2>1 DEF LayoutError
  <2>3. decoder.folder # 0 => /\ decoder.pos <= StreamOf[entry - 1] + 1
                              /\ decoder.pos <= StreamOf[entry] + 1
    BY <2>1, ReadPosition
  <2> QED
    BY <1>6, <2>2, <2>3 DEF LayoutError, CallFails
<1>7. CASE VisitDirectory
  <2>1. pc = "read" /\ entry \in Nat
    BY <1>7, NatFacts DEF VisitDirectory, Located, TypeOK
  <2>2. nextEntry' - 1 \in {entry - 1, entry}
    BY <1>7, <2>1 DEF VisitDirectory, Located
  <2>3. decoder.folder # 0 => /\ decoder.pos <= StreamOf[entry - 1] + 1
                              /\ decoder.pos <= StreamOf[entry] + 1
    BY <2>1, ReadPosition
  <2> QED
    BY <1>7, <2>2, <2>3 DEF VisitDirectory, Located
<1>8. CASE ReadFails
  <2>1. pc = "read" /\ entry \in Nat
    BY <1>8, NatFacts DEF ReadFails, Located, TypeOK
  <2>2. nextEntry' - 1 \in {entry - 1, entry}
    BY <1>8, <2>1 DEF ReadFails, Located
  <2>3. decoder.folder # 0 => /\ decoder.pos <= StreamOf[entry - 1] + 1
                              /\ decoder.pos <= StreamOf[entry] + 1
    BY <2>1, ReadPosition
  <2> QED
    BY <1>8, <2>2, <2>3 DEF ReadFails, Located, CallFails
<1>9. CASE ReadEmpty
  <2>1. pc = "read" /\ entry \in Nat
    BY <1>9, NatFacts DEF ReadEmpty, Located, TypeOK
  <2>2. nextEntry' - 1 \in {entry - 1, entry}
    BY <1>9, <2>1 DEF ReadEmpty, Located
  <2>3. decoder.folder # 0 => /\ decoder.pos <= StreamOf[entry - 1] + 1
                              /\ decoder.pos <= StreamOf[entry] + 1
    BY <2>1, ReadPosition
  <2> QED
    BY <1>9, <2>2, <2>3 DEF ReadEmpty, Located, EntrySucceeds
<1>10. CASE ReadStream
  <2>1. pc = "read" /\ Kind[entry] = "stream"
    BY <1>10 DEF ReadStream, Located
  <2>2. decoder.folder # 0 => decoder.pos <= StreamOf[entry]
    BY <2>1, ReadPosition
  <2> QED
    BY <1>10, <2>2 DEF ReadStream, Located
<1>11. CASE FinishTables  BY <1>11 DEF FinishTables
<1>12. CASE FinishCheck  BY <1>12 DEF FinishCheck, DecoderInv
<1>13. CASE LeaveTail  BY <1>13 DEF LeaveTail, Completed, AfterComplete, Combine
<1>14. CASE DrainTail  BY <1>14 DEF DrainTail, OpenStream
<1>15. CASE FolderEnds  BY <1>15 DEF FolderEnds, Completed, AfterComplete, Combine
<1>16. CASE FolderCheckFails  BY <1>16 DEF FolderCheckFails, DecodeFails, CallFails
<1>17. CASE OpenFolder
  <2>1. job = "entry"
    BY <1>17 DEF OpenFolder, CallInv, InEntry
  <2>2. StreamOf[entry] \in Stream /\ TargetFolder \in Folder
    BY <2>1, RunningEntry
  <2>3. FirstStream[TargetFolder] <= StreamOf[entry]
    BY <2>2, LayoutAssumption
  <2> QED
    BY <1>17, <2>3 DEF OpenFolder
<1>18. CASE OpenFails
  BY <1>18 DEF OpenFails, DecodeFails, CallFails, TargetFolder, EagerCost
<1>19. CASE SkipStream
  <2>1. decoder.pos + 1 <= StreamOf[entry]
    <3>1. job = "entry"
      BY <1>19 DEF SkipStream, CallInv, InEntry
    <3>2. StreamOf[entry] \in Nat /\ decoder.pos \in Nat
      BY <3>1, RunningEntry, NatFacts DEF TypeOK, Decoder, Stream
    <3> QED
      BY <1>19, <3>2 DEF SkipStream
  <2> QED
    BY <1>19, <2>1 DEF SkipStream, OpenStream
<1>20. CASE StartCallback  BY <1>20 DEF StartCallback, OpenStream
<1>21. CASE ReadChunk  BY <1>21 DEF ReadChunk, ChunkReady, TakeChunk, HashChunk
<1>22. CASE ChunkCancelled
  BY <1>22 DEF ChunkCancelled, ChunkReady, TakeChunk, HashChunk, DecodeFails, CallFails
<1>23. CASE DrainFails  BY <1>23 DEF DrainFails, DecodeFails, CallFails
<1>24. CASE CallbackReturns  BY <1>24 DEF CallbackReturns
<1>25. CASE CallbackFails  BY <1>25 DEF CallbackFails, DecodeFails, CallFails
<1>26. CASE StreamEnds
  <2>1. CASE pc = "drainEntry"
    <3>1. job = "entry"
      BY <2>1 DEF CallInv, InEntry
    <3>2. nextEntry - 1 = entry /\ StreamOf[entry] + 1 <= StreamOf[entry] + 1
      BY <3>1, RunningEntry, NatFacts DEF CallInv, Entry, Stream
    <3> QED
      BY <1>26, <2>1, <3>2 DEF StreamEnds, EntrySucceeds
  <2>2. CASE pc # "drainEntry"
    BY <1>26, <2>2 DEF StreamEnds, StreamDone, Draining
  <2> QED
    BY <2>1, <2>2
<1>27. CASE StreamMismatch  BY <1>27 DEF StreamMismatch, StreamDone, DecodeFails, CallFails
<1>28. CASE UNCHANGED vars  BY <1>28 DEF vars
<1>29. CASE CheckRead  BY <1>29 DEF CheckRead
<1> QED
  BY <1>1, <1>2, <1>3, <1>4, <1>5, <1>6, <1>7, <1>8, <1>9, <1>10, <1>11, <1>12, <1>13,
     <1>14, <1>15, <1>16, <1>17, <1>18, <1>19, <1>20, <1>21, <1>22, <1>23, <1>24, <1>25,
     <1>26, <1>27, <1>28, <1>29 DEF Next, Caller, Step

(* Every substream read to its end was compared with its digest. *)
LEMMA ChecksStep == TypeOK /\ CallInv /\ ChecksInv /\ [Next]_vars => ChecksInv'
<1> SUFFICES ASSUME TypeOK, CallInv, ChecksInv, [Next]_vars PROVE ChecksInv'
  OBVIOUS
<1> USE DEF ChecksInv, SubstreamIntact, Range, Reading, archive, observed
<1>1. CASE Cancel  BY <1>1 DEF Cancel
<1>2. ASSUME NEW e \in 1 .. Files + 1, RejectIndex(e) PROVE ChecksInv'
  BY <1>2 DEF RejectIndex
<1>3. ASSUME NEW e \in Entry, Request(e) PROVE ChecksInv'  BY <1>3 DEF Request
<1>4. CASE Finish  BY <1>4 DEF Finish
<1>5. CASE DropSession
  <2>1. decoder'.folder = 0
    BY <1>5 DEF DropSession, NoDecoder, ActiveFolder
  <2> QED
    BY <2>1, FolderOfType
<1>6. CASE LayoutError  BY <1>6 DEF LayoutError, CallFails
<1>7. CASE VisitDirectory  BY <1>7 DEF VisitDirectory, Located
<1>8. CASE ReadFails  BY <1>8 DEF ReadFails, Located, CallFails
<1>9. CASE ReadEmpty  BY <1>9 DEF ReadEmpty, Located, EntrySucceeds
<1>10. CASE ReadStream  BY <1>10 DEF ReadStream, Located
<1>11. CASE FinishTables  BY <1>11 DEF FinishTables
<1>12. CASE FinishCheck  BY <1>12 DEF FinishCheck
<1>13. CASE LeaveTail
  <2>1. decoder'.folder = 0
    BY <1>13 DEF LeaveTail, Completed, NoDecoder, ActiveFolder
  <2> QED
    BY <2>1, FolderOfType
<1>14. CASE DrainTail
  <2>1. /\ decoder'.folder = decoder.folder /\ decoder'.pos = decoder.pos + 1
        /\ pc \notin Reading /\ pc' \in Reading /\ damage' = damage
    BY <1>14 DEF DrainTail, OpenStream, ActiveFolder
  <2>2. decoder'.pos - 1 = decoder.pos
    BY <2>1, NatFacts DEF TypeOK, Decoder
  <2> QED
    BY <2>1, <2>2
<1>15. CASE FolderEnds
  <2>1. decoder'.folder = 0
    BY <1>15 DEF FolderEnds, Completed, NoDecoder, ActiveFolder
  <2> QED
    BY <2>1, FolderOfType
<1>16. CASE FolderCheckFails
  <2>1. decoder'.folder = 0
    BY <1>16 DEF FolderCheckFails, DecodeFails, NoDecoder, ActiveFolder
  <2> QED
    BY <2>1, FolderOfType
<1>17. CASE OpenFolder
  <2>1. job = "entry"
    BY <1>17 DEF OpenFolder, CallInv, InEntry
  <2>2. TargetFolder \in Folder
    BY <2>1, RunningEntry
  <2>3. /\ decoder'.folder = TargetFolder /\ decoder'.pos = FirstStream[TargetFolder]
        /\ pc' = "seek" /\ FirstStream[TargetFolder] \in Nat
    BY <1>17, <2>2, FirstStreamType, NatFacts DEF OpenFolder, ActiveFolder
  <2>4. \A s \in Stream : FolderOf[s] = TargetFolder => FirstStream[TargetFolder] <= s
    BY <2>2, LayoutAssumption
  <2> QED
    BY <2>3, <2>4, NatFacts DEF Stream
<1>18. CASE OpenFails
  <2>1. decoder'.folder = 0
    BY <1>18 DEF OpenFails, DecodeFails, NoDecoder, ActiveFolder
  <2> QED
    BY <2>1, FolderOfType
<1>19. CASE SkipStream
  <2>1. /\ decoder'.folder = decoder.folder /\ decoder'.pos = decoder.pos + 1
        /\ pc \notin Reading /\ pc' \in Reading /\ damage' = damage
    BY <1>19 DEF SkipStream, OpenStream, ActiveFolder
  <2>2. decoder'.pos - 1 = decoder.pos
    BY <2>1, NatFacts DEF TypeOK, Decoder
  <2> QED
    BY <2>1, <2>2
<1>20. CASE StartCallback
  <2>1. /\ decoder'.folder = decoder.folder /\ decoder'.pos = decoder.pos + 1
        /\ pc \notin Reading /\ pc' \in Reading /\ damage' = damage
    BY <1>20 DEF StartCallback, OpenStream, ActiveFolder
  <2>2. decoder'.pos - 1 = decoder.pos
    BY <2>1, NatFacts DEF TypeOK, Decoder
  <2> QED
    BY <2>1, <2>2
<1>21. CASE ReadChunk
  <2>1. decoder'.folder = decoder.folder /\ decoder'.pos = decoder.pos /\ damage' = damage
        /\ pc' = pc
    BY <1>21 DEF ReadChunk, HashChunk, ActiveFolder
  <2> QED
    BY <2>1
<1>22. CASE ChunkCancelled
  <2>1. CASE pc = "callback"
    <3>1. decoder'.folder = decoder.folder /\ decoder'.pos = decoder.pos /\ damage' = damage
          /\ pc' = pc
      BY <1>22, <2>1 DEF ChunkCancelled, HashChunk, ActiveFolder
    <3> QED
      BY <3>1
  <2>2. CASE pc # "callback"
    <3>1. decoder'.folder = 0
      BY <1>22, <2>2 DEF ChunkCancelled, DecodeFails, NoDecoder, ActiveFolder
    <3> QED
      BY <3>1, FolderOfType
  <2> QED
    BY <2>1, <2>2
<1>23. CASE DrainFails
  <2>1. decoder'.folder = 0
    BY <1>23 DEF DrainFails, DecodeFails, NoDecoder, ActiveFolder
  <2> QED
    BY <2>1, FolderOfType
<1>24. CASE CallbackReturns  BY <1>24 DEF CallbackReturns
<1>25. CASE CallbackFails
  <2>1. decoder'.folder = 0
    BY <1>25 DEF CallbackFails, DecodeFails, NoDecoder, ActiveFolder
  <2> QED
    BY <2>1, FolderOfType
<1>26. CASE StreamEnds
  <2>1. /\ decoder' = decoder /\ damage' = damage /\ StreamMatches
        /\ pc \in Reading /\ pc' \notin Reading
    BY <1>26 DEF StreamEnds, StreamDone, EntrySucceeds, Draining
  <2> SUFFICES ASSUME NEW s \in Stream, decoder.folder = FolderOf[s], s < decoder.pos
               PROVE  SubstreamIntact(s)
    BY <2>1
  <2>2. CASE s = decoder.pos - 1
    BY <2>1, <2>2 DEF StreamMatches
  <2>3. CASE s # decoder.pos - 1
    <3>1. s < decoder.pos - 1
      BY <2>3, NatFacts DEF TypeOK, Decoder, Stream
    <3> QED
      BY <2>1, <3>1
  <2> QED
    BY <2>2, <2>3
<1>27. CASE StreamMismatch
  <2>1. decoder'.folder = 0
    BY <1>27 DEF StreamMismatch, DecodeFails, NoDecoder, ActiveFolder
  <2> QED
    BY <2>1, FolderOfType
<1>28. CASE UNCHANGED vars  BY <1>28 DEF vars
<1>29. CASE CheckRead  BY <1>29 DEF CheckRead
<1> QED
  BY <1>1, <1>2, <1>3, <1>4, <1>5, <1>6, <1>7, <1>8, <1>9, <1>10, <1>11, <1>12, <1>13,
     <1>14, <1>15, <1>16, <1>17, <1>18, <1>19, <1>20, <1>21, <1>22, <1>23, <1>24, <1>25,
     <1>26, <1>27, <1>28, <1>29 DEF Next, Caller, Step

(* What CompleteFolders claims of folders no longer active. *)
LEMMA ScopeStep == TypeOK /\ DecoderInv /\ ChecksInv /\ ScopeInv /\ [Next]_vars => ScopeInv'
<1> SUFFICES ASSUME TypeOK, DecoderInv, ChecksInv, ScopeInv, [Next]_vars PROVE ScopeInv'
  OBVIOUS
<1> USE DEF ScopeInv, Intact, Range, Scope, archive, observed
<1>1. CASE Cancel  BY <1>1 DEF Cancel
<1>2. ASSUME NEW e \in 1 .. Files + 1, RejectIndex(e) PROVE ScopeInv'
  BY <1>2 DEF RejectIndex
<1>3. ASSUME NEW e \in Entry, Request(e) PROVE ScopeInv'  BY <1>3 DEF Request
<1>4. CASE Finish  BY <1>4 DEF Finish
<1>5. CASE DropSession  BY <1>5 DEF DropSession
<1>6. CASE LayoutError  BY <1>6 DEF LayoutError, CallFails
<1>7. CASE VisitDirectory  BY <1>7 DEF VisitDirectory, Located
<1>8. CASE ReadFails  BY <1>8 DEF ReadFails
<1>9. CASE ReadEmpty  BY <1>9 DEF ReadEmpty, Located, EntrySucceeds
<1>10. CASE ReadStream  BY <1>10 DEF ReadStream, Located
<1>11. CASE FinishTables  BY <1>11 DEF FinishTables
<1>12. CASE FinishCheck  BY <1>12 DEF FinishCheck
<1>13. CASE LeaveTail
  <2>1. verification' # "CompleteFolders"
    BY <1>13 DEF LeaveTail, Completed, Combine
  <2> QED
    BY <2>1
<1>14. CASE DrainTail  BY <1>14 DEF DrainTail, OpenStream, ActiveFolder
<1>15. CASE FolderEnds
  <2> SUFFICES ASSUME verification' = "CompleteFolders",
                      NEW f \in Folder, opens'[f] > 0
               PROVE  Intact(f)'
    OBVIOUS
  <2>1. UNCHANGED <<damage, opens>> /\ pc = "complete" /\ verification = "CompleteFolders"
    BY <1>15 DEF FolderEnds, Completed, Combine, TypeOK
  <2>2. CASE f # decoder.folder
    BY <2>1, <2>2
  <2>3. CASE f = decoder.folder
    BY <1>15, <2>1, <2>3, CompletedIsIntact DEF FolderEnds
  <2> QED
    BY <2>2, <2>3
<1>16. CASE FolderCheckFails  BY <1>16 DEF FolderCheckFails, DecodeFails
<1>17. CASE OpenFolder
  <2>1. decoder.folder = 0 /\ decoder'.folder = TargetFolder /\ pc = "open"
    BY <1>17 DEF OpenFolder, DecoderInv, ActiveFolder
  <2>2. \A f \in Folder : f # TargetFolder => opens'[f] = opens[f] /\ f # decoder.folder
    BY <1>17, <2>1, NatFacts DEF OpenFolder, TypeOK, Folder
  <2>3. UNCHANGED <<damage, verification>>
    BY <1>17 DEF OpenFolder
  <2> QED
    BY <2>1, <2>2, <2>3
<1>18. CASE OpenFails  BY <1>18 DEF OpenFails, DecodeFails
<1>19. CASE SkipStream  BY <1>19 DEF SkipStream, OpenStream, ActiveFolder
<1>20. CASE StartCallback  BY <1>20 DEF StartCallback, OpenStream, ActiveFolder
<1>21. CASE ReadChunk
  <2>1. decoder'.folder = decoder.folder
    BY <1>21 DEF ReadChunk, HashChunk, ActiveFolder
  <2> QED
    BY <1>21, <2>1 DEF ReadChunk
<1>22. CASE ChunkCancelled
  <2>1. CASE pc = "callback"
    <3>1. decoder'.folder = decoder.folder
      BY <1>22, <2>1 DEF ChunkCancelled, HashChunk, ActiveFolder
    <3> QED
      BY <1>22, <2>1, <3>1 DEF ChunkCancelled
  <2>2. CASE pc # "callback"
    BY <1>22, <2>2 DEF ChunkCancelled, DecodeFails
  <2> QED
    BY <2>1, <2>2
<1>23. CASE DrainFails  BY <1>23 DEF DrainFails, DecodeFails
<1>24. CASE CallbackReturns  BY <1>24 DEF CallbackReturns
<1>25. CASE CallbackFails  BY <1>25 DEF CallbackFails, DecodeFails
<1>26. CASE StreamEnds
  <2>1. UNCHANGED <<damage, decoder, verification, opens>> /\ pc # "closed"
    BY <1>26 DEF StreamEnds, StreamDone, Draining, Reading
  <2> QED
    BY <2>1
<1>27. CASE StreamMismatch  BY <1>27 DEF StreamMismatch, DecodeFails
<1>28. CASE UNCHANGED vars  BY <1>28 DEF vars
<1>29. CASE CheckRead  BY <1>29 DEF CheckRead
<1> QED
  BY <1>1, <1>2, <1>3, <1>4, <1>5, <1>6, <1>7, <1>8, <1>9, <1>10, <1>11, <1>12, <1>13,
     <1>14, <1>15, <1>16, <1>17, <1>18, <1>19, <1>20, <1>21, <1>22, <1>23, <1>24, <1>25,
     <1>26, <1>27, <1>28, <1>29 DEF Next, Caller, Step

(* What a stream_files call has reported. *)
LEMMA ReportStep == TypeOK /\ CallInv /\ ReportInv /\ [Next]_vars => ReportInv'
<1> SUFFICES ASSUME TypeOK, CallInv, ReportInv, [Next]_vars PROVE ReportInv'
  OBVIOUS
<1> USE DEF ReportInv, archive, observed
<1>1. CASE Cancel  BY <1>1 DEF Cancel
<1>2. ASSUME NEW e \in 1 .. Files + 1, RejectIndex(e) PROVE ReportInv'
  BY <1>2 DEF RejectIndex, CallInv
<1>3. ASSUME NEW e \in Entry, Request(e) PROVE ReportInv'  BY <1>3 DEF Request
<1>4. CASE Finish  BY <1>4 DEF Finish
<1>5. CASE DropSession  BY <1>5 DEF DropSession
<1>6. CASE LayoutError  BY <1>6 DEF LayoutError, CallFails
<1>7. CASE VisitDirectory  BY <1>7 DEF VisitDirectory, Located
<1>8. CASE ReadFails  BY <1>8 DEF ReadFails, Located, CallFails
<1>9. CASE ReadEmpty  BY <1>9 DEF ReadEmpty, Located, EntrySucceeds
<1>10. CASE ReadStream  BY <1>10 DEF ReadStream, Located
<1>11. CASE FinishTables  BY <1>11 DEF FinishTables
<1>12. CASE FinishCheck  BY <1>12 DEF FinishCheck
<1>13. CASE LeaveTail  BY <1>13 DEF LeaveTail, Completed, AfterComplete, Combine
<1>14. CASE DrainTail  BY <1>14 DEF DrainTail, OpenStream
<1>15. CASE FolderEnds  BY <1>15 DEF FolderEnds, Completed, AfterComplete, Combine
<1>16. CASE FolderCheckFails  BY <1>16 DEF FolderCheckFails, DecodeFails, CallFails
<1>17. CASE OpenFolder  BY <1>17 DEF OpenFolder, TargetFolder, EagerCost
<1>18. CASE OpenFails
  <2>1. lateCall' = lateCall /\ (cancelled => cancelled')
    BY <1>18 DEF OpenFails, TypeOK
  <2> QED
    BY <1>18, <2>1 DEF OpenFails, DecodeFails, CallFails, TypeOK
<1>19. CASE SkipStream  BY <1>19 DEF SkipStream, OpenStream
<1>20. CASE StartCallback  BY <1>20 DEF StartCallback, OpenStream
<1>21. CASE ReadChunk  BY <1>21 DEF ReadChunk, ChunkReady, TakeChunk, HashChunk
<1>22. CASE ChunkCancelled
  BY <1>22 DEF ChunkCancelled, ChunkReady, TakeChunk, HashChunk, DecodeFails, CallFails
<1>23. CASE DrainFails  BY <1>23 DEF DrainFails, DecodeFails, CallFails
<1>24. CASE CallbackReturns  BY <1>24 DEF CallbackReturns
<1>25. CASE CallbackFails  BY <1>25 DEF CallbackFails, DecodeFails, CallFails
<1>26. CASE StreamEnds
  <2>1. CASE pc = "drainEntry"
    BY <1>26, <2>1 DEF StreamEnds, EntrySucceeds
  <2>2. CASE pc # "drainEntry"
    BY <1>26, <2>2 DEF StreamEnds, StreamDone, Draining, Reading
  <2> QED
    BY <2>1, <2>2
<1>27. CASE StreamMismatch  BY <1>27 DEF StreamMismatch, StreamDone, DecodeFails, CallFails
<1>28. CASE UNCHANGED vars  BY <1>28 DEF vars
<1>29. CASE CheckRead  BY <1>29 DEF CheckRead
<1> QED
  BY <1>1, <1>2, <1>3, <1>4, <1>5, <1>6, <1>7, <1>8, <1>9, <1>10, <1>11, <1>12, <1>13,
     <1>14, <1>15, <1>16, <1>17, <1>18, <1>19, <1>20, <1>21, <1>22, <1>23, <1>24, <1>25,
     <1>26, <1>27, <1>28, <1>29 DEF Next, Caller, Step

(* What the callback has seen. *)
LEMMA GotStep == TypeOK /\ GotInv /\ [Next]_vars => GotInv'
<1> SUFFICES ASSUME TypeOK, GotInv, [Next]_vars PROVE GotInv'
  OBVIOUS
<1> USE DEF GotInv, Reading, Draining, archive, observed
<1>1. CASE Cancel  BY <1>1 DEF Cancel
<1>2. ASSUME NEW e \in 1 .. Files + 1, RejectIndex(e) PROVE GotInv'  BY <1>2 DEF RejectIndex
<1>3. ASSUME NEW e \in Entry, Request(e) PROVE GotInv'  BY <1>3 DEF Request
<1>4. CASE Finish  BY <1>4 DEF Finish
<1>5. CASE DropSession  BY <1>5 DEF DropSession
<1>6. CASE LayoutError  BY <1>6 DEF LayoutError, CallFails
<1>7. CASE VisitDirectory  BY <1>7 DEF VisitDirectory, Located
<1>8. CASE ReadFails  BY <1>8 DEF ReadFails, Located, CallFails
<1>9. CASE ReadEmpty  BY <1>9 DEF ReadEmpty, Located, EntrySucceeds
<1>10. CASE ReadStream  BY <1>10 DEF ReadStream, Located
<1>11. CASE FinishTables  BY <1>11 DEF FinishTables
<1>12. CASE FinishCheck  BY <1>12 DEF FinishCheck
<1>13. CASE LeaveTail  BY <1>13 DEF LeaveTail, Completed, AfterComplete, Combine
<1>14. CASE DrainTail  BY <1>14 DEF DrainTail, OpenStream, ActiveFolder
<1>15. CASE FolderEnds  BY <1>15 DEF FolderEnds, Completed, AfterComplete, Combine
<1>16. CASE FolderCheckFails  BY <1>16 DEF FolderCheckFails, DecodeFails, CallFails
<1>17. CASE OpenFolder  BY <1>17 DEF OpenFolder, TargetFolder, EagerCost
<1>18. CASE OpenFails
  BY <1>18 DEF OpenFails, DecodeFails, CallFails, TargetFolder, EagerCost
<1>19. CASE SkipStream  BY <1>19 DEF SkipStream, OpenStream, ActiveFolder
<1>20. CASE StartCallback  BY <1>20 DEF StartCallback, OpenStream, ActiveFolder
<1>21. CASE ReadChunk
  BY <1>21 DEF ReadChunk, ChunkReady, TakeChunk, HashChunk, ActiveFolder, TypeOK
<1>22. CASE ChunkCancelled
  <2>1. CASE pc = "callback"
    <3>1. /\ pc' = "callback" /\ got' = got /\ cancelled'
          /\ decoder'.streamHashed = decoder.streamHashed \cup {decoder.decoded}
      BY <1>22, <2>1 DEF ChunkCancelled, HashChunk, ActiveFolder
    <3> QED
      BY <2>1, <3>1
  <2>2. CASE pc # "callback"
    BY <1>22, <2>2 DEF ChunkCancelled, DecodeFails, CallFails
  <2> QED
    BY <2>1, <2>2
<1>23. CASE DrainFails  BY <1>23 DEF DrainFails, DecodeFails, CallFails
<1>24. CASE CallbackReturns  BY <1>24 DEF CallbackReturns
<1>25. CASE CallbackFails  BY <1>25 DEF CallbackFails, DecodeFails, CallFails
<1>26. CASE StreamEnds  BY <1>26 DEF StreamEnds, StreamDone, EntrySucceeds
<1>27. CASE StreamMismatch  BY <1>27 DEF StreamMismatch, StreamDone, DecodeFails, CallFails
<1>28. CASE UNCHANGED vars  BY <1>28 DEF vars
<1>29. CASE CheckRead  BY <1>29 DEF CheckRead
<1> QED
  BY <1>1, <1>2, <1>3, <1>4, <1>5, <1>6, <1>7, <1>8, <1>9, <1>10, <1>11, <1>12, <1>13,
     <1>14, <1>15, <1>16, <1>17, <1>18, <1>19, <1>20, <1>21, <1>22, <1>23, <1>24, <1>25,
     <1>26, <1>27, <1>28, <1>29 DEF Next, Caller, Step

(* Charges cover the chunks produced. *)
LEMMA BudgetStep ==
  TypeOK /\ CallInv /\ DecoderInv /\ BudgetInv /\ [Next]_vars => BudgetInv'
<1> SUFFICES ASSUME TypeOK, CallInv, DecoderInv, BudgetInv, [Next]_vars PROVE BudgetInv'
  OBVIOUS
<1>1. CASE Cancel  BY <1>1 DEF Cancel, BudgetInv, Prepaid, observed
<1>2. ASSUME NEW e \in 1 .. Files + 1, RejectIndex(e) PROVE BudgetInv'
  BY <1>2 DEF RejectIndex, BudgetInv, Prepaid, observed
<1>3. ASSUME NEW e \in Entry, Request(e) PROVE BudgetInv'
  BY <1>3 DEF Request, BudgetInv, Prepaid, observed
<1>4. CASE Finish  BY <1>4 DEF Finish, BudgetInv, Prepaid, observed
<1>5. CASE DropSession  BY <1>5, DropKeepsBudget DEF DropSession, observed
<1>6. CASE LayoutError  BY <1>6 DEF LayoutError, BudgetInv, Prepaid, observed
<1>7. CASE VisitDirectory  BY <1>7 DEF VisitDirectory, BudgetInv, Prepaid, observed
<1>8. CASE ReadFails  BY <1>8 DEF ReadFails, BudgetInv, Prepaid, observed
<1>9. CASE ReadEmpty  BY <1>9 DEF ReadEmpty, BudgetInv, Prepaid, observed
<1>10. CASE ReadStream  BY <1>10 DEF ReadStream, BudgetInv, Prepaid, observed
<1>11. CASE FinishTables  BY <1>11 DEF FinishTables, BudgetInv, Prepaid, observed
<1>12. CASE FinishCheck  BY <1>12 DEF FinishCheck, BudgetInv, Prepaid, observed
<1>13. CASE LeaveTail  BY <1>13, DropKeepsBudget DEF LeaveTail, Completed, observed
<1>14. CASE DrainTail  BY <1>14, OpenStreamKeepsBudget DEF DrainTail, observed
<1>15. CASE FolderEnds  BY <1>15, DropKeepsBudget DEF FolderEnds, Completed, observed
<1>16. CASE FolderCheckFails  BY <1>16, DropKeepsBudget DEF FolderCheckFails, DecodeFails
<1>17. CASE OpenFolder
  <2>1. job = "entry" /\ decoder.folder = 0
    BY <1>17 DEF OpenFolder, CallInv, InEntry, DecoderInv
  <2>2. TargetFolder \in Folder
    BY <2>1, RunningEntry
  <2>3. Unpack[TargetFolder] \in Nat
    BY <2>2, LayoutTypes
  <2>4. produced \in Nat /\ charged \in Nat /\ EagerCost \in Nat
    BY <2>3 DEF TypeOK, EagerCost
  <2>5. Prepaid = 0
    BY <2>1, NoFolderIsEager DEF Prepaid
  <2>6. Prepaid' = EagerCost
    BY <1>17, <2>3 DEF OpenFolder, Prepaid, EagerCost, ActiveFolder
  <2>7. /\ charged' = charged + EagerCost /\ charged + EagerCost <= MaxDecoded
        /\ produced' = produced
    BY <1>17 DEF OpenFolder
  <2> QED
    BY <2>4, <2>5, <2>6, <2>7 DEF BudgetInv
<1>18. CASE OpenFails
  <2>1. job = "entry" /\ decoder.folder = 0
    BY <1>18 DEF OpenFails, CallInv, InEntry, DecoderInv
  <2>2. TargetFolder \in Folder
    BY <2>1, RunningEntry
  <2>3. Unpack[TargetFolder] \in Nat
    BY <2>2, LayoutTypes
  <2>4. produced \in Nat /\ charged \in Nat /\ EagerCost \in Nat
    BY <2>3 DEF TypeOK, EagerCost
  <2>5. Prepaid = 0
    BY <2>1, NoFolderIsEager DEF Prepaid
  <2>6. Prepaid' = 0
    BY <1>18, NoFolderIsEager DEF OpenFails, DecodeFails, Prepaid, NoDecoder, ActiveFolder
  <2>7. produced' = produced
    BY <1>18 DEF OpenFails
  <2>8. charged' = charged \/ (charged' = charged + EagerCost /\ charged' <= MaxDecoded)
    <3>1. CASE charged + EagerCost <= MaxDecoded
      BY <1>18, <3>1 DEF OpenFails
    <3>2. CASE ~(charged + EagerCost <= MaxDecoded)
      BY <1>18, <3>2 DEF OpenFails
    <3> QED
      BY <3>1, <3>2
  <2> QED
    BY <2>4, <2>5, <2>6, <2>7, <2>8 DEF BudgetInv
<1>19. CASE SkipStream  BY <1>19, OpenStreamKeepsBudget DEF SkipStream, observed
<1>20. CASE StartCallback  BY <1>20, OpenStreamKeepsBudget DEF StartCallback, observed
<1>21. CASE ReadChunk  BY <1>21, ChunkKeepsBudget DEF ReadChunk
<1>22. CASE ChunkCancelled
  <2>1. CASE pc = "callback"
    BY <1>22, <2>1, ChunkKeepsBudget DEF ChunkCancelled
  <2>2. CASE pc # "callback"
    <3>1. Prepaid = 0 /\ charged' = charged + 1 /\ produced' = produced + 1
          /\ charged # MaxDecoded
      BY <1>22 DEF ChunkCancelled, Prepaid, PaysPerChunk, TakeChunk, ChunkReady, OverLimit
    <3>2. Prepaid' = 0
      BY <1>22, <2>2, NoFolderIsEager
        DEF ChunkCancelled, DecodeFails, Prepaid, NoDecoder, ActiveFolder
    <3>3. produced \in Nat /\ charged \in Nat /\ MaxDecoded \in Nat
      BY NatFacts DEF TypeOK
    <3> QED
      BY <3>1, <3>2, <3>3 DEF BudgetInv
  <2> QED
    BY <2>1, <2>2
<1>23. CASE DrainFails  BY <1>23, DropKeepsBudget DEF DrainFails, DecodeFails
<1>24. CASE CallbackReturns  BY <1>24 DEF CallbackReturns, BudgetInv, Prepaid, observed
<1>25. CASE CallbackFails  BY <1>25, DropKeepsBudget DEF CallbackFails, DecodeFails
<1>26. CASE StreamEnds  BY <1>26 DEF StreamEnds, BudgetInv, Prepaid, observed
<1>27. CASE StreamMismatch  BY <1>27, DropKeepsBudget DEF StreamMismatch, DecodeFails
<1>28. CASE UNCHANGED vars  BY <1>28 DEF vars, observed, BudgetInv, Prepaid
<1>29. CASE CheckRead  BY <1>29 DEF CheckRead, BudgetInv, Prepaid, observed
<1> QED
  BY <1>1, <1>2, <1>3, <1>4, <1>5, <1>6, <1>7, <1>8, <1>9, <1>10, <1>11, <1>12, <1>13,
     <1>14, <1>15, <1>16, <1>17, <1>18, <1>19, <1>20, <1>21, <1>22, <1>23, <1>24, <1>25,
     <1>26, <1>27, <1>28, <1>29 DEF Next, Caller, Step

(* A returned CompleteFolders stays true. *)
LEMMA HonestStep ==
  TypeOK /\ CallInv /\ DecoderInv /\ ScopeInv /\ ReportInv /\ CompleteScopeIsHonest /\ [Next]_vars
    => CompleteScopeIsHonest'
<1> SUFFICES ASSUME TypeOK, CallInv, DecoderInv, ScopeInv, ReportInv,
                    CompleteScopeIsHonest, [Next]_vars
             PROVE  CompleteScopeIsHonest'
  OBVIOUS
<1> USE DEF CompleteScopeIsHonest, Returned, archive, observed
<1>1. CASE Cancel  BY <1>1 DEF Cancel, Intact, Range
<1>2. ASSUME NEW e \in 1 .. Files + 1, RejectIndex(e) PROVE CompleteScopeIsHonest'
  BY <1>2 DEF RejectIndex, Intact, Range
<1>3. ASSUME NEW e \in Entry, Request(e) PROVE CompleteScopeIsHonest'
  BY <1>3 DEF Request, Intact, Range
<1>4. CASE Finish  BY <1>4 DEF Finish, Intact, Range
<1>5. CASE DropSession  BY <1>5 DEF DropSession, Intact, Range
<1>6. CASE LayoutError
  <2>1. last'.res = "err"
    BY <1>6 DEF LayoutError, CallFails
  <2> QED
    BY <2>1
<1>7. CASE VisitDirectory
  <2>1. last'.res \in {"err", "none"}
    BY <1>7 DEF VisitDirectory, Located, CallInv, ReportInv
  <2> QED
    BY <2>1
<1>8. CASE ReadFails
  <2>1. last'.res = "err"
    BY <1>8 DEF ReadFails, CallFails
  <2> QED
    BY <2>1
<1>9. CASE ReadEmpty
  <2>1. last'.res \in {"ok", "none"}
    BY <1>9 DEF ReadEmpty, Located, EntrySucceeds, CallInv, ReportInv
  <2> QED
    BY <2>1
<1>10. CASE ReadStream  BY <1>10 DEF ReadStream
<1>11. CASE FinishTables  BY <1>11 DEF FinishTables, Intact, Range
<1>12. CASE FinishCheck
  <2>1. UNCHANGED <<damage, opens>> /\ decoder.folder = 0 /\ pc = "finishCheck"
    BY <1>12 DEF FinishCheck, DecoderInv
  <2>2. last'.res = "CompleteFolders" => verification = "CompleteFolders"
    BY <1>12 DEF FinishCheck
  <2>3. \A f \in Folder : f # decoder.folder
    BY <2>1, NatFacts DEF Folder
  <2> QED
    BY <2>1, <2>2, <2>3 DEF ScopeInv, Intact, Range
<1>13. CASE LeaveTail
  <2>1. pc' \notin {"idle", "closed"}
    BY <1>13 DEF LeaveTail, Completed, AfterComplete
  <2> QED
    BY <2>1
<1>14. CASE DrainTail  BY <1>14 DEF DrainTail
<1>15. CASE FolderEnds
  <2>1. pc' \notin {"idle", "closed"}
    BY <1>15 DEF FolderEnds, Completed, AfterComplete
  <2> QED
    BY <2>1
<1>16. CASE FolderCheckFails
  <2>1. last'.res = "err"
    BY <1>16 DEF FolderCheckFails, DecodeFails, CallFails
  <2> QED
    BY <2>1
<1>17. CASE OpenFolder  BY <1>17 DEF OpenFolder
<1>18. CASE OpenFails
  <2>1. last'.res = "err"
    BY <1>18 DEF OpenFails, DecodeFails, CallFails
  <2> QED
    BY <2>1
<1>19. CASE SkipStream  BY <1>19 DEF SkipStream
<1>20. CASE StartCallback  BY <1>20 DEF StartCallback
<1>21. CASE ReadChunk  BY <1>21 DEF ReadChunk, Reading
<1>22. CASE ChunkCancelled
  <2>1. CASE pc = "callback"
    <3>1. pc' = "callback"
      BY <1>22, <2>1 DEF ChunkCancelled
    <3> QED
      BY <3>1
  <2>2. CASE pc # "callback"
    <3>1. last'.res = "err"
      BY <1>22, <2>2 DEF ChunkCancelled, DecodeFails, CallFails
    <3> QED
      BY <3>1
  <2> QED
    BY <2>1, <2>2
<1>23. CASE DrainFails
  <2>1. last'.res = "err"
    BY <1>23 DEF DrainFails, DecodeFails, CallFails
  <2> QED
    BY <2>1
<1>24. CASE CallbackReturns  BY <1>24 DEF CallbackReturns, Intact, Range
<1>25. CASE CallbackFails
  <2>1. last'.res = "err"
    BY <1>25 DEF CallbackFails, DecodeFails, CallFails
  <2> QED
    BY <2>1
<1>26. CASE StreamEnds
  <2>1. CASE pc = "drainEntry"
    <3>1. op \in {"read", "stream"}
      BY <2>1 DEF CallInv, InEntry
    <3>2. last'.res \in {"ok", "none"}
      BY <1>26, <2>1, <3>1 DEF StreamEnds, EntrySucceeds, ReportInv
    <3> QED
      BY <3>2
  <2>2. CASE pc # "drainEntry"
    <3>1. pc' \notin {"idle", "closed"}
      BY <1>26, <2>2 DEF StreamEnds
    <3> QED
      BY <3>1
  <2> QED
    BY <2>1, <2>2
<1>27. CASE StreamMismatch
  <2>1. last'.res = "err"
    BY <1>27 DEF StreamMismatch, DecodeFails, CallFails
  <2> QED
    BY <2>1
<1>28. CASE UNCHANGED vars  BY <1>28 DEF vars, Intact, Range
<1>29. CASE CheckRead  BY <1>29 DEF CheckRead, Intact, Range
<1> QED
  BY <1>1, <1>2, <1>3, <1>4, <1>5, <1>6, <1>7, <1>8, <1>9, <1>10, <1>11, <1>12, <1>13,
     <1>14, <1>15, <1>16, <1>17, <1>18, <1>19, <1>20, <1>21, <1>22, <1>23, <1>24, <1>25,
     <1>26, <1>27, <1>28, <1>29 DEF Next, Caller, Step

(* Entries read successfully are intact. *)
LEMMA OkEntriesStep ==
  TypeOK /\ CallInv /\ DecoderInv /\ PositionInv /\ OkEntriesAreIntact /\ [Next]_vars
    => OkEntriesAreIntact'
<1> SUFFICES ASSUME TypeOK, CallInv, DecoderInv, PositionInv, OkEntriesAreIntact,
                    [Next]_vars
             PROVE  OkEntriesAreIntact'
  OBVIOUS
<1> USE DEF OkEntriesAreIntact, Range, archive, observed
<1>1. CASE Cancel  BY <1>1 DEF Cancel
<1>2. ASSUME NEW e \in 1 .. Files + 1, RejectIndex(e) PROVE OkEntriesAreIntact'
  BY <1>2 DEF RejectIndex
<1>3. ASSUME NEW e \in Entry, Request(e) PROVE OkEntriesAreIntact'  BY <1>3 DEF Request
<1>4. CASE Finish  BY <1>4 DEF Finish
<1>5. CASE DropSession  BY <1>5 DEF DropSession
<1>6. CASE LayoutError  BY <1>6 DEF LayoutError, CallFails
<1>7. CASE VisitDirectory  BY <1>7 DEF VisitDirectory
<1>8. CASE ReadFails  BY <1>8 DEF ReadFails, CallFails
<1>9. CASE ReadEmpty  BY <1>9 DEF ReadEmpty, EntrySucceeds
<1>10. CASE ReadStream  BY <1>10 DEF ReadStream
<1>11. CASE FinishTables  BY <1>11 DEF FinishTables
<1>12. CASE FinishCheck  BY <1>12 DEF FinishCheck
<1>13. CASE LeaveTail  BY <1>13 DEF LeaveTail, Completed
<1>14. CASE DrainTail  BY <1>14 DEF DrainTail
<1>15. CASE FolderEnds  BY <1>15 DEF FolderEnds, Completed
<1>16. CASE FolderCheckFails  BY <1>16 DEF FolderCheckFails, DecodeFails, CallFails
<1>17. CASE OpenFolder  BY <1>17 DEF OpenFolder
<1>18. CASE OpenFails  BY <1>18 DEF OpenFails, DecodeFails, CallFails
<1>19. CASE SkipStream  BY <1>19 DEF SkipStream
<1>20. CASE StartCallback  BY <1>20 DEF StartCallback
<1>21. CASE ReadChunk  BY <1>21 DEF ReadChunk
<1>22. CASE ChunkCancelled
  <2>1. UNCHANGED <<damage, okEntries>>
    BY <1>22 DEF ChunkCancelled, DecodeFails, CallFails
  <2> QED
    BY <2>1
<1>23. CASE DrainFails  BY <1>23 DEF DrainFails, DecodeFails, CallFails
<1>24. CASE CallbackReturns  BY <1>24 DEF CallbackReturns
<1>25. CASE CallbackFails  BY <1>25 DEF CallbackFails, DecodeFails, CallFails
<1>26. CASE StreamEnds
  <2>1. CASE pc = "drainEntry"
    <3> DEFINE s == StreamOf[entry]
    <3>1. s \in Stream /\ entry \in Entry
      BY <2>1, RunningEntry DEF CallInv, InEntry
    <3>2. /\ decoder.folder = FolderOf[s] /\ decoder.pos = s + 1 /\ decoder.folder # 0
          /\ pc \in Reading /\ decoder.remaining = 0 /\ StreamMatches
      BY <1>26, <2>1 DEF StreamEnds, StreamDone, PositionInv, TargetFolder,
         DecoderInv, Reading
    <3>3. s \in Nat /\ decoder.pos - 1 = s /\ decoder.decoded \in Nat
      BY <3>1, <3>2, NatFacts DEF Stream, TypeOK, Decoder
    <3>4. End[s] = decoder.decoded
      <4>1. FirstStream[decoder.folder] # decoder.pos
        <5>1. decoder.folder \in Folder
          BY <3>1, <3>2, FolderOfType
        <5>2. FirstStream[decoder.folder] < decoder.pos /\ FirstStream[decoder.folder] \in Nat
          BY <3>2, <5>1, FirstStreamType, NatFacts DEF DecoderInv
        <5> QED
          BY <3>2, <3>3, <5>2
      <4>2. decoder.decoded + decoder.remaining = End[s]
        BY <3>2, <3>3, <4>1 DEF DecoderInv, Offset
      <4> QED
        BY <3>2, <3>3, <4>2
    <3>5. End[s] <= damage[FolderOf[s]].len
      BY <3>2, <3>4 DEF DecoderInv
    <3>6. s \in StreamCrc => damage[FolderOf[s]].corrupt \cap Range(s) = {}
      BY <3>2, <3>3 DEF StreamMatches
    <3>7. damage' = damage /\ okEntries' = okEntries \cup {entry}
      BY <1>26, <2>1 DEF StreamEnds, EntrySucceeds
    <3> QED
      BY <3>5, <3>6, <3>7
  <2>2. CASE pc # "drainEntry"
    BY <1>26, <2>2 DEF StreamEnds
  <2> QED
    BY <2>1, <2>2
<1>27. CASE StreamMismatch  BY <1>27 DEF StreamMismatch, DecodeFails, CallFails
<1>28. CASE UNCHANGED vars  BY <1>28 DEF vars
<1>29. CASE CheckRead  BY <1>29 DEF CheckRead
<1> QED
  BY <1>1, <1>2, <1>3, <1>4, <1>5, <1>6, <1>7, <1>8, <1>9, <1>10, <1>11, <1>12, <1>13,
     <1>14, <1>15, <1>16, <1>17, <1>18, <1>19, <1>20, <1>21, <1>22, <1>23, <1>24, <1>25,
     <1>26, <1>27, <1>28, <1>29 DEF Next, Caller, Step

(* Only the read under way when cancellation comes can outrun it. *)
LEMMA LateStep == TypeOK /\ ReportInv /\ LateInv /\ [Next]_vars => LateInv'
<1> SUFFICES ASSUME TypeOK, ReportInv, LateInv, [Next]_vars PROVE LateInv'
  OBVIOUS
<1>a. ASSUME UNCHANGED reader, cancelled' = TRUE \/ cancelled' = cancelled, pc \notin Reading
      PROVE  LateInv'
  BY <1>a DEF LateInv, reader
<1>b. ASSUME ReadIsOver, cancelled' = cancelled PROVE LateInv'
  BY <1>b DEF LateInv, ReadIsOver
<1>c. ASSUME TakeChunk, checked, cancelled' = TRUE \/ cancelled' = cancelled PROVE LateInv'
  <2>1. lateChunks = 0
    BY <1>c DEF LateInv, TypeOK
  <2>2. checked' = FALSE /\ lateChunks' = IF cancelled THEN 1 ELSE 0
    BY <1>c, <2>1 DEF TakeChunk
  <2> QED
    BY <1>c, <2>2 DEF LateInv
<1> USE DEF Reading
<1>1. CASE Cancel  BY <1>1 DEF Cancel, LateInv, reader, observed
<1>2. CASE Caller
  BY <1>2, <1>a DEF Caller, RejectIndex, Request, Finish, DropSession
<1>3. CASE LayoutError \/ VisitDirectory \/ ReadFails \/ ReadEmpty \/ ReadStream
  BY <1>3, <1>a DEF LayoutError, VisitDirectory, ReadFails, ReadEmpty, ReadStream, Located
<1>4. CASE FinishTables \/ FinishCheck \/ LeaveTail \/ DrainTail \/ FolderEnds \/ FolderCheckFails
  BY <1>4, <1>a DEF FinishTables, FinishCheck, LeaveTail, DrainTail, FolderEnds,
     FolderCheckFails, Completed
<1>5. CASE OpenFolder \/ SkipStream \/ StartCallback
  BY <1>5, <1>a DEF OpenFolder, SkipStream, StartCallback
<1>6. CASE OpenFails
  <2>1. cancelled' = TRUE \/ cancelled' = cancelled
    BY <1>6 DEF OpenFails
  <2> QED
    BY <1>6, <1>a, <2>1 DEF OpenFails
<1>7. CASE CheckRead
  <2>1. ~cancelled /\ ~lateCall /\ checked' /\ ~(lateChunks > 0)
        /\ UNCHANGED <<pc, lateCall, lateChunks, cancelled>> /\ pc \in Reading
    BY <1>7 DEF CheckRead, ReportInv, LateInv, observed
  <2> QED
    BY <2>1 DEF LateInv
<1>8. CASE ReadChunk  BY <1>8, <1>c DEF ReadChunk, ChunkReady
<1>9. CASE ChunkCancelled  BY <1>9, <1>c DEF ChunkCancelled, ChunkReady
<1>10. CASE DrainFails \/ CallbackReturns \/ CallbackFails \/ StreamEnds \/ StreamMismatch
  BY <1>10, <1>b DEF DrainFails, CallbackReturns, CallbackFails, StreamEnds, StreamMismatch
<1>11. CASE UNCHANGED vars  BY <1>11 DEF vars, LateInv, reader, observed
<1> QED
  BY <1>1, <1>2, <1>3, <1>4, <1>5, <1>6, <1>7, <1>8, <1>9, <1>10, <1>11 DEF Next, Step

(* A call begun after cancellation does not succeed. *)
LEMMA CancelStep ==
  TypeOK /\ CallInv /\ ReportInv /\ LateInv /\ NoSuccessAfterCancel /\ [Next]_vars
    => NoSuccessAfterCancel'
<1> SUFFICES ASSUME TypeOK, CallInv, ReportInv, LateInv, NoSuccessAfterCancel, [Next]_vars
             PROVE  NoSuccessAfterCancel'
  OBVIOUS
<1> USE DEF NoSuccessAfterCancel, Returned, archive, observed
<1>1. CASE Cancel  BY <1>1 DEF Cancel
<1>2. ASSUME NEW e \in 1 .. Files + 1, RejectIndex(e) PROVE NoSuccessAfterCancel'
  BY <1>2 DEF RejectIndex
<1>3. ASSUME NEW e \in Entry, Request(e) PROVE NoSuccessAfterCancel'  BY <1>3 DEF Request
<1>4. CASE Finish  BY <1>4 DEF Finish
<1>5. CASE DropSession  BY <1>5 DEF DropSession
<1>6. CASE LayoutError
  <2>1. last'.res = "err"
    BY <1>6 DEF LayoutError, CallFails
  <2> QED
    BY <2>1
<1>7. CASE VisitDirectory
  <2>1. last'.res \in {"err", "none"}
    BY <1>7 DEF VisitDirectory, Located, CallInv, ReportInv
  <2> QED
    BY <2>1
<1>8. CASE ReadFails
  <2>1. last'.res = "err"
    BY <1>8 DEF ReadFails, CallFails
  <2> QED
    BY <2>1
<1>9. CASE ReadEmpty
  <2>1. ~lateCall /\ lateCall' = lateCall
    BY <1>9 DEF ReadEmpty, ReportInv
  <2> QED
    BY <2>1
<1>10. CASE ReadStream  BY <1>10 DEF ReadStream
<1>11. CASE FinishTables  BY <1>11 DEF FinishTables
<1>12. CASE FinishCheck  BY <1>12 DEF FinishCheck, ReportInv
<1>13. CASE LeaveTail
  <2>1. pc' \notin {"idle", "closed"}
    BY <1>13 DEF LeaveTail, Completed, AfterComplete
  <2> QED
    BY <2>1
<1>14. CASE DrainTail  BY <1>14 DEF DrainTail
<1>15. CASE FolderEnds
  <2>1. pc' \notin {"idle", "closed"}
    BY <1>15 DEF FolderEnds, Completed, AfterComplete
  <2> QED
    BY <2>1
<1>16. CASE FolderCheckFails
  <2>1. last'.res = "err"
    BY <1>16 DEF FolderCheckFails, DecodeFails, CallFails
  <2> QED
    BY <2>1
<1>17. CASE OpenFolder  BY <1>17 DEF OpenFolder
<1>18. CASE OpenFails
  <2>1. last'.res = "err"
    BY <1>18 DEF OpenFails, DecodeFails, CallFails
  <2> QED
    BY <2>1
<1>19. CASE SkipStream  BY <1>19 DEF SkipStream
<1>20. CASE StartCallback  BY <1>20 DEF StartCallback
<1>21. CASE ReadChunk  BY <1>21 DEF ReadChunk, Reading
<1>22. CASE ChunkCancelled
  <2>1. CASE pc = "callback"
    <3>1. pc' = "callback"
      BY <1>22, <2>1 DEF ChunkCancelled
    <3> QED
      BY <3>1
  <2>2. CASE pc # "callback"
    <3>1. last'.res = "err"
      BY <1>22, <2>2 DEF ChunkCancelled, DecodeFails, CallFails
    <3> QED
      BY <3>1
  <2> QED
    BY <2>1, <2>2
<1>23. CASE DrainFails
  <2>1. last'.res = "err"
    BY <1>23 DEF DrainFails, DecodeFails, CallFails
  <2> QED
    BY <2>1
<1>24. CASE CallbackReturns  BY <1>24 DEF CallbackReturns
<1>25. CASE CallbackFails
  <2>1. last'.res = "err"
    BY <1>25 DEF CallbackFails, DecodeFails, CallFails
  <2> QED
    BY <2>1
<1>26. CASE StreamEnds
  <2>1. ~lateCall /\ lateCall' = lateCall
    BY <1>26 DEF StreamEnds, StreamDone, LateInv
  <2> QED
    BY <2>1
<1>27. CASE StreamMismatch
  <2>1. last'.res = "err"
    BY <1>27 DEF StreamMismatch, DecodeFails, CallFails
  <2> QED
    BY <2>1
<1>28. CASE UNCHANGED vars  BY <1>28 DEF vars
<1>29. CASE CheckRead  BY <1>29 DEF CheckRead
<1> QED
  BY <1>1, <1>2, <1>3, <1>4, <1>5, <1>6, <1>7, <1>8, <1>9, <1>10, <1>11, <1>12, <1>13,
     <1>14, <1>15, <1>16, <1>17, <1>18, <1>19, <1>20, <1>21, <1>22, <1>23, <1>24, <1>25,
     <1>26, <1>27, <1>28, <1>29 DEF Next, Caller, Step

(* A substream behind the first one of a folder is in that folder or a     *)
(* later one.                                                              *)
LEMMA LaterFolder ==
  ASSUME NEW s \in Stream, NEW f \in Folder, FirstStream[f] <= s
  PROVE  f <= FolderOf[s]
<1> DEFINE g == FolderOf[s]
<1>1. g \in Folder /\ f \in Nat /\ g \in Nat
  BY LayoutTypes, NatFacts DEF Folder
<1>2. s < FirstStream[g + 1]
  BY <1>1, LayoutAssumption
<1>3. s \in Nat /\ FirstStream[g + 1] \in Nat /\ FirstStream[f] \in Nat
  BY <1>1, FirstStreamType, NatFacts DEF Stream
<1>4. g < f => FirstStream[g + 1] <= FirstStream[f]
  BY <1>1, FirstStreamGrows
<1> QED
  BY <1>1, <1>2, <1>3, <1>4

(* The folders stream_files has opened lie before the one it asks for. *)
LEMMA OpensStep ==
  TypeOK /\ CallInv /\ DecoderInv /\ PositionInv /\ OpensInv /\ [Next]_vars => OpensInv'
<1> SUFFICES ASSUME TypeOK, CallInv, DecoderInv, PositionInv, OpensInv, [Next]_vars,
                    api' # "session"
             PROVE  OpensInv'
  BY DEF OpensInv
<1>a. api' = api /\ op = "stream"
  BY DEF Next, Caller, Step, vars, archive, Cancel, RejectIndex, Request, Finish, DropSession,
     LayoutError, VisitDirectory, ReadFails, ReadEmpty, ReadStream, FinishTables, FinishCheck,
     LeaveTail, DrainTail, FolderEnds, FolderCheckFails, Completed, OpenFolder, OpenFails,
     SkipStream, StartCallback, CheckRead, ReadChunk, ChunkCancelled, DrainFails,
     CallbackReturns, CallbackFails, StreamEnds, StreamMismatch, CallInv
<1>b. /\ \A f \in Folder : opens[f] <= 1
      /\ job = "entry" /\ pc \in {"complete", "drainTail"} => decoder.folder < TargetFolder
      /\ \A f \in Folder : opens[f] > 0 =>
           \/ f <= decoder.folder \/ pc \in {"finishCheck", "closed"}
           \/ pc = "open" /\ f < TargetFolder
  BY <1>a DEF OpensInv
<1>c. ASSUME opens' = opens, pc' = "closed", job' # "entry" PROVE OpensInv'
  BY <1>b, <1>c DEF OpensInv
<1>d. ASSUME CallFails, opens' = opens PROVE OpensInv'
  BY <1>a, <1>c, <1>d DEF CallFails
<1>e. ASSUME opens' = opens, decoder'.folder = decoder.folder,
             pc \notin {"open", "finishCheck", "closed"}, pc' # "open",
             pc' \in {"complete", "drainTail"} /\ job' = "entry" =>
               pc \in {"complete", "drainTail"} /\ job = "entry" /\ entry' = entry
      PROVE  OpensInv'
  <2>1. entry' = entry => TargetFolder' = TargetFolder
    BY DEF TargetFolder
  <2> QED
    BY <1>b, <1>e, <2>1 DEF OpensInv
<1>f. ASSUME NEW scope, Completed(scope), pc = "complete" PROVE OpensInv'
  <2>1. opens' = opens /\ entry' = entry /\ job' = job /\ decoder'.folder = 0
        /\ pc' = IF job = "finish" THEN "finishCheck" ELSE "open"
    BY <1>f DEF Completed, observed, NoDecoder, ActiveFolder, AfterComplete
  <2>2. TargetFolder' = TargetFolder
    BY <2>1 DEF TargetFolder
  <2>3. CASE job = "finish"
    BY <1>b, <2>1, <2>3 DEF OpensInv
  <2>4. CASE job # "finish"
    <3>1. job = "entry"
      BY <1>f, <2>4 DEF CallInv
    <3>2. TargetFolder \in Nat /\ decoder.folder \in Nat /\ \A f \in Folder : f \in Nat
      BY <3>1, RunningEntry, NatFacts DEF Folder, TypeOK, Decoder
    <3>3. decoder.folder < TargetFolder /\ \A f \in Folder : opens[f] > 0 => f <= decoder.folder
      BY <1>b, <1>f, <3>1
    <3>4. \A f \in Folder : opens[f] > 0 => f < TargetFolder
      BY <3>2, <3>3
    <3> QED
      BY <1>b, <2>1, <2>2, <3>1, <3>4 DEF OpensInv
  <2> QED
    BY <2>3, <2>4
<1>1. CASE Cancel \/ UNCHANGED vars
  <2>1. UNCHANGED <<opens, decoder, pc, job, entry>>
    BY <1>1 DEF Cancel, vars, observed
  <2>2. TargetFolder' = TargetFolder
    BY <2>1 DEF TargetFolder
  <2> QED
    BY <1>b, <2>1, <2>2 DEF OpensInv
<1>2. ASSUME NEW e \in 1 .. Files + 1, RejectIndex(e) PROVE OpensInv'
  BY <1>2, <1>a DEF RejectIndex
<1>3. ASSUME NEW e \in Entry, Request(e) PROVE OpensInv'  BY <1>3, <1>e DEF Request
<1>4. CASE Finish
  <2>1. CASE decoder.folder # 0
    BY <1>4, <1>e, <2>1 DEF Finish
  <2>2. CASE decoder.folder = 0
    BY <1>4, <1>b, <2>2 DEF Finish, OpensInv
  <2> QED
    BY <2>1, <2>2
<1>5. CASE DropSession  BY <1>5, <1>a DEF DropSession
<1>6. CASE LayoutError  BY <1>6, <1>d DEF LayoutError
<1>7. CASE VisitDirectory  BY <1>7, <1>e DEF VisitDirectory, Located
<1>8. CASE ReadFails  BY <1>8, <1>d DEF ReadFails
<1>9. CASE ReadEmpty  BY <1>9, <1>e DEF ReadEmpty, Located, EntrySucceeds
<1>10. CASE ReadStream
  <2>1. /\ UNCHANGED <<opens, decoder, entry>> /\ Kind[entry] = "stream" /\ pc = "read"
        /\ pc' = IF decoder.folder = 0 THEN "open"
                 ELSE IF decoder.folder = TargetFolder THEN "seek" ELSE "complete"
        /\ job' = "entry"
    BY <1>10 DEF ReadStream, Located, TargetFolder, observed
  <2>2. TargetFolder' = TargetFolder
    BY <2>1 DEF TargetFolder
  <2>3. CASE decoder.folder = 0
    <3>1. \A f \in Folder : ~(f <= 0)
      BY NatFacts DEF Folder
    <3>2. \A f \in Folder : ~(opens[f] > 0)
      BY <1>b, <2>1, <2>3, <3>1
    <3> QED
      BY <1>b, <2>1, <2>3, <3>2 DEF OpensInv
  <2>4. CASE decoder.folder = TargetFolder
    BY <1>b, <2>1, <2>4 DEF OpensInv
  <2>5. CASE decoder.folder # 0 /\ decoder.folder # TargetFolder
    <3>1. decoder.pos <= StreamOf[entry] /\ entry \in Entry
      BY <2>1, <2>5, ReadPosition, NatFacts DEF CallInv, TypeOK, Entry
    <3>2. StreamOf[entry] \in Stream /\ decoder.folder \in Folder
      BY <2>1, <2>5, <3>1, StreamOfType, NatFacts DEF TypeOK, Decoder, Folder
    <3>3. FirstStream[decoder.folder] <= decoder.pos
      BY <2>5 DEF DecoderInv
    <3>4. FirstStream[decoder.folder] <= StreamOf[entry]
      <4>1. FirstStream[decoder.folder] \in Nat /\ decoder.pos \in Nat /\ StreamOf[entry] \in Nat
        BY <3>2, FirstStreamType, NatFacts DEF Stream, TypeOK, Decoder
      <4> QED
        BY <3>1, <3>3, <4>1
    <3>5. decoder.folder <= TargetFolder
      BY <3>2, <3>4, LaterFolder DEF TargetFolder
    <3>6. TargetFolder \in Nat /\ decoder.folder \in Nat
      <4>1. TargetFolder \in Folder
        BY <3>2, FolderOfType DEF TargetFolder
      <4> QED
        BY <3>2, <4>1, NatFacts DEF Folder
    <3>7. decoder.folder < TargetFolder
      BY <2>5, <3>5, <3>6
    <3> QED
      BY <1>b, <2>1, <2>2, <3>7 DEF OpensInv
  <2> QED
    BY <2>3, <2>4, <2>5
<1>11. CASE FinishTables
  <2>1. opens' = opens /\ pc' = "closed" /\ job' = job /\ pc = "idle"
    BY <1>11 DEF FinishTables
  <2>2. job # "entry"
    BY <2>1 DEF CallInv, InEntry
  <2> QED
    BY <1>c, <2>1, <2>2
<1>12. CASE FinishCheck  BY <1>12, <1>a, <1>c DEF FinishCheck
<1>13. CASE LeaveTail  BY <1>13, <1>f DEF LeaveTail
<1>14. CASE DrainTail  BY <1>14, <1>e DEF DrainTail, OpenStream, ActiveFolder, observed
<1>15. CASE FolderEnds  BY <1>15, <1>f DEF FolderEnds
<1>16. CASE FolderCheckFails  BY <1>16, <1>d DEF FolderCheckFails, DecodeFails
<1>17. CASE OpenFolder
  <2>1. /\ pc = "open" /\ pc' = "seek" /\ entry' = entry /\ decoder'.folder = TargetFolder
        /\ opens' = [opens EXCEPT ![TargetFolder] = @ + 1]
    BY <1>17 DEF OpenFolder, ActiveFolder
  <2>2. job = "entry" /\ decoder.folder = 0
    BY <2>1 DEF CallInv, InEntry, DecoderInv
  <2>3. TargetFolder \in Folder /\ opens \in [Folder -> Nat] /\ \A f \in Folder : f \in Nat /\ ~(f <= 0)
    BY <2>2, RunningEntry, NatFacts DEF TypeOK, Folder
  <2>4. \A f \in Folder : opens[f] > 0 => f < TargetFolder
    BY <1>b, <2>1, <2>2, <2>3
  <2>5. opens[TargetFolder] = 0
    BY <2>3, <2>4
  <2>6. \A f \in Folder : opens'[f] = IF f = TargetFolder THEN 1 ELSE opens[f]
    BY <2>1, <2>3, <2>5
  <2>7. \A f \in Folder : opens'[f] <= 1 /\ (opens'[f] > 0 => f <= TargetFolder)
    BY <1>b, <2>3, <2>4, <2>6
  <2> QED
    BY <2>1, <2>7 DEF OpensInv
<1>18. CASE OpenFails  BY <1>18, <1>d DEF OpenFails, DecodeFails
<1>19. CASE SkipStream  BY <1>19, <1>e DEF SkipStream, OpenStream, ActiveFolder, observed
<1>20. CASE StartCallback  BY <1>20, <1>e DEF StartCallback, OpenStream, ActiveFolder, observed
<1>21. CASE ReadChunk
  BY <1>21, <1>e DEF ReadChunk, Reading, HashChunk, ActiveFolder
<1>22. CASE ChunkCancelled
  <2>1. CASE pc = "callback"
    BY <1>22, <1>e, <2>1 DEF ChunkCancelled, HashChunk, ActiveFolder
  <2>2. CASE pc # "callback"
    BY <1>22, <1>d, <2>2 DEF ChunkCancelled, DecodeFails
  <2> QED
    BY <2>1, <2>2
<1>23. CASE DrainFails  BY <1>23, <1>d DEF DrainFails, DecodeFails
<1>24. CASE CallbackReturns  BY <1>24, <1>e DEF CallbackReturns
<1>25. CASE CallbackFails  BY <1>25, <1>d DEF CallbackFails, DecodeFails
<1>26. CASE StreamEnds
  <2>1. CASE pc = "drainEntry"
    BY <1>26, <1>e, <2>1 DEF StreamEnds, EntrySucceeds
  <2>2. CASE pc # "drainEntry"
    BY <1>26, <1>e, <2>2 DEF StreamEnds, StreamDone, Draining, Reading
  <2> QED
    BY <2>1, <2>2
<1>27. CASE StreamMismatch  BY <1>27, <1>d DEF StreamMismatch, DecodeFails
<1>28. CASE CheckRead
  <2>1. UNCHANGED <<opens, decoder, pc, job, entry>>
    BY <1>28 DEF CheckRead, observed
  <2>2. TargetFolder' = TargetFolder
    BY <2>1 DEF TargetFolder
  <2> QED
    BY <1>b, <2>1, <2>2 DEF OpensInv
<1> QED
  BY <1>1, <1>2, <1>3, <1>4, <1>5, <1>6, <1>7, <1>8, <1>9, <1>10, <1>11, <1>12, <1>13,
     <1>14, <1>15, <1>16, <1>17, <1>18, <1>19, <1>20, <1>21, <1>22, <1>23, <1>24, <1>25,
     <1>26, <1>27, <1>28 DEF Next, Caller, Step

-----------------------------------------------------------------------------
(* The initial states satisfy IInv. *)
LEMMA InitIInv == Init => IInv
<1> SUFFICES ASSUME Init PROVE IInv
  OBVIOUS
<1>1. decoder.folder = 0 /\ pc = "idle"
  BY DEF Init, NoDecoder, ActiveFolder
<1>2. TypeOK
  <2>1. damage \in [Folder -> Damage] /\ broken \in 1 .. Folders + 2
        /\ api \in {"session", "all", "selected"}
    BY SizesAssumption DEF Init, InitArchive
  <2>2. pending \in SUBSET Entry /\ op \in {"none", "stream"}
    BY <2>1 DEF Init, Selection
  <2>3. decoder \in Decoder
    BY NatFacts DEF Init, NoDecoder, ActiveFolder, Decoder
  <2>4. last \in Outcome
    BY NatFacts DEF Init, Outcome
  <2>5. opens \in [Folder -> Nat]
    BY DEF Init
  <2>6. cancelled \in BOOLEAN /\ lateCall \in BOOLEAN /\ checked \in BOOLEAN
    BY DEF Init
  <2> QED
    BY <2>1, <2>2, <2>3, <2>4, <2>5, <2>6, NatFacts DEF Init, TypeOK, Scope
<1>3. CallInv
  <2>1. \A d \in Entry : d >= 1
    BY NatFacts DEF Entry
  <2>2. \A d \in pending : d >= 1
    BY <1>2, <2>1 DEF TypeOK
  <2>3. /\ nextEntry = 1 /\ job = "none" /\ pc = "idle"
        /\ op = IF api = "session" THEN "none" ELSE "stream"
        /\ api = "session" => pending = {}
    BY DEF Init, Selection
  <2> QED
    BY <2>2, <2>3 DEF CallInv, InEntry
<1>4. DecoderInv /\ PositionInv
  BY <1>1 DEF DecoderInv, PositionInv, Reading
<1>5. ChecksInv
  BY <1>1, FolderOfType DEF ChecksInv
<1>6. ScopeInv /\ OkEntriesAreIntact
  BY DEF Init, ScopeInv, OkEntriesAreIntact
<1>7. ReportInv /\ GotInv /\ LateInv /\ CompleteScopeIsHonest /\ NoSuccessAfterCancel
  BY DEF Init, ReportInv, GotInv, LateInv, CompleteScopeIsHonest, NoSuccessAfterCancel
<1>8. BudgetInv
  BY <1>1, NoFolderIsEager, NatFacts DEF Init, BudgetInv, Prepaid
<1>9. OpensInv
  <2>1. \A f \in Folder : opens[f] = 0
    BY DEF Init
  <2> QED
    BY <1>1, <2>1 DEF OpensInv
<1> QED
  BY <1>2, <1>3, <1>4, <1>5, <1>6, <1>7, <1>8, <1>9 DEF IInv

(* IInv is inductive: it holds in every reachable state of a session or    *)
(* stream_files call, whatever the archive's layout, damage and limits.    *)
THEOREM Invariance == Spec => []IInv
<1>1. IInv /\ [Next]_vars => IInv'
  <2> SUFFICES ASSUME IInv, [Next]_vars PROVE IInv'
    OBVIOUS
  <2> USE DEF IInv
  <2>1. TypeOK'
    BY TypeStep
  <2>2. CallInv'
    BY CallStep
  <2>3. DecoderInv'
    BY DecoderStep
  <2>4. PositionInv'
    BY PositionStep
  <2>5. ChecksInv'
    BY ChecksStep
  <2>6. ScopeInv'
    BY ScopeStep
  <2>7. ReportInv' /\ GotInv'
    BY ReportStep, GotStep
  <2>13. LateInv'
    BY LateStep
  <2>8. BudgetInv'
    BY BudgetStep
  <2>9. CompleteScopeIsHonest'
    BY HonestStep
  <2>10. OkEntriesAreIntact'
    BY OkEntriesStep
  <2>11. NoSuccessAfterCancel'
    BY CancelStep
  <2>12. OpensInv'
    BY OpensStep
  <2> QED
    BY <2>1, <2>2, <2>3, <2>4, <2>5, <2>6, <2>7, <2>8, <2>9, <2>10, <2>11, <2>12,
       <2>13
<1> QED
  BY InitIInv, <1>1, PTL DEF Spec

(* Every variable of a session keeps its type.                             *)
THEOREM TypeCorrect == Spec => []TypeOK
<1>1. IInv => TypeOK
  BY DEF IInv
<1> QED
  BY Invariance, <1>1, PTL

(* finish and finish_folder report CompleteFolders only when every folder  *)
(* that was opened agrees with its length, its end and its checksums.      *)
THEOREM CompleteScopeHonest == Spec => []CompleteScopeIsHonest
<1>1. IInv => CompleteScopeIsHonest
  BY DEF IInv
<1> QED
  BY Invariance, <1>1, PTL

(* An entry whose read succeeded was decoded to its end and matches its    *)
(* digest, also when its callback stopped early.                           *)
THEOREM OkEntriesIntact == Spec => []OkEntriesAreIntact
<1>1. IInv => OkEntriesAreIntact
  BY DEF IInv
<1> QED
  BY Invariance, <1>1, PTL

(* A call that began after cancellation does not succeed.                  *)
THEOREM CancelledCallsFail == Spec => []NoSuccessAfterCancel
<1>1. IInv => NoSuccessAfterCancel
  BY DEF IInv
<1> QED
  BY Invariance, <1>1, PTL

(* stream_files and stream_selected_files start the decoder of a folder at *)
(* most once, whichever entries are selected and wherever reading ends.    *)
THEOREM OpenedOnce == Spec => []FoldersOpenedOnce
<1>1. IInv => FoldersOpenedOnce
  BY DEF IInv, OpensInv, FoldersOpenedOnce
<1> QED
  BY Invariance, <1>1, PTL

(* read_stream never asks skip_to to go backwards.                         *)
THEOREM SeeksGoForward == Spec => []SeekIsForward
<1>1. IInv => SeekIsForward
  BY DEF IInv, PositionInv, SeekIsForward
<1> QED
  BY Invariance, <1>1, PTL

(* What has been decoded is charged, and the charge stays within           *)
(* max_total_decoded_bytes.                                                *)
THEOREM OutputIsPaidFor == Spec => []DecodedOutputIsPaidFor
<1>1. IInv => DecodedOutputIsPaidFor
  <2> SUFFICES ASSUME IInv PROVE DecodedOutputIsPaidFor
    OBVIOUS
  <2>1. Prepaid \in Nat
    BY PrepaidIsNat DEF IInv
  <2>2. produced \in Nat /\ charged \in Nat
    BY DEF IInv, TypeOK
  <2> QED
    BY <2>1, <2>2 DEF IInv, BudgetInv, DecodedOutputIsPaidFor
<1> QED
  BY Invariance, <1>1, PTL

(* A callback sees its own entry's bytes, from the first one and without a *)
(* gap.                                                                    *)
THEOREM OwnBytes == Spec => []CallbackSeesOwnBytes
<1>1. IInv => CallbackSeesOwnBytes
  <2> SUFFICES ASSUME IInv, pc = "callback"
               PROVE  LET s == StreamOf[entry]
                      IN /\ decoder.folder = FolderOf[s]
                         /\ got \subseteq Range(s)
                         /\ ~cancelled => got = (End[s] - Size[s]) .. (decoder.decoded - 1)
    BY DEF CallbackSeesOwnBytes
  <2> USE DEF IInv
  <2> DEFINE s == StreamOf[entry]
  <2>1. s \in Stream
    BY RunningEntry DEF CallInv, InEntry
  <2>2. decoder.folder = FolderOf[s] /\ decoder.pos = s + 1 /\ decoder.folder # 0
    BY DEF PositionInv, TargetFolder, DecoderInv, Reading
  <2>3. s \in Nat /\ decoder.pos - 1 = s /\ decoder.pos # FirstStream[decoder.folder]
    <3>1. decoder.folder \in Folder
      BY <2>1, <2>2, FolderOfType
    <3>2. FirstStream[decoder.folder] < decoder.pos /\ FirstStream[decoder.folder] \in Nat
      BY <2>2, <3>1, FirstStreamType, NatFacts DEF DecoderInv, Reading
    <3>3. s \in Nat
      BY <2>1, NatFacts DEF Stream
    <3> QED
      BY <2>2, <3>2, <3>3
  <2>4. decoder.streamHashed = (End[s] - Size[s]) .. decoder.decoded - 1
        /\ decoder.decoded + decoder.remaining = End[s]
    BY <2>2, <2>3 DEF DecoderInv, Offset, Reading
  <2>5. decoder.decoded \in Nat /\ decoder.remaining \in Nat /\ End[s] \in Nat /\ Size[s] \in Nat
    BY <2>1, LayoutTypes DEF TypeOK, Decoder
  <2>6. (End[s] - Size[s]) .. decoder.decoded - 1 \subseteq Range(s)
    BY <2>4, <2>5 DEF Range
  <2> QED
    BY <2>2, <2>4, <2>6 DEF GotInv
<1> QED
  BY Invariance, <1>1, PTL

(* Once cancelled, a session decodes at most one more chunk, that of the   *)
(* read which had already looked at the flag, over all calls that follow.  *)
THEOREM CancelStopsDecoding == Spec => []CancelLetsOneChunkPass
<1>1. IInv => CancelLetsOneChunkPass
  <2> SUFFICES ASSUME IInv PROVE lateChunks <= 1
    BY DEF CancelLetsOneChunkPass
  <2>1. lateChunks \in Nat /\ (lateChunks > 0 => lateChunks = 1)
    BY DEF IInv, TypeOK, LateInv
  <2> QED
    BY <2>1
<1> QED
  BY Invariance, <1>1, PTL

(* The verification scope only weakens over the life of a session.         *)
THEOREM ScopeWeakens == Spec => ScopeOnlyWeakens
<1>1. ASSUME [Next]_vars, verification' # verification
      PROVE  \/ verification' = "Incomplete"
             \/ verification' = Combine(verification, "SelectedEntries")
             \/ verification' = Combine(verification, "CompleteFolders")
  <2>1. CASE Cancel
    BY <1>1, <2>1 DEF Cancel
  <2>2. CASE Caller
    BY <1>1, <2>2 DEF Caller, RejectIndex, Request, Finish, DropSession
  <2>3. CASE Step
    BY <1>1, <2>3 DEF Step, LayoutError, VisitDirectory, ReadFails, ReadEmpty, ReadStream,
       FinishTables, FinishCheck, LeaveTail, DrainTail, FolderEnds, FolderCheckFails,
       OpenFolder, OpenFails, SkipStream, StartCallback, CheckRead, ReadChunk,
       ChunkCancelled, DrainFails, CallbackReturns, CallbackFails, StreamEnds, StreamMismatch,
       Completed, DecodeFails
  <2>4. CASE UNCHANGED vars
    BY <1>1, <2>4 DEF vars
  <2> QED
    BY <1>1, <2>1, <2>2, <2>3, <2>4 DEF Next
<1>2. \A v, w : Rank(Combine(v, w)) <= Rank(v) /\ Rank("Incomplete") <= Rank(v)
  BY DEF Rank, Combine
<1>3. [Next]_vars => [Rank(verification') <= Rank(verification)]_verification
  BY <1>1, <1>2
<1> QED
  BY <1>3, PTL DEF Spec, ScopeOnlyWeakens
=============================================================================
