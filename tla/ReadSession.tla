----------------------------- MODULE ReadSession -----------------------------
(***************************************************************************)
(* Reading entries out of solid folders.  One decoder is shared by         *)
(* consecutive entries of a folder; a read session, stream_files and       *)
(* stream_selected_files all drive the same EntryDecoder.                  *)
(*                                                                         *)
(* Data is counted in chunks, a chunk being what one SubstreamReader read  *)
(* returns.  Substreams have ordinals 1..Streams in archive order; folder  *)
(* f owns FirstStream[f] .. FirstStream[f+1]-1.  A digest is the set of    *)
(* chunk offsets hashed; it matches when it covers exactly the range the   *)
(* archive's CRC was computed over and no chunk of it is corrupt.          *)
(* ReadVerification is "CompleteFolders", "SelectedEntries" or             *)
(* "Incomplete".                                                           *)
(***************************************************************************)
EXTENDS Integers, FiniteSets

CONSTANTS
  Files,        \* number of entries
  Kind,         \* entry -> "stream" (data), "empty" or "directory" (or anti)
  StreamOf,     \* e in 0..Files -> number of data entries among 1..e
  Folders,      \* number of folders
  Streams,      \* number of substreams
  FirstStream,  \* folder (and Folders + 1) -> ordinal of its first substream
  FolderOf,     \* substream -> folder
  Size,         \* substream -> chunks
  End,          \* substream -> end offset in its folder
  Unpack,       \* folder -> declared decoded size
  StreamCrc,    \* substreams that have a digest
  FolderCrc,    \* folders that have a digest
  Eager,        \* folders whose output is charged when the decoder starts
  MaxDecoded,   \* max_total_decoded_bytes
  Damages,      \* candidate contents of the folders, see Damage
  BrokenAt,     \* candidate positions of the first folder with a bad layout
  Apis          \* subset of {"session", "all", "selected"}

Folder == 1 .. Folders
Stream == 1 .. Streams
Entry  == 1 .. Files

(***************************************************************************)
(* What a folder's decoder yields: `len' chunks and then end of data or an *)
(* error; the chunks at offsets `corrupt' differ from what was archived.   *)
(***************************************************************************)
Damage == [len : Nat, ends : {"eof", "error"}, corrupt : SUBSET Nat]

Range(s) == (End[s] - Size[s]) .. (End[s] - 1)

ASSUME SizesAssumption ==
  /\ Files \in Nat /\ Folders \in Nat /\ Streams \in Nat /\ MaxDecoded \in Nat
  /\ Kind \in [Entry -> {"stream", "empty", "directory"}]
  /\ StreamCrc \subseteq Stream /\ FolderCrc \subseteq Folder /\ Eager \subseteq Folder
  /\ Damages \subseteq [Folder -> Damage]
  /\ BrokenAt \subseteq 1 .. Folders + 2
  /\ Apis \subseteq {"session", "all", "selected"}

(* FileStreams::new admits a listing only if it has a stream per data entry. *)
ASSUME EntriesAssumption ==
  /\ StreamOf \in [0 .. Files -> 0 .. Streams]
  /\ StreamOf[0] = 0 /\ StreamOf[Files] = Streams
  /\ \A d, e \in Entry : d <= e => StreamOf[d] <= StreamOf[e]
  /\ \A e \in Entry :
       StreamOf[e] = StreamOf[e - 1] + (IF Kind[e] = "stream" THEN 1 ELSE 0)

(* FolderStreamLayout: ranges are consecutive and end at the folder's size. *)
ASSUME LayoutAssumption ==
  /\ FirstStream \in [1 .. Folders + 1 -> 1 .. Streams + 1]
  /\ FolderOf \in [Stream -> Folder]
  /\ Size \in [Stream -> Nat] /\ End \in [Stream -> Nat] /\ Unpack \in [Folder -> Nat]
  /\ \A f, g \in 1 .. Folders + 1 : f <= g => FirstStream[f] <= FirstStream[g]
  /\ \A s \in Stream, f \in Folder :
       FolderOf[s] = f <=> FirstStream[f] <= s /\ s < FirstStream[f + 1]
  /\ \A s \in Stream :
       End[s] = Size[s] + (IF s = FirstStream[FolderOf[s]] THEN 0 ELSE End[s - 1])
  /\ \A f \in Folder : FirstStream[f] < FirstStream[f + 1]
                         => End[FirstStream[f + 1] - 1] = Unpack[f]
  /\ \A s \in Stream : End[s] <= Unpack[FolderOf[s]]

VARIABLES
  (* the archive and the request, fixed when the session is created *)
  damage, broken, api,
  (* OperationControl, shared with other threads *)
  cancelled,
  (* ArchiveReadSession and EntryDecoder *)
  nextEntry,     \* count - files.len(): next entry FileStreams would yield
  pending,       \* entries a stream_files call has still to visit
  decoder,       \* EntryDecoder.current; folder 0 is None
  verification,
  charged,       \* OperationBudget.decoded
  (* the running call *)
  pc, op, entry, job,
  checked,       \* the running SubstreamReader::read passed its cancellation check
  (* observation of calls *)
  last,          \* the call that returned last
  lateCall,      \* cancellation was visible when the running call began
  got,           \* offsets handed to the running callback
  okEntries, failedEntries,
  opens,         \* times each folder's decoder was started
  produced,      \* chunks that left SubstreamReader
  lateChunks     \* of them, those whose decoding began after cancellation

archive  == <<damage, broken, api>>
observed == <<last, lateCall, got, okEntries, failedEntries, opens, produced>>
reader == <<checked, lateChunks>>
vars == <<archive, cancelled, nextEntry, pending, decoder, verification, charged,
          pc, op, entry, job, observed, reader>>

(* ActiveFolder: the next substream, decoded_len, what remains of the      *)
(* current substream, and what the folder and stream digests have hashed.  *)
ActiveFolder(f, pos, decoded, remaining, hashed, streamHashed) ==
  [folder |-> f, pos |-> pos, decoded |-> decoded, remaining |-> remaining,
   hashed |-> hashed, streamHashed |-> streamHashed]

NoDecoder == ActiveFolder(0, 0, 0, 0, {}, {})

(* Faulty variant: the newest claim wins. *)
CombineKeepsNewest(v, w) == w

(* ReadVerification::combine: the weaker claim wins. *)
Combine(v, w) ==
  IF "Incomplete" \in {v, w} THEN "Incomplete"
  ELSE IF "SelectedEntries" \in {v, w} THEN "SelectedEntries" ELSE "CompleteFolders"

-----------------------------------------------------------------------------
(***************************************************************************)
(* Layout.  Folder layouts are parsed when the traversal reaches them and  *)
(* the iterator ends at the first bad one, so a stream cannot be located   *)
(* once a bad folder lies at or before its own.  Folders + 1 stands for    *)
(* tables that do not end with the last folder, Folders + 2 for none.      *)
(***************************************************************************)
LayoutBroken(s) == s > 0 /\ broken <= FolderOf[s]

(* StreamLocations::advance_by over the data entries before the requested one. *)
SkipFails ==
  StreamOf[entry - 1] > StreamOf[nextEntry - 1] /\ LayoutBroken(StreamOf[entry - 1])

LocateFails == Kind[entry] = "stream" /\ LayoutBroken(StreamOf[entry])

FileLike(e) == Kind[e] # "directory"

(* Streams of the active folder that Substreams has not yielded yet. *)
StreamsLeft == FirstStream[decoder.folder + 1] - decoder.pos

SelectedOnly == api # "all"

InitArchive == damage \in Damages /\ broken \in BrokenAt /\ api \in Apis

(* EntrySelection: all entries or the selected ones; an empty selection    *)
(* returns before anything is read.                                        *)
Selection ==
  CASE api = "session"  -> {{}}
    [] api = "all"      -> {Entry}
    [] api = "selected" -> (SUBSET Entry) \ {{}}

Init ==
  /\ InitArchive
  /\ cancelled \in BOOLEAN
  /\ nextEntry = 1
  /\ pending \in Selection
  /\ decoder = NoDecoder
  /\ verification = "CompleteFolders"
  /\ charged = 0
  /\ pc = "idle" /\ job = "none" /\ entry = 0
  /\ op = IF api = "session" THEN "none" ELSE "stream"
  /\ last = [op |-> "none", entry |-> 0, res |-> "none"]
  /\ lateCall = cancelled
  /\ got = {} /\ okEntries = {} /\ failedEntries = {}
  /\ opens = [f \in Folder |-> 0]
  /\ produced = 0
  /\ checked = FALSE /\ lateChunks = 0

-----------------------------------------------------------------------------
(***************************************************************************)
(* Return paths.  An error of read_entry or finish_folder leaves the       *)
(* session usable; finish consumes it and stream_files stops.              *)
(***************************************************************************)
CallFails ==
  /\ pc' = IF op \in {"read", "finishFolder"} THEN "idle" ELSE "closed"
  /\ last' = [op |-> op, entry |-> entry, res |-> "err"]
  /\ failedEntries' = IF entry \in Entry /\ FileLike(entry)
                        THEN failedEntries \cup {entry} ELSE failedEntries
  /\ job' = "none"
  /\ got' = {}
  /\ UNCHANGED <<okEntries, pending>>

EntrySucceeds ==
  /\ pc' = "idle"
  /\ last' = IF op = "read" THEN [op |-> op, entry |-> entry, res |-> "ok"] ELSE last
  /\ okEntries' = okEntries \cup {entry}
  /\ pending' = pending \ {entry}
  /\ job' = "none"
  /\ got' = {}
  /\ UNCHANGED failedEntries

(* An error inside EntryDecoder: the detached folder is dropped and the    *)
(* scope is Incomplete from here on.                                       *)
DecodeFails ==
  /\ decoder' = NoDecoder
  /\ verification' = "Incomplete"
  /\ CallFails

-----------------------------------------------------------------------------
(***************************************************************************)
(* Calls.                                                                  *)
(***************************************************************************)

(* OperationControl::cancel from any thread. *)
Cancel ==
  /\ ~cancelled /\ pc # "closed"
  /\ cancelled' = TRUE
  /\ UNCHANGED <<archive, reader, nextEntry, pending, decoder, verification, charged,
                 pc, op, entry, job, observed>>

(* read_entry with an index outside next_index..count. *)
RejectIndex(e) ==
  /\ pc = "idle" /\ api = "session"
  /\ e \notin nextEntry .. Files
  /\ last' = [op |-> "read", entry |-> e, res |-> "invalid"]
  /\ UNCHANGED <<archive, reader, cancelled, nextEntry, pending, decoder, verification,
                 charged, pc, op, entry, job, lateCall, got, okEntries, failedEntries,
                 opens, produced>>

(* A session's caller asks for any later entry; stream_files visits the    *)
(* first of the entries still selected.                                    *)
Request(e) ==
  /\ pc = "idle"
  /\ IF api = "session"
       THEN e \in nextEntry .. Files /\ op' = "read" /\ lateCall' = cancelled
       ELSE e \in pending /\ (\A d \in pending : e <= d) /\ UNCHANGED <<op, lateCall>>
  /\ entry' = e
  /\ pc' = "read"
  /\ UNCHANGED <<archive, reader, cancelled, nextEntry, pending, decoder, verification,
                 charged, job, last, got, okEntries, failedEntries, opens, produced>>

(* FileStreams::nth fails before it yields the entry.  The entries skipped *)
(* are consumed; the requested one only if its own stream is the failure.  *)
LayoutError ==
  /\ pc = "read"
  /\ SkipFails \/ LocateFails
  /\ nextEntry' = IF SkipFails THEN entry ELSE entry + 1
  /\ CallFails
  /\ UNCHANGED <<archive, reader, cancelled, decoder, verification, charged, op, entry,
                 lateCall, opens, produced>>

Located ==
  /\ pc = "read"
  /\ ~SkipFails /\ ~LocateFails
  /\ nextEntry' = entry + 1

(* No content: a session reports Directory, stream_files passes over it. *)
VisitDirectory ==
  /\ Located /\ ~FileLike(entry)
  /\ pc' = "idle"
  /\ last' = IF op = "read" THEN [op |-> op, entry |-> entry, res |-> "err"] ELSE last
  /\ pending' = pending \ {entry}
  /\ UNCHANGED <<archive, reader, cancelled, decoder, verification, charged, op, entry,
                 job, lateCall, got, okEntries, failedEntries, opens, produced>>

(* EntryDecoder::read before read_stream: cancellation, or an error of an  *)
(* empty entry's callback, lowers the scope and keeps the decoder.         *)
ReadFails ==
  /\ Located /\ FileLike(entry)
  /\ cancelled \/ Kind[entry] = "empty"
  /\ verification' = "Incomplete"
  /\ CallFails
  /\ UNCHANGED <<archive, reader, cancelled, decoder, charged, op, entry, lateCall,
                 opens, produced>>

ReadEmpty ==
  /\ Located /\ Kind[entry] = "empty" /\ ~cancelled
  /\ EntrySucceeds
  /\ UNCHANGED <<archive, reader, cancelled, decoder, verification, charged, op, entry,
                 lateCall, opens, produced>>

(* Faulty variant: the decoder is not kept for the next entry. *)
ReadStreamReopens ==
  /\ Located /\ Kind[entry] = "stream" /\ ~cancelled
  /\ job' = "entry"
  /\ pc' = IF decoder.folder = 0 THEN "open" ELSE "complete"
  /\ UNCHANGED <<archive, reader, cancelled, pending, decoder, verification, charged,
                 op, entry, observed>>

(* EntryDecoder::read_stream keeps the decoder of the entry's folder; any  *)
(* other one is completed before the entry's folder is opened.             *)
ReadStream ==
  /\ Located /\ Kind[entry] = "stream" /\ ~cancelled
  /\ job' = "entry"
  /\ pc' = IF decoder.folder = 0 THEN "open"
           ELSE IF decoder.folder = FolderOf[StreamOf[entry]] THEN "seek" ELSE "complete"
  /\ UNCHANGED <<archive, reader, cancelled, pending, decoder, verification, charged,
                 op, entry, observed>>

(* stream_files over all entries ends with FileStreams::finish, which      *)
(* rejects tables that do not end with the last entry.                     *)
FinishTables ==
  /\ pc = "idle" /\ api = "all" /\ pending = {} /\ broken <= Folders + 1
  /\ pc' = "closed"
  /\ last' = [op |-> op, entry |-> 0, res |-> "err"]
  /\ UNCHANGED <<archive, reader, cancelled, nextEntry, pending, decoder, verification,
                 charged, op, entry, job, lateCall, got, okEntries, failedEntries,
                 opens, produced>>

(* finish_folder and finish of a session, and the finish that ends         *)
(* stream_files.                                                           *)
Finish ==
  /\ pc = "idle"
  /\ IF api = "session"
       THEN op' \in {"finishFolder", "finish"} /\ lateCall' = cancelled
       ELSE /\ pending = {} /\ (api = "all" => broken > Folders + 1)
            /\ UNCHANGED <<op, lateCall>>
  /\ entry' = 0
  /\ job' = "finish"
  /\ pc' = IF decoder.folder = 0 THEN "finishCheck" ELSE "complete"
  /\ UNCHANGED <<archive, reader, cancelled, nextEntry, pending, decoder, verification,
                 charged, last, got, okEntries, failedEntries, opens, produced>>

(* Faulty variant: the last cancellation check is missing. *)
FinishUnchecked ==
  /\ pc = "finishCheck"
  /\ pc' = IF op = "finishFolder" THEN "idle" ELSE "closed"
  /\ last' = [op |-> op, entry |-> 0, res |-> verification]
  /\ job' = "none"
  /\ UNCHANGED <<archive, reader, cancelled, nextEntry, pending, decoder, verification,
                 charged, op, entry, lateCall, got, okEntries, failedEntries, opens,
                 produced>>

(* The last cancellation check of EntryDecoder::finish. *)
FinishCheck ==
  /\ pc = "finishCheck"
  /\ pc' = IF op = "finishFolder" THEN "idle" ELSE "closed"
  /\ last' = [op |-> op, entry |-> 0, res |-> IF cancelled THEN "err" ELSE verification]
  /\ job' = "none"
  /\ UNCHANGED <<archive, reader, cancelled, nextEntry, pending, decoder, verification,
                 charged, op, entry, lateCall, got, okEntries, failedEntries, opens,
                 produced>>

(* Dropping a session releases the decoder without checking anything. *)
DropSession ==
  /\ pc = "idle" /\ api = "session"
  /\ pc' = "closed" /\ decoder' = NoDecoder
  /\ UNCHANGED <<archive, reader, cancelled, nextEntry, pending, verification, charged,
                 op, entry, job, observed>>

-----------------------------------------------------------------------------
(***************************************************************************)
(* Folder completion, opening and seeking.                                 *)
(***************************************************************************)

(* Where the call goes when the detached folder has been completed. *)
AfterComplete == IF job = "finish" THEN "finishCheck" ELSE "open"

Completed(scope) ==
  /\ verification' = Combine(verification, scope)
  /\ decoder' = NoDecoder
  /\ pc' = AfterComplete
  /\ UNCHANGED <<archive, reader, cancelled, nextEntry, pending, charged, op, entry,
                 job, observed>>

(* ActiveFolder::finish in SelectedStreams mode leaves a tail unread when  *)
(* no folder digest needs it.                                              *)
MayLeaveTail == SelectedOnly /\ decoder.folder \notin FolderCrc /\ StreamsLeft # 0

LeaveTail ==
  /\ pc = "complete" /\ MayLeaveTail
  /\ Completed("SelectedEntries")

(* Substreams::next and the SubstreamReader over the stream it yields. *)
OpenStream ==
  decoder' = ActiveFolder(decoder.folder, decoder.pos + 1, decoder.decoded,
                          Size[decoder.pos], decoder.hashed, {})

DrainTail ==
  /\ pc = "complete" /\ ~MayLeaveTail /\ StreamsLeft # 0
  /\ OpenStream
  /\ pc' = "drainTail"
  /\ UNCHANGED <<archive, reader, cancelled, nextEntry, pending, verification, charged,
                 op, entry, job, observed>>

(* Faulty variant: data after the declared size is not noticed. *)
FolderChecksNoTail ==
  /\ decoder.decoded = Unpack[decoder.folder]
  /\ decoder.folder \in FolderCrc =>
       /\ decoder.hashed = 0 .. Unpack[decoder.folder] - 1
       /\ decoder.hashed \cap damage[decoder.folder].corrupt = {}

(* After the last stream: declared length, no extra byte, folder digest. *)
FolderChecks ==
  /\ decoder.decoded = Unpack[decoder.folder]
  /\ damage[decoder.folder].len <= decoder.decoded
  /\ damage[decoder.folder].ends = "eof"
  /\ decoder.folder \in FolderCrc =>
       /\ decoder.hashed = 0 .. Unpack[decoder.folder] - 1
       /\ decoder.hashed \cap damage[decoder.folder].corrupt = {}

FolderEnds ==
  /\ pc = "complete" /\ StreamsLeft = 0
  /\ FolderChecks
  /\ Completed("CompleteFolders")

FolderCheckFails ==
  /\ pc = "complete" /\ StreamsLeft = 0
  /\ ~FolderChecks
  /\ DecodeFails
  /\ UNCHANGED <<archive, reader, cancelled, nextEntry, charged, op, entry, lateCall,
                 opens, produced>>

TargetFolder == FolderOf[StreamOf[entry]]

(* Faulty variant: eager output is not charged. *)
EagerIsFree == 0

(* bind and start.  An eager decoder's whole output is charged; start has  *)
(* to fit it into the budget first.                                        *)
EagerCost == IF TargetFolder \in Eager THEN Unpack[TargetFolder] ELSE 0

OpenFolder ==
  /\ pc = "open"
  /\ charged + EagerCost <= MaxDecoded
  /\ charged' = charged + EagerCost
  /\ decoder' = ActiveFolder(TargetFolder, FirstStream[TargetFolder], 0, 0, {}, {})
  /\ opens' = [opens EXCEPT ![TargetFolder] = @ + 1]
  /\ pc' = "seek"
  /\ UNCHANGED <<archive, reader, cancelled, nextEntry, pending, verification, op,
                 entry, job, last, lateCall, got, okEntries, failedEntries, produced>>

(* Unsupported methods, packed ranges and CRCs, memory, password, KDF and  *)
(* decoded-byte limits, cancellation while an eager decoder runs.  Errors  *)
(* after start began decoding keep the eager charge.                       *)
OpenFails ==
  /\ pc = "open"
  /\ charged' \in {charged} \cup
       (IF charged + EagerCost <= MaxDecoded THEN {charged + EagerCost} ELSE {})
  /\ cancelled' \in {cancelled} \cup (IF TargetFolder \in Eager THEN {TRUE} ELSE {})
  /\ DecodeFails
  /\ UNCHANGED <<archive, reader, nextEntry, op, entry, lateCall, opens, produced>>

(* skip_to: the substreams before the entry's own are drained and checked. *)
SkipStream ==
  /\ pc = "seek" /\ decoder.pos < StreamOf[entry]
  /\ OpenStream
  /\ pc' = "drainSkipped"
  /\ UNCHANGED <<archive, reader, cancelled, nextEntry, pending, verification, charged,
                 op, entry, job, observed>>

(* Faulty variant: skip_to does not skip. *)
StartCallbackEarly ==
  /\ pc = "seek" /\ decoder.pos <= StreamOf[entry]
  /\ OpenStream
  /\ pc' = "callback"
  /\ UNCHANGED <<archive, reader, cancelled, nextEntry, pending, verification, charged,
                 op, entry, job, observed>>

StartCallback ==
  /\ pc = "seek" /\ decoder.pos = StreamOf[entry]
  /\ OpenStream
  /\ pc' = "callback"
  /\ UNCHANGED <<archive, reader, cancelled, nextEntry, pending, verification, charged,
                 op, entry, job, observed>>

-----------------------------------------------------------------------------
(***************************************************************************)
(* SubstreamReader::read.                                                  *)
(***************************************************************************)
Reading == {"callback", "drainEntry", "drainSkipped", "drainTail"}
Draining == Reading \ {"callback"}

(* Faulty variant: a read does not look at cancellation. *)
CheckReadNever ==
  /\ pc \in Reading /\ ~checked
  /\ checked' = TRUE
  /\ UNCHANGED <<archive, cancelled, nextEntry, pending, decoder, verification, charged,
                 pc, op, entry, job, observed, lateChunks>>

(* A read looks at cancellation once, before anything else.  Another       *)
(* thread may cancel before the read is over.                              *)
CheckRead ==
  /\ pc \in Reading /\ ~checked /\ ~cancelled
  /\ checked' = TRUE
  /\ UNCHANGED <<archive, cancelled, nextEntry, pending, decoder, verification, charged,
                 pc, op, entry, job, observed, lateChunks>>

PaysPerChunk == decoder.folder \notin Eager

OverLimit == PaysPerChunk /\ decoder.remaining > 0 /\ charged = MaxDecoded

DataEnds == decoder.remaining > 0 /\ decoder.decoded >= damage[decoder.folder].len

(* The read that passed its check produces a chunk.                        *)
ChunkReady ==
  /\ checked
  /\ decoder.remaining > 0
  /\ ~OverLimit
  /\ decoder.decoded < damage[decoder.folder].len

(* The chunk is charged and counted, and the read is over. *)
TakeChunk ==
  /\ charged' = IF PaysPerChunk THEN charged + 1 ELSE charged
  /\ produced' = produced + 1
  /\ lateChunks' = IF cancelled THEN lateChunks + 1 ELSE lateChunks
  /\ checked' = FALSE

HashChunk ==
  decoder' = ActiveFolder(decoder.folder, decoder.pos, decoder.decoded + 1,
                          decoder.remaining - 1, decoder.hashed \cup {decoder.decoded},
                          decoder.streamHashed \cup {decoder.decoded})

(* Progress is reported, and cancellation looked at again, only for a      *)
(* chunk that is charged.                                                  *)
ReadChunk ==
  /\ pc \in Reading
  /\ ChunkReady
  /\ PaysPerChunk => ~cancelled
  /\ TakeChunk
  /\ HashChunk
  /\ got' = IF pc = "callback" THEN got \cup {decoder.decoded} ELSE got
  /\ UNCHANGED <<archive, cancelled, nextEntry, pending, verification, pc, op, entry, job,
                 last, lateCall, okEntries, failedEntries, opens>>

(* The progress callback breaks, or another thread has cancelled since the *)
(* read's check: the chunk is spent but the read reports an error.         *)
(* Draining fails; an entry callback sees the error and may ignore it.     *)
ChunkCancelled ==
  /\ pc \in Reading
  /\ ChunkReady /\ PaysPerChunk
  /\ TakeChunk
  /\ cancelled' = TRUE
  /\ IF pc = "callback"
       THEN HashChunk /\ UNCHANGED <<verification, pending, pc, job, last, got, okEntries,
                                      failedEntries>>
       ELSE DecodeFails
  /\ UNCHANGED <<archive, nextEntry, op, entry, lateCall, opens>>

(* Any other way for the read to be over. *)
ReadIsOver == checked' = FALSE /\ UNCHANGED lateChunks

(* Faulty variant: data that ends early is not an error. *)
DrainIgnoresEof ==
  /\ pc \in Draining
  /\ IF checked THEN OverLimit ELSE cancelled
  /\ DecodeFails /\ ReadIsOver
  /\ UNCHANGED <<archive, cancelled, nextEntry, charged, op, entry, lateCall, opens,
                 produced>>

(* Draining meets cancellation, the decoded-byte limit or the end of data. *)
DrainFails ==
  /\ pc \in Draining
  /\ IF checked THEN OverLimit \/ DataEnds ELSE cancelled
  /\ DecodeFails /\ ReadIsOver
  /\ UNCHANGED <<archive, cancelled, nextEntry, charged, op, entry, lateCall, opens,
                 produced>>

(* The entry's callback returns Ok between two reads or after one that     *)
(* gave it no chunk, also if it ignored a read error: the rest of the      *)
(* entry is drained.                                                       *)
CallbackReturns ==
  /\ pc = "callback"
  /\ checked => ~OverLimit /\ (decoder.remaining = 0 \/ DataEnds)
  /\ pc' = "drainEntry"
  /\ got' = {}
  /\ ReadIsOver
  /\ UNCHANGED <<archive, cancelled, nextEntry, pending, decoder, verification, charged,
                 op, entry, job, last, lateCall, okEntries, failedEntries, opens, produced>>

(* It returns an error, or it met the decoded-byte limit, which read_stream *)
(* reports whatever the callback made of it.                               *)
CallbackFails ==
  /\ pc = "callback"
  /\ ~ChunkReady
  /\ DecodeFails /\ ReadIsOver
  /\ UNCHANGED <<archive, cancelled, nextEntry, charged, op, entry, lateCall, opens,
                 produced>>

(* Faulty variant: the digest is finished but not compared. *)
StreamMatchesLength ==
  LET s == decoder.pos - 1
  IN s \in StreamCrc => decoder.streamHashed = Range(s)

(* The reader reports the end of the substream and its digest is checked. *)
StreamMatches ==
  LET s == decoder.pos - 1
  IN s \in StreamCrc => /\ decoder.streamHashed = Range(s)
                        /\ Range(s) \cap damage[decoder.folder].corrupt = {}

StreamDone == pc \in Draining /\ checked /\ decoder.remaining = 0

StreamEnds ==
  /\ StreamDone /\ StreamMatches
  /\ IF pc = "drainEntry"
       THEN EntrySucceeds
       ELSE /\ pc' = IF pc = "drainTail" THEN "complete" ELSE "seek"
            /\ UNCHANGED <<last, okEntries, pending, job, got, failedEntries>>
  /\ ReadIsOver
  /\ UNCHANGED <<archive, cancelled, nextEntry, decoder, verification, charged, op, entry,
                 lateCall, opens, produced>>

StreamMismatch ==
  /\ StreamDone /\ ~StreamMatches
  /\ DecodeFails /\ ReadIsOver
  /\ UNCHANGED <<archive, cancelled, nextEntry, charged, op, entry, lateCall, opens,
                 produced>>

-----------------------------------------------------------------------------
(* Steps the library takes on its own once a call is running. *)
Step ==
  \/ LayoutError \/ VisitDirectory \/ ReadFails \/ ReadEmpty \/ ReadStream
  \/ FinishTables \/ FinishCheck
  \/ LeaveTail \/ DrainTail \/ FolderEnds \/ FolderCheckFails
  \/ OpenFolder \/ OpenFails \/ SkipStream \/ StartCallback
  \/ CheckRead \/ ReadChunk \/ ChunkCancelled \/ DrainFails
  \/ CallbackReturns \/ CallbackFails \/ StreamEnds \/ StreamMismatch

(* stream_files goes from entry to entry and to finish by itself. *)
StreamStep == api # "session" /\ ((\E e \in Entry : Request(e)) \/ Finish)

Caller ==
  \/ \E e \in 1 .. Files + 1 : RejectIndex(e)
  \/ \E e \in Entry : Request(e)
  \/ Finish
  \/ DropSession

Next == Cancel \/ Caller \/ Step

(* The operation's thread keeps running: calls return, callbacks return,   *)
(* and stream_files takes its next entry.                                  *)
Spec == Init /\ [][Next]_vars /\ WF_vars(Step) /\ WF_vars(StreamStep)
-----------------------------------------------------------------------------
(***************************************************************************)
(* Properties.                                                             *)
(***************************************************************************)
Scope == {"CompleteFolders", "SelectedEntries", "Incomplete"}

Decoder == [folder : 0 .. Folders, pos : 0 .. Streams + 1, decoded : Nat,
            remaining : Nat, hashed : SUBSET Nat, streamHashed : SUBSET Nat]

(* Every variable of the session keeps the type the code gives it.         *)
(* What the caller last saw: the call, the entry it was about, the result. *)
Outcome == [op : {"none", "read", "finishFolder", "finish", "stream"}, entry : 0 .. Files + 1,
            res : Scope \cup {"none", "ok", "err", "invalid"}]

TypeOK ==
  /\ damage \in [Folder -> Damage] /\ broken \in 1 .. Folders + 2
  /\ api \in {"session", "all", "selected"}
  /\ cancelled \in BOOLEAN /\ lateCall \in BOOLEAN
  /\ nextEntry \in 1 .. Files + 1
  /\ pending \in SUBSET Entry
  /\ decoder \in Decoder
  /\ verification \in Scope
  /\ charged \in Nat /\ produced \in Nat
  /\ pc \in {"idle", "read", "complete", "open", "seek", "finishCheck", "closed"} \cup Reading
  /\ op \in {"none", "read", "finishFolder", "finish", "stream"}
  /\ entry \in 0 .. Files
  /\ job \in {"none", "entry", "finish"}
  /\ last \in Outcome
  /\ got \in SUBSET Nat
  /\ okEntries \in SUBSET Entry /\ failedEntries \in SUBSET Entry
  /\ opens \in [Folder -> Nat]
  /\ checked \in BOOLEAN /\ lateChunks \in Nat

(* Everything the archive can vouch for in folder f: its length, its end,  *)
(* its digest and the digests of its substreams.                           *)
Intact(f) ==
  /\ damage[f].len = Unpack[f] /\ damage[f].ends = "eof"
  /\ f \in FolderCrc => damage[f].corrupt \cap (0 .. Unpack[f] - 1) = {}
  /\ \A s \in StreamCrc : FolderOf[s] = f => damage[f].corrupt \cap Range(s) = {}

Returned == pc \in {"idle", "closed"}

(* finish and finish_folder return CompleteFolders only if every folder    *)
(* whose decoder was ever started has been drained to its declared end and *)
(* agrees with all its checksums (ReadVerification::CompleteFolders),      *)
(* however reads, early exits, failures and reopened folders interleave.   *)
CompleteScopeIsHonest ==
  Returned /\ last.res = "CompleteFolders"
    => \A f \in Folder : opens[f] > 0 => Intact(f)

(* An entry whose read returned Ok was decoded to its end and matches its  *)
(* digest, even if its callback stopped early or ignored a read error.     *)
OkEntriesAreIntact ==
  \A e \in okEntries : Kind[e] = "stream" =>
    LET s == StreamOf[e]  f == FolderOf[s]
    IN End[s] <= damage[f].len
       /\ (s \in StreamCrc => damage[f].corrupt \cap Range(s) = {})

(* The bytes a callback sees are its own entry's, from the first one and   *)
(* without a gap: skipping and draining leave the shared decoder exactly   *)
(* at the entry's substream.                                               *)
CallbackSeesOwnBytes ==
  pc = "callback" =>
    LET s == StreamOf[entry]
    IN /\ decoder.folder = FolderOf[s]
       /\ got \subseteq Range(s)
       /\ ~cancelled => got = (End[s] - Size[s]) .. (decoder.decoded - 1)

(* skip_to is never asked to go backwards: its Parse error is unreachable. *)
SeekIsForward ==
  pc = "seek" => decoder.pos <= StreamOf[entry] /\ decoder.folder = TargetFolder

(* A call that began after cancellation never succeeds.                    *)
NoSuccessAfterCancel ==
  Returned /\ lateCall => last.res \in {"none", "err", "invalid"}

(* Cancellation may come between a read's check and its decoding.  Over    *)
(* all that follows - the rest of the callback, its drain, skipped         *)
(* substreams, tails and every later call of the session - at most that    *)
(* one read still decodes a chunk.                                         *)
CancelLetsOneChunkPass == lateChunks <= 1

(* Every decoded chunk has been paid for, also those of eager folders that *)
(* were charged when opened, and the budget never exceeds its limit.       *)
DecodedOutputIsPaidFor == produced <= charged /\ charged <= MaxDecoded

(* stream_files and stream_selected_files start each folder at most once.  *)
FoldersOpenedOnce == api # "session" => \A f \in Folder : opens[f] <= 1

Rank(v) == IF v = "Incomplete" THEN 0 ELSE IF v = "SelectedEntries" THEN 1 ELSE 2

(* The scope only ever weakens over the life of a session.                 *)
ScopeOnlyWeakens == [][Rank(verification') <= Rank(verification)]_verification

(* Every call returns, and stream_files comes to its end.                  *)
CallsReturn == (pc # "idle" \/ api # "session") ~> (pc = "closed" \/ (pc = "idle" /\ api = "session"))

(* What the documentation of ReadVerification::Incomplete and finish_folder *)
(* says of every failed read of a file-like entry.                         *)
EveryFailedReadIsIncomplete ==
  Returned /\ failedEntries # {} => verification = "Incomplete"

(* What the documentation of read_entry says of requests with a valid      *)
(* index: the index is consumed even if the request fails.                 *)
ValidRequestsConsumeIndex ==
  Returned /\ last.op = "read" /\ last.res # "invalid" => nextEntry > last.entry
-----------------------------------------------------------------------------
(***************************************************************************)
(* The inductive invariant behind the safety properties above.             *)
(***************************************************************************)
InEntry == {"open", "seek", "callback", "drainEntry", "drainSkipped"}

(* Which call is running, and for which entry. *)
CallInv ==
  /\ api = "session" <=> op # "stream"
  /\ api = "session" => pending = {}
  /\ pc = "read" => entry \in nextEntry .. Files /\ op \in {"read", "stream"}
  /\ pc \in InEntry => job = "entry"
  /\ pc \in {"complete", "drainTail"} => job \in {"entry", "finish"}
  /\ job = "entry" => /\ entry \in Entry /\ Kind[entry] = "stream"
                      /\ nextEntry = entry + 1 /\ op \in {"read", "stream"}
                      /\ pc \in InEntry \cup {"complete", "drainTail"}
  /\ pc # "closed" => \A d \in pending :
       d >= IF pc = "read" \/ job = "entry" THEN entry ELSE nextEntry

(* Where Substreams stands in the active folder: the end of the stream it  *)
(* yielded last.                                                           *)
Offset == IF decoder.pos = FirstStream[decoder.folder] THEN 0 ELSE End[decoder.pos - 1]

(* The shared decoder stands at a substream boundary between reads, and    *)
(* inside the substream it yielded last during one.                        *)
DecoderInv ==
  /\ pc \in {"complete", "seek"} \cup Reading => decoder.folder # 0
  /\ pc \in {"open", "finishCheck"} => decoder.folder = 0
  /\ decoder.folder # 0 =>
       /\ FirstStream[decoder.folder] <= decoder.pos
       /\ decoder.pos <= FirstStream[decoder.folder + 1]
       /\ decoder.decoded + decoder.remaining = Offset
       /\ decoder.hashed = 0 .. decoder.decoded - 1
       /\ decoder.decoded <= damage[decoder.folder].len
       /\ pc \notin Reading => decoder.remaining = 0
       /\ pc \in Reading =>
            /\ FirstStream[decoder.folder] < decoder.pos
            /\ decoder.remaining <= Size[decoder.pos - 1]
            /\ decoder.streamHashed
                 = (End[decoder.pos - 1] - Size[decoder.pos - 1]) .. decoder.decoded - 1

(* The decoder never runs ahead of the entries asked for.                  *)
PositionInv ==
  /\ pc \in {"seek", "drainSkipped"} =>
       decoder.folder = TargetFolder /\ decoder.pos <= StreamOf[entry]
  /\ pc \in {"callback", "drainEntry"} =>
       decoder.folder = TargetFolder /\ decoder.pos = StreamOf[entry] + 1
  /\ pc \in {"idle", "read"} /\ decoder.folder # 0 =>
       decoder.pos <= StreamOf[nextEntry - 1] + 1

SubstreamIntact(s) ==
  s \in StreamCrc => damage[FolderOf[s]].corrupt \cap Range(s) = {}

(* The substreams of the active folder that were read to their end matched. *)
ChecksInv ==
  \A s \in Stream :
    /\ decoder.folder = FolderOf[s]
    /\ s < IF pc \in Reading THEN decoder.pos - 1 ELSE decoder.pos
    => SubstreamIntact(s)

(* What the scope claims of the folders no longer active.                  *)
ScopeInv ==
  verification = "CompleteFolders" /\ pc # "closed" =>
    \A f \in Folder : opens[f] > 0 /\ f # decoder.folder => Intact(f)

(* A stream_files call reports once, at its end.                           *)
ReportInv ==
  /\ op = "stream" /\ pc # "closed" => last.res = "none"
  /\ lateCall => cancelled

(* The callback got what its substream's digest hashed.                    *)
GotInv ==
  IF pc = "callback"
    THEN got \subseteq decoder.streamHashed /\ (~cancelled => got = decoder.streamHashed)
    ELSE got = {}

(* The one read that may outrun cancellation is the one under way when it  *)
(* comes; a call begun later has none.                                     *)
LateInv ==
  /\ checked => pc \in Reading /\ ~lateCall
  /\ lateChunks > 0 => cancelled /\ ~checked /\ lateChunks = 1

(* Chunks of an eager folder that are charged and not produced yet.        *)
Prepaid == IF decoder.folder \in Eager THEN Unpack[decoder.folder] - decoder.decoded ELSE 0

BudgetInv == produced + Prepaid <= charged /\ charged <= MaxDecoded

(* stream_files takes the folders in their order.                          *)
OpensInv ==
  api # "session" =>
    /\ \A f \in Folder : opens[f] <= 1
    /\ job = "entry" /\ pc \in {"complete", "drainTail"} => decoder.folder < TargetFolder
    /\ \A f \in Folder : opens[f] > 0 =>
         \/ f <= decoder.folder \/ pc \in {"finishCheck", "closed"}
         \/ pc = "open" /\ f < TargetFolder

(* TypeOK, the properties above and what makes them inductive.             *)
IInv ==
  /\ TypeOK /\ CallInv /\ DecoderInv /\ PositionInv /\ ChecksInv /\ ScopeInv
  /\ ReportInv /\ GotInv /\ LateInv /\ BudgetInv /\ OpensInv
  /\ CompleteScopeIsHonest /\ OkEntriesAreIntact /\ NoSuccessAfterCancel
=============================================================================
