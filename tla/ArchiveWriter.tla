---------------------------- MODULE ArchiveWriter ----------------------------
(***************************************************************************)
(* Writing an archive: ArchiveWriter's streaming calls and                 *)
(* ArchiveBuilder::build, which plans the folders first and then drives    *)
(* the same writer.                                                        *)
(*                                                                         *)
(* Data is counted in chunks, one chunk per monitored read of the caller's *)
(* reader.  A folder's payload is the sequence of the sources its chunks   *)
(* came from (a source is the number of the append call), which is what    *)
(* decoding the folder would return.  Encoders, encryption and packed      *)
(* sizes are left out.                                                     *)
(***************************************************************************)
EXTENDS StreamTables

CONSTANTS
  MaxEntries,   \* bound on append calls
  MaxSize,      \* bound on the chunks of one entry
  Apis,         \* subset of {"stream", "build"}
  Solids        \* solid modes tried, see Solid

(* SolidMode; a limit of 0 is None. *)
Solid == [mode : {"Solid", "NonSolid", "Limit"}, maxFiles : Nat, maxBytes : Nat]

ASSUME WriterAssumption ==
  /\ MaxEntries \in Nat /\ MaxSize \in Nat
  /\ Apis \subseteq {"stream", "build"}
  /\ Solids \subseteq Solid
  (* validate_compression_options rejects a limit that limits nothing *)
  /\ \A s \in Solids : s.mode = "Limit" => s.maxFiles > 0 \/ s.maxBytes > 0

VARIABLES
  api, solid,
  cancelled,    \* OperationControl
  state,        \* WriterState: "Ready", "Active" or "Failed"
  completed,    \* folders sealed so far
  folder,       \* the active StreamingFolder
  progress,     \* FolderProgress of the active folder
  entries,      \* WriteEntry per entry appended
  planner,      \* build: folder_id and progress of the planning loop
  todo,         \* build: planned entries not appended yet
  pc, then,     \* the running call; what a seal returns to
  cur,          \* the entry being appended
  sig, header,  \* the sink: signature header and the header it points to
  calls, broken \* observation: append calls made, and whether one failed

vars == <<api, solid, cancelled, state, completed, folder, progress, entries, planner, todo,
          pc, then, cur, sig, header, calls, broken>>

fixed == <<api, solid, planner>>
sink  == <<sig, header>>

NoFolder   == [files |-> <<>>, unpack |-> 0, payload |-> <<>>]
NoEntry    == [source |-> 0, left |-> 0, total |-> 0, size |-> 0]

(* What the header lacks until it is written. *)
NoHeader == [streams |-> <<>>, folders |-> <<>>, written |-> FALSE]

-----------------------------------------------------------------------------
(***************************************************************************)
(* FolderProgress.                                                         *)
(***************************************************************************)
(* Faulty variant: the limit is noticed one file late. *)
ReachedLimitLate(p) ==
  \/ solid.mode = "NonSolid" /\ p.files > 0
  \/ /\ solid.mode = "Limit"
     /\ \/ solid.maxFiles > 0 /\ p.files > solid.maxFiles
        \/ solid.maxBytes > 0 /\ p.bytes > solid.maxBytes

ReachedLimit(p) ==
  \/ solid.mode = "NonSolid" /\ p.files > 0
  \/ /\ solid.mode = "Limit"
     /\ \/ solid.maxFiles > 0 /\ p.files >= solid.maxFiles
        \/ solid.maxBytes > 0 /\ p.bytes >= solid.maxBytes

(***************************************************************************)
(* entries_with_solid_folders: the folder each buffered entry is meant     *)
(* for.  Under NonSolid an entry without data closes the folder before it. *)
(***************************************************************************)

(* Faulty variant: an entry without data always closes a folder. *)
PlanStepEager(plan, item) ==
  LET split == IF item.stream THEN WouldExceed(solid, plan.progress, item.size)
               ELSE solid.mode = "NonSolid"
      begun == IF split THEN NoProgress ELSE plan.progress
  IN [folder |-> IF split THEN plan.folder + 1 ELSE plan.folder,
      progress |-> IF item.stream THEN Record(begun, item.size) ELSE plan.progress]

PlanStep(plan, item) ==
  LET split == IF item.stream THEN WouldExceed(solid, plan.progress, item.size)
               ELSE solid.mode = "NonSolid" /\ plan.progress.files > 0
      begun == IF split THEN NoProgress ELSE plan.progress
  IN [folder |-> IF split THEN plan.folder + 1 ELSE plan.folder,
      progress |-> IF item.stream THEN Record(begun, item.size) ELSE begun]

(* WriteFolderId::FIRST and FolderProgress::default. *)
NoPlan == [folder |-> 0, progress |-> NoProgress]

(* An entry is empty, or buffered; add_symlink may buffer no bytes at all. *)
Item == [stream : {FALSE}, size : {0}] \cup [stream : {TRUE}, size : 0 .. MaxSize]

Init ==
  /\ api \in Apis /\ solid \in Solids
  /\ cancelled = FALSE
  /\ state = "Ready" /\ completed = <<>> /\ folder = NoFolder /\ progress = NoProgress
  /\ entries = <<>>
  /\ planner = NoPlan /\ todo = <<>>
  /\ pc = (IF api = "build" THEN "plan" ELSE "idle") /\ then = "none"
  /\ cur = NoEntry
  /\ sig = "absent" /\ header = NoHeader
  /\ calls = 0 /\ broken = FALSE

(* One more of the entries build() was called with; `before' is where the  *)
(* loop stood when it came to the entry.                                   *)
PlanItem(item) ==
  /\ pc = "plan" /\ Len(todo) < MaxEntries
  /\ planner' = PlanStep(planner, item)
  /\ todo' = Append(todo, [stream |-> item.stream, size |-> item.size,
                           folder |-> planner'.folder, before |-> planner])
  /\ UNCHANGED <<api, solid, cancelled, state, completed, folder, progress, entries, pc, then,
                 cur, sink, calls, broken>>

(* The writer is made when all entries have their folders. *)
Build ==
  /\ pc = "plan"
  /\ pc' = "next"
  /\ UNCHANGED <<fixed, cancelled, state, completed, folder, progress, entries, todo, then, cur,
                 sink, calls, broken>>

(* OperationControl::cancel, or a progress callback that breaks. *)
Cancel ==
  /\ ~cancelled /\ pc # "closed"
  /\ cancelled' = TRUE
  /\ UNCHANGED <<fixed, state, completed, folder, progress, entries, todo, pc, then, cur,
                 sink, calls, broken>>

-----------------------------------------------------------------------------
(***************************************************************************)
(* Returning from a call.  A failed data call leaves WriterState::Failed,  *)
(* which holds neither output nor folders; build drops the writer.         *)
(***************************************************************************)
Resume == IF api = "build" THEN "next" ELSE "idle"

(* Faulty variant: the writer stays usable after a failed call. *)
FailStaysUsable ==
  /\ pc' = IF api = "build" \/ then = "finish" THEN "closed" ELSE "idle"
  /\ then' = "none" /\ cur' = NoEntry
  /\ broken' = TRUE
  /\ UNCHANGED <<state, completed, folder, progress>>

Fail ==
  /\ pc' = IF api = "build" \/ then = "finish" THEN "closed" ELSE "idle"
  /\ then' = "none" /\ cur' = NoEntry
  /\ broken' = TRUE
  /\ state' = "Failed" /\ completed' = <<>> /\ folder' = NoFolder /\ progress' = NoProgress

-----------------------------------------------------------------------------
(***************************************************************************)
(* Calls.                                                                  *)
(***************************************************************************)

(* next_folder_id: the active folder, or the one that would come next. *)
NextFolderId == Len(completed)

(* `at' and `first' say where in the folder the data of the entry is. *)
PushEntry(source, stream, total) ==
  entries' = Append(entries, [source |-> source, stream |-> stream, total |-> total,
                              folder |-> NextFolderId, at |-> Len(folder.files) + 1,
                              first |-> folder.unpack])

(* append_empty_entry: directories, anti-items and files without data. *)
AppendEmpty ==
  /\ pc = "idle" /\ calls < MaxEntries
  /\ ~cancelled /\ state # "Failed"
  /\ calls' = calls + 1
  /\ PushEntry(calls', FALSE, 0)
  /\ UNCHANGED <<fixed, cancelled, state, completed, folder, progress, todo, pc, then, cur,
                 sink, broken>>

(* append_file and the calls built on it.  A Failed writer refuses. *)
AppendFile(total) ==
  /\ pc = "idle" /\ calls < MaxEntries /\ state # "Failed"
  /\ calls' = calls + 1
  /\ cur' = [source |-> calls', left |-> total, total |-> total, size |-> 0]
  /\ pc' = "first"
  /\ UNCHANGED <<fixed, cancelled, state, completed, folder, progress, entries, todo, then,
                 sink, broken>>

NewFolder ==
  /\ pc = "idle" /\ state # "Failed"
  /\ pc' = "seal" /\ then' = "newFolder"
  /\ UNCHANGED <<fixed, cancelled, state, completed, folder, progress, entries, todo, cur,
                 sink, calls, broken>>

(* finish checks cancellation and for an earlier failure. *)
Finish ==
  /\ \/ pc = "idle"
     \/ pc = "next" /\ todo = <<>>
  /\ IF cancelled \/ state = "Failed"
       THEN pc' = "closed" /\ UNCHANGED then
       ELSE pc' = "seal" /\ then' = "finish"
  /\ UNCHANGED <<fixed, cancelled, state, completed, folder, progress, entries, todo, cur,
                 sink, calls, broken>>

(* The loop of build: an entry of a later folder seals the active one; a   *)
(* plan the writer cannot follow is a Parse error.                         *)
BuildEntry ==
  /\ pc = "next" /\ todo # <<>>
  /\ LET item == Head(todo)
     IN \/ /\ item.folder > NextFolderId /\ then = "none"
           /\ pc' = "seal" /\ then' = "build"
           /\ UNCHANGED <<todo, cur, calls, entries>>
        \/ /\ item.folder < NextFolderId \/ (item.folder > NextFolderId /\ then = "build")
           /\ pc' = "misplanned"
           /\ UNCHANGED <<todo, then, cur, calls, entries>>
        \/ /\ item.folder = NextFolderId /\ item.stream
           /\ cur' = [source |-> calls + 1, left |-> item.size, total |-> item.size, size |-> 0]
           /\ calls' = calls + 1 /\ todo' = Tail(todo) /\ pc' = "first" /\ then' = "none"
           /\ UNCHANGED entries
        \/ /\ item.folder = NextFolderId /\ ~item.stream /\ ~cancelled
           /\ PushEntry(calls + 1, FALSE, 0)
           /\ calls' = calls + 1 /\ todo' = Tail(todo) /\ then' = "none"
           /\ UNCHANGED <<cur, pc>>
        \/ /\ item.folder = NextFolderId /\ ~item.stream /\ cancelled
           /\ pc' = "closed"
           /\ UNCHANGED <<todo, then, cur, calls, entries>>
  /\ UNCHANGED <<fixed, cancelled, state, completed, folder, progress, sink, broken>>

-----------------------------------------------------------------------------
(***************************************************************************)
(* append_streaming.                                                       *)
(***************************************************************************)

(* A stream of the folder, as record_stream enters it. *)
RecordStream(f, size) ==
  [f EXCEPT !.files = Append(@, size), !.unpack = @ + size]

(* The first read.  A reader without data makes an Empty entry, except     *)
(* that build keeps the stream it planned.                                 *)
ReadFirst ==
  /\ pc = "first" /\ ~cancelled
  /\ IF cur.left > 0 \/ api = "build"
       THEN pc' = "ensure" /\ UNCHANGED <<entries, cur>>
       ELSE pc' = Resume /\ PushEntry(cur.source, FALSE, 0) /\ cur' = NoEntry
  /\ UNCHANGED <<fixed, cancelled, state, completed, folder, progress, todo, then, sink,
                 calls, broken>>

(* ensure_streaming_folder; the first folder blanks the signature header. *)
EnsureFolder ==
  /\ pc = "ensure"
  /\ sig' = IF state = "Ready" /\ completed = <<>> THEN "zero" ELSE sig
  /\ IF state = "Ready"
       THEN state' = "Active" /\ folder' = NoFolder /\ progress' = NoProgress
       ELSE UNCHANGED <<state, folder, progress>>
  /\ pc' = IF cur.left > 0 THEN "write" ELSE "record"
  /\ UNCHANGED <<fixed, cancelled, completed, entries, todo, then, cur, header, calls, broken>>

WriteChunk ==
  /\ pc = "write"
  /\ folder' = [folder EXCEPT !.payload = Append(@, cur.source)]
  /\ cur' = [cur EXCEPT !.size = @ + 1, !.left = @ - 1]
  /\ pc' = "more"
  /\ UNCHANGED <<fixed, cancelled, state, completed, progress, entries, todo, then, sink,
                 calls, broken>>

ReadMore ==
  /\ pc = "more" /\ ~cancelled
  /\ pc' = IF cur.left > 0 THEN "write" ELSE "record"
  /\ UNCHANGED <<fixed, cancelled, state, completed, folder, progress, entries, todo, then,
                 cur, sink, calls, broken>>

(* The entry and its stream are recorded.  finish_entry_folder_accounting  *)
(* seals a folder that reached its limit; a preplanned one is left open.   *)
RecordEntry ==
  /\ pc = "record"
  /\ PushEntry(cur.source, TRUE, cur.total)
  /\ folder' = RecordStream(folder, cur.size)
  /\ progress' = IF api = "build" THEN progress ELSE Record(progress, cur.size)
  /\ IF api # "build" /\ ReachedLimit(progress')
       THEN pc' = "seal" /\ then' = "append"
       ELSE pc' = Resume /\ UNCHANGED then
  /\ cur' = NoEntry
  /\ UNCHANGED <<fixed, cancelled, state, completed, todo, sink, calls, broken>>

(* The reader, the sink, the encoder, key derivation or a cancellation     *)
(* check fails.  Part of a chunk may have been encoded by then.            *)
AppendFails ==
  /\ pc \in {"first", "ensure", "write", "more"}
  /\ pc = "ensure" => state = "Ready"
  /\ sig' \in {sig} \cup (IF pc = "ensure" /\ completed = <<>>
                            THEN {"zero"} ELSE {})
  /\ Fail
  /\ UNCHANGED <<fixed, cancelled, entries, todo, header, calls>>

-----------------------------------------------------------------------------
(***************************************************************************)
(* seal_streaming_folder checks for cancellation before and after the      *)
(* encoder is finished.                                                    *)
(***************************************************************************)
Seal ==
  /\ pc = "seal" /\ ~cancelled
  /\ state' = "Ready"
  /\ completed' = IF state = "Active" THEN Append(completed, folder) ELSE completed
  /\ folder' = NoFolder /\ progress' = NoProgress
  /\ pc' = IF then = "finish" THEN "header" ELSE Resume
  /\ then' = IF then \in {"finish", "build"} THEN then ELSE "none"
  /\ UNCHANGED <<fixed, cancelled, entries, todo, cur, sink, calls, broken>>

SealFails ==
  /\ pc = "seal"
  /\ cancelled \/ state = "Active"
  /\ Fail
  /\ UNCHANGED <<fixed, cancelled, entries, todo, sink, calls>>

(***************************************************************************)
(* build_header.  SubStreamsInfo leaves out the size of a folder's last    *)
(* stream; FilesInfo marks the entries that have no stream.                *)
(***************************************************************************)
BuildHeader ==
  [streams |-> [i \in DOMAIN entries |-> entries[i].stream],
   folders |-> [f \in DOMAIN completed |-> FolderHeader(completed[f])],
   written |-> TRUE]

(* Faulty variant: the header is still to be written when the archive is signed. *)
WriteHeaderLater ==
  /\ pc = "header" /\ ~cancelled
  /\ pc' = "signature"
  /\ UNCHANGED <<fixed, cancelled, state, completed, folder, progress, entries, todo, then,
                 cur, sink, calls, broken>>

(* finish_streamed_archive: the header goes behind the packed streams ... *)
WriteHeader ==
  /\ pc = "header" /\ ~cancelled
  /\ header' = BuildHeader
  /\ pc' = "signature"
  /\ UNCHANGED <<fixed, cancelled, state, completed, folder, progress, entries, todo, then,
                 cur, sig, calls, broken>>

(* ... and the signature header is written last. *)
WriteSignature ==
  /\ pc = "signature"
  /\ sig' = "valid"
  /\ pc' = "flush"
  /\ UNCHANGED <<fixed, cancelled, state, completed, folder, progress, entries, todo, then,
                 cur, header, calls, broken>>

(* A failed write may leave a part of what was written. *)
WriteFails ==
  /\ pc \in {"header", "signature", "flush"}
  /\ pc' = "closed"
  /\ sig' \in {sig} \cup (IF pc = "signature" THEN {"torn"} ELSE {})
  /\ UNCHANGED <<fixed, cancelled, state, completed, folder, progress, entries, todo, then,
                 cur, header, calls, broken>>

(* flush and a last look at cancellation. *)
Flush ==
  /\ pc = "flush"
  /\ pc' = IF cancelled THEN "closed" ELSE "finished"
  /\ UNCHANGED <<fixed, cancelled, state, completed, folder, progress, entries, todo, then,
                 cur, sink, calls, broken>>

Step ==
  \/ Build \/ BuildEntry \/ ReadFirst \/ EnsureFolder \/ WriteChunk \/ ReadMore \/ RecordEntry
  \/ AppendFails \/ Seal \/ SealFails \/ WriteHeader \/ WriteSignature \/ WriteFails \/ Flush

Next ==
  \/ Cancel \/ AppendEmpty \/ NewFolder \/ Finish \/ Step
  \/ \E total \in 0 .. MaxSize : AppendFile(total)
  \/ \E item \in Item : PlanItem(item)

Spec == Init /\ [][Next]_vars
-----------------------------------------------------------------------------
(***************************************************************************)
(* Properties.                                                             *)
(***************************************************************************)
(* The signature header is valid only when the header it points to is      *)
(* complete and every folder is sealed, whichever write failed or where    *)
(* the process stopped.                                                    *)
SignedMeansComplete ==
  sig = "valid" => header = BuildHeader /\ state = "Ready"

(* A writer whose append, new_folder or seal failed never signs its        *)
(* output: half of an entry cannot end up in an archive.                   *)
FailedWriterNeverSigns == broken => sig # "valid"

(* Folders keep to the solid mode.  A streamed file may overshoot          *)
(* max_bytes, but only as the last of its folder; build splits before.     *)
WithinLimits(f) ==
  LET n == Len(f.files)
  IN /\ solid.mode = "NonSolid" => n <= 1
     /\ solid.mode = "Limit" /\ solid.maxFiles > 0 => n <= solid.maxFiles
     /\ solid.mode = "Limit" /\ solid.maxBytes > 0 /\ n > 1 =>
          IF api = "build" THEN f.unpack <= solid.maxBytes
                           ELSE f.unpack - f.files[n] < solid.maxBytes

SolidLimitsHold == WithinLimits(folder) /\ \A f \in DOMAIN completed : WithinLimits(completed[f])

(* The folders build planned are the folders the writer makes: the Parse   *)
(* errors of its loop are unreachable.                                     *)
PlanIsFollowed == pc # "misplanned"
-----------------------------------------------------------------------------
(***************************************************************************)
(* The inductive invariant.                                                *)
(***************************************************************************)
Progress == [files : Nat, bytes : Nat]
FolderRecord == [files : Seq(Nat), unpack : Nat, payload : Seq(Nat)]
EntryRecord == [source : Nat, stream : BOOLEAN, total : Nat, folder : Nat, at : Nat, first : Nat]
Plans == [folder : Nat, progress : Progress]
Planned == [stream : BOOLEAN, size : Nat, folder : Nat, before : Plans]

TypeOK ==
  /\ api \in {"stream", "build"} /\ solid \in Solid
  /\ state \in {"Ready", "Active", "Failed"}
  /\ completed \in Seq(FolderRecord) /\ folder \in FolderRecord
  /\ progress \in Progress /\ entries \in Seq(EntryRecord)
  /\ planner \in Plans /\ todo \in Seq(Planned)
  /\ cur \in [source : Nat, left : Nat, total : Nat, size : Nat] /\ calls \in Nat

(* Only build plans.  A failure is always recorded in the state, and only  *)
(* an intact writer reaches the last writes.                               *)
WriterInv ==
  /\ api = "stream" => pc \notin {"plan", "next", "misplanned"}
  /\ broken <=> state = "Failed"
  /\ state = "Failed" => pc \in {"idle", "closed"}
  /\ pc \in {"header", "signature", "flush", "finished"} => state = "Ready"
  /\ pc = "signature" => header = BuildHeader
  /\ sig = "valid" => /\ pc \in {"flush", "finished", "closed"}
                      /\ state = "Ready" /\ header = BuildHeader

(* An append call, from its first read on. *)
Appending == {"first", "ensure", "write", "more", "record"}

AppendInv ==
  /\ state # "Active" => folder = NoFolder
  /\ pc \in Appending => cur.size + cur.left = cur.total
  /\ pc \in {"write", "more", "record"} => state = "Active"
  /\ pc \notin Appending => cur = NoEntry
  /\ pc \in {"first", "ensure"} => cur.size = 0
  /\ pc = "write" => cur.left > 0
  /\ pc = "record" => cur.left = 0

(* What the active folder holds of recorded entries, and what it will hold *)
(* when the running append is over.                                        *)
Written == [files |-> Len(folder.files), bytes |-> folder.unpack]
Expected == IF pc \in Appending THEN Record(Written, cur.total) ELSE Written

(* A streaming writer seals a folder as soon as it is full; build never    *)
(* puts an entry into a folder that is too full for it.                    *)
SolidInv ==
  /\ api = "stream" /\ state = "Active" =>
       progress = Written /\ (pc # "seal" => ~ReachedLimit(progress))
  /\ api = "build" /\ pc \in Appending => ~WouldExceed(solid, Written, cur.total)

(* The plan goes on from entry to entry. *)
After(item) == PlanStep(item.before, item)

Chained(items) ==
  /\ \A i \in DOMAIN items : items[i].folder = After(items[i]).folder
  /\ \A i \in 1 .. Len(items) - 1 : items[i + 1].before = After(items[i])

(* The writer stands where the plan did when it came to the next entry, or *)
(* has just sealed the folder that the plan left there.                    *)
InStep(item) ==
  IF then = "build" /\ pc = "next"
    THEN /\ item.folder = NextFolderId /\ item.before.folder + 1 = item.folder
         /\ state = "Ready"
    ELSE /\ item.before = [folder |-> NextFolderId, progress |-> Expected]
         /\ pc = "seal" => /\ then = "build" /\ state = "Active"
                          /\ item.folder = NextFolderId + 1

PlanInv ==
  api = "build" =>
    /\ pc \notin {"idle", "misplanned"}
    /\ Chained(todo)
    /\ pc = "plan" =>
         /\ completed = <<>> /\ state = "Ready" /\ then = "none"
         /\ IF todo = <<>> THEN planner = NoPlan
            ELSE todo[1].before = NoPlan /\ planner = After(todo[Len(todo)])
    /\ then = "build" => pc \in {"seal", "next", "closed"} /\ todo # <<>>
    /\ pc \notin {"plan", "closed"} /\ todo # <<>> => InStep(todo[1])

IInv == TypeOK /\ WriterInv /\ AppendInv /\ SolidInv /\ SolidLimitsHold /\ PlanInv
=============================================================================
