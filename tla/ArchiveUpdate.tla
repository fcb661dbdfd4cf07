---------------------------- MODULE ArchiveUpdate ----------------------------
(***************************************************************************)
(* Rewriting an archive: the add, update and delete commands collect files *)
(* from disk, decide for every old entry whether it is dropped, copied     *)
(* with its compressed folder or decoded, and write_archive_update         *)
(* validates the request, assigns folders and writes the new archive.      *)
(* Library callers hand write_archive_update any request they like.  In    *)
(* the end somebody reads the new archive.                                 *)
(*                                                                         *)
(* Files on disk change while all this goes on.  A chunk of data is named  *)
(* by where it comes from: <<0, e>> is a chunk of the source's entry e,    *)
(* <<p, v>> one of path p after v changes.                                 *)
(***************************************************************************)
EXTENDS StreamTables, FiniteSets

CONSTANTS
  Sources,      \* source archives tried, see Source
  Paths,        \* paths on disk are 1 .. Paths; an entry's name is a number too
  Kids,         \* path -> the paths in it, if it is a directory
  Disks,        \* path -> file, the disks tried
  Jobs,         \* commands and requests tried, see Job
  Solids,       \* solid modes, as in ArchiveWriter
  MaxChanges    \* bound on changes to the disk

Chunk == Nat \X Nat

(* The listing of a source archive: for each entry its name, the folder    *)
(* with its data (0 if it has none), where in the decoded folder the data  *)
(* begins and its size; the decoded folders; and the folders that cannot   *)
(* be decoded (codec, password, damage).                                   *)
Source ==
  [entries : Seq([name : Nat, block : Nat, first : Nat, size : Nat]),
   folders : Seq(Seq(Chunk)), opaque : SUBSET Nat]

(* A listing comes from the stream tables: data entries go through the     *)
(* folders in order, and those of one folder share it out.                 *)
Listed(s) ==
  \A e \in DOMAIN s.entries : s.entries[e].block # 0 =>
    LET entry == s.entries[e]
        fellows == {d \in DOMAIN s.entries : s.entries[d].block = entry.block}
    IN /\ entry.block <= Len(s.folders)
       /\ entry.first + entry.size <= Len(s.folders[entry.block])
       /\ \A d \in 1 .. e - 1 : s.entries[d].block <= entry.block
       /\ (\A d \in fellows : e <= d) => entry.first = 0
       /\ (\A d \in fellows : d <= e) => entry.first + entry.size = Len(s.folders[entry.block])
       /\ \A d \in fellows : d > e /\ (\A c \in fellows : ~(e < c /\ c < d))
            => s.entries[d].first = entry.first + entry.size

(* PreservedArchiveEntry.  One with a raw stream names a folder (0 is a    *)
(* handle of another archive), a source entry, and the size and checksum   *)
(* it claims.  `of' is the source entry whose name and metadata it has,    *)
(* `path' the path it was collected from; either may be 0.                 *)
Entry ==
  [kind : {"none", "raw", "data", "path"}, folder : Nat, entry : Nat, size : Nat,
   data : Seq(Chunk), of : Nat, path : Nat]

Stream(kind, f, e, size, data) ==
  [kind |-> kind, folder |-> f, entry |-> e, size |-> size, data |-> data, of |-> 0, path |-> 0]
NoStream == Stream("none", 0, 0, 0, <<>>)
Raw(f, e, size) == Stream("raw", f, e, size, <<>>)
Data(data) == Stream("data", 0, 0, Len(data), data)
Path(size) == Stream("path", 0, 0, size, <<>>)

Job ==
  [cmd : {"create", "update", "delete", "library"}, operands : Seq(0 .. Paths),
   names : SUBSET Nat, request : Seq(Entry), raws : SUBSET Nat]

File == [kind : {"missing", "file", "dir", "link", "other"}, len : Nat, version : Nat]

ASSUME UpdateAssumption ==
  /\ Paths \in Nat /\ MaxChanges \in Nat
  /\ Kids \in [1 .. Paths -> SUBSET (1 .. Paths)]
  /\ Disks \subseteq [1 .. Paths -> File]
  /\ Jobs \subseteq Job
  /\ \A job \in Jobs : \A i \in DOMAIN job.request :
       LET r == job.request[i]
       IN r.of = 0 /\ (r.kind # "data" => r.data = <<>>) /\ (r.kind = "path" => r.path \in 1 .. Paths)
  /\ Sources \subseteq Source /\ \A s \in Sources : Listed(s)

(* Glob is an operand that matches every path which is not in a directory. *)
Glob == 0

VARIABLES
  src, job, solid,
  disk, changes,
  operands, warnings, paths, pending,   \* scan_disk_operands, collect_disk_entries
  cursor, request, raws,                \* the listing's entry; PreservedArchiveEntry list,
                                        \* RawFolderBlocks
  assigner, ids, order,                 \* stage_preserved_entries; 0 is no folder
  completed, folder, files, seen,       \* folders written; entries left, chunks of each
  out, header,                          \* "untouched", "blank" or "signed"
  pc, res,
  reader                                \* of the new archive

inputs == <<src, job, solid>>
world  == <<disk, changes>>
scan   == <<operands, warnings, paths, pending>>
plan   == <<cursor, request, raws>>
stage  == <<assigner, ids, order>>
output == <<completed, folder, files, seen, out, header>>
vars   == <<inputs, world, scan, plan, stage, output, pc, res, reader>>

-----------------------------------------------------------------------------
(* The entries with data in folder f, and the bytes of an entry. *)
FolderEntries(f) == {e \in DOMAIN src.entries : src.entries[e].block = f}
Bytes(e) ==
  [i \in 1 .. src.entries[e].size |-> src.folders[src.entries[e].block][src.entries[e].first + i]]

NoFile == [kind |-> "missing", len |-> 0, version |-> 0]
NoFolder == [files |-> <<>>, unpack |-> 0, payload |-> <<>>]
NoHeader == [streams |-> <<>>, folders |-> <<>>]
NoAssigner == [current |-> 0, next |-> 1, progress |-> NoProgress]

(* The commands that read files; the others run without a disk. *)
ReadsDisk == job.cmd \in {"create", "update"}

Init ==
  /\ src \in Sources /\ job \in Jobs /\ solid \in Solids
  /\ disk \in (IF ReadsDisk THEN Disks ELSE {[p \in 1 .. Paths |-> NoFile]}) /\ changes = 0
  /\ operands = job.operands /\ warnings = 0 /\ paths = <<>> /\ pending = <<>>
  /\ cursor = 1
  /\ request = (IF job.cmd = "library" THEN job.request ELSE <<>>)
  /\ raws = (IF job.cmd = "library" THEN job.raws ELSE {})
  /\ assigner = NoAssigner /\ ids = <<>> /\ order = <<>>
  /\ completed = <<>> /\ folder = NoFolder /\ files = {} /\ seen = <<>>
  /\ out = "untouched" /\ header = NoHeader
  /\ pc = IF ReadsDisk THEN "scan"
          ELSE IF job.cmd = "delete" THEN "plan" ELSE "validate"
  /\ res = "none" /\ reader = ReaderStart

(* Another program writes, truncates, replaces or removes a path. *)
Change(p) ==
  /\ ReadsDisk /\ changes < MaxChanges /\ pc # "done"
  /\ \E file \in {d[p] : d \in Disks} :
       /\ file # disk[p]
       /\ disk' = [disk EXCEPT ![p] = [file EXCEPT !.version = changes + 1]]
  /\ changes' = changes + 1
  /\ UNCHANGED <<inputs, scan, plan, stage, output, pc, res, reader>>

Fail ==
  /\ pc # "done"
  /\ pc' = "done" /\ res' = "err"
  /\ UNCHANGED <<inputs, world, scan, plan, stage, output, reader>>

Reject == pc' = "done" /\ res' = "rejected"

-----------------------------------------------------------------------------
(***************************************************************************)
(* Collecting from disk.                                                   *)
(***************************************************************************)
Exists(p) == disk[p].kind # "missing"
TopLevel == {p \in 1 .. Paths : \A d \in 1 .. Paths : p \notin Kids[d]}

(* The numbers of a set in increasing order. *)
Sorted(S) ==
  {s \in [1 .. Cardinality(S) -> S] : /\ S = {s[i] : i \in 1 .. Cardinality(S)}
                                     /\ \A i, j \in 1 .. Cardinality(S) : i < j => s[i] < s[j]}

(* scan_disk_operands: a missing operand is a warning, an expansion is     *)
(* sorted.                                                                 *)
ScanOperand ==
  /\ pc = "scan" /\ operands # <<>>
  /\ LET p == Head(operands)
     IN \/ /\ p = Glob
           /\ \E found \in Sorted({q \in TopLevel : Exists(q)}) : paths' = paths \o found
           /\ UNCHANGED warnings
        \/ /\ p # Glob /\ Exists(p)
           /\ paths' = Append(paths, p)
           /\ UNCHANGED warnings
        \/ /\ p # Glob /\ ~Exists(p)
           /\ warnings' = warnings + 1
           /\ UNCHANGED paths
  /\ operands' = Tail(operands)
  /\ UNCHANGED <<inputs, world, pending, plan, stage, output, pc, res, reader>>

ScanEnds ==
  /\ pc = "scan" /\ operands = <<>>
  /\ pc' = "collect"
  /\ UNCHANGED <<inputs, world, scan, plan, stage, output, res, reader>>

(* The entry that a path makes, as it is now; a device makes none. *)
Collected(p) ==
  LET file == disk[p]
      entry(stream) == << [stream EXCEPT !.path = p] >>
  IN IF file.kind = "link" THEN entry(Data(<<<<p, file.version>>>>))
     ELSE IF file.kind = "dir" \/ (file.kind = "file" /\ file.len = 0) THEN entry(NoStream)
     ELSE IF file.kind = "file" THEN entry(Path(file.len))
     ELSE <<>>

(* collect_path: what a path has become since it was scanned is an error   *)
(* only if it is gone; a directory is followed by what is in it.           *)
CollectPath ==
  /\ pc = "collect" /\ paths # <<>>
  /\ LET p == Head(paths)
         children == IF disk[p].kind = "dir" THEN {q \in Kids[p] : Exists(q)} ELSE {}
     IN /\ Exists(p)
        /\ pending' = pending \o Collected(p)
        /\ \E found \in Sorted(children) : paths' = found \o Tail(paths)
  /\ UNCHANGED <<inputs, world, operands, warnings, plan, stage, output, pc, res, reader>>

CollectEnds ==
  /\ pc = "collect" /\ paths = <<>>
  /\ IF job.cmd = "create"
       THEN pc' = "stage" /\ request' = pending
       ELSE pc' = "plan" /\ UNCHANGED request
  /\ UNCHANGED <<inputs, world, scan, cursor, raws, stage, output, res, reader>>

-----------------------------------------------------------------------------
(***************************************************************************)
(* preserved_rewrite_entries.                                              *)
(***************************************************************************)

(* An update replaces entries by name, delete drops the names it matches. *)
Dropped(e) ==
  src.entries[e].name \in
    IF job.cmd = "update" THEN {pending[i].path : i \in DOMAIN pending} ELSE job.names

(* Faulty variant: a folder that loses an entry is dropped altogether. *)
RetainedActionWhole(e) ==
  IF Dropped(e) THEN "Drop"
  ELSE IF src.entries[e].block = 0 THEN "NoStream"
  ELSE IF \A d \in FolderEntries(src.entries[e].block) : ~Dropped(d) THEN "CopyRaw"
  ELSE "Drop"

(* RetainedEntryAction: a folder is copied if all its entries are kept. *)
RetainedAction(e) ==
  IF Dropped(e) THEN "Drop"
  ELSE IF src.entries[e].block = 0 THEN "NoStream"
  ELSE IF \A d \in FolderEntries(src.entries[e].block) : ~Dropped(d) THEN "CopyRaw"
  ELSE "Decode"

(* preserved_raw_folders. *)
PlanFolders ==
  /\ pc = "plan"
  /\ raws' = {src.entries[e].block : e \in {d \in DOMAIN src.entries : RetainedAction(d) = "CopyRaw"}}
  /\ pc' = "retain"
  /\ UNCHANGED <<inputs, world, scan, cursor, request, stage, output, res, reader>>

Preserved(e) ==
  LET stream == IF RetainedAction(e) = "NoStream" THEN NoStream
                ELSE IF RetainedAction(e) = "CopyRaw"
                       THEN Raw(src.entries[e].block, e, src.entries[e].size)
                ELSE Data(Bytes(e))
  IN [stream EXCEPT !.of = e]

(* Retained entries of a folder that changes must be decoded. *)
RetainEntry ==
  /\ pc = "retain" /\ cursor <= Len(src.entries)
  /\ RetainedAction(cursor) = "Decode" => src.entries[cursor].block \notin src.opaque
  /\ request' = IF RetainedAction(cursor) = "Drop" THEN request
                ELSE Append(request, Preserved(cursor))
  /\ cursor' = cursor + 1
  /\ UNCHANGED <<inputs, world, scan, raws, stage, output, pc, res, reader>>

AppendPending ==
  /\ pc = "retain" /\ cursor > Len(src.entries)
  /\ request' = request \o pending
  /\ pc' = "validate"
  /\ UNCHANGED <<inputs, world, scan, cursor, raws, stage, output, res, reader>>

-----------------------------------------------------------------------------
(***************************************************************************)
(* write_archive_update.                                                   *)
(***************************************************************************)
RawEntries(f) == {i \in DOMAIN request : request[i].kind = "raw" /\ request[i].folder = f}

(* Faulty variant: the entries of a folder may come in any order. *)
FolderMatchesAsSet(f) ==
  RawEntries(f) # {} => {request[i].entry : i \in RawEntries(f)} = FolderEntries(f)

(* A folder that is used brings all its entries, once and in order. *)
FolderMatches(f) ==
  RawEntries(f) # {} =>
    /\ {request[i].entry : i \in RawEntries(f)} = FolderEntries(f)
    /\ \A i, j \in RawEntries(f) : i < j => request[i].entry < request[j].entry

RawEntryValid(r) ==
  /\ r.entry \in DOMAIN src.entries
  /\ r.folder \in raws \ {0}
  /\ src.entries[r.entry].block = r.folder
  /\ src.entries[r.entry].size = r.size

(* validate_raw_folder_update. *)
Valid ==
  /\ 0 \notin raws
  /\ \A i \in DOMAIN request : request[i].kind = "raw" => RawEntryValid(request[i])
  /\ \A f \in raws : FolderMatches(f)

Validate ==
  /\ pc = "validate"
  /\ IF Valid THEN pc' = "stage" /\ UNCHANGED res ELSE Reject
  /\ UNCHANGED <<inputs, world, scan, plan, stage, output, reader>>

(* StagedDataFolders starts behind the highest folder that is copied. *)
Stage ==
  /\ pc = "stage"
  /\ \E top \in raws \cup {1} :
       /\ \A f \in raws : f <= top
       /\ assigner' = [NoAssigner EXCEPT !.next = top + 1]
  /\ pc' = "assign"
  /\ UNCHANGED <<inputs, world, scan, plan, ids, order, output, res, reader>>

NeedsNew(a, r) == a.current = 0 \/ WouldExceed(solid, a.progress, r.size)

FolderId(a, r) ==
  IF r.kind = "none" THEN 0
  ELSE IF r.kind = "raw" THEN r.folder
  ELSE IF NeedsNew(a, r) THEN a.next ELSE a.current

Assigned(a, r) ==
  [current |-> FolderId(a, r), next |-> IF NeedsNew(a, r) THEN a.next + 1 ELSE a.next,
   progress |-> Record(IF NeedsNew(a, r) THEN NoProgress ELSE a.progress, r.size)]

(* Faulty variant: new data goes on in the folder before a copied one. *)
AssignKeepsFolder(a, r) == IF r.kind \in {"none", "raw"} THEN a ELSE Assigned(a, r)

(* StagedDataFolders::assign; a raw entry ends the folder that collects    *)
(* new data (break_folder).                                                *)
Assign(a, r) ==
  IF r.kind = "none" THEN a
  ELSE IF r.kind = "raw" THEN [a EXCEPT !.current = 0]
  ELSE Assigned(a, r)

(* stage_preserved_entries: the folder of the next entry, and the folders  *)
(* in order of their first entry.  A handle must be known here too.        *)
StageEntry ==
  /\ pc = "assign" /\ Len(ids) < Len(request)
  /\ LET r == request[Len(ids) + 1]
         id == FolderId(assigner, r)
     IN /\ r.kind = "raw" => r.folder \in raws
        /\ ids' = Append(ids, id)
        /\ order' = IF id = 0 \/ (\E k \in DOMAIN order : order[k] = id) THEN order
                    ELSE Append(order, id)
        /\ assigner' = Assign(assigner, r)
  /\ UNCHANGED <<inputs, world, scan, plan, output, pc, res, reader>>

(* Whether the entries of each folder are together. *)
Together ==
  \A i, j \in DOMAIN ids : i < j /\ ids[i] = ids[j] =>
    \A k \in i .. j : ids[i] = 0 \/ ids[k] \in {0, ids[i]}

StageEnds ==
  /\ pc = "assign" /\ Len(ids) = Len(request)
  /\ IF Together THEN pc' = "begin" /\ UNCHANGED res ELSE Reject
  /\ UNCHANGED <<inputs, world, scan, plan, stage, output, reader>>

(* The blank signature header. *)
Begin ==
  /\ pc = "begin"
  /\ out' = "blank" /\ pc' = "folders"
  /\ seen' = [i \in DOMAIN request |-> request[i].data]
  /\ UNCHANGED <<inputs, world, scan, plan, stage, completed, folder, files, header, res, reader>>

(* The folder whose turn it is, and its entries. *)
CurrentId == order[Len(completed) + 1]
Members(id) == {i \in DOMAIN request : ids[i] = id}

(* FolderFile, and where the data of the file begins. *)
FolderFile(i, first, size) == [entry |-> i, first |-> first, size |-> size]

(* StreamingFolder::raw: the packed streams as they are, with the sizes    *)
(* the entries claim.                                                      *)
WriteRaw ==
  /\ pc = "folders" /\ Len(completed) < Len(order) /\ CurrentId \in raws
  /\ \E members \in Sorted(Members(CurrentId)) :
       completed' = Append(completed,
         [files |-> [j \in DOMAIN members |->
             FolderFile(members[j], src.entries[request[members[j]].entry].first,
                        request[members[j]].size)],
          unpack |-> Len(src.folders[CurrentId]), payload |-> src.folders[CurrentId]])
  /\ raws' = raws \ {CurrentId}
  /\ UNCHANGED <<inputs, world, scan, cursor, request, stage, folder, files, seen, out, header,
                 pc, res, reader>>

(* write_encoded_folder_streaming. *)
OpenEncoded ==
  /\ pc = "folders" /\ Len(completed) < Len(order) /\ CurrentId \notin raws
  /\ files' = Members(CurrentId) /\ folder' = NoFolder
  /\ pc' = "encode"
  /\ UNCHANGED <<inputs, world, scan, plan, stage, completed, seen, out, header, res, reader>>

NextFile(i) == i \in files /\ \A j \in files : i <= j

(* write_staged_reader takes what the file holds when it is read. *)
ReadChunk ==
  /\ pc = "encode"
  /\ \E i \in files :
       LET p == request[i].path
       IN /\ NextFile(i) /\ request[i].kind = "path"
          /\ disk[p].kind = "file" /\ Len(seen[i]) < disk[p].len
          /\ seen' = [seen EXCEPT ![i] = Append(@, <<p, disk[p].version>>)]
  /\ UNCHANGED <<inputs, world, scan, plan, stage, completed, folder, files, out, header, pc, res,
                 reader>>

(* The end of an input: what was read is what is recorded. *)
RecordStream ==
  /\ pc = "encode"
  /\ \E i \in files :
       LET p == request[i].path  size == Len(seen[i])
       IN /\ NextFile(i)
          /\ request[i].kind = "path" => disk[p].kind \notin {"missing", "dir"} /\ size >= disk[p].len
          /\ folder' = [files |-> Append(folder.files, FolderFile(i, folder.unpack, size)),
                        unpack |-> folder.unpack + size,
                        payload |-> folder.payload \o seen[i]]
          /\ files' = files \ {i}
  /\ UNCHANGED <<inputs, world, scan, plan, stage, completed, seen, out, header, pc, res, reader>>

CompleteFolder ==
  /\ pc = "encode" /\ files = {}
  /\ completed' = Append(completed, folder)
  /\ pc' = "folders"
  /\ UNCHANGED <<inputs, world, scan, plan, stage, folder, files, seen, out, header, res, reader>>

Sizes(f) == [files |-> [j \in DOMAIN f.files |-> f.files[j].size], unpack |-> f.unpack]

(* build_header. *)
BuildHeader ==
  [streams |-> [i \in DOMAIN request |-> request[i].kind # "none"],
   folders |-> [f \in DOMAIN completed |-> FolderHeader(Sizes(completed[f]))]]

(* finish_streamed_archive, and the exit code of the command. *)
Finish ==
  /\ pc = "folders" /\ Len(completed) = Len(order)
  /\ header' = BuildHeader
  /\ out' = "signed"
  /\ pc' = "done" /\ res' = IF warnings > 0 THEN "warning" ELSE "ok"
  /\ UNCHANGED <<inputs, world, scan, plan, stage, completed, folder, files, seen, reader>>

(* One step of FileStreams::map_all over the header of the new archive. *)
Read ==
  /\ out = "signed" /\ reader.ended = "no"
  /\ reader' = ReadNext(header, reader)
  /\ UNCHANGED <<inputs, world, scan, plan, stage, output, pc, res>>

Step ==
  \/ ScanOperand \/ ScanEnds \/ CollectPath \/ CollectEnds
  \/ PlanFolders \/ RetainEntry \/ AppendPending
  \/ Validate \/ Stage \/ StageEntry \/ StageEnds \/ Begin \/ WriteRaw \/ OpenEncoded
  \/ ReadChunk \/ RecordStream \/ CompleteFolder \/ Finish \/ Read \/ Fail

Next == Step \/ \E p \in 1 .. Paths : Change(p)

Spec == Init /\ [][Next]_vars
-----------------------------------------------------------------------------
(***************************************************************************)
(* Properties.                                                             *)
(***************************************************************************)

(* What entry i of a request is meant to hold. *)
Content(i) == IF request[i].kind = "raw" THEN Bytes(request[i].entry) ELSE seen[i]

(* A reader of the new archive finds a stream for each entry with data and *)
(* no other, and in it exactly the entry's bytes, also when copied and new *)
(* folders alternate, files changed size since they were scanned, or a     *)
(* library caller made the request.                                        *)
UpdateReadsBack ==
  /\ reader.ended # "error"
  /\ reader.found.entry # 0 =>
       LET at == reader.found
           content == Content(at.entry)
           payload == completed[at.folder].payload
       IN /\ at.size = Len(content) /\ at.first + at.size <= Len(payload)
          /\ \A i \in 1 .. at.size : payload[at.first + i] = content[i]
  /\ out = "signed" =>
       \A f \in DOMAIN completed : Len(completed[f].payload) = header.folders[f].unpack

(* Updates and deletions keep every other entry, in order and with its     *)
(* bytes, whether its folder is copied or has to be decoded; the collected *)
(* files come after them.                                                  *)
KeepsOtherEntries ==
  out = "signed" /\ job.cmd \in {"update", "delete"} =>
    /\ \A e \in DOMAIN src.entries : ~Dropped(e) <=> \E i \in DOMAIN request : request[i].of = e
    /\ \A i, j \in DOMAIN request : i < j /\ request[j].of # 0 =>
         request[i].of # 0 /\ request[i].of < request[j].of
    /\ \A i \in DOMAIN request : request[i].of # 0 =>
         IF src.entries[request[i].of].block # 0
           THEN request[i].kind # "none" /\ Content(i) = Bytes(request[i].of)
           ELSE request[i].kind = "none"
    /\ \E n \in 0 .. Len(request) :
         /\ Len(request) = n + Len(pending)
         /\ \A i \in DOMAIN pending : request[n + i] = pending[i] /\ pending[i].of = 0

(* A request is rejected before any output is written, and a request the   *)
(* commands make is never rejected.                                        *)
RejectionsAreHarmless == res = "rejected" => out = "untouched" /\ job.cmd = "library"
-----------------------------------------------------------------------------
(***************************************************************************)
(* The inductive invariant.                                                *)
(***************************************************************************)
FolderRecord ==
  [files : Seq([entry : Nat, first : Nat, size : Nat]), unpack : Nat, payload : Seq(Chunk)]

EntryOK(r) == (r.kind # "data" => r.data = <<>>) /\ (r.kind = "path" => r.path \in 1 .. Paths)

TypeOK ==
  /\ src \in Sources /\ job \in Jobs
  /\ disk \in [1 .. Paths -> File] /\ changes \in Nat
  /\ operands \in Seq(0 .. Paths) /\ warnings \in Nat /\ paths \in Seq(1 .. Paths)
  /\ pending \in Seq(Entry)
  /\ \A i \in DOMAIN pending : EntryOK(pending[i]) /\ pending[i].kind # "raw" /\ pending[i].of = 0
  /\ cursor \in Nat \ {0} /\ raws \in SUBSET Nat
  /\ request \in Seq(Entry) /\ \A i \in DOMAIN request : EntryOK(request[i])
  /\ assigner \in [current : Nat, next : Nat \ {0}, progress : [files : Nat, bytes : Nat]]
  /\ ids \in Seq(Nat) /\ order \in Seq(Nat)
  /\ completed \in Seq(FolderRecord) /\ folder \in FolderRecord
  /\ files \in SUBSET Nat /\ seen \in Seq(Seq(Chunk))

(* What has not happened yet, and how it may end. *)
PhaseInv ==
  /\ pc \in {"scan", "collect", "plan", "retain", "validate", "stage", "assign", "begin", "folders",
             "encode", "done"}
  /\ pc \in {"scan", "collect"} => ReadsDisk
  /\ pc \in {"plan", "retain"} => job.cmd \in {"update", "delete"}
  /\ pc = "validate" => job.cmd # "create"
  /\ pc \in {"scan", "collect", "plan"} => request = <<>> /\ cursor = 1
  /\ pc \in {"scan", "collect", "plan"} \/ job.cmd = "create" => raws = {}
  /\ pc \in {"scan", "collect", "plan", "retain", "validate", "stage"} => ids = <<>> /\ order = <<>>
  /\ pc \notin {"folders", "encode", "done"} => completed = <<>> /\ out = "untouched"
  /\ pc # "done" => res = "none" /\ out # "signed"
  /\ out # "signed" => reader = ReaderStart

(* The first n entries of a plan are what is kept of the source's entries  *)
(* before the cursor.                                                      *)
Kept(n) ==
  /\ \A i \in 1 .. n : /\ request[i].of \in 1 .. cursor - 1 /\ ~Dropped(request[i].of)
                       /\ request[i] = Preserved(request[i].of)
  /\ \A i, j \in 1 .. n : i < j => request[i].of < request[j].of
  /\ \A e \in 1 .. cursor - 1 : ~Dropped(e) => \E i \in 1 .. n : request[i].of = e

CopiedFolders ==
  {src.entries[e].block : e \in {d \in DOMAIN src.entries : RetainedAction(d) = "CopyRaw"}}

(* The request has been made, accepted, staged. *)
Accepted == pc \in {"stage", "assign", "begin", "folders", "encode"} \/ out = "signed"
Staged == pc \in {"begin", "folders", "encode"} \/ out = "signed"

PlanInv ==
  /\ pc = "retain" => cursor <= Len(src.entries) + 1 /\ Kept(Len(request))
  /\ job.cmd \in {"update", "delete"} /\ (pc = "validate" \/ Accepted) =>
       /\ cursor = Len(src.entries) + 1
       /\ \E n \in 0 .. Len(request) :
            /\ Kept(n) /\ Len(request) = n + Len(pending)
            /\ \A i \in DOMAIN pending : request[n + i] = pending[i]
  /\ job.cmd \in {"update", "delete"} /\ pc \in {"retain", "validate", "stage", "assign"} =>
       raws = CopiedFolders

(* What validation leaves: raw entries are those of the source's folders. *)
RawInv ==
  /\ Accepted => \A i \in DOMAIN request : request[i].kind = "raw" =>
       /\ request[i].entry \in DOMAIN src.entries /\ request[i].folder # 0
       /\ src.entries[request[i].entry].block = request[i].folder
       /\ src.entries[request[i].entry].size = request[i].size
       /\ FolderMatches(request[i].folder)
  /\ pc \in {"stage", "assign", "begin"} =>
       \A i \in DOMAIN request : request[i].kind = "raw" => request[i].folder \in raws

(* The folders assigned so far: new ones have numbers of their own, above  *)
(* those of copied folders, and their entries are together.                *)
IsNew(i) == request[i].kind \in {"data", "path"}

IdsInv ==
  /\ Len(ids) <= Len(request) /\ (Staged => Len(ids) = Len(request))
  /\ \A i \in DOMAIN ids : /\ request[i].kind = "none" <=> ids[i] = 0
                           /\ request[i].kind = "raw" => ids[i] = request[i].folder
                           /\ IsNew(i) => \A f \in raws : f < ids[i]
                           /\ IsNew(i) => \A j \in DOMAIN ids : request[j].kind = "raw" => ids[j] # ids[i]
  /\ \A i, j \in DOMAIN ids : i < j /\ IsNew(j) /\ ids[i] = ids[j] =>
       \A k \in i .. j : ids[k] \in {0, ids[i]}
  /\ Staged => Together

AssignerInv ==
  pc = "assign" =>
    /\ \A f \in raws : f < assigner.next
    /\ \A i \in DOMAIN ids : ids[i] < assigner.next
    /\ assigner.current # 0 =>
         \E i \in DOMAIN ids : /\ ids[i] = assigner.current /\ IsNew(i)
                              /\ \A k \in i .. Len(ids) : ids[k] \in {0, assigner.current}

(* The folders in order of their first entries. *)
OrderInv ==
  /\ \A p \in DOMAIN order : order[p] # 0 /\ \E i \in DOMAIN ids : ids[i] = order[p]
  /\ \A i \in DOMAIN ids : ids[i] # 0 => \E p \in DOMAIN order : order[p] = ids[i]
  /\ \A p, q \in DOMAIN order : p < q =>
       /\ order[p] # order[q]
       /\ \E i \in DOMAIN ids : /\ ids[i] = order[p]
                                /\ \A j \in DOMAIN ids : ids[j] = order[q] => i < j

(* A folder that holds the data of the entries in a set, one after the     *)
(* other.                                                                  *)
Holds(f, members) ==
  /\ \A j \in DOMAIN f.files : f.files[j].entry \in members
  /\ \A i \in members : \E j \in DOMAIN f.files : f.files[j].entry = i
  /\ \A j, l \in DOMAIN f.files : j < l => f.files[j].entry < f.files[l].entry
  /\ \A j \in DOMAIN f.files :
       LET file == f.files[j]
       IN /\ file.size = Len(Content(file.entry)) /\ file.first + file.size <= f.unpack
          /\ \A x \in 1 .. file.size : f.payload[file.first + x] = Content(file.entry)[x]
          /\ j = 1 => file.first = 0
          /\ j = Len(f.files) => file.first + file.size = f.unpack
          /\ j < Len(f.files) => f.files[j + 1].first = file.first + file.size
  /\ f.unpack = Len(f.payload) /\ (f.files = <<>> => f.unpack = 0)

Writing == pc \in {"folders", "encode"} \/ out = "signed"

WriteInv ==
  Writing =>
    /\ Len(seen) = Len(request)
    /\ \A i \in DOMAIN request : request[i].kind = "data" => seen[i] = request[i].data
    /\ Len(completed) <= Len(order)
    /\ \A p \in DOMAIN completed : Holds(completed[p], Members(order[p]))
    /\ \A p \in Len(completed) + 1 .. Len(order) : \A i \in DOMAIN request :
         request[i].kind = "raw" /\ ids[i] = order[p] => ids[i] \in raws

EncodeInv ==
  pc = "encode" =>
    /\ Len(completed) < Len(order) /\ files \subseteq Members(CurrentId)
    /\ \A i \in Members(CurrentId) : IsNew(i)
    /\ \A i \in Members(CurrentId) \ files : \A j \in files : i < j
    /\ Holds(folder, Members(CurrentId) \ files)

(* Where each entry's data is. *)
Slots == UNION {{p} \X DOMAIN completed[p].files : p \in DOMAIN completed}
Slot(i) == CHOOSE s \in Slots : completed[s[1]].files[s[2]].entry = i
Places ==
  [i \in {k \in DOMAIN request : request[k].kind # "none"} |->
     LET file == completed[Slot(i)[1]].files[Slot(i)[2]]
     IN [folder |-> Slot(i)[1], at |-> Slot(i)[2], first |-> file.first, size |-> file.size]]

SignedInv ==
  out = "signed" =>
    /\ Len(completed) = Len(order) /\ header = BuildHeader
    /\ reader = ReaderStart \/ ReaderOK(header, Places, reader)

IInv ==
  /\ TypeOK /\ PhaseInv /\ PlanInv /\ RawInv /\ IdsInv /\ AssignerInv /\ OrderInv
  /\ WriteInv /\ EncodeInv /\ SignedInv /\ RejectionsAreHarmless
=============================================================================
