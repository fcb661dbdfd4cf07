------------------------- MODULE ArchiveUpdateProofs -------------------------
(***************************************************************************)
(* Proofs about ArchiveUpdate, for every source archive whose listing      *)
(* comes from stream tables, every command and library request, every disk *)
(* and every solid mode: the inductive invariant holds, commands are never *)
(* rejected, other entries are kept, and the new archive reads back.       *)
(***************************************************************************)
EXTENDS ArchiveUpdate, StreamTablesProofs, FiniteSetTheorems

(***************************************************************************)
(* Sequences and records.                                                  *)
(***************************************************************************)
LEMMA AppendAt ==
  ASSUME NEW S, NEW s \in Seq(S), NEW x \in S
  PROVE  /\ Append(s, x) \in Seq(S) /\ Len(s) \in Nat /\ Len(Append(s, x)) = Len(s) + 1
         /\ DOMAIN s = 1 .. Len(s) /\ DOMAIN Append(s, x) = 1 .. Len(s) + 1
         /\ \A i \in 1 .. Len(s) : Append(s, x)[i] = s[i]
         /\ Append(s, x)[Len(s) + 1] = x
OBVIOUS

LEMMA ConcatAt ==
  ASSUME NEW S, NEW s \in Seq(S), NEW t \in Seq(S)
  PROVE  /\ s \o t \in Seq(S) /\ Len(s) \in Nat /\ Len(t) \in Nat
         /\ Len(s \o t) = Len(s) + Len(t)
         /\ DOMAIN s = 1 .. Len(s) /\ DOMAIN t = 1 .. Len(t)
         /\ DOMAIN (s \o t) = 1 .. Len(s) + Len(t)
         /\ \A i \in 1 .. Len(s) : (s \o t)[i] = s[i]
         /\ \A i \in 1 .. Len(t) : (s \o t)[Len(s) + i] = t[i]
OBVIOUS

LEMMA SeqAt ==
  ASSUME NEW S, NEW s \in Seq(S)
  PROVE  /\ DOMAIN s = 1 .. Len(s) /\ Len(s) \in Nat
         /\ \A i \in DOMAIN s : s[i] \in S
         /\ \A i \in 1 .. Len(s) : s[i] \in S
OBVIOUS

LEMMA EmptySeq ==
  ASSUME NEW S, NEW s \in Seq(S)
  PROVE  Len(s) = 0 <=> s = <<>>
OBVIOUS

LEMMA HeadTail ==
  ASSUME NEW S, NEW s \in Seq(S), s # <<>>
  PROVE  Head(s) \in S /\ Tail(s) \in Seq(S)
OBVIOUS

LEMMA SeqOf ==
  ASSUME NEW S, NEW n \in Nat, NEW f \in [1 .. n -> S]
  PROVE  f \in Seq(S) /\ Len(f) = n /\ DOMAIN f = 1 .. n
OBVIOUS

(* A finite set of numbers in increasing order. *)
LEMMA SortedType ==
  ASSUME NEW n \in Nat, NEW S \in SUBSET (1 .. n), NEW s \in Sorted(S)
  PROVE  /\ s \in Seq(S) /\ s \in Seq(1 .. n) /\ DOMAIN s = 1 .. Len(s) /\ Len(s) \in Nat
         /\ \A i \in DOMAIN s : s[i] \in S
         /\ \A x \in S : \E i \in DOMAIN s : s[i] = x
         /\ \A i, j \in DOMAIN s : i < j => s[i] < s[j]
<1>0. IsFiniteSet(1 .. n)
  BY FS_Interval, 1 \in Int, n \in Int
<1>1. IsFiniteSet(S)
  BY <1>0, FS_Subset
<1>2. PICK k \in Nat : k = Cardinality(S)
  BY <1>1, FS_CardinalityType
<1>3. /\ s \in [1 .. k -> S] /\ S = {s[i] : i \in 1 .. k}
      /\ \A i, j \in 1 .. k : i < j => s[i] < s[j]
  BY <1>2 DEF Sorted
<1>4. s \in Seq(S) /\ Len(s) = k /\ DOMAIN s = 1 .. k
  BY <1>3, SeqOf
<1>5. s \in [1 .. k -> 1 .. n]
  BY <1>3
<1>6. s \in Seq(1 .. n)
  BY <1>5, SeqOf
<1> QED
  BY <1>3, <1>4, <1>6

(* The streams an entry is made of. *)
LEMMA EntryType ==
  ASSUME NEW kind \in {"none", "raw", "data", "path"}, NEW f \in Nat, NEW e \in Nat,
         NEW size \in Nat, NEW data \in Seq(Chunk), NEW of \in Nat, NEW path \in Nat
  PROVE  [kind |-> kind, folder |-> f, entry |-> e, size |-> size, data |-> data, of |-> of,
          path |-> path] \in Entry
BY DEF Entry

LEMMA FileTypes ==
  ASSUME TypeOK, NEW p \in 1 .. Paths
  PROVE  /\ disk[p] \in File /\ disk[p].len \in Nat /\ disk[p].version \in Nat /\ p \in Nat
         /\ <<p, disk[p].version>> \in Chunk
<1>1. disk[p] \in File /\ p \in Nat
  BY UpdateAssumption DEF TypeOK
<1>2. disk[p].len \in Nat /\ disk[p].version \in Nat
  BY <1>1 DEF File
<1> QED
  BY <1>1, <1>2 DEF Chunk

(* What a path makes is an entry, or nothing. *)
LEMMA CollectedType ==
  ASSUME TypeOK, NEW p \in 1 .. Paths
  PROVE  /\ Collected(p) \in Seq(Entry)
         /\ \A i \in DOMAIN Collected(p) :
              LET r == Collected(p)[i] IN EntryOK(r) /\ r.kind # "raw" /\ r.of = 0
<1>1. /\ disk[p].len \in Nat /\ p \in Nat /\ <<>> \in Seq(Chunk)
      /\ << <<p, disk[p].version>> >> \in Seq(Chunk) /\ Len(<< <<p, disk[p].version>> >>) \in Nat
  BY FileTypes
<1>2. PICK link : link = [kind |-> "data", folder |-> 0, entry |-> 0, size |-> Len(<< <<p, disk[p].version>> >>),
           data |-> << <<p, disk[p].version>> >>, of |-> 0, path |-> p]
  OBVIOUS
<1>3. PICK none : none = [kind |-> "none", folder |-> 0, entry |-> 0, size |-> 0,
           data |-> <<>>, of |-> 0, path |-> p]
  OBVIOUS
<1>4. PICK data : data = [kind |-> "path", folder |-> 0, entry |-> 0, size |-> disk[p].len,
           data |-> <<>>, of |-> 0, path |-> p]
  OBVIOUS
<1>5. link \in Entry /\ link.kind = "data" /\ link.of = 0
  BY <1>1, <1>2, EntryType
<1>6. none \in Entry /\ none.kind = "none" /\ none.of = 0 /\ none.data = <<>>
  BY <1>1, <1>3, EntryType
<1>7. /\ data \in Entry /\ data.kind = "path" /\ data.of = 0 /\ data.data = <<>>
      /\ data.path = p
  BY <1>1, <1>4, EntryType
<1>8. Collected(p) \in {<<link>>, <<none>>, <<data>>, <<>>}
  BY <1>2, <1>3, <1>4 DEF Collected, Data, NoStream, Path, Stream
<1>9. \A r \in {link, none, data} : r \in Entry /\ EntryOK(r) /\ r.kind # "raw" /\ r.of = 0
  BY <1>5, <1>6, <1>7 DEF EntryOK
<1>10. ASSUME NEW r \in {link, none, data}, Collected(p) = <<r>>
       PROVE  /\ Collected(p) \in Seq(Entry)
              /\ \A i \in DOMAIN Collected(p) : Collected(p)[i] = r
  BY <1>9, <1>10
<1>11. ASSUME Collected(p) = <<>>
       PROVE  /\ Collected(p) \in Seq(Entry) /\ DOMAIN Collected(p) = {}
  BY <1>11
<1> QED
  BY <1>8, <1>9, <1>10, <1>11

(***************************************************************************)
(* The source.                                                             *)
(***************************************************************************)
LEMMA SourceTypes ==
  ASSUME TypeOK
  PROVE  /\ src \in Source /\ Listed(src) /\ Len(src.entries) \in Nat /\ Len(src.folders) \in Nat
         /\ DOMAIN src.entries = 1 .. Len(src.entries)
         /\ DOMAIN src.folders = 1 .. Len(src.folders)
         /\ \A e \in DOMAIN src.entries :
              /\ src.entries[e].name \in Nat /\ src.entries[e].block \in Nat
              /\ src.entries[e].first \in Nat /\ src.entries[e].size \in Nat
         /\ \A f \in 1 .. Len(src.folders) :
              src.folders[f] \in Seq(Chunk) /\ Len(src.folders[f]) \in Nat
<1>1. src \in Source /\ Listed(src)
  BY UpdateAssumption DEF TypeOK
<1>2. /\ src.entries \in Seq([name : Nat, block : Nat, first : Nat, size : Nat])
      /\ src.folders \in Seq(Seq(Chunk))
  BY <1>1 DEF Source
<1>3. \A e \in DOMAIN src.entries :
        src.entries[e] \in [name : Nat, block : Nat, first : Nat, size : Nat]
  BY <1>2, SeqAt
<1>4. \A f \in 1 .. Len(src.folders) : src.folders[f] \in Seq(Chunk)
  BY <1>2
<1>5. \A f \in 1 .. Len(src.folders) : Len(src.folders[f]) \in Nat
  BY <1>4
<1>6. \A e \in DOMAIN src.entries :
        /\ src.entries[e].name \in Nat /\ src.entries[e].block \in Nat
        /\ src.entries[e].first \in Nat /\ src.entries[e].size \in Nat
  BY <1>3
<1>7. /\ DOMAIN src.entries = 1 .. Len(src.entries) /\ Len(src.entries) \in Nat
      /\ DOMAIN src.folders = 1 .. Len(src.folders) /\ Len(src.folders) \in Nat
  BY <1>2
<1> QED
  BY <1>1, <1>4, <1>5, <1>6, <1>7

(* An entry with data lies in its folder. *)
LEMMA DataTypes ==
  ASSUME TypeOK, NEW e \in DOMAIN src.entries, src.entries[e].block # 0
  PROVE  LET entry == src.entries[e]
         IN /\ entry.block \in 1 .. Len(src.folders)
            /\ entry.first + entry.size <= Len(src.folders[entry.block])
            /\ Bytes(e) \in Seq(Chunk) /\ Len(Bytes(e)) = entry.size
            /\ \A i \in 1 .. entry.size : Bytes(e)[i] = src.folders[entry.block][entry.first + i]
<1>1. /\ src.entries[e].block <= Len(src.folders)
      /\ src.entries[e].first + src.entries[e].size <= Len(src.folders[src.entries[e].block])
  BY SourceTypes DEF Listed
<1>2. PICK f \in 1 .. Len(src.folders) : f = src.entries[e].block
  BY <1>1, SourceTypes
<1>3. PICK first \in Nat, size \in Nat : first = src.entries[e].first /\ size = src.entries[e].size
  BY SourceTypes
<1>4. src.folders[f] \in Seq(Chunk) /\ Len(src.folders[f]) \in Nat /\ first + size <= Len(src.folders[f])
  BY <1>1, <1>2, <1>3, SourceTypes
<1>5. \A i \in 1 .. size : first + i \in 1 .. Len(src.folders[f])
  BY <1>4
<1>6. \A i \in 1 .. size : src.folders[f][first + i] \in Chunk
  BY <1>4, <1>5
<1>7. Bytes(e) = [i \in 1 .. size |-> src.folders[f][first + i]]
  BY <1>2, <1>3 DEF Bytes
<1>8. Bytes(e) \in [1 .. size -> Chunk]
  BY <1>6, <1>7
<1>9. Bytes(e) \in Seq(Chunk) /\ Len(Bytes(e)) = size
  BY <1>8, SeqOf
<1>10. \A i \in 1 .. size : Bytes(e)[i] = src.folders[f][first + i]
  BY <1>7
<1> QED
  BY <1>1, <1>2, <1>3, <1>9, <1>10

(* The actions on old entries. *)
LEMMA Actions ==
  ASSUME NEW e
  PROVE  /\ RetainedAction(e) \in {"Drop", "NoStream", "CopyRaw", "Decode"}
         /\ RetainedAction(e) = "Drop" <=> Dropped(e)
         /\ RetainedAction(e) = "NoStream" <=> ~Dropped(e) /\ src.entries[e].block = 0
         /\ RetainedAction(e) = "CopyRaw" <=>
              /\ ~Dropped(e) /\ src.entries[e].block # 0
              /\ \A d \in FolderEntries(src.entries[e].block) : ~Dropped(d)
BY DEF RetainedAction

LEMMA PreservedType ==
  ASSUME TypeOK, NEW e \in DOMAIN src.entries, ~Dropped(e)
  PROVE  LET r == Preserved(e)
         IN /\ r \in Entry /\ EntryOK(r) /\ r.of = e
            /\ r.kind # "path"
            /\ r.kind = "none" <=> src.entries[e].block = 0
            /\ r.kind = "raw" <=> RetainedAction(e) = "CopyRaw"
            /\ r.kind = "raw" => /\ r.folder = src.entries[e].block /\ r.entry = e
                                 /\ r.size = src.entries[e].size
            /\ r.kind = "data" => r.data = Bytes(e)
<1>1. /\ e \in Nat /\ src.entries[e].block \in Nat /\ src.entries[e].size \in Nat
      /\ <<>> \in Seq(Chunk)
  BY SourceTypes
<1>2. PICK r : r = Preserved(e)
  OBVIOUS
<1>3. ASSUME RetainedAction(e) = "NoStream"
      PROVE  /\ r \in Entry /\ EntryOK(r) /\ r.of = e /\ r.kind = "none"
             /\ src.entries[e].block = 0
  <2>1. r = [kind |-> "none", folder |-> 0, entry |-> 0, size |-> 0,
           data |-> <<>>, of |-> e, path |-> 0]
    BY <1>2, <1>3 DEF Preserved, NoStream, Stream
  <2>2. r \in Entry /\ r.kind = "none" /\ r.of = e /\ r.data = <<>>
    BY <1>1, <2>1, EntryType
  <2> QED
    BY <1>3, <2>2, Actions DEF EntryOK
<1>4. ASSUME RetainedAction(e) = "CopyRaw"
      PROVE  /\ r \in Entry /\ EntryOK(r) /\ r.of = e /\ r.kind = "raw"
             /\ r.folder = src.entries[e].block /\ r.entry = e /\ r.size = src.entries[e].size
             /\ src.entries[e].block # 0
  <2>1. r = [kind |-> "raw", folder |-> src.entries[e].block, entry |-> e, size |-> src.entries[e].size,
           data |-> <<>>, of |-> e, path |-> 0]
    BY <1>2, <1>4 DEF Preserved, Raw, Stream
  <2>2. /\ r \in Entry /\ r.kind = "raw" /\ r.of = e /\ r.data = <<>>
        /\ r.folder = src.entries[e].block /\ r.entry = e /\ r.size = src.entries[e].size
    BY <1>1, <2>1, EntryType
  <2> QED
    BY <1>4, <2>2, Actions DEF EntryOK
<1>5. ASSUME RetainedAction(e) = "Decode"
      PROVE  /\ r \in Entry /\ EntryOK(r) /\ r.of = e /\ r.kind = "data" /\ r.data = Bytes(e)
             /\ src.entries[e].block # 0
  <2>1. r = [kind |-> "data", folder |-> 0, entry |-> 0, size |-> Len(Bytes(e)),
           data |-> Bytes(e), of |-> e, path |-> 0]
    BY <1>2, <1>5 DEF Preserved, Data, Stream
  <2>2. src.entries[e].block # 0
    BY <1>5, Actions
  <2>3. Bytes(e) \in Seq(Chunk) /\ Len(Bytes(e)) \in Nat
    BY <1>1, <2>2, DataTypes
  <2>4. r \in Entry /\ r.kind = "data" /\ r.of = e /\ r.data = Bytes(e)
    BY <1>1, <2>1, <2>3, EntryType
  <2> QED
    BY <2>2, <2>4 DEF EntryOK
<1> QED
  BY <1>2, <1>3, <1>4, <1>5, Actions

(***************************************************************************)
(* Types.                                                                  *)
(***************************************************************************)
LEMMA RequestTypes ==
  ASSUME TypeOK
  PROVE  /\ DOMAIN request = 1 .. Len(request) /\ Len(request) \in Nat
         /\ DOMAIN ids = 1 .. Len(ids) /\ Len(ids) \in Nat
         /\ \A i \in DOMAIN ids : ids[i] \in Nat
         /\ DOMAIN order = 1 .. Len(order) /\ Len(order) \in Nat
         /\ \A p \in DOMAIN order : order[p] \in Nat
         /\ DOMAIN completed = 1 .. Len(completed) /\ Len(completed) \in Nat
         /\ \A i \in DOMAIN request :
              LET r == request[i]
              IN /\ r \in Entry /\ EntryOK(r) /\ r.kind \in {"none", "raw", "data", "path"}
                 /\ r.folder \in Nat /\ r.entry \in Nat /\ r.size \in Nat
                 /\ r.data \in Seq(Chunk) /\ r.of \in Nat /\ r.path \in Nat
<1>1. /\ request \in Seq(Entry) /\ ids \in Seq(Nat) /\ order \in Seq(Nat)
      /\ completed \in Seq(FolderRecord)
      /\ \A i \in DOMAIN request : EntryOK(request[i])
  BY DEF TypeOK
<1>2. \A r \in Entry :
        /\ r.kind \in {"none", "raw", "data", "path"}
        /\ r.folder \in Nat /\ r.entry \in Nat /\ r.size \in Nat
        /\ r.data \in Seq(Chunk) /\ r.of \in Nat /\ r.path \in Nat
  BY DEF Entry
<1> QED
  BY <1>1, <1>2, SeqAt

(* A job's request and the paths it names. *)
LEMMA JobTypes ==
  ASSUME NEW j \in Jobs
  PROVE  /\ j.operands \in Seq(0 .. Paths) /\ j.request \in Seq(Entry) /\ j.raws \in SUBSET Nat
         /\ j.cmd \in {"create", "update", "delete", "library"}
         /\ \A i \in DOMAIN j.request : EntryOK(j.request[i])
<1>1. j \in Job
  BY UpdateAssumption
<1>2. \A i \in DOMAIN j.request : EntryOK(j.request[i])
  BY UpdateAssumption DEF EntryOK
<1> QED
  BY <1>1, <1>2 DEF Job

LEMMA FolderTypes ==
  ASSUME NEW f \in FolderRecord
  PROVE  /\ f.files \in Seq([entry : Nat, first : Nat, size : Nat]) /\ f.unpack \in Nat
         /\ f.payload \in Seq(Chunk) /\ DOMAIN f.files = 1 .. Len(f.files) /\ Len(f.files) \in Nat
         /\ \A j \in DOMAIN f.files : /\ f.files[j].entry \in Nat /\ f.files[j].first \in Nat
                                      /\ f.files[j].size \in Nat
<1>1. /\ f.files \in Seq([entry : Nat, first : Nat, size : Nat]) /\ f.unpack \in Nat
      /\ f.payload \in Seq(Chunk)
  BY DEF FolderRecord
<1>2. \A j \in DOMAIN f.files : f.files[j] \in [entry : Nat, first : Nat, size : Nat]
  BY <1>1, SeqAt
<1> QED
  BY <1>1, <1>2, SeqAt

LEMMA FolderRecordType ==
  ASSUME NEW fs \in Seq([entry : Nat, first : Nat, size : Nat]), NEW n \in Nat,
         NEW bytes \in Seq(Chunk)
  PROVE  [files |-> fs, unpack |-> n, payload |-> bytes] \in FolderRecord
BY DEF FolderRecord

LEMMA NoFolderType ==
  NoFolder \in FolderRecord /\ NoFolder.files = <<>> /\ NoFolder.unpack = 0 /\ NoFolder.payload = <<>>
BY DEF NoFolder, FolderRecord

LEMMA InitTypes == Init => TypeOK
<1> SUFFICES ASSUME Init PROVE TypeOK
  OBVIOUS
<1>1. src \in Sources /\ job \in Jobs /\ solid \in Solids
  BY DEF Init
<1>2. [p \in 1 .. Paths |-> NoFile] \in [1 .. Paths -> File]
  BY DEF NoFile, File
<1>3. disk \in [1 .. Paths -> File] /\ changes \in Nat
  BY <1>2, UpdateAssumption DEF Init
<1>4. operands \in Seq(0 .. Paths) /\ warnings \in Nat /\ paths \in Seq(1 .. Paths)
  BY <1>1, JobTypes DEF Init
<1>5. /\ pending \in Seq(Entry)
      /\ \A i \in DOMAIN pending : EntryOK(pending[i]) /\ pending[i].kind # "raw" /\ pending[i].of = 0
  BY DEF Init
<1>6. cursor \in Nat \ {0} /\ raws \in SUBSET Nat
  BY <1>1, JobTypes DEF Init
<1>7. request \in Seq(Entry) /\ \A i \in DOMAIN request : EntryOK(request[i])
  <2>1. CASE job.cmd = "library"
    BY <1>1, <2>1, JobTypes DEF Init
  <2>2. CASE job.cmd # "library"
    BY <2>2 DEF Init
  <2> QED
    BY <2>1, <2>2
<1>8. assigner \in [current : Nat, next : Nat \ {0}, progress : [files : Nat, bytes : Nat]]
  BY DEF Init, NoAssigner, NoProgress
<1>9. /\ ids \in Seq(Nat) /\ order \in Seq(Nat) /\ completed \in Seq(FolderRecord)
      /\ files \in SUBSET Nat /\ seen \in Seq(Seq(Chunk))
  BY DEF Init
<1>10. folder \in FolderRecord
  BY NoFolderType DEF Init
<1> QED
  BY <1>1, <1>3, <1>4, <1>5, <1>6, <1>7, <1>8, <1>9, <1>10 DEF TypeOK

(* Staging. *)
LEMMA AssignType ==
  ASSUME TypeOK, NEW i \in DOMAIN request
  PROVE  /\ FolderId(assigner, request[i]) \in Nat
         /\ Assign(assigner, request[i]) \in
              [current : Nat, next : Nat \ {0}, progress : [files : Nat, bytes : Nat]]
<1>1. PICK r \in Entry : r = request[i] /\ r.size \in Nat /\ r.folder \in Nat
  BY RequestTypes
<1>2. PICK c \in Nat, n \in Nat \ {0}, p \in [files : Nat, bytes : Nat] :
        assigner = [current |-> c, next |-> n, progress |-> p]
  BY DEF TypeOK
<1>3. FolderId(assigner, r) \in Nat
  BY <1>1, <1>2 DEF FolderId
<1>4. Record(IF NeedsNew(assigner, r) THEN NoProgress ELSE assigner.progress, r.size)
        \in [files : Nat, bytes : Nat]
  <2>1. (IF NeedsNew(assigner, r) THEN NoProgress ELSE assigner.progress) \in [files : Nat, bytes : Nat]
    BY <1>2 DEF NoProgress
  <2>2. \A q \in [files : Nat, bytes : Nat] : Record(q, r.size) \in [files : Nat, bytes : Nat]
    BY <1>1 DEF Record
  <2> QED
    BY <2>1, <2>2
<1>5. (IF NeedsNew(assigner, r) THEN assigner.next + 1 ELSE assigner.next) \in Nat \ {0}
  BY <1>2
<1>6. Assigned(assigner, r) \in
        [current : Nat, next : Nat \ {0}, progress : [files : Nat, bytes : Nat]]
  BY <1>3, <1>4, <1>5 DEF Assigned
<1>7. [assigner EXCEPT !.current = 0] \in
        [current : Nat, next : Nat \ {0}, progress : [files : Nat, bytes : Nat]]
  BY <1>2
<1> QED
  BY <1>1, <1>2, <1>3, <1>6, <1>7 DEF Assign, TypeOK

(***************************************************************************)
(* Copied folders and their entries.                                       *)
(***************************************************************************)
LEMMA CopiedMembers ==
  ASSUME TypeOK, RawInv, IdsInv, OrderInv, pc = "folders", Len(completed) < Len(order),
         CurrentId \in raws
  PROVE  /\ Len(completed) + 1 \in DOMAIN order
         /\ CurrentId \in 1 .. Len(src.folders)
         /\ Members(CurrentId) = RawEntries(CurrentId) /\ RawEntries(CurrentId) # {}
         /\ FolderMatches(CurrentId)
         /\ \A i \in Members(CurrentId) :
              /\ i \in DOMAIN request
              /\ request[i].kind = "raw" /\ request[i].entry \in DOMAIN src.entries
              /\ src.entries[request[i].entry].block = CurrentId
              /\ src.entries[request[i].entry].size = request[i].size
<1>1. PICK id \in Nat : id = CurrentId /\ id \in raws
  BY DEF TypeOK
<1>2. Len(completed) + 1 \in DOMAIN order /\ id = order[Len(completed) + 1]
  BY <1>1, RequestTypes DEF CurrentId
<1>3. DOMAIN ids = DOMAIN request
  BY RequestTypes DEF IdsInv, Staged
<1>4. ASSUME NEW i \in DOMAIN request, ids[i] = id
      PROVE  request[i].kind = "raw" /\ request[i].folder = id
  <2>1. id # 0
    BY <1>2 DEF OrderInv
  <2>2. request[i].kind # "none"
    BY <1>3, <1>4, <2>1 DEF IdsInv
  <2>3. IsNew(i) => id < ids[i]
    BY <1>1, <1>3 DEF IdsInv
  <2>4. ~IsNew(i)
    BY <1>4, <2>3
  <2>5. request[i].kind = "raw"
    BY <2>2, <2>4, RequestTypes DEF IsNew
  <2> QED
    BY <1>3, <1>4, <2>5 DEF IdsInv
<1>5. ASSUME NEW i \in DOMAIN request, request[i].kind = "raw", request[i].folder = id
      PROVE  ids[i] = id
  BY <1>3, <1>5 DEF IdsInv
<1>6. Members(id) = RawEntries(id)
  BY <1>4, <1>5 DEF Members, RawEntries
<1>7. PICK i \in DOMAIN request : ids[i] = id
  BY <1>2, <1>3 DEF OrderInv
<1>8. i \in RawEntries(id)
  BY <1>4, <1>7 DEF RawEntries
<1>9. \A k \in RawEntries(id) :
        /\ k \in DOMAIN request
        /\ request[k].kind = "raw" /\ request[k].entry \in DOMAIN src.entries /\ id # 0
        /\ src.entries[request[k].entry].block = id
        /\ src.entries[request[k].entry].size = request[k].size
        /\ FolderMatches(id)
  BY DEF RawInv, Accepted, RawEntries
<1>10. id \in 1 .. Len(src.folders)
  BY <1>8, <1>9, DataTypes
<1> QED
  BY <1>1, <1>2, <1>6, <1>8, <1>9, <1>10

LEMMA MembersType ==
  ASSUME TypeOK, NEW id
  PROVE  Members(id) \in SUBSET (1 .. Len(request)) /\ Len(request) \in Nat
BY RequestTypes DEF Members

(* The folder that WriteRaw writes. *)
LEMMA CopiedFolderType ==
  ASSUME TypeOK, RawInv, IdsInv, OrderInv, pc = "folders", Len(completed) < Len(order),
         CurrentId \in raws, NEW members \in Sorted(Members(CurrentId)),
         NEW g, g = [files |-> [j \in DOMAIN members |->
                        FolderFile(members[j], src.entries[request[members[j]].entry].first,
                                   request[members[j]].size)],
                     unpack |-> Len(src.folders[CurrentId]), payload |-> src.folders[CurrentId]]
  PROVE  /\ g \in FolderRecord /\ Len(g.files) = Len(members)
         /\ g.unpack = Len(src.folders[CurrentId]) /\ g.payload = src.folders[CurrentId]
         /\ \A j \in DOMAIN members :
              /\ g.files[j].entry = members[j]
              /\ g.files[j].first = src.entries[request[members[j]].entry].first
              /\ g.files[j].size = request[members[j]].size
<1>1. /\ members \in Seq(Members(CurrentId)) /\ DOMAIN members = 1 .. Len(members)
      /\ Len(members) \in Nat /\ \A j \in DOMAIN members : members[j] \in Members(CurrentId)
  BY MembersType, SortedType
<1>2. \A j \in DOMAIN members :
        FolderFile(members[j], src.entries[request[members[j]].entry].first,
                   request[members[j]].size) \in [entry : Nat, first : Nat, size : Nat]
  <2> SUFFICES ASSUME NEW j \in DOMAIN members
               PROVE  FolderFile(members[j], src.entries[request[members[j]].entry].first,
                                 request[members[j]].size) \in [entry : Nat, first : Nat, size : Nat]
    OBVIOUS
  <2>1. /\ members[j] \in DOMAIN request /\ request[members[j]].entry \in DOMAIN src.entries
    BY <1>1, CopiedMembers
  <2>2. /\ members[j] \in Nat /\ src.entries[request[members[j]].entry].first \in Nat
        /\ request[members[j]].size \in Nat
    BY <2>1, RequestTypes, SourceTypes
  <2> QED
    BY <2>2 DEF FolderFile
<1>3. PICK fs : fs = [j \in 1 .. Len(members) |->
                        FolderFile(members[j], src.entries[request[members[j]].entry].first,
                                   request[members[j]].size)]
  OBVIOUS
<1>4. fs \in [1 .. Len(members) -> [entry : Nat, first : Nat, size : Nat]]
  BY <1>1, <1>2, <1>3
<1>5. fs \in Seq([entry : Nat, first : Nat, size : Nat]) /\ Len(fs) = Len(members)
  BY <1>1, <1>4, SeqOf
<1>6. src.folders[CurrentId] \in Seq(Chunk) /\ Len(src.folders[CurrentId]) \in Nat
  BY CopiedMembers, SourceTypes
<1>7. PICK bytes \in Seq(Chunk), n \in Nat : bytes = src.folders[CurrentId] /\ n = Len(bytes)
  BY <1>6
<1>8. g = [files |-> fs, unpack |-> n, payload |-> bytes]
  BY <1>1, <1>3, <1>7
<1>9. g \in FolderRecord
  BY <1>5, <1>7, <1>8, FolderRecordType
<1>10. g.files = fs
  BY <1>8
<1>11. g.unpack = Len(src.folders[CurrentId]) /\ g.payload = src.folders[CurrentId]
  OBVIOUS
<1>12. \A i, first, size : LET file == FolderFile(i, first, size)
                          IN file.entry = i /\ file.first = first /\ file.size = size
  BY DEF FolderFile
<1>13. \A j \in DOMAIN members :
         /\ fs[j].entry = members[j]
         /\ fs[j].first = src.entries[request[members[j]].entry].first
         /\ fs[j].size = request[members[j]].size
  BY <1>1, <1>3, <1>12
<1> QED
  BY <1>5, <1>9, <1>10, <1>11, <1>13

(* Every variable keeps its type. *)
LEMMA TypeStep ==
  TypeOK /\ PhaseInv /\ RawInv /\ IdsInv /\ OrderInv /\ WriteInv /\ EncodeInv /\ [Next]_vars
    => TypeOK'
<1> SUFFICES ASSUME TypeOK, PhaseInv, RawInv, IdsInv, OrderInv, WriteInv, EncodeInv, [Next]_vars
             PROVE  TypeOK'
  OBVIOUS
<1> USE DEF inputs, world, scan, plan, stage, output
<1>1. CASE ScanOperand
  <2>1. operands \in Seq(0 .. Paths) /\ operands # <<>>
    BY <1>1 DEF ScanOperand, TypeOK
  <2>2. Tail(operands) \in Seq(0 .. Paths) /\ Head(operands) \in 0 .. Paths
    BY <2>1, HeadTail
  <2>3. PICK p \in 0 .. Paths : p = Head(operands)
    BY <2>2
  <2>4. paths \in Seq(1 .. Paths) /\ warnings \in Nat
    BY DEF TypeOK
  <2>5. ASSUME NEW found \in Sorted({q \in TopLevel : Exists(q)})
        PROVE  paths \o found \in Seq(1 .. Paths)
    <3>1. {q \in TopLevel : Exists(q)} \in SUBSET (1 .. Paths)
      BY DEF TopLevel
    <3>2. found \in Seq(1 .. Paths)
      BY <3>1, SortedType, UpdateAssumption
    <3> QED
      BY <2>4, <3>2
  <2>6. ASSUME p # Glob PROVE Append(paths, p) \in Seq(1 .. Paths)
    <3>1. p \in 1 .. Paths
      BY <2>6 DEF Glob
    <3> QED
      BY <2>4, <3>1
  <2>7. paths' \in Seq(1 .. Paths) /\ warnings' \in Nat
    <3>1. \/ /\ \E found \in Sorted({q \in TopLevel : Exists(q)}) : paths' = paths \o found
             /\ warnings' = warnings
          \/ p # Glob /\ paths' = Append(paths, p) /\ warnings' = warnings
          \/ paths' = paths /\ warnings' = warnings + 1
      BY <1>1, <2>3 DEF ScanOperand
    <3>2. warnings' \in Nat
      BY <2>4, <3>1
    <3>3. paths' \in Seq(1 .. Paths)
      BY <2>4, <2>5, <2>6, <3>1
    <3> QED
      BY <3>2, <3>3
  <2>8. operands' \in Seq(0 .. Paths)
    BY <1>1, <2>2 DEF ScanOperand
  <2> QED
    BY <1>1, <2>7, <2>8 DEF ScanOperand, TypeOK
<1>2. CASE ScanEnds
  BY <1>2 DEF ScanEnds, TypeOK
<1>3. CASE CollectPath
  <2>1. paths \in Seq(1 .. Paths) /\ paths # <<>>
    BY <1>3 DEF CollectPath, TypeOK
  <2>2. Tail(paths) \in Seq(1 .. Paths) /\ Head(paths) \in 1 .. Paths
    BY <2>1, HeadTail
  <2>3. PICK p \in 1 .. Paths : p = Head(paths)
    BY <2>2
  <2>4. pending' = pending \o Collected(p)
    BY <1>3, <2>3 DEF CollectPath
  <2>5. PICK children : children = IF disk[p].kind = "dir" THEN {q \in Kids[p] : Exists(q)} ELSE {}
    OBVIOUS
  <2>6. PICK found \in Sorted(children) : paths' = found \o Tail(paths)
    BY <1>3, <2>3, <2>5 DEF CollectPath
  <2>7. children \in SUBSET (1 .. Paths)
    BY <2>5, UpdateAssumption
  <2>8. found \in Seq(1 .. Paths)
    BY <2>6, <2>7, SortedType, UpdateAssumption
  <2>9. paths' \in Seq(1 .. Paths)
    BY <2>2, <2>6, <2>8
  <2>10. Collected(p) \in Seq(Entry) /\ pending \in Seq(Entry)
    BY CollectedType DEF TypeOK
  <2>11. /\ pending' \in Seq(Entry) /\ DOMAIN pending' = 1 .. Len(pending) + Len(Collected(p))
         /\ DOMAIN pending = 1 .. Len(pending) /\ Len(pending) \in Nat
         /\ DOMAIN Collected(p) = 1 .. Len(Collected(p)) /\ Len(Collected(p)) \in Nat
         /\ \A i \in 1 .. Len(pending) : pending'[i] = pending[i]
         /\ \A i \in 1 .. Len(Collected(p)) : pending'[Len(pending) + i] = Collected(p)[i]
    BY <2>4, <2>10, ConcatAt
  <2>12. ASSUME NEW i \in DOMAIN pending'
         PROVE  EntryOK(pending'[i]) /\ pending'[i].kind # "raw" /\ pending'[i].of = 0
    <3>1. CASE i \in 1 .. Len(pending)
      BY <2>11, <3>1 DEF TypeOK
    <3>2. CASE i \notin 1 .. Len(pending)
      <4>1. PICK k \in 1 .. Len(Collected(p)) : i = Len(pending) + k
        <5>1. i - Len(pending) \in 1 .. Len(Collected(p)) /\ i = Len(pending) + (i - Len(pending))
          BY <2>11, <2>12, <3>2
        <5> QED
          BY <5>1
      <4> QED
        BY <2>11, <4>1, CollectedType
    <3> QED
      BY <3>1, <3>2
  <2> QED
    BY <1>3, <2>9, <2>11, <2>12 DEF CollectPath, TypeOK
<1>4. CASE CollectEnds
  <2>1. request' = request \/ request' = pending
    BY <1>4 DEF CollectEnds
  <2>2. request' \in Seq(Entry) /\ \A i \in DOMAIN request' : EntryOK(request'[i])
    BY <2>1 DEF TypeOK
  <2> QED
    BY <1>4, <2>2 DEF CollectEnds, TypeOK
<1>5. CASE PlanFolders
  <2>1. raws' \in SUBSET Nat
    BY <1>5, SourceTypes DEF PlanFolders
  <2> QED
    BY <1>5, <2>1 DEF PlanFolders, TypeOK
<1>6. CASE RetainEntry
  <2>1. cursor' \in Nat \ {0} /\ cursor \in 1 .. Len(src.entries)
    BY <1>6, SourceTypes DEF RetainEntry, TypeOK
  <2>2. cursor \in DOMAIN src.entries
    BY <2>1, SourceTypes
  <2>3. request' = request \/ (~Dropped(cursor) /\ request' = Append(request, Preserved(cursor)))
    BY <1>6, Actions DEF RetainEntry
  <2>4. ASSUME ~Dropped(cursor), request' = Append(request, Preserved(cursor))
        PROVE  request' \in Seq(Entry) /\ \A i \in DOMAIN request' : EntryOK(request'[i])
    <3>1. PICK r \in Entry : r = Preserved(cursor) /\ EntryOK(r)
      BY <2>2, <2>4, PreservedType
    <3>2. request \in Seq(Entry) /\ \A i \in DOMAIN request : EntryOK(request[i])
      BY DEF TypeOK
    <3> QED
      BY <2>4, <3>1, <3>2, AppendAt
  <2>5. request' \in Seq(Entry) /\ \A i \in DOMAIN request' : EntryOK(request'[i])
    BY <2>3, <2>4 DEF TypeOK
  <2> QED
    BY <1>6, <2>1, <2>5 DEF RetainEntry, TypeOK
<1>7. CASE AppendPending
  <2>1. /\ request \in Seq(Entry) /\ \A i \in DOMAIN request : EntryOK(request[i])
        /\ pending \in Seq(Entry) /\ \A i \in DOMAIN pending : EntryOK(pending[i])
        /\ request' = request \o pending
    BY <1>7 DEF AppendPending, TypeOK
  <2>2. /\ request' \in Seq(Entry) /\ DOMAIN request' = 1 .. Len(request) + Len(pending)
        /\ DOMAIN pending = 1 .. Len(pending) /\ Len(pending) \in Nat
        /\ DOMAIN request = 1 .. Len(request) /\ Len(request) \in Nat
        /\ \A i \in 1 .. Len(request) : request'[i] = request[i]
        /\ \A i \in 1 .. Len(pending) : request'[Len(request) + i] = pending[i]
    BY <2>1, ConcatAt
  <2>3. ASSUME NEW i \in DOMAIN request' PROVE EntryOK(request'[i])
    <3>1. CASE i \in 1 .. Len(request)
      BY <2>1, <2>2, <3>1
    <3>2. CASE i \notin 1 .. Len(request)
      <4>1. i - Len(request) \in 1 .. Len(pending) /\ i = Len(request) + (i - Len(request))
        BY <2>2, <2>3, <3>2
      <4>2. PICK k \in 1 .. Len(pending) : i = Len(request) + k
        BY <4>1
      <4> QED
        BY <2>1, <2>2, <4>2
    <3> QED
      BY <3>1, <3>2
  <2> QED
    BY <1>7, <2>2, <2>3 DEF AppendPending, TypeOK
<1>8. CASE Validate
  BY <1>8 DEF Validate, TypeOK
<1>9. CASE Stage
  <2>1. PICK top \in raws \cup {1} : assigner' = [NoAssigner EXCEPT !.next = top + 1]
    BY <1>9 DEF Stage
  <2>2. top + 1 \in Nat \ {0}
    BY DEF TypeOK
  <2>3. assigner' = [current |-> 0, next |-> top + 1, progress |-> [files |-> 0, bytes |-> 0]]
    BY <2>1 DEF NoAssigner, NoProgress
  <2>4. assigner' \in [current : Nat, next : Nat \ {0}, progress : [files : Nat, bytes : Nat]]
    BY <2>2, <2>3
  <2> QED
    BY <1>9, <2>4 DEF Stage, TypeOK
<1>10. CASE StageEntry
  <2>1. PICK k \in DOMAIN request : k = Len(ids) + 1
    BY <1>10, RequestTypes DEF StageEntry
  <2>2. PICK id \in Nat : id = FolderId(assigner, request[k])
    BY AssignType
  <2>3. /\ ids' = Append(ids, id) /\ order' \in {order, Append(order, id)}
        /\ assigner' = Assign(assigner, request[k])
    BY <1>10, <2>1, <2>2 DEF StageEntry
  <2>4. ids' \in Seq(Nat) /\ order' \in Seq(Nat)
    <3>1. ids \in Seq(Nat) /\ order \in Seq(Nat)
      BY DEF TypeOK
    <3>2. Append(ids, id) \in Seq(Nat)
      BY <3>1, AppendAt
    <3>3. Append(order, id) \in Seq(Nat)
      BY <3>1, AppendAt
    <3> QED
      BY <2>3, <3>1, <3>2, <3>3
  <2>5. assigner' \in [current : Nat, next : Nat \ {0}, progress : [files : Nat, bytes : Nat]]
    BY <2>3, AssignType
  <2> QED
    BY <1>10, <2>4, <2>5 DEF StageEntry, TypeOK
<1>11. CASE StageEnds
  BY <1>11 DEF StageEnds, TypeOK
<1>12. CASE Begin
  <2>1. seen' = [i \in 1 .. Len(request) |-> request[i].data]
    BY <1>12, RequestTypes DEF Begin
  <2>2. seen' \in [1 .. Len(request) -> Seq(Chunk)]
    BY <2>1, RequestTypes
  <2>3. seen' \in Seq(Seq(Chunk))
    BY <2>2, RequestTypes, SeqOf
  <2> QED
    BY <1>12, <2>3 DEF Begin, TypeOK
<1>13. CASE WriteRaw
  <2>1. pc = "folders" /\ Len(completed) < Len(order) /\ CurrentId \in raws
    BY <1>13 DEF WriteRaw
  <2>2. PICK members \in Sorted(Members(CurrentId)) : completed' = Append(completed,
         [files |-> [j \in DOMAIN members |->
             FolderFile(members[j], src.entries[request[members[j]].entry].first,
                        request[members[j]].size)],
          unpack |-> Len(src.folders[CurrentId]), payload |-> src.folders[CurrentId]])
    BY <1>13 DEF WriteRaw
  <2>3. PICK g : g = [files |-> [j \in DOMAIN members |->
                        FolderFile(members[j], src.entries[request[members[j]].entry].first,
                                   request[members[j]].size)],
                     unpack |-> Len(src.folders[CurrentId]), payload |-> src.folders[CurrentId]]
    OBVIOUS
  <2>4. g \in FolderRecord
    BY <2>1, <2>3, CopiedFolderType
  <2>5. completed' = Append(completed, g)
    BY <2>2, <2>3
  <2>6. completed' \in Seq(FolderRecord)
    BY <2>4, <2>5 DEF TypeOK
  <2>7. raws' \in SUBSET Nat
    BY <1>13 DEF WriteRaw, TypeOK
  <2> QED
    BY <1>13, <2>6, <2>7 DEF WriteRaw, TypeOK
<1>14. CASE OpenEncoded
  <2>1. files' \in SUBSET Nat
    BY <1>14, MembersType DEF OpenEncoded
  <2>2. folder' \in FolderRecord
    BY <1>14, NoFolderType DEF OpenEncoded
  <2> QED
    BY <1>14, <2>1, <2>2 DEF OpenEncoded, TypeOK
<1>15. ASSUME pc = "encode", NEW i \in files
       PROVE  /\ i \in DOMAIN request /\ i \in DOMAIN seen /\ seen[i] \in Seq(Chunk)
              /\ seen \in Seq(Seq(Chunk))
  <2>1. seen \in Seq(Seq(Chunk)) /\ Len(seen) = Len(request)
    BY <1>15 DEF TypeOK, WriteInv, Writing
  <2>2. i \in 1 .. Len(request)
    BY <1>15, MembersType DEF EncodeInv
  <2> QED
    BY <2>1, <2>2, RequestTypes, SeqAt
<1>16. CASE ReadChunk
  <2>1. PICK i \in files :
          /\ request[i].kind = "path"
          /\ seen' = [seen EXCEPT ![i] = Append(@, <<request[i].path, disk[request[i].path].version>>)]
    BY <1>16 DEF ReadChunk
  <2>2. i \in DOMAIN request /\ i \in DOMAIN seen /\ seen[i] \in Seq(Chunk) /\ seen \in Seq(Seq(Chunk))
    BY <1>15, <1>16 DEF ReadChunk
  <2>3. request[i].path \in 1 .. Paths
    BY <2>1, <2>2 DEF TypeOK, EntryOK
  <2>4. PICK c \in Chunk : c = <<request[i].path, disk[request[i].path].version>>
    BY <2>3, FileTypes
  <2>5. PICK s \in Seq(Chunk) : s = Append(seen[i], c)
    BY <2>2, <2>4, AppendAt
  <2>6. seen' = [seen EXCEPT ![i] = s]
    BY <2>1, <2>2, <2>4, <2>5
  <2>7. seen' \in Seq(Seq(Chunk))
    BY <2>2, <2>6
  <2> QED
    BY <1>16, <2>7 DEF ReadChunk, TypeOK
<1>17. CASE RecordStream
  <2>1. PICK i \in files :
          /\ folder' = [files |-> Append(folder.files, FolderFile(i, folder.unpack, Len(seen[i]))),
                        unpack |-> folder.unpack + Len(seen[i]),
                        payload |-> folder.payload \o seen[i]]
          /\ files' = files \ {i}
    BY <1>17 DEF RecordStream
  <2>2. i \in Nat /\ seen[i] \in Seq(Chunk) /\ Len(seen[i]) \in Nat
    <3>1. i \in DOMAIN request /\ seen[i] \in Seq(Chunk)
      BY <1>15, <1>17 DEF RecordStream
    <3> QED
      BY <3>1, RequestTypes
  <2>3. /\ folder.files \in Seq([entry : Nat, first : Nat, size : Nat]) /\ folder.unpack \in Nat
        /\ folder.payload \in Seq(Chunk)
    BY FolderTypes DEF TypeOK
  <2>4. FolderFile(i, folder.unpack, Len(seen[i])) \in [entry : Nat, first : Nat, size : Nat]
    BY <2>2, <2>3 DEF FolderFile
  <2>5. Append(folder.files, FolderFile(i, folder.unpack, Len(seen[i])))
          \in Seq([entry : Nat, first : Nat, size : Nat])
    BY <2>3, <2>4, AppendAt
  <2>6. folder.unpack + Len(seen[i]) \in Nat /\ folder.payload \o seen[i] \in Seq(Chunk)
    BY <2>2, <2>3
  <2>7. folder' \in FolderRecord
    BY <2>1, <2>5, <2>6, FolderRecordType
  <2>8. files' \in SUBSET Nat
    BY <2>1 DEF TypeOK
  <2> QED
    BY <1>17, <2>7, <2>8 DEF RecordStream, TypeOK
<1>18. CASE CompleteFolder
  <2>1. completed' \in Seq(FolderRecord)
    BY <1>18 DEF CompleteFolder, TypeOK
  <2> QED
    BY <1>18, <2>1 DEF CompleteFolder, TypeOK
<1>19. CASE Finish
  BY <1>19 DEF Finish, TypeOK
<1>20. CASE Read
  BY <1>20 DEF Read, TypeOK
<1>21. CASE Fail
  BY <1>21 DEF Fail, TypeOK
<1>22. ASSUME NEW p \in 1 .. Paths, Change(p) PROVE TypeOK'
  <2>1. PICK file \in {d[p] : d \in Disks} :
          disk' = [disk EXCEPT ![p] = [file EXCEPT !.version = changes + 1]]
    BY <1>22 DEF Change
  <2>2. file \in File
    BY UpdateAssumption
  <2>3. PICK new : new = [file EXCEPT !.version = changes + 1]
    OBVIOUS
  <2>4. changes + 1 \in Nat
    BY DEF TypeOK
  <2>5. new \in File
    BY <2>2, <2>3, <2>4 DEF File
  <2>6. disk' \in [1 .. Paths -> File]
    BY <2>1, <2>3, <2>5 DEF TypeOK
  <2> QED
    BY <1>22, <2>4, <2>6 DEF Change, TypeOK
<1>23. CASE UNCHANGED vars
  BY <1>23 DEF vars, TypeOK
<1> QED
  BY <1>1, <1>2, <1>3, <1>4, <1>5, <1>6, <1>7, <1>8, <1>9, <1>10, <1>11, <1>12, <1>13, <1>14, <1>16,
     <1>17, <1>18, <1>19, <1>20, <1>21, <1>22, <1>23 DEF Next, Step

(***************************************************************************)
(* The phases of a rewrite.                                                *)
(***************************************************************************)
LEMMA InitPhase == Init => PhaseInv
<1> SUFFICES ASSUME Init PROVE PhaseInv
  OBVIOUS
<1>1. job.cmd \in {"create", "update", "delete", "library"}
  BY JobTypes DEF Init
<1> QED
  BY <1>1 DEF Init, PhaseInv, ReadsDisk

LEMMA PhaseStep == TypeOK /\ PhaseInv /\ [Next]_vars => PhaseInv'
<1> SUFFICES ASSUME TypeOK, PhaseInv, [Next]_vars PROVE PhaseInv'
  OBVIOUS
<1>0. job.cmd \in {"create", "update", "delete", "library"}
  BY JobTypes DEF TypeOK
<1> USE DEF inputs, world, scan, plan, stage, output, PhaseInv, ReadsDisk
<1>1. CASE ScanOperand
  BY <1>1 DEF ScanOperand
<1>2. CASE ScanEnds
  BY <1>2 DEF ScanEnds
<1>3. CASE CollectPath
  BY <1>3 DEF CollectPath
<1>4. CASE CollectEnds
  BY <1>0, <1>4 DEF CollectEnds
<1>5. CASE PlanFolders
  BY <1>5 DEF PlanFolders
<1>6. CASE RetainEntry
  BY <1>6 DEF RetainEntry
<1>7. CASE AppendPending
  BY <1>7 DEF AppendPending
<1>8. CASE Validate
  BY <1>8 DEF Validate, Reject
<1>9. CASE Stage
  BY <1>9 DEF Stage
<1>10. CASE StageEntry
  BY <1>10 DEF StageEntry
<1>11. CASE StageEnds
  BY <1>11 DEF StageEnds, Reject
<1>12. CASE Begin
  BY <1>12 DEF Begin
<1>13. CASE WriteRaw
  BY <1>13 DEF WriteRaw
<1>14. CASE OpenEncoded
  BY <1>14 DEF OpenEncoded
<1>15. CASE ReadChunk
  BY <1>15 DEF ReadChunk
<1>16. CASE RecordStream
  BY <1>16 DEF RecordStream
<1>17. CASE CompleteFolder
  BY <1>17 DEF CompleteFolder
<1>18. CASE Finish
  BY <1>18 DEF Finish
<1>19. CASE Read
  BY <1>19 DEF Read
<1>20. CASE Fail
  BY <1>20 DEF Fail
<1>21. ASSUME NEW p \in 1 .. Paths, Change(p) PROVE PhaseInv'
  BY <1>21 DEF Change
<1>22. CASE UNCHANGED vars
  BY <1>22 DEF vars
<1> QED
  BY <1>1, <1>2, <1>3, <1>4, <1>5, <1>6, <1>7, <1>8, <1>9, <1>10, <1>11, <1>12, <1>13, <1>14, <1>15,
     <1>16, <1>17, <1>18, <1>19, <1>20, <1>21, <1>22 DEF Next, Step

(***************************************************************************)
(* The plan of a command.                                                  *)
(***************************************************************************)
LEMMA PlanKept ==
  ASSUME UNCHANGED <<src, job, pending>>
  PROVE  /\ \A e : Dropped(e)' <=> Dropped(e)
         /\ \A e : RetainedAction(e)' = RetainedAction(e)
         /\ \A e : Bytes(e)' = Bytes(e)
         /\ \A e : Preserved(e)' = Preserved(e)
         /\ CopiedFolders' = CopiedFolders
<1>1. \A e : Dropped(e)' <=> Dropped(e)
  BY DEF Dropped
<1>2. \A f : FolderEntries(f)' = FolderEntries(f)
  BY DEF FolderEntries
<1>3. \A e : RetainedAction(e)' = RetainedAction(e)
  BY <1>1, <1>2 DEF RetainedAction
<1>4. \A e : Bytes(e)' = Bytes(e)
  BY DEF Bytes
<1>5. \A e : Preserved(e)' = Preserved(e)
  BY <1>3, <1>4 DEF Preserved
<1>6. CopiedFolders' = CopiedFolders
  BY <1>3 DEF CopiedFolders
<1> QED
  BY <1>1, <1>3, <1>4, <1>5, <1>6

LEMMA KeptKept ==
  ASSUME UNCHANGED <<src, job, pending, cursor, request>>
  PROVE  \A n : Kept(n)' <=> Kept(n)
BY PlanKept DEF Kept

LEMMA InitPlan == Init => PlanInv
BY DEF Init, PlanInv, ReadsDisk, Accepted

(* One more entry of the listing. *)
LEMMA RetainStep ==
  ASSUME TypeOK, PhaseInv, PlanInv, RetainEntry
  PROVE  PlanInv'
<1> USE DEF inputs, world, scan, stage, output
<1>1. /\ pc = "retain" /\ pc' = "retain" /\ cursor <= Len(src.entries) /\ cursor' = cursor + 1
      /\ UNCHANGED <<src, job, pending, raws, out>>
  BY DEF RetainEntry
<1>2. PICK c \in DOMAIN src.entries : c = cursor /\ c \in Nat \ {0}
  BY <1>1, SourceTypes, SMTT(30) DEF TypeOK
<1>3. PICK m \in Nat : m = Len(request) /\ DOMAIN request = 1 .. m
  BY RequestTypes
<1>4. /\ \A i \in 1 .. m : /\ request[i].of \in 1 .. c - 1 /\ ~Dropped(request[i].of)
                           /\ request[i] = Preserved(request[i].of)
      /\ \A i, j \in 1 .. m : i < j => request[i].of < request[j].of
      /\ \A e \in 1 .. c - 1 : ~Dropped(e) => \E i \in 1 .. m : request[i].of = e
  BY <1>1, <1>2, <1>3 DEF PlanInv, Kept
<1>5. /\ \A e : Dropped(e)' <=> Dropped(e)
      /\ \A e : Preserved(e)' = Preserved(e)
      /\ CopiedFolders' = CopiedFolders
  BY <1>1, PlanKept
<1>6. cursor' - 1 = c /\ cursor' <= Len(src.entries) + 1
  BY <1>1, <1>2, SourceTypes
<1>7. ASSUME Dropped(c) PROVE Kept(Len(request))' /\ request' = request
  <2>1. request' = request
    BY <1>2, <1>7, Actions DEF RetainEntry
  <2>2. \A e \in 1 .. c : ~Dropped(e) => e \in 1 .. c - 1
    BY <1>2, <1>7
  <2>3. \A i \in 1 .. m : request[i].of \in 1 .. c
    BY <1>2, <1>4
  <2> QED
    BY <1>3, <1>4, <1>5, <1>6, <2>1, <2>2, <2>3 DEF Kept
<1>8. ASSUME ~Dropped(c) PROVE Kept(Len(request))'
  <2>1. PICK r \in Entry : r = Preserved(c) /\ r.of = c
    BY <1>8, PreservedType
  <2>2. request' = Append(request, r)
    BY <1>2, <1>8, <2>1, Actions DEF RetainEntry
  <2>3. request \in Seq(Entry)
    BY DEF TypeOK
  <2>4. Len(request') = m + 1 /\ request'[m + 1] = r /\ \A i \in 1 .. m : request'[i] = request[i]
    BY <1>3, <2>2, <2>3, AppendAt
  <2>5. ASSUME NEW i \in 1 .. m + 1
        PROVE  request'[i].of \in 1 .. c /\ ~Dropped(request'[i].of)
               /\ request'[i] = Preserved(request'[i].of)
    <3>1. CASE i \in 1 .. m
      BY <1>2, <1>4, <2>4, <3>1
    <3>2. CASE i = m + 1
      BY <1>2, <1>8, <2>1, <2>4, <3>2
    <3> QED
      BY <1>3, <3>1, <3>2
  <2>6. ASSUME NEW i \in 1 .. m + 1, NEW j \in 1 .. m + 1, i < j
        PROVE  request'[i].of < request'[j].of
    <3>1. i \in 1 .. m
      BY <1>3, <2>6
    <3>2. CASE j \in 1 .. m
      BY <1>4, <2>4, <2>6, <3>1, <3>2
    <3>3. CASE j = m + 1
      BY <1>2, <1>4, <2>1, <2>4, <3>1, <3>3
    <3> QED
      BY <1>3, <3>2, <3>3
  <2>7. ASSUME NEW e \in 1 .. c, ~Dropped(e)
        PROVE  \E i \in 1 .. m + 1 : request'[i].of = e
    <3>1. CASE e = c
      BY <1>3, <2>1, <2>4, <3>1
    <3>2. CASE e # c
      <4>1. e \in 1 .. c - 1
        BY <1>2, <3>2
      <4>2. PICK i \in 1 .. m : request[i].of = e
        BY <1>4, <2>7, <4>1
      <4> QED
        BY <1>3, <2>4, <4>2
    <3> QED
      BY <3>1, <3>2
  <2> QED
    BY <1>5, <1>6, <2>4, <2>5, <2>6, <2>7 DEF Kept
<1>9. Kept(Len(request))'
  BY <1>7, <1>8
<1> QED
  BY <1>1, <1>5, <1>6, <1>9 DEF PlanInv, Accepted, PhaseInv

LEMMA PlanStep == TypeOK /\ PhaseInv /\ PlanInv /\ [Next]_vars => PlanInv'
<1> SUFFICES ASSUME TypeOK, PhaseInv, PlanInv, [Next]_vars PROVE PlanInv'
  OBVIOUS
<1> USE DEF inputs, world, scan, plan, stage, output
<1>0. ASSUME UNCHANGED <<src, job, pending, cursor, request>>,
             pc' = "retain" => pc = "retain",
             pc' = "validate" \/ Accepted' => pc = "validate" \/ Accepted,
             pc' \in {"retain", "validate", "stage", "assign"} =>
               pc \in {"retain", "validate", "stage", "assign"} /\ raws' = raws
      PROVE  PlanInv'
  <2>1. \A n : Kept(n)' <=> Kept(n)
    BY <1>0, KeptKept
  <2>2. CopiedFolders' = CopiedFolders
    BY <1>0, PlanKept
  <2>3. pc' = "retain" => cursor' <= Len(src'.entries) + 1 /\ Kept(Len(request))'
    BY <1>0, <2>1 DEF PlanInv
  <2>4. ASSUME job'.cmd \in {"update", "delete"}, pc' = "validate" \/ Accepted'
        PROVE  /\ cursor' = Len(src'.entries) + 1
               /\ \E n \in 0 .. Len(request') :
                    /\ Kept(n)' /\ Len(request') = n + Len(pending')
                    /\ \A i \in DOMAIN pending' : request'[n + i] = pending'[i]
    BY <1>0, <2>1, <2>4 DEF PlanInv
  <2>5. job'.cmd \in {"update", "delete"} /\ pc' \in {"retain", "validate", "stage", "assign"} =>
          raws' = CopiedFolders'
    BY <1>0, <2>2 DEF PlanInv
  <2> QED
    BY <2>3, <2>4, <2>5 DEF PlanInv
<1>1. CASE ScanOperand
  BY <1>1 DEF ScanOperand, PlanInv, PhaseInv, Accepted
<1>2. CASE ScanEnds
  BY <1>2 DEF ScanEnds, PlanInv, PhaseInv, Accepted
<1>3. CASE CollectPath
  BY <1>3 DEF CollectPath, PlanInv, PhaseInv, Accepted
<1>4. CASE CollectEnds
  BY <1>4 DEF CollectEnds, PlanInv, PhaseInv, Accepted
<1>5. CASE PlanFolders
  <2>1. /\ pc' = "retain" /\ cursor' = 1 /\ request' = <<>> /\ UNCHANGED <<src, job, pending, out>>
        /\ out = "untouched"
    BY <1>5 DEF PlanFolders, PhaseInv
  <2>2. raws' = CopiedFolders
    BY <1>5 DEF PlanFolders, CopiedFolders
  <2>3. CopiedFolders' = CopiedFolders
    BY <2>1, PlanKept
  <2>4. Len(request') = 0 /\ 1 .. 0 = {} /\ 1 .. 1 - 1 = {}
    BY <2>1
  <2>5. Kept(Len(request))'
    BY <2>1, <2>4 DEF Kept
  <2>6. cursor' <= Len(src'.entries) + 1
    BY <2>1, SourceTypes
  <2> QED
    BY <2>1, <2>2, <2>3, <2>5, <2>6 DEF PlanInv, Accepted
<1>6. CASE RetainEntry
  BY <1>6, RetainStep
<1>7. CASE AppendPending
  <2>1. /\ pc = "retain" /\ pc' = "validate" /\ cursor > Len(src.entries)
        /\ request' = request \o pending /\ UNCHANGED <<src, job, pending, cursor, raws>>
    BY <1>7 DEF AppendPending
  <2>2. cursor <= Len(src.entries) + 1 /\ Kept(Len(request)) /\ raws = CopiedFolders
    BY <2>1 DEF PlanInv, PhaseInv
  <2>3. cursor' = Len(src'.entries) + 1
    <3>1. cursor \in Nat
      BY DEF TypeOK
    <3>2. Len(src.entries) \in Nat
      BY SourceTypes
    <3> QED
      BY <2>1, <2>2, <3>1, <3>2
  <2>4. request \in Seq(Entry) /\ pending \in Seq(Entry)
    BY DEF TypeOK
  <2>5. PICK m \in Nat : m = Len(request)
    BY <2>4
  <2>6. /\ Len(request') = m + Len(pending) /\ Len(pending) \in Nat
        /\ DOMAIN pending = 1 .. Len(pending)
        /\ \A i \in 1 .. m : request'[i] = request[i]
        /\ \A i \in 1 .. Len(pending) : request'[m + i] = pending[i]
    BY <2>1, <2>4, <2>5, ConcatAt
  <2>7. Kept(m)'
    <3>1. /\ \A i \in 1 .. m : /\ request[i].of \in 1 .. cursor - 1 /\ ~Dropped(request[i].of)
                              /\ request[i] = Preserved(request[i].of)
          /\ \A i, j \in 1 .. m : i < j => request[i].of < request[j].of
          /\ \A e \in 1 .. cursor - 1 : ~Dropped(e) => \E i \in 1 .. m : request[i].of = e
      BY <2>2, <2>5 DEF Kept
    <3>2. /\ \A e : Dropped(e)' <=> Dropped(e)
          /\ \A e : Preserved(e)' = Preserved(e)
      BY <2>1, PlanKept
    <3>3. \A i \in 1 .. m :
            /\ request'[i].of \in 1 .. cursor' - 1 /\ ~Dropped(request'[i].of)
            /\ request'[i] = Preserved(request'[i].of)
      BY <2>1, <2>6, <3>1
    <3>4. \A i, j \in 1 .. m : i < j => request'[i].of < request'[j].of
      BY <2>6, <3>1
    <3>5. \A e \in 1 .. cursor' - 1 : ~Dropped(e) => \E i \in 1 .. m : request'[i].of = e
      BY <2>1, <2>6, <3>1
    <3> QED
      BY <3>2, <3>3, <3>4, <3>5 DEF Kept
  <2>8. raws' = CopiedFolders'
    BY <2>1, <2>2, PlanKept
  <2>9. m \in 0 .. Len(request')
    BY <2>5, <2>6
  <2>10. \E n \in 0 .. Len(request') :
           /\ Kept(n)' /\ Len(request') = n + Len(pending')
           /\ \A i \in DOMAIN pending' : request'[n + i] = pending'[i]
    BY <2>1, <2>6, <2>7, <2>9
  <2> QED
    BY <2>1, <2>3, <2>8, <2>10 DEF PlanInv
<1>8. CASE Validate
  BY <1>0, <1>8 DEF Validate, Reject, Accepted, PhaseInv
<1>9. CASE Stage
  BY <1>0, <1>9 DEF Stage, Accepted
<1>10. CASE StageEntry
  BY <1>0, <1>10 DEF StageEntry, Accepted
<1>11. CASE StageEnds
  BY <1>0, <1>11 DEF StageEnds, Reject, Accepted
<1>12. CASE Begin
  BY <1>0, <1>12 DEF Begin, Accepted
<1>13. CASE WriteRaw
  BY <1>0, <1>13 DEF WriteRaw, Accepted
<1>14. CASE OpenEncoded
  BY <1>0, <1>14 DEF OpenEncoded, Accepted
<1>15. CASE ReadChunk
  BY <1>0, <1>15 DEF ReadChunk, Accepted
<1>16. CASE RecordStream
  BY <1>0, <1>16 DEF RecordStream, Accepted
<1>17. CASE CompleteFolder
  BY <1>0, <1>17 DEF CompleteFolder, Accepted
<1>18. CASE Finish
  BY <1>0, <1>18 DEF Finish, Accepted
<1>19. CASE Read
  BY <1>0, <1>19 DEF Read, Accepted
<1>20. CASE Fail
  BY <1>0, <1>20 DEF Fail, Accepted
<1>21. ASSUME NEW p \in 1 .. Paths, Change(p) PROVE PlanInv'
  BY <1>0, <1>21 DEF Change, Accepted
<1>22. CASE UNCHANGED vars
  BY <1>0, <1>22 DEF vars, Accepted
<1> QED
  BY <1>1, <1>2, <1>3, <1>4, <1>5, <1>6, <1>7, <1>8, <1>9, <1>10, <1>11, <1>12, <1>13, <1>14, <1>15,
     <1>16, <1>17, <1>18, <1>19, <1>20, <1>21, <1>22 DEF Next, Step

(* The request of a command: what it keeps, in order, and then new entries. *)
LEMMA Planned ==
  ASSUME TypeOK, PlanInv, job.cmd \in {"update", "delete"}, pc = "validate" \/ Accepted
  PROVE  \E n \in 0 .. Len(request) :
           /\ \A i \in 1 .. n : /\ request[i].of \in DOMAIN src.entries /\ ~Dropped(request[i].of)
                                /\ request[i] = Preserved(request[i].of)
           /\ \A i, j \in 1 .. n : i < j => request[i].of < request[j].of
           /\ \A e \in DOMAIN src.entries : ~Dropped(e) => \E i \in 1 .. n : request[i].of = e
           /\ Len(request) = n + Len(pending)
           /\ \A i \in DOMAIN pending : request[n + i] = pending[i]
           /\ \A i \in DOMAIN request : i \notin 1 .. n => request[i].kind # "raw" /\ request[i].of = 0
<1>1. PICK n \in 0 .. Len(request) :
        /\ Kept(n) /\ Len(request) = n + Len(pending)
        /\ \A i \in DOMAIN pending : request[n + i] = pending[i]
  BY DEF PlanInv
<1>2. cursor = Len(src.entries) + 1 /\ Len(src.entries) \in Nat
      /\ DOMAIN src.entries = 1 .. Len(src.entries)
  BY SourceTypes DEF PlanInv
<1>3. 1 .. cursor - 1 = DOMAIN src.entries
  BY <1>2
<1>4. /\ \A i \in 1 .. n : /\ request[i].of \in DOMAIN src.entries /\ ~Dropped(request[i].of)
                           /\ request[i] = Preserved(request[i].of)
      /\ \A i, j \in 1 .. n : i < j => request[i].of < request[j].of
      /\ \A e \in DOMAIN src.entries : ~Dropped(e) => \E i \in 1 .. n : request[i].of = e
  BY <1>1, <1>3 DEF Kept
<1>5. ASSUME NEW i \in DOMAIN request, i \notin 1 .. n
      PROVE  request[i].kind # "raw" /\ request[i].of = 0
  <2>1. /\ pending \in Seq(Entry) /\ Len(pending) \in Nat /\ DOMAIN pending = 1 .. Len(pending)
        /\ \A k \in DOMAIN pending : pending[k].kind # "raw" /\ pending[k].of = 0
    BY SeqAt DEF TypeOK
  <2>2. i - n \in DOMAIN pending /\ i = n + (i - n)
    BY <1>1, <1>5, <2>1, RequestTypes
  <2>3. PICK k \in DOMAIN pending : i = n + k
    BY <2>2
  <2> QED
    BY <1>1, <2>1, <2>3
<1> QED
  BY <1>1, <1>4, <1>5

(* Entries with data are in the order of their folders. *)
LEMMA ListingOrder ==
  ASSUME TypeOK, NEW d \in DOMAIN src.entries, NEW e \in DOMAIN src.entries, d < e,
         src.entries[e].block # 0
  PROVE  src.entries[d].block <= src.entries[e].block
<1>1. \A c \in 1 .. e - 1 : src.entries[c].block <= src.entries[e].block
  BY SourceTypes DEF Listed
<1>2. PICK n \in Nat : DOMAIN src.entries = 1 .. n
  BY SourceTypes
<1>3. d \in 1 .. e - 1
  BY <1>2
<1> QED
  BY <1>1, <1>3

(* A folder that a command copies is kept whole. *)
LEMMA PlannedRaw ==
  ASSUME TypeOK, PlanInv, job.cmd \in {"update", "delete"}, pc = "validate" \/ Accepted,
         NEW i \in DOMAIN request, request[i].kind = "raw"
  PROVE  /\ request[i].entry \in DOMAIN src.entries /\ request[i].folder # 0
         /\ request[i].entry = request[i].of
         /\ RetainedAction(request[i].entry) = "CopyRaw"
         /\ src.entries[request[i].entry].block = request[i].folder
         /\ src.entries[request[i].entry].size = request[i].size
         /\ \A d \in FolderEntries(request[i].folder) : RetainedAction(d) = "CopyRaw"
<1>1. PICK n \in 0 .. Len(request) :
        /\ \A k \in 1 .. n : /\ request[k].of \in DOMAIN src.entries /\ ~Dropped(request[k].of)
                             /\ request[k] = Preserved(request[k].of)
        /\ \A k \in DOMAIN request : k \notin 1 .. n => request[k].kind # "raw" /\ request[k].of = 0
  BY Planned
<1>2. PICK e \in DOMAIN src.entries : e = request[i].of /\ ~Dropped(e) /\ request[i] = Preserved(e)
  BY <1>1
<1>3. /\ RetainedAction(e) = "CopyRaw" /\ request[i].folder = src.entries[e].block
      /\ request[i].entry = e /\ request[i].size = src.entries[e].size
  BY <1>2, PreservedType
<1>4. \A d \in FolderEntries(src.entries[e].block) : RetainedAction(d) = "CopyRaw"
  <2>1. src.entries[e].block # 0 /\ \A d \in FolderEntries(src.entries[e].block) : ~Dropped(d)
    BY <1>3, Actions
  <2>2. \A d \in FolderEntries(src.entries[e].block) : src.entries[d].block = src.entries[e].block
    BY DEF FolderEntries
  <2> QED
    BY <2>1, <2>2, Actions
<1>5. src.entries[e].block # 0
  BY <1>3, Actions
<1> QED
  BY <1>2, <1>3, <1>4, <1>5

LEMMA PlannedFolder ==
  ASSUME TypeOK, PlanInv, job.cmd \in {"update", "delete"}, pc = "validate" \/ Accepted, NEW f
  PROVE  FolderMatches(f)
<1>1. SUFFICES ASSUME RawEntries(f) # {}
               PROVE  /\ {request[i].entry : i \in RawEntries(f)} = FolderEntries(f)
                      /\ \A i, j \in RawEntries(f) : i < j => request[i].entry < request[j].entry
  BY DEF FolderMatches
<1>2. PICK n \in 0 .. Len(request) :
        /\ \A k \in 1 .. n : /\ request[k].of \in DOMAIN src.entries /\ ~Dropped(request[k].of)
                             /\ request[k] = Preserved(request[k].of)
        /\ \A k, l \in 1 .. n : k < l => request[k].of < request[l].of
        /\ \A e \in DOMAIN src.entries : ~Dropped(e) => \E k \in 1 .. n : request[k].of = e
        /\ \A k \in DOMAIN request : k \notin 1 .. n => request[k].kind # "raw" /\ request[k].of = 0
  BY Planned
<1>3. \A i \in RawEntries(f) :
        /\ i \in DOMAIN request /\ i \in 1 .. n /\ request[i].kind = "raw" /\ request[i].folder = f
        /\ request[i].entry \in DOMAIN src.entries /\ request[i].entry = request[i].of
        /\ src.entries[request[i].entry].block = f
        /\ \A d \in FolderEntries(f) : RetainedAction(d) = "CopyRaw"
  BY <1>2, PlannedRaw DEF RawEntries
<1>4. \A i \in RawEntries(f) : request[i].entry \in FolderEntries(f)
  BY <1>3 DEF FolderEntries
<1>5. ASSUME NEW d \in FolderEntries(f)
      PROVE  \E i \in RawEntries(f) : request[i].entry = d
  <2>1. RetainedAction(d) = "CopyRaw" /\ d \in DOMAIN src.entries /\ src.entries[d].block = f
    BY <1>1, <1>3, <1>5 DEF FolderEntries
  <2>2. ~Dropped(d)
    BY <2>1, Actions
  <2>3. PICK k \in 1 .. n : request[k].of = d
    BY <1>2, <2>1, <2>2
  <2>4. request[k] = Preserved(d) /\ k \in DOMAIN request
    BY <1>2, <2>3, RequestTypes
  <2>5. request[k].kind = "raw" /\ request[k].folder = f /\ request[k].entry = d
    BY <2>1, <2>2, <2>4, PreservedType
  <2> QED
    BY <2>4, <2>5 DEF RawEntries
<1>6. \A i, j \in RawEntries(f) : i < j => request[i].entry < request[j].entry
  BY <1>2, <1>3
<1> QED
  BY <1>4, <1>5, <1>6

(* Validation accepts what the commands plan. *)
LEMMA CommandsValid ==
  ASSUME TypeOK, PhaseInv, PlanInv, pc = "validate", job.cmd # "library"
  PROVE  Valid
<1>1. job.cmd \in {"update", "delete"}
  BY JobTypes DEF TypeOK, PhaseInv
<1>2. raws = {src.entries[e].block : e \in {d \in DOMAIN src.entries : RetainedAction(d) = "CopyRaw"}}
  BY <1>1 DEF PlanInv, CopiedFolders
<1>3. 0 \notin raws
  BY <1>2, Actions
<1>4. ASSUME NEW i \in DOMAIN request, request[i].kind = "raw" PROVE RawEntryValid(request[i])
  <2>1. /\ request[i].entry \in DOMAIN src.entries /\ request[i].folder # 0
        /\ RetainedAction(request[i].entry) = "CopyRaw"
        /\ src.entries[request[i].entry].block = request[i].folder
        /\ src.entries[request[i].entry].size = request[i].size
    BY <1>1, <1>4, PlannedRaw
  <2>2. request[i].folder \in raws
    BY <1>2, <2>1
  <2> QED
    BY <2>1, <2>2 DEF RawEntryValid
<1>5. \A f \in raws : FolderMatches(f)
  BY <1>1, PlannedFolder
<1> QED
  BY <1>3, <1>4, <1>5 DEF Valid

(* Between two entries of a copied folder there is no data of another one. *)
LEMMA CommandsTogether ==
  ASSUME TypeOK, PhaseInv, PlanInv, RawInv, IdsInv, pc = "assign", Len(ids) = Len(request),
         job.cmd # "library"
  PROVE  Together
<1> SUFFICES ASSUME NEW i \in DOMAIN ids, NEW j \in DOMAIN ids, i < j, ids[i] = ids[j],
                    ids[i] # 0, NEW k \in i .. j
             PROVE  ids[k] \in {0, ids[i]}
  BY DEF Together
<1>1. /\ DOMAIN ids = DOMAIN request /\ i \in DOMAIN request /\ j \in DOMAIN request
      /\ k \in DOMAIN request /\ i \in Nat /\ j \in Nat /\ k \in Nat /\ i <= k /\ k <= j
  BY RequestTypes
<1>2. request[i].kind # "none" /\ request[j].kind # "none"
  BY <1>1 DEF IdsInv
<1>3. CASE IsNew(j)
  BY <1>3 DEF IdsInv
<1>4. CASE ~IsNew(j)
  <2>1. request[j].kind = "raw"
    BY <1>1, <1>2, <1>4, RequestTypes DEF IsNew
  <2>2. ~IsNew(i)
    BY <1>1, <2>1 DEF IdsInv
  <2>3. request[i].kind = "raw"
    BY <1>1, <1>2, <2>2, RequestTypes DEF IsNew
  <2>4. /\ request[i].folder = ids[i] /\ request[j].folder = ids[i] /\ request[i].folder \in raws
    BY <1>1, <2>1, <2>3 DEF IdsInv, RawInv
  <2>5. job.cmd \in {"update", "delete"}
    <3>1. job.cmd # "create"
      BY <2>4 DEF PhaseInv
    <3> QED
      BY <3>1, JobTypes DEF TypeOK
  <2>6. PICK n \in 0 .. Len(request) :
          /\ \A m \in 1 .. n : /\ request[m].of \in DOMAIN src.entries /\ ~Dropped(request[m].of)
                               /\ request[m] = Preserved(request[m].of)
          /\ \A l, m \in 1 .. n : l < m => request[l].of < request[m].of
          /\ \A m \in DOMAIN request : m \notin 1 .. n => request[m].kind # "raw" /\ request[m].of = 0
    BY <2>5, Planned DEF Accepted
  <2>7. i \in 1 .. n /\ j \in 1 .. n
    BY <1>1, <2>1, <2>3, <2>6
  <2>8. k \in 1 .. n
    BY <1>1, <2>7
  <2>9. PICK d \in DOMAIN src.entries : d = request[k].of /\ ~Dropped(d) /\ request[k] = Preserved(d)
    BY <2>6, <2>8
  <2>10. PICK a \in DOMAIN src.entries : a = request[i].of /\ src.entries[a].block = ids[i]
    BY <1>1, <2>3, <2>4, <2>5, PlannedRaw DEF Accepted
  <2>11. PICK b \in DOMAIN src.entries : b = request[j].of /\ src.entries[b].block = ids[i]
    BY <1>1, <2>1, <2>4, <2>5, PlannedRaw DEF Accepted
  <2>12. a \in Nat /\ b \in Nat /\ d \in Nat
    BY SourceTypes
  <2>13. a <= d
    <3>1. CASE i = k
      <4>1. a = d
        BY <2>9, <2>10, <3>1
      <4> QED
        BY <2>12, <4>1
    <3>2. CASE i < k
      BY <2>6, <2>7, <2>8, <2>9, <2>10, <2>12, <3>2
    <3> QED
      BY <1>1, <3>1, <3>2
  <2>14. d <= b
    <3>1. CASE k = j
      <4>1. d = b
        BY <2>9, <2>11, <3>1
      <4> QED
        BY <2>12, <4>1
    <3>2. CASE k < j
      BY <2>6, <2>7, <2>8, <2>9, <2>11, <2>12, <3>2
    <3> QED
      BY <1>1, <3>1, <3>2
  <2>15. CASE src.entries[d].block = 0
    <3>1. request[k].kind = "none"
      BY <2>9, <2>15, PreservedType
    <3> QED
      BY <1>1, <3>1 DEF IdsInv
  <2>16. CASE src.entries[d].block # 0
    <3>1. src.entries[a].block <= src.entries[d].block
      <4>1. CASE a = d
        BY <4>1, SourceTypes
      <4>2. CASE a < d
        BY <2>16, <4>2, ListingOrder
      <4> QED
        BY <2>12, <2>13, <4>1, <4>2
    <3>2. src.entries[d].block <= src.entries[b].block
      <4>1. CASE d = b
        BY <4>1, SourceTypes
      <4>2. CASE d < b
        BY <2>11, <4>2, ListingOrder
      <4> QED
        BY <2>12, <2>14, <4>1, <4>2
    <3>3. src.entries[d].block = ids[i]
      BY <2>10, <2>11, <3>1, <3>2, SourceTypes, RequestTypes
    <3>4. d \in FolderEntries(ids[i])
      BY <3>3 DEF FolderEntries
    <3>5. RetainedAction(d) = "CopyRaw"
      BY <1>1, <2>3, <2>4, <2>5, <3>4, PlannedRaw DEF Accepted
    <3>6. request[k].kind = "raw" /\ request[k].folder = ids[i]
      BY <2>9, <3>3, <3>5, PreservedType
    <3> QED
      BY <1>1, <3>6 DEF IdsInv
  <2> QED
    BY <2>15, <2>16
<1> QED
  BY <1>3, <1>4

(***************************************************************************)
(* What validation leaves.                                                 *)
(***************************************************************************)
LEMMA RawStep ==
  TypeOK /\ PhaseInv /\ RawInv /\ [Next]_vars => RawInv'
<1> SUFFICES ASSUME TypeOK, PhaseInv, RawInv, [Next]_vars PROVE RawInv'
  OBVIOUS
<1> USE DEF inputs, world, scan, plan, stage, output
<1>0. ASSUME UNCHANGED <<src, request>>, Accepted' => Accepted,
             pc' \in {"stage", "assign", "begin"} =>
               pc \in {"stage", "assign", "begin"} /\ raws' = raws
      PROVE  RawInv'
  <2>1. \A f : FolderMatches(f)' <=> FolderMatches(f)
    BY <1>0 DEF FolderMatches, RawEntries, FolderEntries
  <2> QED
    BY <1>0, <2>1 DEF RawInv
<1>1. ASSUME ~Accepted', pc' \notin {"stage", "assign", "begin"} PROVE RawInv'
  BY <1>1 DEF RawInv
<1>2. CASE ScanOperand
  BY <1>1, <1>2 DEF ScanOperand, Accepted, PhaseInv
<1>3. CASE ScanEnds
  BY <1>1, <1>3 DEF ScanEnds, Accepted, PhaseInv
<1>4. CASE CollectPath
  BY <1>1, <1>4 DEF CollectPath, Accepted, PhaseInv
<1>5. CASE CollectEnds
  <2>1. CASE job.cmd = "create"
    <3>1. request' = pending
      BY <1>5, <2>1 DEF CollectEnds
    <3>2. \A i \in DOMAIN request' : request'[i].kind # "raw"
      BY <3>1 DEF TypeOK
    <3> QED
      BY <3>2 DEF RawInv
  <2>2. CASE job.cmd # "create"
    BY <1>1, <1>5, <2>2 DEF CollectEnds, Accepted, PhaseInv
  <2> QED
    BY <2>1, <2>2
<1>6. CASE PlanFolders
  BY <1>1, <1>6 DEF PlanFolders, Accepted, PhaseInv
<1>7. CASE RetainEntry
  BY <1>1, <1>7 DEF RetainEntry, Accepted, PhaseInv
<1>8. CASE AppendPending
  BY <1>1, <1>8 DEF AppendPending, Accepted, PhaseInv
<1>9. CASE Validate
  <2>1. CASE Valid
    <3>1. UNCHANGED <<src, request, raws>>
      BY <1>9 DEF Validate
    <3>2. \A f : FolderMatches(f)' <=> FolderMatches(f)
      BY <3>1 DEF FolderMatches, RawEntries, FolderEntries
    <3>3. \A i \in DOMAIN request : request[i].kind = "raw" =>
            /\ request[i].entry \in DOMAIN src.entries /\ request[i].folder # 0
            /\ src.entries[request[i].entry].block = request[i].folder
            /\ src.entries[request[i].entry].size = request[i].size
            /\ request[i].folder \in raws /\ FolderMatches(request[i].folder)
      BY <2>1 DEF Valid, RawEntryValid
    <3> QED
      BY <3>1, <3>2, <3>3 DEF RawInv
  <2>2. CASE ~Valid
    BY <1>1, <1>9, <2>2 DEF Validate, Reject, Accepted, PhaseInv
  <2> QED
    BY <2>1, <2>2
<1>10. CASE Stage
  BY <1>0, <1>10 DEF Stage, Accepted
<1>11. CASE StageEntry
  BY <1>0, <1>11 DEF StageEntry, Accepted
<1>12. CASE StageEnds
  BY <1>0, <1>12 DEF StageEnds, Reject, Accepted
<1>13. CASE Begin
  BY <1>0, <1>13 DEF Begin, Accepted
<1>14. CASE WriteRaw
  BY <1>0, <1>14 DEF WriteRaw, Accepted
<1>15. CASE OpenEncoded
  BY <1>0, <1>15 DEF OpenEncoded, Accepted
<1>16. CASE ReadChunk
  BY <1>0, <1>16 DEF ReadChunk, Accepted
<1>17. CASE RecordStream
  BY <1>0, <1>17 DEF RecordStream, Accepted
<1>18. CASE CompleteFolder
  BY <1>0, <1>18 DEF CompleteFolder, Accepted
<1>19. CASE Finish
  BY <1>0, <1>19 DEF Finish, Accepted
<1>20. CASE Read
  BY <1>0, <1>20 DEF Read, Accepted
<1>21. CASE Fail
  BY <1>0, <1>21 DEF Fail, Accepted
<1>22. ASSUME NEW p \in 1 .. Paths, Change(p) PROVE RawInv'
  BY <1>0, <1>22 DEF Change, Accepted
<1>23. CASE UNCHANGED vars
  BY <1>0, <1>23 DEF vars, Accepted
<1> QED
  BY <1>2, <1>3, <1>4, <1>5, <1>6, <1>7, <1>8, <1>9, <1>10, <1>11, <1>12, <1>13, <1>14, <1>15,
     <1>16, <1>17, <1>18, <1>19, <1>20, <1>21, <1>22, <1>23 DEF Next, Step

(* Rejections. *)
LEMMA RejectStep ==
  TypeOK /\ PhaseInv /\ PlanInv /\ RawInv /\ IdsInv /\ RejectionsAreHarmless /\ [Next]_vars
    => RejectionsAreHarmless'
<1> SUFFICES ASSUME TypeOK, PhaseInv, PlanInv, RawInv, IdsInv, RejectionsAreHarmless, [Next]_vars
             PROVE  RejectionsAreHarmless'
  OBVIOUS
<1> USE DEF inputs, world, scan, plan, stage, output
<1>1. CASE Validate
  BY <1>1, CommandsValid DEF Validate, Reject, PhaseInv, RejectionsAreHarmless
<1>2. CASE StageEnds
  BY <1>2, CommandsTogether DEF StageEnds, Reject, PhaseInv, RejectionsAreHarmless
<1>3. CASE ScanOperand \/ ScanEnds \/ CollectPath \/ CollectEnds \/ PlanFolders \/ RetainEntry
           \/ AppendPending \/ Stage \/ StageEntry
  BY <1>3 DEF ScanOperand, ScanEnds, CollectPath, CollectEnds, PlanFolders, RetainEntry,
     AppendPending, Stage, StageEntry, RejectionsAreHarmless, PhaseInv
<1>4. CASE Begin \/ WriteRaw \/ OpenEncoded \/ ReadChunk \/ RecordStream \/ CompleteFolder
           \/ Finish \/ Read \/ Fail
  BY <1>4 DEF Begin, WriteRaw, OpenEncoded, ReadChunk, RecordStream, CompleteFolder, Finish, Read,
     Fail, RejectionsAreHarmless, PhaseInv
<1>5. ASSUME NEW p \in 1 .. Paths, Change(p) PROVE RejectionsAreHarmless'
  BY <1>5 DEF Change, RejectionsAreHarmless
<1>6. CASE UNCHANGED vars
  BY <1>6 DEF vars, RejectionsAreHarmless
<1> QED
  BY <1>1, <1>2, <1>3, <1>4, <1>5, <1>6 DEF Next, Step

(***************************************************************************)
(* Assigning folders.                                                      *)
(***************************************************************************)

(* What StageEntry does with the next entry k. *)
LEMMA StagedEntry ==
  ASSUME TypeOK, RawInv, IdsInv, AssignerInv, StageEntry,
         NEW k, k = Len(ids) + 1, NEW id, id = FolderId(assigner, request[k])
  PROVE  /\ k \in DOMAIN request /\ id \in Nat
         /\ request[k].kind = "none" => id = 0 /\ assigner' = assigner
         /\ request[k].kind = "raw" =>
              /\ id = request[k].folder /\ id # 0 /\ id \in raws
              /\ assigner'.current = 0 /\ assigner'.next = assigner.next
         /\ IsNew(k) =>
              /\ id # 0 /\ assigner'.current = id
              /\ \/ id = assigner.next /\ assigner'.next = assigner.next + 1
                 \/ id = assigner.current /\ assigner'.next = assigner.next
<1>1. k \in DOMAIN request
  BY RequestTypes DEF StageEntry
<1>2. id \in Nat
  BY <1>1, AssignType
<1>3. PICK c \in Nat, n \in Nat \ {0}, p \in [files : Nat, bytes : Nat] :
        assigner = [current |-> c, next |-> n, progress |-> p]
  BY DEF TypeOK
<1>4. assigner' = Assign(assigner, request[k]) /\ (request[k].kind = "raw" => request[k].folder \in raws)
  BY DEF StageEntry
<1>5. ASSUME request[k].kind = "none" PROVE id = 0 /\ assigner' = assigner
  BY <1>4, <1>5 DEF FolderId, Assign
<1>6. ASSUME request[k].kind = "raw"
      PROVE  /\ id = request[k].folder /\ id # 0 /\ id \in raws
             /\ assigner'.current = 0 /\ assigner'.next = assigner.next
  <2>1. id = request[k].folder /\ id \in raws
    BY <1>4, <1>6 DEF FolderId
  <2>2. id # 0
    BY <1>1, <1>6, <2>1 DEF RawInv, Accepted, StageEntry
  <2>3. assigner' = [assigner EXCEPT !.current = 0]
    BY <1>4, <1>6 DEF Assign
  <2> QED
    BY <1>3, <2>1, <2>2, <2>3
<1>7. ASSUME IsNew(k)
      PROVE  /\ id # 0 /\ assigner'.current = id
             /\ \/ id = assigner.next /\ assigner'.next = assigner.next + 1
                \/ id = assigner.current /\ assigner'.next = assigner.next
  <2>1. request[k].kind # "none" /\ request[k].kind # "raw"
    BY <1>7 DEF IsNew
  <2>2. id = IF NeedsNew(assigner, request[k]) THEN assigner.next ELSE assigner.current
    BY <2>1 DEF FolderId
  <2>3. assigner' = Assigned(assigner, request[k])
    BY <1>4, <2>1 DEF Assign
  <2>4. /\ assigner'.current = id
        /\ assigner'.next = IF NeedsNew(assigner, request[k]) THEN assigner.next + 1 ELSE assigner.next
    BY <2>3 DEF Assigned
  <2>5. ~NeedsNew(assigner, request[k]) => assigner.current # 0
    BY DEF NeedsNew
  <2> QED
    BY <1>3, <2>2, <2>4, <2>5
<1> QED
  BY <1>1, <1>2, <1>5, <1>6, <1>7

(* Where the folder of a new entry comes from. *)
LEMMA NewFolderId ==
  ASSUME TypeOK, RawInv, IdsInv, AssignerInv, StageEntry,
         NEW k, k = Len(ids) + 1, NEW id, id = FolderId(assigner, request[k]), IsNew(k)
  PROVE  /\ \A f \in raws : f < id
         /\ \A j \in DOMAIN ids : request[j].kind = "raw" => ids[j] # id
         /\ \A i \in DOMAIN ids : ids[i] = id =>
              \A l \in i .. Len(ids) : ids[l] \in {0, id}
         /\ id < assigner'.next
<1>0. pc = "assign"
  BY DEF StageEntry
<1>1. /\ assigner.next \in Nat /\ raws \in SUBSET Nat /\ assigner.current \in Nat
  BY DEF TypeOK
<1>2. PICK n \in Nat : n = Len(ids) /\ DOMAIN ids = 1 .. n
  BY RequestTypes
<1>3. \A i \in DOMAIN ids : ids[i] \in Nat
  BY RequestTypes
<1>4. CASE id = assigner.next /\ assigner'.next = assigner.next + 1
  BY <1>0, <1>1, <1>3, <1>4 DEF AssignerInv
<1>5. CASE id = assigner.current /\ assigner'.next = assigner.next /\ id # 0
  <2>1. PICK i0 \in DOMAIN ids : /\ ids[i0] = id /\ IsNew(i0)
                                 /\ \A l \in i0 .. Len(ids) : ids[l] \in {0, id}
    BY <1>0, <1>5 DEF AssignerInv
  <2>2. \A f \in raws : f < id
    BY <2>1 DEF IdsInv
  <2>3. \A j \in DOMAIN ids : request[j].kind = "raw" => ids[j] # id
    BY <2>1 DEF IdsInv
  <2>4. id < assigner'.next
    BY <1>0, <1>5, <2>1 DEF AssignerInv
  <2>5. ASSUME NEW i \in DOMAIN ids, ids[i] = id, NEW l \in i .. Len(ids)
        PROVE  ids[l] \in {0, id}
    <3>1. CASE l >= i0
      <4>1. l \in i0 .. Len(ids)
        BY <1>2, <2>5, <3>1
      <4> QED
        BY <2>1, <4>1
    <3>2. CASE ~(l >= i0)
      <4>1. i < i0 /\ l \in i .. i0
        BY <1>2, <2>5, <3>2
      <4> QED
        BY <2>1, <2>5, <4>1 DEF IdsInv
    <3> QED
      BY <3>1, <3>2
  <2> QED
    BY <2>2, <2>3, <2>4, <2>5
<1> QED
  BY <1>4, <1>5, StagedEntry

LEMMA IdsGrow ==
  ASSUME TypeOK, PhaseInv, RawInv, IdsInv, AssignerInv, StageEntry
  PROVE  IdsInv' /\ AssignerInv'
<1> USE DEF inputs, world, scan, plan, output
<1>1. PICK n \in Nat : n = Len(ids) /\ DOMAIN ids = 1 .. n
  BY RequestTypes
<1>2. PICK k \in Nat : k = n + 1
  BY <1>1
<1>3. PICK id : id = FolderId(assigner, request[k])
  OBVIOUS
<1>4. /\ k = Len(ids) + 1 /\ pc = "assign" /\ pc' = "assign" /\ out' # "signed"
      /\ UNCHANGED <<request, raws>> /\ ids' = Append(ids, id) /\ k <= Len(request)
  BY <1>1, <1>2, <1>3, RequestTypes DEF StageEntry, PhaseInv
<1>5. /\ k \in DOMAIN request /\ id \in Nat
      /\ request[k].kind = "none" => id = 0 /\ assigner' = assigner
      /\ request[k].kind = "raw" =>
           /\ id = request[k].folder /\ id # 0 /\ id \in raws
           /\ assigner'.current = 0 /\ assigner'.next = assigner.next
      /\ IsNew(k) =>
           /\ id # 0 /\ assigner'.current = id
           /\ \/ id = assigner.next /\ assigner'.next = assigner.next + 1
              \/ id = assigner.current /\ assigner'.next = assigner.next
  BY <1>3, <1>4, StagedEntry
<1>6. IsNew(k) =>
         /\ \A f \in raws : f < id
         /\ \A j \in DOMAIN ids : request[j].kind = "raw" => ids[j] # id
         /\ \A i \in DOMAIN ids : ids[i] = id => \A l \in i .. n : ids[l] \in {0, id}
         /\ id < assigner'.next
  BY <1>1, <1>3, <1>4, NewFolderId
<1>7. ids \in Seq(Nat)
  BY DEF TypeOK
<1>8. /\ Len(ids') = k /\ DOMAIN ids' = 1 .. k /\ ids'[k] = id
      /\ \A i \in 1 .. n : ids'[i] = ids[i]
  BY <1>1, <1>2, <1>4, <1>5, <1>7, AppendAt
<1>9. \A i \in 1 .. k : i \in 1 .. n \/ i = k
  BY <1>1, <1>2
<1>10. \A i : IsNew(i)' <=> IsNew(i)
  BY <1>4 DEF IsNew
<1>11. request[k].kind = "none" \/ request[k].kind = "raw" \/ IsNew(k)
  BY <1>5, RequestTypes DEF IsNew
<1>12. \A i \in 1 .. n : ids[i] \in Nat /\ i < k
  BY <1>1, <1>2, RequestTypes
<1>13. assigner.next \in Nat \ {0} /\ assigner.current \in Nat /\ raws \in SUBSET Nat
  BY DEF TypeOK
<1>14. ASSUME NEW i \in 1 .. k
       PROVE  /\ request[i].kind = "none" <=> ids'[i] = 0
              /\ request[i].kind = "raw" => ids'[i] = request[i].folder
              /\ IsNew(i) => \A f \in raws : f < ids'[i]
              /\ IsNew(i) => \A j \in 1 .. k : request[j].kind = "raw" => ids'[j] # ids'[i]
  <2>1. CASE i \in 1 .. n
    <3>1. /\ ids'[i] = ids[i]
          /\ request[i].kind = "none" <=> ids[i] = 0
          /\ request[i].kind = "raw" => ids[i] = request[i].folder
          /\ IsNew(i) => \A f \in raws : f < ids[i]
          /\ IsNew(i) => \A j \in 1 .. n : request[j].kind = "raw" => ids[j] # ids[i]
      BY <1>1, <1>8, <2>1 DEF IdsInv
    <3>2. ASSUME IsNew(i), NEW j \in 1 .. k, request[j].kind = "raw" PROVE ids'[j] # ids'[i]
      <4>1. CASE j \in 1 .. n
        BY <1>8, <3>1, <3>2, <4>1
      <4>2. CASE j = k
        <5>1. id < ids[i]
          BY <1>5, <3>1, <3>2, <4>2
        <5> QED
          BY <1>5, <1>8, <3>1, <4>2, <5>1
      <4> QED
        BY <1>9, <4>1, <4>2
    <3> QED
      BY <3>1, <3>2
  <2>2. CASE i = k
    <3>1. ids'[i] = id
      BY <1>8, <2>2
    <3>2. request[k].kind = "none" <=> id = 0
      BY <1>5, <1>11 DEF IsNew
    <3>3. ASSUME IsNew(k), NEW j \in 1 .. k, request[j].kind = "raw" PROVE ids'[j] # id
      <4>1. j # k
        BY <3>3 DEF IsNew
      <4>2. j \in 1 .. n
        BY <1>9, <4>1
      <4> QED
        BY <1>1, <1>6, <1>8, <3>3, <4>2
    <3> QED
      BY <1>5, <1>6, <2>2, <3>1, <3>2, <3>3
  <2> QED
    BY <1>9, <2>1, <2>2
<1>15. ASSUME NEW i \in 1 .. k, NEW j \in 1 .. k, i < j, IsNew(j), ids'[i] = ids'[j],
              NEW l \in i .. j
       PROVE  ids'[l] \in {0, ids'[i]}
  <2>1. i \in 1 .. n /\ ids'[i] = ids[i]
    BY <1>1, <1>2, <1>8, <1>15
  <2>2. CASE j \in 1 .. n
    <3>1. ids'[j] = ids[j] /\ l \in 1 .. n /\ ids'[l] = ids[l]
      BY <1>8, <2>1, <2>2
    <3> QED
      BY <1>1, <1>15, <2>1, <2>2, <3>1 DEF IdsInv
  <2>3. CASE j = k
    <3>1. ids[i] = id /\ IsNew(k)
      BY <1>8, <1>15, <2>1, <2>3
    <3>2. CASE l = k
      BY <1>8, <2>1, <3>1, <3>2
    <3>3. CASE l # k
      <4>1. l \in i .. n /\ l \in 1 .. n
        BY <1>1, <1>2, <2>1, <2>3, <3>3
      <4>2. ids[l] \in {0, id}
        BY <1>1, <1>6, <2>1, <3>1, <4>1
      <4> QED
        BY <1>8, <2>1, <3>1, <4>1, <4>2
    <3> QED
      BY <3>2, <3>3
  <2> QED
    BY <1>9, <2>2, <2>3
<1>16. IdsInv'
  <2>1. ~Staged'
    BY <1>4 DEF Staged
  <2>2. Len(ids') <= Len(request')
    BY <1>4, <1>8
  <2>3. \A i \in DOMAIN ids' : /\ request'[i].kind = "none" <=> ids'[i] = 0
                               /\ request'[i].kind = "raw" => ids'[i] = request'[i].folder
                               /\ IsNew(i)' => \A f \in raws' : f < ids'[i]
                               /\ IsNew(i)' => \A j \in DOMAIN ids' : request'[j].kind = "raw" => ids'[j] # ids'[i]
    BY <1>4, <1>8, <1>10, <1>14
  <2>4. \A i, j \in DOMAIN ids' : i < j /\ IsNew(j)' /\ ids'[i] = ids'[j] =>
          \A l \in i .. j : ids'[l] \in {0, ids'[i]}
    BY <1>8, <1>10, <1>15
  <2> QED
    BY <2>1, <2>2, <2>3, <2>4 DEF IdsInv
<1>17. /\ \A f \in raws : f < assigner.next
       /\ \A i \in 1 .. n : ids[i] < assigner.next
       /\ assigner.current # 0 =>
            \E i \in 1 .. n : /\ ids[i] = assigner.current /\ IsNew(i)
                              /\ \A l \in i .. n : ids[l] \in {0, assigner.current}
  BY <1>1, <1>4 DEF AssignerInv
<1>18. assigner'.next \in {assigner.next, assigner.next + 1} /\ id < assigner'.next
  BY <1>5, <1>6, <1>11, <1>13, <1>17
<1>19. /\ \A f \in raws : f < assigner'.next
       /\ \A i \in 1 .. n : ids[i] < assigner'.next
  BY <1>12, <1>13, <1>17, <1>18
<1>20. \A i \in 1 .. k : ids'[i] < assigner'.next
  BY <1>8, <1>9, <1>18, <1>19
<1>21. ASSUME assigner'.current # 0
       PROVE  \E i \in 1 .. k : /\ ids'[i] = assigner'.current /\ IsNew(i)
                                /\ \A l \in i .. k : ids'[l] \in {0, assigner'.current}
  <2>1. ASSUME NEW i \in 1 .. n, ids[i] = assigner'.current, IsNew(i), id \in {0, assigner'.current},
               \A l \in i .. n : ids[l] \in {0, assigner'.current}
        PROVE  /\ i \in 1 .. k /\ ids'[i] = assigner'.current /\ IsNew(i)
               /\ \A l \in i .. k : ids'[l] \in {0, assigner'.current}
    <3>1. \A l \in i .. k : l = k \/ (l \in i .. n /\ l \in 1 .. n)
      BY <1>1, <1>2
    <3> QED
      BY <1>1, <1>2, <1>8, <2>1, <3>1
  <2>2. CASE request[k].kind = "none"
    <3>1. id = 0 /\ assigner' = assigner
      BY <1>5, <2>2
    <3>2. PICK i \in 1 .. n : /\ ids[i] = assigner.current /\ IsNew(i)
                              /\ \A l \in i .. n : ids[l] \in {0, assigner.current}
      BY <1>17, <1>21, <3>1
    <3> QED
      BY <2>1, <3>1, <3>2
  <2>3. CASE IsNew(k)
    <3>1. assigner'.current = id
      BY <1>5, <2>3
    <3>2. CASE \E i \in 1 .. n : ids[i] = id /\ IsNew(i)
      <4>1. PICK i \in 1 .. n : ids[i] = id /\ IsNew(i)
        BY <3>2
      <4>2. \A l \in i .. n : ids[l] \in {0, id}
        BY <1>1, <1>6, <2>3, <4>1
      <4> QED
        BY <2>1, <3>1, <4>1, <4>2
    <3>3. CASE ~\E i \in 1 .. n : ids[i] = id /\ IsNew(i)
      <4>1. \A l \in k .. k : l = k
        BY <1>2
      <4>2. k \in 1 .. k
        BY <1>2
      <4> QED
        BY <1>8, <2>3, <3>1, <4>1, <4>2
    <3> QED
      BY <3>2, <3>3
  <2> QED
    BY <1>5, <1>11, <1>21, <2>2, <2>3
<1>22. AssignerInv'
  BY <1>4, <1>8, <1>10, <1>19, <1>20, <1>21 DEF AssignerInv
<1> QED
  BY <1>16, <1>22

LEMMA OrderGrows ==
  ASSUME TypeOK, RawInv, IdsInv, AssignerInv, OrderInv, StageEntry
  PROVE  OrderInv'
<1>1. PICK n \in Nat : n = Len(ids) /\ DOMAIN ids = 1 .. n
  BY RequestTypes
<1>2. PICK k \in Nat : k = n + 1
  BY <1>1
<1>3. PICK m \in Nat : m = Len(order) /\ DOMAIN order = 1 .. m
  BY RequestTypes
<1>4. PICK id \in Nat : id = FolderId(assigner, request[k])
  BY <1>1, <1>2, StagedEntry
<1>5. /\ ids' = Append(ids, id)
      /\ order' = IF id = 0 \/ (\E p \in DOMAIN order : order[p] = id) THEN order ELSE Append(order, id)
  BY <1>1, <1>2, <1>4 DEF StageEntry
<1>6. ids \in Seq(Nat) /\ order \in Seq(Nat)
  BY DEF TypeOK
<1>7. /\ Len(ids') = k /\ DOMAIN ids' = 1 .. k /\ ids'[k] = id
      /\ \A i \in 1 .. n : ids'[i] = ids[i]
  BY <1>1, <1>2, <1>5, <1>6, AppendAt
<1>8. \A i \in 1 .. k : i \in 1 .. n \/ i = k
  BY <1>1, <1>2
<1>9. \A i \in 1 .. n : i < k /\ i \in 1 .. k
  BY <1>1, <1>2
<1>10. k \in 1 .. k
  BY <1>2
<1>11. /\ \A p \in 1 .. m : order[p] # 0 /\ \E i \in 1 .. n : ids[i] = order[p]
       /\ \A i \in 1 .. n : ids[i] # 0 => \E p \in 1 .. m : order[p] = ids[i]
       /\ \A p, q \in 1 .. m : p < q =>
            /\ order[p] # order[q]
            /\ \E i \in 1 .. n : /\ ids[i] = order[p]
                                 /\ \A j \in 1 .. n : ids[j] = order[q] => i < j
  <2>1. \A p \in 1 .. m : order[p] # 0 /\ \E i \in 1 .. n : ids[i] = order[p]
    BY <1>1, <1>3 DEF OrderInv
  <2>2. \A i \in 1 .. n : ids[i] # 0 => \E p \in 1 .. m : order[p] = ids[i]
    BY <1>1, <1>3 DEF OrderInv
  <2>3. ASSUME NEW p \in 1 .. m, NEW q \in 1 .. m, p < q
        PROVE  /\ order[p] # order[q]
               /\ \E i \in 1 .. n : /\ ids[i] = order[p]
                                    /\ \A j \in 1 .. n : ids[j] = order[q] => i < j
    <3>1. p \in DOMAIN order /\ q \in DOMAIN order
      BY <1>3
    <3>2. order[p] # order[q]
      BY <2>3, <3>1 DEF OrderInv
    <3>3. PICK i \in DOMAIN ids : ids[i] = order[p] /\ \A j \in DOMAIN ids : ids[j] = order[q] => i < j
      BY <2>3, <3>1 DEF OrderInv
    <3> QED
      BY <1>1, <3>2, <3>3
  <2> QED
    BY <2>1, <2>2, <2>3
<1>12. ASSUME NEW p \in 1 .. m, NEW q \in 1 .. m, p < q
       PROVE  /\ order[p] # order[q]
              /\ \E i \in 1 .. k : /\ ids'[i] = order[p]
                                   /\ \A j \in 1 .. k : ids'[j] = order[q] => i < j
  <2>1. PICK i \in 1 .. n : ids[i] = order[p] /\ \A j \in 1 .. n : ids[j] = order[q] => i < j
    BY <1>11, <1>12
  <2>2. ASSUME NEW j \in 1 .. k, ids'[j] = order[q] PROVE i < j
    BY <1>7, <1>8, <1>9, <2>1, <2>2
  <2> QED
    BY <1>7, <1>9, <1>11, <1>12, <2>1, <2>2
<1>13. CASE order' = order /\ (id = 0 \/ \E p \in 1 .. m : order[p] = id)
  <2>1. \A p \in 1 .. m : order[p] # 0 /\ \E i \in 1 .. k : ids'[i] = order[p]
    BY <1>7, <1>9, <1>11
  <2>2. \A i \in 1 .. k : ids'[i] # 0 => \E p \in 1 .. m : order[p] = ids'[i]
    BY <1>7, <1>8, <1>11, <1>13
  <2>3. DOMAIN order' = 1 .. m
    BY <1>3, <1>13
  <2>4. \A p \in DOMAIN order' : order'[p] # 0 /\ \E i \in DOMAIN ids' : ids'[i] = order'[p]
    BY <1>7, <1>13, <2>1, <2>3
  <2>5. \A i \in DOMAIN ids' : ids'[i] # 0 => \E p \in DOMAIN order' : order'[p] = ids'[i]
    BY <1>7, <1>13, <2>2, <2>3
  <2>6. \A p, q \in DOMAIN order' : p < q =>
          /\ order'[p] # order'[q]
          /\ \E i \in DOMAIN ids' : /\ ids'[i] = order'[p]
                                    /\ \A j \in DOMAIN ids' : ids'[j] = order'[q] => i < j
    BY <1>7, <1>12, <1>13, <2>3
  <2> QED
    BY <2>4, <2>5, <2>6 DEF OrderInv
<1>14. CASE order' = Append(order, id) /\ id # 0 /\ ~\E p \in 1 .. m : order[p] = id
  <2>1. /\ Len(order') = m + 1 /\ DOMAIN order' = 1 .. m + 1 /\ order'[m + 1] = id
        /\ \A p \in 1 .. m : order'[p] = order[p]
    BY <1>3, <1>6, <1>14, AppendAt
  <2>2. \A p \in 1 .. m + 1 : p \in 1 .. m \/ p = m + 1
    BY <1>3
  <2>3. \A p \in 1 .. m : p \in 1 .. m + 1
    BY <1>3
  <2>4. m + 1 \in 1 .. m + 1
    BY <1>3
  <2>5. \A p \in 1 .. m + 1 : order'[p] # 0 /\ \E i \in 1 .. k : ids'[i] = order'[p]
    BY <1>7, <1>9, <1>10, <1>11, <1>14, <2>1, <2>2, SMTT(30)
  <2>6. \A i \in 1 .. k : ids'[i] # 0 => \E p \in 1 .. m + 1 : order'[p] = ids'[i]
    <3>1. ASSUME NEW i \in 1 .. n, ids'[i] # 0 PROVE \E p \in 1 .. m + 1 : order'[p] = ids'[i]
      <4>1. PICK p \in 1 .. m : order[p] = ids[i]
        BY <1>7, <1>11, <3>1
      <4> QED
        BY <1>7, <2>1, <2>3, <4>1
    <3>2. \E p \in 1 .. m + 1 : order'[p] = ids'[k]
      BY <1>7, <2>1, <2>4
    <3> QED
      BY <1>8, <3>1, <3>2
  <2>7. \A j \in 1 .. n : ids[j] # id
    BY <1>11, <1>14
  <2>8. ASSUME NEW p \in 1 .. m + 1, NEW q \in 1 .. m + 1, p < q
        PROVE  /\ order'[p] # order'[q]
               /\ \E i \in 1 .. k : /\ ids'[i] = order'[p]
                                    /\ \A j \in 1 .. k : ids'[j] = order'[q] => i < j
    <3>1. p \in 1 .. m
      BY <1>3, <2>8
    <3>2. CASE q \in 1 .. m
      <4>1. order'[p] = order[p] /\ order'[q] = order[q]
        BY <2>1, <3>1, <3>2
      <4>2. /\ order[p] # order[q]
            /\ \E i \in 1 .. k : /\ ids'[i] = order[p]
                                 /\ \A j \in 1 .. k : ids'[j] = order[q] => i < j
        BY <1>12, <2>8, <3>1, <3>2
      <4> QED
        BY <4>1, <4>2
    <3>3. CASE q = m + 1
      <4>1. PICK i \in 1 .. n : ids[i] = order[p]
        BY <1>11, <3>1
      <4>2. ASSUME NEW j \in 1 .. k, ids'[j] = id PROVE i < j
        BY <1>7, <1>8, <1>9, <2>7, <4>2
      <4> QED
        BY <1>7, <1>9, <1>14, <2>1, <3>1, <3>3, <4>1, <4>2
    <3> QED
      BY <2>2, <3>2, <3>3
  <2>9. \A p \in DOMAIN order' : order'[p] # 0 /\ \E i \in DOMAIN ids' : ids'[i] = order'[p]
    BY <1>7, <2>1, <2>5
  <2>10. \A i \in DOMAIN ids' : ids'[i] # 0 => \E p \in DOMAIN order' : order'[p] = ids'[i]
    BY <1>7, <2>1, <2>6
  <2>11. \A p, q \in DOMAIN order' : p < q =>
          /\ order'[p] # order'[q]
          /\ \E i \in DOMAIN ids' : /\ ids'[i] = order'[p]
                                    /\ \A j \in DOMAIN ids' : ids'[j] = order'[q] => i < j
    <3> SUFFICES ASSUME NEW p \in DOMAIN order', NEW q \in DOMAIN order', p < q
                 PROVE  /\ order'[p] # order'[q]
                        /\ \E i \in DOMAIN ids' : /\ ids'[i] = order'[p]
                                                  /\ \A j \in DOMAIN ids' : ids'[j] = order'[q] => i < j
      OBVIOUS
    <3>1. p \in 1 .. m + 1 /\ q \in 1 .. m + 1
      BY <2>1
    <3>2. order'[p] # order'[q]
      BY <2>8, <3>1
    <3>3. PICK i \in 1 .. k : ids'[i] = order'[p] /\ \A j \in 1 .. k : ids'[j] = order'[q] => i < j
      BY <2>8, <3>1
    <3> QED
      BY <1>7, <3>2, <3>3
  <2> QED
    BY <2>9, <2>10, <2>11 DEF OrderInv
<1> QED
  BY <1>3, <1>5, <1>13, <1>14

LEMMA InitStaging == Init => IdsInv /\ AssignerInv /\ OrderInv
<1> SUFFICES ASSUME Init PROVE IdsInv /\ AssignerInv /\ OrderInv
  OBVIOUS
<1>1. ids = <<>> /\ order = <<>> /\ out = "untouched" /\ pc \notin {"assign", "begin", "folders", "encode"}
  BY DEF Init
<1>2. Len(ids) = 0 /\ DOMAIN ids = {} /\ DOMAIN order = {} /\ ~Staged
  BY <1>1 DEF Staged
<1>3. Len(request) \in Nat
  BY InitTypes, RequestTypes
<1>4. IdsInv
  BY <1>2, <1>3 DEF IdsInv
<1>5. AssignerInv
  BY <1>1 DEF AssignerInv
<1> QED
  BY <1>2, <1>4, <1>5 DEF OrderInv

(* Folders keep their numbers and their order. *)
LEMMA StagingStep ==
  TypeOK /\ TypeOK' /\ PhaseInv /\ RawInv /\ IdsInv /\ AssignerInv /\ OrderInv /\ [Next]_vars
    => IdsInv' /\ AssignerInv' /\ OrderInv'
<1> SUFFICES ASSUME TypeOK, TypeOK', PhaseInv, RawInv, IdsInv, AssignerInv, OrderInv, [Next]_vars
             PROVE  IdsInv' /\ AssignerInv' /\ OrderInv'
  OBVIOUS
<1> USE DEF inputs, world, scan, plan, stage, output
<1>0. UNCHANGED <<ids, order>> => OrderInv'
  BY DEF OrderInv
<1>1. ASSUME UNCHANGED <<ids, request>>, raws' \subseteq raws, Staged' => Staged PROVE IdsInv'
  <2>1. \A i : IsNew(i)' <=> IsNew(i)
    BY <1>1 DEF IsNew
  <2>2. Together' <=> Together
    BY <1>1 DEF Together
  <2> QED
    BY <1>1, <2>1, <2>2 DEF IdsInv
<1>2. ASSUME ids = <<>>, UNCHANGED <<ids, order>>, ~Staged', pc' # "assign"
      PROVE  IdsInv' /\ AssignerInv' /\ OrderInv'
  <2>1. Len(ids') = 0 /\ DOMAIN ids' = {}
    BY <1>2
  <2>2. Len(request') \in Nat
    BY DEF TypeOK
  <2>3. IdsInv'
    BY <1>2, <2>1, <2>2 DEF IdsInv
  <2> QED
    BY <1>0, <1>2, <2>3 DEF AssignerInv
<1>3. ASSUME UNCHANGED <<ids, order, request>>, raws' \subseteq raws, Staged' => Staged, pc' # "assign"
      PROVE  IdsInv' /\ AssignerInv' /\ OrderInv'
  BY <1>0, <1>1, <1>3 DEF AssignerInv
<1>4. CASE ScanOperand
  BY <1>2, <1>4 DEF ScanOperand, Staged, PhaseInv
<1>5. CASE ScanEnds
  BY <1>2, <1>5 DEF ScanEnds, Staged, PhaseInv
<1>6. CASE CollectPath
  BY <1>2, <1>6 DEF CollectPath, Staged, PhaseInv
<1>7. CASE CollectEnds
  BY <1>2, <1>7 DEF CollectEnds, Staged, PhaseInv
<1>8. CASE PlanFolders
  BY <1>2, <1>8 DEF PlanFolders, Staged, PhaseInv
<1>9. CASE RetainEntry
  BY <1>2, <1>9 DEF RetainEntry, Staged, PhaseInv
<1>10. CASE AppendPending
  BY <1>2, <1>10 DEF AppendPending, Staged, PhaseInv
<1>11. CASE Validate
  BY <1>2, <1>11 DEF Validate, Reject, Staged, PhaseInv
<1>12. CASE Stage
  <2>1. PICK top \in raws \cup {1} :
          (\A f \in raws : f <= top) /\ assigner' = [NoAssigner EXCEPT !.next = top + 1]
    BY <1>12 DEF Stage
  <2>2. assigner'.next = top + 1 /\ assigner'.current = 0
    BY <2>1 DEF NoAssigner
  <2>3. ids' = <<>> /\ order' = <<>> /\ ids = <<>> /\ order = <<>> /\ raws' = raws /\ request' = request
    BY <1>12 DEF Stage, PhaseInv
  <2>4. \A f \in raws' : f < assigner'.next
    <3>0. raws \in SUBSET Nat
      BY DEF TypeOK
    <3>1. raws \in SUBSET Nat /\ top \in Nat
      BY <3>0
    <3>2. \A f \in raws : f < top + 1
      BY <2>1, <3>1
    <3> QED
      BY <2>2, <2>3, <3>2
  <2>5. DOMAIN ids' = {}
    BY <2>3
  <2>6. AssignerInv'
    BY <2>2, <2>4, <2>5 DEF AssignerInv
  <2>7. IdsInv'
    BY <1>1, <1>12, <2>3 DEF Staged, Stage, PhaseInv
  <2> QED
    BY <1>0, <2>3, <2>6, <2>7
<1>13. CASE StageEntry
  BY <1>13, IdsGrow, OrderGrows
<1>14. CASE StageEnds
  <2>1. UNCHANGED <<ids, order, request, raws>> /\ pc' \in {"begin", "done"} /\ out # "signed"
    BY <1>14 DEF StageEnds, Reject, PhaseInv
  <2>2. CASE Together
    <3>1. Together'
      BY <2>1, <2>2 DEF Together
    <3>2. \A i : IsNew(i)' <=> IsNew(i)
      BY <2>1 DEF IsNew
    <3>3. Len(ids) = Len(request)
      BY <1>14 DEF StageEnds
    <3>4. IdsInv'
      BY <2>1, <3>1, <3>2, <3>3 DEF IdsInv
    <3> QED
      BY <1>0, <2>1, <3>4 DEF AssignerInv
  <2>3. CASE ~Together
    BY <1>3, <1>14, <2>1, <2>3 DEF StageEnds, Reject, Staged
  <2> QED
    BY <2>2, <2>3
<1>15. CASE Begin
  BY <1>3, <1>15 DEF Begin, Staged
<1>16. CASE WriteRaw
  BY <1>3, <1>16 DEF WriteRaw, Staged
<1>17. CASE OpenEncoded
  BY <1>3, <1>17 DEF OpenEncoded, Staged
<1>18. CASE ReadChunk
  BY <1>3, <1>18 DEF ReadChunk, Staged
<1>19. CASE RecordStream
  BY <1>3, <1>19 DEF RecordStream, Staged
<1>20. CASE CompleteFolder
  BY <1>3, <1>20 DEF CompleteFolder, Staged
<1>21. CASE Finish
  BY <1>3, <1>21 DEF Finish, Staged
<1>22. CASE Fail
  BY <1>3, <1>22 DEF Fail, Staged
<1>23. ASSUME UNCHANGED <<ids, order, request, raws, assigner, pc, out>>
       PROVE  IdsInv' /\ AssignerInv' /\ OrderInv'
  <2>1. \A i : IsNew(i)' <=> IsNew(i)
    BY <1>23 DEF IsNew
  <2>2. AssignerInv'
    BY <1>23, <2>1 DEF AssignerInv
  <2> QED
    BY <1>0, <1>1, <1>23, <2>2 DEF Staged
<1>24. CASE Read
  BY <1>23, <1>24 DEF Read
<1>25. ASSUME NEW p \in 1 .. Paths, Change(p) PROVE IdsInv' /\ AssignerInv' /\ OrderInv'
  BY <1>23, <1>25 DEF Change
<1>26. CASE UNCHANGED vars
  BY <1>23, <1>26 DEF vars
<1> QED
  BY <1>4, <1>5, <1>6, <1>7, <1>8, <1>9, <1>10, <1>11, <1>12, <1>13, <1>14, <1>15, <1>16, <1>17,
     <1>18, <1>19, <1>20, <1>21, <1>22, <1>24, <1>25, <1>26 DEF Next, Step

(***************************************************************************)
(* Writing folders.                                                        *)
(***************************************************************************)

(* The entries of a folder share it out. *)
LEMMA ListedFolder ==
  ASSUME TypeOK, NEW f, f # 0, NEW e \in FolderEntries(f)
  PROVE  /\ e \in DOMAIN src.entries
         /\ (\A d \in FolderEntries(f) : e <= d) => src.entries[e].first = 0
         /\ (\A d \in FolderEntries(f) : d <= e)
              => src.entries[e].first + src.entries[e].size = Len(src.folders[f])
         /\ \A d \in FolderEntries(f) : d > e /\ (\A c \in FolderEntries(f) : ~(e < c /\ c < d))
              => src.entries[d].first = src.entries[e].first + src.entries[e].size
<1>1. e \in DOMAIN src.entries /\ src.entries[e].block = f
  BY DEF FolderEntries
<1>2. Listed(src)
  BY SourceTypes
<1>3. FolderEntries(f) = {d \in DOMAIN src.entries : src.entries[d].block = src.entries[e].block}
  BY <1>1 DEF FolderEntries
<1> QED
  BY <1>1, <1>2, <1>3 DEF Listed

(* A copied folder holds the data of its entries. *)
LEMMA CopiedHolds ==
  ASSUME TypeOK, RawInv, IdsInv, OrderInv, pc = "folders", Len(completed) < Len(order),
         CurrentId \in raws, NEW members \in Sorted(Members(CurrentId)),
         NEW g \in FolderRecord, Len(g.files) = Len(members),
         g.unpack = Len(src.folders[CurrentId]), g.payload = src.folders[CurrentId],
         \A j \in DOMAIN members :
           /\ g.files[j].entry = members[j]
           /\ g.files[j].first = src.entries[request[members[j]].entry].first
           /\ g.files[j].size = request[members[j]].size
  PROVE  Holds(g, Members(CurrentId))
<1>1. PICK id : id = CurrentId
  OBVIOUS
<1>2. PICK n \in Nat : /\ n = Len(members) /\ DOMAIN members = 1 .. n
                       /\ \A j \in 1 .. n : members[j] \in Members(id)
                       /\ \A x \in Members(id) : \E j \in 1 .. n : members[j] = x
                       /\ \A i, j \in 1 .. n : i < j => members[i] < members[j]
  <2>0. PICK N \in Nat : Members(id) \in SUBSET (1 .. N)
    BY MembersType
  <2>1. PICK S \in SUBSET (1 .. N) : S = Members(id)
    BY <2>0
  <2>2. members \in Sorted(S)
    BY <1>1, <2>1
  <2>3. /\ DOMAIN members = 1 .. Len(members) /\ Len(members) \in Nat
        /\ \A i \in DOMAIN members : members[i] \in S
        /\ \A x \in S : \E i \in DOMAIN members : members[i] = x
        /\ \A i, j \in DOMAIN members : i < j => members[i] < members[j]
    BY <2>2, SortedType
  <2>4. Len(members) \in Nat
    BY <2>3
  <2> WITNESS Len(members) \in Nat
  <2>5. DOMAIN members = 1 .. Len(members)
    BY <2>3
  <2>6. \A j \in 1 .. Len(members) : members[j] \in Members(id)
    BY <2>1, <2>3
  <2>7. \A x \in Members(id) : \E j \in 1 .. Len(members) : members[j] = x
    BY <2>1, <2>3
  <2>8. \A i, j \in 1 .. Len(members) : i < j => members[i] < members[j]
    BY <2>3
  <2> QED
    BY <2>5, <2>6, <2>7, <2>8
<1>3. /\ id \in 1 .. Len(src.folders) /\ Members(id) = RawEntries(id) /\ RawEntries(id) # {}
      /\ FolderMatches(id)
      /\ \A i \in Members(id) :
           /\ i \in DOMAIN request
           /\ request[i].kind = "raw" /\ request[i].entry \in DOMAIN src.entries
           /\ src.entries[request[i].entry].block = id
           /\ src.entries[request[i].entry].size = request[i].size
  BY <1>1, CopiedMembers
<1>4. id # 0 /\ src.folders[id] \in Seq(Chunk) /\ Len(src.folders[id]) \in Nat
  BY <1>3, SourceTypes
<1>5. PICK E : E = [j \in 1 .. n |-> request[members[j]].entry]
  OBVIOUS
<1>6. /\ g.unpack = Len(src.folders[id]) /\ g.payload = src.folders[id]
      /\ Len(g.files) = n /\ DOMAIN g.files = 1 .. n /\ g \in FolderRecord
  BY <1>1, <1>2, FolderTypes
<1>7. \A j \in 1 .. n : /\ g.files[j].entry = members[j]
                        /\ g.files[j].first = src.entries[E[j]].first
                        /\ g.files[j].size = src.entries[E[j]].size
  <2> SUFFICES ASSUME NEW j \in 1 .. n
               PROVE  /\ g.files[j].entry = members[j]
                      /\ g.files[j].first = src.entries[E[j]].first
                      /\ g.files[j].size = src.entries[E[j]].size
    OBVIOUS
  <2>1. /\ g.files[j].entry = members[j]
        /\ g.files[j].first = src.entries[request[members[j]].entry].first
        /\ g.files[j].size = request[members[j]].size
    BY <1>2
  <2>2. E[j] = request[members[j]].entry /\ request[members[j]].size = src.entries[E[j]].size
    BY <1>2, <1>3, <1>5
  <2> QED
    BY <2>1, <2>2
<1>8. \A j \in 1 .. n : E[j] \in FolderEntries(id)
  BY <1>2, <1>3, <1>5 DEF FolderEntries
<1>9. \A d \in FolderEntries(id) : \E j \in 1 .. n : E[j] = d
  <2> SUFFICES ASSUME NEW d \in FolderEntries(id) PROVE \E j \in 1 .. n : E[j] = d
    OBVIOUS
  <2>1. {request[i].entry : i \in RawEntries(id)} = FolderEntries(id)
    BY <1>3 DEF FolderMatches
  <2>2. PICK i \in RawEntries(id) : request[i].entry = d
    BY <2>1
  <2>3. PICK j \in 1 .. n : members[j] = i
    BY <1>2, <1>3, <2>2
  <2> QED
    BY <1>5, <2>2, <2>3
<1>10. \A i, j \in 1 .. n : i < j => E[i] < E[j]
  BY <1>2, <1>3, <1>5 DEF FolderMatches
<1>11. \A j \in 1 .. n : E[j] \in Nat /\ E[j] \in DOMAIN src.entries /\ src.entries[E[j]].block = id
  BY <1>8, SourceTypes DEF FolderEntries
<1>12. \A i, j \in 1 .. n : E[i] < E[j] => i < j
  <2> SUFFICES ASSUME NEW i \in 1 .. n, NEW j \in 1 .. n, E[i] < E[j], ~(i < j) PROVE FALSE
    OBVIOUS
  <2>1. i = j \/ j < i
    OBVIOUS
  <2>2. E[i] \in Nat /\ E[j] \in Nat
    BY <1>11
  <2> QED
    BY <1>10, <2>1, <2>2
<1>13. n >= 1
  <2>1. PICK x \in Members(id) : TRUE
    BY <1>3
  <2>2. PICK j \in 1 .. n : members[j] = x
    BY <1>2
  <2> QED
    BY <2>2
<1>14. \A j \in 1 .. n :
         /\ src.entries[E[j]].first \in Nat /\ src.entries[E[j]].size \in Nat
         /\ src.entries[E[j]].first + src.entries[E[j]].size <= Len(src.folders[id])
         /\ Content(members[j]) = Bytes(E[j]) /\ Len(Bytes(E[j])) = src.entries[E[j]].size
         /\ \A x \in 1 .. src.entries[E[j]].size :
              Bytes(E[j])[x] = src.folders[id][src.entries[E[j]].first + x]
  <2> SUFFICES ASSUME NEW j \in 1 .. n
               PROVE  /\ src.entries[E[j]].first \in Nat /\ src.entries[E[j]].size \in Nat
                      /\ src.entries[E[j]].first + src.entries[E[j]].size <= Len(src.folders[id])
                      /\ Content(members[j]) = Bytes(E[j])
                      /\ Len(Bytes(E[j])) = src.entries[E[j]].size
                      /\ \A x \in 1 .. src.entries[E[j]].size :
                           Bytes(E[j])[x] = src.folders[id][src.entries[E[j]].first + x]
    OBVIOUS
  <2>1. PICK e \in DOMAIN src.entries : e = E[j] /\ src.entries[e].block = id
    BY <1>11
  <2>2. Content(members[j]) = Bytes(e)
    BY <1>2, <1>3, <1>5, <2>1 DEF Content
  <2>3. src.entries[e].first \in Nat /\ src.entries[e].size \in Nat
    BY SourceTypes
  <2>4. /\ src.entries[e].first + src.entries[e].size <= Len(src.folders[id])
        /\ Len(Bytes(e)) = src.entries[e].size
        /\ \A x \in 1 .. src.entries[e].size :
             Bytes(e)[x] = src.folders[id][src.entries[e].first + x]
    BY <1>4, <2>1, DataTypes
  <2> QED
    BY <2>1, <2>2, <2>3, <2>4
<1>15. src.entries[E[1]].first = 0
  <2>1. 1 \in 1 .. n
    BY <1>13
  <2>2. \A d \in FolderEntries(id) : E[1] <= d
    <3> SUFFICES ASSUME NEW d \in FolderEntries(id) PROVE E[1] <= d
      OBVIOUS
    <3>1. PICK j \in 1 .. n : E[j] = d
      BY <1>9
    <3>2. j = 1 \/ 1 < j
      OBVIOUS
    <3> QED
      BY <1>10, <1>11, <2>1, <3>1, <3>2
  <2> QED
    BY <1>4, <1>8, <2>1, <2>2, ListedFolder
<1>16. src.entries[E[n]].first + src.entries[E[n]].size = Len(src.folders[id])
  <2>1. n \in 1 .. n
    BY <1>13
  <2>2. \A d \in FolderEntries(id) : d <= E[n]
    <3> SUFFICES ASSUME NEW d \in FolderEntries(id) PROVE d <= E[n]
      OBVIOUS
    <3>1. PICK j \in 1 .. n : E[j] = d
      BY <1>9
    <3>2. j = n \/ j < n
      OBVIOUS
    <3> QED
      BY <1>10, <1>11, <2>1, <3>1, <3>2
  <2> QED
    BY <1>4, <1>8, <2>1, <2>2, ListedFolder
<1>17. ASSUME NEW j \in 1 .. n, j < n
       PROVE  src.entries[E[j + 1]].first = src.entries[E[j]].first + src.entries[E[j]].size
  <2>1. j + 1 \in 1 .. n /\ j < j + 1
    BY <1>17
  <2>2. PICK k \in 1 .. n : k = j + 1
    BY <2>1
  <2>3. E[k] > E[j] /\ E[k] \in FolderEntries(id) /\ E[j] \in FolderEntries(id)
    BY <1>8, <1>10, <1>11, <2>1, <2>2
  <2>4. ASSUME NEW c \in FolderEntries(id), E[j] < c, c < E[k] PROVE FALSE
    <3>1. PICK l \in 1 .. n : E[l] = c
      BY <1>9
    <3>2. j < l /\ l < k
      BY <1>12, <2>4, <3>1
    <3> QED
      BY <2>2, <3>2
  <2>5. src.entries[E[k]].first = src.entries[E[j]].first + src.entries[E[j]].size
    BY <1>4, <2>3, <2>4, ListedFolder
  <2> QED
    BY <2>2, <2>5
<1>18. g.files # <<>>
  BY <1>6, <1>13
<1>19. ASSUME NEW j \in 1 .. n
       PROVE  LET file == g.files[j]
              IN /\ file.size = Len(Content(file.entry)) /\ file.first + file.size <= g.unpack
                 /\ \A x \in 1 .. file.size : g.payload[file.first + x] = Content(file.entry)[x]
                 /\ j = 1 => file.first = 0
                 /\ j = Len(g.files) => file.first + file.size = g.unpack
                 /\ j < Len(g.files) => g.files[j + 1].first = file.first + file.size
  <2>1. /\ g.files[j].entry = members[j] /\ g.files[j].first = src.entries[E[j]].first
        /\ g.files[j].size = src.entries[E[j]].size
    BY <1>7
  <2>2. /\ g.files[j].size = Len(Content(g.files[j].entry))
        /\ g.files[j].first + g.files[j].size <= g.unpack
    BY <1>6, <1>14, <2>1
  <2>3. \A x \in 1 .. g.files[j].size :
          g.payload[g.files[j].first + x] = Content(g.files[j].entry)[x]
    <3>1. PICK e, c, first, size : /\ e = E[j] /\ c = Content(members[j])
                                   /\ first = src.entries[e].first /\ size = src.entries[e].size
      OBVIOUS
    <3>2. \A x \in 1 .. size : c[x] = src.folders[id][first + x]
      BY <1>14, <3>1, SMTT(30)
    <3>3. /\ g.files[j].size = size /\ g.files[j].first = first
          /\ Content(g.files[j].entry) = c /\ g.payload = src.folders[id]
      BY <1>6, <2>1, <3>1
    <3> QED
      BY <3>2, <3>3
  <2>4. j = 1 => g.files[j].first = 0
    BY <1>15, <2>1
  <2>5. j = n => g.files[j].first + g.files[j].size = g.unpack
    BY <1>6, <1>16, <2>1
  <2>6. ASSUME j < n PROVE g.files[j + 1].first = g.files[j].first + g.files[j].size
    <3>1. j + 1 \in 1 .. n
      BY <2>6
    <3>2. g.files[j + 1].first = src.entries[E[j + 1]].first
      BY <1>7, <3>1
    <3> QED
      BY <1>17, <2>1, <2>6, <3>2
  <2> QED
    BY <1>6, <2>2, <2>3, <2>4, <2>5, <2>6
<1>20. /\ \A j \in 1 .. n : g.files[j].entry \in Members(id)
       /\ \A i \in Members(id) : \E j \in 1 .. n : g.files[j].entry = i
       /\ \A j, l \in 1 .. n : j < l => g.files[j].entry < g.files[l].entry
  BY <1>2, <1>7
<1>21. Holds(g, Members(id))
  BY <1>6, <1>18, <1>19, <1>20 DEF Holds
<1> QED
  BY <1>1, <1>21

LEMMA ContentKept ==
  ASSUME UNCHANGED <<src, request, seen>>
  PROVE  \A i : Content(i)' = Content(i)
BY DEF Content, Bytes

LEMMA HoldsKept ==
  ASSUME NEW f, NEW M, Holds(f, M), \A i \in M : Content(i)' = Content(i)
  PROVE  Holds(f, M)'
<1>1. \A j \in DOMAIN f.files : f.files[j].entry \in M
  BY DEF Holds
<1>2. \A j \in DOMAIN f.files : Content(f.files[j].entry)' = Content(f.files[j].entry)
  BY <1>1
<1> QED
  BY <1>2 DEF Holds

(* One more stream at the end of a folder. *)
LEMMA RecordedHolds ==
  ASSUME NEW f \in FolderRecord, NEW M \in SUBSET Nat, Holds(f, M), NEW i \in Nat,
         \A k \in M : k < i, NEW c \in Seq(Chunk), c = Content(i),
         NEW g \in FolderRecord, g.files = Append(f.files, FolderFile(i, f.unpack, Len(c))),
         g.unpack = f.unpack + Len(c), g.payload = f.payload \o c
  PROVE  Holds(g, M \cup {i})
<1>1. PICK n \in Nat : n = Len(f.files) /\ DOMAIN f.files = 1 .. n
  BY FolderTypes
<1>2. /\ f.files \in Seq([entry : Nat, first : Nat, size : Nat]) /\ f.unpack \in Nat
      /\ f.payload \in Seq(Chunk) /\ Len(c) \in Nat
  BY FolderTypes
<1>3. PICK u \in Nat, size \in Nat : u = f.unpack /\ size = Len(c)
  BY <1>2
<1>4. PICK new \in [entry : Nat, first : Nat, size : Nat] :
        new = FolderFile(i, u, size) /\ new.entry = i /\ new.first = u /\ new.size = size
  BY <1>3 DEF FolderFile
<1>5. /\ Len(g.files) = n + 1 /\ DOMAIN g.files = 1 .. n + 1 /\ g.files[n + 1] = new
      /\ \A j \in 1 .. n : g.files[j] = f.files[j]
  BY <1>1, <1>2, <1>3, <1>4, AppendAt
<1>6. /\ u = Len(f.payload) /\ Len(g.payload) = u + size /\ g.unpack = u + size
      /\ \A x \in 1 .. u : g.payload[x] = f.payload[x]
      /\ \A x \in 1 .. size : g.payload[u + x] = c[x]
  <2>1. u = Len(f.payload)
    BY <1>3 DEF Holds
  <2> QED
    BY <1>2, <1>3, <2>1, ConcatAt
<1>7. \A j \in 1 .. n + 1 : j \in 1 .. n \/ j = n + 1
  BY <1>1
<1>8. \A j \in 1 .. n : j \in 1 .. n + 1
  BY <1>1
<1>9. n + 1 \in 1 .. n + 1
  BY <1>1
<1>10. \A j \in 1 .. n : f.files[j].entry \in M /\ f.files[j].entry < i
  BY <1>1 DEF Holds
<1>11. \A j \in 1 .. n + 1 : g.files[j].entry \in M \cup {i}
  BY <1>4, <1>5, <1>7, <1>10
<1>12. \A k \in M \cup {i} : \E j \in 1 .. n + 1 : g.files[j].entry = k
  <2>1. \A k \in M : \E j \in 1 .. n : f.files[j].entry = k
    BY <1>1 DEF Holds
  <2> QED
    BY <1>4, <1>5, <1>8, <1>9, <2>1
<1>13. ASSUME NEW j \in 1 .. n + 1, NEW l \in 1 .. n + 1, j < l
       PROVE  g.files[j].entry < g.files[l].entry
  <2>1. j \in 1 .. n
    BY <1>1, <1>13
  <2>2. CASE l \in 1 .. n
    BY <1>1, <1>5, <1>13, <2>1, <2>2 DEF Holds
  <2>3. CASE l = n + 1
    BY <1>4, <1>5, <1>10, <2>1, <2>3
  <2> QED
    BY <1>7, <2>2, <2>3
<1>14. ASSUME NEW j \in 1 .. n
       PROVE  /\ f.files[j].first \in Nat /\ f.files[j].size \in Nat
              /\ f.files[j].size = Len(Content(f.files[j].entry))
              /\ f.files[j].first + f.files[j].size <= u
              /\ \A x \in 1 .. f.files[j].size :
                   f.payload[f.files[j].first + x] = Content(f.files[j].entry)[x]
              /\ j = 1 => f.files[j].first = 0
              /\ j = n => f.files[j].first + f.files[j].size = u
              /\ j < n => f.files[j + 1].first = f.files[j].first + f.files[j].size
  BY <1>1, <1>3, FolderTypes DEF Holds
<1>15. ASSUME NEW j \in 1 .. n + 1
       PROVE  LET file == g.files[j]
              IN /\ file.size = Len(Content(file.entry)) /\ file.first + file.size <= g.unpack
                 /\ \A x \in 1 .. file.size : g.payload[file.first + x] = Content(file.entry)[x]
                 /\ j = 1 => file.first = 0
                 /\ j = n + 1 => file.first + file.size = g.unpack
                 /\ j < n + 1 => g.files[j + 1].first = file.first + file.size
  <2>1. CASE j \in 1 .. n
    <3>1. PICK file : file = f.files[j] /\ file = g.files[j]
      BY <1>5, <2>1
    <3>2. /\ file.first \in Nat /\ file.size \in Nat
          /\ file.size = Len(Content(file.entry)) /\ file.first + file.size <= u
          /\ \A x \in 1 .. file.size : f.payload[file.first + x] = Content(file.entry)[x]
          /\ j = 1 => file.first = 0
      BY <1>14, <2>1, <3>1
    <3>3. file.first + file.size <= g.unpack
      BY <1>3, <1>6, <3>2, SMTT(30)
    <3>4. ASSUME NEW x \in 1 .. file.size
          PROVE  g.payload[file.first + x] = Content(file.entry)[x]
      <4>1. file.first + x \in 1 .. u
        BY <1>3, <3>2, SMTT(30)
      <4> QED
        BY <1>6, <3>2, <4>1
    <3>5. j # n + 1
      BY <1>1, <2>1
    <3>6. g.files[j + 1].first = file.first + file.size
      <4>1. CASE j = n
        BY <1>4, <1>5, <1>14, <2>1, <3>1, <4>1
      <4>2. CASE j < n
        <5>1. j + 1 \in 1 .. n
          BY <2>1, <4>2
        <5> QED
          BY <1>5, <1>14, <2>1, <3>1, <4>2, <5>1
      <4> QED
        BY <1>1, <2>1, <4>1, <4>2
    <3> QED
      BY <3>1, <3>2, <3>3, <3>4, <3>5, <3>6
  <2>2. CASE j = n + 1
    <3>1. g.files[j] = new
      BY <1>5, <2>2
    <3>2. new.size = Len(Content(new.entry)) /\ new.first + new.size = g.unpack
      BY <1>3, <1>4, <1>6
    <3>3. new.first + new.size <= g.unpack
      BY <1>3, <1>4, <1>6
    <3>4. \A x \in 1 .. new.size : g.payload[new.first + x] = Content(new.entry)[x]
      BY <1>4, <1>6
    <3>5. ASSUME j = 1 PROVE new.first = 0
      <4>1. n = 0
        BY <1>1, <2>2, <3>5
      <4>2. f.files = <<>>
        BY <1>1, <1>2, <4>1, EmptySeq
      <4> QED
        BY <1>3, <1>4, <4>2 DEF Holds
    <3>6. ~(j < n + 1)
      BY <1>1, <2>2
    <3> QED
      BY <3>1, <3>2, <3>3, <3>4, <3>5, <3>6
  <2> QED
    BY <1>7, <2>1, <2>2
<1>16. g.files # <<>>
  <2>1. Len(g.files) # 0
    BY <1>1, <1>5
  <2>2. g.files \in Seq([entry : Nat, first : Nat, size : Nat])
    BY FolderTypes
  <2> QED
    BY <2>1, <2>2, EmptySeq
<1>17. g.unpack = Len(g.payload)
  BY <1>6
<1> QED
  BY <1>5, <1>11, <1>12, <1>13, <1>15, <1>16, <1>17 DEF Holds

LEMMA EmptyHolds == Holds(NoFolder, {})
<1>1. DOMAIN NoFolder.files = {} /\ NoFolder.unpack = 0 /\ Len(NoFolder.payload) = 0
  BY NoFolderType
<1> QED
  BY <1>1 DEF Holds

LEMMA OrderDistinct ==
  ASSUME TypeOK, OrderInv, NEW p \in DOMAIN order, NEW q \in DOMAIN order, p # q
  PROVE  order[p] # order[q]
<1>1. p < q \/ q < p
  BY RequestTypes
<1> QED
  BY <1>1 DEF OrderInv

(* What is written stays, as long as the inputs of its entries do. *)
LEMMA WriteKept ==
  ASSUME WriteInv, Writing, UNCHANGED <<src, request, ids, order, completed, raws>>,
         Len(seen') = Len(seen),
         \A i \in DOMAIN request : request[i].kind = "data" => seen'[i] = seen[i],
         \A p \in DOMAIN completed : \A i \in Members(order[p]) : Content(i)' = Content(i)
  PROVE  WriteInv'
<1>1. ASSUME NEW p \in DOMAIN completed PROVE Holds(completed[p], Members(order[p]))'
  <2>1. PICK f, M : f = completed[p] /\ M = Members(order[p])
    OBVIOUS
  <2>2. f = completed'[p] /\ M = Members(order[p])'
    BY <2>1 DEF Members
  <2>3. Holds(f, M) /\ \A i \in M : Content(i)' = Content(i)
    BY <1>1, <2>1 DEF WriteInv
  <2>4. Holds(f, M)'
    BY <2>3, HoldsKept
  <2> QED
    BY <2>2, <2>4
<1>2. /\ Len(seen') = Len(request')
      /\ \A i \in DOMAIN request' : request'[i].kind = "data" => seen'[i] = request'[i].data
      /\ Len(completed') <= Len(order')
  BY DEF WriteInv
<1>3. \A p \in Len(completed') + 1 .. Len(order') : \A i \in DOMAIN request' :
        request'[i].kind = "raw" /\ ids'[i] = order'[p] => ids'[i] \in raws'
  BY DEF WriteInv
<1> QED
  BY <1>1, <1>2, <1>3 DEF WriteInv

(* The folder whose turn it is, in the next state. *)
LEMMA CurrentKept ==
  ASSUME UNCHANGED <<request, ids, order, completed>>
  PROVE  Members(CurrentId)' = Members(CurrentId)
BY DEF Members, CurrentId

(* One more folder, which holds the data of its entries. *)
LEMMA CompletedGrows ==
  ASSUME TypeOK, WriteInv, Writing, OrderInv, Len(completed) < Len(order),
         UNCHANGED <<src, request, ids, order, seen>>,
         NEW g \in FolderRecord, Holds(g, Members(CurrentId)), completed' = Append(completed, g),
         raws' = raws \ {CurrentId} \/ raws' = raws
  PROVE  WriteInv'
<1>1. PICK n \in Nat : n = Len(completed) /\ DOMAIN completed = 1 .. n
  BY RequestTypes
<1>2. PICK m \in Nat : m = Len(order) /\ DOMAIN order = 1 .. m
  BY RequestTypes
<1>3. n < m /\ n + 1 \in 1 .. m /\ CurrentId = order[n + 1]
  BY <1>1, <1>2 DEF CurrentId
<1>4. completed \in Seq(FolderRecord)
  BY DEF TypeOK
<1>5. /\ Len(completed') = n + 1 /\ DOMAIN completed' = 1 .. n + 1 /\ completed'[n + 1] = g
      /\ \A p \in 1 .. n : completed'[p] = completed[p]
  BY <1>1, <1>4, AppendAt
<1>6. \A i : Content(i)' = Content(i)
  BY ContentKept
<1>7. ASSUME NEW p \in 1 .. n + 1 PROVE Holds(completed[p], Members(order[p]))'
  <2>1. PICK f, M : f = completed'[p] /\ M = Members(order[p])
    OBVIOUS
  <2>2. M = Members(order[p])'
    BY <2>1 DEF Members
  <2>3. Holds(f, M)
    <3>1. CASE p \in 1 .. n
      BY <1>1, <1>5, <2>1, <3>1 DEF WriteInv
    <3>2. CASE p = n + 1
      BY <1>3, <1>5, <2>1, <3>2
    <3> QED
      BY <1>1, <3>1, <3>2
  <2>4. Holds(f, M)'
    BY <1>6, <2>3, HoldsKept
  <2> QED
    BY <2>1, <2>2, <2>4
<1>8. ASSUME NEW p \in n + 2 .. m, NEW i \in DOMAIN request, request[i].kind = "raw", ids[i] = order[p]
      PROVE  ids[i] \in raws'
  <2>1. p \in n + 1 .. m /\ p \in 1 .. m /\ p # n + 1
    BY <1>1, <1>2
  <2>2. ids[i] \in raws
    BY <1>1, <1>2, <1>8, <2>1 DEF WriteInv
  <2>3. order[p] # order[n + 1]
    BY <1>2, <1>3, <2>1, OrderDistinct
  <2> QED
    BY <1>3, <1>8, <2>2, <2>3
<1>9. /\ Len(seen') = Len(request')
      /\ \A i \in DOMAIN request' : request'[i].kind = "data" => seen'[i] = request'[i].data
  BY DEF WriteInv
<1>10. Len(completed') <= Len(order')
  BY <1>2, <1>3, <1>5
<1>11. \A p \in DOMAIN completed' : Holds(completed[p], Members(order[p]))'
  BY <1>5, <1>7
<1>12. \A p \in Len(completed') + 1 .. Len(order') : p \in n + 2 .. m
  BY <1>1, <1>2, <1>5
<1>13. \A p \in Len(completed') + 1 .. Len(order') : \A i \in DOMAIN request' :
         request'[i].kind = "raw" /\ ids'[i] = order'[p] => ids'[i] \in raws'
  BY <1>8, <1>12
<1> QED
  BY <1>9, <1>10, <1>11, <1>13 DEF WriteInv

(* Data is read for entries of the active folder only. *)
LEMMA ReadElsewhere ==
  ASSUME TypeOK, OrderInv, WriteInv, EncodeInv, pc = "encode", NEW i \in files, NEW p \in DOMAIN completed
  PROVE  i \notin Members(order[p])
<1>1. ids[i] = order[Len(completed) + 1] /\ Len(completed) < Len(order)
  BY DEF EncodeInv, Members, CurrentId
<1>2. /\ p \in DOMAIN order /\ Len(completed) + 1 \in DOMAIN order /\ p # Len(completed) + 1
  BY <1>1, RequestTypes
<1>3. order[p] # order[Len(completed) + 1]
  BY <1>2, OrderDistinct
<1> QED
  BY <1>1, <1>3 DEF Members

LEMMA BeginWrites ==
  ASSUME TypeOK, PhaseInv, RawInv, IdsInv, Begin
  PROVE  WriteInv'
<1> USE DEF inputs, world, scan, plan, stage
<1>1. /\ pc = "begin" /\ UNCHANGED <<src, request, ids, order, raws, completed>>
      /\ completed = <<>>
      /\ seen' = [i \in DOMAIN request |-> request[i].data]
  BY DEF Begin, PhaseInv
<1>2. DOMAIN request = 1 .. Len(request) /\ Len(request) \in Nat /\ Len(order) \in Nat
  BY RequestTypes
<1>3. seen' \in [1 .. Len(request) -> Seq(Chunk)]
  BY <1>1, <1>2, RequestTypes
<1>4. Len(seen') = Len(request)
  BY <1>2, <1>3, SeqOf
<1>5. \A i \in DOMAIN request : seen'[i] = request[i].data
  BY <1>1
<1>6. Len(completed') = 0 /\ DOMAIN completed' = {}
  BY <1>1
<1>7. \A i \in DOMAIN request : request[i].kind = "raw" => ids[i] \in raws
  <2>1. DOMAIN ids = DOMAIN request
    BY <1>1, RequestTypes DEF IdsInv, Staged
  <2> QED
    BY <1>1, <2>1 DEF IdsInv, RawInv
<1> QED
  BY <1>1, <1>2, <1>4, <1>5, <1>6, <1>7 DEF WriteInv

LEMMA EncodingStarts ==
  ASSUME TypeOK, IdsInv, OrderInv, WriteInv, OpenEncoded
  PROVE  EncodeInv'
<1> USE DEF inputs, world, scan, plan, stage
<1>1. /\ pc = "folders" /\ Len(completed) < Len(order) /\ CurrentId \notin raws
      /\ files' = Members(CurrentId) /\ folder' = NoFolder
      /\ UNCHANGED <<src, request, ids, order, completed, seen>>
  BY DEF OpenEncoded
<1>0. PICK m \in Nat : m = Len(order) /\ DOMAIN order = 1 .. m
  BY RequestTypes
<1>2. PICK n \in Nat : n = Len(completed) /\ n + 1 \in DOMAIN order /\ n + 1 \in n + 1 .. Len(order)
  <2>1. PICK n \in Nat : n = Len(completed)
    BY RequestTypes
  <2> QED
    BY <1>0, <1>1, <2>1
<1>3. DOMAIN ids = DOMAIN request
  BY <1>1, RequestTypes DEF IdsInv, Staged
<1>4. ASSUME NEW i \in Members(CurrentId) PROVE IsNew(i)
  <2>1. i \in DOMAIN request /\ ids[i] = order[n + 1] /\ ids[i] \notin raws
    BY <1>1, <1>2, <1>4 DEF Members, CurrentId
  <2>2. request[i].kind # "raw"
    BY <1>1, <1>2, <2>1 DEF WriteInv, Writing
  <2>3. request[i].kind # "none"
    BY <1>2, <1>3, <2>1 DEF IdsInv, OrderInv
  <2> QED
    BY <2>1, <2>2, <2>3, RequestTypes DEF IsNew
<1>5. Members(CurrentId)' = Members(CurrentId)
  BY <1>1, CurrentKept
<1>6. \A i : IsNew(i)' <=> IsNew(i)
  BY <1>1 DEF IsNew
<1>7. Members(CurrentId)' \ files' = {}
  BY <1>1, <1>5
<1>8. Holds(NoFolder, {})'
  BY EmptyHolds, HoldsKept
<1>9. Holds(folder, Members(CurrentId) \ files)'
  BY <1>1, <1>7, <1>8
<1>10. files' \subseteq Members(CurrentId)'
  BY <1>1, <1>5
<1>11. \A i \in Members(CurrentId)' : IsNew(i)'
  BY <1>4, <1>5, <1>6
<1> QED
  BY <1>1, <1>7, <1>9, <1>10, <1>11 DEF EncodeInv

LEMMA ChunkReads ==
  ASSUME TypeOK, OrderInv, WriteInv, EncodeInv, ReadChunk
  PROVE  WriteInv' /\ EncodeInv'
<1> USE DEF inputs, world, scan, plan, stage
<1>1. /\ pc = "encode" /\ UNCHANGED <<src, request, ids, order, raws, completed, files, folder>>
      /\ Writing
  BY DEF ReadChunk, Writing
<1>2. PICK i \in files : /\ request[i].kind = "path"
                         /\ \E s : seen' = [seen EXCEPT ![i] = s]
  BY DEF ReadChunk
<1>3. PICK s : seen' = [seen EXCEPT ![i] = s]
  BY <1>2
<1>4. seen \in Seq(Seq(Chunk)) /\ Len(seen) = Len(request)
  BY <1>1 DEF TypeOK, WriteInv
<1>5. i \in 1 .. Len(request) /\ i \in DOMAIN seen
  <2>1. i \in 1 .. Len(request)
    BY <1>1, MembersType DEF EncodeInv
  <2> QED
    BY <1>4, <2>1
<1>6. Len(seen') = Len(seen) /\ \A k : k # i => seen'[k] = seen[k]
  <2>1. Len(seen') = Len(seen)
    BY <1>3, <1>4
  <2>2. \A k : k # i => seen'[k] = seen[k]
    <3> SUFFICES ASSUME NEW k, k # i PROVE seen'[k] = seen[k]
      OBVIOUS
    <3>1. CASE k \in DOMAIN seen
      BY <1>3, <3>1
    <3>2. CASE k \notin DOMAIN seen
      BY <1>3, <3>2
    <3> QED
      BY <3>1, <3>2
  <2> QED
    BY <2>1, <2>2
<1>7. \A k : k # i => Content(k)' = Content(k)
  BY <1>1, <1>6 DEF Content, Bytes
<1>8. \A p \in DOMAIN completed : \A k \in Members(order[p]) : Content(k)' = Content(k)
  BY <1>1, <1>7, ReadElsewhere
<1>9. \A k \in DOMAIN request : request[k].kind = "data" => seen'[k] = seen[k]
  BY <1>2, <1>6
<1>10. WriteInv'
  BY <1>1, <1>6, <1>8, <1>9, WriteKept
<1>11. PICK f, M : f = folder /\ M = Members(CurrentId) \ files
  OBVIOUS
<1>12. Holds(f, M) /\ i \notin M
  BY <1>1, <1>11 DEF EncodeInv
<1>13. \A k \in M : Content(k)' = Content(k)
  BY <1>7, <1>12
<1>14. Holds(f, M)'
  BY <1>12, <1>13, HoldsKept
<1>15. Members(CurrentId)' = Members(CurrentId)
  BY <1>1, CurrentKept
<1>16. Holds(folder, Members(CurrentId) \ files)'
  BY <1>1, <1>11, <1>14, <1>15
<1>17. \A k : IsNew(k)' <=> IsNew(k)
  BY <1>1 DEF IsNew
<1>18. EncodeInv'
  BY <1>1, <1>15, <1>16, <1>17 DEF EncodeInv
<1> QED
  BY <1>10, <1>18

LEMMA StreamRecorded ==
  ASSUME TypeOK, TypeOK', OrderInv, WriteInv, EncodeInv, RecordStream
  PROVE  WriteInv' /\ EncodeInv'
<1> USE DEF inputs, world, scan, plan, stage
<1>1. /\ pc = "encode" /\ UNCHANGED <<src, request, ids, order, raws, completed, seen>> /\ Writing
  BY DEF RecordStream, Writing
<1>2. PICK i \in files :
        /\ \A j \in files : i <= j
        /\ folder' = [files |-> Append(folder.files, FolderFile(i, folder.unpack, Len(seen[i]))),
                      unpack |-> folder.unpack + Len(seen[i]), payload |-> folder.payload \o seen[i]]
        /\ files' = files \ {i}
  BY DEF RecordStream, NextFile
<1>3. \A k : Content(k)' = Content(k)
  BY <1>1, ContentKept
<1>4. WriteInv'
  BY <1>1, <1>3, WriteKept
<1>5. PICK A : A = Members(CurrentId)
  OBVIOUS
<1>6. /\ Len(completed) < Len(order) /\ files \subseteq A /\ \A k \in A : IsNew(k)
      /\ \A k \in A \ files : \A j \in files : k < j
      /\ Holds(folder, A \ files) /\ A \in SUBSET (1 .. Len(request)) /\ Len(request) \in Nat
  BY <1>1, <1>5, MembersType DEF EncodeInv
<1>7. A = Members(CurrentId)'
  BY <1>1, <1>5, CurrentKept
<1>8. PICK f \in FolderRecord : f = folder
  BY DEF TypeOK
<1>9. PICK M \in SUBSET Nat : M = A \ files
  BY <1>6
<1>10. i \in Nat /\ i \in 1 .. Len(request) /\ i \in A
  BY <1>6
<1>11. PICK c \in Seq(Chunk) : c = seen[i] /\ c = Content(i)
  <2>1. seen \in Seq(Seq(Chunk)) /\ Len(seen) = Len(request)
    BY <1>1 DEF TypeOK, WriteInv
  <2>2. seen[i] \in Seq(Chunk)
    BY <1>10, <2>1
  <2>3. IsNew(i)
    BY <1>6, <1>10
  <2> QED
    BY <2>2, <2>3 DEF Content, IsNew
<1>12. PICK g \in FolderRecord : g = folder'
  BY DEF TypeOK
<1>13. /\ g.files = Append(f.files, FolderFile(i, f.unpack, Len(c)))
       /\ g.unpack = f.unpack + Len(c) /\ g.payload = f.payload \o c
  BY <1>2, <1>8, <1>11, <1>12
<1>14. Holds(f, M) /\ \A k \in M : k < i
  BY <1>6, <1>8, <1>9
<1>15. Holds(g, M \cup {i})
  BY <1>10, <1>11, <1>13, <1>14, RecordedHolds
<1>16. M \cup {i} = A \ files'
  BY <1>2, <1>9, <1>10
<1>17. PICK N : N = M \cup {i}
  OBVIOUS
<1>18. Holds(g, N)'
  BY <1>3, <1>15, <1>17, HoldsKept
<1>19. Holds(folder, Members(CurrentId) \ files)'
  BY <1>7, <1>12, <1>16, <1>17, <1>18
<1>20. \A k \in A \ files' : \A j \in files' : k < j
  <2> SUFFICES ASSUME NEW k \in A \ files', NEW j \in files' PROVE k < j
    OBVIOUS
  <2>1. j \in files /\ j # i /\ i <= j /\ j \in Nat
    BY <1>2, <1>6
  <2>2. CASE k = i
    BY <1>10, <2>1, <2>2
  <2>3. CASE k # i
    BY <1>2, <1>6, <2>1, <2>3
  <2> QED
    BY <2>2, <2>3
<1>21. \A k : IsNew(k)' <=> IsNew(k)
  BY <1>1 DEF IsNew
<1>22. files' \subseteq A
  BY <1>2, <1>6
<1>23. EncodeInv'
  <2>1. Len(completed') < Len(order')
    BY <1>1, <1>6
  <2>2. \A k \in Members(CurrentId)' : IsNew(k)'
    BY <1>6, <1>7, <1>21
  <2> QED
    BY <1>7, <1>19, <1>20, <1>22, <2>1, <2>2 DEF EncodeInv
<1> QED
  BY <1>4, <1>23

LEMMA WriteStep ==
  TypeOK /\ TypeOK' /\ PhaseInv /\ RawInv /\ IdsInv /\ OrderInv /\ WriteInv /\ EncodeInv
    /\ [Next]_vars => WriteInv' /\ EncodeInv'
<1> SUFFICES ASSUME TypeOK, TypeOK', PhaseInv, RawInv, IdsInv, OrderInv, WriteInv, EncodeInv,
                    [Next]_vars
             PROVE  WriteInv' /\ EncodeInv'
  OBVIOUS
<1> USE DEF inputs, world, scan, plan, stage, output
<1>1. ASSUME pc' \notin {"folders", "encode"}, out' # "signed" PROVE WriteInv' /\ EncodeInv'
  BY <1>1 DEF WriteInv, EncodeInv, Writing
<1>2. ASSUME Writing, UNCHANGED <<src, request, ids, order, completed, raws, seen>>
      PROVE  WriteInv'
  <2>1. \A i : Content(i)' = Content(i)
    BY <1>2, ContentKept
  <2> QED
    BY <1>2, <2>1, WriteKept
<1>3. CASE ScanOperand
  BY <1>1, <1>3 DEF ScanOperand, PhaseInv
<1>4. CASE ScanEnds
  BY <1>1, <1>4 DEF ScanEnds, PhaseInv
<1>5. CASE CollectPath
  BY <1>1, <1>5 DEF CollectPath, PhaseInv
<1>6. CASE CollectEnds
  BY <1>1, <1>6 DEF CollectEnds, PhaseInv
<1>7. CASE PlanFolders
  BY <1>1, <1>7 DEF PlanFolders, PhaseInv
<1>8. CASE RetainEntry
  BY <1>1, <1>8 DEF RetainEntry, PhaseInv
<1>9. CASE AppendPending
  BY <1>1, <1>9 DEF AppendPending, PhaseInv
<1>10. CASE Validate
  BY <1>1, <1>10 DEF Validate, Reject, PhaseInv
<1>11. CASE Stage
  BY <1>1, <1>11 DEF Stage, PhaseInv
<1>12. CASE StageEntry
  BY <1>1, <1>12 DEF StageEntry, PhaseInv
<1>13. CASE StageEnds
  BY <1>1, <1>13 DEF StageEnds, Reject, PhaseInv
<1>14. CASE Begin
  BY <1>14, BeginWrites DEF Begin, EncodeInv
<1>15. CASE WriteRaw
  <2>1. /\ pc = "folders" /\ pc' = "folders" /\ Len(completed) < Len(order) /\ CurrentId \in raws
        /\ raws' = raws \ {CurrentId} /\ UNCHANGED <<src, request, ids, order, seen>>
    BY <1>15 DEF WriteRaw
  <2>2. PICK members \in Sorted(Members(CurrentId)) : completed' = Append(completed,
         [files |-> [j \in DOMAIN members |->
             FolderFile(members[j], src.entries[request[members[j]].entry].first,
                        request[members[j]].size)],
          unpack |-> Len(src.folders[CurrentId]), payload |-> src.folders[CurrentId]])
    BY <1>15 DEF WriteRaw
  <2>3. PICK g : g = [files |-> [j \in DOMAIN members |->
                        FolderFile(members[j], src.entries[request[members[j]].entry].first,
                                   request[members[j]].size)],
                     unpack |-> Len(src.folders[CurrentId]), payload |-> src.folders[CurrentId]]
    OBVIOUS
  <2>4. g \in FolderRecord /\ Len(g.files) = Len(members) /\ completed' = Append(completed, g)
    BY <2>1, <2>2, <2>3, CopiedFolderType
  <2>5. /\ g.unpack = Len(src.folders[CurrentId]) /\ g.payload = src.folders[CurrentId]
        /\ \A j \in DOMAIN members :
             /\ g.files[j].entry = members[j]
             /\ g.files[j].first = src.entries[request[members[j]].entry].first
             /\ g.files[j].size = request[members[j]].size
    BY <2>1, <2>3, CopiedFolderType
  <2>6. Holds(g, Members(CurrentId))
    BY <2>1, <2>4, <2>5, CopiedHolds
  <2>7. WriteInv'
    BY <2>1, <2>4, <2>6, CompletedGrows DEF Writing
  <2> QED
    BY <2>1, <2>7 DEF EncodeInv
<1>16. CASE OpenEncoded
  BY <1>2, <1>16, EncodingStarts DEF OpenEncoded, Writing
<1>17. CASE ReadChunk
  BY <1>17, ChunkReads
<1>18. CASE RecordStream
  BY <1>18, StreamRecorded
<1>19. CASE CompleteFolder
  <2>1. /\ pc = "encode" /\ files = {} /\ completed' = Append(completed, folder) /\ pc' = "folders"
        /\ UNCHANGED <<src, request, ids, order, seen, raws>>
    BY <1>19 DEF CompleteFolder
  <2>2. Members(CurrentId) \ {} = Members(CurrentId)
    OBVIOUS
  <2>3. Holds(folder, Members(CurrentId)) /\ Len(completed) < Len(order)
    BY <2>1, <2>2 DEF EncodeInv
  <2>4. PICK g \in FolderRecord : g = folder
    BY DEF TypeOK
  <2>5. WriteInv'
    BY <2>1, <2>3, <2>4, CompletedGrows DEF Writing
  <2> QED
    BY <2>1, <2>5 DEF EncodeInv
<1>20. CASE Finish
  BY <1>2, <1>20 DEF Finish, Writing, EncodeInv
<1>21. CASE Fail
  <2>1. pc' = "done" /\ out # "signed" /\ out' = out
    BY <1>21 DEF Fail, PhaseInv
  <2> QED
    BY <1>1, <2>1
<1>22. ASSUME UNCHANGED <<src, request, ids, order, completed, raws, seen, pc, out, files, folder>>
       PROVE  WriteInv' /\ EncodeInv'
  <2>1. ~Writing => WriteInv' /\ EncodeInv'
    BY <1>1, <1>22 DEF Writing
  <2>2. Writing => WriteInv'
    BY <1>2, <1>22
  <2>3. Members(CurrentId)' = Members(CurrentId)
    BY <1>22, CurrentKept
  <2>4. ASSUME pc = "encode" PROVE EncodeInv'
    <3>1. PICK f, M : f = folder /\ M = Members(CurrentId) \ files
      OBVIOUS
    <3>2. Holds(f, M)
      BY <2>4, <3>1 DEF EncodeInv
    <3>3. Holds(f, M)'
      BY <1>22, <3>2, ContentKept, HoldsKept
    <3>4. Holds(folder, Members(CurrentId) \ files)'
      BY <1>22, <2>3, <3>1, <3>3
    <3>5. \A k : IsNew(k)' <=> IsNew(k)
      BY <1>22 DEF IsNew
    <3> QED
      BY <1>22, <2>3, <2>4, <3>4, <3>5 DEF EncodeInv
  <2>5. pc # "encode" => EncodeInv'
    BY <1>22 DEF EncodeInv
  <2> QED
    BY <2>1, <2>2, <2>4, <2>5
<1>23. CASE Read
  BY <1>22, <1>23 DEF Read
<1>24. ASSUME NEW p \in 1 .. Paths, Change(p) PROVE WriteInv' /\ EncodeInv'
  BY <1>22, <1>24 DEF Change
<1>25. CASE UNCHANGED vars
  BY <1>22, <1>25 DEF vars
<1> QED
  BY <1>3, <1>4, <1>5, <1>6, <1>7, <1>8, <1>9, <1>10, <1>11, <1>12, <1>13, <1>14, <1>15, <1>16,
     <1>17, <1>18, <1>19, <1>20, <1>21, <1>23, <1>24, <1>25 DEF Next, Step

(***************************************************************************)
(* The new archive and its reader.                                         *)
(***************************************************************************)

(* What the header says of a folder. *)
LEMMA FolderSizes ==
  ASSUME NEW f \in FolderRecord
  PROVE  LET h == FolderHeader(Sizes(f))
         IN /\ h.count = Len(f.files) /\ h.unpack = f.unpack
            /\ \A j \in 1 .. Len(f.files) : j < Len(f.files) => h.sizes[j] = f.files[j].size
<1>1. PICK n \in Nat : n = Len(f.files) /\ DOMAIN f.files = 1 .. n
  BY FolderTypes
<1>2. PICK s : s = [j \in 1 .. n |-> f.files[j].size]
  OBVIOUS
<1>3. s \in [1 .. n -> Nat]
  BY <1>1, <1>2, FolderTypes
<1>4. s \in Seq(Nat) /\ Len(s) = n
  BY <1>3, SeqOf
<1>5. Sizes(f).files = s /\ Sizes(f).unpack = f.unpack
  BY <1>1, <1>2 DEF Sizes
<1>6. PICK h : h = FolderHeader(Sizes(f))
  OBVIOUS
<1>7. h.count = n /\ h.unpack = f.unpack /\ h.sizes = SubSeq(s, 1, n - 1)
  BY <1>4, <1>5, <1>6 DEF FolderHeader
<1>8. ASSUME NEW j \in 1 .. n, j < n PROVE SubSeq(s, 1, n - 1)[j] = s[j]
  BY <1>4, <1>8
<1>9. ASSUME NEW j \in 1 .. n, j < n PROVE h.sizes[j] = f.files[j].size
  BY <1>2, <1>7, <1>8, <1>9
<1> QED
  BY <1>1, <1>6, <1>7, <1>9

LEMMA HeaderIs ==
  ASSUME TypeOK, header = BuildHeader
  PROVE  /\ Len(header.streams) = Len(request) /\ Len(header.folders) = Len(completed)
         /\ \A k \in DOMAIN request : header.streams[k] = (request[k].kind # "none")
         /\ \A f \in DOMAIN completed :
              /\ header.folders[f].count = Len(completed[f].files)
              /\ header.folders[f].unpack = completed[f].unpack
              /\ \A j \in 1 .. Len(completed[f].files) : j < Len(completed[f].files) =>
                   header.folders[f].sizes[j] = completed[f].files[j].size
<1>1. PICK n \in Nat : n = Len(request) /\ DOMAIN request = 1 .. n
  BY RequestTypes
<1>2. PICK m \in Nat : m = Len(completed) /\ DOMAIN completed = 1 .. m
  BY RequestTypes
<1>3. /\ header.streams = [i \in 1 .. n |-> request[i].kind # "none"]
      /\ header.folders = [f \in 1 .. m |-> FolderHeader(Sizes(completed[f]))]
  BY <1>1, <1>2 DEF BuildHeader
<1>4. Len(header.streams) = n
  BY <1>1, <1>3
<1>5. Len(header.folders) = m
  BY <1>2, <1>3
<1>6. \A f \in 1 .. m : completed[f] \in FolderRecord
  BY <1>2, SeqAt DEF TypeOK
<1>7. \A f \in 1 .. m : header.folders[f] = FolderHeader(Sizes(completed[f]))
  BY <1>3
<1>8. \A k \in 1 .. n : header.streams[k] = (request[k].kind # "none")
  BY <1>3
<1> QED
  BY <1>1, <1>2, <1>4, <1>5, <1>6, <1>7, <1>8, FolderSizes

LEMMA SlotOf ==
  ASSUME TypeOK, IdsInv, OrderInv, WriteInv, SignedInv, out = "signed", NEW k \in DOMAIN request,
         request[k].kind # "none"
  PROVE  \E p \in DOMAIN completed : \E j \in DOMAIN completed[p].files :
           /\ Slot(k) = <<p, j>> /\ completed[p].files[j].entry = k
           /\ ids[k] = order[p] /\ p \in DOMAIN order
<1>1. Len(completed) = Len(order) /\ DOMAIN completed = DOMAIN order /\ DOMAIN ids = DOMAIN request
  BY RequestTypes DEF SignedInv, IdsInv, Staged
<1>2. \A p \in DOMAIN completed : Holds(completed[p], Members(order[p]))
  BY DEF WriteInv, Writing
<1>3. ids[k] # 0
  BY <1>1 DEF IdsInv
<1>4. PICK p \in DOMAIN completed : order[p] = ids[k]
  BY <1>1, <1>3 DEF OrderInv
<1>5. k \in Members(order[p])
  BY <1>4 DEF Members
<1>6. PICK j \in DOMAIN completed[p].files : completed[p].files[j].entry = k
  BY <1>2, <1>5 DEF Holds
<1>7. \A s : s \in Slots <=> \E q \in DOMAIN completed : \E i \in DOMAIN completed[q].files : s = <<q, i>>
  BY DEF Slots
<1>8. <<p, j>> \in Slots /\ <<p, j>>[1] = p /\ <<p, j>>[2] = j
  BY <1>7
<1>9. \E s \in Slots : completed[s[1]].files[s[2]].entry = k
  BY <1>6, <1>8
<1>10. Slot(k) \in Slots /\ completed[Slot(k)[1]].files[Slot(k)[2]].entry = k
  BY <1>9 DEF Slot
<1>10a. PICK q \in DOMAIN completed : \E i \in DOMAIN completed[q].files : Slot(k) = <<q, i>>
  BY <1>7, <1>10
<1>11. PICK i \in DOMAIN completed[q].files : Slot(k) = <<q, i>>
  BY <1>10a
<1>12. completed[q].files[i].entry = k
  BY <1>10, <1>11
<1>13. k \in Members(order[q])
  BY <1>2, <1>12 DEF Holds
<1>14. ids[k] = order[q]
  BY <1>13 DEF Members
<1> QED
  BY <1>1, <1>11, <1>12, <1>14

(* Where the data of an entry is. *)
LEMMA PlaceOf ==
  ASSUME TypeOK, IdsInv, OrderInv, WriteInv, SignedInv, out = "signed", NEW k \in DOMAIN request,
         request[k].kind # "none"
  PROVE  LET p == Places[k]
             f == completed[p.folder]
         IN /\ k \in DOMAIN Places
            /\ p.folder \in DOMAIN completed /\ p.folder \in DOMAIN order /\ ids[k] = order[p.folder]
            /\ f \in FolderRecord /\ Holds(f, Members(order[p.folder]))
            /\ p.at \in DOMAIN f.files /\ f.files[p.at].entry = k
            /\ p.first = f.files[p.at].first /\ p.size = f.files[p.at].size
            /\ p \in Place
<1>1. PICK p \in DOMAIN completed : \E j \in DOMAIN completed[p].files :
        /\ Slot(k) = <<p, j>> /\ completed[p].files[j].entry = k
        /\ ids[k] = order[p] /\ p \in DOMAIN order
  BY SlotOf
<1>2. PICK j \in DOMAIN completed[p].files :
        /\ Slot(k) = <<p, j>> /\ completed[p].files[j].entry = k
        /\ ids[k] = order[p] /\ p \in DOMAIN order
  BY <1>1
<1>3. completed[p] \in FolderRecord /\ Holds(completed[p], Members(order[p]))
  BY SeqAt DEF TypeOK, WriteInv, Writing
<1>4. PICK file : file = completed[p].files[j]
  OBVIOUS
<1>5. /\ k \in DOMAIN Places
      /\ Places[k] = [folder |-> p, at |-> j, first |-> file.first, size |-> file.size]
  BY <1>2, <1>4 DEF Places
<1>6. file.first \in Nat /\ file.size \in Nat /\ j \in Nat \ {0}
  BY <1>3, <1>4, FolderTypes
<1>7. p \in Nat \ {0}
  BY RequestTypes
<1>8. Places[k] \in Place
  BY <1>5, <1>6, <1>7 DEF Place
<1> QED
  BY <1>2, <1>3, <1>4, <1>5, <1>8

(* Folders are in the order of their entries. *)
LEMMA FoldersInOrder ==
  ASSUME TypeOK, IdsInv, OrderInv, out = "signed", NEW k \in DOMAIN request, NEW l \in DOMAIN request,
         k < l, NEW p \in DOMAIN order, NEW q \in DOMAIN order, ids[k] = order[p], ids[l] = order[q]
  PROVE  p <= q
<1> SUFFICES ASSUME q < p PROVE FALSE
  BY RequestTypes
<1>1. DOMAIN ids = DOMAIN request /\ DOMAIN ids = 1 .. Len(ids) /\ Len(ids) \in Nat /\ Together
  BY RequestTypes DEF IdsInv, Staged
<1>2. PICK i \in DOMAIN ids : ids[i] = order[q] /\ \A j \in DOMAIN ids : ids[j] = order[p] => i < j
  BY DEF OrderInv
<1>3. i < k
  BY <1>1, <1>2
<1>4. i < l /\ k \in i .. l
  BY <1>1, <1>3
<1>5. order[q] # 0 /\ order[p] # 0 /\ order[q] # order[p]
  BY DEF OrderInv
<1>6. ids[i] = 0 \/ ids[k] \in {0, ids[i]}
  BY <1>1, <1>2, <1>4 DEF Together
<1> QED
  BY <1>2, <1>5, <1>6

(* The header of the new archive describes where its data is. *)
LEMMA SignedLayout ==
  ASSUME TypeOK, IdsInv, OrderInv, WriteInv, SignedInv, out = "signed"
  PROVE  LaidOut(header, Places)
<1>1. header = BuildHeader /\ DOMAIN completed = DOMAIN order
  BY RequestTypes DEF SignedInv
<1>2. /\ Len(header.streams) = Len(request) /\ Len(header.folders) = Len(completed)
      /\ \A k \in DOMAIN request : header.streams[k] = (request[k].kind # "none")
      /\ \A f \in DOMAIN completed :
           /\ header.folders[f].count = Len(completed[f].files)
           /\ header.folders[f].unpack = completed[f].unpack
           /\ \A j \in 1 .. Len(completed[f].files) : j < Len(completed[f].files) =>
                header.folders[f].sizes[j] = completed[f].files[j].size
  BY <1>1, HeaderIs
<1>3. /\ DOMAIN request = 1 .. Len(request) /\ Len(request) \in Nat
      /\ DOMAIN completed = 1 .. Len(completed) /\ Len(completed) \in Nat
  BY RequestTypes
<1>4. DOMAIN Places = {k \in DOMAIN request : request[k].kind # "none"}
  BY DEF Places
<1>5. DOMAIN Places = {k \in 1 .. Len(header.streams) : header.streams[k]}
  BY <1>2, <1>3, <1>4
<1>6. \A f \in DOMAIN completed :
        /\ completed[f] \in FolderRecord /\ DOMAIN completed[f].files = 1 .. Len(completed[f].files)
        /\ Len(completed[f].files) \in Nat /\ completed[f].unpack \in Nat
  <2>1. \A f \in DOMAIN completed : completed[f] \in FolderRecord
    BY SeqAt DEF TypeOK
  <2> QED
    BY <2>1, FolderTypes
<1>7. \A f \in 1 .. Len(header.folders) : header.folders[f].count \in Nat
  BY <1>2, <1>3, <1>6
<1>8. ASSUME NEW k \in DOMAIN Places
      PROVE  LET p == Places[k]  f == header.folders[p.folder]
             IN /\ p \in Place /\ p.folder <= Len(header.folders) /\ p.at <= f.count
                /\ p.at < f.count => f.sizes[p.at] = p.size
                /\ p.at = f.count => f.unpack = p.first + p.size
                /\ p.at = 1 => p.first = 0
  <2>1. k \in DOMAIN request /\ request[k].kind # "none"
    BY <1>4, <1>8
  <2>2. PICK p : p = Places[k]
    OBVIOUS
  <2>3. PICK f : f = completed[p.folder]
    OBVIOUS
  <2>4. /\ p.folder \in DOMAIN completed /\ f \in FolderRecord /\ Holds(f, Members(order[p.folder]))
        /\ p.at \in DOMAIN f.files /\ p.first = f.files[p.at].first /\ p.size = f.files[p.at].size
        /\ p \in Place
    BY <2>1, <2>2, <2>3, PlaceOf
  <2>5. /\ p.at = 1 => f.files[p.at].first = 0
        /\ p.at = Len(f.files) => f.files[p.at].first + f.files[p.at].size = f.unpack
    BY <2>4 DEF Holds
  <2>6. p.folder \in 1 .. Len(completed) /\ p.at \in 1 .. Len(f.files) /\ Len(f.files) \in Nat
    BY <1>3, <1>6, <2>3, <2>4
  <2>7. /\ header.folders[p.folder].count = Len(f.files)
        /\ header.folders[p.folder].unpack = f.unpack
        /\ p.at < Len(f.files) => header.folders[p.folder].sizes[p.at] = f.files[p.at].size
    BY <1>2, <2>3, <2>4, <2>6
  <2>8. p.folder <= Len(header.folders) /\ p.at <= header.folders[p.folder].count
    BY <1>2, <1>3, <2>6, <2>7
  <2> QED
    BY <2>2, <2>4, <2>5, <2>7, <2>8
<1>9. Described(header, Places)
  BY <1>8 DEF Described
<1>10. ASSUME NEW k \in DOMAIN Places, NEW l \in DOMAIN Places
       PROVE  /\ k < l => Before(Places[k].folder, Places[k].at, Places[l].folder, Places[l].at)
              /\ Places[k].folder = Places[l].folder /\ Places[l].at = Places[k].at + 1
                   => Places[l].first = Places[k].first + Places[k].size
  <2>1. /\ k \in DOMAIN request /\ request[k].kind # "none"
        /\ l \in DOMAIN request /\ request[l].kind # "none"
    BY <1>4, <1>10
  <2>2. PICK p : p = Places[k]
    OBVIOUS
  <2>3. PICK q : q = Places[l]
    OBVIOUS
  <2>4. PICK f : f = completed[p.folder]
    OBVIOUS
  <2>5. /\ p.folder \in DOMAIN order /\ ids[k] = order[p.folder] /\ f \in FolderRecord
        /\ p.folder \in DOMAIN completed /\ Holds(f, Members(order[p.folder]))
        /\ p.at \in DOMAIN f.files /\ f.files[p.at].entry = k
        /\ p.first = f.files[p.at].first /\ p.size = f.files[p.at].size
    BY <2>1, <2>2, <2>4, PlaceOf
  <2>6. /\ q.folder \in DOMAIN order /\ ids[l] = order[q.folder]
        /\ q.at \in DOMAIN completed[q.folder].files /\ completed[q.folder].files[q.at].entry = l
        /\ q.first = completed[q.folder].files[q.at].first
    BY <2>1, <2>3, PlaceOf
  <2>7. PICK n \in Nat : n = Len(f.files) /\ DOMAIN f.files = 1 .. n
    BY <1>6, <2>4, <2>5
  <2>8. ASSUME k < l PROVE Before(p.folder, p.at, q.folder, q.at)
    <3>1. p.folder <= q.folder /\ p.folder \in Nat /\ q.folder \in Nat
      BY <2>1, <2>5, <2>6, <2>8, FoldersInOrder, RequestTypes
    <3>2. ASSUME p.folder = q.folder PROVE p.at < q.at
      <4>1. q.at \in 1 .. n /\ p.at \in 1 .. n /\ f.files[q.at].entry = l
        BY <2>4, <2>5, <2>6, <2>7, <3>2
      <4>2. \A i, j \in 1 .. n : i < j => f.files[i].entry < f.files[j].entry
        BY <2>5, <2>7 DEF Holds
      <4>3. k \in Nat /\ l \in Nat
        BY <1>3, <2>1
      <4>4. ~(q.at < p.at)
        BY <2>5, <2>8, <4>1, <4>2, <4>3
      <4>5. q.at # p.at
        BY <2>5, <2>8, <4>1, <4>3
      <4> QED
        BY <4>1, <4>4, <4>5
    <3> QED
      BY <3>1, <3>2 DEF Before
  <2>9. ASSUME p.folder = q.folder, q.at = p.at + 1 PROVE q.first = p.first + p.size
    <3>1. p.at \in 1 .. n /\ p.at + 1 \in 1 .. n /\ p.at < n
      BY <2>4, <2>5, <2>6, <2>7, <2>9
    <3>2. f.files[p.at + 1].first = f.files[p.at].first + f.files[p.at].size
      BY <2>5, <2>7, <3>1 DEF Holds
    <3>3. q.first = f.files[p.at + 1].first
      BY <2>4, <2>6, <2>9
    <3> QED
      BY <2>5, <3>2, <3>3
  <2> QED
    BY <2>2, <2>3, <2>8, <2>9
<1>11. InOrder(Places)
  BY <1>10 DEF InOrder
<1>12. ASSUME NEW f \in 1 .. Len(header.folders), NEW j \in 1 .. header.folders[f].count
       PROVE  \E k \in DOMAIN Places : Places[k].folder = f /\ Places[k].at = j
  <2>1. f \in DOMAIN completed /\ f \in DOMAIN order
    BY <1>1, <1>2, <1>3
  <2>2. PICK n \in Nat : n = Len(completed[f].files) /\ DOMAIN completed[f].files = 1 .. n
    BY <1>6, <2>1
  <2>3. j \in 1 .. n
    BY <1>2, <2>1, <2>2
  <2>4. Holds(completed[f], Members(order[f]))
    BY <2>1 DEF WriteInv, Writing
  <2>5. PICK k \in Members(order[f]) : completed[f].files[j].entry = k
    BY <2>2, <2>3, <2>4 DEF Holds
  <2>6. k \in DOMAIN request /\ ids[k] = order[f] /\ ids[k] # 0
    BY <2>1 DEF Members, OrderInv
  <2>7. DOMAIN ids = DOMAIN request
    BY RequestTypes DEF IdsInv, Staged
  <2>8. request[k].kind # "none"
    BY <2>6, <2>7 DEF IdsInv
  <2>9. k \in DOMAIN Places
    BY <1>4, <2>6, <2>8
  <2>10. PICK p : p = Places[k]
    OBVIOUS
  <2>11. /\ p.folder \in DOMAIN order /\ ids[k] = order[p.folder]
         /\ p.at \in DOMAIN completed[p.folder].files /\ completed[p.folder].files[p.at].entry = k
    BY <2>6, <2>8, <2>10, PlaceOf
  <2>12. p.folder = f
    BY <2>1, <2>6, <2>11, OrderDistinct
  <2>13. p.at \in 1 .. n /\ completed[f].files[p.at].entry = k
    BY <2>2, <2>11, <2>12
  <2>14. \A i, l \in 1 .. n : i < l => completed[f].files[i].entry < completed[f].files[l].entry
    BY <2>2, <2>4 DEF Holds
  <2>15. k \in Nat
    BY <1>3, <2>6
  <2>16. p.at = j
    <3>1. ~(p.at < j)
      BY <2>3, <2>5, <2>13, <2>14, <2>15
    <3>2. ~(j < p.at)
      BY <2>3, <2>5, <2>13, <2>14, <2>15
    <3> QED
      BY <2>3, <2>13, <3>1, <3>2
  <2> QED
    BY <2>9, <2>10, <2>12, <2>16
<1>13. Owned(header, Places)
  BY <1>12 DEF Owned
<1> QED
  BY <1>2, <1>3, <1>5, <1>7, <1>9, <1>11, <1>13 DEF LaidOut

(* Once the archive is complete only its reader goes on. *)
LEMMA SignedStep ==
  TypeOK /\ PhaseInv /\ IdsInv /\ OrderInv /\ WriteInv /\ SignedInv /\ [Next]_vars => SignedInv'
<1> SUFFICES ASSUME TypeOK, PhaseInv, IdsInv, OrderInv, WriteInv, SignedInv, [Next]_vars
             PROVE  SignedInv'
  OBVIOUS
<1> USE DEF inputs, world, scan, plan, stage, output
<1>1. CASE out' # "signed"
  BY <1>1 DEF SignedInv
<1>2. CASE Finish
  <2>1. /\ header' = BuildHeader /\ UNCHANGED <<request, completed, order>> /\ reader' = ReaderStart
        /\ Len(completed) = Len(order)
    BY <1>2 DEF Finish, PhaseInv
  <2>2. BuildHeader' = BuildHeader
    BY <2>1 DEF BuildHeader
  <2> QED
    BY <2>1, <2>2 DEF SignedInv
<1>3. ASSUME UNCHANGED <<request, completed, order, header>>
      PROVE  Places' = Places /\ BuildHeader' = BuildHeader
  <2>1. Slots' = Slots
    BY <1>3 DEF Slots
  <2>2. \A i : Slot(i)' = Slot(i)
    BY <1>3, <2>1 DEF Slot
  <2> QED
    BY <1>3, <2>2 DEF Places, BuildHeader
<1>4. ASSUME Read PROVE SignedInv'
  <2>1. /\ out = "signed" /\ reader' = ReadNext(header, reader)
        /\ UNCHANGED <<request, completed, order, header>>
    BY <1>4 DEF Read
  <2>2. LaidOut(header, Places)
    BY <2>1, SignedLayout
  <2>3. ReaderOK(header, Places, reader)
    BY <2>1, <2>2, ReaderStarts DEF SignedInv
  <2>4. PICK h, d, r : h = header /\ d = Places /\ r = ReadNext(header, reader)
    OBVIOUS
  <2>5. ReaderOK(h, d, r)
    BY <2>2, <2>3, <2>4, ReaderStaysInStep
  <2>6. h = header' /\ d = Places' /\ r = reader'
    BY <1>3, <2>1, <2>4
  <2>7. ReaderOK(header, Places, reader)'
    BY <2>5, <2>6
  <2>8. Len(completed') = Len(order') /\ header' = BuildHeader'
    BY <1>3, <2>1 DEF SignedInv
  <2> QED
    BY <2>7, <2>8 DEF SignedInv
<1>5. ASSUME out = "signed", UNCHANGED <<request, completed, order, header, reader, out>>
      PROVE  SignedInv'
  <2>1. Places' = Places /\ BuildHeader' = BuildHeader
    BY <1>3, <1>5
  <2>2. PICK h, d, r : h = header /\ d = Places /\ r = reader
    OBVIOUS
  <2>3. r = ReaderStart \/ ReaderOK(h, d, r)
    BY <1>5, <2>2 DEF SignedInv
  <2>4. h = header' /\ d = Places' /\ r = reader'
    BY <1>5, <2>1, <2>2
  <2>5. reader' = ReaderStart \/ ReaderOK(header, Places, reader)'
    BY <2>3, <2>4
  <2>6. Len(completed') = Len(order') /\ header' = BuildHeader'
    BY <1>5, <2>1 DEF SignedInv
  <2> QED
    BY <2>5, <2>6 DEF SignedInv
<1>6. CASE out = "signed" /\ ~Read
  <2>1. pc = "done"
    BY <1>6 DEF PhaseInv
  <2>2. ~(ScanOperand \/ ScanEnds \/ CollectPath \/ CollectEnds \/ PlanFolders \/ RetainEntry
          \/ AppendPending \/ Validate \/ Stage \/ StageEntry \/ StageEnds)
    BY <2>1 DEF ScanOperand, ScanEnds, CollectPath, CollectEnds, PlanFolders, RetainEntry,
       AppendPending, Validate, Stage, StageEntry, StageEnds
  <2>3. ~(Begin \/ WriteRaw \/ OpenEncoded \/ ReadChunk \/ RecordStream \/ CompleteFolder
          \/ Finish \/ Fail)
    BY <2>1 DEF Begin, WriteRaw, OpenEncoded, ReadChunk, RecordStream, CompleteFolder, Finish, Fail
  <2>4. \A p \in 1 .. Paths : ~Change(p)
    BY <2>1 DEF Change
  <2>5. UNCHANGED vars
    BY <1>6, <2>2, <2>3, <2>4 DEF Next, Step
  <2> QED
    BY <1>5, <1>6, <2>5 DEF vars
<1>7. CASE out # "signed" /\ ~Finish
  <2>1. ASSUME ScanOperand \/ ScanEnds \/ CollectPath \/ CollectEnds \/ PlanFolders \/ RetainEntry
               \/ AppendPending \/ Validate \/ Stage \/ StageEntry \/ StageEnds
        PROVE  out' = out
    BY <2>1 DEF ScanOperand, ScanEnds, CollectPath, CollectEnds, PlanFolders, RetainEntry,
       AppendPending, Validate, Stage, StageEntry, StageEnds
  <2>2. ASSUME Begin \/ WriteRaw \/ OpenEncoded \/ ReadChunk \/ RecordStream \/ CompleteFolder
               \/ Read \/ Fail \/ (\E p \in 1 .. Paths : Change(p)) \/ UNCHANGED vars
        PROVE  out' \in {out, "blank"}
    BY <2>2 DEF Begin, WriteRaw, OpenEncoded, ReadChunk, RecordStream, CompleteFolder, Read, Fail,
       Change, vars
  <2>3. out' # "signed"
    BY <1>7, <2>1, <2>2 DEF Next, Step
  <2> QED
    BY <1>1, <2>3
<1> QED
  BY <1>2, <1>4, <1>6, <1>7

-----------------------------------------------------------------------------
(***************************************************************************)
(* Theorems.                                                               *)
(***************************************************************************)

(* The inductive invariant of a rewrite: the plan keeps the listing's      *)
(* order, folders have their own numbers and their entries are together,   *)
(* every folder written holds the bytes of its entries, and the reader of  *)
(* the new archive is in step with them.                                   *)
THEOREM UpdateInvariance == Spec => []IInv
<1>1. Init => IInv
  <2> SUFFICES ASSUME Init PROVE IInv
    OBVIOUS
  <2>1. RawInv
    BY DEF Init, RawInv, Accepted
  <2>2. WriteInv /\ EncodeInv
    BY DEF Init, WriteInv, Writing, EncodeInv
  <2>3. SignedInv /\ RejectionsAreHarmless
    BY DEF Init, SignedInv, RejectionsAreHarmless
  <2> QED
    BY <2>1, <2>2, <2>3, InitTypes, InitPhase, InitPlan, InitStaging DEF IInv
<1>2. IInv /\ [Next]_vars => IInv'
  <2> SUFFICES ASSUME IInv, [Next]_vars PROVE IInv'
    OBVIOUS
  <2>1. TypeOK'
    BY TypeStep DEF IInv
  <2>2. PhaseInv' /\ PlanInv' /\ RawInv'
    BY PhaseStep, PlanStep, RawStep DEF IInv
  <2>3. IdsInv' /\ AssignerInv' /\ OrderInv'
    BY <2>1, StagingStep DEF IInv
  <2>4. WriteInv' /\ EncodeInv'
    BY <2>1, WriteStep DEF IInv
  <2>5. SignedInv' /\ RejectionsAreHarmless'
    BY SignedStep, RejectStep DEF IInv
  <2> QED
    BY <2>1, <2>2, <2>3, <2>4, <2>5 DEF IInv
<1> QED
  BY <1>1, <1>2, PTL DEF Spec

(* A request is rejected before anything is written, by validation or when *)
(* folders are not together, and what add, update and delete ask for is    *)
(* never rejected.                                                         *)
THEOREM RejectionsHarmless == Spec => []RejectionsAreHarmless
<1>1. IInv => RejectionsAreHarmless
  BY DEF IInv
<1> QED
  BY <1>1, UpdateInvariance, PTL

(* Updates and deletions keep every entry they do not drop, in order and   *)
(* with its bytes, whether its folder was copied or decoded, and put the   *)
(* collected files after them.                                             *)
THEOREM OthersKept == Spec => []KeepsOtherEntries
<1>1. IInv => KeepsOtherEntries
  <2> SUFFICES ASSUME IInv, out = "signed", job.cmd \in {"update", "delete"}
               PROVE  KeepsOtherEntries
    BY DEF KeepsOtherEntries
  <2>0. TypeOK /\ PlanInv /\ WriteInv /\ Accepted /\ Writing
    BY DEF IInv, Accepted, Writing
  <2>1. PICK n \in 0 .. Len(request) :
          /\ \A i \in 1 .. n : /\ request[i].of \in DOMAIN src.entries /\ ~Dropped(request[i].of)
                               /\ request[i] = Preserved(request[i].of)
          /\ \A i, j \in 1 .. n : i < j => request[i].of < request[j].of
          /\ \A e \in DOMAIN src.entries : ~Dropped(e) => \E i \in 1 .. n : request[i].of = e
          /\ Len(request) = n + Len(pending)
          /\ \A i \in DOMAIN pending : request[n + i] = pending[i]
          /\ \A i \in DOMAIN request : i \notin 1 .. n => request[i].kind # "raw" /\ request[i].of = 0
    BY <2>0, Planned
  <2>2. /\ DOMAIN request = 1 .. Len(request) /\ Len(request) \in Nat
        /\ \A i \in DOMAIN request : request[i].kind \in {"none", "raw", "data", "path"}
    BY <2>0, RequestTypes
  <2>3. \A i \in 1 .. n : i \in DOMAIN request
    BY <2>2
  <2>4. \A e \in DOMAIN src.entries : e # 0
    BY <2>0, SourceTypes
  <2>5. \A i \in DOMAIN request : request[i].of # 0 => i \in 1 .. n
    BY <2>1
  <2>6. \A e \in DOMAIN src.entries : ~Dropped(e) <=> \E i \in DOMAIN request : request[i].of = e
    <3> SUFFICES ASSUME NEW e \in DOMAIN src.entries
                 PROVE  ~Dropped(e) <=> \E i \in DOMAIN request : request[i].of = e
      OBVIOUS
    <3>1. ASSUME ~Dropped(e) PROVE \E i \in DOMAIN request : request[i].of = e
      BY <2>1, <2>3, <3>1
    <3>2. ASSUME NEW i \in DOMAIN request, request[i].of = e PROVE ~Dropped(e)
      <4>1. i \in 1 .. n
        BY <2>4, <2>5, <3>2
      <4> QED
        BY <2>1, <3>2, <4>1
    <3> QED
      BY <3>1, <3>2
  <2>7. ASSUME NEW i \in DOMAIN request, NEW j \in DOMAIN request, i < j, request[j].of # 0
        PROVE  request[i].of # 0 /\ request[i].of < request[j].of
    <3>1. j \in 1 .. n /\ i \in 1 .. n
      BY <2>2, <2>5, <2>7
    <3> QED
      BY <2>1, <2>4, <2>7, <3>1
  <2>8. ASSUME NEW i \in DOMAIN request, request[i].of # 0
        PROVE  IF src.entries[request[i].of].block # 0
                 THEN request[i].kind # "none" /\ Content(i) = Bytes(request[i].of)
                 ELSE request[i].kind = "none"
    <3>1. i \in 1 .. n
      BY <2>5, <2>8
    <3>2. PICK e \in DOMAIN src.entries : e = request[i].of /\ ~Dropped(e) /\ request[i] = Preserved(e)
      BY <2>1, <3>1
    <3>3. /\ request[i].kind # "path"
          /\ request[i].kind = "none" <=> src.entries[e].block = 0
          /\ request[i].kind = "raw" => request[i].entry = e
          /\ request[i].kind = "data" => request[i].data = Bytes(e)
      BY <2>0, <3>2, PreservedType
    <3>4. request[i].kind = "data" => seen[i] = request[i].data
      BY <2>0 DEF WriteInv
    <3>5. request[i].kind = "raw" \/ request[i].kind = "data" => Content(i) = Bytes(e)
      BY <3>3, <3>4 DEF Content
    <3> QED
      BY <2>2, <3>2, <3>3, <3>5
  <2>9. \A i \in DOMAIN pending : pending[i].of = 0
    BY <2>0 DEF TypeOK
  <2> QED
    BY <2>1, <2>6, <2>7, <2>8, <2>9 DEF KeepsOtherEntries
<1> QED
  BY <1>1, UpdateInvariance, PTL

(* Every archive that a rewrite completes reads back: its reader finds a   *)
(* stream for each entry with data and no other, and in it the bytes of    *)
(* the copied folder, of the decoded entry or of what was read from disk.  *)
THEOREM UpdatedReadsBack == Spec => []UpdateReadsBack
<1>1. IInv => UpdateReadsBack
  <2> SUFFICES ASSUME IInv PROVE UpdateReadsBack
    OBVIOUS
  <2>0. TypeOK /\ PhaseInv /\ IdsInv /\ OrderInv /\ WriteInv /\ SignedInv
    BY DEF IInv
  <2>1. reader = ReaderStart \/ (out = "signed" /\ ReaderOK(header, Places, reader))
    BY <2>0 DEF PhaseInv, SignedInv
  <2>2. ReaderStart.ended = "no" /\ ReaderStart.found.entry = 0
    BY DEF ReaderStart, NoLocation
  <2>3. reader.ended # "error"
    <3>1. ReaderOK(header, Places, reader) => reader.ended \in {"no", "ok"}
      BY DEF ReaderOK
    <3> QED
      BY <2>1, <2>2, <3>1
  <2>4. ASSUME reader.found.entry # 0
        PROVE  LET at == reader.found
                   content == Content(at.entry)
                   payload == completed[at.folder].payload
               IN /\ at.size = Len(content) /\ at.first + at.size <= Len(payload)
                  /\ \A i \in 1 .. at.size : payload[at.first + i] = content[i]
    <3>1. out = "signed" /\ ReaderOK(header, Places, reader)
      BY <2>1, <2>2, <2>4
    <3>2. DOMAIN Places = {k \in DOMAIN request : request[k].kind # "none"}
      BY DEF Places
    <3>3. PICK k \in DOMAIN request : k = reader.found.entry /\ request[k].kind # "none"
      BY <2>4, <3>1, <3>2 DEF ReaderOK
    <3>4. PICK p : p = Places[k]
      OBVIOUS
    <3>5. /\ reader.found.folder = p.folder /\ reader.found.first = p.first
          /\ reader.found.size = p.size
      BY <2>4, <3>1, <3>3, <3>4 DEF ReaderOK
    <3>6. PICK f : f = completed[p.folder]
      OBVIOUS
    <3>7. /\ Holds(f, Members(order[p.folder])) /\ p.at \in DOMAIN f.files
          /\ f.files[p.at].entry = k /\ p.first = f.files[p.at].first /\ p.size = f.files[p.at].size
      BY <2>0, <3>1, <3>3, <3>4, <3>6, PlaceOf
    <3>8. /\ p.size = Len(Content(k)) /\ p.first + p.size <= f.unpack /\ f.unpack = Len(f.payload)
          /\ \A x \in 1 .. p.size : f.payload[p.first + x] = Content(k)[x]
      BY <3>7 DEF Holds
    <3> QED
      BY <3>3, <3>5, <3>6, <3>8
  <2>5. ASSUME out = "signed", NEW f \in DOMAIN completed
        PROVE  Len(completed[f].payload) = header.folders[f].unpack
    <3>1. header.folders[f].unpack = completed[f].unpack
      BY <2>0, <2>5, HeaderIs DEF SignedInv
    <3>2. Holds(completed[f], Members(order[f]))
      BY <2>0, <2>5 DEF WriteInv, Writing
    <3>3. completed[f].unpack = Len(completed[f].payload)
      BY <3>2 DEF Holds
    <3> QED
      BY <3>1, <3>3
  <2> QED
    BY <2>3, <2>4, <2>5 DEF UpdateReadsBack
<1> QED
  BY <1>1, UpdateInvariance, PTL

(* Every variable of a rewrite keeps its type. *)
THEOREM UpdateTypeCorrect == Spec => []TypeOK
<1>1. IInv => TypeOK
  BY DEF IInv
<1> QED
  BY <1>1, UpdateInvariance, PTL
=============================================================================
