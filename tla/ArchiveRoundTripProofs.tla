------------------------ MODULE ArchiveRoundTripProofs ------------------------
(***************************************************************************)
(* Proofs about ArchiveWriter and ArchiveRoundTrip, for every number and   *)
(* size of entries and every set of solid modes.                           *)
(*                                                                         *)
(* IInv is inductive: the state of the writer and what was written go      *)
(* together (WriterInv, AppendInv), folders are left before they are too   *)
(* full (SolidInv), and the writer stands where the planning loop of build *)
(* stood when it came to the next entry (PlanInv).                         *)
(*                                                                         *)
(* What is written can be read back, for every sequence of calls: the      *)
(* writer puts the data of the entries one after the other (PlacedInv,     *)
(* OrderInv), every stream of a folder belongs to an entry (OwnedInv), and *)
(* so the header is one that a reader stays in step with                   *)
(* (StreamTablesProofs).                                                   *)
(***************************************************************************)
EXTENDS ArchiveRoundTrip, StreamTablesProofs

(* The elements of a sequence and the one added to it. *)
LEMMA AppendAt ==
  ASSUME NEW S, NEW s \in Seq(S), NEW x \in S
  PROVE  /\ Len(s) \in Nat /\ Len(Append(s, x)) = Len(s) + 1
         /\ \A i \in DOMAIN Append(s, x) : i \in 1 .. Len(s) \/ i = Len(s) + 1
         /\ \A i \in 1 .. Len(s) : i \in DOMAIN Append(s, x) /\ Append(s, x)[i] = s[i]
         /\ Append(s, x)[Len(s) + 1] = x /\ Len(s) + 1 \in DOMAIN Append(s, x)
OBVIOUS

LEMMA SolidTypes ==
  ASSUME solid \in Solid
  PROVE  solid.maxFiles \in Nat /\ solid.maxBytes \in Nat
BY DEF Solid

LEMMA NoFolderType == NoFolder \in FolderRecord /\ NoFolder.files = <<>> /\ NoFolder.unpack = 0
BY DEF NoFolder, FolderRecord

LEMMA NoProgressType == NoProgress \in Progress /\ NoProgress.files = 0 /\ NoProgress.bytes = 0
BY DEF NoProgress, Progress

LEMMA RecordType ==
  ASSUME NEW p \in Progress, NEW size \in Nat
  PROVE  /\ Record(p, size) \in Progress
         /\ Record(p, size).files = p.files + 1 /\ Record(p, size).bytes = p.bytes + size
BY DEF Record, Progress

LEMMA WrittenType == TypeOK => Written \in Progress
BY DEF TypeOK, Written, FolderRecord, Progress

(* A step of the planning loop goes on in the same folder or takes the next one. *)
LEMMA PlanStepType ==
  ASSUME NEW plan \in Plans, NEW item, item.stream \in BOOLEAN, item.size \in Nat
  PROVE  PlanStep(plan, item) \in Plans
<1>1. plan.progress \in Progress /\ plan.folder \in Nat
  BY DEF Plans
<1>2. ASSUME NEW p \in Progress, NEW f \in Nat
      PROVE  [folder |-> f, progress |-> p] \in Plans
  BY DEF Plans
<1>3. Record(NoProgress, item.size) \in Progress /\ Record(plan.progress, item.size) \in Progress
  BY <1>1, NoProgressType, RecordType
<1> QED
  BY <1>1, <1>2, <1>3, NoProgressType DEF PlanStep

(* What a new entry of the header looks like. *)
LEMMA PushEntryType ==
  ASSUME TypeOK, NEW source \in Nat, NEW stream \in BOOLEAN, NEW total \in Nat,
         PushEntry(source, stream, total)
  PROVE  entries' \in Seq(EntryRecord)
<1>1. Len(completed) \in Nat /\ Len(folder.files) + 1 \in Nat /\ folder.unpack \in Nat
  BY DEF TypeOK, FolderRecord
<1>2. [source |-> source, stream |-> stream, total |-> total, folder |-> NextFolderId,
       at |-> Len(folder.files) + 1, first |-> folder.unpack] \in EntryRecord
  BY <1>1 DEF EntryRecord, NextFolderId
<1> QED
  BY <1>2 DEF PushEntry, TypeOK

LEMMA ItemTypes ==
  /\ \A item \in Item : item.stream \in BOOLEAN /\ item.size \in Nat
  /\ \A total \in 0 .. MaxSize : total \in Nat
<1>1. MaxSize \in Nat
  BY WriterAssumption
<1>2. \A total \in 0 .. MaxSize : total \in Nat
  BY <1>1
<1>3. ASSUME NEW item \in [stream : {FALSE}, size : {0}]
      PROVE  item.stream \in BOOLEAN /\ item.size \in Nat
  <2>1. item.stream \in {FALSE} /\ item.size \in {0}
    OBVIOUS
  <2>2. item.size \in Nat
    BY <2>1
  <2>3. item.stream \in BOOLEAN
    BY <2>1, Zenon
  <2> QED
    BY <2>2, <2>3
<1>4. ASSUME NEW item \in [stream : {TRUE}, size : 0 .. MaxSize]
      PROVE  item.stream \in BOOLEAN /\ item.size \in Nat
  BY <1>2
<1> QED
  BY <1>2, <1>3, <1>4 DEF Item

LEMMA FailTypes ==
  ASSUME TypeOK, Fail
  PROVE  /\ state' = "Failed" /\ completed' \in Seq(FolderRecord) /\ folder' \in FolderRecord
         /\ progress' \in Progress
         /\ cur' \in [source : Nat, left : Nat, total : Nat, size : Nat]
BY NoFolderType, NoProgressType DEF Fail, NoEntry

LEMMA TypeStep == TypeOK /\ AppendInv /\ [Next]_vars => TypeOK'
<1> SUFFICES ASSUME TypeOK, AppendInv, [Next]_vars PROVE TypeOK'
  OBVIOUS
<1>a. NoEntry \in [source : Nat, left : Nat, total : Nat, size : Nat]
  BY DEF NoEntry
<1>1. CASE Cancel \/ NewFolder \/ Finish \/ Build \/ ReadMore
  BY <1>1 DEF Cancel, NewFolder, Finish, Build, ReadMore, TypeOK, fixed
<1>2. CASE WriteHeader \/ WriteSignature \/ WriteFails \/ Flush \/ UNCHANGED vars
  BY <1>2 DEF WriteHeader, WriteSignature, WriteFails, Flush, vars, TypeOK, fixed
<1>3. CASE AppendEmpty
  <2>1. PICK n \in Nat : n = calls'
    BY <1>3 DEF AppendEmpty, TypeOK
  <2>2. PushEntry(n, FALSE, 0)
    BY <1>3, <2>1 DEF AppendEmpty, PushEntry
  <2>3. entries' \in Seq(EntryRecord)
    BY <2>2, PushEntryType
  <2> QED
    BY <1>3, <2>1, <2>3 DEF AppendEmpty, TypeOK, fixed
<1>4. ASSUME NEW total \in 0 .. MaxSize, AppendFile(total) PROVE TypeOK'
  <2>1. total \in Nat /\ calls + 1 \in Nat /\ 0 \in Nat
    BY ItemTypes DEF TypeOK
  <2>2. cur' \in [source : Nat, left : Nat, total : Nat, size : Nat]
    BY <1>4, <2>1 DEF AppendFile
  <2> QED
    BY <1>4, <2>1, <2>2 DEF AppendFile, TypeOK, fixed
<1>5. ASSUME NEW item \in Item, PlanItem(item) PROVE TypeOK'
  <2>1. planner' \in Plans /\ planner \in Plans /\ item.stream \in BOOLEAN /\ item.size \in Nat
    BY <1>5, ItemTypes, PlanStepType DEF PlanItem, TypeOK
  <2>2. [stream |-> item.stream, size |-> item.size, folder |-> planner'.folder,
         before |-> planner] \in Planned
    BY <2>1 DEF Planned, Plans
  <2>3. todo' \in Seq(Planned)
    BY <1>5, <2>2 DEF PlanItem, TypeOK
  <2> QED
    BY <1>5, <2>1, <2>3 DEF PlanItem, TypeOK
<1>6. CASE BuildEntry
  <2>1. todo # <<>> /\ Head(todo) \in Planned /\ Tail(todo) \in Seq(Planned)
    BY <1>6 DEF BuildEntry, TypeOK
  <2>2. Head(todo).size \in Nat /\ calls + 1 \in Nat /\ 0 \in Nat
    BY <2>1 DEF Planned, TypeOK
  <2>3. todo' \in {todo, Tail(todo)} /\ calls' \in {calls, calls + 1}
    BY <1>6 DEF BuildEntry
  <2>4. cur' \in [source : Nat, left : Nat, total : Nat, size : Nat]
    <3>1. \/ cur' = cur
          \/ cur' = [source |-> calls + 1, left |-> Head(todo).size, total |-> Head(todo).size,
                     size |-> 0]
      BY <1>6 DEF BuildEntry
    <3> QED
      BY <2>2, <3>1 DEF TypeOK
  <2>5. entries' = entries \/ PushEntry(calls + 1, FALSE, 0)
    BY <1>6 DEF BuildEntry
  <2>6. entries' \in Seq(EntryRecord)
    BY <2>2, <2>5, PushEntryType DEF TypeOK
  <2> QED
    BY <1>6, <2>1, <2>2, <2>3, <2>4, <2>6 DEF BuildEntry, TypeOK, fixed
<1>7. CASE ReadFirst
  <2>1. entries' = entries \/ PushEntry(cur.source, FALSE, 0)
    BY <1>7 DEF ReadFirst
  <2>2. entries' \in Seq(EntryRecord)
    BY <2>1, PushEntryType DEF TypeOK
  <2> QED
    BY <1>7, <1>a, <2>2 DEF ReadFirst, TypeOK, fixed
<1>8. CASE EnsureFolder
  BY <1>8, NoFolderType, NoProgressType DEF EnsureFolder, TypeOK, fixed
<1>9. CASE WriteChunk
  <2>1. cur.source \in Nat /\ cur.size + 1 \in Nat /\ cur.left - 1 \in Nat
    BY <1>9 DEF WriteChunk, TypeOK, AppendInv
  <2>2. cur' \in [source : Nat, left : Nat, total : Nat, size : Nat]
    BY <1>9, <2>1 DEF WriteChunk, TypeOK
  <2>3. folder' \in FolderRecord
    <3>1. folder \in FolderRecord /\ Append(folder.payload, cur.source) \in Seq(Nat)
      BY <2>1 DEF TypeOK, FolderRecord
    <3>2. folder' = [folder EXCEPT !.payload = Append(folder.payload, cur.source)]
      BY <1>9 DEF WriteChunk
    <3> QED
      BY <3>1, <3>2 DEF FolderRecord
  <2> QED
    BY <1>9, <2>2, <2>3 DEF WriteChunk, TypeOK, fixed
<1>10. CASE RecordEntry
  <2>1. cur.source \in Nat /\ cur.size \in Nat /\ cur.total \in Nat
    BY DEF TypeOK
  <2>2. entries' \in Seq(EntryRecord)
    BY <1>10, <2>1, PushEntryType DEF RecordEntry
  <2>3. folder' \in FolderRecord
    <3>1. /\ folder \in FolderRecord /\ Append(folder.files, cur.size) \in Seq(Nat)
          /\ folder.unpack + cur.size \in Nat
      BY <2>1 DEF TypeOK, FolderRecord
    <3>2. folder' = [folder EXCEPT !.files = Append(folder.files, cur.size),
                                   !.unpack = folder.unpack + cur.size]
      BY <1>10 DEF RecordEntry, RecordStream
    <3> QED
      BY <3>1, <3>2 DEF FolderRecord
  <2>4. progress' \in Progress
    BY <1>10, <2>1, RecordType DEF RecordEntry, TypeOK
  <2> QED
    BY <1>10, <1>a, <2>2, <2>3, <2>4 DEF RecordEntry, TypeOK, fixed
<1>11. CASE AppendFails \/ SealFails
  <2>1. UNCHANGED <<fixed, entries, todo, calls>> /\ Fail
    BY <1>11 DEF AppendFails, SealFails
  <2> QED
    BY <2>1, FailTypes DEF TypeOK, fixed
<1>12. CASE Seal
  <2>1. completed' \in Seq(FolderRecord)
    BY <1>12 DEF Seal, TypeOK
  <2> QED
    BY <1>12, <2>1, NoFolderType, NoProgressType DEF Seal, TypeOK, fixed
<1> QED
  BY <1>1, <1>2, <1>3, <1>4, <1>5, <1>6, <1>7, <1>8, <1>9, <1>10, <1>11, <1>12 DEF Next, Step

(* Every step of a call and every call preserve WriterInv. *)
LEMMA WriterStep == WriterInv /\ [Next]_vars => WriterInv'
<1> SUFFICES ASSUME WriterInv, [Next]_vars PROVE WriterInv'
  OBVIOUS
<1> USE DEF WriterInv, BuildHeader, FolderHeader, fixed, sink
<1>1. CASE Cancel  BY <1>1 DEF Cancel
<1>2. CASE AppendEmpty  BY <1>2 DEF AppendEmpty, PushEntry
<1>3. CASE NewFolder  BY <1>3 DEF NewFolder
<1>4. CASE Finish  BY <1>4 DEF Finish
<1>5. CASE Build  BY <1>5 DEF Build
<1>6. CASE BuildEntry  BY <1>6 DEF BuildEntry, PushEntry
<1>7. CASE ReadFirst  BY <1>7 DEF ReadFirst, PushEntry, Resume
<1>8. CASE EnsureFolder  BY <1>8 DEF EnsureFolder
<1>9. CASE WriteChunk  BY <1>9 DEF WriteChunk
<1>10. CASE ReadMore  BY <1>10 DEF ReadMore
<1>11. CASE RecordEntry  BY <1>11 DEF RecordEntry, PushEntry, Resume
<1>12. CASE AppendFails  BY <1>12 DEF AppendFails, Fail
<1>13. CASE Seal  BY <1>13 DEF Seal, Resume
<1>14. CASE SealFails  BY <1>14 DEF SealFails, Fail
<1>15. CASE WriteHeader  BY <1>15 DEF WriteHeader
<1>16. CASE WriteSignature  BY <1>16 DEF WriteSignature
<1>17. CASE WriteFails  BY <1>17 DEF WriteFails
<1>18. CASE Flush  BY <1>18 DEF Flush
<1>19. ASSUME NEW total \in 0 .. MaxSize, AppendFile(total) PROVE WriterInv'
  BY <1>19 DEF AppendFile
<1>20. ASSUME NEW item \in Item, PlanItem(item) PROVE WriterInv'
  BY <1>20 DEF PlanItem
<1>21. CASE UNCHANGED vars  BY <1>21 DEF vars
<1> QED
  BY <1>1, <1>2, <1>3, <1>4, <1>5, <1>6, <1>7, <1>8, <1>9, <1>10, <1>11, <1>12, <1>13, <1>14,
     <1>15, <1>16, <1>17, <1>18, <1>19, <1>20, <1>21 DEF Next, Step

(* The entry being appended. *)
LEMMA AppendStep == TypeOK /\ WriterInv /\ AppendInv /\ [Next]_vars => AppendInv'
<1> SUFFICES ASSUME TypeOK, WriterInv, AppendInv, [Next]_vars PROVE AppendInv'
  OBVIOUS
<1> USE DEF AppendInv, Appending
<1>a. NoEntry.size = 0
  BY DEF NoEntry
<1>1. CASE Cancel \/ NewFolder \/ Finish \/ Build
  BY <1>1 DEF Cancel, NewFolder, Finish, Build
<1>2. CASE WriteHeader \/ WriteSignature \/ WriteFails \/ Flush \/ UNCHANGED vars
  BY <1>2 DEF WriteHeader, WriteSignature, WriteFails, Flush, vars
<1>3. CASE AppendEmpty  BY <1>3 DEF AppendEmpty
<1>4. ASSUME NEW total \in 0 .. MaxSize, AppendFile(total) PROVE AppendInv'
  BY <1>4, ItemTypes DEF AppendFile
<1>5. ASSUME NEW item \in Item, PlanItem(item) PROVE AppendInv'
  BY <1>5 DEF PlanItem
<1>6. CASE BuildEntry
  <2>1. Head(todo) \in Planned
    BY <1>6 DEF BuildEntry, TypeOK
  <2>2. Head(todo).size \in Nat
    BY <2>1 DEF Planned
  <2>3. pc = "next" /\ UNCHANGED <<state, folder>>
    BY <1>6 DEF BuildEntry
  <2>4. \/ pc' \in {"next", "seal", "misplanned", "closed"} /\ cur' = cur
        \/ /\ pc' = "first"
           /\ cur' = [source |-> calls + 1, left |-> Head(todo).size, total |-> Head(todo).size,
                      size |-> 0]
    BY <1>6 DEF BuildEntry
  <2> QED
    BY <2>2, <2>3, <2>4
<1>7. CASE ReadFirst  BY <1>7 DEF ReadFirst, Resume
<1>8. CASE EnsureFolder
  <2>1. cur.left \in Nat /\ state \in {"Ready", "Active"}
    BY <1>8 DEF EnsureFolder, TypeOK, WriterInv
  <2> QED
    BY <1>8, <2>1 DEF EnsureFolder
<1>9. CASE WriteChunk
  <2>1. cur' = [cur EXCEPT !.size = @ + 1, !.left = @ - 1] /\ pc = "write" /\ pc' = "more"
        /\ state' = state
    BY <1>9 DEF WriteChunk
  <2>2. cur'.size = cur.size + 1 /\ cur'.left = cur.left - 1 /\ cur'.total = cur.total
    BY <2>1 DEF TypeOK
  <2>3. cur.size \in Nat /\ cur.left \in Nat /\ cur.total \in Nat
    BY DEF TypeOK
  <2> QED
    BY <2>1, <2>2, <2>3
<1>10. CASE ReadMore
  <2>1. cur.left \in Nat
    BY DEF TypeOK
  <2> QED
    BY <1>10, <2>1 DEF ReadMore
<1>11. CASE RecordEntry  BY <1>11 DEF RecordEntry, Resume
<1>12. CASE AppendFails \/ SealFails  BY <1>12 DEF AppendFails, SealFails, Fail
<1>13. CASE Seal  BY <1>13 DEF Seal, Resume
<1> QED
  BY <1>1, <1>2, <1>3, <1>4, <1>5, <1>6, <1>7, <1>8, <1>9, <1>10, <1>11, <1>12, <1>13
     DEF Next, Step

(* Writing data and the steps that leave the folder alone keep Written. *)
LEMMA WrittenKept == folder' = folder => Written' = Written
BY DEF Written

LEMMA WrittenEmpty == folder = NoFolder => Written = NoProgress
BY NoFolderType DEF Written, NoProgress

LEMMA NothingExceeds ==
  ASSUME NEW size PROVE ~WouldExceed(solid, NoProgress, size)
BY NoProgressType DEF WouldExceed

LEMMA NothingReached == solid \in Solid => ~ReachedLimit(NoProgress)
BY SolidTypes, NoProgressType DEF ReachedLimit

(* The limits the active folder keeps to. *)
LEMMA SolidStep ==
  TypeOK /\ AppendInv /\ SolidInv /\ PlanInv /\ [Next]_vars => SolidInv'
<1> SUFFICES ASSUME TypeOK, AppendInv, SolidInv, PlanInv, [Next]_vars PROVE SolidInv'
  OBVIOUS
<1>a. ASSUME UNCHANGED <<api, solid, state, folder, progress>>, pc' \notin Appending,
             pc = "seal" => pc' = "seal"
      PROVE  SolidInv'
  BY <1>a, WrittenKept DEF SolidInv, ReachedLimit
<1>b. ASSUME UNCHANGED <<api, solid, state, folder, progress>>, cur'.total = cur.total,
             pc \in Appending, pc' \in Appending
      PROVE  SolidInv'
  BY <1>b, WrittenKept DEF SolidInv, ReachedLimit, WouldExceed, Appending
<1>c. ASSUME UNCHANGED <<api, solid>>, state' # "Active", pc' \notin Appending
      PROVE  SolidInv'
  BY <1>c DEF SolidInv
<1>1. CASE Cancel \/ UNCHANGED vars
  <2>1. UNCHANGED <<api, solid, state, folder, progress, pc, cur>>
    BY <1>1 DEF Cancel, vars, fixed
  <2> QED
    BY <2>1, WrittenKept DEF SolidInv, ReachedLimit, WouldExceed
<1>2. CASE NewFolder \/ Finish \/ Build
  BY <1>2, <1>a DEF NewFolder, Finish, Build, fixed, Appending
<1>3. CASE WriteHeader \/ WriteSignature \/ WriteFails \/ Flush
  BY <1>3, <1>a DEF WriteHeader, WriteSignature, WriteFails, Flush, fixed, Appending
<1>4. CASE AppendEmpty  BY <1>4, <1>a DEF AppendEmpty, fixed, Appending
<1>5. ASSUME NEW total \in 0 .. MaxSize, AppendFile(total) PROVE SolidInv'
  <2>1. /\ UNCHANGED <<api, solid, state, folder, progress>> /\ pc = "idle" /\ pc' = "first"
    BY <1>5 DEF AppendFile, fixed
  <2>2. api = "stream"
    BY <2>1 DEF PlanInv, TypeOK
  <2> QED
    BY <2>1, <2>2, WrittenKept DEF SolidInv, ReachedLimit
<1>6. ASSUME NEW item \in Item, PlanItem(item) PROVE SolidInv'
  BY <1>6, <1>a DEF PlanItem, Appending
<1>7. CASE BuildEntry
  <2>1. pc = "next" /\ UNCHANGED <<api, solid, state, folder, progress>> /\ todo # <<>>
    BY <1>7 DEF BuildEntry, fixed
  <2>2. CASE pc' # "first"
    BY <1>7, <1>a, <2>1, <2>2 DEF BuildEntry, Appending
  <2>3. CASE pc' = "first"
    <3>1. /\ Head(todo).folder = NextFolderId /\ Head(todo).stream /\ cur'.total = Head(todo).size
      BY <1>7, <2>1, <2>3 DEF BuildEntry
    <3>2. Head(todo) = todo[1] /\ 1 \in DOMAIN todo /\ todo[1] \in Planned
      BY <2>1 DEF TypeOK
    <3>3. ASSUME api = "build" PROVE ~WouldExceed(solid, Written, cur'.total)
      <4> DEFINE item == todo[1]
      <4>1. CASE then = "build"
        <5>1. Written = NoProgress
          BY <2>1, <3>3, <4>1, WrittenEmpty DEF PlanInv, InStep, AppendInv
        <5> QED
          BY <5>1, NothingExceeds
      <4>2. CASE then # "build"
        <5>1. item.before = [folder |-> NextFolderId, progress |-> Expected]
          BY <2>1, <3>3, <4>2 DEF PlanInv, InStep
        <5>2. Expected = Written
          BY <2>1 DEF Expected, Appending
        <5>3. item.folder = After(item).folder
          BY <3>2, <3>3 DEF PlanInv, Chained
        <5>4. NextFolderId \in Nat
          BY DEF NextFolderId, TypeOK
        <5>5. WouldExceed(solid, Written, item.size) => After(item).folder = NextFolderId + 1
          BY <3>1, <3>2, <5>1, <5>2 DEF After, PlanStep
        <5> QED
          BY <3>1, <3>2, <5>3, <5>4, <5>5
      <4> QED
        BY <4>1, <4>2
    <3>4. solid' = solid /\ Written' = Written
      BY <2>1, WrittenKept
    <3>5. api = "build" => ~WouldExceed(solid, Written, cur.total)'
      BY <3>3, <3>4
    <3>6. api = "stream" /\ state = "Active" => progress' = Written' /\ ~ReachedLimit(progress)'
      BY <2>1, <3>4 DEF SolidInv, ReachedLimit
    <3> QED
      BY <2>1, <3>5, <3>6 DEF SolidInv
  <2> QED
    BY <2>2, <2>3
<1>8. CASE ReadFirst
  <2>1. CASE pc' = "ensure"
    BY <1>8, <1>b, <2>1 DEF ReadFirst, Resume, fixed, Appending
  <2>2. CASE pc' # "ensure"
    BY <1>8, <1>a, <2>2 DEF ReadFirst, fixed, Resume, Appending
  <2> QED
    BY <2>1, <2>2
<1>9. CASE EnsureFolder
  <2>1. CASE state # "Ready"
    BY <1>9, <1>b, <2>1 DEF EnsureFolder, fixed, Appending
  <2>2. CASE state = "Ready"
    <3>1. /\ folder' = NoFolder /\ progress' = NoProgress /\ UNCHANGED <<api, solid, cur>>
      BY <1>9, <2>2 DEF EnsureFolder, fixed
    <3>2. Written' = NoProgress
      BY <3>1, NoFolderType DEF Written, NoProgress
    <3>3. ~ReachedLimit(NoProgress)
      BY NothingReached DEF TypeOK
    <3>4. ~ReachedLimit(progress)'
      BY <3>1, <3>3 DEF ReachedLimit
    <3>5. ~WouldExceed(solid, Written, cur.total)'
      BY <3>2, NothingExceeds, NoProgressType DEF WouldExceed
    <3> QED
      BY <3>1, <3>2, <3>4, <3>5 DEF SolidInv
  <2> QED
    BY <2>1, <2>2
<1>10. CASE WriteChunk
  <2>1. /\ UNCHANGED <<api, solid, state, progress>> /\ pc = "write" /\ pc' = "more"
        /\ folder' = [folder EXCEPT !.payload = Append(@, cur.source)]
        /\ cur' = [cur EXCEPT !.size = @ + 1, !.left = @ - 1]
    BY <1>10 DEF WriteChunk, fixed
  <2>2. folder'.files = folder.files /\ folder'.unpack = folder.unpack /\ cur'.total = cur.total
    BY <2>1 DEF TypeOK, FolderRecord
  <2>3. Written' = Written
    BY <2>2 DEF Written
  <2> QED
    BY <2>1, <2>2, <2>3 DEF SolidInv, ReachedLimit, WouldExceed, Appending
<1>11. CASE ReadMore
  BY <1>11, <1>b DEF ReadMore, fixed, Appending
<1>12. CASE RecordEntry
  <2>1. /\ UNCHANGED <<api, solid, state>> /\ pc = "record" /\ pc' \in {"seal", "idle", "next"}
        /\ folder' = [folder EXCEPT !.files = Append(folder.files, cur.size),
                                    !.unpack = folder.unpack + cur.size]
        /\ progress' = IF api = "build" THEN progress ELSE Record(progress, cur.size)
        /\ api # "build" /\ ReachedLimit(progress') => pc' = "seal"
    BY <1>12 DEF RecordEntry, fixed, RecordStream, Resume
  <2>2. folder'.files = Append(folder.files, cur.size) /\ folder'.unpack = folder.unpack + cur.size
    BY <2>1 DEF TypeOK, FolderRecord
  <2>3. Len(folder'.files) = Len(folder.files) + 1
    BY <2>2 DEF TypeOK, FolderRecord
  <2>4. Written' = Record(Written, cur.size)
    BY <2>2, <2>3 DEF Written, Record
  <2>5. ReachedLimit(progress)' <=> ReachedLimit(progress')
    BY <2>1 DEF ReachedLimit
  <2> QED
    BY <2>1, <2>4, <2>5 DEF SolidInv, Appending
<1>13. CASE AppendFails \/ SealFails
  BY <1>13, <1>c DEF AppendFails, SealFails, Fail, fixed, Appending
<1>14. CASE Seal  BY <1>14, <1>c DEF Seal, Resume, fixed, Appending
<1> QED
  BY <1>1, <1>2, <1>3, <1>4, <1>5, <1>6, <1>7, <1>8, <1>9, <1>10, <1>11, <1>12, <1>13, <1>14
     DEF Next, Step

LEMMA InputsKept == [Next]_vars => UNCHANGED <<api, solid>>
BY DEF Next, Step, vars, fixed, Cancel, AppendEmpty, NewFolder, Finish, AppendFile, PlanItem,
   Build, BuildEntry, ReadFirst, EnsureFolder, WriteChunk, ReadMore, RecordEntry, AppendFails,
   Seal, SealFails, WriteHeader, WriteSignature, WriteFails, Flush

LEMMA LimitsOfEmpty == solid \in Solid => WithinLimits(NoFolder)
BY SolidTypes, NoFolderType DEF WithinLimits

(* The limits depend on the streams of a folder only. *)
LEMMA LimitsKept ==
  ASSUME UNCHANGED <<api, solid>>
  PROVE  /\ \A f : WithinLimits(f) => WithinLimits(f)'
         /\ \A f, g : f.files = g.files /\ f.unpack = g.unpack /\ WithinLimits(f)
                       => WithinLimits(g)'
BY DEF WithinLimits

(* One more stream in a folder that is not too full for it. *)
LEMMA LimitsGrow ==
  ASSUME solid \in Solid, NEW f \in FolderRecord, NEW size \in Nat, NEW g \in FolderRecord,
         g.files = Append(f.files, size), g.unpack = f.unpack + size,
         NEW p \in Progress, p.files = Len(f.files), p.bytes = f.unpack,
         IF api = "build" THEN ~WouldExceed(solid, p, size) ELSE ~ReachedLimit(p)
  PROVE  WithinLimits(g)
<1>1. /\ f.files \in Seq(Nat) /\ f.unpack \in Nat /\ Len(f.files) \in Nat
      /\ solid.maxFiles \in Nat /\ solid.maxBytes \in Nat
  BY SolidTypes DEF FolderRecord
<1>2. Len(g.files) = Len(f.files) + 1 /\ g.files[Len(f.files) + 1] = size
  BY <1>1
<1>3. CASE api = "build"
  <2>1. /\ solid.mode = "NonSolid" => ~(p.files > 0)
        /\ solid.mode = "Limit" /\ p.files > 0 =>
             /\ ~(solid.maxFiles > 0 /\ p.files + 1 > solid.maxFiles)
             /\ ~(solid.maxBytes > 0 /\ p.bytes + size > solid.maxBytes)
    BY <1>3 DEF WouldExceed
  <2> QED
    BY <1>1, <1>2, <1>3, <2>1 DEF WithinLimits
<1>4. CASE api # "build"
  <2>1. /\ solid.mode = "NonSolid" => ~(p.files > 0)
        /\ solid.mode = "Limit" =>
             /\ ~(solid.maxFiles > 0 /\ p.files >= solid.maxFiles)
             /\ ~(solid.maxBytes > 0 /\ p.bytes >= solid.maxBytes)
    BY <1>4 DEF ReachedLimit
  <2>2. g.unpack - g.files[Len(g.files)] = f.unpack
    BY <1>1, <1>2
  <2> QED
    BY <1>1, <1>2, <1>4, <2>1, <2>2 DEF WithinLimits
<1> QED
  BY <1>3, <1>4

(* Every folder, sealed or active, keeps to the solid mode. *)
LEMMA LimitsStep ==
  TypeOK /\ TypeOK' /\ AppendInv /\ SolidInv /\ SolidLimitsHold /\ [Next]_vars => SolidLimitsHold'
<1> SUFFICES ASSUME TypeOK, TypeOK', AppendInv, SolidInv, SolidLimitsHold, [Next]_vars
             PROVE  SolidLimitsHold'
  OBVIOUS
<1>a. UNCHANGED <<api, solid>> /\ \A f : WithinLimits(f) => WithinLimits(f)'
  BY InputsKept, LimitsKept
<1>b. WithinLimits(folder) /\ \A f \in DOMAIN completed : WithinLimits(completed[f])
  BY DEF SolidLimitsHold
<1>c. WithinLimits(NoFolder) /\ WithinLimits(NoFolder)'
  BY <1>a, LimitsOfEmpty DEF TypeOK, NoFolder
<1>d. ASSUME completed' = completed, NEW g, folder' = g, WithinLimits(g)' PROVE SolidLimitsHold'
  <2>1. WithinLimits(folder)'
    BY <1>d DEF WithinLimits
  <2>2. \A f \in DOMAIN completed' : WithinLimits(completed[f])'
    BY <1>a, <1>b, <1>d DEF WithinLimits
  <2> QED
    BY <2>1, <2>2 DEF SolidLimitsHold
<1>1. CASE completed' = completed /\ folder' = folder
  <2>1. PICK g : g = folder
    OBVIOUS
  <2> QED
    BY <1>1, <1>a, <1>b, <1>d, <2>1
<1>2. CASE Fail
  <2>1. completed' = <<>> /\ folder' = NoFolder
    BY <1>2 DEF Fail
  <2> QED
    BY <1>c, <2>1 DEF SolidLimitsHold, WithinLimits
<1>3. CASE EnsureFolder
  <2>1. completed' = completed /\ (folder' = folder \/ folder' = NoFolder)
    BY <1>3 DEF EnsureFolder
  <2> QED
    BY <1>1, <1>c, <1>d, <2>1
<1>4. CASE WriteChunk
  <2>1. completed' = completed /\ folder' = [folder EXCEPT !.payload = Append(@, cur.source)]
    BY <1>4 DEF WriteChunk
  <2>2. folder'.files = folder.files /\ folder'.unpack = folder.unpack
    BY <2>1 DEF TypeOK, FolderRecord
  <2>3. PICK f, g : f = folder /\ g = folder'
    OBVIOUS
  <2>4. WithinLimits(g)'
    BY <1>a, <1>b, <2>2, <2>3, LimitsKept
  <2> QED
    BY <1>d, <2>1, <2>3, <2>4
<1>5. CASE RecordEntry
  <2>1. /\ completed' = completed /\ pc = "record"
        /\ folder' = [folder EXCEPT !.files = Append(folder.files, cur.size),
                                    !.unpack = folder.unpack + cur.size]
    BY <1>5 DEF RecordEntry, RecordStream
  <2>2. folder'.files = Append(folder.files, cur.size) /\ folder'.unpack = folder.unpack + cur.size
    BY <2>1 DEF TypeOK, FolderRecord
  <2>3. cur.size \in Nat /\ cur.size = cur.total /\ state = "Active"
    BY <2>1 DEF AppendInv, Appending, TypeOK
  <2>4. PICK f \in FolderRecord, g \in FolderRecord, p \in Progress, size \in Nat :
          f = folder /\ g = folder' /\ p = Written /\ size = cur.size
    BY <2>3, WrittenType DEF TypeOK
  <2>5. p.files = Len(f.files) /\ p.bytes = f.unpack
    BY <2>4 DEF Written
  <2>6. IF api = "build" THEN ~WouldExceed(solid, p, size) ELSE ~ReachedLimit(p)
    BY <2>1, <2>3, <2>4 DEF SolidInv, Appending, TypeOK
  <2>7. WithinLimits(g)
    BY <2>2, <2>4, <2>5, <2>6, LimitsGrow DEF TypeOK
  <2> QED
    BY <1>a, <1>d, <2>1, <2>4, <2>7
<1>6. CASE Seal
  <2>1. /\ folder' = NoFolder
        /\ completed' = IF state = "Active" THEN Append(completed, folder) ELSE completed
    BY <1>6 DEF Seal
  <2>2. CASE state # "Active"
    BY <1>c, <1>d, <2>1, <2>2
  <2>3. CASE state = "Active"
    <3>1. ASSUME NEW f \in DOMAIN completed' PROVE WithinLimits(completed'[f])
      <4>1. completed' = Append(completed, folder) /\ DOMAIN completed = 1 .. Len(completed)
        BY <2>1, <2>3 DEF TypeOK
      <4>2. completed'[f] = folder \/ (f \in DOMAIN completed /\ completed'[f] = completed[f])
        BY <4>1, AppendAt DEF TypeOK
      <4> QED
        BY <1>b, <4>2
    <3>2. \A f \in DOMAIN completed' : WithinLimits(completed[f])'
      BY <1>a, <3>1 DEF WithinLimits
    <3> QED
      BY <1>c, <2>1, <3>2 DEF SolidLimitsHold, WithinLimits
  <2> QED
    BY <2>2, <2>3
<1>7. CASE UNCHANGED <<completed, folder>>  BY <1>1, <1>7
<1> QED
  BY <1>2, <1>3, <1>4, <1>5, <1>6, <1>7 DEF Next, Step, vars, Cancel, AppendEmpty, NewFolder,
     Finish, AppendFile, PlanItem, Build, BuildEntry, ReadFirst, ReadMore, AppendFails, SealFails,
     WriteHeader, WriteSignature, WriteFails, Flush
-----------------------------------------------------------------------------
(* Where a planned entry goes: on in the folder, or into a new one when    *)
(* the folder has files and the entry asks for it.                         *)
LEMMA AfterSplits ==
  ASSUME NEW item \in Planned
  PROVE  /\ item.before.folder \in Nat
         /\ \/ After(item) = [folder |-> item.before.folder,
                              progress |-> IF item.stream THEN Record(item.before.progress, item.size)
                                           ELSE item.before.progress]
            \/ /\ item.before.progress.files > 0
               /\ After(item) = [folder |-> item.before.folder + 1,
                                 progress |-> IF item.stream THEN Record(NoProgress, item.size)
                                              ELSE NoProgress]
<1>1. item.before \in Plans /\ item.stream \in BOOLEAN
  BY DEF Planned
<1>2. item.before.folder \in Nat
  BY <1>1 DEF Plans
<1> QED
  BY <1>1, <1>2 DEF After, PlanStep, WouldExceed

LEMMA AfterKept == solid' = solid => \A item : After(item)' = After(item)
BY DEF After, PlanStep, WouldExceed

LEMMA ChainedKept == solid' = solid => \A items : Chained(items) => Chained(items)'
BY DEF Chained, After, PlanStep, WouldExceed

LEMMA ChainedTail ==
  ASSUME NEW items \in Seq(Planned), items # <<>>, Chained(items)
  PROVE  /\ Chained(Tail(items))
         /\ Tail(items) # <<>> => Tail(items)[1].before = After(items[1])
<1>1. /\ Len(items) \in Nat /\ Len(items) > 0 /\ Len(Tail(items)) = Len(items) - 1
      /\ DOMAIN items = 1 .. Len(items) /\ DOMAIN Tail(items) = 1 .. Len(items) - 1
      /\ \A i \in 1 .. Len(items) - 1 : Tail(items)[i] = items[i + 1]
  OBVIOUS
<1>2. Tail(items) # <<>> => Len(items) - 1 > 0
  BY <1>1
<1>3. \A i \in 1 .. Len(items) - 1 : Tail(items)[i].folder = After(Tail(items)[i]).folder
  BY <1>1 DEF Chained
<1>4. ASSUME NEW i \in 1 .. Len(Tail(items)) - 1
      PROVE  Tail(items)[i + 1].before = After(Tail(items)[i])
  <2>1. /\ i \in 1 .. Len(items) - 1 /\ i + 1 \in 1 .. Len(items) - 1
    BY <1>1
  <2> QED
    BY <1>1, <2>1 DEF Chained
<1>5. Tail(items) # <<>> => Tail(items)[1].before = After(items[1])
  BY <1>1, <1>2 DEF Chained
<1> QED
  BY <1>1, <1>3, <1>4, <1>5 DEF Chained

LEMMA ChainedAppend ==
  ASSUME NEW items \in Seq(Planned), NEW item \in Planned, Chained(items),
         item.folder = After(item).folder,
         items # <<>> => item.before = After(items[Len(items)])
  PROVE  Chained(Append(items, item))
<1> DEFINE longer == Append(items, item)
<1>1. /\ Len(items) \in Nat /\ Len(longer) = Len(items) + 1
      /\ \A i \in DOMAIN longer : i \in 1 .. Len(items) \/ i = Len(items) + 1
      /\ \A i \in 1 .. Len(items) : longer[i] = items[i]
      /\ longer[Len(items) + 1] = item /\ DOMAIN items = 1 .. Len(items)
  BY AppendAt
<1>2. ASSUME NEW i \in DOMAIN longer PROVE longer[i].folder = After(longer[i]).folder
  BY <1>1 DEF Chained
<1>3. ASSUME NEW i \in 1 .. Len(longer) - 1 PROVE longer[i + 1].before = After(longer[i])
  <2>1. i \in 1 .. Len(items)
    BY <1>1
  <2>2. CASE i = Len(items)
    <3>1. items # <<>>
      BY <2>1
    <3> QED
      BY <1>1, <2>1, <2>2, <3>1
  <2>3. CASE i # Len(items)
    <3>1. PICK n \in Nat : n = Len(items)
      BY <1>1
    <3>2. i \in 1 .. n - 1 /\ i + 1 \in 1 .. n
      BY <2>1, <2>3, <3>1
    <3> QED
      BY <1>1, <2>1, <3>1, <3>2 DEF Chained
  <2> QED
    BY <2>2, <2>3
<1> QED
  BY <1>2, <1>3 DEF Chained

(* The writer and the plan stay together. *)
LEMMA PlanInvStep ==
  TypeOK /\ WriterInv /\ AppendInv /\ PlanInv /\ [Next]_vars => PlanInv'
<1> SUFFICES ASSUME TypeOK, WriterInv, AppendInv, PlanInv, [Next]_vars, api' = "build"
             PROVE  PlanInv'
  BY DEF PlanInv
<1>a. /\ api = "build" /\ solid' = solid /\ pc \notin {"idle", "misplanned"} /\ Chained(todo)
      /\ then = "build" => pc \in {"seal", "next", "closed"} /\ todo # <<>>
      /\ pc \notin {"plan", "closed"} /\ todo # <<>> => InStep(todo[1])
  BY InputsKept DEF PlanInv
<1>b. \A items : items = todo' /\ Chained(items) => Chained(todo)'
  BY <1>a, ChainedKept DEF Chained
(* Steps that leave the plan and the writer's place alone. *)
<1>c. ASSUME UNCHANGED <<todo, completed>>, Expected' = Expected,
             pc' \notin {"plan", "idle", "misplanned", "seal"}, pc # "plan",
             then' = then, pc = "closed" => pc' = "closed",
             then = "build" => pc' = "closed"
      PROVE  PlanInv'
  <2>1. Chained(todo)'
    BY <1>a, <1>b, <1>c
  <2>2. ASSUME pc' # "closed", todo # <<>> PROVE InStep(todo[1])'
    BY <1>a, <1>c, <2>2 DEF InStep, NextFolderId
  <2> QED
    BY <1>a, <1>c, <2>1, <2>2 DEF PlanInv
<1>d. Expected = IF pc \in Appending THEN Record(Written, cur.total) ELSE Written
  BY DEF Expected
<1>e. Expected' = IF pc' \in Appending THEN Record(Written', cur'.total) ELSE Written'
  BY DEF Expected, Record
<1>1. CASE Cancel \/ UNCHANGED vars
  <2>1. UNCHANGED <<api, solid, planner, todo, completed, state, then, pc, folder, cur>>
    BY <1>1 DEF Cancel, vars, fixed
  <2>2. Expected' = Expected
    BY <2>1, <1>d, <1>e, WrittenKept
  <2>3. Chained(todo)'
    BY <1>a, <1>b, <2>1
  <2>4. todo # <<>> /\ pc \notin {"plan", "closed"} => InStep(todo[1])'
    BY <1>a, <2>1, <2>2 DEF InStep, NextFolderId
  <2>5. After(todo[Len(todo)])' = After(todo[Len(todo)])
    BY <2>1 DEF After, PlanStep, WouldExceed
  <2> QED
    BY <1>a, <2>1, <2>3, <2>4, <2>5 DEF PlanInv
<1>2. CASE AppendEmpty \/ NewFolder \/ \E total \in 0 .. MaxSize : AppendFile(total)
  BY <1>2, <1>a DEF AppendEmpty, NewFolder, AppendFile
<1>3. CASE Finish
  <2>1. todo = <<>> /\ pc = "next" /\ todo' = todo /\ then # "build"
    BY <1>3, <1>a DEF Finish
  <2>2. pc' \in {"closed", "seal"} /\ then' \in {then, "finish"}
    BY <1>3 DEF Finish
  <2>3. Chained(todo)'
    BY <1>a, <1>b, <2>1
  <2> QED
    BY <2>1, <2>2, <2>3 DEF PlanInv
<1>4. CASE Build
  <2>1. pc = "plan" /\ pc' = "next" /\ UNCHANGED <<todo, completed, state, then, folder, cur>>
    BY <1>4 DEF Build
  <2>2. /\ completed = <<>> /\ state = "Ready" /\ then = "none"
        /\ todo # <<>> => todo[1].before = NoPlan
    BY <1>a, <2>1 DEF PlanInv
  <2>3. Written' = NoProgress
    BY <2>1, <2>2, WrittenEmpty, WrittenKept DEF AppendInv
  <2>4. Expected' = NoProgress /\ NextFolderId' = 0
    BY <1>e, <2>1, <2>2, <2>3 DEF Appending, NextFolderId
  <2>5. todo # <<>> => InStep(todo[1])'
    BY <2>1, <2>2, <2>4 DEF InStep, NoPlan
  <2>6. Chained(todo)'
    BY <1>a, <1>b, <2>1
  <2> QED
    BY <2>1, <2>2, <2>5, <2>6 DEF PlanInv
<1>5. ASSUME NEW item \in Item, PlanItem(item) PROVE PlanInv'
  <2>1. /\ pc = "plan" /\ pc' = "plan" /\ UNCHANGED <<completed, state, then>>
        /\ planner' = PlanStep(planner, item)
    BY <1>5 DEF PlanItem
  <2>2. /\ completed = <<>> /\ state = "Ready" /\ then = "none"
        /\ IF todo = <<>> THEN planner = NoPlan
           ELSE todo[1].before = NoPlan /\ planner = After(todo[Len(todo)])
    BY <1>a, <2>1 DEF PlanInv
  <2>3. planner' \in Plans /\ planner \in Plans /\ item.stream \in BOOLEAN /\ item.size \in Nat
    BY <1>5, <2>1, ItemTypes, PlanStepType DEF TypeOK
  <2>4. PICK new : new = [stream |-> item.stream, size |-> item.size, folder |-> planner'.folder,
                          before |-> planner]
    OBVIOUS
  <2>5. todo' = Append(todo, new)
    BY <1>5, <2>4 DEF PlanItem
  <2>6. new \in Planned /\ new.before = planner
    BY <2>3, <2>4 DEF Planned, Plans
  <2>7. After(new) = planner' /\ new.folder = planner'.folder
    BY <2>1, <2>4 DEF After, PlanStep
  <2>8. Chained(todo)'
    <3>1. Chained(Append(todo, new))
      BY <1>a, <2>2, <2>6, <2>7, ChainedAppend DEF TypeOK
    <3> QED
      BY <1>b, <2>5, <3>1
  <2>9. /\ Len(todo) \in Nat /\ Len(todo') = Len(todo) + 1 /\ todo'[Len(todo) + 1] = new
        /\ \A i \in 1 .. Len(todo) : todo'[i] = todo[i]
    BY <2>5, <2>6, AppendAt DEF TypeOK
  <2>10. todo' # <<>> /\ todo'[1].before = NoPlan
    <3>1. todo' # <<>>
      BY <2>9
    <3>2. CASE todo = <<>>
      BY <2>2, <2>6, <2>9, <3>1, <3>2
    <3>3. CASE todo # <<>>
      <4>1. 1 \in 1 .. Len(todo)
        BY <3>3 DEF TypeOK
      <4> QED
        BY <2>2, <2>9, <3>1, <3>3, <4>1
    <3> QED
      BY <3>2, <3>3
  <2>11. (planner = After(todo[Len(todo)]))'
    <3>1. todo'[Len(todo')] = new
      BY <2>9
    <3>2. After(todo[Len(todo)])' = After(new)'
      BY <3>1 DEF After, PlanStep
    <3> QED
      BY <1>a, <2>7, <3>2, AfterKept
  <2> QED
    BY <2>1, <2>2, <2>8, <2>10, <2>11 DEF PlanInv
<1>6. CASE BuildEntry
  <2>1. /\ pc = "next" /\ todo # <<>> /\ UNCHANGED <<completed, state, folder>>
    BY <1>6 DEF BuildEntry
  <2>2. /\ Head(todo) = todo[1] /\ todo[1] \in Planned /\ 1 \in DOMAIN todo
    BY <2>1 DEF TypeOK
  <2>3. PICK item \in Planned : item = todo[1]
    BY <2>2
  <2>4. item.folder = After(item).folder /\ item.stream \in BOOLEAN /\ NextFolderId \in Nat
    BY <1>a, <2>2, <2>3 DEF Chained, Planned, NextFolderId, TypeOK
  <2>5. Written' = Written /\ NextFolderId' = NextFolderId /\ Expected = Written
    BY <1>d, <2>1, WrittenKept DEF NextFolderId, Appending
  <2>6. \/ /\ item.folder = NextFolderId
           /\ After(item) = [folder |-> NextFolderId,
                             progress |-> IF item.stream THEN Record(Written, item.size)
                                          ELSE Written]
        \/ /\ item.folder = NextFolderId + 1 /\ then # "build" /\ state = "Active"
           /\ item.before = [folder |-> NextFolderId, progress |-> Written]
    <3>1. CASE then = "build"
      <4>1. item.folder = NextFolderId /\ item.before.folder + 1 = item.folder /\ state = "Ready"
        BY <1>a, <2>1, <2>3, <3>1 DEF InStep
      <4>2. Written = NoProgress
        BY <4>1, WrittenEmpty DEF AppendInv
      <4>3. item.before.folder \in Nat
        BY AfterSplits
      <4>4. After(item).folder # item.before.folder
        BY <2>4, <4>1, <4>3
      <4>5. After(item) = [folder |-> item.before.folder + 1,
                           progress |-> IF item.stream THEN Record(NoProgress, item.size)
                                        ELSE NoProgress]
        BY <4>4, AfterSplits
      <4> QED
        BY <4>1, <4>2, <4>5
    <3>2. CASE then # "build"
      <4>1. item.before = [folder |-> NextFolderId, progress |-> Written]
        BY <1>a, <2>1, <2>3, <2>5, <3>2 DEF InStep
      <4>2. item.before.folder = NextFolderId /\ item.before.progress = Written
        BY <4>1
      <4>3. Written.files > 0 => state = "Active"
        BY WrittenEmpty, NoProgressType DEF AppendInv
      <4>4. CASE After(item) = [folder |-> item.before.folder,
                                progress |-> IF item.stream
                                             THEN Record(item.before.progress, item.size)
                                             ELSE item.before.progress]
        BY <2>4, <4>2, <4>4
      <4>5. CASE /\ item.before.progress.files > 0
                 /\ After(item) = [folder |-> item.before.folder + 1,
                                   progress |-> IF item.stream THEN Record(NoProgress, item.size)
                                                ELSE NoProgress]
        BY <2>4, <3>2, <4>1, <4>2, <4>3, <4>5
      <4> QED
        BY <4>4, <4>5, AfterSplits
    <3> QED
      BY <3>1, <3>2
  <2>7. CASE todo' = todo /\ pc' = "seal" /\ then' = "build" /\ item.folder > NextFolderId
    <3>1. /\ item.folder = NextFolderId + 1 /\ state = "Active"
          /\ item.before = [folder |-> NextFolderId, progress |-> Written]
      BY <2>4, <2>6, <2>7
    <3>2. Expected' = Written
      BY <1>e, <2>5, <2>7 DEF Appending
    <3>3. InStep(todo[1])'
      BY <2>1, <2>3, <2>5, <2>7, <3>1, <3>2 DEF InStep
    <3>4. Chained(todo)'
      BY <1>a, <1>b, <2>7
    <3> QED
      BY <2>1, <2>7, <3>3, <3>4 DEF PlanInv
  <2>8. CASE item.folder < NextFolderId \/ (item.folder > NextFolderId /\ then = "build")
    BY <2>4, <2>6, <2>8
  <2>9. CASE /\ item.folder = NextFolderId /\ todo' = Tail(todo) /\ then' = "none"
             /\ IF item.stream
                  THEN /\ pc' = "first"
                       /\ cur' = [source |-> calls + 1, left |-> item.size, total |-> item.size,
                                  size |-> 0]
                  ELSE pc' = "next"
    <3>1. Expected' = IF item.stream THEN Record(Written, item.size) ELSE Written
      BY <1>e, <2>5, <2>9 DEF Appending
    <3>2. After(item) = [folder |-> NextFolderId, progress |-> Expected']
      BY <2>4, <2>6, <2>9, <3>1
    <3>3. Chained(Tail(todo)) /\ (Tail(todo) # <<>> => Tail(todo)[1].before = After(item))
      BY <1>a, <2>1, <2>3, ChainedTail DEF TypeOK
    <3>4. Chained(todo)'
      BY <1>b, <2>9, <3>3
    <3>5. todo' # <<>> => InStep(todo[1])'
      BY <2>5, <2>9, <3>2, <3>3 DEF InStep
    <3> QED
      BY <2>9, <3>4, <3>5 DEF PlanInv
  <2>10. CASE todo' = todo /\ pc' = "closed" /\ then' = then
    <3>1. Chained(todo)'
      BY <1>a, <1>b, <2>10
    <3> QED
      BY <1>a, <2>10, <3>1 DEF PlanInv
  <2> QED
    BY <1>6, <2>2, <2>3, <2>4, <2>7, <2>8, <2>9, <2>10 DEF BuildEntry
<1>7. CASE ReadFirst
  <2>1. /\ UNCHANGED <<todo, completed, then, cur, folder>> /\ pc = "first" /\ pc' = "ensure"
    BY <1>7, <1>a DEF ReadFirst
  <2>2. Expected' = Expected
    BY <1>d, <1>e, <2>1, WrittenKept DEF Appending
  <2> QED
    BY <1>a, <1>c, <2>1, <2>2
<1>8. CASE EnsureFolder
  <2>1. /\ UNCHANGED <<todo, completed, then, cur>> /\ pc = "ensure" /\ pc' \in {"write", "record"}
        /\ folder' = folder
    BY <1>8 DEF EnsureFolder, AppendInv
  <2>2. Expected' = Expected
    BY <1>d, <1>e, <2>1, WrittenKept DEF Appending
  <2> QED
    BY <1>a, <1>c, <2>1, <2>2
<1>9. CASE WriteChunk
  <2>1. /\ UNCHANGED <<todo, completed, then>> /\ pc = "write" /\ pc' = "more"
        /\ folder' = [folder EXCEPT !.payload = Append(@, cur.source)]
        /\ cur' = [cur EXCEPT !.size = @ + 1, !.left = @ - 1]
    BY <1>9 DEF WriteChunk
  <2>2. folder'.files = folder.files /\ folder'.unpack = folder.unpack /\ cur'.total = cur.total
    BY <2>1 DEF TypeOK, FolderRecord
  <2>3. Written' = Written
    BY <2>2 DEF Written
  <2>4. Expected' = Expected
    BY <1>d, <1>e, <2>1, <2>2, <2>3 DEF Appending
  <2> QED
    BY <1>a, <1>c, <2>1, <2>4
<1>10. CASE ReadMore
  <2>1. /\ UNCHANGED <<todo, completed, then, cur, folder>> /\ pc = "more"
        /\ pc' \in {"write", "record"}
    BY <1>10 DEF ReadMore
  <2>2. Expected' = Expected
    BY <1>d, <1>e, <2>1, WrittenKept DEF Appending
  <2> QED
    BY <1>a, <1>c, <2>1, <2>2
<1>11. CASE RecordEntry
  <2>1. /\ UNCHANGED <<todo, completed, then>> /\ pc = "record" /\ pc' = "next"
        /\ folder' = [folder EXCEPT !.files = Append(folder.files, cur.size),
                                    !.unpack = folder.unpack + cur.size]
    BY <1>11, <1>a DEF RecordEntry, RecordStream, Resume
  <2>2. folder'.files = Append(folder.files, cur.size) /\ folder'.unpack = folder.unpack + cur.size
    BY <2>1 DEF TypeOK, FolderRecord
  <2>3. Len(folder'.files) = Len(folder.files) + 1
    BY <2>2 DEF TypeOK, FolderRecord
  <2>4. Written' = Record(Written, cur.size)
    BY <2>2, <2>3 DEF Written, Record
  <2>5. cur.size = cur.total
    BY <2>1 DEF AppendInv, Appending, TypeOK
  <2>6. Expected' = Expected
    BY <1>d, <1>e, <2>1, <2>4, <2>5 DEF Appending
  <2> QED
    BY <1>a, <1>c, <2>1, <2>6
<1>12. CASE AppendFails \/ SealFails
  <2>1. todo' = todo /\ pc' = "closed" /\ then' = "none"
    BY <1>12, <1>a DEF AppendFails, SealFails, Fail
  <2>2. Chained(todo)'
    BY <1>a, <1>b, <2>1
  <2> QED
    BY <2>1, <2>2 DEF PlanInv
<1>13. CASE Seal
  <2>1. /\ pc = "seal" /\ todo' = todo /\ state' = "Ready" /\ then' \in {then, "none"}
        /\ completed' = IF state = "Active" THEN Append(completed, folder) ELSE completed
        /\ pc' = IF then = "finish" THEN "header" ELSE "next"
    BY <1>13, <1>a DEF Seal, Resume
  <2>2. Chained(todo)'
    BY <1>a, <1>b, <2>1
  <2>3. ASSUME todo # <<>> PROVE InStep(todo[1])' /\ then' = "build"
    <3>1. /\ then = "build" /\ state = "Active" /\ todo[1].folder = NextFolderId + 1
          /\ todo[1].before.folder = NextFolderId
      BY <1>a, <2>1, <2>3 DEF InStep
    <3>2. then' = "build" /\ pc' = "next"
      BY <1>13, <2>1, <3>1 DEF Seal
    <3>3. NextFolderId' = NextFolderId + 1
      BY <2>1, <3>1, AppendAt DEF NextFolderId, TypeOK
    <3> QED
      BY <2>1, <3>1, <3>2, <3>3 DEF InStep
  <2> QED
    BY <1>a, <2>1, <2>2, <2>3 DEF PlanInv
<1>14. CASE WriteHeader \/ WriteSignature \/ WriteFails \/ Flush
  <2>1. /\ UNCHANGED <<todo, completed, then, cur, folder>>
        /\ pc \in {"header", "signature", "flush"}
        /\ pc' \in {"signature", "flush", "closed", "finished"}
    BY <1>14 DEF WriteHeader, WriteSignature, WriteFails, Flush
  <2>2. Expected' = Expected
    BY <1>d, <1>e, <2>1, WrittenKept DEF Appending
  <2> QED
    BY <1>a, <1>c, <2>1, <2>2
<1> QED
  BY <1>1, <1>2, <1>3, <1>4, <1>5, <1>6, <1>7, <1>8, <1>9, <1>10, <1>11, <1>12, <1>13, <1>14
     DEF Next, Step

LEMMA InitIInv == Init => IInv
<1> SUFFICES ASSUME Init PROVE IInv
  OBVIOUS
<1> USE DEF Init
<1>1. TypeOK
  <2>1. NoPlan \in Plans
    BY NoProgressType DEF NoPlan, Plans
  <2>2. NoEntry \in [source : Nat, left : Nat, total : Nat, size : Nat]
    BY DEF NoEntry
  <2>3. api \in {"stream", "build"} /\ solid \in Solid
    BY WriterAssumption
  <2> QED
    BY <2>1, <2>2, <2>3, NoFolderType, NoProgressType DEF TypeOK
<1>2. WriterInv
  BY DEF WriterInv
<1>3. AppendInv
  BY DEF AppendInv, Appending
<1>4. SolidInv
  BY DEF SolidInv, Appending
<1>5. SolidLimitsHold
  BY <1>1, LimitsOfEmpty DEF SolidLimitsHold, TypeOK
<1>6. PlanInv
  BY DEF PlanInv, Chained
<1> QED
  BY <1>1, <1>2, <1>3, <1>4, <1>5, <1>6 DEF IInv

LEMMA NextIInv == IInv /\ [Next]_vars => IInv'
BY TypeStep, WriterStep, AppendStep, SolidStep, LimitsStep, PlanInvStep DEF IInv

-----------------------------------------------------------------------------
(* The inductive invariant of the writer: after any sequence of calls,     *)
(* failures and cancellations the writer's state, its folders and the      *)
(* places of its plan agree.                                               *)
THEOREM WriterInvariance == Spec => []IInv
<1> QED
  BY InitIInv, NextIInv, PTL DEF Spec

(* A writer one of whose calls failed never signs its output:              *)
(* WriterState::Failed refuses every later call, finish included.          *)
THEOREM FailedWriterUnsigned == Spec => []FailedWriterNeverSigns
<1>1. IInv => FailedWriterNeverSigns
  BY DEF IInv, WriterInv, FailedWriterNeverSigns
<1> QED
  BY <1>1, WriterInvariance, PTL

(* A signature header is valid only over a complete header: it is written  *)
(* last, after the header of all sealed folders.                           *)
THEOREM SignedIsComplete == Spec => []SignedMeansComplete
<1>1. IInv => SignedMeansComplete
  BY DEF IInv, WriterInv, SignedMeansComplete
<1> QED
  BY <1>1, WriterInvariance, PTL

(* No folder, streamed or planned, holds more than its solid mode allows:  *)
(* would_exceed and reached_limit split where they must.                   *)
THEOREM SolidLimits == Spec => []SolidLimitsHold
<1>1. IInv => SolidLimitsHold
  BY DEF IInv
<1> QED
  BY <1>1, WriterInvariance, PTL

(* The folders that entries_with_solid_folders plans are those the writer  *)
(* makes: build never ends in the Parse errors of its loop.                *)
THEOREM PlanFollowed == Spec => []PlanIsFollowed
<1>1. IInv => PlanIsFollowed
  <2>1. ASSUME IInv, api = "build" PROVE pc # "misplanned"
    BY <2>1 DEF IInv, PlanInv
  <2>2. ASSUME IInv, api = "stream" PROVE pc # "misplanned"
    BY <2>2 DEF IInv, WriterInv
  <2> QED
    BY <2>1, <2>2 DEF PlanIsFollowed, IInv, TypeOK
<1> QED
  BY <1>1, WriterInvariance, PTL

-----------------------------------------------------------------------------
(***************************************************************************)
(* What a step does to the data: nothing, a new entry without data, a      *)
(* chunk more, a new stream and its entry, a failure, or a folder sealed.  *)
(***************************************************************************)
DataKept ==
  /\ UNCHANGED <<completed, folder, entries>>
  /\ state = "Failed" <=> state' = "Failed"
  /\ cur' = cur \/ (cur.size = 0 /\ cur'.size = 0)

EntryAdded ==
  /\ UNCHANGED <<completed, folder>> /\ state # "Failed"
  /\ cur.size = 0 /\ cur'.size = 0
  /\ \E e \in EntryRecord : ~e.stream /\ entries' = Append(entries, e)

FolderSealed ==
  /\ completed' = Append(completed, folder) /\ folder' = NoFolder
  /\ UNCHANGED <<entries, cur>> /\ cur.size = 0 /\ state # "Failed"

LEMMA AddedEntry ==
  ASSUME TypeOK, NEW source \in Nat, PushEntry(source, FALSE, 0)
  PROVE  \E e \in EntryRecord : ~e.stream /\ entries' = Append(entries, e)
<1>1. Len(completed) \in Nat /\ Len(folder.files) + 1 \in Nat /\ folder.unpack \in Nat
  BY DEF TypeOK, FolderRecord
<1>2. PICK e : e = [source |-> source, stream |-> FALSE, total |-> 0, folder |-> NextFolderId,
                    at |-> Len(folder.files) + 1, first |-> folder.unpack]
  OBVIOUS
<1>3. e \in EntryRecord
  BY <1>1, <1>2 DEF EntryRecord, NextFolderId
<1>4. ~e.stream
  BY <1>2, Zenon
<1>5. entries' = Append(entries, e)
  BY <1>2 DEF PushEntry
<1> QED
  BY <1>3, <1>4, <1>5

LEMMA DataSteps ==
  ASSUME IInv, [Next]_vars
  PROVE  \/ DataKept \/ EntryAdded \/ WriteChunk \/ RecordEntry \/ FolderSealed
         \/ state' = "Failed" /\ entries' = entries
<1> USE DEF IInv
<1>a. NoEntry.size = 0
  BY DEF NoEntry
<1>b. pc \notin Appending => cur.size = 0
  BY <1>a DEF AppendInv
<1>1. CASE Cancel \/ NewFolder \/ Finish \/ Build \/ ReadMore
  BY <1>1 DEF DataKept, Cancel, NewFolder, Finish, Build, ReadMore
<1>2. CASE WriteHeader \/ WriteSignature \/ WriteFails \/ Flush \/ UNCHANGED vars
  BY <1>2 DEF DataKept, WriteHeader, WriteSignature, WriteFails, Flush, vars
<1>3. CASE AppendEmpty
  <2>1. PICK n \in Nat : n = calls'
    BY <1>3 DEF AppendEmpty, TypeOK
  <2>2. PushEntry(n, FALSE, 0)
    BY <1>3, <2>1 DEF AppendEmpty, PushEntry
  <2>3. \E e \in EntryRecord : ~e.stream /\ entries' = Append(entries, e)
    BY <2>2, AddedEntry
  <2> QED
    BY <1>3, <1>b, <2>3 DEF AppendEmpty, EntryAdded, Appending
<1>4. ASSUME NEW total \in 0 .. MaxSize, AppendFile(total) PROVE DataKept
  BY <1>4, <1>b DEF AppendFile, DataKept, Appending
<1>5. ASSUME NEW item \in Item, PlanItem(item) PROVE DataKept
  BY <1>5 DEF PlanItem, DataKept
<1>6. CASE BuildEntry
  <2>1. UNCHANGED <<completed, folder, state>> /\ pc = "next" /\ cur.size = 0
    BY <1>6, <1>b DEF BuildEntry, Appending
  <2>2. state # "Failed"
    BY <2>1 DEF WriterInv
  <2>3. cur'.size = 0
    <3>1. cur' = cur \/ \E n, m : cur' = [source |-> n, left |-> m, total |-> m, size |-> 0]
      BY <1>6 DEF BuildEntry
    <3> QED
      BY <2>1, <3>1
  <2>4. entries' = entries \/ PushEntry(calls + 1, FALSE, 0)
    BY <1>6 DEF BuildEntry
  <2>5. calls + 1 \in Nat
    BY DEF TypeOK
  <2> QED
    BY <2>1, <2>2, <2>3, <2>4, <2>5, AddedEntry DEF DataKept, EntryAdded
<1>7. CASE ReadFirst
  <2>1. UNCHANGED <<completed, folder, state>> /\ pc = "first" /\ cur.size = 0 /\ cur.source \in Nat
    BY <1>7 DEF ReadFirst, AppendInv, TypeOK
  <2>2. state # "Failed"
    BY <2>1 DEF WriterInv
  <2>3. UNCHANGED <<entries, cur>> \/ (PushEntry(cur.source, FALSE, 0) /\ cur' = NoEntry)
    BY <1>7 DEF ReadFirst
  <2> QED
    BY <1>a, <2>1, <2>2, <2>3, AddedEntry DEF DataKept, EntryAdded
<1>8. CASE EnsureFolder
  <2>1. pc = "ensure" /\ UNCHANGED <<completed, entries, cur>>
    BY <1>8 DEF EnsureFolder
  <2>2. state # "Failed"
    BY <2>1 DEF WriterInv
  <2>3. folder' = folder /\ state' # "Failed"
    BY <1>8, <2>2 DEF EnsureFolder, AppendInv
  <2> QED
    BY <2>1, <2>2, <2>3 DEF DataKept
<1>9. CASE AppendFails \/ SealFails
  BY <1>9 DEF AppendFails, SealFails, Fail
<1>10. CASE Seal
  <2>1. /\ pc = "seal" /\ UNCHANGED <<entries, cur>> /\ folder' = NoFolder /\ state' = "Ready"
        /\ completed' = IF state = "Active" THEN Append(completed, folder) ELSE completed
    BY <1>10 DEF Seal
  <2>2. state # "Failed" /\ cur.size = 0
    BY <1>b, <2>1 DEF WriterInv, Appending
  <2> QED
    BY <2>1, <2>2 DEF FolderSealed, DataKept, AppendInv
<1> QED
  BY <1>1, <1>2, <1>3, <1>4, <1>5, <1>6, <1>7, <1>8, <1>9, <1>10 DEF Next, Step

-----------------------------------------------------------------------------
(***************************************************************************)
(* Entries and folders after a step.                                       *)
(***************************************************************************)
LEMMA PushedData ==
  ASSUME TypeOK, NEW e \in EntryRecord, entries' = Append(entries, e)
  PROVE  /\ Len(entries) \in Nat /\ \A k \in HasData : k \in 1 .. Len(entries)
         /\ \A k \in HasData : k \in HasData' /\ entries'[k] = entries[k]
         /\ \A k \in HasData' : \/ k \in HasData
                                \/ k = Len(entries) + 1 /\ e.stream /\ entries'[k] = e
         /\ e.stream => Len(entries) + 1 \in HasData' /\ entries'[Len(entries) + 1] = e
<1>1. entries \in Seq(EntryRecord) /\ DOMAIN entries = 1 .. Len(entries)
  BY DEF TypeOK
<1>2. /\ Len(entries) \in Nat
      /\ \A i \in DOMAIN entries' : i \in 1 .. Len(entries) \/ i = Len(entries) + 1
      /\ \A i \in 1 .. Len(entries) : i \in DOMAIN entries' /\ entries'[i] = entries[i]
      /\ entries'[Len(entries) + 1] = e /\ Len(entries) + 1 \in DOMAIN entries'
  BY <1>1, AppendAt
<1> QED
  BY <1>1, <1>2 DEF HasData

LEMMA DataTypes ==
  ASSUME TypeOK
  PROVE  \A k \in HasData : k \in Nat \ {0} /\ entries[k] \in EntryRecord
<1>1. entries \in Seq(EntryRecord)
  BY DEF TypeOK
<1> QED
  BY <1>1 DEF HasData

LEMMA KeptData == entries' = entries => HasData' = HasData
BY DEF HasData

LEMMA FolderTypes ==
  ASSUME TypeOK
  PROVE  /\ Len(completed) \in Nat
         /\ \A f \in 0 .. Len(completed) : FolderAt(f) \in FolderRecord
<1>1. completed \in Seq(FolderRecord) /\ folder \in FolderRecord
  BY DEF TypeOK
<1>2. Len(completed) \in Nat /\ \A f \in 1 .. Len(completed) : completed[f] \in FolderRecord
  BY <1>1
<1>3. ASSUME NEW f \in 0 .. Len(completed), f # Len(completed) PROVE f + 1 \in 1 .. Len(completed)
  BY <1>2, <1>3
<1> QED
  BY <1>1, <1>2, <1>3 DEF FolderAt

LEMMA FoldersKept ==
  ASSUME completed' = completed
  PROVE  \A f : FolderAt(f)' = IF f = Len(completed) THEN folder' ELSE FolderAt(f)
BY DEF FolderAt

LEMMA FoldersSealed ==
  ASSUME TypeOK, FolderSealed
  PROVE  /\ Len(completed)' = Len(completed) + 1
         /\ \A f \in 0 .. Len(completed) : FolderAt(f)' = FolderAt(f)
         /\ \A f : f = Len(completed) + 1 => FolderAt(f)' = NoFolder
<1>1. completed \in Seq(FolderRecord) /\ folder \in FolderRecord
  BY DEF TypeOK
<1>2. /\ Len(completed) \in Nat /\ Len(completed') = Len(completed) + 1
      /\ \A i \in 1 .. Len(completed) : completed'[i] = completed[i]
      /\ completed'[Len(completed) + 1] = folder /\ folder' = NoFolder
  BY <1>1, AppendAt DEF FolderSealed
<1>3. ASSUME NEW f \in 0 .. Len(completed) PROVE FolderAt(f)' = FolderAt(f)
  <2>1. f # Len(completed) + 1 /\ (f # Len(completed) => f + 1 \in 1 .. Len(completed))
    BY <1>2
  <2> QED
    BY <1>2, <2>1 DEF FolderAt
<1>4. \A f : f = Len(completed) + 1 => FolderAt(f)' = NoFolder
  BY <1>2 DEF FolderAt
<1> QED
  BY <1>2, <1>3, <1>4

-----------------------------------------------------------------------------
(***************************************************************************)
(* Streams stay where they are: a chunk more or a stream more in a folder  *)
(* moves nothing.                                                          *)
(***************************************************************************)
LEMMA PlacedChunk ==
  ASSUME NEW e \in EntryRecord, NEW f \in FolderRecord, NEW g \in FolderRecord, NEW source \in Nat,
         PlacedIn(e, f), f.unpack <= Len(f.payload), g.files = f.files, g.unpack = f.unpack,
         g.payload = Append(f.payload, source)
  PROVE  PlacedIn(e, g)
<1>1. /\ e.first \in Nat /\ e.total \in Nat /\ f.unpack \in Nat /\ f.payload \in Seq(Nat)
      /\ Len(f.payload) \in Nat /\ e.first + e.total <= f.unpack
  BY DEF EntryRecord, FolderRecord, PlacedIn
<1>2. ASSUME NEW i \in 1 .. e.total PROVE g.payload[e.first + i] = e.source
  <2>1. PICK a \in Nat, t \in Nat, u \in Nat, n \in Nat :
          a = e.first /\ t = e.total /\ u = f.unpack /\ n = Len(f.payload)
    BY <1>1
  <2>2. a + i \in 1 .. n
    <3>1. i \in 1 .. t /\ a + t <= u /\ u <= n
      BY <1>1, <2>1
    <3> HIDE <2>1
    <3> QED
      BY <3>1
  <2>3. g.payload[e.first + i] = f.payload[e.first + i]
    BY <1>1, <2>1, <2>2, AppendAt
  <2> QED
    BY <2>3 DEF PlacedIn
<1> QED
  BY <1>2 DEF PlacedIn

LEMMA PlacedStream ==
  ASSUME NEW e \in EntryRecord, NEW f \in FolderRecord, NEW g \in FolderRecord, NEW size \in Nat,
         PlacedIn(e, f), g.files = Append(f.files, size), g.unpack = f.unpack + size,
         g.payload = f.payload
  PROVE  PlacedIn(e, g)
<1>1. /\ e.first \in Nat /\ e.total \in Nat /\ f.unpack \in Nat /\ f.files \in Seq(Nat)
      /\ e.at \in 1 .. Len(f.files)
  BY DEF EntryRecord, FolderRecord, PlacedIn
<1>2. Len(f.files) \in Nat /\ Len(g.files) = Len(f.files) + 1 /\ g.files[e.at] = f.files[e.at]
  BY <1>1, AppendAt
<1>3. e.at # Len(g.files) /\ e.at \in 1 .. Len(g.files)
  BY <1>1, <1>2
<1>4. e.first + e.total <= g.unpack
  BY <1>1 DEF PlacedIn
<1> QED
  BY <1>2, <1>3, <1>4 DEF PlacedIn

(* Everything RecordEntry does to the data. *)
LEMMA RecordedData ==
  ASSUME TypeOK, WriterInv, AppendInv, PayloadInv, RecordEntry
  PROVE  /\ state # "Failed" /\ completed' = completed /\ cur'.size = 0 /\ cur.size \in Nat
         /\ folder'.files = Append(folder.files, cur.size)
         /\ folder'.unpack = folder.unpack + cur.size /\ folder'.payload = folder.payload
         /\ \E e \in EntryRecord :
              /\ entries' = Append(entries, e) /\ e.stream
              /\ e.folder = Len(completed) /\ e.at = Len(folder.files) + 1
              /\ e.first = folder.unpack /\ e.total = cur.size /\ e.source = cur.source
<1>1. pc = "record" /\ completed' = completed /\ cur' = NoEntry
  BY DEF RecordEntry
<1>2. state = "Active" /\ cur.size \in Nat /\ cur.size = cur.total /\ cur.source \in Nat
  BY <1>1 DEF AppendInv, Appending, TypeOK
<1>3. folder' = [folder EXCEPT !.files = Append(folder.files, cur.size),
                               !.unpack = folder.unpack + cur.size]
  BY DEF RecordEntry, RecordStream
<1>4. /\ folder'.files = Append(folder.files, cur.size)
      /\ folder'.unpack = folder.unpack + cur.size /\ folder'.payload = folder.payload
  BY <1>3 DEF TypeOK, FolderRecord
<1>5. PICK e : e = [source |-> cur.source, stream |-> TRUE, total |-> cur.total,
                    folder |-> NextFolderId, at |-> Len(folder.files) + 1,
                    first |-> folder.unpack]
  OBVIOUS
<1>6. entries' = Append(entries, e)
  BY <1>5 DEF RecordEntry, PushEntry
<1>7. Len(completed) \in Nat /\ Len(folder.files) + 1 \in Nat /\ folder.unpack \in Nat
  BY DEF TypeOK, FolderRecord
<1>8. e \in EntryRecord
  BY <1>2, <1>5, <1>7 DEF EntryRecord, NextFolderId
<1>9. /\ e.folder = Len(completed) /\ e.at = Len(folder.files) + 1
      /\ e.first = folder.unpack /\ e.total = cur.size /\ e.source = cur.source
  BY <1>2, <1>5 DEF NextFolderId
<1>10. e.stream
  BY <1>5, Zenon
<1> QED
  BY <1>1, <1>2, <1>4, <1>6, <1>8, <1>9, <1>10 DEF NoEntry

(* The stream that RecordEntry enters holds the chunks of the entry. *)
LEMMA PlacedNew ==
  ASSUME NEW e \in EntryRecord, NEW f \in FolderRecord, NEW g \in FolderRecord,
         g.files = Append(f.files, e.total), g.unpack = f.unpack + e.total,
         g.payload = f.payload, e.at = Len(f.files) + 1, e.first = f.unpack,
         Len(f.files) = 0 => f.unpack = 0,
         \A i \in 1 .. e.total : f.payload[f.unpack + i] = e.source
  PROVE  PlacedIn(e, g)
<1>1. f.files \in Seq(Nat) /\ e.total \in Nat /\ f.unpack \in Nat
  BY DEF FolderRecord, EntryRecord
<1>2. Len(f.files) \in Nat /\ Len(g.files) = Len(f.files) + 1 /\ g.files[Len(f.files) + 1] = e.total
  BY <1>1, AppendAt
<1>3. e.at \in 1 .. Len(g.files) /\ (e.at = 1 => Len(f.files) = 0)
  BY <1>2
<1> QED
  BY <1>1, <1>2, <1>3 DEF PlacedIn

LEMMA PayloadStep == IInv /\ PayloadInv /\ [Next]_vars => PayloadInv'
<1> SUFFICES ASSUME IInv, PayloadInv, [Next]_vars, state' # "Failed" PROVE PayloadInv'
  BY DEF PayloadInv
<1> USE DEF IInv
<1>1. CASE DataKept
  <2>1. state # "Failed" /\ UNCHANGED <<completed, folder>>
    BY <1>1 DEF DataKept
  <2>2. CASE cur' = cur
    BY <2>1, <2>2 DEF PayloadInv
  <2>3. CASE cur.size = 0 /\ cur'.size = 0
    BY <2>1, <2>3 DEF PayloadInv
  <2> QED
    BY <1>1, <2>2, <2>3 DEF DataKept
<1>2. CASE EntryAdded
  BY <1>2 DEF EntryAdded, PayloadInv
<1>3. CASE WriteChunk
  <2>1. /\ pc = "write" /\ completed' = completed
        /\ folder' = [folder EXCEPT !.payload = Append(@, cur.source)]
        /\ cur' = [cur EXCEPT !.size = @ + 1, !.left = @ - 1]
    BY <1>3 DEF WriteChunk
  <2>2. state # "Failed"
    BY <2>1 DEF WriterInv
  <2>3. /\ folder'.files = folder.files /\ folder'.unpack = folder.unpack
        /\ folder'.payload = Append(folder.payload, cur.source)
        /\ cur'.size = cur.size + 1 /\ cur'.source = cur.source
    BY <2>1 DEF TypeOK, FolderRecord
  <2>4. /\ folder.payload \in Seq(Nat) /\ cur.source \in Nat /\ cur.size \in Nat
        /\ folder.unpack \in Nat
    BY DEF TypeOK, FolderRecord
  <2>5. /\ Len(folder'.payload) = Len(folder.payload) + 1
        /\ folder'.payload[Len(folder.payload) + 1] = cur.source
        /\ \A i \in 1 .. Len(folder.payload) : folder'.payload[i] = folder.payload[i]
    BY <2>3, <2>4, AppendAt
  <2>6. Len(folder.payload) = folder.unpack + cur.size
    BY <2>2 DEF PayloadInv
  <2>7. ASSUME NEW i \in 1 .. cur'.size PROVE folder'.payload[folder'.unpack + i] = cur'.source
    <3>1. CASE i = cur.size + 1
      <4>1. folder'.unpack + i = Len(folder.payload) + 1
        BY <2>3, <2>4, <2>6, <3>1
      <4> QED
        BY <2>3, <2>5, <4>1
    <3>2. CASE i # cur.size + 1
      <4>1. PICK u \in Nat, c \in Nat : u = folder.unpack /\ c = cur.size
        BY <2>4
      <4>2. i \in 1 .. c /\ u + i \in 1 .. u + c
        BY <2>3, <3>2, <4>1
      <4> QED
        BY <2>2, <2>3, <2>5, <2>6, <4>1, <4>2 DEF PayloadInv
    <3> QED
      BY <3>1, <3>2
  <2>8. Len(folder'.payload) = folder'.unpack + cur'.size
    BY <2>3, <2>4, <2>5, <2>6
  <2> QED
    BY <2>1, <2>2, <2>3, <2>7, <2>8 DEF PayloadInv
<1>4. CASE RecordEntry
  <2>1. /\ state # "Failed" /\ completed' = completed /\ cur'.size = 0 /\ cur.size \in Nat
        /\ folder'.files = Append(folder.files, cur.size)
        /\ folder'.unpack = folder.unpack + cur.size /\ folder'.payload = folder.payload
    BY <1>4, RecordedData
  <2>2. folder.files \in Seq(Nat) /\ folder.unpack \in Nat
    BY DEF TypeOK, FolderRecord
  <2>3. Len(folder'.files) # 0
    BY <2>1, <2>2, AppendAt
  <2> QED
    BY <2>1, <2>2, <2>3 DEF PayloadInv
<1>5. CASE FolderSealed
  <2>1. /\ completed' = Append(completed, folder) /\ folder' = NoFolder /\ cur'.size = 0
        /\ cur.size = 0 /\ state # "Failed"
    BY <1>5 DEF FolderSealed
  <2>2. Len(folder.payload) = folder.unpack
    BY <2>1 DEF PayloadInv, TypeOK, FolderRecord
  <2>3. ASSUME NEW f \in DOMAIN completed' PROVE Len(completed'[f].payload) = completed'[f].unpack
    <3>1. completed'[f] = folder \/ (f \in 1 .. Len(completed) /\ completed'[f] = completed[f])
      BY <2>1, AppendAt DEF TypeOK
    <3>2. DOMAIN completed = 1 .. Len(completed)
      BY DEF TypeOK
    <3> QED
      BY <2>1, <2>2, <3>1, <3>2 DEF PayloadInv
  <2>4. Len(NoFolder.payload) = 0 /\ NoFolder.unpack = 0
    BY DEF NoFolder
  <2> QED
    BY <2>1, <2>3, <2>4 DEF PayloadInv
<1> QED
  BY <1>1, <1>2, <1>3, <1>4, <1>5, DataSteps

(* The data of an entry stays where it was put. *)
LEMMA PlacedStep == IInv /\ TypeOK' /\ PlacedInv /\ PayloadInv /\ [Next]_vars => PlacedInv'
<1> SUFFICES ASSUME IInv, TypeOK', PlacedInv, PayloadInv, [Next]_vars, state' # "Failed"
             PROVE  PlacedInv'
  BY DEF PlacedInv
<1> USE DEF IInv
<1>a. /\ Len(completed) \in Nat /\ \A f \in 0 .. Len(completed) : FolderAt(f) \in FolderRecord
      /\ \A k \in HasData : entries[k] \in EntryRecord
  BY FolderTypes, DataTypes
(* A step that seals nothing: it is enough to look at the active folder. *)
<1>b. ASSUME completed' = completed, state # "Failed",
             \A k \in HasData : k \in HasData' /\ entries'[k] = entries[k],
             \A e \in EntryRecord : PlacedIn(e, folder) => PlacedIn(e, folder'),
             NEW k \in HasData
      PROVE  /\ entries'[k].folder \in 0 .. Len(completed')
             /\ PlacedIn(entries'[k], FolderAt(entries[k].folder)')
  <2>1. PICK e \in EntryRecord, f \in 0 .. Len(completed) : e = entries[k] /\ f = e.folder
    BY <1>a, <1>b DEF PlacedInv
  <2>2. PlacedIn(e, FolderAt(f)) /\ entries'[k] = e
    BY <1>b, <2>1 DEF PlacedInv
  <2>3. FolderAt(f)' = IF f = Len(completed) THEN folder' ELSE FolderAt(f)
    BY <1>b, FoldersKept
  <2>4. PlacedIn(e, FolderAt(f)')
    BY <1>b, <2>2, <2>3 DEF FolderAt
  <2>5. FolderAt(entries[k].folder)' = FolderAt(f)'
    BY <2>1, <2>2 DEF FolderAt
  <2> QED
    BY <1>b, <2>1, <2>2, <2>4, <2>5
<1>1. CASE DataKept \/ EntryAdded
  <2>1. UNCHANGED <<completed, folder>> /\ state # "Failed"
    BY <1>1 DEF DataKept, EntryAdded
  <2>2. ASSUME NEW k \in HasData' PROVE k \in HasData
    BY <1>1, <2>2, KeptData, PushedData DEF DataKept, EntryAdded
  <2>3. \A k \in HasData : k \in HasData' /\ entries'[k] = entries[k]
    BY <1>1, KeptData, PushedData DEF DataKept, EntryAdded
  <2>4. ASSUME NEW k \in HasData'
        PROVE  /\ entries'[k].folder \in 0 .. Len(completed')
               /\ PlacedIn(entries'[k], FolderAt(entries[k].folder)')
    BY <1>b, <2>1, <2>2, <2>3
  <2> QED
    BY <2>4 DEF PlacedInv, PlacedIn
<1>2. CASE WriteChunk
  <2>1. /\ pc = "write" /\ completed' = completed /\ entries' = entries
        /\ folder' = [folder EXCEPT !.payload = Append(@, cur.source)]
    BY <1>2 DEF WriteChunk
  <2>2. state # "Failed" /\ cur.source \in Nat
    BY <2>1 DEF WriterInv, TypeOK
  <2>3. /\ folder'.files = folder.files /\ folder'.unpack = folder.unpack
        /\ folder'.payload = Append(folder.payload, cur.source)
    BY <2>1 DEF TypeOK, FolderRecord
  <2>4. folder.unpack <= Len(folder.payload)
    <3>1. folder.unpack \in Nat /\ cur.size \in Nat
      BY DEF TypeOK, FolderRecord
    <3>2. Len(folder.payload) = folder.unpack + cur.size
      BY <2>2 DEF PayloadInv
    <3> QED
      BY <3>1, <3>2
  <2>5. PICK f \in FolderRecord, g \in FolderRecord : f = folder /\ g = folder'
    BY DEF TypeOK
  <2>6. \A e \in EntryRecord : PlacedIn(e, f) => PlacedIn(e, g)
    BY <2>2, <2>3, <2>4, <2>5, PlacedChunk
  <2>7. ASSUME NEW k \in HasData'
        PROVE  /\ entries'[k].folder \in 0 .. Len(completed')
               /\ PlacedIn(entries'[k], FolderAt(entries[k].folder)')
    BY <1>b, <2>1, <2>2, <2>5, <2>6, KeptData
  <2> QED
    BY <2>7 DEF PlacedInv, PlacedIn
<1>3. CASE RecordEntry
  <2>1. /\ state # "Failed" /\ completed' = completed /\ cur.size \in Nat
        /\ folder'.files = Append(folder.files, cur.size)
        /\ folder'.unpack = folder.unpack + cur.size /\ folder'.payload = folder.payload
    BY <1>3, RecordedData
  <2>2. PICK e \in EntryRecord :
          /\ entries' = Append(entries, e) /\ e.stream
          /\ e.folder = Len(completed) /\ e.at = Len(folder.files) + 1
          /\ e.first = folder.unpack /\ e.total = cur.size /\ e.source = cur.source
    BY <1>3, RecordedData
  <2>3. PICK f \in FolderRecord, g \in FolderRecord : f = folder /\ g = folder'
    BY DEF TypeOK
  <2>4. \A d \in EntryRecord : PlacedIn(d, f) => PlacedIn(d, g)
    BY <2>1, <2>3, PlacedStream
  <2>5. PlacedIn(e, g)
    <3>1. /\ Len(f.files) = 0 => f.unpack = 0
          /\ \A i \in 1 .. e.total : f.payload[f.unpack + i] = e.source
      BY <2>1, <2>2, <2>3 DEF PayloadInv
    <3> QED
      BY <2>1, <2>2, <2>3, <3>1, PlacedNew
  <2>6. ASSUME NEW k \in HasData'
        PROVE  /\ entries'[k].folder \in 0 .. Len(completed')
               /\ PlacedIn(entries'[k], FolderAt(entries[k].folder)')
    <3>1. CASE k \in HasData
      BY <1>b, <2>1, <2>2, <2>3, <2>4, <3>1, PushedData
    <3>2. CASE k \notin HasData
      <4>1. entries'[k] = e
        BY <2>2, <3>2, PushedData
      <4>2. FolderAt(entries[k].folder)' = g
        BY <2>1, <2>2, <2>3, <4>1 DEF FolderAt
      <4> QED
        BY <1>a, <2>1, <2>2, <2>5, <4>1, <4>2
    <3> QED
      BY <3>1, <3>2
  <2> QED
    BY <2>6 DEF PlacedInv, PlacedIn
<1>4. CASE FolderSealed
  <2>1. entries' = entries /\ state # "Failed"
    BY <1>4 DEF FolderSealed
  <2>2. /\ Len(completed') = Len(completed) + 1
        /\ \A f \in 0 .. Len(completed) : FolderAt(f)' = FolderAt(f)
    BY <1>4, FoldersSealed
  <2>3. ASSUME NEW k \in HasData'
        PROVE  /\ entries'[k].folder \in 0 .. Len(completed')
               /\ PlacedIn(entries'[k], FolderAt(entries[k].folder)')
    <3>1. k \in HasData
      BY <2>1, KeptData
    <3>2. PICK f \in 0 .. Len(completed) : f = entries[k].folder /\ PlacedIn(entries[k], FolderAt(f))
      BY <2>1, <3>1 DEF PlacedInv
    <3>3. FolderAt(entries[k].folder)' = FolderAt(f)'
      BY <2>1, <3>2 DEF FolderAt
    <3>4. f \in 0 .. Len(completed')
      BY <1>a, <2>2
    <3> QED
      BY <2>1, <2>2, <3>2, <3>3, <3>4
  <2> QED
    BY <2>3 DEF PlacedInv, PlacedIn
<1> QED
  BY <1>1, <1>2, <1>3, <1>4, DataSteps

(* New data comes behind all other data, right after the stream before it. *)
LEMMA OrderStep == IInv /\ PlacedInv /\ OrderInv /\ PayloadInv /\ [Next]_vars => OrderInv'
<1> SUFFICES ASSUME IInv, PlacedInv, OrderInv, PayloadInv, [Next]_vars PROVE OrderInv'
  OBVIOUS
<1> USE DEF IInv
<1>1. ASSUME \A k \in HasData' : k \in HasData /\ entries'[k] = entries[k] PROVE OrderInv'
  BY <1>1 DEF OrderInv, Before
<1>2. CASE DataKept \/ WriteChunk \/ FolderSealed \/ (state' = "Failed" /\ entries' = entries)
  <2>1. entries' = entries
    BY <1>2 DEF DataKept, WriteChunk, FolderSealed
  <2> QED
    BY <1>1, <2>1, KeptData
<1>3. CASE EntryAdded
  <2>1. PICK e \in EntryRecord : ~e.stream /\ entries' = Append(entries, e)
    BY <1>3 DEF EntryAdded
  <2> QED
    BY <1>1, <2>1, PushedData
<1>4. CASE RecordEntry
  <2>1. PICK e \in EntryRecord :
          /\ entries' = Append(entries, e) /\ e.stream
          /\ e.folder = Len(completed) /\ e.at = Len(folder.files) + 1
          /\ e.first = folder.unpack /\ e.total = cur.size /\ e.source = cur.source
    BY <1>4, RecordedData
  <2>2. PICK n \in Nat, c \in Nat, m \in Nat :
          n = Len(entries) /\ c = Len(completed) /\ m = Len(folder.files)
    BY DEF TypeOK, FolderRecord
  <2>3. /\ \A k \in HasData : k \in 1 .. n /\ entries'[k] = entries[k]
        /\ \A k \in HasData' : k \in HasData \/ (k = n + 1 /\ entries'[k] = e)
    BY <2>1, <2>2, PushedData
  <2>4. ASSUME NEW k \in HasData
        PROVE  /\ Before(entries[k].folder, entries[k].at, e.folder, e.at)
               /\ entries[k].folder = e.folder => entries[k].at \in 1 .. m
               /\ entries[k].folder = e.folder /\ e.at = entries[k].at + 1
                    => e.first = entries[k].first + entries[k].total
    <3>1. state # "Failed"
      BY <1>4, RecordedData
    <3>2. entries[k].folder \in 0 .. c /\ PlacedIn(entries[k], FolderAt(entries[k].folder))
      BY <2>2, <3>1 DEF PlacedInv
    <3>3. CASE entries[k].folder # c
      BY <2>1, <2>2, <3>2, <3>3 DEF Before
    <3>4. CASE entries[k].folder = c
      <4>1. PlacedIn(entries[k], folder)
        BY <2>2, <3>2, <3>4 DEF FolderAt
      <4>2. /\ entries[k].at \in 1 .. m
            /\ entries[k].at = m => folder.unpack = entries[k].first + entries[k].total
        BY <2>2, <4>1 DEF PlacedIn
      <4> QED
        BY <2>1, <2>2, <3>4, <4>2 DEF Before
    <3> QED
      BY <3>3, <3>4
  <2>5. ASSUME NEW k \in HasData', NEW l \in HasData', k < l
        PROVE  Before(entries'[k].folder, entries'[k].at, entries'[l].folder, entries'[l].at)
    <3>1. CASE l \in HasData
      <4>1. k \in HasData
        BY <2>3, <2>5, <3>1
      <4> QED
        BY <2>3, <2>5, <3>1, <4>1 DEF OrderInv
    <3>2. CASE l \notin HasData
      <4>1. k \in HasData
        BY <2>3, <2>5, <3>2
      <4> QED
        BY <2>3, <2>4, <3>2, <4>1
    <3> QED
      BY <3>1, <3>2
  <2>6. ASSUME NEW k \in HasData', NEW l \in HasData',
               entries'[k].folder = entries'[l].folder, entries'[l].at = entries'[k].at + 1
        PROVE  entries'[l].first = entries'[k].first + entries'[k].total
    <3>1. CASE k \in HasData /\ l \in HasData
      BY <2>3, <2>6, <3>1 DEF OrderInv
    <3>2. CASE k \in HasData /\ l \notin HasData
      BY <2>3, <2>4, <2>6, <3>2
    <3>3. CASE k \notin HasData
      <4>1. entries'[k] = e /\ e.at = m + 1
        BY <2>1, <2>2, <2>3, <3>3
      <4>2. CASE l \in HasData
        <5>1. entries'[l].at \in 1 .. m
          BY <2>3, <2>4, <2>6, <4>1, <4>2
        <5> QED
          BY <2>6, <4>1, <5>1
      <4>3. CASE l \notin HasData
        <5>1. entries'[l] = e
          BY <2>3, <4>3
        <5> QED
          BY <2>6, <4>1, <5>1
      <4> QED
        BY <4>2, <4>3
    <3> QED
      BY <3>1, <3>2, <3>3
  <2> QED
    BY <2>5, <2>6 DEF OrderInv, Before
<1> QED
  BY <1>2, <1>3, <1>4, DataSteps

(* No stream without an entry. *)
LEMMA OwnedStep == IInv /\ PayloadInv /\ OwnedInv /\ [Next]_vars => OwnedInv'
<1> SUFFICES ASSUME IInv, PayloadInv, OwnedInv, [Next]_vars, state' # "Failed",
                    NEW f \in 0 .. Len(completed'), NEW j \in 1 .. Len(FolderAt(f)'.files)
             PROVE  \E k \in HasData' : entries'[k].folder = f /\ entries'[k].at = j
  BY DEF OwnedInv
<1> USE DEF IInv
<1>a. Len(completed) \in Nat
  BY FolderTypes
<1>1. ASSUME \A k \in HasData : k \in HasData' /\ entries'[k] = entries[k], state # "Failed",
             f \in 0 .. Len(completed), j \in 1 .. Len(FolderAt(f).files)
      PROVE  \E k \in HasData' : entries'[k].folder = f /\ entries'[k].at = j
  <2>1. PICK k \in HasData : entries[k].folder = f /\ entries[k].at = j
    BY <1>1 DEF OwnedInv
  <2> QED
    BY <1>1, <2>1
<1>2. CASE DataKept \/ EntryAdded
  <2>1. UNCHANGED <<completed, folder>> /\ state # "Failed"
    BY <1>2 DEF DataKept, EntryAdded
  <2>2. \A k \in HasData : k \in HasData' /\ entries'[k] = entries[k]
    BY <1>2, KeptData, PushedData DEF DataKept, EntryAdded
  <2>3. FolderAt(f)' = FolderAt(f)
    BY <2>1 DEF FolderAt
  <2> QED
    BY <1>1, <2>1, <2>2, <2>3
<1>3. CASE WriteChunk
  <2>1. /\ pc = "write" /\ completed' = completed /\ entries' = entries
        /\ folder' = [folder EXCEPT !.payload = Append(@, cur.source)]
    BY <1>3 DEF WriteChunk
  <2>2. state # "Failed" /\ folder'.files = folder.files
    BY <2>1 DEF WriterInv, TypeOK, FolderRecord
  <2>3. FolderAt(f)'.files = FolderAt(f).files
    BY <2>1, <2>2 DEF FolderAt
  <2> QED
    BY <1>1, <2>1, <2>2, <2>3, KeptData
<1>4. CASE RecordEntry
  <2>1. /\ state # "Failed" /\ completed' = completed /\ cur.size \in Nat
        /\ folder'.files = Append(folder.files, cur.size)
    BY <1>4, RecordedData
  <2>2. PICK e \in EntryRecord :
          /\ entries' = Append(entries, e) /\ e.stream
          /\ e.folder = Len(completed) /\ e.at = Len(folder.files) + 1
    BY <1>4, RecordedData
  <2>3. PICK m \in Nat : m = Len(folder.files)
    BY DEF TypeOK, FolderRecord
  <2>4. Len(folder'.files) = m + 1
    BY <2>1, <2>3, AppendAt DEF TypeOK, FolderRecord
  <2>5. CASE f = Len(completed) /\ j = m + 1
    BY <2>2, <2>3, <2>5, PushedData
  <2>6. CASE f = Len(completed) /\ j # m + 1
    <3>1. FolderAt(f)' = folder' /\ FolderAt(f) = folder
      BY <2>1, <2>6 DEF FolderAt
    <3>2. j \in 1 .. m
      BY <2>4, <2>6, <3>1
    <3> QED
      BY <1>1, <2>1, <2>2, <2>3, <3>1, <3>2, PushedData
  <2>7. CASE f # Len(completed)
    <3>1. FolderAt(f)' = FolderAt(f)
      BY <2>1, <2>7 DEF FolderAt
    <3> QED
      BY <1>1, <2>1, <2>2, <3>1, PushedData
  <2> QED
    BY <2>5, <2>6, <2>7
<1>5. CASE FolderSealed
  <2>1. entries' = entries /\ state # "Failed"
    BY <1>5 DEF FolderSealed
  <2>2. /\ Len(completed') = Len(completed) + 1
        /\ \A g \in 0 .. Len(completed) : FolderAt(g)' = FolderAt(g)
        /\ f = Len(completed) + 1 => FolderAt(f)' = NoFolder
    BY <1>5, FoldersSealed
  <2>3. f # Len(completed) + 1
    <3>1. Len(NoFolder.files) = 0
      BY NoFolderType
    <3> QED
      BY <2>2, <3>1
  <2>4. f \in 0 .. Len(completed)
    BY <1>a, <2>2, <2>3
  <2> QED
    BY <1>1, <2>1, <2>2, <2>4, KeptData
<1> QED
  BY <1>2, <1>3, <1>4, <1>5, DataSteps

-----------------------------------------------------------------------------
(***************************************************************************)
(* The reader.                                                             *)
(***************************************************************************)
(* What build_header says of the entries and the folders of a signed archive. *)
LEMMA SignedHeader ==
  ASSUME IInv, sig = "valid"
  PROVE  /\ Len(header.streams) = Len(entries)
         /\ \A k \in 1 .. Len(entries) : header.streams[k] = entries[k].stream
         /\ Len(header.folders) = Len(completed)
         /\ \A f \in 1 .. Len(completed) :
              /\ header.folders[f].count = Len(completed[f].files)
              /\ header.folders[f].unpack = completed[f].unpack
              /\ \A j \in 1 .. Len(completed[f].files) - 1 :
                   header.folders[f].sizes[j] = completed[f].files[j]
<1>1. header = BuildHeader
  BY DEF IInv, WriterInv
<1>2. /\ header.streams = [k \in DOMAIN entries |-> entries[k].stream]
      /\ header.folders = [f \in DOMAIN completed |-> FolderHeader(completed[f])]
  BY <1>1 DEF BuildHeader
<1>3. /\ entries \in Seq(EntryRecord) /\ DOMAIN entries = 1 .. Len(entries)
      /\ completed \in Seq(FolderRecord) /\ DOMAIN completed = 1 .. Len(completed)
  BY DEF IInv, TypeOK
<1>4. Len(header.streams) = Len(entries)
  BY <1>2, <1>3
<1>5. Len(header.folders) = Len(completed)
  BY <1>2, <1>3
<1>6. ASSUME NEW f \in 1 .. Len(completed)
      PROVE  /\ header.folders[f].count = Len(completed[f].files)
             /\ header.folders[f].unpack = completed[f].unpack
             /\ \A j \in 1 .. Len(completed[f].files) - 1 :
                  header.folders[f].sizes[j] = completed[f].files[j]
  <2>1. header.folders[f] = FolderHeader(completed[f]) /\ completed[f] \in FolderRecord
    BY <1>2, <1>3
  <2>2. completed[f].files \in Seq(Nat)
    BY <2>1 DEF FolderRecord
  <2>3. /\ header.folders[f].count = Len(completed[f].files)
        /\ header.folders[f].unpack = completed[f].unpack
        /\ header.folders[f].sizes = SubSeq(completed[f].files, 1, Len(completed[f].files) - 1)
    BY <2>1 DEF FolderHeader
  <2>4. ASSUME NEW j \in 1 .. Len(completed[f].files) - 1
        PROVE  SubSeq(completed[f].files, 1, Len(completed[f].files) - 1)[j] = completed[f].files[j]
    BY <2>2
  <2> QED
    BY <2>3, <2>4
<1> QED
  BY <1>2, <1>3, <1>4, <1>5, <1>6

(* In a signed archive all data is in sealed folders. *)
LEMMA SignedData ==
  ASSUME IInv, RoundTripInv, sig = "valid"
  PROVE  /\ state # "Failed" /\ Len(completed) \in Nat
         /\ \A k \in HasData :
              /\ k \in 1 .. Len(entries) /\ entries[k] \in EntryRecord
              /\ entries[k].folder + 1 \in 1 .. Len(completed)
              /\ PlacedIn(entries[k], completed[entries[k].folder + 1])
         /\ \A f \in 1 .. Len(completed) : \A j \in 1 .. Len(completed[f].files) :
              \E k \in HasData : entries[k].folder + 1 = f /\ entries[k].at = j
<1>1. state = "Ready" /\ TypeOK /\ PlacedInv /\ OwnedInv
  BY DEF IInv, WriterInv, RoundTripInv
<1>2. folder = NoFolder
  BY <1>1 DEF IInv, AppendInv
<1>3. PICK n \in Nat : n = Len(completed)
  BY <1>1, FolderTypes
<1>4. ASSUME NEW k \in HasData
      PROVE  /\ k \in 1 .. Len(entries) /\ entries[k] \in EntryRecord
             /\ entries[k].folder + 1 \in 1 .. n
             /\ PlacedIn(entries[k], completed[entries[k].folder + 1])
  <2>1. k \in 1 .. Len(entries) /\ entries[k] \in EntryRecord
    <3>1. entries \in Seq(EntryRecord)
      BY <1>1 DEF TypeOK
    <3> QED
      BY <3>1 DEF HasData
  <2>2. entries[k].folder \in 0 .. n /\ PlacedIn(entries[k], FolderAt(entries[k].folder))
    BY <1>1, <1>3 DEF PlacedInv
  <2>3. ~PlacedIn(entries[k], NoFolder)
    BY NoFolderType DEF PlacedIn
  <2>4. entries[k].folder # n /\ FolderAt(entries[k].folder) = completed[entries[k].folder + 1]
    BY <1>2, <1>3, <2>2, <2>3 DEF FolderAt
  <2> QED
    BY <2>1, <2>2, <2>4
<1>5. ASSUME NEW f \in 1 .. n, NEW j \in 1 .. Len(completed[f].files)
      PROVE  \E k \in HasData : entries[k].folder + 1 = f /\ entries[k].at = j
  <2>1. PICK g \in 0 .. n : g + 1 = f /\ g # n
    <3>1. f - 1 \in 0 .. n /\ (f - 1) + 1 = f /\ f - 1 # n
      OBVIOUS
    <3> QED
      BY <3>1
  <2>2. FolderAt(g) = completed[f]
    BY <1>3, <2>1 DEF FolderAt
  <2>3. PICK k \in HasData : entries[k].folder = g /\ entries[k].at = j
    BY <1>1, <1>3, <2>2 DEF OwnedInv
  <2> QED
    BY <2>1, <2>3
<1> QED
  BY <1>1, <1>3, <1>4, <1>5

LEMMA PlacesAre ==
  ASSUME NEW k \in HasData
  PROVE  /\ k \in DOMAIN Places /\ Places[k].folder = entries[k].folder + 1
         /\ Places[k].at = entries[k].at /\ Places[k].first = entries[k].first
         /\ Places[k].size = entries[k].total
BY DEF Places

(* The header describes where the writer put the data. *)
LEMMA SignedLayout ==
  ASSUME IInv, RoundTripInv, sig = "valid"
  PROVE  LaidOut(header, Places)
<1>a. DOMAIN Places = HasData
  BY DEF Places
<1>b. PICK n \in Nat : n = Len(completed)
  BY SignedData
<1>c. Len(entries) \in Nat /\ DOMAIN entries = 1 .. Len(entries)
  BY DEF IInv, TypeOK
<1>d. ASSUME NEW f \in 1 .. n
      PROVE  /\ header.folders[f].count = Len(completed[f].files) /\ header.folders[f].count \in Nat
             /\ completed[f].unpack \in Nat
  <2>1. completed[f] \in FolderRecord
    BY <1>b DEF IInv, TypeOK
  <2> QED
    BY <1>b, <2>1, SignedHeader DEF FolderRecord
<1>1. DOMAIN Places = {k \in 1 .. Len(header.streams) : header.streams[k]}
  BY <1>a, <1>c, SignedHeader DEF HasData
<1>2. /\ Len(header.streams) \in Nat /\ Len(header.folders) \in Nat
      /\ \A f \in 1 .. Len(header.folders) : header.folders[f].count \in Nat
  BY <1>b, <1>c, <1>d, SignedHeader
<1>3. Described(header, Places)
  <2> SUFFICES ASSUME NEW k \in HasData
               PROVE  LET p == Places[k]  f == header.folders[p.folder]
                      IN /\ p \in Place /\ p.folder <= Len(header.folders) /\ p.at <= f.count
                         /\ p.at < f.count => f.sizes[p.at] = p.size
                         /\ p.at = f.count => f.unpack = p.first + p.size
                         /\ p.at = 1 => p.first = 0
    BY <1>a DEF Described
  <2>1. PICK e \in EntryRecord : e = entries[k]
    BY SignedData
  <2>2. PICK g \in 1 .. n : g = e.folder + 1
    BY <1>b, <2>1, SignedData
  <2>3. PlacedIn(e, completed[g])
    BY <2>1, <2>2, SignedData
  <2>4. /\ e.folder \in Nat /\ e.at \in Nat /\ e.first \in Nat /\ e.total \in Nat
    BY DEF EntryRecord
  <2>5. /\ Places[k] = [folder |-> g, at |-> e.at, first |-> e.first, size |-> e.total]
    BY <2>1, <2>2 DEF Places
  <2>6. PICK p : p = Places[k]
    OBVIOUS
  <2>7. p.folder = g /\ p.at = e.at /\ p.first = e.first /\ p.size = e.total
    BY <2>5, <2>6
  <2>8. /\ e.at \in 1 .. Len(completed[g].files) /\ completed[g].files[e.at] = e.total
        /\ e.at = 1 => e.first = 0
        /\ e.at = Len(completed[g].files) => completed[g].unpack = e.first + e.total
    BY <2>3 DEF PlacedIn
  <2>9. /\ header.folders[g].count = Len(completed[g].files) /\ header.folders[g].count \in Nat
        /\ header.folders[g].unpack = completed[g].unpack /\ Len(header.folders) = n
        /\ \A j \in 1 .. Len(completed[g].files) - 1 :
             header.folders[g].sizes[j] = completed[g].files[j]
    BY <1>b, <1>d, SignedHeader
  <2>10. p \in Place
    BY <2>4, <2>5, <2>6, <2>8 DEF Place
  <2>11. p.at < header.folders[g].count => header.folders[g].sizes[p.at] = p.size
    BY <2>7, <2>8, <2>9
  <2>12. /\ p.at = header.folders[g].count => header.folders[g].unpack = p.first + p.size
         /\ p.folder <= Len(header.folders) /\ p.at <= header.folders[g].count
         /\ p.at = 1 => p.first = 0
    BY <2>7, <2>8, <2>9
  <2> QED
    BY <2>6, <2>7, <2>10, <2>11, <2>12
<1>4. InOrder(Places)
  <2> SUFFICES ASSUME NEW k \in HasData, NEW l \in HasData
               PROVE  /\ k < l => Before(Places[k].folder, Places[k].at, Places[l].folder, Places[l].at)
                      /\ Places[k].folder = Places[l].folder /\ Places[l].at = Places[k].at + 1
                           => Places[l].first = Places[k].first + Places[k].size
    BY <1>a DEF InOrder
  <2>1. /\ Places[k].folder = entries[k].folder + 1 /\ Places[k].at = entries[k].at
        /\ Places[k].first = entries[k].first /\ Places[k].size = entries[k].total
    BY PlacesAre
  <2>2. /\ Places[l].folder = entries[l].folder + 1 /\ Places[l].at = entries[l].at
        /\ Places[l].first = entries[l].first
    BY PlacesAre
  <2>3. /\ k < l => Before(entries[k].folder, entries[k].at, entries[l].folder, entries[l].at)
        /\ entries[k].folder = entries[l].folder /\ entries[l].at = entries[k].at + 1
             => entries[l].first = entries[k].first + entries[k].total
    BY DEF RoundTripInv, OrderInv
  <2>4. entries[k].folder \in Nat /\ entries[l].folder \in Nat
    BY SignedData DEF EntryRecord
  <2> QED
    BY <2>1, <2>2, <2>3, <2>4 DEF Before
<1>5. Owned(header, Places)
  <2> SUFFICES ASSUME NEW f \in 1 .. n, NEW j \in 1 .. header.folders[f].count
               PROVE  \E k \in DOMAIN Places : Places[k].folder = f /\ Places[k].at = j
    BY <1>b, SignedHeader DEF Owned
  <2>1. j \in 1 .. Len(completed[f].files)
    BY <1>d
  <2>2. PICK k \in HasData : entries[k].folder + 1 = f /\ entries[k].at = j
    BY <1>b, <2>1, SignedData
  <2> QED
    BY <1>a, <2>2, PlacesAre
<1> QED
  BY <1>1, <1>2, <1>3, <1>4, <1>5 DEF LaidOut

LEMMA ReadStep == IInv /\ RoundTripInv /\ Read /\ UNCHANGED vars => RoundTripInv'
<1> SUFFICES ASSUME IInv, RoundTripInv, Read, UNCHANGED vars PROVE RoundTripInv'
  OBVIOUS
<1>1. sig = "valid" /\ sig' = sig /\ UNCHANGED <<entries, completed, folder, state, header, cur>>
  BY DEF Read, vars
<1>2. PlacedInv' /\ OrderInv' /\ OwnedInv' /\ PayloadInv'
  <2>1. HasData' = HasData /\ \A f : FolderAt(f)' = FolderAt(f)
    BY <1>1, KeptData DEF FolderAt
  <2>2. PlacedInv'
    BY <1>1, <2>1 DEF RoundTripInv, PlacedInv, PlacedIn, FolderAt
  <2>3. OrderInv'
    BY <1>1, <2>1 DEF RoundTripInv, OrderInv, Before
  <2>4. OwnedInv'
    BY <1>1, <2>1 DEF RoundTripInv, OwnedInv
  <2>5. PayloadInv'
    BY <1>1 DEF RoundTripInv, PayloadInv
  <2> QED
    BY <2>2, <2>3, <2>4, <2>5
<1>3. Places' = Places
  BY <1>1, KeptData DEF Places
<1>4. ReaderOK(header, Places, ReadNext(header, reader))
  <2>1. LaidOut(header, Places)
    BY <1>1, SignedLayout
  <2>2. ReaderOK(header, Places, reader)
    BY <2>1, ReaderStarts DEF RoundTripInv
  <2> QED
    BY <2>1, <2>2, ReaderStaysInStep
<1>5. ReaderOK(header', Places', reader')
  BY <1>1, <1>3, <1>4 DEF Read
<1> QED
  BY <1>1, <1>2, <1>5 DEF RoundTripInv

(* The writer does not touch what a reader can see. *)
LEMMA SignedStays ==
  ASSUME IInv, [Next]_vars, sig = "valid"
  PROVE  UNCHANGED <<sig, entries, completed, header>>
<1>1. pc \in {"flush", "finished", "closed"}
  BY DEF IInv, WriterInv
<1> QED
  BY <1>1 DEF Next, Step, vars, sink, Cancel, AppendEmpty, NewFolder, Finish, AppendFile, PlanItem,
     Build, BuildEntry, ReadFirst, EnsureFolder, WriteChunk, ReadMore, RecordEntry, AppendFails,
     Seal, SealFails, WriteHeader, WriteSignature, WriteFails, Flush

LEMMA WriteStep ==
  IInv /\ IInv' /\ RoundTripInv /\ [Next]_vars /\ UNCHANGED reader => RoundTripInv'
<1> SUFFICES ASSUME IInv, IInv', RoundTripInv, [Next]_vars, UNCHANGED reader
             PROVE  RoundTripInv'
  OBVIOUS
<1>1. PlacedInv' /\ OrderInv' /\ OwnedInv' /\ PayloadInv'
  BY PlacedStep, OrderStep, OwnedStep, PayloadStep DEF RoundTripInv, IInv
<1>2. CASE sig = "valid"
  <2>1. UNCHANGED <<sig, entries, completed, header, reader>>
    BY <1>2, SignedStays
  <2>2. Places' = Places
    BY <2>1, KeptData DEF Places
  <2> QED
    BY <1>1, <1>2, <2>1, <2>2 DEF RoundTripInv
<1>3. CASE sig # "valid"
  BY <1>1, <1>3 DEF RoundTripInv
<1> QED
  BY <1>2, <1>3

LEMMA InitRoundTripInv == InitRoundTrip => IInv /\ RoundTripInv
<1> SUFFICES ASSUME InitRoundTrip PROVE IInv /\ RoundTripInv
  OBVIOUS
<1>1. IInv
  BY InitIInv DEF InitRoundTrip
<1>2. /\ entries = <<>> /\ completed = <<>> /\ folder = NoFolder /\ cur = NoEntry
      /\ reader = ReaderStart
  BY DEF InitRoundTrip, Init
<1>3. HasData = {}
  BY <1>2 DEF HasData
<1>4. OwnedInv
  <2>1. \A f \in 0 .. Len(completed) : Len(FolderAt(f).files) = 0
    BY <1>2, NoFolderType DEF FolderAt
  <2> QED
    BY <2>1 DEF OwnedInv
<1>5. PayloadInv
  BY <1>2 DEF PayloadInv, NoFolder, NoEntry
<1> QED
  BY <1>1, <1>2, <1>3, <1>4, <1>5 DEF RoundTripInv, PlacedInv, OrderInv

-----------------------------------------------------------------------------
(* Writing and reading keep to the writer's specification: the reader only *)
(* looks at the archive.                                                   *)
THEOREM RoundTripWrites == SpecRoundTrip => Spec
<1>1. InitRoundTrip => Init
  BY DEF InitRoundTrip
<1>2. [NextRoundTrip]_<<vars, reader>> => [Next]_vars
  BY DEF NextRoundTrip
<1> QED
  BY <1>1, <1>2, PTL DEF SpecRoundTrip, Spec

(* The inductive invariant of writing and reading together: where the data *)
(* of each entry is, and where the reader stands.                          *)
THEOREM RoundTripInvariance == SpecRoundTrip => [](IInv /\ RoundTripInv)
<1>1. IInv /\ RoundTripInv /\ [NextRoundTrip]_<<vars, reader>> => (IInv /\ RoundTripInv)'
  <2> SUFFICES ASSUME IInv, RoundTripInv, [NextRoundTrip]_<<vars, reader>>
               PROVE  IInv' /\ RoundTripInv'
    OBVIOUS
  <2>1. [Next]_vars
    BY DEF NextRoundTrip
  <2>2. IInv'
    BY <2>1, NextIInv
  <2>3. CASE UNCHANGED reader
    BY <2>1, <2>2, <2>3, WriteStep
  <2>4. CASE Read /\ UNCHANGED vars
    BY <2>2, <2>4, ReadStep
  <2> QED
    BY <2>2, <2>3, <2>4 DEF NextRoundTrip
<1> QED
  BY <1>1, InitRoundTripInv, PTL DEF SpecRoundTrip

(* Every archive that carries a valid signature header reads back: a       *)
(* reader that follows StreamLocations finds for each entry exactly the    *)
(* range of chunks its append call wrote, and streams and entries with     *)
(* data come out even.                                                     *)
THEOREM WrittenReadsBack == SpecRoundTrip => []ReadBack
<1>1. IInv /\ RoundTripInv => ReadBack
  <2> SUFFICES ASSUME IInv, RoundTripInv PROVE ReadBack
    OBVIOUS
  <2>1. reader.ended # "error"
    <3>1. ReaderStart.ended = "no"
      BY DEF ReaderStart
    <3>2. ReaderOK(header, Places, reader) => reader.ended \in {"no", "ok"}
      BY DEF ReaderOK
    <3> QED
      BY <3>1, <3>2 DEF RoundTripInv
  <2>2. ASSUME sig = "valid", NEW f \in DOMAIN completed
        PROVE  Len(completed[f].payload) = header.folders[f].unpack
    <3>1. f \in 1 .. Len(completed)
      BY DEF IInv, TypeOK
    <3>2. header.folders[f].unpack = completed[f].unpack
      BY <2>2, <3>1, SignedHeader
    <3>3. state # "Failed"
      BY <2>2, SignedData
    <3> QED
      BY <3>2, <3>3 DEF RoundTripInv, PayloadInv
  <2>3. ASSUME reader.found.entry # 0
        PROVE  LET at == reader.found
                   e == entries[at.entry]
                   payload == completed[at.folder].payload
               IN /\ at.size = e.total /\ at.first + e.total <= Len(payload)
                  /\ \A i \in 1 .. e.total : payload[at.first + i] = e.source
    <3>1. ReaderStart.found.entry = 0
      BY DEF ReaderStart, NoLocation
    <3>2. sig = "valid" /\ ReaderOK(header, Places, reader)
      BY <2>3, <3>1 DEF RoundTripInv
    <3>3. DOMAIN Places = HasData
      BY DEF Places
    <3>4. PICK k \in HasData : k = reader.found.entry
      BY <2>3, <3>2, <3>3 DEF ReaderOK
    <3>5. /\ reader.found.folder = Places[k].folder /\ reader.found.first = Places[k].first
          /\ reader.found.size = Places[k].size
      BY <2>3, <3>2, <3>4 DEF ReaderOK
    <3>6. /\ reader.found.folder = entries[k].folder + 1 /\ reader.found.first = entries[k].first
          /\ reader.found.size = entries[k].total
      BY <3>5, PlacesAre
    <3>7. /\ reader.found.folder \in 1 .. Len(completed)
          /\ PlacedIn(entries[k], completed[reader.found.folder])
      BY <3>2, <3>6, SignedData
    <3>8. Len(completed[reader.found.folder].payload) = completed[reader.found.folder].unpack
      BY <3>2, <3>7, SignedData DEF RoundTripInv, PayloadInv, IInv, TypeOK
    <3> QED
      BY <3>4, <3>6, <3>7, <3>8 DEF PlacedIn
  <2> QED
    BY <2>1, <2>2, <2>3 DEF ReadBack
<1> QED
  BY <1>1, RoundTripInvariance, PTL
=============================================================================
