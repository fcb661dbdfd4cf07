----------------------- MODULE ArchiveReplacementProofs -----------------------
(***************************************************************************)
(* Proofs about ArchiveReplacement, for any number of processes, archives  *)
(* of any length and any volume sizes.                                     *)
(***************************************************************************)
EXTENDS ArchiveReplacement, TLAPS

(* Paths are different. *)
LEMMA NamesApart ==
  \A v, w \in Writers, i, j \in Nat :
    /\ Archive # Temp(w) /\ Archive # TmpArchive(w) /\ Archive # Volume(i)
    /\ Archive # VolumeTmp(w, i)
    /\ Temp(v) # TmpArchive(w) /\ Temp(v) # Volume(i) /\ Temp(v) # VolumeTmp(w, i)
    /\ TmpArchive(v) # Volume(i) /\ TmpArchive(v) # VolumeTmp(w, i)
    /\ Volume(i) # VolumeTmp(w, j)
    /\ Temp(v) = Temp(w) => v = w
    /\ TmpArchive(v) = TmpArchive(w) => v = w
    /\ Volume(i) = Volume(j) => i = j
    /\ VolumeTmp(v, i) = VolumeTmp(w, j) => v = w /\ i = j
BY DEF Archive, Temp, TmpArchive, Volume, VolumeTmp

LEMMA NamesListed ==
  /\ Archive \in Names
  /\ \A w \in Writers : Temp(w) \in Names /\ TmpArchive(w) \in Names
  /\ \A i \in 1 .. MaxVolumes : Volume(i) \in Names
  /\ \A w \in Writers, i \in 1 .. MaxVolumes : VolumeTmp(w, i) \in Names
BY DEF Names

LEMMA ConstantTypes ==
  /\ MaxVolumes \in Nat /\ 1 \in 1 .. MaxVolumes /\ 0 \notin Writers
  /\ \A w \in Writers : Size[w] \in Nat /\ Size[w] > 0 /\ Size[w] <= MaxVolumes
BY SizeAssumption, VolumeAssumption

LEMMA NoFileIsNoPart == NoFile \notin Seq(Unit)
<1>1. Len(NoFile) = 1 /\ NoFile[1] = <<0, 0>>
  BY DEF NoFile
<1>2. <<0, 0>> \notin Unit
  BY ConstantTypes DEF Unit
<1>3. SUFFICES ASSUME NoFile \in Seq(Unit) PROVE FALSE
  OBVIOUS
<1>4. NoFile[1] \in Unit
  BY <1>1, <1>3
<1> QED
  BY <1>1, <1>2, <1>4

LEMMA CompleteIsPart ==
  ASSUME NEW w \in Writers
  PROVE  /\ Complete(w) \in Seq(Unit) /\ Len(Complete(w)) = Size[w]
         /\ PartOf(w, 0, Complete(w))
         /\ Complete(w) # NoFile
<1>1. Size[w] \in Nat
  BY ConstantTypes
<1>2. Complete(w) \in Seq(Unit) /\ Len(Complete(w)) = Size[w]
  BY <1>1 DEF Complete, Unit
<1>3. \A k \in 1 .. Size[w] : Complete(w)[k] = <<w, 0 + k>>
  BY <1>1 DEF Complete
<1> QED
  BY <1>2, <1>3, NoFileIsNoPart DEF PartOf

(* Parts from the beginning are equal when they are equally long. *)
LEMMA PartIsComplete ==
  ASSUME NEW w \in Writers, NEW file, PartOf(w, 0, file), Len(file) = Size[w]
  PROVE  file = Complete(w)
<1>1. Size[w] \in Nat
  BY ConstantTypes
<1>2. file = [k \in 1 .. Size[w] |-> file[k]]
  BY <1>1 DEF PartOf
<1>3. \A k \in 1 .. Size[w] : file[k] = <<w, k>>
  BY <1>1 DEF PartOf
<1> QED
  BY <1>2, <1>3 DEF Complete

LEMMA CompleteIsUnique ==
  ASSUME NEW v \in Writers, NEW w \in Writers, Complete(v) = Complete(w)
  PROVE  v = w
<1>1. 1 \in 1 .. Size[v] /\ 1 \in 1 .. Size[w]
  BY ConstantTypes
<1>2. Complete(v)[1] = <<v, 1>> /\ Complete(w)[1] = <<w, 1>>
  BY <1>1 DEF Complete
<1> QED
  BY <1>2

LEMMA EditsOfComplete ==
  ASSUME NEW w \in Writers
  PROVE  EditsIn(Complete(w)) = edits[w]
<1>1. Complete(w) # NoFile
  BY CompleteIsPart
<1>2. (CHOOSE v \in Writers : Complete(w) = Complete(v)) = w
  BY CompleteIsUnique
<1> QED
  BY <1>1, <1>2 DEF EditsIn

LEMMA EditsOfNoFile == EditsIn(NoFile) = {}
BY DEF EditsIn

-----------------------------------------------------------------------------
(* What a volume to be filled takes from the archive. *)
LEMMA VolumeEndType ==
  ASSUME TypeOK, NEW w \in Writers, VolumeSizes[w] # <<>>, Left(w)
  PROVE  VolumeEnd(w) \in Nat /\ offset[w] < VolumeEnd(w) /\ VolumeEnd(w) <= Size[w]
<1>1. offset[w] \in Nat /\ volume[w] \in Nat /\ Size[w] \in Nat /\ offset[w] < Size[w]
  BY ConstantTypes DEF TypeOK, Left
<1>2. VolumeSizes[w] \in Seq(Nat \ {0}) /\ Len(VolumeSizes[w]) > 0
  BY VolumeAssumption
<1>3. VolumeSize(w, volume[w] + 1) \in Nat /\ VolumeSize(w, volume[w] + 1) > 0
  BY <1>1, <1>2 DEF VolumeSize
<1> QED
  BY <1>1, <1>3 DEF VolumeEnd

LEMMA PartOfSlice ==
  ASSUME NEW w \in Writers, NEW file, PartOf(w, 0, file), NEW a \in Nat, NEW b \in Nat,
         a < b, b <= Len(file)
  PROVE  PartOf(w, a, SubSeq(file, a + 1, b)) /\ Len(SubSeq(file, a + 1, b)) = b - a
<1> DEFINE part == SubSeq(file, a + 1, b)
<1>1. file \in Seq(Unit) /\ Len(file) \in Nat
  BY DEF PartOf
<1>2. part \in Seq(Unit) /\ Len(part) = b - a
  BY <1>1
<1>3. \A k \in 1 .. b - a : part[k] = file[a + k]
  BY <1>1
<1>4. \A k \in 1 .. b - a : file[a + k] = <<w, 0 + (a + k)>> /\ 0 + (a + k) = a + k
  BY <1>1 DEF PartOf
<1> QED
  BY <1>2, <1>3, <1>4 DEF PartOf

LEMMA RenamedTypes ==
  ASSUME TypeOK, NEW from \in Names, NEW to \in Names
  PROVE  Renamed(from, to) \in [Names -> Content]
BY DEF TypeOK, Renamed, Content

LEMMA AppendUnit ==
  ASSUME NEW w \in Writers, NEW file, PartOf(w, 0, file)
  PROVE  LET next == Append(file, <<w, Len(file) + 1>>)
         IN next \in Content /\ PartOf(w, 0, next) /\ Len(next) = Len(file) + 1
<1> DEFINE next == Append(file, <<w, Len(file) + 1>>)
<1>1. file \in Seq(Unit) /\ Len(file) \in Nat
  BY DEF PartOf
<1>2. <<w, Len(file) + 1>> \in Unit
  BY <1>1 DEF Unit
<1>3. next \in Seq(Unit) /\ Len(next) = Len(file) + 1
  BY <1>1, <1>2
<1>4. \A k \in 1 .. Len(file) + 1 : next[k] = IF k = Len(file) + 1 THEN <<w, k>> ELSE file[k]
  BY <1>1, <1>2
<1>5. \A k \in 1 .. Len(file) + 1 : next[k] = <<w, 0 + k>>
  BY <1>1, <1>4 DEF PartOf
<1> QED
  BY <1>3, <1>5 DEF PartOf, Content

LEMMA EmptyFile == <<>> \in Content /\ <<>> \in Seq(Unit) /\ NoFile \in Content
BY DEF Content

(* A program that changes nothing but one file it may write. *)
LEMMA OneFileType ==
  ASSUME TypeOK, NEW n, NEW file \in Content, fs' = [fs EXCEPT ![n] = file]
  PROVE  fs' \in [Names -> Content]
BY DEF TypeOK

(* A cleanup that may fail. *)
LEMMA Cleanup ==
  ASSUME TypeOK, NEW n \in Names, fs' \in {fs, Removed(n)}
  PROVE  /\ fs' \in [Names -> Content] /\ fs'[n] \in {fs[n], NoFile}
         /\ \A m \in Names : m # n => fs'[m] = fs[m]
         /\ fs' = Removed(n) => fs'[n] = NoFile
BY EmptyFile DEF TypeOK, Removed

LEMMA VolumeType ==
  ASSUME TypeOK, NEW i \in 1 .. MaxVolumes, Exists(Volume(i))
  PROVE  fs[Volume(i)] \in Seq(Unit)
BY NamesListed DEF TypeOK, Exists, Content

LEMMA ReaderTypes ==
  ASSUME TypeOK
  PROVE  /\ reader.parts \in Nat /\ reader.units \in Seq(Unit) /\ Len(reader.units) \in Nat
         /\ reader.open \in Int
         /\ reader.pc \in {"idle", "volumes", "single", "header", "done"}
<1>1. reader \in Reader
  BY DEF TypeOK
<1> QED
  BY <1>1 DEF Reader

LEMMA EndedType ==
  ASSUME TypeOK, NEW why \in {"limit", "error", "ok"}
  PROVE  Ended(why) \in Reader
<1>1. reader \in Reader
  BY DEF TypeOK
<1> QED
  BY <1>1 DEF Reader, Ended

LEMMA ReaderRecord ==
  ASSUME NEW s \in {"idle", "volumes", "single", "header", "done"}, NEW n \in Nat,
         NEW u \in Seq(Unit), NEW o \in Int, NEW r \in {"none", "limit", "error", "ok"}
  PROVE  [pc |-> s, parts |-> n, units |-> u, open |-> o, result |-> r] \in Reader
BY DEF Reader

(* What the reader becomes when it opens a volume and when it has them all. *)
LEMMA ReaderOpens ==
  ASSUME reader \in Reader, NEW more \in Seq(Unit),
         reader' = [reader EXCEPT !.parts = @ + 1, !.open = @ + 1, !.units = @ \o more]
  PROVE  /\ reader' \in Reader /\ reader'.pc = reader.pc /\ reader'.result = reader.result
         /\ reader'.parts = reader.parts + 1 /\ reader'.units = reader.units \o more
<1>1. reader.parts + 1 \in Nat /\ reader.open + 1 \in Int /\ reader.units \o more \in Seq(Unit)
  BY DEF Reader
<1>2. reader' = [pc |-> reader.pc, parts |-> reader.parts + 1, units |-> reader.units \o more,
                 open |-> reader.open + 1, result |-> reader.result]
  BY DEF Reader
<1> QED
  BY <1>1, <1>2 DEF Reader

LEMMA ReaderRetries ==
  ASSUME reader \in Reader,
         reader' = [reader EXCEPT !.pc = "single", !.parts = 0, !.units = <<>>,
                                  !.open = IF @ > 0 THEN @ - 1 ELSE 0]
  PROVE  /\ reader' \in Reader /\ reader'.pc = "single" /\ reader'.result = reader.result
         /\ reader'.parts = 0 /\ reader'.units = <<>>
<1> DEFINE open == IF reader.open > 0 THEN reader.open - 1 ELSE 0
<1>1. open \in Int
  BY DEF Reader
<1>2. reader' = [pc |-> "single", parts |-> 0, units |-> <<>>, open |-> open,
                 result |-> reader.result]
  BY DEF Reader
<1> HIDE DEF open
<1>3. reader.result \in {"none", "limit", "error", "ok"} /\ <<>> \in Seq(Unit)
  BY EmptyFile DEF Reader
<1>4. "single" \in {"idle", "volumes", "single", "header", "done"} /\ 0 \in Nat
  OBVIOUS
<1>5. [pc |-> "single", parts |-> 0, units |-> <<>>, open |-> open, result |-> reader.result]
        \in Reader
  BY <1>1, <1>3, <1>4, ReaderRecord, Zenon
<1> QED
  BY <1>2, <1>5

LEMMA ReaderSingle ==
  ASSUME reader \in Reader, NEW file \in Seq(Unit),
         reader' = [reader EXCEPT !.pc = "header", !.open = @ + 1, !.parts = 1, !.units = file]
  PROVE  /\ reader' \in Reader /\ reader'.pc = "header" /\ reader'.result = reader.result
         /\ reader'.parts = 1 /\ reader'.units = file
<1>1. reader.open + 1 \in Int
  BY DEF Reader
<1>2. reader' = [pc |-> "header", parts |-> 1, units |-> file, open |-> reader.open + 1,
                 result |-> reader.result]
  BY DEF Reader
<1> QED
  BY <1>1, <1>2 DEF Reader

LEMMA WriterTypes ==
  ASSUME TypeOK, NEW w \in Writers
  PROVE  /\ volume[w] \in Nat /\ offset[w] \in Nat /\ pc[w] \in Stage
         /\ \A i \in 1 .. MaxVolumes : i \in Nat
BY DEF TypeOK

LEMMA RenameTypes ==
  ASSUME TypeOK, NEW w \in Writers, FilesOf(w), CutOf(w), pc[w] = "rename"
  PROVE  /\ volume[w] + 1 \in 1 .. MaxVolumes
         /\ VolumeEnd(w) \in Nat /\ offset[w] < VolumeEnd(w) /\ VolumeEnd(w) <= Size[w]
<1>1. volume[w] \in Nat /\ offset[w] \in Nat /\ volume[w] < MaxVolumes
      /\ offset[w] < VolumeEnd(w) /\ VolumeEnd(w) <= Size[w] /\ VolumeSizes[w] # <<>>
  BY WriterTypes DEF CutOf, FilesOf, Splitting
<1>2. VolumeSizes[w] \in Seq(Nat \ {0}) /\ Len(VolumeSizes[w]) > 0
  BY <1>1, VolumeAssumption
<1>3. VolumeSize(w, volume[w] + 1) \in Nat
  BY <1>1, <1>2 DEF VolumeSize
<1> QED
  BY <1>1, <1>3, ConstantTypes DEF VolumeEnd

(* Types. *)
LEMMA TypeStep == TypeOK /\ ProcessInv /\ [Next]_vars => TypeOK'
<1> SUFFICES ASSUME TypeOK, ProcessInv, [Next]_vars PROVE TypeOK'
  OBVIOUS
<1>a. \A s \in {"open", "create", "ok", "failed", "killed", "update", "create temp",
               "update temp", "split", "rename"} : s \in Stage
  BY DEF Stage, Idle, Rewriting, Splitting
<1> USE DEF TypeOK, writers, history
<1>1. ASSUME NEW w \in Writers, Start(w) PROVE TypeOK'
  BY <1>1, <1>a DEF Start, Reading, Running
<1>2. ASSUME NEW w \in Writers, Open(w) PROVE TypeOK'  BY <1>2, <1>a DEF Open
<1>3. ASSUME NEW w \in Writers, MakeTemp(w) PROVE TypeOK'
  <2>1. fs' \in [Names -> Content]
    BY <1>3, EmptyFile, OneFileType DEF MakeTemp
  <2> QED
    BY <1>3, <1>a, <2>1 DEF MakeTemp
<1>4. ASSUME NEW w \in Writers, WriteUnit(w) PROVE TypeOK'
  <2>1. PartOf(w, 0, fs[Temp(w)])
    BY <1>4 DEF WriteUnit, ProcessInv, FilesOf
  <2>2. Append(fs[Temp(w)], <<w, Len(fs[Temp(w)]) + 1>>) \in Content
    BY <2>1, AppendUnit
  <2>3. fs' \in [Names -> Content]
    BY <1>4, <2>2, OneFileType DEF WriteUnit
  <2> QED
    BY <1>4, <2>3 DEF WriteUnit
<1>5. ASSUME NEW w \in Writers, Persist(w) PROVE TypeOK'
  <2>1. fs' \in [Names -> Content]
    BY <1>5, NamesListed, RenamedTypes DEF Persist, Target
  <2> QED
    BY <1>5, <1>a, <2>1 DEF Persist
<1>6. ASSUME NEW w \in Writers, Fail(w) PROVE TypeOK'
  <2>1. fs' \in [Names -> Content]
    BY <1>6, Cleanup, NamesListed DEF Fail
  <2> QED
    BY <1>6, <1>a, <2>1 DEF Fail
<1>7. ASSUME NEW w \in Writers, Kill(w) PROVE TypeOK'  BY <1>7, <1>a DEF Kill
<1>8. ASSUME NEW w \in Writers, FillVolume(w) PROVE TypeOK'
  <2>1. PartOf(w, 0, fs[TmpArchive(w)]) /\ Len(fs[TmpArchive(w)]) = Size[w]
        /\ VolumeSizes[w] # <<>> /\ offset[w] \in Nat
    BY <1>8 DEF FillVolume, ProcessInv, FilesOf, Splitting
  <2>2. VolumeEnd(w) \in Nat /\ offset[w] < VolumeEnd(w) /\ VolumeEnd(w) <= Size[w]
    BY <1>8, <2>1, VolumeEndType DEF FillVolume
  <2>3. SubSeq(fs[TmpArchive(w)], offset[w] + 1, VolumeEnd(w)) \in Content
    BY <2>1, <2>2, PartOfSlice DEF PartOf, Content
  <2>4. fs' \in [Names -> Content]
    BY <1>8, <2>3, OneFileType DEF FillVolume
  <2> QED
    BY <1>8, <1>a, <2>4 DEF FillVolume
<1>9. ASSUME NEW w \in Writers, RenameVolume(w) PROVE TypeOK'
  <2>1. volume[w] + 1 \in 1 .. MaxVolumes /\ VolumeEnd(w) \in Nat
    BY <1>9, RenameTypes DEF RenameVolume, ProcessInv
  <2>2. fs' \in [Names -> Content]
    BY <1>9, <2>1, NamesListed, RenamedTypes DEF RenameVolume
  <2>3. volume' \in [Writers -> Nat] /\ offset' \in [Writers -> Nat]
    BY <1>9, <2>1 DEF RenameVolume
  <2> QED
    BY <1>9, <1>a, <2>2, <2>3 DEF RenameVolume
<1>10. ASSUME NEW w \in Writers, EndVolumes(w) PROVE TypeOK'
  <2>1. fs' \in [Names -> Content]
    BY <1>10, Cleanup, NamesListed DEF EndVolumes
  <2> QED
    BY <1>10, <1>a, <2>1 DEF EndVolumes
<1>11. ASSUME NEW w \in Writers, FailVolumes(w) PROVE TypeOK'
  <2>1. fs' \in [Names -> Content]
    BY <1>11, Cleanup, NamesListed DEF FailVolumes
  <2> QED
    BY <1>11, <1>a, <2>1 DEF FailVolumes
<1>12. CASE StartReader
  <2>1. reader' \in Reader
    BY <1>12 DEF StartReader, Reader
  <2> QED
    BY <1>12, <2>1 DEF StartReader, Running
<1>13. CASE OpenPart
  <2>1. NextPart \in 1 .. MaxVolumes
    BY <1>13, ConstantTypes, ReaderTypes DEF OpenPart, MorePart, NextPart
  <2>2. fs[Volume(NextPart)] \in Seq(Unit)
    BY <1>13, <2>1, VolumeType DEF OpenPart, MorePart
  <2>3. reader.units \o fs[Volume(NextPart)] \in Seq(Unit)
    BY <2>2, ReaderTypes
  <2>4. reader' \in Reader
    BY <1>13, <2>2, EndedType, ReaderOpens DEF OpenPart
  <2> QED
    BY <1>13, <2>4 DEF OpenPart
<1>14. CASE EndParts
  <2>1. reader' \in Reader
    <3>1. CASE reader.parts > 1
      BY <1>14, <3>1 DEF EndParts, Reader
    <3> QED
      BY <1>14, <3>1, ReaderRetries DEF EndParts
  <2> QED
    BY <1>14, <2>1 DEF EndParts
<1>15. CASE OpenSingle
  <2>1. Exists(Volume(1)) => fs[Volume(1)] \in Seq(Unit)
    BY VolumeType, ConstantTypes
  <2>2. reader' \in Reader
    BY <1>15, <2>1, EndedType, ReaderSingle DEF OpenSingle
  <2> QED
    BY <1>15, <2>2 DEF OpenSingle
<1>16. CASE ReadHeader
  <2>1. reader' \in Reader
    BY <1>16, EndedType DEF ReadHeader
  <2> QED
    BY <1>16, <2>1 DEF ReadHeader
<1>17. CASE UNCHANGED vars  BY <1>17 DEF vars
<1> QED
  BY <1>1, <1>2, <1>3, <1>4, <1>5, <1>6, <1>7, <1>8, <1>9, <1>10, <1>11, <1>12, <1>13,
     <1>14, <1>15, <1>16, <1>17 DEF Next, Write

-----------------------------------------------------------------------------
(* A process touches only its own temporary files and its own state. *)
LEMMA OthersKeep ==
  ASSUME TypeOK, NEW w \in Writers, Write(w), NEW v \in Writers, v # w
  PROVE  /\ pc'[v] = pc[v] /\ volume'[v] = volume[v] /\ offset'[v] = offset[v]
         /\ edits'[v] = edits[v]
         /\ fs'[Temp(v)] = fs[Temp(v)] /\ fs'[TmpArchive(v)] = fs[TmpArchive(v)]
         /\ \A i \in 1 .. MaxVolumes : fs'[VolumeTmp(v, i)] = fs[VolumeTmp(v, i)]
         /\ intact' = v => intact = v
<1> USE DEF TypeOK, writers, history
<1>a. volume[w] + 1 \in Nat /\ \A i \in 1 .. MaxVolumes : i \in Nat
  OBVIOUS
<1>b. intact \in Writers \cup {0} /\ 0 \notin Writers
  BY ConstantTypes
<1>1. CASE Start(w)  BY <1>1 DEF Start
<1>2. CASE Open(w)  BY <1>2 DEF Open
<1>3. CASE MakeTemp(w)
  <2>1. \A n \in Names : n # Temp(w) => fs'[n] = fs[n]
    BY <1>3 DEF MakeTemp
  <2>2. UNCHANGED <<edits, volume, offset, intact>> /\ pc'[v] = pc[v]
    BY <1>3 DEF MakeTemp
  <2> QED
    BY <1>a, <2>1, <2>2, NamesApart, NamesListed
<1>4. CASE WriteUnit(w)  BY <1>4, <1>a, NamesApart, NamesListed DEF WriteUnit
<1>5. CASE Persist(w)
  BY <1>5, <1>a, NamesApart, NamesListed DEF Persist, Renamed, Target
<1>6. CASE Fail(w)  BY <1>6, <1>a, NamesApart, NamesListed DEF Fail, Removed
<1>7. CASE Kill(w)  BY <1>7 DEF Kill
<1>8. CASE FillVolume(w)  BY <1>8, <1>a, NamesApart, NamesListed DEF FillVolume
<1>9. CASE RenameVolume(w)
  BY <1>9, <1>a, <1>b, NamesApart, NamesListed DEF RenameVolume, Renamed
<1>10. CASE EndVolumes(w)  BY <1>10, <1>a, NamesApart, NamesListed DEF EndVolumes, Removed
<1>11. CASE FailVolumes(w)  BY <1>11, <1>a, NamesApart, NamesListed DEF FailVolumes, Removed
<1> QED
  BY <1>1, <1>2, <1>3, <1>4, <1>5, <1>6, <1>7, <1>8, <1>9, <1>10, <1>11 DEF Write

LEMMA OthersFrame ==
  ASSUME TypeOK, NEW v \in Writers, FilesOf(v), CutOf(v),
         pc'[v] = pc[v], volume'[v] = volume[v], offset'[v] = offset[v],
         fs'[Temp(v)] = fs[Temp(v)], fs'[TmpArchive(v)] = fs[TmpArchive(v)],
         \A i \in 1 .. MaxVolumes : fs'[VolumeTmp(v, i)] = fs[VolumeTmp(v, i)],
         intact' = v => intact = v
  PROVE  FilesOf(v)' /\ CutOf(v)'
<1>1. FilesOf(v)'
  BY DEF FilesOf, OneStage, Filling, Exists
<1>2. VolumeEnd(v)' = VolumeEnd(v)
  BY DEF VolumeEnd, VolumeSize
<1>3. pc[v] = "rename" => volume[v] + 1 \in 1 .. MaxVolumes
  BY WriterTypes, ConstantTypes DEF CutOf
<1>4. CutOf(v)'
  BY <1>2, <1>3 DEF CutOf
<1> QED
  BY <1>1, <1>4

(* What the process that takes the step holds afterwards. *)
LEMMA OwnFiles ==
  ASSUME TypeOK, NEW w \in Writers, FilesOf(w), CutOf(w), Write(w)
  PROVE  FilesOf(w)'
<1> USE DEF writers, history
<1>a. /\ fs \in [Names -> Content] /\ pc \in [Writers -> Stage]
      /\ volume \in [Writers -> Nat]
      /\ volume[w] + 1 \in Nat /\ \A i \in 1 .. MaxVolumes : i \in Nat
      /\ Temp(w) \in Names /\ TmpArchive(w) \in Names /\ Archive \in Names
      /\ \A i \in 1 .. MaxVolumes : VolumeTmp(w, i) \in Names
  BY NamesListed DEF TypeOK
<1>b. /\ Temp(w) # TmpArchive(w) /\ Archive # Temp(w) /\ Archive # TmpArchive(w)
      /\ \A i \in 1 .. MaxVolumes : /\ VolumeTmp(w, i) # Temp(w)
                                    /\ VolumeTmp(w, i) # TmpArchive(w)
                                    /\ VolumeTmp(w, i) # Archive
  BY <1>a, NamesApart
<1>1. CASE Start(w)
  <2>1. pc[w] = "idle" /\ pc'[w] \in {"open", "create"} /\ UNCHANGED <<fs, volume>>
    BY <1>1, <1>a DEF Start
  <2> QED
    BY <2>1 DEF FilesOf, OneStage, Filling, Exists, Splitting
<1>2. CASE Open(w)
  <2>1. pc[w] = "open" /\ pc'[w] = "update" /\ UNCHANGED <<fs, volume>>
    BY <1>2, <1>a DEF Open
  <2> QED
    BY <2>1 DEF FilesOf, OneStage, Filling, Exists, Splitting
<1>3. CASE MakeTemp(w)
  <2>1. pc[w] \in {"create", "update"} /\ pc'[w] \in {"create temp", "update temp"}
        /\ volume' = volume /\ fs'[Temp(w)] = <<>>
        /\ \A n \in Names : n # Temp(w) => fs'[n] = fs[n]
    BY <1>3, <1>a DEF MakeTemp
  <2>2. PartOf(w, 0, <<>>) /\ Len(<<>>) <= Size[w]
    BY EmptyFile, ConstantTypes DEF PartOf
  <2>3. ~Exists(TmpArchive(w)) /\ \A i \in 1 .. MaxVolumes : ~Exists(VolumeTmp(w, i))
    BY <2>1 DEF FilesOf, Splitting
  <2> QED
    BY <1>a, <1>b, <2>1, <2>2, <2>3 DEF FilesOf, OneStage, Filling, Exists, Splitting
<1>4. CASE WriteUnit(w)
  <2>1. Filling(w) /\ PartOf(w, 0, fs[Temp(w)]) /\ Len(fs[Temp(w)]) < Size[w]
        /\ fs'[Temp(w)] = Append(fs[Temp(w)], <<w, Len(fs[Temp(w)]) + 1>>)
        /\ UNCHANGED <<pc, volume>> /\ \A n \in Names : n # Temp(w) => fs'[n] = fs[n]
    BY <1>4, <1>a DEF WriteUnit, FilesOf
  <2>2. PartOf(w, 0, fs'[Temp(w)]) /\ Len(fs'[Temp(w)]) = Len(fs[Temp(w)]) + 1
    BY <2>1, AppendUnit
  <2>3. Len(fs'[Temp(w)]) <= Size[w]
    <3>1. Len(fs[Temp(w)]) \in Nat
      BY <2>1 DEF PartOf
    <3> QED
      BY <2>1, <2>2, <3>1, ConstantTypes
  <2> QED
    BY <1>a, <1>b, <2>1, <2>2, <2>3 DEF FilesOf, OneStage, Filling, Exists, Splitting
<1>5. CASE Persist(w)
  <2>1. /\ Filling(w) /\ Len(fs[Temp(w)]) = Size[w] /\ PartOf(w, 0, fs[Temp(w)])
        /\ pc'[w] = IF Splits(w) THEN "split" ELSE "ok"
        /\ volume' = volume /\ fs' = Renamed(Temp(w), Target(w))
    BY <1>5, <1>a DEF Persist, FilesOf
  <2>2. ~Exists(TmpArchive(w)) /\ \A i \in 1 .. MaxVolumes : ~Exists(VolumeTmp(w, i))
    BY <2>1 DEF FilesOf, Splitting, Filling
  <2>3. CASE Splits(w)
    <3>1. fs'[TmpArchive(w)] = fs[Temp(w)] /\ fs'[Temp(w)] = NoFile
          /\ \A i \in 1 .. MaxVolumes : fs'[VolumeTmp(w, i)] = fs[VolumeTmp(w, i)]
      BY <1>a, <1>b, <2>1, <2>3 DEF Renamed, Target
    <3>2. VolumeSizes[w] # <<>> /\ pc'[w] = "split"
      BY <2>1, <2>3 DEF Splits
    <3> QED
      BY <2>1, <2>2, <3>1, <3>2 DEF FilesOf, OneStage, Filling, Exists, Splitting
  <2>4. CASE ~Splits(w)
    <3>1. fs'[TmpArchive(w)] = fs[TmpArchive(w)] /\ fs'[Temp(w)] = NoFile
          /\ \A i \in 1 .. MaxVolumes : fs'[VolumeTmp(w, i)] = fs[VolumeTmp(w, i)]
      BY <1>a, <1>b, <2>1, <2>4 DEF Renamed, Target
    <3> QED
      BY <2>1, <2>2, <2>4, <3>1 DEF FilesOf, OneStage, Filling, Exists, Splitting
  <2> QED
    BY <2>3, <2>4
<1>6. CASE Fail(w)
  <2>1. pc'[w] = "failed" /\ volume' = volume
        /\ \A n \in Names : n # Temp(w) => fs'[n] = fs[n]
    BY <1>6, <1>a, Cleanup DEF Fail
  <2>2. ~Exists(TmpArchive(w)) /\ \A i \in 1 .. MaxVolumes : ~Exists(VolumeTmp(w, i))
    BY <1>6 DEF Fail, FilesOf, Running, Idle, Splitting
  <2> QED
    BY <1>a, <1>b, <2>1, <2>2 DEF FilesOf, OneStage, Filling, Exists, Splitting
<1>7. CASE Kill(w)
  <2>1. pc'[w] = "killed" /\ UNCHANGED <<fs, volume>>
    BY <1>7, <1>a DEF Kill
  <2>2. OneStage(w) /\ \A i \in 1 .. MaxVolumes : Exists(VolumeTmp(w, i)) => i = volume[w] + 1
    BY DEF FilesOf
  <2> QED
    BY <2>1, <2>2 DEF FilesOf, OneStage, Filling, Exists, Splitting
<1>8. CASE FillVolume(w)
  <2>1. pc[w] = "split" /\ pc'[w] = "rename" /\ volume' = volume
        /\ \A n \in Names : n # VolumeTmp(w, volume[w] + 1) => fs'[n] = fs[n]
    BY <1>8, <1>a DEF FillVolume
  <2>2. VolumeTmp(w, volume[w] + 1) # Temp(w) /\ VolumeTmp(w, volume[w] + 1) # TmpArchive(w)
    BY <1>a, NamesApart
  <2>3. \A i \in 1 .. MaxVolumes : VolumeTmp(w, i) = VolumeTmp(w, volume[w] + 1) => i = volume[w] + 1
    BY <1>a, NamesApart
  <2>4. \A i \in 1 .. MaxVolumes : ~Exists(VolumeTmp(w, i))
    BY <2>1 DEF FilesOf
  <2> QED
    BY <1>a, <2>1, <2>2, <2>3, <2>4 DEF FilesOf, OneStage, Filling, Exists, Splitting
<1>9. CASE RenameVolume(w)
  <2>1. pc[w] = "rename" /\ pc'[w] = "split" /\ fs'[VolumeTmp(w, volume[w] + 1)] = NoFile
        /\ \A n \in Names : n # VolumeTmp(w, volume[w] + 1) /\ n # Volume(volume[w] + 1)
                            => fs'[n] = fs[n]
    <3>1. volume[w] + 1 \in 1 .. MaxVolumes
      BY <1>9, WriterTypes, ConstantTypes DEF RenameVolume, CutOf
    <3> QED
      BY <1>9, <1>a, <3>1, NamesListed DEF RenameVolume, Renamed
  <2>2. /\ VolumeTmp(w, volume[w] + 1) # Temp(w) /\ VolumeTmp(w, volume[w] + 1) # TmpArchive(w)
        /\ Volume(volume[w] + 1) # Temp(w) /\ Volume(volume[w] + 1) # TmpArchive(w)
        /\ \A i \in 1 .. MaxVolumes : Volume(volume[w] + 1) # VolumeTmp(w, i)
    BY <1>a, NamesApart
  <2>3. \A i \in 1 .. MaxVolumes : ~Exists(VolumeTmp(w, i))'
    BY <1>a, <2>1, <2>2 DEF FilesOf, Exists
  <2> QED
    BY <1>a, <2>1, <2>2, <2>3 DEF FilesOf, OneStage, Filling, Exists, Splitting
<1>10. CASE EndVolumes(w) \/ FailVolumes(w)
  <2>1. /\ fs' \in {fs, Removed(TmpArchive(w))} /\ volume' = volume
        /\ pc[w] \in Splitting /\ pc'[w] \in {"ok", "failed"}
        /\ pc'[w] = "ok" => pc[w] = "split" /\ fs' = Removed(TmpArchive(w))
    BY <1>10, <1>a DEF EndVolumes, FailVolumes, Splitting
  <2>2. /\ \A n \in Names : n # TmpArchive(w) => fs'[n] = fs[n]
        /\ pc'[w] = "ok" => fs'[TmpArchive(w)] = NoFile
    BY <1>a, <2>1, Cleanup
  <2>3. ~Exists(Temp(w))' /\ \A i \in 1 .. MaxVolumes :
          Exists(VolumeTmp(w, i))' => pc[w] = "rename" /\ i = volume[w] + 1
    BY <1>a, <1>b, <2>1, <2>2 DEF FilesOf, Filling, Exists, Splitting
  <2> QED
    BY <2>1, <2>2, <2>3 DEF FilesOf, OneStage, Filling, Exists, Splitting
<1> QED
  BY <1>1, <1>2, <1>3, <1>4, <1>5, <1>6, <1>7, <1>8, <1>9, <1>10 DEF Write

(* How it has cut its archive into volumes. *)
LEMMA OwnCut ==
  ASSUME TypeOK, NEW w \in Writers, FilesOf(w), CutOf(w), Write(w)
  PROVE  CutOf(w)'
<1> USE DEF writers, history
<1>a. /\ fs \in [Names -> Content] /\ pc \in [Writers -> Stage] /\ w # 0
      /\ volume \in [Writers -> Nat] /\ offset \in [Writers -> Nat]
      /\ volume[w] \in Nat /\ offset[w] \in Nat /\ Size[w] \in Nat
  BY ConstantTypes DEF TypeOK
<1>1. ASSUME pc'[w] # "rename", UNCHANGED <<volume, offset, intact>>,
             pc'[w] \in {"idle", "open"} \cup Rewriting => pc[w] \in {"idle", "open"} \cup Rewriting,
             pc[w] \notin {"ok", "failed"}
      PROVE  CutOf(w)'
  BY <1>1 DEF CutOf
<1>2. CASE FillVolume(w)
  <2>1. /\ pc[w] = "split" /\ pc'[w] = "rename" /\ Left(w)
        /\ UNCHANGED <<volume, offset, intact>>
        /\ fs' = [fs EXCEPT ![VolumeTmp(w, volume[w] + 1)] =
                     SubSeq(fs[TmpArchive(w)], offset[w] + 1, VolumeEnd(w))]
    BY <1>2, <1>a DEF FillVolume
  <2>2. PartOf(w, 0, fs[TmpArchive(w)]) /\ Len(fs[TmpArchive(w)]) = Size[w]
        /\ VolumeSizes[w] # <<>>
    BY <2>1 DEF FilesOf, Splitting
  <2>3. VolumeEnd(w) \in Nat /\ offset[w] < VolumeEnd(w) /\ VolumeEnd(w) <= Size[w]
    BY <2>1, <2>2, VolumeEndType
  <2>4. volume[w] < MaxVolumes
    BY <1>a, <2>3, ConstantTypes DEF CutOf
  <2>5. VolumeTmp(w, volume[w] + 1) \in Names
    BY <1>a, <2>4, ConstantTypes, NamesListed
  <2>6. fs'[VolumeTmp(w, volume[w] + 1)] = SubSeq(fs[TmpArchive(w)], offset[w] + 1, VolumeEnd(w))
    BY <1>a, <2>1, <2>5
  <2>7. PartOf(w, offset[w], fs'[VolumeTmp(w, volume[w] + 1)])
        /\ Len(fs'[VolumeTmp(w, volume[w] + 1)]) = VolumeEnd(w) - offset[w]
    BY <1>a, <2>2, <2>3, <2>6, PartOfSlice
  <2>8. VolumeEnd(w)' = VolumeEnd(w)
    BY <2>1 DEF VolumeEnd, VolumeSize
  <2> QED
    BY <2>1, <2>3, <2>4, <2>7, <2>8 DEF CutOf, Rewriting
<1>3. CASE RenameVolume(w)
  <2>1. /\ pc[w] = "rename" /\ pc'[w] = "split" /\ intact' = 0
        /\ volume'[w] = volume[w] + 1 /\ offset'[w] = VolumeEnd(w)
    BY <1>3, <1>a DEF RenameVolume
  <2>2. offset[w] < VolumeEnd(w) /\ VolumeEnd(w) <= Size[w] /\ volume[w] <= offset[w]
    BY <2>1 DEF CutOf
  <2>3. VolumeEnd(w) \in Nat
    BY <2>1, RenameTypes
  <2> QED
    BY <1>a, <2>1, <2>2, <2>3 DEF CutOf, Rewriting
<1>4. CASE EndVolumes(w)
  <2>1. pc[w] = "split" /\ pc'[w] \in {"ok", "failed"} /\ intact' = w /\ ~Left(w)
        /\ UNCHANGED <<volume, offset>>
    BY <1>4, <1>a DEF EndVolumes
  <2>2. offset[w] = Size[w] /\ volume[w] > 0
    BY <1>a, <2>1, ConstantTypes DEF CutOf, Left
  <2> QED
    BY <1>a, <2>1, <2>2 DEF CutOf, Rewriting
<1>5. CASE Start(w)  BY <1>5, <1>a, <1>1 DEF Start, Rewriting
<1>6. CASE Open(w)  BY <1>6, <1>a, <1>1 DEF Open, Rewriting
<1>7. CASE MakeTemp(w)  BY <1>7, <1>a, <1>1 DEF MakeTemp, Rewriting
<1>8. CASE WriteUnit(w)  BY <1>8, <1>a, <1>1 DEF WriteUnit, Filling, Rewriting
<1>9. CASE Persist(w)  BY <1>9, <1>a, <1>1 DEF Persist, Filling, Rewriting
<1>10. CASE Fail(w)  BY <1>10, <1>a, <1>1 DEF Fail, Running, Idle, Rewriting
<1>11. CASE Kill(w)  BY <1>11, <1>a, <1>1 DEF Kill, Running, Idle, Rewriting
<1>12. CASE FailVolumes(w)  BY <1>12, <1>a, <1>1 DEF FailVolumes, Rewriting
<1> QED
  BY <1>2, <1>3, <1>4, <1>5, <1>6, <1>7, <1>8, <1>9, <1>10, <1>11, <1>12 DEF Write

(* Each process, whoever takes the step. *)
LEMMA ProcessStep == TypeOK /\ ProcessInv /\ [Next]_vars => ProcessInv'
<1> SUFFICES ASSUME TypeOK, ProcessInv, [Next]_vars, NEW v \in Writers
             PROVE  FilesOf(v)' /\ CutOf(v)'
  BY DEF ProcessInv
<1>0. FilesOf(v) /\ CutOf(v)
  BY DEF ProcessInv
<1>1. ASSUME NEW w \in Writers, Write(w) PROVE FilesOf(v)' /\ CutOf(v)'
  <2>1. CASE v = w
    BY <1>0, <1>1, <2>1, OwnFiles, OwnCut
  <2>2. CASE v # w
    BY <1>0, <1>1, <2>2, OthersKeep, OthersFrame
  <2> QED
    BY <2>1, <2>2
<1>2. CASE UNCHANGED <<fs, writers, intact>>
  BY <1>0, <1>2, OthersFrame DEF writers
<1> QED
  BY <1>1, <1>2 DEF Next, vars, history, StartReader, OpenPart, EndParts, OpenSingle, ReadHeader

-----------------------------------------------------------------------------
(* Only the rename that commits an archive changes the archive, and then   *)
(* it is complete.                                                         *)
LEMMA ArchiveKept ==
  ASSUME TypeOK, ProcessInv, NEW w \in Writers, Write(w), ~(Persist(w) /\ ~Splits(w))
  PROVE  fs'[Archive] = fs[Archive] /\ past' = past
<1> USE DEF TypeOK, writers, history
<1>a. volume[w] + 1 \in Nat /\ Archive \in Names
  BY NamesListed
<1>1. CASE Start(w)  BY <1>1 DEF Start
<1>2. CASE Open(w)  BY <1>2 DEF Open
<1>3. CASE MakeTemp(w)  BY <1>3, <1>a, NamesApart DEF MakeTemp
<1>4. CASE WriteUnit(w)  BY <1>4, <1>a, NamesApart DEF WriteUnit
<1>5. CASE Persist(w)
  BY <1>5, <1>a, NamesApart, NamesListed DEF Persist, Renamed, Target
<1>6. CASE Fail(w)  BY <1>6, <1>a, NamesApart DEF Fail, Removed
<1>7. CASE Kill(w)  BY <1>7 DEF Kill
<1>8. CASE FillVolume(w)  BY <1>8, <1>a, NamesApart DEF FillVolume
<1>9. CASE RenameVolume(w)  BY <1>9, <1>a, NamesApart DEF RenameVolume, Renamed
<1>10. CASE EndVolumes(w)  BY <1>10, <1>a, NamesApart DEF EndVolumes, Removed
<1>11. CASE FailVolumes(w)  BY <1>11, <1>a, NamesApart DEF FailVolumes, Removed
<1> QED
  BY <1>1, <1>2, <1>3, <1>4, <1>5, <1>6, <1>7, <1>8, <1>9, <1>10, <1>11 DEF Write

LEMMA Committed ==
  ASSUME TypeOK, ProcessInv, NEW w \in Writers, Persist(w), ~Splits(w)
  PROVE  /\ fs'[Archive] = Complete(w) /\ pc[w] \in Rewriting /\ pc'[w] = "ok"
         /\ edits' = edits /\ raced' = raced /\ reader' = reader
         /\ past' = past \cup {edits[w]} /\ EditsIn(fs[Archive])' = edits[w]
<1>1. Filling(w) /\ Len(fs[Temp(w)]) = Size[w] /\ PartOf(w, 0, fs[Temp(w)])
  BY DEF Persist, ProcessInv, FilesOf
<1>2. fs[Temp(w)] = Complete(w)
  BY <1>1, PartIsComplete
<1>3. fs'[Archive] = Complete(w)
  BY <1>2, NamesListed, NamesApart DEF Persist, Renamed, Target, TypeOK
<1>4. edits' = edits /\ raced' = raced /\ reader' = reader
  BY DEF Persist
<1>5. EditsIn(Complete(w))' = edits'[w]
  <2>1. Complete(w) # NoFile
    BY CompleteIsPart
  <2>2. (CHOOSE v \in Writers : Complete(w) = Complete(v)) = w
    BY CompleteIsUnique
  <2> QED
    BY <2>1, <2>2 DEF EditsIn
<1> QED
  BY <1>1, <1>3, <1>4, <1>5 DEF Persist, Filling, Rewriting, TypeOK

(* The edits in the archive stay those of the process that made it. *)
LEMMA EditsKept ==
  ASSUME TypeOK, ProcessInv, ArchiveInv, NEW w \in Writers, Write(w),
         ~(Persist(w) /\ ~Splits(w))
  PROVE  /\ EditsIn(fs[Archive])' = EditsIn(fs[Archive])
         /\ \A v \in Writers : pc[v] = "ok" => pc'[v] = "ok" /\ edits'[v] = edits[v]
<1>1. fs'[Archive] = fs[Archive]
  BY ArchiveKept
<1>2. \A v \in Writers : pc[v] = "ok" => pc'[v] = "ok" /\ edits'[v] = edits[v]
  <2> SUFFICES ASSUME NEW v \in Writers, pc[v] = "ok"
               PROVE  pc'[v] = "ok" /\ edits'[v] = edits[v]
    OBVIOUS
  <2>1. w # v
    BY DEF Write, Start, Open, MakeTemp, WriteUnit, Filling, Persist, Fail, Kill, Running, Idle,
           FillVolume, RenameVolume, EndVolumes, FailVolumes
  <2> QED
    BY <2>1, OthersKeep
<1>3. fs[Archive] = NoFile => EditsIn(fs[Archive])' = EditsIn(fs[Archive])
  BY <1>1 DEF EditsIn
<1>4. ASSUME fs[Archive] # NoFile PROVE EditsIn(fs[Archive])' = EditsIn(fs[Archive])
  <2>1. PICK v \in Writers : pc[v] = "ok" /\ fs[Archive] = Complete(v)
    BY <1>4 DEF ArchiveInv, Exists
  <2>2. EditsIn(fs[Archive]) = edits[v]
    BY <2>1, EditsOfComplete
  <2>3. Complete(v) # NoFile /\ (CHOOSE u \in Writers : Complete(v) = Complete(u)) = v
    BY CompleteIsPart, CompleteIsUnique
  <2>4. EditsIn(fs[Archive])' = edits'[v]
    BY <1>1, <2>1, <2>3 DEF EditsIn
  <2> QED
    BY <1>2, <2>1, <2>2, <2>4
<1> QED
  BY <1>2, <1>3, <1>4

(* A process at work was started on some version of the archive. *)
LEMMA ArchiveStep == TypeOK /\ ProcessInv /\ ArchiveInv /\ [Next]_vars => ArchiveInv'
<1> SUFFICES ASSUME TypeOK, ProcessInv, ArchiveInv, [Next]_vars PROVE ArchiveInv'
  OBVIOUS
<1>1. ASSUME NEW w \in Writers, Persist(w), ~Splits(w) PROVE ArchiveInv'
  <2>1. \A v \in Writers : pc'[v] \in Rewriting => pc[v] \in Rewriting /\ edits'[v] = edits[v]
    BY <1>1 DEF Persist, TypeOK, Rewriting
  <2> QED
    BY <1>1, <2>1, Committed DEF ArchiveInv, Exists
<1>2. ASSUME NEW w \in Writers, Write(w), ~(Persist(w) /\ ~Splits(w)) PROVE ArchiveInv'
  <2>1. fs'[Archive] = fs[Archive] /\ past' = past
    BY <1>2, ArchiveKept
  <2>2. /\ EditsIn(fs[Archive])' = EditsIn(fs[Archive])
        /\ \A v \in Writers : pc[v] = "ok" => pc'[v] = "ok"
    BY <1>2, EditsKept
  <2>3. ASSUME NEW v \in Writers, pc'[v] \in Rewriting
        PROVE  \E base \in past : edits'[v] = base \cup {v}
    <3>1. CASE v # w
      BY <1>2, <2>3, <3>1, OthersKeep DEF ArchiveInv
    <3>2. CASE v = w /\ pc[w] \in Rewriting /\ edits'[w] = edits[w]
      BY <3>2 DEF ArchiveInv
    <3>3. CASE v = w /\ Start(w)
      <4>1. edits'[w] = {} \cup {w}
        BY <3>3 DEF Start, TypeOK
      <4> QED
        BY <3>3, <4>1 DEF ArchiveInv
    <3>4. CASE v = w /\ Open(w)
      <4>1. edits'[w] = EditsIn(fs[Archive]) \cup {w}
        BY <3>4 DEF Open, TypeOK
      <4> QED
        BY <3>4, <4>1 DEF ArchiveInv
    <3> QED
      BY <1>2, <2>3, <3>1, <3>2, <3>3, <3>4 DEF Write, TypeOK, Rewriting, writers, MakeTemp,
         WriteUnit, Filling, Persist, Fail, Kill, FillVolume, RenameVolume, EndVolumes, FailVolumes
  <2> QED
    BY <2>1, <2>2, <2>3 DEF ArchiveInv, Exists
<1>3. CASE UNCHANGED <<fs, writers, past>>
  BY <1>3 DEF ArchiveInv, EditsIn, Exists, writers
<1> QED
  BY <1>1, <1>2, <1>3 DEF Next, vars, history, StartReader, OpenPart, EndParts, OpenSingle,
     ReadHeader

(* Every step commits the edits of one process or leaves the archive. *)
LEMMA RefinementStep ==
  TypeOK /\ ProcessInv /\ ArchiveInv /\ [Next]_vars
    => [Promise!Next]_<<EditsIn(fs[Archive]), past>>
<1> SUFFICES ASSUME TypeOK, ProcessInv, ArchiveInv, [Next]_vars
             PROVE  [Promise!Next]_<<EditsIn(fs[Archive]), past>>
  OBVIOUS
<1>1. ASSUME NEW w \in Writers, Persist(w), ~Splits(w) PROVE Promise!Next
  <2>1. PICK base \in past : edits[w] = base \cup {w}
    BY <1>1, Committed DEF ArchiveInv
  <2>2. EditsIn(fs[Archive])' = base \cup {w} /\ past' = past \cup {base \cup {w}}
    BY <1>1, <2>1, Committed
  <2> QED
    BY <2>2 DEF Promise!Next, Promise!Commit
<1>2. ASSUME NEW w \in Writers, Write(w), ~(Persist(w) /\ ~Splits(w))
      PROVE  UNCHANGED <<EditsIn(fs[Archive]), past>>
  BY <1>2, ArchiveKept, EditsKept
<1>3. CASE UNCHANGED <<fs, writers, past>>
  BY <1>3 DEF EditsIn, writers
<1> QED
  BY <1>1, <1>2, <1>3 DEF Next, vars, history, StartReader, OpenPart, EndParts, OpenSingle,
     ReadHeader

-----------------------------------------------------------------------------
(* Who runs after a step of the process w. *)
LEMMA StageStep ==
  ASSUME TypeOK, NEW w \in Writers, Write(w)
  PROVE  /\ reader' = reader
         /\ ~raced' => ~raced
         /\ Start(w) \/ (Running(w) /\ raced' = raced)
         /\ \A v \in Writers : Running(v)' => Running(v) \/ (v = w /\ Start(w))
<1>1. /\ reader' = reader
      /\ Start(w) \/ (Running(w) /\ raced' = raced)
  BY DEF Write, Start, Open, MakeTemp, WriteUnit, Filling, Persist, Fail, Kill, FillVolume,
         RenameVolume, EndVolumes, FailVolumes, Running, Idle, history, writers
<1>3. Start(w) => (raced => raced')
  BY DEF Start
<1>2. ASSUME NEW v \in Writers, Running(v)' PROVE Running(v) \/ (v = w /\ Start(w))
  <2>1. CASE v = w
    BY <1>1, <2>1
  <2>2. CASE v # w
    BY <1>2, <2>2, OthersKeep DEF Running
  <2> QED
    BY <2>1, <2>2
<1> QED
  BY <1>1, <1>2, <1>3

(* Without a race a process runs alone and while nobody reads. *)
LEMMA Alone ==
  ASSUME TypeOK, SerialInv, NEW w \in Writers, Write(w), ~raced'
  PROVE  /\ ~raced /\ ~Reading
         /\ \A v \in Writers : v # w => ~Running(v)
         /\ \A v \in Writers : Running(v)' => v = w
<1>1. ~raced
  BY StageStep
<1>2. CASE Start(w)
  <2>1. ~Reading /\ \A v \in Writers : ~Running(v)
    BY <1>2 DEF Start
  <2> QED
    BY <1>1, <2>1, StageStep
<1>3. CASE ~Start(w)
  <2>1. Running(w)
    BY <1>3, StageStep
  <2>2. ~Reading /\ \A v \in Writers : Running(v) => v = w
    BY <1>1, <2>1 DEF SerialInv
  <2> QED
    BY <1>1, <1>3, <2>2, StageStep
<1> QED
  BY <1>2, <1>3

LEMMA ReaderRace ==
  ASSUME StartReader \/ OpenPart \/ EndParts \/ OpenSingle \/ ReadHeader \/ UNCHANGED vars,
         ~raced'
  PROVE  ~raced
<1>1. StartReader => (raced => raced')
  BY DEF StartReader
<1>2. ~StartReader => raced' = raced
  BY DEF OpenPart, EndParts, OpenSingle, ReadHeader, vars, history
<1> QED
  BY <1>1, <1>2

(* Commands that run one after the other. *)
LEMMA SerialStep ==
  TypeOK /\ ProcessInv /\ ArchiveInv /\ SerialInv /\ [Next]_vars => SerialInv'
<1> SUFFICES ASSUME TypeOK, ProcessInv, ArchiveInv, SerialInv, [Next]_vars, ~raced'
             PROVE  /\ \A v, w \in Writers : Running(v)' /\ Running(w)' => v = w
                    /\ \A w \in Writers : Running(w)' => ~Reading'
                    /\ UNION past' \subseteq EditsIn(fs[Archive])'
                    /\ \A w \in Writers : pc'[w] \in Rewriting => UNION past' \subseteq edits'[w]
  BY DEF SerialInv
<1>1. ASSUME NEW w \in Writers, Write(w)
      PROVE  /\ \A u, v \in Writers : Running(u)' /\ Running(v)' => u = v
             /\ \A v \in Writers : Running(v)' => ~Reading'
             /\ UNION past' \subseteq EditsIn(fs[Archive])'
             /\ \A v \in Writers : pc'[v] \in Rewriting => UNION past' \subseteq edits'[v]
  <2>1. /\ ~raced /\ \A v \in Writers : Running(v)' => v = w
        /\ ~Reading' /\ UNION past \subseteq EditsIn(fs[Archive])
    BY <1>1, Alone, StageStep DEF SerialInv, Reading
  <2>2. \A v \in Writers : pc'[v] \in Rewriting => Running(v)'
    BY DEF Rewriting, Running, Idle
  <2>3. CASE Persist(w) /\ ~Splits(w)
    <3>1. pc[w] \in Rewriting /\ past' = past \cup {edits[w]} /\ pc'[w] = "ok"
          /\ EditsIn(fs[Archive])' = edits[w]
      BY <2>3, Committed
    <3>2. UNION past \subseteq edits[w]
      BY <2>1, <3>1 DEF SerialInv
    <3>3. \A v \in Writers : pc'[v] \notin Rewriting
      BY <2>1, <2>2, <3>1 DEF Rewriting
    <3> QED
      BY <2>1, <3>1, <3>2, <3>3
  <2>4. CASE ~(Persist(w) /\ ~Splits(w))
    <3>1. past' = past /\ EditsIn(fs[Archive])' = EditsIn(fs[Archive])
      BY <1>1, <2>4, ArchiveKept, EditsKept
    <3>2. ASSUME pc'[w] \in Rewriting PROVE UNION past \subseteq edits'[w]
      <4>1. CASE Start(w)
        <5>1. ~Exists(Archive)
          BY <3>2, <4>1 DEF Start, TypeOK, Rewriting
        <5>2. EditsIn(fs[Archive]) = {}
          BY <5>1 DEF EditsIn, Exists
        <5> QED
          BY <2>1, <5>2
      <4>2. CASE Open(w)
        <5>1. edits'[w] = EditsIn(fs[Archive]) \cup {w}
          BY <4>2 DEF Open, TypeOK
        <5> QED
          BY <2>1, <5>1
      <4>3. CASE pc[w] \in Rewriting /\ edits' = edits
        BY <2>1, <4>3 DEF SerialInv
      <4> QED
        BY <1>1, <3>2, <4>1, <4>2, <4>3 DEF Write, TypeOK, Rewriting, writers, MakeTemp,
           WriteUnit, Filling, Persist, Fail, Kill, FillVolume, RenameVolume, EndVolumes,
           FailVolumes
    <3> QED
      BY <2>1, <2>2, <3>1, <3>2
  <2> QED
    BY <2>3, <2>4
<1>2. CASE StartReader \/ OpenPart \/ EndParts \/ OpenSingle \/ ReadHeader \/ UNCHANGED vars
  <2>1. UNCHANGED <<fs, pc, edits, past>>
    BY <1>2 DEF StartReader, OpenPart, EndParts, OpenSingle, ReadHeader, vars, writers, history
  <2>2. EditsIn(fs[Archive])' = EditsIn(fs[Archive])
    BY <2>1 DEF EditsIn
  <2>3. ~raced
    BY <1>2, ReaderRace
  <2>4. \A w \in Writers : Running(w)' => Running(w)
    BY <2>1 DEF Running
  <2>5. ASSUME NEW w \in Writers, Running(w)' PROVE ~Reading'
    <3>1. ~Reading /\ Running(w)
      BY <2>3, <2>4, <2>5 DEF SerialInv
    <3>2. ~StartReader
      BY <3>1 DEF StartReader
    <3>3. reader' = reader
      BY <1>2, <3>1, <3>2 DEF OpenPart, EndParts, OpenSingle, ReadHeader, vars, Reading
    <3> QED
      BY <3>1, <3>3 DEF Reading
  <2> QED
    BY <2>1, <2>2, <2>3, <2>4, <2>5 DEF SerialInv
<1> QED
  BY <1>1, <1>2 DEF Next

-----------------------------------------------------------------------------
(* Only the rename of a volume changes the volumes. *)
LEMMA VolumesKept ==
  ASSUME TypeOK, NEW w \in Writers, Write(w), ~RenameVolume(w)
  PROVE  /\ UNCHANGED <<volume, offset>>
         /\ \A i \in 1 .. MaxVolumes : fs'[Volume(i)] = fs[Volume(i)]
<1> USE DEF writers, history
<1>a. /\ fs \in [Names -> Content] /\ volume[w] + 1 \in Nat
      /\ \A i \in 1 .. MaxVolumes : i \in Nat /\ Volume(i) \in Names
      /\ \A i \in 1 .. MaxVolumes : /\ Volume(i) # Archive /\ Volume(i) # Temp(w)
                                    /\ Volume(i) # TmpArchive(w)
                                    /\ Volume(i) # VolumeTmp(w, volume[w] + 1)
  <2>1. volume[w] + 1 \in Nat /\ \A i \in 1 .. MaxVolumes : i \in Nat
    BY DEF TypeOK
  <2> QED
    BY <2>1, NamesApart, NamesListed DEF TypeOK
<1>1. CASE Start(w)  BY <1>1 DEF Start
<1>2. CASE Open(w)  BY <1>2 DEF Open
<1>3. CASE MakeTemp(w)  BY <1>3, <1>a DEF MakeTemp
<1>4. CASE WriteUnit(w)  BY <1>4, <1>a DEF WriteUnit
<1>5. CASE Persist(w)  BY <1>5, <1>a DEF Persist, Renamed, Target
<1>6. CASE Fail(w)  BY <1>6, <1>a DEF Fail, Removed
<1>7. CASE Kill(w)  BY <1>7 DEF Kill
<1>8. CASE FillVolume(w)  BY <1>8, <1>a DEF FillVolume
<1>9. CASE EndVolumes(w)  BY <1>9, <1>a DEF EndVolumes, Removed
<1>10. CASE FailVolumes(w)  BY <1>10, <1>a DEF FailVolumes, Removed
<1> QED
  BY <1>1, <1>2, <1>3, <1>4, <1>5, <1>6, <1>7, <1>8, <1>9, <1>10 DEF Write

(* The rename adds the next part of the archive as the next volume. *)
LEMMA VolumeAdded ==
  ASSUME TypeOK, ProcessInv, NEW w \in Writers, RenameVolume(w), NEW n, n = volume[w] + 1
  PROVE  /\ n \in 1 .. MaxVolumes
         /\ pc[w] = "rename" /\ pc'[w] = "split"
         /\ volume' = [volume EXCEPT ![w] = n] /\ volume'[w] = n
         /\ \A v \in Writers : v # w => offset'[v] = offset[v]
         /\ fs'[Volume(n)] \in Seq(Unit) /\ fs'[Volume(n)] # NoFile
         /\ PartOf(w, offset[w], fs'[Volume(n)])
         /\ Len(fs'[Volume(n)]) > 0
         /\ offset'[w] = offset[w] + Len(fs'[Volume(n)])
         /\ \A i \in 1 .. MaxVolumes : i # n => fs'[Volume(i)] = fs[Volume(i)]
<1> DEFINE part == fs[VolumeTmp(w, n)]
<1>1. FilesOf(w) /\ CutOf(w) /\ pc[w] = "rename"
  BY DEF ProcessInv, RenameVolume
<1>2. /\ n \in 1 .. MaxVolumes /\ n \in Nat
      /\ VolumeEnd(w) \in Nat /\ offset[w] < VolumeEnd(w)
  BY <1>1, RenameTypes
<1>3. PartOf(w, offset[w], part) /\ Len(part) = VolumeEnd(w) - offset[w]
  BY <1>1 DEF CutOf
<1>4. Volume(n) # VolumeTmp(w, n) /\ Volume(n) \in Names /\ VolumeTmp(w, n) \in Names
  BY <1>2, NamesApart, NamesListed
<1>5. fs' = [fs EXCEPT ![Volume(n)] = part, ![VolumeTmp(w, n)] = NoFile]
  BY DEF RenameVolume, Renamed
<1>6. fs'[Volume(n)] = part
  BY <1>4, <1>5 DEF TypeOK
<1>7. ASSUME NEW i \in 1 .. MaxVolumes, i # n PROVE fs'[Volume(i)] = fs[Volume(i)]
  <2>1. Volume(i) # Volume(n) /\ Volume(i) # VolumeTmp(w, n) /\ Volume(i) \in Names
    BY <1>2, <1>7, NamesApart, NamesListed
  <2> QED
    BY <1>5, <2>1 DEF TypeOK
<1>8. offset[w] \in Nat /\ part \in Seq(Unit) /\ part # NoFile
  BY <1>3, NoFileIsNoPart DEF PartOf, TypeOK
<1>9. /\ pc'[w] = "split" /\ volume' = [volume EXCEPT ![w] = n] /\ volume'[w] = n
      /\ offset'[w] = VolumeEnd(w) /\ \A v \in Writers : v # w => offset'[v] = offset[v]
  BY DEF RenameVolume, TypeOK
<1>10. Len(part) > 0 /\ VolumeEnd(w) = offset[w] + Len(part)
  BY <1>2, <1>3, <1>8
<1> HIDE DEF part
<1> QED
  BY <1>1, <1>2, <1>3, <1>6, <1>7, <1>8, <1>9, <1>10

LEMMA VolumeUnit ==
  ASSUME TypeOK, NEW i \in 1 .. MaxVolumes, Exists(Volume(i)), NEW k \in 1 .. Len(fs[Volume(i)])
  PROVE  fs[Volume(i)][k] \in Unit /\ fs[Volume(i)][k][1] \in Writers
         /\ fs[Volume(i)][k][2] \in Nat
<1>1. fs[Volume(i)][k] \in Unit
  BY VolumeType
<1> QED
  BY <1>1 DEF Unit

Unstarted == {"idle", "open"} \cup Rewriting

(* A process never takes back that it began to cut volumes. *)
LEMMA StartedStays ==
  ASSUME TypeOK, NEW w \in Writers, Write(w), NEW v \in Writers, pc[v] \notin Unstarted
  PROVE  pc'[v] \notin Unstarted
<1>1. CASE v # w
  BY <1>1, OthersKeep
<1>2. CASE v = w
  BY <1>2 DEF Unstarted, Write, TypeOK, Rewriting, writers, Start, Open, MakeTemp, WriteUnit,
     Filling, Persist, Fail, Kill, FillVolume, RenameVolume, EndVolumes, FailVolumes
<1> QED
  BY <1>1, <1>2

(* Whose units are in the volumes. *)
LEMMA OriginStep == TypeOK /\ ProcessInv /\ OriginInv /\ [Next]_vars => OriginInv'
<1> SUFFICES ASSUME TypeOK, ProcessInv, OriginInv, [Next]_vars,
                    NEW i \in 1 .. MaxVolumes, fs'[Volume(i)] # NoFile,
                    NEW k \in 1 .. Len(fs'[Volume(i)])
             PROVE  /\ volume'[fs'[Volume(i)][k][1]] >= i
                    /\ pc'[fs'[Volume(i)][k][1]] \notin Unstarted
  BY DEF OriginInv, Exists, Unstarted
<1>1. ASSUME fs'[Volume(i)] = fs[Volume(i)], NEW w, w = fs[Volume(i)][k][1]
      PROVE  w \in Writers /\ volume[w] >= i /\ pc[w] \notin Unstarted
  BY <1>1, VolumeUnit DEF OriginInv, Exists, Unstarted
<1>2. ASSUME NEW w \in Writers, RenameVolume(w)
      PROVE  /\ volume'[fs'[Volume(i)][k][1]] >= i
             /\ pc'[fs'[Volume(i)][k][1]] \notin Unstarted
  <2>1. CASE i = volume[w] + 1
    <3>1. PartOf(w, offset[w], fs'[Volume(i)]) /\ volume'[w] = i /\ pc'[w] = "split"
      BY <1>2, <2>1, VolumeAdded
    <3>2. fs'[Volume(i)][k] = <<w, offset[w] + k>>
      BY <3>1 DEF PartOf
    <3>3. fs'[Volume(i)][k][1] = w /\ i >= i
      BY <3>2
    <3>4. "split" \notin Unstarted
      BY DEF Unstarted, Rewriting
    <3> QED
      BY <3>1, <3>3, <3>4
  <2>2. CASE i # volume[w] + 1
    <3> DEFINE v == fs[Volume(i)][k][1]
    <3>1. fs'[Volume(i)] = fs[Volume(i)]
      BY <1>2, <2>2, VolumeAdded
    <3>2. v \in Writers /\ volume[v] >= i /\ pc[v] \notin Unstarted
      BY <1>1, <3>1
    <3>3. volume'[v] >= volume[v] /\ volume'[v] \in Nat /\ volume[v] \in Nat
      <4>1. volume' = [volume EXCEPT ![w] = volume[w] + 1] /\ volume \in [Writers -> Nat]
        BY <1>2 DEF RenameVolume, TypeOK
      <4> QED
        BY <3>2, <4>1
    <3>4. pc'[v] \notin Unstarted
      BY <1>2, <3>2, StartedStays DEF Write
    <3> QED
      BY <3>1, <3>2, <3>3, <3>4
  <2> QED
    BY <2>1, <2>2
<1>3. ASSUME NEW w \in Writers, Write(w), ~RenameVolume(w)
      PROVE  /\ volume'[fs'[Volume(i)][k][1]] >= i
             /\ pc'[fs'[Volume(i)][k][1]] \notin Unstarted
  BY <1>1, <1>3, VolumesKept, StartedStays
<1>4. CASE UNCHANGED <<fs, writers>>
  BY <1>1, <1>4 DEF writers
<1> QED
  BY <1>2, <1>3, <1>4 DEF Next, vars, history, StartReader, OpenPart, EndParts, OpenSingle,
     ReadHeader

-----------------------------------------------------------------------------
LEMMA BeforeKept ==
  ASSUME TypeOK, NEW w \in Writers, CutOf(w), volume'[w] = volume[w], offset'[w] = offset[w],
         \A i \in 1 .. MaxVolumes : fs'[Volume(i)] = fs[Volume(i)]
  PROVE  /\ \A i \in Nat \ {0} : Before(w, i)' = Before(w, i)
         /\ volume[w] \in Nat /\ volume[w] <= MaxVolumes
<1>1. volume[w] \in Nat /\ offset[w] \in Nat /\ volume[w] <= MaxVolumes
  BY ConstantTypes, WriterTypes DEF CutOf
<1>2. \A i \in Nat \ {0} : i <= volume[w] => i \in 1 .. MaxVolumes
  BY <1>1, ConstantTypes
<1> QED
  BY <1>1, <1>2 DEF Before

LEMMA InPlaceKept ==
  ASSUME TypeOK, NEW w \in Writers, CutOf(w), volume'[w] = volume[w], offset'[w] = offset[w],
         \A i \in 1 .. MaxVolumes : fs'[Volume(i)] = fs[Volume(i)], InPlace(w)
  PROVE  InPlace(w)'
<1>1. /\ \A i \in Nat \ {0} : Before(w, i)' = Before(w, i)
      /\ volume[w] \in Nat /\ volume[w] <= MaxVolumes
  BY BeforeKept
<1>2. \A i \in 1 .. volume[w] : /\ i \in Nat \ {0} /\ i + 1 \in Nat \ {0}
                                /\ fs'[Volume(i)] = fs[Volume(i)]
  BY <1>1, ConstantTypes
<1> QED
  BY <1>1, <1>2 DEF InPlace, Exists

(* What a volume that is all one part begins with. *)
LEMMA PartBegins ==
  ASSUME NEW w \in Writers, NEW a \in Nat, NEW file, PartOf(w, a, file), file # <<>>
  PROVE  file[1] = <<w, a + 1>> /\ file[1][1] = w /\ file[1][2] - 1 = a /\ Len(file) > 0
<1>1. Len(file) \in Nat /\ Len(file) > 0
  BY DEF PartOf
<1>2. file[1] = <<w, a + 1>>
  BY <1>1 DEF PartOf
<1> QED
  BY <1>1, <1>2

LEMMA InPlaceGrows ==
  ASSUME TypeOK, ProcessInv, NEW w \in Writers, RenameVolume(w),
         volume[w] > 0 => InPlace(w) /\ Owns(w), NEW n, n = volume[w] + 1
  PROVE  InPlace(w)' /\ Owns(w)'
<1> DEFINE part == fs'[Volume(n)]
<1>1. /\ n \in 1 .. MaxVolumes /\ volume'[w] = n /\ part # NoFile /\ part \in Seq(Unit)
      /\ PartOf(w, offset[w], part) /\ Len(part) > 0
      /\ offset'[w] = offset[w] + Len(part)
      /\ \A i \in 1 .. MaxVolumes : i # n => fs'[Volume(i)] = fs[Volume(i)]
  BY VolumeAdded
<1>2. volume[w] \in Nat /\ offset[w] \in Nat /\ (volume[w] = 0 => offset[w] = 0)
  BY WriterTypes DEF ProcessInv, CutOf
<1>3. part # <<>> /\ part[1][1] = w /\ part[1][2] - 1 = offset[w]
  <2>1. part # <<>>
    BY <1>1
  <2> QED
    BY <1>1, <1>2, <2>1, PartBegins
<1> HIDE DEF part
<1>4. Before(w, n)' = offset[w] /\ Before(w, n + 1)' = offset[w] + Len(part)
  <2>1. ~(n > volume'[w]) /\ n + 1 > volume'[w]
    BY <1>1, <1>2
  <2>2. Before(w, n)' = part[1][2] - 1
    BY <2>1 DEF Before, part
  <2>3. Before(w, n + 1)' = offset'[w]
    BY <2>1 DEF Before
  <2> QED
    BY <1>1, <1>3, <2>2, <2>3
<1>5. \A i \in 1 .. volume[w] : /\ Before(w, i)' = Before(w, i)
                                /\ fs'[Volume(i)] = fs[Volume(i)]
                                /\ i \in 1 .. MaxVolumes
  BY <1>1, <1>2, ConstantTypes DEF Before
<1>6. Before(w, n) = offset[w]
  BY <1>2 DEF Before
<1>7. Owns(w)' /\ Before(w, 1)' = 0
  <2>1. CASE volume[w] = 0
    <3>1. n = 1
      BY <2>1
    <3> QED
      BY <1>1, <1>2, <1>3, <1>4, <2>1, <3>1 DEF Owns, Exists, part
  <2>2. CASE volume[w] > 0
    <3>1. 1 \in 1 .. volume[w]
      BY <1>2, <2>2
    <3> QED
      BY <1>5, <2>2, <3>1 DEF Owns, Exists, InPlace
  <2> QED
    BY <1>2, <2>1, <2>2
<1>8. ASSUME NEW i \in 1 .. n
      PROVE  /\ Exists(Volume(i))' /\ fs'[Volume(i)] # <<>>
             /\ PartOf(w, Before(w, i)', fs'[Volume(i)])
             /\ Before(w, i + 1)' = Before(w, i)' + Len(fs'[Volume(i)])
  <2>1. CASE i = n
    BY <1>1, <1>3, <1>4, <2>1 DEF Exists, part
  <2>2. CASE i < n
    <3>1. i \in 1 .. volume[w] /\ volume[w] > 0
      BY <1>2, <2>2
    <3>2. InPlace(w)
      BY <3>1
    <3>3. /\ Exists(Volume(i)) /\ fs[Volume(i)] # <<>> /\ PartOf(w, Before(w, i), fs[Volume(i)])
          /\ Before(w, i + 1) = Before(w, i) + Len(fs[Volume(i)])
      BY <3>1, <3>2 DEF InPlace
    <3>4. Before(w, i + 1)' = Before(w, i + 1)
      <4>1. CASE i = volume[w]
        BY <1>4, <1>6, <4>1
      <4>2. CASE i < volume[w]
        <5>1. i + 1 \in 1 .. volume[w]
          BY <1>2, <4>2
        <5> QED
          BY <1>5, <5>1
      <4> QED
        BY <1>2, <3>1, <4>1, <4>2
    <3> QED
      BY <1>5, <3>1, <3>3, <3>4 DEF Exists
  <2> QED
    BY <1>2, <2>1, <2>2
<1> QED
  BY <1>1, <1>7, <1>8 DEF InPlace

(* Whose volumes are in place. *)
LEMMA OwnerStep ==
  TypeOK /\ ProcessInv /\ SerialInv /\ OwnerInv /\ [Next]_vars => OwnerInv'
<1> SUFFICES ASSUME TypeOK, ProcessInv, SerialInv, OwnerInv, [Next]_vars, ~raced'
             PROVE  OwnerInv'
  BY DEF OwnerInv
<1>1. ASSUME ~raced, UNCHANGED <<volume, offset>>,
             \A i \in 1 .. MaxVolumes : fs'[Volume(i)] = fs[Volume(i)],
             \A v \in Writers : Running(v)' /\ volume[v] > 0 => Running(v)
      PROVE  OwnerInv'
  <2>1. fs'[Volume(1)] = fs[Volume(1)] /\ \A v \in Writers : Owns(v)' <=> Owns(v)
    BY <1>1, ConstantTypes DEF Owns, Exists
  <2>2. \A v \in Writers : InPlace(v) => InPlace(v)'
    BY <1>1, InPlaceKept DEF ProcessInv
  <2> QED
    BY <1>1, <2>1, <2>2 DEF OwnerInv, Exists
<1>2. ASSUME NEW w \in Writers, RenameVolume(w) PROVE OwnerInv'
  <2>0. Write(w)
    BY <1>2 DEF Write
  <2>1. ~raced /\ \A v \in Writers : Running(v)' => v = w
    BY <2>0, Alone
  <2>2. Running(w)
    BY <1>2 DEF RenameVolume, Running, Idle
  <2>3. volume[w] > 0 => Owns(w) /\ InPlace(w)
    BY <2>1, <2>2 DEF OwnerInv
  <2>4. InPlace(w)' /\ Owns(w)'
    BY <1>2, <2>3, InPlaceGrows
  <2>5. volume'[w] \in Nat /\ volume'[w] >= 1
    BY <1>2, WriterTypes DEF RenameVolume, TypeOK
  <2>6. fs'[Volume(1)] # <<>>
    BY <2>4, <2>5 DEF InPlace
  <2>7. \A v \in Writers : Owns(v)' => v = w
    BY <2>4 DEF Owns
  <2> QED
    BY <2>1, <2>4, <2>6, <2>7 DEF OwnerInv
<1>3. ASSUME NEW w \in Writers, Write(w), ~RenameVolume(w) PROVE OwnerInv'
  <2>1. /\ UNCHANGED <<volume, offset>>
        /\ \A i \in 1 .. MaxVolumes : fs'[Volume(i)] = fs[Volume(i)]
    BY <1>3, VolumesKept
  <2>2. Start(w) => volume[w] = 0
    BY DEF Start, ProcessInv, CutOf
  <2>3. \A v \in Writers : Running(v)' /\ volume[v] > 0 => Running(v)
    BY <1>3, <2>2, StageStep
  <2> QED
    BY <1>1, <1>3, <2>1, <2>3, StageStep
<1>4. CASE StartReader \/ OpenPart \/ EndParts \/ OpenSingle \/ ReadHeader \/ UNCHANGED vars
  <2>1. UNCHANGED <<fs, pc, volume, offset>>
    BY <1>4 DEF StartReader, OpenPart, EndParts, OpenSingle, ReadHeader, vars, writers
  <2>2. ~raced
    BY <1>4, ReaderRace
  <2> QED
    BY <1>1, <2>1, <2>2 DEF Running
<1> QED
  BY <1>2, <1>3, <1>4 DEF Next

-----------------------------------------------------------------------------
Finished == {"ok", "failed", "killed"}

LEMMA ReadUnit ==
  ASSUME TypeOK, NEW k \in 1 .. Len(reader.units)
  PROVE  reader.units[k] \in Unit /\ reader.units[k][1] \in Writers
<1>1. reader.units[k] \in Unit
  BY ReaderTypes
<1> QED
  BY <1>1 DEF Unit

(* A process that ended does nothing more. *)
LEMMA FinishedStays ==
  ASSUME TypeOK, NEW w \in Writers, Write(w), NEW v \in Writers, pc[v] \in Finished
  PROVE  pc'[v] = pc[v] /\ v # w
<1>1. v # w
  BY DEF Finished, Write, Start, Open, MakeTemp, WriteUnit, Filling, Persist, Fail, Kill,
     FillVolume, RenameVolume, EndVolumes, FailVolumes, Running, Idle
<1> QED
  BY <1>1, OthersKeep

(* While a reader reads, the processes whose units are in the volumes ended. *)
LEMMA VolumeFinished ==
  ASSUME TypeOK, SerialInv, OriginInv, ~raced, Reading, NEW i \in 1 .. MaxVolumes,
         Exists(Volume(i)), NEW k \in 1 .. Len(fs[Volume(i)])
  PROVE  pc[fs[Volume(i)][k][1]] \in Finished /\ volume[fs[Volume(i)][k][1]] >= i
<1> DEFINE w == fs[Volume(i)][k][1]
<1>1. w \in Writers
  BY VolumeUnit
<1>2. pc[w] \notin Unstarted /\ volume[w] >= i
  BY DEF OriginInv, Unstarted
<1>3. pc[w] \in Idle
  BY <1>1 DEF SerialInv, Running
<1> QED
  BY <1>2, <1>3 DEF Idle, Finished, Unstarted

(* Two sequences one after the other. *)
LEMMA Joined ==
  ASSUME NEW u \in Seq(Unit), NEW more \in Seq(Unit), NEW all, all = u \o more
  PROVE  /\ all \in Seq(Unit) /\ Len(all) = Len(u) + Len(more)
         /\ Len(u) \in Nat /\ Len(more) \in Nat
         /\ \A k \in 1 .. Len(u) : all[k] = u[k]
         /\ \A k \in 1 .. Len(more) : all[Len(u) + k] = more[k]
         /\ \A k \in 1 .. Len(all) :
              k \in 1 .. Len(u) \/ \E j \in 1 .. Len(more) : k = Len(u) + j
<1>1. all \in Seq(Unit) /\ Len(all) = Len(u) + Len(more) /\ Len(u) \in Nat /\ Len(more) \in Nat
  OBVIOUS
<1>2. \A k \in 1 .. Len(u) : all[k] = u[k]
  OBVIOUS
<1>3. \A k \in 1 .. Len(more) : all[Len(u) + k] = more[k]
  OBVIOUS
<1>4. ASSUME NEW k \in 1 .. Len(all), k \notin 1 .. Len(u)
      PROVE  \E j \in 1 .. Len(more) : k = Len(u) + j
  <2>1. k - Len(u) \in 1 .. Len(more) /\ k = Len(u) + (k - Len(u))
    BY <1>1, <1>4
  <2> QED
    BY <2>1
<1> QED
  BY <1>1, <1>2, <1>3, <1>4

(* A volume read after the others. *)
LEMMA ReadMore ==
  ASSUME NEW u \in Seq(Unit), NEW w \in Writers, HasRead(u, w, Len(u)),
         NEW more \in Seq(Unit), PartOf(w, Len(u), more), NEW all, all = u \o more
  PROVE  HasRead(all, w, Len(all)) /\ Len(all) = Len(u) + Len(more)
<1>1. ASSUME NEW k \in 1 .. Len(all) PROVE all[k] = <<w, k>>
  <2>1. CASE k \in 1 .. Len(u)
    BY <2>1, Joined DEF HasRead
  <2>2. CASE \E j \in 1 .. Len(more) : k = Len(u) + j
    BY <2>2, Joined DEF PartOf
  <2>3. k \in 1 .. Len(u) \/ \E j \in 1 .. Len(more) : k = Len(u) + j
    <3>1. Len(all) = Len(u) + Len(more) /\ Len(u) \in Nat /\ Len(more) \in Nat
      BY Joined
    <3>2. k \in 1 .. Len(u) \/ k - Len(u) \in 1 .. Len(more)
      BY <3>1
    <3> QED
      BY <3>1, <3>2
  <2> QED
    BY <2>1, <2>2, <2>3, Zenon
<1>2. Len(all) = Len(u) + Len(more) /\ Len(all) \in Nat
  BY Joined
<1>3. HasRead(all, w, Len(all))
  <2>1. Len(all) >= Len(all) /\ Len(all) + 1 .. Len(all) = {}
    BY <1>2
  <2>2. \A k \in 1 .. Len(all) : all[k] = <<w, k>>
    BY <1>1
  <2> QED
    BY <2>1, <2>2 DEF HasRead
<1> QED
  BY <1>2, <1>3

LEMMA ReadOther ==
  ASSUME NEW u \in Seq(Unit), NEW w \in Writers, NEW n \in Nat, HasRead(u, w, n),
         NEW more \in Seq(Unit), \A k \in 1 .. Len(more) : more[k][1] # w,
         NEW all, all = u \o more
  PROVE  HasRead(all, w, n)
<1>1. /\ Len(u) \in Nat /\ Len(more) \in Nat /\ Len(all) = Len(u) + Len(more) /\ Len(u) >= n
      /\ \A k \in 1 .. n : u[k] = <<w, k>>
  BY Joined DEF HasRead
<1>2. \A k \in 1 .. n : all[k] = <<w, k>>
  <2> SUFFICES ASSUME NEW k \in 1 .. n PROVE all[k] = <<w, k>>
    OBVIOUS
  <2>1. k \in 1 .. Len(u)
    BY <1>1
  <2> QED
    BY <1>1, <2>1, Joined
<1>3. ASSUME NEW k \in n + 1 .. Len(all) PROVE all[k][1] # w
  <2>1. CASE k \in 1 .. Len(u)
    <3>1. k \in n + 1 .. Len(u) /\ all[k] = u[k]
      BY <1>1, <2>1, Joined
    <3> QED
      BY <3>1 DEF HasRead
  <2>2. CASE \E j \in 1 .. Len(more) : k = Len(u) + j
    BY <2>2, Joined
  <2>3. k \in 1 .. Len(all)
    BY <1>1
  <2> QED
    BY <2>1, <2>2, <2>3, Joined
<1> QED
  BY <1>1, <1>2, <1>3 DEF HasRead

(* A step of a process does not disturb what was read before it started. *)
LEMMA ReaderUndisturbed ==
  ASSUME TypeOK, SerialInv, ReaderInv, NEW w \in Writers, Write(w)
  PROVE  ReaderInv'
<1> SUFFICES ASSUME ~raced' PROVE ReaderInv'
  BY DEF ReaderInv
<1>1. ~raced /\ ~Reading /\ reader' = reader
  BY Alone, StageStep
<1>2. reader.pc \notin {"volumes", "single", "header"}
  BY <1>1 DEF Reading
<1>3. ASSUME NEW k \in 1 .. Len(reader.units)
      PROVE  pc'[reader.units[k][1]] \in Finished /\ reader.units[k][1] # w
             /\ reader.units[k][1] \in Writers
  <2>1. pc[reader.units[k][1]] \in Finished /\ reader.units[k][1] \in Writers
    BY <1>1, ReadUnit DEF ReaderInv, Finished
  <2> QED
    BY <2>1, FinishedStays
<1>4. OpenedVolumesAreOneArchive'
  <2>1. OpenedVolumesAreOneArchive
    BY <1>1 DEF ReaderInv
  <2> QED
    BY <1>1, <2>1 DEF OpenedVolumesAreOneArchive
<1>5. WrittenVolumesOpen'
  <2> SUFFICES ASSUME reader.units # <<>>, reader.units[1][1] = intact'
               PROVE  reader.result # "error"
    BY <1>1 DEF WrittenVolumesOpen
  <2>1. 1 \in 1 .. Len(reader.units)
    BY ReaderTypes
  <2>2. intact = reader.units[1][1]
    BY <1>3, <2>1, OthersKeep
  <2> QED
    BY <1>1, <2>2 DEF ReaderInv, WrittenVolumesOpen
<1> QED
  BY <1>1, <1>2, <1>3, <1>4, <1>5 DEF ReaderInv, Finished

(* The owner of the first volume, if there is one. *)
LEMMA OwnerExists ==
  ASSUME TypeOK, OwnerInv, OriginInv, ProcessInv, ~raced, Exists(Volume(1))
  PROVE  \E w \in Writers : /\ Owns(w) /\ InPlace(w)
                            /\ volume[w] \in Nat /\ volume[w] >= 1 /\ volume[w] <= MaxVolumes
                            /\ offset[w] \in Nat /\ offset[w] >= 1
<1> DEFINE w == fs[Volume(1)][1][1]
<1>1. 1 \in 1 .. MaxVolumes /\ fs[Volume(1)] \in Seq(Unit) /\ fs[Volume(1)] # <<>>
  BY ConstantTypes, VolumeType DEF OwnerInv
<1>2. 1 \in 1 .. Len(fs[Volume(1)])
  BY <1>1
<1>3. w \in Writers /\ volume[w] >= 1
  BY <1>1, <1>2, VolumeUnit DEF OriginInv
<1>4. Owns(w) /\ InPlace(w)
  BY <1>3 DEF Owns, OwnerInv
<1>5. volume[w] \in Nat /\ offset[w] \in Nat /\ volume[w] <= offset[w] /\ offset[w] <= Size[w]
      /\ Size[w] <= MaxVolumes /\ Size[w] \in Nat
  BY <1>3, WriterTypes, ConstantTypes DEF ProcessInv, CutOf
<1> QED
  BY <1>3, <1>4, <1>5, ConstantTypes

LEMMA StartReaderStep ==
  ASSUME TypeOK, OwnerInv, ReaderInv, StartReader, ~raced, ~raced'
  PROVE  ReaderInv'
<1>1. /\ reader.pc = "idle" /\ UNCHANGED <<fs, pc, volume, offset, intact>>
      /\ reader' = [reader EXCEPT !.pc = "volumes"] /\ reader \in Reader
  BY DEF StartReader, writers, TypeOK
<1>2. /\ reader'.pc = "volumes" /\ reader'.parts = reader.parts /\ reader'.units = reader.units
      /\ reader'.result = reader.result
  BY <1>1 DEF Reader
<1>3. reader.parts = 0 /\ reader.units = <<>> /\ reader.result = "none"
  BY <1>1 DEF ReaderInv
<1>4. AtVolumes'
  <2> SUFFICES ASSUME NEW w \in Writers, Owns(w)
               PROVE  /\ HasRead(<<>>, w, Before(w, 0 + 1)) /\ Len(<<>>) = Before(w, 0 + 1)
    BY <1>1, <1>2, <1>3 DEF AtVolumes, Owns, Exists, Before
  <2>1. Before(w, 1) = 0
    BY DEF OwnerInv, InPlace
  <2>2. HasRead(<<>>, w, 0)
    BY DEF HasRead
  <2> QED
    BY <2>1, <2>2
<1> QED
  BY <1>2, <1>3, <1>4 DEF ReaderInv, OpenedVolumesAreOneArchive, WrittenVolumesOpen

(* A reader that ends with an error for another reason than the header. *)
LEMMA EndedStep ==
  ASSUME TypeOK, ReaderInv, ~raced, NEW why, UNCHANGED pc, reader' = Ended(why),
         why = "limit" \/ (why = "error" /\ reader.units = <<>>)
  PROVE  ReaderInv'
<1>1. reader'.pc = "done" /\ reader'.units = reader.units /\ reader'.result = why
  BY DEF Ended, TypeOK, Reader
<1> QED
  BY <1>1 DEF ReaderInv, OpenedVolumesAreOneArchive, WrittenVolumesOpen

LEMMA OpenPartStep ==
  ASSUME TypeOK, ProcessInv, SerialInv, OriginInv, OwnerInv, ReaderInv, OpenPart, ~raced
  PROVE  ReaderInv'
<1> DEFINE n == reader.parts + 1
           more == fs[Volume(n)]
<1>1. /\ reader.pc = "volumes" /\ reader \in Reader /\ n <= MaxVolumes /\ Exists(Volume(n))
      /\ UNCHANGED <<fs, pc, edits, volume, offset, raced, intact>>
  BY DEF OpenPart, MorePart, NextPart, writers, history, TypeOK
<1>2. n \in 1 .. MaxVolumes /\ n \in Nat /\ reader.parts \in Nat
  BY <1>1, ConstantTypes, ReaderTypes
<1>3. more \in Seq(Unit) /\ reader.units \in Seq(Unit)
  BY <1>1, <1>2, VolumeType, ReaderTypes
<1>4. CASE reader' = Ended("limit")
  BY <1>1, <1>4, EndedStep
<1>5. CASE reader' = [reader EXCEPT !.parts = @ + 1, !.open = @ + 1, !.units = @ \o more]
  <2>1. /\ reader'.pc = "volumes" /\ reader'.result = "none" /\ reader'.parts = n
        /\ reader'.units = reader.units \o more
    BY <1>1, <1>3, <1>5, ReaderOpens DEF ReaderInv
  <2>2. Reading /\ AtVolumes
    BY <1>1 DEF Reading, ReaderInv
  <2> HIDE DEF n, more
  <2>3. ASSUME NEW k \in 1 .. Len(reader'.units) PROVE pc'[reader'.units[k][1]] \in Finished
    <3>1. CASE k \in 1 .. Len(reader.units)
      <4>1. reader'.units[k] = reader.units[k]
        BY <1>3, <2>1, <3>1, Joined
      <4> QED
        BY <1>1, <3>1, <4>1 DEF ReaderInv, Finished
    <3>2. CASE \E j \in 1 .. Len(more) : k = Len(reader.units) + j
      <4>1. PICK j \in 1 .. Len(more) : reader'.units[k] = more[j]
        BY <1>3, <2>1, <3>2, Joined
      <4>2. pc[more[j][1]] \in Finished
        BY <1>1, <1>2, <2>2, VolumeFinished DEF more
      <4> QED
        BY <1>1, <4>1, <4>2
    <3>3. k \in 1 .. Len(reader.units) \/ \E j \in 1 .. Len(more) : k = Len(reader.units) + j
      <4>1. Len(reader'.units) = Len(reader.units) + Len(more)
            /\ Len(reader.units) \in Nat /\ Len(more) \in Nat
        BY <1>3, <2>1, Joined
      <4>2. k \in 1 .. Len(reader.units)
            \/ (k - Len(reader.units) \in 1 .. Len(more)
                /\ k = Len(reader.units) + (k - Len(reader.units)))
        BY <4>1
      <4> QED
        BY <4>2, Zenon
    <3> QED
      BY <3>1, <3>2, <3>3
  <2>4. Exists(Volume(1))' /\ n # 0
    <3>1. CASE reader.parts = 0
      BY <1>1, <3>1 DEF n, Exists
    <3>2. CASE reader.parts # 0
      BY <1>1, <1>2, <2>2, <3>2 DEF AtVolumes, Exists, n
    <3> QED
      BY <3>1, <3>2
  <2>5. ASSUME NEW w \in Writers, Owns(w)
        PROVE  /\ HasRead(reader'.units, w, Before(w, n + 1))
               /\ n <= volume[w] => Len(reader'.units) = Before(w, n + 1)
    <3>1. /\ HasRead(reader.units, w, Before(w, n))
          /\ reader.parts <= volume[w] => Len(reader.units) = Before(w, n)
      BY <2>2, <2>5 DEF AtVolumes, n
    <3>2. InPlace(w) /\ volume[w] \in Nat /\ offset[w] \in Nat
      BY <2>5, WriterTypes DEF OwnerInv
    <3>3. CASE n <= volume[w]
      <4>1. PartOf(w, Before(w, n), more) /\ Before(w, n + 1) = Before(w, n) + Len(more)
        BY <1>2, <3>2, <3>3 DEF InPlace, more
      <4>2. Len(reader.units) = Before(w, n)
        BY <1>2, <3>1, <3>2, <3>3 DEF n
      <4>3. HasRead(reader.units, w, Len(reader.units)) /\ PartOf(w, Len(reader.units), more)
        BY <3>1, <4>1, <4>2
      <4>4. /\ HasRead(reader'.units, w, Len(reader'.units))
            /\ Len(reader'.units) = Len(reader.units) + Len(more)
        BY <1>3, <2>1, <4>3, ReadMore
      <4> QED
        BY <4>1, <4>2, <4>4
    <3>4. CASE ~(n <= volume[w])
      <4>1. Before(w, n) = offset[w] /\ Before(w, n + 1) = offset[w]
        BY <1>2, <3>2, <3>4 DEF Before
      <4>2. \A k \in 1 .. Len(more) : more[k][1] # w
        <5> SUFFICES ASSUME NEW k \in 1 .. Len(more), more[k][1] = w PROVE FALSE
          OBVIOUS
        <5>1. volume[w] >= n
          BY <1>1, <1>2, <2>2, VolumeFinished DEF more
        <5> QED
          BY <1>2, <3>2, <3>4, <5>1
      <4> QED
        BY <1>3, <2>1, <3>1, <3>2, <3>4, <4>1, <4>2, ReadOther
    <3> QED
      BY <3>3, <3>4
  <2>6. AtVolumes'
    <3>1. \A w \in Writers : /\ Owns(w)' <=> Owns(w)
                             /\ \A i \in Nat : Before(w, i)' = Before(w, i)
      BY <1>1 DEF Owns, Exists, Before
    <3>2. n + 1 \in Nat
      BY <1>2
    <3> QED
      BY <1>1, <2>1, <2>4, <2>5, <3>1, <3>2 DEF AtVolumes
  <2> QED
    BY <1>1, <2>1, <2>3, <2>6 DEF ReaderInv, Finished, OpenedVolumesAreOneArchive,
       WrittenVolumesOpen
<1> QED
  BY <1>4, <1>5 DEF OpenPart, NextPart

LEMMA EndPartsStep ==
  ASSUME TypeOK, ProcessInv, OriginInv, OwnerInv, ReaderInv, EndParts, ~raced
  PROVE  ReaderInv'
<1> DEFINE n == reader.parts + 1
<1>1. /\ reader.pc = "volumes" /\ reader \in Reader /\ reader.result = "none"
      /\ ~(n <= MaxVolumes /\ Exists(Volume(n)))
      /\ UNCHANGED <<fs, pc, edits, volume, offset, raced, intact>>
  BY DEF EndParts, MorePart, NextPart, writers, history, TypeOK, ReaderInv
<1>2. n \in Nat /\ n >= 1 /\ reader.parts \in Nat /\ MaxVolumes \in Nat /\ MaxVolumes >= 1
      /\ AtVolumes
  BY <1>1, ConstantTypes, ReaderTypes DEF ReaderInv
<1> HIDE DEF n
<1>3. ASSUME NEW w \in Writers, Owns(w)
      PROVE  n > volume[w] /\ volume[w] \in Nat
  <2>1. InPlace(w) /\ volume[w] \in Nat /\ volume[w] <= MaxVolumes
    BY <1>3, WriterTypes, ConstantTypes DEF OwnerInv, ProcessInv, CutOf
  <2>2. CASE n <= volume[w]
    <3>1. n \in 1 .. volume[w] /\ n <= MaxVolumes
      BY <1>2, <2>1, <2>2
    <3>2. Exists(Volume(n))
      BY <2>1, <3>1 DEF InPlace
    <3> QED
      BY <1>1, <3>1, <3>2
  <2> QED
    BY <1>2, <2>1, <2>2
<1>4. CASE reader.parts > 1
  <2>1. reader' = [reader EXCEPT !.pc = "header"]
    BY <1>4 DEF EndParts
  <2>2. reader'.pc = "header" /\ reader'.result = "none" /\ reader'.units = reader.units
    BY <1>1, <2>1 DEF Reader
  <2>3. Exists(Volume(1))
    BY <1>2, <1>4 DEF AtVolumes
  <2>4. PICK w \in Writers : Owns(w) /\ offset[w] \in Nat /\ offset[w] >= 1
    BY <2>3, OwnerExists
  <2>5. HasRead(reader.units, w, Before(w, n)) /\ Before(w, n) = offset[w]
    BY <1>2, <1>3, <2>4 DEF AtVolumes, Before, n
  <2>6. AtHeader'
    BY <1>1, <2>2, <2>4, <2>5 DEF AtHeader
  <2> QED
    BY <1>1, <2>2, <2>6 DEF ReaderInv, OpenedVolumesAreOneArchive, WrittenVolumesOpen
<1>5. CASE ~(reader.parts > 1)
  <2>1. reader' = [reader EXCEPT !.pc = "single", !.parts = 0, !.units = <<>>,
                                 !.open = IF @ > 0 THEN @ - 1 ELSE 0]
    BY <1>5 DEF EndParts
  <2>2. reader'.pc = "single" /\ reader'.result = "none" /\ reader'.units = <<>>
    BY <1>1, <2>1, ReaderRetries
  <2>3. ASSUME NEW w \in Writers, Owns(w) PROVE volume[w] = 1
    <3>1. volume[w] < n
      BY <1>2, <1>3, <2>3
    <3>2. volume[w] >= 1
      <4>1. PICK v \in Writers : Owns(v) /\ volume[v] >= 1
        BY <2>3, OwnerExists DEF Owns
      <4> QED
        BY <2>3, <4>1 DEF Owns
    <3> QED
      BY <1>2, <1>3, <1>5, <2>3, <3>1, <3>2 DEF n
  <2>4. AtSingle'
    BY <1>1, <2>2, <2>3 DEF AtSingle, Owns, Exists
  <2> QED
    BY <1>1, <2>2, <2>4 DEF ReaderInv, OpenedVolumesAreOneArchive, WrittenVolumesOpen
<1> QED
  BY <1>4, <1>5

LEMMA OpenSingleStep ==
  ASSUME TypeOK, ProcessInv, SerialInv, OriginInv, OwnerInv, ReaderInv, OpenSingle, ~raced
  PROVE  ReaderInv'
<1> DEFINE file == fs[Volume(1)]
<1>1. /\ reader.pc = "single" /\ reader \in Reader /\ reader.result = "none" /\ AtSingle
      /\ UNCHANGED <<fs, pc, edits, volume, offset, raced, intact>>
  BY DEF OpenSingle, writers, history, TypeOK, ReaderInv
<1>2. CASE ~Exists(Volume(1))
  BY <1>1, <1>2, EndedStep DEF OpenSingle, AtSingle
<1>3. CASE Exists(Volume(1))
  <2>1. 1 \in 1 .. MaxVolumes /\ file \in Seq(Unit)
    BY <1>3, VolumeType, ConstantTypes
  <2>2. reader'.pc = "header" /\ reader'.result = "none" /\ reader'.units = file
    BY <1>1, <1>3, <2>1, ReaderSingle DEF OpenSingle
  <2>3. PICK w \in Writers : Owns(w) /\ InPlace(w) /\ offset[w] \in Nat /\ offset[w] >= 1
    BY <1>3, OwnerExists
  <2>4. volume[w] = 1
    BY <1>1, <2>3 DEF AtSingle
  <2>5. /\ Before(w, 1) = 0 /\ PartOf(w, Before(w, 1), file)
        /\ Before(w, 1 + 1) = Before(w, 1) + Len(file)
    BY <2>3, <2>4 DEF InPlace
  <2>6. Before(w, 1 + 1) = offset[w]
    BY <2>4 DEF Before
  <2>7. PartOf(w, 0, file) /\ Len(file) = offset[w]
    <3>1. Len(file) \in Nat
      BY <2>1
    <3> QED
      BY <2>5, <2>6, <3>1
  <2>8. HasRead(file, w, offset[w])
    BY <2>3, <2>7 DEF HasRead, PartOf
  <2>9. AtHeader'
    BY <1>1, <2>2, <2>3, <2>8 DEF AtHeader
  <2>10. Reading
    BY <1>1 DEF Reading
  <2>11. \A k \in 1 .. Len(file) : pc[file[k][1]] \in Finished
    BY <1>3, <2>1, <2>10, VolumeFinished
  <2> QED
    BY <1>1, <2>2, <2>9, <2>11 DEF ReaderInv, Finished, OpenedVolumesAreOneArchive,
       WrittenVolumesOpen
<1> QED
  BY <1>2, <1>3

(* The header is accepted only behind all the units before it. *)
LEMMA ReadHeaderStep ==
  ASSUME TypeOK, ProcessInv, ReaderInv, ReadHeader, ~raced
  PROVE  ReaderInv'
<1> DEFINE units == reader.units
<1>1. /\ reader.pc = "header" /\ reader \in Reader /\ AtHeader
      /\ UNCHANGED <<fs, pc, edits, volume, offset, raced, intact>>
  BY DEF ReadHeader, writers, history, TypeOK, ReaderInv
<1>2. PICK w \in Writers : offset[w] > 0 /\ HasRead(units, w, offset[w])
  BY <1>1 DEF AtHeader
<1>3. /\ offset[w] \in Nat /\ Size[w] \in Nat /\ Size[w] > 0 /\ units \in Seq(Unit)
      /\ Len(units) \in Nat
  BY WriterTypes, ConstantTypes, ReaderTypes
<1>4. /\ reader'.pc = "done" /\ reader'.units = units
      /\ reader'.result = IF Accepts(units) THEN "ok" ELSE "error"
  BY <1>1 DEF ReadHeader, Ended, Reader
<1> HIDE DEF units
<1>5. Len(units) >= offset[w] /\ 1 \in 1 .. offset[w] /\ units[1] = <<w, 1>>
  BY <1>2, <1>3 DEF HasRead
<1>6. units[1][1] = w /\ units[1][2] = 1
  BY <1>5
<1>7. ASSUME Accepts(units) PROVE \A k \in 1 .. Size[w] : k \in DOMAIN units /\ units[k] = <<w, k>>
  <2>1. Len(units) >= Size[w] /\ units[Size[w]] = <<w, Size[w]>>
    BY <1>6, <1>7 DEF Accepts
  <2>2. units[Size[w]][1] = w
    BY <2>1
  <2>3. Size[w] <= offset[w]
    BY <1>2, <1>3, <2>1, <2>2 DEF HasRead
  <2> QED
    BY <1>2, <1>3, <2>1, <2>3 DEF HasRead
<1>8. ASSUME intact = w PROVE Accepts(units)
  <2>1. offset[w] = Size[w]
    BY <1>8 DEF ProcessInv, CutOf
  <2>2. Len(units) >= Size[w] /\ units[Size[w]] = <<w, Size[w]>>
    BY <1>2, <1>3, <2>1 DEF HasRead
  <2> QED
    BY <1>3, <1>5, <1>6, <2>2 DEF Accepts
<1>9. OpenedVolumesAreOneArchive'
  BY <1>4, <1>6, <1>7 DEF OpenedVolumesAreOneArchive
<1>10. WrittenVolumesOpen'
  BY <1>1, <1>4, <1>6, <1>8 DEF WrittenVolumesOpen
<1> QED
  BY <1>1, <1>4, <1>9, <1>10 DEF ReaderInv, units

(* What the program that opens the volumes has read. *)
LEMMA ReaderStep == IInv /\ [Next]_vars => ReaderInv'
<1> SUFFICES ASSUME TypeOK, ProcessInv, SerialInv, OriginInv, OwnerInv, ReaderInv, [Next]_vars,
                    ~raced'
             PROVE  ReaderInv'
  BY DEF IInv, ReaderInv
<1>1. ASSUME NEW w \in Writers, Write(w) PROVE ReaderInv'
  BY <1>1, ReaderUndisturbed
<1>2. CASE StartReader  BY <1>2, ReaderRace, StartReaderStep
<1>3. CASE OpenPart  BY <1>3, ReaderRace, OpenPartStep
<1>4. CASE EndParts  BY <1>4, ReaderRace, EndPartsStep
<1>5. CASE OpenSingle  BY <1>5, ReaderRace, OpenSingleStep
<1>6. CASE ReadHeader  BY <1>6, ReaderRace, ReadHeaderStep
<1>7. CASE UNCHANGED vars
  BY <1>7 DEF vars, writers, history, ReaderInv, AtVolumes, AtSingle, AtHeader, Owns, Exists,
     Before, OpenedVolumesAreOneArchive, WrittenVolumesOpen
<1> QED
  BY <1>1, <1>2, <1>3, <1>4, <1>5, <1>6, <1>7 DEF Next

-----------------------------------------------------------------------------
(* Before anything runs. *)
LEMMA InitHolds == Init => IInv
<1> SUFFICES ASSUME Init PROVE IInv
  OBVIOUS
<1>1. \A n \in Names : fs[n] = NoFile
  BY DEF Init
<1>2. /\ ~Exists(Archive)
      /\ \A w \in Writers : ~Exists(Temp(w)) /\ ~Exists(TmpArchive(w))
      /\ \A i \in 1 .. MaxVolumes : ~Exists(Volume(i))
      /\ \A w \in Writers, i \in 1 .. MaxVolumes : ~Exists(VolumeTmp(w, i))
  BY <1>1, NamesListed DEF Exists
<1>3. reader = [pc |-> "idle", parts |-> 0, units |-> <<>>, open |-> 0, result |-> "none"]
  BY DEF Init
<1>4. reader.pc = "idle" /\ reader.units = <<>> /\ reader.parts = 0 /\ reader.result = "none"
  BY <1>3
<1>5. reader \in Reader
  <2>1. /\ "idle" \in {"idle", "volumes", "single", "header", "done"} /\ 0 \in Nat /\ 0 \in Int
        /\ "none" \in {"none", "limit", "error", "ok"}
    OBVIOUS
  <2> QED
    BY <1>3, <2>1, EmptyFile, ReaderRecord, Zenon
<1>6. TypeOK
  BY <1>5, EmptyFile DEF Init, TypeOK, Stage, Idle
<1>7. ProcessInv
  <2> SUFFICES ASSUME NEW w \in Writers PROVE FilesOf(w) /\ CutOf(w)
    BY DEF ProcessInv
  <2>1. pc[w] = "idle" /\ volume[w] = 0 /\ offset[w] = 0 /\ intact # w
    BY ConstantTypes DEF Init
  <2>2. FilesOf(w)
    BY <1>2, <2>1 DEF FilesOf, OneStage, Filling, Splitting
  <2>3. CutOf(w)
    BY <2>1, ConstantTypes DEF CutOf
  <2> QED
    BY <2>2, <2>3
<1>8. ArchiveInv /\ SerialInv
  <2>1. EditsIn(fs[Archive]) = {}
    BY <1>2 DEF Exists, EditsIn
  <2> QED
    BY <1>2, <2>1 DEF Init, ArchiveInv, SerialInv, Running, Idle, Rewriting
<1>9. OriginInv /\ OwnerInv
  BY <1>2, ConstantTypes DEF Init, OriginInv, OwnerInv, Owns, Running, Idle
<1>10. ReaderInv
  BY <1>4 DEF ReaderInv, OpenedVolumesAreOneArchive, WrittenVolumesOpen
<1> QED
  BY <1>6, <1>7, <1>8, <1>9, <1>10 DEF IInv

(* The inductive invariant: what every process has on disk and how it cut  *)
(* its archive, that the archive is always a complete one, and what the    *)
(* volumes in place hold, after any steps of any processes and the reader. *)
THEOREM ReplacementInvariant == Spec => []IInv
<1>1. IInv /\ [Next]_vars => IInv'
  BY TypeStep, ProcessStep, ArchiveStep, SerialStep, OriginStep, OwnerStep, ReaderStep DEF IInv
<1> QED
  BY <1>1, InitHolds, PTL DEF Spec

(* replace_archive is atomic: the archive's path only ever holds nothing   *)
(* or a complete archive that one process made from an earlier version.    *)
THEOREM RewriteRefines == Spec => RewriteIsAtomic
<1>1. Init => Promise!Init
  BY NamesListed DEF Init, Promise!Init, EditsIn
<1>2. IInv /\ [Next]_vars => [Promise!Next]_<<EditsIn(fs[Archive]), past>>
  BY RefinementStep DEF IInv
<1> QED
  BY <1>1, <1>2, ReplacementInvariant, PTL DEF Spec, RewriteIsAtomic, Promise!Spec

(* Commands that run one after the other keep each other's edits, whatever *)
(* other commands failed or were killed between them.                      *)
THEOREM SerialEditsKept == Spec => []SerialEditsAreKept
<1>1. IInv => SerialEditsAreKept
  BY DEF IInv, SerialInv, SerialEditsAreKept
<1> QED
  BY <1>1, ReplacementInvariant, PTL

(* write_archive_entries and replace_archive leave no temporary file when  *)
(* they return Ok; with an error they leave at most the file that could    *)
(* not be removed and the volume being filled, never files of two stages.  *)
THEOREM TemporariesOwned == Spec => []TemporariesAreOwned
<1>1. IInv => TemporariesAreOwned
  BY DEF IInv, ProcessInv, FilesOf, Filling, Splitting, TemporariesAreOwned
<1> QED
  BY <1>1, ReplacementInvariant, PTL

(* The volumes that open are one complete archive, in spite of volumes     *)
(* left of an older set and of a writer stopped between two volumes.       *)
THEOREM OpenedIsOneArchive == Spec => []OpenedVolumesAreOneArchive
<1>1. IInv => OpenedVolumesAreOneArchive
  BY DEF IInv, ReaderInv, OpenedVolumesAreOneArchive
<1> QED
  BY <1>1, ReplacementInvariant, PTL

(* A set of volumes written to its end opens: volumes left of older sets   *)
(* never turn it into an error, other than the limit on open volumes.      *)
THEOREM WrittenOpens == Spec => []WrittenVolumesOpen
<1>1. IInv => WrittenVolumesOpen
  BY DEF IInv, ReaderInv, WrittenVolumesOpen
<1> QED
  BY <1>1, ReplacementInvariant, PTL
=============================================================================
