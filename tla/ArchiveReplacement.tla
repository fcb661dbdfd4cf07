-------------------------- MODULE ArchiveReplacement --------------------------
(***************************************************************************)
(* The command line and the file system: r7z processes that create or      *)
(* update one archive through a temporary file and a rename, or cut a new  *)
(* archive into volumes, and a program that opens the volumes.  Each step  *)
(* may fail and each process may be killed between two steps.              *)
(*                                                                         *)
(* A file is a sequence of units; unit k of the archive that process w     *)
(* writes is <<w, k>>.  The first is the signature, the last the header.   *)
(***************************************************************************)
EXTENDS Integers, Sequences

CONSTANTS
  Writers,      \* r7z processes
  Size,         \* writer -> length of the archive it writes
  VolumeSizes,  \* writer -> sizes given with -v, <<>> without
  MaxVolumes,   \* bound on volume numbers
  MaxOpen       \* max_open_volumes

ASSUME SizeAssumption == Size \in [Writers -> Nat \ {0}] /\ 0 \notin Writers
ASSUME VolumeAssumption ==
  /\ \A w \in Writers : VolumeSizes[w] \in Seq(Nat \ {0})
  /\ MaxVolumes \in Nat \ {0} /\ \A w \in Writers : Size[w] <= MaxVolumes

NoFile == <<<<0, 0>>>>

(* The archive, NamedTempFile, temp_archive_path and volume paths. *)
Archive == <<"archive">>
Temp(w) == <<"temp", w>>
TmpArchive(w) == <<"tmp", w>>
Volume(i) == <<"volume", i>>
VolumeTmp(w, i) == <<"volume tmp", w, i>>

Names == {Archive}
  \cup {Temp(w) : w \in Writers} \cup {TmpArchive(w) : w \in Writers}
  \cup {Volume(i) : i \in 1 .. MaxVolumes}
  \cup {VolumeTmp(w, i) : w \in Writers, i \in 1 .. MaxVolumes}

VARIABLES
  fs,        \* path -> content, NoFile if there is none
  pc,        \* writer -> where it is
  edits,     \* writer -> the edits in the archive it writes
  volume,    \* writer -> volumes renamed so far
  offset,    \* writer -> units of its archive in these volumes
  reader,    \* the program that opens the volumes: how many it has opened, what
             \* they hold one after the other, and what came of it
  past,      \* history: versions of the archive
  raced,     \* history: two programs ran at the same time
  intact     \* history: whose volumes are all in place, 0 if nobody's are

writers == <<pc, edits, volume, offset>>
history == <<past, raced, intact>>
vars == <<fs, writers, reader, history>>

Exists(name) == fs[name] # NoFile
Complete(w) == [k \in 1 .. Size[w] |-> <<w, k>>]

(* The edits of the archive a file holds. *)
EditsIn(file) ==
  IF file = NoFile THEN {}
  ELSE IF \E w \in Writers : file = Complete(w)
       THEN edits[CHOOSE w \in Writers : file = Complete(w)]
       ELSE {0}

Idle == {"idle", "ok", "failed", "killed"}
Running(w) == pc[w] \notin Idle
Reading == reader.pc \notin {"idle", "done"}

Init ==
  /\ fs = [n \in Names |-> NoFile]
  /\ pc = [w \in Writers |-> "idle"]
  /\ edits = [w \in Writers |-> {}]
  /\ volume = [w \in Writers |-> 0]
  /\ offset = [w \in Writers |-> 0]
  /\ reader = [pc |-> "idle", parts |-> 0, units |-> <<>>, open |-> 0, result |-> "none"]
  /\ past = {{}} /\ raced = FALSE /\ intact = 0

-----------------------------------------------------------------------------
(***************************************************************************)
(* create_archive and update_archive.                                      *)
(***************************************************************************)

(* An archive that exists is updated, with or without -v. *)
Start(w) ==
  /\ pc[w] = "idle"
  /\ pc' = [pc EXCEPT ![w] = IF Exists(Archive) THEN "open" ELSE "create"]
  /\ edits' = [edits EXCEPT ![w] = {w}]
  /\ raced' = (raced \/ Reading \/ \E v \in Writers : Running(v))
  /\ UNCHANGED <<fs, volume, offset, reader, past, intact>>

(* Faulty variant: what was read before the files are scanned is kept. *)
OpenFresh(w) ==
  /\ pc[w] = "open"
  /\ pc' = [pc EXCEPT ![w] = "update"]
  /\ UNCHANGED <<fs, edits, volume, offset, reader, history>>

(* open_archive: the handle stays on this content. *)
Open(w) ==
  /\ pc[w] = "open"
  /\ edits' = [edits EXCEPT ![w] = EditsIn(fs[Archive]) \cup {w}]
  /\ pc' = [pc EXCEPT ![w] = "update"]
  /\ UNCHANGED <<fs, volume, offset, reader, history>>

(* With -v a new archive goes to a temporary path first. *)
Splits(w) == pc[w] \in {"create", "create temp"} /\ VolumeSizes[w] # <<>>
Target(w) == IF Splits(w) THEN TmpArchive(w) ELSE Archive

(* replace_archive: a named temporary file, *)
MakeTemp(w) ==
  /\ pc[w] \in {"create", "update"}
  /\ fs' = [fs EXCEPT ![Temp(w)] = <<>>]
  /\ pc' = [pc EXCEPT ![w] = IF @ = "create" THEN "create temp" ELSE "update temp"]
  /\ UNCHANGED <<edits, volume, offset, reader, history>>

Filling(w) == pc[w] \in {"create temp", "update temp"}

(* the archive written into it, *)
WriteUnit(w) ==
  /\ Filling(w) /\ Len(fs[Temp(w)]) < Size[w]
  /\ fs' = [fs EXCEPT ![Temp(w)] = Append(@, <<w, Len(@) + 1>>)]
  /\ UNCHANGED <<writers, reader, history>>

Renamed(from, to) == [fs EXCEPT ![to] = fs[from], ![from] = NoFile]

(* Faulty variant: the archive is renamed before everything is written. *)
PersistEarly(w) ==
  /\ Filling(w) /\ (Splits(w) => Len(fs[Temp(w)]) = Size[w])
  /\ fs' = Renamed(Temp(w), Target(w))
  /\ past' = IF Splits(w) THEN past ELSE past \cup {edits[w]}
  /\ pc' = [pc EXCEPT ![w] = IF Splits(w) THEN "split" ELSE "ok"]
  /\ UNCHANGED <<edits, volume, offset, reader, raced, intact>>

(* and the rename that commits it. *)
Persist(w) ==
  /\ Filling(w) /\ Len(fs[Temp(w)]) = Size[w]
  /\ fs' = Renamed(Temp(w), Target(w))
  /\ past' = IF Splits(w) THEN past ELSE past \cup {edits[w]}
  /\ pc' = [pc EXCEPT ![w] = IF Splits(w) THEN "split" ELSE "ok"]
  /\ UNCHANGED <<edits, volume, offset, reader, raced, intact>>

Removed(name) == [fs EXCEPT ![name] = NoFile]

(* Dropping the temporary file removes it, unless that fails unnoticed. *)
Fail(w) ==
  /\ Running(w) /\ pc[w] \notin {"split", "rename"}
  /\ fs' \in {fs, Removed(Temp(w))}
  /\ pc' = [pc EXCEPT ![w] = "failed"]
  /\ UNCHANGED <<edits, volume, offset, reader, history>>

Kill(w) ==
  /\ Running(w)
  /\ pc' = [pc EXCEPT ![w] = "killed"]
  /\ UNCHANGED <<fs, edits, volume, offset, reader, history>>

-----------------------------------------------------------------------------
(***************************************************************************)
(* write_volumes_from_file.                                                *)
(***************************************************************************)
VolumeSize(w, i) == VolumeSizes[w][IF i <= Len(VolumeSizes[w]) THEN i ELSE Len(VolumeSizes[w])]
VolumeEnd(w) ==
  LET end == offset[w] + VolumeSize(w, volume[w] + 1)
  IN IF end < Size[w] THEN end ELSE Size[w]

(* Faulty variant: a last volume that is not full is forgotten. *)
LeftFull(w) == offset[w] + VolumeSize(w, volume[w] + 1) <= Size[w]

Left(w) == offset[w] < Size[w]

FillVolume(w) ==
  /\ pc[w] = "split" /\ Left(w)
  /\ fs' = [fs EXCEPT ![VolumeTmp(w, volume[w] + 1)] =
              SubSeq(fs[TmpArchive(w)], offset[w] + 1, VolumeEnd(w))]
  /\ pc' = [pc EXCEPT ![w] = "rename"]
  /\ UNCHANGED <<edits, volume, offset, reader, history>>

RenameVolume(w) ==
  /\ pc[w] = "rename"
  /\ fs' = Renamed(VolumeTmp(w, volume[w] + 1), Volume(volume[w] + 1))
  /\ volume' = [volume EXCEPT ![w] = @ + 1]
  /\ offset' = [offset EXCEPT ![w] = VolumeEnd(w)]
  /\ pc' = [pc EXCEPT ![w] = "split"]
  /\ intact' = 0
  /\ UNCHANGED <<edits, reader, past, raced>>

(* Faulty variant: an error of the cleanup is ignored. *)
EndVolumesIgnores(w) ==
  /\ pc[w] = "split" /\ ~Left(w)
  /\ fs' \in {fs, Removed(TmpArchive(w))}
  /\ pc' = [pc EXCEPT ![w] = "ok"]
  /\ intact' = w
  /\ UNCHANGED <<edits, volume, offset, reader, past, raced>>

(* The temporary archive is removed whether or not a volume failed; where  *)
(* nothing else has failed, the command fails if that does.                *)
EndVolumes(w) ==
  /\ pc[w] = "split" /\ ~Left(w)
  /\ \/ fs' = Removed(TmpArchive(w)) /\ pc' = [pc EXCEPT ![w] = "ok"]
     \/ fs' = fs /\ pc' = [pc EXCEPT ![w] = "failed"]
  /\ intact' = w
  /\ UNCHANGED <<edits, volume, offset, reader, past, raced>>

FailVolumes(w) ==
  /\ pc[w] \in {"split", "rename"}
  /\ fs' \in {fs, Removed(TmpArchive(w))}
  /\ pc' = [pc EXCEPT ![w] = "failed"]
  /\ UNCHANGED <<edits, volume, offset, reader, history>>

-----------------------------------------------------------------------------
(***************************************************************************)
(* ArchiveSource::from_file on the first volume, then the header.          *)
(***************************************************************************)
StartReader ==
  /\ reader.pc = "idle"
  /\ reader' = [reader EXCEPT !.pc = "volumes"]
  /\ raced' = (raced \/ \E w \in Writers : Running(w))
  /\ UNCHANGED <<fs, writers, past, intact>>

Ended(why) == [reader EXCEPT !.pc = "done", !.result = why]

NextPart == reader.parts + 1
MorePart == NextPart <= MaxVolumes /\ Exists(Volume(NextPart))

OpenPart ==
  /\ reader.pc = "volumes" /\ MorePart
  /\ reader' = IF reader.open >= MaxOpen THEN Ended("limit")
               ELSE [reader EXCEPT !.parts = @ + 1, !.open = @ + 1,
                                   !.units = @ \o fs[Volume(NextPart)]]
  /\ UNCHANGED <<fs, writers, history>>

(* One volume alone is opened again as a plain file. *)
EndParts ==
  /\ reader.pc = "volumes" /\ ~MorePart
  /\ reader' = IF reader.parts > 1 THEN [reader EXCEPT !.pc = "header"]
               ELSE [reader EXCEPT !.pc = "single", !.parts = 0, !.units = <<>>,
                                   !.open = IF @ > 0 THEN @ - 1 ELSE 0]
  /\ UNCHANGED <<fs, writers, history>>

OpenSingle ==
  /\ reader.pc = "single"
  /\ reader' = IF ~Exists(Volume(1)) THEN Ended("error")
               ELSE [reader EXCEPT !.pc = "header", !.open = @ + 1, !.parts = 1,
                                   !.units = fs[Volume(1)]]
  /\ UNCHANGED <<fs, writers, history>>

(* Faulty variant: the checksum of the header is not compared. *)
AcceptsAny(units) == Len(units) >= 1

(* find_signature and the checksum of the header that the signature names. *)
Accepts(units) ==
  /\ Len(units) >= 1 /\ units[1][2] = 1
  /\ LET w == units[1][1] IN Len(units) >= Size[w] /\ units[Size[w]] = <<w, Size[w]>>

ReadHeader ==
  /\ reader.pc = "header"
  /\ reader' = Ended(IF Accepts(reader.units) THEN "ok" ELSE "error")
  /\ UNCHANGED <<fs, writers, history>>

-----------------------------------------------------------------------------
Write(w) ==
  \/ Start(w) \/ Open(w) \/ MakeTemp(w) \/ WriteUnit(w) \/ Persist(w) \/ Fail(w) \/ Kill(w)
  \/ FillVolume(w) \/ RenameVolume(w) \/ EndVolumes(w) \/ FailVolumes(w)

Next ==
  \/ \E w \in Writers : Write(w)
  \/ StartReader \/ OpenPart \/ EndParts \/ OpenSingle \/ ReadHeader

Spec == Init /\ [][Next]_vars
-----------------------------------------------------------------------------
(***************************************************************************)
(* Properties.                                                             *)
(***************************************************************************)

(* The rewrite of an archive is atomic: with any number of processes that  *)
(* fail or are killed at any step, the archive's path holds nothing or a   *)
(* complete archive, made from an earlier version by one process.          *)
Promise == INSTANCE AtomicArchive WITH edits <- EditsIn(fs[Archive])
RewriteIsAtomic == Promise!Spec

(* The temporary file is gone before there are a temporary archive and     *)
(* volumes.                                                                *)
OneStage(w) ==
  Exists(Temp(w)) =>
    /\ ~Exists(TmpArchive(w))
    /\ \A i \in 1 .. MaxVolumes : ~Exists(VolumeTmp(w, i))

(* Commands that run one after the other keep each other's edits, also     *)
(* when others failed or were killed in between.                           *)
SerialEditsAreKept ==
  ~raced => \A w \in Writers :
              pc[w] = "ok" /\ w \in UNION past => w \in EditsIn(fs[Archive])

(* A command that ends well leaves no temporary file.  One that fails      *)
(* leaves those of one stage at most: the file it could not remove and,    *)
(* with -v, the volume it was writing.                                     *)
TemporariesAreOwned ==
  \A w \in Writers : pc[w] \in {"idle", "ok", "failed"} =>
    /\ Exists(Temp(w)) \/ Exists(TmpArchive(w)) => pc[w] = "failed"
    /\ OneStage(w)
    /\ \A i \in 1 .. MaxVolumes :
         Exists(VolumeTmp(w, i)) => pc[w] = "failed" /\ i = volume[w] + 1

(* A set of volumes that opens is one archive, whatever is left of older   *)
(* sets and wherever a writer was stopped.                                 *)
OpenedVolumesAreOneArchive ==
  ~raced /\ reader.result = "ok" =>
    LET w == reader.units[1][1]
    IN \A k \in 1 .. Size[w] : k \in DOMAIN reader.units /\ reader.units[k] = <<w, k>>

(* Volumes that were all written do open, as long as those left of older   *)
(* sets do not exhaust the limit on open volumes.                          *)
WrittenVolumesOpen ==
  ~raced /\ reader.units # <<>> /\ reader.units[1][1] = intact => reader.result # "error"
-----------------------------------------------------------------------------
(***************************************************************************)
(* The inductive invariant.                                                *)
(***************************************************************************)
Unit == Writers \X Nat
Content == Seq(Unit) \cup {NoFile}

Rewriting == {"create", "update", "create temp", "update temp"}
Splitting == {"split", "rename"}
Stage == Idle \cup {"open"} \cup Rewriting \cup Splitting

Reader == [pc : {"idle", "volumes", "single", "header", "done"}, parts : Nat,
           units : Seq(Unit), open : Int, result : {"none", "limit", "error", "ok"}]

TypeOK ==
  /\ fs \in [Names -> Content]
  /\ pc \in [Writers -> Stage]
  /\ DOMAIN edits = Writers
  /\ volume \in [Writers -> Nat] /\ offset \in [Writers -> Nat]
  /\ reader \in Reader
  /\ raced \in BOOLEAN /\ intact \in Writers \cup {0}

(* Units a + 1 to a + Len(file) of the archive that w writes. *)
PartOf(w, a, file) ==
  file \in Seq(Unit) /\ \A k \in 1 .. Len(file) : file[k] = <<w, a + k>>

(* What a process holds in its temporary files, and that it has no others. *)
FilesOf(w) ==
  /\ OneStage(w)
  /\ IF Filling(w) THEN PartOf(w, 0, fs[Temp(w)]) /\ Len(fs[Temp(w)]) <= Size[w]
     ELSE Exists(Temp(w)) => pc[w] \in {"failed", "killed"}
  /\ IF pc[w] \in Splitting
       THEN /\ PartOf(w, 0, fs[TmpArchive(w)]) /\ Len(fs[TmpArchive(w)]) = Size[w]
            /\ VolumeSizes[w] # <<>>
       ELSE Exists(TmpArchive(w)) => pc[w] \in {"failed", "killed"}
  /\ \A i \in 1 .. MaxVolumes : Exists(VolumeTmp(w, i)) =>
       pc[w] \in {"rename", "failed", "killed"} /\ i = volume[w] + 1

(* The volumes of one process: how many, and what they hold together. *)
CutOf(w) ==
  /\ volume[w] <= offset[w] /\ offset[w] <= Size[w]
  /\ volume[w] = 0 => offset[w] = 0
  /\ pc[w] \in {"idle", "open"} \cup Rewriting => volume[w] = 0
  /\ pc[w] = "rename" =>
       /\ offset[w] < VolumeEnd(w) /\ VolumeEnd(w) <= Size[w] /\ volume[w] < MaxVolumes
       /\ PartOf(w, offset[w], fs[VolumeTmp(w, volume[w] + 1)])
       /\ Len(fs[VolumeTmp(w, volume[w] + 1)]) = VolumeEnd(w) - offset[w]
  /\ intact = w => pc[w] \in {"ok", "failed"} /\ volume[w] > 0 /\ offset[w] = Size[w]

ProcessInv == \A w \in Writers : FilesOf(w) /\ CutOf(w)

(* The archive is that of a process that ended well, its edits are on      *)
(* record, and a process at work adds its own to those of some version.    *)
ArchiveInv ==
  /\ {} \in past
  /\ Exists(Archive) => \E w \in Writers : pc[w] = "ok" /\ fs[Archive] = Complete(w)
  /\ EditsIn(fs[Archive]) \in past
  /\ \A w \in Writers : pc[w] \in Rewriting => \E base \in past : edits[w] = base \cup {w}

(* Without a race at most one program runs, and no version loses an edit. *)
SerialInv ==
  ~raced =>
    /\ \A v, w \in Writers : Running(v) /\ Running(w) => v = w
    /\ \A w \in Writers : Running(w) => ~Reading
    /\ UNION past \subseteq EditsIn(fs[Archive])
    /\ \A w \in Writers : pc[w] \in Rewriting => UNION past \subseteq edits[w]

(* Each unit in the i-th volume is of a process that made i volumes. *)
OriginInv ==
  \A i \in 1 .. MaxVolumes : Exists(Volume(i)) =>
    \A k \in 1 .. Len(fs[Volume(i)]) :
      /\ volume[fs[Volume(i)][k][1]] >= i
      /\ pc[fs[Volume(i)][k][1]] \notin {"idle", "open"} \cup Rewriting

(* Units in the volumes before the i-th one. *)
Before(w, i) == IF i > volume[w] THEN offset[w] ELSE fs[Volume(i)][1][2] - 1

(* The volumes of w are in place, and each continues the one before. *)
InPlace(w) ==
  /\ Before(w, 1) = 0
  /\ \A i \in 1 .. volume[w] :
       /\ Exists(Volume(i)) /\ fs[Volume(i)] # <<>>
       /\ PartOf(w, Before(w, i), fs[Volume(i)])
       /\ Before(w, i + 1) = Before(w, i) + Len(fs[Volume(i)])

Owns(w) == Exists(Volume(1)) /\ fs[Volume(1)][1][1] = w

(* The process whose first volume is in place has all its volumes in place. *)
OwnerInv ==
  ~raced =>
    /\ Exists(Volume(1)) => fs[Volume(1)] # <<>>
    /\ \A w \in Writers : Running(w) /\ volume[w] > 0 => Owns(w)
    /\ \A w \in Writers : Owns(w) => InPlace(w)

(* The first n units are those of the process w, the others are not its own. *)
HasRead(units, w, n) ==
  /\ Len(units) >= n
  /\ \A k \in 1 .. n : units[k] = <<w, k>>
  /\ \A k \in n + 1 .. Len(units) : units[k][1] # w

(* The reader looks for the next volume, for a single volume, for the header. *)
AtVolumes ==
  /\ IF reader.parts = 0 THEN reader.units = <<>> ELSE Exists(Volume(1))
  /\ \A w \in Writers : Owns(w) =>
       /\ HasRead(reader.units, w, Before(w, reader.parts + 1))
       /\ reader.parts <= volume[w] => Len(reader.units) = Before(w, reader.parts + 1)
AtSingle == reader.units = <<>> /\ \A w \in Writers : Owns(w) => volume[w] = 1
AtHeader == \E w \in Writers : offset[w] > 0 /\ HasRead(reader.units, w, offset[w])

ReaderInv ==
  ~raced =>
    /\ \A k \in 1 .. Len(reader.units) : pc[reader.units[k][1]] \in {"ok", "failed", "killed"}
    /\ reader.pc # "done" => reader.result = "none"
    /\ reader.pc = "idle" => reader.parts = 0 /\ reader.units = <<>>
    /\ reader.pc = "volumes" => AtVolumes
    /\ reader.pc = "single" => AtSingle
    /\ reader.pc = "header" => AtHeader
    /\ OpenedVolumesAreOneArchive /\ WrittenVolumesOpen

IInv ==
  TypeOK /\ ProcessInv /\ ArchiveInv /\ SerialInv /\ OriginInv /\ OwnerInv /\ ReaderInv
=============================================================================
