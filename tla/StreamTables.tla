---------------------------- MODULE StreamTables ----------------------------
(***************************************************************************)
(* The stream tables of an archive header: how a writer describes the      *)
(* streams of its folders and how a reader finds them again.  A folder is  *)
(* a record with the sizes of its streams (files) and its decoded size     *)
(* (unpack).  A header h has a flag per entry that says whether it has     *)
(* data (streams), and a record per folder (folders).                      *)
(***************************************************************************)
EXTENDS Integers, Sequences

(* write_substreams_info: the size of a folder's last stream is left out. *)
FolderHeader(f) ==
  [count |-> Len(f.files), sizes |-> SubSeq(f.files, 1, Len(f.files) - 1),
   unpack |-> f.unpack]

-----------------------------------------------------------------------------
(***************************************************************************)
(* FileStreams goes through the entries and finds for each entry with data *)
(* the folder and the range its data is in.  StreamLocations takes the     *)
(* folders one by one and Substreams the streams of a folder.  A reader r  *)
(* is where they stand: the next entry, the folder and the next stream in  *)
(* it with its offset, the location found last, and whether it has ended.  *)
(***************************************************************************)
NoLocation == [entry |-> 0, folder |-> 0, first |-> 0, size |-> 0]

ReaderStart ==
  [entry |-> 1, folder |-> 0, stream |-> 1, first |-> 0, found |-> NoLocation, ended |-> "no"]

(* Entries::next, and whether the entry needs a stream. *)
AtEnd(h, r) == r.entry > Len(h.streams)
AtData(h, r) == ~AtEnd(h, r) /\ h.streams[r.entry]

(* Substreams: how many streams the current folder has; there is none at first. *)
StreamCount(h, r) == IF r.folder = 0 THEN 0 ELSE h.folders[r.folder].count
Exhausted(h, r) == r.stream > StreamCount(h, r)

(* FolderStreamLayout: the size that was left out is what remains. *)
StreamSize(h, r) ==
  LET f == h.folders[r.folder]
  IN IF r.stream < f.count THEN f.sizes[r.stream] ELSE f.unpack - r.first

PassEmpty(r) == [r EXCEPT !.entry = @ + 1]

EnterFolder(r) == [r EXCEPT !.folder = @ + 1, !.stream = 1, !.first = 0]

Locate(h, r) ==
  LET size == StreamSize(h, r)
  IN [r EXCEPT !.entry = @ + 1, !.stream = @ + 1, !.first = @ + size,
               !.found = [entry |-> r.entry, folder |-> r.folder, first |-> r.first,
                          size |-> size]]

(* It is an error if an entry finds no stream, or a stream no entry. *)
EndReading(h, r) ==
  [r EXCEPT !.ended = IF AtEnd(h, r) /\ Exhausted(h, r) THEN "ok" ELSE "error"]

(* StreamLocations::nth for an entry with data, and StreamLocations::finish *)
(* after the last entry, go on to the next folder that has streams.         *)
ReadNext(h, r) ==
  IF ~AtEnd(h, r) /\ ~AtData(h, r) THEN PassEmpty(r)
  ELSE IF Exhausted(h, r) /\ r.folder < Len(h.folders) THEN EnterFolder(r)
  ELSE IF AtData(h, r) /\ ~Exhausted(h, r) THEN Locate(h, r)
  ELSE EndReading(h, r)

-----------------------------------------------------------------------------
(***************************************************************************)
(* What a reader relies on.  `data' says for each entry with data where    *)
(* the writer put it: the folder, the number of the stream in it, where    *)
(* its bytes begin and how many there are.                                 *)
(***************************************************************************)
Place == [folder : Nat \ {0}, at : Nat \ {0}, first : Nat, size : Nat]

(* Places in an archive, in the order in which they are written and read. *)
Before(f, i, g, j) == f < g \/ (f = g /\ i < j)

(* The tables describe the place of each entry with data, ... *)
Described(h, data) ==
  \A k \in DOMAIN data :
    LET p == data[k]  f == h.folders[p.folder]
    IN /\ p \in Place /\ p.folder <= Len(h.folders) /\ p.at <= f.count
       /\ p.at < f.count => f.sizes[p.at] = p.size
       /\ p.at = f.count => f.unpack = p.first + p.size
       /\ p.at = 1 => p.first = 0

(* ... places are in the order of the entries and follow each other, ... *)
InOrder(data) ==
  \A k, l \in DOMAIN data :
    /\ k < l => Before(data[k].folder, data[k].at, data[l].folder, data[l].at)
    /\ data[k].folder = data[l].folder /\ data[l].at = data[k].at + 1
         => data[l].first = data[k].first + data[k].size

(* ... and every stream is an entry's. *)
Owned(h, data) ==
  \A f \in 1 .. Len(h.folders) : \A j \in 1 .. h.folders[f].count :
    \E k \in DOMAIN data : data[k].folder = f /\ data[k].at = j

LaidOut(h, data) ==
  /\ DOMAIN data = {k \in 1 .. Len(h.streams) : h.streams[k]}
  /\ Len(h.streams) \in Nat /\ Len(h.folders) \in Nat
  /\ \A f \in 1 .. Len(h.folders) : h.folders[f].count \in Nat
  /\ Described(h, data) /\ InOrder(data) /\ Owned(h, data)

(* The reader has been through the entries before its own and their data. *)
ReaderOK(h, data, r) ==
  /\ r \in [entry : Nat \ {0}, folder : Nat, stream : Nat \ {0}, first : Nat,
            found : [entry : Nat, folder : Nat, first : Nat, size : Nat], ended : {"no", "ok"}]
  /\ r.folder <= Len(h.folders) /\ r.stream <= StreamCount(h, r) + 1
  /\ \A k \in DOMAIN data :
       /\ k < r.entry <=> Before(data[k].folder, data[k].at, r.folder, r.stream)
       /\ data[k].folder = r.folder /\ data[k].at = r.stream => data[k].first = r.first
  /\ r.found.entry # 0 =>
       /\ r.found.entry \in DOMAIN data
       /\ LET p == data[r.found.entry]
          IN r.found.folder = p.folder /\ r.found.first = p.first /\ r.found.size = p.size

-----------------------------------------------------------------------------
(* FolderProgress: what a folder holds so far, and whether one more file   *)
(* would be too much for the solid mode (a limit of 0 is None).            *)
NoProgress == [files |-> 0, bytes |-> 0]

Record(p, size) == [files |-> p.files + 1, bytes |-> p.bytes + size]

WouldExceed(solid, p, size) ==
  \/ solid.mode = "NonSolid" /\ p.files > 0
  \/ /\ solid.mode = "Limit" /\ p.files > 0
     /\ \/ solid.maxFiles > 0 /\ p.files + 1 > solid.maxFiles
        \/ solid.maxBytes > 0 /\ p.bytes + size > solid.maxBytes
=============================================================================
