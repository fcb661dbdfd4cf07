--------------------------- MODULE ArchiveRoundTrip ---------------------------
(***************************************************************************)
(* A writer and then a reader: once the writer is done with an archive     *)
(* whose signature header is valid, FileStreams goes through the header    *)
(* (see StreamTables).                                                     *)
(***************************************************************************)
EXTENDS ArchiveWriter

VARIABLE
  reader    \* FileStreams and its StreamLocations, see ReaderStart

InitRoundTrip == Init /\ reader = ReaderStart

(* One step of FileStreams::map_all over the header of a signed archive. *)
Read ==
  /\ pc \in {"finished", "closed"} /\ sig = "valid" /\ reader.ended = "no"
  /\ reader' = ReadNext(header, reader)

NextRoundTrip ==
  \/ Next /\ UNCHANGED reader
  \/ Read /\ UNCHANGED vars

SpecRoundTrip == InitRoundTrip /\ [][NextRoundTrip]_<<vars, reader>>
-----------------------------------------------------------------------------
(***************************************************************************)
(* Properties.                                                             *)
(***************************************************************************)

(* A signed archive has a stream for each entry with data and no other,    *)
(* and the range the reader finds for an entry holds exactly the chunks    *)
(* its append call was given, however files, empty entries, folder breaks  *)
(* and solid limits were mixed and whatever failed on the way.             *)
ReadBack ==
  /\ reader.ended # "error"
  /\ reader.found.entry # 0 =>
       LET at == reader.found
           e == entries[at.entry]
           payload == completed[at.folder].payload
       IN /\ at.size = e.total /\ at.first + e.total <= Len(payload)
          /\ \A i \in 1 .. e.total : payload[at.first + i] = e.source
  /\ sig = "valid" =>
       \A f \in DOMAIN completed : Len(completed[f].payload) = header.folders[f].unpack
-----------------------------------------------------------------------------
(***************************************************************************)
(* The inductive invariant: where the writer put the data of the entries.  *)
(***************************************************************************)
HasData == {k \in DOMAIN entries : entries[k].stream}

(* The folder with a given number, sealed or active. *)
FolderAt(f) == IF f = Len(completed) THEN folder ELSE completed[f + 1]

PlacedIn(e, f) ==
  /\ e.at \in 1 .. Len(f.files) /\ f.files[e.at] = e.total
  /\ e.at = 1 => e.first = 0
  /\ e.at = Len(f.files) => f.unpack = e.first + e.total
  /\ e.first + e.total <= f.unpack
  /\ \A i \in 1 .. e.total : f.payload[e.first + i] = e.source

PlacedInv ==
  state # "Failed" =>
    \A k \in HasData : /\ entries[k].folder \in 0 .. Len(completed)
                       /\ PlacedIn(entries[k], FolderAt(entries[k].folder))

(* Data is in the order of the entries and has no gaps. *)
OrderInv ==
  /\ \A k, l \in HasData : k < l =>
       Before(entries[k].folder, entries[k].at, entries[l].folder, entries[l].at)
  /\ \A k, l \in HasData : entries[k].folder = entries[l].folder /\ entries[l].at = entries[k].at + 1
       => entries[l].first = entries[k].first + entries[k].total

OwnedInv ==
  state # "Failed" =>
    \A f \in 0 .. Len(completed) : \A j \in 1 .. Len(FolderAt(f).files) :
      \E k \in HasData : entries[k].folder = f /\ entries[k].at = j

PayloadInv ==
  state # "Failed" =>
    /\ \A f \in DOMAIN completed : Len(completed[f].payload) = completed[f].unpack
    /\ Len(folder.payload) = folder.unpack + cur.size
    /\ Len(folder.files) = 0 => folder.unpack = 0
    /\ \A i \in 1 .. cur.size : folder.payload[folder.unpack + i] = cur.source

(* Where the data of each entry is, for the reader. *)
Places ==
  [k \in HasData |-> [folder |-> entries[k].folder + 1, at |-> entries[k].at,
                      first |-> entries[k].first, size |-> entries[k].total]]

RoundTripInv ==
  /\ PlacedInv /\ OrderInv /\ OwnedInv /\ PayloadInv
  /\ reader = ReaderStart \/ (sig = "valid" /\ ReaderOK(header, Places, reader))
=============================================================================
