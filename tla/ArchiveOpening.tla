--------------------------- MODULE ArchiveOpening ---------------------------
(***************************************************************************)
(* Opening an archive: Archive::from_source_with_budget and HeaderScan.    *)
(* The next header is read, decoded when it is an encoded one, and scanned *)
(* section by section.  A scan that meets folders or file properties kept  *)
(* in additional streams is suspended (PendingHeader), these streams are   *)
(* decoded, and the scan goes on where it stopped.  Everything kept in     *)
(* memory is charged to one metadata budget.                               *)
(*                                                                         *)
(* Headers are the ones the writer of this repository builds and those of  *)
(* other writers, which may hold anything: a "foreign" header has one unit *)
(* changed or its end cut off.                                             *)
(***************************************************************************)
EXTENDS HeaderWriter

CONSTANTS
    Archives,        \* [entries, folders, units]: what was written and its header
    Units,           \* values a foreign writer may put in place of a unit
    ExternalBlocks,  \* what an additional stream's folder may decode to
    MaxMetadata,     \* ResourceLimits::max_metadata_bytes
    SlotUnits        \* size_of::<Bytes>(): what an additional stream costs besides its data

ASSUME MetadataAssumption == MaxMetadata \in Nat /\ SlotUnits \in Nat

VARIABLES
    archive,    \* the member of Archives in the file
    next,       \* the next header in the file
    packed,     \* what the folder of an encoded header decodes to
    intact,     \* as the writer of this repository wrote it
    status,     \* how far the opening got
    data,       \* the header being scanned
    scan,       \* HeaderScan
    external,   \* Option of the decoded additional streams
    metadata    \* charged to the metadata budget

file == <<archive, next, packed, intact>>
vars == <<archive, next, packed, intact, status, data, scan, external, metadata>>

NewScan == [pos |-> 2, streams |-> None, files |-> None, additional |-> None,
            count |-> 0, state |-> "scanning"]

\* A header with at most one unit changed, or cut off.
Foreign(units) ==
    UNION {{[units EXCEPT ![p] = v] : v \in Units} \cup {SubSeq(units, 1, p - 1)}
           : p \in DOMAIN units}

Descriptor(units) == EncodedDescriptor(0, 1, <<Lzma(<<0>>)>>, <<Len(units)>>)

Init ==
    /\ archive \in Archives
    /\ \E h \in {archive.units} \cup Foreign(archive.units) :
          /\ packed = h
          /\ next \in {h, Descriptor(h)}
                  \cup (IF h = archive.units THEN Foreign(Descriptor(h)) ELSE {})
    /\ intact = /\ archive.written
                /\ packed = archive.units
                /\ next \in {packed, Descriptor(packed)}
    /\ status = "start"
    /\ data = <<>>
    /\ scan = NewScan
    /\ external = None
    /\ metadata = 0

-----------------------------------------------------------------------------
(* The scan. *)

Slice(d, range) == SubSeq(d, range[1][1], range[1][2] - 1)

\* Parsed to its last unit.
Whole(r, d) == r.at = Len(d) + 1

Failed(s) == [s EXCEPT !.state = "failed"]

\* External data is needed: the additional streams must have come before.
Suspend(d, s) ==
    IF /\ s.additional # None
       /\ Whole(ParseStreamInfo(Slice(d, s.additional), 1, <<>>), Slice(d, s.additional))
    THEN [s EXCEPT !.state = "suspended"]
    ELSE Failed(s)

ScanStreams(d, s, ext, tag, at) ==
    LET uses == UsesExternalFolders(d, at)
        r    == ScanStreamInfo(d, at, IF ext = None THEN <<>> ELSE ext[1])
        range == Some(<<at, r.at>>)
    IN  CASE tag = Property.MainStreamsInfo /\ ext = None /\ uses.at = 0 -> Failed(s)
          [] tag = Property.MainStreamsInfo /\ ext = None /\ uses.val = Some(TRUE) -> Suspend(d, s)
          [] r.at = 0 -> Failed(s)
          [] tag = Property.MainStreamsInfo -> [s EXCEPT !.pos = r.at, !.streams = range]
          [] OTHER -> [s EXCEPT !.pos = r.at, !.additional = range]

ScanFiles(d, s, ext) ==
    LET r == ScanFilesInfo(d, s.pos)
    IN  CASE r.at = 0 -> Failed(s)
          [] ext = None /\ r.val.external -> Suspend(d, s)
          [] OTHER -> [s EXCEPT !.pos = r.at, !.files = Some(<<s.pos, r.at>>), !.count = r.val.count]

\* Archive properties: sections until END, none of them kept.
RECURSIVE ScanArchiveProperties(_, _)
ScanArchiveProperties(d, p) ==
    Then(Unit(d, p), LAMBDA q, id :
        IF id = Property.END THEN Ok(q, None)
        ELSE Then(Block(d, q), LAMBDA s, block : ScanArchiveProperties(d, s)))

Skipped(s, r) == IF r.at = 0 THEN Failed(s) ELSE [s EXCEPT !.pos = r.at]

\* HeaderScan::advance, one section of the header.
Advance(d, s, ext) ==
    LET t == Tag(d, s.pos)
    IN  CASE t.at = 0 -> Failed(s)
          [] t.val = Property.END -> [s EXCEPT !.pos = t.at, !.state = "complete"]
          [] t.val \in {Property.MainStreamsInfo, Property.AdditionalStreamsInfo} ->
               ScanStreams(d, s, ext, t.val, t.at)
          [] t.val = Property.FilesInfo -> ScanFiles(d, s, ext)
          [] t.val = Property.ArchiveProperties -> Skipped(s, ScanArchiveProperties(d, t.at))
          [] OTHER -> Skipped(s, SkipSection(d, t.at, None))

-----------------------------------------------------------------------------
(* Steps. *)

Remaining == MaxMetadata - metadata

End(why) == status' = why /\ UNCHANGED <<data, scan, external, metadata>>

\* charge_metadata, and go on when there was enough left.
Charge(n, Go) ==
    IF n > Remaining THEN End("limitError")
    ELSE metadata' = metadata + n /\ Go

\* NextHeader::parse.
ReadNextHeader ==
    /\ status = "start"
    /\ UNCHANGED file
    /\ LET tag  == Tag(next, 1)
           pack == Then(Expect(next, 2, Property.PackInfo), LAMBDA q, t : ParsePackInfo(next, q))
           unpack == Then(pack, LAMBDA q, v :
                         Then(Expect(next, q, Property.UnPackInfo), LAMBDA s, t :
                             ParseUnpackInfo(next, s, <<>>)))
       IN  CASE Len(next) > MaxMetadata -> End("limitError")
             [] tag.at = 0 \/ tag.val \notin {Property.Header, Property.EncodedHeader} ->
                  End("parseError")
             [] tag.val = Property.Header ->
                  Charge(Len(next), /\ data' = next
                                    /\ status' = "scanning"
                                    /\ UNCHANGED <<scan, external>>)
             [] unpack.at = 0 -> End("parseError")
             [] OTHER ->
                  Charge(Len(next), status' = "decoding" /\ UNCHANGED <<data, scan, external>>)

\* The encoded header's tables, parsed again; ReadNextHeader has accepted them.
EncodedStreams ==
    LET pack == ParsePackInfo(next, 3)
    IN  [pack |-> Some(pack.val), unpack |-> Some(ParseUnpackInfo(next, pack.at + 1, <<>>).val),
         sub |-> None]

\* decode_encoded_header: exactly one packed stream and one folder; it decodes
\* to as much as its size says.
DecodeHeader ==
    /\ status = "decoding"
    /\ UNCHANGED file
    /\ \E streams \in {EncodedStreams} : \E folders \in {Preflight(streams, Remaining)} :
           IF Len(streams.pack[1].sizes) # 1 \/ Len(streams.unpack[1].blocks) # 1
           THEN End("parseError")
           ELSE IF folders.at = 0 THEN End(folders.why)
           ELSE LET size == folders.val[1].size
                    decoded == SubSeq(packed, 1, size)
                IN  IF size > Len(packed) THEN End("sourceError")
                    ELSE Charge(size, /\ data' = decoded
                                      /\ status' = IF Expect(decoded, 1, Property.Header).at = 0
                                                   THEN "parseError" ELSE "scanning"
                                      /\ UNCHANGED <<scan, external>>)

ScanSection ==
    /\ status = "scanning"
    /\ scan.state = "scanning"
    /\ scan' = Advance(data, scan, external)
    /\ UNCHANGED <<file, data, external, metadata>>
    /\ status' = CASE scan'.state = "failed"    -> "parseError"
                   [] scan'.state = "suspended" -> "suspended"
                   [] OTHER                     -> status

StreamCount(folders) == SumOf([k \in DOMAIN folders |-> Len(folders[k].streams)])

\* Faulty variant: only the slots are charged, not what is decoded.
ExternalChargeSlots(folders) == SlotUnits * StreamCount(folders)

\* ExternalFolderPlan::new.
ExternalCharge(folders) == SlotUnits * StreamCount(folders) + OutputSize(folders)

\* The streams of a folder that decoded to "block".
Split(block, streams) ==
    LET Before(j) == SumOf([i \in 1..(j - 1) |-> streams[i].size])
    IN  [j \in DOMAIN streams |-> SubSeq(block, Before(j) + 1, Before(j) + streams[j].size)]

\* Faulty variant: only the position is kept of what was scanned before.
ResumeFresh(s) == [NewScan EXCEPT !.pos = s.pos]

Resume(s) == [s EXCEPT !.state = "scanning"]

\* resolve_with: every additional stream is decoded, and the scan goes on.
DecodeExternal ==
    /\ status = "suspended"
    /\ UNCHANGED file
    /\ \E streams \in {ParseStreamInfo(Slice(data, scan.additional), 1, <<>>).val} :
       \E folders \in {Preflight(streams, Remaining)} :
           IF folders.at = 0
           THEN End(folders.why)
           ELSE \E blocks \in [DOMAIN folders.val -> ExternalBlocks] :
                   /\ \A k \in DOMAIN blocks : Len(blocks[k]) = folders.val[k].size
                   /\ Charge(ExternalCharge(folders.val),
                             /\ external' = Some(FlattenSeq([k \in DOMAIN blocks |->
                                                  Split(blocks[k], folders.val[k].streams)]))
                             /\ scan' = Resume(scan)
                             /\ status' = "scanning"
                             /\ UNCHANGED data)

\* The source cannot be read, or what it decodes to is not what was promised.
SourceFails ==
    /\ status \in {"start", "decoding", "suspended"}
    /\ End("sourceError")
    /\ UNCHANGED file

\* complete_exact, and for a header scanned in one go the check of the
\* additional streams.
Finish ==
    /\ status = "scanning"
    /\ scan.state = "complete"
    /\ LET additional == Slice(data, scan.additional)
       IN  IF \/ scan.pos # Len(data) + 1
              \/ /\ external = None
                 /\ scan.additional # None
                 /\ ~ Whole(ParseStreamInfo(additional, 1, <<>>), additional)
           THEN End("parseError")
           ELSE \/ End("open")
                \/ external = None /\ scan.additional # None /\ End("sourceError")
    /\ UNCHANGED file

Done ==
    /\ status \in {"open", "parseError", "limitError", "sourceError"}
    /\ UNCHANGED vars

Next == ReadNextHeader \/ DecodeHeader \/ ScanSection \/ DecodeExternal \/ SourceFails
        \/ Finish \/ Done

Spec == Init /\ [][Next]_vars

-----------------------------------------------------------------------------
(* Properties. *)

ExternalData == IF external = None THEN <<>> ELSE external[1]

StreamsOf(ext) == ParseStreamInfo(Slice(data, scan.streams), 1, ext)
FilesOf(ext)   == ParseFilesInfo(Slice(data, scan.files), 1, ext)

(* An archive that opens has stream tables that parse, to the last unit:   *)
(* the scanners, which keep nothing, and the parsers, which run on first   *)
(* use, read the same sections.  File tables may still be refused for what *)
(* they hold, never because the two disagree about where they end.         *)
AcceptedTablesParse ==
    status = "open" =>
        /\ scan.streams # None =>
               Whole(StreamsOf(ExternalData), Slice(data, scan.streams))
        /\ scan.files # None /\ FilesOf(ExternalData).at # 0 =>
               /\ Whole(FilesOf(ExternalData), Slice(data, scan.files))
               /\ FilesOf(ExternalData).val.count = scan.count

(* A scan that was suspended, and went on with the external data, has      *)
(* found what Header::parse_with_external finds in one pass.               *)
ResumedScanIsOnePass ==
    status = "open" /\ external # None =>
        LET Step(s, k) == IF s.state = "scanning" THEN Advance(data, s, external) ELSE s
        IN  scan = FoldLeft(Step, NewScan, [k \in 1..(Len(data) + 1) |-> k])

(* A header that opened without external data holds no table that refers   *)
(* to any: its tables parse alike whatever additional streams might hold.  *)
NoExternalMissed ==
    status = "open" /\ external = None =>
        \A block \in ExternalBlocks :
            /\ scan.streams # None => StreamsOf(<<block>>) = StreamsOf(<<>>)
            /\ scan.files # None => FilesOf(<<block>>) = FilesOf(<<>>)

(* What opening reads and decodes, an encoded header's descriptor, the     *)
(* header and every additional stream with its slot, is charged and within *)
(* the metadata limit, whichever way the tables were nested.  What it      *)
(* parses meanwhile, the StreamInfo of the additional streams that a       *)
(* PendingHeader keeps, is charged nowhere and is not meant.               *)
MetadataIsPaidFor ==
    /\ metadata <= MaxMetadata
    /\ LET streams == ExternalData
       IN  (IF data # <<>> /\ next[1] = Property.EncodedHeader THEN Len(next) ELSE 0) + Len(data)
           + SumOf([k \in DOMAIN streams |-> SlotUnits + Len(streams[k])]) <= metadata

\* The kind a reader should find.
WrittenKind(e) ==
    LET attributes == e.values[Property.Attributes]
        symlink    == attributes # None /\ attributes[1] \in SymlinkAttributes
    IN  CASE e.kind = "Anti" -> "Anti"
          [] symlink         -> IF e.stream THEN "Symlink" ELSE "EmptySymlink"
          [] e.kind = "File" -> IF e.stream THEN "File" ELSE "EmptyFile"
          [] OTHER           -> e.kind

\* check_substream_digest_limit, of what WriteSubstreamsInfo writes: a table of
\* digests is there when one file has one, and covers all of them.
TooManyDigests(folders) ==
    LET crcs == PerFolder(folders, LAMBDA f : f.crcs)
    IN  Len(crcs) > MaxDigests /\ \E j \in DOMAIN crcs : crcs[j] # None

\* validate_name_data: a 0 ends a name, where the writer put it or not.
HoldsZero(name) == \E k \in DOMAIN name : name[k] = 0

(* The stream tables of a written header: every folder with its packed     *)
(* streams at their place, its coders, sizes and CRC, and its files with   *)
(* the sizes and CRCs they had, the size left out of the header included.  *)
FoldersReadBack(folders) ==
    \A read \in {IF folders = <<>> THEN <<>> ELSE Layouts(StreamsOf(<<>>).val).val} :
        /\ (scan.streams = None) = (folders = <<>>)
        /\ Len(read) = Len(folders)
        /\ \A f \in DOMAIN folders :
              /\ read[f].packs = folders[f].packs
              /\ read[f].start = SumOf(PerFolder(SubSeq(folders, 1, f - 1), LAMBDA g : g.packs))
              /\ [c \in DOMAIN read[f].coders |-> read[f].coders[c].method]
                   = [c \in DOMAIN folders[f].chain |-> folders[f].chain[c].id]
              /\ read[f].sizes = folders[f].sizes
              /\ read[f].crc = folders[f].crc
              /\ read[f].streams
                   = [j \in DOMAIN folders[f].files |->
                         [size |-> folders[f].files[j], digest |-> folders[f].crcs[j]]]

(* The file table of a written header: every entry with its name, kind and *)
(* values.                                                                 *)
EntriesReadBack(entries) ==
    \A files \in {FilesOf(<<>>).val} : \A i \in DOMAIN entries :
        /\ NameOf(files, i) = Some(entries[i].name)
        /\ EntryKind(files, i) = WrittenKind(entries[i])
        /\ \A tag \in ValueTags :
              ValueOf(files, tag, i) = Stored(tag, entries[i].values[tag])

(* A header this repository writes reads back, with two exceptions the     *)
(* writer does not guard against: it is refused exactly when its table of  *)
(* file CRCs is longer than a reader takes, and its file table is refused, *)
(* on first use, exactly when some name holds a NUL.                       *)
WrittenHeadersReadBack ==
    intact =>
        /\ status = "parseError" => TooManyDigests(archive.folders)
        /\ status = "open" =>
              /\ ~ TooManyDigests(archive.folders)
              /\ scan.count = Len(archive.entries)
              /\ FoldersReadBack(archive.folders)
              /\ IF \E i \in DOMAIN archive.entries : HoldsZero(archive.entries[i].name)
                 THEN FilesOf(<<>>).at = 0
                 ELSE EntriesReadBack(archive.entries)
=============================================================================
