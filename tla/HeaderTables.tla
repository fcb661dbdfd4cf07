---------------------------- MODULE HeaderTables ----------------------------
(***************************************************************************)
(* The tables of a 7z header: what the reader's scanners and parsers make  *)
(* of them.  Opening an archive only scans a header (the scan_* functions  *)
(* keep nothing); the tables themselves are parsed on first use, by other  *)
(* code.                                                                   *)
(*                                                                         *)
(* A header is a sequence of units.  A number, a tag, a flag, a digest, a  *)
(* time, an attribute word and a UTF-16 code unit take one unit each, and  *)
(* a bitmap takes one unit for every BitmapBits bits (8 in the code).  A   *)
(* parser takes the header and a position and returns Ok(next position,    *)
(* value) or Fail; every parse error is R7zError::Parse to the caller.     *)
(* An Option is a sequence of at most one element.                         *)
(***************************************************************************)
EXTENDS FolderGraph, Integers

CONSTANTS
    BitmapBits,         \* bits in a unit of a bitmap
    MaxDigests,         \* MAX_SUBSTREAM_DIGESTS
    SymlinkAttributes   \* attribute words whose Unix mode is a symlink's

ASSUME BitmapAssumption == BitmapBits \in Nat \ {0} /\ MaxDigests \in Nat

None == <<>>
Some(x) == <<x>>

Property == [END |-> 0, Header |-> 1, ArchiveProperties |-> 2, AdditionalStreamsInfo |-> 3,
             MainStreamsInfo |-> 4, FilesInfo |-> 5, PackInfo |-> 6, UnPackInfo |-> 7,
             SubStreamsInfo |-> 8, Size |-> 9, CRC |-> 10, Folder |-> 11,
             CodersUnPackSize |-> 12, NumUnPackStream |-> 13, EmptyStream |-> 14,
             EmptyFile |-> 15, Anti |-> 16, Name |-> 17, CTime |-> 18, ATime |-> 19,
             MTime |-> 20, Attributes |-> 21, Comment |-> 22, EncodedHeader |-> 23,
             StartPos |-> 24, Dummy |-> 25]

ValueTags == {Property.CTime, Property.ATime, Property.MTime, Property.StartPos,
              Property.Attributes}
BitTags   == {Property.EmptyStream, Property.EmptyFile, Property.Anti}

SumOf(s) == FoldLeft(+, 0, s)

-----------------------------------------------------------------------------
(* Parsers. *)

Fail == [at |-> 0]
Ok(p, v) == [at |-> p, val |-> v]

\* The ? operator: go on with what was parsed, or give its failure back.
Then(r, Rest(_, _)) == IF r.at = 0 THEN Fail ELSE Rest(r.at, r.val)

Unit(d, p) == IF p <= Len(d) THEN Ok(p + 1, d[p]) ELSE Fail

Take(d, p, n) == IF p + n <= Len(d) + 1 THEN Ok(p + n, SubSeq(d, p, p + n - 1)) ELSE Fail

Tag(d, p) == Then(Unit(d, p), LAMBDA q, t : IF t <= Property.Dummy THEN Ok(q, t) ELSE Fail)

Expect(d, p, tag) == Then(Tag(d, p), LAMBDA q, t : IF t = tag THEN Ok(q, t) ELSE Fail)

\* A block with its size in front.
Block(d, p) == Then(Unit(d, p), LAMBDA q, size : Take(d, q, size))

\* A section nobody knows is skipped by its size.
SkipSection(d, p, acc) == Then(Block(d, p), LAMBDA q, b : Ok(q, acc))

\* The loop over the sections of a table: Section(tag, position, acc) handles
\* one, END ends the table and Stop(acc) ends the loop early.
SectionsUntil(Stop(_), Section(_, _, _), d, p, start) ==
    LET RECURSIVE Loop(_)
        Loop(r) ==
            IF r.at = 0 \/ Stop(r.val) THEN r
            ELSE LET t == Tag(d, r.at)
                 IN  CASE t.at = 0              -> Fail
                       [] t.val = Property.END  -> Ok(t.at, r.val)
                       [] OTHER                 -> Loop(Section(t.val, t.at, r.val))
    IN  Loop(Ok(p, start))

Sections(Section(_, _, _), d, p, start) ==
    SectionsUntil(LAMBDA acc : FALSE, Section, d, p, start)

BitmapLen(n) == (n + BitmapBits - 1) \div BitmapBits

\* Bit i (counted from 0) of a bitmap, highest bit first; a bit past its end
\* is not set.
IsSet(bitmap, i) ==
    LET unit == i \div BitmapBits + 1
    IN  /\ unit \in DOMAIN bitmap
        /\ (bitmap[unit] \div 2^(BitmapBits - 1 - (i % BitmapBits))) % 2 = 1

\* n optional values, one unit for each that is defined.
DefinedValues(d, p, all, bitmap, n) ==
    FoldLeft(LAMBDA r, i :
                IF all # 0 \/ IsSet(bitmap, i - 1)
                THEN Then(r, LAMBDA q, vals :
                         Then(Unit(d, q), LAMBDA s, v : Ok(s, Append(vals, Some(v)))))
                ELSE Then(r, LAMBDA q, vals : Ok(q, Append(vals, None))),
             Ok(p, <<>>), [i \in 1..n |-> i])

ScanDigests(d, p, n) ==
    Then(Unit(d, p), LAMBDA q, all :
        IF all # 0 THEN Take(d, q, n)
        ELSE Then(Take(d, q, BitmapLen(n)), LAMBDA s, bitmap :
                 Take(d, s, Cardinality({i \in 0..(n - 1) : IsSet(bitmap, i)}))))

ParseDigests(d, p, n) ==
    Then(Unit(d, p), LAMBDA q, all :
    Then(Take(d, q, IF all = 0 THEN BitmapLen(n) ELSE 0), LAMBDA s, bitmap :
        DefinedValues(d, s, all, bitmap, n)))

-----------------------------------------------------------------------------
(* Folders. *)

CoderAt(d, p) ==
    Then(Unit(d, p), LAMBDA q, flags :
    Then(Take(d, q, flags % 16), LAMBDA s, id :
        LET Finish(u, ins, outs) ==
                LET coder == [method |-> id, ins |-> ins, outs |-> outs]
                IN  IF (flags \div 32) % 2 = 1 THEN SkipSection(d, u, coder) ELSE Ok(u, coder)
        IN  IF (flags \div 16) % 2 = 0
            THEN Finish(s, 1, 1)
            ELSE Then(Unit(d, s), LAMBDA u, ins :
                 Then(Unit(d, u), LAMBDA w, outs : Finish(w, ins, outs)))))

CodersAt(d, p, n) ==
    FoldLeft(LAMBDA r, k : Then(r, LAMBDA q, cs :
                               Then(CoderAt(d, q), LAMBDA s, c : Ok(s, Append(cs, c)))),
             Ok(p, <<>>), [k \in 1..n |-> k])

\* n stream numbers, below the bounds in turn.
StreamIndexes(d, p, n, bounds) ==
    Then(Take(d, p, n), LAMBDA q, s :
        IF \A k \in 1..n : s[k] < bounds[((k - 1) % Len(bounds)) + 1] THEN Ok(q, s) ELSE Fail)

\* A folder; scan_folder walks the same fields and keeps the number of outputs.
FolderAt(d, p) ==
    Then(Unit(d, p), LAMBDA q, n :
    IF n \notin 1..MaxFolderStreams THEN Fail ELSE
    Then(CodersAt(d, q, n), LAMBDA s, coders :
        LET ins    == SumOf([k \in DOMAIN coders |-> coders[k].ins])
            outs   == SumOf([k \in DOMAIN coders |-> coders[k].outs])
            packed == ins - (outs - 1)
        IN  IF \/ ins > MaxFolderStreams \/ outs > MaxFolderStreams
               \/ outs = 0 \/ packed < 0
            THEN Fail
            ELSE Then(StreamIndexes(d, s, 2 * (outs - 1), <<ins, outs>>), LAMBDA u, pairs :
                 Then(StreamIndexes(d, u, IF packed = 1 THEN 0 ELSE packed, <<ins>>),
                      LAMBDA w, listed :
                      Ok(w, [coders |-> coders, outs |-> outs, packed |-> listed,
                             pairs  |-> [k \in 1..(outs - 1) |->
                                           <<pairs[2 * k - 1], pairs[2 * k]>>]])))))

\* What stands in front of the folders: how many there are and, when they are
\* kept in an additional stream, its number.
FolderDeclaration(d, p) ==
    Then(Expect(d, p, Property.Folder), LAMBDA q, t :
    Then(Unit(d, q), LAMBDA s, count :
    Then(Unit(d, s), LAMBDA u, flag :
        CASE flag = 0 -> Ok(u, [count |-> count, index |-> None])
          [] flag = 1 -> Then(Unit(d, u), LAMBDA w, i : Ok(w, [count |-> count, index |-> Some(i)]))
          [] OTHER    -> Fail)))

\* The blocks of "count" folders and the number of their outputs.
FolderBlocks(d, p, count) ==
    FoldLeft(LAMBDA r, k : Then(r, LAMBDA q, v :
                 Then(FolderAt(d, q), LAMBDA s, f :
                     Ok(s, [outs   |-> v.outs + f.outs,
                            blocks |-> Append(v.blocks, SubSeq(d, q, s - 1))]))),
             Ok(p, [outs |-> 0, blocks |-> <<>>]), [k \in 1..count |-> k])

\* Folders in the header are behind the declaration, external ones in one of
\* the additional streams, of which the header keeps nothing.
FolderTable(d, p, ext) ==
    Then(FolderDeclaration(d, p), LAMBDA q, decl :
        IF decl.index = None THEN FolderBlocks(d, q, decl.count)
        ELSE IF decl.index[1] + 1 \notin DOMAIN ext THEN Fail
        ELSE Then(FolderBlocks(ext[decl.index[1] + 1], 1, decl.count), LAMBDA s, v : Ok(q, v)))

-----------------------------------------------------------------------------
(* Streams. *)

PackSizes(d, p) ==
    Then(Unit(d, p), LAMBDA q, pos :
    Then(Unit(d, q), LAMBDA s, n :
    Then(Expect(d, s, Property.Size), LAMBDA u, t :
    Then(Take(d, u, n), LAMBDA w, sizes : Ok(w, [pos |-> pos, sizes |-> sizes])))))

ScanPackInfo(d, p) ==
    Then(PackSizes(d, p), LAMBDA q, pack :
        Sections(LAMBDA t, at, acc :
                    IF t = Property.CRC
                    THEN Then(ScanDigests(d, at, Len(pack.sizes)), LAMBDA s, v : Ok(s, acc))
                    ELSE SkipSection(d, at, acc),
                 d, q, None))

\* Digests that were never given are None for every stream.
OrUndefined(digests, n) == IF digests = <<>> THEN [k \in 1..n |-> None] ELSE digests

ParsePackInfo(d, p) ==
    Then(PackSizes(d, p), LAMBDA q, pack :
    Then(Sections(LAMBDA t, at, digests :
                     IF t = Property.CRC THEN ParseDigests(d, at, Len(pack.sizes))
                     ELSE SkipSection(d, at, digests),
                  d, q, <<>>), LAMBDA s, digests :
        Ok(s, [pos |-> pack.pos, sizes |-> pack.sizes,
               digests |-> OrUndefined(digests, Len(pack.sizes))])))

ScanUnpackInfo(d, p, ext) ==
    Then(FolderTable(d, p, ext), LAMBDA q, folders :
        Sections(LAMBDA t, at, n :
                    CASE t = Property.CodersUnPackSize ->
                           Then(Take(d, at, folders.outs), LAMBDA s, v : Ok(s, n))
                      [] t = Property.CRC -> Then(ScanDigests(d, at, n), LAMBDA s, v : Ok(s, n))
                      [] OTHER -> SkipSection(d, at, n),
                 d, q, Len(folders.blocks)))

ParseUnpackInfo(d, p, ext) ==
    Then(FolderTable(d, p, ext), LAMBDA q, folders :
    Then(Sections(LAMBDA t, at, acc :
                     CASE t = Property.CodersUnPackSize ->
                            Then(Take(d, at, folders.outs), LAMBDA s, v :
                                Ok(s, [acc EXCEPT !.sizes = @ \o v]))
                       [] t = Property.CRC ->
                            Then(ParseDigests(d, at, Len(folders.blocks)), LAMBDA s, v :
                                Ok(s, [acc EXCEPT !.digests = v]))
                       [] OTHER -> SkipSection(d, at, acc),
                  d, q, [blocks |-> folders.blocks, sizes |-> <<>>, digests |-> <<>>]),
         LAMBDA s, u : Ok(s, [u EXCEPT !.digests = OrUndefined(@, Len(u.blocks))])))

\* One size less than streams for each folder: the last one is implicit.
SizeCount(counts) ==
    SumOf([k \in DOMAIN counts |-> IF counts[k] = 0 THEN 0 ELSE counts[k] - 1])

\* Faulty variant: a second table of counts adds to the sizes of the first.
ScanSubstreamInfoKeeps(d, p, n) ==
    Sections(LAMBDA t, at, acc :
                CASE t = Property.NumUnPackStream ->
                       Then(Take(d, at, n), LAMBDA q, counts :
                           Ok(q, [sizes |-> acc.sizes + SizeCount(counts), total |-> SumOf(counts)]))
                  [] t = Property.Size -> Then(Take(d, at, acc.sizes), LAMBDA q, v : Ok(q, acc))
                  [] t = Property.CRC ->
                       IF acc.total > MaxDigests THEN Fail
                       ELSE Then(ScanDigests(d, at, acc.total), LAMBDA q, v : Ok(q, acc))
                  [] OTHER -> SkipSection(d, at, acc),
             d, p, [sizes |-> 0, total |-> n])

ScanSubstreamInfo(d, p, n) ==
    Sections(LAMBDA t, at, acc :
                CASE t = Property.NumUnPackStream ->
                       Then(Take(d, at, n), LAMBDA q, counts :
                           Ok(q, [sizes |-> SizeCount(counts), total |-> SumOf(counts)]))
                  [] t = Property.Size -> Then(Take(d, at, acc.sizes), LAMBDA q, v : Ok(q, acc))
                  [] t = Property.CRC ->
                       IF acc.total > MaxDigests THEN Fail
                       ELSE Then(ScanDigests(d, at, acc.total), LAMBDA q, v : Ok(q, acc))
                  [] OTHER -> SkipSection(d, at, acc),
             d, p, [sizes |-> 0, total |-> n])

ParseSubstreamInfo(d, p, n) ==
    Sections(LAMBDA t, at, acc :
                CASE t = Property.NumUnPackStream ->
                       Then(Take(d, at, n), LAMBDA q, v : Ok(q, [acc EXCEPT !.counts = v]))
                  [] t = Property.Size ->
                       Then(Take(d, at, SizeCount(acc.counts)), LAMBDA q, v :
                           Ok(q, [acc EXCEPT !.sizes = @ \o v]))
                  [] t = Property.CRC ->
                       IF SumOf(acc.counts) > MaxDigests THEN Fail
                       ELSE Then(ParseDigests(d, at, SumOf(acc.counts)), LAMBDA q, v :
                                Ok(q, [acc EXCEPT !.digests = v]))
                  [] OTHER -> SkipSection(d, at, acc),
             d, p, [counts |-> [k \in 1..n |-> 1], sizes |-> <<>>, digests |-> <<>>])

\* acc is the number of folders seen so far.
ScanStreamInfo(d, p, ext) ==
    Sections(LAMBDA t, at, n :
                CASE t = Property.PackInfo ->
                       Then(ScanPackInfo(d, at), LAMBDA q, v : Ok(q, n))
                  [] t = Property.UnPackInfo -> ScanUnpackInfo(d, at, ext)
                  [] t = Property.SubStreamsInfo ->
                       Then(ScanSubstreamInfo(d, at, n), LAMBDA q, v : Ok(q, n))
                  [] OTHER -> SkipSection(d, at, n),
             d, p, 0)

ParseStreamInfo(d, p, ext) ==
    Sections(LAMBDA t, at, acc :
                CASE t = Property.PackInfo ->
                       Then(ParsePackInfo(d, at), LAMBDA q, v : Ok(q, [acc EXCEPT !.pack = Some(v)]))
                  [] t = Property.UnPackInfo ->
                       Then(ParseUnpackInfo(d, at, ext), LAMBDA q, v :
                           Ok(q, [acc EXCEPT !.unpack = Some(v)]))
                  [] t = Property.SubStreamsInfo ->
                       Then(ParseSubstreamInfo(d, at, IF acc.unpack = None THEN 0
                                                      ELSE Len(acc.unpack[1].blocks)),
                            LAMBDA q, v : Ok(q, [acc EXCEPT !.sub = Some(v)]))
                  [] OTHER -> SkipSection(d, at, acc),
             d, p, [pack |-> None, unpack |-> None, sub |-> None])

\* Does the first folder table keep its folders in an additional stream?  The
\* walk ends at its declaration.
UsesExternalFolders(d, p) ==
    SectionsUntil(
        LAMBDA found : found # None,
        LAMBDA t, at, found :
            CASE t = Property.UnPackInfo ->
                   Then(FolderDeclaration(d, at), LAMBDA q, decl : Ok(q, Some(decl.index # None)))
              [] t = Property.PackInfo -> Then(ScanPackInfo(d, at), LAMBDA q, v : Ok(q, found))
              [] t = Property.SubStreamsInfo ->
                   Then(ScanSubstreamInfo(d, at, 0), LAMBDA q, v : Ok(q, found))
              [] OTHER -> SkipSection(d, at, found),
        d, p, None)

-----------------------------------------------------------------------------
(* Files. *)

\* Faulty variant: the flag is looked for one unit too early.
ExternalFlagEarly(tag, block, n) ==
    LET at == IF tag = Property.Name THEN 1
              ELSE IF block = <<>> THEN 0
              ELSE IF block[1] = 0 THEN 1 + BitmapLen(n) ELSE 2
    IN  /\ tag \in ValueTags \cup {Property.Name}
        /\ at \in DOMAIN block
        /\ block[at] # 0

\* Does a property keep its values in an additional stream?  Its flag stands
\* first for names and behind the bitmap for values.
ExternalFlag(tag, block, n) ==
    LET at == IF tag = Property.Name THEN 1
              ELSE IF block = <<>> THEN 0
              ELSE IF block[1] = 0 THEN 2 + BitmapLen(n) ELSE 2
    IN  /\ tag \in ValueTags \cup {Property.Name}
        /\ at \in DOMAIN block
        /\ block[at] # 0

\* The scanner looks at the size of every property and at its flag.
ScanFilesInfo(d, p) ==
    Then(Expect(d, p, Property.FilesInfo), LAMBDA q, t :
    Then(Unit(d, q), LAMBDA s, n :
        Sections(LAMBDA tag, at, acc :
                    Then(Block(d, at), LAMBDA u, block :
                        Ok(u, [acc EXCEPT !.external = @ \/ ExternalFlag(tag, block, n)])),
                 d, s, [count |-> n, external |-> FALSE])))

\* The data of a property: behind the flag, or the additional stream it names.
PropertyData(payload, ext) ==
    IF payload = <<>> THEN Fail
    ELSE IF payload[1] = 0 THEN Ok(1, Tail(payload))
    ELSE IF Len(payload) = 2 /\ payload[2] + 1 \in DOMAIN ext
    THEN Ok(1, ext[payload[2] + 1])
    ELSE Fail

\* Every name ends with a 0, and nothing follows the last one.
ValidNames(data, n) ==
    /\ Cardinality({k \in DOMAIN data : data[k] = 0}) = n
    /\ data # <<>> => Last(data) = 0

\* n optional values: defined by the bitmap in front, the data used up exactly.
DefinedProperty(block, n, ext) ==
    Then(Unit(block, 1), LAMBDA q, all :
    Then(Take(block, q, IF all = 0 THEN BitmapLen(n) ELSE 0), LAMBDA s, bitmap :
    Then(PropertyData(SubSeq(block, s, Len(block)), ext), LAMBDA u, data :
    Then(DefinedValues(data, 1, all, bitmap, n), LAMBDA w, values :
        IF w = Len(data) + 1 THEN Ok(w, values) ELSE Fail))))

ParseFilesInfo(d, p, ext) ==
    LET Read(tag, block, n, acc) ==
            CASE tag = Property.Name ->
                   Then(PropertyData(block, ext), LAMBDA q, data :
                       IF ValidNames(data, n) THEN Ok(q, [acc EXCEPT !.names = data]) ELSE Fail)
              [] tag \in ValueTags ->
                   Then(DefinedProperty(block, n, ext), LAMBDA q, v :
                       Ok(q, [acc EXCEPT !.values[tag] = v]))
              [] tag \in BitTags -> Ok(1, [acc EXCEPT !.bits[tag] = block])
              [] OTHER -> Ok(1, acc)
        Supported == ValueTags \cup BitTags \cup {Property.Name}
    IN  Then(Expect(d, p, Property.FilesInfo), LAMBDA q, t :
        Then(Unit(d, q), LAMBDA s, n :
            Sections(LAMBDA tag, at, acc :
                        IF tag \in acc.seen THEN Fail
                        ELSE Then(Block(d, at), LAMBDA u, block :
                             Then(Read(tag, block, n, acc), LAMBDA w, read :
                                 Ok(u, [read EXCEPT !.seen = @ \cup ({tag} \cap Supported)]))),
                     d, s, [count  |-> n,
                            names  |-> <<>>,
                            values |-> [v \in ValueTags |-> <<>>],
                            bits   |-> [b \in BitTags |-> <<>>],
                            seen   |-> {}])))

\* FilesInfoNameSlices: the units of the i-th name.
NameOf(files, i) ==
    LET ends == SelectSeq([k \in DOMAIN files.names |-> k], LAMBDA k : files.names[k] = 0)
    IN  IF i \notin DOMAIN ends THEN None
        ELSE Some(SubSeq(files.names, IF i = 1 THEN 1 ELSE ends[i - 1] + 1, ends[i] - 1))

ValueOf(files, tag, i) == IF i \in DOMAIN files.values[tag] THEN files.values[tag][i] ELSE None

IsEmptyStream(files, i) == IsSet(files.bits[Property.EmptyStream], i - 1)

\* The flags of entries without a stream are kept in the order of these entries.
EmptyBit(files, tag, i) ==
    /\ IsEmptyStream(files, i)
    /\ IsSet(files.bits[tag], Cardinality({j \in 1..(i - 1) : IsEmptyStream(files, j)}))

EntryKind(files, i) ==
    LET attributes == ValueOf(files, Property.Attributes, i)
        symlink    == attributes # None /\ attributes[1] \in SymlinkAttributes
    IN  CASE EmptyBit(files, Property.Anti, i)      -> "Anti"
          [] ~ IsEmptyStream(files, i)              -> IF symlink THEN "Symlink" ELSE "File"
          [] symlink                                -> "EmptySymlink"
          [] EmptyBit(files, Property.EmptyFile, i) -> "EmptyFile"
          [] OTHER                                  -> "Directory"

-----------------------------------------------------------------------------
(* Folder layouts. *)

\* The sizes and digests of a folder's streams; the last size is implicit.
StreamLayout(size, count, explicit, digests) ==
    IF \/ digests # <<>> /\ Len(digests) # count
       \/ SumOf(explicit) > size
    THEN Fail
    ELSE Ok(1, [j \in 1..count |->
                  [size   |-> IF j < count THEN explicit[j] ELSE size - SumOf(explicit),
                   digest |-> IF digests = <<>> THEN None ELSE digests[j]]])

\* Folder k, already parsed, with its share of the tables: w.pack, w.out, w.sizes
\* and w.digests say how much of them the folders before took.
FolderLayout(streams, w, k, folder, graph) ==
    LET pack   == streams.pack[1]
        unpack == streams.unpack[1]
        packs  == Len(graph.packed)
        count  == IF streams.sub = None THEN 1 ELSE streams.sub[1].counts[k]
        sized  == IF count = 0 THEN 0 ELSE count - 1
        sizes  == IF streams.sub = None THEN Ok(1, <<>>)
                  ELSE Take(streams.sub[1].sizes, w.sizes + 1, sized)
        digests == IF streams.sub = None THEN Ok(1, <<unpack.digests[k]>>)
                   ELSE IF streams.sub[1].digests = <<>> THEN Ok(1, <<>>)
                   ELSE Take(streams.sub[1].digests, w.digests + 1, count)
    IN  IF ~ graph.ok \/ (streams.sub # None /\ k \notin DOMAIN streams.sub[1].counts)
        THEN Fail ELSE
        Then(Take(pack.sizes, w.pack + 1, packs), LAMBDA q1, packSizes :
        Then(Take(unpack.sizes, w.out + 1, folder.outs), LAMBDA q2, coderSizes :
        Then(sizes, LAMBDA q3, explicit :
        Then(digests, LAMBDA q4, crcs :
        Then(StreamLayout(coderSizes[graph.final], count, explicit, crcs), LAMBDA q5, layout :
            Ok(1, [pack    |-> w.pack + packs,
                   out     |-> w.out + folder.outs,
                   sizes   |-> w.sizes + sized,
                   digests |-> w.digests + count,
                   folders |-> Append(w.folders,
                       [coders  |-> folder.coders,
                        packs   |-> packSizes,
                        start   |-> SumOf(SubSeq(pack.sizes, 1, w.pack)),
                        sizes   |-> coderSizes,
                        size    |-> coderSizes[graph.final],
                        crc     |-> unpack.digests[k],
                        streams |-> layout])]))))))

\* FolderPlans::next_folder
NextFolder(streams, r, k) ==
    Then(r, LAMBDA at, w :
    Then(FolderAt(streams.unpack[1].blocks[k], 1), LAMBDA q, folder :
        FolderLayout(streams, w, k, folder, Graph(folder))))

\* The first n folders.
FirstFolders(streams, n) ==
    LET walk(r, k) == NextFolder(streams, r, k)
    IN  FoldLeft(walk, Ok(1, [pack |-> 0, out |-> 0, sizes |-> 0, digests |-> 0,
                              folders |-> <<>>]),
                 [k \in 1..n |-> k])

\* StreamInfo::packed_folders
HasPackedFolders(streams) == streams.pack # None /\ streams.unpack # None

\* Every table is used up by the folders, no more and no less.
Layouts(streams) ==
    IF ~ HasPackedFolders(streams) THEN Fail
    ELSE LET sub == streams.sub
         IN  Then(FirstFolders(streams, Len(streams.unpack[1].blocks)), LAMBDA at, w :
             IF /\ w.pack = Len(streams.pack[1].sizes)
                /\ w.out = Len(streams.unpack[1].sizes)
                /\ Len(streams.pack[1].digests) \in {0, w.pack}
                /\ sub # None => /\ Len(sub[1].counts) = Len(w.folders)
                                 /\ Len(sub[1].sizes) = w.sizes
                                 /\ Len(sub[1].digests) \in {0, w.digests}
             THEN Ok(1, w.folders) ELSE Fail)

OutputSize(folders) == SumOf([k \in DOMAIN folders |-> folders[k].size])

\* Preflight for metadata: what goes in and what comes out stay below a limit.
\* The packed sizes are looked at before any folder, the output size after each
\* folder, so a folder past the limit is never parsed.
Preflight(streams, limit) ==
    LET TooMuchAfter(n) == LET r == FirstFolders(streams, n)
                           IN  r.at # 0 /\ OutputSize(r.val.folders) > limit
        Refused(why)    == [at |-> 0, why |-> why]
    IN  IF ~ HasPackedFolders(streams) THEN Refused("parseError")
        ELSE IF \/ SumOf(streams.pack[1].sizes) > limit
                \/ \E n \in DOMAIN streams.unpack[1].blocks : TooMuchAfter(n)
        THEN Refused("limitError")
        ELSE IF Layouts(streams).at = 0 THEN Refused("parseError")
        ELSE Layouts(streams)
=============================================================================
