---------------------------- MODULE HeaderWriter ----------------------------
(***************************************************************************)
(* The header a writer builds (src/src/write/header.rs), in the units of   *)
(* HeaderTables.  An entry has a name, a kind ("File", "Directory" or      *)
(* "Anti"), a stream or none, and optional values; a completed folder has  *)
(* its coders, the sizes of its packed streams and coder outputs, the      *)
(* sizes and CRCs of its files, and an optional CRC of its own.            *)
(***************************************************************************)
EXTENDS HeaderTables

CONSTANT EpochTicks     \* from 1601 to 1970

ASSUME EpochAssumption == EpochTicks \in Nat

\* A time is a number of ticks since 1970, negative before.
FileTime(t) == IF t < 0 THEN 0 ELSE t + EpochTicks

(* The coders a writer uses: an identifier and properties. *)
Copy        == [id |-> <<0>>, props |-> <<>>]
Lzma(props) == [id |-> <<3, 1, 1>>, props |-> props]
Lzma2(prop) == [id |-> <<33>>, props |-> <<prop>>]
Ppmd(props) == [id |-> <<3, 4, 1>>, props |-> props]
Bcj         == [id |-> <<3, 3, 1, 3>>, props |-> <<>>]
Aes(props)  == [id |-> <<6, 241, 7, 1>>, props |-> props]

CoderUnits(coder) ==
    IF coder.props = <<>>
    THEN <<Len(coder.id)>> \o coder.id
    ELSE <<Len(coder.id) + 32>> \o coder.id \o <<Len(coder.props)>> \o coder.props

\* A chain: coder k + 1 reads what coder k puts out.
CoderInfo(chain) ==
    <<Len(chain)>>
    \o FlattenSeq([k \in DOMAIN chain |-> CoderUnits(chain[k])])
    \o FlattenSeq([k \in 1..(Len(chain) - 1) |-> <<k, k - 1>>])

\* Faulty variant: the lowest bit stands for the first value.
BoolsLowFirst(values) ==
    [u \in 1..BitmapLen(Len(values)) |->
        SumOf([b \in 1..BitmapBits |->
            LET i == (u - 1) * BitmapBits + b
            IN  IF i \in DOMAIN values /\ values[i] THEN 2^(b - 1) ELSE 0])]

\* bools_to_bytes
Bools(values) ==
    [u \in 1..BitmapLen(Len(values)) |->
        SumOf([b \in 1..BitmapBits |->
            LET i == (u - 1) * BitmapBits + b
            IN  IF i \in DOMAIN values /\ values[i] THEN 2^(BitmapBits - b) ELSE 0])]

Defined(values) == [i \in DOMAIN values |-> values[i] # None]

\* The flag that all are defined, or the bitmap of those that are.
DefinedUnits(values) ==
    IF \A i \in DOMAIN values : values[i] # None THEN <<1>> ELSE <<0>> \o Bools(Defined(values))

OptionalCrcs(crcs) ==
    IF \A i \in DOMAIN crcs : crcs[i] = None THEN <<>>
    ELSE <<Property.CRC>> \o DefinedUnits(crcs) \o FlattenSeq(crcs)

PerFolder(folders, Units(_)) == FlattenSeq([f \in DOMAIN folders |-> Units(folders[f])])

WritePackInfo(folders) ==
    LET sizes == PerFolder(folders, LAMBDA f : f.packs)
    IN  <<Property.PackInfo, 0, Len(sizes), Property.Size>> \o sizes \o <<Property.END>>

WriteUnpackInfo(folders) ==
    <<Property.UnPackInfo, Property.Folder, Len(folders), 0>>
    \o PerFolder(folders, LAMBDA f : CoderInfo(f.chain))
    \o <<Property.CodersUnPackSize>> \o PerFolder(folders, LAMBDA f : f.sizes)
    \o OptionalCrcs([f \in DOMAIN folders |-> folders[f].crc])
    \o <<Property.END>>

WriteSubstreamsInfo(folders) ==
    <<Property.SubStreamsInfo>>
    \o (IF \E f \in DOMAIN folders : Len(folders[f].files) # 1
        THEN <<Property.NumUnPackStream>> \o PerFolder(folders, LAMBDA f : <<Len(f.files)>>)
        ELSE <<>>)
    \o (IF \E f \in DOMAIN folders : Len(folders[f].files) > 1
        THEN <<Property.Size>>
             \o PerFolder(folders, LAMBDA f : SubSeq(f.files, 1, Len(f.files) - 1))
        ELSE <<>>)
    \o OptionalCrcs(PerFolder(folders, LAMBDA f : f.crcs))
    \o <<Property.END>>

Sized(tag, units) == <<tag, Len(units)>> \o units

BitProperty(tag, values) ==
    IF \E i \in DOMAIN values : values[i] THEN Sized(tag, Bools(values)) ELSE <<>>

\* The flags of entries without a stream, in the order of these entries.
WriteEmptyProperties(entries) ==
    LET empty == SelectSeq(entries, LAMBDA e : ~ e.stream)
        Kind(k) == [i \in DOMAIN empty |-> empty[i].kind = k]
    IN  BitProperty(Property.EmptyStream, [i \in DOMAIN entries |-> ~ entries[i].stream])
        \o BitProperty(Property.EmptyFile, Kind("File"))
        \o BitProperty(Property.Anti, Kind("Anti"))

WriteNames(entries) ==
    Sized(Property.Name,
          <<0>> \o FlattenSeq([i \in DOMAIN entries |-> entries[i].name \o <<0>>]))

WriteValues(tag, values) ==
    IF \A i \in DOMAIN values : values[i] = None THEN <<>>
    ELSE Sized(tag, DefinedUnits(values) \o <<0>> \o FlattenSeq(values))

\* What is kept of a value: times are converted, the others are not.
Stored(tag, value) ==
    IF value # None /\ tag \in {Property.CTime, Property.ATime, Property.MTime}
    THEN Some(FileTime(value[1])) ELSE value

WriteFilesInfo(entries) ==
    LET Values(tag) == WriteValues(tag, [i \in DOMAIN entries |-> Stored(tag, entries[i].values[tag])])
    IN  <<Property.FilesInfo, Len(entries)>>
        \o WriteEmptyProperties(entries)
        \o WriteNames(entries)
        \o Values(Property.CTime) \o Values(Property.ATime) \o Values(Property.MTime)
        \o Values(Property.StartPos) \o Values(Property.Attributes)
        \o <<Property.END>>

BuildHeader(entries, folders) ==
    <<Property.Header>>
    \o (IF folders = <<>> THEN <<>>
        ELSE <<Property.MainStreamsInfo>> \o WritePackInfo(folders) \o WriteUnpackInfo(folders)
             \o WriteSubstreamsInfo(folders) \o <<Property.END>>)
    \o WriteFilesInfo(entries)
    \o <<Property.END>>

\* The descriptor of an encoded header: one packed stream, one folder.
EncodedDescriptor(pos, packed, chain, sizes) ==
    <<Property.EncodedHeader, Property.PackInfo, pos, 1, Property.Size, packed, Property.END,
      Property.UnPackInfo, Property.Folder, 1, 0>>
    \o CoderInfo(chain)
    \o <<Property.CodersUnPackSize>> \o sizes
    \o <<Property.END, Property.END>>
=============================================================================
