--------------------------- MODULE MCArchiveOpening -------------------------
(* Small archives of this writer and of others for ArchiveOpening. *)
EXTENDS ArchiveOpening

MCArity == [m \in {<<0>>, <<33>>, <<3, 1, 1>>, <<3, 3, 1, 3>>, <<6, 241, 7, 1>>} |-> <<1, 1>>]

NoValues == [t \in ValueTags |-> None]
Values(mtime, attributes) ==
    [NoValues EXCEPT ![Property.MTime] = mtime, ![Property.Attributes] = attributes]
Entry(name, kind, stream, values) ==
    [name |-> name, kind |-> kind, stream |-> stream, values |-> values]
OneFolder(chain, sizes, files, crcs, crc) ==
    [chain |-> chain, packs |-> <<2>>, sizes |-> sizes, files |-> files, crcs |-> crcs, crc |-> crc]

Written(entries, folders) ==
    [written |-> TRUE, entries |-> entries, folders |-> folders,
     units |-> BuildHeader(entries, folders)]

\* Files of one unit and no name in one folder.
Small(crcs) ==
    Written([j \in DOMAIN crcs |-> Entry(<<>>, "File", TRUE, NoValues)],
            <<OneFolder(<<Copy>>, <<Len(crcs)>>, [j \in DOMAIN crcs |-> 1], crcs, None)>>)

Other(units) == [written |-> FALSE, entries |-> <<>>, folders |-> <<>>, units |-> units]

MCArchives ==
    { Written(<<>>, <<>>),
      Written(<<Entry(<<7>>, "Directory", FALSE, NoValues),
                Entry(<<8>>, "File", TRUE, Values(Some(4), None)),
                Entry(<<8, 9>>, "Anti", FALSE, Values(None, Some(3))),
                Entry(<<5>>, "File", TRUE, NoValues),
                Entry(<<6>>, "File", FALSE, Values(Some(0 - 4), Some(7))),
                Entry(<<4>>, "File", TRUE, Values(None, Some(9)))>>,
              <<OneFolder(<<Lzma2(1)>>, <<5>>, <<2, 3>>, <<Some(7), None>>, None),
                OneFolder(<<Copy>>, <<3>>, <<3>>, <<None>>, Some(8))>>),
      Written(<<Entry(<<7>>, "File", FALSE, Values(None, Some(9))),
                Entry(<<>>, "File", TRUE, Values(Some(2), Some(3)))>>,
              <<OneFolder(<<Aes(<<1>>), Lzma2(1), Bcj>>, <<3, 4, 4>>, <<4>>, <<Some(7)>>, None),
                OneFolder(<<Copy>>, <<2>>, <<>>, <<>>, Some(3))>>),
      \* As many files as a table of CRCs may cover, one more, and one more
      \* without any CRC.
      Small(<<Some(7), None, Some(8), None>>),
      Small(<<Some(7), None, Some(8), None, None>>),
      Small(<<None, None, None, None, None>>),
      \* A name with a NUL in it.
      Written(<<Entry(<<8, 0, 9>>, "Directory", FALSE, NoValues)>>, <<>>),
      \* Folders and names in two additional streams of one folder.
      Other(<<1, 3, 6, 0, 1, 9, 5, 0, 7, 11, 1, 0, 1, 1, 0, 12, 5, 0, 8, 13, 2, 9, 3, 0, 0,
              4, 6, 0, 1, 9, 4, 0, 7, 11, 1, 1, 0, 12, 4, 0, 0,
              5, 1, 17, 2, 1, 1, 0, 0>>),
      \* Some times in an additional stream, behind a bitmap; streams before.
      Other(<<1, 4, 6, 0, 1, 9, 2, 0, 7, 11, 1, 0, 1, 1, 0, 12, 2, 0, 0,
              3, 6, 0, 1, 9, 2, 0, 7, 11, 1, 0, 1, 1, 0, 12, 2, 10, 1, 5, 0, 0,
              5, 3, 20, 5, 0, 3, 0, 1, 0, 25, 1, 0, 0, 0>>),
      \* Counts given twice, digests of some streams, sections nobody knows.
      Other(<<1, 2, 9, 1, 1, 0, 22, 1, 0,
              4, 6, 0, 1, 9, 2, 10, 0, 2, 5, 0, 7, 11, 1, 0, 1, 1, 0, 12, 9, 0,
              8, 13, 2, 13, 3, 9, 2, 3, 10, 0, 2, 2, 7, 8, 0, 0,
              5, 1, 14, 1, 2, 0, 0>>) }

MCExternalBlocks == {<<1, 1, 0, 7, 0>>, <<7, 0>>, <<5, 6>>}
MCUnits == {0, 1, 2, 3, 5, 9, 10, 12, 13, 14, 17, 20, 26, 33}
=============================================================================
