--------------------------- MODULE MCArchiveUpdate ---------------------------
(***************************************************************************)
(* Three paths for TLC, the third in the directory that the second may be. *)
(* The sources have two solid folders with entries that carry no data      *)
(* between them; one of them cannot be decoded.                            *)
(***************************************************************************)
EXTENDS ArchiveUpdate

Item(name, block, first, size) == [name |-> name, block |-> block, first |-> first, size |-> size]

MCSources ==
  {[folders |-> << << <<0, 1>>, <<0, 3>>, <<0, 3>> >>, << <<0, 4>> >> >>, opaque |-> {2},
    entries |-> <<Item(1, 1, 0, 1), Item(2, 0, 0, 0), Item(4, 1, 1, 2), Item(5, 2, 0, 1)>>],
   [folders |-> << << <<0, 1>> >>, << <<0, 2>>, <<0, 2>>, <<0, 3>> >> >>, opaque |-> {1},
    entries |-> <<Item(4, 1, 0, 1), Item(5, 2, 0, 2), Item(3, 2, 2, 1), Item(1, 0, 0, 0)>>]}

MCKids == <<{}, {3}, {}>>

MCFile(kind, len) == [kind |-> kind, len |-> len, version |-> 0]

MCDisks ==
  {<<MCFile("file", 2), MCFile("dir", 0), MCFile("link", 1)>>,
   <<MCFile("file", 1), MCFile("file", 0), MCFile("missing", 0)>>,
   <<MCFile("missing", 0), MCFile("file", 1), MCFile("other", 0)>>}

MCJob(cmd, ops, names, wanted, raw) ==
  [cmd |-> cmd, operands |-> ops, names |-> names, request |-> wanted, raws |-> raw]

Commands ==
  {MCJob(c, o, {}, <<>>, {}) : c \in {"create", "update"}, o \in {<<1>>, <<2, 1>>, <<Glob>>}}
  \cup {MCJob("delete", <<>>, n, <<>>, {}) : n \in {{}, {1}, {4}, {1, 5}, {3, 4}}}

(* Requests of library callers against both sources: right and wrong       *)
(* folders, entries, sizes, orders and handles.                            *)
Streams ==
  {NoStream, Data(<<<<1, 0>>>>), Raw(0, 1, 1)}
  \cup {Raw(f, e, n) : f \in {1, 2}, e \in {1, 3, 4}, n \in {1, 2}}

(* The entries of the first source as they are, in any order and number. *)
GoodStreams == {Data(<<<<1, 0>>>>), Raw(1, 1, 1), Raw(1, 3, 2), Raw(2, 4, 1)}

Request(r, raw) == MCJob("library", <<>>, {}, r, raw)

Requests ==
  {Request(r, f) : r \in UNION {[1 .. n -> Streams] : n \in 1 .. 2},
                  f \in {{}, {1}, {1, 2}, {0, 2}}}
  \cup {Request(r, {1, 2}) : r \in UNION {[1 .. n -> GoodStreams] : n \in 3 .. 5}}

MCJobs == Commands \cup Requests

MCSolids == {[mode |-> "Solid", maxFiles |-> 0, maxBytes |-> 0],
             [mode |-> "Limit", maxFiles |-> 0, maxBytes |-> 2]}
=============================================================================
