-------------------------- MODULE MCExtractCommand --------------------------
(***************************************************************************)
(* Archives in which names collide in a directory, with and without their  *)
(* paths, and whose entries or folders may be damaged; a destination of    *)
(* files, directories and links under these names.                         *)
(***************************************************************************)
EXTENDS ExtractCommand

D == <<"d">>
X == <<"x">>
DX == <<"d", "x">>

(* Folders 1 and 3 have no checksum of their own; 3 and 4 end badly. *)
MCArchives ==
  {<<Entry("Directory", D, 0, TRUE), Entry("Stream", DX, 1, s), Entry("Stream", X, 1, t),
     Entry("Empty", DX, 0, TRUE)>> : s \in BOOLEAN, t \in BOOLEAN}
  \cup {<<Entry("Stream", X, 1, s), Entry("Anti", D, 0, TRUE), Entry("Stream", DX, 2, t),
          Entry("Stream", X, 2, TRUE)>> : s \in BOOLEAN, t \in BOOLEAN}
  \cup {<<Entry("Stream", D, 1, TRUE), Entry("Directory", D, 0, TRUE), Entry("Stream", DX, 2, TRUE)>>,
        <<Entry("Stream", X, 3, TRUE), Entry("Stream", DX, 3, TRUE), Entry("Stream", D, 4, TRUE)>>,
        <<Entry("Empty", X, 0, TRUE), Entry("Stream", Unsafe, 1, TRUE)>>,
        <<>>}

MCPaths == {D, X, DX}
Tree(d, x, dx) == [p \in MCPaths |-> IF p = D THEN d ELSE IF p = X THEN x ELSE dx]

MCTrees ==
  {Tree(Missing, Missing, Missing), Tree(Directory, File(0, TRUE), File(0, TRUE)),
   Tree(File(0, TRUE), Link, Missing), Tree(Link, Directory, Missing)}

Command(cmd, pick, overwrite, yes, tty) ==
  [cmd |-> cmd, pick |-> pick, mode |-> overwrite, yes |-> yes, tty |-> tty]

MCCommands ==
  {Command(c, {}, m, FALSE, FALSE) : c \in {"x", "e"}, m \in {"Overwrite", "SkipExisting"}}
  \cup {Command(c, {}, "Ask", y, t) : c \in {"x", "e"}, y \in BOOLEAN, t \in BOOLEAN}
  \cup {Command("x", {3}, "Overwrite", FALSE, FALSE), Command("x", {1, 2}, "Ask", FALSE, TRUE),
        Command("all", {}, "Overwrite", FALSE, FALSE)}
  \cup {Command("t", p, "Ask", FALSE, FALSE) : p \in {{}, {1}, {2}, {3}, {1, 3}, {4}}}
  \cup {Command(c, {0}, "Ask", FALSE, FALSE) : c \in {"x", "t"}}
=============================================================================
