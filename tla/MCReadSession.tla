---------------------------- MODULE MCReadSession ----------------------------
(***************************************************************************)
(* A small archive for TLC: folder 1 holds substreams 1 and 2 and has no   *)
(* digest of its own, folder 2 holds 3 and 4 (4 is empty data) and has     *)
(* one.  Entries 3 and 4 carry no data.                                    *)
(***************************************************************************)
EXTENDS ReadSession

MCKind == <<"stream", "stream", "empty", "directory", "stream", "stream">>
MCStreamOf == [e \in 0 .. 6 |-> Cardinality({d \in 1 .. e : MCKind[d] = "stream"})]
MCFirstStream == <<1, 3, 5>>
MCFolderOf == <<1, 1, 2, 2>>
MCSize == <<1, 2, 1, 0>>
MCEnd == <<1, 3, 1, 1>>
MCUnpack == <<3, 1>>

Sound(n) == [len |-> n, ends |-> "eof", corrupt |-> {}]

(* Sound data, or one fault: a corrupt chunk, data that stops short, goes  *)
(* on too long or ends in an error.                                        *)
MCDamages ==
  {<<a, Sound(1)>> : a \in {Sound(3), Sound(2), [Sound(3) EXCEPT !.ends = "error"],
                            [Sound(3) EXCEPT !.corrupt = {0}]}}
  \cup {<<Sound(3), b>> : b \in {Sound(2), [Sound(1) EXCEPT !.corrupt = {0}]}}

MixedDamages == {<<Sound(3), Sound(1)>>, <<Sound(2), [Sound(1) EXCEPT !.corrupt = {0}]>>}

SoundOnly == {<<Sound(3), Sound(1)>>}
=============================================================================
