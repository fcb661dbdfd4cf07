---------------------------- MODULE AtomicArchive ----------------------------
(***************************************************************************)
(* What a, u and d promise about the file they rewrite: there is no        *)
(* archive or a complete one at every moment, and each change installs the *)
(* edits of one version that was there before, with those of one command.  *)
(***************************************************************************)
EXTENDS Naturals

CONSTANT Writers

VARIABLES
  edits,   \* the commands whose edits the archive holds
  past     \* all versions so far; {} is no archive

Init == edits = {} /\ past = {{}}

Commit(w) ==
  /\ \E base \in past : edits' = base \cup {w}
  /\ past' = past \cup {edits'}

Next == \E w \in Writers : Commit(w)

Spec == Init /\ [][Next]_<<edits, past>>
=============================================================================
