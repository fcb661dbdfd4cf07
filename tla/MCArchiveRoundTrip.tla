-------------------------- MODULE MCArchiveRoundTrip --------------------------
(***************************************************************************)
(* Solid modes for TLC: no limit, one file per folder, a limit in files, a *)
(* limit in chunks and both.                                               *)
(***************************************************************************)
EXTENDS ArchiveRoundTrip

MCSolids ==
  {[mode |-> "Solid", maxFiles |-> 0, maxBytes |-> 0],
   [mode |-> "NonSolid", maxFiles |-> 0, maxBytes |-> 0],
   [mode |-> "Limit", maxFiles |-> 2, maxBytes |-> 0],
   [mode |-> "Limit", maxFiles |-> 0, maxBytes |-> 2],
   [mode |-> "Limit", maxFiles |-> 3, maxBytes |-> 3]}
=============================================================================
