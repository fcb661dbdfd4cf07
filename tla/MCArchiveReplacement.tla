------------------------ MODULE MCArchiveReplacement ------------------------
(***************************************************************************)
(* Three processes: the first and the second can split, the second into    *)
(* fewer volumes than the first; the third cannot.                         *)
(***************************************************************************)
EXTENDS ArchiveReplacement

MCSize == <<4, 3, 2>>
MCVolumeSizes == <<<<1>>, <<2>>, <<>>>>
=============================================================================
