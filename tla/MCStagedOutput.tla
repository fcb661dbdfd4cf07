--------------------------- MODULE MCStagedOutput ---------------------------
(***************************************************************************)
(* Options for TLC: every spool mode with limits that are absent, met      *)
(* exactly and exceeded, and volume sizes that the archives fill exactly,  *)
(* overfill and do not fill.                                               *)
(***************************************************************************)
EXTENDS StagedOutput

WriterOptions ==
  {o \in [target : {"writer"}, threshold : {None, 0, 2, 9}, retained : {None, 1, 3},
          temporary : {None, 3, 4, 5}, maxVolumes : {None}, maxOpen : {1}, sizes : {<<>>}] :
     o.threshold = None => o.temporary = None}

VolumeChoices ==
  {o \in [target : {"volumes"}, threshold : {None, 0}, retained : {None}, temporary : {None},
          maxVolumes : {None, 2}, maxOpen : {1},
          sizes : {<<1>>, <<2>>, <<1, 2>>, <<3, 1>>, <<2, 1, 2>>}] :
     o.threshold = 0 => o.sizes = <<2>>}

MCOptions == WriterOptions \cup VolumeChoices
=============================================================================
