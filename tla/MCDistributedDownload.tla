----------------------- MODULE MCDistributedDownload ------------------------
(***************************************************************************)
(* Instances of DistributedDownload for TLC.                               *)
(***************************************************************************)
EXTENDS DistributedDownload, TLC

CONSTANTS s1, s2

TwoSubtasks == {s1, s2}
OneSubtask == {s1}
NoSubtasks == {}

Symmetry == Permutations(TwoSubtasks)
=============================================================================
