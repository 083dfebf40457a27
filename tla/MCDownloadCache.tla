-------------------------- MODULE MCDownloadCache ---------------------------
(***************************************************************************)
(* Instances of DownloadCache for TLC.                                     *)
(***************************************************************************)
EXTENDS DownloadCache, TLC

CONSTANTS h1, h2, u1, u2, c1, c2

TwoHandlers == {h1, h2}
OneHandler == {h1}
OneUrl == {u1}
TwoUrls == {u1, u2}
OneSum == {c1}
TwoSums == {c1, c2}

\* Calls, URLs and checksums are only compared for equality.
Symmetry ==
  Permutations(TwoHandlers) \cup Permutations(TwoUrls) \cup Permutations(TwoSums)
=============================================================================
