------------------------ MODULE MCReferencePublication ------------------------
(* Instances of ReferencePublication for TLC. *)
EXTENDS ReferencePublication, TLC

CONSTANTS hourly, imported, end1, end2, end3, chunk1

MCPublishers == {hourly, imported}
MCIntervals == {end1, end2, end3}
MCChunks == {chunk1}

\* Publishers and intervals are only compared for equality.
MCSymmetry ==
  Permutations(MCPublishers) \cup Permutations(MCIntervals)

=============================================================================
