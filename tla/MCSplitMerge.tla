--------------------------- MODULE MCSplitMerge ---------------------------
(* Instance of SplitMerge for TLC: an empty, a three-byte and an eleven-byte *)
(* file.  The last gives chunk numbers of two digits; it is split in one way *)
(* only, and the others in all ways.                                        *)
EXTENDS SplitMerge

MCJobs ==
  [file : {0, 3}, size : {1, 2}, prefix : ChunkPrefixes, pad : {1, 2}]
    \cup [file : {11}, size : {1}, prefix : {"chunk"}, pad : {1}]
=============================================================================
