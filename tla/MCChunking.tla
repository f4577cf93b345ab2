----------------------------- MODULE MCChunking -----------------------------
(***************************************************************************)
(* Every document of two short pages, under every setting up to four.      *)
(***************************************************************************)
EXTENDS Chunking

CONSTANTS LastPosition, LargestSize

MCDocuments == {<<p, q>> : p \in SUBSET (1 .. LastPosition), q \in {{}, {2, 3, 6}}}

MCSettings ==
    {s \in [size : 1 .. LargestSize, overlap : 0 .. LargestSize] :
        s.overlap < s.size}
=============================================================================
