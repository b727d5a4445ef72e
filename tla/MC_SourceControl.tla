--------------------------- MODULE MC_SourceControl ---------------------------
(* An instance of SourceControl for TLC.                                    *)
EXTENDS SourceControl

CONSTANTS r1, s1, s2, c1, c2, h1, h2, p1, i1, i2, main, m1
=============================================================================
