--------------------------- MODULE MC_MetadataScan ---------------------------
(* Model values and small sets for checking MetadataScan with TLC.         *)
EXTENDS MetadataScan

CONSTANTS S1, c1, s1, p1, v1, v2, vd

MCSchemas == {S1}
MCCheckpoints == {c1}
MCSourceStates == {s1}
MCPushNames == {p1}
MCVocabs == {v1, v2}
====
