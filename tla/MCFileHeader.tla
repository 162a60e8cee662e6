---------------------------- MODULE MCFileHeader ----------------------------
(* Instance of FileHeader for TLC: an eight-sector disk of 4-byte sectors *)
(* with two sector numbers per index sector; sectors 0 (free map) and 1   *)
(* (root directory header) are set at format.  Sizes 0, 4 and 9 bytes    *)
(* give files of no list, one list and two lists (the second list part   *)
(* full), and two files can exhaust the six free sectors.                *)
EXTENDS FileHeader

MCFiles == {"f1", "f2"}
MCFileSizes == {0, 4, 9}
MCReserved == {0, 1}
=============================================================================
