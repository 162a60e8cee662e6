----------------------------- MODULE MCDirectory -----------------------------
(* Instance of Directory for TLC: one name besides the empty one (two     *)
(* names a table can hold apart), tables of two entries, paths of up to   *)
(* two components.  Sector 0 is the free map, sector 1 the root           *)
(* directory, sectors 2..4 are free, so the disk, the root table and a    *)
(* subdirectory table can each be filled.                                 *)
EXTENDS Directory

MCNames == {"a"}
MCSectors == 0 .. 3
MCReserved == {0, 1}

(* Names no longer than FileNameMaxLen = 9 are kept whole. *)
MCStored(n) == n

(* Two leaves of ten characters that agree in their first nine: strncpy  *)
(* keeps "abcdefghi" of either, and the root key "/" \o leaf keeps its   *)
(* first nine bytes.                                                     *)
MCLongNames == {"abcdefghiX", "abcdefghiY"}
MCStoredLong(n) ==
  CASE n \in MCLongNames                    -> "abcdefghi"
    [] n \in {"/" \o x : x \in MCLongNames} -> "/abcdefgh"
    [] OTHER                                -> n
=============================================================================
