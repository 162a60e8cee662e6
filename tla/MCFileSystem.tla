---------------------------- MODULE MCFileSystem ----------------------------
(* Instance of FileSystem for TLC: one name besides the empty one, tables *)
(* of two entries, paths of up to two components; nine sectors of which  *)
(* the free map takes 0 and the root 1 (header), 2 (index) and 3 (table), *)
(* one sector number per index sector.  A directory takes three sectors   *)
(* and an empty regular file one, so the five free sectors run out after  *)
(* one directory and two files, and a second directory with two sectors   *)
(* left passes Allocate's check and then runs out midway.                 *)
EXTENDS FileSystem

MCNames == {"a"}
MCStored(n) == n
MCReserved == {0, 1}
MCFileSizes == {0}

(* Bound: file-system calls in a behaviour.  Two calls leave an entry    *)
(* naming a freed header, three make a directory its own child, and four *)
(* fill the disk so that Allocate runs out midway.                       *)
MaxCalls == 4
CallsBound == calls <= MaxCalls
=============================================================================
