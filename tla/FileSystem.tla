----------------------------- MODULE FileSystem -----------------------------
(***************************************************************************)
(* The directory layer (Directory) and the file header (FileHeader) over  *)
(* one disk and one free-sector bitmap, driven by the file system's       *)
(* Create and Remove.  The file system is not part of src/; its calls     *)
(* are modelled from the spec (sections 3, 4.2 and 7):                    *)
(*                                                                         *)
(*  Create: FindAndSet a header sector; Allocate the file; write the      *)
(*  header; for a directory write an all-zero table into its data; then   *)
(*  Directory::Add on the root table loaded at the start of the call.     *)
(*  When Add refuses, Deallocate the new header and clear its sector.     *)
(*  On success write back the root table and the bitmap.                  *)
(*                                                                         *)
(*  Remove: Find the path; Deallocate the header found there and clear    *)
(*  its sector; Directory::Remove; write back the root table and the      *)
(*  bitmap.                                                               *)
(*                                                                         *)
(* The disk is seen three ways: hdrAt[s] is sector s read as a header,    *)
(* idx[s] as an index sector, tab[s] as a directory table.  A write       *)
(* changes the view it is made through; a sector read through a view it  *)
(* was never written through reads as that view last left it.  A         *)
(* directory file is one sector long, so its table is the data sector    *)
(* ByteToSector(0) names.  OpenFile reads no bytes from a file shorter    *)
(* than a table and WriteAt writes none to it, so such a file reads as    *)
(* the empty table the Directory constructor leaves and ignores writes.  *)
(***************************************************************************)
EXTENDS Integers, Sequences, FiniteSets, FiniteSetsExt, TLC

CONSTANTS
  Names, NumDirEntries, MaxDepth, Stored(_),  \* as in Directory
  NumSectors, SectorSize, SectorNumPerList,   \* as in FileHeader
  RootSector,         \* DirectorySector: the root directory's header
  Reserved,           \* sectors set before the root is allocated
  DirectoryFileSize,  \* bytes of a directory file
  FileSizes           \* bound: sizes Create is asked for regular files

ASSUME RootSector \in Reserved /\ 0 \in Reserved
ASSUME 0 < DirectoryFileSize /\ DirectoryFileSize <= SectorSize
ASSUME \A n \in FileSizes : n = 0 \/ n >= DirectoryFileSize

VARIABLES
  freeMap,  \* the set bits of the bitmap on disk
  hdrAt,    \* hdrAt[s]: sector s read as a file header
  idx,      \* idx[s]: sector s read as an index sector
  tab,      \* tab[s]: sector s read as a directory table
  crashed,  \* "" or the step whose ASSERT stopped the kernel
  last,     \* the last file-system call and what it returned
  calls     \* how many file-system calls have been made

vars == <<freeMap, hdrAt, idx, tab, crashed, last, calls>>

Sec == 0 .. NumSectors - 1

SX == INSTANCE SequencesExt

FH == INSTANCE FileHeader WITH Files <- Sec, Reserved <- Reserved,
        FileSizes <- FileSizes \cup {DirectoryFileSize},
        hdr <- hdrAt, disk <- idx,
        last <- [op |-> "none", file |-> "", ret |-> "none"]

(* Directory operations over the tables tbls[s] read through header s. *)
DirOn(tbls) == INSTANCE Directory WITH dirs <- tbls, Sectors <- Sec,
                 allocated <- freeMap, crashed <- FALSE, isDir <- {RootSector},
                 last <- [op |-> "none", path |-> <<>>, ret |-> "none"]

Blank == DirOn(tab)!EmptyTable

(* OpenFile(s) then Directory::FetchFrom: the table file s holds. *)
TableAt(hd, ix, tb, s) ==
  IF hd[s].numBytes >= DirectoryFileSize THEN tb[FH!ByteToSector(ix, hd[s], 0)]
  ELSE Blank

Tables(hd, ix, tb) == [s \in Sec |-> TableAt(hd, ix, tb, s)]

(* FileHeader::WriteBack(s): the header record, verbatim, in sector s. *)
WriteBackHeader(hd, s, h) == [hd EXCEPT ![s] = h]

(* Directory::WriteBack(OpenFile(s)). *)
WriteTable(hd, ix, tb, s, table) ==
  IF hd[s].numBytes >= DirectoryFileSize
  THEN [tb EXCEPT ![FH!ByteToSector(ix, hd[s], 0)] = table]
  ELSE tb

(* What Add or Remove on path p leaves on disk: below the root the call  *)
(* writes the target table back itself; then the caller writes back the  *)
(* root table it holds in memory.                                        *)
Persist(hd, ix, tb, p, tgt, new) ==
  LET nested == IF Len(p) > 1 THEN WriteTable(hd, ix, tb, tgt, new[tgt]) ELSE tb
  IN WriteTable(hd, ix, nested, RootSector, new[RootSector])

OnDisk == Tables(hdrAt, idx, tab)

(* Mutant: the scan for a clear bit falls off the end and returns the   *)
(* bit count instead of -1.                                              *)
LowestClearNoFull(fm) == IF fm = Sec THEN NumSectors ELSE Min(Sec \ fm)

(* PersistentBitmap::FindAndSet: the lowest clear bit, -1 if none. *)
LowestClear(fm) == IF fm = Sec THEN -1 ELSE Min(Sec \ fm)

Returns(op, p, size, r) ==
  /\ last' = [op |-> op, path |-> p, size |-> size, ret |-> r]
  /\ calls' = calls + 1

(* Format: set the reserved sectors, Allocate the root directory file,   *)
(* write its header and an empty table.                                  *)
Init ==
  LET a == FH!Allocate(Reserved, DirectoryFileSize)
      hd == [s \in Sec |-> IF s = RootSector THEN a.hdr ELSE FH!NoHdr]
      ix == a.index @@ [s \in Sec |-> [j \in 0 .. SectorNumPerList - 1 |-> 0]]
  IN /\ freeMap = a.freeMap
     /\ hdrAt = hd
     /\ idx = ix
     /\ tab = [s \in Sec |-> Blank]
     /\ crashed = ""
     /\ last = [op |-> "none", path |-> <<>>, size |-> -1, ret |-> "none"]
     /\ calls = 0

Create(p, t, size) ==
  LET h == LowestClear(freeMap)
      a == FH!Allocate(freeMap \cup {h}, size)
      hdr1 == WriteBackHeader(hdrAt, h, a.hdr)
      idx1 == a.index @@ idx
      tab1 == IF t = "D" THEN WriteTable(hdr1, idx1, tab, h, Blank) ELSE tab
      \* the root table as loaded at the start; every other table fresh
      view == [s \in Sec |-> IF s = RootSector THEN TableAt(hdrAt, idx, tab, s)
                                             ELSE TableAt(hdr1, idx1, tab1, s)]
      r == DirOn(view)!Add(p, h, t)
  IN
  /\ crashed = ""
  /\ \/ /\ h = -1
        /\ Returns("create", p, size, "false")
        /\ UNCHANGED <<freeMap, hdrAt, idx, tab, crashed>>
     \/ /\ h # -1 /\ a.ret = "false"
        /\ Returns("create", p, size, "false")
        /\ UNCHANGED <<freeMap, hdrAt, idx, tab, crashed>>
     \/ /\ h # -1 /\ a.ret = "abort"
        /\ crashed' = "Allocate"
        /\ Returns("create", p, size, "abort")
        /\ UNCHANGED <<freeMap, hdrAt, idx, tab>>
     \/ /\ h # -1 /\ a.ret = "true" /\ r.ret = "true"
        /\ freeMap' = a.freeMap
        /\ hdrAt' = hdr1
        /\ idx' = idx1
        /\ tab' = Persist(hdr1, idx1, tab1, p, DirOn(view)!Target(p), r.dirs)
        /\ Returns("create", p, size, "true")
        /\ UNCHANGED crashed
     \/ /\ h # -1 /\ a.ret = "true" /\ r.ret = "false"
        /\ \E o \in FH!Deallocate(a.freeMap, a.hdr) :
             /\ freeMap' = IF o.ret = "done" THEN o.freeMap \ {h} ELSE freeMap
             /\ crashed' = IF o.ret = "done" THEN "" ELSE "Deallocate"
             /\ Returns("create", p, size, IF o.ret = "done" THEN "false" ELSE "abort")
        /\ hdrAt' = hdr1 /\ idx' = idx1 /\ tab' = tab1
     \/ /\ h # -1 /\ a.ret = "true" /\ r.ret = "abort"
        /\ crashed' = "Add"
        /\ Returns("create", p, size, "abort")
        /\ hdrAt' = hdr1 /\ idx' = idx1 /\ tab' = tab1
        /\ UNCHANGED freeMap

Delete(p) ==
  LET s == DirOn(OnDisk)!Find(p)
      r == DirOn(OnDisk)!Remove(p)
  IN
  /\ crashed = ""
  /\ \/ /\ s = -1
        /\ Returns("delete", p, -1, "false")
        /\ UNCHANGED <<freeMap, hdrAt, idx, tab, crashed>>
     \/ /\ s # -1
        /\ \E o \in FH!Deallocate(freeMap, hdrAt[s]) :
             \/ /\ o.ret = "abort"
                /\ crashed' = "Deallocate"
                /\ Returns("delete", p, -1, "abort")
                /\ UNCHANGED <<freeMap, tab>>
             \/ /\ o.ret = "done"
                /\ freeMap' = o.freeMap \ {s}
                /\ tab' = Persist(hdrAt, idx, tab, p, DirOn(OnDisk)!Target(p), r.dirs)
                /\ Returns("delete", p, -1, r.ret)
                /\ UNCHANGED crashed
        /\ UNCHANGED <<hdrAt, idx>>

(* After a failed ASSERT the machine is halted. *)
Terminating == crashed # "" /\ UNCHANGED vars

Next ==
  \/ \E p \in DirOn(OnDisk)!Paths, size \in FileSizes : Create(p, "F", size)
  \/ \E p \in DirOn(OnDisk)!Paths : Create(p, "D", DirectoryFileSize)
  \/ \E p \in DirOn(OnDisk)!Paths : Delete(p)
  \/ Terminating

Spec == Init /\ [][Next]_vars

(***************************************************************************)
(* Properties                                                              *)
(***************************************************************************)

TypeOK ==
  /\ freeMap \subseteq Sec
  /\ \A s \in Sec : hdrAt[s] = FH!NoHdr \/
       hdrAt[s] \in [numBytes : FileSizes \cup {DirectoryFileSize}, numSectors : Nat,
                     numLists : Nat, lists : Seq(Sec)]
  /\ idx \in [Sec -> [0 .. SectorNumPerList - 1 -> Sec]]
  /\ \A s \in Sec : DOMAIN tab[s] = DOMAIN Blank
  /\ crashed \in {"", "Allocate", "Deallocate", "Add"}
  /\ last \in [op : {"none", "create", "delete"}, path : DirOn(OnDisk)!Paths \cup {<<>>},
               size : FileSizes \cup {DirectoryFileSize, -1},
               ret : {"none", "true", "false", "abort"}]
  /\ calls \in Nat

(* Find on the tables as they are on disk. *)
FindOnDisk(p) == DirOn(OnDisk)!Find(p)

(* I1 on every table on disk, including tables that two directories    *)
(* share once a live sector has been handed out again: Add's "already   *)
(* there" test reads the very table its insert goes to.                 *)
NamesUniqueOnDisk ==
  \A s \in Sec : \A i, j \in DOMAIN Blank :
    (i # j /\ tab[s][i].inUse /\ tab[s][j].inUse) => tab[s][i].name # tab[s][j].name

(* Directory::RecursiveList from the table of header s: for every       *)
(* in-use entry of type 'D' open its header, fetch its table and list   *)
(* it one level deeper.  TRUE when that goes more than d levels down.   *)
RECURSIVE ListsBeyond(_, _)
ListsBeyond(s, d) ==
  LET tbl == TableAt(hdrAt, idx, tab, s)
  IN \E i \in DOMAIN tbl :
       /\ tbl[i].inUse /\ tbl[i].type = "D"
       /\ (d = 0 \/ ListsBeyond(tbl[i].sector, d - 1))

(* RecursiveList(0) on the root returns: the directories form a tree, so *)
(* the recursion, which needs a header sector per level, stops within   *)
(* NumSectors levels.                                                    *)
RecursiveListTerminates == ~ListsBeyond(RootSector, NumSectors)

FSNamespace == INSTANCE AbstractNamespace WITH
  Paths <- DirOn(OnDisk)!Paths, Sectors <- Sec, ns <- DirOn(OnDisk)!Resolved,
  call <- [op |-> last.op, path |-> last.path, ret |-> last.ret]

(* Spec 4.2, 5 and 7 for the whole Create and Remove, header, Allocate,  *)
(* rollback and write-backs included: a successful create makes exactly  *)
(* its path resolve, a successful remove takes exactly its path and what *)
(* lies below it away, and a call that fails or aborts changes no path.  *)
NamespaceRefinedOnDisk == FSNamespace!Spec
=============================================================================
