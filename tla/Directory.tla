------------------------------ MODULE Directory ------------------------------
(***************************************************************************)
(* The directory tables of src/filesys/directory.cc and the path resolver *)
(* that walks them: Directory::FindIndex, Find, Add and Remove.           *)
(*                                                                         *)
(* A directory is a table of NumDirEntries entries stored as the data of   *)
(* the file whose header is at some sector; dirs[s] is that table for      *)
(* header sector s.  A path "/c1/c2/.../cn" is the sequence <<c1,...,cn>>  *)
(* of the components Find's scanner cuts at each '/': a component may be   *)
(* the empty string ("/" is <<"">>, "/a/" is <<"a", "">>).                 *)
(*                                                                         *)
(* Add and Remove are called by the file system's Create and Remove, which *)
(* are not part of src/ and are modelled from the spec (sections 3 and 7): *)
(* Create takes the lowest free header sector, calls Add and keeps the     *)
(* sector only if Add succeeded; Remove looks the path up and, when it     *)
(* resolves, frees its header sector and calls Directory::Remove, whatever *)
(* that returns.  Files are created empty here: Add's WriteBack into the   *)
(* table of a zero-length file writes nothing.  Each file-system call runs *)
(* to completion (spec section 5), so the root table Add and Remove change *)
(* in memory is written back in the same step.                             *)
(***************************************************************************)
EXTENDS Integers, Sequences, FiniteSets, FiniteSetsExt

SX == INSTANCE SequencesExt

CONSTANTS
  Names,          \* short names a path component may hold (no '/' in them)
  NumDirEntries,  \* entries per directory table (NumDirEntries)
  Sectors,        \* header sectors of the disk
  RootSector,     \* header sector of the root directory (DirectorySector)
  Reserved,       \* sectors set in the free map when the disk is formatted
  MaxDepth,       \* bound: most components in a path given to an operation
  Stored(_)       \* the first FileNameMaxLen bytes of a name, all strncpy
                  \* and strncmp keep of it

ASSUME NumDirEntries \in Nat \ {0}
ASSUME RootSector \in Reserved /\ Reserved \subseteq Sectors /\ 0 \in Sectors
ASSUME MaxDepth \in Nat \ {0}

VARIABLES
  dirs,       \* dirs[s]: the directory table held by the file with header s
  allocated,  \* header sectors set in the free map
  crashed,    \* an ASSERT stopped the kernel
  isDir,      \* header sectors last handed out to a directory (and the root)
  last        \* the last file-system call and what it returned

vars == <<dirs, allocated, crashed, isDir, last>>

Comp == Names \cup {""}
Paths == UNION {[1 .. n -> Comp] : n \in 1 .. MaxDepth}
Idx == 0 .. NumDirEntries - 1
Types == {"F", "D"}
Rets == {"true", "false", "abort"}

(* Variant of the constructor without the memset: the fields the loop   *)
(* does not set keep what the heap held.                                *)
ZeroEntryUnset == [inUse |-> FALSE, name |-> "", sector |-> -1, type |-> ""]

(* Directory::Directory: a table is zero-filled, so every entry is unused. *)
ZeroEntry == [inUse |-> FALSE, name |-> "", sector |-> 0, type |-> ""]
EmptyTable == [i \in Idx |-> ZeroEntry]

(* Lowest index satisfying a test, -1 when there is none. *)
FirstOf(table, test(_)) ==
  LET hits == {i \in Idx : test(table[i])} IN IF hits = {} THEN -1 ELSE Min(hits)

(* Directory::FindIndex: first in-use entry whose name agrees with name   *)
(* in its first FileNameMaxLen bytes (strncmp).                          *)
FindIndex(table, name) == FirstOf(table, LAMBDA e : e.inUse /\ e.name = Stored(name))

(* Directory::Find from the table at sector t: look the first component  *)
(* up; if more components follow, load the entry's table and go on.     *)
RECURSIVE FindIn(_, _)
FindIn(t, p) ==
  LET i == FindIndex(dirs[t], Head(p)) IN
  IF i = -1 THEN -1
  ELSE IF Len(p) = 1 THEN dirs[t][i].sector
  ELSE FindIn(dirs[t][i].sector, Tail(p))

Find(p) == FindIn(RootSector, p)

(* The table Add and Remove change: the current (root) table when the    *)
(* path has no '/' after its first one, else Find of the part before the *)
(* last '/'.  -1 when that part does not resolve.                        *)
Target(p) == IF Len(p) = 1 THEN RootSector ELSE Find(SX!Front(p))

FirstFree(table) == FirstOf(table, LAMBDA e : ~e.inUse)

(* Variant of Add without the "already there" test. *)
AddNoExistsCheck(p, s, t) ==
  LET tgt == Target(p)
      i == IF tgt = -1 THEN -1 ELSE FirstFree(dirs[tgt])
  IN CASE tgt = -1 -> [ret |-> "abort", dirs |-> dirs]
       [] i = -1   -> [ret |-> "false", dirs |-> dirs]
       [] OTHER    -> [ret |-> "true",
                       dirs |-> [dirs EXCEPT ![tgt][i] =
                         [inUse |-> TRUE, name |-> Stored(SX!Last(p)), sector |-> s, type |-> t]]]

(* Directory::Add(name, newSector, inType): refuse a path that resolves; *)
(* split it at its last '/'; find the target table (OpenFile(-1) on a    *)
(* parent that does not resolve fails the disk's sector ASSERT); put the *)
(* entry in its lowest free slot, or return FALSE when it is full.       *)
Add(p, s, t) ==
  LET tgt == Target(p)
      i == IF tgt = -1 THEN -1 ELSE FirstFree(dirs[tgt])
  IN CASE Find(p) # -1 -> [ret |-> "false", dirs |-> dirs]
       [] tgt = -1     -> [ret |-> "abort", dirs |-> dirs]
       [] i = -1       -> [ret |-> "false", dirs |-> dirs]
       [] OTHER        -> [ret |-> "true",
                           dirs |-> [dirs EXCEPT ![tgt][i] =
                             [inUse |-> TRUE, name |-> Stored(SX!Last(p)), sector |-> s, type |-> t]]]

(* Directory::Remove(name): refuse a path that does not resolve; below   *)
(* the root, load the parent table, find the leaf by its short name and  *)
(* clear inUse.  At the root the code looks up the whole path, slash     *)
(* included ("/" \o leaf), instead of the leaf.                          *)
Remove(p) ==
  LET tgt == Target(p)
      key == IF Len(p) = 1 THEN "/" \o p[1] ELSE SX!Last(p)
      id == FindIndex(dirs[tgt], key)
  IN IF Find(p) = -1 \/ id = -1 THEN [ret |-> "false", dirs |-> dirs]
     ELSE [ret |-> "true", dirs |-> [dirs EXCEPT ![tgt][id].inUse = FALSE]]

Returns(op, p, r) == last' = [op |-> op, path |-> p, ret |-> r]

(***************************************************************************)
(* File-system calls around Add and Remove (spec sections 3 and 7).        *)
(***************************************************************************)

(* Format: an empty root directory; only the reserved sectors are set.   *)
Init ==
  /\ dirs = [s \in Sectors |-> EmptyTable]
  /\ allocated = Reserved
  /\ crashed = FALSE
  /\ isDir = {RootSector}
  /\ last = [op |-> "none", path |-> <<>>, ret |-> "none"]

(* Create(p, t): FindAndSet a header sector (none free: fail); Add; on   *)
(* success write the new file's empty table, on failure give the sector  *)
(* back.  Add's write into a table below the root lands only when that   *)
(* table is a directory's: a file's data holds none of it.               *)
Create(p, t) ==
  /\ ~crashed
  /\ \/ /\ allocated = Sectors
        /\ Returns("create", p, "false")
        /\ UNCHANGED <<dirs, allocated, crashed, isDir>>
     \/ /\ allocated # Sectors
        /\ LET s == Min(Sectors \ allocated)
               r == Add(p, s, t)
               ok == r.ret = "true"
           IN /\ dirs' = [x \in Sectors |->
                           CASE ok /\ x = s     -> EmptyTable
                             [] ok /\ x \in isDir -> r.dirs[x]
                             [] OTHER           -> dirs[x]]
              /\ allocated' = IF ok THEN allocated \cup {s} ELSE allocated
              /\ isDir' = CASE ok /\ t = "D" -> isDir \cup {s}
                             [] ok            -> isDir \ {s}
                             [] OTHER         -> isDir
              /\ crashed' = (r.ret = "abort")
              /\ Returns("create", p, r.ret)

(* Delete(p): look p up (not found: fail); free its header sector, then  *)
(* Directory::Remove it, whatever Remove returns.                        *)
Delete(p) ==
  /\ ~crashed
  /\ LET s == Find(p)
         r == Remove(p)
     IN \/ /\ s = -1
           /\ Returns("delete", p, "false")
           /\ UNCHANGED <<dirs, allocated, isDir>>
        \/ /\ s # -1
           /\ dirs' = r.dirs
           /\ allocated' = allocated \ {s}
           /\ Returns("delete", p, r.ret)
           /\ UNCHANGED isDir
  /\ UNCHANGED crashed

(* After a failed ASSERT the machine is halted. *)
Terminating == crashed /\ UNCHANGED vars

Next ==
  \/ \E p \in Paths, t \in Types : Create(p, t)
  \/ \E p \in Paths : Delete(p)
  \/ Terminating

Spec == Init /\ [][Next]_vars

(***************************************************************************)
(* Properties                                                              *)
(***************************************************************************)

TypeOK ==
  /\ dirs \in [Sectors -> [Idx -> [inUse : BOOLEAN, name : STRING,
                                   sector : Sectors, type : Types \cup {""}]]]
  /\ \A s \in Sectors, i \in Idx : dirs[s][i].name \in {Stored(c) : c \in Comp}
  /\ allocated \subseteq Sectors
  /\ crashed \in BOOLEAN
  /\ isDir \subseteq Sectors
  /\ last \in [op : {"none", "create", "delete"}, path : Paths \cup {<<>>},
               ret : Rets \cup {"none"}]

(* I1/P1: no table holds two in-use entries with one name, so the first *)
(* match FindIndex returns is the only one.  Add's "already there" test  *)
(* resolves the whole path while its insert goes to the table of the     *)
(* parent path: the two must agree for this to hold.                    *)
NamesUnique ==
  \A s \in Sectors : \A i, j \in Idx :
    (i # j /\ dirs[s][i].inUse /\ dirs[s][j].inUse) => dirs[s][i].name # dirs[s][j].name

(* The name space the tables present: every path of at most MaxDepth    *)
(* components Find resolves, with the sector it resolves to.  Listed by  *)
(* one walk down from the root: an entry counts when it is the one       *)
(* FindIndex picks for its name, as Find would.                          *)
RECURSIVE Listing(_, _, _)
Listing(t, pre, d) ==
  LET tbl == dirs[t]
      seen == {i \in Idx : tbl[i].inUse /\ FindIndex(tbl, tbl[i].name) = i}
      Below(i) == IF d > 1 THEN Listing(tbl[i].sector, pre \o <<tbl[i].name>>, d - 1)
                  ELSE {}
  IN UNION {{<<pre \o <<tbl[i].name>>, tbl[i].sector>>} \cup Below(i) : i \in seen}

Resolved ==
  LET L == Listing(RootSector, <<>>, MaxDepth)
  IN [p \in {x[1] : x \in L} |-> (CHOOSE x \in L : x[1] = p)[2]]

(* I3, and no hard links (spec section 1): two different paths never     *)
(* resolve to one header sector.  Add's "already there" test and         *)
(* FindIndex compare only the first FileNameMaxLen bytes (strncmp) and    *)
(* the entry keeps only those (strncpy), and Create must hand every       *)
(* entry a header sector no other entry names.                           *)
PathsNameDistinctFiles ==
  \A p, q \in Paths : (p # q /\ Find(p) # -1) => Find(p) # Find(q)

(* Spec 4.2/8: Remove succeeds exactly when Find resolves the path.      *)
RemoveWhenFound ==
  [][ last'.op = "delete" => (last'.ret = "true" <=> Find(last'.path) # -1) ]_vars

(* Spec 7: Add with a parent that does not resolve returns NameNotFound; *)
(* the kernel never stops on an ASSERT.                                 *)
AddReportsMissingParent == ~crashed

(* I1: every in-use entry of a reachable table has a non-empty name.    *)
NamesNonEmpty ==
  \A s \in {RootSector} \cup ({Find(q) : q \in Paths} \ {-1}) :
    \A i \in Idx : dirs[s][i].inUse => dirs[s][i].name # ""
=============================================================================
