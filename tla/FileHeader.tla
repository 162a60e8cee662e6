----------------------------- MODULE FileHeader -----------------------------
(***************************************************************************)
(* The one-level indirect file header of src/filesys/filehdr.cc over the   *)
(* free-sector bitmap: FileHeader::Allocate, Deallocate and ByteToSector.  *)
(*                                                                         *)
(* A header keeps numBytes, numSectors, numLists and the index sectors     *)
(* dataSectorLists; an index sector holds SectorNumPerList sector numbers. *)
(* FetchFrom and WriteBack copy the record verbatim, so one copy of each   *)
(* header stands for both.  The bitmap (not in src/) is modelled from the  *)
(* spec (section 6): FindAndSet sets and returns the lowest clear bit,     *)
(* or -1 when every bit is set.  Files are header objects; the caller     *)
(* makes a fresh one for Allocate and drops it after Deallocate.           *)
(*                                                                         *)
(* Deallocate as written declares its buffer "int buffer = new int[...]"   *)
(* and never reads the index sector into it; read as the int* it is used   *)
(* as, every slot it clears is uninitialised heap memory.  The model lets  *)
(* those slots hold any sectors: each Clear either hits a set bit and      *)
(* clears it, or fails the ASSERT that the bit is set.                     *)
(***************************************************************************)
EXTENDS Integers, Sequences, FiniteSets, FiniteSetsExt, TLC

SX == INSTANCE SequencesExt

CONSTANTS
  NumSectors,       \* sectors on the disk (the disk's NumSectors)
  SectorSize,       \* bytes per sector
  SectorNumPerList, \* sector numbers per index sector
  Files,            \* header objects
  FileSizes,        \* bound: sizes, in bytes, Allocate is asked for
  Reserved          \* sectors set when the disk is formatted

ASSUME SectorSize \in Nat \ {0} /\ SectorNumPerList \in Nat \ {0}
ASSUME FileSizes \subseteq Nat /\ Reserved \subseteq 0 .. NumSectors - 1

VARIABLES
  freeMap,  \* the set bits of the free-sector bitmap
  hdr,      \* hdr[f]: the header record of file f
  disk,     \* disk[s][j]: slot j of sector s read as an index sector
  crashed,  \* "" or the operation whose ASSERT stopped the kernel
  last      \* the last call and what it returned

vars == <<freeMap, hdr, disk, crashed, last>>

Sec == 0 .. NumSectors - 1
Slot == 0 .. SectorNumPerList - 1
L == SectorNumPerList

(* divRoundUp of lib/utility.h. *)
divRoundUp(n, s) == (n + s - 1) \div s

(* FileHeader::FileHeader: every field -1, no lists. *)
NoHdr == [numBytes |-> -1, numSectors |-> -1, numLists |-> -1, lists |-> <<>>]

Live(f) == hdr[f].numBytes >= 0

(* FileHeader::ByteToSector over the index sectors dk: sector index      *)
(* k = offset / SectorSize; read index sector dataSectorLists[k / L] and  *)
(* return its slot k % L.                                                  *)
ByteToSector(dk, h, offset) ==
  LET k == offset \div SectorSize
  IN dk[h.lists[k \div L + 1]][k % L]

(* The sectors header h holds: its index sectors and every data sector   *)
(* they name for its sector indices.                                      *)
DataSectors(dk, h) == {ByteToSector(dk, h, k * SectorSize) : k \in 0 .. h.numSectors - 1}
Owned(dk, h) == SX!ToSet(h.lists) \cup DataSectors(dk, h)

(* The order repeated FindAndSet calls hand out the clear bits of fm:    *)
(* each returns the lowest bit still clear.                              *)
FindAndSetOrder(fm) ==
  LET clear == Sec \ fm
  IN [n \in 1 .. Cardinality(clear) |->
        CHOOSE x \in clear : Cardinality({y \in clear : y < x}) = n - 1]

(* Variant of Allocate's per-list bound that stops one data sector short. *)
AllocCountShort(i) ==
  (IF i * L + L > NumSectors THEN NumSectors ELSE i * L + L) - i * L - 1

(* Data sectors Allocate reserves for list i: lastSectorNum - nowNumSectors, *)
(* where the code bounds lastSectorNum by the disk's NumSectors, not by    *)
(* the file's numSectors.                                                  *)
AllocCount(i) ==
  (IF i * L + L > NumSectors THEN NumSectors ELSE i * L + L) - i * L

(* FileHeader::Allocate(freeMap, fileSize) on the set bits fm.  Set the   *)
(* sizes; return FALSE if fewer than numSectors bits are clear; else for  *)
(* each list FindAndSet an index sector, FindAndSet AllocCount(i) data    *)
(* sectors into a zeroed buffer and write it to the index sector.  With   *)
(* checked = TRUE a FindAndSet that finds no clear bit fails              *)
(* ASSERT(... >= 0); with FALSE the -1 it returns is stored as it is.     *)
(* The result: what it returned, the bitmap, the header and the index     *)
(* sectors written (a function from sector to buffer).                   *)
AllocateChecked(fm, size, checked) ==
  LET nsec == divRoundUp(size, SectorSize)
      nl == divRoundUp(nsec, L)
      free == FindAndSetOrder(fm)
      Got(n) == IF n <= Len(free) THEN free[n] ELSE -1
      Base(i) == MapThenSumSet(LAMBDA k : 1 + AllocCount(k), 0 .. i - 1)
      need == Base(nl)
      Index(i) == Got(Base(i) + 1)
      Buffer(i) == [j \in Slot |-> IF j < AllocCount(i) THEN Got(Base(i) + 2 + j) ELSE 0]
      written == {i \in 0 .. nl - 1 : Index(i) \in Sec}
  IN [ret |-> CASE Len(free) < nsec            -> "false"
                [] checked /\ Len(free) < need -> "abort"
                [] OTHER                       -> "true",
      freeMap |-> fm \cup {free[n] : n \in 1 .. Min({need, Len(free)})},
      hdr |-> [numBytes |-> size, numSectors |-> nsec, numLists |-> nl,
               lists |-> [i \in 1 .. nl |-> Index(i - 1)]],
      index |-> [s \in {Index(i) : i \in written} |->
                   Buffer(CHOOSE i \in written : Index(i) = s)]]

(* Variant of Allocate built without its ASSERTs. *)
AllocateUnchecked(fm, size) == AllocateChecked(fm, size, FALSE)

Allocate(fm, size) == AllocateChecked(fm, size, TRUE)

(* FileHeader::Deallocate(freeMap) for header h on the set bits fm.  For *)
(* list i the loop runs j up to lastSectorNum = min(i*L + L, numSectors), *)
(* an absolute sector index, and clears buffer[j], which was never read   *)
(* from disk.  The possible outcomes: n distinct set bits are cleared, or *)
(* a slot names a clear bit (or one already cleared) and                  *)
(* ASSERT(freeMap->Test(...)) fails.                                      *)
Deallocate(fm, h) ==
  LET Clears(i) == IF i * L + L > h.numSectors THEN h.numSectors ELSE i * L + L
      n == MapThenSumSet(Clears, 0 .. h.numLists - 1)
  IN {[ret |-> "done", freeMap |-> fm \ X] : X \in kSubset(n, fm)}
     \cup (IF n > 0 THEN {[ret |-> "abort", freeMap |-> fm]} ELSE {})

(***************************************************************************)
(* A caller that makes a fresh header object for Allocate, keeps it while *)
(* the call succeeded, and drops it after Deallocate.                     *)
(***************************************************************************)

AllocateFile(f, size) ==
  LET r == Allocate(freeMap, size) IN
  /\ crashed = ""
  /\ ~Live(f)
  /\ freeMap' = IF r.ret = "true" THEN r.freeMap ELSE freeMap
  /\ hdr' = IF r.ret = "true" THEN [hdr EXCEPT ![f] = r.hdr] ELSE hdr
  /\ disk' = IF r.ret = "true" THEN r.index @@ disk ELSE disk
  /\ crashed' = IF r.ret = "abort" THEN "Allocate" ELSE ""
  /\ last' = [op |-> "Allocate", file |-> f, ret |-> r.ret]

DeallocateFile(f) ==
  /\ crashed = ""
  /\ Live(f)
  /\ \E o \in Deallocate(freeMap, hdr[f]) :
       /\ freeMap' = o.freeMap
       /\ hdr' = IF o.ret = "done" THEN [hdr EXCEPT ![f] = NoHdr] ELSE hdr
       /\ crashed' = IF o.ret = "abort" THEN "Deallocate" ELSE ""
       /\ last' = [op |-> "Deallocate", file |-> f, ret |-> o.ret]
       /\ UNCHANGED disk

(* Format: only the reserved sectors are set; the disk reads as zeros.   *)
Init ==
  /\ freeMap = Reserved
  /\ hdr = [f \in Files |-> NoHdr]
  /\ disk = [s \in Sec |-> [j \in Slot |-> 0]]
  /\ crashed = ""
  /\ last = [op |-> "none", file |-> "", ret |-> "none"]

(* After a failed ASSERT the machine is halted. *)
Terminating == crashed # "" /\ UNCHANGED vars

Next ==
  \/ \E f \in Files, size \in FileSizes : AllocateFile(f, size)
  \/ \E f \in Files : DeallocateFile(f)
  \/ Terminating

Spec == Init /\ [][Next]_vars

(***************************************************************************)
(* Properties                                                              *)
(***************************************************************************)

TypeOK ==
  /\ freeMap \subseteq Sec
  /\ \A f \in Files : hdr[f] = NoHdr \/
       hdr[f] \in [numBytes : FileSizes, numSectors : Nat, numLists : Nat,
                   lists : Seq(Sec)]
  /\ disk \in [Sec -> [Slot -> Sec]]
  /\ crashed \in {"", "Allocate", "Deallocate"}
  /\ last \in [op : {"none", "Allocate", "Deallocate"}, file : Files \cup {""},
               ret : {"none", "true", "false", "done", "abort"}]

AllocatedBy(f) == last'.op = "Allocate" /\ last'.ret = "true" /\ last'.file = f

(* A successful Allocate gives the file only sectors that were clear and  *)
(* are now set, with the index sectors apart from the data sectors, and  *)
(* ByteToSector sends the file's sector indices to distinct sectors: the  *)
(* per-list offsets of Allocate and the list/slot split of ByteToSector   *)
(* agree.                                                                  *)
AllocateClaimsFreeSectors ==
  [][ \A f \in Files : AllocatedBy(f) =>
        LET data == DataSectors(disk', hdr'[f])
            index == SX!ToSet(hdr'[f].lists)
        IN /\ Cardinality(data) = hdr'[f].numSectors
           /\ Cardinality(index) = hdr'[f].numLists
           /\ data \cap index = {}
           /\ data \cup index \subseteq freeMap' \ freeMap ]_vars

(* Spec 4.1: Allocate returns FALSE, leaving the bitmap alone, when the   *)
(* disk lacks numSectors + numLists clear sectors; it never stops the    *)
(* kernel on an ASSERT.                                                   *)
AllocateNeverAborts == crashed # "Allocate"

(* Spec 3: a file takes numSectors data sectors plus numLists index      *)
(* sectors from the bitmap, no more.                                      *)
AllocateReservesExactly ==
  [][ \A f \in Files : AllocatedBy(f) =>
        Cardinality(freeMap' \ freeMap) = hdr'[f].numSectors + hdr'[f].numLists ]_vars

(* P4: Deallocate clears exactly the sectors Allocate set for the file.  *)
DeallocateFreesOwnSectors ==
  [][ \A f \in Files :
        (last'.op = "Deallocate" /\ last'.ret = "done" /\ last'.file = f) =>
          freeMap' = freeMap \ Owned(disk, hdr[f]) ]_vars
=============================================================================
