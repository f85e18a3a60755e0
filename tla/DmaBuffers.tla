------------------------------- MODULE DmaBuffers -------------------------------
(***************************************************************************)
(* The memory a card writes to.  o2-roc-bench-dma maps a file of hugepages *)
(* (Utilities::tryMapFile, MemoryMappedFile) and hands the mapping to the  *)
(* DMA channel, other users of the library hand over memory of their own;  *)
(* the channel registers it with PDA, which answers with a list of pieces  *)
(* that are contiguous for the card, and looks up in it where a superpage  *)
(* lies (PdaDmaBuffer, DmaChannelPdaBase).  Runs for the same card and     *)
(* channel use the same files, and may be killed.                          *)
(*                                                                         *)
(* Sizes and offsets are in MiB; a "1 GiB" hugepage has Giga of them.      *)
(***************************************************************************)
EXTENDS Integers, FiniteSets

CONSTANTS Benches,       \* processes that use the same card and channel
          BufferRequests \* [memory |-> "file" | "own", size, super, page, keep, atStart]

ASSUME BufferAssumption ==
  /\ "nobody" \notin Benches
  /\ BufferRequests \subseteq [memory : {"file", "own"}, size : Nat \ {0}, super : Nat \ {0},
                              page : Nat \ {0}, keep : BOOLEAN, atStart : BOOLEAN]

VARIABLES
  iommu,    \* the machine has one that is switched on
  file,     \* the size of the file in each of the two directories, or NoFile
  fileLock, \* who has the lock of each file
  chanLock, \* who has the DMA channel
  bench     \* [pc, request, pages, sgl, pushed (the last superpage)] of each process

bufferVars == <<iommu, file, fileLock, chanLock, bench>>

Nobody == "nobody"
NoFile == -1
Mega2 == 2
Giga == 4
HugeFiles == {"2MB", "1GB"}
PageSize(pages) == CASE pages = "1GB" -> Giga [] pages = "2MB" -> Mega2 [] OTHER -> 1

(* Utilities::isMultiple()                                                 *)
IsMultiple(x, y) == x >= y /\ x % y = 0

Off == [pc |-> "off", request |-> <<>>, pages |-> "none", sgl |-> <<>>, pushed |-> {}]

BuffersInit ==
  /\ iommu \in BOOLEAN
  /\ file = [t \in HugeFiles |-> NoFile]
  /\ fileLock = [t \in HugeFiles |-> Nobody] /\ chanLock = Nobody
  /\ bench = [p \in Benches |-> Off]

Request(p) == bench[p].request
Goto(p, place) == bench' = [bench EXCEPT ![p].pc = place]
BenchAt(p, places) == bench[p].pc \in places
-----------------------------------------------------------------------------
(* run(): a buffer that holds no superpage, or isn't made of hugepages of  *)
(* 2 MiB, is refused before a file is touched.                             *)
StartBench(p, r) ==
  /\ BenchAt(p, {"off"}) /\ r.memory = "file"
  /\ r.size >= r.super /\ IsMultiple(r.size, Mega2)
  /\ bench' = [bench EXCEPT ![p] =
       [Off EXCEPT !.pc = "locking", !.request = r,
                   !.pages = IF IsMultiple(r.size, Giga) THEN "1GB" ELSE "2MB"]]
  /\ UNCHANGED <<iommu, file, fileLock, chanLock>>

(* Another user comes with memory that is in pages of 4 KiB.               *)
StartOther(p, r) ==
  /\ BenchAt(p, {"off"}) /\ r.memory = "own"
  /\ bench' = [bench EXCEPT ![p] = [Off EXCEPT !.pc = "mapped", !.request = r, !.pages = "4K"]]
  /\ UNCHANGED <<iommu, file, fileLock, chanLock>>

(* The constructor of MemoryMappedFile.  When its lock is taken the run    *)
(* ends: tryMapFile() falls back only from a MemoryMapException.  The      *)
(* destructor runs (another constructor was called before), but removes a  *)
(* file only if it was mapped.                                             *)

(* Mutant: the destructor removes the file whatever the constructor did. *)
LockFile_Removes(p) ==
  LET t == bench[p].pages IN
  /\ BenchAt(p, {"locking"})
  /\ IF fileLock[t] = Nobody
     THEN /\ fileLock' = [fileLock EXCEPT ![t] = p]
          /\ Goto(p, "resizing") /\ UNCHANGED file
     ELSE /\ bench' = [bench EXCEPT ![p] = Off] /\ UNCHANGED fileLock
          /\ file' = IF Request(p).keep THEN file ELSE [file EXCEPT ![t] = NoFile]
  /\ UNCHANGED <<iommu, chanLock>>

LockFile(p) ==
  LET t == bench[p].pages IN
  /\ BenchAt(p, {"locking"})
  /\ IF fileLock[t] = Nobody
     THEN /\ fileLock' = [fileLock EXCEPT ![t] = p]
          /\ Goto(p, "resizing")
     ELSE /\ bench' = [bench EXCEPT ![p] = Off] /\ UNCHANGED fileLock
  /\ UNCHANGED <<iommu, file, chanLock>>

(* map(): the file is made if it isn't there, and resized in any case.     *)
ResizeFile(p) ==
  /\ BenchAt(p, {"resizing"})
  /\ file' = [file EXCEPT ![bench[p].pages] = Request(p).size]
  /\ Goto(p, "mapping")
  /\ UNCHANGED <<iommu, fileLock, chanLock>>

(* Only now is it known that superpages are made of pages of the card.     *)
MapFile(p) ==
  /\ BenchAt(p, {"mapping"})
  /\ Goto(p, IF IsMultiple(Request(p).super, Request(p).page) THEN "mapped" ELSE "leaving")
  /\ UNCHANGED <<iommu, file, fileLock, chanLock>>

(* No directory, no permission, no hugepages left: a file that was made    *)
(* stays.  From 1 GiB hugepages it falls back to those of 2 MiB.           *)
MapFails(p) ==
  LET t == bench[p].pages IN
  /\ BenchAt(p, {"resizing", "mapping"})
  /\ fileLock' = [fileLock EXCEPT ![t] = Nobody]
  /\ bench' = [bench EXCEPT ![p] =
       IF t = "1GB" THEN [bench[p] EXCEPT !.pc = "locking", !.pages = "2MB"] ELSE Off]
  /\ UNCHANGED <<iommu, file, chanLock>>
-----------------------------------------------------------------------------
(* What PDA makes of a buffer of this size: pieces that end where one of   *)
(* its pages does, anywhere in the memory the card sees.  Of the list only *)
(* its length matters and where in the buffer each piece is.               *)
Gap == 100
PieceEnd(starts, size, s) ==
  LET later == {u \in starts : u > s}
  IN  IF later = {} THEN size ELSE CHOOSE u \in later : \A v \in later : u <= v
Pieces(cuts, size, up) ==
  LET starts == {0} \cup cuts
  IN  [s \in starts |-> [user |-> s, size |-> PieceEnd(starts, size, s) - s,
                         bus |-> Gap * (IF up THEN s + 1 ELSE size - s)]]

PageEnds(pages, size) == {u \in 1..(size - 1) : u % PageSize(pages) = 0}
Cuts(pages, size) == IF iommu THEN {{}} ELSE SUBSET PageEnds(pages, size)
ScatterGathers(pages, size) ==
  {Pieces(cuts, size, up \/ cuts = {}) : cuts \in Cuts(pages, size), up \in BOOLEAN}

(* The constructors refuse a piece smaller than a hugepage, a list longer  *)
(* than hugepages would give, and, without an IOMMU, pages of 4 KiB; the   *)
(* last they see only if the buffer is where a mapping starts.             *)
ListAccepted(list, size) ==
  /\ \A i \in DOMAIN list : list[i].size >= Mega2
  /\ Cardinality(DOMAIN list) <= size \div Mega2
(* getMemoryMaps(): the page size of the mapping that starts here, if any  *)
SizesSeen(pages, atStart) == IF atStart THEN {PageSize(pages)} ELSE {}
MapsAccepted(pages, atStart) == iommu \/ \A size \in SizesSeen(pages, atStart) : size >= Mega2

OpenDmaChannel(p, sgl) ==
  LET r == Request(p)
      accepted == /\ chanLock = Nobody /\ ListAccepted(sgl, r.size)
                  /\ MapsAccepted(bench[p].pages, r.atStart)
  IN
  /\ BenchAt(p, {"mapped"})
  /\ chanLock' = IF accepted THEN p ELSE chanLock
  /\ bench' = [bench EXCEPT ![p].sgl = IF accepted THEN sgl ELSE <<>>,
                            ![p].pc = IF accepted THEN "open" ELSE "leaving"]
  /\ UNCHANGED <<iommu, file, fileLock>>

(* getBusOffsetAddress(): the piece that holds the user address            *)
BusOffsetAddress(list, offset) ==
  LET i == CHOOSE k \in DOMAIN list : offset \in list[k].user .. list[k].user + list[k].size - 1
  IN  list[i].bus + (offset - list[i].user)

(* pushSuperpage(): checkSuperpage() refuses what leaves the buffer.  The  *)
(* bench pushes whole superpages, one after the other; others push what    *)
(* they like.  (The pages that come back are in DmaBench.)                 *)
SuperpageAccepted(p, offset) == offset + Request(p).super <= Request(p).size

PushSuperpage(p, offset) ==
  LET r == Request(p) IN
  /\ BenchAt(p, {"open"})
  /\ r.memory = "file" => offset \in {k * r.super : k \in 0..(r.size \div r.super - 1)}
  /\ SuperpageAccepted(p, offset)
  /\ bench' = [bench EXCEPT ![p].pushed =
       {[offset |-> offset, bus |-> BusOffsetAddress(bench[p].sgl, offset)]}]
  /\ UNCHANGED <<iommu, file, fileLock, chanLock>>
-----------------------------------------------------------------------------
(* The end of a run, after stopDma() or an exception.  ~ProgramDmaBench()  *)
(* destroys the mapped file first (its file, its lock, its mapping) and    *)
(* the channel later; memory of another user outlives the channel.         *)
Finish(p) ==
  /\ BenchAt(p, {"open"}) /\ Goto(p, "leaving")
  /\ UNCHANGED <<iommu, file, fileLock, chanLock>>

RemoveFile(p) ==
  /\ BenchAt(p, {"leaving"})
  /\ file' = IF Request(p).memory = "own" \/ Request(p).keep THEN file
             ELSE [file EXCEPT ![bench[p].pages] = NoFile]
  /\ Goto(p, "removed")
  /\ UNCHANGED <<iommu, fileLock, chanLock>>

UnlockFile(p) ==
  /\ BenchAt(p, {"removed"})
  /\ fileLock' = [t \in HugeFiles |-> IF fileLock[t] = p THEN Nobody ELSE fileLock[t]]
  /\ Goto(p, "closing")
  /\ UNCHANGED <<iommu, file, chanLock>>

CloseChannel(p) ==
  /\ BenchAt(p, {"closing"})
  /\ chanLock' = IF chanLock = p THEN Nobody ELSE chanLock
  /\ bench' = [bench EXCEPT ![p] = Off]
  /\ UNCHANGED <<iommu, file, fileLock>>

(* The locks of a killed process go with it, its file stays.               *)
KillBench(p) ==
  /\ ~BenchAt(p, {"off"})
  /\ fileLock' = [t \in HugeFiles |-> IF fileLock[t] = p THEN Nobody ELSE fileLock[t]]
  /\ chanLock' = IF chanLock = p THEN Nobody ELSE chanLock
  /\ bench' = [bench EXCEPT ![p] = Off]
  /\ UNCHANGED <<iommu, file>>

BuffersNext ==
  \E p \in Benches :
    \/ \E r \in BufferRequests : StartBench(p, r) \/ StartOther(p, r)
    \/ LockFile(p) \/ ResizeFile(p) \/ MapFile(p) \/ MapFails(p)
    \/ /\ BenchAt(p, {"mapped"})
       /\ \E sgl \in ScatterGathers(bench[p].pages, Request(p).size) : OpenDmaChannel(p, sgl)
    \/ BenchAt(p, {"open"}) /\ \E offset \in 0..Request(p).size : PushSuperpage(p, offset)
    \/ Finish(p) \/ RemoveFile(p) \/ UnlockFile(p) \/ CloseChannel(p) \/ KillBench(p)
-----------------------------------------------------------------------------
(* Nobody resizes or removes the file of a buffer that is mapped, whatever *)
(* other runs of the same name are started, refused, fail or are killed    *)
(* (MemoryMappedFile.cxx:103, "Locks are in place that make sure we don't  *)
(* get here unless we're allowed to").                                     *)
MappedFileStays ==
  \A p \in Benches : (BenchAt(p, {"mapped", "open"}) /\ Request(p).memory = "file") =>
    file[bench[p].pages] = Request(p).size

(* The card is given only memory of the buffer, and every superpage lies   *)
(* where the process will look for it, wherever the kernel put its pages:  *)
(* each byte at the address of its own piece.  The user's part of this is  *)
(* that hugepages are a multiple of superpages (help of --superpage-size,  *)
(* ProgramDmaBench.cxx:187), unless there is an IOMMU; and that the buffer *)
(* is one mapping, else nobody sees that it isn't made of hugepages.       *)
WhereItIs(list, u) ==
  {list[i].bus + u - list[i].user :
     i \in {k \in DOMAIN list : list[k].user <= u /\ u < list[k].user + list[k].size}}

Aligned(p, offset) ==
  \/ iommu
  \/ /\ IsMultiple(IF bench[p].pages = "1GB" THEN Giga ELSE Mega2, Request(p).super)
     /\ offset % Request(p).super = 0 /\ Request(p).atStart

SuperpagesLieInBuffer ==
  \A p \in Benches : \A s \in bench[p].pushed : Aligned(p, s.offset) =>
    \A u \in 0..(Request(p).super - 1) : s.bus + u \in WhereItIs(bench[p].sgl, s.offset + u)

BuffersAreRight == MappedFileStays /\ SuperpagesLieInBuffer
===============================================================================
