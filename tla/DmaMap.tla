------------------------------- MODULE DmaMap -------------------------------
(***************************************************************************)
(* Mapping user memory for demand DMA.  A ring of num blocks is mapped     *)
(* block by block: the user's pages are wired, mapped for DMA in pieces    *)
(* and the pieces listed in descriptor pages.  If one block fails all      *)
(* blocks are unmapped.  A new mapping, an empty one and closing the file  *)
(* unmap the old ring.                                                     *)
(*                                                                         *)
(* Sources: sis1100_ddma_map.c, sis1100_ddma_map_linux.c,                  *)
(* sis1100_sgl_map_user_linux.c.  Starting and stopping are modelled in    *)
(* DemandDma; here they only change the status.  dma->mux is held for the  *)
(* whole call, so a call is one at a time and the other actions wait.      *)
(***************************************************************************)
EXTENDS Integers

CONSTANTS
  MapFiles,    (* open files                                               *)
  MaxBlocks,   (* BOUND: blocks of a ring                                  *)
  MaxPages,    (* BOUND: pages of a block                                  *)
  MaxLeak,     (* BOUND: pages of a block that may have been lost before   *)
  PerPage      (* descriptors that fit in a descriptor page (dpseg)        *)

ASSUME MapAssumption == /\ {MaxBlocks, MaxPages, MaxLeak} \subseteq Nat
                        /\ PerPage \in Nat \ {0}

VARIABLES
  status,      (* dma->status                                              *)
  owner,       (* dma->owner                                               *)
  ring,        (* dma->numblocks and the pages of a block (dma->size)      *)
  block,       (* dma->block                                               *)
  pinned,      (* pages wired for each block, less the pages given back    *)
  mapped,      (* blocks mapped for DMA and not unmapped                   *)
  caller,      (* the call that holds dma->mux: the next block, or 0       *)
  odd          (* history: blocks whose scatterlist became unusable        *)

mapVars == <<status, owner, ring, block, pinned, mapped, caller, odd>>

Blocks == 1 .. MaxBlocks

(* sis1100_ddma_zero.                                                      *)
ZeroBlock == [orig |-> 0, nents |-> 0, list |-> 0, descs |-> 0]

MapInit ==
  /\ status = "invalid"
  /\ owner \in MapFiles
  /\ ring = [num |-> 0, pages |-> 0]
  /\ block = [b \in Blocks |-> ZeroBlock]
  /\ pinned = [b \in Blocks |-> 0]
  /\ mapped = {}
  /\ caller = 0
  /\ odd = {}

-----------------------------------------------------------------------------
(* What unmapping a block gives back.  The user's pages are counted by     *)
(* nents, the number of pieces, which pci_map_sg may have made smaller.    *)
PagesPut(t) == IF t.orig = 0 THEN 0 ELSE t.nents

(* sis1100_ddma_unmap_block of the blocks in S.                            *)
UnmapBlocks(S, t, p, m) ==
  /\ pinned' = [b \in Blocks |-> IF b \in S THEN p[b] - PagesPut(t[b])
                                           ELSE p[b]]
  /\ mapped' = m \ {b \in S : t[b].nents > 0}
  /\ block' = [b \in Blocks |-> IF b \in S THEN ZeroBlock ELSE t[b]]

Answered == caller' = 0 /\ UNCHANGED <<ring, owner>>

(* The tests of the arguments and of the status: EINVAL, EPERM, EALREADY.  *)
MapAllowed(f, num, pages, aligned) ==
  /\ num # 0 /\ pages # 0 => aligned
  /\ status # "invalid" => owner = f
  /\ status # "running"

(* sis1100_ddma_map up to its loop: the old ring goes in any case; then    *)
(* there may be nothing to map, or no memory for the list of blocks.       *)
DdmaMap(f, num, pages, aligned) ==
  /\ caller = 0
  /\ MapAllowed(f, num, pages, aligned)
  /\ status' = "invalid"
  /\ LET old == IF status = "ready" THEN 1 .. ring.num ELSE {}
     IN UnmapBlocks(old, block, pinned, mapped)
  /\ \/ Answered
     \/ /\ num # 0 /\ pages # 0
        /\ \A b \in 1 .. num : pinned[b] \in -MaxLeak .. MaxLeak + ring.pages
        /\ caller' = 1
        /\ owner' = f
        /\ ring' = [num |-> num, pages |-> pages]
  /\ UNCHANGED odd

-----------------------------------------------------------------------------
(* sis1100_ddma_map_block.  What each step leaves in the block:            *)

(* sg_alloc_table has filled the counts.                                   *)
Allocated == [ZeroBlock EXCEPT !.orig = ring.pages, !.nents = ring.pages]

(* Descriptors of n pieces.                                                *)
DescPages(n) == n \div PerPage + 1

Mapped(n) == [Allocated EXCEPT !.nents = n, !.list = DescPages(n)]

(* sgl_map_user_pages: wires all pages or none.                            *)
Wired(b) == [pinned EXCEPT ![b] = @ + ring.pages]

BlockDone(b, n) ==
  /\ block' = [block EXCEPT ![b] = [Mapped(n) EXCEPT !.descs = DescPages(n)]]
  /\ pinned' = Wired(b)
  /\ mapped' = mapped \union {b}
  /\ odd' = IF n < ring.pages THEN odd \union {b} ELSE odd
  /\ IF b = ring.num
     THEN status' = "ready" /\ caller' = 0
     ELSE caller' = b + 1 /\ UNCHANGED status
  /\ UNCHANGED <<ring, owner>>

(* Deviation: only the blocks before the one that failed are unmapped.     *)
MapFailsBefore(t, p, m) ==
  /\ UnmapBlocks(1 .. caller - 1, t, p, m)
  /\ Answered
  /\ UNCHANGED status

(* The error exit of sis1100_ddma_map: all blocks of the new ring.         *)
MapFails(t, p, m) ==
  /\ UnmapBlocks(1 .. ring.num, t, p, m)
  /\ Answered
  /\ UNCHANGED status

(* No scatterlist: nothing was done for this block.                        *)
TableFails(b) == MapFails(block, pinned, mapped) /\ UNCHANGED odd

(* The user's pages cannot be wired (too few, no memory, no such address). *)
WireFails(b) ==
  /\ MapFails([block EXCEPT ![b] = Allocated], pinned, mapped)
  /\ odd' = odd \union {b}

(* pci_map_sg maps nothing.                                                *)
PciMapFails(b) ==
  /\ MapFails([block EXCEPT ![b] = [Allocated EXCEPT !.nents = 0]],
              Wired(b), mapped)
  /\ odd' = odd \union {b}

(* No memory for the list (list = 0) or for one of the descriptor pages.   *)
DescriptorFails(b) ==
  \E n \in 1 .. ring.pages :
    /\ \/ MapFails([block EXCEPT ![b] = [Allocated EXCEPT !.nents = n]],
                   Wired(b), mapped \union {b})
       \/ \E d \in 0 .. DescPages(n) - 1 :
            MapFails([block EXCEPT ![b] = [Mapped(n) EXCEPT !.descs = d]],
                     Wired(b), mapped \union {b})
    /\ odd' = IF n < ring.pages THEN odd \union {b} ELSE odd

MapBlock ==
  /\ caller # 0
  /\ \/ \E n \in 1 .. ring.pages : BlockDone(caller, n)
     \/ TableFails(caller)
     \/ WireFails(caller)
     \/ PciMapFails(caller)
     \/ DescriptorFails(caller)

-----------------------------------------------------------------------------
(* Start and stop of the transfer; the owner's file is closed: stop, then  *)
(* sis1100_ddma_map(sc, fd, 0).                                            *)
StartStop ==
  /\ caller = 0
  /\ \/ status = "ready" /\ status' = "running"
     \/ status = "running" /\ status' = "ready"
  /\ UNCHANGED <<owner, ring, block, pinned, mapped, caller, odd>>

MapNext ==
  \/ \E f \in MapFiles, num \in 0 .. MaxBlocks, pages \in 0 .. MaxPages,
        aligned \in BOOLEAN : DdmaMap(f, num, pages, aligned)
  \/ MapBlock
  \/ StartStop

MapSpec == MapInit /\ [][MapNext]_mapVars

-----------------------------------------------------------------------------
(* While a ring is there all its blocks are wired, mapped and described;   *)
(* without a ring nothing is held, after any sequence of failures and of   *)
(* new mappings of other sizes.  Only the number of wired pages of blocks  *)
(* whose scatterlist lost it is exempt (hazards in ddma_map_linux.c and    *)
(* sgl_map).                                                               *)
RingHoldings ==
  /\ status # "invalid" =>
       \A b \in 1 .. ring.num :
         /\ b \in mapped /\ block[b].descs = DescPages(block[b].nents)
         /\ b \in odd \/ pinned[b] = ring.pages
  /\ \A b \in Blocks :
       (status = "invalid" /\ caller = 0) \/ b > ring.num =>
         b \notin mapped /\ (b \in odd \/ pinned[b] = 0)
=============================================================================
