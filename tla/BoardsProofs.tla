---------------------------- MODULE BoardsProofs ----------------------------
(***************************************************************************)
(* Proofs about DmaMap, for rings of any number of blocks of any size, and *)
(* about Eeprom, for any width of the address and any words.               *)
(***************************************************************************)
EXTENDS DmaMap, Eeprom, SequenceTheorems, TLAPS

-----------------------------------------------------------------------------
(* DmaMap: what the blocks hold.                                           *)
Counts == [orig : Nat, nents : Nat, list : Int, descs : Int]

MapTypeOK ==
  /\ status \in {"invalid", "ready", "running"}
  /\ owner \in MapFiles
  /\ ring \in [num : 0 .. MaxBlocks, pages : 0 .. MaxPages]
  /\ block \in [Blocks -> Counts]
  /\ pinned \in [Blocks -> Int]
  /\ mapped \subseteq Blocks
  /\ caller \in 0 .. MaxBlocks
  /\ odd \subseteq Blocks

(* A block that is wired, mapped and described, or has nothing.            *)
Holding(b) ==
  /\ b \in mapped
  /\ block[b].orig # 0 /\ block[b].nents > 0
  /\ block[b].descs = DescPages(block[b].nents)
  /\ b \in odd \/ (pinned[b] = ring.pages /\ block[b].nents = ring.pages)

Empty(b) ==
  /\ b \notin mapped
  /\ block[b] = ZeroBlock
  /\ b \in odd \/ pinned[b] = 0

(* The blocks that must be held: all of a ring, or those that the call has *)
(* mapped so far.                                                          *)
Filled(b) ==
  \/ status # "invalid" /\ b <= ring.num
  \/ caller # 0 /\ b < caller

MapInv ==
  /\ MapTypeOK
  /\ status # "invalid" => caller = 0
  /\ caller # 0 => caller <= ring.num /\ ring.pages > 0
  /\ \A b \in Blocks : Filled(b) => Holding(b)
  /\ \A b \in Blocks : ~ Filled(b) => Empty(b)

-----------------------------------------------------------------------------
LEMMA DescPagesInt == \A n \in Nat : DescPages(n) \in Int
  BY MapAssumption DEF DescPages

(* What the steps of a block leave in its counts, field by field.          *)
LEMMA CountsAfter ==
  ASSUME NEW n, NEW d
  PROVE  /\ Allocated = [orig |-> ring.pages, nents |-> ring.pages,
                         list |-> 0, descs |-> 0]
         /\ [Allocated EXCEPT !.nents = n] =
              [orig |-> ring.pages, nents |-> n, list |-> 0, descs |-> 0]
         /\ [Mapped(n) EXCEPT !.descs = d] =
              [orig |-> ring.pages, nents |-> n, list |-> DescPages(n),
               descs |-> d]
<1> DEFINE p == ring.pages
           z == [ZeroBlock EXCEPT !.orig = p]
<1>1. z = [orig |-> p, nents |-> 0, list |-> 0, descs |-> 0]
  BY DEF ZeroBlock
<1>2. Allocated = [z EXCEPT !.nents = p]
  BY DEF Allocated
<1> HIDE DEF z, p
<1>3. Allocated = [orig |-> p, nents |-> p, list |-> 0, descs |-> 0]
  BY <1>1, <1>2
<1> DEFINE a == [Allocated EXCEPT !.nents = n]
<1>4. a = [orig |-> p, nents |-> n, list |-> 0, descs |-> 0]
  BY <1>3
<1>5. Mapped(n) = [a EXCEPT !.list = DescPages(n)]
  BY DEF Mapped
<1> HIDE DEF a
<1>6. Mapped(n) = [orig |-> p, nents |-> n, list |-> DescPages(n), descs |-> 0]
  BY <1>4, <1>5
<1>7. [Mapped(n) EXCEPT !.descs = d] =
        [orig |-> p, nents |-> n, list |-> DescPages(n), descs |-> d]
  BY <1>6
<1>8. QED BY <1>3, <1>4, <1>7 DEF a, p

LEMMA MapInitInv == MapInit => MapInv
  BY MapAssumption DEF MapInit, MapInv, MapTypeOK, Counts, ZeroBlock, Blocks,
       Filled, Holding, Empty

(* Unmapping gives back what a held block has and leaves the others.       *)
LEMMA MapStart ==
  ASSUME MapInv, NEW f \in MapFiles, NEW num \in 0 .. MaxBlocks,
         NEW pages \in 0 .. MaxPages, NEW al \in BOOLEAN,
         DdmaMap(f, num, pages, al)
  PROVE  MapInv'
<1> DEFINE old == IF status = "ready" THEN 1 .. ring.num ELSE {}
<1>1. /\ caller = 0 /\ status # "running" /\ status' = "invalid" /\ odd' = odd
      /\ UnmapBlocks(old, block, pinned, mapped)
      /\ \/ caller' = 0 /\ ring' = ring /\ owner' = owner
         \/ /\ num # 0 /\ pages # 0 /\ caller' = 1 /\ owner' = f
            /\ ring' = [num |-> num, pages |-> pages]
  BY DEF DdmaMap, MapAllowed, Answered
<1>2. MapTypeOK'
  <2>1. /\ \A b \in Blocks : PagesPut(block[b]) \in Int
        /\ ZeroBlock \in Counts
    BY DEF MapInv, MapTypeOK, PagesPut, Counts, ZeroBlock
  <2>2. block' \in [Blocks -> Counts]
    BY <1>1, <2>1 DEF MapInv, MapTypeOK, UnmapBlocks
  <2>3. pinned' \in [Blocks -> Int]
    BY <1>1, <2>1 DEF MapInv, MapTypeOK, UnmapBlocks
  <2>4. mapped' \subseteq Blocks
    BY <1>1 DEF MapInv, MapTypeOK, UnmapBlocks
  <2>5. ring' \in [num : 0 .. MaxBlocks, pages : 0 .. MaxPages]
    BY <1>1 DEF MapInv, MapTypeOK
  <2>6. caller' \in 0 .. MaxBlocks
    BY <1>1, MapAssumption DEF MapInv, MapTypeOK
  <2>7. QED
    BY <1>1, <2>2, <2>3, <2>4, <2>5, <2>6 DEF MapInv, MapTypeOK
<1>3. ASSUME NEW b \in Blocks PROVE Empty(b)'
  <2>1. CASE b \in old
    <3>1. status = "ready" /\ Holding(b)
      BY <2>1 DEF MapInv, MapTypeOK, Filled, Blocks
    <3>2. QED
      BY <1>1, <2>1, <3>1 DEF MapInv, MapTypeOK, UnmapBlocks, PagesPut, Holding,
           Empty, Counts
  <2>2. CASE b \notin old
    <3>1. Empty(b)
      BY <1>1, <2>2 DEF MapInv, MapTypeOK, Filled, Blocks
    <3>2. QED
      BY <1>1, <2>2, <3>1 DEF MapInv, MapTypeOK, UnmapBlocks, Empty
  <2>3. QED BY <2>1, <2>2
<1>4. \A b \in Blocks : ~ Filled(b)'
  BY <1>1 DEF Filled, Blocks
<1>5. QED
  BY <1>1, <1>2, <1>3, <1>4, MapAssumption DEF MapInv

(* The call goes on with the block that it holds, which is empty.          *)
LEMMA CallerIsEmpty ==
  ASSUME MapInv, caller # 0
  PROVE  /\ caller \in Blocks /\ caller \in 1 .. ring.num /\ Empty(caller)
         /\ status = "invalid" /\ ring.pages \in Nat \ {0}
  BY MapAssumption DEF MapInv, MapTypeOK, Filled, Blocks

LEMMA MapStep ==
  ASSUME MapInv, NEW c \in Blocks, c = caller, NEW n \in 1 .. ring.pages,
         BlockDone(c, n)
  PROVE  MapInv'
<1>1. /\ c \in Blocks /\ c \in 1 .. ring.num /\ Empty(c)
      /\ status = "invalid" /\ ring.pages \in Nat \ {0}
  BY CallerIsEmpty DEF Blocks
<1>2. n \in Nat /\ DescPages(n) \in Int
  BY DescPagesInt, <1>1
<1> DEFINE done == [orig |-> ring.pages, nents |-> n, list |-> DescPages(n),
                    descs |-> DescPages(n)]
<1>3. /\ block' = [block EXCEPT ![c] = done]
      /\ pinned' = [pinned EXCEPT ![c] = pinned[c] + ring.pages]
      /\ mapped' = mapped \union {c} /\ ring' = ring /\ owner' = owner
      /\ odd' = IF n < ring.pages THEN odd \union {c} ELSE odd
      /\ IF c = ring.num THEN status' = "ready" /\ caller' = 0
                              ELSE caller' = c + 1 /\ status' = status
  <2>1. [Mapped(n) EXCEPT !.descs = DescPages(n)] = done
    BY CountsAfter
  <2>2. QED BY <2>1 DEF BlockDone, Wired
<1>4. done \in Counts
  BY <1>1, <1>2 DEF Counts
<1> HIDE DEF done
<1>5. MapTypeOK'
  <2>1. block' \in [Blocks -> Counts]
    BY <1>1, <1>3, <1>4 DEF MapInv, MapTypeOK
  <2>2. pinned' \in [Blocks -> Int]
    BY <1>1, <1>3 DEF MapInv, MapTypeOK
  <2>3. mapped' \subseteq Blocks /\ odd' \subseteq Blocks
    BY <1>1, <1>3 DEF MapInv, MapTypeOK
  <2>4. ring.num \in 0 .. MaxBlocks
    BY DEF MapInv, MapTypeOK
  <2>5. caller' \in 0 .. MaxBlocks
    BY <1>1, <1>3, <2>4, MapAssumption
  <2>6. QED
    BY <1>3, <2>1, <2>2, <2>3, <2>5 DEF MapInv, MapTypeOK
<1>6. Holding(c)'
  <2>1. block'[c] = done /\ pinned'[c] = pinned[c] + ring.pages
    BY <1>1, <1>3 DEF MapInv, MapTypeOK
  <2>2. c \in odd \/ pinned[c] = 0
    BY <1>1 DEF Empty
  <2>3. /\ done.orig = ring.pages /\ done.nents = n
        /\ done.descs = DescPages(done.nents)
    BY DEF done
  <2>4. c \in odd' \/ (pinned'[c] = ring.pages /\ n = ring.pages)
    BY <1>1, <1>2, <1>3, <2>1, <2>2 DEF MapInv, MapTypeOK
  <2>5. /\ block'[c].orig = ring.pages /\ block'[c].nents = n
        /\ block'[c].descs = DescPages(block'[c].nents)
    BY <2>1, <2>3
  <2>6. ring.pages # 0 /\ n > 0 /\ c \in mapped' /\ ring' = ring
    BY <1>1, <1>2, <1>3
  <2>7. QED BY <2>4, <2>5, <2>6 DEF Holding
<1>7. ASSUME NEW b \in Blocks, b # c
      PROVE  (b < c => Holding(b)') /\ (~ (b < c) => Empty(b)')
  <2>1. Filled(b) <=> b < c
    BY <1>1 DEF Filled
  <2>2. (b < c => Holding(b)) /\ (~ (b < c) => Empty(b))
    BY <2>1 DEF MapInv
  <2>3. /\ block'[b] = block[b] /\ pinned'[b] = pinned[b]
        /\ b \in mapped' <=> b \in mapped
        /\ b \in odd' <=> b \in odd
    BY <1>3, <1>7 DEF MapInv, MapTypeOK
  <2>4. QED
    BY <1>3, <2>2, <2>3 DEF Holding, Empty
<1>8. \A b \in Blocks : Filled(b)' <=> b <= c
  <2>1. CASE c = ring.num
    BY <1>1, <1>3, <2>1 DEF Filled, Blocks
  <2>2. CASE c # ring.num
    BY <1>1, <1>3, <2>2 DEF Filled, Blocks
  <2>3. QED BY <2>1, <2>2
<1>9. ASSUME NEW b \in Blocks
      PROVE  (Filled(b)' => Holding(b)') /\ (~ Filled(b)' => Empty(b)')
  <2>1. CASE b = c
    BY <1>6, <1>8, <1>1, <2>1 DEF Blocks
  <2>2. CASE b # c /\ b < c
    BY <1>7, <1>8, <1>1, <2>2 DEF Blocks
  <2>3. CASE b # c /\ ~ (b < c)
    <3>1. ~ (b <= c)
      BY <1>1, <2>3 DEF Blocks
    <3>2. QED BY <1>7, <1>8, <2>3, <3>1
  <2>4. QED BY <2>1, <2>2, <2>3
<1>10. /\ status' # "invalid" => caller' = 0
       /\ caller' # 0 => caller' <= ring'.num /\ ring'.pages > 0
  <2>1. c + 1 <= ring.num \/ c = ring.num
    BY <1>1, CallerIsEmpty DEF MapInv, MapTypeOK
  <2>2. QED BY <1>1, <1>3, <2>1
<1>11. QED
  BY <1>5, <1>9, <1>10 DEF MapInv

(* The error exit: t is what the failing step has left in the blocks; only *)
(* the failing block differs from before.                                  *)
LEMMA MapStop ==
  ASSUME MapInv, caller # 0, NEW t \in [Blocks -> Counts],
         NEW p \in [Blocks -> Int], NEW m \in SUBSET Blocks,
         MapFails(t, p, m),
         \A b \in Blocks \ {caller} :
           /\ t[b] = block[b] /\ p[b] = pinned[b]
           /\ b \in m <=> b \in mapped,
         caller \in m => t[caller].nents > 0,
         odd' \in {odd, odd \union {caller}},
         caller \in odd' \/ p[caller] = PagesPut(t[caller])
  PROVE  MapInv'
<1>1. /\ caller \in Blocks /\ caller \in 1 .. ring.num /\ Empty(caller)
      /\ status = "invalid" /\ ring.pages \in Nat \ {0}
  BY CallerIsEmpty
<1>2. /\ UnmapBlocks(1 .. ring.num, t, p, m) /\ caller' = 0 /\ ring' = ring
      /\ owner' = owner /\ status' = status
  BY DEF MapFails, Answered
<1>3. MapTypeOK'
  <2>1. /\ \A b \in Blocks : PagesPut(t[b]) \in Int
        /\ ZeroBlock \in Counts
    BY DEF PagesPut, Counts, ZeroBlock
  <2>2. block' \in [Blocks -> Counts]
    BY <1>2, <2>1 DEF UnmapBlocks
  <2>3. pinned' \in [Blocks -> Int]
    BY <1>2, <2>1 DEF UnmapBlocks
  <2>4. mapped' \subseteq Blocks /\ odd' \subseteq Blocks
    BY <1>1, <1>2 DEF MapInv, MapTypeOK, UnmapBlocks
  <2>5. QED
    BY <1>2, <2>2, <2>3, <2>4, MapAssumption DEF MapInv, MapTypeOK
<1>4. ASSUME NEW b \in Blocks PROVE Empty(b)'
  <2>1. CASE b = caller
    BY <1>1, <1>2, <2>1 DEF UnmapBlocks, Empty, Counts
  <2>2. CASE b # caller /\ b < caller
    <3>1. b \in 1 .. ring.num /\ b \in Blocks \ {caller}
      BY <1>1, <2>2 DEF Blocks, MapInv, MapTypeOK
    <3>2. Holding(b)
      BY <2>2 DEF MapInv, Filled
    <3>3. PagesPut(t[b]) = block[b].nents /\ t[b].nents > 0
      BY <3>1, <3>2 DEF Holding, PagesPut
    <3>4. block'[b] = ZeroBlock /\ b \notin mapped'
      BY <1>2, <3>1, <3>3 DEF UnmapBlocks
    <3>5. pinned'[b] = pinned[b] - block[b].nents
      BY <1>2, <3>1, <3>3 DEF UnmapBlocks
    <3>6. b \in odd \/ pinned[b] - block[b].nents = 0
      BY <1>1, <3>2 DEF Holding
    <3>7. QED
      BY <3>1, <3>4, <3>5, <3>6 DEF Empty
  <2>3. CASE b # caller /\ ~ (b < caller)
    <3>1. Empty(b)
      BY <1>1, <2>3 DEF MapInv, Filled
    <3>2. t[b] = ZeroBlock /\ PagesPut(t[b]) = 0
      BY <2>3, <3>1 DEF Empty, PagesPut, ZeroBlock
    <3>3. block'[b] = ZeroBlock /\ b \notin mapped'
      BY <1>2, <2>3, <3>1, <3>2 DEF UnmapBlocks, Empty
    <3>4. pinned'[b] = pinned[b]
      BY <1>2, <2>3, <3>2 DEF UnmapBlocks, MapInv, MapTypeOK
    <3>5. QED
      BY <3>1, <3>3, <3>4 DEF Empty
  <2>4. QED BY <2>1, <2>2, <2>3
<1>5. \A b \in Blocks : ~ Filled(b)'
  BY <1>1, <1>2 DEF Filled
<1>6. QED
  BY <1>1, <1>2, <1>3, <1>4, <1>5 DEF MapInv

LEMMA MapInvNext == MapInv /\ [MapNext]_mapVars => MapInv'
<1> SUFFICES ASSUME MapInv, [MapNext]_mapVars PROVE MapInv'
  OBVIOUS
<1>1. ASSUME MapBlock PROVE MapInv'
  <2>1. caller # 0
    BY <1>1 DEF MapBlock
  <2>2. /\ caller \in Blocks /\ caller \in 1 .. ring.num /\ Empty(caller)
        /\ status = "invalid" /\ ring.pages \in Nat \ {0}
    BY <2>1, CallerIsEmpty
  <2>3. ASSUME NEW n \in 1 .. ring.pages, BlockDone(caller, n) PROVE MapInv'
    BY <2>2, <2>3, MapStep
  <2>4. /\ block \in [Blocks -> Counts] /\ pinned \in [Blocks -> Int]
        /\ mapped \in SUBSET Blocks /\ caller \notin mapped
        /\ block[caller] = ZeroBlock
        /\ caller \in odd \/ pinned[caller] = 0
    BY <2>2 DEF MapInv, MapTypeOK, Empty
  <2>5. ASSUME TableFails(caller) PROVE MapInv'
    <3>1. PagesPut(block[caller]) = 0
      BY <2>4 DEF PagesPut, ZeroBlock
    <3>2. MapFails(block, pinned, mapped) /\ odd' = odd
      BY <2>5 DEF TableFails
    <3>3. QED
      BY <2>1, <2>4, <3>1, <3>2, MapStop
  <2>6. /\ Wired(caller) \in [Blocks -> Int]
        /\ Wired(caller)[caller] = pinned[caller] + ring.pages
        /\ \A b \in Blocks \ {caller} : Wired(caller)[b] = pinned[b]
    BY <2>2, <2>4 DEF Wired
  <2>7. ASSUME NEW d \in Counts
        PROVE  /\ [block EXCEPT ![caller] = d] \in [Blocks -> Counts]
               /\ [block EXCEPT ![caller] = d][caller] = d
               /\ \A b \in Blocks \ {caller} :
                    [block EXCEPT ![caller] = d][b] = block[b]
    BY <2>2, <2>4
  <2>8. Allocated = [orig |-> ring.pages, nents |-> ring.pages,
                     list |-> 0, descs |-> 0]
    BY CountsAfter
  <2>9. ASSUME WireFails(caller) PROVE MapInv'
    <3>1. Allocated \in Counts
      BY <2>2, <2>8 DEF Counts
    <3>2. /\ MapFails([block EXCEPT ![caller] = Allocated], pinned, mapped)
          /\ odd' = odd \union {caller}
      BY <2>9 DEF WireFails
    <3>3. QED
      BY <2>1, <2>4, <2>7, <3>1, <3>2, MapStop
  <2>10. ASSUME PciMapFails(caller) PROVE MapInv'
    <3> DEFINE d == [Allocated EXCEPT !.nents = 0]
    <3>1. d = [orig |-> ring.pages, nents |-> 0, list |-> 0, descs |-> 0]
      BY CountsAfter
    <3>4. d \in Counts /\ PagesPut(d) = 0
      BY <2>2, <3>1 DEF Counts, PagesPut
    <3>2. /\ MapFails([block EXCEPT ![caller] = d], Wired(caller), mapped)
          /\ odd' = odd \union {caller}
      BY <2>10 DEF PciMapFails
    <3> HIDE DEF d
    <3>3. QED
      <4> DEFINE t == [block EXCEPT ![caller] = d]
      <4>1. t \in [Blocks -> Counts] /\ t[caller] = d
            /\ \A b \in Blocks \ {caller} : t[b] = block[b]
        BY <2>7, <3>4
      <4>2. MapFails(t, Wired(caller), mapped)
        BY <3>2
      <4> HIDE DEF t
      <4>3. QED
        BY <2>1, <2>4, <2>6, <3>2, <4>1, <4>2, MapStop
  <2>11. ASSUME NEW n \in 1 .. ring.pages, NEW d \in Counts,
                d.orig = ring.pages, d.nents = n,
                MapFails([block EXCEPT ![caller] = d], Wired(caller),
                         mapped \union {caller}),
                odd' = IF n < ring.pages THEN odd \union {caller} ELSE odd
         PROVE  MapInv'
    <3>1. PagesPut(d) = n
      BY <2>2, <2>11 DEF PagesPut
    <3>2. caller \in odd' \/ Wired(caller)[caller] = PagesPut(d)
      BY <2>2, <2>4, <2>6, <2>11, <3>1
    <3>3. odd' \in {odd, odd \union {caller}}
      BY <2>11
    <3>4. mapped \union {caller} \in SUBSET Blocks
      BY <2>2, <2>4
    <3>5. [block EXCEPT ![caller] = d][caller].nents > 0
      BY <2>7, <2>11
    <3>6. QED
      <4> DEFINE t == [block EXCEPT ![caller] = d]
                 m == mapped \union {caller}
      <4>1. t \in [Blocks -> Counts] /\ t[caller] = d /\ t[caller].nents > 0
            /\ \A b \in Blocks \ {caller} : t[b] = block[b]
        BY <2>7, <3>5
      <4>2. MapFails(t, Wired(caller), m)
        BY <2>11
      <4>3. /\ m \in SUBSET Blocks
            /\ \A b \in Blocks \ {caller} : b \in m <=> b \in mapped
        BY <3>4
      <4> HIDE DEF t, m
      <4>4. QED
        BY <2>1, <2>6, <3>2, <3>3, <4>1, <4>2, <4>3, MapStop
  <2>12. ASSUME DescriptorFails(caller) PROVE MapInv'
    <3>1. PICK n \in 1 .. ring.pages :
           /\ \/ MapFails([block EXCEPT ![caller] = [Allocated EXCEPT !.nents = n]],
                          Wired(caller), mapped \union {caller})
              \/ \E d \in 0 .. DescPages(n) - 1 :
                   MapFails([block EXCEPT ![caller] = [Mapped(n) EXCEPT !.descs = d]],
                            Wired(caller), mapped \union {caller})
           /\ odd' = IF n < ring.pages THEN odd \union {caller} ELSE odd
      BY <2>12 DEF DescriptorFails
    <3>2. n \in Nat /\ DescPages(n) \in Int
      BY <2>2, DescPagesInt
    <3> DEFINE e == [Allocated EXCEPT !.nents = n]
    <3>3. e = [orig |-> ring.pages, nents |-> n, list |-> 0, descs |-> 0]
      BY CountsAfter
    <3>6. e \in Counts /\ e.orig = ring.pages /\ e.nents = n
      BY <2>2, <3>2, <3>3 DEF Counts
    <3>4. ASSUME NEW d \in 0 .. DescPages(n) - 1
          PROVE  /\ [Mapped(n) EXCEPT !.descs = d] \in Counts
                 /\ [Mapped(n) EXCEPT !.descs = d].orig = ring.pages
                 /\ [Mapped(n) EXCEPT !.descs = d].nents = n
      <4> DEFINE g == [Mapped(n) EXCEPT !.descs = d]
      <4>1. g = [orig |-> ring.pages, nents |-> n, list |-> DescPages(n),
                 descs |-> d]
        BY CountsAfter
      <4> HIDE DEF g
      <4>2. g \in Counts /\ g.orig = ring.pages /\ g.nents = n
        BY <2>2, <3>2, <4>1 DEF Counts
      <4>3. QED BY <4>2 DEF g
    <3> HIDE DEF e
    <3>5. QED
      BY <2>11, <3>1, <3>6, <3>4 DEF e
  <2>13. QED
    BY <1>1, <2>3, <2>5, <2>9, <2>10, <2>12 DEF MapBlock
<1>2. ASSUME StartStop PROVE MapInv'
  <2>1. /\ status # "invalid" /\ status' \in {"ready", "running"}
        /\ UNCHANGED <<owner, ring, block, pinned, mapped, caller, odd>>
    BY <1>2 DEF StartStop
  <2>2. MapTypeOK'
    BY <2>1 DEF MapInv, MapTypeOK
  <2>3. QED
    BY <2>1, <2>2 DEF MapInv, Filled, Holding, Empty, Blocks
<1>3. CASE UNCHANGED mapVars
  BY <1>3 DEF mapVars, MapInv, MapTypeOK, Filled, Holding, Empty, Blocks
<1>4. QED
  BY <1>1, <1>2, <1>3, MapStart DEF MapNext

LEMMA MapInvHoldings == MapInv => RingHoldings
<1> SUFFICES ASSUME MapInv PROVE RingHoldings
  OBVIOUS
<1>1. ASSUME status # "invalid", NEW b \in 1 .. ring.num
      PROVE  Holding(b)
  <2>1. ring.num \in 0 .. MaxBlocks
    BY DEF MapInv, MapTypeOK
  <2>2. b \in Blocks /\ Filled(b)
    BY <1>1, <2>1, MapAssumption DEF Filled, Blocks
  <2>3. QED BY <2>2 DEF MapInv
<1>2. ASSUME NEW b \in Blocks,
             (status = "invalid" /\ caller = 0) \/ b > ring.num
      PROVE  Empty(b)
  BY <1>2 DEF MapInv, MapTypeOK, Filled, Blocks
<1>3. QED
  BY <1>1, <1>2 DEF RingHoldings, Holding, Empty

(* A ring's blocks are wired, mapped and described; what no ring has is    *)
(* given back (sis1100_ddma_map and its error exit).                       *)
THEOREM MapHoldings == MapSpec => []RingHoldings
  BY MapInvHoldings, MapInitInv, MapInvNext, PTL DEF MapSpec
-----------------------------------------------------------------------------
(* Eeprom: the words of the running call.                                  *)
(* The number of words of a call that are done.                            *)
DoneWords == Len(ecall.got) - Len(ecall.todo)

(* The i-th word of the running call.                                      *)
At(i) == (ecall.from + i - 1) % Size

EepromCall ==
  [op : {"none", "read", "write"}, step : {"none", "enable", "word", "wait"},
   from : Addresses, addr : Addresses, todo : Seq(Words), got : Seq(Words),
   clean : BOOLEAN]

EepromTypeOK ==
  /\ mem \in [Addresses -> Words] /\ before \in [Addresses -> Words]
  /\ wen \in BOOLEAN /\ spoilt \in BOOLEAN
  /\ ecall \in EepromCall
  /\ ecall.op = "none" => ecall = NoCall
  /\ cache.words # <<>> => cache.words \in Words \X Words

(* Just the first n words of the call have been written.                   *)
Written(n) ==
  /\ \A i \in 1 .. n : mem[At(i)] = ecall.got[i]
  /\ \A a \in Addresses :
       (\A i \in 1 .. n : At(i) # a) => mem[a] = before[a]

Writing ==
  ecall.op = "write" =>
    /\ ecall.step \in {"enable", "word", "wait"}
    /\ Len(ecall.got) <= MaxWords
    /\ Len(ecall.todo) <= Len(ecall.got)
    /\ ecall.addr = (ecall.from + DoneWords) % Size
    /\ \A j \in 1 .. Len(ecall.todo) : ecall.todo[j] = ecall.got[DoneWords + j]
    /\ ecall.step # "enable" => wen
    /\ ecall.step = "enable" => DoneWords = 0
    /\ ecall.step = "wait" => ecall.todo # <<>>
    /\ Written(IF ecall.step = "wait" THEN DoneWords + 1 ELSE DoneWords)

Reading ==
  ecall.op = "read" =>
    /\ ecall.step = "word"
    /\ Len(ecall.got) + Len(ecall.todo) <= MaxWords
    /\ ecall.addr = (ecall.from + Len(ecall.got)) % Size
    /\ wen => spoilt
    /\ ecall.clean =>
         /\ \A i \in 1 .. Len(ecall.got) : ecall.got[i] = mem[At(i)]
         /\ cache.addr # -1 =>
              /\ cache.addr \in Addresses /\ cache.addr + 1 \in Addresses
              /\ cache.words = <<mem[cache.addr], mem[cache.addr + 1]>>

EepromInv == /\ EepromTypeOK /\ Writing /\ Reading
             /\ ecall.op = "none" => cache = NoCache
             /\ EepromHonest

-----------------------------------------------------------------------------
LEMMA SizeFacts ==
  /\ Size \in Nat \ {0} /\ 2 ^ (AddrLen - 2) \in Nat \ {0}
  /\ Size = 4 * 2 ^ (AddrLen - 2)
  /\ MaxWords \in 0 .. Size - 1
  BY EepromAssumption, PowersOfTwo DEF Size

LEMMA SizeTypes == Size \in Nat \ {0} /\ MaxWords \in Nat /\ MaxWords < Size
  BY SizeFacts

LEMMA Divides ==
  ASSUME NEW d \in Nat \ {0}, NEW r \in 0 .. d - 1
  PROVE  /\ r \div d = 0 /\ r % d = r
         /\ (d + r) \div d = 1 /\ (d + r) % d = r
         /\ (2 * d + r) \div d = 2
         /\ (3 * d) \div d = 3
  OBVIOUS

(* The chip understands the commands that the driver shifts out.           *)
LEMMA Commands ==
  /\ Operation(WriteEnable) = "enable" /\ Operation(WriteDisable) = "disable"
  /\ \A a \in Addresses :
       /\ Operation(WriteWord(a)) = "write" /\ WriteWord(a) % Size = a
       /\ Operation(ReadWord(a)) = "read"
<1> DEFINE q == 2 ^ (AddrLen - 2)
<1>1. q \in Nat \ {0} /\ Size = 4 * q /\ Size \in Nat \ {0}
  BY SizeFacts
<1>2. Operation(WriteEnable) = "enable"
  <2>1. 0 % q = 0
    BY <1>1, Divides
  <2>2. WriteEnable = 3 * q
    <3>1. PutBits(0, 3, 4) = 3
      BY DEF PutBits
    <3>2. QED BY <1>1, <2>1, <3>1 DEF WriteEnable, PutBits
  <2>6. 3 * q \in 0 .. Size - 1
    BY <1>1
  <2>3. (3 * q) \div Size = 0 /\ (3 * q) % Size = 3 * q
    BY <1>1, <2>6, Divides
  <2>4. (3 * q) \div q = 3
    BY <1>1, Divides
  <2> HIDE DEF q
  <2>5. QED
    BY <2>2, <2>3, <2>4 DEF Operation, q
<1>3. Operation(WriteDisable) = "disable"
  <2>1. WriteDisable = 0
    BY PowersOfTwo, Divides DEF WriteDisable, PutBits
  <2>2. 0 \div Size = 0 /\ 0 % Size = 0 /\ 0 \div q = 0
    BY <1>1, Divides
  <2>3. QED
    BY <2>1, <2>2 DEF Operation
<1>4. ASSUME NEW a \in Addresses
      PROVE  /\ Operation(WriteWord(a)) = "write" /\ WriteWord(a) % Size = a
             /\ Operation(ReadWord(a)) = "read"
  <2>1. a \in 0 .. Size - 1
    BY DEF Addresses
  <2>2. a % 2 ^ AddrLen = a /\ 2 ^ AddrLen = Size
    BY <1>1, <2>1, Divides DEF Size
  <2>3. WriteWord(a) = Size + a
    <3>1. PutBits(0, 1, 2) = 1
      BY DEF PutBits
    <3>2. QED BY <1>1, <2>1, <2>2, <3>1 DEF WriteWord, PutBits
  <2>4. ReadWord(a) = 2 * Size + a
    <3>1. PutBits(0, 2, 2) = 2
      BY DEF PutBits
    <3>2. QED BY <1>1, <2>1, <2>2, <3>1 DEF ReadWord, PutBits
  <2>5. /\ (Size + a) \div Size = 1 /\ (Size + a) % Size = a
        /\ (2 * Size + a) \div Size = 2
    BY <1>1, <2>1, Divides
  <2>6. QED
    BY <2>3, <2>4, <2>5 DEF Operation
<1>5. QED BY <1>2, <1>3, <1>4

(* Addresses wrap around at the end of the EEPROM.                         *)
LEMMA Wraps ==
  ASSUME NEW x \in 0 .. 2 * Size - 1
  PROVE  /\ x < Size => x % Size = x
         /\ x >= Size => x % Size = x - Size
         /\ x % Size \in Addresses
<1>1. Size \in Nat \ {0}
  BY SizeFacts
<1>2. CASE x < Size
  <2>1. x \in 0 .. Size - 1
    BY <1>1, <1>2
  <2>2. x % Size = x
    BY <1>1, <2>1, Divides
  <2>3. QED BY <1>1, <1>2, <2>1, <2>2 DEF Addresses
<1>3. CASE x >= Size
  <2>1. x = Size + (x - Size) /\ x - Size \in 0 .. Size - 1
    BY <1>1, <1>3
  <2>2. (Size + (x - Size)) % Size = x - Size
    BY <1>1, <2>1, Divides
  <2>3. QED BY <1>1, <1>3, <2>1, <2>2 DEF Addresses
<1>4. QED BY <1>1, <1>2, <1>3

LEMMA NextPlace ==
  ASSUME NEW from \in Addresses, NEW n \in 0 .. Size - 1
  PROVE  /\ (from + n) % Size \in Addresses
         /\ NextAddress((from + n) % Size) = (from + n + 1) % Size
<1> DEFINE u == from + n
           w == from + n + 1
           y == u % Size
           x == y + 1
<1>1. Size \in Nat \ {0} /\ from \in 0 .. Size - 1
  BY SizeFacts DEF Addresses
<1>2. u \in 0 .. 2 * Size - 1 /\ w \in 0 .. 2 * Size - 1 /\ w = u + 1
  BY <1>1
<1> HIDE DEF u, w
<1>3. /\ u < Size => y = u
      /\ u >= Size => y = u - Size
      /\ y \in Addresses
  BY <1>2, Wraps
<1>4. /\ w < Size => w % Size = w
      /\ w >= Size => w % Size = w - Size
  BY <1>2, Wraps
<1> HIDE DEF y
<1>5. x \in 0 .. 2 * Size - 1 /\ x = y + 1
  BY <1>1, <1>3 DEF Addresses
<1> HIDE DEF x
<1>6. /\ x < Size => x % Size = x
      /\ x >= Size => x % Size = x - Size
  BY <1>5, Wraps
<1>7. x % Size = w % Size
  BY <1>1, <1>2, <1>3, <1>4, <1>5, <1>6 DEF Addresses
<1>8. QED
  BY <1>3, <1>7 DEF NextAddress, x, y, w, u

(* The words of a call have places of their own.                           *)
LEMMA PlacesDiffer ==
  ASSUME NEW from \in Addresses, NEW i \in 1 .. Size, NEW j \in 1 .. Size,
         i # j
  PROVE  (from + i - 1) % Size # (from + j - 1) % Size
<1> DEFINE u == from + i - 1
           v == from + j - 1
<1>1. Size \in Nat \ {0} /\ from \in 0 .. Size - 1
  BY SizeFacts DEF Addresses
<1>2. /\ u \in 0 .. 2 * Size - 1 /\ v \in 0 .. 2 * Size - 1
      /\ u # v /\ u - v < Size /\ v - u < Size
  BY <1>1
<1> HIDE DEF u, v
<1>3. /\ u < Size => u % Size = u
      /\ u >= Size => u % Size = u - Size
  BY <1>2, Wraps
<1>4. /\ v < Size => v % Size = v
      /\ v >= Size => v % Size = v - Size
  BY <1>2, Wraps
<1>5. u % Size # v % Size
  BY <1>1, <1>2, <1>3, <1>4
<1>6. QED BY <1>5 DEF u, v

(* The pair of words that the chip answers with.                           *)
LEMMA Pairs ==
  ASSUME NEW a \in Addresses
  PROVE  /\ Even(a) \in Addresses /\ Even(a) + 1 \in Addresses
         /\ a % 2 = 0 => a = Even(a)
         /\ a % 2 = 1 => a = Even(a) + 1
         /\ a % 2 \in {0, 1} /\ Even(a) # -1
<1> DEFINE q == 2 ^ (AddrLen - 2)
<1>1. Size = 4 * q /\ q \in Nat \ {0}
  BY SizeFacts
<1> HIDE DEF q
<1>2. QED BY <1>1 DEF Even, Addresses

LEMMA EepromInitInv == EepromInit => EepromInv
<1> SUFFICES ASSUME EepromInit PROVE EepromInv
  OBVIOUS
<1>1. 0 \in Addresses
  BY SizeFacts DEF Addresses
<1>2. <<>> \in Seq(Words)
  BY EmptySeq
<1>3. NoCall \in EepromCall
  BY <1>1, <1>2 DEF NoCall, EepromCall
<1>4. QED
  BY <1>3 DEF EepromInit, EepromInv, EepromTypeOK, Writing, Reading,
       EepromHonest, NoCall, NoCache, NoAnswer

LEMMA EepromCallStep ==
  ASSUME EepromInv, NEW addr \in Addresses, NEW n \in 0 .. MaxWords,
         NEW op \in {"read", "write"}, NEW words \in [1 .. n -> Words],
         Call(op, addr, words)
  PROVE  EepromInv'
<1> DEFINE got == IF op = "write" THEN words ELSE <<>>
           step == IF op = "write" THEN "enable" ELSE "word"
<1>1. /\ ecall = NoCall /\ mem' = mem /\ wen' = wen /\ cache' = cache
      /\ spoilt' = spoilt /\ before' = mem
  BY DEF Call
<1>2. ecall' = [NoCall EXCEPT !.op = op, !.from = addr, !.addr = addr,
                              !.todo = words, !.got = got, !.step = step]
  BY DEF Call
<1>3. n \in Nat /\ n <= MaxWords /\ MaxWords \in 0 .. Size - 1
  BY SizeFacts
<1>4. words \in Seq(Words) /\ Len(words) = n
  BY <1>3, SeqDef
<1>5. <<>> \in Seq(Words) /\ Len(<<>>) = 0
  BY EmptySeq
<1>6. NoCall \in EepromCall
  BY <1>1 DEF EepromInv, EepromTypeOK
<1>7. step \in {"none", "enable", "word", "wait"} /\ got \in Seq(Words)
  BY <1>4, <1>5
<1> HIDE DEF got, step
<1>8. /\ ecall' \in EepromCall
      /\ ecall'.op = op /\ ecall'.from = addr /\ ecall'.addr = addr
      /\ ecall'.todo = words /\ ecall'.got = got /\ ecall'.step = step
  BY <1>2, <1>4, <1>6, <1>7 DEF EepromCall
<1>9. ecall' # NoCall
  BY <1>8 DEF NoCall
<1>10. EepromTypeOK'
  BY <1>1, <1>8 DEF EepromInv, EepromTypeOK
<1>11. addr = (addr + 0) % Size
  BY SizeFacts, Divides DEF Addresses
<1>12. Writing'
  <2>1. SUFFICES ASSUME op = "write" PROVE Writing'
    BY <1>8 DEF Writing
  <2>2. got = words /\ step = "enable"
    BY <2>1 DEF got, step
  <2>3. DoneWords' = 0
    BY <1>3, <1>4, <1>8, <2>2 DEF DoneWords
  <2>5. Written(0)'
    BY <1>1 DEF Written
  <2>4. QED
    BY <1>1, <1>3, <1>4, <1>8, <1>11, <2>2, <2>3, <2>5 DEF Writing
<1>13. Reading'
  <2>1. SUFFICES ASSUME op = "read" PROVE Reading'
    BY <1>8 DEF Reading
  <2>2. got = <<>> /\ step = "word"
    BY <2>1 DEF got, step
  <2>3. (wen => spoilt) /\ cache.addr = -1
    BY <1>1 DEF EepromInv, EepromHonest, NoCall, NoCache
  <2>4. QED
    BY <1>1, <1>3, <1>4, <1>5, <1>8, <1>11, <2>2, <2>3 DEF Reading
<1>14. QED
  BY <1>8, <1>9, <1>10, <1>12, <1>13 DEF EepromInv, EepromHonest

LEMMA EepromEnable == ASSUME EepromInv, EnableWrites PROVE EepromInv'
<1>1. /\ ecall.step = "enable" /\ mem' = mem /\ wen' = TRUE
      /\ ecall' = [ecall EXCEPT !.step = "word"]
      /\ UNCHANGED <<cache, before, last, spoilt>>
  BY Commands DEF EnableWrites, ChipTakes
<1>2. ecall \in EepromCall
  BY DEF EepromInv, EepromTypeOK
<1>3. /\ ecall' \in EepromCall /\ ecall'.step = "word" /\ ecall'.op = ecall.op
      /\ ecall'.from = ecall.from /\ ecall'.addr = ecall.addr
      /\ ecall'.todo = ecall.todo /\ ecall'.got = ecall.got
  BY <1>1, <1>2 DEF EepromCall
<1>4. ecall.op = "write"
  BY <1>1, <1>2 DEF EepromInv, EepromTypeOK, Reading, NoCall, EepromCall
<1>5. EepromTypeOK' /\ Reading' /\ ecall' # NoCall
  BY <1>1, <1>3, <1>4 DEF EepromInv, EepromTypeOK, Reading, NoCall
<1>6. Writing'
  <2>1. DoneWords' = DoneWords /\ \A i \in Int : At(i)' = At(i)
    BY <1>3 DEF DoneWords, At
  <2>2. DoneWords = 0 /\ Written(0)'
    BY <1>1, <1>4 DEF EepromInv, Writing, Written
  <2>3. QED
    BY <1>1, <1>3, <1>4, <2>1, <2>2 DEF EepromInv, Writing
<1>7. QED
  BY <1>3, <1>4, <1>5, <1>6 DEF EepromInv, EepromHonest

(* The next word of the running call has a place of its own.               *)
LEMMA NextWord ==
  ASSUME EepromInv, NEW n \in 0 .. MaxWords - 1,
         ecall.addr = (ecall.from + n) % Size
  PROVE  /\ ecall.addr = At(n + 1) /\ At(n + 1) \in Addresses
         /\ \A i \in 1 .. n : At(i) # At(n + 1)
         /\ NextAddress(ecall.addr) = (ecall.from + (n + 1)) % Size
<1>1. ecall.from \in Addresses /\ ecall.addr \in Addresses
  BY DEF EepromInv, EepromTypeOK, EepromCall
<1>2. n \in 0 .. Size - 1 /\ Size \in Nat /\ MaxWords \in 0 .. Size - 1
  BY SizeFacts
<1>3. ecall.from \in Int
  BY <1>1, <1>2 DEF Addresses
<1>4. ecall.from + (n + 1) - 1 = ecall.from + n
  BY <1>2, <1>3
<1>5. ecall.from + (n + 1) = ecall.from + n + 1
  BY <1>2, <1>3
<1>6. ASSUME NEW i \in 1 .. n PROVE At(i) # At(n + 1)
  <2>1. i \in 1 .. Size /\ n + 1 \in 1 .. Size /\ i # n + 1
    BY <1>2
  <2>2. QED
    BY <1>1, <2>1, PlacesDiffer DEF At
<1>7. QED
  BY <1>1, <1>2, <1>4, <1>5, <1>6, NextPlace DEF At

LEMMA EepromWrite == ASSUME EepromInv, WriteNext PROVE EepromInv'
<1> PICK n : n = DoneWords
  OBVIOUS
<1> DEFINE a == ecall.addr
           w == Head(ecall.todo)
<1>1. /\ ecall.op = "write" /\ ecall.step = "word" /\ ecall.todo # <<>>
      /\ ecall' = [ecall EXCEPT !.step = "wait"]
      /\ UNCHANGED <<cache, before, last, spoilt>>
  BY DEF WriteNext
<1>2. ecall \in EepromCall /\ Writing
  BY DEF EepromInv, EepromTypeOK
<1>3. a \in Addresses /\ wen
  BY <1>1, <1>2 DEF Writing, EepromCall
<1>4. wen' = wen /\ mem' = [mem EXCEPT ![a] = w]
  BY <1>3, Commands DEF WriteNext, ChipTakes
<1>5. /\ ecall' \in EepromCall /\ ecall'.step = "wait" /\ ecall'.op = ecall.op
      /\ ecall'.from = ecall.from /\ ecall'.addr = ecall.addr
      /\ ecall'.todo = ecall.todo /\ ecall'.got = ecall.got
  BY <1>1, <1>2 DEF EepromCall
<1>6. /\ ecall.todo \in Seq(Words) /\ ecall.got \in Seq(Words)
      /\ Len(ecall.todo) \in Nat /\ Len(ecall.got) \in Nat
      /\ Len(ecall.todo) > 0 /\ w = ecall.todo[1] /\ w \in Words
  BY <1>1, <1>2, HeadTailProperties, LenProperties, EmptySeq, ElementOfSeq
     DEF EepromCall
<1>7. n \in 0 .. MaxWords - 1 /\ w = ecall.got[n + 1] /\ a = (ecall.from + n) % Size
  <2>1. n \in 0 .. MaxWords - 1
    <3>1. Len(ecall.got) <= MaxWords /\ Len(ecall.todo) <= Len(ecall.got)
      BY <1>1, <1>2 DEF Writing
    <3>2. n = Len(ecall.got) - Len(ecall.todo)
      BY DEF DoneWords
    <3>3. QED BY <1>6, <3>1, <3>2, SizeTypes
  <2>2. w = ecall.got[n + 1]
    BY <1>1, <1>2, <1>6 DEF Writing
  <2>3. QED
    BY <1>1, <1>2, <2>1, <2>2 DEF Writing
<1>8. /\ a = At(n + 1) /\ At(n + 1) \in Addresses
      /\ \A i \in 1 .. n : At(i) # At(n + 1)
  BY <1>7, NextWord
<1>9. Written(n)
  BY <1>1, <1>2 DEF Writing
<1>10. DoneWords' = n /\ \A i \in Int : At(i)' = At(i)
  BY <1>5 DEF DoneWords, At
<1>11. mem \in [Addresses -> Words] /\ mem' \in [Addresses -> Words]
  BY <1>3, <1>4, <1>6 DEF EepromInv, EepromTypeOK
<1>12. mem'[a] = w /\ \A b \in Addresses : b # a => mem'[b] = mem[b]
  BY <1>3, <1>4, <1>11
<1> HIDE DEF a, w
<1>13. ASSUME NEW i \in 1 .. n + 1 PROVE mem'[At(i)] = ecall.got[i]
  <2>1. CASE i = n + 1
    BY <1>7, <1>8, <1>12, <2>1
  <2>2. CASE i # n + 1
    <3>1. i \in 1 .. n /\ i \in 1 .. Size
      BY <1>7, <2>2, SizeFacts
    <3>2. At(i) \in Addresses
      <4> DEFINE k == i - 1
      <4>1. k \in 0 .. Size - 1 /\ ecall.from \in Addresses
            /\ ecall.from + i - 1 = ecall.from + k
        BY <1>2, <3>1, SizeFacts DEF EepromCall, Addresses
      <4> HIDE DEF k
      <4>2. QED BY <4>1, NextPlace DEF At
    <3>3. QED
      BY <1>8, <1>9, <1>12, <3>1, <3>2 DEF Written
  <2>3. QED BY <2>1, <2>2
<1>14. ASSUME NEW b \in Addresses, \A i \in 1 .. n + 1 : At(i) # b
       PROVE  mem'[b] = before[b]
  <2>1. b # a
    BY <1>7, <1>8, <1>14
  <2>2. \A i \in 1 .. n : At(i) # b
    BY <1>7, <1>14
  <2>3. QED
    BY <1>9, <1>12, <2>1, <2>2 DEF Written
<1>15. Written(n + 1)'
  <2>1. \A i \in 1 .. n + 1 : At(i)' = At(i)
    BY <1>7, <1>10
  <2>2. QED
    BY <1>1, <1>5, <1>13, <1>14, <2>1 DEF Written
<1>16. Writing'
  BY <1>1, <1>2, <1>3, <1>4, <1>5, <1>10, <1>15 DEF Writing
<1>17. EepromTypeOK' /\ ecall'.op # "none"
  BY <1>1, <1>3, <1>4, <1>5, <1>11 DEF EepromInv, EepromTypeOK
<1>18. QED
  BY <1>1, <1>5, <1>16, <1>17 DEF EepromInv, EepromHonest, Reading, NoCall

(* The end of a call.                                                      *)
LEMMA EepromAnswer ==
  ASSUME EepromInv, NEW res, Answer(res), mem' = mem, before' = before,
         wen' \in BOOLEAN, wen' => spoilt',
         ecall.op \in {"read", "write"},
         ecall.op = "write" => res # "ok" \/ Written(Len(ecall.got))
  PROVE  EepromInv'
<1>1. /\ ecall' = NoCall /\ cache' = NoCache
      /\ last'.call.op = ecall.op /\ last'.call.from = ecall.from
      /\ last'.call.clean = ecall.clean /\ last'.res = res
      /\ last'.data = ecall.got
      /\ spoilt' = IF ecall.op = "write" THEN res # "ok" ELSE spoilt
  BY DEF Answer
<1>2. ecall \in EepromCall /\ spoilt' \in BOOLEAN
  BY <1>1 DEF EepromInv, EepromTypeOK
<1>3. NoCall \in EepromCall /\ NoCall.op = "none"
  BY EmptySeq, SizeFacts DEF NoCall, EepromCall, Addresses
<1>4. EepromTypeOK'
  BY <1>1, <1>2, <1>3 DEF EepromInv, EepromTypeOK, NoCache
<1>5. \A i \in Int : Place(last'.call, i) = At(i)
  BY <1>1 DEF Place, At
<1>6. Len(ecall.got) \in Nat
  BY <1>2, LenProperties DEF EepromCall
<1> DEFINE Hit(a, i) == i \in 1 .. Len(ecall.got) /\ Place(last'.call, i) = a
<1>7. ASSUME ecall.op = "write", res = "ok", NEW a \in Addresses
      PROVE  mem[a] = IF \E i \in 1 .. Len(last'.data) : Place(last'.call, i) = a
                      THEN last'.data[CHOOSE i \in 1 .. Len(last'.data) :
                                        Place(last'.call, i) = a]
                      ELSE before[a]
  <2> DEFINE c == CHOOSE i \in 1 .. Len(last'.data) : Place(last'.call, i) = a
  <2>1. Written(Len(ecall.got)) /\ last'.data = ecall.got
    BY <1>1, <1>7
  <2>2. CASE \E i \in 1 .. Len(last'.data) : Place(last'.call, i) = a
    <3>1. c \in 1 .. Len(last'.data) /\ Place(last'.call, c) = a
      BY <2>2
    <3> HIDE DEF c
    <3>2. At(c) = a
      BY <1>5, <1>6, <2>1, <3>1
    <3>3. mem[a] = last'.data[c]
      BY <2>1, <3>1, <3>2 DEF Written
    <3>4. QED BY <2>2, <3>3 DEF c
  <2>3. CASE ~ \E i \in 1 .. Len(last'.data) : Place(last'.call, i) = a
    <3>1. \A i \in 1 .. Len(ecall.got) : At(i) # a
      BY <1>5, <1>6, <2>1, <2>3
    <3>2. mem[a] = before[a]
      BY <2>1, <3>1 DEF Written
    <3>3. QED BY <2>3, <3>2
  <2>4. QED BY <2>2, <2>3
<1>8. ASSUME ecall.op = "read", ecall.clean, NEW i \in 1 .. Len(ecall.got)
      PROVE  ecall.got[i] = mem[Place(last'.call, i)]
  BY <1>5, <1>6, <1>8 DEF EepromInv, Reading
<1>9. EepromHonest'
  <2>1. \A i \in Int : Place(last.call, i)' = Place(last'.call, i)
    BY DEF Place
  <2>2. QED
    BY <1>1, <1>7, <1>8 DEF EepromHonest, Place
<1>10. QED
  BY <1>1, <1>3, <1>4, <1>9 DEF EepromInv, Writing, Reading

LEMMA EepromWait == ASSUME EepromInv, WaitProg PROVE EepromInv'
<1> PICK n : n = DoneWords
  OBVIOUS
<1>1. ecall \in EepromCall /\ Writing
  BY DEF EepromInv, EepromTypeOK
<1>2. /\ ecall.step = "wait" /\ mem' = mem /\ wen' = wen /\ before' = before
      /\ \/ /\ ecall' = [ecall EXCEPT !.step = "word", !.todo = Tail(ecall.todo),
                                      !.addr = NextAddress(ecall.addr)]
            /\ UNCHANGED <<cache, last, spoilt>>
         \/ Answer("EIO")
  BY <1>1 DEF WaitProg, EepromCall
<1>3. ecall.op = "write"
  BY <1>1, <1>2 DEF EepromInv, EepromTypeOK, Reading, NoCall, EepromCall
<1>4. CASE Answer("EIO")
  <2>1. spoilt' = TRUE
    BY <1>3, <1>4 DEF Answer
  <2>2. wen \in BOOLEAN
    BY DEF EepromInv, EepromTypeOK
  <2>3. QED
    BY <1>2, <1>3, <1>4, <2>1, <2>2, EepromAnswer
<1>5. CASE ~ Answer("EIO")
  <2>1. /\ ecall' = [ecall EXCEPT !.step = "word", !.todo = Tail(ecall.todo),
                                  !.addr = NextAddress(ecall.addr)]
        /\ UNCHANGED <<cache, last, spoilt>>
    BY <1>2, <1>5
  <2>2. /\ ecall.todo \in Seq(Words) /\ ecall.got \in Seq(Words)
        /\ Len(ecall.todo) \in Nat /\ Len(ecall.got) \in Nat
        /\ Len(ecall.todo) > 0 /\ Tail(ecall.todo) \in Seq(Words)
        /\ Len(Tail(ecall.todo)) = Len(ecall.todo) - 1
        /\ \A j \in 1 .. Len(Tail(ecall.todo)) :
             Tail(ecall.todo)[j] = ecall.todo[j + 1]
    BY <1>1, <1>2, <1>3, HeadTailProperties, LenProperties, EmptySeq
       DEF EepromCall, Writing
  <2>3. n \in 0 .. MaxWords - 1 /\ ecall.addr = (ecall.from + n) % Size
    <3>1. n \in 0 .. MaxWords - 1
      BY <1>1, <1>3, <2>2, SizeFacts DEF Writing, DoneWords
    <3>2. QED
      BY <1>1, <1>3, <3>1 DEF Writing
  <2>4. /\ NextAddress(ecall.addr) = (ecall.from + (n + 1)) % Size
        /\ NextAddress(ecall.addr) \in Addresses
    <3>1. NextAddress(ecall.addr) = (ecall.from + (n + 1)) % Size
      BY <2>3, NextWord
    <3>2. n \in 0 .. Size - 1 /\ ecall.from \in Addresses
      BY <1>1, <2>3, SizeFacts DEF EepromCall
    <3>3. ecall.addr \in 0 .. Size - 1
      BY <1>1 DEF EepromCall, Addresses
    <3>4. ecall.addr + 1 \in 0 .. 2 * Size - 1
      BY <3>3, SizeFacts
    <3>5. NextAddress(ecall.addr) \in Addresses
      BY <3>4, Wraps DEF NextAddress
    <3>6. QED BY <3>1, <3>5
  <2>5. /\ ecall' \in EepromCall /\ ecall'.step = "word" /\ ecall'.op = ecall.op
        /\ ecall'.from = ecall.from /\ ecall'.addr = NextAddress(ecall.addr)
        /\ ecall'.todo = Tail(ecall.todo) /\ ecall'.got = ecall.got
    BY <1>1, <2>1, <2>2, <2>4 DEF EepromCall
  <2>6. DoneWords' = n + 1 /\ \A i \in Int : At(i)' = At(i)
    <3>1. n = Len(ecall.got) - Len(ecall.todo)
      BY DEF DoneWords
    <3>2. DoneWords' = Len(ecall.got) - (Len(ecall.todo) - 1)
      BY <2>2, <2>5 DEF DoneWords
    <3>3. Len(ecall.got) - (Len(ecall.todo) - 1) = n + 1
      BY <2>2, <3>1
    <3>4. \A i \in Int : At(i)' = At(i)
      BY <2>5 DEF At
    <3>5. QED BY <3>2, <3>3, <3>4
  <2>7. Written(n + 1)'
    <3>1. Written(n + 1)
      BY <1>1, <1>2, <1>3 DEF Writing
    <3>2. \A i \in 1 .. n + 1 : At(i)' = At(i)
      BY <2>3, <2>6
    <3>3. QED BY <1>2, <2>5, <3>1, <3>2 DEF Written
  <2>8. \A j \in 1 .. Len(Tail(ecall.todo)) :
          Tail(ecall.todo)[j] = ecall.got[(n + 1) + j]
    <3>1. TAKE j \in 1 .. Len(Tail(ecall.todo))
    <3>2. Tail(ecall.todo)[j] = ecall.todo[j + 1] /\ j + 1 \in 1 .. Len(ecall.todo)
      BY <2>2
    <3>3. ecall.todo[j + 1] = ecall.got[n + (j + 1)]
      BY <1>1, <1>3, <3>2 DEF Writing
    <3>4. n + (j + 1) = (n + 1) + j
      BY <2>2, <2>3, SizeFacts
    <3>5. QED BY <3>2, <3>3, <3>4
  <2>9. Len(Tail(ecall.todo)) <= Len(ecall.got) /\ wen /\ Len(ecall.got) <= MaxWords
    BY <1>1, <1>2, <1>3, <2>2 DEF Writing
  <2>10. Writing'
    BY <1>2, <2>4, <2>5, <2>6, <2>7, <2>8, <2>9 DEF Writing
  <2>11. EepromTypeOK' /\ ecall'.op # "none"
    BY <1>2, <1>3, <2>1, <2>5 DEF EepromInv, EepromTypeOK
  <2>12. QED
    BY <1>3, <2>5, <2>10, <2>11 DEF EepromInv, EepromHonest, Reading, NoCall
<1>6. QED BY <1>4, <1>5

LEMMA EepromDisable == ASSUME EepromInv, DisableWrites PROVE EepromInv'
<1>1. /\ ecall.op = "write" /\ ecall.step = "word" /\ ecall.todo = <<>>
      /\ wen' = FALSE /\ mem' = mem /\ before' = before /\ Answer("ok")
  BY Commands DEF DisableWrites, ChipTakes
<1>2. ecall \in EepromCall /\ Writing
  BY DEF EepromInv, EepromTypeOK
<1>3. Len(ecall.got) \in Nat /\ DoneWords = Len(ecall.got)
  BY <1>1, <1>2, LenProperties, EmptySeq DEF EepromCall, DoneWords
<1>4. Written(Len(ecall.got))
  BY <1>1, <1>2, <1>3 DEF Writing
<1>5. QED
  BY <1>1, <1>4, EepromAnswer

LEMMA EepromReadEnd == ASSUME EepromInv, ReadEnd PROVE EepromInv'
<1>1. /\ ecall.op = "read" /\ UNCHANGED <<mem, wen, before>> /\ Answer("ok")
  BY DEF ReadEnd
<1>2. spoilt' = spoilt /\ (wen => spoilt) /\ wen \in BOOLEAN
  BY <1>1 DEF Answer, EepromInv, EepromTypeOK, Reading
<1>3. QED
  BY <1>1, <1>2, EepromAnswer

LEMMA EepromRead == ASSUME EepromInv, ReadNext PROVE EepromInv'
<1>1. PICK good \in BOOLEAN :
        /\ Cached(ecall.addr) => good
        /\ cache' = IF Cached(ecall.addr) THEN cache
                                          ELSE ReadPair(ecall.addr, good)
        /\ ecall' = [ecall EXCEPT
             !.todo = Tail(ecall.todo), !.addr = NextAddress(ecall.addr),
             !.clean = ecall.clean /\ good,
             !.got = Append(ecall.got, IF cache'.words = <<>> THEN AnyWord
                              ELSE cache'.words[1 + (ecall.addr % 2)])]
  BY ZenonT(30) DEF ReadNext
<1>2. /\ ecall.op = "read" /\ ecall.todo # <<>>
      /\ UNCHANGED <<mem, wen, before, last, spoilt>>
  BY DEF ReadNext
<1>3. ecall \in EepromCall /\ Reading /\ mem \in [Addresses -> Words]
  BY DEF EepromInv, EepromTypeOK
<1> DEFINE a == ecall.addr
           w == IF cache'.words = <<>> THEN AnyWord
                ELSE cache'.words[1 + (a % 2)]
<1> PICK n : n = Len(ecall.got)
  OBVIOUS
<1>4. a \in Addresses
  BY <1>3 DEF EepromCall
<1>5. /\ Even(a) \in Addresses /\ Even(a) + 1 \in Addresses
      /\ a % 2 = 0 => a = Even(a)
      /\ a % 2 = 1 => a = Even(a) + 1
      /\ a % 2 \in {0, 1} /\ Even(a) # -1
  BY <1>4, Pairs
<1>6. Operation(ReadWord(Even(a))) = "read"
  BY <1>5, Commands
<1>7. /\ ecall.todo \in Seq(Words) /\ ecall.got \in Seq(Words)
      /\ Len(ecall.todo) \in Nat /\ n \in Nat
      /\ Len(ecall.todo) > 0 /\ Tail(ecall.todo) \in Seq(Words)
      /\ Len(Tail(ecall.todo)) = Len(ecall.todo) - 1
  BY <1>2, <1>3, HeadTailProperties, LenProperties, EmptySeq DEF EepromCall
<1>8. n + Len(ecall.todo) <= MaxWords /\ a = (ecall.from + n) % Size
  BY <1>2, <1>3 DEF Reading
<1>9. n \in 0 .. MaxWords - 1
  <2> DEFINE k == Len(ecall.todo)
  <2>1. k \in Nat /\ n \in Nat /\ k > 0 /\ n + k <= MaxWords /\ MaxWords \in Nat
    BY <1>7, <1>8, SizeTypes
  <2> HIDE DEF k
  <2>2. QED BY <2>1
<1>10. /\ a = At(n + 1) /\ NextAddress(a) = (ecall.from + (n + 1)) % Size
  BY <1>8, <1>9, NextWord
<1>11. NextAddress(a) \in Addresses
  <2>1. a + 1 \in 0 .. 2 * Size - 1
    BY <1>4, SizeTypes DEF Addresses
  <2>2. QED BY <2>1, Wraps DEF NextAddress
<1>12. AnyWord \in Words
  BY <1>3, <1>4 DEF AnyWord
<1>13. cache'.words # <<>> => cache'.words \in Words \X Words
  <2>1. mem[Even(a)] \in Words /\ mem[Even(a) + 1] \in Words
    BY <1>3, <1>5
  <2>2. cache.words # <<>> => cache.words \in Words \X Words
    BY DEF EepromInv, EepromTypeOK
  <2>3. QED
    BY <1>1, <2>1, <2>2 DEF ReadPair
<1>14. w \in Words
  <2>1. CASE a % 2 = 0
    BY <1>12, <1>13, <2>1
  <2>2. CASE a % 2 = 1
    BY <1>12, <1>13, <2>2
  <2>3. QED BY <1>5, <2>1, <2>2
<1>15. ecall' = [ecall EXCEPT !.todo = Tail(ecall.todo), !.addr = NextAddress(a),
                  !.clean = ecall.clean /\ good, !.got = Append(ecall.got, w)]
  BY <1>1
<1>16. ASSUME ecall.clean, good
       PROVE  /\ w = mem[a]
              /\ cache'.addr # -1 =>
                   /\ cache'.addr \in Addresses /\ cache'.addr + 1 \in Addresses
                   /\ cache'.words = <<mem[cache'.addr], mem[cache'.addr + 1]>>
  <2>1. CASE Cached(a)
    <3>1. cache' = cache /\ a % 2 = 1 /\ cache.addr + 1 = a
      BY <1>1, <2>1 DEF Cached
    <3>2. cache.addr # -1
      <4>1. a # 0
        BY <3>1
      <4>2. QED BY <3>1, <4>1
    <3>3. /\ cache.addr \in Addresses /\ cache.addr + 1 \in Addresses
          /\ cache.words = <<mem[cache.addr], mem[cache.addr + 1]>>
      BY <1>2, <1>3, <1>16, <3>2 DEF Reading
    <3>4. cache.words # <<>> /\ cache.words[2] = mem[a]
      BY <3>1, <3>3
    <3>5. QED
      BY <3>1, <3>3, <3>4
  <2>2. CASE ~ Cached(a)
    <3>1. /\ cache'.addr = Even(a)
          /\ cache'.words = <<mem[Even(a)], mem[Even(a) + 1]>>
      BY <1>1, <1>6, <1>16, <2>2 DEF ReadPair
    <3>2. cache'.words # <<>>
      BY <3>1
    <3>3. w = mem[a]
      <4>1. CASE a % 2 = 0
        BY <1>5, <3>1, <3>2, <4>1
      <4>2. CASE a % 2 = 1
        BY <1>5, <3>1, <3>2, <4>2
      <4>3. QED BY <1>5, <4>1, <4>2
    <3>4. QED
      BY <1>5, <3>1, <3>3
  <2>3. QED BY <2>1, <2>2
<1> HIDE DEF a, w
<1>17. /\ Append(ecall.got, w) \in Seq(Words) /\ Len(Append(ecall.got, w)) = n + 1
       /\ Append(ecall.got, w)[n + 1] = w
       /\ \A i \in 1 .. n : Append(ecall.got, w)[i] = ecall.got[i]
  BY <1>7, <1>14, AppendProperties
<1>18. /\ ecall' \in EepromCall /\ ecall'.op = ecall.op /\ ecall'.step = ecall.step
       /\ ecall'.from = ecall.from /\ ecall'.addr = NextAddress(a)
       /\ ecall'.todo = Tail(ecall.todo) /\ ecall'.got = Append(ecall.got, w)
  BY <1>3, <1>7, <1>11, <1>15, <1>17 DEF EepromCall
<1>19. ecall'.clean <=> ecall.clean /\ good
  BY <1>3, <1>15 DEF EepromCall
<1>20. ASSUME ecall'.clean, NEW i \in 1 .. n + 1
       PROVE  Append(ecall.got, w)[i] = mem[At(i)]
  <2>1. CASE i = n + 1
    BY <1>10, <1>16, <1>17, <1>19, <1>20, <2>1 DEF a
  <2>2. CASE i # n + 1
    <3>1. i \in 1 .. n
      BY <1>7, <2>2
    <3>2. ecall.got[i] = mem[At(i)]
      BY <1>2, <1>3, <1>19, <1>20, <3>1 DEF Reading
    <3>3. QED BY <1>17, <3>1, <3>2
  <2>3. QED BY <2>1, <2>2
<1>21. Reading'
  <2>1. \A i \in Int : At(i)' = At(i)
    BY <1>18 DEF At
  <2>2. Len(Append(ecall.got, w)) + Len(Tail(ecall.todo)) <= MaxWords
    <3> DEFINE k == Len(ecall.todo)
    <3>1. k \in Nat /\ n \in Nat /\ n + k <= MaxWords /\ MaxWords \in Nat
      BY <1>7, <1>8, SizeTypes
    <3>2. Len(Append(ecall.got, w)) = n + 1 /\ Len(Tail(ecall.todo)) = k - 1
      BY <1>7, <1>17
    <3> HIDE DEF k
    <3>3. (n + 1) + (k - 1) <= MaxWords
      BY <3>1
    <3>4. QED BY <3>2, <3>3
  <2>3. ecall.step = "word" /\ (wen => spoilt)
    BY <1>2, <1>3 DEF Reading
  <2>4. \A i \in 1 .. n + 1 : ecall'.clean => Append(ecall.got, w)[i] = mem'[At(i)']
    BY <1>2, <1>20, <2>1
  <2>5. NextAddress(a) = (ecall.from + Len(Append(ecall.got, w))) % Size
    BY <1>10, <1>17
  <2>6. ecall'.clean =>
          /\ \A i \in 1 .. Len(ecall'.got) : ecall'.got[i] = mem'[At(i)']
          /\ cache'.addr # -1 =>
               /\ cache'.addr \in Addresses /\ cache'.addr + 1 \in Addresses
               /\ cache'.words = <<mem'[cache'.addr], mem'[cache'.addr + 1]>>
    BY <1>2, <1>16, <1>17, <1>18, <1>19, <2>4
  <2>7. QED
    BY <1>2, <1>18, <2>2, <2>3, <2>5, <2>6 DEF Reading
<1>22. EepromTypeOK' /\ Writing'
  BY <1>2, <1>13, <1>18 DEF EepromInv, EepromTypeOK, Writing
<1>23. QED
  BY <1>2, <1>18, <1>21, <1>22 DEF EepromInv, EepromHonest, NoCall

LEMMA EepromInvNext == EepromInv /\ [EepromNext]_eepromVars => EepromInv'
<1> SUFFICES ASSUME EepromInv, [EepromNext]_eepromVars PROVE EepromInv'
  OBVIOUS
<1>1. CASE EepromNext
  BY <1>1, EepromCallStep, EepromEnable, EepromWrite, EepromWait, EepromDisable,
     EepromRead, EepromReadEnd DEF EepromNext
<1>2. CASE UNCHANGED eepromVars
  <2>1. UNCHANGED <<mem, wen, ecall, cache, before, last, spoilt>>
    BY <1>2 DEF eepromVars
  <2>2. EepromTypeOK'
    BY <2>1 DEF EepromInv, EepromTypeOK
  <2>3. DoneWords' = DoneWords /\ \A i \in Int : At(i)' = At(i)
    BY <2>1 DEF DoneWords, At
  <2>4. EepromHonest'
    <3>1. EepromHonest
      BY DEF EepromInv
    <3>2. QED BY <2>1, <3>1, SMTT(30) DEF EepromHonest, Place
  <2>5. \A n : Written(n) => Written(n)'
    BY <2>1 DEF Written, At
  <2>6. Writing'
    BY <2>1, <2>3, <2>5 DEF EepromInv, Writing
  <2>7. Reading'
    BY <2>1 DEF EepromInv, Reading, At
  <2>8. QED
    BY <2>1, <2>2, <2>4, <2>6, <2>7 DEF EepromInv
<1>3. QED BY <1>1, <1>2

(* A write that succeeded has written just its words, a read whose words   *)
(* the chip has all given returns what is there, for any number of words   *)
(* and any address (sis1100_write_eeprom_, sis1100_read_eeprom_).          *)
THEOREM EepromIsHonest == EepromSpec => []EepromHonest
<1>1. EepromInv => EepromHonest
  BY DEF EepromInv
<1>2. QED
  BY <1>1, EepromInitInv, EepromInvNext, PTL DEF EepromSpec
=============================================================================
