--------------------------- MODULE MemAllocProofs ---------------------------
(***************************************************************************)
(* Theorems about MemAlloc, for every memory, page and block size: pages   *)
(* stay tiled by their blocks, free neighbours are merged, every handle    *)
(* owns a block, and the allocator under the runtime's calls implements    *)
(* DeviceMemory.  The hypothesis is NoWrap.                                *)
(***************************************************************************)
EXTENDS MemAlloc, FiniteSetTheorems, WellFoundedInduction, TLAPS

(* No sum of an address in the device memory and a size asked for, rounded *)
(* up, leaves the machine word: reserve, findNextAddress and mem_access    *)
(* compare such sums.                                                      *)
NoWrap ==
    \A s \in Sizes :
        /\ GlobalMemSize + s + 3 * PageAlign < Word
        /\ \A a \in Addrs : a + s + PageAlign < Word

----------------------------------------------------------------------------
Aligned(n) == n % BlockAlign = 0
Beside(b, c) == b.addr + b.size <= c.addr \/ c.addr + c.size <= b.addr
Covers(b, x) == b.addr <= x /\ x < b.addr + b.size

Blocks == [addr : Nat, size : Nat]
PageType == [addr : Nat, size : Nat, used : SUBSET Blocks, free : SUBSET Blocks]

(* The blocks of bs partition the addresses from lo to hi - 1.             *)
Tiling(bs, lo, hi) ==
    /\ bs \subseteq Blocks
    /\ \A b \in bs : b.size > 0 /\ Aligned(b.size) /\ lo <= b.addr /\ b.addr + b.size <= hi
    /\ \A b, c \in bs : b # c => Beside(b, c)
    /\ \A x \in lo..(hi - 1) : \E b \in bs : Covers(b, x)

Merged(bs) == \A b, c \in bs : b.addr + b.size # c.addr

PageOK(p) ==
    /\ p \in PageType
    /\ p.size > 0 /\ p.addr + p.size < Word
    /\ p.used \cap p.free = {}
    /\ Tiling(p.used \cup p.free, p.addr, p.addr + p.size)
    /\ Merged(p.free)

PagesOK(ps) ==
    /\ \A p \in ps : PageOK(p)
    /\ \A p, q \in ps : p # q => Beside(p, q)

(* A page in use ends in the device memory, up to the rounding of its size.*)
Top == GlobalMemSize + PageAlign
Settled == \A p \in pages : p.used # {} /\ p.addr + p.size <= Top

HandlesApart ==
    /\ \A h \in held : h.addr \in Nat /\ \E b \in Used : b.addr = h.addr /\ h.size <= b.size
    /\ \A b \in Used : \E h \in held : h.addr = b.addr
    /\ \A g, h \in held : g.addr = h.addr => g = h
HandlesCounted ==
    /\ IsFiniteSet(held) /\ IsFiniteSet(Used)
    /\ Cardinality(held) = Cardinality(Used)

AllocInv ==
    /\ PagesOK(pages)
    /\ Settled
    /\ HandlesApart
    /\ HandlesCounted

----------------------------------------------------------------------------
(* Arithmetic: words that do not wrap, and multiples.                      *)
LEMMA InWord ==
    ASSUME NEW w \in Nat, NEW x \in Nat, x < w
    PROVE  x % w = x
  OBVIOUS

LEMMA Divided ==
    ASSUME NEW n \in Nat, NEW d \in Nat \ {0}
    PROVE  /\ n % d \in 0..(d - 1)
           /\ \E k \in Nat : n = k * d + (n % d)
  <1>1. n \div d \in Nat /\ n = (n \div d) * d + (n % d) /\ n % d \in 0..(d - 1)
    OBVIOUS
  <1> QED
    BY <1>1

LEMMA DividedExactly ==
    ASSUME NEW n \in Nat, NEW d \in Nat \ {0}, n % d = 0
    PROVE  \E k \in Nat : n = k * d
  <1>1. PICK k \in Nat : n = k * d + (n % d)
    BY Divided
  <1>2. k * d \in Nat
    OBVIOUS
  <1>3. n = k * d + 0
    BY <1>1
  <1> QED
    BY <1>2, <1>3

LEMMA MultipleOf ==
    ASSUME NEW k \in Nat, NEW d \in Nat \ {0}
    PROVE  (k * d) % d = 0
  OBVIOUS

(* Rounding up, alignSize, where it does not wrap.                         *)
LEMMA AlignSizeIs ==
    ASSUME AllocAssumption, NEW s \in Nat \ {0}, NEW a \in Nat \ {0}, s + a < Word
    PROVE  /\ AlignSize(s, a) \in Nat
           /\ s <= AlignSize(s, a) /\ AlignSize(s, a) < s + a
           /\ \E k \in Nat : AlignSize(s, a) = k * a
  <1> DEFINE t == s + a - 1
  <1>1. Word \in Nat /\ t \in Nat /\ t < Word
    BY DEF AllocAssumption
  <1>2. t % Word = t
    BY <1>1, InWord
  <1>3. AlignSize(s, a) = t - (t % a)
    BY <1>2 DEF AlignSize
  <1> HIDE DEF t
  <1>4. PICK k \in Nat : t = k * a + (t % a)
    BY <1>1, Divided
  <1>5. t % a \in 0..(a - 1)
    BY <1>1, Divided
  <1>6. k * a \in Nat
    OBVIOUS
  <1>7. AlignSize(s, a) = k * a
    BY <1>1, <1>3, <1>4, <1>5, <1>6
  <1> USE DEF t
  <1>8. s <= AlignSize(s, a) /\ AlignSize(s, a) < s + a
    BY <1>1, <1>3, <1>5
  <1> QED
    BY <1>6, <1>7, <1>8

LEMMA AlignedSum ==
    ASSUME AllocAssumption, NEW m \in Nat, NEW n \in Nat, Aligned(m), Aligned(n)
    PROVE  /\ Aligned(m + n)
           /\ n < m => m - n >= BlockAlign /\ Aligned(m - n)
  <1>1. BlockAlign \in Nat \ {0}
    BY DEF AllocAssumption
  <1>2. PICK j \in Nat : m = j * BlockAlign
    BY <1>1, DividedExactly DEF Aligned
  <1>3. PICK k \in Nat : n = k * BlockAlign
    BY <1>1, DividedExactly DEF Aligned
  <1>4. m + n = (j + k) * BlockAlign
    BY <1>1, <1>2, <1>3
  <1>5. Aligned(m + n)
    BY <1>1, <1>4, MultipleOf, j + k \in Nat DEF Aligned
  <1>6. ASSUME n < m PROVE m - n >= BlockAlign /\ Aligned(m - n)
    <2>1. k < j
      BY <1>1, <1>2, <1>3, <1>6
    <2>2. PICK i \in Nat : i = j - k /\ i >= 1
      BY <2>1
    <2>3. m - n = i * BlockAlign
      BY <1>1, <1>2, <1>3, <2>2
    <2>4. i * BlockAlign >= BlockAlign
      BY <1>1, <2>2
    <2> QED
      BY <1>1, <2>3, <2>4, MultipleOf DEF Aligned
  <1> QED
    BY <1>5, <1>6

(* A multiple of the page size is one of the block size.                   *)
LEMMA PageAligned ==
    ASSUME AllocAssumption, NEW k \in Nat
    PROVE  Aligned(k * PageAlign)
  <1>1. BlockAlign \in Nat \ {0} /\ PageAlign \in Nat \ {0} /\ PageAlign % BlockAlign = 0
    BY DEF AllocAssumption
  <1>2. PICK j \in Nat : PageAlign = j * BlockAlign
    BY <1>1, DividedExactly
  <1>3. k * PageAlign = (k * j) * BlockAlign
    BY <1>1, <1>2
  <1> QED
    BY <1>1, <1>3, MultipleOf, k * j \in Nat DEF Aligned

----------------------------------------------------------------------------
(* The ends of a set of blocks.                                            *)
LEMMA SmallestNat ==
    ASSUME NEW T, T \subseteq Nat, T # {}
    PROVE  \E n \in T : \A m \in T : n <= m
  <1>1. IsWellFoundedOn(OpToRel(<, Nat), Nat)
    BY NatLessThanWellFounded
  <1>2. PICK n \in T : \A m \in T : ~(<<m, n>> \in OpToRel(<, Nat))
    BY <1>1, WFMin
  <1>3. \A m \in T : ~(m < n)
    BY <1>2 DEF OpToRel
  <1> QED
    BY <1>3

LEMMA LowestIs ==
    ASSUME NEW bs, bs # {}, \A b \in bs : b.addr \in Nat
    PROVE  Lowest(bs) \in bs /\ \A c \in bs : Lowest(bs).addr <= c.addr
  <1> DEFINE T == {b.addr : b \in bs}
  <1>1. T \subseteq Nat /\ T # {}
    OBVIOUS
  <1>2. PICK n \in T : \A m \in T : n <= m
    BY <1>1, SmallestNat
  <1>3. \E b \in bs : \A c \in bs : b.addr <= c.addr
    BY <1>2
  <1> QED
    BY <1>3 DEF Lowest

LEMMA HighestIs ==
    ASSUME NEW bs, bs # {}, \A b \in bs : b.addr \in Nat, NEW top \in Nat, \A b \in bs : b.addr <= top
    PROVE  Highest(bs) \in bs /\ \A c \in bs : c.addr <= Highest(bs).addr
  <1> DEFINE T == {top - b.addr : b \in bs}
  <1>1. T \subseteq Nat /\ T # {}
    OBVIOUS
  <1>2. PICK n \in T : \A m \in T : n <= m
    BY <1>1, SmallestNat
  <1>3. PICK b \in bs : n = top - b.addr
    BY <1>2
  <1>4. \A c \in bs : top - b.addr <= top - c.addr
    BY <1>2, <1>3
  <1>5. \A c \in bs : c.addr <= b.addr
    BY <1>4
  <1> QED
    BY <1>5 DEF Highest

----------------------------------------------------------------------------
(* Cutting a block of a tiling in two, and joining two blocks.             *)
LEMMA Split ==
    ASSUME AllocAssumption, NEW lo \in Nat, NEW hi \in Nat, NEW bs, Tiling(bs, lo, hi),
           NEW b \in bs, NEW s \in Nat \ {0}, Aligned(s), s < b.size
    PROVE  Tiling((bs \ {b}) \cup {Block(b.addr, s), Block(b.addr + s, b.size - s)}, lo, hi)
  <1> DEFINE l == Block(b.addr, s)
             r == Block(b.addr + s, b.size - s)
             cs == (bs \ {b}) \cup {l, r}
  <1>1. b.addr \in Nat /\ b.size \in Nat /\ b.size > 0 /\ lo <= b.addr /\ b.addr + b.size <= hi
    BY DEF Tiling, Blocks
  <1>2. Aligned(b.size - s)
    BY <1>1, AlignedSum DEF Tiling
  <1>3. /\ l \in Blocks /\ l.addr = b.addr /\ l.size = s
        /\ r \in Blocks /\ r.addr = b.addr + s /\ r.size = b.size - s
    BY <1>1 DEF Block, Blocks
  <1> HIDE DEF l, r
  <1>4. cs \subseteq Blocks
    BY <1>3 DEF Tiling
  <1>5. \A c \in cs : c.size > 0 /\ Aligned(c.size) /\ lo <= c.addr /\ c.addr + c.size <= hi
    BY <1>1, <1>2, <1>3 DEF Tiling
  <1>6. ASSUME NEW c \in bs, c # b PROVE Beside(c, l) /\ Beside(c, r) /\ Beside(l, c) /\ Beside(r, c)
    <2>1. Beside(b, c) /\ c.addr \in Nat /\ c.size \in Nat
      BY <1>6 DEF Tiling, Blocks
    <2> QED
      BY <1>1, <1>3, <2>1 DEF Beside
  <1>7. Beside(l, r) /\ Beside(r, l)
    BY <1>1, <1>3 DEF Beside
  <1>8. \A c, d \in cs : c # d => Beside(c, d)
    BY <1>6, <1>7 DEF Tiling
  <1>9. ASSUME NEW x \in lo..(hi - 1) PROVE \E c \in cs : Covers(c, x)
    <2>1. PICK c \in bs : Covers(c, x)
      BY DEF Tiling
    <2>2. c = b => Covers(l, x) \/ Covers(r, x)
      BY <1>1, <1>3, <2>1 DEF Covers
    <2> QED
      BY <2>1, <2>2
  <1> QED
    BY <1>4, <1>5, <1>8, <1>9 DEF Tiling, l, r

LEMMA Join ==
    ASSUME AllocAssumption, NEW lo \in Nat, NEW hi \in Nat, NEW bs, Tiling(bs, lo, hi),
           NEW b \in bs, NEW c \in bs, b.addr + b.size = c.addr
    PROVE  Tiling((bs \ {b, c}) \cup {Block(b.addr, b.size + c.size)}, lo, hi)
  <1> DEFINE m == Block(b.addr, b.size + c.size)
             cs == (bs \ {b, c}) \cup {m}
  <1>1. /\ b.addr \in Nat /\ b.size \in Nat /\ b.size > 0 /\ lo <= b.addr /\ Aligned(b.size)
        /\ c.addr \in Nat /\ c.size \in Nat /\ c.size > 0 /\ c.addr + c.size <= hi /\ Aligned(c.size)
    BY DEF Tiling, Blocks
  <1>2. Aligned(b.size + c.size)
    BY <1>1, AlignedSum
  <1>3. m \in Blocks /\ m.addr = b.addr /\ m.size = b.size + c.size
    BY <1>1 DEF Block, Blocks
  <1> HIDE DEF m
  <1>4. cs \subseteq Blocks
    BY <1>3 DEF Tiling
  <1>5. \A d \in cs : d.size > 0 /\ Aligned(d.size) /\ lo <= d.addr /\ d.addr + d.size <= hi
    BY <1>1, <1>2, <1>3 DEF Tiling
  <1>6. ASSUME NEW d \in bs, d # b, d # c PROVE Beside(d, m) /\ Beside(m, d)
    <2>1. Beside(b, d) /\ Beside(c, d) /\ d.addr \in Nat /\ d.size \in Nat /\ d.size > 0
      BY <1>6 DEF Tiling, Blocks
    <2> QED
      BY <1>1, <1>3, <2>1 DEF Beside
  <1>7. \A d, e \in cs : d # e => Beside(d, e)
    BY <1>6 DEF Tiling
  <1>8. ASSUME NEW x \in lo..(hi - 1) PROVE \E d \in cs : Covers(d, x)
    <2>1. PICK d \in bs : Covers(d, x)
      BY DEF Tiling
    <2>2. d \in {b, c} => Covers(m, x)
      BY <1>1, <1>3, <2>1 DEF Covers
    <2> QED
      BY <2>1, <2>2
  <1> QED
    BY <1>4, <1>5, <1>7, <1>8 DEF Tiling, m

----------------------------------------------------------------------------
(* page_t: a new page, page_t::allocate and page_t::release.               *)
LEMMA BlockFacts ==
    ASSUME NEW a \in Nat, NEW s \in Nat
    PROVE  /\ Block(a, s) \in Blocks
           /\ Block(a, s).addr = a /\ Block(a, s).size = s
           /\ \A b \in Blocks : b.addr = a /\ b.size = s => b = Block(a, s)
  BY DEF Block, Blocks

LEMMA PageFacts ==
    ASSUME NEW p, PageOK(p), NEW b \in p.used \cup p.free
    PROVE  /\ p.addr \in Nat /\ p.size \in Nat /\ p.addr + p.size < Word
           /\ b \in Blocks /\ b.addr \in Nat /\ b.size \in Nat /\ b.size > 0 /\ Aligned(b.size)
           /\ p.addr <= b.addr /\ b.addr + b.size <= p.addr + p.size
           /\ \A c \in p.used \cup p.free : c # b => Beside(b, c)
  <1>1. p.addr \in Nat /\ p.size \in Nat
    BY DEF PageOK, PageType
  <1>2. b \in Blocks
    BY DEF PageOK, Tiling
  <1>3. b.addr \in Nat /\ b.size \in Nat
    BY <1>2 DEF Blocks
  <1> QED
    BY <1>1, <1>2, <1>3 DEF PageOK, Tiling

LEMMA NewPageOK ==
    ASSUME NEW a \in Nat, NEW s \in Nat \ {0}, Aligned(s), a + s < Word
    PROVE  /\ PageOK(NewPage(a, s))
           /\ NewPage(a, s).addr = a /\ NewPage(a, s).size = s
           /\ NewPage(a, s).used = {} /\ NewPage(a, s).free = {Block(a, s)}
  <1> DEFINE p == NewPage(a, s)
  <1>1. /\ p.addr = a /\ p.size = s /\ p.used = {} /\ p.free = {Block(a, s)}
        /\ p \in PageType
    BY BlockFacts DEF NewPage, PageType
  <1>2. p.used \cup p.free = {Block(a, s)}
    BY <1>1
  <1>3. \A x \in a..(a + s - 1) : Covers(Block(a, s), x)
    BY BlockFacts DEF Covers
  <1>4. Tiling({Block(a, s)}, a, a + s)
    BY <1>3, BlockFacts DEF Tiling
  <1>5. Merged({Block(a, s)})
    BY BlockFacts DEF Merged
  <1> QED
    BY <1>1, <1>2, <1>4, <1>5 DEF PageOK

LEMMA AllocateOK ==
    ASSUME AllocAssumption, NEW p, PageOK(p), NEW s \in Nat \ {0}, Aligned(s),
           NEW b \in FindFreeBlock(p, s)
    PROVE  /\ PageOK(PageAllocate(p, s, b))
           /\ PageAllocate(p, s, b).addr = p.addr /\ PageAllocate(p, s, b).size = p.size
           /\ PageAllocate(p, s, b).used = p.used \cup {Block(b.addr, s)}
           /\ Block(b.addr, s) \notin p.used
           /\ b.addr \in Nat /\ p.addr <= b.addr /\ b.addr + s <= p.addr + p.size
           /\ \A c \in p.used : Beside(Block(b.addr, s), c)
  <1> DEFINE q == PageAllocate(p, s, b)
             n == Block(b.addr, s)
             r == Block(b.addr + s, b.size - s)
  <1>1. b \in p.free /\ b.size >= s
    BY DEF FindFreeBlock
  <1>2. /\ p.addr \in Nat /\ p.size \in Nat /\ p.addr + p.size < Word
        /\ b \in Blocks /\ b.addr \in Nat /\ b.size \in Nat /\ b.size > 0 /\ Aligned(b.size)
        /\ p.addr <= b.addr /\ b.addr + b.size <= p.addr + p.size
        /\ \A c \in p.used \cup p.free : c # b => Beside(b, c)
    BY <1>1, PageFacts
  <1>3. n \in Blocks /\ n.addr = b.addr /\ n.size = s
    BY <1>2, BlockFacts
  <1>4. BlockAlign \in Nat \ {0} /\ Word \in Nat
    BY DEF AllocAssumption
  <1>5. p \in PageType /\ b \notin p.used
    BY <1>1 DEF PageOK
  <1>6. ASSUME NEW c \in p.used \cup p.free, c # b
        PROVE  c.addr \in Nat /\ c.size \in Nat /\ c.size > 0 /\ Beside(b, c) /\ Beside(n, c) /\ c # n
    <2>1. c.addr \in Nat /\ c.size \in Nat /\ c.size > 0 /\ Beside(b, c)
      BY <1>2, <1>6, PageFacts
    <2> QED
      BY <1>1, <1>2, <1>3, <2>1 DEF Beside
  <1>7. CASE b.size = s
    <2>1. n = b
      BY <1>2, <1>7, BlockFacts
    <2>0. ~(b.size - s >= BlockAlign)
      BY <1>2, <1>4, <1>7
    <2>2. q = [p EXCEPT !.used = p.used \cup {b}, !.free = (p.free \ {b}) \cup {}]
      BY <2>0 DEF PageAllocate
    <2>3. /\ q \in PageType /\ q.addr = p.addr /\ q.size = p.size
          /\ q.used = p.used \cup {b} /\ q.free = p.free \ {b}
      <3> DEFINE us == p.used \cup {b}
                 fs == (p.free \ {b}) \cup {}
      <3>1. us \in SUBSET Blocks /\ fs \in SUBSET Blocks
        BY <1>2, <1>5 DEF PageType
      <3>2. q = [p EXCEPT !.used = us, !.free = fs]
        BY <2>2
      <3> HIDE DEF q, us, fs
      <3>3. /\ q \in PageType /\ q.addr = p.addr /\ q.size = p.size
            /\ q.used = us /\ q.free = fs
        BY <1>5, <3>1, <3>2 DEF PageType
      <3> QED
        BY <3>3 DEF us, fs
    <2>4. q.used \cup q.free = p.used \cup p.free
      BY <1>1, <2>3
    <2>5. q.used \cap q.free = {} /\ Merged(q.free)
      BY <1>5, <2>3 DEF PageOK, Merged
    <2> HIDE DEF q
    <2>6. PageOK(q)
      BY <2>3, <2>4, <2>5 DEF PageOK
    <2> QED
      BY <1>2, <1>5, <1>6, <1>7, <2>1, <2>3, <2>6 DEF q
  <1>8. CASE b.size > s
    <2>1. b.size - s >= BlockAlign /\ b.size - s \in Nat
      BY <1>2, <1>8, AlignedSum
    <2>2. (b.addr + s) % Word = b.addr + s
      BY <1>2, <1>4, <1>8, InWord, b.addr + s \in Nat, b.addr + s < Word
    <2>3. q = [p EXCEPT !.used = p.used \cup {n}, !.free = (p.free \ {b}) \cup {r}]
      BY <2>1, <2>2 DEF PageAllocate
    <2>4. r \in Blocks /\ r.addr = b.addr + s /\ r.size = b.size - s /\ r.size > 0
      BY SMTT(30), <1>2, <1>8, <2>1, BlockFacts
    <2> HIDE DEF n, r
    <2>5. /\ q \in PageType /\ q.addr = p.addr /\ q.size = p.size
          /\ q.used = p.used \cup {n} /\ q.free = (p.free \ {b}) \cup {r}
      <3> DEFINE us == p.used \cup {n}
                 fs == (p.free \ {b}) \cup {r}
      <3>1. us \in SUBSET Blocks /\ fs \in SUBSET Blocks
        BY <1>3, <1>5, <2>4 DEF PageType
      <3>2. q = [p EXCEPT !.used = us, !.free = fs]
        BY <2>3
      <3> HIDE DEF q, us, fs
      <3>3. /\ q \in PageType /\ q.addr = p.addr /\ q.size = p.size
            /\ q.used = us /\ q.free = fs
        BY <1>5, <3>1, <3>2 DEF PageType
      <3> QED
        BY <3>3 DEF us, fs
    <2> HIDE DEF q
    <2>6. Tiling(((p.used \cup p.free) \ {b}) \cup {n, r}, p.addr, p.addr + p.size)
      BY <1>1, <1>2, <1>8, Split DEF PageOK, n, r
    <2>7. q.used \cup q.free = ((p.used \cup p.free) \ {b}) \cup {n, r}
      BY <1>5, <2>5
    <2>8. ASSUME NEW c \in p.used \cup p.free, c # b
          PROVE  c # r /\ c.addr + c.size # r.addr
      BY <1>1, <1>2, <1>6, <1>8, <2>4, <2>8 DEF Beside
    <2>9. n # r
      BY <1>2, <1>3, <2>4
    <2>10. q.used \cap q.free = {}
      BY <1>5, <1>6, <2>5, <2>8, <2>9 DEF PageOK
    <2>11. ASSUME NEW c \in q.free, NEW d \in q.free PROVE c.addr + c.size # d.addr
      <3>1. CASE c # r /\ d # r
        BY <2>5, <3>1 DEF PageOK, Merged
      <3>2. CASE c # r /\ d = r
        BY <2>5, <2>8, <3>2
      <3>3. CASE c = r /\ d # r
        <4>1. b.addr + b.size # d.addr
          BY <1>1, <2>5, <3>3 DEF PageOK, Merged
        <4> QED
          BY <1>2, <2>4, <3>3, <4>1
      <3>4. CASE c = r /\ d = r
        BY <1>2, <2>4, <3>4
      <3> QED
        BY <3>1, <3>2, <3>3, <3>4
    <2>12. PageOK(q)
      BY <2>5, <2>6, <2>7, <2>10, <2>11 DEF PageOK, Merged
    <2> QED
      BY <1>2, <1>5, <1>6, <1>8, <2>5, <2>12 DEF q, n
  <1> QED
    BY <1>1, <1>2, <1>7, <1>8

(* The neighbours that page_t::release merges with.                        *)
LEMMA LeftIs ==
    ASSUME AllocAssumption, NEW p, PageOK(p), NEW b \in p.used
    PROVE  \/ LeftOf(p, b) = {} /\ \A f \in p.free : f.addr + f.size # b.addr
           \/ \E f \in p.free : LeftOf(p, b) = {f} /\ f.addr + f.size = b.addr
  <1> DEFINE before == {f \in p.free : f.addr < b.addr}
             h == Highest(before)
  <1>0. Word \in Nat /\ b.addr \in Nat /\ b.size \in Nat
    BY PageFacts DEF AllocAssumption
  <1>1. \A f \in p.free : /\ f.addr \in Nat /\ f.size \in Nat /\ f.size > 0 /\ f.addr + f.size < Word
                          /\ f.addr + f.size \in Nat
    BY <1>0, PageFacts
  <1>2. \A f \in p.free : End(f) = f.addr + f.size
    BY <1>0, <1>1, InWord DEF End
  <1>3. CASE before = {}
    <2>1. LeftOf(p, b) = {}
      BY <1>3 DEF LeftOf
    <2>2. \A f \in p.free : f.addr + f.size # b.addr
      BY <1>0, <1>1, <1>3
    <2> QED
      BY <2>1, <2>2
  <1>4. CASE before # {}
    <2>1. h \in before /\ \A c \in before : c.addr <= h.addr
      BY <1>0, <1>1, <1>4, HighestIs
    <2>2. LeftOf(p, b) = IF h.addr + h.size = b.addr THEN {h} ELSE {}
      BY <1>2, <1>4, <2>1 DEF LeftOf
    <2> HIDE DEF h
    <2>3. ASSUME NEW f \in p.free, f.addr + f.size = b.addr PROVE f = h
      <3>1. f \in before /\ f.addr <= h.addr /\ h.addr < b.addr
        BY <1>0, <1>1, <2>1, <2>3
      <3>2. f # h => Beside(f, h)
        BY <2>1, PageFacts
      <3>3. h.addr \in Nat /\ h.size \in Nat /\ h.size > 0
        BY <1>1, <2>1
      <3> QED
        BY <1>0, <1>1, <2>3, <3>1, <3>2, <3>3 DEF Beside
    <2> QED
      BY <2>1, <2>2, <2>3
  <1> QED
    BY <1>3, <1>4

LEMMA RightIs ==
    ASSUME AllocAssumption, NEW p, PageOK(p), NEW b \in p.used
    PROVE  \/ RightOf(p, b) = {} /\ \A f \in p.free : b.addr + b.size # f.addr
           \/ \E f \in p.free : RightOf(p, b) = {f} /\ b.addr + b.size = f.addr
  <1> DEFINE after == {f \in p.free : f.addr >= b.addr}
             h == Lowest(after)
  <1>0. /\ Word \in Nat /\ b.addr \in Nat /\ b.size \in Nat /\ b.size > 0
        /\ b.addr + b.size < Word /\ b.addr + b.size \in Nat
    BY PageFacts DEF AllocAssumption
  <1>1. \A f \in p.free : f.addr \in Nat /\ f.size \in Nat /\ f.size > 0
    BY <1>0, PageFacts
  <1>2. End(b) = b.addr + b.size
    BY <1>0, InWord DEF End
  <1>3. CASE after = {}
    <2>1. RightOf(p, b) = {}
      BY <1>3 DEF RightOf
    <2>2. \A f \in p.free : b.addr + b.size # f.addr
      BY <1>0, <1>1, <1>3
    <2> QED
      BY <2>1, <2>2
  <1>4. CASE after # {}
    <2>1. h \in after /\ \A c \in after : h.addr <= c.addr
      BY <1>0, <1>1, <1>4, LowestIs
    <2>2. RightOf(p, b) = IF h.addr = b.addr + b.size THEN {h} ELSE {}
      BY <1>2, <1>4, <2>1 DEF RightOf
    <2> HIDE DEF h
    <2>3. ASSUME NEW f \in p.free, b.addr + b.size = f.addr PROVE h.addr = b.addr + b.size
      <3>1. f \in after /\ h.addr <= f.addr /\ h.addr >= b.addr
        BY <1>0, <1>1, <2>1, <2>3
      <3>2. h # b
        BY <2>1 DEF PageOK
      <3>3. Beside(b, h)
        BY <2>1, <3>2, PageFacts
      <3>4. h.addr \in Nat /\ h.size \in Nat /\ h.size > 0
        BY <1>1, <2>1
      <3> QED
        BY <1>0, <1>1, <2>3, <3>1, <3>3, <3>4 DEF Beside
    <2> QED
      BY <2>1, <2>2, <2>3
  <1> QED
    BY <1>3, <1>4

(* What they become: one block, from the start of the first to the end of  *)
(* the last, and the other blocks tile the rest of the page.               *)
LEMMA MergeOK ==
    ASSUME AllocAssumption, NEW p, PageOK(p), NEW b \in p.used,
           NEW L, L = LeftOf(p, b), NEW R, R = RightOf(p, b),
           NEW n, n = Block(StartOf(L, b), SizeOf(L) + b.size + SizeOf(R))
    PROVE  /\ L \subseteq p.free /\ R \subseteq p.free
           /\ n \in Blocks /\ n.size > 0
           /\ Tiling(((p.used \cup p.free) \ ({b} \cup L \cup R)) \cup {n}, p.addr, p.addr + p.size)
           /\ \E l \in {b} \cup L \cup R : n.addr = l.addr
           /\ \A c \in p.free \ (L \cup R) : c.addr + c.size # n.addr /\ n.addr + n.size # c.addr
  <1> DEFINE bs == p.used \cup p.free
             lo == p.addr
             hi == p.addr + p.size
  <1>1. /\ lo \in Nat /\ hi \in Nat /\ Tiling(bs, lo, hi)
        /\ b \in Blocks /\ b.addr \in Nat /\ b.size \in Nat /\ b.size > 0 /\ b \notin p.free
    <2>1. b \in p.used \cup p.free
      OBVIOUS
    <2>2. /\ p.addr \in Nat /\ p.size \in Nat
          /\ b \in Blocks /\ b.addr \in Nat /\ b.size \in Nat /\ b.size > 0
      BY <2>1, PageFacts
    <2> QED
      BY <2>2 DEF PageOK
  <1>2. \A f \in p.free : f \in Blocks /\ f.addr \in Nat /\ f.size \in Nat /\ f.size > 0
    BY PageFacts
  <1>3. \A f, g \in p.free : f.addr + f.size # g.addr
    BY DEF PageOK, Merged
  <1>4. /\ SizeOf({}) = 0 /\ StartOf({}, b) = b.addr
        /\ \A f : SizeOf({f}) = f.size /\ StartOf({f}, b) = f.addr
    <2>1. \A f : Lowest({f}) = f
      BY DEF Lowest
    <2> QED
      BY <2>1 DEF SizeOf, StartOf
  <1>5. CASE L = {} /\ R = {}
    <2>1. n = Block(b.addr, b.size)
      BY <1>1, <1>4, <1>5
    <2>2. n = b
      BY <1>1, <2>1, BlockFacts
    <2>3. \A c \in p.free : c.addr + c.size # b.addr /\ b.addr + b.size # c.addr
      <3>1. ~ \E f \in p.free : LeftOf(p, b) = {f}
        BY <1>5
      <3>2. ~ \E f \in p.free : RightOf(p, b) = {f}
        BY <1>5
      <3> QED
        BY <3>1, <3>2, LeftIs, RightIs
    <2>4. (bs \ ({b} \cup L \cup R)) \cup {n} = bs
      BY <1>5, <2>2
    <2> QED
      BY <1>1, <1>5, <2>2, <2>3, <2>4
  <1>6. ASSUME NEW f \in p.free, L = {f}, f.addr + f.size = b.addr, R = {}
        PROVE  /\ n \in Blocks /\ n.addr = f.addr /\ n.size = f.size + b.size
               /\ Tiling((bs \ {f, b}) \cup {n}, lo, hi)
    <2>1. n = Block(f.addr, f.size + b.size)
      <3>1. n = Block(f.addr, f.size + b.size + 0)
        BY <1>4, <1>6
      <3> QED
        BY <1>1, <1>2, <3>1
    <2> QED
      <3>1. f.size + b.size \in Nat
        BY <1>1, <1>2
      <3>2. n \in Blocks /\ n.addr = f.addr /\ n.size = f.size + b.size
        BY <1>2, <2>1, <3>1, BlockFacts
      <3>3. f \in bs /\ b \in bs
        OBVIOUS
      <3> HIDE DEF bs, lo, hi
      <3> QED
        BY <1>1, <1>6, <2>1, <3>2, <3>3, Join
  <1>7. CASE L # {} /\ R = {}
    <2>1. PICK f \in p.free : L = {f} /\ f.addr + f.size = b.addr
      BY <1>7, LeftIs
    <2>2. /\ n \in Blocks /\ n.addr = f.addr /\ n.size = f.size + b.size
          /\ Tiling((bs \ {f, b}) \cup {n}, lo, hi)
      BY <1>6, <1>7, <2>1
    <2>3. \A c \in p.free : b.addr + b.size # c.addr
      BY <1>7, RightIs
    <2>4. n.addr + n.size = b.addr + b.size /\ n.size > 0
      BY <1>1, <1>2, <2>1, <2>2
    <2>5. {b} \cup L \cup R = {f, b}
      BY <1>7, <2>1
    <2> QED
      BY <1>3, <1>7, <2>1, <2>2, <2>3, <2>4, <2>5
  <1>8. CASE L = {} /\ R # {}
    <2>1. PICK g \in p.free : R = {g} /\ b.addr + b.size = g.addr
      BY <1>8, RightIs
    <2>2. n = Block(b.addr, b.size + g.size)
      <3>1. n = Block(b.addr, 0 + b.size + g.size)
        BY <1>4, <1>8, <2>1
      <3> QED
        BY <1>1, <1>2, <3>1
    <2>3. n \in Blocks /\ n.addr = b.addr /\ n.size = b.size + g.size
      BY <1>1, <1>2, <2>2, BlockFacts
    <2>4. Tiling((bs \ {b, g}) \cup {n}, lo, hi)
      BY <1>1, <2>1, <2>2, Join
    <2>5. \A c \in p.free : c.addr + c.size # b.addr
      BY <1>8, LeftIs
    <2>6. n.addr + n.size = g.addr + g.size /\ n.size > 0
      BY <1>1, <1>2, <2>1, <2>3
    <2>7. {b} \cup L \cup R = {b, g}
      BY <1>8, <2>1
    <2> QED
      BY <1>3, <1>8, <2>1, <2>3, <2>4, <2>5, <2>6, <2>7
  <1>9. CASE L # {} /\ R # {}
    <2>1. PICK f \in p.free : L = {f} /\ f.addr + f.size = b.addr
      BY <1>9, LeftIs
    <2>2. PICK g \in p.free : R = {g} /\ b.addr + b.size = g.addr
      BY <1>9, RightIs
    <2> DEFINE m == Block(f.addr, f.size + b.size)
               ms == (bs \ {f, b}) \cup {m}
    <2>3. m \in Blocks /\ m.addr = f.addr /\ m.size = f.size + b.size
      BY <1>1, <1>2, BlockFacts
    <2>4. Tiling(ms, lo, hi)
      BY <1>1, <2>1, Join
    <2>5. n = Block(m.addr, m.size + g.size)
      BY <1>4, <2>1, <2>2, <2>3
    <2> HIDE DEF m
    <2>6. g \in ms /\ m.addr + m.size = g.addr
      BY <1>1, <1>2, <2>1, <2>2, <2>3
    <2>7. Tiling((ms \ {m, g}) \cup {n}, lo, hi)
      <3> HIDE DEF ms
      <3>1. m \in ms
        BY DEF ms
      <3> QED
        BY <1>1, <2>4, <2>5, <2>6, <3>1, Join
    <2>8. n \in Blocks /\ n.addr = f.addr /\ n.size = f.size + b.size + g.size
      BY SMTT(30), <1>1, <1>2, <2>3, <2>5, BlockFacts
    <2>9. ASSUME NEW c \in bs, c # f PROVE c # m
      <3>1. Beside(f, c) /\ c.addr \in Nat /\ c.size > 0 /\ c.size \in Nat
        BY <2>9, PageFacts
      <3> QED
        BY <1>2, <2>3, <3>1 DEF Beside
    <2>10. (ms \ {m, g}) \cup {n} = (bs \ {f, b, g}) \cup {n}
      BY <2>9
    <2>11. {b} \cup L \cup R = {f, b, g}
      BY <2>1, <2>2
    <2>12. n.addr + n.size = g.addr + g.size /\ n.size > 0
      BY <1>1, <1>2, <2>1, <2>2, <2>8
    <2> QED
      BY <1>3, <2>1, <2>2, <2>7, <2>8, <2>10, <2>11, <2>12
  <1> QED
    BY <1>5, <1>7, <1>8, <1>9

LEMMA ReleaseOK ==
    ASSUME AllocAssumption, NEW p, PageOK(p), NEW b \in p.used
    PROVE  /\ PageOK(PageRelease(p, b))
           /\ PageRelease(p, b).addr = p.addr /\ PageRelease(p, b).size = p.size
           /\ PageRelease(p, b).used = p.used \ {b}
  <1> DEFINE q == PageRelease(p, b)
             L == LeftOf(p, b)
             R == RightOf(p, b)
             n == Block(StartOf(L, b), SizeOf(L) + b.size + SizeOf(R))
             us == p.used \ {b}
             fs == (p.free \ (L \cup R)) \cup {n}
  <1>1. q = [p EXCEPT !.used = us, !.free = fs]
    BY DEF PageRelease
  <1> HIDE DEF q, n, L, R
  <1>2. /\ L \subseteq p.free /\ R \subseteq p.free
        /\ n \in Blocks /\ n.size > 0
        /\ Tiling(((p.used \cup p.free) \ ({b} \cup L \cup R)) \cup {n}, p.addr, p.addr + p.size)
        /\ \E l \in {b} \cup L \cup R : n.addr = l.addr
        /\ \A c \in p.free \ (L \cup R) : c.addr + c.size # n.addr /\ n.addr + n.size # c.addr
    BY MergeOK DEF n, L, R
  <1>3. p \in PageType /\ b \notin p.free /\ p.used \cap p.free = {}
    BY DEF PageOK
  <1>4. us \in SUBSET Blocks /\ fs \in SUBSET Blocks
    BY <1>2, <1>3 DEF PageType
  <1> HIDE DEF us, fs
  <1>5. /\ q \in PageType /\ q.addr = p.addr /\ q.size = p.size
        /\ q.used = us /\ q.free = fs
    BY <1>1, <1>3, <1>4 DEF PageType
  <1>6. us \cup fs = ((p.used \cup p.free) \ ({b} \cup L \cup R)) \cup {n}
    BY <1>2, <1>3 DEF us, fs
  <1>7. ASSUME NEW c \in us PROVE c # n
    <2>1. PICK l \in {b} \cup L \cup R : n.addr = l.addr
      BY <1>2
    <2>2. l # c /\ l \in p.used \cup p.free /\ c \in p.used \cup p.free
      BY <1>2, <1>3, <2>1 DEF us
    <2>3. Beside(l, c) /\ l.addr \in Nat /\ l.size \in Nat /\ l.size > 0
      BY <2>2, PageFacts
    <2>4. c.addr \in Nat /\ c.size \in Nat /\ c.size > 0
      BY <2>2, PageFacts
    <2> QED
      BY <2>1, <2>3, <2>4 DEF Beside
  <1>8. us \cap fs = {}
    BY <1>3, <1>7 DEF us, fs
  <1>9. Merged(fs)
    <2>1. n.addr + n.size # n.addr
      BY <1>2 DEF Blocks
    <2>2. \A c, d \in p.free : c.addr + c.size # d.addr
      BY DEF PageOK, Merged
    <2> QED
      BY <1>2, <2>1, <2>2 DEF Merged, fs
  <1>10. PageOK(q)
    BY <1>2, <1>5, <1>6, <1>8, <1>9 DEF PageOK
  <1> QED
    BY <1>5, <1>10 DEF q, us

----------------------------------------------------------------------------
(* The list of pages.                                                      *)
UsedIn(ps) == UNION {p.used : p \in ps}

LEMMA PageNumbers ==
    ASSUME NEW ps, PagesOK(ps), NEW p \in ps
    PROVE  p.addr \in Nat /\ p.size \in Nat /\ p.size > 0 /\ p.addr + p.size < Word
  BY DEF PagesOK, PageOK, PageType

LEMMA UsedFacts ==
    ASSUME NEW ps, PagesOK(ps), NEW p \in ps, NEW b \in p.used
    PROVE  /\ b \in Blocks /\ b.addr \in Nat /\ b.size \in Nat /\ b.size > 0
           /\ p.addr <= b.addr /\ b.addr + b.size <= p.addr + p.size
           /\ \A q \in ps : \A c \in q.used : b # c => Beside(b, c)
  <1>1. /\ b \in Blocks /\ b.addr \in Nat /\ b.size \in Nat /\ b.size > 0
        /\ p.addr <= b.addr /\ b.addr + b.size <= p.addr + p.size
        /\ p.addr \in Nat /\ p.size \in Nat
        /\ \A c \in p.used \cup p.free : c # b => Beside(b, c)
    BY PageFacts DEF PagesOK
  <1>2. ASSUME NEW q \in ps, NEW c \in q.used, b # c PROVE Beside(b, c)
    <2>1. /\ c.addr \in Nat /\ c.size \in Nat
          /\ q.addr <= c.addr /\ c.addr + c.size <= q.addr + q.size
          /\ q.addr \in Nat /\ q.size \in Nat
      BY PageFacts DEF PagesOK
    <2>2. CASE q = p
      BY <1>1, <1>2, <2>2
    <2>3. CASE q # p
      <3>1. Beside(p, q)
        BY <2>3 DEF PagesOK
      <3> QED
        BY <1>1, <2>1, <3>1 DEF Beside
    <2> QED
      BY <2>2, <2>3
  <1> QED
    BY <1>1, <1>2

(* MemoryAllocator::release of a block finds it and takes it out.          *)
LEMMA ReleasePages ==
    ASSUME AllocAssumption, NEW ps, PagesOK(ps), NEW p \in ps, NEW b \in p.used
    PROVE  /\ UsedBlock(ps, b.addr) = b
           /\ PagesOK(Release(ps, b.addr))
           /\ UsedIn(Release(ps, b.addr)) = UsedIn(ps) \ {b}
           /\ \A q \in Release(ps, b.addr) :
                \/ q \in ps \ {p}
                \/ q.used = p.used \ {b} /\ q.used # {} /\ q.addr = p.addr /\ q.size = p.size
  <1> DEFINE r == PageRelease(p, b)
             with == {q \in ps : \E c \in q.used : c.addr = b.addr}
             rs == (ps \ {p}) \cup (IF r.used = {} THEN {} ELSE {r})
  <1>1. ASSUME NEW q \in ps, NEW c \in q.used, c.addr = b.addr PROVE c = b /\ q = p
    <2>1. c = b
      <3>1. b # c => Beside(b, c)
        BY UsedFacts
      <3>2. b.addr \in Nat /\ b.size \in Nat /\ b.size > 0 /\ c.size \in Nat /\ c.size > 0
        BY UsedFacts
      <3> QED
        BY <1>1, <3>1, <3>2 DEF Beside
    <2>2. q # p => Beside(p, q)
      BY DEF PagesOK
    <2>3. p.addr <= b.addr /\ b.addr + b.size <= p.addr + p.size /\ b.addr \in Nat /\ b.size \in Nat /\ b.size > 0
      BY UsedFacts
    <2>4. q.addr <= b.addr /\ b.addr + b.size <= q.addr + q.size
      BY <2>1, UsedFacts
    <2>5. p.addr \in Nat /\ p.size \in Nat /\ q.addr \in Nat /\ q.size \in Nat
      BY PageNumbers
    <2> QED
      BY <2>1, <2>2, <2>3, <2>4, <2>5 DEF Beside
  <1>2. with = {p}
    BY <1>1
  <1>3. PageOf(ps, b.addr) = p
    BY <1>2 DEF PageOf, Lowest
  <1>4. UsedBlock(ps, b.addr) = b
    <2>1. \A c \in p.used : c.addr = b.addr => c = b
      BY <1>1
    <2> QED
      BY <1>3, <2>1 DEF UsedBlock
  <1>5. Release(ps, b.addr) = rs
    BY <1>3, <1>4 DEF Release
  <1>6. PageOK(r) /\ r.addr = p.addr /\ r.size = p.size /\ r.used = p.used \ {b}
    BY ReleaseOK DEF PagesOK
  <1> HIDE DEF r
  <1>7. PagesOK(rs)
    <2>1. \A q \in ps \ {p} : Beside(r, q) /\ Beside(q, r)
      BY <1>6 DEF PagesOK, Beside
    <2> QED
      BY <1>6, <2>1 DEF PagesOK
  <1>8. \A q \in ps \ {p} : b \notin q.used
    BY <1>1
  <1>9. UsedIn(rs) = UsedIn(ps) \ {b}
    <2>1. \A c : c \in UsedIn(rs) <=> (\E q \in ps \ {p} : c \in q.used) \/ c \in r.used
      BY DEF UsedIn
    <2>2. \A c : c \in UsedIn(ps) <=> (\E q \in ps \ {p} : c \in q.used) \/ c \in p.used
      BY DEF UsedIn
    <2> QED
      BY <1>6, <1>8, <2>1, <2>2
  <1> QED
    BY <1>4, <1>5, <1>6, <1>7, <1>9

(* A block taken from page p, old or new, beside all the others.           *)
LEMMA TakePages ==
    ASSUME AllocAssumption, NEW ps, PagesOK(ps), NEW p, PageOK(p),
           \A q \in ps : Beside(p, q) /\ Beside(q, p),
           NEW s \in Nat \ {0}, Aligned(s), NEW o \in TakeFrom(ps, p, s)
    PROVE  /\ o.addr \in Nat /\ p.addr <= o.addr /\ o.addr + s <= p.addr + p.size
           /\ PagesOK(o.pages)
           /\ Block(o.addr, s) \notin UsedIn(ps) \cup p.used
           /\ UsedIn(o.pages) = UsedIn(ps) \cup p.used \cup {Block(o.addr, s)}
           /\ \E q \in o.pages : /\ o.pages \ {q} \subseteq ps
                                 /\ q.used = p.used \cup {Block(o.addr, s)}
                                 /\ q.addr = p.addr /\ q.size = p.size
  <1>1. PICK b \in FindFreeBlock(p, s) :
            o = [pages |-> ps \cup {PageAllocate(p, s, b)}, addr |-> b.addr]
    BY DEF TakeFrom
  <1> DEFINE q == PageAllocate(p, s, b)
             n == Block(b.addr, s)
  <1>2. o.addr = b.addr /\ o.pages = ps \cup {q}
    BY <1>1
  <1>3. /\ PageOK(q) /\ q.addr = p.addr /\ q.size = p.size /\ q.used = p.used \cup {n}
        /\ n \notin p.used
        /\ b.addr \in Nat /\ p.addr <= b.addr /\ b.addr + s <= p.addr + p.size
    BY AllocateOK
  <1> HIDE DEF q
  <1>4. PagesOK(ps \cup {q})
    <2>1. \A r \in ps : Beside(q, r) /\ Beside(r, q)
      BY <1>3 DEF Beside
    <2> QED
      BY <1>3, <2>1 DEF PagesOK
  <1>5. ASSUME NEW r \in ps PROVE n \notin r.used
    <2>1. ASSUME n \in r.used PROVE FALSE
      <3>1. r.addr <= n.addr /\ n.addr + n.size <= r.addr + r.size /\ n.addr = b.addr /\ n.size = s
        BY <1>3, <2>1, UsedFacts, BlockFacts
      <3>2. r.addr \in Nat /\ r.size \in Nat /\ p.addr \in Nat /\ p.size \in Nat
        BY PageNumbers DEF PageOK, PageType
      <3> QED
        BY <1>3, <3>1, <3>2 DEF Beside
    <2> QED
      BY <2>1
  <1>6. UsedIn(ps \cup {q}) = UsedIn(ps) \cup p.used \cup {n}
    <2>1. \A c : c \in UsedIn(ps \cup {q}) <=> c \in UsedIn(ps) \/ c \in q.used
      BY DEF UsedIn
    <2> QED
      BY <1>3, <2>1
  <1>7. n \notin UsedIn(ps) \cup p.used
    BY <1>3, <1>5 DEF UsedIn
  <1> QED
    BY <1>2, <1>3, <1>4, <1>6, <1>7

----------------------------------------------------------------------------
(* findNextAddress yields an address with room beside all the pages.       *)
LEMMA Numbers ==
    ASSUME AllocAssumption
    PROVE  /\ Word \in Nat /\ BaseAddress \in Nat /\ Capacity \in Nat /\ GlobalMemSize \in Nat
           /\ Top \in Nat /\ BaseAddress <= GlobalMemSize /\ Capacity <= GlobalMemSize
           /\ GlobalMemSize <= Top
           /\ BlockAlign \in Nat \ {0} /\ PageAlign \in Nat \ {0}
           /\ BlockAlign <= PageAlign
  <1>1. /\ BaseAddress \in Nat /\ Capacity \in Nat /\ Word \in Nat
        /\ BlockAlign \in Nat \ {0} /\ PageAlign \in Nat \ {0} /\ PageAlign % BlockAlign = 0
    BY DEF AllocAssumption
  <1>2. PICK k \in Nat : PageAlign = k * BlockAlign
    BY <1>1, DividedExactly
  <1>3. k >= 1
    BY <1>1, <1>2
  <1>4. k * BlockAlign >= BlockAlign
    BY <1>1, <1>3
  <1> QED
    BY <1>1, <1>2, <1>4 DEF GlobalMemSize, Top

LEMMA EndIs ==
    ASSUME AllocAssumption, PagesOK(pages), Settled, NEW q \in pages
    PROVE  /\ q.addr \in Nat /\ q.size \in Nat /\ q.size > 0
           /\ End(q) = q.addr + q.size /\ End(q) \in Nat /\ End(q) <= Top /\ q.addr <= Top
  <1>1. q.addr \in Nat /\ q.size \in Nat /\ q.size > 0 /\ q.addr + q.size < Word
    BY PageNumbers
  <1>2. q.addr + q.size \in Nat
    BY <1>1
  <1>3. End(q) = q.addr + q.size
    BY <1>1, <1>2, Numbers, InWord DEF End
  <1>4. q.addr + q.size <= Top
    BY DEF Settled
  <1> QED
    BY <1>1, <1>2, <1>3, <1>4, Numbers

(* The highest of some pages ends behind all of them.                      *)
LEMMA HighestEnds ==
    ASSUME AllocAssumption, PagesOK(pages), Settled, NEW qs \in SUBSET pages, qs # {}
    PROVE  Highest(qs) \in qs /\ \A q \in qs : q.addr + q.size <= End(Highest(qs))
  <1> DEFINE h == Highest(qs)
  <1>1. h \in qs /\ \A q \in qs : q.addr <= h.addr
    BY EndIs, Numbers, HighestIs
  <1> HIDE DEF h
  <1>2. ASSUME NEW q \in qs PROVE q.addr + q.size <= End(h)
    <2>1. /\ End(h) = h.addr + h.size /\ h.addr \in Nat /\ h.size \in Nat /\ h.size > 0
          /\ q.addr \in Nat /\ q.size \in Nat /\ q.size > 0 /\ q.addr <= h.addr
      BY <1>1, EndIs
    <2>2. q = h \/ Beside(q, h)
      BY <1>1 DEF PagesOK
    <2> QED
      BY <2>1, <2>2 DEF Beside
  <1> QED
    BY <1>1, <1>2 DEF h

LEMMA NextAddress ==
    ASSUME AllocAssumption, PagesOK(pages), Settled,
           NEW s \in Nat \ {0}, Top + s < Word, NEW a \in FindNextAddress(s)
    PROVE  /\ a \in Nat /\ a <= Top
           /\ \A q \in pages : a + s <= q.addr \/ q.addr + q.size <= a
           /\ a + s <= Top \/ (pages = {} /\ a = BaseAddress)
           /\ a = BaseAddress \/ \E q \in pages : q.addr <= a
  <1> DEFINE gaps == {p \in pages : (EndBefore(p) + s) % Word <= p.addr}
             g == Lowest(gaps)
             before == {q \in pages : q.addr < g.addr}
  <1>1. ASSUME NEW x \in Nat, x <= Top PROVE (x + s) % Word = x + s
    BY <1>1, Numbers, InWord, x + s \in Nat, x + s < Word
  <1>2. CASE pages = {}
    BY <1>2, Numbers DEF FindNextAddress
  <1>3. CASE pages # {} /\ gaps # {}
    <2>1. a = EndBefore(g)
      BY <1>3 DEF FindNextAddress
    <2>2. g \in gaps
      BY <1>3, EndIs, LowestIs
    <2> HIDE DEF g
    <2>3. g \in pages /\ (a + s) % Word <= g.addr /\ g.addr \in Nat /\ g.addr <= Top
      BY <2>1, <2>2, EndIs
    <2>4. CASE before = {}
      <3>1. a = BaseAddress
        BY <2>1, <2>4 DEF EndBefore
      <3>2. a \in Nat /\ a <= Top /\ a + s <= g.addr
        BY <1>1, <2>3, <3>1, Numbers
      <3>3. \A q \in pages : g.addr <= q.addr
        BY <2>3, <2>4, EndIs
      <3>4. \A q \in pages : a + s <= q.addr
        BY <2>3, <3>2, <3>3, EndIs
      <3> QED
        BY <2>3, <3>1, <3>2, <3>4, Numbers
    <2>5. CASE before # {}
      <3>1. a = End(Highest(before))
        BY <2>1, <2>5 DEF EndBefore
      <3>2. Highest(before) \in before /\ \A q \in before : q.addr + q.size <= a
        BY <2>5, <3>1, HighestEnds
      <3>3. a \in Nat /\ a <= Top
        BY <3>1, <3>2, EndIs
      <3>4. a + s <= g.addr
        BY <1>1, <2>3, <3>3
      <3>5. ASSUME NEW q \in pages PROVE a + s <= q.addr \/ q.addr + q.size <= a
        <4>1. CASE q \in before
          BY <3>2, <4>1
        <4>2. CASE q \notin before
          BY <2>3, <3>3, <3>4, <4>2, EndIs
        <4> QED
          BY <4>1, <4>2
      <3>6. Highest(before) \in pages /\ Highest(before).addr <= a
        BY <3>1, <3>2, EndIs
      <3> QED
        BY <2>3, <3>3, <3>4, <3>5, <3>6, Numbers
    <2> QED
      BY <2>4, <2>5
  <1>4. CASE pages # {} /\ gaps = {}
    <2>1. a = End(Highest(pages)) /\ (a + s) % Word <= Capacity
      BY <1>4 DEF FindNextAddress
    <2>2. Highest(pages) \in pages /\ \A q \in pages : q.addr + q.size <= a
      BY <1>4, <2>1, HighestEnds
    <2>3. a \in Nat /\ a <= Top
      BY <2>1, <2>2, EndIs
    <2>4. a + s <= Top
      BY <1>1, <2>1, <2>3, Numbers
    <2>5. Highest(pages).addr <= a
      BY <2>1, <2>2, EndIs
    <2> QED
      BY <2>2, <2>3, <2>4, <2>5
  <1> QED
    BY <1>2, <1>3, <1>4

----------------------------------------------------------------------------
(* What allocate and reserve leave behind, whichever page they took the    *)
(* block from: a page that is new ends in memory if its block does.  No    *)
(* page starts below lo if none did.                                       *)
Above(ps, lo) == \A p \in ps : lo <= p.addr
Taken(o, s, lo) ==
    /\ o.addr \in Nat
    /\ PagesOK(o.pages)
    /\ Block(o.addr, s) \notin Used
    /\ UsedIn(o.pages) = Used \cup {Block(o.addr, s)}
    /\ \E q \in o.pages :
          /\ o.pages \ {q} \subseteq pages
          /\ Block(o.addr, s) \in q.used
          /\ \/ q.addr + q.size <= Top
             \/ q.used = {Block(o.addr, s)} /\ (o.addr + s <= GlobalMemSize => q.addr + q.size <= Top)
          /\ Above(pages, lo) => lo <= q.addr

LEMMA SizesRounded ==
    ASSUME AllocAssumption, NoWrap, NEW s \in Sizes
    PROVE  /\ s \in Nat \ {0}
           /\ AlignSize(s, BlockAlign) \in Nat \ {0} /\ Aligned(AlignSize(s, BlockAlign))
           /\ s <= AlignSize(s, BlockAlign) /\ AlignSize(s, BlockAlign) < s + BlockAlign
           /\ Top + AlignSize(s, BlockAlign) + PageAlign < Word
           /\ AlignSize(s, PageAlign) \in Nat \ {0} /\ Aligned(AlignSize(s, PageAlign))
           /\ s <= AlignSize(s, PageAlign) /\ AlignSize(s, PageAlign) < s + PageAlign
  <1>1. s \in Nat \ {0}
    BY DEF AllocAssumption
  <1>2. GlobalMemSize + s + 3 * PageAlign < Word
    BY DEF NoWrap
  <1>3. s + BlockAlign < Word /\ s + PageAlign < Word
    BY <1>1, <1>2, Numbers
  <1>4. /\ AlignSize(s, BlockAlign) \in Nat
        /\ s <= AlignSize(s, BlockAlign) /\ AlignSize(s, BlockAlign) < s + BlockAlign
        /\ \E k \in Nat : AlignSize(s, BlockAlign) = k * BlockAlign
    BY <1>1, <1>3, Numbers, AlignSizeIs
  <1>5. /\ AlignSize(s, PageAlign) \in Nat
        /\ s <= AlignSize(s, PageAlign) /\ AlignSize(s, PageAlign) < s + PageAlign
        /\ \E k \in Nat : AlignSize(s, PageAlign) = k * PageAlign
    BY <1>1, <1>3, Numbers, AlignSizeIs
  <1>6. Aligned(AlignSize(s, BlockAlign))
    BY <1>4, Numbers, MultipleOf DEF Aligned
  <1>7. Aligned(AlignSize(s, PageAlign))
    BY <1>5, PageAligned
  <1>8. Top + AlignSize(s, BlockAlign) + PageAlign < Word
    BY <1>1, <1>2, <1>4, Numbers DEF Top
  <1> QED
    BY <1>1, <1>4, <1>5, <1>6, <1>7, <1>8

LEMMA AllocateTakes ==
    ASSUME AllocAssumption, PagesOK(pages), Settled,
           NEW s \in Nat \ {0}, Aligned(s), Top + s + PageAlign < Word, NEW o \in Allocate(s)
    PROVE  Taken(o, s, BaseAddress)
  <1> DEFINE room == {p \in pages : FindFreeBlock(p, s) # {}}
             pageSize == AlignSize(s, PageAlign)
             n == Block(o.addr, s)
  <1>1. CASE room # {}
    <2> DEFINE p == Lowest(room)
               ps == pages \ {p}
    <2>1. p \in room
      <3>1. \A q \in room : q.addr \in Nat
        BY PageNumbers
      <3> QED
        BY <1>1, <3>1, LowestIs
    <2>2. o \in TakeFrom(ps, p, s)
      BY <1>1 DEF Allocate
    <2> HIDE DEF p
    <2>3. PagesOK(ps) /\ PageOK(p) /\ \A q \in ps : Beside(p, q) /\ Beside(q, p)
      BY <2>1 DEF PagesOK
    <2>4. UsedIn(ps) \cup p.used = Used
      BY <2>1 DEF UsedIn, Used
    <2> HIDE DEF ps
    <2>5. /\ o.addr \in Nat /\ PagesOK(o.pages)
          /\ n \notin Used /\ UsedIn(o.pages) = Used \cup {n}
          /\ \E q \in o.pages : o.pages \ {q} \subseteq ps /\ q.used = p.used \cup {n}
                                /\ q.addr = p.addr /\ q.size = p.size
      BY <2>2, <2>3, <2>4, TakePages
    <2>6. p.addr + p.size <= Top
      BY <2>1 DEF Settled
    <2>7. Above(pages, BaseAddress) => BaseAddress <= p.addr
      BY <2>1 DEF Above
    <2> QED
      BY <2>5, <2>6, <2>7 DEF Taken, ps
  <1>2. CASE room = {}
    <2>1. PICK a \in FindNextAddress(pageSize) : o \in TakeFrom(pages, NewPage(a, pageSize), s)
      BY <1>2 DEF Allocate
    <2>2. /\ pageSize \in Nat \ {0} /\ s <= pageSize /\ pageSize < s + PageAlign
          /\ \E k \in Nat : pageSize = k * PageAlign
      <3>1. s + PageAlign < Word
        BY Numbers
      <3>2. /\ pageSize \in Nat /\ s <= pageSize /\ pageSize < s + PageAlign
            /\ \E k \in Nat : pageSize = k * PageAlign
        BY <3>1, Numbers, AlignSizeIs
      <3> QED
        BY <3>2
    <2>3. Aligned(pageSize)
      BY <2>2, PageAligned
    <2> HIDE DEF pageSize
    <2>4. Top + pageSize < Word
      BY <2>2, Numbers
    <2>5. /\ a \in Nat /\ a <= Top
          /\ \A q \in pages : a + pageSize <= q.addr \/ q.addr + q.size <= a
          /\ a + pageSize <= Top \/ (pages = {} /\ a = BaseAddress)
          /\ a = BaseAddress \/ \E q \in pages : q.addr <= a
      BY <2>1, <2>2, <2>4, NextAddress
    <2> DEFINE p == NewPage(a, pageSize)
    <2>6. PageOK(p) /\ p.addr = a /\ p.size = pageSize /\ p.used = {}
      <3>1. pageSize \in Nat \ {0} /\ a \in Nat /\ a <= Top /\ Top \in Nat /\ Word \in Nat
        BY <2>2, <2>5, Numbers
      <3>2. a + pageSize < Word
        BY <2>4, <3>1
      <3> QED
        BY <2>3, <3>1, <3>2, NewPageOK
    <2> HIDE DEF p
    <2>7. \A q \in pages : Beside(p, q) /\ Beside(q, p)
      BY <2>5, <2>6 DEF Beside
    <2>8. UsedIn(pages) \cup p.used = Used /\ o \in TakeFrom(pages, p, s)
      BY <2>1, <2>6 DEF UsedIn, Used, p
    <2>9. /\ o.addr \in Nat /\ PagesOK(o.pages)
          /\ n \notin Used /\ UsedIn(o.pages) = Used \cup {n}
          /\ a <= o.addr
          /\ \E q \in o.pages : o.pages \ {q} \subseteq pages /\ q.used = {n}
                                /\ q.addr = a /\ q.size = pageSize
      BY <2>6, <2>7, <2>8, TakePages
    <2>10. o.addr + s <= GlobalMemSize => a + pageSize <= Top
      <3>1. pageSize \in Nat /\ pageSize < s + PageAlign /\ a \in Nat /\ o.addr \in Nat /\ a <= o.addr
        BY <2>2, <2>5, <2>9
      <3>2. GlobalMemSize \in Nat /\ PageAlign \in Nat
        BY Numbers
      <3> QED
        BY <3>1, <3>2 DEF Top
    <2>11. Above(pages, BaseAddress) => BaseAddress <= a
      BY <2>5, PageNumbers, Numbers DEF Above
    <2> QED
      BY <2>9, <2>10, <2>11 DEF Taken
  <1> QED
    BY <1>1, <1>2

LEMMA ReserveTakes ==
    ASSUME AllocAssumption, PagesOK(pages), Settled, NEW a \in Nat,
           NEW s \in Nat \ {0}, Aligned(s), a + s < Word, NEW o \in Reserve(a, s),
           NEW lo \in Nat, lo <= a
    PROVE  Taken(o, s, lo) /\ o.addr = a /\ a + s <= Capacity
  <1> DEFINE p == NewPage(a, s)
             n == Block(o.addr, s)
  <1>1. (a + s) % Word = a + s
    BY Numbers, InWord, a + s \in Nat
  <1>2. a + s <= Capacity /\ ~HasPageOverlap(a, s) /\ o \in TakeFrom(pages, p, s)
    <2>1. ~((a + s) % Word > Capacity \/ HasPageOverlap(a, s))
      BY DEF Reserve
    <2>2. o \in TakeFrom(pages, p, s)
      BY <2>1 DEF Reserve
    <2> QED
      BY <1>1, <2>1, <2>2, Numbers
  <1>3. PageOK(p) /\ p.addr = a /\ p.size = s /\ p.used = {}
    BY NewPageOK
  <1> HIDE DEF p
  <1>4. ASSUME NEW q \in pages PROVE Beside(p, q) /\ Beside(q, p)
    <2>1. ~(a <= End(q) /\ a + s >= q.addr)
      BY <1>1, <1>2 DEF HasPageOverlap
    <2> QED
      BY <1>3, <2>1, EndIs DEF Beside
  <1>5. UsedIn(pages) \cup p.used = Used
    BY <1>3 DEF UsedIn, Used
  <1>6. /\ o.addr \in Nat /\ a <= o.addr /\ o.addr + s <= a + s /\ PagesOK(o.pages)
        /\ n \notin Used /\ UsedIn(o.pages) = Used \cup {n}
        /\ \E q \in o.pages : o.pages \ {q} \subseteq pages /\ q.used = {n}
                              /\ q.addr = a /\ q.size = s
    BY <1>2, <1>3, <1>4, <1>5, TakePages
  <1>7. o.addr = a
    BY <1>6
  <1>8. a + s <= Top
    BY <1>2, Numbers
  <1> QED
    BY <1>2, <1>6, <1>7, <1>8 DEF Taken

----------------------------------------------------------------------------
(* The calls of the runtime, and what each is of the abstract memory.      *)
(* What a call does to the counter: the same as to the blocks in use.      *)
CountStep(lo) ==
    /\ Above(pages, lo) => Above(pages', lo)
    /\ \/ Used' = Used /\ (allocated \in Nat => allocated' = allocated)
       \/ \E b \in Blocks \ Used :
             /\ Used' = Used \cup {b} /\ allocated' = allocated + b.size
             /\ b.size > 0 /\ b.addr + b.size <= GlobalMemSize
             /\ \A c \in Used : Beside(b, c)
       \/ \E b \in Used :
             /\ Used' = Used \ {b} /\ allocated' = allocated - b.size
             /\ \A c \in Used \ {b} : Beside(b, c)

LEMMA AllocInit == ASSUME Init PROVE AllocInv /\ Abstract!Init
  <1>1. pages = {} /\ held = {} /\ Used = {}
    BY DEF Init, Used
  <1>2. HandlesCounted
    BY <1>1, FS_EmptySet DEF HandlesCounted
  <1> QED
    BY <1>1, <1>2 DEF AllocInv, PagesOK, Settled, HandlesApart, Abstract!Init

LEMMA AcquireStep ==
    ASSUME AllocAssumption, AllocInv, NEW s \in Sizes, NEW size \in Nat \ {0}, s \in Nat, s <= size,
           NEW lo, NEW o, Taken(o, size, lo), MemAccess(o.addr, s) => o.addr + size <= GlobalMemSize,
           Acquire(o, o.addr, s, size)
    PROVE  AllocInv' /\ (Abstract!Acquire \/ Used' = Used) /\ CountStep(lo)
  <1> DEFINE n == Block(o.addr, size)
             h == Block(o.addr, s)
  <1>1. n.addr = o.addr /\ n.size = size /\ h.addr = o.addr /\ h.size = s /\ o.addr \in Nat
    BY BlockFacts DEF Taken
  <1>2. /\ PagesOK(o.pages) /\ n \notin Used /\ UsedIn(o.pages) = Used \cup {n}
    BY DEF Taken
  <1>3. PICK q \in o.pages :
          /\ o.pages \ {q} \subseteq pages
          /\ n \in q.used
          /\ \/ q.addr + q.size <= Top
             \/ q.used = {n} /\ (o.addr + size <= GlobalMemSize => q.addr + q.size <= Top)
          /\ Above(pages, lo) => lo <= q.addr
    BY DEF Taken
  <1>4. UsedIn(pages') = Used' /\ UsedIn(pages) = Used
    BY DEF UsedIn, Used
  <1>5. CASE MemAccess(o.addr, s)
    <2>1. pages' = o.pages /\ held' = held \cup {h}
      BY <1>5 DEF Acquire
    <2>2. Used' = Used \cup {n}
      BY <1>2, <1>4, <2>1
    <2>3. o.addr + size <= GlobalMemSize
      BY <1>5
    <2>4. Settled'
      <3>1. q.used # {} /\ q.addr + q.size <= Top
        BY <1>3, <2>3
      <3>2. \A r \in o.pages \ {q} : r.used # {} /\ r.addr + r.size <= Top
        BY <1>3 DEF AllocInv, Settled
      <3>3. \A r \in pages' : r.used # {} /\ r.addr + r.size <= Top
        BY <2>1, <3>1, <3>2
      <3> QED
        BY <3>3 DEF Settled, Top
    <2>5. ASSUME NEW b \in Used
          PROVE  Beside(n, b) /\ b.addr # o.addr
      <3>1. PICK r \in o.pages : b \in r.used
        BY <1>2 DEF UsedIn
      <3>2. Beside(n, b) /\ b.addr \in Nat /\ b.size \in Nat /\ b.size > 0
        BY <1>2, <1>3, <3>1, UsedFacts
      <3> QED
        BY <1>1, <3>2 DEF Beside
    <2>6. \A g \in held : g.addr # o.addr
      BY <2>5 DEF AllocInv, HandlesApart
    <2>7. HandlesApart'
      <3>1. \A g \in held' : g.addr \in Nat /\ \E b \in Used' : b.addr = g.addr /\ g.size <= b.size
        BY <1>1, <2>1, <2>2 DEF AllocInv, HandlesApart
      <3>2. \A b \in Used' : \E g \in held' : g.addr = b.addr
        BY <1>1, <2>1, <2>2 DEF AllocInv, HandlesApart
      <3>3. \A f, g \in held' : f.addr = g.addr => f = g
        BY <1>1, <2>1, <2>6 DEF AllocInv, HandlesApart
      <3> QED
        BY <3>1, <3>2, <3>3 DEF HandlesApart
    <2>8. HandlesCounted'
      <3>1. h \notin held
        BY <1>1, <2>6
      <3>2. /\ IsFiniteSet(held \cup {h}) /\ Cardinality(held \cup {h}) = Cardinality(held) + 1
            /\ IsFiniteSet(Used \cup {n}) /\ Cardinality(Used \cup {n}) = Cardinality(Used) + 1
        BY <1>2, <3>1, FS_AddElement DEF AllocInv, HandlesCounted
      <3>3. Cardinality(held) = Cardinality(Used)
        BY DEF AllocInv, HandlesCounted
      <3>4. IsFiniteSet(held') /\ IsFiniteSet(Used') /\ Cardinality(held') = Cardinality(Used')
        BY <2>1, <2>2, <3>2, <3>3
      <3> QED
        BY <3>4 DEF HandlesCounted
    <2>9. Abstract!Acquire
      <3>1. o.addr \in 0..GlobalMemSize /\ size \in 1..GlobalMemSize
        BY <1>1, <2>3, Numbers
      <3>2. n = [addr |-> o.addr, size |-> size]
        BY DEF Block
      <3>3. Abstract!InMemory(n)
        BY <1>1, <2>3 DEF Abstract!InMemory
      <3>4. \A c \in Used : Abstract!Apart(n, c)
        BY <2>5 DEF Abstract!Apart, Beside
      <3> HIDE DEF n
      <3> QED
        BY <2>2, <3>1, <3>2, <3>3, <3>4 DEF Abstract!Acquire
    <2>10. PagesOK(pages)'
      BY <1>2, <2>1 DEF PagesOK, PageOK, Tiling, Merged, Aligned, Beside, Covers, PageType, Blocks
    <2>11. CountStep(lo)
      <3>1. Above(pages, lo) => Above(pages', lo)
        BY <1>3, <2>1 DEF Above
      <3>2. n \in Blocks \ Used
        BY <1>1, <1>2 DEF Block, Blocks
      <3>3. allocated' = allocated + n.size
        BY <1>1, <1>5 DEF Acquire
      <3>4. n.size > 0 /\ n.addr + n.size <= GlobalMemSize /\ \A c \in Used : Beside(n, c)
        BY <1>1, <2>3, <2>5
      <3> HIDE DEF n
      <3> QED
        BY <2>2, <3>1, <3>2, <3>3, <3>4 DEF CountStep
    <2> QED
      BY <2>4, <2>7, <2>8, <2>9, <2>10, <2>11 DEF AllocInv
  <1>6. CASE ~MemAccess(o.addr, s)
    <2>1. pages' = Release(o.pages, n.addr) /\ held' = held
      BY <1>1, <1>6 DEF Acquire
    <2>2. /\ PagesOK(pages')
          /\ UsedIn(pages') = UsedIn(o.pages) \ {n}
          /\ \A r \in pages' : \/ r \in o.pages \ {q}
                               \/ r.used = q.used \ {n} /\ r.used # {} /\ r.addr = q.addr /\ r.size = q.size
      BY <1>2, <1>3, <2>1, ReleasePages
    <2>3. Used' = Used
      BY <1>2, <1>4, <2>2
    <2>4. ASSUME NEW r \in pages' PROVE r.used # {} /\ r.addr + r.size <= Top
      <3>1. CASE r \in o.pages \ {q}
        BY <1>3, <3>1 DEF AllocInv, Settled
      <3>2. CASE r.used = q.used \ {n} /\ r.used # {} /\ r.addr = q.addr /\ r.size = q.size
        BY <1>3, <3>2
      <3> QED
        BY <2>2, <3>1, <3>2
    <2>5. Settled'
      BY <2>4 DEF Settled, Top
    <2>6. HandlesApart' /\ HandlesCounted'
      BY <2>1, <2>3 DEF AllocInv, HandlesApart, HandlesCounted
    <2>7. PagesOK(pages)'
      BY <2>2 DEF PagesOK, PageOK, Tiling, Merged, Aligned, Beside, Covers, PageType, Blocks
    <2>8. CountStep(lo)
      <3>1. Above(pages, lo) => Above(pages', lo)
        BY <1>3, <2>2 DEF Above
      <3>2. UsedBlock(o.pages, n.addr) = n
        BY <1>2, <1>3, ReleasePages
      <3>3. allocated' = allocated + size - n.size
        BY <1>1, <1>6, <3>2 DEF Acquire
      <3>4. allocated \in Nat => allocated' = allocated
        BY <1>1, <3>3
      <3> QED
        BY <2>3, <3>1, <3>4 DEF CountStep
    <2> QED
      BY <2>3, <2>5, <2>6, <2>7, <2>8 DEF AllocInv
  <1> QED
    BY <1>5, <1>6

LEMMA FreeStep ==
    ASSUME AllocAssumption, AllocInv, NEW h \in held, MemFree(h)
    PROVE  AllocInv' /\ Abstract!Release /\ \A lo : CountStep(lo)
  <1>1. PICK b \in Used : b.addr = h.addr
    BY DEF AllocInv, HandlesApart
  <1>2. PICK p \in pages : b \in p.used
    BY DEF Used
  <1>3. PagesOK(pages)
    BY DEF AllocInv
  <1>4. pages' = Release(pages, b.addr) /\ held' = held \ {h}
    BY <1>1 DEF MemFree
  <1>5. UsedIn(pages') = Used' /\ UsedIn(pages) = Used
    BY DEF UsedIn, Used
  <1>6. /\ PagesOK(pages')
        /\ UsedIn(pages') = UsedIn(pages) \ {b}
        /\ \A r \in pages' : \/ r \in pages \ {p}
                             \/ r.used = p.used \ {b} /\ r.used # {} /\ r.addr = p.addr /\ r.size = p.size
    BY <1>2, <1>3, <1>4, ReleasePages
  <1>7. Used' = Used \ {b}
    BY <1>5, <1>6
  <1>8. Settled'
    <2>1. \A r \in pages' : r.used # {} /\ r.addr + r.size <= Top
      BY <1>2, <1>6 DEF AllocInv, Settled
    <2> QED
      BY <2>1 DEF Settled, Top
  <1>9. ASSUME NEW c \in Used, c # b PROVE c.addr # b.addr
    <2>1. PICK r \in pages : c \in r.used
      BY DEF Used
    <2>2. Beside(b, c) /\ b.addr \in Nat /\ b.size \in Nat /\ b.size > 0
      BY <1>2, <1>3, <1>9, <2>1, UsedFacts
    <2>3. c.addr \in Nat /\ c.size \in Nat /\ c.size > 0
      BY <1>3, <2>1, UsedFacts
    <2> QED
      BY <2>2, <2>3 DEF Beside
  <1>10. HandlesApart'
    <2>1. \A g \in held' : g.addr \in Nat /\ \E c \in Used' : c.addr = g.addr /\ g.size <= c.size
      BY <1>1, <1>4, <1>7 DEF AllocInv, HandlesApart
    <2>2. \A c \in Used' : \E g \in held' : g.addr = c.addr
      BY <1>1, <1>4, <1>7, <1>9 DEF AllocInv, HandlesApart
    <2>3. \A f, g \in held' : f.addr = g.addr => f = g
      BY <1>4 DEF AllocInv, HandlesApart
    <2> QED
      BY <2>1, <2>2, <2>3 DEF HandlesApart
  <1>11. HandlesCounted'
    <2>1. /\ IsFiniteSet(held \ {h}) /\ Cardinality(held \ {h}) = Cardinality(held) - 1
          /\ IsFiniteSet(Used \ {b}) /\ Cardinality(Used \ {b}) = Cardinality(Used) - 1
      BY FS_RemoveElement DEF AllocInv, HandlesCounted
    <2>2. Cardinality(held) = Cardinality(Used)
      BY DEF AllocInv, HandlesCounted
    <2>3. IsFiniteSet(held') /\ IsFiniteSet(Used') /\ Cardinality(held') = Cardinality(Used')
      BY <1>4, <1>7, <2>1, <2>2
    <2> QED
      BY <2>3 DEF HandlesCounted
  <1>12. Abstract!Release
    BY <1>7 DEF Abstract!Release
  <1>13. PagesOK(pages)'
    BY <1>6 DEF PagesOK, PageOK, Tiling, Merged, Aligned, Beside, Covers, PageType, Blocks
  <1>14. ASSUME NEW lo PROVE CountStep(lo)
    <2>1. Above(pages, lo) => Above(pages', lo)
      BY <1>2, <1>6 DEF Above
    <2>2. allocated' = allocated - b.size
      BY <1>1, <1>2, <1>3, ReleasePages DEF MemFree
    <2>3. ASSUME NEW c \in Used \ {b} PROVE Beside(b, c)
      <3>1. PICK r \in pages : c \in r.used
        BY DEF Used
      <3> QED
        BY <1>2, <1>3, <3>1, UsedFacts
    <2> QED
      BY <1>7, <2>1, <2>2, <2>3 DEF CountStep
  <1> QED
    BY <1>8, <1>10, <1>11, <1>12, <1>13, <1>14 DEF AllocInv

LEMMA AllocStep ==
    ASSUME AllocAssumption, NoWrap, AllocInv, NEW s \in Sizes, MemAlloc(s)
    PROVE  AllocInv' /\ (Abstract!Acquire \/ Used' = Used) /\ CountStep(BaseAddress)
  <1> DEFINE size == AlignSize(s, BlockAlign)
  <1>1. PICK o \in Allocate(size) : Acquire(o, o.addr, s, size)
    BY DEF MemAlloc
  <1>2. s \in Nat /\ size \in Nat \ {0} /\ Aligned(size) /\ s <= size /\ Top + size + PageAlign < Word
    BY SizesRounded
  <1>3. MemAccess(o.addr, s) <=> (o.addr + size) % Word <= GlobalMemSize
    BY DEF MemAccess
  <1> HIDE DEF size
  <1>4. Taken(o, size, BaseAddress)
    BY <1>1, <1>2, AllocateTakes DEF AllocInv
  <1>5. o.addr \in Nat /\ o.addr + size < Word
    <2> DEFINE n == Block(o.addr, size)
    <2>1. n.addr = o.addr /\ n.size = size /\ o.addr \in Nat
      BY <1>2, <1>4, BlockFacts DEF Taken
    <2> HIDE DEF n
    <2>2. PICK q \in o.pages : n \in q.used /\ PagesOK(o.pages)
      BY <1>4 DEF Taken, n
    <2>3. n.addr + n.size <= q.addr + q.size /\ q.addr + q.size < Word /\ q.addr \in Nat /\ q.size \in Nat
      BY <2>2, UsedFacts, PageNumbers
    <2> QED
      BY <1>2, <2>1, <2>3, Numbers
  <1>6. MemAccess(o.addr, s) => o.addr + size <= GlobalMemSize
    <2>1. (o.addr + size) % Word = o.addr + size
      BY <1>2, <1>5, Numbers, InWord, o.addr + size \in Nat
    <2> QED
      BY <1>3, <2>1
  <1> QED
    BY <1>1, <1>2, <1>4, <1>6, AcquireStep

LEMMA ReserveStep ==
    ASSUME AllocAssumption, NoWrap, AllocInv, NEW a \in Addrs, NEW s \in Sizes, MemReserve(a, s),
           NEW lo \in Nat, lo <= a
    PROVE  AllocInv' /\ (Abstract!Acquire \/ Used' = Used) /\ CountStep(lo)
  <1> DEFINE size == AlignSize(s, PageAlign)
  <1>1. PICK o \in Reserve(a, size) : Acquire(o, a, s, size)
    BY DEF MemReserve
  <1>2. s \in Nat /\ size \in Nat \ {0} /\ Aligned(size) /\ s <= size /\ size < s + PageAlign
    BY SizesRounded
  <1>3. a \in Nat
    BY DEF AllocAssumption
  <1> HIDE DEF size
  <1>4. a + size < Word
    <2>1. a + s + PageAlign < Word
      BY DEF NoWrap
    <2> QED
      BY <1>2, <1>3, <2>1, Numbers
  <1>5. Taken(o, size, lo) /\ o.addr = a /\ a + size <= Capacity
    BY <1>1, <1>2, <1>3, <1>4, ReserveTakes DEF AllocInv
  <1>6. o.addr + size <= GlobalMemSize
    BY <1>2, <1>3, <1>5, Numbers
  <1> QED
    BY <1>1, <1>2, <1>5, <1>6, AcquireStep

LEMMA AllocNext ==
    ASSUME AllocAssumption, NoWrap, AllocInv, [Next]_vars
    PROVE  AllocInv' /\ [Abstract!Next]_Used
  <1>1. ASSUME NEW s \in Sizes, MemAlloc(s) PROVE AllocInv' /\ [Abstract!Next]_Used
    BY <1>1, AllocStep DEF Abstract!Next
  <1>2. ASSUME NEW a \in Addrs, NEW s \in Sizes, MemReserve(a, s) PROVE AllocInv' /\ [Abstract!Next]_Used
    <2>1. a \in Nat /\ a <= a
      BY DEF AllocAssumption
    <2> QED
      BY <1>2, <2>1, ReserveStep DEF Abstract!Next
  <1>3. ASSUME NEW h \in held, MemFree(h) PROVE AllocInv' /\ [Abstract!Next]_Used
    BY <1>3, FreeStep DEF Abstract!Next
  <1>4. CASE UNCHANGED vars
    <2>1. pages' = pages /\ held' = held /\ Used' = Used
      BY <1>4 DEF vars, Used
    <2>2. PagesOK(pages)' /\ Settled'
      BY <2>1 DEF AllocInv, Settled, PagesOK
    <2>3. HandlesApart' /\ HandlesCounted'
      BY <2>1 DEF AllocInv, HandlesApart, HandlesCounted
    <2> QED
      BY <2>1, <2>2, <2>3 DEF AllocInv
  <1> QED
    BY <1>1, <1>2, <1>3, <1>4 DEF Next

(* The inductive invariant, over every sequence of the runtime's calls on  *)
(* buffers, the ones that mem_access makes it roll back included.          *)
THEOREM AllocInvariant == ASSUME NoWrap PROVE Spec => []AllocInv
  <1>1. Init => AllocInv
    BY AllocInit
  <1>2. AllocInv /\ [Next]_vars => AllocInv'
    BY AllocNext, AllocAssumption
  <1> QED
    BY <1>1, <1>2, PTL DEF Spec

(* Splitting and merging never loses, overlaps or misfiles a byte of a     *)
(* page, and findNextAddress and hasPageOverlap keep the pages apart,      *)
(* whatever the sizes of memory, pages and blocks.                         *)
THEOREM PagesTiled == ASSUME NoWrap PROVE Spec => []BlocksTilePages
  <1>1. ASSUME AllocInv PROVE BlocksTilePages
    <2> SUFFICES ASSUME NEW p \in pages
                 PROVE  /\ \A q \in pages \ {p} : Beside(p, q)
                        /\ \A b \in p.used \cup p.free : b.size > 0 /\ p.addr <= b.addr
                                                         /\ b.addr + b.size <= p.addr + p.size
                        /\ \A b, c \in p.used \cup p.free : b # c => Beside(b, c)
                        /\ p.used \cap p.free = {}
                        /\ \A x \in p.addr..(p.addr + p.size - 1) :
                             \E b \in p.used \cup p.free : Covers(b, x)
      BY Zenon DEF BlocksTilePages, Beside, Covers
    <2>1. PageOK(p) /\ \A q \in pages \ {p} : Beside(p, q)
      BY <1>1 DEF AllocInv, PagesOK
    <2>2. Tiling(p.used \cup p.free, p.addr, p.addr + p.size) /\ p.used \cap p.free = {}
      BY <2>1 DEF PageOK
    <2>3. /\ \A b \in p.used \cup p.free : b.size > 0 /\ p.addr <= b.addr
                                            /\ b.addr + b.size <= p.addr + p.size
          /\ \A b, c \in p.used \cup p.free : b # c => Beside(b, c)
      BY <2>2 DEF Tiling
    <2>4. \A x \in p.addr..(p.addr + p.size - 1) : \E b \in p.used \cup p.free : Covers(b, x)
      <3> DEFINE bs == p.used \cup p.free
                 hi == p.addr + p.size
      <3>1. Tiling(bs, p.addr, hi)
        BY <2>2
      <3> HIDE DEF bs, hi
      <3>2. \A x \in p.addr..(hi - 1) : \E b \in bs : Covers(b, x)
        BY <3>1, Zenon DEF Tiling
      <3>3. hi - 1 = p.addr + p.size - 1
        BY <1>1, PageNumbers DEF AllocInv, hi
      <3> QED
        BY <3>2, <3>3 DEF bs
    <2> QED
      BY <2>1, <2>2, <2>3, <2>4
  <1> QED
    BY <1>1, AllocInvariant, PTL

(* page_t::release leaves no two free blocks side by side, and the page    *)
(* goes with its last used block: the assertions of ~page_t.               *)
THEOREM NeighboursMerged == ASSUME NoWrap PROVE Spec => []FreeBlocksMerged
  <1>1. AllocInv => FreeBlocksMerged
    BY DEF AllocInv, PagesOK, PageOK, Settled, Merged, FreeBlocksMerged
  <1> QED
    BY <1>1, AllocInvariant, PTL

(* Every buffer handle has its block, which vx_mem_free finds, and every   *)
(* block in use has its handle: no call leaks one, rolled back or not.     *)
THEOREM HandlesMatchBlocks == ASSUME NoWrap PROVE Spec => []HandlesOwnBlocks
  <1>1. AllocInv => HandlesOwnBlocks
    BY DEF AllocInv, HandlesApart, HandlesCounted, HandlesOwnBlocks
  <1> QED
    BY <1>1, AllocInvariant, PTL

----------------------------------------------------------------------------
(* Programs that reserve no memory below ALLOC_BASE_ADDR.  reserve lets    *)
(* them, but capacity_ does not count that memory.                         *)
ReservesAbove == \A a \in Addrs : BaseAddress <= a

(* The counter is the number of bytes in use, and all of them are among    *)
(* the Capacity bytes behind the base address.                             *)
CountInv ==
    /\ AllocInv
    /\ Above(pages, BaseAddress)
    /\ \A b \in Used : b.addr + b.size <= GlobalMemSize
    /\ AllocatedIsUsed

BytesOf(b) == b.addr..(b.addr + b.size - 1)

LEMMA IntervalCounted ==
    ASSUME NEW a \in Int, NEW n \in Nat
    PROVE  IsFiniteSet(a..(a + n - 1)) /\ Cardinality(a..(a + n - 1)) = n
  <1> DEFINE z == a + n - 1
  <1>1. z \in Int
    OBVIOUS
  <1>2. z - a + 1 = n /\ (a > z <=> n = 0)
    OBVIOUS
  <1> HIDE DEF z
  <1>3. IsFiniteSet(a..z) /\ Cardinality(a..z) = IF a > z THEN 0 ELSE z - a + 1
    BY <1>1, FS_Interval
  <1> QED
    BY <1>2, <1>3 DEF z

LEMMA BytesCounted ==
    ASSUME NEW b \in Blocks
    PROVE  IsFiniteSet(BytesOf(b)) /\ Cardinality(BytesOf(b)) = b.size
  <1>1. b.addr \in Int /\ b.size \in Nat
    BY DEF Blocks
  <1> QED
    BY <1>1, IntervalCounted DEF BytesOf

(* Blocks beside one another share no byte.                                *)
LEMMA BytesApart ==
    ASSUME NEW b \in Blocks, NEW c \in Blocks, Beside(b, c)
    PROVE  BytesOf(b) \cap BytesOf(c) = {}
  BY DEF BytesOf, Beside, Blocks

(* The bytes in use lie in memory, behind the base address.                *)
LEMMA BytesInMemory ==
    ASSUME AllocAssumption, PagesOK(pages), Above(pages, BaseAddress),
           \A b \in Used : b.addr + b.size <= GlobalMemSize
    PROVE  /\ Used \subseteq Blocks
           /\ UsedBytes \subseteq BaseAddress..(GlobalMemSize - 1)
           /\ IsFiniteSet(UsedBytes) /\ Cardinality(UsedBytes) \in Nat
           /\ Cardinality(UsedBytes) <= Capacity
  <1> DEFINE memory == BaseAddress..(GlobalMemSize - 1)
  <1>1. ASSUME NEW b \in Used
        PROVE  b \in Blocks /\ BaseAddress <= b.addr /\ b.addr + b.size <= GlobalMemSize
    <2>1. PICK p \in pages : b \in p.used
      BY DEF Used
    <2>2. b \in Blocks /\ b.addr \in Nat /\ p.addr <= b.addr /\ p.addr \in Nat
      BY <2>1, UsedFacts, PageNumbers
    <2>3. BaseAddress <= p.addr
      BY DEF Above
    <2> QED
      BY <2>2, <2>3, Numbers
  <1>2. UsedBytes \subseteq memory
    <2> SUFFICES ASSUME NEW x \in UsedBytes PROVE x \in memory
      OBVIOUS
    <2>1. PICK b \in Used : x \in b.addr..(b.addr + b.size - 1)
      BY DEF UsedBytes
    <2>2. b.addr \in Nat /\ b.size \in Nat /\ BaseAddress <= b.addr /\ b.addr + b.size <= GlobalMemSize
      BY <1>1 DEF Blocks
    <2> QED
      BY <2>1, <2>2, Numbers
  <1>3. IsFiniteSet(memory) /\ Cardinality(memory) = Capacity
    <2>1. BaseAddress \in Int /\ Capacity \in Nat /\ GlobalMemSize - 1 = BaseAddress + Capacity - 1
      BY Numbers DEF GlobalMemSize
    <2> QED
      BY <2>1, IntervalCounted
  <1>4. IsFiniteSet(UsedBytes) /\ Cardinality(UsedBytes) <= Cardinality(memory)
    BY <1>2, <1>3, FS_Subset
  <1>5. Cardinality(UsedBytes) \in Nat
    BY <1>4, FS_CardinalityType
  <1> QED
    BY <1>1, <1>2, <1>3, <1>4, <1>5

(* A block more, or a block less, beside the others.                       *)
LEMMA BytesAdded ==
    ASSUME NEW bs \in SUBSET Blocks, NEW b \in Blocks, b.size > 0, \A c \in bs : Beside(b, c),
           IsFiniteSet(UNION {BytesOf(c) : c \in bs})
    PROVE  Cardinality(UNION {BytesOf(c) : c \in bs \cup {b}})
             = Cardinality(UNION {BytesOf(c) : c \in bs}) + b.size
  <1> DEFINE s == UNION {BytesOf(c) : c \in bs}
             t == UNION {BytesOf(c) : c \in bs \cup {b}}
  <1>0. IsFiniteSet(s)
    OBVIOUS
  <1>1. t = s \cup BytesOf(b)
    OBVIOUS
  <1>2. s \cap BytesOf(b) = {}
    <2> SUFFICES ASSUME NEW x, x \in s, x \in BytesOf(b) PROVE FALSE
      OBVIOUS
    <2>1. PICK c \in bs : x \in BytesOf(c)
      OBVIOUS
    <2> QED
      BY <2>1, BytesApart
  <1> HIDE DEF s, t
  <1>3. IsFiniteSet(BytesOf(b)) /\ Cardinality(BytesOf(b)) = b.size
    BY BytesCounted
  <1>4. /\ IsFiniteSet(s \cup BytesOf(b))
        /\ Cardinality(s \cup BytesOf(b)) = Cardinality(s) + Cardinality(BytesOf(b))
                                             - Cardinality(s \cap BytesOf(b))
    BY <1>0, <1>3, FS_Union
  <1>5. Cardinality(s \cap BytesOf(b)) = 0 /\ Cardinality(s) \in Nat
    BY <1>0, <1>2, FS_EmptySet, FS_CardinalityType
  <1>6. b.size \in Nat
    BY DEF Blocks
  <1>7. Cardinality(s \cup BytesOf(b)) = Cardinality(s) + b.size
    BY <1>3, <1>4, <1>5, <1>6
  <1> QED
    BY <1>1, <1>7 DEF s, t

LEMMA CountNext ==
    ASSUME AllocAssumption, CountInv, AllocInv', CountStep(BaseAddress)
    PROVE  CountInv'
  <1> DEFINE old == UNION {BytesOf(c) : c \in Used}
             new == UNION {BytesOf(c) : c \in Used'}
  <1>1. PagesOK(pages) /\ PagesOK(pages)' /\ Above(pages, BaseAddress)
    BY DEF CountInv, AllocInv
  <1>2. UsedBytes = old /\ UsedBytes' = new
    BY DEF UsedBytes, BytesOf
  <1>3. /\ Used \subseteq Blocks /\ IsFiniteSet(old) /\ Cardinality(old) \in Nat
        /\ allocated = Cardinality(old)
    BY <1>1, <1>2, BytesInMemory DEF CountInv, AllocatedIsUsed
  <1>4. Above(pages, BaseAddress)'
    BY <1>1 DEF CountStep, Above
  <1>5. CASE Used' = Used /\ (allocated \in Nat => allocated' = allocated)
    BY <1>2, <1>3, <1>4, <1>5 DEF CountInv, AllocatedIsUsed, GlobalMemSize
  <1>6. ASSUME NEW b \in Blocks \ Used,
               Used' = Used \cup {b}, allocated' = allocated + b.size,
               b.size > 0, b.addr + b.size <= GlobalMemSize, \A c \in Used : Beside(b, c)
        PROVE  CountInv'
    <2>1. Cardinality(new) = Cardinality(old) + b.size
      BY <1>3, <1>6, BytesAdded
    <2>2. \A c \in Used' : c.addr + c.size <= GlobalMemSize
      BY <1>6 DEF CountInv
    <2> QED
      BY <1>2, <1>3, <1>4, <1>6, <2>1, <2>2 DEF CountInv, AllocatedIsUsed, GlobalMemSize
  <1>7. ASSUME NEW b \in Used,
               Used' = Used \ {b}, allocated' = allocated - b.size, \A c \in Used \ {b} : Beside(b, c)
        PROVE  CountInv'
    <2>1. b \in Blocks /\ b.size > 0 /\ b.size \in Nat
      <3>1. PICK p \in pages : b \in p.used
        BY DEF Used
      <3> QED
        BY <1>1, <3>1, UsedFacts
    <2>2. Used = Used' \cup {b} /\ Used' \subseteq Blocks /\ \A c \in Used' : Beside(b, c)
      BY <1>3, <1>7
    <2>3. IsFiniteSet(new) /\ Cardinality(new) \in Nat
      <3>1. new \subseteq old
        BY <1>7
      <3> QED
        BY <1>3, <3>1, FS_Subset, FS_CardinalityType
    <2>4. Cardinality(old) = Cardinality(new) + b.size
      <3> DEFINE us == Used'
      <3>1. us \in SUBSET Blocks /\ \A c \in us : Beside(b, c)
        BY <2>2
      <3>2. old = UNION {BytesOf(c) : c \in us \cup {b}} /\ new = UNION {BytesOf(c) : c \in us}
        BY <2>2
      <3> HIDE DEF us
      <3> QED
        BY <2>1, <2>3, <3>1, <3>2, BytesAdded DEF us
    <2>5. \A c \in Used' : c.addr + c.size <= GlobalMemSize
      BY <1>7 DEF CountInv
    <2>6. allocated' = Cardinality(new)
      BY <1>3, <1>7, <2>1, <2>3, <2>4
    <2> QED
      BY <1>2, <1>4, <2>5, <2>6 DEF CountInv, AllocatedIsUsed, GlobalMemSize
  <1> QED
    BY <1>5, <1>6, <1>7 DEF CountStep

(* What the runtime keeps agrees with the blocks of the allocator: the     *)
(* counter that mem_info reports is the number of bytes in use and never   *)
(* exceeds the capacity, and handles and blocks correspond, after any      *)
(* sequence of calls, the ones that are rolled back included.              *)
THEOREM RuntimeCounts == ASSUME NoWrap, ReservesAbove PROVE Spec => []RuntimeAgrees
  <1>1. Init => CountInv
    <2> SUFFICES ASSUME Init PROVE CountInv
      OBVIOUS
    <2>1. AllocInv
      BY AllocInit
    <2>2. pages = {} /\ Used = {} /\ UsedBytes = {} /\ allocated = 0
      BY DEF Init, Used, UsedBytes
    <2> QED
      BY <2>1, <2>2, FS_EmptySet DEF CountInv, Above, AllocatedIsUsed
  <1>2. CountInv /\ [Next]_vars => CountInv'
    <2> SUFFICES ASSUME CountInv, [Next]_vars PROVE CountInv'
      OBVIOUS
    <2>1. AllocInv /\ AllocInv' /\ AllocAssumption
      BY AllocNext, AllocAssumption DEF CountInv
    <2>2. CASE UNCHANGED vars
      BY <2>1, <2>2 DEF vars, CountInv, Above, AllocatedIsUsed, UsedBytes, Used, GlobalMemSize
    <2>3. CASE \E s \in Sizes : MemAlloc(s)
      BY <2>1, <2>3, AllocStep, CountNext
    <2>4. ASSUME NEW a \in Addrs, NEW s \in Sizes, MemReserve(a, s) PROVE CountInv'
      <3>1. BaseAddress \in Nat /\ BaseAddress <= a
        BY <2>1, Numbers DEF ReservesAbove
      <3>2. CountStep(BaseAddress)
        BY <2>1, <2>4, <3>1, ReserveStep
      <3> QED
        BY <2>1, <3>2, CountNext
    <2>5. CASE \E h \in held : MemFree(h)
      BY <2>1, <2>5, FreeStep, CountNext
    <2> QED
      BY <2>2, <2>3, <2>4, <2>5 DEF Next
  <1>3. CountInv => RuntimeAgrees
    <2> SUFFICES ASSUME CountInv PROVE RuntimeAgrees
      OBVIOUS
    <2>1. allocated <= Capacity
      BY AllocAssumption, BytesInMemory DEF CountInv, AllocInv, AllocatedIsUsed
    <2>2. HandlesOwnBlocks
      BY DEF CountInv, AllocInv, HandlesApart, HandlesCounted, HandlesOwnBlocks
    <2> QED
      BY <2>1, <2>2 DEF CountInv, RuntimeAgrees, FreeNotNegative
  <1> QED
    BY <1>1, <1>2, <1>3, PTL DEF Spec

(* The allocator under vx_mem_alloc, vx_mem_reserve and vx_mem_free        *)
(* implements the abstract device memory: a call takes a range of the      *)
(* memory beside all others, gives one back, or changes nothing.           *)
THEOREM AllocatorRefines == ASSUME NoWrap PROVE Spec => ImplementsDeviceMemory
  <1>1. Init => Abstract!Init
    BY AllocInit
  <1>2. AllocInv /\ [Next]_vars => [Abstract!Next]_Used
    BY AllocNext, AllocAssumption
  <1> QED
    BY <1>1, <1>2, AllocInvariant, PTL DEF Spec, ImplementsDeviceMemory, Abstract!Spec
=============================================================================
