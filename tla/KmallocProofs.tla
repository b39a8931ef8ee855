---------------------------- MODULE KmallocProofs ----------------------------
(***************************************************************************)
(* Proofs about the kernel heap for every number and size of pages: the    *)
(* blocks make up exactly the pages of the heap, the list of free blocks   *)
(* is a ring in order of address, every block is as large as it was asked  *)
(* for, and one page is always enough to go on.                            *)
(***************************************************************************)
EXTENDS Kmalloc, FiniteSetTheorems, SequenceTheorems, WellFoundedInduction, TLAPS

-----------------------------------------------------------------------------
\* The list leads through S in order of address, and from its end to the arena.
IsRing(nx, S) ==
    /\ arena \in S
    /\ \A b \in S : /\ nx[b] \in S
                    /\ nx[b] = arena => \A c \in S : c <= b
                    /\ nx[b] # arena => b < nx[b] /\ \A c \in S : c <= b \/ nx[b] <= c

\* No free block touches the next one.
United(nx, un, S) == \A b \in S \ {arena} : nx[b] = arena \/ b + un[b] < nx[b]

\* The blocks B are apart and make up H.
Tiles(un, B, H) ==
    /\ \A b \in B : b \in 0 .. Top - 1 /\ un[b] \in 1 .. Top - b
    /\ \A b, c \in B : b < c => b + un[b] <= c
    /\ \A a \in 0 .. Top - 1 : a \in H <=> \E b \in B : b <= a /\ a < b + un[b]

\* The block that the call in progress has in hand.
Transit == {call.b} \ {NULL}
Blocks == Free \cup InUse \cup Transit

Wanted(size) == SLOB_UNITS(IF IsSmall(size) THEN size + SLOB_UNIT ELSE BigblockSize)

Typed ==
    /\ TypeOK
    /\ held \in SUBSET [at : 0 .. Top, size : Sizes]
    /\ bigblocks \in Seq([bb : Addr, pages : Page, order : 0 .. MaxOrder])
    /\ call \in [size : Sizes \cup {0}, want : Nat, prev : Addr \cup {NULL},
                 cur : Addr \cup {NULL}, b : Addr \cup {NULL},
                 then : {"idle", "alloc"}, grown : 0 .. 1]

Listed == /\ IsRing(next, Ring) /\ United(next, units, Ring)
          /\ slobfree \in Ring /\ units[arena] = 1

Tiled == Tiles(units, Blocks, HeapUnits)

\* Two records are in different blocks and about different pages.
Distinct(s) ==
    \A j, k \in DOMAIN s :
        j # k => s[j].bb # s[k].bb /\ Pages(s[j]) \cap Pages(s[k]) = {}

Recorded ==
    /\ Distinct(bigblocks)
    /\ \A r \in Records :
          /\ units[r.bb] = SLOB_UNITS(BigblockSize) /\ r.bb \notin Ring \cup Transit
          /\ Pages(r) \subseteq used

\* A large block of a caller is known by the record r.
Knows(r, h) == h.at = r.pages * PageUnits /\ r.order = find_order(h.size)

Owned ==
    /\ \A h, g \in held : h.at = g.at => h = g
    /\ \A h \in Small :
          /\ units[h.at - 1] = SLOB_UNITS(h.size + SLOB_UNIT)
          /\ h.at - 1 \notin Ring \cup Transit
          /\ \A r \in Records : h.at - 1 # r.bb
    /\ \A h \in held \ Small : \E r \in Records : Knows(r, h)

\* The block d lies behind s and not behind p, on the way round from s.
Between(s, d, p) == \/ s < d /\ d <= p
                    \/ p < s /\ (s < d \/ d <= p)

Asked == /\ call.size \in Sizes /\ call.want = Wanted(call.size)
         /\ call.want \in 2 .. PageUnits

Searching ==
    pc = "alloc" =>
        /\ Asked /\ call.b = NULL /\ call.then = "idle"
        /\ call.prev \in Ring /\ call.cur = next[call.prev]
        /\ \A d \in Ring : Between(slobfree, d, call.prev) => units[d] < call.want
        /\ call.grown = 1 => \E d \in Ring : units[d] >= call.want

Freeing ==
    pc = "free" =>
        /\ call.b \in Addr \ Ring /\ call.cur \in Ring
        /\ call.then = "alloc" =>
              Asked /\ call.grown = 1 /\ units[call.b] >= call.want

Recording ==
    pc = "big" => /\ Asked /\ ~IsSmall(call.size)
                  /\ call.b \in Addr \ Ring /\ units[call.b] = SLOB_UNITS(BigblockSize)

Waiting ==
    /\ pc = "idle" => call = NoCall
    /\ pc = "panic" =>
          /\ call.b = NULL
          /\ call.size \in PAGE_SIZE - 2 * SLOB_UNIT .. PAGE_SIZE - SLOB_UNIT - 1

HeapInv == Typed /\ Listed /\ Tiled /\ Recorded /\ Owned
           /\ Searching /\ Freeing /\ Recording /\ Waiting

-----------------------------------------------------------------------------
\* What the constants are.
LEMMA Constants ==
    /\ NPage \in Nat \ {0} /\ PAGE_SIZE \in Nat \ {0} /\ SLOB_UNIT \in Nat \ {0}
    /\ BigblockSize \in Nat \ {0} /\ PageUnits \in Nat \ {0} /\ Top \in Nat
    /\ SLOB_UNIT < BigblockSize /\ BigblockSize + SLOB_UNIT < PAGE_SIZE
    /\ NULL \notin Int /\ \A n \in Sizes : n \in Nat \ {0}
<1>1. /\ NPage \in Nat \ {0} /\ PAGE_SIZE \in Nat \ {0} /\ SLOB_UNIT \in Nat \ {0}
      /\ BigblockSize \in Nat \ {0} /\ PAGE_SIZE % SLOB_UNIT = 0
      /\ SLOB_UNIT < BigblockSize /\ BigblockSize + SLOB_UNIT < PAGE_SIZE
  BY KmallocAssumption
<1>2. ASSUME NEW d \in Nat \ {0}, NEW x \in Nat, x >= d PROVE x \div d \in Nat \ {0}
  BY <1>2
<1>3. PAGE_SIZE >= SLOB_UNIT /\ PAGE_SIZE \in Nat
  BY <1>1
<1>4. PageUnits \in Nat \ {0}
  BY <1>1, <1>2, <1>3 DEF PageUnits
<1>5. ASSUME NEW x \in Nat, NEW y \in Nat PROVE x * y \in Nat
  OBVIOUS
<1>6. Top \in Nat
  BY <1>1, <1>4, <1>5 DEF Top
<1> QED BY <1>1, <1>4, <1>6, KmallocAssumption

\* SLOB_UNITS() rounds up: what it returns is enough, and at most a page where
\* slob_alloc() does not refuse.
LEMMA Rounding ==
    /\ SLOB_UNITS(PAGE_SIZE) = PageUnits
    /\ \A bytes \in Nat :
          /\ SLOB_UNITS(bytes) \in Nat /\ SLOB_UNITS(bytes) * SLOB_UNIT >= bytes
          /\ bytes > SLOB_UNIT => SLOB_UNITS(bytes) >= 2
          /\ bytes + SLOB_UNIT < PAGE_SIZE => SLOB_UNITS(bytes) <= PageUnits
<1>1. PICK d \in Nat \ {0} : d = SLOB_UNIT
  BY Constants
<1>2. PICK s \in Nat \ {0} : s = PAGE_SIZE
  BY Constants
<1>3. s % d = 0
  BY <1>1, <1>2, KmallocAssumption
<1>4. (s + d - 1) \div d = s \div d
  BY <1>3
<1>5. ASSUME NEW x \in Nat
      PROVE  /\ (x + d - 1) \div d \in Nat /\ ((x + d - 1) \div d) * d >= x
             /\ x > d => (x + d - 1) \div d >= 2
             /\ x + d < s => (x + d - 1) \div d <= s \div d
  <2>1. (x + d - 1) \div d \in Nat
    OBVIOUS
  <2>2. ((x + d - 1) \div d) * d >= x
    OBVIOUS
  <2>3. x > d => (x + d - 1) \div d >= 2
    OBVIOUS
  <2>4. ASSUME NEW u \in Nat, NEW v \in Nat, u <= v PROVE u \div d <= v \div d
    BY <2>4
  <2>5. x + d < s => (x + d - 1) \div d <= s \div d
    <3>1. x + d - 1 \in Nat /\ s \in Nat /\ (x + d < s => x + d - 1 <= s)
      OBVIOUS
    <3> QED BY <2>4, <3>1
  <2> QED BY <2>1, <2>2, <2>3, <2>5
<1> QED BY <1>1, <1>2, <1>4, <1>5 DEF SLOB_UNITS, PageUnits

\* The units of a page.
LEMMA UnitsOfPage ==
    ASSUME NEW p \in Page
    PROVE  /\ p * PageUnits \in Nat /\ p * PageUnits + PageUnits <= Top
           /\ (p * PageUnits) \div PageUnits = p /\ (p * PageUnits) % PageUnits = 0
           /\ \A a \in Nat : a \div PageUnits = p
                                <=> p * PageUnits <= a /\ a < p * PageUnits + PageUnits
<1>1. PICK d \in Nat \ {0} : d = PageUnits
  BY Constants
<1>2. PICK n \in Nat : n = NPage
  BY Constants
<1>3. p \in Nat /\ p < n
  BY <1>2 DEF Page
<1>4. p * d \in Nat /\ p * d + d <= n * d
  BY <1>3
<1>5. (p * d) \div d = p /\ (p * d) % d = 0
  BY <1>3
<1>6. ASSUME NEW a \in Nat PROVE a \div d = p <=> p * d <= a /\ a < p * d + d
  BY <1>3
<1> QED BY <1>1, <1>2, <1>4, <1>5, <1>6 DEF Top

\* What a caller may use of a small block is at least what it asked for.
LEMMA SmallRoom ==
    ASSUME NEW n \in Nat, NEW u \in Nat, u = SLOB_UNITS(n + SLOB_UNIT)
    PROVE  (u - 1) * SLOB_UNIT >= n
<1>1. PICK d \in Nat \ {0} : d = SLOB_UNIT
  BY Constants
<1>2. u * d >= n + d
  BY <1>1, Rounding
<1>3. (u - 1) * d = u * d - d
  OBVIOUS
<1> QED BY <1>1, <1>2, <1>3

\* A set of numbers has a smallest one.
LEMMA MinOf ==
    ASSUME NEW S \in SUBSET Nat, S # {}
    PROVE  Min(S) \in S /\ \A y \in S : Min(S) <= y
<1> DEFINE Below(x) == 0 .. x - 1
           T == {Below(x) : x \in S}
           R == StrictSubsetOrdering(Nat)
           F == FiniteSubsetsOf(Nat)
<1>1. T \subseteq F
  <2>1. \A x \in S : IsFiniteSet(0 .. x - 1)
    BY FS_Interval
  <2> QED BY <2>1 DEF FiniteSubsetsOf
<1>2. T # {}
  OBVIOUS
<1>3. IsWellFoundedOn(R, F)
  BY FS_StrictSubsetOrderingWellFounded
<1>4. PICK t \in T : \A u \in T : ~ (<<u, t>> \in R)
  <2> HIDE DEF T, R, F
  <2> QED BY <1>1, <1>2, <1>3, WFMin
<1>5. PICK x \in S : t = 0 .. x - 1
  OBVIOUS
<1>6. ASSUME NEW y \in S PROVE x <= y
  <2> SUFFICES ASSUME y < x PROVE FALSE
    OBVIOUS
  <2>1. Below(y) \in T /\ Below(y) \in SUBSET Nat /\ t \in SUBSET Nat
    BY <1>5
  <2>2. Below(y) \subseteq t /\ y \in t /\ y \notin Below(y)
    BY <1>5
  <2>3. <<Below(y), t>> \in R
    BY <2>1, <2>2 DEF StrictSubsetOrdering
  <2> QED BY <2>1, <2>3, <1>4
<1> QED BY <1>6 DEF Min

\* find_order() returns an order, and the pages of it are enough for the sizes
\* that are Exact.
LEMMA OrderFacts ==
    ASSUME NEW n \in Sizes
    PROVE  /\ find_order(n) \in 0 .. MaxOrder
           /\ 2 ^ find_order(n) \in Nat \ {0}
           /\ Exact(n) => PAGE_SIZE * 2 ^ find_order(n) >= n
<1> DEFINE S == {k \in 0 .. MaxOrder : n \div 2 ^ k <= PAGE_SIZE}
<1>1. S \in SUBSET Nat /\ S # {}
  BY OrderAssumption
<1>2. PICK k \in S : k = find_order(n)
  <2> HIDE DEF S
  <2>1. Min(S) \in S
    BY <1>1, MinOf
  <2> QED BY <2>1 DEF find_order, S
<1>3. k \in 0 .. MaxOrder /\ n \div 2 ^ k <= PAGE_SIZE /\ 2 ^ k \in Nat \ {0}
  BY OrderAssumption
<1>4. Exact(n) => PAGE_SIZE * 2 ^ k >= n
  <2>1. PICK e \in Nat \ {0} : e = 2 ^ k
    BY <1>3
  <2>2. PICK s \in Nat : s = PAGE_SIZE
    BY Constants
  <2>3. n \in Nat
    BY Constants
  <2>4. n < (s + 1) * e
    <3>1. ASSUME NEW q \in Nat, q = n \div e PROVE n < (q + 1) * e
      BY <3>1, <2>3
    <3>2. n \div e \in Nat /\ n \div e <= s
      BY <1>3, <2>1, <2>2, <2>3
    <3>3. ASSUME NEW q \in Nat, q <= s PROVE (q + 1) * e <= (s + 1) * e
      BY <3>3
    <3>4. (n \div e + 1) * e \in Int /\ (s + 1) * e \in Int
      BY <3>2
    <3> QED BY <3>1, <3>2, <3>3, <3>4, <2>3
  <2>5. CASE k = 0
    <3>1. e = 1
      BY <2>1, <2>5
    <3> QED BY <3>1, <2>1, <2>2, <2>3, <2>4
  <2>6. CASE k # 0
    <3>1. k \in 1 .. MaxOrder
      BY <1>3, <2>6, OrderAssumption
    <3>2. Exact(n) => ~(s * e < n)
      BY <3>1, <2>1, <2>2, <2>4 DEF Exact
    <3>3. s * e \in Int
      OBVIOUS
    <3> QED BY <3>2, <3>3, <2>1, <2>2, <2>3
  <2> QED BY <2>5, <2>6
<1> QED BY <1>2, <1>3, <1>4

-----------------------------------------------------------------------------
\* The list ny is nx with b linked behind c, where it belongs.
Inserted(nx, ny, S, c, b) ==
    /\ S \in SUBSET Int /\ c \in S /\ b \in Int /\ b \notin S /\ c < b
    /\ nx[c] = arena \/ b < nx[c]
    /\ ny[c] = b /\ ny[b] = nx[c] /\ \A a \in S \ {c} : ny[a] = nx[a]

\* The list ny is nx without the block q behind p.
Dropped(nx, ny, S, p, q) ==
    /\ S \in SUBSET Int /\ p \in S /\ q = nx[p] /\ q # arena
    /\ ny[p] = nx[q] /\ \A a \in S \ {p, q} : ny[a] = nx[a]

\* With a block linked where it belongs the ring stays one.
LEMMA RingInsert ==
    ASSUME NEW nx, NEW ny, NEW S, NEW c, NEW b, IsRing(nx, S), Inserted(nx, ny, S, c, b)
    PROVE  IsRing(ny, S \cup {b})
<1>a. /\ S \in SUBSET Int /\ c \in S /\ b \in Int /\ b \notin S /\ c < b
      /\ nx[c] = arena \/ b < nx[c]
      /\ ny[c] = b /\ ny[b] = nx[c] /\ \A a \in S \ {c} : ny[a] = nx[a]
  BY DEF Inserted
<1> USE <1>a
<1>0. /\ nx[c] \in S /\ c \in Int /\ nx[c] \in Int
      /\ nx[c] = arena => \A d \in S : d <= c
      /\ nx[c] # arena => c < nx[c] /\ \A d \in S : d <= c \/ nx[c] <= d
  BY DEF IsRing
<1>1. arena \in S \cup {b} /\ b # arena
  BY DEF IsRing
<1>2. ASSUME NEW e \in S \cup {b}
      PROVE  /\ ny[e] \in S \cup {b}
             /\ ny[e] = arena => \A d \in S \cup {b} : d <= e
             /\ ny[e] # arena => e < ny[e] /\ \A d \in S \cup {b} : d <= e \/ ny[e] <= d
  <2>1. CASE e = c
    <3>1. \A d \in S : d <= c \/ b <= d
      BY <1>0
    <3> QED BY <1>1, <2>1, <3>1
  <2>2. CASE e = b
    <3>1. ny[e] \in S /\ ny[e] = nx[c]
      BY <1>0, <2>2
    <3>2. nx[c] = arena => \A d \in S \cup {b} : d <= b
      BY <1>0
    <3>3. nx[c] # arena => b < nx[c] /\ \A d \in S \cup {b} : d <= b \/ nx[c] <= d
      BY <1>0
    <3> QED BY <2>2, <3>1, <3>2, <3>3
  <2>3. CASE e \in S \ {c}
    <3>1. ny[e] = nx[e]
      BY <2>3
    <3>2. ny[e] \in S
      BY <3>1, <2>3 DEF IsRing
    <3>3. ny[e] = arena => \A d \in S : d <= e
      BY <3>1, <2>3 DEF IsRing
    <3>4. ny[e] # arena => e < ny[e] /\ \A d \in S : d <= e \/ ny[e] <= d
      BY <3>1, <2>3 DEF IsRing
    <3>5. ny[e] = arena => b <= e
      <4> SUFFICES ASSUME ny[e] = arena PROVE b <= e
        OBVIOUS
      <4>1. c < e /\ e \in Int
        BY <3>3, <2>3, <1>0
      <4> QED BY <4>1, <1>0, <2>3
    <3>6. ny[e] # arena => b <= e \/ ny[e] <= b
      <4> SUFFICES ASSUME ny[e] # arena PROVE b <= e \/ ny[e] <= b
        OBVIOUS
      <4>1. e \in Int /\ ny[e] \in Int /\ e # c /\ e \in S
        BY <3>2, <2>3
      <4>2. c <= e \/ ny[e] <= c
        BY <3>4
      <4>3. CASE ny[e] <= c
        BY <4>1, <4>3, <1>0
      <4>4. CASE c < e
        BY <4>1, <4>4, <1>0
      <4> QED BY <4>1, <4>2, <4>3, <4>4, <1>0
    <3> QED BY <3>2, <3>3, <3>4, <3>5, <3>6
  <2> QED BY <2>1, <2>2, <2>3
<1> QED BY <1>1, <1>2 DEF IsRing

\* The block behind p is taken out.
LEMMA RingDrop ==
    ASSUME NEW nx, NEW ny, NEW S, NEW p, NEW q, IsRing(nx, S), Dropped(nx, ny, S, p, q)
    PROVE  IsRing(ny, S \ {q})
<1>a. /\ S \in SUBSET Int /\ p \in S /\ q = nx[p] /\ q # arena
      /\ ny[p] = nx[q] /\ \A a \in S \ {p, q} : ny[a] = nx[a]
  BY DEF Dropped
<1> USE <1>a
<1>1. q \in S /\ p < q /\ arena \in S \ {q}
  BY DEF IsRing
<1>2. ASSUME NEW e \in S \ {q}
      PROVE  /\ ny[e] \in S \ {q}
             /\ ny[e] = arena => \A d \in S \ {q} : d <= e
             /\ ny[e] # arena => e < ny[e] /\ \A d \in S \ {q} : d <= e \/ ny[e] <= d
  <2>1. CASE e = p
    <3>1. nx[q] \in S
      BY <1>1 DEF IsRing
    <3>2. nx[q] = arena => \A d \in S : d <= q
      BY <1>1 DEF IsRing
    <3>3. nx[q] # arena => q < nx[q] /\ \A d \in S : d <= q \/ nx[q] <= d
      BY <1>1 DEF IsRing
    <3>4. \A d \in S \ {q} : d <= p \/ q < d
      BY <1>1 DEF IsRing
    <3>5. nx[q] # q
      BY <1>1, <3>3
    <3>6. nx[q] = arena => \A d \in S \ {q} : d <= p
      <4> SUFFICES ASSUME nx[q] = arena, NEW d \in S \ {q} PROVE d <= p
        OBVIOUS
      <4> QED BY <1>1, <3>2, <3>4
    <3>7. nx[q] # arena => p < nx[q] /\ \A d \in S \ {q} : d <= p \/ nx[q] <= d
      <4> SUFFICES ASSUME nx[q] # arena PROVE p < nx[q] /\ \A d \in S \ {q} : d <= p \/ nx[q] <= d
        OBVIOUS
      <4>0. p \in Int /\ q \in Int /\ nx[q] \in Int /\ p < q /\ q < nx[q]
        BY <1>1, <3>1, <3>3
      <4>1. p < nx[q]
        BY <4>0
      <4>2. ASSUME NEW d \in S \ {q} PROVE d <= p \/ nx[q] <= d
        BY <1>1, <3>3, <3>4
      <4> QED BY <4>1, <4>2
    <3> QED BY <2>1, <3>1, <3>5, <3>6, <3>7
  <2>2. CASE e # p
    <3>1. ny[e] = nx[e] /\ e \in S
      BY <2>2
    <3>2. nx[e] # q
      BY <2>2, <1>1 DEF IsRing
    <3> QED BY <3>1, <3>2, <1>1 DEF IsRing
  <2> QED BY <2>1, <2>2
<1> QED BY <1>1, <1>2 DEF IsRing

-----------------------------------------------------------------------------
\* A block is split.
LEMMA TileSplit ==
    ASSUME NEW B, NEW H, NEW un, Tiles(un, B, H), NEW c \in B, NEW w \in 1 .. un[c] - 1,
           NEW vn, vn[c] = w, vn[c + w] = un[c] - w, \A b \in B \ {c} : vn[b] = un[b]
    PROVE  c + w \notin B /\ Tiles(vn, B \cup {c + w}, H)
<1>0. Top \in Nat
  BY Constants
<1>1. \A b \in B : b \in 0 .. Top - 1 /\ b \in Int /\ un[b] \in Int /\ un[b] \in 1 .. Top - b
  BY <1>0 DEF Tiles
<1>2. \A b \in B : \A d \in B : b < d => b + un[b] <= d
  BY DEF Tiles
<1>3. PICK e \in Int : e = c + w
  BY <1>1
<1>4. e > c /\ e < c + un[c] /\ vn[e] = c + un[c] - e /\ vn[c] = e - c
  BY <1>1, <1>3
<1>5. e \notin B
  BY <1>1, <1>2, <1>4
<1>6. ASSUME NEW b \in B \cup {e} PROVE b \in 0 .. Top - 1 /\ vn[b] \in 1 .. Top - b
  BY <1>0, <1>1, <1>4
<1>7. ASSUME NEW b \in B \cup {e}, NEW d \in B \cup {e}, b < d PROVE b + vn[b] <= d
  <2>1. CASE b = c
    BY <1>1, <1>2, <1>4, <1>7, <2>1
  <2>2. CASE b = e
    BY <1>1, <1>2, <1>4, <1>7, <2>2
  <2>3. CASE b \in B \ {c}
    BY <1>1, <1>2, <1>4, <1>7, <2>3
  <2> QED BY <2>1, <2>2, <2>3
<1>8. ASSUME NEW a \in 0 .. Top - 1
      PROVE  (\E b \in B : b <= a /\ a < b + un[b])
                <=> (\E b \in B \cup {e} : b <= a /\ a < b + vn[b])
  <2>1. ASSUME NEW b \in B, b <= a, a < b + un[b]
        PROVE  \E d \in B \cup {e} : d <= a /\ a < d + vn[d]
    <3>1. CASE b = c
      BY <1>0, <1>1, <1>4, <2>1, <3>1
    <3>2. CASE b # c
      BY <2>1, <3>2
    <3> QED BY <3>1, <3>2
  <2>2. ASSUME NEW b \in B \cup {e}, b <= a, a < b + vn[b]
        PROVE  \E d \in B : d <= a /\ a < d + un[d]
    <3>1. CASE b = c \/ b = e
      BY <1>0, <1>1, <1>4, <2>2, <3>1
    <3>2. CASE b # c /\ b # e
      BY <2>2, <3>2
    <3> QED BY <3>1, <3>2
  <2> QED BY <2>1, <2>2
<1>9. Tiles(vn, B \cup {e}, H)
  BY <1>6, <1>7, <1>8 DEF Tiles
<1> QED BY <1>3, <1>5, <1>9

\* Two blocks that touch become one.
LEMMA TileJoin ==
    ASSUME NEW B, NEW H, NEW un, Tiles(un, B, H), NEW c \in B, NEW d \in B, d = c + un[c],
           NEW vn, vn[c] = un[c] + un[d], \A b \in B \ {c, d} : vn[b] = un[b]
    PROVE  Tiles(vn, B \ {d}, H)
<1>0. Top \in Nat
  BY Constants
<1>1. \A b \in B : b \in 0 .. Top - 1 /\ b \in Int /\ un[b] \in Int /\ un[b] \in 1 .. Top - b
  BY <1>0 DEF Tiles
<1>2. \A b \in B : \A e \in B : b < e => b + un[b] <= e
  BY DEF Tiles
<1>4. c < d /\ c + vn[c] = d + un[d]
  BY <1>1
<1>6. ASSUME NEW b \in B \ {d} PROVE b \in 0 .. Top - 1 /\ vn[b] \in 1 .. Top - b
  BY <1>0, <1>1, <1>4
<1>7. ASSUME NEW b \in B \ {d}, NEW e \in B \ {d}, b < e PROVE b + vn[b] <= e
  <2>1. CASE b = c
    BY <1>1, <1>2, <1>4, <1>7, <2>1
  <2>2. CASE b # c
    BY <1>1, <1>2, <1>4, <1>7, <2>2
  <2> QED BY <2>1, <2>2
<1>8. ASSUME NEW a \in 0 .. Top - 1
      PROVE  (\E b \in B : b <= a /\ a < b + un[b])
                <=> (\E b \in B \ {d} : b <= a /\ a < b + vn[b])
  <2>1. ASSUME NEW b \in B, b <= a, a < b + un[b]
        PROVE  \E e \in B \ {d} : e <= a /\ a < e + vn[e]
    <3>1. CASE b = c \/ b = d
      BY <1>0, <1>1, <1>4, <2>1, <3>1
    <3>2. CASE b # c /\ b # d
      BY <2>1, <3>2
    <3> QED BY <3>1, <3>2
  <2>2. ASSUME NEW b \in B \ {d}, b <= a, a < b + vn[b]
        PROVE  \E e \in B : e <= a /\ a < e + un[e]
    <3>1. CASE b = c
      <4>1. a < d \/ (d <= a /\ a < d + un[d])
        BY <1>0, <1>1, <1>4, <2>2, <3>1
      <4> QED BY <4>1, <2>2, <3>1
    <3>2. CASE b # c
      BY <2>2, <3>2
    <3> QED BY <3>1, <3>2
  <2> QED BY <2>1, <2>2
<1> QED BY <1>6, <1>7, <1>8 DEF Tiles

\* A block of units that were in no block.
LEMMA TileAdd ==
    ASSUME NEW B, NEW H, NEW un, Tiles(un, B, H), NEW e \in 0 .. Top - 1,
           NEW n \in 1 .. Top - e, \A a \in e .. e + n - 1 : a \notin H,
           NEW vn, vn[e] = n, \A b \in B \ {e} : vn[b] = un[b],
           NEW G, \A a \in 0 .. Top - 1 : a \in G <=> a \in H \/ (e <= a /\ a < e + n)
    PROVE  e \notin B /\ Tiles(vn, B \cup {e}, G)
<1>0. Top \in Nat
  BY Constants
<1>1. \A b \in B : b \in 0 .. Top - 1 /\ b \in Int /\ un[b] \in Int /\ un[b] \in 1 .. Top - b
  BY <1>0 DEF Tiles
<1>2. \A b \in B : \A d \in B : b < d => b + un[b] <= d
  BY DEF Tiles
<1>3. \A b \in B : \A a \in 0 .. Top - 1 : b <= a /\ a < b + un[b] => a < e \/ e + n <= a
  BY <1>0, <1>1 DEF Tiles
<1>4. ASSUME NEW b \in B PROVE b + un[b] <= e \/ e + n <= b
  <2>1. CASE e <= b
    BY <1>0, <1>1, <1>3, <2>1
  <2>2. CASE b < e
    BY <1>0, <1>1, <1>3, <2>2
  <2> QED BY <1>1, <2>1, <2>2
<1>5. e \notin B
  BY <1>1, <1>4
<1>6. ASSUME NEW b \in B \cup {e} PROVE b \in 0 .. Top - 1 /\ vn[b] \in 1 .. Top - b
  BY <1>0, <1>1, <1>5
<1>7. ASSUME NEW b \in B \cup {e}, NEW d \in B \cup {e}, b < d PROVE b + vn[b] <= d
  <2>1. CASE b = e
    BY <1>1, <1>4, <1>7, <2>1
  <2>2. CASE b \in B /\ d = e
    BY <1>1, <1>4, <1>5, <1>7, <2>2
  <2>3. CASE b \in B /\ d \in B
    BY <1>1, <1>2, <1>5, <1>7, <2>3
  <2> QED BY <2>1, <2>2, <2>3
<1>8. ASSUME NEW a \in 0 .. Top - 1
      PROVE  a \in G <=> (\E b \in B \cup {e} : b <= a /\ a < b + vn[b])
  <2>1. (\E b \in B : b <= a /\ a < b + un[b]) <=> (\E b \in B : b <= a /\ a < b + vn[b])
    BY <1>5
  <2>2. a \in H <=> \E b \in B : b <= a /\ a < b + un[b]
    BY DEF Tiles
  <2> QED BY <2>1, <2>2
<1>9. Tiles(vn, B \cup {e}, G)
  BY <1>6, <1>7, <1>8 DEF Tiles
<1> QED BY <1>5, <1>9

-----------------------------------------------------------------------------
RecordType == [bb : Addr, pages : Page, order : 0 .. MaxOrder]
ElementsOf(s) == {s[k] : k \in DOMAIN s}

\* A new record at the head of the list.
LEMMA RecordAdd ==
    ASSUME NEW s \in Seq(RecordType), Distinct(s), NEW r \in RecordType,
           \A q \in ElementsOf(s) : q.bb # r.bb /\ Pages(q) \cap Pages(r) = {}
    PROVE  /\ <<r>> \o s \in Seq(RecordType) /\ Distinct(<<r>> \o s)
           /\ ElementsOf(<<r>> \o s) = ElementsOf(s) \cup {r}
<1>1. PICK t : t = <<r>> \o s
  OBVIOUS
<1>2. /\ t \in Seq(RecordType) /\ Len(t) = Len(s) + 1 /\ Len(s) \in Nat
      /\ DOMAIN t = 1 .. Len(s) + 1 /\ DOMAIN s = 1 .. Len(s)
      /\ t[1] = r /\ \A k \in 2 .. Len(s) + 1 : t[k] = s[k - 1]
  BY <1>1
<1>3. \A k \in 2 .. Len(s) + 1 : k - 1 \in DOMAIN s
  BY <1>2
<1>4. ElementsOf(t) = ElementsOf(s) \cup {r}
  <2>1. ASSUME NEW x \in ElementsOf(t) PROVE x \in ElementsOf(s) \cup {r}
    <3>1. PICK k \in DOMAIN t : x = t[k]
      BY DEF ElementsOf
    <3>2. CASE k = 1
      BY <3>1, <3>2, <1>2
    <3>3. CASE k # 1
      BY <3>1, <3>3, <1>2, <1>3 DEF ElementsOf
    <3> QED BY <3>2, <3>3
  <2>2. ASSUME NEW x \in ElementsOf(s) PROVE x \in ElementsOf(t)
    <3>1. PICK k \in DOMAIN s : x = s[k]
      BY DEF ElementsOf
    <3>2. k + 1 \in DOMAIN t /\ t[k + 1] = s[k]
      BY <3>1, <1>2
    <3> QED BY <3>1, <3>2 DEF ElementsOf
  <2>3. r \in ElementsOf(t)
    BY <1>2 DEF ElementsOf
  <2> QED BY <2>1, <2>2, <2>3
<1>5. ASSUME NEW j \in DOMAIN t, NEW k \in DOMAIN t, j # k
      PROVE  t[j].bb # t[k].bb /\ Pages(t[j]) \cap Pages(t[k]) = {}
  <2>1. \A i \in DOMAIN t : i # 1 => i - 1 \in DOMAIN s /\ t[i] = s[i - 1]
                                      /\ t[i] \in ElementsOf(s)
    BY <1>2, <1>3 DEF ElementsOf
  <2>2. CASE j = 1
    <3>1. t[j] = r /\ t[k] \in ElementsOf(s)
      BY <1>2, <1>5, <2>1, <2>2
    <3> QED BY <3>1
  <2>3. CASE k = 1
    <3>1. t[k] = r /\ t[j] \in ElementsOf(s)
      BY <1>2, <1>5, <2>1, <2>3
    <3> QED BY <3>1
  <2>4. CASE j # 1 /\ k # 1
    <3>1. j - 1 \in DOMAIN s /\ k - 1 \in DOMAIN s /\ j - 1 # k - 1
      BY <1>2, <1>5, <2>1, <2>4
    <3>2. t[j] = s[j - 1] /\ t[k] = s[k - 1]
      BY <2>1, <2>4
    <3> QED BY <3>1, <3>2 DEF Distinct
  <2> QED BY <2>2, <2>3, <2>4
<1>6. Distinct(t)
  BY <1>5 DEF Distinct
<1> QED BY <1>1, <1>2, <1>4, <1>6

\* Where the elements behind one that is taken out of a sequence move.
LEMMA ShiftIndex ==
    ASSUME NEW i \in Int, NEW n \in Int, 1 <= i, i <= n, NEW k \in i .. n - 1
    PROVE  /\ k - (i - 1) \in 1 .. n - i /\ i + (k - (i - 1)) = k + 1 /\ ~(k <= i - 1)
           /\ k \in 1 .. n - 1
  OBVIOUS

\* A record is unlinked.
LEMMA RecordDrop ==
    ASSUME NEW s \in Seq(RecordType), Distinct(s), NEW i \in DOMAIN s,
           NEW t, t = SubSeq(s, 1, i - 1) \o SubSeq(s, i + 1, Len(s))
    PROVE  /\ t \in Seq(RecordType) /\ Distinct(t)
           /\ ElementsOf(t) = ElementsOf(s) \ {s[i]}
<1>1. PICK n \in Nat : n = Len(s)
  OBVIOUS
<1>2. DOMAIN s = 1 .. n /\ i \in 1 .. n
  BY <1>1
<1>3. PICK u : u = SubSeq(s, 1, i - 1)
  OBVIOUS
<1>4. PICK v : v = SubSeq(s, i + 1, n)
  OBVIOUS
<1>5. \A k \in 1 .. n : s[k] \in RecordType
  BY <1>2
<1>6. u \in Seq(RecordType) /\ Len(u) = i - 1 /\ \A k \in 1 .. i - 1 : u[k] = s[k]
  <2>1. i - 1 \in Int /\ 1 \in Int /\ \A k \in 1 .. i - 1 : s[k] \in RecordType
    BY <1>2, <1>5
  <2> HIDE DEF RecordType
  <2>2. /\ u \in Seq(RecordType) /\ Len(u) = IF 1 <= i - 1 THEN i - 1 - 1 + 1 ELSE 0
        /\ \A k \in 1 .. i - 1 - 1 + 1 : u[k] = s[1 + k - 1]
    BY <1>3, <2>1, SubSeqProperties
  <2>3. i \in Int /\ i >= 1 /\ i - 1 - 1 + 1 = i - 1 /\ \A k \in 1 .. i - 1 : 1 + k - 1 = k
    BY <1>2
  <2>4. u \in Seq(RecordType)
    BY <2>2
  <2>5. Len(u) = i - 1
    BY <2>2, <2>3
  <2>6. ASSUME NEW k \in 1 .. i - 1 PROVE u[k] = s[k]
    <3>1. u[k] = s[1 + k - 1] /\ 1 + k - 1 = k
      BY <2>2, <2>3
    <3> QED BY <3>1, Zenon
  <2> QED BY <2>4, <2>5, <2>6
<1>7. v \in Seq(RecordType) /\ Len(v) = n - i /\ \A k \in 1 .. n - i : v[k] = s[i + k]
  <2>1. i + 1 \in Int /\ n \in Int /\ \A k \in i + 1 .. n : s[k] \in RecordType
    BY <1>2, <1>5
  <2> HIDE DEF RecordType
  <2>2. /\ v \in Seq(RecordType) /\ Len(v) = IF i + 1 <= n THEN n - (i + 1) + 1 ELSE 0
        /\ \A k \in 1 .. n - (i + 1) + 1 : v[k] = s[i + 1 + k - 1]
    BY <1>4, <2>1, SubSeqProperties
  <2>3. /\ i \in Int /\ i <= n /\ n - (i + 1) + 1 = n - i
        /\ \A k \in 1 .. n - i : i + 1 + k - 1 = i + k
    BY <1>2
  <2>4. v \in Seq(RecordType)
    BY <2>2
  <2>5. Len(v) = n - i
    <3>1. Len(v) = IF i + 1 <= n THEN n - (i + 1) + 1 ELSE 0
      BY <2>2
    <3> QED BY <3>1, <2>3
  <2>6. ASSUME NEW k \in 1 .. n - i PROVE v[k] = s[i + k]
    <3>1. v[k] = s[i + 1 + k - 1] /\ i + 1 + k - 1 = i + k
      BY <2>2, <2>3
    <3> QED BY <3>1, Zenon
  <2> QED BY <2>4, <2>5, <2>6
<1>8. /\ t \in Seq(RecordType) /\ DOMAIN t = 1 .. n - 1
      /\ \A k \in 1 .. i - 1 : t[k] = s[k]
      /\ \A k \in i .. n - 1 : t[k] = s[k + 1]
  <2> HIDE DEF RecordType
  <2>1. t = u \o v
    BY <1>1, <1>3, <1>4
  <2>2. /\ t \in Seq(RecordType) /\ Len(t) = (i - 1) + (n - i)
        /\ \A k \in 1 .. (i - 1) + (n - i) :
              t[k] = IF k <= i - 1 THEN u[k] ELSE v[k - (i - 1)]
    <3>1. /\ u \o v \in Seq(RecordType) /\ Len(u \o v) = Len(u) + Len(v)
          /\ \A k \in 1 .. Len(u) + Len(v) :
                (u \o v)[k] = IF k <= Len(u) THEN u[k] ELSE v[k - Len(u)]
      BY <1>6, <1>7, ConcatProperties
    <3>2. Len(u) = i - 1 /\ Len(v) = n - i
      BY <1>6, <1>7
    <3> QED BY <3>1, <3>2, <2>1, Zenon
  <2>3. (i - 1) + (n - i) = n - 1 /\ i \in Int /\ n \in Int /\ 1 <= i /\ i <= n
    BY <1>2
  <2>4. DOMAIN t = 1 .. n - 1
    BY <2>2, <2>3
  <2>5. ASSUME NEW k \in 1 .. i - 1 PROVE t[k] = s[k]
    <3>1. k \in 1 .. (i - 1) + (n - i) /\ k <= i - 1
      BY <2>3
    <3>2. t[k] = u[k]
      BY <3>1, <2>2
    <3> QED BY <3>2, <1>6
  <2>6. ASSUME NEW k \in i .. n - 1 PROVE t[k] = s[k + 1]
    <3>1. k - (i - 1) \in 1 .. n - i /\ i + (k - (i - 1)) = k + 1 /\ ~(k <= i - 1)
          /\ k \in 1 .. n - 1
      BY <2>3, ShiftIndex
    <3> QED BY <3>1, <1>7, <2>2, <2>3
  <2> QED BY <2>2, <2>4, <2>5, <2>6
<1> DEFINE At(k) == IF k < i THEN k ELSE k + 1
<1>9. \A k \in DOMAIN t : /\ At(k) \in DOMAIN s /\ At(k) # i /\ t[k] = s[At(k)]
                          /\ \A j \in DOMAIN t : j # k => At(j) # At(k)
  <2> SUFFICES ASSUME NEW k \in DOMAIN t
               PROVE  /\ At(k) \in DOMAIN s /\ At(k) # i /\ t[k] = s[At(k)]
                      /\ \A j \in DOMAIN t : j # k => At(j) # At(k)
    OBVIOUS
  <2>1. At(k) \in DOMAIN s /\ At(k) # i
    BY <1>2, <1>8
  <2>2. t[k] = s[At(k)]
    <3>1. CASE k < i
      <4>1. k \in 1 .. i - 1
        BY <1>2, <1>8, <3>1
      <4> QED BY <3>1, <4>1, <1>8
    <3>2. CASE ~(k < i)
      <4>1. k \in i .. n - 1
        BY <1>2, <1>8, <3>2
      <4> QED BY <3>2, <4>1, <1>8
    <3> QED BY <3>1, <3>2
  <2>3. \A j \in DOMAIN t : j # k => At(j) # At(k)
    BY <1>2, <1>8
  <2> QED BY <2>1, <2>2, <2>3
<1>10. \A k \in DOMAIN s : k # i => \E j \in DOMAIN t : At(j) = k
  <2> SUFFICES ASSUME NEW k \in DOMAIN s, k # i PROVE \E j \in DOMAIN t : At(j) = k
    OBVIOUS
  <2>1. CASE k < i
    BY <1>2, <1>8, <2>1
  <2>2. CASE k > i
    <3>1. k - 1 \in DOMAIN t /\ At(k - 1) = k
      BY <1>2, <1>8, <2>2
    <3> QED BY <3>1
  <2> QED BY <2>1, <2>2, <1>2
<1> HIDE DEF At
<1>11. Distinct(t)
  <2>1. ASSUME NEW j \in DOMAIN t, NEW k \in DOMAIN t, j # k
        PROVE  t[j].bb # t[k].bb /\ Pages(t[j]) \cap Pages(t[k]) = {}
    <3>1. PICK x \in DOMAIN s : x = At(j) /\ t[j] = s[x]
      BY <1>9
    <3>2. PICK y \in DOMAIN s : y = At(k) /\ t[k] = s[y]
      BY <1>9
    <3>3. x # y
      BY <2>1, <3>1, <3>2, <1>9
    <3> QED BY <3>1, <3>2, <3>3 DEF Distinct
  <2> QED BY <2>1 DEF Distinct
<1>12. \A k \in DOMAIN s : k # i => s[k] # s[i]
  BY DEF Distinct
<1>13. ElementsOf(t) = ElementsOf(s) \ {s[i]}
  <2>1. ASSUME NEW x \in ElementsOf(t) PROVE x \in ElementsOf(s) \ {s[i]}
    <3>1. PICK k \in DOMAIN t : x = t[k]
      BY DEF ElementsOf
    <3>2. At(k) \in DOMAIN s /\ At(k) # i /\ x = s[At(k)]
      BY <3>1, <1>9
    <3> QED BY <3>2, <1>12 DEF ElementsOf
  <2>2. ASSUME NEW x \in ElementsOf(s) \ {s[i]} PROVE x \in ElementsOf(t)
    <3>1. PICK k \in DOMAIN s : x = s[k]
      BY DEF ElementsOf
    <3>2. PICK j \in DOMAIN t : At(j) = k
      BY <3>1, <1>10
    <3> QED BY <3>1, <3>2, <1>9 DEF ElementsOf
  <2> QED BY <2>1, <2>2
<1> QED BY <1>8, <1>11, <1>13

-----------------------------------------------------------------------------
\* What the invariant says of addresses.
LEMMA HeapFacts ==
    ASSUME Typed
    PROVE  /\ arena \in Addr /\ Addr \subseteq Int /\ NULL \notin Addr
           /\ \A a \in Addr : a \in Int /\ arena <= a /\ (a # arena => a \in 0 .. Top - 1)
           /\ \A a \in Addr : units[a] \in Nat
           /\ Ring \subseteq Addr /\ Ring \subseteq Int /\ Free \subseteq Ring
           /\ \A a \in Addr : next[a] \in Addr \cup {NULL}
           /\ \A a \in Ring : next[a] \in Addr
<1>1. arena \in Addr /\ Addr \subseteq Int
  BY Constants DEF Addr, arena
<1>2. \A a \in Addr : a \in Int /\ arena <= a /\ (a # arena => a \in 0 .. Top - 1)
  BY Constants DEF Addr, arena
<1>3. Ring \subseteq Addr /\ Free \subseteq Ring
  BY DEF Ring, Free
<1>4. \A a \in Addr : units[a] \in Nat /\ next[a] \in Addr \cup {NULL}
  BY DEF Typed, TypeOK
<1>5. \A a \in Ring : next[a] \in Addr
  BY <1>4 DEF Ring
<1> QED BY <1>1, <1>2, <1>3, <1>4, <1>5, Constants

\* The records are the elements of the list.
LEMMA RecordFacts ==
    ASSUME Typed
    PROVE  /\ Records = ElementsOf(bigblocks) /\ bigblocks \in Seq(RecordType)
           /\ \A r \in Records : /\ r \in RecordType /\ r.bb \in Addr /\ r.pages \in Page
                                 /\ r.order \in 0 .. MaxOrder /\ 2 ^ r.order \in Nat \ {0}
                                 /\ r.pages \in Pages(r)
           /\ \A h \in held : h.at \in 0 .. Top /\ h.size \in Sizes
<1>1. Records = ElementsOf(bigblocks) /\ bigblocks \in Seq(RecordType)
  BY DEF Records, ElementsOf, Typed, RecordType
<1>2. ASSUME NEW r \in Records PROVE r \in RecordType
  BY <1>1 DEF ElementsOf
<1>3. ASSUME NEW r \in Records
      PROVE  /\ r.bb \in Addr /\ r.pages \in Page
             /\ r.order \in 0 .. MaxOrder /\ 2 ^ r.order \in Nat \ {0}
  BY <1>2, OrderAssumption DEF RecordType
<1>4. ASSUME NEW r \in Records PROVE r.pages \in Pages(r)
  <2>1. PICK e \in Nat \ {0} : e = 2 ^ r.order
    BY <1>3
  <2>2. r.pages \in Int
    BY <1>3 DEF Page
  <2>3. r.pages \in r.pages .. r.pages + e - 1
    BY <2>1, <2>2
  <2> QED BY <2>1, <2>3 DEF Pages
<1>5. \A h \in held : h.at \in 0 .. Top /\ h.size \in Sizes
  BY DEF Typed
<1> QED BY <1>1, <1>2, <1>3, <1>4, <1>5

\* Nothing is stated of call but the block it has in hand, in these parts.
LEMMA Frame ==
    ASSUME HeapInv, UNCHANGED <<heap, bigblocks, used, held>>, Transit' = Transit
    PROVE  Listed' /\ Tiled' /\ Recorded' /\ Owned' /\ Ring' = Ring
<1>1. /\ next' = next /\ units' = units /\ slobfree' = slobfree
      /\ bigblocks' = bigblocks /\ used' = used /\ held' = held
  BY DEF heap
<1>2. Ring' = Ring /\ Free' = Free
  BY <1>1 DEF Ring, Free
<1>3. Records' = Records /\ Small' = Small
  BY <1>1 DEF Records, Small
<1>4. InUse' = InUse /\ BigPages' = BigPages
  BY <1>3 DEF InUse, BigPages
<1>5. Blocks' = Blocks /\ HeapUnits' = HeapUnits
  BY <1>1, <1>2, <1>4 DEF Blocks, HeapUnits
<1>6. Listed'
  BY <1>1, <1>2 DEF Listed, HeapInv
<1>7. Tiled'
  BY <1>1, <1>5 DEF Tiled, HeapInv
<1>8. Recorded'
  BY <1>1, <1>2, <1>3 DEF Recorded, HeapInv
<1>9. Owned'
  BY <1>1, <1>2, <1>3 DEF Owned, HeapInv
<1> QED BY <1>2, <1>6, <1>7, <1>8, <1>9

\* The type of the call in progress.
CallType == [size : Sizes \cup {0}, want : Nat, prev : Addr \cup {NULL},
             cur : Addr \cup {NULL}, b : Addr \cup {NULL},
             then : {"idle", "alloc"}, grown : 0 .. 1]

\* A step that changes only where the call is leaves the types alone.
LEMMA FrameTyped ==
    ASSUME Typed, UNCHANGED <<heap, bigblocks, used, held>>, call' \in CallType,
           pc' \in {"idle", "alloc", "free", "big", "panic"}
    PROVE  Typed'
<1>1. /\ next' = next /\ units' = units /\ slobfree' = slobfree
      /\ bigblocks' = bigblocks /\ used' = used /\ held' = held
  BY DEF heap
<1> QED BY <1>1 DEF Typed, TypeOK, CallType

\* When no call is in progress there is nothing more to show.
LEMMA IdleCall ==
    ASSUME pc' = "idle", call' = NoCall
    PROVE  /\ Searching' /\ Freeing' /\ Recording' /\ Waiting' /\ Transit' = {}
           /\ call' \in CallType
<1>1. NoCall.b = NULL
  BY DEF NoCall
<1>2. NoCall \in CallType
  BY DEF NoCall, CallType
<1>3. Transit' = {}
  BY <1>1 DEF Transit
<1>4. Searching' /\ Freeing' /\ Recording' /\ Waiting'
  BY DEF Searching, Freeing, Recording, Waiting
<1> QED BY <1>2, <1>3, <1>4

-----------------------------------------------------------------------------
\* The heap is empty at first.
LEMMA InitStep ==
    ASSUME Init PROVE HeapInv
<1>0. Top \in Nat /\ arena \in Int /\ arena \in Addr /\ NULL # arena
  BY Constants DEF arena, Addr
<1>1. Typed
  <2>1. units \in [Addr -> Nat]
    BY DEF Init
  <2>2. next \in [Addr -> Addr \cup {NULL}]
    BY <1>0 DEF Init
  <2>3. \A a \in Addr : a + units[a] <= Top
    BY <1>0 DEF Init, Addr, arena
  <2>4. /\ slobfree \in Addr /\ used \subseteq Page /\ held \in SUBSET [at : 0 .. Top, size : Sizes]
        /\ pc = "idle" /\ bigblocks = <<>> /\ call = NoCall
    BY <1>0 DEF Init
  <2>5. bigblocks \in Seq([bb : Addr, pages : Page, order : 0 .. MaxOrder])
    BY <2>4
  <2>6. call \in CallType
    BY <2>4 DEF NoCall, CallType
  <2> QED BY <2>1, <2>2, <2>3, <2>4, <2>5, <2>6 DEF Typed, TypeOK, CallType
<1>2. Ring = {arena}
  BY <1>0 DEF Ring, Init
<1>3. Free = {} /\ Small = {} /\ Records = {}
  BY <1>2 DEF Free, Small, Records, Init
<1>4. Transit = {} /\ InUse = {} /\ Blocks = {}
  BY <1>2, <1>3 DEF Transit, InUse, Blocks, Free, Init, NoCall
<1>5. Listed
  BY <1>0, <1>2 DEF Listed, IsRing, United, Init
<1>6. HeapUnits = {}
  BY DEF HeapUnits, Init
<1>7. Tiled
  BY <1>4, <1>6 DEF Tiled, Tiles
<1>8. Recorded
  BY <1>3 DEF Recorded, Distinct, Init
<1>9. Owned
  BY <1>3 DEF Owned, Init
<1>10. Searching /\ Freeing /\ Recording /\ Waiting
  BY DEF Searching, Freeing, Recording, Waiting, Init
<1> QED BY <1>1, <1>5, <1>7, <1>8, <1>9, <1>10 DEF HeapInv

\* What is asked for is at least two units and at most a page, unless
\* slob_alloc() refuses.
LEMMA WantedUnits ==
    ASSUME NEW n \in Sizes, NEW bytes,
           bytes = IF IsSmall(n) THEN n + SLOB_UNIT ELSE BigblockSize
    PROVE  /\ bytes \in Nat /\ SLOB_UNITS(bytes) = Wanted(n)
           /\ bytes + SLOB_UNIT < PAGE_SIZE => Wanted(n) \in 2 .. PageUnits
           /\ ~(bytes + SLOB_UNIT < PAGE_SIZE) =>
                 n \in PAGE_SIZE - 2 * SLOB_UNIT .. PAGE_SIZE - SLOB_UNIT - 1
<1>1. n \in Nat \ {0}
  BY Constants
<1>2. bytes \in Nat /\ bytes > SLOB_UNIT
  BY <1>1, Constants
<1>3. SLOB_UNITS(bytes) = Wanted(n)
  BY DEF Wanted
<1>4. bytes + SLOB_UNIT < PAGE_SIZE => Wanted(n) \in 2 .. PageUnits
  <2>1. /\ SLOB_UNITS(bytes) \in Nat /\ SLOB_UNITS(bytes) >= 2
        /\ bytes + SLOB_UNIT < PAGE_SIZE => SLOB_UNITS(bytes) <= PageUnits
    BY <1>2, Rounding
  <2> QED BY <1>3, <2>1, Constants
<1>5. ASSUME ~(bytes + SLOB_UNIT < PAGE_SIZE)
      PROVE  n \in PAGE_SIZE - 2 * SLOB_UNIT .. PAGE_SIZE - SLOB_UNIT - 1
  BY <1>1, <1>5, Constants DEF IsSmall
<1> QED BY <1>2, <1>3, <1>4, <1>5

\* kmalloc() begins a search behind slobfree, or fails the assertion.
LEMMA KmallocStep ==
    ASSUME HeapInv, NEW n \in Sizes, kmalloc(n) PROVE HeapInv'
<1>1. /\ pc = "idle" /\ UNCHANGED <<heap, bigblocks, used, held>>
      /\ call = NoCall /\ Typed /\ Listed
  BY DEF kmalloc, HeapInv, Waiting
<1>2. PICK bytes : bytes = IF IsSmall(n) THEN n + SLOB_UNIT ELSE BigblockSize
  OBVIOUS
<1>3. SlobAlloc(bytes, n)
  BY <1>2 DEF kmalloc
<1>4. /\ bytes \in Nat /\ SLOB_UNITS(bytes) = Wanted(n)
      /\ bytes + SLOB_UNIT < PAGE_SIZE => Wanted(n) \in 2 .. PageUnits
      /\ ~(bytes + SLOB_UNIT < PAGE_SIZE) =>
            n \in PAGE_SIZE - 2 * SLOB_UNIT .. PAGE_SIZE - SLOB_UNIT - 1
  BY <1>2, WantedUnits
<1>5. slobfree \in Ring /\ slobfree \in Addr /\ next[slobfree] \in Addr
      /\ slobfree' = slobfree /\ next' = next /\ units' = units
  BY <1>1, HeapFacts DEF Listed, heap
<1>6. CASE bytes + SLOB_UNIT < PAGE_SIZE
  <2>1. /\ pc' = "alloc"
        /\ call' = [NoCall EXCEPT !.size = n, !.want = Wanted(n),
                                  !.prev = slobfree, !.cur = next[slobfree]]
    BY <1>3, <1>4, <1>6 DEF SlobAlloc
  <2>2. /\ call'.size = n /\ call'.want = Wanted(n) /\ call'.prev = slobfree
        /\ call'.cur = next[slobfree] /\ call'.b = NULL /\ call'.then = "idle"
        /\ call'.grown = 0
    BY <2>1 DEF NoCall
  <2>3. Wanted(n) \in 2 .. PageUnits /\ Wanted(n) \in Nat
    BY <1>4, <1>6, Constants
  <2>4. call' \in CallType
    <3>1. call' = [size |-> n, want |-> Wanted(n), prev |-> slobfree, cur |-> next[slobfree],
                   b |-> NULL, then |-> "idle", grown |-> 0]
      BY <2>1 DEF NoCall
    <3>2. 0 \in 0 .. 1
      OBVIOUS
    <3> QED BY <3>1, <3>2, <2>3, <1>5 DEF CallType
  <2>5. Transit' = Transit
    BY <2>2, <1>1 DEF Transit, NoCall
  <2>6. Typed'
    BY <1>1, <2>1, <2>4, FrameTyped
  <2>7. Listed' /\ Tiled' /\ Recorded' /\ Owned' /\ Ring' = Ring
    BY <1>1, <2>5, Frame
  <2>8. Searching'
    <3>1. Asked'
      BY <2>2, <2>3 DEF Asked
    <3>2. slobfree \in Int
      BY <1>1, <1>5, HeapFacts
    <3>3. \A d \in Ring : ~Between(slobfree, d, slobfree)
      BY <1>1, <3>2, HeapFacts DEF Between
    <3> QED BY <3>1, <3>3, <2>2, <2>7, <1>5 DEF Searching
  <2>9. Freeing' /\ Recording' /\ Waiting'
    BY <2>1 DEF Freeing, Recording, Waiting
  <2> QED BY <2>6, <2>7, <2>8, <2>9 DEF HeapInv
<1>7. CASE ~(bytes + SLOB_UNIT < PAGE_SIZE)
  <2>1. pc' = "panic" /\ call' = [NoCall EXCEPT !.size = n]
    BY <1>3, <1>7 DEF SlobAlloc
  <2>2. call'.size = n /\ call'.b = NULL
    BY <2>1 DEF NoCall
  <2>4. call' \in CallType
    BY <2>1 DEF NoCall, CallType
  <2>5. Transit' = Transit
    BY <2>2, <1>1 DEF Transit, NoCall
  <2>6. Typed'
    BY <1>1, <2>1, <2>4, FrameTyped
  <2>7. Listed' /\ Tiled' /\ Recorded' /\ Owned'
    BY <1>1, <2>5, Frame
  <2>8. Searching' /\ Freeing' /\ Recording'
    BY <2>1 DEF Searching, Freeing, Recording
  <2>9. Waiting'
    BY <1>4, <1>7, <2>1, <2>2 DEF Waiting
  <2> QED BY <2>6, <2>7, <2>8, <2>9 DEF HeapInv
<1> QED BY <1>6, <1>7

\* The search goes one block further.
LEMMA AllocNextStep ==
    ASSUME HeapInv, AllocNext PROVE HeapInv'
<1>1. /\ pc = "alloc" /\ pc' = pc /\ units[call.cur] < call.want /\ call.cur # slobfree
      /\ call' = [call EXCEPT !.prev = call.cur, !.cur = next[call.cur]]
      /\ UNCHANGED <<heap, bigblocks, used, held>>
  BY DEF AllocNext, AtEnd
<1>2. Typed /\ Listed /\ Searching /\ call \in CallType
  BY DEF HeapInv, Typed, CallType
<1>3. /\ call.prev \in Ring /\ call.cur = next[call.prev] /\ Asked
      /\ call.b = NULL /\ call.then = "idle"
      /\ \A d \in Ring : Between(slobfree, d, call.prev) => units[d] < call.want
      /\ call.grown = 1 => \E d \in Ring : units[d] >= call.want
  BY <1>1, <1>2 DEF Searching
<1>4. PICK p \in Ring : p = call.prev
  BY <1>3
<1>5. PICK c \in Ring : c = call.cur /\ c = next[p]
  BY <1>2, <1>3, <1>4 DEF Listed, IsRing
<1>6. PICK s \in Ring : s = slobfree
  BY <1>2 DEF Listed
<1>7. /\ p \in Int /\ c \in Int /\ s \in Int /\ arena \in Int /\ c # s
      /\ \A d \in Ring : d \in Int /\ arena <= d
  BY <1>1, <1>2, <1>4, <1>5, <1>6, HeapFacts
<1>8. /\ c = arena => \A d \in Ring : d <= p
      /\ c # arena => p < c /\ \A d \in Ring : d <= p \/ c <= d
  BY <1>2, <1>5 DEF Listed, IsRing
<1>9. ASSUME NEW d \in Ring, Between(s, d, c) PROVE d = c \/ Between(s, d, p)
  <2>1. d \in Int /\ arena <= d
    BY <1>7
  <2>2. CASE c = arena
    BY <1>7, <1>8, <1>9, <2>1, <2>2 DEF Between
  <2>3. CASE c # arena
    <3>1. p < c /\ (d <= p \/ c <= d) /\ (s <= p \/ c <= s)
      BY <1>8, <2>3
    <3> QED BY <1>7, <1>9, <2>1, <3>1 DEF Between
  <2> QED BY <2>2, <2>3
<1>10. /\ call'.size = call.size /\ call'.want = call.want /\ call'.b = call.b
       /\ call'.then = call.then /\ call'.grown = call.grown
       /\ call'.prev = c /\ call'.cur = next[c]
  BY <1>1, <1>2, <1>5 DEF CallType
<1>11. call' \in CallType
  <2>1. c \in Addr /\ next[c] \in Addr
    BY <1>2, HeapFacts
  <2> QED BY <2>1, <1>1, <1>2, <1>5 DEF CallType
<1>12. Typed'
  BY <1>1, <1>2, <1>11, FrameTyped
<1>13. Transit' = Transit
  BY <1>10 DEF Transit
<1>14. Listed' /\ Tiled' /\ Recorded' /\ Owned' /\ Ring' = Ring
  BY <1>1, <1>13, Frame
<1>15. Searching'
  <2>1. next' = next /\ units' = units /\ slobfree' = s
    BY <1>1, <1>6 DEF heap
  <2>2. Asked'
    BY <1>3, <1>10 DEF Asked
  <2>3. \A d \in Ring : Between(s, d, c) => units[d] < call.want
    BY <1>1, <1>3, <1>4, <1>5, <1>6, <1>9
  <2> QED BY <2>1, <2>2, <2>3, <1>3, <1>10, <1>14 DEF Searching
<1>16. Freeing' /\ Recording' /\ Waiting'
  BY <1>1 DEF Freeing, Recording, Waiting
<1> QED BY <1>12, <1>14, <1>15, <1>16 DEF HeapInv

\* Back at slobfree, the search has seen all blocks.
LEMMA SearchEnds ==
    ASSUME HeapInv, pc = "alloc", units[call.cur] < call.want, AtEnd
    PROVE  \A d \in Ring : units[d] < call.want
<1>2. Typed /\ Listed /\ Searching
  BY DEF HeapInv
<1>3. /\ call.prev \in Ring /\ call.cur = next[call.prev]
      /\ \A d \in Ring : Between(slobfree, d, call.prev) => units[d] < call.want
  BY <1>2 DEF Searching
<1>4. PICK p \in Ring : p = call.prev
  BY <1>3
<1>5. PICK s \in Ring : s = slobfree /\ s = next[p] /\ s = call.cur
  BY <1>2, <1>3, <1>4 DEF Listed, AtEnd
<1>7. /\ p \in Int /\ s \in Int /\ arena \in Int
      /\ \A d \in Ring : d \in Int /\ arena <= d
  BY <1>2, <1>4, <1>5, HeapFacts
<1>8. /\ s = arena => \A d \in Ring : d <= p
      /\ s # arena => p < s /\ \A d \in Ring : d <= p \/ s <= d
  BY <1>2, <1>5 DEF Listed, IsRing
<1>9. ASSUME NEW d \in Ring PROVE d = s \/ Between(s, d, p)
  BY <1>7, <1>8 DEF Between
<1> QED BY <1>3, <1>4, <1>5, <1>9

\* slob_alloc() gives up.
LEMMA AllocFailStep ==
    ASSUME HeapInv, AllocFail PROVE HeapInv'
<1>1. /\ pc = "alloc" /\ pc' = "idle" /\ call' = NoCall
      /\ UNCHANGED <<heap, bigblocks, used, held>>
  BY DEF AllocFail, Return
<1>2. call.b = NULL
  BY <1>1 DEF HeapInv, Searching
<1>3. Transit' = Transit
  BY <1>1, <1>2, IdleCall DEF Transit
<1>4. Searching' /\ Freeing' /\ Recording' /\ Waiting' /\ call' \in CallType
  BY <1>1, IdleCall
<1>5. Typed'
  BY <1>1, <1>4, FrameTyped DEF HeapInv
<1>6. Listed' /\ Tiled' /\ Recorded' /\ Owned'
  BY <1>1, <1>3, Frame
<1> QED BY <1>4, <1>5, <1>6 DEF HeapInv

\* slob_free() goes on along the list.
LEMMA FreeNextStep ==
    ASSUME HeapInv, FreeNext PROVE HeapInv'
<1>1. /\ pc = "free" /\ pc' = pc /\ call' = [call EXCEPT !.cur = next[call.cur]]
      /\ UNCHANGED <<heap, bigblocks, used, held>>
  BY DEF FreeNext
<1>2. Typed /\ Listed /\ Freeing /\ call \in CallType
  BY DEF HeapInv, Typed, CallType
<1>3. /\ call.b \in Addr \ Ring /\ call.cur \in Ring
      /\ call.then = "alloc" => Asked /\ call.grown = 1 /\ units[call.b] >= call.want
  BY <1>1, <1>2 DEF Freeing
<1>4. next[call.cur] \in Ring /\ next[call.cur] \in Addr
  BY <1>2, <1>3, HeapFacts DEF Listed, IsRing
<1>5. /\ call'.size = call.size /\ call'.want = call.want /\ call'.b = call.b
      /\ call'.then = call.then /\ call'.grown = call.grown /\ call'.cur = next[call.cur]
      /\ call' \in CallType
  BY <1>1, <1>2, <1>4 DEF CallType
<1>6. Typed'
  BY <1>1, <1>2, <1>5, FrameTyped
<1>7. Transit' = Transit
  BY <1>5 DEF Transit
<1>8. Listed' /\ Tiled' /\ Recorded' /\ Owned' /\ Ring' = Ring
  BY <1>1, <1>7, Frame
<1>9. Freeing'
  <2>1. units' = units
    BY <1>1 DEF heap
  <2>2. call.then = "alloc" => Asked'
    BY <1>3, <1>5 DEF Asked
  <2> QED BY <2>1, <2>2, <1>3, <1>4, <1>5, <1>8 DEF Freeing
<1>10. Searching' /\ Recording' /\ Waiting'
  BY <1>1 DEF Searching, Recording, Waiting
<1> QED BY <1>6, <1>8, <1>9, <1>10 DEF HeapInv

\* The pages of large blocks are taken.
LEMMA BigTaken ==
    ASSUME HeapInv
    PROVE  BigPages \subseteq used /\ used \subseteq Page
  BY DEF HeapInv, Recorded, BigPages, Typed, TypeOK

\* A block in use is neither free nor in hand.
LEMMA UseApart ==
    ASSUME HeapInv, NEW x \in InUse
    PROVE  x \in Addr /\ x \notin Ring /\ x \notin Transit /\ x \in Blocks
<1>1. x \in Blocks
  BY DEF Blocks
<1>2. x \in 0 .. Top - 1
  BY <1>1 DEF HeapInv, Tiled, Tiles
<1>3. CASE \E h \in Small : x = h.at - 1
  BY <1>1, <1>2, <1>3 DEF HeapInv, Owned, Addr
<1>4. CASE \E r \in Records : x = r.bb
  BY <1>1, <1>2, <1>4 DEF HeapInv, Recorded, Addr
<1> QED BY <1>3, <1>4 DEF InUse

\* The blocks in use stay as they are when only others change.
LEMMA Keep ==
    ASSUME HeapInv, bigblocks' = bigblocks, held' = held, used \subseteq used',
           \A x \in InUse : units'[x] = units[x] /\ x \notin Ring' /\ x \notin Transit'
    PROVE  /\ Recorded' /\ Owned'
           /\ InUse' = InUse /\ BigPages' = BigPages
<1>1. Records' = Records /\ Small' = Small
  BY DEF Records, Small
<1>2. InUse' = InUse /\ BigPages' = BigPages
  BY <1>1 DEF InUse, BigPages
<1>3. \A r \in Records : r.bb \in InUse
  BY DEF InUse
<1>4. \A h \in Small : h.at - 1 \in InUse
  BY DEF InUse
<1>5. Recorded'
  <2>1. Distinct(bigblocks)
    BY DEF HeapInv, Recorded
  <2>2. \A r \in Records : /\ units'[r.bb] = SLOB_UNITS(BigblockSize)
                           /\ r.bb \notin Ring' \cup Transit' /\ Pages(r) \subseteq used'
    BY <1>3 DEF HeapInv, Recorded
  <2> QED BY <2>1, <2>2, <1>1 DEF Recorded
<1>6. Owned'
  <2>1. \A h, g \in held : h.at = g.at => h = g
    BY DEF HeapInv, Owned
  <2>2. \A h \in Small : /\ units'[h.at - 1] = SLOB_UNITS(h.size + SLOB_UNIT)
                         /\ h.at - 1 \notin Ring' \cup Transit'
                         /\ \A r \in Records : h.at - 1 # r.bb
    BY <1>4 DEF HeapInv, Owned
  <2>3. \A h \in held \ Small : \E r \in Records : Knows(r, h)
    BY DEF HeapInv, Owned
  <2> QED BY <2>1, <2>2, <2>3, <1>1 DEF Owned
<1> QED BY <1>2, <1>5, <1>6

\* The heap grows by a page, for the first time in this call.
LEMMA AllocGrowStep ==
    ASSUME HeapInv, AllocGrow PROVE HeapInv'
<1>1. /\ pc = "alloc" /\ units[call.cur] < call.want /\ AtEnd /\ Fits(1) # {}
      /\ pc' = "free" /\ next' = next /\ slobfree' = slobfree
      /\ bigblocks' = bigblocks /\ held' = held
  BY DEF AllocGrow
<1>2. Typed /\ Listed /\ Tiled /\ Searching /\ call \in CallType
  BY DEF HeapInv, Typed, CallType
<1>3. Asked /\ call.b = NULL /\ (call.grown = 1 => \E d \in Ring : units[d] >= call.want)
  BY <1>1, <1>2 DEF Searching
<1>4. PICK p \in Page : p = Min(Fits(1)) /\ p \notin used
  <2>1. Fits(1) \in SUBSET Nat
    BY DEF Fits, Page
  <2>2. Min(Fits(1)) \in Fits(1)
    BY <1>1, <2>1, MinOf
  <2>3. ASSUME NEW q \in Fits(1) PROVE q \in Page /\ q \notin used
    <3>1. q \in Page /\ q \in Int /\ (q .. q + 1 - 1) \cap used = {}
      BY DEF Fits, Page
    <3>2. q \in q .. q + 1 - 1
      BY <3>1
    <3> QED BY <3>1, <3>2
  <2> QED BY <2>2, <2>3
<1>5. PICK e : e = p * PageUnits
  OBVIOUS
<1>6. /\ e \in 0 .. Top - 1 /\ PageUnits \in 1 .. Top - e /\ e \in Int
      /\ \A a \in Nat : a \div PageUnits = p <=> e <= a /\ a < e + PageUnits
  <2>1. e \in Nat /\ e + PageUnits <= Top
    BY <1>5, UnitsOfPage
  <2> QED BY <2>1, <1>5, UnitsOfPage, Constants
<1>7. /\ used' = used \cup {p} /\ units' = [units EXCEPT ![e] = PageUnits]
      /\ call' = [call EXCEPT !.b = e, !.cur = slobfree, !.then = "alloc",
                              !.grown = call.grown + 1]
  BY <1>4, <1>5, Rounding DEF AllocGrow
<1>8. Ring' = Ring /\ Free' = Free /\ Transit = {}
  BY <1>1, <1>3 DEF Ring, Free, Transit
<1>9. call.grown = 0
  <2>1. \A d \in Ring : units[d] < call.want
    BY <1>1, SearchEnds
  <2>2. \A d \in Ring : units[d] \in Int /\ call.want \in Int
    BY <1>2, HeapFacts DEF CallType
  <2>3. call.grown # 1
    BY <1>3, <2>1, <2>2
  <2> QED BY <2>3, <1>2 DEF CallType
<1>10. slobfree \in Ring /\ slobfree \in Addr /\ e \in Addr /\ e # arena
  BY <1>2, <1>6, HeapFacts DEF Listed, Addr, arena
<1>11. /\ call'.size = call.size /\ call'.want = call.want /\ call'.b = e
       /\ call'.cur = slobfree /\ call'.then = "alloc" /\ call'.grown = 1
       /\ call' \in CallType
  <2>1. call' = [call EXCEPT !.b = e, !.cur = slobfree, !.then = "alloc", !.grown = 1]
    BY <1>7, <1>9
  <2>2. call' = [size |-> call.size, want |-> call.want, prev |-> call.prev, cur |-> slobfree,
                 b |-> e, then |-> "alloc", grown |-> 1]
    BY <1>2, <2>1 DEF CallType
  <2>3. /\ call.size \in Sizes \cup {0} /\ call.want \in Nat /\ call.prev \in Addr \cup {NULL}
        /\ 1 \in 0 .. 1
    BY <1>2 DEF CallType
  <2>4. call' \in CallType
    BY <2>2, <2>3, <1>10 DEF CallType
  <2> QED BY <2>2, <2>4
<1>12. Transit' = {e}
  BY <1>11, <1>10, <1>2, HeapFacts DEF Transit
<1>13. \A a \in 0 .. Top - 1 :
           a \in HeapUnits \cup {x \in 0 .. Top - 1 : e <= x /\ x < e + PageUnits}
              <=> a \div PageUnits \in (used \cup {p}) \ BigPages
  <2>1. p \notin BigPages
    BY <1>4, BigTaken
  <2>2. \A a \in 0 .. Top - 1 : a \in Addr \ {arena} /\ a \in Nat
    BY Constants DEF Addr, arena
  <2>3. \A a \in 0 .. Top - 1 : a \in HeapUnits <=> a \div PageUnits \in used \ BigPages
    BY <2>2 DEF HeapUnits
  <2> QED BY <1>6, <2>1, <2>2, <2>3
<1>14. \A a \in e .. e + PageUnits - 1 : a \notin HeapUnits
  <2>1. ASSUME NEW a \in e .. e + PageUnits - 1 PROVE a \in Nat /\ a \div PageUnits = p
    <3>1. a \in Nat /\ e <= a /\ a < e + PageUnits
      BY <1>6, Constants
    <3> QED BY <3>1, <1>6
  <2> QED BY <2>1, <1>4 DEF HeapUnits
<1> DEFINE G == {a \in Addr \ {arena} : a \div PageUnits \in (used \cup {p}) \ BigPages}
<1>15. \A a \in 0 .. Top - 1 : a \in G <=> a \in HeapUnits \/ (e <= a /\ a < e + PageUnits)
  <2>1. \A a \in 0 .. Top - 1 : a \in Addr \ {arena}
    BY Constants DEF Addr, arena
  <2> QED BY <1>13, <2>1
<1>16. units'[e] = PageUnits /\ \A b \in Addr \ {e} : units'[b] = units[b]
  BY <1>2, <1>7, <1>10 DEF Typed, TypeOK
<1>17. \A b \in Blocks : b \in Addr
  <2>1. \A b \in Blocks : b \in 0 .. Top - 1
    BY <1>2 DEF Tiled, Tiles
  <2> QED BY <2>1 DEF Addr
<1>18. e \notin Blocks /\ Tiles(units', Blocks \cup {e}, G)
  <2> HIDE DEF G
  <2>1. \A b \in Blocks \ {e} : units'[b] = units[b]
    BY <1>16, <1>17
  <2>2. Tiles(units, Blocks, HeapUnits) /\ units'[e] = PageUnits
    BY <1>2, <1>16 DEF Tiled
  <2>3. e \in 0 .. Top - 1 /\ PageUnits \in 1 .. Top - e
    BY <1>6
  <2> QED BY <1>14, <1>15, <2>1, <2>2, <2>3, TileAdd
<1>19. e \notin Ring
  BY <1>10, <1>18 DEF Blocks, Free
<1>20. \A x \in InUse : units'[x] = units[x] /\ x \notin Ring' /\ x \notin Transit'
  <2>1. \A x \in InUse : x \in Addr /\ x \notin Ring /\ x \in Blocks
    BY UseApart
  <2> QED BY <2>1, <1>8, <1>12, <1>16, <1>18
<1>21. Recorded' /\ Owned' /\ InUse' = InUse /\ BigPages' = BigPages
  BY <1>1, <1>7, <1>20, Keep
<1>22. Tiled'
  <2>1. Blocks' = Blocks \cup {e}
    BY <1>8, <1>12, <1>21 DEF Blocks
  <2>2. HeapUnits' = G
    BY <1>7, <1>21 DEF HeapUnits
  <2> QED BY <2>1, <2>2, <1>18 DEF Tiled
<1>23. Listed'
  <2>1. \A b \in Ring : units'[b] = units[b]
    BY <1>2, <1>16, <1>19, HeapFacts
  <2>2. United(next, units', Ring)
    BY <2>1, <1>2 DEF Listed, United
  <2>3. units'[arena] = 1 /\ IsRing(next, Ring)
    BY <2>1, <1>2 DEF Listed, IsRing
  <2> QED BY <2>2, <2>3, <1>1, <1>8, <1>10 DEF Listed
<1>24. Typed'
  <2>1. units' \in [Addr -> Nat]
    BY <1>2, <1>7, Constants DEF Typed, TypeOK
  <2>2. \A a \in Addr : a + units'[a] <= Top
    <3>1. e + units'[e] <= Top
      BY <1>6, <1>16, Constants
    <3> QED BY <3>1, <1>2, <1>16 DEF Typed, TypeOK
  <2>3. used' \subseteq Page
    BY <1>2, <1>7 DEF Typed, TypeOK
  <2>4. /\ next \in [Addr -> Addr \cup {NULL}] /\ held \in SUBSET [at : 0 .. Top, size : Sizes]
        /\ bigblocks \in Seq([bb : Addr, pages : Page, order : 0 .. MaxOrder])
    BY <1>2 DEF Typed, TypeOK
  <2> QED BY <2>1, <2>2, <2>3, <2>4, <1>1, <1>10, <1>11 DEF Typed, TypeOK, CallType
<1>25. Freeing'
  <2>1. Asked'
    BY <1>3, <1>11 DEF Asked
  <2>2. units'[e] >= call'.want
    BY <1>3, <1>11, <1>16, Constants DEF Asked
  <2> QED BY <2>1, <2>2, <1>8, <1>10, <1>11, <1>19 DEF Freeing
<1>26. Searching' /\ Recording' /\ Waiting'
  BY <1>1 DEF Searching, Recording, Waiting
<1> QED BY <1>21, <1>22, <1>23, <1>24, <1>25, <1>26 DEF HeapInv

-----------------------------------------------------------------------------
\* A block c that is as large as w is found behind p.
LEMMA FoundFacts ==
    ASSUME HeapInv, pc = "alloc", units[call.cur] >= call.want,
           NEW p, p = call.prev, NEW c, c = call.cur, NEW w, w = call.want
    PROVE  /\ p \in Ring /\ c \in Free /\ c = next[p] /\ c # arena /\ p < c
           /\ w \in 2 .. units[c] /\ w \in Nat /\ units[c] \in Nat /\ next[c] \in Ring
           /\ p \in Int /\ c \in 0 .. Top - 1 /\ c \in Int /\ p \in Addr /\ c \in Addr
           /\ Blocks = Free \cup InUse
           /\ p # arena => p + units[p] < c
           /\ next[c] = arena \/ c + units[c] < next[c]
           /\ next[c] \in Int /\ units[p] \in Nat
<1>1. Typed /\ Listed /\ Searching
  BY DEF HeapInv
<1>2. p \in Ring /\ c = next[p] /\ call.b = NULL /\ w \in 2 .. PageUnits
  BY <1>1 DEF Searching, Asked
<1>3. c \in Ring /\ c \in Addr /\ p \in Addr /\ p \in Int /\ c \in Int /\ next[c] \in Int
      /\ units[c] \in Nat /\ units[p] \in Nat /\ next[c] \in Ring
  BY <1>1, <1>2, HeapFacts DEF Listed, IsRing
<1>4. w \in 2 .. units[c] /\ w \in Nat
  BY <1>2, <1>3, Constants
<1>5. c # arena
  BY <1>1, <1>4 DEF Listed
<1>6. p < c
  BY <1>1, <1>2, <1>5 DEF Listed, IsRing
<1>7. Blocks = Free \cup InUse
  BY <1>2 DEF Blocks, Transit
<1>8. c \in 0 .. Top - 1
  BY <1>1, <1>3, <1>5, HeapFacts
<1>9. p # arena => p + units[p] < c
  BY <1>1, <1>2, <1>5 DEF Listed, United
<1>10. next[c] = arena \/ c + units[c] < next[c]
  BY <1>1, <1>3, <1>5 DEF Listed, United
<1> QED BY <1>2, <1>3, <1>4, <1>5, <1>6, <1>7, <1>8, <1>9, <1>10 DEF Free

\* What is known of the list and the blocks when c is taken out of them.
TakenOut(p, c, w) ==
    /\ p \in Ring' /\ c \notin Ring'
    /\ IsRing(next', Ring') /\ United(next', units', Ring')
    /\ units'[c] = w /\ units'[arena] = 1
    /\ \A x \in InUse : units'[x] = units[x] /\ x \notin Ring'
    /\ Tiles(units', (Ring' \ {arena}) \cup {c} \cup InUse, HeapUnits)
    /\ units' \in [Addr -> Nat] /\ next' \in [Addr -> Addr \cup {NULL}]
    /\ \A a \in Addr : a + units'[a] <= Top

\* The block is taken whole.
LEMMA TakeWhole ==
    ASSUME HeapInv, pc = "alloc", units[call.cur] >= call.want,
           NEW p, p = call.prev, NEW c, c = call.cur, NEW w, w = call.want,
           units[c] = w, Taken(p, c, w)
    PROVE  TakenOut(p, c, w)
<1>0. units' = units /\ next' = [next EXCEPT ![p] = next[c], ![c] = NULL]
  BY DEF Taken
<1>1. Typed /\ Listed /\ Tiled
  BY DEF HeapInv
<1>2. /\ p \in Ring /\ c \in Free /\ c = next[p] /\ c # arena /\ p < c
      /\ next[c] \in Ring /\ p \in Int /\ c \in Int /\ p \in Addr /\ c \in Addr
      /\ Blocks = Free \cup InUse /\ next[c] \in Int
  BY FoundFacts
<1>3. p # c /\ next \in [Addr -> Addr \cup {NULL}]
  BY <1>1, <1>2 DEF Typed, TypeOK
<1>4. next'[p] = next[c] /\ next'[c] = NULL /\ \A a \in Addr \ {p, c} : next'[a] = next[a]
  BY <1>0, <1>2, <1>3
<1>5. next[c] \in Addr /\ next[c] # NULL /\ c \in Ring /\ NULL \notin Addr /\ Ring \subseteq Addr
  BY <1>1, <1>2, HeapFacts DEF Free
<1>6. Ring' = Ring \ {c}
  BY <1>2, <1>4, <1>5 DEF Ring
<1>7. IsRing(next', Ring')
  <2>1. \A a \in Ring \ {p, c} : next'[a] = next[a]
    BY <1>4, <1>5
  <2>2. IsRing(next, Ring) /\ Ring \in SUBSET Int
    BY <1>1, HeapFacts DEF Listed
  <2>3. p \in Ring /\ c = next[p] /\ c # arena /\ next'[p] = next[c]
    BY <1>2, <1>4
  <2>4. c \in Ring /\ p < c /\ IsRing(next', Ring \ {c})
    <3>1. Dropped(next, next', Ring, p, c)
      BY <2>1, <2>2, <2>3 DEF Dropped
    <3>2. IsRing(next', Ring \ {c})
      BY <2>2, <3>1, RingDrop
    <3> QED BY <1>2, <1>5, <3>2
  <2> QED BY <1>6, <2>4
<1>8. United(next', units', Ring')
  <2>1. ASSUME NEW b \in Ring' \ {arena} PROVE next'[b] = arena \/ b + units'[b] < next'[b]
    <3>1. CASE b = p
      <4>1. p + units[p] < c /\ units[p] \in Nat /\ units[c] \in Nat
        BY <2>1, <3>1, FoundFacts
      <4>2. next[c] = arena \/ c + units[c] < next[c]
        BY FoundFacts
      <4> QED BY <3>1, <4>1, <4>2, <1>0, <1>2, <1>4
    <3>2. CASE b # p
      <4>1. b \in Ring \ {arena} /\ next'[b] = next[b]
        BY <2>1, <3>2, <1>4, <1>5, <1>6
      <4> QED BY <4>1, <1>0, <1>1 DEF Listed, United
    <3> QED BY <3>1, <3>2
  <2> QED BY <2>1 DEF United
<1>9. Tiles(units', (Ring' \ {arena}) \cup {c} \cup InUse, HeapUnits)
  <2>1. (Ring' \ {arena}) \cup {c} \cup InUse = Blocks
    BY <1>2, <1>6 DEF Free
  <2> QED BY <1>0, <1>1, <2>1 DEF Tiled
<1>10. \A x \in InUse : x \notin Ring'
  BY <1>6, UseApart
<1>11. next' \in [Addr -> Addr \cup {NULL}]
  BY <1>0, <1>3, <1>5
<1> QED BY <1>0, <1>1, <1>2, <1>3, <1>6, <1>7, <1>8, <1>9, <1>10, <1>11
        DEF TakenOut, Listed, Typed, TypeOK

\* The lower part of the block is taken, the rest r is linked in its place.
LEMMA TakePart ==
    ASSUME HeapInv, pc = "alloc", units[call.cur] >= call.want,
           NEW p, p = call.prev, NEW c, c = call.cur, NEW w, w = call.want,
           units[c] # w, Taken(p, c, w)
    PROVE  TakenOut(p, c, w)
<1>0. PICK r : /\ r = c + w
               /\ units' = [units EXCEPT ![r] = units[c] - w, ![c] = w]
               /\ next' = [next EXCEPT ![p] = r, ![r] = next[c], ![c] = NULL]
  BY DEF Taken
<1>1. Typed /\ Listed /\ Tiled
  BY DEF HeapInv
<1>2. /\ p \in Ring /\ c \in Free /\ c = next[p] /\ c # arena /\ p < c
      /\ w \in 2 .. units[c] /\ w \in Nat /\ units[c] \in Nat /\ next[c] \in Ring
      /\ p \in Int /\ c \in 0 .. Top - 1 /\ c \in Int /\ p \in Addr /\ c \in Addr
      /\ Blocks = Free \cup InUse /\ next[c] \in Int /\ units[p] \in Nat
  BY FoundFacts
<1>3. next[c] = arena \/ c + units[c] < next[c]
  BY FoundFacts
<1>4. w \in 1 .. units[c] - 1 /\ c \in Blocks
  BY <1>2
<1>5. units[c] \in 1 .. Top - c
  BY <1>1, <1>4 DEF Tiled, Tiles
<1>6. r \in Int /\ r > c /\ r < c + units[c] /\ r + (units[c] - w) = c + units[c]
  BY <1>0, <1>2, <1>4
<1>7. r \in 0 .. Top - 1 /\ r \in Addr /\ r # arena
  <2>1. r \in 0 .. Top - 1
    BY <1>2, <1>5, <1>6, Constants
  <2> QED BY <2>1, Constants DEF Addr, arena
<1>8. next \in [Addr -> Addr \cup {NULL}] /\ units \in [Addr -> Nat]
  BY <1>1 DEF Typed, TypeOK
<1>9. r # c /\ p # c /\ p # r
  BY <1>2, <1>6
<1>10. /\ units'[r] = units[c] - w /\ units'[c] = w
       /\ \A a \in Addr \ {r, c} : units'[a] = units[a]
       /\ next'[p] = r /\ next'[r] = next[c] /\ next'[c] = NULL
       /\ \A a \in Addr \ {p, r, c} : next'[a] = next[a]
  BY <1>0, <1>2, <1>7, <1>8, <1>9
<1>11. /\ \A b \in Blocks : b \in Addr /\ b # arena
       /\ Ring \subseteq Addr /\ Ring \in SUBSET Int /\ NULL \notin Addr /\ c \in Ring
       /\ IsRing(next, Ring) /\ arena \in Ring /\ arena \in Addr
  <2>1. \A b \in Blocks : b \in 0 .. Top - 1
    BY <1>1 DEF Tiled, Tiles
  <2>2. \A b \in Blocks : b \in Addr /\ b # arena
    BY <2>1, Constants DEF Addr, arena
  <2> QED BY <1>1, <1>2, <2>2, HeapFacts DEF Free, Listed, IsRing
<1>12. r \notin Blocks /\ Tiles(units', Blocks \cup {r}, HeapUnits)
  <2>1. \A b \in Blocks \ {c} : b # r => units'[b] = units[b]
    BY <1>10, <1>11
  <2>2. Tiles(units, Blocks, HeapUnits)
    BY <1>1 DEF Tiled
  <2>3. r \notin Blocks
    <3>1. ASSUME r \in Blocks PROVE FALSE
      <4>1. c + units[c] <= r
        BY <2>2, <1>4, <1>6, <3>1 DEF Tiles
      <4> QED BY <4>1, <1>2, <1>6
    <3> QED BY <3>1
  <2>4. \A b \in Blocks \ {c} : units'[b] = units[b]
    BY <2>1, <2>3
  <2>5. units'[c + w] = units[c] - w
    BY <1>0, <1>10
  <2>6. c \in Blocks /\ w \in 1 .. units[c] - 1 /\ units'[c] = w
    BY <1>4, <1>10
  <2>7. c + w \notin Blocks /\ Tiles(units', Blocks \cup {c + w}, HeapUnits)
    BY <2>2, <2>4, <2>5, <2>6, TileSplit
  <2> QED BY <2>3, <2>7, <1>0
<1>13. r \notin Ring
  BY <1>2, <1>7, <1>12 DEF Free
<1>14. Ring' = (Ring \cup {r}) \ {c}
  <2>1. next[c] # NULL
    BY <1>2, <1>11
  <2>2. r # NULL
    BY <1>7, <1>11
  <2>3. \A a \in Addr : next'[a] # NULL <=> a \in (Ring \cup {r}) \ {c}
    BY <1>2, <1>9, <1>10, <1>13, <2>1, <2>2 DEF Ring
  <2>4. (Ring \cup {r}) \ {c} \subseteq Addr
    BY <1>7, <1>11
  <2> QED BY <2>3, <2>4 DEF Ring
<1>15. IsRing(next', Ring')
  <2>1. PICK mid : mid = [next EXCEPT ![c] = r, ![r] = next[c]]
    OBVIOUS
  <2>2. mid[c] = r /\ mid[r] = next[c] /\ \A a \in Addr \ {c, r} : mid[a] = next[a]
    BY <2>1, <1>2, <1>7, <1>8, <1>9
  <2>3. \A a \in Ring \ {c} : mid[a] = next[a]
    BY <2>2, <1>11, <1>13
  <2>4. next[c] = arena \/ r < next[c]
    BY <1>2, <1>3, <1>6
  <2>5. IsRing(mid, Ring \cup {r})
    <3>1. Ring \in SUBSET Int /\ IsRing(next, Ring) /\ c \in Ring /\ r \in Int /\ r \notin Ring
      BY <1>6, <1>11, <1>13
    <3>2. c < r /\ mid[c] = r /\ mid[r] = next[c]
      BY <1>2, <1>6, <2>2
    <3>3. Inserted(next, mid, Ring, c, r)
      BY <2>3, <2>4, <3>1, <3>2 DEF Inserted
    <3> QED BY <3>1, <3>3, RingInsert
  <2>6. mid[p] = c /\ mid[c] = r
    BY <2>2, <1>2, <1>9
  <2>7. \A a \in (Ring \cup {r}) \ {p, c} : next'[a] = mid[a]
    BY <2>2, <1>10, <1>11
  <2>8. Ring \cup {r} \in SUBSET Int /\ p \in Ring \cup {r}
    BY <1>2, <1>6, <1>11
  <2>9. next'[p] = mid[c] /\ c = mid[p]
    BY <2>6, <1>10
  <2>10. c # arena
    BY <1>2
  <2>11. c \in Ring \cup {r} /\ p < c /\ IsRing(next', (Ring \cup {r}) \ {c})
    <3>1. Dropped(mid, next', Ring \cup {r}, p, c)
      BY <2>7, <2>8, <2>9, <2>10 DEF Dropped
    <3>2. IsRing(next', (Ring \cup {r}) \ {c})
      BY <2>5, <3>1, RingDrop
    <3> QED BY <1>2, <1>11, <3>2
  <2> QED BY <2>11, <1>14
<1>16. United(next', units', Ring')
  <2>1. ASSUME NEW b \in Ring' \ {arena} PROVE next'[b] = arena \/ b + units'[b] < next'[b]
    <3>1. CASE b = p
      <4>1. p + units[p] < c
        BY <2>1, <3>1, FoundFacts
      <4>2. units'[p] = units[p] /\ next'[p] = r
        BY <1>2, <1>9, <1>10
      <4> QED BY <3>1, <4>1, <4>2, <1>2, <1>6
    <3>2. CASE b = r
      BY <3>2, <1>3, <1>6, <1>10
    <3>3. CASE b # p /\ b # r
      <4>1. b \in Ring \ {arena} /\ b \in Addr \ {p, r, c}
        BY <2>1, <3>3, <1>11, <1>14
      <4>2. next'[b] = next[b] /\ units'[b] = units[b]
        BY <4>1, <1>10
      <4> QED BY <4>1, <4>2, <1>1 DEF Listed, United
    <3> QED BY <3>1, <3>2, <3>3
  <2> QED BY <2>1 DEF United
<1>17. Tiles(units', (Ring' \ {arena}) \cup {c} \cup InUse, HeapUnits)
  <2>1. (Ring' \ {arena}) \cup {c} \cup InUse = Blocks \cup {r}
    BY <1>2, <1>7, <1>14 DEF Free
  <2> QED BY <2>1, <1>12
<1>18. \A x \in InUse : units'[x] = units[x] /\ x \notin Ring'
  <2>1. \A x \in InUse : x \in Addr /\ x \notin Ring /\ x \in Blocks
    BY UseApart
  <2> QED BY <2>1, <1>10, <1>11, <1>12, <1>14
<1>19. units' \in [Addr -> Nat] /\ next' \in [Addr -> Addr \cup {NULL}]
  <2>1. units[c] - w \in Nat
    BY <1>2
  <2>2. next[c] \in Addr
    BY <1>2, <1>11
  <2> QED BY <2>1, <2>2, <1>0, <1>2, <1>7, <1>8
<1>20. \A a \in Addr : a + units'[a] <= Top
  <2>1. r + units'[r] <= Top /\ c + units'[c] <= Top
    BY <1>2, <1>4, <1>5, <1>6, <1>10, Constants
  <2>2. \A a \in Addr : a + units[a] <= Top
    BY <1>1 DEF Typed, TypeOK
  <2> QED BY <2>1, <2>2, <1>10
<1>21. units'[arena] = 1
  BY <1>1, <1>2, <1>7, <1>10, <1>11 DEF Listed
<1>22. p \in Ring' /\ c \notin Ring' /\ units'[c] = w
  BY <1>2, <1>9, <1>10, <1>14
<1> QED BY <1>15, <1>16, <1>17, <1>18, <1>19, <1>20, <1>21, <1>22 DEF TakenOut

\* An address in a block of the heap is in no page of a large block.
LEMMA NotBig ==
    ASSUME HeapInv, NEW b \in Blocks, NEW a \in Int, b <= a, a < b + units[b]
    PROVE  /\ a \in 0 .. Top - 1
           /\ a \div PageUnits \in used /\ a \div PageUnits \notin BigPages
<1>1. Tiles(units, Blocks, HeapUnits)
  BY DEF HeapInv, Tiled
<1>2. b \in 0 .. Top - 1 /\ units[b] \in 1 .. Top - b
  BY <1>1 DEF Tiles
<1>3. a \in 0 .. Top - 1
  BY <1>2, Constants
<1>4. a \in HeapUnits
  BY <1>1, <1>3 DEF Tiles
<1> QED BY <1>3, <1>4 DEF HeapUnits

\* A large block of a caller begins where its pages do.
LEMMA BigHeld ==
    ASSUME HeapInv, NEW h \in held, h \notin Small
    PROVE  \E r \in Records : /\ Knows(r, h) /\ r.pages \in Page
                              /\ h.at \div PageUnits = r.pages /\ h.at % PageUnits = 0
                              /\ h.at \div PageUnits \in BigPages
<1>1. PICK r \in Records : Knows(r, h)
  BY DEF HeapInv, Owned
<1>2. r.pages \in Page /\ r.pages \in Pages(r)
  BY RecordFacts DEF HeapInv
<1>3. h.at \div PageUnits = r.pages /\ h.at % PageUnits = 0
  BY <1>1, <1>2, UnitsOfPage DEF Knows
<1>4. r.pages \in BigPages
  BY <1>2 DEF BigPages
<1> QED BY <1>1, <1>2, <1>3, <1>4

\* A small block of a caller is in the heap, behind its header.
LEMMA SmallHeld ==
    ASSUME HeapInv, NEW h \in Small
    PROVE  /\ h \in held /\ h.at - 1 \in InUse /\ h.at \in Int
           /\ h.at \div PageUnits \in used /\ h.at \div PageUnits \notin BigPages
           /\ units[h.at - 1] = SLOB_UNITS(h.size + SLOB_UNIT)
<1>1. h \in held /\ h.at - 1 \in InUse /\ units[h.at - 1] = SLOB_UNITS(h.size + SLOB_UNIT)
  BY DEF Small, InUse, HeapInv, Owned
<1>2. h.at \in Int /\ h.size \in Sizes
  BY <1>1, RecordFacts DEF HeapInv
<1>3. h.size + SLOB_UNIT \in Nat /\ h.size + SLOB_UNIT > SLOB_UNIT
  BY <1>2, Constants
<1>4. units[h.at - 1] \in Nat /\ units[h.at - 1] >= 2
  BY <1>1, <1>3, Rounding
<1>5. h.at - 1 \in Blocks
  BY <1>1, UseApart
<1>6. PICK b \in Blocks : b = h.at - 1
  BY <1>5
<1>7. b <= h.at /\ h.at < b + units[b]
  BY <1>2, <1>4, <1>6
<1>8. h.at \div PageUnits \in used /\ h.at \div PageUnits \notin BigPages
  BY <1>2, <1>7, NotBig
<1> QED BY <1>1, <1>2, <1>8

\* The search has found a block.
LEMMA AllocTakeStep ==
    ASSUME HeapInv, AllocTake PROVE HeapInv'
<1>1. /\ pc = "alloc" /\ units[call.cur] >= call.want
      /\ Taken(call.prev, call.cur, call.want) /\ slobfree' = call.prev
      /\ bigblocks' = bigblocks /\ used' = used
  BY DEF AllocTake
<1>2. PICK p, c, w : p = call.prev /\ c = call.cur /\ w = call.want
  OBVIOUS
<1>3. TakenOut(p, c, w)
  BY <1>1, <1>2, TakeWhole, TakePart
<1>4. /\ p \in Ring' /\ c \notin Ring'
      /\ IsRing(next', Ring') /\ United(next', units', Ring')
      /\ units'[c] = w /\ units'[arena] = 1
      /\ \A x \in InUse : units'[x] = units[x] /\ x \notin Ring'
      /\ Tiles(units', (Ring' \ {arena}) \cup {c} \cup InUse, HeapUnits)
      /\ units' \in [Addr -> Nat] /\ next' \in [Addr -> Addr \cup {NULL}]
      /\ \A a \in Addr : a + units'[a] <= Top
  BY <1>3 DEF TakenOut
<1>5. /\ p \in Ring /\ c \in Free /\ c # arena /\ w \in 2 .. units[c] /\ units[c] \in Nat
      /\ w \in Nat /\ c \in Int /\ p \in Addr /\ c \in Addr /\ Blocks = Free \cup InUse
      /\ c \in 0 .. Top - 1
  BY <1>1, <1>2, FoundFacts
<1>6. Asked /\ call.b = NULL /\ call.then = "idle" /\ call \in CallType
  BY <1>1 DEF HeapInv, Searching, Typed, CallType
<1>7. Listed'
  BY <1>1, <1>2, <1>4 DEF Listed
<1>8. Records' = Records /\ BigPages' = BigPages
  BY <1>1 DEF Records, BigPages
<1>9. HeapUnits' = HeapUnits
  BY <1>1, <1>8 DEF HeapUnits
<1>10. c \in Ring /\ c \notin InUse
  BY <1>5, UseApart DEF Free
<1>11. c + 1 \in 0 .. Top - 1 /\ (c + 1) \div PageUnits \notin BigPages
  <2>1. c \in Blocks /\ c + 1 \in Int /\ c <= c + 1 /\ c + 1 < c + units[c]
    BY <1>5
  <2> QED BY <2>1, NotBig
<1>12. CASE IsSmall(call.size)
  <2>1. PICK h : h = [at |-> c + 1, size |-> call.size]
    OBVIOUS
  <2>2. held' = held \cup {h} /\ pc' = "idle" /\ call' = NoCall
    BY <1>2, <1>12, <2>1 DEF AllocTake, Return
  <2>3. h.at = c + 1 /\ h.size = call.size /\ h.at - 1 = c /\ IsSmall(h.size)
    BY <2>1, <1>5, <1>12
  <2>4. Small' = Small \cup {h}
    BY <2>2, <2>3 DEF Small
  <2>5. InUse' = InUse \cup {c}
    BY <2>3, <2>4, <1>8 DEF InUse
  <2>6. Searching' /\ Freeing' /\ Recording' /\ Waiting' /\ Transit' = {} /\ call' \in CallType
    BY <2>2, IdleCall
  <2>7. Blocks' = (Ring' \ {arena}) \cup {c} \cup InUse
    BY <2>5, <2>6 DEF Blocks, Free
  <2>8. Tiled'
    BY <2>7, <1>4, <1>9 DEF Tiled
  <2>9. Recorded'
    <3>1. \A r \in Records : r.bb \in InUse
      BY DEF InUse
    <3>2. \A r \in Records : /\ units'[r.bb] = SLOB_UNITS(BigblockSize)
                             /\ r.bb \notin Ring' \cup Transit' /\ Pages(r) \subseteq used
      BY <3>1, <1>4, <2>6 DEF HeapInv, Recorded
    <3> QED BY <3>2, <1>1, <1>8 DEF HeapInv, Recorded
  <2>10. Owned'
    <3>1. ASSUME NEW g \in held PROVE g.at # h.at
      <4>1. CASE g \in Small
        <5>1. g.at - 1 \in InUse /\ g.at \in Int
          BY <4>1, SmallHeld
        <5> QED BY <5>1, <1>5, <1>10, <2>3
      <4>2. CASE g \notin Small
        <5>1. g.at \div PageUnits \in BigPages
          BY <4>2, BigHeld
        <5> QED BY <5>1, <1>11, <2>3
      <4> QED BY <4>1, <4>2
    <3>2. \A g, k \in held \cup {h} : g.at = k.at => g = k
      BY <3>1 DEF HeapInv, Owned
    <3>3. ASSUME NEW g \in Small
          PROVE  /\ units'[g.at - 1] = SLOB_UNITS(g.size + SLOB_UNIT)
                 /\ g.at - 1 \notin Ring' \cup Transit' /\ \A r \in Records : g.at - 1 # r.bb
      <4>1. g.at - 1 \in InUse /\ units[g.at - 1] = SLOB_UNITS(g.size + SLOB_UNIT)
        BY SmallHeld
      <4>2. \A r \in Records : g.at - 1 # r.bb
        BY DEF HeapInv, Owned
      <4> QED BY <4>1, <4>2, <1>4, <2>6
    <3>4. /\ units'[h.at - 1] = SLOB_UNITS(h.size + SLOB_UNIT)
          /\ h.at - 1 \notin Ring' \cup Transit' /\ \A r \in Records : h.at - 1 # r.bb
      <4>1. w = SLOB_UNITS(h.size + SLOB_UNIT)
        BY <1>2, <1>6, <1>12, <2>3 DEF Asked, Wanted
      <4>2. \A r \in Records : c # r.bb
        BY <1>10 DEF InUse
      <4> QED BY <4>1, <4>2, <1>4, <2>3, <2>6
    <3>5. \A g \in (held \cup {h}) \ (Small \cup {h}) : \E r \in Records : Knows(r, g)
      BY DEF HeapInv, Owned
    <3> QED BY <3>2, <3>3, <3>4, <3>5, <2>2, <2>4, <1>8 DEF Owned
  <2>11. Typed'
    <3>1. h \in [at : 0 .. Top, size : Sizes]
      BY <1>6, <1>11, <2>1, Constants DEF Asked
    <3>2. held' \in SUBSET [at : 0 .. Top, size : Sizes]
      BY <3>1, <2>2 DEF HeapInv, Typed
    <3>3. /\ used \subseteq Page
          /\ bigblocks \in Seq([bb : Addr, pages : Page, order : 0 .. MaxOrder])
      BY DEF HeapInv, Typed, TypeOK
    <3> QED BY <3>2, <3>3, <1>1, <1>2, <1>4, <1>5, <2>2, <2>6 DEF Typed, TypeOK, CallType
  <2> QED BY <1>7, <2>6, <2>8, <2>9, <2>10, <2>11 DEF HeapInv
<1>13. CASE ~IsSmall(call.size)
  <2>1. held' = held /\ pc' = "big" /\ call' = [call EXCEPT !.b = c]
    BY <1>2, <1>13 DEF AllocTake
  <2>2. /\ call'.size = call.size /\ call'.want = call.want /\ call'.b = c
        /\ call' \in CallType
    BY <2>1, <1>5, <1>6 DEF CallType
  <2>3. Transit' = {c}
    BY <2>2, <1>5, Constants DEF Transit
  <2>4. Recorded' /\ Owned' /\ InUse' = InUse
    <3>1. \A x \in InUse : units'[x] = units[x] /\ x \notin Ring' /\ x \notin Transit'
      BY <1>4, <1>10, <2>3
    <3> QED BY <3>1, <1>1, <2>1, Keep
  <2>5. Tiled'
    <3>1. Blocks' = (Ring' \ {arena}) \cup {c} \cup InUse
      BY <2>3, <2>4 DEF Blocks, Free
    <3> QED BY <3>1, <1>4, <1>9 DEF Tiled
  <2>6. Typed'
    <3>1. /\ used \subseteq Page /\ held \in SUBSET [at : 0 .. Top, size : Sizes]
          /\ bigblocks \in Seq([bb : Addr, pages : Page, order : 0 .. MaxOrder])
      BY DEF HeapInv, Typed, TypeOK
    <3> QED BY <3>1, <1>1, <1>2, <1>4, <1>5, <2>1, <2>2 DEF Typed, TypeOK, CallType
  <2>7. Recording'
    <3>1. Asked'
      BY <1>6, <2>2 DEF Asked
    <3>2. units'[c] = SLOB_UNITS(BigblockSize)
      BY <1>2, <1>4, <1>6, <1>13 DEF Asked, Wanted
    <3> QED BY <3>1, <3>2, <1>4, <1>5, <1>13, <2>2 DEF Recording
  <2>8. Searching' /\ Freeing' /\ Waiting'
    BY <2>1 DEF Searching, Freeing, Waiting
  <2> QED BY <1>7, <2>4, <2>5, <2>6, <2>7, <2>8 DEF HeapInv
<1> QED BY <1>12, <1>13

\* slob_free() of a block that has its units already.
LEMMA SlobFreeFacts ==
    ASSUME HeapInv, NEW b \in Addr \ Ring, NEW bytes \in Nat,
           bytes = 0 \/ units[b] = SLOB_UNITS(bytes),
           SlobFree(b, bytes, "idle")
    PROVE  /\ UNCHANGED heap /\ pc' = "free" /\ Transit' = {b} /\ call' \in CallType
           /\ Searching' /\ Freeing' /\ Recording' /\ Waiting'
<1>1. /\ units' = [units EXCEPT ![b] = IF bytes = 0 THEN units[b] ELSE SLOB_UNITS(bytes)]
      /\ pc' = "free" /\ next' = next /\ slobfree' = slobfree
      /\ call' = [call EXCEPT !.b = b, !.cur = slobfree, !.then = "idle"]
  BY DEF SlobFree
<1>2. units \in [Addr -> Nat] /\ call \in CallType /\ slobfree \in Ring /\ slobfree \in Addr
      /\ b # NULL
  BY HeapFacts DEF HeapInv, Typed, TypeOK, Listed, CallType
<1>3. units' = units
  BY <1>1, <1>2
<1>4. /\ call'.b = b /\ call'.cur = slobfree /\ call'.then = "idle" /\ call' \in CallType
  BY <1>1, <1>2 DEF CallType
<1>5. Transit' = {b}
  BY <1>2, <1>4 DEF Transit
<1>6. Ring' = Ring
  BY <1>1 DEF Ring
<1>7. Freeing'
  BY <1>2, <1>4, <1>6 DEF Freeing
<1>8. Searching' /\ Recording' /\ Waiting'
  BY <1>1 DEF Searching, Recording, Waiting
<1> QED BY <1>1, <1>3, <1>4, <1>5, <1>7, <1>8 DEF heap

\* The pages for a large block are handed out, or its record is given back.
LEMMA BigStep ==
    ASSUME HeapInv, Big PROVE HeapInv'
<1>1. pc = "big"
  BY DEF Big
<1>2. Typed /\ Listed /\ Tiled /\ Recorded /\ Owned /\ Recording
  BY DEF HeapInv
<1>3. PICK b \in Addr \ Ring : b = call.b /\ units[b] = SLOB_UNITS(BigblockSize)
  BY <1>1, <1>2 DEF Recording
<1>4. PICK n \in Sizes : n = call.size /\ ~IsSmall(n)
  BY <1>1, <1>2 DEF Recording, Asked
<1>5. PICK o \in 0 .. MaxOrder : o = find_order(n)
  BY OrderFacts
<1>6. Transit = {b} /\ b \in Blocks
  BY <1>2, <1>3, HeapFacts DEF Transit, Blocks
<1>7. CASE Fits(2 ^ o) = {}
  <2>1. SlobFree(b, BigblockSize, "idle") /\ UNCHANGED <<bigblocks, used, held>>
    BY <1>3, <1>4, <1>5, <1>7 DEF Big
  <2>2. BigblockSize \in Nat
    BY Constants
  <2>3. /\ UNCHANGED heap /\ pc' = "free" /\ Transit' = {b} /\ call' \in CallType
        /\ Searching' /\ Freeing' /\ Recording' /\ Waiting'
    BY <1>3, <2>1, <2>2, SlobFreeFacts
  <2>4. Typed'
    BY <1>2, <2>1, <2>3, FrameTyped
  <2>5. Listed' /\ Tiled' /\ Recorded' /\ Owned'
    BY <1>6, <2>1, <2>3, Frame
  <2> QED BY <2>3, <2>4, <2>5 DEF HeapInv
<1>8. CASE Fits(2 ^ o) # {}
  <2>1. PICK p : p = Min(Fits(2 ^ o))
    OBVIOUS
  <2>2. PICK r : r = [bb |-> b, pages |-> p, order |-> o]
    OBVIOUS
  <2>3. PICK h : h = [at |-> p * PageUnits, size |-> n]
    OBVIOUS
  <2>4. /\ bigblocks' = <<r>> \o bigblocks /\ used' = used \cup (p .. p + 2 ^ o - 1)
        /\ held' = held \cup {h} /\ pc' = "idle" /\ call' = NoCall /\ UNCHANGED heap
    BY <1>3, <1>4, <1>5, <1>8, <2>1, <2>2, <2>3 DEF Big, Return
  <2>5. PICK e \in Nat \ {0} : e = 2 ^ o
    BY OrderAssumption
  <2>6. p \in Page /\ p + e <= NPage /\ (p .. p + e - 1) \cap used = {}
    <3>1. Fits(e) \in SUBSET Nat /\ Fits(e) # {}
      BY <1>8, <2>5 DEF Fits, Page
    <3>2. p \in Fits(e)
      BY <3>1, <2>1, <2>5, MinOf
    <3> QED BY <3>2 DEF Fits
  <2>7. r.bb = b /\ r.pages = p /\ r.order = o /\ Pages(r) = p .. p + e - 1 /\ r \in RecordType
    BY <1>3, <1>5, <2>2, <2>5, <2>6 DEF Pages, RecordType
  <2>8. p \in Pages(r) /\ p \in Nat /\ Pages(r) \subseteq Page /\ Pages(r) \cap used = {}
    <3>1. NPage \in Nat /\ p \in Nat
      BY <2>6, Constants DEF Page
    <3>2. p \in p .. p + e - 1
      BY <3>1
    <3>3. p .. p + e - 1 \subseteq Page
      BY <2>6, <3>1 DEF Page
    <3> QED BY <2>6, <2>7, <3>1, <3>2, <3>3
  <2>9. \A q \in Records : q.bb # b /\ Pages(q) \cap Pages(r) = {} /\ q.bb \in InUse
    BY <1>2, <1>6, <2>8 DEF Recorded, InUse
  <2>10. /\ bigblocks' \in Seq(RecordType) /\ Distinct(bigblocks')
         /\ Records' = Records \cup {r}
    <3>1. Records = ElementsOf(bigblocks) /\ bigblocks \in Seq(RecordType)
      BY <1>2, RecordFacts
    <3>2. Distinct(bigblocks)
      BY <1>2 DEF Recorded
    <3>3. \A q \in ElementsOf(bigblocks) : q.bb # r.bb /\ Pages(q) \cap Pages(r) = {}
      BY <2>7, <2>9, <3>1
    <3>4. /\ <<r>> \o bigblocks \in Seq(RecordType) /\ Distinct(<<r>> \o bigblocks)
          /\ ElementsOf(<<r>> \o bigblocks) = ElementsOf(bigblocks) \cup {r}
      <4> HIDE DEF RecordType
      <4> QED BY <2>7, <3>1, <3>2, <3>3, RecordAdd
    <3>5. Records' = ElementsOf(bigblocks')
      BY DEF Records, ElementsOf
    <3> QED BY <2>4, <3>1, <3>4, <3>5
  <2>11. /\ next' = next /\ units' = units /\ slobfree' = slobfree
         /\ Ring' = Ring /\ Free' = Free
    BY <2>4 DEF heap, Ring, Free
  <2>12. h.at = p * PageUnits /\ h.size = n /\ ~IsSmall(h.size)
    BY <1>4, <2>3
  <2>13. Small' = Small
    BY <2>4, <2>12 DEF Small
  <2>14. InUse' = InUse \cup {b}
    BY <2>7, <2>10, <2>13 DEF InUse
  <2>15. /\ Searching' /\ Freeing' /\ Recording' /\ Waiting' /\ Transit' = {}
         /\ call' \in CallType
    BY <2>4, IdleCall
  <2>16. Blocks' = Blocks
    BY <1>6, <2>11, <2>14, <2>15 DEF Blocks
  <2>17. BigPages' = BigPages \cup Pages(r)
    BY <2>10 DEF BigPages
  <2>18. HeapUnits' = HeapUnits
    <3>1. used' = used \cup Pages(r)
      BY <2>4, <2>5, <2>7
    <3>2. used' \ BigPages' = used \ BigPages
      BY <3>1, <2>8, <2>17
    <3> QED BY <3>2 DEF HeapUnits
  <2>19. Tiled'
    BY <1>2, <2>11, <2>16, <2>18 DEF Tiled
  <2>20. Listed'
    BY <1>2, <2>11 DEF Listed
  <2>21. Recorded'
    <3>1. \A q \in Records : /\ units'[q.bb] = SLOB_UNITS(BigblockSize)
                             /\ q.bb \notin Ring' \cup Transit' /\ Pages(q) \subseteq used'
      BY <1>2, <2>4, <2>11, <2>15 DEF Recorded
    <3>2. /\ units'[r.bb] = SLOB_UNITS(BigblockSize)
          /\ r.bb \notin Ring' \cup Transit' /\ Pages(r) \subseteq used'
      BY <1>3, <2>4, <2>5, <2>7, <2>11, <2>15
    <3> QED BY <2>10, <3>1, <3>2 DEF Recorded
  <2>22. Owned'
    <3>1. h.at \div PageUnits = p /\ p \notin used
      BY <2>6, <2>8, <2>12, UnitsOfPage
    <3>2. ASSUME NEW g \in held PROVE g.at \div PageUnits \in used
      <4>1. CASE g \in Small
        BY <4>1, SmallHeld
      <4>2. CASE g \notin Small
        BY <4>2, BigHeld, BigTaken
      <4> QED BY <4>1, <4>2
    <3>3. \A g \in held : g.at # h.at
      BY <3>1, <3>2
    <3>4. \A g, k \in held \cup {h} : g.at = k.at => g = k
      BY <1>2, <3>3 DEF Owned
    <3>5. ASSUME NEW g \in Small
          PROVE  /\ units'[g.at - 1] = SLOB_UNITS(g.size + SLOB_UNIT)
                 /\ g.at - 1 \notin Ring' \cup Transit'
                 /\ \A q \in Records \cup {r} : g.at - 1 # q.bb
      BY <1>2, <1>6, <2>7, <2>11, <2>15 DEF Owned
    <3>6. Knows(r, h)
      BY <1>5, <2>7, <2>12 DEF Knows
    <3>7. \A g \in held \ Small : \E q \in Records : Knows(q, g)
      BY <1>2 DEF Owned
    <3>8. \A g \in (held \cup {h}) \ Small : \E q \in Records \cup {r} : Knows(q, g)
      BY <3>6, <3>7
    <3> QED BY <2>4, <2>10, <2>13, <3>4, <3>5, <3>8 DEF Owned
  <2>23. Typed'
    <3>1. h \in [at : 0 .. Top, size : Sizes]
      <4>1. p * PageUnits \in 0 .. Top
        BY <2>6, UnitsOfPage, Constants
      <4> QED BY <4>1, <2>3
    <3>2. held' \in SUBSET [at : 0 .. Top, size : Sizes]
      BY <1>2, <2>4, <3>1 DEF Typed
    <3>3. used' \subseteq Page
      BY <1>2, <2>4, <2>5, <2>7, <2>8 DEF Typed, TypeOK
    <3>4. bigblocks' \in Seq([bb : Addr, pages : Page, order : 0 .. MaxOrder])
      BY <2>10 DEF RecordType
    <3> QED BY <1>2, <2>4, <2>11, <2>15, <3>2, <3>3, <3>4 DEF Typed, TypeOK, CallType
  <2> QED BY <2>15, <2>19, <2>20, <2>21, <2>22, <2>23 DEF HeapInv
<1> QED BY <1>7, <1>8

\* kfree() of a large block: its pages are given back, and its record is freed.
LEMMA FreeBig ==
    ASSUME HeapInv, NEW block \in held, kfree(block),
           block.at % PageUnits = 0, Record(block.at) # {}
    PROVE  HeapInv'
<1>1. Typed /\ Listed /\ Tiled /\ Recorded /\ Owned
  BY DEF HeapInv
<1>2. pc = "idle" /\ held' = held \ {block} /\ call = NoCall /\ Transit = {}
  BY DEF kfree, HeapInv, Waiting, Transit, NoCall
<1>3. PICK k \in DOMAIN bigblocks :
          k = Min(Record(block.at)) /\ bigblocks[k].pages * PageUnits = block.at
  <2>1. Record(block.at) \in SUBSET Nat
    BY <1>1, RecordFacts DEF Record
  <2>2. Min(Record(block.at)) \in Record(block.at)
    BY <2>1, MinOf
  <2> QED BY <2>2 DEF Record
<1>4. PICK r \in Records : r = bigblocks[k]
  BY DEF Records
<1>5. /\ bigblocks' = Unrecorded(k) /\ used' = used \ Pages(r)
      /\ SlobFree(r.bb, BigblockSize, "idle")
  BY <1>3, <1>4 DEF kfree, Pages
<1>6. /\ r.bb \in Addr /\ r.bb \notin Ring /\ units[r.bb] = SLOB_UNITS(BigblockSize)
      /\ r.pages \in Page /\ r.pages \in Pages(r) /\ r.bb \in InUse
  <2>1. r.bb \in Addr /\ r.pages \in Page /\ r.pages \in Pages(r)
    BY <1>1, RecordFacts
  <2> QED BY <2>1, <1>1 DEF Recorded, InUse
<1>7. /\ UNCHANGED heap /\ pc' = "free" /\ Transit' = {r.bb} /\ call' \in CallType
      /\ Searching' /\ Freeing' /\ Recording' /\ Waiting'
  <2>1. r.bb \in Addr \ Ring /\ BigblockSize \in Nat
    BY <1>6, Constants
  <2> QED BY <2>1, <1>5, <1>6, SlobFreeFacts
<1>8. /\ bigblocks' \in Seq(RecordType) /\ Distinct(bigblocks') /\ Records' = Records \ {r}
  <2>1. Records = ElementsOf(bigblocks) /\ bigblocks \in Seq(RecordType)
    BY <1>1, RecordFacts
  <2>2. Distinct(bigblocks)
    BY <1>1 DEF Recorded
  <2>3. PICK t : t = SubSeq(bigblocks, 1, k - 1) \o SubSeq(bigblocks, k + 1, Len(bigblocks))
    OBVIOUS
  <2>4. /\ t \in Seq(RecordType) /\ Distinct(t)
        /\ ElementsOf(t) = ElementsOf(bigblocks) \ {bigblocks[k]}
    <3> HIDE DEF RecordType
    <3> QED BY <2>1, <2>2, <2>3, RecordDrop
  <2>5. bigblocks' = t
    BY <1>5, <2>3 DEF Unrecorded
  <2>6. Records' = ElementsOf(t)
    BY <2>5 DEF Records, ElementsOf
  <2> QED BY <1>4, <2>1, <2>4, <2>5, <2>6
<1>9. \A q \in Records \ {r} : q.bb # r.bb /\ Pages(q) \cap Pages(r) = {}
  <2>1. ASSUME NEW q \in Records \ {r} PROVE q.bb # r.bb /\ Pages(q) \cap Pages(r) = {}
    <3>1. PICK j \in DOMAIN bigblocks : q = bigblocks[j]
      BY DEF Records
    <3>2. j # k
      BY <3>1, <1>4
    <3> QED BY <3>1, <3>2, <1>1, <1>4 DEF Recorded, Distinct
  <2> QED BY <2>1
<1>10. /\ next' = next /\ units' = units /\ slobfree' = slobfree
       /\ Ring' = Ring /\ Free' = Free
  BY <1>7 DEF heap, Ring, Free
<1>11. block \notin Small
  <2>1. ASSUME block \in Small PROVE FALSE
    <3>1. block.at \div PageUnits \notin BigPages
      BY <2>1, SmallHeld
    <3>2. block.at \div PageUnits = r.pages
      BY <1>3, <1>4, <1>6, UnitsOfPage
    <3> QED BY <3>1, <3>2, <1>6 DEF BigPages
  <2> QED BY <2>1
<1>12. Small' = Small
  BY <1>2, <1>11 DEF Small
<1>13. \A h \in Small : h.at - 1 # r.bb
  BY <1>1 DEF Owned
<1>14. InUse' = InUse \ {r.bb}
  BY <1>8, <1>9, <1>12, <1>13 DEF InUse
<1>15. Blocks' = Blocks
  BY <1>2, <1>6, <1>7, <1>10, <1>14 DEF Blocks
<1>16. BigPages = BigPages' \cup Pages(r)
  BY <1>8 DEF BigPages
<1>17. HeapUnits' = HeapUnits
  <2>1. used' \ BigPages' = used \ BigPages
    BY <1>5, <1>16
  <2> QED BY <2>1 DEF HeapUnits
<1>18. Listed' /\ Tiled'
  BY <1>1, <1>10, <1>15, <1>17 DEF Listed, Tiled
<1>19. Recorded'
  <2>1. \A q \in Records \ {r} : /\ units'[q.bb] = SLOB_UNITS(BigblockSize)
                                 /\ q.bb \notin Ring' \cup Transit' /\ Pages(q) \subseteq used'
    BY <1>1, <1>5, <1>7, <1>9, <1>10 DEF Recorded
  <2> QED BY <2>1, <1>8 DEF Recorded
<1>20. Owned'
  <2>1. \A g, h \in held' : g.at = h.at => g = h
    BY <1>1, <1>2 DEF Owned
  <2>2. \A h \in Small : /\ units'[h.at - 1] = SLOB_UNITS(h.size + SLOB_UNIT)
                         /\ h.at - 1 \notin Ring' \cup Transit'
                         /\ \A q \in Records \ {r} : h.at - 1 # q.bb
    BY <1>1, <1>7, <1>10, <1>13 DEF Owned
  <2>3. ASSUME NEW g \in (held \ {block}) \ Small PROVE \E q \in Records \ {r} : Knows(q, g)
    <3>1. PICK q \in Records : Knows(q, g)
      BY <1>1 DEF Owned
    <3>2. g.at # block.at
      BY <1>1 DEF Owned
    <3>3. q # r
      BY <3>1, <3>2, <1>3, <1>4 DEF Knows
    <3> QED BY <3>1, <3>3
  <2> QED BY <2>1, <2>2, <2>3, <1>2, <1>8, <1>12 DEF Owned
<1>21. Typed'
  <2>1. used' \subseteq Page /\ held' \in SUBSET [at : 0 .. Top, size : Sizes]
    BY <1>1, <1>2, <1>5 DEF Typed, TypeOK
  <2>2. bigblocks' \in Seq([bb : Addr, pages : Page, order : 0 .. MaxOrder])
    BY <1>8 DEF RecordType
  <2> QED BY <1>1, <1>7, <1>10, <2>1, <2>2 DEF Typed, TypeOK, CallType
<1> QED BY <1>7, <1>18, <1>19, <1>20, <1>21 DEF HeapInv

\* kfree() of a small block.
LEMMA FreeSmall ==
    ASSUME HeapInv, NEW block \in held, kfree(block),
           ~(block.at % PageUnits = 0 /\ Record(block.at) # {})
    PROVE  HeapInv'
<1>1. Typed /\ Listed /\ Tiled /\ Recorded /\ Owned
  BY DEF HeapInv
<1>2. pc = "idle" /\ held' = held \ {block} /\ call = NoCall /\ Transit = {}
  BY DEF kfree, HeapInv, Waiting, Transit, NoCall
<1>3. bigblocks' = bigblocks /\ used' = used /\ SlobFree(block.at - 1, 0, "idle")
  BY DEF kfree
<1>4. block \in Small
  <2>1. ASSUME block \notin Small PROVE FALSE
    <3>1. PICK r \in Records : Knows(r, block) /\ block.at % PageUnits = 0
      BY <2>1, BigHeld
    <3>2. PICK k \in DOMAIN bigblocks : r = bigblocks[k]
      BY DEF Records
    <3>3. k \in Record(block.at)
      BY <3>1, <3>2 DEF Record, Knows
    <3> QED BY <3>1, <3>3
  <2> QED BY <2>1
<1>5. PICK b \in Addr \ Ring : b = block.at - 1 /\ b \in InUse
  BY <1>4, SmallHeld, UseApart
<1>6. /\ UNCHANGED heap /\ pc' = "free" /\ Transit' = {b} /\ call' \in CallType
      /\ Searching' /\ Freeing' /\ Recording' /\ Waiting'
  <2>1. 0 \in Nat /\ SlobFree(b, 0, "idle")
    BY <1>3, <1>5
  <2> QED BY <2>1, SlobFreeFacts
<1>7. /\ next' = next /\ units' = units /\ slobfree' = slobfree
      /\ Ring' = Ring /\ Free' = Free
  BY <1>6 DEF heap, Ring, Free
<1>8. Records' = Records /\ BigPages' = BigPages
  BY <1>3 DEF Records, BigPages
<1>9. Small' = Small \ {block}
  BY <1>2 DEF Small
<1>10. ASSUME NEW h \in Small, h # block PROVE h.at - 1 # b
  <2>1. h \in held /\ h.at \in Int
    BY SmallHeld
  <2>2. block.at \in Int
    BY <1>4, SmallHeld
  <2>3. h.at # block.at
    BY <1>1, <1>10, <2>1 DEF Owned
  <2> QED BY <2>1, <2>2, <2>3, <1>5
<1>11. \A r \in Records : r.bb # b
  BY <1>1, <1>4, <1>5 DEF Owned
<1>12. InUse' = InUse \ {b}
  <2>1. {h.at - 1 : h \in Small \ {block}} = {h.at - 1 : h \in Small} \ {b}
    BY <1>4, <1>5, <1>10
  <2> QED BY <2>1, <1>8, <1>9, <1>11 DEF InUse
<1>13. Blocks' = Blocks
  BY <1>2, <1>5, <1>6, <1>7, <1>12 DEF Blocks
<1>14. HeapUnits' = HeapUnits
  BY <1>3, <1>8 DEF HeapUnits
<1>15. Listed' /\ Tiled'
  BY <1>1, <1>7, <1>13, <1>14 DEF Listed, Tiled
<1>16. Recorded'
  BY <1>1, <1>3, <1>6, <1>7, <1>8, <1>11 DEF Recorded
<1>17. Owned'
  <2>1. \A g, h \in held' : g.at = h.at => g = h
    BY <1>1, <1>2 DEF Owned
  <2>2. ASSUME NEW h \in Small \ {block}
        PROVE  /\ units'[h.at - 1] = SLOB_UNITS(h.size + SLOB_UNIT)
               /\ h.at - 1 \notin Ring' \cup Transit' /\ \A q \in Records : h.at - 1 # q.bb
    BY <1>1, <1>6, <1>7, <1>10 DEF Owned
  <2>3. \A g \in (held \ {block}) \ (Small \ {block}) : \E q \in Records : Knows(q, g)
    BY <1>1 DEF Owned
  <2> QED BY <2>1, <2>2, <2>3, <1>2, <1>8, <1>9 DEF Owned
<1>18. Typed'
  <2>1. held' \in SUBSET [at : 0 .. Top, size : Sizes]
    BY <1>1, <1>2 DEF Typed
  <2> QED BY <1>1, <1>3, <1>6, <1>7, <2>1 DEF Typed, TypeOK, CallType
<1> QED BY <1>6, <1>15, <1>16, <1>17, <1>18 DEF HeapInv

-----------------------------------------------------------------------------
\* A list nx and units un, as they are between the steps of linking a block.
\* The blocks of X may touch the next one.
Shape(nx, un, S, X) ==
    /\ nx \in [Addr -> Addr \cup {NULL}] /\ un \in [Addr -> Nat]
    /\ \A a \in Addr : a + un[a] <= Top
    /\ S = {a \in Addr : nx[a] # NULL} /\ IsRing(nx, S) /\ un[arena] = 1
    /\ Tiles(un, (S \ {arena}) \cup InUse, HeapUnits)
    /\ \A e \in S \ ({arena} \cup X) : nx[e] = arena \/ e + un[e] < nx[e]
    /\ \A x \in InUse : un[x] = units[x] /\ x \notin S

\* The list and the units with the block behind p joined to p.
JoinedNext(nx, p) == [nx EXCEPT ![p] = nx[nx[p]], ![nx[p]] = NULL]
JoinedUnits(nx, un, p) == [un EXCEPT ![p] = un[p] + un[nx[p]], ![nx[p]] = 0]

\* A block that touches the next one is joined to it.
LEMMA Join ==
    ASSUME HeapInv, NEW nx, NEW un, NEW S, NEW X, NEW p, NEW q,
           Shape(nx, un, S, X), p \in S, p # arena, q = nx[p], q # arena, q \notin X,
           q = p + un[p]
    PROVE  /\ Shape(JoinedNext(nx, p), JoinedUnits(nx, un, p), S \ {q}, X \ {p})
           /\ q \in S /\ p < q
<1>1. /\ nx \in [Addr -> Addr \cup {NULL}] /\ un \in [Addr -> Nat]
      /\ \A a \in Addr : a + un[a] <= Top
      /\ S = {a \in Addr : nx[a] # NULL} /\ IsRing(nx, S) /\ un[arena] = 1
      /\ Tiles(un, (S \ {arena}) \cup InUse, HeapUnits)
      /\ \A e \in S \ ({arena} \cup X) : nx[e] = arena \/ e + un[e] < nx[e]
      /\ \A x \in InUse : un[x] = units[x] /\ x \notin S
  BY DEF Shape
<1>2. Addr \subseteq Int /\ arena \in Addr /\ NULL \notin Addr
  BY HeapFacts DEF HeapInv
<1>3. q \in S /\ p < q /\ p \in Int /\ q \in Int /\ p # q /\ p \in Addr /\ q \in Addr
  <2>1. q \in S /\ p < q
    <3>1. IsRing(nx, S)
      BY <1>1
    <3>2. nx[p] \in S /\ (nx[p] # arena => p < nx[p])
      BY <3>1 DEF IsRing
    <3>3. nx[p] = q
      OBVIOUS
    <3> QED BY <3>2, <3>3
  <2>2. S \subseteq Addr
    BY <1>1
  <2>3. p \in Int /\ q \in Int /\ p \in Addr /\ q \in Addr
    BY <2>1, <2>2, <1>2
  <2> QED BY <2>1, <2>3
<1>4. nx[q] \in S /\ nx[q] \in Addr /\ nx[q] # NULL /\ nx[q] \in Int
  BY <1>1, <1>2, <1>3 DEF IsRing
<1>5. un[p] \in Nat /\ un[q] \in Nat
  BY <1>1, <1>3
<1>6. PICK ny : ny = JoinedNext(nx, p)
  OBVIOUS
<1>7. PICK vn : vn = JoinedUnits(nx, un, p)
  OBVIOUS
<1>8. ny[p] = nx[q] /\ ny[q] = NULL /\ \A a \in Addr \ {p, q} : ny[a] = nx[a]
  BY <1>1, <1>3, <1>6 DEF JoinedNext
<1>9. vn[p] = un[p] + un[q] /\ vn[q] = 0 /\ \A a \in Addr \ {p, q} : vn[a] = un[a]
  BY <1>1, <1>3, <1>7 DEF JoinedUnits
<1>10. ny \in [Addr -> Addr \cup {NULL}]
  BY <1>1, <1>3, <1>4, <1>6 DEF JoinedNext
<1>11. vn \in [Addr -> Nat]
  <2>1. un[p] + un[q] \in Nat
    BY <1>5
  <2>2. vn = [un EXCEPT ![p] = un[p] + un[q], ![q] = 0]
    BY <1>7 DEF JoinedUnits
  <2> QED BY <2>1, <2>2, <1>1
<1>12. \A a \in Addr : a + vn[a] <= Top
  <2>1. p + vn[p] = q + un[q] /\ q + vn[q] <= q + un[q]
    BY <1>3, <1>5, <1>9
  <2>2. q + un[q] <= Top
    BY <1>1, <1>3
  <2>3. p + vn[p] <= Top /\ q + vn[q] <= Top
    BY <2>1, <2>2, <1>3, <1>5, <1>9, Constants
  <2> QED BY <2>3, <1>1, <1>9
<1>13. S \ {q} = {a \in Addr : ny[a] # NULL}
  BY <1>1, <1>3, <1>4, <1>8
<1>14. IsRing(ny, S \ {q})
  <2>1. S \in SUBSET Int
    BY <1>1, <1>2
  <2>2. \A a \in S \ {p, q} : ny[a] = nx[a]
    BY <1>1, <1>8
  <2>3. ny[p] = nx[q]
    BY <1>8
  <2>4. Dropped(nx, ny, S, p, q)
    BY <2>1, <2>2, <2>3 DEF Dropped
  <2>5. IsRing(nx, S)
    BY <1>1
  <2> QED BY <2>4, <2>5, RingDrop
<1>15. vn[arena] = 1
  BY <1>1, <1>2, <1>9
<1>16. \A x \in InUse : vn[x] = units[x] /\ x \notin S \ {q}
  <2>1. \A x \in InUse : x \in Addr /\ x # p /\ x # q
    BY <1>1, <1>3, UseApart
  <2> QED BY <2>1, <1>1, <1>9
<1>17. Tiles(vn, ((S \ {q}) \ {arena}) \cup InUse, HeapUnits)
  <2> DEFINE B == (S \ {arena}) \cup InUse
  <2>1. ((S \ {q}) \ {arena}) \cup InUse = B \ {q}
    BY <1>1, <1>3
  <2>2. p \in B /\ q \in B /\ Tiles(un, B, HeapUnits)
    BY <1>1, <1>3
  <2>3. \A b \in B \ {p, q} : vn[b] = un[b]
    <3>1. \A b \in B : b \in Addr
      BY <1>1, UseApart
    <3> QED BY <3>1, <1>9
  <2>4. vn[p] = un[p] + un[q]
    BY <1>9
  <2> HIDE DEF B
  <2>5. Tiles(vn, B \ {q}, HeapUnits)
    BY <2>2, <2>3, <2>4, TileJoin
  <2> QED BY <2>1, <2>5
<1>18. ASSUME NEW e \in (S \ {q}) \ ({arena} \cup (X \ {p}))
       PROVE  ny[e] = arena \/ e + vn[e] < ny[e]
  <2>1. CASE e = p
    <3>1. nx[q] = arena \/ q + un[q] < nx[q]
      BY <1>1, <1>3
    <3>2. p + vn[p] = q + un[q]
      BY <1>3, <1>5, <1>9
    <3> QED BY <2>1, <3>1, <3>2, <1>8
  <2>2. CASE e # p
    <3>1. e \in S \ ({arena} \cup X) /\ e \in Addr \ {p, q}
      BY <1>1, <1>18, <2>2
    <3> QED BY <3>1, <1>1, <1>8, <1>9
  <2> QED BY <2>1, <2>2
<1>19. Shape(ny, vn, S \ {q}, X \ {p})
  BY <1>10, <1>11, <1>12, <1>13, <1>14, <1>15, <1>16, <1>17, <1>18 DEF Shape
<1> QED BY <1>3, <1>6, <1>7, <1>19

\* The place behind c is the one for b.
LEMMA PlaceFacts ==
    ASSUME HeapInv, pc = "free", NEW b, b = call.b, NEW c, c = call.cur, GoesBehind(b, c)
    PROVE  /\ b \in Addr /\ b \in 0 .. Top - 1 /\ b # arena /\ b \notin Ring /\ b \notin InUse
           /\ c \in Ring /\ c \in Addr /\ c < b /\ next[c] \in Ring
           /\ next[c] = arena \/ b < next[c]
           /\ Transit = {b} /\ Blocks = ((Ring \cup {b}) \ {arena}) \cup InUse
           /\ c # arena => c + units[c] <= b
           /\ next[c] = arena \/ b + units[b] <= next[c]
           /\ units[b] \in Nat /\ units[c] \in Nat /\ b + units[b] # arena
           /\ c = arena => c + units[c] # b
<1>1. Typed /\ Listed /\ Tiled /\ Freeing
  BY DEF HeapInv
<1>2. b \in Addr \ Ring /\ c \in Ring
  BY <1>1 DEF Freeing
<1>3. arena \in Ring /\ arena \in Int /\ b # arena /\ b \in 0 .. Top - 1 /\ b \in Int
      /\ c \in Addr /\ c \in Int /\ arena < 0 /\ b # NULL
  BY <1>1, <1>2, HeapFacts DEF Listed, IsRing, arena
<1>4. /\ next[c] \in Ring /\ next[c] \in Int
      /\ next[c] = arena => \A d \in Ring : d <= c
      /\ next[c] # arena => c < next[c]
  BY <1>1, <1>2, HeapFacts DEF Listed, IsRing
<1>5. c < b /\ (next[c] = arena \/ b < next[c])
  BY <1>2, <1>3, <1>4, HeapFacts DEF GoesBehind, arena
<1>6. Transit = {b}
  BY <1>3 DEF Transit
<1>7. Blocks = ((Ring \cup {b}) \ {arena}) \cup InUse
  BY <1>3, <1>6 DEF Blocks, Free
<1>8. \A d, e \in Blocks : d < e => d + units[d] <= e
  BY <1>1 DEF Tiled, Tiles
<1>9. b \in Blocks /\ (c # arena => c \in Blocks) /\ (next[c] # arena => next[c] \in Blocks)
  BY <1>2, <1>3, <1>4, <1>7
<1>10. c # arena => c + units[c] <= b
  BY <1>5, <1>8, <1>9
<1>11. next[c] = arena \/ b + units[b] <= next[c]
  BY <1>5, <1>8, <1>9
<1>12. units[b] \in Nat /\ units[c] \in Nat
  BY <1>1, <1>2, <1>3, HeapFacts
<1>13. b + units[b] # arena
  BY <1>3, <1>12
<1>14. c = arena => c + units[c] # b
  <2>1. units[arena] = 1
    BY <1>1 DEF Listed
  <2> QED BY <2>1, <1>3 DEF arena
<1>15. b \notin InUse
  BY <1>6, UseApart
<1> QED BY <1>2, <1>3, <1>4, <1>5, <1>6, <1>7, <1>10, <1>11, <1>12, <1>13, <1>14, <1>15

\* The block b is linked behind c, and not yet joined to anything.
LinkedIn(c, b) == [next EXCEPT ![c] = b, ![b] = next[c]]

LEMMA LinkIn ==
    ASSUME HeapInv, pc = "free", NEW b, b = call.b, NEW c, c = call.cur, GoesBehind(b, c)
    PROVE  Shape(LinkedIn(c, b), units, Ring \cup {b}, {b, c})
<1>1. Typed /\ Listed /\ Tiled
  BY DEF HeapInv
<1>2. /\ b \in Addr /\ b \in 0 .. Top - 1 /\ b # arena /\ b \notin Ring /\ b \notin InUse
      /\ c \in Ring /\ c \in Addr /\ c < b /\ next[c] \in Ring
      /\ next[c] = arena \/ b < next[c]
      /\ Blocks = ((Ring \cup {b}) \ {arena}) \cup InUse
  BY PlaceFacts
<1>3. next \in [Addr -> Addr \cup {NULL}] /\ units \in [Addr -> Nat]
      /\ \A a \in Addr : a + units[a] <= Top
  BY <1>1 DEF Typed, TypeOK
<1>4. Ring \subseteq Addr /\ Ring \in SUBSET Int /\ NULL \notin Addr /\ b \in Int /\ c # b
      /\ next[c] \in Addr
  BY <1>1, <1>2, HeapFacts
<1>5. PICK nx : nx = LinkedIn(c, b)
  OBVIOUS
<1>6. nx[c] = b /\ nx[b] = next[c] /\ \A a \in Addr \ {b, c} : nx[a] = next[a]
  BY <1>2, <1>3, <1>4, <1>5 DEF LinkedIn
<1>7. nx \in [Addr -> Addr \cup {NULL}]
  BY <1>2, <1>3, <1>4, <1>5 DEF LinkedIn
<1>8. Ring \cup {b} = {a \in Addr : nx[a] # NULL}
  BY <1>2, <1>4, <1>6 DEF Ring
<1>9. IsRing(nx, Ring \cup {b})
  <2>1. \A a \in Ring \ {c} : nx[a] = next[a]
    BY <1>2, <1>4, <1>6
  <2>2. Inserted(next, nx, Ring, c, b)
    BY <1>2, <1>4, <1>6, <2>1 DEF Inserted
  <2>3. IsRing(next, Ring)
    BY <1>1 DEF Listed
  <2> QED BY <2>2, <2>3, RingInsert
<1>10. Tiles(units, ((Ring \cup {b}) \ {arena}) \cup InUse, HeapUnits)
  BY <1>1, <1>2 DEF Tiled
<1>11. ASSUME NEW e \in (Ring \cup {b}) \ ({arena} \cup {b, c})
       PROVE  nx[e] = arena \/ e + units[e] < nx[e]
  <2>1. e \in Ring \ {arena} /\ e \in Addr \ {b, c}
    BY <1>4, <1>11
  <2> QED BY <2>1, <1>1, <1>6 DEF Listed, United
<1>12. \A x \in InUse : units[x] = units[x] /\ x \notin Ring \cup {b}
  BY <1>2, UseApart
<1>13. units[arena] = 1
  BY <1>1 DEF Listed
<1>14. Shape(nx, units, Ring \cup {b}, {b, c})
  BY <1>3, <1>7, <1>8, <1>9, <1>10, <1>11, <1>12, <1>13 DEF Shape
<1> QED BY <1>5, <1>14

\* Does the block above touch b?
JoinsAbove(b, c) == b + units[b] = next[c]

\* The list n and the units u, in which b is linked behind c and joined to the
\* block above if it touches that.
AboveDone(b, c, n, u) ==
    /\ n[c] = b /\ u[c] = units[c]
    /\ n[b] = IF JoinsAbove(b, c) THEN next[next[c]] ELSE next[c]
    /\ u[b] = units[b] + IF JoinsAbove(b, c) THEN units[next[c]] ELSE 0
    /\ \A a \in Addr \ {b, c} :
          IF a = next[c] /\ JoinsAbove(b, c) THEN n[a] = NULL /\ u[a] = 0
                                             ELSE n[a] = next[a] /\ u[a] = units[a]
    /\ \E S : Shape(n, u, S, {c}) /\ b \in S /\ c \in S

LEMMA LinkAbove ==
    ASSUME HeapInv, pc = "free", NEW b, b = call.b, NEW c, c = call.cur, GoesBehind(b, c)
    PROVE  \E n, u : AboveDone(b, c, n, u)
<1>1. /\ b \in Addr /\ b \in 0 .. Top - 1 /\ b # arena /\ b \notin Ring /\ b \notin InUse
      /\ c \in Ring /\ c \in Addr /\ c < b /\ next[c] \in Ring
      /\ next[c] = arena \/ b < next[c]
      /\ next[c] = arena \/ b + units[b] <= next[c]
      /\ units[b] \in Nat /\ b + units[b] # arena
  BY PlaceFacts
<1>2. PICK nx : nx = LinkedIn(c, b)
  OBVIOUS
<1>3. PICK S : S = Ring \cup {b} /\ Shape(nx, units, S, {b, c})
  BY <1>2, LinkIn
<1>4. next \in [Addr -> Addr \cup {NULL}] /\ units \in [Addr -> Nat] /\ b # c
      /\ c \in Int /\ b \in Int /\ next[c] \in Addr /\ next[c] \in Int
  BY <1>1, HeapFacts DEF HeapInv, Typed, TypeOK
<1>5. nx[c] = b /\ nx[b] = next[c] /\ \A a \in Addr \ {b, c} : nx[a] = next[a]
  BY <1>1, <1>2, <1>4 DEF LinkedIn
<1>6. b \in S /\ c \in S
  BY <1>1, <1>3
<1>7. CASE JoinsAbove(b, c)
  <2>1. PICK q \in Addr : q = next[c] /\ q = b + units[b] /\ q # arena /\ q = nx[b]
    BY <1>1, <1>4, <1>5, <1>7 DEF JoinsAbove
  <2>2. q # b /\ q # c
    BY <1>1, <1>4, <2>1
  <2>3. PICK ny : ny = JoinedNext(nx, b)
    OBVIOUS
  <2>4. PICK vn : vn = JoinedUnits(nx, units, b)
    OBVIOUS
  <2>5. Shape(ny, vn, S \ {q}, {b, c} \ {b})
    <3>1. q \notin {b, c}
      BY <2>2
    <3>2. Shape(JoinedNext(nx, b), JoinedUnits(nx, units, b), S \ {q}, {b, c} \ {b})
      BY <1>1, <1>3, <1>6, <2>1, <3>1, Join
    <3> QED BY <3>2, <2>3, <2>4
  <2>6. Shape(ny, vn, S \ {q}, {c})
    <3>1. {b, c} \ {b} = {c}
      BY <1>4
    <3> QED BY <2>5, <3>1
  <2>7. nx \in [Addr -> Addr \cup {NULL}]
    BY <1>3 DEF Shape
  <2>8. ny[b] = nx[q] /\ ny[q] = NULL /\ \A a \in Addr \ {b, q} : ny[a] = nx[a]
    BY <1>1, <2>1, <2>2, <2>3, <2>7 DEF JoinedNext
  <2>9. vn[b] = units[b] + units[q] /\ vn[q] = 0 /\ \A a \in Addr \ {b, q} : vn[a] = units[a]
    BY <1>1, <1>4, <2>1, <2>2, <2>4 DEF JoinedUnits
  <2>10. ny[c] = b /\ vn[c] = units[c] /\ ny[b] = next[q]
    BY <1>1, <1>4, <1>5, <2>2, <2>8, <2>9
  <2>11. \A a \in Addr \ {b, c} : IF a = q THEN ny[a] = NULL /\ vn[a] = 0
                                          ELSE ny[a] = next[a] /\ vn[a] = units[a]
    BY <1>5, <2>8, <2>9
  <2>12. b \in S \ {q} /\ c \in S \ {q}
    BY <1>6, <2>2
  <2>13. AboveDone(b, c, ny, vn)
    BY <1>7, <2>1, <2>6, <2>9, <2>10, <2>11, <2>12 DEF AboveDone
  <2> QED BY <2>13
<1>8. CASE ~JoinsAbove(b, c)
  <2>1. ASSUME NEW e \in S \ ({arena} \cup {c}) PROVE nx[e] = arena \/ e + units[e] < nx[e]
    <3>1. CASE e = b
      BY <1>1, <1>4, <1>5, <1>8, <3>1 DEF JoinsAbove
    <3>2. CASE e # b
      BY <1>3, <2>1, <3>2 DEF Shape
    <3> QED BY <3>1, <3>2
  <2>2. Shape(nx, units, S, {c})
    BY <1>3, <2>1 DEF Shape
  <2>3. units[b] + 0 = units[b]
    BY <1>1
  <2>4. AboveDone(b, c, nx, units)
    BY <1>5, <1>6, <1>8, <2>2, <2>3 DEF AboveDone
  <2> QED BY <2>4
<1> QED BY <1>7, <1>8

\* What slob_free() makes of the list.
LEMMA LinkedShape ==
    ASSUME HeapInv, pc = "free", NEW b, b = call.b, NEW c, c = call.cur,
           GoesBehind(b, c), Linked(b, c)
    PROVE  /\ Shape(next', units', Ring', {}) /\ c \in Ring'
           /\ \E d \in Ring' : units'[d] >= units[b]
<1>1. /\ b \in Addr /\ b # arena /\ c \in Ring /\ c \in Addr /\ c < b /\ next[c] \in Ring
      /\ next[c] = arena \/ b < next[c]
      /\ c # arena => c + units[c] <= b
      /\ units[b] \in Nat /\ units[c] \in Nat /\ b + units[b] # arena
      /\ c = arena => c + units[c] # b
  BY PlaceFacts
<1>2. PICK n, u : AboveDone(b, c, n, u)
  BY LinkAbove
<1>3. PICK S : Shape(n, u, S, {c}) /\ b \in S /\ c \in S
  BY <1>2 DEF AboveDone
<1>4. /\ n[c] = b /\ u[c] = units[c]
      /\ n[b] = IF JoinsAbove(b, c) THEN next[next[c]] ELSE next[c]
      /\ u[b] = units[b] + IF JoinsAbove(b, c) THEN units[next[c]] ELSE 0
      /\ \A a \in Addr \ {b, c} :
            IF a = next[c] /\ JoinsAbove(b, c) THEN n[a] = NULL /\ u[a] = 0
                                               ELSE n[a] = next[a] /\ u[a] = units[a]
  BY <1>2 DEF AboveDone
<1>5. n \in [Addr -> Addr \cup {NULL}] /\ u \in [Addr -> Nat]
  BY <1>3 DEF Shape
<1>6. /\ next[c] \in Addr /\ next[c] \in Int /\ b \in Int /\ c \in Int /\ arena \in Int
      /\ b # c /\ units[next[c]] \in Nat
  BY <1>1, HeapFacts DEF HeapInv, arena
<1>7. JoinsAbove(b, c) => next[c] # b /\ next[c] # c
  BY <1>1, <1>6 DEF JoinsAbove
<1>8. u[b] \in Nat /\ u[b] >= units[b]
  BY <1>1, <1>4, <1>5, <1>6
<1>9. CASE c + units[c] = b
  <2>1. c # arena
    BY <1>1, <1>9
  <2>2. PICK ny : ny = JoinedNext(n, c)
    OBVIOUS
  <2>3. PICK vn : vn = JoinedUnits(n, u, c)
    OBVIOUS
  <2>4. b \notin {c} /\ b = n[c] /\ b = c + u[c]
    BY <1>4, <1>6, <1>9
  <2>5. Shape(ny, vn, S \ {b}, {c} \ {c})
    <3>1. Shape(JoinedNext(n, c), JoinedUnits(n, u, c), S \ {b}, {c} \ {c})
      BY <1>1, <1>3, <2>1, <2>4, Join
    <3> QED BY <3>1, <2>2, <2>3
  <2>6. ny[c] = n[b] /\ ny[b] = NULL /\ \A a \in Addr \ {b, c} : ny[a] = n[a]
    BY <1>1, <1>4, <1>5, <1>6, <2>2 DEF JoinedNext
  <2>7. vn[c] = u[c] + u[b] /\ vn[b] = 0 /\ \A a \in Addr \ {b, c} : vn[a] = u[a]
    BY <1>1, <1>4, <1>5, <1>6, <2>3 DEF JoinedUnits
  <2>8. next' = ny
    <3>1. ny \in [Addr -> Addr \cup {NULL}]
      BY <2>5 DEF Shape
    <3>2. next' = [a \in Addr |-> CASE a = c -> n[b]
                                    [] a = b -> NULL
                                    [] a = next[c] /\ JoinsAbove(b, c) -> NULL
                                    [] OTHER -> next[a]]
      BY <1>4, <1>9 DEF Linked, JoinsAbove
    <3>3. \A a \in Addr : next'[a] = ny[a]
      <4> SUFFICES ASSUME NEW a \in Addr PROVE next'[a] = ny[a]
        OBVIOUS
      <4>1. CASE a = c
        BY <3>2, <4>1, <1>4, <1>6, <1>7, <2>6
      <4>2. CASE a = b
        BY <3>2, <4>2, <1>4, <1>6, <2>6
      <4>3. CASE a \notin {b, c} /\ a = next[c] /\ JoinsAbove(b, c)
        BY <3>2, <4>3, <1>4, <1>6, <2>6
      <4>4. CASE a \notin {b, c} /\ ~(a = next[c] /\ JoinsAbove(b, c))
        BY <3>2, <4>4, <1>4, <1>6, <2>6
      <4> QED BY <4>1, <4>2, <4>3, <4>4
    <3>4. next' = [a \in Addr |-> next'[a]]
      BY <3>2
    <3>5. ny = [a \in Addr |-> ny[a]]
      BY <3>1
    <3> QED BY <3>3, <3>4, <3>5
  <2>9. units' = vn
    <3>1. vn \in [Addr -> Nat]
      BY <2>5 DEF Shape
    <3>2. units' = [a \in Addr |-> CASE a = c -> units[c] + u[b]
                                     [] a = b -> 0
                                     [] a = next[c] /\ JoinsAbove(b, c) -> 0
                                     [] OTHER -> units[a]]
      BY <1>4, <1>9 DEF Linked, JoinsAbove
    <3>3. \A a \in Addr : units'[a] = vn[a]
      <4> SUFFICES ASSUME NEW a \in Addr PROVE units'[a] = vn[a]
        OBVIOUS
      <4>1. CASE a = c
        BY <3>2, <4>1, <1>4, <1>6, <1>7, <2>7
      <4>2. CASE a = b
        BY <3>2, <4>2, <1>4, <1>6, <2>7
      <4>3. CASE a \notin {b, c} /\ a = next[c] /\ JoinsAbove(b, c)
        BY <3>2, <4>3, <1>4, <1>6, <2>7
      <4>4. CASE a \notin {b, c} /\ ~(a = next[c] /\ JoinsAbove(b, c))
        BY <3>2, <4>4, <1>4, <1>6, <2>7
      <4> QED BY <4>1, <4>2, <4>3, <4>4
    <3>4. units' = [a \in Addr |-> units'[a]]
      BY <3>2
    <3>5. vn = [a \in Addr |-> vn[a]]
      BY <3>1
    <3> QED BY <3>3, <3>4, <3>5
  <2>10. S \ {b} = Ring'
    BY <2>5, <2>8 DEF Shape, Ring
  <2>11. {c} \ {c} = {}
    OBVIOUS
  <2>12. c \in Ring' /\ units'[c] >= units[b]
    <3>1. units'[c] = units[c] + u[b]
      BY <1>4, <2>7, <2>9
    <3> QED BY <3>1, <1>1, <1>3, <1>6, <1>8, <2>10
  <2> QED BY <2>5, <2>8, <2>9, <2>10, <2>11, <2>12
<1>10. CASE c + units[c] # b
  <2>1. c # arena => c + units[c] < b
    BY <1>1, <1>6, <1>10
  <2>2. \A e \in S \ {arena} : n[e] = arena \/ e + u[e] < n[e]
    BY <1>3, <1>4, <2>1 DEF Shape
  <2>3. Shape(n, u, S, {})
    BY <1>3, <2>2 DEF Shape
  <2>4. next' = n
    <3>1. next' = [a \in Addr |-> CASE a = c -> b
                                    [] a = b -> n[b]
                                    [] a = next[c] /\ JoinsAbove(b, c) -> NULL
                                    [] OTHER -> next[a]]
      BY <1>4, <1>10 DEF Linked, JoinsAbove
    <3>2. \A a \in Addr : next'[a] = n[a]
      <4> SUFFICES ASSUME NEW a \in Addr PROVE next'[a] = n[a]
        OBVIOUS
      <4>1. CASE a = c
        BY <3>1, <4>1, <1>4, <1>6, <1>7
      <4>2. CASE a = b
        BY <3>1, <4>2, <1>4, <1>6, <1>7
      <4>3. CASE a \notin {b, c} /\ a = next[c] /\ JoinsAbove(b, c)
        BY <3>1, <4>3, <1>4, <1>6, <1>7
      <4>4. CASE a \notin {b, c} /\ ~(a = next[c] /\ JoinsAbove(b, c))
        BY <3>1, <4>4, <1>4, <1>6, <1>7
      <4> QED BY <4>1, <4>2, <4>3, <4>4
    <3>3. next' = [a \in Addr |-> next'[a]]
      BY <3>1
    <3>4. n = [a \in Addr |-> n[a]]
      BY <1>5
    <3> QED BY <3>2, <3>3, <3>4
  <2>5. units' = u
    <3>1. units' = [a \in Addr |-> CASE a = b -> u[b]
                                     [] a = next[c] /\ JoinsAbove(b, c) -> 0
                                     [] OTHER -> units[a]]
      BY <1>4, <1>10 DEF Linked, JoinsAbove
    <3>2. \A a \in Addr : units'[a] = u[a]
      BY <3>1, <1>4, <1>6, <1>7
    <3>3. units' = [a \in Addr |-> units'[a]]
      BY <3>1
    <3>4. u = [a \in Addr |-> u[a]]
      BY <1>5
    <3> QED BY <3>2, <3>3, <3>4
  <2>6. S = Ring'
    BY <2>3, <2>4 DEF Shape, Ring
  <2> QED BY <1>3, <1>8, <2>3, <2>4, <2>5, <2>6
<1> QED BY <1>9, <1>10

\* The end of slob_free().
LEMMA FreeLinkStep ==
    ASSUME HeapInv, FreeLink PROVE HeapInv'
<1>1. /\ pc = "free" /\ GoesBehind(call.b, call.cur) /\ Linked(call.b, call.cur)
      /\ slobfree' = call.cur /\ bigblocks' = bigblocks /\ used' = used /\ held' = held
  BY DEF FreeLink
<1>2. PICK b, c : b = call.b /\ c = call.cur
  OBVIOUS
<1>3. /\ Shape(next', units', Ring', {}) /\ c \in Ring'
      /\ \E d \in Ring' : units'[d] >= units[b]
  BY <1>1, <1>2, LinkedShape
<1>4. /\ next' \in [Addr -> Addr \cup {NULL}] /\ units' \in [Addr -> Nat]
      /\ \A a \in Addr : a + units'[a] <= Top
      /\ IsRing(next', Ring') /\ units'[arena] = 1
      /\ Tiles(units', (Ring' \ {arena}) \cup InUse, HeapUnits)
      /\ \A e \in Ring' \ {arena} : next'[e] = arena \/ e + units'[e] < next'[e]
      /\ \A x \in InUse : units'[x] = units[x] /\ x \notin Ring'
  BY <1>3 DEF Shape
<1>5. Typed /\ Freeing /\ call \in CallType
  BY DEF HeapInv, Typed, CallType
<1>6. call.then = "alloc" => Asked /\ call.grown = 1 /\ units[b] >= call.want
  BY <1>1, <1>2, <1>5 DEF Freeing
<1>7. c \in Addr /\ c \in Int /\ next'[c] \in Addr /\ units[b] \in Nat
  <2>1. c \in Addr /\ units[b] \in Nat
    BY <1>1, <1>2, PlaceFacts
  <2>2. Ring' \subseteq Addr
    BY DEF Ring
  <2>3. next'[c] \in Ring'
    BY <1>3, <1>4 DEF IsRing
  <2> QED BY <2>1, <2>2, <2>3, <1>5, HeapFacts
<1>8. Listed'
  BY <1>1, <1>2, <1>3, <1>4 DEF Listed, United
<1>9. ASSUME Transit' = {} PROVE Tiled' /\ Recorded' /\ Owned'
  <2>1. \A x \in InUse : units'[x] = units[x] /\ x \notin Ring' /\ x \notin Transit'
    BY <1>4, <1>9
  <2>2. Recorded' /\ Owned' /\ InUse' = InUse /\ BigPages' = BigPages
    BY <2>1, <1>1, Keep
  <2>3. Blocks' = (Ring' \ {arena}) \cup InUse
    BY <2>2, <1>9 DEF Blocks, Free
  <2>4. HeapUnits' = HeapUnits
    BY <2>2, <1>1 DEF HeapUnits
  <2> QED BY <2>2, <2>3, <2>4, <1>4 DEF Tiled
<1>10. ASSUME call' \in CallType, pc' \in {"idle", "alloc"} PROVE Typed'
  <2>1. slobfree' \in Addr
    BY <1>1, <1>2, <1>7
  <2> QED BY <2>1, <1>1, <1>4, <1>5, <1>10 DEF Typed, TypeOK, CallType
<1>11. CASE call.then = "alloc"
  <2>1. /\ pc' = "alloc"
        /\ call' = [call EXCEPT !.prev = c, !.b = NULL, !.cur = next'[c], !.then = "idle"]
    BY <1>1, <1>2, <1>11 DEF FreeLink
  <2>2. /\ call'.size = call.size /\ call'.want = call.want /\ call'.grown = call.grown
        /\ call'.prev = c /\ call'.cur = next'[c] /\ call'.b = NULL /\ call'.then = "idle"
        /\ call' \in CallType
    BY <1>5, <1>7, <2>1 DEF CallType
  <2>3. Transit' = {}
    BY <2>2 DEF Transit
  <2>4. Searching'
    <3>1. Asked'
      BY <1>6, <1>11, <2>2 DEF Asked
    <3>2. \A d \in Ring' : ~Between(c, d, c)
      <4>1. ASSUME NEW d \in Ring' PROVE ~Between(c, d, c)
        <5>1. d \in Int
          BY <1>5, HeapFacts DEF Ring
        <5> QED BY <5>1, <1>7 DEF Between
      <4> QED BY <4>1
    <3>3. \E d \in Ring' : units'[d] >= call'.want
      <4>1. PICK d \in Ring' : units'[d] >= units[b]
        BY <1>3
      <4>2. units'[d] \in Nat /\ call.want \in Nat
        BY <1>4, <1>5, <4>1 DEF Ring, CallType
      <4> QED BY <4>1, <4>2, <1>6, <1>7, <1>11, <2>2
    <3> QED BY <3>1, <3>2, <3>3, <1>1, <1>2, <1>3, <2>2 DEF Searching
  <2>5. Freeing' /\ Recording' /\ Waiting'
    BY <2>1 DEF Freeing, Recording, Waiting
  <2> QED BY <1>8, <1>9, <1>10, <2>1, <2>2, <2>3, <2>4, <2>5 DEF HeapInv
<1>12. CASE call.then # "alloc"
  <2>1. pc' = "idle" /\ call' = NoCall
    BY <1>12 DEF FreeLink, Return
  <2>2. /\ Searching' /\ Freeing' /\ Recording' /\ Waiting' /\ Transit' = {}
        /\ call' \in CallType
    BY <2>1, IdleCall
  <2> QED BY <1>8, <1>9, <1>10, <2>1, <2>2 DEF HeapInv
<1> QED BY <1>11, <1>12

-----------------------------------------------------------------------------
\* When no variable changes, the invariant stays.
LEMMA StutterStep ==
    ASSUME HeapInv, UNCHANGED vars PROVE HeapInv'
<1>1. /\ UNCHANGED <<heap, bigblocks, used, held>> /\ pc' = pc /\ call' = call
      /\ next' = next /\ units' = units /\ slobfree' = slobfree
  BY DEF vars, heap
<1>2. Transit' = Transit
  BY <1>1 DEF Transit
<1>3. Listed' /\ Tiled' /\ Recorded' /\ Owned' /\ Ring' = Ring
  BY <1>1, <1>2, Frame
<1>4. Typed'
  BY <1>1 DEF HeapInv, Typed, TypeOK
<1>5. Asked' = Asked
  BY <1>1 DEF Asked
<1>6. Searching' /\ Freeing' /\ Recording' /\ Waiting'
  BY <1>1, <1>3, <1>5 DEF HeapInv, Searching, Freeing, Recording, Waiting
<1> QED BY <1>3, <1>4, <1>6 DEF HeapInv

\* Every step keeps the invariant.
LEMMA HeapStep ==
    ASSUME HeapInv, [Next]_vars PROVE HeapInv'
<1>1. ASSUME NEW n \in Sizes, kmalloc(n) PROVE HeapInv'
  BY <1>1, KmallocStep
<1>2. ASSUME NEW block \in held, kfree(block) PROVE HeapInv'
  BY <1>2, FreeBig, FreeSmall
<1>3. CASE AllocTake
  BY <1>3, AllocTakeStep
<1>4. CASE AllocNext
  BY <1>4, AllocNextStep
<1>5. CASE AllocGrow
  BY <1>5, AllocGrowStep
<1>6. CASE AllocFail
  BY <1>6, AllocFailStep
<1>7. CASE Big
  BY <1>7, BigStep
<1>8. CASE FreeNext
  BY <1>8, FreeNextStep
<1>9. CASE FreeLink
  BY <1>9, FreeLinkStep
<1>10. CASE Stopped
  BY <1>10, StutterStep DEF Stopped
<1>11. CASE UNCHANGED vars
  BY <1>11, StutterStep
<1> QED BY <1>1, <1>2, <1>3, <1>4, <1>5, <1>6, <1>7, <1>8, <1>9, <1>10, <1>11 DEF Next, Run

\* Between two calls the blocks tile the pages of the heap, and the list is a
\* ring in order of address with gaps between its blocks.
LEMMA InvExact ==
    ASSUME HeapInv PROVE HeapExact
<1>1. Typed /\ Listed /\ Tiled /\ TypeOK
  BY DEF HeapInv, Typed
<1> SUFFICES ASSUME pc = "idle"
             PROVE  /\ InUse \cap Free = {}
                    /\ \A b, c \in InUse \cup Free : b # c => Extent(b) \cap Extent(c) = {}
                    /\ UNION {Extent(b) : b \in InUse \cup Free} = HeapUnits
                    /\ {slobfree, arena} \subseteq Ring
                    /\ \A b \in Ring :
                          /\ next[b] \in Ring
                          /\ next[b] = arena => \A c \in Ring : c <= b
                          /\ next[b] # arena =>
                                b < next[b] /\ \A c \in Ring : c <= b \/ next[b] <= c
                    /\ \A b \in Free : next[b] = arena \/ b + units[b] < next[b]
  BY <1>1 DEF HeapExact
<1>2. Transit = {}
  BY DEF HeapInv, Waiting, NoCall, Transit
<1>3. Blocks = InUse \cup Free
  BY <1>2 DEF Blocks
<1>4. InUse \cap Free = {}
  BY UseApart, <1>1, HeapFacts
<1>5. /\ \A b \in Blocks : b \in 0 .. Top - 1 /\ units[b] \in 1 .. Top - b
      /\ \A b, c \in Blocks : b < c => b + units[b] <= c
      /\ \A a \in 0 .. Top - 1 :
            a \in HeapUnits <=> \E b \in Blocks : b <= a /\ a < b + units[b]
  BY <1>1 DEF Tiled, Tiles
<1>6. Top \in Nat
  BY Constants
<1>7. ASSUME NEW b \in Blocks
      PROVE  \A a : a \in Extent(b) <=> a \in 0 .. Top - 1 /\ b <= a /\ a < b + units[b]
  <2>1. b \in 0 .. Top - 1 /\ units[b] \in 1 .. Top - b
    BY <1>5
  <2> QED BY <2>1, <1>6 DEF Extent
<1>8. ASSUME NEW b \in Blocks, NEW c \in Blocks, b < c PROVE Extent(b) \cap Extent(c) = {}
  <2>1. b + units[b] <= c
    BY <1>5, <1>8
  <2>2. b \in Int /\ c \in Int /\ units[b] \in Int
    BY <1>5, <1>6
  <2> QED BY <2>1, <2>2, <1>7
<1>9. ASSUME NEW b \in Blocks, NEW c \in Blocks, b # c PROVE Extent(b) \cap Extent(c) = {}
  <2>1. b < c \/ c < b
    BY <1>5, <1>6, <1>9
  <2> QED BY <2>1, <1>8
<1>10. HeapUnits \subseteq 0 .. Top - 1
  BY DEF HeapUnits, Addr
<1>11. UNION {Extent(b) : b \in Blocks} = HeapUnits
  <2>1. ASSUME NEW a PROVE a \in HeapUnits <=> \E b \in Blocks : a \in Extent(b)
    BY <1>5, <1>7, <1>10
  <2> QED BY <2>1
<1>12. IsRing(next, Ring) /\ slobfree \in Ring
  BY <1>1 DEF Listed
<1>13. \A b \in Free : next[b] = arena \/ b + units[b] < next[b]
  BY <1>1 DEF Listed, United, Free
<1> QED BY <1>3, <1>4, <1>9, <1>11, <1>12, <1>13 DEF IsRing

\* The record that kfree() and ksize() find for a large block is the one of it.
LEMMA RecordFound ==
    ASSUME HeapInv, NEW h \in held, h \notin Small
    PROVE  /\ h.at % PageUnits = 0 /\ Record(h.at) # {}
           /\ bigblocks[Min(Record(h.at))].order = find_order(h.size)
<1>1. PICK r \in Records : Knows(r, h) /\ r.pages \in Page /\ h.at % PageUnits = 0
  BY BigHeld
<1>2. PICK k \in DOMAIN bigblocks : r = bigblocks[k]
  BY DEF Records
<1>3. k \in Record(h.at)
  BY <1>1, <1>2 DEF Record, Knows
<1>4. Record(h.at) \in SUBSET Nat
  BY RecordFacts DEF Record, HeapInv
<1>5. PICK m \in DOMAIN bigblocks :
          m = Min(Record(h.at)) /\ bigblocks[m].pages * PageUnits = h.at
  <2>1. Min(Record(h.at)) \in Record(h.at)
    BY <1>3, <1>4, MinOf
  <2> QED BY <2>1 DEF Record
<1>6. bigblocks[m] \in Records /\ bigblocks[m].pages \in Page
  BY RecordFacts DEF Records, HeapInv
<1>7. bigblocks[m].pages = r.pages
  <2>1. bigblocks[m].pages * PageUnits = r.pages * PageUnits
    BY <1>1, <1>5 DEF Knows
  <2> QED BY <2>1, <1>1, <1>6, UnitsOfPage
<1>8. m = k
  <2>1. r.pages \in Pages(r) /\ r.pages \in Pages(bigblocks[m])
    BY <1>6, <1>7, RecordFacts DEF HeapInv
  <2>2. Distinct(bigblocks)
    BY DEF HeapInv, Recorded
  <2> QED BY <2>1, <2>2, <1>2 DEF Distinct
<1> QED BY <1>1, <1>2, <1>3, <1>5, <1>8 DEF Knows

\* A block has the room it was asked for.
LEMMA InvServed ==
    ASSUME HeapInv PROVE Served
<1>1. ASSUME NEW h \in held, Exact(h.size) PROVE Room(h) >= h.size
  <2>1. h.size \in Sizes /\ h.size \in Nat
    BY RecordFacts, Constants DEF HeapInv
  <2>2. CASE IsSmall(h.size)
    <3>1. h \in Small
      BY <2>2 DEF Small
    <3>2. units[h.at - 1] = SLOB_UNITS(h.size + SLOB_UNIT)
      BY <3>1, SmallHeld
    <3>3. (units[h.at - 1] - 1) * SLOB_UNIT >= h.size
      <4>1. h.size + SLOB_UNIT \in Nat
        BY <2>1, Constants
      <4> QED BY <3>2, <4>1, <2>1, Rounding, SmallRoom
    <3> QED BY <2>2, <3>3 DEF Room
  <2>3. CASE ~IsSmall(h.size)
    <3>1. h \notin Small
      BY <2>3 DEF Small
    <3>2. /\ h.at % PageUnits = 0 /\ Record(h.at) # {}
          /\ bigblocks[Min(Record(h.at))].order = find_order(h.size)
      BY <3>1, RecordFound
    <3>3. Room(h) = PAGE_SIZE * 2 ^ find_order(h.size)
      BY <2>3, <3>2 DEF Room, ksize
    <3> QED BY <3>3, <2>1, <1>1, OrderFacts
  <2> QED BY <2>2, <2>3
<1> QED BY <1>1 DEF Served, HeapInv, Waiting

\* The search grows the heap once.
LEMMA InvGrowsOnce ==
    ASSUME HeapInv PROVE GrowsOnce
<1>1. call.grown \in 0 .. 1
  BY DEF HeapInv, Typed
<1> QED BY <1>1 DEF GrowsOnce

-----------------------------------------------------------------------------
\* The invariant holds in every state of slob_alloc(), slob_free(),
\* __kmalloc() and kfree().
THEOREM HeapInvariant == Spec => []HeapInv
<1> QED BY InitStep, HeapStep, PTL DEF Spec

\* Between two calls of kmalloc() and kfree() every unit of the heap belongs to
\* exactly one block, and the list of free blocks is a ring in order of
\* address in which no two blocks touch, for every number and size of pages.
THEOREM HeapIsExact == Spec => []HeapExact
<1> QED BY HeapInvariant, InvExact, PTL

\* What kmalloc() returns stays as large as it was asked for, where
\* find_order() does not round down, and the assertion of slob_alloc() fails
\* only for sizes between two headers and one header below a page.
THEOREM BlocksServe == Spec => []Served
<1> QED BY HeapInvariant, InvServed, PTL

\* slob_alloc() takes at most one page before it finds a block.
THEOREM HeapGrowsOnce == Spec => []GrowsOnce
<1> QED BY HeapInvariant, InvGrowsOnce, PTL
=============================================================================
