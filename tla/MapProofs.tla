----------------------------- MODULE MapProofs -----------------------------
(***************************************************************************)
(* Proofs about the pages of the areas for every program, page size and    *)
(* number of processes: exactly the pages of the areas of a process are    *)
(* mapped, with the permissions of the area, and what an address space has *)
(* it gives back when it goes.                                             *)
(***************************************************************************)
EXTENDS PageProofs

-----------------------------------------------------------------------------
\* The pages of user memory.
UPage == PagesOf(0, UserTop)

\* All mappings of m are those of n.
SameMap(m, n) == \A r \in Dirs(m), a \in UPage : pte(n, r, a) = pte(m, r, a)

\* They are, but la is mapped by e in root.
NewMap(m, n, root, la, e) ==
    \A r \in Dirs(m), a \in UPage :
        pte(n, r, a) = IF r = root /\ a = la THEN e ELSE pte(m, r, a)

\* They are, but in root.
OtherMaps(m, n, root) ==
    \A r \in Dirs(m), a \in UPage : r # root => pte(n, r, a) = pte(m, r, a)

\* A page of user memory.
LEMMA UPageFacts ==
    ASSUME NEW a \in UPage
    PROVE  /\ a \in Nat /\ a < UserTop /\ a % PGSIZE = 0
           /\ PDX1(a) \in Index /\ PDX0(a) \in Index /\ PTX(a) \in Index
<1>1. a \in Nat /\ a < UserTop /\ a % PGSIZE = 0
  BY Constants DEF UPage, PagesOf
<1> QED BY <1>1, Indexes

\* Division in two steps is division.
LEMMA DivDiv ==
    ASSUME NEW x \in Nat, NEW g \in Nat \ {0}, NEW e \in Nat \ {0}
    PROVE  x \div (e * g) = (x \div g) \div e
<1>1. PICK y \in Nat : y = x \div g
  OBVIOUS
<1>2. PICK z \in Nat : z = y \div e
  OBVIOUS
<1>3. PICK b \in Nat : x = g * y + b /\ b < g
  <2>1. x = g * (x \div g) + (x % g) /\ x % g \in 0 .. g - 1
    OBVIOUS
  <2> QED BY <1>1, <2>1
<1>4. PICK c \in Nat : y = e * z + c /\ c < e
  <2>1. y = e * (y \div e) + (y % e) /\ y % e \in 0 .. e - 1
    OBVIOUS
  <2> QED BY <1>2, <2>1
<1>5. PICK d \in Nat \ {0} : d = e * g
  OBVIOUS
<1>6. PICK w \in Nat : w = g * c + b /\ w < d
  <2>1. PICK j \in Nat : e = c + 1 + j
    <3>1. e - c - 1 \in Nat
      BY <1>4
    <3> QED BY <3>1
  <2>2. e * g = g * c + g + j * g /\ j * g \in Nat /\ g * c \in Nat
    BY <2>1
  <2> QED BY <1>3, <1>5, <2>2
<1>7. x = d * z + w
  <2>1. g * y = g * (e * z) + g * c
    BY <1>4
  <2>2. g * (e * z) = d * z
    BY <1>5
  <2> QED BY <1>3, <1>6, <2>1, <2>2
<1>8. x \div d = z
  <2>1. PICK q \in Nat, r \in Nat : q = x \div d /\ x = d * q + r /\ r < d
    <3>1. x = d * (x \div d) + (x % d) /\ x % d \in 0 .. d - 1 /\ x \div d \in Nat
      OBVIOUS
    <3> QED BY <3>1
  <2>2. CASE q < z
    <3>1. PICK j \in Nat : z = q + 1 + j
      <4>1. z - q - 1 \in Nat
        BY <2>2
      <4> QED BY <4>1
    <3>2. d * z = d * q + d + d * j /\ d * j \in Nat /\ d * q \in Nat
      BY <3>1
    <3> QED BY <1>6, <1>7, <2>1, <3>2
  <2>3. CASE q > z
    <3>1. PICK j \in Nat : q = z + 1 + j
      <4>1. q - z - 1 \in Nat
        BY <2>3
      <4> QED BY <4>1
    <3>2. d * q = d * z + d + d * j /\ d * j \in Nat /\ d * z \in Nat
      BY <3>1
    <3> QED BY <1>6, <1>7, <2>1, <3>2
  <2> QED BY <2>1, <2>2, <2>3
<1> QED BY <1>1, <1>2, <1>5, <1>8

\* The level 0 directory is known by the region.
LEMMA RegionDir ==
    ASSUME NEW a \in Nat
    PROVE  PDX1(a) = (a \div PTSIZE) \div NEntry
<1>1. PICK e \in Nat \ {0}, g \in Nat \ {0} : e = NEntry /\ g = PGSIZE
  BY PageTableAssumption
<1>2. PICK t \in Nat \ {0} : t = e * g /\ t = PTSIZE
  BY <1>1 DEF PTSIZE
<1>3. a \div (e * t) = (a \div t) \div e
  BY DivDiv
<1> QED BY <1>1, <1>2, <1>3 DEF PDX1, PDSIZE

\* A number is known by quotient and remainder.
LEMMA DivMod ==
    ASSUME NEW x \in Nat, NEW y \in Nat, NEW d \in Nat \ {0},
           x \div d = y \div d, x % d = y % d
    PROVE  x = y
<1>1. x = d * (x \div d) + (x % d) /\ y = d * (y \div d) + (y % d)
  OBVIOUS
<1> QED BY <1>1

\* The three indexes tell a page.
LEMMA SamePage ==
    ASSUME NEW a \in UPage, NEW b \in UPage,
           PDX1(a) = PDX1(b), PDX0(a) = PDX0(b), PTX(a) = PTX(b)
    PROVE  a = b
<1>1. PICK e \in Nat \ {0} : e = NEntry
  BY PageTableAssumption
<1>2. PICK g \in Nat \ {0} : g = PGSIZE
  BY PageTableAssumption
<1>3. PICK t \in Nat \ {0} : t = e * g /\ t = PTSIZE
  BY <1>1, <1>2 DEF PTSIZE
<1>4. PICK d \in Nat \ {0} : d = e * t /\ d = PDSIZE
  BY <1>1, <1>3 DEF PDSIZE
<1>5. a \in Nat /\ b \in Nat /\ a % g = 0 /\ b % g = 0
  BY <1>2, UPageFacts
<1>6. a \div t \in Nat /\ b \div t \in Nat /\ a \div g \in Nat /\ b \div g \in Nat
  BY <1>5
<1>7. (a \div t) \div e = (b \div t) \div e /\ (a \div t) % e = (b \div t) % e
  <2>1. ASSUME NEW x \in Nat PROVE x \div d = (x \div t) \div e
    <3>1. x \div (e * t) = (x \div t) \div e
      BY DivDiv
    <3> QED BY <1>4, <3>1
  <2> QED BY <2>1, <1>1, <1>3, <1>4, <1>5 DEF PDX1, PDX0
<1>8. a \div t = b \div t
  BY <1>6, <1>7, DivMod
<1>9. (a \div g) \div e = (b \div g) \div e /\ (a \div g) % e = (b \div g) % e
  <2>1. ASSUME NEW x \in Nat PROVE x \div t = (x \div g) \div e
    <3>1. x \div (e * g) = (x \div g) \div e
      BY DivDiv
    <3> QED BY <1>3, <3>1
  <2> QED BY <2>1, <1>1, <1>2, <1>5, <1>8 DEF PTX
<1>10. a \div g = b \div g
  BY <1>6, <1>9, DivMod
<1> QED BY <1>5, <1>10, DivMod

-----------------------------------------------------------------------------
\* The way to an entry.
LEMMA LeadsFacts ==
    ASSUME NEW m, Good(m), NEW r \in Dirs(m), NEW a \in UPage, NEW t, Leads(m, r, a, t)
    PROVE  t \in Page /\ m.use[t] = "pt" /\ pte(m, r, a) = m.entry[t][PTX(a)]
<1>1. PICK i \in Index, j \in Index : i = PDX1(a) /\ j = PDX0(a)
  BY UPageFacts
<1>2. PICK d \in Page : /\ IsSlot(m, r, i) /\ Aim(m, r, i) = d
                        /\ IsSlot(m, d, j) /\ Aim(m, d, j) = t
  BY <1>1 DEF Leads
<1>3. r \in Page /\ m.use[r] = "pgdir"
  BY DEF Dirs
<1>4. m.use[d] = "pd0"
  BY <1>2, <1>3, SlotFacts DEF Child
<1>5. t \in Page /\ m.use[t] = "pt"
  BY <1>2, <1>4, SlotFacts DEF Child
<1>6. pte(m, r, a) = m.entry[t][PTX(a)]
  BY <1>1, <1>2 DEF pte, Below, IsSlot, Aim
<1> QED BY <1>5, <1>6

\* Only one address of one address space leads to an entry.
LEMMA LeadsOnce ==
    ASSUME NEW m, Good(m), NEW r \in Dirs(m), NEW s \in Dirs(m), NEW a \in UPage, NEW b \in UPage,
           NEW t, Leads(m, r, a, t), Leads(m, s, b, t)
    PROVE  r = s /\ (PTX(a) = PTX(b) => a = b)
<1>1. PICK i \in Index, j \in Index : i = PDX1(a) /\ j = PDX0(a)
  BY UPageFacts
<1>2. PICK k \in Index, l \in Index : k = PDX1(b) /\ l = PDX0(b)
  BY UPageFacts
<1>3. PICK d \in Page : /\ IsSlot(m, r, i) /\ Aim(m, r, i) = d
                        /\ IsSlot(m, d, j) /\ Aim(m, d, j) = t
  BY <1>1 DEF Leads
<1>4. PICK c \in Page : /\ IsSlot(m, s, k) /\ Aim(m, s, k) = c
                        /\ IsSlot(m, c, l) /\ Aim(m, c, l) = t
  BY <1>2 DEF Leads
<1>5. r \in Page /\ s \in Page
  BY DEF Dirs
<1>6. d = c /\ j = l
  BY <1>3, <1>4 DEF Good
<1>7. r = s /\ i = k
  BY <1>3, <1>4, <1>5, <1>6 DEF Good
<1> QED BY <1>1, <1>2, <1>6, <1>7, SamePage

\* A mapped address has a way.
LEMMA MappedLeads ==
    ASSUME NEW m, Good(m), NEW r \in Dirs(m), NEW a \in UPage, pte(m, r, a) # NULL
    PROVE  \E t \in Page : Leads(m, r, a, t) /\ IsSlot(m, t, PTX(a))
<1>1. PICK create \in BOOLEAN : create = FALSE
  OBVIOUS
<1>2. PICK t : t = get_pte(m, r, a, create).table
  OBVIOUS
<1> QED BY <1>2, UPageFacts, PteFacts

\* What pte() returns depends on the entries only.
LEMMA SameEntries ==
    ASSUME NEW m, NEW n, n.entry = m.entry
    PROVE  SameMap(m, n) /\ \A r : OtherMaps(m, n, r)
BY DEF SameMap, OtherMaps, pte, Below

\* get_pte() maps nothing.
LEMMA GrownMap ==
    ASSUME NEW m, Good(m), NEW n, Grown(m, n)
    PROVE  SameMap(m, n)
<1> SUFFICES ASSUME NEW r \in Dirs(m), NEW a \in UPage PROVE pte(n, r, a) = pte(m, r, a)
  BY DEF SameMap
<1>1. Good(n) /\ r \in Dirs(n) /\ r \in Page /\ m.use[r] = "pgdir" /\ n.use[r] = "pgdir"
  BY DEF Grown, Keeps, Dirs
<1>2. PICK i \in Index, j \in Index, k \in Index : i = PDX1(a) /\ j = PDX0(a) /\ k = PTX(a)
  BY UPageFacts
<1>3. ASSUME NEW t \in Page, NEW l \in Index, IsSlot(m, t, l)
      PROVE  IsSlot(n, t, l) /\ Aim(n, t, l) = Aim(m, t, l) /\ n.entry[t][l] = m.entry[t][l]
  BY <1>3 DEF Grown, Widened, IsSlot, Aim, Table
<1>4. ASSUME NEW t, Leads(m, r, a, t) PROVE Leads(n, r, a, t)
  <2>1. PICK d \in Page : /\ IsSlot(m, r, i) /\ Aim(m, r, i) = d
                          /\ IsSlot(m, d, j) /\ Aim(m, d, j) = t
    BY <1>2, <1>4 DEF Leads
  <2> QED BY <1>1, <1>2, <1>3, <2>1 DEF Leads
<1>5. CASE pte(m, r, a) # NULL
  <2>1. PICK t \in Page : Leads(m, r, a, t) /\ IsSlot(m, t, k)
    BY <1>2, <1>5, MappedLeads
  <2>2. pte(m, r, a) = m.entry[t][k] /\ pte(n, r, a) = n.entry[t][k]
    BY <1>1, <1>2, <1>4, <2>1, LeadsFacts
  <2> QED BY <1>3, <2>1, <2>2
<1>6. CASE pte(n, r, a) # NULL
  <2>1. PICK t \in Page : Leads(n, r, a, t) /\ IsSlot(n, t, k)
    BY <1>1, <1>2, <1>6, MappedLeads
  <2>2. n.use[t] = "pt"
    BY <1>1, <2>1, LeadsFacts
  <2>3. IsSlot(m, t, k) /\ m.use[t] = "pt"
    BY <2>1, <2>2 DEF Grown, Widened
  <2>4. PICK d \in Page : /\ IsSlot(n, r, i) /\ Aim(n, r, i) = d
                          /\ IsSlot(n, d, j) /\ Aim(n, d, j) = t
    BY <1>2, <2>1 DEF Leads
  <2>5. IsSlot(m, d, j) /\ m.use[d] \in Table
    BY <2>3, <2>4 DEF Grown, Widened, IsSlot, Table
  <2>6. IsSlot(m, r, i)
    BY <1>1, <2>4, <2>5 DEF Grown, Widened, Table
  <2>7. Leads(m, r, a, t)
    BY <1>1, <1>2, <1>3, <2>4, <2>5, <2>6 DEF Leads
  <2>8. pte(m, r, a) = m.entry[t][k] /\ m.entry[t][k] # NULL
    BY <1>2, <2>3, <2>7, LeadsFacts DEF IsSlot
  <2> QED BY <1>5, <2>8
<1> QED BY <1>5, <1>6

\* A change of one entry maps one address.
LEMMA SetMap ==
    ASSUME NEW m, Good(m), NEW n, Good(n), Dirs(n) = Dirs(m),
           NEW root \in Dirs(m), NEW la \in UPage, NEW t \in Page, Leads(m, root, la, t),
           NEW e, SetAt(m, n, t, PTX(la), e)
    PROVE  NewMap(m, n, root, la, e)
<1> SUFFICES ASSUME NEW r \in Dirs(m), NEW a \in UPage
             PROVE  pte(n, r, a) = IF r = root /\ a = la THEN e ELSE pte(m, r, a)
  BY DEF NewMap
<1>1. m.use[t] = "pt"
  BY LeadsFacts
<1>2. PICK i \in Index, j \in Index, k \in Index : i = PDX1(a) /\ j = PDX0(a) /\ k = PTX(a)
  BY UPageFacts
<1>3. r \in Page /\ m.use[r] = "pgdir" /\ n.use[r] = "pgdir" /\ r \in Dirs(n)
  BY DEF Dirs
<1>4. ASSUME NEW u \in Page, NEW l \in Index, u # t
      PROVE  /\ IsSlot(m, u, l) <=> IsSlot(n, u, l)
             /\ IsSlot(m, u, l) => Aim(m, u, l) = Aim(n, u, l)
  BY <1>4 DEF SetAt, IsSlot, Aim
<1>5. ASSUME NEW u PROVE Leads(m, r, a, u) <=> Leads(n, r, a, u)
  <2>1. r # t
    BY <1>1, <1>3
  <2>2. ASSUME NEW d \in Page, IsSlot(m, r, i), Aim(m, r, i) = d PROVE d # t
    <3>1. m.use[d] = "pd0"
      BY <1>3, <2>2, SlotFacts DEF Child
    <3> QED BY <1>1, <3>1
  <2>3. ASSUME NEW d \in Page, IsSlot(m, r, i), Aim(m, r, i) = d
        PROVE  /\ IsSlot(m, d, j) <=> IsSlot(n, d, j)
               /\ IsSlot(m, d, j) => Aim(m, d, j) = Aim(n, d, j)
    BY <1>4, <2>2, <2>3
  <2>4. /\ IsSlot(m, r, i) <=> IsSlot(n, r, i)
        /\ IsSlot(m, r, i) => Aim(m, r, i) = Aim(n, r, i)
    BY <1>3, <1>4, <2>1
  <2> QED BY <1>2, <2>3, <2>4 DEF Leads
<1>6. ASSUME NEW u, Leads(m, r, a, u)
      PROVE  /\ u \in Page /\ m.use[u] = "pt"
             /\ pte(m, r, a) = m.entry[u][k] /\ pte(n, r, a) = n.entry[u][k]
  BY <1>2, <1>3, <1>5, <1>6, LeadsFacts
<1>7. CASE r = root /\ a = la
  <2>1. n.entry[t][k] = e
    BY <1>2, <1>7 DEF SetAt
  <2> QED BY <1>6, <1>7, <2>1
<1>8. CASE ~(r = root /\ a = la)
  <2>1. ASSUME NEW u, Leads(m, r, a, u) PROVE pte(n, r, a) = pte(m, r, a)
    <3>1. u \in Page /\ m.use[u] = "pt" /\ pte(m, r, a) = m.entry[u][k] /\ pte(n, r, a) = n.entry[u][k]
      BY <1>6, <2>1
    <3>2. ~(u = t /\ k = PTX(la))
      BY <1>2, <1>8, <2>1, LeadsOnce
    <3>3. n.entry[u][k] = m.entry[u][k]
      BY <3>1, <3>2 DEF SetAt, Table
    <3> QED BY <3>1, <3>3
  <2>2. ASSUME \A u : ~Leads(m, r, a, u) PROVE pte(n, r, a) = NULL /\ pte(m, r, a) = NULL
    BY <1>3, <1>5, <2>2, MappedLeads
  <2> QED BY <1>8, <2>1, <2>2
<1> QED BY <1>7, <1>8

\* page_insert() where it succeeds.
LEMMA PlacedMap ==
    ASSUME NEW m, Good(m), NEW root \in Dirs(m), NEW la \in UPage, NEW e,
           NEW n, Keeps(m, n), Placed(m, root, la, e, n)
    PROVE  NewMap(m, n, root, la, e)
<1>1. PICK k : \E t \in Page : /\ Grown(m, k) /\ k.use[t] = "pt" /\ Leads(k, root, la, t)
                               /\ SetAt(k, n, t, PTX(la), e)
  BY DEF Placed
<1>2. PICK t \in Page : /\ Grown(m, k) /\ k.use[t] = "pt" /\ Leads(k, root, la, t)
                        /\ SetAt(k, n, t, PTX(la), e)
  BY <1>1
<1>3. Good(k) /\ Good(n) /\ Dirs(k) = Dirs(m) /\ Dirs(n) = Dirs(m)
  BY <1>2 DEF Grown, Keeps
<1>4. SameMap(m, k)
  BY <1>2, GrownMap
<1>5. NewMap(k, n, root, la, e)
  BY <1>2, <1>3, SetMap
<1> QED BY <1>3, <1>4, <1>5 DEF SameMap, NewMap

-----------------------------------------------------------------------------
\* Pruning leaves a way none of whose entries it clears.
LEMMA PrunedMap ==
    ASSUME NEW m, Good(m), NEW n, NEW C, NEW F, Pruned(m, n, C, F), NEW r \in Dirs(m) \ F,
           NEW a \in UPage,
           <<r, PDX1(a)>> \notin C,
           \A t \in Page : m.use[t] = "pd0" /\ IsSlot(m, r, PDX1(a)) /\ Aim(m, r, PDX1(a)) = t
                           => <<t, PDX0(a)>> \notin C,
           \A t \in Page : Leads(m, r, a, t) => <<t, PTX(a)>> \notin C
    PROVE  pte(n, r, a) = pte(m, r, a)
<1>1. PICK i \in Index, j \in Index, k \in Index : i = PDX1(a) /\ j = PDX0(a) /\ k = PTX(a)
  BY UPageFacts
<1>2. r \in Page /\ m.use[r] = "pgdir" /\ r \notin F /\ <<r, i>> \notin C
  BY <1>1 DEF Dirs
<1>3. n.entry[r][i] = m.entry[r][i]
  BY <1>1, <1>2 DEF Pruned
<1>4. CASE m.entry[r][i] = NULL
  BY <1>1, <1>3, <1>4 DEF pte, Below
<1>5. CASE m.entry[r][i] # NULL
  <2>1. IsSlot(m, r, i)
    BY <1>2, <1>5 DEF IsSlot, Table
  <2>2. PICK d \in Page : d = Aim(m, r, i) /\ m.use[d] = "pd0"
    BY <1>2, <2>1, SlotFacts DEF Child
  <2>3. d \notin F /\ <<d, j>> \notin C
    BY <1>1, <1>2, <2>1, <2>2 DEF Pruned
  <2>4. n.entry[d][j] = m.entry[d][j]
    BY <2>3 DEF Pruned
  <2>5. CASE m.entry[d][j] = NULL
    BY <1>1, <1>3, <1>5, <2>2, <2>4, <2>5 DEF pte, Below, Aim
  <2>6. CASE m.entry[d][j] # NULL
    <3>1. IsSlot(m, d, j)
      BY <2>2, <2>6 DEF IsSlot, Table
    <3>2. PICK t \in Page : t = Aim(m, d, j) /\ m.use[t] = "pt"
      BY <2>2, <3>1, SlotFacts DEF Child
    <3>3. Leads(m, r, a, t)
      BY <1>1, <2>1, <2>2, <3>1, <3>2 DEF Leads
    <3>4. t \notin F /\ <<t, k>> \notin C
      BY <1>1, <2>3, <3>1, <3>2, <3>3 DEF Pruned
    <3>5. n.entry[t][k] = m.entry[t][k]
      BY <3>4 DEF Pruned
    <3> QED BY <1>1, <1>3, <1>5, <2>2, <2>4, <2>6, <3>2, <3>5 DEF pte, Below, Aim
  <2> QED BY <2>5, <2>6
<1> QED BY <1>4, <1>5

\* unmap_range() leaves the other address spaces alone.
LEMMA UnmapMap ==
    ASSUME NEW m, Good(m), NEW root \in Dirs(m), NEW start \in Nat, NEW end \in Nat,
           end <= UserTop, NEW n, n = unmap_range(m, root, start, end)
    PROVE  OtherMaps(m, n, root)
<1> SUFFICES ASSUME NEW r \in Dirs(m), NEW a \in UPage, r # root
             PROVE  pte(n, r, a) = pte(m, r, a)
  BY DEF OtherMaps
<1>1. PICK C : C = MappedSlots(m, root, start, end)
  OBVIOUS
<1>2. PICK F \in SUBSET Page : Pruned(m, n, C, F) /\ \A p \in F : m.use[p] = "user"
  BY <1>1, UnmapKeeps DEF ClearsOnly
<1>3. ASSUME NEW t, NEW i, <<t, i>> \in C
      PROVE  m.use[t] = "pt" /\ \E b \in UPage : Leads(m, root, b, t) /\ i = PTX(b)
  <2>1. PICK b : /\ b \in PagesOf(start, end) /\ pte(m, root, b) # NULL
                 /\ <<t, i>> = <<get_pte(m, root, b, FALSE).table, PTX(b)>>
    BY <1>1, <1>3 DEF MappedSlots
  <2>2. PICK create \in BOOLEAN : create = FALSE
    OBVIOUS
  <2>3. PICK g : g = get_pte(m, root, b, create).table
    OBVIOUS
  <2>4. b \in UPage /\ b \in Nat /\ b < UserTop
    BY <2>1, Constants DEF UPage, PagesOf
  <2>5. Leads(m, root, b, g) /\ m.use[g] = "pt"
    BY <2>1, <2>3, <2>4, PteFacts
  <2>6. <<t, i>> = <<g, PTX(b)>>
    BY <2>1, <2>2, <2>3, Zenon
  <2>7. PICK x : x = PTX(b)
    OBVIOUS
  <2>8. t = g /\ i = x
    BY <2>6, <2>7
  <2> QED BY <2>4, <2>5, <2>7, <2>8
<1>4. r \in Page /\ m.use[r] = "pgdir" /\ r \notin F
  BY <1>2 DEF Dirs
<1>5. <<r, PDX1(a)>> \notin C
  BY <1>3, <1>4
<1>6. \A t : m.use[t] = "pd0" => <<t, PDX0(a)>> \notin C
  BY <1>3
<1>7. ASSUME NEW t \in Page, Leads(m, r, a, t), <<t, PTX(a)>> \in C PROVE FALSE
  <2>1. PICK b \in UPage : Leads(m, root, b, t)
    BY <1>3, <1>7
  <2> QED BY <1>7, <2>1, LeadsOnce
<1> QED BY <1>2, <1>4, <1>5, <1>6, <1>7, PrunedMap

\* And exit_range() does.
LEMMA ExitRangeMap ==
    ASSUME NEW m, Good(m), NEW root \in Dirs(m), NEW start, NEW end,
           NEW n, n = exit_range(m, root, start, end)
    PROVE  OtherMaps(m, n, root)
<1> SUFFICES ASSUME NEW r \in Dirs(m), NEW a \in UPage, r # root
             PROVE  pte(n, r, a) = pte(m, r, a)
  BY DEF OtherMaps
<1>1. PICK C, F : /\ Pruned(m, n, C, F) /\ F \cap Dirs(m) = {}
                  /\ \A t \in Page, i \in Index : <<t, i>> \in C =>
                        t = root \/ \E d1 \in Index : IsSlot(m, root, d1) /\ t = Aim(m, root, d1)
  BY ExitRangeKeeps DEF PrunesUpper
<1>2. PICK i \in Index, j \in Index, k \in Index : i = PDX1(a) /\ j = PDX0(a) /\ k = PTX(a)
  BY UPageFacts
<1>3. r \in Page /\ m.use[r] = "pgdir" /\ root \in Page /\ m.use[root] = "pgdir"
  BY DEF Dirs
<1>4. ASSUME NEW t \in Page, NEW l \in Index, <<t, l>> \in C
      PROVE  \/ t = root
             \/ m.use[t] = "pd0" /\ \E d1 \in Index : IsSlot(m, root, d1) /\ t = Aim(m, root, d1)
  BY <1>1, <1>3, <1>4, SlotFacts DEF Child
<1>5. <<r, i>> \notin C
  BY <1>3, <1>4
<1>6. ASSUME NEW t \in Page, m.use[t] = "pd0", IsSlot(m, r, i), Aim(m, r, i) = t
      PROVE  <<t, j>> \notin C
  BY <1>3, <1>4, <1>6 DEF Good
<1>7. ASSUME NEW t \in Page, Leads(m, r, a, t) PROVE <<t, k>> \notin C
  <2>1. m.use[t] = "pt"
    BY <1>7, LeadsFacts
  <2> QED BY <1>3, <1>4, <2>1
<1>8. r \in Dirs(m) \ F
  BY <1>1
<1> QED BY <1>1, <1>2, <1>5, <1>6, <1>7, <1>8, PrunedMap

\* free_page() of pages that no entry refers to.
LEMMA FreeMap ==
    ASSUME NEW m, Good(m), NEW F \in SUBSET Page, \A p \in F : m.ref[p] = 0,
           NEW n, n = free_page(m, F), NEW r \in Dirs(m) \ F, NEW a \in UPage
    PROVE  pte(n, r, a) = pte(m, r, a)
<1>1. Freed(m, n, F)
  BY FreePage DEF Good
<1>2. \A t \in Page, i \in Index : IsSlot(m, t, i) => Aim(m, t, i) \notin F
  BY SlotFacts
<1>3. PICK C : C = {}
  OBVIOUS
<1>4. Pruned(m, n, C, F)
  BY <1>1, <1>2, <1>3 DEF Pruned, Freed
<1>5. /\ <<r, PDX1(a)>> \notin C /\ (\A t : <<t, PDX0(a)>> \notin C)
      /\ \A t : <<t, PTX(a)>> \notin C
  BY <1>3
<1> QED BY <1>4, <1>5, PrunedMap

\* setup_pgdir(): nothing is mapped in the new table.
LEMMA TakeDirMap ==
    ASSUME NEW m, Good(m), NEW p \in Page, p = alloc_page(m), m.use[p] = "free",
           NEW n, n = setup_pgdir(m), NEW a \in UPage
    PROVE  pte(n, p, a) = NULL /\ \A r \in Dirs(m) : pte(n, r, a) = pte(m, r, a)
<1>1. m \in Memory
  BY DEF Good
<1>2. n.entry = [m.entry EXCEPT ![p] = NoEntries]
  BY <1>1 DEF setup_pgdir, Used, Memory
<1>3. m.entry \in [Page \cup {boot_pgdir} -> [Index -> PTE]]
  BY <1>1 DEF Memory
<1>4. n.entry[p] = NoEntries /\ \A u \in Page : u # p => n.entry[u] = m.entry[u]
  BY <1>2, <1>3
<1>5. PICK i \in Index, j \in Index, k \in Index : i = PDX1(a) /\ j = PDX0(a) /\ k = PTX(a)
  BY UPageFacts
<1>6. pte(n, p, a) = NULL
  BY <1>4, <1>5 DEF pte, Below, NoEntries
<1>7. ASSUME NEW r \in Dirs(m) PROVE pte(n, r, a) = pte(m, r, a)
  <2>1. r \in Page /\ m.use[r] = "pgdir" /\ n.entry[r] = m.entry[r]
    BY <1>4 DEF Dirs
  <2>2. CASE m.entry[r][i] = NULL
    BY <1>5, <2>1, <2>2 DEF pte, Below
  <2>3. CASE m.entry[r][i] # NULL
    <3>1. IsSlot(m, r, i)
      BY <2>1, <2>3 DEF IsSlot, Table
    <3>2. PICK d \in Page : d = Aim(m, r, i) /\ m.use[d] = "pd0"
      BY <2>1, <3>1, SlotFacts DEF Child
    <3>3. n.entry[d] = m.entry[d]
      BY <1>4, <3>2
    <3>4. CASE m.entry[d][j] = NULL
      BY <1>5, <2>1, <2>3, <3>2, <3>3, <3>4 DEF pte, Below, Aim
    <3>5. CASE m.entry[d][j] # NULL
      <4>1. IsSlot(m, d, j)
        BY <3>2, <3>5 DEF IsSlot, Table
      <4>2. PICK t \in Page : t = Aim(m, d, j) /\ m.use[t] = "pt"
        BY <3>2, <4>1, SlotFacts DEF Child
      <4>3. n.entry[t] = m.entry[t]
        BY <1>4, <4>2
      <4>4. pte(m, r, a) = m.entry[t][k]
        BY <1>5, <2>3, <3>2, <3>5, <4>2 DEF pte, Below, Aim
      <4>5. pte(n, r, a) = n.entry[t][k]
        BY <1>5, <2>1, <2>3, <3>2, <3>3, <3>5, <4>2 DEF pte, Below, Aim
      <4> QED BY <4>3, <4>4, <4>5
    <3> QED BY <3>4, <3>5
  <2> QED BY <2>2, <2>3
<1> QED BY <1>6, <1>7

\* pgdir_alloc_page(): la is mapped to the new page, or nothing is.
LEMMA NewPageMap ==
    ASSUME NEW m, Good(m), NEW root \in Dirs(m), NEW la \in UPage,
           NEW bits \in Perm, NEW r, r = pgdir_alloc_page(m, root, la, bits)
    PROVE  \/ r.page = NULL /\ SameMap(m, r.mem)
           \/ r.page # NULL /\ NewMap(m, r.mem, root, la, pte_create(r.page, bits))
<1>1. CASE Free(m) = {}
  <2>1. r = [mem |-> m, page |-> NULL]
    BY <1>1 DEF pgdir_alloc_page
  <2> QED BY <2>1, SameEntries
<1>2. CASE Free(m) # {}
  <2>1. PICK p \in Page : p = alloc_page(m) /\ m.use[p] = "free"
    BY <1>2, AllocPage DEF Free
  <2>2. PICK n : n = Used(m, p, "user")
    OBVIOUS
  <2>3. Keeps(m, n) /\ Good(n) /\ n.use[p] = "user" /\ n.ref[p] = 0 /\ root \in Dirs(n)
    BY <2>1, <2>2, TakePage DEF Keeps
  <2>4. PICK s : s = page_insert(n, root, p, la, bits)
    OBVIOUS
  <2>5. la \in Nat /\ la < UserTop
    BY UPageFacts
  <2>6. /\ Keeps(n, s.mem)
        /\ s.ok => Placed(n, root, la, pte_create(p, bits), s.mem)
        /\ ~s.ok => Grown(n, s.mem) /\ s.mem.use[p] = "user" /\ s.mem.ref[p] = 0
    BY <2>3, <2>4, <2>5, InsertKeeps
  <2>7. r = IF s.ok THEN [mem |-> s.mem, page |-> p]
            ELSE [mem |-> free_page(s.mem, {p}), page |-> NULL]
    BY <1>2, <2>1, <2>2, <2>4 DEF pgdir_alloc_page
  <2>8. SameMap(m, n) /\ Dirs(n) = Dirs(m)
    <3>1. m \in Memory
      BY DEF Good
    <3>2. n.entry = m.entry
      BY <2>2, <3>1 DEF Used, Memory
    <3> QED BY <2>3, <3>2, SameEntries DEF Keeps
  <2>9. CASE s.ok
    <3>1. PICK e : e = pte_create(p, bits)
      OBVIOUS
    <3>2. NewMap(n, s.mem, root, la, e)
      BY <2>3, <2>6, <2>9, <3>1, PlacedMap
    <3>3. r.page = p /\ r.mem = s.mem /\ p # NULL
      BY <2>7, <2>9, PageTableAssumption DEF Page
    <3> QED BY <2>8, <3>1, <3>2, <3>3 DEF SameMap, NewMap
  <2>10. CASE ~s.ok
    <3>1. PICK k : k = free_page(s.mem, {p})
      OBVIOUS
    <3>2. PICK F \in SUBSET Page : F = {p}
      OBVIOUS
    <3>3. Good(s.mem) /\ Dirs(s.mem) = Dirs(n) /\ (\A q \in F : s.mem.ref[q] = 0)
      BY <2>6, <2>10, <3>2 DEF Keeps
    <3>4. F \cap Dirs(s.mem) = {}
      BY <2>6, <2>10, <3>2 DEF Dirs
    <3>5. SameMap(n, s.mem)
      BY <2>3, <2>6, <2>10, GrownMap
    <3>6. \A x \in Dirs(s.mem), a \in UPage : pte(k, x, a) = pte(s.mem, x, a)
      BY <3>1, <3>2, <3>3, <3>4, FreeMap
    <3>7. SameMap(m, k)
      BY <2>8, <3>3, <3>5, <3>6 DEF SameMap
    <3>8. r.mem = k /\ r.page = NULL
      BY <2>7, <2>10, <3>1
    <3> QED BY <3>7, <3>8
  <2> QED BY <2>9, <2>10
<1> QED BY <1>1, <1>2

\* The page of copy_range(), for which get_pte() has just made the table.
LEMMA CopyMap ==
    ASSUME NEW m, Good(m), NEW root \in Dirs(m), NEW la \in UPage, Free(m) # {},
           NEW t, Leads(m, root, la, t),
           NEW p \in Page, p = alloc_page(m), NEW q \in Page, NEW bits \in Perm,
           NEW n, n = page_insert([Used(m, p, "user") EXCEPT !.data[p] = m.data[q]],
                                  root, p, la, bits).mem
    PROVE  NewMap(m, n, root, la, pte_create(p, bits))
<1>1. m.use[p] = "free"
  BY AllocPage DEF Free
<1>2. PICK k : k = Used(m, p, "user")
  OBVIOUS
<1>3. Keeps(m, k) /\ Good(k) /\ k.use[p] = "user" /\ k.ref[p] = 0 /\ k.entry = m.entry
  <2>1. Keeps(m, k) /\ Good(k) /\ k.use[p] = "user" /\ k.ref[p] = 0
    BY <1>1, <1>2, TakePage DEF Keeps
  <2>2. k.entry = m.entry
    BY <1>2 DEF Used, Good, Memory
  <2> QED BY <2>1, <2>2
<1>4. PICK d \in [0 .. PGSIZE - 1 -> Int] : d = m.data[q]
  BY DEF Good, Memory
<1>5. PICK h : h = Wrote(k, p, d)
  OBVIOUS
<1>6. Keeps(k, h) /\ Good(h) /\ h.use[p] = "user" /\ h.ref[p] = 0 /\ h.entry = m.entry
  BY <1>3, <1>4, <1>5, DataKeeps DEF Keeps
<1>7. PICK r : r = page_insert(h, root, p, la, bits)
  OBVIOUS
<1>8. n = r.mem
  BY <1>2, <1>4, <1>5, <1>7 DEF Wrote
<1>9. root \in Dirs(h) /\ Dirs(h) = Dirs(m) /\ la \in Nat /\ la < UserTop
  BY <1>3, <1>6, UPageFacts DEF Keeps
<1>10. /\ Keeps(h, r.mem)
       /\ r.ok => Placed(h, root, la, pte_create(p, bits), r.mem)
  BY <1>6, <1>7, <1>9, InsertKeeps
<1>11. r.ok
  <2>1. PICK create \in BOOLEAN : create = TRUE
    OBVIOUS
  <2>2. PICK g : g = get_pte(h, root, la, create)
    OBVIOUS
  <2>3. g.table # NULL
    <3>1. PICK i \in Index, j \in Index : i = PDX1(la) /\ j = PDX0(la)
      BY UPageFacts
    <3>2. PICK c \in Page : /\ IsSlot(m, root, i) /\ Aim(m, root, i) = c
                            /\ IsSlot(m, c, j) /\ Aim(m, c, j) = t
      BY <3>1 DEF Leads
    <3>3. t \in Page
      BY LeadsFacts
    <3>4. NULL \notin Page
      BY PageTableAssumption DEF Page
    <3>5. level(h, root, i, "pd0", create) = [mem |-> h, table |-> c]
      BY <1>6, <3>2 DEF level, IsSlot, Aim
    <3>6. level(h, c, j, "pt", create) = [mem |-> h, table |-> t]
      BY <1>6, <3>2 DEF level, IsSlot, Aim
    <3>7. g = [mem |-> h, table |-> t]
      BY <2>2, <3>1, <3>2, <3>4, <3>5, <3>6 DEF get_pte
    <3> QED BY <3>3, <3>4, <3>7
  <2>4. g = get_pte(h, root, la, TRUE)
    BY <2>1, <2>2, Zenon
  <2> QED BY <1>7, <2>3, <2>4 DEF page_insert
<1>12. PICK e : e = pte_create(p, bits)
  OBVIOUS
<1>13. NewMap(h, r.mem, root, la, e)
  BY <1>6, <1>9, <1>10, <1>11, <1>12, PlacedMap
<1>14. SameMap(m, h)
  BY <1>6, SameEntries
<1> QED BY <1>8, <1>9, <1>12, <1>13, <1>14 DEF SameMap, NewMap

-----------------------------------------------------------------------------
\* The areas of an address space.
Areas(sp) == Range(sp.mmap_list)

\* What is mapped lies in an area, with its permissions,
Within(m, sp) ==
    \A a \in UPage : pte(m, sp.pgdir, a) # NULL =>
        \E v \in Areas(sp) : Holds(v, a) /\ pte(m, sp.pgdir, a).perm = PagePerm(v.vm_flags)

\* the pages of an area are mapped,
Backed(m, root, v) ==
    \/ \A a \in UPage : Holds(v, a) => pte(m, root, a) # NULL
    \/ "STACK" \in v.vm_flags \/ EmptyArea(v)

\* and so are those of all areas but the ones of X.
Fits(m, sp, X) == Within(m, sp) /\ \A v \in Areas(sp) \ X : Backed(m, sp.pgdir, v)

\* The pages from start to end are mapped in root, or those that are in r.
MappedTo(m, root, start, end) ==
    \A a \in UPage : start <= a /\ a < end => pte(m, root, a) # NULL
CopiedTo(m, r, root, start, end) ==
    \A a \in UPage : start <= a /\ a < end /\ pte(m, r, a) # NULL => pte(m, root, a) # NULL

\* The area of the segment that is loaded, and that of the stack.
PhArea == vma_create(ROUNDDOWN(ph.va, PGSIZE), ROUNDUP(ph.va + ph.memsz, PGSIZE), ph.flags)
StackArea == vma_create(UserTop - StackSize, UserTop, {"READ", "WRITE", "STACK"})

\* All pages below call.la are mapped.
FillingMap ==
    /\ PhArea \in Areas(work) /\ Fits(mem, work, {PhArea})
    /\ call.la % PGSIZE = 0 /\ PhArea.vm_start <= call.la
    /\ call.start <= call.la \/ (call.la = PhArea.vm_start /\ call.start = ph.va)
    /\ MappedTo(mem, work.pgdir, PhArea.vm_start, call.la)
CopyingMap ==
    /\ SrcArea \in Areas(work) /\ Fits(mem, work, {SrcArea})
    /\ call.la % PGSIZE = 0
    /\ CopiedTo(mem, mm[call.src].pgdir, work.pgdir, SrcArea.vm_start, call.la)

SpacesFit == \A s \in Space : mm[s] # NULL => Fits(mem, mm[s], {})

MapInv ==
    /\ SpacesFit
    /\ pc \in {"segment", "stack", "dup"} => Fits(mem, work, {})
    /\ pc = "stack" => StackArea \in Areas(work)
    /\ pc \in {"file", "bss"} => FillingMap
    /\ pc = "copy" => CopyingMap

-----------------------------------------------------------------------------
\* An address space fits if its table maps what it did,
LEMMA FitsKept ==
    ASSUME NEW m, NEW n, NEW sp, NEW q, NEW X, Fits(m, sp, X),
           Areas(q) = Areas(sp), q.pgdir = sp.pgdir,
           \A a \in UPage : pte(n, sp.pgdir, a) = pte(m, sp.pgdir, a)
    PROVE  Fits(n, q, X)
<1>1. PICK r : r = sp.pgdir /\ r = q.pgdir
  OBVIOUS
<1>2. Within(n, q)
  BY <1>1 DEF Fits, Within
<1>3. ASSUME NEW v, Backed(m, r, v) PROVE Backed(n, r, v)
  BY <1>1, <1>3 DEF Backed
<1> QED BY <1>1, <1>2, <1>3 DEF Fits

\* or one page of an area more;
LEMMA FitsMapped ==
    ASSUME NEW m, NEW n, NEW sp, NEW X, Fits(m, sp, X), NEW v \in Areas(sp),
           NEW la \in UPage, Holds(v, la), NEW e, e # NULL, e.perm = PagePerm(v.vm_flags),
           \A a \in UPage : pte(n, sp.pgdir, a) = IF a = la THEN e ELSE pte(m, sp.pgdir, a)
    PROVE  Fits(n, sp, X)
<1>1. PICK r : r = sp.pgdir
  OBVIOUS
<1>2. Within(n, sp)
  BY <1>1 DEF Fits, Within
<1>3. ASSUME NEW w, Backed(m, r, w) PROVE Backed(n, r, w)
  BY <1>1, <1>3 DEF Backed
<1> QED BY <1>1, <1>2, <1>3 DEF Fits

\* if it has one area more, but for that one,
LEMMA FitsInserted ==
    ASSUME NEW m, NEW sp, NEW q, NEW v, Fits(m, sp, {}),
           Areas(q) = Areas(sp) \cup {v}, q.pgdir = sp.pgdir
    PROVE  Fits(m, q, {v})
<1>1. Within(m, q)
  BY DEF Fits, Within
<1> QED BY <1>1 DEF Fits

\* until its pages are mapped.
LEMMA FitsDone ==
    ASSUME NEW m, NEW sp, NEW v, Fits(m, sp, {v}), Backed(m, sp.pgdir, v)
    PROVE  Fits(m, sp, {})
BY DEF Fits

\* An address space without areas or pages fits.
LEMMA FitsEmpty ==
    ASSUME NEW m, NEW sp, Areas(sp) = {}, \A a \in UPage : pte(m, sp.pgdir, a) = NULL
    PROVE  Fits(m, sp, {})
BY DEF Fits, Within

\* insert_vma_struct() adds the area and loses none.
LEMMA InsertAreas ==
    ASSUME NEW sp, IsSpace(sp), NEW vma \in vma_struct, InUserMemory(vma),
           NEW r, r = insert_vma_struct(sp, vma), r.ok
    PROVE  Areas(r.mm) = Areas(sp) \cup {vma} /\ r.mm.pgdir = sp.pgdir /\ IsSpace(r.mm)
<1> DEFINE above == {i \in DOMAIN sp.mmap_list : sp.mmap_list[i].vm_start > vma.vm_start}
<1>1. PICK list \in Seq(vma_struct) : list = sp.mmap_list
  BY SpaceFacts
<1>2. /\ Len(list) \in Nat /\ DOMAIN list = 1 .. Len(list)
      /\ Range(list) = {list[i] : i \in 1 .. Len(list)}
  <2>1. /\ Len(sp.mmap_list) \in Nat /\ DOMAIN sp.mmap_list = 1 .. Len(sp.mmap_list)
        /\ Range(sp.mmap_list) = {sp.mmap_list[i] : i \in 1 .. Len(sp.mmap_list)}
    BY SpaceFacts
  <2> QED BY <1>1, <2>1
<1>3. PICK k : k = IF above = {} THEN Len(list) + 1 ELSE Min(above)
  OBVIOUS
<1>4. k \in 1 .. Len(list) + 1
  <2>1. above \in SUBSET Nat /\ above \subseteq 1 .. Len(list)
    BY <1>1, <1>2
  <2> HIDE DEF above
  <2>2. above # {} => Min(above) \in above
    BY <2>1, MinOf
  <2> QED BY <2>1, <2>2, <1>2, <1>3
<1>5. PICK t : t = InsertAt(list, k, vma)
  OBVIOUS
<1>6. t \in Seq(vma_struct) /\ Inserted(list, t, k, vma)
  BY <1>4, <1>5, InsertAtFacts
<1>7. sp \in mm_struct
  BY DEF IsSpace
<1>8. r.mm = [sp EXCEPT !.mmap_list = t]
  BY <1>1, <1>3, <1>5 DEF insert_vma_struct
<1>9. r.mm.mmap_list = t /\ r.mm.pgdir = sp.pgdir
  BY <1>7, <1>8 DEF mm_struct
<1>10. /\ Len(t) = Len(list) + 1 /\ t[k] = vma
       /\ \A j \in 1 .. Len(t) : j < k => j \in 1 .. Len(list) /\ t[j] = list[j]
       /\ \A j \in 1 .. Len(t) : k < j => j - 1 \in 1 .. Len(list) /\ t[j] = list[j - 1]
  <2>1. ASSUME NEW j \in 1 .. Len(t), k < j
        PROVE  j - 1 \in 1 .. Len(list) /\ t[j] = list[j - 1]
    <3>1. j - 1 \in 1 .. Len(list) /\ k <= j - 1 /\ (j - 1) + 1 = j
      BY <1>2, <1>4, <1>6, <2>1 DEF Inserted
    <3> QED BY <3>1, <1>6 DEF Inserted
  <2>2. ASSUME NEW j \in 1 .. Len(t), j < k
        PROVE  j \in 1 .. Len(list) /\ t[j] = list[j]
    <3>1. j \in 1 .. Len(list)
      BY <1>2, <1>4, <2>2
    <3> QED BY <3>1, <2>2, <1>6 DEF Inserted
  <2> QED BY <2>1, <2>2, <1>6 DEF Inserted
<1>11. Range(t) = {t[j] : j \in 1 .. Len(t)}
  BY <1>6, RangeEquality
<1>12. \A v \in Range(t) : v \in Range(list) \cup {vma}
  <2> SUFFICES ASSUME NEW j \in 1 .. Len(t) PROVE t[j] \in Range(list) \cup {vma}
    BY <1>11
  <2>1. j < k \/ j = k \/ k < j
    BY <1>2, <1>4, <1>10
  <2> QED BY <2>1, <1>2, <1>10
<1>13. \A v \in Range(list) \cup {vma} : v \in Range(t)
  <2>1. vma \in Range(t)
    BY <1>2, <1>4, <1>10, <1>11
  <2>2. ASSUME NEW i \in 1 .. Len(list) PROVE list[i] \in Range(t)
    <3>1. list[i] = t[i] \/ list[i] = t[i + 1]
      BY <1>2, <1>4, <1>6 DEF Inserted
    <3>2. i \in 1 .. Len(t) /\ i + 1 \in 1 .. Len(t)
      BY <1>2, <1>10
    <3> QED BY <3>1, <3>2, <1>11
  <2> QED BY <2>1, <2>2, <1>2
<1>14. Range(t) = Range(list) \cup {vma}
  BY <1>12, <1>13
<1> QED BY <1>1, <1>9, <1>14, InsertVma DEF Areas

\* And so does mm_map().
LEMMA MmMapAreas ==
    ASSUME NEW sp, IsSpace(sp), NEW addr \in Nat, NEW len \in Nat,
           NEW flags \in SUBSET VmFlags, NEW memory \in BOOLEAN,
           addr + len + PGSIZE <= WordSize,
           NEW r, r = mm_map(sp, addr, len, flags, memory), r.ret = "ok",
           NEW v, v = vma_create(ROUNDDOWN(addr, PGSIZE), ROUNDUP(addr + len, PGSIZE), flags)
    PROVE  Areas(r.mm) = Areas(sp) \cup {v} /\ r.mm.pgdir = sp.pgdir /\ IsSpace(r.mm)
<1>1. PICK start \in Nat, end \in Nat :
         /\ start = ROUNDDOWN(addr, PGSIZE) /\ end = ROUNDUP(addr + len, PGSIZE)
         /\ start % PGSIZE = 0 /\ end % PGSIZE = 0
  <2>1. addr + len \in Nat
    OBVIOUS
  <2> QED BY <2>1, Rounding
<1>2. PICK looked : looked = found(sp, start)
  OBVIOUS
<1>3. IsSpace(looked) /\ looked.mmap_list = sp.mmap_list /\ looked.pgdir = sp.pgdir
  BY <1>1, <1>2, Found, SamePgdir DEF IsSpace
<1>4. PICK i : i = insert_vma_struct(looked, v)
  OBVIOUS
<1>5. USER_ACCESS(start, end) /\ i.ok /\ r.mm = i.mm
  <2>1. end = ROUNDDOWN(Word(addr + len + PGSIZE - 1), PGSIZE)
    BY <1>1, EndOf
  <2> QED BY <1>1, <1>2, <1>4, <2>1 DEF mm_map
<1>6. v \in vma_struct /\ InUserMemory(v)
  BY <1>1, <1>5 DEF vma_create, vma_struct, InUserMemory, USER_ACCESS
<1> QED BY <1>3, <1>4, <1>5, <1>6, InsertAreas DEF Areas

-----------------------------------------------------------------------------
\* Division with remainder.
LEMMA Quotient ==
    ASSUME NEW x \in Nat, NEW d \in Nat \ {0}
    PROVE  \E z \in Nat, r \in Nat : x = d * z + r /\ r < d /\ z = x \div d /\ r = x % d
<1>1. x = d * (x \div d) + (x % d) /\ x % d \in 0 .. d - 1 /\ x \div d \in Nat
  OBVIOUS
<1>2. PICK z \in Nat, r \in Nat : z = x \div d /\ r = x % d
  BY <1>1
<1>3. x = d * z + r /\ r < d
  BY <1>1, <1>2
<1> QED BY <1>2, <1>3

\* A number that leaves no remainder.
LEMMA Multiple ==
    ASSUME NEW x \in Nat, NEW d \in Nat \ {0}, x % d = 0
    PROVE  \E z \in Nat : x = d * z
<1>1. PICK z \in Nat, r \in Nat : x = d * z + r /\ r = x % d
  BY Quotient
<1>2. d * z \in Nat
  OBVIOUS
<1>3. x = d * z
  BY <1>1, <1>2
<1> QED BY <1>3

\* A number is the next multiple, or not below it.
LEMMA RoundUpLeast ==
    ASSUME NEW a \in Nat, NEW x \in Nat, NEW d \in Nat \ {0}, x % d = 0, a <= x
    PROVE  ROUNDUP(a, d) <= x
<1>1. PICK b \in Nat : b = a + d - 1
  OBVIOUS
<1>2. ROUNDUP(a, d) = ROUNDDOWN(b, d)
  BY <1>1 DEF ROUNDUP
<1>3. PICK q \in Nat, r \in Nat : b = d * q + r /\ r < d /\ ROUNDDOWN(b, d) = d * q
  <2>1. PICK q \in Nat, r \in Nat : b = d * q + r /\ r < d /\ r = b % d
    BY Quotient
  <2>2. d * q \in Nat
    OBVIOUS
  <2>3. ROUNDDOWN(b, d) = d * q
    BY <2>1, <2>2 DEF ROUNDDOWN
  <2> QED BY <2>1, <2>3
<1>4. PICK z \in Nat : x = d * z
  BY Multiple
<1>5. CASE q <= z
  <2>1. PICK j \in Nat : z = q + j
    <3>1. z - q \in Nat
      BY <1>5
    <3> QED BY <3>1
  <2>2. d * z = d * q + d * j /\ d * j \in Nat /\ d * q \in Nat
    BY <2>1
  <2> QED BY <1>2, <1>3, <1>4, <2>2
<1>6. CASE q > z
  <2>1. PICK j \in Nat : q = z + 1 + j
    <3>1. q - z - 1 \in Nat
      BY <1>6
    <3> QED BY <3>1
  <2>2. d * q = d * z + d + d * j /\ d * j \in Nat /\ d * z \in Nat
    BY <2>1
  <2> QED BY <1>1, <1>3, <1>4, <2>2
<1> QED BY <1>5, <1>6

\* There is one page in the bytes of a page.
LEMMA NextPage ==
    ASSUME NEW a \in Nat, NEW x \in Nat, a % PGSIZE = 0, x % PGSIZE = 0,
           x <= a, a < x + PGSIZE
    PROVE  a = x
<1>1. PICK d \in Nat \ {0} : d = PGSIZE
  BY Constants
<1>2. PICK z \in Nat : x = d * z
  BY <1>1, Multiple
<1>3. PICK y \in Nat : a = d * y
  BY <1>1, Multiple
<1>4. CASE y > z
  <2>1. PICK j \in Nat : y = z + 1 + j
    <3>1. y - z - 1 \in Nat
      BY <1>4
    <3> QED BY <3>1
  <2>2. d * y = d * z + d + d * j /\ d * j \in Nat /\ d * z \in Nat
    BY <2>1
  <2> QED BY <1>1, <1>2, <1>3, <2>2
<1>5. CASE y < z
  <2>1. PICK j \in Nat : z = y + 1 + j
    <3>1. z - y - 1 \in Nat
      BY <1>5
    <3> QED BY <3>1
  <2>2. d * z = d * y + d + d * j /\ d * j \in Nat /\ d * y \in Nat
    BY <2>1
  <2> QED BY <1>1, <1>2, <1>3, <2>2
<1> QED BY <1>2, <1>3, <1>4, <1>5

\* Behind a page comes the next.
LEMMA PageAfter ==
    ASSUME NEW x \in Nat, x % PGSIZE = 0
    PROVE  x + PGSIZE \in Nat /\ (x + PGSIZE) % PGSIZE = 0
<1>1. PICK d \in Nat \ {0} : d = PGSIZE
  BY Constants
<1>2. PICK z \in Nat : x = d * z
  BY <1>1, Multiple
<1>3. x + d = d * (z + 1) /\ (d * (z + 1)) % d = 0
  BY <1>2
<1> QED BY <1>1, <1>3

\* What is made of page table regions is made of pages.
LEMMA RegionPages ==
    ASSUME NEW x \in Nat, x % PTSIZE = 0
    PROVE  x % PGSIZE = 0
<1>1. PICK d \in Nat \ {0} : d = PGSIZE
  BY Constants
<1>2. PICK e \in Nat \ {0} : e = NEntry
  BY PageTableAssumption
<1>3. PICK t \in Nat \ {0} : t = e * d /\ t = PTSIZE
  BY <1>1, <1>2 DEF PTSIZE
<1>4. PICK z \in Nat : x = t * z
  BY <1>3, Multiple
<1>5. PICK y \in Nat : y = e * z
  OBVIOUS
<1>6. x = d * y
  BY <1>3, <1>4, <1>5
<1>7. (d * y) % d = 0
  OBVIOUS
<1> QED BY <1>1, <1>6, <1>7

\* Addresses of one region have the same page table.
LEMMA SameRegion ==
    ASSUME NEW a \in Nat, NEW b \in Nat, b <= a, a < ROUNDDOWN(b + PTSIZE, PTSIZE)
    PROVE  PDX1(a) = PDX1(b) /\ PDX0(a) = PDX0(b)
<1>1. PICK e \in Nat \ {0} : e = NEntry
  BY PageTableAssumption
<1>2. PICK t \in Nat \ {0} : t = PTSIZE
  <2>1. PICK d \in Nat \ {0} : d = PGSIZE
    BY Constants
  <2> QED BY <1>1, <2>1 DEF PTSIZE
<1>4. PICK y \in Nat, r \in Nat : b = t * y + r /\ r < t /\ y = b \div t
  BY Quotient
<1>5. PICK x \in Nat, s \in Nat : a = t * x + s /\ s < t /\ x = a \div t
  BY Quotient
<1>6. a < t * y + t
  <2>1. PICK c \in Nat : c = b + t
    OBVIOUS
  <2>2. PICK w \in Nat, z \in Nat : c = t * w + z /\ z = c % t
    BY Quotient
  <2>3. ROUNDDOWN(c, t) = t * w /\ t * w <= c
    <3>1. t * w \in Nat
      OBVIOUS
    <3> QED BY <2>2, <3>1 DEF ROUNDDOWN
  <2>4. w <= y + 1
    <3>1. CASE w > y + 1
      <4>1. PICK j \in Nat : w = y + 2 + j
        <5>1. w - y - 2 \in Nat
          BY <3>1
        <5> QED BY <5>1
      <4>2. t * w = t * y + t + t + t * j /\ t * j \in Nat /\ t * y \in Nat
        BY <4>1
      <4> QED BY <1>4, <2>1, <2>2, <2>3, <4>2
    <3> QED BY <3>1
  <2>5. PICK j \in Nat : y + 1 = w + j
    <3>1. y + 1 - w \in Nat
      BY <2>4
    <3> QED BY <3>1
  <2>6. t * (y + 1) = t * w + t * j /\ t * (y + 1) = t * y + t /\ t * j \in Nat /\ t * w \in Nat
    <3>1. t * (w + j) = t * w + t * j
      OBVIOUS
    <3>2. t * (y + 1) = t * y + t
      OBVIOUS
    <3> QED BY <2>5, <3>1, <3>2
  <2>7. t * y \in Nat
    OBVIOUS
  <2> QED BY <1>2, <2>1, <2>2, <2>3, <2>6, <2>7
<1>7. x = y
  <2>1. CASE x > y
    <3>1. PICK j \in Nat : x = y + 1 + j
      <4>1. x - y - 1 \in Nat
        BY <2>1
      <4> QED BY <4>1
    <3>2. t * x = t * y + t + t * j /\ t * j \in Nat /\ t * y \in Nat
      BY <3>1
    <3> QED BY <1>5, <1>6, <3>2
  <2>2. CASE x < y
    <3>1. PICK j \in Nat : y = x + 1 + j
      <4>1. y - x - 1 \in Nat
        BY <2>2
      <4> QED BY <4>1
    <3>2. t * y = t * x + t + t * j /\ t * j \in Nat /\ t * x \in Nat
      BY <3>1
    <3> QED BY <1>4, <1>5, <3>2
  <2> QED BY <2>1, <2>2
<1>8. a \div t = b \div t
  BY <1>4, <1>5, <1>7
<1>9. PDX0(a) = PDX0(b)
  BY <1>2, <1>8 DEF PDX0
<1>10. PDX1(a) = PDX1(b)
  BY <1>2, <1>8, RegionDir
<1> QED BY <1>9, <1>10

-----------------------------------------------------------------------------
\* A page of an area is a page of user memory.
LEMMA AreaPage ==
    ASSUME NEW sp, IsSpace(sp), NEW v \in Areas(sp), NEW a \in Int, a % PGSIZE = 0, Holds(v, a)
    PROVE  a \in UPage
<1>1. v \in vma_struct /\ InUserMemory(v)
  BY SpaceFacts DEF Areas
<1> QED BY <1>1, Constants DEF vma_struct, InUserMemory, Holds, UPage, PagesOf

\* The address spaces of the processes do not change with the one that a call
\* works on,
LEMMA MapOthers ==
    ASSUME PageInv, MapInv, pc # "boot", work # NULL, mm' = mm, NEW n,
           OtherMaps(mem, n, work.pgdir)
    PROVE  \A s \in Space : mm'[s] # NULL => Fits(n, mm'[s], {})
<1> SUFFICES ASSUME NEW s \in Space, mm[s] # NULL PROVE Fits(n, mm[s], {})
  OBVIOUS
<1>1. PICK q : q = mm[s]
  OBVIOUS
<1>2. q.pgdir \in Dirs(mem) /\ q.pgdir # work.pgdir
  BY <1>1, Trees DEF Rooted, Separate
<1>3. \A a \in UPage : pte(n, q.pgdir, a) = pte(mem, q.pgdir, a)
  BY <1>2 DEF OtherMaps
<1>4. Fits(mem, q, {})
  BY <1>1 DEF MapInv, SpacesFit
<1>5. Fits(n, q, {})
  BY <1>3, <1>4, FitsKept
<1> QED BY <1>1, <1>5

\* nor without a change of the tables.
LEMMA MapSame ==
    ASSUME PageInv, MapInv, pc # "boot", mm' = mm, NEW n, SameMap(mem, n)
    PROVE  \A s \in Space : mm'[s] # NULL => Fits(n, mm'[s], {})
<1> SUFFICES ASSUME NEW s \in Space, mm[s] # NULL PROVE Fits(n, mm[s], {})
  OBVIOUS
<1>1. PICK q : q = mm[s]
  OBVIOUS
<1>2. q.pgdir \in Dirs(mem)
  BY <1>1, Trees
<1>3. \A a \in UPage : pte(n, q.pgdir, a) = pte(mem, q.pgdir, a)
  BY <1>2 DEF SameMap
<1>4. Fits(mem, q, {})
  BY <1>1 DEF MapInv, SpacesFit
<1>5. Fits(n, q, {})
  BY <1>3, <1>4, FitsKept
<1> QED BY <1>1, <1>5

\* A call that fails tears down what it has built.
LEMMA MapTeardown ==
    ASSUME PageInv, MapInv, pc # "boot", work # NULL, mm' = mm, NEW m, NEW sp, NEW then,
           SameMap(mem, m) \/ OtherMaps(mem, m, work.pgdir), Teardown(m, sp, then)
    PROVE  MapInv'
<1>1. mem' = m /\ pc' = "unmap"
  BY DEF Teardown
<1>2. SpacesFit'
  BY <1>1, MapOthers, MapSame DEF SpacesFit
<1> QED BY <1>1, <1>2 DEF MapInv

\* Steps after which no address space is being built.
LEMMA MapElse ==
    ASSUME PageInv, MapInv, pc # "boot", mm' = mm,
           \/ SameMap(mem, mem')
           \/ work # NULL /\ OtherMaps(mem, mem', work.pgdir),
           pc' \notin Loading \cup Copying
    PROVE  MapInv'
<1>1. SpacesFit'
  BY MapOthers, MapSame DEF SpacesFit
<1> QED BY <1>1 DEF MapInv, Loading, Copying

-----------------------------------------------------------------------------
\* There is no process at boot.
LEMMA MapBoot ==
    ASSUME AreaInv, PageInv, MapInv, Boot
    PROVE  MapInv'
<1>1. pc = "boot" /\ pc' \in {"boot", "user_main"} /\ mm' = mm
  BY DEF Boot, BootFirst, BootSecond, BootShare, BootRemove, BootFree, At, NextCheck
<1>2. \A s \in Space : mm[s] = NULL
  BY <1>1, Before
<1> QED BY <1>1, <1>2 DEF MapInv, SpacesFit

\* exit_mmap() changes the address space that is torn down,
LEMMA MapUnmap ==
    ASSUME AreaInv, PageInv, MapInv, Unmap
    PROVE  MapInv'
<1>1. pc = "unmap" /\ mm' = mm /\ pc' \in {"unmap", "exit_range"}
  BY DEF Unmap
<1>2. /\ IsSpace(work) /\ call \in CallType /\ work # NULL
      /\ Good(mem) /\ work.pgdir \in Dirs(mem) /\ call.i > 0
  BY <1>1, Before, Trees, Constants DEF Building, IsSpace, Cursor
<1>3. CASE call.i <= Len(work.mmap_list)
  <2>1. PICK k \in 1 .. Len(work.mmap_list) : k = call.i
    BY <1>2, <1>3, SpaceFacts DEF CallType
  <2>2. PICK vma : vma = work.mmap_list[k]
    OBVIOUS
  <2>3. vma.vm_start \in Nat /\ vma.vm_end \in Nat /\ vma.vm_end <= UserTop
    BY <1>2, <2>1, <2>2, AreaBounds
  <2>4. mem' = unmap_range(mem, work.pgdir, vma.vm_start, vma.vm_end)
    BY <1>3, <2>1, <2>2 DEF Unmap
  <2>5. OtherMaps(mem, mem', work.pgdir)
    BY <1>2, <2>3, <2>4, UnmapMap
  <2> QED BY <1>1, <1>2, <2>5, MapElse DEF Loading, Copying
<1>4. CASE ~(call.i <= Len(work.mmap_list))
  <2>1. mem' = mem
    BY <1>4 DEF Unmap
  <2> QED BY <1>1, <2>1, SameEntries, MapElse DEF Loading, Copying
<1> QED BY <1>3, <1>4

\* and so does what follows.
LEMMA MapExitRange ==
    ASSUME AreaInv, PageInv, MapInv, ExitRange
    PROVE  MapInv'
<1>1. pc = "exit_range" /\ mm' = mm /\ pc' \in {"exit_range", "load", "user"}
  BY DEF ExitRange
<1>2. IsSpace(work) /\ work # NULL /\ Good(mem) /\ work.pgdir \in Dirs(mem)
  BY <1>1, Before, Trees, Constants DEF Building, IsSpace
<1>3. CASE call.i <= Len(work.mmap_list)
  <2>1. PICK vma : vma = work.mmap_list[call.i]
    OBVIOUS
  <2>2. mem' = exit_range(mem, work.pgdir, vma.vm_start, vma.vm_end)
    BY <1>3, <2>1 DEF ExitRange
  <2>3. OtherMaps(mem, mem', work.pgdir)
    BY <1>2, <2>2, ExitRangeMap
  <2> QED BY <1>1, <1>2, <2>3, MapElse DEF Loading, Copying
<1>4. CASE ~(call.i <= Len(work.mmap_list))
  <2>1. PICK F \in SUBSET Page : F = {work.pgdir}
    BY <1>2 DEF Dirs
  <2>2. mem' = free_page(mem, F)
    BY <1>4, <2>1 DEF ExitRange, put_pgdir
  <2>3. \A p \in F : mem.ref[p] = 0
    BY <1>2, <2>1 DEF Good, Dirs
  <2>4. OtherMaps(mem, mem', work.pgdir)
    <3> SUFFICES ASSUME NEW r \in Dirs(mem), NEW a \in UPage, r # work.pgdir
                 PROVE  pte(mem', r, a) = pte(mem, r, a)
      BY DEF OtherMaps
    <3>1. r \in Dirs(mem) \ F
      BY <2>1
    <3> QED BY <1>2, <2>2, <2>3, <3>1, FreeMap
  <2> QED BY <1>1, <1>2, <2>4, MapElse DEF Loading, Copying
<1> QED BY <1>3, <1>4

\* do_execve() and do_exit() take the address space from the process.
LEMMA MapExecExit ==
    ASSUME AreaInv, PageInv, MapInv, NEW s \in Space, Exec(s) \/ Exit(s)
    PROVE  MapInv'
<1>1. /\ pc = "user" /\ mm' = [mm EXCEPT ![s] = NULL] /\ pc' = "unmap" /\ mem' = mem
  BY DEF Exec, Exit
<1>2. mm \in [Space -> mm_struct \cup {NULL}]
  BY <1>1, Before DEF Spaces
<1>3. \A r \in Space : mm'[r] = NULL \/ mm'[r] = mm[r]
  BY <1>1, <1>2
<1>4. SpacesFit'
  BY <1>1, <1>3 DEF MapInv, SpacesFit
<1> QED BY <1>1, <1>4 DEF MapInv

\* A new address space is empty.
LEMMA MapNew ==
    ASSUME AreaInv, PageInv, MapInv, pc \in {"load", "user"}, mm' = mm, Free(mem) # {},
           mem' = setup_pgdir(mem), work' = mm_create(mem)
    PROVE  SpacesFit' /\ Fits(mem', work', {})
<1>1. PICK p \in Page : p = alloc_page(mem) /\ mem.use[p] = "free"
  BY AllocPage DEF Free
<1>2. Good(mem) /\ \A s \in Space : mm[s] # NULL => mm[s].pgdir \in Dirs(mem)
  BY Trees
<1>3. \A a \in UPage : /\ pte(mem', p, a) = NULL
                       /\ \A r \in Dirs(mem) : pte(mem', r, a) = pte(mem, r, a)
  BY <1>1, <1>2, TakeDirMap
<1>4. SameMap(mem, mem')
  BY <1>3 DEF SameMap
<1>5. SpacesFit'
  BY <1>4, MapSame DEF SpacesFit
<1>6. work'.pgdir = p
  BY <1>1 DEF mm_create
<1>7. Areas(work') = {}
  <2>1. IsSpace(work') /\ work'.mmap_list = <<>>
    BY NewSpace
  <2>2. Range(work'.mmap_list) = {work'.mmap_list[k] : k \in 1 .. Len(work'.mmap_list)}
    BY <2>1, SpaceFacts
  <2> QED BY <2>1, <2>2 DEF Areas
<1> QED BY <1>3, <1>5, <1>6, <1>7, FitsEmpty

\* load_icode() begins.
LEMMA MapLoad ==
    ASSUME AreaInv, PageInv, MapInv, Load
    PROVE  MapInv'
<1>1. pc = "load" /\ mm' = mm
  BY DEF Load
<1>2. CASE /\ Free(mem) # {} /\ mem' = setup_pgdir(mem) /\ work' = mm_create(mem)
           /\ pc' = "segment"
  BY <1>1, <1>2, MapNew DEF MapInv
<1>3. CASE pc' = "user" /\ mem' = mem
  BY <1>1, <1>3, SameEntries, MapElse DEF Loading, Copying
<1> QED BY <1>2, <1>3 DEF Load

\* copy_mm() begins.
LEMMA MapFork ==
    ASSUME AreaInv, PageInv, MapInv, NEW s \in Space, NEW t \in Space, Fork(s, t)
    PROVE  MapInv'
<1>1. /\ pc = "user" /\ mm' = mm /\ Free(mem) # {} /\ pc' = "dup"
      /\ mem' = setup_pgdir(mem) /\ work' = mm_create(mem)
  BY DEF Fork
<1> QED BY <1>1, MapNew DEF MapInv

-----------------------------------------------------------------------------
\* The area of a segment that is being filled.
LEMMA FillingArea ==
    ASSUME AreaInv, PageInv, MapInv, pc \in {"file", "bss"}
    PROVE  /\ FillingMap /\ IsSpace(work) /\ PhArea \in Areas(work) /\ InUserMemory(PhArea)
           /\ PhArea.vm_start = ROUNDDOWN(ph.va, PGSIZE) /\ PhArea.vm_start \in Nat
           /\ PhArea.vm_end = ROUNDUP(ph.va + ph.memsz, PGSIZE) /\ PhArea.vm_end \in Nat
           /\ PhArea.vm_flags = ph.flags
           /\ ph.va + ph.memsz \in Nat /\ ph.va + ph.memsz <= PhArea.vm_end
           /\ call.la \in Nat /\ call.start \in Int
<1>1. /\ IsSpace(work) /\ Filling /\ ph.va \in Nat /\ ph.memsz \in Nat
      /\ call.la \in Int /\ call.start \in Int
  BY Filler
<1>2. FillingMap /\ PhArea \in Areas(work)
  BY DEF MapInv, FillingMap
<1>3. InUserMemory(PhArea)
  BY <1>1, <1>2, SpaceFacts DEF Areas
<1>4. /\ PhArea.vm_start = ROUNDDOWN(ph.va, PGSIZE) /\ PhArea.vm_flags = ph.flags
      /\ PhArea.vm_end = ROUNDUP(ph.va + ph.memsz, PGSIZE)
  BY DEF PhArea, vma_create
<1>5. PICK b \in Nat : b = ph.va + ph.memsz
  BY <1>1
<1>6. /\ ROUNDDOWN(ph.va, PGSIZE) \in Nat /\ ROUNDUP(b, PGSIZE) \in Nat
      /\ b <= ROUNDUP(b, PGSIZE)
  BY <1>1, <1>5, Constants, Rounding, RoundBounds
<1>7. call.la \in Nat
  BY <1>1 DEF Filling
<1> QED BY <1>1, <1>2, <1>3, <1>4, <1>5, <1>6, <1>7

\* When all bytes of the segment are loaded, its area is mapped.
LEMMA FillingDone ==
    ASSUME AreaInv, PageInv, MapInv, pc \in {"file", "bss"},
           call.start >= ph.va + ph.memsz, call.start <= call.la \/ ph.memsz = 0
    PROVE  Fits(mem, work, {})
<1>1. /\ FillingMap
      /\ PhArea.vm_start \in Nat /\ PhArea.vm_end \in Nat
      /\ PhArea.vm_end = ROUNDUP(ph.va + ph.memsz, PGSIZE)
      /\ ph.va + ph.memsz \in Nat /\ call.la \in Nat /\ call.start \in Int
  BY FillingArea
<1>2. CASE call.start <= call.la
  <2>1. PICK b \in Nat : b = ph.va + ph.memsz /\ b <= call.la
    BY <1>1, <1>2
  <2>2. call.la % PGSIZE = 0
    BY <1>1 DEF FillingMap
  <2>3. ROUNDUP(b, PGSIZE) <= call.la
    BY <1>1, <2>1, <2>2, Constants, RoundUpLeast
  <2>4. PhArea.vm_end <= call.la
    BY <1>1, <2>1, <2>3
  <2>5. ASSUME NEW a \in UPage, Holds(PhArea, a) PROVE pte(mem, work.pgdir, a) # NULL
    <3>1. a \in Nat /\ PhArea.vm_start <= a /\ a < call.la
      BY <1>1, <2>4, <2>5, UPageFacts DEF Holds
    <3> QED BY <1>1, <3>1 DEF FillingMap, MappedTo
  <2>6. Backed(mem, work.pgdir, PhArea)
    BY <2>5 DEF Backed
  <2> QED BY <1>1, <2>6, FitsDone DEF FillingMap
<1>3. CASE ph.memsz = 0
  <2>1. call.prog \in Programs /\ call.i \in 1 .. Len(Segments) /\ ph.va \in Nat
    BY Loaded, Before, Filler DEF Calling, Loading
  <2>2. call.i \in DOMAIN call.prog.segments
    <3>1. call.prog.segments \in Seq(Segment)
      BY <2>1, Constants
    <3> QED BY <2>1, <3>1 DEF Segments
  <2>3. PICK p : p = call.prog.segments[call.i] /\ p = ph
    BY DEF ph, Segments
  <2>4. PhArea = vma_create(ROUNDDOWN(p.va, PGSIZE), ROUNDUP(p.va, PGSIZE), p.flags)
    <3>1. ph.va + ph.memsz = ph.va
      BY <1>3, <2>1
    <3> QED BY <2>3, <3>1 DEF PhArea
  <2>5. EmptyArea(PhArea)
    BY <1>3, <2>1, <2>2, <2>3, <2>4 DEF EmptyArea
  <2>6. Backed(mem, work.pgdir, PhArea)
    BY <2>5 DEF Backed
  <2> QED BY <1>1, <2>6, FitsDone DEF FillingMap
<1> QED BY <1>2, <1>3

\* memcpy() and memset() change no table.
LEMMA FilledMap ==
    ASSUME NEW m, Good(m), NEW p, NEW la, NEW start, NEW size, NEW file
    PROVE  SameMap(m, Filled(m, p, la, start, size, file))
<1>1. PICK d : Filled(m, p, la, start, size, file) = [m EXCEPT !.data = d]
  BY DEF Filled
<1>2. [m EXCEPT !.data = d].entry = m.entry
  BY DEF Good, Memory
<1> QED BY <1>1, <1>2, SameEntries

\* The header of a segment: its area,
LEMMA MapLoadSegment ==
    ASSUME AreaInv, PageInv, MapInv, LoadSegment
    PROVE  MapInv'
<1>1. pc = "segment" /\ call.i <= Len(Segments) /\ mm' = mm
  BY DEF LoadSegment
<1>2. /\ IsSpace(work) /\ work # NULL /\ call \in CallType
      /\ call.prog \in Programs /\ Fits(mem, work, {}) /\ SameMap(mem, mem)
  BY <1>1, Loaded, SameEntries DEF Loading, MapInv
<1>3. call.i \in 1 .. Len(Segments)
  <2>1. Segments \in Seq(Segment)
    BY <1>2, Constants DEF Segments
  <2>2. Len(Segments) \in Nat /\ call.i \in Nat /\ call.i > 0
    BY <2>1, <1>1, <1>2, LenProperties, Before DEF CallType, Calling
  <2> QED BY <2>2, <1>1
<1>4. /\ ph.va \in Nat /\ ph.filesz \in Nat /\ ph.memsz \in Nat /\ ph.flags \in SUBSET VmFlags
      /\ ph.filesz <= ph.memsz => ph.va + ph.memsz + PGSIZE <= WordSize
  BY <1>2, <1>3, CurrentSegment
<1>5. CASE Teardown(mem, work, "load_failed")
  BY <1>1, <1>2, <1>5, MapTeardown
<1>6. CASE ~(ph.filesz > ph.memsz)
  <2>1. PICK memory \in BOOLEAN :
           LET r == mm_map(work, ph.va, ph.memsz, ph.flags, memory)
           IN  CASE r.ret = "ok" ->
                       /\ work' = r.mm /\ pc' = "file"
                       /\ call' = [call EXCEPT !.start = ph.va,
                                               !.la = ROUNDDOWN(ph.va, PGSIZE)]
                       /\ UNCHANGED <<mem, spoiled>>
                 [] r.ret = "panic" -> pc' = "panic" /\ UNCHANGED <<mem, work, call, spoiled>>
                 [] OTHER -> Teardown(mem, r.mm, "load_failed")
    BY <1>6 DEF LoadSegment
  <2>2. PICK r : r = mm_map(work, ph.va, ph.memsz, ph.flags, memory)
    OBVIOUS
  <2>3. CASE r.ret = "ok"
    <3>1. /\ work' = r.mm /\ pc' = "file" /\ mem' = mem
          /\ call' = [call EXCEPT !.start = ph.va, !.la = ROUNDDOWN(ph.va, PGSIZE)]
      BY <2>1, <2>2, <2>3
    <3>2. /\ call'.prog = call.prog /\ call'.i = call.i /\ call'.start = ph.va
          /\ call'.la = ROUNDDOWN(ph.va, PGSIZE)
      BY <3>1, <1>2 DEF CallType
    <3>3. ph' = ph
      BY <3>2 DEF ph, Segments
    <3>4. PhArea' = PhArea /\ PhArea.vm_start = ROUNDDOWN(ph.va, PGSIZE)
      BY <3>3 DEF PhArea, vma_create
    <3>5. Areas(work') = Areas(work) \cup {PhArea} /\ work'.pgdir = work.pgdir
      <4>1. PICK v : v = vma_create(ROUNDDOWN(ph.va, PGSIZE),
                                    ROUNDUP(ph.va + ph.memsz, PGSIZE), ph.flags)
        OBVIOUS
      <4>2. ph.va + ph.memsz + PGSIZE <= WordSize
        BY <1>4, <1>6
      <4>3. Areas(r.mm) = Areas(work) \cup {v} /\ r.mm.pgdir = work.pgdir
        <5>1. PICK addr \in Nat, len \in Nat, flags \in SUBSET VmFlags :
                 addr = ph.va /\ len = ph.memsz /\ flags = ph.flags
          BY <1>4
        <5>2. IsSpace(work)
          BY <1>2
        <5>3. r = mm_map(work, addr, len, flags, memory) /\ r.ret = "ok"
          BY <2>2, <2>3, <5>1
        <5>4. v = vma_create(ROUNDDOWN(addr, PGSIZE), ROUNDUP(addr + len, PGSIZE), flags)
          BY <4>1, <5>1
        <5>5. addr + len + PGSIZE <= WordSize
          BY <4>2, <5>1
        <5> QED BY <5>2, <5>3, <5>4, <5>5, MmMapAreas
      <4> QED BY <3>1, <4>1, <4>3 DEF PhArea
    <3>6. Fits(mem', work', {PhArea'})
      <4>1. Fits(mem, work', {PhArea})
        BY <1>2, <3>5, FitsInserted
      <4> QED BY <3>1, <3>4, <4>1
    <3>7. call'.la \in Nat /\ call'.la % PGSIZE = 0 /\ call'.la = PhArea'.vm_start
      BY <1>4, <3>2, <3>4, Rounding
    <3>8. MappedTo(mem', work'.pgdir, PhArea'.vm_start, call'.la)
      BY <3>7, UPageFacts DEF MappedTo
    <3>9. FillingMap'
      BY <3>2, <3>3, <3>4, <3>5, <3>6, <3>7, <3>8 DEF FillingMap
    <3>10. SpacesFit'
      BY <1>1, <1>2, <3>1, MapSame DEF SpacesFit
    <3> QED BY <3>1, <3>9, <3>10 DEF MapInv
  <2>4. CASE r.ret = "panic"
    <3>1. pc' = "panic" /\ mem' = mem
      BY <2>1, <2>2, <2>3, <2>4
    <3> QED BY <1>1, <1>2, <3>1, MapElse DEF Loading, Copying
  <2>5. CASE r.ret # "ok" /\ r.ret # "panic"
    <3>1. Teardown(mem, r.mm, "load_failed")
      BY <2>1, <2>2, <2>5
    <3> QED BY <1>1, <1>2, <3>1, MapTeardown
  <2> QED BY <2>3, <2>4, <2>5
<1> QED BY <1>5, <1>6 DEF LoadSegment

\* a file that is none,
LEMMA MapLoadBadMagic ==
    ASSUME AreaInv, PageInv, MapInv, LoadBadMagic
    PROVE  MapInv'
<1>1. pc = "segment" /\ mm' = mm /\ Teardown(mem, work, "load_failed")
  BY DEF LoadBadMagic
<1>2. work # NULL /\ SameMap(mem, mem)
  BY <1>1, Loaded, SameEntries DEF Loading
<1> QED BY <1>1, <1>2, MapTeardown

\* and one page, which is in the area and gets its permissions.
LEMMA MapLoadPage ==
    ASSUME AreaInv, PageInv, MapInv, pc \in {"file", "bss"}, mm' = mm, NEW file \in BOOLEAN,
           NEW end, end = ph.va + (IF pc = "file" THEN ph.filesz ELSE ph.memsz),
           call.start < end, LoadPage(end, file)
    PROVE  MapInv'
<1>1. /\ IsSpace(work) /\ work # NULL /\ call \in CallType /\ work.pgdir \in Dirs(mem)
      /\ Good(mem) /\ Filling
      /\ ph.va \in Nat /\ ph.filesz \in Nat /\ ph.memsz \in Nat
      /\ call.la \in Int /\ call.start \in Int
  BY Filler
<1>2. /\ end \in Nat /\ end <= UserTop /\ call.la \in Nat /\ call.la < UserTop
      /\ call.la <= call.start /\ end <= ph.va + ph.memsz
  BY <1>1, Constants DEF Filling
<1>3. /\ FillingMap /\ PhArea \in Areas(work)
      /\ PhArea.vm_start \in Nat /\ PhArea.vm_end \in Nat
      /\ PhArea.vm_flags = ph.flags /\ ph.va + ph.memsz <= PhArea.vm_end
  BY FillingArea
<1>4. PICK la \in UPage : la = call.la
  <2>1. call.la % PGSIZE = 0
    BY <1>3 DEF FillingMap
  <2> QED BY <1>2, <2>1, Constants DEF UPage, PagesOf
<1>5. Holds(PhArea, la)
  <2>1. PhArea.vm_start <= call.la
    BY <1>3 DEF FillingMap
  <2> QED BY <1>1, <1>2, <1>3, <1>4, <2>1 DEF Holds
<1>6. PICK bits \in Perm : bits = perm(ph.flags)
  BY AreaPerm
<1>7. PICK r : r = pgdir_alloc_page(mem, work.pgdir, la, bits)
  OBVIOUS
<1>8. \/ r.page = NULL /\ SameMap(mem, r.mem)
      \/ r.page # NULL /\ NewMap(mem, r.mem, work.pgdir, la, pte_create(r.page, bits))
  BY <1>1, <1>6, <1>7, NewPageMap
<1>9. CASE r.page = NULL
  <2>1. Teardown(r.mem, work, "load_failed")
    BY <1>4, <1>6, <1>7, <1>9 DEF LoadPage
  <2>2. SameMap(mem, r.mem)
    BY <1>8, <1>9
  <2>3. pc # "boot"
    OBVIOUS
  <2> QED BY <1>1, <2>1, <2>2, <2>3, MapTeardown
<1>10. CASE r.page # NULL
  <2> DEFINE next == call.la + PGSIZE
             size == IF end < next THEN end - call.start ELSE next - call.start
  <2>1. /\ call' = [call EXCEPT !.la = next, !.start = @ + size, !.page = r.page]
        /\ work' = work /\ pc' = pc
        /\ mem' = Filled(r.mem, r.page, call.la, call.start, size, file)
    BY <1>4, <1>6, <1>7, <1>10 DEF LoadPage
  <2>2. call.start + size <= next
    BY <1>1, <1>2, Constants
  <2>3. PICK e : /\ e = pte_create(r.page, bits) /\ e # NULL
                 /\ e.perm = PagePerm(PhArea.vm_flags)
    <3>1. r.page \in Page
      <4>1. Free(mem) # {}
        BY <1>7, <1>10 DEF pgdir_alloc_page
      <4>2. r.page = alloc_page(mem)
        BY <1>7, <1>10, <4>1 DEF pgdir_alloc_page
      <4> QED BY <4>1, <4>2, AllocPage
    <3>2. pte_create(r.page, bits) # NULL
      BY <3>1, PageFacts
    <3>3. pte_create(r.page, bits).perm = bits
      BY DEF pte_create
    <3>4. PagePerm(ph.flags) = perm(ph.flags)
      BY Filler DEF PagePerm
    <3> QED BY <1>3, <1>6, <3>2, <3>3, <3>4
  <2>4. NewMap(mem, mem', work.pgdir, la, e)
    <3> HIDE DEF size
    <3>1. Good(r.mem) /\ Dirs(r.mem) = Dirs(mem)
      BY <1>1, <1>4, <1>7, <1>2, NewPage DEF Keeps
    <3>2. SameMap(r.mem, mem')
      BY <2>1, <3>1, FilledMap
    <3>3. NewMap(mem, r.mem, work.pgdir, la, e)
      BY <1>8, <1>10, <2>3
    <3> QED BY <3>1, <3>2, <3>3 DEF NewMap, SameMap
  <2>5. \A a \in UPage : pte(mem', work.pgdir, a) = IF a = la THEN e ELSE pte(mem, work.pgdir, a)
    BY <1>1, <2>4 DEF NewMap
  <2>6. OtherMaps(mem, mem', work.pgdir)
    BY <2>4 DEF NewMap, OtherMaps
  <2>7. SpacesFit'
    BY <1>1, <2>6, MapOthers DEF SpacesFit
  <2>8. Fits(mem', work, {PhArea})
    <3>1. Fits(mem, work, {PhArea})
      BY <1>3 DEF FillingMap
    <3> QED BY <1>3, <1>5, <2>3, <2>5, <3>1, FitsMapped
  <2>9. /\ call'.prog = call.prog /\ call'.i = call.i /\ call'.la = next
        /\ call'.start = call.start + size
    <3> HIDE DEF next, size
    <3> QED BY <1>1, <2>1 DEF CallType
  <2>10. PhArea' = PhArea
    <3>1. ph' = ph
      BY <2>9 DEF ph, Segments
    <3> QED BY <3>1 DEF PhArea
  <2>11. next \in Nat /\ next % PGSIZE = 0
    <3>1. call.la % PGSIZE = 0
      BY <1>3 DEF FillingMap
    <3> QED BY <1>2, <3>1, PageAfter
  <2>12. PhArea.vm_start <= next
    <3>1. PhArea.vm_start <= call.la
      BY <1>3 DEF FillingMap
    <3> QED BY <1>2, <1>3, <3>1, Constants
  <2>13. MappedTo(mem', work.pgdir, PhArea.vm_start, next)
    <3> SUFFICES ASSUME NEW a \in UPage, PhArea.vm_start <= a, a < next
                 PROVE  pte(mem', work.pgdir, a) # NULL
      BY DEF MappedTo
    <3>1. a \in Nat /\ a % PGSIZE = 0 /\ la \in Nat /\ la % PGSIZE = 0
      BY UPageFacts
    <3>2. CASE a < la
      <4>1. pte(mem, work.pgdir, a) # NULL
        BY <1>3, <1>4, <3>2 DEF FillingMap, MappedTo
      <4> QED BY <2>3, <2>5, <4>1
    <3>3. CASE ~(a < la)
      <4>1. a = la
        BY <1>4, <3>1, <3>3, NextPage
      <4> QED BY <2>3, <2>5, <4>1
    <3> QED BY <3>2, <3>3
  <2>14. FillingMap'
    <3> HIDE DEF next, size
    <3> QED BY <1>3, <2>1, <2>2, <2>8, <2>9, <2>10, <2>11, <2>12, <2>13 DEF FillingMap
  <2> HIDE DEF next, size
  <2> QED BY <2>1, <2>7, <2>14 DEF MapInv
<1> QED BY <1>9, <1>10

\* The pages with bytes of the file,
LEMMA MapLoadFile ==
    ASSUME AreaInv, PageInv, MapInv, LoadFile
    PROVE  MapInv'
<1>1. /\ pc = "file" /\ mm' = mm /\ call.start < ph.va + ph.filesz
      /\ LoadPage(ph.va + ph.filesz, TRUE)
  BY Filler DEF LoadFile
<1>2. PICK file \in BOOLEAN : file = TRUE
  OBVIOUS
<1>3. LoadPage(ph.va + ph.filesz, file)
  BY <1>1, <1>2, Zenon
<1> QED BY <1>1, <1>3, MapLoadPage

\* those without,
LEMMA MapLoadBss ==
    ASSUME AreaInv, PageInv, MapInv, LoadBss
    PROVE  MapInv'
<1>1. pc = "bss" /\ mm' = mm
  BY DEF LoadBss
<1>2. CASE call.start < ph.va + ph.memsz
  <2>1. LoadPage(ph.va + ph.memsz, FALSE)
    BY <1>1, <1>2, Filler DEF LoadBss
  <2>2. PICK file \in BOOLEAN : file = FALSE
    OBVIOUS
  <2>3. LoadPage(ph.va + ph.memsz, file)
    BY <2>1, <2>2, Zenon
  <2> QED BY <1>1, <1>2, <2>3, MapLoadPage
<1>3. CASE ~(call.start < ph.va + ph.memsz)
  <2>1. pc' = "segment" /\ mem' = mem /\ work' = work
    BY <1>1, <1>3, Filler DEF LoadBss, NextSegment
  <2>2. /\ call.start \in Int /\ ph.va \in Nat /\ ph.memsz \in Nat
        /\ call.start <= call.la \/ call.start = ph.va
    BY <1>1, Filler, FillingArea DEF FillingMap
  <2>3. call.start >= ph.va + ph.memsz /\ (call.start <= call.la \/ ph.memsz = 0)
    BY <1>3, <2>2
  <2>4. Fits(mem, work, {})
    BY <1>1, <2>3, FillingDone
  <2>5. SpacesFit'
    BY <1>1, <2>1, SameEntries, MapSame DEF SpacesFit
  <2> QED BY <2>1, <2>4, <2>5 DEF MapInv
<1> QED BY <1>2, <1>3

\* and the rest of the last page with some.
LEMMA MapLoadEdge ==
    ASSUME AreaInv, PageInv, MapInv, LoadEdge
    PROVE  MapInv'
<1> DEFINE end == mem_end
           size == Word(IF end < call.la THEN end - call.start ELSE call.la - call.start)
           start == Word(call.start + size)
<1>1. pc = "file" /\ mm' = mm /\ work' = work
  BY DEF LoadEdge
<1>2. /\ call \in CallType /\ Good(mem) /\ FillingMap
      /\ ph.va \in Nat /\ ph.memsz \in Nat /\ call.la \in Int /\ call.start \in Int
      /\ work.pgdir \in Dirs(mem) /\ work # NULL /\ end = ph.va + ph.memsz
  BY <1>1, Filler, FillingArea
<1>3. CASE call.start >= call.la
  <2>1. pc' = "bss" /\ mem' = mem /\ call' = call
    BY <1>3 DEF LoadEdge
  <2>2. PhArea' = PhArea /\ ph' = ph
    BY <2>1 DEF PhArea, ph, Segments
  <2>3. FillingMap'
    BY <1>1, <1>2, <2>1, <2>2 DEF FillingMap
  <2>4. SpacesFit'
    BY <1>1, <2>1, SameEntries, MapSame DEF SpacesFit
  <2> QED BY <2>1, <2>3, <2>4 DEF MapInv
<1>4. CASE ~(call.start >= call.la) /\ call.start = end
  <2>1. pc' = "segment" /\ mem' = mem
    BY <1>4 DEF LoadEdge, NextSegment
  <2>2. Fits(mem, work, {})
    BY <1>1, <1>2, <1>4, FillingDone
  <2>3. SpacesFit'
    BY <1>1, <2>1, SameEntries, MapSame DEF SpacesFit
  <2> QED BY <1>1, <2>1, <2>2, <2>3 DEF MapInv
<1>5. CASE ~(call.start >= call.la) /\ call.start # end
  <2>1. /\ mem' = Filled(mem, call.page, call.la - PGSIZE, call.start, size, FALSE)
        /\ call' = [call EXCEPT !.start = start]
        /\ pc' = IF \/ end < call.la /\ start = end
                    \/ end >= call.la /\ start = call.la
                 THEN "bss" ELSE "panic"
    BY <1>5 DEF LoadEdge
  <2>2. SameMap(mem, mem')
    <3> HIDE DEF size
    <3> QED BY <1>2, <2>1, FilledMap
  <2>3. pc' \in {"bss", "panic"} /\ (pc' = "bss" => start <= call.la)
    <3> HIDE DEF start, end
    <3> QED BY <1>2, <2>1
  <2>4. /\ call'.prog = call.prog /\ call'.i = call.i /\ call'.la = call.la
        /\ call'.start = start
    <3> HIDE DEF start
    <3> QED BY <1>2, <2>1 DEF CallType
  <2>5. PhArea' = PhArea /\ ph' = ph
    <3>1. ph' = ph
      BY <2>4 DEF ph, Segments
    <3> QED BY <3>1 DEF PhArea
  <2>6. \A a \in UPage : pte(mem', work.pgdir, a) = pte(mem, work.pgdir, a)
    BY <1>2, <2>2 DEF SameMap
  <2>7. Fits(mem', work, {PhArea})
    <3>1. Fits(mem, work, {PhArea})
      BY <1>2 DEF FillingMap
    <3> QED BY <2>6, <3>1, FitsKept
  <2>8. MappedTo(mem', work.pgdir, PhArea.vm_start, call.la)
    BY <1>2, <2>6 DEF FillingMap, MappedTo
  <2>9. pc' = "bss" => FillingMap'
    <3> HIDE DEF start
    <3> QED BY <1>1, <1>2, <2>3, <2>4, <2>5, <2>7, <2>8 DEF FillingMap
  <2>10. SpacesFit'
    BY <1>1, <2>2, MapSame DEF SpacesFit
  <2> HIDE DEF start, size, end
  <2> QED BY <2>3, <2>9, <2>10 DEF MapInv
<1> QED BY <1>3, <1>4, <1>5

-----------------------------------------------------------------------------
\* mm_map() makes it of whole pages as it is.
LEMMA StackIs ==
    ASSUME NEW addr \in Nat, NEW len \in Nat, addr = UserTop - StackSize, len = StackSize,
           NEW flags, flags = {"READ", "WRITE", "STACK"}
    PROVE  vma_create(ROUNDDOWN(addr, PGSIZE), ROUNDUP(addr + len, PGSIZE), flags) = StackArea
<1>1. PICK d \in Nat \ {0} : d = PGSIZE
  BY Constants
<1>2. UserTop \in Nat /\ UserTop % d = 0 /\ StackSize \in Nat /\ StackSize % d = 0
  BY <1>1, Constants, RegionPages, AddressSpaceAssumption
<1>3. PICK y \in Nat, z \in Nat : UserTop = d * y /\ StackSize = d * z
  <2>1. \E y \in Nat : UserTop = d * y
    BY <1>2, Multiple
  <2>2. \E z \in Nat : StackSize = d * z
    BY <1>2, Multiple
  <2> QED BY <2>1, <2>2, Zenon
<1>4. PICK x \in Nat : addr = d * x
  <2>1. CASE z <= y
    <3>1. PICK x \in Nat : y = z + x
      <4>1. y - z \in Nat
        BY <2>1
      <4> QED BY <4>1
    <3>2. d * y = d * z + d * x /\ d * x \in Nat /\ d * z \in Nat
      BY <3>1
    <3>3. addr = d * x
      BY <1>3, <3>2
    <3> QED BY <3>3
  <2>2. CASE z > y
    <3>1. PICK x \in Nat : z = y + 1 + x
      <4>1. z - y - 1 \in Nat
        BY <2>2
      <4> QED BY <4>1
    <3>2. d * z = d * y + d + d * x /\ d * x \in Nat /\ d * y \in Nat
      BY <3>1
    <3> QED BY <1>3, <3>2
  <2> QED BY <2>1, <2>2
<1>5. ASSUME NEW w \in Nat, NEW b \in Nat, b = d * w
      PROVE  ROUNDDOWN(b, d) = b /\ ROUNDUP(b, d) = b
  <2>1. b % d = 0
    <3>1. (d * w) % d = 0
      OBVIOUS
    <3> QED BY <1>5, <3>1
  <2>2. ROUNDDOWN(b, d) = b
    BY <2>1 DEF ROUNDDOWN
  <2>3. b <= ROUNDUP(b, d) /\ ROUNDUP(b, d) <= b
    <3>1. b <= ROUNDUP(b, d)
      BY RoundBounds
    <3>2. b <= b
      OBVIOUS
    <3>3. ROUNDUP(b, d) <= b
      BY <2>1, <3>2, RoundUpLeast
    <3> QED BY <3>1, <3>3
  <2>4. ROUNDUP(b, d) \in Int
    BY <1>1, Rounding
  <2> QED BY <2>2, <2>3, <2>4
<1>6. ROUNDDOWN(addr, PGSIZE) = addr /\ ROUNDUP(UserTop, PGSIZE) = UserTop
  BY <1>1, <1>2, <1>3, <1>4, <1>5
<1>7. addr + len = UserTop
  BY Constants
<1> QED BY <1>6, <1>7 DEF StackArea

\* The area of the stack,
LEMMA MapLoadStack ==
    ASSUME AreaInv, PageInv, MapInv, LoadStack
    PROVE  MapInv'
<1> DEFINE flags == {"READ", "WRITE", "STACK"}
<1>1. pc = "segment" /\ mm' = mm
  BY DEF LoadStack
<1>2. /\ IsSpace(work) /\ work # NULL /\ call \in CallType
      /\ Fits(mem, work, {}) /\ SameMap(mem, mem)
  BY <1>1, Loaded, SameEntries DEF Loading, MapInv
<1>3. PICK memory \in BOOLEAN :
         LET r == mm_map(work, UserTop - StackSize, StackSize, flags, memory)
         IN  IF r.ret = "ok"
             THEN /\ work' = r.mm /\ pc' = "stack" /\ call' = [call EXCEPT !.i = 1]
                  /\ UNCHANGED <<mem, spoiled>>
             ELSE IF r.ret = "panic"
             THEN pc' = "panic" /\ UNCHANGED <<mem, work, call, spoiled>>
             ELSE Teardown(mem, r.mm, "load_failed")
  BY DEF LoadStack
<1>4. PICK r : r = mm_map(work, UserTop - StackSize, StackSize, flags, memory)
  OBVIOUS
<1>5. CASE r.ret = "ok"
  <2>1. work' = r.mm /\ pc' = "stack" /\ mem' = mem
    BY <1>3, <1>4, <1>5
  <2>2. PICK addr \in Nat, len \in Nat : /\ addr = UserTop - StackSize /\ len = StackSize
                                         /\ addr + len = UserTop
                                         /\ addr + len + PGSIZE <= WordSize
    BY Constants, Words
  <2>3. flags \in SUBSET VmFlags
    BY DEF VmFlags
  <2>4. PICK v : v = vma_create(ROUNDDOWN(addr, PGSIZE), ROUNDUP(addr + len, PGSIZE), flags)
    OBVIOUS
  <2>5. Areas(work') = Areas(work) \cup {v} /\ work'.pgdir = work.pgdir
    BY <1>2, <1>4, <1>5, <2>1, <2>2, <2>3, <2>4, MmMapAreas
  <2>6. v = StackArea
    BY <2>2, <2>4, StackIs
  <2>7. Fits(mem, work', {StackArea})
    BY <1>2, <2>5, <2>6, FitsInserted
  <2>8. Backed(mem, work'.pgdir, StackArea)
    BY DEF Backed, StackArea, vma_create
  <2>9. Fits(mem, work', {})
    BY <2>7, <2>8, FitsDone
  <2>10. SpacesFit'
    BY <1>1, <1>2, <2>1, MapSame DEF SpacesFit
  <2>11. StackArea' = StackArea
    BY DEF StackArea
  <2> QED BY <2>1, <2>5, <2>6, <2>9, <2>10, <2>11 DEF MapInv
<1>6. CASE r.ret = "panic"
  <2>1. pc' = "panic" /\ mem' = mem
    BY <1>3, <1>4, <1>6
  <2> QED BY <1>1, <1>2, <2>1, MapElse DEF Loading, Copying
<1>7. CASE r.ret # "ok" /\ r.ret # "panic"
  <2>1. Teardown(mem, r.mm, "load_failed")
    BY <1>3, <1>4, <1>7
  <2> QED BY <1>1, <1>2, <2>1, MapTeardown
<1> QED BY <1>5, <1>6, <1>7

\* LoadStackPage maps a page of the area of the stack.
LEMMA StackPage ==
    ASSUME AreaInv, PageInv, MapInv, LoadStackPage
    PROVE  \E la \in UPage : la = UserTop - call.i * PGSIZE /\ Holds(StackArea, la)
<1>1. pc = "stack" /\ call.i <= StackMapped
  BY DEF LoadStackPage
<1>2. call \in CallType
  BY <1>1, Loaded DEF Loading
<1>3. call.i \in Nat /\ call.i > 0
  BY <1>1, <1>2, Trees DEF Cursor, CallType
<1>4. PICK la \in Nat : /\ la = UserTop - call.i * PGSIZE /\ la < UserTop
                        /\ UserTop - StackSize <= la /\ la % PGSIZE = 0
  <2>1. PICK d \in Nat \ {0} : d = PGSIZE
    BY Constants
  <2>2. PICK i \in Nat \ {0} : i = call.i
    BY <1>3
  <2>3. PICK n \in Nat : n = StackMapped
    BY Constants
  <2>4. i * d <= n * d /\ i * d > 0 /\ i * d \in Nat /\ n * d \in Nat
    <3>1. PICK k \in Nat : n = i + k
      <4>1. n - i \in Nat /\ n = i + (n - i)
        BY <1>1, <2>2, <2>3
      <4> QED BY <4>1
    <3>2. n * d = i * d + k * d /\ k * d \in Nat
      BY <3>1
    <3>3. PICK j \in Nat : i = j + 1
      OBVIOUS
    <3>4. i * d = j * d + d /\ j * d \in Nat
      BY <3>3
    <3> QED BY <3>2, <3>4
  <2>5. n * d < StackSize /\ StackSize \in Nat /\ UserTop \in Nat /\ StackSize < UserTop
    BY <2>1, <2>3, Constants, AddressSpaceAssumption
  <2>6. PICK la \in Nat : /\ la = UserTop - i * d /\ la < UserTop /\ UserTop - StackSize <= la
    BY <2>4, <2>5
  <2>7. PICK y \in Nat : UserTop = d * y
    <3>1. UserTop % d = 0
      BY <2>1, Constants, RegionPages, AddressSpaceAssumption
    <3> QED BY <2>5, <3>1, Multiple
  <2>8. i < y
    <3>1. CASE i >= y
      <4>1. PICK k \in Nat : i = y + k
        <5>1. i - y \in Nat
          BY <3>1
        <5> QED BY <5>1
      <4>2. i * d = d * y + k * d /\ k * d \in Nat
        BY <4>1
      <4>3. i * d < UserTop
        BY <2>4, <2>5
      <4> QED BY <2>5, <2>7, <4>2, <4>3
    <3> QED BY <3>1
  <2>9. PICK k \in Nat : y = i + k
    <3>1. y - i \in Nat
      BY <2>8
    <3> QED BY <3>1
  <2>10. d * y = i * d + d * k /\ d * k \in Nat /\ (d * k) % d = 0
    BY <2>9
  <2>11. la = d * k
    BY <2>4, <2>5, <2>6, <2>7, <2>10
  <2> QED BY <2>1, <2>2, <2>6, <2>10, <2>11
<1>5. la \in UPage /\ Holds(StackArea, la)
  BY <1>4, Constants DEF UPage, PagesOf, Holds, StackArea, vma_create
<1> QED BY <1>4, <1>5

\* One of them is mapped.
LEMMA MapLoadStackPage ==
    ASSUME AreaInv, PageInv, MapInv, LoadStackPage
    PROVE  MapInv'
<1>1. pc = "stack" /\ mm' = mm /\ work' = work
  BY DEF LoadStackPage
<1>2. /\ IsSpace(work) /\ work # NULL /\ call \in CallType /\ work.pgdir \in Dirs(mem)
      /\ Good(mem) /\ Fits(mem, work, {}) /\ StackArea \in Areas(work)
  BY <1>1, Loaded DEF Loading, MapInv
<1>5. PICK la \in UPage : la = UserTop - call.i * PGSIZE /\ Holds(StackArea, la)
  BY StackPage
<1>6. PICK bits \in Perm : bits = PTE_USER
  BY DEF Perm, PTE_USER
<1>7. PICK r : r = pgdir_alloc_page(mem, work.pgdir, la, bits)
  OBVIOUS
<1>8. \/ r.page = NULL /\ SameMap(mem, r.mem)
      \/ r.page # NULL /\ NewMap(mem, r.mem, work.pgdir, la, pte_create(r.page, bits))
  BY <1>2, <1>5, <1>6, <1>7, NewPageMap
<1>9. mem' = r.mem /\ pc' = IF r.page = NULL THEN "panic" ELSE pc
  BY <1>1, <1>5, <1>6, <1>7 DEF LoadStackPage
<1>10. CASE r.page = NULL
  <2>1. SameMap(mem, mem') /\ pc' = "panic"
    BY <1>8, <1>9, <1>10
  <2> QED BY <1>1, <2>1, MapElse DEF Loading, Copying
<1>11. CASE r.page # NULL
  <2>1. PICK e : /\ e = pte_create(r.page, bits) /\ e # NULL
                 /\ e.perm = PagePerm(StackArea.vm_flags)
    <3>1. Free(mem) # {}
      BY <1>7, <1>11 DEF pgdir_alloc_page
    <3>2. r.page = alloc_page(mem)
      BY <1>7, <1>11, <3>1 DEF pgdir_alloc_page
    <3>3. r.page \in Page
      BY <3>1, <3>2, AllocPage
    <3>4. pte_create(r.page, bits) # NULL
      BY <3>3, PageFacts
    <3>5. pte_create(r.page, bits).perm = PTE_USER
      BY <1>6 DEF pte_create
    <3>6. PagePerm(StackArea.vm_flags) = PTE_USER
      BY DEF PagePerm, StackArea, vma_create
    <3> QED BY <3>4, <3>5, <3>6
  <2>2. NewMap(mem, mem', work.pgdir, la, e)
    BY <1>8, <1>9, <1>11, <2>1
  <2>3. \A a \in UPage : pte(mem', work.pgdir, a) = IF a = la THEN e ELSE pte(mem, work.pgdir, a)
    BY <1>2, <2>2 DEF NewMap
  <2>4. OtherMaps(mem, mem', work.pgdir)
    BY <2>2 DEF NewMap, OtherMaps
  <2>5. SpacesFit'
    BY <1>1, <1>2, <2>4, MapOthers DEF SpacesFit
  <2>6. Fits(mem', work, {})
    BY <1>2, <1>5, <2>1, <2>3, FitsMapped
  <2>7. StackArea' = StackArea
    BY DEF StackArea
  <2>8. pc' = "stack"
    BY <1>1, <1>9, <1>11
  <2> QED BY <1>1, <1>2, <2>5, <2>6, <2>7, <2>8 DEF MapInv
<1> QED BY <1>10, <1>11

\* The new address space becomes the one of the process.
LEMMA MapDone ==
    ASSUME AreaInv, PageInv, MapInv, LoadDone \/ ForkDone
    PROVE  MapInv'
<1>1. /\ pc \in {"stack", "dup"} /\ mm' = [mm EXCEPT ![call.proc] = work]
      /\ pc' = "user" /\ mem' = mem
  BY DEF LoadDone, ForkDone
<1>2. mm \in [Space -> mm_struct \cup {NULL}]
  BY <1>1, Before DEF Spaces
<1>3. \A s \in Space : mm'[s] = work \/ mm'[s] = mm[s]
  BY <1>1, <1>2
<1>4. Fits(mem, work, {})
  BY <1>1 DEF MapInv
<1>5. SpacesFit'
  BY <1>1, <1>3, <1>4 DEF MapInv, SpacesFit
<1> QED BY <1>1, <1>5 DEF MapInv

-----------------------------------------------------------------------------
\* One area is copied: it is there, but not its pages.
LEMMA MapDupArea ==
    ASSUME AreaInv, PageInv, MapInv, DupArea
    PROVE  MapInv'
<1>1. pc = "dup" /\ call.i > 0 /\ mm' = mm
  BY DEF DupArea
<1>2. /\ IsSpace(work) /\ work # NULL /\ call \in CallType
      /\ SrcArea \in vma_struct /\ InUserMemory(SrcArea) /\ SrcArea.vm_start \in Nat
      /\ Fits(mem, work, {}) /\ SameMap(mem, mem)
  BY <1>1, Copied, SameEntries DEF Copying, MapInv
<1>3. PICK r : r = insert_vma_struct(work, SrcArea)
  OBVIOUS
<1>4. \/ Teardown(mem, work, "fork_failed")
      \/ pc' = "panic" /\ mem' = mem
      \/ /\ r.ok /\ work' = r.mm /\ pc' = "copy" /\ mem' = mem
         /\ call' = [call EXCEPT !.la = SrcArea.vm_start]
  BY <1>3 DEF DupArea
<1>5. CASE Teardown(mem, work, "fork_failed")
  BY <1>1, <1>2, <1>5, MapTeardown
<1>6. CASE pc' = "panic" /\ mem' = mem
  BY <1>1, <1>2, <1>6, MapElse DEF Loading, Copying
<1>7. CASE /\ r.ok /\ work' = r.mm /\ pc' = "copy" /\ mem' = mem
           /\ call' = [call EXCEPT !.la = SrcArea.vm_start]
  <2>1. call'.la = SrcArea.vm_start /\ call'.i = call.i /\ call'.src = call.src
    BY <1>2, <1>7 DEF CallType
  <2>2. SrcArea' = SrcArea
    BY <1>1, <2>1 DEF SrcArea
  <2>3. Areas(work') = Areas(work) \cup {SrcArea} /\ work'.pgdir = work.pgdir
    BY <1>2, <1>3, <1>7, InsertAreas
  <2>4. Fits(mem, work', {SrcArea})
    BY <1>2, <2>3, FitsInserted
  <2>5. call'.la % PGSIZE = 0
    BY <1>2, <2>1 DEF InUserMemory
  <2>6. \A q : CopiedTo(mem, q, work'.pgdir, SrcArea.vm_start, call'.la)
    BY <1>2, <2>1, UPageFacts DEF CopiedTo
  <2>7. CopyingMap'
    BY <1>7, <2>2, <2>3, <2>4, <2>5, <2>6 DEF CopyingMap
  <2>8. SpacesFit'
    BY <1>1, <1>2, <1>7, MapSame DEF SpacesFit
  <2> QED BY <1>7, <2>7, <2>8 DEF MapInv
<1> QED BY <1>4, <1>5, <1>6, <1>7

\* The area that is copied, and its pages in the parent.
LEMMA CopyingArea ==
    ASSUME AreaInv, PageInv, MapInv, pc = "copy"
    PROVE  /\ IsSpace(work) /\ work # NULL /\ work.pgdir \in Dirs(mem) /\ Good(mem)
           /\ CopyingMap /\ call \in CallType /\ call.la \in UPage /\ Holds(SrcArea, call.la)
           /\ SrcArea.vm_start \in Nat /\ SrcArea.vm_end \in Nat
           /\ mm[call.src].pgdir \in Dirs(mem) /\ mm[call.src].pgdir # work.pgdir
           /\ Backed(mem, mm[call.src].pgdir, SrcArea)
           /\ pte(mem, mm[call.src].pgdir, call.la) # NULL =>
                 pte(mem, mm[call.src].pgdir, call.la).perm = PagePerm(SrcArea.vm_flags)
<1>1. call.i > 0
  BY Before DEF Calling
<1>2. /\ IsSpace(work) /\ work # NULL /\ work.pgdir \in Dirs(mem) /\ Good(mem)
      /\ mm[call.src].pgdir \in Dirs(mem) /\ call \in CallType /\ Cursor
      /\ SrcArea.vm_start \in Nat /\ SrcArea.vm_end \in Nat
  BY <1>1, Copied DEF Copying
<1>3. CopyingMap
  BY DEF MapInv
<1>4. Holds(SrcArea, call.la)
  BY <1>2 DEF Cursor, Holds
<1>5. call.la \in UPage
  BY <1>2, <1>3, <1>4, AreaPage DEF CopyingMap, CallType
<1>6. PICK q : q = mm[call.src]
  OBVIOUS
<1>7. call.src \in Space /\ q # NULL /\ call.i \in 0 .. Len(q.mmap_list)
  BY <1>6, Before DEF Calling, Copying
<1>8. IsSpace(q) /\ Fits(mem, q, {}) /\ q.pgdir # work.pgdir
  <2>1. Rooted(mem, mm, work)
    BY Trees
  <2> QED BY <1>2, <1>6, <1>7, <2>1, Before DEF MapInv, SpacesFit, Rooted, Separate
<1>9. SrcArea \in Areas(q)
  <2>1. call.i \in 1 .. Len(q.mmap_list)
    BY <1>1, <1>7, <1>8, SpaceFacts
  <2>2. Range(q.mmap_list) = {q.mmap_list[k] : k \in 1 .. Len(q.mmap_list)}
    BY <1>8, SpaceFacts
  <2> QED BY <1>6, <2>1, <2>2 DEF SrcArea, Areas
<1>10. Backed(mem, q.pgdir, SrcArea)
  BY <1>8, <1>9 DEF Fits
<1>11. ASSUME pte(mem, q.pgdir, call.la) # NULL
       PROVE  pte(mem, q.pgdir, call.la).perm = PagePerm(SrcArea.vm_flags)
  <2>1. PICK v \in Areas(q) : /\ Holds(v, call.la)
                              /\ pte(mem, q.pgdir, call.la).perm = PagePerm(v.vm_flags)
    BY <1>5, <1>8, <1>11 DEF Fits, Within
  <2>2. call.la \in Int
    BY <1>5, UPageFacts
  <2>3. v = SrcArea
    BY <1>4, <1>8, <1>9, <2>1, <2>2, OneArea DEF Areas
  <2> QED BY <2>1, <2>3
<1> QED BY <1>2, <1>3, <1>4, <1>5, <1>6, <1>8, <1>10, <1>11

\* copy_range() goes on to next, when what is mapped up to there is copied.
LEMMA MapGoto ==
    ASSUME AreaInv, PageInv, MapInv, pc = "copy", mm' = mm, work' = work,
           OtherMaps(mem, mem', work.pgdir), Fits(mem', work, {SrcArea}),
           NEW next \in Nat, next % PGSIZE = 0,
           CopiedTo(mem, mm[call.src].pgdir, work.pgdir, SrcArea.vm_start, call.la)
               => CopiedTo(mem', mm[call.src].pgdir, work.pgdir, SrcArea.vm_start, next),
           IF next < SrcArea.vm_end THEN pc' = "copy" /\ call' = [call EXCEPT !.la = next]
           ELSE pc' = "dup" /\ call' = [call EXCEPT !.i = @ - 1]
    PROVE  MapInv'
<1>1. PICK from : from = mm[call.src].pgdir
  OBVIOUS
<1>2. /\ IsSpace(work) /\ work # NULL /\ call \in CallType /\ CopyingMap
      /\ SrcArea.vm_start \in Nat /\ SrcArea.vm_end \in Nat
      /\ Backed(mem, from, SrcArea) /\ from \in Dirs(mem) /\ from # work.pgdir
  BY <1>1, CopyingArea
<1>3. CopiedTo(mem', from, work.pgdir, SrcArea.vm_start, next)
  BY <1>1, <1>2 DEF CopyingMap
<1>4. SpacesFit'
  BY <1>2, MapOthers DEF SpacesFit
<1>5. CASE next < SrcArea.vm_end
  <2>1. call'.la = next /\ call'.i = call.i /\ call'.src = call.src /\ pc' = "copy"
    BY <1>2, <1>5 DEF CallType
  <2>2. SrcArea' = SrcArea
    BY <2>1 DEF SrcArea
  <2>3. CopyingMap'
    BY <1>1, <1>2, <1>3, <2>1, <2>2 DEF CopyingMap
  <2> QED BY <1>4, <2>1, <2>3 DEF MapInv
<1>6. CASE ~(next < SrcArea.vm_end)
  <2>1. ASSUME NEW a \in UPage, Holds(SrcArea, a), pte(mem, from, a) # NULL
        PROVE  pte(mem', work.pgdir, a) # NULL
    <3>1. pte(mem', from, a) = pte(mem, from, a)
      BY <1>2 DEF OtherMaps
    <3>2. SrcArea.vm_start <= a /\ a < next
      BY <1>2, <1>6, <2>1, UPageFacts DEF Holds
    <3> QED BY <1>3, <2>1, <3>1, <3>2 DEF CopiedTo
  <2>2. Backed(mem', work.pgdir, SrcArea)
    BY <1>2, <2>1 DEF Backed
  <2>3. Fits(mem', work, {})
    BY <2>2, FitsDone
  <2> QED BY <1>4, <1>6, <2>3 DEF MapInv
<1> QED BY <1>5, <1>6

\* Where the parent has no page table, it has no page either.
LEMMA NoTableNoPage ==
    ASSUME NEW m, Good(m), NEW root \in Dirs(m), NEW la \in UPage, NEW a \in UPage,
           la <= a, a < ROUNDDOWN(la + PTSIZE, PTSIZE),
           NEW create \in BOOLEAN, get_pte(m, root, la, create).table = NULL
    PROVE  pte(m, root, a) = NULL
<1>1. PDX1(a) = PDX1(la) /\ PDX0(a) = PDX0(la)
  BY UPageFacts, SameRegion
<1>2. get_pte(m, root, a, create) = get_pte(m, root, la, create)
  BY <1>1 DEF get_pte
<1>3. PICK t : t = get_pte(m, root, a, create).table
  OBVIOUS
<1>4. CASE pte(m, root, a) # NULL
  <2>1. t \in Page
    BY <1>3, <1>4, UPageFacts, PteFacts
  <2> QED BY <1>2, <1>3, <2>1, PageTableAssumption DEF Page
<1> QED BY <1>4

\* copy_range(), one round.
LEMMA MapCopyRange ==
    ASSUME AreaInv, PageInv, MapInv, CopyRange
    PROVE  MapInv'
<1> DEFINE la == call.la
           from == mm[call.src].pgdir
           t == get_pte(mem, from, la, FALSE).table
           next == IF t = NULL THEN ROUNDDOWN(la + PTSIZE, PTSIZE) ELSE la + PGSIZE
           g == get_pte(mem, work.pgdir, la, TRUE)
           Goto == /\ call' = IF next < SrcArea.vm_end THEN [call EXCEPT !.la = next]
                              ELSE [call EXCEPT !.i = @ - 1]
                   /\ pc' = IF next < SrcArea.vm_end THEN pc ELSE "dup"
                   /\ UNCHANGED <<work, spoiled>>
<1>1. /\ pc = "copy" /\ mm' = mm
      /\ \/ pte(mem, from, la) = NULL /\ mem' = mem /\ Goto
         \/ Teardown(g.mem, work, "fork_failed")
         \/ mem' = g.mem /\ pc' = "panic"
         \/ /\ pte(mem, from, la) # NULL /\ g.table # NULL /\ Free(g.mem) # {}
            /\ mem' = CopiedPage(g.mem, pte(mem, from, la), la) /\ Goto
  BY DEF CopyRange
<1>2. /\ work # NULL /\ work.pgdir \in Dirs(mem) /\ from \in Dirs(mem) /\ from # work.pgdir
      /\ Good(mem) /\ CopyingMap /\ la \in UPage /\ Holds(SrcArea, la)
      /\ SrcArea.vm_start \in Nat /\ SrcArea.vm_end \in Nat
      /\ pte(mem, from, la) # NULL => pte(mem, from, la).perm = PagePerm(SrcArea.vm_flags)
      /\ SrcArea \in Areas(work) /\ Fits(mem, work, {SrcArea})
  BY <1>1, CopyingArea DEF CopyingMap
<1>3. la \in Nat /\ la < UserTop /\ la % PGSIZE = 0
  BY <1>2, UPageFacts
<1>4. next \in Nat /\ next % PGSIZE = 0
  <2>1. la + PGSIZE \in Nat /\ (la + PGSIZE) % PGSIZE = 0
    BY <1>3, PageAfter
  <2>2. PICK d \in Nat \ {0} : d = PTSIZE
    <3>1. ASSUME NEW n \in Nat \ {0}, NEW e \in Nat \ {0} PROVE n * e \in Nat \ {0}
      OBVIOUS
    <3> QED BY <3>1, Constants, PageTableAssumption DEF PTSIZE
  <2>3. PICK x \in Nat : x = la + d
    BY <1>3, <2>2
  <2>4. ROUNDDOWN(x, d) \in Nat /\ ROUNDDOWN(x, d) % d = 0
    <3>1. PICK z \in Nat, r \in Nat : x = d * z + r /\ r = x % d
      BY Quotient
    <3>2. d * z \in Nat /\ (d * z) % d = 0
      OBVIOUS
    <3>3. PICK y \in Nat : y = d * z
      BY <3>2
    <3>4. x - r = y
      BY <3>1, <3>3
    <3>5. ROUNDDOWN(x, d) = x - r
      BY <3>1, Zenon DEF ROUNDDOWN
    <3> QED BY <3>2, <3>3, <3>4, <3>5
  <2>5. ROUNDDOWN(x, d) % PGSIZE = 0
    BY <2>2, <2>4, RegionPages
  <2> HIDE DEF t, la
  <2> QED BY <2>1, <2>2, <2>3, <2>4, <2>5
<1>5. PICK r : /\ r = g /\ Grown(mem, r.mem) /\ SameMap(mem, r.mem)
               /\ r.table # NULL => r.table \in Page /\ Leads(r.mem, work.pgdir, la, r.table)
  <2>1. PICK create \in BOOLEAN : create = TRUE
    OBVIOUS
  <2>2. PICK r : r = get_pte(mem, work.pgdir, la, create)
    OBVIOUS
  <2>3. /\ Grown(mem, r.mem)
        /\ r.table # NULL => r.table \in Page /\ Leads(r.mem, work.pgdir, la, r.table)
    BY <1>2, <1>3, <2>2, GetPteGrows
  <2>4. SameMap(mem, r.mem)
    BY <1>2, <2>3, GrownMap
  <2>5. r = g
    BY <2>1, <2>2, Zenon
  <2> HIDE DEF g
  <2> QED BY <2>3, <2>4, <2>5
<1>6. CASE pte(mem, from, la) = NULL /\ mem' = mem /\ Goto
  <2>1. OtherMaps(mem, mem', work.pgdir) /\ Fits(mem', work, {SrcArea})
    BY <1>2, <1>6, SameEntries
  <2>2. ASSUME NEW a \in UPage, la <= a, a < next PROVE pte(mem, from, a) = NULL
    <3>1. PICK create \in BOOLEAN : create = FALSE
      OBVIOUS
    <3>2. PICK u : u = get_pte(mem, from, la, create).table
      OBVIOUS
    <3>3. u = t
      BY <3>1, <3>2, Zenon
    <3>4. CASE u = NULL
      <4>1. next = ROUNDDOWN(la + PTSIZE, PTSIZE)
        BY <3>3, <3>4, Zenon
      <4>2. a < ROUNDDOWN(la + PTSIZE, PTSIZE)
        BY <2>2, <4>1, Zenon
      <4> HIDE DEF la, from, next
      <4> QED BY <1>2, <2>2, <3>2, <3>4, <4>2, NoTableNoPage
    <3>5. CASE u # NULL
      <4>1. next = la + PGSIZE
        BY <3>3, <3>5, Zenon
      <4>2. a = la
        <5> HIDE DEF la, next
        <5> QED BY <1>3, <2>2, <4>1, UPageFacts, NextPage
      <4> QED BY <1>6, <4>2
    <3> QED BY <3>4, <3>5
  <2>3. CopiedTo(mem, from, work.pgdir, SrcArea.vm_start, la)
           => CopiedTo(mem, from, work.pgdir, SrcArea.vm_start, next)
    <3> HIDE DEF la, from, next
    <3>1. \A a \in UPage : a \in Nat
      BY UPageFacts
    <3> QED BY <1>3, <1>4, <2>2, <3>1 DEF CopiedTo
  <2>4. /\ work' = work
        /\ IF next < SrcArea.vm_end THEN pc' = "copy" /\ call' = [call EXCEPT !.la = next]
           ELSE pc' = "dup" /\ call' = [call EXCEPT !.i = @ - 1]
    <3> HIDE DEF next
    <3> QED BY <1>1, <1>6
  <2> HIDE DEF next, Goto
  <2> QED BY <1>1, <1>4, <1>6, <2>1, <2>3, <2>4, MapGoto
<1>7. CASE Teardown(g.mem, work, "fork_failed")
  <2> HIDE DEF g
  <2>1. pc # "boot"
    BY <1>1
  <2> QED BY <1>1, <1>2, <1>5, <1>7, <2>1, MapTeardown
<1>8. CASE mem' = g.mem /\ pc' = "panic"
  <2> HIDE DEF g
  <2>1. pc # "boot"
    BY <1>1
  <2> QED BY <1>1, <1>5, <1>8, <2>1, MapElse DEF Loading, Copying
<1>9. CASE /\ pte(mem, from, la) # NULL /\ g.table # NULL /\ Free(g.mem) # {}
           /\ mem' = CopiedPage(g.mem, pte(mem, from, la), la) /\ Goto
  <2>0. next = la + PGSIZE
    <3>1. PICK create \in BOOLEAN : create = FALSE
      OBVIOUS
    <3>2. PICK u : u = get_pte(mem, from, la, create).table
      OBVIOUS
    <3>3. u = t
      BY <3>1, <3>2, Zenon
    <3>4. u \in Page
      <4> HIDE DEF la, from
      <4> QED BY <1>2, <1>3, <1>9, <3>2, PteFacts
    <3>5. u # NULL
      BY <3>4, PageTableAssumption DEF Page
    <3> QED BY <3>3, <3>5, Zenon
  <2>9. /\ work' = work
        /\ IF next < SrcArea.vm_end THEN pc' = "copy" /\ call' = [call EXCEPT !.la = next]
           ELSE pc' = "dup" /\ call' = [call EXCEPT !.i = @ - 1]
    <3> HIDE DEF next
    <3> QED BY <1>1, <1>9
  <2> HIDE DEF g, la, from, next, Goto
  <2>1. PICK old : old = pte(mem, from, la)
    OBVIOUS
  <2>2. PICK q \in Page, bits \in Perm : q = old.page /\ bits = old.perm
    BY <1>2, <1>3, <1>9, <2>1, PteEntry
  <2>3. PICK m : m = r.mem
    OBVIOUS
  <2>4. /\ Good(m) /\ Free(m) # {} /\ work.pgdir \in Dirs(m) /\ SameMap(mem, m)
        /\ Dirs(m) = Dirs(mem) /\ Leads(m, work.pgdir, la, r.table)
    BY <1>2, <1>5, <1>9, <2>3 DEF Grown, Keeps
  <2>5. PICK p \in Page : p = alloc_page(m)
    BY <2>4, AllocPage
  <2>6. mem' = CopiedPage(m, old, la)
    BY <1>5, <1>9, <2>1, <2>3
  <2>7. mem' = page_insert([Used(m, p, "user") EXCEPT !.data[p] = m.data[q]],
                           work.pgdir, p, la, bits).mem
    BY <2>2, <2>5, <2>6, Zenon DEF CopiedPage
  <2>8. PICK e : e = pte_create(p, bits) /\ e # NULL /\ e.perm = PagePerm(SrcArea.vm_flags)
    <3>1. pte_create(p, bits) # NULL /\ pte_create(p, bits).perm = bits
      BY PageFacts DEF pte_create
    <3> QED BY <1>2, <1>9, <2>1, <2>2, <3>1
  <2>10. NewMap(m, mem', work.pgdir, la, e)
    BY <1>2, <2>4, <2>5, <2>7, <2>8, CopyMap
  <2>11. NewMap(mem, mem', work.pgdir, la, e)
    BY <2>4, <2>10 DEF NewMap, SameMap
  <2>12. \A a \in UPage : pte(mem', work.pgdir, a) = IF a = la THEN e ELSE pte(mem, work.pgdir, a)
    BY <1>2, <2>11 DEF NewMap
  <2>13. OtherMaps(mem, mem', work.pgdir)
    BY <2>11 DEF NewMap, OtherMaps
  <2>14. Fits(mem', work, {SrcArea})
    BY <1>2, <2>8, <2>12, FitsMapped
  <2>15. \A a \in UPage : pte(mem', from, a) = pte(mem, from, a)
    BY <1>2, <2>13 DEF OtherMaps
  <2>16. CopiedTo(mem, from, work.pgdir, SrcArea.vm_start, la)
            => CopiedTo(mem', from, work.pgdir, SrcArea.vm_start, next)
    <3> SUFFICES ASSUME CopiedTo(mem, from, work.pgdir, SrcArea.vm_start, la),
                        NEW a \in UPage, SrcArea.vm_start <= a, a < next,
                        pte(mem', from, a) # NULL
                 PROVE  pte(mem', work.pgdir, a) # NULL
      BY DEF CopiedTo
    <3>1. a \in Nat /\ a % PGSIZE = 0
      BY UPageFacts
    <3>2. CASE a < la
      <4>1. pte(mem, work.pgdir, a) # NULL
        BY <2>15, <3>2 DEF CopiedTo
      <4> QED BY <2>8, <2>12, <4>1
    <3>3. CASE ~(a < la)
      <4>1. a = la
        BY <1>3, <2>0, <3>1, <3>3, NextPage
      <4> QED BY <2>8, <2>12, <4>1
    <3> QED BY <3>2, <3>3
  <2> QED BY <1>1, <1>4, <2>9, <2>13, <2>14, <2>16, MapGoto DEF from, la
<1> QED
  <2> HIDE DEF Goto, g, la, from
  <2> QED BY <1>1, <1>6, <1>7, <1>8, <1>9

-----------------------------------------------------------------------------
\* user_mem_check() changes neither areas nor tables,
LEMMA MapCheckRound ==
    ASSUME AreaInv, PageInv, MapInv, MemCheckRound
    PROVE  MapInv'
<1>1. /\ pc = "check" /\ mem' = mem /\ pc' \in {"check", "yes", "no"}
      /\ \/ mm' = mm
         \/ mm' = [mm EXCEPT ![call.proc] = found(mm[call.proc], call.start)]
  BY DEF MemCheckRound
<1>2. PICK s \in Space : s = call.proc
  BY <1>1, Before DEF Calling, InCall
<1>3. /\ mm \in [Space -> mm_struct \cup {NULL}] /\ mm[s] # NULL /\ IsSpace(mm[s])
      /\ mm[s] \in mm_struct /\ call.start \in Int
  BY <1>1, <1>2, Before DEF AreaInv, Spaces, MemChecking, Checking, IsSpace, CallType
<1>4. PICK v : /\ v = found(mm[s], call.start) /\ v.pgdir = mm[s].pgdir
               /\ Areas(v) = Areas(mm[s])
  <2>1. found(mm[s], call.start).mmap_list = mm[s].mmap_list
    BY <1>3, Found
  <2> QED BY <1>3, <2>1, SamePgdir DEF Areas
<1>5. Fits(mem, v, {})
  <2>1. PICK q : q = mm[s]
    OBVIOUS
  <2>2. Fits(mem, q, {})
    BY <1>3, <2>1 DEF MapInv, SpacesFit
  <2> QED BY <1>4, <2>1, <2>2, FitsKept
<1>6. \A x \in Space : mm'[x] = mm[x] \/ mm'[x] = v
  BY <1>1, <1>2, <1>3, <1>4
<1>7. SpacesFit'
  BY <1>1, <1>5, <1>6 DEF MapInv, SpacesFit
<1> QED BY <1>1, <1>7 DEF MapInv

\* nor does a step that looks at them,
LEMMA MapLook ==
    ASSUME AreaInv, PageInv, MapInv,
           \/ UserMain \/ MemCheckReturn
           \/ \E s \in Space, c \in Checks, write \in BOOLEAN : MemCheck(s, c[1], c[2], write)
    PROVE  MapInv'
<1>1. pc # "boot" /\ mem' = mem /\ mm' = mm /\ pc' \in {"load", "user", "check", "no"}
  BY DEF UserMain, MemCheckReturn, MemCheck
<1> QED BY <1>1, SameEntries, MapElse DEF Loading, Copying

\* or a store.
LEMMA MapStore ==
    ASSUME AreaInv, PageInv, MapInv, NEW s \in Space, NEW a \in StoreAddr, Store(s, a)
    PROVE  MapInv'
<1>1. pc = "user" /\ mm' = mm /\ pc' = pc
  BY DEF Store
<1>2. PICK d : mem' = [mem EXCEPT !.data = d]
  BY DEF Store
<1>3. mem'.entry = mem.entry
  BY <1>1, <1>2, Trees DEF Good, Memory
<1> QED BY <1>1, <1>3, SameEntries, MapElse DEF Loading, Copying

\* Nothing happens.
LEMMA MapStutter ==
    ASSUME MapInv, UNCHANGED vars
    PROVE  MapInv'
BY DEF MapInv, SpacesFit, FillingMap, CopyingMap, PhArea, StackArea, SrcArea, ph, Segments, vars

\* A step of a call.
LEMMA MapRun ==
    ASSUME AreaInv, PageInv, MapInv, Run
    PROVE  MapInv'
BY MapUnmap, MapExitRange, MapLoad, MapLoadSegment, MapLoadBadMagic, MapLoadFile,
   MapLoadEdge, MapLoadBss, MapLoadStack, MapLoadStackPage, MapDone, MapDupArea,
   MapCopyRange, MapCheckRound, MapLook
DEF Run

\* What is mapped in an address space lies in its areas and has their
\* permissions, and the pages of the areas that have been loaded or copied
\* are mapped, at every step of load_icode() and copy_mm().
THEOREM MapInvariant == IdealSpec => []MapInv
<1>1. Init => MapInv
  BY DEF Init, MapInv, SpacesFit
<1>2. AreaInv /\ PageInv /\ MapInv /\ [Next]_vars => MapInv'
  <2> SUFFICES ASSUME AreaInv, PageInv, MapInv, [Next]_vars PROVE MapInv'
    OBVIOUS
  <2>1. CASE Boot
    BY <2>1, MapBoot
  <2>2. CASE Run
    BY <2>2, MapRun
  <2>3. CASE Begin
    <3>1. CASE UserMain
      BY <3>1, MapLook
    <3>2. ASSUME NEW s \in Space, Exit(s) \/ Exec(s) PROVE MapInv'
      BY <3>2, MapExecExit
    <3>3. ASSUME NEW s \in Space, NEW t \in Space, Fork(s, t) PROVE MapInv'
      BY <3>3, MapFork
    <3>4. ASSUME NEW s \in Space, NEW a \in StoreAddr, Store(s, a) PROVE MapInv'
      BY <3>4, MapStore
    <3>5. ASSUME NEW s \in Space, NEW c \in Checks, NEW write \in BOOLEAN,
                 MemCheck(s, c[1], c[2], write)
          PROVE  MapInv'
      BY <3>5, MapLook
    <3> QED BY <2>3, <3>1, <3>2, <3>3, <3>4, <3>5 DEF Begin
  <2>4. CASE Stopped
    BY <2>4, MapStutter DEF Stopped
  <2>5. CASE UNCHANGED vars
    BY <2>5, MapStutter
  <2> QED BY <2>1, <2>2, <2>3, <2>4, <2>5 DEF Next
<1> QED BY <1>1, <1>2, AreaInvariant, PageInvariant, PTL DEF IdealSpec

\* Every process has exactly the pages of its areas, with their permissions;
\* only the stack, and the area of a segment without bytes, have pages that
\* are not mapped.
THEOREM AreasAreExact == IdealSpec => []AreasExact
<1>1. AreaInv /\ MapInv => AreasExact
  <2> SUFFICES ASSUME AreaInv, MapInv, NEW s \in Space, mm[s] # NULL
               PROVE  LET list == mm[s].mmap_list
                          In(la) == {k \in DOMAIN list : Holds(list[k], la)}
                      IN  /\ \A k \in DOMAIN list : list[k].vm_start < list[k].vm_end
                          /\ \A k \in 1 .. Len(list) - 1 : list[k].vm_end <= list[k + 1].vm_start
                          /\ \A la \in Mapped(mm[s]) : \E k \in In(la) :
                                pte(mem, mm[s].pgdir, la).perm = PagePerm(list[k].vm_flags)
                          /\ \A la \in PagesOf(0, UserTop) : \A k \in In(la) :
                                \/ la \in Mapped(mm[s])
                                \/ "STACK" \in list[k].vm_flags \/ EmptyArea(list[k])
    BY DEF AreasExact
  <2>1. PICK q : q = mm[s]
    OBVIOUS
  <2>2. IsSpace(q) /\ Fits(mem, q, {})
    BY <2>1, Before DEF MapInv, SpacesFit
  <2>3. PICK list : list = q.mmap_list
    OBVIOUS
  <2>4. /\ DOMAIN list = 1 .. Len(list) /\ Len(list) \in Nat
        /\ Areas(q) = {list[k] : k \in 1 .. Len(list)}
    <3>1. /\ DOMAIN q.mmap_list = 1 .. Len(q.mmap_list) /\ Len(q.mmap_list) \in Nat
          /\ Areas(q) = {q.mmap_list[k] : k \in 1 .. Len(q.mmap_list)}
      BY <2>2, SpaceFacts, Zenon DEF Areas
    <3> QED BY <2>3, <3>1
  <2>5. \A k \in 1 .. Len(list) : list[k].vm_start < list[k].vm_end
    BY <2>2, <2>3, AreaBounds
  <2>6. \A k \in 1 .. Len(list) - 1 : list[k].vm_end <= list[k + 1].vm_start
    <3> SUFFICES ASSUME NEW k \in 1 .. Len(list) - 1
                 PROVE  list[k].vm_end <= list[k + 1].vm_start
      OBVIOUS
    <3>1. k \in 1 .. Len(list) /\ k + 1 \in 1 .. Len(list) /\ k < k + 1
      BY <2>4
    <3> QED BY <2>2, <2>3, <3>1 DEF IsSpace, Sorted
  <2>7. ASSUME NEW la \in Mapped(q)
        PROVE  \E k \in DOMAIN list : /\ Holds(list[k], la)
                                      /\ pte(mem, q.pgdir, la).perm = PagePerm(list[k].vm_flags)
    <3>1. la \in UPage /\ pte(mem, q.pgdir, la) # NULL
      BY <2>7 DEF Mapped, UPage
    <3> QED BY <2>2, <2>4, <3>1 DEF Fits, Within
  <2>8. ASSUME NEW la \in PagesOf(0, UserTop), NEW k \in DOMAIN list, Holds(list[k], la)
        PROVE  \/ la \in Mapped(q)
               \/ "STACK" \in list[k].vm_flags \/ EmptyArea(list[k])
    <3>1. Backed(mem, q.pgdir, list[k])
      BY <2>2, <2>4, <2>8 DEF Fits
    <3> QED BY <2>8, <3>1 DEF Backed, Mapped, UPage
  <2> QED BY <2>1, <2>3, <2>4, <2>5, <2>6, <2>7, <2>8
<1> QED BY <1>1, AreaInvariant, MapInvariant, PTL

-----------------------------------------------------------------------------
\* Quotient and remainder are known by their bounds.
LEMMA DivIs ==
    ASSUME NEW x \in Nat, NEW d \in Nat \ {0}, NEW z \in Nat, NEW r \in Nat,
           x = d * z + r, r < d
    PROVE  x \div d = z /\ x % d = r
<1>1. PICK q \in Nat, c \in Nat : x = d * q + c /\ c < d /\ q = x \div d /\ c = x % d
  BY Quotient
<1>2. CASE q < z
  <2>1. PICK j \in Nat : z = q + 1 + j
    <3>1. z - q - 1 \in Nat
      BY <1>2
    <3> QED BY <3>1
  <2>2. d * z = d * q + d + d * j /\ d * j \in Nat /\ d * q \in Nat
    BY <2>1
  <2> QED BY <1>1, <2>2
<1>3. CASE q > z
  <2>1. PICK j \in Nat : q = z + 1 + j
    <3>1. q - z - 1 \in Nat
      BY <1>3
    <3> QED BY <3>1
  <2>2. d * q = d * z + d + d * j /\ d * j \in Nat /\ d * z \in Nat
    BY <2>1
  <2> QED BY <1>1, <2>2
<1>4. CASE q = z
  <2>1. PICK y \in Nat : y = d * q /\ y = d * z
    BY <1>4
  <2>2. c = r
    BY <1>1, <2>1
  <2> QED BY <1>1, <1>4, <2>2
<1> QED BY <1>2, <1>3, <1>4

\* The sizes of what a page table and a level 0 directory map.
LEMMA RegionSizes == PTSIZE \in Nat \ {0} /\ PDSIZE \in Nat \ {0}
<1>1. PICK e \in Nat \ {0}, g \in Nat \ {0} : e = NEntry /\ g = PGSIZE
  BY PageTableAssumption
<1>2. PICK t \in Nat \ {0} : t = e * g /\ t = PTSIZE
  BY <1>1 DEF PTSIZE
<1>3. PICK d \in Nat \ {0} : d = e * t /\ d = PDSIZE
  BY <1>1, <1>2 DEF PDSIZE
<1> QED BY <1>2, <1>3

\* The addresses of a level 0 directory.
LEMMA InDirectory ==
    ASSUME NEW d1 \in Nat, NEW a \in d1 * PDSIZE .. (d1 + 1) * PDSIZE - 1
    PROVE  a \in Nat /\ PDX1(a) = d1
<1>1. PICK d \in Nat \ {0} : d = PDSIZE
  BY RegionSizes
<1>2. PICK x \in Nat : x = d * d1
  OBVIOUS
<1>3. d1 * d = x /\ (d1 + 1) * d = x + d
  BY <1>2
<1>4. x <= a /\ a < x + d /\ a \in Int
  BY <1>1, <1>3
<1>5. PICK r \in Nat : a = x + r /\ r < d
  <2>1. a - x \in Nat /\ a - x < d
    BY <1>4
  <2> QED BY <1>4, <2>1
<1>6. a \in Nat /\ a = d * d1 + r
  BY <1>2, <1>5
<1>7. a \div d = d1
  BY <1>5, <1>6, DivIs
<1> QED BY <1>1, <1>6, <1>7 DEF PDX1

\* exit_range() visits the entry of every page of an area.
LEMMA VisitsPage ==
    ASSUME NEW v, v.vm_start \in Nat, v.vm_end \in Nat, NEW a \in UPage, Holds(v, a)
    PROVE  PDX0(a) \in Visited(PDX1(a), v.vm_start, v.vm_end)
<1>1. PICK d \in Nat \ {0}, t \in Nat \ {0} : d = PDSIZE /\ t = PTSIZE
  BY RegionSizes
<1>2. a \in Nat
  BY UPageFacts
<1>3. PICK z \in Nat, r \in Nat : a = d * z + r /\ r < d /\ z = a \div d
  BY <1>2, Quotient
<1>4. PICK x \in Nat : x = d * z
  OBVIOUS
<1>5. z * d = x /\ (z + 1) * d = x + d
  BY <1>4
<1>6. a \in z * d .. (z + 1) * d - 1
  <2>1. x <= a /\ a <= x + d - 1
    BY <1>3, <1>4
  <2> QED BY <1>2, <1>5, <2>1
<1>7. ROUNDDOWN(v.vm_start, t) <= a
  <2>1. PICK s \in Nat : s = v.vm_start
    OBVIOUS
  <2>2. ROUNDDOWN(s, t) \in Nat /\ ROUNDDOWN(s, t) <= s
    BY RoundBounds
  <2>3. s <= a
    BY <2>1 DEF Holds
  <2> QED BY <1>2, <2>1, <2>2, <2>3
<1>8. z = PDX1(a)
  BY <1>1, <1>3 DEF PDX1
<1>9. a < v.vm_end
  BY DEF Holds
<1> QED BY <1>1, <1>6, <1>7, <1>8, <1>9 DEF Visited

\* Every entry of a page table is that of a page.
LEMMA EntryAddress ==
    ASSUME NEW a \in Nat, a < UserTop, NEW j \in Index
    PROVE  \E b \in UPage : PDX1(b) = PDX1(a) /\ PDX0(b) = PDX0(a) /\ PTX(b) = j
<1>1. PICK e \in Nat \ {0}, g \in Nat \ {0} : e = NEntry /\ g = PGSIZE
  BY PageTableAssumption
<1>2. PICK t \in Nat \ {0} : t = e * g /\ t = PTSIZE
  BY <1>1 DEF PTSIZE
<1>4. j \in Nat /\ j < e
  BY <1>1 DEF Index
<1>5. PICK y \in Nat, r \in Nat : a = t * y + r /\ r < t /\ y = a \div t
  BY Quotient
<1>6. PICK w \in Nat : w = g * j /\ w <= t - g
  <2>1. PICK k \in Nat : e = j + 1 + k
    <3>1. e - j - 1 \in Nat
      BY <1>4
    <3> QED BY <1>4, <3>1
  <2>2. e * g = g * j + g + k * g /\ k * g \in Nat /\ g * j \in Nat
    BY <1>4, <2>1
  <2> QED BY <1>2, <2>2
<1>7. PICK x \in Nat : x = t * y
  OBVIOUS
<1>8. PICK b \in Nat : b = x + w
  OBVIOUS
<1>9. b \div t = y
  <2>1. b = t * y + w /\ w < t
    BY <1>6, <1>7, <1>8
  <2> QED BY <2>1, DivIs
<1>10. PDX0(b) = PDX0(a)
  BY <1>2, <1>5, <1>9 DEF PDX0
<1>11. PDX1(b) = PDX1(a)
  <2>1. a \div t = b \div t
    BY <1>5, <1>9
  <2> QED BY <1>2, <2>1, RegionDir
<1>12. PICK c \in Nat : c = e * y + j
  BY <1>4
<1>13. b = g * c
  <2>1. g * c = g * (e * y) + g * j
    BY <1>4, <1>12
  <2>2. g * (e * y) = t * y
    BY <1>2
  <2> QED BY <1>6, <1>7, <1>8, <2>1, <2>2
<1>14. b \div g = c /\ b % g = 0
  <2>1. b = g * c + 0
    BY <1>13
  <2> QED BY <2>1, DivIs
<1>15. PTX(b) = j
  <2>1. c % e = j
    BY <1>4, <1>12, DivIs
  <2> QED BY <1>1, <1>14, <2>1 DEF PTX
<1>16. b < UserTop
  <2>1. PICK u \in Nat : UserTop = t * u
    <3>1. UserTop \in Nat /\ UserTop % t = 0
      BY <1>2, Constants, AddressSpaceAssumption
    <3> QED BY <3>1, Multiple
  <2>2. CASE u <= y
    <3>1. PICK k \in Nat : y = u + k
      <4>1. y - u \in Nat
        BY <2>2
      <4> QED BY <4>1
    <3>2. t * y = t * u + t * k /\ t * k \in Nat /\ t * u \in Nat
      BY <3>1
    <3> QED BY <1>5, <2>1, <3>2
  <2>3. CASE u > y
    <3>1. PICK k \in Nat : u = y + 1 + k
      <4>1. u - y - 1 \in Nat
        BY <2>3
      <4> QED BY <4>1
    <3>2. t * u = t * y + t + t * k /\ t * k \in Nat
      BY <3>1
    <3> QED BY <1>6, <1>7, <1>8, <2>1, <3>2
  <2> QED BY <2>2, <2>3
<1>17. b \in UPage
  BY <1>1, <1>14, <1>16, Constants DEF UPage, PagesOf
<1> QED BY <1>10, <1>11, <1>15, <1>17

-----------------------------------------------------------------------------
\* A table that no entry refers to,
Orphan(m, p) == m.use[p] \in {"pd0", "pt"} /\ ~Parent(m, p)
\* and a page of user memory that is not mapped.
Reached(m, p) == \E r \in Dirs(m), a \in UPage : pte(m, r, a) # NULL /\ pte(m, r, a).page = p
Stray(m, p) == m.use[p] = "user" /\ ~Reached(m, p)
\* The tables of n without an entry were without one in m,
NoOrphan(m, n) == \A p \in Page : Orphan(n, p) => Orphan(m, p)
\* and so were the pages of user memory.
NoneLost(m, n) == NoOrphan(m, n) /\ \A p \in Page : Stray(n, p) => Stray(m, p)

\* An operation that only adds loses no page.
LEMMA GrownLoses ==
    ASSUME NEW m, Good(m), NEW n, Grown(m, n)
    PROVE  NoneLost(m, n)
<1>1. ASSUME NEW p \in Page, Orphan(n, p) PROVE Orphan(m, p)
  <2>1. m.use[p] # "free"
    BY <1>1 DEF Grown, Joined, Orphan
  <2>2. m.use[p] = n.use[p]
    BY <2>1 DEF Grown
  <2>3. ASSUME Parent(m, p) PROVE FALSE
    <3>1. PICK t \in Page, i \in Index : IsSlot(m, t, i) /\ Aim(m, t, i) = p
      BY <2>3 DEF Parent
    <3>2. IsSlot(n, t, i) /\ Aim(n, t, i) = p
      BY <3>1 DEF Grown, Widened, IsSlot, Aim, Table
    <3> QED BY <1>1, <3>2 DEF Orphan, Parent
  <2> QED BY <1>1, <2>2, <2>3 DEF Orphan
<1>2. ASSUME NEW p \in Page, Stray(n, p) PROVE Stray(m, p)
  <2>1. m.use[p] = "user"
    BY <1>2 DEF Grown, Joined, Stray
  <2>2. SameMap(m, n) /\ Dirs(n) = Dirs(m)
    BY GrownMap DEF Grown, Keeps
  <2> QED BY <1>2, <2>1, <2>2 DEF Stray, Reached, SameMap
<1> QED BY <1>1, <1>2 DEF NoneLost, NoOrphan

\* A change of an entry of a page table leaves the upper levels.
LEMMA SetLoses ==
    ASSUME NEW m, Good(m), NEW n, NEW t \in Page, NEW i, NEW e, m.use[t] = "pt",
           SetAt(m, n, t, i, e)
    PROVE  /\ NoOrphan(m, n)
           /\ \A r \in Dirs(m), j \in Index : n.entry[r][j] = m.entry[r][j]
<1>1. ASSUME NEW p \in Page, Orphan(n, p) PROVE Orphan(m, p)
  <2>1. m.use[p] = n.use[p]
    BY <1>1 DEF SetAt, Orphan, Table
  <2>2. ASSUME Parent(m, p) PROVE FALSE
    <3>1. PICK u \in Page, j \in Index : IsSlot(m, u, j) /\ Aim(m, u, j) = p
      BY <2>2 DEF Parent
    <3>2. u # t
      BY <1>1, <2>1, <3>1, SlotFacts DEF Orphan, Child
    <3>3. IsSlot(n, u, j) /\ Aim(n, u, j) = p
      BY <3>1, <3>2 DEF SetAt, IsSlot, Aim
    <3> QED BY <1>1, <3>3 DEF Orphan, Parent
  <2> QED BY <1>1, <2>1, <2>2 DEF Orphan
<1>2. \A r \in Dirs(m), j \in Index : n.entry[r][j] = m.entry[r][j]
  BY DEF SetAt, Dirs, Table
<1> QED BY <1>1, <1>2 DEF NoOrphan

\* Mapping a page loses none: the one that it replaces is freed.
LEMMA PlacedLoses ==
    ASSUME NEW m, Good(m), NEW root \in Dirs(m), NEW la \in UPage, NEW e, e # NULL,
           NEW n, Keeps(m, n), Placed(m, root, la, e, n)
    PROVE  /\ NoneLost(m, n) /\ NewDirEntry(m, n, root, PDX1(la))
           /\ \A p \in Page : Stray(n, p) => p # e.page
<1>1. PICK k : \E t \in Page : /\ Grown(m, k) /\ k.use[t] = "pt" /\ Leads(k, root, la, t)
                               /\ SetAt(k, n, t, PTX(la), e)
                               /\ Replaced(k, n, k.entry[t][PTX(la)])
                               /\ NewDirEntry(m, k, root, PDX1(la))
  BY DEF Placed
<1>2. PICK t \in Page : /\ Grown(m, k) /\ k.use[t] = "pt" /\ Leads(k, root, la, t)
                        /\ SetAt(k, n, t, PTX(la), e)
                        /\ Replaced(k, n, k.entry[t][PTX(la)])
                        /\ NewDirEntry(m, k, root, PDX1(la))
  BY <1>1
<1>3. Good(k) /\ Dirs(k) = Dirs(m) /\ Dirs(n) = Dirs(m)
  BY <1>2 DEF Grown, Keeps
<1>4. NoneLost(m, k) /\ SameMap(m, k) /\ NewMap(m, n, root, la, e)
  BY <1>2, GrownLoses, GrownMap, PlacedMap
<1>5. /\ NoOrphan(k, n)
      /\ \A r \in Dirs(k), j \in Index : n.entry[r][j] = k.entry[r][j]
  BY <1>2, <1>3, SetLoses
<1>6. NewDirEntry(m, n, root, PDX1(la))
  BY <1>2, <1>3, <1>5 DEF NewDirEntry
<1>7. PICK old : old = k.entry[t][PTX(la)] /\ old = pte(k, root, la)
  BY <1>2, <1>3, LeadsFacts
<1>8. ASSUME NEW p \in Page, Stray(n, p) PROVE Stray(m, p) /\ p # e.page
  <2>1. k.use[p] = "user" /\ ~(old # NULL /\ p = old.page)
    BY <1>2, <1>7, <1>8 DEF Replaced, Stray
  <2>2. p # e.page
    BY <1>3, <1>4, <1>8 DEF NewMap, Stray, Reached
  <2>3. ASSUME Reached(k, p) PROVE FALSE
    <3>1. PICK r \in Dirs(k), a \in UPage : pte(k, r, a) # NULL /\ pte(k, r, a).page = p
      BY <2>3 DEF Reached
    <3>2. ~(r = root /\ a = la)
      BY <1>7, <2>1, <3>1
    <3>3. pte(n, r, a) = pte(k, r, a)
      BY <1>3, <1>4, <3>2 DEF NewMap, SameMap
    <3> QED BY <1>3, <1>8, <3>1, <3>3 DEF Stray, Reached
  <2>4. Stray(k, p)
    BY <2>1, <2>3 DEF Stray
  <2> QED BY <1>4, <2>2, <2>4 DEF NoneLost
<1> QED BY <1>4, <1>5, <1>6, <1>8 DEF NoneLost, NoOrphan

\* page_insert() of a page that nothing refers to.
LEMMA InsertLoses ==
    ASSUME NEW m, Good(m), NEW root \in Dirs(m), NEW la \in UPage,
           NEW p \in Page, m.use[p] = "user", m.ref[p] = 0, NEW bits \in Perm,
           NEW r, r = page_insert(m, root, p, la, bits)
    PROVE  /\ NoneLost(m, r.mem) /\ NewDirEntry(m, r.mem, root, PDX1(la))
           /\ r.ok => ~Stray(r.mem, p)
<1>1. la \in Nat /\ la < UserTop
  BY UPageFacts
<1>2. PICK e : e = pte_create(p, bits) /\ e # NULL /\ e.page = p
  BY PageFacts
<1>3. /\ Keeps(m, r.mem)
      /\ r.ok => Placed(m, root, la, e, r.mem)
      /\ ~r.ok => Grown(m, r.mem) /\ NewDirEntry(m, r.mem, root, PDX1(la))
  BY <1>1, <1>2, InsertKeeps
<1>4. CASE r.ok
  BY <1>2, <1>3, <1>4, PlacedLoses
<1>5. CASE ~r.ok
  BY <1>3, <1>5, GrownLoses
<1> QED BY <1>4, <1>5

\* An operation that changes no table loses no page but those that it takes.
LEMMA SameTables ==
    ASSUME NEW m, NEW n, NEW S, SameMap(m, n), Dirs(n) = Dirs(m),
           \A q \in Page \ S : n.use[q] = m.use[q] /\ n.entry[q] = m.entry[q],
           \A q \in Page \cap S : m.use[q] \notin Table /\ n.use[q] \notin Table
    PROVE  /\ NoOrphan(m, n) /\ \A q \in Page \ S : Stray(n, q) => Stray(m, q)
           /\ \A root, i : NewDirEntry(m, n, root, i)
<1>1. ASSUME NEW p \in Page, Orphan(n, p) PROVE Orphan(m, p)
  <2>1. m.use[p] = n.use[p]
    BY <1>1 DEF Orphan, Table
  <2>2. Parent(m, p) => Parent(n, p)
    BY DEF Parent, IsSlot, Aim
  <2> QED BY <1>1, <2>1, <2>2 DEF Orphan
<1>2. ASSUME NEW p \in Page \ S, Stray(n, p) PROVE Stray(m, p)
  BY <1>2 DEF Stray, Reached, SameMap
<1>3. \A r \in Dirs(m) : n.entry[r] = m.entry[r]
  BY DEF Dirs, Table
<1> QED BY <1>1, <1>2, <1>3 DEF NoOrphan, NewDirEntry

\* Two operations that add entries for one address.
LEMMA DirEntryTwice ==
    ASSUME NEW m, NEW n, NEW k, NEW root, NEW i, Dirs(n) = Dirs(m),
           NewDirEntry(m, n, root, i), NewDirEntry(n, k, root, i)
    PROVE  NewDirEntry(m, k, root, i)
BY DEF NewDirEntry

\* Used() for a page of user memory: only that page is not mapped yet.
LEMMA TakeLoses ==
    ASSUME NEW m, Good(m), NEW p \in Page, m.use[p] = "free", NEW n, n = Used(m, p, "user")
    PROVE  /\ SameMap(m, n) /\ NoOrphan(m, n) /\ \A q \in Page : q # p /\ Stray(n, q) => Stray(m, q)
           /\ \A root, i : NewDirEntry(m, n, root, i)
<1>1. m \in Memory
  BY DEF Good
<1>2. n.use = [m.use EXCEPT ![p] = "user"] /\ n.entry = m.entry
  BY <1>1 DEF Used, Memory
<1>3. m.use \in [Page -> {"free", "user"} \cup Table]
  BY <1>1 DEF Memory
<1>4. n.use[p] = "user" /\ \A q \in Page : q # p => n.use[q] = m.use[q]
  BY <1>2, <1>3
<1>5. SameMap(m, n) /\ Dirs(n) = Dirs(m)
  BY <1>2, SameEntries, TakePage DEF Keeps
<1>6. PICK S : S = {p}
  OBVIOUS
<1>7. /\ NoOrphan(m, n) /\ \A q \in Page \ S : Stray(n, q) => Stray(m, q)
      /\ \A root, i : NewDirEntry(m, n, root, i)
  <2>1. \A q \in Page \ S : n.use[q] = m.use[q] /\ n.entry[q] = m.entry[q]
    BY <1>2, <1>4, <1>6
  <2>2. \A q \in Page \cap S : m.use[q] \notin Table /\ n.use[q] \notin Table
    BY <1>4, <1>6 DEF Table
  <2> QED BY <1>5, <2>1, <2>2, SameTables
<1> QED BY <1>5, <1>6, <1>7

\* free_page() of a page that nothing refers to.
LEMMA GiveLoses ==
    ASSUME NEW m, Good(m), NEW p \in Page, m.use[p] = "user", m.ref[p] = 0,
           NEW n, n = free_page(m, {p})
    PROVE  /\ NoOrphan(m, n) /\ \A q \in Page : Stray(n, q) => q # p /\ Stray(m, q)
           /\ \A root, i : NewDirEntry(m, n, root, i)
<1>1. PICK F \in SUBSET Page : F = {p}
  OBVIOUS
<1>2. n = free_page(m, F) /\ \A q \in F : m.ref[q] = 0
  BY <1>1
<1>3. Dirs(n) = Dirs(m) /\ F \cap Dirs(m) = {}
  <2>1. Dirs(n) = Dirs(m) \ F
    BY <1>2, FreeKeeps
  <2> QED BY <1>1, <2>1 DEF Dirs
<1>4. SameMap(m, n)
  BY <1>2, <1>3, FreeMap DEF SameMap
<1>5. Freed(m, n, F)
  BY <1>2, FreePage DEF Good
<1>6. /\ NoOrphan(m, n) /\ \A q \in Page \ F : Stray(n, q) => Stray(m, q)
      /\ \A root, i : NewDirEntry(m, n, root, i)
  <2>1. \A q \in Page \ F : n.use[q] = m.use[q] /\ n.entry[q] = m.entry[q]
    BY <1>5 DEF Freed
  <2>2. \A q \in Page \cap F : m.use[q] \notin Table /\ n.use[q] \notin Table
    BY <1>1, <1>5 DEF Freed, Table
  <2> QED BY <1>3, <1>4, <2>1, <2>2, SameTables
<1>7. ~Stray(n, p)
  BY <1>1, <1>5 DEF Freed, Stray
<1> QED BY <1>1, <1>6, <1>7

\* pgdir_alloc_page(): the page is mapped, or goes back.
LEMMA NewPageLoses ==
    ASSUME NEW m, Good(m), NEW root \in Dirs(m), NEW la \in UPage,
           NEW bits \in Perm, NEW r, r = pgdir_alloc_page(m, root, la, bits)
    PROVE  NoneLost(m, r.mem) /\ NewDirEntry(m, r.mem, root, PDX1(la))
<1>1. CASE Free(m) = {}
  <2>1. r = [mem |-> m, page |-> NULL]
    BY <1>1 DEF pgdir_alloc_page
  <2> QED BY <2>1 DEF NoneLost, NoOrphan, NewDirEntry
<1>2. CASE Free(m) # {}
  <2>1. PICK p \in Page : p = alloc_page(m) /\ m.use[p] = "free"
    BY <1>2, AllocPage DEF Free
  <2>2. PICK n : n = Used(m, p, "user")
    OBVIOUS
  <2>3. Keeps(m, n) /\ Good(n) /\ n.use[p] = "user" /\ n.ref[p] = 0 /\ root \in Dirs(n)
    BY <2>1, <2>2, TakePage DEF Keeps
  <2>4. /\ NoOrphan(m, n) /\ \A q \in Page : q # p /\ Stray(n, q) => Stray(m, q)
        /\ NewDirEntry(m, n, root, PDX1(la))
    BY <2>1, <2>2, TakeLoses
  <2>5. PICK s : s = page_insert(n, root, p, la, bits)
    OBVIOUS
  <2>6. /\ NoneLost(n, s.mem) /\ NewDirEntry(n, s.mem, root, PDX1(la))
        /\ s.ok => ~Stray(s.mem, p)
    BY <2>3, <2>5, InsertLoses
  <2>7. Keeps(n, s.mem) /\ (~s.ok => s.mem.use[p] = "user" /\ s.mem.ref[p] = 0)
    BY <2>3, <2>5, UPageFacts, InsertKeeps
  <2>8. r = IF s.ok THEN [mem |-> s.mem, page |-> p]
            ELSE [mem |-> free_page(s.mem, {p}), page |-> NULL]
    BY <1>2, <2>1, <2>2, <2>5 DEF pgdir_alloc_page
  <2>9. NewDirEntry(m, s.mem, root, PDX1(la)) /\ Dirs(s.mem) = Dirs(m) /\ Good(s.mem)
    BY <2>3, <2>4, <2>6, <2>7, DirEntryTwice DEF Keeps
  <2>10. /\ NoOrphan(m, s.mem)
         /\ \A q \in Page : q # p /\ Stray(s.mem, q) => Stray(m, q)
    BY <2>4, <2>6 DEF NoneLost, NoOrphan
  <2>11. CASE s.ok
    BY <2>6, <2>8, <2>9, <2>10, <2>11 DEF NoneLost
  <2>12. CASE ~s.ok
    <3>1. PICK k : k = free_page(s.mem, {p}) /\ r.mem = k
      BY <2>8, <2>12
    <3>2. /\ NoOrphan(s.mem, k) /\ \A q \in Page : Stray(k, q) => q # p /\ Stray(s.mem, q)
          /\ NewDirEntry(s.mem, k, root, PDX1(la))
      BY <2>7, <2>9, <2>12, <3>1, GiveLoses
    <3>3. NewDirEntry(m, k, root, PDX1(la))
      BY <2>9, <3>2, DirEntryTwice
    <3> QED BY <2>10, <3>1, <3>2, <3>3 DEF NoneLost, NoOrphan
  <2> QED BY <2>11, <2>12
<1> QED BY <1>1, <1>2

\* The page of copy_range(), for which get_pte() has just made the table.
LEMMA CopyLoses ==
    ASSUME NEW m, Good(m), NEW root \in Dirs(m), NEW la \in UPage, Free(m) # {},
           NEW t, Leads(m, root, la, t),
           NEW p \in Page, p = alloc_page(m), NEW q \in Page, NEW bits \in Perm,
           NEW n, n = page_insert([Used(m, p, "user") EXCEPT !.data[p] = m.data[q]],
                                  root, p, la, bits).mem
    PROVE  NoneLost(m, n) /\ NewDirEntry(m, n, root, PDX1(la))
<1>1. m.use[p] = "free"
  BY AllocPage DEF Free
<1>2. PICK k : k = Used(m, p, "user")
  OBVIOUS
<1>3. Keeps(m, k) /\ Good(k) /\ k.use[p] = "user" /\ k.ref[p] = 0 /\ root \in Dirs(k)
  BY <1>1, <1>2, TakePage DEF Keeps
<1>4. /\ NoOrphan(m, k) /\ \A x \in Page : x # p /\ Stray(k, x) => Stray(m, x)
      /\ NewDirEntry(m, k, root, PDX1(la))
  BY <1>1, <1>2, TakeLoses
<1>5. PICK d \in [0 .. PGSIZE - 1 -> Int] : d = m.data[q]
  BY DEF Good, Memory
<1>6. PICK h : h = Wrote(k, p, d)
  OBVIOUS
<1>7. Keeps(k, h) /\ Good(h) /\ h.use = k.use /\ h.ref = k.ref /\ h.entry = k.entry
  BY <1>3, <1>5, <1>6, DataKeeps DEF Keeps
<1>8. NoneLost(k, h) /\ NewDirEntry(k, h, root, PDX1(la)) /\ root \in Dirs(h)
  <2>1. PICK S : S = {}
    OBVIOUS
  <2>2. SameMap(k, h) /\ Dirs(h) = Dirs(k)
    BY <1>7, SameEntries DEF Keeps
  <2>3. /\ NoOrphan(k, h) /\ \A x \in Page \ S : Stray(h, x) => Stray(k, x)
        /\ NewDirEntry(k, h, root, PDX1(la))
    BY <1>7, <2>1, <2>2, SameTables
  <2> QED BY <1>3, <2>1, <2>2, <2>3 DEF NoneLost
<1>9. PICK r : r = page_insert(h, root, p, la, bits)
  OBVIOUS
<1>10. n = r.mem
  BY <1>2, <1>5, <1>6, <1>9 DEF Wrote
<1>11. NoneLost(h, n) /\ NewDirEntry(h, n, root, PDX1(la))
  BY <1>3, <1>7, <1>8, <1>9, <1>10, InsertLoses
<1>12. ~Stray(n, p)
  <2>1. PICK e : e = pte_create(p, bits) /\ e # NULL /\ e.page = p
    BY PageFacts
  <2>2. NewMap(m, n, root, la, e)
    BY <2>1, CopyMap
  <2>3. pte(n, root, la) = e
    BY <2>2 DEF NewMap
  <2>4. Dirs(n) = Dirs(m)
    <3>1. la \in Nat /\ la < UserTop
      BY UPageFacts
    <3>2. Keeps(m, n)
      BY <3>1, CopyKeeps
    <3> QED BY <3>2 DEF Keeps
  <2> QED BY <2>1, <2>3, <2>4 DEF Stray, Reached
<1>13. NewDirEntry(m, n, root, PDX1(la))
  <2>1. Dirs(k) = Dirs(m) /\ Dirs(h) = Dirs(k)
    BY <1>3, <1>7 DEF Keeps
  <2> QED BY <1>4, <1>8, <1>11, <2>1, DirEntryTwice
<1> QED BY <1>4, <1>8, <1>11, <1>12, <1>13 DEF NoneLost, NoOrphan

\* setup_pgdir()
LEMMA NewDirLoses ==
    ASSUME NEW m, Good(m), NEW p \in Page, p = alloc_page(m), m.use[p] = "free",
           NEW n, n = setup_pgdir(m)
    PROVE  /\ NoneLost(m, n) /\ n.entry[p] = NoEntries
           /\ \A r \in Dirs(m) : n.entry[r] = m.entry[r]
<1>1. m \in Memory
  BY DEF Good
<1>2. n.entry = [m.entry EXCEPT ![p] = NoEntries] /\ n.use = [m.use EXCEPT ![p] = "pgdir"]
  BY <1>1 DEF setup_pgdir, Used, Memory
<1>3. /\ m.entry \in [Page \cup {boot_pgdir} -> [Index -> PTE]]
      /\ m.use \in [Page -> {"free", "user"} \cup Table]
  BY <1>1 DEF Memory
<1>4. /\ n.entry[p] = NoEntries /\ \A u \in Page : u # p => n.entry[u] = m.entry[u]
      /\ n.use[p] = "pgdir" /\ \A u \in Page : u # p => n.use[u] = m.use[u]
  BY <1>2, <1>3
<1>5. Dirs(n) = Dirs(m) \cup {p} /\ p \notin Dirs(m)
  BY TakeDir
<1>6. ASSUME NEW q \in Page, Orphan(n, q) PROVE Orphan(m, q)
  <2>1. m.use[q] = n.use[q]
    BY <1>4, <1>6 DEF Orphan
  <2>2. ASSUME Parent(m, q) PROVE FALSE
    <3>1. PICK u \in Page, j \in Index : IsSlot(m, u, j) /\ Aim(m, u, j) = q
      BY <2>2 DEF Parent
    <3>2. u # p
      BY <3>1 DEF IsSlot, Table
    <3>3. IsSlot(n, u, j) /\ Aim(n, u, j) = q
      BY <1>4, <3>1, <3>2 DEF IsSlot, Aim
    <3> QED BY <1>6, <3>3 DEF Orphan, Parent
  <2> QED BY <1>6, <2>1, <2>2 DEF Orphan
<1>7. ASSUME NEW q \in Page, Stray(n, q) PROVE Stray(m, q)
  <2>1. m.use[q] = "user"
    BY <1>4, <1>7 DEF Stray
  <2>2. \A r \in Dirs(m), a \in UPage : pte(n, r, a) = pte(m, r, a)
    BY TakeDirMap
  <2> QED BY <1>5, <1>7, <2>1, <2>2 DEF Stray, Reached
<1>8. \A r \in Dirs(m) : n.entry[r] = m.entry[r]
  BY <1>4, <1>5 DEF Dirs
<1> QED BY <1>4, <1>6, <1>7, <1>8 DEF NoneLost, NoOrphan

\* put_pgdir() of a directory that maps nothing.
LEMMA PutLoses ==
    ASSUME NEW m, Good(m), NEW root \in Dirs(m), \A a \in UPage : pte(m, root, a) = NULL,
           NEW n, n = free_page(m, {root})
    PROVE  /\ \A q \in Page : Stray(n, q) => Stray(m, q)
           /\ (\A i \in Index : m.entry[root][i] = NULL) => NoOrphan(m, n)
           /\ \A r \in Dirs(m) \ {root} : n.entry[r] = m.entry[r]
<1>1. PICK F \in SUBSET Page : F = {root}
  BY DEF Dirs
<1>2. n = free_page(m, F) /\ \A q \in F : m.ref[q] = 0
  BY <1>1 DEF Good, Dirs
<1>3. Dirs(n) = Dirs(m) \ F
  BY <1>2, FreeKeeps
<1>4. Freed(m, n, F)
  BY <1>2, FreePage DEF Good
<1>5. ASSUME NEW q \in Page, Stray(n, q) PROVE Stray(m, q)
  <2>1. m.use[q] = "user"
    BY <1>1, <1>4, <1>5 DEF Freed, Stray
  <2>2. ASSUME Reached(m, q) PROVE FALSE
    <3>1. PICK r \in Dirs(m), a \in UPage : pte(m, r, a) # NULL /\ pte(m, r, a).page = q
      BY <2>2 DEF Reached
    <3>2. r \in Dirs(m) \ F
      BY <1>1, <3>1
    <3>3. pte(n, r, a) = pte(m, r, a)
      BY <1>2, <3>2, FreeMap
    <3> QED BY <1>3, <1>5, <3>1, <3>2, <3>3 DEF Stray, Reached
  <2> QED BY <2>1, <2>2 DEF Stray
<1>6. ASSUME \A i \in Index : m.entry[root][i] = NULL, NEW q \in Page, Orphan(n, q)
      PROVE  Orphan(m, q)
  <2>1. m.use[q] = n.use[q]
    BY <1>1, <1>4, <1>6 DEF Freed, Orphan
  <2>2. ASSUME Parent(m, q) PROVE FALSE
    <3>1. PICK u \in Page, j \in Index : IsSlot(m, u, j) /\ Aim(m, u, j) = q
      BY <2>2 DEF Parent
    <3>2. u \notin F
      BY <1>1, <1>6, <3>1 DEF IsSlot
    <3>3. IsSlot(n, u, j) /\ Aim(n, u, j) = q
      BY <1>4, <3>1, <3>2 DEF Freed, IsSlot, Aim
    <3> QED BY <1>6, <3>3 DEF Orphan, Parent
  <2> QED BY <1>6, <2>1, <2>2 DEF Orphan
<1>7. \A r \in Dirs(m) \ {root} : n.entry[r] = m.entry[r]
  BY <1>1, <1>4 DEF Freed, Dirs
<1> QED BY <1>5, <1>6, <1>7 DEF NoOrphan

-----------------------------------------------------------------------------
\* Entry i of table t is the same in m and n.
SameSlot(m, n, t, i) ==
    /\ IsSlot(m, t, i) /\ IsSlot(n, t, i) /\ n.use[t] = m.use[t]
    /\ n.entry[t][i] = m.entry[t][i] /\ Aim(n, t, i) = Aim(m, t, i)

\* What pruning leaves is not cleared or freed,
LEMMA PrunedLeaves ==
    ASSUME NEW m, NEW n, NEW C, NEW F, Pruned(m, n, C, F), NEW t \in Page, NEW i \in Index,
           IsSlot(n, t, i)
    PROVE  t \notin F /\ <<t, i>> \notin C
<1>1. t \notin F
  BY DEF Pruned, IsSlot, Table
<1> QED BY <1>1 DEF Pruned, IsSlot

\* and was there,
LEMMA PrunedSlot ==
    ASSUME NEW m, NEW n, NEW C, NEW F, Pruned(m, n, C, F), NEW t \in Page, NEW i \in Index,
           IsSlot(n, t, i)
    PROVE  SameSlot(m, n, t, i)
<1>1. t \notin F /\ <<t, i>> \notin C
  BY PrunedLeaves
<1>2. n.use[t] = m.use[t] /\ n.entry[t][i] = m.entry[t][i]
  BY <1>1 DEF Pruned
<1> QED BY <1>2 DEF SameSlot, IsSlot, Aim

\* and what it does not clear stays.
LEMMA KeptSlot ==
    ASSUME NEW m, NEW n, NEW C, NEW F, Pruned(m, n, C, F), NEW t \in Page, NEW i \in Index,
           IsSlot(m, t, i), t \notin F, <<t, i>> \notin C
    PROVE  SameSlot(m, n, t, i)
<1>1. n.use[t] = m.use[t] /\ n.entry[t][i] = m.entry[t][i]
  BY DEF Pruned
<1> QED BY <1>1 DEF SameSlot, IsSlot, Aim

\* A page that is mapped after pruning was mapped before, by an entry that stays.
LEMMA PrunedLess ==
    ASSUME NEW m, Good(m), NEW n, Good(n), NEW C, NEW F, Pruned(m, n, C, F),
           NEW r \in Dirs(m), r \in Dirs(n), NEW a \in UPage, pte(n, r, a) # NULL
    PROVE  /\ pte(m, r, a) = pte(n, r, a)
           /\ \E t \in Page : Leads(m, r, a, t) /\ <<t, PTX(a)>> \notin C
<1>1. PICK i \in Index, j \in Index, k \in Index : i = PDX1(a) /\ j = PDX0(a) /\ k = PTX(a)
  BY UPageFacts
<1>2. PICK t \in Page : Leads(n, r, a, t) /\ IsSlot(n, t, k)
  BY <1>1, MappedLeads
<1>3. PICK d \in Page : /\ IsSlot(n, r, i) /\ Aim(n, r, i) = d
                        /\ IsSlot(n, d, j) /\ Aim(n, d, j) = t
  BY <1>1, <1>2 DEF Leads
<1>4. r \in Page
  BY DEF Dirs
<1>5. IsSlot(m, r, i) /\ Aim(m, r, i) = d
  BY <1>3, <1>4, PrunedSlot DEF SameSlot
<1>6. IsSlot(m, d, j) /\ Aim(m, d, j) = t
  BY <1>3, PrunedSlot DEF SameSlot
<1>7. n.entry[t][k] = m.entry[t][k] /\ <<t, k>> \notin C
  BY <1>2, PrunedSlot, PrunedLeaves DEF SameSlot
<1>8. Leads(m, r, a, t)
  BY <1>1, <1>5, <1>6 DEF Leads
<1>9. pte(m, r, a) = m.entry[t][k] /\ pte(n, r, a) = n.entry[t][k]
  BY <1>1, <1>2, <1>8, LeadsFacts
<1> QED BY <1>1, <1>7, <1>8, <1>9

\* The page directories and the level 0 directories of m are those of n.
SameUpper(m, n) ==
    \A t \in Page, i \in Index : m.use[t] \in {"pgdir", "pd0"} =>
        n.use[t] = m.use[t] /\ n.entry[t][i] = m.entry[t][i]

\* unmap_range() removes what is mapped in the interval, and frees it.
LEMMA UnmapLoses ==
    ASSUME NEW m, Good(m), NEW root \in Dirs(m), NEW start \in Nat, NEW end \in Nat,
           end <= UserTop, NEW n, n = unmap_range(m, root, start, end)
    PROVE  /\ NoneLost(m, n) /\ SameUpper(m, n)
           /\ \A a \in UPage : pte(n, root, a) # NULL =>
                 pte(m, root, a) # NULL /\ ~(start <= a /\ a < end)
<1>1. PICK C : C = MappedSlots(m, root, start, end)
  OBVIOUS
<1>2. PICK F \in SUBSET Page :
         /\ Pruned(m, n, C, F) /\ \A p \in F : m.use[p] = "user"
         /\ \A t \in Page, i \in Index : <<t, i>> \in C => Aim(m, t, i) \in F
  BY <1>1, UnmapKeeps DEF ClearsOnly
<1>3. Good(n) /\ Dirs(n) = Dirs(m)
  BY UnmapKeeps DEF Keeps
<1>4. ASSUME NEW t, NEW i, <<t, i>> \in C PROVE m.use[t] = "pt"
  <2>1. PICK b : /\ b \in PagesOf(start, end) /\ pte(m, root, b) # NULL
                 /\ <<t, i>> = <<get_pte(m, root, b, FALSE).table, PTX(b)>>
    BY <1>1, <1>4 DEF MappedSlots
  <2>2. PICK create \in BOOLEAN : create = FALSE
    OBVIOUS
  <2>3. PICK g : g = get_pte(m, root, b, create).table
    OBVIOUS
  <2>4. b \in Nat /\ b < UserTop
    BY <2>1, Constants DEF PagesOf
  <2>5. m.use[g] = "pt"
    BY <2>1, <2>3, <2>4, PteFacts
  <2>6. <<t, i>> = <<g, PTX(b)>>
    BY <2>1, <2>2, <2>3, Zenon
  <2>7. PICK x : x = PTX(b)
    OBVIOUS
  <2>8. t = g
    BY <2>6, <2>7
  <2> QED BY <2>5, <2>8
<1>5. SameUpper(m, n)
  BY <1>2, <1>4 DEF SameUpper, Pruned
<1>6. ASSUME NEW p \in Page, Orphan(n, p) PROVE Orphan(m, p)
  <2>1. m.use[p] = n.use[p]
    BY <1>2, <1>6 DEF Pruned, Orphan
  <2>2. ASSUME Parent(m, p) PROVE FALSE
    <3>1. PICK u \in Page, j \in Index : IsSlot(m, u, j) /\ Aim(m, u, j) = p
      BY <2>2 DEF Parent
    <3>2. m.use[u] \in {"pgdir", "pd0"}
      BY <1>6, <2>1, <3>1, SlotFacts DEF Orphan, Child, IsSlot, Table
    <3>3. IsSlot(n, u, j) /\ Aim(n, u, j) = p
      BY <1>5, <3>1, <3>2 DEF SameUpper, IsSlot, Aim
    <3> QED BY <1>6, <3>3 DEF Orphan, Parent
  <2> QED BY <1>6, <2>1, <2>2 DEF Orphan
<1>7. ASSUME NEW a \in UPage, pte(n, root, a) # NULL
      PROVE  pte(m, root, a) # NULL /\ ~(start <= a /\ a < end)
  <2>1. pte(m, root, a) = pte(n, root, a)
    BY <1>2, <1>3, <1>7, PrunedLess
  <2>2. PICK t \in Page : Leads(m, root, a, t) /\ <<t, PTX(a)>> \notin C
    BY <1>2, <1>3, <1>7, PrunedLess
  <2>3. ASSUME start <= a /\ a < end PROVE FALSE
    <3>1. a \in PagesOf(start, end) /\ a \in Nat /\ a < UserTop
      BY <2>3, UPageFacts DEF PagesOf
    <3>2. PICK create \in BOOLEAN : create = FALSE
      OBVIOUS
    <3>3. PICK g : g = get_pte(m, root, a, create).table
      OBVIOUS
    <3>4. Leads(m, root, a, g)
      BY <1>7, <2>1, <3>1, <3>3, PteFacts
    <3>5. g = t
      BY <2>2, <3>4 DEF Leads
    <3>6. g = get_pte(m, root, a, FALSE).table
      BY <3>2, <3>3, Zenon
    <3>7. <<g, PTX(a)>> \in C
      BY <1>1, <1>7, <2>1, <3>1, <3>6 DEF MappedSlots
    <3> QED BY <2>2, <3>5, <3>7
  <2> QED BY <1>7, <2>1, <2>3
<1>8. ASSUME NEW q \in Page, Stray(n, q) PROVE Stray(m, q)
  <2>1. m.use[q] = "user" /\ q \notin F
    BY <1>2, <1>8 DEF Pruned, Stray
  <2>2. ASSUME Reached(m, q) PROVE FALSE
    <3>1. PICK r \in Dirs(m), a \in UPage : pte(m, r, a) # NULL /\ pte(m, r, a).page = q
      BY <2>2 DEF Reached
    <3>2. PICK t \in Page : Leads(m, r, a, t) /\ IsSlot(m, t, PTX(a))
      BY <3>1, MappedLeads
    <3>3. PICK i \in Index, j \in Index, k \in Index : i = PDX1(a) /\ j = PDX0(a) /\ k = PTX(a)
      BY UPageFacts
    <3>4. pte(m, r, a) = m.entry[t][k] /\ Aim(m, t, k) = q /\ m.use[t] = "pt"
      BY <3>1, <3>2, <3>3, LeadsFacts DEF Aim
    <3>5. t \notin F /\ <<t, k>> \notin C
      BY <1>2, <2>1, <3>4
    <3>6. n.entry[t][k] = m.entry[t][k]
      BY <1>2, <3>2, <3>3, <3>5, KeptSlot DEF SameSlot
    <3>7. PICK d \in Page : /\ IsSlot(m, r, i) /\ Aim(m, r, i) = d
                            /\ IsSlot(m, d, j) /\ Aim(m, d, j) = t
      BY <3>2, <3>3 DEF Leads
    <3>8. r \in Page /\ m.use[r] = "pgdir" /\ m.use[d] = "pd0"
      BY <3>7, SlotFacts DEF Dirs, Child
    <3>9. Leads(n, r, a, t)
      BY <1>5, <3>3, <3>7, <3>8 DEF SameUpper, Leads, IsSlot, Aim
    <3>10. pte(n, r, a) = n.entry[t][k]
      BY <1>3, <3>3, <3>9, LeadsFacts
    <3> QED BY <1>3, <1>8, <3>1, <3>4, <3>6, <3>10 DEF Stray, Reached
  <2> QED BY <2>1, <2>2 DEF Stray
<1> QED BY <1>5, <1>6, <1>7, <1>8 DEF NoneLost, NoOrphan

\* Nothing is mapped in root.
Idle(m, root) == \A a \in UPage : pte(m, root, a) = NULL

\* What exit_range() frees are tables.
LEMMA SweptUses ==
    ASSUME NEW m, Good(m), NEW root \in Dirs(m), NEW start, NEW end, NEW p \in Page,
           \/ Bare(m, root, start, end, p)
           \/ \E d1 \in Index : Full(m, root, start, end, d1) /\ p = Aim(m, root, d1)
    PROVE  m.use[p] \in {"pd0", "pt"}
<1>1. root \in Page /\ m.use[root] = "pgdir"
  BY DEF Dirs
<1>2. \A d1 \in Index : IsSlot(m, root, d1) => /\ Aim(m, root, d1) \in Page
                                              /\ m.use[Aim(m, root, d1)] = "pd0"
  BY <1>1, SlotFacts DEF Child
<1>3. CASE Bare(m, root, start, end, p)
  <2>1. PICK d1 \in Index : \E i \in Visited(d1, start, end) :
                /\ IsSlot(m, root, d1) /\ IsSlot(m, Aim(m, root, d1), i)
                /\ Aim(m, Aim(m, root, d1), i) = p
    BY <1>3 DEF Bare
  <2>2. PICK i \in Index : IsSlot(m, root, d1) /\ IsSlot(m, Aim(m, root, d1), i)
                           /\ Aim(m, Aim(m, root, d1), i) = p
    BY <2>1, VisitedIndex
  <2>3. PICK d \in Page : d = Aim(m, root, d1) /\ m.use[d] = "pd0"
    BY <1>2, <2>2
  <2> QED BY <2>2, <2>3, SlotFacts DEF Child
<1>4. CASE \E d1 \in Index : Full(m, root, start, end, d1) /\ p = Aim(m, root, d1)
  BY <1>2, <1>4 DEF Full
<1> QED BY <1>3, <1>4

\* exit_range() of a directory that maps nothing loses no page of user memory.
LEMMA ExitLoses ==
    ASSUME NEW m, Good(m), NEW root \in Dirs(m), Idle(m, root), NEW start, NEW end,
           NEW n, n = exit_range(m, root, start, end)
    PROVE  /\ \A q \in Page : Stray(n, q) => Stray(m, q)
           /\ Idle(n, root)
           /\ \A r \in Dirs(m), j \in Index : n.entry[r][j] # NULL => m.entry[r][j] # NULL
<1>1. PICK C, F : /\ Pruned(m, n, C, F)
                  /\ \A p \in Page : p \in F <=>
                        \/ Bare(m, root, start, end, p)
                        \/ \E d1 \in Index : Full(m, root, start, end, d1) /\ p = Aim(m, root, d1)
  BY ExitRangeKeeps DEF Sweeps
<1>2. Good(n) /\ Dirs(n) = Dirs(m) /\ OtherMaps(m, n, root)
  BY ExitRangeKeeps, ExitRangeMap DEF Keeps
<1>3. ASSUME NEW q \in Page, Stray(n, q) PROVE Stray(m, q)
  <2>1. m.use[q] = "user"
    BY <1>1, <1>3 DEF Pruned, Stray
  <2>2. ASSUME Reached(m, q) PROVE FALSE
    <3>1. PICK r \in Dirs(m), a \in UPage : pte(m, r, a) # NULL /\ pte(m, r, a).page = q
      BY <2>2 DEF Reached
    <3>2. pte(n, r, a) = pte(m, r, a)
      BY <1>2, <3>1 DEF Idle, OtherMaps
    <3> QED BY <1>2, <1>3, <3>1, <3>2 DEF Stray, Reached
  <2> QED BY <2>1, <2>2 DEF Stray
<1>4. Idle(n, root)
  BY <1>1, <1>2, PrunedLess DEF Idle
<1>5. ASSUME NEW r \in Dirs(m), NEW j \in Index, n.entry[r][j] # NULL
      PROVE  m.entry[r][j] # NULL
  <2>1. r \in Page /\ IsSlot(n, r, j)
    BY <1>2, <1>5 DEF Dirs, IsSlot, Table
  <2> QED BY <1>1, <2>1, PrunedSlot DEF SameSlot, IsSlot
<1> QED BY <1>3, <1>4, <1>5

\* A page table that exit_range() visits in a directory that maps nothing is empty.
LEMMA IdleTable ==
    ASSUME NEW m, Good(m), NEW root \in Dirs(m), Idle(m, root), NEW start, NEW end \in Nat,
           end <= UserTop, NEW d1 \in Index, NEW i \in Visited(d1, start, end), NEW d,
           IsSlot(m, root, d1), Aim(m, root, d1) = d, NEW p, IsSlot(m, d, i), Aim(m, d, i) = p
    PROVE  m.entry[p] = NoEntries
<1>1. PICK a : a \in d1 * PDSIZE .. (d1 + 1) * PDSIZE - 1 /\ a < end /\ PDX0(a) = i
  BY DEF Visited
<1>2. d1 \in Nat
  BY DEF Index
<1>3. a \in Nat /\ PDX1(a) = d1
  BY <1>1, <1>2, InDirectory
<1>4. a < UserTop
  <2>1. UserTop \in Nat
    BY Constants
  <2> QED BY <1>1, <1>3, <2>1
<1>5. root \in Page /\ m.use[root] = "pgdir" /\ i \in Index
  BY VisitedIndex DEF Dirs
<1>6. d \in Page /\ m.use[d] = "pd0"
  BY <1>5, SlotFacts DEF Child
<1>7. p \in Page /\ m.use[p] = "pt"
  BY <1>5, <1>6, SlotFacts DEF Child
<1>8. ASSUME NEW j \in Index PROVE m.entry[p][j] = NULL
  <2>1. PICK b \in UPage : PDX1(b) = d1 /\ PDX0(b) = i /\ PTX(b) = j
    BY <1>1, <1>3, <1>4, EntryAddress
  <2>2. Leads(m, root, b, p)
    BY <1>6, <2>1 DEF Leads
  <2>3. pte(m, root, b) = m.entry[p][j]
    BY <2>1, <2>2, LeadsFacts
  <2> QED BY <2>3 DEF Idle
<1>9. m.entry[p] \in [Index -> PTE]
  BY <1>7 DEF Good, Memory
<1> QED BY <1>8, <1>9 DEF NoEntries

\* The level 0 directories that an area reaches into are swept out.
Swept(m, root, start, end, F) ==
    \A d1 \in Index : IsSlot(m, root, d1) /\ Visited(d1, start, end) # {} =>
        /\ Aim(m, root, d1) \in F
        /\ \A i \in Index : IsSlot(m, Aim(m, root, d1), i) => Aim(m, Aim(m, root, d1), i) \in F
\* These are the bounds of an area.
IsArea(sp, start, end) ==
    \E k \in DOMAIN sp.mmap_list :
        start = sp.mmap_list[k].vm_start /\ end = sp.mmap_list[k].vm_end

\* An area of a tidy address space reaches all page tables of a directory that
\* it reaches, so exit_range() frees them all.
LEMMA TidySwept ==
    ASSUME NEW m, Good(m), NEW root \in Dirs(m), Idle(m, root), NEW sp, sp.pgdir = root,
           Tidy(m, sp), NEW start, NEW end \in Nat, IsArea(sp, start, end), end <= UserTop,
           NEW F, \A p \in Page :
              \/ Bare(m, root, start, end, p)
              \/ \E d1 \in Index : Full(m, root, start, end, d1) /\ p = Aim(m, root, d1)
              => p \in F
    PROVE  Swept(m, root, start, end, F)
<1> SUFFICES ASSUME NEW d1 \in Index, IsSlot(m, root, d1), Visited(d1, start, end) # {}
             PROVE  /\ Aim(m, root, d1) \in F
                    /\ \A i \in Index : IsSlot(m, Aim(m, root, d1), i)
                                        => Aim(m, Aim(m, root, d1), i) \in F
  BY DEF Swept
<1>1. PICK d \in Page : d = Aim(m, root, d1) /\ m.use[d] = "pd0" /\ m.entry[root][d1].page = d
  BY SlotFacts DEF Dirs, Child, Aim
<1>2. Visited(d1, start, end) = {i \in Index : m.entry[d][i] # NULL}
  <2>1. m.entry[root][d1] # NULL
    BY DEF IsSlot
  <2>2. Visited(d1, start, end) \in {{}, {i \in Index : m.entry[m.entry[root][d1].page][i] # NULL}}
    BY <2>1 DEF Tidy, IsArea
  <2> QED BY <1>1, <2>2
<1>3. Full(m, root, start, end, d1)
  BY <1>1, <1>2 DEF Full
<1>4. d \in F
  BY <1>1, <1>3
<1>5. ASSUME NEW i \in Index, IsSlot(m, d, i) PROVE Aim(m, d, i) \in F
  <2>1. i \in Visited(d1, start, end)
    BY <1>2, <1>5 DEF IsSlot
  <2>2. PICK p \in Page : p = Aim(m, d, i)
    BY <1>1, <1>5, SlotFacts
  <2>3. m.entry[p] = NoEntries
    BY <1>1, <1>5, <2>1, <2>2, IdleTable
  <2>4. Bare(m, root, start, end, p)
    BY <1>1, <1>5, <2>1, <2>2, <2>3 DEF Bare
  <2> QED BY <2>2, <2>4
<1> QED BY <1>1, <1>4, <1>5

\* exit_range() of a tidy address space that maps nothing loses no table: a level 0
\* directory that it visits is freed with all of its page tables.
LEMMA TidyExit ==
    ASSUME NEW m, Good(m), NEW root \in Dirs(m), Idle(m, root), NEW sp, sp.pgdir = root,
           Tidy(m, sp), NEW start, NEW end \in Nat, IsArea(sp, start, end), end <= UserTop,
           NEW n, n = exit_range(m, root, start, end)
    PROVE  /\ NoOrphan(m, n) /\ Tidy(n, sp)
           /\ \A d1 \in Index : Visited(d1, start, end) # {} => n.entry[root][d1] = NULL
<1>1. PICK C, F :
         /\ Pruned(m, n, C, F)
         /\ \A t \in Page, i \in Index : <<t, i>> \in C /\ IsSlot(m, t, i) => Aim(m, t, i) \in F
         /\ \A p \in Page : p \in F <=>
               \/ Bare(m, root, start, end, p)
               \/ \E d1 \in Index : Full(m, root, start, end, d1) /\ p = Aim(m, root, d1)
  BY ExitRangeKeeps DEF Sweeps
<1>2. Good(n) /\ Dirs(n) = Dirs(m)
  BY ExitRangeKeeps DEF Keeps
<1>3. Swept(m, root, start, end, F)
  BY <1>1, TidySwept
<1>4. \A p \in Page \cap F : m.use[p] \in {"pd0", "pt"}
  BY <1>1, SweptUses
<1>5. root \in Page /\ m.use[root] = "pgdir" /\ root \notin F
  BY <1>4 DEF Dirs
<1>6. ASSUME NEW d1 \in Index, Visited(d1, start, end) # {}
      PROVE  n.entry[root][d1] = NULL
  <2>1. ASSUME IsSlot(n, root, d1) PROVE FALSE
    <3>1. IsSlot(m, root, d1)
      BY <1>1, <1>5, <2>1, PrunedSlot DEF SameSlot
    <3>2. <<root, d1>> \notin C
      BY <1>1, <1>5, <2>1, PrunedLeaves
    <3>3. Aim(m, root, d1) \in F
      BY <1>3, <1>6, <3>1 DEF Swept
    <3> QED BY <1>1, <1>5, <3>1, <3>2, <3>3 DEF Pruned
  <2> QED BY <1>2, <2>1 DEF IsSlot, Dirs, Table
<1>7. ASSUME NEW t \in Page, NEW i \in Index, IsSlot(m, t, i), t \in F
      PROVE  Aim(m, t, i) \in F
  <2>1. ~Bare(m, root, start, end, t)
    BY <1>7 DEF Bare, IsSlot, NoEntries
  <2>2. PICK d1 \in Index : Full(m, root, start, end, d1) /\ t = Aim(m, root, d1)
    BY <1>1, <1>7, <2>1
  <2> QED BY <1>3, <1>7, <2>2 DEF Swept, Full
<1>8. ASSUME NEW p \in Page, Orphan(n, p) PROVE Orphan(m, p)
  <2>1. m.use[p] = n.use[p] /\ p \notin F
    BY <1>1, <1>8 DEF Pruned, Orphan
  <2>2. ASSUME Parent(m, p) PROVE FALSE
    <3>1. PICK t \in Page, i \in Index : IsSlot(m, t, i) /\ Aim(m, t, i) = p
      BY <2>2 DEF Parent
    <3>2. t \notin F /\ <<t, i>> \notin C
      BY <1>1, <1>7, <2>1, <3>1
    <3>3. IsSlot(n, t, i) /\ Aim(n, t, i) = p
      BY <1>1, <3>1, <3>2, KeptSlot DEF SameSlot
    <3> QED BY <1>8, <3>3 DEF Orphan, Parent
  <2> QED BY <1>8, <2>1, <2>2 DEF Orphan
<1>9. ASSUME NEW d1 \in Index, n.entry[root][d1] # NULL, NEW j \in DOMAIN sp.mmap_list
      PROVE  Visited(d1, sp.mmap_list[j].vm_start, sp.mmap_list[j].vm_end)
                \in {{}, {i \in Index : n.entry[n.entry[root][d1].page][i] # NULL}}
  <2>1. IsSlot(n, root, d1)
    BY <1>2, <1>9 DEF IsSlot, Dirs, Table
  <2>2. PICK d : d = Aim(n, root, d1)
    OBVIOUS
  <2>3. IsSlot(m, root, d1) /\ Aim(m, root, d1) = d
    BY <1>1, <1>5, <2>1, <2>2, PrunedSlot DEF SameSlot
  <2>4. d \in Page /\ m.use[d] = "pd0" /\ n.use[d] = "pd0"
    <3>1. n.use[root] = "pgdir"
      BY <1>2 DEF Dirs
    <3>2. d \in Page /\ n.use[d] = "pd0"
      BY <1>2, <1>5, <2>1, <2>2, <3>1, SlotFacts DEF Child
    <3> QED BY <1>5, <2>3, <3>2, SlotFacts DEF Child
  <2>5. d \notin F /\ Visited(d1, start, end) = {}
    BY <1>3, <1>6, <1>9, <2>3, <2>4, <1>1 DEF Pruned
  <2>6. ASSUME NEW i \in Index PROVE n.entry[d][i] # NULL <=> m.entry[d][i] # NULL
    <3>1. ASSUME n.entry[d][i] # NULL PROVE m.entry[d][i] # NULL
      <4>1. IsSlot(n, d, i)
        BY <2>4, <3>1 DEF IsSlot, Table
      <4> QED BY <1>1, <2>4, <4>1, PrunedSlot DEF SameSlot, IsSlot
    <3>2. ASSUME m.entry[d][i] # NULL PROVE n.entry[d][i] # NULL
      <4>1. IsSlot(m, d, i)
        BY <2>4, <3>2 DEF IsSlot, Table
      <4>2. PICK p \in Page : p = Aim(m, d, i) /\ m.use[p] = "pt"
        BY <2>4, <4>1, SlotFacts DEF Child
      <4>3. ASSUME p \in F PROVE FALSE
        <5>1. ASSUME NEW d2 \in Index, Full(m, root, start, end, d2), p = Aim(m, root, d2)
              PROVE  FALSE
          BY <1>5, <4>2, <5>1, SlotFacts DEF Full, Child
        <5>2. PICK d2 \in Index : \E l \in Visited(d2, start, end) :
                     /\ IsSlot(m, root, d2) /\ IsSlot(m, Aim(m, root, d2), l)
                     /\ Aim(m, Aim(m, root, d2), l) = p
          BY <1>1, <4>3, <5>1 DEF Bare
        <5>3. PICK l \in Index : /\ l \in Visited(d2, start, end)
                                 /\ IsSlot(m, root, d2) /\ IsSlot(m, Aim(m, root, d2), l)
                                 /\ Aim(m, Aim(m, root, d2), l) = p
          BY <5>2, VisitedIndex
        <5>4. Aim(m, root, d2) \in Page
          BY <1>5, <5>3, SlotFacts
        <5>5. Aim(m, root, d2) = d
          BY <2>4, <4>1, <4>2, <5>3, <5>4 DEF Good
        <5>6. d2 = d1
          BY <1>5, <2>3, <5>3, <5>5 DEF Good
        <5> QED BY <2>5, <5>3, <5>6
      <4>4. <<d, i>> \notin C
        BY <1>1, <2>4, <4>1, <4>2, <4>3
      <4> QED BY <1>1, <2>4, <2>5, <3>2, <4>1, <4>4, KeptSlot DEF SameSlot
    <3> QED BY <3>1, <3>2
  <2>7. m.entry[root][d1] # NULL /\ m.entry[root][d1].page = d /\ n.entry[root][d1].page = d
    BY <2>2, <2>3 DEF IsSlot, Aim
  <2>8. Visited(d1, sp.mmap_list[j].vm_start, sp.mmap_list[j].vm_end)
            \in {{}, {i \in Index : m.entry[d][i] # NULL}}
    BY <2>7 DEF Tidy
  <2>9. {i \in Index : m.entry[d][i] # NULL} = {i \in Index : n.entry[d][i] # NULL}
    BY <2>6
  <2> QED BY <2>7, <2>8, <2>9
<1>10. Tidy(n, sp)
  BY <1>9 DEF Tidy
<1> QED BY <1>6, <1>8, <1>10 DEF NoOrphan

-----------------------------------------------------------------------------
\* Every entry of the page directory of sp is of a region that an area of X
\* reaches into.
Covered(m, sp, X) ==
    \A d \in Index : m.entry[sp.pgdir][d] # NULL =>
        \E v \in X : Visited(d, v.vm_start, v.vm_end) # {}

\* The areas that a loop of exit_mmap() has not come to.
Rest == {work.mmap_list[k] : k \in call.i .. Len(work.mmap_list)}

\* Nothing is lost; tables only when an untidy address space was torn down.
NothingLost == \A p \in Page : ~Stray(mem, p) /\ (~spoiled => ~Orphan(mem, p))
SpacesCovered == \A s \in Space : mm[s] # NULL => Covered(mem, mm[s], Areas(mm[s]))
\* The first loop of exit_mmap() removes what is mapped,
Unmapping == \A a \in UPage : pte(mem, work.pgdir, a) # NULL => \E v \in Rest : Holds(v, a)
\* and the second one the tables.
Exiting == Idle(mem, work.pgdir) /\ (~spoiled => Covered(mem, work, Rest))

LossInv ==
    pc # "boot" =>
        /\ NothingLost /\ SpacesCovered
        /\ work # NULL /\ pc # "exit_range" => Covered(mem, work, Areas(work))
        /\ pc = "unmap" => Unmapping
        /\ pc = "exit_range" => Exiting
        /\ pc \in {"unmap", "exit_range"} /\ ~spoiled => Tidy(mem, work)

\* The page directories other than root have no new entry.
OtherDirs(m, n, root) ==
    \A r \in Dirs(m), i \in Index : r # root /\ n.entry[r][i] # NULL => m.entry[r][i] # NULL

\* What is mapped is in the entries alone.
LEMMA SamePte ==
    ASSUME NEW m, NEW n, n.entry = m.entry
    PROVE  \A r, a : pte(n, r, a) = pte(m, r, a)
BY DEF pte, Below

\* What is lost does not depend on what the pages hold.
LEMMA SameLoses ==
    ASSUME NEW m, NEW n, n.use = m.use, n.entry = m.entry
    PROVE  NoneLost(m, n) /\ \A root : OtherDirs(m, n, root)
<1>1. \A r, a : pte(n, r, a) = pte(m, r, a)
  BY SamePte
<1>2. NoOrphan(m, n)
  BY DEF NoOrphan, Orphan, Parent, IsSlot, Aim
<1>3. Dirs(n) = Dirs(m)
  BY DEF Dirs
<1>4. \A p \in Page : Stray(n, p) => Stray(m, p)
  BY <1>1, <1>3 DEF Stray, Reached
<1>5. \A root : OtherDirs(m, n, root)
  BY DEF OtherDirs
<1> QED BY <1>2, <1>4, <1>5 DEF NoneLost

\* Two operations that lose nothing lose nothing together.
LEMMA LosesTwice ==
    ASSUME NEW m, NEW n, NEW k, NoneLost(m, n), NoneLost(n, k)
    PROVE  NoneLost(m, k)
BY DEF NoneLost, NoOrphan

\* get_pte() adds an entry to one page directory.
LEMMA NewDirOthers ==
    ASSUME NEW m, NEW n, NEW root, NEW i, NewDirEntry(m, n, root, i)
    PROVE  OtherDirs(m, n, root)
BY DEF NewDirEntry, OtherDirs

\* An address space stays covered when its directory gets no entry,
LEMMA CoveredLess ==
    ASSUME NEW m, NEW n, NEW sp, NEW q, NEW X, NEW Y, Covered(m, sp, X), q.pgdir = sp.pgdir,
           X \subseteq Y, \A i \in Index : n.entry[sp.pgdir][i] # NULL => m.entry[sp.pgdir][i] # NULL
    PROVE  Covered(n, q, Y)
BY DEF Covered

\* or one for a page of an area.
LEMMA CoveredNew ==
    ASSUME NEW m, NEW n, NEW sp, NEW X, Covered(m, sp, X), sp.pgdir \in Dirs(m),
           NEW la \in UPage, NewDirEntry(m, n, sp.pgdir, PDX1(la)),
           NEW v \in X, v.vm_start \in Nat, v.vm_end \in Nat, Holds(v, la)
    PROVE  Covered(n, sp, X)
<1>1. PICK i \in Index : i = PDX1(la)
  BY UPageFacts
<1>2. Visited(i, v.vm_start, v.vm_end) # {}
  BY <1>1, VisitsPage
<1>3. \A j \in Index : n.entry[sp.pgdir][j] # NULL => m.entry[sp.pgdir][j] # NULL \/ j = i
  BY <1>1 DEF NewDirEntry
<1> QED BY <1>2, <1>3 DEF Covered

\* A new address space has no entry.
LEMMA CoveredEmpty ==
    ASSUME NEW m, NEW sp, NEW X, m.entry[sp.pgdir] = NoEntries
    PROVE  Covered(m, sp, X)
BY DEF Covered, NoEntries

\* The address spaces of the processes stay covered.
LEMMA SpacesStay ==
    ASSUME PageInv, LossInv, pc # "boot", mm' = mm, NEW n, NEW root, OtherDirs(mem, n, root),
           \A s \in Space : mm[s] # NULL => mm[s].pgdir # root
    PROVE  \A s \in Space : mm'[s] # NULL => Covered(n, mm'[s], Areas(mm'[s]))
<1> SUFFICES ASSUME NEW s \in Space, mm[s] # NULL PROVE Covered(n, mm[s], Areas(mm[s]))
  OBVIOUS
<1>1. PICK q : q = mm[s]
  OBVIOUS
<1>2. q.pgdir \in Dirs(mem) /\ q.pgdir # root /\ Covered(mem, q, Areas(q))
  BY <1>1, Trees DEF LossInv, SpacesCovered
<1>3. \A i \in Index : n.entry[q.pgdir][i] # NULL => mem.entry[q.pgdir][i] # NULL
  BY <1>2 DEF OtherDirs
<1>4. Covered(n, q, Areas(q))
  BY <1>2, <1>3, CoveredLess
<1> QED BY <1>1, <1>4

\* The page directory that a call works on is of no process.
LEMMA WorkAlone ==
    ASSUME PageInv, pc # "boot", work # NULL
    PROVE  \A s \in Space : mm[s] # NULL => mm[s].pgdir # work.pgdir
BY Trees DEF Rooted, Separate

\* Steps after which no address space is being torn down.
LEMMA LossElse ==
    ASSUME LossInv, pc # "boot", NoneLost(mem, mem'), spoiled' = spoiled, SpacesCovered',
           work' # NULL => Covered(mem', work', Areas(work')),
           pc' \notin {"unmap", "exit_range"}
    PROVE  LossInv'
<1>1. NothingLost'
  BY DEF LossInv, NothingLost, NoneLost, NoOrphan
<1> QED BY <1>1 DEF LossInv

\* A teardown begins.
LEMMA LossBegins ==
    ASSUME LossInv, pc # "boot", NEW m, NoneLost(mem, m), NEW sp, IsSpace(sp),
           Within(m, sp), Covered(m, sp, Areas(sp)),
           mem' = m, work' = sp, pc' = "unmap", call'.i = 1,
           spoiled' = (spoiled \/ ~Tidy(m, sp)), SpacesCovered'
    PROVE  LossInv'
<1>1. NothingLost'
  BY DEF LossInv, NothingLost, NoneLost, NoOrphan
<1>2. Rest' = Areas(sp)
  <2>1. Areas(sp) = {sp.mmap_list[k] : k \in 1 .. Len(sp.mmap_list)}
    BY SpaceFacts, Zenon DEF Areas
  <2> QED BY <2>1 DEF Rest
<1>3. Unmapping'
  BY <1>2 DEF Within, Unmapping
<1>4. ~spoiled' => Tidy(m, sp)
  OBVIOUS
<1>5. ~spoiled' => Tidy(mem', work')
  BY <1>4
<1> QED BY <1>1, <1>3, <1>5 DEF LossInv

\* A call that fails tears down what it has built.
LEMMA LossTeardown ==
    ASSUME AreaInv, PageInv, LossInv, pc \in Loading \cup Copying, mm' = mm,
           NEW m, NoneLost(mem, m), OtherDirs(mem, m, work.pgdir), NEW sp, IsSpace(sp),
           Within(m, sp), Covered(m, sp, Areas(sp)), NEW then, Teardown(m, sp, then)
    PROVE  LossInv'
<1>1. pc # "boot" /\ work # NULL /\ call \in CallType
  BY Before, Constants DEF Building, IsSpace, Loading, Copying
<1>2. /\ mem' = m /\ work' = sp /\ pc' = "unmap" /\ call'.i = 1
      /\ spoiled' = (spoiled \/ ~Tidy(m, sp))
  <2>1. /\ mem' = m /\ work' = sp /\ pc' = "unmap"
        /\ call' = [call EXCEPT !.then = then, !.i = 1]
    BY DEF Teardown
  <2>2. spoiled' = (spoiled \/ ~Tidy(m, sp))
    BY Zenon DEF Teardown
  <2> QED BY <1>1, <2>1, <2>2 DEF CallType
<1>3. SpacesCovered'
  BY <1>1, <1>2, SpacesStay, WorkAlone DEF SpacesCovered
<1> QED BY <1>1, <1>2, <1>3, LossBegins

\* A call of mm_map() that fails leaves the areas as they are.
LEMMA MmMapFails ==
    ASSUME NEW sp, IsSpace(sp), NEW addr \in Nat, NEW len \in Nat,
           NEW flags \in SUBSET VmFlags, NEW memory \in BOOLEAN,
           NEW r, r = mm_map(sp, addr, len, flags, memory), r.ret # "ok"
    PROVE  Areas(r.mm) = Areas(sp) /\ r.mm.pgdir = sp.pgdir /\ IsSpace(r.mm)
<1>1. IsSpace(r.mm) /\ r.mm.pgdir = sp.pgdir
  BY MmMap, SamePgdir DEF IsSpace
<1>2. PICK start \in Nat : start = ROUNDDOWN(addr, PGSIZE)
  BY Rounding
<1>3. PICK looked : looked = found(sp, start)
  OBVIOUS
<1>4. looked.mmap_list = sp.mmap_list
  <2>1. start \in Int
    BY <1>2
  <2>2. found(sp, start).mmap_list = sp.mmap_list
    BY <2>1, Found, Zenon
  <2> QED BY <1>3, <2>2
<1>5. r.mm = sp \/ r.mm = looked
  BY <1>2, <1>3 DEF mm_map
<1> QED BY <1>1, <1>4, <1>5 DEF Areas

-----------------------------------------------------------------------------
\* The tests at boot lose nothing.
LEMMA LossBoot ==
    ASSUME AreaInv, PageInv, LossInv, Boot
    PROVE  LossInv'
<1>1. pc = "boot" /\ mm' = mm /\ work' = work
  BY DEF Boot, BootFirst, BootSecond, BootShare, BootRemove, BootFree, At, NextCheck
<1>2. CASE pc' = "boot"
  BY <1>2 DEF LossInv
<1>3. CASE pc' # "boot"
  <2>1. BootFree /\ pc' = "user_main"
    BY <1>1, <1>3 DEF Boot, BootFirst, BootSecond, BootShare, BootRemove, BootFree, At, NextCheck
  <2>2. AllFree(mem')
    BY <2>1, BootFreed
  <2>3. work' = NULL /\ \A s \in Space : mm'[s] = NULL
    BY <1>1, Before DEF Building, Loading, Copying
  <2>4. NothingLost'
    BY <2>2 DEF NothingLost, AllFree, Stray, Orphan
  <2> QED BY <2>1, <2>3, <2>4 DEF LossInv, SpacesCovered
<1> QED BY <1>2, <1>3

\* exit_mmap() removes the pages of one area,
LEMMA LossUnmap ==
    ASSUME AreaInv, PageInv, LossInv, Unmap
    PROVE  LossInv'
<1>1. /\ pc = "unmap" /\ mm' = mm /\ work' = work /\ spoiled' = spoiled
      /\ pc' \in {"unmap", "exit_range"}
  BY DEF Unmap
<1>2. /\ IsSpace(work) /\ call \in CallType /\ work # NULL
      /\ Good(mem) /\ work.pgdir \in Dirs(mem) /\ call.i > 0 /\ call.i \in Nat
  BY <1>1, Before, Trees, Constants DEF Building, IsSpace, Cursor, CallType
<1>3. /\ NothingLost /\ SpacesCovered /\ Covered(mem, work, Areas(work)) /\ Unmapping
      /\ ~spoiled => Tidy(mem, work)
  BY <1>1, <1>2 DEF LossInv
<1>4. CASE call.i <= Len(work.mmap_list)
  <2>1. PICK k \in 1 .. Len(work.mmap_list) : k = call.i
    BY <1>2, <1>4, SpaceFacts
  <2>2. PICK vma : vma = work.mmap_list[k]
    OBVIOUS
  <2>3. vma.vm_start \in Nat /\ vma.vm_end \in Nat /\ vma.vm_end <= UserTop
    BY <1>2, <2>1, <2>2, AreaBounds
  <2>4. mem' = unmap_range(mem, work.pgdir, vma.vm_start, vma.vm_end) /\ pc' = "unmap"
    BY <1>1, <1>4, <2>1, <2>2 DEF Unmap
  <2>5. /\ NoneLost(mem, mem') /\ SameUpper(mem, mem')
        /\ \A a \in UPage : pte(mem', work.pgdir, a) # NULL =>
              pte(mem, work.pgdir, a) # NULL /\ ~Holds(vma, a)
    BY <1>2, <2>3, <2>4, UnmapLoses DEF Holds
  <2>6. OtherDirs(mem, mem', NULL) /\ \A i \in Index : mem'.entry[work.pgdir][i] = mem.entry[work.pgdir][i]
    BY <1>2, <2>5 DEF SameUpper, OtherDirs, Dirs
  <2>7. NothingLost'
    BY <1>1, <1>3, <2>5 DEF NothingLost, NoneLost, NoOrphan
  <2>8. SpacesCovered'
    <3>1. \A s \in Space : mm[s] # NULL => mm[s].pgdir # NULL
      BY <1>1, Trees, PageTableAssumption DEF Dirs, Page
    <3> QED BY <1>1, <2>6, <3>1, SpacesStay DEF SpacesCovered
  <2>9. Covered(mem', work, Areas(work))
    BY <1>3, <2>6, CoveredLess
  <2>10. Unmapping'
    <3>1. call'.i = call.i + 1
      BY <1>2, <1>4 DEF Unmap, CallType
    <3> SUFFICES ASSUME NEW a \in UPage, pte(mem', work.pgdir, a) # NULL
                 PROVE  \E v \in Rest' : Holds(v, a)
      BY <1>1 DEF Unmapping
    <3>2. PICK j \in call.i .. Len(work.mmap_list) : Holds(work.mmap_list[j], a)
      BY <1>3, <2>5 DEF Unmapping, Rest
    <3>3. j # call.i
      BY <2>1, <2>2, <2>5, <3>2
    <3>4. j \in call'.i .. Len(work'.mmap_list)
      BY <1>1, <1>2, <3>1, <3>2, <3>3
    <3> QED BY <1>1, <3>2, <3>4 DEF Rest
  <2>11. Tidy(mem, work) => Tidy(mem', work)
    <3> SUFFICES ASSUME Tidy(mem, work), NEW d1 \in Index, mem'.entry[work.pgdir][d1] # NULL,
                        NEW j \in DOMAIN work.mmap_list
                 PROVE  Visited(d1, work.mmap_list[j].vm_start, work.mmap_list[j].vm_end)
                           \in {{}, {i \in Index : mem'.entry[mem'.entry[work.pgdir][d1].page][i] # NULL}}
      BY DEF Tidy
    <3>1. IsSlot(mem, work.pgdir, d1) /\ work.pgdir \in Page /\ mem.use[work.pgdir] = "pgdir"
      BY <1>2, <2>6 DEF IsSlot, Table, Dirs
    <3>2. PICK p \in Page : p = Aim(mem, work.pgdir, d1) /\ mem.use[p] = "pd0"
      BY <1>2, <3>1, SlotFacts DEF Child
    <3>3. /\ mem'.entry[work.pgdir][d1].page = p /\ mem.entry[work.pgdir][d1].page = p
          /\ \A i \in Index : mem'.entry[p][i] = mem.entry[p][i]
      BY <2>5, <2>6, <3>2 DEF SameUpper, Aim
    <3>4. {i \in Index : mem'.entry[p][i] # NULL} = {i \in Index : mem.entry[p][i] # NULL}
      BY <3>3
    <3>5. Visited(d1, work.mmap_list[j].vm_start, work.mmap_list[j].vm_end)
             \in {{}, {i \in Index : mem.entry[p][i] # NULL}}
      BY <2>6, <3>3 DEF Tidy
    <3> QED BY <3>3, <3>4, <3>5
  <2> QED BY <1>1, <1>3, <2>4, <2>7, <2>8, <2>9, <2>10, <2>11 DEF LossInv
<1>5. CASE ~(call.i <= Len(work.mmap_list))
  <2>1. mem' = mem /\ pc' = "exit_range" /\ call'.i = 1
    BY <1>2, <1>5 DEF Unmap, CallType
  <2>2. Rest = {}
    BY <1>2, <1>5, SpaceFacts DEF Rest
  <2>3. Idle(mem, work.pgdir)
    BY <1>3, <2>2 DEF Unmapping, Idle
  <2>4. Rest' = Areas(work)
    <3>1. Areas(work) = {work.mmap_list[k] : k \in 1 .. Len(work.mmap_list)}
      BY <1>2, SpaceFacts, Zenon DEF Areas
    <3> QED BY <1>1, <2>1, <3>1 DEF Rest
  <2>5. Exiting'
    BY <1>1, <1>3, <2>1, <2>3, <2>4 DEF Exiting
  <2>6. NothingLost' /\ SpacesCovered'
    BY <1>1, <1>3, <2>1 DEF NothingLost, SpacesCovered
  <2> QED BY <1>1, <1>3, <2>1, <2>5, <2>6 DEF LossInv
<1> QED BY <1>4, <1>5

\* then the tables that exit_range() finds, and the page directory.
LEMMA LossExitRange ==
    ASSUME AreaInv, PageInv, LossInv, ExitRange
    PROVE  LossInv'
<1>1. pc = "exit_range" /\ mm' = mm /\ spoiled' = spoiled /\ pc' \in {"exit_range", "load", "user"}
  BY DEF ExitRange
<1>2. /\ IsSpace(work) /\ call \in CallType /\ work # NULL
      /\ Good(mem) /\ work.pgdir \in Dirs(mem) /\ call.i > 0 /\ call.i \in Nat
      /\ \A s \in Space : mm[s] # NULL => mm[s].pgdir # NULL
  <2>1. \A s \in Space : mm[s] # NULL => mm[s].pgdir # NULL
    BY <1>1, Trees, PageTableAssumption DEF Dirs, Page
  <2> QED BY <1>1, <2>1, Before, Trees, Constants DEF Building, IsSpace, Cursor, CallType
<1>3. /\ NothingLost /\ SpacesCovered /\ Idle(mem, work.pgdir)
      /\ ~spoiled => Covered(mem, work, Rest) /\ Tidy(mem, work)
  BY <1>1 DEF LossInv, Exiting
<1>4. CASE call.i <= Len(work.mmap_list)
  <2>1. PICK k \in 1 .. Len(work.mmap_list) : k = call.i
    BY <1>2, <1>4, SpaceFacts
  <2>2. PICK start \in Nat, end \in Nat :
           start = work.mmap_list[k].vm_start /\ end = work.mmap_list[k].vm_end /\ end <= UserTop
    BY <1>2, <2>1, AreaBounds
  <2>3. /\ mem' = exit_range(mem, work.pgdir, start, end)
        /\ pc' = "exit_range" /\ work' = work /\ call'.i = call.i + 1
    BY <1>1, <1>2, <1>4, <2>1, <2>2 DEF ExitRange, CallType
  <2>4. /\ \A q \in Page : Stray(mem', q) => Stray(mem, q)
        /\ Idle(mem', work.pgdir)
        /\ \A r \in Dirs(mem), j \in Index : mem'.entry[r][j] # NULL => mem.entry[r][j] # NULL
    BY <1>2, <1>3, <2>3, ExitLoses
  <2>5. SpacesCovered'
    <3>1. OtherDirs(mem, mem', NULL)
      BY <2>4 DEF OtherDirs
    <3> QED BY <1>1, <1>2, <3>1, SpacesStay DEF SpacesCovered
  <2>6. ASSUME ~spoiled
        PROVE  /\ NoOrphan(mem, mem') /\ Tidy(mem', work)
               /\ \A d1 \in Index : Visited(d1, start, end) # {} => mem'.entry[work.pgdir][d1] = NULL
    <3>1. PICK root \in Dirs(mem) : root = work.pgdir
      BY <1>2
    <3>2. IsArea(work, start, end)
      BY <1>2, <2>1, <2>2, SpaceFacts DEF IsArea
    <3>3. /\ Good(mem) /\ Idle(mem, root) /\ Tidy(mem, work) /\ work.pgdir = root
          /\ end <= UserTop /\ mem' = exit_range(mem, root, start, end)
      BY <1>2, <1>3, <2>2, <2>3, <2>6, <3>1
    <3>4. /\ NoOrphan(mem, mem') /\ Tidy(mem', work)
          /\ \A d1 \in Index : Visited(d1, start, end) # {} => mem'.entry[root][d1] = NULL
      BY <3>2, <3>3, TidyExit
    <3> QED BY <3>1, <3>4
  <2>7. ASSUME ~spoiled PROVE Covered(mem', work, Rest')
    <3> SUFFICES ASSUME NEW d \in Index, mem'.entry[work.pgdir][d] # NULL
                 PROVE  \E v \in Rest' : Visited(d, v.vm_start, v.vm_end) # {}
      BY DEF Covered
    <3>1. mem.entry[work.pgdir][d] # NULL
      BY <1>2, <2>4
    <3>2. PICK j \in call.i .. Len(work.mmap_list) :
             Visited(d, work.mmap_list[j].vm_start, work.mmap_list[j].vm_end) # {}
      BY <1>3, <2>7, <3>1 DEF Covered, Rest
    <3>3. j # call.i
      BY <2>1, <2>2, <2>6, <2>7, <3>2
    <3>4. j \in call'.i .. Len(work'.mmap_list)
      BY <1>2, <2>3, <3>2, <3>3
    <3> QED BY <2>3, <3>2, <3>4 DEF Rest
  <2>8. NothingLost'
    BY <1>1, <1>3, <2>4, <2>6 DEF NothingLost, NoOrphan
  <2>9. Exiting' /\ (~spoiled' => Tidy(mem', work'))
    BY <1>1, <2>3, <2>4, <2>6, <2>7 DEF Exiting
  <2> QED BY <2>3, <2>5, <2>8, <2>9 DEF LossInv
<1>5. CASE ~(call.i <= Len(work.mmap_list))
  <2>1. mem' = free_page(mem, {work.pgdir}) /\ work' = NULL /\ pc' \in {"load", "user"}
    BY <1>5 DEF ExitRange, put_pgdir, mm_destroy
  <2>2. Rest = {}
    BY <1>2, <1>5, SpaceFacts DEF Rest
  <2>3. ~spoiled => \A i \in Index : mem.entry[work.pgdir][i] = NULL
    BY <1>3, <2>2 DEF Covered
  <2>4. /\ \A q \in Page : Stray(mem', q) => Stray(mem, q)
        /\ ~spoiled => NoOrphan(mem, mem')
        /\ \A r \in Dirs(mem) \ {work.pgdir} : mem'.entry[r] = mem.entry[r]
    BY <1>2, <1>3, <2>1, <2>3, PutLoses DEF Idle
  <2>5. SpacesCovered'
    <3>1. OtherDirs(mem, mem', work.pgdir)
      BY <2>4 DEF OtherDirs
    <3> QED BY <1>1, <1>2, <3>1, SpacesStay, WorkAlone DEF SpacesCovered
  <2>6. NothingLost'
    BY <1>1, <1>3, <2>4 DEF NothingLost, NoOrphan
  <2> QED BY <2>1, <2>5, <2>6 DEF LossInv
<1> QED BY <1>4, <1>5

\* do_execve() and do_exit() begin with an address space that is covered.
LEMMA LossExecExit ==
    ASSUME AreaInv, PageInv, MapInv, LossInv, NEW s \in Space, Exec(s) \/ Exit(s)
    PROVE  LossInv'
<1>1. /\ pc = "user" /\ mm[s] # NULL /\ mm' = [mm EXCEPT ![s] = NULL]
      /\ work' = mm[s] /\ mem' = mem /\ pc' = "unmap" /\ call'.i = 1
  BY DEF Exec, Exit, NoCall
<1>2. spoiled' = (spoiled \/ ~Tidy(mem, mm[s]))
  BY Zenon DEF Exec, Exit
<1>3. mm \in [Space -> mm_struct \cup {NULL}]
  BY <1>1, Before DEF Spaces
<1>4. PICK sp : sp = mm[s]
  OBVIOUS
<1>5. IsSpace(sp) /\ Within(mem, sp) /\ Covered(mem, sp, Areas(sp))
  BY <1>1, <1>4, Before DEF MapInv, SpacesFit, Fits, LossInv, SpacesCovered
<1>6. SpacesCovered'
  <2>1. \A r \in Space : mm'[r] = NULL \/ mm'[r] = mm[r]
    BY <1>1, <1>3
  <2> QED BY <1>1, <2>1 DEF LossInv, SpacesCovered
<1>7. NoneLost(mem, mem)
  BY SameLoses
<1>8. pc # "boot" /\ work' = sp /\ spoiled' = (spoiled \/ ~Tidy(mem, sp))
  BY <1>1, <1>2, <1>4
<1> QED BY <1>1, <1>5, <1>6, <1>7, <1>8, LossBegins

\* A new address space has no table.
LEMMA LossNew ==
    ASSUME AreaInv, PageInv, LossInv, pc \in {"load", "user"}, mm' = mm, Free(mem) # {},
           mem' = setup_pgdir(mem), work' = mm_create(mem)
    PROVE  NoneLost(mem, mem') /\ SpacesCovered' /\ Covered(mem', work', Areas(work'))
<1>1. PICK p \in Page : p = alloc_page(mem) /\ mem.use[p] = "free"
  BY AllocPage DEF Free
<1>2. Good(mem)
  BY Trees
<1>3. /\ NoneLost(mem, mem') /\ mem'.entry[p] = NoEntries
      /\ \A r \in Dirs(mem) : mem'.entry[r] = mem.entry[r]
  BY <1>1, <1>2, NewDirLoses
<1>4. Covered(mem', work', Areas(work'))
  BY <1>1, <1>3, CoveredEmpty DEF mm_create
<1>5. OtherDirs(mem, mem', p)
  BY <1>3 DEF OtherDirs
<1>6. \A s \in Space : mm[s] # NULL => mm[s].pgdir # p
  BY <1>1, Trees DEF Dirs
<1>7. SpacesCovered'
  BY <1>5, <1>6, SpacesStay DEF SpacesCovered
<1> QED BY <1>3, <1>4, <1>7

\* A step that changes no page, and leaves the address spaces as they are.
LEMMA LossStays ==
    ASSUME AreaInv, PageInv, LossInv, pc # "boot", mem'.use = mem.use, mem'.entry = mem.entry,
           spoiled' = spoiled, mm' = mm, work' = NULL \/ (work' = work /\ pc # "exit_range"),
           pc' \notin {"unmap", "exit_range"}
    PROVE  LossInv'
<1>1. NoneLost(mem, mem') /\ OtherDirs(mem, mem', NULL)
  BY SameLoses
<1>2. SpacesCovered'
  <2>1. \A s \in Space : mm[s] # NULL => mm[s].pgdir # NULL
    BY Trees, PageTableAssumption DEF Dirs, Page
  <2> QED BY <1>1, <2>1, SpacesStay DEF SpacesCovered
<1>3. work' # NULL => Covered(mem', work', Areas(work'))
  BY DEF LossInv, Covered
<1> QED BY <1>1, <1>2, <1>3, LossElse

\* load_icode() begins.
LEMMA LossLoad ==
    ASSUME AreaInv, PageInv, LossInv, Load
    PROVE  LossInv'
<1>1. pc = "load" /\ mm' = mm /\ spoiled' = spoiled
  BY DEF Load
<1>2. CASE /\ Free(mem) # {} /\ mem' = setup_pgdir(mem) /\ work' = mm_create(mem)
           /\ pc' = "segment"
  BY <1>1, <1>2, LossNew, LossElse
<1>3. CASE pc' = "user" /\ mem' = mem /\ work' = work
  BY <1>1, <1>3, LossStays
<1> QED BY <1>2, <1>3 DEF Load

\* copy_mm() begins.
LEMMA LossFork ==
    ASSUME AreaInv, PageInv, LossInv, NEW s \in Space, NEW t \in Space, Fork(s, t)
    PROVE  LossInv'
<1>1. /\ pc = "user" /\ mm' = mm /\ Free(mem) # {} /\ pc' = "dup" /\ spoiled' = spoiled
      /\ mem' = setup_pgdir(mem) /\ work' = mm_create(mem)
  BY DEF Fork
<1> QED BY <1>1, LossNew, LossElse

-----------------------------------------------------------------------------
\* An address space that is being built.
LEMMA LossBuilding ==
    ASSUME AreaInv, PageInv, MapInv, LossInv, pc \in Loading \cup Copying
    PROVE  /\ pc \notin {"boot", "unmap", "exit_range"} /\ IsSpace(work) /\ work # NULL
           /\ Good(mem) /\ work.pgdir \in Dirs(mem) /\ call \in CallType
           /\ Within(mem, work) /\ Covered(mem, work, Areas(work))
           /\ NoneLost(mem, mem) /\ OtherDirs(mem, mem, work.pgdir)
<1>1. pc \notin {"boot", "unmap", "exit_range"} /\ IsSpace(work) /\ work # NULL /\ call \in CallType
  BY Before, Constants DEF Building, IsSpace, Loading, Copying
<1>2. Good(mem) /\ work.pgdir \in Dirs(mem)
  BY <1>1, Trees
<1>3. Within(mem, work)
  BY DEF MapInv, FillingMap, CopyingMap, Fits, Loading, Copying
<1> QED BY <1>1, <1>2, <1>3, SameLoses DEF LossInv

\* A step that makes tables for a page of an area,
LEMMA LossPlaces ==
    ASSUME AreaInv, PageInv, MapInv, LossInv, pc \in Loading \cup Copying, mm' = mm, work' = work,
           spoiled' = spoiled, pc' \notin {"unmap", "exit_range"}, NoneLost(mem, mem'),
           NEW la \in UPage, NEW v \in Areas(work), Holds(v, la),
           NewDirEntry(mem, mem', work.pgdir, PDX1(la))
    PROVE  LossInv'
<1>1. /\ pc # "boot" /\ IsSpace(work) /\ work # NULL /\ work.pgdir \in Dirs(mem)
      /\ Covered(mem, work, Areas(work))
  BY LossBuilding
<1>2. v.vm_start \in Nat /\ v.vm_end \in Nat
  BY <1>1, SpaceFacts, Constants DEF Areas, vma_struct, InUserMemory
<1>3. Covered(mem', work, Areas(work))
  BY <1>1, <1>2, CoveredNew
<1>4. SpacesCovered'
  BY <1>1, NewDirOthers, SpacesStay, WorkAlone DEF SpacesCovered
<1> QED BY <1>1, <1>3, <1>4, LossElse

\* also one that fails then.
LEMMA LossFails ==
    ASSUME AreaInv, PageInv, MapInv, LossInv, pc \in Loading \cup Copying, mm' = mm,
           NEW m, NoneLost(mem, m), SameMap(mem, m),
           NEW la \in UPage, NEW v \in Areas(work), Holds(v, la),
           NewDirEntry(mem, m, work.pgdir, PDX1(la)), NEW then, Teardown(m, work, then)
    PROVE  LossInv'
<1>1. /\ pc # "boot" /\ IsSpace(work) /\ work # NULL /\ work.pgdir \in Dirs(mem)
      /\ Covered(mem, work, Areas(work)) /\ Within(mem, work)
  BY LossBuilding
<1>2. v.vm_start \in Nat /\ v.vm_end \in Nat
  BY <1>1, SpaceFacts, Constants DEF Areas, vma_struct, InUserMemory
<1>3. Covered(m, work, Areas(work))
  BY <1>1, <1>2, CoveredNew
<1>4. Within(m, work)
  BY <1>1 DEF Within, SameMap
<1> QED BY <1>1, <1>3, <1>4, NewDirOthers, LossTeardown

\* A step after which work has at least the areas it had.
LEMMA LossAreas ==
    ASSUME AreaInv, PageInv, MapInv, LossInv, pc \in Loading \cup Copying, mm' = mm, mem' = mem,
           spoiled' = spoiled, pc' \notin {"unmap", "exit_range"},
           work'.pgdir = work.pgdir, Areas(work) \subseteq Areas(work')
    PROVE  LossInv'
<1>1. /\ pc # "boot" /\ work # NULL /\ Covered(mem, work, Areas(work))
      /\ NoneLost(mem, mem) /\ OtherDirs(mem, mem, work.pgdir)
  BY LossBuilding
<1>2. Covered(mem', work', Areas(work'))
  BY <1>1, CoveredLess
<1>3. SpacesCovered'
  BY <1>1, SpacesStay, WorkAlone DEF SpacesCovered
<1> QED BY <1>1, <1>2, <1>3, LossElse

\* The header of a segment,
LEMMA LossLoadSegment ==
    ASSUME AreaInv, PageInv, MapInv, LossInv, LoadSegment
    PROVE  LossInv'
<1>1. pc = "segment" /\ pc \in Loading \cup Copying /\ call.i <= Len(Segments) /\ mm' = mm
  BY DEF LoadSegment, Loading
<1>2. /\ IsSpace(work) /\ work # NULL /\ call \in CallType /\ call.prog \in Programs
      /\ NoneLost(mem, mem) /\ OtherDirs(mem, mem, work.pgdir)
      /\ Within(mem, work) /\ Covered(mem, work, Areas(work))
  BY <1>1, Loaded, LossBuilding DEF Loading
<1>3. call.i \in 1 .. Len(Segments)
  <2>1. Segments \in Seq(Segment)
    BY <1>2, Constants DEF Segments
  <2>2. Len(Segments) \in Nat /\ call.i \in Nat /\ call.i > 0
    BY <2>1, <1>1, <1>2, LenProperties, Before DEF CallType, Calling
  <2> QED BY <2>2, <1>1
<1>4. /\ ph.va \in Nat /\ ph.filesz \in Nat /\ ph.memsz \in Nat /\ ph.flags \in SUBSET VmFlags
      /\ ph.filesz <= ph.memsz => ph.va + ph.memsz + PGSIZE <= WordSize
  BY <1>2, <1>3, CurrentSegment
<1>5. CASE Teardown(mem, work, "load_failed")
  BY <1>1, <1>2, <1>5, LossTeardown
<1>6. CASE ~(ph.filesz > ph.memsz)
  <2>1. PICK memory \in BOOLEAN :
           LET r == mm_map(work, ph.va, ph.memsz, ph.flags, memory)
           IN  CASE r.ret = "ok" ->
                       /\ work' = r.mm /\ pc' = "file"
                       /\ call' = [call EXCEPT !.start = ph.va,
                                               !.la = ROUNDDOWN(ph.va, PGSIZE)]
                       /\ UNCHANGED <<mem, spoiled>>
                 [] r.ret = "panic" -> pc' = "panic" /\ UNCHANGED <<mem, work, call, spoiled>>
                 [] OTHER -> Teardown(mem, r.mm, "load_failed")
    BY <1>6 DEF LoadSegment
  <2>2. PICK r : r = mm_map(work, ph.va, ph.memsz, ph.flags, memory)
    OBVIOUS
  <2>3. CASE r.ret = "ok"
    <3>1. work' = r.mm /\ pc' = "file" /\ mem' = mem /\ spoiled' = spoiled
      BY <2>1, <2>2, <2>3
    <3>2. PICK v : v = vma_create(ROUNDDOWN(ph.va, PGSIZE),
                                  ROUNDUP(ph.va + ph.memsz, PGSIZE), ph.flags)
      OBVIOUS
    <3>3. Areas(r.mm) = Areas(work) \cup {v} /\ r.mm.pgdir = work.pgdir
      <4>1. ph.va + ph.memsz + PGSIZE <= WordSize
        BY <1>4, <1>6
      <4> QED BY <1>2, <1>4, <2>2, <2>3, <3>2, <4>1, MmMapAreas
    <3> QED BY <1>1, <3>1, <3>3, LossAreas
  <2>4. CASE r.ret = "panic"
    <3>1. pc' = "panic" /\ mem' = mem /\ work' = work /\ spoiled' = spoiled
      BY <2>1, <2>2, <2>3, <2>4
    <3> QED BY <1>1, <3>1, LossAreas
  <2>5. CASE r.ret # "ok" /\ r.ret # "panic"
    <3>1. Teardown(mem, r.mm, "load_failed")
      BY <2>1, <2>2, <2>5
    <3>2. Areas(r.mm) = Areas(work) /\ r.mm.pgdir = work.pgdir /\ IsSpace(r.mm)
      BY <1>2, <1>4, <2>2, <2>5, MmMapFails
    <3>3. Within(mem, r.mm) /\ Covered(mem, r.mm, Areas(r.mm))
      BY <1>2, <3>2 DEF Within, Covered
    <3> QED BY <1>1, <1>2, <3>1, <3>2, <3>3, LossTeardown
  <2> QED BY <2>3, <2>4, <2>5
<1> QED BY <1>5, <1>6 DEF LoadSegment

\* a file that is none,
LEMMA LossLoadBadMagic ==
    ASSUME AreaInv, PageInv, MapInv, LossInv, LoadBadMagic
    PROVE  LossInv'
<1>1. pc \in Loading \cup Copying /\ mm' = mm /\ Teardown(mem, work, "load_failed")
  BY DEF LoadBadMagic, Loading
<1> QED BY <1>1, LossBuilding, LossTeardown

\* and one page of a segment.
LEMMA LossLoadPage ==
    ASSUME AreaInv, PageInv, MapInv, LossInv, pc \in {"file", "bss"}, mm' = mm,
           NEW file \in BOOLEAN,
           NEW end, end = ph.va + (IF pc = "file" THEN ph.filesz ELSE ph.memsz),
           call.start < end, LoadPage(end, file)
    PROVE  LossInv'
<1>1. /\ work.pgdir \in Dirs(mem) /\ Good(mem) /\ Filling /\ pc \in Loading \cup Copying
      /\ ph.va \in Nat /\ ph.filesz \in Nat /\ ph.memsz \in Nat
      /\ call.la \in Int /\ call.start \in Int
  BY Filler DEF Loading
<1>2. /\ end \in Nat /\ end <= UserTop /\ call.la \in Nat /\ call.la < UserTop
      /\ call.la <= call.start /\ end <= ph.va + ph.memsz
  <2>1. PICK va \in Nat, f \in Nat, l \in Nat : va = ph.va /\ f = ph.filesz /\ l = ph.memsz
    BY <1>1
  <2>2. /\ f <= l /\ va + l <= UserTop /\ end = va + (IF pc = "file" THEN f ELSE l)
        /\ call.la \in Nat /\ call.la <= call.start
    BY <1>1, <2>1 DEF Filling
  <2>3. end \in Nat /\ end <= va + l
    BY <2>1, <2>2
  <2>4. end <= UserTop
    BY <2>1, <2>2, <2>3, Constants
  <2>5. call.la < end
    BY <1>1, <2>2, <2>3
  <2> QED BY <2>1, <2>2, <2>3, <2>4, <2>5, Constants
<1>3. /\ FillingMap /\ PhArea \in Areas(work)
      /\ PhArea.vm_start \in Nat /\ PhArea.vm_end \in Nat
      /\ ph.va + ph.memsz <= PhArea.vm_end
  BY FillingArea
<1>4. PICK la \in UPage : la = call.la
  <2>1. call.la % PGSIZE = 0
    BY <1>3 DEF FillingMap
  <2> QED BY <1>2, <2>1, Constants DEF UPage, PagesOf
<1>5. Holds(PhArea, la)
  <2>1. PhArea.vm_start <= call.la
    BY <1>3 DEF FillingMap
  <2> QED BY <1>1, <1>2, <1>3, <1>4, <2>1 DEF Holds
<1>6. PICK bits \in Perm : bits = perm(ph.flags)
  BY AreaPerm
<1>7. PICK r : r = pgdir_alloc_page(mem, work.pgdir, la, bits)
  OBVIOUS
<1>8. /\ NoneLost(mem, r.mem) /\ NewDirEntry(mem, r.mem, work.pgdir, PDX1(la))
      /\ r.page = NULL => SameMap(mem, r.mem)
  BY <1>1, <1>6, <1>7, NewPageLoses, NewPageMap
<1>9. CASE r.page = NULL
  <2>1. Teardown(r.mem, work, "load_failed")
    BY <1>4, <1>6, <1>7, <1>9 DEF LoadPage
  <2> QED BY <1>1, <1>3, <1>5, <1>8, <1>9, <2>1, LossFails
<1>10. CASE r.page # NULL
  <2> DEFINE next == call.la + PGSIZE
             size == IF end < next THEN end - call.start ELSE next - call.start
  <2>1. /\ work' = work /\ pc' = pc /\ spoiled' = spoiled
        /\ mem' = Filled(r.mem, r.page, call.la, call.start, size, file)
    BY <1>4, <1>6, <1>7, <1>10 DEF LoadPage
  <2> HIDE DEF size, next
  <2>2. Good(r.mem)
    BY <1>1, <1>2, <1>4, <1>7, NewPage DEF Keeps
  <2>3. mem'.use = r.mem.use /\ mem'.entry = r.mem.entry
    BY <2>1, <2>2 DEF Filled, Good, Memory
  <2>4. NoneLost(mem, mem')
    BY <1>8, <2>3, SameLoses, LosesTwice
  <2>5. NewDirEntry(mem, mem', work.pgdir, PDX1(la))
    BY <1>8, <2>3 DEF NewDirEntry
  <2> QED BY <1>1, <1>3, <1>5, <2>1, <2>4, <2>5, LossPlaces
<1> QED BY <1>9, <1>10

\* The pages with bytes of the file,
LEMMA LossLoadFile ==
    ASSUME AreaInv, PageInv, MapInv, LossInv, LoadFile
    PROVE  LossInv'
<1>1. /\ pc = "file" /\ mm' = mm /\ call.start < ph.va + ph.filesz
      /\ LoadPage(ph.va + ph.filesz, TRUE)
  BY Filler DEF LoadFile
<1>2. PICK file \in BOOLEAN : file = TRUE
  OBVIOUS
<1>3. LoadPage(ph.va + ph.filesz, file)
  BY <1>1, <1>2, Zenon
<1> QED BY <1>1, <1>3, LossLoadPage

\* those without,
LEMMA LossLoadBss ==
    ASSUME AreaInv, PageInv, MapInv, LossInv, LoadBss
    PROVE  LossInv'
<1>1. pc = "bss" /\ mm' = mm /\ pc \in Loading \cup Copying
  BY DEF LoadBss, Loading
<1>2. CASE call.start < ph.va + ph.memsz
  <2>1. LoadPage(ph.va + ph.memsz, FALSE)
    BY <1>1, <1>2, Filler DEF LoadBss
  <2>2. PICK file \in BOOLEAN : file = FALSE
    OBVIOUS
  <2>3. LoadPage(ph.va + ph.memsz, file)
    BY <2>1, <2>2, Zenon
  <2> QED BY <1>1, <1>2, <2>3, LossLoadPage
<1>3. CASE ~(call.start < ph.va + ph.memsz)
  <2>1. pc' = "segment" /\ mem' = mem /\ work' = work /\ spoiled' = spoiled
    BY <1>1, <1>3, Filler DEF LoadBss, NextSegment
  <2> QED BY <1>1, <2>1, LossAreas
<1> QED BY <1>2, <1>3

\* and the rest of the last page with some.
LEMMA LossLoadEdge ==
    ASSUME AreaInv, PageInv, MapInv, LossInv, LoadEdge
    PROVE  LossInv'
<1>1. /\ pc = "file" /\ mm' = mm /\ work' = work /\ spoiled' = spoiled
      /\ pc' \in {"bss", "segment", "panic"} /\ pc \in Loading \cup Copying
  BY DEF LoadEdge, NextSegment, Loading
<1>2. Good(mem) /\ pc # "boot"
  BY <1>1, LossBuilding
<1>3. mem'.use = mem.use /\ mem'.entry = mem.entry
  <2>1. CASE mem' = mem
    BY <2>1
  <2>2. CASE mem' # mem
    <3>1. PICK size : mem' = Filled(mem, call.page, call.la - PGSIZE, call.start, size, FALSE)
      BY <2>2 DEF LoadEdge, NextSegment
    <3> QED BY <1>2, <3>1 DEF Filled, Good, Memory
  <2> QED BY <2>1, <2>2
<1> QED BY <1>1, <1>2, <1>3, LossStays

\* The area of the stack,
LEMMA LossLoadStack ==
    ASSUME AreaInv, PageInv, MapInv, LossInv, LoadStack
    PROVE  LossInv'
<1> DEFINE flags == {"READ", "WRITE", "STACK"}
<1>1. pc = "segment" /\ pc \in Loading \cup Copying /\ mm' = mm
  BY DEF LoadStack, Loading
<1>2. /\ IsSpace(work) /\ work # NULL
      /\ NoneLost(mem, mem) /\ OtherDirs(mem, mem, work.pgdir)
      /\ Within(mem, work) /\ Covered(mem, work, Areas(work))
  BY <1>1, LossBuilding
<1>3. PICK memory \in BOOLEAN :
         LET r == mm_map(work, UserTop - StackSize, StackSize, flags, memory)
         IN  IF r.ret = "ok"
             THEN /\ work' = r.mm /\ pc' = "stack" /\ call' = [call EXCEPT !.i = 1]
                  /\ UNCHANGED <<mem, spoiled>>
             ELSE IF r.ret = "panic"
             THEN pc' = "panic" /\ UNCHANGED <<mem, work, call, spoiled>>
             ELSE Teardown(mem, r.mm, "load_failed")
  BY DEF LoadStack
<1>4. PICK r : r = mm_map(work, UserTop - StackSize, StackSize, flags, memory)
  OBVIOUS
<1>5. PICK addr \in Nat, len \in Nat : /\ addr = UserTop - StackSize /\ len = StackSize
                                       /\ addr + len + PGSIZE <= WordSize
  BY Constants, Words
<1>6. flags \in SUBSET VmFlags
  BY DEF VmFlags
<1>7. CASE r.ret = "ok"
  <2>1. work' = r.mm /\ pc' = "stack" /\ mem' = mem /\ spoiled' = spoiled
    BY <1>3, <1>4, <1>7
  <2>2. PICK v : v = vma_create(ROUNDDOWN(addr, PGSIZE), ROUNDUP(addr + len, PGSIZE), flags)
    OBVIOUS
  <2>3. Areas(r.mm) = Areas(work) \cup {v} /\ r.mm.pgdir = work.pgdir
    BY <1>2, <1>4, <1>5, <1>6, <1>7, <2>2, MmMapAreas
  <2> QED BY <1>1, <2>1, <2>3, LossAreas
<1>8. CASE r.ret = "panic"
  <2>1. pc' = "panic" /\ mem' = mem /\ work' = work /\ spoiled' = spoiled
    BY <1>3, <1>4, <1>8
  <2> QED BY <1>1, <2>1, LossAreas
<1>9. CASE r.ret # "ok" /\ r.ret # "panic"
  <2>1. Teardown(mem, r.mm, "load_failed")
    BY <1>3, <1>4, <1>9
  <2>2. Areas(r.mm) = Areas(work) /\ r.mm.pgdir = work.pgdir /\ IsSpace(r.mm)
    BY <1>2, <1>4, <1>5, <1>6, <1>9, MmMapFails
  <2>3. Within(mem, r.mm) /\ Covered(mem, r.mm, Areas(r.mm))
    BY <1>2, <2>2 DEF Within, Covered
  <2> QED BY <1>1, <1>2, <2>1, <2>2, <2>3, LossTeardown
<1> QED BY <1>7, <1>8, <1>9

\* The new address space becomes the one of the process.
LEMMA LossDone ==
    ASSUME AreaInv, PageInv, MapInv, LossInv, LoadDone \/ ForkDone
    PROVE  LossInv'
<1>1. /\ pc \in {"stack", "dup"} /\ mm' = [mm EXCEPT ![call.proc] = work]
      /\ pc' = "user" /\ mem' = mem /\ work' = NULL /\ spoiled' = spoiled
  BY DEF LoadDone, ForkDone
<1>2. mm \in [Space -> mm_struct \cup {NULL}]
  BY <1>1, Before DEF Spaces
<1>3. \A s \in Space : mm'[s] = work \/ mm'[s] = mm[s]
  BY <1>1, <1>2
<1>4. pc # "boot" /\ Covered(mem, work, Areas(work)) /\ NoneLost(mem, mem)
  BY <1>1, LossBuilding DEF Loading, Copying
<1>5. SpacesCovered'
  BY <1>1, <1>3, <1>4 DEF LossInv, SpacesCovered
<1> QED BY <1>1, <1>4, <1>5, LossElse

-----------------------------------------------------------------------------
\* One area is copied,
LEMMA LossDupArea ==
    ASSUME AreaInv, PageInv, MapInv, LossInv, DupArea
    PROVE  LossInv'
<1>1. pc = "dup" /\ call.i > 0 /\ mm' = mm /\ pc \in Loading \cup Copying
  BY DEF DupArea, Copying
<1>2. IsSpace(work) /\ SrcArea \in vma_struct /\ InUserMemory(SrcArea)
  BY <1>1, Copied DEF Copying
<1>3. PICK r : r = insert_vma_struct(work, SrcArea)
  OBVIOUS
<1>4. \/ Teardown(mem, work, "fork_failed")
      \/ pc' = "panic" /\ mem' = mem /\ work' = work /\ spoiled' = spoiled
      \/ r.ok /\ work' = r.mm /\ pc' = "copy" /\ mem' = mem /\ spoiled' = spoiled
  BY <1>3 DEF DupArea
<1>5. CASE Teardown(mem, work, "fork_failed")
  BY <1>1, <1>5, LossBuilding, LossTeardown
<1>6. CASE pc' = "panic" /\ mem' = mem /\ work' = work /\ spoiled' = spoiled
  BY <1>1, <1>6, LossAreas
<1>7. CASE r.ok /\ work' = r.mm /\ pc' = "copy" /\ mem' = mem /\ spoiled' = spoiled
  <2>1. Areas(r.mm) = Areas(work) \cup {SrcArea} /\ r.mm.pgdir = work.pgdir
    BY <1>2, <1>3, <1>7, InsertAreas
  <2> QED BY <1>1, <1>7, <2>1, LossAreas
<1> QED BY <1>4, <1>5, <1>6, <1>7

\* A page of the stack is mapped.
LEMMA LossLoadStackPage ==
    ASSUME AreaInv, PageInv, MapInv, LossInv, LoadStackPage
    PROVE  LossInv'
<1>1. pc = "stack" /\ mm' = mm /\ work' = work /\ spoiled' = spoiled
  BY DEF LoadStackPage
<1>2. pc \in Loading \cup Copying /\ StackArea \in Areas(work)
  BY <1>1 DEF Loading, MapInv
<1>3. Good(mem) /\ work.pgdir \in Dirs(mem)
  BY <1>2, LossBuilding
<1>4. PICK la \in UPage : la = UserTop - call.i * PGSIZE /\ Holds(StackArea, la)
  BY StackPage
<1>5. PICK bits \in Perm : bits = PTE_USER
  BY DEF Perm, PTE_USER
<1>6. PICK r : r = pgdir_alloc_page(mem, work.pgdir, la, bits)
  OBVIOUS
<1>7. NoneLost(mem, r.mem) /\ NewDirEntry(mem, r.mem, work.pgdir, PDX1(la))
  BY <1>3, <1>5, <1>6, NewPageLoses
<1>8. mem' = r.mem /\ pc' \in {"stack", "panic"}
  BY <1>1, <1>4, <1>5, <1>6 DEF LoadStackPage
<1> QED BY <1>1, <1>2, <1>4, <1>7, <1>8, LossPlaces

\* copy_range(), one round.
LEMMA LossCopyRange ==
    ASSUME AreaInv, PageInv, MapInv, LossInv, CopyRange
    PROVE  LossInv'
<1> DEFINE la == call.la
           from == mm[call.src].pgdir
           g == get_pte(mem, work.pgdir, la, TRUE)
<1>1. /\ pc = "copy" /\ mm' = mm
      /\ \/ /\ mem' = mem /\ work' = work /\ spoiled' = spoiled
            /\ pc' \in {"copy", "dup"}
         \/ g.table = NULL /\ Teardown(g.mem, work, "fork_failed")
         \/ mem' = g.mem /\ pc' = "panic" /\ work' = work /\ spoiled' = spoiled
         \/ /\ pte(mem, from, la) # NULL /\ g.table # NULL /\ Free(g.mem) # {}
            /\ mem' = CopiedPage(g.mem, pte(mem, from, la), la)
            /\ work' = work /\ spoiled' = spoiled /\ pc' \in {"copy", "dup"}
  BY DEF CopyRange
<1>2. /\ pc \in Loading \cup Copying /\ work.pgdir \in Dirs(mem) /\ from \in Dirs(mem)
      /\ Good(mem) /\ la \in UPage /\ Holds(SrcArea, la) /\ SrcArea \in Areas(work)
  BY <1>1, CopyingArea DEF CopyingMap, Copying
<1>3. la \in Nat /\ la < UserTop
  BY <1>2, UPageFacts
<1>4. PICK r : /\ r = g /\ Grown(mem, r.mem)
               /\ r.table # NULL => Leads(r.mem, work.pgdir, la, r.table)
               /\ NewDirEntry(mem, r.mem, work.pgdir, PDX1(la))
  <2>1. PICK create \in BOOLEAN : create = TRUE
    OBVIOUS
  <2>2. PICK r : r = get_pte(mem, work.pgdir, la, create)
    OBVIOUS
  <2>3. /\ Grown(mem, r.mem)
        /\ r.table # NULL => Leads(r.mem, work.pgdir, la, r.table)
        /\ NewDirEntry(mem, r.mem, work.pgdir, PDX1(la))
    BY <1>2, <1>3, <2>2, GetPteGrows
  <2>4. r = g
    BY <2>1, <2>2, Zenon
  <2> HIDE DEF g
  <2> QED BY <2>3, <2>4
<1>5. NoneLost(mem, r.mem) /\ SameMap(mem, r.mem)
  BY <1>2, <1>4, GrownLoses, GrownMap
<1> HIDE DEF la, from, g
<1>6. CASE /\ mem' = mem /\ work' = work /\ spoiled' = spoiled /\ pc' \in {"copy", "dup"}
  BY <1>1, <1>2, <1>6, LossAreas
<1>7. CASE Teardown(g.mem, work, "fork_failed")
  BY <1>1, <1>2, <1>4, <1>5, <1>7, LossFails
<1>8. CASE mem' = g.mem /\ pc' = "panic" /\ work' = work /\ spoiled' = spoiled
  BY <1>1, <1>2, <1>4, <1>5, <1>8, LossPlaces
<1>9. CASE /\ pte(mem, from, la) # NULL /\ g.table # NULL /\ Free(g.mem) # {}
           /\ mem' = CopiedPage(g.mem, pte(mem, from, la), la)
           /\ work' = work /\ spoiled' = spoiled /\ pc' \in {"copy", "dup"}
  <2>1. PICK old : old = pte(mem, from, la)
    OBVIOUS
  <2>2. PICK q \in Page, bits \in Perm : q = old.page /\ bits = old.perm
    BY <1>2, <1>3, <1>9, <2>1, PteEntry
  <2>3. PICK m : m = r.mem
    OBVIOUS
  <2>4. /\ Good(m) /\ Free(m) # {} /\ work.pgdir \in Dirs(m) /\ Dirs(m) = Dirs(mem)
        /\ Leads(m, work.pgdir, la, r.table)
    BY <1>2, <1>4, <1>9, <2>3 DEF Grown, Keeps
  <2>5. PICK p \in Page : p = alloc_page(m)
    BY <2>4, AllocPage
  <2>6. mem' = CopiedPage(m, old, la)
    BY <1>4, <1>9, <2>1, <2>3
  <2>7. mem' = page_insert([Used(m, p, "user") EXCEPT !.data[p] = m.data[q]],
                           work.pgdir, p, la, bits).mem
    BY <2>2, <2>5, <2>6, Zenon DEF CopiedPage
  <2>8. NoneLost(m, mem') /\ NewDirEntry(m, mem', work.pgdir, PDX1(la))
    BY <1>2, <2>4, <2>5, <2>7, CopyLoses
  <2>9. NoneLost(mem, mem')
    BY <1>5, <2>3, <2>8, LosesTwice
  <2>10. NewDirEntry(mem, mem', work.pgdir, PDX1(la))
    BY <1>4, <2>3, <2>4, <2>8, DirEntryTwice
  <2> QED BY <1>1, <1>2, <1>9, <2>9, <2>10, LossPlaces
<1> QED BY <1>1, <1>6, <1>7, <1>8, <1>9

-----------------------------------------------------------------------------
\* user_mem_check() changes neither areas nor tables,
LEMMA LossCheckRound ==
    ASSUME AreaInv, PageInv, LossInv, MemCheckRound
    PROVE  LossInv'
<1>1. /\ pc = "check" /\ mem' = mem /\ pc' \in {"check", "yes", "no"}
      /\ work' = work /\ spoiled' = spoiled
      /\ \/ mm' = mm
         \/ mm' = [mm EXCEPT ![call.proc] = found(mm[call.proc], call.start)]
  BY DEF MemCheckRound
<1>2. PICK s \in Space : s = call.proc
  BY <1>1, Before DEF Calling, InCall
<1>3. /\ mm \in [Space -> mm_struct \cup {NULL}] /\ mm[s] # NULL /\ IsSpace(mm[s])
      /\ mm[s] \in mm_struct /\ call.start \in Int
  BY <1>1, <1>2, Before DEF AreaInv, Spaces, MemChecking, Checking, IsSpace, CallType
<1>4. PICK v : /\ v = found(mm[s], call.start) /\ v.pgdir = mm[s].pgdir
               /\ Areas(v) = Areas(mm[s])
  <2>1. found(mm[s], call.start).mmap_list = mm[s].mmap_list
    BY <1>3, Found
  <2> QED BY <1>3, <2>1, SamePgdir DEF Areas
<1>5. Covered(mem, v, Areas(v))
  <2>1. PICK q : q = mm[s]
    OBVIOUS
  <2>2. Covered(mem, q, Areas(q))
    BY <1>1, <1>3, <2>1 DEF LossInv, SpacesCovered
  <2> QED BY <1>4, <2>1, <2>2 DEF Covered
<1>6. \A x \in Space : mm'[x] = mm[x] \/ mm'[x] = v
  BY <1>1, <1>2, <1>3, <1>4
<1>7. SpacesCovered'
  BY <1>1, <1>5, <1>6 DEF LossInv, SpacesCovered
<1>8. NoneLost(mem, mem') /\ (work' # NULL => Covered(mem', work', Areas(work')))
  BY <1>1, SameLoses DEF LossInv
<1> QED BY <1>1, <1>7, <1>8, LossElse

\* nor does a step that looks at them,
LEMMA LossLook ==
    ASSUME AreaInv, PageInv, LossInv,
           \/ UserMain \/ MemCheckReturn
           \/ \E s \in Space, c \in Checks, write \in BOOLEAN : MemCheck(s, c[1], c[2], write)
    PROVE  LossInv'
<1>1. /\ pc \notin {"boot", "exit_range"} /\ mem' = mem /\ mm' = mm /\ work' = work
      /\ spoiled' = spoiled /\ pc' \in {"load", "user", "check", "no"}
  BY DEF UserMain, MemCheckReturn, MemCheck
<1> QED BY <1>1, LossStays

\* or a store.
LEMMA LossStore ==
    ASSUME AreaInv, PageInv, LossInv, NEW s \in Space, NEW a \in StoreAddr, Store(s, a)
    PROVE  LossInv'
<1>1. pc = "user" /\ mm' = mm /\ work' = work /\ spoiled' = spoiled /\ pc' = pc
  BY DEF Store
<1>2. PICK d : mem' = [mem EXCEPT !.data = d]
  BY DEF Store
<1>3. mem'.entry = mem.entry /\ mem'.use = mem.use
  BY <1>1, <1>2, Trees DEF Good, Memory
<1> QED BY <1>1, <1>3, LossStays

\* Nothing happens.
LEMMA LossStutter ==
    ASSUME LossInv, UNCHANGED vars
    PROVE  LossInv'
<1>1. /\ mem' = mem /\ mm' = mm /\ work' = work /\ pc' = pc /\ spoiled' = spoiled
      /\ Rest' = Rest
  BY DEF vars, Rest
<1>2. /\ NothingLost => NothingLost'
      /\ SpacesCovered => SpacesCovered'
      /\ Unmapping => Unmapping'
      /\ Exiting => Exiting'
  BY <1>1 DEF NothingLost, SpacesCovered, Unmapping, Exiting
<1> QED BY <1>1, <1>2 DEF LossInv

\* A step of a call.
LEMMA LossRun ==
    ASSUME AreaInv, PageInv, MapInv, LossInv, Run
    PROVE  LossInv'
BY LossUnmap, LossExitRange, LossLoad, LossLoadSegment, LossLoadBadMagic, LossLoadFile,
   LossLoadEdge, LossLoadBss, LossLoadStack, LossLoadStackPage, LossDone, LossDupArea,
   LossCopyRange, LossCheckRound, LossLook
DEF Run

\* No page of user memory and no page directory is ever lost by load_icode(),
\* copy_mm(), exit_mmap() and put_pgdir(), whether they succeed or fail, and no
\* table while every address space that was torn down was tidy: what an address
\* space that is being built, used or torn down still has is in its tables, and
\* the areas that exit_mmap() has not come to cover it.
THEOREM LossInvariant == IdealSpec => []LossInv
<1>1. Init => LossInv
  BY DEF Init, LossInv
<1>2. AreaInv /\ PageInv /\ MapInv /\ LossInv /\ [Next]_vars => LossInv'
  <2> SUFFICES ASSUME AreaInv, PageInv, MapInv, LossInv, [Next]_vars PROVE LossInv'
    OBVIOUS
  <2>1. CASE Boot
    BY <2>1, LossBoot
  <2>2. CASE Run
    BY <2>2, LossRun
  <2>3. CASE Begin
    <3>1. CASE UserMain
      BY <3>1, LossLook
    <3>2. ASSUME NEW s \in Space, Exit(s) \/ Exec(s) PROVE LossInv'
      BY <3>2, LossExecExit
    <3>3. ASSUME NEW s \in Space, NEW t \in Space, Fork(s, t) PROVE LossInv'
      BY <3>3, LossFork
    <3>4. ASSUME NEW s \in Space, NEW a \in StoreAddr, Store(s, a) PROVE LossInv'
      BY <3>4, LossStore
    <3>5. ASSUME NEW s \in Space, NEW c \in Checks, NEW write \in BOOLEAN,
                 MemCheck(s, c[1], c[2], write)
          PROVE  LossInv'
      BY <3>5, LossLook
    <3> QED BY <2>3, <3>1, <3>2, <3>3, <3>4, <3>5 DEF Begin
  <2>4. CASE Stopped
    BY <2>4, LossStutter DEF Stopped
  <2>5. CASE UNCHANGED vars
    BY <2>5, LossStutter
  <2> QED BY <2>1, <2>2, <2>3, <2>4, <2>5 DEF Next
<1> QED BY <1>1, <1>2, AreaInvariant, PageInvariant, MapInvariant, PTL DEF IdealSpec

-----------------------------------------------------------------------------
\* What a table refers to is a table of the same page directory,
LEMMA TablesBelow ==
    ASSUME NEW root \in Dirs(mem), NEW d, NEW i \in Index,
           IsSlot(mem, root, i), Aim(mem, root, i) = d
    PROVE  /\ root \in Tables(root) /\ d \in Tables(root)
           /\ \A j \in Index : IsSlot(mem, d, j) => Aim(mem, d, j) \in Tables(root)
<1> DEFINE pd0s == {e.page : e \in {mem.entry[root][k] : k \in Index} \ {NULL}}
           pts == {e.page : e \in {mem.entry[c][k] : c \in pd0s, k \in Index} \ {NULL}}
<1>1. Tables(root) = {root} \cup pd0s \cup pts
  BY DEF Tables
<1>2. d \in pd0s
  BY DEF IsSlot, Aim
<1>3. ASSUME NEW j \in Index, IsSlot(mem, d, j) PROVE Aim(mem, d, j) \in pts
  <2> HIDE DEF pd0s
  <2> QED BY <1>2, <1>3 DEF IsSlot, Aim
<1> HIDE DEF pd0s, pts
<1> QED BY <1>1, <1>2, <1>3

\* and is not lost.
LEMMA OwnedBelow ==
    ASSUME NEW root \in Roots, NEW t \in Tables(root), NEW i \in Index, IsSlot(mem, t, i)
    PROVE  Aim(mem, t, i) \in Owned
<1>1. PICK s : s = <<t, i>>
  OBVIOUS
<1>2. s \in Slots(root) /\ Target(s) = Aim(mem, t, i)
  BY <1>1 DEF Slots, IsSlot, Target, Aim
<1>3. s \in AllSlots
  BY <1>2 DEF AllSlots
<1> QED BY <1>2, <1>3 DEF Owned

\* A page that is not lost: a page directory, one of user memory that is mapped,
LEMMA OwnedPages ==
    ASSUME PageInv, pc # "boot", NEW p \in Page
    PROVE  /\ mem.use[p] = "pgdir" => p \in Owned
           /\ Reached(mem, p) => p \in Owned
           /\ mem.use[p] = "pd0" /\ Parent(mem, p) => p \in Owned
<1>1. Good(mem) /\ Roots = Dirs(mem)
  BY Trees DEF Rooted, Roots, RootsOf
<1>2. ASSUME mem.use[p] = "pgdir" PROVE p \in Owned
  BY <1>1, <1>2 DEF Owned, Dirs
<1>3. ASSUME Reached(mem, p) PROVE p \in Owned
  <2>1. PICK r \in Dirs(mem), a \in UPage : pte(mem, r, a) # NULL /\ pte(mem, r, a).page = p
    BY <1>3 DEF Reached
  <2>2. PICK t \in Page : Leads(mem, r, a, t) /\ IsSlot(mem, t, PTX(a))
    BY <1>1, <2>1, MappedLeads
  <2>3. PICK i \in Index, j \in Index, k \in Index : i = PDX1(a) /\ j = PDX0(a) /\ k = PTX(a)
    BY UPageFacts
  <2>4. PICK d \in Page : /\ IsSlot(mem, r, i) /\ Aim(mem, r, i) = d
                          /\ IsSlot(mem, d, j) /\ Aim(mem, d, j) = t
    BY <2>2, <2>3 DEF Leads
  <2>5. t \in Tables(r)
    BY <2>4, TablesBelow
  <2>6. Aim(mem, t, k) = p
    <3>1. pte(mem, r, a) = mem.entry[t][k]
      BY <1>1, <2>2, <2>3, LeadsFacts
    <3> QED BY <2>1, <3>1 DEF Aim
  <2>7. IsSlot(mem, t, k) /\ r \in Roots
    BY <1>1, <2>2, <2>3
  <2> QED BY <2>5, <2>6, <2>7, OwnedBelow
<1>4. ASSUME mem.use[p] = "pd0", Parent(mem, p) PROVE p \in Owned
  <2>1. PICK t \in Page, i \in Index : IsSlot(mem, t, i) /\ Aim(mem, t, i) = p
    BY <1>4 DEF Parent
  <2>2. mem.use[t] = "pgdir"
    BY <1>1, <1>4, <2>1, SlotFacts DEF Child, IsSlot, Table
  <2>3. t \in Dirs(mem) /\ t \in Roots
    BY <1>1, <2>2 DEF Dirs
  <2>4. t \in Tables(t)
    BY <2>1, <2>3, TablesBelow
  <2> QED BY <2>1, <2>3, <2>4, OwnedBelow
<1> QED BY <1>2, <1>3, <1>4

\* or a page table, if no table is without an entry.
LEMMA OwnedTable ==
    ASSUME PageInv, pc # "boot", NEW p \in Page, mem.use[p] = "pt",
           \A q \in Page : ~Orphan(mem, q)
    PROVE  p \in Owned
<1>1. Good(mem) /\ Roots = Dirs(mem)
  BY Trees DEF Rooted, Roots, RootsOf
<1>2. PICK d \in Page, j \in Index : IsSlot(mem, d, j) /\ Aim(mem, d, j) = p
  BY DEF Orphan, Parent
<1>3. mem.use[d] = "pd0"
  BY <1>1, <1>2, SlotFacts DEF Child, IsSlot, Table
<1>4. PICK r \in Page, i \in Index : IsSlot(mem, r, i) /\ Aim(mem, r, i) = d
  BY <1>3 DEF Orphan, Parent
<1>5. mem.use[r] = "pgdir"
  BY <1>1, <1>3, <1>4, SlotFacts DEF Child, IsSlot, Table
<1>6. r \in Dirs(mem) /\ r \in Roots
  BY <1>1, <1>5 DEF Dirs
<1>7. d \in Tables(r)
  BY <1>4, <1>6, TablesBelow
<1> QED BY <1>2, <1>6, <1>7, OwnedBelow

\* Nothing is lost during the tests: the pages in use are d, t and those that
\* the entries of t refer to.
LEMMA TestsLoseNone ==
    ASSUME AreaInv, PageInv, pc = "boot"
    PROVE  Lost = {}
<1> SUFFICES ASSUME NEW p \in Page, mem.use[p] # "free" PROVE p \in Owned
  BY DEF Lost
<1>1. PICK i \in 0 .. 8, q \in Page \cup {NULL} : Tests(mem, i, q)
  BY DEF PageInv, BootInv
<1>2. ~AllFree(mem)
  BY DEF AllFree
<1>3. PICK d, t, e : BootTables(mem, d, t, e, NULL, 0)
  BY <1>1, <1>2 DEF Tests
<1>4. Slots(boot_pgdir) \subseteq AllSlots
  BY DEF AllSlots
<1>5. \A s \in Slots(boot_pgdir) : Target(s) \in Owned
  BY <1>4 DEF Owned
<1>6. /\ Target(<<boot_pgdir, 0>>) = d /\ Target(<<d, 0>>) = t
      /\ \A j \in {0, 1} : Target(<<t, j>>) = e[j].page
  BY <1>3, TestTargets
<1>7. \A s : s \in Slots(boot_pgdir) <=> \/ s = <<boot_pgdir, 0>> \/ s = <<d, 0>>
                                         \/ \E j \in {0, 1} : e[j] # NULL /\ s = <<t, j>>
  BY <1>3, TestSlots
<1>8. d \in Owned /\ t \in Owned /\ \A j \in {0, 1} : e[j] # NULL => e[j].page \in Owned
  BY <1>5, <1>6, <1>7
<1>9. CASE p \in {d, t}
  BY <1>8, <1>9
<1>10. CASE p \notin {d, t}
  <2>1. NULL \notin Page
    BY PageTableAssumption DEF Page
  <2>2. Uses(e, p) # 0
    BY <1>3, <1>10, <2>1 DEF BootTables, BootPages
  <2>3. \E j \in {0, 1} : e[j] # NULL /\ e[j].page = p
    BY <2>2 DEF Uses
  <2> QED BY <1>8, <2>3
<1> QED BY <1>9, <1>10

\* A process leaves behind none of its pages and no page directory, however its
\* exec, fork or exit went, and no table either while all address spaces torn
\* down were tidy.
THEOREM LossIsBounded == IdealSpec => []LossBounded
<1>1. AreaInv /\ PageInv /\ LossInv => LossBounded
  <2> SUFFICES ASSUME AreaInv, PageInv, LossInv PROVE LossBounded
    OBVIOUS
  <2>1. CASE pc = "boot"
    BY <2>1, TestsLoseNone DEF LossBounded
  <2>2. CASE pc # "boot"
    <3>1. \A p \in Page : mem.use[p] \in {"free", "user"} \cup Table
      BY <2>2, Trees DEF Good, Memory
    <3>2. ASSUME NEW p \in Lost
          PROVE  /\ p \in Page /\ p \notin Owned /\ mem.use[p] \in {"pd0", "pt"}
                 /\ mem.use[p] = "pd0" => Orphan(mem, p)
      <4>1. p \in Page /\ p \notin Owned /\ mem.use[p] # "free"
        BY DEF Lost
      <4>2. mem.use[p] # "pgdir" /\ ~Reached(mem, p)
        BY <2>2, <4>1, OwnedPages
      <4>3. mem.use[p] # "user"
        BY <2>2, <4>1, <4>2 DEF LossInv, NothingLost, Stray
      <4>4. mem.use[p] = "pd0" => ~Parent(mem, p)
        BY <2>2, <4>1, OwnedPages
      <4> QED BY <3>1, <4>1, <4>2, <4>3, <4>4 DEF Table, Orphan
    <3>3. ASSUME ~spoiled, NEW p \in Lost PROVE FALSE
      <4>1. \A q \in Page : ~Orphan(mem, q)
        BY <2>2, <3>3 DEF LossInv, NothingLost
      <4> QED BY <2>2, <3>2, <3>3, <4>1, OwnedTable
    <3> QED BY <3>2, <3>3 DEF LossBounded
  <2> QED BY <2>1, <2>2
<1> QED BY <1>1, AreaInvariant, PageInvariant, LossInvariant, PTL
=============================================================================
