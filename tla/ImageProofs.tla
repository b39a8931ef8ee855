---------------------------- MODULE ImageProofs ----------------------------
(***************************************************************************)
(* Proofs about what the user programs see in their memory, for every      *)
(* program, page size and number of processes: exec loads the program as   *)
(* its file says, fork copies the memory of the parent, and a store is     *)
(* seen by the process alone, as UserMemory promises.                      *)
(***************************************************************************)
EXTENDS MapProofs

-----------------------------------------------------------------------------
\* The pages in use in n hold what they held in m,
SameBytes(m, n) == \A p \in Page : n.use[p] # "free" => n.data[p] = m.data[p]
\* and so do those other than q.
SameBytesBut(m, n, q) == \A p \in Page : p # q /\ n.use[p] # "free" => n.data[p] = m.data[p]

\* A memory is a record of four fields.
LEMMA MemoryRecord ==
    ASSUME NEW m \in Memory
    PROVE  m = [use |-> m.use, ref |-> m.ref, entry |-> m.entry, data |-> m.data]
BY DEF Memory

\* free_page() does not touch the pages that stay in use.
LEMMA FreeBytes ==
    ASSUME NEW m, NEW d, d.data = m.data, NEW F, NEW n, n = free_page(d, F)
    PROVE  SameBytes(m, n)
<1>1. \A p \in Page : /\ n.use[p] = IF p \in F THEN "free" ELSE d.use[p]
                      /\ n.data[p] = IF p \in F THEN JunkBytes ELSE d.data[p]
  BY DEF free_page
<1> QED BY <1>1 DEF SameBytes

\* One level of get_pte() does not touch the pages of user memory.
LEMMA LevelBytes ==
    ASSUME NEW m \in Memory, NEW t, NEW i, NEW use, NEW create \in BOOLEAN,
           NEW r, r = level(m, t, i, use, create)
    PROVE  r.mem.data = m.data
<1>1. CASE m.entry[t][i] # NULL
  BY <1>1 DEF level
<1>2. CASE m.entry[t][i] = NULL /\ (~create \/ Free(m) = {})
  BY <1>2 DEF level
<1>3. CASE m.entry[t][i] = NULL /\ create /\ Free(m) # {}
  <2>1. PICK p, e : p = alloc_page(m) /\ e = pte_create(p, {"U"})
    OBVIOUS
  <2>2. PICK k : k = [Used(m, p, use) EXCEPT !.ref[p] = 1]
    OBVIOUS
  <2>3. k = [use |-> [m.use EXCEPT ![p] = use], ref |-> [m.ref EXCEPT ![p] = 1],
             entry |-> m.entry, data |-> m.data]
    <3>1. Used(m, p, use) = [use |-> [m.use EXCEPT ![p] = use], ref |-> m.ref,
                             entry |-> m.entry, data |-> m.data]
      BY MemoryRecord DEF Used
    <3> QED BY <2>2, <3>1
  <2>4. PICK n : n = [k EXCEPT !.entry[p] = NoEntries, !.entry[t][i] = e]
    OBVIOUS
  <2>5. n.data = m.data
    BY <2>3, <2>4
  <2>6. r.mem = n
    BY <1>3, <2>1, <2>2, <2>4 DEF level
  <2> QED BY <2>5, <2>6
<1> QED BY <1>1, <1>2, <1>3

\* Neither does get_pte().
LEMMA GetPteBytes ==
    ASSUME NEW m, Good(m), NEW root \in Dirs(m), NEW la \in Nat, la < UserTop,
           NEW create \in BOOLEAN, NEW r, r = get_pte(m, root, la, create)
    PROVE  r.mem.data = m.data
<1>1. PICK i \in Index, j \in Index : i = PDX1(la) /\ j = PDX0(la)
  BY Indexes
<1>2. PICK d : d = level(m, root, i, "pd0", create)
  OBVIOUS
<1>3. d.mem.data = m.data
  BY <1>2, LevelBytes DEF Good
<1>4. CASE d.table = NULL
  BY <1>1, <1>2, <1>3, <1>4 DEF get_pte
<1>5. CASE d.table # NULL
  <2>1. root \in Page /\ m.use[root] = "pgdir" /\ Child(m.use[root]) = "pd0"
    BY DEF Dirs, Child
  <2>2. Grown(m, d.mem)
    BY <1>1, <1>2, <2>1, LevelGrows
  <2>3. PICK k : k = d.mem /\ k \in Memory
    BY <2>2 DEF Grown, Keeps, Good
  <2>4. r = level(k, d.table, j, "pt", create)
    BY <1>1, <1>2, <1>5, <2>3 DEF get_pte
  <2>5. r.mem.data = k.data
    BY <2>3, <2>4, LevelBytes
  <2> QED BY <1>3, <2>3, <2>5
<1> QED BY <1>4, <1>5

\* page_insert() touches no page that stays in use.
LEMMA InsertBytes ==
    ASSUME NEW m, Good(m), NEW root \in Dirs(m), NEW la \in Nat, la < UserTop,
           NEW p, NEW bits, NEW r, r = page_insert(m, root, p, la, bits)
    PROVE  SameBytes(m, r.mem)
<1>1. PICK create \in BOOLEAN : create = TRUE
  OBVIOUS
<1>2. PICK g : g = get_pte(m, root, la, create)
  OBVIOUS
<1>3. PICK k : k = g.mem
  OBVIOUS
<1>4. k.data = m.data /\ k \in Memory
  BY <1>2, <1>3, GetPteBytes, GetPteGrows DEF Grown, Keeps, Good
<1>5. PICK i : i = PTX(la)
  OBVIOUS
<1>6. PICK old : old = k.entry[g.table][i]
  OBVIOUS
<1>7. PICK inc : inc = [k EXCEPT !.ref[p] = @ + 1]
  OBVIOUS
<1>8. inc = [use |-> k.use, ref |-> [k.ref EXCEPT ![p] = k.ref[p] + 1], entry |-> k.entry, data |-> k.data]
  BY <1>4, <1>7, MemoryRecord
<1>9. PICK c : c = IF old = NULL THEN inc ELSE IF old.page = p THEN k
                   ELSE page_remove_pte(inc, g.table, i)
  OBVIOUS
<1>10. PICK e : e = pte_create(p, bits)
  OBVIOUS
<1>11. r = IF g.table = NULL THEN [mem |-> k, ok |-> FALSE]
           ELSE [mem |-> [c EXCEPT !.entry[g.table][i] = e], ok |-> TRUE]
  BY <1>1, <1>2, <1>3, <1>5, <1>6, <1>7, <1>9, <1>10 DEF page_insert
<1>12. /\ SameBytes(m, c) /\ \E use, ref, entry, data :
            c = [use |-> use, ref |-> ref, entry |-> entry, data |-> data]
  <2>1. CASE old = NULL
    BY <1>4, <1>8, <1>9, <2>1 DEF SameBytes
  <2>2. CASE old # NULL /\ old.page = p
    BY <1>4, <1>9, <2>2, MemoryRecord DEF SameBytes
  <2>3. CASE old # NULL /\ old.page # p
    <3>1. PICK q : q = inc.entry[g.table][i].page
      OBVIOUS
    <3>2. PICK dec : dec = [inc EXCEPT !.ref[q] = @ - 1, !.entry[g.table][i] = NULL]
      OBVIOUS
    <3>3. \E ref, entry : dec = [use |-> k.use, ref |-> ref, entry |-> entry, data |-> k.data]
      BY <1>8, <3>2
    <3>4. c = IF dec.ref[q] = 0 THEN free_page(dec, {q}) ELSE dec
      <4>1. c = page_remove_pte(inc, g.table, i)
        BY <1>9, <2>3
      <4>2. page_remove_pte(inc, g.table, i)
               = IF dec.ref[q] = 0 THEN free_page(dec, {q}) ELSE dec
        BY <3>1, <3>2 DEF page_remove_pte
      <4> QED BY <4>1, <4>2
    <3>5. dec.data = m.data
      BY <1>4, <3>3
    <3>6. PICK f : f = free_page(dec, {q})
      OBVIOUS
    <3>7. SameBytes(m, f)
      BY <3>5, <3>6, FreeBytes
    <3>8. \E use, ref, entry, data : f = [use |-> use, ref |-> ref, entry |-> entry, data |-> data]
      BY <3>6 DEF free_page
    <3>9. SameBytes(m, dec)
      BY <3>5 DEF SameBytes
    <3> QED BY <3>3, <3>4, <3>6, <3>7, <3>8, <3>9
  <2> QED BY <2>1, <2>2, <2>3
<1>13. CASE g.table = NULL
  BY <1>4, <1>11, <1>13 DEF SameBytes
<1>14. CASE g.table # NULL
  <2>1. PICK n : n = [c EXCEPT !.entry[g.table][i] = e]
    OBVIOUS
  <2>2. n.use = c.use /\ n.data = c.data
    BY <1>12, <2>1
  <2>3. r.mem = n
    BY <1>11, <1>14, <2>1
  <2> QED BY <1>12, <2>2, <2>3 DEF SameBytes
<1> QED BY <1>13, <1>14

\* pgdir_alloc_page() touches none either.
LEMMA NewPageBytes ==
    ASSUME NEW m, Good(m), NEW root \in Dirs(m), NEW la \in Nat, la < UserTop,
           NEW bits \in Perm, NEW r, r = pgdir_alloc_page(m, root, la, bits)
    PROVE  SameBytes(m, r.mem)
<1>1. CASE Free(m) = {}
  BY <1>1 DEF pgdir_alloc_page, SameBytes
<1>2. CASE Free(m) # {}
  <2>1. PICK p \in Page : p = alloc_page(m) /\ m.use[p] = "free"
    BY <1>2, AllocPage DEF Free
  <2>2. PICK n : n = Used(m, p, "user")
    OBVIOUS
  <2>3. Keeps(m, n) /\ Good(n) /\ n.data = m.data
    <3>1. Keeps(m, n)
      BY <2>1, <2>2, TakePage
    <3>2. m = [use |-> m.use, ref |-> m.ref, entry |-> m.entry, data |-> m.data]
      BY MemoryRecord DEF Good
    <3>3. n = [use |-> [m.use EXCEPT ![p] = "user"], ref |-> m.ref, entry |-> m.entry,
               data |-> m.data]
      BY <2>2, <3>2 DEF Used
    <3> QED BY <3>1, <3>3 DEF Keeps
  <2>4. PICK s : s = page_insert(n, root, p, la, bits)
    OBVIOUS
  <2>5. SameBytes(n, s.mem)
    BY <2>3, <2>4, InsertBytes DEF Keeps
  <2>6. r = IF s.ok THEN [mem |-> s.mem, page |-> p]
            ELSE [mem |-> free_page(s.mem, {p}), page |-> NULL]
    BY <1>2, <2>1, <2>2, <2>4 DEF pgdir_alloc_page
  <2>7. CASE s.ok
    BY <2>3, <2>5, <2>6, <2>7 DEF SameBytes
  <2>8. CASE ~s.ok
    <3>1. PICK k : k = free_page(s.mem, {p})
      OBVIOUS
    <3>2. SameBytes(s.mem, k) /\ \A q \in Page : k.use[q] # "free" => s.mem.use[q] # "free"
      <4>1. \A q \in Page : k.use[q] = IF q = p THEN "free" ELSE s.mem.use[q]
        BY <3>1 DEF free_page
      <4> QED BY <3>1, <4>1, FreeBytes
    <3>3. r.mem = k
      BY <2>6, <2>8, <3>1
    <3> QED BY <2>3, <2>5, <3>2, <3>3 DEF SameBytes
  <2> QED BY <2>7, <2>8
<1> QED BY <1>1, <1>2

\* unmap_range() frees what it unmaps and touches no other page,
LEMMA UnmapBytes ==
    ASSUME NEW m \in Memory, NEW root, NEW start, NEW end, NEW n, n = unmap_range(m, root, start, end)
    PROVE  SameBytes(m, n)
<1> DEFINE gone == {la \in PagesOf(start, end) : pte(m, root, la) # NULL}
           slots == {<<get_pte(m, root, la, FALSE).table, PTX(la)>> : la \in gone}
           uses(p) == Cardinality({s \in slots : m.entry[s[1]][s[2]].page = p})
           ref == [p \in Page |-> m.ref[p] - uses(p)]
           entry == [t \in DOMAIN m.entry |-> [i \in Index |->
                        IF <<t, i>> \in slots THEN NULL ELSE m.entry[t][i]]]
<1>1. PICK d : d = [m EXCEPT !.ref = ref, !.entry = entry]
  OBVIOUS
<1>2. n = free_page(d, {p \in Page : uses(p) > 0 /\ d.ref[p] = 0})
  BY <1>1 DEF unmap_range
<1>3. PICK F : n = free_page(d, F)
  BY <1>2
<1> HIDE DEF ref, entry
<1>4. d.data = m.data
  BY <1>1, MemoryRecord
<1> QED BY <1>3, <1>4, FreeBytes

\* and exit_range() frees tables and touches no page.
LEMMA ExitRangeBytes ==
    ASSUME NEW m \in Memory, NEW root, NEW start, NEW end, NEW n, n = exit_range(m, root, start, end)
    PROVE  SameBytes(m, n)
<1> DEFINE dirs == {d1 \in Index : Visited(d1, start, end) # {} /\ m.entry[root][d1] # NULL}
           pd0(d1) == m.entry[root][d1].page
           valid(d1) == {i \in Visited(d1, start, end) : m.entry[pd0(d1)][i] # NULL}
           empty(d1) == {i \in valid(d1) : m.entry[m.entry[pd0(d1)][i].page] = NoEntries}
           free_pd0 == {d1 \in dirs : valid(d1) = Visited(d1, start, end)}
           pts == UNION {{m.entry[pd0(d1)][i].page : i \in empty(d1)} : d1 \in dirs}
           entry == [t \in DOMAIN m.entry |-> [i \in Index |->
                        IF \/ t = root /\ i \in free_pd0
                           \/ \E d1 \in dirs : t = pd0(d1) /\ i \in empty(d1)
                        THEN NULL ELSE m.entry[t][i]]]
<1>1. PICK d : d = [m EXCEPT !.entry = entry]
  OBVIOUS
<1>2. n = free_page(d, pts \cup {pd0(d1) : d1 \in free_pd0})
  BY <1>1 DEF exit_range
<1>3. PICK F : n = free_page(d, F)
  BY <1>2
<1> HIDE DEF entry
<1>4. d.data = m.data
  BY <1>1, MemoryRecord
<1> QED BY <1>3, <1>4, FreeBytes

\* setup_pgdir() clears a table.
LEMMA TakeDirBytes ==
    ASSUME NEW m \in Memory, NEW n, n = setup_pgdir(m)
    PROVE  n.data = m.data
<1>1. PICK p : p = alloc_page(m)
  OBVIOUS
<1>2. PICK f : f = [m.use EXCEPT ![p] = "pgdir"]
  OBVIOUS
<1>3. PICK g : g = [m.entry EXCEPT ![p] = NoEntries]
  OBVIOUS
<1>4. n = [use |-> f, ref |-> m.ref, entry |-> g, data |-> m.data]
  BY <1>1, <1>2, <1>3 DEF Memory, Used, setup_pgdir
<1> QED BY <1>4

\* The page that copy_range() maps holds what that of the parent does, if it
\* is mapped, and no other page in use changes.
LEMMA CopyBytes ==
    ASSUME NEW m, Good(m), NEW root \in Dirs(m), NEW la \in Nat, la < UserTop, Free(m) # {},
           NEW p \in Page, p = alloc_page(m), NEW q \in Page, NEW bits \in Perm,
           NEW n, n = page_insert([Used(m, p, "user") EXCEPT !.data[p] = m.data[q]],
                                  root, p, la, bits).mem
    PROVE  /\ SameBytesBut(m, n, p)
           /\ n.use[p] # "free" => n.data[p] = m.data[q]
<1>1. m.use[p] = "free" /\ m \in Memory
  BY AllocPage DEF Free, Good
<1>2. PICK k : k = Used(m, p, "user")
  OBVIOUS
<1>3. Keeps(m, k) /\ Good(k) /\ k \in Memory
  BY <1>1, <1>2, TakePage DEF Keeps, Good
<1>4. PICK d \in [0 .. PGSIZE - 1 -> Int] : d = m.data[q]
  BY DEF Good, Memory
<1>5. PICK h : h = Wrote(k, p, d)
  OBVIOUS
<1>6. Keeps(k, h) /\ Good(h)
  BY <1>3, <1>4, <1>5, DataKeeps DEF Keeps
<1>7. h.data = [m.data EXCEPT ![p] = d]
  <2>1. k.data = m.data
    <3>1. k = [use |-> [m.use EXCEPT ![p] = "user"], ref |-> m.ref, entry |-> m.entry,
               data |-> m.data]
      BY <1>1, <1>2, MemoryRecord DEF Used
    <3> QED BY <3>1
  <2>2. h.data = [k.data EXCEPT ![p] = d]
    BY <1>3, <1>5, MemoryRecord DEF Wrote
  <2> QED BY <2>1, <2>2
<1>8. PICK r : r = page_insert(h, root, p, la, bits)
  OBVIOUS
<1>9. n = r.mem
  BY <1>2, <1>4, <1>5, <1>8 DEF Wrote
<1>10. SameBytes(h, n)
  BY <1>3, <1>6, <1>8, <1>9, InsertBytes DEF Keeps
<1>11. m.data \in [Page -> [0 .. PGSIZE - 1 -> Int]]
  BY <1>1 DEF Memory
<1> QED BY <1>4, <1>7, <1>10, <1>11 DEF SameBytes, SameBytesBut

-----------------------------------------------------------------------------
\* What the page holds that is mapped at a,
PageAt(m, root, a) == m.data[pte(m, root, a).page]
\* and the memory that a program with this page directory sees.
ImageOf(m, root) ==
    [a \in {b \in Addr : pte(m, root, b) # NULL} |-> m.data[pte(m, root, a).page][a % PGSIZE]]
\* At a, the image of q in n is that of r in m,
SameAt(m, r, n, q, a) ==
    /\ pte(n, q, a) # NULL <=> pte(m, r, a) # NULL
    /\ pte(m, r, a) # NULL => PageAt(n, q, a) = PageAt(m, r, a)
\* and so it is everywhere.
SameImage(m, r, n, q) == \A a \in UPage : SameAt(m, r, n, q, a)

\* A byte lies in the page that its address is in.
LEMMA BytePage ==
    ASSUME NEW a \in Nat, a < UserTop
    PROVE  \E b \in UPage : /\ b = ROUNDDOWN(a, PGSIZE) /\ a = b + (a % PGSIZE)
                            /\ a % PGSIZE \in 0 .. PGSIZE - 1
                            /\ \A m, r : pte(m, r, a) = pte(m, r, b)
<1>1. PICK g \in Nat \ {0} : g = PGSIZE
  BY Constants
<1>2. PICK z \in Nat, r \in Nat : a = g * z + r /\ r < g /\ z = a \div g /\ r = a % g
  BY Quotient
<1>3. PICK b : b = ROUNDDOWN(a, PGSIZE)
  OBVIOUS
<1>4. b = g * z /\ b \in Nat /\ a = b + r /\ b <= a
  <2>1. PICK x \in Nat : x = g * z
    OBVIOUS
  <2>2. a % PGSIZE = r
    BY <1>1, <1>2
  <2>3. b = a - r
    BY <1>3, <2>2 DEF ROUNDDOWN
  <2>4. a = x + r
    BY <1>2, <2>1
  <2>5. b = x /\ a = b + r /\ b <= a
    BY <2>3, <2>4
  <2> QED BY <2>1, <2>5
<1>5. b \div g = z /\ b % g = 0
  <2>1. PICK o \in Nat : o = 0
    OBVIOUS
  <2>2. b = g * z + o /\ o < g
    BY <1>4, <2>1
  <2> QED BY <1>4, <2>1, <2>2, DivIs
<1>6. b \in UPage
  BY <1>1, <1>4, <1>5, Constants DEF UPage, PagesOf
<1>7. NEntry \in Nat \ {0}
  BY PageTableAssumption
<1>8. b \div PTSIZE = a \div PTSIZE
  <2>1. b \div (NEntry * PGSIZE) = (b \div PGSIZE) \div NEntry
    BY <1>1, <1>4, <1>7, DivDiv
  <2>2. a \div (NEntry * PGSIZE) = (a \div PGSIZE) \div NEntry
    BY <1>1, <1>7, DivDiv
  <2> QED BY <1>1, <1>2, <1>5, <2>1, <2>2 DEF PTSIZE
<1>9. PTX(a) = PTX(b) /\ PDX0(a) = PDX0(b) /\ PDX1(a) = PDX1(b)
  <2>1. PDX1(a) = (a \div PTSIZE) \div NEntry /\ PDX1(b) = (b \div PTSIZE) \div NEntry
    BY <1>4, RegionDir
  <2> QED BY <1>1, <1>2, <1>5, <1>8, <2>1 DEF PTX, PDX0
<1>10. \A m, s : pte(m, s, a) = pte(m, s, b)
  BY <1>9 DEF pte
<1>11. a % PGSIZE = r /\ a % PGSIZE \in 0 .. PGSIZE - 1
  BY <1>1, <1>2
<1>12. a = b + (a % PGSIZE)
  BY <1>4, <1>11
<1> QED BY <1>3, <1>6, <1>10, <1>11, <1>12

\* A program sees the same if its pages hold the same.
LEMMA ImagesAgree ==
    ASSUME NEW m, NEW r, NEW n, NEW q, SameImage(m, r, n, q)
    PROVE  ImageOf(n, q) = ImageOf(m, r)
<1>1. ASSUME NEW a \in Addr
      PROVE  /\ pte(n, q, a) # NULL <=> pte(m, r, a) # NULL
             /\ pte(m, r, a) # NULL =>
                   n.data[pte(n, q, a).page][a % PGSIZE] = m.data[pte(m, r, a).page][a % PGSIZE]
  <2>1. a \in Nat /\ a < UserTop
    BY Constants DEF Addr
  <2>2. PICK b \in UPage : \A k, s : pte(k, s, a) = pte(k, s, b)
    BY <2>1, BytePage
  <2> QED BY <2>2 DEF SameImage, SameAt, PageAt
<1>2. {b \in Addr : pte(n, q, b) # NULL} = {b \in Addr : pte(m, r, b) # NULL}
  BY <1>1
<1> QED BY <1>1, <1>2 DEF ImageOf

\* A page that is mapped is in use.
LEMMA MappedUse ==
    ASSUME NEW m, Good(m), NEW r \in Dirs(m), NEW a \in UPage, pte(m, r, a) # NULL
    PROVE  pte(m, r, a).page \in Page /\ m.use[pte(m, r, a).page] = "user"
<1>1. PICK t \in Page : Leads(m, r, a, t) /\ IsSlot(m, t, PTX(a))
  BY MappedLeads
<1>2. m.use[t] = "pt" /\ pte(m, r, a) = m.entry[t][PTX(a)] /\ PTX(a) \in Index
  BY <1>1, LeadsFacts, UPageFacts
<1>3. Aim(m, t, PTX(a)) \in Page /\ m.use[Aim(m, t, PTX(a))] = Child("pt")
  BY <1>1, <1>2, SlotFacts
<1> QED BY <1>2, <1>3 DEF Aim, Child

\* And it is mapped once.
LEMMA MappedOnce ==
    ASSUME NEW m, Good(m), NEW r \in Dirs(m), NEW s \in Dirs(m), NEW a \in UPage, NEW b \in UPage,
           pte(m, r, a) # NULL, pte(m, s, b) # NULL, pte(m, r, a).page = pte(m, s, b).page
    PROVE  r = s /\ a = b
<1>1. PICK t \in Page : Leads(m, r, a, t) /\ IsSlot(m, t, PTX(a))
  BY MappedLeads
<1>2. PICK u \in Page : Leads(m, s, b, u) /\ IsSlot(m, u, PTX(b))
  BY MappedLeads
<1>3. pte(m, r, a) = m.entry[t][PTX(a)] /\ pte(m, s, b) = m.entry[u][PTX(b)]
  BY <1>1, <1>2, LeadsFacts
<1>4. PTX(a) \in Index /\ PTX(b) \in Index
  BY UPageFacts
<1>5. Aim(m, t, PTX(a)) = Aim(m, u, PTX(b))
  BY <1>3 DEF Aim
<1>6. t = u /\ PTX(a) = PTX(b)
  BY <1>1, <1>2, <1>4, <1>5 DEF Good
<1> QED BY <1>1, <1>2, <1>6, LeadsOnce

\* What an operation neither maps nor writes looks as it did.
LEMMA ImageKept ==
    ASSUME NEW m, NEW n, Good(n), NEW r \in Dirs(n),
           \A a \in UPage : pte(n, r, a) = pte(m, r, a),
           \A a \in UPage : pte(n, r, a) # NULL /\ n.use[pte(n, r, a).page] # "free" =>
               n.data[pte(n, r, a).page] = m.data[pte(n, r, a).page]
    PROVE  SameImage(m, r, n, r)
BY MappedUse DEF SameImage, SameAt, PageAt

\* The images of all page directories but root are what they were.
OtherImages(m, n, root) == \A r \in Dirs(m) : r # root => SameImage(m, r, n, r)
\* The one of root is, but for the page at la.
SameBut(m, n, root, la) == \A a \in UPage : a # la => SameAt(m, root, n, root, a)
\* A byte of an image, NULL if it is not mapped.
ByteOf(m, root, a) ==
    IF pte(m, root, a) = NULL THEN NULL ELSE m.data[pte(m, root, a).page][a % PGSIZE]
InPage(a, la) == la <= a /\ a < la + PGSIZE

\* The page that a byte lies in.
LEMMA PageOfByte ==
    ASSUME NEW la \in UPage, NEW a \in Nat, a < UserTop
    PROVE  InPage(a, la) <=> ROUNDDOWN(a, PGSIZE) = la
<1>1. PICK b \in UPage : b = ROUNDDOWN(a, PGSIZE)
  BY BytePage
<1>2. b <= a /\ a < b + PGSIZE
  BY <1>1, RoundBounds, Constants
<1>3. /\ b \in Nat /\ la \in Nat /\ b % PGSIZE = 0 /\ la % PGSIZE = 0
      /\ PGSIZE \in Nat
  BY UPageFacts, Constants
<1>4. ASSUME InPage(a, la) PROVE b = la
  <2>1. CASE la <= b
    <3>1. b < la + PGSIZE
      BY <1>2, <1>3, <1>4 DEF InPage
    <3> QED BY <1>3, <2>1, <3>1, NextPage
  <2>2. CASE ~(la <= b)
    <3>1. b <= la /\ la < b + PGSIZE
      BY <1>2, <1>3, <1>4, <2>2 DEF InPage
    <3> QED BY <1>3, <3>1, NextPage
  <2> QED BY <2>1, <2>2
<1>5. ASSUME b = la PROVE InPage(a, la)
  BY <1>2, <1>5 DEF InPage
<1> QED BY <1>1, <1>4, <1>5

\* A byte is what it was if its page is,
LEMMA ByteKept ==
    ASSUME NEW m, NEW r, NEW n, NEW q, NEW a \in Nat, a < UserTop,
           SameAt(m, r, n, q, ROUNDDOWN(a, PGSIZE))
    PROVE  ByteOf(n, q, a) = ByteOf(m, r, a)
<1>1. PICK b \in UPage : b = ROUNDDOWN(a, PGSIZE) /\ \A k, s : pte(k, s, a) = pte(k, s, b)
  BY BytePage
<1> QED BY <1>1 DEF ByteOf, SameAt, PageAt

\* which it is if another page has changed.
LEMMA ByteElse ==
    ASSUME NEW m, NEW n, NEW root, NEW la \in UPage, SameBut(m, n, root, la),
           NEW a \in Nat, a < UserTop, ~InPage(a, la)
    PROVE  ByteOf(n, root, a) = ByteOf(m, root, a)
<1>1. PICK b \in UPage : b = ROUNDDOWN(a, PGSIZE)
  BY BytePage
<1>2. b # la
  BY <1>1, PageOfByte
<1> QED BY <1>1, <1>2, ByteKept DEF SameBut

-----------------------------------------------------------------------------
\* An operation that neither maps nor writes keeps the images,
LEMMA AllKept ==
    ASSUME NEW m, NEW n, Good(n), Dirs(n) = Dirs(m), SameMap(m, n), SameBytes(m, n)
    PROVE  \A r \in Dirs(m) : SameImage(m, r, n, r)
<1> SUFFICES ASSUME NEW r \in Dirs(n) PROVE SameImage(m, r, n, r)
  OBVIOUS
<1>1. \A a \in UPage : pte(n, r, a) = pte(m, r, a)
  BY DEF SameMap
<1>2. ASSUME NEW a \in UPage, pte(n, r, a) # NULL
      PROVE  n.data[pte(n, r, a).page] = m.data[pte(n, r, a).page]
  BY <1>2, MappedUse DEF SameBytes
<1> QED BY <1>1, <1>2, ImageKept

\* those of other processes if it maps and unmaps in one address space.
LEMMA OthersKept ==
    ASSUME NEW m, NEW n, Good(n), Dirs(n) = Dirs(m), NEW root, OtherMaps(m, n, root),
           SameBytes(m, n)
    PROVE  OtherImages(m, n, root)
<1> SUFFICES ASSUME NEW r \in Dirs(n), r # root PROVE SameImage(m, r, n, r)
  BY DEF OtherImages
<1>1. \A a \in UPage : pte(n, r, a) = pte(m, r, a)
  BY DEF OtherMaps
<1>2. ASSUME NEW a \in UPage, pte(n, r, a) # NULL
      PROVE  n.data[pte(n, r, a).page] = m.data[pte(n, r, a).page]
  BY <1>2, MappedUse DEF SameBytes
<1> QED BY <1>1, <1>2, ImageKept

\* Mapping p at la, and writing to it, changes one page of one image.
LEMMA PlacedImage ==
    ASSUME NEW m, Good(m), NEW n, Good(n), Dirs(n) = Dirs(m), NEW root \in Dirs(m), NEW la \in UPage,
           NEW e, e # NULL, NewMap(m, n, root, la, e), SameBytesBut(m, n, e.page)
    PROVE  OtherImages(m, n, root) /\ SameBut(m, n, root, la)
<1>1. pte(n, root, la) = e
  BY DEF NewMap
<1>2. ASSUME NEW r \in Dirs(m), NEW a \in UPage, ~(r = root /\ a = la)
      PROVE  SameAt(m, r, n, r, a)
  <2>1. pte(n, r, a) = pte(m, r, a)
    BY <1>2 DEF NewMap
  <2>2. CASE pte(n, r, a) = NULL
    BY <2>1, <2>2 DEF SameAt
  <2>3. CASE pte(n, r, a) # NULL
    <3>1. pte(n, r, a).page \in Page /\ n.use[pte(n, r, a).page] = "user"
      BY <2>3, MappedUse
    <3>2. pte(n, r, a).page # e.page
      BY <1>1, <1>2, <2>3, MappedOnce
    <3> QED BY <2>1, <3>1, <3>2 DEF SameAt, PageAt, SameBytesBut
  <2> QED BY <2>2, <2>3
<1> QED BY <1>2 DEF OtherImages, SameImage, SameBut

\* pgdir_alloc_page() changes the page that it maps, or none.
LEMMA NewPageImage ==
    ASSUME NEW m, Good(m), NEW root \in Dirs(m), NEW la \in UPage,
           NEW bits \in Perm, NEW r, r = pgdir_alloc_page(m, root, la, bits)
    PROVE  /\ r.page = NULL => \A s \in Dirs(m) : SameImage(m, s, r.mem, s)
           /\ r.page # NULL => /\ OtherImages(m, r.mem, root) /\ SameBut(m, r.mem, root, la)
                              /\ pte(r.mem, root, la) # NULL
                              /\ pte(r.mem, root, la).page = r.page
<1>1. la \in Nat /\ la < UserTop
  BY UPageFacts
<1>2. Good(r.mem) /\ Dirs(r.mem) = Dirs(m)
  BY <1>1, NewPage DEF Keeps
<1>3. SameBytes(m, r.mem)
  BY <1>1, NewPageBytes
<1>4. \/ r.page = NULL /\ SameMap(m, r.mem)
      \/ r.page # NULL /\ NewMap(m, r.mem, root, la, pte_create(r.page, bits))
  BY NewPageMap
<1>5. CASE r.page = NULL
  BY <1>2, <1>3, <1>4, <1>5, AllKept
<1>6. CASE r.page # NULL
  <2>1. r.page \in Page
    <3>1. Free(m) # {}
      BY <1>6 DEF pgdir_alloc_page
    <3>2. r.page = alloc_page(m)
      BY <1>6, <3>1 DEF pgdir_alloc_page
    <3> QED BY <3>1, <3>2, AllocPage
  <2>2. PICK e : e = pte_create(r.page, bits) /\ e # NULL /\ e.page = r.page
    BY <2>1, PageFacts
  <2>3. NewMap(m, r.mem, root, la, e)
    BY <1>4, <1>6, <2>2
  <2>4. SameBytesBut(m, r.mem, e.page)
    BY <1>3 DEF SameBytes, SameBytesBut
  <2>5. OtherImages(m, r.mem, root) /\ SameBut(m, r.mem, root, la)
    BY <1>2, <2>2, <2>3, <2>4, PlacedImage
  <2>6. pte(r.mem, root, la) = e
    BY <2>3 DEF NewMap
  <2> QED BY <1>6, <2>2, <2>5, <2>6
<1> QED BY <1>5, <1>6

\* Writing to the page at la changes that page.
LEMMA WrittenImage ==
    ASSUME NEW m, Good(m), NEW n, n.use = m.use, n.entry = m.entry,
           NEW root \in Dirs(m), NEW la \in UPage, pte(m, root, la) # NULL,
           SameBytesBut(m, n, pte(m, root, la).page)
    PROVE  OtherImages(m, n, root) /\ SameBut(m, n, root, la)
<1>1. \A r, a : pte(n, r, a) = pte(m, r, a)
  BY DEF pte, Below
<1>2. ASSUME NEW r \in Dirs(m), NEW a \in UPage, ~(r = root /\ a = la)
      PROVE  SameAt(m, r, n, r, a)
  <2>1. CASE pte(m, r, a) = NULL
    BY <1>1, <2>1 DEF SameAt
  <2>2. CASE pte(m, r, a) # NULL
    <3>1. pte(m, r, a).page \in Page /\ m.use[pte(m, r, a).page] = "user"
      BY <2>2, MappedUse
    <3>2. pte(m, r, a).page # pte(m, root, la).page
      BY <1>2, <2>2, MappedOnce
    <3> QED BY <1>1, <3>1, <3>2 DEF SameAt, PageAt, SameBytesBut
  <2> QED BY <2>1, <2>2
<1> QED BY <1>2 DEF OtherImages, SameImage, SameBut

\* The bytes of the page at la are those that Filled writes to it.
FilledBytes(m, n, root, la, start, size, file) ==
    \A a \in Nat : a < UserTop /\ InPage(a, la) =>
        ByteOf(n, root, a) = IF start <= a /\ a < start + size
                             THEN SegmentByte(a, file) ELSE ByteOf(m, root, a)

\* The bytes that Filled writes.
LEMMA FilledImage ==
    ASSUME NEW m, Good(m), NEW root \in Dirs(m), NEW la \in UPage, pte(m, root, la) # NULL,
           NEW start, NEW size, NEW file \in BOOLEAN, NEW n, NEW p, p = pte(m, root, la).page,
           n = Filled(m, p, la, start, size, file)
    PROVE  /\ OtherImages(m, n, root) /\ SameBut(m, n, root, la)
           /\ FilledBytes(m, n, root, la, start, size, file)
<1>1. p \in Page /\ m \in Memory
  BY MappedUse DEF Good
<1>2. PICK X : X = [b \in 0 .. PGSIZE - 1 |->
                    IF start <= la + b /\ la + b < start + size THEN SegmentByte(la + b, file)
                    ELSE m.data[p][b]]
  OBVIOUS
<1>3. n = Wrote(m, p, X)
  BY <1>2, Zenon DEF Filled, Wrote
<1>4. n.use = m.use /\ n.entry = m.entry /\ n.data = [m.data EXCEPT ![p] = X]
  <2>1. m = [use |-> m.use, ref |-> m.ref, entry |-> m.entry, data |-> m.data]
    BY <1>1, MemoryRecord
  <2>2. n = [use |-> m.use, ref |-> m.ref, entry |-> m.entry, data |-> [m.data EXCEPT ![p] = X]]
    BY <1>3, <2>1 DEF Wrote
  <2> QED BY <2>2
<1>5. m.data \in [Page -> [0 .. PGSIZE - 1 -> Int]]
  BY <1>1 DEF Memory
<1>6. SameBytesBut(m, n, p)
  BY <1>4, <1>5 DEF SameBytesBut
<1>7. OtherImages(m, n, root) /\ SameBut(m, n, root, la)
  BY <1>4, <1>6, WrittenImage
<1>8. \A r, a : pte(n, r, a) = pte(m, r, a)
  BY <1>4 DEF pte, Below
<1>9. ASSUME NEW a \in Nat, a < UserTop, InPage(a, la)
      PROVE  ByteOf(n, root, a) = IF start <= a /\ a < start + size
                                  THEN SegmentByte(a, file) ELSE ByteOf(m, root, a)
  <2>1. ROUNDDOWN(a, PGSIZE) = la
    BY <1>9, PageOfByte
  <2>2. PICK b \in 0 .. PGSIZE - 1 : /\ b = a % PGSIZE /\ a = la + b
                                    /\ \A k, s : pte(k, s, a) = pte(k, s, la)
    BY <1>9, <2>1, BytePage
  <2>3. n.data[p] = X
    BY <1>1, <1>4, <1>5
  <2>4. X[b] = IF start <= a /\ a < start + size THEN SegmentByte(a, file) ELSE m.data[p][b]
    BY <1>2, <2>2
  <2>5. ByteOf(n, root, a) = n.data[p][b] /\ ByteOf(m, root, a) = m.data[p][b]
    BY <1>8, <2>2 DEF ByteOf
  <2> QED BY <2>3, <2>4, <2>5
<1> QED BY <1>7, <1>9 DEF FilledBytes

\* copy_range() maps a page that holds what that of the parent does.
LEMMA CopiedImage ==
    ASSUME NEW m, Good(m), NEW root \in Dirs(m), NEW la \in UPage, Free(m) # {},
           NEW t, Leads(m, root, la, t),
           NEW p \in Page, p = alloc_page(m), NEW q \in Page, NEW bits \in Perm,
           NEW n, n = page_insert([Used(m, p, "user") EXCEPT !.data[p] = m.data[q]],
                                  root, p, la, bits).mem
    PROVE  /\ OtherImages(m, n, root) /\ SameBut(m, n, root, la)
           /\ pte(n, root, la) # NULL /\ PageAt(n, root, la) = m.data[q]
<1>1. la \in Nat /\ la < UserTop
  BY UPageFacts
<1>2. Good(n) /\ Dirs(n) = Dirs(m)
  BY <1>1, CopyKeeps DEF Keeps
<1>3. NewMap(m, n, root, la, pte_create(p, bits))
  BY CopyMap
<1>4. PICK e : e = pte_create(p, bits) /\ e # NULL /\ e.page = p
  BY PageFacts
<1>5. SameBytesBut(m, n, p) /\ (n.use[p] # "free" => n.data[p] = m.data[q])
  BY <1>1, CopyBytes
<1>6. pte(n, root, la) = e
  BY <1>3, <1>4 DEF NewMap
<1>7. n.use[p] = "user"
  BY <1>2, <1>4, <1>6, MappedUse
<1>8. OtherImages(m, n, root) /\ SameBut(m, n, root, la)
  BY <1>2, <1>3, <1>4, <1>5, PlacedImage
<1> QED BY <1>4, <1>5, <1>6, <1>7, <1>8 DEF PageAt

\* Two operations that keep an image keep it together,
LEMMA SameTwice ==
    ASSUME NEW m, NEW n, NEW k, NEW r, SameImage(m, r, n, r), SameImage(n, r, k, r)
    PROVE  SameImage(m, r, k, r)
BY DEF SameImage, SameAt

\* and so do two that change one page of root.
LEMMA OthersTwice ==
    ASSUME NEW m, NEW n, NEW k, Dirs(n) = Dirs(m), NEW root, NEW la,
           OtherImages(m, n, root), OtherImages(n, k, root),
           SameBut(m, n, root, la), SameBut(n, k, root, la)
    PROVE  OtherImages(m, k, root) /\ SameBut(m, k, root, la)
<1>1. OtherImages(m, k, root)
  BY SameTwice DEF OtherImages
<1>2. SameBut(m, k, root, la)
  BY DEF SameBut, SameAt
<1> QED BY <1>1, <1>2

-----------------------------------------------------------------------------
\* What the file says of the byte at a of segment s: a byte of it, or 0.
FileByte(s, a) == IF a < s.va + s.filesz THEN s.offset + (a - s.va) ELSE 0
\* The bytes of s below end are in the image,
LoadedTo(m, root, s, end) == \A a \in s.va .. end - 1 : ByteOf(m, root, a) = FileByte(s, a)
\* all of them are, and all of those of the segments S are.
SegmentIn(m, root, s) ==
    /\ UserBase <= s.va /\ s.va + s.memsz <= UserTop
    /\ LoadedTo(m, root, s, s.va + s.memsz)
AllIn(m, root, S) == \A s \in S : SegmentIn(m, root, s)
\* None of their bytes lies in the area v.
Clear(S, v) == \A s \in S : \A a \in s.va .. s.va + s.memsz - 1 : ~Holds(v, a)

\* The segments that are loaded already.
LoadedSegments == {Segments[k] : k \in {j \in DOMAIN Segments : pc = "stack" \/ j < call.i}}

\* The one that is loaded now is in the image up to call.start, and while
\* call.start is inside the page loaded last, call.page is that page.
FillingImage ==
    /\ UserBase <= ph.va /\ ph.va <= call.start /\ call.start <= ph.va + ph.memsz
    /\ LoadedTo(mem, work.pgdir, ph, call.start)
    /\ pc = "file" => call.start <= ph.va + ph.filesz
    /\ pc = "bss" => ph.va + ph.filesz <= call.start
    /\ pc = "file" /\ call.start < call.la =>
          LET la == call.la - PGSIZE
          IN  /\ la \in UPage /\ la <= call.start /\ PhArea.vm_start <= la
              /\ pte(mem, work.pgdir, la) # NULL /\ pte(mem, work.pgdir, la).page = call.page
    /\ Clear(LoadedSegments, PhArea)

\* What the child has is what the parent has,
Agreed(m, from, root) ==
    \A a \in UPage : pte(m, root, a) # NULL => SameAt(m, from, m, root, a)
\* and the child has the areas that dup_mmap() is done with.
Source == mm[call.src]
CopyingImage ==
    /\ Agreed(mem, Source.pgdir, work.pgdir)
    /\ \A k \in DOMAIN Source.mmap_list : k > call.i =>
          CopiedTo(mem, Source.pgdir, work.pgdir,
                   Source.mmap_list[k].vm_start, Source.mmap_list[k].vm_end)

\* What has been loaded or copied so far is where it should be.
ImageInv ==
    /\ pc \in Loading => AllIn(mem, work.pgdir, LoadedSegments)
    /\ pc \in {"file", "bss"} => FillingImage
    /\ pc = "stack" => Clear(LoadedSegments, StackArea)
    /\ pc \in Copying => CopyingImage

-----------------------------------------------------------------------------
\* The segments of a program.
LEMMA LoadedAre ==
    ASSUME AreaInv, pc \in Loading
    PROVE  LoadedSegments \subseteq Segment /\ Segments \in Seq(Segment)
<1>1. call.prog \in Programs
  BY Before DEF Calling, Loading
<1>2. Segments \in Seq(Segment)
  BY <1>1, Constants DEF Segments
<1>3. \A k \in DOMAIN Segments : Segments[k] \in Segment
  BY <1>2
<1> QED BY <1>2, <1>3 DEF LoadedSegments

\* Loaded segments stay loaded if their bytes stay.
LEMMA AllInKept ==
    ASSUME NEW m, NEW n, NEW root, NEW q, NEW S \in SUBSET Segment, AllIn(m, root, S),
           \A s \in S : \A a \in s.va .. s.va + s.memsz - 1 :
               a \in Nat /\ a < UserTop => ByteOf(n, q, a) = ByteOf(m, root, a)
    PROVE  AllIn(n, q, S)
<1> SUFFICES ASSUME NEW s \in S PROVE SegmentIn(n, q, s)
  BY DEF AllIn
<1>1. SegmentIn(m, root, s)
  BY DEF AllIn
<1>2. s.va \in Nat /\ s.memsz \in Nat
  BY DEF Segment
<1>3. ASSUME NEW a \in s.va .. s.va + s.memsz - 1
      PROVE  ByteOf(n, q, a) = FileByte(s, a)
  <2>1. a \in Nat /\ a < UserTop
    BY <1>1, <1>2, Constants DEF SegmentIn
  <2>2. PICK end \in Nat : end = s.va + s.memsz
    BY <1>2
  <2>3. LoadedTo(m, root, s, end)
    BY <1>1, <2>2 DEF SegmentIn
  <2>4. a \in s.va .. end - 1
    BY <1>2, <2>2
  <2>5. ByteOf(m, root, a) = FileByte(s, a)
    BY <2>3, <2>4 DEF LoadedTo
  <2> QED BY <2>1, <2>5
<1>4. PICK end \in Nat : end = s.va + s.memsz
  BY <1>2
<1>5. LoadedTo(n, q, s, end)
  BY <1>2, <1>3, <1>4 DEF LoadedTo
<1> QED BY <1>1, <1>4, <1>5 DEF SegmentIn

\* An image that stays does so byte by byte.
LEMMA SameImageBytes ==
    ASSUME NEW m, NEW r, NEW n, NEW q, SameImage(m, r, n, q), NEW a \in Nat, a < UserTop
    PROVE  ByteOf(n, q, a) = ByteOf(m, r, a)
<1>1. ROUNDDOWN(a, PGSIZE) \in UPage
  BY BytePage
<1> QED BY <1>1, ByteKept DEF SameImage

\* Segments that are loaded stay so in an image that stays.
LEMMA AllInSame ==
    ASSUME NEW m, NEW n, NEW root, NEW S \in SUBSET Segment, AllIn(m, root, S),
           SameImage(m, root, n, root)
    PROVE  AllIn(n, root, S)
BY SameImageBytes, AllInKept

\* An area holds all bytes of its pages.
LEMMA WholePages ==
    ASSUME NEW v, InUserMemory(v), v.vm_start \in Nat, v.vm_end \in Nat,
           NEW la \in UPage, Holds(v, la), NEW a \in Nat, InPage(a, la)
    PROVE  Holds(v, a)
<1>1. la \in Nat /\ la % PGSIZE = 0 /\ PGSIZE \in Nat /\ v.vm_end % PGSIZE = 0
  BY UPageFacts, Constants DEF InUserMemory
<1>2. v.vm_start <= la /\ la < v.vm_end /\ la <= a /\ a < la + PGSIZE
  BY DEF Holds, InPage
<1>3. CASE a < v.vm_end
  BY <1>1, <1>2, <1>3 DEF Holds
<1>4. CASE ~(a < v.vm_end)
  <2>1. la <= v.vm_end /\ v.vm_end < la + PGSIZE
    BY <1>1, <1>2, <1>4
  <2>2. v.vm_end = la
    BY <1>1, <2>1, NextPage
  <2> QED BY <1>1, <1>2, <2>2
<1> QED BY <1>3, <1>4

\* A change of one page of an area that is clear of the loaded segments.
LEMMA AllInBut ==
    ASSUME NEW m, NEW n, NEW root, NEW S \in SUBSET Segment, AllIn(m, root, S),
           NEW la \in UPage, SameBut(m, n, root, la),
           NEW v, InUserMemory(v), v.vm_start \in Nat, v.vm_end \in Nat, Holds(v, la), Clear(S, v)
    PROVE  AllIn(n, root, S)
<1>1. ASSUME NEW s \in S, NEW a \in s.va .. s.va + s.memsz - 1, a \in Nat, a < UserTop
      PROVE  ByteOf(n, root, a) = ByteOf(m, root, a)
  <2>1. ~Holds(v, a)
    BY DEF Clear
  <2>2. ~InPage(a, la)
    BY <1>1, <2>1, WholePages
  <2> QED BY <1>1, <2>2, ByteElse
<1> QED BY <1>1, AllInKept

-----------------------------------------------------------------------------
\* The memory that the processes see.
Seen == [s \in Space |-> Image(s)]

\* What a process sees is the image of its page directory.
LEMMA ImageIs ==
    ASSUME NEW s
    PROVE  Image(s) = IF mm[s] = NULL THEN NULL ELSE ImageOf(mem, mm[s].pgdir)
BY Zenon DEF Image, ImageOf

\* It does not change if the address spaces and their images do not.
LEMMA SeenKept ==
    ASSUME \A s \in Space : /\ mm'[s] = NULL <=> mm[s] = NULL
                            /\ mm[s] # NULL => /\ mm'[s].pgdir = mm[s].pgdir
                                               /\ SameImage(mem, mm[s].pgdir, mem', mm[s].pgdir)
    PROVE  Seen' = Seen
<1>1. ASSUME NEW s \in Space PROVE Image(s)' = Image(s)
  <2>1. Image(s) = IF mm[s] = NULL THEN NULL ELSE ImageOf(mem, mm[s].pgdir)
    BY ImageIs
  <2>2. Image(s)' = IF mm'[s] = NULL THEN NULL ELSE ImageOf(mem', mm'[s].pgdir)
    BY Zenon DEF Image, ImageOf
  <2>3. CASE mm[s] = NULL
    BY <2>1, <2>2, <2>3
  <2>4. CASE mm[s] # NULL
    <3>1. ImageOf(mem', mm[s].pgdir) = ImageOf(mem, mm[s].pgdir)
      BY <2>4, ImagesAgree
    <3> QED BY <2>1, <2>2, <2>4, <3>1
  <2> QED BY <2>3, <2>4
<1> QED BY <1>1 DEF Seen

\* Memory with the same tables and bytes has the same images.
LEMMA SameSelf ==
    ASSUME NEW m, NEW n, n.data = m.data, n.entry = m.entry
    PROVE  \A r : SameImage(m, r, n, r)
BY DEF SameImage, SameAt, PageAt, pte, Below

\* A step that works on the address space that no process has yet, or any more.
LEMMA SeenOthers ==
    ASSUME PageInv, pc # "boot", work # NULL, mm' = mm, OtherImages(mem, mem', work.pgdir)
    PROVE  Seen' = Seen
<1>1. \A s \in Space : mm[s] # NULL => mm[s].pgdir \in Dirs(mem) /\ mm[s].pgdir # work.pgdir
  BY Trees, WorkAlone
<1> QED BY <1>1, SeenKept DEF OtherImages

\* A step that keeps all images.
LEMMA SeenAll ==
    ASSUME PageInv, pc # "boot", mm' = mm, \A r \in Dirs(mem) : SameImage(mem, r, mem', r)
    PROVE  Seen' = Seen
<1>1. \A s \in Space : mm[s] # NULL => mm[s].pgdir \in Dirs(mem)
  BY Trees
<1> QED BY <1>1, SeenKept

\* A step that changes neither.
LEMMA SeenSame ==
    ASSUME mm' = mm, mem' = mem
    PROVE  Seen' = Seen
BY SameSelf, SeenKept

\* Nothing is being loaded or copied.
LEMMA ImageElse ==
    ASSUME pc' \notin Loading \cup Copying
    PROVE  ImageInv'
BY DEF ImageInv, Loading

\* A call fails, and what it has built is torn down.
LEMMA ImageTeardown ==
    ASSUME PageInv, pc # "boot", work # NULL, mm' = mm, NEW m,
           OtherImages(mem, m, work.pgdir), NEW sp, NEW then, Teardown(m, sp, then)
    PROVE  ImageInv' /\ Seen' = Seen
<1>1. mem' = m /\ pc' = "unmap"
  BY DEF Teardown
<1>2. Seen' = Seen
  BY <1>1, SeenOthers
<1>3. ImageInv'
  BY <1>1, ImageElse DEF Loading, Copying
<1> QED BY <1>2, <1>3

\* Then its memory is as it was.
LEMMA SameOthers ==
    ASSUME NEW m, NEW n, n.data = m.data, n.entry = m.entry, NEW root
    PROVE  OtherImages(m, n, root)
BY SameSelf DEF OtherImages

\* No process sees anything at boot.
LEMMA ImageBoot ==
    ASSUME AreaInv, PageInv, Boot
    PROVE  ImageInv' /\ Seen' = Seen
<1>1. pc = "boot" /\ pc' \in {"boot", "user_main"} /\ mm' = mm
  BY DEF Boot, BootFirst, BootSecond, BootShare, BootRemove, BootFree, At, NextCheck
<1>2. \A s \in Space : mm[s] = NULL
  BY <1>1, Before
<1>3. Seen' = Seen
  BY <1>1, <1>2, SeenKept
<1>4. ImageInv'
  BY <1>1, ImageElse DEF Loading, Copying
<1> QED BY <1>3, <1>4

\* exit_mmap() unmaps only pages of the address space that is torn down,
LEMMA ImageUnmap ==
    ASSUME AreaInv, PageInv, Unmap
    PROVE  ImageInv' /\ Seen' = Seen
<1>1. pc = "unmap" /\ mm' = mm /\ pc' \in {"unmap", "exit_range"}
  BY DEF Unmap
<1>2. /\ IsSpace(work) /\ call \in CallType /\ work # NULL
      /\ Good(mem) /\ mem \in Memory /\ work.pgdir \in Dirs(mem) /\ call.i > 0
  BY <1>1, Before, Trees, Constants DEF Building, IsSpace, Cursor, Good
<1>3. ImageInv'
  BY <1>1, ImageElse DEF Loading, Copying
<1>4. CASE call.i <= Len(work.mmap_list)
  <2>1. PICK k \in 1 .. Len(work.mmap_list) : k = call.i
    BY <1>2, <1>4, SpaceFacts DEF CallType
  <2>2. PICK vma : vma = work.mmap_list[k]
    OBVIOUS
  <2>3. vma.vm_start \in Nat /\ vma.vm_end \in Nat /\ vma.vm_end <= UserTop
    BY <1>2, <2>1, <2>2, AreaBounds
  <2>4. mem' = unmap_range(mem, work.pgdir, vma.vm_start, vma.vm_end)
    BY <1>4, <2>1, <2>2 DEF Unmap
  <2>5. OtherMaps(mem, mem', work.pgdir)
    BY <1>2, <2>3, <2>4, UnmapMap
  <2>6. Good(mem') /\ Dirs(mem') = Dirs(mem)
    BY <1>2, <2>3, <2>4, UnmapKeeps DEF Keeps
  <2>7. SameBytes(mem, mem')
    BY <1>2, <2>4, UnmapBytes
  <2>8. OtherImages(mem, mem', work.pgdir)
    BY <2>5, <2>6, <2>7, OthersKept
  <2> QED BY <1>1, <1>2, <1>3, <2>8, SeenOthers
<1>5. CASE ~(call.i <= Len(work.mmap_list))
  <2>1. mem' = mem
    BY <1>5 DEF Unmap
  <2> QED BY <1>1, <1>3, <2>1, SeenSame
<1> QED BY <1>4, <1>5

\* and what follows frees only its tables.
LEMMA ImageExitRange ==
    ASSUME AreaInv, PageInv, ExitRange
    PROVE  ImageInv' /\ Seen' = Seen
<1>1. pc = "exit_range" /\ mm' = mm /\ pc' \in {"exit_range", "load", "user"}
  BY DEF ExitRange
<1>2. /\ IsSpace(work) /\ work # NULL /\ Good(mem) /\ mem \in Memory
      /\ work.pgdir \in Dirs(mem)
  BY <1>1, Before, Trees, Constants DEF Building, IsSpace, Good
<1>3. ImageInv'
  BY <1>1, ImageElse DEF Loading, Copying
<1>4. CASE call.i <= Len(work.mmap_list)
  <2>1. PICK vma : vma = work.mmap_list[call.i]
    OBVIOUS
  <2>2. mem' = exit_range(mem, work.pgdir, vma.vm_start, vma.vm_end)
    BY <1>4, <2>1 DEF ExitRange
  <2>3. OtherMaps(mem, mem', work.pgdir)
    BY <1>2, <2>2, ExitRangeMap
  <2>4. Good(mem') /\ Dirs(mem') = Dirs(mem)
    BY <1>2, <2>2, ExitRangeKeeps DEF Keeps
  <2>5. SameBytes(mem, mem')
    BY <1>2, <2>2, ExitRangeBytes
  <2>6. OtherImages(mem, mem', work.pgdir)
    BY <2>3, <2>4, <2>5, OthersKept
  <2> QED BY <1>1, <1>2, <1>3, <2>6, SeenOthers
<1>5. CASE ~(call.i <= Len(work.mmap_list))
  <2>1. PICK F \in SUBSET Page : F = {work.pgdir}
    BY <1>2 DEF Dirs
  <2>2. mem' = free_page(mem, F)
    BY <1>5, <2>1 DEF ExitRange, put_pgdir
  <2>3. \A p \in F : mem.ref[p] = 0
    BY <1>2, <2>1 DEF Good, Dirs
  <2>4. SameBytes(mem, mem')
    BY <2>2, FreeBytes
  <2>5. Good(mem') /\ Dirs(mem') = Dirs(mem) \ F
    BY <1>2, <2>2, <2>3, FreeKeeps
  <2>6. ASSUME NEW r \in Dirs(mem), r # work.pgdir PROVE SameImage(mem, r, mem', r)
    <3>1. r \in Dirs(mem) \ F /\ r \in Dirs(mem')
      BY <2>1, <2>5, <2>6
    <3>2. \A a \in UPage : pte(mem', r, a) = pte(mem, r, a)
      BY <1>2, <2>2, <2>3, <3>1, FreeMap
    <3>3. ASSUME NEW a \in UPage, pte(mem', r, a) # NULL
          PROVE  mem'.data[pte(mem', r, a).page] = mem.data[pte(mem', r, a).page]
      BY <2>4, <2>5, <3>1, <3>3, MappedUse DEF SameBytes
    <3> QED BY <2>5, <3>1, <3>2, <3>3, ImageKept
  <2>7. OtherImages(mem, mem', work.pgdir)
    BY <2>6 DEF OtherImages
  <2> QED BY <1>1, <1>2, <1>3, <2>7, SeenOthers
<1> QED BY <1>4, <1>5

\* user_mem_check() and the start of user_main() change nothing.
LEMMA ImageLook ==
    ASSUME \/ UserMain \/ MemCheckReturn
           \/ \E s \in Space, c \in Checks, write \in BOOLEAN : MemCheck(s, c[1], c[2], write)
    PROVE  ImageInv' /\ Seen' = Seen
<1>1. mem' = mem /\ mm' = mm /\ pc' \in {"load", "user", "check", "no"}
  BY DEF UserMain, MemCheckReturn, MemCheck
<1>2. ImageInv'
  BY <1>1, ImageElse DEF Loading, Copying
<1> QED BY <1>1, <1>2, SeenSame

\* A round of user_mem_check() changes what was found last.
LEMMA ImageCheckRound ==
    ASSUME AreaInv, MemCheckRound
    PROVE  ImageInv' /\ Seen' = Seen
<1>1. /\ pc = "check" /\ mem' = mem /\ pc' \in {"check", "yes", "no"}
      /\ \/ mm' = mm
         \/ mm' = [mm EXCEPT ![call.proc] = found(mm[call.proc], call.start)]
  BY DEF MemCheckRound
<1>2. PICK s \in Space : s = call.proc
  BY <1>1, Before DEF Calling, InCall
<1>3. /\ mm \in [Space -> mm_struct \cup {NULL}] /\ mm[s] # NULL /\ IsSpace(mm[s])
      /\ mm[s] \in mm_struct /\ call.start \in Int
  BY <1>1, <1>2, Before DEF AreaInv, Spaces, MemChecking, Checking, IsSpace, CallType
<1>4. PICK v : v = found(mm[s], call.start) /\ v.pgdir = mm[s].pgdir /\ v # NULL
  BY <1>3, Found, SamePgdir, Constants DEF IsSpace
<1>5. \A x \in Space : mm'[x] = mm[x] \/ (x = s /\ mm'[x] = v)
  BY <1>1, <1>2, <1>3, <1>4
<1>6. \A r : SameImage(mem, r, mem', r)
  BY <1>1, SameSelf
<1>7. Seen' = Seen
  BY <1>3, <1>4, <1>5, <1>6, SeenKept
<1>8. ImageInv'
  BY <1>1, ImageElse DEF Loading, Copying
<1> QED BY <1>7, <1>8

\* Nothing happens.
LEMMA ImageStutter ==
    ASSUME ImageInv, UNCHANGED vars
    PROVE  ImageInv' /\ Seen' = Seen
<1>1. mem' = mem /\ mm' = mm /\ work' = work /\ pc' = pc /\ call' = call
  BY DEF vars
<1>2. Seen' = Seen
  BY <1>1, SeenSame
<1>3. ImageInv'
  BY <1>1 DEF ImageInv, FillingImage, CopyingImage, LoadedSegments, PhArea, StackArea, Source,
              ph, Segments
<1> QED BY <1>2, <1>3

-----------------------------------------------------------------------------
\* A new address space has no memory yet.
LEMMA ImageNew ==
    ASSUME AreaInv, PageInv, pc \in {"load", "user"}, mm' = mm, Free(mem) # {},
           mem' = setup_pgdir(mem), work' = mm_create(mem)
    PROVE  Seen' = Seen /\ \A a \in UPage : pte(mem', work'.pgdir, a) = NULL
<1>1. PICK p \in Page : p = alloc_page(mem) /\ mem.use[p] = "free"
  BY AllocPage DEF Free
<1>2. Good(mem) /\ mem \in Memory
  BY Trees DEF Good
<1>3. \A a \in UPage : /\ pte(mem', p, a) = NULL
                       /\ \A r \in Dirs(mem) : pte(mem', r, a) = pte(mem, r, a)
  BY <1>1, <1>2, TakeDirMap
<1>4. mem'.data = mem.data
  BY <1>2, TakeDirBytes
<1>5. \A r \in Dirs(mem) : SameImage(mem, r, mem', r)
  BY <1>3, <1>4 DEF SameImage, SameAt, PageAt
<1>6. Seen' = Seen
  BY <1>5, SeenAll
<1>7. work'.pgdir = p
  BY <1>1 DEF mm_create
<1> QED BY <1>3, <1>6, <1>7

\* load_icode() begins: no segment is loaded.
LEMMA ImageLoad ==
    ASSUME AreaInv, PageInv, Load
    PROVE  ImageInv' /\ Seen' = Seen
<1>1. pc = "load" /\ mm' = mm
  BY DEF Load
<1>2. CASE /\ Free(mem) # {} /\ mem' = setup_pgdir(mem) /\ work' = mm_create(mem)
           /\ (\E prog \in Programs : call' = [call EXCEPT !.prog = prog, !.i = 1])
           /\ pc' = "segment"
  <2>1. Seen' = Seen
    BY <1>1, <1>2, ImageNew
  <2>2. call \in CallType
    BY <1>1, Before
  <2>3. call'.prog \in Programs /\ call'.i = 1
    BY <1>2, <2>2 DEF CallType
  <2>4. Segments' \in Seq(Segment)
    BY <2>3, Constants DEF Segments
  <2>5. \A j \in DOMAIN Segments' : ~(j < 1)
    BY <2>4
  <2>6. LoadedSegments' = {}
    BY <1>2, <2>3, <2>5 DEF LoadedSegments
  <2>7. AllIn(mem', work'.pgdir, LoadedSegments')
    BY <2>6 DEF AllIn
  <2> QED BY <1>2, <2>1, <2>7 DEF ImageInv, Copying
<1>3. CASE pc' = "user" /\ mem' = mem
  <2>1. ImageInv'
    BY <1>3, ImageElse DEF Loading, Copying
  <2> QED BY <1>1, <1>3, <2>1, SeenSame
<1> QED BY <1>2, <1>3 DEF Load

\* copy_mm() begins: the child has no memory, and no area is copied.
LEMMA ImageFork ==
    ASSUME AreaInv, PageInv, NEW s \in Space, NEW t \in Space, Fork(s, t)
    PROVE  ImageInv' /\ Seen' = Seen
<1>1. /\ pc = "user" /\ mm' = mm /\ mm[s] # NULL /\ Free(mem) # {} /\ pc' = "dup"
      /\ mem' = setup_pgdir(mem) /\ work' = mm_create(mem)
      /\ call' = [NoCall EXCEPT !.proc = t, !.src = s, !.i = Len(mm[s].mmap_list)]
  BY DEF Fork
<1>2. Seen' = Seen /\ \A a \in UPage : pte(mem', work'.pgdir, a) = NULL
  BY <1>1, ImageNew
<1>3. IsSpace(mm[s])
  BY <1>1, Before
<1>4. call'.i = Len(mm[s].mmap_list) /\ call'.src = s
  BY <1>1 DEF NoCall
<1>5. Source' = mm[s]
  BY <1>1, <1>4 DEF Source
<1>6. PICK n \in Nat : n = Len(mm[s].mmap_list) /\ DOMAIN mm[s].mmap_list = 1 .. n
  BY <1>3, SpaceFacts
<1>7. \A k \in DOMAIN Source'.mmap_list : ~(k > call'.i)
  BY <1>4, <1>5, <1>6
<1>8. CopyingImage'
  BY <1>2, <1>7 DEF CopyingImage, Agreed
<1> QED BY <1>1, <1>2, <1>8 DEF ImageInv, Loading

\* These calls work on no address space then.
LEMMA ImageIdle ==
    ASSUME \/ \E s \in Space : Exec(s) \/ Exit(s) \/ \E a \in StoreAddr : Store(s, a)
           \/ LoadDone \/ ForkDone
    PROVE  ImageInv'
<1>1. pc' \in {"unmap", "user"}
  BY DEF Exec, Exit, Store, LoadDone, ForkDone
<1> QED BY <1>1, ImageElse DEF Loading, Copying

-----------------------------------------------------------------------------
\* A byte of a segment is none that is not there.
LEMMA FileBytes ==
    ASSUME NEW s \in Segment, NEW a \in Nat
    PROVE  FileByte(s, a) \in Int /\ FileByte(s, a) # NULL
<1>1. s.va \in Nat /\ s.offset \in Nat
  BY DEF Segment
<1>2. FileByte(s, a) \in Int
  BY <1>1 DEF FileByte
<1> QED BY <1>2, PageTableAssumption

\* A byte of a loaded segment is mapped.
LEMMA LoadedByte ==
    ASSUME NEW m, NEW root, NEW S \in SUBSET Segment, AllIn(m, root, S),
           NEW s \in S, NEW a \in s.va .. s.va + s.memsz - 1
    PROVE  /\ a \in Nat /\ UserBase <= a /\ a < UserTop
           /\ ByteOf(m, root, a) = FileByte(s, a) /\ pte(m, root, a) # NULL
<1>1. SegmentIn(m, root, s)
  BY DEF AllIn
<1>2. s \in Segment /\ s.va \in Nat /\ s.memsz \in Nat
  BY DEF Segment
<1>3. a \in Nat /\ UserBase <= a /\ a < UserTop
  BY <1>1, <1>2, Constants DEF SegmentIn
<1>4. PICK end \in Nat : end = s.va + s.memsz
  BY <1>2
<1>5. LoadedTo(m, root, s, end)
  BY <1>1, <1>4 DEF SegmentIn
<1>6. ByteOf(m, root, a) = FileByte(s, a)
  BY <1>2, <1>4, <1>5 DEF LoadedTo
<1>7. FileByte(s, a) # NULL
  BY <1>2, <1>3, FileBytes
<1>8. pte(m, root, a) # NULL
  BY <1>6, <1>7 DEF ByteOf
<1> QED BY <1>3, <1>6, <1>8

\* mm_map() makes no area where a segment is loaded, since that is mapped and
\* so lies in another area.
LEMMA ClearArea ==
    ASSUME NEW sp, IsSpace(sp), NEW addr \in Nat, NEW len \in Nat,
           NEW flags \in SUBSET VmFlags, NEW memory \in BOOLEAN,
           addr + len + PGSIZE <= WordSize,
           NEW r, r = mm_map(sp, addr, len, flags, memory), r.ret = "ok",
           NEW v, v = vma_create(ROUNDDOWN(addr, PGSIZE), ROUNDUP(addr + len, PGSIZE), flags),
           NEW m, Within(m, sp), NEW S \in SUBSET Segment, AllIn(m, sp.pgdir, S)
    PROVE  Clear(S, v)
<1> SUFFICES ASSUME NEW s \in S, NEW a \in s.va .. s.va + s.memsz - 1, Holds(v, a)
             PROVE  FALSE
  BY DEF Clear
<1>1. a \in Nat /\ a < UserTop /\ pte(m, sp.pgdir, a) # NULL
  BY LoadedByte
<1>2. PICK b \in UPage : b = ROUNDDOWN(a, PGSIZE) /\ pte(m, sp.pgdir, b) # NULL
  BY <1>1, BytePage
<1>3. PICK w \in Areas(sp) : Holds(w, b)
  BY <1>2 DEF Within
<1>4. w \in vma_struct /\ InUserMemory(w) /\ w.vm_start \in Nat /\ w.vm_end \in Nat
  <2>1. w \in vma_struct /\ InUserMemory(w)
    BY SpaceFacts DEF Areas
  <2> QED BY <2>1, Constants DEF InUserMemory, vma_struct
<1>5. Holds(w, a)
  BY <1>1, <1>2, <1>4, <1>3, PageOfByte, WholePages
<1>6. Areas(r.mm) = Areas(sp) \cup {v} /\ IsSpace(r.mm)
  BY MmMapAreas
<1>7. w = v
  BY <1>1, <1>5, <1>6, OneArea DEF Areas
<1>8. PICK start : start = ROUNDDOWN(addr, PGSIZE)
  OBVIOUS
<1>9. start \in Nat /\ v.vm_start = start
  BY <1>8, Rounding DEF vma_create
<1>10. find_vma(sp, start) = NULL
  BY <1>8 DEF mm_map
<1>11. Holds(w, start)
  BY <1>4, <1>7, <1>9, Constants DEF InUserMemory, Holds
<1> QED BY <1>9, <1>10, <1>11, FindVma DEF Areas

\* The header of a segment: nothing of it is loaded.
LEMMA ImageLoadSegment ==
    ASSUME AreaInv, PageInv, MapInv, ImageInv, LoadSegment
    PROVE  ImageInv' /\ Seen' = Seen
<1>1. pc = "segment" /\ call.i <= Len(Segments) /\ mm' = mm /\ pc # "boot"
  BY DEF LoadSegment
<1>2. /\ IsSpace(work) /\ work # NULL /\ call \in CallType
      /\ call.prog \in Programs /\ Within(mem, work) /\ OtherImages(mem, mem, work.pgdir)
  BY <1>1, Loaded, SameOthers DEF Loading, MapInv, Fits
<1>3. call.i \in 1 .. Len(Segments) /\ LoadedSegments \subseteq Segment
  <2>1. Segments \in Seq(Segment) /\ LoadedSegments \subseteq Segment
    BY <1>1, LoadedAre DEF Loading
  <2>2. Len(Segments) \in Nat /\ call.i \in Nat /\ call.i > 0
    BY <2>1, <1>1, <1>2, LenProperties, Before DEF CallType, Calling
  <2> QED BY <2>1, <2>2, <1>1
<1>4. /\ ph.va \in Nat /\ ph.filesz \in Nat /\ ph.memsz \in Nat /\ ph.flags \in SUBSET VmFlags
      /\ ph.filesz <= ph.memsz => ph.va + ph.memsz + PGSIZE <= WordSize
  BY <1>2, <1>3, CurrentSegment
<1>5. CASE Teardown(mem, work, "load_failed")
  BY <1>1, <1>2, <1>5, ImageTeardown
<1>6. CASE ~(ph.filesz > ph.memsz)
  <2>1. PICK memory \in BOOLEAN :
           LET r == mm_map(work, ph.va, ph.memsz, ph.flags, memory)
           IN  CASE r.ret = "ok" ->
                       /\ work' = r.mm /\ pc' = "file"
                       /\ call' = [call EXCEPT !.start = ph.va,
                                               !.la = ROUNDDOWN(ph.va, PGSIZE)]
                       /\ UNCHANGED <<mem, spoiled>>
                 [] r.ret = "panic" -> pc' = "panic" /\ UNCHANGED <<mem, work, call, spoiled>>
                 [] OTHER -> Teardown(mem, r.mm, "load_failed")
    BY <1>6 DEF LoadSegment
  <2>2. PICK r : r = mm_map(work, ph.va, ph.memsz, ph.flags, memory)
    OBVIOUS
  <2>3. CASE r.ret = "ok"
    <3>1. /\ work' = r.mm /\ pc' = "file" /\ mem' = mem
          /\ call' = [call EXCEPT !.start = ph.va, !.la = ROUNDDOWN(ph.va, PGSIZE)]
      BY <2>1, <2>2, <2>3
    <3>2. /\ call'.prog = call.prog /\ call'.i = call.i /\ call'.start = ph.va
          /\ call'.la = ROUNDDOWN(ph.va, PGSIZE)
      BY <3>1, <1>2 DEF CallType
    <3>3. ph' = ph /\ Segments' = Segments
      BY <3>2 DEF ph, Segments
    <3>4. PhArea' = PhArea
      BY <3>3 DEF PhArea
    <3>5. LoadedSegments' = LoadedSegments
      BY <1>1, <3>1, <3>2, <3>3 DEF LoadedSegments
    <3>6. PICK v : v = vma_create(ROUNDDOWN(ph.va, PGSIZE),
                                  ROUNDUP(ph.va + ph.memsz, PGSIZE), ph.flags)
      OBVIOUS
    <3>7. AllIn(mem, work.pgdir, LoadedSegments)
      BY <1>1 DEF ImageInv, Loading
    <3>8. /\ Areas(r.mm) = Areas(work) \cup {v} /\ r.mm.pgdir = work.pgdir /\ IsSpace(r.mm)
          /\ Clear(LoadedSegments, v)
      <4>1. PICK addr \in Nat, len \in Nat, flags \in SUBSET VmFlags :
               addr = ph.va /\ len = ph.memsz /\ flags = ph.flags
        BY <1>4
      <4>2. addr + len + PGSIZE <= WordSize
        BY <1>4, <1>6, <4>1
      <4>3. r = mm_map(work, addr, len, flags, memory) /\ r.ret = "ok"
        BY <2>2, <2>3, <4>1
      <4>4. v = vma_create(ROUNDDOWN(addr, PGSIZE), ROUNDUP(addr + len, PGSIZE), flags)
        BY <3>6, <4>1
      <4>5. Areas(r.mm) = Areas(work) \cup {v} /\ r.mm.pgdir = work.pgdir /\ IsSpace(r.mm)
        BY <1>2, <4>2, <4>3, <4>4, MmMapAreas
      <4>6. Clear(LoadedSegments, v)
        BY <1>2, <1>3, <3>7, <4>2, <4>3, <4>4, ClearArea
      <4> QED BY <4>5, <4>6
    <3>9. Clear(LoadedSegments, v)
      BY <3>8
    <3>10. UserBase <= ph.va
      <4>1. InUserMemory(v)
        BY <3>8, SpaceFacts DEF Areas
      <4>2. UserBase <= ROUNDDOWN(ph.va, PGSIZE)
        BY <3>6, <4>1 DEF InUserMemory, vma_create
      <4>3. ROUNDDOWN(ph.va, PGSIZE) \in Nat /\ ROUNDDOWN(ph.va, PGSIZE) <= ph.va
        BY <1>4, Constants, RoundBounds
      <4> QED BY <1>4, <4>2, <4>3, Constants
    <3>11. LoadedTo(mem, work.pgdir, ph, ph.va)
      BY <1>4 DEF LoadedTo
    <3>12. ~(call'.start < call'.la)
      <4>1. ROUNDDOWN(ph.va, PGSIZE) \in Nat /\ ROUNDDOWN(ph.va, PGSIZE) <= ph.va
        BY <1>4, Constants, RoundBounds
      <4> QED BY <1>4, <3>2, <4>1
    <3>13. ph.va <= ph.va + ph.memsz /\ ph.va <= ph.va + ph.filesz
      BY <1>4
    <3>14. v = PhArea
      BY <3>6 DEF PhArea
    <3>15. FillingImage'
      BY <1>4, <3>1, <3>2, <3>3, <3>4, <3>5, <3>8, <3>9, <3>10, <3>11, <3>12, <3>13, <3>14
      DEF FillingImage
    <3>16. AllIn(mem', work'.pgdir, LoadedSegments')
      BY <3>1, <3>5, <3>8, <3>7
    <3>17. Seen' = Seen
      BY <1>1, <3>1, SeenSame
    <3> QED BY <3>1, <3>15, <3>16, <3>17 DEF ImageInv, Copying
  <2>4. CASE r.ret = "panic"
    <3>1. pc' = "panic" /\ mem' = mem
      BY <2>1, <2>2, <2>3, <2>4
    <3>2. ImageInv'
      BY <3>1, ImageElse DEF Loading, Copying
    <3> QED BY <1>1, <3>1, <3>2, SeenSame
  <2>5. CASE r.ret # "ok" /\ r.ret # "panic"
    <3>1. Teardown(mem, r.mm, "load_failed")
      BY <2>1, <2>2, <2>5
    <3> QED BY <1>1, <1>2, <3>1, ImageTeardown
  <2> QED BY <2>3, <2>4, <2>5
<1> QED BY <1>5, <1>6 DEF LoadSegment

\* A file that is none.
LEMMA ImageLoadBadMagic ==
    ASSUME AreaInv, PageInv, LoadBadMagic
    PROVE  ImageInv' /\ Seen' = Seen
<1>1. pc = "segment" /\ pc # "boot" /\ mm' = mm /\ Teardown(mem, work, "load_failed")
  BY DEF LoadBadMagic
<1>2. work # NULL /\ OtherImages(mem, mem, work.pgdir)
  BY <1>1, Loaded, SameOthers DEF Loading
<1> QED BY <1>1, <1>2, ImageTeardown

\* The segment that is loaded now.
LEMMA FillingFacts ==
    ASSUME AreaInv, PageInv, MapInv, ImageInv, pc \in {"file", "bss"}
    PROVE  /\ IsSpace(work) /\ work # NULL /\ call \in CallType /\ work.pgdir \in Dirs(mem)
           /\ Good(mem) /\ LoadedSegments \subseteq Segment /\ FillingImage
           /\ AllIn(mem, work.pgdir, LoadedSegments)
           /\ ph.va \in Nat /\ ph.filesz \in Nat /\ ph.memsz \in Nat /\ ph.offset \in Nat
           /\ ph.filesz <= ph.memsz /\ ph.va + ph.memsz <= UserTop
           /\ call.start \in Nat /\ call.la \in Nat
           /\ InUserMemory(PhArea) /\ PhArea.vm_start \in Nat /\ PhArea.vm_end \in Nat
           /\ ph.va + ph.memsz <= PhArea.vm_end /\ PhArea.vm_start <= call.la
           /\ call.la % PGSIZE = 0
           /\ file_end = ph.va + ph.filesz /\ mem_end = ph.va + ph.memsz
<1>1. /\ IsSpace(work) /\ work # NULL /\ call \in CallType /\ work.pgdir \in Dirs(mem)
      /\ Good(mem) /\ Filling
      /\ file_end = ph.va + ph.filesz /\ mem_end = ph.va + ph.memsz
      /\ ph.va \in Nat /\ ph.filesz \in Nat /\ ph.memsz \in Nat /\ ph.offset \in Nat
      /\ call.start \in Int
  BY Filler
<1>2. LoadedSegments \subseteq Segment
  BY LoadedAre DEF Loading
<1>3. AllIn(mem, work.pgdir, LoadedSegments) /\ FillingImage
  BY DEF ImageInv, Loading
<1>4. /\ FillingMap /\ InUserMemory(PhArea) /\ PhArea.vm_start \in Nat
      /\ PhArea.vm_end \in Nat /\ ph.va + ph.memsz <= PhArea.vm_end /\ call.la \in Nat
  BY FillingArea
<1>5. PhArea.vm_start <= call.la /\ call.la % PGSIZE = 0
  BY <1>4 DEF FillingMap
<1>6. call.start \in Nat
  BY <1>1, <1>3 DEF FillingImage
<1> QED BY <1>1, <1>2, <1>3, <1>4, <1>5, <1>6 DEF Filling

\* One page of it: the bytes from call.start on are those of the segment.
LEMMA ImageLoadPage ==
    ASSUME AreaInv, PageInv, MapInv, ImageInv, pc \in {"file", "bss"}, mm' = mm,
           NEW file \in BOOLEAN, file <=> pc = "file",
           NEW end, end = ph.va + (IF pc = "file" THEN ph.filesz ELSE ph.memsz),
           call.start < end, LoadPage(end, file)
    PROVE  ImageInv' /\ Seen' = Seen
<1>1. /\ IsSpace(work) /\ work # NULL /\ call \in CallType /\ work.pgdir \in Dirs(mem)
      /\ Good(mem) /\ LoadedSegments \subseteq Segment /\ FillingImage
      /\ AllIn(mem, work.pgdir, LoadedSegments)
      /\ ph.va \in Nat /\ ph.filesz \in Nat /\ ph.memsz \in Nat /\ ph.offset \in Nat
      /\ ph.filesz <= ph.memsz /\ ph.va + ph.memsz <= UserTop
      /\ call.start \in Nat /\ call.la \in Nat
      /\ InUserMemory(PhArea) /\ PhArea.vm_start \in Nat /\ PhArea.vm_end \in Nat
      /\ ph.va + ph.memsz <= PhArea.vm_end /\ PhArea.vm_start <= call.la
      /\ call.la % PGSIZE = 0
  BY FillingFacts
<1>2. PICK start \in Nat : start = call.start /\ call.la <= start /\ start < end
  BY <1>1, Filler DEF Filling
<1>3. end \in Nat /\ end <= UserTop /\ end <= ph.va + ph.memsz
  <2>1. PICK va \in Nat, f \in Nat, l \in Nat : va = ph.va /\ f = ph.filesz /\ l = ph.memsz
    BY <1>1
  <2>2. f <= l /\ va + l <= UserTop /\ end = va + (IF pc = "file" THEN f ELSE l)
    BY <1>1, <2>1
  <2>3. end \in Nat /\ end <= va + l
    BY <2>1, <2>2
  <2> QED BY <2>1, <2>2, <2>3, Constants
<1>4. PICK la \in UPage : la = call.la
  <2>1. call.la < UserTop
    BY <1>1, <1>2, <1>3, Constants
  <2> QED BY <1>1, <2>1, Constants DEF UPage, PagesOf
<1>5. la \in Nat /\ la <= start /\ Holds(PhArea, la)
  BY <1>1, <1>2, <1>3, <1>4 DEF Holds
<1>6. PICK bits \in Perm : bits = perm(ph.flags)
  BY AreaPerm
<1>7. PICK r : r = pgdir_alloc_page(mem, work.pgdir, la, bits)
  OBVIOUS
<1>8. /\ r.page = NULL => \A s \in Dirs(mem) : SameImage(mem, s, r.mem, s)
      /\ r.page # NULL => /\ OtherImages(mem, r.mem, work.pgdir)
                         /\ SameBut(mem, r.mem, work.pgdir, la)
                         /\ pte(r.mem, work.pgdir, la) # NULL
                         /\ pte(r.mem, work.pgdir, la).page = r.page
  BY <1>1, <1>7, NewPageImage
<1>9. CASE r.page = NULL
  <2>1. Teardown(r.mem, work, "load_failed")
    BY <1>4, <1>6, <1>7, <1>9 DEF LoadPage
  <2>2. OtherImages(mem, r.mem, work.pgdir)
    BY <1>8, <1>9 DEF OtherImages
  <2>3. pc # "boot"
    OBVIOUS
  <2> QED BY <1>1, <2>1, <2>2, <2>3, ImageTeardown
<1>10. CASE r.page # NULL
  <2> DEFINE next == call.la + PGSIZE
             size == IF end < next THEN end - call.start ELSE next - call.start
  <2>1. /\ call' = [call EXCEPT !.la = next, !.start = @ + size, !.page = r.page]
        /\ work' = work /\ pc' = pc
        /\ mem' = Filled(r.mem, r.page, call.la, call.start, size, file)
    BY <1>4, <1>6, <1>7, <1>10 DEF LoadPage
  <2>2. PICK ni \in Nat : ni = la + PGSIZE /\ ni = next
    BY <1>4, <1>5, Constants
  <2>3. start < ni
    <3>1. start <= la \/ (la = PhArea.vm_start /\ start = ph.va)
      BY <1>2, <1>4, FillingArea DEF FillingMap
    <3>2. CASE start <= la
      BY <1>5, <2>2, <3>2, Constants
    <3>3. CASE la = ROUNDDOWN(ph.va, PGSIZE) /\ start = ph.va
      BY <1>1, <2>2, <3>3, RoundBounds, Constants
    <3> QED BY <3>1, <3>2, <3>3, FillingArea
  <2>4. PICK new \in Nat : /\ new = call.start + size /\ start < new /\ new <= end /\ new <= ni
                           /\ new = end \/ new = ni
    BY <1>2, <1>3, <2>2, <2>3
  <2>5. PICK sz : sz = size /\ new = start + sz
    BY <1>2, <2>4
  <2>6. mem' = Filled(r.mem, r.page, la, start, sz, file)
    <3> HIDE DEF size
    <3> QED BY <1>2, <1>4, <2>1, <2>5
  <2>7. /\ call'.prog = call.prog /\ call'.i = call.i /\ call'.la = ni
        /\ call'.start = new /\ call'.page = r.page
    <3> HIDE DEF next, size
    <3> QED BY <1>1, <2>1, <2>2, <2>4 DEF CallType
  <2> HIDE DEF next, size
  <2>8. ph' = ph /\ Segments' = Segments
    BY <2>7 DEF ph, Segments
  <2>9. PhArea' = PhArea
    BY <2>8 DEF PhArea
  <2>10. LoadedSegments' = LoadedSegments
    BY <2>1, <2>7, <2>8 DEF LoadedSegments
  <2>11. Good(r.mem) /\ Dirs(r.mem) = Dirs(mem)
    BY <1>1, <1>5, <1>7, UPageFacts, NewPage DEF Keeps
  <2>12. /\ OtherImages(r.mem, mem', work.pgdir) /\ SameBut(r.mem, mem', work.pgdir, la)
         /\ \A a \in Nat : a < UserTop /\ InPage(a, la) =>
               ByteOf(mem', work.pgdir, a) = IF start <= a /\ a < start + sz
                                             THEN SegmentByte(a, file)
                                             ELSE ByteOf(r.mem, work.pgdir, a)
    <3>1. PICK p : p = r.page
      OBVIOUS
    <3>2. PICK m : m = r.mem
      OBVIOUS
    <3>3. PICK n : n = mem'
      OBVIOUS
    <3>4. n = Filled(m, p, la, start, sz, file)
      BY <2>6, <3>1, <3>2, <3>3
    <3>5. pte(m, work.pgdir, la) # NULL /\ p = pte(m, work.pgdir, la).page
      BY <1>8, <1>10, <3>1, <3>2
    <3>6. Good(m) /\ work.pgdir \in Dirs(m)
      BY <1>1, <2>11, <3>2
    <3>7. /\ OtherImages(m, n, work.pgdir) /\ SameBut(m, n, work.pgdir, la)
          /\ FilledBytes(m, n, work.pgdir, la, start, sz, file)
      BY <3>4, <3>5, <3>6, FilledImage
    <3> QED BY <3>2, <3>3, <3>7 DEF FilledBytes
  <2>13. OtherImages(mem, mem', work.pgdir) /\ SameBut(mem, mem', work.pgdir, la)
    BY <1>8, <1>10, <2>11, <2>12, OthersTwice
  <2>14. Seen' = Seen
    BY <1>1, <2>13, SeenOthers
  <2>15. AllIn(mem', work.pgdir, LoadedSegments)
    BY <1>1, <1>5, <2>13, AllInBut DEF FillingImage
  <2>16. LoadedTo(mem', work.pgdir, ph, new)
    <3> SUFFICES ASSUME NEW a \in ph.va .. new - 1
                 PROVE  ByteOf(mem', work.pgdir, a) = FileByte(ph, a)
      BY DEF LoadedTo
    <3>1. a \in Nat /\ a < UserTop /\ ph.va <= a /\ a < new
      <4>1. PICK lo \in Nat : lo = ph.va
        BY <1>1
      <4>2. PICK top \in Nat : top = UserTop /\ new <= top
        <5>1. PICK e \in Nat : e = end /\ e <= UserTop
          BY <1>3
        <5>2. new <= e
          BY <2>4, <5>1
        <5> QED BY <5>1, <5>2, Constants
      <4>3. a \in Int /\ lo <= a /\ a < new
        BY <4>1
      <4> QED BY <4>1, <4>2, <4>3
    <3>2. CASE a < start
      <4>1. ByteOf(mem, work.pgdir, a) = FileByte(ph, a)
        BY <1>1, <1>2, <3>1, <3>2 DEF FillingImage, LoadedTo
      <4>2. start <= la \/ start = ph.va
        BY <1>2, <1>4, FillingArea DEF FillingMap
      <4>3. ~InPage(a, la)
        BY <1>1, <1>5, <3>1, <3>2, <4>2 DEF InPage
      <4> QED BY <2>13, <3>1, <4>1, <4>3, ByteElse
    <3>3. CASE ~(a < start)
      <4>1. InPage(a, la)
        BY <1>5, <2>2, <2>4, <3>1, <3>3 DEF InPage
      <4>2. ByteOf(mem', work.pgdir, a) = SegmentByte(a, file)
        BY <2>5, <2>12, <3>1, <3>3, <4>1
      <4>3. file => a < ph.va + ph.filesz
        BY <1>1, <1>3, <2>4, <3>1
      <4>4. ~file => ~(a < ph.va + ph.filesz)
        BY <1>1, <1>2, <3>1, <3>3 DEF FillingImage
      <4>5. SegmentByte(a, file) = FileByte(ph, a)
        BY <4>3, <4>4, Zenon DEF SegmentByte, FileByte
      <4> QED BY <4>2, <4>5
    <3> QED BY <3>2, <3>3
  <2>17. UserBase <= ph.va /\ ph.va <= new /\ new <= ph.va + ph.memsz
    BY <1>1, <1>2, <1>3, <2>4 DEF FillingImage
  <2>18. pc = "file" => new <= ph.va + ph.filesz
    BY <2>4
  <2>19. pc = "bss" => ph.va + ph.filesz <= new
    BY <1>1, <1>2, <2>4 DEF FillingImage
  <2>20. pte(mem', work.pgdir, la) # NULL /\ pte(mem', work.pgdir, la).page = r.page
    <3>1. SameMap(r.mem, mem')
      BY <2>6, <2>11, FilledMap
    <3> QED BY <1>1, <1>8, <1>10, <2>11, <3>1 DEF SameMap
  <2>21. ni - PGSIZE = la /\ la <= new
    BY <1>5, <2>2, <2>4, Constants
  <2>22. FillingImage'
    BY <1>1, <1>4, <2>1, <2>7, <2>8, <2>9, <2>10, <2>16, <2>17, <2>18, <2>19, <2>20, <2>21
    DEF FillingImage
  <2> QED BY <2>1, <2>10, <2>14, <2>15, <2>22 DEF ImageInv, Copying
<1> QED BY <1>9, <1>10

\* The pages with bytes of the file.
LEMMA ImageLoadFile ==
    ASSUME AreaInv, PageInv, MapInv, ImageInv, LoadFile
    PROVE  ImageInv' /\ Seen' = Seen
<1>1. /\ pc = "file" /\ mm' = mm /\ call.start < ph.va + ph.filesz
      /\ LoadPage(ph.va + ph.filesz, TRUE)
  BY Filler DEF LoadFile
<1>2. PICK file \in BOOLEAN : file = TRUE
  OBVIOUS
<1>3. LoadPage(ph.va + ph.filesz, file)
  BY <1>1, <1>2, Zenon
<1> QED BY <1>1, <1>2, <1>3, ImageLoadPage

\* When all bytes of a segment are loaded, the next one follows.
LEMMA ImageNextSegment ==
    ASSUME AreaInv, PageInv, MapInv, ImageInv, pc \in {"file", "bss"}, mm' = mm,
           mem' = mem, work' = work, NextSegment, call.start = ph.va + ph.memsz
    PROVE  ImageInv' /\ Seen' = Seen
<1>1. /\ call \in CallType /\ FillingImage /\ AllIn(mem, work.pgdir, LoadedSegments)
      /\ ph.va + ph.memsz <= UserTop
  BY FillingFacts
<1>2. pc' = "segment" /\ call' = [call EXCEPT !.i = @ + 1, !.page = NULL]
  BY DEF NextSegment
<1>3. call'.prog = call.prog /\ call'.i = call.i + 1
  BY <1>1, <1>2 DEF CallType
<1>4. Segments' = Segments
  BY <1>3 DEF Segments
<1>5. Segments \in Seq(Segment) /\ call.i \in 1 .. Len(Segments)
  BY LoadedAre, Before DEF Loading, Calling
<1>6. DOMAIN Segments = 1 .. Len(Segments) /\ Len(Segments) \in Nat
  BY <1>5
<1>7. \A j \in DOMAIN Segments : j < call.i + 1 <=> j < call.i \/ j = call.i
  BY <1>5, <1>6
<1>8. ASSUME NEW s \in LoadedSegments' PROVE s \in LoadedSegments \/ s = ph
  BY <1>2, <1>3, <1>4, <1>7 DEF LoadedSegments, ph
<1>9. SegmentIn(mem, work.pgdir, ph)
  BY <1>1 DEF SegmentIn, FillingImage
<1>10. AllIn(mem', work'.pgdir, LoadedSegments')
  BY <1>1, <1>8, <1>9 DEF AllIn
<1>11. Seen' = Seen
  BY SeenSame
<1> QED BY <1>2, <1>10, <1>11 DEF ImageInv, Copying

\* The pages without bytes of the file.
LEMMA ImageLoadBss ==
    ASSUME AreaInv, PageInv, MapInv, ImageInv, LoadBss
    PROVE  ImageInv' /\ Seen' = Seen
<1>1. pc = "bss" /\ mm' = mm
  BY DEF LoadBss
<1>2. CASE call.start < ph.va + ph.memsz
  <2>1. LoadPage(ph.va + ph.memsz, FALSE)
    BY <1>1, <1>2, Filler DEF LoadBss
  <2>2. PICK file \in BOOLEAN : file = FALSE
    OBVIOUS
  <2>3. LoadPage(ph.va + ph.memsz, file)
    BY <2>1, <2>2, Zenon
  <2> QED BY <1>1, <1>2, <2>2, <2>3, ImageLoadPage
<1>3. CASE ~(call.start < ph.va + ph.memsz)
  <2>1. mem' = mem /\ work' = work /\ NextSegment
    BY <1>1, <1>3, Filler DEF LoadBss
  <2>2. /\ FillingImage /\ call.start \in Nat /\ ph.va \in Nat /\ ph.memsz \in Nat
    BY <1>1, FillingFacts
  <2>3. call.start = ph.va + ph.memsz
    BY <1>3, <2>2 DEF FillingImage
  <2> QED BY <1>1, <2>1, <2>3, ImageNextSegment
<1> QED BY <1>2, <1>3

\* The rest of the last page with bytes of the file.
LEMMA ImageLoadEdge ==
    ASSUME AreaInv, PageInv, MapInv, ImageInv, LoadEdge
    PROVE  ImageInv' /\ Seen' = Seen
<1> DEFINE end == mem_end
           rest == IF end < call.la THEN end - call.start ELSE call.la - call.start
           size == Word(rest)
<1>1. pc = "file" /\ mm' = mm /\ work' = work /\ call.start >= ph.va + ph.filesz
  BY Filler DEF LoadEdge
<1>2. /\ work # NULL /\ call \in CallType /\ work.pgdir \in Dirs(mem)
      /\ Good(mem) /\ LoadedSegments \subseteq Segment /\ FillingImage
      /\ AllIn(mem, work.pgdir, LoadedSegments)
      /\ ph.va \in Nat /\ ph.filesz \in Nat /\ ph.memsz \in Nat
      /\ ph.va + ph.memsz <= UserTop
      /\ call.start \in Nat /\ call.la \in Nat
      /\ InUserMemory(PhArea) /\ PhArea.vm_start \in Nat /\ PhArea.vm_end \in Nat
      /\ ph.va + ph.memsz <= PhArea.vm_end /\ end = ph.va + ph.memsz
  BY <1>1, FillingFacts
<1>3. CASE call.start >= call.la
  <2>1. pc' = "bss" /\ mem' = mem /\ call' = call
    BY <1>3 DEF LoadEdge
  <2>2. /\ PhArea' = PhArea /\ ph' = ph /\ LoadedSegments' = LoadedSegments
    BY <1>1, <2>1 DEF PhArea, ph, Segments, LoadedSegments
  <2>3. FillingImage'
    BY <1>1, <1>2, <2>1, <2>2 DEF FillingImage
  <2>4. Seen' = Seen
    BY <1>1, <2>1, SeenSame
  <2> QED BY <1>1, <1>2, <2>1, <2>2, <2>3, <2>4 DEF ImageInv, Copying
<1>4. CASE ~(call.start >= call.la) /\ call.start = end
  <2>1. NextSegment /\ mem' = mem
    BY <1>4 DEF LoadEdge
  <2>2. call.start = ph.va + ph.memsz
    BY <1>2, <1>4
  <2> HIDE DEF end
  <2> QED BY <1>1, <2>1, <2>2, ImageNextSegment
<1>5. CASE ~(call.start >= call.la) /\ call.start # end
  <2>0. size = rest /\ Word(call.start + size) = call.start + size
    <3>1. PICK b \in Nat, e \in Nat, l \in Nat : b = call.start /\ e = end /\ l = call.la
      BY <1>2
    <3>2. b <= e /\ e <= UserTop /\ b < l
      BY <1>2, <1>5, <3>1 DEF FillingImage
    <3>3. UserTop \in Nat /\ WordSize \in Nat /\ UserTop < WordSize
      BY Words, Constants
    <3>4. PICK z \in Nat : z = rest /\ b + z <= e
      BY <3>1, <3>2
    <3>5. z < WordSize /\ b + z \in Nat /\ b + z < WordSize
      BY <3>2, <3>3, <3>4
    <3>6. size = z
      BY <3>4, <3>5, Words
    <3> HIDE DEF rest, size
    <3> QED BY <3>1, <3>4, <3>5, <3>6, Words
  <2>1. /\ mem' = Filled(mem, call.page, call.la - PGSIZE, call.start, size, FALSE)
        /\ call' = [call EXCEPT !.start = call.start + size]
        /\ pc' \in {"bss", "panic"}
    <3>1. /\ mem' = Filled(mem, call.page, call.la - PGSIZE, call.start, size, FALSE)
          /\ call' = [call EXCEPT !.start = Word(call.start + size)]
          /\ pc' \in {"bss", "panic"}
      BY <1>5 DEF LoadEdge
    <3> HIDE DEF size
    <3> QED BY <2>0, <3>1
  <2>2. PICK la \in UPage : /\ la = call.la - PGSIZE /\ la <= call.start
                            /\ PhArea.vm_start <= la
                            /\ pte(mem, work.pgdir, la) # NULL
                            /\ pte(mem, work.pgdir, la).page = call.page
    BY <1>1, <1>2, <1>5 DEF FillingImage
  <2>3. PICK start \in Nat : start = call.start /\ start < end
    BY <1>2, <1>5 DEF FillingImage
  <2>4. la \in Nat /\ la + PGSIZE = call.la /\ Holds(PhArea, la)
    <3>1. la \in Nat
      BY UPageFacts
    <3>2. la < PhArea.vm_end
      BY <1>2, <2>2, <2>3, <3>1
    <3> QED BY <1>2, <2>2, <3>1, <3>2, Constants DEF Holds
  <2>5. PICK new \in Nat : /\ new = call.start + size /\ start <= new
                           /\ new <= call.la /\ new <= end
    <3>1. PICK z \in Nat : z = rest /\ start + z <= call.la /\ start + z <= end
      BY <1>2, <1>5, <2>3
    <3>2. z = size
      BY <2>0, <3>1
    <3> HIDE DEF size, rest
    <3> QED BY <2>3, <3>1, <3>2
  <2>6. PICK sz : sz = size /\ new = start + sz
    BY <2>3, <2>5
  <2> HIDE DEF size
  <2>7. /\ call'.prog = call.prog /\ call'.i = call.i /\ call'.start = new
    BY <1>2, <2>1, <2>5 DEF CallType
  <2>8. ph' = ph /\ Segments' = Segments
    BY <2>7 DEF ph, Segments
  <2>9. PhArea' = PhArea
    BY <2>8 DEF PhArea
  <2>10. LoadedSegments' = LoadedSegments
    BY <1>1, <2>1, <2>7, <2>8 DEF LoadedSegments
  <2>11. /\ OtherImages(mem, mem', work.pgdir) /\ SameBut(mem, mem', work.pgdir, la)
         /\ \A a \in Nat : a < UserTop /\ InPage(a, la) =>
               ByteOf(mem', work.pgdir, a) = IF start <= a /\ a < start + sz THEN 0
                                             ELSE ByteOf(mem, work.pgdir, a)
    <3>1. PICK file \in BOOLEAN : file = FALSE
      OBVIOUS
    <3>2. PICK n : n = mem'
      OBVIOUS
    <3>3. PICK p : p = call.page
      OBVIOUS
    <3>4. PICK m : m = mem
      OBVIOUS
    <3>5. n = Filled(m, p, la, start, sz, file)
      BY <2>1, <2>2, <2>3, <2>6, <3>1, <3>2, <3>3, <3>4, Zenon
    <3>6. /\ OtherImages(m, n, work.pgdir) /\ SameBut(m, n, work.pgdir, la)
          /\ FilledBytes(m, n, work.pgdir, la, start, sz, file)
      <4>1. pte(m, work.pgdir, la) # NULL /\ p = pte(m, work.pgdir, la).page
        BY <2>2, <3>3, <3>4
      <4>2. Good(m) /\ work.pgdir \in Dirs(m)
        BY <1>2, <3>4
      <4> QED BY <3>5, <4>1, <4>2, FilledImage
    <3>7. \A a : SegmentByte(a, file) = 0
      BY <3>1, Zenon DEF SegmentByte
    <3> QED BY <3>2, <3>4, <3>6, <3>7 DEF FilledBytes
  <2>12. Seen' = Seen
    BY <1>1, <1>2, <2>11, SeenOthers
  <2>13. AllIn(mem', work.pgdir, LoadedSegments)
    BY <1>2, <2>4, <2>11, AllInBut DEF FillingImage
  <2>14. LoadedTo(mem', work.pgdir, ph, new)
    <3> SUFFICES ASSUME NEW a \in ph.va .. new - 1
                 PROVE  ByteOf(mem', work.pgdir, a) = FileByte(ph, a)
      BY DEF LoadedTo
    <3>1. a \in Nat /\ a < UserTop /\ ph.va <= a /\ a < new
      <4>1. PICK lo \in Nat : lo = ph.va
        BY <1>2
      <4>2. PICK top \in Nat : top = UserTop /\ new <= top
        BY <1>2, <2>5, Constants
      <4>3. a \in Int /\ lo <= a /\ a < new
        BY <4>1
      <4> QED BY <4>1, <4>2, <4>3
    <3>2. CASE a < start
      <4>1. ByteOf(mem, work.pgdir, a) = FileByte(ph, a)
        BY <1>2, <2>3, <3>1, <3>2 DEF FillingImage, LoadedTo
      <4>2. CASE InPage(a, la)
        BY <2>11, <3>1, <3>2, <4>1, <4>2
      <4>3. CASE ~InPage(a, la)
        BY <2>11, <3>1, <4>1, <4>3, ByteElse
      <4> QED BY <4>2, <4>3
    <3>3. CASE ~(a < start)
      <4>1. InPage(a, la)
        <5>1. la \in Nat /\ la <= start
          BY <2>2, <2>3, <2>4
        <5>2. PICK z \in Nat : z = la + PGSIZE /\ new <= z
          BY <1>2, <2>4, <2>5
        <5>3. a < z /\ la <= a
          BY <3>1, <3>3, <5>1, <5>2
        <5> QED BY <5>2, <5>3 DEF InPage
      <4>2. ByteOf(mem', work.pgdir, a) = 0
        BY <2>6, <2>11, <3>1, <3>3, <4>1
      <4>3. ~(a < ph.va + ph.filesz)
        BY <1>1, <1>2, <2>3, <3>1, <3>3
      <4> QED BY <4>2, <4>3 DEF FileByte
    <3> QED BY <3>2, <3>3
  <2>15. ph.va <= new /\ ph.va + ph.filesz <= new
    BY <1>1, <1>2, <2>3, <2>5
  <2>16. CASE pc' = "bss"
    <3>1. FillingImage'
      BY <1>1, <1>2, <2>5, <2>7, <2>8, <2>9, <2>10, <2>14, <2>15, <2>16 DEF FillingImage
    <3> QED BY <1>1, <2>10, <2>12, <2>13, <2>16, <3>1 DEF ImageInv, Copying
  <2>17. CASE pc' = "panic"
    <3>1. ImageInv'
      BY <2>17, ImageElse DEF Loading, Copying
    <3> QED BY <2>12, <3>1
  <2> QED BY <2>1, <2>16, <2>17
<1> QED BY <1>3, <1>4, <1>5

\* The area of the stack: no segment is loaded where it is.
LEMMA ImageLoadStack ==
    ASSUME AreaInv, PageInv, MapInv, ImageInv, LoadStack
    PROVE  ImageInv' /\ Seen' = Seen
<1>1. pc = "segment" /\ mm' = mm /\ call.i > Len(Segments)
  BY DEF LoadStack
<1>2. /\ IsSpace(work) /\ work # NULL /\ call \in CallType /\ Within(mem, work)
      /\ OtherImages(mem, mem, work.pgdir) /\ AllIn(mem, work.pgdir, LoadedSegments)
      /\ LoadedSegments \subseteq Segment /\ Segments \in Seq(Segment)
  BY <1>1, Loaded, SameOthers, LoadedAre DEF Loading, MapInv, Fits, ImageInv
<1>3. PICK flags \in SUBSET VmFlags : flags = {"READ", "WRITE", "STACK"}
  BY DEF VmFlags
<1>4. PICK addr \in Nat, len \in Nat : /\ addr = UserTop - StackSize /\ len = StackSize
                                       /\ addr + len + PGSIZE <= WordSize
  BY Constants, Words
<1>5. PICK memory \in BOOLEAN :
         LET r == mm_map(work, addr, len, flags, memory)
         IN  IF r.ret = "ok"
             THEN /\ work' = r.mm /\ pc' = "stack" /\ call' = [call EXCEPT !.i = 1]
                  /\ UNCHANGED <<mem, spoiled>>
             ELSE IF r.ret = "panic"
             THEN pc' = "panic" /\ UNCHANGED <<mem, work, call, spoiled>>
             ELSE Teardown(mem, r.mm, "load_failed")
  BY <1>3, <1>4, Zenon DEF LoadStack
<1>6. PICK r : r = mm_map(work, addr, len, flags, memory)
  OBVIOUS
<1>7. CASE r.ret = "ok"
  <2>1. work' = r.mm /\ pc' = "stack" /\ mem' = mem /\ call' = [call EXCEPT !.i = 1]
    BY <1>5, <1>6, <1>7
  <2>2. PICK v : v = vma_create(ROUNDDOWN(addr, PGSIZE), ROUNDUP(addr + len, PGSIZE), flags)
    OBVIOUS
  <2>3. work'.pgdir = work.pgdir
    BY <1>2, <1>4, <1>6, <1>7, <2>1, <2>2, MmMapAreas
  <2>4. v = StackArea
    BY <1>3, <1>4, <2>2, StackIs
  <2>5. Clear(LoadedSegments, StackArea)
    BY <1>2, <1>4, <1>6, <1>7, <2>2, <2>4, ClearArea
  <2>6. Segments' = Segments
    <3>1. call'.prog = call.prog
      BY <1>2, <2>1 DEF CallType
    <3> QED BY <3>1 DEF Segments
  <2>7. LoadedSegments' = LoadedSegments
    <3>1. PICK n \in Nat : n = Len(Segments) /\ DOMAIN Segments = 1 .. n
      BY <1>2
    <3>2. call.i \in Int
      BY <1>2 DEF CallType
    <3>3. \A j \in DOMAIN Segments : j < call.i
      BY <1>1, <3>1, <3>2
    <3> QED BY <2>1, <2>6, <3>3 DEF LoadedSegments
  <2>8. StackArea' = StackArea
    BY DEF StackArea
  <2>9. Seen' = Seen
    BY <1>1, <2>1, SeenSame
  <2> QED BY <1>2, <2>1, <2>3, <2>5, <2>7, <2>8, <2>9 DEF ImageInv, Copying
<1>8. CASE r.ret = "panic"
  <2>1. pc' = "panic" /\ mem' = mem
    BY <1>5, <1>6, <1>8
  <2>2. ImageInv'
    BY <2>1, ImageElse DEF Loading, Copying
  <2> QED BY <1>1, <2>1, <2>2, SeenSame
<1>9. CASE r.ret # "ok" /\ r.ret # "panic"
  <2>1. Teardown(mem, r.mm, "load_failed")
    BY <1>5, <1>6, <1>9
  <2> QED BY <1>1, <1>2, <2>1, ImageTeardown
<1> QED BY <1>7, <1>8, <1>9

\* One of its pages.
LEMMA ImageLoadStackPage ==
    ASSUME AreaInv, PageInv, MapInv, ImageInv, LoadStackPage
    PROVE  ImageInv' /\ Seen' = Seen
<1>1. pc = "stack" /\ mm' = mm /\ work' = work /\ call' = [call EXCEPT !.i = @ + 1]
  BY DEF LoadStackPage
<1>2. /\ IsSpace(work) /\ work # NULL /\ call \in CallType /\ work.pgdir \in Dirs(mem)
      /\ Good(mem) /\ StackArea \in Areas(work)
      /\ AllIn(mem, work.pgdir, LoadedSegments) /\ Clear(LoadedSegments, StackArea)
      /\ LoadedSegments \subseteq Segment
  BY <1>1, Loaded, LoadedAre DEF Loading, MapInv, ImageInv
<1>3. PICK la \in UPage : la = UserTop - call.i * PGSIZE /\ Holds(StackArea, la)
  BY StackPage
<1>4. PICK bits \in Perm : bits = PTE_USER
  BY DEF Perm, PTE_USER
<1>5. PICK r : r = pgdir_alloc_page(mem, work.pgdir, la, bits)
  OBVIOUS
<1>6. mem' = r.mem /\ pc' = IF r.page = NULL THEN "panic" ELSE pc
  BY <1>1, <1>3, <1>4, <1>5 DEF LoadStackPage
<1>7. /\ r.page = NULL => \A s \in Dirs(mem) : SameImage(mem, s, r.mem, s)
      /\ r.page # NULL => /\ OtherImages(mem, r.mem, work.pgdir)
                         /\ SameBut(mem, r.mem, work.pgdir, la)
  BY <1>2, <1>5, NewPageImage
<1>8. OtherImages(mem, mem', work.pgdir)
  BY <1>6, <1>7 DEF OtherImages
<1>9. Seen' = Seen
  BY <1>1, <1>2, <1>8, SeenOthers
<1>10. CASE r.page = NULL
  <2>1. pc' = "panic"
    BY <1>6, <1>10
  <2>2. ImageInv'
    BY <2>1, ImageElse DEF Loading, Copying
  <2> QED BY <1>9, <2>2
<1>11. CASE r.page # NULL
  <2>1. pc' = "stack" /\ SameBut(mem, mem', work.pgdir, la)
    BY <1>1, <1>6, <1>7, <1>11
  <2>2. PICK v : v = StackArea
    OBVIOUS
  <2>3. InUserMemory(v) /\ v.vm_start \in Nat /\ v.vm_end \in Nat
    <3>1. v \in vma_struct /\ InUserMemory(v)
      BY <1>2, <2>2, SpaceFacts DEF Areas
    <3> QED BY <3>1, Constants DEF InUserMemory, vma_struct
  <2>4. AllIn(mem', work.pgdir, LoadedSegments)
    BY <1>2, <1>3, <2>1, <2>2, <2>3, AllInBut
  <2>5. Segments' = Segments
    <3>1. call'.prog = call.prog
      BY <1>1, <1>2 DEF CallType
    <3> QED BY <3>1 DEF Segments
  <2>6. LoadedSegments' = LoadedSegments
    BY <1>1, <2>1, <2>5 DEF LoadedSegments
  <2>7. StackArea' = StackArea
    BY DEF StackArea
  <2> QED BY <1>1, <1>2, <1>9, <2>1, <2>4, <2>6, <2>7 DEF ImageInv, Copying
<1> QED BY <1>10, <1>11

-----------------------------------------------------------------------------
\* An area is copied: nothing of it yet.
LEMMA ImageDupArea ==
    ASSUME AreaInv, PageInv, MapInv, ImageInv, DupArea
    PROVE  ImageInv' /\ Seen' = Seen
<1>1. pc = "dup" /\ call.i > 0 /\ mm' = mm
  BY DEF DupArea
<1>2. /\ IsSpace(work) /\ work # NULL /\ call \in CallType /\ SrcArea \in vma_struct
      /\ InUserMemory(SrcArea) /\ OtherImages(mem, mem, work.pgdir) /\ CopyingImage
  BY <1>1, Copied, SameOthers DEF Copying, ImageInv
<1>3. PICK r : r = insert_vma_struct(work, SrcArea)
  OBVIOUS
<1>4. \/ Teardown(mem, work, "fork_failed")
      \/ pc' = "panic" /\ mem' = mem
      \/ /\ r.ok /\ work' = r.mm /\ pc' = "copy" /\ mem' = mem
         /\ call' = [call EXCEPT !.la = SrcArea.vm_start]
  BY <1>3 DEF DupArea
<1>5. CASE Teardown(mem, work, "fork_failed")
  BY <1>1, <1>2, <1>5, ImageTeardown
<1>6. CASE pc' = "panic" /\ mem' = mem
  <2>1. ImageInv'
    BY <1>6, ImageElse DEF Loading, Copying
  <2> QED BY <1>1, <1>6, <2>1, SeenSame
<1>7. CASE /\ r.ok /\ work' = r.mm /\ pc' = "copy" /\ mem' = mem
           /\ call' = [call EXCEPT !.la = SrcArea.vm_start]
  <2>1. call'.i = call.i /\ call'.src = call.src
    BY <1>2, <1>7 DEF CallType
  <2>2. Source' = Source
    BY <1>1, <2>1 DEF Source
  <2>3. work'.pgdir = work.pgdir
    BY <1>2, <1>3, <1>7, InsertAreas
  <2>4. CopyingImage'
    BY <1>2, <1>7, <2>1, <2>2, <2>3 DEF CopyingImage
  <2>5. Seen' = Seen
    BY <1>1, <1>7, SeenSame
  <2> QED BY <1>7, <2>4, <2>5 DEF ImageInv, Loading
<1> QED BY <1>4, <1>5, <1>6, <1>7

\* copy_range() goes on to next.
LEMMA ImageGoto ==
    ASSUME AreaInv, PageInv, MapInv, ImageInv, pc = "copy", mm' = mm, work' = work,
           OtherImages(mem, mem', work.pgdir), Agreed(mem', Source.pgdir, work.pgdir),
           \A a \in UPage : pte(mem, work.pgdir, a) # NULL => pte(mem', work.pgdir, a) # NULL,
           NEW next \in Nat,
           CopiedTo(mem, Source.pgdir, work.pgdir, SrcArea.vm_start, call.la)
               => CopiedTo(mem', Source.pgdir, work.pgdir, SrcArea.vm_start, next),
           IF next < SrcArea.vm_end THEN pc' = "copy" /\ call' = [call EXCEPT !.la = next]
           ELSE pc' = "dup" /\ call' = [call EXCEPT !.i = @ - 1]
    PROVE  ImageInv' /\ Seen' = Seen
<1>1. PICK from : from = Source.pgdir
  OBVIOUS
<1>2. /\ work # NULL /\ call \in CallType /\ CopyingMap
      /\ SrcArea.vm_start \in Nat /\ SrcArea.vm_end \in Nat
      /\ from \in Dirs(mem) /\ from # work.pgdir
  BY <1>1, CopyingArea DEF Source
<1>3. CopiedTo(mem', from, work.pgdir, SrcArea.vm_start, next)
  BY <1>1, <1>2 DEF CopyingMap, Source
<1>4. \A a \in UPage : pte(mem', from, a) # NULL <=> pte(mem, from, a) # NULL
  BY <1>2 DEF OtherImages, SameImage, SameAt
<1>5. ASSUME NEW k \in DOMAIN Source.mmap_list, k > call.i
      PROVE  CopiedTo(mem', from, work.pgdir,
                      Source.mmap_list[k].vm_start, Source.mmap_list[k].vm_end)
  <2>1. PICK v : v = Source.mmap_list[k]
    OBVIOUS
  <2>2. CopiedTo(mem, from, work.pgdir, v.vm_start, v.vm_end)
    BY <1>1, <1>5, <2>1 DEF ImageInv, Copying, CopyingImage
  <2>3. CopiedTo(mem', from, work.pgdir, v.vm_start, v.vm_end)
    BY <1>4, <2>2 DEF CopiedTo
  <2> QED BY <2>1, <2>3
<1>6. Seen' = Seen
  BY <1>2, SeenOthers
<1>7. CASE next < SrcArea.vm_end
  <2>1. call'.i = call.i /\ call'.src = call.src /\ pc' = "copy"
    BY <1>2, <1>7 DEF CallType
  <2>2. Source' = Source
    BY <2>1 DEF Source
  <2>3. CopyingImage'
    BY <1>1, <1>5, <2>1, <2>2 DEF CopyingImage
  <2> QED BY <1>6, <2>1, <2>3 DEF ImageInv, Loading
<1>8. CASE ~(next < SrcArea.vm_end)
  <2>1. call'.i = call.i - 1 /\ call'.src = call.src /\ pc' = "dup"
    BY <1>2, <1>8 DEF CallType
  <2>2. Source' = Source
    BY <2>1 DEF Source
  <2>3. CopiedTo(mem', from, work.pgdir, SrcArea.vm_start, SrcArea.vm_end)
    <3>1. \A a \in UPage : a \in Nat
      BY UPageFacts
    <3> QED BY <1>2, <1>3, <1>8, <3>1 DEF CopiedTo
  <2>4. SrcArea = Source.mmap_list[call.i]
    BY DEF SrcArea, Source
  <2>5. \A k \in DOMAIN Source.mmap_list : k > call.i - 1 => k = call.i \/ k > call.i
    <3>1. PICK q : q = Source
      OBVIOUS
    <3>2. call.src \in Space /\ q # NULL
      BY <3>1, Before DEF Calling, Copying, Source
    <3>3. IsSpace(q)
      BY <3>1, <3>2, Before DEF Source
    <3>4. PICK n \in Nat : n = Len(q.mmap_list) /\ DOMAIN q.mmap_list = 1 .. n
      BY <3>3, SpaceFacts
    <3>5. call.i \in Int
      BY <1>2 DEF CallType
    <3> QED BY <3>1, <3>4, <3>5
  <2>6. ASSUME NEW k \in DOMAIN Source.mmap_list, k > call'.i
        PROVE  CopiedTo(mem', from, work.pgdir,
                        Source.mmap_list[k].vm_start, Source.mmap_list[k].vm_end)
    <3>1. k = call.i \/ k > call.i
      BY <2>1, <2>5, <2>6
    <3> QED BY <1>5, <2>3, <2>4, <3>1
  <2>7. CopyingImage'
    BY <1>1, <2>2, <2>6 DEF CopyingImage
  <2> QED BY <1>6, <2>1, <2>7 DEF ImageInv, Loading
<1> QED BY <1>7, <1>8

\* The page that copy_range() maps next to those that agree with the parent's.
LEMMA AgreedOneMore ==
    ASSUME NEW m, NEW n, NEW from \in Dirs(m), NEW root, from # root, NEW la \in UPage,
           Agreed(m, from, root), OtherImages(m, n, root), SameBut(m, n, root, la),
           pte(m, from, la) # NULL, pte(n, root, la) # NULL,
           PageAt(n, root, la) = PageAt(m, from, la)
    PROVE  Agreed(n, from, root)
<1> SUFFICES ASSUME NEW a \in UPage, pte(n, root, a) # NULL
             PROVE  SameAt(n, from, n, root, a)
  BY DEF Agreed
<1>1. SameAt(m, from, n, from, a)
  BY DEF OtherImages, SameImage
<1>2. CASE a = la
  BY <1>1, <1>2 DEF SameAt
<1>3. CASE a # la
  <2>1. SameAt(m, root, n, root, a)
    BY <1>3 DEF SameBut
  <2>2. pte(m, root, a) # NULL
    BY <2>1 DEF SameAt
  <2>3. SameAt(m, from, m, root, a)
    BY <2>2 DEF Agreed
  <2> QED BY <1>1, <2>1, <2>2, <2>3 DEF SameAt
<1> QED BY <1>2, <1>3

\* copy_range(), one round.
LEMMA ImageCopyRange ==
    ASSUME AreaInv, PageInv, MapInv, ImageInv, CopyRange
    PROVE  ImageInv' /\ Seen' = Seen
<1> DEFINE la == call.la
           from == mm[call.src].pgdir
           t == get_pte(mem, from, la, FALSE).table
           next == IF t = NULL THEN ROUNDDOWN(la + PTSIZE, PTSIZE) ELSE la + PGSIZE
           g == get_pte(mem, work.pgdir, la, TRUE)
           Goto == /\ call' = IF next < SrcArea.vm_end THEN [call EXCEPT !.la = next]
                              ELSE [call EXCEPT !.i = @ - 1]
                   /\ pc' = IF next < SrcArea.vm_end THEN pc ELSE "dup"
                   /\ UNCHANGED <<work, spoiled>>
<1>1. /\ pc = "copy" /\ mm' = mm
      /\ \/ pte(mem, from, la) = NULL /\ mem' = mem /\ Goto
         \/ Teardown(g.mem, work, "fork_failed")
         \/ mem' = g.mem /\ pc' = "panic"
         \/ /\ pte(mem, from, la) # NULL /\ g.table # NULL /\ Free(g.mem) # {}
            /\ mem' = CopiedPage(g.mem, pte(mem, from, la), la) /\ Goto
  BY DEF CopyRange
<1>2. /\ work # NULL /\ work.pgdir \in Dirs(mem) /\ from \in Dirs(mem) /\ from # work.pgdir
      /\ Good(mem) /\ la \in UPage
      /\ SrcArea.vm_start \in Nat /\ SrcArea.vm_end \in Nat
  BY <1>1, CopyingArea
<1>3. la \in Nat /\ la < UserTop /\ la % PGSIZE = 0
  BY <1>2, UPageFacts
<1>4. Agreed(mem, from, work.pgdir)
  BY <1>1 DEF ImageInv, Copying, CopyingImage, Source
<1>5. next \in Nat
  <2>1. la + PGSIZE \in Nat
    BY <1>3, Constants
  <2>2. PICK d \in Nat \ {0} : d = PTSIZE
    BY RegionSizes
  <2>3. PICK x \in Nat : x = la + d
    BY <1>3, <2>2
  <2>4. ROUNDDOWN(x, d) \in Nat
    BY <2>2, <2>3, RoundBounds
  <2> HIDE DEF t, la
  <2> QED BY <2>1, <2>2, <2>3, <2>4
<1>6. PICK r : /\ r = g /\ Good(r.mem) /\ Dirs(r.mem) = Dirs(mem)
               /\ \A s \in Dirs(mem) : SameImage(mem, s, r.mem, s)
               /\ r.mem.data = mem.data
               /\ r.table # NULL => r.table \in Page /\ Leads(r.mem, work.pgdir, la, r.table)
  <2>1. PICK create \in BOOLEAN : create = TRUE
    OBVIOUS
  <2>2. PICK r : r = get_pte(mem, work.pgdir, la, create)
    OBVIOUS
  <2>3. /\ Grown(mem, r.mem)
        /\ r.table # NULL => r.table \in Page /\ Leads(r.mem, work.pgdir, la, r.table)
    BY <1>2, <1>3, <2>2, GetPteGrows
  <2>4. SameMap(mem, r.mem)
    BY <1>2, <2>3, GrownMap
  <2>5. Good(r.mem) /\ Dirs(r.mem) = Dirs(mem)
    BY <2>3 DEF Grown, Keeps
  <2>6. r.mem.data = mem.data
    BY <1>2, <1>3, <2>2, GetPteBytes
  <2>7. \A s \in Dirs(mem) : SameImage(mem, s, r.mem, s)
    BY <2>4, <2>5, <2>6, AllKept DEF SameBytes
  <2>8. r = g
    BY <2>1, <2>2, Zenon
  <2> HIDE DEF g
  <2> QED BY <2>3, <2>5, <2>6, <2>7, <2>8
<1>7. OtherImages(mem, r.mem, work.pgdir)
  BY <1>6 DEF OtherImages
<1>8. CASE pte(mem, from, la) = NULL /\ mem' = mem /\ Goto
  <2>1. OtherImages(mem, mem', work.pgdir)
    BY <1>8, SameOthers
  <2>2. ASSUME NEW a \in UPage, la <= a, a < next PROVE pte(mem, from, a) = NULL
    <3>1. PICK create \in BOOLEAN : create = FALSE
      OBVIOUS
    <3>2. PICK u : u = get_pte(mem, from, la, create).table
      OBVIOUS
    <3>3. u = t
      BY <3>1, <3>2, Zenon
    <3>4. CASE u = NULL
      <4>1. next = ROUNDDOWN(la + PTSIZE, PTSIZE)
        BY <3>3, <3>4, Zenon
      <4>2. a < ROUNDDOWN(la + PTSIZE, PTSIZE)
        BY <2>2, <4>1, Zenon
      <4> HIDE DEF la, from, next
      <4> QED BY <1>2, <2>2, <3>2, <3>4, <4>2, NoTableNoPage
    <3>5. CASE u # NULL
      <4>1. next = la + PGSIZE
        BY <3>3, <3>5, Zenon
      <4>2. a = la
        <5> HIDE DEF la, next
        <5> QED BY <1>3, <2>2, <4>1, UPageFacts, NextPage
      <4> QED BY <1>8, <4>2
    <3> QED BY <3>4, <3>5
  <2>3. CopiedTo(mem, from, work.pgdir, SrcArea.vm_start, la)
           => CopiedTo(mem, from, work.pgdir, SrcArea.vm_start, next)
    <3> HIDE DEF la, from, next
    <3>1. \A a \in UPage : a \in Nat
      BY UPageFacts
    <3> QED BY <1>3, <1>5, <2>2, <3>1 DEF CopiedTo
  <2>4. /\ work' = work
        /\ IF next < SrcArea.vm_end THEN pc' = "copy" /\ call' = [call EXCEPT !.la = next]
           ELSE pc' = "dup" /\ call' = [call EXCEPT !.i = @ - 1]
    <3> HIDE DEF next
    <3> QED BY <1>1, <1>8
  <2>5. from = Source.pgdir /\ la = call.la
    BY DEF Source
  <2> HIDE DEF next, Goto, from, la
  <2> QED BY <1>1, <1>4, <1>5, <1>8, <2>1, <2>3, <2>4, <2>5, ImageGoto
<1>9. CASE Teardown(g.mem, work, "fork_failed")
  <2> HIDE DEF g
  <2>1. pc # "boot"
    BY <1>1
  <2> QED BY <1>1, <1>2, <1>6, <1>7, <1>9, <2>1, ImageTeardown
<1>10. CASE mem' = g.mem /\ pc' = "panic"
  <2> HIDE DEF g
  <2>1. pc # "boot"
    BY <1>1
  <2>2. Seen' = Seen
    BY <1>1, <1>2, <1>6, <1>7, <1>10, <2>1, SeenOthers
  <2>3. ImageInv'
    BY <1>10, ImageElse DEF Loading, Copying
  <2> QED BY <2>2, <2>3
<1>11. CASE /\ pte(mem, from, la) # NULL /\ g.table # NULL /\ Free(g.mem) # {}
            /\ mem' = CopiedPage(g.mem, pte(mem, from, la), la) /\ Goto
  <2>1. next = la + PGSIZE
    <3>1. PICK create \in BOOLEAN : create = FALSE
      OBVIOUS
    <3>2. PICK u : u = get_pte(mem, from, la, create).table
      OBVIOUS
    <3>3. u = t
      BY <3>1, <3>2, Zenon
    <3>4. u \in Page
      <4> HIDE DEF la, from
      <4> QED BY <1>2, <1>3, <1>11, <3>2, PteFacts
    <3>5. u # NULL
      BY <3>4, PageTableAssumption DEF Page
    <3> QED BY <3>3, <3>5, Zenon
  <2>2. /\ work' = work
        /\ IF next < SrcArea.vm_end THEN pc' = "copy" /\ call' = [call EXCEPT !.la = next]
           ELSE pc' = "dup" /\ call' = [call EXCEPT !.i = @ - 1]
    <3> HIDE DEF next
    <3> QED BY <1>1, <1>11
  <2>3. from = Source.pgdir /\ la = call.la
    BY DEF Source
  <2> HIDE DEF g, la, from, next, Goto
  <2>4. PICK old : old = pte(mem, from, la)
    OBVIOUS
  <2>5. PICK q \in Page, bits \in Perm : q = old.page /\ bits = old.perm
    BY <1>2, <1>3, <1>11, <2>4, PteEntry
  <2>6. PICK m : m = r.mem
    OBVIOUS
  <2>7. /\ Good(m) /\ Free(m) # {} /\ work.pgdir \in Dirs(m)
        /\ Dirs(m) = Dirs(mem) /\ Leads(m, work.pgdir, la, r.table)
    BY <1>2, <1>6, <1>11, <2>6
  <2>8. PICK p \in Page : p = alloc_page(m)
    BY <2>7, AllocPage
  <2>9. mem' = CopiedPage(m, old, la)
    BY <1>6, <1>11, <2>4, <2>6
  <2>10. mem' = page_insert([Used(m, p, "user") EXCEPT !.data[p] = m.data[q]],
                            work.pgdir, p, la, bits).mem
    BY <2>5, <2>8, <2>9, Zenon DEF CopiedPage
  <2>11. PICK n : n = mem'
    OBVIOUS
  <2>12. /\ OtherImages(m, n, work.pgdir) /\ SameBut(m, n, work.pgdir, la)
         /\ pte(n, work.pgdir, la) # NULL /\ PageAt(n, work.pgdir, la) = m.data[q]
    <3>1. PICK root \in Dirs(m) : root = work.pgdir
      BY <2>7
    <3>2. PICK u : Leads(m, root, la, u)
      BY <2>7, <3>1
    <3>3. n = page_insert([Used(m, p, "user") EXCEPT !.data[p] = m.data[q]],
                          root, p, la, bits).mem
      BY <2>10, <2>11, <3>1
    <3>4. la \in UPage /\ Good(m) /\ Free(m) # {}
      BY <1>2, <2>7
    <3>5. OtherImages(m, n, root) /\ SameBut(m, n, root, la)
      BY <2>8, <3>2, <3>3, <3>4, CopiedImage
    <3>6. pte(n, root, la) # NULL /\ PageAt(n, root, la) = m.data[q]
      BY <2>8, <3>2, <3>3, <3>4, CopiedImage
    <3> QED BY <3>1, <3>5, <3>6
  <2>13. SameBut(mem, m, work.pgdir, la)
    BY <1>2, <1>6, <2>6 DEF SameImage, SameBut
  <2>14. OtherImages(mem, m, work.pgdir)
    BY <1>7, <2>6
  <2>15. OtherImages(mem, n, work.pgdir) /\ SameBut(mem, n, work.pgdir, la)
    BY <2>7, <2>12, <2>13, <2>14, OthersTwice
  <2>16. PageAt(n, work.pgdir, la) = PageAt(mem, from, la)
    BY <1>6, <2>4, <2>5, <2>6, <2>12 DEF PageAt
  <2>17. Agreed(n, from, work.pgdir)
    BY <1>2, <1>4, <1>11, <2>12, <2>15, <2>16, AgreedOneMore
  <2>18. \A a \in UPage : pte(mem, work.pgdir, a) # NULL => pte(n, work.pgdir, a) # NULL
    BY <2>12, <2>15 DEF SameBut, SameAt
  <2>19. CopiedTo(mem, from, work.pgdir, SrcArea.vm_start, la)
            => CopiedTo(n, from, work.pgdir, SrcArea.vm_start, next)
    <3> SUFFICES ASSUME CopiedTo(mem, from, work.pgdir, SrcArea.vm_start, la),
                        NEW a \in UPage, SrcArea.vm_start <= a, a < next,
                        pte(n, from, a) # NULL
                 PROVE  pte(n, work.pgdir, a) # NULL
      BY DEF CopiedTo
    <3>1. a \in Nat /\ a % PGSIZE = 0
      BY UPageFacts
    <3>2. CASE a < la
      <4>1. pte(mem, from, a) # NULL
        BY <1>2, <2>15 DEF OtherImages, SameImage, SameAt
      <4>2. pte(mem, work.pgdir, a) # NULL
        BY <3>2, <4>1 DEF CopiedTo
      <4> QED BY <2>18, <4>2
    <3>3. CASE ~(a < la)
      <4>1. a = la
        BY <1>3, <2>1, <3>1, <3>3, NextPage
      <4> QED BY <2>12, <4>1
    <3> QED BY <3>2, <3>3
  <2> QED BY <1>1, <1>5, <2>2, <2>3, <2>11, <2>15, <2>17, <2>18, <2>19, ImageGoto
<1> QED
  <2> HIDE DEF Goto, g, la, from
  <2> QED BY <1>1, <1>8, <1>9, <1>10, <1>11

-----------------------------------------------------------------------------
\* A step of a call: no process sees it until the call returns.
LEMMA ImageRun ==
    ASSUME AreaInv, PageInv, MapInv, ImageInv, Run
    PROVE  ImageInv' /\ (LoadDone \/ ForkDone \/ Seen' = Seen)
<1>1. CASE LoadDone \/ ForkDone
  BY <1>1, ImageIdle
<1>2. CASE ~(LoadDone \/ ForkDone)
  <2>1. ImageInv' /\ Seen' = Seen
    BY <1>2, ImageUnmap, ImageExitRange, ImageLoad, ImageLoadSegment, ImageLoadBadMagic,
       ImageLoadFile, ImageLoadEdge, ImageLoadBss, ImageLoadStack, ImageLoadStackPage,
       ImageDupArea, ImageCopyRange, ImageCheckRound, ImageLook
    DEF Run
  <2> QED BY <2>1
<1> QED BY <1>1, <1>2

\* Every other step.
LEMMA ImageStep ==
    ASSUME AreaInv, PageInv, MapInv, ImageInv, [Next]_vars
    PROVE  /\ ImageInv'
           /\ \/ LoadDone \/ ForkDone \/ Seen' = Seen
              \/ \E s \in Space : Exit(s) \/ Exec(s) \/ \E a \in StoreAddr : Store(s, a)
<1>1. CASE Boot
  BY <1>1, ImageBoot
<1>2. CASE Run
  BY <1>2, ImageRun
<1>3. CASE Begin
  <2>1. CASE UserMain
    BY <2>1, ImageLook
  <2>2. CASE \E s \in Space : Exit(s) \/ Exec(s) \/ \E a \in StoreAddr : Store(s, a)
    BY <2>2, ImageIdle
  <2>3. CASE \E s \in Space, t \in Space : Fork(s, t)
    BY <2>3, ImageFork
  <2>4. CASE \E s \in Space, c \in Checks, write \in BOOLEAN : MemCheck(s, c[1], c[2], write)
    BY <2>4, ImageLook
  <2> QED BY <1>3, <2>1, <2>2, <2>3, <2>4 DEF Begin
<1>4. CASE Stopped
  BY <1>4, ImageStutter DEF Stopped
<1>5. CASE UNCHANGED vars
  BY <1>5, ImageStutter
<1> QED BY <1>1, <1>2, <1>3, <1>4, <1>5 DEF Next

\* While load_icode() and copy_mm() run, what has been loaded and copied so far
\* is in the new address space, byte by byte, and stays there.
THEOREM ImageInvariant == IdealSpec => []ImageInv
<1>1. Init => ImageInv
  BY DEF Init, ImageInv, Loading, Copying
<1>2. AreaInv /\ PageInv /\ MapInv /\ ImageInv /\ [Next]_vars => ImageInv'
  BY ImageStep
<1> QED BY <1>1, <1>2, AreaInvariant, PageInvariant, MapInvariant, PTL DEF IdealSpec

-----------------------------------------------------------------------------
\* A step of load_icode() or copy_mm() goes on with the call it is in.
LEMMA CallKept ==
    ASSUME AreaInv, [Next]_vars, pc \in Loading \cup Copying, pc' \in Loading \cup Copying
    PROVE  /\ call'.proc = call.proc /\ call'.src = call.src /\ call'.prog = call.prog
           /\ pc' \in Loading <=> pc \in Loading
           /\ work'.pgdir = work.pgdir
<1>1. call \in CallType /\ work \in mm_struct
  BY Before DEF Loading, Copying, Building, IsSpace
<1>2. CASE UNCHANGED vars
  BY <1>2 DEF vars
<1>3. CASE LoadSegment
  <2>1. \/ pc' = "unmap" \/ pc' = "panic"
        \/ /\ pc' = "file" /\ call' = [call EXCEPT !.start = ph.va, !.la = ROUNDDOWN(ph.va, PGSIZE)]
           /\ \E memory \in BOOLEAN :
                 LET r == mm_map(work, ph.va, ph.memsz, ph.flags, memory)
                 IN  r.ret = "ok" /\ work' = r.mm
    BY <1>3 DEF LoadSegment, Teardown
  <2>2. pc = "segment"
    BY <1>3 DEF LoadSegment
  <2>3. CASE pc' = "file"
    <3>1. work'.pgdir = work.pgdir
      BY <1>1, <2>1, <2>3, SamePgdir
    <3>2. PICK start, la : call' = [call EXCEPT !.start = start, !.la = la]
      BY <2>1, <2>3
    <3> QED BY <1>1, <2>2, <2>3, <3>1, <3>2 DEF CallType, Loading
  <2> QED BY <2>1, <2>3 DEF Loading, Copying
<1>4. CASE LoadFile \/ LoadBss
  <2>1. \A end, file : LoadPage(end, file) => 
           pc' = "unmap" \/ (pc' = pc /\ work' = work /\ \E la, start, page :
               call' = [call EXCEPT !.la = la, !.start = start, !.page = page])
    BY DEF LoadPage, Teardown
  <2>2. pc \in {"file", "bss"}
    BY <1>4 DEF LoadFile, LoadBss
  <2>3. (\E end, file : LoadPage(end, file)) \/ (NextSegment /\ work' = work)
    BY <1>4 DEF LoadFile, LoadBss
  <2>4. CASE NextSegment /\ work' = work
    BY <1>1, <2>2, <2>4 DEF NextSegment, CallType, Loading
  <2>5. CASE pc' = pc /\ work' = work /\ \E la, start, page :
                call' = [call EXCEPT !.la = la, !.start = start, !.page = page]
    BY <1>1, <2>2, <2>5 DEF CallType, Loading
  <2> QED BY <2>1, <2>3, <2>4, <2>5 DEF Loading, Copying
<1>5. CASE LoadEdge
  <2>1. /\ pc = "file" /\ work' = work
        /\ \/ pc' = "bss" /\ call' = call
           \/ NextSegment
           \/ pc' \in {"bss", "panic"} /\ \E start : call' = [call EXCEPT !.start = start]
    BY <1>5 DEF LoadEdge
  <2> QED BY <1>1, <2>1 DEF NextSegment, CallType, Loading, Copying
<1>6. CASE LoadStack
  <2>1. \/ pc' = "unmap" \/ pc' = "panic"
        \/ /\ pc' = "stack" /\ call' = [call EXCEPT !.i = 1]
           /\ \E memory \in BOOLEAN : \E addr, len, flags :
                 LET r == mm_map(work, addr, len, flags, memory)
                 IN  r.ret = "ok" /\ work' = r.mm
    BY <1>6 DEF LoadStack, Teardown
  <2>2. pc = "segment"
    BY <1>6 DEF LoadStack
  <2>3. CASE pc' = "stack"
    BY <1>1, <2>1, <2>2, <2>3, SamePgdir DEF CallType, Loading
  <2> QED BY <2>1, <2>3 DEF Loading, Copying
<1>7. CASE LoadStackPage
  BY <1>1, <1>7 DEF LoadStackPage, CallType, Loading, Copying
<1>8. CASE LoadBadMagic \/ LoadDone \/ ForkDone
  BY <1>8 DEF LoadBadMagic, LoadDone, ForkDone, Teardown, Loading, Copying
<1>9. CASE DupArea
  <2>1. /\ pc = "dup"
        /\ \/ pc' = "unmap" \/ pc' = "panic"
           \/ /\ pc' = "copy" /\ call' = [call EXCEPT !.la = SrcArea.vm_start]
              /\ work' = insert_vma_struct(work, SrcArea).mm
    BY <1>9 DEF DupArea, Teardown
  <2>2. CASE pc' = "copy"
    BY <1>1, <2>1, <2>2, SamePgdir DEF CallType, Loading, Copying
  <2> QED BY <2>1, <2>2 DEF Loading, Copying
<1>10. CASE CopyRange
  <2>1. /\ pc = "copy"
        /\ \/ pc' = "unmap" \/ pc' = "panic"
           \/ /\ pc' \in {"copy", "dup"} /\ work' = work
              /\ \E la, i : call' \in {[call EXCEPT !.la = la], [call EXCEPT !.i = i]}
    BY <1>10 DEF CopyRange, Teardown
  <2> QED BY <1>1, <2>1 DEF CallType, Loading, Copying
<1> QED
  <2>1. ~Boot /\ ~Begin
    BY DEF Boot, BootFirst, BootSecond, BootShare, BootRemove, BootFree, At, Begin, UserMain,
           Exit, Exec, Fork, Store, MemCheck, Loading, Copying
  <2>2. ~(Unmap \/ ExitRange \/ Load \/ MemCheckRound \/ MemCheckReturn)
    BY DEF Unmap, ExitRange, Load, MemCheckRound, MemCheckReturn, Loading, Copying
  <2>3. Stopped => UNCHANGED vars
    BY DEF Stopped
  <2> QED BY <2>1, <2>2, <2>3, <1>2, <1>3, <1>4, <1>5, <1>6, <1>7, <1>8, <1>9, <1>10 DEF Next, Run

-----------------------------------------------------------------------------
\* A page of the program that is loaded, or of the stack.
Belongs(a) ==
    \/ UserTop - StackSize <= a
    \/ \E k \in DOMAIN Segments :
          \E b \in Segments[k].va .. Segments[k].va + Segments[k].memsz - 1 : InPage(b, a)

\* load_icode() maps no other page, and loads only what passes its checks.
OnlyInv ==
    /\ pc \in {"file", "bss", "stack"} => call.prog.magic
    /\ pc \in Loading =>
          /\ \A s \in LoadedSegments : s.filesz <= s.memsz
          /\ \A a \in UPage : pte(mem, work.pgdir, a) # NULL => Belongs(a)

\* A step that maps at most a page that belongs to it.
LEMMA OnlyKept ==
    ASSUME AreaInv, OnlyInv, [Next]_vars, pc \in Loading, pc' \in Loading,
           pc' # "segment" => call.prog.magic,
           \A s \in LoadedSegments' : s \in LoadedSegments \/ s.filesz <= s.memsz,
           \A a \in UPage : pte(mem', work.pgdir, a) # NULL
                               => pte(mem, work.pgdir, a) # NULL \/ Belongs(a)
    PROVE  OnlyInv'
<1>1. call'.prog = call.prog /\ work'.pgdir = work.pgdir
  BY CallKept
<1>2. Segments' = Segments
  BY <1>1 DEF Segments
<1>3. \A a : Belongs(a) => Belongs(a)'
  BY <1>2 DEF Belongs
<1>4. \A s \in LoadedSegments' : s.filesz <= s.memsz
  BY DEF OnlyInv
<1>5. \A a \in UPage : pte(mem', work'.pgdir, a) # NULL => Belongs(a)'
  BY <1>1, <1>3 DEF OnlyInv
<1>6. pc' \in {"file", "bss", "stack"} => call'.prog.magic
  BY <1>1
<1> QED BY <1>4, <1>5, <1>6 DEF OnlyInv

\* Nothing is being loaded.
LEMMA OnlyElse ==
    ASSUME pc' \notin Loading
    PROVE  OnlyInv'
BY DEF OnlyInv, Loading

\* load_icode() begins with nothing.
LEMMA OnlyLoad ==
    ASSUME AreaInv, PageInv, Load
    PROVE  OnlyInv'
<1>1. CASE pc' = "user"
  BY <1>1, OnlyElse DEF Loading
<1>2. CASE pc' # "user"
  <2>1. /\ Free(mem) # {} /\ mem' = setup_pgdir(mem) /\ work' = mm_create(mem)
        /\ \E prog \in Programs : call' = [call EXCEPT !.prog = prog, !.i = 1]
        /\ pc = "load" /\ pc' = "segment" /\ mm' = mm
    BY <1>2 DEF Load
  <2>2. \A a \in UPage : pte(mem', work'.pgdir, a) = NULL
    BY <2>1, ImageNew
  <2>3. call \in CallType
    BY <2>1, Before
  <2>4. call'.prog \in Programs /\ call'.i = 1
    BY <2>1, <2>3 DEF CallType
  <2>5. Segments' \in Seq(Segment)
    BY <2>4, Constants DEF Segments
  <2>6. \A j \in DOMAIN Segments' : ~(j < 1)
    BY <2>5
  <2>7. LoadedSegments' = {}
    BY <2>1, <2>4, <2>6 DEF LoadedSegments
  <2> QED BY <2>1, <2>2, <2>7 DEF OnlyInv
<1> QED BY <1>1, <1>2

\* The segments that are loaded stay the same while one is filled.
LEMMA OnlySegments ==
    ASSUME AreaInv, [Next]_vars, pc \in Loading, pc' \in Loading, call'.i = call.i,
           pc # "stack", pc' # "stack"
    PROVE  LoadedSegments' = LoadedSegments
<1>1. Segments' = Segments
  BY CallKept DEF Segments
<1> QED BY <1>1 DEF LoadedSegments

\* The header of a segment,
LEMMA OnlyLoadSegment ==
    ASSUME AreaInv, OnlyInv, LoadSegment
    PROVE  OnlyInv'
<1>1. CASE pc' \notin Loading
  BY <1>1, OnlyElse
<1>2. CASE pc' \in Loading
  <2>1. /\ pc = "segment" /\ pc' = "file" /\ mem' = mem /\ call.prog.magic
        /\ call' = [call EXCEPT !.start = ph.va, !.la = ROUNDDOWN(ph.va, PGSIZE)]
    BY <1>2 DEF LoadSegment, Teardown, Loading
  <2>2. call'.i = call.i
    BY <2>1, Before DEF CallType
  <2>3. [Next]_vars
    BY DEF Next, Run
  <2>4. pc \in Loading
    BY <2>1 DEF Loading
  <2>5. LoadedSegments' = LoadedSegments
    BY <1>2, <2>1, <2>2, <2>3, <2>4, OnlySegments
  <2> QED BY <1>2, <2>1, <2>3, <2>4, <2>5, OnlyKept
<1> QED BY <1>1, <1>2

\* what follows one that is loaded,
LEMMA OnlyNextSegment ==
    ASSUME AreaInv, PageInv, OnlyInv, [Next]_vars, pc \in {"file", "bss"}, mem' = mem, NextSegment
    PROVE  OnlyInv'
<1>1. pc' = "segment" /\ call' = [call EXCEPT !.i = @ + 1, !.page = NULL]
  BY DEF NextSegment
<1>2. pc \in Loading /\ pc' \in Loading
  BY <1>1 DEF Loading
<1>3. call \in CallType
  BY <1>2, Loaded
<1>4. call'.prog = call.prog /\ call'.i = call.i + 1
  BY <1>1, <1>3 DEF CallType
<1>5. Segments' = Segments
  BY <1>4 DEF Segments
<1>6. Segments \in Seq(Segment) /\ call.i \in 1 .. Len(Segments)
  BY <1>2, LoadedAre, Before DEF Calling
<1>7. DOMAIN Segments = 1 .. Len(Segments) /\ Len(Segments) \in Nat
  BY <1>6
<1>8. \A j \in DOMAIN Segments : j < call.i + 1 <=> j < call.i \/ j = call.i
  BY <1>6, <1>7
<1>9. \A s \in LoadedSegments' : s \in LoadedSegments \/ s = ph
  BY <1>1, <1>4, <1>5, <1>8 DEF LoadedSegments, ph
<1>10. ph.filesz <= ph.memsz
  BY Filler DEF Filling
<1> QED BY <1>1, <1>2, <1>9, <1>10, OnlyKept

\* A byte that is loaded next is on the page that is mapped for it.
LEMMA StartInPage ==
    ASSUME AreaInv, PageInv, MapInv, ImageInv, pc \in {"file", "bss"},
           NEW end, end = ph.va + (IF pc = "file" THEN ph.filesz ELSE ph.memsz),
           call.start < end
    PROVE  /\ call.la \in UPage /\ InPage(call.start, call.la) /\ Belongs(call.la)
<1>1. /\ ph.va \in Nat /\ ph.filesz \in Nat /\ ph.memsz \in Nat
      /\ ph.filesz <= ph.memsz /\ ph.va + ph.memsz <= UserTop
      /\ call.start \in Nat /\ call.la \in Nat /\ call.la % PGSIZE = 0
      /\ ph.va <= call.start
  BY FillingFacts DEF FillingImage
<1>2. PICK va \in Nat, f \in Nat, l \in Nat, start \in Nat, la \in Nat :
         va = ph.va /\ f = ph.filesz /\ l = ph.memsz /\ start = call.start /\ la = call.la
  BY <1>1
<1>3. la <= start /\ start < end /\ end <= va + l /\ va + l <= UserTop
  <2>1. f <= l /\ end = va + (IF pc = "file" THEN f ELSE l)
    BY <1>1, <1>2
  <2>2. call.la <= call.start
    BY <2>1, <1>2, Filler DEF Filling
  <2> QED BY <1>1, <1>2, <2>1, <2>2
<1>4. la \in UPage
  <2>1. PICK e \in Int : e = end
    BY <1>1
  <2>2. PICK top \in Nat : top = UserTop
    BY Constants
  <2>3. la < UserTop
    BY <1>2, <1>3, <2>1, <2>2
  <2> QED BY <1>1, <1>2, <2>3, Constants DEF UPage, PagesOf
<1>5. start < la + PGSIZE
  <2>1. start <= la \/ (la = PhArea.vm_start /\ start = ph.va)
    BY <1>2, FillingArea DEF FillingMap
  <2>2. CASE start <= la
    BY <2>2, Constants
  <2>3. CASE la = ROUNDDOWN(ph.va, PGSIZE) /\ start = ph.va
    BY <1>1, <2>3, RoundBounds, Constants
  <2> QED BY <2>1, <2>2, <2>3, FillingArea
<1>6. start \in va .. va + l - 1
  <2>1. PICK e \in Int : e = end
    BY <1>1
  <2> QED BY <1>1, <1>2, <1>3, <2>1
<1>7. InPage(start, la)
  BY <1>3, <1>5 DEF InPage
<1>8. call.i \in DOMAIN Segments
  <2>1. Segments \in Seq(Segment) /\ call.i \in 1 .. Len(Segments)
    BY LoadedAre, Before DEF Loading, Calling
  <2> QED BY <2>1
<1>9. Belongs(la)
  BY <1>2, <1>6, <1>7, <1>8 DEF Belongs, ph
<1> QED BY <1>2, <1>4, <1>7, <1>9

\* a page of it,
LEMMA OnlyLoadPage ==
    ASSUME AreaInv, PageInv, MapInv, ImageInv, OnlyInv, [Next]_vars, pc \in {"file", "bss"},
           NEW file \in BOOLEAN,
           NEW end, end = ph.va + (IF pc = "file" THEN ph.filesz ELSE ph.memsz),
           call.start < end, LoadPage(end, file)
    PROVE  OnlyInv'
<1>1. /\ call \in CallType /\ work.pgdir \in Dirs(mem) /\ Good(mem)
  BY Filler
<1>2. PICK la \in UPage : la = call.la /\ Belongs(la)
  BY StartInPage
<1>3. PICK bits \in Perm : bits = perm(ph.flags)
  BY AreaPerm
<1>4. PICK r : r = pgdir_alloc_page(mem, work.pgdir, la, bits)
  OBVIOUS
<1>5. CASE r.page = NULL
  <2>1. Teardown(r.mem, work, "load_failed")
    BY <1>2, <1>3, <1>4, <1>5 DEF LoadPage
  <2>2. pc' \notin Loading
    BY <2>1 DEF Teardown, Loading
  <2> QED BY <2>2, OnlyElse
<1>6. CASE r.page # NULL
  <2> DEFINE next == call.la + PGSIZE
             size == IF end < next THEN end - call.start ELSE next - call.start
  <2>0. /\ call' = [call EXCEPT !.la = next, !.start = @ + size, !.page = r.page]
        /\ pc' = pc
        /\ mem' = Filled(r.mem, r.page, call.la, call.start, size, file)
    BY <1>2, <1>3, <1>4, <1>6 DEF LoadPage
  <2> HIDE DEF next, size
  <2>1. /\ pc' = pc
        /\ \E start, page, new :
              call' = [call EXCEPT !.la = new, !.start = start, !.page = page]
        /\ mem' = Filled(r.mem, r.page, call.la, call.start, size, file)
    BY <2>0
  <2>2. call'.i = call.i
    BY <1>1, <2>1 DEF CallType
  <2>3. Good(r.mem) /\ Dirs(r.mem) = Dirs(mem)
    BY <1>1, <1>4, UPageFacts, NewPage DEF Keeps
  <2>4. SameMap(r.mem, mem')
    BY <2>1, <2>3, FilledMap
  <2>5. \A a \in UPage : pte(mem', work.pgdir, a) = pte(r.mem, work.pgdir, a)
    BY <1>1, <2>3, <2>4 DEF SameMap
  <2>6. \A a \in UPage : a # la => pte(r.mem, work.pgdir, a) = pte(mem, work.pgdir, a)
    BY <1>1, <1>4, NewPageMap DEF SameMap, NewMap
  <2>7. pc \in Loading /\ pc' \in Loading /\ call.prog.magic
    BY <2>1 DEF Loading, OnlyInv
  <2>8. LoadedSegments' = LoadedSegments
    BY <2>1, <2>2, <2>7, OnlySegments
  <2> QED BY <1>2, <2>5, <2>6, <2>7, <2>8, OnlyKept
<1> QED BY <1>5, <1>6

\* in each of the two loops,
LEMMA OnlyLoadPages ==
    ASSUME AreaInv, PageInv, MapInv, ImageInv, OnlyInv, LoadFile \/ LoadBss
    PROVE  OnlyInv'
<1>1. PICK file \in BOOLEAN : file <=> pc = "file"
  OBVIOUS
<1>2. pc \in {"file", "bss"} /\ [Next]_vars
  BY DEF LoadFile, LoadBss, Next, Run
<1>3. PICK end : end = ph.va + (IF pc = "file" THEN ph.filesz ELSE ph.memsz)
  OBVIOUS
<1>4. end = IF pc = "file" THEN file_end ELSE mem_end
  BY <1>2, <1>3, Filler
<1>5. \/ call.start < end /\ LoadPage(end, file)
      \/ NextSegment /\ mem' = mem
  <2>1. CASE LoadFile
    <3>1. pc = "file" /\ call.start < file_end /\ LoadPage(file_end, TRUE)
      BY <2>1 DEF LoadFile
    <3>2. file = TRUE /\ end = file_end
      BY <1>1, <1>4, <3>1
    <3> QED BY <3>1, <3>2
  <2>2. CASE LoadBss
    <3>1. /\ pc = "bss"
          /\ \/ call.start < mem_end /\ LoadPage(mem_end, FALSE)
             \/ NextSegment /\ mem' = mem
      BY <2>2 DEF LoadBss
    <3>2. file = FALSE /\ end = mem_end
      BY <1>1, <1>4, <3>1
    <3> QED BY <3>1, <3>2
  <2> QED BY <2>1, <2>2
<1>6. CASE call.start < end /\ LoadPage(end, file)
  BY <1>2, <1>3, <1>6, OnlyLoadPage
<1>7. CASE NextSegment /\ mem' = mem
  BY <1>2, <1>7, OnlyNextSegment
<1> QED BY <1>5, <1>6, <1>7

\* and the rest of the last one.
LEMMA OnlyLoadEdge ==
    ASSUME AreaInv, PageInv, OnlyInv, LoadEdge
    PROVE  OnlyInv'
<1>1. /\ pc = "file" /\ [Next]_vars
      /\ \/ pc' = "bss" /\ mem' = mem /\ call' = call
         \/ NextSegment /\ mem' = mem
         \/ /\ pc' \in {"bss", "panic"}
            /\ \E la, start, size : mem' = Filled(mem, call.page, la, start, size, FALSE)
            /\ \E start : call' = [call EXCEPT !.start = start]
  BY DEF LoadEdge, Next, Run
<1>2. call \in CallType /\ Good(mem) /\ work.pgdir \in Dirs(mem)
  BY <1>1, Filler
<1>3. CASE NextSegment /\ mem' = mem
  BY <1>1, <1>3, OnlyNextSegment
<1>4. CASE pc' = "panic"
  BY <1>4, OnlyElse DEF Loading
<1>5. CASE pc' = "bss"
  <2>1. SameMap(mem, mem')
    BY <1>1, <1>2, <1>5, FilledMap, SameEntries DEF NextSegment
  <2>2. call'.i = call.i
    BY <1>1, <1>2, <1>5 DEF CallType, NextSegment
  <2>3. pc \in Loading /\ pc' \in Loading /\ call.prog.magic
    BY <1>1, <1>5 DEF Loading, OnlyInv
  <2>4. LoadedSegments' = LoadedSegments
    BY <1>1, <1>5, <2>2, <2>3, OnlySegments
  <2>5. \A a \in UPage : pte(mem', work.pgdir, a) = pte(mem, work.pgdir, a)
    BY <1>2, <2>1 DEF SameMap
  <2> QED BY <1>1, <2>3, <2>4, <2>5, OnlyKept
<1> QED BY <1>1, <1>3, <1>4, <1>5

\* The stack: when it is mapped, all segments are loaded.
LEMMA OnlyLoadStack ==
    ASSUME AreaInv, PageInv, OnlyInv, LoadStack
    PROVE  OnlyInv'
<1>1. CASE pc' \notin Loading
  BY <1>1, OnlyElse
<1>2. CASE pc' \in Loading
  <2>1. /\ pc = "segment" /\ pc' = "stack" /\ mem' = mem /\ call.prog.magic
        /\ call.i > Len(Segments) /\ [Next]_vars
    BY <1>2 DEF LoadStack, Teardown, Loading, Next, Run
  <2>2. pc \in Loading
    BY <2>1 DEF Loading
  <2>3. Segments \in Seq(Segment) /\ call \in CallType
    BY <2>2, LoadedAre, Loaded
  <2>4. \A j \in DOMAIN Segments : j < call.i
    <3>1. PICK n \in Nat : n = Len(Segments) /\ DOMAIN Segments = 1 .. n
      BY <2>3
    <3>2. call.i \in Int
      BY <2>3 DEF CallType
    <3> QED BY <2>1, <3>1, <3>2
  <2>5. Segments' = Segments
    BY <1>2, <2>1, <2>2, CallKept DEF Segments
  <2>6. LoadedSegments' = LoadedSegments
    BY <2>1, <2>4, <2>5 DEF LoadedSegments
  <2> QED BY <1>2, <2>1, <2>2, <2>6, OnlyKept
<1> QED BY <1>1, <1>2

\* One of its pages.
LEMMA OnlyLoadStackPage ==
    ASSUME AreaInv, PageInv, MapInv, OnlyInv, LoadStackPage
    PROVE  OnlyInv'
<1>1. pc = "stack" /\ work' = work /\ [Next]_vars
  BY DEF LoadStackPage, Next, Run
<1>2. pc \in Loading /\ call.prog.magic /\ work.pgdir \in Dirs(mem) /\ Good(mem)
  BY <1>1, Loaded DEF Loading, OnlyInv
<1>3. PICK la \in UPage : la = UserTop - call.i * PGSIZE /\ Holds(StackArea, la)
  BY StackPage
<1>4. PICK bits \in Perm : bits = PTE_USER
  BY DEF Perm, PTE_USER
<1>5. PICK r : r = pgdir_alloc_page(mem, work.pgdir, la, bits)
  OBVIOUS
<1>6. mem' = r.mem /\ pc' = IF r.page = NULL THEN "panic" ELSE pc
  BY <1>1, <1>3, <1>4, <1>5 DEF LoadStackPage
<1>7. CASE r.page = NULL
  BY <1>6, <1>7, OnlyElse DEF Loading
<1>8. CASE r.page # NULL
  <2>1. \A a \in UPage : a # la => pte(mem', work.pgdir, a) = pte(mem, work.pgdir, a)
    BY <1>2, <1>5, <1>6, NewPageMap DEF SameMap, NewMap
  <2>2. Belongs(la)
    BY <1>3 DEF Holds, StackArea, vma_create, Belongs
  <2>3. pc' \in Loading /\ pc' = "stack"
    BY <1>1, <1>6, <1>8 DEF Loading
  <2>4. Segments' = Segments
    BY <1>1, <1>2, <2>3, CallKept DEF Segments
  <2>5. LoadedSegments' = LoadedSegments
    BY <1>1, <2>3, <2>4 DEF LoadedSegments
  <2> QED BY <1>1, <1>2, <2>1, <2>2, <2>3, <2>5, OnlyKept
<1> QED BY <1>7, <1>8

\* Every step.
LEMMA OnlyStep ==
    ASSUME AreaInv, PageInv, MapInv, ImageInv, OnlyInv, [Next]_vars
    PROVE  OnlyInv'
<1>1. CASE pc' \notin Loading
  BY <1>1, OnlyElse
<1>2. CASE UNCHANGED vars
  <2>1. mem' = mem /\ work' = work /\ pc' = pc /\ call' = call
    BY <1>2 DEF vars
  <2> QED BY <2>1 DEF OnlyInv, LoadedSegments, Belongs, Segments
<1>3. CASE pc' \in Loading /\ Next /\ ~UNCHANGED vars
  <2>1. \/ Load \/ LoadSegment \/ LoadFile \/ LoadBss \/ LoadEdge \/ LoadStack \/ LoadStackPage
    <3>1. ~Boot /\ ~Begin
      BY <1>3 DEF Boot, BootFirst, BootSecond, BootShare, BootRemove, BootFree, At, NextCheck, Begin,
             UserMain, Exit, Exec, Fork, Store, MemCheck, Loading
    <3>2. ~(Unmap \/ ExitRange \/ LoadBadMagic \/ LoadDone \/ ForkDone \/ MemCheckRound
            \/ MemCheckReturn)
      BY <1>3 DEF Unmap, ExitRange, LoadBadMagic, LoadDone, ForkDone, MemCheckRound,
             MemCheckReturn, Teardown, Loading
    <3>3. ~(DupArea \/ CopyRange)
      BY <1>3 DEF DupArea, CopyRange, Teardown, Loading
    <3>4. ~Stopped
      BY <1>3 DEF Stopped
    <3> QED BY <1>3, <3>1, <3>2, <3>3, <3>4 DEF Next, Run
  <2> QED BY <2>1, OnlyLoad, OnlyLoadSegment, OnlyLoadPages, OnlyLoadEdge, OnlyLoadStack,
             OnlyLoadStackPage
<1> QED BY <1>1, <1>2, <1>3

\* What load_icode() has mapped so far are pages of the program and of the stack.
THEOREM OnlyInvariant == IdealSpec => []OnlyInv
<1>1. Init => OnlyInv
  BY DEF Init, OnlyInv, Loading
<1>2. AreaInv /\ PageInv /\ MapInv /\ ImageInv /\ OnlyInv /\ [Next]_vars => OnlyInv'
  BY OnlyStep
<1> QED BY <1>1, <1>2, AreaInvariant, PageInvariant, MapInvariant, ImageInvariant, PTL
        DEF IdealSpec

-----------------------------------------------------------------------------
\* The memory of a process is none that is not there.
LEMMA ImageThere ==
    ASSUME NEW m, Good(m), NEW root \in Dirs(m)
    PROVE  ImageOf(m, root) # NULL
<1>1. PICK S \in SUBSET Addr : S = {b \in Addr : pte(m, root, b) # NULL}
  OBVIOUS
<1>2. ASSUME NEW a \in S
      PROVE  m.data[pte(m, root, a).page][a % PGSIZE] \in Int
  <2>1. a \in Nat /\ a < UserTop
    BY Constants DEF Addr
  <2>2. PICK b \in UPage : /\ a % PGSIZE \in 0 .. PGSIZE - 1
                           /\ \A k, s : pte(k, s, a) = pte(k, s, b)
    BY <2>1, BytePage
  <2>3. pte(m, root, a) # NULL
    BY <1>1
  <2>4. pte(m, root, a).page \in Page
    BY <2>2, <2>3, MappedUse
  <2>5. m.data \in [Page -> [0 .. PGSIZE - 1 -> Int]]
    BY DEF Good, Memory
  <2> QED BY <2>2, <2>4, <2>5
<1>3. PICK f : f = [a \in S |-> m.data[pte(m, root, a).page][a % PGSIZE]]
  OBVIOUS
<1>4. f \in [S -> Int]
  BY <1>2, <1>3
<1>5. f # NULL
  BY <1>4, ImageAssumption
<1>6. ImageOf(m, root) = f
  BY <1>1, <1>3, Zenon DEF ImageOf
<1> QED BY <1>5, <1>6

\* A step that only one process sees.
LEMMA SeenOne ==
    ASSUME NEW s \in Space, NEW new, new = Image(s)',
           \A x \in Space \ {s} : /\ mm'[x] = NULL <=> mm[x] = NULL
                                  /\ mm[x] # NULL => /\ mm'[x].pgdir = mm[x].pgdir
                                                     /\ SameImage(mem, mm[x].pgdir, mem', mm[x].pgdir)
    PROVE  Seen' = [Seen EXCEPT ![s] = new]
<1>1. ASSUME NEW x \in Space, x # s PROVE Image(x)' = Image(x)
  <2>1. Image(x) = IF mm[x] = NULL THEN NULL ELSE ImageOf(mem, mm[x].pgdir)
    BY ImageIs
  <2>2. Image(x)' = IF mm'[x] = NULL THEN NULL ELSE ImageOf(mem', mm'[x].pgdir)
    BY Zenon DEF Image, ImageOf
  <2>3. CASE mm[x] = NULL
    BY <1>1, <2>1, <2>2, <2>3
  <2>4. CASE mm[x] # NULL
    <3>1. ImageOf(mem', mm[x].pgdir) = ImageOf(mem, mm[x].pgdir)
      BY <1>1, <2>4, ImagesAgree
    <3> QED BY <1>1, <2>1, <2>2, <2>4, <3>1
  <2> QED BY <2>3, <2>4
<1> QED BY <1>1 DEF Seen

\* What the call in progress was asked for, if there is one.
LEMMA AskedIs ==
    /\ pc \in Loading => Asked = [op |-> "exec", proc |-> call.proc, prog |-> call.prog]
    /\ pc \in Copying => Asked = [op |-> "fork", proc |-> call.proc, src |-> call.src]
    /\ pc \notin Loading \cup Copying => Asked = NULL
BY DEF Asked, Loading, Copying

\* After a step, too.
LEMMA AskedNext ==
    /\ pc' \in Loading => Asked' = [op |-> "exec", proc |-> call'.proc, prog |-> call'.prog]
    /\ pc' \in Copying => Asked' = [op |-> "fork", proc |-> call'.proc, src |-> call'.src]
    /\ pc' \notin Loading \cup Copying => Asked' = NULL
BY DEF Asked, Loading, Copying

\* An exec is not a fork, and neither is NULL.
LEMMA Requests ==
    /\ \A r \in Promise!Execs : r # NULL /\ r \notin Promise!Forks
    /\ \A r \in Promise!Forks : r # NULL /\ r \notin Promise!Execs
<1>1. \A r \in Promise!Execs : r.op = "exec"
  BY DEF Promise!Execs
<1>2. \A r \in Promise!Forks : r.op = "fork"
  BY DEF Promise!Forks
<1>3. NULL \notin Promise!Execs /\ NULL \notin Promise!Forks
  BY ImageAssumption DEF Promise!Execs, Promise!Forks
<1> QED BY <1>1, <1>2, <1>3

LEMMA AskedThere ==
    ASSUME AreaInv
    PROVE  /\ pc \in Loading => Asked \in Promise!Execs
           /\ pc \in Copying => Asked \in Promise!Forks
<1>1. CASE pc \in Loading
  <2>1. call.proc \in Space /\ call.prog \in Programs
    BY <1>1, Before DEF Calling, InCall, Loading
  <2>2. pc \notin Copying
    BY <1>1 DEF Loading, Copying
  <2> QED BY <1>1, <2>1, <2>2, AskedIs DEF Promise!Execs
<1>2. CASE pc \in Copying
  <2>1. call.proc \in Space /\ call.src \in Space
    BY <1>2, Before DEF Calling, InCall, Copying
  <2>2. pc \notin Loading
    BY <1>2 DEF Loading, Copying
  <2> QED BY <1>2, <2>1, <2>2, AskedIs DEF Promise!Forks
<1> QED BY <1>1, <1>2

\* A step that no process sees: the call goes on, fails, or there is none.
LEMMA QuietStep ==
    ASSUME AreaInv, [Next]_vars, Seen' = Seen,
           pc \in Loading \cup Copying \/ pc' \notin Loading \cup Copying
    PROVE  [Promise!Next]_<<Seen, Asked>>
<1>1. CASE pc \in Loading \cup Copying /\ pc' \in Loading \cup Copying
  <2>1. /\ call'.proc = call.proc /\ call'.src = call.src /\ call'.prog = call.prog
        /\ pc' \in Loading <=> pc \in Loading
    BY <1>1, CallKept
  <2>2. Asked' = Asked
    BY <1>1, <2>1, AskedIs, AskedNext
  <2> QED BY <2>2
<1>2. CASE pc \in Loading \cup Copying /\ pc' \notin Loading \cup Copying
  <2>1. Asked # NULL
    BY <1>2, AskedThere, Requests
  <2>2. Asked' = NULL
    BY <1>2, AskedNext
  <2>3. Promise!Refuse
    BY <2>1, <2>2 DEF Promise!Refuse, Seen
  <2> QED BY <2>3 DEF Promise!Next
<1>3. CASE pc \notin Loading \cup Copying /\ pc' \notin Loading \cup Copying
  BY <1>3, AskedIs, AskedNext
<1> QED BY <1>1, <1>2, <1>3

\* exec asks for a program: the process has no memory any more.
LEMMA LoadAsks ==
    ASSUME AreaInv, PageInv, Load
    PROVE  [Promise!Next]_<<Seen, Asked>>
<1>1. pc = "load" /\ Seen' = Seen /\ call \in CallType /\ [Next]_vars
  BY ImageLoad, Before DEF Load, Next, Run
<1>2. CASE pc' # "segment"
  <2>1. pc' \notin Loading \cup Copying
    BY <1>2 DEF Load, Loading, Copying
  <2> QED BY <1>1, <2>1, QuietStep
<1>3. CASE pc' = "segment"
  <2>1. \E prog \in Programs : call' = [call EXCEPT !.prog = prog, !.i = 1]
    BY <1>3 DEF Load
  <2>2. call'.proc = call.proc /\ call'.prog \in Programs
    BY <1>1, <2>1 DEF CallType
  <2>3. PICK s \in Space : s = call.proc /\ mm[s] = NULL
    BY <1>1, Before DEF Calling, InCall
  <2>4. Asked = NULL
    BY <1>1, AskedIs DEF Loading, Copying
  <2>5. Asked' = [op |-> "exec", proc |-> s, prog |-> call'.prog]
    BY <1>3, <2>2, <2>3, AskedNext DEF Loading
  <2>6. Asked' \in Promise!Execs /\ Asked'.proc = s
    BY <2>2, <2>5 DEF Promise!Execs
  <2>7. Seen[s] = NULL
    BY <2>3, ImageIs DEF Seen
  <2>8. Asked' \notin Promise!Forks
    BY <2>6, Requests
  <2>9. Promise!Ask
    BY <1>1, <2>4, <2>6, <2>7, <2>8 DEF Promise!Ask, Seen
  <2> QED BY <2>9 DEF Promise!Next
<1> QED BY <1>2, <1>3

\* A fork asks for the memory of the parent.
LEMMA ForkAsks ==
    ASSUME AreaInv, PageInv, NEW s \in Space, NEW t \in Space, Fork(s, t)
    PROVE  [Promise!Next]_<<Seen, Asked>>
<1>1. /\ pc = "user" /\ mm[s] # NULL /\ mm[t] = NULL /\ Seen' = Seen /\ pc' = "dup"
      /\ call' = [NoCall EXCEPT !.proc = t, !.src = s, !.i = Len(mm[s].mmap_list)]
  BY ImageFork DEF Fork
<1>2. call'.proc = t /\ call'.src = s
  BY <1>1 DEF NoCall
<1>3. Asked = NULL
  BY <1>1, AskedIs DEF Loading, Copying
<1>4. Asked' = [op |-> "fork", proc |-> t, src |-> s]
  BY <1>1, <1>2, AskedNext DEF Copying
<1>5. Asked' \in Promise!Forks /\ Asked'.proc = t /\ Asked'.src = s
  BY <1>4 DEF Promise!Forks
<1>6. Seen[t] = NULL
  BY <1>1, ImageIs DEF Seen
<1>7. Seen[s] # NULL
  <2>1. mm[s].pgdir \in Dirs(mem) /\ Good(mem)
    BY <1>1, Trees
  <2>2. ImageOf(mem, mm[s].pgdir) # NULL
    BY <2>1, ImageThere
  <2> QED BY <1>1, <2>2, ImageIs DEF Seen
<1>8. Promise!Ask
  BY <1>1, <1>3, <1>5, <1>6, <1>7 DEF Promise!Ask, Seen
<1> QED BY <1>8 DEF Promise!Next

\* do_exit() and do_execve() drop the memory of the process.
LEMMA DropStep ==
    ASSUME AreaInv, NEW s \in Space, Exit(s) \/ Exec(s)
    PROVE  [Promise!Next]_<<Seen, Asked>>
<1>1. mem' = mem /\ mm' = [mm EXCEPT ![s] = NULL] /\ pc = "user" /\ pc' = "unmap"
  BY DEF Exit, Exec
<1>2. mm \in [Space -> mm_struct \cup {NULL}]
  BY Before DEF Spaces
<1>3. mm'[s] = NULL /\ \A x \in Space \ {s} : mm'[x] = mm[x]
  BY <1>1, <1>2
<1>4. Image(s)' = NULL
  BY <1>3, Zenon DEF Image
<1>5. \A r : SameImage(mem, r, mem', r)
  BY <1>1, SameSelf
<1>6. PICK new : new = Image(s)'
  OBVIOUS
<1>7. Seen' = [Seen EXCEPT ![s] = new]
  BY <1>3, <1>5, <1>6, SeenOne
<1>8. Asked = NULL /\ Asked' = NULL
  BY <1>1, AskedIs, AskedNext DEF Loading, Copying
<1>9. Promise!Drop
  BY <1>4, <1>6, <1>7, <1>8 DEF Promise!Drop, Seen
<1> QED BY <1>9 DEF Promise!Next

\* A process gets the address space that a call has built.
LEMMA GivenStep ==
    ASSUME AreaInv, PageInv, pc \in {"stack", "dup"}, mem' = mem,
           mm' = [mm EXCEPT ![call.proc] = work]
    PROVE  \E s \in Space : /\ s = call.proc /\ mm[s] = NULL /\ Seen[s] = NULL
                            /\ Seen' = [Seen EXCEPT ![s] = ImageOf(mem, work.pgdir)]
                            /\ ImageOf(mem, work.pgdir) # NULL
<1>1. PICK s \in Space : s = call.proc /\ mm[s] = NULL
  BY Before DEF Calling, InCall, Building, Loading, Copying
<1>2. work # NULL /\ work.pgdir \in Dirs(mem) /\ Good(mem)
  BY Before, Trees DEF Spaces, Building, Loading, Copying
<1>3. mm \in [Space -> mm_struct \cup {NULL}]
  BY Before DEF Spaces
<1>4. mm'[s] = work /\ \A x \in Space \ {s} : mm'[x] = mm[x]
  BY <1>1, <1>3
<1>5. Image(s)' = ImageOf(mem, work.pgdir)
  <2>1. Image(s)' = IF mm'[s] = NULL THEN NULL ELSE ImageOf(mem', mm'[s].pgdir)
    BY Zenon DEF Image, ImageOf
  <2> QED BY <1>2, <1>4, <2>1
<1>6. \A r : SameImage(mem, r, mem', r)
  BY SameSelf
<1>7. PICK new : new = Image(s)'
  OBVIOUS
<1>8. Seen' = [Seen EXCEPT ![s] = new]
  BY <1>4, <1>6, <1>7, SeenOne
<1>9. Seen[s] = NULL
  BY <1>1, ImageIs DEF Seen
<1>10. ImageOf(mem, work.pgdir) # NULL
  BY <1>2, ImageThere
<1> QED BY <1>1, <1>5, <1>7, <1>8, <1>9, <1>10

\* Two bytes of a page.
LEMMA BytesOfPage ==
    ASSUME NEW la \in UPage, NEW a \in Nat, InPage(a, la), NEW b \in Nat, InPage(b, la)
    PROVE  a \div PGSIZE = b \div PGSIZE
<1>1. PICK g \in Nat \ {0} : g = PGSIZE
  BY Constants
<1>2. PICK z \in Nat : la = g * z
  <2>1. la \in Nat /\ la % g = 0
    BY <1>1, UPageFacts
  <2> QED BY <2>1, Multiple
<1>3. ASSUME NEW c \in Nat, InPage(c, la) PROVE c \div g = z
  <2>1. PICK x \in Nat : x = g * z
    BY <1>2, UPageFacts
  <2>2. PICK o \in Nat : o < g /\ c = x + o
    <3>1. x <= c /\ c < x + g
      BY <1>1, <1>2, <1>3, <2>1 DEF InPage
    <3>2. c - x \in Nat /\ c - x < g /\ c = x + (c - x)
      BY <2>1, <3>1
    <3> QED BY <3>2
  <2>3. c = g * z + o
    BY <2>1, <2>2
  <2> QED BY <2>2, <2>3, DivIs
<1> QED BY <1>1, <1>3

\* load_icode() maps nothing else.
LEMMA LoadedOnly ==
    ASSUME AreaInv, PageInv, ImageInv, OnlyInv, pc = "stack",
           NEW new, new = ImageOf(mem, work.pgdir),
           NEW prog \in Programs, prog = call.prog
    PROVE  Promise!NoMore(new, prog)
<1>1. /\ AllIn(mem, work.pgdir, LoadedSegments) /\ LoadedSegments \subseteq Segment
      /\ LoadedSegments = {Segments[k] : k \in DOMAIN Segments} /\ prog.segments = Segments
  BY LoadedAre DEF ImageInv, Loading, LoadedSegments, Segments
<1> SUFFICES ASSUME NEW a \in DOMAIN new, ~(a \in UserTop - StackSize .. UserTop - 1)
             PROVE  \E k \in DOMAIN prog.segments :
                       \E b \in Promise!Bytes(prog.segments[k]) : Promise!SamePage(a, b)
  BY DEF Promise!NoMore
<1>2. a \in Addr /\ pte(mem, work.pgdir, a) # NULL /\ a \in Nat /\ a < UserTop
  <2>1. a \in Addr /\ pte(mem, work.pgdir, a) # NULL
    BY DEF ImageOf
  <2> QED BY <2>1, Constants DEF Addr
<1>3. PICK la \in UPage : la = ROUNDDOWN(a, PGSIZE) /\ pte(mem, work.pgdir, la) # NULL
  BY <1>2, BytePage
<1>4. InPage(a, la)
  BY <1>2, <1>3, PageOfByte
<1>5. Belongs(la)
  BY <1>3 DEF OnlyInv, Loading
<1>6. ~(UserTop - StackSize <= la)
  <2>1. la \in Nat /\ la <= a
    BY <1>4, UPageFacts DEF InPage
  <2> QED BY <1>2, <2>1, Constants
<1>7. PICK k \in DOMAIN Segments :
         \E b \in Segments[k].va .. Segments[k].va + Segments[k].memsz - 1 : InPage(b, la)
  BY <1>5, <1>6 DEF Belongs
<1>8. PICK seg \in Segment : seg = Segments[k] /\ seg \in LoadedSegments
  BY <1>1
<1>9. PICK b \in seg.va .. seg.va + seg.memsz - 1 : InPage(b, la)
  BY <1>7, <1>8
<1>10. b \in Nat
  BY <1>8, <1>9 DEF Segment
<1>11. Promise!SamePage(a, b)
  BY <1>2, <1>4, <1>9, <1>10, BytesOfPage DEF Promise!SamePage
<1> QED BY <1>1, <1>8, <1>9, <1>11 DEF Promise!Bytes

\* The program is loaded as its file says,
LEMMA LoadedStep ==
    ASSUME AreaInv, PageInv, ImageInv, OnlyInv, LoadDone
    PROVE  [Promise!Next]_<<Seen, Asked>>
<1>1. pc = "stack" /\ pc' = "user" /\ mem' = mem /\ mm' = [mm EXCEPT ![call.proc] = work]
  BY DEF LoadDone
<1>2. PICK new : new = ImageOf(mem, work.pgdir)
  OBVIOUS
<1>3. PICK s \in Space : s = call.proc /\ Seen' = [Seen EXCEPT ![s] = new] /\ new # NULL
  BY <1>1, <1>2, GivenStep
<1>4. PICK prog \in Programs : prog = call.prog /\ prog.segments = Segments
  BY <1>1, Before DEF Calling, Loading, Segments
<1>5. /\ AllIn(mem, work.pgdir, LoadedSegments) /\ LoadedSegments \subseteq Segment
      /\ LoadedSegments = {Segments[k] : k \in DOMAIN Segments}
  BY <1>1, LoadedAre DEF ImageInv, Loading, LoadedSegments
<1>6. ASSUME NEW k \in DOMAIN prog.segments, NEW a \in Promise!Bytes(prog.segments[k])
      PROVE  LET seg == prog.segments[k]
             IN  /\ a \in DOMAIN new
                 /\ new[a] = IF a < seg.va + seg.filesz THEN seg.offset + (a - seg.va) ELSE 0
  <2>1. PICK seg \in Segment : seg = prog.segments[k] /\ seg \in LoadedSegments
    BY <1>4, <1>5
  <2>2. a \in seg.va .. seg.va + seg.memsz - 1
    BY <2>1 DEF Promise!Bytes
  <2>3. /\ a \in Nat /\ UserBase <= a /\ a < UserTop /\ pte(mem, work.pgdir, a) # NULL
        /\ ByteOf(mem, work.pgdir, a) = FileByte(seg, a)
    BY <1>5, <2>1, <2>2, LoadedByte
  <2>4. a \in Addr
    BY <2>3, Constants DEF Addr
  <2>5. a \in DOMAIN new /\ new[a] = ByteOf(mem, work.pgdir, a)
    BY <1>2, <2>3, <2>4 DEF ImageOf, ByteOf
  <2> QED BY <2>1, <2>3, <2>5 DEF FileByte
<1>7. Promise!Loaded(new, prog)
  BY <1>6 DEF Promise!Loaded
<1>8. Promise!Valid(prog)
  BY <1>1, <1>4, <1>5 DEF OnlyInv, Loading, Promise!Valid
<1>9. Promise!NoMore(new, prog)
  BY <1>1, <1>2, <1>4, LoadedOnly
<1>10. Asked \in Promise!Execs /\ Asked.proc = s /\ Asked.prog = prog
  BY <1>1, <1>3, <1>4, AskedThere, AskedIs DEF Loading
<1>11. Asked' = NULL
  BY <1>1, AskedNext DEF Loading, Copying
<1>12. Seen'[s] = new
  BY <1>3 DEF Seen
<1>13. Promise!Exec
  BY <1>3, <1>7, <1>8, <1>9, <1>10, <1>11, <1>12 DEF Promise!Exec, Seen
<1> QED BY <1>13 DEF Promise!Next

\* the child has what the parent has,
LEMMA ForkedStep ==
    ASSUME AreaInv, PageInv, MapInv, ImageInv, ForkDone
    PROVE  [Promise!Next]_<<Seen, Asked>>
<1>1. pc = "dup" /\ pc' = "user" /\ call.i = 0 /\ mem' = mem /\ mm' = [mm EXCEPT ![call.proc] = work]
  BY DEF ForkDone
<1>2. PICK new : new = ImageOf(mem, work.pgdir)
  OBVIOUS
<1>3. PICK t \in Space : t = call.proc /\ Seen' = [Seen EXCEPT ![t] = new]
  BY <1>1, <1>2, GivenStep
<1>4. PICK s \in Space : s = call.src /\ mm[s] # NULL /\ Source = mm[s]
  BY <1>1, Before DEF Calling, Copying, Source
<1>5. PICK from : from = mm[s].pgdir
  OBVIOUS
<1>6. IsSpace(mm[s]) /\ Within(mem, mm[s])
  BY <1>4, Before DEF MapInv, SpacesFit, Fits
<1>7. CopyingImage
  BY <1>1 DEF ImageInv, Copying
<1>8. ASSUME NEW a \in UPage, pte(mem, from, a) # NULL
      PROVE  pte(mem, work.pgdir, a) # NULL
  <2>1. PICK q : q = mm[s]
    OBVIOUS
  <2>2. PICK v \in Areas(q) : Holds(v, a)
    BY <1>5, <1>6, <1>8, <2>1 DEF Within
  <2>3. PICK n \in Nat : n = Len(q.mmap_list) /\ DOMAIN q.mmap_list = 1 .. n
    BY <1>6, <2>1, SpaceFacts
  <2>4. IsSpace(q)
    BY <1>6, <2>1
  <2>5. PICK k \in 1 .. n : v = q.mmap_list[k]
    <3>1. Range(q.mmap_list) = {q.mmap_list[k] : k \in 1 .. Len(q.mmap_list)}
      BY <2>4, SpaceFacts
    <3> QED BY <2>2, <2>3, <3>1 DEF Areas
  <2>6. k > call.i
    BY <1>1
  <2>7. CopiedTo(mem, from, work.pgdir, v.vm_start, v.vm_end)
    BY <1>4, <1>5, <1>7, <2>1, <2>3, <2>5, <2>6 DEF CopyingImage
  <2> QED BY <1>8, <2>2, <2>7 DEF CopiedTo, Holds
<1>9. SameImage(mem, from, mem, work.pgdir)
  <2> SUFFICES ASSUME NEW a \in UPage PROVE SameAt(mem, from, mem, work.pgdir, a)
    BY DEF SameImage
  <2>1. CASE pte(mem, work.pgdir, a) # NULL
    BY <1>4, <1>5, <1>7, <2>1 DEF CopyingImage, Agreed
  <2>2. CASE pte(mem, work.pgdir, a) = NULL
    BY <1>8, <2>2 DEF SameAt
  <2> QED BY <2>1, <2>2
<1>10. new = ImageOf(mem, from)
  BY <1>2, <1>9, ImagesAgree
<1>11. Seen[s] = ImageOf(mem, from)
  BY <1>4, <1>5, ImageIs DEF Seen
<1>12. Asked \in Promise!Forks /\ Asked.proc = t /\ Asked.src = s
  BY <1>1, <1>3, <1>4, AskedThere, AskedIs DEF Copying
<1>13. Asked' = NULL
  BY <1>1, AskedNext DEF Loading, Copying
<1>14. Promise!Fork
  BY <1>3, <1>10, <1>11, <1>12, <1>13 DEF Promise!Fork, Seen
<1> QED BY <1>14 DEF Promise!Next

\* A store writes one byte,
LEMMA StoredByte ==
    ASSUME NEW m, Good(m), NEW r \in Dirs(m), NEW a \in Addr, pte(m, r, a) # NULL,
           NEW n, n = [m EXCEPT !.data[pte(m, r, a).page][a % PGSIZE] = Written]
    PROVE  /\ ImageOf(n, r) = [ImageOf(m, r) EXCEPT ![a] = Written]
           /\ OtherImages(m, n, r)
<1>1. a \in Nat /\ a < UserTop
  BY Constants DEF Addr
<1>2. PICK la \in UPage : /\ a = la + (a % PGSIZE) /\ a % PGSIZE \in 0 .. PGSIZE - 1
                          /\ \A k, s : pte(k, s, a) = pte(k, s, la)
  BY <1>1, BytePage
<1>3. PICK p \in Page : p = pte(m, r, a).page
  BY <1>2, MappedUse
<1>4. PICK i \in 0 .. PGSIZE - 1 : i = a % PGSIZE
  BY <1>2
<1>5. m \in Memory /\ m.data \in [Page -> [0 .. PGSIZE - 1 -> Int]]
  BY DEF Good, Memory
<1>6. PICK X : X = [m.data[p] EXCEPT ![i] = Written]
  OBVIOUS
<1>7. n.use = m.use /\ n.entry = m.entry /\ n.data = [m.data EXCEPT ![p] = X]
  <2>1. m = [use |-> m.use, ref |-> m.ref, entry |-> m.entry, data |-> m.data]
    BY <1>5, MemoryRecord
  <2>2. n = [m EXCEPT !.data = [m.data EXCEPT ![p] = X]]
    BY <1>3, <1>4, <1>6
  <2>3. n = [use |-> m.use, ref |-> m.ref, entry |-> m.entry, data |-> [m.data EXCEPT ![p] = X]]
    BY <2>1, <2>2
  <2> QED BY <2>3
<1>8. \A s, b : pte(n, s, b) = pte(m, s, b)
  <2>1. PICK k : k = n
    OBVIOUS
  <2>2. k.entry = m.entry
    BY <1>7, <2>1
  <2>3. \A s, b : pte(k, s, b) = pte(m, s, b)
    BY <2>2, SamePte
  <2> QED BY <2>1, <2>3
<1>9. OtherImages(m, n, r)
  <2>1. SameBytesBut(m, n, pte(m, r, la).page)
    BY <1>2, <1>3, <1>5, <1>7 DEF SameBytesBut
  <2> QED BY <1>2, <1>7, <2>1, WrittenImage
<1>10. PICK S : S = {b \in Addr : pte(m, r, b) # NULL} /\ S = {b \in Addr : pte(n, r, b) # NULL}
  BY <1>8
<1>11. PICK f : f = ImageOf(m, r)
  OBVIOUS
<1>12. f = [b \in S |-> m.data[pte(m, r, b).page][b % PGSIZE]]
  BY <1>10, <1>11, Zenon DEF ImageOf
<1>13. ImageOf(n, r) = [b \in S |-> n.data[pte(m, r, b).page][b % PGSIZE]]
  BY <1>8, <1>10 DEF ImageOf
<1>14. ASSUME NEW b \in S
       PROVE  n.data[pte(m, r, b).page][b % PGSIZE]
                 = IF b = a THEN Written ELSE m.data[pte(m, r, b).page][b % PGSIZE]
  <2>1. b \in Nat /\ b < UserTop /\ pte(m, r, b) # NULL
    BY <1>10, Constants DEF Addr
  <2>2. PICK lb \in UPage : /\ b = lb + (b % PGSIZE) /\ b % PGSIZE \in 0 .. PGSIZE - 1
                            /\ \A k, s : pte(k, s, b) = pte(k, s, lb)
    BY <2>1, BytePage
  <2>3. PICK q \in Page : q = pte(m, r, b).page
    BY <2>1, <2>2, MappedUse
  <2>4. PICK j \in 0 .. PGSIZE - 1 : j = b % PGSIZE
    BY <2>2
  <2>5. CASE b = a
    <3>1. q = p /\ j = i
      BY <1>3, <1>4, <2>3, <2>4, <2>5
    <3>2. n.data[p] = X /\ X[i] = Written
      BY <1>5, <1>6, <1>7
    <3> QED BY <2>3, <2>4, <2>5, <3>1, <3>2
  <2>6. CASE b # a
    <3>1. q = p => j # i
      <4> SUFFICES ASSUME q = p, j = i PROVE FALSE
        OBVIOUS
      <4>1. la = lb
        BY <1>2, <1>3, <2>1, <2>2, <2>3, MappedOnce
      <4>2. la + i = a /\ la + i = b
        BY <1>2, <1>4, <2>2, <2>4, <4>1
      <4> QED BY <2>6, <4>2
    <3>2. n.data[q][j] = m.data[q][j]
      BY <1>5, <1>6, <1>7, <3>1
    <3> QED BY <2>3, <2>4, <2>6, <3>2
  <2> QED BY <2>5, <2>6
<1>15. ImageOf(n, r) = [b \in S |-> IF b = a THEN Written
                                    ELSE m.data[pte(m, r, b).page][b % PGSIZE]]
  BY <1>13, <1>14
<1>16. [f EXCEPT ![a] = Written] = [b \in S |-> IF b = a THEN Written
                                    ELSE m.data[pte(m, r, b).page][b % PGSIZE]]
  BY <1>12
<1> QED BY <1>9, <1>11, <1>15, <1>16

\* and only in the memory of the process itself.
LEMMA StoreStep ==
    ASSUME AreaInv, PageInv, NEW s \in Space, NEW a \in StoreAddr, Store(s, a)
    PROVE  [Promise!Next]_<<Seen, Asked>>
<1>1. /\ pc = "user" /\ pc' = pc /\ mm' = mm /\ mm[s] # NULL /\ pte(mem, mm[s].pgdir, a) # NULL
      /\ mem' = [mem EXCEPT !.data[pte(mem, mm[s].pgdir, a).page][a % PGSIZE] = Written]
  BY DEF Store
<1>2. PICK r : r = mm[s].pgdir
  OBVIOUS
<1>3. /\ r \in Dirs(mem) /\ Good(mem)
      /\ \A x \in Space : mm[x] # NULL => mm[x].pgdir \in Dirs(mem)
  BY <1>1, <1>2, Trees
<1>4. a \in Addr
  BY ProgramAssumption DEF Addr
<1>5. ImageOf(mem', r) = [ImageOf(mem, r) EXCEPT ![a] = Written] /\ OtherImages(mem, mem', r)
  BY <1>1, <1>2, <1>3, <1>4, StoredByte
<1>6. ASSUME NEW x \in Space, x # s, mm[x] # NULL PROVE mm[x].pgdir # r
  <2>1. Rooted(mem, mm, work)
    BY <1>1, Trees
  <2> QED BY <1>1, <1>2, <1>6, <2>1 DEF Rooted, Separate
<1>7. PICK new : new = Image(s)'
  OBVIOUS
<1>8. Seen' = [Seen EXCEPT ![s] = new]
  BY <1>1, <1>3, <1>5, <1>6, <1>7, SeenOne DEF OtherImages
<1>9. Seen[s] = ImageOf(mem, r) /\ Seen[s] # NULL
  BY <1>1, <1>2, <1>3, ImageIs, ImageThere DEF Seen
<1>10. new = [Seen[s] EXCEPT ![a] = Written]
  <2>1. Image(s)' = IF mm'[s] = NULL THEN NULL ELSE ImageOf(mem', mm'[s].pgdir)
    BY Zenon DEF Image, ImageOf
  <2> QED BY <1>1, <1>2, <1>5, <1>7, <1>9, <2>1
<1>11. a \in DOMAIN Seen[s]
  BY <1>1, <1>2, <1>4, <1>9 DEF ImageOf
<1>12. Asked = NULL /\ Asked' = NULL
  BY <1>1, AskedIs, AskedNext DEF Loading, Copying
<1>13. Seen' = [Seen EXCEPT ![s] = [Seen[s] EXCEPT ![a] = Written]]
  BY <1>8, <1>10
<1>14. Promise!Store
  BY <1>9, <1>11, <1>12, <1>13 DEF Promise!Store, Seen
<1> QED BY <1>14 DEF Promise!Next

-----------------------------------------------------------------------------
\* No process has memory at boot.
LEMMA MemoryBegins ==
    ASSUME Init
    PROVE  Promise!Init
<1>1. \A s \in Space : mm[s] = NULL
  BY DEF Init
<1>2. \A s \in Space : Image(s) = NULL
  BY <1>1, ImageIs
<1>3. Asked = NULL
  BY AskedIs DEF Init, Loading, Copying
<1> QED BY <1>2, <1>3 DEF Promise!Init

\* Loading begins with Load, and copying with Fork.
LEMMA Begins ==
    ASSUME [Next]_vars, ~Load, ~(\E s \in Space, t \in Space : Fork(s, t))
    PROVE  pc \in Loading \cup Copying \/ pc' \notin Loading \cup Copying
<1> SUFFICES ASSUME pc \notin Loading \cup Copying
             PROVE  pc' \notin Loading \cup Copying
  OBVIOUS
<1>1. CASE Boot
  BY <1>1 DEF Boot, BootFirst, BootSecond, BootShare, BootRemove, BootFree, At, NextCheck,
              Loading, Copying
<1>2. CASE Run
  <2>1. Unmap \/ ExitRange \/ MemCheckRound \/ MemCheckReturn
    BY <1>2 DEF Run, LoadSegment, LoadBadMagic, LoadFile, LoadEdge, LoadBss, LoadStack,
           LoadStackPage, LoadDone, DupArea, CopyRange, ForkDone, Loading, Copying
  <2> QED BY <2>1 DEF Unmap, ExitRange, MemCheckRound, MemCheckReturn, Loading, Copying
<1>3. CASE Begin
  BY <1>3 DEF Begin, UserMain, Exit, Exec, Store, MemCheck, Loading, Copying
<1>4. CASE Stopped \/ UNCHANGED vars
  BY <1>4 DEF Stopped, vars
<1> QED BY <1>1, <1>2, <1>3, <1>4 DEF Next

\* Every step of the system is one that UserMemory allows, or changes nothing
\* that a process sees.
LEMMA MemoryStep ==
    ASSUME AreaInv, PageInv, MapInv, ImageInv, OnlyInv, [Next]_vars
    PROVE  [Promise!Next]_<<Seen, Asked>>
<1>1. CASE LoadDone \/ ForkDone
  BY <1>1, LoadedStep, ForkedStep
<1>2. CASE \E s \in Space : Exit(s) \/ Exec(s) \/ \E a \in StoreAddr : Store(s, a)
  BY <1>2, DropStep, StoreStep
<1>3. CASE Load \/ \E s \in Space, t \in Space : Fork(s, t)
  BY <1>3, LoadAsks, ForkAsks
<1>4. CASE /\ ~(LoadDone \/ ForkDone \/ Load) /\ ~(\E s \in Space, t \in Space : Fork(s, t))
           /\ ~(\E s \in Space : Exit(s) \/ Exec(s) \/ \E a \in StoreAddr : Store(s, a))
  <2>1. Seen' = Seen
    BY <1>4, ImageStep
  <2>2. pc \in Loading \cup Copying \/ pc' \notin Loading \cup Copying
    BY <1>4, Begins
  <2> QED BY <2>1, <2>2, QuietStep
<1> QED BY <1>1, <1>2, <1>3, <1>4

\* exec, fork, exit and stores do to the memory of the processes what
\* UserMemory promises: load_icode() loads the program it was asked for as its
\* file says and nothing else, copy_mm() copies all that the process that forks
\* sees, a store is seen by the process alone, and no failure or teardown of a
\* call is seen by any other process.
THEOREM MemoryIsCorrect == IdealSpec => MemoryCorrect
<1>1. AreaInv /\ PageInv /\ MapInv /\ ImageInv /\ OnlyInv /\ [Next]_vars
         => [Promise!Next]_<<[s \in Space |-> Image(s)], Asked>>
  BY MemoryStep DEF Seen
<1>2. Init => Promise!Init
  BY MemoryBegins
<1> QED BY <1>1, <1>2, AreaInvariant, PageInvariant, MapInvariant, ImageInvariant,
           OnlyInvariant, PTL
        DEF IdealSpec, MemoryCorrect, Promise!Spec, Promise!vars

\* default_pmm.c keeps the promise of FirstFit while the last page of memory is
\* free, and so all this holds of the kernel as long as memory has not run out.
THEOREM HoldsWithSpare ==
    SpareSpec => [](PagesExact /\ LossBounded /\ AreasExact) /\ MemoryCorrect
<1>1. SpareNext => Next
  BY DEF SpareNext
<1>2. SpareSpec => IdealSpec
  BY <1>1, PTL DEF SpareSpec, IdealSpec
<1> QED BY <1>2, PagesAreExact, LossIsBounded, AreasAreExact, MemoryIsCorrect, PTL
=============================================================================
