----------------------------- MODULE PmmProofs -----------------------------
(***************************************************************************)
(* The page allocator implements first fit, for every number of pages, on  *)
(* a machine with memory to spare (SpareSpec): lemmas on sorted lists, on  *)
(* blocks that tile the free pages, and one lemma for each action.         *)
(***************************************************************************)
EXTENDS Pmm, FiniteSetTheorems, TLAPS

Entry == 0 .. NPage         \* the pages and the head

LinkType(l) == l.next \in [Entry -> Entry] /\ l.prev \in [Entry -> Entry]

\* The links of l connect the pages of S and the head in both directions.
IsList(l, S) ==
    \A p \in S \cup {head} :
        /\ l.next[p] \in S \cup {head} /\ l.prev[l.next[p]] = p
        /\ l.prev[p] \in S \cup {head} /\ l.next[l.prev[p]] = p

\* They do so in order of address.
IsSorted(l, S) ==
    /\ \A p \in S : p < l.next[p] /\ l.next[head] <= p
    /\ \A p, r \in S : p < r => l.next[p] <= r

\* list_del() of a page keeps a sorted list.
LEMMA ListDel ==
    ASSUME NEW l, LinkType(l), NEW S \in SUBSET Page, IsList(l, S), IsSorted(l, S),
           NEW x \in S
    PROVE  /\ LinkType(list_del(l, x))
           /\ IsList(list_del(l, x), S \ {x}) /\ IsSorted(list_del(l, x), S \ {x})
<1> DEFINE p == l.prev[x]
           q == l.next[x]
           m == list_del(l, x)
<1>1. /\ NPage \in Nat /\ S \subseteq Entry /\ head \in Entry /\ head \notin S
      /\ \A r \in S : r \in Int /\ r < head
  BY PageAssumption DEF Page, Entry, head
<1>2. /\ p \in S \cup {head} /\ q \in S \cup {head} /\ p = l.prev[x] /\ q = l.next[x]
      /\ l.next[p] = x /\ l.prev[q] = x
  BY DEF IsList
<1>3. p # x /\ q # x
  BY <1>1, <1>2 DEF IsSorted
<1>4. /\ m.next = [l.next EXCEPT ![p] = q]
      /\ m.prev = [l.prev EXCEPT ![q] = p]
  BY DEF list_del
<1> HIDE DEF p, q, m
<1>5. LinkType(m)
  BY <1>1, <1>2, <1>4 DEF LinkType
<1>6. \A r \in Entry : /\ m.next[r] = IF r = p THEN q ELSE l.next[r]
                       /\ m.prev[r] = IF r = q THEN p ELSE l.prev[r]
  BY <1>1, <1>2, <1>4 DEF LinkType
<1>7. IsList(m, S \ {x})
  <2> SUFFICES ASSUME NEW r \in (S \ {x}) \cup {head}
               PROVE  /\ m.next[r] \in (S \ {x}) \cup {head} /\ m.prev[m.next[r]] = r
                      /\ m.prev[r] \in (S \ {x}) \cup {head} /\ m.next[m.prev[r]] = r
    BY DEF IsList
  <2>1. r \in Entry /\ r # x /\ r \in S \cup {head} /\ p \in Entry /\ q \in Entry
    BY <1>1, <1>2
  <2>2. /\ l.next[r] \in S \cup {head} /\ l.prev[l.next[r]] = r
        /\ l.prev[r] \in S \cup {head} /\ l.next[l.prev[r]] = r
    BY <2>1 DEF IsList
  <2>3. l.next[r] \in Entry /\ l.prev[r] \in Entry
    BY <2>2, <1>1
  <2>4. m.next[r] \in (S \ {x}) \cup {head} /\ m.prev[m.next[r]] = r
    BY <2>1, <2>2, <2>3, <1>1, <1>2, <1>3, <1>6
  <2>5. m.prev[r] \in (S \ {x}) \cup {head} /\ m.next[m.prev[r]] = r
    BY <2>1, <2>2, <2>3, <1>1, <1>2, <1>3, <1>6
  <2> QED BY <2>4, <2>5
<1>8. x < q /\ (p # head => p < x)
  BY <1>1, <1>2 DEF IsSorted
<1>9. IsSorted(m, S \ {x})
  <2>0. \A r \in S : r \in Entry /\ r # head
    BY <1>1
  <2>1. ASSUME NEW r \in S \ {x} PROVE r < m.next[r]
    <3>1. CASE r = p
      BY <3>1, <2>0, <1>1, <1>2, <1>6, <1>8
    <3>2. CASE r # p
      BY <3>2, <2>0, <1>6 DEF IsSorted
    <3> QED BY <3>1, <3>2
  <2>2. ASSUME NEW r \in S \ {x} PROVE m.next[head] <= r
    <3>1. CASE p = head
      <4>1. x <= r
        BY <3>1, <1>2 DEF IsSorted
      <4>2. x < r
        BY <4>1, <1>1
      <4>3. q <= r
        BY <4>2, <1>2 DEF IsSorted
      <4> QED BY <3>1, <4>3, <1>1, <1>6
    <3>2. CASE p # head
      BY <3>2, <1>1, <1>6 DEF IsSorted
    <3> QED BY <3>1, <3>2
  <2>3. ASSUME NEW r \in S \ {x}, NEW s \in S \ {x}, r < s PROVE m.next[r] <= s
    <3>1. CASE r = p
      <4>1. x <= s
        BY <3>1, <2>3, <1>2 DEF IsSorted
      <4>2. x < s
        BY <4>1, <1>1
      <4>3. q <= s
        BY <4>2, <1>2 DEF IsSorted
      <4> QED BY <3>1, <4>3, <2>0, <1>6
    <3>2. CASE r # p
      BY <3>2, <2>3, <2>0, <1>6 DEF IsSorted
    <3> QED BY <3>1, <3>2
  <2> QED BY <2>1, <2>2, <2>3 DEF IsSorted
<1> QED BY <1>5, <1>7, <1>9 DEF m

\* A page e that is put between two neighbours keeps a sorted list if it lies
\* between them.
LEMMA ListAdd ==
    ASSUME NEW l, LinkType(l), NEW S \in SUBSET Page, IsList(l, S), IsSorted(l, S),
           NEW p \in S \cup {head}, NEW e \in Page \ S,
           p = head \/ p < e, e < l.next[p]
    PROVE  LET m == link_between(l, e, p, l.next[p])
           IN  LinkType(m) /\ IsList(m, S \cup {e}) /\ IsSorted(m, S \cup {e})
<1> DEFINE q == l.next[p]
           m == link_between(l, e, p, q)
<1>1. /\ NPage \in Nat /\ S \subseteq Entry /\ head \in Entry /\ head \notin S
      /\ e \in Entry /\ e # head /\ e \in Int
      /\ \A r \in S : r \in Int /\ r < head
  BY PageAssumption DEF Page, Entry, head
<1>2. q \in S \cup {head} /\ l.prev[q] = p
  BY DEF IsList
<1>4. /\ m.next = [l.next EXCEPT ![p] = e, ![e] = q]
      /\ m.prev = [l.prev EXCEPT ![q] = e, ![e] = p]
  BY DEF link_between
<1> HIDE DEF q, m
<1>3. e < q
  BY DEF q
<1>5. LinkType(m)
  BY <1>1, <1>2, <1>4 DEF LinkType
<1>6. \A r \in Entry : /\ m.next[r] = IF r = e THEN q ELSE IF r = p THEN e ELSE l.next[r]
                       /\ m.prev[r] = IF r = e THEN p ELSE IF r = q THEN e ELSE l.prev[r]
  BY <1>1, <1>2, <1>4 DEF LinkType
<1>q. q = l.next[p]
  BY DEF q
<1>0. /\ \A r \in S : r \in Entry /\ r # head /\ r # e
      /\ p \in Entry /\ q \in Entry /\ p # e /\ q # e /\ q \in Int /\ head \in Int
  BY <1>1, <1>2
<1>7. IsList(m, S \cup {e})
  <2> SUFFICES ASSUME NEW r \in S \cup {head} \cup {e}
               PROVE  /\ m.next[r] \in S \cup {e} \cup {head} /\ m.prev[m.next[r]] = r
                      /\ m.prev[r] \in S \cup {e} \cup {head} /\ m.next[m.prev[r]] = r
    BY DEF IsList
  <2>1. CASE r = e
    BY <2>1, <1>0, <1>1, <1>2, <1>6, <1>q
  <2>2. CASE r \in S \cup {head}
    <3>1. r \in Entry /\ r # e
      BY <2>2, <1>0, <1>1
    <3>2. /\ l.next[r] \in S \cup {head} /\ l.prev[l.next[r]] = r
          /\ l.prev[r] \in S \cup {head} /\ l.next[l.prev[r]] = r
      BY <2>2 DEF IsList
    <3>3. l.next[r] \in Entry /\ l.next[r] # e /\ l.prev[r] \in Entry /\ l.prev[r] # e
      BY <3>2, <1>0, <1>1
    <3>4. m.next[r] \in S \cup {e} \cup {head} /\ m.prev[m.next[r]] = r
      <4>1. CASE r = p
        BY <4>1, <3>1, <1>1, <1>6
      <4>2. CASE r # p
        BY <4>2, <3>1, <3>2, <3>3, <1>2, <1>6
      <4> QED BY <4>1, <4>2
    <3>5. CASE r = q
      <4>1. m.prev[r] = e /\ m.next[e] = r
        BY <3>5, <3>1, <1>0, <1>1, <1>6
      <4> QED BY <4>1, <3>4
    <3>6. CASE r # q
      <4>1. m.prev[r] = l.prev[r] /\ l.prev[r] # p
        BY <3>6, <3>1, <3>2, <1>0, <1>6, <1>q
      <4>2. m.next[l.prev[r]] = r
        BY <4>1, <3>2, <3>3, <1>6
      <4> QED BY <4>1, <4>2, <3>2, <3>4
    <3> QED BY <3>4, <3>5, <3>6
  <2> QED BY <2>1, <2>2
<1>8. \A r \in S : p # head => (p < r => q <= r)
  BY <1>0, <1>q DEF IsSorted
<1>9. \A r \in S : p = head => q <= r
  BY <1>q DEF IsSorted
<1>10. ASSUME NEW r \in S, e < r PROVE q <= r
  <2>1. CASE p = head
    BY <2>1, <1>9
  <2>2. CASE p # head
    <3>1. p < r
      BY <2>2, <1>10, <1>1
    <3> QED BY <3>1, <2>2, <1>8
  <2> QED BY <2>1, <2>2
<1>11. ASSUME NEW r \in S, r < e, r # p PROVE p # head /\ r < p
  <2>1. r < q /\ r \in Int /\ p \in Int
    BY <1>11, <1>0, <1>1, <1>3
  <2>2. ~(q <= r)
    BY <2>1, <1>0
  <2>3. p # head /\ ~(p < r)
    BY <2>2, <1>8, <1>9
  <2> QED BY <2>1, <2>3, <1>11
<1>12. ASSUME NEW r \in S \cup {e} PROVE r < m.next[r]
  <2>1. CASE r = e
    BY <2>1, <1>1, <1>3, <1>6
  <2>2. CASE r # e /\ r = p
    BY <2>2, <1>0, <1>1, <1>6, <1>12
  <2>3. CASE r # e /\ r # p
    BY <2>3, <1>0, <1>6, <1>12 DEF IsSorted
  <2> QED BY <2>1, <2>2, <2>3
<1>13. ASSUME NEW r \in S \cup {e} PROVE m.next[head] <= r
  <2>1. CASE p = head
    <3>1. m.next[head] = e
      BY <2>1, <1>1, <1>6
    <3>2. CASE r = e
      BY <3>1, <3>2, <1>1
    <3>3. CASE r # e
      <4>1. q <= r /\ r \in Int
        BY <2>1, <3>3, <1>9, <1>13, <1>1
      <4> QED BY <4>1, <3>1, <1>0, <1>1, <1>3
    <3> QED BY <3>2, <3>3
  <2>2. CASE p # head
    <3>1. m.next[head] = l.next[head] /\ l.next[head] \in Int
      BY <2>2, <1>1, <1>6 DEF LinkType, Entry
    <3>2. l.next[head] <= p /\ p < e /\ p \in Int
      BY <2>2, <1>1 DEF IsSorted
    <3>3. CASE r = e
      BY <3>1, <3>2, <3>3, <1>1
    <3>4. CASE r # e
      BY <3>1, <3>4, <1>13 DEF IsSorted
    <3> QED BY <3>3, <3>4
  <2> QED BY <2>1, <2>2
<1>14. ASSUME NEW r \in S \cup {e}, NEW s \in S \cup {e}, r < s PROVE m.next[r] <= s
  <2>0. r \in Int /\ s \in Int /\ r \in Entry
    BY <1>1, <1>14
  <2>1. CASE r = e
    <3>1. s \in S
      BY <2>0, <2>1, <1>14
    <3> QED BY <3>1, <2>1, <1>1, <1>6, <1>10, <1>14
  <2>2. CASE r # e /\ r = p
    <3>1. m.next[r] = e
      BY <2>2, <2>0, <1>6
    <3>2. CASE s = e
      BY <3>1, <3>2, <1>1
    <3>3. CASE s # e
      <4>1. q <= s
        BY <3>3, <2>2, <1>0, <1>1, <1>8, <1>14
      <4> QED BY <4>1, <3>1, <2>0, <1>0, <1>1, <1>3
    <3> QED BY <3>2, <3>3
  <2>3. CASE r # e /\ r # p
    <3>1. m.next[r] = l.next[r] /\ r \in S /\ l.next[r] \in Int
      BY <2>3, <2>0, <1>1, <1>6, <1>14 DEF LinkType, Entry
    <3>2. CASE s = e
      <4>1. p # head /\ r < p /\ p \in S
        BY <3>1, <3>2, <2>3, <1>11, <1>14
      <4>2. l.next[r] <= p /\ p < e /\ p \in Int
        BY <4>1, <3>1, <1>1 DEF IsSorted
      <4> QED BY <4>2, <3>1, <3>2, <1>1
    <3>3. CASE s # e
      BY <3>1, <3>3, <1>14 DEF IsSorted
    <3> QED BY <3>2, <3>3
  <2> QED BY <2>1, <2>2, <2>3
<1>15. IsSorted(m, S \cup {e})
  BY <1>12, <1>13, <1>14 DEF IsSorted
<1> QED BY <1>5, <1>7, <1>15 DEF m, q

-----------------------------------------------------------------------------
\* The blocks B with the given sizes are disjoint and together are the pages F.
Tiled(F, B, size) ==
    /\ \A p \in B : size[p] > 0 /\ Run(p, size[p]) \subseteq F
    /\ \A p, q \in B : p < q => p + size[p] <= q
    /\ \A f \in F : \E p \in B : f \in Run(p, size[p])

Tiling(F, B, size) ==
    /\ F \subseteq Page /\ B \subseteq Page /\ size \in [Page -> 0 .. NPage]
    /\ Tiled(F, B, size)

\* A block starts with a free page and ends within the memory.
LEMMA TileBounds ==
    ASSUME NEW F, NEW B, NEW size, Tiling(F, B, size), NEW p \in B
    PROVE  /\ p \in F /\ p \in Page /\ size[p] \in 1 .. NPage /\ p + size[p] <= NPage
           /\ p + size[p] - 1 \in F
<1>1. /\ NPage \in Nat /\ p \in Int /\ size[p] \in Int /\ size[p] > 0 /\ size[p] <= NPage
      /\ Run(p, size[p]) \subseteq F /\ F \subseteq Page /\ p \in Page
  BY PageAssumption DEF Tiling, Tiled, Page
<1>2. p \in Run(p, size[p]) /\ p + size[p] - 1 \in Run(p, size[p])
  BY <1>1 DEF Run
<1>3. p + size[p] - 1 \in Page
  BY <1>1, <1>2
<1> QED BY <1>1, <1>2, <1>3 DEF Page

\* No block follows a block at once: the page after it is not free.
LEMMA TileEnd ==
    ASSUME NEW F, NEW B, NEW size, Tiling(F, B, size), NEW p \in B,
           \A q \in B : p + size[p] # q
    PROVE  p + size[p] \notin F
<1> SUFFICES ASSUME p + size[p] \in F PROVE FALSE
  OBVIOUS
<1>1. PICK q \in B : p + size[p] \in Run(q, size[q])
  BY DEF Tiling, Tiled
<1>2. /\ p \in Int /\ q \in Int /\ size[p] \in Int /\ size[q] \in Int /\ size[p] > 0
  BY TileBounds, PageAssumption DEF Page
<1>3. q <= p + size[p] /\ p + size[p] < q + size[q]
  BY <1>1, <1>2 DEF Run
<1>4. (p < q => p + size[p] <= q) /\ (q < p => q + size[q] <= p)
  BY DEF Tiling, Tiled
<1> QED BY <1>2, <1>3, <1>4

\* A run of k free pages lies in a block of that size, if no block follows
\* another one at once.
LEMMA TileFit ==
    ASSUME NEW F, NEW B, NEW size, Tiling(F, B, size),
           \A p, q \in B : p + size[p] # q,
           NEW c \in Int, NEW k \in Nat \ {0}, Run(c, k) \subseteq F
    PROVE  \E p \in B : p <= c /\ size[p] >= k
<1>1. c \in F
  BY DEF Run
<1>2. PICK p \in B : c \in Run(p, size[p])
  BY <1>1 DEF Tiling, Tiled
<1>3. p \in Int /\ size[p] \in Int /\ p + size[p] \notin Run(c, k)
  BY TileBounds, TileEnd, PageAssumption DEF Page
<1>4. p <= c /\ c < p + size[p]
  BY <1>2, <1>3 DEF Run
<1>5. c + k <= p + size[p]
  BY <1>3, <1>4 DEF Run
<1> QED BY <1>3, <1>4, <1>5

\* The first k pages of a block are taken, the rest stays a block.
LEMMA TileTake ==
    ASSUME NEW F, NEW B, NEW size, Tiling(F, B, size), NEW b \in B, NEW k \in 1 .. size[b]
    PROVE  IF size[b] > k
           THEN /\ b + k \in Page \ B
                /\ Tiling(F \ Run(b, k), (B \cup {b + k}) \ {b},
                          [size EXCEPT ![b + k] = size[b] - k])
           ELSE Tiling(F \ Run(b, k), B \ {b}, size)
<1>0. /\ NPage \in Nat /\ b \in Page /\ b \in Int /\ k \in Int /\ size[b] \in Int
      /\ b + size[b] <= NPage /\ 0 <= b /\ 1 <= k /\ k <= size[b] /\ size[b] <= NPage
  BY TileBounds, PageAssumption DEF Page
<1>1. /\ F \subseteq Page /\ B \subseteq Page /\ size \in [Page -> 0 .. NPage]
      /\ \A p \in B : /\ size[p] > 0 /\ Run(p, size[p]) \subseteq F
                     /\ p \in Int /\ size[p] \in Int
      /\ \A p, q \in B : p < q => p + size[p] <= q
      /\ \A f \in F : f \in Int /\ \E p \in B : f \in Run(p, size[p])
  BY TileBounds, <1>0 DEF Tiling, Tiled, Page
<1>2. \A p \in B \ {b} : Run(p, size[p]) \cap Run(b, size[b]) = {}
  BY <1>0, <1>1 DEF Run
<1>3. Run(b, k) \subseteq Run(b, size[b])
  BY <1>0 DEF Run
<1>4. CASE size[b] > k
  <2> DEFINE t == [size EXCEPT ![b + k] = size[b] - k]
             C == (B \cup {b + k}) \ {b}
  <2>1. b + k \in Page /\ b + k # b
    BY <1>0, <1>4 DEF Page
  <2>2. b + k \notin B
    BY <1>0, <1>1, <1>4
  <2>3. /\ t \in [Page -> 0 .. NPage] /\ t[b + k] = size[b] - k
        /\ \A p \in B : t[p] = size[p]
    BY <2>1, <2>2, <1>0, <1>1, <1>4
  <2> HIDE DEF t
  <2>4. \A p \in C : t[p] > 0 /\ Run(p, t[p]) \subseteq F \ Run(b, k)
    <3>1. t[b + k] > 0 /\ Run(b + k, t[b + k]) \subseteq F \ Run(b, k)
      <4>1. Run(b + k, t[b + k]) \subseteq Run(b, size[b]) \ Run(b, k)
        BY <2>3, <1>0 DEF Run
      <4> QED BY <4>1, <2>3, <1>0, <1>1, <1>4
    <3>2. \A p \in B \ {b} : t[p] > 0 /\ Run(p, t[p]) \subseteq F \ Run(b, k)
      BY <2>3, <1>1, <1>2, <1>3
    <3> QED BY <3>1, <3>2
  <2>5. \A p, q \in C : p < q => p + t[p] <= q
    BY <2>3, <1>0, <1>1
  <2>6. ASSUME NEW f \in F \ Run(b, k) PROVE \E p \in C : f \in Run(p, t[p])
    <3>1. PICK p \in B : f \in Run(p, size[p])
      BY <1>1
    <3>2. CASE p = b
      <4>1. f \in Run(b + k, t[b + k])
        BY <3>1, <3>2, <2>3, <1>0, <1>1 DEF Run
      <4> QED BY <4>1, <2>1
    <3>3. CASE p # b
      BY <3>1, <3>3, <2>3
    <3> QED BY <3>2, <3>3
  <2>7. Tiled(F \ Run(b, k), C, t)
    BY <2>4, <2>5, <2>6 DEF Tiled
  <2>8. Tiling(F \ Run(b, k), C, t)
    BY <2>1, <2>3, <2>7, <1>1 DEF Tiling
  <2> QED BY <2>1, <2>2, <2>8, <1>4 DEF t
<1>5. CASE ~(size[b] > k)
  <2>1. k = size[b]
    BY <1>0, <1>5
  <2>2. Tiled(F \ Run(b, k), B \ {b}, size)
    BY <2>1, <1>1, <1>2 DEF Tiled
  <2> QED BY <2>2, <1>1, <1>5 DEF Tiling
<1> QED BY <1>4, <1>5

\* A run of pages that are not free becomes a block.
LEMMA TileFree ==
    ASSUME NEW F, NEW B, NEW size, Tiling(F, B, size), NEW b \in Page, NEW k \in 1 .. NPage,
           Run(b, k) \subseteq Page \ F
    PROVE  /\ b \notin B
           /\ Tiling(F \cup Run(b, k), B \cup {b}, [size EXCEPT ![b] = k])
<1> DEFINE t == [size EXCEPT ![b] = k]
<1>0. NPage \in Nat /\ b \in Int /\ k \in Int /\ 1 <= k /\ b \in Run(b, k)
  BY PageAssumption DEF Page, Run
<1>1. /\ F \subseteq Page /\ B \subseteq Page /\ size \in [Page -> 0 .. NPage]
      /\ \A p \in B : /\ size[p] > 0 /\ Run(p, size[p]) \subseteq F
                     /\ p \in Int /\ size[p] \in Int /\ p \in F
      /\ \A p, q \in B : p < q => p + size[p] <= q
      /\ \A f \in F : \E p \in B : f \in Run(p, size[p])
  <2>1. \A p \in B : p \in F
    BY TileBounds
  <2> QED BY <2>1, <1>0 DEF Tiling, Tiled, Page
<1>2. b \notin B
  BY <1>0, <1>1
<1>3. t \in [Page -> 0 .. NPage] /\ t[b] = k /\ \A p \in B : t[p] = size[p]
  BY <1>0, <1>1, <1>2
<1> HIDE DEF t
<1>4. ASSUME NEW p \in B PROVE (p < b => p + t[p] <= b) /\ (b < p => b + t[b] <= p)
  <2>1. b \notin Run(p, size[p]) /\ p \notin Run(b, k)
    BY <1>0, <1>1
  <2> QED BY <2>1, <1>0, <1>1, <1>3 DEF Run
<1>5. \A p, q \in B \cup {b} : p < q => p + t[p] <= q
  BY <1>0, <1>1, <1>3, <1>4
<1>6. \A p \in B \cup {b} : t[p] > 0 /\ Run(p, t[p]) \subseteq F \cup Run(b, k)
  BY <1>0, <1>1, <1>3
<1>7. \A f \in F \cup Run(b, k) : \E p \in B \cup {b} : f \in Run(p, t[p])
  BY <1>1, <1>3
<1>8. Tiled(F \cup Run(b, k), B \cup {b}, t)
  BY <1>5, <1>6, <1>7 DEF Tiled
<1>9. Tiling(F \cup Run(b, k), B \cup {b}, t)
  BY <1>1, <1>3, <1>8 DEF Tiling
<1> QED BY <1>2, <1>9 DEF t

\* A block and the block that follows it at once become one.
LEMMA TileMerge ==
    ASSUME NEW F, NEW B, NEW size, Tiling(F, B, size), NEW p \in B, NEW q \in B,
           p + size[p] = q
    PROVE  p # q /\ Tiling(F, B \ {q}, [size EXCEPT ![p] = size[p] + size[q]])
<1> DEFINE t == [size EXCEPT ![p] = size[p] + size[q]]
<1>0. /\ NPage \in Nat /\ p \in Page /\ p \in Int /\ q \in Int /\ size[p] \in Int /\ size[q] \in Int
      /\ 0 <= p /\ size[p] > 0 /\ size[q] > 0 /\ q + size[q] <= NPage
  BY TileBounds, PageAssumption DEF Page
<1>1. /\ F \subseteq Page /\ B \subseteq Page /\ size \in [Page -> 0 .. NPage]
      /\ \A r \in B : /\ size[r] > 0 /\ Run(r, size[r]) \subseteq F
                     /\ r \in Int /\ size[r] \in Int
      /\ \A r, s \in B : r < s => r + size[r] <= s
      /\ \A f \in F : f \in Int /\ \E r \in B : f \in Run(r, size[r])
  <2>1. F \subseteq Page /\ B \subseteq Page /\ size \in [Page -> 0 .. NPage]
    BY DEF Tiling
  <2>2. \A r \in Page : r \in Int /\ size[r] \in Int
    BY <2>1, <1>0 DEF Page
  <2>3. /\ \A r \in B : size[r] > 0 /\ Run(r, size[r]) \subseteq F
        /\ \A r, s \in B : r < s => r + size[r] <= s
        /\ \A f \in F : \E r \in B : f \in Run(r, size[r])
    BY DEF Tiling, Tiled
  <2> QED BY <2>1, <2>2, <2>3
<1>2. p # q
  BY <1>0
<1>3. /\ t \in [Page -> 0 .. NPage] /\ t[p] = size[p] + size[q]
      /\ \A r \in B \ {p} : t[r] = size[r]
  BY <1>0, <1>1
<1> HIDE DEF t
<1>4. Run(p, t[p]) = Run(p, size[p]) \cup Run(q, size[q])
  BY <1>0, <1>3 DEF Run
<1>5. \A r \in B \ {q} : t[r] > 0 /\ Run(r, t[r]) \subseteq F
  BY <1>0, <1>1, <1>3, <1>4
<1>6. \A r, s \in B \ {q} : r < s => r + t[r] <= s
  <2> SUFFICES ASSUME NEW r \in B \ {q}, NEW s \in B \ {q}, r < s PROVE r + t[r] <= s
    OBVIOUS
  <2>1. CASE r = p
    <3>1. q <= s
      BY <2>1, <1>1
    <3>2. q + size[q] <= s
      BY <3>1, <1>1
    <3> QED BY <3>2, <2>1, <1>0, <1>3
  <2>2. CASE r # p
    BY <2>2, <1>1, <1>3
  <2> QED BY <2>1, <2>2
<1>7. \A f \in F : \E r \in B \ {q} : f \in Run(r, t[r])
  <2> SUFFICES ASSUME NEW f \in F PROVE \E r \in B \ {q} : f \in Run(r, t[r])
    OBVIOUS
  <2>1. PICK r \in B : f \in Run(r, size[r])
    BY <1>1
  <2>2. CASE r \in {p, q}
    BY <2>1, <2>2, <1>2, <1>4
  <2>3. CASE r \notin {p, q}
    BY <2>1, <2>3, <1>3
  <2> QED BY <2>2, <2>3
<1>8. Tiled(F, B \ {q}, t)
  BY <1>5, <1>6, <1>7 DEF Tiled
<1>9. Tiling(F, B \ {q}, t)
  BY <1>1, <1>3, <1>8 DEF Tiling
<1> QED BY <1>2, <1>9 DEF t

-----------------------------------------------------------------------------
\* The inductive invariant.  While free_pages() looks for the place of its
\* block, base, that block is not on the list.
Linked == IF pc = "free" THEN PageProperty \ {base} ELSE PageProperty

\* A block that follows another one at once is about to be merged with it.
United ==
    \A p, q \in PageProperty : p + property[p] = q =>
        \/ pc \in {"free", "merge_prev"} /\ base \in {p, q}
        \/ pc = "merge_next" /\ base = p

\* All blocks below the place of the search are too small.
Searching ==
    pc = "alloc" =>
        /\ n \in 1 .. NPage /\ le \in PageProperty \cup {head} /\ Spare(n)
        /\ \A p \in PageProperty : p < le => property[p] < n

\* All blocks below the place of the walk are below base, and base is below
\* the block with the last page: the walk ends before the end of the list.
Freeing ==
    /\ pc \in {"free", "merge_prev", "merge_next"} => base \in PageProperty
    /\ pc = "free" => /\ le \in Linked /\ base + property[base] < NPage
                      /\ \A r \in Linked : r < le => r < base

\* No page is handed out twice, and the last page never.
Held == (\A p \in Page : held[p] <= 1) /\ held[NPage - 1] = 0

PmmInv ==
    /\ TypeOK
    /\ pc # "panic"
    /\ nr_free = Cardinality(FreePage)
    /\ Tiled(FreePage, PageProperty, property)
    /\ IsList(free_list, Linked) /\ IsSorted(free_list, Linked)
    /\ United
    /\ Searching
    /\ Freeing
    /\ Held

\* What the lemmas on lists and on blocks need to know of a state.
LEMMA Facts ==
    ASSUME PmmInv
    PROVE  /\ NPage \in Nat \ {0} /\ head = NPage /\ head \notin Page
           /\ \A p \in Page : p \in Int /\ 0 <= p /\ p < NPage
           /\ LinkType(free_list) /\ Linked \in SUBSET Page /\ PageProperty \in SUBSET Page
           /\ Tiling(FreePage, PageProperty, property)
           /\ \A p \in PageProperty : p \in FreePage /\ property[p] \in 1 .. NPage
           /\ \A p \in Page : held[p] \in Nat
           /\ NPage - 1 \in Page /\ NPage - 1 \in FreePage
<1>1. /\ NPage \in Nat \ {0} /\ head = NPage /\ head \notin Page
      /\ \A p \in Page : p \in Int /\ 0 <= p /\ p < NPage
      /\ NPage - 1 \in Page
  BY PageAssumption DEF Page, head
<1>2. LinkType(free_list) /\ Linked \in SUBSET Page /\ PageProperty \in SUBSET Page
  BY DEF PmmInv, TypeOK, LinkType, Entry, Linked
<1>3. Tiling(FreePage, PageProperty, property)
  BY DEF PmmInv, TypeOK, Tiling, FreePage
<1>4. NPage - 1 \in FreePage /\ \A p \in Page : held[p] \in Nat
  BY <1>1 DEF PmmInv, Held, FreePage, TypeOK
<1>5. \A p \in PageProperty : p \in FreePage /\ property[p] \in 1 .. NPage
  BY <1>3, TileBounds
<1> QED BY <1>1, <1>2, <1>3, <1>4, <1>5

\* There are finitely many pages.
LEMMA PageCount ==
    ASSUME NEW F \in SUBSET Page
    PROVE  /\ IsFiniteSet(F) /\ Cardinality(F) \in Nat /\ Cardinality(F) <= NPage
           /\ Cardinality(Page) = NPage
<1>1. NPage \in Nat
  BY PageAssumption
<1>2. IsFiniteSet(Page) /\ Cardinality(Page) = NPage
  BY <1>1, FS_Interval DEF Page
<1> QED BY <1>2, FS_Subset, FS_CardinalityType

\* A run of k pages has k of them.
LEMMA RunCount ==
    ASSUME NEW F \in SUBSET Page, NEW b \in Int, NEW k \in Nat
    PROVE  /\ Run(b, k) \subseteq F => /\ k <= Cardinality(F)
                                      /\ Cardinality(F \ Run(b, k)) = Cardinality(F) - k
           /\ Run(b, k) \subseteq Page \ F => Cardinality(F \cup Run(b, k)) = Cardinality(F) + k
<1>3. IsFiniteSet(F) /\ Cardinality(F) \in Nat
  BY PageCount
<1>4. IsFiniteSet(Run(b, k)) /\ Cardinality(Run(b, k)) = k
  <2>1. b + k - 1 \in Int
    OBVIOUS
  <2>2. /\ IsFiniteSet(b .. b + k - 1)
        /\ Cardinality(b .. b + k - 1) = IF b > b + k - 1 THEN 0 ELSE (b + k - 1) - b + 1
    BY <2>1, FS_Interval
  <2> QED BY <2>2 DEF Run
<1>5. ASSUME Run(b, k) \subseteq F
      PROVE  k <= Cardinality(F) /\ Cardinality(F \ Run(b, k)) = Cardinality(F) - k
  <2>1. F \cap Run(b, k) = Run(b, k)
    BY <1>5
  <2>2. Cardinality(F \ Run(b, k)) = Cardinality(F) - Cardinality(F \cap Run(b, k))
    BY <1>3, FS_Difference
  <2>3. Cardinality(Run(b, k)) <= Cardinality(F)
    BY <1>3, <1>5, FS_Subset
  <2> QED BY <2>1, <2>2, <2>3, <1>4
<1>6. ASSUME Run(b, k) \subseteq Page \ F
      PROVE  Cardinality(F \cup Run(b, k)) = Cardinality(F) + k
  <2>1. F \cap Run(b, k) = {}
    BY <1>6
  <2>2. Cardinality(F \cup Run(b, k))
          = Cardinality(F) + Cardinality(Run(b, k)) - Cardinality(F \cap Run(b, k))
    BY <1>3, <1>4, FS_Union
  <2>3. Cardinality(F \cap Run(b, k)) = 0
    BY <2>1, FS_EmptySet
  <2> QED BY <2>2, <2>3, <1>3, <1>4
<1> QED BY <1>5, <1>6

-----------------------------------------------------------------------------
\* After page_init() there is one block with all pages.
LEMMA InitStep ==
    Init => PmmInv /\ Promise!Init
<1> SUFFICES ASSUME Init PROVE PmmInv /\ Promise!Init
  OBVIOUS
<1>0. NPage \in Nat \ {0} /\ 0 \in Page /\ NPage - 1 \in Page /\ NULL \notin Int
  BY PageAssumption DEF Page
<1>1. FreePage = Page
  BY DEF Init, FreePage
<1>2. TypeOK
  BY <1>0 DEF Init, TypeOK, head
<1>3. nr_free = Cardinality(FreePage)
  <2>1. Cardinality(Page) = NPage
    BY PageCount
  <2> QED BY <2>1, <1>1 DEF Init
<1>4. Tiled(FreePage, PageProperty, property)
  <2>1. PageProperty = {0} /\ property[0] = NPage /\ Run(0, NPage) = Page
    BY <1>0 DEF Init, Run, Page
  <2> QED BY <2>1, <1>0, <1>1 DEF Tiled
<1>5. IsList(free_list, Linked) /\ IsSorted(free_list, Linked)
  <2>1. Linked = {0} /\ head = NPage /\ 0 # NPage
    BY <1>0 DEF Init, Linked, head
  <2>2. /\ free_list.next[0] = NPage /\ free_list.next[NPage] = 0
        /\ free_list.prev[0] = NPage /\ free_list.prev[NPage] = 0
    BY <1>0, <2>1 DEF Init
  <2> QED BY <2>1, <2>2, <1>0 DEF IsList, IsSorted
<1>6. United /\ Searching /\ Freeing /\ Held
  BY <1>0 DEF Init, United, Searching, Freeing, Held
<1>7. PmmInv
  BY <1>2, <1>3, <1>4, <1>5, <1>6 DEF PmmInv, Init
<1> QED BY <1>1, <1>7 DEF Promise!Init, Promise!Page, Page, Init

\* Outside free_pages() a fit of k pages lies in a block of that size, so that
\* a search which has passed only smaller blocks has passed no fit.
LEMMA FitInBlock ==
    ASSUME PmmInv, pc \in {"idle", "alloc"}, NEW k \in 1 .. NPage, NEW c \in Promise!Fits(k)
    PROVE  c \in Int /\ \E p \in PageProperty : p <= c /\ property[p] >= k
<1>1. c \in Int /\ Run(c, k) \subseteq FreePage /\ k \in Nat \ {0}
  BY Facts DEF Promise!Fits, Promise!Page, Promise!Run, Page, Run
<1>2. \A p, q \in PageProperty : p + property[p] # q
  BY DEF PmmInv, United
<1> QED BY <1>1, <1>2, Facts, TileFit

\* A step that only moves the local variables changes nothing of the list.
LEMMA SearchStep ==
    ASSUME PmmInv, UNCHANGED <<areaVars, held>>,
           pc \in {"idle", "alloc"}, pc' \in {"idle", "alloc"},
           base' = base, le' \in Entry, n' \in 0 .. NPage, result' \in Page \cup {NULL},
           Searching'
    PROVE  PmmInv' /\ FreePage' = FreePage
<1>1. FreePage' = FreePage /\ Linked' = Linked
  BY DEF FreePage, areaVars, Linked
<1>2. TypeOK'
  BY DEF PmmInv, TypeOK, areaVars, Entry
<1>3. United' /\ Freeing' /\ Held'
  BY DEF PmmInv, areaVars, United, Freeing, Held
<1> QED BY <1>1, <1>2, <1>3 DEF PmmInv, areaVars

\* A request for more pages than nr_free has no fit; the search of another one
\* starts below all blocks.
LEMMA AllocCallStep ==
    ASSUME PmmInv, NEW k \in 1 .. NPage, Spare(k), AllocCall(k)
    PROVE  PmmInv' /\ [Promise!Next]_<<FreePage, result>>
<1>0. pc = "idle" /\ UNCHANGED <<areaVars, held>> /\ k \in Nat /\ Linked = PageProperty
  BY Facts DEF AllocCall, Linked
<1>1. CASE k > nr_free
  <2>1. UNCHANGED <<pc, callVars>> /\ result' = NULL
    BY <1>1 DEF AllocCall
  <2>2. Searching'
    BY <2>1, <1>0 DEF Searching
  <2>3. PmmInv' /\ FreePage' = FreePage
    BY <2>1, <2>2, <1>0, SearchStep DEF callVars, PmmInv, TypeOK, Entry
  <2>4. Promise!Fits(k) = {}
    <3> SUFFICES ASSUME NEW c \in Promise!Fits(k) PROVE FALSE
      OBVIOUS
    <3>1. c \in Int /\ Run(c, k) \subseteq FreePage
      BY Facts DEF Promise!Fits, Promise!Page, Promise!Run, Page, Run
    <3>2. FreePage \in SUBSET Page
      BY DEF FreePage
    <3>3. k <= Cardinality(FreePage)
      BY <3>1, <3>2, <1>0, RunCount
    <3>4. Cardinality(FreePage) \in Nat
      BY <3>2, PageCount
    <3> QED BY <3>3, <3>4, <1>0, <1>1 DEF PmmInv
  <2>5. Promise!AllocPages(k)
    BY <2>1, <2>3, <2>4 DEF Promise!AllocPages
  <2> QED BY <2>3, <2>5 DEF Promise!Next
<1>2. CASE ~(k > nr_free)
  <2>1. /\ pc' = "alloc" /\ n' = k /\ le' = free_list.next[head]
        /\ base' = base /\ result' = result
    BY <1>2 DEF AllocCall
  <2>2. le' \in PageProperty \cup {head} /\ \A p \in PageProperty : le' <= p
    BY <2>1, <1>0 DEF PmmInv, IsList, IsSorted
  <2>3. Spare(n)'
    BY <2>1, <1>0 DEF Spare, Fits
  <2>4. le' \in Entry /\ \A p \in PageProperty : ~(p < le')
    BY <2>2, Facts DEF Entry
  <2>5. Searching'
    BY <2>1, <2>2, <2>3, <2>4, <1>0 DEF Searching, areaVars
  <2>6. UNCHANGED <<areaVars, held>> /\ base' = base /\ result' = result /\ n' \in 0 .. NPage
    BY <2>1, <1>0 DEF TypeOK
  <2>7. pc \in {"idle", "alloc"} /\ pc' \in {"idle", "alloc"} /\ le' \in Entry
    BY <2>1, <2>4, <1>0
  <2>8. PmmInv' /\ FreePage' = FreePage
    BY <2>4, <2>5, <2>6, <2>7, <1>0, SearchStep DEF PmmInv, TypeOK
  <2> QED BY <2>1, <2>8
<1> QED BY <1>1, <1>2

\* The search goes on to the next block in order of address: it skips none.
LEMMA AllocNextStep ==
    ASSUME PmmInv, AllocNext
    PROVE  PmmInv' /\ [Promise!Next]_<<FreePage, result>>
<1>1. /\ pc = "alloc" /\ le # head /\ property[le] < n /\ le' = free_list.next[le]
      /\ UNCHANGED <<areaVars, held, pc, base, n, result>> /\ Linked = PageProperty
  BY DEF AllocNext, Linked
<1>2. le \in PageProperty
  BY <1>1 DEF PmmInv, Searching
<1>3. le' \in PageProperty \cup {head} /\ \A p \in PageProperty : le < p => le' <= p
  BY <1>1, <1>2 DEF PmmInv, IsList, IsSorted
<1>4. \A p \in PageProperty : p < le' => property[p] < n
  <2> SUFFICES ASSUME NEW p \in PageProperty, p < le' PROVE property[p] < n
    OBVIOUS
  <2>1. p <= le
    BY <1>2, <1>3, Facts
  <2> QED BY <2>1, <1>1, <1>2, Facts DEF PmmInv, Searching
<1>5. Searching'
  BY <1>1, <1>3, <1>4 DEF PmmInv, Searching, areaVars, Spare, Fits
<1>6. PmmInv' /\ FreePage' = FreePage
  BY <1>1, <1>3, <1>5, SearchStep, Facts DEF PmmInv, TypeOK, Entry
<1> QED BY <1>1, <1>6

\* At the end of the list all blocks were too small, so that nothing fits.
LEMMA AllocFailStep ==
    ASSUME PmmInv, AllocFail
    PROVE  PmmInv' /\ [Promise!Next]_<<FreePage, result>>
<1>1. /\ pc = "alloc" /\ le = head /\ pc' = "idle" /\ n' = 0 /\ result' = NULL
      /\ UNCHANGED <<areaVars, held, le, base>>
  BY DEF AllocFail
<1>2. Searching'
  BY <1>1 DEF Searching
<1>3. PmmInv' /\ FreePage' = FreePage
  <2>1. le' \in Entry /\ n' \in 0 .. NPage
    BY <1>1, Facts DEF Entry
  <2> QED BY <2>1, <1>1, <1>2, SearchStep
<1>4. n \in 1 .. NPage /\ \A p \in PageProperty : property[p] < n
  BY <1>1, Facts DEF PmmInv, Searching
<1>5. Promise!Fits(n) = {}
  <2> SUFFICES ASSUME NEW c \in Promise!Fits(n) PROVE FALSE
    OBVIOUS
  <2>1. PICK p \in PageProperty : property[p] >= n
    BY <1>1, <1>4, FitInBlock
  <2> QED BY <2>1, <1>4, Facts
<1> QED BY <1>1, <1>3, <1>4, <1>5 DEF Promise!Next, Promise!AllocPages

\* The block at which the search ends is the lowest fit.
LEMMA LowestFit ==
    ASSUME PmmInv, pc = "alloc", le # head, property[le] >= n
    PROVE  /\ n \in 1 .. property[le] /\ n \in 1 .. NPage /\ le \in PageProperty /\ le + n < NPage
           /\ Run(le, n) \subseteq FreePage
           /\ le \in Promise!Fits(n) /\ \A c \in Promise!Fits(n) : le <= c
<1>1. n \in 1 .. NPage /\ le \in PageProperty /\ Spare(n)
  BY DEF PmmInv, Searching
<1>2. le \in Page /\ le \in Int /\ n \in Int /\ property[le] \in Int /\ n \in 1 .. property[le]
  BY <1>1, Facts
<1>3. Run(le, n) \subseteq FreePage
  <2>1. Run(le, n) \subseteq Run(le, property[le])
    BY <1>2 DEF Run
  <2> QED BY <2>1, <1>1 DEF PmmInv, Tiled
<1>4. le \in Promise!Fits(n)
  BY <1>2, <1>3 DEF Promise!Fits, Promise!Page, Promise!Run, Page, Run
<1>5. ASSUME NEW c \in Promise!Fits(n) PROVE le <= c
  <2>1. c \in Int
    BY <1>1, FitInBlock
  <2>2. PICK p \in PageProperty : p <= c /\ property[p] >= n
    BY <1>1, FitInBlock
  <2>3. p \in Int /\ property[p] \in Int
    BY <2>2, Facts
  <2>4. ~(p < le)
    BY <1>2, <2>2, <2>3 DEF PmmInv, Searching
  <2> QED BY <1>2, <2>1, <2>2, <2>3, <2>4
<1>6. le + n < NPage
  <2>1. Fits(n) = Promise!Fits(n)
    BY DEF Fits, Promise!Fits, Promise!Page, Promise!Run, Page, Run, FreePage
  <2>2. PICK c \in Fits(n) : c + n < NPage
    BY <1>1, <1>4, <2>1 DEF Spare
  <2>3. le <= c /\ c \in Int
    BY <1>5, <2>1, <2>2, Facts DEF Fits
  <2> QED BY <2>2, <2>3, <1>2, Facts
<1> QED BY <1>1, <1>2, <1>3, <1>4, <1>5, <1>6

\* The lowest fit is handed out; what is left of its block stays in its place.
LEMMA AllocTakeStep ==
    ASSUME PmmInv, AllocTake
    PROVE  PmmInv' /\ [Promise!Next]_<<FreePage, result>>
<1>1. /\ pc = "alloc" /\ le # head /\ property[le] >= n /\ Split /\ nr_free' = nr_free - n
      /\ held' = [p \in Page |-> IF p \in Run(le, n) THEN held[p] + 1 ELSE held[p]]
      /\ pc' = "idle" /\ le' = head /\ n' = 0 /\ result' = le /\ base' = base
  BY DEF AllocTake
<1>2. /\ n \in 1 .. property[le] /\ n \in 1 .. NPage /\ le \in PageProperty /\ le + n < NPage
      /\ Run(le, n) \subseteq FreePage
      /\ le \in Promise!Fits(n) /\ \A c \in Promise!Fits(n) : le <= c
  BY <1>1, LowestFit
<1>3. /\ NPage \in Nat \ {0} /\ le \in Int /\ 0 <= le /\ n \in Int /\ property[le] \in Int
      /\ le \in Page /\ n \in Nat /\ FreePage \in SUBSET Page /\ PageProperty \in SUBSET Page
      /\ NPage - 1 \in Page
  BY <1>2, Facts DEF FreePage
<1>4. FreePage' = FreePage \ Run(le, n)
  <2>1. \A p \in Page : /\ held[p] \in Nat
                        /\ held'[p] = IF p \in Run(le, n) THEN held[p] + 1 ELSE held[p]
    BY <1>1, Facts
  <2> QED BY <2>1 DEF FreePage
<1>5. held' \in [Page -> Nat] /\ Held'
  <2>1. \A p \in Page : /\ held[p] \in Nat
                        /\ held'[p] = IF p \in Run(le, n) THEN held[p] + 1 ELSE held[p]
    BY <1>1, Facts
  <2>2. held' \in [Page -> Nat]
    BY <2>1, <1>1
  <2>3. \A p \in Page : held'[p] <= 1
    BY <2>1, <1>2 DEF FreePage, PmmInv, Held
  <2>4. held'[NPage - 1] = 0
    BY <2>1, <1>2, <1>3 DEF Run, PmmInv, Held
  <2> QED BY <2>2, <2>3, <2>4 DEF Held
<1>6. nr_free' = Cardinality(FreePage') /\ nr_free' \in 0 .. NPage
  <2>1. Cardinality(FreePage \ Run(le, n)) = Cardinality(FreePage) - n
    BY <1>2, <1>3, RunCount
  <2>2. FreePage' \in SUBSET Page
    BY <1>3, <1>4
  <2>3. Cardinality(FreePage') \in Nat /\ Cardinality(FreePage') <= NPage
    BY <2>2, PageCount
  <2> QED BY <2>1, <2>3, <1>1, <1>3, <1>4 DEF PmmInv
<1>7. Linked = PageProperty /\ Linked' = PageProperty'
  BY <1>1 DEF Linked
<1>8. LET m == list_del(free_list, le)
      IN  /\ LinkType(m) /\ IsList(m, PageProperty \ {le}) /\ IsSorted(m, PageProperty \ {le})
  BY <1>2, <1>3, <1>7, ListDel, Facts DEF PmmInv
<1>9. /\ LinkType(free_list') /\ IsList(free_list', PageProperty')
      /\ IsSorted(free_list', PageProperty')
      /\ Tiling(FreePage', PageProperty', property')
      /\ \A p, q \in PageProperty' : p + property'[p] # q
  <2> DEFINE m == list_del(free_list, le)
             prev == free_list.prev[le]
             next == free_list.next[le]
             rest == le + n
  <2>1. \A p, q \in PageProperty : p + property[p] # q
    BY <1>1 DEF PmmInv, United
  <2>2. CASE property[le] > n
    <3>1. /\ free_list' = list_add_after(m, prev, rest)
          /\ property' = [property EXCEPT ![rest] = property[le] - n]
          /\ PageProperty' = (PageProperty \cup {rest}) \ {le}
      BY <2>2, <1>1 DEF Split
    <3>2. /\ rest \in Page \ PageProperty
          /\ Tiling(FreePage', PageProperty', property')
      BY <3>1, <2>2, <1>2, <1>4, TileTake, Facts
    <3>3. /\ prev \in (PageProperty \ {le}) \cup {head} /\ next \in PageProperty \cup {head}
          /\ m.next[prev] = next
          /\ (prev = head \/ prev < le) /\ le < next /\ (next # head => le + property[le] <= next)
      <4>1. /\ prev \in PageProperty \cup {head} /\ next \in PageProperty \cup {head}
            /\ free_list.next[prev] = le
        BY <1>2, <1>7 DEF PmmInv, IsList
      <4>2. (prev = head \/ prev < le) /\ le < next
        BY <4>1, <1>2, <1>7 DEF PmmInv, IsSorted
      <4>3. m.next = [free_list.next EXCEPT ![prev] = next] /\ prev \in Entry
        BY <4>1, Facts DEF list_del, Entry
      <4>4. m.next[prev] = next
        BY <4>3, Facts DEF LinkType
      <4>5. prev # le
        BY <4>2, <1>2, <1>3, Facts
      <4>6. next # head => le + property[le] <= next
        BY <4>1, <4>2, <1>2 DEF PmmInv, Tiled
      <4> QED BY <4>1, <4>2, <4>4, <4>5, <4>6
    <3>4. free_list' = link_between(m, rest, prev, m.next[prev]) /\ rest = le + n
      BY <3>1 DEF list_add_after
    <3>5. LinkType(m) /\ IsList(m, PageProperty \ {le}) /\ IsSorted(m, PageProperty \ {le})
      BY <1>8
    <3> HIDE DEF m, prev, next, rest
    <3>6. (prev = head \/ prev < rest) /\ rest < m.next[prev]
      <4>1. prev # head => prev \in Int /\ prev < rest
        <5>1. prev # head => prev \in Int /\ prev < le
          BY <3>3, Facts
        <5> QED BY <5>1, <3>4, <1>2, <1>3
      <4>2. next = head => rest < next
        BY <3>4, <1>2, Facts
      <4>3. next # head => next \in Int /\ rest < next
        <5>1. next # head => next \in Int /\ le + property[le] <= next
          BY <3>3, Facts
        <5> QED BY <5>1, <3>4, <2>2, <1>3
      <4> QED BY <4>1, <4>2, <4>3, <3>3
    <3>7. /\ PageProperty \ {le} \in SUBSET Page /\ rest \in Page \ (PageProperty \ {le})
          /\ PageProperty' = (PageProperty \ {le}) \cup {rest}
      BY <3>1, <3>2, <1>2, <1>3
    <3>8. /\ LinkType(free_list') /\ IsList(free_list', PageProperty')
          /\ IsSorted(free_list', PageProperty')
      BY <3>3, <3>6, <3>7, <3>4, <3>5, ListAdd
    <3>9. ASSUME NEW p \in PageProperty', NEW q \in PageProperty' PROVE p + property'[p] # q
      <4>1. /\ property'[rest] = property[le] - n
            /\ \A r \in PageProperty : /\ property'[r] = property[r]
                                       /\ r \in Int /\ property[r] \in Int
        <5>1. property \in [Page -> 0 .. NPage]
          BY DEF PmmInv, TypeOK
        <5>2. \A r \in PageProperty : r \in Page /\ r # rest /\ r \in Int /\ property[r] \in Int
          BY <3>2, Facts
        <5> QED BY <5>1, <5>2, <3>1, <3>2
      <4>3. CASE p = rest
        <5>1. p + property'[p] = le + property[le]
          BY <4>1, <3>4, <4>3, <1>3
        <5>2. CASE q = rest
          BY <5>1, <5>2, <3>4, <2>2, <1>3
        <5>3. CASE q # rest
          BY <5>1, <5>3, <3>7, <2>1, <1>2
        <5> QED BY <5>2, <5>3
      <4>4. CASE p # rest
        <5>1. p \in PageProperty /\ p # le
          BY <4>4, <3>7
        <5>2. CASE q = rest
          <6>1. (p < le => p + property[p] <= le) /\ (le < p => le + property[le] <= p)
            BY <5>1, <1>2 DEF PmmInv, Tiled
          <6>2. property[p] \in 1 .. NPage /\ p \in Int
            BY <5>1, Facts
          <6> QED BY <5>1, <5>2, <6>1, <6>2, <4>1, <3>4, <2>2, <1>2, <1>3
        <5>3. CASE q # rest
          BY <5>1, <5>3, <4>1, <3>7, <2>1
        <5> QED BY <5>2, <5>3
      <4> QED BY <4>3, <4>4
    <3> QED BY <3>2, <3>8, <3>9
  <2>3. CASE ~(property[le] > n)
    <3>1. /\ free_list' = m /\ property' = property /\ PageProperty' = PageProperty \ {le}
      BY <2>3, <1>1 DEF Split
    <3>2. Tiling(FreePage', PageProperty', property')
      BY <3>1, <2>3, <1>2, <1>4, TileTake, Facts
    <3> QED BY <3>1, <3>2, <2>1, <1>8
  <2> QED BY <2>2, <2>3
<1>10. TypeOK'
  <2>1. /\ free_list'.next \in [0 .. NPage -> 0 .. NPage]
        /\ free_list'.prev \in [0 .. NPage -> 0 .. NPage]
        /\ property' \in [Page -> 0 .. NPage] /\ PageProperty' \subseteq Page
    BY <1>9 DEF LinkType, Entry, Tiling
  <2>2. le' \in 0 .. NPage /\ n' \in 0 .. NPage /\ result' \in Page \cup {NULL} /\ base' \in Page
    BY <1>1, <1>3 DEF PmmInv, TypeOK, head
  <2> QED BY <2>1, <2>2, <1>1, <1>5, <1>6 DEF TypeOK
<1>11. United' /\ Searching' /\ Freeing'
  BY <1>1, <1>9 DEF United, Searching, Freeing
<1>12. PmmInv'
  BY <1>1, <1>5, <1>6, <1>7, <1>9, <1>10, <1>11 DEF PmmInv, Tiling
<1>13. Promise!AllocPages(n)
  BY <1>1, <1>2, <1>4 DEF Promise!AllocPages, Promise!Run, Run
<1> QED BY <1>2, <1>12, <1>13 DEF Promise!Next

-----------------------------------------------------------------------------
\* The pages come back as a block of their own; the list is not empty, because
\* the last page is free, and no page of the run starts a block.
LEMMA FreeCallStep ==
    ASSUME PmmInv, NEW b \in Page, NEW k \in 1 .. NPage, FreeCall(b, k)
    PROVE  PmmInv' /\ [Promise!Next]_<<FreePage, result>>
<1>0. /\ pc = "idle" /\ Run(b, k) \subseteq {p \in Page : held[p] > 0}
      /\ held' = [p \in Page |-> IF p \in Run(b, k) THEN held[p] - 1 ELSE held[p]]
      /\ property' = [property EXCEPT ![b] = k] /\ PageProperty' = PageProperty \cup {b}
      /\ nr_free' = nr_free + k /\ base' = b /\ result' = NULL /\ n' = n
      /\ Linked = PageProperty
  BY DEF FreeCall, Linked
<1>1. /\ NPage \in Nat \ {0} /\ b \in Int /\ k \in Nat /\ 1 <= k /\ NPage - 1 \in Page
      /\ FreePage \in SUBSET Page /\ PageProperty \in SUBSET Page
  BY Facts DEF FreePage
<1>2. Run(b, k) \subseteq Page \ FreePage
  BY <1>0 DEF FreePage
<1>3. b \notin PageProperty /\ Tiling(FreePage \cup Run(b, k), PageProperty', property')
  <2>1. Tiling(FreePage, PageProperty, property)
    BY Facts
  <2>2. /\ b \notin PageProperty
        /\ Tiling(FreePage \cup Run(b, k), PageProperty \cup {b}, [property EXCEPT ![b] = k])
    BY <2>1, <1>2, TileFree
  <2> QED BY <2>2, <1>0
<1>4. \A p \in Page : held[p] \in Nat /\ held'[p] = IF p \in Run(b, k) THEN held[p] - 1 ELSE held[p]
  BY <1>0, Facts
<1>5. held' \in [Page -> Nat] /\ Held' /\ FreePage' = FreePage \cup Run(b, k)
  <2>1. \A p \in Page : held[p] <= 1
    BY DEF PmmInv, Held
  <2>2. \A p \in Page : held'[p] \in Nat /\ held'[p] <= 1
    BY <2>1, <1>0, <1>4
  <2>3. held' \in [Page -> Nat]
    BY <2>2, <1>0
  <2>4. held'[NPage - 1] = 0
    BY <1>0, <1>1, <1>4 DEF PmmInv, Held
  <2>5. \A p \in Page : held'[p] = 0 <=> (held[p] = 0 \/ p \in Run(b, k))
    BY <2>1, <1>0, <1>4
  <2>6. FreePage' = FreePage \cup Run(b, k)
    BY <2>5, <1>2 DEF FreePage
  <2> QED BY <2>2, <2>3, <2>4, <2>6 DEF Held
<1>6. nr_free' = Cardinality(FreePage') /\ nr_free' \in 0 .. NPage
  <2>1. Cardinality(FreePage \cup Run(b, k)) = Cardinality(FreePage) + k
    BY <1>1, <1>2, RunCount
  <2>2. FreePage' \in SUBSET Page
    BY <1>1, <1>2, <1>5
  <2>3. Cardinality(FreePage') \in Nat /\ Cardinality(FreePage') <= NPage
    BY <2>2, PageCount
  <2> QED BY <2>1, <2>3, <1>0, <1>1, <1>5 DEF PmmInv
<1>7. free_list.next[head] \in PageProperty /\ \A r \in PageProperty : free_list.next[head] <= r
  <2>1. PICK r \in PageProperty : NPage - 1 \in Run(r, property[r])
    BY Facts DEF Tiling, Tiled
  <2>2. free_list.next[head] <= r
    BY <1>0 DEF PmmInv, IsSorted
  <2>3. free_list.next[head] # head
    BY <2>2, Facts
  <2> QED BY <2>3, <1>0 DEF PmmInv, IsList, IsSorted
<1>8. pc' = "free" /\ le' = free_list.next[head] /\ free_list' = free_list
  <2>1. Run(b, k) \cap PageProperty = {}
    BY <1>2, Facts
  <2>2. ~list_empty(free_list, head)
    BY <1>7, Facts DEF list_empty
  <2> QED BY <2>1, <2>2 DEF FreeCall
<1>9. Linked' = PageProperty
  BY <1>0, <1>3, <1>8 DEF Linked
<1>10. Freeing'
  <2>1. b + k < NPage
    <3>1. NPage - 1 \notin Run(b, k)
      BY <1>2, Facts
    <3>2. b + k - 1 \in Page
      BY <1>1, <1>2 DEF Run
    <3> QED BY <3>1, <3>2, <1>1, Facts DEF Run
  <2>2. property'[b] = k
    BY <1>0 DEF PmmInv, TypeOK
  <2>3. \A r \in PageProperty : ~(r < le')
    BY <1>7, <1>8, Facts
  <2> QED BY <2>1, <2>2, <2>3, <1>0, <1>7, <1>8, <1>9 DEF Freeing
<1>11. United'
  <2> SUFFICES ASSUME NEW p \in PageProperty', NEW q \in PageProperty', p + property'[p] = q
               PROVE  b \in {p, q}
    BY <1>0, <1>8 DEF United
  <2>1. CASE p \in PageProperty /\ q \in PageProperty
    <3>1. p # b /\ p \in Page /\ property \in [Page -> 0 .. NPage]
      BY <2>1, <1>1, <1>3 DEF PmmInv, TypeOK
    <3>2. property'[p] = property[p]
      BY <3>1, <1>0
    <3> QED BY <3>2, <2>1, <1>0 DEF PmmInv, United
  <2> QED BY <2>1, <1>0
<1>12. TypeOK'
  <2>1. property' \in [Page -> 0 .. NPage] /\ PageProperty' \subseteq Page
    BY <1>3 DEF Tiling
  <2>2. le' \in 0 .. NPage
    <3>1. le' \in Page
      BY <1>1, <1>7, <1>8
    <3> QED BY <3>1, <1>1 DEF Page
  <2> QED BY <2>1, <2>2, <1>0, <1>5, <1>6, <1>8 DEF PmmInv, TypeOK
<1>13. PmmInv'
  <2>1. Searching'
    BY <1>8 DEF Searching
  <2>2. Tiled(FreePage', PageProperty', property')
    BY <1>3, <1>5 DEF Tiling
  <2>3. IsList(free_list', Linked') /\ IsSorted(free_list', Linked')
    BY <1>0, <1>8, <1>9 DEF PmmInv
  <2> QED BY <2>1, <2>2, <2>3, <1>5, <1>6, <1>8, <1>10, <1>11, <1>12 DEF PmmInv
<1>14. Promise!FreePages(b, k)
  BY <1>0, <1>2, <1>5 DEF Promise!FreePages, Promise!Run, Promise!Page, Page, Run
<1> QED BY <1>13, <1>14 DEF Promise!Next, Promise!Page, Page

\* The block goes between its neighbours in order of address, and the walk
\* never reaches the round that appends it.
LEMMA FreeNextStep ==
    ASSUME PmmInv, FreeNext
    PROVE  PmmInv' /\ [Promise!Next]_<<FreePage, result>>
<1>0. /\ pc = "free" /\ UNCHANGED <<property, PageProperty, nr_free, held, base, n, result>>
      /\ Linked = PageProperty \ {base} /\ FreePage' = FreePage
  BY DEF FreeNext, Linked, FreePage
<1>1. /\ base \in PageProperty /\ le \in Linked /\ base + property[base] < NPage
      /\ \A r \in Linked : r < le => r < base
  BY <1>0 DEF PmmInv, Freeing
<1>2. /\ NPage \in Nat /\ base \in Int /\ le \in Int /\ le # base /\ le # head
      /\ property[base] \in Int
      /\ base \in Page /\ Linked \in SUBSET Page /\ base \notin Linked
  BY <1>0, <1>1, Facts
<1>3. CASE base < le
  <2> DEFINE p == free_list.prev[le]
  <2>1. free_list' = list_add_before(free_list, le, base) /\ pc' = "merge_prev" /\ le' = head
    BY <1>0, <1>2, <1>3 DEF FreeNext
  <2>2. p \in Linked \cup {head} /\ free_list.next[p] = le
    BY <1>1 DEF PmmInv, IsList
  <2>3. free_list' = link_between(free_list, base, p, free_list.next[p])
    BY <2>1, <2>2 DEF list_add_before
  <2> HIDE DEF p
  <2>4. p = head \/ p < base
    BY <2>2, <1>1 DEF PmmInv, IsSorted
  <2>5. /\ LinkType(free_list') /\ IsList(free_list', Linked \cup {base})
        /\ IsSorted(free_list', Linked \cup {base})
    BY <2>2, <2>3, <2>4, <1>2, <1>3, ListAdd, Facts DEF PmmInv
  <2>6. Linked' = Linked \cup {base}
    BY <2>1, <1>0, <1>1 DEF Linked
  <2>7. United' /\ Searching' /\ Freeing' /\ Held'
    BY <2>1, <1>0, <1>1 DEF PmmInv, United, Searching, Freeing, Held
  <2>8. TypeOK'
    <3>1. /\ free_list'.next \in [0 .. NPage -> 0 .. NPage]
          /\ free_list'.prev \in [0 .. NPage -> 0 .. NPage]
      BY <2>5 DEF LinkType, Entry
    <3>2. le' \in 0 .. NPage
      BY <2>1, <1>2 DEF head
    <3> QED BY <3>1, <3>2, <2>1, <1>0 DEF PmmInv, TypeOK
  <2>9. PmmInv'
    BY <2>1, <2>5, <2>6, <2>7, <2>8, <1>0 DEF PmmInv
  <2> QED BY <2>9, <1>0
<1>4. CASE ~(base < le)
  <2>1. free_list.next[le] \in Linked /\ \A r \in Linked : le < r => free_list.next[le] <= r
    <3>1. PICK q \in PageProperty : NPage - 1 \in Run(q, property[q])
      BY Facts DEF Tiling, Tiled
    <3>2. q \in Int /\ property[q] \in Int /\ q <= NPage - 1 /\ NPage - 1 < q + property[q]
      BY <3>1, Facts DEF Run
    <3>3. q # base /\ ~(q < base)
      <4>1. q < base => q + property[q] <= base
        BY <3>1, <1>1 DEF PmmInv, Tiled
      <4>2. base < NPage
        BY <1>1, Facts
      <4> QED BY <4>1, <4>2, <3>2, <1>1, <1>2
    <3>4. q \in Linked /\ le < q
      BY <3>1, <3>2, <3>3, <1>0, <1>2, <1>4
    <3>5. free_list.next[le] <= q /\ free_list.next[le] \in Linked \cup {head}
      BY <3>4, <1>1 DEF PmmInv, IsSorted, IsList
    <3> QED BY <3>2, <3>5, <1>1, Facts DEF PmmInv, IsSorted
  <2>2. free_list' = free_list /\ le' = free_list.next[le] /\ pc' = pc
    BY <2>1, <1>0, <1>2, <1>4, Facts DEF FreeNext
  <2>3. Linked' = Linked
    BY <2>2, <1>0 DEF Linked
  <2>4. \A r \in Linked : r < le' => r < base
    <3> SUFFICES ASSUME NEW r \in Linked, r < le' PROVE r < base
      OBVIOUS
    <3>1. r \in Int /\ le' \in Int
      BY <2>1, <2>2, <1>2, Facts
    <3>2. ~(le < r)
      BY <3>1, <2>1, <2>2
    <3> QED BY <3>1, <3>2, <1>2, <1>4
  <2>5. Freeing'
    BY <2>1, <2>2, <2>3, <2>4, <1>0, <1>1 DEF Freeing
  <2>6. United' /\ Searching' /\ Held'
    BY <2>2, <1>0 DEF PmmInv, United, Searching, Held
  <2>7. le' \in 0 .. NPage
    <3>1. le' \in Page
      BY <2>1, <2>2, <1>2
    <3> QED BY <3>1, <1>2 DEF Page
  <2>8. TypeOK'
    BY <2>2, <2>7, <1>0 DEF PmmInv, TypeOK
  <2>9. PmmInv'
    BY <2>2, <2>3, <2>5, <2>6, <2>8, <1>0 DEF PmmInv
  <2> QED BY <2>9, <1>0
<1> QED BY <1>3, <1>4

\* What both merges do to the list and to the blocks.
LEMMA MergedStep ==
    ASSUME PmmInv, pc \in {"merge_prev", "merge_next"}, pc' \in {"merge_next", "idle"},
           NEW p \in PageProperty, NEW q \in PageProperty, p + property[p] = q,
           Merged(p, q), UNCHANGED <<nr_free, held, le, n, result>>, base' \in Page,
           United', pc' = "merge_next" => base' \in PageProperty'
    PROVE  PmmInv' /\ FreePage' = FreePage
<1>0. /\ property' = [property EXCEPT ![p] = property[p] + property[q]]
      /\ PageProperty' = PageProperty \ {q} /\ free_list' = list_del(free_list, q)
  BY DEF Merged
<1>1. FreePage' = FreePage /\ Linked = PageProperty /\ Linked' = PageProperty'
  BY DEF FreePage, Linked
<1>2. Tiling(FreePage', PageProperty', property')
  <2>1. Tiling(FreePage, PageProperty, property)
    BY Facts
  <2>2. Tiling(FreePage, PageProperty \ {q}, [property EXCEPT ![p] = property[p] + property[q]])
    BY <2>1, TileMerge
  <2> QED BY <2>2, <1>0, <1>1
<1>3. LinkType(free_list') /\ IsList(free_list', Linked') /\ IsSorted(free_list', Linked')
  <2>1. /\ LinkType(free_list) /\ PageProperty \in SUBSET Page
        /\ IsList(free_list, PageProperty) /\ IsSorted(free_list, PageProperty)
    BY <1>1, Facts DEF PmmInv
  <2> QED BY <2>1, <1>0, <1>1, ListDel
<1>4. TypeOK'
  BY <1>2, <1>3 DEF PmmInv, TypeOK, LinkType, Entry, Tiling
<1>5. Searching' /\ Freeing' /\ Held'
  BY DEF PmmInv, Searching, Freeing, Held
<1> QED BY <1>1, <1>2, <1>3, <1>4, <1>5 DEF PmmInv, Tiling

\* A merge that finds nothing to do changes only the control state.
LEMMA UnmergedStep ==
    ASSUME PmmInv, pc \in {"merge_prev", "merge_next"}, pc' \in {"merge_next", "idle"},
           UNCHANGED <<property, PageProperty, free_list>>,
           UNCHANGED <<nr_free, held, le, n, result>>, base' \in Page,
           United', pc' = "merge_next" => base' \in PageProperty'
    PROVE  PmmInv' /\ FreePage' = FreePage
<1>1. FreePage' = FreePage /\ Linked' = Linked
  BY DEF FreePage, Linked
<1>2. TypeOK'
  BY DEF PmmInv, TypeOK
<1>3. Searching' /\ Freeing' /\ Held'
  BY DEF PmmInv, Searching, Freeing, Held
<1> QED BY <1>1, <1>2, <1>3 DEF PmmInv

\* A block that ends where base starts is the one before it on the list; after
\* the step only the block above base can still follow at once.
LEMMA MergePrevStep ==
    ASSUME PmmInv, MergePrev
    PROVE  PmmInv' /\ [Promise!Next]_<<FreePage, result>>
<1> DEFINE p == free_list.prev[base]
<1>0. /\ pc = "merge_prev" /\ pc' = "merge_next" /\ UNCHANGED <<nr_free, held, le, n, result>>
      /\ IF p # head /\ p + property[p] = base
         THEN Merged(p, base) /\ base' = p
         ELSE UNCHANGED <<property, PageProperty, free_list, base>>
  BY DEF MergePrev
<1>1. base \in PageProperty /\ Linked = PageProperty
  BY <1>0 DEF PmmInv, Freeing, Linked
<1>2. p \in PageProperty \cup {head} /\ free_list.next[p] = base
  BY <1>1 DEF PmmInv, IsList
<1> HIDE DEF p
<1>3. CASE p # head /\ p + property[p] = base
  <2>1. Merged(p, base) /\ base' = p /\ p \in PageProperty
    BY <1>0, <1>2, <1>3
  <2>2. /\ PageProperty' = PageProperty \ {base} /\ p # base
        /\ property' = [property EXCEPT ![p] = property[p] + property[base]]
    <3>1. p # base
      BY <2>1, <1>1, <1>3, Facts
    <3> QED BY <3>1, <2>1 DEF Merged
  <2>3. United'
    <3> SUFFICES ASSUME NEW x \in PageProperty', NEW y \in PageProperty', x + property'[x] = y
                 PROVE  x = p
      BY <2>1, <1>0 DEF United
    <3>1. x # p => property'[x] = property[x]
      BY <2>2 DEF PmmInv, TypeOK
    <3> QED BY <3>1, <2>2, <1>0 DEF PmmInv, United
  <2>4. p \in Page /\ p \in PageProperty'
    BY <2>1, <2>2, Facts
  <2>5. PmmInv' /\ FreePage' = FreePage
    BY <2>1, <2>3, <2>4, <1>0, <1>1, <1>3, MergedStep
  <2> QED BY <2>5, <1>0
<1>4. CASE ~(p # head /\ p + property[p] = base)
  <2>1. UNCHANGED <<property, PageProperty, free_list, base>>
    BY <1>0, <1>4
  <2>2. ASSUME NEW x \in PageProperty, x + property[x] = base PROVE FALSE
    <3>1. x \in Int /\ property[x] \in Int /\ base \in Int /\ x < base /\ base < head
      BY <2>2, <1>1, Facts
    <3>2. p = head => base <= x
      BY <1>1, <1>2 DEF PmmInv, IsSorted
    <3>3. p \in PageProperty
      BY <3>1, <3>2, <1>2
    <3>4. p < base /\ (p < x => base <= x) /\ (x < p => x + property[x] <= p) /\ p \in Int
      BY <3>3, <1>1, <1>2, Facts DEF PmmInv, IsSorted, Tiled
    <3>5. p # x
      BY <2>2, <3>1, <3>3, <1>4, Facts
    <3> QED BY <2>2, <3>1, <3>4, <3>5
  <2>3. United'
    BY <2>1, <2>2, <1>0 DEF PmmInv, United
  <2>4. base' \in Page /\ base' \in PageProperty'
    BY <2>1, <1>1, Facts
  <2>5. PmmInv' /\ FreePage' = FreePage
    BY <2>1, <2>3, <2>4, <1>0, UnmergedStep
  <2> QED BY <2>5, <1>0
<1> QED BY <1>3, <1>4

\* The same above base: after the step no block follows another one at once.
LEMMA MergeNextStep ==
    ASSUME PmmInv, MergeNext
    PROVE  PmmInv' /\ [Promise!Next]_<<FreePage, result>>
<1> DEFINE p == free_list.next[base]
<1>0. /\ pc = "merge_next" /\ pc' = "idle" /\ base' = 0
      /\ UNCHANGED <<nr_free, held, le, n, result>>
      /\ IF p # head /\ base + property[base] = p
         THEN Merged(base, p)
         ELSE UNCHANGED <<property, PageProperty, free_list>>
  BY DEF MergeNext
<1>1. base \in PageProperty /\ Linked = PageProperty
  BY <1>0 DEF PmmInv, Freeing, Linked
<1>2. p \in PageProperty \cup {head} /\ base < p
  BY <1>1 DEF PmmInv, IsList, IsSorted
<1>3. base' \in Page
  BY <1>0, PageAssumption DEF Page
<1>u. \A x, y \in PageProperty : x + property[x] = y => base = x
  BY <1>0 DEF PmmInv, United
<1>p. \A y \in PageProperty : base < y => p <= y
  BY <1>1 DEF PmmInv, IsSorted
<1> HIDE DEF p
<1>4. CASE p # head /\ base + property[base] = p
  <2>1. Merged(base, p) /\ p \in PageProperty /\ p # base
    BY <1>0, <1>1, <1>2, <1>4, Facts
  <2>2. /\ PageProperty' = PageProperty \ {p}
        /\ property' = [property EXCEPT ![base] = property[base] + property[p]]
        /\ property \in [Page -> 0 .. NPage]
    BY <2>1 DEF Merged, PmmInv, TypeOK
  <2>3. United'
    <3> SUFFICES ASSUME NEW x \in PageProperty', NEW y \in PageProperty', x + property'[x] = y
                 PROVE  FALSE
      BY DEF United
    <3>0. x \in Page /\ base \in Page /\ p \in Page
      BY <2>1, <2>2, <1>1, Facts
    <3>1. CASE x = base
      <4>1. property'[x] = property[base] + property[p]
        BY <3>0, <3>1, <2>2
      <4>2. p + property[p] = y
        BY <4>1, <3>0, <3>1, <2>1, <1>1, <1>4, Facts
      <4> QED BY <4>2, <2>1, <2>2, <1>u
    <3>2. CASE x # base
      <4>1. property'[x] = property[x]
        BY <3>0, <3>2, <2>2
      <4> QED BY <4>1, <3>2, <2>2, <1>u
    <3> QED BY <3>1, <3>2
  <2>4. PmmInv' /\ FreePage' = FreePage
    BY <2>1, <2>3, <1>0, <1>1, <1>3, <1>4, MergedStep
  <2> QED BY <2>4, <1>0
<1>5. CASE ~(p # head /\ base + property[base] = p)
  <2>1. UNCHANGED <<property, PageProperty, free_list>>
    BY <1>0, <1>5
  <2>2. ASSUME NEW x \in PageProperty, NEW y \in PageProperty, x + property[x] = y PROVE FALSE
    <3>1. x = base
      BY <2>2, <1>u
    <3>2. base \in Int /\ property[base] \in 1 .. NPage /\ y \in Int /\ y < head /\ NPage \in Nat
      BY <1>1, Facts
    <3>3. base < y
      BY <2>2, <3>1, <3>2
    <3>4. p <= y
      BY <3>3, <1>p
    <3>5. p \in PageProperty /\ p \in Int
      BY <3>2, <3>4, <1>2, Facts
    <3>6. base + property[base] <= p
      BY <3>5, <1>1, <1>2 DEF PmmInv, Tiled
    <3> QED BY <2>2, <3>1, <3>2, <3>4, <3>5, <3>6, <1>5, Facts
  <2>3. United'
    BY <2>1, <2>2 DEF United
  <2>4. PmmInv' /\ FreePage' = FreePage
    BY <2>1, <2>3, <1>0, <1>3, UnmergedStep
  <2> QED BY <2>4, <1>0
<1> QED BY <1>4, <1>5

-----------------------------------------------------------------------------
\* Every step of a machine with memory to spare keeps the invariant, and is a
\* step of the first-fit specification or leaves its variables alone.
LEMMA PmmStep ==
    PmmInv /\ [SpareNext]_vars => PmmInv' /\ [Promise!Next]_<<FreePage, result>>
<1> SUFFICES ASSUME PmmInv, [SpareNext]_vars
             PROVE  PmmInv' /\ [Promise!Next]_<<FreePage, result>>
  OBVIOUS
<1>1. CASE \E k \in 1 .. NPage : Spare(k) /\ AllocCall(k)
  BY <1>1, AllocCallStep
<1>2. CASE Free
  BY <1>2, FreeCallStep DEF Free
<1>3. CASE Scan
  BY <1>3, AllocNextStep, AllocFailStep, AllocTakeStep, FreeNextStep, MergePrevStep,
     MergeNextStep DEF Scan
<1>4. CASE UNCHANGED vars
  BY <1>4 DEF vars, PmmInv, TypeOK, FreePage, Linked, United, Searching, Spare, Fits, Freeing, Held
<1> QED BY <1>1, <1>2, <1>3, <1>4 DEF SpareNext

\* The invariant describes the list between two calls exactly.
LEMMA PmmInvExact ==
    PmmInv => FreeListExact
<1> SUFFICES ASSUME PmmInv, pc = "idle"
             PROVE  /\ PageProperty = {p \in FreePage : p - 1 \notin FreePage}
                    /\ \A p \in PageProperty :
                          /\ Run(p, property[p]) \subseteq FreePage
                          /\ p + property[p] \notin FreePage
                    /\ \A p \in PageProperty \cup {head} :
                          LET q == free_list.next[p]
                          IN  /\ q \in PageProperty \cup {head} /\ free_list.prev[q] = p
                              /\ \A r \in PageProperty :
                                    /\ p # head => ~(p < r /\ r < q)
                                    /\ p = head => q <= r
  BY DEF FreeListExact, PmmInv
<1>0. Linked = PageProperty /\ \A p, q \in PageProperty : p + property[p] # q
  BY DEF PmmInv, United, Linked
<1>1. /\ \A p \in PageProperty : p \in FreePage /\ property[p] \in Int /\ property[p] > 0
      /\ \A p \in PageProperty : Run(p, property[p]) \subseteq FreePage
      /\ \A p, q \in PageProperty : p < q => p + property[p] <= q
      /\ \A f \in FreePage : f \in Int /\ \E p \in PageProperty : f \in Run(p, property[p])
  BY Facts DEF Tiling, Tiled, FreePage
<1>2. ASSUME NEW p \in PageProperty PROVE p - 1 \notin FreePage
  <2> SUFFICES ASSUME p - 1 \in FreePage PROVE FALSE
    OBVIOUS
  <2>1. PICK q \in PageProperty : p - 1 \in Run(q, property[q])
    BY <1>1
  <2>2. p \in Int /\ q \in Int /\ property[q] \in Int
    BY <1>1
  <2>3. q < p /\ p <= q + property[q]
    BY <2>1, <2>2 DEF Run
  <2>4. q + property[q] <= p
    BY <2>3, <1>1
  <2> QED BY <2>2, <2>3, <2>4, <1>0
<1>3. ASSUME NEW p \in FreePage, p - 1 \notin FreePage PROVE p \in PageProperty
  <2>1. PICK q \in PageProperty : p \in Run(q, property[q])
    BY <1>1
  <2>2. p \in Int /\ q \in Int /\ property[q] \in Int
    BY <1>1
  <2>3. p - 1 \notin Run(q, property[q])
    BY <1>1, <1>3
  <2>4. p = q
    BY <2>1, <2>2, <2>3 DEF Run
  <2> QED BY <2>4
<1>4. PageProperty = {p \in FreePage : p - 1 \notin FreePage}
  BY <1>1, <1>2, <1>3
<1>5. ASSUME NEW p \in PageProperty PROVE p + property[p] \notin FreePage
  BY <1>0, TileEnd, Facts
<1>6. ASSUME NEW p \in PageProperty \cup {head}
      PROVE  LET q == free_list.next[p]
             IN  /\ q \in PageProperty \cup {head} /\ free_list.prev[q] = p
                 /\ \A r \in PageProperty :
                       /\ p # head => ~(p < r /\ r < q)
                       /\ p = head => q <= r
  <2>1. free_list.next[p] \in PageProperty \cup {head} /\ free_list.prev[free_list.next[p]] = p
    BY <1>0 DEF PmmInv, IsList
  <2>2. ASSUME NEW r \in PageProperty, p # head, p < r PROVE ~(r < free_list.next[p])
    <3>1. free_list.next[p] <= r
      BY <2>2, <1>0 DEF PmmInv, IsSorted
    <3> QED BY <3>1, <2>1, Facts
  <2>3. ASSUME NEW r \in PageProperty, p = head PROVE free_list.next[p] <= r
    BY <2>3, <1>0 DEF PmmInv, IsSorted
  <2> QED BY <2>1, <2>2, <2>3
<1> QED BY <1>1, <1>4, <1>5, <1>6

\* The invariant holds in every state of a machine with memory to spare.
THEOREM PmmInvariant == SpareSpec => []PmmInv
<1> QED BY InitStep, PmmStep, PTL DEF SpareSpec

\* Between two calls of default_alloc_pages() and default_free_pages() the list
\* holds exactly the maximal runs of free pages in order of address, and
\* nr_free counts them, for every number of pages.
THEOREM FreeListIsExact == SpareSpec => []FreeListExact
<1> QED BY PmmInvariant, PmmInvExact, PTL

\* No page is handed out twice, unless a request takes the last page.
THEOREM NoPageTwice == SpareSpec => []NoDoubleAlloc
<1>1. PmmInv => NoDoubleAlloc
  BY DEF PmmInv, Held, NoDoubleAlloc
<1> QED BY <1>1, PmmInvariant, PTL

\* The walks, splits and merges of default_pmm.c implement the abstract
\* first-fit allocator: each call returns the lowest fit, or NULL only if there
\* is none, and no assertion fails, for every number of pages.
THEOREM ImplementsFirstFit == SpareSpec => FirstFitCorrect
<1>1. PmmInv => pc # "panic"
  BY DEF PmmInv
<1> QED BY <1>1, InitStep, PmmStep, PmmInvariant, PTL DEF SpareSpec, FirstFitCorrect, Promise!Spec
=============================================================================
