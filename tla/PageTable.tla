----------------------------- MODULE PageTable -----------------------------
(***************************************************************************)
(* The three-level page tables of kern/mm/pmm.c as operators on the        *)
(* physical memory m, a record of                                          *)
(*    use     what a page is used for; the code keeps no such field        *)
(*    ref     page->ref                                                    *)
(*    entry   the entries of a page that is a table                        *)
(*    data    the bytes of a page that is not                              *)
(* Addresses are byte addresses of the user half.  A page holds PGSIZE     *)
(* bytes or NEntry entries.                                                *)
(*                                                                         *)
(* alloc_page() and free_page() are what FirstFit promises of single pages:*)
(* the lowest free page, and a set of pages made free.  default_pmm.c keeps*)
(* that promise while the last page of memory stays free (module Pmm); once*)
(* that page was handed out, default_free_pages() may link a block to      *)
(* itself, lose pages and hand out others twice (run pmm_last_page), which *)
(* is not modelled here.                                                   *)
(***************************************************************************)
EXTENDS Integers, FiniteSets

CONSTANTS NPage, NEntry, PGSIZE, NULL

\* check_pgdir() asserts that it gets two pages and the two tables for them.
ASSUME PageTableAssumption ==
    /\ NPage \in Nat /\ NPage >= 4 /\ NEntry \in Nat \ {0} /\ PGSIZE \in Nat \ {0}
    /\ NULL \notin Int

Page == 0 .. NPage - 1
boot_pgdir == NPage     \* boot_page_table_sv39, which is part of the kernel
Index == 0 .. NEntry - 1

PTSIZE == NEntry * PGSIZE
PDSIZE == NEntry * PTSIZE
PTX(la) == (la \div PGSIZE) % NEntry
PDX0(la) == (la \div PTSIZE) % NEntry
PDX1(la) == la \div PDSIZE
ROUNDDOWN(a, n) == a - (a % n)
ROUNDUP(a, n) == ROUNDDOWN(a + n - 1, n)

\* The pages of an interval of addresses.
PagesOf(start, end) == {la \in start .. end - 1 : la % PGSIZE = 0}

\* An entry is NULL (PTE_V not set), or a page and the other PTE_USER bits.
Perm == SUBSET {"R", "W", "X", "U"}
PTE_USER == {"R", "W", "X", "U"}
pte_create(p, perm) == [page |-> p, perm |-> perm]
PTE == [page : Page, perm : Perm] \cup {NULL}
NoEntries == [i \in Index |-> NULL]

Free(m) == {p \in Page : m.use[p] = "free"}

\* alloc_page(): only if Free(m) # {}.  First fit, for one page.
alloc_page(m) == CHOOSE p \in Free(m) : \A q \in Free(m) : p <= q
Used(m, p, use) == [m EXCEPT !.use[p] = use]

\* What a free page holds is of no interest, and a new page holds anything:
\* entries that look valid, and bytes that are none of a program.
JunkEntries(p) == [i \in Index |-> pte_create(p, PTE_USER)]
JunkBytes == [b \in 0 .. PGSIZE - 1 |-> -1]

\* free_page() of all pages of S, by an allocator that is intact.
free_page(m, S) ==
    [use |-> [p \in Page |-> IF p \in S THEN "free" ELSE m.use[p]],
     ref |-> [p \in Page |-> IF p \in S THEN 0 ELSE m.ref[p]],
     entry |-> [t \in DOMAIN m.entry |-> IF t \in S THEN JunkEntries(t) ELSE m.entry[t]],
     data |-> [p \in Page |-> IF p \in S THEN JunkBytes ELSE m.data[p]]]

-----------------------------------------------------------------------------
\* One level of get_pte(): the table below entry i of table t, which is made
\* if there is none and `create' says so.  Mutation: a new table is not
\* cleared.
MutNotCleared(m, t, i, use, create) ==
    IF m.entry[t][i] # NULL THEN [mem |-> m, table |-> m.entry[t][i].page]
    ELSE IF ~create \/ Free(m) = {} THEN [mem |-> m, table |-> NULL]
    ELSE LET p == alloc_page(m)
         IN  [mem |-> [Used(m, p, use) EXCEPT !.ref[p] = 1,
                                              !.entry[t][i] = pte_create(p, {"U"})],
              table |-> p]
level(m, t, i, use, create) ==
    IF m.entry[t][i] # NULL THEN [mem |-> m, table |-> m.entry[t][i].page]
    ELSE IF ~create \/ Free(m) = {} THEN [mem |-> m, table |-> NULL]
    ELSE LET p == alloc_page(m)
         IN  [mem |-> [Used(m, p, use) EXCEPT !.ref[p] = 1,
                                              !.entry[p] = NoEntries,
                                              !.entry[t][i] = pte_create(p, {"U"})],
              table |-> p]

\* get_pte(): the page table that holds the entry of la, or NULL.  When the
\* second level cannot be made the first one stays.
get_pte(m, pgdir, la, create) ==
    LET d == level(m, pgdir, PDX1(la), "pd0", create)
    IN  IF d.table = NULL THEN d
        ELSE level(d.mem, d.table, PDX0(la), "pt", create)

\* The entry of la, NULL if there is no page table for it.
Below(m, e, i) == IF e = NULL THEN NULL ELSE m.entry[e.page][i]
pte(m, pgdir, la) ==
    Below(m, Below(m, m.entry[pgdir][PDX1(la)], PDX0(la)), PTX(la))

\* page_remove_pte(), for a valid entry i of table t.
page_remove_pte(m, t, i) ==
    LET p == m.entry[t][i].page
        dec == [m EXCEPT !.ref[p] = @ - 1, !.entry[t][i] = NULL]
    IN  IF dec.ref[p] = 0 THEN free_page(dec, {p}) ELSE dec

page_remove(m, pgdir, la) ==
    IF pte(m, pgdir, la) = NULL THEN m
    ELSE page_remove_pte(m, get_pte(m, pgdir, la, FALSE).table, PTX(la))

\* page_insert(): map page p at la; what was there before is removed.
page_insert(m, pgdir, p, la, perm) ==
    LET g == get_pte(m, pgdir, la, TRUE)
        old == g.mem.entry[g.table][PTX(la)]
        inc == [g.mem EXCEPT !.ref[p] = @ + 1]
        cleared == IF old = NULL THEN inc
                   ELSE IF old.page = p THEN g.mem
                   ELSE page_remove_pte(inc, g.table, PTX(la))
    IN  IF g.table = NULL THEN [mem |-> g.mem, ok |-> FALSE]
        ELSE [mem |-> [cleared EXCEPT !.entry[g.table][PTX(la)] = pte_create(p, perm)],
              ok |-> TRUE]

\* pgdir_alloc_page(): map a new page at la.  The page goes back when no
\* table can be made for it.
pgdir_alloc_page(m, pgdir, la, perm) ==
    IF Free(m) = {} THEN [mem |-> m, page |-> NULL]
    ELSE LET p == alloc_page(m)
             r == page_insert(Used(m, p, "user"), pgdir, p, la, perm)
         IN  IF r.ok THEN [mem |-> r.mem, page |-> p]
             ELSE [mem |-> free_page(r.mem, {p}), page |-> NULL]

-----------------------------------------------------------------------------
\* unmap_range(): every page mapped in the interval is removed.  (The loop
\* goes over a region without a page table in one round.)
\* Mutation: the last page is forgotten.
MutUnmapShort(m, pgdir, start, end) ==
    LET gone == {la \in PagesOf(start, end - PGSIZE) : pte(m, pgdir, la) # NULL}
        slots == {<<get_pte(m, pgdir, la, FALSE).table, PTX(la)>> : la \in gone}
        uses(p) == Cardinality({s \in slots : m.entry[s[1]][s[2]].page = p})
        cleared == [m EXCEPT
            !.ref = [p \in Page |-> @[p] - uses(p)],
            !.entry = [t \in DOMAIN @ |-> [i \in Index |->
                          IF <<t, i>> \in slots THEN NULL ELSE @[t][i]]]]
    IN  free_page(cleared, {p \in Page : uses(p) > 0 /\ cleared.ref[p] = 0})
unmap_range(m, pgdir, start, end) ==
    LET gone == {la \in PagesOf(start, end) : pte(m, pgdir, la) # NULL}
        slots == {<<get_pte(m, pgdir, la, FALSE).table, PTX(la)>> : la \in gone}
        uses(p) == Cardinality({s \in slots : m.entry[s[1]][s[2]].page = p})
        cleared == [m EXCEPT
            !.ref = [p \in Page |-> @[p] - uses(p)],
            !.entry = [t \in DOMAIN @ |-> [i \in Index |->
                          IF <<t, i>> \in slots THEN NULL ELSE @[t][i]]]]
    IN  free_page(cleared, {p \in Page : uses(p) > 0 /\ cleared.ref[p] = 0})

\* The entries of level 0 directory d1 that exit_range() visits.
Visited(d1, start, end) ==
    {PDX0(la) : la \in {a \in d1 * PDSIZE .. (d1 + 1) * PDSIZE - 1 :
                            ROUNDDOWN(start, PTSIZE) <= a /\ a < end}}

\* exit_range(): a page table without valid entries is freed.  The level 0
\* directory is freed if no visited entry was invalid, whatever its other
\* entries are.
exit_range(m, pgdir, start, end) ==
    LET dirs == {d1 \in Index : Visited(d1, start, end) # {} /\ m.entry[pgdir][d1] # NULL}
        pd0(d1) == m.entry[pgdir][d1].page
        valid(d1) == {i \in Visited(d1, start, end) : m.entry[pd0(d1)][i] # NULL}
        empty(d1) == {i \in valid(d1) : m.entry[m.entry[pd0(d1)][i].page] = NoEntries}
        free_pd0 == {d1 \in dirs : valid(d1) = Visited(d1, start, end)}
        pts == UNION {{m.entry[pd0(d1)][i].page : i \in empty(d1)} : d1 \in dirs}
        cleared == [m EXCEPT !.entry = [t \in DOMAIN @ |-> [i \in Index |->
            IF \/ t = pgdir /\ i \in free_pd0
               \/ \E d1 \in dirs : t = pd0(d1) /\ i \in empty(d1)
            THEN NULL ELSE @[t][i]]]]
    IN  free_page(cleared, pts \cup {pd0(d1) : d1 \in free_pd0})
=============================================================================
