-------------------------------- MODULE Pmm --------------------------------
(***************************************************************************)
(* The first-fit page allocator of kern/mm/default_pmm.c, behind           *)
(* alloc_pages() and free_pages() of kern/mm/pmm.c.  A step of a loop over *)
(* free_list is a step here.  Interrupts are masked during a call, so      *)
(* there is one call at a time.                                            *)
(*                                                                         *)
(* Pages are numbered from the first one that page_init() hands out.  A    *)
(* client may free any run of pages it holds, as default_check() does.     *)
(***************************************************************************)
EXTENDS Integers, FiniteSets, List

CONSTANTS NPage, NULL

ASSUME PageAssumption == NPage \in Nat \ {0} /\ NULL \notin Int

Page == 0 .. NPage - 1
head == NPage           \* &free_list
Run(base, n) == base .. base + n - 1

VARIABLES
    free_list,      \* the links of the list and of page->page_link
    property,       \* page->property
    PageProperty,   \* the pages with the flag PG_property
    nr_free,
    held,           \* how often a page is handed out: more than 1 is a bug
    pc,             \* where the call in progress is
    le,             \* the local variables of the call:
    base,
    n,
    result          \* what the last call returned; NULL after free_pages()

areaVars == <<free_list, property, PageProperty, nr_free>>
callVars == <<le, base, n>>
vars == <<free_list, property, PageProperty, nr_free, held, pc, le, base, n, result>>

\* page_init() has called init_memmap() for all pages: one free block.
Init ==
    /\ free_list = [next |-> [e \in 0 .. NPage |-> IF e = head THEN 0 ELSE head],
                    prev |-> [e \in 0 .. NPage |-> IF e = head THEN 0 ELSE head]]
    /\ property = [p \in Page |-> IF p = 0 THEN NPage ELSE 0]
    /\ PageProperty = {0}
    /\ nr_free = NPage
    /\ held = [p \in Page |-> 0]
    /\ pc = "idle" /\ le = head /\ base = 0 /\ n = 0
    /\ result = NULL

-----------------------------------------------------------------------------
\* default_alloc_pages(k): NULL at once if there are not enough pages.
AllocCall(k) ==
    /\ pc = "idle"
    /\ IF k > nr_free
       THEN result' = NULL /\ UNCHANGED <<pc, callVars>>
       ELSE /\ pc' = "alloc" /\ n' = k
            /\ le' = free_list.next[head]
            /\ UNCHANGED <<base, result>>
    /\ UNCHANGED <<areaVars, held>>

\* The block is too small.  Mutation: the loop stays where it is.
MutStay ==
    /\ pc = "alloc" /\ le # head /\ property[le] < n
    /\ le' = le
    /\ UNCHANGED <<areaVars, held, pc, base, n, result>>
AllocNext ==
    /\ pc = "alloc" /\ le # head /\ property[le] < n
    /\ le' = free_list.next[le]
    /\ UNCHANGED <<areaVars, held, pc, base, n, result>>

AllocFail ==
    /\ pc = "alloc" /\ le = head
    /\ pc' = "idle" /\ n' = 0 /\ result' = NULL
    /\ UNCHANGED <<areaVars, held, le, base>>

\* The first n pages of the block at le are taken off the list, the rest
\* becomes a block in its place.  Mutation: the rest is lost.
MutNoSplit ==
    /\ free_list' = list_del(free_list, le)
    /\ PageProperty' = PageProperty \ {le}
    /\ UNCHANGED property
Split ==
    LET prev == free_list.prev[le]
        rest == le + n
        unlinked == list_del(free_list, le)
    IN  IF property[le] > n
        THEN /\ free_list' = list_add_after(unlinked, prev, rest)
             /\ property' = [property EXCEPT ![rest] = property[le] - n]
             /\ PageProperty' = (PageProperty \cup {rest}) \ {le}
        ELSE /\ free_list' = unlinked
             /\ PageProperty' = PageProperty \ {le}
             /\ UNCHANGED property

\* The first block that is large enough.
AllocTake ==
    /\ pc = "alloc" /\ le # head /\ property[le] >= n
    /\ Split
    /\ nr_free' = nr_free - n
    /\ held' = [p \in Page |-> IF p \in Run(le, n) THEN held[p] + 1 ELSE held[p]]
    /\ pc' = "idle" /\ le' = head /\ n' = 0 /\ result' = le
    /\ UNCHANGED base

-----------------------------------------------------------------------------
\* default_free_pages(b, k): a page with the flag PG_property fails an
\* assertion.  The block goes into an empty list at once.
FreeCall(b, k) ==
    /\ pc = "idle"
    /\ Run(b, k) \subseteq {p \in Page : held[p] > 0}
    /\ property' = [property EXCEPT ![b] = k]
    /\ PageProperty' = PageProperty \cup {b}
    /\ nr_free' = nr_free + k
    /\ held' = [p \in Page |-> IF p \in Run(b, k) THEN held[p] - 1 ELSE held[p]]
    /\ base' = b
    /\ IF list_empty(free_list, head)
       THEN free_list' = list_add_after(free_list, head, b) /\ le' = head
       ELSE le' = free_list.next[head] /\ UNCHANGED free_list
    /\ pc' = IF Run(b, k) \cap PageProperty # {} THEN "panic"
             ELSE IF list_empty(free_list, head) THEN "merge_prev" ELSE "free"
    /\ result' = NULL /\ n' = n

\* One round of the loop: the block goes before the first block above it, or
\* after the last one.  In that case the loop goes on, with the block itself.
FreeNext ==
    /\ pc = "free"
    /\ IF le = head THEN pc' = "merge_prev" /\ UNCHANGED <<free_list, le>>
       ELSE IF base < le
       THEN /\ free_list' = list_add_before(free_list, le, base)
            /\ pc' = "merge_prev" /\ le' = head
       ELSE /\ free_list' = IF free_list.next[le] = head
                            THEN list_add_after(free_list, le, base) ELSE free_list
            /\ le' = free_list'.next[le]
            /\ pc' = pc
    /\ UNCHANGED <<property, PageProperty, nr_free, held, base, n, result>>

\* Blocks p and q, in this order, become one.
Merged(p, q) ==
    /\ property' = [property EXCEPT ![p] = property[p] + property[q]]
    /\ PageProperty' = PageProperty \ {q}
    /\ free_list' = list_del(free_list, q)

\* Merge with the block before.  Mutation: the last page of that block is
\* taken for the first one after it.
MutMergePrev ==
    /\ pc = "merge_prev"
    /\ LET p == free_list.prev[base]
       IN  IF p # head /\ p + property[p] - 1 = base
           THEN Merged(p, base) /\ base' = p
           ELSE UNCHANGED <<property, PageProperty, free_list, base>>
    /\ pc' = "merge_next"
    /\ UNCHANGED <<nr_free, held, le, n, result>>
MergePrev ==
    /\ pc = "merge_prev"
    /\ LET p == free_list.prev[base]
       IN  IF p # head /\ p + property[p] = base
           THEN Merged(p, base) /\ base' = p
           ELSE UNCHANGED <<property, PageProperty, free_list, base>>
    /\ pc' = "merge_next"
    /\ UNCHANGED <<nr_free, held, le, n, result>>

MergeNext ==
    /\ pc = "merge_next"
    /\ LET p == free_list.next[base]
       IN  IF p # head /\ base + property[base] = p
           THEN Merged(base, p)
           ELSE UNCHANGED <<property, PageProperty, free_list>>
    /\ pc' = "idle" /\ base' = 0
    /\ UNCHANGED <<nr_free, held, le, n, result>>

Panic == pc = "panic" /\ UNCHANGED vars

-----------------------------------------------------------------------------
Scan == \/ AllocNext \/ AllocFail \/ AllocTake
        \/ FreeNext \/ MergePrev \/ MergeNext
Free == \E b \in Page, k \in 1 .. NPage : FreeCall(b, k)

Next == (\E k \in 1 .. NPage : AllocCall(k)) \/ Free \/ Scan \/ Panic
Spec == Init /\ [][Next]_vars

\* A machine with memory to spare: no request has to take the last page.
\* FreeNext then never appends, which it does wrongly (see NoDoubleAlloc).
Fits(k) == {b \in Page : \A p \in Run(b, k) : p \in Page /\ held[p] = 0}
Spare(k) == Fits(k) # {} => \E b \in Fits(k) : b + k < NPage
SpareNext == (\E k \in 1 .. NPage : Spare(k) /\ AllocCall(k)) \/ Free \/ Scan
SpareSpec == Init /\ [][SpareNext]_vars /\ WF_vars(Scan)

-----------------------------------------------------------------------------
\* Every variable keeps a value of its C type; nr_free does not wrap around.
TypeOK ==
    /\ free_list.next \in [0 .. NPage -> 0 .. NPage]
    /\ free_list.prev \in [0 .. NPage -> 0 .. NPage]
    /\ property \in [Page -> 0 .. NPage]
    /\ PageProperty \subseteq Page
    /\ nr_free \in 0 .. NPage
    /\ held \in [Page -> Nat]
    /\ pc \in {"idle", "alloc", "free", "merge_prev", "merge_next", "panic"}
    /\ le \in 0 .. NPage /\ base \in Page /\ n \in 0 .. NPage
    /\ result \in Page \cup {NULL}

FreePage == {p \in Page : held[p] = 0}

\* Between two calls free_list links the maximal runs of free pages, in order
\* of address, and nothing else: after any sequence of calls no page is lost,
\* in two blocks, or left unmerged, and nr_free is their number, as
\* default_check() asserts.  At all times the variables have their types.
FreeListExact ==
    /\ TypeOK
    /\ pc = "idle" =>
          /\ nr_free = Cardinality(FreePage)
          /\ PageProperty = {p \in FreePage : p - 1 \notin FreePage}
          /\ \A p \in PageProperty :
                /\ Run(p, property[p]) \subseteq FreePage
                /\ p + property[p] \notin FreePage
          /\ \A p \in PageProperty \cup {head} :
                LET q == free_list.next[p]
                IN  /\ q \in PageProperty \cup {head} /\ free_list.prev[q] = p
                    /\ \A r \in PageProperty :
                          /\ p # head => ~(p < r /\ r < q)
                          /\ p = head => q <= r

\* "assert(p0 != p1 && p0 != p2 && p1 != p2)" (basic_check): a page that is in
\* use is not handed out again.
NoDoubleAlloc == \A p \in Page : held[p] <= 1

\* The allocator implements first fit: it returns the lowest run of pages that
\* nobody holds, and NULL only if there is none; it never panics.
Promise == INSTANCE FirstFit WITH free <- FreePage
FirstFitCorrect == Promise!Spec /\ [](pc # "panic")

\* A call returns: the walks along free_list come to an end.
CallReturns == pc # "idle" ~> pc = "idle"
=============================================================================
