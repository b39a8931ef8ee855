------------------------------ MODULE Kmalloc ------------------------------
(***************************************************************************)
(* The kernel heap, kern/mm/kmalloc.c: small blocks come from a circular   *)
(* list of free blocks ordered by address, large ones are pages and are    *)
(* recorded in the list bigblocks.                                         *)
(*                                                                         *)
(* Addresses count units of SLOB_UNIT bytes from the first page; the       *)
(* variable `arena' lies elsewhere, below all pages.  Interrupts are       *)
(* masked in the loops and the kernel does not schedule() in them, so one  *)
(* call runs at a time; a step is one round of a loop.  All calls pass     *)
(* align = 0, so that no block is fragmented at its head.                  *)
(***************************************************************************)
EXTENDS Integers, Sequences, FiniteSets, FiniteSetsExt

CONSTANTS
    NPage,              \* the pages the allocator of pages may hand out
    PAGE_SIZE,          \* in bytes
    SLOB_UNIT,          \* in bytes, the size of the header slob_t
    BigblockSize,       \* sizeof(bigblock_t)
    Sizes,              \* the arguments of kmalloc() that are tried
    MaxOrder,           \* the highest order a size can have (19 for an int)
    NULL

ASSUME KmallocAssumption ==
    /\ {NPage, PAGE_SIZE, SLOB_UNIT, BigblockSize} \subseteq Nat \ {0}
    /\ PAGE_SIZE % SLOB_UNIT = 0 /\ SLOB_UNIT < BigblockSize
    /\ BigblockSize + SLOB_UNIT < PAGE_SIZE
    /\ Sizes \subseteq Nat \ {0}
    /\ NULL \notin Int

\* A size shifted right MaxOrder times is at most a page.
ASSUME OrderAssumption ==
    /\ MaxOrder \in Nat
    /\ \A k \in 0 .. MaxOrder : 2 ^ k \in Nat \ {0}
    /\ \A n \in Sizes : n \div 2 ^ MaxOrder <= PAGE_SIZE

\* Mutation: rounded down.
MutUnitsDown(bytes) == bytes \div SLOB_UNIT
SLOB_UNITS(bytes) == (bytes + SLOB_UNIT - 1) \div SLOB_UNIT
PageUnits == PAGE_SIZE \div SLOB_UNIT
Page == 0 .. NPage - 1
Top == NPage * PageUnits
arena == -2
Addr == {arena} \cup 0 .. Top - 1

VARIABLES
    units,      \* the fields of the block at an address; 0 and NULL where no
    next,       \* header is
    slobfree,   \* where the next search begins
    bigblocks,  \* [bb, pages, order], the newest first
    used,       \* the pages taken from the allocator of pages
    held,       \* what the callers of kmalloc() hold: [at, size]
    pc, call    \* where the call in progress is, and its variables

heap == <<units, next, slobfree>>
vars == <<heap, bigblocks, used, held, pc, call>>

\* size     the argument of kmalloc()       want     units, in slob_alloc()
\* b        the block to free, or found     grown    how often the heap grew
\* then     what follows slob_free()
NoCall == [size |-> 0, want |-> 0, prev |-> NULL, cur |-> NULL, b |-> NULL,
           then |-> "idle", grown |-> 0]

Init ==
    /\ units = [a \in Addr |-> IF a = arena THEN 1 ELSE 0]
    /\ next = [a \in Addr |-> IF a = arena THEN arena ELSE NULL]
    /\ slobfree = arena /\ bigblocks = <<>> /\ used = {} /\ held = {}
    /\ pc = "idle" /\ call = NoCall

\* alloc_pages(): where first fit finds n pages; see module Pmm.
Fits(n) == {p \in Page : p + n <= NPage /\ (p .. p + n - 1) \cap used = {}}

\* slob_alloc() begins.
SlobAlloc(bytes, size) ==
    IF bytes + SLOB_UNIT < PAGE_SIZE
    THEN /\ pc' = "alloc"
         /\ call' = [NoCall EXCEPT !.size = size, !.want = SLOB_UNITS(bytes),
                                   !.prev = slobfree, !.cur = next[slobfree]]
    ELSE pc' = "panic" /\ call' = [NoCall EXCEPT !.size = size]

\* __kmalloc()
IsSmall(size) == size < PAGE_SIZE - SLOB_UNIT
kmalloc(size) ==
    /\ pc = "idle"
    /\ SlobAlloc(IF IsSmall(size) THEN size + SLOB_UNIT ELSE BigblockSize, size)
    /\ UNCHANGED <<heap, bigblocks, used, held>>

Return == pc' = "idle" /\ call' = NoCall

-----------------------------------------------------------------------------
\* slob_free(b, bytes) begins; bytes = 0 keeps the units of the header.
SlobFree(b, bytes, then) ==
    /\ units' = [units EXCEPT ![b] = IF bytes = 0 THEN @ ELSE SLOB_UNITS(bytes)]
    /\ pc' = "free"
    /\ call' = [call EXCEPT !.b = b, !.cur = slobfree, !.then = then]
    /\ UNCHANGED <<next, slobfree>>

\* Does the block to be freed go behind cur?  Mutation: the end of the list is
\* not looked for.
MutNoWrap(b, cur) == (b > cur /\ b < next[cur]) \/ cur = next[cur]
GoesBehind(b, cur) ==
    \/ b > cur /\ b < next[cur]
    \/ cur >= next[cur] /\ (b > cur \/ b < next[cur])

FreeNext ==
    /\ pc = "free" /\ ~GoesBehind(call.b, call.cur)
    /\ call' = [call EXCEPT !.cur = next[@]]
    /\ UNCHANGED <<heap, bigblocks, used, held, pc>>

\* The block b is linked behind cur, and united with its neighbours.
\* Mutation: not with the one below.
MutNoJoinBelow(b, cur) ==
    LET above == next[cur]
        joinAbove == b + units[b] = above
    IN  /\ units' = [a \in Addr |-> CASE a = b /\ joinAbove -> units[b] + units[above]
                                      [] a = above /\ joinAbove -> 0
                                      [] OTHER -> units[a]]
        /\ next' = [a \in Addr |-> CASE a = cur -> b
                                     [] a = b -> IF joinAbove THEN next[above] ELSE above
                                     [] a = above /\ joinAbove -> NULL
                                     [] OTHER -> next[a]]
Linked(b, cur) ==
    LET above == next[cur]
        joinAbove == b + units[b] = above
        joinBelow == cur + units[cur] = b
        size == units[b] + IF joinAbove THEN units[above] ELSE 0
        after == IF joinAbove THEN next[above] ELSE above
    IN  /\ units' = [a \in Addr |-> CASE a = cur /\ joinBelow -> units[cur] + size
                                      [] a = b -> IF joinBelow THEN 0 ELSE size
                                      [] a = above /\ joinAbove -> 0
                                      [] OTHER -> units[a]]
        /\ next' = [a \in Addr |-> CASE a = cur -> IF joinBelow THEN after ELSE b
                                     [] a = b -> IF joinBelow THEN NULL ELSE after
                                     [] a = above /\ joinAbove -> NULL
                                     [] OTHER -> next[a]]

\* The end of slob_free().  When slob_alloc() has grown the heap, its search
\* goes on behind slobfree.
FreeLink ==
    /\ pc = "free" /\ GoesBehind(call.b, call.cur)
    /\ Linked(call.b, call.cur)
    /\ slobfree' = call.cur
    /\ IF call.then = "alloc"
       THEN pc' = "alloc" /\ call' = [call EXCEPT !.prev = slobfree', !.b = NULL,
                                                  !.cur = next'[slobfree'], !.then = "idle"]
       ELSE Return
    /\ UNCHANGED <<bigblocks, used, held>>

-----------------------------------------------------------------------------
\* The block searched for is taken whole, or its lower part.
Taken(prev, cur, want) ==
    LET rest == cur + want
    IN  IF units[cur] = want
        THEN /\ next' = [next EXCEPT ![prev] = next[cur], ![cur] = NULL]
             /\ UNCHANGED units
        ELSE /\ units' = [units EXCEPT ![rest] = units[cur] - want, ![cur] = want]
             /\ next' = [next EXCEPT ![prev] = rest, ![rest] = next[cur], ![cur] = NULL]

AllocTake ==
    /\ pc = "alloc" /\ units[call.cur] >= call.want
    /\ Taken(call.prev, call.cur, call.want)
    /\ slobfree' = call.prev
    /\ IF IsSmall(call.size)
       THEN held' = held \cup {[at |-> call.cur + 1, size |-> call.size]} /\ Return
       ELSE held' = held /\ pc' = "big" /\ call' = [call EXCEPT !.b = call.cur]
    /\ UNCHANGED <<bigblocks, used>>

\* Where the search ends without a block.  Mutation: one block too early, so
\* that the heap grows before the block at slobfree is looked at.
MutEnd == next[call.cur] = slobfree
AtEnd == call.cur = slobfree

AllocNext ==
    /\ pc = "alloc" /\ units[call.cur] < call.want /\ ~AtEnd
    /\ call' = [call EXCEPT !.prev = call.cur, !.cur = next[call.cur]]
    /\ UNCHANGED <<heap, bigblocks, used, held, pc>>

\* Back where it began, the search adds a page to the heap, or gives up.
AllocGrow ==
    /\ pc = "alloc" /\ units[call.cur] < call.want /\ AtEnd
    /\ Fits(1) # {}
    /\ LET p == Min(Fits(1))
           b == p * PageUnits
       IN  /\ used' = used \cup {p}
           /\ units' = [units EXCEPT ![b] = SLOB_UNITS(PAGE_SIZE)]
           /\ call' = [call EXCEPT !.b = b, !.cur = slobfree, !.then = "alloc",
                                   !.grown = @ + 1]
    /\ pc' = "free"
    /\ UNCHANGED <<next, slobfree, bigblocks, held>>

AllocFail ==
    /\ pc = "alloc" /\ units[call.cur] < call.want /\ AtEnd
    /\ Fits(1) = {}
    /\ Return
    /\ UNCHANGED <<heap, bigblocks, used, held>>

\* find_order(): how often size is shifted right until it is at most a page.
find_order(size) == Min({k \in 0 .. MaxOrder : size \div 2 ^ k <= PAGE_SIZE})

\* A large block: pages, recorded in the block b that was taken for it.
Big ==
    /\ pc = "big"
    /\ LET order == find_order(call.size)
           fits == Fits(2 ^ order)
       IN  IF fits = {}
           THEN /\ SlobFree(call.b, BigblockSize, "idle")
                /\ UNCHANGED <<bigblocks, used, held>>
           ELSE LET p == Min(fits)
                IN  /\ bigblocks' = <<[bb |-> call.b, pages |-> p, order |-> order]>> \o bigblocks
                    /\ used' = used \cup (p .. p + 2 ^ order - 1)
                    /\ held' = held \cup {[at |-> p * PageUnits, size |-> call.size]}
                    /\ Return
                    /\ UNCHANGED heap

\* kfree(): a block at the start of a page may be a large one.
Record(at) == {k \in DOMAIN bigblocks : bigblocks[k].pages * PageUnits = at}
Unrecorded(k) == SubSeq(bigblocks, 1, k - 1) \o SubSeq(bigblocks, k + 1, Len(bigblocks))
kfree(block) ==
    /\ pc = "idle"
    /\ held' = held \ {block}
    /\ IF block.at % PageUnits = 0 /\ Record(block.at) # {}
       THEN LET k == Min(Record(block.at))
                r == bigblocks[k]
            IN  /\ bigblocks' = Unrecorded(k)
                /\ used' = used \ (r.pages .. r.pages + 2 ^ r.order - 1)
                /\ SlobFree(r.bb, BigblockSize, "idle")
       ELSE SlobFree(block.at - 1, 0, "idle") /\ UNCHANGED <<bigblocks, used>>

ksize(at) ==
    IF at % PageUnits = 0 /\ Record(at) # {}
    THEN PAGE_SIZE * 2 ^ bigblocks[Min(Record(at))].order
    ELSE units[at - 1] * SLOB_UNIT

\* A failed assertion stops the kernel.
Stopped == pc = "panic" /\ UNCHANGED vars

Run == AllocTake \/ AllocNext \/ AllocGrow \/ AllocFail \/ Big \/ FreeNext \/ FreeLink

Next == \/ \E n \in Sizes : kmalloc(n)
        \/ \E block \in held : kfree(block)
        \/ Run \/ Stopped

Spec == Init /\ [][Next]_vars /\ WF_vars(Run)

-----------------------------------------------------------------------------
\* Every variable has its type, and no block reaches past the last page.
TypeOK ==
    /\ units \in [Addr -> Nat] /\ next \in [Addr -> Addr \cup {NULL}]
    /\ \A a \in Addr : a + units[a] <= Top
    /\ slobfree \in Addr /\ used \subseteq Page
    /\ pc \in {"idle", "alloc", "free", "big", "panic"}

\* The blocks that are linked, and the free ones among them.
Ring == {a \in Addr : next[a] # NULL}
Free == Ring \ {arena}

\* The blocks in use: those of callers, with their headers, and the records.
Small == {h \in held : IsSmall(h.size)}
Records == {bigblocks[k] : k \in DOMAIN bigblocks}
InUse == {h.at - 1 : h \in Small} \cup {r.bb : r \in Records}

Extent(b) == b .. b + units[b] - 1
Pages(r) == r.pages .. r.pages + 2 ^ r.order - 1
BigPages == UNION {Pages(r) : r \in Records}
HeapUnits == {a \in Addr \ {arena} : a \div PageUnits \in used \ BigPages}

\* Between two calls every unit of the pages of the heap belongs to exactly one
\* block, in use or free.  The list leads from every block to the next free one
\* above it, and from the last to the arena, so that a search from anywhere
\* meets all of them; no two of them touch, so that what is given back serves
\* larger requests.  At all times no block reaches past the last page.
HeapExact ==
    /\ TypeOK
    /\ pc = "idle" =>
          /\ InUse \cap Free = {}
          /\ \A b, c \in InUse \cup Free : b # c => Extent(b) \cap Extent(c) = {}
          /\ UNION {Extent(b) : b \in InUse \cup Free} = HeapUnits
          /\ {slobfree, arena} \subseteq Ring
          /\ \A b \in Ring :
                /\ next[b] \in Ring
                /\ next[b] = arena => \A c \in Ring : c <= b
                /\ next[b] # arena => b < next[b] /\ \A c \in Ring : c <= b \/ next[b] <= c
          /\ \A b \in Free : next[b] = arena \/ b + units[b] < next[b]

\* The bytes a caller may use, and the sizes that find_order() halves without
\* losing the bit that makes another doubling necessary.
Room(h) == IF IsSmall(h.size) THEN (units[h.at - 1] - 1) * SLOB_UNIT ELSE ksize(h.at)
Exact(size) ==
    ~\E k \in 1 .. MaxOrder : PAGE_SIZE * 2 ^ k < size /\ size < (PAGE_SIZE + 1) * 2 ^ k

\* A block stays as large as it was asked for, whatever is allocated or freed
\* beside it, except that find_order() gives too few pages for sizes just
\* above a page doubled.  The assertion of slob_alloc() fails only for sizes between
\* two headers and one header below a page.
Served ==
    /\ \A h \in held : Exact(h.size) => Room(h) >= h.size
    /\ pc = "panic" => call.size \in PAGE_SIZE - 2 * SLOB_UNIT .. PAGE_SIZE - SLOB_UNIT - 1

\* One page is always enough: after the heap has grown, the search finds room
\* the next time round, wherever slob_free() left slobfree.
GrowsOnce == call.grown <= 1

\* Every call returns: the search and the walk to the place of a freed block
\* end, on every list that can arise.
CallReturns == pc = "alloc" \/ pc = "free" ~> pc \in {"idle", "panic"}
=============================================================================
