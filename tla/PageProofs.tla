----------------------------- MODULE PageProofs -----------------------------
(***************************************************************************)
(* Proofs about the areas and the page tables of the address spaces for    *)
(* every program, page size and number of pages, entries and processes.    *)
(*                                                                         *)
(* The areas stay apart, in order and in user memory; find_vma() finds the *)
(* area of an address whatever was found last; user_mem_check() says yes   *)
(* exactly for the intervals it should.                                    *)
(*                                                                         *)
(* At every step of every call the tables form trees, no page that is      *)
(* reachable is free, and every one has the count of its references.       *)
(***************************************************************************)
EXTENDS AddressSpace, FiniteSetTheorems, SequenceTheorems, WellFoundedInduction, TLAPS

-----------------------------------------------------------------------------
InUserMemory(vma) ==
    /\ UserBase <= vma.vm_start /\ vma.vm_start < vma.vm_end /\ vma.vm_end <= UserTop
    /\ vma.vm_start % PGSIZE = 0 /\ vma.vm_end % PGSIZE = 0

\* The areas are made of pages of user memory, apart, and in order of address.
Sorted(list) ==
    /\ \A k \in 1 .. Len(list) : InUserMemory(list[k])
    /\ \A j, k \in 1 .. Len(list) : j < k => list[j].vm_end <= list[k].vm_start

\* And the one found last is one of them.
IsSpace(sp) ==
    /\ sp \in mm_struct
    /\ Sorted(sp.mmap_list)
    /\ sp.mmap_cache # NULL => sp.mmap_cache \in Range(sp.mmap_list)

CallType == [proc : Space \cup {NULL}, src : Space \cup {NULL}, prog : Programs \cup {NULL},
             then : {"none", "load", "exited", "load_failed", "fork_failed"}, i : Nat,
             start : Int, end : Int, la : Int, page : Page \cup {NULL}, write : BOOLEAN]

Loading == {"segment", "file", "bss", "stack"}
Copying == {"dup", "copy"}
Checking == {"check", "yes", "no"}
Building == Loading \cup Copying \cup {"unmap", "exit_range"}

\* The address spaces of the processes, and the one a call works on.
Spaces ==
    /\ mm \in [Space -> mm_struct \cup {NULL}]
    /\ \A s \in Space : mm[s] # NULL => IsSpace(mm[s]) /\ pc \notin {"boot", "user_main"}
    /\ pc \in Building => work # NULL
    /\ work # NULL => IsSpace(work) /\ pc \in Building \cup {"panic"}

\* What the call in progress has as its variables.
Calling ==
    /\ pc # "boot" => call \in CallType
    /\ InCall => call.proc \in Space
    /\ pc \in Loading => call.prog \in Programs
    /\ pc \in {"file", "bss"} => call.i \in 1 .. Len(Segments)
    /\ pc \in Copying => /\ call.src \in Space /\ mm[call.src] # NULL
                         /\ call.i \in 0 .. Len(mm[call.src].mmap_list)
    /\ pc \in {"segment", "copy"} => call.i > 0
    /\ pc \in Building \cup {"load"} => mm[call.proc] = NULL

\* What user_mem_check() has looked at so far.
MemChecking ==
    /\ pc \in Checking => mm[call.proc] # NULL
    /\ pc = "check" =>
          /\ USER_ACCESS(call.la, call.end) /\ call.la <= call.start
          /\ \A a \in call.la .. call.end - 1 :
                a < call.start => Allowed(call.proc, a, call.write)

AreaInv == Spaces /\ Calling /\ MemChecking /\ MemCheckExact

-----------------------------------------------------------------------------
\* What the constants are.
LEMMA Constants ==
    /\ UserBase \in Nat \ {0} /\ UserTop \in Nat /\ StackSize \in Nat /\ StackMapped \in Nat
    /\ UserBase < UserTop - StackSize
    /\ PGSIZE \in Nat \ {0} /\ NULL \notin Space /\ user_main \in Space
    /\ NULL \notin vma_struct /\ NULL \notin mm_struct /\ NULL \notin [page : Page, perm : Perm]
    /\ \A prog \in Programs : prog.segments \in Seq(Segment)
<1>1. {UserBase, UserTop, StackSize, StackMapped} \subseteq Nat
  BY AddressSpaceAssumption
<1>2. NULL \notin vma_struct /\ NULL \notin mm_struct /\ NULL \notin [page : Page, perm : Perm]
  BY NullAssumption
<1>3. UserBase < UserTop - StackSize /\ 0 < UserBase /\ NULL \notin Space /\ user_main \in Space
  BY AddressSpaceAssumption
<1>4. \A prog \in Programs : prog.segments \in Seq(Segment)
  BY ProgramAssumption
<1>5. PGSIZE \in Nat \ {0}
  BY PageTableAssumption
<1>6. UserBase \in Nat \ {0} /\ UserTop \in Nat /\ StackSize \in Nat /\ StackMapped \in Nat
  BY <1>1, <1>3
<1> QED BY <1>2, <1>3, <1>4, <1>5, <1>6

\* ROUNDDOWN() and ROUNDUP() return multiples.
LEMMA Rounding ==
    ASSUME NEW a \in Nat
    PROVE  /\ ROUNDDOWN(a, PGSIZE) \in Nat /\ ROUNDDOWN(a, PGSIZE) % PGSIZE = 0
           /\ ROUNDUP(a, PGSIZE) \in Nat /\ ROUNDUP(a, PGSIZE) % PGSIZE = 0
<1>1. PICK d \in Nat \ {0} : d = PGSIZE
  BY Constants
<1>2. ASSUME NEW x \in Nat PROVE x - (x % d) \in Nat /\ (x - (x % d)) % d = 0
  <2>1. x = d * (x \div d) + (x % d) /\ x \div d \in Nat /\ x % d \in Nat
    OBVIOUS
  <2>2. d * (x \div d) \in Nat /\ (d * (x \div d)) % d = 0
    BY <2>1
  <2> QED BY <2>1, <2>2
<1>3. a + d - 1 \in Nat
  OBVIOUS
<1> QED BY <1>1, <1>2, <1>3 DEF ROUNDDOWN, ROUNDUP

\* A word is a number, and what fits into one is itself.
LEMMA Words ==
    /\ \A x \in Int : Word(x) \in Nat
    /\ \A x \in Nat : x < WordSize => Word(x) = x
    /\ WordSize \in Nat /\ UserTop + PGSIZE <= WordSize
<1>1. WordSize \in Nat /\ UserTop + PGSIZE <= WordSize
  BY AddressSpaceAssumption
<1>2. PICK d \in Nat \ {0} : d = WordSize
  BY <1>1, Constants
<1>3. \A x \in Int : x % d \in Nat
  OBVIOUS
<1>4. ASSUME NEW x \in Nat, x < d PROVE x % d = x
  <2>a. x = d * (x \div d) + (x % d)
    OBVIOUS
  <2>b. x % d \in 0 .. d - 1 /\ x \div d \in Nat
    OBVIOUS
  <2>c. PICK z \in Nat, r \in 0 .. d - 1 : z = x \div d /\ r = x % d
    BY <2>b
  <2>1. x = d * z + r /\ r < d /\ r = x % d
    BY <2>a, <2>c
  <2>2. CASE z = 0
    BY <2>1, <2>2
  <2>3. CASE z # 0
    <3>1. PICK y \in Nat : z = y + 1
      <4>1. z - 1 \in Nat
        BY <2>3
      <4> QED BY <4>1
    <3>2. d * z = d * y + d /\ d * y \in Nat
      BY <3>1
    <3> QED BY <1>4, <2>1, <3>2
  <2> QED BY <2>2, <2>3
<1> QED BY <1>1, <1>2, <1>3, <1>4 DEF Word

\* An end that does not wrap around is rounded up.
LEMMA EndOf ==
    ASSUME NEW addr \in Nat, NEW len \in Nat
    PROVE  /\ ROUNDDOWN(Word(addr + len + PGSIZE - 1), PGSIZE) \in Nat
           /\ ROUNDDOWN(Word(addr + len + PGSIZE - 1), PGSIZE) % PGSIZE = 0
           /\ addr + len + PGSIZE <= WordSize =>
                 ROUNDDOWN(Word(addr + len + PGSIZE - 1), PGSIZE) = ROUNDUP(addr + len, PGSIZE)
<1>1. PICK x \in Nat : x = addr + len + PGSIZE - 1
  BY Constants
<1>2. Word(x) \in Nat
  BY Words
<1>3. addr + len + PGSIZE <= WordSize => Word(x) = x
  BY <1>1, Words, Constants
<1> QED BY <1>1, <1>2, <1>3, Rounding DEF ROUNDUP

\* A set of numbers has a smallest one.
LEMMA Smallest ==
    ASSUME NEW S \in SUBSET Nat, S # {}
    PROVE  \E x \in S : \A y \in S : x <= y
<1> DEFINE T == {0 .. x - 1 : x \in S}
           R == StrictSubsetOrdering(Nat)
           F == FiniteSubsetsOf(Nat)
<1>1. T \subseteq F
  <2>1. \A x \in S : IsFiniteSet(0 .. x - 1)
    BY FS_Interval
  <2> QED BY <2>1 DEF FiniteSubsetsOf
<1>2. T # {}
  OBVIOUS
<1>3. PICK t \in T : \A u \in T : ~ (<<u, t>> \in R)
  <2> HIDE DEF T, R, F
  <2> QED BY <1>1, <1>2, FS_StrictSubsetOrderingWellFounded, WFMin DEF R, F
<1>4. PICK x \in S : t = 0 .. x - 1
  OBVIOUS
<1>5. ASSUME NEW y \in S, y < x PROVE FALSE
  <2>a. x \in Nat /\ y \in Nat
    OBVIOUS
  <2>1. 0 .. y - 1 \in T /\ 0 .. y - 1 \in SUBSET Nat /\ t \in SUBSET Nat
    <3>1. 0 .. y - 1 \in T
      OBVIOUS
    <3>2. 0 .. y - 1 \in SUBSET Nat /\ t \in SUBSET Nat
      BY <1>4, <2>a
    <3> QED BY <3>1, <3>2
  <2>2. 0 .. y - 1 \subseteq t /\ y \in t /\ y \notin 0 .. y - 1
    <3> HIDE DEF T, R, F
    <3> QED BY <1>4, <1>5, <2>a
  <2>3. <<0 .. y - 1, t>> \in R
    BY <2>1, <2>2 DEF StrictSubsetOrdering
  <2> QED BY <2>1, <2>3, <1>3
<1> QED BY <1>5

\* Min() and alloc_page() return an element.
LEMMA MinOf ==
    ASSUME NEW S \in SUBSET Nat, S # {}
    PROVE  Min(S) \in S /\ \A y \in S : Min(S) <= y
BY Smallest DEF Min

\* alloc_page() returns a free page.
LEMMA AllocPage ==
    ASSUME NEW m, Free(m) # {}
    PROVE  alloc_page(m) \in Free(m) /\ alloc_page(m) \in Page
<1>1. Free(m) \in SUBSET Nat /\ Free(m) \subseteq Page
  BY PageTableAssumption DEF Free, Page
<1>2. \E p \in Free(m) : \A q \in Free(m) : p <= q
  BY <1>1, Smallest
<1> QED BY <1>1, <1>2 DEF alloc_page

-----------------------------------------------------------------------------
\* The sequence t is s with e at place k.
Inserted(s, t, k, e) ==
    /\ Len(t) = Len(s) + 1 /\ t[k] = e
    /\ \A j \in 1 .. Len(s) : j < k => t[j] = s[j]
    /\ \A j \in 1 .. Len(s) : k <= j => t[j + 1] = s[j]

\* InsertAt() shifts what follows.
LEMMA InsertAtFacts ==
    ASSUME NEW S, NEW s \in Seq(S), NEW e \in S, NEW k \in 1 .. Len(s) + 1
    PROVE  InsertAt(s, k, e) \in Seq(S) /\ Inserted(s, InsertAt(s, k, e), k, e)
<1>0. Len(s) \in Nat /\ k \in Int /\ k - 1 \in Int /\ \A i \in 1 .. Len(s) : s[i] \in S
  BY LenProperties
<1>1. PICK a : a = SubSeq(s, 1, k - 1)
  OBVIOUS
<1>2. PICK b : b = SubSeq(s, k, Len(s))
  OBVIOUS
<1>3. a \in Seq(S) /\ Len(a) = k - 1 /\ \A i \in 1 .. k - 1 : a[i] = s[i]
  <2>1. \A i \in 1 .. k - 1 : s[i] \in S
    BY <1>0
  <2>2. /\ SubSeq(s, 1, k - 1) \in Seq(S)
        /\ Len(SubSeq(s, 1, k - 1)) = IF 1 <= k - 1 THEN k - 1 - 1 + 1 ELSE 0
        /\ \A i \in 1 .. k - 1 - 1 + 1 : SubSeq(s, 1, k - 1)[i] = s[1 + i - 1]
    BY <1>0, <2>1, SubSeqProperties, 1 \in Int
  <2>3. k - 1 - 1 + 1 = k - 1 /\ \A i \in 1 .. k - 1 : 1 + i - 1 = i
    BY <1>0
  <2>4. \A i \in 1 .. k - 1 : a[i] = s[i]
    BY <2>2, <2>3, <1>1
  <2>5. Len(a) = k - 1
    BY <2>2, <1>1, <1>0
  <2> QED BY <2>2, <2>4, <2>5, <1>1
<1>4. /\ b \in Seq(S) /\ Len(b) = Len(s) - k + 1
      /\ \A i \in 1 .. Len(s) - k + 1 : b[i] = s[k + i - 1]
  <2>1. \A i \in k .. Len(s) : s[i] \in S
    BY <1>0
  <2>2. /\ SubSeq(s, k, Len(s)) \in Seq(S)
        /\ Len(SubSeq(s, k, Len(s))) = IF k <= Len(s) THEN Len(s) - k + 1 ELSE 0
        /\ \A i \in 1 .. Len(s) - k + 1 : SubSeq(s, k, Len(s))[i] = s[k + i - 1]
    BY <1>0, <2>1, SubSeqProperties
  <2>3. Len(b) = Len(s) - k + 1
    BY <2>2, <1>2, <1>0
  <2> QED BY <2>2, <2>3, <1>2
<1>5. PICK c : c = a \o <<e>>
  OBVIOUS
<1>6. /\ c \in Seq(S) /\ Len(c) = k /\ c[k] = e
      /\ \A i \in 1 .. k - 1 : c[i] = s[i]
  <2>1. <<e>> \in Seq(S) /\ Len(<<e>>) = 1 /\ <<e>>[1] = e
    OBVIOUS
  <2>2. PICK u \in Seq(S) : u = <<e>>
    BY <2>1
  <2>3. /\ a \o u \in Seq(S) /\ Len(a \o u) = Len(a) + Len(u)
        /\ \A i \in 1 .. Len(a) + Len(u) : (a \o u)[i] =
                IF i <= Len(a) THEN a[i] ELSE u[i - Len(a)]
    BY <1>3, ConcatProperties
  <2>4. c \in Seq(S) /\ Len(c) = k
    BY <2>1, <2>2, <2>3, <1>0, <1>3, <1>5
  <2>5. c[k] = e
    BY <2>1, <2>2, <2>3, <1>0, <1>3, <1>5
  <2>6. \A i \in 1 .. k - 1 : c[i] = s[i]
    BY <2>1, <2>2, <2>3, <1>0, <1>3, <1>5
  <2> QED BY <2>4, <2>5, <2>6
<1>7. PICK t : t = c \o b
  OBVIOUS
<1>8. /\ t \in Seq(S) /\ Len(t) = Len(c) + Len(b)
      /\ \A i \in 1 .. Len(c) + Len(b) : t[i] = IF i <= Len(c) THEN c[i] ELSE b[i - Len(c)]
  BY <1>4, <1>6, <1>7, ConcatProperties
<1>9. Inserted(s, t, k, e)
  <2>1. Len(t) = Len(s) + 1 /\ Len(c) = k /\ Len(b) = Len(s) - k + 1
    BY <1>0, <1>4, <1>6, <1>8
  <2>2. t[k] = e
    BY <1>0, <1>6, <1>8, <2>1
  <2>3. ASSUME NEW j \in 1 .. Len(s), j < k PROVE t[j] = s[j]
    BY <1>0, <1>6, <1>8, <2>1, <2>3
  <2>4. ASSUME NEW j \in 1 .. Len(s), k <= j PROVE t[j + 1] = s[j]
    <3>1. j + 1 \in 1 .. Len(c) + Len(b) /\ ~(j + 1 <= Len(c))
      BY <1>0, <2>1, <2>4
    <3>2. t[j + 1] = b[j + 1 - k]
      BY <1>8, <2>1, <3>1
    <3>3. j + 1 - k \in 1 .. Len(s) - k + 1 /\ k + (j + 1 - k) - 1 = j
      BY <1>0, <2>4
    <3> QED BY <1>4, <3>2, <3>3
  <2> QED BY <2>1, <2>2, <2>3, <2>4 DEF Inserted
<1>10. t = InsertAt(s, k, e)
  BY <1>1, <1>2, <1>5, <1>7 DEF InsertAt
<1> QED BY <1>8, <1>9, <1>10

-----------------------------------------------------------------------------
\* What IsSpace() says of the list and its elements.
LEMMA SpaceFacts ==
    ASSUME NEW sp, IsSpace(sp)
    PROVE  /\ sp.mmap_list \in Seq(vma_struct) /\ Len(sp.mmap_list) \in Nat
           /\ DOMAIN sp.mmap_list = 1 .. Len(sp.mmap_list)
           /\ \A k \in 1 .. Len(sp.mmap_list) :
                 sp.mmap_list[k] \in vma_struct /\ InUserMemory(sp.mmap_list[k])
           /\ Range(sp.mmap_list) = {sp.mmap_list[k] : k \in 1 .. Len(sp.mmap_list)}
           /\ \A v \in Range(sp.mmap_list) : v \in vma_struct /\ v # NULL /\ InUserMemory(v)
<1>1. sp.mmap_list \in Seq(vma_struct)
  BY DEF IsSpace, mm_struct
<1>2. /\ Len(sp.mmap_list) \in Nat /\ sp.mmap_list \in [1 .. Len(sp.mmap_list) -> vma_struct]
      /\ DOMAIN sp.mmap_list = 1 .. Len(sp.mmap_list)
  BY <1>1, LenProperties
<1>3. Range(sp.mmap_list) = {sp.mmap_list[k] : k \in 1 .. Len(sp.mmap_list)}
  BY <1>1, RangeEquality
<1>4. \A k \in 1 .. Len(sp.mmap_list) :
         sp.mmap_list[k] \in vma_struct /\ InUserMemory(sp.mmap_list[k])
  BY <1>2 DEF IsSpace, Sorted
<1>5. \A v \in Range(sp.mmap_list) : v \in vma_struct /\ v # NULL /\ InUserMemory(v)
  BY <1>3, <1>4, Constants
<1> QED BY <1>1, <1>2, <1>3, <1>4, <1>5

\* No address lies in two areas.
LEMMA OneArea ==
    ASSUME NEW sp, IsSpace(sp), NEW a \in Int,
           NEW v \in Range(sp.mmap_list), NEW w \in Range(sp.mmap_list),
           Holds(v, a), Holds(w, a)
    PROVE  v = w
<1> DEFINE list == sp.mmap_list
<1> DEFINE members == {list[i] : i \in 1 .. Len(list)}
<1>0. v \in members /\ w \in members
  BY SpaceFacts
<1>1. PICK j \in 1 .. Len(list) : v = list[j]
  BY <1>0
<1>2. PICK k \in 1 .. Len(list) : w = list[k]
  BY <1>0
<1>3. v \in vma_struct /\ w \in vma_struct
  BY <1>1, <1>2, SpaceFacts
<1>4. /\ v.vm_start \in Int /\ v.vm_end \in Int /\ w.vm_start \in Int /\ w.vm_end \in Int
  BY <1>3 DEF vma_struct
<1>5. ~(j < k) /\ ~(k < j)
  BY <1>1, <1>2, <1>4 DEF IsSpace, Sorted, Holds
<1>6. j \in Int /\ k \in Int
  BY SpaceFacts
<1> QED BY <1>1, <1>2, <1>5, <1>6

\* find_vma() returns the area that holds the address, whatever was found last.
LEMMA FindVma ==
    ASSUME NEW sp, IsSpace(sp), NEW a \in Int
    PROVE  /\ find_vma(sp, a) # NULL =>
                 find_vma(sp, a) \in Range(sp.mmap_list) /\ Holds(find_vma(sp, a), a)
           /\ \A v \in Range(sp.mmap_list) : Holds(v, a) => v = find_vma(sp, a) /\ v # NULL
<1> DEFINE list == sp.mmap_list
           hits == {k \in DOMAIN list : Holds(list[k], a)}
<1>1. \A v \in Range(list) : v # NULL
  BY SpaceFacts
<1>2. CASE sp.mmap_cache # NULL /\ Holds(sp.mmap_cache, a)
  <2>1. find_vma(sp, a) = sp.mmap_cache /\ sp.mmap_cache \in Range(list)
    BY <1>2 DEF find_vma, IsSpace
  <2>2. ASSUME NEW v \in Range(list), Holds(v, a) PROVE v = sp.mmap_cache
    BY <2>1, <2>2, <1>2, OneArea
  <2> QED BY <1>1, <1>2, <2>1, <2>2
<1>3. CASE ~(sp.mmap_cache # NULL /\ Holds(sp.mmap_cache, a)) /\ hits = {}
  <2>1. find_vma(sp, a) = NULL
    BY <1>3 DEF find_vma
  <2>2. ASSUME NEW v \in Range(list), Holds(v, a) PROVE FALSE
    <3>1. /\ DOMAIN list = 1 .. Len(list)
          /\ Range(list) = {list[k] : k \in 1 .. Len(list)}
      BY SpaceFacts
    <3>2. PICK k \in DOMAIN list : v = list[k]
      BY <3>1
    <3>3. k \in hits
      BY <3>2, <2>2
    <3> QED BY <3>3, <1>3
  <2> QED BY <2>1, <2>2
<1>4. CASE ~(sp.mmap_cache # NULL /\ Holds(sp.mmap_cache, a)) /\ hits # {}
  <2>1. find_vma(sp, a) = list[Min(hits)]
    BY <1>4 DEF find_vma
  <2>2. Min(hits) \in hits
    <3>1. hits \in SUBSET Nat
      BY SpaceFacts
    <3> HIDE DEF hits
    <3> QED BY <3>1, <1>4, MinOf
  <2>3. list[Min(hits)] \in Range(list) /\ Holds(list[Min(hits)], a)
    BY <2>2, SpaceFacts
  <2>4. ASSUME NEW v \in Range(list), Holds(v, a) PROVE v = list[Min(hits)]
    BY <2>3, <2>4, OneArea
  <2> QED BY <1>1, <2>1, <2>3, <2>4
<1> QED BY <1>2, <1>3, <1>4

\* And found() keeps the list.
LEMMA Found ==
    ASSUME NEW sp, IsSpace(sp), NEW a \in Int
    PROVE  IsSpace(found(sp, a)) /\ found(sp, a).mmap_list = sp.mmap_list
<1>1. CASE find_vma(sp, a) = NULL
  BY <1>1 DEF found
<1>2. CASE find_vma(sp, a) # NULL
  <2>1. PICK vma \in Range(sp.mmap_list) : vma = find_vma(sp, a)
    BY <1>2, FindVma
  <2>2. vma \in vma_struct
    BY SpaceFacts
  <2>3. PICK m : m = [sp EXCEPT !.mmap_cache = vma]
    OBVIOUS
  <2>4. m = found(sp, a)
    BY <2>1, <2>3, <1>2 DEF found
  <2>5. sp \in mm_struct
    BY DEF IsSpace
  <2>6. m \in mm_struct /\ m.mmap_list = sp.mmap_list /\ m.mmap_cache = vma
    BY <2>2, <2>3, <2>5 DEF mm_struct
  <2> QED BY <2>1, <2>4, <2>6 DEF IsSpace
<1> QED BY <1>1, <1>2

\* insert_vma_struct() of a range of pages of user memory keeps the order.
LEMMA InsertVma ==
    ASSUME NEW sp, IsSpace(sp), NEW vma \in vma_struct, InUserMemory(vma),
           insert_vma_struct(sp, vma).ok
    PROVE  IsSpace(insert_vma_struct(sp, vma).mm)
<1> DEFINE above == {i \in DOMAIN sp.mmap_list : sp.mmap_list[i].vm_start > vma.vm_start}
<1>1. PICK list \in Seq(vma_struct) : list = sp.mmap_list
  BY SpaceFacts
<1>2. /\ Len(list) \in Nat /\ DOMAIN list = 1 .. Len(list)
      /\ \A i \in 1 .. Len(list) : list[i] \in vma_struct /\ InUserMemory(list[i])
      /\ Range(list) = {list[i] : i \in 1 .. Len(list)}
  <2>1. /\ Len(sp.mmap_list) \in Nat /\ DOMAIN sp.mmap_list = 1 .. Len(sp.mmap_list)
        /\ \A i \in 1 .. Len(sp.mmap_list) :
              sp.mmap_list[i] \in vma_struct /\ InUserMemory(sp.mmap_list[i])
        /\ Range(sp.mmap_list) = {sp.mmap_list[i] : i \in 1 .. Len(sp.mmap_list)}
    BY SpaceFacts
  <2> QED BY <1>1, <2>1
<1>3. PICK k : k = IF above = {} THEN Len(list) + 1 ELSE Min(above)
  OBVIOUS
<1>4. k \in 1 .. Len(list) + 1
  <2>1. above \in SUBSET Nat /\ above \subseteq 1 .. Len(list)
    BY <1>1, <1>2
  <2> HIDE DEF above
  <2>2. above # {} => Min(above) \in above
    BY <2>1, MinOf
  <2> QED BY <2>1, <2>2, <1>2, <1>3
<1>5. PICK t : t = InsertAt(list, k, vma)
  OBVIOUS
<1>6. t \in Seq(vma_struct) /\ Inserted(list, t, k, vma)
  BY <1>4, <1>5, InsertAtFacts
<1>7. PICK m : m = [sp EXCEPT !.mmap_list = t]
  OBVIOUS
<1>8. /\ m = insert_vma_struct(sp, vma).mm
      /\ k > 1 => Apart(list[k - 1], vma)
      /\ k <= Len(list) => Apart(vma, list[k])
  BY <1>1, <1>3, <1>5, <1>7 DEF insert_vma_struct
<1>9. sp \in mm_struct
  BY DEF IsSpace
<1>10. m \in mm_struct /\ m.mmap_list = t /\ m.mmap_cache = sp.mmap_cache
  BY <1>6, <1>7, <1>9 DEF mm_struct
<1>11. /\ Len(t) = Len(list) + 1 /\ t[k] = vma
       /\ \A j \in 1 .. Len(t) : j < k => j \in 1 .. Len(list) /\ t[j] = list[j]
       /\ \A j \in 1 .. Len(t) : k < j => j - 1 \in 1 .. Len(list) /\ t[j] = list[j - 1]
  <2>1. ASSUME NEW j \in 1 .. Len(t), k < j
        PROVE  j - 1 \in 1 .. Len(list) /\ t[j] = list[j - 1]
    <3>1. j - 1 \in 1 .. Len(list) /\ k <= j - 1 /\ (j - 1) + 1 = j
      BY <1>2, <1>4, <1>6, <2>1 DEF Inserted
    <3> QED BY <3>1, <1>6 DEF Inserted
  <2>2. ASSUME NEW j \in 1 .. Len(t), j < k
        PROVE  j \in 1 .. Len(list) /\ t[j] = list[j]
    <3>1. j \in 1 .. Len(list)
      BY <1>2, <1>4, <2>2
    <3> QED BY <3>1, <2>2, <1>6 DEF Inserted
  <2> QED BY <2>1, <2>2, <1>6 DEF Inserted
<1>12. \A j \in 1 .. Len(t) : InUserMemory(t[j])
  <2> TAKE j \in 1 .. Len(t)
  <2>1. j \in Int /\ k \in Int
    BY <1>2, <1>4, <1>11
  <2> QED BY <2>1, <1>2, <1>11
<1>13. \A i, j \in 1 .. Len(list) : i < j => list[i].vm_end <= list[j].vm_start
  BY <1>1 DEF IsSpace, Sorted
<1>14. \A i \in 1 .. Len(list) : i < k => list[i].vm_end <= vma.vm_start
  <2> SUFFICES ASSUME NEW i \in 1 .. Len(list), i < k
               PROVE  list[i].vm_end <= vma.vm_start
    OBVIOUS
  <2>1. k - 1 \in 1 .. Len(list) /\ (i = k - 1 \/ i < k - 1) /\ k > 1
    BY <1>2, <1>4
  <2>2. list[k - 1].vm_end <= vma.vm_start
    BY <2>1, <1>8 DEF Apart
  <2>3. i < k - 1 => list[i].vm_end <= list[k - 1].vm_start
    BY <2>1, <1>13
  <2>4. list[k - 1].vm_start < list[k - 1].vm_end
    BY <2>1, <1>2 DEF InUserMemory
  <2>5. /\ list[i].vm_end \in Int /\ list[k - 1].vm_start \in Int
        /\ list[k - 1].vm_end \in Int /\ vma.vm_start \in Int
    BY <2>1, <1>2 DEF vma_struct
  <2> QED BY <2>1, <2>2, <2>3, <2>4, <2>5
<1>15. \A i \in 1 .. Len(list) : k <= i => vma.vm_end <= list[i].vm_start
  <2> SUFFICES ASSUME NEW i \in 1 .. Len(list), k <= i
               PROVE  vma.vm_end <= list[i].vm_start
    OBVIOUS
  <2>1. k \in 1 .. Len(list) /\ (i = k \/ k < i) /\ k <= Len(list)
    BY <1>2, <1>4
  <2>2. vma.vm_end <= list[k].vm_start
    BY <2>1, <1>8 DEF Apart
  <2>3. k < i => list[k].vm_end <= list[i].vm_start
    BY <2>1, <1>13
  <2>4. list[k].vm_start < list[k].vm_end
    BY <2>1, <1>2 DEF InUserMemory
  <2>5. /\ list[i].vm_start \in Int /\ list[k].vm_start \in Int
        /\ list[k].vm_end \in Int /\ vma.vm_end \in Int
    BY <2>1, <1>2 DEF vma_struct
  <2> QED BY <2>1, <2>2, <2>3, <2>4, <2>5
<1>16. ASSUME NEW i \in 1 .. Len(t), NEW j \in 1 .. Len(t), i < j
       PROVE  t[i].vm_end <= t[j].vm_start
  <2>0. i \in Int /\ j \in Int /\ k \in Int
    BY <1>2, <1>4, <1>11
  <2>1. CASE j < k
    BY <2>0, <2>1, <1>11, <1>13, <1>16
  <2>2. CASE j = k
    BY <2>0, <2>2, <1>11, <1>14, <1>16
  <2>3. CASE i < k /\ k < j
    <3>1. i \in 1 .. Len(list) /\ t[i] = list[i] /\ j - 1 \in 1 .. Len(list) /\ t[j] = list[j - 1]
      BY <2>3, <1>11
    <3>2. i < j - 1
      BY <2>0, <2>3
    <3> QED BY <3>1, <3>2, <1>13
  <2>4. CASE i = k
    <3>1. j - 1 \in 1 .. Len(list) /\ t[j] = list[j - 1] /\ k <= j - 1
      BY <2>0, <2>4, <1>11, <1>16
    <3> QED BY <3>1, <2>4, <1>11, <1>15
  <2>5. CASE k < i
    <3>1. /\ i - 1 \in 1 .. Len(list) /\ t[i] = list[i - 1]
          /\ j - 1 \in 1 .. Len(list) /\ t[j] = list[j - 1]
      BY <2>0, <2>5, <1>11, <1>16
    <3>2. i - 1 < j - 1
      BY <2>0, <1>16
    <3> QED BY <3>1, <3>2, <1>13
  <2> QED BY <2>0, <2>1, <2>2, <2>3, <2>4, <2>5, <1>16
<1>17. m.mmap_cache # NULL => m.mmap_cache \in Range(t)
  <2> SUFFICES ASSUME m.mmap_cache # NULL PROVE m.mmap_cache \in Range(t)
    OBVIOUS
  <2>1. PICK i \in 1 .. Len(list) : m.mmap_cache = list[i]
    BY <1>1, <1>2, <1>10 DEF IsSpace
  <2>2. m.mmap_cache = t[i] \/ m.mmap_cache = t[i + 1]
    BY <2>1, <1>2, <1>4, <1>6 DEF Inserted
  <2>3. i \in 1 .. Len(t) /\ i + 1 \in 1 .. Len(t)
    BY <1>2, <1>11
  <2>4. Range(t) = {t[x] : x \in 1 .. Len(t)}
    BY <1>6, RangeEquality
  <2> QED BY <2>2, <2>3, <2>4
<1>18. Sorted(t)
  BY <1>12, <1>16 DEF Sorted
<1> QED BY <1>8, <1>10, <1>17, <1>18 DEF IsSpace

\* So does mm_map(), whatever it returns.
LEMMA MmMap ==
    ASSUME NEW sp, IsSpace(sp), NEW addr \in Nat, NEW len \in Nat,
           NEW flags \in SUBSET VmFlags, NEW memory \in BOOLEAN
    PROVE  IsSpace(mm_map(sp, addr, len, flags, memory).mm)
<1> DEFINE start == ROUNDDOWN(addr, PGSIZE)
           end == ROUNDDOWN(Word(addr + len + PGSIZE - 1), PGSIZE)
           vma == vma_create(start, end, flags)
<1>1. start \in Int /\ end \in Int /\ start % PGSIZE = 0 /\ end % PGSIZE = 0
  BY Rounding, EndOf
<1>2. PICK looked : looked = found(sp, start) /\ IsSpace(looked)
  BY <1>1, Found
<1>3. CASE ~USER_ACCESS(start, end)
  BY <1>3 DEF mm_map
<1>4. CASE USER_ACCESS(start, end)
  <2>1. vma \in vma_struct /\ InUserMemory(vma)
    BY <1>1, <1>4 DEF vma_create, vma_struct, InUserMemory, USER_ACCESS
  <2>2. insert_vma_struct(looked, vma).ok => IsSpace(insert_vma_struct(looked, vma).mm)
    BY <2>1, <1>2, InsertVma
  <2>3. \/ mm_map(sp, addr, len, flags, memory).mm = looked
        \/ /\ insert_vma_struct(looked, vma).ok
           /\ mm_map(sp, addr, len, flags, memory).mm = insert_vma_struct(looked, vma).mm
    BY <1>2, <1>4 DEF mm_map
  <2> QED BY <2>2, <2>3, <1>2
<1> QED BY <1>3, <1>4

-----------------------------------------------------------------------------
\* A step that builds or tears down an address space, and one that does not.
LEMMA SpacesBuilt ==
    ASSUME AreaInv, mm' = mm, pc' \in Building \cup {"panic"}, IsSpace(work')
    PROVE  Spaces'
<1>1. work' # NULL /\ pc' \notin {"boot", "user_main"}
  BY Constants DEF IsSpace, Building, Loading, Copying
<1> QED BY <1>1 DEF AreaInv, Spaces

\* And one that does neither.
LEMMA SpacesIdle ==
    ASSUME AreaInv, mm' = mm, pc' \notin Building, work' = NULL,
           pc' \in {"boot", "user_main"} => pc \in {"boot", "user_main"}
    PROVE  Spaces'
BY DEF AreaInv, Spaces

\* A step that leaves user_mem_check(), or is none of its.
LEMMA NotChecking ==
    ASSUME pc' \notin Checking
    PROVE  MemChecking' /\ MemCheckExact'
BY DEF MemChecking, MemCheckExact, Checking

\* The variables of a call that begins.
LEMMA FreshCall == NoCall \in CallType
BY DEF NoCall, CallType

\* What AreaInv says in a step's first state.
LEMMA Before ==
    ASSUME AreaInv
    PROVE  /\ Spaces /\ Calling
           /\ pc # "boot" => call \in CallType
           /\ \A s \in Space : mm[s] # NULL => IsSpace(mm[s]) /\ pc \notin {"boot", "user_main"}
           /\ pc \in Building => IsSpace(work)
           /\ pc \notin Building \cup {"panic"} => work = NULL
BY DEF AreaInv, Spaces, Calling

\* The steps of the boot checks.
LEMMA BootStep ==
    ASSUME AreaInv, Boot
    PROVE  AreaInv'
<1>1. pc = "boot" /\ mm' = mm /\ work' = work
      /\ \/ pc' = "boot"
         \/ pc' = "user_main" /\ call' = NoCall
  BY DEF Boot, BootFirst, BootSecond, BootShare, BootRemove, BootFree, At, NextCheck
<1>2. pc' \notin Building /\ pc' \notin Checking
  BY <1>1 DEF Building, Loading, Copying, Checking
<1>3. Spaces'
  BY <1>1, <1>2, Before, SpacesIdle DEF Building, Loading, Copying
<1>4. Calling'
  BY <1>1, FreshCall DEF Calling, Building, Loading, Copying, InCall
<1> QED BY <1>2, <1>3, <1>4, NotChecking DEF AreaInv

\* exec, exit and the end of a teardown.
LEMMA UnmapStep ==
    ASSUME AreaInv, Unmap
    PROVE  AreaInv'
<1>1. /\ pc = "unmap" /\ mm' = mm /\ work' = work
      /\ \/ pc' = "unmap" /\ call' = [call EXCEPT !.i = @ + 1]
         \/ pc' = "exit_range" /\ call' = [call EXCEPT !.i = 1]
  BY DEF Unmap
<1>2. call \in CallType /\ call.proc \in Space /\ mm[call.proc] = NULL /\ IsSpace(work)
  BY <1>1, Before DEF Calling, InCall, Building
<1>3. call' \in CallType /\ call'.proc = call.proc
  BY <1>1, <1>2 DEF CallType
<1>4. Spaces'
  BY <1>1, <1>2, Before, SpacesBuilt DEF Building, Loading, Copying
<1>5. Calling'
  BY <1>1, <1>2, <1>3 DEF Calling, Building, Loading, Copying, InCall
<1> QED BY <1>1, <1>4, <1>5, NotChecking DEF AreaInv, Checking

\* The second loop, and the end of a teardown.
LEMMA ExitRangeStep ==
    ASSUME AreaInv, ExitRange
    PROVE  AreaInv'
<1>1. /\ pc = "exit_range" /\ mm' = mm
      /\ \/ pc' = pc /\ work' = work /\ call' = [call EXCEPT !.i = @ + 1]
         \/ /\ pc' = "load" /\ work' = NULL
            /\ call' = [call EXCEPT !.then = "none", !.i = 0]
         \/ pc' = "user" /\ work' = NULL /\ call' = NoCall
  BY DEF ExitRange, mm_destroy
<1>2. call \in CallType /\ call.proc \in Space /\ mm[call.proc] = NULL /\ IsSpace(work)
  BY <1>1, Before DEF Calling, InCall, Building
<1>3. call' \in CallType /\ (pc' # "user" => call'.proc = call.proc)
  <2>1. CASE call' = [call EXCEPT !.i = @ + 1]
    BY <2>1, <1>2 DEF CallType
  <2>2. CASE call' = [call EXCEPT !.then = "none", !.i = 0]
    BY <2>2, <1>2 DEF CallType
  <2> QED BY <2>1, <2>2, <1>1, FreshCall
<1>4. Spaces'
  BY <1>1, <1>2, SpacesBuilt, SpacesIdle DEF Building, Loading, Copying
<1>5. Calling'
  BY <1>1, <1>2, <1>3 DEF Calling, Building, Loading, Copying, InCall
<1> QED BY <1>1, <1>4, <1>5, NotChecking DEF AreaInv, Checking

\* user_main() calls load_icode() for the first process.
LEMMA UserMainStep ==
    ASSUME AreaInv, UserMain
    PROVE  AreaInv'
<1>1. pc = "user_main" /\ mm' = mm /\ work' = work /\ pc' = "load"
      /\ call' = [NoCall EXCEPT !.proc = user_main]
  BY DEF UserMain
<1>2. call' \in CallType /\ call'.proc \in Space /\ mm[call'.proc] = NULL
  BY <1>1, Before, Constants, FreshCall DEF CallType, NoCall
<1>3. Spaces'
  BY <1>1, Before, SpacesIdle DEF Building, Loading, Copying
<1>4. Calling'
  BY <1>1, <1>2 DEF Calling, Loading, Copying
<1> QED BY <1>1, <1>3, <1>4, NotChecking DEF AreaInv, Checking

\* The old address space is torn down.
LEMMA ExecExitStep ==
    ASSUME AreaInv, NEW s \in Space, Exec(s) \/ Exit(s)
    PROVE  AreaInv'
<1>1. PICK then \in {"load", "exited"} :
         /\ pc = "user" /\ mm[s] # NULL /\ mm' = [mm EXCEPT ![s] = NULL] /\ work' = mm[s]
         /\ pc' = "unmap" /\ call' = [NoCall EXCEPT !.proc = s, !.then = then, !.i = 1]
  BY DEF Exec, Exit
<1>2. call' \in CallType /\ call'.proc = s
  BY <1>1, FreshCall DEF CallType
<1>3. IsSpace(work') /\ work' # NULL /\ mm \in [Space -> mm_struct \cup {NULL}]
  BY <1>1, Before DEF Spaces
<1>4. Spaces'
  BY <1>1, <1>3, Before DEF Spaces, Building
<1>5. Calling'
  BY <1>1, <1>2, <1>3 DEF Calling, Loading, Copying
<1> QED BY <1>1, <1>4, <1>5, NotChecking DEF AreaInv, Checking

\* An address space without areas.
LEMMA NewSpace ==
    ASSUME NEW m, Free(m) # {}
    PROVE  IsSpace(mm_create(m)) /\ mm_create(m).mmap_list = <<>>
<1>1. alloc_page(m) \in Page
  BY AllocPage
<1>2. PICK p \in Page : p = alloc_page(m)
  BY <1>1
<1>3. PICK l \in Seq(vma_struct) : l = <<>> /\ Len(l) = 0
  BY EmptySeq
<1>4. mm_create(m) = [pgdir |-> p, mmap_list |-> l, mmap_cache |-> NULL]
  BY <1>2, <1>3 DEF mm_create
<1>5. mm_create(m) \in mm_struct /\ mm_create(m).mmap_list = l /\ mm_create(m).mmap_cache = NULL
  BY <1>4 DEF mm_struct
<1>6. Sorted(l)
  BY <1>3 DEF Sorted
<1> QED BY <1>3, <1>5, <1>6 DEF IsSpace

\* load_icode() begins.
LEMMA LoadStep ==
    ASSUME AreaInv, Load
    PROVE  AreaInv'
<1>1. /\ pc = "load" /\ mm' = mm
      /\ \/ /\ Free(mem) # {} /\ work' = mm_create(mem) /\ pc' = "segment"
            /\ \E prog \in Programs : call' = [call EXCEPT !.prog = prog, !.i = 1]
         \/ pc' = "user" /\ call' = NoCall /\ work' = work
  BY DEF Load
<1>2. call \in CallType /\ call.proc \in Space /\ mm[call.proc] = NULL
  BY <1>1, Before DEF Calling, InCall
<1>3. CASE pc' = "user" /\ call' = NoCall /\ work' = work
  <2>1. Spaces' /\ Calling'
    BY <1>1, <1>3, Before, SpacesIdle, FreshCall
    DEF Calling, Building, Loading, Copying, InCall
  <2> QED BY <2>1, <1>3, NotChecking DEF AreaInv, Checking
<1>4. CASE pc' = "segment"
  <2>1. PICK prog \in Programs : call' = [call EXCEPT !.prog = prog, !.i = 1]
    BY <1>1, <1>4
  <2>2. /\ call' \in CallType /\ call'.proc = call.proc
        /\ call'.prog = prog /\ call'.i = 1
    BY <2>1, <1>2 DEF CallType
  <2>3. IsSpace(work')
    BY <1>1, <1>4, NewSpace
  <2>4. Spaces'
    BY <2>3, <1>1, <1>4, SpacesBuilt DEF Building, Loading, Copying
  <2>5. Calling'
    <3>1. mm'[call'.proc] = NULL
      BY <2>2, <1>1, <1>2
    <3> QED BY <3>1, <2>2, <1>2, <1>4 DEF Calling, Copying
  <2> QED BY <2>4, <2>5, <1>4, NotChecking DEF AreaInv, Checking
<1> QED BY <1>1, <1>3, <1>4

\* A call that fails tears down what it has built.
LEMMA TeardownStep ==
    ASSUME AreaInv, pc \in Loading \cup Copying, mm' = mm, NEW m, NEW sp, IsSpace(sp),
           NEW then \in {"load_failed", "fork_failed"}, Teardown(m, sp, then)
    PROVE  AreaInv'
<1>1. work' = sp /\ pc' = "unmap" /\ call' = [call EXCEPT !.then = then, !.i = 1]
  BY DEF Teardown
<1>2. call \in CallType /\ call.proc \in Space /\ mm[call.proc] = NULL
  BY Before DEF Calling, InCall, Building, Loading, Copying
<1>3. call' \in CallType /\ call'.proc = call.proc
  BY <1>1, <1>2 DEF CallType
<1>4. Spaces'
  BY <1>1, Before, SpacesBuilt DEF Building, Loading, Copying
<1>5. Calling'
  BY <1>1, <1>2, <1>3 DEF Calling, Loading, Copying
<1> QED BY <1>1, <1>4, <1>5, NotChecking DEF AreaInv, Checking

\* A call that makes the kernel panic.
LEMMA PanicStep ==
    ASSUME AreaInv, IsSpace(work), work' = work, mm' = mm, pc' = "panic", call' \in CallType
    PROVE  AreaInv'
<1>1. pc' \notin Building /\ pc' \notin Checking
  BY DEF Building, Loading, Copying, Checking
<1>2. Spaces'
  BY SpacesBuilt
<1>3. Calling'
  BY DEF Calling, Building, Loading, Copying, InCall
<1> QED BY <1>1, <1>2, <1>3, NotChecking DEF AreaInv

\* The segment being loaded.
LEMMA CurrentSegment ==
    ASSUME call.prog \in Programs, call.i \in 1 .. Len(Segments)
    PROVE  /\ ph.va \in Nat /\ ph.filesz \in Nat /\ ph.memsz \in Nat
           /\ ph.flags \in SUBSET VmFlags /\ "STACK" \notin ph.flags
           /\ ph.filesz <= ph.memsz => ph.va + ph.memsz + PGSIZE <= WordSize
           /\ file_end \in Int /\ mem_end \in Int
<1>1. Segments \in Seq(Segment)
  BY Constants DEF Segments
<1>2. ph \in Segment
  BY <1>1, ElementOfSeq DEF ph
<1>3. ph.va \in Nat /\ ph.filesz \in Nat /\ ph.memsz \in Nat
      /\ ph.flags \in SUBSET VmFlags /\ "STACK" \notin ph.flags
  BY <1>2 DEF Segment
<1>4. ph.filesz <= ph.memsz => ph.va + ph.memsz + PGSIZE <= WordSize
  <2>1. call.i \in DOMAIN call.prog.segments
    BY <1>1 DEF Segments
  <2> QED BY <2>1, ProgramAssumption DEF ph, Segments
<1>5. file_end \in Int /\ mem_end \in Int
  <2>1. ph.va + ph.filesz \in Int /\ ph.va + ph.memsz \in Int
    BY <1>3
  <2> QED BY <2>1, Words DEF file_end, mem_end
<1> QED BY <1>3, <1>4, <1>5

\* It maps the area of a segment,
LEMMA LoadSegmentStep ==
    ASSUME AreaInv, LoadSegment
    PROVE  AreaInv'
<1>1. pc = "segment" /\ call.i <= Len(Segments) /\ mm' = mm
  BY DEF LoadSegment
<1>2. /\ call \in CallType /\ call.proc \in Space /\ mm[call.proc] = NULL /\ call.prog \in Programs
      /\ call.i > 0 /\ IsSpace(work)
  BY <1>1, Before DEF Calling, InCall, Building, Loading
<1>3. call.i \in 1 .. Len(Segments)
  <2>1. Segments \in Seq(Segment)
    BY <1>2, Constants DEF Segments
  <2>2. Len(Segments) \in Nat /\ call.i \in Nat
    BY <2>1, <1>2, LenProperties DEF CallType
  <2> QED BY <2>2, <1>1, <1>2
<1>4. ph.va \in Nat /\ ph.memsz \in Nat /\ ph.flags \in SUBSET VmFlags
  BY <1>2, <1>3, CurrentSegment
<1>5. CASE Teardown(mem, work, "load_failed")
  BY <1>1, <1>2, <1>5, TeardownStep DEF Loading
<1>6. CASE ~(ph.filesz > ph.memsz)
  <2>1. PICK memory \in BOOLEAN :
           LET r == mm_map(work, ph.va, ph.memsz, ph.flags, memory)
           IN  CASE r.ret = "ok" ->
                       /\ work' = r.mm /\ pc' = "file"
                       /\ call' = [call EXCEPT !.start = ph.va,
                                               !.la = ROUNDDOWN(ph.va, PGSIZE)]
                       /\ UNCHANGED <<mem, spoiled>>
                 [] r.ret = "panic" -> pc' = "panic" /\ UNCHANGED <<mem, work, call, spoiled>>
                 [] OTHER -> Teardown(mem, r.mm, "load_failed")
    BY <1>6 DEF LoadSegment
  <2>2. PICK r : r = mm_map(work, ph.va, ph.memsz, ph.flags, memory)
    OBVIOUS
  <2>3. IsSpace(r.mm)
    BY <2>2, <1>2, <1>4, MmMap
  <2>4. CASE r.ret = "ok"
    <3>1. /\ work' = r.mm /\ pc' = "file"
          /\ call' = [call EXCEPT !.start = ph.va, !.la = ROUNDDOWN(ph.va, PGSIZE)]
      BY <2>1, <2>2, <2>4
    <3>2. ROUNDDOWN(ph.va, PGSIZE) \in Int /\ ph.va \in Int
      BY <1>4, Rounding
    <3>3. /\ call' \in CallType /\ call'.proc = call.proc
          /\ call'.prog = call.prog /\ call'.i = call.i
      BY <3>1, <3>2, <1>2 DEF CallType
    <3>4. Spaces'
      BY <3>1, <2>3, <1>1, SpacesBuilt DEF Building, Loading, Copying
    <3>5. Calling'
      BY <3>1, <3>3, <1>1, <1>2, <1>3 DEF Calling, Copying, Segments
    <3> QED BY <3>1, <3>4, <3>5, NotChecking DEF AreaInv, Checking
  <2>5. CASE r.ret = "panic"
    <3>1. pc' = "panic" /\ call' = call /\ work' = work
      BY <2>1, <2>2, <2>5
    <3> QED BY <3>1, <1>1, <1>2, PanicStep
  <2>6. CASE r.ret # "ok" /\ r.ret # "panic"
    <3>1. Teardown(mem, r.mm, "load_failed")
      BY <2>1, <2>2, <2>6
    <3> QED BY <3>1, <2>3, <1>1, TeardownStep DEF Loading
  <2> QED BY <2>4, <2>5, <2>6
<1> QED BY <1>5, <1>6 DEF LoadSegment

\* or gives up a file that is none.
LEMMA LoadBadMagicStep ==
    ASSUME AreaInv, LoadBadMagic
    PROVE  AreaInv'
<1>1. pc = "segment" /\ mm' = mm /\ Teardown(mem, work, "load_failed")
  BY DEF LoadBadMagic
<1>2. IsSpace(work)
  BY <1>1, Before DEF Building, Loading
<1> QED BY <1>1, <1>2, TeardownStep DEF Loading

\* One page of a segment.
LEMMA PageStep ==
    ASSUME AreaInv, pc \in {"file", "bss"}, mm' = mm, NEW end \in Int, NEW file,
           LoadPage(end, file)
    PROVE  AreaInv'
<1>1. /\ call \in CallType /\ call.proc \in Space /\ mm[call.proc] = NULL /\ call.prog \in Programs
      /\ call.i \in 1 .. Len(Segments) /\ IsSpace(work)
  BY Before DEF Calling, InCall, Building, Loading
<1>2. PICK r : r = pgdir_alloc_page(mem, work.pgdir, call.la, perm(ph.flags))
  OBVIOUS
<1>3. CASE r.page = NULL
  <2>1. Teardown(r.mem, work, "load_failed")
    BY <1>2, <1>3 DEF LoadPage
  <2> QED BY <2>1, <1>1, TeardownStep DEF Loading
<1>4. CASE r.page # NULL
  <2> DEFINE next == call.la + PGSIZE
             size == IF end < next THEN end - call.start ELSE next - call.start
  <2>1. /\ call' = [call EXCEPT !.la = next, !.start = @ + size, !.page = r.page]
        /\ work' = work /\ pc' = pc
    BY <1>2, <1>4 DEF LoadPage
  <2>2. next \in Int /\ call.start + size \in Int
    BY <1>1, Constants DEF CallType
  <2>3. r.page \in Page
    <3>1. Free(mem) # {}
      BY <1>2, <1>4 DEF pgdir_alloc_page
    <3>2. r.page = alloc_page(mem) \/ r.page = NULL
      BY <1>2, <3>1 DEF pgdir_alloc_page
    <3> QED BY <3>1, <3>2, <1>4, AllocPage
  <2>4. /\ call' \in CallType /\ call'.proc = call.proc
        /\ call'.prog = call.prog /\ call'.i = call.i
    <3> HIDE DEF next, size
    <3> QED BY <2>1, <2>2, <2>3, <1>1 DEF CallType
  <2>5. Spaces'
    BY <2>1, <1>1, Before, SpacesBuilt DEF Building, Loading, Copying
  <2>6. Calling'
    BY <2>1, <2>4, <1>1 DEF Calling, Copying, Segments
  <2> QED BY <2>1, <2>5, <2>6, NotChecking DEF AreaInv, Checking
<1> QED BY <1>3, <1>4

\* A step from one segment, or from one loop of it, to the next.
LEMMA SegmentStep ==
    ASSUME AreaInv, pc \in {"file", "bss"}, mm' = mm, work' = work,
           \/ pc' = "bss" /\ call' = call
           \/ NextSegment
    PROVE  AreaInv'
<1>1. /\ call \in CallType /\ call.proc \in Space /\ mm[call.proc] = NULL /\ call.prog \in Programs
      /\ call.i \in 1 .. Len(Segments) /\ IsSpace(work)
  BY Before DEF Calling, InCall, Building, Loading
<1>2. Spaces'
  BY <1>1, SpacesBuilt DEF NextSegment, Building, Loading
<1>3. CASE pc' = "bss" /\ call' = call
  <2>1. Calling'
    BY <1>1, <1>3 DEF Calling, Copying, Segments
  <2> QED BY <2>1, <1>2, <1>3, NotChecking DEF AreaInv, Checking
<1>4. CASE NextSegment
  <2>1. pc' = "segment" /\ call' = [call EXCEPT !.i = @ + 1, !.page = NULL]
    BY <1>4 DEF NextSegment
  <2>2. call.i \in Nat /\ call.i > 0
    BY <1>1 DEF CallType
  <2>3. /\ call' \in CallType /\ call'.proc = call.proc
        /\ call'.prog = call.prog /\ call'.i = call.i + 1
    <3>1. PICK next \in Nat : next = call.i + 1
      BY <2>2
    <3>2. call' = [call EXCEPT !.i = next, !.page = NULL]
      BY <2>1, <3>1
    <3>3. call' \in CallType /\ call'.proc = call.proc /\ call'.i = next
      BY <3>2, <1>1 DEF CallType
    <3>4. call'.prog = call.prog
      BY <3>2, <1>1 DEF CallType
    <3> QED BY <3>1, <3>3, <3>4
  <2>4. Calling'
    BY <2>1, <2>2, <2>3, <1>1 DEF Calling, Copying
  <2> QED BY <2>1, <2>4, <1>2, NotChecking DEF AreaInv, Checking
<1> QED BY <1>3, <1>4

\* The pages with bytes of the file,
LEMMA LoadFileStep ==
    ASSUME AreaInv, LoadFile
    PROVE  AreaInv'
<1>1. pc = "file" /\ mm' = mm /\ LoadPage(file_end, TRUE)
  BY DEF LoadFile
<1>2. file_end \in Int
  BY <1>1, Before, CurrentSegment DEF Calling, Loading
<1> QED BY <1>1, <1>2, PageStep

\* the rest of the last one,
LEMMA LoadEdgeStep ==
    ASSUME AreaInv, LoadEdge
    PROVE  AreaInv'
<1> DEFINE end == mem_end
           size == Word(IF end < call.la THEN end - call.start ELSE call.la - call.start)
           start == Word(call.start + size)
<1>1. /\ pc = "file" /\ mm' = mm /\ work' = work
      /\ \/ pc' = "bss" /\ call' = call
         \/ NextSegment
         \/ pc' \in {"bss", "panic"} /\ call' = [call EXCEPT !.start = start]
  BY DEF LoadEdge
<1>2. /\ call \in CallType /\ call.proc \in Space /\ mm[call.proc] = NULL /\ call.prog \in Programs
      /\ call.i \in 1 .. Len(Segments) /\ IsSpace(work)
  BY <1>1, Before DEF Calling, InCall, Building, Loading
<1>3. CASE pc' \in {"bss", "panic"} /\ call' = [call EXCEPT !.start = start]
  <2>1. start \in Int
    <3>1. call.start \in Int /\ call.la \in Int /\ end \in Int
      BY <1>2, CurrentSegment DEF CallType
    <3>2. size \in Int
      <4> HIDE DEF end
      <4> QED BY <3>1, Words
    <3> HIDE DEF size
    <3> QED BY <3>1, <3>2, Words
  <2>2. /\ call' \in CallType /\ call'.proc = call.proc
        /\ call'.prog = call.prog /\ call'.i = call.i
    <3> HIDE DEF start
    <3> QED BY <2>1, <1>2, <1>3 DEF CallType
  <2>3. Spaces'
    BY <1>1, <1>2, <1>3, SpacesBuilt DEF Building, Loading
  <2>4. Calling'
    BY <2>2, <1>1, <1>2, <1>3 DEF Calling, Building, Copying, Segments, Loading, InCall
  <2> QED BY <2>3, <2>4, <1>3, NotChecking DEF AreaInv, Checking
<1> QED BY <1>1, <1>3, SegmentStep

\* and the pages without.
LEMMA LoadBssStep ==
    ASSUME AreaInv, LoadBss
    PROVE  AreaInv'
<1>1. /\ pc = "bss" /\ mm' = mm
      /\ LoadPage(mem_end, FALSE) \/ (NextSegment /\ work' = work)
  BY DEF LoadBss
<1>2. mem_end \in Int
  BY <1>1, Before, CurrentSegment DEF Calling, Loading
<1> QED BY <1>1, <1>2, PageStep, SegmentStep

\* The area of the stack,
LEMMA LoadStackStep ==
    ASSUME AreaInv, LoadStack
    PROVE  AreaInv'
<1> DEFINE flags == {"READ", "WRITE", "STACK"}
<1>1. pc = "segment" /\ mm' = mm
  BY DEF LoadStack
<1>2. /\ call \in CallType /\ call.proc \in Space /\ mm[call.proc] = NULL /\ call.prog \in Programs
      /\ IsSpace(work)
  BY <1>1, Before DEF Calling, InCall, Building, Loading
<1>3. PICK memory \in BOOLEAN :
         LET r == mm_map(work, UserTop - StackSize, StackSize, flags, memory)
         IN  IF r.ret = "ok"
             THEN /\ work' = r.mm /\ pc' = "stack" /\ call' = [call EXCEPT !.i = 1]
                  /\ UNCHANGED <<mem, spoiled>>
             ELSE IF r.ret = "panic"
             THEN pc' = "panic" /\ UNCHANGED <<mem, work, call, spoiled>>
             ELSE Teardown(mem, r.mm, "load_failed")
  BY DEF LoadStack
<1>4. PICK r : r = mm_map(work, UserTop - StackSize, StackSize, flags, memory)
  OBVIOUS
<1>5. IsSpace(r.mm)
  <2>1. UserTop - StackSize \in Nat /\ StackSize \in Nat
    BY Constants
  <2>2. flags \in SUBSET VmFlags
    BY DEF VmFlags
  <2> QED BY <2>1, <2>2, <1>2, <1>4, MmMap
<1>6. CASE r.ret = "ok"
  <2>1. work' = r.mm /\ pc' = "stack" /\ call' = [call EXCEPT !.i = 1]
    BY <1>3, <1>4, <1>6
  <2>2. call' \in CallType /\ call'.proc = call.proc /\ call'.prog = call.prog
    BY <2>1, <1>2 DEF CallType
  <2>3. Spaces'
    BY <2>1, <1>1, <1>5, SpacesBuilt DEF Building, Loading
  <2>4. Calling'
    BY <2>1, <2>2, <1>1, <1>2 DEF Calling, Copying
  <2> QED BY <2>1, <2>3, <2>4, NotChecking DEF AreaInv, Checking
<1>7. CASE r.ret = "panic"
  <2>1. pc' = "panic" /\ call' = call /\ work' = work
    BY <1>3, <1>4, <1>7
  <2> QED BY <2>1, <1>1, <1>2, PanicStep
<1>8. CASE r.ret # "ok" /\ r.ret # "panic"
  <2>1. Teardown(mem, r.mm, "load_failed")
    BY <1>3, <1>4, <1>8
  <2> QED BY <2>1, <1>1, <1>5, TeardownStep DEF Loading
<1> QED BY <1>6, <1>7, <1>8

\* and its pages.
LEMMA LoadStackPageStep ==
    ASSUME AreaInv, LoadStackPage
    PROVE  AreaInv'
<1>1. /\ pc = "stack" /\ mm' = mm /\ work' = work
      /\ pc' = "stack" \/ pc' = "panic"
      /\ call' = [call EXCEPT !.i = @ + 1]
  BY DEF LoadStackPage
<1>2. /\ call \in CallType /\ call.proc \in Space /\ mm[call.proc] = NULL /\ call.prog \in Programs
      /\ IsSpace(work)
  BY <1>1, Before DEF Calling, InCall, Building, Loading
<1>3. call' \in CallType /\ call'.proc = call.proc /\ call'.prog = call.prog
  BY <1>1, <1>2 DEF CallType
<1>4. Spaces'
  BY <1>1, <1>2, Before, SpacesBuilt DEF Building, Loading, Copying
<1>5. Calling'
  BY <1>1, <1>2, <1>3 DEF Calling, Building, Copying, Loading, InCall
<1> QED BY <1>1, <1>4, <1>5, NotChecking DEF AreaInv, Checking

\* The new address space becomes the one of the process.
LEMMA DoneStep ==
    ASSUME AreaInv, LoadDone \/ ForkDone
    PROVE  AreaInv'
<1>1. /\ pc \in {"stack", "dup"} /\ mm' = [mm EXCEPT ![call.proc] = work]
      /\ pc' = "user" /\ call' = NoCall /\ work' = NULL
  BY DEF LoadDone, ForkDone
<1>2. call.proc \in Space /\ IsSpace(work) /\ work \in mm_struct
  BY <1>1, Before DEF Calling, InCall, Building, Loading, Copying, IsSpace
<1>3. Spaces'
  BY <1>1, <1>2, Before DEF Spaces, Building, Loading, Copying
<1>4. Calling'
  BY <1>1, FreshCall DEF Calling, Building, Copying, Loading, InCall
<1> QED BY <1>1, <1>3, <1>4, NotChecking DEF AreaInv, Checking

\* copy_mm() begins.
LEMMA ForkStep ==
    ASSUME AreaInv, NEW s \in Space, NEW t \in Space, Fork(s, t)
    PROVE  AreaInv'
<1>1. /\ mm[s] # NULL /\ mm[t] = NULL /\ Free(mem) # {} /\ mm' = mm /\ work' = mm_create(mem) /\ pc' = "dup"
      /\ call' = [NoCall EXCEPT !.proc = t, !.src = s, !.i = Len(mm[s].mmap_list)]
  BY DEF Fork
<1>2. IsSpace(mm[s]) /\ IsSpace(work')
  BY <1>1, Before, NewSpace
<1>3. PICK n \in Nat : n = Len(mm[s].mmap_list)
  BY <1>2, SpaceFacts
<1>4. call' \in CallType /\ call'.proc = t /\ call'.src = s /\ call'.i = n
  BY <1>1, <1>3, FreshCall DEF CallType
<1>5. Spaces'
  BY <1>1, <1>2, SpacesBuilt DEF Building, Copying
<1>6. Calling'
  BY <1>1, <1>3, <1>4 DEF Calling, Loading
<1> QED BY <1>1, <1>5, <1>6, NotChecking DEF AreaInv, Checking

\* A step of fork from one area, or one page, to the next.
LEMMA CopyStep ==
    ASSUME AreaInv, pc \in Copying, mm' = mm, IsSpace(work'),
           \/ pc' = "copy" /\ call.i > 0 /\ \E la : call' = [call EXCEPT !.la = la] /\ la \in Int
           \/ pc = "copy" /\ pc' = "dup" /\ call' = [call EXCEPT !.i = @ - 1]
    PROVE  AreaInv'
<1>1. /\ call \in CallType /\ call.proc \in Space /\ mm[call.proc] = NULL
      /\ call.src \in Space /\ mm[call.src] # NULL
      /\ call.i \in 0 .. Len(mm[call.src].mmap_list) /\ (pc = "copy" => call.i > 0)
  BY Before DEF Calling, InCall, Building, Copying
<1>2. Spaces'
  BY SpacesBuilt DEF Building, Copying
<1>3. CASE pc' = "copy" /\ call.i > 0 /\ \E la : call' = [call EXCEPT !.la = la] /\ la \in Int
  <2>1. PICK la \in Int : call' = [call EXCEPT !.la = la]
    BY <1>3
  <2>2. /\ call' \in CallType /\ call'.proc = call.proc
        /\ call'.src = call.src /\ call'.i = call.i
    BY <2>1, <1>1 DEF CallType
  <2>3. Calling'
    BY <2>2, <1>1, <1>3 DEF Calling, Loading
  <2> QED BY <2>3, <1>2, <1>3, NotChecking DEF AreaInv, Checking
<1>4. CASE pc = "copy" /\ pc' = "dup" /\ call' = [call EXCEPT !.i = @ - 1]
  <2>1. Len(mm[call.src].mmap_list) \in Nat
    BY <1>1, Before, SpaceFacts
  <2>2. PICK k \in 0 .. Len(mm[call.src].mmap_list) : k = call.i - 1 /\ k \in Nat
    BY <2>1, <1>1, <1>4
  <2>3. call' = [call EXCEPT !.i = k]
    BY <2>2, <1>4
  <2>4. /\ call' \in CallType /\ call'.proc = call.proc
        /\ call'.src = call.src /\ call'.i = k
    BY <2>2, <2>3, <1>1 DEF CallType
  <2>5. Calling'
    BY <2>2, <2>4, <1>1, <1>4 DEF Calling, Loading
  <2> QED BY <2>5, <1>2, <1>4, NotChecking DEF AreaInv, Checking
<1> QED BY <1>3, <1>4

\* dup_mmap() copies one area,
LEMMA DupAreaStep ==
    ASSUME AreaInv, DupArea
    PROVE  AreaInv'
<1>1. pc = "dup" /\ call.i > 0 /\ mm' = mm
  BY DEF DupArea
<1>2. /\ call \in CallType /\ call.src \in Space /\ mm[call.src] # NULL
      /\ call.i \in 0 .. Len(mm[call.src].mmap_list) /\ IsSpace(work)
  BY <1>1, Before DEF Calling, Copying, Building
<1>3. SrcArea \in vma_struct /\ InUserMemory(SrcArea) /\ SrcArea.vm_start \in Int
  <2>1. IsSpace(mm[call.src])
    BY <1>2, Before
  <2>2. call.i \in 1 .. Len(mm[call.src].mmap_list)
    BY <2>1, <1>1, <1>2, SpaceFacts
  <2>3. SrcArea \in vma_struct /\ InUserMemory(SrcArea)
    BY <2>1, <2>2, SpaceFacts DEF SrcArea
  <2> QED BY <2>3 DEF vma_struct
<1>4. PICK r : r = insert_vma_struct(work, SrcArea)
  OBVIOUS
<1>5. r.ok => IsSpace(r.mm)
  BY <1>2, <1>3, <1>4, InsertVma
<1>6. \/ Teardown(mem, work, "fork_failed")
      \/ pc' = "panic" /\ call' = call /\ work' = work
      \/ /\ r.ok /\ work' = r.mm /\ pc' = "copy"
         /\ call' = [call EXCEPT !.la = SrcArea.vm_start]
  BY <1>4 DEF DupArea
<1>7. CASE Teardown(mem, work, "fork_failed")
  BY <1>1, <1>2, <1>7, TeardownStep DEF Copying
<1>8. CASE pc' = "panic" /\ call' = call /\ work' = work
  BY <1>1, <1>2, <1>8, PanicStep
<1>9. CASE /\ r.ok /\ work' = r.mm /\ pc' = "copy"
           /\ call' = [call EXCEPT !.la = SrcArea.vm_start]
  BY <1>1, <1>3, <1>5, <1>9, CopyStep DEF Copying
<1> QED BY <1>6, <1>7, <1>8, <1>9

\* and copy_range() its pages.
LEMMA CopyRangeStep ==
    ASSUME AreaInv, CopyRange
    PROVE  AreaInv'
<1> DEFINE t == get_pte(mem, mm[call.src].pgdir, call.la, FALSE).table
           next == IF t = NULL THEN ROUNDDOWN(call.la + PTSIZE, PTSIZE) ELSE call.la + PGSIZE
           g == get_pte(mem, work.pgdir, call.la, TRUE)
           Goto == /\ call' = IF next < SrcArea.vm_end THEN [call EXCEPT !.la = next]
                              ELSE [call EXCEPT !.i = @ - 1]
                   /\ pc' = IF next < SrcArea.vm_end THEN pc ELSE "dup"
                   /\ UNCHANGED <<work, spoiled>>
<1>1. /\ pc = "copy" /\ mm' = mm
      /\ \/ Goto
         \/ Teardown(g.mem, work, "fork_failed")
         \/ pc' = "panic" /\ call' = call /\ work' = work
  BY DEF CopyRange
<1>2. call \in CallType /\ call.i > 0 /\ IsSpace(work)
  BY <1>1, Before DEF Calling, Copying, Building
<1>3. next \in Int
  <2>1. call.la \in Int /\ PGSIZE \in Nat \ {0}
    BY <1>2, Constants DEF CallType
  <2>2. PTSIZE \in Nat \ {0}
    <3>1. ASSUME NEW n \in Nat \ {0}, NEW d \in Nat \ {0} PROVE n * d \in Nat \ {0}
      OBVIOUS
    <3> QED BY <3>1, <2>1, PageTableAssumption DEF PTSIZE
  <2>3. ASSUME NEW x \in Int, NEW n \in Nat \ {0} PROVE ROUNDDOWN(x + n, n) \in Int
    BY DEF ROUNDDOWN
  <2> HIDE DEF t
  <2> QED BY <2>1, <2>2, <2>3
<1>4. CASE Goto
  <2> HIDE DEF next
  <2>1. CASE next < SrcArea.vm_end
    <3>1. pc' = "copy" /\ call' = [call EXCEPT !.la = next] /\ work' = work
      BY <1>1, <1>4, <2>1
    <3> QED BY <3>1, <1>1, <1>2, <1>3, CopyStep DEF Copying
  <2>2. CASE ~(next < SrcArea.vm_end)
    <3>1. pc' = "dup" /\ call' = [call EXCEPT !.i = @ - 1] /\ work' = work
      BY <1>1, <1>4, <2>2
    <3> QED BY <3>1, <1>1, <1>2, CopyStep DEF Copying
  <2> QED BY <2>1, <2>2
<1>5. CASE Teardown(g.mem, work, "fork_failed")
  <2> HIDE DEF g
  <2> QED BY <1>1, <1>2, <1>5, TeardownStep DEF Copying
<1>6. CASE pc' = "panic" /\ call' = call /\ work' = work
  BY <1>1, <1>2, <1>6, PanicStep
<1> QED BY <1>1, <1>4, <1>5, <1>6

-----------------------------------------------------------------------------
\* Only addresses of user memory are allowed.
LEMMA AllowedAddress ==
    ASSUME AreaInv, NEW s \in Space, mm[s] # NULL, NEW a \in Int, NEW write, Allowed(s, a, write)
    PROVE  UserBase <= a /\ a < UserTop
<1>1. PICK vma \in Range(mm[s].mmap_list) : Holds(vma, a)
  BY DEF Allowed
<1>2. IsSpace(mm[s])
  BY Before
<1>3. vma \in vma_struct /\ InUserMemory(vma)
  BY <1>2, SpaceFacts
<1>4. vma.vm_start \in Int /\ vma.vm_end \in Int
  BY <1>3 DEF vma_struct
<1> QED BY <1>1, <1>3, <1>4, Constants DEF Holds, InUserMemory

\* user_mem_check() begins; no bytes, and bytes outside user memory, are refused.
LEMMA MemCheckStep ==
    ASSUME AreaInv, NEW s \in Space, NEW start \in Nat, NEW end \in Nat,
           NEW write \in BOOLEAN, MemCheck(s, start, end, write)
    PROVE  AreaInv'
<1>1. /\ pc = "user" /\ mm[s] # NULL /\ mm' = mm /\ work' = work
      /\ call' = [NoCall EXCEPT !.proc = s, !.start = start, !.la = start,
                                !.end = end, !.write = write]
      /\ pc' = IF USER_ACCESS(start, end) THEN "check" ELSE "no"
  BY DEF MemCheck
<1>2. /\ call' \in CallType /\ call'.proc = s /\ call'.start = start /\ call'.la = start
      /\ call'.end = end /\ call'.write = write
  <2>1. call' = [proc |-> s, src |-> NULL, prog |-> NULL, then |-> "none", i |-> 0,
                 start |-> start, end |-> end, la |-> start, page |-> NULL, write |-> write]
    BY <1>1 DEF NoCall
  <2>2. start \in Int /\ end \in Int
    OBVIOUS
  <2>3. call' \in CallType
    BY <2>1, <2>2 DEF CallType
  <2> QED BY <2>1, <2>3
<1>3. Spaces'
  BY <1>1, Before, SpacesIdle DEF Building, Loading, Copying
<1>4. Calling'
  BY <1>1, <1>2 DEF Calling, Building, Loading, Copying
<1>5. MemChecking'
  BY <1>1, <1>2 DEF MemChecking, USER_ACCESS
<1>6. ASSUME ~USER_ACCESS(start, end), start < end
      PROVE  \E a \in start .. end - 1 : ~Allowed(s, a, write)
  <2>1. CASE ~(UserBase <= start)
    <3>1. ~Allowed(s, start, write)
      BY <1>1, <2>1, AllowedAddress
    <3> QED BY <3>1, <1>6
  <2>2. CASE ~(end <= UserTop)
    <3>1. ~(end - 1 < UserTop) /\ end - 1 \in start .. end - 1
      BY <1>6, <2>2, Constants
    <3>2. ~Allowed(s, end - 1, write)
      BY <1>1, <3>1, AllowedAddress
    <3> QED BY <3>1, <3>2
  <2> QED BY <1>6, <2>1, <2>2 DEF USER_ACCESS
<1>7. MemCheckExact'
  <2>1. ASSUME NEW a PROVE Allowed(call.proc, a, call.write)' <=> Allowed(s, a, write)
    BY <1>1, <1>2 DEF Allowed
  <2>2. CASE pc' = "check"
    BY <2>2 DEF MemCheckExact
  <2>3. CASE pc' = "no" /\ ~USER_ACCESS(start, end)
    BY <1>1, <1>2, <1>6, <2>3 DEF MemCheckExact, Allowed
  <2> QED BY <1>1, <2>2, <2>3
<1> QED BY <1>3, <1>4, <1>5, <1>7 DEF AreaInv

\* One round of user_mem_check().
LEMMA MemCheckRoundStep ==
    ASSUME AreaInv, MemCheckRound
    PROVE  AreaInv'
<1> DEFINE s == call.proc
           vma == find_vma(mm[s], call.start)
           need == IF call.write THEN "WRITE" ELSE "READ"
           refused == \/ vma = NULL
                      \/ need \notin vma.vm_flags
                      \/ /\ call.write /\ "STACK" \in vma.vm_flags
                         /\ call.start < vma.vm_start + PGSIZE
<1>1. /\ pc = "check" /\ work' = work
      /\ \/ call.start >= call.end /\ pc' = "yes" /\ mm' = mm /\ call' = call
         \/ /\ ~(call.start >= call.end)
            /\ mm' = [mm EXCEPT ![s] = found(mm[s], call.start)]
            /\ \/ refused /\ pc' = "no" /\ call' = call
               \/ ~refused /\ pc' = "check" /\ call' = [call EXCEPT !.start = vma.vm_end]
  BY DEF MemCheckRound
<1>2. /\ call \in CallType /\ s \in Space /\ mm[s] # NULL /\ IsSpace(mm[s])
      /\ USER_ACCESS(call.la, call.end) /\ call.la <= call.start
      /\ \A a \in call.la .. call.end - 1 : a < call.start => Allowed(s, a, call.write)
  BY <1>1, Before DEF Calling, InCall, AreaInv, MemChecking, Checking
<1>3. call.start \in Int /\ call.end \in Int /\ call.la \in Int /\ call.la < call.end
  BY <1>2 DEF CallType, USER_ACCESS
<1>4. work' = NULL /\ pc' \in {"check", "yes", "no"} /\ pc' \notin Building /\ pc' \notin Loading /\ pc' \notin Copying
  BY <1>1, Before DEF Building, Loading, Copying
<1>5. CASE call.start >= call.end /\ pc' = "yes" /\ mm' = mm /\ call' = call
  <2>1. Spaces'
    BY <1>4, <1>5, SpacesIdle
  <2>2. Calling'
    BY <1>2, <1>4, <1>5 DEF Calling
  <2>3. ASSUME NEW a PROVE Allowed(call.proc, a, call.write)' <=> Allowed(s, a, call.write)
    BY <1>5 DEF Allowed
  <2>4. \A a \in call.la .. call.end - 1 : Allowed(s, a, call.write)
    BY <1>2, <1>3, <1>5
  <2>5. MemChecking' /\ MemCheckExact'
    BY <1>2, <1>3, <1>5, <2>3, <2>4 DEF MemChecking, MemCheckExact
  <2> QED BY <2>1, <2>2, <2>5 DEF AreaInv
<1>6. CASE /\ ~(call.start >= call.end)
           /\ mm' = [mm EXCEPT ![s] = found(mm[s], call.start)]
  <2>1. PICK sp : sp = found(mm[s], call.start)
    OBVIOUS
  <2>2. IsSpace(sp) /\ sp \in mm_struct /\ sp.mmap_list = mm[s].mmap_list /\ sp # NULL
    <3>1. IsSpace(sp) /\ sp.mmap_list = mm[s].mmap_list
      BY <1>2, <1>3, <2>1, Found
    <3> QED BY <3>1, Constants DEF IsSpace
  <2>3. /\ mm' \in [Space -> mm_struct \cup {NULL}] /\ mm'[s] = sp
        /\ \A r \in Space : r # s => mm'[r] = mm[r]
    BY <1>2, <1>6, <2>1, <2>2, Before DEF Spaces
  <2>4. Spaces'
    BY <2>2, <2>3, <1>4, Before DEF Spaces
  <2>5. ASSUME call' \in CallType, call'.proc = s, call'.write = call.write, NEW a
        PROVE  Allowed(call.proc, a, call.write)' <=> Allowed(s, a, call.write)
    BY <2>2, <2>3, <2>5 DEF Allowed
  <2>6. /\ vma # NULL => vma \in Range(mm[s].mmap_list) /\ Holds(vma, call.start)
        /\ \A v \in Range(mm[s].mmap_list) : Holds(v, call.start) => v = vma /\ v # NULL
    BY <1>2, <1>3, FindVma
  <2>7. CASE refused /\ pc' = "no" /\ call' = call
    <3>1. ~Allowed(s, call.start, call.write)
      <4> SUFFICES ASSUME Allowed(s, call.start, call.write) PROVE FALSE
        OBVIOUS
      <4>1. PICK v \in Range(mm[s].mmap_list) :
               /\ Holds(v, call.start) /\ need \in v.vm_flags
               /\ call.write /\ "STACK" \in v.vm_flags => call.start >= v.vm_start + PGSIZE
        BY DEF Allowed
      <4>2. v = vma /\ v # NULL
        BY <2>6, <4>1
      <4>3. v.vm_start \in Int /\ PGSIZE \in Int
        BY <1>2, SpaceFacts, Constants DEF vma_struct
      <4>4. call.write /\ "STACK" \in v.vm_flags => ~(call.start < v.vm_start + PGSIZE)
        BY <1>3, <4>1, <4>3
      <4>5. refused
        BY <2>7
      <4> HIDE DEF vma
      <4> QED BY <4>1, <4>2, <4>4, <4>5
    <3>2. call.start \in call.la .. call.end - 1
      BY <1>2, <1>3, <1>6
    <3>3. MemCheckExact'
      BY <1>2, <2>5, <2>7, <3>1, <3>2 DEF MemCheckExact
    <3>4. MemChecking' /\ Calling'
      BY <1>2, <2>2, <2>3, <2>7 DEF MemChecking, Calling, Building, Loading, Copying
    <3> QED BY <2>4, <3>3, <3>4 DEF AreaInv
  <2>8. CASE ~refused /\ pc' = "check" /\ call' = [call EXCEPT !.start = vma.vm_end]
    <3>1. /\ vma \in Range(mm[s].mmap_list) /\ vma.vm_start \in Int /\ vma.vm_end \in Int
          /\ Holds(vma, call.start)
      <4>1. vma \in Range(mm[s].mmap_list) /\ Holds(vma, call.start)
        BY <2>6, <2>8
      <4>2. vma \in vma_struct
        BY <4>1, <1>2, SpaceFacts
      <4> QED BY <4>1, <4>2 DEF vma_struct
    <3>2. PICK e \in Int : e = vma.vm_end
      BY <3>1
    <3>3. call' = [call EXCEPT !.start = e]
      BY <2>8, <3>2
    <3>4. /\ call' \in CallType /\ call'.proc = s /\ call'.write = call.write
          /\ call'.la = call.la /\ call'.end = call.end /\ call'.start = e
      BY <3>3, <1>2 DEF CallType
    <3>5. ASSUME NEW a \in Int, call.start <= a, a < e PROVE Allowed(s, a, call.write)
      <4>1. Holds(vma, a)
        BY <1>3, <3>1, <3>2, <3>5 DEF Holds
      <4>2. need \in vma.vm_flags
        BY <2>8
      <4>3. call.write /\ "STACK" \in vma.vm_flags => a >= vma.vm_start + PGSIZE
        <5>1. call.write /\ "STACK" \in vma.vm_flags => ~(call.start < vma.vm_start + PGSIZE)
          BY <2>8
        <5> QED BY <5>1, <3>1, <3>5, <1>3, Constants
      <4> QED BY <4>1, <4>2, <4>3, <3>1 DEF Allowed
    <3>6. call.la <= e
      BY <1>2, <1>3, <3>1, <3>2 DEF Holds
    <3>7. ASSUME NEW a \in call.la .. call.end - 1, a < e PROVE Allowed(s, a, call.write)
      <4>1. a \in Int /\ (a < call.start \/ call.start <= a)
        BY <1>3
      <4> QED BY <4>1, <1>2, <3>5, <3>7
    <3>8. MemChecking'
      <4>1. mm'[call'.proc] # NULL
        BY <2>2, <2>3, <3>4
      <4>2. \A a \in call'.la .. call'.end - 1 :
               a < call'.start => Allowed(call.proc, a, call.write)'
        BY <2>5, <3>4, <3>7
      <4> QED BY <4>1, <4>2, <2>8, <1>2, <3>4, <3>6 DEF MemChecking
    <3>9. Calling'
      BY <1>2, <2>8, <3>4 DEF Calling, Building, Loading, Copying
    <3>10. MemCheckExact'
      BY <2>8 DEF MemCheckExact
    <3> QED BY <2>4, <3>8, <3>9, <3>10 DEF AreaInv
  <2> QED BY <1>1, <1>6, <2>7, <2>8
<1> QED BY <1>1, <1>5, <1>6

\* A call that returns, and a user program that stores.
LEMMA UserStep ==
    ASSUME AreaInv, MemCheckReturn \/ \E s \in Space, a \in StoreAddr : Store(s, a)
    PROVE  AreaInv'
<1>1. /\ mm' = mm /\ work' = work /\ pc' = "user" /\ pc \in {"yes", "no", "user"}
      /\ call' = NoCall \/ (pc = "user" /\ call' = call)
  BY DEF MemCheckReturn, Store
<1>2. Spaces'
  BY <1>1, Before, SpacesIdle DEF Building, Loading, Copying
<1>3. Calling'
  BY <1>1, FreshCall, Before DEF Calling, Building, Loading, Copying, InCall
<1> QED BY <1>1, <1>2, <1>3, NotChecking DEF AreaInv, Checking

\* Nothing happens.
LEMMA StutterStep ==
    ASSUME AreaInv, UNCHANGED vars
    PROVE  AreaInv'
BY DEF AreaInv, Spaces, Calling, MemChecking, MemCheckExact, Allowed, vars, Segments, InCall

-----------------------------------------------------------------------------
\* The areas of every process stay apart, in order, and made of pages of user
\* memory, and a call has the variables it needs: copy_mm(), load_icode() and
\* user_mem_check() never look at an area or a segment that is not there.
THEOREM AreaInvariant == IdealSpec => []AreaInv
<1>1. Init => AreaInv
  <2> SUFFICES ASSUME Init PROVE AreaInv
    OBVIOUS
  <2>1. pc = "boot" /\ mm = [s \in Space |-> NULL] /\ work = NULL
    BY DEF Init
  <2>2. pc \notin Building /\ pc \notin Checking
    BY <2>1 DEF Building, Loading, Copying, Checking
  <2>3. Spaces
    BY <2>1, <2>2 DEF Spaces
  <2>4. Calling
    BY <2>1 DEF Calling, Building, Loading, Copying, InCall
  <2> QED BY <2>2, <2>3, <2>4 DEF AreaInv, MemChecking, MemCheckExact, Checking
<1>2. AreaInv /\ [Next]_vars => AreaInv'
  <2> SUFFICES ASSUME AreaInv, [Next]_vars PROVE AreaInv'
    OBVIOUS
  <2>1. CASE Boot
    BY <2>1, BootStep
  <2>2. CASE Run
    BY <2>2, UnmapStep, ExitRangeStep, LoadStep, LoadSegmentStep, LoadBadMagicStep,
       LoadFileStep, LoadEdgeStep, LoadBssStep, LoadStackStep, LoadStackPageStep, DoneStep,
       DupAreaStep, CopyRangeStep, MemCheckRoundStep, UserStep
    DEF Run
  <2>3. CASE Begin
    <3>1. CASE UserMain
      BY <3>1, UserMainStep
    <3>2. ASSUME NEW s \in Space, Exit(s) \/ Exec(s) PROVE AreaInv'
      BY <3>2, ExecExitStep
    <3>3. ASSUME NEW s \in Space, NEW t \in Space, Fork(s, t) PROVE AreaInv'
      BY <3>3, ForkStep
    <3>4. ASSUME NEW s \in Space, NEW a \in StoreAddr, Store(s, a) PROVE AreaInv'
      BY <3>4, UserStep
    <3>5. ASSUME NEW s \in Space, NEW c \in Checks, NEW write \in BOOLEAN,
                 MemCheck(s, c[1], c[2], write)
          PROVE  AreaInv'
      <4>1. c[1] \in Nat /\ c[2] \in Nat
        BY ProgramAssumption
      <4> QED BY <4>1, <3>5, MemCheckStep
    <3> QED BY <2>3, <3>1, <3>2, <3>3, <3>4, <3>5 DEF Begin
  <2>4. CASE Stopped
    BY <2>4, StutterStep DEF Stopped
  <2>5. CASE UNCHANGED vars
    BY <2>5, StutterStep
  <2> QED BY <2>1, <2>2, <2>3, <2>4, <2>5 DEF Next
<1> QED BY <1>1, <1>2, PTL DEF IdealSpec

\* find_vma() answers the same whatever area the address space found last: the
\* one area that holds the address, or NULL.
THEOREM FindVmaIsExact == IdealSpec => []FindVmaExact
<1>1. AreaInv => FindVmaExact
  <2> SUFFICES ASSUME AreaInv, NEW s \in Space, NEW a \in Addr, mm[s] # NULL
               PROVE  {find_vma(mm[s], a)} \ {NULL}
                          = {vma \in Range(mm[s].mmap_list) : Holds(vma, a)}
    BY DEF FindVmaExact
  <2>1. IsSpace(mm[s]) /\ a \in Int
    BY Before, Constants DEF Addr
  <2> QED BY <2>1, FindVma
<1> QED BY <1>1, AreaInvariant, PTL

\* user_mem_check() says yes exactly if there is a byte to check and every one
\* may be used as asked, however many areas the interval lies in.
THEOREM MemCheckIsExact == IdealSpec => []MemCheckExact
<1>1. AreaInv => MemCheckExact
  BY DEF AreaInv
<1> QED BY <1>1, AreaInvariant, PTL

-----------------------------------------------------------------------------
Table == {"pgdir", "pd0", "pt"}
Memory == [use : [Page -> {"free", "user"} \cup Table], ref : [Page -> Nat],
           entry : [Page \cup {boot_pgdir} -> [Index -> PTE]],
           data : [Page -> [0 .. PGSIZE - 1 -> Int]]]

\* What a table of one kind refers to.
Child(use) == IF use = "pgdir" THEN "pd0" ELSE IF use = "pd0" THEN "pt" ELSE "user"

\* Entry i of table t is valid, and the page it refers to.
IsSlot(m, t, i) == m.use[t] \in Table /\ m.entry[t][i] # NULL
Aim(m, t, i) == m.entry[t][i].page

\* The tables of a memory: a valid entry refers to a page of the next kind, no two
\* to the same, and what is referred to has count 1.
Good(m) ==
    /\ m \in Memory
    /\ \A p \in Page : m.use[p] \in {"free", "pgdir"} => m.ref[p] = 0
    /\ \A t \in Page, i \in Index : IsSlot(m, t, i) =>
          m.use[Aim(m, t, i)] = Child(m.use[t]) /\ m.ref[Aim(m, t, i)] = 1
    /\ \A t, u \in Page, i, j \in Index :
          IsSlot(m, t, i) /\ IsSlot(m, u, j) /\ Aim(m, t, i) = Aim(m, u, j) => t = u /\ i = j

-----------------------------------------------------------------------------
\* What pages and entries are.
LEMMA PageFacts ==
    /\ Page \subseteq Nat /\ boot_pgdir \notin Page
    /\ \A e \in PTE : e # NULL => e.page \in Page /\ e.perm \in Perm
    /\ \A p \in Page, bits \in Perm : /\ pte_create(p, bits) \in PTE
                                      /\ pte_create(p, bits) # NULL
                                      /\ pte_create(p, bits).page = p
    /\ NoEntries \in [Index -> PTE] /\ JunkBytes \in [0 .. PGSIZE - 1 -> Int]
    /\ \A p \in Page : JunkEntries(p) \in [Index -> PTE]
<1>1. Page \subseteq Nat /\ boot_pgdir \notin Page
  BY PageTableAssumption DEF Page, boot_pgdir
<1>2. \A e \in PTE : e # NULL => e.page \in Page /\ e.perm \in Perm
  BY DEF PTE
<1>3. ASSUME NEW p \in Page, NEW bits \in Perm
      PROVE  /\ pte_create(p, bits) \in PTE /\ pte_create(p, bits) # NULL
             /\ pte_create(p, bits).page = p
  <2>1. pte_create(p, bits) \in [page : Page, perm : Perm] /\ pte_create(p, bits).page = p
    BY DEF pte_create
  <2> QED BY <2>1, Constants DEF PTE
<1>4. NoEntries \in [Index -> PTE] /\ JunkBytes \in [0 .. PGSIZE - 1 -> Int]
  BY DEF NoEntries, JunkBytes, PTE
<1>5. \A p \in Page : JunkEntries(p) \in [Index -> PTE]
  BY <1>3 DEF JunkEntries, Perm, PTE_USER
<1> QED BY <1>1, <1>2, <1>3, <1>4, <1>5

\* The page that a valid entry refers to.
LEMMA SlotFacts ==
    ASSUME NEW m, Good(m), NEW t \in Page, NEW i \in Index, IsSlot(m, t, i)
    PROVE  /\ Aim(m, t, i) \in Page /\ m.use[Aim(m, t, i)] = Child(m.use[t])
           /\ m.ref[Aim(m, t, i)] = 1
<1>1. m.entry[t][i] \in PTE /\ m.entry[t][i] # NULL
  BY DEF Good, Memory, IsSlot
<1> QED BY <1>1, PageFacts DEF Good, Aim

\* The memory n is m without the entries C, and with the pages F freed, to which no
\* other entry refers.
Pruned(m, n, C, F) ==
    /\ n \in Memory
    /\ \A p \in Page : n.use[p] = IF p \in F THEN "free" ELSE m.use[p]
    /\ \A p \in Page : n.ref[p] = IF p \in F THEN 0 ELSE m.ref[p]
    /\ \A t \in Page \ F, i \in Index :
          n.entry[t][i] = IF <<t, i>> \in C THEN NULL ELSE m.entry[t][i]
    /\ \A t \in Page, i \in Index :
          IsSlot(m, t, i) /\ Aim(m, t, i) \in F => t \in F \/ <<t, i>> \in C

\* Pruning keeps the trees,
LEMMA PruneGood ==
    ASSUME NEW m, NEW n, NEW C, NEW F, Good(m), Pruned(m, n, C, F)
    PROVE  Good(n)
<1>1. ASSUME NEW t \in Page, NEW i \in Index, IsSlot(n, t, i)
      PROVE  /\ t \notin F /\ IsSlot(m, t, i) /\ Aim(n, t, i) = Aim(m, t, i)
             /\ Aim(m, t, i) \in Page \ F
  <2>1. t \notin F
    BY <1>1 DEF Pruned, IsSlot, Table
  <2>2. IsSlot(m, t, i) /\ Aim(n, t, i) = Aim(m, t, i) /\ <<t, i>> \notin C
    BY <1>1, <2>1 DEF Pruned, IsSlot, Aim
  <2> QED BY <2>1, <2>2, SlotFacts DEF Pruned
<1>2. ASSUME NEW t \in Page, NEW i \in Index, IsSlot(n, t, i)
      PROVE  n.use[Aim(n, t, i)] = Child(n.use[t]) /\ n.ref[Aim(n, t, i)] = 1
  BY <1>1, <1>2, SlotFacts DEF Pruned
<1>3. ASSUME NEW t \in Page, NEW u \in Page, NEW i \in Index, NEW j \in Index,
             IsSlot(n, t, i), IsSlot(n, u, j), Aim(n, t, i) = Aim(n, u, j)
      PROVE  t = u /\ i = j
  BY <1>1, <1>3 DEF Good
<1>4. \A p \in Page : n.use[p] \in {"free", "pgdir"} => n.ref[p] = 0
  BY DEF Pruned, Good
<1>5. n \in Memory
  BY DEF Pruned
<1> QED BY <1>2, <1>3, <1>4, <1>5 DEF Good

\* The memory n is m with the page p, to which nothing refers, hooked into entry i of
\* table t.
Hooked(m, n, t, i, p) ==
    /\ n \in Memory /\ t \in Page /\ i \in Index /\ p \in Page /\ p # t
    /\ m.use[t] \in Table /\ m.entry[t][i] = NULL
    /\ m.ref[p] = 0 /\ m.use[p] \notin Table
    /\ n.use[p] = Child(m.use[t]) /\ n.ref[p] = 1
    /\ n.entry[t][i] # NULL /\ n.entry[t][i].page = p
    /\ n.use[p] \in Table => \A j \in Index : n.entry[p][j] = NULL
    /\ \A q \in Page : q # p => n.use[q] = m.use[q] /\ n.ref[q] = m.ref[q]
    /\ \A u \in Page, j \in Index :
          u # p /\ ~(u = t /\ j = i) => n.entry[u][j] = m.entry[u][j]

\* and so does hooking.
LEMMA HookGood ==
    ASSUME NEW m, NEW n, NEW t, NEW i, NEW p, Good(m), Hooked(m, n, t, i, p)
    PROVE  Good(n)
<1>1. ASSUME NEW u \in Page, NEW j \in Index, IsSlot(n, u, j)
      PROVE  \/ u = t /\ j = i /\ Aim(n, u, j) = p
             \/ /\ ~(u = t /\ j = i) /\ u # p /\ IsSlot(m, u, j) /\ Aim(n, u, j) = Aim(m, u, j)
                /\ Aim(m, u, j) # p
  <2>1. CASE u = t /\ j = i
    BY <2>1 DEF Hooked, Aim
  <2>2. CASE ~(u = t /\ j = i)
    <3>1. u # p
      BY <1>1 DEF Hooked, IsSlot
    <3>2. IsSlot(m, u, j) /\ Aim(n, u, j) = Aim(m, u, j)
      BY <1>1, <2>2, <3>1 DEF Hooked, IsSlot, Aim
    <3>3. m.ref[Aim(m, u, j)] = 1 /\ m.ref[p] = 0
      BY <3>2, SlotFacts DEF Hooked
    <3> QED BY <2>2, <3>1, <3>2, <3>3
  <2> QED BY <2>1, <2>2
<1>2. ASSUME NEW u \in Page, NEW j \in Index, IsSlot(n, u, j)
      PROVE  n.use[Aim(n, u, j)] = Child(n.use[u]) /\ n.ref[Aim(n, u, j)] = 1
  <2>1. CASE u = t /\ j = i /\ Aim(n, u, j) = p
    BY <2>1 DEF Hooked
  <2>2. CASE /\ ~(u = t /\ j = i) /\ u # p /\ IsSlot(m, u, j) /\ Aim(n, u, j) = Aim(m, u, j)
             /\ Aim(m, u, j) # p
    BY <2>2, SlotFacts DEF Hooked
  <2> QED BY <1>1, <1>2, <2>1, <2>2
<1>3. ASSUME NEW v \in Page, NEW u \in Page, NEW k \in Index, NEW j \in Index,
             IsSlot(n, v, k), IsSlot(n, u, j), Aim(n, v, k) = Aim(n, u, j)
      PROVE  v = u /\ k = j
  BY <1>1, <1>3 DEF Good
<1>4. \A q \in Page : n.use[q] \in {"free", "pgdir"} => n.ref[q] = 0
  BY DEF Hooked, Good, Child, Table
<1>5. n \in Memory
  BY DEF Hooked
<1> QED BY <1>2, <1>3, <1>4, <1>5 DEF Good
-----------------------------------------------------------------------------
\* The indexes of an address of the user half are those of entries.
LEMMA Indexes ==
    ASSUME NEW la \in Nat, la < UserTop
    PROVE  PDX1(la) \in Index /\ PDX0(la) \in Index /\ PTX(la) \in Index
<1>1. PICK e \in Nat \ {0} : e = NEntry
  BY PageTableAssumption
<1>2. PICK g \in Nat \ {0} : g = PGSIZE
  BY PageTableAssumption
<1>3. PICK t \in Nat \ {0} : t = e * g
  OBVIOUS
<1>4. PICK d \in Nat \ {0} : d = e * t
  OBVIOUS
<1>5. PTSIZE = t /\ PDSIZE = d
  BY <1>1, <1>2, <1>3, <1>4 DEF PTSIZE, PDSIZE
<1>6. UserTop \in Nat /\ UserTop <= e * d
  BY <1>1, <1>5, Constants, AddressSpaceAssumption
<1>7. la \div d \in 0 .. e - 1
  <2>1. PICK q \in Nat : q = la \div d
    OBVIOUS
  <2>2. la = d * q + (la % d) /\ la % d \in Nat
    BY <2>1
  <2>3. d * q <= la /\ la < e * d
    BY <2>2, <1>6
  <2>4. ASSUME q >= e PROVE FALSE
    <3>1. PICK k \in Nat : q = e + k
      BY <2>4
    <3>2. d * q = d * e + d * k /\ d * k >= 0
      BY <3>1
    <3> QED BY <3>2, <2>3
  <2> QED BY <2>1, <2>4
<1>8. (la \div t) % e \in 0 .. e - 1 /\ (la \div g) % e \in 0 .. e - 1
  OBVIOUS
<1> QED BY <1>1, <1>2, <1>5, <1>7, <1>8 DEF PDX1, PDX0, PTX, Index

\* A memory with other tables.
LEMMA SameData ==
    ASSUME NEW m \in Memory, NEW use \in [Page -> {"free", "user"} \cup Table],
           NEW ref \in [Page -> Nat], NEW entry \in [Page \cup {boot_pgdir} -> [Index -> PTE]]
    PROVE  [use |-> use, ref |-> ref, entry |-> entry, data |-> m.data] \in Memory
<1>1. PICK B : B = [0 .. PGSIZE - 1 -> Int]
  OBVIOUS
<1>2. m.data \in [Page -> B]
  BY <1>1 DEF Memory
<1>3. [use |-> use, ref |-> ref, entry |-> entry, data |-> m.data]
         \in [use : [Page -> {"free", "user"} \cup Table], ref : [Page -> Nat],
              entry : [Page \cup {boot_pgdir} -> [Index -> PTE]], data : [Page -> B]]
  BY <1>2
<1> QED BY <1>1, <1>3 DEF Memory

\* What free_page() does.
Freed(m, n, F) ==
    /\ n \in Memory
    /\ \A p \in Page : n.use[p] = IF p \in F THEN "free" ELSE m.use[p]
    /\ \A p \in Page : n.ref[p] = IF p \in F THEN 0 ELSE m.ref[p]
    /\ \A t \in Page \cup {boot_pgdir} : t \notin F => n.entry[t] = m.entry[t]

\* free_page()
LEMMA FreePage ==
    ASSUME NEW m \in Memory, NEW F \in SUBSET Page
    PROVE  Freed(m, free_page(m, F), F)
<1>1. PICK n : n = free_page(m, F)
  OBVIOUS
<1>2. /\ n.use = [p \in Page |-> IF p \in F THEN "free" ELSE m.use[p]]
      /\ n.ref = [p \in Page |-> IF p \in F THEN 0 ELSE m.ref[p]]
      /\ n.entry = [t \in Page \cup {boot_pgdir} |-> IF t \in F THEN JunkEntries(t) ELSE m.entry[t]]
      /\ n.data = [p \in Page |-> IF p \in F THEN JunkBytes ELSE m.data[p]]
  BY <1>1 DEF free_page, Memory
<1>3. n = [use |-> n.use, ref |-> n.ref, entry |-> n.entry, data |-> n.data]
  BY <1>1 DEF free_page
<1>4. n.use \in [Page -> {"free", "user"} \cup Table] /\ n.ref \in [Page -> Nat]
  BY <1>2 DEF Memory
<1>5. n.entry \in [Page \cup {boot_pgdir} -> [Index -> PTE]]
  <2>1. \A t \in Page \cup {boot_pgdir} : n.entry[t] \in [Index -> PTE]
    <3>1. m.entry \in [Page \cup {boot_pgdir} -> [Index -> PTE]]
      BY DEF Memory
    <3>2. \A t \in F : JunkEntries(t) \in [Index -> PTE]
      BY PageFacts
    <3> QED BY <1>2, <3>1, <3>2
  <2> QED BY <1>2, <2>1
<1>6. n.data \in [Page -> [0 .. PGSIZE - 1 -> Int]]
  BY <1>2, PageFacts DEF Memory
<1>7. n \in Memory
  BY <1>3, <1>4, <1>5, <1>6 DEF Memory
<1>8. \A p \in Page : /\ n.use[p] = IF p \in F THEN "free" ELSE m.use[p]
                     /\ n.ref[p] = IF p \in F THEN 0 ELSE m.ref[p]
  BY <1>2
<1>9. \A t \in Page \cup {boot_pgdir} : t \notin F => n.entry[t] = m.entry[t]
  BY <1>2
<1> QED BY <1>1, <1>7, <1>8, <1>9 DEF Freed

-----------------------------------------------------------------------------
\* The page directories.
Dirs(m) == {p \in Page : m.use[p] = "pgdir"}
Keeps(m, n) == Good(n) /\ n.entry[boot_pgdir] = m.entry[boot_pgdir] /\ Dirs(n) = Dirs(m)

\* Old entries stay, and the new ones refer to new tables.
Widened(m, n) ==
    /\ \A t \in Page, i \in Index : IsSlot(m, t, i) => n.entry[t][i] = m.entry[t][i]
    /\ \A t \in Page, i \in Index : IsSlot(n, t, i) =>
          \/ IsSlot(m, t, i) /\ n.use[t] = m.use[t]
          \/ n.use[t] # "pt" /\ m.use[Aim(n, t, i)] = "free"

\* A page that an entry refers to,
Parent(m, p) == \E t \in Page, i \in Index : IsSlot(m, t, i) /\ Aim(m, t, i) = p
\* as one does to every page that is used for a new table.
Joined(m, n) ==
    \A p \in Page : m.use[p] = "free" =>
        n.use[p] = "free" \/ (n.use[p] \in {"pd0", "pt"} /\ Parent(n, p))
\* And nothing that was in use has changed its use or its count.
Grown(m, n) ==
    /\ Keeps(m, n) /\ Widened(m, n) /\ Joined(m, n)
    /\ \A p \in Page : m.use[p] # "free" => n.use[p] = m.use[p] /\ n.ref[p] = m.ref[p]

\* The tables of root lead to the page table t of la.
Leads(m, root, la, t) ==
    \E d \in Page : /\ IsSlot(m, root, PDX1(la)) /\ Aim(m, root, PDX1(la)) = d
                    /\ IsSlot(m, d, PDX0(la)) /\ Aim(m, d, PDX0(la)) = t

\* The memory n is m with a new table p below entry i of table t.
Made(m, n, t, i, p, use) ==
    /\ n \in Memory
    /\ n.use = [m.use EXCEPT ![p] = use] /\ n.ref = [m.ref EXCEPT ![p] = 1]
    /\ n.entry = [m.entry EXCEPT ![p] = NoEntries,
                                 ![t] = [m.entry[t] EXCEPT ![i] = pte_create(p, {"U"})]]

\* One level of get_pte(), when it makes a table.
LEMMA LevelMakes ==
    ASSUME NEW m \in Memory, NEW t \in Page \cup {boot_pgdir}, NEW i \in Index,
           NEW use \in {"pd0", "pt"}, NEW create \in BOOLEAN, create,
           m.entry[t][i] = NULL, Free(m) # {}, alloc_page(m) # t
    PROVE  \E n : /\ level(m, t, i, use, create) = [mem |-> n, table |-> alloc_page(m)]
                  /\ Made(m, n, t, i, alloc_page(m), use)
<1>1. PICK p \in Page : p = alloc_page(m)
  BY AllocPage
<1>2. PICK e \in PTE : e = pte_create(p, {"U"})
  BY PageFacts DEF Perm
<1>3. PICK n : n = [Used(m, p, use) EXCEPT !.ref[p] = 1, !.entry[p] = NoEntries, !.entry[t][i] = e]
  OBVIOUS
<1>4. level(m, t, i, use, create) = [mem |-> n, table |-> p]
  BY <1>1, <1>2, <1>3 DEF level
<1>5. PICK ref : ref = [m.ref EXCEPT ![p] = 1]
  OBVIOUS
<1>6. PICK f : f = [m.use EXCEPT ![p] = use]
  OBVIOUS
<1>7. PICK g : g = [m.entry EXCEPT ![p] = NoEntries]
  OBVIOUS
<1>8. PICK h : h = [g EXCEPT ![t] = [m.entry[t] EXCEPT ![i] = e]]
  OBVIOUS
<1>9. /\ m.use \in [Page -> {"free", "user"} \cup Table] /\ m.ref \in [Page -> Nat]
      /\ m.entry \in [Page \cup {boot_pgdir} -> [Index -> PTE]]
  BY DEF Memory
<1>10. /\ f \in [Page -> {"free", "user"} \cup Table] /\ ref \in [Page -> Nat]
       /\ g \in [Page \cup {boot_pgdir} -> [Index -> PTE]]
  BY <1>5, <1>6, <1>7, <1>9, PageFacts DEF Table
<1>11. [m.entry[t] EXCEPT ![i] = e] \in [Index -> PTE]
  BY <1>9
<1>12. h \in [Page \cup {boot_pgdir} -> [Index -> PTE]]
  BY <1>8, <1>10, <1>11
<1>13. n = [use |-> f, ref |-> ref, entry |-> h, data |-> m.data]
  <2>1. m = [use |-> m.use, ref |-> m.ref, entry |-> m.entry, data |-> m.data]
    BY DEF Memory
  <2>2. g[t] = m.entry[t]
    BY <1>1, <1>7, <1>9
  <2>3. [Used(m, p, use) EXCEPT !.ref[p] = 1, !.entry[p] = NoEntries]
           = [use |-> f, ref |-> ref, entry |-> g, data |-> m.data]
    <3>1. Used(m, p, use) = [use |-> f, ref |-> m.ref, entry |-> m.entry, data |-> m.data]
      BY <1>6, <2>1 DEF Used
    <3>2. PICK k : k = [use |-> f, ref |-> ref, entry |-> m.entry, data |-> m.data]
      OBVIOUS
    <3>3. [Used(m, p, use) EXCEPT !.ref[p] = 1] = k
      BY <1>5, <3>1, <3>2
    <3>4. [k EXCEPT !.entry[p] = NoEntries] = [use |-> f, ref |-> ref, entry |-> g, data |-> m.data]
      BY <1>7, <3>2
    <3> QED BY <3>3, <3>4
  <2> QED BY <1>3, <1>8, <2>2, <2>3
<1>14. n \in Memory
  BY <1>10, <1>12, <1>13, SameData
<1>15. Made(m, n, t, i, p, use)
  BY <1>2, <1>5, <1>6, <1>7, <1>8, <1>13, <1>14 DEF Made
<1> QED BY <1>1, <1>4, <1>15

\* The only new entry is entry i of table t.
NewEntry(m, n, t, i) ==
    \A u \in Page, j \in Index : IsSlot(n, u, j) => IsSlot(m, u, j) \/ (u = t /\ j = i)

\* One level of get_pte().
LEMMA LevelGrows ==
    ASSUME NEW m, Good(m), NEW t \in Page, NEW i \in Index, m.use[t] \in {"pgdir", "pd0"},
           NEW create \in BOOLEAN, NEW r, r = level(m, t, i, Child(m.use[t]), create)
    PROVE  /\ Grown(m, r.mem)
           /\ r.table # NULL => /\ r.table \in Page /\ r.mem.use[r.table] = Child(m.use[t])
                               /\ IsSlot(r.mem, t, i) /\ Aim(r.mem, t, i) = r.table
           /\ ~create => r.mem = m
           /\ m.entry[t][i] # NULL => r = [mem |-> m, table |-> Aim(m, t, i)]
           /\ NewEntry(m, r.mem, t, i)
<1>1. m \in Memory /\ Grown(m, m) /\ NewEntry(m, m, t, i)
  BY DEF Good, Grown, Keeps, Widened, Joined, NewEntry
<1>2. CASE m.entry[t][i] # NULL
  <2>1. r = [mem |-> m, table |-> Aim(m, t, i)]
    BY <1>2 DEF level, Aim
  <2>2. IsSlot(m, t, i)
    BY <1>2 DEF IsSlot, Table
  <2> QED BY <1>1, <2>1, <2>2, SlotFacts
<1>3. CASE m.entry[t][i] = NULL /\ (~create \/ Free(m) = {})
  BY <1>1, <1>3 DEF level
<1>4. CASE m.entry[t][i] = NULL /\ create /\ Free(m) # {}
  <2>1. PICK p \in Page : p = alloc_page(m) /\ m.use[p] = "free"
    BY <1>4, AllocPage DEF Free
  <2>2. PICK use \in {"pd0", "pt"} : use = Child(m.use[t])
    BY DEF Child
  <2>3. PICK e \in PTE : e = pte_create(p, {"U"}) /\ e # NULL /\ e.page = p
    BY PageFacts DEF Perm
  <2>4. p # t /\ m.ref[p] = 0
    BY <2>1 DEF Good
  <2>5. PICK n : r = [mem |-> n, table |-> p] /\ Made(m, n, t, i, p, use)
    BY <1>1, <1>4, <2>1, <2>2, <2>4, LevelMakes
  <2>6. m.use \in [Page -> {"free", "user"} \cup Table] /\ m.ref \in [Page -> Nat]
    BY <1>1 DEF Memory
  <2>7. m.entry \in [Page \cup {boot_pgdir} -> [Index -> PTE]]
    BY <1>1 DEF Memory
  <2>8. /\ n.use[p] = use /\ n.ref[p] = 1
        /\ \A q \in Page : q # p => n.use[q] = m.use[q] /\ n.ref[q] = m.ref[q]
    BY <2>5, <2>6 DEF Made
  <2>9. /\ n.entry[t][i] = e /\ \A j \in Index : n.entry[p][j] = NULL
        /\ \A u \in Page, j \in Index :
              u # p /\ ~(u = t /\ j = i) => n.entry[u][j] = m.entry[u][j]
        /\ n.entry[boot_pgdir] = m.entry[boot_pgdir]
    BY <2>3, <2>4, <2>5, <2>7, PageFacts DEF Made, NoEntries
  <2>10. Hooked(m, n, t, i, p)
    BY <1>4, <2>1, <2>2, <2>3, <2>4, <2>5, <2>8, <2>9 DEF Hooked, Table, Made
  <2>11. Good(n)
    BY <2>10, HookGood
  <2>12. Keeps(m, n)
    BY <2>1, <2>2, <2>8, <2>9, <2>11 DEF Keeps, Dirs
  <2>13. r.mem = n /\ r.table = p
    BY <2>5
  <2>14. ASSUME NEW u \in Page, NEW j \in Index, IsSlot(n, u, j)
         PROVE  \/ IsSlot(m, u, j) /\ n.use[u] = m.use[u]
                \/ n.use[u] # "pt" /\ m.use[Aim(n, u, j)] = "free"
    <3>1. u # p
      BY <2>9, <2>14 DEF IsSlot
    <3>2. n.use[u] = m.use[u]
      BY <2>8, <3>1
    <3>3. CASE u = t /\ j = i
      BY <2>1, <2>3, <2>9, <3>2, <3>3 DEF Aim
    <3>4. CASE ~(u = t /\ j = i)
      BY <2>9, <2>14, <3>1, <3>2, <3>4 DEF IsSlot
    <3> QED BY <3>3, <3>4
  <2>15. ASSUME NEW u \in Page, NEW j \in Index, IsSlot(m, u, j)
         PROVE  n.entry[u][j] = m.entry[u][j]
    BY <1>4, <2>1, <2>9, <2>15 DEF IsSlot, Table
  <2>17. IsSlot(n, t, i) /\ Aim(n, t, i) = p
    BY <2>3, <2>4, <2>8, <2>9 DEF IsSlot, Aim, Table
  <2>18. Joined(m, n)
    BY <2>2, <2>8, <2>17 DEF Joined, Parent
  <2>16. Grown(m, n)
    BY <2>1, <2>8, <2>12, <2>14, <2>15, <2>18 DEF Grown, Widened
  <2>19. NewEntry(m, n, t, i)
    <3> SUFFICES ASSUME NEW u \in Page, NEW j \in Index, IsSlot(n, u, j), ~(u = t /\ j = i)
                 PROVE  IsSlot(m, u, j)
      BY DEF NewEntry
    <3>1. u # p
      BY <2>9 DEF IsSlot
    <3> QED BY <2>8, <2>9, <3>1 DEF IsSlot
  <2> QED BY <1>4, <2>1, <2>2, <2>8, <2>13, <2>16, <2>17, <2>19
<1> QED BY <1>2, <1>3, <1>4

\* Two steps that only add add only.
LEMMA GrownTwice ==
    ASSUME NEW m, NEW n, NEW k, Grown(m, n), Grown(n, k)
    PROVE  Grown(m, k)
<1>1. ASSUME NEW t \in Page, NEW i \in Index, IsSlot(m, t, i)
      PROVE  IsSlot(n, t, i) /\ n.entry[t][i] = m.entry[t][i] /\ k.entry[t][i] = m.entry[t][i]
  BY <1>1 DEF Grown, Widened, IsSlot, Table
<1>2. ASSUME NEW t \in Page, NEW i \in Index, IsSlot(k, t, i)
      PROVE  \/ IsSlot(m, t, i) /\ k.use[t] = m.use[t]
             \/ k.use[t] # "pt" /\ m.use[Aim(k, t, i)] = "free"
  <2>1. CASE IsSlot(n, t, i) /\ k.use[t] = n.use[t]
    <3>1. Aim(k, t, i) = Aim(n, t, i)
      BY <2>1 DEF Grown, Widened, Aim
    <3> QED BY <2>1, <3>1 DEF Grown, Widened
  <2>2. CASE k.use[t] # "pt" /\ n.use[Aim(k, t, i)] = "free"
    <3>1. Aim(k, t, i) \in Page
      BY <1>2, SlotFacts DEF Grown, Keeps
    <3> QED BY <2>2, <3>1 DEF Grown
  <2> QED BY <1>2, <2>1, <2>2 DEF Grown, Widened
<1>3. Keeps(m, k)
  BY DEF Grown, Keeps
<1>4. \A p \in Page : m.use[p] # "free" => k.use[p] = m.use[p] /\ k.ref[p] = m.ref[p]
  BY DEF Grown
<1>5. Joined(m, k)
  <2> SUFFICES ASSUME NEW p \in Page, m.use[p] = "free", k.use[p] # "free"
               PROVE  k.use[p] \in {"pd0", "pt"} /\ Parent(k, p)
    BY DEF Joined
  <2>1. CASE n.use[p] = "free"
    BY <2>1 DEF Grown, Joined
  <2>2. CASE n.use[p] # "free"
    <3>1. n.use[p] \in {"pd0", "pt"} /\ k.use[p] = n.use[p]
      BY <2>2 DEF Grown, Joined
    <3>2. PICK t \in Page, i \in Index : IsSlot(n, t, i) /\ Aim(n, t, i) = p
      BY <2>2 DEF Grown, Joined, Parent
    <3>3. IsSlot(k, t, i) /\ Aim(k, t, i) = p
      BY <3>2 DEF Grown, Widened, IsSlot, Aim, Table
    <3> QED BY <3>1, <3>3 DEF Parent
  <2> QED BY <2>1, <2>2
<1> QED BY <1>1, <1>2, <1>3, <1>4, <1>5 DEF Grown, Widened

\* The only new entry of a page directory is entry i of root.
NewDirEntry(m, n, root, i) ==
    \A r \in Dirs(m), j \in Index :
        n.entry[r][j] # NULL => m.entry[r][j] # NULL \/ (r = root /\ j = i)

\* get_pte()
LEMMA GetPteGrows ==
    ASSUME NEW m, Good(m), NEW root \in Dirs(m), NEW la \in Nat, la < UserTop,
           NEW create \in BOOLEAN, NEW r, r = get_pte(m, root, la, create)
    PROVE  /\ Grown(m, r.mem)
           /\ r.table # NULL => /\ r.table \in Page /\ r.mem.use[r.table] = "pt"
                               /\ Leads(r.mem, root, la, r.table)
           /\ ~create => r.mem = m
           /\ NewDirEntry(m, r.mem, root, PDX1(la))
<1>1. root \in Page /\ m.use[root] = "pgdir" /\ Child("pgdir") = "pd0" /\ Child("pd0") = "pt"
  BY DEF Dirs, Child
<1>2. PDX1(la) \in Index /\ PDX0(la) \in Index
  BY Indexes
<1>3. PICK d : d = level(m, root, PDX1(la), "pd0", create)
  OBVIOUS
<1>4. /\ Grown(m, d.mem)
      /\ d.table # NULL => /\ d.table \in Page /\ d.mem.use[d.table] = "pd0"
                          /\ IsSlot(d.mem, root, PDX1(la)) /\ Aim(d.mem, root, PDX1(la)) = d.table
      /\ ~create => d.mem = m
      /\ NewEntry(m, d.mem, root, PDX1(la))
  BY <1>1, <1>2, <1>3, LevelGrows
<1>7. NewDirEntry(m, d.mem, root, PDX1(la)) /\ Dirs(d.mem) = Dirs(m)
  BY <1>4 DEF NewEntry, NewDirEntry, Grown, Keeps, Dirs, IsSlot, Table
<1>5. CASE d.table = NULL
  BY <1>3, <1>4, <1>5, <1>7 DEF get_pte
<1>6. CASE d.table # NULL
  <2>1. r = level(d.mem, d.table, PDX0(la), "pt", create)
    BY <1>3, <1>6 DEF get_pte
  <2>2. Good(d.mem) /\ d.table \in Page /\ d.mem.use[d.table] = "pd0"
    BY <1>4, <1>6 DEF Grown, Keeps
  <2>3. /\ Grown(d.mem, r.mem)
        /\ r.table # NULL => /\ r.table \in Page /\ r.mem.use[r.table] = "pt"
                            /\ IsSlot(r.mem, d.table, PDX0(la))
                            /\ Aim(r.mem, d.table, PDX0(la)) = r.table
        /\ ~create => r.mem = d.mem
        /\ NewEntry(d.mem, r.mem, d.table, PDX0(la))
    BY <1>1, <1>2, <2>1, <2>2, LevelGrows
  <2>4. IsSlot(r.mem, root, PDX1(la)) /\ Aim(r.mem, root, PDX1(la)) = d.table
    <3>1. IsSlot(d.mem, root, PDX1(la)) /\ Aim(d.mem, root, PDX1(la)) = d.table
      BY <1>4, <1>6
    <3>2. r.mem.use[root] = d.mem.use[root] /\ r.mem.entry[root][PDX1(la)] = d.mem.entry[root][PDX1(la)]
      BY <1>1, <1>2, <2>3, <3>1 DEF Grown, Widened, IsSlot, Table
    <3> QED BY <3>1, <3>2 DEF IsSlot, Aim
  <2>5. r.table # NULL => Leads(r.mem, root, la, r.table)
    BY <2>2, <2>3, <2>4 DEF Leads
  <2>6. \A s \in Dirs(m), j \in Index : r.mem.entry[s][j] # NULL => d.mem.entry[s][j] # NULL
    <3>1. \A s \in Dirs(m) : s \in Page /\ s # d.table /\ r.mem.use[s] = "pgdir"
      BY <1>7, <2>2, <2>3 DEF Grown, Keeps, Dirs
    <3> QED BY <2>3, <3>1 DEF NewEntry, IsSlot, Table
  <2>7. NewDirEntry(m, r.mem, root, PDX1(la))
    BY <1>7, <2>6 DEF NewDirEntry
  <2> QED BY <1>4, <2>3, <2>5, <2>7, GrownTwice
<1> QED BY <1>5, <1>6

\* What pte() returns is in the table that get_pte() returns.
LEMMA PteFacts ==
    ASSUME NEW m, Good(m), NEW root \in Dirs(m), NEW la \in Nat, la < UserTop,
           pte(m, root, la) # NULL,
           NEW create \in BOOLEAN, NEW t, t = get_pte(m, root, la, create).table
    PROVE  /\ t \in Page /\ m.use[t] = "pt" /\ PTX(la) \in Index
           /\ IsSlot(m, t, PTX(la)) /\ pte(m, root, la) = m.entry[t][PTX(la)]
           /\ Leads(m, root, la, t)
<1>1. root \in Page /\ m.use[root] = "pgdir" /\ Child("pgdir") = "pd0" /\ Child("pd0") = "pt"
  BY DEF Dirs, Child
<1>2. PDX1(la) \in Index /\ PDX0(la) \in Index /\ PTX(la) \in Index
  BY Indexes
<1>3. m.entry[root][PDX1(la)] # NULL
  BY DEF pte, Below
<1>4. PICK d \in Page : d = m.entry[root][PDX1(la)].page /\ m.use[d] = "pd0"
  BY <1>1, <1>2, <1>3, SlotFacts DEF IsSlot, Aim, Table
<1>5. m.entry[d][PDX0(la)] # NULL
  BY <1>3, <1>4 DEF pte, Below
<1>6. PICK u \in Page : u = m.entry[d][PDX0(la)].page /\ m.use[u] = "pt"
  <2>1. PICK i \in Index : i = PDX0(la)
    BY <1>2
  <2>2. IsSlot(m, d, i)
    BY <1>4, <1>5, <2>1 DEF IsSlot, Table
  <2>3. Aim(m, d, i) \in Page /\ m.use[Aim(m, d, i)] = "pt"
    BY <1>1, <1>4, <2>2, SlotFacts
  <2> QED BY <2>1, <2>3 DEF Aim
<1>7. pte(m, root, la) = m.entry[u][PTX(la)]
  BY <1>3, <1>4, <1>5, <1>6 DEF pte, Below
<1>8. t = u
  <2>1. NULL \notin Page
    BY PageTableAssumption DEF Page
  <2>2. level(m, root, PDX1(la), "pd0", create) = [mem |-> m, table |-> d]
    BY <1>3, <1>4 DEF level
  <2>3. level(m, d, PDX0(la), "pt", create) = [mem |-> m, table |-> u]
    BY <1>5, <1>6 DEF level
  <2>4. get_pte(m, root, la, create) = level(m, d, PDX0(la), "pt", create)
    BY <2>1, <2>2 DEF get_pte
  <2> QED BY <2>3, <2>4
<1>9. Leads(m, root, la, t)
  BY <1>1, <1>3, <1>4, <1>5, <1>6, <1>8 DEF Leads, IsSlot, Aim, Table
<1> QED BY <1>2, <1>6, <1>7, <1>8, <1>9 DEF IsSlot, Table

-----------------------------------------------------------------------------
\* Two steps that keep the trees keep them.
LEMMA KeepsTwice ==
    ASSUME NEW m, NEW n, NEW k, Keeps(m, n), Keeps(n, k)
    PROVE  Keeps(m, k)
BY DEF Keeps

\* The tables of n are those of m but for entry i of t, which is e.
SetAt(m, n, t, i, e) ==
    /\ n.entry[t][i] = e
    /\ \A u \in Page : m.use[u] \in Table \/ n.use[u] \in Table =>
          /\ n.use[u] = m.use[u]
          /\ \A j \in Index : ~(u = t /\ j = i) => n.entry[u][j] = m.entry[u][j]

\* Entry i of the page table t refers to p.
LEMMA HookPage ==
    ASSUME NEW m, Good(m), NEW t \in Page, NEW i \in Index, NEW p \in Page,
           m.use[t] = "pt", m.entry[t][i] = NULL, m.use[p] = "user", m.ref[p] = 0,
           NEW e \in PTE, e # NULL, e.page = p,
           NEW n, n = [use |-> m.use, ref |-> [m.ref EXCEPT ![p] = 1],
                       entry |-> [m.entry EXCEPT ![t][i] = e], data |-> m.data]
    PROVE  Keeps(m, n) /\ SetAt(m, n, t, i, e)
<1>1. m \in Memory /\ p # t /\ Child("pt") = "user"
  BY DEF Good, Child
<1>2. n \in Memory
  <2>1. [m.ref EXCEPT ![p] = 1] \in [Page -> Nat]
    BY <1>1 DEF Memory
  <2>2. [m.entry EXCEPT ![t][i] = e] \in [Page \cup {boot_pgdir} -> [Index -> PTE]]
    BY <1>1 DEF Memory
  <2> QED BY <1>1, <2>1, <2>2 DEF Memory
<1>3. n.use = m.use /\ n.ref[p] = 1 /\ \A q \in Page : q # p => n.ref[q] = m.ref[q]
  BY <1>1 DEF Memory
<1>4. /\ n.entry[t][i] = e /\ n.entry[boot_pgdir] = m.entry[boot_pgdir]
      /\ \A u \in Page, j \in Index : ~(u = t /\ j = i) => n.entry[u][j] = m.entry[u][j]
  <2>1. n.entry = [m.entry EXCEPT ![t][i] = e] /\ m.entry \in [Page \cup {boot_pgdir} -> [Index -> PTE]]
    BY <1>1 DEF Memory
  <2> QED BY <2>1, PageFacts
<1>5. Hooked(m, n, t, i, p)
  BY <1>1, <1>2, <1>3, <1>4 DEF Hooked, Table
<1>6. Good(n)
  BY <1>5, HookGood
<1>7. SetAt(m, n, t, i, e)
  BY <1>3, <1>4 DEF SetAt
<1> QED BY <1>3, <1>4, <1>6, <1>7 DEF Keeps, Dirs

\* The page q that entry i of the page table t refers to goes.
Cut(m, t, i, q) ==
    free_page([use |-> m.use, ref |-> [m.ref EXCEPT ![q] = 0],
               entry |-> [m.entry EXCEPT ![t][i] = NULL], data |-> m.data], {q})

\* The memory n is m without the mapping of q in entry i of the page table t.
CutFrom(m, n, t, i, q) ==
    /\ Keeps(m, n) /\ SetAt(m, n, t, i, NULL) /\ n.use[q] = "free"
    /\ \A p \in Page : p # q => n.use[p] = m.use[p] /\ n.ref[p] = m.ref[p]

\* Removing a mapping keeps the trees.
LEMMA CutPage ==
    ASSUME NEW m, Good(m), NEW t \in Page, NEW i \in Index, NEW q \in Page,
           m.use[t] = "pt", m.entry[t][i] # NULL, m.entry[t][i].page = q,
           NEW n, n = Cut(m, t, i, q)
    PROVE  CutFrom(m, n, t, i, q)
<1>0. PICK d : d = [use |-> m.use, ref |-> [m.ref EXCEPT ![q] = 0],
                    entry |-> [m.entry EXCEPT ![t][i] = NULL], data |-> m.data]
  OBVIOUS
<1>1. IsSlot(m, t, i) /\ Aim(m, t, i) = q
  BY DEF IsSlot, Aim, Table
<1>2. m \in Memory /\ m.use[q] = "user" /\ q # t
  BY <1>1, SlotFacts DEF Good, Child
<1>3. d \in Memory
  <2>1. [m.ref EXCEPT ![q] = 0] \in [Page -> Nat]
    BY <1>2 DEF Memory
  <2>2. [m.entry EXCEPT ![t][i] = NULL] \in [Page \cup {boot_pgdir} -> [Index -> PTE]]
    BY <1>2 DEF Memory, PTE
  <2> QED BY <1>0, <1>2, <2>1, <2>2 DEF Memory
<1>4. Freed(d, n, {q})
  BY <1>0, <1>3, FreePage DEF Cut
<1>5. /\ \A p \in Page : n.use[p] = IF p \in {q} THEN "free" ELSE m.use[p]
      /\ \A p \in Page : n.ref[p] = IF p \in {q} THEN 0 ELSE m.ref[p]
      /\ \A u \in Page \ {q}, j \in Index :
            n.entry[u][j] = IF <<u, j>> \in {<<t, i>>} THEN NULL ELSE m.entry[u][j]
      /\ n.entry[boot_pgdir] = m.entry[boot_pgdir]
  <2>1. m.ref \in [Page -> Nat] /\ m.entry \in [Page \cup {boot_pgdir} -> [Index -> PTE]]
    BY <1>2 DEF Memory
  <2>2. d.use = m.use /\ d.ref = [m.ref EXCEPT ![q] = 0] /\ d.entry = [m.entry EXCEPT ![t][i] = NULL]
    BY <1>0
  <2>3. \A u \in Page, j \in Index :
           d.entry[u][j] = IF <<u, j>> \in {<<t, i>>} THEN NULL ELSE m.entry[u][j]
    BY <2>1, <2>2, PageFacts
  <2>4. d.entry[boot_pgdir] = m.entry[boot_pgdir]
    BY <2>1, <2>2, PageFacts
  <2>5. \A p \in Page : p # q => d.ref[p] = m.ref[p]
    BY <2>1, <2>2
  <2>6. \A p \in Page : n.use[p] = IF p \in {q} THEN "free" ELSE m.use[p]
    BY <1>4, <2>2 DEF Freed
  <2>7. \A p \in Page : n.ref[p] = IF p \in {q} THEN 0 ELSE m.ref[p]
    BY <1>4, <2>5 DEF Freed
  <2>8. \A u \in Page \ {q}, j \in Index :
           n.entry[u][j] = IF <<u, j>> \in {<<t, i>>} THEN NULL ELSE m.entry[u][j]
    <3>1. \A u \in Page \ {q} : n.entry[u] = d.entry[u]
      BY <1>4 DEF Freed
    <3> QED BY <2>3, <3>1
  <2>9. n.entry[boot_pgdir] = m.entry[boot_pgdir]
    BY <1>4, <2>4, PageFacts DEF Freed
  <2> QED BY <2>6, <2>7, <2>8, <2>9
<1>6. \A u \in Page, j \in Index :
         IsSlot(m, u, j) /\ Aim(m, u, j) \in {q} => u \in {q} \/ <<u, j>> \in {<<t, i>>}
  BY <1>1 DEF Good
<1>7. Good(n)
  <2>1. Pruned(m, n, {<<t, i>>}, {q})
    BY <1>4, <1>5, <1>6 DEF Pruned, Freed
  <2> QED BY <2>1, PruneGood
<1>8. Dirs(n) = Dirs(m)
  <2>1. \A p \in Page : n.use[p] = "pgdir" <=> m.use[p] = "pgdir"
    BY <1>2, <1>5
  <2> QED BY <2>1 DEF Dirs
<1>9. Keeps(m, n)
  BY <1>5, <1>7, <1>8 DEF Keeps
<1>10. SetAt(m, n, t, i, NULL)
  <2>1. \A u \in Page : m.use[u] \in Table \/ n.use[u] \in Table => u # q /\ n.use[u] = m.use[u]
    BY <1>2, <1>5 DEF Table
  <2>2. n.entry[t][i] = NULL
    BY <1>2, <1>5
  <2> QED BY <1>5, <2>1, <2>2 DEF SetAt
<1> QED BY <1>5, <1>9, <1>10 DEF CutFrom

\* Two changes of one entry are one.
LEMMA SetTwice ==
    ASSUME NEW k, NEW c, NEW n, NEW t, NEW i, NEW x, NEW e,
           SetAt(k, c, t, i, x), SetAt(c, n, t, i, e)
    PROVE  SetAt(k, n, t, i, e)
BY DEF SetAt

\* The page that entry e refers to is freed, and no other page has changed its use.
Replaced(m, n, e) ==
    \A p \in Page : n.use[p] = IF e # NULL /\ p = e.page THEN "free" ELSE m.use[p]

\* In n, la is mapped by e, on the way some tables may have been made.
Placed(m, root, la, e, n) ==
    \E k : \E t \in Page : /\ Grown(m, k) /\ k.use[t] = "pt" /\ Leads(k, root, la, t)
                          /\ SetAt(k, n, t, PTX(la), e)
                          /\ Replaced(k, n, k.entry[t][PTX(la)])
                          /\ NewDirEntry(m, k, root, PDX1(la))

\* page_insert() of a page that nothing refers to.
LEMMA InsertKeeps ==
    ASSUME NEW m, Good(m), NEW root \in Dirs(m), NEW la \in Nat, la < UserTop,
           NEW p \in Page, m.use[p] = "user", m.ref[p] = 0, NEW bits \in Perm,
           NEW r, r = page_insert(m, root, p, la, bits)
    PROVE  /\ Keeps(m, r.mem)
           /\ r.ok => Placed(m, root, la, pte_create(p, bits), r.mem)
           /\ ~r.ok => /\ Grown(m, r.mem) /\ r.mem.use[p] = "user" /\ r.mem.ref[p] = 0
                       /\ NewDirEntry(m, r.mem, root, PDX1(la))
<1>1. PICK g : g = get_pte(m, root, la, TRUE)
  OBVIOUS
<1>2. /\ Grown(m, g.mem) /\ NewDirEntry(m, g.mem, root, PDX1(la))
      /\ g.table # NULL => /\ g.table \in Page /\ g.mem.use[g.table] = "pt"
                          /\ Leads(g.mem, root, la, g.table)
  <2>1. PICK create \in BOOLEAN : create
    OBVIOUS
  <2>2. g = get_pte(m, root, la, create)
    BY <1>1, <2>1
  <2> QED BY <2>2, GetPteGrows
<1>3. PICK k : k = g.mem
  OBVIOUS
<1>4. /\ Keeps(m, k) /\ Good(k) /\ k \in Memory /\ k.use[p] = "user" /\ k.ref[p] = 0
      /\ Grown(m, k) /\ NewDirEntry(m, k, root, PDX1(la))
  BY <1>2, <1>3 DEF Grown, Keeps, Good
<1>5. CASE g.table = NULL
  <2>1. r = [mem |-> k, ok |-> FALSE]
    BY <1>1, <1>3, <1>5 DEF page_insert
  <2> QED BY <2>1, <1>4
<1>6. CASE g.table # NULL
  <2>1. PICK t \in Page : t = g.table /\ k.use[t] = "pt" /\ Leads(k, root, la, t)
    BY <1>2, <1>3, <1>6
  <2>2. PICK i \in Index : i = PTX(la)
    BY Indexes
  <2>3. PICK e \in PTE : e = pte_create(p, bits) /\ e # NULL /\ e.page = p
    BY PageFacts
  <2>4. PICK inc : inc = [k EXCEPT !.ref[p] = @ + 1]
    OBVIOUS
  <2>5. inc = [use |-> k.use, ref |-> [k.ref EXCEPT ![p] = 1], entry |-> k.entry, data |-> k.data]
    <3>1. 0 + 1 = 1 /\ k.ref[p] + 1 = 1
      BY <1>4
    <3>2. inc = [k EXCEPT !.ref = [k.ref EXCEPT ![p] = 1]]
      BY <2>4, <3>1
    <3>3. k = [use |-> k.use, ref |-> k.ref, entry |-> k.entry, data |-> k.data]
      BY <1>4 DEF Memory
    <3> QED BY <3>2, <3>3
  <2>6. CASE k.entry[t][i] = NULL
    <3>1. r = [mem |-> [inc EXCEPT !.entry[t][i] = e], ok |-> TRUE]
      BY <1>1, <1>3, <1>6, <2>1, <2>2, <2>3, <2>4, <2>6 DEF page_insert
    <3>2. PICK n : n = [use |-> k.use, ref |-> [k.ref EXCEPT ![p] = 1],
                        entry |-> [k.entry EXCEPT ![t][i] = e], data |-> k.data]
      OBVIOUS
    <3>3. r = [mem |-> n, ok |-> TRUE]
      <4>1. [inc EXCEPT !.entry[t][i] = e] = n
        BY <2>5, <3>2
      <4> QED BY <3>1, <4>1
    <3>4. Keeps(k, n) /\ SetAt(k, n, t, i, e)
      BY <1>4, <2>1, <2>3, <2>6, <3>2, HookPage
    <3>5. Replaced(k, n, k.entry[t][i])
      BY <2>6, <3>2 DEF Replaced
    <3>6. Placed(m, root, la, e, n)
      BY <1>4, <2>1, <2>2, <3>4, <3>5 DEF Placed
    <3> QED BY <1>4, <2>3, <3>3, <3>4, <3>6, KeepsTwice
  <2>7. CASE k.entry[t][i] # NULL
    <3>1. PICK q \in Page : q = k.entry[t][i].page /\ k.use[q] = "user" /\ k.ref[q] = 1
      BY <1>4, <2>1, <2>7, SlotFacts DEF IsSlot, Aim, Table, Child
    <3>2. q # p /\ q # t
      BY <1>4, <2>1, <3>1
    <3>3. PICK dec : dec = [inc EXCEPT !.ref[q] = @ - 1, !.entry[t][i] = NULL]
      OBVIOUS
    <3>4. /\ dec.use = k.use /\ dec.ref = [k.ref EXCEPT ![p] = 1, ![q] = 0]
          /\ dec.entry = [k.entry EXCEPT ![t][i] = NULL] /\ dec.data = k.data
      <4>1. inc.ref[q] = 1 /\ 1 - 1 = 0
        BY <1>4, <2>5, <3>1, <3>2 DEF Memory
      <4>2. dec = [inc EXCEPT !.ref[q] = 0, !.entry[t][i] = NULL]
        BY <3>3, <4>1
      <4> QED BY <2>5, <4>2
    <3>5. PICK d : d = [use |-> k.use, ref |-> [k.ref EXCEPT ![q] = 0],
                        entry |-> [k.entry EXCEPT ![t][i] = NULL], data |-> k.data]
      OBVIOUS
    <3>6. PICK c : c = Cut(k, t, i, q) /\ c = free_page(d, {q})
      BY <3>5 DEF Cut
    <3>7. /\ Keeps(k, c) /\ Good(c) /\ c \in Memory /\ c.entry[t][i] = NULL
          /\ c.use[p] = "user" /\ c.ref[p] = 0 /\ c.use[t] = "pt" /\ SetAt(k, c, t, i, NULL)
          /\ c.use[q] = "free" /\ \A x \in Page : x # q => c.use[x] = k.use[x]
      <4>1. /\ Keeps(k, c) /\ SetAt(k, c, t, i, NULL) /\ c.use[q] = "free"
            /\ \A x \in Page : x # q => c.use[x] = k.use[x] /\ c.ref[x] = k.ref[x]
        <5>1. Good(k) /\ k.use[t] = "pt" /\ k.entry[t][i] # NULL /\ k.entry[t][i].page = q
          BY <1>4, <2>1, <2>7, <3>1
        <5>2. c = Cut(k, t, i, q)
          BY <3>6
        <5>3. CutFrom(k, c, t, i, q)
          BY <5>1, <5>2, <2>1, <2>2, <3>1, CutPage
        <5> QED BY <5>3 DEF CutFrom
      <4>2. c.entry[t][i] = NULL
        BY <4>1 DEF SetAt
      <4> QED BY <1>4, <2>1, <3>2, <4>1, <4>2 DEF Keeps, Good
    <3>8. PICK n : n = [use |-> c.use, ref |-> [c.ref EXCEPT ![p] = 1],
                        entry |-> [c.entry EXCEPT ![t][i] = e], data |-> c.data]
      OBVIOUS
    <3>9. Keeps(c, n) /\ SetAt(c, n, t, i, e)
      BY <2>1, <2>3, <3>7, <3>8, HookPage
    <3>10. PICK f : f = free_page(dec, {q})
      OBVIOUS
    <3>11. f = [use |-> c.use, ref |-> [c.ref EXCEPT ![p] = 1], entry |-> c.entry, data |-> c.data]
      <4>1. /\ f.use = c.use /\ f.entry = c.entry /\ f.data = c.data
        BY <3>4, <3>5, <3>6, <3>10 DEF free_page
      <4>2. f.ref = [c.ref EXCEPT ![p] = 1]
        <5>1. f.ref = [x \in Page |-> IF x \in {q} THEN 0 ELSE dec.ref[x]]
          BY <3>10 DEF free_page
        <5>2. c.ref = [x \in Page |-> IF x \in {q} THEN 0 ELSE d.ref[x]]
          BY <3>6 DEF free_page
        <5>3. \A x \in Page : x # q => dec.ref[x] = IF x = p THEN 1 ELSE d.ref[x]
          BY <1>4, <3>4, <3>5 DEF Memory
        <5> QED BY <5>1, <5>2, <5>3, <3>2
      <4>3. f = [use |-> f.use, ref |-> f.ref, entry |-> f.entry, data |-> f.data]
        BY <3>10 DEF free_page
      <4> QED BY <4>1, <4>2, <4>3
    <3>12. page_remove_pte(inc, t, i) = f
      <4>1. inc.entry = k.entry
        BY <2>5
      <4>2. dec.ref[q] = 0
        BY <1>4, <3>2, <3>4 DEF Memory
      <4> QED BY <3>1, <3>3, <3>10, <4>1, <4>2 DEF page_remove_pte
    <3>13. r = [mem |-> [f EXCEPT !.entry[t][i] = e], ok |-> TRUE]
      BY <1>1, <1>3, <1>6, <2>1, <2>2, <2>3, <2>4, <2>7, <3>1, <3>2, <3>12 DEF page_insert
    <3>14. [f EXCEPT !.entry[t][i] = e] = n
      BY <3>8, <3>11
    <3>15. r = [mem |-> n, ok |-> TRUE]
      BY <3>13, <3>14
    <3>16. SetAt(k, n, t, i, e)
      BY <3>7, <3>9, SetTwice
    <3>17. Placed(m, root, la, e, n)
      <4>1. Replaced(k, n, k.entry[t][i])
        BY <2>7, <3>1, <3>7, <3>8 DEF Replaced
      <4> QED BY <1>4, <2>1, <2>2, <3>16, <4>1 DEF Placed
    <3>18. Keeps(m, n)
      BY <1>4, <3>7, <3>9, KeepsTwice
    <3> QED BY <2>3, <3>15, <3>17, <3>18
  <2> QED BY <2>6, <2>7
<1> QED BY <1>5, <1>6

-----------------------------------------------------------------------------
\* A change of bytes is none of tables.
Wrote(m, p, d) == [m EXCEPT !.data[p] = d]

\* So does writing to a page.
LEMMA DataKeeps ==
    ASSUME NEW m, Good(m), NEW p, NEW d \in [0 .. PGSIZE - 1 -> Int],
           NEW n, n = Wrote(m, p, d)
    PROVE  Keeps(m, n) /\ n.use = m.use /\ n.ref = m.ref /\ n.entry = m.entry
<1>1. m \in Memory
  BY DEF Good
<1>2. PICK f : f = [m.data EXCEPT ![p] = d]
  OBVIOUS
<1>3. f \in [Page -> [0 .. PGSIZE - 1 -> Int]]
  <2>1. m.data \in [Page -> [0 .. PGSIZE - 1 -> Int]]
    BY <1>1 DEF Memory
  <2> QED BY <1>2, <2>1
<1>4. n = [use |-> m.use, ref |-> m.ref, entry |-> m.entry, data |-> f]
  BY <1>1, <1>2 DEF Memory, Wrote
<1>5. n \in Memory
  <2>1. PICK B : B = [0 .. PGSIZE - 1 -> Int]
    OBVIOUS
  <2>2. m \in [use : [Page -> {"free", "user"} \cup Table], ref : [Page -> Nat],
               entry : [Page \cup {boot_pgdir} -> [Index -> PTE]], data : [Page -> B]]
    BY <1>1, <2>1 DEF Memory
  <2>3. f \in [Page -> B]
    BY <1>3, <2>1
  <2>4. n \in [use : [Page -> {"free", "user"} \cup Table], ref : [Page -> Nat],
               entry : [Page \cup {boot_pgdir} -> [Index -> PTE]], data : [Page -> B]]
    BY <1>4, <2>2, <2>3
  <2> QED BY <2>1, <2>4 DEF Memory
<1>6. n.use = m.use /\ n.ref = m.ref /\ n.entry = m.entry
  BY <1>4
<1>7. Good(n)
  BY <1>5, <1>6 DEF Good, IsSlot, Aim
<1> QED BY <1>6, <1>7 DEF Keeps, Dirs

\* alloc_page() of a page for user memory.
LEMMA TakePage ==
    ASSUME NEW m, Good(m), NEW p \in Page, m.use[p] = "free", NEW n, n = Used(m, p, "user")
    PROVE  Keeps(m, n) /\ n.use[p] = "user" /\ n.ref[p] = 0
<1>1. m \in Memory /\ m.ref[p] = 0
  BY DEF Good
<1>2. PICK f : f = [m.use EXCEPT ![p] = "user"]
  OBVIOUS
<1>3. /\ f \in [Page -> {"free", "user"} \cup Table] /\ f[p] = "user"
      /\ \A q \in Page : q # p => f[q] = m.use[q]
  <2>1. m.use \in [Page -> {"free", "user"} \cup Table]
    BY <1>1 DEF Memory
  <2> QED BY <1>2, <2>1
<1>4. n = [use |-> f, ref |-> m.ref, entry |-> m.entry, data |-> m.data]
  BY <1>1, <1>2 DEF Memory, Used
<1>5. n \in Memory
  BY <1>1, <1>3, <1>4 DEF Memory
<1>6. n.use = f /\ n.ref = m.ref /\ n.entry = m.entry
  BY <1>4
<1>7. ASSUME NEW t \in Page, NEW i \in Index, IsSlot(n, t, i)
      PROVE  /\ t # p /\ IsSlot(m, t, i) /\ Aim(n, t, i) = Aim(m, t, i) /\ Aim(m, t, i) # p
             /\ Aim(m, t, i) \in Page
  <2>1. t # p
    BY <1>3, <1>6, <1>7 DEF IsSlot, Table
  <2>2. IsSlot(m, t, i) /\ Aim(n, t, i) = Aim(m, t, i)
    BY <1>3, <1>6, <1>7, <2>1 DEF IsSlot, Aim
  <2> QED BY <1>1, <2>1, <2>2, SlotFacts
<1>8. ASSUME NEW t \in Page, NEW i \in Index, IsSlot(n, t, i)
      PROVE  n.use[Aim(n, t, i)] = Child(n.use[t]) /\ n.ref[Aim(n, t, i)] = 1
  BY <1>3, <1>6, <1>7, <1>8, SlotFacts
<1>9. ASSUME NEW t \in Page, NEW u \in Page, NEW i \in Index, NEW j \in Index,
             IsSlot(n, t, i), IsSlot(n, u, j), Aim(n, t, i) = Aim(n, u, j)
      PROVE  t = u /\ i = j
  BY <1>7, <1>9 DEF Good
<1>10. \A q \in Page : n.use[q] \in {"free", "pgdir"} => n.ref[q] = 0
  BY <1>1, <1>3, <1>6 DEF Good
<1>11. Good(n)
  BY <1>5, <1>8, <1>9, <1>10 DEF Good
<1>12. Dirs(n) = Dirs(m)
  BY <1>3, <1>6 DEF Dirs
<1> QED BY <1>1, <1>3, <1>6, <1>11, <1>12 DEF Keeps

\* setup_pgdir()
LEMMA TakeDir ==
    ASSUME NEW m, Good(m), NEW p \in Page, p = alloc_page(m), m.use[p] = "free",
           NEW n, n = setup_pgdir(m)
    PROVE  /\ Good(n) /\ n.entry[boot_pgdir] = m.entry[boot_pgdir]
           /\ Dirs(n) = Dirs(m) \cup {p} /\ p \notin Dirs(m)
<1>1. m \in Memory /\ m.ref[p] = 0
  BY DEF Good
<1>2. PICK f : f = [m.use EXCEPT ![p] = "pgdir"]
  OBVIOUS
<1>3. /\ f \in [Page -> {"free", "user"} \cup Table] /\ f[p] = "pgdir"
      /\ \A q \in Page : q # p => f[q] = m.use[q]
  <2>1. m.use \in [Page -> {"free", "user"} \cup Table]
    BY <1>1 DEF Memory
  <2> QED BY <1>2, <2>1 DEF Table
<1>4. PICK g : g = [m.entry EXCEPT ![p] = NoEntries]
  OBVIOUS
<1>5. /\ g \in [Page \cup {boot_pgdir} -> [Index -> PTE]] /\ g[p] = NoEntries
      /\ \A u \in Page \cup {boot_pgdir} : u # p => g[u] = m.entry[u]
  <2>1. m.entry \in [Page \cup {boot_pgdir} -> [Index -> PTE]]
    BY <1>1 DEF Memory
  <2> QED BY <1>4, <2>1, PageFacts
<1>6. n = [use |-> f, ref |-> m.ref, entry |-> g, data |-> m.data]
  BY <1>1, <1>2, <1>4 DEF Memory, Used, setup_pgdir
<1>7. n \in Memory
  BY <1>1, <1>3, <1>5, <1>6 DEF Memory
<1>8. n.use = f /\ n.ref = m.ref /\ n.entry = g
  BY <1>6
<1>9. ASSUME NEW t \in Page, NEW i \in Index, IsSlot(n, t, i)
      PROVE  /\ t # p /\ IsSlot(m, t, i) /\ Aim(n, t, i) = Aim(m, t, i) /\ Aim(m, t, i) # p
             /\ Aim(m, t, i) \in Page
  <2>1. t # p
    BY <1>5, <1>8, <1>9 DEF IsSlot, NoEntries
  <2>2. IsSlot(m, t, i) /\ Aim(n, t, i) = Aim(m, t, i)
    BY <1>3, <1>5, <1>8, <1>9, <2>1 DEF IsSlot, Aim
  <2> QED BY <1>1, <2>1, <2>2, SlotFacts
<1>10. ASSUME NEW t \in Page, NEW i \in Index, IsSlot(n, t, i)
       PROVE  n.use[Aim(n, t, i)] = Child(n.use[t]) /\ n.ref[Aim(n, t, i)] = 1
  BY <1>3, <1>8, <1>9, <1>10, SlotFacts
<1>11. ASSUME NEW t \in Page, NEW u \in Page, NEW i \in Index, NEW j \in Index,
              IsSlot(n, t, i), IsSlot(n, u, j), Aim(n, t, i) = Aim(n, u, j)
       PROVE  t = u /\ i = j
  BY <1>9, <1>11 DEF Good
<1>12. \A q \in Page : n.use[q] \in {"free", "pgdir"} => n.ref[q] = 0
  BY <1>1, <1>3, <1>8 DEF Good
<1>13. Good(n)
  BY <1>7, <1>10, <1>11, <1>12 DEF Good
<1>14. Dirs(n) = Dirs(m) \cup {p}
  BY <1>3, <1>8 DEF Dirs
<1>15. n.entry[boot_pgdir] = m.entry[boot_pgdir]
  BY <1>5, <1>8, PageFacts
<1> QED BY <1>13, <1>14, <1>15 DEF Dirs

\* free_page() of pages that no entry refers to, such as put_pgdir().
LEMMA FreeKeeps ==
    ASSUME NEW m, Good(m), NEW F \in SUBSET Page, \A p \in F : m.ref[p] = 0,
           NEW n, n = free_page(m, F)
    PROVE  /\ Good(n) /\ n.entry[boot_pgdir] = m.entry[boot_pgdir]
           /\ Dirs(n) = Dirs(m) \ F
<1>1. Freed(m, n, F)
  BY FreePage DEF Good
<1>2. \A t \in Page, i \in Index : IsSlot(m, t, i) => Aim(m, t, i) \notin F
  BY SlotFacts
<1>3. Pruned(m, n, {}, F)
  BY <1>1, <1>2 DEF Pruned, Freed
<1>4. n.entry[boot_pgdir] = m.entry[boot_pgdir]
  BY <1>1, PageFacts DEF Freed
<1>5. Dirs(n) = Dirs(m) \ F
  BY <1>1 DEF Dirs, Freed
<1> QED BY <1>3, <1>4, <1>5, PruneGood

\* pgdir_alloc_page()
LEMMA NewPage ==
    ASSUME NEW m, Good(m), NEW root \in Dirs(m), NEW la \in Nat, la < UserTop,
           NEW bits \in Perm, NEW r, r = pgdir_alloc_page(m, root, la, bits)
    PROVE  Keeps(m, r.mem)
<1>1. CASE Free(m) = {}
  <2>1. r = [mem |-> m, page |-> NULL]
    BY <1>1 DEF pgdir_alloc_page
  <2> QED BY <2>1 DEF Keeps
<1>2. CASE Free(m) # {}
  <2>1. PICK p \in Page : p = alloc_page(m) /\ m.use[p] = "free"
    BY <1>2, AllocPage DEF Free
  <2>2. PICK n : n = Used(m, p, "user")
    OBVIOUS
  <2>3. Keeps(m, n) /\ Good(n) /\ n.use[p] = "user" /\ n.ref[p] = 0
    BY <2>1, <2>2, TakePage DEF Keeps
  <2>4. PICK s : s = page_insert(n, root, p, la, bits)
    OBVIOUS
  <2>5. Keeps(n, s.mem) /\ (~s.ok => s.mem.use[p] = "user" /\ s.mem.ref[p] = 0)
    BY <2>1, <2>3, <2>4, InsertKeeps DEF Keeps
  <2>6. r = IF s.ok THEN [mem |-> s.mem, page |-> p]
            ELSE [mem |-> free_page(s.mem, {p}), page |-> NULL]
    BY <1>2, <2>1, <2>2, <2>4 DEF pgdir_alloc_page
  <2>7. CASE s.ok
    BY <2>3, <2>5, <2>6, <2>7, KeepsTwice
  <2>8. CASE ~s.ok
    <3>1. PICK k : k = free_page(s.mem, {p})
      OBVIOUS
    <3>2. /\ Good(k) /\ k.entry[boot_pgdir] = s.mem.entry[boot_pgdir]
          /\ Dirs(k) = Dirs(s.mem) \ {p}
      <4>1. PICK F \in SUBSET Page : F = {p}
        BY <2>1
      <4>2. Good(s.mem) /\ \A q \in F : s.mem.ref[q] = 0
        BY <2>5, <2>8, <4>1 DEF Keeps
      <4>3. k = free_page(s.mem, F)
        BY <3>1, <4>1
      <4>4. /\ Good(k) /\ k.entry[boot_pgdir] = s.mem.entry[boot_pgdir]
            /\ Dirs(k) = Dirs(s.mem) \ F
        BY <4>2, <4>3, FreeKeeps
      <4> QED BY <4>1, <4>4
    <3>3. Dirs(k) = Dirs(s.mem)
      BY <2>5, <2>8, <3>2 DEF Dirs
    <3>4. Keeps(s.mem, k)
      BY <3>2, <3>3 DEF Keeps
    <3>5. r.mem = k
      BY <2>6, <2>8, <3>1
    <3> QED BY <2>3, <2>5, <3>4, <3>5, KeepsTwice
  <2> QED BY <2>7, <2>8
<1> QED BY <1>1, <1>2

\* The page of copy_range(), with what the page of the parent holds.
LEMMA CopyKeeps ==
    ASSUME NEW m, Good(m), NEW root \in Dirs(m), NEW la \in Nat, la < UserTop, Free(m) # {},
           NEW p \in Page, p = alloc_page(m), NEW q \in Page, NEW bits \in Perm,
           NEW n, n = page_insert([Used(m, p, "user") EXCEPT !.data[p] = m.data[q]],
                                  root, p, la, bits).mem
    PROVE  Keeps(m, n)
<1>1. m.use[p] = "free"
  BY AllocPage DEF Free
<1>2. PICK k : k = Used(m, p, "user")
  OBVIOUS
<1>3. Keeps(m, k) /\ Good(k) /\ k.use[p] = "user" /\ k.ref[p] = 0
  BY <1>1, <1>2, TakePage DEF Keeps
<1>4. PICK d \in [0 .. PGSIZE - 1 -> Int] : d = m.data[q]
  BY DEF Good, Memory
<1>5. PICK h : h = Wrote(k, p, d)
  OBVIOUS
<1>6. Keeps(k, h) /\ Good(h) /\ h.use[p] = "user" /\ h.ref[p] = 0
  BY <1>3, <1>4, <1>5, DataKeeps DEF Keeps
<1>7. PICK r : r = page_insert(h, root, p, la, bits)
  OBVIOUS
<1>8. n = r.mem
  BY <1>2, <1>4, <1>5, <1>7 DEF Wrote
<1>9. Keeps(h, r.mem)
  BY <1>3, <1>6, <1>7, InsertKeeps DEF Keeps
<1> QED BY <1>3, <1>6, <1>8, <1>9, KeepsTwice

-----------------------------------------------------------------------------
\* A memory whose table entries and counts were changed.
Changed(m, ref, entry) == [use |-> m.use, ref |-> ref, entry |-> entry, data |-> m.data]

\* The entries C of m are cleared, and the pages F that they refer to freed.
Cleared(m, ref, entry, C, F) ==
    /\ F \in SUBSET Page /\ F \cap Dirs(m) = {}
    /\ ref \in [Page -> Nat] /\ \A p \in Page \ F : ref[p] = m.ref[p]
    /\ entry \in [Page \cup {boot_pgdir} -> [Index -> PTE]]
    /\ \A t \in Page, i \in Index :
          entry[t][i] = IF <<t, i>> \in C THEN NULL ELSE m.entry[t][i]
    /\ entry[boot_pgdir] = m.entry[boot_pgdir]
    /\ \A t \in Page, i \in Index : IsSlot(m, t, i) /\ Aim(m, t, i) \in F => <<t, i>> \in C

\* Clearing entries and freeing what they refer to keeps the trees.
LEMMA FreeTargets ==
    ASSUME NEW m, Good(m), NEW C, NEW F, NEW ref, NEW entry, Cleared(m, ref, entry, C, F),
           NEW n, n = free_page(Changed(m, ref, entry), F)
    PROVE  Keeps(m, n) /\ Pruned(m, n, C, F)
<1>1. PICK d : d = Changed(m, ref, entry)
  OBVIOUS
<1>2. d \in Memory /\ d.use = m.use /\ d.ref = ref /\ d.entry = entry
  BY <1>1 DEF Changed, Memory, Good, Cleared
<1>3. Freed(d, n, F)
  BY <1>1, <1>2, FreePage DEF Cleared
<1>4. /\ n \in Memory
      /\ \A p \in Page : n.use[p] = IF p \in F THEN "free" ELSE m.use[p]
      /\ \A p \in Page : n.ref[p] = IF p \in F THEN 0 ELSE m.ref[p]
      /\ \A t \in Page \ F : n.entry[t] = entry[t]
      /\ n.entry[boot_pgdir] = m.entry[boot_pgdir]
  BY <1>2, <1>3, PageFacts DEF Freed, Cleared
<1>5. \A t \in Page \ F, i \in Index :
         n.entry[t][i] = IF <<t, i>> \in C THEN NULL ELSE m.entry[t][i]
  <2> SUFFICES ASSUME NEW t \in Page \ F, NEW i \in Index
               PROVE  n.entry[t][i] = IF <<t, i>> \in C THEN NULL ELSE m.entry[t][i]
    OBVIOUS
  <2>1. n.entry[t] = entry[t]
    BY <1>4
  <2>2. entry[t][i] = IF <<t, i>> \in C THEN NULL ELSE m.entry[t][i]
    BY DEF Cleared
  <2> QED BY <2>1, <2>2
<1>6. Pruned(m, n, C, F)
  BY <1>4, <1>5 DEF Pruned, Cleared
<1>7. Dirs(n) = Dirs(m)
  BY <1>4 DEF Dirs, Cleared
<1> QED BY <1>4, <1>6, <1>7, PruneGood DEF Keeps

\* The entries of the pages that are mapped in an interval.
MappedSlots(m, root, start, end) ==
    {<<get_pte(m, root, la, FALSE).table, PTX(la)>> :
        la \in {a \in PagesOf(start, end) : pte(m, root, a) # NULL}}
ClearsOnly(m, n, C) ==
    \E F \in SUBSET Page : /\ Pruned(m, n, C, F) /\ \A p \in F : m.use[p] = "user"
                          /\ \A t \in Page, i \in Index : <<t, i>> \in C => Aim(m, t, i) \in F

\* unmap_range(): as no page is mapped twice, every count that it takes down
\* was 1, and the page is freed.
LEMMA UnmapKeeps ==
    ASSUME NEW m, Good(m), NEW root \in Dirs(m), NEW start \in Nat, NEW end \in Nat,
           end <= UserTop, NEW n, n = unmap_range(m, root, start, end)
    PROVE  Keeps(m, n) /\ ClearsOnly(m, n, MappedSlots(m, root, start, end))
<1> DEFINE gone == {la \in PagesOf(start, end) : pte(m, root, la) # NULL}
           slots == {<<get_pte(m, root, la, FALSE).table, PTX(la)>> : la \in gone}
           uses(p) == Cardinality({s \in slots : m.entry[s[1]][s[2]].page = p})
           ref == [p \in Page |-> m.ref[p] - uses(p)]
           entry == [t \in DOMAIN m.entry |-> [i \in Index |->
                        IF <<t, i>> \in slots THEN NULL ELSE m.entry[t][i]]]
           F == {m.entry[s[1]][s[2]].page : s \in slots}
<1>1. m \in Memory /\ DOMAIN m.entry = Page \cup {boot_pgdir}
  BY DEF Good, Memory
<1>2. \A s \in slots : /\ s[1] \in Page /\ s[2] \in Index /\ s = <<s[1], s[2]>>
                      /\ m.use[s[1]] = "pt" /\ IsSlot(m, s[1], s[2])
  <2> SUFFICES ASSUME NEW la \in gone, NEW s, s = <<get_pte(m, root, la, FALSE).table, PTX(la)>>
               PROVE  /\ s[1] \in Page /\ s[2] \in Index /\ s = <<s[1], s[2]>>
                      /\ m.use[s[1]] = "pt" /\ IsSlot(m, s[1], s[2])
    OBVIOUS
  <2>1. la \in Nat /\ la < UserTop /\ pte(m, root, la) # NULL
    BY Constants DEF PagesOf
  <2>2. PICK create \in BOOLEAN : create = FALSE
    OBVIOUS
  <2>3. PICK t : t = get_pte(m, root, la, create).table
    OBVIOUS
  <2>4. t \in Page /\ m.use[t] = "pt" /\ PTX(la) \in Index /\ IsSlot(m, t, PTX(la))
    BY <2>1, <2>3, PteFacts
  <2>5. s = <<t, PTX(la)>>
    BY <2>2, <2>3
  <2>6. s[1] = t /\ s[2] = PTX(la)
    <3>1. PICK i : i = PTX(la)
      OBVIOUS
    <3>2. <<t, i>>[1] = t /\ <<t, i>>[2] = i
      OBVIOUS
    <3> QED BY <2>5, <3>1, <3>2
  <2> QED BY <2>4, <2>5, <2>6
<1>7. PICK d : d = [m EXCEPT !.ref = ref, !.entry = entry]
  OBVIOUS
<1>15. n = free_page(d, {p \in Page : uses(p) > 0 /\ d.ref[p] = 0})
  BY <1>7 DEF unmap_range
<1>17. slots = MappedSlots(m, root, start, end)
  BY Zenon DEF MappedSlots
<1> HIDE DEF slots
<1>3. \A s \in slots : LET p == m.entry[s[1]][s[2]].page
                      IN  p \in Page /\ m.use[p] = "user" /\ m.ref[p] = 1
  <2> SUFFICES ASSUME NEW s \in slots
               PROVE  LET p == m.entry[s[1]][s[2]].page
                      IN  p \in Page /\ m.use[p] = "user" /\ m.ref[p] = 1
    OBVIOUS
  <2>1. PICK t \in Page, i \in Index : t = s[1] /\ i = s[2]
    BY <1>2
  <2>2. m.use[t] = "pt" /\ IsSlot(m, t, i)
    BY <1>2, <2>1
  <2>3. Aim(m, t, i) \in Page /\ m.use[Aim(m, t, i)] = "user" /\ m.ref[Aim(m, t, i)] = 1
    BY <2>2, SlotFacts DEF Child
  <2> QED BY <2>1, <2>3 DEF Aim
<1>4. \A s, r \in slots : m.entry[s[1]][s[2]].page = m.entry[r[1]][r[2]].page => s = r
  <2> SUFFICES ASSUME NEW s \in slots, NEW r \in slots,
                      m.entry[s[1]][s[2]].page = m.entry[r[1]][r[2]].page
               PROVE  s = r
    OBVIOUS
  <2>1. PICK t \in Page, i \in Index : t = s[1] /\ i = s[2] /\ s = <<t, i>> /\ IsSlot(m, t, i)
    BY <1>2
  <2>2. PICK u \in Page, j \in Index : u = r[1] /\ j = r[2] /\ r = <<u, j>> /\ IsSlot(m, u, j)
    BY <1>2
  <2>3. Aim(m, t, i) = Aim(m, u, j)
    BY <2>1, <2>2 DEF Aim
  <2>4. t = u /\ i = j
    BY <2>1, <2>2, <2>3 DEF Good
  <2> QED BY <2>1, <2>2, <2>4
<1>5. \A t \in Page, i \in Index : IsSlot(m, t, i) /\ Aim(m, t, i) \in F => <<t, i>> \in slots
  <2> SUFFICES ASSUME NEW t \in Page, NEW i \in Index, IsSlot(m, t, i), Aim(m, t, i) \in F
               PROVE  <<t, i>> \in slots
    OBVIOUS
  <2>1. PICK s \in slots : Aim(m, s[1], s[2]) = Aim(m, t, i)
    BY DEF Aim
  <2>2. s[1] = t /\ s[2] = i
    BY <1>2, <2>1 DEF Good
  <2> QED BY <1>2, <2>1, <2>2
<1>6. F \in SUBSET Page /\ F \cap Dirs(m) = {} /\ \A p \in F : m.use[p] = "user"
  BY <1>3 DEF Dirs
<1>8. ASSUME NEW p \in Page PROVE uses(p) = IF p \in F THEN 1 ELSE 0
  <2>1. CASE p \in F
    <3>1. PICK s \in slots : m.entry[s[1]][s[2]].page = p
      BY <2>1
    <3>2. {r \in slots : m.entry[r[1]][r[2]].page = p} = {s}
      BY <3>1, <1>4
    <3> QED BY <2>1, <3>2, FS_Singleton
  <2>2. CASE p \notin F
    <3>1. {r \in slots : m.entry[r[1]][r[2]].page = p} = {}
      BY <2>2
    <3> QED BY <2>2, <3>1, FS_EmptySet
  <2> QED BY <2>1, <2>2
<1> HIDE DEF uses
<1>9. ASSUME NEW p \in Page
      PROVE  /\ ref[p] = IF p \in F THEN 0 ELSE m.ref[p]
             /\ ref[p] \in Nat
  <2>1. m.ref[p] \in Nat
    BY <1>1 DEF Memory
  <2>2. CASE p \in F
    <3>1. m.ref[p] = 1
      BY <1>3, <2>2
    <3>2. uses(p) = 1
      BY <1>8, <2>2
    <3> QED BY <2>2, <3>1, <3>2
  <2>3. CASE p \notin F
    <3>1. uses(p) = 0
      BY <1>8, <2>3
    <3> QED BY <2>1, <2>3, <3>1
  <2> QED BY <2>2, <2>3
<1>10. {p \in Page : uses(p) > 0 /\ ref[p] = 0} = F
  BY <1>6, <1>8, <1>9
<1>11. d = Changed(m, ref, entry) /\ d.ref = ref
  <2>1. m = [use |-> m.use, ref |-> m.ref, entry |-> m.entry, data |-> m.data]
    BY <1>1 DEF Memory
  <2> HIDE DEF ref, entry
  <2> QED BY <1>7, <2>1 DEF Changed
<1>12. /\ ref \in [Page -> Nat] /\ entry \in [Page \cup {boot_pgdir} -> [Index -> PTE]]
       /\ \A t \in Page, i \in Index :
             entry[t][i] = IF <<t, i>> \in slots THEN NULL ELSE m.entry[t][i]
  <2>1. ref \in [Page -> Nat]
    BY <1>9
  <2>2. \A t \in Page \cup {boot_pgdir}, i \in Index : m.entry[t][i] \in PTE /\ NULL \in PTE
    BY <1>1 DEF Memory, PTE
  <2>3. entry \in [Page \cup {boot_pgdir} -> [Index -> PTE]]
    BY <1>1, <2>2
  <2> QED BY <1>1, <2>1, <2>3
<1>13. entry[boot_pgdir] = m.entry[boot_pgdir]
  <2>1. \A i \in Index : <<boot_pgdir, i>> \notin slots
    BY <1>2, PageFacts
  <2>2. m.entry[boot_pgdir] \in [Index -> PTE]
    BY <1>1 DEF Memory
  <2> QED BY <1>1, <2>1, <2>2
<1>14. n = free_page(Changed(m, ref, entry), F)
  BY <1>10, <1>11, <1>15
<1>19. \A t \in Page, i \in Index : <<t, i>> \in slots => Aim(m, t, i) \in F
  BY DEF Aim
<1> HIDE DEF ref, entry, F
<1>16. Cleared(m, ref, entry, slots, F)
  BY <1>5, <1>6, <1>9, <1>12, <1>13 DEF Cleared
<1>18. Keeps(m, n) /\ Pruned(m, n, slots, F)
  BY <1>14, <1>16, FreeTargets
<1> QED BY <1>6, <1>17, <1>18, <1>19 DEF ClearsOnly

\* The entries that exit_range() visits are those of a table.
LEMMA VisitedIndex ==
    ASSUME NEW d1 \in Index, NEW start, NEW end
    PROVE  Visited(d1, start, end) \subseteq Index
<1>1. PICK e \in Nat \ {0} : e = NEntry
  BY PageTableAssumption
<1>2. PICK g \in Nat \ {0} : g = PGSIZE
  BY PageTableAssumption
<1>3. PICK t \in Nat \ {0} : t = e * g
  OBVIOUS
<1>4. PTSIZE = t
  BY <1>1, <1>2, <1>3 DEF PTSIZE
<1>5. \A a \in Int : (a \div t) % e \in 0 .. e - 1
  OBVIOUS
<1>6. \A a \in Int : PDX0(a) \in Index
  BY <1>1, <1>4, <1>5 DEF PDX0, Index
<1> QED BY <1>6 DEF Visited

\* Pages are freed and entries cleared only in the two upper levels of root.
PrunesUpper(m, n, root) ==
    \E C, F : /\ Pruned(m, n, C, F) /\ F \cap Dirs(m) = {}
              /\ \A t \in Page, i \in Index : <<t, i>> \in C =>
                    t = root \/ \E d1 \in Index : IsSlot(m, root, d1) /\ t = Aim(m, root, d1)

\* A page table without entries that it visits,
Bare(m, root, start, end, p) ==
    /\ m.entry[p] = NoEntries
    /\ \E d1 \in Index : \E i \in Visited(d1, start, end) :
          /\ IsSlot(m, root, d1) /\ IsSlot(m, Aim(m, root, d1), i)
          /\ Aim(m, Aim(m, root, d1), i) = p

\* and a level 0 directory in which it visits no invalid entry.
Full(m, root, start, end, d1) ==
    /\ IsSlot(m, root, d1) /\ Visited(d1, start, end) # {}
    /\ \A i \in Visited(d1, start, end) : m.entry[Aim(m, root, d1)][i] # NULL

\* These are freed, and only entries that refer to them are cleared.
Sweeps(m, n, root, start, end) ==
    \E C, F : /\ Pruned(m, n, C, F)
              /\ \A t \in Page, i \in Index :
                    <<t, i>> \in C /\ IsSlot(m, t, i) => Aim(m, t, i) \in F
              /\ \A p \in Page : p \in F <=>
                    \/ Bare(m, root, start, end, p)
                    \/ \E d1 \in Index : Full(m, root, start, end, d1) /\ p = Aim(m, root, d1)

\* exit_range()
LEMMA ExitRangeKeeps ==
    ASSUME NEW m, Good(m), NEW root \in Dirs(m), NEW start, NEW end,
           NEW n, n = exit_range(m, root, start, end)
    PROVE  Keeps(m, n) /\ PrunesUpper(m, n, root) /\ Sweeps(m, n, root, start, end)
<1> DEFINE dirs == {d1 \in Index : Visited(d1, start, end) # {} /\ m.entry[root][d1] # NULL}
           pd0(d1) == m.entry[root][d1].page
           valid(d1) == {i \in Visited(d1, start, end) : m.entry[pd0(d1)][i] # NULL}
           empty(d1) == {i \in valid(d1) : m.entry[m.entry[pd0(d1)][i].page] = NoEntries}
           free_pd0 == {d1 \in dirs : valid(d1) = Visited(d1, start, end)}
           pts == UNION {{m.entry[pd0(d1)][i].page : i \in empty(d1)} : d1 \in dirs}
           entry == [t \in DOMAIN m.entry |-> [i \in Index |->
                        IF \/ t = root /\ i \in free_pd0
                           \/ \E d1 \in dirs : t = pd0(d1) /\ i \in empty(d1)
                        THEN NULL ELSE m.entry[t][i]]]
           F == pts \cup {pd0(d1) : d1 \in free_pd0}
           Gone(t, i) == \/ t = root /\ i \in free_pd0
                         \/ \E d1 \in dirs : t = pd0(d1) /\ i \in empty(d1)
           C == {s \in Page \X Index : Gone(s[1], s[2])}
<1>1. m \in Memory /\ DOMAIN m.entry = Page \cup {boot_pgdir}
  BY DEF Good, Memory
<1>2. root \in Page /\ m.use[root] = "pgdir" /\ root # boot_pgdir
  BY PageFacts DEF Dirs
<1>3. PICK d : d = [m EXCEPT !.entry = entry]
  OBVIOUS
<1>4. n = free_page(d, F)
  BY <1>3 DEF exit_range
<1>5. ASSUME NEW d1 \in dirs
      PROVE  /\ d1 \in Index /\ IsSlot(m, root, d1) /\ Aim(m, root, d1) = pd0(d1)
             /\ pd0(d1) \in Page /\ m.use[pd0(d1)] = "pd0"
  <2>1. IsSlot(m, root, d1) /\ Aim(m, root, d1) = pd0(d1)
    BY <1>2 DEF IsSlot, Aim, Table
  <2> QED BY <1>2, <2>1, SlotFacts DEF Child
<1>6. ASSUME NEW d1 \in dirs, NEW i \in empty(d1)
      PROVE  LET p == m.entry[pd0(d1)][i].page
             IN  /\ i \in Index /\ IsSlot(m, pd0(d1), i) /\ Aim(m, pd0(d1), i) = p
                 /\ p \in Page /\ m.use[p] = "pt"
  <2>1. i \in Index /\ m.entry[pd0(d1)][i] # NULL
    BY VisitedIndex
  <2>2. PICK u \in Page : u = pd0(d1) /\ m.use[u] = "pd0"
    BY <1>5
  <2>3. IsSlot(m, u, i) /\ Aim(m, u, i) = m.entry[u][i].page
    BY <2>1, <2>2 DEF IsSlot, Aim, Table
  <2>4. Aim(m, u, i) \in Page /\ m.use[Aim(m, u, i)] = "pt"
    BY <2>1, <2>2, <2>3, SlotFacts DEF Child
  <2> QED BY <2>1, <2>2, <2>3, <2>4
<1>17. ASSUME NEW p \in Page PROVE p \in pts <=> Bare(m, root, start, end, p)
  <2>1. ASSUME p \in pts PROVE Bare(m, root, start, end, p)
    <3>1. PICK d1 \in dirs : p \in {m.entry[pd0(d1)][i].page : i \in empty(d1)}
      BY <2>1
    <3>2. PICK i \in empty(d1) : p = m.entry[pd0(d1)][i].page
      BY <3>1
    <3>3. i \in Visited(d1, start, end) /\ m.entry[p] = NoEntries
      BY <3>2
    <3>4. d1 \in Index /\ IsSlot(m, root, d1) /\ Aim(m, root, d1) = pd0(d1)
      BY <1>5
    <3>5. IsSlot(m, pd0(d1), i) /\ Aim(m, pd0(d1), i) = p
      BY <1>6, <3>2
    <3> HIDE DEF pd0
    <3> QED BY <3>3, <3>4, <3>5 DEF Bare
  <2>2. ASSUME Bare(m, root, start, end, p) PROVE p \in pts
    <3>1. PICK d1 \in Index : \E i \in Visited(d1, start, end) :
             /\ IsSlot(m, root, d1) /\ IsSlot(m, Aim(m, root, d1), i)
             /\ Aim(m, Aim(m, root, d1), i) = p
      BY <2>2 DEF Bare
    <3>2. PICK i \in Visited(d1, start, end) :
             /\ IsSlot(m, root, d1) /\ IsSlot(m, Aim(m, root, d1), i)
             /\ Aim(m, Aim(m, root, d1), i) = p
      BY <3>1
    <3>3. Aim(m, root, d1) = pd0(d1)
      BY DEF Aim
    <3>4. m.entry[root][d1] # NULL /\ m.entry[pd0(d1)][i] # NULL /\ m.entry[pd0(d1)][i].page = p
      BY <3>2, <3>3 DEF IsSlot, Aim
    <3>5. m.entry[p] = NoEntries
      BY <2>2 DEF Bare
    <3>6. d1 \in dirs
      BY <3>4
    <3>7. i \in empty(d1)
      BY <3>4, <3>5
    <3> HIDE DEF dirs, empty, pd0
    <3> QED BY <3>4, <3>6, <3>7
  <2> QED BY <2>1, <2>2
<1>18. ASSUME NEW d1 \in Index
       PROVE  d1 \in free_pd0 <=> Full(m, root, start, end, d1)
  <2>1. m.entry[root][d1] # NULL <=> IsSlot(m, root, d1)
    BY <1>2 DEF IsSlot, Table
  <2>2. pd0(d1) = Aim(m, root, d1)
    BY DEF Aim
  <2>3. d1 \in dirs <=> Visited(d1, start, end) # {} /\ IsSlot(m, root, d1)
    BY <2>1
  <2>4. valid(d1) = Visited(d1, start, end)
           <=> \A i \in Visited(d1, start, end) : m.entry[pd0(d1)][i] # NULL
    OBVIOUS
  <2> HIDE DEF dirs, valid, pd0
  <2> QED BY <2>2, <2>3, <2>4 DEF Full
<1>19. ASSUME NEW p \in Page
       PROVE  p \in F <=> \/ Bare(m, root, start, end, p)
                          \/ \E d1 \in Index : Full(m, root, start, end, d1)
                                              /\ p = Aim(m, root, d1)
  <2>1. \A d1 \in free_pd0 : d1 \in Index
    OBVIOUS
  <2>2. \A d1 : pd0(d1) = Aim(m, root, d1)
    BY DEF Aim
  <2> HIDE DEF pts, free_pd0, pd0
  <2>3. p \in F <=> p \in pts \/ \E d1 \in free_pd0 : p = pd0(d1)
    OBVIOUS
  <2> HIDE DEF F
  <2> QED BY <1>17, <1>18, <2>1, <2>2, <2>3
<1>20. ASSUME NEW t \in Page, NEW i \in Index, <<t, i>> \in C
       PROVE  Aim(m, t, i) \in F
  <2>1. Gone(t, i)
    BY <1>20
  <2>2. CASE t = root /\ i \in free_pd0
    <3>1. Aim(m, t, i) = pd0(i)
      BY <2>2 DEF Aim
    <3> HIDE DEF pts, free_pd0, pd0
    <3> QED BY <2>2, <3>1
  <2>3. CASE \E d1 \in dirs : t = pd0(d1) /\ i \in empty(d1)
    <3>1. PICK d1 \in dirs : t = pd0(d1) /\ i \in empty(d1)
      BY <2>3
    <3>2. Aim(m, t, i) = m.entry[pd0(d1)][i].page
      BY <3>1 DEF Aim
    <3> HIDE DEF free_pd0, empty, pd0, dirs
    <3>3. Aim(m, t, i) \in pts
      BY <3>1, <3>2
    <3> QED BY <3>3
  <2> QED BY <2>1, <2>2, <2>3
<1> HIDE DEF dirs, empty
<1>7. F \in SUBSET Page /\ F \cap Dirs(m) = {}
  <2>1. \A p \in F : p \in Page /\ m.use[p] \in {"pd0", "pt"}
    <3>1. \A d1 \in dirs : \A p \in {m.entry[pd0(d1)][i].page : i \in empty(d1)} :
             p \in Page /\ m.use[p] = "pt"
      BY <1>6
    <3>2. \A p \in pts : p \in Page /\ m.use[p] = "pt"
      BY <3>1
    <3>3. \A d1 \in free_pd0 : pd0(d1) \in Page /\ m.use[pd0(d1)] = "pd0"
      BY <1>5
    <3>4. ASSUME NEW p \in F PROVE p \in pts \/ \E d1 \in free_pd0 : p = pd0(d1)
      <4> HIDE DEF pts, free_pd0
      <4> QED OBVIOUS
    <3>5. ASSUME NEW p \in F PROVE p \in Page /\ m.use[p] \in {"pd0", "pt"}
      <4> HIDE DEF pts, free_pd0, F, pd0
      <4>1. CASE p \in pts
        BY <3>2, <4>1
      <4>2. CASE \E d1 \in free_pd0 : p = pd0(d1)
        BY <3>3, <4>2
      <4> QED BY <3>4, <4>1, <4>2
    <3> QED BY <3>5
  <2> QED BY <2>1 DEF Dirs
<1>8. ASSUME NEW t \in Page, NEW i \in Index, IsSlot(m, t, i), Aim(m, t, i) \in F
      PROVE  <<t, i>> \in C
  <2>1. CASE Aim(m, t, i) \in pts
    <3>1. PICK d1 \in dirs : Aim(m, t, i) \in {m.entry[pd0(d1)][j].page : j \in empty(d1)}
      BY <2>1
    <3>2. PICK j \in empty(d1) : Aim(m, t, i) = m.entry[pd0(d1)][j].page
      BY <3>1
    <3>3. t = pd0(d1) /\ i = j
      <4>1. PICK u \in Page : u = pd0(d1)
        BY <1>5
      <4>2. j \in Index /\ IsSlot(m, u, j) /\ Aim(m, u, j) = Aim(m, t, i)
        BY <1>6, <3>2, <4>1
      <4>3. t = u /\ i = j
        BY <1>8, <4>2 DEF Good
      <4> QED BY <4>1, <4>3
    <3> QED BY <3>1, <3>2, <3>3
  <2>2. CASE \E d1 \in free_pd0 : Aim(m, t, i) = pd0(d1)
    <3>1. PICK d1 \in free_pd0 : Aim(m, t, i) = pd0(d1)
      BY <2>2
    <3>2. t = root /\ i = d1
      <4>1. root \in Page /\ d1 \in Index /\ IsSlot(m, root, d1) /\ Aim(m, root, d1) = Aim(m, t, i)
        BY <1>2, <1>5, <3>1
      <4> QED BY <1>8, <4>1 DEF Good
    <3> QED BY <3>1, <3>2
  <2> QED BY <1>8, <2>1, <2>2
<1>9. /\ entry \in [Page \cup {boot_pgdir} -> [Index -> PTE]]
      /\ \A t \in Page, i \in Index :
            entry[t][i] = IF <<t, i>> \in C THEN NULL ELSE m.entry[t][i]
  <2>1. \A t \in Page \cup {boot_pgdir}, i \in Index : m.entry[t][i] \in PTE /\ NULL \in PTE
    BY <1>1 DEF Memory, PTE
  <2>2. entry \in [Page \cup {boot_pgdir} -> [Index -> PTE]]
    BY <1>1, <2>1
  <2>3. \A t \in Page, i \in Index : <<t, i>> \in C <=> Gone(t, i)
    BY DEF C
  <2>4. \A t \in Page, i \in Index : entry[t][i] = IF Gone(t, i) THEN NULL ELSE m.entry[t][i]
    BY <1>1
  <2> QED BY <2>2, <2>3, <2>4
<1>10. entry[boot_pgdir] = m.entry[boot_pgdir]
  <2>1. \A i \in Index : ~Gone(boot_pgdir, i)
    BY <1>2, <1>5, PageFacts
  <2>2. m.entry[boot_pgdir] \in [Index -> PTE]
    BY <1>1 DEF Memory
  <2> QED BY <1>1, <2>1, <2>2
<1>15. ASSUME NEW t \in Page, NEW i \in Index, <<t, i>> \in C
       PROVE  t = root \/ \E d1 \in Index : IsSlot(m, root, d1) /\ t = Aim(m, root, d1)
  <2>1. Gone(t, i)
    BY <1>15
  <2> QED BY <2>1, <1>5
<1> HIDE DEF entry, F, C
<1>11. d = Changed(m, m.ref, entry)
  <2>1. m = [use |-> m.use, ref |-> m.ref, entry |-> m.entry, data |-> m.data]
    BY <1>1 DEF Memory
  <2> QED BY <1>3, <2>1 DEF Changed
<1>12. m.ref \in [Page -> Nat]
  BY <1>1 DEF Memory
<1>13. \A t \in Page, i \in Index : IsSlot(m, t, i) /\ Aim(m, t, i) \in F => <<t, i>> \in C
  BY <1>8
<1>14. Cleared(m, m.ref, entry, C, F)
  BY <1>7, <1>9, <1>10, <1>12, <1>13 DEF Cleared
<1>16. Keeps(m, n) /\ Pruned(m, n, C, F)
  BY <1>4, <1>11, <1>14, FreeTargets
<1>21. Sweeps(m, n, root, start, end)
  BY <1>16, <1>19, <1>20 DEF Sweeps
<1> QED BY <1>7, <1>15, <1>16, <1>21 DEF PrunesUpper
-----------------------------------------------------------------------------
\* The memory while check_pgdir() and check_boot_pgdir() use it: boot_pgdir
\* refers to d, d to t, and t by its entries 0 and 1 to the pages under test.
\* The page x has been allocated for an entry to come, and been counted k times.
Uses(e, p) == (IF e[0] # NULL /\ e[0].page = p THEN 1 ELSE 0)
              + (IF e[1] # NULL /\ e[1].page = p THEN 1 ELSE 0)

TestTable(d, t, e) ==
    /\ d \in Page /\ t \in Page /\ d # t
    /\ e \in [Index -> PTE] /\ \A i \in Index : i > 1 => e[i] = NULL
    /\ \A i \in Index : e[i] # NULL => e[i].page \in Page \ {d, t}

BootEntries(m, d, t, e) ==
    /\ m.entry[boot_pgdir] = [NoEntries EXCEPT ![0] = pte_create(d, {"U"})]
    /\ m.entry[d] = [NoEntries EXCEPT ![0] = pte_create(t, {"U"})]
    /\ m.entry[t] = e

BootPages(m, d, t, e, x, k) ==
    /\ m.use[d] = "pd0" /\ m.use[t] = "pt" /\ m.ref[d] = 1 /\ m.ref[t] = 1
    /\ \A p \in Page \ {d, t} :
          /\ m.use[p] = IF Uses(e, p) = 0 /\ p # x THEN "free" ELSE "user"
          /\ m.ref[p] = Uses(e, p) + (IF p = x THEN k ELSE 0)

BootTables(m, d, t, e, x, k) ==
    /\ m \in Memory /\ TestTable(d, t, e) /\ BootEntries(m, d, t, e)
    /\ BootPages(m, d, t, e, x, k)

\* All pages are free.
AllFree(m) ==
    /\ m \in Memory /\ m.entry[boot_pgdir] = NoEntries
    /\ \A p \in Page : m.use[p] = "free" /\ m.ref[p] = 0

\* There are two entries, and the tests use the first two pages.
LEMMA BootIndexes ==
    /\ 0 \in Index /\ 1 \in Index /\ \A i \in Index : i \in Nat
    /\ PDX1(0) = 0 /\ PDX0(0) = 0 /\ PTX(0) = 0
    /\ PDX1(PGSIZE) = 0 /\ PDX0(PGSIZE) = 0 /\ PTX(PGSIZE) = 1
<1>1. PICK e \in Nat \ {0} : e = NEntry
  BY PageTableAssumption
<1>2. PICK g \in Nat \ {0} : g = PGSIZE
  BY PageTableAssumption
<1>3. PICK t \in Nat \ {0} : t = e * g
  OBVIOUS
<1>4. PICK d \in Nat \ {0} : d = e * t
  OBVIOUS
<1>5. PTSIZE = t /\ PDSIZE = d
  BY <1>1, <1>2, <1>3, <1>4 DEF PTSIZE, PDSIZE
<1>6. e > 1
  <2>1. UserTop <= e * d /\ g <= UserBase /\ UserBase < UserTop
    <3>1. UserTop <= e * d /\ UserBase < UserTop
      BY <1>1, <1>5, Constants, AddressSpaceAssumption
    <3>2. UserBase \in Nat \ {0} /\ UserBase % g = 0
      BY <1>2, Constants, AddressSpaceAssumption
    <3>3. UserBase < g => UserBase % g = UserBase
      BY <3>2
    <3> QED BY <3>1, <3>2, <3>3
  <2>2. ASSUME e = 1 PROVE FALSE
    <3>1. t = g /\ d = g /\ e * d = g
      BY <1>3, <1>4, <2>2
    <3> QED BY <2>1, <3>1, Constants
  <2> QED BY <2>2
<1>7. g < t /\ t < d
  <2>1. PICK f \in Nat \ {0} : e = 1 + f
    <3>1. e - 1 \in Nat \ {0} /\ e = 1 + (e - 1)
      BY <1>6
    <3> QED BY <3>1
  <2>2. t = g + f * g /\ d = t + f * t /\ f * g > 0 /\ f * t > 0
    BY <1>3, <1>4, <2>1
  <2> QED BY <2>2
<1>8. 0 \div d = 0 /\ 0 \div t = 0 /\ 0 \div g = 0 /\ g \div d = 0 /\ g \div t = 0 /\ g \div g = 1
  BY <1>7
<1>9. 0 % e = 0 /\ 1 % e = 1
  BY <1>6
<1> QED BY <1>1, <1>2, <1>5, <1>6, <1>8, <1>9 DEF PDX1, PDX0, PTX, Index

\* The tables are found.
LEMMA BootPte ==
    ASSUME NEW m, NEW d, NEW t, NEW e, NEW x, NEW k, BootTables(m, d, t, e, x, k),
           NEW j \in {0, 1}, NEW la, la = j * PGSIZE, NEW create \in BOOLEAN
    PROVE  /\ get_pte(m, boot_pgdir, la, create) = [mem |-> m, table |-> t]
           /\ PTX(la) = j /\ pte(m, boot_pgdir, la) = e[j]
<1>1. PDX1(la) = 0 /\ PDX0(la) = 0 /\ PTX(la) = j
  <2>1. PGSIZE \in Nat
    BY Constants
  <2>2. la = IF j = 0 THEN 0 ELSE PGSIZE
    BY <2>1
  <2> QED BY <2>2, BootIndexes
<1>2. /\ m.entry[boot_pgdir][0] # NULL /\ m.entry[boot_pgdir][0].page = d
      /\ m.entry[d][0] # NULL /\ m.entry[d][0].page = t /\ m.entry[t] = e
  <2>1. /\ pte_create(d, {"U"}) # NULL /\ pte_create(d, {"U"}).page = d
        /\ pte_create(t, {"U"}) # NULL /\ pte_create(t, {"U"}).page = t
    BY PageFacts DEF BootTables, TestTable, Perm
  <2> QED BY <2>1, BootIndexes DEF BootTables, BootEntries, NoEntries
<1>3. d # NULL
  BY PageTableAssumption DEF BootTables, TestTable, Page
<1>4. level(m, boot_pgdir, 0, "pd0", create) = [mem |-> m, table |-> d]
  BY <1>2 DEF level
<1>5. level(m, d, 0, "pt", create) = [mem |-> m, table |-> t]
  BY <1>2 DEF level
<1>6. get_pte(m, boot_pgdir, la, create) = level(m, d, 0, "pt", create)
  BY <1>1, <1>3, <1>4 DEF get_pte
<1>7. pte(m, boot_pgdir, la) = e[j]
  BY <1>1, <1>2 DEF pte, Below
<1> QED BY <1>1, <1>5, <1>6, <1>7

\* The tables are e and, with an entry for page q more, g.
More(e, g, q) ==
    /\ e \in [Index -> PTE] /\ g \in [Index -> PTE]
    /\ \E j \in {0, 1} : /\ e[j] = NULL /\ g[j] # NULL /\ g[j].page = q
                         /\ \A i \in Index : i # j => g[i] = e[i]

\* One more entry is one more use.
LEMMA UsesMore ==
    ASSUME NEW e, NEW g, NEW q, More(e, g, q), NEW p
    PROVE  Uses(g, p) = Uses(e, p) + (IF p = q THEN 1 ELSE 0) /\ Uses(e, p) \in {0, 1}
<1>1. PICK j \in {0, 1} : /\ e[j] = NULL /\ g[j] # NULL /\ g[j].page = q
                          /\ \A i \in Index : i # j => g[i] = e[i]
  BY DEF More
<1>2. CASE j = 0
  BY <1>1, <1>2, BootIndexes DEF Uses
<1>3. CASE j = 1
  BY <1>1, <1>3, BootIndexes DEF Uses
<1> QED BY <1>2, <1>3

\* The page p, with which one of the tests goes on, is counted.
LEMMA BootCount ==
    ASSUME NEW m, NEW d, NEW t, NEW e, NEW x, BootTables(m, d, t, e, x, 0),
           NEW p \in Page \ {d, t}, m.use[p] = "user", x \in {NULL, p},
           NEW n, n = [m EXCEPT !.ref[p] = @ + 1]
    PROVE  BootTables(n, d, t, e, p, 1)
<1>1. /\ m \in Memory /\ TestTable(d, t, e) /\ BootEntries(m, d, t, e)
      /\ BootPages(m, d, t, e, x, 0)
  BY DEF BootTables
<1>2. NULL \notin Page
  BY PageTableAssumption DEF Page
<1>3. PICK f : f = [m.ref EXCEPT ![p] = @ + 1]
  OBVIOUS
<1>4. f \in [Page -> Nat] /\ f[p] = m.ref[p] + 1 /\ \A q \in Page : q # p => f[q] = m.ref[q]
  <2>1. m.ref \in [Page -> Nat]
    BY <1>1 DEF Memory
  <2> QED BY <1>3, <2>1
<1>5. n = [use |-> m.use, ref |-> f, entry |-> m.entry, data |-> m.data]
  <2>1. m = [use |-> m.use, ref |-> m.ref, entry |-> m.entry, data |-> m.data]
    BY <1>1 DEF Memory
  <2>2. n = [m EXCEPT !.ref = f]
    BY <1>3
  <2> QED BY <2>1, <2>2
<1>6. n \in Memory
  <2>1. PICK use, entry : use = m.use /\ entry = m.entry
    OBVIOUS
  <2>2. /\ use \in [Page -> {"free", "user"} \cup Table]
        /\ entry \in [Page \cup {boot_pgdir} -> [Index -> PTE]]
    BY <1>1, <2>1 DEF Memory
  <2>3. n = [use |-> use, ref |-> f, entry |-> entry, data |-> m.data]
    BY <1>5, <2>1
  <2>4. [use |-> use, ref |-> f, entry |-> entry, data |-> m.data] \in Memory
    BY <1>1, <1>4, <2>2, SameData
  <2> QED BY <2>3, <2>4
<1>7. n.use = m.use /\ n.ref = f /\ n.entry = m.entry
  BY <1>5
<1>8. BootEntries(n, d, t, e)
  BY <1>1, <1>7 DEF BootEntries
<1>9. BootPages(n, d, t, e, p, 1)
  <2>1. /\ n.use[d] = "pd0" /\ n.use[t] = "pt" /\ n.ref[d] = 1 /\ n.ref[t] = 1
    BY <1>1, <1>4, <1>7 DEF BootPages, TestTable
  <2>2. ASSUME NEW q \in Page \ {d, t}
        PROVE  /\ n.use[q] = IF Uses(e, q) = 0 /\ q # p THEN "free" ELSE "user"
               /\ n.ref[q] = Uses(e, q) + (IF q = p THEN 1 ELSE 0)
    <3>1. Uses(e, q) \in Nat
      BY DEF Uses
    <3>2. /\ m.use[q] = IF Uses(e, q) = 0 /\ q # x THEN "free" ELSE "user"
          /\ m.ref[q] = Uses(e, q)
      <4>1. /\ m.use[q] = IF Uses(e, q) = 0 /\ q # x THEN "free" ELSE "user"
            /\ m.ref[q] = Uses(e, q) + (IF q = x THEN 0 ELSE 0)
        BY <1>1 DEF BootPages
      <4> QED BY <3>1, <4>1
    <3>3. CASE q = p
      BY <1>4, <1>7, <3>2, <3>3
    <3>4. CASE q # p
      BY <1>2, <1>4, <1>7, <3>1, <3>2, <3>4
    <3> QED BY <3>3, <3>4
  <2> QED BY <2>1, <2>2 DEF BootPages
<1> QED BY <1>1, <1>6, <1>8, <1>9 DEF BootTables

\* An entry is made for it.
LEMMA BootSet ==
    ASSUME NEW m, NEW d, NEW t, NEW e, NEW p, BootTables(m, d, t, e, p, 1),
           p \in Page \ {d, t}, NEW j \in {0, 1}, e[j] = NULL,
           NEW c \in PTE, c # NULL, c.page = p,
           NEW n, n = [m EXCEPT !.entry[t][j] = c]
    PROVE  BootTables(n, d, t, [e EXCEPT ![j] = c], NULL, 0)
<1>1. /\ m \in Memory /\ TestTable(d, t, e) /\ BootEntries(m, d, t, e)
      /\ BootPages(m, d, t, e, p, 1)
  BY DEF BootTables
<1>2. NULL \notin Page /\ j \in Index /\ e \in [Index -> PTE]
  BY <1>1, BootIndexes, PageTableAssumption DEF Page, TestTable
<1>3. PICK g : g = [e EXCEPT ![j] = c]
  OBVIOUS
<1>4. g \in [Index -> PTE] /\ g[j] = c /\ \A i \in Index : i # j => g[i] = e[i]
  BY <1>2, <1>3
<1>5. PICK f : f = [m.entry EXCEPT ![t] = g]
  OBVIOUS
<1>6. /\ f \in [Page \cup {boot_pgdir} -> [Index -> PTE]] /\ f[t] = g
      /\ f[boot_pgdir] = m.entry[boot_pgdir] /\ f[d] = m.entry[d]
  <2>1. m.entry \in [Page \cup {boot_pgdir} -> [Index -> PTE]]
    BY <1>1 DEF Memory
  <2> QED BY <1>1, <1>4, <1>5, <2>1, PageFacts DEF TestTable
<1>7. n = [use |-> m.use, ref |-> m.ref, entry |-> f, data |-> m.data]
  <2>1. m.entry[t] = e
    BY <1>1 DEF BootEntries
  <2> QED BY <1>1, <1>3, <1>5, <2>1 DEF Memory
<1>8. n \in Memory
  <2>1. /\ m.use \in [Page -> {"free", "user"} \cup Table] /\ m.ref \in [Page -> Nat]
    BY <1>1 DEF Memory
  <2>2. PICK use, ref : use = m.use /\ ref = m.ref
    OBVIOUS
  <2>3. [use |-> use, ref |-> ref, entry |-> f, data |-> m.data] \in Memory
    BY <1>1, <1>6, <2>1, <2>2, SameData
  <2> QED BY <1>7, <2>2, <2>3
<1>9. n.use = m.use /\ n.ref = m.ref /\ n.entry = f
  BY <1>7
<1>10. BootEntries(n, d, t, g)
  BY <1>1, <1>6, <1>9 DEF BootEntries
<1>11. TestTable(d, t, g)
  BY <1>1, <1>4 DEF TestTable
<1>12. BootPages(n, d, t, g, NULL, 0)
  <2>1. /\ n.use[d] = "pd0" /\ n.use[t] = "pt" /\ n.ref[d] = 1 /\ n.ref[t] = 1
    BY <1>1, <1>9 DEF BootPages
  <2>2. ASSUME NEW q \in Page \ {d, t}
        PROVE  /\ n.use[q] = IF Uses(g, q) = 0 /\ q # NULL THEN "free" ELSE "user"
               /\ n.ref[q] = Uses(g, q) + (IF q = NULL THEN 0 ELSE 0)
    <3>1. /\ Uses(g, q) = Uses(e, q) + (IF q = p THEN 1 ELSE 0) /\ Uses(e, q) \in {0, 1}
      <4>1. More(e, g, p)
        BY <1>2, <1>4 DEF More
      <4> QED BY <4>1, UsesMore
    <3>2. /\ m.use[q] = IF Uses(e, q) = 0 /\ q # p THEN "free" ELSE "user"
          /\ m.ref[q] = Uses(e, q) + (IF q = p THEN 1 ELSE 0)
      BY <1>1 DEF BootPages
    <3> QED BY <1>2, <1>9, <3>1, <3>2
  <2> QED BY <2>1, <2>2 DEF BootPages
<1> QED BY <1>3, <1>8, <1>10, <1>11, <1>12 DEF BootTables

\* An entry is removed: page_remove_pte()
LEMMA BootCut ==
    ASSUME NEW m, NEW d, NEW t, NEW e, NEW x, NEW k \in {0, 1}, BootTables(m, d, t, e, x, k),
           NEW j \in {0, 1}, e[j] # NULL, k = 1 \/ e[j].page # x,
           NEW n, n = page_remove_pte(m, t, j)
    PROVE  BootTables(n, d, t, [e EXCEPT ![j] = NULL], x, k)
<1>1. /\ m \in Memory /\ TestTable(d, t, e) /\ BootEntries(m, d, t, e)
      /\ BootPages(m, d, t, e, x, k)
  BY DEF BootTables
<1>2. NULL \notin Page /\ j \in Index /\ e \in [Index -> PTE] /\ d # boot_pgdir /\ t # boot_pgdir
  BY <1>1, BootIndexes, PageFacts, PageTableAssumption DEF Page, TestTable
<1>3. PICK q \in Page \ {d, t} : q = e[j].page
  BY <1>1, <1>2 DEF TestTable
<1>4. PICK g : g = [e EXCEPT ![j] = NULL]
  OBVIOUS
<1>5. g \in [Index -> PTE] /\ g[j] = NULL /\ \A i \in Index : i # j => g[i] = e[i]
  BY <1>2, <1>4 DEF PTE
<1>6. \A p : /\ Uses(e, p) = Uses(g, p) + (IF p = q THEN 1 ELSE 0)
             /\ Uses(g, p) \in {0, 1}
  <2>1. More(g, e, q)
    BY <1>2, <1>3, <1>5 DEF More
  <2> QED BY <2>1, UsesMore
<1>7. PICK f : f = [m.entry EXCEPT ![t] = g]
  OBVIOUS
<1>8. /\ f \in [Page \cup {boot_pgdir} -> [Index -> PTE]] /\ f[t] = g
      /\ f[boot_pgdir] = m.entry[boot_pgdir] /\ f[d] = m.entry[d]
  <2>1. m.entry \in [Page \cup {boot_pgdir} -> [Index -> PTE]]
    BY <1>1 DEF Memory
  <2> QED BY <1>1, <1>5, <1>7, <2>1, PageFacts DEF TestTable
<1>9. PICK ref : ref = [m.ref EXCEPT ![q] = @ - 1]
  OBVIOUS
<1>10. ref \in [Page -> Nat] /\ ref[q] = m.ref[q] - 1 /\ \A p \in Page : p # q => ref[p] = m.ref[p]
  <2>1. m.ref \in [Page -> Nat]
    BY <1>1 DEF Memory
  <2>2. m.ref[q] = Uses(e, q) + (IF q = x THEN k ELSE 0)
    BY <1>1 DEF BootPages
  <2>3. m.ref[q] - 1 \in Nat
    BY <1>6, <2>2
  <2> QED BY <1>9, <2>1, <2>3
<1>11. PICK c : c = [use |-> m.use, ref |-> ref, entry |-> f, data |-> m.data]
  OBVIOUS
<1>12. c \in Memory
  <2>1. PICK use : use = m.use
    OBVIOUS
  <2>2. use \in [Page -> {"free", "user"} \cup Table]
    BY <1>1, <2>1 DEF Memory
  <2>3. [use |-> use, ref |-> ref, entry |-> f, data |-> m.data] \in Memory
    BY <1>1, <1>8, <1>10, <2>2, SameData
  <2> QED BY <1>11, <2>1, <2>3
<1>13. n = IF ref[q] = 0 THEN free_page(c, {q}) ELSE c
  <2>1. m.entry[t][j].page = q /\ m.entry[t] = e
    BY <1>1, <1>3 DEF BootEntries
  <2>2. [m EXCEPT !.ref[q] = @ - 1, !.entry[t][j] = NULL] = c
    <3>1. m = [use |-> m.use, ref |-> m.ref, entry |-> m.entry, data |-> m.data]
      BY <1>1 DEF Memory
    <3>2. PICK inc : inc = [use |-> m.use, ref |-> ref, entry |-> m.entry, data |-> m.data]
      OBVIOUS
    <3>3. [m EXCEPT !.ref[q] = @ - 1] = inc
      BY <1>9, <3>1, <3>2
    <3>4. [inc EXCEPT !.entry[t][j] = NULL] = c
      BY <1>4, <1>7, <1>11, <2>1, <3>2
    <3> QED BY <3>3, <3>4
  <2>3. c.ref[q] = ref[q]
    BY <1>11
  <2>4. page_remove_pte(m, t, j) = IF c.ref[q] = 0 THEN free_page(c, {q}) ELSE c
    <3> DEFINE u == m.entry[t][j].page
               dec == [m EXCEPT !.ref[u] = @ - 1, !.entry[t][j] = NULL]
    <3>1. page_remove_pte(m, t, j) = IF dec.ref[u] = 0 THEN free_page(dec, {u}) ELSE dec
      BY Zenon DEF page_remove_pte
    <3>2. u = q
      BY <2>1
    <3> HIDE DEF u
    <3>3. dec = c
      BY <2>2, <3>2
    <3> HIDE DEF dec
    <3> QED BY <3>1, <3>2, <3>3
  <2> QED BY <2>3, <2>4
<1>14. /\ n \in Memory
       /\ \A p \in Page : n.use[p] = IF p = q /\ ref[q] = 0 THEN "free" ELSE m.use[p]
       /\ \A p \in Page : n.ref[p] = ref[p]
       /\ n.entry[boot_pgdir] = f[boot_pgdir] /\ n.entry[d] = f[d] /\ n.entry[t] = f[t]
  <2>1. CASE ref[q] = 0
    <3>1. Freed(c, n, {q})
      BY <1>12, <1>13, <2>1, FreePage
    <3>2. boot_pgdir \notin {q} /\ d \notin {q} /\ t \notin {q}
      BY <1>1, <1>2, <1>3, PageFacts DEF TestTable
    <3>3. d \in Page /\ t \in Page
      BY <1>1 DEF TestTable
    <3>4. /\ n \in Memory
          /\ \A p \in Page : n.use[p] = IF p = q THEN "free" ELSE c.use[p]
          /\ \A p \in Page : n.ref[p] = IF p = q THEN 0 ELSE c.ref[p]
      BY <3>1 DEF Freed
    <3>5. /\ n.entry[boot_pgdir] = c.entry[boot_pgdir] /\ n.entry[d] = c.entry[d]
          /\ n.entry[t] = c.entry[t]
      BY <3>1, <3>2, <3>3 DEF Freed
    <3> QED BY <1>11, <2>1, <3>4, <3>5
  <2>2. CASE ref[q] # 0
    BY <1>11, <1>12, <1>13, <2>2
  <2> QED BY <2>1, <2>2
<1>15. BootEntries(n, d, t, g)
  BY <1>1, <1>8, <1>14 DEF BootEntries
<1>16. TestTable(d, t, g)
  BY <1>1, <1>5 DEF TestTable
<1>17. BootPages(n, d, t, g, x, k)
  <2>1. /\ n.use[d] = "pd0" /\ n.use[t] = "pt" /\ n.ref[d] = 1 /\ n.ref[t] = 1
    BY <1>1, <1>3, <1>10, <1>14 DEF BootPages, TestTable
  <2>2. ASSUME NEW p \in Page \ {d, t}
        PROVE  /\ n.use[p] = IF Uses(g, p) = 0 /\ p # x THEN "free" ELSE "user"
               /\ n.ref[p] = Uses(g, p) + (IF p = x THEN k ELSE 0)
    <3>1. /\ m.use[p] = IF Uses(e, p) = 0 /\ p # x THEN "free" ELSE "user"
          /\ m.ref[p] = Uses(e, p) + (IF p = x THEN k ELSE 0)
      BY <1>1 DEF BootPages
    <3>2. /\ Uses(e, p) = Uses(g, p) + (IF p = q THEN 1 ELSE 0) /\ Uses(g, p) \in {0, 1}
      BY <1>6
    <3>3. CASE p = q
      <4>1. ref[p] = Uses(g, p) + (IF p = x THEN k ELSE 0)
        BY <1>10, <3>1, <3>2, <3>3
      <4>2. m.use[p] = "user"
        BY <3>1, <3>2, <3>3
      <4> QED BY <1>3, <1>14, <3>2, <3>3, <4>1, <4>2
    <3>4. CASE p # q
      BY <1>10, <1>14, <3>1, <3>2, <3>4
    <3> QED BY <3>3, <3>4
  <2> QED BY <2>1, <2>2 DEF BootPages
<1> QED BY <1>4, <1>14, <1>15, <1>16, <1>17 DEF BootTables

\* page_insert() into the tables under test.
LEMMA BootInsert ==
    ASSUME NEW m, NEW g, NEW d, NEW t, NEW e, NEW x, BootTables(g, d, t, e, x, 0),
           NEW la, get_pte(m, boot_pgdir, la, TRUE) = [mem |-> g, table |-> t],
           NEW j \in {0, 1}, PTX(la) = j,
           NEW p \in Page \ {d, t}, g.use[p] = "user", x \in {NULL, p}, NEW bits \in Perm,
           e[j] # NULL => e[j].page # p,
           NEW r, r = page_insert(m, boot_pgdir, p, la, bits)
    PROVE  BootTables(r.mem, d, t, [e EXCEPT ![j] = pte_create(p, bits)], NULL, 0)
<1>1. /\ g \in Memory /\ TestTable(d, t, e) /\ BootEntries(g, d, t, e) /\ j \in Index
  BY BootIndexes DEF BootTables
<1>2. PICK c \in PTE : c = pte_create(p, bits) /\ c # NULL /\ c.page = p
  BY PageFacts
<1>3. PICK inc : inc = [g EXCEPT !.ref[p] = @ + 1]
  OBVIOUS
<1>4. BootTables(inc, d, t, e, p, 1)
  BY <1>3, BootCount
<1>5. g.entry[t] = e /\ inc.entry[t] = e /\ t # NULL /\ e \in [Index -> PTE]
  BY <1>1, <1>4, PageTableAssumption DEF BootEntries, BootTables, TestTable, Page
<1>8. PICK q : q = get_pte(m, boot_pgdir, la, TRUE) /\ q = [mem |-> g, table |-> t]
  BY Zenon
<1>9. q.mem = g /\ q.table = t
  <2>1. q = [mem |-> g, table |-> t]
    BY <1>8, Zenon
  <2>2. q.mem = g
    BY <2>1
  <2>3. q.table = t
    BY <2>1
  <2> QED BY <2>2, <2>3
<1>10. r = [mem |-> [(IF e[j] = NULL THEN inc ELSE IF e[j].page = p THEN g
                      ELSE page_remove_pte(inc, t, j)) EXCEPT !.entry[t][j] = c], ok |-> TRUE]
  BY <1>2, <1>3, <1>5, <1>8, <1>9 DEF page_insert
<1>6. CASE e[j] = NULL
  <2>1. r.mem = [inc EXCEPT !.entry[t][j] = c]
    BY <1>6, <1>10
  <2>2. BootTables(r.mem, d, t, [e EXCEPT ![j] = c], NULL, 0)
    BY <1>2, <1>4, <1>6, <2>1, BootSet
  <2> QED BY <1>2, <2>2
<1>7. CASE e[j] # NULL
  <2>1. PICK k : k = page_remove_pte(inc, t, j)
    OBVIOUS
  <2>2. PICK f : f = [e EXCEPT ![j] = NULL]
    OBVIOUS
  <2>3. BootTables(k, d, t, f, p, 1)
    BY <1>4, <1>7, <2>1, <2>2, BootCut
  <2>4. r.mem = [k EXCEPT !.entry[t][j] = c]
    BY <1>7, <1>10, <2>1
  <2>5. f[j] = NULL
    BY <1>1, <1>5, <2>2
  <2>6. BootTables(r.mem, d, t, [f EXCEPT ![j] = c], NULL, 0)
    BY <1>2, <2>3, <2>4, <2>5, BootSet
  <2>7. [f EXCEPT ![j] = c] = [e EXCEPT ![j] = c]
    BY <1>1, <1>5, <2>2
  <2> QED BY <1>2, <2>6, <2>7
<1> QED BY <1>6, <1>7

\* The first page under test, for which the tables are made.
LEMMA BootMake ==
    ASSUME NEW m, AllFree(m), NEW p, p = alloc_page(m), NEW bits \in Perm,
           NEW r, r = page_insert(Used(m, p, "user"), boot_pgdir, p, 0, bits)
    PROVE  /\ p \in Page
           /\ \E d, t : /\ d \in Page /\ t \in Page /\ p \notin {d, t}
                       /\ BootTables(r.mem, d, t, [NoEntries EXCEPT ![0] = pte_create(p, bits)],
                                     NULL, 0)
<1>1. {0, 1, 2, 3} \subseteq Page /\ NULL \notin Page /\ boot_pgdir \notin Page
  BY PageTableAssumption, PageFacts DEF Page
<1>2. m \in Memory /\ m.entry[boot_pgdir] = NoEntries /\ p \in Page
  <2>1. 0 \in Free(m)
    BY <1>1 DEF AllFree, Free
  <2> QED BY <2>1, AllocPage DEF AllFree
<1>3. PICK create \in BOOLEAN : create = TRUE
  OBVIOUS
<1>4. PICK n : n = Used(m, p, "user")
  OBVIOUS
<1>5. PICK f : f = [m.use EXCEPT ![p] = "user"]
  OBVIOUS
<1>6. f \in [Page -> {"free", "user"} \cup Table] /\ f[p] = "user" /\ \A q \in Page : q # p => f[q] = "free"
  <2>1. m.use \in [Page -> {"free", "user"} \cup Table]
    BY <1>2 DEF Memory
  <2> QED BY <1>2, <1>5, <2>1 DEF AllFree
<1>7. n = [use |-> f, ref |-> m.ref, entry |-> m.entry, data |-> m.data]
  BY <1>2, <1>4, <1>5 DEF Memory, Used
<1>8. /\ n \in Memory /\ n.use = f /\ n.ref = m.ref /\ n.entry = m.entry
  <2>1. n.use = f /\ n.ref = m.ref /\ n.entry = m.entry
    BY <1>7
  <2>2. PICK ref, entry : ref = m.ref /\ entry = m.entry
    OBVIOUS
  <2>3. ref \in [Page -> Nat] /\ entry \in [Page \cup {boot_pgdir} -> [Index -> PTE]]
    BY <1>2, <2>2 DEF Memory
  <2>4. [use |-> f, ref |-> ref, entry |-> entry, data |-> m.data] \in Memory
    BY <1>2, <1>6, <2>3, SameData
  <2> QED BY <1>7, <2>1, <2>2, <2>4
<1>9. PICK d \in Page : d = alloc_page(n) /\ d # p
  <2>1. \E q \in {0, 1} : q # p
    OBVIOUS
  <2>2. Free(n) # {}
    BY <1>1, <1>6, <1>8, <2>1 DEF Free
  <2>3. alloc_page(n) \in Free(n)
    BY <2>2, AllocPage
  <2> QED BY <1>6, <1>8, <2>2, <2>3, AllocPage DEF Free
<1>10. PICK k : /\ level(n, boot_pgdir, 0, "pd0", create) = [mem |-> k, table |-> d]
                /\ Made(n, k, boot_pgdir, 0, d, "pd0")
  <2>1. n.entry[boot_pgdir][0] = NULL
    BY <1>2, <1>8, BootIndexes DEF NoEntries
  <2>2. Free(n) # {}
    BY <1>6, <1>8, <1>9 DEF Free
  <2> QED BY <1>1, <1>3, <1>8, <1>9, <2>1, <2>2, BootIndexes, LevelMakes
<1>11. /\ k \in Memory /\ k.use[d] = "pd0" /\ k.ref[d] = 1
       /\ \A q \in Page : q # d => k.use[q] = f[q] /\ k.ref[q] = 0
  <2>1. f \in [Page -> {"free", "user"} \cup Table] /\ m.ref \in [Page -> Nat]
    BY <1>2, <1>6 DEF Memory
  <2>2. k.use = [f EXCEPT ![d] = "pd0"] /\ k.ref = [m.ref EXCEPT ![d] = 1] /\ k \in Memory
    BY <1>8, <1>10 DEF Made
  <2> QED BY <2>1, <2>2 DEF AllFree
<1>12. /\ k.entry \in [Page \cup {boot_pgdir} -> [Index -> PTE]] /\ k.entry[d] = NoEntries
       /\ k.entry[boot_pgdir] = [NoEntries EXCEPT ![0] = pte_create(d, {"U"})]
  <2>1. m.entry \in [Page \cup {boot_pgdir} -> [Index -> PTE]]
    BY <1>2 DEF Memory
  <2>2. k.entry = [m.entry EXCEPT ![d] = NoEntries,
                      ![boot_pgdir] = [m.entry[boot_pgdir] EXCEPT ![0] = pte_create(d, {"U"})]]
    BY <1>8, <1>10 DEF Made
  <2>3. k.entry \in [Page \cup {boot_pgdir} -> [Index -> PTE]]
    BY <1>11 DEF Memory
  <2> QED BY <1>1, <1>2, <2>1, <2>2, <2>3
<1>13. PICK t \in Page : t = alloc_page(k) /\ t # d /\ t # p /\ f[t] = "free"
  <2>1. \E q \in {0, 1, 2} : q # p /\ q # d
    OBVIOUS
  <2>2. Free(k) # {}
    BY <1>1, <1>6, <1>11, <2>1 DEF Free
  <2>3. alloc_page(k) \in Free(k)
    BY <2>2, AllocPage
  <2> QED BY <1>6, <1>9, <1>11, <2>3 DEF Free
<1>14. PICK g : /\ level(k, d, 0, "pt", create) = [mem |-> g, table |-> t]
                /\ Made(k, g, d, 0, t, "pt")
  <2>1. k.entry[d][0] = NULL
    BY <1>12, BootIndexes DEF NoEntries
  <2>2. Free(k) # {}
    BY <1>11, <1>13 DEF Free
  <2> QED BY <1>1, <1>3, <1>11, <1>13, <2>1, <2>2, BootIndexes, LevelMakes
<1>15. /\ g \in Memory /\ g.use[d] = "pd0" /\ g.ref[d] = 1 /\ g.use[t] = "pt" /\ g.ref[t] = 1
       /\ \A q \in Page \ {d, t} : g.use[q] = f[q] /\ g.ref[q] = 0
  <2>1. k.use \in [Page -> {"free", "user"} \cup Table] /\ k.ref \in [Page -> Nat]
    BY <1>11 DEF Memory
  <2>2. g.use = [k.use EXCEPT ![t] = "pt"] /\ g.ref = [k.ref EXCEPT ![t] = 1] /\ g \in Memory
    BY <1>14 DEF Made
  <2> QED BY <1>11, <1>13, <2>1, <2>2
<1>16. BootEntries(g, d, t, NoEntries)
  <2>1. g.entry = [k.entry EXCEPT ![t] = NoEntries,
                      ![d] = [k.entry[d] EXCEPT ![0] = pte_create(t, {"U"})]]
    BY <1>14 DEF Made
  <2> QED BY <1>1, <1>12, <1>13, <2>1 DEF BootEntries
<1>17. TestTable(d, t, NoEntries) /\ \A q : Uses(NoEntries, q) = 0
  BY <1>13, PageFacts, BootIndexes DEF TestTable, NoEntries, Uses
<1>18. BootTables(g, d, t, NoEntries, p, 0)
  <2>1. \A q \in Page \ {d, t} :
           /\ g.use[q] = IF Uses(NoEntries, q) = 0 /\ q # p THEN "free" ELSE "user"
           /\ g.ref[q] = Uses(NoEntries, q) + (IF q = p THEN 0 ELSE 0)
    BY <1>6, <1>15, <1>17
  <2>2. BootPages(g, d, t, NoEntries, p, 0)
    BY <1>15, <2>1 DEF BootPages
  <2> QED BY <1>15, <1>16, <1>17, <2>2 DEF BootTables
<1>19. get_pte(n, boot_pgdir, 0, create) = [mem |-> g, table |-> t]
  <2>1. d # NULL
    BY <1>1
  <2> QED BY <1>10, <1>14, <2>1, BootIndexes DEF get_pte
<1>20. get_pte(n, boot_pgdir, 0, TRUE) = [mem |-> g, table |-> t]
  BY <1>3, <1>19, Zenon
<1>21. BootTables(r.mem, d, t, [NoEntries EXCEPT ![0] = pte_create(p, bits)], NULL, 0)
  <2>1. p \in Page \ {d, t} /\ g.use[p] = "user" /\ NoEntries[0] = NULL
    BY <1>2, <1>6, <1>9, <1>13, <1>15, BootIndexes DEF NoEntries
  <2>2. r = page_insert(n, boot_pgdir, p, 0, bits) /\ PTX(0) = 0
    BY <1>4, BootIndexes
  <2> QED BY <1>18, <1>20, <2>1, <2>2, BootInsert
<1> QED BY <1>2, <1>9, <1>13, <1>21

-----------------------------------------------------------------------------
\* The entries that the tests have made when they have come to step i.
Tested(e, i, p) ==
    /\ p \in Page
    /\ e[0] # NULL <=> i \in {1, 2, 3, 7, 8}
    /\ e[0] # NULL => e[0].page = p
    /\ e[1] # NULL <=> i \in {2, 3, 4, 8}
    /\ e[1] # NULL => (e[1].page = p <=> i # 2)

\* The memory at step i of the tests.
Tests(m, i, p) ==
    IF i \in {0, 6} THEN AllFree(m)
    ELSE \E d, t, e : BootTables(m, d, t, e, NULL, 0) /\ Tested(e, i, p)

\* Both tests begin with a page at 0,
LEMMA TestFirst ==
    ASSUME NEW m, AllFree(m), NEW p, p = alloc_page(m), NEW bits \in Perm, NEW i \in {1, 7},
           NEW r, r = page_insert(Used(m, p, "user"), boot_pgdir, p, 0, bits)
    PROVE  Tests(r.mem, i, p) /\ p \in Page
<1>1. PICK e : e = [NoEntries EXCEPT ![0] = pte_create(p, bits)]
  OBVIOUS
<1>2. p \in Page /\ \E d, t : BootTables(r.mem, d, t, e, NULL, 0)
  BY <1>1, BootMake
<1>3. /\ e[0] = pte_create(p, bits) /\ e[1] = NULL
  BY <1>1, BootIndexes DEF NoEntries
<1>4. e[0] # NULL /\ e[0].page = p
  BY <1>2, <1>3, PageFacts
<1>5. Tested(e, i, p)
  BY <1>2, <1>3, <1>4 DEF Tested
<1> QED BY <1>2, <1>5 DEF Tests

\* How often the page of the tests is used.
LEMMA TestedUses ==
    ASSUME NEW m, NEW d, NEW t, NEW e, BootTables(m, d, t, e, NULL, 0),
           NEW i \in {1, 2, 3, 4, 7, 8}, NEW p, Tested(e, i, p)
    PROVE  p \in Page \ {d, t} /\ m.use[p] = "user"
<1>1. TestTable(d, t, e) /\ BootPages(m, d, t, e, NULL, 0) /\ p \in Page
  BY DEF BootTables, Tested
<1>2. PICK j \in {0, 1} : e[j] # NULL /\ e[j].page = p
  BY DEF Tested
<1>3. p \in Page \ {d, t}
  BY <1>1, <1>2, BootIndexes DEF TestTable
<1>4. Uses(e, p) # 0
  BY <1>2 DEF Uses
<1> QED BY <1>1, <1>3, <1>4 DEF BootPages

\* the first one goes on with a second page behind it,
LEMMA TestSecond ==
    ASSUME NEW m, NEW p, Tests(m, 1, p), NEW q, q = alloc_page(m), NEW bits \in Perm,
           NEW r, r = page_insert(Used(m, q, "user"), boot_pgdir, q, PGSIZE, bits)
    PROVE  Tests(r.mem, 2, p)
<1>1. PICK d, t, e : BootTables(m, d, t, e, NULL, 0) /\ Tested(e, 1, p)
  BY DEF Tests
<1>2. /\ m \in Memory /\ TestTable(d, t, e) /\ BootEntries(m, d, t, e)
      /\ BootPages(m, d, t, e, NULL, 0)
  BY <1>1 DEF BootTables
<1>3. p \in Page \ {d, t} /\ m.use[p] = "user"
  BY <1>1, TestedUses
<1>4. e[0] # NULL /\ e[0].page = p /\ e[1] = NULL
  BY <1>1 DEF Tested
<1>5. q \in Page \ {d, t} /\ q # p /\ m.use[q] = "free" /\ Uses(e, q) = 0
  <2>1. {0, 1, 2, 3} \subseteq Page /\ NULL \notin Page
    BY PageTableAssumption DEF Page
  <2>2. PICK a \in {0, 1, 2, 3} : a \notin {d, t, p}
    OBVIOUS
  <2>3. Uses(e, a) = 0
    BY <1>4, <2>2 DEF Uses
  <2>4. a \in Free(m)
    BY <1>2, <2>1, <2>2, <2>3 DEF BootPages, Free
  <2>5. q \in Free(m)
    BY <2>4, AllocPage
  <2>6. q \in Page /\ m.use[q] = "free"
    BY <2>5 DEF Free
  <2>7. q \in Page \ {d, t} /\ q # p
    BY <1>2, <1>3, <2>6 DEF BootPages
  <2> QED BY <1>4, <2>6, <2>7 DEF Uses
<1>6. PICK n : n = Used(m, q, "user")
  OBVIOUS
<1>7. BootTables(n, d, t, e, q, 0) /\ n.use[q] = "user"
  <2>1. PICK f : f = [m.use EXCEPT ![q] = "user"]
    OBVIOUS
  <2>2. f \in [Page -> {"free", "user"} \cup Table] /\ f[q] = "user" /\ \A a \in Page : a # q => f[a] = m.use[a]
    <3>1. m.use \in [Page -> {"free", "user"} \cup Table]
      BY <1>2 DEF Memory
    <3> QED BY <1>5, <2>1, <3>1
  <2>3. n = [use |-> f, ref |-> m.ref, entry |-> m.entry, data |-> m.data]
    BY <1>2, <1>6, <2>1 DEF Memory, Used
  <2>4. n.use = f /\ n.ref = m.ref /\ n.entry = m.entry
    BY <2>3
  <2>5. n \in Memory
    <3>1. PICK ref, entry : ref = m.ref /\ entry = m.entry
      OBVIOUS
    <3>2. ref \in [Page -> Nat] /\ entry \in [Page \cup {boot_pgdir} -> [Index -> PTE]]
      BY <1>2, <3>1 DEF Memory
    <3>3. [use |-> f, ref |-> ref, entry |-> entry, data |-> m.data] \in Memory
      BY <1>2, <2>2, <3>2, SameData
    <3> QED BY <2>3, <3>1, <3>3
  <2>6. BootEntries(n, d, t, e)
    BY <1>2, <2>4 DEF BootEntries
  <2>7. \A a \in Page \ {d, t} :
           /\ m.use[a] = IF Uses(e, a) = 0 /\ a # NULL THEN "free" ELSE "user"
           /\ m.ref[a] = Uses(e, a) + (IF a = NULL THEN 0 ELSE 0)
    BY <1>2 DEF BootPages
  <2>8. NULL \notin Page
    BY PageTableAssumption DEF Page
  <2>9. /\ n.use[d] = "pd0" /\ n.use[t] = "pt" /\ n.ref[d] = 1 /\ n.ref[t] = 1
    BY <1>2, <1>5, <2>2, <2>4 DEF BootPages, TestTable
  <2>10. \A a \in Page \ {d, t} :
           /\ n.use[a] = IF Uses(e, a) = 0 /\ a # q THEN "free" ELSE "user"
           /\ n.ref[a] = Uses(e, a) + (IF a = q THEN 0 ELSE 0)
    BY <1>5, <2>2, <2>4, <2>7, <2>8
  <2>11. BootPages(n, d, t, e, q, 0)
    BY <2>9, <2>10 DEF BootPages
  <2> QED BY <1>2, <2>2, <2>4, <2>5, <2>6, <2>11 DEF BootTables
<1>8. PICK create \in BOOLEAN : create = TRUE
  OBVIOUS
<1>9. PGSIZE = 1 * PGSIZE
  BY Constants
<1>10. get_pte(n, boot_pgdir, PGSIZE, create) = [mem |-> n, table |-> t] /\ PTX(PGSIZE) = 1
  BY <1>7, <1>9, BootPte
<1>11. get_pte(n, boot_pgdir, PGSIZE, TRUE) = [mem |-> n, table |-> t]
  BY <1>8, <1>10, Zenon
<1>12. PICK g : g = [e EXCEPT ![1] = pte_create(q, bits)]
  OBVIOUS
<1>13. BootTables(r.mem, d, t, g, NULL, 0)
  <2>1. r = page_insert(n, boot_pgdir, q, PGSIZE, bits)
    BY <1>6
  <2> QED BY <1>4, <1>5, <1>7, <1>10, <1>11, <1>12, <2>1, BootInsert
<1>14. Tested(g, 2, p)
  <2>1. e \in [Index -> PTE]
    BY <1>2 DEF TestTable
  <2>2. g[0] = e[0] /\ g[1] = pte_create(q, bits)
    BY <1>12, <2>1, BootIndexes
  <2>3. g[1] # NULL /\ g[1].page = q
    BY <1>5, <2>2, PageFacts
  <2> QED BY <1>3, <1>4, <1>5, <2>2, <2>3 DEF Tested
<1> QED BY <1>13, <1>14 DEF Tests

\* then the page itself, in place of the second one or of none.
LEMMA TestShare ==
    ASSUME NEW m, NEW i \in {2, 7}, NEW p, Tests(m, i, p), NEW bits \in Perm,
           NEW r, r = page_insert(m, boot_pgdir, p, PGSIZE, bits)
    PROVE  Tests(r.mem, i + 1, p) /\ p \in Page /\ r.mem \in Memory
<1>1. PICK d, t, e : BootTables(m, d, t, e, NULL, 0) /\ Tested(e, i, p)
  BY DEF Tests
<1>2. p \in Page \ {d, t} /\ m.use[p] = "user"
  BY <1>1, TestedUses
<1>3. PICK create \in BOOLEAN : create = TRUE
  OBVIOUS
<1>4. PGSIZE = 1 * PGSIZE
  BY Constants
<1>5. get_pte(m, boot_pgdir, PGSIZE, create) = [mem |-> m, table |-> t] /\ PTX(PGSIZE) = 1
  BY <1>1, <1>4, BootPte
<1>6. get_pte(m, boot_pgdir, PGSIZE, TRUE) = [mem |-> m, table |-> t]
  BY <1>3, <1>5, Zenon
<1>7. PICK g : g = [e EXCEPT ![1] = pte_create(p, bits)]
  OBVIOUS
<1>8. e[1] # NULL => e[1].page # p
  BY <1>1 DEF Tested
<1>9. BootTables(r.mem, d, t, g, NULL, 0)
  BY <1>1, <1>2, <1>5, <1>6, <1>7, <1>8, BootInsert
<1>10. Tested(g, i + 1, p)
  <2>1. e \in [Index -> PTE]
    BY <1>1 DEF BootTables, TestTable
  <2>2. g[0] = e[0] /\ g[1] = pte_create(p, bits)
    BY <1>7, <2>1, BootIndexes
  <2>3. g[1] # NULL /\ g[1].page = p
    BY <1>2, <2>2, PageFacts
  <2> QED BY <1>1, <1>2, <2>2, <2>3 DEF Tested
<1>11. i + 1 \notin {0, 6}
  OBVIOUS
<1> QED BY <1>2, <1>9, <1>10, <1>11 DEF Tests, BootTables

\* The second test stores to its page.
LEMMA TestStore ==
    ASSUME NEW m \in Memory, NEW i \in {8}, NEW p, Tests(m, i, p),
           NEW f \in [0 .. PGSIZE - 1 -> Int], NEW n, n = Wrote(m, p, f)
    PROVE  Tests(n, i, p)
<1>1. PICK d, t, e : BootTables(m, d, t, e, NULL, 0) /\ Tested(e, i, p)
  BY DEF Tests
<1>2. PICK data : data = [m.data EXCEPT ![p] = f]
  OBVIOUS
<1>3. n = [use |-> m.use, ref |-> m.ref, entry |-> m.entry, data |-> data]
  BY <1>2 DEF Wrote, Memory
<1>4. n.use = m.use /\ n.ref = m.ref /\ n.entry = m.entry
  BY <1>3
<1>5. n \in Memory
  <2>1. m.data \in [Page -> [0 .. PGSIZE - 1 -> Int]]
    BY DEF Memory
  <2>2. data \in [Page -> [0 .. PGSIZE - 1 -> Int]]
    BY <1>2, <2>1
  <2> QED BY <1>3, <2>2 DEF Memory
<1>6. BootTables(n, d, t, e, NULL, 0)
  BY <1>1, <1>4, <1>5 DEF BootTables, BootEntries, BootPages
<1> QED BY <1>1, <1>6 DEF Tests

\* The first one removes both mappings,
LEMMA TestRemove ==
    ASSUME NEW m, NEW i \in {3, 4}, NEW p, Tests(m, i, p),
           NEW la, la = (i - 3) * PGSIZE, NEW n, n = page_remove(m, boot_pgdir, la)
    PROVE  Tests(n, i + 1, p)
<1>1. PICK d, t, e : BootTables(m, d, t, e, NULL, 0) /\ Tested(e, i, p)
  BY DEF Tests
<1>2. PICK j \in {0, 1} : j = i - 3
  OBVIOUS
<1>3. PICK create \in BOOLEAN : create = FALSE
  OBVIOUS
<1>4. la = j * PGSIZE
  BY <1>2
<1>5. /\ get_pte(m, boot_pgdir, la, create) = [mem |-> m, table |-> t]
      /\ PTX(la) = j /\ pte(m, boot_pgdir, la) = e[j]
  BY <1>1, <1>4, BootPte
<1>6. get_pte(m, boot_pgdir, la, FALSE) = [mem |-> m, table |-> t]
  BY <1>3, <1>5, Zenon
<1>7. e[j] # NULL /\ e[j].page = p
  BY <1>1, <1>2 DEF Tested
<1>8. n = page_remove_pte(m, t, j)
  <2>1. pte(m, boot_pgdir, la) # NULL
    BY <1>5, <1>7
  <2>2. page_remove(m, boot_pgdir, la)
            = page_remove_pte(m, get_pte(m, boot_pgdir, la, FALSE).table, PTX(la))
    BY <2>1, Zenon DEF page_remove
  <2>3. [mem |-> m, table |-> t].table = t
    OBVIOUS
  <2>4. get_pte(m, boot_pgdir, la, FALSE).table = t
    BY <1>6, <2>3, Zenon
  <2> QED BY <1>5, <2>2, <2>4, Zenon
<1>9. PICK g : g = [e EXCEPT ![j] = NULL]
  OBVIOUS
<1>10. e[j].page # NULL
  BY <1>1, <1>7, PageTableAssumption DEF Tested, Page
<1>11. BootTables(n, d, t, g, NULL, 0)
  <2>1. PICK k \in {0, 1} : k = 0
    OBVIOUS
  <2>2. PICK x : x = NULL
    OBVIOUS
  <2>3. BootTables(m, d, t, e, x, k)
    BY <1>1, <2>1, <2>2
  <2>4. e[j] # NULL /\ (k = 1 \/ e[j].page # x)
    BY <1>7, <1>10, <2>2
  <2>5. BootTables(n, d, t, g, x, k)
    BY <1>2, <1>8, <1>9, <2>1, <2>3, <2>4, BootCut
  <2> QED BY <2>1, <2>2, <2>5
<1>12. Tested(g, i + 1, p)
  <2>1. e \in [Index -> PTE]
    BY <1>1 DEF BootTables, TestTable
  <2>2. g[j] = NULL /\ g[1 - j] = e[1 - j]
    BY <1>9, <2>1, BootIndexes
  <2>3. CASE i = 3
    BY <1>1, <1>2, <2>2, <2>3 DEF Tested
  <2>4. CASE i = 4
    BY <1>1, <1>2, <2>2, <2>4 DEF Tested
  <2> QED BY <2>3, <2>4
<1>13. i + 1 \notin {0, 6}
  OBVIOUS
<1> QED BY <1>11, <1>12, <1>13 DEF Tests

\* and both free what they have taken.
Taken(m, i, p, F) ==
    /\ i = 5 => F = {m.entry[boot_pgdir][0].page, m.entry[m.entry[boot_pgdir][0].page][0].page}
    /\ i = 8 => F = {m.entry[boot_pgdir][0].page, m.entry[m.entry[boot_pgdir][0].page][0].page, p}
Untested(k) == [k EXCEPT !.entry[boot_pgdir][0] = NULL]

\* Then all pages are free.
LEMMA TestFree ==
    ASSUME NEW m, NEW i \in {5, 8}, NEW p, Tests(m, i, p), NEW F, Taken(m, i, p, F),
           NEW n, n = Untested(free_page(m, F))
    PROVE  AllFree(n)
<1>1. PICK d, t, e : BootTables(m, d, t, e, NULL, 0) /\ Tested(e, i, p)
  BY DEF Tests
<1>2. /\ m \in Memory /\ TestTable(d, t, e) /\ BootEntries(m, d, t, e)
      /\ BootPages(m, d, t, e, NULL, 0) /\ d \in Page /\ t \in Page /\ p \in Page
  BY <1>1 DEF BootTables, TestTable, Tested
<1>3. NoEntries[0] = NULL /\ \A q \in Page : pte_create(q, {"U"}).page = q
  BY BootIndexes DEF NoEntries, pte_create
<1>4. m.entry[boot_pgdir][0].page = d /\ m.entry[d][0].page = t
  BY <1>2, <1>3, BootIndexes, PageFacts DEF BootEntries
<1>5. (i = 5 => F = {d, t}) /\ (i = 8 => F = {d, t, p}) /\ F \in SUBSET Page
  BY <1>2, <1>4 DEF Taken
<1>6. PICK k : k = free_page(m, F)
  OBVIOUS
<1>7. Freed(m, k, F)
  BY <1>2, <1>5, <1>6, FreePage
<1>8. ASSUME NEW q \in Page
      PROVE  k.use[q] = "free" /\ k.ref[q] = 0
  <2>1. CASE q \in F
    BY <1>7, <2>1 DEF Freed
  <2>2. CASE q \notin F
    <3>1. Uses(e, q) = 0
      <4>1. \A j \in {0, 1} : e[j] # NULL => i = 8 /\ e[j].page = p
        BY <1>1 DEF Tested
      <4>2. i = 8 => q # p
        BY <1>5, <2>2
      <4> QED BY <4>1, <4>2 DEF Uses
    <3>2. q # NULL
      BY PageTableAssumption DEF Page
    <3>3. m.use[q] = "free" /\ m.ref[q] = 0
      BY <1>2, <1>5, <2>2, <3>1, <3>2 DEF BootPages
    <3> QED BY <1>7, <2>2, <3>3 DEF Freed
  <2> QED BY <2>1, <2>2
<1>9. k \in Memory /\ k.entry[boot_pgdir] = [NoEntries EXCEPT ![0] = pte_create(d, {"U"})]
  BY <1>2, <1>5, <1>7, PageFacts DEF Freed, BootEntries
<1>10. PICK g : g = [k.entry EXCEPT ![boot_pgdir] = NoEntries]
  OBVIOUS
<1>11. k.entry \in [Page \cup {boot_pgdir} -> [Index -> PTE]]
  BY <1>9 DEF Memory
<1>12. [k.entry EXCEPT ![boot_pgdir][0] = NULL] = g
  <2>1. [k.entry[boot_pgdir] EXCEPT ![0] = NULL] = NoEntries
    BY <1>3, <1>9, BootIndexes DEF NoEntries
  <2> QED BY <1>10, <1>11, <2>1
<1>13. n = [use |-> k.use, ref |-> k.ref, entry |-> g, data |-> k.data]
  <2>1. k = [use |-> k.use, ref |-> k.ref, entry |-> k.entry, data |-> k.data]
    BY <1>9 DEF Memory
  <2> QED BY <1>6, <1>12, <2>1 DEF Untested
<1>14. n.use = k.use /\ n.ref = k.ref /\ n.entry = g
  BY <1>13
<1>15. g \in [Page \cup {boot_pgdir} -> [Index -> PTE]] /\ g[boot_pgdir] = NoEntries
  BY <1>10, <1>11, PageFacts
<1>16. n \in Memory
  <2>1. PICK use, ref : use = k.use /\ ref = k.ref
    OBVIOUS
  <2>2. use \in [Page -> {"free", "user"} \cup Table] /\ ref \in [Page -> Nat]
    BY <1>9, <2>1 DEF Memory
  <2>3. [use |-> use, ref |-> ref, entry |-> g, data |-> k.data] \in Memory
    BY <1>9, <1>15, <2>2, SameData
  <2> QED BY <1>13, <2>1, <2>3
<1> QED BY <1>8, <1>14, <1>15, <1>16 DEF AllFree

-----------------------------------------------------------------------------
\* Each address space f[s] has a page directory of its own, w has one too, and there
\* are no others.
RootsOf(f, w) == {sp.pgdir : sp \in ({f[s] : s \in Space} \cup {w}) \ {NULL}}
Separate(f, w) ==
    /\ \A s, r \in Space :
          f[s] # NULL /\ f[r] # NULL /\ f[s].pgdir = f[r].pgdir => s = r
    /\ \A s \in Space : f[s] # NULL /\ w # NULL => f[s].pgdir # w.pgdir
Rooted(m, f, w) ==
    /\ Good(m) /\ m.entry[boot_pgdir] = NoEntries
    /\ Dirs(m) = RootsOf(f, w) /\ Separate(f, w)

\* The address spaces g and v have the page directories of f and w.
SameDirs(f, w, g, v) ==
    /\ \A s \in Space : /\ g[s] = NULL <=> f[s] = NULL
                        /\ f[s] # NULL => g[s].pgdir = f[s].pgdir
    /\ v = NULL <=> w = NULL
    /\ w # NULL => v.pgdir = w.pgdir

\* What is a page directory.
LEMMA RootFacts ==
    ASSUME NEW f, NEW w, NEW p
    PROVE  p \in RootsOf(f, w) <=> \/ \E s \in Space : f[s] # NULL /\ f[s].pgdir = p
                                   \/ w # NULL /\ w.pgdir = p
BY DEF RootsOf

\* A step that leaves the page directories as they are.
LEMMA RootedKept ==
    ASSUME NEW m, NEW n, NEW f, NEW w, NEW g, NEW v, Rooted(m, f, w), Keeps(m, n),
           SameDirs(f, w, g, v)
    PROVE  Rooted(n, g, v)
<1>1. ASSUME NEW p PROVE p \in RootsOf(f, w) <=> p \in RootsOf(g, v)
  BY RootFacts DEF SameDirs
<1>2. RootsOf(f, w) = RootsOf(g, v)
  BY <1>1
<1>3. Separate(g, v)
  BY DEF Rooted, Separate, SameDirs
<1> QED BY <1>2, <1>3 DEF Rooted, Keeps

\* do_execve() and do_exit() take the address space of a process,
LEMMA RootedTaken ==
    ASSUME NEW m, NEW f, NEW w, Rooted(m, f, w), w = NULL, NEW s \in Space, f[s] # NULL,
           NEW g, \A r \in Space : g[r] = IF r = s THEN NULL ELSE f[r]
    PROVE  Rooted(m, g, f[s])
<1>1. ASSUME NEW p PROVE p \in RootsOf(f, w) <=> p \in RootsOf(g, f[s])
  BY RootFacts
<1>2. RootsOf(f, w) = RootsOf(g, f[s])
  BY <1>1
<1>3. Separate(g, f[s])
  BY DEF Rooted, Separate
<1> QED BY <1>2, <1>3 DEF Rooted

\* and load_icode() and copy_mm() give it one.
LEMMA RootedGiven ==
    ASSUME NEW m, NEW f, NEW w, Rooted(m, f, w), w # NULL, NEW s \in Space, f[s] = NULL,
           NEW g, \A r \in Space : g[r] = IF r = s THEN w ELSE f[r]
    PROVE  Rooted(m, g, NULL)
<1>1. ASSUME NEW p PROVE p \in RootsOf(f, w) <=> p \in RootsOf(g, NULL)
  BY RootFacts
<1>2. RootsOf(f, w) = RootsOf(g, NULL)
  BY <1>1
<1>3. Separate(g, NULL)
  BY DEF Rooted, Separate
<1> QED BY <1>2, <1>3 DEF Rooted

\* setup_pgdir()
LEMMA RootedMade ==
    ASSUME NEW m, NEW f, NEW w, Rooted(m, f, w), w = NULL, Free(m) # {},
           NEW v, v = mm_create(m), NEW n, n = setup_pgdir(m)
    PROVE  Rooted(n, f, v)
<1>1. PICK p \in Page : p = alloc_page(m) /\ m.use[p] = "free"
  BY AllocPage DEF Free
<1>2. /\ Good(n) /\ n.entry[boot_pgdir] = m.entry[boot_pgdir]
      /\ Dirs(n) = Dirs(m) \cup {p} /\ p \notin Dirs(m)
  BY <1>1, TakeDir DEF Rooted
<1>3. v # NULL /\ v.pgdir = p
  <2>1. IsSpace(v)
    BY NewSpace
  <2> QED BY <1>1, <2>1, Constants DEF IsSpace, mm_create
<1>4. ASSUME NEW q PROVE q \in RootsOf(f, v) <=> q \in RootsOf(f, w) \/ q = p
  BY <1>3, RootFacts
<1>5. RootsOf(f, v) = Dirs(n)
  BY <1>2, <1>4 DEF Rooted
<1>6. ASSUME NEW s \in Space, f[s] # NULL PROVE f[s].pgdir # p
  BY <1>2, <1>6, RootFacts DEF Rooted
<1>7. Separate(f, v)
  BY <1>3, <1>6 DEF Rooted, Separate
<1> QED BY <1>2, <1>5, <1>7 DEF Rooted

\* put_pgdir()
LEMMA RootedPut ==
    ASSUME NEW m, NEW f, NEW w, Rooted(m, f, w), w # NULL,
           NEW n, n = free_page(m, {w.pgdir})
    PROVE  Rooted(n, f, NULL)
<1>1. PICK p : p = w.pgdir
  OBVIOUS
<1>2. p \in Dirs(m)
  BY <1>1, RootFacts DEF Rooted
<1>3. PICK F \in SUBSET Page : F = {p}
  BY <1>2 DEF Dirs
<1>4. \A q \in F : m.ref[q] = 0
  BY <1>2, <1>3 DEF Rooted, Good, Dirs
<1>5. n = free_page(m, F)
  BY <1>1, <1>3
<1>6. /\ Good(n) /\ n.entry[boot_pgdir] = m.entry[boot_pgdir]
      /\ Dirs(n) = Dirs(m) \ F
  BY <1>4, <1>5, FreeKeeps DEF Rooted
<1>7. ASSUME NEW q PROVE q \in RootsOf(f, NULL) <=> q \in RootsOf(f, w) /\ q # p
  BY <1>1, RootFacts DEF Rooted, Separate
<1>8. RootsOf(f, NULL) = Dirs(n)
  BY <1>3, <1>6, <1>7 DEF Rooted
<1>9. Separate(f, NULL)
  BY DEF Rooted, Separate
<1> QED BY <1>6, <1>8, <1>9 DEF Rooted

-----------------------------------------------------------------------------
\* The tests of the boot.
TestVars(c, i, p) == c = [NoCall EXCEPT !.i = i, !.page = p]
BootInv ==
    \E i \in 0 .. 8, p \in Page \cup {NULL} : TestVars(call, i, p) /\ Tests(mem, i, p)

\* The loops that load a segment do not pass its end,
Filling ==
    /\ ph.filesz <= ph.memsz /\ ph.va + ph.memsz <= UserTop /\ 0 <= call.la
    /\ \/ call.la <= call.start
       \/ call.start >= ph.va + (IF pc = "file" THEN ph.filesz ELSE ph.memsz)

\* and none of the loops runs past what it works on.
Cursor ==
    /\ pc \in {"unmap", "exit_range", "stack"} => call.i > 0
    /\ pc \in {"file", "bss"} => Filling
    /\ pc = "copy" => SrcArea.vm_start <= call.la /\ call.la < SrcArea.vm_end

Places == {"boot", "user_main", "user", "unmap", "exit_range", "load", "segment",
           "file", "bss", "stack", "dup", "copy", "check", "yes", "no", "panic"}

PageInv ==
    /\ spoiled \in BOOLEAN /\ pc \in Places
    /\ IF pc = "boot" THEN BootInv ELSE Rooted(mem, mm, work)
    /\ Cursor

\* The variables of the tests.
LEMMA TestCall ==
    ASSUME NEW i, NEW p, TestVars(call, i, p)
    PROVE  /\ call.i = i /\ call.page = p
           /\ TestVars([call EXCEPT !.i = @ + 1], i + 1, p)
           /\ \A q : TestVars([call EXCEPT !.i = @ + 1, !.page = q], i + 1, q)
BY DEF NoCall, TestVars

\* A memory of free pages has no tables.
LEMMA NoTables ==
    ASSUME NEW m, AllFree(m), NEW f, \A s \in Space : f[s] = NULL
    PROVE  Rooted(m, f, NULL)
<1>1. Good(m) /\ m.entry[boot_pgdir] = NoEntries
  BY DEF AllFree, Good, IsSlot, Table
<1>2. Dirs(m) = {}
  BY DEF AllFree, Dirs
<1>3. RootsOf(f, NULL) = {} /\ Separate(f, NULL)
  BY DEF RootsOf, Separate
<1> QED BY <1>1, <1>2, <1>3 DEF Rooted

\* The tests give back every page.
LEMMA BootFreed ==
    ASSUME PageInv, BootFree
    PROVE  AllFree(mem')
<1>1. pc = "boot" /\ call.i \in {5, 8}
  BY DEF BootFree, At
<1>2. PICK i \in 0 .. 8, p \in Page \cup {NULL} :
          TestVars(call, i, p) /\ Tests(mem, i, p)
  BY <1>1 DEF PageInv, BootInv
<1>3. call.i = i /\ call.page = p
  BY <1>2, TestCall
<1>4. PICK F : /\ F = {mem.entry[boot_pgdir][0].page,
                       mem.entry[mem.entry[boot_pgdir][0].page][0].page}
                      \cup (IF i = 8 THEN {p} ELSE {})
               /\ mem' = [free_page(mem, F) EXCEPT !.entry[boot_pgdir][0] = NULL]
  BY <1>3 DEF BootFree
<1>5. mem' = Untested(free_page(mem, F))
  BY <1>4, Zenon DEF Untested
<1>6. Taken(mem, i, p, F)
  <2>1. PICK a, b : /\ a = mem.entry[boot_pgdir][0].page
                    /\ b = mem.entry[mem.entry[boot_pgdir][0].page][0].page
    OBVIOUS
  <2>2. F = {a, b} \cup (IF i = 8 THEN {p} ELSE {})
    BY <1>4, <2>1, Zenon
  <2>3. (i = 5 => F = {a, b}) /\ (i = 8 => F = {a, b, p})
    BY <2>2
  <2> QED BY <2>1, <2>3, Zenon DEF Taken
<1> QED BY <1>1, <1>2, <1>3, <1>5, <1>6, TestFree

\* A step of the tests leads to the next one,
LEMMA TestStep ==
    ASSUME PageInv, pc = "boot", pc' = "boot", spoiled' = spoiled,
           NEW i \in 0 .. 8, NEW p \in Page \cup {NULL}, Tests(mem', i, p),
           TestVars(call', i, p)
    PROVE  PageInv'
<1>1. BootInv'
  BY DEF BootInv
<1> QED BY <1>1 DEF PageInv, Cursor

\* or the tests are done.
LEMMA PageBoot ==
    ASSUME AreaInv, PageInv, Boot
    PROVE  PageInv'
<1>1. pc = "boot" /\ spoiled' = spoiled /\ mm' = mm /\ work' = work
  BY DEF Boot, BootFirst, BootSecond, BootShare, BootRemove, BootFree, At, NextCheck
<1>2. PICK i \in 0 .. 8, p \in Page \cup {NULL} :
          TestVars(call, i, p) /\ Tests(mem, i, p)
  BY <1>1 DEF PageInv, BootInv
<1>3. call.i = i /\ call.page = p
  BY <1>2, TestCall
<1>4. /\ NextCheck => TestVars(call', i + 1, p)
      /\ \A q : call' = [call EXCEPT !.i = @ + 1, !.page = q] => TestVars(call', i + 1, q)
  <2>1. /\ TestVars([call EXCEPT !.i = @ + 1], i + 1, p)
        /\ \A q : TestVars([call EXCEPT !.i = @ + 1, !.page = q], i + 1, q)
    BY <1>2, TestCall, Zenon
  <2>2. NextCheck => call' = [call EXCEPT !.i = @ + 1]
    BY Zenon DEF NextCheck
  <2> QED BY <2>1, <2>2, Zenon
<1>5. {{}, {"R", "W"}, {"U", "W"}} \subseteq Perm
  BY DEF Perm
<1>6. CASE BootFirst
  <2>1. i \in {0, 6} /\ pc' = "boot"
    BY <1>1, <1>3, <1>6 DEF BootFirst, At
  <2>2. PICK q : q = alloc_page(mem)
    OBVIOUS
  <2>3. PICK bits \in Perm : bits = IF i = 0 THEN {} ELSE {"R", "W"}
    BY <1>5
  <2>4. PICK r : r = page_insert(Used(mem, q, "user"), boot_pgdir, q, 0, bits)
    OBVIOUS
  <2>5. mem' = r.mem
    BY <1>3, <1>6, <2>2, <2>3, <2>4 DEF BootFirst
  <2>6. TestVars(call', i + 1, q)
    BY <1>6, <1>4, <2>2, Zenon DEF BootFirst
  <2>7. AllFree(mem)
    BY <1>2, <2>1 DEF Tests
  <2>8. Tests(r.mem, i + 1, q) /\ q \in Page
    <3>1. PICK j \in {1, 7} : j = i + 1
      BY <2>1
    <3> QED BY <2>2, <2>3, <2>4, <2>7, <3>1, TestFirst
  <2> QED BY <1>1, <2>1, <2>5, <2>8, <2>6, TestStep
<1>7. CASE BootSecond
  <2>1. i = 1 /\ pc' = "boot" /\ TestVars(call', i + 1, p)
    BY <1>1, <1>3, <1>4, <1>7 DEF BootSecond, At, NextCheck
  <2>2. PICK q : q = alloc_page(mem)
    OBVIOUS
  <2>3. PICK bits \in Perm : bits = {"U", "W"}
    BY <1>5
  <2>4. PICK r : r = page_insert(Used(mem, q, "user"), boot_pgdir, q, PGSIZE, bits)
    OBVIOUS
  <2>5. mem' = r.mem
    BY <1>7, <2>2, <2>3, <2>4 DEF BootSecond
  <2>6. Tests(r.mem, i + 1, p)
    BY <1>2, <2>1, <2>2, <2>3, <2>4, TestSecond
  <2> QED BY <1>1, <1>2, <2>1, <2>5, <2>6, TestStep
<1>8. CASE BootShare
  <2>1. i \in {2, 7} /\ pc' = "boot" /\ TestVars(call', i + 1, p)
    BY <1>1, <1>3, <1>4, <1>8 DEF BootShare, At, NextCheck
  <2>2. PICK bits \in Perm : bits = IF i = 2 THEN {} ELSE {"R", "W"}
    BY <1>5
  <2>3. PICK r : r = page_insert(mem, boot_pgdir, p, PGSIZE, bits)
    OBVIOUS
  <2>4. Tests(r.mem, i + 1, p) /\ p \in Page /\ r.mem \in Memory
    BY <1>2, <2>1, <2>2, <2>3, TestShare
  <2>5. mem' = IF i = 2 THEN r.mem
               ELSE [r.mem EXCEPT !.data[p] = [b \in DOMAIN @ |-> IF b = 0 THEN 0 ELSE Written]]
    BY <1>3, <1>8, <2>2, <2>3 DEF BootShare
  <2>6. Tests(mem', i + 1, p)
    <3>1. CASE i = 2
      BY <2>4, <2>5, <3>1
    <3>2. CASE i = 7
      <4>1. PICK f : f = [b \in 0 .. PGSIZE - 1 |-> IF b = 0 THEN 0 ELSE Written]
        OBVIOUS
      <4>2. f \in [0 .. PGSIZE - 1 -> Int]
        BY <4>1, ProgramAssumption
      <4>3. PICK m \in Memory : m = r.mem
        BY <2>4
      <4>4. DOMAIN m.data[p] = 0 .. PGSIZE - 1
        BY <2>4, <4>3 DEF Memory
      <4>5. mem' = Wrote(m, p, f)
        <5>1. mem' = [m EXCEPT !.data[p] = [b \in DOMAIN m.data[p] |-> IF b = 0 THEN 0 ELSE Written]]
          BY <2>4, <2>5, <3>2, <4>3 DEF Memory
        <5> QED BY <4>1, <4>4, <5>1 DEF Wrote
      <4>6. PICK j \in {8} : j = i + 1
        BY <3>2
      <4> QED BY <2>4, <4>2, <4>3, <4>5, <4>6, TestStore
    <3> QED BY <2>1, <3>1, <3>2
  <2> QED BY <1>1, <1>2, <2>1, <2>6, TestStep
<1>9. CASE BootRemove
  <2>1. i \in {3, 4} /\ pc' = "boot" /\ TestVars(call', i + 1, p)
    BY <1>1, <1>3, <1>4, <1>9 DEF BootRemove, At, NextCheck
  <2>2. mem' = page_remove(mem, boot_pgdir, (i - 3) * PGSIZE)
    BY <1>3, <1>9 DEF BootRemove
  <2>3. Tests(mem', i + 1, p)
    BY <1>2, <2>1, <2>2, TestRemove
  <2> QED BY <1>1, <1>2, <2>1, <2>3, TestStep
<1>10. CASE BootFree
  <2>1. i \in {5, 8} /\ AllFree(mem')
    BY <1>1, <1>3, <1>10, BootFreed DEF BootFree, At
  <2>6. CASE i = 5
    <3>1. pc' = "boot" /\ TestVars(call', i + 1, p)
      BY <1>1, <1>3, <1>4, <1>10, <2>6 DEF BootFree, NextCheck
    <3>2. Tests(mem', i + 1, p)
      BY <2>1, <2>6 DEF Tests
    <3> QED BY <1>1, <1>2, <2>6, <3>1, <3>2, TestStep
  <2>7. CASE i = 8
    <3>1. pc' = "user_main"
      <4>1. call.i # 5
        BY <1>3, <2>7
      <4> QED BY <1>10, <4>1, Zenon DEF BootFree
    <3>2. work' = NULL /\ \A s \in Space : mm'[s] = NULL
      BY <1>1, Before DEF Building, Loading, Copying
    <3>3. Rooted(mem', mm', work')
      BY <2>1, <3>2, NoTables
    <3> QED BY <1>1, <3>1, <3>3 DEF PageInv, Cursor, Places
  <2> QED BY <2>1, <2>6, <2>7
<1> QED BY <1>6, <1>7, <1>8, <1>9, <1>10 DEF Boot

-----------------------------------------------------------------------------
\* A rounded address is not far away.
LEMMA RoundBounds ==
    ASSUME NEW a \in Nat, NEW d \in Nat \ {0}
    PROVE  /\ ROUNDDOWN(a, d) \in Nat /\ ROUNDDOWN(a, d) <= a /\ a < ROUNDDOWN(a, d) + d
           /\ a <= ROUNDUP(a, d)
<1>1. ASSUME NEW x \in Nat PROVE x - (x % d) \in Nat /\ x - (x % d) <= x /\ x < x - (x % d) + d
  <2>1. x = d * (x \div d) + (x % d) /\ x \div d \in Nat /\ x % d \in 0 .. d - 1
    OBVIOUS
  <2>2. d * (x \div d) \in Nat
    BY <2>1
  <2> QED BY <2>1, <2>2
<1>2. a + d - 1 \in Nat
  OBVIOUS
<1> QED BY <1>1, <1>2 DEF ROUNDDOWN, ROUNDUP

\* The areas change, and the page directory stays.
LEMMA SamePgdir ==
    ASSUME NEW sp \in mm_struct
    PROVE  /\ \A a : found(sp, a).pgdir = sp.pgdir
           /\ \A vma : insert_vma_struct(sp, vma).mm.pgdir = sp.pgdir
           /\ \A addr, len, flags : \A memory \in BOOLEAN :
                 mm_map(sp, addr, len, flags, memory).mm.pgdir = sp.pgdir
<1>1. ASSUME NEW ms \in mm_struct, NEW a
      PROVE  found(ms, a).pgdir = ms.pgdir /\ (found(ms, a) = ms \/ DOMAIN found(ms, a) = DOMAIN ms)
  BY DEF found, mm_struct
<1>2. ASSUME NEW k, NEW list, NEW cache, NEW vma
      PROVE  insert_vma_struct([pgdir |-> k, mmap_list |-> list, mmap_cache |-> cache], vma).mm.pgdir = k
  BY DEF insert_vma_struct
<1>3. ASSUME NEW ms \in mm_struct, NEW vma
      PROVE  insert_vma_struct(ms, vma).mm.pgdir = ms.pgdir
  BY <1>2 DEF mm_struct
<1>4. ASSUME NEW a
      PROVE  \E list, cache : found(sp, a) = [pgdir |-> sp.pgdir, mmap_list |-> list, mmap_cache |-> cache]
  BY DEF found, mm_struct
<1>5. ASSUME NEW a, NEW vma
      PROVE  insert_vma_struct(found(sp, a), vma).mm.pgdir = sp.pgdir
  BY <1>2, <1>4
<1>6. ASSUME NEW addr, NEW len, NEW flags, NEW memory \in BOOLEAN
      PROVE  mm_map(sp, addr, len, flags, memory).mm.pgdir = sp.pgdir
  BY <1>1, <1>5 DEF mm_map
<1> QED BY <1>1, <1>3, <1>6

\* What PageInv says in a step's first state.
LEMMA Trees ==
    ASSUME PageInv, pc # "boot"
    PROVE  /\ Rooted(mem, mm, work) /\ Good(mem) /\ Keeps(mem, mem)
           /\ \A s \in Space : mm[s] # NULL => mm[s].pgdir \in Dirs(mem)
           /\ work # NULL => work.pgdir \in Dirs(mem)
           /\ Cursor /\ spoiled \in BOOLEAN /\ pc \in Places
BY RootFacts DEF PageInv, Rooted, Keeps

\* A step of a call, or of a process, keeps the trees.
LEMMA PageKept ==
    ASSUME PageInv, pc # "boot", Keeps(mem, mem'), SameDirs(mm, work, mm', work'),
           spoiled' \in BOOLEAN, pc' \in Places \ {"boot"}, Cursor'
    PROVE  PageInv'
<1>1. Rooted(mem', mm', work')
  BY Trees, RootedKept
<1> QED BY <1>1 DEF PageInv

\* A step that leaves the address spaces alone.
LEMMA SameSpaces ==
    ASSUME mm' = mm, NEW v, v = work
    PROVE  SameDirs(mm, work, mm', v)
BY DEF SameDirs

\* Teardown()
LEMMA PageTeardown ==
    ASSUME AreaInv, PageInv, pc \in Loading \cup Copying, mm' = mm, NEW m, Keeps(mem, m),
           NEW sp, sp # NULL, sp.pgdir = work.pgdir, NEW then, Teardown(m, sp, then)
    PROVE  PageInv'
<1>1. /\ work' = sp /\ pc' = "unmap" /\ call' = [call EXCEPT !.then = then, !.i = 1]
      /\ mem' = m /\ spoiled' = (spoiled \/ ~Tidy(m, sp))
  BY DEF Teardown
<1>2. call \in CallType /\ work # NULL
  BY Before, Constants DEF Building, Loading, Copying, IsSpace
<1>3. call'.i = 1
  BY <1>1, <1>2 DEF CallType
<1>4. SameDirs(mm, work, mm', work')
  BY <1>1, <1>2 DEF SameDirs
<1>5. spoiled' \in BOOLEAN
  BY <1>1, Zenon
<1>6. Cursor'
  BY <1>1, <1>3 DEF Cursor
<1> QED BY <1>1, <1>4, <1>5, <1>6, PageKept DEF Places, Loading, Copying

\* The areas of an address space are in user memory.
LEMMA AreaBounds ==
    ASSUME NEW sp, IsSpace(sp), NEW k \in 1 .. Len(sp.mmap_list)
    PROVE  /\ sp.mmap_list[k].vm_start \in Nat /\ sp.mmap_list[k].vm_end \in Nat
           /\ sp.mmap_list[k].vm_start < sp.mmap_list[k].vm_end
           /\ sp.mmap_list[k].vm_end <= UserTop
<1>1. sp.mmap_list[k] \in vma_struct /\ InUserMemory(sp.mmap_list[k])
  BY SpaceFacts
<1> QED BY <1>1, Constants DEF vma_struct, InUserMemory

\* exit_mmap()
LEMMA PageUnmap ==
    ASSUME AreaInv, PageInv, Unmap
    PROVE  PageInv'
<1>1. pc = "unmap" /\ mm' = mm /\ work' = work /\ spoiled' = spoiled
  BY DEF Unmap
<1>2. IsSpace(work) /\ call \in CallType /\ work # NULL
  BY <1>1, Before, Constants DEF Building, IsSpace
<1>3. /\ Good(mem) /\ Keeps(mem, mem) /\ work.pgdir \in Dirs(mem) /\ call.i > 0
      /\ spoiled \in BOOLEAN /\ SameDirs(mm, work, mm', work')
  BY <1>1, <1>2, Trees, SameSpaces DEF Cursor
<1>4. CASE call.i <= Len(work.mmap_list)
  <2>1. PICK k \in 1 .. Len(work.mmap_list) : k = call.i
    BY <1>2, <1>3, <1>4, SpaceFacts DEF CallType
  <2>2. PICK vma : vma = work.mmap_list[k]
    OBVIOUS
  <2>3. vma.vm_start \in Nat /\ vma.vm_end \in Nat /\ vma.vm_end <= UserTop
    BY <1>2, <2>1, <2>2, AreaBounds
  <2>4. mem' = unmap_range(mem, work.pgdir, vma.vm_start, vma.vm_end)
    BY <1>4, <2>1, <2>2 DEF Unmap
  <2>5. Keeps(mem, mem')
    BY <1>3, <2>3, <2>4, UnmapKeeps
  <2>6. pc' = "unmap" /\ call'.i = call.i + 1
    BY <1>1, <1>2, <1>4 DEF Unmap, CallType
  <2>7. Cursor'
    BY <1>2, <1>3, <2>6 DEF Cursor, CallType
  <2> QED BY <1>1, <1>3, <2>5, <2>6, <2>7, PageKept DEF Places
<1>5. CASE ~(call.i <= Len(work.mmap_list))
  <2>1. pc' = "exit_range" /\ call'.i = 1 /\ mem' = mem
    BY <1>2, <1>5 DEF Unmap, CallType
  <2>2. Cursor'
    BY <2>1 DEF Cursor
  <2> QED BY <1>1, <1>3, <2>1, <2>2, PageKept DEF Places
<1> QED BY <1>4, <1>5

\* The rest of exit_mmap(), and put_pgdir().
LEMMA PageExitRange ==
    ASSUME AreaInv, PageInv, ExitRange
    PROVE  PageInv'
<1>1. pc = "exit_range" /\ mm' = mm /\ spoiled' = spoiled
  BY DEF ExitRange
<1>2. IsSpace(work) /\ call \in CallType /\ work # NULL
  BY <1>1, Before, Constants DEF Building, IsSpace
<1>3. /\ Rooted(mem, mm, work) /\ Good(mem) /\ work.pgdir \in Dirs(mem) /\ call.i > 0
      /\ spoiled \in BOOLEAN
  BY <1>1, <1>2, Trees DEF Cursor
<1>4. CASE call.i <= Len(work.mmap_list)
  <2>1. PICK vma : vma = work.mmap_list[call.i]
    OBVIOUS
  <2>2. mem' = exit_range(mem, work.pgdir, vma.vm_start, vma.vm_end)
    BY <1>4, <2>1 DEF ExitRange
  <2>3. Keeps(mem, mem')
    BY <1>3, <2>2, ExitRangeKeeps
  <2>4. pc' = "exit_range" /\ work' = work /\ call'.i = call.i + 1
    BY <1>1, <1>2, <1>4 DEF ExitRange, CallType
  <2>5. Cursor'
    BY <1>2, <1>3, <2>4 DEF Cursor, CallType
  <2>6. SameDirs(mm, work, mm', work')
    BY <1>1, <2>4, SameSpaces
  <2> QED BY <1>1, <1>3, <2>3, <2>4, <2>5, <2>6, PageKept DEF Places
<1>5. CASE ~(call.i <= Len(work.mmap_list))
  <2>1. mem' = free_page(mem, {work.pgdir}) /\ work' = NULL /\ pc' \in {"load", "user"}
    BY <1>5 DEF ExitRange, put_pgdir, mm_destroy
  <2>2. Rooted(mem', mm', work')
    BY <1>1, <1>2, <1>3, <2>1, RootedPut
  <2> QED BY <1>1, <1>3, <2>1, <2>2 DEF PageInv, Cursor, Places
<1> QED BY <1>4, <1>5

\* A step that neither changes the memory nor moves an address space.
LEMMA PageIdle ==
    ASSUME PageInv, pc # "boot", mem' = mem, SameDirs(mm, work, mm', work'),
           spoiled' = spoiled, pc' \in Places \ {"boot"}, Cursor'
    PROVE  PageInv'
BY Trees, PageKept

\* do_execve() and do_exit()
LEMMA PageExecExit ==
    ASSUME AreaInv, PageInv, NEW s \in Space, Exec(s) \/ Exit(s)
    PROVE  PageInv'
<1>1. PICK then :
         /\ pc = "user" /\ mm[s] # NULL /\ mm' = [mm EXCEPT ![s] = NULL] /\ work' = mm[s]
         /\ pc' = "unmap" /\ call' = [NoCall EXCEPT !.proc = s, !.then = then, !.i = 1]
         /\ mem' = mem /\ spoiled' = (spoiled \/ ~Tidy(mem, mm[s]))
  BY DEF Exec, Exit
<1>2. work = NULL /\ mm \in [Space -> mm_struct \cup {NULL}]
  BY <1>1, Before DEF Building, Loading, Copying, Spaces
<1>3. \A r \in Space : mm'[r] = IF r = s THEN NULL ELSE mm[r]
  BY <1>1, <1>2
<1>4. Rooted(mem, mm', mm[s])
  BY <1>1, <1>2, <1>3, Trees, RootedTaken
<1>5. call'.i = 1
  BY <1>1 DEF NoCall
<1>6. spoiled' \in BOOLEAN
  BY <1>1, Zenon
<1> QED BY <1>1, <1>4, <1>5, <1>6 DEF PageInv, Cursor, Places

\* load_icode() begins.
LEMMA PageLoad ==
    ASSUME AreaInv, PageInv, Load
    PROVE  PageInv'
<1>1. pc = "load" /\ mm' = mm /\ spoiled' = spoiled
  BY DEF Load
<1>2. work = NULL
  BY <1>1, Before DEF Building, Loading, Copying
<1>3. CASE /\ Free(mem) # {} /\ mem' = setup_pgdir(mem) /\ work' = mm_create(mem)
           /\ pc' = "segment"
  <2>1. Rooted(mem', mm', work')
    BY <1>1, <1>2, <1>3, Trees, RootedMade
  <2> QED BY <1>1, <1>3, <2>1, Trees DEF PageInv, Cursor, Places
<1>4. CASE pc' = "user" /\ mem' = mem /\ work' = work
  <2>1. SameDirs(mm, work, mm', work') /\ Cursor'
    BY <1>1, <1>4, SameSpaces DEF Cursor
  <2> QED BY <1>1, <1>4, <2>1, PageIdle DEF Places
<1> QED BY <1>3, <1>4 DEF Load

\* A segment that is mapped is one in user memory.
LEMMA MmMapBounds ==
    ASSUME NEW sp, NEW addr \in Nat, NEW len \in Nat, NEW flags, NEW memory \in BOOLEAN,
           mm_map(sp, addr, len, flags, memory).ret = "ok", addr + len + PGSIZE <= WordSize
    PROVE  addr + len <= UserTop
<1>1. USER_ACCESS(ROUNDDOWN(addr, PGSIZE), ROUNDUP(addr + len, PGSIZE))
  <2>1. USER_ACCESS(ROUNDDOWN(addr, PGSIZE), ROUNDDOWN(Word(addr + len + PGSIZE - 1), PGSIZE))
    BY DEF mm_map
  <2> QED BY <2>1, EndOf
<1>2. addr + len <= ROUNDUP(addr + len, PGSIZE) /\ ROUNDUP(addr + len, PGSIZE) \in Nat
  <2>1. addr + len \in Nat
    OBVIOUS
  <2> QED BY <2>1, Constants, RoundBounds, Rounding
<1> QED BY <1>1, <1>2, Constants DEF USER_ACCESS

\* The segment that a call loads.
LEMMA Loaded ==
    ASSUME AreaInv, PageInv, pc \in Loading
    PROVE  /\ IsSpace(work) /\ work \in mm_struct /\ work # NULL /\ call \in CallType
           /\ call.prog \in Programs /\ work.pgdir \in Dirs(mem)
           /\ Good(mem) /\ Keeps(mem, mem) /\ spoiled \in BOOLEAN
BY Before, Trees, Constants DEF Calling, Building, Loading, IsSpace

\* The header of a segment,
LEMMA PageLoadSegment ==
    ASSUME AreaInv, PageInv, LoadSegment
    PROVE  PageInv'
<1>1. pc = "segment" /\ call.i <= Len(Segments) /\ mm' = mm
  BY DEF LoadSegment
<1>2. /\ IsSpace(work) /\ work \in mm_struct /\ work # NULL /\ call \in CallType
      /\ call.prog \in Programs /\ Good(mem) /\ Keeps(mem, mem) /\ spoiled \in BOOLEAN
  BY <1>1, Loaded DEF Loading
<1>3. call.i \in 1 .. Len(Segments)
  <2>1. Segments \in Seq(Segment)
    BY <1>2, Constants DEF Segments
  <2>2. Len(Segments) \in Nat /\ call.i \in Nat /\ call.i > 0
    BY <2>1, <1>1, <1>2, LenProperties, Before DEF CallType, Calling
  <2> QED BY <2>2, <1>1
<1>4. ph.va \in Nat /\ ph.filesz \in Nat /\ ph.memsz \in Nat /\ ph.flags \in SUBSET VmFlags
  BY <1>2, <1>3, CurrentSegment
<1>5. CASE Teardown(mem, work, "load_failed")
  BY <1>1, <1>2, <1>5, PageTeardown DEF Loading
<1>6. CASE ~(ph.filesz > ph.memsz)
  <2>1. PICK memory \in BOOLEAN :
           LET r == mm_map(work, ph.va, ph.memsz, ph.flags, memory)
           IN  CASE r.ret = "ok" ->
                       /\ work' = r.mm /\ pc' = "file"
                       /\ call' = [call EXCEPT !.start = ph.va,
                                               !.la = ROUNDDOWN(ph.va, PGSIZE)]
                       /\ UNCHANGED <<mem, spoiled>>
                 [] r.ret = "panic" -> pc' = "panic" /\ UNCHANGED <<mem, work, call, spoiled>>
                 [] OTHER -> Teardown(mem, r.mm, "load_failed")
    BY <1>6 DEF LoadSegment
  <2>2. PICK r : r = mm_map(work, ph.va, ph.memsz, ph.flags, memory)
    OBVIOUS
  <2>3. r.mm # NULL /\ r.mm.pgdir = work.pgdir
    <3>1. IsSpace(r.mm)
      BY <2>2, <1>2, <1>4, MmMap
    <3> QED BY <2>2, <3>1, <1>2, SamePgdir, Constants DEF IsSpace
  <2>4. SameDirs(mm, work, mm', r.mm) /\ SameDirs(mm, work, mm', work)
    BY <1>1, <1>2, <2>3 DEF SameDirs
  <2>5. CASE r.ret = "ok"
    <3>1. /\ work' = r.mm /\ pc' = "file" /\ mem' = mem /\ spoiled' = spoiled
          /\ call' = [call EXCEPT !.start = ph.va, !.la = ROUNDDOWN(ph.va, PGSIZE)]
      BY <2>1, <2>2, <2>5
    <3>2. ROUNDDOWN(ph.va, PGSIZE) \in Nat /\ ROUNDDOWN(ph.va, PGSIZE) <= ph.va
      BY <1>4, Constants, RoundBounds
    <3>3. /\ call'.prog = call.prog /\ call'.i = call.i /\ call'.start = ph.va
          /\ call'.la = ROUNDDOWN(ph.va, PGSIZE)
      BY <3>1, <1>2 DEF CallType
    <3>4. ph' = ph
      BY <3>3 DEF ph, Segments
    <3>5. ph.va + ph.memsz <= UserTop
      BY <1>2, <1>3, <1>4, <1>6, <2>2, <2>5, CurrentSegment, MmMapBounds
    <3>6. Filling'
      BY <1>4, <1>6, <3>1, <3>2, <3>3, <3>4, <3>5 DEF Filling
    <3>7. Cursor'
      BY <3>1, <3>6 DEF Cursor
    <3> QED BY <1>1, <2>4, <3>1, <3>7, PageIdle DEF Places
  <2>6. CASE r.ret = "panic"
    <3>1. pc' = "panic" /\ mem' = mem /\ work' = work /\ spoiled' = spoiled
      BY <2>1, <2>2, <2>5, <2>6
    <3>2. Cursor'
      BY <3>1 DEF Cursor
    <3> QED BY <1>1, <2>4, <3>1, <3>2, PageIdle DEF Places
  <2>7. CASE r.ret # "ok" /\ r.ret # "panic"
    <3>1. Teardown(mem, r.mm, "load_failed")
      BY <2>1, <2>2, <2>7
    <3> QED BY <1>1, <1>2, <2>3, <3>1, PageTeardown DEF Loading
  <2> QED BY <2>5, <2>6, <2>7
<1> QED BY <1>5, <1>6 DEF LoadSegment

\* a file that is none,
LEMMA PageLoadBadMagic ==
    ASSUME AreaInv, PageInv, LoadBadMagic
    PROVE  PageInv'
<1>1. pc = "segment" /\ mm' = mm /\ Teardown(mem, work, "load_failed")
  BY DEF LoadBadMagic
<1>2. work # NULL /\ Keeps(mem, mem)
  BY <1>1, Loaded DEF Loading
<1> QED BY <1>1, <1>2, PageTeardown DEF Loading

\* memcpy() and memset(), to a page or to none.
LEMMA FilledKeeps ==
    ASSUME NEW m, Good(m), NEW p, NEW la \in Int, NEW start, NEW size, NEW file \in BOOLEAN,
           ph.offset \in Int, ph.va \in Int
    PROVE  Keeps(m, Filled(m, p, la, start, size, file))
<1> DEFINE X == [b \in 0 .. PGSIZE - 1 |->
                    IF start <= la + b /\ la + b < start + size THEN SegmentByte(la + b, file)
                    ELSE m.data[p][b]]
<1>1. Filled(m, p, la, start, size, file) = Wrote(m, p, X)
  BY Zenon DEF Filled, Wrote
<1>2. m.data \in [Page -> [0 .. PGSIZE - 1 -> Int]]
  BY DEF Good, Memory
<1>3. CASE p \in Page
  <2>1. \A b \in 0 .. PGSIZE - 1 : SegmentByte(la + b, file) \in Int /\ m.data[p][b] \in Int
    <3>1. ASSUME NEW b \in 0 .. PGSIZE - 1 PROVE m.data[p][b] \in Int
      BY <1>2, <1>3
    <3>2. ASSUME NEW b \in 0 .. PGSIZE - 1 PROVE SegmentByte(la + b, file) \in Int
      <4>1. PICK a \in Int : a = la + b
        BY Constants
      <4>2. SegmentByte(a, file) = IF file THEN ph.offset + (a - ph.va) ELSE 0
        BY DEF SegmentByte
      <4> QED BY <4>1, <4>2
    <3> QED BY <3>1, <3>2
  <2>2. X \in [0 .. PGSIZE - 1 -> Int]
    BY <2>1
  <2> HIDE DEF X
  <2> QED BY <1>1, <2>2, DataKeeps
<1>4. CASE p \notin Page
  <2> HIDE DEF X
  <2>1. Wrote(m, p, X) = Wrote(m, p, JunkBytes)
    <3>1. [m.data EXCEPT ![p] = X] = m.data /\ [m.data EXCEPT ![p] = JunkBytes] = m.data
      BY <1>2, <1>4
    <3>2. /\ Wrote(m, p, X) = [m EXCEPT !.data = [m.data EXCEPT ![p] = X]]
          /\ Wrote(m, p, JunkBytes) = [m EXCEPT !.data = [m.data EXCEPT ![p] = JunkBytes]]
      BY DEF Wrote, Good, Memory
    <3> QED BY <3>1, <3>2
  <2> QED BY <1>1, <2>1, PageFacts, DataKeeps
<1> QED BY <1>3, <1>4

\* The segment whose pages a call fills.
LEMMA Filler ==
    ASSUME AreaInv, PageInv, pc \in {"file", "bss"}
    PROVE  /\ IsSpace(work) /\ work # NULL /\ call \in CallType /\ work.pgdir \in Dirs(mem)
           /\ Good(mem) /\ Keeps(mem, mem) /\ spoiled \in BOOLEAN /\ Filling
           /\ ph.va \in Nat /\ ph.filesz \in Nat /\ ph.memsz \in Nat
           /\ ph.offset \in Nat /\ ph.flags \in SUBSET VmFlags /\ "STACK" \notin ph.flags
           /\ call.la \in Int /\ call.start \in Int
           /\ file_end = ph.va + ph.filesz /\ mem_end = ph.va + ph.memsz
<1>1. /\ IsSpace(work) /\ work # NULL /\ call \in CallType /\ work.pgdir \in Dirs(mem)
      /\ Good(mem) /\ Keeps(mem, mem) /\ spoiled \in BOOLEAN /\ call.prog \in Programs
  BY Loaded DEF Loading
<1>2. Filling
  BY Trees DEF Cursor
<1>3. call.i \in 1 .. Len(Segments)
  BY Before DEF Calling
<1>4. ph \in Segment
  <2>1. Segments \in Seq(Segment)
    BY <1>1, Constants DEF Segments
  <2> QED BY <1>3, <2>1, ElementOfSeq DEF ph
<1>5. file_end = ph.va + ph.filesz /\ mem_end = ph.va + ph.memsz
  <2>1. PICK va \in Nat, f \in Nat, l \in Nat : va = ph.va /\ f = ph.filesz /\ l = ph.memsz
    BY <1>4 DEF Segment
  <2>2. va + f \in Nat /\ va + l \in Nat /\ va + f < WordSize /\ va + l < WordSize
    <3>1. f <= l /\ va + l <= UserTop
      BY <1>2, <2>1 DEF Filling
    <3>2. UserTop \in Nat /\ PGSIZE \in Nat \ {0} /\ WordSize \in Nat
          /\ UserTop + PGSIZE <= WordSize
      BY Words, Constants
    <3> QED BY <3>1, <3>2
  <2> QED BY <2>1, <2>2, Words DEF file_end, mem_end
<1> QED BY <1>1, <1>2, <1>4, <1>5 DEF Segment, CallType

\* The permissions of a page.
LEMMA AreaPerm ==
    ASSUME NEW flags
    PROVE  perm(flags) \in Perm
BY DEF perm, Perm

\* One round of the loops that fill a segment.
LEMMA PageLoadPage ==
    ASSUME AreaInv, PageInv, pc \in {"file", "bss"}, mm' = mm, NEW file \in BOOLEAN,
           NEW end, end = ph.va + (IF pc = "file" THEN ph.filesz ELSE ph.memsz),
           call.start < end, LoadPage(end, file)
    PROVE  PageInv'
<1>1. /\ IsSpace(work) /\ work # NULL /\ call \in CallType /\ work.pgdir \in Dirs(mem)
      /\ Good(mem) /\ Keeps(mem, mem) /\ spoiled \in BOOLEAN /\ Filling
      /\ ph.va \in Nat /\ ph.filesz \in Nat /\ ph.memsz \in Nat
      /\ ph.offset \in Nat /\ ph.flags \in SUBSET VmFlags
      /\ call.la \in Int /\ call.start \in Int
  BY Filler
<1>2. /\ end \in Nat /\ end <= UserTop /\ call.la \in Nat /\ call.la < UserTop
      /\ call.la <= call.start
  BY <1>1, Constants DEF Filling
<1>3. PICK r : r = pgdir_alloc_page(mem, work.pgdir, call.la, perm(ph.flags))
  OBVIOUS
<1>4. Keeps(mem, r.mem)
  BY <1>1, <1>2, <1>3, AreaPerm, NewPage
<1>5. CASE r.page = NULL
  <2>1. Teardown(r.mem, work, "load_failed")
    BY <1>3, <1>5 DEF LoadPage
  <2> QED BY <1>1, <1>4, <2>1, PageTeardown, SMTT(30) DEF Loading
<1>6. CASE r.page # NULL
  <2> DEFINE next == call.la + PGSIZE
             size == IF end < next THEN end - call.start ELSE next - call.start
  <2>1. /\ call' = [call EXCEPT !.la = next, !.start = @ + size, !.page = r.page]
        /\ work' = work /\ pc' = pc /\ spoiled' = spoiled
        /\ mem' = Filled(r.mem, r.page, call.la, call.start, size, file)
    BY <1>3, <1>6 DEF LoadPage
  <2>2. next \in Nat /\ next > call.la /\ (call.start + size = end \/ call.start + size = next)
    BY <1>1, <1>2, Constants
  <2>3. Keeps(mem, mem')
    <3> HIDE DEF size
    <3>1. Good(r.mem)
      BY <1>4 DEF Keeps
    <3>2. Keeps(r.mem, Filled(r.mem, r.page, call.la, call.start, size, file))
      BY <1>1, <3>1, FilledKeeps
    <3> QED BY <1>4, <2>1, <3>2, KeepsTwice
  <2>4. /\ call'.prog = call.prog /\ call'.i = call.i /\ call'.la = next
        /\ call'.start = call.start + size
    <3> HIDE DEF next, size
    <3> QED BY <1>1, <2>1 DEF CallType
  <2>5. ph' = ph
    BY <2>4 DEF ph, Segments
  <2>6. Filling'
    <3> HIDE DEF next, size
    <3>1. call'.la <= call'.start \/ call'.start >= end
      BY <1>2, <2>2, <2>4
    <3> QED BY <1>1, <2>1, <2>2, <2>4, <2>5, <3>1 DEF Filling
  <2>7. Cursor'
    BY <2>1, <2>6 DEF Cursor
  <2>8. SameDirs(mm, work, mm', work')
    BY <2>1, SameSpaces
  <2> HIDE DEF next, size
  <2> QED BY <1>1, <2>1, <2>3, <2>7, <2>8, PageKept DEF Places
<1> QED BY <1>5, <1>6

\* the pages with bytes of the file,
LEMMA PageLoadFile ==
    ASSUME AreaInv, PageInv, LoadFile
    PROVE  PageInv'
<1>1. /\ pc = "file" /\ mm' = mm /\ call.start < ph.va + ph.filesz
      /\ LoadPage(ph.va + ph.filesz, TRUE)
  BY Filler DEF LoadFile
<1>2. PICK file \in BOOLEAN : file = TRUE
  OBVIOUS
<1>3. LoadPage(ph.va + ph.filesz, file)
  BY <1>1, <1>2, Zenon
<1> QED BY <1>1, <1>3, PageLoadPage

\* those without,
LEMMA PageLoadBss ==
    ASSUME AreaInv, PageInv, LoadBss
    PROVE  PageInv'
<1>1. pc = "bss" /\ mm' = mm
  BY DEF LoadBss
<1>2. CASE call.start < ph.va + ph.memsz
  <2>1. LoadPage(ph.va + ph.memsz, FALSE)
    BY <1>1, <1>2, Filler DEF LoadBss
  <2>2. PICK file \in BOOLEAN : file = FALSE
    OBVIOUS
  <2>3. LoadPage(ph.va + ph.memsz, file)
    BY <2>1, <2>2, Zenon
  <2> QED BY <1>1, <1>2, <2>3, PageLoadPage
<1>3. CASE ~(call.start < ph.va + ph.memsz)
  <2>1. pc' = "segment" /\ mem' = mem /\ work' = work /\ spoiled' = spoiled
    BY <1>1, <1>3, Filler DEF LoadBss, NextSegment
  <2>2. SameDirs(mm, work, mm', work') /\ Cursor'
    BY <1>1, <2>1, SameSpaces DEF Cursor
  <2> QED BY <1>1, <2>1, <2>2, PageIdle DEF Places
<1> QED BY <1>2, <1>3

\* and the rest of the last page with some.
LEMMA PageLoadEdge ==
    ASSUME AreaInv, PageInv, LoadEdge
    PROVE  PageInv'
<1> DEFINE end == mem_end
           size == Word(IF end < call.la THEN end - call.start ELSE call.la - call.start)
           start == Word(call.start + size)
<1>1. pc = "file" /\ mm' = mm /\ work' = work /\ spoiled' = spoiled
  BY DEF LoadEdge
<1>2. /\ call \in CallType /\ Good(mem) /\ Keeps(mem, mem) /\ spoiled \in BOOLEAN /\ Filling
      /\ ph.va \in Nat /\ ph.filesz \in Nat /\ ph.memsz \in Nat
      /\ ph.offset \in Nat /\ call.la \in Int /\ call.start \in Int
      /\ end = ph.va + ph.memsz
  BY <1>1, Filler
<1>3. SameDirs(mm, work, mm', work')
  BY <1>1, SameSpaces
<1>4. CASE call.start >= call.la
  <2>1. pc' = "bss" /\ mem' = mem /\ call' = call
    BY <1>4 DEF LoadEdge
  <2>2. ph' = ph
    BY <2>1 DEF ph, Segments
  <2>3. Filling'
    BY <1>2, <1>4, <2>1, <2>2 DEF Filling
  <2>4. Cursor'
    BY <2>1, <2>3 DEF Cursor
  <2> QED BY <1>1, <1>3, <2>1, <2>4, PageIdle DEF Places
<1>5. CASE ~(call.start >= call.la) /\ call.start = end
  <2>1. pc' = "segment" /\ mem' = mem
    BY <1>5 DEF LoadEdge, NextSegment
  <2>2. Cursor'
    BY <2>1 DEF Cursor
  <2> QED BY <1>1, <1>3, <2>1, <2>2, PageIdle DEF Places
<1>6. CASE ~(call.start >= call.la) /\ call.start # end
  <2>1. PICK file \in BOOLEAN : file = FALSE
    OBVIOUS
  <2>2. /\ mem' = Filled(mem, call.page, call.la - PGSIZE, call.start, size, FALSE)
        /\ call' = [call EXCEPT !.start = start]
        /\ pc' = IF \/ end < call.la /\ start = end
                    \/ end >= call.la /\ start = call.la
                 THEN "bss" ELSE "panic"
    BY <1>6 DEF LoadEdge
  <2>3. Keeps(mem, mem')
    <3> HIDE DEF size
    <3>1. mem' = Filled(mem, call.page, call.la - PGSIZE, call.start, size, file)
      BY <2>1, <2>2, Zenon
    <3>2. PICK la \in Int : la = call.la - PGSIZE
      BY <1>2, Constants
    <3>3. Keeps(mem, Filled(mem, call.page, la, call.start, size, file))
      BY <1>2, FilledKeeps
    <3> QED BY <3>1, <3>2, <3>3
  <2>4. pc' = "bss" => start = end \/ start = call.la
    <3> HIDE DEF start, end
    <3> QED BY <2>2
  <2>5. /\ call'.prog = call.prog /\ call'.i = call.i /\ call'.la = call.la
        /\ call'.start = start
    <3> HIDE DEF start
    <3> QED BY <1>2, <2>2 DEF CallType
  <2>6. ph' = ph
    BY <2>5 DEF ph, Segments
  <2>7. pc' \in {"bss", "panic"}
    <3> HIDE DEF start, end
    <3> QED BY <2>2
  <2>8. pc' = "bss" => Filling'
    <3>1. 0 <= call.la /\ ph.filesz <= ph.memsz /\ end <= UserTop
      BY <1>2 DEF Filling
    <3> HIDE DEF start
    <3> QED BY <1>2, <2>4, <2>5, <2>6, <3>1 DEF Filling
  <2>9. Cursor'
    BY <2>7, <2>8 DEF Cursor
  <2> HIDE DEF start, size, end
  <2> QED BY <1>1, <1>2, <1>3, <2>3, <2>7, <2>9, PageKept DEF Places
<1> QED BY <1>4, <1>5, <1>6

\* The stack
LEMMA PageLoadStack ==
    ASSUME AreaInv, PageInv, LoadStack
    PROVE  PageInv'
<1> DEFINE flags == {"READ", "WRITE", "STACK"}
<1>1. pc = "segment" /\ mm' = mm
  BY DEF LoadStack
<1>2. /\ IsSpace(work) /\ work \in mm_struct /\ work # NULL /\ call \in CallType
      /\ Keeps(mem, mem)
  BY <1>1, Loaded DEF Loading
<1>3. PICK memory \in BOOLEAN :
         LET r == mm_map(work, UserTop - StackSize, StackSize, flags, memory)
         IN  IF r.ret = "ok"
             THEN /\ work' = r.mm /\ pc' = "stack" /\ call' = [call EXCEPT !.i = 1]
                  /\ UNCHANGED <<mem, spoiled>>
             ELSE IF r.ret = "panic"
             THEN pc' = "panic" /\ UNCHANGED <<mem, work, call, spoiled>>
             ELSE Teardown(mem, r.mm, "load_failed")
  BY DEF LoadStack
<1>4. PICK r : r = mm_map(work, UserTop - StackSize, StackSize, flags, memory)
  OBVIOUS
<1>5. r.mm # NULL /\ r.mm.pgdir = work.pgdir
  <2>1. UserTop - StackSize \in Nat /\ StackSize \in Nat
    BY Constants
  <2>2. flags \in SUBSET VmFlags
    BY DEF VmFlags
  <2>3. IsSpace(r.mm)
    BY <2>1, <2>2, <1>2, <1>4, MmMap
  <2> QED BY <2>3, <1>2, <1>4, SamePgdir, Constants DEF IsSpace
<1>6. SameDirs(mm, work, mm', r.mm) /\ SameDirs(mm, work, mm', work)
  BY <1>1, <1>2, <1>5 DEF SameDirs
<1>7. CASE r.ret = "ok"
  <2>1. /\ work' = r.mm /\ pc' = "stack" /\ call' = [call EXCEPT !.i = 1]
        /\ mem' = mem /\ spoiled' = spoiled
    BY <1>3, <1>4, <1>7
  <2>2. call'.i = 1
    BY <2>1, <1>2 DEF CallType
  <2>3. Cursor'
    BY <2>1, <2>2 DEF Cursor
  <2> QED BY <1>1, <1>6, <2>1, <2>3, PageIdle DEF Places
<1>8. CASE r.ret = "panic"
  <2>1. pc' = "panic" /\ mem' = mem /\ work' = work /\ spoiled' = spoiled
    BY <1>3, <1>4, <1>8
  <2>2. Cursor'
    BY <2>1 DEF Cursor
  <2> QED BY <1>1, <1>6, <2>1, <2>2, PageIdle DEF Places
<1>9. CASE r.ret # "ok" /\ r.ret # "panic"
  <2>1. Teardown(mem, r.mm, "load_failed")
    BY <1>3, <1>4, <1>9
  <2> QED BY <1>1, <1>2, <1>5, <2>1, PageTeardown DEF Loading
<1> QED BY <1>7, <1>8, <1>9

\* and its pages.
LEMMA PageLoadStackPage ==
    ASSUME AreaInv, PageInv, LoadStackPage
    PROVE  PageInv'
<1>1. pc = "stack" /\ mm' = mm /\ work' = work /\ spoiled' = spoiled /\ call.i <= StackMapped
  BY DEF LoadStackPage
<1>2. /\ work # NULL /\ call \in CallType /\ work.pgdir \in Dirs(mem)
      /\ Good(mem) /\ spoiled \in BOOLEAN
  BY <1>1, Loaded DEF Loading
<1>3. call.i \in Nat /\ call.i > 0
  BY <1>1, <1>2, Trees DEF Cursor, CallType
<1>4. PICK la \in Nat : la = UserTop - call.i * PGSIZE /\ la < UserTop
  <2>1. PICK d \in Nat \ {0} : d = PGSIZE
    BY Constants
  <2>2. PICK i \in Nat \ {0} : i = call.i
    BY <1>3
  <2>3. PICK n \in Nat : n = StackMapped
    BY Constants
  <2>4. i * d <= n * d /\ i * d > 0 /\ i * d \in Nat /\ n * d \in Nat
    <3>1. PICK k \in Nat : n = i + k
      <4>1. n - i \in Nat /\ n = i + (n - i)
        BY <1>1, <2>2, <2>3
      <4> QED BY <4>1
    <3>2. n * d = i * d + k * d /\ k * d \in Nat
      BY <3>1
    <3>3. PICK j \in Nat : i = j + 1
      OBVIOUS
    <3>4. i * d = j * d + d /\ j * d \in Nat
      BY <3>3
    <3> QED BY <3>2, <3>4
  <2>5. n * d < StackSize /\ StackSize \in Nat /\ UserTop \in Nat /\ StackSize < UserTop
    BY <2>1, <2>3, Constants, AddressSpaceAssumption
  <2> QED BY <2>1, <2>2, <2>4, <2>5
<1>5. PICK bits \in Perm : bits = PTE_USER
  BY DEF Perm, PTE_USER
<1>6. PICK r : r = pgdir_alloc_page(mem, work.pgdir, la, bits)
  OBVIOUS
<1>7. Keeps(mem, r.mem)
  BY <1>2, <1>4, <1>5, <1>6, NewPage
<1>8. mem' = r.mem /\ pc' \in {"stack", "panic"}
  BY <1>1, <1>4, <1>5, <1>6 DEF LoadStackPage
<1>9. call'.i = call.i + 1
  BY <1>2 DEF LoadStackPage, CallType
<1>10. Cursor'
  BY <1>3, <1>8, <1>9 DEF Cursor
<1>11. SameDirs(mm, work, mm', work')
  BY <1>1, SameSpaces
<1> QED BY <1>1, <1>2, <1>7, <1>8, <1>10, <1>11, PageKept DEF Places

\* The new address space becomes the one of the process.
LEMMA PageDone ==
    ASSUME AreaInv, PageInv, LoadDone \/ ForkDone
    PROVE  PageInv'
<1>1. /\ pc \in {"stack", "dup"} /\ mm' = [mm EXCEPT ![call.proc] = work]
      /\ pc' = "user" /\ work' = NULL /\ mem' = mem /\ spoiled' = spoiled
  BY DEF LoadDone, ForkDone
<1>2. /\ call.proc \in Space /\ work # NULL /\ mm[call.proc] = NULL
      /\ mm \in [Space -> mm_struct \cup {NULL}]
  BY <1>1, Before, Constants DEF Calling, InCall, Building, Loading, Copying, IsSpace, Spaces
<1>3. PICK s \in Space : s = call.proc
  BY <1>2
<1>10. PICK g : g = mm'
  OBVIOUS
<1>4. \A r \in Space : g[r] = IF r = s THEN work ELSE mm[r]
  BY <1>1, <1>2, <1>3, <1>10
<1>5. Rooted(mem, mm, work)
  BY <1>1, Trees
<1>6. mm[s] = NULL
  BY <1>2, <1>3
<1>7. Rooted(mem, g, NULL)
  BY <1>2, <1>4, <1>5, <1>6, RootedGiven
<1> QED BY <1>1, <1>7, <1>10, Trees DEF PageInv, Cursor, Places

\* copy_mm()
LEMMA PageFork ==
    ASSUME AreaInv, PageInv, NEW s \in Space, NEW t \in Space, Fork(s, t)
    PROVE  PageInv'
<1>1. /\ pc = "user" /\ mm' = mm /\ spoiled' = spoiled /\ Free(mem) # {} /\ pc' = "dup"
      /\ mem' = setup_pgdir(mem) /\ work' = mm_create(mem)
  BY DEF Fork
<1>2. work = NULL
  BY <1>1, Before DEF Building, Loading, Copying
<1>3. Rooted(mem', mm', work')
  BY <1>1, <1>2, Trees, RootedMade
<1> QED BY <1>1, <1>3, Trees DEF PageInv, Cursor, Places

\* The area that a call copies.
LEMMA Copied ==
    ASSUME AreaInv, PageInv, pc \in Copying, call.i > 0
    PROVE  /\ IsSpace(work) /\ work \in mm_struct /\ work # NULL /\ work.pgdir \in Dirs(mem)
           /\ mm[call.src].pgdir \in Dirs(mem) /\ call \in CallType
           /\ Good(mem) /\ Keeps(mem, mem) /\ spoiled \in BOOLEAN /\ Cursor
           /\ SrcArea \in vma_struct /\ InUserMemory(SrcArea)
           /\ SrcArea.vm_start \in Nat /\ SrcArea.vm_end \in Nat
           /\ SrcArea.vm_start < SrcArea.vm_end /\ SrcArea.vm_end <= UserTop
<1>1. /\ IsSpace(work) /\ work \in mm_struct /\ work # NULL /\ call \in CallType
      /\ call.src \in Space /\ mm[call.src] # NULL
      /\ call.i \in 0 .. Len(mm[call.src].mmap_list)
  BY Before, Constants DEF Calling, Building, IsSpace
<1>2. IsSpace(mm[call.src])
  BY <1>1, Before
<1>3. call.i \in 1 .. Len(mm[call.src].mmap_list)
  BY <1>1, <1>2, SpaceFacts
<1>4. SrcArea \in vma_struct /\ InUserMemory(SrcArea)
  BY <1>2, <1>3, SpaceFacts DEF SrcArea
<1>5. /\ SrcArea.vm_start \in Nat /\ SrcArea.vm_end \in Nat
      /\ SrcArea.vm_start < SrcArea.vm_end /\ SrcArea.vm_end <= UserTop
  BY <1>2, <1>3, AreaBounds DEF SrcArea
<1> QED BY <1>1, <1>4, <1>5, Trees DEF Copying

\* dup_mmap(), one area.
LEMMA PageDupArea ==
    ASSUME AreaInv, PageInv, DupArea
    PROVE  PageInv'
<1>1. pc = "dup" /\ call.i > 0 /\ mm' = mm
  BY DEF DupArea
<1>2. /\ IsSpace(work) /\ work \in mm_struct /\ work # NULL /\ call \in CallType
      /\ Keeps(mem, mem) /\ SrcArea \in vma_struct /\ InUserMemory(SrcArea)
      /\ SrcArea.vm_start \in Nat /\ SrcArea.vm_end \in Nat
      /\ SrcArea.vm_start < SrcArea.vm_end
  BY <1>1, Copied DEF Copying
<1>3. PICK r : r = insert_vma_struct(work, SrcArea)
  OBVIOUS
<1>4. r.ok => r.mm # NULL /\ r.mm.pgdir = work.pgdir
  <2>1. r.ok => IsSpace(r.mm)
    BY <1>2, <1>3, InsertVma
  <2> QED BY <1>2, <1>3, <2>1, SamePgdir, Constants DEF IsSpace
<1>5. \/ Teardown(mem, work, "fork_failed")
      \/ pc' = "panic" /\ mem' = mem /\ work' = work /\ spoiled' = spoiled
      \/ /\ r.ok /\ work' = r.mm /\ pc' = "copy" /\ mem' = mem /\ spoiled' = spoiled
         /\ call' = [call EXCEPT !.la = SrcArea.vm_start]
  BY <1>3 DEF DupArea
<1>6. CASE Teardown(mem, work, "fork_failed")
  BY <1>1, <1>2, <1>6, PageTeardown DEF Copying
<1>7. CASE pc' = "panic" /\ mem' = mem /\ work' = work /\ spoiled' = spoiled
  <2>1. Cursor' /\ SameDirs(mm, work, mm', work')
    BY <1>1, <1>7, SameSpaces DEF Cursor
  <2> QED BY <1>1, <1>7, <2>1, PageIdle DEF Places
<1>8. CASE /\ r.ok /\ work' = r.mm /\ pc' = "copy" /\ mem' = mem /\ spoiled' = spoiled
           /\ call' = [call EXCEPT !.la = SrcArea.vm_start]
  <2>1. call'.la = SrcArea.vm_start /\ call'.i = call.i /\ call'.src = call.src
    BY <1>2, <1>8 DEF CallType
  <2>2. SrcArea' = SrcArea
    BY <1>1, <2>1 DEF SrcArea
  <2>3. Cursor'
    BY <1>2, <1>8, <2>1, <2>2 DEF Cursor
  <2>4. SameDirs(mm, work, mm', work')
    BY <1>1, <1>2, <1>4, <1>8 DEF SameDirs
  <2> QED BY <1>1, <1>8, <2>3, <2>4, PageIdle DEF Places
<1> QED BY <1>5, <1>6, <1>7, <1>8

\* A mapped address is mapped to a page.
LEMMA PteEntry ==
    ASSUME NEW m, Good(m), NEW root \in Dirs(m), NEW la \in Nat, la < UserTop,
           NEW e, e = pte(m, root, la), e # NULL
    PROVE  e.page \in Page /\ e.perm \in Perm
<1>0. PICK create \in BOOLEAN : create = TRUE
  OBVIOUS
<1>1. PICK t : t = get_pte(m, root, la, create).table
  OBVIOUS
<1>2. t \in Page /\ PTX(la) \in Index /\ e = m.entry[t][PTX(la)]
  BY <1>1, PteFacts
<1>3. e \in PTE
  BY <1>2 DEF Good, Memory
<1> QED BY <1>3, PageFacts

\* copy_range() goes on, to the next page or to the next area.
LEMMA PageGoto ==
    ASSUME AreaInv, PageInv, pc = "copy", mm' = mm, work' = work, spoiled' = spoiled,
           Keeps(mem, mem'), NEW next \in Int, call.la <= next,
           IF next < SrcArea.vm_end THEN pc' = "copy" /\ call' = [call EXCEPT !.la = next]
           ELSE pc' = "dup" /\ call' = [call EXCEPT !.i = @ - 1]
    PROVE  PageInv'
<1>1. /\ call.i > 0 /\ call \in CallType /\ spoiled \in BOOLEAN
      /\ SrcArea.vm_start <= call.la /\ SrcArea.vm_start \in Nat /\ call.la \in Int
  <2>1. call.i > 0
    BY Before DEF Calling
  <2> QED BY <2>1, Copied DEF Copying, Cursor, CallType
<1>2. SameDirs(mm, work, mm', work')
  BY SameSpaces
<1>3. CASE next < SrcArea.vm_end
  <2>1. call'.la = next /\ call'.i = call.i /\ call'.src = call.src
    BY <1>1, <1>3 DEF CallType
  <2>2. SrcArea' = SrcArea
    BY <2>1 DEF SrcArea
  <2>3. Cursor'
    BY <1>1, <1>3, <2>1, <2>2 DEF Cursor
  <2> QED BY <1>1, <1>2, <1>3, <2>3, PageKept DEF Places
<1>4. CASE ~(next < SrcArea.vm_end)
  <2>1. Cursor'
    BY <1>4 DEF Cursor
  <2> QED BY <1>1, <1>2, <1>4, <2>1, PageKept DEF Places
<1> QED BY <1>3, <1>4

\* copy_range(), one round.
LEMMA PageCopyRange ==
    ASSUME AreaInv, PageInv, CopyRange
    PROVE  PageInv'
<1> DEFINE la == call.la
           from == mm[call.src].pgdir
           t == get_pte(mem, from, la, FALSE).table
           next == IF t = NULL THEN ROUNDDOWN(la + PTSIZE, PTSIZE) ELSE la + PGSIZE
           g == get_pte(mem, work.pgdir, la, TRUE)
           Goto == /\ call' = IF next < SrcArea.vm_end THEN [call EXCEPT !.la = next]
                              ELSE [call EXCEPT !.i = @ - 1]
                   /\ pc' = IF next < SrcArea.vm_end THEN pc ELSE "dup"
                   /\ UNCHANGED <<work, spoiled>>
<1>1. /\ pc = "copy" /\ mm' = mm
      /\ \/ pte(mem, from, la) = NULL /\ mem' = mem /\ Goto
         \/ Teardown(g.mem, work, "fork_failed")
         \/ mem' = g.mem /\ pc' = "panic" /\ work' = work /\ spoiled' = spoiled
         \/ /\ pte(mem, from, la) # NULL /\ Free(g.mem) # {}
            /\ mem' = CopiedPage(g.mem, pte(mem, from, la), la) /\ Goto
  BY DEF CopyRange
<1>2. /\ work # NULL /\ work.pgdir \in Dirs(mem) /\ from \in Dirs(mem)
      /\ Good(mem) /\ Keeps(mem, mem) /\ spoiled \in BOOLEAN
      /\ la \in Nat /\ la < UserTop
  <2>1. call.i > 0
    BY <1>1, Before DEF Calling
  <2> QED BY <1>1, <2>1, Copied, Constants DEF Copying, Cursor, CallType
<1>3. next \in Int /\ la <= next
  <2>1. PGSIZE \in Nat \ {0} /\ PTSIZE \in Nat \ {0}
    <3>1. ASSUME NEW n \in Nat \ {0}, NEW d \in Nat \ {0} PROVE n * d \in Nat \ {0}
      OBVIOUS
    <3> QED BY <3>1, Constants, PageTableAssumption DEF PTSIZE
  <2>2. la + PTSIZE \in Nat
    BY <1>2, <2>1
  <2>3. ROUNDDOWN(la + PTSIZE, PTSIZE) \in Nat /\ la + PTSIZE < ROUNDDOWN(la + PTSIZE, PTSIZE) + PTSIZE
    BY <2>1, <2>2, RoundBounds
  <2> HIDE DEF t, la
  <2> QED BY <1>2, <2>1, <2>3
<1>4. PICK r : r = g /\ Keeps(mem, r.mem) /\ Good(r.mem)
  <2>1. PICK create \in BOOLEAN : create = TRUE
    OBVIOUS
  <2>2. PICK r : r = get_pte(mem, work.pgdir, la, create)
    OBVIOUS
  <2>3. Grown(mem, r.mem)
    BY <1>2, <2>2, GetPteGrows
  <2>4. r = g
    BY <2>1, <2>2, Zenon
  <2> HIDE DEF g
  <2> QED BY <2>3, <2>4 DEF Grown, Keeps
<1>5. ASSUME Goto, Keeps(mem, mem') PROVE PageInv'
  <2> HIDE DEF next, la
  <2> QED BY <1>1, <1>3, <1>5, PageGoto DEF la
<1>6. CASE pte(mem, from, la) = NULL /\ mem' = mem /\ Goto
  <2> HIDE DEF Goto, la, from
  <2> QED BY <1>2, <1>5, <1>6
<1>7. CASE Teardown(g.mem, work, "fork_failed")
  <2> HIDE DEF g
  <2> QED BY <1>1, <1>2, <1>4, <1>7, PageTeardown DEF Copying
<1>8. CASE mem' = g.mem /\ pc' = "panic" /\ work' = work /\ spoiled' = spoiled
  <2> HIDE DEF g
  <2>1. Cursor' /\ SameDirs(mm, work, mm', work')
    BY <1>1, <1>8, SameSpaces DEF Cursor
  <2> QED BY <1>1, <1>2, <1>4, <1>8, <2>1, PageKept DEF Places
<1>9. CASE /\ pte(mem, from, la) # NULL /\ Free(g.mem) # {}
           /\ mem' = CopiedPage(g.mem, pte(mem, from, la), la) /\ Goto
  <2> HIDE DEF g, la, from, Goto
  <2>1. PICK old : old = pte(mem, from, la)
    OBVIOUS
  <2>2. PICK q \in Page, bits \in Perm : q = old.page /\ bits = old.perm
    BY <1>2, <1>9, <2>1, PteEntry
  <2>3. PICK m : m = r.mem
    OBVIOUS
  <2>4. Good(m) /\ Keeps(mem, m) /\ Free(m) # {} /\ work.pgdir \in Dirs(m)
    BY <1>2, <1>4, <1>9, <2>3 DEF Keeps
  <2>5. PICK p \in Page : p = alloc_page(m)
    BY <2>4, AllocPage
  <2>6. mem' = CopiedPage(m, old, la)
    BY <1>4, <1>9, <2>1, <2>3
  <2>7. mem' = page_insert([Used(m, p, "user") EXCEPT !.data[p] = m.data[q]],
                           work.pgdir, p, la, bits).mem
    BY <2>2, <2>5, <2>6, Zenon DEF CopiedPage
  <2>8. Keeps(m, mem')
    BY <1>2, <2>4, <2>5, <2>2, <2>7, CopyKeeps
  <2>9. Keeps(mem, mem')
    BY <2>4, <2>8, KeepsTwice
  <2> QED BY <1>5, <1>9, <2>9
<1> QED
  <2> HIDE DEF Goto, g, la, from
  <2> QED BY <1>1, <1>6, <1>7, <1>8, <1>9

\* user_mem_check() only changes which area was found last.
LEMMA PageMemCheckRound ==
    ASSUME AreaInv, PageInv, MemCheckRound
    PROVE  PageInv'
<1>1. /\ pc = "check" /\ mem' = mem /\ work' = work /\ spoiled' = spoiled
      /\ pc' \in {"check", "yes", "no"}
      /\ \/ mm' = mm
         \/ mm' = [mm EXCEPT ![call.proc] = found(mm[call.proc], call.start)]
  BY DEF MemCheckRound
<1>2. PICK s \in Space : s = call.proc
  BY <1>1, Before DEF Calling, InCall
<1>3. /\ mm \in [Space -> mm_struct \cup {NULL}] /\ mm[s] # NULL /\ IsSpace(mm[s])
      /\ mm[s] \in mm_struct /\ call.start \in Int
  BY <1>1, <1>2, Before DEF AreaInv, Spaces, MemChecking, Checking, IsSpace, CallType
<1>4. PICK v : v = found(mm[s], call.start) /\ v # NULL /\ v.pgdir = mm[s].pgdir
  BY <1>3, Found, SamePgdir, Constants DEF IsSpace
<1>5. SameDirs(mm, work, mm', work')
  BY <1>1, <1>2, <1>3, <1>4 DEF SameDirs
<1>6. Cursor'
  BY <1>1 DEF Cursor
<1> QED BY <1>1, <1>5, <1>6, PageIdle DEF Places

\* A step that looks at the areas or at nothing.
LEMMA PageLook ==
    ASSUME AreaInv, PageInv,
           \/ UserMain \/ MemCheckReturn
           \/ \E s \in Space, c \in Checks, write \in BOOLEAN : MemCheck(s, c[1], c[2], write)
    PROVE  PageInv'
<1>1. /\ pc # "boot" /\ mem' = mem /\ mm' = mm /\ work' = work /\ spoiled' = spoiled
      /\ pc' \in {"load", "user", "check", "no"}
  BY DEF UserMain, MemCheckReturn, MemCheck
<1>2. SameDirs(mm, work, mm', work') /\ Cursor'
  BY <1>1, SameSpaces DEF Cursor
<1> QED BY <1>1, <1>2, PageIdle DEF Places

\* A store changes the bytes of a page.
LEMMA PageStore ==
    ASSUME AreaInv, PageInv, NEW s \in Space, NEW a \in StoreAddr, Store(s, a)
    PROVE  PageInv'
<1>1. /\ pc = "user" /\ mm[s] # NULL /\ mm' = mm /\ work' = work /\ pc' = pc
      /\ spoiled' = spoiled
  BY DEF Store
<1>2. PICK e : /\ e = pte(mem, mm[s].pgdir, a) /\ e # NULL
               /\ mem' = [mem EXCEPT !.data[e.page][a % PGSIZE] = Written]
  BY DEF Store
<1>3. Good(mem) /\ mm[s].pgdir \in Dirs(mem) /\ spoiled \in BOOLEAN
  BY <1>1, Trees
<1>4. a \in Nat /\ a < UserTop
  BY ProgramAssumption, Constants
<1>5. PICK p \in Page : p = e.page
  BY <1>2, <1>3, <1>4, PteEntry
<1>6. mem.data \in [Page -> [0 .. PGSIZE - 1 -> Int]]
  BY <1>3 DEF Good, Memory
<1>7. PICK d : d = [mem.data[p] EXCEPT ![a % PGSIZE] = Written]
  OBVIOUS
<1>8. d \in [0 .. PGSIZE - 1 -> Int]
  BY <1>6, <1>7, ProgramAssumption
<1>9. mem' = Wrote(mem, p, d)
  BY <1>2, <1>5, <1>7, Zenon DEF Wrote
<1>10. Keeps(mem, mem')
  BY <1>3, <1>8, <1>9, DataKeeps
<1>11. SameDirs(mm, work, mm', work') /\ Cursor'
  BY <1>1, SameSpaces DEF Cursor
<1> QED BY <1>1, <1>3, <1>10, <1>11, PageKept DEF Places

\* Nothing happens.
LEMMA PageStutter ==
    ASSUME PageInv, UNCHANGED vars
    PROVE  PageInv'
BY DEF PageInv, BootInv, Cursor, Filling, SrcArea, ph, Segments, vars

-----------------------------------------------------------------------------
\* All pages are free when the tests begin.
LEMMA PageInit ==
    ASSUME Init
    PROVE  PageInv
<1>1. AllFree(mem)
  <2>1. mem = [use |-> [p \in Page |-> "free"], ref |-> [p \in Page |-> 0],
               entry |-> [t \in Page \cup {boot_pgdir} |->
                             IF t = boot_pgdir THEN NoEntries ELSE JunkEntries(t)],
               data |-> [p \in Page |-> JunkBytes]]
    BY DEF Init
  <2>2. /\ mem.use = [p \in Page |-> "free"] /\ mem.ref = [p \in Page |-> 0]
        /\ mem.entry = [t \in Page \cup {boot_pgdir} |->
                           IF t = boot_pgdir THEN NoEntries ELSE JunkEntries(t)]
        /\ mem.data = [p \in Page |-> JunkBytes]
    BY <2>1
  <2>3. mem.entry \in [Page \cup {boot_pgdir} -> [Index -> PTE]]
    BY <2>2, PageFacts
  <2>4. mem.data \in [Page -> [0 .. PGSIZE - 1 -> Int]]
    BY <2>2, PageFacts
  <2>5. mem.use \in [Page -> {"free", "user"} \cup Table] /\ mem.ref \in [Page -> Nat]
    BY <2>2
  <2>6. mem = [use |-> mem.use, ref |-> mem.ref, entry |-> mem.entry, data |-> mem.data]
    BY <2>1
  <2>7. mem \in Memory
    BY <2>3, <2>4, <2>5, <2>6 DEF Memory
  <2> QED BY <2>2, <2>7 DEF AllFree
<1>2. TestVars(call, 0, NULL)
  <2>1. call = NoCall
    BY DEF Init
  <2>2. PICK c : c = [NoCall EXCEPT !.i = 0, !.page = NULL]
    OBVIOUS
  <2>3. c = NoCall
    BY <2>2 DEF NoCall
  <2> QED BY <2>1, <2>2, <2>3, Zenon DEF TestVars
<1>3. Tests(mem, 0, NULL)
  BY <1>1 DEF Tests
<1>4. BootInv
  BY <1>2, <1>3 DEF BootInv
<1> QED BY <1>4 DEF Init, PageInv, Cursor, Places

\* A step of a call.
LEMMA PageRun ==
    ASSUME AreaInv, PageInv, Run
    PROVE  PageInv'
BY PageUnmap, PageExitRange, PageLoad, PageLoadSegment, PageLoadBadMagic, PageLoadFile,
   PageLoadEdge, PageLoadBss, PageLoadStack, PageLoadStackPage, PageDone, PageDupArea,
   PageCopyRange, PageMemCheckRound, PageLook
DEF Run

\* In every memory, the tables of the processes are trees, and copy_range(),
\* exit_mmap() and the loops of load_icode() stay in the area they work on.
THEOREM PageInvariant == IdealSpec => []PageInv
<1>1. Init => PageInv
  BY PageInit
<1>2. AreaInv /\ PageInv /\ [Next]_vars => PageInv'
  <2> SUFFICES ASSUME AreaInv, PageInv, [Next]_vars PROVE PageInv'
    OBVIOUS
  <2>1. CASE Boot
    BY <2>1, PageBoot
  <2>2. CASE Run
    BY <2>2, PageRun
  <2>3. CASE Begin
    <3>1. CASE UserMain
      BY <3>1, PageLook
    <3>2. ASSUME NEW s \in Space, Exit(s) \/ Exec(s) PROVE PageInv'
      BY <3>2, PageExecExit
    <3>3. ASSUME NEW s \in Space, NEW t \in Space, Fork(s, t) PROVE PageInv'
      BY <3>3, PageFork
    <3>4. ASSUME NEW s \in Space, NEW a \in StoreAddr, Store(s, a) PROVE PageInv'
      BY <3>4, PageStore
    <3>5. ASSUME NEW s \in Space, NEW c \in Checks, NEW write \in BOOLEAN,
                 MemCheck(s, c[1], c[2], write)
          PROVE  PageInv'
      BY <3>5, PageLook
    <3> QED BY <2>3, <3>1, <3>2, <3>3, <3>4, <3>5 DEF Begin
  <2>4. CASE Stopped
    BY <2>4, PageStutter DEF Stopped
  <2>5. CASE UNCHANGED vars
    BY <2>5, PageStutter
  <2> QED BY <2>1, <2>2, <2>3, <2>4, <2>5 DEF Next
<1> QED BY <1>1, <1>2, AreaInvariant, PTL DEF IdealSpec

-----------------------------------------------------------------------------
\* The variables have their types.
LEMMA Typed ==
    ASSUME AreaInv, PageInv, mem \in Memory
    PROVE  TypeOK
<1>1. /\ mem.use \in [Page -> {"free", "pgdir", "pd0", "pt", "user"}]
      /\ mem.ref \in [Page -> Nat]
      /\ mem.entry \in [Page \cup {boot_pgdir} -> [Index -> PTE]]
      /\ mem.data \in [Page -> [0 .. PGSIZE - 1 -> Int]]
  <2>1. {"free", "user"} \cup Table = {"free", "pgdir", "pd0", "pt", "user"}
    BY DEF Table
  <2> QED BY <2>1 DEF Memory
<1>2. ASSUME NEW sp \in ({mm[s] : s \in Space} \cup {work}) \ {NULL}, NEW vma \in Range(sp.mmap_list)
      PROVE  vma.vm_start \in Addr /\ vma.vm_end - 1 \in Addr
  <2>1. IsSpace(sp)
    BY DEF AreaInv, Spaces
  <2>2. vma \in vma_struct /\ InUserMemory(vma)
    BY <1>2, <2>1, SpaceFacts
  <2> QED BY <2>2, Constants DEF vma_struct, InUserMemory, Addr
<1>3. spoiled \in BOOLEAN /\ pc \in Places
  BY DEF PageInv
<1> QED BY <1>1, <1>2, <1>3 DEF TypeOK, Places

\* What the page directory of a process leads to are tables.
LEMMA TablesAre ==
    ASSUME Good(mem), NEW root \in Dirs(mem), NEW t \in Tables(root)
    PROVE  t \in Page /\ mem.use[t] \in Table
<1>1. root \in Page /\ mem.use[root] = "pgdir"
  BY DEF Dirs
<1> DEFINE pd0s == {e.page : e \in {mem.entry[root][i] : i \in Index} \ {NULL}}
<1>2. ASSUME NEW d \in pd0s PROVE d \in Page /\ mem.use[d] = "pd0"
  <2>1. PICK i \in Index : mem.entry[root][i] # NULL /\ d = mem.entry[root][i].page
    OBVIOUS
  <2>2. IsSlot(mem, root, i) /\ d = Aim(mem, root, i)
    BY <1>1, <2>1 DEF IsSlot, Aim, Table
  <2> QED BY <1>1, <2>1, <2>2, SlotFacts DEF Child
<1>3. ASSUME NEW d \in pd0s, NEW i \in Index, mem.entry[d][i] # NULL
      PROVE  mem.entry[d][i].page \in Page /\ mem.use[mem.entry[d][i].page] = "pt"
  <2>1. IsSlot(mem, d, i) /\ d \in Page /\ mem.use[d] = "pd0"
    BY <1>2, <1>3 DEF IsSlot, Table
  <2>2. Aim(mem, d, i) \in Page /\ mem.use[Aim(mem, d, i)] = "pt"
    BY <2>1, SlotFacts DEF Child
  <2> QED BY <2>2 DEF Aim
<1>4. \/ t = root \/ t \in pd0s
      \/ \E d \in pd0s, i \in Index : mem.entry[d][i] # NULL /\ t = mem.entry[d][i].page
  BY DEF Tables
<1> HIDE DEF pd0s
<1> QED BY <1>1, <1>2, <1>3, <1>4 DEF Table

\* Without a table nothing is referred to.
LEMMA NoSlots ==
    ASSUME mem.entry[boot_pgdir] = NoEntries
    PROVE  Slots(boot_pgdir) = {}
<1>1. \A i \in Index : mem.entry[boot_pgdir][i] = NULL
  BY DEF NoEntries
<1>2. Tables(boot_pgdir) = {boot_pgdir}
  BY <1>1 DEF Tables
<1> QED BY <1>1, <1>2 DEF Slots

\* All references are those of the trees.
LEMMA SlotsAre ==
    ASSUME Rooted(mem, mm, work), NEW s \in AllSlots
    PROVE  /\ s \in Page \X Index /\ IsSlot(mem, s[1], s[2])
           /\ Target(s) = Aim(mem, s[1], s[2])
<1>1. Good(mem) /\ Roots = Dirs(mem) /\ Slots(boot_pgdir) = {}
  BY NoSlots DEF Rooted, Roots, RootsOf
<1>2. PICK root \in Dirs(mem) : s \in Slots(root)
  BY <1>1 DEF AllSlots
<1>3. /\ s \in Tables(root) \X Index /\ mem.entry[s[1]][s[2]] # NULL
  BY <1>2 DEF Slots
<1>4. s[1] \in Page /\ mem.use[s[1]] \in Table
  BY <1>1, <1>3, TablesAre
<1> QED BY <1>3, <1>4 DEF IsSlot, Aim, Target

\* The pages are exact when the tests are done,
LEMMA TreesExact ==
    ASSUME AreaInv, PageInv, pc # "boot"
    PROVE  PagesExact
<1>1. Rooted(mem, mm, work) /\ Good(mem) /\ mem \in Memory /\ Roots = Dirs(mem)
  BY DEF PageInv, Rooted, Good, Roots, RootsOf
<1>2. ASSUME NEW s \in AllSlots
      PROVE  /\ Target(s) \in Page /\ mem.use[Target(s)] \in {"pd0", "pt", "user"}
             /\ mem.ref[Target(s)] = 1
             /\ \A r \in AllSlots : Target(r) = Target(s) => r = s
  <2>1. /\ s \in Page \X Index /\ IsSlot(mem, s[1], s[2]) /\ Target(s) = Aim(mem, s[1], s[2])
    BY <1>1, SlotsAre
  <2>2. /\ Target(s) \in Page /\ mem.use[Target(s)] = Child(mem.use[s[1]])
        /\ mem.ref[Target(s)] = 1
    BY <1>1, <2>1, SlotFacts
  <2>3. mem.use[Target(s)] \in {"pd0", "pt", "user"}
    BY <2>2 DEF Child
  <2>4. ASSUME NEW r \in AllSlots, Target(r) = Target(s) PROVE r = s
    <3>1. /\ r \in Page \X Index /\ IsSlot(mem, r[1], r[2]) /\ Target(r) = Aim(mem, r[1], r[2])
      BY <1>1, SlotsAre
    <3>2. r[1] = s[1] /\ r[2] = s[2]
      <4>1. PICK t \in Page, i \in Index : t = s[1] /\ i = s[2]
        BY <2>1
      <4>2. PICK u \in Page, j \in Index : u = r[1] /\ j = r[2]
        BY <3>1
      <4>3. IsSlot(mem, t, i) /\ IsSlot(mem, u, j) /\ Aim(mem, t, i) = Aim(mem, u, j)
        BY <2>1, <2>4, <3>1, <4>1, <4>2
      <4>4. t = u /\ i = j
        BY <1>1, <4>3 DEF Good
      <4> QED BY <4>1, <4>2, <4>4
    <3> QED BY <2>1, <3>1, <3>2
  <2> QED BY <2>2, <2>3, <2>4
<1>3. ASSUME NEW p \in Owned
      PROVE  /\ p \notin Free(mem)
             /\ mem.ref[p] = Cardinality({s \in AllSlots : Target(s) = p})
             /\ mem.use[p] = "pgdir" <=> p \in Roots
             /\ mem.use[p] \in {"pd0", "pt"} => mem.ref[p] = 1
  <2>1. CASE p \in Roots
    <3>1. p \in Page /\ mem.use[p] = "pgdir" /\ mem.ref[p] = 0
      BY <1>1, <2>1 DEF Dirs, Good
    <3>2. {s \in AllSlots : Target(s) = p} = {}
      BY <1>2, <3>1
    <3>3. Cardinality({}) = 0
      BY FS_EmptySet
    <3> QED BY <2>1, <3>1, <3>2, <3>3 DEF Free
  <2>2. CASE p \notin Roots
    <3>1. PICK s \in AllSlots : p = Target(s)
      BY <2>2 DEF Owned
    <3>2. {r \in AllSlots : Target(r) = p} = {s}
      BY <1>2, <3>1
    <3>3. Cardinality({s}) = 1
      BY FS_Singleton
    <3> QED BY <1>2, <2>2, <3>1, <3>2, <3>3 DEF Free
  <2> QED BY <2>1, <2>2
<1>4. TypeOK
  BY <1>1, Typed
<1> QED BY <1>3, <1>4 DEF PagesExact

\* and during them: the references of the tests,
LEMMA TestSlots ==
    ASSUME NEW d, NEW t, NEW e, BootTables(mem, d, t, e, NULL, 0), NEW s
    PROVE  s \in Slots(boot_pgdir) <=> \/ s = <<boot_pgdir, 0>> \/ s = <<d, 0>>
                                       \/ \E j \in {0, 1} : e[j] # NULL /\ s = <<t, j>>
<1>1. TestTable(d, t, e) /\ BootEntries(mem, d, t, e)
  BY DEF BootTables
<1>2. /\ \A p \in Page : pte_create(p, {"U"}) # NULL /\ pte_create(p, {"U"}).page = p
      /\ 0 \in Index /\ 1 \in Index /\ \A i \in Index : i \in Nat
  BY PageFacts, BootIndexes DEF Perm
<1>3. \A i \in Index :
         /\ mem.entry[boot_pgdir][i] # NULL <=> i = 0
         /\ mem.entry[d][i] # NULL <=> i = 0
         /\ mem.entry[t][i] = e[i] /\ (e[i] # NULL => i \in {0, 1})
  <2>1. \A i \in Index : NoEntries[i] = NULL
    BY DEF NoEntries
  <2>2. \A i \in Index, p \in Page :
           [NoEntries EXCEPT ![0] = pte_create(p, {"U"})][i] # NULL <=> i = 0
    BY <1>2, <2>1, PageFacts
  <2>3. \A i \in Index : e[i] # NULL => i \in {0, 1}
    BY <1>1, <1>2 DEF TestTable
  <2> QED BY <1>1, <2>2, <2>3 DEF BootEntries, TestTable
<1>4. mem.entry[boot_pgdir][0].page = d /\ mem.entry[d][0].page = t
  BY <1>1, <1>2, PageFacts DEF BootEntries, TestTable
<1>5. Tables(boot_pgdir) = {boot_pgdir, d, t}
  <2> DEFINE pd0s == {a.page : a \in {mem.entry[boot_pgdir][i] : i \in Index} \ {NULL}}
             pts == {a.page : a \in {mem.entry[c][i] : c \in pd0s, i \in Index} \ {NULL}}
  <2>1. pd0s = {d}
    BY <1>2, <1>3, <1>4
  <2>2. pts = {t}
    <3> HIDE DEF pd0s
    <3> QED BY <1>2, <1>3, <1>4, <2>1
  <2>3. Tables(boot_pgdir) = {boot_pgdir} \cup pd0s \cup pts
    BY DEF Tables
  <2> HIDE DEF pd0s, pts
  <2> QED BY <2>1, <2>2, <2>3
<1> QED BY <1>2, <1>3, <1>5 DEF Slots

\* what they refer to, and how often.
LEMMA TestTargets ==
    ASSUME NEW d, NEW t, NEW e, BootTables(mem, d, t, e, NULL, 0)
    PROVE  /\ Target(<<boot_pgdir, 0>>) = d /\ Target(<<d, 0>>) = t
           /\ \A j \in {0, 1} : Target(<<t, j>>) = e[j].page
<1>1. TestTable(d, t, e) /\ BootEntries(mem, d, t, e)
  BY DEF BootTables
<1>2. NoEntries \in [Index -> PTE] /\ 0 \in Index
  BY PageFacts, BootIndexes
<1>3. /\ mem.entry[boot_pgdir][0] = pte_create(d, {"U"})
      /\ mem.entry[d][0] = pte_create(t, {"U"}) /\ mem.entry[t] = e
  BY <1>1, <1>2 DEF BootEntries
<1>4. pte_create(d, {"U"}).page = d /\ pte_create(t, {"U"}).page = t
  BY DEF pte_create
<1> QED BY <1>3, <1>4 DEF Target

\* A page has the count of its references.
LEMMA TestRefs ==
    ASSUME NEW d, NEW t, NEW e, BootTables(mem, d, t, e, NULL, 0),
           NEW p \in {Target(s) : s \in Slots(boot_pgdir)},
           NEW R, R = {s \in Slots(boot_pgdir) : Target(s) = p}
    PROVE  p \in Page /\ mem.ref[p] = Cardinality(R) /\ mem.use[p] \in {"pd0", "pt", "user"}
           /\ (mem.use[p] \in {"pd0", "pt"} => mem.ref[p] = 1)
<1>1. TestTable(d, t, e) /\ BootPages(mem, d, t, e, NULL, 0)
  BY DEF BootTables
<1>2. /\ boot_pgdir # d /\ boot_pgdir # t /\ d # t /\ d \in Page /\ t \in Page
      /\ \A j \in {0, 1} : e[j] # NULL => e[j].page \in Page \ {d, t}
      /\ NULL \notin Page
  BY <1>1, PageFacts, BootIndexes, PageTableAssumption DEF TestTable, Page
<1>3. /\ Target(<<boot_pgdir, 0>>) = d /\ Target(<<d, 0>>) = t
      /\ \A j \in {0, 1} : Target(<<t, j>>) = e[j].page
  BY TestTargets
<1>4. \A s : s \in Slots(boot_pgdir) <=>
          \/ s = <<boot_pgdir, 0>> \/ s = <<d, 0>>
          \/ \E j \in {0, 1} : e[j] # NULL /\ s = <<t, j>>
  BY TestSlots
<1>5. PICK a, b, c, f : a = <<boot_pgdir, 0>> /\ b = <<d, 0>> /\ c = <<t, 0>> /\ f = <<t, 1>>
  OBVIOUS
<1>6. a # b /\ a # c /\ a # f /\ b # c /\ b # f /\ c # f
  BY <1>2, <1>5
<1>7. \A s : s \in Slots(boot_pgdir) <=>
          s = a \/ s = b \/ (s = c /\ e[0] # NULL) \/ (s = f /\ e[1] # NULL)
  BY <1>4, <1>5
<1>8. Target(a) = d /\ Target(b) = t /\ Target(c) = e[0].page /\ Target(f) = e[1].page
  BY <1>3, <1>5
<1>9. \A x : IsFiniteSet({x}) /\ Cardinality({x}) = 1
  BY FS_Singleton
<1>10. CASE p = d
  <2>1. R = {a}
    BY <1>2, <1>6, <1>7, <1>8, <1>10
  <2> QED BY <1>1, <1>2, <1>9, <1>10, <2>1 DEF BootPages
<1>11. CASE p = t
  <2>1. R = {b}
    BY <1>2, <1>6, <1>7, <1>8, <1>11
  <2> QED BY <1>1, <1>2, <1>9, <1>11, <2>1 DEF BootPages
<1>12. CASE p \notin {d, t}
  <2>1. PICK s \in Slots(boot_pgdir) : p = Target(s)
    OBVIOUS
  <2>2. \/ e[0] # NULL /\ e[0].page = p
        \/ e[1] # NULL /\ e[1].page = p
    BY <1>7, <1>8, <1>12, <2>1
  <2>3. p \in Page \ {d, t}
    BY <1>2, <2>2
  <2>4. Uses(e, p) \in {1, 2}
    BY <2>2 DEF Uses
  <2>5. mem.use[p] = "user" /\ mem.ref[p] = Uses(e, p)
    BY <1>1, <1>2, <2>3, <2>4 DEF BootPages
  <2>6. Cardinality(R) = Uses(e, p)
    <3>1. CASE e[0] # NULL /\ e[0].page = p /\ e[1] # NULL /\ e[1].page = p
      <4>1. R = {c} \cup {f}
        BY <1>7, <1>8, <1>12, <3>1
      <4>2. Cardinality({c} \cup {f}) = Cardinality({c}) + 1
        BY <1>6, <1>9, FS_AddElement
      <4> QED BY <1>9, <3>1, <4>1, <4>2 DEF Uses
    <3>2. CASE e[0] # NULL /\ e[0].page = p /\ ~(e[1] # NULL /\ e[1].page = p)
      <4>1. R = {c}
        BY <1>7, <1>8, <1>12, <3>2
      <4> QED BY <1>9, <3>2, <4>1 DEF Uses
    <3>3. CASE ~(e[0] # NULL /\ e[0].page = p) /\ e[1] # NULL /\ e[1].page = p
      <4>1. R = {f}
        BY <1>7, <1>8, <1>12, <3>3
      <4> QED BY <1>9, <3>3, <4>1 DEF Uses
    <3> QED BY <2>2, <3>1, <3>2, <3>3
  <2> QED BY <2>3, <2>5, <2>6
<1> QED BY <1>10, <1>11, <1>12

\* The pages are exact during the tests.
LEMMA TestsExact ==
    ASSUME AreaInv, PageInv, pc = "boot"
    PROVE  PagesExact
<1>1. PICK i \in 0 .. 8, p \in Page \cup {NULL} : Tests(mem, i, p)
  BY DEF PageInv, BootInv
<1>2. Roots = {}
  BY DEF AreaInv, Spaces, Building, Loading, Copying, Roots
<1>3. AllSlots = Slots(boot_pgdir) /\ Owned = {Target(s) : s \in Slots(boot_pgdir)}
  BY <1>2 DEF AllSlots, Owned
<1>4. CASE AllFree(mem)
  <2>1. mem \in Memory /\ Slots(boot_pgdir) = {}
    BY <1>4, NoSlots DEF AllFree
  <2>2. Owned = {}
    BY <1>3, <2>1
  <2>3. TypeOK
    BY <2>1, Typed
  <2> QED BY <2>2, <2>3 DEF PagesExact
<1>5. CASE \E d, t, e : BootTables(mem, d, t, e, NULL, 0)
  <2>1. PICK d, t, e : BootTables(mem, d, t, e, NULL, 0)
    BY <1>5
  <2>2. TypeOK
    BY <2>1, Typed DEF BootTables
  <2>3. ASSUME NEW q \in Owned
        PROVE  /\ q \notin Free(mem) /\ q \notin Roots
               /\ mem.ref[q] = Cardinality({s \in AllSlots : Target(s) = q})
               /\ mem.use[q] # "pgdir"
               /\ mem.use[q] \in {"pd0", "pt"} => mem.ref[q] = 1
    <3>1. PICK R : R = {s \in Slots(boot_pgdir) : Target(s) = q}
      OBVIOUS
    <3>2. /\ mem.ref[q] = Cardinality(R) /\ mem.use[q] \in {"pd0", "pt", "user"}
          /\ mem.use[q] \in {"pd0", "pt"} => mem.ref[q] = 1
      BY <1>3, <2>1, <3>1, TestRefs
    <3> QED BY <1>2, <1>3, <3>1, <3>2 DEF Free
  <2> QED BY <2>2, <2>3 DEF PagesExact
<1> QED BY <1>1, <1>4, <1>5 DEF Tests

\* No page in use is free, every page has the count of its references, a table
\* exactly one and a page directory none: after every step of the boot checks, of
\* load_icode(), copy_mm(), exit_mmap() and exit_range(), and of page_insert() and
\* page_remove(), however they end.
THEOREM PagesAreExact == IdealSpec => []PagesExact
<1>1. AreaInv /\ PageInv => PagesExact
  BY TreesExact, TestsExact
<1> QED BY <1>1, AreaInvariant, PageInvariant, PTL

=============================================================================
