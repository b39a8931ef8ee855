---------------------------- MODULE AddressSpace ----------------------------
(***************************************************************************)
(* User address spaces: the areas of kern/mm/vmm.c, the page tables they   *)
(* are backed by (module PageTable), and their life in kern/process/proc.c:*)
(* load_icode() builds one, copy_mm() copies one, do_execve() and do_exit()*)
(* tear one down.                                                          *)
(*                                                                         *)
(* Interrupts are masked in a system call and none of these calls          *)
(* schedule(), so one call runs at a time; a step is one round of a loop   *)
(* of the call.  kmalloc() may fail at any time, and pages run out; the    *)
(* page allocator is an intact one, see PageTable.  What is shown of       *)
(* IdealSpec holds of the kernel with default_pmm.c as long as the last    *)
(* page is free: SpareSpec.                                                *)
(***************************************************************************)
EXTENDS PageTable, SequencesExt

CONSTANTS
    Space,          \* the processes
    user_main,      \* the first one
    Programs,       \* ELF files: [magic, segments], a segment being
                    \* [va, filesz, memsz, flags, offset] in bytes
    UserBase,       \* USERBASE
    UserTop,        \* USERTOP, where the stack area ends
    WordSize,       \* 2^64: addresses and sizes are computed modulo that
    StackSize,      \* USTACKSIZE
    StackMapped,    \* how many pages of the stack load_icode() maps (4)
    Written,        \* what a user program stores
    StoreAddr,      \* the addresses it stores to,
    Checks          \* and the intervals that are checked

ASSUME AddressSpaceAssumption ==
    /\ user_main \in Space /\ NULL \notin Space
    /\ {UserBase, UserTop, StackSize, StackMapped} \subseteq Nat
    /\ UserBase % PGSIZE = 0 /\ StackSize % PGSIZE = 0 /\ UserTop % PTSIZE = 0
    /\ 0 < UserBase /\ UserBase < UserTop - StackSize
    /\ StackMapped * PGSIZE < StackSize
    /\ UserTop <= NEntry * PDSIZE
    /\ WordSize \in Nat /\ UserTop + PGSIZE <= WordSize

Word(n) == n % WordSize

VmFlags == {"READ", "WRITE", "EXEC", "STACK"}
vma_struct == [vm_start : Int, vm_end : Int, vm_flags : SUBSET VmFlags]
mm_struct == [pgdir : Page, mmap_list : Seq(vma_struct), mmap_cache : vma_struct \cup {NULL}]
Segment == [va : Nat, filesz : Nat, memsz : Nat, flags : SUBSET (VmFlags \ {"STACK"}),
            offset : Nat]

\* The numbers in a file are any, except that no segment goes on past the end of
\* the address space.  load_icode() and mm_map() do not look for that: they let
\* the end wrap around, and the area made may be one page for 2^64 - 1 bytes.
\* The programs there are, linked into the kernel, are what the linker made.
ASSUME ProgramAssumption ==
    /\ \A prog \in Programs : prog.magic \in BOOLEAN /\ prog.segments \in Seq(Segment)
    /\ \A prog \in Programs : \A k \in DOMAIN prog.segments :
          LET p == prog.segments[k]
          IN  p.filesz <= p.memsz => p.va + p.memsz + PGSIZE <= WordSize
    /\ Checks \subseteq Nat \X Nat /\ Written \in Int
    /\ StoreAddr \subseteq UserBase .. UserTop - 1

ASSUME NullAssumption == NULL \notin vma_struct \cup mm_struct \cup [page : Page, perm : Perm]

Addr == UserBase .. UserTop - 1

\* Nor is it the memory of a process, see Image, or what a call asks for.
ASSUME ImageAssumption ==
    /\ \A S \in SUBSET Addr : NULL \notin [S -> Int]
    /\ NULL \notin [op : {"exec"}, proc : Space, prog : Programs]
    /\ NULL \notin [op : {"fork"}, proc : Space, src : Space]

VARIABLES
    mem,        \* physical memory, see PageTable
    mm,         \* proc->mm: the areas, the last one found, the page table
    work,       \* the mm that the call in progress builds or tears down
    pc,         \* where that call is
    call,       \* its local variables
    spoiled     \* history: an untidy address space (see Tidy) was torn down

vars == <<mem, mm, work, pc, call, spoiled>>

\* proc     the process the call is for     src      its parent, in fork
\* prog     the program to load             then     what follows a teardown
\* i        a segment, area or page number  start, la, page, write: as in C
NoCall == [proc |-> NULL, src |-> NULL, prog |-> NULL, then |-> "none", i |-> 0,
           start |-> 0, end |-> 0, la |-> 0, page |-> NULL, write |-> FALSE]

USER_ACCESS(start, end) == UserBase <= start /\ start < end /\ end <= UserTop

Init ==
    /\ mem = [use |-> [p \in Page |-> "free"], ref |-> [p \in Page |-> 0],
              entry |-> [t \in Page \cup {boot_pgdir} |->
                            IF t = boot_pgdir THEN NoEntries ELSE JunkEntries(t)],
              data |-> [p \in Page |-> JunkBytes]]
    /\ mm = [s \in Space |-> NULL]
    /\ work = NULL /\ pc = "boot" /\ call = NoCall /\ spoiled = FALSE

-----------------------------------------------------------------------------
\* check_pgdir() and check_boot_pgdir() try the tables before there is any
\* process: call.i counts their steps, call.page is p1 (then p).
At(i) == pc = "boot" /\ call.i = i
NextCheck == /\ call' = [call EXCEPT !.i = @ + 1] /\ pc' = pc
             /\ UNCHANGED <<mm, work, spoiled>>

\* p1 is mapped at 0; check_boot_pgdir() maps it with other permissions.
BootFirst ==
    /\ At(0) \/ At(6)
    /\ LET p == alloc_page(mem)
       IN  /\ mem' = page_insert(Used(mem, p, "user"), boot_pgdir, p, 0,
                                 IF call.i = 0 THEN {} ELSE {"R", "W"}).mem
           /\ call' = [call EXCEPT !.i = @ + 1, !.page = p]
    /\ UNCHANGED <<mm, work, pc, spoiled>>

\* p2 is mapped behind it.
BootSecond ==
    /\ At(1)
    /\ LET p == alloc_page(mem)
       IN  mem' = page_insert(Used(mem, p, "user"), boot_pgdir, p, PGSIZE, {"U", "W"}).mem
    /\ NextCheck

\* p1 replaces p2; in check_boot_pgdir() there is none to replace, and a
\* string is stored through the second mapping.
BootShare ==
    /\ At(2) \/ At(7)
    /\ LET r == page_insert(mem, boot_pgdir, call.page, PGSIZE,
                            IF call.i = 2 THEN {} ELSE {"R", "W"})
       IN  mem' = IF call.i = 2 THEN r.mem
                  ELSE [r.mem EXCEPT !.data[call.page] =
                           [b \in DOMAIN @ |-> IF b = 0 THEN 0 ELSE Written]]
    /\ NextCheck

BootRemove ==
    /\ At(3) \/ At(4)
    /\ mem' = page_remove(mem, boot_pgdir, (call.i - 3) * PGSIZE)
    /\ NextCheck

\* The tables, and p in check_boot_pgdir(), are freed as they are.
BootFree ==
    /\ At(5) \/ At(8)
    /\ LET pd0 == mem.entry[boot_pgdir][0].page
           pages == {pd0, mem.entry[pd0][0].page} \cup (IF call.i = 8 THEN {call.page} ELSE {})
       IN  mem' = [free_page(mem, pages) EXCEPT !.entry[boot_pgdir][0] = NULL]
    /\ IF call.i = 5 THEN NextCheck
       ELSE pc' = "user_main" /\ call' = NoCall /\ UNCHANGED <<mm, work, spoiled>>

-----------------------------------------------------------------------------
vma_create(start, end, flags) == [vm_start |-> start, vm_end |-> end, vm_flags |-> flags]

Holds(vma, addr) == vma.vm_start <= addr /\ addr < vma.vm_end

\* find_vma(): the area found last, or the first one in the list that holds
\* addr.  Mutation: the end of the area found last is not looked at.
MutCacheEnd(m, addr) ==
    LET hits == {k \in DOMAIN m.mmap_list : Holds(m.mmap_list[k], addr)}
    IN  IF m.mmap_cache # NULL /\ m.mmap_cache.vm_start <= addr THEN m.mmap_cache
        ELSE IF hits = {} THEN NULL ELSE m.mmap_list[Min(hits)]
find_vma(m, addr) ==
    LET hits == {k \in DOMAIN m.mmap_list : Holds(m.mmap_list[k], addr)}
    IN  IF m.mmap_cache # NULL /\ Holds(m.mmap_cache, addr) THEN m.mmap_cache
        ELSE IF hits = {} THEN NULL ELSE m.mmap_list[Min(hits)]
\* The mm after find_vma().
found(m, addr) ==
    LET vma == find_vma(m, addr)
    IN  IF vma = NULL THEN m ELSE [m EXCEPT !.mmap_cache = vma]

\* check_vma_overlap(), whose assertions hold:
Apart(prev, next) == prev.vm_end <= next.vm_start

\* insert_vma_struct(): before the first area that starts above vma, if
\* check_vma_overlap() finds both neighbours apart.
\* Mutation: a loop that stops one area too late.
MutPastNext(m, vma) ==
    LET list == m.mmap_list
        above == {k \in DOMAIN list : list[k].vm_start > vma.vm_start}
        k == IF above = {} THEN Len(list) + 1 ELSE Min(above) + 1
    IN  [ok |-> k > Len(list) \/ Apart(vma, list[k]),
         mm |-> [m EXCEPT !.mmap_list = InsertAt(list, k, vma)]]
insert_vma_struct(m, vma) ==
    LET list == m.mmap_list
        above == {k \in DOMAIN list : list[k].vm_start > vma.vm_start}
        k == IF above = {} THEN Len(list) + 1 ELSE Min(above)
    IN  [ok |-> /\ k > 1 => Apart(list[k - 1], vma)
                /\ k <= Len(list) => Apart(vma, list[k]),
         mm |-> [m EXCEPT !.mmap_list = InsertAt(list, k, vma)]]

\* mm_map(), with `memory' saying whether vma_create() gets memory.  ROUNDUP()
\* wraps around as the sum does.
mm_map(m, addr, len, flags, memory) ==
    LET start == ROUNDDOWN(addr, PGSIZE)
        end == ROUNDDOWN(Word(addr + len + PGSIZE - 1), PGSIZE)
        looked == found(m, start)
        r == insert_vma_struct(looked, vma_create(start, end, flags))
    IN  IF ~USER_ACCESS(start, end) THEN [ret |-> "failed", mm |-> m]
        ELSE IF find_vma(m, start) # NULL THEN [ret |-> "failed", mm |-> looked]
        ELSE IF ~memory THEN [ret |-> "failed", mm |-> looked]
        ELSE IF ~r.ok THEN [ret |-> "panic", mm |-> looked]
        ELSE [ret |-> "ok", mm |-> r.mm]

-----------------------------------------------------------------------------
\* An address space is tidy if every area that reaches into a level 0
\* directory reaches all of its page tables, and has one in every region.
Tidy(m, sp) ==
    \A d1 \in Index : m.entry[sp.pgdir][d1] # NULL =>
        \A k \in DOMAIN sp.mmap_list :
            Visited(d1, sp.mmap_list[k].vm_start, sp.mmap_list[k].vm_end)
                \in {{}, {i \in Index : m.entry[m.entry[sp.pgdir][d1].page][i] # NULL}}

\* exit_mmap(sp), put_pgdir(sp), mm_destroy(sp) begin; m is the memory.
Teardown(m, sp, then) ==
    /\ mem' = m
    /\ work' = sp
    /\ pc' = "unmap" /\ call' = [call EXCEPT !.then = then, !.i = 1]
    /\ spoiled' = (spoiled \/ ~Tidy(m, sp))

\* The first loop of exit_mmap().
Unmap ==
    /\ pc = "unmap"
    /\ IF call.i <= Len(work.mmap_list)
       THEN /\ LET vma == work.mmap_list[call.i]
               IN  mem' = unmap_range(mem, work.pgdir, vma.vm_start, vma.vm_end)
            /\ call' = [call EXCEPT !.i = @ + 1] /\ pc' = pc
       ELSE mem' = mem /\ pc' = "exit_range" /\ call' = [call EXCEPT !.i = 1]
    /\ UNCHANGED <<mm, work, spoiled>>

put_pgdir == mem' = free_page(mem, {work.pgdir})
mm_destroy == work' = NULL

\* The second loop, put_pgdir() and mm_destroy(); do_execve() goes on to load.
ExitRange ==
    /\ pc = "exit_range"
    /\ IF call.i <= Len(work.mmap_list)
       THEN /\ LET vma == work.mmap_list[call.i]
               IN  mem' = exit_range(mem, work.pgdir, vma.vm_start, vma.vm_end)
            /\ call' = [call EXCEPT !.i = @ + 1]
            /\ UNCHANGED <<work, pc>>
       ELSE /\ put_pgdir /\ mm_destroy
            /\ IF call.then = "load"
               THEN pc' = "load" /\ call' = [call EXCEPT !.then = "none", !.i = 0]
               ELSE pc' = "user" /\ call' = NoCall
    /\ UNCHANGED <<mm, spoiled>>

-----------------------------------------------------------------------------
\* user_main() has no address space yet.
UserMain ==
    /\ pc = "user_main"
    /\ call' = [NoCall EXCEPT !.proc = user_main]
    /\ pc' = "load"
    /\ UNCHANGED <<mem, mm, work, spoiled>>

\* do_execve(): the old address space goes first.  (The program is an argument
\* of the call, but looked at only when that is done, in Load.)
Exec(s) ==
    /\ pc = "user" /\ mm[s] # NULL
    /\ mm' = [mm EXCEPT ![s] = NULL]
    /\ work' = mm[s] /\ mem' = mem
    /\ pc' = "unmap"
    /\ call' = [NoCall EXCEPT !.proc = s, !.then = "load", !.i = 1]
    /\ spoiled' = (spoiled \/ ~Tidy(mem, mm[s]))

\* do_exit()
Exit(s) ==
    /\ pc = "user" /\ mm[s] # NULL
    /\ mm' = [mm EXCEPT ![s] = NULL]
    /\ work' = mm[s] /\ mem' = mem
    /\ pc' = "unmap"
    /\ call' = [NoCall EXCEPT !.proc = s, !.then = "exited", !.i = 1]
    /\ spoiled' = (spoiled \/ ~Tidy(mem, mm[s]))

\* mm_create(), and setup_pgdir(), whose table has the entries of the kernel half.
mm_create(m) == [pgdir |-> alloc_page(m), mmap_list |-> <<>>, mmap_cache |-> NULL]
setup_pgdir(m) == [Used(m, alloc_page(m), "pgdir") EXCEPT !.entry[alloc_page(m)] = NoEntries]

\* load_icode() begins.  Without memory the process exits.
Load ==
    /\ pc = "load"
    /\ \/ /\ Free(mem) # {}
          /\ mem' = setup_pgdir(mem) /\ work' = mm_create(mem)
          /\ \E prog \in Programs : call' = [call EXCEPT !.prog = prog, !.i = 1]
          /\ pc' = "segment"
       \/ pc' = "user" /\ call' = NoCall /\ UNCHANGED <<mem, work>>
    /\ UNCHANGED <<mm, spoiled>>

Segments == call.prog.segments
ph == Segments[call.i]
file_end == Word(ph.va + ph.filesz)
mem_end == Word(ph.va + ph.memsz)

\* The permissions of the pages of a segment.
perm(flags) ==
    {"U"} \cup (IF "READ" \in flags THEN {"R"} ELSE {})
          \cup (IF "WRITE" \in flags THEN {"R", "W"} ELSE {})
          \cup (IF "EXEC" \in flags THEN {"X"} ELSE {})

\* The header of a segment: checks, and mm_map().
LoadSegment ==
    /\ pc = "segment" /\ call.prog.magic /\ call.i <= Len(Segments)
    /\ IF ph.filesz > ph.memsz THEN Teardown(mem, work, "load_failed")
       ELSE \E memory \in BOOLEAN :
            LET r == mm_map(work, ph.va, ph.memsz, ph.flags, memory)
            IN  CASE r.ret = "ok" ->
                       /\ work' = r.mm /\ pc' = "file"
                       /\ call' = [call EXCEPT !.start = ph.va,
                                               !.la = ROUNDDOWN(ph.va, PGSIZE)]
                       /\ UNCHANGED <<mem, spoiled>>
                  [] r.ret = "panic" -> pc' = "panic" /\ UNCHANGED <<mem, work, call, spoiled>>
                  [] OTHER -> Teardown(mem, r.mm, "load_failed")
    /\ UNCHANGED mm

LoadBadMagic ==
    /\ pc = "segment" /\ ~call.prog.magic
    /\ Teardown(mem, work, "load_failed")
    /\ UNCHANGED mm

\* The byte of the segment at address a: from the file, or 0.
SegmentByte(a, file) == IF file THEN ph.offset + (a - ph.va) ELSE 0

\* memcpy() or memset() to the addresses start .. start + size - 1 of the page
\* at la.
Filled(m, p, la, start, size, file) ==
    [m EXCEPT !.data[p] = [b \in 0 .. PGSIZE - 1 |->
        IF start <= la + b /\ la + b < start + size THEN SegmentByte(la + b, file) ELSE @[b]]]

\* One round of the loops that fill the pages of a segment up to `end'.
LoadPage(end, file) ==
    LET r == pgdir_alloc_page(mem, work.pgdir, call.la, perm(ph.flags))
        next == call.la + PGSIZE
        size == IF end < next THEN end - call.start ELSE next - call.start
    IN  IF r.page = NULL THEN Teardown(r.mem, work, "load_failed")
        ELSE /\ mem' = Filled(r.mem, r.page, call.la, call.start, size, file)
             /\ call' = [call EXCEPT !.la = next, !.start = @ + size, !.page = r.page]
             /\ UNCHANGED <<work, pc, spoiled>>

NextSegment == pc' = "segment" /\ call' = [call EXCEPT !.i = @ + 1, !.page = NULL]

\* What the file holds of the segment.
LoadFile ==
    /\ pc = "file" /\ call.start < file_end
    /\ LoadPage(file_end, TRUE)
    /\ UNCHANGED mm

\* The rest of the last page of it is cleared.  (With an end that has wrapped
\* around, the size would, too.)
LoadEdge ==
    /\ pc = "file" /\ call.start >= file_end
    /\ LET end == mem_end
           size == Word(IF end < call.la THEN end - call.start ELSE call.la - call.start)
           start == Word(call.start + size)
       IN  IF call.start >= call.la
           THEN pc' = "bss" /\ UNCHANGED <<mem, call>>
           ELSE IF call.start = end
           THEN NextSegment /\ mem' = mem
           ELSE /\ mem' = Filled(mem, call.page, call.la - PGSIZE, call.start, size, FALSE)
                /\ call' = [call EXCEPT !.start = start]
                /\ pc' = IF \/ end < call.la /\ start = end
                            \/ end >= call.la /\ start = call.la
                         THEN "bss" ELSE "panic"
    /\ UNCHANGED <<mm, work, spoiled>>

\* The pages that the file holds nothing of.
LoadBss ==
    /\ pc = "bss"
    /\ IF call.start < mem_end
       THEN LoadPage(mem_end, FALSE)
       ELSE NextSegment /\ UNCHANGED <<mem, work, spoiled>>
    /\ UNCHANGED mm

\* The stack area,
LoadStack ==
    /\ pc = "segment" /\ call.prog.magic /\ call.i > Len(Segments)
    /\ \E memory \in BOOLEAN :
       LET r == mm_map(work, UserTop - StackSize, StackSize, {"READ", "WRITE", "STACK"}, memory)
       IN  IF r.ret = "ok"
           THEN /\ work' = r.mm /\ pc' = "stack" /\ call' = [call EXCEPT !.i = 1]
                /\ UNCHANGED <<mem, spoiled>>
           ELSE IF r.ret = "panic"
           THEN pc' = "panic" /\ UNCHANGED <<mem, work, call, spoiled>>
           ELSE Teardown(mem, r.mm, "load_failed")
    /\ UNCHANGED mm

\* and its top pages, without which the kernel panics.  They are mapped with all
\* permissions, although the area has no VM_EXEC.
LoadStackPage ==
    /\ pc = "stack" /\ call.i <= StackMapped
    /\ LET r == pgdir_alloc_page(mem, work.pgdir, UserTop - call.i * PGSIZE, PTE_USER)
       IN  /\ mem' = r.mem
           /\ pc' = IF r.page = NULL THEN "panic" ELSE pc
    /\ call' = [call EXCEPT !.i = @ + 1]
    /\ UNCHANGED <<mm, work, spoiled>>

LoadDone ==
    /\ pc = "stack" /\ call.i > StackMapped
    /\ mm' = [mm EXCEPT ![call.proc] = work]
    /\ work' = NULL /\ pc' = "user" /\ call' = NoCall
    /\ UNCHANGED <<mem, spoiled>>

-----------------------------------------------------------------------------
\* copy_mm(), for do_fork(): nothing is left without memory for the table.
Fork(s, t) ==
    /\ pc = "user" /\ mm[s] # NULL /\ mm[t] = NULL
    /\ Free(mem) # {}
    /\ mem' = setup_pgdir(mem) /\ work' = mm_create(mem)
    /\ pc' = "dup"
    /\ call' = [NoCall EXCEPT !.proc = t, !.src = s, !.i = Len(mm[s].mmap_list)]
    /\ UNCHANGED <<mm, spoiled>>

SrcArea == mm[call.src].mmap_list[call.i]

\* dup_mmap(): one area, from the last to the first.
DupArea ==
    /\ pc = "dup" /\ call.i > 0
    /\ \E memory \in BOOLEAN :
       LET r == insert_vma_struct(work, SrcArea)
       IN  IF ~memory THEN Teardown(mem, work, "fork_failed")
           ELSE IF ~r.ok THEN pc' = "panic" /\ UNCHANGED <<mem, work, call, spoiled>>
           ELSE /\ work' = r.mm /\ pc' = "copy"
                /\ call' = [call EXCEPT !.la = SrcArea.vm_start]
                /\ UNCHANGED <<mem, spoiled>>
    /\ UNCHANGED mm

\* copy_range(), one round.  page_insert() finds the table that get_pte() has
\* just made.  Mutation: the page of the parent is mapped, not a copy.
MutShare(m, old, la) == page_insert(m, work.pgdir, old.page, la, old.perm).mem
CopiedPage(m, old, la) ==
    LET npage == alloc_page(m)
    IN  page_insert([Used(m, npage, "user") EXCEPT !.data[npage] = m.data[old.page]],
                    work.pgdir, npage, la, old.perm).mem

\* Mutation: the loop does not end.
MutWrap ==
    /\ pc = "copy"
    /\ LET la == call.la
           from == mm[call.src].pgdir
           t == get_pte(mem, from, la, FALSE).table
           next == IF t = NULL THEN ROUNDDOWN(la + PTSIZE, PTSIZE) ELSE la + PGSIZE
           g == get_pte(mem, work.pgdir, la, TRUE)
           Goto == /\ call' = IF next < SrcArea.vm_end THEN [call EXCEPT !.la = next]
                              ELSE [call EXCEPT !.la = SrcArea.vm_start]
                   /\ pc' = pc
                   /\ UNCHANGED <<work, spoiled>>
       IN  IF pte(mem, from, la) = NULL THEN mem' = mem /\ Goto
           ELSE IF g.table = NULL THEN Teardown(g.mem, work, "fork_failed")
           ELSE IF Free(g.mem) = {}
           THEN mem' = g.mem /\ pc' = "panic" /\ UNCHANGED <<work, call, spoiled>>
           ELSE mem' = CopiedPage(g.mem, pte(mem, from, la), la) /\ Goto
    /\ UNCHANGED mm
CopyRange ==
    /\ pc = "copy"
    /\ LET la == call.la
           from == mm[call.src].pgdir
           t == get_pte(mem, from, la, FALSE).table
           next == IF t = NULL THEN ROUNDDOWN(la + PTSIZE, PTSIZE) ELSE la + PGSIZE
           g == get_pte(mem, work.pgdir, la, TRUE)
           Goto == /\ call' = IF next < SrcArea.vm_end THEN [call EXCEPT !.la = next]
                              ELSE [call EXCEPT !.i = @ - 1]
                   /\ pc' = IF next < SrcArea.vm_end THEN pc ELSE "dup"
                   /\ UNCHANGED <<work, spoiled>>
       IN  IF pte(mem, from, la) = NULL THEN mem' = mem /\ Goto
           ELSE IF g.table = NULL THEN Teardown(g.mem, work, "fork_failed")
           ELSE IF Free(g.mem) = {}
           THEN mem' = g.mem /\ pc' = "panic" /\ UNCHANGED <<work, call, spoiled>>
           ELSE mem' = CopiedPage(g.mem, pte(mem, from, la), la) /\ Goto
    /\ UNCHANGED mm

ForkDone ==
    /\ pc = "dup" /\ call.i = 0
    /\ mm' = [mm EXCEPT ![call.proc] = work]
    /\ work' = NULL /\ pc' = "user" /\ call' = NoCall
    /\ UNCHANGED <<mem, spoiled>>
-----------------------------------------------------------------------------
\* user_mem_check() of the bytes start .. end - 1, in the address space of s.
MemCheck(s, start, end, write) ==
    /\ pc = "user" /\ mm[s] # NULL
    /\ call' = [NoCall EXCEPT !.proc = s, !.start = start, !.la = start,
                              !.end = end, !.write = write]
    /\ pc' = IF USER_ACCESS(start, end) THEN "check" ELSE "no"
    /\ UNCHANGED <<mem, mm, work, spoiled>>

\* One round: the area of the address reached, its flags, and the lowest page
\* of the stack, which must not be written.
MutFirstArea ==
    /\ pc = "check"
    /\ LET m == mm[call.proc]
           vma == find_vma(m, call.start)
           need == IF call.write THEN "WRITE" ELSE "READ"
       IN  IF call.start >= call.end THEN pc' = "yes" /\ UNCHANGED <<mm, call>>
           ELSE /\ mm' = [mm EXCEPT ![call.proc] = found(m, call.start)]
                /\ IF \/ vma = NULL
                      \/ need \notin vma.vm_flags
                      \/ /\ call.write /\ "STACK" \in vma.vm_flags
                         /\ call.start < vma.vm_start + PGSIZE
                   THEN pc' = "no" /\ call' = call
                   ELSE pc' = pc /\ call' = [call EXCEPT !.start = call.end]
    /\ UNCHANGED <<mem, work, spoiled>>
MemCheckRound ==
    /\ pc = "check"
    /\ LET m == mm[call.proc]
           vma == find_vma(m, call.start)
           need == IF call.write THEN "WRITE" ELSE "READ"
       IN  IF call.start >= call.end THEN pc' = "yes" /\ UNCHANGED <<mm, call>>
           ELSE /\ mm' = [mm EXCEPT ![call.proc] = found(m, call.start)]
                /\ IF \/ vma = NULL
                      \/ need \notin vma.vm_flags
                      \/ /\ call.write /\ "STACK" \in vma.vm_flags
                         /\ call.start < vma.vm_start + PGSIZE
                   THEN pc' = "no" /\ call' = call
                   ELSE pc' = pc /\ call' = [call EXCEPT !.start = vma.vm_end]
    /\ UNCHANGED <<mem, work, spoiled>>

MemCheckReturn ==
    /\ pc \in {"yes", "no"}
    /\ pc' = "user" /\ call' = NoCall
    /\ UNCHANGED <<mem, mm, work, spoiled>>

\* A user program stores to a page it may write.  (Other stores fault.)
Store(s, a) ==
    /\ pc = "user" /\ mm[s] # NULL
    /\ LET e == pte(mem, mm[s].pgdir, a)
       IN  /\ e # NULL /\ "W" \in e.perm
           /\ mem' = [mem EXCEPT !.data[e.page][a % PGSIZE] = Written]
    /\ UNCHANGED <<mm, work, pc, call, spoiled>>

\* All processes have exited, or the kernel has panicked.
Stopped ==
    /\ \/ pc = "panic"
       \/ pc = "user" /\ \A s \in Space : mm[s] = NULL
    /\ UNCHANGED vars

-----------------------------------------------------------------------------
Boot == BootFirst \/ BootSecond \/ BootShare \/ BootRemove \/ BootFree

\* A call in progress.
Run == \/ Unmap \/ ExitRange
       \/ Load \/ LoadSegment \/ LoadBadMagic \/ LoadFile \/ LoadEdge \/ LoadBss
       \/ LoadStack \/ LoadStackPage \/ LoadDone
       \/ DupArea \/ CopyRange \/ ForkDone
       \/ MemCheckRound \/ MemCheckReturn

Begin ==
    \/ UserMain
    \/ \E s \in Space :
          \/ Exit(s) \/ Exec(s)
          \/ \E t \in Space : Fork(s, t)
          \/ \E a \in StoreAddr : Store(s, a)
          \/ \E c \in Checks, write \in BOOLEAN : MemCheck(s, c[1], c[2], write)

Next == Boot \/ Run \/ Begin \/ Stopped

\* With a page allocator that keeps the promise of FirstFit also when memory has
\* run out,
IdealSpec == Init /\ [][Next]_vars

\* and with the one the kernel has, default_pmm.c, which keeps it as long as the
\* last page of memory is free (Pmm!SpareSpec).
Spare == mem.use[NPage - 1] = "free"
SpareNext == Next /\ Spare'
SpareSpec == Init /\ [][SpareNext]_vars

\* Weak fairness of Run, which is enabled whenever a call is in progress: the
\* processor does not stop.  (Written without ENABLED, which TLC evaluates
\* slowly for these actions; that Run is enabled is the absence of deadlock, and
\* each of its steps changes pc or call.)
InCall == pc \notin {"boot", "user_main", "user", "panic"}
FairSpec == IdealSpec /\ (<>[]InCall => []<><<Run>>_vars)

-----------------------------------------------------------------------------
\* The pages that an address space uses, and where they are referenced: from
\* its descriptor (NULL) or from an entry <<table, index>>.
Tables(root) ==
    LET pd0s == {e.page : e \in {mem.entry[root][i] : i \in Index} \ {NULL}}
    IN  {root} \cup pd0s
        \cup {e.page : e \in {mem.entry[d][i] : d \in pd0s, i \in Index} \ {NULL}}
Slots(root) ==
    {s \in Tables(root) \X Index : mem.entry[s[1]][s[2]] # NULL}
Target(s) == mem.entry[s[1]][s[2]].page

\* The page directories in use.
Roots == {sp.pgdir : sp \in ({mm[s] : s \in Space} \cup {work}) \ {NULL}}
AllSlots == UNION {Slots(root) : root \in Roots \cup {boot_pgdir}}
Owned == Roots \cup {Target(s) : s \in AllSlots}
Lost == {p \in Page : mem.use[p] # "free"} \ Owned

\* Every variable has its type.
TypeOK ==
    /\ mem.use \in [Page -> {"free", "pgdir", "pd0", "pt", "user"}]
    /\ mem.ref \in [Page -> Nat]
    /\ mem.entry \in [Page \cup {boot_pgdir} -> [Index -> PTE]]
    /\ mem.data \in [Page -> [0 .. PGSIZE - 1 -> Int]]
    /\ \A sp \in ({mm[s] : s \in Space} \cup {work}) \ {NULL} :
          \A vma \in Range(sp.mmap_list) :
              vma.vm_start \in Addr /\ vma.vm_end - 1 \in Addr
    /\ spoiled \in BOOLEAN
    /\ pc \in {"boot", "user_main", "user", "unmap", "exit_range", "load", "segment",
               "file", "bss", "stack", "dup", "copy", "check", "yes", "no", "panic"}

\* The tables form trees and nothing dangles: no page in use is free, every
\* page has the count of its references, a table has exactly one and a page
\* directory none, also while an address space is built or torn down.
PagesExact ==
    /\ TypeOK
    /\ Owned \cap Free(mem) = {}
    /\ \A p \in Owned :
          /\ mem.ref[p] = Cardinality({s \in AllSlots : Target(s) = p})
          /\ mem.use[p] = "pgdir" <=> p \in Roots
          /\ mem.use[p] \in {"pd0", "pt"} => mem.ref[p] = 1

\* What a process leaves behind, with a page allocator that is intact: never a
\* page of its memory or its page directory, however its exec, fork or exit
\* went, and no table either while all address spaces torn down were tidy.
\* (default_pmm.c itself loses pages once the last one was handed out.)
LossBounded ==
    /\ \A p \in Lost : mem.use[p] \in {"pd0", "pt"}
    /\ ~spoiled => Lost = {}

\* "free level 0 page directory only when all pde0s in it are already invalid"
\* (exit_range, pmm.c).
DirectoryFreedEmpty ==
    [][\A d \in Page : mem.use[d] = "pd0" /\ mem'.use[d] = "free" =>
          \A i \in Index : mem.entry[d][i] # NULL =>
              mem'.use[mem.entry[d][i].page] = "free"]_vars

Mapped(sp) == {la \in PagesOf(0, UserTop) : pte(mem, sp.pgdir, la) # NULL}

\* The area that mm_map() makes for a segment without bytes, which load_icode()
\* does not skip, at an address inside a page: the page around it.
EmptyArea(vma) ==
    \E prog \in Programs : \E k \in DOMAIN prog.segments :
        LET p == prog.segments[k]
        IN  p.memsz = 0 /\ vma = vma_create(ROUNDDOWN(p.va, PGSIZE), ROUNDUP(p.va, PGSIZE), p.flags)

\* The pages of the stack may be executed as well, whatever its area says.
PagePerm(flags) == IF "STACK" \in flags THEN PTE_USER ELSE perm(flags)

\* The areas of a process are apart and in order, exactly their pages are
\* mapped, with the permissions of the segment, or all of them on the stack;
\* only the stack has more pages than are mapped, and the area of an empty
\* segment a page that is not.
AreasExact ==
    \A s \in Space : mm[s] # NULL =>
        LET list == mm[s].mmap_list
            In(la) == {k \in DOMAIN list : Holds(list[k], la)}
        IN  /\ \A k \in DOMAIN list : list[k].vm_start < list[k].vm_end
            /\ \A k \in 1 .. Len(list) - 1 : list[k].vm_end <= list[k + 1].vm_start
            /\ \A la \in Mapped(mm[s]) : \E k \in In(la) :
                  pte(mem, mm[s].pgdir, la).perm = PagePerm(list[k].vm_flags)
            /\ \A la \in PagesOf(0, UserTop) : \A k \in In(la) :
                  \/ la \in Mapped(mm[s])
                  \/ "STACK" \in list[k].vm_flags \/ EmptyArea(list[k])

\* find_vma() returns the area that holds an address, or NULL if none does,
\* whatever area was found last.  The end of an area is not in it, although the
\* comment on find_vma() says "vma->vm_start <= addr <= vma_vm_end" (vmm.c:76).
FindVmaExact ==
    \A s \in Space, a \in Addr : mm[s] # NULL =>
        {find_vma(mm[s], a)} \ {NULL} = {vma \in Range(mm[s].mmap_list) : Holds(vma, a)}

\* user_mem_check() says yes exactly if there is a byte to check and every one lies
\* in an area with the flag that is asked for, and none to be written in the
\* guard page.
Allowed(s, a, write) ==
    \E vma \in Range(mm[s].mmap_list) :
        /\ Holds(vma, a)
        /\ (IF write THEN "WRITE" ELSE "READ") \in vma.vm_flags
        /\ write /\ "STACK" \in vma.vm_flags => a >= vma.vm_start + PGSIZE
MemCheckExact ==
    pc \in {"yes", "no"} =>
        (pc = "yes" <=> /\ call.la < call.end
                        /\ \A a \in call.la .. call.end - 1 :
                              Allowed(call.proc, a, call.write))

\* Every call returns, or the kernel panics.
CallReturns == pc = "load" \/ pc = "dup" \/ pc = "unmap" \/ pc = "check" ~> pc \in {"user", "panic"}

\* The memory that a user program sees.
Image(s) ==
    IF mm[s] = NULL THEN NULL
    ELSE [a \in {b \in Addr : pte(mem, mm[s].pgdir, b) # NULL} |->
             mem.data[pte(mem, mm[s].pgdir, a).page][a % PGSIZE]]

\* What the call in progress was asked for.
Asked ==
    IF pc \in {"segment", "file", "bss", "stack"}
    THEN [op |-> "exec", proc |-> call.proc, prog |-> call.prog]
    ELSE IF pc \in {"dup", "copy"}
    THEN [op |-> "fork", proc |-> call.proc, src |-> call.src]
    ELSE NULL

\* exec, fork, exit and stores do to the memory of the processes what
\* UserMemory promises: the program that was asked for is loaded as its file
\* says, a fork copies the memory of the process that called it, and stores
\* stay private.
Promise == INSTANCE UserMemory WITH
    image <- [s \in Space |-> Image(s)], asked <- Asked,
    Stack <- UserTop - StackSize .. UserTop - 1
MemoryCorrect == Promise!Spec
=============================================================================
