# ucore lab6: a TLA+ model of the kernel

The repository is a small teaching kernel (ucore for RISC-V, lab 6): one hart, kernel threads
and user processes, fork/exec/wait/exit/kill, a scheduling framework with five scheduling
classes, a physical page allocator, page tables, virtual memory areas and a kernel heap. This
directory models all of these, checks them with TLC and proves, with TLAPS and for every value of
the constants, the central invariants of processes, pids, the process tree, strides, the page
allocator, page tables, the kernel heap and user memory, and that what programs see of it is what
`UserMemory` promises.

## 1. The system

| component | state | operations | talks to |
|---|---|---|---|
| process life cycle, `kern/process/proc.c` | `proc_list`, `hash_list`, `nr_process`, `current`, one `proc_struct` per process | `do_fork`, `do_execve`/`load_icode`, `do_exit`, `do_wait`, `do_kill`, `do_yield`, `proc_run`, `init_main`, `user_main`, `cpu_idle` | calls `wakeup_proc`/`schedule`; is called by system calls and traps |
| pid allocation, `get_pid` in `proc.c` | static `last_pid`, `next_safe` | one scan of `proc_list` per call | `do_fork`, `do_wait` (frees pids) |
| process tree, `proc.c` | `parent`, `cptr`, `yptr`, `optr` | `set_links`, `remove_links`, the loop of `do_exit` | fork, exit, wait |
| scheduling framework, `kern/schedule/sched.c` | `rq`, `sched_class` | `wakeup_proc`, `schedule`, `sched_class_proc_tick` | calls the class; is called by `proc.c` and the timer interrupt |
| round robin and FIFO, `default_sched.c`, `default_sched_fifo.c` | `run_list`, `time_slice` | `init`, `enqueue`, `dequeue`, `pick_next`, `proc_tick` | table of functions used by `sched.c` |
| stride, HPF, SJF, `default_sched_*.c` | `lab6_run_pool`, `lab6_stride`, `lab6_priority`, `time_slice` | the same five, and `lab6_set_priority` in `proc.c` | skew heap |
| skew heap, `libs/skew_heap.h` | `left`, `right`, `parent` of every node | `init`, `merge`, `insert`, `remove` | comparison functions of the classes |
| traps and system calls, `kern/trap/trap.c`, `kern/syscall/syscall.c` | `current->tf` | dispatch; on the way back to user mode `do_exit` if `PF_EXITING`, `schedule` if `need_resched` | everything above |
| physical pages, `default_pmm.c` | `free_list`, `nr_free`, `property` and flags of each page | `init_memmap`, `alloc_pages`, `free_pages` | page tables, kernel stacks, kernel heap |
| page tables, `pmm.c` | three levels of tables, `page->ref` | `get_pte`, `page_insert`, `page_remove`, `pgdir_alloc_page`, `copy_range`, `unmap_range`, `exit_range` | areas |
| areas, `vmm.c` | `mm_struct`: list of areas, the one found last, page table | `mm_map`, `find_vma`, `insert_vma_struct`, `dup_mmap`, `exit_mmap`, `user_mem_check` | `load_icode`, `copy_mm`, `do_execve`, `do_exit` |
| kernel heap, `kmalloc.c` | circular list of free blocks, list of large blocks | `kmalloc`, `kfree`, `ksize`, `slob_alloc`, `slob_free` | pages |
| strings and numbers, `libs/string.c`, `printfmt.c` | none | copy, compare, search, `strtol`, `printnum` | everybody |
| start, drivers, debugging, user programs, tools | | | |

What is hard here:

* A process that waits and its children run in any order. A wakeup must not be lost between
  `do_wait()` looking at the children and going to sleep, nor when a zombie is handed over to an
  `initproc` that sleeps already; a process must not be queued twice when it is killed and its
  child exits.
* `do_kill()` only sets a flag. Where the flag is looked at decides whether the process dies.
* A process that exits or execs frees the page table the hart is running on.
* A class changes the key of a linked heap node (`stride_pick_next`, `lab6_set_priority`),
  strides wrap around, and the comparison is the sign of a difference.
* `get_pid()` remembers a window of free pids across calls, while processes come and go.
* Memory runs out anywhere: between two levels of a page table, two pages of a segment, two
  areas of a fork. What was built so far is torn down by code that looks at areas, not at tables.
* The page allocator and the kernel heap keep their lists sorted and coalesced through any
  order of calls, from wherever the last call left them.

Interrupts are masked in every trap and system call, and a timer interrupt that arrives in a
kernel thread touches the tick fields of `current` only. Code between two calls of `schedule()`
is therefore atomic, and a step of `Process` is such a piece of code. `GetPid`, `ProcTable`,
`Pmm`, `AddressSpace` and `Kmalloc` take the loops of a call apart, one round a step, so that
invariants are checked and failures happen in the middle of a call; nothing interleaves with it.
Nothing survives a shutdown and there are no messages, so crash recovery and delivery are not
an issue.

## 2. Modules

| module | models | role |
|---|---|---|
| `Process` | `proc.c`, `sched.c`, `trap.c`, `syscall.c` | the core; parameterised by the scheduling class |
| `ProcessInv`, `ProcessSlice`, `ProcessProofs` | | inductive invariant; what a class promises about slices, and preemption; 13 theorems |
| `GetPid` | `get_pid()` | one step per process visited |
| `ProcTable`, `ProcTableProofs` | `set_links`, `remove_links`, the loops of `do_exit`, `do_wait` | the linked process tree, on top of `GetPid`; 5 theorems about both |
| `TimeSlice`, `DefaultSched`, `FifoSched` | `default_sched.c`, `default_sched_fifo.c` | the list classes, as operators |
| `SkewHeap` | `libs/skew_heap.h` | the linked heap, recursive as in the code |
| `StrideSched`, `PrioSched` | `default_sched_stride.c`, `_hpf.c`, `_sjf.c` | the heap classes, as operators |
| `SchedClasses` | `struct sched_class` | the table of functions: dispatch to one of the five classes |
| `StrideArith` | `uint32_t`/`int32_t` arithmetic of the stride class | width kept: `2^32 = 4 * BIG_STRIDE` |
| `Stride` | what the stride class promises | abstract specification |
| `StrideShare`, `StrideProofs` | | exact charges as a history variable; 3 theorems |
| `StrideRun` | stride class driven by `sched.c` | refines `Stride` |
| `List` | `libs/list.h` | links of a circular list, as operators |
| `Pmm`, `PmmProofs` | `default_pmm.c` | the page allocator, one loop step at a time; 4 theorems |
| `FirstFit` | what the allocator promises | abstract specification, implemented by `Pmm` |
| `PageTable` | `pmm.c`, `mmu.h` | three-level tables with reference counts, as operators on memory |
| `AddressSpace` | `vmm.c`, `load_icode`, `copy_mm`, `do_execve`, `do_exit`, the self-tests at boot | areas and their life, on `PageTable` |
| `PageProofs` | | areas, page tables and reference counts through all calls of `AddressSpace`; 5 theorems |
| `MapProofs` | | which pages are mapped and what is lost, on top of both; 4 theorems |
| `ImageProofs` | | what the pages hold, and that `AddressSpace` implements `UserMemory`; 4 theorems |
| `UserMemory` | what a user program may rely on | abstract specification, implemented by `AddressSpace` |
| `Kmalloc`, `KmallocProofs` | `kmalloc.c` | the kernel heap, one loop step at a time; 4 theorems |
| `LibString` | `string.c`, `printnum()` | operators with reference definitions |
| `MC*` | | instances for TLC |

### Process

The variables are the fields of `proc_struct` that control depends on, the globals `current`,
`nr_process` and `rq`, the page table the hart uses (`satp`), and `pc`, which says where each
process continues. `panic` holds the first `panic()` or failed `assert()`.

* A process is its pid. pid 0 is `idleproc`, which also is the argument of `wait()` that means
  "any child". A page table is named after the process it is built for; `boot_pgdir` after
  `idleproc`.
* `mm[p]` says that an address space is there: `mm` and its page table are created together (in
  `copy_mm` and `load_icode`) and freed together, because nothing in this kernel sets `CLONE_VM`
  for a user process, so `mm_count` is at most 1. What is in it is the subject of `AddressSpace`.
* `do_fork()` chooses any pid not in use. `GetPid` shows that the code's choice is one. The
  children of a process are a set, and `do_wait()` may reap any zombie among them; `ProcTable`
  has the links that implement the set.
* Failing calls (no memory for a stack, no process slot, a bad pointer) change nothing that is
  modelled and are `SysReturn`; the failures that do more are `ExecFail`, which has dropped the
  old address space and exits, and `UserPanic`, which collects what stops the kernel: no memory for a stack or
  a copy, a system call that does not exist, a misaligned store, and the two page faults the kernel can take
  itself, in `do_execve()` (`exec_fault`) and when `do_wait()` stores the exit code (`wait_fault`).
* `SysKill`, `SysWait` take any pid, existing or not, so a process may kill itself, its parent,
  `initproc` or a zombie, and may wait for a process that is not its child.
* `Schedule` is the whole of `schedule()`: clear `need_resched`, requeue a runnable `current`,
  pick, dequeue, switch. The process that is left continues at `Resume(pc)`.
* `TickKernel` is a timer interrupt in a kernel thread, whose trap returns without
  rescheduling.

The scheduling class is a set of operator CONSTANTS with the assumption `SchedClassContract`:
the queue holds what was enqueued and not dequeued, `pick_next()` returns one of them and leaves
the membership alone. `MCProcessRR` gives them the values of `DefaultSched`, `MCProcessClasses`
those of `SchedClasses`, so that one run covers all five classes: `InitRqs` has an empty queue of
each. TLC evaluates the contract over all queues of the instance (`MCProcessRR`) or all queues
the operations reach from the empty ones (`MCProcessClasses`). `ProcessSlice` adds, as `SliceContract`, what a class
promises about time slices: `enqueue()` fills one that is used up, `proc_tick()` asks for `schedule()` when it
takes the last tick, and nothing else touches the slices of other processes. TLC evaluates it in the same way.

### ProcTable

`GetPid` extended by `parent`, `cptr`, `yptr`, `optr`. A fork takes the pid that `get_pid()`
returns and links it as the youngest child; an exit moves the children to `initproc` one at a
time; a wait unlinks a zombie. The fields of a process that is not linked are not read and are
cleared in the model.

### Pmm

Pages are numbers, and `free_list` holds the links of the list head and of every page. The links are
kept, and not a sequence, because what is wrong here is wrong in the links. `held` counts to how many
clients a page is handed out; the code has no such field. Clients may free any run of pages they hold
(`default_check()` frees parts of a block). `SpareSpec` is the machine on which no request needs the
last page; there the freed block always lies below the last block of the list. `Spec` is the machine
without that condition (section 6).

### Stride

`StrideSched` keeps the links of the heap, because `stride_pick_next()` changes the stride of a
node that is still linked and `skew_heap_remove()` works through parent links.
`stride_dequeue` clears the dead links of the removed node; the code leaves them and
`skew_heap_insert()` overwrites them before anything reads them. `PrioSched` does the same.

`Stride` has no heap: any queued process that none is before may be picked. Wrapped strides
express an order only while they are at most `BIG_STRIDE` apart. `Join` of `Stride` and of `StrideRun` takes any
stride, as `wakeup_proc()` does. `NearSpec` is `Spec` on the condition that a process becomes runnable
only with a stride `Near` all others (`NearJoins`), and `NearShareSpec` the same with the history of charges. The kernel
does not ensure the condition: an ordinary fork, which starts at stride 0, breaks it after two picks at priority 1
(`MCStrideOrder`, section 6). **Everything this project shows of strides, in the runs `stride_share` and
`stride_heap` and in `StrideProofs`, is shown under this condition**, and holds of the kernel up to the first fork or wakeup
that breaks it.

### PageTable and AddressSpace

Physical memory is a record: what each page is used for, its `ref`, its entries if it is a
table, its bytes if it is not. `use` is not in the code; it is how the properties tell a page of a
process from a page of tables. A free page holds entries that look valid and bytes that belong to no program,
so a table that is not cleared, or a byte that is not copied or zeroed, shows.
Three levels, the walk of `get_pte()`, the index arithmetic of `mmu.h` and the permission bits R, W, X and U are
kept; the number of entries and the size of a page are constants.

*The page allocator.* `alloc_page()` and `free_page()` are what `FirstFit` promises of single pages. `Pmm`
implements that promise while the last page of memory is free (`ImplementsFirstFit`), and not once it was handed
out (run `pmm_last_page`). But when a call runs out of memory the free list is empty, and
the teardown then frees pages in ascending order, which is what damages the list. For
instance, a failed exec with directory 0, user pages 1, 4 and 5 and tables 2 and 3 frees 1, 4, 5, 3, 2, 0 on a machine of
six pages. `default_free_pages()` gives 4 and 5 wrong links, after the last call the list runs from its head to
0, 4, 3, 2 and back to 4 for ever, page 5 is lost, and page 4 is linked by itself and is also in the block {3, 4}. So there are two specifications. `IdealSpec` has an allocator that stays intact. It
shows that the code of `pmm.c`, `vmm.c` and `proc.c` by itself counts, maps and tears down correctly wherever it
fails. `SpareSpec` is the machine whose last page stays free, where the allocator of this kernel is
such a one, and where no allocation of a page fails. Only there do the results hold of the kernel as a whole (`HoldsWithSpare`).
The runs are about `IdealSpec`.

*Width.* Addresses are computed modulo `WordSize` (2^64) where `mm_map()` and `load_icode()` add. Nothing in
them looks for a sum that wraps around, and such a program header makes an area that is too small (section 6).
`ProgramAssumption` excludes it: the programs of this kernel are linked into it, the user library has no exec, and an
image in the memory of the caller is gone before it is read (`exec_fault`); a linker writes no such header. All other numbers in a header are any.

`AddressSpace` has one call in progress (`pc`, `call`, and `work`, the `mm_struct` that is built
or torn down) and the `mm` of each process. `load_icode()` is one action per stage and round: the header of a
segment with `mm_map()`, a page from the file, the edge between file and bss, a page of
bss, the stack area, its pages. `copy_range()` takes one page a step, `exit_mmap()` one area.
`kmalloc()` may fail at any time (`\E memory`); pages run out when they do. An assertion that
fails is the final state `panic`. The first steps are those of `check_pgdir()` and
`check_boot_pgdir()`, which map, share, replace and unmap two pages in `boot_pgdir`.

`UserMemory` is the promise. Its variable `asked` holds the exec or fork that was asked for. An exec ends with an image that has
the bytes of *that* program, zeros included (`Loaded`), and nothing but the pages they are on and
the stack (`NoMore`), and only for a program that can be loaded (`Valid`). A fork ends with the image of the process
that asked. Either may be refused. A store changes one byte of one process. The refinement mapping
reads the image of a process through its page table, and `asked` off the call in progress (`Asked`).

`spoiled` is a history variable for the finding `address_leak`: it becomes true when an address space is torn
down in which some area does not reach all the page tables of a level 0 directory it reaches
(`Tidy`). `LossBounded` says that otherwise nothing at all is lost.

### Kmalloc

Addresses count units. The free list has its `units` and `next` fields, `arena` and the
roving `slobfree`. `slob_alloc()` looks at one block a step, adds a page when it is back at
`slobfree`, frees it into the list with `slob_free()`, and searches again; `slob_free()` looks for the place of a
block one step at a time. A large block has its record allocated first and given back if there are no pages.
Pages come from first fit, which is what `Pmm` promises. The loop of `find_order()` is the least number of
shifts after which the size is at most a page; `MaxOrder` bounds it (19 for an `int` and pages of 4096 bytes).

### LibString

The loops of `string.c` as recursive operators on a memory (a function from addresses to
bytes), and `CopyFacts`, `CompareFacts` and `NumberFacts`, which compare them with definitions
without loops over all memories of five bytes over {0, 1, 2}, all addresses and lengths, and the
numbers up to 40 in bases 2, 8, 10 and 16, with the prefixes "0", "0x" and "0X". An overlapping `memcpy()` is claimed only where dst
is not behind src, `strcpy()` only for strings apart.

## 3. Runs

| run | instance | checks |
|---|---|---|
| `process_rr` | init and 4 user pids, 3 in use at a time; slice 1 | the safety properties of `Process` and `ExitProtocol` |
| `process_rr_live` | init and 2 user pids; slice 2 | `NoStarvation`, `WaitReturns`, `KilledStops` |
| `process_classes` | stride, RR, FIFO, HPF, SJF; init and 2 user pids, priorities 1 and 2, strides modulo 4 | `IInv`, `SliceExpires`, `PicksFirst` |
| `stride_order` | stride only, with a history of wraparounds | finding: `PicksMinimum` is violated |
| `proc_table` | 6 pids, at most 5 in use | `UniquePid`, `PidInv`, `LinksExact`, `CallReturns` |
| `stride_share` | 3 processes, strides modulo 8, passes 0 to 2, joins near the others | `Window`, `FairShare`, `ShareInv`, `NoStarvation` |
| `stride_heap` | 3 processes, strides modulo 8, heap, joins near the others | `PoolCorrect`, and that the heap implements `Stride` |
| `pmm_first_fit` | 5 pages, the last one never needed | `FreeListExact`, `CallReturns`, and that `Pmm` implements `FirstFit` |
| `pmm_last_page` | 4 pages, all of them handed out | finding: `NoDoubleAlloc` is violated |
| `address_space` | 2 processes, 9 ELF files, 16 pages of 2 bytes, tables of 2 entries | `PagesExact`, `LossBounded`, `AreasExact`, `FindVmaExact`, `MemCheckExact`, `LibraryExact`, `CallReturns`, and that `AddressSpace` implements `UserMemory` |
| `address_leak` | the same | finding: `DirectoryFreedEmpty` is violated |
| `kmalloc` | 4 pages of 4 units, five sizes | `HeapExact`, `Served`, `GrowsOnce`, `CallReturns` |

What the properties say.

Processes and classes:

* `RunQueueExact`: the queue is exactly the set of runnable processes without the CPU.
* `NoLostWakeup`: a sleeper has an awaited child and none of them is a zombie.
* `ParentAlive`: `proc->parent` never dangles and never is a zombie.
* `OnlyRunnableRuns`: a zombie is never switched to again.
* `SatpLive`: the hart never uses a freed page table; user code runs on its own.
* `NoAssertionFails`: the asserts of `wakeup_proc`, `do_fork`, `do_wait`, `init_main` hold.
* `ProcCount`: `nr_process` is the number of processes and stays within `MAX_PROCESS`.
* `NoStandstill`: once init has run, the idle loop is never entered again. Waiting processes
  form a forest, so some process is always runnable.
* `ExitProtocol`: who may free a process, and when.
* `IInv`: the inductive invariant, which contains the type invariant, under every class.
* `SliceExpires`: a used-up slice leaves `need_resched` set, also in kernel threads, under all
  classes but FIFO, which has no slices, and every queued process has a slice.
* `PicksFirst`: under HPF and SJF the run pool stays an ordered tree although priorities change, so
  the first process by priority and pid is picked.
* `NoStarvation`, `WaitReturns`: a queued process runs; a `wait()` whose child
  is a zombie returns, or the kernel stops, which it may do in this very `wait()` (`wait_fault`).
* `KilledStops`: a killed process computes until its next trap, and from then on never again: it exits, or waits before it
  does, and whatever it sleeps for and whoever wakes it, it does not get back to user mode (`KilledForGood`).
* `UniquePid`, `PidInv`, `LinksExact`: a pid is handed out once, also after wraparounds; the walk from
  `cptr` along `optr` meets exactly the children of a process, and the list leads back. The walk is stated
  without recursion: `Walks` are the sets that contain `cptr` and with each child its `optr`.

Strides, as long as processes join near the others: `Window` and `FairShare` bound strides and charges of runnable processes by
`BIG_STRIDE`; `ShareInv` says that the wrapped difference is the true one; `NoStarvation`
that everyone is picked once nobody forks any more and passes are at least 1.

Memory:

* `FreeListExact`: between two calls the list links exactly the maximal runs of free pages, in order
  of address and in both directions, and `nr_free` counts them. `FirstFitCorrect`: a request gets the lowest
  run that is long enough and fails only if there is none.
* `PagesExact`: at every step of every call the tables form trees, every reachable page is allocated and has the count
  of its references. `LossBounded`: wherever exec, fork or exit failed, no page of a program and no page
  directory is lost, and no table either while all address spaces were tidy. Where memory has run out, both say
  this on condition that the allocator survives it, which `default_pmm.c` does not (section 2).
* `AreasExact`: areas are apart and sorted, and exactly their pages are mapped, with the permissions of the
  segment, or on the stack with all of them; only the stack and the area of a segment without bytes have pages that
  are not mapped. `FindVmaExact`, `MemCheckExact`: `find_vma()` with its cache and the
  loop of `user_mem_check()` agree with a definition over the areas; an interval without bytes is refused.
* `MemoryCorrect`: the refinement of `UserMemory`.
* `HeapExact`: every unit of the pages of the heap is in exactly one block; from every linked block the
  list leads to the next free one above it, from the last to `arena`, and no two touch. `Served`: a block stays as large as it was asked for, and the assertion in
  `slob_alloc()` fails only for the sizes that section 6 names. `GrowsOnce`: after the
  heap has grown, the search succeeds.
* `CallReturns`: every loop ends. In `address_space` allocating and freeing are single steps, and in `pmm_first_fit` the last
  page stays free, so the walks that a damaged free list makes endless are in neither.
* `LibraryExact`: the facts of `LibString`. They mention no variable; the run states them
  of the first states, in which the kernel already uses the library.

### Bounds

* Three user processes in use at a time give a parent, its sleeping grandparent, siblings, and
  orphans handed to init while it sleeps. A fourth pid lets a pid be reused while another is
  still in use. Slices are 1 or 2 ticks: what matters is expired or not.
* `BIG_STRIDE` is 1 or 2 instead of 2^30. `Modulus = 4 * BIG_STRIDE` is kept, so strides wrap
  after a few picks. A priority of 3 with `BIG_STRIDE = 2` gives a pass of 0. In
  `process_classes` priorities stay 1 under stride; `stride_heap` has others.
* `proc_table`: `MAX_PID = 7`, `MAX_PROCESS = 6`, the tightest relation that the static assertion
  allows; five processes make lists of up to four siblings.
* Five pages leave four to hand out in `pmm_first_fit`: blocks below, between and above free ones,
  splits with and without a rest, merges on either side and on both.
* `address_space`: 2 entries per table and 2 bytes per page give 8 pages in two level 0
  directories, the stack in the second. The programs (`MCAddressSpace`) have segments in and
  out of order, unaligned, across page tables, overlapping each other or the stack, below `USERBASE`, with wrong sizes, and one
  is no ELF file. The largest needs more than half of the 16 pages, so that forks and
  execs run out of memory at every point.
* `kmalloc`: a page has 4 units. The sizes make blocks of 2 and 3 units, one in the gap below a page, one page, and one
  just above two pages. Four pages let the heap grow, fill up, and
  fail after the record of a large block was allocated.
* Process pids and heap nodes are interchangeable where symmetry is declared. No run with a
  liveness property uses symmetry.

### Fairness

`Kernel` is weakly fair: kernel code between two calls of `schedule()` runs on. `TickKernel` is
weakly fair: the timer interrupts the idle loop. `Tick` is strongly fair: the timer is
reprogrammed at each interrupt, and one that is pending while interrupts are masked is taken on
the return to user mode, so a process cannot avoid it by always being in a system call when it
is due. No program is assumed to do anything.

`CalmSpec` (`MCStride`): from some time on no process is forked and priorities do not exceed
`BIG_STRIDE`; the running process is preempted again and again. Without the first condition new
processes, which start at stride 0, may be served for ever; without the second a process with
pass 0 may. Sleepers may come and go.

In `Pmm`, `Kmalloc`, `GetPid`, `ProcTable` and `AddressSpace` a call in progress goes on: the processor executes the
loop. In `ProcTable` this includes that a call of `get_pid()` that has its pid is followed by the rest of `do_fork()`.
`AddressSpace` writes the condition without `ENABLED`. Nobody is
assumed to begin a call.

`CHECK_DEADLOCK` is on everywhere. The final states, panic and no process left, have explicit
stuttering steps.

## 4. Proofs

All theorems hold for every value of the constants that satisfies the named assumptions.

**ProcessProofs.** From `ProcAssumption` (finitely many pids, `idleproc` and `initproc`
different) and `SchedClassContract`. `IInv` of `ProcessInv` is the inductive invariant, and
`Invariance` is `Spec => []IInv`. The safety properties follow. It adds to them:

* `PcState`: what the place of a process says about its state and wait state.
* `Tree`: parents exist, are alive, and are not `idleproc` except for init.
* `Rooted`, `Leafed`: the parent relation has no cycle, stated with sets instead of paths. In
  every non-empty set of processes one has its parent outside and one has no child inside.
  `Leafed` gives `NoStandstill`: if all slept, the set of sleepers would contain one without
  a child in it, but that one sleeps on a living child, which then does not sleep.
  `Rooted` shows that init leaves its loop last: without children of init there is no
  other process, since in the set of those one would have its parent, init, outside.
* `InitLast`: init waits for any child, and its final assertions are reached only without any.
* `Spaces`: which processes have an address space, and which table the hart uses.

The proof has one lemma per action. `ExitProtocolCorrect` and `KilledStay` derive action properties
from the same invariant; the latter is the safety half of `KilledStops`, and holds because the only ways from a
system call back to user mode, `TrapReturn` and `WaitResumed`, look at the flag. Since the class is a parameter, the theorems hold for all five, as far as they satisfy the
contract. `SlicesCorrect` is about `SliceExpires`, from `SliceContract` too. It is inductive together with `IInv`:
`schedule()` clears `need_resched` of the process it leaves, so what matters is that the next one comes from the queue,
where all have a slice, and that `do_wait()` clears the flag of a zombie, which never has the CPU.

**StrideProofs.** From `BigStrideAssumption` and `StrideAssumption`, about `NearSpec` and `NearShareSpec`. The condition in
them is one on the environment, the forks and wakeups; without it the theorems are false, and of the kernel they
hold only while it does. `WindowCorrect`: runnable
strides stay within `BIG_STRIDE` of each other. `ShareInvariance` and `FairShareCorrect`: the
wrapped difference is the true difference of charges, which never exceeds `BIG_STRIDE`. The
argument is that only a smallest process is charged and a pass is at most `BIG_STRIDE`, and that nothing else but a join
changes a stride in the group.

**ProcTableProofs.** From `PidAssumption` (`MAX_PID > MAX_PROCESS > 1`). `PidInv` says that no live pid lies
in the window the fast path relies on, and what a scan has established of it so far. It is proved of `GetPid`
(`PidInvariance`), where `PidUnique` is `Spec => []UniquePid`, and lemma by lemma again of the steps of `ProcTable`,
with `NullAssumption` (`NULL` is no pid). There `LinksExact` alone is not
inductive: it says nothing of a list in the middle of an exit. `TableInv` adds to `PidInv`

* `Chain`: what a list is without counting or recursion. It starts at `cptr`, ends at `NULL`, `yptr` is the
  inverse of `optr` on it, and every set that contains the first element and with each element the next
  one contains all children. Lemmas show that a chain stays one under each of the four changes that `set_links()`,
  `remove_links()` and the loop of `do_exit()` make: at the front, at the front with a stale `yptr`, in the
  middle, and elsewhere.
* `HeadFirst` (`Youngest`): the youngest child has no `yptr`. It is false for the process that exits, whose first
  child keeps the link to the sibling that has just been moved, and this is why `Chain` does not contain it.
* `Tree`, `States`, `FirstFork`: parents are live, who has exited has no children once its loop is done, nobody forks
  in between, and pid 1 is there before all others, so that there is an `initproc` to move children to.

`LinksAreExact` and `TablePidUnique` follow: the links hold the children of every process, and `get_pid()` never
returns a pid in use although processes are reaped between its scans.

**PmmProofs.** From `PageAssumption` (at least one page), about `SpareSpec`: without the condition that the last page is never
needed the allocator is wrong (`pmm_last_page`), so there is nothing to prove of `Spec`. `PmmInv` holds in the
middle of each loop. It says that the blocks tile the free pages (`Tiled`), that `free_list` links them in
order of address and in both directions (`IsList`, `IsSorted`), except for the block that is being freed
(`Linked`); that two blocks touch only where `base` is about to be merged (`United`); that all blocks below the
place of a search are too small (`Searching`); and that the walk of `default_free_pages()` ends
before the end of the list, because the block with the last page is above `base` (`Freeing`, `Held`).
`FreeListIsExact` is the statement between calls. `ImplementsFirstFit` is the refinement: every step of
`SpareSpec` is a step of `FirstFit` or changes nothing of it; `Searching` shows that what the walk finds is the lowest
fit, and that it finds nothing only if there is none. `NoPageTwice` is the property that `pmm_last_page`
refutes for `Spec`: the condition of `SpareSpec` is all that is missing.

**KmallocProofs.** From `KmallocAssumption` (sizes are positive, a page is a multiple of a header and larger than
a record with its header) and `OrderAssumption` (the powers of two up to `MaxOrder` are positive
numbers, which is arithmetic the provers do not have, and no size is above a page after `MaxOrder` shifts, which a C
`int` cannot violate with `MaxOrder = 19`). `HeapInv` consists of

* `Tiled`: the free blocks, those in use, and the one a call has in hand (`Transit`) are apart and
  make up the pages of the heap. In the middle of `slob_alloc()` and `slob_free()` a block is neither free nor in
  use, so `HeapExact` itself is not inductive.
* `Listed`: the list is a ring in order of address, and nothing on it touches the next block.
* `Recorded`, `Owned`: the records of large blocks are in blocks of their own and about disjoint pages; a caller's block
  has the units of its size and its header, or a record that knows its pages and its order. `kfree()` and `ksize()` tell a
  large block by its address: a small one may begin a page too, but never a page of a large block.
* `Searching`: no block on the way round from `slobfree` to the place of the search is large enough
  (`Between`). So the search is back at `slobfree` only if no block is, and after the heap has grown,
  when one is, it cannot get there: `GrowsOnce`.
* `Freeing`, `Recording`, `Waiting`: what the block in hand is, and that it is in no list.

The lemmas on lists and tilings (`RingInsert`, `RingDrop`, `TileSplit`, `TileJoin`, `TileAdd`, `Join`) take one change at a
time; `Linked`, which unites a block with both neighbours in one assignment, is shown to be an insertion
followed by at most two joins (`LinkIn`, `LinkAbove`, `LinkedShape`). `HeapIsExact`, `BlocksServe` and `HeapGrowsOnce` follow.

**PageProofs, the areas.** From `PageTableAssumption`, `AddressSpaceAssumption` (where user memory and the stack are),
`ProgramAssumption` (a program header holds natural numbers and flags, any there are, but no segment goes past the end
of the 64 bit address space) and `NullAssumption` (`NULL` is
no area and no `mm_struct`). `AreaInv` consists of

* `Spaces`: every address space, and the one a call builds or tears down, has areas made of pages of user memory, apart
  and in order, and the one found last is one of them (`IsSpace`). The lemmas follow the code: `InsertVma` shows that
  `insert_vma_struct()`, which compares a new area with its two neighbours only, keeps all of them
  apart; `MmMap` that `mm_map()` does so for every address and length; `Found` that the cache stays in the list.
* `Calling`: the local variables of the call in progress. `SrcArea` and the segment header exist whenever a step looks
  at them.
* `MemChecking`: all bytes below `start` are allowed. `find_vma()` is exact only because no two areas hold
  one address (`OneArea`), so one refused byte refuses the interval, and one area accepted is accepted up to its end.

`FindVmaIsExact` and `MemCheckIsExact` follow.

**PageProofs, the tables.** This and all that follows is about `IdealSpec`, an allocator that stays intact when memory runs out
(section 2). From the same assumptions; `PageTableAssumption` includes that there are at least four pages (a machine with less
stops in the first assertions of `check_pgdir()`), `ProgramAssumption` that a program stores into user memory only. `PagesExact`
counts references, and is not inductive: a page with one reference from a table that nothing refers to
would be counted and then leak or be freed twice. `PageInv` consists of

* `Good`, in `Rooted`: a statement about *all* tables, also those that no page directory reaches any more. A valid entry of a
  table refers to a page of the next kind, no two entries to the same page, and a page an entry refers to has count 1. Counts in it are 0
  or 1 because after the boot no page of a process is ever shared, so no cardinalities are needed until the last step. Pages
  lost by the finding `address_leak` do not disturb it.
* `Rooted`: the page directories are those of the address spaces and the one in construction, each of its own
  (`Separate`), and `boot_pgdir` has no user half after the checks.
* `BootInv`: `check_pgdir()` and `check_boot_pgdir()` do share a page, map it at two addresses and replace a mapping. There the table
  that is made first, its one directory and the entries 0 and 1 are known, and the count of a page is the
  number of the two that refer to it, plus the one that the test adds by hand (`BootPages`, `Uses`).
* `Filling`, `Cursor`: the loops of `load_icode()` and `copy_range()` stay in user memory and in the area they work
  on. Hence every index that is used is one of a table.

The lemmas take the operations of `pmm.c` one at a time. `Hooked` and `Pruned` are the two ways in which the forest changes: an entry
is set to a page that nothing refers to, or a set of entries is cleared and with it the pages they refer to. `HookGood`
and `PruneGood` show that each keeps `Good`; `GetPteGrows`, `InsertKeeps`, `UnmapKeeps` and `ExitRangeKeeps` reduce
`get_pte()`, `page_insert()`, `unmap_range()` and `exit_range()` to them. For `exit_range()` the
point is that the page tables and the directories that it frees are disjoint and nothing outside refers to them, which
holds also where it frees a directory too early. One lemma per action does the rest. `TreesExact` and `TestsExact`
derive `PagesExact` from `AreaInv` and `PageInv`, where the cardinality of the set of slots that refer to a page
is found to be the count.

**MapProofs.** Nothing further is assumed. `MapInv` says of every address space that it fits (`Fits`): what is mapped lies in
an area and has the permissions of its segment, or all of them on the stack (`Within`, `PagePerm`), and the pages of an area are mapped (`Backed`), unless it is the
stack or the area of an empty segment. An address space in construction does so but for one area, and how much of
that is mapped is the invariant of the loop at work:

* `FillingMap`: in `load_icode()` all pages of the segment below `la` are mapped. The two loops share `la` and `start`;
  `start` is above the address of the last page mapped whenever the second takes over from the first, so no page
  is left out between what the file holds and the rest, wherever in a page the file ends.
* `CopyingMap`: in `copy_range()` what is mapped in the parent below `la` is in the child too. The step that skips to the next
  region when the parent has no page table there skips nothing that is mapped (`SameRegion`). With `Within` of the parent
  the permissions are right, and with `Backed` of the parent the whole area is backed when the loop ends.

The lemmas before say what an operation does to *all* mappings, of all directories. `pte()` reads three entries, and
`PlacedMap`, `PrunedMap` and `OtherMaps` derive from the forest of `PageProofs` that an entry set or cleared
changes one address in one directory: two ways that share a table are one way (`LeadsOnce`), and what is
torn down is reached from no other directory. `AreasAreExact` follows.

`LossInv` says why nothing is lost. A page of user memory that is not mapped is `Stray`, a table that no entry refers
to an `Orphan`; there is never a stray page, and no orphan unless an untidy address space was torn down (`NothingLost`). That every call keeps this
(`NoneLost`) is shown per operation: `page_insert()` frees what it replaces, `pgdir_alloc_page()` gives the page back when there is no
table for it. What needs an invariant is the teardown, which sees areas and not tables:

* `Unmapping`: in the first loop of `exit_mmap()` all that is still mapped lies in an area the loop has not come to, which holds at its
  start because of `Within`. So `put_pgdir()` frees a directory that maps nothing.
* `Covered`: every level 0 directory is one that some area reaches into. A directory is made only for a page of an area, and
  a failing `load_icode()` or `copy_mm()` has put the area in the list before. With `Exiting` the second loop comes to
  every directory, and if the address space was `Tidy`, frees it with all its page tables (`TidySwept`). `Tidy` must stay
  true of what the loop has not come to, so it is part of the invariant.

`LossIsBounded` follows: what is not lost is found by going from a page up to the directory at the root (`OwnedPages`, `OwnedTable`).

**ImageProofs.** From the same assumptions and `ImageAssumption`: `NULL` is not the memory of a process. What a process sees is a
function of three things, its directory, the tables and the bytes of the pages. `MappedOnce` derives from the forest that a page is
mapped once, by one directory at one address, so bytes written for one process at one address are seen there only; `OtherImages` and `SameBut`
say so of every operation. `ImageInv` is what remains to be known in the middle of a call:

* `AllIn`: the segments `load_icode()` is done with are in memory byte by byte, what the file holds and then zeros.
* `FillingImage`: so is the one in progress, up to `start`. Where the file ends inside a page, the second loop clears the rest of
  `call.page`, a variable the first loop leaves behind; the invariant is that this is the page mapped there.
* `Clear`: the next area, and the stack, hold no byte of a segment that is loaded. Nothing in `load_icode()` tests this: it follows because such a
  byte is mapped, hence in an area (`Within`), and `mm_map()` refuses one that overlaps.
* `CopyingImage`: all that is mapped in the child is what the parent has there (`Agreed`), and in the areas `dup_mmap()` is done
  with, all that is mapped in the parent is mapped in the child (`CopiedTo`).

`OnlyInv` is the other direction for exec: what is mapped in the address space that `load_icode()` builds is a page of a segment
it is done with, a page of the one in progress, or a page of the stack (`Belongs`). That this is no more than the program asks for
needs that both loops end with the last byte of the segment, wherever in a page it starts and ends.

`MemoryIsCorrect` is the refinement: a step that begins to load or to copy is `Ask` of `UserMemory`, one that gives a process its
finished `mm_struct` is `Exec` of the program, or `Fork` of the process, that was asked for, one that gives up is `Refuse`, one
that takes an address space away is `Drop`, a store is `Store`, and every other step, all loops and
failures of the calls included, changes nothing that any process sees. `HoldsWithSpare` restates this, `PagesExact`, `LossBounded`
and `AreasExact` for `SpareSpec`, the machine on which the allocator of this kernel is as assumed.

**Only model-checked.**

* Liveness (`CallReturns`, `NoStarvation`, `WaitReturns`, `KilledStops`), which needs fairness and `ENABLED`.
* Everything about the skew heap and the string library, whose operators are recursive: `PoolCorrect`,
  `PicksFirst`, `LibraryExact`, that `StrideRun` implements `Stride`, and that the classes satisfy
  `SchedClassContract` and `SliceContract`.

Under the heap classes liveness is checked on `Stride`, not on the composition with `Process`;
under FIFO, HPF and SJF starvation is what the class does.

## 5. Not modelled

* The kernel half of a page directory, which no code changes after boot; `boot_map_segment()` and
  `boot_alloc_page()`, which have no caller; `print_pgdir()`, which only prints. The self-tests
  `check_vma_struct()` and `default_check()` call operations that the runs try in every order.
* The branch of `slob_alloc()` for `align > 0`, which has no caller, and `kmalloc(0)`, which nobody calls.
* Page faults of a program: this kernel has no `do_pgfault()`. It prints a line and repeats the instruction
  (`trap.c:223`), so a faulting program changes nothing and goes on until its slice ends. Page faults of the kernel
  itself never end, since interrupts are masked; they are `exec_fault` and `wait_fault` of `Process`.
* What `pmm.c` and its callers do with a free list that `default_pmm.c` has damaged: see section 2.
* Program headers whose sums wrap around 64 bits: see section 2.
* `timer_list` is declared and never used. `mm_lock` is never contended.
* The list variant of the stride class (`USE_SKEW_HEAP` 0), which is not compiled.
* Exit codes and trap frames are data that no control depends on.
* `vprintfmt()`, `rand()` and `hash32()`: formatting, and functions no control depends on.
* Console, clock, device tree and interrupt controller are pure I/O, as are the monitor and the symbol printer.
* `user/*.c` are programs; a model program may issue any system call at any time. The build and
  grading tools are not part of the kernel.

## 6. Findings

With a run:

* `stride_order`: strides of queued processes may be more than `BIG_STRIDE` apart (a sleeper
  keeps its stride, a new process starts at 0), and then the process picked need not have the
  minimum. `Stride` states the condition under which it does.
* `pmm_last_page`: a block freed above all blocks of a non-empty list is appended by a loop that is not
  left, and then linked to itself (`default_pmm.c:173`). Its `prev` link is wrong from then on: it is not
  merged, `list_del()` does not unlink it, and a few calls later pages in use are handed out
  again. The allocator's own test asserts the opposite (`default_pmm.c:219`). It takes a machine that has used up its
  memory once, because only then is the last page in use. The first calls to meet it are an exec or a fork that fail for lack
  of memory: what they free is lost or linked twice (section 2).
* `address_leak`: `exit_range()` decides whether to free a level 0 directory by the entries of the area it was
  called for (`pmm.c:358`). When two areas share a directory, the first one frees it although
  page tables of the other are in it, and these are never freed. `user/testbss.c` is such a program:
  its bss of 4 MB lies in three regions of 2 MB, of which the text shares the directory; every exit of it loses
  the page tables of the others.

In the model of a passing run, whose property states what the code does:

* `do_wait()` stores the exit code through a pointer that `user_mem_check()` accepted by its area (`proc.c:907`). Only four pages
  of the stack area are mapped, so the store may fault in the kernel, which prints a line and repeats it for ever with
  interrupts masked (`wait_fault`, `process_rr_live`).
* The pages of the stack are executable, `PTE_USER` (`proc.c:749`), in an area without `VM_EXEC` (`PagePerm`, `address_space`).
* `mm_map()` and `load_icode()` do not look for sums that wrap around (`vmm.c:173`, `proc.c:711`): a segment of 2^64 - 1 bytes at an
  unaligned address gets an area of one page, and then a size underflows. `Word` computes as the code does, and
  `ProgramAssumption` excludes such files.
* The comment on `find_vma()` has the end of an area in it (`vmm.c:76`); the code has not (`FindVmaExact`).
* The comment on `strtol()` has a prefix "0X" (`string.c:199`); the code reads it as the number 0 (`NumberFacts`).

Without a run of their own:

* `do_wait()` looks at `PF_EXITING` after `schedule()` only (`proc.c:893`). A process that
  was killed while it was runnable may go to sleep in `do_wait()` and stay there, and further
  kills return `-E_KILLED` without waking it. The comment at `proc.c:56` describes kill as
  leading to `do_exit`. It never executes user code again (`KilledStay`).
* A process that yields is queued with the rest of its slice (`default_sched.c:93`);
  the comment at `default_sched.c:197` promises a full one.
* `load_icode()` does not skip a segment without bytes: the `continue` is commented out (`proc.c:665`). At
  an unaligned address such a segment gets an area of one page that is not mapped (`EmptyArea`), and `user_mem_check()`
  then allows it to be used, as far as the flags go.
* `kmalloc()` sends sizes of 4064 to 4079 bytes to `slob_alloc()`, whose assertion they fail (`kmalloc.c:234`, `kmalloc.c:99`).
* `find_order()` halves rounding down (`kmalloc.c:223`): 8193 bytes get two pages. No caller
  asks for such sizes. `ksize()` of a small block counts its header.
* `user/schedbench.c:18` names build flags for all classes; `sched_init()` knows
  `DEBUG_GRADE` (round robin) and otherwise selects stride.

## 7. Plan

Done: `Process` and its proofs; the classes; `GetPid`, `ProcTable`; `SkewHeap`, `Stride` and
its proofs; `List`, `Pmm`; `PageTable`, `AddressSpace`; `Kmalloc`; `LibString`;
and the proofs about `ProcTable`, `Pmm`, `Kmalloc`, and the areas, page tables, mappings, losses and contents of
`AddressSpace`.

Next: the composition of `Process` with `AddressSpace`, so that `ExecFail` and a failing fork are those that memory
causes.
