----------------------------- MODULE UserMemory -----------------------------
(***************************************************************************)
(* What kern/mm promises to user programs: exec loads the program it is    *)
(* asked for and nothing else, fork copies the memory of the process that  *)
(* calls it, and from then on a store of one process is seen by no other.  *)
(***************************************************************************)
EXTENDS Integers, Sequences

CONSTANTS
    Space,          \* the processes
    Programs,       \* the programs that may be loaded, see AddressSpace
    Stack,          \* the addresses of the stack
    PGSIZE,         \* the size of a page
    Written,        \* what a store writes
    NULL

VARIABLES
    image,      \* the mapped bytes of each process; NULL if it has none
    asked       \* the exec or fork in progress, or NULL

Init == image = [s \in Space |-> NULL] /\ asked = NULL

Execs == [op : {"exec"}, proc : Space, prog : Programs]
Forks == [op : {"fork"}, proc : Space, src : Space]

\* A call for a process that has no memory: exec drops the old one first.
Ask ==
    /\ asked = NULL /\ asked' \in Execs \cup Forks
    /\ image[asked'.proc] = NULL
    /\ asked' \in Forks => image[asked'.src] # NULL
    /\ UNCHANGED image

\* It fails.
Refuse == asked # NULL /\ asked' = NULL /\ UNCHANGED image

Bytes(segment) == segment.va .. segment.va + segment.memsz - 1

\* A program that can be loaded.
Valid(prog) ==
    /\ prog.magic
    /\ \A k \in DOMAIN prog.segments : prog.segments[k].filesz <= prog.segments[k].memsz

\* The image has the bytes the file says, with zeros up to the memory size,
Loaded(img, prog) ==
    \A k \in DOMAIN prog.segments : \A a \in Bytes(prog.segments[k]) :
        LET ph == prog.segments[k]
        IN  /\ a \in DOMAIN img
            /\ img[a] = IF a < ph.va + ph.filesz THEN ph.offset + (a - ph.va) ELSE 0

\* and no more than the pages they are on, and the stack.  (What else is on
\* these pages is left open.)
SamePage(a, b) == a \div PGSIZE = b \div PGSIZE
NoMore(img, prog) ==
    \A a \in DOMAIN img \ Stack :
        \E k \in DOMAIN prog.segments : \E b \in Bytes(prog.segments[k]) : SamePage(a, b)

Exec ==
    /\ asked \in Execs /\ Valid(asked.prog)
    /\ LET new == image'[asked.proc]
       IN  /\ new # NULL /\ Loaded(new, asked.prog) /\ NoMore(new, asked.prog)
           /\ image' = [image EXCEPT ![asked.proc] = new]
    /\ asked' = NULL

Fork ==
    /\ asked \in Forks
    /\ image' = [image EXCEPT ![asked.proc] = image[asked.src]]
    /\ asked' = NULL

\* exit, or exec, before it loads.
Drop ==
    /\ asked = NULL /\ asked' = NULL
    /\ \E s \in Space : image' = [image EXCEPT ![s] = NULL]

Store ==
    /\ asked = NULL /\ asked' = NULL
    /\ \E s \in Space :
          /\ image[s] # NULL
          /\ \E a \in DOMAIN image[s] : image' = [image EXCEPT ![s] = [@ EXCEPT ![a] = Written]]

Next == Ask \/ Exec \/ Fork \/ Refuse \/ Drop \/ Store

vars == <<image, asked>>

Spec == Init /\ [][Next]_vars
=============================================================================
