------------------------------- MODULE GetPid -------------------------------
(***************************************************************************)
(* get_pid() of kern/process/proc.c, one step per process visited in       *)
(* proc_list.  do_fork() calls it with interrupts masked, so no process    *)
(* comes or goes during a scan.  The order of proc_list is left open.      *)
(***************************************************************************)
EXTENDS Integers, FiniteSets

CONSTANTS MaxPid, MaxProcess

\* static_assert(MAX_PID > MAX_PROCESS)
ASSUME PidAssumption ==
    /\ MaxPid \in Nat /\ MaxProcess \in Nat
    /\ MaxPid > MaxProcess /\ MaxProcess > 1

Pid == 1 .. MaxPid - 1

VARIABLES
    live,       \* the pids in proc_list; idleproc is not in it
    last_pid,   \* static variables of get_pid()
    next_safe,
    mode,       \* "done", or where the call in progress is
    seen        \* the pids the current scan has visited

vars == <<live, last_pid, next_safe, mode, seen>>

Init ==
    /\ live = {} /\ seen = {}
    /\ last_pid = MaxPid /\ next_safe = MaxPid
    /\ mode = "done"

\* The counter after last_pid.
NextPid == IF last_pid + 1 >= MaxPid THEN 1 ELSE last_pid + 1

\* Entry of get_pid(), from do_fork() below its limit: nr_process counts
\* idleproc too.  A pid inside the safe window is taken without a scan.
Enter ==
    /\ mode = "done" /\ Cardinality(live) + 1 < MaxProcess
    /\ last_pid' = NextPid
    /\ IF last_pid + 1 >= MaxPid \/ last_pid + 1 >= next_safe
       THEN next_safe' = MaxPid /\ mode' = "scan"
       ELSE next_safe' = next_safe /\ mode' = "return"
    /\ seen' = {}
    /\ UNCHANGED live

\* Mutation: the scan is not restarted when the window is exhausted.
MutNoRestart(q) ==
    /\ mode = "scan" /\ q \in live \ seen
    /\ IF q = last_pid
       THEN last_pid' = NextPid /\ UNCHANGED next_safe
       ELSE /\ next_safe' = IF q > last_pid /\ next_safe > q THEN q ELSE next_safe
            /\ UNCHANGED last_pid
    /\ seen' = seen \cup {q}
    /\ UNCHANGED <<live, mode>>

\* Mutation: a pid above the candidate does not end the window.
MutNoShrink(q) ==
    /\ mode = "scan" /\ q \in live \ seen
    /\ IF q = last_pid
       THEN last_pid' = NextPid /\ seen' = {}
       ELSE UNCHANGED last_pid /\ seen' = seen \cup {q}
    /\ UNCHANGED <<live, next_safe, mode>>

\* Mutation: a candidate in use is tried again.
MutRetry(q) ==
    /\ mode = "scan" /\ q \in live \ seen
    /\ IF q = last_pid
       THEN next_safe' = MaxPid /\ seen' = {}
       ELSE /\ next_safe' = IF q > last_pid /\ next_safe > q THEN q ELSE next_safe
            /\ seen' = seen \cup {q}
    /\ UNCHANGED <<live, last_pid, mode>>

\* One process of the list: step over a pid in use, starting again when the
\* window is exhausted, or shrink the window to end before it.
Visit(q) ==
    /\ mode = "scan" /\ q \in live \ seen
    /\ IF q = last_pid
       THEN IF last_pid + 1 >= next_safe
            THEN /\ last_pid' = NextPid
                 /\ next_safe' = MaxPid
                 /\ seen' = {}
            ELSE /\ last_pid' = last_pid + 1
                 /\ seen' = seen \cup {q}
                 /\ UNCHANGED next_safe
       ELSE /\ next_safe' = IF q > last_pid /\ next_safe > q THEN q ELSE next_safe
            /\ seen' = seen \cup {q}
            /\ UNCHANGED last_pid
    /\ UNCHANGED <<live, mode>>

ScanDone ==
    /\ mode = "scan" /\ seen = live
    /\ mode' = "return"
    /\ UNCHANGED <<live, last_pid, next_safe, seen>>

\* do_fork(): proc->pid = get_pid(), then set_links().
Return ==
    /\ mode = "return"
    /\ live' = live \cup {last_pid}
    /\ mode' = "done" /\ seen' = {}
    /\ UNCHANGED <<last_pid, next_safe>>

\* do_wait(): remove_links().  initproc, pid 1, stays.
Reap(q) ==
    /\ mode = "done" /\ q \in live \ {1}
    /\ live' = live \ {q}
    /\ UNCHANGED <<last_pid, next_safe, mode, seen>>

Next == \/ Enter \/ ScanDone \/ Return
        \/ \E q \in live : Visit(q) \/ Reap(q)

Spec == Init /\ [][Next]_vars

-----------------------------------------------------------------------------
\* The static variables and the list keep values of their types.
TypeOK ==
    /\ live \in SUBSET Pid /\ seen \in SUBSET live
    /\ last_pid \in 1 .. MaxPid /\ next_safe \in 1 .. MaxPid
    /\ mode \in {"done", "scan", "return"}

\* "get_pid - alloc a unique pid for process": the pid returned is in range
\* and no live process has it, also after the counter has wrapped around.
UniquePid == mode = "return" => last_pid \in Pid /\ last_pid \notin live

\* The window the fast path relies on: no live pid is strictly between
\* last_pid and next_safe, whatever processes came and went since the scan.
SafeWindow ==
    mode = "done" => \A q \in live : ~(last_pid < q /\ q < next_safe)

\* What a scan has established so far about the candidate last_pid.
ScanWindow ==
    /\ mode # "done" => last_pid < MaxPid
    /\ mode = "scan" => last_pid < next_safe
    /\ mode = "scan" => \A q \in seen : ~(last_pid <= q /\ q < next_safe)
    /\ mode = "return" => \A q \in live : ~(last_pid <= q /\ q < next_safe)

\* Nothing is remembered of a scan between two calls.
NoScan == mode = "done" => seen = {}

\* The inductive invariant of get_pid(): it combines the windows of the scan and
\* of the fast path.
PidInv == TypeOK /\ SafeWindow /\ ScanWindow /\ NoScan /\ UniquePid

\* A call of get_pid() returns: below MAX_PROCESS there is a free pid, and the
\* restarts of the scan reach it.
CallReturns == mode = "scan" ~> mode = "done"
=============================================================================
