----------------------------- MODULE ProcTable -----------------------------
(***************************************************************************)
(* The family links of kern/process/proc.c: the children of a process form *)
(* a list from its youngest child cptr along optr (older), with yptr       *)
(* (younger) pointing back.  fork, exit and wait change them, with pids    *)
(* from GetPid; a step is one round of a loop, with interrupts masked.     *)
(***************************************************************************)
EXTENDS GetPid

CONSTANT NULL           \* the null pointer

ASSUME NullAssumption == NULL \notin Int

idleproc == 0
initproc == 1

VARIABLES
    links,      \* the fields parent, cptr, yptr and optr of every process
    zombie,     \* the processes that have exited and were not waited for
    exiting     \* the process whose do_exit() moves its children, or NULL

tableVars == <<links, zombie, exiting>>

NoLinks == [p \in {idleproc} \cup Pid |-> NULL]

TableInit ==
    /\ Init
    /\ links = [parent |-> NoLinks, cptr |-> NoLinks, yptr |-> NoLinks, optr |-> NoLinks]
    /\ zombie = {} /\ exiting = NULL

\* q->yptr = y, if there is such a q.
SetYptr(l, q, y) == IF q = NULL THEN l ELSE [l EXCEPT !.yptr[q] = y]

\* c becomes the youngest child of p.  Mutation: the child that was the
\* youngest does not learn of it.
MutNoYounger(l, p, c) ==
    [l EXCEPT !.parent[c] = p, !.optr[c] = l.cptr[p], !.yptr[c] = NULL, !.cptr[p] = c]
set_links(l, p, c) ==
    [SetYptr(l, l.cptr[p], c) EXCEPT
        !.parent[c] = p, !.optr[c] = l.cptr[p], !.yptr[c] = NULL, !.cptr[p] = c]

\* The siblings of c close the gap.  (The fields of c are not read again.)
remove_links(l, c) ==
    LET o == l.optr[c]
        y == l.yptr[c]
        g == SetYptr(l, o, y)
        h == IF y # NULL THEN [g EXCEPT !.optr[y] = o]
             ELSE [g EXCEPT !.cptr[l.parent[c]] = o]
    IN  [h EXCEPT !.parent[c] = NULL, !.optr[c] = NULL, !.yptr[c] = NULL]

\* do_fork() of p, with the pid from get_pid().  idleproc forks initproc only.
Fork(p) ==
    /\ IF live = {} THEN p = idleproc ELSE p \in live \ zombie
    /\ Return
    /\ links' = set_links(links, p, last_pid)
    /\ UNCHANGED <<zombie, exiting>>

\* do_exit() of p; initproc must not exit.
Exit(p) ==
    /\ mode = "done" /\ exiting = NULL /\ p \in live \ (zombie \cup {initproc})
    /\ zombie' = zombie \cup {p} /\ exiting' = p
    /\ UNCHANGED <<vars, links>>

\* One round of its loop: the youngest child moves to initproc.
Reparent ==
    /\ exiting # NULL /\ links.cptr[exiting] # NULL
    /\ LET c == links.cptr[exiting]
       IN  links' = set_links([links EXCEPT !.cptr[exiting] = links.optr[c]], initproc, c)
    /\ UNCHANGED <<vars, zombie, exiting>>

ExitDone ==
    /\ exiting # NULL /\ links.cptr[exiting] = NULL
    /\ exiting' = NULL
    /\ UNCHANGED <<vars, links, zombie>>

\* do_wait() of the parent finds c.
Wait(c) ==
    /\ exiting = NULL /\ c \in zombie
    /\ Reap(c)
    /\ links' = remove_links(links, c)
    /\ zombie' = zombie \ {c}
    /\ UNCHANGED exiting

Scan == Enter \/ ScanDone \/ \E q \in live : Visit(q)

TableNext ==
    \/ exiting = NULL /\ Scan /\ UNCHANGED tableVars
    \/ \E p \in live \cup {idleproc} : Fork(p) \/ Exit(p) \/ Wait(p)
    \/ Reparent \/ ExitDone

allVars == <<vars, tableVars>>

\* A call in progress runs to its end: whoever may fork does.
TableSpec ==
    /\ TableInit /\ [][TableNext]_allVars
    /\ WF_allVars(/\ UNCHANGED tableVars
                  /\ ScanDone \/ \E q \in live : Visit(q))
    /\ WF_allVars(\E p \in live \cup {idleproc} : Fork(p))
    /\ WF_allVars(Reparent \/ ExitDone)

-----------------------------------------------------------------------------
Children(p) == {c \in live : links.parent[c] = p}

\* The walk of do_wait() from p->cptr along optr stays in S.
Walks(p, S) ==
    /\ links.cptr[p] \in S \cup {NULL}
    /\ \A c \in S : links.optr[c] \in S \cup {NULL}

\* The list of a process visits all its children and nobody else (no smaller
\* set holds the walk), and leads back along yptr: so do_wait() finds every
\* zombie, and remove_links() repairs the right list, after any sequence of
\* forks, exits and waits.  A zombie has no children.
LinksExact ==
    exiting = NULL =>
        \A p \in live \cup {idleproc} :
            LET kids == Children(p)
                youngest == links.cptr[p]
            IN  /\ Walks(p, kids)
                /\ \A S \in SUBSET kids : Walks(p, S) => S = kids
                /\ youngest # NULL => links.yptr[youngest] = NULL
                /\ \A c \in kids : links.optr[c] # NULL => links.yptr[links.optr[c]] = c
                /\ p \in zombie => kids = {}
=============================================================================
