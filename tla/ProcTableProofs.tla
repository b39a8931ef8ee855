-------------------------- MODULE ProcTableProofs --------------------------
(***************************************************************************)
(* get_pid() returns a unique pid and the family links of proc.c stay      *)
(* exact, for every MAX_PID, MAX_PROCESS and number of processes.          *)
(* The lists of children are linked without a sentinel: a list is a set of *)
(* processes that its walk visits, with no smaller set that holds the walk. *)
(***************************************************************************)
EXTENDS ProcTable, TLAPS

\* A step of get_pid(), do_fork() or do_wait() keeps the windows.
LEMMA StepInv == PidInv /\ [Next]_vars => PidInv'
<1> SUFFICES ASSUME PidInv, [Next]_vars PROVE PidInv'
  OBVIOUS
<1> USE PidAssumption DEF PidInv, TypeOK, Pid, SafeWindow, ScanWindow, UniquePid, NoScan
<1>1. CASE Enter
  BY <1>1 DEF Enter, NextPid
<1>2. CASE ScanDone
  BY <1>2 DEF ScanDone
<1>3. CASE Return
  BY <1>3 DEF Return
<1>4. ASSUME NEW q \in live, Visit(q) PROVE PidInv'
  <2>1. CASE q = last_pid /\ last_pid + 1 >= next_safe
    <3>1. /\ last_pid' = IF last_pid + 1 >= MaxPid THEN 1 ELSE last_pid + 1
          /\ next_safe' = MaxPid /\ seen' = {}
          /\ live' = live /\ mode' = mode /\ mode = "scan"
      BY <1>4, <2>1 DEF Visit, NextPid
    <3>2. last_pid' \in Pid /\ last_pid' < next_safe'
      BY <3>1
    <3> QED BY <3>1, <3>2
  <2>2. CASE q = last_pid /\ ~(last_pid + 1 >= next_safe)
    <3>1. /\ last_pid' = last_pid + 1 /\ seen' = seen \cup {q} /\ next_safe' = next_safe
          /\ live' = live /\ mode' = mode /\ mode = "scan"
      BY <1>4, <2>2 DEF Visit
    <3>2. last_pid' < next_safe' /\ last_pid' < MaxPid
      BY <3>1, <2>2
    <3>3. \A r \in seen' : ~(last_pid' <= r /\ r < next_safe')
      BY <3>1, <2>2
    <3> QED BY <3>1, <3>2, <3>3
  <2>3. CASE q # last_pid
    <3>1. /\ next_safe' = IF q > last_pid /\ next_safe > q THEN q ELSE next_safe
          /\ seen' = seen \cup {q} /\ last_pid' = last_pid
          /\ live' = live /\ mode' = mode /\ mode = "scan"
      BY <1>4, <2>3 DEF Visit
    <3>2. next_safe' \in 1 .. MaxPid /\ last_pid' < next_safe' /\ next_safe' <= next_safe
      BY <3>1
    <3>3. ~(last_pid' <= q /\ q < next_safe')
      BY <3>1, <2>3
    <3> QED BY <3>1, <3>2, <3>3
  <2> QED BY <2>1, <2>2, <2>3
<1>5. ASSUME NEW q \in live, Reap(q) PROVE PidInv'
  <2>1. /\ live' = live \ {q} /\ mode = "done"
        /\ UNCHANGED <<last_pid, next_safe, mode, seen>>
    BY <1>5 DEF Reap
  <2>2. seen = {}
    BY <2>1
  <2> QED BY <2>1, <2>2
<1>6. CASE UNCHANGED vars
  BY <1>6 DEF vars
<1> QED BY <1>1, <1>2, <1>3, <1>4, <1>5, <1>6 DEF Next

\* The safe window of get_pid() is right in every reachable state.
THEOREM PidInvariance == Spec => []PidInv
<1>1. Init => PidInv
  BY PidAssumption DEF Init, PidInv, TypeOK, Pid, SafeWindow, ScanWindow,
            UniquePid, NoScan
<1> QED BY <1>1, StepInv, PTL DEF Spec

\* get_pid() never returns a pid that a live process has.
THEOREM PidUnique == Spec => []UniquePid
<1>1. PidInv => UniquePid
  BY DEF PidInv
<1> QED BY <1>1, PidInvariance, PTL

-----------------------------------------------------------------------------
\* first, older[first], ... lists the set K, and younger leads back.  What the
\* first entry has for a younger one is outside K.
Chain(first, older, younger, K) ==
    /\ first \in K \cup {NULL} /\ \A c \in K : older[c] \in K \cup {NULL}
    /\ \A S \in SUBSET K :
          first \in S \cup {NULL} /\ (\A c \in S : older[c] \in S \cup {NULL}) => S = K
    /\ \A c \in K : older[c] # NULL => younger[older[c]] = c
    /\ first # NULL => younger[first] \notin K

\* Links of other entries do not matter.
LEMMA ChainSame ==
    ASSUME NEW f, NEW o, NEW y, NEW K, Chain(f, o, y, K),
           NEW o2, NEW y2, \A x \in K : o2[x] = o[x] /\ y2[x] = y[x]
    PROVE  Chain(f, o2, y2, K)
<1>1. \A S \in SUBSET K :
         f \in S \cup {NULL} /\ (\A c \in S : o2[c] \in S \cup {NULL}) => S = K
  BY DEF Chain
<1>2. \A c \in K : o2[c] # NULL => y2[o2[c]] = c
  BY DEF Chain
<1> QED BY <1>1, <1>2 DEF Chain

\* A new first entry c.
LEMMA ChainInsert ==
    ASSUME NEW f, NEW o, NEW y, NEW K, Chain(f, o, y, K), NULL \notin K,
           NEW c, c \notin K, c # NULL,
           NEW o2, o2[c] = f, \A x \in K : o2[x] = o[x],
           NEW y2, y2[c] = NULL, \A x \in K : y2[x] = IF x = f THEN c ELSE y[x]
    PROVE  Chain(c, o2, y2, K \cup {c})
<1>1. \A x \in K \cup {c} : o2[x] \in (K \cup {c}) \cup {NULL}
  BY DEF Chain
<1>2. ASSUME NEW S \in SUBSET (K \cup {c}), c \in S \cup {NULL},
             \A x \in S : o2[x] \in S \cup {NULL}
      PROVE  S = K \cup {c}
  <2>1. c \in S /\ S \ {c} \in SUBSET K
    BY <1>2
  <2>2. f \in (S \ {c}) \cup {NULL}
    BY <2>1, <1>2 DEF Chain
  <2>3. \A x \in S \ {c} : o[x] \in (S \ {c}) \cup {NULL}
    BY <2>1, <1>2 DEF Chain
  <2>4. S \ {c} = K
    BY <2>1, <2>2, <2>3 DEF Chain
  <2> QED BY <2>1, <2>4
<1>3. ASSUME NEW x \in K \cup {c}, o2[x] # NULL PROVE y2[o2[x]] = x
  <2>1. CASE x = c
    BY <2>1, <1>3 DEF Chain
  <2>2. CASE x # c
    <3>1. o2[x] = o[x] /\ o[x] \in K /\ y[o[x]] = x /\ x \in K
      BY <2>2, <1>3 DEF Chain
    <3>2. o[x] # f
      BY <3>1, <1>3 DEF Chain
    <3> QED BY <3>1, <3>2
  <2> QED BY <2>1, <2>2
<1> QED BY <1>1, <1>2, <1>3 DEF Chain

\* The first entry leaves.  The new first entry may keep its link to it.
LEMMA ChainPop ==
    ASSUME NEW f, NEW o, NEW y, NEW K, Chain(f, o, y, K), NULL \notin K, f # NULL,
           NEW o2, \A x \in K \ {f} : o2[x] = o[x],
           NEW y2, \A x \in K \ {f, o[f]} : y2[x] = y[x],
           o[f] # NULL => y2[o[f]] \in {f, NULL}
    PROVE  o[f] # f /\ Chain(o[f], o2, y2, K \ {f})
<1>1. f \in K /\ \A x \in K : o[x] # f
  BY DEF Chain
<1>2. o[f] \in (K \ {f}) \cup {NULL} /\ \A x \in K \ {f} : o2[x] \in (K \ {f}) \cup {NULL}
  BY <1>1 DEF Chain
<1>3. ASSUME NEW S \in SUBSET (K \ {f}), o[f] \in S \cup {NULL},
             \A x \in S : o2[x] \in S \cup {NULL}
      PROVE  S = K \ {f}
  <2>1. S \cup {f} \in SUBSET K /\ \A x \in S \cup {f} : o[x] \in (S \cup {f}) \cup {NULL}
    BY <1>1, <1>3
  <2>2. S \cup {f} = K
    BY <2>1 DEF Chain
  <2> QED BY <2>2
<1>4. ASSUME NEW x \in K \ {f}, o2[x] # NULL PROVE y2[o2[x]] = x
  <2>1. o2[x] = o[x] /\ o[x] \in K /\ o[x] # f /\ y[o[x]] = x
    BY <1>1, <1>4 DEF Chain
  <2>2. o[x] # o[f]
    BY <2>1, <1>1 DEF Chain
  <2> QED BY <2>1, <2>2
<1>5. o[f] # NULL => y2[o[f]] \notin K \ {f}
  OBVIOUS
<1> QED BY <1>1, <1>2, <1>3, <1>4, <1>5 DEF Chain

\* An entry that is not the first has a younger one.
LEMMA ChainYounger ==
    ASSUME NEW f, NEW o, NEW y, NEW K, Chain(f, o, y, K), NULL \notin K, NEW c \in K, c # f
    PROVE  y[c] \in K /\ o[y[c]] = c /\ y[c] # c
<1>1. \E x \in K \ {c} : o[x] = c
  <2> SUFFICES ASSUME \A x \in K \ {c} : o[x] # c PROVE FALSE
    OBVIOUS
  <2>1. f \in (K \ {c}) \cup {NULL} /\ \A x \in K \ {c} : o[x] \in (K \ {c}) \cup {NULL}
    BY DEF Chain
  <2>2. K \ {c} = K
    BY <2>1 DEF Chain
  <2> QED BY <2>2
<1>2. PICK x \in K \ {c} : o[x] = c
  BY <1>1
<1>3. y[c] = x
  BY <1>2 DEF Chain
<1> QED BY <1>2, <1>3

\* Such an entry leaves, and its neighbours close the gap.
LEMMA ChainRemove ==
    ASSUME NEW f, NEW o, NEW y, NEW K, Chain(f, o, y, K), NULL \notin K, NEW c \in K, c # f,
           NEW o2, \A x \in K \ {c} : o2[x] = IF x = y[c] THEN o[c] ELSE o[x],
           NEW y2, \A x \in K \ {c} : y2[x] = IF x = o[c] THEN y[c] ELSE y[x]
    PROVE  o[c] # f /\ Chain(f, o2, y2, K \ {c})
<1>1. y[c] \in K /\ o[y[c]] = c /\ y[c] # c
  BY ChainYounger
<1>2. o[c] # c /\ o[c] # f /\ \A x \in K : o[x] = c => x = y[c]
  <2>1. f # NULL
    <3> SUFFICES ASSUME f = NULL PROVE FALSE
      OBVIOUS
    <3> DEFINE S == {}
    <3>1. S \in SUBSET K /\ f \in S \cup {NULL} /\ \A x \in S : o[x] \in S \cup {NULL}
      OBVIOUS
    <3> HIDE DEF S
    <3>2. S = K
      BY <3>1 DEF Chain
    <3> QED BY <3>2 DEF S
  <2>2. o[c] # f
    BY <2>1 DEF Chain
  <2> QED BY <2>2, <1>1 DEF Chain
<1>3. f \in (K \ {c}) \cup {NULL} /\ \A x \in K \ {c} : o2[x] \in (K \ {c}) \cup {NULL}
  BY <1>1, <1>2 DEF Chain
<1>4. ASSUME NEW S \in SUBSET (K \ {c}), f \in S \cup {NULL},
             \A x \in S : o2[x] \in S \cup {NULL}
      PROVE  S = K \ {c}
  <2>1. CASE y[c] \in S
    <3>1. o[c] \in S \cup {NULL}
      BY <2>1, <1>4
    <3>2. S \cup {c} \in SUBSET K /\ \A x \in S \cup {c} : o[x] \in (S \cup {c}) \cup {NULL}
      BY <3>1, <1>1, <1>4
    <3>3. S \cup {c} = K
      BY <3>2, <1>4 DEF Chain
    <3> QED BY <3>3
  <2>2. CASE y[c] \notin S
    <3>1. S \in SUBSET K /\ \A x \in S : o[x] \in S \cup {NULL}
      BY <2>2, <1>4
    <3>2. S = K
      BY <3>1, <1>4 DEF Chain
    <3> QED BY <3>2, <1>4
  <2> QED BY <2>1, <2>2
<1>5. ASSUME NEW x \in K \ {c}, o2[x] # NULL PROVE y2[o2[x]] = x
  <2>1. CASE x = y[c]
    <3>1. o2[x] = o[c] /\ o[c] \in K \ {c}
      BY <2>1, <1>2, <1>5 DEF Chain
    <3> QED BY <3>1, <2>1
  <2>2. CASE x # y[c]
    <3>1. o2[x] = o[x] /\ o[x] \in K /\ y[o[x]] = x
      BY <2>2, <1>5 DEF Chain
    <3>2. o[x] # c /\ o[x] # o[c]
      BY <3>1, <2>2, <1>2, <1>5 DEF Chain
    <3> QED BY <3>1, <3>2
  <2> QED BY <2>1, <2>2
<1>6. f # NULL => y2[f] \notin K \ {c}
  BY <1>2 DEF Chain
<1> QED BY <1>2, <1>3, <1>4, <1>5, <1>6 DEF Chain

-----------------------------------------------------------------------------
Proc == {idleproc} \cup Pid

LinksType(l) ==
    LET Field == [Proc -> Proc \cup {NULL}]
    IN  l \in [parent : Field, cptr : Field, yptr : Field, optr : Field]

\* Processes are numbers, and no number is the null pointer.
LEMMA ProcFacts ==
    /\ NULL \notin Proc /\ idleproc \in Proc /\ initproc \in Pid /\ initproc \in Proc
    /\ idleproc \notin Pid /\ Pid \subseteq Proc /\ idleproc # initproc
BY PidAssumption, NullAssumption DEF Proc, Pid, idleproc, initproc

\* The list of p is K.
ListOf(l, p, K) == Chain(l.cptr[p], l.optr, l.yptr, K)

\* The first entry of that list has no younger one.
HeadFirst(l, p) == l.cptr[p] # NULL => l.yptr[l.cptr[p]] = NULL

\* m has the fields of l after c has become the youngest child of p.
Added(l, m, p, c) ==
    \A x \in Proc :
        /\ m.parent[x] = IF x = c THEN p ELSE l.parent[x]
        /\ m.cptr[x] = IF x = p THEN c ELSE l.cptr[x]
        /\ m.optr[x] = IF x = c THEN l.cptr[p] ELSE l.optr[x]
        /\ m.yptr[x] = IF x = c THEN NULL ELSE IF x = l.cptr[p] THEN c ELSE l.yptr[x]

\* m has the fields of l after c has left the list of its parent.
Removed(l, m, c) ==
    LET o == l.optr[c]
        y == l.yptr[c]
    IN  \A x \in Proc :
            /\ m.parent[x] = IF x = c THEN NULL ELSE l.parent[x]
            /\ m.cptr[x] = IF x = l.parent[c] /\ y = NULL THEN o ELSE l.cptr[x]
            /\ m.optr[x] = IF x = c THEN NULL ELSE IF x = y THEN o ELSE l.optr[x]
            /\ m.yptr[x] = IF x = c THEN NULL ELSE IF x = o THEN y ELSE l.yptr[x]

\* The fields after set_links().
LEMMA SetLinksFields ==
    ASSUME NEW l, LinksType(l), NEW p \in Proc, NEW c \in Proc
    PROVE  LinksType(set_links(l, p, c)) /\ Added(l, set_links(l, p, c), p, c)
<1> DEFINE f == l.cptr[p]
           g == SetYptr(l, f, c)
           k == set_links(l, p, c)
<1>1. f \in Proc \cup {NULL} /\ NULL \notin Proc
  BY ProcFacts DEF LinksType
<1>2. /\ LinksType(g) /\ g.parent = l.parent /\ g.cptr = l.cptr /\ g.optr = l.optr
      /\ \A x \in Proc : g.yptr[x] = IF x = f THEN c ELSE l.yptr[x]
  <2>1. CASE f = NULL
    BY <2>1, <1>1 DEF SetYptr, LinksType
  <2>2. CASE f # NULL
    BY <2>2, <1>1 DEF SetYptr, LinksType
  <2> QED BY <2>1, <2>2
<1> HIDE DEF g
<1>3. k = [g EXCEPT !.parent[c] = p, !.optr[c] = f, !.yptr[c] = NULL, !.cptr[p] = c]
  BY DEF set_links, g
<1> HIDE DEF f, k
<1>4. /\ LinksType(k)
      /\ k.parent = [g.parent EXCEPT ![c] = p] /\ k.optr = [g.optr EXCEPT ![c] = f]
      /\ k.yptr = [g.yptr EXCEPT ![c] = NULL] /\ k.cptr = [g.cptr EXCEPT ![p] = c]
  BY <1>1, <1>2, <1>3 DEF LinksType
<1>5. /\ g.parent \in [Proc -> Proc \cup {NULL}] /\ g.optr \in [Proc -> Proc \cup {NULL}]
      /\ g.yptr \in [Proc -> Proc \cup {NULL}] /\ g.cptr \in [Proc -> Proc \cup {NULL}]
  BY <1>2 DEF LinksType
<1>6. \A x \in Proc : /\ k.parent[x] = IF x = c THEN p ELSE l.parent[x]
                      /\ k.cptr[x] = IF x = p THEN c ELSE l.cptr[x]
                      /\ k.optr[x] = IF x = c THEN f ELSE l.optr[x]
                      /\ k.yptr[x] = IF x = c THEN NULL ELSE IF x = f THEN c ELSE l.yptr[x]
  BY <1>2, <1>4, <1>5
<1> QED BY <1>4, <1>6 DEF f, k, Added

\* The fields after remove_links().
LEMMA RemoveLinksFields ==
    ASSUME NEW l, LinksType(l), NEW c \in Proc, l.parent[c] \in Proc
    PROVE  LinksType(remove_links(l, c)) /\ Removed(l, remove_links(l, c), c)
<1> DEFINE o == l.optr[c]
           y == l.yptr[c]
           g == SetYptr(l, o, y)
           h == IF y # NULL THEN [g EXCEPT !.optr[y] = o]
                ELSE [g EXCEPT !.cptr[l.parent[c]] = o]
           k == remove_links(l, c)
<1>1. o \in Proc \cup {NULL} /\ y \in Proc \cup {NULL} /\ NULL \notin Proc
  BY ProcFacts DEF LinksType
<1>2. /\ LinksType(g) /\ g.parent = l.parent /\ g.cptr = l.cptr /\ g.optr = l.optr
      /\ \A x \in Proc : g.yptr[x] = IF x = o THEN y ELSE l.yptr[x]
  <2>1. CASE o = NULL
    BY <2>1, <1>1 DEF SetYptr, LinksType
  <2>2. CASE o # NULL
    BY <2>2, <1>1 DEF SetYptr, LinksType
  <2> QED BY <2>1, <2>2
<1> HIDE DEF g
<1>3. /\ LinksType(h) /\ h.parent = l.parent /\ h.yptr = g.yptr
      /\ \A x \in Proc : /\ h.cptr[x] = IF x = l.parent[c] /\ y = NULL THEN o ELSE l.cptr[x]
                         /\ h.optr[x] = IF x = y THEN o ELSE l.optr[x]
  <2>1. CASE y = NULL
    BY <2>1, <1>1, <1>2 DEF LinksType
  <2>2. CASE y # NULL
    BY <2>2, <1>1, <1>2 DEF LinksType
  <2> QED BY <2>1, <2>2
<1>4. k = [h EXCEPT !.parent[c] = NULL, !.optr[c] = NULL, !.yptr[c] = NULL]
  BY DEF remove_links, g
<1> HIDE DEF o, y, h, k
<1>5. /\ LinksType(k) /\ k.cptr = h.cptr
      /\ k.parent = [h.parent EXCEPT ![c] = NULL] /\ k.optr = [h.optr EXCEPT ![c] = NULL]
      /\ k.yptr = [h.yptr EXCEPT ![c] = NULL]
  BY <1>1, <1>3, <1>4 DEF LinksType
<1>6. /\ h.parent \in [Proc -> Proc \cup {NULL}] /\ h.optr \in [Proc -> Proc \cup {NULL}]
      /\ h.yptr \in [Proc -> Proc \cup {NULL}]
  BY <1>3 DEF LinksType
<1>7. \A x \in Proc :
         /\ k.parent[x] = IF x = c THEN NULL ELSE l.parent[x]
         /\ k.cptr[x] = IF x = l.parent[c] /\ y = NULL THEN o ELSE l.cptr[x]
         /\ k.optr[x] = IF x = c THEN NULL ELSE IF x = y THEN o ELSE l.optr[x]
         /\ k.yptr[x] = IF x = c THEN NULL ELSE IF x = o THEN y ELSE l.yptr[x]
  BY <1>2, <1>3, <1>5, <1>6
<1> QED BY <1>5, <1>7 DEF o, y, k, Removed

-----------------------------------------------------------------------------
\* The inductive invariant.  Only live processes but initproc exit, and while
\* one does nobody forks.
States ==
    /\ LinksType(links)
    /\ zombie \subseteq live \ {initproc} /\ exiting \in zombie \cup {NULL}
    /\ exiting # NULL => mode = "done"

\* The first process gets pid 1, and stays.
FirstFork ==
    \/ initproc \in live
    \/ live = {} /\ last_pid = IF mode = "done" THEN MaxPid ELSE initproc

\* Parents are live; who is not live or has exited has no children.
Tree ==
    /\ \A c \in live : links.parent[c] \in live \cup {idleproc}
    /\ \A p \in Pid \ live : links.cptr[p] = NULL
    /\ \A p \in zombie \ {exiting} : Children(p) = {}

\* The children of p are its list.
ChildChain(p) == ListOf(links, p, Children(p))

\* The youngest child has no younger sibling, except in the list of the process
\* that exits, where it keeps the link to the child that was moved before it.
Youngest(p) == p # exiting => HeadFirst(links, p)

Chains == \A p \in live \cup {idleproc} : ChildChain(p) /\ Youngest(p)

TableInv == PidInv /\ States /\ FirstFork /\ Tree /\ Chains

\* Where the sets of processes lie.
LEMMA TableFacts ==
    ASSUME TableInv
    PROVE  /\ live \subseteq Pid /\ live \subseteq Proc /\ live \cup {idleproc} \subseteq Proc
           /\ NULL \notin live /\ NULL # idleproc /\ idleproc \notin live
           /\ \A p : Children(p) \subseteq live /\ NULL \notin Children(p)
           /\ \A p, q : p # q => Children(p) \cap Children(q) = {}
<1>1. live \subseteq Pid
  BY DEF TableInv, PidInv, TypeOK
<1> QED BY <1>1, ProcFacts DEF Children

\* A list of nobody.
LEMMA ChainEmpty ==
    ASSUME NEW f, NEW o, NEW y, NEW K, Chain(f, o, y, K)
    PROVE  f = NULL <=> K = {}
<1>1. K = {} => f = NULL
  BY DEF Chain
<1>2. ASSUME f = NULL PROVE K = {}
  <2> DEFINE S == {}
  <2>1. S \in SUBSET K /\ f \in S \cup {NULL} /\ \A x \in S : o[x] \in S \cup {NULL}
    BY <1>2
  <2> HIDE DEF S
  <2>2. S = K
    BY <2>1 DEF Chain
  <2> QED BY <2>2 DEF S
<1> QED BY <1>1, <1>2

\* set_links() puts c on the list of p.
LEMMA AddChild ==
    ASSUME NEW l, NEW m, NEW p \in Proc, NEW c \in Proc, Added(l, m, p, c),
           NEW K \in SUBSET Proc, ListOf(l, p, K), c \notin K
    PROVE  ListOf(m, p, K \cup {c}) /\ HeadFirst(m, p)
<1> DEFINE f == l.cptr[p]
<1>1. NULL \notin K /\ c # NULL
  BY ProcFacts
<1>2. /\ m.cptr[p] = c /\ m.optr[c] = f /\ \A x \in K : m.optr[x] = l.optr[x]
      /\ m.yptr[c] = NULL /\ \A x \in K : m.yptr[x] = IF x = f THEN c ELSE l.yptr[x]
  BY DEF Added
<1> HIDE DEF f
<1>3. Chain(f, l.optr, l.yptr, K)
  BY DEF f, ListOf
<1>4. Chain(c, m.optr, m.yptr, K \cup {c})
  BY <1>1, <1>2, <1>3, ChainInsert
<1> QED BY <1>2, <1>4 DEF ListOf, HeadFirst

\* It leaves the other lists alone.
LEMMA OtherChild ==
    ASSUME NEW l, NEW m, NEW p \in Proc, NEW c \in Proc, Added(l, m, p, c),
           NEW K \in SUBSET Proc, ListOf(l, p, K),
           NEW q \in Proc, NEW L \in SUBSET Proc, ListOf(l, q, L),
           q # p, c \notin L, K \cap L = {}
    PROVE  ListOf(m, q, L) /\ (HeadFirst(l, q) => HeadFirst(m, q))
<1>1. NULL \notin L /\ l.cptr[p] \in K \cup {NULL} /\ l.cptr[q] \in L \cup {NULL}
  BY ProcFacts DEF ListOf, Chain
<1>2. m.cptr[q] = l.cptr[q] /\ \A x \in L : m.optr[x] = l.optr[x] /\ m.yptr[x] = l.yptr[x]
  BY <1>1 DEF Added
<1>3. Chain(l.cptr[q], m.optr, m.yptr, L)
  BY <1>2, ChainSame DEF ListOf
<1> QED BY <1>1, <1>2, <1>3 DEF ListOf, HeadFirst

-----------------------------------------------------------------------------
\* At the start there is idleproc, without children.
LEMMA TableInitInv ==
    TableInit => TableInv
<1> SUFFICES ASSUME TableInit PROVE TableInv
  OBVIOUS
<1>1. PidInv
  BY PidAssumption DEF TableInit, Init, PidInv, TypeOK, SafeWindow, ScanWindow, NoScan, UniquePid
<1>2. States
  BY DEF TableInit, Init, States, LinksType, NoLinks, Proc
<1>3. FirstFork /\ Tree
  BY DEF TableInit, Init, FirstFork, Tree, Children, NoLinks
<1>4. Chains
  BY DEF TableInit, Init, Chains, ChildChain, ListOf, Youngest, HeadFirst, Children,
     Chain, NoLinks, Proc
<1> QED BY <1>1, <1>2, <1>3, <1>4 DEF TableInv

\* A step of get_pid() before it returns.
LEMMA ScanStep ==
    ASSUME TableInv, exiting = NULL, Scan, UNCHANGED tableVars
    PROVE  TableInv'
<1>1. PidInv'
  BY StepInv DEF TableInv, Scan, Next
<1>2. live' = live /\ UNCHANGED <<links, zombie, exiting>>
  BY DEF Scan, Enter, ScanDone, Visit, tableVars
<1>3. FirstFork'
  <2>1. CASE initproc \in live
    BY <2>1, <1>2 DEF FirstFork
  <2>2. CASE live = {} /\ last_pid = IF mode = "done" THEN MaxPid ELSE initproc
    <3>1. CASE Enter
      BY <3>1, <2>2, <1>2, PidAssumption DEF Enter, FirstFork, NextPid, initproc
    <3>2. CASE ScanDone
      BY <3>2, <2>2, <1>2 DEF ScanDone, FirstFork
    <3> QED BY <3>1, <3>2, <2>2 DEF Scan
  <2> QED BY <2>1, <2>2 DEF TableInv, FirstFork
<1>4. States' /\ Tree' /\ Chains'
  BY <1>2 DEF TableInv, States, Tree, Chains, ChildChain, Youngest, Children
<1> QED BY <1>1, <1>3, <1>4 DEF TableInv

\* The child with the new pid is the youngest of p; the pid was not in use, so
\* that nothing refers to it.
LEMMA ForkStep ==
    ASSUME TableInv, NEW p \in live \cup {idleproc}, Fork(p)
    PROVE  TableInv'
<1>c. PICK c : c = last_pid
  OBVIOUS
<1>0. /\ mode = "return" /\ live' = live \cup {c} /\ mode' = "done" /\ last_pid' = c
      /\ links' = set_links(links, p, c) /\ zombie' = zombie /\ exiting' = exiting
      /\ IF live = {} THEN p = idleproc ELSE p \in live \ zombie
  BY <1>c DEF Fork, Return
<1>1. PidInv'
  <2>1. Next
    BY DEF Fork, Next
  <2> QED BY <2>1, StepInv DEF TableInv
<1>2. c \in Pid /\ c \notin live /\ exiting = NULL /\ LinksType(links) /\ zombie \subseteq live
  BY <1>c, <1>0 DEF TableInv, PidInv, UniquePid, States
<1>3. /\ live \subseteq Proc /\ p \in Proc /\ c \in Proc /\ c # p /\ NULL # c /\ c # idleproc
      /\ \A q : Children(q) \subseteq live
  BY <1>2, TableFacts, ProcFacts
<1>s. LinksType(links) /\ p \in Proc /\ c \in Proc /\ links' = set_links(links, p, c)
  BY <1>0, <1>2, <1>3
<1>a. LinksType(links') /\ Added(links, links', p, c)
  BY <1>s, SetLinksFields
<1>4. /\ LinksType(links')
      /\ \A x \in Proc : /\ links'.parent[x] = IF x = c THEN p ELSE links.parent[x]
                         /\ links'.cptr[x] = IF x = p THEN c ELSE links.cptr[x]
  BY <1>a DEF Added
<1>5. /\ Children(p)' = Children(p) \cup {c} /\ Children(c)' = {}
      /\ \A q \in live \cup {idleproc} : q # p => Children(q)' = Children(q)
  <2>1. \A x \in live : /\ links'.parent[x] = links.parent[x] /\ x # c
                        /\ links.parent[x] \in live \cup {idleproc}
    BY <1>2, <1>3, <1>4 DEF TableInv, Tree
  <2>2. links'.parent[c] = p
    BY <1>3, <1>4
  <2>3. \A q : Children(q)' = {x \in live \cup {c} : links'.parent[x] = q}
    BY <1>0 DEF Children
  <2>4. Children(p)' = Children(p) \cup {c}
    BY <2>1, <2>2, <2>3 DEF Children
  <2>5. Children(c)' = {}
    <3>1. ASSUME NEW x \in live \cup {c} PROVE links'.parent[x] # c
      <4>1. c \notin live \cup {idleproc}
        BY <1>2, <1>3
      <4> QED BY <4>1, <2>1, <2>2, <1>3
    <3> QED BY <3>1, <2>3
  <2>6. ASSUME NEW q \in live \cup {idleproc}, q # p PROVE Children(q)' = Children(q)
    <3>1. Children(q)' = {x \in live : links'.parent[x] = q}
      BY <2>2, <2>3, <2>6
    <3> QED BY <3>1, <2>1 DEF Children
  <2> QED BY <2>4, <2>5, <2>6
<1>6. States'
  BY <1>0, <1>2, <1>4 DEF TableInv, States
<1>7. FirstFork'
  BY <1>c, <1>0 DEF TableInv, FirstFork
<1>8. Tree'
  <2>1. ASSUME NEW x \in live' PROVE links'.parent[x] \in live' \cup {idleproc}
    BY <2>1, <1>0, <1>3, <1>4 DEF TableInv, Tree
  <2>2. ASSUME NEW x \in Pid \ live' PROVE links'.cptr[x] = NULL
    BY <2>2, <1>0, <1>3, <1>4, ProcFacts DEF TableInv, Tree
  <2>3. ASSUME NEW x \in zombie' \ {exiting'} PROVE Children(x)' = {}
    <3>1. x \in zombie /\ x \in live /\ x # p /\ x # exiting
      BY <2>3, <1>0, <1>2
    <3> QED BY <3>1, <1>5 DEF TableInv, Tree
  <2> QED BY <2>1, <2>2, <2>3 DEF Tree
<1>9. ASSUME NEW q \in live' \cup {idleproc} PROVE ChildChain(q)' /\ Youngest(q)'
  <2>1. ListOf(links, p, Children(p)) /\ Children(p) \in SUBSET Proc
    BY <1>3 DEF TableInv, Chains, ChildChain
  <2>2. c \notin Children(p)
    BY <1>2, <1>3
  <2>3. CASE q = p
    <3>1. ListOf(links', p, Children(p) \cup {c}) /\ HeadFirst(links', p)
      BY <2>1, <2>2, <1>s, <1>a, AddChild
    <3> QED BY <3>1, <2>3, <1>5 DEF ChildChain, Youngest
  <2>4. CASE q = c
    <3>1. links'.cptr[c] = NULL
      BY <1>2, <1>3, <1>4 DEF TableInv, Tree
    <3>2. Chain(NULL, links'.optr, links'.yptr, {})
      BY DEF Chain
    <3> QED BY <3>1, <3>2, <2>4, <1>5 DEF ChildChain, ListOf, Youngest, HeadFirst
  <2>5. CASE q # p /\ q # c
    <3>1. /\ q \in live \cup {idleproc} /\ q \in Proc
          /\ Children(q) \in SUBSET Proc /\ c \notin Children(q)
      BY <2>5, <1>0, <1>2, <1>3, <1>9, ProcFacts
    <3>2. Children(p) \cap Children(q) = {}
      BY <2>5, TableFacts
    <3>3. ListOf(links, q, Children(q)) /\ HeadFirst(links, q)
      BY <3>1, <1>2, TableFacts DEF TableInv, Chains, ChildChain, Youngest
    <3>4. ListOf(links', q, Children(q)) /\ HeadFirst(links', q)
      BY <3>1, <3>2, <3>3, <2>1, <2>5, <1>s, <1>a, OtherChild
    <3> QED BY <3>1, <3>4, <2>5, <1>5 DEF ChildChain, Youngest
  <2> QED BY <2>3, <2>4, <2>5
<1> QED BY <1>1, <1>6, <1>7, <1>8, <1>9 DEF TableInv, Chains

\* do_exit() begins; nothing is linked anew.
LEMMA ExitStep ==
    ASSUME TableInv, NEW p \in live \cup {idleproc}, Exit(p)
    PROVE  TableInv'
<1>0. /\ mode = "done" /\ exiting = NULL /\ p \in live \ (zombie \cup {initproc})
      /\ zombie' = zombie \cup {p} /\ exiting' = p /\ UNCHANGED <<vars, links>>
  BY DEF Exit
<1>1. PidInv'
  BY <1>0, StepInv DEF TableInv
<1>2. States' /\ FirstFork'
  BY <1>0 DEF TableInv, States, FirstFork, vars
<1>3. \A q : Children(q)' = Children(q)
  BY <1>0 DEF Children, vars
<1>4. Tree'
  <2>1. live' = live /\ links' = links /\ zombie' \ {exiting'} \subseteq zombie \ {exiting}
    <3>1. live' = live /\ links' = links /\ zombie' = zombie \cup {exiting'}
      BY <1>0 DEF vars
    <3>2. exiting \notin zombie
      BY <1>0, TableFacts DEF TableInv, States
    <3> QED BY <3>1, <3>2
  <2> QED BY <2>1, <1>3 DEF TableInv, Tree
<1>5. Chains'
  <2> SUFFICES ASSUME NEW q \in live \cup {idleproc} PROVE ChildChain(q)' /\ Youngest(q)'
    BY <1>0 DEF Chains, vars
  <2>1. ChildChain(q)'
    BY <1>0, <1>3 DEF TableInv, Chains, ChildChain
  <2>2. Youngest(q)'
    BY <1>0, TableFacts DEF TableInv, Chains, Youngest
  <2> QED BY <2>1, <2>2
<1> QED BY <1>1, <1>2, <1>4, <1>5 DEF TableInv

\* The youngest child c of the exiting process e moves to initproc.
LEMMA ReparentStep ==
    ASSUME TableInv, Reparent
    PROVE  TableInv'
<1>e. PICK e : e = exiting
  OBVIOUS
<1>c. PICK c : c = links.cptr[e]
  OBVIOUS
<1>l. PICK l : l = [links EXCEPT !.cptr[e] = links.optr[c]]
  OBVIOUS
<1>0. /\ e # NULL /\ c # NULL /\ links' = set_links(l, initproc, c)
      /\ live' = live /\ mode' = mode /\ last_pid' = last_pid /\ zombie' = zombie /\ exiting' = e
      /\ UNCHANGED vars
  BY <1>e, <1>c, <1>l DEF Reparent, vars
<1>1. PidInv'
  BY <1>0, StepInv DEF TableInv
<1>2. e \in zombie /\ e \in live /\ e # initproc /\ LinksType(links) /\ mode = "done"
  BY <1>e, <1>0 DEF TableInv, States
<1>3. initproc \in live
  BY <1>2 DEF TableInv, FirstFork
<1>4. /\ ListOf(links, e, Children(e)) /\ NULL \notin Children(e)
      /\ Children(e) \in SUBSET Proc /\ e \in Proc /\ live \in SUBSET Proc /\ initproc \in Proc
      /\ live \cup {idleproc} \in SUBSET Proc
  BY <1>2, <1>3, TableFacts DEF TableInv, Chains, ChildChain
<1>5. c \in Children(e) /\ links.optr[c] \in Children(e) \cup {NULL}
  BY <1>c, <1>0, <1>4 DEF ListOf, Chain
<1>6. c \in live /\ c \in Proc /\ links.parent[c] = e /\ links.optr[c] \in Proc \cup {NULL}
  BY <1>4, <1>5 DEF Children
<1>7. /\ LinksType(l) /\ l.parent = links.parent /\ l.optr = links.optr /\ l.yptr = links.yptr
      /\ \A x \in Proc : l.cptr[x] = IF x = e THEN links.optr[c] ELSE links.cptr[x]
  BY <1>l, <1>2, <1>4, <1>6 DEF LinksType
<1>8. ListOf(l, e, Children(e) \ {c})
  <2>1. /\ Chain(c, links.optr, links.yptr, Children(e))
        /\ links.optr[c] # NULL => links.yptr[links.optr[c]] = c
    BY <1>c, <1>4, <1>5 DEF ListOf, Chain
  <2>2. Chain(links.optr[c], links.optr, links.yptr, Children(e) \ {c})
    BY <2>1, <1>0, <1>4, ChainPop
  <2> QED BY <2>2, <1>4, <1>7 DEF ListOf
<1>9. ASSUME NEW q \in live \cup {idleproc}, q # e
      PROVE  /\ ListOf(l, q, Children(q)) /\ HeadFirst(l, q)
             /\ q \in Proc /\ Children(q) \in SUBSET Proc
  <2>1. ListOf(links, q, Children(q)) /\ HeadFirst(links, q)
    BY <1>9, <1>e DEF TableInv, Chains, ChildChain, Youngest
  <2>2. q \in Proc /\ Children(q) \in SUBSET Proc
    BY <1>4, TableFacts
  <2> QED BY <2>1, <2>2, <1>7, <1>9 DEF ListOf, HeadFirst
<1>10. LinksType(links') /\ Added(l, links', initproc, c)
  BY <1>0, <1>4, <1>6, <1>7, SetLinksFields
<1>11. \A x \in Proc : /\ links'.parent[x] = IF x = c THEN initproc ELSE links.parent[x]
                       /\ links'.cptr[x] = IF x = initproc THEN c
                                           ELSE IF x = e THEN links.optr[c] ELSE links.cptr[x]
  BY <1>7, <1>10 DEF Added
<1>12. /\ Children(e)' = Children(e) \ {c} /\ Children(initproc)' = Children(initproc) \cup {c}
       /\ \A q \in live \cup {idleproc} : q # e /\ q # initproc => Children(q)' = Children(q)
  <2>1. \A x \in live : links'.parent[x] = IF x = c THEN initproc ELSE links.parent[x]
    BY <1>4, <1>11
  <2>2. \A q : Children(q)' = {x \in live : links'.parent[x] = q}
    BY <1>0 DEF Children
  <2>3. Children(e)' = Children(e) \ {c}
    BY <2>1, <2>2, <1>2 DEF Children
  <2>4. Children(initproc)' = Children(initproc) \cup {c}
    BY <2>1, <2>2, <1>6 DEF Children
  <2>5. ASSUME NEW q \in live \cup {idleproc}, q # e, q # initproc PROVE Children(q)' = Children(q)
    BY <2>1, <2>2, <2>5, <1>6 DEF Children
  <2> QED BY <2>3, <2>4, <2>5
<1>13. States'
  BY <1>e, <1>0, <1>2, <1>10 DEF TableInv, States
<1>14. FirstFork'
  BY <1>0, <1>3 DEF FirstFork
<1>15. Tree'
  <2>1. ASSUME NEW x \in live PROVE links'.parent[x] \in live \cup {idleproc}
    BY <2>1, <1>3, <1>4, <1>11 DEF TableInv, Tree
  <2>2. ASSUME NEW x \in Pid \ live PROVE links'.cptr[x] = NULL
    BY <2>2, <1>2, <1>3, <1>11, ProcFacts DEF TableInv, Tree
  <2>3. ASSUME NEW x \in zombie \ {e} PROVE Children(x)' = {}
    <3>1. x \in live /\ x # initproc /\ x # e
      BY <2>3 DEF TableInv, States
    <3>2. Children(x) = {}
      BY <2>3, <1>e DEF TableInv, Tree
    <3> QED BY <3>1, <3>2, <1>12
  <2> QED BY <2>1, <2>2, <2>3, <1>0 DEF Tree
<1>16. ASSUME NEW q \in live \cup {idleproc} PROVE ChildChain(q)' /\ Youngest(q)'
  <2>1. ListOf(l, initproc, Children(initproc)) /\ Children(initproc) \in SUBSET Proc
    BY <1>2, <1>3, <1>9
  <2>2. c \notin Children(initproc) /\ \A r : r # e => c \notin Children(r)
    BY <1>2, <1>6 DEF Children
  <2>3. CASE q = initproc
    <3>1. ListOf(links', initproc, Children(initproc) \cup {c}) /\ HeadFirst(links', initproc)
      BY <2>1, <2>2, <1>4, <1>6, <1>10, AddChild
    <3> QED BY <3>1, <2>3, <1>12 DEF ChildChain, Youngest
  <2>4. CASE q = e
    <3>1. /\ Children(e) \ {c} \in SUBSET Proc /\ c \notin Children(e) \ {c}
          /\ Children(initproc) \cap (Children(e) \ {c}) = {}
      BY <1>2, <1>4, TableFacts
    <3>2. ListOf(links', e, Children(e) \ {c})
      BY <3>1, <2>1, <1>2, <1>4, <1>6, <1>8, <1>10, OtherChild
    <3> QED BY <3>2, <2>4, <1>0, <1>12 DEF ChildChain, Youngest
  <2>5. CASE q # initproc /\ q # e
    <3>1. c \notin Children(q) /\ Children(initproc) \cap Children(q) = {}
      BY <2>2, <2>5, TableFacts
    <3>2. ListOf(l, q, Children(q)) /\ HeadFirst(l, q) /\ q \in Proc /\ Children(q) \in SUBSET Proc
      BY <2>5, <1>9
    <3>3. ListOf(links', q, Children(q)) /\ HeadFirst(links', q)
      BY <3>1, <3>2, <2>1, <2>5, <1>4, <1>6, <1>10, OtherChild
    <3> QED BY <3>3, <2>5, <1>12 DEF ChildChain, Youngest
  <2> QED BY <2>3, <2>4, <2>5
<1>17. Chains'
  BY <1>0, <1>16 DEF Chains
<1> QED BY <1>1, <1>13, <1>14, <1>15, <1>17 DEF TableInv

\* The exiting process has no children left.
LEMMA ExitDoneStep ==
    ASSUME TableInv, ExitDone
    PROVE  TableInv'
<1>0. /\ exiting # NULL /\ links.cptr[exiting] = NULL /\ exiting' = NULL
      /\ UNCHANGED <<vars, links, zombie>>
  BY DEF ExitDone
<1>1. PidInv'
  BY <1>0, StepInv DEF TableInv
<1>2. exiting \in live \cup {idleproc}
  BY <1>0 DEF TableInv, States
<1>3. Children(exiting) = {}
  <2>1. Chain(links.cptr[exiting], links.optr, links.yptr, Children(exiting))
    BY <1>2 DEF TableInv, Chains, ChildChain, ListOf
  <2> QED BY <2>1, <1>0, ChainEmpty
<1>4. \A q : Children(q)' = Children(q)
  BY <1>0 DEF Children, vars
<1>5. States' /\ FirstFork'
  BY <1>0 DEF TableInv, States, FirstFork, vars
<1>6. Tree'
  BY <1>0, <1>3, <1>4 DEF TableInv, Tree, vars
<1>7. Chains'
  <2> SUFFICES ASSUME NEW q \in live \cup {idleproc} PROVE ChildChain(q)' /\ Youngest(q)'
    BY <1>0 DEF Chains, vars
  <2>1. ChildChain(q)'
    BY <1>0, <1>4 DEF TableInv, Chains, ChildChain
  <2>2. Youngest(q)'
    BY <1>0 DEF TableInv, Chains, Youngest, HeadFirst
  <2> QED BY <2>1, <2>2
<1> QED BY <1>1, <1>5, <1>6, <1>7 DEF TableInv

\* The zombie c, which has no children, leaves the list of its parent p.
LEMMA WaitStep ==
    ASSUME TableInv, NEW c \in live \cup {idleproc}, Wait(c)
    PROVE  TableInv'
<1>p. PICK p : p = links.parent[c]
  OBVIOUS
<1>0. /\ exiting = NULL /\ c \in zombie /\ c # initproc /\ c \in live /\ live' = live \ {c}
      /\ links' = remove_links(links, c) /\ zombie' = zombie \ {c} /\ exiting' = NULL
      /\ last_pid' = last_pid /\ mode' = mode
  BY DEF Wait, Reap, initproc
<1>1. PidInv'
  <2>1. Next
    BY <1>0 DEF Wait, Next
  <2> QED BY <2>1, StepInv DEF TableInv
<1>2. /\ LinksType(links) /\ p \in live \cup {idleproc} /\ p \in Proc /\ c \in Proc
      /\ live \in SUBSET Proc /\ live \cup {idleproc} \in SUBSET Proc /\ c \in Children(p)
      /\ NULL \notin Children(p) /\ Children(p) \in SUBSET Proc
  BY <1>p, <1>0, TableFacts DEF TableInv, States, Tree, Children
<1>3. Children(c) = {} /\ c # p
  <2>1. Children(c) = {}
    BY <1>0, TableFacts DEF TableInv, Tree
  <2> QED BY <2>1, <1>2
<1>4. links.cptr[c] = NULL
  <2>1. Chain(links.cptr[c], links.optr, links.yptr, Children(c))
    BY <1>0 DEF TableInv, Chains, ChildChain, ListOf
  <2> QED BY <2>1, <1>3, ChainEmpty
<1>5. LinksType(links') /\ Removed(links, links', c)
  BY <1>p, <1>0, <1>2, RemoveLinksFields
<1>o. PICK o : o = links.optr[c]
  OBVIOUS
<1>y. PICK y : y = links.yptr[c]
  OBVIOUS
<1>6. \A x \in Proc :
         /\ links'.parent[x] = IF x = c THEN NULL ELSE links.parent[x]
         /\ links'.cptr[x] = IF x = p /\ y = NULL THEN o ELSE links.cptr[x]
         /\ links'.optr[x] = IF x = c THEN NULL ELSE IF x = y THEN o ELSE links.optr[x]
         /\ links'.yptr[x] = IF x = c THEN NULL ELSE IF x = o THEN y ELSE links.yptr[x]
  BY <1>5, <1>p, <1>o, <1>y DEF Removed
<1>f. PICK f : f = links.cptr[p]
  OBVIOUS
<1>7. /\ Chain(f, links.optr, links.yptr, Children(p))
      /\ f # NULL => links.yptr[f] = NULL
      /\ o \in Children(p) \cup {NULL}
      /\ o # NULL => links.yptr[o] = c
  <2>1. Chain(f, links.optr, links.yptr, Children(p)) /\ (f # NULL => links.yptr[f] = NULL)
    BY <1>f, <1>0, <1>2, TableFacts
       DEF TableInv, Chains, ChildChain, ListOf, Youngest, HeadFirst
  <2> QED BY <2>1, <1>o, <1>2 DEF Chain
<1>8. /\ y = NULL <=> c = f
      /\ y \in Children(p) \cup {NULL}
  <2>1. c # f => y \in Children(p)
    BY <1>y, <1>2, <1>7, ChainYounger
  <2>2. c = f => y = NULL
    BY <1>y, <1>2, <1>7, ProcFacts
  <2> QED BY <2>1, <2>2, <1>2
<1>9. ListOf(links', p, Children(p) \ {c}) /\ HeadFirst(links', p)
  <2>1. CASE c = f
    <3>1. links'.cptr[p] = o /\ y = NULL
      BY <2>1, <1>2, <1>6, <1>8
    <3>2. /\ \A x \in Children(p) \ {c} : links'.optr[x] = links.optr[x]
          /\ \A x \in Children(p) \ {c, o} : links'.yptr[x] = links.yptr[x]
          /\ o # NULL /\ o # c => links'.yptr[o] = NULL
      BY <3>1, <1>2, <1>6, <1>7
    <3>3. o # c
      BY <2>1, <1>7, <1>2, ProcFacts
    <3>4. Chain(o, links'.optr, links'.yptr, Children(p) \ {c})
      BY <3>2, <3>3, <2>1, <1>o, <1>2, <1>7, ChainPop
    <3> QED BY <3>1, <3>2, <3>3, <3>4 DEF ListOf, HeadFirst
  <2>2. CASE c # f
    <3>1. links'.cptr[p] = f /\ y # NULL
      BY <2>2, <1>2, <1>6, <1>8, <1>f
    <3>2. /\ \A x \in Children(p) \ {c} : links'.optr[x] = IF x = y THEN o ELSE links.optr[x]
          /\ \A x \in Children(p) \ {c} : links'.yptr[x] = IF x = o THEN y ELSE links.yptr[x]
      BY <1>2, <1>6
    <3>3. o # f /\ Chain(f, links'.optr, links'.yptr, Children(p) \ {c})
      BY <3>2, <2>2, <1>o, <1>y, <1>2, <1>7, ChainRemove
    <3>4. f # NULL => links'.yptr[f] = NULL
      BY <3>3, <2>2, <1>2, <1>6, <1>7 DEF Chain
    <3> QED BY <3>1, <3>3, <3>4 DEF ListOf, HeadFirst
  <2> QED BY <2>1, <2>2
<1>10. ASSUME NEW q \in live \cup {idleproc}, q # p
       PROVE  ListOf(links', q, Children(q)) /\ HeadFirst(links', q)
  <2>1. /\ Chain(links.cptr[q], links.optr, links.yptr, Children(q)) /\ HeadFirst(links, q)
        /\ Children(p) \cap Children(q) = {} /\ Children(q) \in SUBSET Proc /\ q \in Proc
        /\ NULL \notin Children(q)
    BY <1>10, <1>0, <1>2, TableFacts DEF TableInv, Chains, ChildChain, ListOf, Youngest
  <2>2. /\ \A x \in Children(q) : links'.optr[x] = links.optr[x] /\ links'.yptr[x] = links.yptr[x]
        /\ links'.cptr[q] = links.cptr[q]
    BY <2>1, <1>10, <1>2, <1>6, <1>7, <1>8
  <2>3. Chain(links.cptr[q], links'.optr, links'.yptr, Children(q))
    BY <2>1, <2>2, ChainSame
  <2>4. links.cptr[q] \in Children(q) \cup {NULL}
    BY <2>1 DEF Chain
  <2> QED BY <2>1, <2>2, <2>3, <2>4 DEF ListOf, HeadFirst
<1>11. /\ Children(p)' = Children(p) \ {c}
       /\ \A q \in live \cup {idleproc} : q # p => Children(q)' = Children(q)
  <2>1. \A x \in live \ {c} : links'.parent[x] = links.parent[x]
    BY <1>2, <1>6
  <2>2. \A q : Children(q)' = {x \in live \ {c} : links'.parent[x] = q}
    BY <1>0 DEF Children
  <2>3. Children(p)' = Children(p) \ {c}
    BY <2>1, <2>2 DEF Children
  <2>4. ASSUME NEW q \in live \cup {idleproc}, q # p PROVE Children(q)' = Children(q)
    BY <2>1, <2>2, <2>4, <1>p DEF Children
  <2> QED BY <2>3, <2>4
<1>12. States' /\ FirstFork'
  BY <1>0, <1>5 DEF TableInv, States, FirstFork
<1>13. Tree'
  <2>1. ASSUME NEW x \in live \ {c} PROVE links'.parent[x] \in (live \ {c}) \cup {idleproc}
    <3>1. links'.parent[x] = links.parent[x] /\ links.parent[x] \in live \cup {idleproc}
      BY <1>2, <1>6 DEF TableInv, Tree
    <3>2. links.parent[x] # c
      BY <1>3 DEF Children
    <3> QED BY <3>1, <3>2
  <2>2. ASSUME NEW x \in Pid \ (live \ {c}) PROVE links'.cptr[x] = NULL
    <3>1. x \in Proc /\ links.cptr[x] = NULL
      BY <1>4, ProcFacts DEF TableInv, Tree
    <3>2. x # p
      BY <1>2, <1>3, ProcFacts
    <3> QED BY <3>1, <3>2, <1>6
  <2>3. ASSUME NEW x \in zombie \ {c} PROVE Children(x)' = {}
    <3>1. x \in live /\ Children(x) = {}
      BY <1>0, TableFacts DEF TableInv, States, Tree
    <3> QED BY <3>1, <1>11, <1>2
  <2> QED BY <2>1, <2>2, <2>3, <1>0 DEF Tree
<1>14. ASSUME NEW q \in live' \cup {idleproc} PROVE ChildChain(q)' /\ Youngest(q)'
  <2>1. q \in live \cup {idleproc}
    BY <1>0
  <2>2. CASE q = p
    BY <2>2, <1>9, <1>11 DEF ChildChain, Youngest
  <2>3. CASE q # p
    BY <2>1, <2>3, <1>10, <1>11 DEF ChildChain, Youngest
  <2> QED BY <2>2, <2>3
<1> QED BY <1>1, <1>12, <1>13, <1>14 DEF TableInv, Chains

-----------------------------------------------------------------------------
\* Every step keeps the invariant.
LEMMA TableStep ==
    TableInv /\ [TableNext]_allVars => TableInv'
<1> SUFFICES ASSUME TableInv, [TableNext]_allVars PROVE TableInv'
  OBVIOUS
<1>1. CASE exiting = NULL /\ Scan /\ UNCHANGED tableVars
  BY <1>1, ScanStep
<1>2. CASE \E p \in live \cup {idleproc} : Fork(p) \/ Exit(p) \/ Wait(p)
  BY <1>2, ForkStep, ExitStep, WaitStep
<1>3. CASE Reparent \/ ExitDone
  BY <1>3, ReparentStep, ExitDoneStep
<1>4. CASE UNCHANGED allVars
  <2>1. UNCHANGED vars /\ UNCHANGED <<links, zombie, exiting>>
    BY <1>4 DEF allVars, tableVars
  <2>2. PidInv'
    BY <2>1, StepInv DEF TableInv
  <2> QED BY <2>1, <2>2 DEF TableInv, States, FirstFork, Tree, Chains, ChildChain, Youngest,
                            Children, vars
<1> QED BY <1>1, <1>2, <1>3, <1>4 DEF TableNext

\* Outside do_exit() the invariant describes the lists exactly.
LEMMA TableInvExact ==
    TableInv => LinksExact
<1> SUFFICES ASSUME TableInv, exiting = NULL, NEW p \in live \cup {idleproc}
             PROVE  /\ Walks(p, Children(p))
                    /\ \A S \in SUBSET Children(p) : Walks(p, S) => S = Children(p)
                    /\ links.cptr[p] # NULL => links.yptr[links.cptr[p]] = NULL
                    /\ \A c \in Children(p) :
                          links.optr[c] # NULL => links.yptr[links.optr[c]] = c
                    /\ p \in zombie => Children(p) = {}
  BY DEF LinksExact
<1>1. Chain(links.cptr[p], links.optr, links.yptr, Children(p)) /\ HeadFirst(links, p)
  BY TableFacts DEF TableInv, Chains, ChildChain, ListOf, Youngest
<1>2. p \in zombie => Children(p) = {}
  BY TableFacts DEF TableInv, Tree
<1> QED BY <1>1, <1>2 DEF Chain, HeadFirst, Walks

\* The invariant holds in every state of the process table.
THEOREM TableInvariant == TableSpec => []TableInv
<1> QED BY TableInitInv, TableStep, PTL DEF TableSpec

\* After any sequence of forks, exits and waits the list of every process holds
\* all its children, once, and leads back, and no zombie keeps a child: do_wait()
\* finds every zombie and remove_links() repairs the right list, for every
\* number of processes.
THEOREM LinksAreExact == TableSpec => []LinksExact
<1> QED BY TableInvariant, TableInvExact, PTL

\* With the process table around it, get_pid() still returns unique pids.
THEOREM TablePidUnique == TableSpec => []UniquePid
<1>1. TableInv => UniquePid
  BY DEF TableInv, PidInv
<1> QED BY <1>1, TableInvariant, PTL
=============================================================================
