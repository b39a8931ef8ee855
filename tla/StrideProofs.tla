---------------------------- MODULE StrideProofs ----------------------------
(***************************************************************************)
(* Stride scheduling keeps the strides of the runnable processes within    *)
(* BIG_STRIDE, and gives each its share, for every number of processes,    *)
(* every BIG_STRIDE and every choice of priorities, on the condition that  *)
(* a process becomes runnable only with a stride near those of the others  *)
(* (NearJoins).  The kernel does not ensure it: module MCStrideOrder.      *)
(***************************************************************************)
EXTENDS StrideShare, TLAPS

\* A pass is at most BIG_STRIDE: the quotient of a division by at least 1.
LEMMA PassBound ==
    ASSUME NEW v \in Nat \ {0}
    PROVE  Pass(v) \in 0 .. BigStride
<1> DEFINE q == BigStride \div v
<1>1. BigStride \in Nat
  BY BigStrideAssumption
<1>2. q \in Int /\ v * q <= BigStride /\ 0 <= q
  BY <1>1
<1>3. q <= v * q
  <2>1. v >= 1
    OBVIOUS
  <2> HIDE DEF q
  <2> QED BY <1>2, <2>1
<1> QED BY <1>1, <1>2, <1>3 DEF Pass

\* The difference of near strides has no wraparound trap: it is antisymmetric.
LEMMA DiffAntisymmetric ==
    ASSUME NEW s \in Strides, NEW t \in Strides, Near(s, t)
    PROVE  Near(t, s) /\ Diff(t, s) = -Diff(s, t) /\ Diff(s, t) \in Int
BY BigStrideAssumption DEF Strides, Modulus, Near, Diff

LEMMA DiffSelf ==
    ASSUME NEW s \in Strides
    PROVE  Diff(s, s) = 0 /\ Near(s, s)
BY BigStrideAssumption DEF Strides, Modulus, Near, Diff

\* Charging a smallest stride s moves it by d against every near stride t, and
\* leaves it near.
LEMMA Advance ==
    ASSUME NEW s \in Strides, NEW t \in Strides, NEW d \in 0 .. BigStride,
           Near(s, t), ~Before(t, s)
    PROVE  /\ Plus(s, d) \in Strides
           /\ Diff(Plus(s, d), t) = Diff(s, t) + d
           /\ Diff(t, Plus(s, d)) = Diff(t, s) - d
           /\ Near(Plus(s, d), t) /\ Near(t, Plus(s, d))
BY BigStrideAssumption DEF Strides, Modulus, Near, Diff, Before, Plus

LEMMA PlusType ==
    ASSUME NEW s \in Strides, NEW d \in 0 .. BigStride
    PROVE  Plus(s, d) \in Strides
BY BigStrideAssumption DEF Strides, Modulus, Plus

-----------------------------------------------------------------------------
\* A process that joins is near all others.
LEMMA JoinStep ==
    ASSUME TypeOK, Window, NEW p \in P, NEW s \in Strides, NEW v \in Nat \ {0},
           Join(p, s, v), NearJoins
    PROVE  /\ TypeOK' /\ Window' /\ Active' = Active \cup {p}
           /\ \A q \in Active : Near(s, stride[q])
<1> USE StrideAssumption
<1>1. /\ p \notin Active /\ p # current /\ p \notin queue
      /\ stride' = [stride EXCEPT ![p] = s]
      /\ queue' = queue \cup {p} /\ current' = current
      /\ priority' = [priority EXCEPT ![p] = v]
  BY DEF Join, Active
<1>2. TypeOK'
  BY <1>1 DEF TypeOK
<1>3. Active' = Active \cup {p}
  BY <1>1 DEF Active
<1>5. stride'[p] = s
  BY <1>1 DEF TypeOK
<1>4. ASSUME NEW q \in Active
      PROVE  stride'[q] = stride[q] /\ Near(s, stride[q]) /\ stride[q] \in Strides
  <2>1. stride'[q] = stride[q] /\ stride[q] \in Strides
    BY <1>1 DEF Active, TypeOK
  <2>2. Near(stride'[p], stride'[q])
    BY <1>1, <1>3 DEF NearJoins
  <2> QED BY <2>1, <2>2, <1>5
<1>6. Window'
  <2> SUFFICES ASSUME NEW a \in Active \cup {p}, NEW b \in Active \cup {p}
               PROVE  Near(stride'[a], stride'[b])
    BY <1>3 DEF Window
  <2>1. CASE a \in Active /\ b \in Active
    BY <2>1, <1>4 DEF Window
  <2>2. CASE a = p /\ b = p
    BY <2>2, <1>5, DiffSelf
  <2>3. CASE a = p /\ b \in Active
    BY <2>3, <1>4, <1>5
  <2>4. CASE a \in Active /\ b = p
    BY <2>4, <1>4, <1>5, DiffAntisymmetric
  <2> QED BY <2>1, <2>2, <2>3, <2>4
<1> QED BY <1>2, <1>3, <1>4, <1>6

\* The process picked had a smallest stride, so it stays near all others.
LEMMA DispatchStep ==
    ASSUME TypeOK, Window, NEW queued \in SUBSET Active, NEW p \in P,
           Dispatch(queued, p)
    PROVE  /\ TypeOK' /\ Window' /\ Active' = queued
           /\ \A a, b \in queued :
                 Diff(stride'[a], stride'[b]) =
                     IF a = b THEN 0
                     ELSE IF a = p THEN Diff(stride[a], stride[b]) + Pass(priority[p])
                     ELSE IF b = p THEN Diff(stride[a], stride[b]) - Pass(priority[p])
                     ELSE Diff(stride[a], stride[b])
<1> USE StrideAssumption
<1> DEFINE d == Pass(priority[p])
<1>0. queued \subseteq P
  BY DEF Active, TypeOK
<1>1. /\ p \in queued
      /\ \A q \in queued : ~Before(stride[q], stride[p])
      /\ stride' = [stride EXCEPT ![p] = Plus(stride[p], d)]
      /\ queue' = queued \ {p} /\ current' = p /\ priority' = priority
  BY DEF Dispatch, TypeOK
<1>2. d \in 0 .. BigStride
  BY PassBound DEF TypeOK
<1> HIDE DEF d
<1>3. /\ stride'[p] = Plus(stride[p], d) /\ stride'[p] \in Strides
      /\ \A q \in queued : q # p => stride'[q] = stride[q]
      /\ \A q \in queued : stride[q] \in Strides
  BY <1>0, <1>1, <1>2, PlusType DEF TypeOK
<1>4. TypeOK'
  <2>1. stride' \in [P -> Strides]
    BY <1>1, <1>3 DEF TypeOK
  <2> QED BY <2>1, <1>0, <1>1 DEF TypeOK
<1>5. Active' = queued
  BY <1>0, <1>1 DEF Active
<1>6. ASSUME NEW a \in queued, NEW b \in queued
      PROVE  /\ Near(stride'[a], stride'[b])
             /\ Diff(stride'[a], stride'[b]) =
                     IF a = b THEN 0
                     ELSE IF a = p THEN Diff(stride[a], stride[b]) + d
                     ELSE IF b = p THEN Diff(stride[a], stride[b]) - d
                     ELSE Diff(stride[a], stride[b])
  <2>n. Near(stride[a], stride[b]) /\ Near(stride[b], stride[a])
    BY DEF Window
  <2>1. CASE a = b
    <3>1. stride'[a] \in Strides
      BY <1>3
    <3> QED BY <2>1, <3>1, DiffSelf
  <2>2. CASE a = p /\ b # p
    BY <2>2, <2>n, <1>1, <1>2, <1>3, Advance
  <2>3. CASE a # p /\ b = p
    BY <2>3, <2>n, <1>1, <1>2, <1>3, Advance
  <2>4. CASE a # b /\ a # p /\ b # p
    BY <2>4, <2>n, <1>3
  <2> QED BY <2>1, <2>2, <2>3, <2>4
<1>7. Window'
  BY <1>5, <1>6 DEF Window
<1> QED BY <1>4, <1>5, <1>6, <1>7 DEF d

\* What Idle and lab6_set_priority() leave alone.
LEMMA OtherStep ==
    ASSUME TypeOK, Window,
           Idle \/ (\E v \in Priority : SetPriority(v)) \/ UNCHANGED vars
    PROVE  TypeOK' /\ Window' /\ stride' = stride /\ Active' \subseteq Active
<1> USE StrideAssumption
<1>1. CASE Idle
  BY <1>1 DEF Idle, TypeOK, Window, Active
<1>2. CASE \E v \in Priority : SetPriority(v)
  BY <1>2 DEF SetPriority, TypeOK, Window, Active
<1>3. CASE UNCHANGED vars
  BY <1>3 DEF vars, TypeOK, Window, Active
<1> QED BY <1>1, <1>2, <1>3

-----------------------------------------------------------------------------
\* The strides that Stride's steps give to a process have their type.
LEMMA JoinArgs ==
    ASSUME TypeOK, NEW p \in P
    PROVE  /\ Fork(p) => Join(p, 0, 1)
           /\ Wake(p) => Join(p, stride[p], priority[p])
           /\ 0 \in Strides /\ 1 \in Nat \ {0}
           /\ stride[p] \in Strides /\ priority[p] \in Nat \ {0}
           /\ Active \in SUBSET Active /\ queue \in SUBSET Active
BY BigStrideAssumption DEF TypeOK, Fork, Wake, Strides, Modulus, Active

\* Window: as long as processes join near the others, the wrapped strides of
\* the runnable processes stay within BIG_STRIDE of each other.
THEOREM WindowCorrect == NearSpec => [](TypeOK /\ Window)
<1>1. Init => TypeOK /\ Window
  BY StrideAssumption, BigStrideAssumption
     DEF Init, TypeOK, Window, Active, Strides, Modulus
<1>2. TypeOK /\ Window /\ [NearNext]_vars => (TypeOK /\ Window)'
  <2> SUFFICES ASSUME TypeOK, Window, [NearNext]_vars PROVE TypeOK' /\ Window'
    OBVIOUS
  <2>1. CASE NearJoins /\ \E p \in P : Fork(p) \/ Wake(p)
    BY <2>1, JoinArgs, JoinStep
  <2>2. CASE \E p \in P : Preempt(p) \/ Block(p)
    BY <2>2, JoinArgs, DispatchStep DEF Preempt, Block
  <2>3. CASE Idle \/ (\E v \in Priority : SetPriority(v)) \/ UNCHANGED vars
    BY <2>3, OtherStep
  <2> QED BY <2>1, <2>2, <2>3 DEF NearNext, Next
<1> QED BY <1>1, <1>2, PTL DEF NearSpec

\* The lead recorded for a process that joins is the wrapped difference.
LEMMA ShareJoinStep ==
    ASSUME ShareInv, NEW p \in P, NEW s \in Strides, NEW v \in Nat \ {0},
           Join(p, s, v), NearJoins, lead' = Joined(p, s)
    PROVE  ShareInv'
<1>1. /\ TypeOK' /\ Window' /\ Active' = Active \cup {p}
      /\ \A q \in Active : Near(s, stride[q])
  BY JoinStep DEF ShareInv
<1>2. /\ p \notin Active /\ stride' = [stride EXCEPT ![p] = s]
      /\ \A q \in Active : Near(s, stride[q])
      /\ Active \subseteq P /\ stride \in [P -> Strides]
      /\ lead \in [P -> [P -> Int]] /\ \A a \in P : lead[a][a] = 0
      /\ \A a, b \in Active : lead[a][b] = Diff(stride[a], stride[b])
  BY <1>1 DEF Join, ShareInv, TypeOK, Active
<1>3. \A q \in Active : /\ stride'[q] = stride[q] /\ stride[q] \in Strides
                        /\ Diff(s, stride[q]) \in Int
                        /\ Diff(stride[q], s) = -Diff(s, stride[q])
  BY <1>2, DiffAntisymmetric
<1>4. stride'[p] = s
  BY <1>2
<1>5. lead' \in [P -> [P -> Int]] /\ \A a \in P : lead'[a][a] = 0
  BY <1>2, <1>3 DEF Joined
<1>6. ASSUME NEW a \in Active', NEW b \in Active'
      PROVE  lead'[a][b] = Diff(stride'[a], stride'[b])
  <2>0. /\ a \in Active \cup {p} /\ b \in Active \cup {p} /\ a \in P /\ b \in P
        /\ lead'[a][b] = IF a = p /\ b \in Active THEN Diff(s, stride[b])
                         ELSE IF b = p /\ a \in Active THEN -Diff(s, stride[a])
                         ELSE lead[a][b]
    BY <1>1, <1>2 DEF Joined
  <2>1. CASE a \in Active /\ b \in Active
    BY <2>0, <2>1, <1>2, <1>3
  <2>2. CASE a = p /\ b \in Active
    BY <2>0, <2>2, <1>3, <1>4
  <2>3. CASE a \in Active /\ b = p
    BY <2>0, <2>3, <1>2, <1>3, <1>4
  <2>4. CASE a = p /\ b = p
    BY <2>0, <2>4, <1>2, <1>4, DiffSelf
  <2> QED BY <2>0, <2>1, <2>2, <2>3, <2>4
<1> QED BY <1>1, <1>5, <1>6 DEF ShareInv

\* Charging the picked process moves the leads as it moves the differences.
LEMMA ShareDispatchStep ==
    ASSUME ShareInv, NEW queued \in SUBSET Active, NEW p \in P,
           Dispatch(queued, p), lead' = Charged(queued, p)
    PROVE  ShareInv'
<1> DEFINE d == Pass(priority[p])
<1>1. /\ TypeOK' /\ Window' /\ Active' = queued
      /\ \A a, b \in queued :
            Diff(stride'[a], stride'[b]) =
                IF a = b THEN 0
                ELSE IF a = p THEN Diff(stride[a], stride[b]) + d
                ELSE IF b = p THEN Diff(stride[a], stride[b]) - d
                ELSE Diff(stride[a], stride[b])
  BY DispatchStep DEF ShareInv
<1>2. /\ queued \subseteq P /\ lead \in [P -> [P -> Int]]
      /\ \A a, b \in queued : lead[a][b] = Diff(stride[a], stride[b])
  BY DEF ShareInv, TypeOK, Active
<1>3. d \in Int
  BY PassBound, BigStrideAssumption DEF ShareInv, TypeOK
<1>4. lead' \in [P -> [P -> Int]] /\ \A a \in P : lead'[a][a] = 0
  BY <1>2, <1>3 DEF Charged
<1>5. \A a, b \in queued : lead'[a][b] = Diff(stride'[a], stride'[b])
  BY <1>1, <1>2 DEF Charged
<1> QED BY <1>1, <1>4, <1>5 DEF ShareInv

\* The inductive invariant of StrideShare, as long as processes join near the
\* others.
THEOREM ShareInvariance == NearShareSpec => []ShareInv
<1>1. ShareInit => ShareInv
  <2> SUFFICES ASSUME ShareInit PROVE ShareInv
    OBVIOUS
  <2>1. TypeOK /\ Window /\ Active = {}
    BY StrideAssumption, BigStrideAssumption
       DEF ShareInit, Init, TypeOK, Window, Active, Strides, Modulus
  <2> QED BY <2>1 DEF ShareInit, NoLead, ShareInv
<1>2. ShareInv /\ [NearShareNext]_shareVars => ShareInv'
  <2> SUFFICES ASSUME ShareInv, [NearShareNext]_shareVars PROVE ShareInv'
    OBVIOUS
  <2>t. TypeOK /\ Window
    BY DEF ShareInv
  <2>1. ASSUME NEW p \in P, ShareJoin(p), NearJoins PROVE ShareInv'
    BY <2>1, <2>t, JoinArgs, ShareJoinStep DEF ShareJoin
  <2>2. ASSUME NEW p \in P, ShareDispatch(p) PROVE ShareInv'
    BY <2>2, <2>t, JoinArgs, ShareDispatchStep DEF ShareDispatch, Preempt, Block
  <2>3. CASE Idle /\ lead' = NoLead
    <3>1. Active' = {}
      BY <2>3 DEF Idle, Active
    <3> QED BY <2>3, <2>t, <3>1, OtherStep DEF ShareInv, NoLead
  <2>4. CASE \/ (\E v \in Priority : SetPriority(v)) /\ UNCHANGED lead
             \/ UNCHANGED shareVars
    <3>1. (\E v \in Priority : SetPriority(v)) \/ UNCHANGED vars
      BY <2>4 DEF shareVars
    <3>2. lead' = lead
      BY <2>4 DEF shareVars
    <3> QED BY <3>1, <3>2, <2>t, OtherStep DEF ShareInv
  <2> QED BY <2>1, <2>2, <2>3, <2>4 DEF NearShareNext, ShareNext
<1> QED BY <1>1, <1>2, PTL DEF NearShareSpec

\* FairShare: as long as processes join near the others, what two runnable
\* processes are charged never differs by more than BIG_STRIDE, and the wrapped
\* comparison is that of the true charges.
THEOREM FairShareCorrect == NearShareSpec => [](FairShare /\ ComparesCharges)
<1>1. ShareInv => FairShare /\ ComparesCharges
  <2> SUFFICES ASSUME ShareInv, NEW a \in Active, NEW b \in Active
               PROVE  /\ -BigStride <= lead[a][b] /\ lead[a][b] <= BigStride
                      /\ Before(stride[a], stride[b]) <=> lead[a][b] < 0
    BY DEF FairShare, ComparesCharges
  <2>1. lead[a][b] = Diff(stride[a], stride[b]) /\ Near(stride[a], stride[b])
    BY DEF ShareInv, Window
  <2> QED BY <2>1 DEF Near, Before
<1> QED BY <1>1, ShareInvariance, PTL
=============================================================================
