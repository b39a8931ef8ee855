---------------------------- MODULE StrideShare ----------------------------
(***************************************************************************)
(* Stride with a history variable: lead[a][b] is how much more a has been  *)
(* charged than b since both are runnable, as an integer that does not     *)
(* wrap around.                                                            *)
(***************************************************************************)
EXTENDS Stride

VARIABLE lead

NoLead == [a \in P |-> [b \in P |-> 0]]
ShareInit == Init /\ lead = NoLead

\* A process joins with the lead its stride stands for.
Joined(p, s) ==
    [a \in P |-> [b \in P |->
        IF a = p /\ b \in Active THEN Diff(s, stride[b])
        ELSE IF b = p /\ a \in Active THEN -Diff(s, stride[a])
        ELSE lead[a][b]]]

\* p is charged; what is known of processes that left the group is dropped.
Charged(queued, p) ==
    [a \in P |-> [b \in P |->
        IF a \notin queued \/ b \notin queued \/ a = b THEN 0
        ELSE IF a = p THEN lead[a][b] + Pass(priority[p])
        ELSE IF b = p THEN lead[a][b] - Pass(priority[p])
        ELSE lead[a][b]]]

ShareJoin(p) ==
    \/ Fork(p) /\ lead' = Joined(p, 0)
    \/ Wake(p) /\ lead' = Joined(p, stride[p])

ShareDispatch(p) ==
    \/ Preempt(p) /\ lead' = Charged(Active, p)
    \/ Block(p) /\ lead' = Charged(queue, p)

ShareNext ==
    \/ \E p \in P : ShareJoin(p) \/ ShareDispatch(p)
    \/ Idle /\ lead' = NoLead
    \/ \E v \in Priority : SetPriority(v) /\ UNCHANGED lead

shareVars == <<vars, lead>>

\* On the condition of Stride, that processes join near the others.
NearShareNext == ShareNext /\ NearJoins
NearShareSpec == ShareInit /\ [][NearShareNext]_shareVars

-----------------------------------------------------------------------------
\* "CPU share proportional to priority": while two processes are runnable,
\* what they have been charged, pass by pass, never differs by more than
\* BIG_STRIDE, however long they run and however often the strides wrap.
\* (Under NearShareSpec, as all of these.)
FairShare ==
    \A a, b \in Active : -BigStride <= lead[a][b] /\ lead[a][b] <= BigStride

\* The comparison of wrapped strides is the comparison of the true charges.
ComparesCharges ==
    \A a, b \in Active : Before(stride[a], stride[b]) <=> lead[a][b] < 0

\* The inductive invariant: the wrapped difference is the true lead.
ShareInv ==
    /\ TypeOK
    /\ Window
    /\ lead \in [P -> [P -> Int]] /\ \A a \in P : lead[a][a] = 0
    /\ \A a, b \in Active : lead[a][b] = Diff(stride[a], stride[b])

=============================================================================
