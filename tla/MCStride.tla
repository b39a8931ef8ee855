------------------------------ MODULE MCStride ------------------------------
\* StrideShare for TLC, on the condition that processes join near the others,
\* with the one under which nobody starves.
EXTENDS StrideShare

VARIABLE calm       \* history: see Calm

calmVars == <<shareVars, calm>>

CalmInit == ShareInit /\ calm = FALSE

\* From some time on no process is forked (one forked at stride 0 is served
\* first) and no priority exceeds BIG_STRIDE (its pass would be 0).
Calm == /\ ~calm /\ \A p \in P : priority[p] <= BigStride
        /\ calm' = TRUE /\ UNCHANGED shareVars

Dispatches == \E p \in P : ShareDispatch(p)

CalmStep ==
    \/ ShareNext /\ ~calm /\ calm' = calm
    \/ Calm
    \/ /\ calm /\ calm' = calm
       /\ \/ \E p \in P : Wake(p) /\ lead' = Joined(p, stride[p])
          \/ Dispatches
          \/ Idle /\ lead' = NoLead
          \/ \E v \in Priority : v <= BigStride /\ SetPriority(v) /\ UNCHANGED lead

CalmNext == CalmStep /\ NearJoins

\* The timer preempts the current process again and again.
CalmSpec ==
    /\ CalmInit /\ [][CalmNext]_calmVars
    /\ WF_calmVars(calm /\ calm' = calm
                     /\ \E p \in P : Preempt(p) /\ lead' = Charged(Active, p))

\* A runnable process is picked: those behind it pass it after finitely many
\* picks, also when sleepers keep coming back.
NoStarvation == \A p \in P : calm /\ p \in queue ~> current = p
=============================================================================
