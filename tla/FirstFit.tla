------------------------------ MODULE FirstFit ------------------------------
(***************************************************************************)
(* What the page allocator promises: a request gets the lowest run of free *)
(* pages that is long enough, and NULL only if there is none.              *)
(***************************************************************************)
EXTENDS Integers

CONSTANTS NPage, NULL

Page == 0 .. NPage - 1
Run(base, n) == base .. base + n - 1

VARIABLES
    free,       \* the free pages
    result      \* what the last call returned; NULL after free_pages()

Fits(n) == {b \in Page : Run(b, n) \subseteq free}

Init == free = Page /\ result = NULL

AllocPages(n) ==
    \/ /\ Fits(n) = {}
       /\ result' = NULL /\ free' = free
    \/ \E b \in Fits(n) :
          /\ \A c \in Fits(n) : b <= c
          /\ result' = b /\ free' = free \ Run(b, n)

FreePages(base, n) ==
    /\ Run(base, n) \subseteq Page /\ Run(base, n) \cap free = {}
    /\ free' = free \cup Run(base, n)
    /\ result' = NULL

Next == \E n \in 1 .. NPage :
            AllocPages(n) \/ \E base \in Page : FreePages(base, n)

Spec == Init /\ [][Next]_<<free, result>>
=============================================================================
