-------------------------------- MODULE List --------------------------------
(***************************************************************************)
(* The circular doubly linked lists of libs/list.h.  A value l holds the   *)
(* links l.next and l.prev of all entries; the head of a list is an entry  *)
(* like the others, and nothing checks what is linked where.               *)
(***************************************************************************)

\* prev->next = next->prev = elm; elm->next = next; elm->prev = prev.
link_between(l, elm, prev, next) ==
    [next |-> [l.next EXCEPT ![prev] = elm, ![elm] = next],
     prev |-> [l.prev EXCEPT ![next] = elm, ![elm] = prev]]

list_add_after(l, listelm, elm) == link_between(l, elm, listelm, l.next[listelm])
list_add_before(l, listelm, elm) == link_between(l, elm, l.prev[listelm], listelm)

\* The entry keeps its own links.
list_del(l, listelm) ==
    LET prev == l.prev[listelm]
        next == l.next[listelm]
    IN  [next |-> [l.next EXCEPT ![prev] = next],
         prev |-> [l.prev EXCEPT ![next] = prev]]

list_empty(l, list) == l.next[list] = list
=============================================================================
