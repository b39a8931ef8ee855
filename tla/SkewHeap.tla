------------------------------ MODULE SkewHeap ------------------------------
(***************************************************************************)
(* libs/skew_heap.h: a priority queue of nodes linked by left, right and   *)
(* parent pointers.  A heap is a record of the three pointer fields; lt is *)
(* the set of the pairs <<a, b>> with comp(a, b) == -1.                    *)
(***************************************************************************)
EXTENDS Integers

CONSTANT Nil            \* the null pointer

NoLinks(Nodes) == [left   |-> [n \in Nodes |-> Nil],
                   right  |-> [n \in Nodes |-> Nil],
                   parent |-> [n \in Nodes |-> Nil]]

skew_heap_init(h, a) ==
    [h EXCEPT !.left[a] = Nil, !.right[a] = Nil, !.parent[a] = Nil]

\* The heap and root of the union of the trees below a and b.  The smaller
\* root (b on a tie) stays on top, its children change sides, and the other
\* tree is merged with the former right child.
\* Mutation: the larger root stays on top.
RECURSIVE MutMergeLarger(_, _, _, _)
MutMergeLarger(h, lt, a, b) ==
    IF a = Nil THEN [heap |-> h, root |-> b]
    ELSE IF b = Nil THEN [heap |-> h, root |-> a]
    ELSE LET top == IF <<a, b>> \in lt THEN b ELSE a
             sub == IF top = a THEN MutMergeLarger(h, lt, h.right[a], b)
                               ELSE MutMergeLarger(h, lt, a, h.right[b])
             g == [sub.heap EXCEPT !.left[top] = sub.root, !.right[top] = h.left[top]]
         IN  [heap |-> IF sub.root = Nil THEN g
                       ELSE [g EXCEPT !.parent[sub.root] = top],
              root |-> top]

RECURSIVE skew_heap_merge(_, _, _, _)
skew_heap_merge(h, lt, a, b) ==
    IF a = Nil THEN [heap |-> h, root |-> b]
    ELSE IF b = Nil THEN [heap |-> h, root |-> a]
    ELSE LET top == IF <<a, b>> \in lt THEN a ELSE b
             sub == IF top = a THEN skew_heap_merge(h, lt, h.right[a], b)
                               ELSE skew_heap_merge(h, lt, a, h.right[b])
             g == [sub.heap EXCEPT !.left[top] = sub.root, !.right[top] = h.left[top]]
         IN  [heap |-> IF sub.root = Nil THEN g
                       ELSE [g EXCEPT !.parent[sub.root] = top],
              root |-> top]

\* Insert b into the heap with root a.
skew_heap_insert(h, lt, a, b) == skew_heap_merge(skew_heap_init(h, b), lt, a, b)

\* Remove b from the heap with root a: the union of its subtrees replaces it.
skew_heap_remove(h, lt, a, b) ==
    LET p == h.parent[b]
        m == skew_heap_merge(h, lt, h.left[b], h.right[b])
        g == IF m.root = Nil THEN m.heap ELSE [m.heap EXCEPT !.parent[m.root] = p]
    IN  IF p = Nil THEN [heap |-> g, root |-> m.root]
        ELSE [heap |-> IF g.left[p] = b THEN [g EXCEPT !.left[p] = m.root]
                                        ELSE [g EXCEPT !.right[p] = m.root],
              root |-> a]

-----------------------------------------------------------------------------
Kids(h, n) == {h.left[n], h.right[n]} \ {Nil}

\* The nodes below and including the node n.
RECURSIVE Subtree(_, _)
Subtree(h, n) ==
    IF n = Nil THEN {} ELSE {n} \cup UNION {Subtree(h, k) : k \in Kids(h, n)}

\* root is a tree of exactly the given nodes: every node but the root is the
\* left or the right child of its parent and of no other node.
IsTree(h, root, nodes) ==
    /\ Subtree(h, root) = nodes
    /\ root # Nil => h.parent[root] = Nil
    /\ \A n \in nodes :
          /\ h.left[n] = Nil \/ h.left[n] # h.right[n]
          /\ \A k \in Kids(h, n) : h.parent[k] = n

\* No node is smaller than its parent.
IsOrdered(h, lt, nodes) ==
    \A n \in nodes : h.parent[n] # Nil => <<n, h.parent[n]>> \notin lt
=============================================================================
