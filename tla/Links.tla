------------------------------- MODULE Links --------------------------------
(***************************************************************************)
(* The linked lists of the kernel: a head, and in every node a pointer to  *)
(* the next node or null.  next is the function from nodes to pointers.    *)
(* Nodes outside the list keep pointers of their own.                      *)
(***************************************************************************)

\* S holds the head and, with every node, the one after it.
HoldsList(S, head, next, null) ==
    /\ head # null => head \in S
    /\ \A n \in S : next[n] # null => next[n] \in S

\* The nodes that a walk from the head meets: the least such set.
Reached(head, next, null) ==
    {n \in DOMAIN next :
        \A S \in SUBSET DOMAIN next : HoldsList(S, head, next, null) => n \in S}

\* while (p->next) p = p->next;  p->next = node;
LinkLast(head, next, null, node) ==
    LET list == Reached(head, next, null)
    IN  [n \in DOMAIN next |->
            IF n \in list /\ next[n] = null THEN node ELSE next[n]]

\* while (prev && prev->next != node) prev = prev->next;
\* if (prev) prev->next = node->next;
CutOut(head, next, null, node) ==
    LET list == Reached(head, next, null)
    IN  [n \in DOMAIN next |->
            IF n \in list /\ next[n] = node THEN next[node] ELSE next[n]]
=============================================================================
