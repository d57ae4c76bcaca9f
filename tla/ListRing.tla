------------------------------ MODULE ListRing ------------------------------
(***************************************************************************)
(* libk/list.c: the circular doubly linked list macros, assignment by      *)
(* assignment, on a heap of link fields.  Each macro is one action: the    *)
(* kernel runs them with interrupts off or on data no handler touches.     *)
(* The callers' side of the contract is the guard: a node is inserted only *)
(* when it is on no list and deleted only from the list it is on.          *)
(***************************************************************************)
EXTENDS Naturals, Sequences, FiniteSets

CONSTANTS Nodes, Lists, NULL

VARIABLES next, prev,   \* the link fields of every node
          head          \* head[l]: the list variable, NULL when empty

vars == <<next, prev, head>>

(* The links of a node always lead to a node: the macros never write the  *)
(* null pointer to next or prev, only to the list variable.                *)
TypeOK == /\ next \in [Nodes -> Nodes]
          /\ prev \in [Nodes -> Nodes]
          /\ head \in [Lists -> Nodes \cup {NULL}]

(* The nodes LIST_NEXT visits, from h until next is h again. *)
Walk(h) ==
  LET nodes[k \in 1 .. Cardinality(Nodes)] ==
        IF k = 1 THEN <<h>>
        ELSE LET s == nodes[k - 1]
                 n == next[s[Len(s)]]
             IN  IF n = h \/ Len(s) < k - 1 THEN s ELSE Append(s, n)
  IN  nodes[Cardinality(Nodes)]

(* The contents of list l, head first. *)
Contents(l) == IF head[l] = NULL THEN <<>> ELSE Walk(head[l])

OnList(l, p) == \E i \in DOMAIN Contents(l) : Contents(l)[i] = p

Free(p) == \A l \in Lists : ~OnList(l, p)

Init == /\ next = [n \in Nodes |-> n]
        /\ prev = [n \in Nodes |-> n]
        /\ head = [l \in Lists |-> NULL]

(* The fields after p has been linked between a and a's successor. *)
LinkAfter(a, p) ==
  /\ prev' = [[prev EXCEPT ![p] = a] EXCEPT ![next[a]] = p]
  /\ next' = [[next EXCEPT ![p] = next[a]] EXCEPT ![a] = p]

(* The fields after p has been linked between b's predecessor and b. *)
LinkBefore(b, p) ==
  /\ next' = [[next EXCEPT ![p] = b] EXCEPT ![prev[b]] = p]
  /\ prev' = [[prev EXCEPT ![p] = prev[b]] EXCEPT ![b] = p]

(* p is alone on its ring. *)
SelfLink(p) == /\ next' = [next EXCEPT ![p] = p]
               /\ prev' = [prev EXCEPT ![p] = p]

(* Faulty variant: the tail pointer list->prev is not moved to p. *)
LIST_APPEND_OldTail(l, p) ==
  \/ /\ head[l] # NULL
     /\ next' = [[next EXCEPT ![p] = head[l]] EXCEPT ![prev[head[l]]] = p]
     /\ prev' = [prev EXCEPT ![p] = prev[head[l]]]
     /\ UNCHANGED head
  \/ /\ head[l] = NULL
     /\ SelfLink(p)
     /\ head' = [head EXCEPT ![l] = p]

LIST_APPEND(l, p) ==
  \/ /\ head[l] # NULL
     /\ LinkBefore(head[l], p)
     /\ UNCHANGED head
  \/ /\ head[l] = NULL
     /\ SelfLink(p)
     /\ head' = [head EXCEPT ![l] = p]

LIST_PREPEND(l, p) ==
  /\ \/ head[l] # NULL /\ LinkAfter(head[l], p)
     \/ head[l] = NULL /\ SelfLink(p)
  /\ head' = [head EXCEPT ![l] = p]

(* Faulty variant: a list that loses its head goes on at its last node. *)
LIST_DELETE_HeadToTail(l, p) ==
  /\ head' = [head EXCEPT ![l] = IF next[p] = p THEN NULL
                                 ELSE IF @ = p THEN prev[p] ELSE @]
  /\ LET next1 == [next EXCEPT ![prev[p]] = next[p]]
     IN  /\ prev' = [[prev EXCEPT ![next1[p]] = prev[p]] EXCEPT ![p] = p]
         /\ next' = [next1 EXCEPT ![p] = p]

LIST_DELETE(l, p) ==
  /\ head' = [head EXCEPT ![l] = IF next[p] = p THEN NULL
                                 ELSE IF @ = p THEN next[p] ELSE @]
  /\ LET next1 == [next EXCEPT ![prev[p]] = next[p]]
     IN  /\ prev' = [[prev EXCEPT ![next1[p]] = prev[p]] EXCEPT ![p] = p]
         /\ next' = [next1 EXCEPT ![p] = p]

LIST_INSERT_BEFORE(l, before, p) ==
  \/ before # NULL /\ LinkBefore(before, p) /\ UNCHANGED head
  \/ before = NULL /\ LIST_PREPEND(l, p)

LIST_INSERT_AFTER(l, after, p) ==
  \/ after # NULL /\ LinkAfter(after, p) /\ UNCHANGED head
  \/ after = NULL /\ LIST_PREPEND(l, p)

Positions(l) == {NULL} \cup {n \in Nodes : OnList(l, n)}

Next == \E l \in Lists, p \in Nodes :
          \/ Free(p) /\ LIST_APPEND(l, p)
          \/ Free(p) /\ LIST_PREPEND(l, p)
          \/ OnList(l, p) /\ LIST_DELETE(l, p)
          \/ Free(p) /\ \E n \in Positions(l) : LIST_INSERT_BEFORE(l, n, p)
          \/ Free(p) /\ \E n \in Positions(l) : LIST_INSERT_AFTER(l, n, p)

Spec == Init /\ [][Next]_vars
-----------------------------------------------------------------------------
(* The macros implement the sequence operations: walking next from the     *)
(* head gives, after every macro, the sequence ListSpec says it should.    *)
Abstract == INSTANCE ListSpec WITH seqs <- [l \in Lists |-> Contents(l)]

ImplementsSequences == Abstract!Spec

(* prev is the inverse of next on every ring, so a backwards walk (which   *)
(* LIST_APPEND relies on to find the tail) meets the same nodes.           *)
PrevInvertsNext == \A n \in Nodes : prev[next[n]] = n /\ next[prev[n]] = n

(* A node that is on no list is left self-linked by LIST_DELETE: no stale  *)
(* pointer into a list survives in a removed node.                         *)
FreeIsSelfLinked == \A n \in Nodes : Free(n) => next[n] = n /\ prev[n] = n
=============================================================================
