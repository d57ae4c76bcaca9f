------------------------------ MODULE ListSpec ------------------------------
(***************************************************************************)
(* What the intrusive list macros of libk/list.c promise, with a list as a *)
(* sequence of nodes.  A node has one pair of link fields, so it can be on *)
(* at most one list, once: every insertion takes an unlinked node and a    *)
(* deletion names a node of that list.                                     *)
(***************************************************************************)
EXTENDS ListOps, SequencesExt

CONSTANTS Nodes,   \* the structures that carry next and prev fields
          Lists    \* the list heads

VARIABLE seqs      \* seqs[l]: the nodes of list l, from the head on

Position(q, n) == SelectInSeq(q, LAMBDA x : x = n)

(* LIST_INSERT_BEFORE: p goes in front of b.  The head pointer is not      *)
(* moved, so in front of the head is the end of the list.                  *)
PutBefore(q, b, p) ==
  IF b = Head(q) THEN Append(q, p) ELSE InsertAt(q, Position(q, b), p)

(* LIST_INSERT_AFTER: p follows a. *)
PutAfter(q, a, p) == InsertAt(q, Position(q, a) + 1, p)

Unlinked(p) == \A l \in Lists : p \notin Range(seqs[l])

Init == seqs = [l \in Lists |-> <<>>]

Insert(l, p, q) == Unlinked(p) /\ seqs' = [seqs EXCEPT ![l] = q]

Delete(l, p) == /\ p \in Range(seqs[l])
                /\ seqs' = [seqs EXCEPT ![l] = IF p = Head(@) THEN DeleteHead(@)
                                               ELSE RemoveFirst(@, p)]

Next == \E l \in Lists, p \in Nodes :
          \/ Insert(l, p, AppendTo(seqs[l], p))
          \/ Insert(l, p, PrependTo(seqs[l], p))
          \/ \E b \in Range(seqs[l]) : Insert(l, p, PutBefore(seqs[l], b, p))
          \/ \E a \in Range(seqs[l]) : Insert(l, p, PutAfter(seqs[l], a, p))
          \/ Delete(l, p)

Spec == Init /\ [][Next]_seqs
=============================================================================
