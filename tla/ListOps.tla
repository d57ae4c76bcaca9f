------------------------------ MODULE ListOps -------------------------------
(***************************************************************************)
(* The queue operations of libk/list.c that the kernel uses, on sequences  *)
(* (the head of the list first).  ListRing shows that the pointer code     *)
(* computes them.                                                          *)
(***************************************************************************)
EXTENDS Naturals, Sequences

(* LIST_APPEND: p becomes the last node. *)
AppendTo(q, p) == Append(q, p)

(* LIST_PREPEND: p becomes the head, but it is linked AFTER the old head,  *)
(* which therefore ends up last: <<h, a, b>> becomes <<p, a, b, h>>.       *)
PrependTo(q, p) == IF q = <<>> THEN <<p>> ELSE <<p>> \o Append(Tail(q), Head(q))

(* LIST_DELETE of the head, the only deletion the scheduler, the mutexes   *)
(* and the monitors make.                                                  *)
DeleteHead(q) == Tail(q)
=============================================================================
