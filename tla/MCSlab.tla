------------------------------- MODULE MCSlab -------------------------------
(* Two ranges of memory, the kernel image in the second, and a reserved one. *)
EXTENDS Slab, TLC

MCMemoryMap == << [base |-> 0, count |-> 3, available |-> TRUE],
                  [base |-> 3, count |-> 2, available |-> FALSE],
                  [base |-> 5, count |-> 7, available |-> TRUE] >>
MCEsize == (Threads :> 1536) @@ (Nodes :> 2040)
=============================================================================
