---------------------------- MODULE CleanupSpec ----------------------------
(***************************************************************************)
(* What libk/destructor.c promises: each thread has a stack of             *)
(* destructors of its own, and those that are popped run once, last in,    *)
(* first out.                                                              *)
(***************************************************************************)
EXTENDS Naturals, Sequences

CONSTANTS Threads, Dtors

VARIABLES
  stacks,  \* of each thread, the top first; 0 where a destructor was removed
  ran      \* the destructors run by the last step, in order

Init == stacks = [t \in Threads |-> <<>>] /\ ran = <<>>

Push(t, d) == stacks' = [stacks EXCEPT ![t] = <<d>> \o @] /\ ran' = <<>>

Remove(t, d) ==
  /\ ran' = <<>>
  /\ \E i \in DOMAIN stacks[t] : /\ stacks[t][i] = d /\ \A j \in 1..i - 1 : stacks[t][j] # d
                                 /\ stacks' = [stacks EXCEPT ![t][i] = 0]

Pop(t, n) ==
  /\ stacks' = [stacks EXCEPT ![t] = SubSeq(@, n + 1, Len(@))]
  /\ ran' = SelectSeq(SubSeq(stacks[t], 1, n), LAMBDA d : d # 0)

\* A step that is no business of the destructors
Other == UNCHANGED stacks /\ ran' = <<>>

Next ==
  \/ \E t \in Threads : \/ \E d \in Dtors : Push(t, d) \/ Remove(t, d)
                        \/ \E n \in 1..Len(stacks[t]) : Pop(t, n)
  \/ Other

Spec == Init /\ [][Next]_<<stacks, ran>>
=============================================================================
