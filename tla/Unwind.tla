------------------------------- MODULE Unwind -------------------------------
(***************************************************************************)
(* Exceptions and destructors: the chain of try frames of libk/exception.c *)
(* with the loop that KTRY makes of a try statement, and the stack of      *)
(* destructors of libk/destructor.c, whose frames all threads take from    *)
(* and give back to one cache.                                             *)
(*                                                                         *)
(* A program is any nesting of try statements; what a block does is        *)
(* chosen step by step.  The outermost statement of a thread is that of    *)
(* kernel_main, which catches everything and panics; a forked thread has   *)
(* it on its copy of the stack.                                            *)
(***************************************************************************)
EXTENDS Integers, Sequences, FiniteSets, Functions

CONSTANTS
  Threads,
  Depth,      \* bound on the try statements of each thread
  Frames,     \* bound on dtor_t frames: 1..Frames
  Dtors,      \* destructors with their argument
  Types,      \* exceptions the program of each thread throws
  Parent,     \* exception_def.parent
  Clauses     \* what a try statement may catch, and whether it has a finally block

NONE == "none"   \* no cause, or no parent

ASSUME UnwindAssumption ==
  /\ 0 \notin Dtors /\ Frames \in Nat /\ Depth \in [Threads -> Nat]
  /\ IsFiniteSet(DOMAIN Parent) /\ NONE \notin DOMAIN Parent
  /\ \A x \in DOMAIN Parent : Parent[x] \in DOMAIN Parent \cup {NONE}
  /\ \A t \in Threads : Types[t] \subseteq DOMAIN Parent
  /\ Clauses \subseteq [catch : SUBSET DOMAIN Parent, finally : BOOLEAN]

VARIABLES
  tries,      \* of each thread, the innermost first: exception_frame and its control
  dtors,      \* tls[dtor_get_key()] of each thread: a dtor_t frame, or 0
  next, dtor, \* the fields of dtor_t frames; dtor is 0 when there is nothing to run
  frames,     \* frames[0], the cache
  used,       \* frames that calloc has made
  panic,      \* kernel_main has caught an exception
  ran         \* history: the destructors run by the last step

vars == <<tries, dtors, next, dtor, frames, used, panic, ran>>

EXCEPTION_NEW == "new"
EXCEPTION_TRYING == "trying"
EXCEPTION_CATCHING == "catching"
EXCEPTION_FINISHING == "finishing"

\* A new frame.  at is the block that runs, or "test" on the way to exception_finished;
\* blocks are those that have run, and depth is the number of destructors on entry.
Try(clauses, state, at, until, depth) ==
  [clauses |-> clauses, state |-> state, at |-> at, caught |-> FALSE, cause |-> NONE,
   dtor_frame |-> until, depth |-> depth, blocks |-> IF at = "try" THEN <<"try">> ELSE <<>>]

KernelMain == [catch |-> {"Throwable"}, finally |-> FALSE]

Init ==
  /\ tries = [t \in Threads |-> << Try(KernelMain, EXCEPTION_TRYING, "try", 0, 0) >>]
  /\ dtors = [t \in Threads |-> 0]
  /\ next = [n \in 1..Frames |-> 0] /\ dtor = [n \in 1..Frames |-> 0]
  /\ frames = 0 /\ used = 0 /\ panic = FALSE /\ ran = <<>>

\* The last element of a sequence
Bottom(s) == s[Len(s)]

\* The frames that links lead to from n, as far as the frame until
Linked(links, n, until) ==
  LET from[k \in 0..Frames] ==
        IF k = 0 THEN <<>>
        ELSE LET s == from[k - 1]
                 m == IF s = <<>> THEN n ELSE links[Bottom(s)]
             IN  IF Len(s) < k - 1 \/ m \in {0, until} THEN s ELSE Append(s, m)
  IN  from[Frames]
Chain(n, until) == Linked(next, n, until)
Stack(t) == Chain(dtors[t], 0)

\* Faulty variant: the oldest destructor runs first
Pending_fifo(chain) == SelectSeq([i \in DOMAIN chain |-> dtor[chain[Len(chain) + 1 - i]]], LAMBDA d : d # 0)

\* The destructors of a chain that are still to run, the first one first
Pending(chain) == SelectSeq([i \in DOMAIN chain |-> dtor[chain[i]]], LAMBDA d : d # 0)

-----------------------------------------------------------------------------
\* Destructors

Unchanged == UNCHANGED <<dtors, next, dtor, frames, used>> /\ ran' = <<>>

\* Faulty variant: the last frame is not linked to the cache
Cached_cut(chain) ==
  /\ frames' = chain[1]
  /\ next' = [next EXCEPT ![Bottom(chain)] = 0]

\* The frames of a chain go to the front of the cache
Cached(chain) ==
  /\ frames' = chain[1]
  /\ next' = [next EXCEPT ![Bottom(chain)] = frames]

dtor_pop(t, until) ==
  LET chain == Chain(dtors[t], until)
  IN  \/ chain = <<>> /\ Unchanged
      \/ /\ chain # <<>>
         /\ ran' = Pending(chain)
         /\ dtor' = [n \in DOMAIN dtor |-> IF n \in Range(chain) THEN 0 ELSE dtor[n]]
         /\ Cached(chain)
         /\ dtors' = [dtors EXCEPT ![t] = next[Bottom(chain)]]
         /\ UNCHANGED used

\* A frame of the cache, or a new one
dtor_push(t, d) ==
  LET n == IF frames # 0 THEN frames ELSE used + 1
  IN  /\ n <= Frames
      /\ IF frames # 0 THEN frames' = next[n] /\ UNCHANGED used ELSE used' = n /\ UNCHANGED frames
      /\ next' = [next EXCEPT ![n] = dtors[t]]
      /\ dtor' = [dtor EXCEPT ![n] = d]
      /\ dtors' = [dtors EXCEPT ![t] = n]
      /\ ran' = <<>>

dtor_remove(t, d) ==
  /\ \E i \in DOMAIN Stack(t) : /\ dtor[Stack(t)[i]] = d /\ \A j \in 1..i - 1 : dtor[Stack(t)[j]] # d
                                /\ dtor' = [dtor EXCEPT ![Stack(t)[i]] = 0]
  /\ ran' = <<>>
  /\ UNCHANGED <<dtors, next, frames, used>>

-----------------------------------------------------------------------------
\* Exceptions

Running(t) == ~panic /\ tries[t][1].at # "test"

KTRY(t, clauses) ==
  /\ Running(t) /\ Len(tries[t]) <= Depth[t]
  /\ tries' = [tries EXCEPT ![t] = <<Try(clauses, EXCEPTION_NEW, "test", dtors[t], Len(Stack(t)))>> \o @]
  /\ Unchanged /\ UNCHANGED panic

\* exception_throw_cause: the innermost frame goes back to its test
Thrown(stack, cause) == [stack EXCEPT ![1].cause = cause, ![1].at = "test"]

exception_throw(t, type) ==
  /\ Running(t)
  /\ tries' = [tries EXCEPT ![t] = Thrown(@, type)]
  /\ Unchanged /\ UNCHANGED panic

\* The end of a block
Ends(t) ==
  /\ Running(t) /\ Len(tries[t]) > 1
  /\ tries' = [tries EXCEPT ![t][1].at = "test"]
  /\ Unchanged /\ UNCHANGED panic

\* The type and those it is derived from
Ancestors(type) ==
  LET up[k \in 0..Cardinality(DOMAIN Parent)] ==
        IF k = 0 THEN {type}
        ELSE up[k - 1] \cup ({Parent[x] : x \in up[k - 1] \ {NONE}})
  IN  up[Cardinality(DOMAIN Parent)] \ {NONE}

\* Faulty variant: only the type itself matches
exception_match_exact(f) == f.cause \in f.clauses.catch

exception_match(f) == Ancestors(f.cause) \cap f.clauses.catch # {}

Runs(f, block) == [f EXCEPT !.at = block, !.blocks = Append(@, block)]

\* Faulty variant: a frame whose block has thrown skips its finally block
Finishing_quiet(f) ==
  LET g == [f EXCEPT !.state = EXCEPTION_FINISHING]
  IN  IF f.clauses.finally /\ f.cause = NONE THEN Runs(g, "finally") ELSE [g EXCEPT !.at = "test"]

Finishing(f) ==
  LET g == [f EXCEPT !.state = EXCEPTION_FINISHING]
  IN  IF f.clauses.finally THEN Runs(g, "finally") ELSE [g EXCEPT !.at = "test"]

Catching(f) ==
  LET g == [f EXCEPT !.state = EXCEPTION_CATCHING]
  IN  IF exception_match(f) THEN Runs([g EXCEPT !.caught = TRUE], "catch") ELSE [g EXCEPT !.at = "test"]

\* Faulty variant: an exception is thrown on when the frame had a catch block
Leave_clauses(stack) ==
  LET f == stack[1]
  IN  IF f.cause # NONE /\ f.clauses.catch = {} THEN Thrown(Tail(stack), f.cause) ELSE Tail(stack)

\* The frame goes, and an exception nobody caught is thrown on
Leave(stack) ==
  LET f == stack[1]
  IN  IF f.cause # NONE /\ ~f.caught THEN Thrown(Tail(stack), f.cause) ELSE Tail(stack)

\* exception_finished and the conditions behind it, exception_try, exception_match and
\* exception_finally, choose the next block
exception_finished(t) ==
  LET f == tries[t][1]
  IN  /\ ~panic /\ f.at = "test"
      /\ \/ /\ f.state = EXCEPTION_NEW
            /\ tries' = [tries EXCEPT ![t][1] = Runs([f EXCEPT !.state = EXCEPTION_TRYING], "try")]
            /\ Unchanged /\ UNCHANGED panic
         \/ /\ f.state = EXCEPTION_TRYING /\ f.cause # NONE
            /\ tries' = [tries EXCEPT ![t][1] = Catching(f)]
            /\ panic' = (Len(tries[t]) = 1)
            /\ Unchanged
         \/ /\ f.state = EXCEPTION_CATCHING \/ (f.state = EXCEPTION_TRYING /\ f.cause = NONE)
            /\ tries' = [tries EXCEPT ![t][1] = Finishing(f)]
            /\ Unchanged /\ UNCHANGED panic
         \/ /\ f.state = EXCEPTION_FINISHING
            /\ dtor_pop(t, f.dtor_frame)
            /\ tries' = [tries EXCEPT ![t] = Leave(@)]
            /\ UNCHANGED panic

-----------------------------------------------------------------------------
\* A block may pop what it has pushed itself, as dtor_test does
Own(t) == {n \in Range(Stack(t)) \cup {tries[t][1].dtor_frame} :
             Len(Chain(dtors[t], n)) <= Len(Stack(t)) - tries[t][1].depth}

Next ==
  \E t \in Threads :
    \/ \E c \in Clauses : KTRY(t, c)
    \/ \E type \in Types[t] : exception_throw(t, type)
    \/ Ends(t)
    \/ exception_finished(t)
    \/ /\ Running(t) /\ UNCHANGED <<tries, panic>>
       /\ \/ \E d \in Dtors : dtor_push(t, d) \/ dtor_remove(t, d)
          \/ \E until \in Own(t) : dtor_pop(t, until)

Spec == Init /\ [][Next]_vars

\* No step reads ran: states that differ in it only are explored once
View == <<tries, dtors, next, dtor, frames, used, panic>>

-----------------------------------------------------------------------------
TypeOK ==
  /\ \A t \in Threads : \A i \in DOMAIN tries[t] :
       tries[t][i].cause \in Types[t] \cup {NONE} /\ tries[t][i].dtor_frame \in 0..Frames
  /\ dtors \in [Threads -> 0..Frames] /\ next \in [1..Frames -> 0..Frames]
  /\ dtor \in [1..Frames -> Dtors \cup {0}] /\ frames \in 0..used /\ used \in 0..Frames

\* The place on the destructor stack that a try frame goes back to is still there, as
\* deep as it was when the try statement began.
TriesReachTheirStack ==
  \A t \in Threads : \A i \in DOMAIN tries[t] :
    LET f == tries[t][i]
    IN  /\ f.dtor_frame \in Range(Stack(t)) \cup {0}
        /\ Len(Chain(dtors[t], f.dtor_frame)) = Len(Stack(t)) - f.depth

\* Every dtor_t frame is on the stack of one thread or in the cache: none is lost, and
\* none is given to two threads, so that a try statement finds the place on the stack
\* that it goes back to as deep as it was when it began.
EveryFrameOnce ==
  /\ TypeOK /\ TriesReachTheirStack
  /\ \A n \in 1..used :
       Cardinality({t \in Threads : n \in Range(Stack(t))}) = IF n \in Range(Chain(frames, 0)) THEN 0 ELSE 1

Left(t) == Len(tries'[t]) < Len(tries[t])

\* However a try statement is left, its try block has run, then a catch block if one of
\* them is for the exception, then its finally block, each once.
BlocksInOrder ==
  [][\A t \in Threads : Left(t) =>
       LET f == tries[t][1]
       IN  f.blocks = <<"try">> \o (IF f.caught THEN <<"catch">> ELSE <<>>)
                                \o (IF f.clauses.finally THEN <<"finally">> ELSE <<>>)]_vars

\* An exception that no catch block was for goes on to the enclosing try statement,
\* and one that has a block for it goes no further.
UncaughtGoesOut ==
  [][\A t \in Threads : Left(t) =>
       LET f == tries[t][1]
           g == tries'[t][1]
       IN  IF f.cause # NONE /\ "catch" \notin Range(f.blocks)
           THEN g.cause = f.cause /\ g.at = "test"
           ELSE g = tries[t][2]]_vars

\* type is derived from base: in every set with type that is closed under Parent
IsA(type, base) ==
  \A S \in SUBSET DOMAIN Parent : type \in S /\ {Parent[x] : x \in S} \subseteq S \cup {NONE} => base \in S

\* A catch block runs for an exception derived from its type, and an exception does not
\* pass a catch block that is for it.
CatchesItsOwn ==
  \A t \in Threads : \A f \in Range(tries[t]) :
    f.state = EXCEPTION_CATCHING /\ (f.at = "catch" \/ ~f.caught) =>
      (f.at = "catch" <=> \E base \in f.clauses.catch : IsA(f.cause, base))

Cleanup == INSTANCE CleanupSpec WITH stacks <- [t \in Threads |-> [i \in DOMAIN Stack(t) |-> dtor[Stack(t)[i]]]]

\* With frames that go from thread to thread through the cache, each thread has a stack
\* of its own destructors, which run once and in reverse order when it is unwound.
ImplementsCleanup == Cleanup!Spec
=============================================================================
