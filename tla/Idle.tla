-------------------------------- MODULE Idle --------------------------------
(***************************************************************************)
(* The idle loop of arch/i386/isa.c against its interrupts: irq_flag, on   *)
(* which wait_irq halts, and the ring of scan codes between the keyboard's *)
(* interrupt handler and keyq_get of arch/i386/console.c.  What runs with  *)
(* interrupts off is one step; between any two steps an interrupt may      *)
(* come.  keyhead and keytail are counted on for ever: the ring's 256      *)
(* divides the range of an int, so that its wrapping round does not show.  *)
(***************************************************************************)
EXTENDS Integers, Sequences

CONSTANTS
  Size,       \* sizeof(keyq)
  Codes,      \* scan codes; keyq_get takes 0 for an empty ring
  Reset,      \* the scan code that resets the machine
  MaxKeys     \* bound on keys pressed

ASSUME IdleAssumption ==
  /\ Size \in Nat \ {0} /\ MaxKeys \in Nat
  /\ Codes \subseteq Nat \ {0} /\ Reset \in Codes

VARIABLES
  irq_flag,          \* interrupts that wait_irq has not returned yet
  keyq,              \* the ring
  keyhead, keytail,  \* the next place to write, and the next to read
  at,                \* where the idle loop is
  irq,               \* of wait_irq
  pressed,           \* keys pressed
  accepted, got      \* history: scan codes put into the ring, and read from it

ring == <<keyq, keyhead, keytail, accepted, got>>
vars == <<irq_flag, ring, at, irq, pressed>>

TIMER == 0
KEYBOARD == 1
Irqs == {TIMER, KEYBOARD}

Init ==
  /\ irq_flag = {} /\ at = "test" /\ irq = 0 /\ pressed = 0
  /\ keyq = [i \in 0..Size - 1 |-> 0]
  /\ keyhead = 0 /\ keytail = 0
  /\ accepted = <<>> /\ got = <<>>

keyq_ptr(i) == i % Size

-----------------------------------------------------------------------------
\* Interrupts

\* The ring takes one more code
Room == keyq_ptr(keyhead + 1) # keyq_ptr(keytail)

\* A key pressed when the ring is full is dropped
keyb_isr(code) ==
  \/ /\ Room
     /\ keyq' = [keyq EXCEPT ![keyq_ptr(keyhead)] = code]
     /\ keyhead' = keyhead + 1
     /\ accepted' = Append(accepted, code)
     /\ UNCHANGED <<keytail, got>>
  \/ ~Room /\ UNCHANGED ring

\* An interrupt ends hlt
Woken == at' = IF at = "halted" THEN "test" ELSE at

i386_irq(n) ==
  /\ irq_flag' = irq_flag \cup {n}
  /\ Woken
  /\ \/ n = TIMER /\ UNCHANGED <<ring, pressed>>
     \/ /\ n = KEYBOARD /\ pressed < MaxKeys
        /\ pressed' = pressed + 1
        /\ \E code \in Codes : keyb_isr(code)
  /\ UNCHANGED irq

-----------------------------------------------------------------------------
\* wait_irq: the test, the halt, and the search for the lowest interrupt

wait_irq_test ==
  /\ at = "test"
  /\ at' = IF irq_flag = {} THEN "hlt" ELSE "search"
  /\ irq' = 0
  /\ UNCHANGED <<irq_flag, ring, pressed>>

\* An interrupt that came after the test does not keep the processor from halting
hlt ==
  /\ at = "hlt"
  /\ at' = "halted"
  /\ UNCHANGED <<irq_flag, ring, irq, pressed>>

\* Faulty variant: the keyboard is read when its interrupt is the one that was returned
Found_switch == IF irq = KEYBOARD THEN "keys" ELSE "yield"

\* Whatever interrupt it was, the loop reads the keys
Found == "keys"

wait_irq_search ==
  /\ at = "search"
  /\ \/ /\ irq \in irq_flag
        /\ irq_flag' = irq_flag \ {irq}
        /\ at' = Found
        /\ UNCHANGED irq
     \/ /\ irq \notin irq_flag
        /\ irq' = irq + 1
        /\ UNCHANGED <<irq_flag, at>>
  /\ UNCHANGED <<ring, pressed>>

-----------------------------------------------------------------------------
\* The rest of the loop

\* Faulty variant: keytail moves before the code is read
keyq_get_after ==
  IF keyq_ptr(keyhead) # keyq_ptr(keytail)
  THEN keytail' = keytail + 1 /\ got' = Append(got, keyq[keyq_ptr(keytail + 1)])
  ELSE UNCHANGED <<keytail, got>>

keyq_get ==
  IF keyq_ptr(keyhead) # keyq_ptr(keytail)
  THEN keytail' = keytail + 1 /\ got' = Append(got, keyq[keyq_ptr(keytail)])
  ELSE UNCHANGED <<keytail, got>>

\* Faulty variant: one key for each interrupt
AfterKey_one == "yield"

\* Where the loop over the keys goes: on to the next key, or out when there was none
AfterKey ==
  IF keyq_ptr(keyhead) = keyq_ptr(keytail) THEN "yield"
  ELSE IF keyq[keyq_ptr(keytail)] = Reset THEN "reset" ELSE "keys"

arch_idle_keys ==
  /\ at = "keys"
  /\ keyq_get
  /\ at' = AfterKey
  /\ UNCHANGED <<irq_flag, keyq, keyhead, accepted, irq, pressed>>

\* The collection, and the other threads, which give the processor back
arch_idle_yield ==
  /\ at = "yield"
  /\ at' = "test"
  /\ UNCHANGED <<irq_flag, ring, irq, pressed>>

arch_idle ==
  wait_irq_test \/ hlt \/ wait_irq_search \/ arch_idle_keys \/ arch_idle_yield

Next == arch_idle \/ (at # "reset" /\ \E n \in Irqs : i386_irq(n))

\* The idle thread goes on: the others yield.  Nothing makes interrupts come.
Spec == Init /\ [][Next]_vars /\ WF_vars(arch_idle)

-----------------------------------------------------------------------------
\* irq stays in range: the search of wait_irq finds an interrupt, and the return behind
\* its loop is not reached.
TypeOK ==
  /\ irq_flag \subseteq Irqs /\ irq \in Irqs
  /\ at \in {"test", "hlt", "halted", "search", "keys", "yield", "reset"}
  /\ keyq \in [0..Size - 1 -> Codes \cup {0}]
  /\ keyhead \in Nat /\ keytail \in Nat /\ pressed \in Nat
  /\ accepted \in Seq(Codes) /\ got \in Seq(Codes)

\* The idle loop reads the scan codes the handler has put into the ring, in that order,
\* none twice, none skipped and none overwritten, however the ring fills up.
KeysInOrder == Len(got) <= Len(accepted) /\ \A i \in 1..Len(got) : got[i] = accepted[i]

\* While there are keys to read the idle loop is about to read them, or the flag will
\* send it there: clearing the flag and emptying the ring leave no key behind.
NoKeyForgotten == keytail < keyhead => KEYBOARD \in irq_flag \/ at \in {"keys", "reset"}

\* Keys are read, however often the timer, which wait_irq looks for first, interrupts -
\* unless the processor has halted between the test of the flag and the next interrupt.
KeysRead == keytail < keyhead ~> keytail = keyhead \/ at \in {"halted", "reset"}
=============================================================================
