----------------------------- MODULE IdleProofs -----------------------------
(***************************************************************************)
(* The ring of scan codes and the flag of the idle loop, for a ring of any *)
(* size and any number of keys.  The places between keytail and keyhead    *)
(* hold the codes accepted and not read yet, and they are fewer than the   *)
(* ring has, so that no two of them are the same place.                    *)
(***************************************************************************)
EXTENDS Idle, TLAPS

\* The ring between keytail and keyhead
Window ==
  /\ Len(accepted) = keyhead /\ Len(got) = keytail
  /\ keytail <= keyhead /\ keyhead < keytail + Size
  /\ \A i \in keytail..keyhead - 1 : keyq[keyq_ptr(i)] = accepted[i + 1]

\* The search of wait_irq has an interrupt before it
Searching == at = "search" => \E n \in irq_flag : irq <= n

IdleInv == TypeOK /\ Window /\ KeysInOrder /\ NoKeyForgotten /\ Searching

-----------------------------------------------------------------------------
\* What division leaves
LEMMA Division ==
  ASSUME NEW a \in Nat
  PROVE  /\ a \div Size \in Nat /\ a % Size \in 0..Size - 1
         /\ a = Size * (a \div Size) + (a % Size)
BY IdleAssumption, SMT

\* A whole turn of the ring leads to the same place
LEMMA Turn ==
  ASSUME NEW a \in Nat
  PROVE  keyq_ptr(a + Size) = keyq_ptr(a)
<1> DEFINE q == a \div Size
           r == a % Size
<1>1. q \in Nat /\ r \in 0..Size - 1 /\ a = Size * q + r
  BY Division
<1>2. a + Size = Size * (q + 1) + r
  BY <1>1, IdleAssumption
<1>3. (Size * (q + 1) + r) % Size = r
  <2> HIDE DEF q, r
  <2> QED BY <1>1, IdleAssumption, SMT
<1> QED
  BY <1>2, <1>3 DEF keyq_ptr

\* Places less than a turn apart differ
LEMMA Apart ==
  ASSUME NEW a \in Nat, NEW b \in Nat, a < b, b < a + Size
  PROVE  keyq_ptr(a) # keyq_ptr(b)
<1> SUFFICES ASSUME a % Size = b % Size PROVE FALSE
  BY DEF keyq_ptr
<1> DEFINE p == a \div Size
           q == b \div Size
<1>1. p \in Nat /\ q \in Nat /\ b - a = Size * q - Size * p
  BY Division, IdleAssumption
<1>2. Size * q - Size * p = Size * (q - p)
  BY <1>1, IdleAssumption
<1>3. 0 < Size * (q - p) /\ Size * (q - p) < Size
  BY <1>1, <1>2, IdleAssumption
<1> HIDE DEF p, q
<1>4. CASE q <= p
  BY <1>1, <1>3, <1>4, IdleAssumption
<1>5. CASE q > p
  <2>1. q - p >= 1
    BY <1>1, <1>5
  <2>2. Size * (q - p) >= Size * 1
    BY <1>1, <2>1, IdleAssumption
  <2> QED BY <1>1, <1>3, <2>2, IdleAssumption
<1> QED
  BY <1>1, <1>4, <1>5
-----------------------------------------------------------------------------
LEMMA InitInv == Init => IdleInv
<1> SUFFICES ASSUME Init PROVE IdleInv
  OBVIOUS
<1>1. TypeOK
  BY IdleAssumption DEF Init, TypeOK, Irqs, TIMER, KEYBOARD
<1>2. Window
  BY IdleAssumption DEF Init, Window
<1> QED
  BY <1>1, <1>2 DEF Init, IdleInv, KeysInOrder, NoKeyForgotten, Searching

\* The handler writes a place that is not between keytail and keyhead, and leaves one free
LEMMA RingTakes ==
  ASSUME IdleInv, NEW code \in Codes, keyb_isr(code)
  PROVE  /\ Window' /\ KeysInOrder'
         /\ keyq' \in [0..Size - 1 -> Codes \cup {0}]
         /\ keyhead' \in Nat /\ keytail' = keytail
         /\ accepted' \in Seq(Codes) /\ got' = got
<1>1. CASE Room /\ keyhead' = keyhead + 1
  <2>1. /\ keyq' = [keyq EXCEPT ![keyq_ptr(keyhead)] = code]
        /\ accepted' = Append(accepted, code)
        /\ keytail' = keytail /\ got' = got
    BY <1>1 DEF keyb_isr, ring, IdleInv, TypeOK
  <2>2. keyhead \in Nat /\ keytail \in Nat /\ keyq_ptr(keyhead) \in 0..Size - 1
    BY Division DEF IdleInv, TypeOK, keyq_ptr
  <2>3. keyhead + 1 < keytail + Size
    <3>1. keyhead + 1 # keytail + Size
      BY <1>1, <2>2, Turn DEF Room
    <3> QED
      BY <2>2, <3>1, IdleAssumption DEF IdleInv, Window
  <2>4. accepted' \in Seq(Codes) /\ Len(accepted') = keyhead + 1
        /\ \A i \in 1..keyhead : accepted'[i] = accepted[i]
        /\ accepted'[keyhead + 1] = code
    BY <2>1, <2>2 DEF IdleInv, TypeOK, Window
  <2>5. ASSUME NEW i \in keytail..keyhead
        PROVE  keyq'[keyq_ptr(i)] = accepted'[i + 1]
    <3>1. i \in Nat /\ keyq_ptr(i) \in 0..Size - 1
      BY <2>2, Division DEF keyq_ptr
    <3>2. CASE i = keyhead
      BY <2>1, <2>2, <2>4, <3>2 DEF IdleInv, TypeOK
    <3>3. CASE i < keyhead
      <4>1. keyq_ptr(i) # keyq_ptr(keyhead)
        BY <2>2, <2>3, <3>1, <3>3, Apart, IdleAssumption
      <4>2. keyq'[keyq_ptr(i)] = keyq[keyq_ptr(i)]
        BY <2>1, <3>1, <4>1 DEF IdleInv, TypeOK
      <4>3. i \in keytail..keyhead - 1 /\ i + 1 \in 1..keyhead
        BY <2>2, <3>1, <3>3
      <4> QED
        BY <2>4, <4>2, <4>3 DEF IdleInv, Window
    <3> QED
      BY <2>2, <3>2, <3>3
  <2>6. Window'
    <3>1. keyhead' - 1 = keyhead
      BY <1>1, <2>2
    <3>2. \A i \in keytail..keyhead : keyq'[keyq_ptr(i)] = accepted'[i + 1]
      BY <2>5
    <3>3. Len(accepted') = keyhead' /\ Len(got') = keytail' /\ keytail' <= keyhead' /\ keyhead' < keytail' + Size
      BY <1>1, <2>1, <2>2, <2>3, <2>4 DEF IdleInv, Window
    <3> QED
      BY <2>1, <3>1, <3>2, <3>3 DEF Window, keyq_ptr
  <2>7. KeysInOrder'
    <3>1. Len(got) <= keyhead /\ Len(got) \in Nat
      BY <2>2 DEF IdleInv, Window
    <3>2. \A i \in 1..Len(got) : i \in 1..keyhead /\ got[i] = accepted[i]
      BY <2>2, <3>1 DEF IdleInv, KeysInOrder
    <3> QED
      BY <2>1, <2>2, <2>4, <3>1, <3>2 DEF KeysInOrder
  <2>8. keyq' \in [0..Size - 1 -> Codes \cup {0}]
    BY <2>1 DEF IdleInv, TypeOK
  <2> QED
    BY <1>1, <2>1, <2>2, <2>4, <2>6, <2>7, <2>8
<1>2. CASE UNCHANGED ring
  BY <1>2 DEF ring, IdleInv, TypeOK, Window, KeysInOrder, keyq_ptr
<1> QED
  BY <1>1, <1>2 DEF keyb_isr

\* An interrupt adds to the flag
LEMMA InterruptInv ==
  ASSUME IdleInv, NEW n \in Irqs, i386_irq(n)
  PROVE  IdleInv'
<1>1. /\ irq_flag' \subseteq Irqs /\ irq_flag \subseteq irq_flag' /\ n \in irq_flag' /\ irq' = irq
  BY DEF i386_irq, IdleInv, TypeOK
<1>2. /\ at' \in {"test", "hlt", "halted", "search", "keys", "yield", "reset"}
      /\ at \in {"keys", "reset"} => at' = at
      /\ at' = "search" => at = "search"
  BY DEF i386_irq, Woken, IdleInv, TypeOK
<1>3. Searching'
  BY <1>1, <1>2 DEF IdleInv, Searching
<1>4. CASE n = TIMER
  <2>1. UNCHANGED <<ring, pressed>>
    BY <1>4 DEF i386_irq, TIMER, KEYBOARD
  <2>2. TypeOK'
    BY <1>1, <1>2, <2>1 DEF IdleInv, TypeOK, ring
  <2>3. Window' /\ KeysInOrder'
    BY <2>1 DEF IdleInv, Window, KeysInOrder, ring, keyq_ptr
  <2>4. NoKeyForgotten'
    BY <1>1, <1>2, <2>1 DEF IdleInv, NoKeyForgotten, ring
  <2> QED
    BY <1>3, <2>2, <2>3, <2>4 DEF IdleInv
<1>5. CASE n = KEYBOARD
  <2>1. PICK code \in Codes : pressed' = pressed + 1 /\ keyb_isr(code)
    BY <1>5 DEF i386_irq, TIMER, KEYBOARD
  <2>2. TypeOK'
    BY <1>1, <1>2, <2>1, RingTakes DEF IdleInv, TypeOK
  <2>3. Window' /\ KeysInOrder'
    BY <2>1, RingTakes
  <2>4. NoKeyForgotten'
    BY <1>1, <1>5 DEF NoKeyForgotten
  <2> QED
    BY <1>3, <2>2, <2>3, <2>4 DEF IdleInv
<1> QED
  BY <1>4, <1>5 DEF Irqs
\* The idle loop reads the oldest code of the ring, and the ring is empty when it stops
LEMMA KeysInv ==
  ASSUME IdleInv, arch_idle_keys
  PROVE  IdleInv'
<1>1. /\ at = "keys" /\ keyq' = keyq /\ keyhead' = keyhead /\ accepted' = accepted
      /\ irq' = irq /\ irq_flag' = irq_flag /\ pressed' = pressed
  BY DEF arch_idle_keys
<1>2. keyhead \in Nat /\ keytail \in Nat
  BY DEF IdleInv, TypeOK
<1>3. at' \in {"yield", "reset", "keys"} /\ Searching'
  BY DEF arch_idle_keys, AfterKey, Searching
<1>4. CASE keytail = keyhead
  <2>1. keytail' = keytail /\ got' = got
    BY <1>4 DEF arch_idle_keys, keyq_get
  <2>2. TypeOK' /\ Window' /\ KeysInOrder'
    BY <1>1, <1>3, <2>1 DEF IdleInv, TypeOK, Window, KeysInOrder, keyq_ptr
  <2>3. NoKeyForgotten'
    BY <1>1, <1>2, <1>4, <2>1 DEF NoKeyForgotten
  <2> QED
    BY <1>3, <2>2, <2>3 DEF IdleInv
<1>5. CASE keytail < keyhead
  <2>1. keyq_ptr(keyhead) # keyq_ptr(keytail)
    BY <1>2, <1>5, Apart DEF IdleInv, Window
  <2> DEFINE code == keyq[keyq_ptr(keytail)]
  <2>2. keytail' = keytail + 1 /\ got' = Append(got, code)
    BY <2>1 DEF arch_idle_keys, keyq_get
  <2>3. at' \in {"reset", "keys"}
    BY <2>1 DEF arch_idle_keys, AfterKey
  <2>4. code = accepted[keytail + 1]
    BY <1>2, <1>5 DEF IdleInv, Window
  <2>5. code \in Codes
    BY <1>2, <1>5, <2>4 DEF IdleInv, TypeOK, Window
  <2> HIDE DEF code
  <2>6. /\ got' \in Seq(Codes) /\ Len(got') = keytail + 1
        /\ \A i \in 1..keytail : got'[i] = got[i]
        /\ got'[keytail + 1] = code
    BY <1>2, <2>2, <2>5 DEF IdleInv, TypeOK, Window
  <2>7. TypeOK'
    BY <1>1, <1>2, <1>3, <2>2, <2>6 DEF IdleInv, TypeOK
  <2>8. Window'
    <3>1. \A i \in keytail + 1..keyhead - 1 : keyq[keyq_ptr(i)] = accepted[i + 1]
      BY <1>2 DEF IdleInv, Window
    <3>2. Len(accepted) = keyhead /\ keytail + 1 <= keyhead /\ keyhead < keytail + 1 + Size
      BY <1>2, <1>5, IdleAssumption DEF IdleInv, Window
    <3> QED
      BY <1>1, <2>2, <2>6, <3>1, <3>2 DEF Window, keyq_ptr
  <2>9. KeysInOrder'
    <3>1. Len(accepted) = keyhead /\ Len(got) = keytail
      BY DEF IdleInv, Window
    <3>2. \A i \in 1..keytail : got[i] = accepted[i]
      BY <3>1 DEF IdleInv, KeysInOrder
    <3>3. \A i \in 1..keytail + 1 : got'[i] = accepted[i]
      BY <1>2, <2>4, <2>6, <3>2
    <3> QED
      BY <1>1, <1>2, <1>5, <2>6, <3>1, <3>3 DEF KeysInOrder
  <2>10. NoKeyForgotten'
    BY <2>3 DEF NoKeyForgotten
  <2> QED
    BY <1>3, <2>7, <2>8, <2>9, <2>10 DEF IdleInv
<1> QED
  BY <1>2, <1>4, <1>5 DEF IdleInv, Window

\* wait_irq and the end of the loop leave the ring alone
LEMMA OtherInv ==
  ASSUME IdleInv, wait_irq_test \/ hlt \/ wait_irq_search \/ arch_idle_yield
  PROVE  IdleInv'
<1>1. UNCHANGED <<ring, pressed>>
  BY DEF wait_irq_test, hlt, wait_irq_search, arch_idle_yield
<1>2. Window' /\ KeysInOrder'
  BY <1>1 DEF IdleInv, Window, KeysInOrder, ring, keyq_ptr
<1>3. ASSUME irq_flag' \subseteq Irqs, irq' \in Irqs,
             at' \in {"test", "hlt", "halted", "search", "keys", "yield", "reset"}
      PROVE  TypeOK'
  BY <1>1, <1>3 DEF IdleInv, TypeOK, ring
<1>4. CASE wait_irq_test
  <2>1. /\ irq' = 0 /\ irq_flag' = irq_flag /\ at = "test"
        /\ at' = IF irq_flag = {} THEN "hlt" ELSE "search"
    BY <1>4 DEF wait_irq_test
  <2>2. TypeOK'
    BY <1>3, <2>1 DEF IdleInv, TypeOK, Irqs, TIMER, KEYBOARD
  <2>3. Searching'
    BY <2>1 DEF Searching, IdleInv, TypeOK, Irqs, TIMER, KEYBOARD
  <2>4. NoKeyForgotten'
    BY <1>1, <2>1 DEF IdleInv, NoKeyForgotten, ring
  <2> QED
    BY <1>2, <2>2, <2>3, <2>4 DEF IdleInv
<1>5. CASE hlt \/ arch_idle_yield
  <2>1. irq' = irq /\ irq_flag' = irq_flag /\ at \in {"hlt", "yield"} /\ at' \in {"halted", "test"}
    BY <1>5 DEF hlt, arch_idle_yield
  <2>2. TypeOK'
    BY <1>3, <2>1 DEF IdleInv, TypeOK
  <2>3. Searching' /\ NoKeyForgotten'
    BY <1>1, <2>1 DEF IdleInv, Searching, NoKeyForgotten, ring
  <2> QED
    BY <1>2, <2>2, <2>3 DEF IdleInv
<1>6. CASE wait_irq_search
  <2>1. CASE irq \in irq_flag /\ irq_flag' = irq_flag \ {irq} /\ at' = Found /\ UNCHANGED irq
    BY <1>2, <1>3, <2>1 DEF IdleInv, TypeOK, Searching, NoKeyForgotten, Found
  <2>2. CASE irq \notin irq_flag /\ irq' = irq + 1 /\ UNCHANGED <<irq_flag, at>>
    <3>1. at = "search"
      BY <1>6 DEF wait_irq_search
    <3>2. PICK n \in irq_flag : irq <= n
      BY <3>1 DEF IdleInv, Searching
    <3>3. irq \in {0, 1} /\ n \in {0, 1} /\ n # irq
      BY <2>2, <3>2 DEF IdleInv, TypeOK, Irqs, TIMER, KEYBOARD
    <3>4. irq' = 1 /\ n = 1
      BY <2>2, <3>2, <3>3
    <3>5. TypeOK'
      BY <1>3, <2>2, <3>4 DEF IdleInv, TypeOK, Irqs, KEYBOARD
    <3>6. Searching'
      BY <2>2, <3>4 DEF Searching
    <3>7. NoKeyForgotten'
      BY <1>1, <2>2 DEF IdleInv, NoKeyForgotten, ring
    <3> QED
      BY <1>2, <3>5, <3>6, <3>7 DEF IdleInv
  <2> QED
    BY <1>6, <2>1, <2>2 DEF wait_irq_search
<1> QED
  BY <1>4, <1>5, <1>6

\* The invariant the theorems rest on: it holds at first, and every step of the idle
\* loop and every interrupt keeps it.
THEOREM Invariance == Spec => []IdleInv
<1>1. Init => IdleInv
  BY InitInv
<1>2. IdleInv /\ [Next]_vars => IdleInv'
  <2> SUFFICES ASSUME IdleInv, [Next]_vars PROVE IdleInv'
    OBVIOUS
  <2>1. CASE arch_idle_keys
    BY <2>1, KeysInv
  <2>2. CASE wait_irq_test \/ hlt \/ wait_irq_search \/ arch_idle_yield
    BY <2>2, OtherInv
  <2>3. ASSUME NEW n \in Irqs, i386_irq(n) PROVE IdleInv'
    BY <2>3, InterruptInv
  <2>4. CASE UNCHANGED vars
    BY <2>4 DEF vars, ring, IdleInv, TypeOK, Window, KeysInOrder, NoKeyForgotten, Searching, keyq_ptr
  <2> QED
    BY <2>1, <2>2, <2>3, <2>4 DEF Next, arch_idle
<1> QED
  BY <1>1, <1>2, PTL DEF Spec

\* For every size of the ring, the idle loop reads the scan codes in the order in which
\* keyb_isr accepted them, none twice, skipped or overwritten.
THEOREM RingIsFifo == Spec => []KeysInOrder
<1>1. IdleInv => KeysInOrder
  BY DEF IdleInv
<1> QED
  BY <1>1, Invariance, PTL

\* However interrupts fall between clearing the flag and emptying the ring, no key is
\* left in the ring without the flag that leads the idle loop to it.
THEOREM FlagLeadsToKeys == Spec => []NoKeyForgotten
<1>1. IdleInv => NoKeyForgotten
  BY DEF IdleInv
<1> QED
  BY <1>1, Invariance, PTL
=============================================================================
