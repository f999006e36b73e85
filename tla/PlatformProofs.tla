--------------------------- MODULE PlatformProofs ---------------------------
(* The interrupt list is walked in order, the clock is right, address       *)
(* spaces hold what was mapped, and the machine boots and stops its         *)
(* processors one at a time, for any sizes, registrations, instants, calls  *)
(* and processors.                                                          *)
(*                                                                          *)
(* What the code computes by recursion is a recursive function in the       *)
(* modules; the lemmas that begin with Recursion say that it exists and     *)
(* what its values are, by induction over its arguments.                    *)
(*                                                                          *)
(* The interrupt list is sorted, and its handlers are numbered without a    *)
(* gap (IrqInv).  A time read from the RTC is one that the RTC has shown,   *)
(* for a reading that a second ends in is done again (RtcInv).  Every page  *)
(* that pgalloc gave away is one table of one space: the one that the       *)
(* indices on the way from the root say (Trees, of VmeInv), so that no two  *)
(* walks meet where they should not, and the walk of an address finds one   *)
(* entry, which map left there last.                                        *)
(*                                                                          *)
(* Nothing guards the two boot stacks but the order of mpe_init: CPU 0      *)
(* interrupts one processor and spins until that one has left them.  The    *)
(* invariant says how far the sequence has come (Starting); once a CPU has  *)
(* called halt, the boot record leads to a loop and nobody enters them      *)
(* again (Stopping).                                                        *)
EXTENDS IrqList, Rtc, Vme, Boot, FiniteSetTheorems, SequenceTheorems, WellFoundedInduction, TLAPS

-----------------------------------------------------------------------------
(* Induction, over a set in place of a predicate; and, by it, a function   *)
(* that is defined by recursion exists.                                    *)
LEMMA LeastCounterexample ==
  ASSUME NEW S \in SUBSET Nat, S # {}
  PROVE  \E m \in S : \A n \in S : m <= n
<1>1. PICK m \in S : \A n \in S : ~ (<<n, m>> \in OpToRel(<, Nat))
  BY NatLessThanWellFounded, WFMin
<1>2. ASSUME NEW n \in S PROVE m <= n
  <2>1. <<n, m>> \in Nat \X Nat /\ ~(n < m)
    BY <1>1 DEF OpToRel
  <2> QED
    BY <2>1
<1> QED
  BY <1>2

LEMMA UpTo ==
  ASSUME NEW N \in Nat, NEW S, 0 \in S, \A n \in 0..(N - 1) : n \in S => n + 1 \in S
  PROVE  \A n \in 0..N : n \in S
<1> DEFINE Out == {n \in 0..N : n \notin S}
<1> SUFFICES ASSUME Out # {} PROVE FALSE
  OBVIOUS
<1>1. PICK m \in Out : \A n \in Out : m <= n
  <2>1. Out \in SUBSET Nat
    OBVIOUS
  <2> HIDE DEF Out
  <2> QED
    BY <2>1, LeastCounterexample
<1>2. m # 0 /\ m - 1 \in 0..(N - 1)
  BY <1>1
<1>3. m - 1 \notin Out
  BY <1>1, <1>2
<1> QED
  BY <1>1, <1>2, <1>3

Computes(f, N, base, step) ==
  f[0] = base /\ \A i \in 1..N : f[i] = step[<<f[i - 1], i>>]

LEMMA Recursion ==
  ASSUME NEW N \in Nat, NEW V, NEW base \in V, NEW step \in [V \X (1..N) -> V]
  PROVE  \E f \in [0..N -> V] : Computes(f, N, base, step)
<1> DEFINE Is(f, n) == Computes(f, n, base, step)
           S == {n \in 0..N : \E f \in [0..n -> V] : Is(f, n)}
<1> USE DEF Computes
<1>1. 0 \in S
  <2>1. [k \in 0..0 |-> base] \in [0..0 -> V] /\ Is([k \in 0..0 |-> base], 0)
    OBVIOUS
  <2> HIDE DEF Is
  <2>2. \E f \in [0..0 -> V] : Is(f, 0)
    BY <2>1
  <2> QED
    BY <2>2
<1>2. ASSUME NEW n \in 0..(N - 1), n \in S PROVE n + 1 \in S
  <2>1. PICK f \in [0..n -> V] : Is(f, n)
    BY <1>2
  <2>2. n + 1 \in 1..N /\ n \in 0..n
    OBVIOUS
  <2>3. step[<<f[n], n + 1>>] \in V
    BY <2>2
  <2>4. PICK g : g = [k \in 0..(n + 1) |-> IF k = n + 1 THEN step[<<f[n], n + 1>>] ELSE f[k]]
    OBVIOUS
  <2>5. g \in [0..(n + 1) -> V]
    BY <2>3, <2>4
  <2>6. (\A k \in 0..n : g[k] = f[k]) /\ g[n + 1] = step[<<f[n], n + 1>>]
    BY <2>4
  <2>7. ASSUME NEW i \in 1..(n + 1) PROVE g[i] = step[<<g[i - 1], i>>]
    <3>1. CASE i = n + 1
      BY <2>6, <3>1
    <3>2. CASE i \in 1..n
      BY <2>1, <2>6, <3>2
    <3> QED
      BY <3>1, <3>2
  <2>8. Is(g, n + 1)
    BY <2>1, <2>6, <2>7
  <2> HIDE DEF Is
  <2>9. n + 1 \in 0..N /\ \E h \in [0..(n + 1) -> V] : Is(h, n + 1)
    BY <2>5, <2>8
  <2> QED
    BY <2>9
<1> HIDE DEF Computes
<1>3. \A n \in 0..N : n \in S
  <2> HIDE DEF S
  <2> QED
    BY <1>1, <1>2, UpTo
<1>4. \E f \in [0..N -> V] : Is(f, N)
  BY <1>3
<1> QED
  BY <1>4

-----------------------------------------------------------------------------
(* The interrupt list *)

Requests == [seq : Seqs, event : Events \cup {EVENT_NULL}, handler : Nat]

(* The list is sorted at every registration, and the handlers are the      *)
(* numbers of the registrations so far.                                    *)
IrqInv ==
  /\ irq_list \in Seq(Requests)
  /\ \A i, j \in 1 .. Len(irq_list) : i < j => Earlier(irq_list[i], irq_list[j])
  /\ \A i \in 1 .. Len(irq_list) : irq_list[i].handler \in 1 .. Len(irq_list)
  /\ \A h \in 1 .. Len(irq_list) : \E i \in 1 .. Len(irq_list) : irq_list[i].handler = h

LEMMA RequestTypes ==
  ASSUME IrqInv
  PROVE  /\ Len(irq_list) \in Nat
         /\ \A i \in 1 .. Len(irq_list) :
              /\ irq_list[i] \in Requests
              /\ irq_list[i].seq \in Int
              /\ irq_list[i].handler \in 1 .. Len(irq_list)
<1>1. irq_list \in Seq(Requests) /\ Len(irq_list) \in Nat
  BY LenProperties DEF IrqInv
<1>2. ASSUME NEW i \in 1 .. Len(irq_list)
      PROVE  irq_list[i] \in Requests /\ irq_list[i].seq \in Int
  <2>1. irq_list[i] \in Requests
    BY <1>1, ElementOfSeq
  <2>2. irq_list[i].seq \in Seqs
    BY <2>1 DEF Requests
  <2> QED
    BY <2>1, <2>2, IrqAssumption
<1> QED
  BY <1>1, <1>2 DEF IrqInv

(* The place of a new entry: those before it have no larger number, those  *)
(* from it on have a larger one.                                           *)
LEMMA PlaceIs ==
  ASSUME IrqInv, NEW seq \in Seqs
  PROVE  /\ Place(seq) \in 1 .. Len(irq_list) + 1
         /\ \A i \in 1 .. Len(irq_list) : IF i < Place(seq) THEN irq_list[i].seq <= seq
                                                           ELSE seq < irq_list[i].seq
<1> DEFINE later == {i \in 1 .. Len(irq_list) : seq < irq_list[i].seq}
<1>1. seq \in Int
  BY IrqAssumption
<1>2. CASE later = {}
  <2>1. Place(seq) = Len(irq_list) + 1
    BY <1>2 DEF Place
  <2>2. \A i \in 1 .. Len(irq_list) : irq_list[i].seq <= seq
    BY <1>1, <1>2, RequestTypes
  <2> QED
    BY <2>1, <2>2, RequestTypes
<1>3. CASE later # {}
  <2>1. \E i \in later : \A j \in later : i <= j
    <3>1. later \in SUBSET Nat
      OBVIOUS
    <3> HIDE DEF later
    <3> QED
      BY <1>3, <3>1, LeastCounterexample
  <2>2. Place(seq) = CHOOSE i \in later : \A j \in later : i <= j
    BY <1>3 DEF Place
  <2>3. Place(seq) \in later /\ \A j \in later : Place(seq) <= j
    <3> HIDE DEF later
    <3> QED
      BY <2>1, <2>2
  <2>4. PICK p \in later : p = Place(seq)
    BY <2>3
  <2>5. ASSUME NEW i \in 1 .. Len(irq_list), i < p PROVE irq_list[i].seq <= seq
    <3>1. i \notin later
      <4>1. p \in Nat /\ i \in Nat /\ ~(p <= i)
        BY <2>5, RequestTypes
      <4> HIDE DEF later
      <4> QED
        BY <2>3, <2>4, <4>1
    <3> QED
      BY <1>1, <3>1, RequestTypes
  <2>6. ASSUME NEW i \in 1 .. Len(irq_list), ~(i < p) PROVE seq < irq_list[i].seq
    <3>1. seq < irq_list[p].seq /\ p \in 1 .. Len(irq_list)
      OBVIOUS
    <3>2. CASE i = p
      BY <3>1, <3>2
    <3>3. CASE p < i
      <4>1. irq_list[p].seq <= irq_list[i].seq
        <5>1. Earlier(irq_list[p], irq_list[i])
          BY <3>1, <3>3 DEF IrqInv
        <5>2. irq_list[p].seq \in Int /\ irq_list[i].seq \in Int
          BY <3>1, RequestTypes
        <5> QED
          BY <5>1, <5>2 DEF Earlier
      <4> QED
        BY <1>1, <3>1, <4>1, RequestTypes
    <3> QED
      BY <2>6, <3>1, <3>2, <3>3, RequestTypes
  <2> QED
    BY <2>4, <2>5, <2>6, RequestTypes
<1> QED
  BY <1>2, <1>3

Inserted(S, t, s, p, e) ==
  /\ t \in Seq(S)
  /\ Len(t) = Len(s) + 1
  /\ \A i \in 1 .. Len(s) + 1 : t[i] = IF i < p THEN s[i] ELSE IF i = p THEN e ELSE s[i - 1]

LEMMA InsertIs ==
  ASSUME NEW S, NEW s \in Seq(S), NEW e \in S, NEW p \in 1 .. Len(s) + 1
  PROVE  Inserted(S, InsertAt(s, p, e), s, p, e)
<1> DEFINE a == SubSeq(s, 1, p - 1)
           b == SubSeq(s, p, Len(s))
           c == <<e>>
<1>1. Len(s) \in Nat /\ \A i \in 1 .. Len(s) : s[i] \in S
  BY LenProperties, ElementOfSeq
<1>2. /\ a \in Seq(S) /\ Len(a) = p - 1
      /\ \A i \in 1 .. p - 1 : a[i] = s[i]
  <2>1. \A i \in 1 .. p - 1 : s[i] \in S
    BY <1>1
  <2>2. /\ a \in Seq(S) /\ Len(a) = IF 1 <= p - 1 THEN (p - 1) - 1 + 1 ELSE 0
        /\ \A i \in 1 .. (p - 1) - 1 + 1 : a[i] = s[1 + i - 1]
    <3>1. 1 \in Int /\ p - 1 \in Int
      BY <1>1
    <3> QED
      BY <2>1, <3>1, SubSeqProperties
  <2> HIDE DEF a
  <2> QED
    BY <1>1, <2>2
<1>3. /\ b \in Seq(S) /\ Len(b) = Len(s) - p + 1
      /\ \A i \in 1 .. Len(s) - p + 1 : b[i] = s[p + i - 1]
  <2>1. \A i \in p .. Len(s) : s[i] \in S
    BY <1>1
  <2>2. /\ b \in Seq(S) /\ Len(b) = IF p <= Len(s) THEN Len(s) - p + 1 ELSE 0
        /\ \A i \in 1 .. Len(s) - p + 1 : b[i] = s[p + i - 1]
    <3>1. p \in Int /\ Len(s) \in Int
      BY <1>1
    <3> QED
      BY <2>1, <3>1, SubSeqProperties
  <2> HIDE DEF b
  <2> QED
    BY <1>1, <2>2
<1>4. c \in Seq(S) /\ Len(c) = 1 /\ c[1] = e
  OBVIOUS
<1>5. PICK x : x = a \o c
  OBVIOUS
<1>6. /\ x \in Seq(S) /\ Len(x) = p
      /\ \A i \in 1 .. p : x[i] = IF i < p THEN s[i] ELSE e
  <2> HIDE DEF a, c
  <2>1. /\ x \in Seq(S) /\ Len(x) = (p - 1) + 1
        /\ \A i \in 1 .. (p - 1) + 1 : x[i] = IF i <= p - 1 THEN a[i] ELSE c[i - (p - 1)]
    <3>1. /\ a \o c \in Seq(S) /\ Len(a \o c) = Len(a) + Len(c)
          /\ \A i \in 1 .. Len(a) + Len(c) :
               (a \o c)[i] = IF i <= Len(a) THEN a[i] ELSE c[i - Len(a)]
      BY <1>2, <1>4, ConcatProperties
    <3> QED
      BY <1>2, <1>4, <1>5, <3>1
  <2> QED
    BY <1>1, <1>2, <1>4, <2>1
<1>7. InsertAt(s, p, e) = x \o b
  BY <1>5 DEF InsertAt
<1> HIDE DEF a, b, c
<1>8. /\ x \o b \in Seq(S) /\ Len(x \o b) = p + (Len(s) - p + 1)
      /\ \A i \in 1 .. p + (Len(s) - p + 1) : (x \o b)[i] = IF i <= p THEN x[i] ELSE b[i - p]
  BY <1>3, <1>6, ConcatProperties
<1>9. ASSUME NEW i \in 1 .. Len(s) + 1
      PROVE  (x \o b)[i] = IF i < p THEN s[i] ELSE IF i = p THEN e ELSE s[i - 1]
  <2>1. CASE i <= p
    BY <1>1, <1>6, <1>8, <2>1
  <2>2. CASE i > p
    <3>1. (x \o b)[i] = b[i - p]
      BY <1>1, <1>8, <2>2
    <3>2. i - p \in 1 .. Len(s) - p + 1 /\ p + (i - p) - 1 = i - 1
      BY <1>1, <2>2
    <3> QED
      BY <1>1, <1>3, <2>2, <3>1, <3>2
  <2>3. i <= p \/ i > p
    BY <1>1
  <2> QED
    BY <2>1, <2>2, <2>3
<1>10. Len(x \o b) = Len(s) + 1
  BY <1>1, <1>8
<1> QED
  BY <1>7, <1>8, <1>9, <1>10 DEF Inserted

LEMMA IrqInitInv == IrqInit => IrqInv
BY EmptySeq DEF IrqInit, IrqInv

LEMMA OnIrqInv ==
  ASSUME IrqInv, NEW seq \in Seqs, NEW event \in Events \cup {EVENT_NULL}, on_irq(seq, event)
  PROVE  IrqInv'
<1> DEFINE n == Len(irq_list)
           p == Place(seq)
           e == [seq |-> seq, event |-> event, handler |-> n + 1]
<1>1. n \in Nat /\ p \in 1 .. n + 1 /\ seq \in Int
  BY RequestTypes, PlaceIs, IrqAssumption
<1>2. e \in Requests /\ irq_list \in Seq(Requests)
  BY <1>1 DEF Requests, IrqInv
<1>3. /\ irq_list' \in Seq(Requests) /\ Len(irq_list') = n + 1
      /\ \A i \in 1 .. n + 1 : irq_list'[i] = IF i < p THEN irq_list[i]
                                              ELSE IF i = p THEN e ELSE irq_list[i - 1]
  <2>1. irq_list' = InsertAt(irq_list, p, e)
    BY DEF on_irq
  <2> HIDE DEF p, e
  <2>2. PICK q \in 1 .. Len(irq_list) + 1 : q = p
    BY <1>1
  <2> HIDE DEF n
  <2>3. PICK S, l, x : S = Requests /\ l = irq_list /\ x = e
    OBVIOUS
  <2>4. l \in Seq(S) /\ x \in S /\ q \in 1 .. Len(l) + 1
    BY <1>2, <2>2, <2>3
  <2>5. Inserted(S, InsertAt(l, q, x), l, q, x)
    BY <2>4, InsertIs
  <2> QED
    BY <2>1, <2>2, <2>3, <2>5 DEF n, Inserted
<1>4. \A i \in 1 .. n : IF i < p THEN irq_list[i].seq <= seq ELSE seq < irq_list[i].seq
  BY PlaceIs
<1>5. e.seq = seq /\ e.handler = n + 1
  OBVIOUS
<1> HIDE DEF n, p, e
<1>6. /\ \A i \in 1 .. n : irq_list[i].seq \in Int /\ irq_list[i].handler \in 1 .. n
      /\ \A i, j \in 1 .. n : i < j => Earlier(irq_list[i], irq_list[j])
      /\ \A h \in 1 .. n : \E i \in 1 .. n : irq_list[i].handler = h
  BY RequestTypes DEF IrqInv, n
<1>7. ASSUME NEW i \in 1 .. n + 1, NEW j \in 1 .. n + 1, i < j
      PROVE  Earlier(irq_list'[i], irq_list'[j])
  <2>1. CASE j < p
    <3>1. i \in 1 .. n /\ j \in 1 .. n /\ i < p
      BY <1>1, <1>7, <2>1
    <3>2. irq_list'[i] = irq_list[i] /\ irq_list'[j] = irq_list[j]
      BY <1>3, <2>1, <3>1
    <3> QED
      BY <1>6, <1>7, <3>1, <3>2
  <2>2. CASE j = p
    <3>1. i \in 1 .. n /\ i < p
      BY <1>1, <1>7, <2>2
    <3>2. irq_list[i].seq <= seq /\ irq_list[i].handler \in 1 .. n
      BY <1>4, <1>6, <3>1
    <3>3. Earlier(irq_list[i], e)
      <4>1. irq_list[i].seq \in Int
        BY <1>6, <3>1
      <4>2. irq_list[i].handler < e.handler
        BY <1>1, <1>5, <3>2
      <4>3. irq_list[i].seq < e.seq \/ irq_list[i].seq = e.seq
        BY <1>1, <1>5, <3>2, <4>1
      <4> QED
        BY <4>2, <4>3 DEF Earlier
    <3> QED
      BY <1>3, <2>2, <3>1, <3>3
  <2>3. CASE p < j /\ i = p
    <3>1. j - 1 \in 1 .. n /\ ~(j - 1 < p)
      BY <1>1, <2>3
    <3>2. Earlier(e, irq_list[j - 1])
      BY <1>4, <1>5, <3>1 DEF Earlier
    <3>3. irq_list'[i] = e /\ irq_list'[j] = irq_list[j - 1]
      BY <1>1, <1>3, <2>3
    <3> QED
      BY <3>2, <3>3
  <2>4. CASE p < j /\ i # p
    <3>1. PICK k \in 1 .. n : k < j - 1 /\ irq_list'[i] = irq_list[k]
      <4>1. CASE i < p
        BY <1>1, <1>3, <2>4, <4>1
      <4>2. CASE i > p
        <5>1. i - 1 \in 1 .. n /\ i - 1 < j - 1 /\ irq_list'[i] = irq_list[i - 1]
          BY <1>1, <1>3, <1>7, <4>2
        <5> QED
          BY <5>1
      <4> QED
        BY <1>1, <2>4, <4>1, <4>2
    <3>2. j - 1 \in 1 .. n /\ irq_list'[j] = irq_list[j - 1]
      BY <1>1, <1>3, <2>4
    <3> QED
      BY <1>6, <3>1, <3>2
  <2> QED
    BY <1>1, <2>1, <2>2, <2>3, <2>4
<1>8. ASSUME NEW i \in 1 .. n + 1 PROVE irq_list'[i].handler \in 1 .. n + 1
  <2>1. CASE i = p
    BY <1>1, <1>3, <1>5, <2>1
  <2>2. CASE i < p
    <3>1. i \in 1 .. n
      BY <1>1, <2>2
    <3>2. irq_list'[i] = irq_list[i] /\ irq_list[i].handler \in 1 .. n
      BY <1>3, <1>6, <2>2, <3>1
    <3> QED
      BY <1>1, <3>2
  <2>3. CASE i > p
    <3>1. i - 1 \in 1 .. n /\ ~(i < p) /\ i # p
      BY <1>1, <2>3
    <3>2. irq_list'[i] = irq_list[i - 1]
      BY <1>3, <3>1
    <3> QED
      BY <1>1, <1>6, <3>1, <3>2
  <2> QED
    BY <1>1, <2>1, <2>2, <2>3
<1>9. ASSUME NEW h \in 1 .. n + 1 PROVE \E i \in 1 .. n + 1 : irq_list'[i].handler = h
  <2>1. CASE h = n + 1
    <3>1. irq_list'[p].handler = h
      BY <1>1, <1>3, <1>5, <2>1
    <3> QED
      BY <1>1, <3>1
  <2>2. CASE h \in 1 .. n
    <3>1. PICK i \in 1 .. n : irq_list[i].handler = h
      BY <1>6, <2>2
    <3>2. CASE i < p
      <4>1. i \in 1 .. n + 1 /\ irq_list'[i] = irq_list[i]
        BY <1>1, <1>3, <3>2
      <4> QED
        BY <3>1, <4>1
    <3>3. CASE ~(i < p)
      <4>1. i + 1 \in 1 .. n + 1 /\ irq_list'[i + 1] = irq_list[i]
        <5>1. i + 1 \in 1 .. n + 1 /\ ~(i + 1 < p) /\ i + 1 # p /\ (i + 1) - 1 = i
          BY <1>1, <3>3
        <5> QED
          BY <1>3, <5>1
      <4> QED
        BY <3>1, <4>1
    <3> QED
      BY <3>2, <3>3
  <2> QED
    BY <1>1, <2>1, <2>2
<1> QED
  BY <1>3, <1>7, <1>8, <1>9 DEF IrqInv

(* What trap of a release build has to return after the i-th entry. *)
LEMMA LastContextIs ==
  ASSUME NEW event, NEW given, Len(irq_list) \in Nat,
         \A i \in 1 .. Len(irq_list) : given[irq_list[i].handler] \in Nat
  PROVE  \E c : /\ LastContext(event, given) = c[Len(irq_list)]
                /\ c[0] = 0
                /\ \A i \in 1 .. Len(irq_list) :
                     c[i] = IF Wants(i, event) /\ given[irq_list[i].handler] # 0
                            THEN given[irq_list[i].handler] ELSE c[i - 1]
<1> DEFINE n == Len(irq_list)
           Is(f) == f = [i \in 0 .. n |->
                           IF i = 0 THEN 0
                           ELSE IF Wants(i, event) /\ given[irq_list[i].handler] # 0
                                THEN given[irq_list[i].handler] ELSE f[i - 1]]
           step == [s \in Nat \X (1 .. n) |->
                      IF Wants(s[2], event) /\ given[irq_list[s[2]].handler] # 0
                      THEN given[irq_list[s[2]].handler] ELSE s[1]]
<1>1. step \in [Nat \X (1 .. n) -> Nat]
  OBVIOUS
<1>2. PICK f \in [0 .. n -> Nat] : f[0] = 0 /\ \A i \in 1 .. n : f[i] = step[<<f[i - 1], i>>]
  <2>1. PICK m, r, V, b : m = n /\ m \in Nat /\ r = step /\ V = Nat /\ b = 0
    OBVIOUS
  <2> HIDE DEF step, n
  <2>2. r \in [V \X (1 .. m) -> V] /\ b \in V
    BY <1>1, <2>1
  <2>3. \E f \in [0 .. m -> V] : Computes(f, m, b, r)
    BY <2>1, <2>2, Recursion
  <2> QED
    BY <2>1, <2>3 DEF Computes
<1>3. \A i \in 1 .. n : f[i] = IF Wants(i, event) /\ given[irq_list[i].handler] # 0
                              THEN given[irq_list[i].handler] ELSE f[i - 1]
  <2>1. \A i \in 1 .. n : i - 1 \in 0 .. n
    OBVIOUS
  <2>2. \A i \in 1 .. n : <<f[i - 1], i>> \in Nat \X (1 .. n)
    BY <2>1
  <2> QED
    BY <1>2, <2>2
<1>4. Is(f)
  BY <1>2, <1>3
<1>5. PICK c : c = CHOOSE g : Is(g)
  OBVIOUS
<1>6. Is(c)
  <2> HIDE DEF Is
  <2> QED
    BY <1>4, <1>5
<1>7. LastContext(event, given) = c[n]
  BY <1>5 DEF LastContext
<1>8. c[0] = 0 /\ \A i \in 1 .. n : c[i] = IF Wants(i, event) /\ given[irq_list[i].handler] # 0
                                          THEN given[irq_list[i].handler] ELSE c[i - 1]
  BY <1>6
<1> QED
  BY <1>7, <1>8

LEMMA IrqInvOrdered == IrqInv => HandlersOrdered
<1> SUFFICES ASSUME IrqInv PROVE HandlersOrdered
  OBVIOUS
<1> DEFINE n == Len(irq_list)
<1>1. n \in Nat /\ \A i \in 1 .. n : irq_list[i].handler \in 1 .. n
  BY RequestTypes
<1>2. {irq_list[i].handler : i \in 1 .. n} = 1 .. n
  BY <1>1 DEF IrqInv
<1>3. ASSUME NEW event \in Events, NEW ret \in [1 .. n -> 0 .. 1]
      PROVE  LET answers == {i \in 1 .. n : Wants(i, event) /\ ret[irq_list[i].handler] # 0}
                 context == LastContext(event, [h \in 1 .. n |-> h * ret[h]])
             IN \/ answers = {} /\ context = 0
                \/ \E i \in answers :
                     /\ context = irq_list[i].handler
                     /\ \A j \in answers : i = j \/ Earlier(irq_list[j], irq_list[i])
  <2> DEFINE given == [h \in 1 .. n |-> h * ret[h]]
             answers == {i \in 1 .. n : Wants(i, event) /\ ret[irq_list[i].handler] # 0}
  <2>1. \A h \in 1 .. n : given[h] = IF ret[h] = 0 THEN 0 ELSE h
    <3>1. \A h \in 1 .. n : ret[h] \in {0, 1} /\ given[h] = h * ret[h]
      BY <1>3
    <3> HIDE DEF given
    <3>2. ASSUME NEW h \in 1 .. n PROVE given[h] = IF ret[h] = 0 THEN 0 ELSE h
      <4>1. CASE ret[h] = 0
        BY <3>1, <4>1
      <4>2. CASE ret[h] = 1
        BY <3>1, <4>2
      <4> QED
        BY <3>1, <4>1, <4>2
    <3> QED
      BY <3>2
  <2> HIDE DEF given
  <2>2. \A i \in 1 .. n : given[irq_list[i].handler] \in Nat
    BY <1>1, <2>1
  <2>3. PICK c : /\ LastContext(event, given) = c[n]
                 /\ c[0] = 0
                 /\ \A i \in 1 .. n :
                     c[i] = IF Wants(i, event) /\ given[irq_list[i].handler] # 0
                            THEN given[irq_list[i].handler] ELSE c[i - 1]
    <3>1. PICK g : g = given
      OBVIOUS
    <3>2. Len(irq_list) \in Nat /\ \A i \in 1 .. Len(irq_list) : g[irq_list[i].handler] \in Nat
      BY <1>1, <2>2, <3>1
    <3>3. \E c : /\ LastContext(event, g) = c[Len(irq_list)]
                 /\ c[0] = 0
                 /\ \A i \in 1 .. Len(irq_list) :
                     c[i] = IF Wants(i, event) /\ g[irq_list[i].handler] # 0
                            THEN g[irq_list[i].handler] ELSE c[i - 1]
      BY <3>2, LastContextIs
    <3> QED
      BY <3>1, <3>3
  <2>4. \A i \in 1 .. n : c[i] = IF i \in answers THEN irq_list[i].handler ELSE c[i - 1]
    <3>1. ASSUME NEW i \in 1 .. n
          PROVE  c[i] = IF i \in answers THEN irq_list[i].handler ELSE c[i - 1]
      <4>1. given[irq_list[i].handler] =
              IF ret[irq_list[i].handler] = 0 THEN 0 ELSE irq_list[i].handler
        BY <1>1, <2>1
      <4>2. irq_list[i].handler # 0
        BY <1>1
      <4> QED
        BY <2>3, <4>1, <4>2
    <3> QED
      BY <3>1
  <2>5. answers \subseteq 1 .. n
    OBVIOUS
  <2> HIDE DEF answers
  <2> DEFINE Right(m) == \/ (\A j \in answers : j > m) /\ c[m] = 0
                         \/ \E i \in answers : /\ c[m] = irq_list[i].handler
                                               /\ i <= m
                                               /\ \A j \in answers : j <= i \/ j > m
             S == {m \in 0 .. n : Right(m)}
  <2>6. 0 \in S
    BY <1>1, <2>3, <2>5
  <2>7. ASSUME NEW m \in 0 .. n - 1, m \in S PROVE m + 1 \in S
    <3>1. m + 1 \in 1 .. n /\ (m + 1) - 1 = m
      BY <1>1
    <3>2. CASE m + 1 \in answers
      <4>1. c[m + 1] = irq_list[m + 1].handler
        BY <2>4, <3>1, <3>2
      <4>2. \A j \in answers : j <= m + 1 \/ j > m + 1
        BY <1>1, <2>5, <3>1
      <4>3. Right(m + 1)
        BY <3>1, <3>2, <4>1, <4>2
      <4> QED
        BY <1>1, <3>1, <4>3
    <3>3. CASE m + 1 \notin answers
      <4>1. c[m + 1] = c[m]
        BY <2>4, <3>1, <3>3
      <4>2. \A j \in answers : j > m => j > m + 1
        BY <1>1, <2>5, <3>3
      <4>3. Right(m)
        BY <2>7
      <4>4. CASE (\A j \in answers : j > m) /\ c[m] = 0
        BY <3>1, <4>1, <4>2, <4>4
      <4>5. CASE \E i \in answers : /\ c[m] = irq_list[i].handler
                                    /\ i <= m
                                    /\ \A j \in answers : j <= i \/ j > m
        <5>1. PICK i \in answers : /\ c[m] = irq_list[i].handler
                                   /\ i <= m
                                   /\ \A j \in answers : j <= i \/ j > m
          BY <4>5
        <5>2. i <= m + 1 /\ \A j \in answers : j <= i \/ j > m + 1
          BY <1>1, <2>5, <4>2, <5>1
        <5>3. Right(m + 1)
          BY <4>1, <5>1, <5>2
        <5> QED
          BY <3>1, <5>3
      <4> QED
        BY <4>3, <4>4, <4>5
    <3> QED
      BY <3>2, <3>3
  <2>8. Right(n)
    <3> HIDE DEF Right
    <3>1. \A m \in 0 .. n : m \in S
      <4> HIDE DEF S
      <4> QED
        BY <1>1, <2>6, <2>7, UpTo
    <3> QED
      BY <1>1, <3>1
  <2>9. CASE (\A j \in answers : j > n) /\ c[n] = 0
    <3>1. answers = {}
      BY <1>1, <2>5, <2>9
    <3> QED
      BY <2>3, <2>9, <3>1 DEF answers, given
  <2>10. CASE \E i \in answers : /\ c[n] = irq_list[i].handler
                                 /\ i <= n
                                 /\ \A j \in answers : j <= i \/ j > n
    <3>1. PICK i \in answers : /\ c[n] = irq_list[i].handler
                               /\ \A j \in answers : j <= i \/ j > n
      BY <2>10
    <3>2. ASSUME NEW j \in answers PROVE i = j \/ Earlier(irq_list[j], irq_list[i])
      <4>1. i \in 1 .. n /\ j \in 1 .. n /\ j <= i
        BY <1>1, <2>5, <3>1
      <4>2. i = j \/ j < i
        BY <1>1, <4>1
      <4> QED
        BY <4>1, <4>2 DEF IrqInv
    <3> QED
      BY <2>3, <3>1, <3>2 DEF answers, given
  <2> QED
    BY <2>8, <2>9, <2>10
<1>4. \A i, j \in 1 .. n : i < j => Earlier(irq_list[i], irq_list[j])
  BY DEF IrqInv
<1>5. ASSUME NEW event \in Events, NEW given
      PROVE  LET wanting == {i \in 1 .. n : Wants(i, event)}
             IN \/ wanting = {} /\ FirstAnswer(event, given) = 0
                \/ \E i \in wanting :
                     /\ FirstAnswer(event, given) = given[irq_list[i].handler]
                     /\ \A j \in wanting : i = j \/ Earlier(irq_list[i], irq_list[j])
  <2> DEFINE wanting == {i \in 1 .. n : Wants(i, event)}
  <2> SUFFICES ASSUME wanting # {}
               PROVE  \E i \in wanting :
                        /\ FirstAnswer(event, given) = given[irq_list[i].handler]
                        /\ \A j \in wanting : i = j \/ Earlier(irq_list[i], irq_list[j])
    BY DEF FirstAnswer
  <2>1. PICK first : first = CHOOSE i \in wanting : \A j \in wanting : i <= j
    OBVIOUS
  <2>2. first \in wanting /\ \A j \in wanting : first <= j
    <3>1. wanting \in SUBSET Nat
      OBVIOUS
    <3> HIDE DEF wanting
    <3> QED
      BY <2>1, <3>1, LeastCounterexample
  <2>3. FirstAnswer(event, given) = given[irq_list[first].handler]
    BY <2>1 DEF FirstAnswer
  <2>4. \A j \in wanting : first = j \/ first < j
    BY <1>1, <2>2
  <2> QED
    BY <1>4, <2>2, <2>3, <2>4
<1>6. ASSUME NEW event \in Events, NEW ret \in [1 .. n -> 0 .. 1], NEW debug \in BOOLEAN
      PROVE  LET given == [h \in 1 .. n |-> h * ret[h]]
                 wanting == {i \in 1 .. n : Wants(i, event)}
                 answers == {i \in wanting : given[irq_list[i].handler] # 0}
                 context == trap(event, given, debug)
             IN IF debug /\ event = EVENT_SYSCALL
                THEN \/ wanting = {} /\ context = 0
                     \/ \E i \in wanting :
                          /\ context = given[irq_list[i].handler]
                          /\ \A j \in wanting : i = j \/ Earlier(irq_list[i], irq_list[j])
                ELSE \/ answers = {} /\ context = 0
                     \/ \E i \in answers :
                          /\ context = irq_list[i].handler
                          /\ \A j \in answers : i = j \/ Earlier(irq_list[j], irq_list[i])
  <2> DEFINE given == [h \in 1 .. n |-> h * ret[h]]
             answers == {i \in 1 .. n : Wants(i, event) /\ ret[irq_list[i].handler] # 0}
  <2>1. CASE debug /\ event = EVENT_SYSCALL
    <3>1. trap(event, given, debug) = FirstAnswer(event, given)
      BY <2>1 DEF trap
    <3> HIDE DEF given
    <3>2. LET wanting == {i \in 1 .. n : Wants(i, event)}
          IN \/ wanting = {} /\ FirstAnswer(event, given) = 0
             \/ \E i \in wanting :
                  /\ FirstAnswer(event, given) = given[irq_list[i].handler]
                  /\ \A j \in wanting : i = j \/ Earlier(irq_list[i], irq_list[j])
      BY <1>5
    <3> QED
      BY <2>1, <3>1, <3>2 DEF given
  <2>2. CASE ~(debug /\ event = EVENT_SYSCALL)
    <3>1. trap(event, given, debug) = LastContext(event, given)
      BY <2>2 DEF trap
    <3>2. answers = {i \in {k \in 1 .. n : Wants(k, event)} : given[irq_list[i].handler] # 0}
      <4>1. ASSUME NEW i \in 1 .. n
            PROVE  ret[irq_list[i].handler] # 0 <=> given[irq_list[i].handler] # 0
        <5>1. PICK h \in 1 .. n : h = irq_list[i].handler
          BY <1>1
        <5>2. ret[h] \in {0, 1} /\ given[h] = h * ret[h] /\ h # 0
          OBVIOUS
        <5>3. CASE ret[h] = 0
          BY <5>1, <5>2, <5>3
        <5>4. CASE ret[h] = 1
          BY <5>1, <5>2, <5>4
        <5> QED
          BY <5>2, <5>3, <5>4
      <4> HIDE DEF given
      <4> QED
        BY <4>1
    <3>3. \/ answers = {} /\ LastContext(event, given) = 0
          \/ \E i \in answers :
               /\ LastContext(event, given) = irq_list[i].handler
               /\ \A j \in answers : i = j \/ Earlier(irq_list[j], irq_list[i])
      BY <1>3
    <3> HIDE DEF answers
    <3> QED
      BY <2>2, <3>1, <3>2, <3>3
  <2> QED
    BY <2>1, <2>2
<1> QED
  BY <1>2, <1>4, <1>6 DEF HandlersOrdered

(* HandlersOrdered for any sequence numbers, events and number of          *)
(* registrations: os->on_irq keeps irq_list sorted and loses no handler,   *)
(* so os->trap returns the context of the last handler that gives one.     *)
THEOREM HandlersAreOrdered == IrqSpec => []HandlersOrdered
<1>1. IrqInv /\ [IrqNext]_irq_list => IrqInv'
  <2>1. IrqInv /\ UNCHANGED irq_list => IrqInv'
    BY DEF IrqInv
  <2> QED
    BY <2>1, OnIrqInv DEF IrqNext
<1> QED
  BY IrqInitInv, <1>1, IrqInvOrdered, PTL DEF IrqSpec

-----------------------------------------------------------------------------
(* The clock *)

LEMMA RtcSizes == Minute \in Nat /\ Minute > 2 /\ Hour \in Nat /\ Hour > 1
BY RtcAssumption

LEMMA Multiples ==
  ASSUME NEW d \in Nat, NEW p \in Int, NEW q \in Int, p < q
  PROVE  d * p + d <= d * q
<1>1. d * (p + 1) <= d * q
  OBVIOUS
<1>2. d * (p + 1) = d * p + d
  OBVIOUS
<1> QED
  BY <1>1, <1>2

LEMMA DivMod ==
  ASSUME NEW a \in Nat, NEW d \in Nat, d > 0
  PROVE  \E q, r \in Nat : q = a \div d /\ r = a % d /\ a = d * q + r /\ r < d
<1>1. PICK q \in Int : q = a \div d /\ d * q <= a /\ a < d * q + d
  <2>1. PICK q \in Int : q = a \div d
    OBVIOUS
  <2> QED
    BY <2>1
<1>2. PICK r \in Int : r = a % d /\ 0 <= r /\ r < d
  OBVIOUS
<1>3. a = d * q + r
  BY <1>1, <1>2
<1>4. 0 <= q
  <2> SUFFICES ASSUME q < 0 PROVE FALSE
    OBVIOUS
  <2>1. d * q + d <= d * 0
    BY Multiples
  <2>2. d * 0 = 0
    OBVIOUS
  <2> QED
    BY <1>1, <2>1, <2>2
<1> QED
  BY <1>1, <1>2, <1>3, <1>4

(* Two times less than a minute apart show different seconds. *)
LEMMA SecondsDiffer ==
  ASSUME NEW t \in Nat, NEW k \in 0 .. Minute - 1, DateAt(t + k).second = DateAt(t).second
  PROVE  k = 0
<1> USE RtcSizes
<1>1. PICK q \in Nat, r \in Nat : r = t % Minute /\ t = Minute * q + r
  BY DivMod
<1>2. PICK p \in Nat, s \in Nat : s = (t + k) % Minute /\ t + k = Minute * p + s
  <2>1. PICK u \in Nat : u = t + k
    OBVIOUS
  <2>2. PICK p \in Nat, s \in Nat :
          p = u \div Minute /\ s = u % Minute /\ u = Minute * p + s /\ s < Minute
    BY DivMod
  <2> QED
    BY <2>1, <2>2
<1>3. r = s
  BY <1>1, <1>2 DEF DateAt
<1>4. k = Minute * p - Minute * q
  BY <1>1, <1>2, <1>3
<1>5. CASE p < q
  BY <1>4, <1>5, Multiples
<1>6. CASE q < p
  BY <1>4, <1>6, Multiples
<1> QED
  BY <1>4, <1>5, <1>6

(* The seconds of an hour: what wait_sec returns of a date. *)
Seconds(date) == date.minute * Minute + date.second

LEMMA SecondsAt ==
  ASSUME NEW t \in Nat
  PROVE  /\ Seconds(DateAt(t)) \in Nat /\ Seconds(DateAt(t)) < Minute * Hour
         /\ \E h \in Nat : t = (Minute * Hour) * h + Seconds(DateAt(t))
<1> USE RtcSizes
<1>1. PICK q \in Nat, r \in Nat : q = t \div Minute /\ r = t % Minute /\ t = Minute * q + r /\ r < Minute
  BY DivMod
<1>2. PICK h \in Nat, m \in Nat : m = q % Hour /\ q = Hour * h + m /\ m < Hour
  BY DivMod
<1>3. Seconds(DateAt(t)) = m * Minute + r
  BY <1>1, <1>2 DEF Seconds, DateAt
<1>4. Minute * m + Minute <= Minute * Hour
  BY <1>2, Multiples
<1>5. Minute * (Hour * h + m) = (Minute * Hour) * h + m * Minute
  OBVIOUS
<1>6. PICK x \in Nat, y \in Nat : x = m * Minute /\ y = (Minute * Hour) * h
  OBVIOUS
<1>7. m * Minute = Minute * m
  OBVIOUS
<1>8. x + r \in Nat /\ x + r < Minute * Hour /\ t = y + (x + r)
  <2>1. t = y + x + r
    BY <1>1, <1>2, <1>5, <1>6
  <2>2. x + Minute <= Minute * Hour
    BY <1>4, <1>6, <1>7
  <2> QED
    BY <1>1, <2>1, <2>2
<1> QED
  BY <1>3, <1>6, <1>8

(* Within an hour, later seconds of the hour are as much later. *)
LEMMA Difference ==
  ASSUME NEW t \in Nat, NEW v \in Nat, t <= v, v < t + Minute * Hour,
         Seconds(DateAt(t)) < Seconds(DateAt(v))
  PROVE  Seconds(DateAt(v)) - Seconds(DateAt(t)) = v - t
<1> USE RtcSizes
<1>1. PICK d \in Nat : d = Minute * Hour
  OBVIOUS
<1>2. PICK a \in Nat, h \in Nat : a = Seconds(DateAt(t)) /\ a < d /\ t = d * h + a
  BY <1>1, SecondsAt
<1>3. PICK b \in Nat, g \in Nat : b = Seconds(DateAt(v)) /\ b < d /\ v = d * g + b
  BY <1>1, SecondsAt
<1>4. CASE g < h
  BY <1>1, <1>2, <1>3, <1>4, Multiples
<1>5. CASE h < g
  BY <1>1, <1>2, <1>3, <1>5, Multiples
<1>6. CASE g = h
  BY <1>2, <1>3, <1>6
<1> QED
  BY <1>4, <1>5, <1>6

Dates == [second : Nat, minute : Nat, hour : Nat]
Marks == [t : Nat, tsc : Nat]

RtcTypes ==
  /\ now \in Nat /\ late \in Nat /\ t0 \in Nat
  /\ job \in {"rtc1", "rtc2", "estimate", "timer_rtc", "done"}
  /\ reg \in {"t0", "second", "minute", "hour", "end"}
  /\ rtc \in Dates

(* A pass of wait_sec, or of timer_rtc, since it read its first second. *)
PassOk ==
  /\ Waiting /\ reg # "t0" =>
       /\ late \in {0, 1} /\ late <= now
       /\ t0 = DateAt(now - late).second
       /\ reg # "second" => rtc.second = t0 \/ (late = 1 /\ rtc.second = DateAt(now).second)
       /\ reg \in {"hour", "end"} /\ rtc.second # t0 => rtc.minute = DateAt(now).minute
  /\ job \in {"timer_rtc", "done"} /\ reg \in {"minute", "hour", "end"} =>
       /\ late < Minute /\ late <= now
       /\ rtc.second = DateAt(now - late).second
       /\ late = 0 /\ reg \in {"hour", "end"} => rtc.minute = DateAt(now).minute
       /\ late = 0 /\ reg = "end" => rtc.hour = DateAt(now).hour
  /\ job = "timer_rtc" => reg # "t0"
  /\ job = "estimate" => reg = "t0"
  /\ job = "done" => reg = "end" /\ late = 0

MarkOk(m) == m.tsc <= now /\ m.t = Seconds(DateAt(m.tsc))

MarksOk ==
  /\ mark \in Seq(Marks)
  /\ Len(mark) = IF job = "rtc1" THEN 0 ELSE IF job = "rtc2" THEN 1 ELSE 2
  /\ \A i \in 1 .. Len(mark) : MarkOk(mark[i])
  /\ job = "rtc2" => now < mark[1].tsc + Minute * Hour
  /\ job \in {"estimate", "timer_rtc", "done"} =>
       mark[1].tsc <= mark[2].tsc /\ mark[2].tsc < mark[1].tsc + Minute * Hour
  /\ job \in {"timer_rtc", "done"} => mark[1].t < mark[2].t

RtcInv == RtcTypes /\ PassOk /\ MarksOk

LEMMA DateTypes ==
  ASSUME NEW t \in Nat
  PROVE  DateAt(t) \in Dates
<1> USE RtcSizes
<1>1. t % Minute \in Nat /\ t \div Minute \in Nat
  BY DivMod
<1>2. (t \div Minute) % Hour \in Nat
  BY <1>1, DivMod
<1>3. Minute * Hour \in Nat /\ Minute * Hour > 0
  OBVIOUS
<1>4. t \div (Minute * Hour) \in Nat
  BY <1>3, DivMod
<1> QED
  BY <1>1, <1>2, <1>4 DEF DateAt, Dates

LEMMA RtcInitInv == RtcInit => RtcInv
<1> SUFFICES ASSUME RtcInit PROVE RtcInv
  OBVIOUS
<1> USE RtcSizes
<1>1. now \in Nat
  BY DEF RtcInit
<1>2. DateAt(0) \in Dates
  BY DateTypes
<1> QED
  BY <1>1, <1>2 DEF RtcInit, RtcInv, RtcTypes, PassOk, MarksOk

LEMMA TickInv ==
  ASSUME RtcInv, Tick
  PROVE  RtcInv'
<1> USE RtcSizes DEF RtcInv, Tick
<1>1. RtcTypes'
  BY DEF RtcTypes
<1>2. now' - late' = now - late
  BY DEF RtcTypes
<1>3. PassOk'
  <2>1. ASSUME Waiting, reg # "t0"
        PROVE  /\ late' \in {0, 1} /\ late' <= now'
               /\ t0' = DateAt(now' - late').second
               /\ reg' # "second" => rtc'.second = t0' \/ (late' = 1 /\ rtc'.second = DateAt(now').second)
               /\ reg' \in {"hour", "end"} /\ rtc'.second # t0' => rtc'.minute = DateAt(now').minute
    <3>1. late = 0 /\ late' = 1
      BY <2>1 DEF RtcTypes, PassOk
    <3>2. reg # "second" => rtc.second = t0
      BY <2>1, <3>1 DEF PassOk
    <3> QED
      BY <1>2, <2>1, <3>1, <3>2 DEF RtcTypes, PassOk
  <2>2. ASSUME job = "timer_rtc", reg \in {"minute", "hour", "end"}
        PROVE  late' < Minute /\ late' <= now' /\ late' # 0 /\ rtc'.second = DateAt(now' - late').second
    <3>1. late < Minute - 1
      BY <2>2 DEF Waiting
    <3> QED
      BY <1>2, <2>2, <3>1 DEF RtcTypes, PassOk
  <2>3. Waiting' <=> Waiting
    BY DEF Waiting
  <2> QED
    BY <2>1, <2>2, <2>3 DEF PassOk, RtcTypes
<1>4. MarksOk'
  <2>1. ASSUME NEW i \in 1 .. Len(mark) PROVE MarkOk(mark[i])'
    <3>1. mark[i] \in Marks /\ MarkOk(mark[i])
      BY DEF MarksOk
    <3> QED
      BY <3>1 DEF MarkOk, RtcTypes, Marks
  <2> QED
    BY <2>1 DEF MarksOk
<1> QED
  BY <1>1, <1>3, <1>4

LEMMA ReadT0Inv ==
  ASSUME RtcInv, ReadT0
  PROVE  RtcInv'
<1> USE RtcSizes DEF RtcInv, ReadT0
<1>1. DateAt(now) \in Dates
  BY DateTypes DEF RtcTypes
<1>2. RtcTypes'
  BY <1>1 DEF RtcTypes, Dates
<1>3. PassOk'
  BY DEF PassOk, RtcTypes, Waiting
<1>4. MarksOk'
  BY DEF MarksOk, MarkOk
<1> QED
  BY <1>2, <1>3, <1>4

LEMMA ReadRtcInv ==
  ASSUME RtcInv, ReadRtc
  PROVE  RtcInv'
<1> USE RtcSizes DEF RtcInv
<1>1. PICK date \in Dates : date = DateAt(now)
  BY DateTypes DEF RtcTypes
<1>2. /\ rtc' = [rtc EXCEPT ![reg] = date[reg]]
      /\ reg \in {"second", "minute", "hour"} /\ rtc \in Dates
      /\ late' = IF reg = "second" /\ job = "timer_rtc" THEN 0 ELSE late
      /\ reg' = CASE reg = "second" -> "minute" [] reg = "minute" -> "hour" [] OTHER -> "end"
      /\ UNCHANGED <<now, job, t0, mark>>
  BY <1>1 DEF ReadRtc, RtcTypes
<1>3. /\ rtc' \in Dates
      /\ rtc'.second = IF reg = "second" THEN date.second ELSE rtc.second
      /\ rtc'.minute = IF reg = "minute" THEN date.minute ELSE rtc.minute
      /\ rtc'.hour = IF reg = "hour" THEN date.hour ELSE rtc.hour
  <2>1. CASE reg = "second"
    BY <1>1, <1>2, <2>1 DEF Dates
  <2>2. CASE reg = "minute"
    BY <1>1, <1>2, <2>2 DEF Dates
  <2>3. CASE reg = "hour"
    BY <1>1, <1>2, <2>3 DEF Dates
  <2> QED
    BY <1>2, <2>1, <2>2, <2>3
<1>4. RtcTypes'
  BY <1>2, <1>3 DEF RtcTypes
<1>5. PassOk'
  <2>1. CASE Waiting
    <3>1. late' = late /\ now' = now /\ t0' = t0 /\ job' = job
      BY <1>2, <2>1 DEF Waiting
    <3>2. late \in {0, 1} /\ late <= now /\ t0 = DateAt(now - late).second
      BY <1>2, <2>1 DEF PassOk
    <3>3. rtc'.second = t0 \/ (late = 1 /\ rtc'.second = date.second)
      <4>1. CASE reg = "second"
        BY <1>1, <1>3, <3>2, <4>1 DEF RtcTypes
      <4>2. CASE reg # "second"
        BY <1>1, <1>2, <1>3, <2>1, <4>2 DEF PassOk
      <4> QED
        BY <4>1, <4>2
    <3>4. reg \in {"minute", "hour"} /\ rtc'.second # t0 => rtc'.minute = date.minute
      BY <1>1, <1>2, <1>3, <2>1 DEF PassOk
    <3>5. job \notin {"estimate", "timer_rtc", "done"} /\ reg' # "second" /\ reg' # "t0"
      BY <1>2, <2>1 DEF Waiting
    <3>6. reg' \in {"hour", "end"} => reg \in {"minute", "hour"}
      BY <1>2
    <3> QED
      BY <1>1, <3>1, <3>2, <3>3, <3>4, <3>5, <3>6 DEF PassOk
  <2>2. CASE job = "timer_rtc"
    <3>1. now' = now /\ job' = job /\ reg' \notin {"t0", "second"}
      BY <1>2
    <3>2. late' < Minute /\ late' <= now /\ rtc'.second = DateAt(now - late').second
      <4>1. CASE reg = "second"
        BY <1>1, <1>2, <1>3, <2>2, <4>1 DEF RtcTypes
      <4>2. CASE reg # "second"
        BY <1>2, <1>3, <2>2, <4>2 DEF PassOk
      <4> QED
        BY <4>1, <4>2
    <3>3. late' = 0 /\ reg' \in {"hour", "end"} => rtc'.minute = date.minute
      BY <1>1, <1>2, <1>3, <2>2 DEF PassOk
    <3>4. late' = 0 /\ reg' = "end" => rtc'.hour = date.hour
      BY <1>2, <1>3
    <3>5. ~Waiting'
      BY <2>2, <3>1 DEF Waiting
    <3> QED
      BY <1>1, <2>2, <3>1, <3>2, <3>3, <3>4, <3>5 DEF PassOk
  <2> QED
    BY <2>1, <2>2 DEF ReadRtc
<1>6. MarksOk'
  BY <1>2 DEF MarksOk, MarkOk
<1> QED
  BY <1>4, <1>5, <1>6

LEMMA WaitSecInv ==
  ASSUME RtcInv, wait_sec
  PROVE  RtcInv'
<1> USE RtcSizes DEF RtcInv
<1>1. Waiting /\ reg = "end" /\ reg' = "t0" /\ UNCHANGED <<now, rtc, t0, late>>
  BY DEF wait_sec
<1>2. CASE t0 = rtc.second
  <2>1. UNCHANGED <<job, mark>>
    BY <1>2 DEF wait_sec
  <2>2. RtcTypes' /\ PassOk' /\ MarksOk'
    BY <1>1, <2>1 DEF RtcTypes, PassOk, MarksOk, MarkOk, Waiting
  <2> QED
    BY <2>2
<1>3. CASE t0 # rtc.second
  <2>1. rtc.second = DateAt(now).second /\ rtc.minute = DateAt(now).minute
    BY <1>1, <1>3 DEF PassOk
  <2>2. PICK n \in Marks : n = [t |-> rtc.minute * Minute + rtc.second, tsc |-> now]
    <3>1. rtc.minute \in Nat /\ rtc.second \in Nat
      BY DEF RtcTypes, Dates
    <3>2. rtc.minute * Minute + rtc.second \in Nat
      BY <3>1
    <3> QED
      BY <3>2 DEF RtcTypes, Marks
  <2>3. MarkOk(n)
    BY <2>1, <2>2 DEF MarkOk, Seconds, RtcTypes
  <2>4. mark' = Append(mark, n) /\ job' = IF job = "rtc1" THEN "rtc2" ELSE "estimate"
    BY <1>3, <2>2 DEF wait_sec
  <2>5. /\ mark' \in Seq(Marks) /\ Len(mark') = Len(mark) + 1 /\ Len(mark) \in Nat
        /\ \A i \in 1 .. Len(mark) : mark'[i] = mark[i]
        /\ mark'[Len(mark) + 1] = n
    BY <2>2, <2>4, AppendProperties DEF MarksOk
  <2>6. \A i \in 1 .. Len(mark') : MarkOk(mark'[i])
    <3> SUFFICES ASSUME NEW i \in 1 .. Len(mark') PROVE MarkOk(mark'[i])
      OBVIOUS
    <3>1. CASE i = Len(mark) + 1
      BY <2>3, <2>5, <3>1 DEF MarkOk
    <3>2. CASE i # Len(mark) + 1
      <4>1. i \in 1 .. Len(mark)
        BY <2>5, <3>2
      <4> QED
        BY <2>5, <4>1 DEF MarksOk, MarkOk
    <3> QED
      BY <3>1, <3>2
  <2>7. \A i \in 1 .. Len(mark') : MarkOk(mark[i])'
    BY <1>1, <2>6 DEF MarkOk
  <2>8. CASE job = "rtc1"
    <3>1. Len(mark) = 0 /\ mark'[1] = n /\ job' = "rtc2"
      BY <2>4, <2>5, <2>8 DEF MarksOk
    <3>2. now < n.tsc + Minute * Hour
      <4>1. Minute * Hour \in Nat /\ Minute * Hour > 0
        OBVIOUS
      <4> QED
        BY <2>2, <4>1 DEF RtcTypes
    <3>3. MarksOk'
      BY <1>1, <2>5, <2>7, <3>1, <3>2 DEF MarksOk
    <3>4. RtcTypes' /\ PassOk'
      BY <1>1, <3>1 DEF RtcTypes, PassOk, Waiting
    <3> QED
      BY <3>3, <3>4
  <2>9. CASE job = "rtc2"
    <3>1. Len(mark) = 1 /\ mark'[1] = mark[1] /\ mark'[2] = n /\ job' = "estimate"
      BY <2>4, <2>5, <2>9 DEF MarksOk
    <3>2. mark[1].tsc <= n.tsc /\ n.tsc < mark[1].tsc + Minute * Hour
      BY <2>2, <2>9, <3>1 DEF MarksOk, MarkOk
    <3>3. MarksOk'
      BY <2>5, <2>7, <3>1, <3>2 DEF MarksOk
    <3>4. RtcTypes' /\ PassOk'
      BY <1>1, <3>1 DEF RtcTypes, PassOk, Waiting
    <3> QED
      BY <3>3, <3>4
  <2> QED
    BY <1>1, <2>8, <2>9 DEF Waiting
<1> QED
  BY <1>2, <1>3

LEMMA EstimateInv ==
  ASSUME RtcInv, estimate_freq
  PROVE  RtcInv'
<1> USE RtcSizes DEF RtcInv, estimate_freq
<1>1. /\ mark[1] \in Marks /\ mark[2] \in Marks
      /\ mark[1].tsc <= mark[2].tsc /\ mark[2].tsc < mark[1].tsc + Minute * Hour
  BY DEF MarksOk
<1>2. CASE AnHour
  <2>1. job' = "rtc1" /\ mark' = <<>> /\ reg' = reg
    BY <1>2
  <2>2. reg = "t0"
    BY DEF PassOk
  <2> QED
    BY <2>1, <2>2 DEF RtcTypes, PassOk, MarksOk, Waiting
<1>3. CASE ~AnHour
  <2>1. job' = "timer_rtc" /\ reg' = "second" /\ mark' = mark /\ mark[1].t < mark[2].t
    BY <1>1, <1>3 DEF Marks, AnHour
  <2>2. MarksOk'
    BY <2>1 DEF MarksOk, MarkOk
  <2>3. RtcTypes' /\ PassOk'
    BY <2>1 DEF RtcTypes, PassOk, Waiting
  <2> QED
    BY <2>2, <2>3
<1> QED
  BY <1>2, <1>3

LEMMA TimerRtcInv ==
  ASSUME RtcInv, timer_rtc
  PROVE  RtcInv'
<1> USE RtcSizes DEF RtcInv, timer_rtc
<1>1. MarksOk'
  BY DEF MarksOk, MarkOk
<1>2. late < Minute /\ late <= now /\ rtc.second = DateAt(now - late).second
  BY DEF PassOk
<1>3. DateAt(now).second = rtc.second => late = 0
  <2>1. PICK t \in Nat : t = now - late /\ t + late = now
    BY <1>2 DEF RtcTypes
  <2>2. late \in 0 .. Minute - 1
    BY <1>2 DEF RtcTypes
  <2> QED
    BY <1>2, <2>1, <2>2, SecondsDiffer
<1>4. RtcTypes' /\ PassOk'
  BY <1>3 DEF RtcTypes, PassOk, Waiting
<1> QED
  BY <1>1, <1>4

(* The date that timer_rtc returns is one that the chip had, and the seconds   *)
(* that estimate_freq divides by are those that passed, whatever the lengths   *)
(* of a minute and an hour, however long it waits and whenever the chip ticks. *)
THEOREM ClockIsRight == RtcSpec => []ClockRight
<1>1. RtcInv /\ [RtcNext]_rtcVars => RtcInv'
  <2>1. CASE UNCHANGED rtcVars
    BY <2>1 DEF rtcVars, RtcInv, RtcTypes, PassOk, MarksOk, MarkOk, Waiting
  <2> QED
    BY <2>1, TickInv, ReadT0Inv, ReadRtcInv, WaitSecInv, EstimateInv, TimerRtcInv DEF RtcNext
<1>2. RtcInv => ClockRight
  <2> SUFFICES ASSUME RtcInv PROVE ClockRight
    OBVIOUS
  <2>1. ASSUME job = "done" PROVE \E t \in now - late .. now : rtc = DateAt(t)
    <3>1. late = 0 /\ reg = "end" /\ now \in now - late .. now /\ now - late = now
      BY <2>1 DEF RtcInv, PassOk, RtcTypes
    <3>2. rtc \in Dates /\ DateAt(now) \in Dates
      BY DateTypes DEF RtcInv, RtcTypes
    <3>3. /\ rtc.second = DateAt(now).second /\ rtc.minute = DateAt(now).minute
          /\ rtc.hour = DateAt(now).hour
      BY <2>1, <3>1 DEF RtcInv, PassOk
    <3>4. rtc = DateAt(now)
      BY <3>2, <3>3 DEF Dates
    <3> QED
      BY <3>1, <3>4
  <2>2. ASSUME job \in {"timer_rtc", "done"}
        PROVE  mark[2].t - mark[1].t = mark[2].tsc - mark[1].tsc /\ mark[2].t > mark[1].t
    <3>1. PICK m \in Marks, n \in Marks :
            /\ m = mark[1] /\ n = mark[2] /\ MarkOk(m) /\ MarkOk(n)
            /\ m.tsc <= n.tsc /\ n.tsc < m.tsc + Minute * Hour /\ m.t < n.t
      BY <2>2 DEF RtcInv, MarksOk
    <3>2. m.tsc \in Nat /\ n.tsc \in Nat /\ m.t \in Nat /\ n.t \in Nat
      BY DEF Marks
    <3>3. n.t - m.t = n.tsc - m.tsc
      BY <3>1, <3>2, Difference DEF MarkOk
    <3> QED
      BY <3>1, <3>2, <3>3
  <2> QED
    BY <2>1, <2>2 DEF ClockRight
<1> QED
  BY <1>1, <1>2, RtcInitInv, PTL DEF RtcSpec

-----------------------------------------------------------------------------
(* The page tables *)

All == {"P", "U", "W"}
Pages == Frames \cup {kpt, Pdpt, None} \cup Physical
Entries == [page : Pages, flags : SUBSET All]
Used(F) == Frames \ F

(* What a table is for: the one that va's walk in a space reaches after    *)
(* dep turns, where va is any address with these first dep indices.        *)
Nodes == [own : AddrSpaces, dep : 0 .. ptlevels - 1, path : Addresses]
Reaches(n, f, as, va, d) ==
  n[f].own = as /\ n[f].dep = d /\ \A k \in 1 .. d : n[f].path[k] = va[k]
Link(E, n, f, g) ==
  /\ Reaches(n, f, n[g].own, n[g].path, n[g].dep - 1)
  /\ E[f][n[g].path[n[g].dep]] = Entry(g, All)

(* The parts of the invariant, of tables E and free pages F (those of a    *)
(* walk that has not ended, too), for the spaces in Q with the roots P and *)
(* the mappings M.                                                         *)
TableTypes(E, F) ==
  /\ F \subseteq Frames
  /\ E \in [Frames \cup {kpt, Pdpt} -> [Indices -> Entries]]
  /\ E[kpt][0] = Entry(Pdpt, {"P", "W"})
OnePath(F, n) ==
  \A f, g \in Used(F) : Reaches(n, g, n[f].own, n[f].path, n[f].dep) => f = g
LinksDown(E, F, n) ==
  \A f \in Used(F), i \in Indices : n[f].dep < ptlevels - 1 =>
    IF n[f].dep = 0 /\ Kernel(i) THEN E[f][i] = Entry(Pdpt, {"P", "W"})
    ELSE \/ E[f][i] = Absent
         \/ \E g \in Used(F) : n[g].dep > 0 /\ Link(E, n, f, g) /\ n[g].path[n[g].dep] = i
LinksUp(E, F, n) ==
  \A g \in Used(F) : n[g].dep > 0 => \E f \in Used(F) : Link(E, n, f, g)
Roots(P, F, Q, n) ==
  /\ P \in [AddrSpaces -> Frames \cup {None}] /\ Q \subseteq AddrSpaces
  /\ \A as \in Q : P[as] \in Used(F) /\ n[P[as]].own = as /\ n[P[as]].dep = 0
  /\ \A f \in Used(F) : n[f].own \in Q
MapTypes(Q, M) ==
  /\ DOMAIN M = AddrSpaces
  /\ \A as \in AddrSpaces :
       /\ DOMAIN M[as] \subseteq uvm_area
       /\ \A va \in DOMAIN M[as] : M[as][va] \in Entries /\ "P" \in M[as][va].flags
       /\ as \notin Q => DOMAIN M[as] = {}
Leaves(E, F, M, n) ==
  \A f \in Used(F), va \in Addresses : Reaches(n, f, n[f].own, va, ptlevels - 1) =>
    E[f][va[ptlevels]] = IF va \in DOMAIN M[n[f].own] THEN M[n[f].own][va] ELSE Absent
Placed(F, M, n) ==
  \A as \in AddrSpaces : \A va \in DOMAIN M[as] :
    \E f \in Used(F) : Reaches(n, f, as, va, ptlevels - 1)

Trees(P, E, F, Q, M, n) ==
  /\ n \in [Used(F) -> Nodes]
  /\ TableTypes(E, F) /\ OnePath(F, n) /\ LinksDown(E, F, n) /\ LinksUp(E, F, n)
  /\ Roots(P, F, Q, n) /\ MapTypes(Q, M) /\ Leaves(E, F, M, n) /\ Placed(F, M, n)

VmeInv == \E n : Trees(ptr, entry, free, protected, mapped, n)

LEMMA VmeSizes ==
  /\ ptlevels \in Nat /\ ptlevels > 1 /\ Fan \in Nat /\ Fan > 1 /\ 0 \in Indices
  /\ Frames \subseteq Nat /\ kpt \notin Frames /\ Pdpt \notin Frames /\ None \notin Frames
BY VmeAssumption DEF Indices

LEMMA EntryIs ==
  /\ \A p, fl : Entry(p, fl).page = p /\ Entry(p, fl).flags = fl
  /\ \A p \in Pages, fl \in SUBSET All : Entry(p, fl) \in Entries
  /\ \A e \in Entries : e = Entry(e.page, e.flags) /\ e.page \in Pages /\ e.flags \subseteq All
  /\ Absent.page = None /\ "P" \notin Absent.flags /\ Absent \in Entries
  /\ {"P", "W"} \subseteq All /\ "P" \in All /\ "U" \in All
  /\ kpt \in Pages /\ Pdpt \in Pages /\ None \in Pages /\ Frames \subseteq Pages
  /\ Garbage \in [Indices -> Entries] /\ \A f : Zeroed(f) \in [Indices -> Entries]
BY DEF Entry, Entries, Absent, Pages, All, Garbage, Zeroed

LEMMA EntriesDiffer ==
  /\ \A p, q, fl, fm : Entry(p, fl) = Entry(q, fm) => p = q /\ fl = fm
  /\ \A p : Absent # Entry(p, All)
<1>1. \A p, q, fl, fm : Entry(p, fl) = Entry(q, fm) => p = q /\ fl = fm
  BY EntryIs
<1>2. \A p : Absent # Entry(p, All)
  <2>1. \A p : "P" \in Entry(p, All).flags
    BY EntryIs
  <2> QED
    BY <2>1, EntryIs
<1> QED
  BY <1>1, <1>2

LEMMA PgallocIs ==
  ASSUME NEW F, F \subseteq Frames, F # {}
  PROVE  pgalloc(F) \in F
<1>1. F \in SUBSET Nat
  BY VmeSizes
<1>2. \E f \in F : \A g \in F : f <= g
  BY <1>1, LeastCounterexample
<1> QED
  BY <1>2 DEF pgalloc

LEMMA OneReach ==
  ASSUME NEW F, NEW n, OnePath(F, n), NEW f \in Used(F), NEW g \in Used(F),
         NEW as, NEW va, NEW d, Reaches(n, f, as, va, d), Reaches(n, g, as, va, d)
  PROVE  f = g
<1>1. Reaches(n, g, n[f].own, n[f].path, n[f].dep)
  BY DEF Reaches
<1> QED
  BY <1>1 DEF OnePath

LEMMA NodeTypes ==
  ASSUME NEW F, NEW n \in [Used(F) -> Nodes], NEW f \in Used(F)
  PROVE  /\ n[f].own \in AddrSpaces
         /\ n[f].dep \in 0 .. ptlevels - 1
         /\ n[f].path \in Addresses
         /\ Reaches(n, f, n[f].own, n[f].path, n[f].dep)
BY DEF Nodes, Reaches

LEMMA VmeInitInv == VmeInit => VmeInv
<1> SUFFICES ASSUME VmeInit PROVE VmeInv
  OBVIOUS
<1> DEFINE n == [f \in Used(free) |-> CHOOSE x \in Nodes : TRUE]
<1>1. Used(free) = {}
  BY DEF VmeInit, Used
<1>2. n \in [Used(free) -> Nodes]
  BY <1>1
<1>3. TableTypes(entry, free)
  <2>1. ASSUME NEW f \in Frames \cup {kpt, Pdpt}
        PROVE  [i \in Indices |-> IF f = kpt /\ Kernel(i) THEN Entry(Pdpt, {"P", "W"})
                                  ELSE Absent] \in [Indices -> Entries]
    BY EntryIs
  <2>2. entry \in [Frames \cup {kpt, Pdpt} -> [Indices -> Entries]]
    BY <2>1, EntryIs DEF VmeInit
  <2>3. entry[kpt][0] = Entry(Pdpt, {"P", "W"})
    BY VmeSizes DEF VmeInit, Kernel
  <2> QED
    BY <2>2, <2>3 DEF VmeInit, TableTypes
<1>4. OnePath(free, n) /\ LinksDown(entry, free, n) /\ LinksUp(entry, free, n)
      /\ Leaves(entry, free, mapped, n)
  BY <1>1 DEF OnePath, LinksDown, LinksUp, Leaves
<1>5. Roots(ptr, free, protected, n)
  BY <1>1 DEF VmeInit, Roots
<1>6. DOMAIN mapped = AddrSpaces /\ \A as \in AddrSpaces : DOMAIN mapped[as] = {}
  BY DEF VmeInit, NoPages
<1>7. MapTypes(protected, mapped) /\ Placed(free, mapped, n)
  BY <1>6 DEF MapTypes, Placed
<1> QED
  BY <1>2, <1>3, <1>4, <1>5, <1>7 DEF Trees, VmeInv

(* A walk that adds a table. *)
Grows(E, F, n, f, as, va, i, new, E2, F2, n2) ==
  /\ E[f][va[i]] = Absent
  /\ F2 = F \ {new}
  /\ E2 = [E EXCEPT ![f][va[i]] = Entry(new, All), ![new] = Zeroed(new)]
  /\ n2 = [g \in Used(F2) |-> IF g = new THEN [own |-> as, dep |-> i, path |-> va] ELSE n[g]]

LEMMA GrowTrees ==
  ASSUME NEW P, NEW E, NEW F, NEW Q, NEW M, NEW n, Trees(P, E, F, Q, M, n),
         NEW f \in Used(F), NEW as, NEW va \in uvm_area, NEW i \in 1 .. ptlevels - 1,
         Reaches(n, f, as, va, i - 1),
         NEW new \in F, NEW E2, NEW F2, NEW n2, Grows(E, F, n, f, as, va, i, new, E2, F2, n2)
  PROVE  /\ Trees(P, E2, F2, Q, M, n2)
         /\ new \in Used(F2) /\ Reaches(n2, new, as, va, i)
<1> /\ E[f][va[i]] = Absent
    /\ F2 = F \ {new}
    /\ E2 = [E EXCEPT ![f][va[i]] = Entry(new, All), ![new] = Zeroed(new)]
    /\ n2 = [g \in Used(F2) |-> IF g = new THEN [own |-> as, dep |-> i, path |-> va] ELSE n[g]]
  BY DEF Grows
<1>1. /\ n \in [Used(F) -> Nodes] /\ TableTypes(E, F) /\ OnePath(F, n)
      /\ LinksDown(E, F, n) /\ LinksUp(E, F, n)
      /\ Roots(P, F, Q, n) /\ MapTypes(Q, M) /\ Leaves(E, F, M, n) /\ Placed(F, M, n)
  BY DEF Trees
<1>2. /\ va \in Addresses /\ va[1] = 1 /\ va[i] \in Indices
      /\ i \in Nat /\ i > 0 /\ i - 1 < ptlevels - 1 /\ (i = 1 => ~Kernel(va[i]))
  <2>1. va \in Addresses /\ va[1] = 1
    BY DEF uvm_area
  <2> QED
    BY <2>1, VmeSizes DEF Addresses, Kernel
<1>3. /\ F \subseteq Frames /\ new \in Frames /\ new \notin Used(F) /\ f # new
      /\ Used(F2) = Used(F) \cup {new} /\ new \in Used(F2)
      /\ as \in AddrSpaces /\ as \in Q /\ n[f].own = as /\ n[f].dep = i - 1
  <2>1. F \subseteq Frames
    BY <1>1 DEF TableTypes
  <2>2. n[f].own = as /\ n[f].dep = i - 1
    BY DEF Reaches
  <2>3. as \in Q /\ as \in AddrSpaces
    BY <1>1, <2>2 DEF Roots
  <2> QED
    BY <2>1, <2>2, <2>3 DEF Used
<1>4. /\ n2 \in [Used(F2) -> Nodes]
      /\ n2[new].own = as /\ n2[new].dep = i /\ n2[new].path = va
      /\ \A g \in Used(F) : n2[g] = n[g]
  <2>1. [own |-> as, dep |-> i, path |-> va] \in Nodes
    <3>1. i \in 0 .. ptlevels - 1 /\ va \in Addresses /\ as \in AddrSpaces
      <4>1. i \in 0 .. ptlevels - 1
        BY VmeSizes
      <4> QED
        BY <1>2, <1>3, <4>1
    <3> QED
      BY <3>1 DEF Nodes
  <2> QED
    BY <1>1, <1>3, <2>1
<1>5. /\ E2 \in [Frames \cup {kpt, Pdpt} -> [Indices -> Entries]]
      /\ E2[new] = Zeroed(new) /\ \A j \in Indices : E2[new][j] = Absent
      /\ E2[f][va[i]] = Entry(new, All)
      /\ \A h \in Frames \cup {kpt, Pdpt}, j \in Indices :
           h # new /\ ~(h = f /\ j = va[i]) => E2[h][j] = E[h][j]
  <2>1. E \in [Frames \cup {kpt, Pdpt} -> [Indices -> Entries]]
    BY <1>1 DEF TableTypes
  <2>2. PICK x \in Entries, z \in [Indices -> Entries] : x = Entry(new, All) /\ z = Zeroed(new)
    BY <1>3, EntryIs
  <2>3. f \in Frames
    BY DEF Used
  <2>4. PICK a \in Indices : a = va[i]
    BY <1>2
  <2>5. E2 = [E EXCEPT ![f][a] = x, ![new] = z]
    BY <2>2, <2>4
  <2>6. \A j \in Indices : z[j] = Absent
    BY <2>2 DEF Zeroed
  <2> QED
    BY <1>3, <2>1, <2>2, <2>3, <2>4, <2>5, <2>6
<1>6. \A g \in Used(F) : ~Reaches(n, g, as, va, i)
  <2> SUFFICES ASSUME NEW g \in Used(F), Reaches(n, g, as, va, i) PROVE FALSE
    OBVIOUS
  <2>1. n[g].own = as /\ n[g].dep = i /\ (\A k \in 1 .. i : n[g].path[k] = va[k])
    BY DEF Reaches
  <2>2. PICK h \in Used(F) : Link(E, n, h, g)
    BY <1>1, <1>2, <2>1 DEF LinksUp
  <2>3. /\ Reaches(n, h, as, n[g].path, i - 1)
        /\ E[h][va[i]] = Entry(g, All)
    BY <1>2, <2>1, <2>2 DEF Link, Reaches
  <2>4. Reaches(n, h, as, va, i - 1)
    BY <1>2, <2>1, <2>3 DEF Reaches
  <2>5. h = f
    <3>1. Reaches(n, h, n[f].own, n[f].path, n[f].dep)
      BY <2>4 DEF Reaches
    <3> QED
      BY <1>1, <3>1 DEF OnePath
  <2> QED
    BY <2>3, <2>5, EntriesDiffer
<1>7. \A g \in Used(F) : /\ \A a, v, d : Reaches(n2, g, a, v, d) <=> Reaches(n, g, a, v, d)
                         /\ g # new
  BY <1>3, <1>4 DEF Reaches
<1>8. \A a, v, d : Reaches(n2, new, a, v, d) <=>
                     (a = as /\ d = i /\ \A k \in 1 .. i : va[k] = v[k])
  BY <1>4 DEF Reaches
<1>9. OnePath(F2, n2)
  <2> SUFFICES ASSUME NEW g \in Used(F2), NEW h \in Used(F2),
                      Reaches(n2, h, n2[g].own, n2[g].path, n2[g].dep)
               PROVE  g = h
    BY DEF OnePath
  <2>1. CASE g \in Used(F) /\ h \in Used(F)
    <3>1. Reaches(n, h, n[g].own, n[g].path, n[g].dep)
      <4>1. n2[g] = n[g]
        BY <1>4, <2>1
      <4>2. Reaches(n2, h, n[g].own, n[g].path, n[g].dep)
        BY <4>1
      <4> QED
        BY <1>7, <2>1, <4>2
    <3> QED
      BY <1>1, <2>1, <3>1 DEF OnePath
  <2>2. CASE g = new /\ h \in Used(F)
    <3>1. Reaches(n2, h, as, va, i)
      BY <1>4, <2>2
    <3> QED
      BY <1>6, <1>7, <2>2, <3>1
  <2>3. CASE g \in Used(F) /\ h = new
    <3>1. n[g].own = as /\ n[g].dep = i /\ \A k \in 1 .. i : va[k] = n[g].path[k]
      <4>1. n2[g] = n[g]
        BY <1>4, <2>3
      <4>2. Reaches(n2, new, n[g].own, n[g].path, n[g].dep)
        BY <2>3, <4>1
      <4> QED
        BY <1>8, <4>2
    <3>2. Reaches(n, g, as, va, i)
      BY <3>1 DEF Reaches
    <3> QED
      BY <1>6, <2>3, <3>2
  <2> QED
    BY <1>3, <2>1, <2>2, <2>3
<1>10. \A h, g \in Used(F) : n[g].dep > 0 /\ Link(E, n, h, g) => Link(E2, n2, h, g)
  <2> SUFFICES ASSUME NEW h \in Used(F), NEW g \in Used(F), n[g].dep > 0, Link(E, n, h, g)
               PROVE  Link(E2, n2, h, g)
    OBVIOUS
  <2>1. n[g].dep \in 1 .. ptlevels /\ n[g].path \in Addresses
    BY <1>1, NodeTypes, VmeSizes
  <2>2. PICK j \in Indices : j = n[g].path[n[g].dep]
    BY <2>1 DEF Addresses
  <2>3. E[h][j] = Entry(g, All) /\ h \in Frames
    BY <2>2 DEF Link, Used
  <2>4. ~(h = f /\ j = va[i])
    BY <2>3, EntriesDiffer
  <2>5. E2[h][j] = Entry(g, All)
    BY <1>5, <1>7, <2>3, <2>4
  <2>6. n2[g] = n[g] /\ Reaches(n2, h, n[g].own, n[g].path, n[g].dep - 1)
    BY <1>4, <1>7 DEF Link
  <2> QED
    BY <2>2, <2>5, <2>6 DEF Link
<1>11. Link(E2, n2, f, new)
  <2>1. Reaches(n2, f, as, va, i - 1)
    BY <1>7
  <2> QED
    BY <1>4, <1>5, <2>1 DEF Link
<1>12. LinksDown(E2, F2, n2)
  <2> SUFFICES ASSUME NEW h \in Used(F2), NEW j \in Indices, n2[h].dep < ptlevels - 1
               PROVE  IF n2[h].dep = 0 /\ Kernel(j) THEN E2[h][j] = Entry(Pdpt, {"P", "W"})
                      ELSE \/ E2[h][j] = Absent
                           \/ \E g \in Used(F2) : n2[g].dep > 0 /\ Link(E2, n2, h, g)
                                                  /\ n2[g].path[n2[g].dep] = j
    BY DEF LinksDown
  <2>1. CASE h = new
    <3>1. E2[h][j] = Absent /\ n2[h].dep = i /\ i # 0
      BY <1>2, <1>4, <1>5, <2>1
    <3> QED
      BY <3>1
  <2>2. CASE h = f /\ j = va[i]
    <3>1. ~(n2[h].dep = 0 /\ Kernel(j))
      BY <1>2, <1>3, <1>4, <2>2
    <3>2. n2[new].dep > 0 /\ Link(E2, n2, h, new) /\ n2[new].path[n2[new].dep] = j
      BY <1>2, <1>4, <1>11, <2>2
    <3> QED
      BY <1>3, <3>1, <3>2
  <2>3. CASE h # new /\ ~(h = f /\ j = va[i])
    <3>1. h \in Used(F) /\ h \in Frames
      BY <1>3, <2>3 DEF Used
    <3>2. E2[h][j] = E[h][j] /\ n2[h] = n[h]
      BY <1>4, <1>5, <2>3, <3>1
    <3>3. IF n[h].dep = 0 /\ Kernel(j) THEN E[h][j] = Entry(Pdpt, {"P", "W"})
          ELSE \/ E[h][j] = Absent
               \/ \E g \in Used(F) : n[g].dep > 0 /\ Link(E, n, h, g) /\ n[g].path[n[g].dep] = j
      BY <1>1, <3>1, <3>2 DEF LinksDown
    <3>4. ASSUME NEW g \in Used(F), n[g].dep > 0, Link(E, n, h, g), n[g].path[n[g].dep] = j
          PROVE  \E k \in Used(F2) : n2[k].dep > 0 /\ Link(E2, n2, h, k)
                                     /\ n2[k].path[n2[k].dep] = j
      <4>1. g \in Used(F2) /\ n2[g] = n[g] /\ Link(E2, n2, h, g)
        BY <1>3, <1>4, <1>10, <3>1, <3>4
      <4> QED
        BY <3>4, <4>1
    <3> QED
      BY <3>2, <3>3, <3>4
  <2> QED
    BY <2>1, <2>2, <2>3
<1>13. LinksUp(E2, F2, n2)
  <2> SUFFICES ASSUME NEW g \in Used(F2), n2[g].dep > 0
               PROVE  \E h \in Used(F2) : Link(E2, n2, h, g)
    BY DEF LinksUp
  <2>1. CASE g = new
    BY <1>3, <1>11, <2>1
  <2>2. CASE g \in Used(F)
    <3>1. n[g].dep > 0
      BY <1>4, <2>2
    <3>2. PICK h \in Used(F) : Link(E, n, h, g)
      BY <1>1, <2>2, <3>1 DEF LinksUp
    <3> QED
      BY <1>3, <1>10, <2>2, <3>1, <3>2
  <2> QED
    BY <1>3, <2>1, <2>2
<1>14. TableTypes(E2, F2)
  <2>1. E2[kpt][0] = E[kpt][0]
    <3>1. kpt # new /\ kpt # f
      BY <1>3, VmeSizes DEF Used
    <3> QED
      BY <1>5, <3>1, VmeSizes
  <2> QED
    BY <1>1, <1>3, <1>5, <2>1 DEF TableTypes
<1>15. Roots(P, F2, Q, n2)
  BY <1>1, <1>3, <1>4 DEF Roots
<1>16. Placed(F2, M, n2)
  <2> SUFFICES ASSUME NEW a \in AddrSpaces, NEW v \in DOMAIN M[a]
               PROVE  \E g \in Used(F2) : Reaches(n2, g, a, v, ptlevels - 1)
    BY DEF Placed
  <2>1. PICK g \in Used(F) : Reaches(n, g, a, v, ptlevels - 1)
    BY <1>1 DEF Placed
  <2> QED
    BY <1>3, <1>7, <2>1
<1>17. Leaves(E2, F2, M, n2)
  <2> SUFFICES ASSUME NEW h \in Used(F2), NEW v \in Addresses,
                      Reaches(n2, h, n2[h].own, v, ptlevels - 1)
               PROVE  E2[h][v[ptlevels]] =
                        IF v \in DOMAIN M[n2[h].own] THEN M[n2[h].own][v] ELSE Absent
    BY DEF Leaves
  <2>1. v[ptlevels] \in Indices
    BY VmeSizes DEF Addresses
  <2>2. CASE h = new
    <3>1. i = ptlevels - 1 /\ \A k \in 1 .. i : va[k] = v[k]
      <4>1. Reaches(n2, new, n2[new].own, v, ptlevels - 1)
        BY <2>2
      <4> QED
        BY <1>4, <4>1 DEF Reaches
    <3>2. v \notin DOMAIN M[as]
      <4>1. ASSUME v \in DOMAIN M[as] PROVE FALSE
        <5>1. PICK g \in Used(F) : Reaches(n, g, as, v, ptlevels - 1)
          BY <1>1, <1>3, <4>1 DEF Placed
        <5>2. Reaches(n, g, as, va, i)
          BY <3>1, <5>1 DEF Reaches
        <5> QED
          BY <1>6, <5>2
      <4> QED
        BY <4>1
    <3>3. E2[h][v[ptlevels]] = Absent /\ n2[h].own = as
      BY <1>4, <1>5, <2>1, <2>2
    <3> QED
      BY <3>2, <3>3
  <2>3. CASE h \in Used(F)
    <3>1. n2[h] = n[h] /\ Reaches(n, h, n[h].own, v, ptlevels - 1)
      <4>1. n2[h] = n[h]
        BY <1>4, <2>3
      <4>2. Reaches(n2, h, n[h].own, v, ptlevels - 1)
        BY <4>1
      <4> QED
        BY <1>7, <2>3, <4>1, <4>2
    <3>2. n[h].dep = ptlevels - 1
      BY <3>1 DEF Reaches
    <3>3. h # f /\ h # new /\ h \in Frames
      BY <1>2, <1>3, <1>7, <2>3, <3>2 DEF Used
    <3>4. E2[h][v[ptlevels]] = E[h][v[ptlevels]]
      BY <1>5, <2>1, <3>3
    <3> QED
      BY <1>1, <2>3, <3>1, <3>4 DEF Leaves
  <2> QED
    BY <1>3, <2>2, <2>3
<1>18. Reaches(n2, new, as, va, i)
  BY <1>8
<1> QED
  BY <1>1, <1>3, <1>4, <1>9, <1>12, <1>13, <1>14, <1>15, <1>16, <1>17, <1>18 DEF Trees

(* A walk on its way, with the table of va that it has reached. *)
Walks == [pt : Frames \cup {None}, free : SUBSET Frames,
          entry : [Frames \cup {kpt, Pdpt} -> [Indices -> Entries]]]
On(s, P, Q, M, as, va, d) ==
  /\ s \in Walks
  /\ s.pt # None => \E n : /\ Trees(P, s.entry, s.free, Q, M, n)
                           /\ s.pt \in Used(s.free) /\ Reaches(n, s.pt, as, va, d)

LEMMA DescendOn ==
  ASSUME NEW s, NEW P, NEW Q, NEW M, NEW as, NEW va \in uvm_area, NEW i \in 1 .. ptlevels - 1,
         On(s, P, Q, M, as, va, i - 1), NEW t, t = Descend(s, va, i, {"W", "U"})
  PROVE  On(t, P, Q, M, as, va, i)
<1> DEFINE e == s.entry[s.pt][va[i]]
           new == pgalloc(s.free)
<1>1. /\ s \in Walks /\ s.pt \in Frames \cup {None} /\ s.free \subseteq Frames
      /\ s.entry \in [Frames \cup {kpt, Pdpt} -> [Indices -> Entries]]
  BY DEF On, Walks
<1>2. CASE s.pt = None \/ ("P" \notin e.flags /\ s.free = {})
  <2>1. t = [s EXCEPT !.pt = None]
    BY <1>2 DEF Descend
  <2>2. t \in Walks /\ t.pt = None
    BY <1>1, <2>1 DEF Walks
  <2> QED
    BY <2>2 DEF On
<1>3. CASE s.pt # None /\ ~("P" \notin e.flags /\ s.free = {})
  <2>1. PICK n : /\ Trees(P, s.entry, s.free, Q, M, n)
                 /\ s.pt \in Used(s.free) /\ Reaches(n, s.pt, as, va, i - 1)
    BY <1>3 DEF On
  <2>2. PICK f, E, F : f = s.pt /\ E = s.entry /\ F = s.free
    OBVIOUS
  <2>3. /\ Trees(P, E, F, Q, M, n) /\ f \in Used(F) /\ Reaches(n, f, as, va, i - 1)
        /\ F \subseteq Frames /\ E \in [Frames \cup {kpt, Pdpt} -> [Indices -> Entries]]
        /\ n \in [Used(F) -> Nodes]
    BY <1>1, <2>1, <2>2 DEF Trees
  <2>4. PICK j \in Indices : j = va[i] /\ (i = 1 => j = 1)
    BY VmeSizes DEF uvm_area, Addresses
  <2>5. n[f].dep = i - 1 /\ n[f].own = as /\ \A k \in 1 .. i - 1 : n[f].path[k] = va[k]
    BY <2>3 DEF Reaches
  <2>6. \/ E[f][j] = Absent
        \/ \E g \in Used(F) : n[g].dep > 0 /\ Link(E, n, f, g) /\ n[g].path[n[g].dep] = j
    <3>1. n[f].dep < ptlevels - 1 /\ ~(n[f].dep = 0 /\ Kernel(j))
      BY <2>4, <2>5, VmeSizes DEF Kernel
    <3> QED
      BY <2>3, <2>4, <3>1 DEF Trees, LinksDown
  <2>7. CASE E[f][j] = Absent
    <3>1. F # {} /\ new \in F
      <4>1. F # {}
        BY <1>3, <2>2, <2>4, <2>7, EntryIs
      <4> QED
        BY <2>2, <2>3, <4>1, PgallocIs
    <3>2. PICK p \in F : p = new
      BY <3>1
    <3>3. PICK E2, F2 : /\ F2 = F \ {p}
                        /\ E2 = [E EXCEPT ![f][va[i]] = Entry(p, All), ![p] = Zeroed(p)]
      OBVIOUS
    <3>4. PICK n2 : n2 = [g \in Used(F2) |-> IF g = p THEN [own |-> as, dep |-> i, path |-> va]
                                             ELSE n[g]]
      OBVIOUS
    <3>5. Trees(P, E2, F2, Q, M, n2) /\ p \in Used(F2) /\ Reaches(n2, p, as, va, i)
      <4>1. E[f][va[i]] = Absent
        BY <2>4, <2>7
      <4> QED
        <5>1. Grows(E, F, n, f, as, va, i, p, E2, F2, n2)
          BY <3>3, <3>4, <4>1 DEF Grows
        <5> QED
          BY <2>3, <5>1, GrowTrees
    <3>6. t = [pt |-> p, free |-> F2, entry |-> E2]
      <4>1. "P" \notin e.flags /\ s.pt # None /\ {"P"} \cup {"W", "U"} = All
        BY <1>3, <2>2, <2>4, <2>7, EntryIs DEF All
      <4>2. ~(s.pt = None \/ ("P" \notin e.flags /\ s.free = {}))
        BY <1>3
      <4> QED
        BY <2>2, <3>2, <3>3, <4>1, <4>2 DEF Descend
    <3>7. t \in Walks
      <4>1. p \in Frames /\ F2 \subseteq Frames
        BY <2>3, <3>3
      <4>2. E2 \in [Frames \cup {kpt, Pdpt} -> [Indices -> Entries]]
        BY <3>5 DEF Trees, TableTypes
      <4> QED
        BY <3>6, <4>1, <4>2 DEF Walks
    <3>8. t.pt = p /\ t.free = F2 /\ t.entry = E2
      BY <3>6
    <3> QED
      <4>1. /\ Trees(P, t.entry, t.free, Q, M, n2) /\ t.pt \in Used(t.free)
            /\ Reaches(n2, t.pt, as, va, i)
        BY <3>5, <3>8, Zenon
      <4> QED
        BY <3>7, <4>1, Zenon DEF On
  <2>8. ASSUME NEW g \in Used(F), n[g].dep > 0, Link(E, n, f, g), n[g].path[n[g].dep] = j
        PROVE  On(t, P, Q, M, as, va, i)
    <3>1. E[f][j] = Entry(g, All)
      BY <2>8 DEF Link
    <3>2. e = Entry(g, All) /\ "P" \in e.flags /\ e.page = g
      BY <2>2, <2>4, <3>1, EntryIs
    <3>3. t = [s EXCEPT !.pt = g]
      BY <1>3, <3>2 DEF Descend
    <3>4. g \in Frames
      BY DEF Used
    <3>5. t \in Walks /\ t.pt = g /\ t.free = F /\ t.entry = E
      <4> QED
        BY <1>1, <2>2, <3>3, <3>4 DEF Walks
    <3>6. Reaches(n, g, as, va, i)
      <4>1. /\ n[f].own = n[g].own /\ n[f].dep = n[g].dep - 1
            /\ \A k \in 1 .. n[g].dep - 1 : n[f].path[k] = n[g].path[k]
        BY <2>8 DEF Link, Reaches
      <4>2. n[g].dep \in Nat
        BY <2>3, NodeTypes, VmeSizes
      <4>3. n[g].dep = i
        BY <2>5, <4>1, <4>2
      <4>4. \A k \in 1 .. i : n[g].path[k] = va[k]
        BY <2>4, <2>5, <2>8, <4>1, <4>3
      <4> QED
        BY <2>5, <4>1, <4>3, <4>4 DEF Reaches
    <3> QED
      BY <2>3, <3>5, <3>6 DEF On
  <2> QED
    BY <2>6, <2>7, <2>8
<1> QED
  BY <1>2, <1>3

Turns(w, as, va, flags) ==
  /\ w[0] = [pt |-> ptr[as], free |-> free, entry |-> entry]
  /\ \A i \in 1 .. ptlevels - 1 : w[i] = Descend(w[i - 1], va, i, flags)

LEMMA WalkIs ==
  ASSUME NEW as, NEW va, NEW flags
  PROVE  \E w : ptwalk(as, va, flags) = w[ptlevels - 1] /\ Turns(w, as, va, flags)
<1> DEFINE start == [pt |-> ptr[as], free |-> free, entry |-> entry]
           Is(w, m) == w = [i \in 0 .. m |-> IF i = 0 THEN start
                                             ELSE Descend(w[i - 1], va, i, flags)]
           S == {m \in Nat : \E w : Is(w, m)}
<1>1. 0 \in S
  <2>1. Is([i \in 0 .. 0 |-> start], 0)
    OBVIOUS
  <2> HIDE DEF Is
  <2> QED
    BY <2>1
<1>2. ASSUME NEW m \in 0 .. (ptlevels - 1) - 1, m \in S PROVE m + 1 \in S
  <2>1. PICK w : Is(w, m)
    BY <1>2
  <2>2. PICK x : x = [i \in 0 .. m + 1 |-> IF i = 0 THEN start
                                           ELSE Descend(w[i - 1], va, i, flags)]
    OBVIOUS
  <2>3. \A i \in 0 .. m : x[i] = w[i]
    <3> HIDE DEF start
    <3> QED
      BY <2>1, <2>2
  <2>4. \A i \in 0 .. m + 1 : i # 0 => x[i - 1] = w[i - 1]
    BY <2>3
  <2>5. Is(x, m + 1)
    <3> HIDE DEF start
    <3> QED
      BY <2>2, <2>4
  <2> HIDE DEF Is
  <2>6. m + 1 \in Nat /\ \E y : Is(y, m + 1)
    BY <2>5
  <2> QED
    BY <2>6
<1>3. ptlevels - 1 \in S
  <2> HIDE DEF S
  <2>1. ptlevels - 1 \in Nat
    BY VmeSizes
  <2> QED
    BY <1>1, <1>2, <2>1, UpTo
<1>4. \E w : Is(w, ptlevels - 1)
  BY <1>3
<1>5. PICK w : w = CHOOSE x : Is(x, ptlevels - 1)
  OBVIOUS
<1>6. Is(w, ptlevels - 1)
  <2> HIDE DEF Is
  <2> QED
    BY <1>4, <1>5
<1>7. ptwalk(as, va, flags) = w[ptlevels - 1]
  BY <1>5 DEF ptwalk
<1>8. w[0] = start /\ \A i \in 1 .. ptlevels - 1 : w[i] = Descend(w[i - 1], va, i, flags)
  <2>1. PICK s : s = start
    OBVIOUS
  <2>2. w = [i \in 0 .. ptlevels - 1 |-> IF i = 0 THEN s ELSE Descend(w[i - 1], va, i, flags)]
    BY <1>6, <2>1
  <2>3. 0 \in 0 .. ptlevels - 1 /\ \A i \in 1 .. ptlevels - 1 : i \in 0 .. ptlevels - 1 /\ i # 0
    BY VmeSizes
  <2>4. w[0] = s
    BY <2>2, <2>3
  <2>5. \A i \in 1 .. ptlevels - 1 : w[i] = Descend(w[i - 1], va, i, flags)
    BY <2>2, <2>3
  <2> QED
    BY <2>1, <2>4, <2>5
<1> QED
  BY <1>7, <1>8 DEF Turns

LEMMA WalkOn ==
  ASSUME NEW n, Trees(ptr, entry, free, protected, mapped, n),
         NEW as \in protected, NEW va \in uvm_area
  PROVE  On(ptwalk(as, va, {"W", "U"}), ptr, protected, mapped, as, va, ptlevels - 1)
<1> PICK w : ptwalk(as, va, {"W", "U"}) = w[ptlevels - 1] /\ Turns(w, as, va, {"W", "U"})
  BY WalkIs
<1>1. /\ ptwalk(as, va, {"W", "U"}) = w[ptlevels - 1]
      /\ w[0] = [pt |-> ptr[as], free |-> free, entry |-> entry]
      /\ \A i \in 1 .. ptlevels - 1 : w[i] = Descend(w[i - 1], va, i, {"W", "U"})
  BY DEF Turns
<1>2. On(w[0], ptr, protected, mapped, as, va, 0)
  <2>1. ptr[as] \in Used(free) /\ n[ptr[as]].own = as /\ n[ptr[as]].dep = 0
    BY DEF Trees, Roots
  <2>2. Reaches(n, ptr[as], as, va, 0)
    BY <2>1 DEF Reaches
  <2>3. /\ free \subseteq Frames /\ ptr[as] \in Frames
        /\ entry \in [Frames \cup {kpt, Pdpt} -> [Indices -> Entries]]
    BY <2>1 DEF Trees, TableTypes, Used
  <2>4. w[0] \in Walks
    <3>1. PICK r \in Frames \cup {None}, F \in SUBSET Frames,
               E \in [Frames \cup {kpt, Pdpt} -> [Indices -> Entries]] :
            r = ptr[as] /\ F = free /\ E = entry
      BY <2>3
    <3>2. w[0] = [pt |-> r, free |-> F, entry |-> E]
      BY <1>1, <3>1
    <3> QED
      BY <3>2 DEF Walks
  <2>5. w[0].pt = ptr[as] /\ w[0].free = free /\ w[0].entry = entry
    BY <1>1
  <2> QED
    BY <2>1, <2>2, <2>4, <2>5 DEF On
<1> DEFINE S == {i \in Nat : On(w[i], ptr, protected, mapped, as, va, i)}
<1>3. 0 \in S
  BY <1>2
<1>4. ASSUME NEW i \in 0 .. (ptlevels - 1) - 1, i \in S PROVE i + 1 \in S
  <2>1. PICK k \in 1 .. ptlevels - 1 : k = i + 1 /\ k - 1 = i
    BY VmeSizes
  <2>2. w[k] = Descend(w[k - 1], va, k, {"W", "U"})
    BY <1>1
  <2>3. On(w[k - 1], ptr, protected, mapped, as, va, k - 1)
    BY <1>4, <2>1
  <2>4. On(w[k], ptr, protected, mapped, as, va, k)
    BY <2>2, <2>3, DescendOn
  <2>5. k \in S
    <3>1. k \in Nat
      BY VmeSizes
    <3> HIDE DEF S
    <3>2. S = {j \in Nat : On(w[j], ptr, protected, mapped, as, va, j)}
      BY DEF S
    <3> QED
      BY <2>4, <3>1, <3>2, Zenon
  <2> HIDE DEF S
  <2> QED
    BY <2>1, <2>5
<1>5. ptlevels - 1 \in S
  <2> HIDE DEF S
  <2>1. ptlevels - 1 \in Nat
    BY VmeSizes
  <2> QED
    BY <1>3, <1>4, <2>1, UpTo
<1> QED
  BY <1>1, <1>5

LEMMA ProtectInv ==
  ASSUME VmeInv, NEW as \in AddrSpaces, protect(as)
  PROVE  VmeInv'
<1>1. PICK n : Trees(ptr, entry, free, protected, mapped, n)
  BY DEF VmeInv
<1>2. /\ n \in [Used(free) -> Nodes] /\ TableTypes(entry, free) /\ OnePath(free, n)
      /\ LinksDown(entry, free, n) /\ LinksUp(entry, free, n)
      /\ Roots(ptr, free, protected, n) /\ MapTypes(protected, mapped)
      /\ Leaves(entry, free, mapped, n) /\ Placed(free, mapped, n)
  BY <1>1 DEF Trees
<1>3. free \subseteq Frames /\ free # {} /\ as \notin protected
  BY <1>2 DEF TableTypes, protect
<1>4. PICK upt \in free : upt = pgalloc(free)
  BY <1>3, PgallocIs
<1>5. /\ ptr' = [ptr EXCEPT ![as] = upt]
      /\ free' = free \ {upt}
      /\ entry' = [entry EXCEPT ![upt] =
                     [i \in Indices |-> IF Kernel(i) THEN entry[kpt][i] ELSE Zeroed(upt)[i]]]
      /\ protected' = protected \cup {as} /\ mapped' = mapped
  BY <1>4 DEF protect
<1>6. PICK anyva \in Addresses : TRUE
  <2>1. [k \in 1 .. ptlevels |-> 0] \in Addresses
    BY VmeSizes DEF Addresses
  <2> QED
    BY <2>1
<1>7. PICK m : m = [g \in Used(free') |-> IF g = upt THEN [own |-> as, dep |-> 0, path |-> anyva]
                                         ELSE n[g]]
  OBVIOUS
<1>8. /\ upt \in Frames /\ upt \notin Used(free)
      /\ Used(free') = Used(free) \cup {upt} /\ upt \in Used(free')
  BY <1>3, <1>5 DEF Used
<1>9. /\ m \in [Used(free') -> Nodes]
      /\ m[upt].own = as /\ m[upt].dep = 0
      /\ \A g \in Used(free) : m[g] = n[g] /\ g # upt
      /\ \A g \in Used(free) : \A a, v, d : Reaches(m, g, a, v, d) <=> Reaches(n, g, a, v, d)
  <2>1. [own |-> as, dep |-> 0, path |-> anyva] \in Nodes
    <3>1. 0 \in 0 .. ptlevels - 1
      BY VmeSizes
    <3> QED
      BY <3>1 DEF Nodes
  <2>2. /\ m \in [Used(free') -> Nodes]
        /\ m[upt].own = as /\ m[upt].dep = 0
        /\ \A g \in Used(free) : m[g] = n[g] /\ g # upt
    BY <1>2, <1>7, <1>8, <2>1
  <2> QED
    BY <2>2 DEF Reaches
<1>10. /\ entry' \in [Frames \cup {kpt, Pdpt} -> [Indices -> Entries]]
       /\ \A i \in Indices : entry'[upt][i] = IF Kernel(i) THEN Entry(Pdpt, {"P", "W"}) ELSE Absent
       /\ \A h \in Frames \cup {kpt, Pdpt} : h # upt => entry'[h] = entry[h]
  <2>1. entry \in [Frames \cup {kpt, Pdpt} -> [Indices -> Entries]]
    BY <1>2 DEF TableTypes
  <2>2. PICK z : z = [i \in Indices |-> IF Kernel(i) THEN entry[kpt][i] ELSE Zeroed(upt)[i]]
    OBVIOUS
  <2>3. /\ z \in [Indices -> Entries]
        /\ \A i \in Indices : z[i] = IF Kernel(i) THEN Entry(Pdpt, {"P", "W"}) ELSE Absent
    <3>1. \A i \in Indices : Zeroed(upt)[i] = Absent
      BY DEF Zeroed
    <3>2. \A i \in Indices : z[i] = IF Kernel(i) THEN Entry(Pdpt, {"P", "W"}) ELSE Absent
      BY <1>2, <2>2, <3>1 DEF TableTypes, Kernel
    <3>3. Entry(Pdpt, {"P", "W"}) \in Entries /\ Absent \in Entries
      BY EntryIs
    <3> QED
      BY <2>2, <3>2, <3>3
  <2>4. entry' = [entry EXCEPT ![upt] = z]
    BY <1>5, <2>2
  <2> QED
    BY <1>8, <2>1, <2>3, <2>4
<1>11. OnePath(free', m)
  <2> SUFFICES ASSUME NEW g \in Used(free'), NEW h \in Used(free'),
                      Reaches(m, h, m[g].own, m[g].path, m[g].dep)
               PROVE  g = h
    BY DEF OnePath
  <2>1. m[h].own = m[g].own
    BY DEF Reaches
  <2>2. CASE g \in Used(free) /\ h \in Used(free)
    <3>1. Reaches(m, h, n[g].own, n[g].path, n[g].dep)
      BY <1>9, <2>2
    <3>2. Reaches(n, h, n[g].own, n[g].path, n[g].dep)
      BY <1>9, <2>2, <3>1
    <3> QED
      BY <1>2, <2>2, <3>2 DEF OnePath
  <2>3. \A k \in Used(free) : m[k].own \in protected
    BY <1>2, <1>9 DEF Roots
  <2> QED
    BY <1>3, <1>8, <1>9, <2>1, <2>2, <2>3
<1>12. \A h, g \in Used(free) : Link(entry, n, h, g) => Link(entry', m, h, g)
  <2> SUFFICES ASSUME NEW h \in Used(free), NEW g \in Used(free), Link(entry, n, h, g)
               PROVE  Link(entry', m, h, g)
    OBVIOUS
  <2>1. entry'[h] = entry[h] /\ m[g] = n[g]
    BY <1>9, <1>10 DEF Used
  <2>2. Reaches(m, h, n[g].own, n[g].path, n[g].dep - 1)
    BY <1>9 DEF Link
  <2> QED
    BY <2>1, <2>2 DEF Link
<1>13. LinksDown(entry', free', m)
  <2> SUFFICES ASSUME NEW h \in Used(free'), NEW j \in Indices, m[h].dep < ptlevels - 1
               PROVE  IF m[h].dep = 0 /\ Kernel(j) THEN entry'[h][j] = Entry(Pdpt, {"P", "W"})
                      ELSE \/ entry'[h][j] = Absent
                           \/ \E g \in Used(free') : m[g].dep > 0 /\ Link(entry', m, h, g)
                                                     /\ m[g].path[m[g].dep] = j
    BY DEF LinksDown
  <2>1. CASE h = upt
    BY <1>9, <1>10, <2>1
  <2>2. CASE h \in Used(free)
    <3>1. entry'[h] = entry[h] /\ m[h] = n[h]
      BY <1>9, <1>10, <2>2 DEF Used
    <3>2. IF n[h].dep = 0 /\ Kernel(j) THEN entry[h][j] = Entry(Pdpt, {"P", "W"})
          ELSE \/ entry[h][j] = Absent
               \/ \E g \in Used(free) : n[g].dep > 0 /\ Link(entry, n, h, g)
                                        /\ n[g].path[n[g].dep] = j
      BY <1>2, <2>2, <3>1 DEF LinksDown
    <3>3. ASSUME NEW g \in Used(free), n[g].dep > 0, Link(entry, n, h, g),
                 n[g].path[n[g].dep] = j
          PROVE  \E k \in Used(free') : m[k].dep > 0 /\ Link(entry', m, h, k)
                                        /\ m[k].path[m[k].dep] = j
      <4>1. g \in Used(free') /\ m[g] = n[g] /\ Link(entry', m, h, g)
        BY <1>8, <1>9, <1>12, <2>2, <3>3
      <4> QED
        BY <3>3, <4>1
    <3> QED
      BY <3>1, <3>2, <3>3
  <2> QED
    BY <1>8, <2>1, <2>2
<1>14. LinksUp(entry', free', m)
  <2> SUFFICES ASSUME NEW g \in Used(free'), m[g].dep > 0
               PROVE  \E h \in Used(free') : Link(entry', m, h, g)
    BY DEF LinksUp
  <2>1. g \in Used(free) /\ n[g].dep > 0
    BY <1>8, <1>9
  <2>2. PICK h \in Used(free) : Link(entry, n, h, g)
    BY <1>2, <2>1 DEF LinksUp
  <2> QED
    BY <1>8, <1>12, <2>1, <2>2
<1>15. TableTypes(entry', free')
  <2>1. entry'[kpt] = entry[kpt]
    BY <1>8, <1>10, VmeSizes
  <2> QED
    BY <1>2, <1>5, <1>10, <2>1 DEF TableTypes
<1>16. Roots(ptr', free', protected', m)
  <2>1. ptr \in [AddrSpaces -> Frames \cup {None}] /\ protected \subseteq AddrSpaces
    BY <1>2 DEF Roots
  <2>2. ptr' \in [AddrSpaces -> Frames \cup {None}] /\ protected' \subseteq AddrSpaces
    BY <1>5, <1>8, <2>1
  <2>3. ASSUME NEW a \in protected'
        PROVE  ptr'[a] \in Used(free') /\ m[ptr'[a]].own = a /\ m[ptr'[a]].dep = 0
    <3>1. CASE a = as
      BY <1>5, <1>8, <1>9, <2>1, <3>1
    <3>2. CASE a \in protected /\ a # as
      <4>1. ptr'[a] = ptr[a]
        BY <1>5, <2>1, <3>2
      <4>2. ptr[a] \in Used(free) /\ n[ptr[a]].own = a /\ n[ptr[a]].dep = 0
        BY <1>2, <3>2 DEF Roots
      <4> QED
        BY <1>8, <1>9, <4>1, <4>2
    <3> QED
      BY <1>5, <3>1, <3>2
  <2>4. \A f \in Used(free') : m[f].own \in protected'
    BY <1>2, <1>5, <1>8, <1>9 DEF Roots
  <2> QED
    BY <2>2, <2>3, <2>4 DEF Roots
<1>17. MapTypes(protected', mapped')
  BY <1>2, <1>5 DEF MapTypes
<1>18. Placed(free', mapped', m)
  <2> SUFFICES ASSUME NEW a \in AddrSpaces, NEW v \in DOMAIN mapped[a]
               PROVE  \E g \in Used(free') : Reaches(m, g, a, v, ptlevels - 1)
    BY <1>5 DEF Placed
  <2>1. PICK g \in Used(free) : Reaches(n, g, a, v, ptlevels - 1)
    BY <1>2 DEF Placed
  <2> QED
    BY <1>8, <1>9, <2>1
<1>19. Leaves(entry', free', mapped', m)
  <2> SUFFICES ASSUME NEW h \in Used(free'), NEW v \in Addresses,
                      Reaches(m, h, m[h].own, v, ptlevels - 1)
               PROVE  entry'[h][v[ptlevels]] =
                        IF v \in DOMAIN mapped[m[h].own] THEN mapped[m[h].own][v] ELSE Absent
    BY <1>5 DEF Leaves
  <2>1. h # upt
    <3>1. m[h].dep = ptlevels - 1
      BY DEF Reaches
    <3> QED
      BY <1>9, <3>1, VmeSizes
  <2>2. h \in Used(free) /\ m[h] = n[h] /\ entry'[h] = entry[h]
    BY <1>8, <1>9, <1>10, <2>1 DEF Used
  <2>3. Reaches(m, h, n[h].own, v, ptlevels - 1)
    BY <2>2
  <2>4. Reaches(n, h, n[h].own, v, ptlevels - 1)
    BY <1>9, <2>2, <2>3
  <2> QED
    BY <1>2, <2>2, <2>4 DEF Leaves
<1>20. Trees(ptr', entry', free', protected', mapped', m)
  BY <1>9, <1>11, <1>13, <1>14, <1>15, <1>16, <1>17, <1>18, <1>19 DEF Trees
<1> QED
  BY <1>20 DEF VmeInv

LEMMA MapInv ==
  ASSUME VmeInv, NEW as \in AddrSpaces, NEW va \in uvm_area, NEW pa \in Physical,
         NEW prot \in Prots, map(as, va, pa, prot)
  PROVE  VmeInv'
<1> DEFINE w == ptwalk(as, va, {"W", "U"})
<1>1. as \in protected /\ va \in Addresses /\ w.pt # None
  BY DEF map, uvm_area
<1>2. PICK n0 : Trees(ptr, entry, free, protected, mapped, n0)
  BY DEF VmeInv
<1>3. On(w, ptr, protected, mapped, as, va, ptlevels - 1)
  BY <1>1, <1>2, WalkOn
<1>4. PICK n : /\ Trees(ptr, w.entry, w.free, protected, mapped, n)
               /\ w.pt \in Used(w.free) /\ Reaches(n, w.pt, as, va, ptlevels - 1)
  BY <1>1, <1>3 DEF On
<1>5. PICK f, E, F : f = w.pt /\ E = w.entry /\ F = w.free
  OBVIOUS
<1>6. /\ Trees(ptr, E, F, protected, mapped, n)
      /\ f \in Used(F) /\ Reaches(n, f, as, va, ptlevels - 1)
  BY <1>4, <1>5
<1>7. PICK new : new = IF prot = "MMAP_NONE" THEN Absent
                       ELSE Entry(pa, {"P", "U"} \cup IF prot = "MMAP_WRITE" THEN {"W"} ELSE {})
  OBVIOUS
<1>8. PICK j \in Indices : j = va[ptlevels]
  BY <1>1, VmeSizes DEF Addresses
<1>9. /\ free' = F
      /\ entry' = [E EXCEPT ![f][j] = new]
      /\ mapped' = [mapped EXCEPT ![as] =
             [a \in IF prot = "MMAP_NONE" THEN DOMAIN @ \ {va} ELSE DOMAIN @ \cup {va} |->
                IF a = va THEN new ELSE @[a]]]
      /\ ptr' = ptr /\ protected' = protected
  BY <1>5, <1>7, <1>8 DEF map
<1>10. /\ n \in [Used(F) -> Nodes] /\ TableTypes(E, F) /\ OnePath(F, n)
       /\ LinksDown(E, F, n) /\ LinksUp(E, F, n)
       /\ Roots(ptr, F, protected, n) /\ MapTypes(protected, mapped)
       /\ Leaves(E, F, mapped, n) /\ Placed(F, mapped, n)
  BY <1>6 DEF Trees
<1>11. /\ new \in Entries
       /\ prot = "MMAP_NONE" => new = Absent
       /\ prot # "MMAP_NONE" => "P" \in new.flags
  <2>1. CASE prot = "MMAP_NONE"
    BY <1>7, <2>1, EntryIs
  <2>2. CASE prot # "MMAP_NONE"
    <3>1. PICK fl \in SUBSET All : new = Entry(pa, fl) /\ "P" \in fl
      BY <1>7, <2>2 DEF All
    <3>2. pa \in Pages
      BY DEF Pages
    <3> QED
      BY <2>2, <3>1, <3>2, EntryIs
  <2> QED
    BY <2>1, <2>2
<1>12. /\ entry' \in [Frames \cup {kpt, Pdpt} -> [Indices -> Entries]]
       /\ entry'[f][j] = new
       /\ \A h \in Frames \cup {kpt, Pdpt}, i \in Indices :
            ~(h = f /\ i = j) => entry'[h][i] = E[h][i]
  <2>1. E \in [Frames \cup {kpt, Pdpt} -> [Indices -> Entries]] /\ f \in Frames
    BY <1>6, <1>10 DEF TableTypes, Used
  <2> QED
    BY <1>9, <1>11, <2>1
<1>13. n[f].own = as /\ n[f].dep = ptlevels - 1 /\ \A k \in 1 .. ptlevels - 1 : n[f].path[k] = va[k]
  BY <1>6 DEF Reaches
<1>14. /\ DOMAIN mapped' = AddrSpaces
       /\ \A a \in AddrSpaces : a # as => mapped'[a] = mapped[a]
       /\ \A v : v # va => /\ v \in DOMAIN mapped'[as] <=> v \in DOMAIN mapped[as]
                           /\ v \in DOMAIN mapped[as] => mapped'[as][v] = mapped[as][v]
       /\ IF prot = "MMAP_NONE" THEN va \notin DOMAIN mapped'[as]
          ELSE va \in DOMAIN mapped'[as] /\ mapped'[as][va] = new
  <2>1. DOMAIN mapped = AddrSpaces
    BY <1>10 DEF MapTypes
  <2>2. PICK D : D = IF prot = "MMAP_NONE" THEN DOMAIN mapped[as] \ {va}
                     ELSE DOMAIN mapped[as] \cup {va}
    OBVIOUS
  <2>3. DOMAIN mapped' = AddrSpaces /\ \A a \in AddrSpaces : a # as => mapped'[a] = mapped[a]
    BY <1>9, <2>1
  <2>4. mapped'[as] = [a \in D |-> IF a = va THEN new ELSE mapped[as][a]]
    BY <1>9, <2>1, <2>2
  <2> QED
    BY <2>2, <2>3, <2>4
<1>15. TableTypes(entry', F)
  <2>1. kpt # f
    BY <1>6, VmeSizes DEF Used
  <2>2. entry'[kpt][0] = E[kpt][0]
    BY <1>12, <2>1, VmeSizes
  <2> QED
    BY <1>10, <1>12, <2>2 DEF TableTypes
<1>16. \A h \in Used(F), i \in Indices : n[h].dep < ptlevels - 1 => entry'[h][i] = E[h][i]
  <2> SUFFICES ASSUME NEW h \in Used(F), NEW i \in Indices, n[h].dep < ptlevels - 1
               PROVE  entry'[h][i] = E[h][i]
    OBVIOUS
  <2>1. h # f
    BY <1>13, VmeSizes
  <2> QED
    BY <1>12, <2>1 DEF Used
<1>17. \A h, g \in Used(F) : n[g].dep > 0 /\ Link(E, n, h, g) => Link(entry', n, h, g)
  <2> SUFFICES ASSUME NEW h \in Used(F), NEW g \in Used(F), n[g].dep > 0, Link(E, n, h, g)
               PROVE  Link(entry', n, h, g)
    OBVIOUS
  <2>1. n[g].dep \in 1 .. ptlevels - 1 /\ n[g].path \in Addresses
    BY <1>10, NodeTypes, VmeSizes
  <2>2. n[h].dep < ptlevels - 1 /\ n[g].path[n[g].dep] \in Indices
    BY <2>1, VmeSizes DEF Link, Reaches, Addresses
  <2> QED
    BY <1>16, <2>2 DEF Link
<1>18. LinksDown(entry', F, n)
  <2> SUFFICES ASSUME NEW h \in Used(F), NEW i \in Indices, n[h].dep < ptlevels - 1
               PROVE  IF n[h].dep = 0 /\ Kernel(i) THEN entry'[h][i] = Entry(Pdpt, {"P", "W"})
                      ELSE \/ entry'[h][i] = Absent
                           \/ \E g \in Used(F) : n[g].dep > 0 /\ Link(entry', n, h, g)
                                                 /\ n[g].path[n[g].dep] = i
    BY DEF LinksDown
  <2>1. IF n[h].dep = 0 /\ Kernel(i) THEN E[h][i] = Entry(Pdpt, {"P", "W"})
        ELSE \/ E[h][i] = Absent
             \/ \E g \in Used(F) : n[g].dep > 0 /\ Link(E, n, h, g) /\ n[g].path[n[g].dep] = i
    BY <1>10 DEF LinksDown
  <2> QED
    BY <1>16, <1>17, <2>1
<1>19. LinksUp(entry', F, n)
  BY <1>10, <1>17 DEF LinksUp
<1>20. MapTypes(protected, mapped')
  <2> SUFFICES ASSUME NEW a \in AddrSpaces
               PROVE  /\ DOMAIN mapped'[a] \subseteq uvm_area
                      /\ \A v \in DOMAIN mapped'[a] :
                           mapped'[a][v] \in Entries /\ "P" \in mapped'[a][v].flags
                      /\ a \notin protected => DOMAIN mapped'[a] = {}
    BY <1>14 DEF MapTypes
  <2>1. /\ DOMAIN mapped[a] \subseteq uvm_area
        /\ \A v \in DOMAIN mapped[a] : mapped[a][v] \in Entries /\ "P" \in mapped[a][v].flags
        /\ a \notin protected => DOMAIN mapped[a] = {}
    BY <1>10 DEF MapTypes
  <2>2. CASE a # as
    BY <1>14, <2>1, <2>2
  <2>3. CASE a = as
    <3>1. DOMAIN mapped'[as] \subseteq uvm_area
      BY <1>14, <2>1, <2>3
    <3>2. ASSUME NEW v \in DOMAIN mapped'[as]
          PROVE  mapped'[as][v] \in Entries /\ "P" \in mapped'[as][v].flags
      <4>1. CASE v = va
        BY <1>11, <1>14, <3>2, <4>1
      <4>2. CASE v # va
        BY <1>14, <2>1, <2>3, <3>2, <4>2
      <4> QED
        BY <4>1, <4>2
    <3> QED
      BY <1>1, <2>3, <3>1, <3>2
  <2> QED
    BY <2>2, <2>3
<1>21. Placed(F, mapped', n)
  <2> SUFFICES ASSUME NEW a \in AddrSpaces, NEW v \in DOMAIN mapped'[a]
               PROVE  \E g \in Used(F) : Reaches(n, g, a, v, ptlevels - 1)
    BY DEF Placed
  <2>1. CASE a = as /\ v = va
    BY <1>6, <2>1
  <2>2. CASE ~(a = as /\ v = va)
    <3>1. v \in DOMAIN mapped[a]
      BY <1>14, <2>2
    <3> QED
      BY <1>10, <3>1 DEF Placed
  <2> QED
    BY <2>1, <2>2
<1>22. Leaves(entry', F, mapped', n)
  <2> SUFFICES ASSUME NEW h \in Used(F), NEW v \in Addresses,
                      Reaches(n, h, n[h].own, v, ptlevels - 1)
               PROVE  entry'[h][v[ptlevels]] =
                        IF v \in DOMAIN mapped'[n[h].own] THEN mapped'[n[h].own][v] ELSE Absent
    BY DEF Leaves
  <2>1. E[h][v[ptlevels]] = IF v \in DOMAIN mapped[n[h].own] THEN mapped[n[h].own][v] ELSE Absent
    BY <1>10 DEF Leaves
  <2>2. v[ptlevels] \in Indices /\ h \in Frames /\ n[h].own \in AddrSpaces
    <3>1. v[ptlevels] \in Indices
      BY VmeSizes DEF Addresses
    <3>2. n[h].own \in AddrSpaces
      BY <1>10, NodeTypes
    <3> QED
      BY <3>1, <3>2 DEF Used
  <2>3. \A k \in 1 .. ptlevels - 1 : n[h].path[k] = v[k]
    BY DEF Reaches
  <2>4. CASE h = f
    <3>1. v = va <=> v[ptlevels] = j
      <4>1. ASSUME v[ptlevels] = j PROVE v = va
        <5>1. \A k \in 1 .. ptlevels - 1 : v[k] = va[k]
          BY <1>13, <2>3, <2>4
        <5>2. \A k \in 1 .. ptlevels : k = ptlevels \/ k \in 1 .. ptlevels - 1
          BY VmeSizes
        <5>3. \A k \in 1 .. ptlevels : v[k] = va[k]
          BY <1>8, <4>1, <5>1, <5>2
        <5>4. v \in [1 .. ptlevels -> Indices] /\ va \in [1 .. ptlevels -> Indices]
          BY <1>1 DEF Addresses
        <5>5. /\ v = [k \in 1 .. ptlevels |-> v[k]]
              /\ va = [k \in 1 .. ptlevels |-> va[k]]
          BY ONLY <5>4, Zenon
        <5> QED
          BY ONLY <5>3, <5>5, Zenon
      <4> QED
        BY <1>8, <4>1
    <3>2. CASE v = va
      BY <1>8, <1>11, <1>12, <1>13, <1>14, <2>4, <3>2
    <3>3. CASE v # va
      <4>1. entry'[h][v[ptlevels]] = E[h][v[ptlevels]]
        BY <1>12, <2>2, <3>1, <3>3
      <4>2. n[h].own = as
        BY <1>13, <2>4
      <4> QED
        BY <1>14, <2>1, <3>3, <4>1, <4>2
    <3> QED
      BY <3>2, <3>3
  <2>5. CASE h # f
    <3>1. entry'[h][v[ptlevels]] = E[h][v[ptlevels]]
      BY <1>12, <2>2, <2>5
    <3>2. ~(n[h].own = as /\ v = va)
      <4>1. ASSUME n[h].own = as, v = va PROVE FALSE
        <5>1. Reaches(n, h, n[f].own, n[f].path, n[f].dep)
          BY <1>13, <4>1 DEF Reaches
        <5> QED
          BY <1>6, <1>10, <2>5, <5>1 DEF OnePath
      <4> QED
        BY <4>1
    <3> QED
      BY <1>14, <2>1, <2>2, <3>1, <3>2
  <2> QED
    BY <2>4, <2>5
<1>23. Trees(ptr', entry', free', protected', mapped', n)
  BY <1>9, <1>10, <1>15, <1>18, <1>19, <1>20, <1>21, <1>22 DEF Trees
<1> QED
  BY <1>23 DEF VmeInv

TornTables(c, as) ==
  /\ c[0] = {ptr[as]}
  /\ \A i \in 1 .. ptlevels - 1 : c[i] = TornBelow(c[i - 1])

LEMMA TeardownDef ==
  ASSUME NEW as
  PROVE  \E c : teardown(1, ptr[as]) = UNION {c[d] : d \in 0 .. ptlevels - 1} /\ TornTables(c, as)
<1> DEFINE start == {ptr[as]}
           Is(c, m) == c = [i \in 0 .. m |-> IF i = 0 THEN start ELSE TornBelow(c[i - 1])]
           S == {m \in Nat : \E c : Is(c, m)}
<1>1. 0 \in S
  <2>1. Is([i \in 0 .. 0 |-> start], 0)
    OBVIOUS
  <2> HIDE DEF Is
  <2> QED
    BY <2>1
<1>2. ASSUME NEW m \in 0 .. (ptlevels - 1) - 1, m \in S PROVE m + 1 \in S
  <2>1. PICK c : Is(c, m)
    BY <1>2
  <2>2. PICK x : x = [i \in 0 .. m + 1 |-> IF i = 0 THEN start ELSE TornBelow(c[i - 1])]
    OBVIOUS
  <2>3. \A i \in 0 .. m : x[i] = c[i]
    <3> HIDE DEF start
    <3> QED
      BY <2>1, <2>2
  <2>4. \A i \in 0 .. m + 1 : i # 0 => x[i - 1] = c[i - 1]
    BY <2>3
  <2>5. Is(x, m + 1)
    <3> HIDE DEF start
    <3> QED
      BY <2>2, <2>4
  <2> HIDE DEF Is
  <2>6. m + 1 \in Nat /\ \E y : Is(y, m + 1)
    BY <2>5
  <2> QED
    BY <2>6
<1>3. ptlevels - 1 \in S
  <2> HIDE DEF S
  <2>1. ptlevels - 1 \in Nat
    BY VmeSizes
  <2> QED
    BY <1>1, <1>2, <2>1, UpTo
<1>4. \E c : Is(c, ptlevels - 1)
  BY <1>3
<1>5. PICK c : c = CHOOSE x : Is(x, ptlevels - 1)
  OBVIOUS
<1>6. Is(c, ptlevels - 1)
  <2> HIDE DEF Is
  <2> QED
    BY <1>4, <1>5
<1>7. teardown(1, ptr[as]) = UNION {c[d] : d \in 0 .. ptlevels - 1}
  BY <1>5 DEF teardown
<1>8. TornTables(c, as)
  <2>1. PICK s : s = start
    OBVIOUS
  <2>2. c = [i \in 0 .. ptlevels - 1 |-> IF i = 0 THEN s ELSE TornBelow(c[i - 1])]
    BY <1>6, <2>1
  <2>3. 0 \in 0 .. ptlevels - 1 /\ \A i \in 1 .. ptlevels - 1 : i \in 0 .. ptlevels - 1 /\ i # 0
    BY VmeSizes
  <2>4. c[0] = s
    BY <2>2, <2>3
  <2>5. \A i \in 1 .. ptlevels - 1 : c[i] = TornBelow(c[i - 1])
    BY <2>2, <2>3
  <2> QED
    BY <2>1, <2>4, <2>5 DEF TornTables
<1> QED
  BY <1>7, <1>8

(* The tables of a space at one depth, and down to a depth. *)
TablesAt(F, n, as, d) == {f \in Used(F) : n[f].own = as /\ n[f].dep = d}
TablesDownTo(F, n, as, d) == {f \in Used(F) : n[f].own = as /\ n[f].dep <= d}

LEMMA TheRoot ==
  ASSUME NEW n, Trees(ptr, entry, free, protected, mapped, n), NEW as \in protected
  PROVE  /\ TablesAt(free, n, as, 0) = {ptr[as]}
         /\ TablesDownTo(free, n, as, 0) = {ptr[as]}
<1>1. /\ n \in [Used(free) -> Nodes] /\ OnePath(free, n) /\ Roots(ptr, free, protected, n)
  BY DEF Trees
<1>2. ptr[as] \in Used(free) /\ n[ptr[as]].own = as /\ n[ptr[as]].dep = 0
  BY <1>1 DEF Roots
<1>3. ASSUME NEW f \in Used(free), n[f].own = as, n[f].dep = 0 PROVE f = ptr[as]
  <2>1. Reaches(n, f, n[ptr[as]].own, n[ptr[as]].path, n[ptr[as]].dep)
    BY <1>2, <1>3 DEF Reaches
  <2> QED
    BY <1>1, <1>2, <2>1 DEF OnePath
<1>4. \A f \in Used(free) : n[f].dep \in 0 .. ptlevels - 1
  BY <1>1, NodeTypes
<1>5. \A f \in Used(free) : n[f].dep <= 0 <=> n[f].dep = 0
  BY <1>4, VmeSizes
<1>6. TablesAt(free, n, as, 0) = {ptr[as]}
  BY <1>2, <1>3 DEF TablesAt
<1>7. TablesDownTo(free, n, as, 0) = {f \in Used(free) : n[f].own = as /\ n[f].dep = 0}
  BY <1>5, Zenon DEF TablesDownTo
<1> QED
  BY <1>6, <1>7 DEF TablesAt

(* What a table that is not of the last level points at. *)
LEMMA PointsAt ==
  ASSUME NEW n, Trees(ptr, entry, free, protected, mapped, n),
         NEW f \in Used(free), NEW j \in Indices, n[f].dep < ptlevels - 1
  PROVE  \/ entry[f][j] = Entry(Pdpt, {"P", "W"})
         \/ entry[f][j] = Absent
         \/ \E g \in Used(free) : /\ entry[f][j] = Entry(g, All)
                                  /\ n[g].own = n[f].own /\ n[g].dep = n[f].dep + 1
<1>1. n \in [Used(free) -> Nodes] /\ LinksDown(entry, free, n)
  BY DEF Trees
<1>2. IF n[f].dep = 0 /\ Kernel(j) THEN entry[f][j] = Entry(Pdpt, {"P", "W"})
      ELSE \/ entry[f][j] = Absent
           \/ \E h \in Used(free) : n[h].dep > 0 /\ Link(entry, n, f, h)
                                    /\ n[h].path[n[h].dep] = j
  BY <1>1 DEF LinksDown
<1>3. ASSUME NEW h \in Used(free), Link(entry, n, f, h), n[h].path[n[h].dep] = j
      PROVE  entry[f][j] = Entry(h, All) /\ n[h].own = n[f].own /\ n[h].dep = n[f].dep + 1
  <2>1. n[h].dep \in Nat
    BY <1>1, NodeTypes, VmeSizes
  <2>2. n[f].own = n[h].own /\ n[f].dep = n[h].dep - 1
    BY <1>3 DEF Link, Reaches
  <2>3. entry[f][j] = Entry(h, All)
    BY <1>3 DEF Link
  <2> QED
    BY <2>1, <2>2, <2>3
<1> QED
  BY <1>2, <1>3

(* The entry that points at a table. *)
LEMMA PointedAt ==
  ASSUME NEW n, Trees(ptr, entry, free, protected, mapped, n),
         NEW g \in Used(free), n[g].dep > 0
  PROVE  \E f \in Used(free), j \in Indices :
           entry[f][j] = Entry(g, All) /\ n[f].own = n[g].own /\ n[f].dep = n[g].dep - 1
<1>1. n \in [Used(free) -> Nodes] /\ LinksUp(entry, free, n)
  BY DEF Trees
<1>2. PICK f \in Used(free) : Link(entry, n, f, g)
  BY <1>1 DEF LinksUp
<1>3. n[g].dep \in 1 .. ptlevels /\ n[g].path \in Addresses
  BY <1>1, NodeTypes, VmeSizes
<1>4. PICK j \in Indices : j = n[g].path[n[g].dep]
  BY <1>3 DEF Addresses
<1>5. entry[f][j] = Entry(g, All)
  BY <1>2, <1>4 DEF Link
<1>6. n[f].own = n[g].own /\ n[f].dep = n[g].dep - 1
  BY <1>2 DEF Link, Reaches
<1> QED
  BY <1>5, <1>6

LEMMA InTornBelow ==
  ASSUME NEW T, NEW f \in T, NEW j \in Indices, Torn(entry[f][j])
  PROVE  entry[f][j].page \in TornBelow(T)
<1>1. PICK R : R = {entry[f][i].page : i \in {k \in Indices : Torn(entry[f][k])}}
  OBVIOUS
<1>2. entry[f][j].page \in R
  BY <1>1
<1>3. R \in {{entry[p][i].page : i \in {k \in Indices : Torn(entry[p][k])}} : p \in T}
  BY <1>1
<1> QED
  BY <1>2, <1>3 DEF TornBelow

LEMMA TornIs ==
  ASSUME NEW n, Trees(ptr, entry, free, protected, mapped, n), NEW as \in protected,
         NEW d \in 0 .. (ptlevels - 1) - 1
  PROVE  TornBelow(TablesAt(free, n, as, d)) = TablesAt(free, n, as, d + 1)
<1> PICK T : T = TablesAt(free, n, as, d)
  OBVIOUS
<1>1. \A f : f \in T <=> f \in Used(free) /\ n[f].own = as /\ n[f].dep = d
  BY DEF TablesAt
<1>2. \A f : f \in TablesAt(free, n, as, d + 1)
             <=> f \in Used(free) /\ n[f].own = as /\ n[f].dep = d + 1
  BY DEF TablesAt
<1>3. d \in Nat /\ d < ptlevels - 1 /\ d + 1 > 0 /\ (d + 1) - 1 = d
  BY VmeSizes
<1>4. ASSUME NEW g \in TornBelow(T) PROVE g \in TablesAt(free, n, as, d + 1)
  <2>1. PICK f \in T, j \in Indices : Torn(entry[f][j]) /\ g = entry[f][j].page
    <3>1. PICK f \in T : g \in {entry[f][i].page : i \in {k \in Indices : Torn(entry[f][k])}}
      BY <1>4, Zenon DEF TornBelow
    <3>2. PICK j \in {k \in Indices : Torn(entry[f][k])} : g = entry[f][j].page
      BY <3>1
    <3> QED
      BY <3>2
  <2>2. f \in Used(free) /\ n[f].own = as /\ n[f].dep = d /\ n[f].dep < ptlevels - 1
    BY <1>1, <1>3, <2>1
  <2>3. entry[f][j] # Entry(Pdpt, {"P", "W"}) /\ entry[f][j] # Absent
    BY <2>1, EntryIs DEF Torn
  <2>4. PICK h \in Used(free) : entry[f][j] = Entry(h, All)
                                /\ n[h].own = n[f].own /\ n[h].dep = n[f].dep + 1
    BY <2>2, <2>3, PointsAt
  <2>5. g = h
    BY <2>1, <2>4, EntryIs
  <2>6. g \in Used(free) /\ n[g].own = as /\ n[g].dep = d + 1
    BY <2>2, <2>4, <2>5
  <2> QED
    BY <2>6, <1>2
<1>5. ASSUME NEW g \in TablesAt(free, n, as, d + 1) PROVE g \in TornBelow(T)
  <2>1. g \in Used(free) /\ n[g].own = as /\ n[g].dep = d + 1
    BY <1>2
  <2>2. n[g].dep > 0
    BY <1>3, <2>1
  <2>3. PICK f \in Used(free), j \in Indices :
          entry[f][j] = Entry(g, All) /\ n[f].own = n[g].own /\ n[f].dep = n[g].dep - 1
    BY <2>1, <2>2, PointedAt
  <2>4. f \in T
    <3>1. n[f].own = as /\ n[f].dep = d
      BY <1>3, <2>1, <2>3
    <3> QED
      BY <1>1, <3>1
  <2>5. Torn(entry[f][j]) /\ entry[f][j].page = g
    BY <2>3, EntryIs DEF Torn, All
  <2> QED
    BY <2>4, <2>5, InTornBelow
<1> QED
  BY <1>4, <1>5

DownTo(X, F, n, as, d) == X \cap Frames = TablesDownTo(F, n, as, d)

LEMMA LinkedIs ==
  ASSUME NEW n, Trees(ptr, entry, free, protected, mapped, n), NEW as \in protected,
         NEW d \in 0 .. (ptlevels - 1) - 1, NEW X, DownTo(X, free, n, as, d)
  PROVE  DownTo(X \cup LinkedFrom(X), free, n, as, d + 1)
<1> PICK T : T = TablesDownTo(free, n, as, d)
  OBVIOUS
<1>1. \A f : f \in T <=> f \in Used(free) /\ n[f].own = as /\ n[f].dep <= d
  BY DEF TablesDownTo
<1>2. \A f : f \in TablesDownTo(free, n, as, d + 1)
             <=> f \in Used(free) /\ n[f].own = as /\ n[f].dep <= d + 1
  BY DEF TablesDownTo
<1>3. d \in Nat /\ d < ptlevels - 1 /\ d + 1 > 0 /\ (d + 1) - 1 = d
  BY VmeSizes
<1>4. X \cap Frames = T
  BY DEF DownTo
<1>5. \A f \in Used(free) : f \in Frames /\ n[f].dep \in Nat
  <2>1. n \in [Used(free) -> Nodes]
    BY DEF Trees
  <2> QED
    BY <2>1, NodeTypes, VmeSizes DEF Used
<1>6. ASSUME NEW g \in X \cap Frames PROVE g \in TablesDownTo(free, n, as, d + 1)
  <2>1. g \in Used(free) /\ n[g].own = as /\ n[g].dep <= d
    BY <1>1, <1>4
  <2>2. n[g].dep <= d + 1
    BY <1>3, <1>5, <2>1
  <2> QED
    BY <1>2, <2>1, <2>2
<1>7. ASSUME NEW g \in LinkedFrom(X), g \in Frames PROVE g \in TablesDownTo(free, n, as, d + 1)
  <2>1. PICK f \in T, j \in Indices : g = entry[f][j].page
    <3>1. \E f \in X \cap Frames, j \in Indices : g = entry[f][j].page
      BY <1>7 DEF LinkedFrom
    <3> QED
      BY <1>4, <3>1
  <2>2. f \in Used(free) /\ n[f].own = as /\ n[f].dep <= d
    BY <1>1, <2>1
  <2>3. n[f].dep < ptlevels - 1
    BY <1>3, <1>5, <2>2, VmeSizes
  <2>4. entry[f][j] # Entry(Pdpt, {"P", "W"}) /\ entry[f][j] # Absent
    BY <1>7, <2>1, EntryIs, VmeSizes
  <2>5. PICK h \in Used(free) : entry[f][j] = Entry(h, All)
                                /\ n[h].own = n[f].own /\ n[h].dep = n[f].dep + 1
    BY <2>2, <2>3, <2>4, PointsAt
  <2>6. g = h
    BY <2>1, <2>5, EntryIs
  <2>7. g \in Used(free) /\ n[g].own = as
    BY <2>2, <2>5, <2>6
  <2>8. n[g].dep <= d + 1
    BY <1>3, <1>5, <2>2, <2>5, <2>6
  <2> QED
    BY <1>2, <2>7, <2>8
<1>8. ASSUME NEW g \in TablesDownTo(free, n, as, d + 1)
      PROVE  g \in (X \cup LinkedFrom(X)) /\ g \in Frames
  <2>1. g \in Used(free) /\ n[g].own = as /\ n[g].dep <= d + 1 /\ g \in Frames
    BY <1>2, <1>5
  <2>2. CASE n[g].dep <= d
    <3>1. g \in T
      BY <1>1, <2>1, <2>2
    <3> QED
      BY <1>4, <2>1, <3>1
  <2>3. CASE n[g].dep = d + 1
    <3>1. n[g].dep > 0
      BY <1>3, <2>3
    <3>2. PICK f \in Used(free), j \in Indices :
            entry[f][j] = Entry(g, All) /\ n[f].own = n[g].own /\ n[f].dep = n[g].dep - 1
      BY <2>1, <3>1, PointedAt
    <3>3. n[f].own = as /\ n[f].dep <= d
      BY <1>3, <2>1, <2>3, <3>2
    <3>4. f \in X /\ f \in Frames
      BY <1>1, <1>4, <3>3
    <3>5. entry[f][j].page = g
      BY <3>2, EntryIs
    <3>6. g \in LinkedFrom(X)
      BY <3>4, <3>5 DEF LinkedFrom
    <3> QED
      BY <2>1, <3>6
  <2>4. n[g].dep <= d \/ n[g].dep = d + 1
    BY <1>3, <1>5, <2>1
  <2> QED
    BY <2>2, <2>3, <2>4
<1>9. (X \cup LinkedFrom(X)) \cap Frames = TablesDownTo(free, n, as, d + 1)
  BY <1>6, <1>7, <1>8
<1> QED
  BY <1>9 DEF DownTo

(* teardown frees the tables of the space, each once. *)
LEMMA TeardownIs ==
  ASSUME NEW n, Trees(ptr, entry, free, protected, mapped, n), NEW as \in protected
  PROVE  teardown(1, ptr[as]) = {f \in Used(free) : n[f].own = as}
<1> PICK c : teardown(1, ptr[as]) = UNION {c[d] : d \in 0 .. ptlevels - 1} /\ TornTables(c, as)
  BY TeardownDef
<1> DEFINE S == {d \in Nat : c[d] = TablesAt(free, n, as, d)}
<1>1. 0 \in S
  BY TheRoot DEF TornTables
<1>2. ASSUME NEW d \in 0 .. (ptlevels - 1) - 1, d \in S PROVE d + 1 \in S
  <2>1. d + 1 \in 1 .. ptlevels - 1 /\ (d + 1) - 1 = d /\ d + 1 \in Nat
    BY VmeSizes
  <2>2. c[d + 1] = TornBelow(c[d])
    BY <2>1 DEF TornTables
  <2>3. c[d] = TablesAt(free, n, as, d)
    BY <1>2
  <2>4. c[d + 1] = TablesAt(free, n, as, d + 1)
    BY <2>2, <2>3, TornIs
  <2> QED
    BY <2>1, <2>4
<1>3. \A d \in 0 .. ptlevels - 1 : d \in S
  <2> HIDE DEF S
  <2>1. ptlevels - 1 \in Nat
    BY VmeSizes
  <2> QED
    BY <1>1, <1>2, <2>1, UpTo
<1>4. \A d \in 0 .. ptlevels - 1 : c[d] = TablesAt(free, n, as, d)
  BY <1>3
<1>5. \A f \in Used(free) : n[f].dep \in 0 .. ptlevels - 1
  BY NodeTypes DEF Trees
<1>6. \A d \in 0 .. ptlevels - 1 : \A f : f \in c[d] <=> f \in Used(free) /\ n[f].own = as /\ n[f].dep = d
  BY <1>4 DEF TablesAt
<1>7. \A f : f \in UNION {c[d] : d \in 0 .. ptlevels - 1} <=> \E d \in 0 .. ptlevels - 1 : f \in c[d]
  OBVIOUS
<1>8. \A f : f \in UNION {c[d] : d \in 0 .. ptlevels - 1} <=> f \in Used(free) /\ n[f].own = as
  <2>1. ASSUME NEW f, NEW d \in 0 .. ptlevels - 1, f \in c[d]
        PROVE  f \in Used(free) /\ n[f].own = as
    BY <1>6, <2>1
  <2>2. ASSUME NEW f \in Used(free), n[f].own = as
        PROVE  \E d \in 0 .. ptlevels - 1 : f \in c[d]
    <3>1. f \in c[n[f].dep]
      BY <1>5, <1>6, <2>2
    <3> QED
      BY <1>5, <3>1
  <2> QED
    BY <1>7, <2>1, <2>2
<1> QED
  BY <1>8

LEMMA UnprotectInv ==
  ASSUME VmeInv, NEW as \in AddrSpaces, unprotect(as)
  PROVE  VmeInv'
<1>1. PICK n : Trees(ptr, entry, free, protected, mapped, n)
  BY DEF VmeInv
<1>2. /\ n \in [Used(free) -> Nodes] /\ TableTypes(entry, free) /\ OnePath(free, n)
      /\ LinksDown(entry, free, n) /\ LinksUp(entry, free, n)
      /\ Roots(ptr, free, protected, n) /\ MapTypes(protected, mapped)
      /\ Leaves(entry, free, mapped, n) /\ Placed(free, mapped, n)
  BY <1>1 DEF Trees
<1>3. as \in protected
  BY DEF unprotect
<1>4. PICK freed : freed = {f \in Used(free) : n[f].own = as}
  OBVIOUS
<1>5. /\ free' = free \cup freed
      /\ entry' = [f \in DOMAIN entry |-> IF f \in freed THEN Garbage ELSE entry[f]]
      /\ protected' = protected \ {as} /\ mapped' = [mapped EXCEPT ![as] = NoPages]
      /\ ptr' = ptr
  <2>1. teardown(1, ptr[as]) = freed
    BY <1>1, <1>3, <1>4, TeardownIs
  <2> QED
    BY <2>1 DEF unprotect
<1>6. PICK m : m = [f \in Used(free') |-> n[f]]
  OBVIOUS
<1>7. /\ Used(free') = {f \in Used(free) : n[f].own # as}
      /\ m \in [Used(free') -> Nodes]
      /\ \A f \in Used(free') : m[f] = n[f] /\ f \in Used(free) /\ f \notin freed /\ n[f].own # as
  <2>1. Used(free') = {f \in Used(free) : n[f].own # as}
    BY <1>4, <1>5 DEF Used
  <2> QED
    BY <1>2, <1>4, <1>6, <2>1
<1>8. /\ entry' \in [Frames \cup {kpt, Pdpt} -> [Indices -> Entries]]
      /\ \A f \in Frames \cup {kpt, Pdpt} : f \notin freed => entry'[f] = entry[f]
  <2>1. entry \in [Frames \cup {kpt, Pdpt} -> [Indices -> Entries]]
    BY <1>2 DEF TableTypes
  <2>2. Garbage \in [Indices -> Entries]
    BY EntryIs
  <2>3. DOMAIN entry = Frames \cup {kpt, Pdpt}
    BY <2>1
  <2> QED
    BY <1>5, <2>1, <2>2, <2>3
<1>9. \A f \in Used(free') : \A a, v, d : Reaches(m, f, a, v, d) <=> Reaches(n, f, a, v, d)
  BY <1>7 DEF Reaches
<1>10. OnePath(free', m)
  <2> SUFFICES ASSUME NEW g \in Used(free'), NEW h \in Used(free'),
                      Reaches(m, h, m[g].own, m[g].path, m[g].dep)
               PROVE  g = h
    BY DEF OnePath
  <2>1. Reaches(m, h, n[g].own, n[g].path, n[g].dep)
    BY <1>7
  <2>2. Reaches(n, h, n[g].own, n[g].path, n[g].dep)
    BY <1>9, <2>1
  <2> QED
    BY <1>2, <1>7, <2>2 DEF OnePath
<1>11. \A h, g \in Used(free') : Link(entry, n, h, g) => Link(entry', m, h, g)
  <2> SUFFICES ASSUME NEW h \in Used(free'), NEW g \in Used(free'), Link(entry, n, h, g)
               PROVE  Link(entry', m, h, g)
    OBVIOUS
  <2>1. entry'[h] = entry[h] /\ m[g] = n[g]
    BY <1>7, <1>8 DEF Used
  <2>2. Reaches(m, h, n[g].own, n[g].path, n[g].dep - 1)
    BY <1>9 DEF Link
  <2> QED
    BY <2>1, <2>2 DEF Link
<1>12. LinksDown(entry', free', m)
  <2> SUFFICES ASSUME NEW h \in Used(free'), NEW j \in Indices, m[h].dep < ptlevels - 1
               PROVE  IF m[h].dep = 0 /\ Kernel(j) THEN entry'[h][j] = Entry(Pdpt, {"P", "W"})
                      ELSE \/ entry'[h][j] = Absent
                           \/ \E g \in Used(free') : m[g].dep > 0 /\ Link(entry', m, h, g)
                                                     /\ m[g].path[m[g].dep] = j
    BY DEF LinksDown
  <2>1. h \in Used(free) /\ entry'[h] = entry[h] /\ m[h] = n[h] /\ n[h].own # as
    BY <1>7, <1>8 DEF Used
  <2>2. IF n[h].dep = 0 /\ Kernel(j) THEN entry[h][j] = Entry(Pdpt, {"P", "W"})
        ELSE \/ entry[h][j] = Absent
             \/ \E g \in Used(free) : n[g].dep > 0 /\ Link(entry, n, h, g)
                                      /\ n[g].path[n[g].dep] = j
    BY <1>2, <2>1 DEF LinksDown
  <2>3. ASSUME NEW g \in Used(free), n[g].dep > 0, Link(entry, n, h, g),
               n[g].path[n[g].dep] = j
        PROVE  \E k \in Used(free') : m[k].dep > 0 /\ Link(entry', m, h, k)
                                      /\ m[k].path[m[k].dep] = j
    <3>1. n[g].own # as
      BY <2>1, <2>3 DEF Link, Reaches
    <3>2. g \in Used(free')
      BY <1>7, <3>1
    <3>3. m[g] = n[g] /\ Link(entry', m, h, g)
      BY <1>7, <1>11, <2>3, <3>2
    <3> QED
      BY <2>3, <3>2, <3>3
  <2> QED
    BY <2>1, <2>2, <2>3
<1>13. LinksUp(entry', free', m)
  <2> SUFFICES ASSUME NEW g \in Used(free'), m[g].dep > 0
               PROVE  \E h \in Used(free') : Link(entry', m, h, g)
    BY DEF LinksUp
  <2>1. g \in Used(free) /\ n[g].dep > 0 /\ n[g].own # as
    BY <1>7
  <2>2. PICK h \in Used(free) : Link(entry, n, h, g)
    BY <1>2, <2>1 DEF LinksUp
  <2>3. h \in Used(free')
    BY <1>7, <2>1, <2>2 DEF Link, Reaches
  <2> QED
    BY <1>11, <2>2, <2>3
<1>14. TableTypes(entry', free')
  <2>1. kpt \notin freed
    BY <1>4, VmeSizes DEF Used
  <2>2. entry'[kpt] = entry[kpt]
    BY <1>8, <2>1
  <2>3. free' \subseteq Frames
    BY <1>2, <1>4, <1>5 DEF TableTypes, Used
  <2> QED
    BY <1>2, <1>8, <2>2, <2>3 DEF TableTypes
<1>15. Roots(ptr', free', protected', m)
  <2>1. \A a \in protected' : ptr[a] \in Used(free') /\ m[ptr[a]].own = a /\ m[ptr[a]].dep = 0
    BY <1>2, <1>5, <1>7 DEF Roots
  <2>2. \A f \in Used(free') : m[f].own \in protected'
    BY <1>2, <1>5, <1>7 DEF Roots
  <2> QED
    BY <1>2, <1>5, <2>1, <2>2 DEF Roots
<1>16. /\ DOMAIN mapped' = AddrSpaces /\ DOMAIN mapped'[as] = {}
       /\ \A a \in AddrSpaces : a # as => mapped'[a] = mapped[a]
  BY <1>2, <1>5 DEF MapTypes, NoPages
<1>17. MapTypes(protected', mapped')
  <2> SUFFICES ASSUME NEW a \in AddrSpaces
               PROVE  /\ DOMAIN mapped'[a] \subseteq uvm_area
                      /\ \A va \in DOMAIN mapped'[a] :
                           mapped'[a][va] \in Entries /\ "P" \in mapped'[a][va].flags
                      /\ a \notin protected' => DOMAIN mapped'[a] = {}
    BY <1>16 DEF MapTypes
  <2>1. CASE a = as
    BY <1>16, <2>1
  <2>2. CASE a # as
    BY <1>2, <1>5, <1>16, <2>2 DEF MapTypes
  <2> QED
    BY <2>1, <2>2
<1>18. Placed(free', mapped', m)
  <2> SUFFICES ASSUME NEW a \in AddrSpaces, NEW v \in DOMAIN mapped'[a]
               PROVE  \E g \in Used(free') : Reaches(m, g, a, v, ptlevels - 1)
    BY DEF Placed
  <2>1. a # as /\ v \in DOMAIN mapped[a]
    BY <1>16
  <2>2. PICK g \in Used(free) : Reaches(n, g, a, v, ptlevels - 1)
    BY <1>2, <2>1 DEF Placed
  <2>3. g \in Used(free')
    BY <1>7, <2>1, <2>2 DEF Reaches
  <2> QED
    BY <1>9, <2>2, <2>3
<1>19. Leaves(entry', free', mapped', m)
  <2> SUFFICES ASSUME NEW h \in Used(free'), NEW v \in Addresses,
                      Reaches(m, h, m[h].own, v, ptlevels - 1)
               PROVE  entry'[h][v[ptlevels]] =
                        IF v \in DOMAIN mapped'[m[h].own] THEN mapped'[m[h].own][v] ELSE Absent
    BY DEF Leaves
  <2>1. h \in Used(free) /\ m[h] = n[h] /\ n[h].own # as /\ entry'[h] = entry[h]
    BY <1>7, <1>8 DEF Used
  <2>2. n[h].own \in AddrSpaces
    BY <1>2, <2>1, NodeTypes
  <2>3. mapped'[n[h].own] = mapped[n[h].own]
    BY <1>16, <2>1, <2>2
  <2>4. Reaches(m, h, n[h].own, v, ptlevels - 1)
    BY <2>1
  <2>5. Reaches(n, h, n[h].own, v, ptlevels - 1)
    BY <1>9, <2>4
  <2> QED
    BY <1>2, <2>1, <2>3, <2>5 DEF Leaves
<1>20. Trees(ptr', entry', free', protected', mapped', m)
  BY <1>7, <1>10, <1>12, <1>13, <1>14, <1>15, <1>17, <1>18, <1>19 DEF Trees
<1> QED
  BY <1>20 DEF VmeInv

LEMMA VmeInvariant == VmeSpec => []VmeInv
<1>1. VmeInv /\ [VmeNext]_vmeVars => VmeInv'
  <2>1. VmeInv /\ UNCHANGED vmeVars => VmeInv'
    BY DEF VmeInv, vmeVars
  <2> QED
    BY <2>1, ProtectInv, MapInv, UnprotectInv DEF VmeNext
<1> QED
  BY VmeInitInv, <1>1, PTL DEF VmeSpec

LinkedTables(c, as) ==
  /\ c[0] = {ptr[as]}
  /\ \A i \in 1 .. ptlevels - 1 : c[i] = c[i - 1] \cup LinkedFrom(c[i - 1])

LEMMA TablesDef ==
  ASSUME NEW as
  PROVE  \E c : TablesOf(as) = c[ptlevels - 1] \cap Frames /\ LinkedTables(c, as)
<1> DEFINE start == {ptr[as]}
           next(v) == v \cup LinkedFrom(v)
           Is(c, m) == c = [i \in 0 .. m |-> IF i = 0 THEN start ELSE next(c[i - 1])]
           S == {m \in Nat : \E c : Is(c, m)}
<1>1. 0 \in S
  <2>1. Is([i \in 0 .. 0 |-> start], 0)
    OBVIOUS
  <2> HIDE DEF Is
  <2> QED
    BY <2>1
<1>2. ASSUME NEW m \in 0 .. (ptlevels - 1) - 1, m \in S PROVE m + 1 \in S
  <2>1. PICK c : Is(c, m)
    BY <1>2
  <2>2. PICK x : x = [i \in 0 .. m + 1 |-> IF i = 0 THEN start ELSE next(c[i - 1])]
    OBVIOUS
  <2>3. \A i \in 0 .. m : x[i] = c[i]
    <3> HIDE DEF start, next
    <3> QED
      BY <2>1, <2>2
  <2>4. \A i \in 0 .. m + 1 : i # 0 => x[i - 1] = c[i - 1]
    BY <2>3
  <2>5. Is(x, m + 1)
    <3> HIDE DEF start
    <3> QED
      BY <2>2, <2>4
  <2> HIDE DEF Is
  <2>6. m + 1 \in Nat /\ \E y : Is(y, m + 1)
    BY <2>5
  <2> QED
    BY <2>6
<1>3. ptlevels - 1 \in S
  <2> HIDE DEF S
  <2>1. ptlevels - 1 \in Nat
    BY VmeSizes
  <2> QED
    BY <1>1, <1>2, <2>1, UpTo
<1>4. \E c : Is(c, ptlevels - 1)
  BY <1>3
<1>5. PICK c : c = CHOOSE x : Is(x, ptlevels - 1)
  OBVIOUS
<1>6. Is(c, ptlevels - 1)
  <2> HIDE DEF Is
  <2> QED
    BY <1>4, <1>5
<1>7. TablesOf(as) = c[ptlevels - 1] \cap Frames
  BY <1>5 DEF TablesOf
<1>8. LinkedTables(c, as)
  <2>1. PICK s : s = start
    OBVIOUS
  <2>2. c = [i \in 0 .. ptlevels - 1 |-> IF i = 0 THEN s ELSE next(c[i - 1])]
    BY <1>6, <2>1
  <2>3. 0 \in 0 .. ptlevels - 1 /\ \A i \in 1 .. ptlevels - 1 : i \in 0 .. ptlevels - 1 /\ i # 0
    BY VmeSizes
  <2>4. c[0] = s
    BY <2>2, <2>3
  <2>5. \A i \in 1 .. ptlevels - 1 : c[i] = c[i - 1] \cup LinkedFrom(c[i - 1])
    BY <2>2, <2>3
  <2> QED
    BY <2>1, <2>4, <2>5 DEF LinkedTables
<1> QED
  BY <1>7, <1>8

LEMMA TablesOfIs ==
  ASSUME NEW n, Trees(ptr, entry, free, protected, mapped, n), NEW as \in protected
  PROVE  TablesOf(as) = {f \in Used(free) : n[f].own = as}
<1> PICK c : TablesOf(as) = c[ptlevels - 1] \cap Frames /\ LinkedTables(c, as)
  BY TablesDef
<1> DEFINE S == {d \in Nat : c[d] \cap Frames = TablesDownTo(free, n, as, d)}
<1>1. 0 \in S
  <2>1. TablesDownTo(free, n, as, 0) \subseteq Frames
    BY DEF TablesDownTo, Used
  <2> QED
    <3>1. c[0] = TablesDownTo(free, n, as, 0)
      BY TheRoot DEF LinkedTables
    <3>2. c[0] \cap Frames = TablesDownTo(free, n, as, 0)
      BY <2>1, <3>1
    <3> QED
      BY <3>2
<1>2. ASSUME NEW d \in 0 .. (ptlevels - 1) - 1, d \in S PROVE d + 1 \in S
  <2>1. d + 1 \in 1 .. ptlevels - 1 /\ (d + 1) - 1 = d /\ d + 1 \in Nat
    BY VmeSizes
  <2>2. c[d + 1] = c[d] \cup LinkedFrom(c[d])
    BY <2>1 DEF LinkedTables
  <2>3. PICK X : X = c[d]
    OBVIOUS
  <2>4. X \cap Frames = TablesDownTo(free, n, as, d)
    BY <1>2, <2>3
  <2>5. (X \cup LinkedFrom(X)) \cap Frames = TablesDownTo(free, n, as, d + 1)
    <3>1. DownTo(X, free, n, as, d)
      BY <2>4 DEF DownTo
    <3>2. DownTo(X \cup LinkedFrom(X), free, n, as, d + 1)
      BY <3>1, LinkedIs
    <3> QED
      BY <3>2 DEF DownTo
  <2> QED
    BY <2>1, <2>2, <2>3, <2>5
<1>3. ptlevels - 1 \in Nat /\ ptlevels - 1 \in S
  <2> HIDE DEF S
  <2>1. ptlevels - 1 \in Nat
    BY VmeSizes
  <2> QED
    BY <1>1, <1>2, <2>1, UpTo
<1>4. TablesOf(as) = TablesDownTo(free, n, as, ptlevels - 1)
  BY <1>3
<1>5. \A f \in Used(free) : n[f].dep <= ptlevels - 1
  BY NodeTypes, VmeSizes DEF Trees
<1> QED
  BY <1>4, <1>5, Zenon DEF TablesDownTo

(* TablesOwned for any number of levels, entries, spaces and pages: in     *)
(* vme.c the table pages of the spaces in use are told apart, none is      *)
(* with the page allocator, and teardown gives every one of them back.     *)
THEOREM TablesAreOwned == VmeSpec => []TablesOwned
<1>1. VmeInv => TablesOwned
  <2> SUFFICES ASSUME VmeInv PROVE TablesOwned
    OBVIOUS
  <2>1. PICK n : Trees(ptr, entry, free, protected, mapped, n)
    BY DEF VmeInv
  <2>2. \A as \in protected : TablesOf(as) = {f \in Used(free) : n[f].own = as}
    BY <2>1, TablesOfIs
  <2>3. free \subseteq Frames /\ \A f \in Used(free) : n[f].own \in protected
    BY <2>1 DEF Trees, TableTypes, Roots
  <2>4. \A a, b \in protected : a # b => TablesOf(a) \cap TablesOf(b) = {}
    BY <2>2
  <2>5. Frames \ free = UNION {TablesOf(as) : as \in protected}
    BY <2>2, <2>3 DEF Used
  <2> QED
    BY <2>3, <2>4, <2>5 DEF TablesOwned
<1> QED
  BY VmeInvariant, <1>1, PTL

Passes(c, as, va) ==
  /\ c[0] = Entry(ptr[as], {"P", "U", "W"})
  /\ \A i \in 1 .. ptlevels : c[i] = Through(c[i - 1], va[i])

LEMMA TranslateDef ==
  ASSUME NEW as, NEW va
  PROVE  \E c : Translate(as, va) = c[ptlevels] /\ Passes(c, as, va)
<1> DEFINE start == Entry(ptr[as], {"P", "U", "W"})
           Is(c, m) == c = [i \in 0 .. m |-> IF i = 0 THEN start ELSE Through(c[i - 1], va[i])]
           S == {m \in Nat : \E c : Is(c, m)}
<1>1. 0 \in S
  <2>1. Is([i \in 0 .. 0 |-> start], 0)
    OBVIOUS
  <2> HIDE DEF Is
  <2> QED
    BY <2>1
<1>2. ASSUME NEW m \in 0 .. (ptlevels) - 1, m \in S PROVE m + 1 \in S
  <2>1. PICK c : Is(c, m)
    BY <1>2
  <2>2. PICK x : x = [i \in 0 .. m + 1 |-> IF i = 0 THEN start ELSE Through(c[i - 1], va[i])]
    OBVIOUS
  <2>3. \A i \in 0 .. m : x[i] = c[i]
    <3> HIDE DEF start
    <3> QED
      BY <2>1, <2>2
  <2>4. \A i \in 0 .. m + 1 : i # 0 => x[i - 1] = c[i - 1]
    BY <2>3
  <2>5. Is(x, m + 1)
    <3> HIDE DEF start
    <3> QED
      BY <2>2, <2>4
  <2> HIDE DEF Is
  <2>6. m + 1 \in Nat /\ \E y : Is(y, m + 1)
    BY <2>5
  <2> QED
    BY <2>6
<1>3. ptlevels \in S
  <2> HIDE DEF S
  <2>1. ptlevels \in Nat
    BY VmeSizes
  <2> QED
    BY <1>1, <1>2, <2>1, UpTo
<1>4. \E c : Is(c, ptlevels)
  BY <1>3
<1>5. PICK c : c = CHOOSE x : Is(x, ptlevels)
  OBVIOUS
<1>6. Is(c, ptlevels)
  <2> HIDE DEF Is
  <2> QED
    BY <1>4, <1>5
<1>7. Translate(as, va) = c[ptlevels]
  BY <1>5 DEF Translate
<1>8. Passes(c, as, va)
  <2>1. PICK s : s = start
    OBVIOUS
  <2>2. c = [i \in 0 .. ptlevels |-> IF i = 0 THEN s ELSE Through(c[i - 1], va[i])]
    BY <1>6, <2>1
  <2>3. 0 \in 0 .. ptlevels /\ \A i \in 1 .. ptlevels : i \in 0 .. ptlevels /\ i # 0
    BY VmeSizes
  <2>4. c[0] = s
    BY <2>2, <2>3
  <2>5. \A i \in 1 .. ptlevels : c[i] = Through(c[i - 1], va[i])
    BY <2>2, <2>3
  <2> QED
    BY <2>1, <2>4, <2>5 DEF Passes
<1> QED
  BY <1>7, <1>8

(* A table that an address of its own reaches has ancestors on the way. *)
LEMMA Ancestors ==
  ASSUME NEW n, Trees(ptr, entry, free, protected, mapped, n),
         NEW as, NEW va, NEW g \in Used(free), Reaches(n, g, as, va, ptlevels - 1)
  PROVE  \A d \in 0 .. ptlevels - 1 : \E f \in Used(free) : Reaches(n, f, as, va, d)
<1> DEFINE At(d) == \E f \in Used(free) : Reaches(n, f, as, va, d)
           S == {k \in Nat : \E d : d = (ptlevels - 1) - k /\ At(d)}
<1>1. 0 \in S
  <2>1. (ptlevels - 1) = (ptlevels - 1) - 0
    BY VmeSizes
  <2>2. At(ptlevels - 1)
    OBVIOUS
  <2> HIDE DEF At
  <2> QED
    BY <2>1, <2>2
<1>2. ASSUME NEW k \in 0 .. (ptlevels - 1) - 1, k \in S PROVE k + 1 \in S
  <2>1. PICK d : d = (ptlevels - 1) - k /\ At(d)
    BY <1>2
  <2>2. d \in 1 .. ptlevels - 1 /\ d - 1 = (ptlevels - 1) - (k + 1) /\ k + 1 \in Nat
    BY <2>1, VmeSizes
  <2>3. PICK h \in Used(free) : Reaches(n, h, as, va, d)
    BY <2>1
  <2>4. n[h].own = as /\ n[h].dep = d /\ \A i \in 1 .. d : n[h].path[i] = va[i]
    BY <2>3 DEF Reaches
  <2>5. PICK f \in Used(free) : Link(entry, n, f, h)
    BY <2>2, <2>4 DEF Trees, LinksUp
  <2>6. Reaches(n, f, as, va, d - 1)
    BY <2>2, <2>4, <2>5 DEF Link, Reaches
  <2>7. At(d - 1)
    BY <2>6
  <2> HIDE DEF At
  <2> QED
    BY <2>2, <2>7
<1>3. \A k \in 0 .. ptlevels - 1 : k \in S
  <2> HIDE DEF S
  <2>1. ptlevels - 1 \in Nat
    BY VmeSizes
  <2> QED
    BY <1>1, <1>2, <2>1, UpTo
<1>4. ASSUME NEW d \in 0 .. ptlevels - 1 PROVE At(d)
  <2>1. (ptlevels - 1) - d \in 0 .. ptlevels - 1 /\ d = (ptlevels - 1) - ((ptlevels - 1) - d)
    BY VmeSizes
  <2> HIDE DEF At
  <2>2. PICK e : e = (ptlevels - 1) - ((ptlevels - 1) - d) /\ At(e)
    BY <1>3, <2>1
  <2> QED
    BY <2>1, <2>2
<1> QED
  BY <1>4

LEMMA TranslateIs ==
  ASSUME NEW n, Trees(ptr, entry, free, protected, mapped, n),
         NEW as \in protected, NEW va \in Addresses
  PROVE  Translate(as, va) =
           IF Kernel(va[1]) THEN Entry(Pdpt, {"P", "W"})
           ELSE IF va \in DOMAIN mapped[as] THEN mapped[as][va] ELSE Absent
<1> PICK c : Translate(as, va) = c[ptlevels] /\ Passes(c, as, va)
  BY TranslateDef
<1>1. /\ c[0] = Entry(ptr[as], All)
      /\ \A i \in 1 .. ptlevels : c[i] = Through(c[i - 1], va[i])
  BY DEF Passes, All
<1>2. /\ n \in [Used(free) -> Nodes] /\ OnePath(free, n)
      /\ LinksDown(entry, free, n) /\ LinksUp(entry, free, n) /\ Roots(ptr, free, protected, n)
      /\ MapTypes(protected, mapped) /\ Leaves(entry, free, mapped, n)
      /\ Placed(free, mapped, n)
  BY DEF Trees
<1>3. as \in AddrSpaces /\ \A i \in 1 .. ptlevels : va[i] \in Indices
  BY <1>2 DEF Roots, Addresses
<1>4. \A f \in Used(free), j \in Indices :
        Through(Entry(f, All), j) =
          IF "P" \in entry[f][j].flags THEN Entry(entry[f][j].page, entry[f][j].flags \cap All)
          ELSE Absent
  <2> SUFFICES ASSUME NEW f \in Used(free), NEW j \in Indices
               PROVE  Through(Entry(f, All), j) =
                        IF "P" \in entry[f][j].flags
                        THEN Entry(entry[f][j].page, entry[f][j].flags \cap All) ELSE Absent
    OBVIOUS
  <2>1. PICK e : e = Entry(f, All)
    OBVIOUS
  <2>2. e.page = f /\ e.flags = All /\ f # Pdpt /\ "P" \in All
    BY <2>1, EntryIs, VmeSizes DEF Used
  <2>3. Through(e, j) = IF "P" \in entry[f][j].flags
                        THEN Entry(entry[f][j].page, entry[f][j].flags \cap All) ELSE Absent
    BY <2>2 DEF Through
  <2> QED
    BY <2>1, <2>3
<1>5. \A j : Through(Absent, j) = Absent
  BY EntryIs DEF Through
<1>6. ptr[as] \in Used(free) /\ n[ptr[as]].own = as /\ n[ptr[as]].dep = 0
  BY <1>2 DEF Roots
<1>7. CASE Kernel(va[1])
  <2> DEFINE K == Entry(Pdpt, {"P", "W"})
             S == {i \in Nat : c[i + 1] = K}
  <2>1. 0 \in S
    <3>1. va[1] \in Indices /\ n[ptr[as]].dep < ptlevels - 1
      BY <1>3, <1>6, VmeSizes
    <3>2. entry[ptr[as]][va[1]] = K
      BY <1>2, <1>6, <1>7, <3>1 DEF LinksDown
    <3>3. K.page = Pdpt /\ K.flags \cap All = {"P", "W"} /\ "P" \in K.flags
      BY EntryIs
    <3>4. c[1] = Through(c[0], va[1])
      <4>1. 1 \in 1 .. ptlevels /\ 1 - 1 = 0
        BY VmeSizes
      <4>2. c[1] = Through(c[1 - 1], va[1])
        BY <1>1, <4>1
      <4> QED
        BY <4>1, <4>2
    <3>5. c[1] = Through(Entry(ptr[as], All), va[1])
      BY <1>1, <3>4
    <3>6. c[1] = IF "P" \in entry[ptr[as]][va[1]].flags
                 THEN Entry(entry[ptr[as]][va[1]].page, entry[ptr[as]][va[1]].flags \cap All)
                 ELSE Absent
      BY <1>4, <1>6, <3>1, <3>5
    <3> QED
      BY <3>2, <3>3, <3>6
  <2>2. ASSUME NEW i \in 0 .. (ptlevels - 1) - 1, i \in S PROVE i + 1 \in S
    <3>1. c[i + 1] = K
      BY <2>2
    <3>2. (i + 1) + 1 \in 1 .. ptlevels /\ ((i + 1) + 1) - 1 = i + 1
      BY VmeSizes
    <3>3. c[(i + 1) + 1] = Through(K, va[(i + 1) + 1])
      BY <1>1, <3>1, <3>2
    <3>4. \A j : Through(K, j) = K
      BY EntryIs DEF Through
    <3>5. c[(i + 1) + 1] = K
      BY <3>3, <3>4
    <3> HIDE DEF K
    <3> QED
      BY <3>5
  <2>3. ptlevels - 1 \in S
    <3> HIDE DEF S
    <3>1. ptlevels - 1 \in Nat
      BY VmeSizes
    <3> QED
      BY <2>1, <2>2, <3>1, UpTo
  <2>4. (ptlevels - 1) + 1 = ptlevels
    BY VmeSizes
  <2> QED
    BY <1>7, <2>3, <2>4
<1>8. CASE ~Kernel(va[1])
  <2> DEFINE S == {i \in Nat : \/ c[i] = Absent /\ va \notin DOMAIN mapped[as]
                               \/ \E f \in Used(free) : /\ c[i] = Entry(f, All)
                                                        /\ Reaches(n, f, as, va, i)}
  <2>1. 0 \in S
    <3>1. Reaches(n, ptr[as], as, va, 0)
      BY <1>6 DEF Reaches
    <3> QED
      BY <1>1, <1>6, <3>1
  <2>2. ASSUME NEW d \in 0 .. (ptlevels - 1) - 1, d \in S PROVE d + 1 \in S
    <3>1. PICK i \in 1 .. ptlevels - 1 : i = d + 1 /\ i - 1 = d
      BY VmeSizes
    <3>2. i \in 1 .. ptlevels /\ va[i] \in Indices /\ c[i] = Through(c[d], va[i])
      <4>1. i \in 1 .. ptlevels
        BY VmeSizes
      <4> QED
        BY <1>1, <1>3, <3>1, <4>1
    <3>3. \/ c[i] = Absent /\ va \notin DOMAIN mapped[as]
          \/ \E f \in Used(free) : c[i] = Entry(f, All) /\ Reaches(n, f, as, va, i)
      <4>1. CASE c[d] = Absent /\ va \notin DOMAIN mapped[as]
        BY <1>5, <3>2, <4>1
      <4>2. ASSUME NEW f \in Used(free), c[d] = Entry(f, All), Reaches(n, f, as, va, d)
            PROVE  \/ c[i] = Absent /\ va \notin DOMAIN mapped[as]
                   \/ \E g \in Used(free) : c[i] = Entry(g, All) /\ Reaches(n, g, as, va, i)
        <5>1. /\ n[f].own = as /\ n[f].dep = d /\ d < ptlevels - 1
              /\ \A k \in 1 .. d : n[f].path[k] = va[k]
          BY <4>2, VmeSizes DEF Reaches
        <5>2. ~(n[f].dep = 0 /\ Kernel(va[i]))
          <6>1. n[f].dep = 0 => i = 1
            BY <3>1, <5>1
          <6> QED
            BY <1>8, <6>1
        <5>3. \/ entry[f][va[i]] = Absent
              \/ \E g \in Used(free) : n[g].dep > 0 /\ Link(entry, n, f, g)
                                       /\ n[g].path[n[g].dep] = va[i]
          BY <1>2, <3>2, <5>1, <5>2 DEF LinksDown
        <5>4. c[i] = IF "P" \in entry[f][va[i]].flags
                     THEN Entry(entry[f][va[i]].page, entry[f][va[i]].flags \cap All)
                     ELSE Absent
          BY <1>4, <3>2, <4>2
        <5>5. CASE entry[f][va[i]] = Absent
          <6>1. c[i] = Absent
            BY <5>4, <5>5, EntryIs
          <6>2. ASSUME va \in DOMAIN mapped[as] PROVE FALSE
            <7>1. PICK leaf \in Used(free) : Reaches(n, leaf, as, va, ptlevels - 1)
              BY <1>2, <1>3, <6>2 DEF Placed
            <7>2. i \in 0 .. ptlevels - 1
              BY <3>1
            <7>3. PICK g \in Used(free) : Reaches(n, g, as, va, i)
              BY <7>1, <7>2, Ancestors
            <7>4. n[g].own = as /\ n[g].dep = i /\ \A k \in 1 .. i : n[g].path[k] = va[k]
              BY <7>3 DEF Reaches
            <7>5. PICK h \in Used(free) : Link(entry, n, h, g)
              BY <1>2, <7>4 DEF LinksUp
            <7>6. Reaches(n, h, n[f].own, n[f].path, n[f].dep)
              BY <3>1, <5>1, <7>4, <7>5 DEF Link, Reaches
            <7>7. h = f
              BY <1>2, <7>6 DEF OnePath
            <7>8. entry[f][va[i]] = Entry(g, All)
              BY <7>4, <7>5, <7>7 DEF Link
            <7> QED
              BY <5>5, <7>8, EntriesDiffer
          <6> QED
            BY <6>1, <6>2
        <5>6. ASSUME NEW g \in Used(free), n[g].dep > 0, Link(entry, n, f, g),
                     n[g].path[n[g].dep] = va[i]
              PROVE  c[i] = Entry(g, All) /\ Reaches(n, g, as, va, i)
          <6>1. entry[f][va[i]] = Entry(g, All)
            BY <5>6 DEF Link
          <6>2. c[i] = Entry(g, All)
            <7>1. /\ entry[f][va[i]].page = g /\ entry[f][va[i]].flags \cap All = All
                  /\ "P" \in entry[f][va[i]].flags
              BY <6>1, EntryIs
            <7> QED
              BY <5>4, <7>1
          <6>3. /\ n[f].own = n[g].own /\ n[f].dep = n[g].dep - 1
                /\ \A k \in 1 .. n[g].dep - 1 : n[f].path[k] = n[g].path[k]
            BY <5>6 DEF Link, Reaches
          <6>4. n[g].dep \in Nat
            BY <1>2, NodeTypes, VmeSizes
          <6>5. n[g].dep = i
            BY <3>1, <5>1, <6>3, <6>4
          <6>6. \A k \in 1 .. i : n[g].path[k] = va[k]
            BY <3>1, <5>1, <5>6, <6>3, <6>5
          <6> QED
            BY <5>1, <6>2, <6>3, <6>5, <6>6 DEF Reaches
        <5> QED
          BY <5>3, <5>5, <5>6
      <4> QED
        BY <2>2, <4>1, <4>2
    <3>4. i \in S
      <4>1. i \in Nat
        OBVIOUS
      <4> QED
        BY <3>3, <4>1, Zenon
    <3> HIDE DEF S
    <3> QED
      BY <3>1, <3>4
  <2>3. ptlevels - 1 \in S
    <3> HIDE DEF S
    <3>1. ptlevels - 1 \in Nat
      BY VmeSizes
    <3> QED
      BY <2>1, <2>2, <3>1, UpTo
  <2>4. /\ ptlevels \in 1 .. ptlevels /\ va[ptlevels] \in Indices
        /\ c[ptlevels] = Through(c[ptlevels - 1], va[ptlevels])
    <3>1. ptlevels \in 1 .. ptlevels
      BY VmeSizes
    <3> QED
      BY <1>1, <1>3, <3>1
  <2>5. CASE c[ptlevels - 1] = Absent /\ va \notin DOMAIN mapped[as]
    BY <1>5, <1>8, <2>4, <2>5
  <2>6. ASSUME NEW f \in Used(free), c[ptlevels - 1] = Entry(f, All),
               Reaches(n, f, as, va, ptlevels - 1)
        PROVE  c[ptlevels] = IF va \in DOMAIN mapped[as] THEN mapped[as][va] ELSE Absent
    <3>1. n[f].own = as
      BY <2>6 DEF Reaches
    <3>2. Reaches(n, f, n[f].own, va, ptlevels - 1)
      BY <2>6, <3>1
    <3>3. entry[f][va[ptlevels]] = IF va \in DOMAIN mapped[as] THEN mapped[as][va] ELSE Absent
      BY <1>2, <3>1, <3>2 DEF Leaves
    <3>4. c[ptlevels] = IF "P" \in entry[f][va[ptlevels]].flags
                        THEN Entry(entry[f][va[ptlevels]].page,
                                   entry[f][va[ptlevels]].flags \cap All)
                        ELSE Absent
      BY <1>4, <2>4, <2>6
    <3>5. CASE va \in DOMAIN mapped[as]
      <4>1. PICK e : e = mapped[as][va] /\ e \in Entries /\ "P" \in e.flags
        BY <1>2, <1>3, <3>5 DEF MapTypes
      <4>2. e = Entry(e.page, e.flags) /\ e.flags \cap All = e.flags
        BY <4>1, EntryIs
      <4>3. c[ptlevels] = Entry(e.page, e.flags \cap All)
        BY <3>3, <3>4, <3>5, <4>1
      <4> QED
        BY <3>5, <4>1, <4>2, <4>3
    <3>6. CASE va \notin DOMAIN mapped[as]
      BY <3>3, <3>4, <3>6, EntryIs
    <3> QED
      BY <3>5, <3>6
  <2> QED
    BY <1>8, <2>3, <2>5, <2>6
<1> QED
  BY <1>7, <1>8

(* MapRight for any number of levels, entries, spaces and pages: after any *)
(* calls of protect, map and unprotect the processor translates an address *)
(* of a space to what map was last asked for, and to nothing else but the  *)
(* kernel's memory.                                                        *)
THEOREM MapIsRight == VmeSpec => []MapRight
<1>1. VmeInv => MapRight
  <2> SUFFICES ASSUME VmeInv, NEW as \in protected, NEW va \in Addresses
               PROVE  Translate(as, va) =
                        IF Kernel(va[1]) THEN Entry(Pdpt, {"P", "W"})
                        ELSE IF va \in DOMAIN mapped[as] THEN mapped[as][va] ELSE Absent
    BY DEF MapRight
  <2>1. PICK n : Trees(ptr, entry, free, protected, mapped, n)
    BY DEF VmeInv
  <2> QED
    BY <2>1, TranslateIs
<1> QED
  BY VmeInvariant, <1>1, PTL

-----------------------------------------------------------------------------
(* The boot of the processors *)

Places == {"loader", "start", "main", "mpe", "startup", "spin", "othercpu", "ready", "enter",
           "run", "wait", "loop", "stop", "stopup"}

TypeOK ==
  /\ at \in [CPUs -> Places]
  /\ target \in [CPUs -> 0 .. ncpu]
  /\ ipis \in [CPUs -> Seq({"INIT", "STARTUP"})]
  /\ jmp_code \in {"none", "7c00", "self"}
  /\ is_ap \in {0, 1} /\ ap_ready \in {0, 1} /\ loads \in {0, 1}
  /\ percpu \subseteq CPUs /\ halted \subseteq CPUs
  /\ entered \in [CPUs -> {0, 1}]
  /\ off \in BOOLEAN

Inits(c) == \A i \in 1 .. Len(ipis[c]) : ipis[c][i] = "INIT"
Startups(c) == \A i \in 1 .. Len(ipis[c]) : ipis[c][i] = "STARTUP"
InitsFirst(c) == \A i, j \in 1 .. Len(ipis[c]) :
                   i < j /\ ipis[c][i] = "STARTUP" => ipis[c][j] = "STARTUP"

Early == {"loader", "start", "main"}
Away == {"run", "wait", "loop", "stop", "stopup"}

(* What a CPU's place says, whatever the others do. *)
PlaceInv(c) ==
  /\ at[c] \in {"main", "mpe", "startup", "spin"} => c = 0 /\ c \in percpu
  /\ at[c] \in {"othercpu", "ready", "enter"} => c # 0
  /\ at[c] \in {"ready", "enter", "run"} => c \in percpu
  /\ at[c] \in SharedStack => is_ap = (IF c = 0 THEN 0 ELSE 1)
  /\ at[c] \in {"startup", "spin", "stopup"} => target[c] < ncpu
  /\ at[c] \in {"stop", "stopup"} => c \in halted
  /\ at[c] = "loop" => jmp_code = "self"
  /\ at[c] \notin Away => entered[c] = 0
  /\ at[c] = "run" => entered[c] = 1

OneOnStack == \A c, d \in CPUs : at[c] \in SharedStack /\ at[d] \in SharedStack => c = d

Idle(c) == at[c] = "wait" /\ Inits(c) /\ entered[c] = 0
Waking(c) ==
  /\ entered[c] = 0 \/ at[c] = "run"
  /\ \/ at[c] = "wait" /\ InitsFirst(c)
     \/ at[c] \in {"loader", "start", "othercpu", "ready", "enter", "run"} /\ Startups(c)
Started(c) == at[c] \in {"enter", "run"} /\ Startups(c)

(* Before mpe_init every other processor waits; then those below target[0] *)
(* are started, those above wait, and the one at target[0] is on its way   *)
(* while CPU 0 spins.                                                      *)
Alone ==
  /\ at[0] \in Early /\ Startups(0) /\ is_ap = 0 /\ ap_ready = 0
  /\ \A c \in CPUs \ {0} : Idle(c)

Starting ==
  /\ at[0] \in {"mpe", "startup", "spin", "run"} /\ Startups(0) /\ target[0] > 0
  /\ at[0] = "run" => target[0] = ncpu
  /\ at[0] \in {"startup", "spin"} => is_ap = 1
  /\ ap_ready = 1 => at[0] = "spin" /\ at[target[0]] \in {"enter", "run"}
  /\ \A c \in CPUs \ {0} :
       /\ c < target[0] => Started(c)
       /\ c > target[0] => Idle(c)
       /\ c = target[0] => IF at[0] = "spin" THEN Waking(c) ELSE Idle(c)

(* A CPU that stops the world has caught those its loop has passed. *)
Caught(c) == \/ at[c] \in {"wait", "loop"}
             \/ \E i \in 1 .. Len(ipis[c]) : ipis[c][i] = "INIT"
Passed(h, c) == c < target[h] \/ (c = target[h] /\ at[h] = "stopup")

Stopping ==
  /\ at[0] \notin Early
  /\ \A h, c \in CPUs : h # c /\ at[h] \in {"stop", "stopup"} /\ Passed(h, c) => Caught(c)

PhaseInv ==
  /\ loads = 0 <=> at[0] = "loader"
  /\ jmp_code = "none" => Alone
  /\ jmp_code = "7c00" => Starting
  /\ jmp_code = "self" => Stopping
  /\ halted = {} <=> jmp_code # "self"
  /\ off => \E h \in halted : at[h] = "stop" /\ target[h] = ncpu

IInv == TypeOK /\ (\A c \in CPUs : PlaceInv(c)) /\ OneOnStack /\ PhaseInv

-----------------------------------------------------------------------------
LEMMA InitInv == BootInit => IInv
<1> SUFFICES ASSUME BootInit PROVE IInv
  OBVIOUS
<1>1. 0 \in CPUs /\ CPUs \subseteq Nat
  BY BootAssumption DEF CPUs
<1>2. \A c \in CPUs : Len(ipis[c]) = 0
  BY DEF BootInit
<1>3. \A c \in CPUs : at[c] = IF c = 0 THEN "loader" ELSE "wait"
  BY DEF BootInit
<1>4. TypeOK
  BY <1>1, BootAssumption DEF BootInit, TypeOK, CPUs, Places
<1>5. \A c \in CPUs : PlaceInv(c)
  BY <1>3 DEF BootInit, PlaceInv, SharedStack, Away
<1>6. OneOnStack
  BY <1>3 DEF OneOnStack, SharedStack
<1>7. PhaseInv
  BY <1>1, <1>2, <1>3 DEF BootInit, PhaseInv, Alone, Idle, Inits, Startups, Early
<1> QED
  BY <1>4, <1>5, <1>6, <1>7 DEF IInv

(* Nobody but the CPU that moves and the one it interrupts is disturbed. *)
LEMMA Others ==
  ASSUME TypeOK, NEW c \in CPUs, at'[c] = at[c], ipis'[c] = ipis[c], entered'[c] = entered[c]
  PROVE  /\ Idle(c) <=> Idle(c)'
         /\ Waking(c) <=> Waking(c)'
         /\ Started(c) <=> Started(c)'
         /\ Caught(c) <=> Caught(c)'
         /\ Startups(c) <=> Startups(c)'
BY DEF Idle, Waking, Started, Caught, Inits, Startups, InitsFirst

LEMMA SendInit ==
  ASSUME TypeOK, NEW t \in CPUs, ipis' = [ipis EXCEPT ![t] = @ \o <<"INIT">>]
  PROVE  /\ ipis' \in [CPUs -> Seq({"INIT", "STARTUP"})]
         /\ \A d \in CPUs \ {t} : ipis'[d] = ipis[d]
         /\ Inits(t) => Inits(t)'
         /\ \E i \in 1 .. Len(ipis'[t]) : ipis'[t][i] = "INIT"
<1>1. ipis[t] \in Seq({"INIT", "STARTUP"}) /\ ipis'[t] = ipis[t] \o <<"INIT">>
  BY DEF TypeOK
<1>2. Len(<<"INIT">>) = 1 /\ <<"INIT">>[1] = "INIT" /\ <<"INIT">> \in Seq({"INIT", "STARTUP"})
  OBVIOUS
<1>3. /\ Len(ipis[t]) \in Nat /\ Len(ipis'[t]) = Len(ipis[t]) + 1
      /\ \A i \in 1 .. Len(ipis[t]) : ipis'[t][i] = ipis[t][i]
      /\ ipis'[t][Len(ipis[t]) + 1] = "INIT"
  BY <1>1, <1>2
<1>4. ipis' \in [CPUs -> Seq({"INIT", "STARTUP"})]
  BY <1>1, <1>2 DEF TypeOK
<1> QED
  BY <1>3, <1>4 DEF Inits, TypeOK

LEMMA SendStartup ==
  ASSUME TypeOK, NEW t \in CPUs, ipis' = [ipis EXCEPT ![t] = @ \o <<"STARTUP", "STARTUP">>]
  PROVE  /\ ipis' \in [CPUs -> Seq({"INIT", "STARTUP"})]
         /\ \A d \in CPUs \ {t} : ipis'[d] = ipis[d]
         /\ Inits(t) => InitsFirst(t)'
         /\ (\E i \in 1 .. Len(ipis[t]) : ipis[t][i] = "INIT")
              => \E i \in 1 .. Len(ipis'[t]) : ipis'[t][i] = "INIT"
<1> DEFINE ints == <<"STARTUP", "STARTUP">>
<1>1. ipis[t] \in Seq({"INIT", "STARTUP"}) /\ ipis'[t] = ipis[t] \o ints
  BY DEF TypeOK
<1>2. Len(ints) = 2 /\ ints[1] = "STARTUP" /\ ints[2] = "STARTUP" /\ ints \in Seq({"INIT", "STARTUP"})
  OBVIOUS
<1> HIDE DEF ints
<1>3. /\ Len(ipis[t]) \in Nat /\ Len(ipis'[t]) = Len(ipis[t]) + 2
      /\ \A i \in 1 .. Len(ipis[t]) : ipis'[t][i] = ipis[t][i]
      /\ ipis'[t][Len(ipis[t]) + 1] = "STARTUP"
      /\ ipis'[t][Len(ipis[t]) + 2] = "STARTUP"
  <2>1. /\ Len(ipis[t]) \in Nat /\ Len(ipis'[t]) = Len(ipis[t]) + 2
        /\ \A i \in 1 .. Len(ipis[t]) + 2 :
             ipis'[t][i] = IF i <= Len(ipis[t]) THEN ipis[t][i] ELSE ints[i - Len(ipis[t])]
    BY <1>1, <1>2, ConcatProperties, SMTT(60)
  <2> QED
    BY <2>1, <1>2
<1>4. ipis' \in [CPUs -> Seq({"INIT", "STARTUP"})]
  BY <1>1, <1>2 DEF TypeOK, ints
<1>5. Inits(t) => InitsFirst(t)'
  BY <1>3 DEF Inits, InitsFirst
<1>6. \A i \in 1 .. Len(ipis[t]) : i \in 1 .. Len(ipis'[t])
  BY <1>3
<1> QED
  BY <1>3, <1>4, <1>5, <1>6 DEF TypeOK

LEMMA Received ==
  ASSUME TypeOK, NEW c \in CPUs, ipis[c] # <<>>, ipis' = [ipis EXCEPT ![c] = Tail(@)]
  PROVE  /\ ipis' \in [CPUs -> Seq({"INIT", "STARTUP"})]
         /\ \A d \in CPUs \ {c} : ipis'[d] = ipis[d]
         /\ Head(ipis[c]) \in {"INIT", "STARTUP"}
         /\ Inits(c) => Head(ipis[c]) = "INIT" /\ Inits(c)'
         /\ Startups(c) => Head(ipis[c]) = "STARTUP" /\ Startups(c)'
         /\ InitsFirst(c) => InitsFirst(c)'
         /\ InitsFirst(c) /\ Head(ipis[c]) = "STARTUP" => Startups(c)'
         /\ Head(ipis[c]) = "STARTUP" /\ (\E i \in 1 .. Len(ipis[c]) : ipis[c][i] = "INIT")
              => \E i \in 1 .. Len(ipis'[c]) : ipis'[c][i] = "INIT"
<1>1. ipis[c] \in Seq({"INIT", "STARTUP"}) /\ ipis'[c] = Tail(ipis[c])
  BY DEF TypeOK
<1>2. /\ Len(ipis[c]) \in Nat \ {0} /\ Len(ipis'[c]) = Len(ipis[c]) - 1
      /\ Head(ipis[c]) = ipis[c][1]
      /\ \A i \in 1 .. Len(ipis'[c]) : ipis'[c][i] = ipis[c][i + 1]
  <2>1. Len(ipis[c]) \in Nat \ {0} /\ Head(ipis[c]) = ipis[c][1]
    BY <1>1
  <2> QED
    BY <1>1, <2>1, HeadTailProperties, ZenonT(60)
<1>3. ipis'[c] \in Seq({"INIT", "STARTUP"}) /\ Head(ipis[c]) \in {"INIT", "STARTUP"}
  BY <1>1
<1>4. ipis' \in [CPUs -> Seq({"INIT", "STARTUP"})] /\ \A d \in CPUs \ {c} : ipis'[d] = ipis[d]
  BY <1>3 DEF TypeOK
<1>5. 1 \in 1 .. Len(ipis[c]) /\ \A i \in 1 .. Len(ipis'[c]) : i + 1 \in 1 .. Len(ipis[c])
  BY <1>2
<1>6. \A i \in 1 .. Len(ipis[c]) : i # 1 => i - 1 \in 1 .. Len(ipis'[c]) /\ ipis'[c][i - 1] = ipis[c][i]
  BY <1>2
<1>7. Inits(c) => Head(ipis[c]) = "INIT" /\ Inits(c)'
  BY <1>2, <1>5 DEF Inits
<1>8. Startups(c) => Head(ipis[c]) = "STARTUP" /\ Startups(c)'
  BY <1>2, <1>5 DEF Startups
<1>9. InitsFirst(c) => InitsFirst(c)'
  BY <1>2, <1>5 DEF InitsFirst
<1>10. InitsFirst(c) /\ Head(ipis[c]) = "STARTUP" => Startups(c)'
  BY <1>2, <1>5 DEF InitsFirst, Startups
<1>11. Head(ipis[c]) = "STARTUP" /\ (\E i \in 1 .. Len(ipis[c]) : ipis[c][i] = "INIT")
          => \E i \in 1 .. Len(ipis'[c]) : ipis'[c][i] = "INIT"
  BY <1>2, <1>6
<1> QED
  BY <1>3, <1>4, <1>7, <1>8, <1>9, <1>10, <1>11

LEMMA Numbers == /\ 0 \in CPUs /\ CPUs \subseteq Int /\ ncpu \in Nat \ {0}
                 /\ \A t \in 0 .. ncpu : t < ncpu => t \in CPUs
                 /\ \A c \in CPUs : 0 <= c /\ c < ncpu
BY BootAssumption DEF CPUs

-----------------------------------------------------------------------------
(* A processor on its way moves on; mpe_init is where it was. *)
LEMMA OnItsWay ==
  ASSUME TypeOK, PlaceInv(0), Starting, NEW c \in CPUs \ {0}, at[c] # "wait",
         UNCHANGED <<target, ipis, is_ap>>,
         \A d \in CPUs \ {c} : at'[d] = at[d] /\ entered'[d] = entered[d],
         at[c] \in {"enter", "run"} => at'[c] \in {"enter", "run"},
         Waking(c) => Waking(c)',
         \/ ap_ready' = ap_ready
         \/ at[c] \notin {"enter", "run"} /\ at'[c] \in {"enter", "run"}
  PROVE  Starting'
<1>1. at[0] = "spin" => target[0] \in CPUs
  BY Numbers DEF PlaceInv, TypeOK
<1>2. at'[0] = at[0] /\ Startups(0)'
  BY Numbers, Others DEF Starting
<1>4. Started(c) => Started(c)'
  BY DEF Started, Startups
<1>5. ~Idle(c)
  BY DEF Idle
<1>6. c < target[0] \/ (c = target[0] /\ at[0] = "spin")
  BY <1>5, Numbers DEF Starting, TypeOK
<1>7. ap_ready' = 1 => at'[0] = "spin" /\ at'[target'[0]] \in {"enter", "run"}
  BY <1>1, <1>2, <1>6 DEF Starting, Started
<1>8. \A d \in CPUs \ {0} :
        /\ d < target'[0] => Started(d)'
        /\ d > target'[0] => Idle(d)'
        /\ d = target'[0] => IF at'[0] = "spin" THEN Waking(d)' ELSE Idle(d)'
  <2>1. target' = target /\ at'[0] = at[0]
    BY <1>2
  <2>2. c < target[0] => Started(c)'
    BY <1>4, Numbers DEF Starting
  <2>3. c = target[0] => at[0] = "spin" /\ Waking(c)'
    BY <1>6, Numbers DEF Starting
  <2>4. ~(c > target[0])
    BY <1>6, Numbers DEF TypeOK
  <2> TAKE d \in CPUs \ {0}
  <2>5. CASE d = c
    <3>1. d < target'[0] => Started(d)'
      BY <2>1, <2>2, <2>5 DEF Started, Startups
    <3>2. d = target'[0] => at'[0] = "spin" /\ Waking(d)'
      BY <2>1, <2>3, <2>5 DEF Waking, Startups, InitsFirst
    <3> QED
      BY <2>1, <2>4, <2>5, <3>1, <3>2
  <2>6. CASE d # c
    BY <2>1, <2>6, Others DEF Starting
  <2> QED
    BY <2>5, <2>6
<1>9. /\ at'[0] \in {"mpe", "startup", "spin", "run"} /\ target'[0] > 0
      /\ at'[0] = "run" => target'[0] = ncpu
      /\ at'[0] \in {"startup", "spin"} => is_ap' = 1
  BY <1>2 DEF Starting
<1> QED
  BY <1>2, <1>7, <1>8, <1>9 DEF Starting

(* A step adds nobody to those a loop has passed and frees none of them. *)
LEMMA StillCaught ==
  ASSUME Stopping, at'[0] \notin Early,
         \A d \in CPUs : Caught(d) => Caught(d)',
         \A h, d \in CPUs : h # d /\ at'[h] \in {"stop", "stopup"} /\ Passed(h, d)'
                              => \/ at[h] \in {"stop", "stopup"} /\ Passed(h, d)
                                 \/ Caught(d)'
  PROVE  Stopping'
BY DEF Stopping

(* Kernel code outside the loops of mpe_init and __am_stop_the_world. *)
LEMMA KernelStep ==
  ASSUME IInv, NEW c \in CPUs,
         at[c] \notin {"wait", "loop", "stop", "stopup"}, at'[c] \notin {"stop", "stopup"},
         c = 0 => at'[c] \notin Early,
         \A d \in CPUs \ {c} : at'[d] = at[d] /\ target'[d] = target[d],
         UNCHANGED ipis, jmp_code = "self"
  PROVE  Stopping'
<1>1. Stopping
  BY DEF IInv, PhaseInv
<1>2. at'[0] \notin Early
  BY <1>1, Numbers DEF Stopping
<1>3. \A d \in CPUs : Caught(d) => Caught(d)'
  BY DEF Caught
<1>4. \A h \in CPUs : at'[h] \in {"stop", "stopup"} => h # c
  OBVIOUS
<1> QED
  BY <1>1, <1>2, <1>3, <1>4, StillCaught DEF Passed

LEMMA ProcessorMoves ==
  ASSUME IInv, ~off, NEW c \in CPUs \ {0},
         at[c] \notin {"wait", "loop", "stop", "stopup"}, at'[c] \notin {"stop", "stopup"},
         UNCHANGED <<target, ipis, jmp_code, is_ap, loads, halted, off>>,
         \A d \in CPUs \ {c} : at'[d] = at[d] /\ entered'[d] = entered[d],
         at[c] \in {"enter", "run"} => at'[c] \in {"enter", "run"},
         Waking(c) => Waking(c)',
         \/ ap_ready' = ap_ready
         \/ at[c] \notin {"enter", "run"} /\ at'[c] \in {"enter", "run"}
  PROVE  PhaseInv'
<1>1. jmp_code = "7c00" => Starting'
  BY OnItsWay, Numbers DEF IInv, PhaseInv
<1>2. jmp_code # "none"
  BY DEF IInv, PhaseInv, Alone, Idle
<1>3. jmp_code = "self" => Stopping'
  BY KernelStep
<1>4. at'[0] = at[0]
  BY Numbers
<1> QED
  BY <1>1, <1>2, <1>3, <1>4 DEF IInv, PhaseInv

LEMMA LoadKernelInv ==
  ASSUME IInv, ~off, NEW c \in CPUs, load_kernel(c)
  PROVE  IInv'
<1>1. TypeOK'
  BY Numbers DEF load_kernel, Goto, IInv, TypeOK, Places, PlaceInv, PhaseInv, SharedStack
<1>2. \A d \in CPUs : PlaceInv(d)'
  BY Numbers DEF load_kernel, Goto, IInv, TypeOK, PlaceInv, PhaseInv, SharedStack, Away
<1>3. OneOnStack'
  BY Numbers DEF load_kernel, Goto, IInv, TypeOK, OneOnStack, SharedStack
<1>4. PhaseInv'
  <2>1. CASE c # 0
    <3>1. Waking(c) => Waking(c)'
      BY <2>1, Numbers DEF load_kernel, Goto, IInv, TypeOK, PlaceInv, SharedStack, Waking, Startups
    <3>2. loads' = loads
      BY <2>1 DEF load_kernel, IInv, PlaceInv, SharedStack
    <3> QED
      BY <2>1, <3>1, <3>2, ProcessorMoves DEF load_kernel, Goto, IInv, TypeOK, PlaceInv, SharedStack
  <2>2. CASE c = 0
    <3>1. jmp_code = "none"
      BY <2>2 DEF load_kernel, IInv, PhaseInv, Starting, Stopping, Early, TypeOK
    <3>2. Alone /\ \A d \in CPUs \ {0} : Idle(d) => Idle(d)'
      BY <2>2, <3>1, Others DEF load_kernel, Goto, IInv, TypeOK, PhaseInv
    <3>3. at'[0] \in Early /\ UNCHANGED <<ipis, is_ap, ap_ready, jmp_code, halted, off>>
      BY <2>2, <3>2, Numbers DEF load_kernel, Goto, IInv, TypeOK, Alone, Early
    <3>4. Alone'
      BY <3>2, <3>3 DEF Alone, Startups
    <3> QED
      BY <2>2, <3>1, <3>2, <3>3, <3>4, Numbers DEF load_kernel, Goto, IInv, TypeOK, Alone, PhaseInv
  <2> QED
    BY <2>1, <2>2
<1> QED
  BY <1>1, <1>2, <1>3, <1>4 DEF IInv

LEMMA StartCInv ==
  ASSUME IInv, ~off, NEW c \in CPUs, _start_c(c)
  PROVE  IInv'
<1>1. TypeOK'
  BY Numbers DEF _start_c, Goto, IInv, TypeOK, Places
<1>2. \A d \in CPUs : PlaceInv(d)'
  BY Numbers, SMTT(60) DEF _start_c, Goto, IInv, TypeOK, PlaceInv, PhaseInv, SharedStack, Away
<1>3. OneOnStack'
  BY Numbers DEF _start_c, Goto, IInv, TypeOK, OneOnStack, SharedStack
<1>4. PhaseInv'
  <2>1. CASE c # 0
    <3>1. Waking(c) => Waking(c)'
      BY <2>1, Numbers DEF _start_c, Goto, IInv, TypeOK, PlaceInv, SharedStack, Waking, Startups
    <3> QED
      BY <2>1, <3>1, ProcessorMoves DEF _start_c, Goto, IInv, TypeOK, PlaceInv, SharedStack
  <2>2. CASE c = 0
    <3>1. jmp_code = "none"
      BY <2>2 DEF _start_c, IInv, PhaseInv, Starting, Stopping, Early, TypeOK
    <3>2. Alone /\ \A d \in CPUs \ {0} : Idle(d) => Idle(d)'
      BY <2>2, <3>1, Others DEF _start_c, Goto, IInv, TypeOK, PhaseInv
    <3>3. at'[0] \in Early /\ UNCHANGED <<ipis, is_ap, ap_ready, jmp_code, halted, off>>
      BY <2>2, <3>2, Numbers DEF _start_c, Goto, IInv, TypeOK, Alone, Early
    <3>4. Alone'
      BY <3>2, <3>3 DEF Alone, Startups
    <3> QED
      BY <2>2, <3>1, <3>2, <3>3, <3>4, Numbers DEF _start_c, Goto, IInv, TypeOK, Alone, PhaseInv
  <2> QED
    BY <2>1, <2>2
<1> QED
  BY <1>1, <1>2, <1>3, <1>4 DEF IInv

LEMMA OtherCpuInv ==
  ASSUME IInv, ~off, NEW c \in CPUs, othercpu_entry(c)
  PROVE  IInv'
<1>1. TypeOK'
  BY Numbers DEF othercpu_entry, Goto, IInv, TypeOK, Places
<1>2. \A d \in CPUs : PlaceInv(d)'
  BY Numbers DEF othercpu_entry, Goto, IInv, TypeOK, PlaceInv, PhaseInv, SharedStack, Away
<1>3. OneOnStack'
  BY Numbers DEF othercpu_entry, Goto, IInv, TypeOK, OneOnStack, SharedStack
<1>4. PhaseInv'
  <2>1. Waking(c) => Waking(c)'
    BY Numbers DEF othercpu_entry, Goto, IInv, TypeOK, PlaceInv, SharedStack, Waking, Startups
  <2> QED
    BY <2>1, ProcessorMoves DEF othercpu_entry, Goto, IInv, TypeOK, PlaceInv, SharedStack
<1> QED
  BY <1>1, <1>2, <1>3, <1>4 DEF IInv

LEMMA AnnounceInv ==
  ASSUME IInv, ~off, NEW c \in CPUs, Announce(c)
  PROVE  IInv'
<1>1. TypeOK'
  BY Numbers DEF Announce, Announced, Goto, IInv, TypeOK, Places
<1>2. \A d \in CPUs : PlaceInv(d)'
  BY Numbers DEF Announce, Announced, Goto, IInv, TypeOK, PlaceInv, PhaseInv, SharedStack, Away
<1>3. OneOnStack'
  BY Numbers DEF Announce, Goto, IInv, TypeOK, OneOnStack, SharedStack
<1>4. PhaseInv'
  <2>1. Waking(c) => Waking(c)'
    BY Numbers DEF Announce, Announced, Goto, IInv, TypeOK, PlaceInv, SharedStack, Waking, Startups
  <2> QED
    BY <2>1, ProcessorMoves DEF Announce, Announced, Goto, IInv, TypeOK, PlaceInv, SharedStack
<1> QED
  BY <1>1, <1>2, <1>3, <1>4 DEF IInv

LEMMA CallUserEntryInv ==
  ASSUME IInv, ~off, NEW c \in CPUs, call_user_entry(c)
  PROVE  IInv'
<1>1. TypeOK'
  <2>1. entered[c] = 0
    BY DEF call_user_entry, IInv, PlaceInv, Away
  <2> QED
    BY <2>1 DEF call_user_entry, Goto, IInv, TypeOK, Places
<1>2. \A d \in CPUs : PlaceInv(d)'
  BY Numbers DEF call_user_entry, Goto, IInv, TypeOK, PlaceInv, PhaseInv, SharedStack, Away
<1>3. OneOnStack'
  BY Numbers DEF call_user_entry, Goto, IInv, TypeOK, OneOnStack, SharedStack
<1>4. PhaseInv'
  <2>1. CASE c # 0
    <3>1. Waking(c) => Waking(c)'
      BY <2>1, Numbers DEF Away, call_user_entry, Goto, IInv, TypeOK, PlaceInv, SharedStack, Waking, Startups
    <3> QED
      BY <2>1, <3>1, ProcessorMoves DEF call_user_entry, Goto, IInv, TypeOK, PlaceInv, SharedStack
  <2>2. CASE c = 0
    <3>1. /\ at[0] = "mpe" /\ target[0] = ncpu /\ at' = [at EXCEPT ![0] = "run"]
          /\ \A d \in CPUs \ {0} : at'[d] = at[d] /\ ipis'[d] = ipis[d] /\ entered'[d] = entered[d]
          /\ UNCHANGED <<target, ipis, jmp_code, is_ap, ap_ready, loads, halted, off>>
      BY <2>2, Numbers DEF call_user_entry, Goto, IInv, TypeOK, PlaceInv
    <3>2. at'[0] = "run"
      BY <3>1, Numbers DEF IInv, TypeOK
    <3>3. ASSUME jmp_code = "7c00" PROVE Starting'
      <4>1. Starting
        BY <3>3 DEF IInv, PhaseInv
      <4>2. ap_ready = 0
        BY <3>1, <4>1 DEF Starting, IInv, TypeOK
      <4>3. \A d \in CPUs \ {0} : d < target[0] /\ Started(d)'
        BY <3>1, <4>1, Numbers, Others DEF Starting, IInv
      <4> QED
        BY <3>1, <3>2, <4>1, <4>2, <4>3, Numbers DEF Starting, Startups
    <3>4. jmp_code = "self" => Stopping'
      BY <2>2, <3>1, <3>2, KernelStep, Numbers DEF IInv, TypeOK, Early
    <3>5. jmp_code # "none"
      BY <3>1 DEF IInv, PhaseInv, Alone, Early
    <3> QED
      BY <3>1, <3>2, <3>3, <3>4, <3>5 DEF IInv, PhaseInv
  <2> QED
    BY <2>1, <2>2
<1> QED
  BY <1>1, <1>2, <1>3, <1>4 DEF IInv

LEMMA MpeInitInv ==
  ASSUME IInv, ~off, NEW c \in CPUs, MpeInit(c)
  PROVE  IInv'
<1>1. c = 0 /\ at[0] = "main"
  BY DEF MpeInit, IInv, PlaceInv
<1>2. jmp_code = "none" /\ Alone
  BY <1>1 DEF IInv, PhaseInv, TypeOK, Starting, Stopping, Early
<1>3. /\ at' = [at EXCEPT ![0] = "mpe"] /\ at'[0] = "mpe" /\ target'[0] = 1 /\ jmp_code' = "7c00"
      /\ UNCHANGED <<ipis, is_ap, ap_ready, loads, percpu, entered, halted, off>>
  BY <1>1, Numbers DEF MpeInit, Goto, IInv, TypeOK
<1>4. \A d \in CPUs \ {0} : at'[d] = at[d]
  BY <1>3 DEF IInv, TypeOK
<1>5. TypeOK'
  BY Numbers DEF MpeInit, Goto, IInv, TypeOK, Places
<1>6. \A d \in CPUs : PlaceInv(d)'
  <2> TAKE d \in CPUs
  <2>1. CASE d = 0
    BY <1>1, <1>3, <2>1 DEF IInv, PlaceInv, SharedStack, Away
  <2>2. CASE d # 0
    BY <1>2, <1>4, <2>2 DEF Alone, Idle, PlaceInv, SharedStack, Away
  <2> QED
    BY <2>1, <2>2
<1>7. OneOnStack'
  BY <1>3, <1>4 DEF IInv, OneOnStack, SharedStack
<1>8. \A d \in CPUs \ {0} : Idle(d)' /\ d >= 1
  BY <1>2, <1>3, <1>4, Others, Numbers DEF Alone, IInv
<1>9. Starting'
  BY <1>2, <1>3, <1>8, Numbers DEF Starting, Alone, Startups
<1>10. PhaseInv'
  BY <1>1, <1>2, <1>3, <1>9 DEF IInv, PhaseInv
<1> QED
  BY <1>5, <1>6, <1>7, <1>10 DEF IInv

(* The boot CPU leaves its processor to itself: it is started. *)
LEMMA SpinInv ==
  ASSUME IInv, ~off, NEW c \in CPUs, Spin(c)
  PROVE  IInv'
<1>1. c = 0 /\ at[0] = "spin" /\ ap_ready = 1 /\ target[0] < ncpu
  BY DEF Spin, Ready, IInv, PlaceInv
<1>2. /\ at' = [at EXCEPT ![0] = "mpe"] /\ at'[0] = "mpe" /\ target'[0] = target[0] + 1
      /\ ap_ready' = 0 /\ target' = [target EXCEPT ![0] = target[0] + 1]
      /\ UNCHANGED <<ipis, jmp_code, is_ap, loads, percpu, entered, halted, off>>
  BY <1>1, Numbers DEF Spin, Goto, IInv, TypeOK
<1>3. \A d \in CPUs \ {0} : at'[d] = at[d] /\ target'[d] = target[d]
  BY <1>2 DEF IInv, TypeOK
<1>4. TypeOK'
  BY <1>1, <1>2, Numbers, SMTT(60) DEF IInv, TypeOK, Places
<1>5. \A d \in CPUs : PlaceInv(d)'
  BY <1>1, <1>2, <1>3 DEF IInv, PlaceInv, SharedStack, Away
<1>6. OneOnStack'
  BY <1>2, <1>3 DEF IInv, OneOnStack, SharedStack
<1>7. jmp_code # "none"
  BY <1>1 DEF IInv, PhaseInv, Alone, Early
<1>8. ASSUME jmp_code = "7c00" PROVE Starting'
  <2>1. Starting /\ target[0] \in CPUs \ {0}
    BY <1>1, <1>8, Numbers DEF IInv, TypeOK, PhaseInv, Starting
  <2>2. Started(target[0])
    BY <1>1, <2>1 DEF Starting, Waking, Started
  <2>3. \A d \in CPUs \ {0} : (d < target'[0] => Started(d)') /\ (d >= target'[0] => Idle(d)')
    <3> TAKE d \in CPUs \ {0}
    <3>1. d \in Int /\ target[0] \in Int
      BY <2>1, Numbers
    <3>2. (Started(d) => Started(d)') /\ (Idle(d) => Idle(d)')
      BY <1>2, <1>3, Others DEF IInv
    <3>3. CASE d = target[0]
      BY <1>2, <2>2, <3>1, <3>2, <3>3 DEF Started, Startups
    <3>4. CASE d < target[0]
      BY <1>2, <2>1, <3>1, <3>2, <3>4 DEF Starting
    <3>5. CASE d > target[0]
      BY <1>2, <2>1, <3>1, <3>2, <3>5 DEF Starting
    <3> QED
      BY <3>1, <3>3, <3>4, <3>5
  <2>4. target'[0] > 0 /\ Startups(0)' /\ \A d \in CPUs \ {0} : d \in Int /\ target'[0] \in Int
    <3>1. target[0] \in Int /\ target[0] > 0 /\ Startups(0)'
      BY <1>2, <2>1, Numbers DEF Starting, Startups
    <3> QED
      BY <1>2, <3>1, Numbers
  <2> QED
    BY <1>2, <2>3, <2>4 DEF Starting
<1>9. jmp_code = "self" => Stopping'
  BY <1>1, <1>2, <1>3, KernelStep, Numbers DEF Early
<1>10. PhaseInv'
  BY <1>1, <1>2, <1>7, <1>8, <1>9 DEF IInv, PhaseInv
<1> QED
  BY <1>4, <1>5, <1>6, <1>10 DEF IInv

LEMMA HaltInv ==
  ASSUME IInv, ~off, NEW c \in CPUs, halt(c)
  PROVE  IInv'
<1>1. TypeOK'
  BY Numbers DEF halt, Goto, IInv, TypeOK, Places
<1>2. \A d \in CPUs : PlaceInv(d)'
  BY Numbers DEF halt, Goto, IInv, TypeOK, PlaceInv, SharedStack, Away
<1>3. OneOnStack'
  BY Numbers DEF halt, Goto, IInv, TypeOK, OneOnStack, SharedStack
<1>4. /\ at'[c] = "stop" /\ target'[c] = 0 /\ jmp_code' = "self" /\ halted' # {}
      /\ \A d \in CPUs \ {c} : at'[d] = at[d] /\ target'[d] = target[d]
      /\ UNCHANGED <<ipis, loads, off>> /\ at[c] \in {"main", "run"}
  BY DEF halt, Goto, IInv, TypeOK
<1>5. at'[0] \notin Early
  <2>1. c # 0 => jmp_code # "none"
    BY <1>4 DEF IInv, PhaseInv, Alone, Idle, PlaceInv
  <2> QED
    BY <1>4, <2>1, Numbers DEF IInv, TypeOK, PhaseInv, Starting, Stopping, Early
<1>6. \A h \in CPUs \ {c} : at[h] \in {"stop", "stopup"} => Stopping
  BY DEF IInv, PlaceInv, PhaseInv
<1>7. \A d \in CPUs : Caught(d) => Caught(d)'
  BY <1>4 DEF Caught
<1>8. \A d \in CPUs : ~Passed(c, d)'
  BY <1>4, Numbers DEF Passed
<1>9. \A h, d \in CPUs : h # c /\ Passed(h, d)' => Passed(h, d)
  BY <1>4 DEF Passed
<1>10. Stopping'
  BY <1>4, <1>5, <1>6, <1>7, <1>8, <1>9 DEF Stopping
<1>11. PhaseInv'
  BY <1>4, <1>10, Numbers DEF IInv, PhaseInv, Early, PlaceInv
<1> QED
  BY <1>1, <1>2, <1>3, <1>11 DEF IInv

LEMMA PowerOffInv ==
  ASSUME IInv, ~off, NEW c \in CPUs, PowerOff(c)
  PROVE  IInv'
<1>1. /\ at[c] = "stop" /\ target[c] = ncpu /\ c \in halted /\ off' = TRUE
      /\ UNCHANGED <<at, target, ipis, jmp_code, is_ap, ap_ready, loads, percpu, entered, halted>>
  BY DEF PowerOff, IInv, PlaceInv
<1> QED
  BY <1>1 DEF IInv, TypeOK, PlaceInv, OneOnStack, PhaseInv, Alone, Starting, Stopping, Idle, Waking,
              Started, Caught, Passed, Inits, Startups, InitsFirst

(* The boot CPU interrupts the processor whose turn it is. *)
LEMMA MarkApInv ==
  ASSUME IInv, ~off, NEW c \in CPUs, MarkAp(c)
  PROVE  IInv'
<1>1. c = 0 /\ at[0] = "mpe" /\ target[0] \in CPUs /\ target[0] < ncpu
  BY Numbers DEF MarkAp, IInv, TypeOK, PlaceInv
<1>2. /\ at' = [at EXCEPT ![0] = "startup"] /\ at'[0] = "startup" /\ is_ap' = 1
      /\ ipis' = [ipis EXCEPT ![target[0]] = @ \o <<"INIT">>]
      /\ UNCHANGED <<target, jmp_code, ap_ready, loads, percpu, entered, halted, off>>
  BY <1>1, Numbers DEF MarkAp, Send, Goto, IInv, TypeOK
<1>3. \A d \in CPUs \ {0} : at'[d] = at[d]
  BY <1>2 DEF IInv, TypeOK
<1>4. /\ ipis' \in [CPUs -> Seq({"INIT", "STARTUP"})]
      /\ \A d \in CPUs \ {target[0]} : ipis'[d] = ipis[d]
      /\ Inits(target[0]) => Inits(target[0])'
      /\ \E i \in 1 .. Len(ipis'[target[0]]) : ipis'[target[0]][i] = "INIT"
  BY <1>1, <1>2, SendInit DEF IInv
<1>5. TypeOK'
  BY <1>1, <1>2, <1>4, Numbers DEF IInv, TypeOK, Places
<1>6. \A d \in CPUs : PlaceInv(d)'
  BY <1>1, <1>2, <1>3 DEF IInv, PlaceInv, SharedStack, Away
<1>7. OneOnStack'
  BY <1>2, <1>3 DEF IInv, OneOnStack, SharedStack
<1>8. jmp_code # "none"
  BY <1>1 DEF IInv, PhaseInv, Alone, Early
<1>9. ASSUME jmp_code = "7c00" PROVE Starting'
  <2>1. Starting /\ target[0] # 0
    BY <1>9, <1>1, Numbers DEF IInv, PhaseInv, Starting
  <2>2. \A d \in CPUs \ {0} : (d < target'[0] => Started(d)') /\ (d >= target'[0] => Idle(d)')
    <3> TAKE d \in CPUs \ {0}
    <3> d \in Int /\ target[0] \in Int
      BY <1>1, Numbers
    <3>1. CASE d = target[0]
      <4>1. Idle(d)
        BY <1>1, <2>1, <3>1 DEF Starting
      <4>2. Idle(d)'
        BY <1>2, <1>3, <1>4, <3>1, <4>1 DEF Idle, Inits
      <4> QED
        BY <1>1, <1>2, <3>1, <4>2, Numbers
    <3>2. CASE d # target[0]
      <4>1. (Started(d) => Started(d)') /\ (Idle(d) => Idle(d)')
        BY <1>2, <1>3, <1>4, <3>2, Others DEF IInv
      <4> QED
        BY <1>2, <2>1, <3>2, <4>1 DEF Starting
    <3> QED
      BY <3>1, <3>2
  <2>3. /\ ap_ready' # 1 /\ Startups(0)' /\ target'[0] > 0
        /\ \A d \in CPUs \ {0} : d \in Int /\ target'[0] \in Int
    BY <1>1, <1>2, <1>4, <2>1, Numbers DEF Starting, Startups
  <2> QED
    BY <1>2, <2>2, <2>3 DEF Starting
<1>10. jmp_code = "self" => Stopping'
  <2>1. at'[0] \notin Early
    BY <1>2 DEF Early
  <2>2. \A d \in CPUs : Caught(d) => Caught(d)'
    BY <1>1, <1>2, <1>3, <1>4 DEF Caught
  <2>3. \A h, d \in CPUs : at'[h] \in {"stop", "stopup"} /\ Passed(h, d)'
                            => at[h] \in {"stop", "stopup"} /\ Passed(h, d)
    BY <1>2, <1>3 DEF Passed
  <2> QED
    BY <2>1, <2>2, <2>3, StillCaught DEF IInv, PhaseInv
<1>11. PhaseInv'
  BY <1>1, <1>2, <1>8, <1>9, <1>10 DEF IInv, PhaseInv
<1> QED
  BY <1>5, <1>6, <1>7, <1>11 DEF IInv

(* Two STARTUPs follow the INIT that mpe_init or __am_stop_the_world sent. *)
LEMMA StartupInv ==
  ASSUME IInv, ~off, NEW c \in CPUs, Startup(c)
  PROVE  IInv'
<1>1. /\ at[c] \in {"startup", "stopup"} /\ target[c] \in CPUs /\ target[c] < ncpu
      /\ ipis' = [ipis EXCEPT ![target[c]] = @ \o <<"STARTUP", "STARTUP">>]
      /\ UNCHANGED <<jmp_code, is_ap, ap_ready, loads, percpu, entered, halted, off>>
  BY Numbers DEF Startup, Send, IInv, TypeOK, PlaceInv
<1>2. /\ \A d \in CPUs \ {c} : at'[d] = at[d] /\ target'[d] = target[d]
      /\ at[c] = "startup" => at'[c] = "spin" /\ target' = target
      /\ at[c] = "stopup" => at'[c] = "stop" /\ target'[c] = target[c] + 1
  BY DEF Startup, Goto, IInv, TypeOK
<1> DEFINE Carries(q) == \E i \in 1 .. Len(q) : q[i] = "INIT"
<1>3. PICK t \in CPUs : /\ t = target[c]
                        /\ ipis' \in [CPUs -> Seq({"INIT", "STARTUP"})]
                        /\ \A d \in CPUs \ {t} : ipis'[d] = ipis[d]
                        /\ Inits(t) => InitsFirst(t)'
                        /\ Carries(ipis[t]) => Carries(ipis'[t])
  <2>1. PICK t \in CPUs : t = target[c]
    BY <1>1
  <2>2. ipis' = [ipis EXCEPT ![t] = @ \o <<"STARTUP", "STARTUP">>]
    BY <1>1, <2>1
  <2> QED
    BY <2>1, <2>2, SendStartup DEF IInv
<1>4. TypeOK'
  <2>1. at' \in [CPUs -> Places]
    BY DEF Startup, Goto, IInv, TypeOK, Places
  <2>2. target' \in [CPUs -> 0 .. ncpu]
    <3>1. at[c] = "stopup" => target[c] + 1 \in 0 .. ncpu
      BY <1>1, Numbers DEF IInv, TypeOK
    <3> QED
      BY <1>1, <3>1 DEF Startup, IInv, TypeOK
  <2> QED
    BY <1>1, <1>3, <2>1, <2>2 DEF IInv, TypeOK
<1>5. \A d \in CPUs : PlaceInv(d)'
  BY <1>1, <1>2 DEF IInv, PlaceInv, SharedStack, Away
<1>6. OneOnStack'
  BY <1>1, <1>2 DEF IInv, OneOnStack, SharedStack
<1>7. jmp_code # "none"
  BY <1>1, Numbers DEF IInv, PhaseInv, Alone, Idle, Early
<1>8. ASSUME jmp_code = "7c00" PROVE Starting'
  <2>1. c = 0 /\ at[0] = "startup" /\ Starting
    BY <1>1, <1>8 DEF IInv, PlaceInv, PhaseInv
  <2>2. at'[0] = "spin" /\ target' = target /\ target[0] # 0 /\ target[0] \in Int /\ t = target[0]
    <3>1. at'[0] = "spin" /\ target' = target /\ t = target[0]
      BY <1>1, <1>2, <1>3, <2>1
    <3>2. target[0] > 0 /\ target[0] \in Int
      BY <1>1, <2>1, Numbers DEF Starting
    <3> QED
      BY <3>1, <3>2
  <2>3. \A d \in CPUs \ {0} :
          /\ d < target'[0] => Started(d)'
          /\ d > target'[0] => Idle(d)'
          /\ d = target'[0] => Waking(d)'
    <3> TAKE d \in CPUs \ {0}
    <3> d \in Int
      BY Numbers
    <3>1. CASE d = t
      <4>1. Idle(d)
        BY <2>1, <2>2, <3>1 DEF Starting
      <4>2. Waking(d)'
        BY <1>1, <1>2, <1>3, <2>1, <3>1, <4>1, SMTT(60) DEF Idle, Waking, Inits, InitsFirst
      <4> QED
        BY <2>2, <3>1, <4>2
    <3>2. CASE d # t
      <4>1. (Started(d) => Started(d)') /\ (Idle(d) => Idle(d)')
        BY <1>1, <1>2, <1>3, <2>1, <3>2, Others DEF IInv
      <4> QED
        BY <2>1, <2>2, <3>2, <4>1 DEF Starting
    <3> QED
      BY <3>1, <3>2
  <2>4. (ap_ready' = 1 => FALSE) /\ Startups(0)' /\ target'[0] > 0 /\ is_ap' = 1
    BY <1>1, <1>3, <2>1, <2>2, Numbers DEF Starting, Startups
  <2> QED
    BY <2>2, <2>3, <2>4 DEF Starting
<1>9. ASSUME jmp_code = "self" PROVE Stopping'
  <2>1. Stopping
    BY <1>9 DEF IInv, PhaseInv
  <2>2. at'[0] \notin Early
    BY <1>1, <1>2, <2>1, Numbers DEF Stopping, Early
  <2>3. \A d \in CPUs : Caught(d) => Caught(d)'
    BY <1>1, <1>2, <1>3 DEF Caught
  <2>4. \A h, d \in CPUs : at'[h] \in {"stop", "stopup"} /\ Passed(h, d)'
                            => at[h] \in {"stop", "stopup"} /\ Passed(h, d)
    <3> SUFFICES ASSUME NEW h \in CPUs, NEW d \in CPUs, at'[h] \in {"stop", "stopup"}, Passed(h, d)'
                 PROVE  at[h] \in {"stop", "stopup"} /\ Passed(h, d)
      OBVIOUS
    <3>1. CASE h # c
      BY <1>2, <3>1 DEF Passed
    <3>2. CASE h = c
      <4>1. at[c] = "stopup" /\ d < target[c] + 1 /\ d \in Int /\ target[c] \in Int
        BY <1>1, <1>2, <3>2, Numbers DEF Passed
      <4> QED
        BY <3>2, <4>1 DEF Passed
    <3> QED
      BY <3>1, <3>2
  <2> QED
    BY <2>1, <2>2, <2>3, <2>4, StillCaught
<1>10. PhaseInv'
  <2>1. loads' = 0 <=> at'[0] = "loader"
    BY <1>1, <1>2, Numbers DEF IInv, PhaseInv
  <2> QED
    BY <1>1, <1>7, <1>8, <1>9, <2>1 DEF IInv, PhaseInv
<1> QED
  BY <1>4, <1>5, <1>6, <1>10 DEF IInv

(* The CPU itself is passed over; any other one is caught. *)
LEMMA StopNextInv ==
  ASSUME IInv, ~off, NEW c \in CPUs, StopNext(c)
  PROVE  IInv'
<1>1. /\ at[c] = "stop" /\ target[c] \in CPUs /\ target[c] < ncpu /\ target[c] \in Int
      /\ UNCHANGED <<jmp_code, is_ap, ap_ready, loads, percpu, entered, halted, off>>
  BY Numbers DEF StopNext, IInv, TypeOK
<1>2. \A d \in CPUs \ {c} : at'[d] = at[d] /\ target'[d] = target[d]
  BY DEF StopNext, Goto, IInv, TypeOK
<1>3. CASE target[c] = c
  <2>1. target' = [target EXCEPT ![c] = @ + 1] /\ at' = at /\ ipis' = ipis
    BY <1>3 DEF StopNext
  <2>2. TypeOK'
    <3>1. target[c] + 1 \in 0 .. ncpu
      BY <1>1, Numbers
    <3> QED
      BY <1>1, <2>1, <3>1 DEF IInv, TypeOK
  <2>3. \A d \in CPUs : PlaceInv(d)'
    BY <1>1, <1>2, <2>1 DEF IInv, PlaceInv, SharedStack, Away
  <2>4. OneOnStack'
    BY <2>1 DEF IInv, OneOnStack, SharedStack
  <2>5. target'[c] = c + 1 /\ \A d \in CPUs : d # c /\ d < c + 1 => d < target[c]
    BY <1>3, <1>1, <2>1, Numbers DEF IInv, TypeOK
  <2>6. Stopping
    BY <1>1 DEF IInv, PhaseInv, PlaceInv
  <2>7. \A h, d \in CPUs : h # d /\ Passed(h, d)' /\ at'[h] \in {"stop", "stopup"} => Passed(h, d)
    BY <1>1, <1>2, <2>1, <2>5, Numbers DEF Passed
  <2>8. Stopping'
    BY <2>1, <2>6, <2>7 DEF Stopping, Caught
  <2>9. PhaseInv'
    BY <1>1, <2>1, <2>8 DEF IInv, PhaseInv, PlaceInv
  <2> QED
    BY <2>2, <2>3, <2>4, <2>9 DEF IInv
<1>4. CASE target[c] # c
  <2>1. /\ ipis' = [ipis EXCEPT ![target[c]] = @ \o <<"INIT">>] /\ target' = target
        /\ at' = [at EXCEPT ![c] = "stopup"] /\ at'[c] = "stopup"
    BY <1>4 DEF StopNext, Send, Goto, IInv, TypeOK
  <2>2. /\ ipis' \in [CPUs -> Seq({"INIT", "STARTUP"})]
        /\ \A d \in CPUs \ {target[c]} : ipis'[d] = ipis[d]
        /\ \E i \in 1 .. Len(ipis'[target[c]]) : ipis'[target[c]][i] = "INIT"
    BY <1>1, <2>1, SendInit DEF IInv
  <2>3. TypeOK'
    BY <1>1, <2>1, <2>2 DEF IInv, TypeOK, Places
  <2>4. \A d \in CPUs : PlaceInv(d)'
    BY <1>1, <1>2, <2>1 DEF IInv, PlaceInv, SharedStack, Away
  <2>5. OneOnStack'
    BY <1>2, <2>1 DEF IInv, OneOnStack, SharedStack
  <2>6. Stopping
    BY <1>1 DEF IInv, PhaseInv, PlaceInv
  <2>7. \A d \in CPUs : Caught(d) => Caught(d)'
    BY <1>1, <1>2, <2>2 DEF Caught
  <2>8. Caught(target[c])'
    BY <1>1, <2>1, <2>2 DEF Caught
  <2>9. \A h, d \in CPUs : at'[h] \in {"stop", "stopup"} /\ Passed(h, d)'
                            => (at[h] \in {"stop", "stopup"} /\ Passed(h, d)) \/ d = target[c]
    BY <1>1, <1>2, <2>1 DEF Passed
  <2>10. at'[0] \notin Early
    BY <1>2, <2>1, <2>6 DEF Stopping, Early, IInv, TypeOK
  <2>11. Stopping'
    BY <2>1, <2>6, <2>7, <2>8, <2>9, <2>10, StillCaught DEF Caught
  <2>12. PhaseInv'
    BY <1>1, <1>2, <2>1, <2>11, Numbers DEF IInv, PhaseInv, PlaceInv
  <2> QED
    BY <2>3, <2>4, <2>5, <2>12 DEF IInv
<1> QED
  BY <1>3, <1>4

(* INIT reaches only a processor that waits, until the world is stopped; a *)
(* STARTUP wakes the one CPU 0 spins for, and sends no other to the loader. *)
LEMMA DeliverInv ==
  ASSUME IInv, ~off, NEW c \in CPUs, Deliver(c)
  PROVE  IInv'
<1>1. /\ ipis[c] # <<>> /\ ipis' = [ipis EXCEPT ![c] = Tail(@)]
      /\ UNCHANGED <<target, jmp_code, is_ap, ap_ready, loads, entered, halted, off>>
  BY DEF Deliver
<1>2. /\ ipis' \in [CPUs -> Seq({"INIT", "STARTUP"})]
      /\ \A d \in CPUs \ {c} : ipis'[d] = ipis[d]
      /\ Head(ipis[c]) \in {"INIT", "STARTUP"}
      /\ Inits(c) => Head(ipis[c]) = "INIT" /\ Inits(c)'
      /\ Startups(c) => Head(ipis[c]) = "STARTUP" /\ Startups(c)'
      /\ InitsFirst(c) => InitsFirst(c)'
      /\ InitsFirst(c) /\ Head(ipis[c]) = "STARTUP" => Startups(c)'
      /\ Head(ipis[c]) = "STARTUP" /\ (\E i \in 1 .. Len(ipis[c]) : ipis[c][i] = "INIT")
           => \E i \in 1 .. Len(ipis'[c]) : ipis'[c][i] = "INIT"
  BY <1>1, Received DEF IInv
<1>3. \A d \in CPUs \ {c} : at'[d] = at[d] /\ (d \in percpu' <=> d \in percpu)
  BY DEF Deliver, Goto, IInv, TypeOK
<1>4. \/ Head(ipis[c]) = "INIT" /\ at'[c] = "wait"
      \/ /\ Head(ipis[c]) = "STARTUP" /\ at[c] = "wait" /\ percpu' = percpu
         /\ at'[c] = IF jmp_code = "7c00" THEN "loader" ELSE "loop"
      \/ Head(ipis[c]) = "STARTUP" /\ at[c] # "wait" /\ at'[c] = at[c] /\ percpu' = percpu
  BY <1>2 DEF Deliver, Goto, IInv, TypeOK
<1>5. TypeOK'
  <2>1. at' \in [CPUs -> Places] /\ percpu' \subseteq CPUs
    BY <1>2, ZenonT(60) DEF Deliver, Goto, IInv, TypeOK, Places
  <2> QED
    BY <1>1, <1>2, <2>1 DEF IInv, TypeOK
<1>6. CASE jmp_code = "none"
  <2>1. Alone
    BY <1>6 DEF IInv, PhaseInv
  <2>2. c = 0 \/ Idle(c)
    BY <2>1 DEF Alone
  <2>3. at' = at /\ percpu' \subseteq percpu /\ (c = 0 => percpu' = percpu)
    <3>1. at'[c] = at[c] /\ (c = 0 => percpu' = percpu)
      BY <1>2, <1>4, <2>1, <2>2 DEF Alone, Idle, Early
    <3> QED
      BY <1>3, <1>5, <3>1 DEF Deliver, IInv, TypeOK
  <2>4. c # 0 => Idle(c)'
    BY <1>1, <1>2, <2>2, <2>3 DEF Idle
  <2>5. \A d \in CPUs \ {0} : Idle(d)'
    <3> TAKE d \in CPUs \ {0}
    <3>1. CASE d = c
      BY <2>4, <3>1 DEF Idle, Inits
    <3>2. CASE d # c
      BY <1>1, <1>2, <1>3, <2>1, <3>2, Others DEF Alone, IInv
    <3> QED
      BY <3>1, <3>2
  <2>6. Startups(0)'
    BY <1>2, <2>1, Numbers DEF Alone, Startups
  <2>7. Alone'
    BY <1>1, <2>1, <2>3, <2>5, <2>6 DEF Alone
  <2>8. \A d \in CPUs : PlaceInv(d)'
    <3> TAKE d \in CPUs
    <3>1. d # 0 => at[d] = "wait"
      BY <2>1 DEF Alone, Idle
    <3> QED
      BY <1>1, <1>3, <2>3, <3>1 DEF IInv, PlaceInv, SharedStack, Away
  <2>9. OneOnStack'
    BY <2>3 DEF IInv, OneOnStack
  <2> QED
    BY <1>1, <1>5, <1>6, <2>3, <2>7, <2>8, <2>9 DEF IInv, PhaseInv
<1>7. CASE jmp_code = "7c00"
  <2>1. Starting
    BY <1>7 DEF IInv, PhaseInv
  <2>2. CASE Head(ipis[c]) = "STARTUP" /\ at[c] = "wait"
    <3>1. c # 0 /\ ~Idle(c) /\ ~Started(c)
      BY <1>2, <2>1, <2>2 DEF Starting, Idle, Started
    <3>2. c = target[0] /\ at[0] = "spin" /\ Waking(c)
      <4>1. c \in Int /\ target[0] \in Int
        BY Numbers DEF IInv, TypeOK
      <4>2. ~(c < target[0]) /\ ~(c > target[0])
        BY <2>1, <3>1 DEF Starting
      <4>3. c = target[0]
        BY <4>1, <4>2
      <4> QED
        BY <2>1, <3>1, <4>3 DEF Starting
    <3>3. at'[c] = "loader" /\ entered[c] = 0 /\ percpu' = percpu /\ Startups(c)' /\ is_ap = 1
      BY <1>2, <1>4, <1>7, <2>1, <2>2, <3>2 DEF Starting, Waking
    <3>4. \A d \in CPUs \ {c} : at[d] \notin SharedStack
      <4> TAKE d \in CPUs \ {c}
      <4>1. d \in Int /\ target[0] \in Int
        BY Numbers DEF IInv, TypeOK
      <4>2. CASE d # 0
        BY <2>1, <3>2, <4>1, <4>2 DEF Starting, Started, Idle, SharedStack
      <4>3. CASE d = 0
        BY <3>2, <4>3 DEF SharedStack
      <4> QED
        BY <4>2, <4>3
    <3>5. \A d \in CPUs : PlaceInv(d)'
      <4> TAKE d \in CPUs
      <4>1. CASE d = c
        BY <1>1, <3>1, <3>3, <4>1 DEF PlaceInv, SharedStack, Away
      <4>2. CASE d # c
        BY <1>1, <1>3, <4>2 DEF IInv, PlaceInv
      <4> QED
        BY <4>1, <4>2
    <3>6. OneOnStack'
      BY <1>3, <3>4 DEF OneOnStack
    <3>7. \A d \in CPUs \ {0} :
            /\ d < target[0] => Started(d)'
            /\ d > target[0] => Idle(d)'
            /\ d = target[0] => Waking(d)'
      <4> TAKE d \in CPUs \ {0}
      <4> d \in Int
        BY Numbers
      <4>1. CASE d = c
        <5>1. Waking(d)'
          BY <1>1, <3>3, <4>1 DEF Waking, Startups
        <5> QED
          BY <3>2, <4>1, <5>1
      <4>2. CASE d # c
        <5>1. (Started(d) => Started(d)') /\ (Idle(d) => Idle(d)')
          BY <1>1, <1>2, <1>3, <4>2, Others DEF IInv
        <5> QED
          BY <2>1, <3>2, <4>2, <5>1 DEF Starting
      <4> QED
        BY <4>1, <4>2
    <3>8. at'[0] = "spin" /\ Startups(0)' /\ ap_ready' # 1
      BY <1>1, <1>2, <1>3, <2>1, <2>2, <3>1, <3>2, Numbers DEF Starting, Startups
    <3>9. Starting'
      BY <1>1, <2>1, <3>3, <3>7, <3>8 DEF Starting
    <3> QED
      BY <1>1, <1>5, <1>7, <3>1, <3>5, <3>6, <3>8, <3>9 DEF IInv, PhaseInv, Starting
  <2>3. CASE ~(Head(ipis[c]) = "STARTUP" /\ at[c] = "wait")
    <3>1. /\ Started(c) => at[c] # "wait" /\ Head(ipis[c]) = "STARTUP" /\ Started(c)'
          /\ Idle(c) => at[c] = "wait" /\ Head(ipis[c]) = "INIT" /\ Idle(c)'
          /\ Waking(c) => at'[c] = at[c] /\ Waking(c)'
      <4>1. Started(c) => at[c] # "wait" /\ Head(ipis[c]) = "STARTUP" /\ Started(c)'
        BY <1>2, <1>4 DEF Started
      <4>2. Idle(c) => at[c] = "wait" /\ Head(ipis[c]) = "INIT" /\ Idle(c)'
        BY <1>1, <1>2, <1>4 DEF Idle
      <4>3. Waking(c) => at'[c] = at[c] /\ Waking(c)'
        BY <1>1, <1>2, <1>4, <2>3 DEF Waking
      <4> QED
        BY <4>1, <4>2, <4>3
    <3>2. at'[c] = at[c] /\ (at[c] = "wait" \/ percpu' = percpu)
      <4>1. c = 0 => Startups(c) /\ at[c] # "wait"
        BY <2>1 DEF Starting
      <4>2. c # 0 => Started(c) \/ Idle(c) \/ Waking(c)
        BY <2>1, Numbers DEF Starting, IInv, TypeOK
      <4>3. Waking(c) => at[c] = "wait" \/ Startups(c)
        BY DEF Waking
      <4> QED
        BY <1>2, <1>4, <3>1, <4>1, <4>2, <4>3
    <3>3. at' = at
      BY <1>3, <1>5, <3>2 DEF IInv, TypeOK
    <3>4. \A d \in CPUs : PlaceInv(d)'
      <4> TAKE d \in CPUs
      <4>1. PlaceInv(d) /\ at'[d] = at[d] /\ (at[d] = "wait" \/ (d \in percpu' <=> d \in percpu))
        BY <1>3, <3>2, <3>3 DEF IInv
      <4> QED
        BY <1>1, <4>1 DEF PlaceInv, SharedStack, Away
    <3>5. OneOnStack'
      BY <3>3 DEF IInv, OneOnStack
    <3>6. \A d \in CPUs \ {0} :
            /\ Started(d) => Started(d)'
            /\ Idle(d) => Idle(d)'
            /\ Waking(d) => Waking(d)'
      <4> TAKE d \in CPUs \ {0}
      <4>1. CASE d = c
        BY <3>1, <4>1 DEF Started, Idle, Waking, Inits, Startups, InitsFirst
      <4>2. CASE d # c
        BY <1>1, <1>2, <1>3, <4>2, Others DEF IInv
      <4> QED
        BY <4>1, <4>2
    <3>7. Startups(0)'
      BY <1>2, <2>1, Numbers DEF Starting, Startups
    <3>8. Starting'
      BY <1>1, <2>1, <3>3, <3>6, <3>7 DEF Starting
    <3> QED
      BY <1>1, <1>5, <1>7, <3>3, <3>4, <3>5, <3>8 DEF IInv, PhaseInv
  <2> QED
    BY <2>2, <2>3
<1>8. CASE jmp_code = "self"
  <2>1. Stopping
    BY <1>8 DEF IInv, PhaseInv
  <2>2. at'[c] \in {"wait", "loop", at[c]} /\ (at'[c] \in {"wait", "loop"} \/ percpu' = percpu)
    BY <1>4, <1>8
  <2>3. \A d \in CPUs : PlaceInv(d)'
    BY <1>1, <1>3, <1>8, <2>2 DEF IInv, PlaceInv, SharedStack, Away
  <2>4. OneOnStack'
    BY <1>3, <2>2 DEF IInv, OneOnStack, SharedStack
  <2>5. at'[0] \notin Early
    BY <1>3, <2>1, <2>2, Numbers DEF Stopping, Early
  <2>6. Caught(c) => Caught(c)'
    BY <1>2, <1>4, <1>8 DEF Caught
  <2>7. \A d \in CPUs : Caught(d) => Caught(d)'
    BY <1>2, <1>3, <2>6 DEF Caught
  <2>8. \A h, d \in CPUs : at'[h] \in {"stop", "stopup"} /\ Passed(h, d)'
                            => at[h] \in {"stop", "stopup"} /\ Passed(h, d)
    BY <1>1, <1>3, <2>2 DEF Passed
  <2>9. Stopping'
    BY <2>1, <2>5, <2>7, <2>8, StillCaught
  <2>10. loads' = 0 <=> at'[0] = "loader"
    BY <1>1, <2>1, <2>5 DEF IInv, PhaseInv, Stopping, Early
  <2> QED
    BY <1>1, <1>5, <1>8, <2>3, <2>4, <2>9, <2>10 DEF IInv, PhaseInv
<1> QED
  BY <1>6, <1>7, <1>8 DEF IInv, TypeOK

-----------------------------------------------------------------------------
LEMMA StepInv == IInv /\ [BootNext]_bootVars => IInv'
<1> SUFFICES ASSUME IInv, [BootNext]_bootVars PROVE IInv'
  OBVIOUS
<1>1. CASE UNCHANGED bootVars
  BY <1>1 DEF bootVars, IInv, TypeOK, PlaceInv, OneOnStack, PhaseInv, Alone, Starting, Stopping, Idle,
              Waking, Started, Caught, Passed, Inits, Startups, InitsFirst
<1>2. CASE BootNext
  <2>1. PICK c \in CPUs : ~off /\ (Run(c) \/ Deliver(c) \/ halt(c))
    BY <1>2 DEF BootNext, Executes
  <2> QED
    BY <2>1, LoadKernelInv, StartCInv, MpeInitInv, MarkApInv, StartupInv, SpinInv, OtherCpuInv,
       AnnounceInv, CallUserEntryInv, StopNextInv, PowerOffInv, DeliverInv, HaltInv DEF Run
<1> QED
  BY <1>1, <1>2

LEMMA Exclusive == IInv => BootExclusive
<1> SUFFICES ASSUME IInv PROVE BootExclusive
  OBVIOUS
<1> DEFINE S == {c \in CPUs : at[c] \in SharedStack}
<1>1. Cardinality(S) <= 1
  <2>1. CASE S = {}
    BY <2>1, FS_EmptySet
  <2>2. CASE S # {}
    <3>1. PICK c \in CPUs : S = {c}
      BY <2>2 DEF IInv, OneOnStack
    <3> QED
      BY <3>1, FS_Singleton
  <2> QED
    BY <2>1, <2>2
<1>2. loads <= 1 /\ (loads = 0 => at[0] = "loader")
  BY DEF IInv, TypeOK, PhaseInv
<1>3. \A c \in CPUs : entered[c] <= 1 /\ (at[c] \in {"enter", "run"} => c \in percpu)
  BY DEF IInv, TypeOK, PlaceInv
<1>4. ASSUME entered[0] = 1, halted = {}, NEW c \in CPUs PROVE entered[c] = 1 \/ at[c] = "enter"
  <2>1. at[0] \in Away /\ jmp_code # "self" /\ at[0] \notin Early
    BY <1>4, Numbers DEF IInv, PlaceInv, PhaseInv, Early, Away
  <2>2. Starting
    BY <2>1 DEF IInv, PhaseInv, Alone, TypeOK
  <2>3. at[0] = "run" /\ target[0] = ncpu
    BY <2>1, <2>2 DEF Starting, Away
  <2>4. c # 0 => Started(c)
    BY <2>2, <2>3, Numbers DEF Starting
  <2> QED
    BY <1>4, <2>3, <2>4 DEF IInv, PlaceInv, Started
<1>5. ASSUME off
      PROVE  \E h \in halted : \A c \in CPUs \ {h} :
               at[c] \in {"wait", "loop"} \/ \E i \in 1 .. Len(ipis[c]) : ipis[c][i] = "INIT"
  <2>1. PICK h \in halted : at[h] = "stop" /\ target[h] = ncpu
    BY <1>5 DEF IInv, PhaseInv
  <2>2. Stopping /\ h \in CPUs
    BY <2>1 DEF IInv, PhaseInv, TypeOK
  <2>3. \A c \in CPUs \ {h} : Caught(c)
    BY <2>1, <2>2, Numbers DEF Stopping, Passed
  <2> QED
    BY <2>1, <2>3 DEF Caught
<1> QED
  BY <1>1, <1>2, <1>3, <1>4, <1>5 DEF BootExclusive

(* Every CPU passes through the two boot stacks alone and enters user_entry *)
(* once, CPU 0 last; the image is loaded once; the CPUs that are not        *)
(* stopped when the machine goes off will be (mpe.c, trm.c, the loader).    *)
THEOREM BootIsExclusive == BootSpec => []BootExclusive
BY InitInv, StepInv, Exclusive, PTL DEF BootSpec
=============================================================================
