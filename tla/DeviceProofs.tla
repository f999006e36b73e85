------------------------------- MODULE DeviceProofs -------------------------------
(* The ring of input events holds what its semaphore counts, and the lines  *)
(* of the terminal are read as they were typed, for any rings and keys; the *)
(* disk device is an array of bytes, for any sizes of a block, of the disk  *)
(* and of a request; the monitor shows the terminal in use, for any sizes   *)
(* and any font.                                                            *)
(*                                                                          *)
(* push_event signals after it has stored the event and pop_event waits     *)
(* before it takes one, so at any time the ring holds what the semaphore    *)
(* counts, and besides it the event stored but not signalled and the one    *)
(* waited for but not taken.                                                *)
(*                                                                          *)
(* The cooking queue holds, from its front to its rear, the lines that were *)
(* finished, each with a NUL behind it, and then the one being typed; and   *)
(* the byte before the front is a NUL (QueueHolds).  So tty_pop_back, which *)
(* looks at the byte before the rear, sees a NUL exactly when the line      *)
(* being typed is empty, and a reader finds in front the first line         *)
(* finished, up to its NUL.                                                 *)
(*                                                                          *)
(* A call of sd_read or sd_write has its blocks behind it up to its place   *)
(* (CallPlace), its buffer holds what these are worth (CallData), and the   *)
(* disk differs from the array only in what the call has yet to write       *)
(* (DiskAgrees).                                                            *)
(*                                                                          *)
(* Of a pixel, the sprites of one cell and no other cover it, and one half  *)
(* of them (Covers).  So a terminal is drawn where it is marked (DrawIs),   *)
(* and it is enough that a character marks what it changes (PutcMarks).     *)
EXTENDS Input, Disk, Screen, SequenceTheorems, WellFoundedInduction, TLAPS

-----------------------------------------------------------------------------
(* Induction, over a set in place of a predicate *)
LEMMA LeastCounterexample ==
  ASSUME NEW S \in SUBSET Nat, S # {}
  PROVE  \E m \in S : \A n \in S : m <= n
<1>1. PICK m \in S : \A n \in S : ~ (<<n, m>> \in OpToRel(<, Nat))
  BY NatLessThanWellFounded, WFMin
<1>2. ASSUME NEW n \in S PROVE m <= n
  <2>1. <<n, m>> \in Nat \X Nat /\ ~(n < m)
    BY <1>1 DEF OpToRel
  <2> QED
    BY <2>1
<1> QED
  BY <1>2

LEMMA FromTo ==
  ASSUME NEW a \in Nat, NEW z \in Nat, NEW S, a \in S, \A n \in a .. z - 1 : n \in S => n + 1 \in S
  PROVE  \A n \in a .. z : n \in S
<1> DEFINE Out == {n \in a .. z : n \notin S}
<1> SUFFICES ASSUME Out # {} PROVE FALSE
  OBVIOUS
<1>1. PICK m \in Out : \A n \in Out : m <= n
  <2>1. Out \in SUBSET Nat
    OBVIOUS
  <2> HIDE DEF Out
  <2> QED
    BY <2>1, LeastCounterexample
<1>2. m # a /\ m - 1 \in a .. z - 1
  BY <1>1
<1>3. m - 1 \notin Out
  BY <1>1, <1>2
<1> QED
  BY <1>1, <1>2, <1>3


-----------------------------------------------------------------------------
(* The ring of events *)

Chars == {"a", "A", "1", "!", "LF", "BS", NoChar}
EventRecords == [ctrl : BOOLEAN, alt : BOOLEAN, data : Chars]

RingType ==
  /\ event \in EventRecords
  /\ events \in Seq(EventRecords)
  /\ event_sem \in Nat

IInv == RingType /\ EventsCounted

-----------------------------------------------------------------------------
LEMMA KeyEvent == \A k : EventOf(k) \in EventRecords
<1>1. \A k : keymap(k)[1] \in Chars /\ keymap(k)[2] \in Chars
  BY DEF keymap, Chars
<1>2. NoEvent \in EventRecords
  BY DEF NoEvent, EventRecords, Chars
<1>3. \A c, a \in BOOLEAN, d \in Chars :
        /\ [ctrl |-> c, alt |-> a, data |-> d] \in EventRecords
        /\ [NoEvent EXCEPT !.data = d] \in EventRecords
  BY <1>2 DEF EventRecords
<1> SUFFICES ASSUME NEW k PROVE EventOf(k) \in EventRecords
  OBVIOUS
<1> DEFINE ctrl == "LCTRL" \in held
           alt == "RALT" \in held
<1>4. ctrl \in BOOLEAN /\ alt \in BOOLEAN
  OBVIOUS
<1>5. CASE ctrl \/ alt
  <2>1. EventOf(k) = [ctrl |-> ctrl, alt |-> alt, data |-> keymap(k)[1]]
    BY <1>5 DEF EventOf
  <2> QED
    BY <2>1, <1>1, <1>3, <1>4
<1>6. CASE ~(ctrl \/ alt)
  <2>1. \/ EventOf(k) = [NoEvent EXCEPT !.data = keymap(k)[1]]
        \/ EventOf(k) = [NoEvent EXCEPT !.data = keymap(k)[2]]
    BY <1>6 DEF EventOf
  <2> QED
    BY <2>1, <1>1, <1>3
<1> QED
  BY <1>5, <1>6

LEMMA InitInv == InputInit => IInv
BY DEF InputInit, IInv, RingType, EventsCounted, EventRecords, Chars, NoEvent, NoChar, One

(* What changes neither the ring nor its semaphore, nor moves one of the   *)
(* two tasks to or from a place where it is between them.                  *)
LEMMA ElsewhereInv ==
  ASSUME IInv, stopped = "no",
         UNCHANGED <<event, events, event_sem, tty_task, input_task>>,
         stopped' = "no"
  PROVE  IInv'
BY DEF IInv, RingType, EventsCounted, One

LEMMA DrainInv ==
  ASSUME IInv, stopped = "no", Drain
  PROVE  IInv'
<1>1. event' \in EventRecords
  BY KeyEvent DEF Drain, IInv, RingType
<1>2. input_task = "drain" /\ input_task' \in {"drain", "wait", "push"}
  BY DEF Drain
<1>3. UNCHANGED <<events, event_sem, tty_task, stopped>>
  BY DEF Drain
<1> QED
  BY <1>1, <1>2, <1>3 DEF IInv, RingType, EventsCounted, One

(* An event that fills the ring is stored before the machine panics. *)
LEMMA PushInv ==
  ASSUME IInv, stopped = "no", Push
  PROVE  IInv'
<1>1. /\ events' \in Seq(EventRecords) /\ Len(events') = Len(events) + 1
      /\ Len(events) \in Nat
  <2>1. events' = Append(events, event)
    BY DEF Push
  <2> QED
    BY <2>1 DEF IInv, RingType
<1>2. UNCHANGED <<event, event_sem, tty_task>> /\ input_task = "push"
  BY DEF Push, lineVars
<1>3. \/ stopped' = "input queue full" /\ input_task' = "push"
      \/ stopped' = "no" /\ input_task' = "signal"
  BY DEF Push
<1>4. Len(events) = event_sem + One(tty_task = "pop")
  BY <1>2 DEF IInv, RingType, EventsCounted, One
<1>5. Len(events') = event_sem' + One(tty_task' = "pop") + 1
  BY <1>1, <1>2, <1>4
<1>6. One((input_task = "signal" \/ stopped = "input queue full")') = 1
  BY <1>3 DEF One
<1> QED
  BY <1>1, <1>2, <1>3, <1>5, <1>6 DEF IInv, RingType, EventsCounted

LEMMA SignalInv ==
  ASSUME IInv, stopped = "no", Signal
  PROVE  IInv'
<1>1. NoEvent \in EventRecords
  BY DEF NoEvent, EventRecords, Chars
<1>2. input_task = "signal" /\ input_task' \in {"wait", "drain"} /\ event_sem' = event_sem + 1
  BY DEF Signal
<1>3. UNCHANGED <<events, tty_task, stopped>> /\ event' = NoEvent
  BY DEF Signal
<1> QED
  BY <1>1, <1>2, <1>3 DEF IInv, RingType, EventsCounted, One

LEMMA WaitEventInv ==
  ASSUME IInv, stopped = "no", WaitEvent
  PROVE  IInv'
<1>1. /\ tty_task = "wait" /\ tty_task' = "pop"
      /\ event_sem > 0 /\ event_sem' = event_sem - 1
  BY DEF WaitEvent, Posted
<1>2. UNCHANGED <<event, events, input_task, stopped>>
  BY DEF WaitEvent, keyVars
<1> QED
  BY <1>1, <1>2 DEF IInv, RingType, EventsCounted, One

(* By the count there is an event to take, and no panic. *)
LEMMA PopInv ==
  ASSUME IInv, stopped = "no", Pop
  PROVE  IInv'
<1>1. tty_task = "pop" /\ Len(events) > 0 /\ events \in Seq(EventRecords)
  <2>1. tty_task = "pop" /\ One(tty_task = "pop") = 1 /\ \A b : One(b) \in {0, 1}
    BY DEF Pop, One
  <2> QED
    BY <2>1 DEF IInv, RingType, EventsCounted
<1>2. events # <<>>
  BY <1>1
<1>3. /\ events' = Tail(events) /\ tty_task' = "cook"
      /\ UNCHANGED <<event, event_sem, input_task, stopped>>
  BY <1>2 DEF Pop, keyVars
<1>4. events' \in Seq(EventRecords) /\ Len(events') = Len(events) - 1
  BY <1>1, <1>2, <1>3
<1> QED
  BY <1>1, <1>3, <1>4 DEF IInv, RingType, EventsCounted, One

LEMMA CookInv ==
  ASSUME IInv, stopped = "no", Cook
  PROVE  IInv'
<1>1. UNCHANGED <<event, events, event_sem, input_task>>
  BY DEF Cook, keyVars
<1>2. tty_task = "cook" /\ tty_task' = "wait"
  BY DEF Cook, EndEvent
<1>3. stopped' \in {"no", "tty queue full"}
  BY DEF Cook, CookLine, CookBack, CookChar, Enqueue
<1> QED
  BY <1>1, <1>2, <1>3 DEF IInv, RingType, EventsCounted, One

-----------------------------------------------------------------------------
LEMMA StepInv ==
  ASSUME IInv, [InputNext]_inputVars
  PROVE  IInv'
<1>1. CASE stopped = "no" /\ (Notify \/ WaitCooked \/ (\E stroke \in Strokes : Type(stroke))
                              \/ (\E count \in {1, TTY_COOK_BUF_SZ} : tty_read(count)))
  <2>1. UNCHANGED <<event, events, event_sem, tty_task, input_task, stopped>>
    BY <1>1 DEF Notify, WaitCooked, Type, tty_read, keyVars
  <2> QED
    BY <1>1, <2>1, ElsewhereInv
<1>2. CASE stopped = "no" /\ WaitIrq
  BY <1>2 DEF WaitIrq, IInv, RingType, EventsCounted, One
<1>3. CASE UNCHANGED inputVars
  BY <1>3 DEF inputVars, keyVars, IInv, RingType, EventsCounted, One
<1> QED
  BY <1>1, <1>2, <1>3, DrainInv, PushInv, SignalInv, WaitEventInv, PopInv, CookInv
  DEF InputNext, TimerRuns, InputRuns, TtyRuns, InputDaemon, TtyTask

(* The tty task finds in the ring what the semaphore promised it           *)
(* (pop_event of dev_input.c never panics).                                *)
THEOREM RingCounted == InputSpec => []EventsCounted
<1>1. IInv => EventsCounted
  BY DEF IInv
<1> QED
  BY <1>1, InitInv, StepInv, PTL DEF InputSpec

-----------------------------------------------------------------------------
(* The cooking queue *)

(* The characters of a line, and what may be in a byte of the queue. *)
Text == {"a", "A", "1", "!", "LF"}
Bytes == Chars \cup {"link"}
Spots == 0 .. TTY_COOK_BUF_SZ - 1

Between(f, r) == (r - f) % TTY_COOK_BUF_SZ
Content(b, f, r) == [i \in 1 .. Between(f, r) |-> b[Wrap(f + i - 1)]]

LEMMA QueueSize == TTY_COOK_BUF_SZ \in Nat /\ TTY_COOK_BUF_SZ > 1
BY InputAssumption

LEMMA Wraps ==
  /\ \A k \in Spots : k % TTY_COOK_BUF_SZ = k
  /\ \A k \in TTY_COOK_BUF_SZ .. 2 * TTY_COOK_BUF_SZ - 1 : k % TTY_COOK_BUF_SZ = k - TTY_COOK_BUF_SZ
  /\ \A k \in -TTY_COOK_BUF_SZ .. -1 : k % TTY_COOK_BUF_SZ = k + TTY_COOK_BUF_SZ
<1> PICK n : n = TTY_COOK_BUF_SZ
  OBVIOUS
<1>1. n \in Nat \ {0}
  BY QueueSize
<1>2. ASSUME NEW k \in 0 .. n - 1 PROVE k % n = k
  BY ONLY <1>1, <1>2
<1>3. ASSUME NEW k \in n .. 2 * n - 1 PROVE k % n = k - n
  BY ONLY <1>1, <1>3
<1>4. ASSUME NEW k \in -n .. -1 PROVE k % n = k + n
  BY ONLY <1>1, <1>4
<1> QED
  BY <1>2, <1>3, <1>4 DEF Spots

LEMMA WrapIs ==
  ASSUME NEW f \in Spots, NEW i \in 0 .. TTY_COOK_BUF_SZ
  PROVE  /\ Wrap(f + i) \in Spots
         /\ f + i < TTY_COOK_BUF_SZ => Wrap(f + i) = f + i
         /\ f + i >= TTY_COOK_BUF_SZ => Wrap(f + i) = f + i - TTY_COOK_BUF_SZ
<1>1. f + i \in Spots \/ f + i \in TTY_COOK_BUF_SZ .. 2 * TTY_COOK_BUF_SZ - 1
  BY QueueSize DEF Spots
<1> QED
  BY <1>1, Wraps, QueueSize DEF Spots, Wrap

LEMMA BeforeIs ==
  ASSUME NEW f \in Spots
  PROVE  /\ Before(f) \in Spots
         /\ f = 0 => Before(f) = TTY_COOK_BUF_SZ - 1
         /\ f > 0 => Before(f) = f - 1
<1>1. f - 1 \in Spots \/ f - 1 = -1
  BY QueueSize DEF Spots
<1> QED
  BY <1>1, Wraps, QueueSize DEF Spots, Before

LEMMA BetweenIs ==
  ASSUME NEW f \in Spots, NEW r \in Spots
  PROVE  /\ Between(f, r) \in Spots
         /\ f <= r => Between(f, r) = r - f
         /\ f > r => Between(f, r) = r - f + TTY_COOK_BUF_SZ
<1>1. r - f \in Spots \/ r - f \in -TTY_COOK_BUF_SZ .. -1
  BY QueueSize DEF Spots
<1> QED
  BY <1>1, Wraps, QueueSize DEF Spots, Between

(* The content is the bytes from the front on. *)
Reads(V, b, f, r) ==
  /\ Content(b, f, r) \in Seq(V) /\ Len(Content(b, f, r)) = Between(f, r)
  /\ \A i \in 1 .. Between(f, r) : Content(b, f, r)[i] = b[Wrap(f + i - 1)]

LEMMA ContentIs ==
  ASSUME NEW V, NEW b \in [Spots -> V], NEW f \in Spots, NEW r \in Spots
  PROVE  Reads(V, b, f, r)
<1> PICK n \in Nat : n = Between(f, r)
  BY BetweenIs, QueueSize DEF Spots
<1> PICK s : s = Content(b, f, r)
  OBVIOUS
<1>1. s = [i \in 1 .. n |-> b[Wrap(f + i - 1)]]
  BY DEF Content
<1>2. \A i \in 1 .. n : Wrap(f + i - 1) \in Spots
  <2> SUFFICES ASSUME NEW i \in 1 .. n PROVE Wrap(f + i - 1) \in Spots
    OBVIOUS
  <2>1. i - 1 \in 0 .. TTY_COOK_BUF_SZ /\ f + (i - 1) = f + i - 1
    BY BetweenIs, QueueSize DEF Spots
  <2> QED
    BY <2>1, WrapIs
<1>3. s \in [1 .. n -> V]
  BY <1>1, <1>2
<1>4. s \in Seq(V) /\ Len(s) = n
  BY <1>3
<1> QED
  BY <1>1, <1>4 DEF Reads

(* tty_enqueue appends, unless the queue is full then, and does not touch  *)
(* the byte before the front.                                              *)
Appends(V, b, f, r, ch) ==
  LET r2 == Wrap(r + 1)  b2 == [b EXCEPT ![r] = ch, ![r2] = NoChar]
  IN /\ b2 \in [Spots -> V] /\ r2 \in Spots
     /\ Content(b2, f, r2) = Append(Content(b, f, r), ch)
     /\ b2[Before(f)] = NoChar

LEMMA EnqueueAppends ==
  ASSUME NEW V, NoChar \in V, NEW b \in [Spots -> V], NEW f \in Spots, NEW r \in Spots, NEW ch \in V,
         Wrap(r + 1) # f, b[Before(f)] = NoChar
  PROVE  Appends(V, b, f, r, ch)
<1> PICK b2 : b2 = [b EXCEPT ![r] = ch, ![Wrap(r + 1)] = NoChar]
  OBVIOUS
<1> PICK r2 : r2 = Wrap(r + 1)
  OBVIOUS
<1> PICK n : n = Between(f, r)
  OBVIOUS
<1> PICK old, new : old = Content(b, f, r) /\ new = Content(b2, f, r2)
  OBVIOUS
<1>0. /\ TTY_COOK_BUF_SZ \in Nat /\ TTY_COOK_BUF_SZ > 1
      /\ f \in Nat /\ r \in Nat /\ f < TTY_COOK_BUF_SZ /\ r < TTY_COOK_BUF_SZ
  BY QueueSize DEF Spots
<1>n. n \in Nat /\ n = IF f <= r THEN r - f ELSE r - f + TTY_COOK_BUF_SZ
  <2>1. /\ Between(f, r) \in Spots
        /\ f <= r => Between(f, r) = r - f
        /\ f > r => Between(f, r) = r - f + TTY_COOK_BUF_SZ
    BY BetweenIs
  <2> QED
    BY <1>0, <2>1 DEF Spots
<1>1. r2 \in Spots /\ r2 # f /\ r2 = IF r + 1 < TTY_COOK_BUF_SZ THEN r + 1 ELSE r + 1 - TTY_COOK_BUF_SZ
  <2>1. 1 \in 0 .. TTY_COOK_BUF_SZ
    BY <1>0
  <2> QED
    BY <1>0, <2>1, WrapIs
<1>2. Between(f, r2) = n + 1 /\ n + 1 < TTY_COOK_BUF_SZ
  <2>1. /\ Between(f, r2) \in Spots
        /\ f <= r2 => Between(f, r2) = r2 - f
        /\ f > r2 => Between(f, r2) = r2 - f + TTY_COOK_BUF_SZ
    BY <1>1, BetweenIs
  <2> QED
    BY <1>0, <1>n, <1>1, <2>1 DEF Spots
<1>3. /\ b2 \in [Spots -> V] /\ b2[r2] = NoChar
      /\ \A k \in Spots : k # r /\ k # r2 => b2[k] = b[k]
      /\ r # r2 /\ b2[r] = ch
  <2>1. r # r2
    BY <1>0, <1>1
  <2>2. b2 = [b EXCEPT ![r] = ch, ![r2] = NoChar]
    OBVIOUS
  <2> QED
    BY ONLY <1>1, <2>1, <2>2, b \in [Spots -> V], r \in Spots, ch \in V, NoChar \in V
<1>4. b2[Before(f)] = NoChar
  <2>1. Before(f) \in Spots /\ (f = 0 => Before(f) = TTY_COOK_BUF_SZ - 1) /\ (f > 0 => Before(f) = f - 1)
    BY BeforeIs
  <2>2. Before(f) # r
    BY <1>0, <1>1, <2>1
  <2> QED
    BY <1>3, <2>1, <2>2
<1>5. old \in Seq(V) /\ Len(old) = n /\ \A i \in 1 .. n : old[i] = b[Wrap(f + i - 1)]
  <2>1. Reads(V, b, f, r)
    BY ContentIs
  <2>2. old = Content(b, f, r) /\ n = Between(f, r)
    OBVIOUS
  <2> QED
    BY ONLY <2>1, <2>2 DEF Reads
<1>6. new \in Seq(V) /\ Len(new) = n + 1 /\ \A i \in 1 .. n + 1 : new[i] = b2[Wrap(f + i - 1)]
  <2>1. /\ Content(b2, f, r2) \in Seq(V) /\ Len(Content(b2, f, r2)) = Between(f, r2)
        /\ \A i \in 1 .. Between(f, r2) : Content(b2, f, r2)[i] = b2[Wrap(f + i - 1)]
    <3>1. r2 \in Spots
      BY <1>1
    <3>2. b2 \in [Spots -> V]
      BY <1>3
    <3>3. Reads(V, b2, f, r2)
      BY <3>1, <3>2, ContentIs
    <3> QED
      BY <3>3 DEF Reads
  <2> QED
    BY <2>1, <1>2
<1>7. ASSUME NEW i \in 1 .. n + 1
      PROVE  /\ Wrap(f + i - 1) \in Spots /\ Wrap(f + i - 1) # r2
             /\ Wrap(f + i - 1) = r <=> i = n + 1
  <2>1. PICK j \in 0 .. n : j = i - 1 /\ f + i - 1 = f + j
    BY <1>0, <1>n
  <2>2. j \in 0 .. TTY_COOK_BUF_SZ
    BY <1>0, <1>n, <1>2
  <2>3. Wrap(f + j) = IF f + j < TTY_COOK_BUF_SZ THEN f + j ELSE f + j - TTY_COOK_BUF_SZ
    BY <1>0, <2>2, WrapIs
  <2>5. Wrap(f + j) = r <=> j = n
    BY <1>0, <1>n, <1>2, <2>3
  <2>6. Wrap(f + j) # r2
    BY <1>0, <1>n, <1>1, <1>2, <2>3
  <2>7. Wrap(f + j) \in Spots
    BY <2>2, WrapIs
  <2>8. j = n <=> i = n + 1
    BY <1>n, <2>1
  <2> QED
    BY <2>1, <2>5, <2>6, <2>7, <2>8
<1>8. /\ Append(old, ch) \in Seq(V) /\ Len(Append(old, ch)) = n + 1
      /\ \A i \in 1 .. n : Append(old, ch)[i] = old[i]
      /\ Append(old, ch)[n + 1] = ch
  BY <1>5, AppendProperties
<1>9. ASSUME NEW i \in 1 .. n + 1 PROVE new[i] = Append(old, ch)[i]
  <2>1. CASE i = n + 1
    BY <2>1, <1>3, <1>6, <1>7, <1>8
  <2>2. CASE i # n + 1
    <3>1. i \in 1 .. n
      BY <1>n, <2>2
    <3>2. new[i] = b[Wrap(f + i - 1)]
      BY <1>3, <1>6, <1>7, <2>2
    <3> QED
      BY <3>1, <3>2, <1>5, <1>8
  <2> QED
    BY <2>1, <2>2
<1>10. new = Append(old, ch)
  BY <1>6, <1>8, <1>9, SeqEqual
<1> QED
  BY <1>1, <1>3, <1>4, <1>10 DEF Appends

(* tty_pop_back takes the last character off, which is the byte before the *)
(* rear.                                                                   *)
Fronts(V, b, f, r) ==
  LET r2 == Before(r)  b2 == [b EXCEPT ![r2] = NoChar]
  IN /\ b2 \in [Spots -> V] /\ r2 \in Spots
     /\ Content(b2, f, r2) \in Seq(V) /\ b[r2] \in V
     /\ Content(b, f, r) = Append(Content(b2, f, r2), b[r2])
     /\ b2[Before(f)] = NoChar

LEMMA PopBackFronts ==
  ASSUME NEW V, NoChar \in V, NEW b \in [Spots -> V], NEW f \in Spots, NEW r \in Spots, f # r,
         b[Before(f)] = NoChar
  PROVE  Fronts(V, b, f, r)
<1> PICK b2 : b2 = [b EXCEPT ![Before(r)] = NoChar]
  OBVIOUS
<1> PICK r2 : r2 = Before(r)
  OBVIOUS
<1>0. /\ TTY_COOK_BUF_SZ \in Nat /\ TTY_COOK_BUF_SZ > 1
      /\ f \in Nat /\ r \in Nat /\ f < TTY_COOK_BUF_SZ /\ r < TTY_COOK_BUF_SZ
  BY QueueSize DEF Spots
<1>1. r2 \in Spots /\ r2 = IF r = 0 THEN TTY_COOK_BUF_SZ - 1 ELSE r - 1
  BY <1>0, BeforeIs
<1>n. PICK n : n = Between(f, r2)
  OBVIOUS
<1>m. n \in Nat /\ n = IF f <= r2 THEN r2 - f ELSE r2 - f + TTY_COOK_BUF_SZ
  <2>1. /\ Between(f, r2) \in Spots
        /\ f <= r2 => Between(f, r2) = r2 - f
        /\ f > r2 => Between(f, r2) = r2 - f + TTY_COOK_BUF_SZ
    BY <1>1, BetweenIs
  <2> QED
    BY <1>0, <1>1, <1>n, <2>1 DEF Spots
<1>2. Between(f, r) = n + 1 /\ n + 1 < TTY_COOK_BUF_SZ
  <2>1. /\ Between(f, r) \in Spots
        /\ f <= r => Between(f, r) = r - f
        /\ f > r => Between(f, r) = r - f + TTY_COOK_BUF_SZ
    BY BetweenIs
  <2> QED
    BY <1>0, <1>m, <1>1, <2>1 DEF Spots
<1> PICK old, new : old = Content(b, f, r) /\ new = Content(b2, f, r2)
  OBVIOUS
<1>3. b2 \in [Spots -> V] /\ b2[r2] = NoChar /\ \A k \in Spots : k # r2 => b2[k] = b[k]
  <2>1. b2 = [b EXCEPT ![r2] = NoChar]
    OBVIOUS
  <2> QED
    BY ONLY <1>1, <2>1, b \in [Spots -> V], NoChar \in V
<1>4. b2[Before(f)] = NoChar
  BY <1>3, BeforeIs
<1>5. old \in Seq(V) /\ Len(old) = n + 1 /\ \A i \in 1 .. n + 1 : old[i] = b[Wrap(f + i - 1)]
  <2>1. /\ Content(b, f, r) \in Seq(V) /\ Len(Content(b, f, r)) = Between(f, r)
        /\ \A i \in 1 .. Between(f, r) : Content(b, f, r)[i] = b[Wrap(f + i - 1)]
    <3>1. Reads(V, b, f, r)
      BY ContentIs
    <3> QED
      BY ONLY <3>1 DEF Reads
  <2> QED
    BY <2>1, <1>2
<1>6. new \in Seq(V) /\ Len(new) = n /\ \A i \in 1 .. n : new[i] = b2[Wrap(f + i - 1)]
  <2>1. /\ Content(b2, f, r2) \in Seq(V) /\ Len(Content(b2, f, r2)) = Between(f, r2)
        /\ \A i \in 1 .. Between(f, r2) : Content(b2, f, r2)[i] = b2[Wrap(f + i - 1)]
    <3>1. r2 \in Spots
      BY <1>1
    <3>2. b2 \in [Spots -> V]
      BY <1>3
    <3>3. Reads(V, b2, f, r2)
      BY <3>1, <3>2, ContentIs
    <3> QED
      BY <3>3 DEF Reads
  <2> QED
    BY <2>1, <1>n
<1>7. ASSUME NEW i \in 1 .. n + 1
      PROVE  Wrap(f + i - 1) \in Spots /\ (Wrap(f + i - 1) = r2 <=> i = n + 1)
  <2>1. PICK j \in 0 .. n : j = i - 1 /\ f + i - 1 = f + j
    BY <1>0, <1>m
  <2>2. j \in 0 .. TTY_COOK_BUF_SZ
    BY <1>0, <1>m, <1>2
  <2>3. Wrap(f + j) = IF f + j < TTY_COOK_BUF_SZ THEN f + j ELSE f + j - TTY_COOK_BUF_SZ
    BY <1>0, <2>2, WrapIs
  <2>5. Wrap(f + j) = r2 <=> j = n
    BY <1>0, <1>m, <1>1, <1>2, <2>3
  <2>6. Wrap(f + j) \in Spots
    BY <2>2, WrapIs
  <2>7. j = n <=> i = n + 1
    BY <1>m, <2>1
  <2> QED
    BY <2>1, <2>5, <2>6, <2>7
<1> PICK ch : ch = b[r2]
  OBVIOUS
<1>v. ch \in V
  BY <1>1
<1>8. /\ ch \in V /\ Append(new, ch) \in Seq(V) /\ Len(Append(new, ch)) = n + 1
      /\ \A i \in 1 .. n : Append(new, ch)[i] = new[i]
      /\ Append(new, ch)[n + 1] = ch
  BY ONLY <1>m, <1>1, <1>6, <1>v, AppendProperties
<1>9. ASSUME NEW i \in 1 .. n + 1 PROVE old[i] = Append(new, ch)[i]
  <2>1. CASE i = n + 1
    BY <2>1, <1>5, <1>7, <1>8
  <2>2. CASE i # n + 1
    <3>1. i \in 1 .. n
      BY <1>m, <2>2
    <3>2. new[i] = b[Wrap(f + i - 1)]
      BY <1>3, <1>6, <1>7, <2>2, <3>1
    <3> QED
      BY <3>1, <3>2, <1>5, <1>8
  <2> QED
    BY <2>1, <2>2
<1>10. old = Append(new, ch)
  BY <1>5, <1>8, <1>9, SeqEqual
<1> QED
  BY <1>1, <1>3, <1>4, <1>6, <1>8, <1>10 DEF Fronts

-----------------------------------------------------------------------------
(* Sequences of sequences, and the sequence they make *)

(* g holds what the first n of them make. *)
Joins(g, s, n) == g[1] = s[1] /\ \A i \in 2 .. n : g[i] = g[i - 1] \o s[i]

LEMMA JoinsExist ==
  ASSUME NEW V, NEW s \in Seq(Seq(V)), NEW z \in 1 .. Len(s)
  PROVE  \E g \in [1 .. z -> Seq(V)] : Joins(g, s, z)
<1> DEFINE S == {n \in 1 .. z : \E g \in [1 .. n -> Seq(V)] : Joins(g, s, n)}
<1>0. z \in Nat /\ \A i \in 1 .. z : s[i] \in Seq(V)
  BY LenProperties
<1>1. 1 \in S
  <2>1. PICK g : g = [k \in 1 .. 1 |-> s[1]]
    OBVIOUS
  <2>2. g \in [1 .. 1 -> Seq(V)] /\ Joins(g, s, 1)
    BY <1>0, <2>1 DEF Joins
  <2>3. \E h \in [1 .. 1 -> Seq(V)] : Joins(h, s, 1)
    BY <2>2
  <2> QED
    BY <1>0, <2>3
<1>2. ASSUME NEW n \in 1 .. z - 1, n \in S PROVE n + 1 \in S
  <2>1. PICK g \in [1 .. n -> Seq(V)] : Joins(g, s, n)
    BY <1>2
  <2>2. n \in Nat /\ n + 1 \in 1 .. z /\ s[n + 1] \in Seq(V) /\ g[n] \in Seq(V)
    BY <1>0
  <2>3. PICK x \in Seq(V) : x = g[n] \o s[n + 1]
    BY <2>2, ConcatProperties
  <2>4. PICK h : h = [k \in 1 .. n + 1 |-> IF k = n + 1 THEN x ELSE g[k]]
    OBVIOUS
  <2>5. h \in [1 .. n + 1 -> Seq(V)]
    BY <2>2, <2>4
  <2>6. h[n + 1] = x /\ \A k \in 1 .. n : h[k] = g[k]
    BY <2>2, <2>4
  <2>7. ASSUME NEW i \in 2 .. n + 1 PROVE h[i] = h[i - 1] \o s[i]
    <3>1. CASE i = n + 1
      <4>1. n \in 1 .. n /\ i - 1 = n
        BY <2>2, <3>1
      <4>2. h[i - 1] = g[n]
        BY <2>6, <4>1
      <4> QED
        BY <2>3, <2>6, <3>1, <4>2
    <3>2. CASE i # n + 1
      <4>1. i \in 2 .. n /\ i \in 1 .. n /\ i - 1 \in 1 .. n
        BY <2>2, <3>2
      <4>2. g[i] = g[i - 1] \o s[i]
        BY <2>1, <4>1 DEF Joins
      <4> QED
        BY <2>6, <4>1, <4>2
    <3> QED
      BY <3>1, <3>2
  <2>8. h[1] = s[1]
    BY <2>1, <2>2, <2>6 DEF Joins
  <2>9. \E f \in [1 .. n + 1 -> Seq(V)] : Joins(f, s, n + 1)
    BY <2>5, <2>7, <2>8 DEF Joins
  <2> QED
    BY <2>2, <2>9
<1>3. \A n \in 1 .. z : n \in S
  <2> PICK a : a = 1
    OBVIOUS
  <2>1. a \in Nat /\ a \in S /\ \A n \in a .. z - 1 : n \in S => n + 1 \in S
    BY <1>1, <1>2
  <2> HIDE DEF S
  <2>2. \A n \in a .. z : n \in S
    BY <1>0, <2>1, FromTo
  <2> QED
    BY <2>2
<1> QED
  BY <1>0, <1>3

LEMMA FlattenJoins ==
  ASSUME NEW V, NEW s \in Seq(Seq(V)), s # <<>>
  PROVE  \E g \in [1 .. Len(s) -> Seq(V)] : Joins(g, s, Len(s)) /\ FlattenSeq(s) = g[Len(s)]
<1> DEFINE n == Len(s)
           Is(g) == g = [i \in 1 .. n |-> IF i = 1 THEN s[i] ELSE g[i - 1] \o s[i]]
<1>1. n \in Nat /\ n > 0 /\ n \in 1 .. n
  BY LenProperties, EmptySeq
<1>2. PICK f \in [1 .. n -> Seq(V)] : Joins(f, s, n)
  <2> HIDE DEF n
  <2>1. PICK m : m = n
    OBVIOUS
  <2>2. m \in 1 .. Len(s)
    BY <1>1, <2>1 DEF n
  <2>3. \E g \in [1 .. m -> Seq(V)] : Joins(g, s, m)
    BY <2>2, JoinsExist
  <2> QED
    BY <2>1, <2>3
<1>3. Is(f)
  <2>1. ASSUME NEW i \in 1 .. n PROVE f[i] = IF i = 1 THEN s[i] ELSE f[i - 1] \o s[i]
    <3>1. CASE i = 1
      BY <1>2, <3>1 DEF Joins
    <3>2. CASE i # 1
      <4>1. i \in 2 .. n
        BY <1>1, <3>2
      <4> HIDE DEF n
      <4> QED
        BY <1>2, <3>2, <4>1 DEF Joins
    <3> QED
      BY <3>1, <3>2
  <2> QED
    BY <2>1
<1>4. PICK g : g = CHOOSE h : Is(h)
  OBVIOUS
<1>5. Is(g)
  <2> HIDE DEF Is
  <2> QED
    BY <1>3, <1>4
<1>6. FlattenSeq(s) = g[n]
  BY <1>1, <1>4 DEF FlattenSeq
<1>7. Joins(g, s, n)
  <2>1. g[1] = s[1]
    BY <1>1, <1>5
  <2>2. ASSUME NEW i \in 2 .. n PROVE g[i] = g[i - 1] \o s[i]
    <3>1. i \in 1 .. n /\ i # 1
      BY <1>1
    <3> HIDE DEF n
    <3> QED
      BY <1>5, <3>1
  <2> HIDE DEF n
  <2> QED
    BY <2>1, <2>2 DEF Joins
<1>8. g \in [1 .. n -> Seq(V)]
  <2>1. DOMAIN g = 1 .. n
    BY <1>5
  <2>2. \A i \in 1 .. n : i \in {k \in 1 .. n : g[k] \in Seq(V)}
    <3> PICK a, S : a = 1 /\ S = {k \in 1 .. n : g[k] \in Seq(V)}
      OBVIOUS
    <3>1. \A i \in 1 .. n : s[i] \in Seq(V)
      OBVIOUS
    <3>2. a \in S
      BY <1>1, <1>7, <3>1 DEF Joins
    <3>3. ASSUME NEW k \in a .. n - 1, k \in S PROVE k + 1 \in S
      <4>1. k + 1 \in 2 .. n /\ k + 1 \in 1 .. n /\ (k + 1) - 1 = k
        BY <1>1, <3>3
      <4>2. g[k + 1] = g[k] \o s[k + 1]
        BY <1>7, <4>1 DEF Joins
      <4>3. g[k] \in Seq(V) /\ s[k + 1] \in Seq(V)
        BY <3>1, <3>3, <4>1
      <4>4. g[k] \o s[k + 1] \in Seq(V)
        BY <4>3, ConcatProperties
      <4> QED
        BY <4>1, <4>2, <4>4
    <3>4. a \in Nat /\ n \in Nat
      BY <1>1
    <3> HIDE DEF n
    <3>5. \A i \in a .. n : i \in S
      BY <3>2, <3>3, <3>4, FromTo
    <3> QED
      BY <3>5
  <2>3. g = [i \in 1 .. n |-> g[i]]
    BY <1>5
  <2> HIDE DEF Is
  <2> QED
    BY <2>2, <2>3
<1> QED
  BY <1>6, <1>7, <1>8

LEMMA FlattenEmpty == FlattenSeq(<<>>) = <<>>
BY DEF FlattenSeq

Same(s, t, n) == \A i \in 1 .. n : s[i] = t[i]

LEMMA JoinsUnique ==
  ASSUME NEW n \in Nat, n > 0, NEW s, NEW t, Same(s, t, n),
         NEW g, NEW h, Joins(g, s, n), Joins(h, t, n)
  PROVE  Same(g, h, n)
<1> PICK a, S : a = 1 /\ S = {k \in 1 .. n : g[k] = h[k]}
  OBVIOUS
<1>1. a \in Nat /\ a \in S
  BY DEF Joins, Same
<1>2. ASSUME NEW k \in a .. n - 1, k \in S PROVE k + 1 \in S
  <2>1. k + 1 \in 2 .. n /\ k + 1 \in 1 .. n /\ (k + 1) - 1 = k
    BY <1>2
  <2>2. g[k + 1] = g[(k + 1) - 1] \o s[k + 1] /\ h[k + 1] = h[(k + 1) - 1] \o t[k + 1] /\ s[k + 1] = t[k + 1]
    BY ONLY <2>1, Joins(g, s, n), Joins(h, t, n), Same(s, t, n) DEF Joins, Same
  <2>3. g[k] = h[k]
    BY <1>2
  <2> QED
    BY <2>1, <2>2, <2>3
<1>3. \A k \in a .. n : k \in S
  BY <1>1, <1>2, FromTo
<1> QED
  BY <1>3 DEF Same

LEMMA FlattenType ==
  ASSUME NEW V, NEW s \in Seq(Seq(V))
  PROVE  FlattenSeq(s) \in Seq(V)
<1>1. CASE s = <<>>
  BY <1>1, FlattenEmpty, EmptySeq
<1>2. CASE s # <<>>
  <2>1. Len(s) \in 1 .. Len(s)
    BY <1>2, EmptySeq, LenProperties
  <2>2. PICK g \in [1 .. Len(s) -> Seq(V)] : FlattenSeq(s) = g[Len(s)]
    BY <1>2, FlattenJoins
  <2> QED
    BY <2>1, <2>2
<1> QED
  BY <1>1, <1>2

LEMMA FlattenAppend ==
  ASSUME NEW V, NEW s \in Seq(Seq(V)), NEW x \in Seq(V)
  PROVE  FlattenSeq(Append(s, x)) = FlattenSeq(s) \o x
<1> PICK t : t = Append(s, x)
  OBVIOUS
<1> PICK n : n = Len(s)
  OBVIOUS
<1>1. /\ n \in Nat /\ t \in Seq(Seq(V)) /\ Len(t) = n + 1 /\ t # <<>> /\ t[n + 1] = x
      /\ \A i \in 1 .. n : t[i] = s[i]
  BY AppendProperties
<1>2. PICK h \in [1 .. Len(t) -> Seq(V)] : Joins(h, t, Len(t)) /\ FlattenSeq(t) = h[Len(t)]
  BY <1>1, FlattenJoins
<1>3. h[1] = t[1] /\ \A i \in 2 .. n + 1 : h[i] = h[i - 1] \o t[i]
  BY <1>1, <1>2 DEF Joins
<1>4. CASE n = 0
  <2>1. s = <<>> /\ FlattenSeq(s) = <<>>
    BY <1>4, EmptySeq, FlattenEmpty
  <2>2. FlattenSeq(t) = x
    BY <1>1, <1>2, <1>3, <1>4
  <2> QED
    BY <2>1, <2>2, ConcatEmptySeq
<1>5. CASE n > 0
  <2>1. s # <<>>
    BY <1>5
  <2>2. PICK g \in [1 .. Len(s) -> Seq(V)] : Joins(g, s, Len(s)) /\ FlattenSeq(s) = g[Len(s)]
    BY <2>1, FlattenJoins
  <2>3. Joins(g, s, n) /\ FlattenSeq(s) = g[n]
    BY <2>2
  <2>4. Joins(h, t, n)
    <3>1. \A i \in 2 .. n : i \in 2 .. n + 1
      BY <1>1
    <3> QED
      BY <1>3, <3>1 DEF Joins
  <2>5. \A i \in 1 .. n : h[i] = g[i]
    <3>1. Same(t, s, n) /\ n \in Nat /\ n > 0
      BY <1>1, <1>5 DEF Same
    <3>2. Same(h, g, n)
      BY ONLY <3>1, <2>3, <2>4, JoinsUnique
    <3> QED
      BY <3>2 DEF Same
  <2>6. n + 1 \in 2 .. n + 1 /\ n \in 1 .. n /\ (n + 1) - 1 = n
    BY <1>1, <1>5
  <2>7. h[n + 1] = g[n] \o x
    <3>1. h[n + 1] = h[(n + 1) - 1] \o t[n + 1]
      BY <1>3, <2>6
    <3> QED
      BY <1>1, <2>5, <2>6, <3>1
  <2> QED
    BY <1>1, <1>2, <2>3, <2>7
<1> QED
  BY <1>1, <1>4, <1>5

LEMMA FlattenFirst ==
  ASSUME NEW V, NEW s \in Seq(Seq(V)), s # <<>>
  PROVE  FlattenSeq(s) = Head(s) \o FlattenSeq(Tail(s))
<1> PICK t, x : t = Tail(s) /\ x = Head(s)
  OBVIOUS
<1> PICK n : n = Len(t)
  OBVIOUS
<1>1. /\ n \in Nat /\ t \in Seq(Seq(V)) /\ Len(s) = n + 1 /\ x = s[1] /\ x \in Seq(V)
      /\ \A i \in 1 .. n : t[i] = s[i + 1]
  BY HeadTailProperties
<1>2. PICK g \in [1 .. Len(s) -> Seq(V)] : Joins(g, s, Len(s)) /\ FlattenSeq(s) = g[Len(s)]
  BY FlattenJoins
<1>3. g[1] = x /\ \A i \in 2 .. n + 1 : g[i] = g[i - 1] \o s[i]
  BY <1>1, <1>2 DEF Joins
<1>4. CASE n = 0
  <2>1. t = <<>> /\ FlattenSeq(t) = <<>>
    BY <1>1, <1>4, EmptySeq, FlattenEmpty
  <2>2. FlattenSeq(s) = x
    <3>1. Len(s) = 1
      BY <1>1, <1>4
    <3> QED
      BY <1>2, <1>3, <3>1
  <2> QED
    BY <1>1, <2>1, <2>2, ConcatEmptySeq
<1>5. CASE n > 0
  <2>1. t # <<>>
    BY ONLY <1>5, n = Len(t), EmptySeq
  <2>2. PICK h \in [1 .. Len(t) -> Seq(V)] : Joins(h, t, Len(t)) /\ FlattenSeq(t) = h[Len(t)]
    BY <1>1, <2>1, FlattenJoins
  <2>3. h[1] = t[1] /\ \A i \in 2 .. n : h[i] = h[i - 1] \o t[i]
    BY <2>2 DEF Joins
  <2> PICK a, S : a = 1 /\ S = {k \in 1 .. n : g[k + 1] = x \o h[k]}
    OBVIOUS
  <2>4. a \in Nat /\ a \in S
    <3>1. 2 \in 2 .. n + 1 /\ 1 \in 1 .. n /\ 2 - 1 = 1 /\ 1 + 1 = 2
      BY <1>1, <1>5
    <3>2. g[2] = g[1] \o s[2] /\ t[1] = s[2]
      BY <1>1, <1>3, <3>1
    <3> QED
      BY <1>3, <2>3, <3>1, <3>2
  <2>5. ASSUME NEW k \in a .. n - 1, k \in S PROVE k + 1 \in S
    <3>1. k \in 1 .. n /\ k + 1 \in 2 .. n /\ k + 1 \in 1 .. n /\ (k + 1) - 1 = k
      BY <1>1, <2>5
    <3>2. (k + 1) + 1 \in 2 .. n + 1 /\ ((k + 1) + 1) - 1 = k + 1
      BY <1>1, <2>5
    <3>3. g[(k + 1) + 1] = g[k + 1] \o s[(k + 1) + 1]
      BY <1>3, <3>2
    <3>4. s[(k + 1) + 1] = t[k + 1] /\ h[k + 1] = h[k] \o t[k + 1]
      BY <1>1, <2>3, <3>1
    <3>5. g[k + 1] = x \o h[k]
      BY <2>5
    <3>6. h[k] \in Seq(V) /\ t[k + 1] \in Seq(V)
      <4>1. k \in 1 .. Len(t) /\ k + 1 \in 1 .. Len(t)
        BY <3>1
      <4>2. h[k] \in Seq(V)
        BY <2>2, <4>1
      <4>3. t[k + 1] \in Seq(V)
        BY <1>1, <4>1
      <4> QED
        BY <4>2, <4>3
    <3>7. (x \o h[k]) \o t[k + 1] = x \o (h[k] \o t[k + 1])
      <4> PICK p, q : p = h[k] /\ q = t[k + 1]
        OBVIOUS
      <4>1. x \in Seq(V) /\ p \in Seq(V) /\ q \in Seq(V)
        BY <1>1, <3>6
      <4>2. (x \o p) \o q = x \o (p \o q)
        BY ONLY <4>1, SMTT(60)
      <4> QED
        BY <4>2
    <3> QED
      BY <3>1, <3>3, <3>4, <3>5, <3>7
  <2>6. \A k \in a .. n : k \in S
    BY <1>1, <2>4, <2>5, FromTo
  <2>7. n \in S
    <3>1. n \in a .. n
      BY <1>1, <1>5
    <3> QED
      BY <2>6, <3>1
  <2> QED
    BY <1>1, <1>2, <2>2, <2>7
<1> QED
  BY <1>1, <1>4, <1>5

-----------------------------------------------------------------------------
(* The lines in the queue *)

Ended(ls) == [i \in 1 .. Len(ls) |-> Append(ls[i], NoChar)]

LEMMA EndedType ==
  ASSUME NEW ls \in Seq(Seq(Bytes))
  PROVE  /\ Ended(ls) \in Seq(Seq(Bytes)) /\ Len(Ended(ls)) = Len(ls)
         /\ \A i \in 1 .. Len(ls) : Ended(ls)[i] = Append(ls[i], NoChar)
<1> PICK n : n = Len(ls)
  OBVIOUS
<1>1. n \in Nat /\ \A i \in 1 .. n : ls[i] \in Seq(Bytes)
  BY LenProperties
<1>2. NoChar \in Bytes
  BY DEF Bytes, Chars
<1>3. \A i \in 1 .. n : Append(ls[i], NoChar) \in Seq(Bytes)
  BY <1>1, <1>2, AppendProperties
<1>4. Ended(ls) \in [1 .. n -> Seq(Bytes)]
  BY <1>3 DEF Ended
<1>5. Ended(ls) \in Seq(Seq(Bytes)) /\ Len(Ended(ls)) = n
  <2> PICK S, e : S = Seq(Bytes) /\ e = Ended(ls)
    OBVIOUS
  <2>1. e \in [1 .. n -> S]
    BY <1>4
  <2>2. e \in Seq(S) /\ Len(e) = n
    BY ONLY <1>1, <2>1
  <2> QED
    BY <2>2
<1> QED
  BY <1>5 DEF Ended

LEMMA EndedAppend ==
  ASSUME NEW ls \in Seq(Seq(Bytes)), NEW l \in Seq(Bytes)
  PROVE  Ended(Append(ls, l)) = Append(Ended(ls), Append(l, NoChar))
<1> PICK n, m, e, le : n = Len(ls) /\ m = Append(ls, l) /\ e = Ended(ls) /\ le = Append(l, NoChar)
  OBVIOUS
<1>1. /\ n \in Nat /\ m \in Seq(Seq(Bytes)) /\ Len(m) = n + 1 /\ m[n + 1] = l
      /\ \A i \in 1 .. n : m[i] = ls[i]
  BY AppendProperties
<1>2. le \in Seq(Bytes)
  BY AppendProperties DEF Bytes, Chars
<1>3. e \in Seq(Seq(Bytes)) /\ Len(e) = n /\ \A i \in 1 .. n : e[i] = Append(ls[i], NoChar)
  BY EndedType
<1>4. /\ Ended(m) \in Seq(Seq(Bytes)) /\ Len(Ended(m)) = n + 1
      /\ \A i \in 1 .. n + 1 : Ended(m)[i] = Append(m[i], NoChar)
  BY <1>1, EndedType
<1>5. /\ Append(e, le) \in Seq(Seq(Bytes)) /\ Len(Append(e, le)) = n + 1
      /\ \A i \in 1 .. n : Append(e, le)[i] = e[i]
      /\ Append(e, le)[n + 1] = le
  BY <1>2, <1>3, AppendProperties
<1>6. ASSUME NEW i \in 1 .. n + 1 PROVE Ended(m)[i] = Append(e, le)[i]
  <2>1. CASE i = n + 1
    BY <1>1, <1>4, <1>5, <2>1
  <2>2. CASE i # n + 1
    <3>1. i \in 1 .. n
      BY <1>1, <2>2
    <3> QED
      BY <1>1, <1>3, <1>4, <1>5, <3>1
  <2> QED
    BY <2>1, <2>2
<1>7. Ended(m) = Append(e, le)
  BY <1>4, <1>5, <1>6, SeqEqual
<1> QED
  BY <1>7

LEMMA EndedFirst ==
  ASSUME NEW ls \in Seq(Seq(Bytes)), ls # <<>>
  PROVE  /\ Ended(ls) # <<>> /\ Head(Ended(ls)) = Append(Head(ls), NoChar)
         /\ Tail(Ended(ls)) = Ended(Tail(ls))
<1> PICK n, t, e : n = Len(ls) /\ t = Tail(ls) /\ e = Ended(ls)
  OBVIOUS
<1>1. /\ n \in Nat /\ n > 0 /\ t \in Seq(Seq(Bytes)) /\ Len(t) = n - 1 /\ Head(ls) = ls[1]
      /\ \A i \in 1 .. n - 1 : t[i] = ls[i + 1]
  BY HeadTailProperties, EmptySeq
<1>2. e \in Seq(Seq(Bytes)) /\ Len(e) = n /\ \A i \in 1 .. n : e[i] = Append(ls[i], NoChar)
  BY EndedType
<1>3. e # <<>>
  BY ONLY <1>1, <1>2, EmptySeq
<1>4. /\ Tail(e) \in Seq(Seq(Bytes)) /\ Len(Tail(e)) = n - 1 /\ Head(e) = e[1]
      /\ \A i \in 1 .. n - 1 : Tail(e)[i] = e[i + 1]
  BY ONLY <1>2, <1>3, HeadTailProperties
<1>5. /\ Ended(t) \in Seq(Seq(Bytes)) /\ Len(Ended(t)) = n - 1
      /\ \A i \in 1 .. n - 1 : Ended(t)[i] = Append(t[i], NoChar)
  BY <1>1, EndedType
<1>6. ASSUME NEW i \in 1 .. n - 1 PROVE Tail(e)[i] = Ended(t)[i]
  <2>1. i + 1 \in 1 .. n
    BY <1>1
  <2> QED
    BY <1>1, <1>2, <1>4, <1>5, <2>1
<1>7. Tail(e) = Ended(t)
  BY <1>1, <1>4, <1>5, <1>6, SeqEqual
<1>8. Head(e) = Append(ls[1], NoChar)
  BY <1>1, <1>2, <1>4
<1> QED
  BY <1>1, <1>3, <1>7, <1>8

(* Something appended to two sequences put together. *)
Inside(s, t, x) == Append(s \o t, x) = s \o Append(t, x)

LEMMA AppendInside ==
  ASSUME NEW V, NEW s \in Seq(V), NEW t \in Seq(V), NEW x \in V
  PROVE  Inside(s, t, x)
<1>1. s \o t \in Seq(V) /\ <<x>> \in Seq(V)
  BY ConcatProperties
<1>2. Append(s \o t, x) = (s \o t) \o <<x>>
  BY <1>1, AppendIsConcat
<1>3. Append(t, x) = t \o <<x>>
  BY AppendIsConcat
<1>4. (s \o t) \o <<x>> = s \o (t \o <<x>>)
  BY <1>1, SMTT(60)
<1> QED
  BY <1>2, <1>3, <1>4 DEF Inside

-----------------------------------------------------------------------------
(* f + i, around the end of the queue *)
Around(f, i) ==
  /\ Wrap(f + i) \in Spots
  /\ Wrap(f + i) = IF f + i < TTY_COOK_BUF_SZ THEN f + i ELSE f + i - TTY_COOK_BUF_SZ

LEMMA WrapAround ==
  ASSUME NEW f \in Spots, NEW i \in 0 .. TTY_COOK_BUF_SZ
  PROVE  Around(f, i)
<1>1. f \in Nat /\ i \in Nat /\ TTY_COOK_BUF_SZ \in Nat
  BY QueueSize DEF Spots
<1> QED
  BY <1>1, WrapIs DEF Around

(* What a reader takes from the queue: the bytes of H, up to the next NUL. *)
Taken(V, b, f, r, H, R) ==
  /\ Wrap(f + Len(H) + 1) \in Spots
  /\ Content(b, Wrap(f + Len(H) + 1), r) = R
  /\ b[Before(Wrap(f + Len(H) + 1))] = NoChar
  /\ Len(H) \in 0 .. TTY_COOK_BUF_SZ
  /\ \A j \in 0 .. Len(H) - 1 : b[Wrap(f + j)] = H[j + 1]
  /\ b[Wrap(f + Len(H))] = NoChar

LEMMA ReadTakes ==
  ASSUME NEW V, NoChar \in V, NEW b \in [Spots -> V], NEW f \in Spots, NEW r \in Spots,
         NEW H \in Seq(V), NEW R \in Seq(V), Content(b, f, r) = Append(H, NoChar) \o R
  PROVE  Taken(V, b, f, r, H, R)
<1> PICK C, n, L, K : C = Content(b, f, r) /\ n = Between(f, r) /\ L = Len(H) /\ K = Len(R)
  OBVIOUS
<1>0. /\ TTY_COOK_BUF_SZ \in Nat /\ TTY_COOK_BUF_SZ > 1 /\ f \in Nat /\ r \in Nat
      /\ f < TTY_COOK_BUF_SZ /\ r < TTY_COOK_BUF_SZ /\ L \in Nat /\ K \in Nat
  BY QueueSize, LenProperties DEF Spots
<1>1. /\ Append(H, NoChar) \in Seq(V) /\ Len(Append(H, NoChar)) = L + 1
      /\ \A i \in 1 .. L : Append(H, NoChar)[i] = H[i]
      /\ Append(H, NoChar)[L + 1] = NoChar
  BY AppendProperties
<1>2. /\ Len(C) = L + 1 + K
      /\ \A i \in 1 .. L : C[i] = H[i]
      /\ C[L + 1] = NoChar
      /\ \A i \in 1 .. K : C[L + 1 + i] = R[i]
  <2> PICK A : A = Append(H, NoChar)
    OBVIOUS
  <2>1. A \in Seq(V) /\ Len(A) = L + 1 /\ C = A \o R
    BY <1>1
  <2>2. /\ Len(C) = L + 1 + K
        /\ \A i \in 1 .. L + 1 + K : C[i] = IF i <= L + 1 THEN A[i] ELSE R[i - (L + 1)]
    BY <2>1, ConcatProperties
  <2>3. ASSUME NEW i \in 1 .. K PROVE C[L + 1 + i] = R[i]
    <3>1. L + 1 + i \in 1 .. L + 1 + K /\ ~(L + 1 + i <= L + 1) /\ (L + 1 + i) - (L + 1) = i
      BY <1>0
    <3> QED
      BY <2>2, <3>1
  <2>4. ASSUME NEW i \in 1 .. L + 1 PROVE C[i] = A[i]
    <3>1. i \in 1 .. L + 1 + K /\ i <= L + 1
      BY <1>0
    <3> QED
      BY <2>2, <3>1
  <2>5. L + 1 \in 1 .. L + 1 /\ \A i \in 1 .. L : i \in 1 .. L + 1
    BY <1>0
  <2> QED
    BY <1>1, <2>2, <2>3, <2>4, <2>5
<1>3. Reads(V, b, f, r)
  BY ContentIs
<1>4. n = L + 1 + K /\ \A i \in 1 .. n : C[i] = b[Wrap(f + i - 1)]
  BY <1>2, <1>3 DEF Reads
<1>5. n < TTY_COOK_BUF_SZ /\ n = IF f <= r THEN r - f ELSE r - f + TTY_COOK_BUF_SZ
  <2>1. /\ Between(f, r) \in Spots
        /\ f <= r => Between(f, r) = r - f
        /\ f > r => Between(f, r) = r - f + TTY_COOK_BUF_SZ
    BY BetweenIs
  <2> QED
    BY <1>0, <2>1 DEF Spots
<1> PICK f2 : f2 = Wrap(f + L + 1)
  OBVIOUS
<1>6. f2 \in Spots /\ f2 = IF f + L + 1 < TTY_COOK_BUF_SZ THEN f + L + 1 ELSE f + L + 1 - TTY_COOK_BUF_SZ
  <2> PICK j : j = L + 1
    OBVIOUS
  <2>1. j \in 0 .. TTY_COOK_BUF_SZ /\ f + j = f + L + 1
    BY <1>0, <1>4, <1>5
  <2>2. f2 = Wrap(f + j)
    BY <2>1
  <2> QED
    <3>1. Around(f, j)
      BY <2>1, WrapAround
    <3> QED
      BY <1>0, <2>1, <2>2, <3>1 DEF Around
<1>s. f2 \in Nat /\ f2 < TTY_COOK_BUF_SZ
  BY <1>0, <1>6 DEF Spots
<1>7. Between(f2, r) = K
  <2>1. /\ Between(f2, r) \in Spots
        /\ f2 <= r => Between(f2, r) = r - f2
        /\ f2 > r => Between(f2, r) = r - f2 + TTY_COOK_BUF_SZ
    BY <1>6, BetweenIs
  <2> PICK w, N : w = Between(f2, r) /\ N = TTY_COOK_BUF_SZ
    OBVIOUS
  <2>2. /\ w \in Nat
        /\ f2 <= r => w = r - f2
        /\ f2 > r => w = r - f2 + N
    BY <1>0, <2>1 DEF Spots
  <2>3. n = L + 1 + K /\ n < N
    BY <1>4, <1>5
  <2>4. n = IF f <= r THEN r - f ELSE r - f + N
    BY <1>5
  <2>5. f2 = IF f + L + 1 < N THEN f + L + 1 ELSE f + L + 1 - N
    BY <1>6
  <2>6. /\ N \in Nat /\ f \in Nat /\ r \in Nat /\ f < N /\ r < N /\ L \in Nat /\ K \in Nat
        /\ f2 \in Nat /\ f2 < N
    BY <1>0, <1>s
  <2>7. w = K
    BY ONLY <2>2, <2>3, <2>4, <2>5, <2>6
  <2> QED
    BY <2>7
<1>8. Reads(V, b, f2, r)
  BY <1>6, ContentIs
<1>9. ASSUME NEW i \in 1 .. K PROVE Content(b, f2, r)[i] = R[i]
  <2> PICK j, k : j = i - 1 /\ k = L + i
    OBVIOUS
  <2>1. j \in 0 .. TTY_COOK_BUF_SZ /\ k \in 0 .. TTY_COOK_BUF_SZ /\ f2 + i - 1 = f2 + j
    BY <1>0, <1>4, <1>5
  <2>2. Wrap(f2 + j) = IF f2 + j < TTY_COOK_BUF_SZ THEN f2 + j ELSE f2 + j - TTY_COOK_BUF_SZ
    BY <1>6, <2>1, WrapAround DEF Around
  <2>3. Wrap(f + k) = IF f + k < TTY_COOK_BUF_SZ THEN f + k ELSE f + k - TTY_COOK_BUF_SZ
    BY <2>1, WrapAround DEF Around
  <2>4. Wrap(f2 + j) = Wrap(f + k)
    <3> PICK N, p, q : N = TTY_COOK_BUF_SZ /\ p = Wrap(f2 + j) /\ q = Wrap(f + k)
      OBVIOUS
    <3>1. (p = IF f2 + j < N THEN f2 + j ELSE f2 + j - N) /\ q = IF f + k < N THEN f + k ELSE f + k - N
      BY <2>2, <2>3
    <3>2. f2 = IF f + L + 1 < N THEN f + L + 1 ELSE f + L + 1 - N
      BY <1>6
    <3>3. /\ N \in Nat /\ f \in Nat /\ f < N /\ L \in Nat /\ f2 \in Nat /\ i \in Nat /\ i > 0
          /\ j = i - 1 /\ k = L + i
      BY <1>0, <1>s
    <3>4. L + i < N
      BY <1>0, <1>4, <1>5
    <3>5. p = q
      BY ONLY <3>1, <3>2, <3>3, <3>4
    <3> QED
      BY <3>5
  <2>5. Content(b, f2, r)[i] = b[Wrap(f2 + j)]
    BY <1>7, <1>8, <2>1 DEF Reads
  <2>6. L + 1 + i \in 1 .. n /\ f + (L + 1 + i) - 1 = f + k
    BY <1>0, <1>4
  <2>7. C[L + 1 + i] = b[Wrap(f + k)]
    BY <1>4, <2>6
  <2> QED
    BY <1>2, <2>4, <2>5, <2>7
<1>10. Content(b, f2, r) = R
  <2>1. Content(b, f2, r) \in Seq(V) /\ Len(Content(b, f2, r)) = K
    BY <1>7, <1>8 DEF Reads
  <2> QED
    BY <1>9, <2>1, SeqEqual
<1>11. ASSUME NEW j \in 0 .. L PROVE b[Wrap(f + j)] = C[j + 1]
  <2>1. j + 1 \in 1 .. n /\ f + (j + 1) - 1 = f + j
    BY <1>0, <1>4
  <2> QED
    BY <1>4, <2>1
<1>12. ASSUME NEW j \in 0 .. L - 1 PROVE b[Wrap(f + j)] = H[j + 1]
  <2>1. j \in 0 .. L /\ j + 1 \in 1 .. L
    BY <1>0
  <2> QED
    BY <1>2, <1>11, <2>1
<1>13. b[Wrap(f + L)] = NoChar
  <2>1. L \in 0 .. L
    BY <1>0
  <2> QED
    BY <1>2, <1>11, <2>1
<1>14. Before(f2) = Wrap(f + L)
  <2>1. L \in 0 .. TTY_COOK_BUF_SZ
    BY <1>0, <1>4, <1>5
  <2>2. Wrap(f + L) = IF f + L < TTY_COOK_BUF_SZ THEN f + L ELSE f + L - TTY_COOK_BUF_SZ
    BY <2>1, WrapAround DEF Around
  <2>3. (f2 = 0 => Before(f2) = TTY_COOK_BUF_SZ - 1) /\ (f2 > 0 => Before(f2) = f2 - 1)
    BY <1>6, BeforeIs
  <2> QED
    BY <1>0, <1>4, <1>5, <1>6, <2>2, <2>3 DEF Spots
<1>15. L \in 0 .. TTY_COOK_BUF_SZ
  BY <1>0, <1>4, <1>5
<1> QED
  BY <1>6, <1>10, <1>12, <1>13, <1>14, <1>15 DEF Taken

(* H is what the reader finds there. *)
LEMMA UpToNulIs ==
  ASSUME NEW V, NEW H \in Seq(V), \A i \in 1 .. Len(H) : H[i] # NoChar, NEW R,
         Taken(V, buf, front, rear, H, R)
  PROVE  UpToNul = H
<1> DEFINE P(k) == buf[Wrap(front + k)] = NoChar /\ \A j \in 0 .. k - 1 : buf[Wrap(front + j)] # NoChar
<1> PICK L : L = Len(H)
  OBVIOUS
<1>0. L \in Nat
  BY LenProperties
<1>1. P(L) /\ L \in 0 .. TTY_COOK_BUF_SZ /\ \A j \in 0 .. L - 1 : buf[Wrap(front + j)] = H[j + 1]
  <2>1. \A j \in 0 .. L - 1 : buf[Wrap(front + j)] = H[j + 1]
    BY DEF Taken
  <2>2. \A j \in 0 .. L - 1 : j + 1 \in 1 .. L
    BY <1>0
  <2> QED
    BY <2>1, <2>2 DEF Taken
<1>2. PICK m : m = CHOOSE k \in 0 .. TTY_COOK_BUF_SZ : P(k)
  OBVIOUS
<1>3. m \in 0 .. TTY_COOK_BUF_SZ /\ P(m)
  <2> HIDE DEF P
  <2> QED
    BY <1>1, <1>2
<1>4. m = L
  <2>1. m \in Nat
    BY <1>1, <1>3, QueueSize
  <2>2. ~(m < L)
    <3> SUFFICES ASSUME m < L PROVE FALSE
      OBVIOUS
    <3>1. m \in 0 .. L - 1
      BY <1>0, <2>1
    <3> QED
      BY <1>1, <1>3, <3>1
  <2>3. ~(L < m)
    <3> SUFFICES ASSUME L < m PROVE FALSE
      OBVIOUS
    <3>1. L \in 0 .. m - 1
      BY <1>0, <2>1
    <3> QED
      BY <1>1, <1>3, <3>1
  <2> QED
    BY <1>0, <2>1, <2>2, <2>3
<1>5. UpToNul = [i \in 1 .. L |-> buf[Wrap(front + (i - 1))]]
  BY <1>2, <1>4 DEF UpToNul
<1>6. \A i \in 1 .. L : buf[Wrap(front + (i - 1))] = H[i]
  <2> SUFFICES ASSUME NEW i \in 1 .. L PROVE buf[Wrap(front + (i - 1))] = H[i]
    OBVIOUS
  <2>1. i - 1 \in 0 .. L - 1 /\ (i - 1) + 1 = i
    BY <1>0
  <2> QED
    BY <1>1, <2>1
<1>7. H = [i \in 1 .. L |-> H[i]]
  BY LenProperties
<1> QED
  BY <1>5, <1>6, <1>7

-----------------------------------------------------------------------------
LineTypes ==
  /\ buf \in [Spots -> Bytes] /\ front \in Spots /\ rear \in Spots
  /\ ev \in EventRecords
  /\ finished \in Seq(Seq(Text)) /\ pending \in Seq(Text)
  /\ cooked \in Nat /\ reader \in {"wait", "read"}

(* What the queue holds between its front and its rear; the byte before    *)
(* the front, where tty_pop_back looks last, is a NUL.                     *)
QueueHolds ==
  stopped = "no" =>
    /\ Content(buf, front, rear) = FlattenSeq(Ended(finished)) \o pending
    /\ buf[Before(front)] = NoChar
    /\ intact

LinesInv == LineTypes /\ Len(finished) = cooked + One(reader = "read") /\ QueueHolds

LEMMA LinesInit == InputInit => LinesInv
<1> SUFFICES ASSUME InputInit PROVE LinesInv
  OBVIOUS
<1>1. TTY_COOK_BUF_SZ \in Nat /\ TTY_COOK_BUF_SZ > 1
  BY QueueSize
<1>2. front = 0 /\ rear = 0 /\ 0 \in Spots /\ finished = <<>> /\ pending = <<>>
  BY <1>1 DEF InputInit, Spots
<1>3. /\ buf \in [Spots -> Bytes]
      /\ \A i \in Spots : i # 0 => buf[i] = NoChar
  BY DEF InputInit, Spots, Bytes, Chars, NoChar
<1>4. LineTypes
  BY <1>2, <1>3 DEF InputInit, LineTypes, EventRecords, NoEvent, NoChar, Chars
<1>5. buf[Before(front)] = NoChar
  BY <1>1, <1>2, <1>3, BeforeIs
<1>6. Content(buf, front, rear) = <<>>
  <2>1. Between(front, rear) = 0
    BY <1>1, <1>2, BetweenIs
  <2>2. Reads(Bytes, buf, front, rear)
    BY <1>2, <1>3, ContentIs
  <2> QED
    BY <2>1, <2>2, EmptySeq DEF Reads
<1>7. FlattenSeq(Ended(finished)) \o pending = <<>>
  <2>1. Ended(<<>>) = <<>>
    BY DEF Ended
  <2> QED
    BY <1>2, <2>1, FlattenEmpty
<1>8. Len(finished) = cooked + One(reader = "read")
  BY <1>2 DEF InputInit, One
<1> QED
  BY <1>4, <1>5, <1>6, <1>7, <1>8 DEF LinesInv, QueueHolds, InputInit

(* What does not touch the queue, its lines or its reader *)
LEMMA LinesElsewhere ==
  ASSUME LinesInv, stopped = "no", UNCHANGED lineVars, ev' \in EventRecords
  PROVE  LinesInv'
<1>1. UNCHANGED <<buf, front, rear, cooked, reader, finished, pending, intact>>
  BY DEF lineVars, queueVars
<1>2. LineTypes'
  BY <1>1 DEF LinesInv, LineTypes
<1>3. QueueHolds'
  BY <1>1 DEF LinesInv, QueueHolds, Content
<1> QED
  BY <1>1, <1>2, <1>3 DEF LinesInv

LEMMA WaitCookedLines ==
  ASSUME LinesInv, stopped = "no", WaitCooked
  PROVE  LinesInv'
<1>1. UNCHANGED <<buf, front, rear, finished, pending, intact, ev>>
  BY DEF WaitCooked, queueVars
<1>2. reader = "wait" /\ reader' = "read" /\ cooked > 0 /\ cooked' = cooked - 1
  BY DEF WaitCooked
<1>3. LineTypes'
  BY <1>1, <1>2 DEF LinesInv, LineTypes
<1>4. QueueHolds'
  BY <1>1 DEF LinesInv, QueueHolds, Content
<1>5. Len(finished) = cooked /\ cooked \in Nat
  BY <1>2 DEF LinesInv, LineTypes, One
<1> QED
  BY <1>1, <1>2, <1>3, <1>4, <1>5 DEF LinesInv, One

LEMMA TextIsBytes ==
  /\ Text \in SUBSET Bytes /\ NoChar \in Bytes /\ NoChar \notin Text
  /\ Seq(Text) \subseteq Seq(Bytes) /\ Seq(Seq(Text)) \subseteq Seq(Seq(Bytes))
<1>1. Text \in SUBSET Bytes /\ NoChar \in Bytes /\ NoChar \notin Text
  BY DEF Text, Bytes, Chars, NoChar
<1>2. Seq(Text) \subseteq Seq(Bytes)
  BY <1>1, SeqMonotonic
<1>3. Seq(Seq(Text)) \subseteq Seq(Seq(Bytes))
  BY <1>2, SeqMonotonic
<1> QED
  BY <1>1, <1>2, <1>3

(* The lines finished and the one being typed are in the queue one after   *)
(* the other.                                                              *)
LEMMA HeldType ==
  ASSUME LinesInv
  PROVE  /\ finished \in Seq(Seq(Bytes)) /\ pending \in Seq(Bytes)
         /\ Ended(finished) \in Seq(Seq(Bytes))
         /\ FlattenSeq(Ended(finished)) \in Seq(Bytes)
<1>1. finished \in Seq(Seq(Bytes)) /\ pending \in Seq(Bytes)
  BY TextIsBytes DEF LinesInv, LineTypes
<1>2. Ended(finished) \in Seq(Seq(Bytes))
  BY <1>1, EndedType
<1> QED
  BY <1>1, <1>2, FlattenType

(* The reader's line is the first one finished. *)
LEMMA ReaderTakes ==
  ASSUME LinesInv, stopped = "no", reader = "read"
  PROVE  /\ finished # <<>>
         /\ Taken(Bytes, buf, front, rear, Head(finished), FlattenSeq(Ended(Tail(finished))) \o pending)
         /\ UpToNul = Head(finished)
<1> PICK H, E, T : H = Head(finished) /\ E = Ended(finished) /\ T = FlattenSeq(Ended(Tail(finished)))
  OBVIOUS
<1>1. finished # <<>>
  BY EmptySeq DEF LinesInv, LineTypes, One
<1>2. H \in Seq(Text) /\ Tail(finished) \in Seq(Seq(Text))
  BY <1>1, HeadTailProperties DEF LinesInv, LineTypes
<1>3. /\ H \in Seq(Bytes) /\ Tail(finished) \in Seq(Seq(Bytes)) /\ finished \in Seq(Seq(Bytes))
      /\ pending \in Seq(Bytes)
  BY <1>2, TextIsBytes, HeldType
<1>4. E \in Seq(Seq(Bytes)) /\ E # <<>> /\ Head(E) = Append(H, NoChar) /\ Tail(E) = Ended(Tail(finished))
  BY <1>1, <1>3, EndedFirst, EndedType
<1>5. FlattenSeq(E) = Append(H, NoChar) \o T
  BY <1>4, FlattenFirst
<1>6. T \in Seq(Bytes) /\ Append(H, NoChar) \in Seq(Bytes)
  <2>1. Ended(Tail(finished)) \in Seq(Seq(Bytes))
    BY <1>3, EndedType
  <2> QED
    BY <1>3, <2>1, TextIsBytes, FlattenType, AppendProperties
<1>7. (Append(H, NoChar) \o T) \o pending = Append(H, NoChar) \o (T \o pending)
  <2> PICK a, p : a = Append(H, NoChar) /\ p = pending
    OBVIOUS
  <2>1. a \in Seq(Bytes) /\ T \in Seq(Bytes) /\ p \in Seq(Bytes)
    BY <1>3, <1>6
  <2>2. (a \o T) \o p = a \o (T \o p)
    BY ONLY <2>1, SMTT(60)
  <2> QED
    BY <2>2
<1>8. T \o pending \in Seq(Bytes)
  BY <1>3, <1>6, ConcatProperties
<1>9. Content(buf, front, rear) = Append(H, NoChar) \o (T \o pending)
  BY <1>5, <1>7 DEF LinesInv, QueueHolds
<1>10. Taken(Bytes, buf, front, rear, H, T \o pending)
  <2> PICK b, f, r, R : b = buf /\ f = front /\ r = rear /\ R = T \o pending
    OBVIOUS
  <2>1. b \in [Spots -> Bytes] /\ f \in Spots /\ r \in Spots /\ R \in Seq(Bytes) /\ NoChar \in Bytes
    BY <1>8, TextIsBytes DEF LinesInv, LineTypes
  <2>2. Content(b, f, r) = Append(H, NoChar) \o R
    BY <1>9
  <2>3. Taken(Bytes, b, f, r, H, R)
    BY ONLY <1>3, <2>1, <2>2, ReadTakes
  <2> QED
    BY <2>3
<1>11. \A i \in 1 .. Len(H) : H[i] # NoChar
  BY <1>2, TextIsBytes
<1>12. UpToNul = H
  BY <1>3, <1>10, <1>11, UpToNulIs
<1> QED
  BY <1>1, <1>10, <1>12

LEMMA ReadLines ==
  ASSUME LinesInv, stopped = "no", NEW count, tty_read(count)
  PROVE  LinesInv'
<1>1. /\ reader = "read" /\ reader' = "wait" /\ finished' = Tail(finished)
      /\ front' = Wrap(front + Len(UpToNul) + 1)
      /\ intact' = (intact /\ Prefix(UpToNul, count) = Prefix(Head(finished), count))
      /\ UNCHANGED <<buf, rear, cooked, pending, ev, stopped>>
  BY DEF tty_read
<1>2. /\ finished # <<>>
      /\ Taken(Bytes, buf, front, rear, Head(finished), FlattenSeq(Ended(Tail(finished))) \o pending)
      /\ UpToNul = Head(finished)
  BY <1>1, ReaderTakes
<1>3. /\ front' \in Spots /\ buf[Before(front')] = NoChar
      /\ Content(buf, front', rear) = FlattenSeq(Ended(Tail(finished))) \o pending
  BY <1>1, <1>2 DEF Taken
<1>4. intact'
  BY <1>1, <1>2 DEF LinesInv, QueueHolds
<1>5. QueueHolds'
  <2>1. Content(buf, front, rear)' = Content(buf, front', rear)
    BY <1>1 DEF Content
  <2>2. (FlattenSeq(Ended(finished)) \o pending)' = FlattenSeq(Ended(Tail(finished))) \o pending
    BY <1>1
  <2>3. (buf[Before(front)])' = buf[Before(front')]
    BY <1>1 DEF Before
  <2> QED
    BY <1>3, <1>4, <2>1, <2>2, <2>3 DEF QueueHolds
<1>6. finished' \in Seq(Seq(Text)) /\ Len(finished') = Len(finished) - 1
  BY <1>1, <1>2, HeadTailProperties DEF LinesInv, LineTypes
<1>7. LineTypes'
  BY <1>1, <1>3, <1>6 DEF LinesInv, LineTypes
<1>8. Len(finished) = cooked + 1 /\ cooked \in Nat
  BY <1>1 DEF LinesInv, LineTypes, One
<1> QED
  BY <1>1, <1>5, <1>6, <1>7, <1>8 DEF LinesInv, One

-----------------------------------------------------------------------------
(* A character enqueued behind the line being typed: in the terms of the   *)
(* lines, it is at its end.                                                *)
Holds(q, s) ==
  /\ q.buf \in [Spots -> Bytes] /\ q.rear \in Spots /\ q.full \in BOOLEAN
  /\ ~q.full => Content(q.buf, front, q.rear) = s /\ q.buf[Before(front)] = NoChar

LEMMA EnqueuedHolds ==
  ASSUME front \in Spots, NEW q, NEW s, Holds(q, s), NEW ch \in Bytes
  PROVE  Holds(Enqueued(q, ch), Append(s, ch))
<1> PICK p, f, b, r, b2, r2 : /\ p = Enqueued(q, ch) /\ f = front /\ b = q.buf /\ r = q.rear
                              /\ r2 = Wrap(r + 1) /\ b2 = [b EXCEPT ![r] = ch, ![r2] = NoChar]
  OBVIOUS
<1>1. p.buf = b2 /\ p.rear = r2 /\ p.full = (q.full \/ r2 = f)
  BY DEF Enqueued
<1>2. f \in Spots /\ b \in [Spots -> Bytes] /\ r \in Spots /\ NoChar \in Bytes
  BY TextIsBytes DEF Holds
<1>3. r2 \in Spots
  <2>1. Around(r, 1)
    BY <1>2, QueueSize, WrapAround
  <2> QED
    BY <2>1 DEF Around
<1>4. b2 \in [Spots -> Bytes]
  BY <1>2, <1>3
<1>5. p.full \in BOOLEAN
  BY <1>1 DEF Holds
<1>6. ASSUME ~p.full PROVE Content(b2, f, r2) = Append(s, ch) /\ b2[Before(f)] = NoChar
  <2>1. ~q.full /\ r2 # f
    BY <1>1, <1>6 DEF Holds
  <2>2. Content(b, f, r) = s /\ b[Before(f)] = NoChar
    BY <2>1 DEF Holds
  <2>3. Appends(Bytes, b, f, r, ch)
    BY <1>2, <2>1, <2>2, EnqueueAppends
  <2> QED
    BY <2>2, <2>3 DEF Appends
<1>7. Holds(p, Append(s, ch))
  BY <1>1, <1>3, <1>4, <1>5, <1>6 DEF Holds
<1> QED
  BY <1>7

LEMMA QueueItself ==
  ASSUME LinesInv, stopped = "no"
  PROVE  Holds(Queue, FlattenSeq(Ended(finished)) \o pending)
BY DEF LinesInv, LineTypes, QueueHolds, Holds, Queue

LEMMA EnqueueLines ==
  ASSUME LinesInv, NEW q, NEW s, Holds(q, s), Enqueue(q), stopped = "no", UNCHANGED <<front, intact>>,
         NEW fs \in Seq(Seq(Bytes)), NEW p \in Seq(Bytes), s = FlattenSeq(Ended(fs)) \o p,
         finished' = fs, pending' = p
  PROVE  QueueHolds' /\ buf' \in [Spots -> Bytes] /\ rear' \in Spots
<1>1. CASE q.full
  <2>1. stopped' # "no" /\ buf' = buf /\ rear' = rear
    BY <1>1 DEF Enqueue
  <2> QED
    BY <2>1 DEF LinesInv, LineTypes, QueueHolds
<1>2. CASE ~q.full
  <2>1. buf' = q.buf /\ rear' = q.rear
    BY <1>2 DEF Enqueue
  <2>2. Content(q.buf, front, q.rear) = s /\ q.buf[Before(front)] = NoChar
    BY <1>2 DEF Holds
  <2>3. Content(buf, front, rear)' = s
    BY <2>1, <2>2 DEF Content
  <2>4. (buf[Before(front)])' = NoChar
    BY <2>1, <2>2 DEF Before
  <2>5. (FlattenSeq(Ended(finished)) \o pending)' = s
    OBVIOUS
  <2> QED
    BY <2>1, <2>3, <2>4, <2>5 DEF QueueHolds, Holds, LinesInv
<1> QED
  BY <1>1, <1>2

CookFrame == /\ LinesInv /\ stopped = "no" /\ ev' \in EventRecords
             /\ UNCHANGED <<front, reader, intact>>

LEMMA CookCharLines ==
  ASSUME CookFrame, ev.data \in Text, CookChar
  PROVE  LinesInv'
<1> PICK ch, F, p, fs : ch = ev.data /\ F = FlattenSeq(Ended(finished)) /\ p = pending /\ fs = finished
  OBVIOUS
<1> USE DEF CookFrame
<1>1. /\ ch \in Bytes /\ F \in Seq(Bytes) /\ p \in Seq(Bytes) /\ fs \in Seq(Seq(Bytes))
  BY TextIsBytes, HeldType
<1>2. Holds(Enqueued(Queue, ch), Append(F \o p, ch))
  <2>1. Holds(Queue, F \o p)
    BY QueueItself
  <2> QED
    BY <1>1, <2>1, EnqueuedHolds DEF LinesInv, LineTypes
<1>3. Append(F \o p, ch) = F \o Append(p, ch) /\ Append(p, ch) \in Seq(Bytes)
  <2>1. Inside(F, p, ch)
    BY ONLY <1>1, AppendInside
  <2>2. Append(p, ch) \in Seq(Bytes)
    BY ONLY <1>1, AppendProperties
  <2> QED
    BY ONLY <2>1, <2>2 DEF Inside
<1>4. finished' = fs /\ pending' = Append(p, ch) /\ cooked' = cooked
  BY DEF CookChar
<1>5. Enqueue(Enqueued(Queue, ch))
  BY DEF CookChar
<1>6. QueueHolds' /\ buf' \in [Spots -> Bytes] /\ rear' \in Spots
  <2> PICK q, s, p2 : q = Enqueued(Queue, ch) /\ s = Append(F \o p, ch) /\ p2 = Append(p, ch)
    OBVIOUS
  <2>1. Holds(q, s) /\ Enqueue(q) /\ p2 \in Seq(Bytes) /\ s = FlattenSeq(Ended(fs)) \o p2
    BY <1>2, <1>3, <1>5
  <2>2. finished' = fs /\ pending' = p2
    BY <1>4
  <2> QED
    BY <1>1, <2>1, <2>2, EnqueueLines
<1>7. pending' \in Seq(Text)
  BY <1>4, AppendProperties DEF LinesInv, LineTypes
<1> QED
  BY <1>4, <1>6, <1>7 DEF LinesInv, LineTypes

LEMMA CookLineLines ==
  ASSUME CookFrame, CookLine
  PROVE  LinesInv'
<1> PICK F, p, fs, l : /\ F = FlattenSeq(Ended(finished)) /\ p = pending /\ fs = finished
                       /\ l = Append(pending, "LF")
  OBVIOUS
<1> USE DEF CookFrame
<1>1. /\ "LF" \in Text /\ "LF" \in Bytes /\ NoChar \in Bytes
      /\ F \in Seq(Bytes) /\ p \in Seq(Bytes) /\ fs \in Seq(Seq(Bytes)) /\ Ended(fs) \in Seq(Seq(Bytes))
  BY TextIsBytes, HeldType DEF Text
<1>2. Holds(Enqueued(Enqueued(Queue, "LF"), NoChar), Append(Append(F \o p, "LF"), NoChar))
  <2>1. Holds(Queue, F \o p)
    BY QueueItself
  <2>2. front \in Spots
    BY DEF LinesInv, LineTypes
  <2>3. Holds(Enqueued(Queue, "LF"), Append(F \o p, "LF"))
    BY <1>1, <2>1, <2>2, EnqueuedHolds
  <2> QED
    BY <1>1, <2>2, <2>3, EnqueuedHolds
<1>3. l \in Seq(Bytes) /\ Append(l, NoChar) \in Seq(Bytes) /\ Append(F \o p, "LF") = F \o l
  <2>1. l \in Seq(Bytes) /\ l = Append(p, "LF")
    BY <1>1, AppendProperties
  <2>2. Append(l, NoChar) \in Seq(Bytes)
    BY <1>1, <2>1, AppendProperties
  <2> PICK x : x = "LF"
    OBVIOUS
  <2>3. Inside(F, p, x)
    BY <1>1, AppendInside
  <2> QED
    BY <2>1, <2>2, <2>3 DEF Inside
<1>4. Append(F \o l, NoChar) = F \o Append(l, NoChar)
  <2> PICK x : x = NoChar
    OBVIOUS
  <2>1. x \in Bytes
    BY <1>1
  <2>2. Inside(F, l, x)
    BY ONLY <1>1, <1>3, <2>1, AppendInside
  <2> QED
    BY <2>2 DEF Inside
<1>5. FlattenSeq(Ended(Append(fs, l))) = F \o Append(l, NoChar)
  <2>1. Ended(Append(fs, l)) = Append(Ended(fs), Append(l, NoChar))
    BY <1>1, <1>3, EndedAppend
  <2> PICK e, x : e = Ended(fs) /\ x = Append(l, NoChar)
    OBVIOUS
  <2>2. FlattenSeq(Append(e, x)) = FlattenSeq(e) \o x
    BY <1>1, <1>3, FlattenAppend
  <2> QED
    BY <2>1, <2>2
<1>6. Append(fs, l) \in Seq(Seq(Bytes)) /\ <<>> \in Seq(Bytes)
  BY <1>1, <1>3, AppendProperties, EmptySeq
<1>7. FlattenSeq(Ended(Append(fs, l))) \o <<>> = F \o Append(l, NoChar)
  <2>1. F \o Append(l, NoChar) \in Seq(Bytes)
    BY <1>1, <1>3, ConcatProperties
  <2> QED
    BY <1>5, <2>1, ConcatEmptySeq
<1>8. finished' = Append(fs, l) /\ pending' = <<>> /\ cooked' = cooked + 1
  BY DEF CookLine
<1>9. Enqueue(Enqueued(Enqueued(Queue, "LF"), NoChar))
  BY DEF CookLine
<1>10. QueueHolds' /\ buf' \in [Spots -> Bytes] /\ rear' \in Spots
  <2> PICK q, s, f2, p2 : /\ q = Enqueued(Enqueued(Queue, "LF"), NoChar)
                          /\ s = Append(Append(F \o p, "LF"), NoChar)
                          /\ f2 = Append(fs, l) /\ p2 = <<>>
    OBVIOUS
  <2>1. Holds(q, s) /\ Enqueue(q) /\ p2 \in Seq(Bytes) /\ f2 \in Seq(Seq(Bytes))
    BY <1>2, <1>6, <1>9
  <2>2. s = FlattenSeq(Ended(f2)) \o p2
    BY <1>3, <1>4, <1>7
  <2>3. finished' = f2 /\ pending' = p2
    BY <1>8
  <2> QED
    BY <2>1, <2>2, <2>3, EnqueueLines
<1>11. finished' \in Seq(Seq(Text)) /\ Len(finished') = Len(finished) + 1
  <2>1. l \in Seq(Text)
    BY <1>1, AppendProperties DEF LinesInv, LineTypes
  <2> QED
    BY <1>8, <2>1, AppendProperties DEF LinesInv, LineTypes
<1>12. Len(finished') = cooked' + One((reader = "read")') /\ cooked' \in Nat
  BY <1>8, <1>11 DEF LinesInv, LineTypes, One
<1> QED
  BY <1>8, <1>10, <1>11, <1>12 DEF LinesInv, LineTypes

-----------------------------------------------------------------------------
(* tty_pop_back takes the last character of the line being typed, and      *)
(* never one of a finished line.                                           *)
LEMMA LastByte ==
  ASSUME LinesInv, stopped = "no", front # rear
  PROVE  \E c \in Seq(Bytes) :
           /\ FlattenSeq(Ended(finished)) \o pending = Append(c, buf[Before(rear)])
           /\ buf[Before(rear)] \in Bytes
           /\ Before(rear) \in Spots /\ [buf EXCEPT ![Before(rear)] = NoChar] \in [Spots -> Bytes]
           /\ Content([buf EXCEPT ![Before(rear)] = NoChar], front, Before(rear)) = c
           /\ [buf EXCEPT ![Before(rear)] = NoChar][Before(front)] = NoChar
<1> PICK b, f, r : b = buf /\ f = front /\ r = rear
  OBVIOUS
<1>1. /\ b \in [Spots -> Bytes] /\ f \in Spots /\ r \in Spots /\ f # r /\ NoChar \in Bytes
      /\ b[Before(f)] = NoChar /\ Content(b, f, r) = FlattenSeq(Ended(finished)) \o pending
  BY TextIsBytes DEF LinesInv, LineTypes, QueueHolds
<1>2. Fronts(Bytes, b, f, r)
  BY ONLY <1>1, PopBackFronts
<1> PICK b2 : b2 = [b EXCEPT ![Before(r)] = NoChar]
  OBVIOUS
<1>3. /\ Content(b, f, r) = Append(Content(b2, f, Before(r)), b[Before(r)])
      /\ Content(b2, f, Before(r)) \in Seq(Bytes) /\ b[Before(r)] \in Bytes
      /\ Before(r) \in Spots /\ b2 \in [Spots -> Bytes] /\ b2[Before(f)] = NoChar
  BY <1>2 DEF Fronts
<1> QED
  BY <1>1, <1>3

(* A line that is finished ends in a NUL. *)
LEMMA LastIsNul ==
  ASSUME LinesInv, pending = <<>>, NEW c \in Seq(Bytes), NEW x \in Bytes,
         FlattenSeq(Ended(finished)) \o pending = Append(c, x)
  PROVE  x = NoChar
<1>1. FlattenSeq(Ended(finished)) = Append(c, x)
  BY HeldType, ConcatEmptySeq
<1>2. finished # <<>>
  <2> SUFFICES ASSUME finished = <<>> PROVE FALSE
    OBVIOUS
  <2>1. Ended(<<>>) = <<>>
    BY DEF Ended
  <2>2. Append(c, x) = <<>>
    BY <1>1, <2>1, FlattenEmpty
  <2> QED
    BY <2>2, AppendProperties
<1>3. PICK e \in Seq(Seq(Bytes)), l \in Seq(Bytes) : finished = Append(e, l)
  BY <1>2, HeldType, SequenceEmptyOrAppend
<1>4. Ended(finished) = Append(Ended(e), Append(l, NoChar))
  BY <1>3, EndedAppend
<1> PICK d, m : d = Ended(e) /\ m = Append(l, NoChar)
  OBVIOUS
<1>5. d \in Seq(Seq(Bytes)) /\ m \in Seq(Bytes) /\ NoChar \in Bytes
  BY TextIsBytes, EndedType, AppendProperties
<1>6. FlattenSeq(Append(d, m)) = FlattenSeq(d) \o m
  BY <1>5, FlattenAppend
<1> PICK g, z : g = FlattenSeq(d) /\ z = NoChar
  OBVIOUS
<1>7. g \in Seq(Bytes) /\ z \in Bytes
  BY <1>5, FlattenType
<1>8. Inside(g, l, z)
  BY ONLY <1>3, <1>7, AppendInside
<1>9. Append(c, x) = Append(g \o l, z)
  BY <1>1, <1>4, <1>6, <1>8 DEF Inside
<1>10. g \o l \in Seq(Bytes)
  BY <1>7, ConcatProperties
<1> QED
  BY <1>7, <1>9, <1>10, AppendInjective

LEMMA FrontOfAppend ==
  ASSUME NEW V, NEW s \in Seq(V), NEW x \in V
  PROVE  Front(Append(s, x)) = s
<1> PICK n, t : n = Len(s) /\ t = Append(s, x)
  OBVIOUS
<1>1. n \in Nat /\ t \in Seq(V) /\ Len(t) = n + 1 /\ \A i \in 1 .. n : t[i] = s[i]
  BY AppendProperties
<1>2. Front(t) = SubSeq(t, 1, n)
  BY <1>1 DEF Front
<1>3. /\ SubSeq(t, 1, n) \in Seq(V) /\ Len(SubSeq(t, 1, n)) = n
      /\ \A i \in 1 .. n : SubSeq(t, 1, n)[i] = t[i]
  BY <1>1
<1> QED
  BY <1>1, <1>2, <1>3, SeqEqual

LEMMA CookBackLines ==
  ASSUME CookFrame, CookBack
  PROVE  LinesInv'
<1> USE DEF CookFrame
<1> PICK F : F = FlattenSeq(Ended(finished))
  OBVIOUS
<1>1. UNCHANGED <<finished, cooked, stopped>> /\ pending' = IF pending = <<>> THEN <<>> ELSE Front(pending)
  BY DEF CookBack
<1>2. CASE pending = <<>>
  <2>1. buf[Before(rear)] = NoChar
    <3>1. CASE front = rear
      BY <3>1 DEF LinesInv, QueueHolds
    <3>2. CASE front # rear
      <4>1. PICK c \in Seq(Bytes) :
              /\ FlattenSeq(Ended(finished)) \o pending = Append(c, buf[Before(rear)])
              /\ buf[Before(rear)] \in Bytes
        BY <3>2, LastByte
      <4> QED
        BY <1>2, <4>1, LastIsNul
    <3> QED
      BY <3>1, <3>2
  <2>2. buf' = buf /\ rear' = rear /\ pending' = pending
    BY <1>1, <1>2, <2>1 DEF CookBack, PopBack
  <2> QED
    BY <1>1, <2>2 DEF LinesInv, LineTypes, QueueHolds, Content
<1>3. CASE pending # <<>>
  <2>1. PICK p \in Seq(Text), ch \in Text : pending = Append(p, ch)
    BY <1>3, SequenceEmptyOrAppend DEF LinesInv, LineTypes
  <2>2. p \in Seq(Bytes) /\ ch \in Bytes /\ ch # NoChar /\ F \in Seq(Bytes)
    BY TextIsBytes, HeldType
  <2>3. F \o pending = Append(F \o p, ch) /\ F \o p \in Seq(Bytes)
    <3>1. Inside(F, p, ch)
      BY ONLY <2>2, AppendInside
    <3>2. F \o p \in Seq(Bytes)
      BY <2>2, ConcatProperties
    <3> QED
      BY <2>1, <3>1, <3>2 DEF Inside
  <2>4. front # rear
    <3> SUFFICES ASSUME front = rear PROVE FALSE
      OBVIOUS
    <3>1. Between(front, rear) = 0
      BY QueueSize, BetweenIs DEF LinesInv, LineTypes, Spots
    <3>2. Reads(Bytes, buf, front, rear)
      BY ContentIs DEF LinesInv, LineTypes
    <3>3. Append(F \o p, ch) = <<>>
      BY <2>3, <3>1, <3>2, EmptySeq DEF Reads, LinesInv, QueueHolds
    <3> QED
      BY <2>2, <2>3, <3>3, AppendProperties
  <2>5. PICK c \in Seq(Bytes) :
          /\ FlattenSeq(Ended(finished)) \o pending = Append(c, buf[Before(rear)])
          /\ buf[Before(rear)] \in Bytes
          /\ Before(rear) \in Spots /\ [buf EXCEPT ![Before(rear)] = NoChar] \in [Spots -> Bytes]
          /\ Content([buf EXCEPT ![Before(rear)] = NoChar], front, Before(rear)) = c
          /\ [buf EXCEPT ![Before(rear)] = NoChar][Before(front)] = NoChar
    BY <2>4, LastByte
  <2> PICK x, d : x = buf[Before(rear)] /\ d = F \o p
    OBVIOUS
  <2>6. Append(c, x) = Append(d, ch) /\ x \in Bytes /\ d \in Seq(Bytes)
    BY <2>3, <2>5
  <2>7. c = d /\ x = ch
    BY ONLY <2>2, <2>6, c \in Seq(Bytes), AppendInjective
  <2>8. buf' = [buf EXCEPT ![Before(rear)] = NoChar] /\ rear' = Before(rear)
    BY <2>2, <2>7 DEF CookBack, PopBack
  <2>9. pending' = p
    BY <1>1, <1>3, <2>1, FrontOfAppend
  <2>10. /\ Content(buf', front, rear') = c /\ buf'[Before(front)] = NoChar
         /\ buf' \in [Spots -> Bytes] /\ rear' \in Spots
    BY <2>5, <2>8
  <2>11. Content(buf, front, rear)' = F \o p
    BY <2>7, <2>10 DEF Content
  <2>12. (FlattenSeq(Ended(finished)) \o pending)' = F \o p
    BY <1>1, <2>9
  <2>13. (buf[Before(front)])' = NoChar
    BY <2>10 DEF Before
  <2>14. QueueHolds'
    BY <1>1, <2>11, <2>12, <2>13 DEF QueueHolds, LinesInv
  <2> QED
    BY <1>1, <2>1, <2>9, <2>10, <2>14 DEF LinesInv, LineTypes
<1> QED
  BY <1>2, <1>3

LEMMA CookLines ==
  ASSUME LinesInv, stopped = "no", Cook
  PROVE  LinesInv'
<1>1. ev' \in EventRecords /\ UNCHANGED <<front, reader, intact>>
  BY DEF Cook, EndEvent, EventRecords, NoEvent, NoChar, Chars
<1>2. CookFrame
  BY <1>1 DEF CookFrame
<1>3. CASE ~ev.ctrl /\ ~ev.alt /\ ev.data # NoChar
  <2>1. CookLine \/ CookBack \/ CookChar
    BY <1>3 DEF Cook
  <2>2. CookChar => ev.data \in Text
    BY <1>3 DEF CookChar, LinesInv, LineTypes, EventRecords, Chars, Text
  <2> QED
    BY <1>2, <2>1, <2>2, CookLineLines, CookBackLines, CookCharLines
<1>4. CASE ~(~ev.ctrl /\ ~ev.alt /\ ev.data # NoChar)
  <2>1. UNCHANGED lineVars
    BY <1>1, <1>4 DEF Cook, lineVars, queueVars
  <2> QED
    BY <1>1, <2>1, LinesElsewhere
<1> QED
  BY <1>3, <1>4

LEMMA LinesStep ==
  ASSUME IInv, LinesInv, [InputNext]_inputVars
  PROVE  LinesInv'
<1>1. CASE stopped = "no" /\ (Notify \/ InputDaemon \/ WaitEvent \/ \E stroke \in Strokes : Type(stroke))
  <2>1. UNCHANGED <<lineVars, ev>>
    BY <1>1 DEF Notify, InputDaemon, Drain, Push, Signal, WaitIrq, WaitEvent, Type
  <2> QED
    BY <1>1, <2>1, LinesElsewhere DEF LinesInv, LineTypes
<1>2. CASE stopped = "no" /\ Pop
  <2>1. UNCHANGED lineVars
    BY <1>2 DEF Pop
  <2>2. ev' \in EventRecords
    <3>1. CASE events = <<>>
      BY <1>2, <3>1 DEF Pop, LinesInv, LineTypes
    <3>2. CASE events # <<>>
      BY <1>2, <3>2 DEF Pop, IInv, RingType
    <3> QED
      BY <3>1, <3>2
  <2> QED
    BY <1>2, <2>1, <2>2, LinesElsewhere
<1>3. CASE UNCHANGED inputVars
  <2>1. UNCHANGED <<lineVars, ev, stopped>>
    BY <1>3 DEF inputVars
  <2>2. UNCHANGED <<buf, front, rear, cooked, reader, finished, pending, intact, ev, stopped>>
    BY <2>1 DEF lineVars, queueVars
  <2> QED
    BY <2>2 DEF LinesInv, LineTypes, QueueHolds, Content
<1> QED
  BY <1>1, <1>2, <1>3, CookLines, WaitCookedLines, ReadLines
  DEF InputNext, TimerRuns, InputRuns, TtyRuns, TtyTask

(* A line is read as it was typed, with its corrections, whatever else     *)
(* goes on (tty_cook, tty_pop_back and tty_read of dev_tty.c): between     *)
(* front and rear the queue holds the finished lines, one by one, and then *)
(* the line being typed, which a correction does not leave.                *)
THEOREM LinesAreWhole == InputSpec => []LinesWhole
<1>1. LinesInv => LinesWhole
  BY DEF LinesInv, LinesWhole, QueueHolds, Content, Between, Ended
<1> QED
  BY <1>1, InitInv, StepInv, LinesInit, LinesStep, PTL DEF InputSpec

-----------------------------------------------------------------------------
(* The disk device *)

(* The block b of the disk, the byte i of it. *)
Blocks == 0 .. blkcnt - 1
At(b, i) == b * blksz + i

LEMMA DiskSizes == blkcnt \in Nat /\ blksz \in Nat /\ blksz > 0 /\ blkcnt > 0
BY DiskAssumption

LEMMA AtUnique ==
  ASSUME NEW b \in Nat, NEW i \in InBlock, NEW d \in Nat, NEW j \in InBlock, At(b, i) = At(d, j)
  PROVE  b = d /\ i = j
<1> USE DiskSizes DEF InBlock, At
<1>1. CASE b < d
  <2>1. (b + 1) * blksz <= d * blksz
    BY <1>1
  <2>2. (b + 1) * blksz = b * blksz + blksz
    OBVIOUS
  <2> QED
    BY <2>1, <2>2
<1>2. CASE d < b
  <2>1. (d + 1) * blksz <= b * blksz
    BY <1>2
  <2>2. (d + 1) * blksz = d * blksz + blksz
    OBVIOUS
  <2> QED
    BY <2>1, <2>2
<1> QED
  BY <1>1, <1>2

LEMMA AtRange ==
  ASSUME NEW b \in Blocks, NEW i \in InBlock
  PROVE  At(b, i) \in DiskBytes /\ b \in Nat /\ b * blksz \in Nat /\ i \in Nat
<1> USE DiskSizes
<1>1. (b + 1) * blksz <= blkcnt * blksz
  BY DEF Blocks
<1>2. (b + 1) * blksz = b * blksz + blksz
  BY DEF Blocks
<1>3. b * blksz \in Nat /\ blkcnt * blksz \in Nat
  BY DEF Blocks
<1> QED
  BY <1>1, <1>2, <1>3 DEF At, DiskBytes, Blocks, InBlock

LEMMA AtSplit ==
  ASSUME NEW a \in DiskBytes
  PROVE  /\ a \div blksz \in Blocks /\ a % blksz \in InBlock
         /\ a = At(a \div blksz, a % blksz)
<1> USE DiskSizes
<1>1. a \in Nat /\ a < blkcnt * blksz
  BY DEF DiskBytes
<1>2. PICK q \in Int : q = a \div blksz /\ blksz * q <= a /\ a < blksz * q + blksz
  <2>1. PICK q \in Int : q = a \div blksz
    BY <1>1
  <2> QED
    BY <1>1, <2>1
<1>3. PICK r \in Int : r = a % blksz /\ 0 <= r /\ r < blksz
  BY <1>1
<1>4. a = blksz * q + r
  BY <1>1, <1>2, <1>3
<1>5. 0 <= q
  <2> SUFFICES ASSUME q + 1 <= 0 PROVE FALSE
    OBVIOUS
  <2>1. blksz * (q + 1) <= blksz * 0
    OBVIOUS
  <2>2. blksz * (q + 1) = blksz * q + blksz /\ blksz * 0 = 0
    OBVIOUS
  <2> QED
    BY <1>1, <1>2, <2>1, <2>2
<1>6. q < blkcnt
  <2> SUFFICES ASSUME blkcnt <= q PROVE FALSE
    OBVIOUS
  <2>1. blkcnt * blksz <= q * blksz
    OBVIOUS
  <2>2. q * blksz = blksz * q
    OBVIOUS
  <2> QED
    BY <1>1, <1>2, <2>1, <2>2
<1>7. q * blksz = blksz * q
  OBVIOUS
<1> QED
  BY <1>2, <1>3, <1>4, <1>5, <1>6, <1>7 DEF Blocks, InBlock, At

Calls == [op : {"read", "write"}, from : Nat, offset : Nat, st : Nat, pos : Nat, count : Nat,
          data : Seq(Values)]

DiskTypes ==
  /\ disk \in [Blocks -> [InBlock -> Values]]
  /\ sd_buf \in [InBlock -> Values]
  /\ bytes \in [DiskBytes -> Values]
  /\ call = NoCall \/ call \in Calls

(* Where a call is: its next byte lies in the block that is its turn. *)
CallPlace ==
  call # NoCall =>
    /\ call.count > 0 /\ call.from + call.count - 1 \in DiskBytes
    /\ call.pos <= call.count
    /\ call.pos < call.count =>
         /\ call.offset = call.from + call.pos
         /\ \E b \in Blocks : call.st = b * blksz
         /\ call.st <= call.offset /\ call.offset < call.st + blksz

CallData ==
  /\ call.op = "read" => call.data = [i \in 1 .. call.pos |-> bytes[call.from + i - 1]]
  /\ call.op = "write" => \A i \in 1 .. call.count : call.data[i] = bytes[call.from + i - 1]

(* What a write has not come to yet is all that the disk lacks. *)
Pending(a) == call.op = "write" /\ a \in call.from + call.pos .. call.from + call.count - 1
DiskAgrees ==
  \A b \in Blocks, i \in InBlock : Pending(At(b, i)) \/ disk[b][i] = bytes[At(b, i)]

DiskInv == DiskTypes /\ CallPlace /\ CallData /\ DiskAgrees

LEMMA DiskInitInv == DiskInit => DiskInv
<1> SUFFICES ASSUME DiskInit PROVE DiskInv
  OBVIOUS
<1>1. call.op = "none"
  BY DEF DiskInit, NoCall
<1>2. DiskTypes
  BY DiskAssumption DEF DiskInit, DiskTypes, Blocks
<1>3. DiskAgrees
  BY AtRange DEF DiskInit, DiskAgrees, Blocks
<1> QED
  BY <1>1, <1>2, <1>3 DEF DiskInit, DiskInv, CallPlace, CallData

LEMMA BeginCallInv ==
  ASSUME DiskInv, NEW op \in {"read", "write"}, NEW offset \in DiskBytes,
         NEW count \in 1 .. 2 * blksz, NEW data \in GivenTo(op, count),
         BeginCall(op, offset, count, data)
  PROVE  DiskInv'
<1> USE DiskSizes DEF DiskInv, BeginCall
<1>1. call = NoCall
  BY DEF DiskTypes, Calls
<1>2. offset \in Nat /\ count \in Nat /\ count > 0
  BY DEF DiskBytes
<1>3. PICK b \in Blocks, i \in InBlock : offset = b * blksz + i /\ b = offset \div blksz
  BY AtSplit DEF At
<1>4. PICK st \in Nat : st = b * blksz /\ st <= offset /\ offset < st + blksz
  BY <1>3, AtRange DEF InBlock
<1>5. call' = [op |-> op, from |-> offset, offset |-> offset, st |-> st, pos |-> 0,
               count |-> count, data |-> data]
  BY <1>3, <1>4
<1>6. call' # NoCall
  BY <1>5 DEF NoCall
<1>7. CallPlace'
  BY <1>2, <1>3, <1>4, <1>5 DEF CallPlace
<1>8. bytes' \in [DiskBytes -> Values]
  <2>1. CASE op = "read"
    BY <2>1 DEF DiskTypes
  <2>2. CASE op = "write"
    <3>1. \A a \in offset .. offset + count - 1 : a - offset + 1 \in 1 .. count
      BY <1>2
    <3>2. \A a \in offset .. offset + count - 1 : data[a - offset + 1] \in Values
      BY <2>2, <3>1 DEF GivenTo
    <3>3. bytes' = [a \in DiskBytes |-> IF a \in offset .. offset + count - 1
                                        THEN data[a - offset + 1] ELSE bytes[a]]
      BY <2>2
    <3> QED
      BY <3>2, <3>3 DEF DiskTypes
  <2> QED
    BY <2>1, <2>2
<1>9. DiskTypes'
  <2>1. data \in Seq(Values)
    <3>1. CASE op = "read"
      BY <3>1 DEF GivenTo
    <3>2. CASE op = "write"
      BY <1>2, <3>2, IsASeq DEF GivenTo
    <3> QED
      BY <3>1, <3>2
  <2>2. call' \in Calls
    BY <1>2, <1>5, <2>1 DEF Calls
  <2> QED
    BY <1>8, <2>2 DEF DiskTypes
<1>10. CASE op = "read"
  <2>1. CallData'
    BY <1>5, <1>10 DEF CallData, GivenTo
  <2>2. DiskAgrees'
    BY <1>1, <1>5, <1>10 DEF DiskAgrees, Pending, NoCall
  <2> QED
    BY <1>7, <1>9, <2>1, <2>2
<1>11. CASE op = "write"
  <2>1. \A a \in DiskBytes :
           bytes'[a] = IF a \in offset .. offset + count - 1 THEN data[a - offset + 1] ELSE bytes[a]
    BY <1>11
  <2>2. \A a \in offset .. offset + count - 1 : a \in DiskBytes
    BY <1>2 DEF DiskBytes
  <2>3. CallData'
    <3>1. ASSUME NEW k \in 1 .. count PROVE data[k] = bytes'[offset + k - 1]
      <4>1. offset + k - 1 \in offset .. offset + count - 1 /\ (offset + k - 1) - offset + 1 = k
        BY <1>2
      <4> QED
        BY <2>1, <2>2, <4>1
    <3>2. call'.op = "write" /\ call'.from = offset /\ call'.count = count /\ call'.data = data
      BY <1>5, <1>11
    <3> HIDE DEF DiskInv, BeginCall
    <3> QED
      BY <3>1, <3>2 DEF CallData
  <2>4. ASSUME NEW d \in Blocks, NEW j \in InBlock
        PROVE  Pending(At(d, j))' \/ disk'[d][j] = bytes'[At(d, j)]
    <3>1. At(d, j) \in DiskBytes
      BY AtRange
    <3>2. disk[d][j] = bytes[At(d, j)]
      BY <1>1 DEF DiskAgrees, Pending, NoCall
    <3>3. CASE At(d, j) \in offset .. offset + count - 1
      BY <1>2, <1>5, <1>11, <3>3 DEF Pending
    <3>4. CASE At(d, j) \notin offset .. offset + count - 1
      BY <2>1, <3>1, <3>2, <3>4
    <3> QED
      BY <3>3, <3>4
  <2>5. DiskAgrees'
    BY <2>4 DEF DiskAgrees
  <2> QED
    BY <1>7, <1>9, <2>3, <2>5
<1> QED
  BY <1>10, <1>11

(* The next piece of a call lies in one block. *)
LEMMA PieceIs ==
  ASSUME DiskInv, call # NoCall, call.pos < call.count
  PROVE  /\ call \in Calls
         /\ Part \in Nat /\ Part > 0 /\ call.pos + Part <= call.count
         /\ call.offset - call.st + Part <= blksz
         /\ call.pos + Part < call.count => call.offset + Part = call.st + blksz
         /\ Block \in Blocks /\ call.st = Block * blksz
<1> USE DiskSizes DEF DiskInv
<1>1. call \in Calls
  BY DEF DiskTypes
<1>2. PICK b \in Blocks : call.st = b * blksz
  BY DEF CallPlace
<1>3. Block = b
  <2>1. b \in Nat /\ (b * blksz) \div blksz = b
    <3>1. b \in Nat
      BY DEF Blocks
    <3>2. (b * blksz + 0) \div blksz = b
      BY <3>1
    <3> QED
      BY <3>1, <3>2
  <2> QED
    BY <1>2, <2>1 DEF Block
<1>4. /\ call.offset \in Nat /\ call.st \in Nat /\ call.pos \in Nat /\ call.count \in Nat
      /\ call.st <= call.offset /\ call.offset < call.st + blksz /\ call.pos < call.count
  BY <1>1 DEF CallPlace, Calls
<1>5. PICK n \in Nat, left \in Nat :
        /\ n = blksz - (call.offset - call.st) /\ n > 0
        /\ left = call.count - call.pos /\ left > 0
  <2>1. blksz - (call.offset - call.st) \in Nat /\ blksz - (call.offset - call.st) > 0
    BY <1>4
  <2>2. call.count - call.pos \in Nat /\ call.count - call.pos > 0
    BY <1>4
  <2> QED
    BY <2>1, <2>2
<1>6. Part = IF n > left THEN left ELSE n
  BY <1>5 DEF Part
<1> QED
  BY <1>1, <1>2, <1>3, <1>4, <1>5, <1>6

LEMMA NextPlace ==
  ASSUME DiskInv, call # NoCall, call.pos < call.count, NEW data \in Seq(Values), NextBlock(data)
  PROVE  /\ call' \in Calls /\ CallPlace'
         /\ call'.op = call.op /\ call'.from = call.from /\ call'.count = call.count
         /\ call'.pos = call.pos + Part /\ call'.data = data
<1> USE DiskSizes
<1>1. call \in Calls
  BY PieceIs
<1>2. PICK part \in Nat, b \in Blocks :
        /\ part = Part /\ part > 0 /\ b = Block /\ call.st = b * blksz
        /\ call.pos + part <= call.count
        /\ call.pos + part < call.count => call.offset + part = call.st + blksz
  BY PieceIs
<1>3. call' = [call EXCEPT !.pos = @ + part, !.offset = call.st + blksz,
                           !.st = call.st + blksz, !.data = data]
  BY <1>2 DEF NextBlock
<1>4. call' \in Calls
  <2>1. /\ call.op \in {"read", "write"} /\ call.from \in Nat /\ call.pos + part \in Nat
        /\ call.st + blksz \in Nat /\ call.count \in Nat
    BY <1>1 DEF Calls
  <2>2. call' = [op |-> call.op, from |-> call.from, offset |-> call.st + blksz,
                 st |-> call.st + blksz, pos |-> call.pos + part, count |-> call.count,
                 data |-> data]
    BY <1>1, <1>3 DEF Calls
  <2> QED
    BY <2>1, <2>2 DEF Calls
<1>5. /\ call'.op = call.op /\ call'.from = call.from /\ call'.count = call.count
      /\ call'.pos = call.pos + part /\ call'.data = data
      /\ call'.offset = call.st + blksz /\ call'.st = call.st + blksz
  BY <1>1, <1>3 DEF Calls
<1>6. /\ call.count > 0 /\ call.from + call.count - 1 \in DiskBytes
      /\ call.offset = call.from + call.pos
  BY DEF DiskInv, CallPlace
<1>7. ASSUME call'.pos < call'.count
      PROVE  /\ call'.offset = call'.from + call'.pos
             /\ \E d \in Blocks : call'.st = d * blksz
             /\ call'.st <= call'.offset /\ call'.offset < call'.st + blksz
  <2>1. call'.offset = call'.from + call'.pos
    BY <1>1, <1>2, <1>5, <1>6, <1>7 DEF Calls
  <2>2. call.st + blksz < blkcnt * blksz
    <3>1. call.from + call.pos + part < call.from + call.count
      BY <1>1, <1>2, <1>5, <1>7 DEF Calls
    <3>2. call.offset + part = call.st + blksz
      BY <1>1, <1>2, <1>5, <1>7 DEF Calls
    <3>3. PICK size \in Nat : size = blkcnt * blksz /\ call.from + call.count - 1 < size
      BY <1>6 DEF DiskBytes
    <3>4. call.from \in Nat /\ call.count \in Nat /\ call.pos \in Nat /\ call.offset \in Nat
      BY <1>1 DEF Calls
    <3> QED
      BY <1>6, <3>1, <3>2, <3>3, <3>4
  <2>3. (b + 1) * blksz = b * blksz + blksz
    BY DEF Blocks
  <2>4. b + 1 < blkcnt
    <3> SUFFICES ASSUME blkcnt <= b + 1 PROVE FALSE
      BY DEF Blocks
    <3>1. blkcnt * blksz <= (b + 1) * blksz
      BY DEF Blocks
    <3>2. blkcnt * blksz \in Nat /\ b * blksz \in Nat
      BY DEF Blocks
    <3> QED
      BY <1>2, <2>2, <2>3, <3>1, <3>2
  <2>5. b + 1 \in Blocks /\ call'.st = (b + 1) * blksz
    BY <1>2, <1>5, <2>3, <2>4 DEF Blocks
  <2> QED
    BY <1>4, <1>5, <2>1, <2>5 DEF Calls
<1>8. CallPlace'
  BY <1>1, <1>2, <1>5, <1>6, <1>7 DEF CallPlace, Calls
<1> QED
  BY <1>2, <1>4, <1>5, <1>8

(* The piece in plain numbers. *)
LEMMA PieceNumbers ==
  ASSUME DiskInv, call # NoCall, call.pos < call.count
  PROVE  \E b \in Blocks, part, o, pos, from, count \in Nat :
           /\ b = Block /\ part = Part /\ o = call.offset - call.st
           /\ pos = call.pos /\ from = call.from /\ count = call.count
           /\ part > 0 /\ o + part <= blksz /\ pos + part <= count
           /\ At(b, 0) = from + pos - o
<1>1. call \in Calls
  BY PieceIs
<1>2. /\ Block \in Blocks /\ call.st = Block * blksz /\ Part \in Nat /\ Part > 0
      /\ call.offset - call.st + Part <= blksz /\ call.pos + Part <= call.count
  BY PieceIs
<1>3. call.offset - call.st \in Nat /\ call.offset = call.from + call.pos
  BY <1>1 DEF DiskInv, CallPlace, Calls
<1>4. call.pos \in Nat /\ call.from \in Nat /\ call.count \in Nat /\ call.st \in Nat
  BY <1>1 DEF Calls
<1>5. At(Block, 0) = call.st
  BY <1>2, <1>4 DEF At
<1>6. At(Block, 0) = call.from + call.pos - (call.offset - call.st)
  BY <1>3, <1>4, <1>5
<1> QED
  BY <1>2, <1>3, <1>4, <1>6

LEMMA AtPlus ==
  ASSUME NEW b \in Blocks, NEW i \in Nat
  PROVE  At(b, i) = At(b, 0) + i /\ At(b, 0) \in Nat
<1>1. b * blksz \in Nat
  BY DiskSizes DEF Blocks
<1> QED
  BY <1>1 DEF At

LEMMA ReadBlockInv ==
  ASSUME DiskInv, ReadBlock
  PROVE  DiskInv'
<1> USE DiskSizes
<1> DEFINE piece == [i \in 1 .. Part |-> sd_buf'[call.offset - call.st + i - 1]]
<1>1. call # NoCall /\ call.pos < call.count /\ call.op = "read" /\ call \in Calls
  BY PieceIs DEF ReadBlock, NoCall
<1>2. PICK b \in Blocks, part \in Nat, o \in Nat, pos \in Nat, from \in Nat :
        /\ b = Block /\ part = Part /\ o = call.offset - call.st
        /\ pos = call.pos /\ from = call.from
        /\ part > 0 /\ o + part <= blksz /\ At(b, 0) = from + pos - o
  BY <1>1, PieceNumbers
<1>3. part > 0 /\ o + part <= blksz /\ At(b, 0) = from + pos - o
  BY <1>2
<1>4. sd_buf' = disk[b] /\ sd_buf' \in [InBlock -> Values]
  BY <1>2 DEF ReadBlock, DiskInv, DiskTypes
<1>5. \A i \in 1 .. part : o + i - 1 \in InBlock
  BY <1>3 DEF InBlock
<1>6. piece = [i \in 1 .. part |-> disk[b][o + i - 1]]
  BY <1>2, <1>4
<1>7. piece \in Seq(Values) /\ Len(piece) = part
  <2>1. \A i \in 1 .. part : disk[b][o + i - 1] \in Values
    BY <1>4, <1>5
  <2> HIDE DEF piece
  <2>2. piece \in [1 .. part -> Values]
    BY <1>6, <2>1
  <2> QED
    BY <2>2, IsASeq, LenProperties
<1>8. \A i \in 1 .. part : piece[i] = bytes[from + (pos + i) - 1]
  <2> SUFFICES ASSUME NEW i \in 1 .. part
               PROVE  disk[b][o + i - 1] = bytes[from + (pos + i) - 1]
    BY <1>6
  <2>1. disk[b][o + i - 1] = bytes[At(b, o + i - 1)]
    BY <1>1, <1>5 DEF DiskInv, DiskAgrees, Pending
  <2>2. o + i - 1 \in Nat
    OBVIOUS
  <2>3. At(b, o + i - 1) = At(b, 0) + (o + i - 1) /\ At(b, 0) \in Nat
    BY <2>2, AtPlus
  <2>4. At(b, o + i - 1) = from + (pos + i) - 1
    BY <1>3, <2>3
  <2> QED
    BY <2>1, <2>4
<1>9. /\ call.data \in Seq(Values) /\ Len(call.data) = pos
      /\ \A i \in 1 .. pos : call.data[i] = bytes[from + i - 1]
  <2>1. call.data \in Seq(Values)
    BY <1>1 DEF Calls
  <2>2. call.data = [i \in 1 .. pos |-> bytes[from + i - 1]]
    BY <1>1, <1>2 DEF DiskInv, CallData
  <2>3. PICK data \in Seq(Values) : data = call.data /\ data = [i \in 1 .. pos |-> bytes[from + i - 1]]
    BY <2>1, <2>2
  <2>4. Len(data) = pos
    BY <2>3, LenProperties
  <2> QED
    BY <2>3, <2>4
<1>10. NextBlock(call.data \o piece)
  BY DEF ReadBlock
<1> HIDE DEF piece
<1>11. PICK all \in Seq(Values) :
         /\ all = call.data \o piece /\ Len(all) = pos + part
         /\ \A i \in 1 .. pos + part :
              all[i] = IF i <= pos THEN call.data[i] ELSE piece[i - pos]
  <2>1. call.data \o piece \in Seq(Values) /\ Len(call.data \o piece) = Len(call.data) + Len(piece)
    BY <1>7, <1>9, ConcatProperties
  <2>2. \A i \in 1 .. Len(call.data) + Len(piece) :
          (call.data \o piece)[i] = IF i <= Len(call.data) THEN call.data[i]
                                    ELSE piece[i - Len(call.data)]
    BY <1>7, <1>9, ConcatProperties
  <2> QED
    BY <1>7, <1>9, <2>1, <2>2
<1>12. all = [i \in 1 .. pos + part |-> bytes[from + i - 1]]
  <2>1. ASSUME NEW i \in 1 .. pos + part
        PROVE  all[i] = bytes[from + i - 1]
    <3>1. CASE i <= pos
      BY <1>9, <1>11, <3>1
    <3>2. CASE i > pos
      <4>1. PICK k \in 1 .. part : k = i - pos /\ pos + k = i
        <5>1. i - pos \in 1 .. part /\ pos + (i - pos) = i
          BY <3>2
        <5> QED
          BY <5>1
      <4>2. ~(i <= pos)
        BY <3>2
      <4>3. all[i] = piece[k]
        BY <1>11, <4>1, <4>2
      <4> QED
        BY <1>8, <4>1, <4>3
    <3> QED
      BY <3>1, <3>2
  <2>2. all = [i \in 1 .. pos + part |-> all[i]]
    BY <1>11, LenProperties
  <2> QED
    BY <2>1, <2>2
<1>13. /\ call' \in Calls /\ CallPlace'
       /\ call'.op = "read" /\ call'.from = from
       /\ call'.pos = pos + part /\ call'.data = all
  BY <1>1, <1>2, <1>10, <1>11, NextPlace
<1>14. UNCHANGED <<disk, bytes>>
  BY DEF ReadBlock
<1>15. DiskTypes'
  BY <1>4, <1>13, <1>14 DEF DiskInv, DiskTypes
<1>16. CallData'
  BY <1>12, <1>13, <1>14 DEF CallData
<1>17. DiskAgrees'
  BY <1>1, <1>13, <1>14 DEF DiskInv, DiskAgrees, Pending
<1> QED
  BY <1>13, <1>15, <1>16, <1>17 DEF DiskInv

LEMMA WriteBlockInv ==
  ASSUME DiskInv, WriteBlock
  PROVE  DiskInv'
<1> USE DiskSizes
<1>1. call # NoCall /\ call.pos < call.count /\ call.op = "write" /\ call \in Calls
  BY PieceIs DEF WriteBlock, NoCall
<1>2. PICK b \in Blocks, part \in Nat, o \in Nat, pos \in Nat, from \in Nat, count \in Nat :
        /\ b = Block /\ part = Part /\ o = call.offset - call.st
        /\ pos = call.pos /\ from = call.from /\ count = call.count
        /\ part > 0 /\ o + part <= blksz /\ pos + part <= count /\ At(b, 0) = from + pos - o
  BY <1>1, PieceNumbers
<1>3. part > 0 /\ o + part <= blksz /\ pos + part <= count /\ At(b, 0) = from + pos - o
  BY <1>2
<1>4. \A i \in 1 .. count : call.data[i] = bytes[from + i - 1]
  BY <1>1, <1>2 DEF DiskInv, CallData
<1>5. call.data \in Seq(Values)
  BY <1>1 DEF Calls
<1>6. sd_buf' = [i \in InBlock |-> IF i \in o .. o + part - 1 THEN bytes[At(b, i)] ELSE Filled[i]]
  <2>1. sd_buf' = [i \in InBlock |-> IF i \in o .. o + part - 1
                                     THEN call.data[pos + (i - o) + 1] ELSE Filled[i]]
    BY <1>2 DEF WriteBlock
  <2>2. ASSUME NEW i \in o .. o + part - 1 PROVE call.data[pos + (i - o) + 1] = bytes[At(b, i)]
    <3>1. pos + (i - o) + 1 \in 1 .. count
      BY <1>3
    <3>2. At(b, i) = At(b, 0) + i /\ At(b, 0) \in Nat
      BY AtPlus
    <3>3. from + (pos + (i - o) + 1) - 1 = At(b, i)
      BY <1>3, <3>2
    <3> QED
      BY <1>4, <3>1, <3>3
  <2> QED
    BY <2>1, <2>2
<1>7. disk' = [disk EXCEPT ![b] = sd_buf'] /\ NextBlock(call.data) /\ bytes' = bytes
  BY <1>2 DEF WriteBlock
<1>8. \A i \in InBlock : i \notin o .. o + part - 1 => Filled[i] = disk[b][i]
  <2>1. CASE part < blksz
    BY <1>2, <2>1 DEF Filled
  <2>2. CASE ~(part < blksz)
    BY <1>3, <2>2 DEF InBlock
  <2> QED
    BY <2>1, <2>2
<1>9. \A i \in InBlock :
        sd_buf'[i] = IF i \in o .. o + part - 1 THEN bytes[At(b, i)] ELSE disk[b][i]
  BY <1>6, <1>8
<1>10. sd_buf' \in [InBlock -> Values]
  <2>1. disk[b] \in [InBlock -> Values]
    BY DEF DiskInv, DiskTypes
  <2>2. \A i \in InBlock : sd_buf'[i] \in Values
    <3>1. \A i \in InBlock : bytes[At(b, i)] \in Values
      BY AtRange DEF DiskInv, DiskTypes
    <3> QED
      BY <1>9, <2>1, <3>1
  <2> QED
    BY <1>6, <2>2
<1>11. /\ call' \in Calls /\ CallPlace'
       /\ call'.op = "write" /\ call'.from = from /\ call'.count = count
       /\ call'.pos = pos + part /\ call'.data = call.data
  BY <1>1, <1>2, <1>5, <1>7, NextPlace
<1>12. DiskTypes'
  BY <1>7, <1>10, <1>11 DEF DiskInv, DiskTypes
<1>13. CallData'
  BY <1>4, <1>7, <1>11 DEF CallData
<1>14. \A a : /\ Pending(a) <=> a \in from + pos .. from + count - 1
              /\ Pending(a)' <=> a \in from + (pos + part) .. from + count - 1
  BY <1>1, <1>2, <1>11 DEF Pending
<1>15. ASSUME NEW d \in Blocks, NEW j \in InBlock
       PROVE  Pending(At(d, j))' \/ disk'[d][j] = bytes[At(d, j)]
  <2>1. PICK at \in Nat : at = At(d, j)
    BY AtRange DEF DiskBytes
  <2>2. j \in Nat /\ At(d, j) = At(d, 0) + j /\ At(d, 0) \in Nat
    BY AtPlus DEF InBlock
  <2>3. at \in from + pos .. from + count - 1 \/ disk[d][j] = bytes[at]
    BY <1>14, <2>1 DEF DiskInv, DiskAgrees
  <2>4. CASE d = b
    <3>1. disk'[d][j] = IF j \in o .. o + part - 1 THEN bytes[at] ELSE disk[b][j]
      BY <1>7, <1>9, <2>1, <2>4 DEF DiskInv, DiskTypes
    <3>2. at = (from + pos - o) + j
      BY <1>3, <2>1, <2>2, <2>4
    <3>3. CASE j \in o .. o + part - 1
      BY <2>1, <3>1, <3>3
    <3>4. CASE j \notin o .. o + part - 1
      <4>1. disk'[d][j] = disk[d][j]
        BY <2>4, <3>1, <3>4
      <4>2. at \in from + pos .. from + count - 1 => at \in from + (pos + part) .. from + count - 1
        BY <1>3, <2>2, <3>2, <3>4
      <4> QED
        BY <1>14, <2>1, <2>3, <4>1, <4>2
    <3> QED
      BY <3>3, <3>4
  <2>5. CASE d # b
    <3>1. disk'[d][j] = disk[d][j]
      BY <1>7, <2>5 DEF DiskInv, DiskTypes
    <3>2. ASSUME at \in from + pos .. from + count - 1,
                 at \notin from + (pos + part) .. from + count - 1
          PROVE  FALSE
      <4>1. PICK k \in InBlock : at = (from + pos - o) + k
        <5>1. at - (from + pos - o) \in InBlock /\ at = (from + pos - o) + (at - (from + pos - o))
          BY <1>3, <3>2 DEF InBlock
        <5> QED
          BY <5>1
      <4>2. At(b, k) = At(b, 0) + k
        BY AtPlus DEF InBlock
      <4>3. At(d, j) = At(b, k)
        BY <1>3, <2>1, <4>1, <4>2
      <4>4. d \in Nat /\ b \in Nat
        BY DEF Blocks
      <4> QED
        BY <2>5, <4>3, <4>4, AtUnique
    <3> QED
      BY <1>14, <2>1, <2>3, <3>1, <3>2
  <2> QED
    BY <2>4, <2>5
<1>16. DiskAgrees'
  BY <1>7, <1>15 DEF DiskAgrees
<1> QED
  BY <1>11, <1>12, <1>13, <1>16 DEF DiskInv

LEMMA EndCallInv ==
  ASSUME DiskInv, EndCall
  PROVE  DiskInv'
<1>1. call \in Calls /\ call' = NoCall /\ UNCHANGED <<disk, sd_buf, bytes>>
  BY DEF DiskInv, DiskTypes, EndCall, NoCall
<1>2. call'.op = "none"
  BY <1>1 DEF NoCall
<1>3. \A a : ~Pending(a)
  BY <1>1 DEF EndCall, Pending, Calls
<1>4. DiskAgrees'
  BY <1>1, <1>3 DEF DiskInv, DiskAgrees
<1> QED
  BY <1>1, <1>2, <1>4 DEF DiskInv, DiskTypes, CallPlace, CallData

(* /dev/sda is an array of bytes for every number and size of blocks and every *)
(* sequence of calls: a write that covers blocks in part changes no other of   *)
(* their bytes, and a read returns what was last written.                      *)
THEOREM DiskIsAnArray == DiskSpec => []DiskIsBytes
<1>1. DiskInv /\ [DiskNext]_diskVars => DiskInv'
  <2>1. CASE UNCHANGED diskVars
    BY <2>1 DEF diskVars, DiskInv, DiskTypes, CallPlace, CallData, DiskAgrees, Pending
  <2> QED
    BY <2>1, BeginCallInv, ReadBlockInv, WriteBlockInv, EndCallInv DEF DiskNext
<1>2. DiskInv => DiskIsBytes
  <2> SUFFICES ASSUME DiskInv PROVE DiskIsBytes
    OBVIOUS
  <2>1. ASSUME call.op = "none", NEW a \in DiskBytes
        PROVE  disk[a \div blksz][a % blksz] = bytes[a]
    <3>1. PICK b \in Blocks, i \in InBlock : b = a \div blksz /\ i = a % blksz /\ a = At(b, i)
      BY AtSplit
    <3> QED
      BY <2>1, <3>1 DEF DiskInv, DiskAgrees, Pending
  <2> QED
    BY <2>1 DEF DiskIsBytes, DiskInv, CallData
<1> QED
  BY <1>1, <1>2, DiskInitInv, PTL DEF DiskSpec

-----------------------------------------------------------------------------
(* Rows and columns *)

LEMMA Division ==
  ASSUME NEW n \in Nat, n > 0, NEW a \in Nat
  PROVE  a \div n \in Nat /\ a % n \in 0 .. n - 1 /\ a = (a \div n) * n + (a % n)
<1>1. PICK q \in Int : q = a \div n /\ n * q <= a /\ a < n * q + n
  <2>1. PICK q \in Int : q = a \div n
    OBVIOUS
  <2> QED
    BY <2>1
<1>2. PICK r \in Int : r = a % n /\ 0 <= r /\ r < n
  OBVIOUS
<1>3. a = n * q + r
  BY <1>1, <1>2
<1>4. 0 <= q
  <2> SUFFICES ASSUME q + 1 <= 0 PROVE FALSE
    OBVIOUS
  <2>1. n * (q + 1) <= n * 0
    OBVIOUS
  <2>2. n * (q + 1) = n * q + n /\ n * 0 = 0
    OBVIOUS
  <2> QED
    BY <1>1, <2>1, <2>2
<1>5. q * n = n * q
  OBVIOUS
<1>6. q \in Nat /\ r \in 0 .. n - 1 /\ a = q * n + r
  BY <1>1, <1>2, <1>3, <1>4, <1>5
<1>7. a \div n = q /\ a % n = r
  BY <1>1, <1>2
<1> QED
  BY <1>6, <1>7

(* Equal q * n + r have equal q and equal r. *)
Unique(n, q, r, p, s) == q * n + r = p * n + s => q = p /\ r = s

LEMMA DivisionUnique ==
  ASSUME NEW n \in Nat, n > 0, NEW q \in Nat, NEW r \in 0 .. n - 1, NEW p \in Nat, NEW s \in 0 .. n - 1
  PROVE  Unique(n, q, r, p, s)
<1> SUFFICES ASSUME q * n + r = p * n + s PROVE q = p /\ r = s
  BY DEF Unique
<1>1. CASE q < p
  <2>1. (q + 1) * n <= p * n
    BY <1>1
  <2>2. (q + 1) * n = q * n + n
    OBVIOUS
  <2> QED
    BY <2>1, <2>2
<1>2. CASE p < q
  <2>1. (p + 1) * n <= q * n
    BY <1>2
  <2>2. (p + 1) * n = p * n + n
    OBVIOUS
  <2> QED
    BY <2>1, <2>2
<1> QED
  BY <1>1, <1>2

LEMMA DivisionOf ==
  ASSUME NEW n \in Nat, n > 0, NEW q \in Nat, NEW r \in 0 .. n - 1
  PROVE  q * n + r \in Nat /\ (q * n + r) \div n = q /\ (q * n + r) % n = r
<1> PICK a : a = q * n + r
  OBVIOUS
<1>1. a \in Nat
  <2>1. q * n \in Nat
    OBVIOUS
  <2> QED
    BY <2>1
<1>2. PICK p, s : p = a \div n /\ s = a % n
  OBVIOUS
<1>3. p \in Nat /\ s \in 0 .. n - 1 /\ a = p * n + s
  BY <1>1, <1>2, Division
<1>4. q = p /\ r = s
  BY <1>3, DivisionUnique DEF Unique
<1> QED
  BY <1>1, <1>2, <1>4

LEMMA ScreenSizes ==
  /\ Width \in Nat /\ Height \in Nat /\ TEXTURE_W \in Nat /\ TEXTURE_W > 0
  /\ TEXTURE_H \in Nat /\ TEXTURE_H > 0 /\ 2 * TEXTURE_H \in Nat /\ 2 * TEXTURE_H > 0
  /\ columns \in Nat /\ columns > 1 /\ lines \in Nat /\ lines > 1
  /\ columns * TEXTURE_W <= Width
  /\ Size \in Nat /\ columns <= Size
<1>1. /\ Width \in Nat /\ Height \in Nat /\ TEXTURE_W \in Nat /\ TEXTURE_W > 0
      /\ TEXTURE_H \in Nat /\ TEXTURE_H > 0 /\ 2 * TEXTURE_H \in Nat /\ 2 * TEXTURE_H > 0
      /\ columns \in Nat /\ columns > 1 /\ lines \in Nat /\ lines > 1
  BY ScreenAssumption
<1>2. Width = columns * TEXTURE_W + (Width % TEXTURE_W) /\ Width % TEXTURE_W \in 0 .. TEXTURE_W - 1
  BY <1>1, Division DEF columns
<1>3. columns * TEXTURE_W \in Nat
  BY <1>1
<1>4. lines * columns \in Nat /\ columns <= lines * columns
  <2>1. lines * columns = (lines - 1) * columns + columns
    BY <1>1
  <2>2. (lines - 1) * columns \in Nat
    BY <1>1
  <2> QED
    BY <1>1, <2>1, <2>2
<1>5. columns * TEXTURE_W <= Width
  <2> PICK a, b : a = columns * TEXTURE_W /\ b = Width % TEXTURE_W
    OBVIOUS
  <2>1. Width = a + b
    BY <1>2, Zenon
  <2>3. b \in 0 .. TEXTURE_W - 1
    BY <1>2, Zenon
  <2>4. a \in Nat /\ TEXTURE_W \in Nat
    BY <1>1, <1>3
  <2>2. a <= Width
    BY ONLY <2>1, <2>3, <2>4
  <2> QED
    BY <2>2
<1>6. Size \in Nat /\ columns <= Size
  BY <1>4 DEF Size
<1> QED
  BY ONLY <1>1, <1>5, <1>6

(* The cell in the line y and the column x *)
LEMMA CellAt ==
  ASSUME NEW y \in 0 .. lines - 1, NEW x \in 0 .. columns - 1
  PROVE  /\ y * columns + x \in Cells
         /\ (y * columns + x) \div columns = y /\ (y * columns + x) % columns = x
<1>1. y \in Nat /\ columns \in Nat /\ lines \in Nat /\ columns > 0
  BY ScreenSizes
<1>2. (y + 1) * columns <= lines * columns
  BY <1>1
<1>3. (y + 1) * columns = y * columns + columns
  BY <1>1
<1>4. y * columns \in Nat /\ lines * columns \in Nat
  BY <1>1
<1>5. y * columns + x \in Cells
  BY <1>1, <1>2, <1>3, <1>4 DEF Cells, Size
<1> QED
  BY <1>1, <1>5, DivisionOf

LEMMA CellPlace ==
  ASSUME NEW c \in Cells
  PROVE  /\ c \div columns \in 0 .. lines - 1 /\ c % columns \in 0 .. columns - 1
         /\ c = (c \div columns) * columns + (c % columns)
<1>1. c \in Nat /\ c < lines * columns /\ columns \in Nat /\ columns > 0 /\ lines \in Nat
  BY ScreenSizes DEF Cells, Size
<1>2. PICK k, r : k = c \div columns /\ r = c % columns
  OBVIOUS
<1>3. k \in Nat /\ r \in 0 .. columns - 1 /\ c = k * columns + r
  BY <1>1, <1>2, Division
<1>4. k < lines
  <2> SUFFICES ASSUME lines <= k PROVE FALSE
    BY <1>1, <1>3
  <2>1. lines * columns <= k * columns
    BY <1>1, <1>3
  <2>2. k * columns \in Nat /\ lines * columns \in Nat
    BY <1>1, <1>3
  <2> QED
    BY <1>1, <1>3, <2>1, <2>2
<1>5. k \in 0 .. lines - 1
  BY <1>1, <1>3, <1>4
<1> QED
  BY <1>2, <1>3, <1>5

-----------------------------------------------------------------------------
(* What a sprite draws *)

Column(q) == q[1] \div TEXTURE_W
Row(q) == q[2] \div (2 * TEXTURE_H)
InText(q) == Column(q) < columns /\ Row(q) < lines
CellOf(q) == Row(q) * columns + Column(q)
Lower(q) == IF q[2] % (2 * TEXTURE_H) < TEXTURE_H THEN 0 ELSE 1

(* The bit of the glyph g at the pixel q *)
Image(g, q) ==
  (Font[g][(q[2] % (2 * TEXTURE_H)) + 1] \div 2^(TEXTURE_W - 1 - (q[1] % TEXTURE_W))) % 2

Sprite(t, shown, n, c, h) ==
  [x |-> (c % columns) * TEXTURE_W,
   y |-> (c \div columns) * 2 * TEXTURE_H + h * TEXTURE_H,
   display |-> Displays[n], texture |-> Glyph(t, shown, c) * 2 + 1 + h]

Terminal == [buf : [Cells -> Nat], dirty : SUBSET Cells, cursor : Cells]

LEMMA SpriteIs ==
  ASSUME NEW t, NEW shown, NEW n
  PROVE  Sprites(t, shown, n) = {Sprite(t, shown, n, c, h) : c \in t.dirty, h \in {0, 1}}
BY DEF Sprites, Sprite

LEMMA PixelPlace ==
  ASSUME NEW q \in Pixels
  PROVE  /\ q[1] \in Nat /\ q[2] \in Nat
         /\ Column(q) \in Nat /\ q[1] % TEXTURE_W \in 0 .. TEXTURE_W - 1
         /\ q[1] = Column(q) * TEXTURE_W + (q[1] % TEXTURE_W)
         /\ Row(q) \in Nat /\ q[2] % (2 * TEXTURE_H) \in 0 .. 2 * TEXTURE_H - 1
         /\ q[2] = Row(q) * (2 * TEXTURE_H) + (q[2] % (2 * TEXTURE_H))
<1>1. q[1] \in Nat /\ q[2] \in Nat
  BY ScreenSizes DEF Pixels
<1>2. PICK a, b, w, hh : a = q[1] /\ b = q[2] /\ w = TEXTURE_W /\ hh = 2 * TEXTURE_H
  OBVIOUS
<1>3. a \in Nat /\ b \in Nat /\ w \in Nat /\ w > 0 /\ hh \in Nat /\ hh > 0
  BY <1>1, <1>2, ScreenSizes
<1>4. a \div w \in Nat /\ a % w \in 0 .. w - 1 /\ a = (a \div w) * w + (a % w)
  BY <1>3, Division
<1>5. b \div hh \in Nat /\ b % hh \in 0 .. hh - 1 /\ b = (b \div hh) * hh + (b % hh)
  BY <1>3, Division
<1> QED
  BY <1>1, <1>2, <1>4, <1>5 DEF Column, Row

LEMMA CellOfPixel ==
  ASSUME NEW q \in Pixels, InText(q)
  PROVE  CellOf(q) \in Cells /\ CellOf(q) \div columns = Row(q) /\ CellOf(q) % columns = Column(q)
<1>1. Row(q) \in 0 .. lines - 1 /\ Column(q) \in 0 .. columns - 1
  BY PixelPlace, ScreenSizes DEF InText
<1> QED
  BY <1>1, CellAt DEF CellOf

(* The sprite of the half h of the cell c covers its pixels. *)
LEMMA Covers ==
  ASSUME NEW q \in Pixels, NEW c \in Cells, NEW h \in {0, 1}, NEW t, NEW shown, NEW n
  PROVE  fbdraws(Sprite(t, shown, n, c, h), q) <=> InText(q) /\ c = CellOf(q) /\ h = Lower(q)
<1> PICK x, y, sp, W, H, X, Y, u, e, a, b :
      /\ x = c % columns /\ y = c \div columns /\ sp = Sprite(t, shown, n, c, h)
      /\ W = TEXTURE_W /\ H = TEXTURE_H /\ X = Column(q) /\ Y = Row(q)
      /\ u = q[1] % TEXTURE_W /\ e = q[2] % (2 * TEXTURE_H) /\ a = q[1] /\ b = q[2]
  OBVIOUS
<1>1. /\ W \in Nat /\ W > 0 /\ H \in Nat /\ H > 0 /\ X \in Nat /\ Y \in Nat
      /\ u \in 0 .. W - 1 /\ e \in 0 .. 2 * H - 1
      /\ a = X * W + u /\ b = Y * (2 * H) + e
  BY PixelPlace, ScreenSizes
<1>2. x \in 0 .. columns - 1 /\ y \in 0 .. lines - 1 /\ c = y * columns + x
  BY CellPlace
<1>3. sp.x = x * W /\ sp.y = y * 2 * H + h * H
  BY DEF Sprite
<1>4. x \in Nat /\ y \in Nat /\ x < columns /\ y < lines /\ columns \in Nat /\ lines \in Nat
  BY <1>2, ScreenSizes
<1>5. x * W \in Nat /\ x * W + W <= Width /\ Width \in Nat
  <2> PICK d : d = columns
    OBVIOUS
  <2>1. d \in Nat /\ x < d /\ d * W <= Width /\ Width \in Nat
    BY <1>4, ScreenSizes
  <2>2. (x + 1) * W <= d * W /\ x * W \in Nat /\ d * W \in Nat
    BY <1>1, <1>4, <2>1
  <2>3. (x + 1) * W = x * W + W
    BY <1>1, <1>4
  <2> PICK xw, dw : xw = x * W /\ dw = d * W
    OBVIOUS
  <2>4. xw + W <= dw /\ dw <= Width /\ xw \in Nat /\ dw \in Nat
    BY <2>1, <2>2, <2>3
  <2>5. xw + W <= Width
    BY ONLY <1>1, <2>1, <2>4
  <2> QED
    BY <2>1, <2>4, <2>5
<1>6. fbdraws(sp, q) <=> a \in x * W .. x * W + W - 1 /\ b \in y * 2 * H + h * H .. y * 2 * H + h * H + H - 1
  <2>1. (IF sp.x + W >= Width THEN Width - sp.x ELSE W) = W
    <3> PICK v : v = x * W
      OBVIOUS
    <3>1. sp.x = v /\ v \in Nat /\ v + W <= Width /\ Width \in Nat
      BY <1>3, <1>5
    <3> QED
      BY ONLY <1>1, <3>1
  <2> QED
    BY <1>3, <2>1 DEF fbdraws
<1>7. a \in x * W .. x * W + W - 1 <=> X = x
  <2>1. CASE X = x
    BY <1>1, <1>4, <1>5, <2>1
  <2>2. ASSUME a \in x * W .. x * W + W - 1 PROVE X = x
    <3> PICK v : v = a - x * W
      OBVIOUS
    <3>1. v \in 0 .. W - 1 /\ x * W + v = X * W + u
      BY <1>1, <1>5, <2>2
    <3>2. Unique(W, x, v, X, u)
      BY <1>1, <1>4, <3>1, DivisionUnique
    <3> QED
      BY <3>1, <3>2 DEF Unique
  <2> QED
    BY <2>1, <2>2
<1> PICK D : D = 2 * H
  OBVIOUS
<1>8. D \in Nat /\ D > 0 /\ D = 2 * H /\ y * 2 * H = y * D /\ y * D \in Nat /\ e \in 0 .. D - 1 /\ b = Y * D + e
  BY <1>1, <1>4
<1>9. h * H = (IF h = 0 THEN 0 ELSE H) /\ Lower(q) = IF e < H THEN 0 ELSE 1
  BY <1>1 DEF Lower
<1>10. b \in y * 2 * H + h * H .. y * 2 * H + h * H + H - 1 <=> Y = y /\ h = Lower(q)
  <2>1. ASSUME Y = y, h = Lower(q) PROVE b \in y * 2 * H + h * H .. y * 2 * H + h * H + H - 1
    <3> PICK k : k = y * D
      OBVIOUS
    <3>1. b = k + e /\ k \in Nat /\ e \in Nat /\ e < 2 * H /\ H \in Nat
      BY <1>1, <1>8, <2>1
    <3>2. h = IF e < H THEN 0 ELSE 1
      BY <1>9, <2>1
    <3>3. b \in k + (IF h = 0 THEN 0 ELSE H) .. k + (IF h = 0 THEN 0 ELSE H) + H - 1
      BY ONLY <3>1, <3>2
    <3> QED
      BY <1>8, <1>9, <3>3
  <2>2. ASSUME b \in y * 2 * H + h * H .. y * 2 * H + h * H + H - 1 PROVE Y = y /\ h = Lower(q)
    <3> PICK v : v = b - y * D
      OBVIOUS
    <3>1. v \in 0 .. D - 1 /\ y * D + v = Y * D + e
      BY <1>1, <1>8, <1>9, <2>2
    <3>2. Y = y /\ v = e
      <4>1. Unique(D, y, v, Y, e)
        BY <1>1, <1>4, <1>8, <3>1, DivisionUnique
      <4> QED
        BY <3>1, <4>1 DEF Unique
    <3> PICK k : k = y * D
      OBVIOUS
    <3>3. b - k = e /\ k \in Nat /\ e \in Nat /\ H \in Nat /\ b \in Nat
      <4>1. b = k + e /\ k \in Nat /\ e \in 0 .. D - 1
        BY <1>8, <3>2
      <4>3. D \in Nat
        BY <1>8
      <4>2. e \in Nat /\ b \in Nat
        BY ONLY <4>1, <4>3
      <4> QED
        BY <1>1, <4>1, <4>2
    <3>4. b \in k + (IF h = 0 THEN 0 ELSE H) .. k + (IF h = 0 THEN 0 ELSE H) + H - 1
      BY <1>8, <1>9, <2>2
    <3>5. h = IF e < H THEN 0 ELSE 1
      BY ONLY <3>3, <3>4, h \in {0, 1}
    <3> QED
      BY <1>9, <3>2, <3>5
  <2> QED
    BY <2>1, <2>2
<1>11. X = x /\ Y = y <=> InText(q) /\ c = CellOf(q)
  <2>1. ASSUME X = x, Y = y PROVE InText(q) /\ c = CellOf(q)
    BY <1>2, <1>4, <2>1 DEF InText, CellOf
  <2>2. ASSUME InText(q), c = CellOf(q) PROVE X = x /\ Y = y
    BY <2>2, CellOfPixel
  <2> QED
    BY <2>1, <2>2
<1> QED
  BY <1>6, <1>7, <1>10, <1>11

(* The pixel of the sprite that covers q is the bit of its glyph there. *)
LEMMA SpriteBit ==
  ASSUME NEW q \in Pixels, NEW t, NEW shown, NEW n, InText(q),
         Glyph(t, shown, CellOf(q)) \in Nat
  PROVE  LET sp == Sprite(t, shown, n, CellOf(q), Lower(q))
         IN /\ sp.texture > 0
            /\ Texture(sp.texture)[q[2] - sp.y][q[1] - sp.x] = Image(Glyph(t, shown, CellOf(q)), q)
<1> PICK c, h, g, W, H, X, Y, u, e, a, b, sp, i :
      /\ c = CellOf(q) /\ h = Lower(q) /\ g = Glyph(t, shown, CellOf(q))
      /\ W = TEXTURE_W /\ H = TEXTURE_H /\ X = Column(q) /\ Y = Row(q)
      /\ u = q[1] % TEXTURE_W /\ e = q[2] % (2 * TEXTURE_H) /\ a = q[1] /\ b = q[2]
      /\ sp = Sprite(t, shown, n, CellOf(q), Lower(q)) /\ i = Glyph(t, shown, CellOf(q)) * 2 + 1 + Lower(q)
  OBVIOUS
<1>1. /\ W \in Nat /\ W > 0 /\ H \in Nat /\ H > 0 /\ X \in Nat /\ Y \in Nat
      /\ u \in 0 .. W - 1 /\ e \in 0 .. 2 * H - 1
      /\ a = X * W + u /\ b = Y * (2 * H) + e
  BY PixelPlace, ScreenSizes
<1>2. c % columns = X /\ c \div columns = Y
  BY CellOfPixel
<1>3. sp.x = X * W /\ sp.y = Y * 2 * H + h * H /\ sp.texture = i
  BY <1>2 DEF Sprite
<1>4. h = (IF e < H THEN 0 ELSE 1) /\ h * H = (IF e < H THEN 0 ELSE H)
  BY <1>1 DEF Lower
<1>5. g \in Nat /\ i = g * 2 + 1 + h /\ i > 0
  BY <1>4
<1>6. (i - 1) \div 2 = g /\ (i % 2 = 1 <=> h = 0)
  <2>1. h \in {0, 1}
    BY <1>4
  <2>2. CASE h = 0
    <3>1. i = g * 2 + 1
      BY <1>5, <2>2
    <3> QED
      BY ONLY <1>5, <2>2, <3>1
  <2>3. CASE h = 1
    <3>1. i = g * 2 + 2
      BY <1>5, <2>3
    <3> QED
      BY ONLY <1>5, <2>3, <3>1
  <2> QED
    BY <2>1, <2>2, <2>3
<1>7. a - sp.x = u
  <2> PICK v : v = X * W
    OBVIOUS
  <2>1. v \in Nat /\ a = v + u /\ u \in Nat
    BY <1>1
  <2> QED
    BY <1>3, <2>1
<1>8. b - sp.y = e - h * H
  <2> PICK v, hh : v = Y * (2 * H) /\ hh = h * H
    OBVIOUS
  <2>1. v \in Nat /\ b = v + e /\ e \in Nat /\ hh \in Nat /\ Y * 2 * H = v
    BY <1>1, <1>4
  <2>2. sp.y = v + hh
    BY <1>3, <2>1
  <2> QED
    BY <2>1, <2>2
<1> PICK dx, dy : dx = a - sp.x /\ dy = b - sp.y
  OBVIOUS
<1>9. dx = u /\ dy = (IF e < H THEN e ELSE e - H) /\ dx \in 0 .. W - 1 /\ dy \in 0 .. H - 1
  BY <1>1, <1>4, <1>7, <1>8
<1>10. Texture(i)[dy][dx] = (Font[g][dy + (IF h = 0 THEN 0 ELSE H) + 1] \div 2^(W - 1 - dx)) % 2
  BY <1>6, <1>9 DEF Texture
<1>11. dy + (IF h = 0 THEN 0 ELSE H) + 1 = e + 1
  BY <1>1, <1>4, <1>9
<1>12. Texture(i)[dy][dx] = Image(g, q)
  BY <1>9, <1>10, <1>11 DEF Image
<1> QED
  BY <1>3, <1>5, <1>12

(* What is drawn of a terminal is what its marked cells show, and nothing  *)
(* else changes.                                                           *)
Draws(pixels, t, shown, n, q) ==
  fb_write(pixels, Sprites(t, shown, n), Displays[n])[q] =
    IF InText(q) /\ CellOf(q) \in t.dirty THEN Image(Glyph(t, shown, CellOf(q)), q) ELSE pixels[q]

LEMMA DrawIs ==
  ASSUME NEW pixels, NEW t \in Terminal, NEW shown, NEW n, NEW q \in Pixels
  PROVE  Draws(pixels, t, shown, n, q)
<1> DEFINE S == Sprites(t, shown, n)
           drawn == {sp \in S : sp.texture > 0 /\ sp.display = Displays[n] /\ fbdraws(sp, q)}
<1> PICK c, h : c = CellOf(q) /\ h = Lower(q)
  OBVIOUS
<1>1. \A sp \in drawn : InText(q) /\ c \in t.dirty /\ sp = Sprite(t, shown, n, c, h)
  <2> SUFFICES ASSUME NEW sp \in drawn PROVE InText(q) /\ c \in t.dirty /\ sp = Sprite(t, shown, n, c, h)
    OBVIOUS
  <2>1. PICK d \in t.dirty, k \in {0, 1} : sp = Sprite(t, shown, n, d, k)
    BY SpriteIs
  <2>2. d \in Cells /\ fbdraws(Sprite(t, shown, n, d, k), q)
    BY <2>1 DEF Terminal
  <2> QED
    BY <2>1, <2>2, Covers
<1>2. fb_write(pixels, S, Displays[n])[q] =
        IF drawn = {} THEN pixels[q]
        ELSE LET sp == CHOOSE sp \in drawn : TRUE IN Texture(sp.texture)[q[2] - sp.y][q[1] - sp.x]
  BY DEF fb_write
<1>3. CASE InText(q) /\ c \in t.dirty
  <2>1. c \in Cells /\ h \in {0, 1} /\ Glyph(t, shown, c) \in Nat
    BY <1>3 DEF Terminal, Lower, Glyph, CURSOR
  <2>2. PICK sp : sp = Sprite(t, shown, n, c, h)
    OBVIOUS
  <2>3. sp \in S
    BY <1>3, <2>1, <2>2, SpriteIs
  <2>4. fbdraws(sp, q)
    BY <1>3, <2>1, <2>2, Covers
  <2>5. sp.texture > 0 /\ Texture(sp.texture)[q[2] - sp.y][q[1] - sp.x] = Image(Glyph(t, shown, c), q)
    BY <1>3, <2>1, <2>2, SpriteBit
  <2>6. sp.display = Displays[n]
    BY <2>2 DEF Sprite
  <2>7. sp \in drawn
    BY <2>3, <2>4, <2>5, <2>6
  <2>8. \A s \in drawn : s = sp
    BY <1>1, <2>2
  <2>9. (CHOOSE s \in drawn : TRUE) = sp
    <3> HIDE DEF drawn
    <3> QED
      BY <2>7, <2>8
  <2>10. fb_write(pixels, S, Displays[n])[q] = Texture(sp.texture)[q[2] - sp.y][q[1] - sp.x]
    <3>1. drawn # {}
      BY <2>7
    <3> HIDE DEF drawn
    <3> QED
      BY <1>2, <2>9, <3>1
  <2> QED
    BY <1>3, <2>5, <2>10 DEF Draws
<1>4. CASE ~(InText(q) /\ c \in t.dirty)
  <2>1. drawn = {}
    BY <1>1, <1>4
  <2> QED
    BY <1>2, <1>4, <2>1 DEF Draws
<1> QED
  BY <1>3, <1>4

-----------------------------------------------------------------------------
(* A character written to a terminal *)

LEMMA LineStart ==
  ASSUME NEW c \in Cells
  PROVE  /\ StartOfLine(c) \in Cells /\ StartOfLine(c) \div columns = c \div columns
         /\ c \in LineOf(StartOfLine(c)) /\ StartOfLine(c) \in LineOf(StartOfLine(c))
         /\ StartOfLine(c) + columns \in 0 .. Size
<1> PICK y, s : y = c \div columns /\ s = StartOfLine(c)
  OBVIOUS
<1>0. columns \in Nat /\ lines \in Nat /\ columns > 0 /\ 0 \in 0 .. columns - 1
  BY ScreenSizes
<1>1. y \in 0 .. lines - 1 /\ s = y * columns
  BY CellPlace DEF StartOfLine
<1>2. s \in Cells /\ s \div columns = y
  <2>1. y * columns + 0 \in Cells /\ (y * columns + 0) \div columns = y
    BY <1>0, <1>1, CellAt
  <2>2. y * columns + 0 = y * columns
    BY <1>0, <1>1
  <2> QED
    BY <1>1, <2>1, <2>2
<1>3. c \in LineOf(s) /\ s \in LineOf(s)
  BY <1>2 DEF LineOf
<1>4. s + columns \in 0 .. Size
  <2>1. (y + 1) * columns <= lines * columns
    BY <1>0, <1>1
  <2>2. (y + 1) * columns = y * columns + columns /\ y * columns \in Nat /\ lines * columns \in Nat
    BY <1>0, <1>1
  <2> QED
    BY <1>0, <1>1, <2>1, <2>2 DEF Size
<1> QED
  BY <1>2, <1>3, <1>4

LEMMA ScrollType ==
  ASSUME NEW t, t.buf \in [Cells -> Nat], t.dirty \in SUBSET Cells, t.cursor = Size
  PROVE  MarkAll(ScrollUp(t)) \in Terminal /\ MarkAll(ScrollUp(t)).dirty = Cells
<1>1. NUL \in Nat
  BY DEF NUL
<1>2. [c \in Cells |-> IF c + columns \in Cells THEN t.buf[c + columns] ELSE NUL] \in [Cells -> Nat]
  BY <1>1
<1>3. Size - columns \in Cells
  BY ScreenSizes DEF Cells
<1>4. /\ ScrollUp(t).buf \in [Cells -> Nat] /\ ScrollUp(t).cursor \in Cells
      /\ ScrollUp(t).dirty \in SUBSET Cells
      /\ ScrollUp(t) = [buf |-> ScrollUp(t).buf, dirty |-> ScrollUp(t).dirty, cursor |-> ScrollUp(t).cursor]
  BY <1>2, <1>3 DEF ScrollUp
<1> PICK r : r = ScrollUp(t)
  OBVIOUS
<1>5. r \in Terminal
  BY <1>4 DEF Terminal
<1>6. MarkAll(r) = [r EXCEPT !.dirty = @ \cup Cells]
  BY DEF MarkAll, Marked
<1>7. r.dirty \cup Cells = Cells
  BY <1>5 DEF Terminal
<1> QED
  BY <1>5, <1>6, <1>7 DEF Terminal

(* Cells that t2 does not mark look as they did in t. *)
Marks(t, t2) ==
  /\ t2 \in Terminal
  /\ \A c \in Cells \ t2.dirty : t2.buf[c] = t.buf[c] /\ c # t.cursor /\ c # t2.cursor

LEMMA MovedMarks ==
  ASSUME NEW t \in Terminal, NEW m, m.buf \in [Cells -> Nat], m.dirty = t.dirty, m.cursor \in 0 .. Size,
         m = [buf |-> m.buf, dirty |-> m.dirty, cursor |-> m.cursor],
         NEW cells, m.cursor # Size => cells \in SUBSET Cells /\ {t.cursor, m.cursor} \subseteq cells,
         \A c \in Cells \ {t.cursor} : m.buf[c] = t.buf[c]
  PROVE  Marks(t, Moved(m, cells))
<1>1. CASE m.cursor = Size
  <2>1. Moved(m, cells) = MarkAll(ScrollUp(m))
    BY <1>1 DEF Moved
  <2>2. m.dirty \in SUBSET Cells
    BY DEF Terminal
  <2>3. MarkAll(ScrollUp(m)) \in Terminal /\ MarkAll(ScrollUp(m)).dirty = Cells
    BY <1>1, <2>2, ScrollType
  <2> QED
    BY <2>1, <2>3 DEF Marks
<1>2. CASE m.cursor # Size
  <2>1. Moved(m, cells) = [m EXCEPT !.dirty = @ \cup cells]
    BY <1>2 DEF Moved, Marked
  <2>2. m.cursor \in Cells
    BY <1>2, ScreenSizes DEF Cells
  <2>3. m \in Terminal
    BY <2>2 DEF Terminal
  <2> PICK t2 : t2 = Moved(m, cells)
    OBVIOUS
  <2>4. t2 \in Terminal /\ t2.buf = m.buf /\ t2.cursor = m.cursor /\ t2.dirty = m.dirty \cup cells
    BY <1>2, <2>1, <2>3 DEF Terminal
  <2>5. Marks(t, t2)
    BY <1>2, <2>4 DEF Marks
  <2> QED
    BY <2>5
<1> QED
  BY <1>1, <1>2

LEMMA PutcMarks ==
  ASSUME NEW t \in Terminal, NEW ch \in Nat
  PROVE  Marks(t, tty_putc(t, ch))
<1>0. /\ t.buf \in [Cells -> Nat] /\ t.dirty \in SUBSET Cells /\ t.cursor \in Cells
      /\ t = [buf |-> t.buf, dirty |-> t.dirty, cursor |-> t.cursor]
  BY DEF Terminal
<1>d. CR # BS /\ CR # LF /\ BS # LF
  BY DEF CR, BS, LF
<1> PICK s : s = StartOfLine(t.cursor)
  OBVIOUS
<1>1. s \in Cells /\ t.cursor \in LineOf(s) /\ s \in LineOf(s) /\ s + columns \in 0 .. Size
  BY <1>0, LineStart
<1>2. CASE ch = CR
  <2>1. tty_putc(t, ch) = Marked([t EXCEPT !.cursor = s], LineOf(s))
    <3>1. tty_putc(t, ch) = LET at == StartOfLine(t.cursor)
                            IN Marked([t EXCEPT !.cursor = at], LineOf(at))
      BY <1>2, <1>d DEF tty_putc
    <3> QED
      BY <3>1
  <2>2. LineOf(s) \in SUBSET Cells
    BY DEF LineOf
  <2> PICK t2 : t2 = tty_putc(t, ch)
    OBVIOUS
  <2>3. t2 = [t EXCEPT !.cursor = s, !.dirty = @ \cup LineOf(s)]
    BY <2>1 DEF Marked
  <2>4. t2 \in Terminal /\ t2.buf = t.buf /\ t2.cursor = s /\ t2.dirty = t.dirty \cup LineOf(s)
    BY <1>1, <2>2, <2>3 DEF Terminal
  <2>5. Marks(t, t2)
    BY <1>1, <2>4 DEF Marks
  <2> QED
    BY <2>5
<1>3. CASE ch = BS
  <2> PICK r, t2 : r = Back(t) /\ t2 = tty_putc(t, ch)
    OBVIOUS
  <2>1. t2 = Marked(r, {r.cursor, r.cursor + 1})
    BY <1>3, <1>d DEF tty_putc
  <2>2. CASE t.cursor = 0
    <3>1. r = t
      BY <2>2 DEF Back
    <3>2. {t.cursor, t.cursor + 1} \in SUBSET Cells
      BY <2>2, ScreenSizes DEF Cells
    <3>3. t2 = [t EXCEPT !.dirty = @ \cup {t.cursor, t.cursor + 1}]
      BY <2>1, <3>1 DEF Marked
    <3>4. t2 \in Terminal /\ t2.buf = t.buf /\ t2.cursor = t.cursor /\ t.cursor \in t2.dirty
      BY <3>2, <3>3 DEF Terminal
    <3>5. Marks(t, t2)
      BY <3>4 DEF Marks
    <3> QED
      BY <3>5
  <2>3. CASE t.cursor # 0
    <3>1. t.cursor - 1 \in Cells /\ (t.cursor - 1) + 1 = t.cursor /\ NUL \in Nat
      BY <1>0, <2>3, ScreenSizes DEF Cells, NUL
    <3>2. r = [t EXCEPT !.cursor = @ - 1, !.buf[t.cursor - 1] = NUL]
      BY <2>3 DEF Back
    <3>3. /\ r \in Terminal /\ r.cursor = t.cursor - 1 /\ r.dirty = t.dirty
          /\ \A c \in Cells : c # r.cursor => r.buf[c] = t.buf[c]
      <4>1. /\ r.buf = [t.buf EXCEPT ![t.cursor - 1] = NUL]
            /\ r.dirty = t.dirty /\ r.cursor = t.cursor - 1
            /\ r = [buf |-> r.buf, dirty |-> r.dirty, cursor |-> r.cursor]
        BY <1>0, <3>2
      <4>2. r.buf \in [Cells -> Nat] /\ \A c \in Cells : c # t.cursor - 1 => r.buf[c] = t.buf[c]
        BY <1>0, <3>1, <4>1
      <4>3. r \in Terminal
        BY <1>0, <3>1, <4>1, <4>2 DEF Terminal
      <4> QED
        BY <4>1, <4>2, <4>3
    <3>4. t2 = [r EXCEPT !.dirty = @ \cup {r.cursor, t.cursor}]
      BY <2>1, <3>1, <3>3 DEF Marked
    <3>5. /\ t2 \in Terminal /\ t2.buf = r.buf /\ t2.cursor = r.cursor
          /\ t2.dirty = t.dirty \cup {r.cursor, t.cursor}
      BY <1>0, <3>1, <3>3, <3>4 DEF Terminal
    <3>6. Marks(t, t2)
      BY <3>3, <3>5 DEF Marks
    <3> QED
      BY <3>6
  <2> QED
    BY <2>2, <2>3
<1>4. CASE ch = LF
  <2> PICK m, cells : m = [t EXCEPT !.cursor = s + columns] /\ cells = LineOf(s) \cup LineOf(s + columns)
    OBVIOUS
  <2>1. tty_putc(t, ch) = Moved(m, cells)
    <3>1. (s + columns) - columns = s
      BY <1>1, ScreenSizes DEF Cells
    <3> QED
      BY <1>4, <1>d, <3>1 DEF tty_putc
  <2>2. /\ m.buf = t.buf /\ m.dirty = t.dirty /\ m.cursor = s + columns
        /\ m = [buf |-> m.buf, dirty |-> m.dirty, cursor |-> m.cursor]
    BY <1>0
  <2>3. cells \in SUBSET Cells
    BY DEF LineOf
  <2>4. m.cursor # Size => {t.cursor, m.cursor} \subseteq cells
    <3> SUFFICES ASSUME m.cursor # Size PROVE {t.cursor, m.cursor} \subseteq cells
      OBVIOUS
    <3>1. m.cursor \in Cells
      BY <1>1, <2>2, ScreenSizes DEF Cells
    <3> QED
      BY <1>1, <2>2, <3>1 DEF LineOf
  <2>5. Marks(t, Moved(m, cells))
    BY <1>0, <1>1, <2>2, <2>3, <2>4, MovedMarks
  <2> QED
    BY <2>1, <2>5
<1>5. CASE ch \notin {CR, BS, LF}
  <2> PICK m, cells : m = [t EXCEPT !.buf[t.cursor] = ch, !.cursor = @ + 1] /\ cells = {t.cursor, t.cursor + 1}
    OBVIOUS
  <2>1. tty_putc(t, ch) = Moved(m, cells)
    BY <1>5 DEF tty_putc
  <2>2. /\ m.buf = [t.buf EXCEPT ![t.cursor] = ch] /\ m.dirty = t.dirty /\ m.cursor = t.cursor + 1
        /\ m = [buf |-> m.buf, dirty |-> m.dirty, cursor |-> m.cursor]
    BY <1>0
  <2>3. m.buf \in [Cells -> Nat] /\ \A c \in Cells \ {t.cursor} : m.buf[c] = t.buf[c]
    BY <1>0, <2>2
  <2>4. m.cursor \in 0 .. Size
    BY <1>0, <2>2, ScreenSizes DEF Cells
  <2>5. m.cursor # Size => cells \in SUBSET Cells /\ {t.cursor, m.cursor} \subseteq cells
    BY <1>0, <2>2, <2>4, ScreenSizes DEF Cells
  <2>6. Marks(t, Moved(m, cells))
    BY <2>2, <2>3, <2>4, <2>5, MovedMarks
  <2> QED
    BY <2>1, <2>6
<1> QED
  BY <1>2, <1>3, <1>4, <1>5

-----------------------------------------------------------------------------
(* The welcome text *)

(* g holds the terminal with the first n characters of the text. *)
Welcomes(g, n) ==
  g[0] = Blank /\ \A i \in 1 .. n : g[i] = tty_putc(g[i - 1], WelcomeText[i])

LEMMA BlankType == Blank \in Terminal
<1>1. 0 \in Cells /\ NUL \in Nat
  BY ScreenSizes DEF Cells, NUL
<1> QED
  BY <1>1 DEF Blank, Terminal

LEMMA WelcomesExist ==
  \E g \in [0 .. Len(WelcomeText) -> Terminal] : Welcomes(g, Len(WelcomeText))
<1> PICK z : z = Len(WelcomeText)
  OBVIOUS
<1>0. z \in Nat /\ \A i \in 1 .. z : WelcomeText[i] \in Nat
  <2>1. WelcomeText \in Seq(DOMAIN Font \cup {LF}) /\ DOMAIN Font \subseteq Nat
    BY ScreenAssumption
  <2>2. z \in Nat /\ \A i \in 1 .. z : WelcomeText[i] \in DOMAIN Font \cup {LF}
    BY <2>1
  <2>3. LF \in Nat
    BY DEF LF
  <2> QED
    BY <2>1, <2>2, <2>3
<1> DEFINE S == {n \in 0 .. z : \E g \in [0 .. n -> Terminal] : Welcomes(g, n)}
<1>1. 0 \in S
  <2>1. PICK g : g = [k \in 0 .. 0 |-> Blank]
    OBVIOUS
  <2>2. g \in [0 .. 0 -> Terminal] /\ Welcomes(g, 0)
    BY <2>1, BlankType DEF Welcomes
  <2>3. \E h \in [0 .. 0 -> Terminal] : Welcomes(h, 0)
    BY <2>2
  <2> QED
    BY <1>0, <2>3
<1>2. ASSUME NEW n \in 0 .. z - 1, n \in S PROVE n + 1 \in S
  <2>1. PICK g \in [0 .. n -> Terminal] : Welcomes(g, n)
    BY <1>2
  <2>2. n \in Nat /\ n + 1 \in 1 .. z /\ g[n] \in Terminal /\ WelcomeText[n + 1] \in Nat
    BY <1>0
  <2>3. PICK x : x = tty_putc(g[n], WelcomeText[n + 1])
    OBVIOUS
  <2>4. x \in Terminal
    BY <2>2, <2>3, PutcMarks DEF Marks
  <2>5. PICK h : h = [k \in 0 .. n + 1 |-> IF k = n + 1 THEN x ELSE g[k]]
    OBVIOUS
  <2>6. h \in [0 .. n + 1 -> Terminal]
    BY <2>2, <2>4, <2>5
  <2>7. h[n + 1] = x /\ \A k \in 0 .. n : h[k] = g[k]
    BY <2>2, <2>5
  <2>8. ASSUME NEW i \in 1 .. n + 1 PROVE h[i] = tty_putc(h[i - 1], WelcomeText[i])
    <3>1. CASE i = n + 1
      <4>1. n \in 0 .. n /\ i - 1 = n
        BY <2>2, <3>1
      <4>2. h[i - 1] = g[n]
        BY <2>7, <4>1
      <4> QED
        BY <2>3, <2>7, <3>1, <4>2
    <3>2. CASE i # n + 1
      <4>1. i \in 1 .. n /\ i \in 0 .. n /\ i - 1 \in 0 .. n
        BY <2>2, <3>2
      <4>2. g[i] = tty_putc(g[i - 1], WelcomeText[i])
        BY <2>1, <4>1 DEF Welcomes
      <4> QED
        BY <2>7, <4>1, <4>2
    <3> QED
      BY <3>1, <3>2
  <2>9. h[0] = Blank
    BY <2>1, <2>2, <2>7 DEF Welcomes
  <2>10. \E f \in [0 .. n + 1 -> Terminal] : Welcomes(f, n + 1)
    BY <2>6, <2>8, <2>9 DEF Welcomes
  <2> QED
    BY <1>0, <2>2, <2>10
<1>3. \A n \in 0 .. z : n \in S
  <2> PICK a : a = 0
    OBVIOUS
  <2>1. a \in Nat /\ a \in S /\ \A n \in a .. z - 1 : n \in S => n + 1 \in S
    BY <1>1, <1>2
  <2> HIDE DEF S
  <2>2. \A n \in a .. z : n \in S
    BY <1>0, <2>1, FromTo
  <2> QED
    BY <2>2
<1> QED
  BY <1>0, <1>3

LEMMA WelcomeType == welcomed[Len(WelcomeText)] \in Terminal
<1> PICK z : z = Len(WelcomeText)
  OBVIOUS
<1>0. z \in Nat
  BY ScreenAssumption
<1>1. PICK g \in [0 .. z -> Terminal] : Welcomes(g, z)
  BY WelcomesExist
<1>2. g = [i \in 0 .. z |-> IF i = 0 THEN Blank ELSE tty_putc(g[i - 1], WelcomeText[i])]
  <2> PICK h : h = [i \in 0 .. z |-> IF i = 0 THEN Blank ELSE tty_putc(g[i - 1], WelcomeText[i])]
    OBVIOUS
  <2>1. ASSUME NEW i \in 0 .. z PROVE g[i] = h[i]
    <3>1. CASE i = 0
      BY <1>1, <3>1 DEF Welcomes
    <3>2. CASE i # 0
      <4>1. i \in 1 .. z
        BY <1>0, <3>2
      <4> QED
        BY <1>1, <3>2, <4>1 DEF Welcomes
    <3> QED
      BY <3>1, <3>2
  <2>2. g = [i \in 0 .. z |-> g[i]]
    BY <1>1
  <2>3. h = [i \in 0 .. z |-> h[i]]
    OBVIOUS
  <2> QED
    BY <2>1, <2>2, <2>3
<1>3. welcomed = [i \in 0 .. z |-> IF i = 0 THEN Blank ELSE tty_putc(welcomed[i - 1], WelcomeText[i])]
  BY <1>2 DEF welcomed
<1> DEFINE S == {i \in 0 .. z : welcomed[i] \in Terminal}
<1>4. 0 \in S
  BY <1>0, <1>3, BlankType
<1>5. ASSUME NEW n \in 0 .. z - 1, n \in S PROVE n + 1 \in S
  <2>1. n + 1 \in 1 .. z /\ n + 1 # 0 /\ (n + 1) - 1 = n /\ n + 1 \in 0 .. z
    BY <1>0
  <2>2. welcomed[n + 1] = tty_putc(welcomed[n], WelcomeText[n + 1])
    BY <1>3, <2>1
  <2>3. WelcomeText[n + 1] \in Nat
    <3>1. WelcomeText[n + 1] \in DOMAIN Font \cup {LF}
      BY <2>1, ScreenAssumption
    <3> QED
      BY <3>1, ScreenAssumption DEF LF
  <2>4. welcomed[n] \in Terminal
    BY <1>5
  <2>5. welcomed[n + 1] \in Terminal
    BY <2>2, <2>3, <2>4, PutcMarks DEF Marks
  <2> QED
    BY <2>1, <2>5
<1>6. \A n \in 0 .. z : n \in S
  <2> PICK a : a = 0
    OBVIOUS
  <2>1. a \in Nat /\ a \in S /\ \A n \in a .. z - 1 : n \in S => n + 1 \in S
    BY <1>4, <1>5
  <2> HIDE DEF S
  <2>2. \A n \in a .. z : n \in S
    BY <1>0, <2>1, FromTo
  <2> QED
    BY <2>2
<1> QED
  BY <1>0, <1>6

-----------------------------------------------------------------------------
(* The monitor *)

Shows(t, shown, q) == IF InText(q) THEN Image(Glyph(t, shown, CellOf(q)), q) ELSE 0

ScreenInv ==
  /\ tty \in [Ttys -> Terminal] /\ show_cursor \in BOOLEAN /\ ttydev \in Ttys
  /\ current = Displays[ttydev]
  /\ \A q \in Pixels : panel[q] = Shows(tty[ttydev], show_cursor, q)

(* The cells of t that are not marked look right already. *)
Ready(t) ==
  \A q \in Pixels : IF InText(q) /\ CellOf(q) \in t.dirty THEN TRUE
                    ELSE panel[q] = Shows(t, show_cursor, q)

LEMMA ShowWithInv ==
  ASSUME tty \in [Ttys -> Terminal], show_cursor \in BOOLEAN,
         NEW n \in Ttys, NEW t \in Terminal, NEW shown \in BOOLEAN,
         Ready(t), ShowWith(n, t, shown), ttydev' = n, current' = Displays[n]
  PROVE  ScreenInv'
<1> PICK marked, written, sc, p, pn :
      /\ marked = Marked(Rendered(t), {t.cursor}) /\ sc = show_cursor /\ p = panel
      /\ written = fb_write(p, Sprites(t, sc, n), Displays[n])
      /\ pn = panel'
  OBVIOUS
<1>1. /\ show_cursor' = shown /\ pn = fb_write(written, Sprites(marked, shown, n), Displays[n])
      /\ tty' = [tty EXCEPT ![n] = Rendered(marked)]
  BY DEF ShowWith
<1>2. marked \in Terminal /\ marked.buf = t.buf /\ marked.cursor = t.cursor /\ marked.dirty = {t.cursor}
  BY DEF Marked, Rendered, Terminal
<1>3. PICK r : r = Rendered(marked)
  OBVIOUS
<1>4. r \in Terminal /\ r.buf = t.buf /\ r.cursor = t.cursor
  BY <1>2, <1>3 DEF Rendered, Terminal
<1>5. tty' \in [Ttys -> Terminal] /\ tty'[n] = r
  BY <1>1, <1>3, <1>4
<1>6. ASSUME NEW q \in Pixels PROVE pn[q] = Shows(r, shown, q)
  <2>1. Draws(p, t, sc, n, q) /\ Draws(written, marked, shown, n, q)
    BY <1>2, DrawIs
  <2>2. written[q] = Shows(t, sc, q)
    <3>1. written[q] = IF InText(q) /\ CellOf(q) \in t.dirty THEN Image(Glyph(t, sc, CellOf(q)), q) ELSE p[q]
      BY <2>1 DEF Draws
    <3>2. (InText(q) /\ CellOf(q) \in t.dirty) \/ p[q] = Shows(t, sc, q)
      BY DEF Ready
    <3> QED
      BY <3>1, <3>2 DEF Shows
  <2>3. pn[q] = IF InText(q) /\ CellOf(q) = t.cursor THEN Image(Glyph(marked, shown, CellOf(q)), q)
                ELSE written[q]
    BY <1>1, <1>2, <2>1 DEF Draws
  <2>4. Glyph(marked, shown, CellOf(q)) = Glyph(r, shown, CellOf(q))
    BY <1>2, <1>4 DEF Glyph
  <2>5. CellOf(q) # t.cursor => Glyph(t, sc, CellOf(q)) = Glyph(r, shown, CellOf(q))
    BY <1>4 DEF Glyph
  <2> QED
    BY <2>2, <2>3, <2>4, <2>5 DEF Shows
<1> QED
  BY <1>1, <1>5, <1>6 DEF ScreenInv

LEMMA ReadyItself == ScreenInv => Ready(tty[ttydev])
BY DEF ScreenInv, Ready

LEMMA ReadyPutc ==
  ASSUME ScreenInv, NEW ch \in Nat
  PROVE  Ready(tty_putc(tty[ttydev], ch)) /\ tty_putc(tty[ttydev], ch) \in Terminal
<1> PICK t, t2 : t = tty[ttydev] /\ t2 = tty_putc(t, ch)
  OBVIOUS
<1>1. t \in Terminal
  BY DEF ScreenInv
<1>2. Marks(t, t2)
  BY <1>1, PutcMarks
<1>3. ASSUME NEW q \in Pixels, ~(InText(q) /\ CellOf(q) \in t2.dirty)
      PROVE  panel[q] = Shows(t2, show_cursor, q)
  <2>1. panel[q] = Shows(t, show_cursor, q)
    BY DEF ScreenInv
  <2>2. CASE ~InText(q)
    BY <2>1, <2>2 DEF Shows
  <2>3. CASE InText(q)
    <3>1. CellOf(q) \in Cells \ t2.dirty
      BY <1>3, <2>3, CellOfPixel
    <3>2. Glyph(t, show_cursor, CellOf(q)) = Glyph(t2, show_cursor, CellOf(q))
      BY <1>2, <3>1 DEF Marks, Glyph
    <3> QED
      BY <2>1, <2>3, <3>2 DEF Shows
  <2> QED
    BY <2>2, <2>3
<1> QED
  BY <1>2, <1>3 DEF Ready, Marks

LEMMA MarkAllReady ==
  ASSUME NEW t \in Terminal
  PROVE  /\ MarkAll(t) \in Terminal /\ MarkAll(t).dirty = Cells
         /\ MarkAll(t).buf = t.buf /\ MarkAll(t).cursor = t.cursor
BY DEF MarkAll, Marked, Terminal

LEMMA ScreenInitInv == ScreenInit => ScreenInv
<1> SUFFICES ASSUME ScreenInit PROVE ScreenInv
  OBVIOUS
<1> PICK t, a, p0, r : /\ t = welcomed[Len(WelcomeText)] /\ a = MarkAll(t)
                       /\ p0 = [q \in Pixels |-> 0] /\ r = Rendered(t)
  OBVIOUS
<1>1. t \in Terminal
  BY WelcomeType
<1>2. a \in Terminal /\ a.dirty = Cells /\ a.buf = t.buf /\ a.cursor = t.cursor
  BY <1>1, MarkAllReady
<1>3. r \in Terminal /\ r.buf = t.buf /\ r.cursor = t.cursor
  BY <1>1 DEF Rendered, Terminal
<1>4. /\ tty = [n \in Ttys |-> r] /\ current = 0 /\ show_cursor = TRUE /\ ttydev = "tty1"
      /\ panel = fb_write(p0, Sprites(a, TRUE, "tty1"), 0)
  BY DEF ScreenInit
<1>5. Displays["tty1"] = 0 /\ "tty1" \in Ttys
  BY DEF Displays, Ttys
<1>6. ASSUME NEW q \in Pixels PROVE panel[q] = Shows(r, TRUE, q)
  <2>1. Draws(p0, a, TRUE, "tty1", q)
    BY <1>2, DrawIs
  <2>2. panel[q] = IF InText(q) /\ CellOf(q) \in Cells THEN Image(Glyph(a, TRUE, CellOf(q)), q) ELSE p0[q]
    BY <1>2, <1>4, <1>5, <2>1 DEF Draws
  <2>3. InText(q) => CellOf(q) \in Cells
    BY CellOfPixel
  <2>4. p0[q] = 0
    OBVIOUS
  <2>5. Glyph(a, TRUE, CellOf(q)) = Glyph(r, TRUE, CellOf(q))
    BY <1>2, <1>3 DEF Glyph
  <2> QED
    BY <2>2, <2>3, <2>4, <2>5 DEF Shows
<1>7. tty \in [Ttys -> Terminal] /\ tty[ttydev] = r
  BY <1>3, <1>4, <1>5
<1> QED
  BY <1>4, <1>5, <1>6, <1>7 DEF ScreenInv

LEMMA TypeCharInv ==
  ASSUME ScreenInv, NEW ch \in Letters \cup {LF, BS}, NEW echoed \in BOOLEAN, TypeChar(ch, echoed)
  PROVE  ScreenInv'
<1> PICK n, t : n = ttydev /\ t = IF echoed THEN tty_putc(tty[ttydev], ch) ELSE tty[ttydev]
  OBVIOUS
<1>1. ch \in Nat
  BY ScreenAssumption DEF LF, BS
<1>2. Ready(t) /\ t \in Terminal
  BY <1>1, ReadyItself, ReadyPutc DEF ScreenInv
<1>3. ShowWith(n, t, TRUE) /\ ttydev' = n /\ current' = Displays[n]
  BY DEF TypeChar, ScreenInv
<1>4. tty \in [Ttys -> Terminal] /\ show_cursor \in BOOLEAN /\ n \in Ttys
  BY DEF ScreenInv
<1> QED
  BY <1>2, <1>3, <1>4, ShowWithInv

LEMMA TypeAltInv ==
  ASSUME ScreenInv, NEW next \in Ttys, TypeAlt(next)
  PROVE  ScreenInv'
<1> PICK t : t = IF next # ttydev THEN MarkAll(tty[next]) ELSE tty[next]
  OBVIOUS
<1>1. tty \in [Ttys -> Terminal] /\ show_cursor \in BOOLEAN
  BY DEF ScreenInv
<1>2. Ready(t) /\ t \in Terminal
  <2>1. CASE next # ttydev
    <3>1. t \in Terminal /\ t.dirty = Cells
      BY <1>1, <2>1, MarkAllReady
    <3>2. \A q \in Pixels : InText(q) => CellOf(q) \in Cells
      BY CellOfPixel
    <3>3. \A q \in Pixels : ~InText(q) => panel[q] = Shows(t, show_cursor, q)
      BY DEF ScreenInv, Shows
    <3> QED
      BY <3>1, <3>2, <3>3 DEF Ready
  <2>2. CASE next = ttydev
    BY <1>1, <2>2, ReadyItself
  <2> QED
    BY <2>1, <2>2
<1>3. ShowWith(next, t, TRUE) /\ ttydev' = next /\ current' = Displays[next]
  BY DEF TypeAlt, ScreenInv
<1> QED
  BY <1>1, <1>2, <1>3, ShowWithInv

LEMMA BlinkInv == ScreenInv /\ Blink => ScreenInv'
<1> SUFFICES ASSUME ScreenInv, Blink PROVE ScreenInv'
  OBVIOUS
<1> PICK n, t, shown : n = ttydev /\ t = tty[ttydev] /\ shown = ~show_cursor
  OBVIOUS
<1>1. /\ tty \in [Ttys -> Terminal] /\ show_cursor \in BOOLEAN /\ n \in Ttys /\ t \in Terminal
      /\ shown \in BOOLEAN
  BY DEF ScreenInv
<1>2. ShowWith(n, t, shown) /\ ttydev' = n /\ current' = Displays[n]
  BY DEF Blink, ScreenInv
<1> QED
  BY <1>1, <1>2, ReadyItself, ShowWithInv

(* After every event the monitor shows the terminal that the tty task      *)
(* serves, whatever the sizes of the monitor and of a glyph, the font and  *)
(* the text (tty_render, fb_write: dev_tty.c, dev_video.c).                *)
THEOREM ScreenIsFresh == ScreenSpec => []ScreenFresh
<1>1. ScreenInit => ScreenInv
  BY ScreenInitInv
<1>2. ScreenInv /\ [ScreenNext]_screenVars => ScreenInv'
  <2> SUFFICES ASSUME ScreenInv, [ScreenNext]_screenVars PROVE ScreenInv'
    OBVIOUS
  <2>1. CASE \E ch \in Letters \cup {LF, BS}, echoed \in BOOLEAN : TypeChar(ch, echoed)
    BY <2>1, TypeCharInv
  <2>2. CASE \E next \in Ttys : TypeAlt(next)
    BY <2>2, TypeAltInv
  <2>3. CASE Blink
    BY <2>3, BlinkInv
  <2>4. CASE UNCHANGED screenVars
    BY <2>4 DEF ScreenInv, screenVars, Shows, Glyph
  <2> QED
    BY <2>1, <2>2, <2>3, <2>4 DEF ScreenNext
<1>3. ScreenInv => ScreenFresh
  <2> SUFFICES ASSUME ScreenInv PROVE ScreenFresh
    OBVIOUS
  <2>1. current = Displays[ttydev] /\ \A n \in Ttys : tty[n].cursor \in Cells
    BY DEF ScreenInv, Terminal
  <2>2. \A q \in Pixels : panel[q] = Shows(tty[ttydev], show_cursor, q)
    BY DEF ScreenInv
  <2> QED
    BY <2>1, <2>2 DEF ScreenFresh, Shows, InText, CellOf, Row, Column, Image
<1> QED
  BY <1>1, <1>2, <1>3, PTL DEF ScreenSpec
==============================================================================
