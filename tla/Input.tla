-------------------------------- MODULE Input --------------------------------
(***************************************************************************)
(* From the keyboard to a line of text: the input daemon (dev_input.c over *)
(* input_keybrd of ioe.c), the ring of events, the cooking queue of the    *)
(* terminal (dev_tty.c) and a program that reads lines.                    *)
(*                                                                         *)
(* Semaphores are counters here and a section under a lock is one step     *)
(* (Semaphore and Spinlock show why); between them the input daemon, the   *)
(* tty task, the reader and the interrupts interleave.  Screen models what *)
(* the tty task does with an event besides cooking, switching included.    *)
(***************************************************************************)
EXTENDS Integers, Sequences, SequencesExt

CONSTANTS
  NEVENTS, TTY_COOK_BUF_SZ,     \* sizes of the two rings (128 and 1024)
  Strokes,                      \* pairs of a key and TRUE (down) or FALSE (up)
  MaxKeys, MaxIrqs, MaxHw       \* bounds: strokes in all, sem_kbdirq, the controller

ASSUME InputAssumption == NEVENTS \in Nat \ {0, 1} /\ TTY_COOK_BUF_SZ \in Nat \ {0, 1}

NoChar == "NUL"
NoEvent == [ctrl |-> FALSE, alt |-> FALSE, data |-> NoChar]     \* also the blank event

VARIABLES
  typed, hw,                       \* strokes so far, and those in the controller
  kbdirq,                          \* sem_kbdirq
  input_task, event, blank,        \* input daemon: where it is, what it pushes
  held, capslock,                  \* modifier keys that are down
  events, event_sem,               \* what the ring of events holds, and the semaphore
  tty_task, ev,                    \* tty task: where it is, the event it has
  buf, front, rear, cooked,        \* struct tty_queue, and the semaphore
  reader,                          \* the reader
  finished, pending, intact,       \* history: lines finished, the line being typed,
                                   \*   and whether every line was read as it was typed
  stopped                          \* why the machine panicked, or "no"

queueVars == <<buf, front, rear>>
keyVars == <<input_task, event, blank, held, capslock>>
lineVars == <<queueVars, cooked, reader, finished, pending, intact>>
inputVars == <<typed, hw, kbdirq, keyVars, events, event_sem, tty_task, ev, lineVars, stopped>>

(* The queue's memory is fresh: zero, but for the link at its start by     *)
(* which the slab had it in its free list.                                 *)
InputInit ==
  /\ typed = 0 /\ hw = <<>> /\ kbdirq = 0
  /\ input_task = "drain" /\ blank = FALSE /\ event = NoEvent /\ held = {} /\ capslock = FALSE
  /\ events = <<>> /\ event_sem = 0
  /\ tty_task = "wait" /\ ev = NoEvent
  /\ buf = [i \in 0 .. TTY_COOK_BUF_SZ - 1 |-> IF i = 0 THEN "link" ELSE NoChar]
  /\ front = 0 /\ rear = 0 /\ cooked = 0
  /\ reader = "wait"
  /\ finished = <<>> /\ pending = <<>> /\ intact = TRUE
  /\ stopped = "no"

-----------------------------------------------------------------------------
(* Interrupts *)

Type(stroke) ==
  /\ typed < MaxKeys /\ Len(hw) < MaxHw
  /\ hw' = Append(hw, stroke) /\ typed' = typed + 1
  /\ UNCHANGED <<kbdirq, keyVars, events, event_sem, tty_task, ev, lineVars, stopped>>

MutInterrupted == kbdirq < MaxIrqs /\ typed < MaxKeys

(* Besides the keyboard the timer interrupts, whether or not keys are typed. *)
Interrupted == kbdirq < MaxIrqs

(* input_notify *)
Notify ==
  /\ Interrupted
  /\ kbdirq' = kbdirq + 1
  /\ UNCHANGED <<typed, hw, keyVars, events, event_sem, tty_task, ev, lineVars, stopped>>

-----------------------------------------------------------------------------
(* The input daemon *)

Modifiers == {"LCTRL", "RALT", "LSHIFT", "RSHIFT"}

(* The two characters of a key, by example; most keys of keylut have none. *)
keymap(k) == CASE k = "A" -> <<"a", "A">>
               [] k = "1" -> <<"1", "!">>
               [] k = "RETURN" -> <<"LF", "LF">>
               [] k = "BACKSPACE" -> <<"BS", "BS">>
               [] OTHER -> <<NoChar, NoChar>>

(* input_keydown of a key that is no modifier: the event it makes. *)
EventOf(k) ==
  LET ch == keymap(k)[1]
      ctrl == "LCTRL" \in held  alt == "RALT" \in held
      shift == (held \cap {"LSHIFT", "RSHIFT"} # {}) # (ch = "a" /\ capslock)
  IN IF ctrl \/ alt THEN [ctrl |-> ctrl, alt |-> alt, data |-> ch]
     ELSE [NoEvent EXCEPT !.data = IF shift THEN keymap(k)[2] ELSE ch]

(* One turn of the drain loop.  A code that keylut does not know reads as  *)
(* keycode 0, the same as an empty controller, and ends the loop.  Then,   *)
(* when 100 ms have passed and the ring looks empty, a blank event.        *)
Drain ==
  /\ input_task = "drain"
  /\ IF hw = <<>> \/ Head(hw)[1] = "NONE"
     THEN /\ hw' = IF hw = <<>> THEN hw ELSE Tail(hw)
          /\ \/ input_task' = "wait" /\ blank' = FALSE
             \/ events = <<>> /\ input_task' = "push" /\ blank' = TRUE
          /\ UNCHANGED <<event, held, capslock>>
     ELSE LET k == Head(hw)[1]  down == Head(hw)[2] IN
          /\ hw' = Tail(hw)
          /\ held' = IF k \notin Modifiers THEN held
                     ELSE IF down THEN held \cup {k} ELSE held \ {k}
          /\ capslock' = IF k = "CAPSLOCK" /\ down THEN ~capslock ELSE capslock
          /\ IF down /\ keymap(k)[1] # NoChar
             THEN event' = EventOf(k) /\ input_task' = "push"
             ELSE UNCHANGED <<event, input_task>>
          /\ UNCHANGED blank
  /\ UNCHANGED <<typed, kbdirq, events, event_sem, tty_task, ev, lineVars, stopped>>

(* push_event: the entry under the lock, then the semaphore.  One entry of *)
(* the ring stays unused.                                                  *)
Push ==
  /\ input_task = "push"
  /\ events' = Append(events, event)
  /\ IF Len(events') = NEVENTS THEN stopped' = "input queue full" /\ UNCHANGED input_task
     ELSE input_task' = "signal" /\ UNCHANGED stopped
  /\ UNCHANGED <<typed, hw, kbdirq, event, blank, held, capslock, event_sem, tty_task, ev, lineVars>>

Signal ==
  /\ input_task = "signal"
  /\ event_sem' = event_sem + 1
  /\ input_task' = IF blank THEN "wait" ELSE "drain"
  /\ event' = NoEvent /\ blank' = FALSE
  /\ UNCHANGED <<typed, hw, kbdirq, held, capslock, events, tty_task, ev, lineVars, stopped>>

WaitIrq ==
  /\ input_task = "wait" /\ kbdirq > 0
  /\ kbdirq' = kbdirq - 1
  /\ input_task' = "drain"
  /\ UNCHANGED <<typed, hw, event, blank, held, capslock, events, event_sem, tty_task, ev, lineVars, stopped>>

-----------------------------------------------------------------------------
(* The tty task *)

MutPosted == TRUE

(* sem_wait lets the task through. *)
Posted == event_sem > 0

WaitEvent ==
  /\ tty_task = "wait" /\ Posted
  /\ event_sem' = event_sem - 1
  /\ tty_task' = "pop"
  /\ UNCHANGED <<typed, hw, kbdirq, keyVars, events, ev, lineVars, stopped>>

Pop ==
  /\ tty_task = "pop"
  /\ IF events = <<>>
     THEN stopped' = "input queue empty" /\ UNCHANGED <<events, ev, tty_task>>
     ELSE /\ ev' = Head(events) /\ events' = Tail(events)
          /\ tty_task' = "cook" /\ UNCHANGED stopped
  /\ UNCHANGED <<typed, hw, kbdirq, keyVars, event_sem, lineVars>>

Wrap(i) == i % TTY_COOK_BUF_SZ
Before(i) == (i - 1) % TTY_COOK_BUF_SZ

(* tty_enqueue: the character is followed by a NUL. *)
Queue == [buf |-> buf, rear |-> rear, full |-> FALSE]
Enqueued(q, ch) ==
  [buf |-> [q.buf EXCEPT ![q.rear] = ch, ![Wrap(q.rear + 1)] = NoChar],
   rear |-> Wrap(q.rear + 1),
   full |-> q.full \/ Wrap(q.rear + 1) = front]

Enqueue(q) ==
  IF q.full THEN stopped' = "tty queue full" /\ UNCHANGED <<buf, rear>>
  ELSE buf' = q.buf /\ rear' = q.rear /\ UNCHANGED stopped

MutPopBack ==
  IF front # rear
  THEN buf' = [buf EXCEPT ![Before(rear)] = NoChar] /\ rear' = Before(rear)
  ELSE UNCHANGED <<buf, rear>>

(* Back over the last character unless it is the NUL of a finished line. *)
PopBack ==
  IF buf[Before(rear)] # NoChar
  THEN buf' = [buf EXCEPT ![Before(rear)] = NoChar] /\ rear' = Before(rear)
  ELSE UNCHANGED <<buf, rear>>

EndEvent == tty_task' = "wait" /\ ev' = NoEvent

CookLine ==
  /\ ev.data = "LF"
  /\ Enqueue(Enqueued(Enqueued(Queue, "LF"), NoChar))
  /\ finished' = Append(finished, Append(pending, "LF")) /\ pending' = <<>>
  /\ cooked' = cooked + 1

CookBack ==
  /\ ev.data = "BS"
  /\ PopBack
  /\ pending' = IF pending = <<>> THEN <<>> ELSE Front(pending)
  /\ UNCHANGED <<finished, cooked, stopped>>

CookChar ==
  /\ ev.data \notin {"LF", "BS"}
  /\ Enqueue(Enqueued(Queue, ev.data))
  /\ pending' = Append(pending, ev.data)
  /\ UNCHANGED <<finished, cooked>>

(* tty_cook, for events that are plain characters. *)
Cook ==
  /\ tty_task = "cook" /\ EndEvent
  /\ IF ~ev.ctrl /\ ~ev.alt /\ ev.data # NoChar
     THEN CookLine \/ CookBack \/ CookChar
     ELSE UNCHANGED <<buf, rear, finished, pending, cooked, stopped>>
  /\ UNCHANGED <<typed, hw, kbdirq, keyVars, events, event_sem, front, reader, intact>>

-----------------------------------------------------------------------------
(* A program that reads lines, for itself or for fewer bytes than a line has. *)

WaitCooked ==
  /\ reader = "wait" /\ cooked > 0
  /\ cooked' = cooked - 1
  /\ reader' = "read"
  /\ UNCHANGED <<typed, hw, kbdirq, keyVars, events, event_sem, tty_task, ev, queueVars,
                 finished, pending, intact, stopped>>

(* The characters up to the next NUL, at or after the front. *)
UpToNul ==
  LET at(n) == buf[Wrap(front + n)]
      n == CHOOSE k \in 0 .. TTY_COOK_BUF_SZ : at(k) = NoChar /\ \A j \in 0 .. k - 1 : at(j) # NoChar
  IN [i \in 1 .. n |-> at(i - 1)]

Prefix(s, n) == SubSeq(s, 1, IF Len(s) < n THEN Len(s) ELSE n)

(* The rest of a line longer than count is thrown away. *)
tty_read(count) ==
  /\ reader = "read"
  /\ front' = Wrap(front + Len(UpToNul) + 1)
  /\ intact' = (intact /\ Prefix(UpToNul, count) = Prefix(Head(finished), count))
  /\ finished' = Tail(finished)
  /\ reader' = "wait"
  /\ UNCHANGED <<typed, hw, kbdirq, keyVars, events, event_sem, tty_task, ev, buf, rear, cooked,
                 pending, stopped>>

InputDaemon == Drain \/ Push \/ Signal \/ WaitIrq
TtyTask == WaitEvent \/ Pop \/ Cook

(* The timer interrupts again and again and the scheduler runs both tasks:  *)
(* these are to be fair; nobody has to type or to read.                     *)
TimerRuns == stopped = "no" /\ Notify
InputRuns == stopped = "no" /\ InputDaemon
TtyRuns == stopped = "no" /\ TtyTask

InputNext ==
  \/ TimerRuns \/ InputRuns \/ TtyRuns
  \/ /\ stopped = "no"
     /\ \/ \E stroke \in Strokes : Type(stroke)
        \/ WaitCooked
        \/ \E count \in {1, TTY_COOK_BUF_SZ} : tty_read(count)

InputSpec == InputInit /\ [][InputNext]_inputVars

-----------------------------------------------------------------------------
One(b) == IF b THEN 1 ELSE 0

(* The semaphore counts the events in the ring, but for the one being      *)
(* pushed and the one being popped: the tty task never finds it empty.     *)
EventsCounted ==
  /\ Len(events) = event_sem + One(tty_task = "pop")
                     + One(input_task = "signal" \/ stopped = "input queue full")
  /\ stopped # "input queue empty"

(* The queue holds the lines that were finished, then the one being typed, *)
(* with every correction made and none beyond the start of its line; the   *)
(* semaphore counts the finished ones, and a reader gets its line whole or *)
(* the first bytes of it.                                                  *)
LinesWhole ==
  stopped = "no" =>
    /\ FlattenSeq([i \in 1 .. Len(finished) |-> Append(finished[i], NoChar)]) \o pending =
         [i \in 1 .. (rear - front) % TTY_COOK_BUF_SZ |-> buf[Wrap(front + i - 1)]]
    /\ Len(finished) = cooked + One(reader = "read")
    /\ intact

(* What was typed is handled, whatever codes are among it, unless a panic  *)
(* stops the machine: the daemon that gives up at an unknown code is woken *)
(* again.                                                                  *)
KeysHandled == hw # <<>> ~> (stopped # "no" \/ (hw = <<>> /\ event_sem = 0))
=============================================================================
