------------------------------- MODULE IrqList -------------------------------
(***************************************************************************)
(* The list of interrupt handlers (os.c): on_irq inserts, trap calls them  *)
(* in order.  Registrations come from the init functions, one at a time,   *)
(* before os_run lets any interrupt in.                                    *)
(***************************************************************************)
EXTENDS Integers, SequencesExt

CONSTANTS Seqs, Events, EVENT_NULL, EVENT_SYSCALL,
          MaxHandlers     \* a bound: registrations explored

ASSUME IrqAssumption ==
  Seqs \subseteq Int /\ Seqs # {} /\ EVENT_NULL \notin Events /\ MaxHandlers \in Nat

VARIABLE irq_list     \* records; a handler is the number of its registration

IrqInit == irq_list = <<>>

MutPlace(seq) ==
  LET later == {i \in 1 .. Len(irq_list) : seq <= irq_list[i].seq}
  IN IF later = {} THEN Len(irq_list) + 1 ELSE CHOOSE i \in later : \A j \in later : i <= j

(* Before the first entry with a larger sequence number, else at the end. *)
Place(seq) ==
  LET later == {i \in 1 .. Len(irq_list) : seq < irq_list[i].seq}
  IN IF later = {} THEN Len(irq_list) + 1 ELSE CHOOSE i \in later : \A j \in later : i <= j

on_irq(seq, event) ==
  /\ Len(irq_list) < MaxHandlers
  /\ irq_list' = InsertAt(irq_list, Place(seq),
                          [seq |-> seq, event |-> event, handler |-> Len(irq_list) + 1])

IrqNext == \E seq \in Seqs, event \in Events \cup {EVENT_NULL} : on_irq(seq, event)

IrqSpec == IrqInit /\ [][IrqNext]_irq_list

Wants(i, event) == irq_list[i].event \in {EVENT_NULL, event}

(* ctx[i] is next_ctx after the i-th entry: what the last handler that     *)
(* returned a context returned.                                            *)
LastContext(event, ret) ==
  LET ctx[i \in 0 .. Len(irq_list)] ==
        IF i = 0 THEN 0
        ELSE IF Wants(i, event) /\ ret[irq_list[i].handler] # 0 THEN ret[irq_list[i].handler]
        ELSE ctx[i - 1]
  IN ctx[Len(irq_list)]

(* What the first handler returned, a context or not. *)
FirstAnswer(event, ret) ==
  LET wanting == {i \in 1 .. Len(irq_list) : Wants(i, event)}
      first == CHOOSE i \in wanting : \A j \in wanting : i <= j
  IN IF wanting = {} THEN 0 ELSE ret[irq_list[first].handler]

(* A DEBUG build returns what the first handler of a system call does.     *)
(* (Where no handler is left and there is no context, 0, it panics.)       *)
trap(event, ret, debug) ==
  IF debug /\ event = EVENT_SYSCALL THEN FirstAnswer(event, ret) ELSE LastContext(event, ret)

Earlier(r, s) == r.seq < s.seq \/ (r.seq = s.seq /\ r.handler < s.handler)

(* In every order of registration, no handler is lost, and they are called *)
(* by sequence number and those of equal numbers in the order they came:   *)
(* what kmt registers with the least number sees the trap first.  trap     *)
(* returns the context of the greatest in that order of the event's        *)
(* handlers that return one, whatever the others return; in a DEBUG build, *)
(* for a system call, what the least in that order of its handlers does.   *)
HandlersOrdered ==
  LET entries == 1 .. Len(irq_list) IN
  /\ \A i, j \in entries : i < j => Earlier(irq_list[i], irq_list[j])
  /\ {irq_list[i].handler : i \in entries} = entries
  /\ \A event \in Events, ret \in [entries -> 0 .. 1] :
       LET given == [h \in entries |-> h * ret[h]]
           wanting == {i \in entries : Wants(i, event)}
           answers == {i \in wanting : given[irq_list[i].handler] # 0}
       IN \A debug \in BOOLEAN :
            LET context == trap(event, given, debug)
            IN IF debug /\ event = EVENT_SYSCALL
               THEN \/ wanting = {} /\ context = 0
                    \/ \E i \in wanting :
                         /\ context = given[irq_list[i].handler]
                         /\ \A j \in wanting : i = j \/ Earlier(irq_list[i], irq_list[j])
               ELSE \/ answers = {} /\ context = 0
                    \/ \E i \in answers :
                         /\ context = irq_list[i].handler
                         /\ \A j \in answers : i = j \/ Earlier(irq_list[j], irq_list[i])
=============================================================================
