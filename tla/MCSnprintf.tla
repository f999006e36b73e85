------------------------------ MODULE MCSnprintf ------------------------------
(* A program that prints texts of up to three characters 1, each into a    *)
(* part of its six bytes of memory; the bytes it uses otherwise are 2.     *)
(* Calls that overrun pbuf or fail the assertion are left out.             *)
EXTENDS Klib

VARIABLES memory,
          offered       \* the addresses that calls of snprintf were to write

Init == KlibInit /\ memory = [a \in 0 .. 5 |-> 2] /\ offered = {}

PrintInto(out, n, len) ==
  /\ SnprintfReturns(n, [i \in 1 .. len |-> 1])
  /\ memory' = Snprintf(memory, out, n, [i \in 1 .. len |-> 1])
  /\ offered' = offered \cup out .. out + n - 1
  /\ UNCHANGED klib_call

Next == \E out \in 0 .. 2, n \in 1 .. 3, len \in 0 .. 3 : PrintInto(out, n, len)
Spec == Init /\ [][Next]_<<memory, offered, klib_call>>

(* snprintf writes nothing outside the n bytes from out on: "move n bytes  *)
(* from pbuf to out, if ret < n, move ret instead" (stdio.c).              *)
WithinBuffer == \A a \in DOMAIN memory \ offered : memory[a] = 2
=============================================================================
