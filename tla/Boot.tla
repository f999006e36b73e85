-------------------------------- MODULE Boot --------------------------------
(***************************************************************************)
(* Multiprocessor boot and halt of the x86-qemu machine: mpe.c, trm.c, the *)
(* boot loader and the inter-processor interrupts of ioe.c.  CPU 0 starts  *)
(* alone and starts the others one by one through the boot record; halt    *)
(* sends them through it again, into a loop.                               *)
(***************************************************************************)
EXTENDS Integers, FiniteSets, Sequences

CONSTANTS ncpu,         \* __am_ncpu
          MaxHalts      \* a bound: CPUs that call halt

ASSUME BootAssumption == ncpu \in Nat \ {0}

CPUs == 0 .. ncpu - 1

VARIABLES
  at,         \* CPU -> where it is
  target,     \* CPU -> the loop variable cpu of mpe_init or of __am_stop_the_world
  ipis,       \* CPU -> INIT and STARTUP interrupts on their way to it
  jmp_code,   \* where the boot record jumps: "7c00" or "self"
  is_ap, ap_ready,
  loads,      \* how often load_kernel wrote the image into memory
  percpu,     \* CPUs that ran __am_percpu_init since their last reset
  entered,    \* CPU -> how often it called user_entry
  halted,     \* CPUs that called halt
  off         \* the machine is switched off

bootVars == <<at, target, ipis, jmp_code, is_ap, ap_ready, loads, percpu, entered, halted, off>>

(* "loader" is start.S and load_kernel, on the stack at 0xa000; "start" is *)
(* start64.S and _start_c, on the stack at 0x7c00.                         *)
SharedStack == {"loader", "start"}

BootInit ==
  /\ at = [c \in CPUs |-> IF c = 0 THEN "loader" ELSE "wait"]
  /\ target = [c \in CPUs |-> 0]
  /\ ipis = [c \in CPUs |-> <<>>]
  /\ jmp_code = "none" /\ is_ap = 0 /\ ap_ready = 0
  /\ loads = 0 /\ percpu = {} /\ entered = [c \in CPUs |-> 0]
  /\ halted = {} /\ off = FALSE

Goto(c, l) == at' = [at EXCEPT ![c] = l]

(* An application processor finds the kernel in memory. *)
load_kernel(c) ==
  /\ at[c] = "loader"
  /\ loads' = IF is_ap = 0 THEN loads + 1 ELSE loads
  /\ Goto(c, "start")
  /\ UNCHANGED <<target, ipis, jmp_code, is_ap, ap_ready, percpu, entered, halted, off>>

(* The boot CPU initialises itself on the shared stack, the others after   *)
(* they have switched to their own.                                        *)
_start_c(c) ==
  /\ at[c] = "start"
  /\ IF is_ap = 1
     THEN Goto(c, "othercpu") /\ UNCHANGED percpu
     ELSE Goto(c, "main") /\ percpu' = percpu \cup {c}
  /\ UNCHANGED <<target, ipis, jmp_code, is_ap, ap_ready, loads, entered, halted, off>>

MpeInit(c) ==
  /\ at[c] = "main"
  /\ jmp_code' = "7c00"
  /\ target' = [target EXCEPT ![c] = 1]
  /\ Goto(c, "mpe")
  /\ UNCHANGED <<ipis, is_ap, ap_ready, loads, percpu, entered, halted, off>>

Send(c, ints) == ipis' = [ipis EXCEPT ![target[c]] = @ \o ints]

(* __am_lapic_bootap: INIT, then STARTUP twice. *)
MarkAp(c) ==
  /\ at[c] = "mpe" /\ target[c] < ncpu
  /\ is_ap' = 1
  /\ Send(c, <<"INIT">>)
  /\ Goto(c, "startup")
  /\ UNCHANGED <<target, jmp_code, ap_ready, loads, percpu, entered, halted, off>>

Startup(c) ==
  /\ at[c] \in {"startup", "stopup"}
  /\ Send(c, <<"STARTUP", "STARTUP">>)
  /\ IF at[c] = "startup"
     THEN Goto(c, "spin") /\ UNCHANGED target
     ELSE Goto(c, "stop") /\ target' = [target EXCEPT ![c] = @ + 1]
  /\ UNCHANGED <<jmp_code, is_ap, ap_ready, loads, percpu, entered, halted, off>>

MutReady(c) == TRUE
Ready(c) == ap_ready = 1

Spin(c) ==
  /\ at[c] = "spin" /\ Ready(c)
  /\ ap_ready' = 0
  /\ target' = [target EXCEPT ![c] = @ + 1]
  /\ Goto(c, "mpe")
  /\ UNCHANGED <<ipis, jmp_code, is_ap, loads, percpu, entered, halted, off>>

othercpu_entry(c) ==
  /\ at[c] = "othercpu"
  /\ percpu' = percpu \cup {c}
  /\ Goto(c, "ready")
  /\ UNCHANGED <<target, ipis, jmp_code, is_ap, ap_ready, loads, entered, halted, off>>

MutAnnounced == ap_ready
Announced == 1

Announce(c) ==
  /\ at[c] = "ready"
  /\ ap_ready' = Announced
  /\ Goto(c, "enter")
  /\ UNCHANGED <<target, ipis, jmp_code, is_ap, loads, percpu, entered, halted, off>>

call_user_entry(c) ==
  /\ \/ at[c] = "mpe" /\ target[c] = ncpu
     \/ at[c] = "enter"
  /\ entered' = [entered EXCEPT ![c] = @ + 1]
  /\ Goto(c, "run")
  /\ UNCHANGED <<target, ipis, jmp_code, is_ap, ap_ready, loads, percpu, halted, off>>

-----------------------------------------------------------------------------
(* A CPU may panic as soon as it runs kernel code; main may fail before mpe_init. *)
halt(c) ==
  /\ at[c] \in {"main", "run"} /\ Cardinality(halted) < MaxHalts
  /\ jmp_code' = "self"
  /\ target' = [target EXCEPT ![c] = 0]
  /\ halted' = halted \cup {c}
  /\ Goto(c, "stop")
  /\ UNCHANGED <<ipis, is_ap, ap_ready, loads, percpu, entered, off>>

StopNext(c) ==
  /\ at[c] = "stop" /\ target[c] < ncpu
  /\ IF target[c] = c
     THEN target' = [target EXCEPT ![c] = @ + 1] /\ UNCHANGED <<at, ipis>>
     ELSE Send(c, <<"INIT">>) /\ Goto(c, "stopup") /\ UNCHANGED target
  /\ UNCHANGED <<jmp_code, is_ap, ap_ready, loads, percpu, entered, halted, off>>

PowerOff(c) ==
  /\ at[c] = "stop" /\ target[c] = ncpu
  /\ off' = TRUE
  /\ UNCHANGED <<at, target, ipis, jmp_code, is_ap, ap_ready, loads, percpu, entered, halted>>

(* INIT stops a CPU wherever it is; STARTUP makes one that waits for it    *)
(* execute the boot record, and is ignored by any other.                   *)
Deliver(c) ==
  /\ ipis[c] # <<>>
  /\ ipis' = [ipis EXCEPT ![c] = Tail(@)]
  /\ CASE Head(ipis[c]) = "INIT" -> Goto(c, "wait")
       [] Head(ipis[c]) = "STARTUP" /\ at[c] = "wait" ->
            Goto(c, IF jmp_code = "7c00" THEN "loader" ELSE "loop")
       [] OTHER -> UNCHANGED at
  /\ percpu' = IF Head(ipis[c]) = "INIT" THEN percpu \ {c} ELSE percpu
  /\ UNCHANGED <<target, jmp_code, is_ap, ap_ready, loads, entered, halted, off>>

Run(c) ==
  \/ load_kernel(c) \/ _start_c(c) \/ MpeInit(c) \/ MarkAp(c) \/ Startup(c) \/ Spin(c)
  \/ othercpu_entry(c) \/ Announce(c) \/ call_user_entry(c)
  \/ StopNext(c) \/ PowerOff(c)

(* Processors execute and interrupts arrive: this is to be fair; nobody has *)
(* to call halt.                                                            *)
Executes(c) == ~off /\ (Run(c) \/ Deliver(c))
BootNext == \E c \in CPUs : Executes(c) \/ (~off /\ halt(c))

BootSpec == BootInit /\ [][BootNext]_bootVars

-----------------------------------------------------------------------------
(* The two boot stacks have one user at a time although every CPU passes   *)
(* through them, the kernel image is loaded once, and user_entry is called *)
(* once by each CPU, by CPU 0 last, on a CPU that has its descriptor       *)
(* tables; when the machine is switched off no other CPU runs kernel code  *)
(* that will not be stopped.                                               *)
BootExclusive ==
  /\ Cardinality({c \in CPUs : at[c] \in SharedStack}) <= 1
  /\ loads <= 1 /\ (loads = 0 => at[0] = "loader")
  /\ \A c \in CPUs : /\ entered[c] <= 1
                     /\ at[c] \in {"enter", "run"} => c \in percpu
  /\ entered[0] = 1 => \A c \in CPUs : entered[c] = 1 \/ at[c] = "enter" \/ halted # {}
  /\ off => \E h \in halted : \A c \in CPUs \ {h} :
              at[c] \in {"wait", "loop"} \/ \E i \in 1 .. Len(ipis[c]) : ipis[c][i] = "INIT"

(* After CPU 0 has loaded the kernel, every CPU reaches user_entry unless  *)
(* one of them halts; and when just one calls halt, the machine is         *)
(* switched off.                                                           *)
BootCompletes ==
  []<>\/ loads = 0
      \/ halted = {} /\ \A c \in CPUs : entered[c] = 1
      \/ off \/ Cardinality(halted) > 1
=============================================================================
