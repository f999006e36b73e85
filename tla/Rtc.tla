---------------------------------- MODULE Rtc ----------------------------------
(***************************************************************************)
(* The clock of the x86-qemu machine (ioe.c): reading a date out of a chip *)
(* that goes on while its registers are read one by one, and measuring the *)
(* processor's frequency with it.  Of the date the model keeps the second, *)
(* the minute and, as the hour, all that is above.                         *)
(***************************************************************************)
EXTENDS Integers, Sequences

CONSTANTS
  Minute, Hour,     \* seconds of a minute, minutes of an hour (60 and 60)
  MaxNow            \* a bound: seconds that the chip runs

ASSUME RtcAssumption == Minute \in Nat \ {0, 1, 2} /\ Hour \in Nat \ {0, 1}

VARIABLES
  now,      \* the chip: seconds since some full hour
  job,      \* two calls of wait_sec, "rtc1" and "rtc2", "estimate", timer_rtc, "done"
  reg,      \* what is read next: "t0", the registers in order, "end"
  rtc,      \* the date being read
  t0,       \* wait_sec: the second of its first reading, all that it uses of it
  mark,     \* estimate_freq: t1 and t2, each with the time of the chip (for tsc1, tsc2)
  late      \* how often the chip ticked since the pass began

rtcVars == <<now, job, reg, rtc, t0, mark, late>>

DateAt(t) == [second |-> t % Minute, minute |-> (t \div Minute) % Hour,
              hour |-> t \div (Minute * Hour)]

RtcInit ==
  /\ now \in 0 .. Minute * Hour - 1
  /\ job = "rtc1" /\ reg = "t0" /\ rtc = DateAt(0) /\ t0 = 0
  /\ mark = <<>> /\ late = 0

Waiting == job \in {"rtc1", "rtc2"}

(* A pass of wait_sec takes less than a second, one of timer_rtc less than *)
(* a minute, and the two calls of wait_sec together less than an hour.     *)
Tick ==
  /\ now < MaxNow /\ job # "done"
  /\ late < CASE ~Waiting -> Minute - 1 [] reg = "t0" -> MaxNow [] OTHER -> 1
  /\ job = "rtc2" => now + 1 < mark[1].tsc + Minute * Hour
  /\ now' = now + 1 /\ late' = late + 1
  /\ UNCHANGED <<job, reg, rtc, t0, mark>>

ReadT0 ==
  /\ Waiting /\ reg = "t0"
  /\ t0' = DateAt(now).second /\ late' = 0 /\ reg' = "second"
  /\ UNCHANGED <<now, job, rtc, mark>>

(* read_rtc, for the fields of read_rtc_async in their order. *)
ReadRtc ==
  /\ Waiting \/ job = "timer_rtc"
  /\ reg \in {"second", "minute", "hour"}
  /\ rtc' = [rtc EXCEPT ![reg] = DateAt(now)[reg]]
  /\ late' = IF reg = "second" /\ job = "timer_rtc" THEN 0 ELSE late
  /\ reg' = CASE reg = "second" -> "minute" [] reg = "minute" -> "hour" [] OTHER -> "end"
  /\ UNCHANGED <<now, job, t0, mark>>

wait_sec ==
  /\ Waiting /\ reg = "end"
  /\ reg' = "t0"
  /\ IF t0 = rtc.second THEN UNCHANGED <<job, mark>>
     ELSE /\ mark' = Append(mark, [t |-> rtc.minute * Minute + rtc.second, tsc |-> now])
          /\ job' = IF job = "rtc1" THEN "rtc2" ELSE "estimate"
  /\ UNCHANGED <<now, rtc, t0, late>>

MutAnHour == FALSE

(* The hour is over and the difference useless: try again. *)
AnHour == mark[1].t >= mark[2].t

estimate_freq ==
  /\ job = "estimate"
  /\ IF AnHour THEN job' = "rtc1" /\ mark' = <<>> /\ UNCHANGED reg
     ELSE job' = "timer_rtc" /\ reg' = "second" /\ UNCHANGED mark
  /\ UNCHANGED <<now, rtc, t0, late>>

(* The second is read once more; when it has changed, so may the rest. *)
timer_rtc ==
  /\ job = "timer_rtc" /\ reg = "end"
  /\ IF DateAt(now).second = rtc.second THEN job' = "done" /\ UNCHANGED reg
     ELSE reg' = "second" /\ UNCHANGED job
  /\ UNCHANGED <<now, rtc, t0, mark, late>>

RtcNext == Tick \/ ReadT0 \/ ReadRtc \/ wait_sec \/ estimate_freq \/ timer_rtc

RtcSpec == RtcInit /\ [][RtcNext]_rtcVars

-----------------------------------------------------------------------------
(* Although the chip goes on between any two of its registers, the date    *)
(* that timer_rtc returns is one that the chip had while it was read, and  *)
(* the seconds by which estimate_freq divides are those that passed, never *)
(* zero, also when the minute or the hour ends between its readings.       *)
ClockRight ==
  /\ job = "done" => \E t \in now - late .. now : rtc = DateAt(t)
  /\ job \in {"timer_rtc", "done"} =>
       mark[2].t - mark[1].t = mark[2].tsc - mark[1].tsc /\ mark[2].t > mark[1].t
=============================================================================
