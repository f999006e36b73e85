------------------------------ MODULE MCPlatform ------------------------------
(* Instances of the parts of the machine that share no state with one      *)
(* another: every behaviour is one of a single unit, chosen at the start,  *)
(* while the others stay as they are at first.                             *)
EXTENDS Int64, Klib, SlabLayout, IrqList, Vme, Boot, Rtc, Disk, Input, Screen

CONSTANTS a1, a2

VARIABLE unit

pure == <<dividend, klib_call, layout_call>>
devices == <<diskVars, inputVars, screenVars>>
vars == <<unit, pure, irq_list, vmeVars, bootVars, rtcVars, devices>>

CSlabPages == {3 * 4096}
CHeapStarts == {2^20, 2^20 + 1, 2^24 - 1, 2^24, 2^24 + 1, 2^24 + 2^23}
CHeapEnds == {i * 2^23 + j : i \in 0 .. 21, j \in {0, 1, 2^23 - 1}}
CAddrSpaces == {a1, a2}
CStrokes == ({"A", "RETURN", "BACKSPACE", "NONE"} \X {TRUE}) \cup ({"LCTRL"} \X BOOLEAN)
CWelcomeText == <<65, LF>>
CFont == (NUL :> <<0, 0, 0, 0>>) @@ (65 :> <<1, 2, 3, 1>>) @@ (CURSOR :> <<3, 3, 3, 3>>)

Units == {"int64", "klib", "layout", "irq", "vme", "boot", "rtc", "disk", "input", "screen"}

Init ==
  /\ unit \in Units
  /\ Int64Init /\ KlibInit /\ LayoutInit
  /\ IrqInit /\ VmeInit /\ BootInit /\ DiskInit /\ InputInit /\ ScreenInit
  /\ RtcInit /\ (unit # "rtc" => now = 0)

Only(u) == unit = u /\ UNCHANGED unit

Next ==
  \/ Only("int64") /\ Int64Next
       /\ UNCHANGED <<klib_call, layout_call, irq_list, vmeVars, bootVars, rtcVars, devices>>
  \/ Only("klib") /\ KlibNext
       /\ UNCHANGED <<dividend, layout_call, irq_list, vmeVars, bootVars, rtcVars, devices>>
  \/ Only("layout") /\ LayoutNext
       /\ UNCHANGED <<dividend, klib_call, irq_list, vmeVars, bootVars, rtcVars, devices>>
  \/ Only("irq") /\ IrqNext /\ UNCHANGED <<pure, vmeVars, bootVars, rtcVars, devices>>
  \/ Only("vme") /\ VmeNext /\ UNCHANGED <<pure, irq_list, bootVars, rtcVars, devices>>
  \/ Only("boot") /\ BootNext /\ UNCHANGED <<pure, irq_list, vmeVars, rtcVars, devices>>
  \/ Only("rtc") /\ RtcNext /\ UNCHANGED <<pure, irq_list, vmeVars, bootVars, devices>>
  \/ Only("disk") /\ DiskNext
       /\ UNCHANGED <<pure, irq_list, vmeVars, bootVars, rtcVars, inputVars, screenVars>>
  \/ Only("input") /\ InputNext
       /\ UNCHANGED <<pure, irq_list, vmeVars, bootVars, rtcVars, diskVars, screenVars>>
  \/ Only("screen") /\ ScreenNext
       /\ UNCHANGED <<pure, irq_list, vmeVars, bootVars, rtcVars, diskVars, inputVars>>

Fairness ==
  /\ \A c \in CPUs : WF_bootVars(unit = "boot" /\ Executes(c))
  /\ WF_inputVars(unit = "input" /\ TimerRuns)
  /\ WF_inputVars(unit = "input" /\ InputRuns)
  /\ WF_inputVars(unit = "input" /\ TtyRuns)

Spec == Init /\ [][Next]_vars /\ Fairness
=============================================================================
