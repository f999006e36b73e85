# A verification of the NJU OS lab kernel

TLA+ models of the multiprocessor kernel in `kernel/` (with the parts of the
x86-qemu abstract machine it stands on), model-checked with TLC, and theorems
about them proved with TLAPS. Paths are relative to the repository; a line is
written `kmt.c:40`.

## 1. The system

The kernel is a set of C modules over a bare-metal layer. All CPUs share
memory; each runs tasks with preemption by timer and device interrupts.

| component | state | operations | talks to |
|---|---|---|---|
| spinlocks and interrupt nesting (`common.c`, `spinlock.c`, `os.c:115-138`) | an int per lock; `i_nest_num`, `i_enable` per CPU; the CPU's IF | `_lock`, `_unlock`, `_try_lock`, `spin_lock`, `spin_unlock`, `interrupt_off`, `interrupt_on` | everyone |
| scheduler (`kmt.c`) | the list of tasks and its count; `running`, `blocked`, `i_nest`, `context[4]` per task; `current_task`, `last_task` per CPU | `kmt_context_save`, `kmt_schedule`, `create`, `teardown`, `kmt_init` | called by `trap`; `blocked` is written by the semaphores |
| semaphores (`sem.c`) | lock, `resource`, ring `wait_queue` with head and tail | `sem_init`, `sem_wait`, `sem_signal` | spinlocks, scheduler (`yield`), devices |
| interrupt dispatch (`os.c:10-106`) | list of handlers by sequence number | `on_irq`, `trap`, `os_run` | scheduler's two handlers, input device |
| pmm and slab allocator (`pmm.c`, `slab.c`) | a list of slabs per CPU and size; in each a lock, free list, counter, link | `kalloc`, `kfree`, `slab_alloc`, `slab_free`, `slab_init`, `recover_slab` | page allocator |
| page allocator (`page.c`) | per 16M unit a lock and a binary tree of sizes | `page_alloc`, `page_free` | slab allocator |
| devices (`dev/`): input, tty, disk, frame buffer, registry | event ring and modifier flags; cooking queue and screen; block buffer | `read`, `write`, daemon tasks | semaphores, `on_irq` |
| test workload (`test.c`) | a bounded counter and two semaphores | producer, consumer | semaphores |
| abstract machine: traps (`trap64.S`, `cte.c`) | trap frames, EFLAGS.IF | trap entry, `__am_iret`, `yield`, `iset`, `kcontext` | below everything |
| abstract machine: boot (`boot/`, `start64.S`, `trm.c`, `mpe.c`) | the boot record, `ap_ready`, two boot stacks | `load_kernel`, `_start_c`, `mpe_init`, `halt` | all CPUs, through inter-processor interrupts |
| abstract machine: address spaces (`vme.c`) | page tables | `protect`, `unprotect`, `map` | a page allocator given by the kernel |
| abstract machine: clock (`ioe.c:36-100`) | the date, the measured frequency | `timer_init`, `timer_rtc` | input and tty tasks |
| klib (`string.c`, `stdio.c`, `stdlib.c`, `int64.c`) | a print buffer | strings, formats, two-word division | everyone |
| `libco`, `pstree`, `crepl` | empty skeletons | | |

### What is hard

* A thread can lose its CPU between any two instructions while interrupts are
  on and go on elsewhere, while `CUR_CPU` is evaluated afresh each time:
  `interrupt_off` reads the flag *before* it disables interrupts (`os.c:116`).
* The scheduler runs on the stack of the task it leaves. Another CPU must not
  take that task before this one is off its stack; the code defers `running =
  false` and `i_nest--` to the *next* trap of the CPU (`kmt.c:21-27`).
* The list of tasks is read by schedulers without its lock while `create`
  extends it (`kmt.c:44`, `87`).
* `sem_wait` sets `blocked` before it queues itself and unlocks, `sem_signal`
  clears it before it advances the head: scheduler and semaphores see each
  other's intermediate states.
* `recover_slab` walks another CPU's list without locks, and competes with the
  hand-over-hand walk of `slab_alloc` (`slab.c:95-97`, `176-215`).
* Rings (`wait_queue`, input events, tty characters) have no full check or
  panic when full; `context[4]` has none either.
* All CPUs boot through one record, one flag and two stacks, one after the other
  (`mpe.c:15-21`), and are stopped through the same record, whatever they do.
* The terminal draws only cells that were marked; every operation has to mark
  all it changed, the old and the new place of the cursor included.
* The clock chip goes on while its registers are read one by one.
* Arithmetic without comparisons: `__udivmoddi4` decides by a sign bit, shifts by
  a whole word are undefined, blocks are found by masks and pages by alignment.

`PROJECT.json` lists these, each at its line, with the properties that cover it.

## 2. The modules

| module | models | properties |
|---|---|---|
| `Spinlock` | spinlocks, interrupt nesting, the raw sections of `kalloc`, `kfree`, `printf`, traps and migration | safety |
| `AbstractScheduler` | a scheduler that dispatches at once: what CPUs may be made to execute | the specification refined |
| `Scheduler` | `kmt.c` under `trap()`, frames and stacks | safety, refinement, liveness |
| `AbstractSemaphore` | what counting semaphores with first-in first-out hand-over promise | the specification refined |
| `Semaphore` | `sem.c` | safety, refinement, liveness |
| `Slab` | `slab.c` for one block size | safety, liveness |
| `PageAlloc` | `page.c` | safety |
| `Int64`, `Klib`, `SlabLayout` | pure functions: two-word division; strings and formats; slab and heap layout | against reference definitions |
| `IrqList` | `on_irq`, and the order of `trap` | safety |
| `Vme` | page tables of an address space | safety |
| `Boot` | boot and halt of all CPUs | safety, liveness |
| `Rtc` | reading the date, measuring the frequency | safety |
| `Disk` | `/dev/sda` over whole blocks | safety |
| `Input` | from the keyboard to a line that a program reads | safety, liveness |
| `Screen` | terminals, marks and the pixels of the monitor | safety |
| `SchedulerProofs`, `SpinlockProofs`, `SemaphoreProofs`, `SlabProofs`, `PageAllocProofs` | theorems about the modules they are named after | TLAPS |
| `DeviceProofs` | theorems about `Input`, `Disk` and `Screen` | TLAPS |
| `PlatformProofs` | theorems about `IrqList`, `Rtc`, `Vme` and `Boot` | TLAPS |
| `FunctionProofs` | theorems about `Int64`, `Klib` and `SlabLayout` | TLAPS |
| `MC...` | the instances TLC checks; `MCPlatform` those of the ten modules above | |

The operators `Mut...` are plausible bugs, each placed before the definition it
replaces (a forgotten guard, an off-by-one). They are no part of the
specifications: replacing the definition by one of them breaks the property
named in `PROJECT.json`, so every property is known to depend on the code.

### Spinlock
A *flow* is a thread (a task or a CPU's boot flow) or the trap handler of a CPU.
`pc` says where a flow is inside `spin_lock` (`off`: flag read, not yet disabled;
`xchg`: spinning), `spin_unlock` (`drop`: unlocked, `interrupt_on` to come) or an
allocator or console section (`kold`, `kcrit`, `kxchg`). Instructions that run
with interrupts off and touch only this CPU's fields are one step
(`OffSave` = `os.c:117-122`). An interrupt may come at any step with IF set and
`Iret` may resume any thread no CPU executes, so migration is unrestricted; what
the scheduler really picks is the subject of `Scheduler`. Callers take locks in
a fixed order, the raw locks last. Boot flows begin with interrupts disabled
and get them in `OsRun`.

### Scheduler and AbstractScheduler
The state is that of `kmt.c` field by field, `on` (which stack a CPU occupies)
and `ret` (the context the trap will return to). A `Context *` is the flow whose
frame it points to; when `__am_iret` pops a frame, every other pointer to it
becomes `Stale`. The steps of a trap are `TrapSave`, `ReleaseLast`,
`ScheduleBegin`, then `PollNext` and one of `Skip`, `ResumeSelf`, `Switch` per
task examined, `GoIdle` after `POLL_TIMES`, and `Iret`: one step per lock section
or unlocked read. `create` is two steps, as the count is raised before the link.
`Block` and `Wake` are the effect of `sem.c` on `blocked`: a task may block itself
whenever it executes, and anyone may wake it, which is more than `sem.c` does.
`init_idle_task` assigns to its own parameter, so `idle_tasks[]` stays NULL and
the idle task is the zero-filled record at address 0; `nullctx` is its
`context[0]`. Where two CPUs get onto one stack, or a popped frame is resumed,
the model stops (`Defined`): nothing that follows is defined by the code.
`due` is a history variable for `ScanComplete`. `teardown` has no caller and is
left out.

`AbstractScheduler` says what this amounts to: a CPU is on a task or on none
(`at`), a trap (`Trap`) ends in `Dispatch` of a task that is created, awake and
that no other CPU is on, not even in its traps, or in `Idle`. The mapping:
`created` is the linked tasks, `asleep` the blocked ones, `at` the task whose stack
a CPU is on, `trapped` the CPUs between `TrapSave` and `Iret`. `Iret` is the
`Dispatch`, and the steps in which a task is picked and another given up are
stutters, so `ImplementsAbstract` says that between the pick and the entry nobody
else enters the task or puts it to sleep. It includes `TaskStackExclusive`, which
is proved but needs no check of its own.

### Semaphore and AbstractSemaphore
One step per access to `blocked` and per end of a locked section. A spinlock is
its owner here (`Spinlock` shows that this is sound). Tasks wait and signal as
they like, handlers only signal. The refinement maps `avail` to `resource`,
`waiting` to the ring without the entry that has been woken and not yet passed
over (`Queue`), and `admitted` to the tasks let through. `Advance`, `Lock`,
`UnlockSleep` and `BlockSelf` are stutters; `WakeHead` is `HandOver`.

### Slab
For one size, since lists of different sizes share nothing but the page
allocator. Interrupts are off for the whole of `kalloc` and `kfree`, so a CPU is
in at most one call. Each wait for a lock (`Lock`, in `slab_alloc` and in
`slab_free`) is a step apart from what is done under it, so that `_try_lock` may
meet a slab that a `slab_free` holds. Reads of a list without a lock (`AllocCall`, `Advance`,
`ReadHead`, `Walk`) are steps of their own. Pages come from a set that shrinks:
`page_free` gives nothing back (see 4). A recovered slab is never unlocked
(`slab.c:214`), as in the code.

### PageAlloc
The tree of sizes of each unit with the descent, the sizes left on the way back
(`TreeAfter`) and the address arithmetic. `page_alloc` locks one unit after the
other, so each probe is a step. The levels, the number of units and the base
address are constants.

### Int64, Klib and SlabLayout
Functions of their arguments. The one variable of each module is the call under
way (`dividend`, `klib_call`, `layout_call`), so that `Int64Spec`, `KlibSpec` and
`LayoutSpec` are the programs that call them with any arguments. A loop is a
recursive function of the number of its passes, its body an operator (`Round`,
`Pass`, `ReadFormat`, `ReadNumber`).

`Int64` takes the width `W` of a word as a constant; the case distinction of
`__udivmoddi4`, its `Split` into r:q and its `Rounds` are those of the code, and
`DivisionRight` compares the result with the integers. `Power` is the weight of a
bit, `And` the sum of the bits that two words share, and the bit counts double
the width with `ClzTwice` and `CtzTwice` as the code halves it. `Klib` works on a memory of a few bytes, so that overlapping ranges
and unterminated strings occur; `memmove` to a higher address, whose loop runs
away, is `Undefined`, as is a text that overruns the `pbuf` of `snprintf`, whose
assertion on what is left of it (`stdio.c:150`) is `Halted`. `SlabLayout` computes with real sizes (a 40-byte header in
4096 bytes). Characters are ASCII: the comparisons subtract plain chars, which are signed.
TLC's integers have 32 bits, hence the small `W` of the runs; the proofs are for
`W` up to 32 and for `int` of up to 32 bits.

### IrqList
The list as a sequence; `on_irq` is the only operation. Handlers are known by the
order of their registration; `trap` is a recursive function over the list and is
evaluated for every combination of handlers that return a context or NULL, as a
release and as a `DEBUG` build, which returns a system call's first answer
(`os.c:54`).

### Vme
A page table is a function from index to entry; the walk, the copied kernel
entries and the recursive teardown are as in the code, for `ptlevels` levels of
`Fan` entries. `Descend` is one turn of the walk's loop, `ptwalk` all of them. A free page holds `Garbage`, entries that look like pointers to
the kernel's table, so a table that is not cleared shows. `protected` and `mapped`
are history variables: the spaces in use, and what the caller asked for. The processor's own walk (`Translate`) is
the reference.

### Boot
One location per CPU: the boot loader, `_start_c`, `mpe_init`, `othercpu_entry`,
`call_user_entry`, `__am_stop_the_world`. `ipis` are interrupts on their way, in
order per CPU. INIT resets a CPU from anywhere, STARTUP enters the boot record,
whose jump is `jmp_code`. A CPU may call `halt` in `main` or after `user_entry`.
The de-assert broadcast in `__am_percpu_initlapic` has no effect on these
processors and is left out.

### Rtc
`now` is the chip, in seconds; `Tick` may come between any two reads of a
register. Three assumptions on pace are its guards: a pass of `wait_sec` takes
less than a second, one of `timer_rtc` less than a minute, both calls of
`wait_sec` together less than an hour. The date is second, minute and "the rest".

### Disk
One step per block, through the one buffer. `bytes` is a history variable: the
disk as an array. There is no lock and no second caller in the repository, so
one call at a time is modelled. A write may bring any bytes, so that one that
lands at the wrong place shows.

### Input
The daemon (`Drain`, `Push`, `Signal`, `WaitIrq`), the tty task (`WaitEvent`,
`Pop`, `Cook`), a reader, and interrupts. Semaphores are counters (`Semaphore`
shows that a waiter gets its turn), a section under a lock is one step
(`Spinlock`). `Drain` is one turn of the daemon's loop; a code that `keylut` does
not know reads as `NONE`. A panic sets `stopped`, and nothing moves afterwards:
a full ring is a panic in the code, and the properties say that nothing worse
happens. The cooking queue begins with a byte that is not NUL, as its memory
carries the free list's link.

### Screen
`tty_putc` and the operations it is made of, field by field; `ShowWith` is a
`tty_write` with its rendering followed by the end of the tty task's loop. The
monitor is a function from pixels to bits, drawn by `fb_write` from textures as
`font_load` fills them in. `welcomed` is the terminal after each character of the
welcome text. The tty task is the only writer of this kernel, so an
event is one step.

## 3. The runs

| run | instance | states | shows |
|---|---|---|---|
| `spin` | 2 CPUs, 3 threads (2 boot), 2 nesting spinlocks, 1 raw lock | 688 thousand | mutual exclusion; a holder keeps its CPU with interrupts off; the counter belongs to the flow that executes; the flag is restored |
| `sched` | 2 CPUs, 3 tasks created at run time | 340 thousand | implements `AbstractScheduler`, claims, live frames, complete scans, complete list |
| `sched_live` | 2 CPUs, 2 tasks created by `os_init` | 35 thousand | a runnable task runs |
| `sched_idle` | the same | violation | idle flows do not have stacks of their own |
| `sem` | 3 tasks, 1 handler, ring of 4, up to 2 resources | 87 thousand | no lost wake-up, the queue is the sleepers, refinement |
| `sem_live` | 2 tasks, 1 handler, ring of 3 | 9 thousand | a sleeper gets its turn |
| `sem_overflow` | 3 tasks, ring of 3 | violation | a full ring reads as empty |
| `slab` | 2 CPUs, 4 pages, 2 blocks per slab | 1.2 million | no block twice or lost, lists complete, walks on locked slabs, recovered slabs dead, calls return |
| `page` | 2 callers, 2 units of 3 levels | 359 thousand | pages disjoint and inside the units; the roots are truthful |
| `page_free` | the same | violation | a unit never becomes whole again |
| `platform` | one of ten units to a behaviour, see below | 129 thousand | the properties of the ten modules |
| `snprintf` | texts of up to 3 characters, 6 bytes of memory | violation | a byte behind the buffer is written |

All runs explore every reachable state of their instance. Of the kernel's core
(the first ten) none but the semaphore's counter is cut off: `MaxResource` stops
signals at two, enough for two signals in a row with and without a waiter.

**`platform`.** The ten modules share no variable with one another, so a product
of them would show nothing that they do not show alone. `MCPlatform` takes them
all by EXTENDS; a behaviour chooses one `unit` at the start and moves only its
variables; the others' invariants are checked in its initial states. `CHECK_DEADLOCK` is off because
every unit may come to an end: the disk apart, they stop at a bound, at a panic,
when the machine is switched off, or when the clock has been read. The units:

| unit | instance | property | says |
|---|---|---|---|
| `int64` | words of 4 bits, all pairs of two-word operands | `Int64Right` | quotient, remainder and bit counts are C's, signed and unsigned |
| `klib`, `number` | all memories of 6 bytes with values 0 to 2; all 8-bit integers | `KlibRight` | copies move the old contents although ranges overlap, comparisons are a dictionary's, a printed number is read back |
| `layout` | all sizes to 2049; heaps that end below 11 units, for a pool of 11 | `LayoutRight` | blocks lie in their page, do not meet, and lead `kfree` back to their slab; trees and units fit the heap, `page_pool` has room for them |
| `irq` | 4 registrations, 3 sequence numbers, 2 events and the wildcard | `HandlersOrdered` | exactly the handlers of an event run, in order; the last context returned wins, for a system call in a `DEBUG` build the first |
| `vme` | 2 spaces, 5 pages, 3 levels of 2 entries | `MapRight`, `TablesOwned` | a space translates what was mapped and the kernel; no table page is shared, free while used, or lost |
| `boot` | 3 CPUs, up to 2 halts | `BootExclusive`, `BootCompletes` | one CPU at a time on the boot stacks, one load, one entry each; all CPUs start, and one `halt` switches off |
| `rtc` | minutes of 3 seconds, hours of 2 minutes, 12 seconds | `ClockRight` | a date is never torn, the divisor is the time that passed |
| `disk` | 3 blocks of 2 bytes | `DiskIsBytes` | reads and writes at any offset behave as on an array of bytes |
| `input` | event ring of 3, cooking queue of 4, 3 strokes | `EventsCounted`, `LinesWhole`, `KeysHandled` | the semaphore counts the ring, lines arrive whole with their corrections, keys are not left over |
| `screen` | 5 by 9 pixels, glyphs of 2 by 4, 2 terminals | `ScreenFresh` | pixel by pixel the monitor shows the terminal in use |

The bounds of these units: `MaxHandlers`, `MaxHalts`, `MaxNow` (two hours of the
small clock, so that each wait meets an end of minute and of hour), `MaxKeys`,
`MaxIrqs` (a second pending interrupt has no effect the first has not), `MaxHw`.
Both rings get full with three strokes: RETURN takes two places of the cooking
queue, and both rings wrap around. Levels below the first but the last are alike
in `vme.c`, so 3 stand for 4. In 4-bit words both halvings of the bit counts are
exercised, and `sr` takes every value from 1 to 2W - 1. The monitor has a column
and a line of pixels that belong to no cell.

**Why these bounds.** Two CPUs are the least with which a task migrates and two
schedulers compete; the hazards relate a task to at most two CPUs (the one that
leaves it, the one that takes it), and for the modules of section 5 the proofs
cover any number. Three tasks give a list with a middle, a task for each CPU and one
to spare. Three sleepers make the order of a queue visible and the ring wraps
around. Four slabs of two blocks let a list reach three slabs, one of which is
recovered from the middle while its owner walks past it. Three levels have a
root, an inner level where sizes are merged, and leaves; requests are at and
just above a page size, and one is larger than a unit. A single unit with four
levels was explored as well, with the same outcome.

**Fairness.** `sched_live`: weak fairness of each CPU's trap steps. The timer
interrupts every CPU again and again, boot flows and idle flows call `yield`,
and handlers run with interrupts off, so a started trap goes on. Nothing is
assumed of tasks: creating, blocking and waking are free. `RunnableRuns` is
conditional on `[]Defined`, since the idle problem below ends defined behaviour.
`sem_live`: weak fairness of a flow inside a call; lock sections run with
interrupts off, and a task that is not blocked is resumed (`RunnableRuns`). A
contended spinlock may starve a flow, so `WaiterServed` has as a premise that
signals on the semaphore keep completing. `slab`: weak fairness of a CPU inside
a call, which runs with interrupts off; `CallsReturn` supposes that new calls
eventually cease, as `_lock` is unfair.
`platform`: `BootCompletes` assumes weak fairness of each CPU (it executes, and
its interrupts arrive), nothing of `halt`. `KeysHandled` assumes weak fairness of
the timer interrupt, which is periodic, and of the input and tty tasks, which
`RunnableRuns` justifies; nobody has to type or to read.

## 4. What was found

* **Shared idle context** (`sched_idle`, `kmt.c:142`). `idle_tasks[]` is never
  filled in, so all CPUs save and resume their idle context in the same place:
  two CPUs with nothing to run can get onto the same boot stack, or onto a frame
  already popped. The safety properties of tasks hold in spite of it up to that
  point.
* **Ring without a full check** (`sem_overflow`, `sem.c:40`). With as many
  sleepers as entries the ring reads as empty and sleepers are lost.
  `SEM_CAPACITY` is 256, `MAX_TASK` 1024.
* **`page_free` frees nothing** (`page_free`, `page.c:211`). The descent returns
  at the root. With the test reversed (`ptr >= phsics_addr + 2^base`) the
  instance satisfies `FreedMeansFree` and the other invariants. That nothing is
  reused is also what keeps `slab_alloc` safe: if pages did come back, the second
  read of `append` after the unlock (`slab.c:97`) could be of a slab that has been
  recovered and formatted anew, which is how the mutant `MutReturned` breaks
  `WorksUnderLock`.
* **`snprintf` writes n + 1 bytes** (`snprintf`, `stdio.c:152`) when the text is
  longer than n: both `strncpy` and the assignment after it put a NUL at `out[n]`.
* Two CPUs that halt at once stop each other before either switches the machine
  off; `BootCompletes` therefore speaks of one.
* The event ring (`dev_input.c:24`) and the cooking queue (`dev_tty.c:19`) panic
  when they are full. The panics are modelled and happen in `platform`; nothing
  promises that they do not, so no property says it.
* `memmove` to a higher address never ends inside its buffers (`string.c:30`).
  Nothing in the kernel calls it that way.
* A bubble can hide free pages: after one 4K and one 8K request under a 16K node,
  the node is marked although a 4K page is left, and no later request reaches it.
  The comment at `page.c:148-152` wants it so; `RootsTruthful` says only that what
  a root promises can be served, and holds without the mark as well.

## 5. What is proved

Each theorem says `Spec => []P` for every value of the constants that satisfies
the module's named assumption (names of different kinds are distinct, lists have
no duplicates, locks are ordered, the ring has an entry, there are finitely many
slabs); only the second half of `SemaphoreProofs` supposes more. Each proof goes
through an inductive invariant: it holds at first, one lemma per action (or per
group of actions that does the same to it) shows that it is kept, and it implies
`P`. Hardly any `P` is inductive by itself. Together the theorems state every
safety property that the passing runs check: all their invariants, and both
refinements.

The prover has no induction rule over numbers that takes a predicate. Where one
is needed, the predicate is made a set of numbers and the rule is that a non-empty
set of natural numbers has a least element (`LeastCounterexample`, from the
well-foundedness of `<`; `UpTo` and `FromTo` are the step-by-step forms). The same
deals with recursive functions, of which the prover knows only that they are
chosen to satisfy their equation: by induction some function does
(`Recursion`, `JoinsExist`, `WelcomesExist`), so the one that was chosen does. Of
2^k the prover knows nothing when k is a symbol; where that is needed, the power
is a recursive function too.

**`SchedulerProofs`**: `SchedulerTypeOK` (`TypeCorrect`; with it that `i_nest` is 0 or 1, so
that `context[i_nest++]` never leaves the array, `kmt.c:18`), `TaskStackExclusive`
(`StacksExclusive`), `RunningIsClaimed` (`Ownership`) and `RunnableHasFrame`
(`FramesLive`). `IInv` adds

* `PhaseInv`: for each CPU, by where it is in its trap, which task its stack
  belongs to and which frames are saved. From `TrapSave` on, the interrupted task
  has its frame in `context[0]` and `i_nest` 1, until it is resumed or, after a
  switch, until the next `ReleaseLast`, being `last_task`;
* `OwnerInv`: `running` is exactly the current and last tasks, and a task has
  one such CPU;
* `FreeInv`: a task that is not running has `i_nest` 0, its frame in `context[0]`
  and no CPU on its stack;
* `ListInv`: every pointer a scheduler follows leads to a listed task, so it
  never takes a record that `create` is still filling in;
* `CreateInv`: `create` excludes itself;
* `nullctx` is never a task's frame: a trap without a current task comes from a
  boot flow.

The argument turns on `ReleaseLast` and `Switch`: the first hands a task back only
when its CPU is on another stack, the second takes only tasks for which
`FreeInv` holds.

`ImplementsAbstract` (`Refines`) needs one thing more, `AwakeInv`: the task that a
CPU has picked stays awake until `Iret`, since only its owner could block it
(`OwnerInv`), and the owner is in its trap; and a task that is not linked yet is
not blocked. Then each step is one of `AbstractScheduler` or a stutter, one lemma
per action that changes what the abstract scheduler sees.

**`SpinlockProofs`**: `TypeOK` (`TypeCorrect`), `MutualExclusion` (`Exclusion`),
`HolderKeepsCpu` (`HoldersRun`), `NestMatches` (`NestingCounted`) and `FlagRestored`
(`FlagKept`). `IInv` adds to `MutualExclusion`

* `StacksInv`: two CPUs are never on one thread's stack;
* `FlowInv`: what a flow remembers of the flag between reading and saving it is
  right, on whatever CPU it goes on, since a flow that can be moved there has its
  own flag restored from its frame;
* `ExecInv`: the flag and the counters of a CPU are those of the flow it executes;
* `ParkedInv`: a flow that no CPU executes is outside every section and its frame
  holds its own flag.

A trap parks a thread and an `__am_iret` takes one up; every other step is local
to one CPU and the flow it executes (`LocalInv`), so only those two are to be
looked at.

**`SemaphoreProofs`**: `TypeOK` (`TypeCorrect`) and `NoLostWakeup` (`NoWakeupLost`).
`IInv` adds `SectionInv` (a flow past its `spin_lock` owns the lock of its semaphore)
and `ResourceInv` (a task about to queue itself, and a signaller about to advance
the head, still find no resources). No assumption on the size of the ring is
needed here.

**`SchedulerProofs`, the list**: `ScanComplete` (`ScansComplete`) and `ListComplete`
(`ListsComplete`). `LInv` adds to `IInv`

* `RankInv`: the listed tasks can be ranked by the number of tasks behind them; a
  link goes down by one rank, the last task has rank 0 and the head the highest.
  `create` puts a new highest rank in front and changes no other;
* `ScanOk`, a part of it: a scheduler that still owes some task a look is either on
  its way to the end of the list, which it reaches within `task_count` polls, or
  has started again at the head, reaches the end within twice as many, and the
  tasks it owes are all ahead of it. `POLL_TIMES` is two more than twice `task_count`, which
  only grows;
* `LockInv`: `task_list_lock` is held only inside `create`, so `task_count` is
  ahead of the list by one exactly while a task is being linked.

`Chain` is a recursive function, of which the prover knows only that it is chosen
to satisfy its equation. The function that lists the tasks by falling rank does,
and two that do agree: the least k where they differ would follow a k - 1 where
they differ as well.

**`SemaphoreProofs`, the queue**: `SleepersQueued` (`QueueIsSleepers`) and
`ImplementsAbstract` (`Refines`), both under `RingSuffices`: there are fewer tasks
than entries of the ring. The code does not ensure it (section 4), so this is the
condition under which `sem.c` is right. `Ring` reads the array from head to tail
as a sequence: a store at the tail appends to it unless it is full, `Advance`
takes its first element. `QueueInv` says that the sleepers are the distinct
elements of this sequence (without the first while a signaller stands between
waking it and `Advance`), hence fewer than the entries, so the ring is never full
at a store and equal indices mean an empty one. From it each step of `sem.c` is a
step of `AbstractSemaphore` or a stutter, one lemma per action.

**`SlabProofs`**: `TypeOK` (`TypeCorrect`), `BlocksPartitioned` (`Partitioned`),
`WorksUnderLock` (`UnderLock`), `RecoveredIsDead` (`RecoveredDead`) and
`ListsComplete` (`ListsKept`). `IInv` adds

* `CallInv`: what a CPU knows at each point of its call. A link between two slabs
  changes only by a CPU that holds both locks, so the one by which `recover_slab`
  has found its slab stays until it tries the lock of the predecessor
  (`slab.c:201`), although it was read without that lock;
* `ListInv`: the head of a list is the successor of no slab, so it is never taken
  out of its list; links lead only to slabs that have been formatted;
* `RecoveredInv`: a slab that was taken out stays locked and whole, so a CPU that
  still waits for it can never come in;
* `FreeInv` and `UsedInv`: a block is on the free list of its slab exactly when it
  is neither live nor being handed over, and the counter is the list's length;
* for `ListsKept`, `RankInv` as in `SchedulerProofs`, for the list of each CPU;
  `recover_slab` lowers by one the ranks above the slab it takes out. `Chain` is
  dealt with in the same way.

**`DeviceProofs`, the event ring**: `EventsCounted` (`RingCounted`). `EventsCounted` is inductive with
the types of the ring: `push_event` signals only after it has stored, `pop_event`
waits before it takes, and a handler or a daemon in between is counted apart.

**`PlatformProofs`, the boot**: `BootExclusive` (`BootIsExclusive`), for any number of CPUs. The
state of the machine is divided by `jmp_code` into three phases: CPU 0 alone;
CPUs being started one after the other, of which only the one that got a STARTUP
and has not yet set `ap_ready` is on a boot stack; and the machine being
stopped, where each CPU is stopped or has an INIT on its way.

**`PageAllocProofs`**: `TypeOK` (`TypeCorrect`), `PagesDisjoint` (`PagesAreDisjoint`)
and `RootsTruthful` (`RootsAreTruthful`), and one theorem beyond the runs:
`NothingIsFreed`, no step turns a `FULL_USED` node into another (the other side
of the finding on `page_free`). The invariant is

* `TreesOk`: no node holds more than its size; below a whole node all is whole; a
  node that promises a size is whole or has a child that promises as much. So
  the descent, which is proved step by step, ends at a whole node;
* `AllPlaced`: each page that a caller has, or is about to get, is a node marked
  `FULL_USED` that is large enough.

A whole node has no full node below it, and none above it lies on the way of a
descent, so the page taken there meets none that was given away before. That two
nodes neither of which is below the other have disjoint addresses is arithmetic
over powers of two (`power_of_two`, a recursive function).

**`DeviceProofs`, the lines**: `LinesWhole` (`LinesAreWhole`), for a queue of any
length, any keys and any reader. `QueueHolds` says what the cooking queue holds
from its front to its rear: the finished lines, each with a NUL, then the one
being typed; and that the byte before the front is a NUL. The latter is what
keeps `tty_pop_back` inside the line being typed when the queue is empty, since it
looks at the byte before the rear without looking at the front. The lemmas are
about `Content`, a stretch of a ring as a sequence (what is added at its rear, taken
from its front or taken back), and about `FlattenSeq`, whose definition is
recursive.

**`DeviceProofs`, the disk**: `DiskIsBytes` (`DiskIsAnArray`), for any sizes of block
and disk and any request. `CallPlace` says that the next byte of a call lies in
the block whose turn it is, `CallData` what the caller's buffer holds so far, and
`DiskAgrees` that the disk is the array but for what a write has yet to write.

**`DeviceProofs`, the monitor**: `ScreenFresh` (`ScreenIsFresh`), for any sizes of
monitor and glyph and any font. The invariant is that each pixel shows the bit
that the terminal in use has there (`Shows`). `Covers`: a pixel of the text is
covered by one half of one cell's glyph, and a pixel beyond the last column
or line by none. So `DrawIs`: a rendering changes the cells that are marked, and
makes them right. What is left is that every operation marks enough
(`PutcMarks`): in a cell without a mark the character is the old one, and the
cursor neither is nor was there.

**`PlatformProofs`, interrupts**: `HandlersOrdered` (`HandlersAreOrdered`). `IrqInv`: the
list is sorted by sequence number, ties by age, and holds each registration once.

**`PlatformProofs`, the clock**: `ClockRight` (`ClockIsRight`), for minutes and hours of
any length and any `MaxNow`. `PassOk` says what the registers read so far are
worth, by `late`, the number of ticks since the pass began: in `wait_sec` there is
at most one, and a second that differs from `t0` was read after it, with the
registers that follow; in `timer_rtc` a tick changes the second that is read once
more, so that the pass is repeated. `MarksOk` says that each mark is the second in
which its time stamp was taken.

**`PlatformProofs`, address spaces**: `TablesOwned` (`TablesAreOwned`) and `MapRight`
(`MapIsRight`), for any number of levels, entries, spaces and pages. `VmeInv` says
that some n gives every page in use its space, its depth and the indices that
lead to it from the root (`Trees`): no two pages have the same (`OnePath`), what an
entry of an inner table points to is the table of the path extended by its
index (`LinksDown`), each table but a root has such an entry (`LinksUp`), every
space has its root (`Roots`), and the entries of the last level are what `map` left
there (`Leaves`, `Placed`). A walk that makes a table extends n by it, so the
parts are stated for the tables and free pages of a walk that has not ended, too;
`unprotect` removes the pages of a space and no other.

**`FunctionProofs`, the layout**: `LayoutRight` (`LayoutIsRight`), from
`BlocksAreFound`, which is its first half for every size and every page, and
`UnitsLieInHeap`, the second for every heap that ends below 4G, with a
`page_pool` of 256 entries (`HeapAssumption`). `page_system_init` checks neither
the pool nor the 16M for the trees; that the heap ends there is due to
`__am_heap_init` (`trm.c:61-68`), which makes its end of 32 bits.

**`FunctionProofs`, strings and numbers**: `KlibRight` (`KlibIsRight`), for memories of
any size and `int` of 8, 16 or 32 bits. `MemcpyIs` describes the memory after each
byte of a copy: what is ahead of the copy is still the old contents, since the
target is never above the source. For numbers, `Printing` says what `_itos` has
written after i passes (the digits of the number from the last one on, and what
is left of the number); it ends within the 49 passes that its caller's buffer
has room for, and reading the same digits from the front brings back, one by
one, the numbers that were left (`Atoi` after `Vsprintf`).

**`FunctionProofs`, division**: `Int64Right` (`Int64IsRight`), for words of 2 to 32 bits
and every two operands.

* The bit counts: if f counts the zeros of h bits, `ClzTwice` and `CtzTwice` of f
  count those of 2h (`ClzDoubles`, `CtzDoubles`), from two bits up to two words. A
  number lies between the powers of two that its leading zeros name, and is an
  odd multiple of the one that its trailing zeros name; both are unique.
* x & (x - 1) is zero only for a power of two: otherwise the highest bit is in
  both (`PowerOfTwoIs`); and & with a power less one is the remainder (`AndMask`).
* `Split` cuts the dividend at bit sr and loses nothing (`SplitIs`, `Begun`).
* `InRound` is the invariant of the rounds: with Q the quotient so far, lo the
  bits not yet shifted in, of which there are sr - i, the dividend is
  (d Q + r) 2^(sr-i) + lo with r < d, and q holds lo at its top and Q but for its
  last bit, the carry, at its bottom. The subtle step is `SignTells`: the sign
  of d - r - 1 tells whether d fits only if the shifted r is still a two-word
  integer and the difference is in range. That is so because the divisor's upper
  bit is clear, or else the leading zeros of both are none and the only round
  takes the whole dividend (`Roomy`).
* The number of rounds is one more than the difference of the leading zeros, so
  that the r of `Split` is below the divisor, and a negative difference means
  a quotient of zero (`ByRounds`); `UDivModIs` goes through the special cases.
* The signed functions are right modulo two words, whatever wraps
  (`SignedDivision`); the least integer by -1 is the one case whose result does.

**Only model-checked.** Liveness (`RunnableRuns`, `WaiterServed`, `CallsReturn`,
`BootCompletes`, `KeysHandled`) and anything that needs ENABLED: out of the prover's
reach. The four runs that expect a violation are counterexamples and have no
theorem.

## 6. Not modelled, and the plan

Left out: the native port (a machine emulated with Linux processes and signals)
and the other architectures; audio, PCI and raw register access; `fb_read`, the
writing of textures, `gpu_render` and `rand`, which nothing calls; the contents of
descriptor tables and of the font; 32-bit page tables; `test.c`, whose tasks make
the calls that `Semaphore` explores in every order; the skeletons of the other
labs.

What would come next, in order of importance:

1. `Kernel`: `Scheduler` and `Semaphore` together, where `blocked`, the yield loop
   and the deferred release meet. Its bound: two CPUs, two tasks.
2. A second writer of a terminal and a second caller of the disk, should the
   kernel get user programs: both would need locks that are not there now
   (`dev_tty.c:316`, `dev_sd.c:33`).
3. `teardown`, with callers as inputs, against the scheduler's walk.
