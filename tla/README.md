# A verification project for ARMCortex-A7OS

The repository is a small operating system for an ARM Cortex-A board (run under
QEMU): a pre-emptive priority scheduler, half-duplex message pipes, a file
system over a remote disk, and a handful of user programs. This directory holds
TLA+ modules that model it, TLC runs that check them on small instances, and
theorems about them proved with TLAPS for every value of the constants.

## 1. The system

### Parts, state and operations

| Part | Source | State | Operations |
|---|---|---|---|
| process table, scheduler | `kernel/scheduler.c` | `pcb[]`, `current`, `current_tos_user`, the registers of the running process | initialise, run (tick, yield), fork, exec, exit, kill |
| pipes | `kernel/ipc.c` | `pipe[]`: two ends, a signal waiting at each | make_pipe, msend, mreceive |
| file system | `kernel/mem.c` | `header`, `file[]`, `data[]` in memory, and their copies on the disk | boot (setup, load), open, close, write, read |
| entry and dispatch | `kernel/lolevel.s`, `kernel/hilevel.c` | the processor's mode and registers, the timer's line, the interrupt controller | reset, supervisor call, timer interrupt |
| disk link | `device/disk.c`, `device/disk.py` | the serial line between them, the disk image | wr, rd, conf, with retries |
| dining philosophers | `user/P6.c`, `user/P7.c` | chopsticks, children, their pipes; the signal a philosopher got | rounds of the waiter; receive and yield |
| console | `user/console.c`, `user/cat.c` | the command line | fork, kill, open, close, write, cat |
| compute programs | `user/P3.c`, `P4.c`, `P5.c`, `P8.c` | none | arithmetic, exit |
| library | `user/libc.c` | `r0` to `r3` while a stub runs | system-call stubs, `atoi`, `itoa`, `memset` |
| drivers, build | `device/*`, `Makefile*`, `image.ld` | registers | bytes in and out |

Programs reach the kernel through system calls only. A system call and the timer
interrupt both run `kernel/hilevel.c` with interrupts masked, so a handler is
never interrupted: it is the unit of atomicity. (The one exception is the reset
handler, which enables interrupts a few instructions before its end.) Between two
instructions of user
code, and so between any two system calls of a process, the timer may hand the
processor to any other process. The parts share little: `fork`, `exec`, `exit`
and `kill` decide which pids exist, and pipes are made between pids, for good;
the file system shares nothing with either. It alone reaches beyond the board,
through `disk_wr` and `disk_rd`, each of which may fail, and the machine may stop
between two of them.

### What is hard

- *Entry code.* A tick may come between any two instructions of a system-call stub,
  which holds its arguments in registers, and in the last instructions of the reset
  handler, which do not run in user mode; return addresses are corrected
  differently for calls and for interrupts; the timer and the interrupt controller
  must both be told that a tick was served.
- *Scheduler.* Contexts are copied in and out of a table at every tick; slots are
  reused; `exit` and the fallback of `next_pid` hand the processor to slot 0
  without looking at it; nobody may starve although new children are boosted;
  stacks are handed out and never taken back; priorities are 32-bit sums.
- *Pipes.* Both ends make the pipe, in any order; both may send at once; a full
  table is reported with a valid id; pipes outlive processes, whose pids are used
  again.
- *Files.* A write that fills a block takes three disk writes, any of which may
  fail unnoticed, and the machine may stop between them; blocks are never freed;
  boot initialises the allocation counter; `strlen` runs past a full block.
- *Disk link.* Requests are retried; the kernel waits for the answer with
  interrupts masked.
- *Philosophers.* Signals the pipe refuses are dropped; the philosophers share a
  global variable; a waiter that is killed and started again finds its old globals,
  old children and old signals.
- *Console.* A forked child goes on reading the command line of its parent, through
  the one `strtok` position all processes share.

`PROJECT.json` lists each of these hazards at its line, with the properties that
watch it or the reason why none does yet.

## 2. The modules

| Module | Models | Proofs | Model checking |
|---|---|---|---|
| `Processes` | what the kernel promises a program (abstract) | | |
| `Traps` | `kernel/lolevel.s`, `kernel/hilevel.c` and the stubs of `user/libc.c` around the register context; implements `Processes` | `TrapsProofs` | `MCTraps` |
| `Scheduler` | `kernel/scheduler.c` behind `kernel/hilevel.c` | `SchedulerProofs` | `MCScheduler` |
| `Mailbox` | what pipes promise (abstract) | | |
| `Ipc` | `kernel/ipc.c`; implements `Mailbox` | `IpcProofs` | `MCIpc` |
| `Files` | `kernel/mem.c` over a disk whose writes and reads may fail | `FilesProofs` | `MCFiles` |
| `BlockStore` | what the disk promises (abstract) | | |
| `DiskLink` | `device/disk.c` and `device/disk.py` over the serial line; implements `BlockStore` | `DiskLinkProofs` | `MCDiskLink` |
| `Philosophers` | `user/P6.c` and `user/P7.c` over `Mailbox` | `PhilosophersProofs` | `MCPhilosophers` |
| `Console` | `user/console.c`, `atoi` and `itoa` of `user/libc.c` | `ConsoleProofs` | `MCConsole` |
| `Compute` | `is_prime` and `gcd` of `user/P3.c` and `P4.c` | `ComputeProofs` | `MCConsole` |
| `Weights` | `weight` of `user/P5.c` | | `MCConsole` |
| `Programs` | the console with the programs of `Compute` that it starts | `ComputeProofs` | `MCConsole` |

Operators named `...Without...`, `...From...` and the like under a comment "Wrong
on purpose" are not part of a model: each is a plausible bug that a property must
catch when it takes the place of the definition that follows it.

### Processes and Traps

`Processes` is the promise: each program has a processor of its own, on which it
calls, the call is performed, and it goes on with the answer; a performed call saw
the arguments of its caller. Only `fork`, `exit`, `exec` and `kill` touch another
program or replace one.

`Traps` is the one processor there is. `cpu` is what a context keeps of it: `cpsr`
(as the number it is, since mode and mask are bits of it), the pc, and the registers
`gpr`: `r0` to `r3` one by one and the others, which belong to the program alone, as
one more. `svc` are the banked registers of SVC mode, `frame` the dummy context on its
stack. User code is a step per instruction: `Call` enters a stub with anything in `r0`
to `r3`, `MoveArgument` loads them one by one, `lolevel_handler_svc` is the
`svc` with all the kernel does for it, `Return` takes `r0`. `Reset` is the reset
handler up to and with `hilevel_handler_rst`, followed by the four instructions that
may be interrupted (`LoadPc`, `SetSpsr`, `LoadRegisters`, `Leave`).
`lolevel_handler_irq` is taken before an instruction when the timer's `line` is up,
the controller `gic` is idle and interrupts are not masked. `Services` is the switch
of `hilevel_handler_svc`: number, function, and how many registers it reads. Which
process `scheduler_run` picks is left open, as it is the question of module
`Scheduler`, and what a call answers is a value that only tells caller, function and
arguments apart: were the kernel to read other registers than the stub loads, the
answers would differ. The refinement maps each process to where its own context says
it is: the live one if it runs, the saved one if not, and the dummy context while the
console has not been entered.

The model leaves out: exit codes other than `EXIT_SUCCESS`, which no program uses;
that the user kills process 0; the registers a context does not hold; the time a tick
takes (below).

### Scheduler

`pcb` is the table; a slot has the fields of `pcb_t`. `ctx` is the register
context the handlers get, that is the registers of the running process. A context
keeps what the scheduler can get wrong: the program the pc lies in (`image`),
whether it is at the return of `fork` (`forked`), the result register (`r0`), and
which stack it uses (`sp`, an address). There is one action per handler: `Timer`,
`Yield`, `Fork`, `Exec`, `Exit`, `Kill`. `update_priority`, `next_pid` and the
context copies are the operators `UpdatedPriority`, `IsNextPid` and
`SwitchContext` inside `Timer` and `Yield`. `Calls` and `Loads` say which system
calls a program's code makes and which programs it loads; a process that returned
from `fork` with 0 takes the child's branch, which only calls `exec`
(`console.c:62-73`, `P6.c:22-23`). `undispatched` is a history variable: the
children forked and not yet run.

The model leaves out: `cpsr` and the other registers, which are only ever copied
along; the prints; priorities whose sum exceeds 32 bits.

### Mailbox and Ipc

`Mailbox` is the promise: between two processes of a pair at most one signal is in
transit; a send deposits it or reports failure; a receive takes the signal meant
for it or reports that there is none. `Ipc` is the pipe table: `MakePipe`,
`MSend`, `MReceive` with `new_pipe_id`, `find_buffer` and the order of their tests.
A `NULL` buffer from `find_buffer` is not ruled out but modelled: its `signal` is
the word at address 4 (`null_signal`), that reads as an opcode until somebody
writes it. `Recycle` is external to `ipc.c`: a process is killed and its pid given
to another, which knows no pipe yet; nothing happens to the pipes. The refinement
maps `mail` to the signals in the buffers of active pipes (`InBuffers`).

Callers use the id that `make_pipe` gave them for that pair, as P6 and P7 do.

### Files

A system call is split at its disk writes: a step is the work up to and including
one `disk_wr`, and `op` says which call is in progress and where it goes on.
`DiskWr` either changes the disk or fails; the code goes on in both cases, so the
model does. `Crash` may come at any step: memory is lost, the disk stays, and boot
runs `Setup` (`file_setup`) and `Load` (`file_disk_load`) as `hilevel_handler_rst`
does. Reads happen at boot only, all of them in one step, as the disk does not change
meanwhile; any set of them may fail (`lost`), and what they would have filled stays
zero. A record that is lost is a free one to the next `open`, which overwrites it.

A record keeps the first `MAX_NAME` characters of a name (`set_file_name`), and
`find_file_id` compares the whole name with them (`IsFile`): a longer name is never
found, and every `open` of it makes one more file of the name it is cut to (`CutNames`).

`written` and `acked` are history variables: what each open file was given,
and how much of it belongs to calls that returned. `FileRead` is the value
`file_read` puts into the caller's buffer, including the `strlen` of a full block
that runs into the flag behind it (25 instead of 24).

The model leaves out: descriptors that `open` did not
return, closed ones among them; what happens after the last data block, with the zero
in a header that was never written or not read, and after a block that boot could
not read (all of them index outside `data[]`); writes after a restart, because
files then share blocks (`files_reboot`), and appending to a full block is
undefined behaviour. A write that fails leaves the block as it was; that it may
also leave half of it (`DiskLink`) is not carried over.

### BlockStore and DiskLink

`BlockStore` is the promise: an array of blocks; one call at a time; success means
that the block was written or its content returned; only the block of a write in
progress changes. `DiskLink` is both ends of the line. The driver (`Request`,
`Receive`, `GiveUp`) is the loop that `disk_wr`, `disk_rd` and the two
configuration requests share: send a line, wait for an answer, try again up to
`DISK_RETRY` times. The server (`AnswerNoise`, `conf`, `wr`, `rd`) answers line by
line. `tx` holds whole request lines. `rx` holds tokens, each what one call of the
driver's reads: a status, a separator, half a block, an end of line. So an answer
the driver reads with the wrong length would leave a token behind for the next one.

QEMU offers the line as a telnet server (`Makefile:11`) and greets whoever connects
with option bytes and no end of line; `disk.py` takes them for the beginning of the
first request, which it refuses. `fresh` says that this line is still to come: at
boot, and after every `Launch`. `Stop` ends the server at any point, in the middle
of a write too; what was on its way to it is lost, and a request sent to nobody is
dropped. A block has two halves so that a write can stop after the first.

The model leaves out: a `--block-len` other than the kernel's `BLOCK_SIZE`;
addresses from 2^31 on; a QEMU that stops.

### Philosophers

`WaiterStep` is P6: `Fork`, `MakePipe` and `Greet` for each seat, then rounds of
`Serve` and `EndRound`. `PhilosopherStep` is P7's loop: `Receive`, and `Switch` which reads the
global `buffer` that all philosophers overwrite. Pipes do what `Mailbox` promises,
which `Ipc` implements (`RefinesMailbox`), whoever has the pid at the other end by
now; a send that is refused is lost, as the waiter ignores the result. `Fork` takes
the first free slot, as `new_pid` does, that of a killed philosopher included; so
two seats may come to have one philosopher. With no slot free, the seat keeps the
child and pipe it had, at first 0 and 0, to which the waiter sends in vain. A seat has
a child (`child_id`) and a pipe (`child_pipe`, named by the process at its other end),
and a signal arrives only if they fit (`Matched`), as `find_buffer` finds nothing
otherwise. Pipe 0, which a seat has that never had another, may by chance be the
child's, whose it is depending on who made the first pipe: `Tell` allows both.

`Kill` ends a philosopher; its pipe stays. `KillWaiter` ends P6, wherever it is, and
`Launch` starts it again from the console, in the slot it had. All its variables are
global and stay as they were: `first_index`, perhaps with its modulo not yet taken, the
chopsticks, the children; the philosophers stay as well. What `fork` returned (`res`) is
local and goes: between the fork and the assignments after it a kill leaves the seat
with its old child, or with the new one and the old pipe (`LeftIds`). A child that was
not greeted by then never is. If the restarted waiter finds the table full, the seat
keeps this child and tells it to eat or think, `INIT` or not: `greeting` keeps track of
who can still expect `INIT`, and `ReadyOnce` says of the others that it never comes.

The model leaves out: a second waiter at the same time, or in another slot; other
programs that come and go in the philosophers' slots.

### Console

`ReadLine` and `FirstToken` are the head of the console's loop. A process that
carries out a command collects the tokens it needs one by one (`NextToken`) and then
makes its call (`Exec`, `Kill`, `Open`, `FileCommand`). `Fork` adds a child, which
collects the tokens of `load` from the same `rest`: where `strtok` is, one variable
for all. When a new line arrives, an old position may lie anywhere in it. `itoa`
is the set of characters it writes, by their offset from the buffer's start, which
may be negative; `printed` is the string found there afterwards.

The kernel's side is external: `open` returns any descriptor, `fork` may fail. The
model leaves out: lines of 1024 characters and more; pieces of words, when a
position falls into the middle of one; `gets` and `strtok` preempted half-way;
what happens at address 0, where a program of unknown name is started.

### Compute, Weights and Programs

Pure functions: `is_prime`, `gcd` and `weight` as operators, next to what a prime, a
common divisor and a number of bits are. `weight` has a module of its own, as the prover
does not know the module for its masks, `Bitwise`. Nothing guards a user stack, and `gcd` calls
itself for every subtraction; `Depth` says how often. The main loops pass numbers in
ascending order and drop the results, so they have no state worth a variable, and the
properties are formulas without one. `Programs` puts them next to the console, which
starts these programs; they are evaluated once, in the initial state.

## 3. What the runs check

| Run | Expectation | Question |
|---|---|---|
| `traps` | passes | Does each call reach the kernel function meant, with its caller's arguments, and its answer the caller, wherever the timer interrupts, in the reset handler too; do programs stay in user mode; do ticks keep coming, and programs running between them? |
| `scheduler` | passes | Is the running process one that runs, do contexts, stacks and priorities keep their owners, does `fork` make the child it reports, does that child run next, and does every running process get the processor again or terminate? |
| `scheduler_stacks` | finds `StacksInRegion` violated | Do stacks stay in the region `image.ld` reserves? |
| `ipc_pairs` | passes | Is the pipe table a mailbox per pair? |
| `ipc_full_table` | finds `EstablishedPipesKept` violated | What does `make_pipe` do when no pipe is left? |
| `files` | passes | Have blocks one owner, and do contents and names survive failing accesses to the disk and a restart? |
| `files_reboot` | finds `BlocksKeptForever` violated | Do they keep their owner after a restart? |
| `files_read` | finds `ReadsAllOfN` violated | Does a read return all it is asked for? |
| `disk_link` | passes | Do driver and server stay in step and make an array of blocks, when the line is noisy, writes are short and the server comes and goes? |
| `philosophers` | passes | Does everyone get a turn, apart from its neighbours, and do signals keep coming in order, when sends are refused, slots run out and are used again, and philosophers and waiters are killed? |
| `console` | passes | Does every line lead to the call it asks for, if the user waits for programs to start, and can a descriptor be typed as it was printed? Do P3 to P5 compute what they should, and does `gcd` stay on its stack? |
| `console_open` | finds `OpenShowsDescriptor` violated | Does `open` always show the descriptor? |

A passing run checks that each property can fail: for every property
`PROJECT.json` names a mutant of a definition with which TLC finds it violated.

### Bounds

- *Traps.* Two slots, so that each process can be interrupted by the other, forked,
  ended and killed, and forks fail. The console uses the stubs of `console.c` and
  `cat.c`, the other process those of `P6.c` to `P8.c` that take up to four
  parameters. `elapsed` bounds nothing but says that the timer's period, 2^20 of its
  ticks, is longer than a handler: some instruction runs between two ticks.
- *Scheduler.* Three slots (30 in the code): the console, a process and its child,
  so that a slot can be reused while its former child or parent still runs.
  Priorities 1 and 3, one below and one above the console's 2. `FORK_PRIORITY` is
  above any priority a process reaches by waiting, as 4194304 is in the code for
  priorities a user would type; `exec` takes larger ones too, with which
  `ChildRunsNext` does not hold (try `FORK_PRIORITY` 16 and `Priorities` {1, 20}).
  `PRIO_MOD` stands for 2^32. That the runs reach neither bound is what `AgesInOrder`
  checks, and `RunsAgeSlowly` that they meet the condition under
  which it is proved. `TOS_BOUND` bounds the number of forks
  (five stacks: two more than there are slots, so that slots are reused twice).
- *Pipes.* Three processes, two pairs that share one of them, two pipes, two
  signals. `ipc_full_table` has one pipe (105 in the code).
- *Files.* Two records, four blocks of two characters, texts of one and three
  characters: a call stays in its block, fills it exactly, or runs over two blocks
  that it fills. One access to the disk fails, a write or a read at boot, and the
  machine stops once, at any step. A record keeps one character of a name (15 in the
  code): two names fit, the third is longer and cut to one of them. Reads ask for up to six characters, one more than the longest file has that
  spans three blocks.
- *Disk link.* Two blocks, so that the wrong one could be written, and an address
  beyond them; two contents for each half; three attempts as in the code; the
  server ends twice, so that one call can see it end and another find it away.
- *Philosophers.* Three seats (16 in the code). As chopsticks are only returned at
  the end of a round, what matters is where a round begins, and a last seat whose
  neighbour is the first. With an odd number the last seat finds one chopstick
  gone. Two free slots: the third fork fails unless somebody was killed, and then uses
  a slot again. P6 is started again once.
- *Console.* One child between `fork` and `exec` at a time, next to the console,
  which may type ahead any number of lines: more than one such child needs a user
  who types ahead, and of that user nothing is claimed. Lines of every command,
  complete and not; descriptors of one, two and nine digits, 0 and -1.
- *Compute.* All pairs of numbers of P4's loops; for P3 the numbers up to 20^2 and three at
  the upper end of its loop, 251^2 among them, the last square of a prime; for P5
  single bits, runs of bits and a hundred patterns. A call of `gcd` takes 8 bytes of
  stack (`CALL_FRAME`: the return address and a register that keeps the stack
  aligned), the frame of `main_P4` at most 64; 5000 are there.

### Fairness

In `traps`, `FairSpec` assumes weak fairness of the processor, which goes on executing
or taking interrupts, and of the timer, which is periodic (`hilevel.c:11-15`). Which
process the scheduler picks, and what a program does, is not assumed.

In `scheduler`, `FairSpec` assumes weak fairness of `Timer` alone: the timer is periodic
(`hilevel.c:11-15`), user code runs with interrupts enabled (`cpsr` is 0x50), and
a handler always ends. No program is assumed ever to make a system call.

`disk_link` assumes weak fairness of `Driver` and of `Server`: the machine goes on,
and so does a server that is up. `Stop` and `Launch` are not fair. When the server
goes away while the driver waits for an answer, the kernel waits for good: a state
without a next step that the real system has too, hence `CHECK_DEADLOCK FALSE`.

`philosophers` assumes weak fairness of the waiter and of each philosopher while it
lives: every running process gets the processor again (`NoStarvation`, which run
`scheduler` checks), and none of their calls blocks. That somebody starts a killed
waiter again is not assumed. That a philosopher's signal keeps coming needs no strong
fairness, although the waiter may overtake it any number of times: the pipe keeps a
signal until it is received.

All other runs are safety runs under `Spec`.

### Disagreements between code and documentation

The five violation runs above, with the sentence of the repository each refutes,
are the findings in `PROJECT.json` (`scheduler_stacks`, `ipc_full_table`,
`files_reboot`, `files_read`, `console_open`).

## 4. What is proved

All theorems are for arbitrary constants (table sizes, programs, texts, number of
failures and restarts), subject to the named assumptions next to the constants.

**TrapsProofs.** `UserOnlyAlways` rests on `IInv`, which says that the system is in
one of three states. In `ResetState` nothing is set up. In `BootState` only the console
runs and the processor is at the end of the reset handler, in SVC mode, with what it
has loaded so far from `frame`. In `UserState` slot 0 and the running slot run, and
each running process is well placed by the context it goes on with: in user mode, and
at instruction n of a stub with its first n parameters in the registers. A tick may
save the context of the reset handler only while the console runs alone, so
`scheduler_run` goes back to it and to nothing else; it stays in slot 0 until the next
tick, and only the running slot may be stale in this way. `exec` does go on with a
saved context that may be stale, hence the conjunct that those of all processes but
the console, which never calls it, are in user mode.

`TrapsImplementProcesses` follows from `IInv` step by step: a
tick, a `Call` that only loads registers and the steps of the reset handler before
the last one change no process as `Processes` sees it; `Reset` is `Boot`; each case of
the switch is the `Perform` of the call its number stands for, since the registers it
reads are those the stub loaded.

**SchedulerProofs.** `TypeCorrect` is inductive by itself. `PidsCorrect`: a slot's
pid is 0 or its own number and the running slot's pid is its number
(`PidsMatchSlots`), which `update_priority` needs, as it skips the slot numbered
like the running process's pid. `ContextsIsolated` is an action property and
follows from types, action by action. `StacksNeverShared` needs a stronger
invariant: every stack pointer in use, or saved in the slot of a running process,
lies above `current_tos_user`, so that the next one handed out is new.
`CurrentAlwaysRunning` and `ForkAlwaysMakesChild` hold under `ConsoleSafe`: nobody
kills pid 0, only the console calls `kill` and never `exit`, and no program loads
the console's image. The invariant is that slot 0 and the running slot run, that
the live image of slot 0 is the console's and not in the child's branch, that
running slots hold images, and that any other running slot with the console's image
is a child between `fork` and `exec`. Without the assumption both are false:
after "kill 0" the next `exit` gives the processor to the stopped console.
`ChildRunsNextInOrder` says what the promise of `fork` rests on (scheduler.c:93): from
`ConsoleSafe` and `[]AgesInOrder`, that nobody but a child of `fork` has aged up to
`FORK_PRIORITY` and no sum wraps, `ChildRunsNext` follows for all constants. Children that
wait run and have at least `FORK_PRIORITY` (`BoostInv`).

`AgesStayInOrder` proves `AgesInOrder` itself, for every behaviour of any length. How old a
process gets is not bounded by the priorities alone: it waits for others that get older
too. The invariant (`AgeInv`) ranks the slots, each with a rank of its own and the running
one with 0 (`Rankings`): a process that waits at rank r is no older than (r + D) times the
highest priority P, where D counts the times a child just forked was picked. When the
oldest process is picked it goes to rank 0, and those ranked below it move up by one, which
makes room for the P they age by; those above it keep their ranks, as they are no older than
the one picked (`PickedIsOldest`, `OldestPicked`). When a child of `fork` is picked it
trades ranks with the process it interrupts, and D grows (`ChildPicked`). Each such time belongs to one fork, and each fork has
taken one stack (`ForksCounted`), so D is at most the number F of stacks there are. The
condition is then on the constants alone (`SlowAging`): (`TABLE_SIZE` + F) P stays below
`FORK_PRIORITY`, and `FORK_PRIORITY` + F P below 2^32. With the 30 slots of the code, the 95
stacks of the region of `image.ld` and `FORK_PRIORITY` 2^22 it holds for priorities up to
about 33000. (The code does not stop forking when the region is used up, which
`scheduler_stacks` shows; what is proved is for as long as it is not.) `ChildAlwaysRunsNext`
puts the two together: nothing is assumed of the behaviour any more.

**IpcProofs.** `OnePipePerPair` needs no room in the table: a pipe is set up only for
a pair that has none, even when it takes pipe 0 from another (`PairInv`). The rest
needs it. Under `EnoughPipes` (at least as many pipes as pairs), the invariant
`IpcInv` says that active pipes belong to known pairs, one each, that ids in hand
name the pipe of their pair, and that at most one buffer of a pipe is full. That a
free pipe exists when a new pair asks for one is a pigeon-hole argument over the
pairs that have a pipe. `HandlesStayValid`, `PipesKept`, `AlwaysOneInFlight` and the
refinement `PipesRefineMailbox` follow; without the assumption they are false
(`ipc_full_table` shows it for the property of `PipesKept`).

**FilesProofs.** `FilesTypeCorrect` needs to know which block the call in progress
is at (`OpOK`). `BlocksNeverShared` rests on `IInv`: until the first restart no two
pointers, of records or of full blocks, lead to one block (`OneOwner`), none leads
to a block at or beyond the header (`FreeBeyondHeader`), the block `file_open`
took is still free (`PendingFree`), and nothing is in use before boot is through
(`Fresh`). Failing writes do not disturb it, as allocation counts in memory.

`NamesStayUnique` needs the disk: as long as no access to it fails, memory holds the
records the disk has (`RecordsSaved`), which boot then reads back whole (`FullLoad`);
those with a name that no longer one is cut to have distinct names (`DistinctNames`);
and the name `file_open` did not find, if it is kept whole, is still unused when it is
stored (`NameFree`). Without the exception for `CutNames` it is false, with no failure at
all: every `open` of a longer name adds a record.

`WhatIsWrittenIsKept` and `ReadsStartOfFile` are about chains of blocks of any length.
Following a chain in an invariant would make every step an induction; instead
`LabelsOK` says what each block knows: there are labels (`own`, the file a block belongs
to, `pos`, its place in the chain, `pre`, the characters before it) that agree from a
block to its `next`, and at the last block with the record's `no_of_blocks`, with what
the call in progress has still to write, and with `written`. A step changes the label of
one block at most, the one just allocated. That pointers go to higher addresses
(`Forward`) is what the inductions along a chain descend on. They are over sets of
numbers, from `NatLessThanWellFounded`, and the recursive functions that `Content` and
`FileRead` are have to be shown to exist in the same way.

`FilesSurviveRestart` carries the labels over to the disk. `SavedInv` says that without
failed writes all blocks are on the disk, except that the block that has just been
filled is there as it was; `AckedOK` and `NotYetSaved` say that all characters of calls
that have returned are in blocks the record on the disk counts. So at a crash the disk is
labelled (`DiskInOrder`), the blocks of a file are those its record counts, perhaps one
less than its chain has, and what `file_disk_load` follows (`Loads`) is the chain from its
start. The last block it finds may be full with a `next` that is not loaded; that is
why what a restart keeps is a start of `written` no shorter than `acked`, and not all
of `written`.

**DiskLinkProofs.** `InStep` needs more than itself: an answer under way is a
refusal, or an acknowledgement of a call that was carried out (`Acknowledges`, in
`Synchronous`). From that, `LinkImplementsBlockStore` follows step by step: only
`Receive` and `GiveUp` end a call, only `wr` and `Stop` touch the image.
`FailuresHaveCause` rests on `Accounted`: attempts used up, and the noise still to
come, are never more than the faults so far and one. The noise costs one attempt
per connection, and each connection after the first is paid for by the end of the
server before it.

**PhilosophersProofs.** The types need bounds on the waiter's index (`IndexInv`):
each waiter that is killed between the increment of `first_index` and its modulo leaves
it one further out. (The first attempt to prove them showed that `TypeOK` had stated a
bound that more restarts than the run makes would break; it now states the bound proved.)
`NeighboursStayApart` rests on `EatersHold`: both chopsticks of whoever was told to eat
are gone until the round ends, and between rounds nobody is told. The order of signals,
`GreetedOnce`, rests on `GreetInv`. A pipe holds one signal (`OneSignal`). Of a slot that
was never used nobody knows, and its pipe is empty (`UnusedInv`). A philosopher in such a
slot that waits for its first signal is the one the waiter is about to greet, with an
empty pipe, or has `INIT` in its pipe (`DueInv`), so the greeting cannot be refused; one
that had it, or whose waiter was killed before the greeting, is not being greeted, and no
`INIT` is on its way to it (`DoneInv`, `KillGreets`). Only the process that `res` holds is
being greeted (`GreetedInv`), its seat with the right child and the right pipe once
`make_pipe` is through.

**ConsoleProofs.** `LinesDoWhatTheyAsk` is about any lines. What a line asks for is said
by the places of its words (`Asked`), without `strtok`; that the table of calls a run has
(`Expected`) agrees is the assumption `ExpectedAssumption`, which TLC evaluates. The
invariant says that while the user waits only one process takes tokens, the console or
its child (`OneTaker`), and that its arguments are the tokens gone since the line was
read, and `rest` is what follows them (`InOrder`). `fork` hands both over to the child:
it has taken none, and the position is behind the first word. `ConsoleTypeCorrect` needs
that the text of several words is a sequence of characters, an induction on their
number. `ShownAlwaysReadsBack` is about the digits: for every descriptor of up to nine
digits (`DescriptorAssumption`; addresses of blocks have fewer), where the loop that counts
digits stops is where the first digit goes (`WidthFacts`), the digits are those of the
number (`Magnitude`, `Shown`), and `atoi`, which multiplies by ten and adds, has read after
k of them the number without its last digits (`ReadsBack`, an induction on k). That the
recursive functions `read` and `tens` exist is proved first (`ReadDefined`, `Tens`).

**ComputeProofs.** `ProgramsComputeRight` is for all numbers of the main loops, of which the
runs try some (`ComputeAssumption`). P3: of two factors of an odd number that is not prime
the smaller one is odd, and at most the root (`SmallerFactor`, `CompositeSeen`). P4:
subtracting keeps the common divisors (`Subtracted`, from `DividesSum`), so by induction on
the sum of the two numbers `gcd` is the greatest; and with each call the larger of the two
shrinks, so calls nest no deeper than the larger number says, at most 255
(`Computed`). `RoomAssumption` says that so many frames fit on the stack: 2104 of 5000
bytes with the sizes below "Bounds". That the recursive functions exist is, here too, a
lemma (`CallsDefined`). What is divisible by what is proved from the definition of `\div`
alone (`Multiple`, `Factor`).

**Only model-checked:** `TicksKeepComing`, `ProgramsGoOn`, `NoStarvation`, `CallReturns`,
`EveryoneGetsTurn` and `SignalsKeepComing` (liveness under fairness, which the prover does
not do), and `CountsBits` (the masks of `weight` are operators of `Bitwise`, which the
prover does not know). All other properties of the passing runs are theorems.

## 5. Not modelled

- `int_init`, which copies the vector table to address 0, the functions for fast
  interrupts, which nobody calls, and an interrupt from a source other than the
  timer, as no other is enabled.
- Device drivers but for the timer and the interrupt controller (`Traps`) and the
  characters of the disk's line (`DiskLink`): register maps, and code for a display, a
  keyboard and the memory management unit that nobody calls. Build files.
- `cat` reads 5000 characters into a literal of one; what that destroys depends on the
  image.
- That a failed write leaves half a block behind (`DiskLink` shows it may) is not
  carried over to `Files`: of the disk's content after a failed write nothing is
  claimed there.

## 6. Plan

Done: `Traps` with `Processes`, `Scheduler`, `Ipc` with `Mailbox`, `Files`, `DiskLink`
with `BlockStore`, `Philosophers`, `Console` and `Compute`, each with its proofs, and
`Weights`.
Left, in this order:

1. `Files` with closed descriptors.
2. The whole system call path: pids that come and go (`Scheduler`) under the pipes
   made between them (`Ipc`), in one composition.
