----------------------------- MODULE Scheduler -----------------------------
(***************************************************************************)
(* The process table of the kernel and its scheduler: kernel/scheduler.c,  *)
(* reached through the supervisor-call and timer handlers of               *)
(* kernel/hilevel.c.  Handlers run with interrupts masked, so one handler  *)
(* is one action; between two handlers any other may run.                  *)
(*                                                                         *)
(* A register context keeps what the scheduler can get wrong:              *)
(*   image   the program its pc lies in,                                   *)
(*   forked  whether pc is at the return of the fork() system call,        *)
(*   r0      the result register of the last system call,                  *)
(*   sp      the top of the stack the process was given.                   *)
(***************************************************************************)
EXTENDS Integers

CONSTANTS
  TABLE_SIZE,        \* slots of the process table
  FORK_PRIORITY,     \* priority_curr of a child that was just forked
  PRIO_MOD,          \* 2^32: priorities are uint32_t
  STACK_SIZE,        \* bytes set_user_stack hands out
  TOS_USER,          \* address of tos_user
  STACK_REGION,      \* bytes image.ld sets aside below tos_user for user stacks
  TOS_BOUND,         \* model bound: no fork once the stack pointer is here
  Images,            \* programs linked into the kernel image
  Console,           \* the image of main_console
  NULL,              \* the zeroed pc of a slot that was never used
  Calls,             \* image -> the system calls its code makes
  Loads,             \* image -> the images its code passes to exec
  Priorities,        \* priorities passed to exec
  ExitCodes,         \* status codes passed to exit
  KillPids           \* pids passed to kill; -1 is "all"

Slots == 0 .. TABLE_SIZE - 1
Prios == 0 .. PRIO_MOD - 1
SysCalls == {"yield", "fork", "exit", "kill"}

ASSUME TableAssumption == TABLE_SIZE \in Nat /\ TABLE_SIZE > 0
ASSUME PriorityAssumption ==
  /\ PRIO_MOD \in Nat /\ 2 < PRIO_MOD
  /\ FORK_PRIORITY \in Prios \ {0}
  /\ Priorities \subseteq Prios
ASSUME StackAssumption ==
  /\ STACK_SIZE \in Nat /\ STACK_SIZE > 0 /\ STACK_REGION \in Nat
  /\ TOS_USER \in Int /\ TOS_BOUND \in Int
ASSUME ImageAssumption ==
  /\ Console \in Images /\ NULL \notin Images
  /\ Calls \in [Images -> SUBSET SysCalls]
  /\ Loads \in [Images -> SUBSET Images]
ASSUME ArgumentAssumption == ExitCodes \subseteq Int /\ KillPids \subseteq Int

VARIABLES
  pcb,               \* pcb[ TABLE_SIZE ]
  current,           \* the slot `current` points at
  ctx,               \* the registers of the running process
  current_tos_user,  \* where the next stack starts
  undispatched       \* history: children forked and not yet given the processor

vars == <<pcb, current, ctx, current_tos_user, undispatched>>

Context == [image : Images \cup {NULL}, forked : BOOLEAN, r0 : Int, sp : Int]
Pcb == [pid : Slots, pid_parent : Slots, ctx : Context, running : BOOLEAN,
        priority_init : Prios, priority_curr : Prios]

TypeOK ==
  /\ pcb \in [Slots -> Pcb]
  /\ current \in Slots
  /\ ctx \in Context
  /\ current_tos_user \in Int
  /\ undispatched \subseteq Slots

----------------------------------------------------------------------------
(* scheduler_initialise *)

Regs(image, forked, r0, sp) ==
  [image |-> image, forked |-> forked, r0 |-> r0, sp |-> sp]

ZeroContext == Regs(NULL, FALSE, 0, 0)
ZeroPcb == [pid |-> 0, pid_parent |-> 0, ctx |-> ZeroContext, running |-> FALSE,
            priority_init |-> 0, priority_curr |-> 0]

ConsoleContext == Regs(Console, FALSE, 0, TOS_USER)
ConsolePcb == [pid |-> 0, pid_parent |-> 0, ctx |-> ConsoleContext, running |-> TRUE,
               priority_init |-> 2, priority_curr |-> 2]

Init ==
  /\ pcb = [i \in Slots |-> IF i = 0 THEN ConsolePcb ELSE ZeroPcb]
  /\ current = 0
  /\ ctx = ConsoleContext
  /\ current_tos_user = TOS_USER - STACK_SIZE
  /\ undispatched = {}

----------------------------------------------------------------------------
(* scheduler_run: age every waiting process, pick the highest priority *)

\* Wrong on purpose: the running process keeps its priority.
UpdateWithoutReset(i) ==
  IF pcb[i].running THEN (pcb[i].priority_curr + pcb[i].priority_init) % PRIO_MOD
                    ELSE pcb[i].priority_curr

\* Wrong on purpose: a process that waits does not move up.
UpdateWithoutAging(i) ==
  IF i = current THEN pcb[i].priority_init ELSE pcb[i].priority_curr

\* priority_curr of slot i after update_priority
UpdatedPriority(i) ==
  IF i = current THEN pcb[i].priority_init
  ELSE IF i # pcb[current].pid /\ pcb[i].running
       THEN (pcb[i].priority_curr + pcb[i].priority_init) % PRIO_MOD
       ELSE pcb[i].priority_curr

AgedTable == [i \in Slots |-> [pcb[i] EXCEPT !.priority_curr = UpdatedPriority(i)]]

\* Wrong on purpose: a slot that no longer runs can be picked.
NextPidIgnoresRunning(t, n) ==
  n \in Slots /\ \A j \in Slots : \/ t[j].priority_curr < t[n].priority_curr
                                  \/ t[j].priority_curr = t[n].priority_curr /\ n <= j

\* n is what next_pid returns on table t: the first slot of highest positive
\* priority, and slot 0 when there is none
IsNextPid(t, n) ==
  LET ready == {i \in Slots : t[i].running /\ t[i].priority_curr > 0}
  IN  \/ ready = {} /\ n = 0
      \/ /\ n \in ready
         /\ \A j \in ready : \/ t[j].priority_curr < t[n].priority_curr
                             \/ t[j].priority_curr = t[n].priority_curr /\ n <= j

\* Wrong on purpose: the two context copies are swapped.
DispatchBeforeSave(old, n) ==
  /\ pcb' = [AgedTable EXCEPT ![current].ctx = pcb[n].ctx]
  /\ ctx' = pcb[n].ctx

\* save the interrupted context `old`, load that of slot n
SwitchContext(old, n) ==
  /\ pcb' = [AgedTable EXCEPT ![current].ctx = old]
  /\ ctx' = IF n = current THEN old ELSE pcb[n].ctx

scheduler_run(old) ==
  \E n \in Slots :
    /\ IsNextPid(AgedTable, n)
    /\ SwitchContext(old, n)
    /\ current' = n
    /\ undispatched' = undispatched \ {n}
    /\ UNCHANGED current_tos_user

\* hilevel_handler_irq: the periodic timer interrupts user code anywhere
Timer == scheduler_run(ctx)

----------------------------------------------------------------------------
(* System calls.  A process whose fork() returned 0 takes the child's branch, *)
(* whose only system call is exec (console.c, P6.c).                          *)

InChild == ctx.forked /\ ctx.r0 = 0
MayCall(c) == ~InChild /\ c \in Calls[ctx.image]

\* the registers of the caller once its system call has returned r
Returning(r) == Regs(ctx.image, FALSE, r, ctx.sp)
ForkReturning(r) == Regs(ctx.image, TRUE, r, ctx.sp)

Yield ==
  /\ MayCall("yield")
  /\ scheduler_run([ctx EXCEPT !.forked = FALSE])

\* n is what new_pid returns: the lowest slot that is not running
IsNewPid(n) ==
  /\ n \in Slots
  /\ ~pcb[n].running
  /\ \A j \in Slots : j < n => pcb[j].running

\* Wrong on purpose: the child inherits the parent's current priority.
ChildWithoutBoost(n) ==
  [pid |-> n, pid_parent |-> pcb[current].pid, running |-> TRUE,
   ctx |-> Regs(ctx.image, TRUE, 0, current_tos_user),
   priority_init |-> pcb[current].priority_init,
   priority_curr |-> pcb[current].priority_curr]

\* Wrong on purpose: the child keeps its parent's stack pointer.
ChildOnParentStack(n) ==
  [pid |-> n, pid_parent |-> pcb[current].pid, running |-> TRUE,
   ctx |-> ForkReturning(0),
   priority_init |-> pcb[current].priority_init, priority_curr |-> FORK_PRIORITY]

\* Wrong on purpose: pid_parent is copied from the parent with the rest.
ChildOfGrandparent(n) ==
  [pid |-> n, pid_parent |-> pcb[current].pid_parent, running |-> TRUE,
   ctx |-> Regs(ctx.image, TRUE, 0, current_tos_user),
   priority_init |-> pcb[current].priority_init, priority_curr |-> FORK_PRIORITY]

\* Wrong on purpose: pids are counted from one.
ChildPidFromOne(n) ==
  [pid |-> n + 1, pid_parent |-> pcb[current].pid, running |-> TRUE,
   ctx |-> Regs(ctx.image, TRUE, 0, current_tos_user),
   priority_init |-> pcb[current].priority_init, priority_curr |-> FORK_PRIORITY]

\* the table entry scheduler_fork builds in slot n: the rest is a copy of the parent
ChildPcb(n) ==
  [pid |-> n, pid_parent |-> pcb[current].pid, running |-> TRUE,
   ctx |-> Regs(ctx.image, TRUE, 0, current_tos_user),
   priority_init |-> pcb[current].priority_init, priority_curr |-> FORK_PRIORITY]

Fork ==
  /\ MayCall("fork")
  /\ current_tos_user > TOS_BOUND
  /\ UNCHANGED current
  /\ \/ \E n \in Slots :
          /\ IsNewPid(n)
          /\ pcb' = [pcb EXCEPT ![n] = ChildPcb(n)]
          /\ ctx' = ForkReturning(n)
          /\ current_tos_user' = current_tos_user - STACK_SIZE
          /\ undispatched' = undispatched \cup {n}
     \/ /\ \A i \in Slots : pcb[i].running
        /\ ctx' = ForkReturning(-1)
        /\ UNCHANGED <<pcb, current_tos_user, undispatched>>

\* the table entry scheduler_exec leaves: of the saved context only pc changes
ExecPcb(image, priority) ==
  [pid |-> pcb[current].pid, pid_parent |-> pcb[current].pid_parent,
   running |-> pcb[current].running,
   ctx |-> Regs(image, FALSE, pcb[current].ctx.r0, pcb[current].ctx.sp),
   priority_init |-> priority, priority_curr |-> priority]

\* the registers are reloaded from the table, so the caller's own are dropped
Exec(image, priority) ==
  /\ InChild
  /\ image \in Loads[ctx.image]
  /\ pcb' = [pcb EXCEPT ![current] = ExecPcb(image, priority)]
  /\ ctx' = ExecPcb(image, priority).ctx
  /\ UNCHANGED <<current, current_tos_user, undispatched>>

\* the slots of S are no longer running; nothing else of them changes
Stop(S) == [i \in Slots |-> [pcb[i] EXCEPT !.running = @ /\ i \notin S]]

\* Wrong on purpose: slot 0 becomes current and its context is not loaded.
ExitWithoutLoad(code) ==
  /\ MayCall("exit")
  /\ code = 0
  /\ pcb' = Stop({current})
  /\ current' = 0
  /\ UNCHANGED <<ctx, current_tos_user, undispatched>>

\* exit(0) hands the processor to slot 0; any other status just returns
Exit(code) ==
  /\ MayCall("exit")
  /\ \/ /\ code = 0
        /\ pcb' = Stop({current})
        /\ current' = 0
        /\ ctx' = pcb[0].ctx
        /\ undispatched' = undispatched \ {0}
     \/ /\ code # 0
        /\ ctx' = [ctx EXCEPT !.forked = FALSE]
        /\ UNCHANGED <<pcb, current, undispatched>>
  /\ UNCHANGED current_tos_user

\* i is the first slot whose pid is p
IsSlotOf(p, i) == pcb[i].pid = p /\ \A j \in Slots : j < i => pcb[j].pid # p

\* Wrong on purpose: kill all stops the console as well.
KilledWithConsole(p) ==
  IF p = -1 THEN Slots ELSE {i \in Slots : IsSlotOf(p, i)}

\* the slots kill(p, sig) stops: none when no slot ever had pid p
Killed(p) ==
  IF p = -1 THEN {i \in Slots : pcb[i].pid # 0} ELSE {i \in Slots : IsSlotOf(p, i)}

Kill(p) ==
  /\ MayCall("kill")
  /\ pcb' = Stop(Killed(p))
  /\ ctx' = Returning(IF p # -1 /\ Killed(p) = {} THEN 1 ELSE 0)
  /\ undispatched' = undispatched \ Killed(p)
  /\ UNCHANGED <<current, current_tos_user>>

----------------------------------------------------------------------------

Next ==
  \/ Timer
  \/ Yield
  \/ Fork
  \/ \E image \in Images, priority \in Priorities : Exec(image, priority)
  \/ \E code \in ExitCodes : Exit(code)
  \/ \E p \in KillPids : Kill(p)

Spec == Init /\ [][Next]_vars

(* The timer is periodic and user code runs with interrupts enabled, so a  *)
(* tick always comes.  Nothing obliges a program to make a system call.    *)
FairSpec == Spec /\ WF_vars(Timer)

----------------------------------------------------------------------------
(* Properties *)

\* the registers of process i, whether it runs now or waits in the table
LiveContext(i) == IF i = current THEN ctx ELSE pcb[i].ctx

(* The running process is one the table calls running: no exit, kill or    *)
(* scheduling decision leaves the processor with a terminated process      *)
(* (scheduler_exit hands over to slot 0 without looking at it, and         *)
(* next_pid falls back to slot 0).                                         *)
CurrentRunning == pcb[current].running

(* No two processes that run share a stack, whatever slots were reused and *)
(* wherever their contexts were saved (set_user_stack, scheduler_fork).    *)
StacksDisjoint ==
  \A i, j \in Slots :
    i # j /\ pcb[i].running /\ pcb[j].running => LiveContext(i).sp # LiveContext(j).sp

(* When the scheduler runs next, no sum of update_priority will wrap        *)
(* uint32_t, so a process that waits moves up and next_pid compares true    *)
(* ages; and nobody has waited long enough to come before a child of fork   *)
(* that has not run yet.                                                    *)
AgesInOrder ==
  \A i \in Slots :
    pcb[i].running =>
      /\ i # current => pcb[i].priority_curr + pcb[i].priority_init < PRIO_MOD
      /\ i \notin undispatched => UpdatedPriority(i) < FORK_PRIORITY

(* What keeps ages in order.  P is the highest priority and F the number of  *)
(* forks there is stack for: together they leave FORK_PRIORITY out of reach  *)
(* of whoever waits, and the children of fork below the end of uint32_t.     *)
SlowAging(P, F) ==
  /\ P \in Nat /\ 2 <= P /\ \A p \in Priorities : p <= P
  /\ F \in Nat /\ TOS_USER - (F + 1) * STACK_SIZE <= TOS_BOUND
  /\ (TABLE_SIZE + F) * P < FORK_PRIORITY
  /\ FORK_PRIORITY + F * P < PRIO_MOD

(* The registers of a process change only while it has the processor, and  *)
(* losing the processor keeps them: the two memcpy of scheduler_run and    *)
(* the reload in scheduler_exit neither mix nor lose contexts.             *)
ContextIsolation ==
  [][\A i \in Slots :
       pcb[i].running /\ pcb'[i].running =>
         /\ i # current => LiveContext(i)' = LiveContext(i)
         /\ i = current /\ current' # current =>
              LiveContext(i)' \in {ctx, [ctx EXCEPT !.forked = FALSE]}]_vars

(* Every fork that hands out a stack makes a second process: the parent    *)
(* gets a pid above 0 that is not its own, and in that slot a child of     *)
(* this parent is about to return 0 from the same fork.                    *)
ForkMakesChild ==
  [][current_tos_user' # current_tos_user =>
       /\ ctx'.r0 \in Slots \ {0, current}
       /\ LET child == pcb'[ctx'.r0]
          IN  /\ child.running /\ child.pid = ctx'.r0 /\ child.pid_parent = current
              /\ child.ctx.forked /\ child.ctx.r0 = 0]_vars

(* "priority high enough to ensure the child process is run next"          *)
(* (scheduler.c:93): while forked children wait for their first turn,      *)
(* every run of the scheduler picks one of them.                           *)
ChildRunsNext ==
  [][(Timer \/ Yield) /\ undispatched # {} => current' \in undispatched]_vars

(* No starvation: a running process gets the processor again or is         *)
(* terminated, however the others were prioritised (above 0).              *)
NoStarvation ==
  \A i \in Slots : pcb[i].running ~> (current = i \/ ~pcb[i].running)

(* The stack of a running process lies in "stack space for 15 user          *)
(* processes" (image.ld:18), a region with room for as many stacks as the   *)
(* table has slots.                                                         *)
StacksInRegion ==
  \A i \in Slots :
    pcb[i].running => LiveContext(i).sp - STACK_SIZE >= TOS_USER - STACK_REGION

=============================================================================
