-------------------------- MODULE SchedulerProofs --------------------------
(* What TLAPS proves of the scheduler for every table size, every set of     *)
(* programs and every argument the programs pass to the kernel.              *)
EXTENDS Scheduler, FiniteSets, FiniteSetTheorems, TLAPS

----------------------------------------------------------------------------
(* Membership lemmas: the records the handlers build have their types.       *)

(* Adding two priorities in a uint32_t gives a uint32_t. *)
LEMMA SumIsPriority ==
  ASSUME NEW a \in Prios, NEW b \in Prios
  PROVE  (a + b) % PRIO_MOD \in Prios
BY PriorityAssumption DEF Prios

(* The two kinds of slot Init fills the table with are table entries. *)
LEMMA InitialPcbs == ConsolePcb \in Pcb /\ ZeroPcb \in Pcb /\ ConsoleContext \in Context
<1>1. 0 \in Slots /\ 0 \in Prios /\ 2 \in Prios
  BY TableAssumption, PriorityAssumption DEF Slots, Prios
<1>2. ConsoleContext \in Context
  BY ImageAssumption, StackAssumption DEF ConsoleContext, Regs, Context
<1>3. ZeroContext \in Context
  BY DEF ZeroContext, Regs, Context
<1>4. ConsolePcb \in Pcb
  BY <1>1, <1>2 DEF ConsolePcb, Pcb
<1>5. ZeroPcb \in Pcb
  BY <1>1, <1>3 DEF ZeroPcb, Pcb
<1> QED BY <1>2, <1>4, <1>5

(* Aging keeps the type of the table. *)
LEMMA AgedTableType == TypeOK => AgedTable \in [Slots -> Pcb]
<1> SUFFICES ASSUME TypeOK, NEW i \in Slots
             PROVE  [pcb[i] EXCEPT !.priority_curr = UpdatedPriority(i)] \in Pcb
  BY DEF AgedTable
<1>1. pcb[i] \in Pcb
  BY DEF TypeOK
<1>2. pcb[i].priority_curr \in Prios /\ pcb[i].priority_init \in Prios
  BY <1>1 DEF Pcb
<1>3. (pcb[i].priority_curr + pcb[i].priority_init) % PRIO_MOD \in Prios
  BY <1>2, SumIsPriority
<1>4. UpdatedPriority(i) \in Prios
  BY <1>2, <1>3 DEF UpdatedPriority
<1> QED BY <1>1, <1>4 DEF Pcb

(* The fields of a typed context. *)
LEMMA ContextFields ==
  ASSUME NEW c \in Context
  PROVE  /\ c.image \in Images \cup {NULL} /\ c.forked \in BOOLEAN
         /\ c.r0 \in Int /\ c.sp \in Int
         /\ [c EXCEPT !.forked = FALSE] \in Context
BY DEF Context

(* A child is a table entry. *)
LEMMA ChildPcbType ==
  ASSUME TypeOK, NEW n \in Slots
  PROVE  ChildPcb(n) \in Pcb
<1>1. pcb[current] \in Pcb
  BY DEF TypeOK
<1>2. Regs(ctx.image, TRUE, 0, current_tos_user) \in Context
  BY ContextFields DEF TypeOK, Regs, Context
<1> QED BY <1>1, <1>2, PriorityAssumption DEF ChildPcb, Pcb

(* So is the entry exec leaves, and its context can be loaded. *)
LEMMA ExecPcbType ==
  ASSUME TypeOK, NEW image \in Images, NEW priority \in Priorities
  PROVE  ExecPcb(image, priority) \in Pcb /\ ExecPcb(image, priority).ctx \in Context
<1>1. pcb[current] \in Pcb /\ pcb[current].ctx \in Context
  BY DEF TypeOK, Pcb
<1>2. Regs(image, FALSE, pcb[current].ctx.r0, pcb[current].ctx.sp) \in Context
  BY <1>1, ContextFields DEF Regs, Context
<1> QED BY <1>1, <1>2, PriorityAssumption DEF ExecPcb, Pcb

(* One scheduling decision, whatever context it saves, keeps the types. *)
LEMMA SchedulerRunType ==
  ASSUME TypeOK, NEW old \in Context, scheduler_run(old)
  PROVE  TypeOK'
<1> PICK n \in Slots : SwitchContext(old, n) /\ current' = n
  BY DEF scheduler_run
<1>1. AgedTable \in [Slots -> Pcb]
  BY AgedTableType
<1>2. pcb' \in [Slots -> Pcb]
  BY <1>1 DEF SwitchContext, Pcb
<1>3. ctx' \in Context
  BY DEF SwitchContext, TypeOK, Pcb
<1>4. current_tos_user' \in Int /\ undispatched' \subseteq Slots
  BY DEF scheduler_run, TypeOK
<1> QED BY <1>2, <1>3, <1>4 DEF TypeOK

(* Stopping any set of slots keeps the type of the table. *)
LEMMA StopType == ASSUME TypeOK, NEW S PROVE Stop(S) \in [Slots -> Pcb]
<1> SUFFICES ASSUME NEW i \in Slots
             PROVE  [pcb[i] EXCEPT !.running = pcb[i].running /\ i \notin S] \in Pcb
  BY DEF Stop
<1>1. pcb[i] \in Pcb
  BY DEF TypeOK
<1>2. (pcb[i].running /\ i \notin S) \in BOOLEAN
  OBVIOUS
<1> QED BY <1>1, <1>2 DEF Pcb

(* Every handler keeps the types. *)
LEMMA TypeStep == TypeOK /\ [Next]_vars => TypeOK'
<1> SUFFICES ASSUME TypeOK, [Next]_vars PROVE TypeOK'
  OBVIOUS
<1> USE DEF TypeOK
<1>0. 0 \in Slots
  BY TableAssumption DEF Slots
<1>1. CASE Timer
  BY <1>1, SchedulerRunType DEF Timer
<1>2. CASE Yield
  <2>1. [ctx EXCEPT !.forked = FALSE] \in Context
    BY ContextFields
  <2> QED BY <1>2, <2>1, SchedulerRunType DEF Yield
<1>3. CASE Fork
  <2>1. \A r \in Int : ForkReturning(r) \in Context
    BY ContextFields DEF ForkReturning, Regs, Context
  <2>2. ASSUME NEW n \in Slots,
               pcb' = [pcb EXCEPT ![n] = ChildPcb(n)],
               ctx' = ForkReturning(n),
               current_tos_user' = current_tos_user - STACK_SIZE,
               undispatched' = undispatched \cup {n}
        PROVE  TypeOK'
    <3>1. ctx' \in Context
      BY <2>1, <2>2 DEF Slots
    <3>2. pcb' \in [Slots -> Pcb]
      BY <2>2, ChildPcbType
    <3>3. current_tos_user' \in Int
      BY <2>2, StackAssumption
    <3> QED BY <1>3, <2>2, <3>1, <3>2, <3>3 DEF Fork
  <2>3. CASE ctx' = ForkReturning(-1) /\ UNCHANGED <<pcb, current_tos_user, undispatched>>
    BY <1>3, <2>1, <2>3 DEF Fork
  <2> QED BY <1>3, <2>2, <2>3 DEF Fork
<1>4. ASSUME NEW image \in Images, NEW priority \in Priorities,
             Exec(image, priority)
      PROVE  TypeOK'
  BY <1>4, ExecPcbType DEF Exec
<1>5. ASSUME NEW code \in ExitCodes, Exit(code)
      PROVE  TypeOK'
  <2>1. pcb[0].ctx \in Context /\ [ctx EXCEPT !.forked = FALSE] \in Context
    BY <1>0, ContextFields DEF Pcb
  <2> QED BY <1>0, <1>5, <2>1, StopType DEF Exit
<1>6. ASSUME NEW p \in KillPids, Kill(p)
      PROVE  TypeOK'
  <2>1. Returning(0) \in Context /\ Returning(1) \in Context
    BY ContextFields DEF Returning, Regs, Context
  <2>2. ctx' \in Context
    BY <1>6, <2>1 DEF Kill
  <2> QED BY <1>6, <2>2, StopType DEF Kill
<1>7. CASE UNCHANGED vars
  BY <1>7 DEF vars
<1> QED BY <1>1, <1>2, <1>3, <1>4, <1>5, <1>6, <1>7 DEF Next

(* Every variable keeps its type for ever: a slot number stays inside the    *)
(* table and a priority inside uint32_t, whatever programs are loaded.       *)
THEOREM TypeCorrect == Spec => []TypeOK
<1>1. Init => TypeOK
  BY InitialPcbs, StackAssumption, TableAssumption DEF Init, TypeOK, Slots
<1> QED BY <1>1, TypeStep, PTL DEF Spec

----------------------------------------------------------------------------
(* What the handlers do to one slot, as facts the invariants below rest on.  *)

(* A scheduling decision dispatches a running slot (or falls back to slot 0) *)
(* and of the other slots changes nothing but the priority.                  *)
LEMMA SchedulerRunEffect ==
  ASSUME TypeOK, NEW old \in Context, scheduler_run(old)
  PROVE  /\ current' \in Slots
         /\ current' = 0 \/ pcb[current'].running
         /\ ctx' = IF current' = current THEN old ELSE pcb[current'].ctx
         /\ \A i \in Slots :
              /\ pcb'[i].pid = pcb[i].pid
              /\ pcb'[i].running = pcb[i].running
              /\ pcb'[i].ctx = IF i = current THEN old ELSE pcb[i].ctx
<1> PICK n \in Slots : IsNextPid(AgedTable, n) /\ SwitchContext(old, n) /\ current' = n
  BY DEF scheduler_run
<1>1. \A i \in Slots : /\ AgedTable[i].pid = pcb[i].pid
                       /\ AgedTable[i].running = pcb[i].running
                       /\ AgedTable[i].ctx = pcb[i].ctx
  BY DEF AgedTable, TypeOK, Pcb
<1>2. AgedTable \in [Slots -> Pcb]
  BY AgedTableType
<1>3. n = 0 \/ pcb[n].running
  BY <1>1 DEF IsNextPid
<1>4. \A i \in Slots :
        /\ pcb'[i].pid = AgedTable[i].pid
        /\ pcb'[i].running = AgedTable[i].running
        /\ pcb'[i].ctx = IF i = current THEN old ELSE AgedTable[i].ctx
  BY <1>2 DEF SwitchContext, Pcb
<1> QED BY <1>1, <1>3, <1>4 DEF SwitchContext

(* Stopping slots touches nothing but their running flags. *)
LEMMA StopEffect ==
  ASSUME TypeOK, NEW S, NEW i \in Slots
  PROVE  /\ Stop(S)[i].pid = pcb[i].pid
         /\ Stop(S)[i].ctx = pcb[i].ctx
         /\ Stop(S)[i].running <=> pcb[i].running /\ i \notin S
<1>1. pcb[i] \in Pcb
  BY DEF TypeOK
<1>2. Stop(S)[i] = [pcb[i] EXCEPT !.running = pcb[i].running /\ i \notin S]
  BY DEF Stop
<1>3. Stop(S)[i].running = (pcb[i].running /\ i \notin S)
  BY <1>1, <1>2 DEF Pcb
<1> QED BY <1>1, <1>2, <1>3 DEF Pcb

(* Yield saves the caller's registers past the return of the system call. *)
LEMMA YieldContext ==
  ASSUME TypeOK
  PROVE  LET old == [ctx EXCEPT !.forked = FALSE]
         IN  /\ old \in Context /\ old.sp = ctx.sp /\ old.image = ctx.image
             /\ old.forked = FALSE /\ old.r0 = ctx.r0
BY DEF TypeOK, Context

----------------------------------------------------------------------------
(* A process is found under its own pid.                                     *)

(* A slot holds its own number as pid, or 0 when it was never used; the      *)
(* process in a running slot and the current process are found by their pid. *)
PidsMatchSlots ==
  /\ \A i \in Slots : /\ pcb[i].pid \in {0, i}
                      /\ pcb[i].running => pcb[i].pid = i
  /\ pcb[current].pid = current

(* No handler puts a pid in a slot that is not its own. *)
LEMMA PidsStep == TypeOK /\ PidsMatchSlots /\ [Next]_vars => PidsMatchSlots'
<1> SUFFICES ASSUME TypeOK, PidsMatchSlots, [Next]_vars PROVE PidsMatchSlots'
  OBVIOUS
<1>0. 0 \in Slots /\ current \in Slots /\ ctx \in Context
  BY TableAssumption DEF Slots, TypeOK
<1>1. ASSUME NEW old \in Context, scheduler_run(old) PROVE PidsMatchSlots'
  BY <1>0, <1>1, SchedulerRunEffect DEF PidsMatchSlots
<1>2. CASE Fork
  <2>1. ASSUME NEW n \in Slots, pcb' = [pcb EXCEPT ![n] = ChildPcb(n)]
        PROVE  PidsMatchSlots'
    <3>1. ChildPcb(n).pid = n
      BY DEF ChildPcb
    <3>2. pcb'[n].pid = n /\ \A i \in Slots : i # n => pcb'[i] = pcb[i]
      BY <2>1, <3>1 DEF TypeOK
    <3> QED BY <1>0, <1>2, <3>2 DEF Fork, PidsMatchSlots
  <2> QED BY <1>2, <2>1 DEF Fork, PidsMatchSlots
<1>3. ASSUME NEW image \in Images, NEW priority \in Priorities, Exec(image, priority)
      PROVE  PidsMatchSlots'
  <2>1. /\ ExecPcb(image, priority).pid = pcb[current].pid
        /\ ExecPcb(image, priority).running = pcb[current].running
    BY DEF ExecPcb
  <2>2. \A i \in Slots : pcb'[i].pid = pcb[i].pid /\ pcb'[i].running = pcb[i].running
    BY <1>0, <1>3, <2>1 DEF Exec, TypeOK
  <2> QED BY <1>0, <1>3, <2>2 DEF Exec, PidsMatchSlots
<1>4. ASSUME NEW code \in ExitCodes, Exit(code) PROVE PidsMatchSlots'
  <2>1. CASE pcb' = Stop({current}) /\ current' = 0
    <3>1. \A i \in Slots : pcb'[i].pid = pcb[i].pid /\ (pcb'[i].running => pcb[i].running)
      BY <2>1, StopEffect
    <3> QED BY <1>0, <2>1, <3>1 DEF PidsMatchSlots
  <2>2. CASE UNCHANGED <<pcb, current>>
    BY <2>2 DEF PidsMatchSlots
  <2> QED BY <1>4, <2>1, <2>2 DEF Exit
<1>5. ASSUME NEW p \in KillPids, Kill(p) PROVE PidsMatchSlots'
  BY <1>0, <1>5, StopEffect DEF Kill, PidsMatchSlots
<1>6. CASE UNCHANGED vars
  BY <1>6 DEF vars, PidsMatchSlots
<1> QED
  BY <1>0, <1>1, <1>2, <1>3, <1>4, <1>5, <1>6, YieldContext DEF Next, Timer, Yield

(* kill, fork and get_pid name processes by pid: the name is right.          *)
THEOREM PidsCorrect == Spec => []PidsMatchSlots
<1>1. Init => PidsMatchSlots
  BY TableAssumption DEF Init, PidsMatchSlots, ConsolePcb, ZeroPcb, Slots
<1> QED BY <1>1, PidsStep, TypeCorrect, PTL DEF Spec

----------------------------------------------------------------------------
(* Contexts.                                                                 *)

(* The step form of ContextIsolation. *)
Isolated ==
  \A i \in Slots :
    pcb[i].running /\ pcb'[i].running =>
      /\ i # current => LiveContext(i)' = LiveContext(i)
      /\ i = current /\ current' # current =>
           LiveContext(i)' \in {ctx, [ctx EXCEPT !.forked = FALSE]}

(* Whatever runs, the registers of a process that keeps running change only  *)
(* while it has the processor, and a dispatch preserves those of the process *)
(* that loses it.                                                            *)
THEOREM ContextsIsolated == Spec => ContextIsolation
<1>1. TypeOK /\ [Next]_vars => [Isolated]_vars
  <2> SUFFICES ASSUME TypeOK, Next PROVE Isolated
    BY DEF Isolated
  <2>0. 0 \in Slots /\ current \in Slots /\ ctx \in Context
    BY TableAssumption DEF Slots, TypeOK
  <2>1. ASSUME NEW old \in Context, scheduler_run(old),
               old \in {ctx, [ctx EXCEPT !.forked = FALSE]}
        PROVE  Isolated
    BY <2>0, <2>1, SchedulerRunEffect DEF Isolated, LiveContext
  <2>2. CASE Fork
    <3>1. \A n \in Slots : IsNewPid(n) => ~pcb[n].running
      BY DEF IsNewPid
    <3> QED BY <2>0, <2>2, <3>1 DEF Fork, Isolated, LiveContext, TypeOK
  <2>3. ASSUME NEW image \in Images, NEW priority \in Priorities, Exec(image, priority)
        PROVE  Isolated
    BY <2>0, <2>3 DEF Exec, Isolated, LiveContext, TypeOK
  <2>4. ASSUME NEW code \in ExitCodes, Exit(code) PROVE Isolated
    <3>1. CASE pcb' = Stop({current}) /\ current' = 0 /\ ctx' = pcb[0].ctx
      <4>1. \A i \in Slots : /\ pcb'[i].ctx = pcb[i].ctx
                             /\ pcb'[i].running => i # current
        BY <3>1, StopEffect
      <4> QED BY <2>0, <3>1, <4>1 DEF Isolated, LiveContext
    <3>2. CASE UNCHANGED <<pcb, current>>
      BY <3>2 DEF Isolated, LiveContext
    <3> QED BY <2>4, <3>1, <3>2 DEF Exit
  <2>5. ASSUME NEW p \in KillPids, Kill(p) PROVE Isolated
    BY <2>0, <2>5, StopEffect DEF Kill, Isolated, LiveContext
  <2>6. CASE Timer
    BY <2>0, <2>1, <2>6 DEF Timer
  <2>7. CASE Yield
    <3>1. [ctx EXCEPT !.forked = FALSE] \in Context
      BY YieldContext
    <3> QED BY <2>1, <2>7, <3>1 DEF Yield
  <2> QED BY <2>2, <2>3, <2>4, <2>5, <2>6, <2>7 DEF Next
<1> QED BY <1>1, TypeCorrect, PTL DEF Spec, ContextIsolation, Isolated

----------------------------------------------------------------------------
(* Stacks.  StacksDisjoint speaks of running slots only and is not           *)
(* inductive: the saved context of a slot, the registers of a process that   *)
(* was stopped while it had the processor, and the next free stack must all  *)
(* be kept apart as well.                                                    *)

\* slot i was given a process at some time
Used(i) == pcb[i].ctx.image # NULL

\* the stack tops slot i holds: the saved one and, on the processor, the live one
Tops(i) == {pcb[i].ctx.sp} \cup {s \in {ctx.sp} : i = current}

UsedSlots ==
  /\ ctx.image # NULL
  /\ Used(0) /\ Used(current)
  /\ \A i \in Slots : pcb[i].running => Used(i)

TopsAbove == \A i \in Slots : Used(i) => \A s \in Tops(i) : s > current_tos_user

TopsApart ==
  \A i, j \in Slots :
    i # j /\ Used(i) /\ Used(j) => \A s \in Tops(i), t \in Tops(j) : s # t

StackInv == UsedSlots /\ TopsAbove /\ TopsApart

(* A step that gives no slot a new stack preserves the invariant. *)
LEMMA StacksShrink ==
  ASSUME StackInv,
         current_tos_user' = current_tos_user,
         ctx'.image # NULL, Used(0)', Used(current)',
         \A i \in Slots : /\ pcb'[i].running => pcb[i].running
                          /\ Used(i)' <=> Used(i)
                          /\ Tops(i)' \subseteq Tops(i)
  PROVE  StackInv'
<1>1. UsedSlots'
  BY DEF StackInv, UsedSlots
<1>2. TopsAbove'
  BY DEF StackInv, TopsAbove
<1>3. TopsApart'
  BY DEF StackInv, TopsApart
<1> QED BY <1>1, <1>2, <1>3 DEF StackInv

(* The processor passes between used slots, each with its own stack top. *)
LEMMA StackSchedulerRun ==
  ASSUME TypeOK, StackInv, NEW old \in Context, scheduler_run(old),
         old.sp = ctx.sp, old.image = ctx.image
  PROVE  StackInv'
<1>0. 0 \in Slots /\ current \in Slots
  BY TableAssumption DEF Slots, TypeOK
<1>1. /\ current' \in Slots
      /\ current' = 0 \/ pcb[current'].running
      /\ ctx' = IF current' = current THEN old ELSE pcb[current'].ctx
      /\ \A i \in Slots :
           /\ pcb'[i].running = pcb[i].running
           /\ pcb'[i].ctx = IF i = current THEN old ELSE pcb[i].ctx
  BY SchedulerRunEffect
<1>2. Used(0) /\ Used(current) /\ Used(current') /\ ctx.image # NULL
  BY <1>1 DEF StackInv, UsedSlots
<1>3. \A i \in Slots : Used(i)' <=> Used(i)
  BY <1>1, <1>2 DEF Used
<1>4. ctx'.image # NULL
  BY <1>1, <1>2 DEF Used
<1>5. \A i \in Slots : Tops(i)' \subseteq Tops(i)
  BY <1>1 DEF Tops
<1>6. Used(0)' /\ Used(current)'
  BY <1>0, <1>1, <1>2 DEF Used
<1>7. current_tos_user' = current_tos_user
  BY DEF scheduler_run
<1> QED BY <1>1, <1>3, <1>4, <1>5, <1>6, <1>7, StacksShrink

(* A child gets the free stack below all the others. *)
LEMMA StackFork ==
  ASSUME TypeOK, StackInv, NEW n \in Slots, UNCHANGED current,
         pcb' = [pcb EXCEPT ![n] = ChildPcb(n)],
         ctx' = ForkReturning(n),
         current_tos_user' = current_tos_user - STACK_SIZE
  PROVE  StackInv'
<1>0. 0 \in Slots /\ current \in Slots /\ ctx \in Context /\ current_tos_user \in Int
  BY TableAssumption DEF Slots, TypeOK
<1>1. /\ ChildPcb(n).ctx.image = ctx.image
      /\ ChildPcb(n).ctx.sp = current_tos_user
      /\ ChildPcb(n).running
  BY DEF ChildPcb, Regs
<1>2. pcb'[n] = ChildPcb(n) /\ \A i \in Slots : i # n => pcb'[i] = pcb[i]
  BY DEF TypeOK
<1>3. ctx'.image = ctx.image /\ ctx'.sp = ctx.sp
  BY DEF ForkReturning, Regs
<1>4. UsedSlots'
  BY <1>0, <1>1, <1>2, <1>3 DEF StackInv, UsedSlots, Used
<1>5. \A i \in Slots : i # n => Tops(i)' = Tops(i) /\ (Used(i)' <=> Used(i))
  BY <1>2, <1>3 DEF Tops, Used
<1>6. \A s \in Tops(n)' : s = current_tos_user \/ (n = current /\ s \in Tops(current))
  BY <1>1, <1>2, <1>3 DEF Tops
<1>7. \A i \in Slots : \A s \in Tops(i) : s \in Int
  BY <1>0 DEF Tops, TypeOK, Pcb, Context
<1>8. TopsAbove'
  <2> SUFFICES ASSUME NEW i \in Slots, Used(i)', NEW s \in Tops(i)'
               PROVE  s > current_tos_user - STACK_SIZE
    BY DEF TopsAbove
  <2>1. s = current_tos_user \/ (s \in Int /\ s > current_tos_user)
    BY <1>0, <1>5, <1>6, <1>7 DEF StackInv, UsedSlots, TopsAbove
  <2> QED BY <1>0, <2>1, StackAssumption
<1>9. ASSUME NEW j \in Slots, j # n, Used(j)', NEW s \in Tops(n)', NEW t \in Tops(j)'
      PROVE  s # t
  <2>1. t \in Tops(j) /\ Used(j) /\ t \in Int
    BY <1>5, <1>7, <1>9
  <2>2. CASE s = current_tos_user
    <3>1. t > current_tos_user
      BY <2>1 DEF StackInv, TopsAbove
    <3> QED BY <1>0, <2>1, <2>2, <3>1
  <2>3. CASE n = current /\ s \in Tops(current)
    BY <1>0, <1>9, <2>1, <2>3 DEF StackInv, UsedSlots, TopsApart
  <2> QED BY <1>6, <1>9, <2>2, <2>3
<1>10. TopsApart'
  <2> SUFFICES ASSUME NEW i \in Slots, NEW j \in Slots, i # j, Used(i)', Used(j)',
                      NEW s \in Tops(i)', NEW t \in Tops(j)'
               PROVE  s # t
    BY DEF TopsApart
  <2>1. CASE i = n
    BY <1>9, <2>1
  <2>2. CASE j = n
    BY <1>9, <2>2
  <2>3. CASE i # n /\ j # n
    BY <1>5, <2>3 DEF StackInv, TopsApart
  <2> QED BY <2>1, <2>2, <2>3
<1> QED BY <1>4, <1>8, <1>10 DEF StackInv

(* Every handler keeps the stacks apart. *)
LEMMA StackStep == TypeOK /\ StackInv /\ [Next]_vars => StackInv'
<1> SUFFICES ASSUME TypeOK, StackInv, [Next]_vars PROVE StackInv'
  OBVIOUS
<1>0. 0 \in Slots /\ current \in Slots /\ ctx \in Context /\ Used(0) /\ Used(current)
      /\ ctx.image # NULL
  BY TableAssumption DEF Slots, TypeOK, StackInv, UsedSlots
<1>1. CASE Timer
  BY <1>0, <1>1, StackSchedulerRun DEF Timer
<1>2. CASE Yield
  BY <1>2, StackSchedulerRun, YieldContext DEF Yield
<1>3. CASE Fork
  <2>1. CASE ctx' = ForkReturning(-1) /\ UNCHANGED <<pcb, current, current_tos_user>>
    <3>1. ctx'.image = ctx.image /\ ctx'.sp = ctx.sp
      BY <2>1 DEF ForkReturning, Regs
    <3>2. \A i \in Slots : (Used(i)' <=> Used(i)) /\ Tops(i)' = Tops(i)
      BY <2>1, <3>1 DEF Used, Tops
    <3> QED BY <1>0, <2>1, <3>1, <3>2, StacksShrink
  <2> QED BY <1>3, <2>1, StackFork DEF Fork
<1>4. ASSUME NEW image \in Images, NEW priority \in Priorities, Exec(image, priority)
      PROVE  StackInv'
  <2>1. /\ ExecPcb(image, priority).ctx.image = image
        /\ ExecPcb(image, priority).ctx.sp = pcb[current].ctx.sp
        /\ ExecPcb(image, priority).running = pcb[current].running
    BY DEF ExecPcb, Regs
  <2>2. /\ pcb'[current] = ExecPcb(image, priority)
        /\ \A i \in Slots : i # current => pcb'[i] = pcb[i]
    BY <1>0, <1>4 DEF Exec, TypeOK
  <2>3. ctx' = ExecPcb(image, priority).ctx /\ UNCHANGED <<current, current_tos_user>>
    BY <1>4 DEF Exec
  <2>4. \A i \in Slots : /\ pcb'[i].running => pcb[i].running
                         /\ Used(i)' <=> Used(i)
                         /\ Tops(i)' \subseteq Tops(i)
    BY <1>0, <2>1, <2>2, <2>3, ImageAssumption DEF Used, Tops
  <2> QED BY <1>0, <2>1, <2>3, <2>4, StacksShrink, ImageAssumption
<1>5. ASSUME NEW code \in ExitCodes, Exit(code) PROVE StackInv'
  <2>1. CASE pcb' = Stop({current}) /\ current' = 0 /\ ctx' = pcb[0].ctx
    <3>1. \A i \in Slots : /\ pcb'[i].running => pcb[i].running
                           /\ pcb'[i].ctx = pcb[i].ctx
      BY <2>1, StopEffect
    <3>2. \A i \in Slots : (Used(i)' <=> Used(i)) /\ Tops(i)' \subseteq Tops(i)
      BY <1>0, <2>1, <3>1 DEF Used, Tops
    <3>3. ctx'.image # NULL /\ current_tos_user' = current_tos_user
      BY <1>0, <1>5, <2>1 DEF Used, Exit
    <3> QED BY <1>0, <2>1, <3>1, <3>2, <3>3, StacksShrink
  <2>2. CASE ctx' = [ctx EXCEPT !.forked = FALSE] /\ UNCHANGED <<pcb, current>>
    <3>1. ctx'.image = ctx.image /\ ctx'.sp = ctx.sp
      BY <2>2, YieldContext
    <3>2. \A i \in Slots : (Used(i)' <=> Used(i)) /\ Tops(i)' = Tops(i)
      BY <2>2, <3>1 DEF Used, Tops
    <3>3. current_tos_user' = current_tos_user
      BY <1>5 DEF Exit
    <3> QED BY <1>0, <2>2, <3>1, <3>2, <3>3, StacksShrink
  <2> QED BY <1>5, <2>1, <2>2 DEF Exit
<1>6. ASSUME NEW p \in KillPids, Kill(p) PROVE StackInv'
  <2>1. \A i \in Slots : /\ pcb'[i].running => pcb[i].running
                         /\ pcb'[i].ctx = pcb[i].ctx
    BY <1>6, StopEffect DEF Kill
  <2>2. ctx'.image = ctx.image /\ ctx'.sp = ctx.sp
    BY <1>6 DEF Kill, Returning, Regs
  <2>3. UNCHANGED <<current, current_tos_user>>
    BY <1>6 DEF Kill
  <2>4. \A i \in Slots : (Used(i)' <=> Used(i)) /\ Tops(i)' = Tops(i)
    BY <2>1, <2>2, <2>3 DEF Used, Tops
  <2> QED BY <1>0, <2>1, <2>2, <2>3, <2>4, StacksShrink
<1>7. CASE UNCHANGED vars
  BY <1>7 DEF vars, StackInv, UsedSlots, TopsAbove, TopsApart, Used, Tops
<1> QED BY <1>1, <1>2, <1>3, <1>4, <1>5, <1>6, <1>7 DEF Next

(* No two running processes share a stack, for any number of slots, forks,   *)
(* exits, kills and reuses of slots.                                         *)
THEOREM StacksNeverShared == Spec => []StacksDisjoint
<1>1. Init => StackInv
  <2> SUFFICES ASSUME Init PROVE StackInv
    OBVIOUS
  <2>1. \A i \in Slots : pcb[i] = IF i = 0 THEN ConsolePcb ELSE ZeroPcb
    BY DEF Init
  <2>2. 0 \in Slots
    BY TableAssumption DEF Slots
  <2>3. /\ ConsolePcb.ctx.image = Console /\ ConsolePcb.ctx.sp = TOS_USER
        /\ ZeroPcb.ctx.image = NULL /\ ~ZeroPcb.running
        /\ ConsoleContext.image = Console /\ ConsoleContext.sp = TOS_USER
    BY DEF ConsolePcb, ZeroPcb, ConsoleContext, ZeroContext, Regs
  <2>4. ctx = ConsoleContext /\ current = 0 /\ current_tos_user = TOS_USER - STACK_SIZE
    BY DEF Init
  <2>5. UsedSlots
    BY <2>1, <2>2, <2>3, <2>4, ImageAssumption DEF UsedSlots, Used
  <2>6. \A i \in Slots : Used(i) => i = 0 /\ Tops(i) = {TOS_USER}
    BY <2>1, <2>3, <2>4 DEF Used, Tops
  <2>7. TOS_USER > current_tos_user
    BY <2>4, StackAssumption
  <2> QED BY <2>5, <2>6, <2>7 DEF StackInv, TopsAbove, TopsApart
<1>2. TypeOK /\ StackInv => StacksDisjoint
  <2> SUFFICES ASSUME TypeOK, StackInv,
                      NEW i \in Slots, NEW j \in Slots, i # j, pcb[i].running, pcb[j].running
               PROVE  LiveContext(i).sp # LiveContext(j).sp
    BY DEF StacksDisjoint
  <2>1. Used(i) /\ Used(j)
    BY DEF StackInv, UsedSlots
  <2>2. LiveContext(i).sp \in Tops(i) /\ LiveContext(j).sp \in Tops(j)
    BY DEF LiveContext, Tops
  <2> QED BY <2>1, <2>2 DEF StackInv, TopsApart
<1> QED BY <1>1, <1>2, StackStep, TypeCorrect, PTL DEF Spec

----------------------------------------------------------------------------
(* The console never dies, so that the processor is never given away blindly. *)

(* scheduler_exit hands the processor to slot 0 and next_pid falls back to   *)
(* slot 0, both without a look at it.  That is safe when the console is in   *)
(* slot 0 for ever: it does not exit, no other program kills or loads a      *)
(* console, and nobody types "kill 0".                                       *)
ConsoleSafe ==
  /\ 0 \notin KillPids
  /\ "exit" \notin Calls[Console]
  /\ \A image \in Images : /\ Console \notin Loads[image]
                           /\ "kill" \in Calls[image] => image = Console

(* Slot 0 holds the console and runs; any other process with a console image *)
(* is a child on its way from fork to exec, which makes no other call.       *)
ConsoleInv ==
  /\ pcb[current].running /\ pcb[0].running
  /\ LiveContext(0).image = Console
  /\ ~(LiveContext(0).forked /\ LiveContext(0).r0 = 0)
  /\ \A i \in Slots : pcb[i].running => LiveContext(i).image \in Images
  /\ \A i \in Slots \ {0} : pcb[i].running /\ LiveContext(i).image = Console =>
       LiveContext(i).forked /\ LiveContext(i).r0 = 0

(* A process that makes a system call other than exec from slot 0 is the     *)
(* console, and from any other slot is not.                                  *)
LEMMA WhoCalls ==
  ASSUME TypeOK, ConsoleInv, NEW c, MayCall(c)
  PROVE  /\ ctx.image \in Images /\ c \in Calls[ctx.image]
         /\ current = 0 <=> ctx.image = Console
BY DEF ConsoleInv, LiveContext, MayCall, InChild, TypeOK

(* A process keeps its console-ness through a scheduling decision. *)
LEMMA ConsoleSchedulerRun ==
  ASSUME TypeOK, ConsoleInv, NEW old \in Context, scheduler_run(old),
         old.image = ctx.image, old.r0 = ctx.r0,
         old.forked = ctx.forked \/ (~old.forked /\ ~InChild)
  PROVE  ConsoleInv'
<1>0. 0 \in Slots /\ current \in Slots
  BY TableAssumption DEF Slots, TypeOK
<1>1. /\ current' \in Slots
      /\ current' = 0 \/ pcb[current'].running
      /\ ctx' = IF current' = current THEN old ELSE pcb[current'].ctx
      /\ \A i \in Slots :
           /\ pcb'[i].running = pcb[i].running
           /\ pcb'[i].ctx = IF i = current THEN old ELSE pcb[i].ctx
  BY SchedulerRunEffect
<1>2. \A i \in Slots : LiveContext(i)' = IF i = current THEN old ELSE LiveContext(i)
  BY <1>1 DEF LiveContext
<1>3. LiveContext(current) = ctx
  BY DEF LiveContext
<1>4. pcb'[0].running /\ pcb'[current'].running
  BY <1>0, <1>1 DEF ConsoleInv
<1>5. \A i \in Slots : LiveContext(i)'.image = LiveContext(i).image
  BY <1>2, <1>3
<1>6. \A i \in Slots : \/ /\ LiveContext(i)'.forked = LiveContext(i).forked
                          /\ LiveContext(i)'.r0 = LiveContext(i).r0
                       \/ /\ ~LiveContext(i)'.forked
                          /\ ~(LiveContext(i).forked /\ LiveContext(i).r0 = 0)
  BY <1>2, <1>3 DEF InChild
<1> QED BY <1>0, <1>1, <1>4, <1>5, <1>6 DEF ConsoleInv

(* Under ConsoleSafe no handler ends the console or leaves a dead process on *)
(* the processor.                                                            *)
LEMMA ConsoleStep ==
  ASSUME ConsoleSafe
  PROVE  TypeOK /\ PidsMatchSlots /\ ConsoleInv /\ [Next]_vars => ConsoleInv'
<1> SUFFICES ASSUME TypeOK, PidsMatchSlots, ConsoleInv, [Next]_vars PROVE ConsoleInv'
  OBVIOUS
<1>0. 0 \in Slots /\ current \in Slots /\ ctx \in Context
  BY TableAssumption DEF Slots, TypeOK
<1>a. pcb[0].running /\ pcb[current].running
  BY DEF ConsoleInv
<1>1. CASE Timer
  BY <1>0, <1>1, ConsoleSchedulerRun DEF Timer
<1>2. CASE Yield
  BY <1>2, ConsoleSchedulerRun, YieldContext DEF Yield, MayCall
<1>3. CASE Fork
  <2>0. MayCall("fork") /\ current' = current
    BY <1>3 DEF Fork
  <2>1. ASSUME NEW n \in Slots, IsNewPid(n), pcb' = [pcb EXCEPT ![n] = ChildPcb(n)],
               ctx' = ForkReturning(n)
        PROVE  ConsoleInv'
    <3>1. n # 0 /\ n # current /\ n \in Int
      BY <1>0, <1>a, <2>1, TableAssumption DEF IsNewPid, Slots
    <3>2. /\ ChildPcb(n).running /\ ChildPcb(n).ctx.image = ctx.image
          /\ ChildPcb(n).ctx.forked /\ ChildPcb(n).ctx.r0 = 0
      BY DEF ChildPcb, Regs
    <3>3. /\ ctx'.image = ctx.image /\ ctx'.r0 = n
      BY <2>1 DEF ForkReturning, Regs
    <3>4. \A i \in Slots : i # n => pcb'[i] = pcb[i]
      BY <2>1 DEF TypeOK
    <3>5. pcb'[n] = ChildPcb(n)
      BY <2>1 DEF TypeOK
    <3>6. LiveContext(n)' = ChildPcb(n).ctx
      BY <2>0, <3>1, <3>5 DEF LiveContext
    <3>7. \A i \in Slots : i # n /\ i # current => LiveContext(i)' = LiveContext(i)
      BY <2>0, <3>4 DEF LiveContext
    <3>8. LiveContext(current)' = ctx' /\ LiveContext(current) = ctx
      BY <2>0 DEF LiveContext
    <3>a. /\ current = 0 => LiveContext(0)' = ctx' /\ LiveContext(0) = ctx
          /\ current # 0 => LiveContext(0)' = LiveContext(0)
      BY <1>0, <2>0, <3>1, <3>4 DEF LiveContext
    <3>9. pcb'[0].running /\ pcb'[current'].running
      BY <1>0, <1>a, <2>0, <3>1, <3>4
    <3>10. LiveContext(0)'.image = Console
      BY <3>3, <3>a DEF ConsoleInv
    <3>11. ~(LiveContext(0)'.forked /\ LiveContext(0)'.r0 = 0)
      BY <3>1, <3>3, <3>a DEF ConsoleInv
    <3>12. \A i \in Slots : pcb'[i].running => LiveContext(i)'.image \in Images
      BY <1>0, <2>0, <3>2, <3>3, <3>4, <3>6, <3>7, <3>8, WhoCalls DEF ConsoleInv
    <3>13. \A i \in Slots \ {0} : pcb'[i].running /\ LiveContext(i)'.image = Console =>
             LiveContext(i)'.forked /\ LiveContext(i)'.r0 = 0
      BY <1>0, <2>0, <3>2, <3>3, <3>4, <3>6, <3>7, <3>8, WhoCalls DEF ConsoleInv
    <3> QED BY <3>9, <3>10, <3>11, <3>12, <3>13 DEF ConsoleInv
  <2>2. CASE ctx' = ForkReturning(-1) /\ UNCHANGED pcb
    <3>1. ctx'.image = ctx.image /\ ctx'.r0 # 0
      BY <2>2 DEF ForkReturning, Regs
    <3>2. \A i \in Slots : i # current => LiveContext(i)' = LiveContext(i)
      BY <2>0, <2>2 DEF LiveContext
    <3>3. LiveContext(current)' = ctx' /\ LiveContext(current) = ctx
      BY <2>0 DEF LiveContext
    <3>4. /\ LiveContext(0)'.image = LiveContext(0).image
          /\ \A i \in Slots : LiveContext(i)'.image = LiveContext(i).image
      BY <2>0, <2>2, <3>1 DEF LiveContext
    <3>5. LiveContext(0)'.r0 # 0 \/ LiveContext(0)' = LiveContext(0)
      BY <2>0, <2>2, <3>1 DEF LiveContext
    <3>6. \A i \in Slots \ {0} : pcb[i].running /\ LiveContext(i).image = Console =>
            i # current
      BY <1>0, <2>0, <3>3, WhoCalls
    <3> QED BY <1>0, <2>0, <2>2, <3>2, <3>4, <3>5, <3>6 DEF ConsoleInv
  <2> QED BY <1>3, <2>1, <2>2 DEF Fork
<1>4. ASSUME NEW image \in Images, NEW priority \in Priorities, Exec(image, priority)
      PROVE  ConsoleInv'
  <2>1. current # 0 /\ ctx.image \in Images /\ image # Console
    BY <1>0, <1>4 DEF Exec, InChild, ConsoleInv, LiveContext, ConsoleSafe
  <2>2. /\ ExecPcb(image, priority).ctx.image = image
        /\ ExecPcb(image, priority).running = pcb[current].running
    BY DEF ExecPcb, Regs
  <2>3. /\ pcb'[current] = ExecPcb(image, priority)
        /\ \A i \in Slots : i # current => pcb'[i] = pcb[i]
        /\ ctx' = ExecPcb(image, priority).ctx /\ current' = current
    BY <1>0, <1>4 DEF Exec, TypeOK
  <2>4. /\ \A i \in Slots : i # current => LiveContext(i)' = LiveContext(i)
        /\ LiveContext(current)'.image = image
    BY <2>2, <2>3 DEF LiveContext
  <2>5. \A i \in Slots : pcb'[i].running = pcb[i].running
    BY <2>2, <2>3
  <2> QED BY <1>0, <2>1, <2>3, <2>4, <2>5 DEF ConsoleInv
<1>5. ASSUME NEW code \in ExitCodes, Exit(code) PROVE ConsoleInv'
  <2>1. MayCall("exit") /\ current # 0
    BY <1>5, WhoCalls DEF Exit, ConsoleSafe
  <2>2. CASE pcb' = Stop({current}) /\ current' = 0 /\ ctx' = pcb[0].ctx
    <3>1. \A i \in Slots : /\ pcb'[i].ctx = pcb[i].ctx
                           /\ pcb'[i].running <=> pcb[i].running /\ i # current
      BY <2>2, StopEffect
    <3>2. \A i \in Slots : i # current => LiveContext(i)' = LiveContext(i)
      BY <1>0, <2>2, <3>1 DEF LiveContext
    <3> QED BY <1>0, <2>1, <2>2, <3>1, <3>2 DEF ConsoleInv
  <2>3. CASE ctx' = [ctx EXCEPT !.forked = FALSE] /\ UNCHANGED <<pcb, current>>
    <3>1. ctx'.image = ctx.image
      BY <2>3, YieldContext
    <3>2. \A i \in Slots : i # current => LiveContext(i)' = LiveContext(i)
      BY <2>3 DEF LiveContext
    <3>3. LiveContext(current)' = ctx' /\ LiveContext(current) = ctx
      BY <2>3 DEF LiveContext
    <3>4. ctx.image # Console
      BY <2>1, WhoCalls
    <3> QED BY <1>0, <2>1, <2>3, <3>1, <3>2, <3>3, <3>4 DEF ConsoleInv
  <2> QED BY <1>5, <2>2, <2>3 DEF Exit
<1>6. ASSUME NEW p \in KillPids, Kill(p) PROVE ConsoleInv'
  <2>1. current = 0 /\ p # 0
    BY <1>6, WhoCalls DEF Kill, ConsoleSafe
  <2>2. 0 \notin Killed(p)
    BY <1>0, <2>1 DEF Killed, IsSlotOf, PidsMatchSlots
  <2>3. \A i \in Slots : /\ pcb'[i].ctx = pcb[i].ctx
                         /\ pcb'[i].running <=> pcb[i].running /\ i \notin Killed(p)
    BY <1>6, StopEffect DEF Kill
  <2>4. ctx'.image = ctx.image /\ ctx'.forked = FALSE /\ current' = current
    BY <1>6 DEF Kill, Returning, Regs
  <2>5. \A i \in Slots : i # 0 => LiveContext(i)' = LiveContext(i)
    BY <2>1, <2>3, <2>4 DEF LiveContext
  <2>6. LiveContext(0)' = ctx' /\ LiveContext(0) = ctx
    BY <2>1, <2>4 DEF LiveContext
  <2> QED BY <1>0, <2>1, <2>2, <2>3, <2>4, <2>5, <2>6, ImageAssumption DEF ConsoleInv
<1>7. CASE UNCHANGED vars
  BY <1>7 DEF vars, ConsoleInv, LiveContext
<1> QED BY <1>1, <1>2, <1>3, <1>4, <1>5, <1>6, <1>7 DEF Next

(* Slot 0 holds the running console for ever. *)
LEMMA ConsoleForever ==
  ASSUME ConsoleSafe
  PROVE  Spec => []ConsoleInv
<1>1. Init => ConsoleInv
  <2> SUFFICES ASSUME Init PROVE ConsoleInv
    OBVIOUS
  <2>1. 0 \in Slots /\ current = 0 /\ ctx = ConsoleContext /\ pcb[0] = ConsolePcb
    BY TableAssumption DEF Init, Slots
  <2>2. \A i \in Slots \ {0} : ~pcb[i].running
    BY DEF Init, ZeroPcb
  <2>3. ConsoleContext.image = Console /\ ~ConsoleContext.forked /\ ConsolePcb.running
    BY DEF ConsoleContext, ConsolePcb, Regs
  <2> QED BY <2>1, <2>2, <2>3, ImageAssumption DEF ConsoleInv, LiveContext
<1> QED BY <1>1, ConsoleStep, TypeCorrect, PidsCorrect, PTL DEF Spec

(* The process on the processor is always one the table calls running: exit  *)
(* and next_pid, which do not look, never hand over to a dead slot, as long  *)
(* as the console is never killed.                                           *)
THEOREM CurrentAlwaysRunning ==
  ASSUME ConsoleSafe
  PROVE  Spec => []CurrentRunning
<1>1. ConsoleInv => CurrentRunning
  BY DEF ConsoleInv, CurrentRunning
<1> QED BY <1>1, ConsoleForever, PTL

(* What fork promises its two processes, as long as the console is never     *)
(* killed: a fork that takes a stack returns a pid above 0 and not its own   *)
(* in the parent, and makes the slot of that pid the parent's child.         *)
THEOREM ForkAlwaysMakesChild ==
  ASSUME ConsoleSafe
  PROVE  Spec => ForkMakesChild
<1>1. TypeOK /\ PidsMatchSlots /\ pcb[current].running /\ pcb[0].running /\ [Next]_vars
        => [current_tos_user' # current_tos_user =>
             /\ ctx'.r0 \in Slots \ {0, current}
             /\ LET child == pcb'[ctx'.r0]
                IN  /\ child.running /\ child.pid = ctx'.r0 /\ child.pid_parent = current
                    /\ child.ctx.forked /\ child.ctx.r0 = 0]_vars
  <2> SUFFICES ASSUME TypeOK, PidsMatchSlots, pcb[current].running, pcb[0].running,
                      Next, current_tos_user' # current_tos_user
               PROVE  /\ ctx'.r0 \in Slots \ {0, current}
                      /\ pcb'[ctx'.r0].running /\ pcb'[ctx'.r0].pid = ctx'.r0
                      /\ pcb'[ctx'.r0].pid_parent = current
                      /\ pcb'[ctx'.r0].ctx.forked /\ pcb'[ctx'.r0].ctx.r0 = 0
    BY DEF vars
  <2>1. PICK n \in Slots : /\ IsNewPid(n)
                           /\ pcb' = [pcb EXCEPT ![n] = ChildPcb(n)]
                           /\ ctx' = ForkReturning(n)
    BY DEF Next, Timer, Yield, scheduler_run, Fork, Exec, Exit, Kill
  <2>2. ctx'.r0 = n
    BY <2>1 DEF ForkReturning, Regs
  <2>3. n # 0 /\ n # current
    BY <2>1 DEF IsNewPid
  <2>4. pcb'[n] = ChildPcb(n)
    BY <2>1 DEF TypeOK
  <2>5. /\ ChildPcb(n).running /\ ChildPcb(n).pid = n
        /\ ChildPcb(n).pid_parent = current
        /\ ChildPcb(n).ctx.forked /\ ChildPcb(n).ctx.r0 = 0
    BY DEF ChildPcb, Regs, PidsMatchSlots
  <2> QED BY <2>2, <2>3, <2>4, <2>5
<1>2. ConsoleInv => pcb[current].running /\ pcb[0].running
  BY DEF ConsoleInv
<1> QED
  BY <1>1, <1>2, ConsoleForever, TypeCorrect, PidsCorrect, PTL DEF Spec, ForkMakesChild

----------------------------------------------------------------------------
(* The next to run.  Children that have not run yet keep at least the         *)
(* priority fork gave them; as long as nobody else gets that far by waiting,  *)
(* next_pid has no choice.                                                    *)

BoostInv ==
  \A i \in undispatched :
    i # current /\ pcb[i].running /\ pcb[i].priority_curr >= FORK_PRIORITY

(* What scheduler_run does to the priorities. *)
LEMMA SchedulerRunAges ==
  ASSUME TypeOK, NEW old \in Context, scheduler_run(old)
  PROVE  /\ \A i \in Slots : /\ pcb'[i].running = pcb[i].running
                             /\ pcb'[i].priority_init = pcb[i].priority_init
                             /\ pcb'[i].priority_curr = UpdatedPriority(i)
         /\ undispatched' = undispatched \ {current'}
         /\ IsNextPid(AgedTable, current')
<1> PICK n \in Slots : /\ IsNextPid(AgedTable, n) /\ SwitchContext(old, n) /\ current' = n
                       /\ undispatched' = undispatched \ {n}
  BY DEF scheduler_run
<1>1. AgedTable \in [Slots -> Pcb]
  BY AgedTableType
<1>2. \A i \in Slots : /\ AgedTable[i].running = pcb[i].running
                       /\ AgedTable[i].priority_init = pcb[i].priority_init
                       /\ AgedTable[i].priority_curr = UpdatedPriority(i)
  BY DEF AgedTable, TypeOK, Pcb
<1>3. \A i \in Slots : /\ pcb'[i].running = AgedTable[i].running
                       /\ pcb'[i].priority_init = AgedTable[i].priority_init
                       /\ pcb'[i].priority_curr = AgedTable[i].priority_curr
  BY <1>1 DEF SwitchContext, Pcb
<1> QED BY <1>2, <1>3

LEMMA NoWrap == \A n, m \in Nat : n < m => n % m = n
BY SMTT(30)

(* A child that waits is aged as far as its sum goes: it does not wrap. *)
LEMMA ChildAges ==
  ASSUME TypeOK, PidsMatchSlots, ConsoleInv, AgesInOrder, BoostInv, NEW i \in undispatched
  PROVE  UpdatedPriority(i) >= FORK_PRIORITY
<1>1. /\ i \in Slots /\ i # current /\ pcb[i].running
      /\ pcb[i].priority_curr >= FORK_PRIORITY
  BY DEF BoostInv, TypeOK
<1>2. pcb[current].pid = current
  BY DEF PidsMatchSlots, ConsoleInv, TypeOK
<1>3. /\ pcb[i].priority_curr \in Nat /\ pcb[i].priority_init \in Nat
      /\ FORK_PRIORITY \in Nat /\ PRIO_MOD \in Nat
      /\ pcb[i].priority_curr + pcb[i].priority_init < PRIO_MOD
  BY <1>1, PriorityAssumption DEF TypeOK, Pcb, Prios, AgesInOrder
<1>4. UpdatedPriority(i) = (pcb[i].priority_curr + pcb[i].priority_init) % PRIO_MOD
  BY <1>1, <1>2 DEF UpdatedPriority
<1>5. (pcb[i].priority_curr + pcb[i].priority_init) % PRIO_MOD
        = pcb[i].priority_curr + pcb[i].priority_init
  <2> DEFINE sum == pcb[i].priority_curr + pcb[i].priority_init
  <2>1. sum \in Nat /\ sum < PRIO_MOD
    BY <1>3
  <2> HIDE DEF sum
  <2>2. sum % PRIO_MOD = sum
    BY <1>3, <2>1, NoWrap
  <2> QED BY <2>2 DEF sum
<1> QED BY <1>1, <1>3, <1>4, <1>5

LEMMA RunPicksChild ==
  ASSUME TypeOK, PidsMatchSlots, ConsoleInv, AgesInOrder, BoostInv,
         NEW old \in Context, scheduler_run(old), undispatched # {}
  PROVE  current' \in undispatched
<1> PICK c \in undispatched : TRUE
  OBVIOUS
<1>1. /\ \A i \in Slots : /\ AgedTable[i].running = pcb[i].running
                          /\ AgedTable[i].priority_curr = UpdatedPriority(i)
      /\ AgedTable \in [Slots -> Pcb]
  BY AgedTableType DEF AgedTable, TypeOK, Pcb
<1>2. /\ c \in Slots /\ AgedTable[c].running /\ AgedTable[c].priority_curr >= FORK_PRIORITY
  BY <1>1, ChildAges DEF BoostInv, TypeOK
<1>3. \A i \in Slots : AgedTable[i].priority_curr \in Nat
  BY <1>1 DEF Pcb, Prios
<1>4. FORK_PRIORITY \in Nat /\ FORK_PRIORITY > 0
  BY PriorityAssumption DEF Prios
<1>5. /\ current' \in Slots /\ AgedTable[current'].running
      /\ AgedTable[current'].priority_curr >= AgedTable[c].priority_curr
  BY <1>2, <1>3, <1>4, SchedulerRunAges DEF IsNextPid
<1>6. UpdatedPriority(current') >= FORK_PRIORITY /\ pcb[current'].running
  BY <1>1, <1>2, <1>3, <1>4, <1>5
<1>7. UpdatedPriority(current') \in Nat
  BY <1>1, <1>3, <1>5
<1> QED BY <1>4, <1>5, <1>6, <1>7 DEF AgesInOrder

LEMMA BoostStep ==
  TypeOK /\ PidsMatchSlots /\ ConsoleInv /\ AgesInOrder /\ BoostInv /\ [Next]_vars => BoostInv'
<1> SUFFICES ASSUME TypeOK, PidsMatchSlots, ConsoleInv, AgesInOrder, BoostInv, [Next]_vars
             PROVE  BoostInv'
  OBVIOUS
<1>0. undispatched \subseteq Slots /\ current \in Slots /\ pcb[current].running
  BY DEF TypeOK, ConsoleInv
<1>1. ASSUME NEW old \in Context, scheduler_run(old) PROVE BoostInv'
  <2> SUFFICES ASSUME NEW i \in undispatched'
               PROVE  i # current' /\ pcb'[i].running /\ pcb'[i].priority_curr >= FORK_PRIORITY
    BY DEF BoostInv
  <2>1. i \in undispatched /\ i # current' /\ i \in Slots
    BY <1>0, <1>1, SchedulerRunAges
  <2> QED BY <1>1, <2>1, ChildAges, SchedulerRunAges DEF BoostInv
<1>2. CASE Fork
  <2>1. ASSUME NEW n \in Slots, IsNewPid(n), pcb' = [pcb EXCEPT ![n] = ChildPcb(n)],
               undispatched' = undispatched \cup {n}
        PROVE  BoostInv'
    <3>1. n # current /\ current' = current
      BY <1>0, <1>2, <2>1 DEF IsNewPid, Fork
    <3>2. pcb'[n].running /\ pcb'[n].priority_curr = FORK_PRIORITY
      BY <2>1 DEF TypeOK, ChildPcb
    <3>3. \A i \in Slots : i # n => pcb'[i] = pcb[i]
      BY <2>1 DEF TypeOK
    <3>4. FORK_PRIORITY >= FORK_PRIORITY
      BY PriorityAssumption DEF Prios
    <3> QED BY <1>0, <2>1, <3>1, <3>2, <3>3, <3>4 DEF BoostInv
  <2>2. CASE UNCHANGED <<pcb, undispatched>>
    BY <1>2, <2>2 DEF Fork, BoostInv
  <2> QED BY <1>2, <2>1, <2>2 DEF Fork
<1>3. ASSUME NEW image, NEW priority, Exec(image, priority) PROVE BoostInv'
  <2>1. \A i \in Slots : i # current => pcb'[i] = pcb[i]
    BY <1>3 DEF Exec, TypeOK
  <2>2. current' = current /\ undispatched' = undispatched
    BY <1>3 DEF Exec
  <2> QED BY <1>0, <2>1, <2>2 DEF BoostInv
<1>4. ASSUME NEW S, pcb' = Stop(S), undispatched' \subseteq undispatched,
             undispatched' \cap S = {}, current' \notin undispatched'
      PROVE  BoostInv'
  <2>1. \A i \in Slots : /\ pcb'[i].running <=> pcb[i].running /\ i \notin S
                         /\ pcb'[i].priority_curr = pcb[i].priority_curr
    <3> SUFFICES ASSUME NEW i \in Slots
                 PROVE  /\ pcb'[i].running <=> pcb[i].running /\ i \notin S
                        /\ pcb'[i].priority_curr = pcb[i].priority_curr
      OBVIOUS
    <3>1. pcb[i] \in Pcb /\ pcb'[i] = [pcb[i] EXCEPT !.running = pcb[i].running /\ i \notin S]
      BY <1>4 DEF TypeOK, Stop
    <3>2. pcb'[i].priority_curr = pcb[i].priority_curr
      BY <3>1 DEF Pcb
    <3> QED BY <1>4, <3>2, StopEffect
  <2> QED BY <1>0, <1>4, <2>1 DEF BoostInv
<1>5. ASSUME NEW code \in ExitCodes, Exit(code) PROVE BoostInv'
  <2>1. CASE pcb' = Stop({current}) /\ current' = 0 /\ undispatched' = undispatched \ {0}
    <3>1. current \notin undispatched
      BY DEF BoostInv
    <3> QED BY <1>4, <2>1, <3>1
  <2>2. CASE UNCHANGED <<pcb, current, undispatched>>
    BY <2>2 DEF BoostInv
  <2> QED BY <1>5, <2>1, <2>2 DEF Exit
<1>6. ASSUME NEW p \in KillPids, Kill(p) PROVE BoostInv'
  <2>1. current' \notin undispatched'
    BY <1>6 DEF Kill, BoostInv
  <2> QED BY <1>4, <1>6, <2>1 DEF Kill
<1>7. CASE UNCHANGED vars
  BY <1>7 DEF vars, BoostInv
<1>8. CASE Timer \/ Yield
  BY <1>1, <1>8, YieldContext DEF Timer, Yield, TypeOK
<1> QED BY <1>2, <1>3, <1>5, <1>6, <1>7, <1>8 DEF Next

(* fork's promise that its child runs next (scheduler.c:93) holds for every   *)
(* table and every set of programs and priorities for as long as AgesInOrder  *)
(* does: that nobody has waited up to FORK_PRIORITY is all it takes.          *)
THEOREM ChildRunsNextInOrder ==
  ASSUME ConsoleSafe
  PROVE  Spec /\ []AgesInOrder => ChildRunsNext
<1>1. Init => BoostInv
  BY DEF Init, BoostInv
<1>2. TypeOK /\ PidsMatchSlots /\ ConsoleInv /\ AgesInOrder /\ BoostInv /\ [Next]_vars
        => [(Timer \/ Yield) /\ undispatched # {} => current' \in undispatched]_vars
  <2> SUFFICES ASSUME TypeOK, PidsMatchSlots, ConsoleInv, AgesInOrder, BoostInv,
                      Timer \/ Yield, undispatched # {}
               PROVE  current' \in undispatched
    OBVIOUS
  <2> QED BY RunPicksChild, YieldContext DEF Timer, Yield, TypeOK
<1> QED
  BY <1>1, <1>2, BoostStep, ConsoleForever, TypeCorrect, PidsCorrect, PTL
  DEF Spec, ChildRunsNext

----------------------------------------------------------------------------
(* How old a process can get.  Rank the slots, the running one 0, such that   *)
(* nobody but a child of fork is older than its rank times the highest        *)
(* priority: everybody ages by that much at most, the oldest is picked and    *)
(* gets rank 0, those ranked below it move up by one, and those ranked above  *)
(* it are no older than it is.  Only a run that picks a child of fork leaves  *)
(* the oldest where it is, and there are no more of these than forks: so      *)
(* SlowAging bounds all ages.                                                 *)

Rankings == {f \in [Slots -> Slots] : \A i, j \in Slots : f[i] = f[j] => i = j}

(* D runs have picked a child of fork so far.                                 *)
AgesRanked(P, D, f) ==
  /\ f[current] = 0
  /\ \A i \in Slots : pcb[i].priority_init <= P
  /\ \A i \in Slots : pcb[i].running /\ i # current =>
       pcb[i].priority_curr <= IF i \in undispatched THEN FORK_PRIORITY + D * P
                                                     ELSE (f[i] + D) * P

(* k forks have taken a stack so far, one for each child that had its turn    *)
(* and for each that waits.                                                   *)
ForksCounted(D, k) ==
  /\ current_tos_user = TOS_USER - (k + 1) * STACK_SIZE
  /\ D + Cardinality(undispatched) <= k

AgeInv(P, F) ==
  \E D \in Nat, k \in 0 .. F, f \in Rankings : AgesRanked(P, D, f) /\ ForksCounted(D, k)

(* Facts about products, which the provers take one at a time. *)
LEMMA OneMore == \A a, p \in Nat : (a + 1) * p = a * p + p /\ a * p \in Nat
OBVIOUS

LEMMA ProductGrows == \A a, b, p \in Nat : a <= b => a * p <= b * p
OBVIOUS

LEMMA ProductShrinks == \A a, b, p \in Nat : a * p < b * p => a < b
BY ProductGrows

(* A process that waits gets older by the highest priority at most. *)
LEMMA AgesSlowly ==
  ASSUME TypeOK, NEW P \in Nat, NEW i \in Slots, pcb[i].priority_init <= P
  PROVE  /\ UpdatedPriority(i) \in Nat
         /\ UpdatedPriority(i) <= pcb[i].priority_curr + P
         /\ i = current => UpdatedPriority(i) <= P
<1>1. /\ pcb[i].priority_curr \in Nat /\ pcb[i].priority_init \in Nat
      /\ PRIO_MOD \in Nat /\ PRIO_MOD > 0
  BY PriorityAssumption DEF TypeOK, Pcb, Prios
<1>2. \A n, m \in Nat : m > 0 => n % m \in Nat /\ n % m <= n
  <2> SUFFICES ASSUME NEW n \in Nat, NEW m \in Nat, m > 0
               PROVE  n % m \in Nat /\ n % m <= n
    OBVIOUS
  <2>1. CASE n < m
    BY <2>1, NoWrap
  <2>2. CASE ~(n < m)
    BY <2>2
  <2> QED BY <2>1, <2>2
<1>3. /\ (pcb[i].priority_curr + pcb[i].priority_init) % PRIO_MOD \in Nat
      /\ (pcb[i].priority_curr + pcb[i].priority_init) % PRIO_MOD
           <= pcb[i].priority_curr + pcb[i].priority_init
  BY <1>1, <1>2
<1> QED BY <1>1, <1>3 DEF UpdatedPriority

(* There are finitely many children that wait. *)
LEMMA UndispatchedFinite ==
  ASSUME TypeOK
  PROVE  IsFiniteSet(undispatched) /\ Cardinality(undispatched) \in Nat
<1>1. IsFiniteSet(Slots)
  BY TableAssumption, FS_Interval DEF Slots
<1> QED BY <1>1, FS_Subset, FS_CardinalityType DEF TypeOK

(* As long as the ages are ranked they are in order. *)
LEMMA RankedInOrder ==
  ASSUME TypeOK, BoostInv, NEW P, NEW F, SlowAging(P, F), AgeInv(P, F)
  PROVE  AgesInOrder
<1> PICK D \in Nat, k \in 0 .. F, f \in Rankings : AgesRanked(P, D, f) /\ ForksCounted(D, k)
  BY DEF AgeInv
<1> SUFFICES ASSUME NEW i \in Slots, pcb[i].running
             PROVE  /\ i # current =>
                         pcb[i].priority_curr + pcb[i].priority_init < PRIO_MOD
                    /\ i \notin undispatched => UpdatedPriority(i) < FORK_PRIORITY
  BY DEF AgesInOrder
<1>1. /\ P \in Nat /\ F \in Nat /\ k \in Nat /\ FORK_PRIORITY \in Nat /\ PRIO_MOD \in Nat
      /\ FORK_PRIORITY < PRIO_MOD /\ TABLE_SIZE \in Nat /\ TABLE_SIZE > 0
  BY PriorityAssumption, TableAssumption DEF SlowAging, Prios
<1>2. /\ pcb[i].priority_curr \in Nat /\ pcb[i].priority_init \in Nat
      /\ pcb[i].priority_init <= P
  BY DEF TypeOK, Pcb, Prios, AgesRanked
<1>3. IsFiniteSet(undispatched) /\ Cardinality(undispatched) \in Nat
  BY UndispatchedFinite
<1>4. f[i] \in Nat /\ f[i] + 1 <= TABLE_SIZE
  BY <1>1 DEF Rankings, Slots
<1>5. D <= F
  BY <1>1, <1>3 DEF ForksCounted
<1>6. /\ UpdatedPriority(i) \in Nat
      /\ UpdatedPriority(i) <= pcb[i].priority_curr + P
      /\ i = current => UpdatedPriority(i) <= P
  BY <1>1, <1>2, AgesSlowly
<1>7. CASE i = current
  <2>1. 1 * P <= (TABLE_SIZE + F) * P /\ (TABLE_SIZE + F) * P \in Nat
    <3>1. 1 <= TABLE_SIZE + F /\ TABLE_SIZE + F \in Nat
      BY <1>1
    <3> QED BY <1>1, <3>1, ProductGrows, OneMore
  <2> QED BY <1>1, <1>6, <1>7, <2>1 DEF SlowAging
<1>8. CASE i # current /\ i \notin undispatched
  <2>1. pcb[i].priority_curr <= (f[i] + D) * P
    BY <1>8 DEF AgesRanked
  <2>2. (f[i] + D) * P \in Nat /\ (f[i] + D + 1) * P = (f[i] + D) * P + P
    BY <1>1, <1>4, OneMore
  <2>3. (f[i] + D + 1) * P <= (TABLE_SIZE + F) * P
    <3>1. f[i] + D + 1 <= TABLE_SIZE + F /\ f[i] + D + 1 \in Nat /\ TABLE_SIZE + F \in Nat
      BY <1>1, <1>4, <1>5
    <3> QED BY <1>1, <3>1, ProductGrows
  <2>4. (TABLE_SIZE + F) * P < FORK_PRIORITY /\ (TABLE_SIZE + F) * P \in Nat
    BY <1>1, OneMore DEF SlowAging
  <2>5. pcb[i].priority_curr + P < FORK_PRIORITY
    BY <1>1, <1>2, <2>1, <2>2, <2>3, <2>4
  <2> QED BY <1>1, <1>2, <1>6, <2>5
<1>9. CASE i \in undispatched
  <2>1. i # current
    BY <1>9 DEF BoostInv
  <2>2. pcb[i].priority_curr <= FORK_PRIORITY + D * P
    BY <1>9, <2>1 DEF AgesRanked
  <2>3. D + 1 <= F
    <3>1. Cardinality(undispatched) # 0
      BY <1>3, <1>9, FS_EmptySet
    <3> QED BY <1>1, <1>3, <3>1 DEF ForksCounted
  <2>4. D * P \in Nat /\ (D + 1) * P = D * P + P
    BY <1>1, OneMore
  <2>5. (D + 1) * P <= F * P /\ F * P \in Nat
    BY <1>1, <2>3, ProductGrows, OneMore
  <2>6. pcb[i].priority_curr + P < PRIO_MOD
    BY <1>1, <1>2, <2>2, <2>4, <2>5 DEF SlowAging
  <2> QED BY <1>1, <1>2, <1>9, <2>6
<1> QED BY <1>7, <1>8, <1>9

(* What a scheduling decision does to the ages: the rank of the picked slot   *)
(* is the only one that is given up.                                          *)
LEMMA PickedIsOldest ==
  ASSUME TypeOK, NEW old \in Context, scheduler_run(old),
         NEW i \in Slots, pcb[i].running
  PROVE  /\ current' \in Slots
         /\ \/ UpdatedPriority(i) <= 0
            \/ pcb[current'].running /\ UpdatedPriority(i) <= UpdatedPriority(current')
<1>1. /\ \A j \in Slots : /\ AgedTable[j].running = pcb[j].running
                          /\ AgedTable[j].priority_curr = UpdatedPriority(j)
      /\ AgedTable \in [Slots -> Pcb]
  BY AgedTableType DEF AgedTable, TypeOK, Pcb
<1>2. \A j \in Slots : AgedTable[j].priority_curr \in Nat
  BY <1>1 DEF Pcb, Prios
<1>3. 0 \in Slots
  BY TableAssumption DEF Slots
<1> QED BY <1>1, <1>2, <1>3, SchedulerRunAges DEF IsNextPid

(* No child of fork waits: the picked slot gets rank 0 and those ranked below *)
(* it move up.                                                                *)
LEMMA OldestPicked ==
  ASSUME TypeOK, NEW P, NEW F, SlowAging(P, F), AgeInv(P, F),
         NEW old \in Context, scheduler_run(old), undispatched = {}
  PROVE  AgeInv(P, F)'
<1> PICK D \in Nat, k \in 0 .. F, f \in Rankings : AgesRanked(P, D, f) /\ ForksCounted(D, k)
  BY DEF AgeInv
<1> PICK m \in Slots : m = current'
  BY SchedulerRunAges, TableAssumption DEF IsNextPid, Slots
<1> DEFINE g == [i \in Slots |-> IF i = m THEN 0
                       ELSE IF f[i] < f[m] THEN f[i] + 1 ELSE f[i]]
<1>1. /\ P \in Nat /\ current \in Slots /\ 0 \in Slots
      /\ f \in [Slots -> Slots] /\ \A i, j \in Slots : f[i] = f[j] => i = j
      /\ f[current] = 0
  BY TableAssumption DEF TypeOK, Rankings, AgesRanked, SlowAging, Slots
<1>2. \A i \in Slots : f[i] \in Nat /\ f[i] < TABLE_SIZE
  <2>1. \A s \in Slots : s \in Nat /\ s < TABLE_SIZE
    BY TableAssumption DEF Slots
  <2>2. \A i \in Slots : f[i] \in Slots
    BY <1>1
  <2> QED BY <2>1, <2>2
<1>3. g \in Rankings
  <2>1. ASSUME NEW i \in Slots PROVE g[i] \in Slots
    <3>1. CASE f[i] < f[m]
      <4>1. f[i] + 1 \in Nat /\ f[i] + 1 <= TABLE_SIZE - 1
        BY <1>2, <3>1, TableAssumption
      <4>2. f[i] + 1 \in Slots
        BY <4>1, TableAssumption DEF Slots
      <4> QED BY <1>1, <4>2
    <3>2. CASE ~(f[i] < f[m])
      BY <1>1, <3>2
    <3> QED BY <3>1, <3>2
  <2>2. ASSUME NEW i \in Slots, NEW j \in Slots, g[i] = g[j], i # j PROVE FALSE
    <3>1. f[i] # f[j] /\ (i # m => f[i] # f[m]) /\ (j # m => f[j] # f[m])
      BY <1>1, <2>2
    <3> QED BY <1>1, <1>2, <2>2, <3>1
  <2> QED BY <2>1, <2>2 DEF Rankings
<1>4. undispatched' = {} /\ current_tos_user' = current_tos_user
  BY SchedulerRunAges DEF scheduler_run
<1>5. \A i \in Slots : pcb'[i].priority_init <= P
  BY SchedulerRunAges DEF AgesRanked
<1>6. ASSUME NEW i \in Slots, pcb[i].running, i # m
      PROVE  UpdatedPriority(i) <= (g[i] + D) * P
  <2>1. \A j \in Slots : /\ UpdatedPriority(j) \in Nat
                         /\ UpdatedPriority(j) <= pcb[j].priority_curr + P
                         /\ j = current => UpdatedPriority(j) <= P
                         /\ pcb[j].priority_curr \in Nat
    BY <1>1, AgesSlowly DEF AgesRanked, TypeOK, Pcb, Prios
  <2>2. ASSUME NEW j \in Slots, pcb[j].running
        PROVE  UpdatedPriority(j) <= (f[j] + D + 1) * P
    <3>1. CASE j = current
      <4>1. 1 * P <= (f[j] + D + 1) * P
        BY <1>1, <1>2, ProductGrows
      <4> QED BY <1>1, <1>2, <2>1, <3>1, <4>1
    <3>2. CASE j # current
      <4>1. pcb[j].priority_curr <= (f[j] + D) * P
        BY <2>2, <3>2 DEF AgesRanked
      <4>2. (f[j] + D + 1) * P = (f[j] + D) * P + P /\ (f[j] + D) * P \in Nat
        BY <1>1, <1>2, OneMore
      <4> QED BY <1>1, <2>1, <4>1, <4>2
    <3> QED BY <3>1, <3>2
  <2>3. f[i] \in Nat /\ f[m] \in Nat /\ f[i] # f[m]
    BY <1>1, <1>2, <1>6
  <2>4. CASE f[i] < f[m]
    <3>1. g[i] = f[i] + 1 /\ f[i] \in Nat
      BY <1>2, <1>6, <2>4
    <3>2. f[i] + 1 + D = f[i] + D + 1
      BY <3>1
    <3> QED BY <1>6, <2>2, <3>1, <3>2
  <2>5. CASE f[m] < f[i]
    <3>1. g[i] = f[i] /\ f[m] + 1 <= f[i] /\ f[i] \in Nat /\ f[m] \in Nat
      BY <1>1, <1>2, <1>6, <2>5
    <3>2. (f[m] + D + 1) * P <= (g[i] + D) * P /\ 0 <= (g[i] + D) * P
      BY <1>1, <3>1, ProductGrows, OneMore
    <3>3. /\ (f[m] + D + 1) * P \in Nat /\ (g[i] + D) * P \in Nat
      BY <1>1, <3>1, OneMore
    <3>4. \/ UpdatedPriority(i) <= 0
          \/ pcb[m].running /\ UpdatedPriority(i) <= UpdatedPriority(m)
      BY <1>6, PickedIsOldest
    <3>5. CASE UpdatedPriority(i) <= 0
      BY <2>1, <3>2, <3>3, <3>5
    <3>6. CASE pcb[m].running /\ UpdatedPriority(i) <= UpdatedPriority(m)
      BY <2>1, <2>2, <3>2, <3>3, <3>6
    <3> QED BY <3>4, <3>5, <3>6
  <2> QED BY <2>3, <2>4, <2>5
<1>7. AgesRanked(P, D, g)'
  <2>1. g[m] = 0
    BY <1>1
  <2>2. \A i \in Slots : /\ pcb'[i].running = pcb[i].running
                         /\ pcb'[i].priority_curr = UpdatedPriority(i)
    BY SchedulerRunAges
  <2> HIDE DEF g
  <2> QED BY <1>4, <1>5, <1>6, <2>1, <2>2 DEF AgesRanked
<1>8. ForksCounted(D, k)'
  BY <1>4 DEF ForksCounted
<1> HIDE DEF g
<1> QED BY <1>3, <1>7, <1>8 DEF AgeInv

(* A child of fork is picked: it trades ranks with the process it interrupts. *)
LEMMA ChildPicked ==
  ASSUME TypeOK, NEW P, NEW F, SlowAging(P, F), AgeInv(P, F), BoostInv,
         NEW old \in Context, scheduler_run(old), current' \in undispatched
  PROVE  AgeInv(P, F)'
<1> PICK D \in Nat, k \in 0 .. F, f \in Rankings : AgesRanked(P, D, f) /\ ForksCounted(D, k)
  BY DEF AgeInv
<1> PICK m \in Slots, c \in Slots : m = current' /\ c = current
  BY DEF TypeOK
<1> DEFINE g == [f EXCEPT ![m] = 0, ![c] = f[m]]
<1>1. /\ P \in Nat /\ m # c
      /\ f \in [Slots -> Slots] /\ \A i, j \in Slots : f[i] = f[j] => i = j
      /\ f[c] = 0 /\ k \in Nat
  BY DEF TypeOK, Rankings, AgesRanked, SlowAging, BoostInv
<1>2. /\ \A i \in Slots : f[i] \in Nat
      /\ 0 \in Slots
  BY <1>1, TableAssumption DEF Slots
<1>3. g \in Rankings
  <2>1. \A i \in Slots : g[i] = IF i = c THEN f[m] ELSE IF i = m THEN 0 ELSE f[i]
    BY <1>1
  <2>2. g \in [Slots -> Slots]
    BY <1>1, <1>2
  <2> HIDE DEF g
  <2> QED BY <1>1, <2>1, <2>2 DEF Rankings
<1>4. undispatched' = undispatched \ {m} /\ current_tos_user' = current_tos_user
  BY SchedulerRunAges DEF scheduler_run
<1>5. \A i \in Slots : pcb'[i].priority_init <= P
  BY SchedulerRunAges DEF AgesRanked
<1>6. ASSUME NEW i \in Slots, pcb[i].running, i # m
      PROVE  UpdatedPriority(i) <= IF i \in undispatched
                                   THEN FORK_PRIORITY + (D + 1) * P
                                   ELSE (g[i] + (D + 1)) * P
  <2>1. /\ UpdatedPriority(i) \in Nat
        /\ UpdatedPriority(i) <= pcb[i].priority_curr + P
        /\ i = c => UpdatedPriority(i) <= P
        /\ pcb[i].priority_curr \in Nat /\ FORK_PRIORITY \in Nat
    BY <1>1, AgesSlowly, PriorityAssumption DEF AgesRanked, TypeOK, Pcb, Prios
  <2>2. CASE i = c
    <3>1. i \notin undispatched /\ g[i] = f[m] /\ f[m] \in Nat
      BY <1>1, <1>2, <2>2 DEF BoostInv
    <3>2. 1 * P <= (g[i] + (D + 1)) * P /\ (g[i] + (D + 1)) * P \in Nat
      BY <1>1, <3>1, ProductGrows, OneMore
    <3> QED BY <1>1, <2>1, <2>2, <3>1, <3>2
  <2>3. CASE i # c /\ i \in undispatched
    <3>1. pcb[i].priority_curr <= FORK_PRIORITY + D * P
      BY <1>6, <2>3 DEF AgesRanked
    <3>2. (D + 1) * P = D * P + P /\ D * P \in Nat
      BY <1>1, OneMore
    <3> QED BY <1>1, <2>1, <2>3, <3>1, <3>2
  <2>4. CASE i # c /\ i \notin undispatched
    <3>1. g[i] = f[i] /\ f[i] \in Nat
      BY <1>1, <1>2, <1>6, <2>4
    <3>2. pcb[i].priority_curr <= (f[i] + D) * P
      BY <1>6, <2>4 DEF AgesRanked
    <3>3. (f[i] + D + 1) * P = (f[i] + D) * P + P /\ (f[i] + D) * P \in Nat
      BY <1>1, <3>1, OneMore
    <3>4. f[i] + D + 1 = f[i] + (D + 1)
      BY <3>1
    <3> QED BY <1>1, <2>1, <2>4, <3>1, <3>2, <3>3, <3>4
  <2> QED BY <2>2, <2>3, <2>4
<1>7. AgesRanked(P, D + 1, g)'
  <2>1. g[m] = 0
    BY <1>1
  <2>2. \A i \in Slots : /\ pcb'[i].running = pcb[i].running
                         /\ pcb'[i].priority_curr = UpdatedPriority(i)
    BY SchedulerRunAges
  <2> HIDE DEF g
  <2> QED BY <1>4, <1>5, <1>6, <2>1, <2>2 DEF AgesRanked
<1>8. ForksCounted(D + 1, k)'
  <2>1. IsFiniteSet(undispatched) /\ Cardinality(undispatched) \in Nat
    BY UndispatchedFinite
  <2>2. Cardinality(undispatched \ {m}) = Cardinality(undispatched) - 1
    BY <2>1, FS_RemoveElement
  <2> QED BY <1>1, <1>4, <2>1, <2>2 DEF ForksCounted
<1>9. D + 1 \in Nat
  OBVIOUS
<1> HIDE DEF g
<1> QED BY <1>3, <1>7, <1>8, <1>9 DEF AgeInv

(* The handlers that run no scheduling decision age nobody.  Slot 0 may take  *)
(* the processor over (exit), and trades ranks with the slot that had it.     *)
LEMMA AgesKept ==
  ASSUME TypeOK, NEW P, NEW F, SlowAging(P, F), AgeInv(P, F),
         current_tos_user' = current_tos_user,
         undispatched' \subseteq undispatched,
         current' \in Slots, current' # current => ~pcb'[current].running,
         \A i \in Slots : pcb'[i].priority_init <= P,
         \A i \in Slots : pcb'[i].running /\ i # current =>
           /\ pcb[i].running /\ pcb'[i].priority_curr = pcb[i].priority_curr
           /\ i \in undispatched /\ i # current' => i \in undispatched'
  PROVE  AgeInv(P, F)'
<1> PICK D \in Nat, k \in 0 .. F, f \in Rankings : AgesRanked(P, D, f) /\ ForksCounted(D, k)
  BY DEF AgeInv
<1> PICK m \in Slots, c \in Slots : m = current' /\ c = current
  BY DEF TypeOK
<1> DEFINE g == [f EXCEPT ![c] = f[m], ![m] = 0]
<1>1. /\ f \in [Slots -> Slots] /\ \A i, j \in Slots : f[i] = f[j] => i = j
      /\ f[c] = 0 /\ 0 \in Slots
  BY TableAssumption DEF Rankings, AgesRanked, Slots
<1>2. \A i \in Slots : g[i] = IF i = m THEN 0 ELSE IF i = c THEN f[m] ELSE f[i]
  BY <1>1
<1>3. g \in Rankings
  <2>1. g \in [Slots -> Slots]
    BY <1>1
  <2> HIDE DEF g
  <2> QED BY <1>1, <1>2, <2>1 DEF Rankings
<1>4. AgesRanked(P, D, g)'
  <2>1. g[m] = 0 /\ \A i \in Slots : i # m /\ i # c => g[i] = f[i]
    BY <1>2
  <2> HIDE DEF g
  <2>2. ASSUME NEW i \in Slots, pcb'[i].running, i # m
        PROVE  pcb'[i].priority_curr <= IF i \in undispatched' THEN FORK_PRIORITY + D * P
                                                               ELSE (g[i] + D) * P
    <3>1. i # c
      <4>1. CASE m = c
        BY <2>2, <4>1
      <4>2. CASE m # c
        BY <2>2, <4>2
      <4> QED BY <4>1, <4>2
    <3>2. /\ pcb[i].running /\ pcb'[i].priority_curr = pcb[i].priority_curr
          /\ i \in undispatched <=> i \in undispatched'
      BY <2>2, <3>1
    <3> QED BY <2>1, <2>2, <3>1, <3>2 DEF AgesRanked
  <2> QED BY <2>1, <2>2 DEF AgesRanked
<1>5. ForksCounted(D, k)'
  <2>1. IsFiniteSet(undispatched) /\ Cardinality(undispatched) \in Nat
    BY UndispatchedFinite
  <2>2. /\ Cardinality(undispatched') <= Cardinality(undispatched)
        /\ Cardinality(undispatched') \in Nat
    BY <2>1, FS_Subset, FS_CardinalityType
  <2>3. k \in Nat
    BY DEF SlowAging
  <2> QED BY <2>1, <2>2, <2>3 DEF ForksCounted
<1> HIDE DEF g
<1> QED BY <1>3, <1>4, <1>5 DEF AgeInv

(* A fork adds a child, and uses up one of the F stacks. *)
LEMMA ForkCounted ==
  ASSUME TypeOK, BoostInv, NEW P, NEW F, SlowAging(P, F), AgeInv(P, F),
         NEW n \in Slots, ~pcb[n].running, n # current, current' = current,
         pcb' = [pcb EXCEPT ![n] = ChildPcb(n)],
         current_tos_user > TOS_BOUND,
         current_tos_user' = current_tos_user - STACK_SIZE,
         undispatched' = undispatched \cup {n}
  PROVE  AgeInv(P, F)'
<1> PICK D \in Nat, k \in 0 .. F, f \in Rankings : AgesRanked(P, D, f) /\ ForksCounted(D, k)
  BY DEF AgeInv
<1>1. /\ P \in Nat /\ F \in Nat /\ k \in Nat /\ FORK_PRIORITY \in Nat
      /\ STACK_SIZE \in Nat /\ STACK_SIZE > 0 /\ TOS_USER \in Int /\ TOS_BOUND \in Int
      /\ current \in Slots
  BY PriorityAssumption, StackAssumption DEF SlowAging, Prios, TypeOK
<1>2. k + 1 \in 0 .. F
  <2>1. /\ TOS_USER - (k + 1) * STACK_SIZE > TOS_BOUND
        /\ TOS_USER - (F + 1) * STACK_SIZE <= TOS_BOUND
    BY DEF ForksCounted, SlowAging
  <2>2. /\ (k + 1) * STACK_SIZE \in Nat /\ (F + 1) * STACK_SIZE \in Nat
    BY <1>1, OneMore
  <2>3. (k + 1) * STACK_SIZE < (F + 1) * STACK_SIZE
    BY <1>1, <2>1, <2>2
  <2>4. k + 1 < F + 1
    BY <1>1, <2>3, ProductShrinks
  <2> QED BY <1>1, <2>4
<1>3. ForksCounted(D, k + 1)'
  <2>1. IsFiniteSet(undispatched) /\ Cardinality(undispatched) \in Nat
    BY UndispatchedFinite
  <2>2. n \notin undispatched
    BY DEF BoostInv
  <2>3. Cardinality(undispatched') = Cardinality(undispatched) + 1
    BY <2>1, <2>2, FS_AddElement
  <2>4. (k + 1 + 1) * STACK_SIZE = (k + 1) * STACK_SIZE + STACK_SIZE
        /\ (k + 1) * STACK_SIZE \in Nat
    BY <1>1, OneMore
  <2> QED BY <1>1, <2>1, <2>3, <2>4 DEF ForksCounted
<1>4. AgesRanked(P, D, f)'
  <2>1. /\ pcb'[n] = ChildPcb(n)
        /\ \A i \in Slots : i # n => pcb'[i] = pcb[i]
    BY DEF TypeOK
  <2>2. /\ ChildPcb(n).priority_init = pcb[current].priority_init
        /\ ChildPcb(n).priority_curr = FORK_PRIORITY
    BY DEF ChildPcb
  <2>3. D * P \in Nat
    BY <1>1, OneMore
  <2>4. pcb'[n].priority_curr <= FORK_PRIORITY + D * P
    BY <1>1, <2>1, <2>2, <2>3
  <2>5. \A i \in Slots : pcb'[i].priority_init <= P
    BY <1>1, <2>1, <2>2 DEF AgesRanked
  <2>6. ASSUME NEW i \in Slots, pcb'[i].running, i # current
        PROVE  pcb'[i].priority_curr <= IF i \in undispatched' THEN FORK_PRIORITY + D * P
                                                               ELSE (f[i] + D) * P
    BY <2>1, <2>4, <2>6 DEF AgesRanked
  <2> QED BY <2>5, <2>6 DEF AgesRanked
<1> QED BY <1>2, <1>3, <1>4 DEF AgeInv

(* Every step keeps the ages ranked. *)
LEMMA AgeStep ==
  ASSUME ConsoleSafe, NEW P, NEW F, SlowAging(P, F)
  PROVE  TypeOK /\ PidsMatchSlots /\ ConsoleInv /\ BoostInv /\ AgeInv(P, F) /\ [Next]_vars
           => AgeInv(P, F)'
<1> SUFFICES ASSUME TypeOK, PidsMatchSlots, ConsoleInv, BoostInv, AgeInv(P, F), [Next]_vars
             PROVE  AgeInv(P, F)'
  OBVIOUS
<1>0. /\ current \in Slots /\ pcb[current].running /\ 0 \in Slots
      /\ \A i \in Slots : pcb[i].priority_init <= P
  BY TableAssumption DEF TypeOK, ConsoleInv, AgeInv, AgesRanked, Slots
<1>1. ASSUME NEW old \in Context, scheduler_run(old) PROVE AgeInv(P, F)'
  <2>1. CASE undispatched = {}
    BY <1>1, <2>1, OldestPicked
  <2>2. CASE undispatched # {}
    BY <1>1, <2>2, RankedInOrder, RunPicksChild, ChildPicked
  <2> QED BY <2>1, <2>2
<1>2. CASE Fork
  <2>1. ASSUME NEW n \in Slots, IsNewPid(n), pcb' = [pcb EXCEPT ![n] = ChildPcb(n)],
               current_tos_user' = current_tos_user - STACK_SIZE,
               undispatched' = undispatched \cup {n}
        PROVE  AgeInv(P, F)'
    <3>1. ~pcb[n].running /\ n # current
      BY <1>0, <2>1 DEF IsNewPid
    <3> QED BY <1>2, <2>1, <3>1, ForkCounted DEF Fork
  <2>2. CASE UNCHANGED <<pcb, current_tos_user, undispatched>>
    BY <1>0, <1>2, <2>2, AgesKept DEF Fork
  <2> QED BY <1>2, <2>1, <2>2 DEF Fork
<1>3. ASSUME NEW image \in Images, NEW priority \in Priorities, Exec(image, priority)
      PROVE  AgeInv(P, F)'
  <2>1. /\ \A i \in Slots : i # current => pcb'[i] = pcb[i]
        /\ pcb'[current].priority_init = priority
    BY <1>0, <1>3 DEF Exec, ExecPcb, TypeOK
  <2>2. \A i \in Slots : pcb'[i].priority_init <= P
    BY <1>0, <2>1 DEF SlowAging
  <2> QED BY <1>0, <1>3, <2>1, <2>2, AgesKept DEF Exec
<1>4. ASSUME NEW S, pcb' = Stop(S)
      PROVE  \A i \in Slots : /\ pcb'[i].running <=> pcb[i].running /\ i \notin S
                              /\ pcb'[i].priority_curr = pcb[i].priority_curr
                              /\ pcb'[i].priority_init = pcb[i].priority_init
  <2> SUFFICES ASSUME NEW i \in Slots
               PROVE  /\ pcb'[i].running <=> pcb[i].running /\ i \notin S
                      /\ pcb'[i].priority_curr = pcb[i].priority_curr
                      /\ pcb'[i].priority_init = pcb[i].priority_init
    OBVIOUS
  <2>1. pcb[i] \in Pcb /\ pcb'[i] = [pcb[i] EXCEPT !.running = pcb[i].running /\ i \notin S]
    BY <1>4 DEF TypeOK, Stop
  <2>2. /\ pcb'[i].priority_curr = pcb[i].priority_curr
        /\ pcb'[i].priority_init = pcb[i].priority_init
    BY <2>1 DEF Pcb
  <2> QED BY <1>4, <2>2, StopEffect
<1>5. ASSUME NEW code \in ExitCodes, Exit(code) PROVE AgeInv(P, F)'
  <2>1. CASE pcb' = Stop({current}) /\ current' = 0 /\ undispatched' = undispatched \ {0}
    <3>1. \A i \in Slots : pcb'[i].priority_init <= P
      BY <1>0, <1>4, <2>1
    <3>2. /\ ~pcb'[current].running
          /\ \A i \in Slots : pcb'[i].running =>
               pcb[i].running /\ pcb'[i].priority_curr = pcb[i].priority_curr
      BY <1>0, <1>4, <2>1
    <3> QED BY <1>0, <1>5, <2>1, <3>1, <3>2, AgesKept DEF Exit
  <2>2. CASE UNCHANGED <<pcb, current, undispatched>>
    BY <1>0, <1>5, <2>2, AgesKept DEF Exit
  <2> QED BY <1>5, <2>1, <2>2 DEF Exit
<1>6. ASSUME NEW p \in KillPids, Kill(p) PROVE AgeInv(P, F)'
  <2>1. \A i \in Slots : pcb'[i].priority_init <= P
    BY <1>0, <1>4, <1>6 DEF Kill
  <2>2. \A i \in Slots : pcb'[i].running =>
          /\ pcb[i].running /\ pcb'[i].priority_curr = pcb[i].priority_curr
          /\ i \in undispatched => i \in undispatched'
    BY <1>4, <1>6 DEF Kill
  <2> QED BY <1>0, <1>6, <2>1, <2>2, AgesKept DEF Kill
<1>7. CASE UNCHANGED vars
  BY <1>0, <1>7, AgesKept DEF vars
<1>8. CASE Timer \/ Yield
  BY <1>1, <1>8, YieldContext DEF Timer, Yield, TypeOK
<1> QED BY <1>2, <1>3, <1>5, <1>6, <1>7, <1>8 DEF Next

(* At boot only the console runs, and no fork has taken a stack. *)
LEMMA AgeInit ==
  ASSUME NEW P, NEW F, SlowAging(P, F)
  PROVE  Init => AgeInv(P, F)
<1> SUFFICES ASSUME Init PROVE AgeInv(P, F)
  OBVIOUS
<1> DEFINE f == [i \in Slots |-> i]
<1>1. f \in Rankings /\ f[0] = 0
  <2>1. 0 \in Slots
    BY TableAssumption DEF Slots
  <2>2. f \in [Slots -> Slots] /\ \A i \in Slots : f[i] = i
    OBVIOUS
  <2> HIDE DEF f
  <2> QED BY <2>1, <2>2 DEF Rankings
<1>2. AgesRanked(P, 0, f)
  <2>1. \A i \in Slots : /\ i # 0 => ~pcb[i].running
                         /\ pcb[i].priority_init \in {0, 2}
    BY DEF Init, ConsolePcb, ZeroPcb
  <2> QED BY <1>1, <2>1 DEF AgesRanked, Init, SlowAging
<1>3. ForksCounted(0, 0)
  BY FS_EmptySet, StackAssumption DEF ForksCounted, Init
<1>4. 0 \in 0 .. F /\ 0 \in Nat
  BY DEF SlowAging
<1> HIDE DEF f
<1> QED BY <1>1, <1>2, <1>3, <1>4 DEF AgeInv

(* Nobody waits long enough to come before a child of fork, and no priority   *)
(* wraps, whatever the programs do, when FORK_PRIORITY is above the highest   *)
(* priority times the slots of the table and the forks there is stack for.    *)
THEOREM AgesStayInOrder ==
  ASSUME ConsoleSafe, NEW P, NEW F, SlowAging(P, F)
  PROVE  Spec => []AgesInOrder
<1>1. Init => BoostInv
  BY DEF Init, BoostInv
<1>2. TypeOK /\ BoostInv /\ AgeInv(P, F) => AgesInOrder
  BY RankedInOrder
<1>3. Spec => [](BoostInv /\ AgeInv(P, F))
  BY <1>1, <1>2, AgeInit, AgeStep, BoostStep, ConsoleForever, TypeCorrect, PidsCorrect, PTL
  DEF Spec
<1> QED BY <1>2, <1>3, TypeCorrect, PTL

(* What fork promises (scheduler.c:93), without a condition on the run: the   *)
(* next to run is a child that waits for its first turn.                      *)
THEOREM ChildAlwaysRunsNext ==
  ASSUME ConsoleSafe, NEW P, NEW F, SlowAging(P, F)
  PROVE  Spec => ChildRunsNext
BY AgesStayInOrder, ChildRunsNextInOrder, PTL

=============================================================================
