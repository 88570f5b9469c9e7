-------------------------------- MODULE Traps --------------------------------
(* The way into the kernel and back: the system-call stubs of user/libc.c, the *)
(* assembly handlers of kernel/lolevel.s and the C handlers of kernel/hilevel.c *)
(* around the register context, from reset on.                                *)
(*                                                                            *)
(* One instruction of a stub, or of the end of the reset handler, is a step.   *)
(* The other two handlers run with interrupts masked and are one step each.   *)
(* Which running process the scheduler picks is left open (module Scheduler), *)
(* and so is what the kernel answers to a call (modules Ipc and Files): an    *)
(* answer only tells caller, function and arguments apart.                    *)
EXTENDS Integers

CONSTANTS
  TABLE_SIZE,        \* slots of the process table
  ConsoleCalls,      \* the stubs the console uses
  ProgramCalls       \* the stubs the other programs use

Slots == 0 .. TABLE_SIZE - 1

\* svc numbers of the stubs, and how many registers each loads: r0 and up
SYS == [yield |-> 0, get_pid |-> 1, fork |-> 2, exec |-> 3, exit |-> 4, kill |-> 6,
        msend |-> 7, mreceive |-> 8, make_pipe |-> 9, get_parent_pid |-> 19,
        open |-> 32, close |-> 33, read |-> 34, write |-> 35]
Params == [yield |-> 0, get_pid |-> 0, fork |-> 0, exec |-> 2, exit |-> 1, kill |-> 2,
           msend |-> 4, mreceive |-> 2, make_pipe |-> 2, get_parent_pid |-> 0,
           open |-> 1, close |-> 1, read |-> 3, write |-> 3]
NoResult == {"yield", "exec", "exit"}

Stubs == DOMAIN SYS

ASSUME TrapsAssumption ==
  /\ TABLE_SIZE \in Nat \ {0}
  /\ ConsoleCalls \subseteq Stubs \ {"exit", "exec"}
  /\ ProgramCalls \subseteq Stubs \ {"kill", "exec"}

VARIABLES
  cpu,               \* [cpsr, pc, gpr]: what a context keeps of the processor
  svc,               \* [lr, spsr]: the banked registers of SVC mode
  frame,             \* the dummy context the reset handler makes on its stack
  pcb,               \* slot -> [running, ctx]
  current,
  line,              \* whether the timer asks for an interrupt
  gic,               \* the interrupt controller: off, idle, or serving one
  elapsed            \* whether any instruction ran since the timer last fired

kernel_vars == <<svc, frame, pcb, current>>
device_vars == <<line, gic>>
vars == <<cpu, kernel_vars, device_vars, elapsed>>

Num(n) == <<"num", n>>
Junk == <<"junk">>
\* what process p passes as the k-th parameter of f
Arg(p, f, k) == IF f = "exit" THEN Num(0) ELSE <<"arg", p, k>>
Result(p, f, args) == <<"result", p, f, args>>
\* what r4 and up, sp and lr hold while p is in a stub: all p needs
Own(p) == <<"own", p>>

\* gpr[0] .. gpr[3] are r0 .. r3
KEPT == 4
Gprs == 0 .. KEPT
NoGprs == [r \in Gprs |-> Num(0)]

\* CPSR: the mode in bits 0 to 4, interrupts masked by bit 7
USR == 16
SVC == 19
Mode(cpsr) == cpsr % 32
Masked(cpsr) == (cpsr \div 128) % 2 = 1
UserCpsr == 80
ResetCpsr == 211
int_enable_irq(cpsr) == IF Masked(cpsr) THEN cpsr - 128 ELSE cpsr

\* instruction n of function fn
At(fn, n) == [fn |-> fn, n |-> n]
Main == At("main", 0)
Child == At("child", 0)
After(pc) == At(pc.fn, pc.n + 1)

Ctx(cpsr, pc, gpr) == [cpsr |-> cpsr, pc |-> pc, gpr |-> gpr]
ZeroCtx == Ctx(0, At("none", 0), NoGprs)
ConsoleCtx == Ctx(UserCpsr, Main, NoGprs)

Argument == {Junk} \cup ({"arg"} \X Slots \X (0 .. KEPT - 1))
Arguments == UNION {[0 .. n - 1 -> Argument] : n \in 0 .. KEPT}
Value == ({"num"} \X Int) \cup Argument \cup ({"own"} \X Slots)
           \cup ({"result"} \X Slots \X Stubs \X Arguments)
Pc == {At(f, n) : f \in {"none", "main", "child"}, n \in {0}}
        \cup {At("rst", n) : n \in 0 .. 4}
        \cup UNION {{At(f, n) : n \in 0 .. Params[f] + 1} : f \in Stubs}
Context == [cpsr : Nat, pc : Pc, gpr : [Gprs -> Value]]

TypeOK ==
  /\ cpu \in Context
  /\ svc \in [lr : Pc, spsr : Nat]
  /\ frame \in Context
  /\ pcb \in [Slots -> [running : BOOLEAN, ctx : Context]]
  /\ current \in Slots
  /\ line \in BOOLEAN
  /\ gic \in {"off", "idle", "active"}
  /\ elapsed \in BOOLEAN

Init ==
  /\ cpu = Ctx(ResetCpsr, At("rst", 0), [r \in Gprs |-> Junk])
  /\ svc = [lr |-> At("none", 0), spsr |-> 0]
  /\ frame = ZeroCtx
  /\ pcb = [i \in Slots |-> [running |-> FALSE, ctx |-> ZeroCtx]]
  /\ current = 0
  /\ line = FALSE /\ gic = "off"
  /\ elapsed = FALSE

----------------------------------------------------------------------------
(* The timer and the interrupt controller.  The line stays up until the timer  *)
(* is told; the controller passes on one interrupt until it is told.           *)

TimerFires ==
  /\ gic # "off" /\ elapsed
  /\ line' = TRUE
  /\ elapsed' = FALSE
  /\ UNCHANGED <<cpu, kernel_vars, gic>>

\* the processor takes an interrupt before the next instruction
IrqPending == line /\ gic = "idle" /\ ~Masked(cpu.cpsr)

\* an instruction is executed
Executes == ~IrqPending /\ elapsed' = TRUE

----------------------------------------------------------------------------
(* Reset.  hilevel_handler_rst ends by enabling interrupts, so the timer may    *)
(* interrupt what is left of lolevel_handler_rst, in SVC mode.                  *)

Reset ==
  /\ cpu.pc = At("rst", 0)
  /\ Executes
  /\ frame' = ConsoleCtx
  /\ pcb' = [i \in Slots |-> IF i = 0 THEN [running |-> TRUE, ctx |-> ConsoleCtx]
                             ELSE [running |-> FALSE, ctx |-> ZeroCtx]]
  /\ current' = 0
  /\ gic' = "idle"
  /\ cpu' = [cpu EXCEPT !.cpsr = int_enable_irq(@), !.pc = After(@)]
  /\ UNCHANGED <<svc, line>>

\* ldmia sp!, { r0, lr }
LoadPc ==
  /\ cpu.pc = At("rst", 1)
  /\ Executes
  /\ cpu' = [cpu EXCEPT !.pc = After(@), !.gpr[0] = Num(frame.cpsr)]
  /\ svc' = [svc EXCEPT !.lr = frame.pc]
  /\ UNCHANGED <<frame, pcb, current, device_vars>>

\* msr spsr, r0
SetSpsr ==
  /\ cpu.pc = At("rst", 2)
  /\ Executes
  /\ cpu' = [cpu EXCEPT !.pc = After(@)]
  /\ svc' = [svc EXCEPT !.spsr = cpu.gpr[0][2]]
  /\ UNCHANGED <<frame, pcb, current, device_vars>>

\* ldmia sp, { r0-r12, sp, lr }^
LoadRegisters ==
  /\ cpu.pc = At("rst", 3)
  /\ Executes
  /\ cpu' = [cpu EXCEPT !.pc = After(@), !.gpr = frame.gpr]
  /\ UNCHANGED <<kernel_vars, device_vars>>

\* Wrong on purpose: mov pc, lr, which leaves the mode as it is.
LeaveInMode(lr, spsr) == [cpu EXCEPT !.pc = lr]

\* movs pc, lr
return_from_interrupt(lr, spsr) == [cpu EXCEPT !.pc = lr, !.cpsr = spsr]

Leave ==
  /\ cpu.pc = At("rst", 4)
  /\ Executes
  /\ cpu' = return_from_interrupt(svc.lr, svc.spsr)
  /\ UNCHANGED <<kernel_vars, device_vars>>

Boot == Reset \/ LoadPc \/ SetSpsr \/ LoadRegisters \/ Leave

----------------------------------------------------------------------------
(* What the handlers do with the saved context c of the interrupted process:   *)
(* the processor goes on with what they leave.                                 *)

scheduler_run(c) ==
  \E n \in Slots :
    /\ pcb[n].running
    /\ pcb' = [pcb EXCEPT ![current].ctx = c]
    /\ cpu' = pcb'[n].ctx
    /\ current' = n
    /\ UNCHANGED <<svc, frame>>

Answer(c, value) == [c EXCEPT !.gpr[0] = value]

IsNewPid(n) == ~pcb[n].running /\ \A j \in Slots : j < n => pcb[j].running

scheduler_fork(c) ==
  /\ \/ \E n \in Slots :
          /\ IsNewPid(n)
          /\ pcb' = [pcb EXCEPT ![n] =
                       [running |-> TRUE,
                        ctx |-> [Answer(c, Num(0)) EXCEPT !.cpsr = UserCpsr]]]
          /\ cpu' = Answer(c, Num(n))
     \/ /\ \A n \in Slots : pcb[n].running
        /\ cpu' = Answer(c, Num(-1))
        /\ UNCHANGED pcb
  /\ UNCHANGED <<svc, frame, current>>

\* the program at an address: what the caller passed as its first parameter
Entry(address) == IF address = Arg(current, "exec", 0) THEN Main ELSE At("none", 0)

scheduler_exec(c) ==
  /\ pcb' = [pcb EXCEPT ![current].ctx.pc = Entry(c.gpr[0])]
  /\ cpu' = pcb'[current].ctx
  /\ UNCHANGED <<svc, frame, current>>

scheduler_exit(c) ==
  /\ IF c.gpr[0] = Num(0)
     THEN /\ pcb' = [pcb EXCEPT ![current].running = FALSE]
          /\ current' = 0
          /\ cpu' = pcb[0].ctx
     ELSE cpu' = c /\ UNCHANGED <<pcb, current>>
  /\ UNCHANGED <<svc, frame>>

Serves(id, fn, gprs) == [id |-> id, fn |-> fn, gprs |-> gprs]

\* the cases of the switch that only call a kernel function: its number, and
\* how many registers it is given, r0 and up.  Other numbers do nothing; no
\* stub uses one.
Services ==
  {Serves(1, "get_pid", 0), Serves(6, "kill", 2), Serves(7, "msend", 4),
   Serves(8, "mreceive", 2), Serves(9, "make_pipe", 2), Serves(19, "get_parent_pid", 0),
   Serves(32, "open", 1), Serves(33, "close", 1), Serves(34, "read", 3),
   Serves(35, "write", 3)}

Served(c, s) == Answer(c, Result(current, s.fn, [k \in 0 .. s.gprs - 1 |-> c.gpr[k]]))

\* kill stops one of the others, all of them, or no one.  That the user kills
\* the console itself is left out.
Killed == {{}, Slots \ {0}} \cup {{i} : i \in Slots \ {0}}

Kills(s) ==
  \/ s.fn # "kill" /\ UNCHANGED pcb
  \/ /\ s.fn = "kill"
     /\ \E S \in Killed :
          pcb' = [i \in Slots |-> [pcb[i] EXCEPT !.running = @ /\ i \notin S]]

hilevel_handler_svc(c, id) ==
  \/ id = 0 /\ scheduler_run(c)
  \/ id = 2 /\ scheduler_fork(c)
  \/ id = 3 /\ scheduler_exec(c)
  \/ id = 4 /\ scheduler_exit(c)
  \/ \E s \in Services :
       /\ s.id = id
       /\ cpu' = Served(c, s)
       /\ Kills(s)
       /\ UNCHANGED <<svc, frame, current>>

\* Wrong on purpose: the timer's line stays up.
LineUncleared == line' = line

Timer1IntClr == line' = FALSE

\* Wrong on purpose: the end of the interrupt is not reported.
EndUnreported == gic' = "active"

\* hilevel_handler_irq read IAR before: TIMER0 is the only source enabled
EOIR == gic' = "idle"

hilevel_handler_irq(c) == scheduler_run(c) /\ Timer1IntClr /\ EOIR

\* sub lr, lr, #4 in lolevel_handler_irq
interrupted(lr) == At(lr.fn, lr.n - 1)

\* when the processor is interrupted, lr is one instruction ahead
lolevel_handler_irq ==
  /\ IrqPending
  /\ hilevel_handler_irq([cpu EXCEPT !.pc = interrupted(After(@))])
  /\ UNCHANGED elapsed

----------------------------------------------------------------------------
(* User code *)

InUser == Mode(cpu.cpsr) = USR /\ Executes
InStub(f, n) == InUser /\ cpu.pc = At(f, n)

\* a child's first call is exec
MayCall(f) ==
  \/ cpu.pc = Main /\ f \in (IF current = 0 THEN ConsoleCalls ELSE ProgramCalls)
  \/ cpu.pc = Child /\ f = "exec"

Call(f) ==
  /\ InUser /\ MayCall(f)
  /\ cpu' = [cpu EXCEPT !.pc = At(f, 0),
                        !.gpr = [r \in Gprs |-> IF r = KEPT THEN Own(current) ELSE Junk]]
  /\ UNCHANGED <<kernel_vars, device_vars>>

\* mov rN, parameter N
MoveArgument(f, n) ==
  /\ n < Params[f] /\ InStub(f, n)
  /\ cpu' = [cpu EXCEPT !.pc = After(@), !.gpr[n] = Arg(cpu.gpr[KEPT][2], f, n)]
  /\ UNCHANGED <<kernel_vars, device_vars>>

\* Wrong on purpose: lr is corrected as in lolevel_handler_irq, and the wrong way.
ReturnBefore(lr) == interrupted(lr)
ReturnBeyond(lr) == After(lr)

\* sub lr, lr, #0 in lolevel_handler_svc: svc stores the address behind it
call_returns(lr) == lr

lolevel_handler_svc(f) ==
  /\ InStub(f, Params[f])
  /\ hilevel_handler_svc([cpu EXCEPT !.pc = call_returns(After(@))], SYS[f])
  /\ UNCHANGED device_vars

\* the stub takes r0 and returns
Return(f) ==
  /\ InStub(f, Params[f] + 1)
  /\ cpu' = [cpu EXCEPT !.pc = IF f = "fork" /\ cpu.gpr[0] = Num(0) THEN Child ELSE Main]
  /\ UNCHANGED <<kernel_vars, device_vars>>

UserStep ==
  \E f \in Stubs :
    Call(f) \/ (\E n \in 0 .. KEPT - 1 : MoveArgument(f, n)) \/ lolevel_handler_svc(f) \/ Return(f)

Processor == Boot \/ lolevel_handler_irq \/ UserStep

Next == TimerFires \/ Processor

Spec == Init /\ [][Next]_vars

\* the processor goes on, and the timer is periodic
FairSpec == Spec /\ WF_vars(Processor) /\ WF_vars(TimerFires)

----------------------------------------------------------------------------
(* Properties *)

(* Programs run in user mode with interrupts enabled, all of them and always: *)
(* no saved context has the privileges the kernel had at boot, although a     *)
(* tick may have saved one.                                                   *)
UserOnly ==
  /\ cpu.pc.fn # "rst" => cpu.cpsr = UserCpsr
  /\ \A i \in Slots : pcb[i].running /\ i # current => pcb[i].ctx.cpsr = UserCpsr

Booted == Mode(cpu.cpsr) = USR

\* the context process i goes on with
Live(i) == IF i # current THEN pcb[i].ctx ELSE IF Booted THEN cpu ELSE frame

Proc(i) ==
  LET c == Live(i)
      f == c.pc.fn
      Where(at, g, value) == [at |-> at, fn |-> g, value |-> value]
  IN  IF ~pcb[i].running THEN Where("off", "none", Num(0))
      ELSE IF f \notin Stubs THEN Where(f, "none", Num(0))
      ELSE IF c.pc.n <= Params[f] THEN Where("calling", f, Num(0))
      ELSE Where("returned", f, IF f \in NoResult THEN Num(0) ELSE c.gpr[0])

Abstract == INSTANCE Processes WITH
              Plain <- Stubs \ (NoResult \cup {"fork", "kill"}),
              proc <- [i \in Slots |-> Proc(i)]

(* Every program has a processor of its own: the timer may take the real one  *)
(* away between any two instructions of a stub, and yet each call is made     *)
(* once, by the kernel function meant, with its caller's arguments in order,  *)
(* and its caller gets the answer.  A tick that hits the end of the reset      *)
(* handler does no harm.                                                      *)
RefinesProcesses == Abstract!Spec

(* The timer's line goes up and down again for good: every tick is served,   *)
(* and none is the last, in user code and at the end of the reset handler     *)
(* (hilevel.c:164-176: "clear (or reset) the source", "signal we're done").    *)
TicksKeepComing == []<>line /\ []<>~line

(* Between ticks instructions are executed: no tick is served twice.          *)
ProgramsGoOn == []<>elapsed

=============================================================================
