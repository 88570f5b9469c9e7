----------------------------- MODULE TrapsProofs -----------------------------
(* Type correctness, UserOnly, and that Traps implements Processes, for any     *)
(* number of slots and any programs.                                            *)
EXTENDS Traps, TLAPS

LEMMA StubFacts ==
  /\ \A f \in Stubs : SYS[f] \in Nat /\ Params[f] \in 0 .. KEPT
  /\ Stubs \cap {"none", "main", "child", "rst"} = {}
  /\ \A f \in Stubs : /\ SYS[f] = 0 <=> f = "yield"
                      /\ SYS[f] = 2 <=> f = "fork"
                      /\ SYS[f] = 3 <=> f = "exec"
                      /\ SYS[f] = 4 <=> f = "exit"
BY DEF Stubs, SYS, Params, KEPT

LEMMA ServiceFacts ==
  \A s \in Services : \A f \in Stubs :
    s.id = SYS[f] => /\ s.fn = f /\ s.gprs = Params[f]
                     /\ f \notin {"yield", "fork", "exec", "exit"}
BY DEF Services, Serves, Stubs, SYS, Params

LEMMA CpsrFacts ==
  /\ int_enable_irq(ResetCpsr) = 83
  /\ Mode(ResetCpsr) = SVC /\ Mode(83) = SVC /\ Mode(UserCpsr) = USR
  /\ USR # SVC
  /\ Masked(ResetCpsr) /\ ~Masked(83) /\ ~Masked(UserCpsr)
BY DEF int_enable_irq, ResetCpsr, Mode, Masked, UserCpsr, SVC, USR

----------------------------------------------------------------------------
(* The inductive invariant.                                                    *)

\* c is the context of process i at some instruction of its program: the
\* registers a stub has loaded are its arguments, and only the right process is
\* in a stub that ends, kills or replaces one
InStubOf(i, c, f, n) ==
  /\ c.pc = At(f, n)
  /\ f \in {"exit", "exec"} => i # 0
  /\ f = "kill" => i = 0
  /\ n <= Params[f] => /\ c.gpr[KEPT] = Own(i)
                       /\ \A k \in 0 .. n - 1 : c.gpr[k] = Arg(i, f, k)
  /\ f = "fork" /\ n = 1 /\ c.gpr[0] = Num(0) => i # 0

WellPlaced(i, c) ==
  /\ c.cpsr = UserCpsr
  /\ \/ c.pc = Main
     \/ c.pc = Child /\ i # 0
     \/ \E f \in Stubs : \E n \in 0 .. Params[f] + 1 : InStubOf(i, c, f, n)

ResetState ==
  /\ cpu.pc = At("rst", 0) /\ cpu.cpsr = ResetCpsr
  /\ gic = "off" /\ ~line
  /\ \A i \in Slots : ~pcb[i].running

\* between int_enable_irq and the first instruction of the console
BootState ==
  /\ \E n \in 1 .. 4 : cpu.pc = At("rst", n)
  /\ cpu.cpsr = 83
  /\ current = 0 /\ frame = ConsoleCtx
  /\ \A i \in Slots : pcb[i].running <=> i = 0
  /\ cpu.pc \in {At("rst", n) : n \in 2 .. 4} => svc.lr = Main
  /\ cpu.pc = At("rst", 2) => cpu.gpr[0] = Num(UserCpsr)
  /\ cpu.pc \in {At("rst", n) : n \in 3 .. 4} => svc.spsr = UserCpsr

UserState ==
  /\ WellPlaced(current, cpu)
  /\ pcb[0].running /\ pcb[current].running
  /\ \A i \in Slots : pcb[i].running /\ i # current => WellPlaced(i, pcb[i].ctx)
  /\ \A i \in Slots : pcb[i].running /\ i # 0 => pcb[i].ctx.cpsr = UserCpsr

IInv ==
  /\ TypeOK
  /\ gic # "active"
  /\ ResetState \/ BootState \/ UserState

----------------------------------------------------------------------------
(* Contexts and values have their types.                                       *)

Pcb == [running : BOOLEAN, ctx : Context]

(* Every value a step puts into a register is one. *)
LEMMA ValueTypes ==
  /\ \A n \in Int : Num(n) \in Value
  /\ Junk \in Value
  /\ \A i \in Slots : Own(i) \in Value
  /\ \A i \in Slots, f \in Stubs, k \in 0 .. KEPT - 1 : Arg(i, f, k) \in Value
  /\ \A i \in Slots, f \in Stubs, a \in Arguments : Result(i, f, a) \in Value
<1>1. {"num"} \X Int \subseteq Value /\ Argument \subseteq Value
      /\ {"own"} \X Slots \subseteq Value
      /\ {"result"} \X Slots \X Stubs \X Arguments \subseteq Value
  BY DEF Value
<1>2. \A n \in Int : Num(n) \in {"num"} \X Int
  BY DEF Num
<1>3. Junk \in Argument
  BY DEF Argument
<1>4. \A i \in Slots : Own(i) \in {"own"} \X Slots
  BY DEF Own
<1>5. \A i \in Slots, k \in 0 .. KEPT - 1 : <<"arg", i, k>> \in Argument
  BY DEF Argument
<1>6. \A i \in Slots, f \in Stubs, k \in 0 .. KEPT - 1 : Arg(i, f, k) \in Value
  BY <1>1, <1>2, <1>5 DEF Arg
<1>7. \A i \in Slots, f \in Stubs, a \in Arguments :
        Result(i, f, a) \in {"result"} \X Slots \X Stubs \X Arguments
  BY DEF Result
<1> QED BY <1>1, <1>2, <1>3, <1>4, <1>6, <1>7

(* The places in the code a program counter can be at. *)
LEMMA PcTypes ==
  /\ Main \in Pc /\ Child \in Pc /\ At("none", 0) \in Pc
  /\ \A n \in 0 .. 4 : At("rst", n) \in Pc
  /\ \A f \in Stubs : \A n \in 0 .. Params[f] + 1 : At(f, n) \in Pc
<1>1. Main \in Pc /\ Child \in Pc /\ At("none", 0) \in Pc
  BY DEF Pc, Main, Child
<1>2. \A n \in 0 .. 4 : At("rst", n) \in Pc
  BY DEF Pc
<1>3. ASSUME NEW f \in Stubs, NEW n \in 0 .. Params[f] + 1
      PROVE  At(f, n) \in Pc
  <2> DEFINE Of(g) == {At(g, m) : m \in 0 .. Params[g] + 1}
  <2>1. At(f, n) \in Of(f)
    OBVIOUS
  <2>2. At(f, n) \in UNION {Of(g) : g \in Stubs}
    BY <2>1
  <2> QED BY <2>2 DEF Pc
<1> QED BY <1>1, <1>2, <1>3

LEMMA CtxType ==
  ASSUME NEW cpsr \in Nat, NEW pc \in Pc, NEW gpr \in [Gprs -> Value]
  PROVE  Ctx(cpsr, pc, gpr) \in Context
BY DEF Ctx, Context

LEMMA ContextUpdates ==
  ASSUME NEW c \in Context
  PROVE  /\ c.cpsr \in Nat /\ c.pc \in Pc /\ c.gpr \in [Gprs -> Value]
         /\ \A pc \in Pc : /\ [c EXCEPT !.pc = pc] \in Context
                           /\ [c EXCEPT !.pc = pc].pc = pc
                           /\ [c EXCEPT !.pc = pc].cpsr = c.cpsr
                           /\ [c EXCEPT !.pc = pc].gpr = c.gpr
         /\ \A v \in Value : /\ Answer(c, v) \in Context
                             /\ Answer(c, v).pc = c.pc
                             /\ Answer(c, v).cpsr = c.cpsr
                             /\ Answer(c, v).gpr[0] = v
BY DEF Context, Answer, Gprs, KEPT

LEMMA PlacesDiffer ==
  /\ \A f, n : At(f, n).fn = f /\ At(f, n).n = n
  /\ \A f, n : After(At(f, n)) = At(f, n + 1)
  /\ \A f, n : interrupted(At(f, n)) = At(f, n - 1)
  /\ Main.fn = "main" /\ Child.fn = "child"
  /\ Main # Child
  /\ \A f \in Stubs : \A n : At(f, n) # Main /\ At(f, n) # Child
  /\ \A n : At("rst", n) # Main /\ At("rst", n) # Child
  /\ \A f \in Stubs : f # "rst"
BY StubFacts DEF At, After, interrupted, Main, Child

(* A process at an instruction of a stub is there as InStubOf says. *)
LEMMA PlacedInStub ==
  ASSUME NEW i, NEW c, WellPlaced(i, c), NEW f \in Stubs, NEW n, c.pc = At(f, n)
  PROVE  InStubOf(i, c, f, n) /\ n \in 0 .. Params[f] + 1
<1>1. PICK g \in Stubs : \E m \in 0 .. Params[g] + 1 : InStubOf(i, c, g, m)
  BY PlacesDiffer DEF WellPlaced
<1>2. PICK m \in 0 .. Params[g] + 1 : InStubOf(i, c, g, m)
  BY <1>1
<1>3. g = f /\ m = n
  <2>1. c.pc = At(g, m) /\ c.pc = At(f, n)
    BY <1>2 DEF InStubOf
  <2> QED BY <2>1 DEF At
<1> QED BY <1>2, <1>3

----------------------------------------------------------------------------
(* What the handlers do with a context that is well placed.                    *)

Kept ==
  /\ UserState'
  /\ cpu' \in Context /\ pcb' \in [Slots -> Pcb] /\ current' \in Slots
  /\ UNCHANGED <<svc, frame>>

\* what TypeOK and UserState say of the process table
LEMMA Table ==
  ASSUME TypeOK
  PROVE  /\ 0 \in Slots /\ current \in Slots
         /\ cpu \in Context /\ frame \in Context
         /\ pcb \in [Slots -> Pcb]
         /\ \A i \in Slots : pcb[i] \in Pcb /\ pcb[i].running \in BOOLEAN /\ pcb[i].ctx \in Context
BY TrapsAssumption DEF TypeOK, Slots, Pcb

LEMMA RunKeeps ==
  ASSUME TypeOK, UserState, NEW c \in Context, WellPlaced(current, c), scheduler_run(c)
  PROVE  Kept
<1>1. PICK n \in Slots : /\ pcb[n].running
                         /\ pcb' = [pcb EXCEPT ![current].ctx = c]
                         /\ cpu' = pcb'[n].ctx
                         /\ current' = n
                         /\ UNCHANGED <<svc, frame>>
  BY DEF scheduler_run
<1>2. /\ pcb' \in [Slots -> Pcb]
      /\ \A i \in Slots : /\ pcb'[i].running = pcb[i].running
                          /\ pcb'[i].ctx = IF i = current THEN c ELSE pcb[i].ctx
  BY <1>1, Table DEF Pcb
<1>3. \A i \in Slots : pcb'[i].running => WellPlaced(i, pcb'[i].ctx)
  BY <1>2, Table DEF UserState
<1>4. cpu' \in Context
  BY <1>1, <1>2 DEF Pcb
<1>5. WellPlaced(current', cpu') /\ pcb'[current'].running
  BY <1>1, <1>2, <1>3
<1>6. c.cpsr = UserCpsr
  BY DEF WellPlaced
<1>7. \A i \in Slots : pcb'[i].running /\ i # 0 => pcb'[i].ctx.cpsr = UserCpsr
  BY <1>2, <1>6 DEF UserState
<1>8. pcb'[0].running
  BY <1>2, Table DEF UserState
<1>9. UserState'
  BY <1>3, <1>5, <1>7, <1>8 DEF UserState
<1> QED BY <1>1, <1>2, <1>4, <1>9 DEF Kept

\* the answer 0 to fork is for the child only
LEMMA AnsweredPlace ==
  ASSUME NEW i, NEW c, NEW f \in Stubs,
         c.cpsr = UserCpsr, c.pc = At(f, Params[f] + 1),
         f \in {"exit", "exec"} => i # 0, f = "kill" => i = 0,
         f = "fork" /\ c.gpr[0] = Num(0) => i # 0
  PROVE  WellPlaced(i, c)
<1>1. Params[f] \in Nat /\ Params[f] + 1 \in 0 .. Params[f] + 1 /\ ~(Params[f] + 1 <= Params[f])
  BY StubFacts
<1>2. InStubOf(i, c, f, Params[f] + 1)
  BY <1>1 DEF InStubOf
<1>3. \E n \in 0 .. Params[f] + 1 : InStubOf(i, c, f, n)
  BY <1>1, <1>2
<1> QED BY <1>3 DEF WellPlaced

\* what a fork makes of the context of its parent
LEMMA ChildContext ==
  ASSUME NEW c \in Context, NEW v \in Value
  PROVE  /\ [Answer(c, v) EXCEPT !.cpsr = UserCpsr] \in Context
         /\ [Answer(c, v) EXCEPT !.cpsr = UserCpsr].pc = c.pc
         /\ [Answer(c, v) EXCEPT !.cpsr = UserCpsr].cpsr = UserCpsr
         /\ [Answer(c, v) EXCEPT !.cpsr = UserCpsr].gpr[0] = v
<1> DEFINE d == Answer(c, v)
<1>1. UserCpsr \in Nat
  BY DEF UserCpsr
<1>2. d \in Context /\ d.pc = c.pc /\ d.gpr[0] = v
  BY ContextUpdates
<1>3. ASSUME NEW e \in Context
      PROVE  /\ [e EXCEPT !.cpsr = UserCpsr] \in Context
             /\ [e EXCEPT !.cpsr = UserCpsr].pc = e.pc
             /\ [e EXCEPT !.cpsr = UserCpsr].cpsr = UserCpsr
             /\ [e EXCEPT !.cpsr = UserCpsr].gpr = e.gpr
  BY <1>1 DEF Context
<1> QED BY <1>2, <1>3

LEMMA ForkKeeps ==
  ASSUME TypeOK, UserState, NEW c \in Context, c.cpsr = UserCpsr,
         c.pc = At("fork", 1), scheduler_fork(c)
  PROVE  Kept
<1>1. "fork" \in Stubs /\ Params["fork"] = 0 /\ Params["fork"] + 1 = 1
  BY DEF Stubs, SYS, Params
<1>2. \A n \in Int : Num(n) \in Value /\ (n # 0 => Num(n) # Num(0))
  BY ValueTypes DEF Num
<1>3. \A n \in Int : n # 0 => WellPlaced(current, Answer(c, Num(n)))
  <2> SUFFICES ASSUME NEW n \in Int, n # 0 PROVE WellPlaced(current, Answer(c, Num(n)))
    OBVIOUS
  <2> DEFINE d == Answer(c, Num(n))
  <2>1. d.pc = At("fork", 1) /\ d.cpsr = UserCpsr /\ d.gpr[0] # Num(0)
    BY <1>2, ContextUpdates
  <2> QED BY <2>1, <1>1, AnsweredPlace
<1>4. \A n \in Int : Answer(c, Num(n)) \in Context
  BY <1>2, ContextUpdates
<1>5. CASE \A n \in Slots : pcb[n].running
  <2>1. cpu' = Answer(c, Num(-1)) /\ UNCHANGED <<pcb, svc, frame, current>>
    BY <1>5 DEF scheduler_fork, IsNewPid
  <2>2. WellPlaced(current, cpu')
    BY <2>1, <1>3
  <2>3. UserState'
    BY <2>1, <2>2 DEF UserState
  <2> QED BY <2>1, <2>3, <1>4, Table DEF Kept
<1>6. CASE ~ \A n \in Slots : pcb[n].running
  <2> DEFINE child == [Answer(c, Num(0)) EXCEPT !.cpsr = UserCpsr]
  <2>1. PICK n \in Slots : /\ IsNewPid(n)
                           /\ pcb' = [pcb EXCEPT ![n] = [running |-> TRUE, ctx |-> child]]
                           /\ cpu' = Answer(c, Num(n))
    BY <1>6 DEF scheduler_fork
  <2>2. UNCHANGED <<svc, frame, current>>
    BY DEF scheduler_fork
  <2>3. ~pcb[n].running /\ n # 0 /\ n # current /\ n \in Int
    BY <2>1 DEF IsNewPid, UserState, Slots
  <2>4. child \in Context /\ child.pc = At("fork", 1) /\ child.cpsr = UserCpsr
    BY <1>2, ChildContext
  <2>5. WellPlaced(n, child)
    BY <2>3, <2>4, <1>1, AnsweredPlace
  <2> HIDE DEF child
  <2>6. \A i \in Slots : pcb'[i] = IF i = n THEN [running |-> TRUE, ctx |-> child] ELSE pcb[i]
    BY <2>1, Table
  <2>7. pcb' \in [Slots -> Pcb]
    BY <2>1, <2>4, Table DEF Pcb
  <2>8. WellPlaced(current, cpu') /\ cpu' \in Context
    BY <2>1, <2>3, <1>3, <1>4
  <2>9. UserState'
    <3>1. pcb'[0].running /\ pcb'[current].running
      BY <2>3, <2>6, Table DEF UserState
    <3>2. \A i \in Slots : pcb'[i].running /\ i # current => WellPlaced(i, pcb'[i].ctx)
      BY <2>5, <2>6 DEF UserState
    <3>3. \A i \in Slots : pcb'[i].running /\ i # 0 => pcb'[i].ctx.cpsr = UserCpsr
      BY <2>4, <2>6 DEF UserState
    <3> QED BY <2>2, <2>8, <3>1, <3>2, <3>3 DEF UserState
  <2> QED BY <2>2, <2>7, <2>8, <2>9, Table DEF Kept
<1> QED BY <1>5, <1>6

LEMMA ExecKeeps ==
  ASSUME TypeOK, UserState, NEW c \in Context,
         c.gpr[0] = Arg(current, "exec", 0), current # 0, scheduler_exec(c)
  PROVE  Kept
<1> DEFINE d == [pcb[current].ctx EXCEPT !.pc = Main]
<1>1. Entry(c.gpr[0]) = Main
  BY DEF Entry
<1>2. /\ pcb' = [pcb EXCEPT ![current].ctx.pc = Main]
      /\ cpu' = pcb'[current].ctx
      /\ UNCHANGED <<svc, frame, current>>
  BY <1>1 DEF scheduler_exec
<1>3. pcb[current] \in Pcb /\ pcb[current].running /\ pcb[current].ctx.cpsr = UserCpsr
  BY Table DEF UserState
<1>4. d \in Context /\ d.pc = Main /\ d.cpsr = UserCpsr
  BY <1>3, PcTypes, ContextUpdates DEF Pcb
<1>5. pcb' = [pcb EXCEPT ![current] = [@ EXCEPT !.ctx = d]]
  BY <1>2
<1>6. WellPlaced(current, d)
  BY <1>4 DEF WellPlaced
<1> HIDE DEF d
<1>7. /\ pcb' \in [Slots -> Pcb]
      /\ \A i \in Slots : /\ pcb'[i].running = pcb[i].running
                          /\ pcb'[i].ctx = IF i = current THEN d ELSE pcb[i].ctx
  BY <1>4, <1>5, Table DEF Pcb
<1>8. cpu' = d
  BY <1>2, <1>7, Table
<1>9. UserState'
  <2>1. pcb'[0].running /\ pcb'[current].running
    BY <1>7, Table DEF UserState
  <2>2. \A i \in Slots : pcb'[i].running /\ i # current => WellPlaced(i, pcb'[i].ctx)
    BY <1>7 DEF UserState
  <2>3. \A i \in Slots : pcb'[i].running /\ i # 0 => pcb'[i].ctx.cpsr = UserCpsr
    BY <1>4, <1>7 DEF UserState
  <2> QED BY <1>2, <1>6, <1>8, <2>1, <2>2, <2>3 DEF UserState
<1> QED BY <1>2, <1>4, <1>7, <1>8, <1>9, Table DEF Kept

LEMMA ExitKeeps ==
  ASSUME TypeOK, UserState, NEW c \in Context,
         c.gpr[0] = Num(0), current # 0, scheduler_exit(c)
  PROVE  Kept
<1>1. /\ pcb' = [pcb EXCEPT ![current].running = FALSE]
      /\ current' = 0 /\ cpu' = pcb[0].ctx
      /\ UNCHANGED <<svc, frame>>
  BY DEF scheduler_exit
<1>2. /\ pcb' \in [Slots -> Pcb]
      /\ \A i \in Slots : /\ pcb'[i].ctx = pcb[i].ctx
                          /\ pcb'[i].running = (pcb[i].running /\ i # current)
  BY <1>1, Table DEF Pcb
<1>3. WellPlaced(0, pcb[0].ctx) /\ pcb[0].running
  BY Table DEF UserState
<1>4. UserState'
  <2>1. pcb'[0].running
    BY <1>2, <1>3, Table
  <2>2. \A i \in Slots : pcb'[i].running => WellPlaced(i, pcb'[i].ctx)
    BY <1>2 DEF UserState
  <2>3. \A i \in Slots : pcb'[i].running /\ i # 0 => pcb'[i].ctx.cpsr = UserCpsr
    BY <1>2 DEF UserState
  <2> QED BY <1>1, <1>3, <2>1, <2>2, <2>3 DEF UserState
<1> QED BY <1>1, <1>2, <1>4, Table DEF Kept

LEMMA ServedKeeps ==
  ASSUME TypeOK, UserState, NEW c \in Context, NEW f \in Stubs,
         c.cpsr = UserCpsr, c.pc = At(f, Params[f] + 1),
         \A k \in 0 .. Params[f] - 1 : c.gpr[k] = Arg(current, f, k),
         f = "kill" => current = 0,
         NEW s \in Services, s.id = SYS[f],
         cpu' = Served(c, s), Kills(s), UNCHANGED <<svc, frame, current>>
  PROVE  Kept
<1> DEFINE args == [k \in 0 .. Params[f] - 1 |-> c.gpr[k]]
<1>1. s.fn = f /\ s.gprs = Params[f] /\ f \notin {"yield", "fork", "exec", "exit"}
  BY ServiceFacts
<1>2. Params[f] \in 0 .. KEPT
  BY StubFacts
<1>3. \A k \in 0 .. Params[f] - 1 : k \in 0 .. KEPT - 1
  BY <1>2 DEF KEPT
<1>4. \A k \in 0 .. Params[f] - 1 : c.gpr[k] \in Argument
  <2> SUFFICES ASSUME NEW k \in 0 .. Params[f] - 1 PROVE c.gpr[k] \in Argument
    OBVIOUS
  <2>1. c.gpr[k] = <<"arg", current, k>>
    BY <1>1 DEF Arg
  <2> QED BY <2>1, <1>3, Table DEF Argument
<1>5. args \in [0 .. Params[f] - 1 -> Argument]
  BY <1>4
<1>6. args \in Arguments
  <2> HIDE DEF args
  <2> QED BY <1>2, <1>5 DEF Arguments
<1>7. Result(current, f, args) \in Value
  <2> HIDE DEF args
  <2> QED BY <1>6, ValueTypes, Table
<1>8. cpu' = Answer(c, Result(current, f, args))
  BY <1>1 DEF Served
<1> HIDE DEF args
<1>9. /\ cpu' \in Context /\ cpu'.pc = At(f, Params[f] + 1) /\ cpu'.cpsr = UserCpsr
  BY <1>7, <1>8, ContextUpdates
<1>10. WellPlaced(current, cpu')
  BY <1>1, <1>9, AnsweredPlace
<1>11. /\ pcb' \in [Slots -> Pcb]
       /\ \A i \in Slots : pcb'[i].ctx = pcb[i].ctx /\ (pcb'[i].running => pcb[i].running)
       /\ pcb'[0].running /\ pcb'[current].running
  <2>1. CASE f # "kill"
    BY <2>1, <1>1, Table DEF Kills, UserState
  <2>2. CASE f = "kill"
    <3>1. PICK S \in SUBSET (Slots \ {0}) :
            pcb' = [i \in Slots |-> [pcb[i] EXCEPT !.running = @ /\ i \notin S]]
      BY <2>2, <1>1 DEF Kills, Killed
    <3>2. \A i \in Slots : pcb'[i] \in Pcb
      BY <3>1, Table DEF Pcb
    <3>3. \A i \in Slots : /\ pcb'[i].ctx = pcb[i].ctx
                           /\ pcb'[i].running = (pcb[i].running /\ i \notin S)
      BY <3>1, Table DEF Pcb
    <3>4. current = 0 /\ 0 \notin S
      BY <2>2
    <3> QED BY <3>1, <3>2, <3>3, <3>4, Table DEF UserState
  <2> QED BY <2>1, <2>2
<1>12. UserState'
  <2>1. \A i \in Slots : pcb'[i].running /\ i # current => WellPlaced(i, pcb'[i].ctx)
    BY <1>11 DEF UserState
  <2>2. \A i \in Slots : pcb'[i].running /\ i # 0 => pcb'[i].ctx.cpsr = UserCpsr
    BY <1>11 DEF UserState
  <2> QED BY <1>10, <1>11, <2>1, <2>2 DEF UserState
<1> QED BY <1>9, <1>11, <1>12, Table DEF Kept

----------------------------------------------------------------------------
(* Every step keeps the invariant.                                             *)

\* the correction of lr gives the interrupted context back
LEMMA NothingSkipped ==
  ASSUME TypeOK
  PROVE  [cpu EXCEPT !.pc = interrupted(After(@))] = cpu
<1>1. cpu \in Context /\ cpu.pc \in Pc
  BY Table, ContextUpdates
<1>2. \A f, n : n \in Int => interrupted(After(At(f, n))) = At(f, n)
  BY DEF At, After, interrupted
<1>3. \E f : \E n \in Int : cpu.pc = At(f, n)
  BY <1>1, StubFacts DEF Pc
<1>4. interrupted(After(cpu.pc)) = cpu.pc
  BY <1>2, <1>3
<1> QED BY <1>1, <1>4 DEF Context

LEMMA IrqKeepsUser ==
  ASSUME TypeOK, UserState, lolevel_handler_irq
  PROVE  Kept
<1>1. scheduler_run(cpu)
  BY NothingSkipped DEF lolevel_handler_irq, hilevel_handler_irq
<1>2. WellPlaced(current, cpu)
  BY DEF UserState
<1> QED BY <1>1, <1>2, Table, RunKeeps

\* a tick in the end of the reset handler goes on with the console's context,
\* which is the interrupted one
LEMMA IrqKeepsBoot ==
  ASSUME TypeOK, BootState, lolevel_handler_irq
  PROVE  /\ cpu' = cpu /\ UNCHANGED <<svc, frame, current>>
         /\ pcb' \in [Slots -> Pcb]
         /\ \A i \in Slots : pcb'[i].running = pcb[i].running
         /\ BootState'
<1>1. PICK n \in Slots : /\ pcb[n].running
                         /\ pcb' = [pcb EXCEPT ![current].ctx = cpu]
                         /\ cpu' = pcb'[n].ctx
                         /\ current' = n
                         /\ UNCHANGED <<svc, frame>>
  BY NothingSkipped DEF lolevel_handler_irq, hilevel_handler_irq, scheduler_run
<1>2. n = current
  BY <1>1 DEF BootState
<1>3. /\ pcb' \in [Slots -> Pcb]
      /\ \A i \in Slots : /\ pcb'[i].running = pcb[i].running
                          /\ pcb'[i].ctx = IF i = current THEN cpu ELSE pcb[i].ctx
  BY <1>1, Table DEF Pcb
<1>4. cpu' = cpu /\ current' = current
  BY <1>1, <1>2, <1>3
<1> QED BY <1>1, <1>3, <1>4 DEF BootState

\* the processor when the kernel is called: the stub has loaded its arguments
LEMMA AtSvc ==
  ASSUME TypeOK, UserState, NEW f \in Stubs, lolevel_handler_svc(f)
  PROVE  \E c \in Context :
           /\ c.pc = At(f, Params[f] + 1) /\ c.cpsr = UserCpsr
           /\ \A k \in 0 .. Params[f] - 1 : c.gpr[k] = Arg(current, f, k)
           /\ f \in {"exit", "exec"} => current # 0
           /\ f = "kill" => current = 0
           /\ cpu.pc = At(f, Params[f])
           /\ hilevel_handler_svc(c, SYS[f])
<1> DEFINE c == [cpu EXCEPT !.pc = At(f, Params[f] + 1)]
<1>1. cpu.pc = At(f, Params[f]) /\ hilevel_handler_svc(c, SYS[f])
  <2>1. After(At(f, Params[f])) = At(f, Params[f] + 1)
    BY PlacesDiffer
  <2> QED BY <2>1 DEF lolevel_handler_svc, InStub, call_returns
<1>2. InStubOf(current, cpu, f, Params[f])
  BY <1>1, PlacedInStub DEF UserState
<1>3. Params[f] \in Nat /\ Params[f] <= KEPT /\ Params[f] + 1 \in 0 .. Params[f] + 1
  BY StubFacts DEF KEPT
<1>4. cpu.cpsr = UserCpsr
  BY DEF UserState, WellPlaced
<1>5. /\ c \in Context /\ c.pc = At(f, Params[f] + 1)
      /\ c.cpsr = UserCpsr /\ c.gpr = cpu.gpr
  <2>1. At(f, Params[f] + 1) \in Pc
    BY <1>3, PcTypes
  <2> QED BY <2>1, <1>4, Table, ContextUpdates
<1>6. \A k \in 0 .. Params[f] - 1 : c.gpr[k] = Arg(current, f, k)
  BY <1>2, <1>3, <1>5 DEF InStubOf
<1>7. /\ f \in {"exit", "exec"} => current # 0
      /\ f = "kill" => current = 0
  BY <1>2 DEF InStubOf
<1> HIDE DEF c
<1> QED BY <1>1, <1>5, <1>6, <1>7

\* the call of a stub reaches the kernel function of its name
LEMMA Dispatch ==
  ASSUME NEW c, NEW f \in Stubs, hilevel_handler_svc(c, SYS[f])
  PROVE  /\ f = "yield" => scheduler_run(c)
         /\ f = "fork" => scheduler_fork(c)
         /\ f = "exec" => scheduler_exec(c)
         /\ f = "exit" => scheduler_exit(c)
         /\ f \notin {"yield", "fork", "exec", "exit"} =>
              \E s \in Services : /\ s.id = SYS[f]
                                  /\ cpu' = Served(c, s)
                                  /\ Kills(s)
                                  /\ UNCHANGED <<svc, frame, current>>
<1>1. \A s \in Services : s.id \notin {0, 2, 3, 4}
  BY DEF Services, Serves
<1> QED BY <1>1, StubFacts DEF hilevel_handler_svc

LEMMA SvcKeeps ==
  ASSUME TypeOK, UserState, NEW f \in Stubs, lolevel_handler_svc(f)
  PROVE  Kept
<1>1. PICK c \in Context :
        /\ c.pc = At(f, Params[f] + 1) /\ c.cpsr = UserCpsr
        /\ \A k \in 0 .. Params[f] - 1 : c.gpr[k] = Arg(current, f, k)
        /\ f \in {"exit", "exec"} => current # 0
        /\ f = "kill" => current = 0
        /\ hilevel_handler_svc(c, SYS[f])
  BY AtSvc
<1>2. f \in {"exec", "exit"} => 0 \in 0 .. Params[f] - 1
  BY DEF Params
<1>3. CASE f = "yield"
  <2>1. WellPlaced(current, c)
    BY <1>1, <1>3, AnsweredPlace
  <2> QED BY <2>1, <1>1, <1>3, Dispatch, RunKeeps
<1>4. CASE f = "fork"
  <2>1. Params[f] + 1 = 1
    BY <1>4 DEF Params
  <2> QED BY <2>1, <1>1, <1>4, Dispatch, ForkKeeps
<1>5. CASE f = "exec"
  BY <1>1, <1>2, <1>5, Dispatch, ExecKeeps
<1>6. CASE f = "exit"
  <2>1. c.gpr[0] = Num(0)
    BY <1>1, <1>2, <1>6 DEF Arg
  <2> QED BY <2>1, <1>1, <1>6, Dispatch, ExitKeeps
<1>7. CASE f \notin {"yield", "fork", "exec", "exit"}
  BY <1>1, <1>7, Dispatch, ServedKeeps
<1> QED BY <1>3, <1>4, <1>5, <1>6, <1>7

\* an instruction of a program that leaves the kernel alone
LEMMA PlacedKeeps ==
  ASSUME TypeOK, UserState, UNCHANGED kernel_vars,
         cpu' \in Context, WellPlaced(current, cpu')
  PROVE  Kept
BY Table DEF Kept, UserState, kernel_vars

LEMMA CallKeeps ==
  ASSUME TypeOK, UserState, NEW f \in Stubs, Call(f)
  PROVE  Kept
<1> DEFINE gpr == [r \in Gprs |-> IF r = KEPT THEN Own(current) ELSE Junk]
<1>1. cpu' = [cpu EXCEPT !.pc = At(f, 0), !.gpr = gpr] /\ UNCHANGED kernel_vars
  BY DEF Call
<1>2. gpr \in [Gprs -> Value] /\ gpr[KEPT] = Own(current) /\ gpr[0] = Junk
  BY ValueTypes, Table DEF Gprs, KEPT
<1> HIDE DEF gpr
<1>3. Params[f] \in Nat /\ 0 \in 0 .. Params[f] + 1
  BY StubFacts
<1>4. cpu' \in Context /\ cpu'.pc = At(f, 0) /\ cpu'.cpsr = cpu.cpsr /\ cpu'.gpr = gpr
  <2>1. At(f, 0) \in Pc
    BY <1>3, PcTypes
  <2> QED BY <1>1, <1>2, <2>1, Table DEF Context
<1>5. /\ f \in {"exit", "exec"} => current # 0
      /\ f = "kill" => current = 0
  <2>1. cpu.pc = Child => current # 0
    BY PlacesDiffer DEF UserState, WellPlaced, InStubOf
  <2>2. cpu.pc = Main /\ current # 0 => f \notin {"kill", "exec"}
    BY TrapsAssumption, PlacesDiffer DEF Call, MayCall
  <2>3. cpu.pc = Main /\ current = 0 => f \notin {"exit", "exec"}
    BY TrapsAssumption, PlacesDiffer DEF Call, MayCall
  <2> QED BY <2>1, <2>2, <2>3 DEF Call, MayCall
<1>6. InStubOf(current, cpu', f, 0)
  BY <1>2, <1>4, <1>5 DEF InStubOf
<1>7. WellPlaced(current, cpu')
  BY <1>3, <1>4, <1>6 DEF WellPlaced, UserState
<1> QED BY <1>1, <1>4, <1>7, PlacedKeeps

LEMMA MoveKeeps ==
  ASSUME TypeOK, UserState, NEW f \in Stubs, NEW n \in 0 .. KEPT - 1, MoveArgument(f, n)
  PROVE  Kept
<1>1. InStubOf(current, cpu, f, n) /\ cpu.pc = At(f, n) /\ n < Params[f]
  BY PlacedInStub DEF MoveArgument, InStub, UserState
<1>2. Params[f] \in Nat /\ n \in Nat /\ n + 1 \in 0 .. Params[f] + 1 /\ n <= Params[f] /\ n # KEPT
  BY <1>1, StubFacts DEF KEPT
<1>3. cpu.gpr[KEPT][2] = current
  BY <1>1, <1>2 DEF InStubOf, Own
<1>4. /\ cpu' = [cpu EXCEPT !.pc = At(f, n + 1), !.gpr[n] = Arg(current, f, n)]
      /\ UNCHANGED kernel_vars
  <2>1. After(At(f, n)) = At(f, n + 1)
    BY PlacesDiffer
  <2> QED BY <1>1, <1>3, <2>1 DEF MoveArgument
<1>5. Arg(current, f, n) \in Value /\ At(f, n + 1) \in Pc
  BY <1>2, ValueTypes, PcTypes, Table
<1>6. n \in Gprs /\ KEPT \in Gprs /\ 0 \in Gprs /\ \A k \in 0 .. Params[f] : k \in Gprs
  BY StubFacts DEF Gprs, KEPT
<1>7. /\ cpu' \in Context /\ cpu'.pc = At(f, n + 1) /\ cpu'.cpsr = cpu.cpsr
      /\ cpu'.gpr = [cpu.gpr EXCEPT ![n] = Arg(current, f, n)]
  BY <1>4, <1>5, <1>6, Table DEF Context
<1>8. cpu'.gpr[KEPT] = Own(current)
  <2>1. cpu.gpr[KEPT] = Own(current)
    BY <1>1, <1>2 DEF InStubOf
  <2>2. cpu.gpr \in [Gprs -> Value]
    BY Table, ContextUpdates
  <2>3. cpu'.gpr[KEPT] = cpu.gpr[KEPT]
    BY <2>2, <1>2, <1>6, <1>7
  <2> QED BY <2>1, <2>3
<1>9. \A k \in 0 .. n : cpu'.gpr[k] = Arg(current, f, k)
  <2> SUFFICES ASSUME NEW k \in 0 .. n PROVE cpu'.gpr[k] = Arg(current, f, k)
    OBVIOUS
  <2>1. k = n \/ k \in 0 .. n - 1
    BY <1>2
  <2>2. k \in Gprs
    BY <1>1, <1>2, <1>6
  <2>3. cpu.gpr \in [Gprs -> Value]
    BY Table, ContextUpdates
  <2>4. CASE k = n
    BY <2>3, <2>4, <1>6, <1>7
  <2>5. CASE k \in 0 .. n - 1
    <3>1. cpu.gpr[k] = Arg(current, f, k)
      BY <2>5, <1>1, <1>2 DEF InStubOf
    <3>2. k # n
      BY <2>5, <1>2
    <3> QED BY <2>2, <2>3, <3>1, <3>2, <1>6, <1>7
  <2> QED BY <2>1, <2>4, <2>5
<1>10. InStubOf(current, cpu', f, n + 1)
  <2>1. f # "fork"
    BY <1>1, <1>2 DEF Params
  <2>2. (n + 1) - 1 = n
    BY <1>2
  <2> QED BY <2>1, <2>2, <1>1, <1>7, <1>8, <1>9 DEF InStubOf
<1>11. WellPlaced(current, cpu')
  BY <1>2, <1>7, <1>10 DEF WellPlaced, UserState
<1> QED BY <1>4, <1>7, <1>11, PlacedKeeps

LEMMA ReturnKeeps ==
  ASSUME TypeOK, UserState, NEW f \in Stubs, Return(f)
  PROVE  Kept
<1>1. InStubOf(current, cpu, f, Params[f] + 1) /\ UNCHANGED kernel_vars
  BY PlacedInStub DEF Return, InStub, UserState
<1>2. /\ cpu' \in Context /\ cpu'.cpsr = cpu.cpsr
      /\ cpu'.pc = IF f = "fork" /\ cpu.gpr[0] = Num(0) THEN Child ELSE Main
  BY PcTypes, Table, ContextUpdates DEF Return
<1>3. f = "fork" => Params[f] + 1 = 1
  BY DEF Params
<1>4. WellPlaced(current, cpu')
  BY <1>1, <1>2, <1>3 DEF WellPlaced, InStubOf, UserState
<1> QED BY <1>1, <1>2, <1>4, PlacedKeeps

LEMMA UserStepKeeps ==
  ASSUME TypeOK, UserState, UserStep
  PROVE  Kept /\ UNCHANGED <<line, gic>> /\ elapsed' = TRUE
<1>1. PICK f \in Stubs : \/ Call(f) \/ lolevel_handler_svc(f) \/ Return(f)
                         \/ \E n \in 0 .. KEPT - 1 : MoveArgument(f, n)
  BY DEF UserStep
<1>2. Kept
  BY <1>1, CallKeeps, MoveKeeps, SvcKeeps, ReturnKeeps
<1>3. UNCHANGED <<line, gic>> /\ elapsed' = TRUE
  BY <1>1 DEF Call, MoveArgument, lolevel_handler_svc, Return, InStub, InUser, Executes, device_vars
<1> QED BY <1>2, <1>3

\* the end of the reset handler
LEMMA BootPlace ==
  ASSUME NEW n \in 0 .. 4, cpu.pc = At("rst", n)
  PROVE  \A m \in 0 .. 4 : cpu.pc = At("rst", m) <=> m = n
BY PlacesDiffer

LEMMA ResetKeeps ==
  ASSUME TypeOK, ResetState, Reset
  PROVE  TypeOK' /\ BootState' /\ gic' = "idle"
<1> DEFINE started(cpsr, pc) == [cpu EXCEPT !.cpsr = cpsr, !.pc = pc]
<1>0. \A cpsr \in Nat, pc \in Pc :
        /\ started(cpsr, pc) \in Context
        /\ started(cpsr, pc).cpsr = cpsr /\ started(cpsr, pc).pc = pc
  BY Table DEF Context
<1>1. /\ cpu' = started(83, At("rst", 1))
      /\ frame' = ConsoleCtx /\ current' = 0 /\ gic' = "idle"
      /\ pcb' = [i \in Slots |-> IF i = 0 THEN [running |-> TRUE, ctx |-> ConsoleCtx]
                                 ELSE [running |-> FALSE, ctx |-> ZeroCtx]]
      /\ UNCHANGED <<svc, line>> /\ elapsed' = TRUE
  <2>1. cpu' = started(int_enable_irq(cpu.cpsr), After(cpu.pc))
    BY DEF Reset
  <2>2. int_enable_irq(cpu.cpsr) = 83 /\ After(cpu.pc) = At("rst", 1)
    BY CpsrFacts, PlacesDiffer DEF ResetState
  <2> QED BY <2>1, <2>2 DEF Reset, Executes
<1>2. NoGprs \in [Gprs -> Value]
  BY ValueTypes DEF NoGprs
<1>3. ConsoleCtx \in Context /\ ZeroCtx \in Context
  BY <1>2, PcTypes, CtxType DEF ConsoleCtx, ZeroCtx, UserCpsr
<1>4. pcb' \in [Slots -> Pcb] /\ \A i \in Slots : pcb'[i].running <=> i = 0
  BY <1>1, <1>3 DEF Pcb
<1>5. cpu' \in Context /\ cpu'.cpsr = 83 /\ cpu'.pc = At("rst", 1)
  <2> HIDE DEF started
  <2>1. 83 \in Nat /\ At("rst", 1) \in Pc
    BY PcTypes
  <2> QED BY <1>0, <1>1, <2>1
<1>6. BootState'
  <2>1. \A m \in 2 .. 4 : cpu'.pc # At("rst", m)
    BY <1>5, PlacesDiffer
  <2>2. 1 \in 1 .. 4
    OBVIOUS
  <2> QED BY <1>1, <1>4, <1>5, <2>1, <2>2 DEF BootState
<1>7. TypeOK'
  BY <1>1, <1>3, <1>4, <1>5, Table DEF TypeOK, Pcb
<1> QED BY <1>1, <1>6, <1>7

\* the rest of the reset handler: what is in svc and r0 by then
LEMMA BootKeeps ==
  ASSUME TypeOK, BootState, Boot
  PROVE  /\ TypeOK' /\ UNCHANGED <<frame, pcb, current, line, gic>>
         /\ elapsed' = TRUE
         /\ \/ BootState'
            \/ /\ Leave /\ UserState'
               /\ cpu'.cpsr = frame.cpsr /\ cpu'.pc = frame.pc
<1>1. PICK n \in 1 .. 4 : cpu.pc = At("rst", n)
  BY DEF BootState
<1>2. \A m \in 0 .. 4 : cpu.pc = At("rst", m) => m = n
  BY <1>1, BootPlace
<1>3. ConsoleCtx.cpsr = UserCpsr /\ ConsoleCtx.pc = Main /\ ConsoleCtx.gpr = NoGprs
  BY DEF ConsoleCtx, Ctx
<1>4. NoGprs \in [Gprs -> Value] /\ Num(UserCpsr) \in Value /\ UserCpsr \in Nat
  BY ValueTypes DEF NoGprs, UserCpsr
<1>5. cpu \in Context /\ cpu.pc \in Pc /\ cpu.cpsr \in Nat /\ cpu.gpr \in [Gprs -> Value]
  BY Table, ContextUpdates
<1>6. /\ At("rst", 2) \in Pc /\ At("rst", 3) \in Pc /\ At("rst", 4) \in Pc
      /\ Main \in Pc
      /\ After(At("rst", 1)) = At("rst", 2)
      /\ After(At("rst", 2)) = At("rst", 3)
      /\ After(At("rst", 3)) = At("rst", 4)
  BY PcTypes, PlacesDiffer
<1>7. ~Reset
  BY <1>2 DEF Reset
<1>8. CASE LoadPc
  <2>1. /\ cpu' = [cpu EXCEPT !.pc = At("rst", 2), !.gpr[0] = Num(UserCpsr)]
        /\ svc' = [svc EXCEPT !.lr = Main]
        /\ UNCHANGED <<frame, pcb, current, line, gic>> /\ elapsed' = TRUE
    BY <1>8, <1>3, <1>6 DEF LoadPc, BootState, Executes, device_vars
  <2>2. /\ cpu' \in Context /\ cpu'.pc = At("rst", 2) /\ cpu'.cpsr = cpu.cpsr
        /\ cpu'.gpr[0] = Num(UserCpsr)
    <3> DEFINE gpr == [cpu.gpr EXCEPT ![0] = Num(UserCpsr)]
    <3>1. gpr \in [Gprs -> Value] /\ gpr[0] = Num(UserCpsr)
      BY <1>4, <1>5 DEF Gprs, KEPT
    <3>2. cpu' = [cpu EXCEPT !.pc = At("rst", 2), !.gpr = gpr]
      BY <2>1
    <3> HIDE DEF gpr
    <3> QED BY <3>1, <3>2, <1>5, <1>6 DEF Context
  <2>3. svc' \in [lr : Pc, spsr : Nat] /\ svc'.lr = Main
    BY <2>1, <1>6 DEF TypeOK
  <2>4. \A m \in 3 .. 4 : cpu'.pc # At("rst", m)
    BY <2>2, PlacesDiffer
  <2>5. BootState'
    BY <2>1, <2>2, <2>3, <2>4 DEF BootState
  <2> QED BY <2>1, <2>2, <2>3, <2>5 DEF TypeOK
<1>9. CASE SetSpsr
  <2>1. n = 2 /\ cpu.pc = At("rst", 2) /\ cpu.pc \in {At("rst", m) : m \in 2 .. 4}
    BY <1>9, <1>2 DEF SetSpsr
  <2>2. cpu.gpr[0][2] = UserCpsr /\ svc.lr = Main
    BY <2>1 DEF BootState, Num
  <2>3. /\ cpu' = [cpu EXCEPT !.pc = At("rst", 3)]
        /\ svc' = [svc EXCEPT !.spsr = UserCpsr]
        /\ UNCHANGED <<frame, pcb, current, line, gic>> /\ elapsed' = TRUE
    BY <1>9, <2>1, <2>2, <1>6 DEF SetSpsr, Executes, device_vars
  <2>4. cpu' \in Context /\ cpu'.pc = At("rst", 3) /\ cpu'.cpsr = cpu.cpsr
    BY <2>3, <1>5, <1>6, ContextUpdates
  <2>5. svc' \in [lr : Pc, spsr : Nat] /\ svc'.lr = Main /\ svc'.spsr = UserCpsr
    BY <2>2, <2>3, <1>4 DEF TypeOK
  <2>6. cpu'.pc # At("rst", 2)
    BY <2>4, PlacesDiffer
  <2>7. BootState'
    BY <2>3, <2>4, <2>5, <2>6 DEF BootState
  <2> QED BY <2>3, <2>4, <2>5, <2>7 DEF TypeOK
<1>10. CASE LoadRegisters
  <2>1. n = 3 /\ cpu.pc = At("rst", 3) /\ cpu.pc \in {At("rst", m) : m \in 3 .. 4}
             /\ cpu.pc \in {At("rst", m) : m \in 2 .. 4}
    BY <1>10, <1>2 DEF LoadRegisters
  <2>2. svc.spsr = UserCpsr /\ svc.lr = Main
    BY <2>1 DEF BootState
  <2>3. /\ cpu' = [cpu EXCEPT !.pc = At("rst", 4), !.gpr = NoGprs]
        /\ UNCHANGED <<svc, frame, pcb, current, line, gic>> /\ elapsed' = TRUE
    BY <1>10, <2>1, <1>3, <1>6
       DEF LoadRegisters, BootState, Executes, kernel_vars, device_vars
  <2>4. cpu' \in Context /\ cpu'.pc = At("rst", 4) /\ cpu'.cpsr = cpu.cpsr
    BY <2>3, <1>4, <1>5, <1>6 DEF Context
  <2>5. cpu'.pc # At("rst", 2)
    BY <2>4, PlacesDiffer
  <2>6. BootState'
    BY <2>2, <2>3, <2>4, <2>5 DEF BootState
  <2> QED BY <2>3, <2>4, <2>6 DEF TypeOK
<1>11. CASE Leave
  <2>1. cpu.pc = At("rst", 4) /\ cpu.pc \in {At("rst", m) : m \in 3 .. 4}
             /\ cpu.pc \in {At("rst", m) : m \in 2 .. 4}
    BY <1>11, <1>2 DEF Leave
  <2>2. svc.spsr = UserCpsr /\ svc.lr = Main
    BY <2>1 DEF BootState
  <2>3. /\ cpu' = [cpu EXCEPT !.pc = Main, !.cpsr = UserCpsr]
        /\ UNCHANGED <<svc, frame, pcb, current, line, gic>> /\ elapsed' = TRUE
    BY <1>11, <2>2 DEF Leave, return_from_interrupt, Executes, kernel_vars, device_vars
  <2>4. cpu' \in Context /\ cpu'.pc = Main /\ cpu'.cpsr = UserCpsr
    BY <2>3, <1>4, <1>5, <1>6 DEF Context
  <2>5. WellPlaced(0, cpu')
    BY <2>4 DEF WellPlaced
  <2>6. UserState'
    BY <2>3, <2>5, Table DEF BootState, UserState
  <2> QED BY <1>3, <1>11, <2>3, <2>4, <2>6 DEF TypeOK, BootState
<1> QED BY <1>7, <1>8, <1>9, <1>10, <1>11 DEF Boot

LEMMA TypesKept ==
  ASSUME TypeOK, Kept, line' \in BOOLEAN, gic' \in {"off", "idle", "active"}, elapsed' \in BOOLEAN
  PROVE  TypeOK'
BY DEF TypeOK, Kept, Pcb

\* which steps a state allows
LEMMA StepsOf ==
  /\ TypeOK /\ ResetState => ~UserStep /\ ~lolevel_handler_irq /\ ~TimerFires /\ (Boot => Reset)
  /\ TypeOK /\ BootState => ~UserStep
  /\ TypeOK /\ UserState => ~Boot
<1>1. (cpu.cpsr = ResetCpsr \/ cpu.cpsr = 83) => ~UserStep
  BY CpsrFacts DEF UserStep, Call, MoveArgument, lolevel_handler_svc, Return, InStub, InUser
<1>2. ASSUME ResetState PROVE ~lolevel_handler_irq /\ ~TimerFires /\ (Boot => Reset)
  <2>1. 0 \in 0 .. 4 /\ cpu.pc = At("rst", 0)
    BY <1>2 DEF ResetState
  <2>2. Boot => Reset
    BY <2>1, BootPlace DEF Boot, LoadPc, SetSpsr, LoadRegisters, Leave
  <2> QED BY <1>2, <2>2 DEF ResetState, lolevel_handler_irq, IrqPending, TimerFires
<1>3. ASSUME UserState PROVE ~Boot
  <2>1. \A n : cpu.pc # At("rst", n)
    <3>1. cpu.pc.fn \in Stubs \cup {"main", "child"}
      BY <1>3, PlacesDiffer DEF UserState, WellPlaced, InStubOf
    <3>2. "rst" \notin Stubs \cup {"main", "child"}
      BY StubFacts
    <3>3. \A n : At("rst", n).fn = "rst"
      BY PlacesDiffer
    <3> QED BY <3>1, <3>2, <3>3
  <2> QED BY <2>1 DEF Boot, Reset, LoadPc, SetSpsr, LoadRegisters, Leave
<1> QED BY <1>1, <1>2, <1>3 DEF ResetState, BootState

LEMMA InitInductive == Init => IInv
<1> SUFFICES ASSUME Init PROVE IInv
  OBVIOUS
<1>1. NoGprs \in [Gprs -> Value] /\ [r \in Gprs |-> Junk] \in [Gprs -> Value]
  BY ValueTypes DEF NoGprs
<1>2. ZeroCtx \in Context /\ ResetCpsr \in Nat /\ At("rst", 0) \in Pc
  BY <1>1, PcTypes, CtxType DEF ZeroCtx, ResetCpsr
<1>3. cpu \in Context /\ cpu.pc = At("rst", 0) /\ cpu.cpsr = ResetCpsr
  BY <1>1, <1>2, CtxType DEF Init, Ctx
<1>4. TypeOK
  <2>1. [running |-> FALSE, ctx |-> ZeroCtx] \in Pcb
    BY <1>2 DEF Pcb
  <2> DEFINE empty == [i \in Slots |-> [running |-> FALSE, ctx |-> ZeroCtx]]
  <2>2. empty \in [Slots -> Pcb]
    BY <2>1
  <2>3. [lr |-> At("none", 0), spsr |-> 0] \in [lr : Pc, spsr : Nat]
    BY PcTypes
  <2>4. 0 \in Slots
    BY TrapsAssumption DEF Slots
  <2> QED BY <1>2, <1>3, <2>2, <2>3, <2>4 DEF Init, TypeOK, Pcb
<1>5. ResetState
  BY <1>3 DEF Init, ResetState
<1> QED BY <1>4, <1>5 DEF Init, IInv

LEMMA NextInductive == IInv /\ [Next]_vars => IInv'
<1> SUFFICES ASSUME IInv, [Next]_vars PROVE IInv'
  OBVIOUS
<1>1. CASE UNCHANGED vars
  BY <1>1 DEF IInv, vars, kernel_vars, device_vars, TypeOK, ResetState, BootState, UserState
<1>2. CASE TimerFires
  <2>1. UNCHANGED <<cpu, svc, frame, pcb, current, gic>> /\ line' = TRUE /\ elapsed' = FALSE
    BY <1>2 DEF TimerFires, kernel_vars
  <2>2. ~ResetState
    BY <1>2, StepsOf DEF IInv
  <2>3. TypeOK'
    BY <2>1 DEF IInv, TypeOK
  <2>4. BootState' \/ UserState'
    BY <2>1, <2>2 DEF IInv, BootState, UserState
  <2> QED BY <2>1, <2>3, <2>4 DEF IInv
<1>3. CASE Boot
  <2>1. CASE ResetState
    BY <1>3, <2>1, StepsOf, ResetKeeps DEF IInv
  <2>2. CASE BootState
    BY <1>3, <2>2, BootKeeps DEF IInv
  <2>3. CASE UserState
    BY <1>3, <2>3, StepsOf DEF IInv
  <2> QED BY <2>1, <2>2, <2>3 DEF IInv
<1>4. CASE lolevel_handler_irq
  <2>1. line' = FALSE /\ gic' = "idle" /\ UNCHANGED elapsed
    BY <1>4 DEF lolevel_handler_irq, hilevel_handler_irq, Timer1IntClr, EOIR
  <2>2. elapsed' \in BOOLEAN
    BY <2>1 DEF IInv, TypeOK
  <2>3. CASE ResetState
    BY <1>4, <2>3, StepsOf DEF IInv
  <2>4. CASE BootState
    <3>1. BootState' /\ TypeOK'
      BY <1>4, <2>1, <2>2, <2>4, IrqKeepsBoot DEF IInv, TypeOK, Pcb
    <3> QED BY <2>1, <3>1 DEF IInv
  <2>5. CASE UserState
    BY <1>4, <2>1, <2>2, <2>5, IrqKeepsUser, TypesKept DEF IInv, Kept
  <2> QED BY <2>3, <2>4, <2>5 DEF IInv
<1>5. CASE UserStep
  <2>1. UserState
    BY <1>5, StepsOf DEF IInv
  <2>2. Kept /\ UNCHANGED <<line, gic>> /\ elapsed' = TRUE
    BY <1>5, <2>1, UserStepKeeps DEF IInv
  <2>3. TypeOK'
    BY <2>2, TypesKept DEF IInv, TypeOK
  <2> QED BY <2>2, <2>3 DEF IInv, Kept
<1> QED BY <1>1, <1>2, <1>3, <1>4, <1>5 DEF Next, Processor

LEMMA Inductive == Spec => []IInv
<1> QED BY InitInductive, NextInductive, PTL DEF Spec

(* Every saved context, the processor and the banked registers have their     *)
(* types: the program counter never leaves the instructions of the code.      *)
THEOREM TypeCorrect == Spec => []TypeOK
<1>1. IInv => TypeOK
  BY DEF IInv
<1> QED BY <1>1, Inductive, PTL

(* Programs only ever run in user mode with interrupts enabled, whatever      *)
(* context the tick, a call, fork, exec or exit made the processor load.      *)
THEOREM UserOnlyAlways == Spec => []UserOnly
<1>1. IInv => UserOnly
  <2> SUFFICES ASSUME IInv PROVE UserOnly
    OBVIOUS
  <2>1. CASE ResetState \/ BootState
    <3>1. cpu.pc.fn = "rst"
      BY <2>1, PlacesDiffer DEF ResetState, BootState
    <3>2. \A i \in Slots : pcb[i].running => i = current
      BY <2>1 DEF ResetState, BootState
    <3> QED BY <3>1, <3>2 DEF UserOnly
  <2>2. CASE UserState
    BY <2>2 DEF UserState, WellPlaced, UserOnly
  <2> QED BY <2>1, <2>2 DEF IInv
<1> QED BY <1>1, Inductive, PTL

----------------------------------------------------------------------------
(* Every step is one of the programs' own steps in Processes, or changes nothing *)
(* that a program can see.                                                       *)

\* where a running program with context c is
Shown(c) ==
  IF c.pc.fn \notin Stubs THEN [at |-> c.pc.fn, fn |-> "none", value |-> Num(0)]
  ELSE IF c.pc.n <= Params[c.pc.fn] THEN [at |-> "calling", fn |-> c.pc.fn, value |-> Num(0)]
  ELSE [at |-> "returned", fn |-> c.pc.fn,
        value |-> IF c.pc.fn \in NoResult THEN Num(0) ELSE c.gpr[0]]

LEMMA ProcShown ==
  /\ \A i : Proc(i) = IF pcb[i].running THEN Shown(Live(i)) ELSE Abstract!Off
  /\ \A i : Proc(i)' = IF pcb'[i].running THEN Shown(Live(i)') ELSE Abstract!Off
BY DEF Proc, Shown, Abstract!Off, Abstract!At, Abstract!None, Abstract!Num, Num

LEMMA ShownAt ==
  /\ \A c : c.pc = Main => Shown(c) = Abstract!Main
  /\ \A c : c.pc = Child => Shown(c) = Abstract!Child
  /\ \A c : \A f \in Stubs : \A n \in Int :
       c.pc = At(f, n) /\ n <= Params[f] => Shown(c) = Abstract!Calling(f)
  /\ \A c : \A f \in Stubs :
       c.pc = At(f, Params[f] + 1) =>
         Shown(c) = Abstract!Returned(f, IF f \in NoResult THEN Num(0) ELSE c.gpr[0])
<1>1. \A f \in Stubs : Params[f] \in Nat /\ ~(Params[f] + 1 <= Params[f])
  BY StubFacts
<1>2. "main" \notin Stubs /\ "child" \notin Stubs
  BY StubFacts
<1>3. \A f, n : At(f, n).fn = f /\ At(f, n).n = n
  BY PlacesDiffer
<1>4. Main.fn = "main" /\ Child.fn = "child"
  BY PlacesDiffer
<1> USE DEF Shown, Abstract!Main, Abstract!Child, Abstract!Calling, Abstract!Returned,
            Abstract!At, Abstract!None, Abstract!Num, Num
<1>5. \A c : c.pc = Main => Shown(c) = Abstract!Main
  BY <1>2, <1>4
<1>6. \A c : c.pc = Child => Shown(c) = Abstract!Child
  BY <1>2, <1>4
<1>7. ASSUME NEW c, NEW f \in Stubs, NEW n \in Int, c.pc = At(f, n), n <= Params[f]
      PROVE  Shown(c) = Abstract!Calling(f)
  BY <1>3, <1>7
<1>8. ASSUME NEW c, NEW f \in Stubs, c.pc = At(f, Params[f] + 1)
      PROVE  Shown(c) = Abstract!Returned(f, IF f \in NoResult THEN Num(0) ELSE c.gpr[0])
  BY <1>1, <1>3, <1>8
<1> QED BY <1>5, <1>6, <1>7, <1>8

LEMMA AbstractDiffer ==
  /\ Abstract!Off.at = "off" /\ Abstract!Main.at = "main" /\ Abstract!Child.at = "child"
  /\ \A f : Abstract!Calling(f).at = "calling" /\ Abstract!Calling(f).fn = f
  /\ \A f, v : /\ Abstract!Returned(f, v).at = "returned" /\ Abstract!Returned(f, v).fn = f
               /\ Abstract!Returned(f, v).value = v
BY DEF Abstract!Off, Abstract!Main, Abstract!Child, Abstract!Calling, Abstract!Returned,
       Abstract!At

\* the context each process goes on with, before and after a step
LEMMA LiveKept ==
  ASSUME TypeOK, UserState, Kept
  PROVE  /\ \A i \in Slots : Live(i) = IF i = current THEN cpu ELSE pcb[i].ctx
         /\ \A i \in Slots : Live(i)' = IF i = current' THEN cpu' ELSE pcb'[i].ctx
BY CpsrFacts DEF Kept, UserState, WellPlaced, Live, Booted

\* one program moves, the others do not
LEMMA OneMoves ==
  ASSUME NEW p \in Slots, NEW to,
         Proc(p)' = to, \A i \in Slots \ {p} : Proc(i)' = Proc(i)
  PROVE  Abstract!Moves(p, to)
BY DEF Abstract!Moves

LEMMA NoneMoves ==
  ASSUME \A i \in Slots : Proc(i)' = Proc(i)
  PROVE  UNCHANGED [i \in Slots |-> Proc(i)]
OBVIOUS

LEMMA RunLive ==
  ASSUME TypeOK, UserState, NEW c \in Context, WellPlaced(current, c), scheduler_run(c)
  PROVE  \A i \in Slots : /\ pcb'[i].running = pcb[i].running
                          /\ Live(i)' = IF i = current THEN c ELSE Live(i)
<1>1. PICK n \in Slots : /\ pcb' = [pcb EXCEPT ![current].ctx = c]
                         /\ cpu' = pcb'[n].ctx
                         /\ current' = n
  BY DEF scheduler_run
<1>2. \A i \in Slots : /\ pcb'[i].running = pcb[i].running
                       /\ pcb'[i].ctx = IF i = current THEN c ELSE pcb[i].ctx
  BY <1>1, Table DEF Pcb
<1>3. Kept
  BY RunKeeps
<1> QED BY <1>1, <1>2, <1>3, LiveKept

\* the tick is not seen
LEMMA IrqHidden ==
  ASSUME IInv, lolevel_handler_irq
  PROVE  UNCHANGED [i \in Slots |-> Proc(i)]
<1>1. TypeOK
  BY DEF IInv
<1>2. CASE ResetState
  BY <1>1, <1>2, StepsOf
<1>3. CASE BootState
  <2>1. /\ cpu' = cpu /\ UNCHANGED <<svc, frame, current>>
        /\ \A i \in Slots : pcb'[i].running = pcb[i].running
    BY <1>1, <1>3, IrqKeepsBoot
  <2>2. \A i \in Slots : pcb[i].running => i = current
    BY <1>3 DEF BootState
  <2>3. \A i \in Slots : Proc(i)' = Proc(i)
    BY <2>1, <2>2, ProcShown DEF Live, Booted
  <2> QED BY <2>3, NoneMoves
<1>4. CASE UserState
  <2>1. scheduler_run(cpu) /\ WellPlaced(current, cpu) /\ cpu \in Context
    BY <1>1, <1>4, NothingSkipped, Table
       DEF lolevel_handler_irq, hilevel_handler_irq, UserState
  <2>2. \A i \in Slots : pcb'[i].running = pcb[i].running /\ Live(i)' = Live(i)
    <3>1. Live(current) = cpu
      BY <1>1, <1>4, <2>1, RunKeeps, LiveKept, Table
    <3> QED BY <1>1, <1>4, <2>1, <3>1, RunLive
  <2> QED BY <2>2, ProcShown, NoneMoves
<1> QED BY <1>2, <1>3, <1>4 DEF IInv

LEMMA StepOf ==
  ASSUME NEW p \in Slots, Proc(p)' # Proc(p),
         \/ Proc(p).at \in {"main", "child"} /\ \E f \in DOMAIN Params : Abstract!Call(p, f)
         \/ Proc(p).at = "calling" /\ Abstract!Perform(p, Proc(p).fn)
         \/ Proc(p).at = "returned" /\ Abstract!Return(p, Proc(p).fn)
  PROVE  Abstract!Next
BY DEF Abstract!Next, Abstract!Step

LEMMA ResetBoots ==
  ASSUME TypeOK, ResetState, Reset
  PROVE  Abstract!Next
<1>1. BootState' /\ 0 \in Slots
  BY ResetKeeps, Table
<1>2. \A i \in Slots : Proc(i) = Abstract!Off
  BY ProcShown DEF ResetState
<1>3. \A i \in Slots \ {0} : Proc(i)' = Abstract!Off
  BY <1>1, ProcShown DEF BootState
<1>4. Live(0)' = ConsoleCtx /\ pcb'[0].running
  BY <1>1, CpsrFacts DEF BootState, Live, Booted
<1>5. Proc(0)' = Abstract!Main
  BY <1>4, ProcShown, ShownAt DEF ConsoleCtx, Ctx
<1>6. Abstract!Moves(0, Abstract!Main)
  BY <1>1, <1>2, <1>3, <1>5, OneMoves
<1> QED BY <1>2, <1>6 DEF Abstract!Next, Abstract!Boot

\* the rest of the reset handler leads to where the console was said to be
LEMMA BootHidden ==
  ASSUME TypeOK, BootState, Boot
  PROVE  UNCHANGED [i \in Slots |-> Proc(i)]
<1>1. /\ UNCHANGED <<frame, pcb, current>>
      /\ \A i \in Slots : pcb[i].running <=> i = 0
      /\ current = 0 /\ frame.pc = Main /\ ~Booted /\ 0 \in Slots
  BY BootKeeps, CpsrFacts, Table DEF BootState, Booted, ConsoleCtx, Ctx
<1>2. Shown(Live(0)) = Abstract!Main
  BY <1>1, ShownAt DEF Live
<1>3. Shown(Live(0)') = Abstract!Main
  <2>1. CASE BootState'
    BY <1>1, <2>1, CpsrFacts, ShownAt DEF BootState, Live, Booted
  <2>2. CASE UserState' /\ cpu'.cpsr = frame.cpsr /\ cpu'.pc = frame.pc
    BY <1>1, <2>2, ShownAt DEF Live
  <2> QED BY <2>1, <2>2, BootKeeps
<1>4. \A i \in Slots : Proc(i)' = Proc(i)
  BY <1>1, <1>2, <1>3, ProcShown
<1> QED BY <1>4, NoneMoves

\* an instruction of the current program that leaves the kernel alone
LEMMA OthersStay ==
  ASSUME TypeOK, UserState, Kept, UNCHANGED kernel_vars
  PROVE  /\ current \in Slots /\ current' = current
         /\ \A i \in Slots \ {current} : Proc(i)' = Proc(i)
         /\ Proc(current) = Shown(cpu) /\ Proc(current)' = Shown(cpu')
<1>1. current \in Slots /\ current' = current /\ pcb' = pcb
  BY Table DEF kernel_vars
<1>2. pcb[current].running
  BY DEF UserState
<1> QED BY <1>1, <1>2, LiveKept, ProcShown

LEMMA CallSteps ==
  ASSUME TypeOK, UserState, NEW f \in Stubs, Call(f)
  PROVE  Abstract!Next
<1>1. UNCHANGED kernel_vars /\ Kept
  BY CallKeeps DEF Call
<1>2. cpu'.pc = At(f, 0)
  <2>1. cpu \in Context
    BY Table
  <2> QED BY <2>1 DEF Call, Context
<1>3. Params[f] \in Nat /\ f \in DOMAIN Params /\ 0 <= Params[f]
  BY StubFacts DEF Stubs, SYS, Params
<1>4. Proc(current)' = Abstract!Calling(f)
  BY <1>1, <1>2, <1>3, OthersStay, ShownAt
<1>5. \/ Proc(current) = Abstract!Main /\ f # "exec"
      \/ Proc(current) = Abstract!Child /\ f = "exec"
  <2>1. cpu.pc = Main => f # "exec"
    BY TrapsAssumption, PlacesDiffer DEF Call, MayCall
  <2>2. cpu.pc = Main \/ (cpu.pc = Child /\ f = "exec")
    BY DEF Call, MayCall
  <2> QED BY <1>1, <2>1, <2>2, OthersStay, ShownAt
<1>6. Abstract!Moves(current, Abstract!Calling(f))
  BY <1>1, <1>4, OthersStay, OneMoves
<1>7. Abstract!Call(current, f)
  BY <1>1, <1>5, <1>6, OthersStay DEF Abstract!Call
<1>8. Proc(current).at \in {"main", "child"} /\ Proc(current)' # Proc(current)
  BY <1>4, <1>5, AbstractDiffer
<1> QED BY <1>1, <1>3, <1>7, <1>8, OthersStay, StepOf

LEMMA MoveHidden ==
  ASSUME TypeOK, UserState, NEW f \in Stubs, NEW n \in 0 .. KEPT - 1, MoveArgument(f, n)
  PROVE  UNCHANGED [i \in Slots |-> Proc(i)]
<1>1. UNCHANGED kernel_vars /\ Kept /\ cpu.pc = At(f, n) /\ n < Params[f]
  BY MoveKeeps DEF MoveArgument, InStub
<1>2. cpu'.pc = At(f, n + 1)
  <2>1. cpu \in Context /\ After(At(f, n)) = At(f, n + 1)
    BY Table, PlacesDiffer
  <2> QED BY <1>1, <2>1 DEF MoveArgument, Context
<1>3. n \in Int /\ n + 1 \in Int /\ n <= Params[f] /\ n + 1 <= Params[f]
  BY <1>1, StubFacts DEF KEPT
<1>4. Proc(current)' = Proc(current)
  BY <1>1, <1>2, <1>3, OthersStay, ShownAt
<1>5. \A i \in Slots : Proc(i)' = Proc(i)
  BY <1>1, <1>4, OthersStay
<1> QED BY <1>5, NoneMoves

LEMMA ReturnSteps ==
  ASSUME TypeOK, UserState, NEW f \in Stubs, Return(f)
  PROVE  Abstract!Next
<1>1. UNCHANGED kernel_vars /\ Kept /\ cpu.pc = At(f, Params[f] + 1)
  BY ReturnKeeps DEF Return, InStub
<1>2. cpu'.pc = IF f = "fork" /\ cpu.gpr[0] = Num(0) THEN Child ELSE Main
  <2>1. cpu \in Context
    BY Table
  <2> QED BY <2>1 DEF Return, Context
<1> DEFINE v == IF f \in NoResult THEN Num(0) ELSE cpu.gpr[0]
<1>3. Proc(current) = Abstract!Returned(f, v)
  BY <1>1, OthersStay, ShownAt
<1>4. f = "fork" => v = cpu.gpr[0]
  BY DEF NoResult
<1> HIDE DEF v
<1> DEFINE to == IF f = "fork" /\ v = Num(0) THEN Abstract!Child ELSE Abstract!Main
<1>5. Proc(current)' = to
  BY <1>1, <1>2, <1>4, OthersStay, ShownAt
<1>6. Abstract!Moves(current, to)
  BY <1>1, <1>5, OthersStay, OneMoves
<1>7. Proc(current).at = "returned" /\ Proc(current).fn = f /\ Proc(current).value = v
  BY <1>3, AbstractDiffer
<1>8. Abstract!Return(current, Proc(current).fn)
  <2>1. to = IF f = "fork" /\ [i \in Slots |-> Proc(i)][current].value = Abstract!Num(0)
             THEN Abstract!Child ELSE Abstract!Main
    BY <1>1, <1>7, OthersStay DEF Abstract!Num, Num
  <2> QED BY <1>6, <1>7, <2>1 DEF Abstract!Return
<1>9. Proc(current)' # Proc(current)
  BY <1>5, <1>7, AbstractDiffer
<1> QED BY <1>1, <1>7, <1>8, <1>9, OthersStay, StepOf

\* the current program, calling
LEMMA CallingAt ==
  ASSUME TypeOK, UserState, NEW p \in Slots, p = current,
         NEW f \in Stubs, cpu.pc = At(f, Params[f])
  PROVE  /\ pcb[p].running /\ Live(p) = cpu
         /\ Proc(p) = Abstract!Calling(f)
         /\ Proc(p).at = "calling" /\ Proc(p).fn = f
<1>1. pcb[p].running
  BY DEF UserState
<1>2. Live(p) = cpu
  BY CpsrFacts DEF UserState, WellPlaced, Live, Booted
<1>3. Params[f] \in Int /\ Params[f] <= Params[f]
  BY StubFacts
<1>4. Proc(p) = Abstract!Calling(f)
  BY <1>1, <1>2, <1>3, ProcShown, ShownAt
<1> QED BY <1>1, <1>2, <1>4, AbstractDiffer

\* the context of the caller once the call is over
AtReturn(c, f) ==
  /\ c \in Context /\ c.pc = At(f, Params[f] + 1) /\ c.cpsr = UserCpsr
  /\ \A k \in 0 .. Params[f] - 1 : c.gpr[k] = Arg(current, f, k)
  /\ f \in {"exit", "exec"} => current # 0
  /\ f = "kill" => current = 0
  /\ cpu.pc = At(f, Params[f])

LEMMA YieldSteps ==
  ASSUME TypeOK, UserState, NEW p \in Slots, p = current, NEW c, AtReturn(c, "yield"), scheduler_run(c)
  PROVE  Abstract!Next
<1>1. "yield" \in Stubs /\ "yield" \in NoResult
  BY DEF Stubs, SYS, NoResult
<1>2. WellPlaced(current, c) /\ c \in Context
  BY <1>1, AnsweredPlace DEF AtReturn
<1>3. \A i \in Slots : /\ pcb'[i].running = pcb[i].running
                       /\ Live(i)' = IF i = p THEN c ELSE Live(i)
  BY <1>2, RunLive
<1>4. /\ pcb[p].running
      /\ Proc(p).at = "calling" /\ Proc(p).fn = "yield"
  BY <1>1, CallingAt DEF AtReturn
<1>5. Proc(p)' = Abstract!Returned("yield", Num(0))
  BY <1>1, <1>3, <1>4, ProcShown, ShownAt DEF AtReturn
<1>6. \A i \in Slots \ {p} : Proc(i)' = Proc(i)
  BY <1>3, ProcShown
<1>7. Abstract!Moves(p, Abstract!Returned("yield", Abstract!None))
  BY <1>4, <1>5, <1>6, OneMoves DEF Abstract!None, Abstract!Num, Num
<1>8. Abstract!Perform(p, "yield")
  BY <1>7 DEF Abstract!Perform
<1>9. Proc(p)' # Proc(p)
  BY <1>4, <1>5, AbstractDiffer
<1> QED BY <1>4, <1>8, <1>9, StepOf

LEMMA ExecSteps ==
  ASSUME TypeOK, UserState, NEW p \in Slots, p = current, NEW c, AtReturn(c, "exec"), scheduler_exec(c)
  PROVE  Abstract!Next
<1>1. "exec" \in Stubs /\ 0 \in 0 .. Params["exec"] - 1
  BY DEF Stubs, SYS, Params
<1>2. c.gpr[0] = Arg(current, "exec", 0) /\ current # 0 /\ c \in Context
  BY <1>1 DEF AtReturn
<1>3. Kept
  BY <1>2, ExecKeeps
<1>4. Entry(c.gpr[0]) = Main
  BY <1>2 DEF Entry
<1>5. /\ pcb' = [pcb EXCEPT ![current].ctx.pc = Main]
      /\ cpu' = pcb'[current].ctx /\ current' = current
  BY <1>4 DEF scheduler_exec
<1>6. /\ \A i \in Slots \ {p} : pcb'[i] = pcb[i]
      /\ pcb'[p].running = pcb[p].running
      /\ cpu'.pc = Main
  BY <1>5, Table DEF Pcb, Context
<1>7. /\ pcb[p].running
      /\ Proc(p).at = "calling" /\ Proc(p).fn = "exec"
  BY <1>1, CallingAt DEF AtReturn
<1>8. \A i \in Slots \ {p} : Proc(i)' = Proc(i)
  BY <1>3, <1>5, <1>6, LiveKept, ProcShown
<1>9. Proc(p)' = Abstract!Main
  <2>1. pcb'[p].running /\ Live(p)' = cpu'
    BY <1>3, <1>5, <1>6, <1>7, LiveKept
  <2>2. Live(p)'.pc = Main
    BY <2>1, <1>6
  <2> QED BY <2>1, <2>2, ProcShown, ShownAt
<1>10. Abstract!Perform(p, "exec")
  <2>1. Abstract!Moves(p, Abstract!Main)
    BY <1>7, <1>8, <1>9, OneMoves
  <2> QED BY <2>1 DEF Abstract!Perform
<1>11. Proc(p)' # Proc(p)
  BY <1>7, <1>9, AbstractDiffer
<1> QED BY <1>7, <1>10, <1>11, StepOf

LEMMA ExitSteps ==
  ASSUME TypeOK, UserState, NEW p \in Slots, p = current, NEW c, AtReturn(c, "exit"), scheduler_exit(c)
  PROVE  Abstract!Next
<1>1. "exit" \in Stubs /\ 0 \in 0 .. Params["exit"] - 1
  BY DEF Stubs, SYS, Params
<1>2. c.gpr[0] = Num(0) /\ current # 0 /\ c \in Context
  BY <1>1 DEF AtReturn, Arg
<1>3. Kept
  BY <1>2, ExitKeeps
<1>4. /\ pcb' = [pcb EXCEPT ![current].running = FALSE]
      /\ current' = 0 /\ cpu' = pcb[0].ctx
  BY <1>2 DEF scheduler_exit
<1>5. \A i \in Slots : /\ pcb'[i].ctx = pcb[i].ctx
                       /\ pcb'[i].running = (pcb[i].running /\ i # p)
  BY <1>4, Table DEF Pcb
<1>6. /\ pcb[p].running
      /\ Proc(p).at = "calling" /\ Proc(p).fn = "exit"
  BY <1>1, CallingAt DEF AtReturn
<1>7. \A i \in Slots \ {p} : Live(i)' = Live(i) /\ pcb'[i].running = pcb[i].running
  BY <1>3, <1>4, <1>5, LiveKept
<1>8. \A i \in Slots \ {p} : Proc(i)' = Proc(i)
  BY <1>7, ProcShown
<1>9. Proc(p)' = Abstract!Off
  BY <1>5, <1>6, ProcShown
<1>10. Abstract!Perform(p, "exit")
  <2>1. Abstract!Moves(p, Abstract!Off)
    BY <1>6, <1>8, <1>9, OneMoves
  <2> QED BY <2>1, <1>2 DEF Abstract!Perform
<1>11. Proc(p)' # Proc(p)
  BY <1>6, <1>9, AbstractDiffer
<1> QED BY <1>6, <1>10, <1>11, StepOf

LEMMA RunningIsSomewhere ==
  ASSUME TypeOK, UserState, NEW i \in Slots, pcb[i].running
  PROVE  Proc(i) # Abstract!Off
<1>1. Live(i) = IF i = current THEN cpu ELSE pcb[i].ctx
  BY CpsrFacts DEF UserState, WellPlaced, Live, Booted
<1>2. WellPlaced(i, Live(i))
  BY <1>1 DEF UserState
<1>3. CASE Live(i).pc = Main \/ Live(i).pc = Child
  BY <1>3, ShownAt, ProcShown, AbstractDiffer
<1>4. CASE ~(Live(i).pc = Main \/ Live(i).pc = Child)
  <2>1. PICK f \in Stubs : \E n \in 0 .. Params[f] + 1 : Live(i).pc = At(f, n)
    BY <1>2, <1>4 DEF WellPlaced, InStubOf
  <2>2. Live(i).pc.fn \in Stubs
    BY <2>1, PlacesDiffer
  <2>3. Shown(Live(i)).at \in {"calling", "returned"}
    BY <2>2 DEF Shown
  <2> QED BY <2>3, ProcShown, AbstractDiffer
<1> QED BY <1>3, <1>4

LEMMA ForkSteps ==
  ASSUME TypeOK, UserState, NEW p \in Slots, p = current, NEW c, AtReturn(c, "fork"),
         scheduler_fork(c)
  PROVE  Abstract!Next
<1>1. "fork" \in Stubs /\ "fork" \notin NoResult /\ Params["fork"] + 1 = 1
  BY DEF Stubs, SYS, Params, NoResult
<1>2. c \in Context /\ c.pc = At("fork", Params["fork"] + 1) /\ c.cpsr = UserCpsr
  BY DEF AtReturn
<1>3. Kept /\ current' = p
  BY <1>1, <1>2, ForkKeeps DEF scheduler_fork
<1>4. /\ pcb[p].running
      /\ Proc(p).at = "calling" /\ Proc(p).fn = "fork"
  BY <1>1, CallingAt DEF AtReturn
<1>5. \A v \in Int : Num(v) \in Value /\ Num(v) = Abstract!Num(v)
  BY ValueTypes DEF Num, Abstract!Num
<1>6. \A v \in Int : /\ Answer(c, Num(v)).pc = At("fork", Params["fork"] + 1)
                     /\ Answer(c, Num(v)).gpr[0] = Num(v)
  BY <1>2, <1>5, ContextUpdates
<1>7. CASE \A n \in Slots : pcb[n].running
  <2>1. cpu' = Answer(c, Num(-1)) /\ pcb' = pcb
    BY <1>7 DEF scheduler_fork, IsNewPid
  <2>2. Proc(p)' = Abstract!Returned("fork", Num(-1))
    <3>1. pcb'[p].running /\ Live(p)' = cpu'
      BY <1>3, <1>4, <2>1, LiveKept
    <3>2. -1 \in Int
      OBVIOUS
    <3>3. cpu'.pc = At("fork", Params["fork"] + 1) /\ cpu'.gpr[0] = Num(-1)
      BY <1>6, <2>1, <3>2
    <3> QED BY <1>1, <3>1, <3>3, ProcShown, ShownAt
  <2>3. \A i \in Slots \ {p} : Proc(i)' = Proc(i)
    BY <1>3, <2>1, LiveKept, ProcShown
  <2>4. \A i \in Slots : [j \in Slots |-> Proc(j)][i] # Abstract!Off
    BY <1>7, RunningIsSomewhere
  <2>5. Abstract!Moves(p, Abstract!Returned("fork", Abstract!Num(-1)))
    BY <1>5, <2>2, <2>3, OneMoves
  <2>6. Abstract!Perform(p, "fork")
    BY <2>4, <2>5 DEF Abstract!Perform
  <2>7. Proc(p)' # Proc(p)
    BY <1>4, <2>2, AbstractDiffer
  <2> QED BY <1>4, <2>6, <2>7, StepOf
<1>8. CASE ~ \A n \in Slots : pcb[n].running
  <2> DEFINE child == [Answer(c, Num(0)) EXCEPT !.cpsr = UserCpsr]
  <2>1. PICK n \in Slots : /\ ~pcb[n].running
                           /\ pcb' = [pcb EXCEPT ![n] = [running |-> TRUE, ctx |-> child]]
                           /\ cpu' = Answer(c, Num(n))
    BY <1>8 DEF scheduler_fork, IsNewPid
  <2>2. n # p /\ n \in Int
    BY <1>4, <2>1 DEF Slots
  <2>3. child.pc = At("fork", Params["fork"] + 1) /\ child.gpr[0] = Num(0)
    <3>1. 0 \in Int /\ Num(0) \in Value
      BY <1>5
    <3> QED BY <1>2, <3>1, ChildContext
  <2> HIDE DEF child
  <2>4. /\ \A i \in Slots \ {n} : pcb'[i] = pcb[i]
        /\ pcb'[n].running /\ pcb'[n].ctx = child
    BY <2>1, Table
  <2>5. Live(n)' = child /\ Live(p)' = cpu' /\ \A i \in Slots \ {n, p} : Live(i)' = Live(i)
    BY <1>3, <2>2, <2>4, LiveKept
  <2>6. cpu'.pc = At("fork", Params["fork"] + 1) /\ cpu'.gpr[0] = Num(n)
    BY <1>6, <2>1, <2>2
  <2>7. Proc(p)' = Abstract!Returned("fork", Num(n))
    BY <1>1, <1>4, <2>2, <2>4, <2>5, <2>6, ProcShown, ShownAt
  <2>8. Proc(n)' = Abstract!Returned("fork", Num(0))
    BY <1>1, <2>3, <2>4, <2>5, ProcShown, ShownAt
  <2>9. \A i \in Slots \ {n, p} : Proc(i)' = Proc(i)
    BY <2>4, <2>5, ProcShown
  <2>10. Proc(n) = Abstract!Off
    BY <2>1, ProcShown
  <2>11. Num(n) = Abstract!Num(n) /\ Num(0) = Abstract!Num(0)
    BY <2>2, <1>5
  <2>12. [i \in Slots |-> Proc(i)]' =
           [[i \in Slots |-> Proc(i)] EXCEPT ![p] = Abstract!Returned("fork", Abstract!Num(n)),
                                             ![n] = Abstract!Returned("fork", Abstract!Num(0))]
    BY <2>2, <2>7, <2>8, <2>9, <2>11
  <2>13. Abstract!Perform(p, "fork")
    BY <2>10, <2>12 DEF Abstract!Perform
  <2>14. Proc(p)' # Proc(p)
    BY <1>4, <2>7, AbstractDiffer
  <2> QED BY <1>4, <2>13, <2>14, StepOf
<1> QED BY <1>7, <1>8

LEMMA ServedSteps ==
  ASSUME TypeOK, UserState, NEW p \in Slots, p = current, NEW c, NEW f \in Stubs, AtReturn(c, f),
         NEW s \in Services, s.id = SYS[f],
         cpu' = Served(c, s), Kills(s), UNCHANGED <<svc, frame, current>>
  PROVE  Abstract!Next
<1>1. s.fn = f /\ s.gprs = Params[f] /\ f \notin NoResult /\ f # "fork"
  BY ServiceFacts DEF NoResult
<1>2. /\ c \in Context /\ c.cpsr = UserCpsr /\ c.pc = At(f, Params[f] + 1)
      /\ \A k \in 0 .. Params[f] - 1 : c.gpr[k] = Arg(p, f, k)
      /\ f = "kill" => p = 0
      /\ cpu.pc = At(f, Params[f])
  BY DEF AtReturn
<1>3. Kept
  BY <1>2, ServedKeeps
<1>4. /\ pcb[p].running
      /\ Proc(p).at = "calling" /\ Proc(p).fn = f
  BY <1>2, CallingAt
<1>5. cpu' = Answer(c, Abstract!Result(p, f, Abstract!Args(p, f)))
  <2>1. \A k \in 0 .. Params[f] - 1 : c.gpr[k] = Abstract!Arg(p, k)
    BY <1>1, <1>2 DEF Arg, Abstract!Arg, NoResult
  <2>2. [k \in 0 .. Params[f] - 1 |-> c.gpr[k]] = Abstract!Args(p, f)
    BY <2>1 DEF Abstract!Args
  <2> QED BY <1>1, <2>2 DEF Served, Result, Abstract!Result
<1> DEFINE v == Abstract!Result(p, f, Abstract!Args(p, f))
<1>6. cpu'.pc = At(f, Params[f] + 1) /\ cpu'.gpr[0] = v
  <2> HIDE DEF v
  <2>1. ASSUME NEW w PROVE Answer(c, w).pc = c.pc /\ Answer(c, w).gpr[0] = w
    BY <1>2 DEF Answer, Context, Gprs, KEPT
  <2>2. cpu' = Answer(c, v)
    BY <1>5 DEF v
  <2> QED BY <1>2, <2>1, <2>2
<1>7. Abstract!Answered(p, f) = Abstract!Returned(f, v)
  BY DEF Abstract!Answered
<1> HIDE DEF v
<1>8. Live(p)' = cpu'
  BY <1>3, LiveKept
<1>9. pcb'[p].running => Proc(p)' = Abstract!Answered(p, f)
  BY <1>1, <1>6, <1>7, <1>8, ProcShown, ShownAt
<1>10. \A a : Abstract!Answered(p, f) # a \/ a.at = "returned"
  BY <1>7, AbstractDiffer
<1>11. CASE f # "kill"
  <2>1. pcb' = pcb
    BY <1>1, <1>11 DEF Kills
  <2>2. \A i \in Slots \ {p} : Proc(i)' = Proc(i)
    BY <1>3, <2>1, LiveKept, ProcShown
  <2>3. Proc(p)' = Abstract!Answered(p, f)
    BY <1>4, <1>9, <2>1
  <2>4. Abstract!Moves(p, Abstract!Answered(p, f))
    BY <2>2, <2>3, OneMoves
  <2>5. Abstract!Perform(p, f)
    BY <1>1, <1>11, <2>4 DEF Abstract!Perform
  <2>6. Proc(p)' # Proc(p)
    BY <1>4, <1>10, <2>3
  <2> QED BY <1>4, <2>5, <2>6, StepOf
<1>12. CASE f = "kill"
  <2>1. PICK S \in SUBSET (Slots \ {0}) :
          pcb' = [i \in Slots |-> [pcb[i] EXCEPT !.running = @ /\ i \notin S]]
    BY <1>1, <1>12 DEF Kills, Killed
  <2>2. \A i \in Slots : /\ pcb'[i].ctx = pcb[i].ctx
                         /\ pcb'[i].running = (pcb[i].running /\ i \notin S)
    BY <2>1, Table DEF Pcb
  <2>3. p \notin S
    BY <1>2, <1>12
  <2>4. Proc(p)' = Abstract!Answered(p, f)
    BY <1>4, <1>9, <2>2, <2>3
  <2>5. \A i \in S : Proc(i)' = Abstract!Off
    <3> SUFFICES ASSUME NEW i \in S PROVE Proc(i)' = Abstract!Off
      OBVIOUS
    <3>1. i \in Slots /\ ~pcb'[i].running
      BY <2>2
    <3> QED BY <3>1, ProcShown
  <2>6. \A i \in Slots \ {p} : i \notin S => Proc(i)' = Proc(i)
    <3> SUFFICES ASSUME NEW i \in Slots \ {p}, i \notin S PROVE Proc(i)' = Proc(i)
      OBVIOUS
    <3>1. pcb'[i].running = pcb[i].running /\ pcb'[i].ctx = pcb[i].ctx
      BY <2>2, Table
    <3>2. Live(i)' = Live(i)
      BY <1>3, <1>2, <3>1, LiveKept
    <3> QED BY <3>1, <3>2, ProcShown
  <2>7. [i \in Slots |-> Proc(i)]' =
          [i \in Slots |-> IF i \in S THEN Abstract!Off
                           ELSE IF i = p THEN Abstract!Answered(p, f)
                           ELSE [j \in Slots |-> Proc(j)][i]]
    BY <2>3, <2>4, <2>5, <2>6
  <2>8. Abstract!Perform(p, f)
    BY <1>2, <1>12, <2>7 DEF Abstract!Perform
  <2>9. Proc(p)' # Proc(p)
    BY <1>4, <1>10, <2>4
  <2> QED BY <1>4, <2>8, <2>9, StepOf
<1> QED BY <1>11, <1>12

LEMMA SvcSteps ==
  ASSUME TypeOK, UserState, NEW f \in Stubs, lolevel_handler_svc(f)
  PROVE  Abstract!Next
<1>1. PICK c \in Context : AtReturn(c, f) /\ hilevel_handler_svc(c, SYS[f])
  BY AtSvc DEF AtReturn
<1>2. PICK p \in Slots : p = current
  BY Table
<1>3. CASE f = "yield"
  BY <1>1, <1>2, <1>3, Dispatch, YieldSteps
<1>4. CASE f = "fork"
  BY <1>1, <1>2, <1>4, Dispatch, ForkSteps
<1>5. CASE f = "exec"
  BY <1>1, <1>2, <1>5, Dispatch, ExecSteps
<1>6. CASE f = "exit"
  BY <1>1, <1>2, <1>6, Dispatch, ExitSteps
<1>7. CASE f \notin {"yield", "fork", "exec", "exit"}
  BY <1>1, <1>2, <1>7, Dispatch, ServedSteps
<1> QED BY <1>3, <1>4, <1>5, <1>6, <1>7

LEMMA RefinementInit == Init => Abstract!Init
BY ProcShown DEF Init, Abstract!Init

LEMMA RefinementStep ==
  IInv /\ [Next]_vars => [Abstract!Next]_([i \in Slots |-> Proc(i)])
<1> SUFFICES ASSUME IInv, [Next]_vars
             PROVE  Abstract!Next \/ UNCHANGED [i \in Slots |-> Proc(i)]
  OBVIOUS
<1>1. TypeOK
  BY DEF IInv
<1>2. CASE TimerFires \/ UNCHANGED vars
  <2>1. UNCHANGED <<cpu, frame, pcb, current>>
    BY <1>2 DEF TimerFires, vars, kernel_vars
  <2> QED BY <2>1, ProcShown, NoneMoves DEF Live, Booted
<1>3. CASE Boot
  <2>1. CASE ResetState
    BY <1>1, <1>3, <2>1, StepsOf, ResetBoots
  <2>2. CASE BootState
    BY <1>1, <1>3, <2>2, BootHidden
  <2>3. CASE UserState
    BY <1>1, <1>3, <2>3, StepsOf
  <2> QED BY <2>1, <2>2, <2>3 DEF IInv
<1>4. CASE lolevel_handler_irq
  BY <1>4, IrqHidden
<1>5. CASE UserStep
  <2>1. UserState
    BY <1>1, <1>5, StepsOf DEF IInv
  <2>2. PICK f \in Stubs : \/ Call(f) \/ lolevel_handler_svc(f) \/ Return(f)
                           \/ \E n \in 0 .. KEPT - 1 : MoveArgument(f, n)
    BY <1>5 DEF UserStep
  <2> QED BY <1>1, <2>1, <2>2, CallSteps, MoveHidden, SvcSteps, ReturnSteps
<1> QED BY <1>2, <1>3, <1>4, <1>5 DEF Next, Processor

(* Traps implements Processes: preemption at any instruction is invisible, and *)
(* every system call is one step of the program that makes it, carried out by  *)
(* the function it names on the arguments it passed.                           *)
THEOREM TrapsImplementProcesses == Spec => RefinesProcesses
<1>1. RefinesProcesses <=> Abstract!Init /\ [][Abstract!Next]_([i \in Slots |-> Proc(i)])
  BY DEF RefinesProcesses, Abstract!Spec
<1> QED BY <1>1, RefinementInit, RefinementStep, Inductive, PTL DEF Spec
=============================================================================
