------------------------------ MODULE Processes ------------------------------
(* What the kernel gives a program: a processor of its own, on which a system *)
(* call is one step that sees the arguments the program passed and leaves its *)
(* result with the program that made it.  Module Traps implements it on one   *)
(* processor that is interrupted.                                             *)
EXTENDS Integers

CONSTANTS
  Slots,             \* process slots; slot 0 is the console's
  Params,            \* system call -> the number of its parameters
  Plain              \* the calls that make, end and replace no process

VARIABLE proc        \* slot -> where its program is

Num(n) == <<"num", n>>
\* what program p passes as its k-th parameter, and what the kernel answers
Arg(p, k) == <<"arg", p, k>>
Args(p, f) == [k \in 0 .. Params[f] - 1 |-> Arg(p, k)]
Result(p, f, args) == <<"result", p, f, args>>
None == Num(0)

At(where, f, value) == [at |-> where, fn |-> f, value |-> value]
Off == At("off", "none", None)
Main == At("main", "none", None)
\* the child's branch after fork, that leads to exec
Child == At("child", "none", None)
Calling(f) == At("calling", f, None)
Returned(f, value) == At("returned", f, value)

Moves(p, to) == proc' = [proc EXCEPT ![p] = to]

Init == proc = [p \in Slots |-> Off]

Boot == (\A p \in Slots : proc[p] = Off) /\ Moves(0, Main)

Call(p, f) ==
  /\ \/ proc[p] = Main /\ f # "exec"
     \/ proc[p] = Child /\ f = "exec"
  /\ Moves(p, Calling(f))

Answered(p, f) == Returned(f, Result(p, f, Args(p, f)))

\* the call of f that p makes is carried out
Perform(p, f) ==
  \/ f \in Plain /\ Moves(p, Answered(p, f))
  \/ f = "yield" /\ Moves(p, Returned(f, None))
  \/ f = "exec" /\ Moves(p, Main)
  \/ f = "exit" /\ p # 0 /\ Moves(p, Off)
  \/ /\ f = "fork"
     /\ \/ \E c \in Slots :
             /\ proc[c] = Off
             /\ proc' = [proc EXCEPT ![p] = Returned(f, Num(c)), ![c] = Returned(f, Num(0))]
        \/ (\A c \in Slots : proc[c] # Off) /\ Moves(p, Returned(f, Num(-1)))
  \/ /\ f = "kill" /\ p = 0
     /\ \E S \in SUBSET (Slots \ {0}) :
          proc' = [i \in Slots |-> IF i \in S THEN Off
                                   ELSE IF i = p THEN Answered(p, f) ELSE proc[i]]

\* p gets what its call left, and goes on
Return(p, f) ==
  Moves(p, IF f = "fork" /\ proc[p].value = Num(0) THEN Child ELSE Main)

Step(p) ==
  /\ proc'[p] # proc[p]
  /\ \/ proc[p].at \in {"main", "child"} /\ \E f \in DOMAIN Params : Call(p, f)
     \/ proc[p].at = "calling" /\ Perform(p, proc[p].fn)
     \/ proc[p].at = "returned" /\ Return(p, proc[p].fn)

Next == Boot \/ \E p \in Slots : Step(p)

Spec == Init /\ [][Next]_proc

=============================================================================
