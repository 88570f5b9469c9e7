---------------------------- MODULE Philosophers ----------------------------
(* The dining philosophers: the waiter user/P6.c, its philosophers           *)
(* user/P7.c, and the pipes between them as Mailbox promises them.           *)
(*                                                                           *)
(* Each process is preempted between any two steps; a step is one system     *)
(* call, or the code up to it.  All programs share one memory: the           *)
(* philosophers have one variable `buffer` between them, and what a waiter    *)
(* that is killed leaves in its variables the next one finds.  So it does     *)
(* what is left in the pipes.                                                *)
EXTENDS Integers

CONSTANTS
  NO_OF_PHILOSOPHERS,
  NO_OF_SLOTS,       \* slots of the process table philosophers may get
  MAX_LAUNCHES       \* model bound: times P6 is started again

ASSUME PhilosophersAssumption ==
  /\ NO_OF_PHILOSOPHERS \in Nat /\ NO_OF_PHILOSOPHERS > 1
  /\ NO_OF_SLOTS \in Nat /\ MAX_LAUNCHES \in Nat

Seats == 0 .. NO_OF_PHILOSOPHERS - 1
NoPid == 0                         \* the console's
Pids == 1 .. NO_OF_SLOTS
Waiter == NO_OF_SLOTS + 1          \* each waiter gets the same slot
INIT == 2
EAT == 3
THINK == 4
IPC_EMPTY == -1
NoSignal == 0                      \* also what .bss holds at first

VARIABLES
  at, i,         \* where the waiter is: in initialise or in a round, at seat i
  first_index,
  res,           \* in initialise: what fork returned for seat i, until INIT is sent
  chopstick,     \* chopstick[ i ] lies between seats i - 1 and i
  child_id,      \* seat -> the process fork made for it last
  child_pipe,    \* seat -> the process whose pipe it has; NoPid: pipe 0, of .bss
  launches,      \* times P6 was started again
  mail,          \* the pipes
  buffer,        \* what mreceive last returned to any philosopher
  pc,            \* process -> where it is, as a philosopher
  told,          \* history: the seats the waiter told to eat in this round
  greeting       \* history: process -> "due" if INIT is to come first, "done" if
                 \* it is not to come (again)

waiter_vars ==
  <<at, i, first_index, res, chopstick, child_id, child_pipe, launches, told>>
vars == <<waiter_vars, mail, buffer, pc, greeting>>

\* of a receive only the result is kept, in `buffer`
MB == INSTANCE Mailbox WITH
        Pids <- Pids \cup {Waiter},
        Pairs <- {{Waiter, p} : p \in Pids},
        Signals <- {INIT, EAT, THINK},
        reply <- NoSignal

TypeOK ==
  /\ at \in {"fork", "make_pipe", "send", "round", "killed"}
  /\ i \in 0 .. 2 * NO_OF_PHILOSOPHERS - 1 + MAX_LAUNCHES
  /\ first_index \in 0 .. NO_OF_PHILOSOPHERS - 1 + MAX_LAUNCHES
  /\ res \in Pids \cup {NoPid}
  /\ chopstick \in [Seats -> {0, 1}]
  /\ child_id \in [Seats -> Pids \cup {NoPid}]
  /\ child_pipe \in [Seats -> Pids \cup {NoPid}]
  /\ launches \in 0 .. MAX_LAUNCHES
  /\ mail \subseteq [from : {Waiter}, to : Pids, signal : {INIT, EAT, THINK}]
  /\ buffer \in {NoSignal, INIT, EAT, THINK, IPC_EMPTY}
  /\ pc \in [Pids -> {"none", "receive", "switch", "killed"}]
  /\ told \subseteq Seats
  /\ greeting \in [Pids -> {"due", "done", "unknown"}]

Init ==
  /\ at = "fork" /\ i = 0
  /\ first_index = 0
  /\ res = NoPid
  /\ chopstick = [s \in Seats |-> 0]
  /\ child_id = [s \in Seats |-> NoPid]
  /\ child_pipe = [s \in Seats |-> NoPid]
  /\ launches = 0
  /\ mail = {}
  /\ buffer = NoSignal
  /\ pc = [p \in Pids |-> "none"]
  /\ told = {}
  /\ greeting = [p \in Pids |-> "unknown"]

----------------------------------------------------------------------------
(* The waiter *)

\* the loop of initialise goes on at the next seat, and after the last one
\* the first round begins
NextSeat ==
  \/ i < NO_OF_PHILOSOPHERS - 1 /\ i' = i + 1 /\ at' = "fork"
  \/ i = NO_OF_PHILOSOPHERS - 1 /\ i' = first_index /\ at' = "round"

Free(p) == pc[p] \in {"none", "killed"}

\* fork takes the first free slot; if there is none, the seat keeps the child and
\* the pipe it had, if any
Fork ==
  /\ at = "fork"
  /\ chopstick' = [chopstick EXCEPT ![i] = 1]
  /\ \/ /\ \E p \in Pids :
             /\ Free(p) /\ \A q \in Pids : q < p => ~Free(q)
             /\ pc' = [pc EXCEPT ![p] = "receive"]
             /\ res' = p
             /\ greeting' = [greeting EXCEPT ![p] = IF pc[p] = "none" THEN "due" ELSE "unknown"]
        /\ at' = "make_pipe"
        /\ UNCHANGED i
     \/ /\ \A p \in Pids : ~Free(p)
        /\ NextSeat
        /\ UNCHANGED <<res, pc, greeting>>
  /\ UNCHANGED <<first_index, child_id, child_pipe, launches, mail, buffer, told>>

\* the seat gets the child, then its pipe
MakePipe ==
  /\ at = "make_pipe"
  /\ child_id' = [child_id EXCEPT ![i] = res]
  /\ child_pipe' = [child_pipe EXCEPT ![i] = res]
  /\ at' = "send"
  /\ UNCHANGED <<i, first_index, res, chopstick, launches, mail, buffer, pc, told, greeting>>

\* Wrong on purpose: the waiter sends until the signal is accepted.
TellUntilAccepted(s, signal) ==
  child_id[s] # NoPid /\ MB!Deposits(Waiter, child_id[s], signal)

Matched(s) == child_id[s] # NoPid /\ child_pipe[s] = child_id[s]

\* msend on child_pipe[ s ] to child_id[ s ].  A process that is no end of the pipe
\* has no buffer there (find_buffer returns NULL) and gets nothing; nor does pid 0,
\* the console, which a seat has that never had a child.  Pipe 0 is whoever's made
\* the first, perhaps child_id[ s ]'s, and perhaps not made yet.  The waiter never
\* looks at the result.
Tell(s, signal) ==
  \/ /\ Matched(s)
     /\ MB!Deposits(Waiter, child_id[s], signal) \/ MB!Refused(Waiter, child_id[s])
  \/ ~Matched(s) /\ UNCHANGED mail
  \/ /\ child_id[s] # NoPid /\ child_pipe[s] = NoPid
     /\ MB!Deposits(Waiter, child_id[s], signal)

\* Wrong on purpose: the rounds begin without an INIT.
WithoutGreeting ==
  /\ at = "send"
  /\ NextSeat
  /\ res' = NoPid
  /\ UNCHANGED <<first_index, chopstick, child_id, child_pipe, launches, mail, buffer, pc,
                 told, greeting>>

Greet ==
  /\ at = "send"
  /\ Tell(i, INIT)
  /\ NextSeat
  /\ res' = NoPid
  /\ UNCHANGED <<first_index, chopstick, child_id, child_pipe, launches, buffer, pc, told,
                 greeting>>

seat == i % NO_OF_PHILOSOPHERS
Right(s) == (s + 1) % NO_OF_PHILOSOPHERS

chopsticks_available(s) == chopstick[s] = 1 /\ chopstick[Right(s)] = 1

\* Wrong on purpose: a philosopher takes one chopstick.
one_chopstick_removed(s) == chopstick' = [chopstick EXCEPT ![s] = 0]

chopsticks_remove(s) ==
  chopstick' = [chopstick EXCEPT ![s] = 0, ![Right(s)] = 0]

Serve ==
  /\ at = "round" /\ i < first_index + NO_OF_PHILOSOPHERS
  /\ \/ /\ chopsticks_available(seat)
        /\ Tell(seat, EAT)
        /\ chopsticks_remove(seat)
        /\ told' = told \cup {seat}
     \/ /\ ~chopsticks_available(seat)
        /\ Tell(seat, THINK)
        /\ UNCHANGED <<chopstick, told>>
  /\ i' = i + 1
  /\ UNCHANGED <<at, first_index, res, child_id, child_pipe, launches, buffer, pc, greeting>>

\* Wrong on purpose: every round begins at the same seat, and at a seat too far.
same_first_index == first_index
index_without_modulo == first_index + 1

update_first_index == (first_index + 1) % NO_OF_PHILOSOPHERS

\* the end of a round: chopsticks_return, and on to the next
EndRound ==
  /\ at = "round" /\ i = first_index + NO_OF_PHILOSOPHERS
  /\ first_index' = update_first_index
  /\ i' = first_index'
  /\ chopstick' = [s \in Seats |-> 1]
  /\ told' = {}
  /\ UNCHANGED <<at, res, child_id, child_pipe, launches, mail, buffer, pc, greeting>>

\* What kill leaves of first_index.  update_first_index may be half-way through,
\* having written first_index + 1 back, if the compiler makes it do so; each waiter
\* that is stopped there leaves an index further from the seats.
Left == {first_index} \cup
          (IF at = "round" /\ i = first_index + NO_OF_PHILOSOPHERS THEN {first_index + 1} ELSE {})

\* and of child_id[ i ], when it is stopped between the fork and the make_pipe of a
\* seat
LeftIds == {child_id} \cup
             (IF at = "make_pipe" THEN {[child_id EXCEPT ![i] = res]} ELSE {})

\* The waiter is killed from the console, wherever it is; model bound: not the last
\* of MAX_LAUNCHES.  Only its local variables are gone.  A child it has not greeted
\* yet never gets its INIT.
KillWaiter ==
  /\ at # "killed" /\ launches < MAX_LAUNCHES
  /\ at' = "killed" /\ i' = 0 /\ res' = NoPid
  /\ first_index' \in Left
  /\ child_id' \in LeftIds
  /\ greeting' = [p \in Pids |-> IF p = res /\ greeting[p] = "due" THEN "done" ELSE greeting[p]]
  /\ told' = {}
  /\ UNCHANGED <<chopstick, child_pipe, launches, mail, buffer, pc>>

\* and P6 is started again in the same slot
Launch ==
  /\ at = "killed"
  /\ at' = "fork"
  /\ launches' = launches + 1
  /\ UNCHANGED <<i, first_index, res, chopstick, child_id, child_pipe, mail, buffer, pc, told,
                 greeting>>

----------------------------------------------------------------------------
(* The philosophers *)

Receive(p) ==
  /\ pc[p] = "receive"
  /\ \/ \E m \in mail : MB!Takes(p, Waiter, m) /\ buffer' = m.signal
     \/ MB!NothingFor(p, Waiter) /\ buffer' = IPC_EMPTY
  /\ greeting' = [greeting EXCEPT ![p] =
                    IF @ = "due" /\ buffer' # IPC_EMPTY THEN "done" ELSE @]
  /\ pc' = [pc EXCEPT ![p] = "switch"]
  /\ UNCHANGED waiter_vars

\* it prints what `buffer` holds by now, and yields
Switch(p) ==
  /\ pc[p] = "switch"
  /\ pc' = [pc EXCEPT ![p] = "receive"]
  /\ UNCHANGED <<waiter_vars, mail, buffer, greeting>>

\* from the console; the pipe and what lies in it stay
Kill(p) ==
  /\ pc[p] \in {"receive", "switch"}
  /\ pc' = [pc EXCEPT ![p] = "killed"]
  /\ UNCHANGED <<waiter_vars, mail, buffer, greeting>>

----------------------------------------------------------------------------

WaiterStep == Fork \/ MakePipe \/ Greet \/ Serve \/ EndRound
PhilosopherStep(p) == Receive(p) \/ Switch(p)

Next ==
  \/ WaiterStep \/ KillWaiter \/ Launch
  \/ \E p \in Pids : PhilosopherStep(p) \/ Kill(p)

Spec == Init /\ [][Next]_vars

\* every process that runs gets the processor again and again (NoStarvation of
\* module Scheduler)
FairSpec == Spec /\ WF_vars(WaiterStep) /\ \A p \in Pids : WF_vars(PhilosopherStep(p))

----------------------------------------------------------------------------
(* Properties *)

(* No two neighbours are told to eat in one round, whichever seat it began   *)
(* with, however full the pipes are and whatever an earlier waiter left      *)
(* behind (P6.c:57-65).                                                      *)
NeighboursApart == \A s \in told : Right(s) \notin told

GetsSignal(p) == pc[p] = "receive" /\ pc'[p] = "switch" /\ buffer' # IPC_EMPTY

(* The first signal a philosopher receives is INIT, and INIT never comes     *)
(* again: the waiter greets it before it serves it, a waiter that is started  *)
(* again greets only whom it made, and what the full pipe refuses later is   *)
(* dropped, not reordered.  But a philosopher whose waiter is killed between  *)
(* the fork and the msend never gets INIT: if its seat keeps it, it is told  *)
(* to eat or think unprepared.  This is so for the first process in a slot;   *)
(* those after it may find a signal in the pipe that was not meant for them. *)
ReadyOnce ==
  [][\A p \in Pids :
       GetsSignal(p) => /\ greeting[p] = "due" => buffer' = INIT
                        /\ greeting[p] = "done" => buffer' # INIT]_vars

(* Every seat gets its turn: again and again the waiter decides that its     *)
(* philosopher may eat, whatever the philosophers do, whoever is killed and  *)
(* wherever in its work an earlier waiter was stopped.                       *)
EveryoneGetsTurn == \A s \in Seats : []<>(s \in told) \/ <>[](at = "killed")

\* p lives, and the waiter has it and its pipe in mind
Served(p) ==
  /\ pc[p] \in {"receive", "switch"}
  /\ at # "killed"
  /\ \E s \in Seats : child_id[s] = p /\ child_pipe[s] = p

(* The waiter drops signals a pipe refuses, but a philosopher that lives     *)
(* receives one again and again, also one that a seat has kept from an       *)
(* earlier waiter's time.                                                    *)
SignalsKeepComing ==
  \A p \in Pids : []<><<GetsSignal(p)>>_vars \/ []<>~Served(p)

=============================================================================
