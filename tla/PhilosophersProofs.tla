------------------------- MODULE PhilosophersProofs -------------------------
(* What TLAPS proves of the dining philosophers, for any number of seats,    *)
(* slots of the process table and restarts of the waiter.                    *)
EXTENDS Philosophers, TLAPS

----------------------------------------------------------------------------
(* Seats *)

(* The seat the waiter looks at is one, wherever its index has got to. *)
LEMMA SeatInRange == i \in Nat => seat \in Seats
BY PhilosophersAssumption DEF seat, Seats

(* The neighbour to the right; nobody is its own neighbour. *)
LEMMA RightSeat ==
  \A s \in Seats :
    /\ Right(s) = IF s = NO_OF_PHILOSOPHERS - 1 THEN 0 ELSE s + 1
    /\ Right(s) \in Seats /\ Right(s) # s
<1>1. \A s \in Seats : Right(s) = IF s = NO_OF_PHILOSOPHERS - 1 THEN 0 ELSE s + 1
  BY PhilosophersAssumption DEF Seats, Right
<1> QED BY <1>1, PhilosophersAssumption DEF Seats

LEMMA NextFirstIndex == first_index \in Nat => update_first_index \in Seats
BY PhilosophersAssumption DEF update_first_index, Seats

----------------------------------------------------------------------------
(* Types.  Where the index may be depends on where the waiter is; and each    *)
(* waiter that is killed may leave first_index one further from the seats.   *)

IndexInv ==
  /\ first_index <= NO_OF_PHILOSOPHERS - 1 + launches + (IF at = "killed" THEN 1 ELSE 0)
  /\ at \in {"fork", "make_pipe", "send"} => i \in Seats
  /\ at = "round" => i \in first_index .. first_index + NO_OF_PHILOSOPHERS
  /\ at = "killed" => i = 0 /\ launches < MAX_LAUNCHES
  /\ res \in Pids <=> at \in {"make_pipe", "send"}

LEMMA NoPidIsNone == NoPid \notin Pids
BY DEF NoPid, Pids

(* Whatever the pipe does with a signal, what lies in the pipes is signals to *)
(* philosophers.                                                             *)
LEMMA TellType ==
  ASSUME TypeOK, NEW s \in Seats, NEW signal \in {INIT, EAT, THINK}, Tell(s, signal)
  PROVE  mail' \subseteq [from : {Waiter}, to : Pids, signal : {INIT, EAT, THINK}]
<1>1. CASE child_id[s] # NoPid /\ MB!Deposits(Waiter, child_id[s], signal)
  <2>1. child_id[s] \in Pids
    BY <1>1 DEF TypeOK
  <2> QED BY <1>1, <2>1 DEF TypeOK, MB!Deposits
<1>2. CASE mail' = mail
  BY <1>2 DEF TypeOK
<1> QED BY <1>1, <1>2 DEF Tell, Matched, MB!Refused

LEMMA NextSeatType ==
  ASSUME TypeOK, IndexInv, at \in {"fork", "send"}, NextSeat,
         UNCHANGED <<first_index, launches>>, res' \notin Pids
  PROVE  /\ at' \in {"fork", "round"} /\ i' \in 0 .. 2 * NO_OF_PHILOSOPHERS - 1 + MAX_LAUNCHES
         /\ IndexInv'
<1>1. /\ i \in Seats /\ launches \in 0 .. MAX_LAUNCHES
      /\ first_index \in 0 .. NO_OF_PHILOSOPHERS - 1 + launches
  BY PhilosophersAssumption DEF IndexInv, TypeOK
<1>2. CASE i < NO_OF_PHILOSOPHERS - 1 /\ i' = i + 1 /\ at' = "fork"
  BY <1>1, <1>2, PhilosophersAssumption DEF IndexInv, Seats
<1>3. CASE i = NO_OF_PHILOSOPHERS - 1 /\ i' = first_index /\ at' = "round"
  BY <1>1, <1>3, PhilosophersAssumption DEF IndexInv, Seats
<1> QED BY <1>2, <1>3 DEF NextSeat

LEMMA TypeStep == TypeOK /\ IndexInv /\ [Next]_vars => TypeOK' /\ IndexInv'
<1> SUFFICES ASSUME TypeOK, IndexInv, [Next]_vars PROVE TypeOK' /\ IndexInv'
  OBVIOUS
<1> USE DEF TypeOK
<1>1. CASE Fork
  <2>1. /\ chopstick' \in [Seats -> {0, 1}]
        /\ UNCHANGED <<first_index, child_id, child_pipe, launches, mail, buffer, told>>
    BY <1>1 DEF Fork
  <2>2. CASE NextSeat /\ UNCHANGED <<res, pc, greeting>>
    <3>1. res' \notin Pids
      BY <1>1, <2>2 DEF Fork, IndexInv
    <3> QED BY <1>1, <2>1, <2>2, <3>1, NextSeatType DEF Fork
  <2>3. CASE \E p \in Pids :
               /\ pc' = [pc EXCEPT ![p] = "receive"]
               /\ res' = p
               /\ greeting' = [greeting EXCEPT ![p] = IF pc[p] = "none" THEN "due" ELSE "unknown"]
               /\ at' = "make_pipe" /\ i' = i
    <3> PICK p \in Pids :
               /\ pc' = [pc EXCEPT ![p] = "receive"]
               /\ res' = p
               /\ greeting' = [greeting EXCEPT ![p] = IF pc[p] = "none" THEN "due" ELSE "unknown"]
               /\ at' = "make_pipe" /\ i' = i
      BY <2>3
    <3>1. pc' \in [Pids -> {"none", "receive", "switch", "killed"}]
      OBVIOUS
    <3>2. greeting' \in [Pids -> {"due", "done", "unknown"}]
      OBVIOUS
    <3>3. IndexInv'
      BY <1>1 DEF Fork, IndexInv
    <3> QED BY <2>1, <3>1, <3>2, <3>3
  <2> QED BY <1>1, <2>2, <2>3 DEF Fork
<1>11. CASE MakePipe
  <2>1. res \in Pids /\ at = "make_pipe" /\ at' = "send"
    BY <1>11 DEF MakePipe, IndexInv
  <2>2. /\ child_id' \in [Seats -> Pids \cup {NoPid}]
        /\ child_pipe' \in [Seats -> Pids \cup {NoPid}]
    BY <1>11, <2>1 DEF MakePipe
  <2>3. IndexInv'
    BY <1>11, <2>1 DEF MakePipe, IndexInv
  <2>4. at' \in {"fork", "make_pipe", "send", "round", "killed"}
    BY <2>1
  <2> QED BY <1>11, <2>2, <2>3, <2>4 DEF MakePipe
<1>2. CASE Greet
  <2>1. i \in Seats /\ at = "send"
    BY <1>2 DEF Greet, IndexInv
  <2>2. mail' \subseteq [from : {Waiter}, to : Pids, signal : {INIT, EAT, THINK}]
    BY <1>2, <2>1, TellType DEF Greet
  <2>3. res' = NoPid /\ res' \notin Pids
    BY <1>2, NoPidIsNone DEF Greet
  <2> QED BY <1>2, <2>1, <2>2, <2>3, NextSeatType DEF Greet
<1>3. CASE Serve
  <2>1. at = "round" /\ at' = "round" /\ i' = i + 1
    BY <1>3 DEF Serve
  <2>2. /\ i \in first_index .. first_index + NO_OF_PHILOSOPHERS
        /\ i < first_index + NO_OF_PHILOSOPHERS /\ UNCHANGED <<first_index, res, launches>>
    BY <1>3 DEF Serve, IndexInv
  <2>3. i' \in 0 .. 2 * NO_OF_PHILOSOPHERS - 1 + MAX_LAUNCHES /\ IndexInv'
    BY <2>1, <2>2, PhilosophersAssumption DEF IndexInv
  <2>4. seat \in Seats
    BY SeatInRange
  <2>5. mail' \subseteq [from : {Waiter}, to : Pids, signal : {INIT, EAT, THINK}]
    BY <1>3, <2>4, TellType DEF Serve
  <2>6. chopstick' \in [Seats -> {0, 1}] /\ told' \subseteq Seats
    BY <1>3, <2>4 DEF Serve, chopsticks_remove
  <2> QED BY <1>3, <2>1, <2>3, <2>5, <2>6 DEF Serve
<1>4. CASE EndRound
  <2>1. first_index' \in Seats
    BY <1>4, NextFirstIndex DEF EndRound
  <2>2. /\ first_index' \in 0 .. NO_OF_PHILOSOPHERS - 1 + MAX_LAUNCHES
        /\ i' \in 0 .. 2 * NO_OF_PHILOSOPHERS - 1 + MAX_LAUNCHES /\ IndexInv'
    BY <1>4, <2>1, PhilosophersAssumption DEF EndRound, IndexInv, Seats
  <2> QED BY <1>4, <2>2 DEF EndRound
<1>5. CASE KillWaiter
  <2>1. first_index' \in Left /\ at' = "killed" /\ i' = 0 /\ launches < MAX_LAUNCHES
        /\ at # "killed" /\ launches' = launches /\ res' = NoPid /\ res' \notin Pids
    BY <1>5, NoPidIsNone DEF KillWaiter
  <2>2. first_index' \in {first_index, first_index + 1}
    BY <2>1 DEF Left
  <2>3. /\ first_index' \in 0 .. NO_OF_PHILOSOPHERS - 1 + MAX_LAUNCHES
        /\ i' \in 0 .. 2 * NO_OF_PHILOSOPHERS - 1 + MAX_LAUNCHES
        /\ IndexInv'
    BY <2>1, <2>2, PhilosophersAssumption DEF IndexInv
  <2>4. child_id' \in [Seats -> Pids \cup {NoPid}]
    BY <1>5 DEF KillWaiter, LeftIds
  <2>5. greeting' \in [Pids -> {"due", "done", "unknown"}]
    BY <1>5 DEF KillWaiter
  <2> QED BY <1>5, <2>1, <2>3, <2>4, <2>5 DEF KillWaiter
<1>6. CASE Launch
  <2>1. /\ launches' \in 0 .. MAX_LAUNCHES /\ IndexInv'
    BY <1>6, PhilosophersAssumption DEF Launch, IndexInv, Seats
  <2> QED BY <1>6, <2>1 DEF Launch
<1>7. ASSUME NEW p \in Pids, Receive(p) PROVE TypeOK' /\ IndexInv'
  <2>1. buffer' \in {NoSignal, INIT, EAT, THINK, IPC_EMPTY} /\ mail' \subseteq mail
    BY <1>7 DEF Receive, MB!Takes, MB!NothingFor
  <2>2. /\ pc' \in [Pids -> {"none", "receive", "switch", "killed"}]
        /\ greeting' \in [Pids -> {"due", "done", "unknown"}]
    BY <1>7 DEF Receive
  <2> QED BY <1>7, <2>1, <2>2 DEF Receive, waiter_vars, IndexInv
<1>8. ASSUME NEW p \in Pids, Switch(p) PROVE TypeOK' /\ IndexInv'
  BY <1>8 DEF Switch, waiter_vars, IndexInv
<1>9. ASSUME NEW p \in Pids, Kill(p) PROVE TypeOK' /\ IndexInv'
  BY <1>9 DEF Kill, waiter_vars, IndexInv
<1>10. CASE UNCHANGED vars
  BY <1>10 DEF vars, waiter_vars, IndexInv
<1> QED
  BY <1>1, <1>2, <1>3, <1>4, <1>5, <1>6, <1>7, <1>8, <1>9, <1>10, <1>11
  DEF Next, WaiterStep, PhilosopherStep

LEMMA InitType == Init => TypeOK /\ IndexInv
BY PhilosophersAssumption, NoPidIsNone DEF Init, TypeOK, IndexInv, Seats, NoPid

LEMMA TypesForever == Spec => [](TypeOK /\ IndexInv)
BY InitType, TypeStep, PTL DEF Spec

(* The waiter's index never leaves the seats of its round, its signals are   *)
(* the three it knows, and every process is where the programs have code,    *)
(* whoever is killed and started again.                                      *)
THEOREM PhilosophersTypeCorrect == Spec => []TypeOK
BY TypesForever, PTL

----------------------------------------------------------------------------
(* Neighbours.  Both chopsticks of whoever was told to eat are gone, and are *)
(* not put back before the round ends; between rounds nobody is told.        *)

EatersHold ==
  /\ at # "round" => told = {}
  /\ \A s \in told : chopstick[s] = 0 /\ chopstick[Right(s)] = 0

LEMMA EatersStep ==
  TypeOK /\ IndexInv /\ EatersHold /\ NeighboursApart /\ [Next]_vars
    => EatersHold' /\ NeighboursApart'
<1> SUFFICES ASSUME TypeOK, IndexInv, EatersHold, NeighboursApart, [Next]_vars
             PROVE  EatersHold' /\ NeighboursApart'
  OBVIOUS
<1>1. CASE told' = {}
  BY <1>1 DEF EatersHold, NeighboursApart
<1>2. CASE Serve
  <2>1. /\ seat \in Seats /\ Right(seat) \in Seats /\ Right(seat) # seat
        /\ at' = "round" /\ chopstick \in [Seats -> {0, 1}] /\ told \subseteq Seats
    BY <1>2, SeatInRange, RightSeat DEF Serve, TypeOK
  <2>2. CASE chopsticks_available(seat) /\ chopsticks_remove(seat) /\ told' = told \cup {seat}
    <3>1. /\ chopstick'[seat] = 0 /\ chopstick'[Right(seat)] = 0
          /\ \A s \in Seats : chopstick[s] = 0 => chopstick'[s] = 0
      BY <2>1, <2>2 DEF chopsticks_remove
    <3>2. \A s \in told : Right(s) \in Seats
      BY <2>1, RightSeat
    <3>3. EatersHold'
      BY <2>1, <2>2, <3>1, <3>2 DEF EatersHold
    <3>4. \A s \in told : Right(s) # seat /\ s # Right(seat)
      BY <2>1, <2>2 DEF chopsticks_available, EatersHold
    <3>5. NeighboursApart'
      BY <2>1, <2>2, <3>4 DEF NeighboursApart
    <3> QED BY <3>3, <3>5
  <2>3. CASE UNCHANGED <<chopstick, told>>
    BY <2>1, <2>3 DEF EatersHold, NeighboursApart
  <2> QED BY <1>2, <2>2, <2>3 DEF Serve
<1>3. CASE UNCHANGED <<at, told, chopstick>>
  BY <1>3 DEF EatersHold, NeighboursApart
<1>4. CASE Fork \/ MakePipe \/ Greet
  BY <1>1, <1>4 DEF Fork, MakePipe, Greet, EatersHold
<1>5. CASE EndRound \/ KillWaiter
  BY <1>1, <1>5 DEF EndRound, KillWaiter
<1>6. CASE Launch
  BY <1>1, <1>6 DEF Launch, EatersHold
<1>7. ASSUME NEW p \in Pids, PhilosopherStep(p) \/ Kill(p)
      PROVE  UNCHANGED <<at, told, chopstick>>
  BY <1>7 DEF PhilosopherStep, Receive, Switch, Kill, waiter_vars
<1> QED
  BY <1>2, <1>3, <1>4, <1>5, <1>6, <1>7 DEF Next, WaiterStep, vars, waiter_vars

(* Two neighbours are never told to eat in one round, for any number of      *)
(* seats above one and wherever in its work an earlier waiter was killed.    *)
THEOREM NeighboursStayApart == Spec => []NeighboursApart
<1>1. Init => EatersHold /\ NeighboursApart
  BY DEF Init, EatersHold, NeighboursApart
<1> QED BY <1>1, EatersStep, TypesForever, PTL DEF Spec

----------------------------------------------------------------------------
(* Signals in order.  A pipe holds one signal; that of a process nobody has  *)
(* made yet is empty.  A new process waits for its greeting, and the waiter  *)
(* does nothing else before it has put that in the pipe, which is empty, or  *)
(* is killed; so INIT lies there until it is received, and is never sent     *)
(* again, or it is never sent.                                               *)

NoMail(p) == \A m \in mail : m.to # p

BeingGreeted(p) == res = p

OneSignal == \A m, n \in mail : m.to = n.to => m = n

UnusedInv ==
  \A p \in Pids :
    pc[p] = "none" => /\ NoMail(p) /\ greeting[p] = "unknown"
                      /\ ~BeingGreeted(p) /\ \A s \in Seats : child_id[s] # p

GreetedInv == at = "send" => child_id[i] = res /\ child_pipe[i] = res

DueInv ==
  \A p \in Pids :
    greeting[p] = "due" => \/ BeingGreeted(p) /\ NoMail(p)
                           \/ /\ ~BeingGreeted(p)
                              /\ \E m \in mail : m.to = p /\ m.signal = INIT

DoneInv ==
  \A p \in Pids :
    greeting[p] = "done" => /\ ~BeingGreeted(p)
                            /\ \A m \in mail : m.to = p => m.signal # INIT

GreetInv == OneSignal /\ UnusedInv /\ GreetedInv /\ DueInv /\ DoneInv

(* The waiter's signal goes into an empty pipe of the child, or nowhere; and  *)
(* if the pipe is the child's, only because there is a signal in it.          *)
LEMMA TellEffect ==
  ASSUME TypeOK, NEW s \in Seats, NEW signal, Tell(s, signal)
  PROVE  \/ mail' = mail /\ (Matched(s) => ~NoMail(child_id[s]))
         \/ /\ child_id[s] \in Pids /\ NoMail(child_id[s])
            /\ mail' = mail \cup {[from |-> Waiter, to |-> child_id[s], signal |-> signal]}
<1>1. CASE mail' = mail /\ ~Matched(s)
  BY <1>1
<1>2. CASE /\ child_id[s] # NoPid
           /\ MB!Deposits(Waiter, child_id[s], signal) \/ MB!Refused(Waiter, child_id[s])
  <2> DEFINE c == child_id[s]
  <2>1. c \in Pids
    BY <1>2 DEF TypeOK
  <2>2. \A m \in mail : m.from = Waiter
    BY DEF TypeOK
  <2>3. NoMail(c) <=> MB!Between(Waiter, c) = {}
    <3>1. \A m \in mail : {m.from, m.to} = {Waiter, c} <=> m.to = c
      BY <2>1, <2>2
    <3> QED BY <3>1 DEF NoMail, MB!Between
  <2> QED BY <1>2, <2>1, <2>3 DEF MB!Deposits, MB!Refused
<1> QED BY <1>1, <1>2 DEF Tell, Matched

(* One more signal in an empty pipe leaves one in each. *)
LEMMA AddedSignal ==
  ASSUME GreetInv, NEW c, NoMail(c), NEW signal,
         mail' = mail \cup {[from |-> Waiter, to |-> c, signal |-> signal]}
  PROVE  /\ OneSignal'
         /\ \A p : p # c => (NoMail(p)' <=> NoMail(p))
         /\ \E m \in mail' : m.to = c /\ m.signal = signal
         /\ \A m \in mail' : m.to = c => m.signal = signal
         /\ mail \subseteq mail'
<1> DEFINE new == [from |-> Waiter, to |-> c, signal |-> signal]
<1>1. new.to = c /\ new.signal = signal
  OBVIOUS
<1>2. \A m \in mail : m.to # c
  BY DEF NoMail
<1> HIDE DEF new
<1>3. mail' = mail \cup {new}
  BY DEF new
<1>4. OneSignal'
  BY <1>1, <1>2, <1>3 DEF GreetInv, OneSignal
<1>5. \A p : p # c => (NoMail(p)' <=> NoMail(p))
  BY <1>1, <1>3 DEF NoMail
<1> QED BY <1>1, <1>2, <1>3, <1>4, <1>5

LEMMA ForkGreets ==
  ASSUME TypeOK, IndexInv, GreetInv, Fork
  PROVE  GreetInv'
<1>1. /\ mail' = mail /\ child_id' = child_id /\ at' # "send"
      /\ \A q \in Pids : ~BeingGreeted(q)
  BY DEF Fork, IndexInv, NextSeat, BeingGreeted
<1>2. OneSignal' /\ GreetedInv'
  BY <1>1 DEF GreetInv, OneSignal, GreetedInv
<1>3. ASSUME NEW p \in Pids, Free(p),
             pc' = [pc EXCEPT ![p] = "receive"],
             res' = p,
             greeting' = [greeting EXCEPT ![p] = IF pc[p] = "none" THEN "due" ELSE "unknown"]
      PROVE  GreetInv'
  <2>1. /\ pc'[p] # "none" /\ BeingGreeted(p)'
        /\ greeting'[p] = IF pc[p] = "none" THEN "due" ELSE "unknown"
    BY <1>3 DEF TypeOK, BeingGreeted
  <2>2. \A q \in Pids : q # p => /\ pc'[q] = pc[q] /\ greeting'[q] = greeting[q]
                                 /\ ~BeingGreeted(q)'
    BY <1>3 DEF TypeOK, BeingGreeted
  <2>3. \A q \in Pids : NoMail(q)' <=> NoMail(q)
    BY <1>1 DEF NoMail
  <2>4. UnusedInv'
    BY <1>1, <2>1, <2>2, <2>3 DEF GreetInv, UnusedInv
  <2>5. DueInv'
    <3> SUFFICES ASSUME NEW q \in Pids, greeting'[q] = "due"
                 PROVE  \/ BeingGreeted(q)' /\ NoMail(q)'
                        \/ /\ ~BeingGreeted(q)'
                           /\ \E m \in mail' : m.to = q /\ m.signal = INIT
      BY DEF DueInv
    <3>1. CASE q = p
      BY <2>1, <2>3, <3>1 DEF GreetInv, UnusedInv
    <3>2. CASE q # p
      BY <1>1, <2>2, <3>2 DEF GreetInv, DueInv
    <3> QED BY <3>1, <3>2
  <2>6. DoneInv'
    <3> SUFFICES ASSUME NEW q \in Pids, greeting'[q] = "done"
                 PROVE  /\ ~BeingGreeted(q)'
                        /\ \A m \in mail' : m.to = q => m.signal # INIT
      BY DEF DoneInv
    <3>1. q # p
      BY <2>1
    <3> QED BY <1>1, <2>2, <3>1 DEF GreetInv, DoneInv
  <2> QED BY <1>2, <2>4, <2>5, <2>6 DEF GreetInv
<1>4. CASE UNCHANGED <<res, pc, greeting>>
  BY <1>1, <1>2, <1>4 DEF GreetInv, UnusedInv, DueInv, DoneInv, NoMail, BeingGreeted
<1> QED BY <1>3, <1>4 DEF Fork

LEMMA MakePipeGreets ==
  ASSUME TypeOK, IndexInv, GreetInv, MakePipe
  PROVE  GreetInv'
<1>1. /\ i \in Seats /\ i' = i /\ res' = res /\ UNCHANGED <<mail, pc, greeting>>
      /\ \A s \in Seats : child_id'[s] \in {child_id[s], res}
      /\ child_id'[i] = res /\ child_pipe'[i] = res
  BY DEF MakePipe, IndexInv, TypeOK
<1>2. \A p : (BeingGreeted(p)' <=> BeingGreeted(p)) /\ (NoMail(p)' <=> NoMail(p))
  BY <1>1 DEF BeingGreeted, NoMail
<1>3. UnusedInv' /\ GreetedInv'
  BY <1>1, <1>2 DEF GreetInv, UnusedInv, GreetedInv, BeingGreeted
<1> QED BY <1>1, <1>2, <1>3 DEF GreetInv, OneSignal, DueInv, DoneInv

(* A child whose waiter is killed before the greeting does not get it: its   *)
(* pipe is empty, and INIT is sent to new children only.                     *)
LEMMA KillGreets ==
  ASSUME TypeOK, GreetInv, KillWaiter
  PROVE  GreetInv'
<1>1. /\ at' # "send" /\ UNCHANGED <<mail, pc>>
      /\ \A s \in Seats : child_id'[s] \in {child_id[s], res}
      /\ \A p \in Pids : greeting'[p] = IF BeingGreeted(p) /\ greeting[p] = "due" THEN "done"
                                        ELSE greeting[p]
  BY DEF KillWaiter, LeftIds, TypeOK, BeingGreeted
<1>2. \A p \in Pids : ~BeingGreeted(p)'
  BY NoPidIsNone DEF KillWaiter, BeingGreeted
<1>3. \A p : NoMail(p)' <=> NoMail(p)
  BY <1>1 DEF NoMail
<1>4. UnusedInv'
  BY <1>1, <1>2, <1>3 DEF GreetInv, UnusedInv, BeingGreeted
<1>5. DueInv'
  BY <1>1, <1>2 DEF GreetInv, DueInv
<1>6. DoneInv'
  <2> SUFFICES ASSUME NEW p \in Pids, greeting'[p] = "done", NEW m \in mail, m.to = p
               PROVE  m.signal # INIT
    BY <1>1, <1>2 DEF DoneInv
  <2>1. CASE BeingGreeted(p) /\ greeting[p] = "due"
    BY <2>1 DEF GreetInv, DueInv, NoMail
  <2>2. CASE greeting[p] = "done"
    BY <2>2 DEF GreetInv, DoneInv
  <2> QED BY <1>1, <2>1, <2>2
<1> QED BY <1>1, <1>4, <1>5, <1>6 DEF GreetInv, OneSignal, GreetedInv

(* Any other step of a waiter that tells nobody, or of a philosopher that     *)
(* receives nothing, changes nothing GreetInv is about.                       *)
LEMMA SameGreetings ==
  ASSUME GreetInv, UNCHANGED <<mail, res, child_id, child_pipe, greeting>>,
         at' # "send" \/ UNCHANGED <<at, i>>,
         \A p \in Pids : pc'[p] = "none" => pc[p] = "none"
  PROVE  GreetInv'
<1>1. \A p : BeingGreeted(p)' <=> BeingGreeted(p)
  BY DEF BeingGreeted
<1>2. \A p : NoMail(p)' <=> NoMail(p)
  BY DEF NoMail
<1> QED BY <1>1, <1>2 DEF GreetInv, OneSignal, UnusedInv, GreetedInv, DueInv, DoneInv

LEMMA TellGreets ==
  ASSUME TypeOK, IndexInv, GreetInv, NEW s \in Seats, NEW signal, Tell(s, signal),
         \/ at = "send" /\ s = i /\ signal = INIT
         \/ at = "round" /\ signal # INIT,
         at' # "send", res' \notin Pids, UNCHANGED <<child_id, pc, greeting>>
  PROVE  GreetInv'
<1> DEFINE c == child_id[s]
<1>1. \A p \in Pids : ~BeingGreeted(p)'
  BY DEF BeingGreeted
<1>2. at = "send" => c \in Pids /\ BeingGreeted(c) /\ Matched(s)
  BY NoPidIsNone DEF IndexInv, GreetInv, GreetedInv, BeingGreeted, Matched
<1>3. \A p \in Pids : BeingGreeted(p) => at = "send" /\ p = c
  BY <1>2 DEF IndexInv, BeingGreeted
<1>4. CASE mail' = mail /\ (Matched(s) => ~NoMail(c))
  <2>1. \A p : NoMail(p)' <=> NoMail(p)
    BY <1>4 DEF NoMail
  <2>2. OneSignal' /\ UnusedInv' /\ GreetedInv' /\ DoneInv'
    BY <1>1, <1>4, <2>1 DEF GreetInv, OneSignal, UnusedInv, GreetedInv, DoneInv
  <2>3. DueInv'
    BY <1>1, <1>2, <1>3, <1>4 DEF GreetInv, DueInv
  <2> QED BY <2>2, <2>3 DEF GreetInv
<1>5. CASE /\ c \in Pids /\ NoMail(c)
           /\ mail' = mail \cup {[from |-> Waiter, to |-> c, signal |-> signal]}
  <2>1. /\ OneSignal'
        /\ \A p : p # c => (NoMail(p)' <=> NoMail(p))
        /\ \E m \in mail' : m.to = c /\ m.signal = signal
        /\ \A m \in mail' : m.to = c => m.signal = signal
        /\ mail \subseteq mail'
        /\ \A m \in mail' : m.to # c => m \in mail
    <3>1. \A m \in mail' : m.to # c => m \in mail
      BY <1>5
    <3> QED BY <1>5, <3>1, AddedSignal
  <2>2. pc[c] # "none"
    BY <1>5 DEF GreetInv, UnusedInv
  <2>3. greeting[c] = "due" => at = "send"
    BY <1>3, <1>5 DEF GreetInv, DueInv, NoMail
  <2>4. greeting[c] = "done" => at # "send"
    BY <1>2, <1>5 DEF GreetInv, DoneInv
  <2>5. UnusedInv' /\ GreetedInv'
    BY <1>1, <2>1, <2>2 DEF GreetInv, UnusedInv, GreetedInv
  <2>6. DueInv'
    <3> SUFFICES ASSUME NEW q \in Pids, greeting[q] = "due"
                 PROVE  \E m \in mail' : m.to = q /\ m.signal = INIT
      BY <1>1 DEF DueInv
    <3>1. CASE q = c
      BY <2>1, <2>3, <3>1
    <3>2. CASE q # c
      BY <1>3, <2>1, <3>2 DEF GreetInv, DueInv
    <3> QED BY <3>1, <3>2
  <2>7. DoneInv'
    <3> SUFFICES ASSUME NEW q \in Pids, greeting[q] = "done", NEW m \in mail', m.to = q
                 PROVE  m.signal # INIT
      BY <1>1 DEF DoneInv
    <3>1. CASE q = c
      BY <2>1, <2>4, <3>1
    <3>2. CASE q # c
      BY <2>1, <3>2 DEF GreetInv, DoneInv
    <3> QED BY <3>1, <3>2
  <2> QED BY <2>1, <2>5, <2>6, <2>7 DEF GreetInv
<1> QED BY <1>4, <1>5, TellEffect

(* What a philosopher receives is its greeting, if that is due, and no        *)
(* greeting, if it is done.                                                   *)
LEMMA ReceiveGreets ==
  ASSUME TypeOK, GreetInv, NEW p \in Pids, Receive(p)
  PROVE  /\ GreetInv'
         /\ buffer' # IPC_EMPTY =>
              /\ greeting[p] = "due" => buffer' = INIT
              /\ greeting[p] = "done" => buffer' # INIT
<1>1. \A q \in Pids : BeingGreeted(q)' <=> BeingGreeted(q)
  BY DEF Receive, waiter_vars, BeingGreeted
<1>2. /\ \A q \in Pids : q # p => pc'[q] = pc[q] /\ greeting'[q] = greeting[q]
      /\ pc[p] = "receive" /\ pc'[p] = "switch" /\ child_id' = child_id
      /\ greeting'[p] = IF greeting[p] = "due" /\ buffer' # IPC_EMPTY THEN "done" ELSE greeting[p]
  BY DEF Receive, TypeOK, waiter_vars
<1>3. ASSUME NEW m \in mail, MB!Takes(p, Waiter, m), buffer' = m.signal
      PROVE  /\ GreetInv'
             /\ greeting[p] = "due" => buffer' = INIT
             /\ greeting[p] = "done" => buffer' # INIT
  <2>1. m.to = p /\ mail' = mail \ {m}
    BY <1>3 DEF MB!Takes
  <2>2. buffer' # IPC_EMPTY
    BY <1>3 DEF TypeOK, INIT, EAT, THINK, IPC_EMPTY
  <2>3. NoMail(p)' /\ ~NoMail(p)
    BY <2>1 DEF GreetInv, OneSignal, NoMail
  <2>4. \A q \in Pids : q # p => (NoMail(q)' <=> NoMail(q))
    BY <2>1 DEF NoMail
  <2>5. \A n \in mail : n.to # p => n \in mail'
    BY <2>1
  <2>6. greeting[p] = "due" => ~BeingGreeted(p) /\ m.signal = INIT
    BY <2>1, <2>3 DEF GreetInv, DueInv, OneSignal
  <2>7. greeting[p] = "done" => ~BeingGreeted(p) /\ m.signal # INIT
    BY <2>1 DEF GreetInv, DoneInv
  <2>8. OneSignal' /\ UnusedInv' /\ GreetedInv'
    BY <1>1, <1>2, <2>1, <2>4
    DEF GreetInv, OneSignal, UnusedInv, GreetedInv, Receive, waiter_vars
  <2>9. DueInv'
    BY <1>1, <1>2, <2>2, <2>4, <2>5 DEF GreetInv, DueInv
  <2>10. DoneInv'
    <3> SUFFICES ASSUME NEW q \in Pids, greeting'[q] = "done"
                 PROVE  ~BeingGreeted(q)' /\ \A n \in mail' : n.to = q => n.signal # INIT
      BY DEF DoneInv
    <3>1. CASE q = p
      BY <1>1, <1>2, <2>3, <2>6, <2>7, <3>1 DEF NoMail
    <3>2. CASE q # p
      BY <1>1, <1>2, <2>1, <3>2 DEF GreetInv, DoneInv
    <3> QED BY <3>1, <3>2
  <2> QED BY <1>3, <2>6, <2>7, <2>8, <2>9, <2>10 DEF GreetInv
<1>4. CASE mail' = mail /\ buffer' = IPC_EMPTY
  <2>1. greeting' = greeting
    BY <1>4 DEF Receive, TypeOK
  <2>2. GreetInv'
    BY <1>2, <1>4, <2>1, SameGreetings DEF Receive, waiter_vars
  <2> QED BY <1>4, <2>2
<1> QED BY <1>3, <1>4 DEF Receive, MB!NothingFor

LEMMA GreetStep == TypeOK /\ IndexInv /\ GreetInv /\ [Next]_vars => GreetInv'
<1> SUFFICES ASSUME TypeOK, IndexInv, GreetInv, [Next]_vars PROVE GreetInv'
  OBVIOUS
<1>1. CASE Fork
  BY <1>1, ForkGreets
<1>2. CASE Greet
  <2>1. i \in Seats /\ at' # "send"
    BY <1>2 DEF Greet, IndexInv, NextSeat
  <2> QED BY <1>2, <2>1, TellGreets, NoPidIsNone DEF Greet
<1>3. CASE Serve
  <2>1. seat \in Seats
    BY <1>3, SeatInRange, PhilosophersAssumption DEF TypeOK
  <2>2. EAT # INIT /\ THINK # INIT
    BY DEF EAT, INIT, THINK
  <2>3. at = "round" /\ at' # "send" /\ UNCHANGED <<res, child_id, pc, greeting>>
    BY <1>3 DEF Serve
  <2>4. res' \notin Pids
    BY <2>3 DEF IndexInv
  <2>5. Tell(seat, EAT) \/ Tell(seat, THINK)
    BY <1>3 DEF Serve
  <2> QED BY <2>1, <2>2, <2>3, <2>4, <2>5, TellGreets
<1>4. CASE EndRound \/ Launch
  BY <1>4, SameGreetings DEF EndRound, Launch
<1>5. ASSUME NEW p \in Pids, Receive(p) PROVE GreetInv'
  BY <1>5, ReceiveGreets
<1>6. ASSUME NEW p \in Pids, Switch(p) \/ Kill(p) PROVE GreetInv'
  <2>1. \A q \in Pids : pc'[q] = "none" => pc[q] = "none"
    BY <1>6 DEF Switch, Kill, TypeOK
  <2> QED BY <1>6, <2>1, SameGreetings DEF Switch, Kill, waiter_vars
<1>7. CASE UNCHANGED vars
  BY <1>7, SameGreetings DEF vars, waiter_vars
<1>8. CASE MakePipe
  BY <1>8, MakePipeGreets
<1>9. CASE KillWaiter
  BY <1>9, KillGreets
<1> QED
  BY <1>1, <1>2, <1>3, <1>4, <1>5, <1>6, <1>7, <1>8, <1>9
  DEF Next, WaiterStep, PhilosopherStep

(* The first signal of the first process in a slot is INIT, if its waiter    *)
(* lived to send it, and INIT never comes again, and not at all if it did    *)
(* not; for any number of seats, slots and restarts of the waiter.           *)
THEOREM GreetedOnce == Spec => ReadyOnce
<1>1. Init => GreetInv
  BY NoPidIsNone
  DEF Init, GreetInv, OneSignal, UnusedInv, GreetedInv, DueInv, DoneInv, NoMail, BeingGreeted
<1>2. TypeOK /\ IndexInv /\ GreetInv /\ [Next]_vars
        => [\A p \in Pids :
              GetsSignal(p) => /\ greeting[p] = "due" => buffer' = INIT
                               /\ greeting[p] = "done" => buffer' # INIT]_vars
  <2> SUFFICES ASSUME TypeOK, IndexInv, GreetInv, Next, NEW p \in Pids, GetsSignal(p)
               PROVE  /\ greeting[p] = "due" => buffer' = INIT
                      /\ greeting[p] = "done" => buffer' # INIT
    OBVIOUS
  <2>1. pc[p] = "receive" /\ pc'[p] = "switch" /\ buffer' # IPC_EMPTY
    BY DEF GetsSignal
  <2>2. ~(MakePipe \/ Greet \/ Serve \/ EndRound \/ KillWaiter \/ Launch)
    BY <2>1 DEF MakePipe, Greet, Serve, EndRound, KillWaiter, Launch
  <2>3. ~Fork
    BY <2>1 DEF Fork, TypeOK
  <2>4. \A q \in Pids : ~Switch(q) /\ ~Kill(q)
    BY <2>1 DEF Switch, Kill, TypeOK
  <2>5. PICK q \in Pids : Receive(q)
    BY <2>2, <2>3, <2>4 DEF Next, WaiterStep, PhilosopherStep
  <2>6. q = p
    BY <2>1, <2>5 DEF Receive, TypeOK
  <2> QED BY <2>1, <2>5, <2>6, ReceiveGreets
<1> QED BY <1>1, <1>2, GreetStep, TypesForever, PTL DEF Spec, ReadyOnce

=============================================================================
