------------------------------ MODULE Mailbox ------------------------------
(* What the pipes of kernel/ipc.c promise their users: between two           *)
(* processes of a pair lies at most one signal, in one direction at a time.  *)
(* A send either deposits its signal or reports failure, a receive takes     *)
(* the signal that waits for it or reports that there is none; nothing else  *)
(* ever touches the signal.                                                  *)
EXTENDS Integers

CONSTANTS
  Pids,      \* processes
  Pairs,     \* the pairs {p, q} of processes that talk
  Signals    \* what they send

VARIABLES
  mail,      \* signals in transit
  reply      \* the last result of a send or receive, and who got it

IPC_FAILURE == 0
IPC_SUCCESS == 1
IPC_EMPTY == -1

NoReply == [pid |-> 0, value |-> 0]
Replied(p, v) == [pid |-> p, value |-> v]

Init == mail = {} /\ reply = NoReply

Between(p, q) == {m \in mail : {m.from, m.to} = {p, q}}

\* what a send and a receive do to the signals, for users that keep the result
\* in a place of their own
Deposits(p, q, x) ==
  Between(p, q) = {} /\ mail' = mail \cup {[from |-> p, to |-> q, signal |-> x]}
Refused(p, q) == Between(p, q) # {} /\ UNCHANGED mail
Takes(q, p, m) == m.from = p /\ m.to = q /\ mail' = mail \ {m}
NothingFor(q, p) == (\A m \in mail : ~(m.from = p /\ m.to = q)) /\ UNCHANGED mail

Send(p, q, x) ==
  \/ Deposits(p, q, x) /\ reply' = Replied(p, IPC_SUCCESS)
  \/ Refused(p, q) /\ reply' = Replied(p, IPC_FAILURE)

Receive(q, p) ==
  \/ \E m \in mail : Takes(q, p, m) /\ reply' = Replied(q, m.signal)
  \/ NothingFor(q, p) /\ reply' = Replied(q, IPC_EMPTY)

Next ==
  \E p, q \in Pids :
    /\ p # q /\ {p, q} \in Pairs
    /\ Receive(q, p) \/ \E x \in Signals : Send(p, q, x)

Spec == Init /\ [][Next]_<<mail, reply>>

=============================================================================
