-------------------------------- MODULE Ipc --------------------------------
(* Inter-process communication: the pipe table of kernel/ipc.c and the three *)
(* system calls over it.  A system call runs with interrupts masked, so it   *)
(* is one action; the calls of the processes interleave freely.              *)
(*                                                                           *)
(* Callers behave as P6 and P7 do: a process sends and receives on the id    *)
(* make_pipe last returned to it for that pair, as one of the two ends.      *)
EXTENDS Integers, FiniteSets

CONSTANTS
  NO_OF_PIPES,   \* size of the pipe table
  Pids,          \* processes
  Pairs,         \* the pairs of processes that talk
  Signals,       \* what they send; never IPC_EMPTY itself
  OPCODE         \* the word at address 4, which a NULL buffer's signal reads

Ids == 0 .. NO_OF_PIPES - 1
IPC_FAILURE == 0
IPC_SUCCESS == 1
IPC_EMPTY == -1
NoPipe == -1     \* no make_pipe yet

ASSUME PipesAssumption == NO_OF_PIPES \in Nat /\ NO_OF_PIPES > 0
ASSUME CallersAssumption ==
  /\ Pids \subseteq Int
  /\ \A pair \in Pairs : \E p, q \in Pids : p # q /\ pair = {p, q}
  /\ Signals \subseteq Int /\ IPC_EMPTY \notin Signals
ASSUME OpcodeAssumption == OPCODE \in Int /\ OPCODE # IPC_EMPTY

VARIABLES
  pipe,          \* pipe[ NO_OF_PIPES ]
  null_signal,   \* the word at address 4
  handle,        \* handle[p][pair]: the id process p uses for this pair
  reply          \* the last result of msend or mreceive, and who got it

vars == <<pipe, null_signal, handle, reply>>

Buffer == [pid : Int, signal : Int]
Pipe == [active : BOOLEAN, buff_1 : Buffer, buff_2 : Buffer]

TypeOK ==
  /\ pipe \in [Ids -> Pipe]
  /\ null_signal \in Int
  /\ handle \in [Pids -> [Pairs -> Ids \cup {NoPipe}]]
  /\ reply \in [pid : Int, value : Int]

buffer_of(pid, signal) == [pid |-> pid, signal |-> signal]

Init ==
  /\ pipe = [i \in Ids |-> [active |-> FALSE, buff_1 |-> buffer_of(0, 0),
                            buff_2 |-> buffer_of(0, 0)]]
  /\ null_signal = OPCODE
  /\ handle = [p \in Pids |-> [pair \in Pairs |-> NoPipe]]
  /\ reply = [pid |-> 0, value |-> 0]

----------------------------------------------------------------------------
(* make_pipe *)

PairOf(i) == {pipe[i].buff_1.pid, pipe[i].buff_2.pid}

\* Wrong on purpose: an established pipe is found by one order of the pids only.
ConnectsInOrder(i, p, q) ==
  pipe[i].active /\ pipe[i].buff_1.pid = p /\ pipe[i].buff_2.pid = q

\* pipe i is the established pipe between p and q, in either order
Connects(i, p, q) ==
  /\ pipe[i].active
  /\ \/ pipe[i].buff_1.pid = p /\ pipe[i].buff_2.pid = q
     \/ pipe[i].buff_1.pid = q /\ pipe[i].buff_2.pid = p

\* Wrong on purpose: the last entry of the table is never looked at.
NewPipeIdStopsShort(i) ==
  \/ /\ ~pipe[i].active /\ i < NO_OF_PIPES - 1
     /\ \A j \in Ids : j < i => pipe[j].active
  \/ /\ \A j \in Ids : j < NO_OF_PIPES - 1 => pipe[j].active
     /\ i = IPC_FAILURE

\* i is what new_pipe_id returns: the first inactive pipe, and when there is
\* none IPC_FAILURE, which new_pipe does not tell from an id
IsNewPipeId(i) ==
  \/ /\ ~pipe[i].active
     /\ \A j \in Ids : j < i => pipe[j].active
  \/ /\ \A j \in Ids : pipe[j].active
     /\ i = IPC_FAILURE

new_pipe(p, q) ==
  [active |-> TRUE, buff_1 |-> buffer_of(p, IPC_EMPTY), buff_2 |-> buffer_of(q, IPC_EMPTY)]

\* Wrong on purpose: pipes are counted from one.
pipe_id_from_one(i) == i + 1

\* pipe[ i ].pipe_id as ipc_initialise leaves it
pipe_id(i) == i

MakePipe(caller, p, q) ==
  \E i \in Ids :
    /\ \/ /\ Connects(i, p, q)
          /\ \A j \in Ids : j < i => ~Connects(j, p, q)
          /\ UNCHANGED pipe
       \/ /\ \A j \in Ids : ~Connects(j, p, q)
          /\ IsNewPipeId(i)
          /\ pipe' = [pipe EXCEPT ![i] = new_pipe(p, q)]
    /\ handle' = [handle EXCEPT ![caller] = [@ EXCEPT ![{p, q}] = pipe_id(i)]]
    /\ UNCHANGED <<null_signal, reply>>

----------------------------------------------------------------------------
(* msend and mreceive *)

\* find_buffer( &pipe[ i ], p )->signal; a NULL buffer is at address 0
Signal(i, p) ==
  IF pipe[i].buff_1.pid = p THEN pipe[i].buff_1.signal
  ELSE IF pipe[i].buff_2.pid = p THEN pipe[i].buff_2.signal
  ELSE null_signal

\* pipe i once find_buffer( &pipe[ i ], p )->signal = x
Stored(i, p, x) ==
  [active |-> pipe[i].active,
   buff_1 |-> IF pipe[i].buff_1.pid = p THEN buffer_of(p, x) ELSE pipe[i].buff_1,
   buff_2 |-> IF pipe[i].buff_1.pid # p /\ pipe[i].buff_2.pid = p
              THEN buffer_of(p, x) ELSE pipe[i].buff_2]

Store(i, p, x) ==
  /\ pipe' = [pipe EXCEPT ![i] = Stored(i, p, x)]
  /\ null_signal' = IF p \in PairOf(i) THEN null_signal ELSE x

Reply(p, v) == reply' = [pid |-> p, value |-> v]

\* Wrong on purpose: only the receiver's buffer is looked at.
IgnoresOwnBuffer(i, p, q) == pipe[i].active /\ Signal(i, q) = IPC_EMPTY

CanSend(i, p, q) ==
  pipe[i].active /\ Signal(i, p) = IPC_EMPTY /\ Signal(i, q) = IPC_EMPTY

MSend(p, q, x) ==
  LET i == handle[p][{p, q}]
  IN  /\ i # NoPipe
      /\ \/ CanSend(i, p, q) /\ Store(i, q, x) /\ Reply(p, IPC_SUCCESS)
         \/ ~CanSend(i, p, q) /\ Reply(p, IPC_FAILURE) /\ UNCHANGED <<pipe, null_signal>>
      /\ UNCHANGED handle

\* Wrong on purpose: the signal is read and left in the buffer.
ReceiveWithoutEmptying(q, p) ==
  LET i == handle[q][{p, q}]
  IN  /\ i # NoPipe
      /\ Reply(q, Signal(i, q))
      /\ UNCHANGED <<pipe, null_signal, handle>>

MReceive(q, p) ==
  LET i == handle[q][{p, q}]
  IN  /\ i # NoPipe
      /\ Reply(q, Signal(i, q))
      /\ \/ Signal(i, q) = IPC_EMPTY /\ UNCHANGED <<pipe, null_signal>>
         \/ Signal(i, q) # IPC_EMPTY /\ Store(i, q, IPC_EMPTY)
      /\ UNCHANGED handle

\* p is killed and its pid given to a new process, which knows no pipe yet;
\* no pipe is closed and no buffer emptied
Recycle(p) ==
  /\ handle' = [handle EXCEPT ![p] = [pair \in Pairs |-> NoPipe]]
  /\ UNCHANGED <<pipe, null_signal, reply>>

----------------------------------------------------------------------------

Next ==
  \/ \E p, q \in Pids :
       /\ p # q /\ {p, q} \in Pairs
       /\ \/ MakePipe(p, p, q)
          \/ MakePipe(q, p, q)
          \/ \E x \in Signals : MSend(p, q, x)
          \/ MReceive(q, p)
  \/ \E p \in Pids : Recycle(p)

Spec == Init /\ [][Next]_vars

----------------------------------------------------------------------------
(* Properties *)

(* A pair of processes has one pipe, whichever end asked first, how often    *)
(* and in which order of the pids (ipc_pipe looks for it before it makes it).*)
PipePerPair ==
  \A i, j \in Ids :
    pipe[i].active /\ pipe[j].active /\ PairOf(i) = PairOf(j) => i = j

(* An id in the hands of a process keeps naming the pipe of its pair, so     *)
(* that find_buffer never returns NULL to it.                                *)
HandlesValid ==
  \A p \in Pids, pair \in Pairs :
    LET i == handle[p][pair]
    IN  i # NoPipe => pipe[i].active /\ PairOf(i) = pair

(* The two buffers of a pipe are never both full (ipc_send_message tests     *)
(* both): two processes that send to each other at once do not deadlock on   *)
(* answers neither can deposit.                                              *)
OneInFlight ==
  \A i \in Ids :
    pipe[i].active => pipe[i].buff_1.signal = IPC_EMPTY \/ pipe[i].buff_2.signal = IPC_EMPTY

(* The pipe that new_pipe sets up was "an inactive pipe" (ipc.c:13): an      *)
(* established pipe keeps its two ends.                                      *)
EstablishedPipesKept ==
  [][\A i \in Ids : pipe[i].active => pipe'[i].active /\ PairOf(i)' = PairOf(i)]_vars

----------------------------------------------------------------------------
(* Refinement *)

Letter(p, q, x) == [from |-> p, to |-> q, signal |-> x]

\* the signals that lie in the buffers of pipe i, with the end each comes from
InBox(i) ==
  {m \in {Letter(pipe[i].buff_2.pid, pipe[i].buff_1.pid, pipe[i].buff_1.signal),
          Letter(pipe[i].buff_1.pid, pipe[i].buff_2.pid, pipe[i].buff_2.signal)} :
     m.signal # IPC_EMPTY}

InBuffers == UNION {InBox(i) : i \in {j \in Ids : pipe[j].active}}

MB == INSTANCE Mailbox WITH mail <- InBuffers

(* The pipe table is a mailbox per pair: no signal is lost, duplicated,      *)
(* misdelivered or read back by its sender, and every result tells what      *)
(* happened.                                                                 *)
RefinesMailbox == MB!Spec

=============================================================================
