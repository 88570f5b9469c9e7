----------------------------- MODULE IpcProofs -----------------------------
(* What TLAPS proves of the pipes, for every number of processes, pairs,     *)
(* pipes and signals.                                                        *)
EXTENDS Ipc, FiniteSetTheorems, TLAPS

----------------------------------------------------------------------------
(* Types *)

(* Buffers and pipes that the handlers build have their types. *)
LEMMA BufferType == \A p, x \in Int : buffer_of(p, x) \in Buffer
BY DEF buffer_of, Buffer

LEMMA SignalType ==
  ASSUME TypeOK, NEW i \in Ids, NEW p \in Int
  PROVE  Signal(i, p) \in Int
BY DEF Signal, TypeOK, Pipe, Buffer

LEMMA StoredType ==
  ASSUME TypeOK, NEW i \in Ids, NEW p \in Int, NEW x \in Int
  PROVE  Stored(i, p, x) \in Pipe
<1>1. pipe[i] \in Pipe /\ buffer_of(p, x) \in Buffer
  BY BufferType DEF TypeOK
<1> QED BY <1>1 DEF Stored, Pipe

LEMMA NewPipeType ==
  ASSUME NEW p \in Int, NEW q \in Int
  PROVE  new_pipe(p, q) \in Pipe
<1>1. buffer_of(p, IPC_EMPTY) \in Buffer /\ buffer_of(q, IPC_EMPTY) \in Buffer
  BY BufferType DEF IPC_EMPTY
<1> QED BY <1>1 DEF new_pipe, Pipe

(* Every call keeps the types. *)
LEMMA TypeStep == TypeOK /\ [Next]_vars => TypeOK'
<1> SUFFICES ASSUME TypeOK, [Next]_vars PROVE TypeOK'
  OBVIOUS
<1> USE DEF TypeOK
<1>1. ASSUME NEW p \in Pids, NEW q \in Pids, {p, q} \in Pairs,
             NEW caller \in Pids, MakePipe(caller, p, q)
      PROVE  TypeOK'
  <2> PICK i \in Ids :
        /\ pipe' = pipe \/ pipe' = [pipe EXCEPT ![i] = new_pipe(p, q)]
        /\ handle' = [handle EXCEPT ![caller] = [@ EXCEPT ![{p, q}] = i]]
        /\ UNCHANGED <<null_signal, reply>>
    BY <1>1 DEF MakePipe, pipe_id
  <2>1. new_pipe(p, q) \in Pipe
    BY NewPipeType, CallersAssumption
  <2>2. pipe' \in [Ids -> Pipe]
    BY <2>1
  <2>3. handle' \in [Pids -> [Pairs -> Ids \cup {NoPipe}]]
    BY <1>1
  <2> QED BY <2>2, <2>3
<1>2. ASSUME NEW p \in Pids, NEW q \in Pids, {p, q} \in Pairs, NEW x \in Signals,
             MSend(p, q, x)
      PROVE  TypeOK'
  <2> DEFINE i == handle[p][{p, q}]
  <2>1. i \in Ids
    BY <1>2 DEF MSend
  <2>2. q \in Int /\ x \in Int /\ p \in Int
    BY CallersAssumption
  <2>3. Stored(i, q, x) \in Pipe
    BY <2>1, <2>2, StoredType
  <2>4. reply' \in [pid : Int, value : Int]
    BY <1>2, <2>2 DEF MSend, Reply, IPC_SUCCESS, IPC_FAILURE
  <2>5. pipe' \in [Ids -> Pipe] /\ null_signal' \in Int
    BY <1>2, <2>1, <2>2, <2>3 DEF MSend, Store
  <2> QED BY <1>2, <2>4, <2>5 DEF MSend
<1>3. ASSUME NEW p \in Pids, NEW q \in Pids, {p, q} \in Pairs, MReceive(q, p)
      PROVE  TypeOK'
  <2> DEFINE i == handle[q][{p, q}]
  <2>1. i \in Ids
    BY <1>3 DEF MReceive
  <2>2. q \in Int /\ IPC_EMPTY \in Int
    BY CallersAssumption DEF IPC_EMPTY
  <2>3. Stored(i, q, IPC_EMPTY) \in Pipe /\ Signal(i, q) \in Int
    BY <2>1, <2>2, StoredType, SignalType
  <2>4. reply' \in [pid : Int, value : Int]
    BY <1>3, <2>2, <2>3 DEF MReceive, Reply
  <2>5. pipe' \in [Ids -> Pipe] /\ null_signal' \in Int
    BY <1>3, <2>1, <2>2, <2>3 DEF MReceive, Store
  <2> QED BY <1>3, <2>4, <2>5 DEF MReceive
<1>4. ASSUME NEW p \in Pids, Recycle(p) PROVE TypeOK'
  BY <1>4 DEF Recycle
<1>5. CASE UNCHANGED vars
  BY <1>5 DEF vars
<1> QED BY <1>1, <1>2, <1>3, <1>4, <1>5 DEF Next

(* Pipes, handles and results keep their types, with any number of pipes,    *)
(* whatever was corrupted through a NULL buffer.                             *)
THEOREM IpcTypeCorrect == Spec => []TypeOK
<1>1. Init => TypeOK
  BY BufferType, OpcodeAssumption DEF Init, TypeOK, Pipe
<1> QED BY <1>1, TypeStep, PTL DEF Spec

----------------------------------------------------------------------------
(* A pair has one pipe, even in a full table: a pipe is only set up for a     *)
(* pair that has none, be it a free one or the pipe 0 of others.  That        *)
(* find_pipe compares pids in both orders is what this needs.                 *)

ActivePairs == \A i \in Ids : pipe[i].active => PairOf(i) \in Pairs

PairInv == ActivePairs /\ PipePerPair

(* A pipe connects p and q when its two ends are p and q. *)
LEMMA ConnectsPair ==
  ASSUME NEW i \in Ids, NEW p, NEW q, p # q
  PROVE  Connects(i, p, q) <=> pipe[i].active /\ PairOf(i) = {p, q}
BY DEF Connects, PairOf

(* Storing a signal changes neither the ends of a pipe nor its being active. *)
LEMMA StoredKeepsEnds ==
  ASSUME TypeOK, NEW i \in Ids, NEW p, NEW x, Store(i, p, x)
  PROVE  /\ \A j \in Ids : /\ pipe'[j].active = pipe[j].active
                           /\ pipe'[j].buff_1.pid = pipe[j].buff_1.pid
                           /\ pipe'[j].buff_2.pid = pipe[j].buff_2.pid
                           /\ PairOf(j)' = PairOf(j)
         /\ \A j \in Ids : j # i => pipe'[j] = pipe[j]
         /\ pipe'[i] = Stored(i, p, x)
<1>1. pipe'[i] = Stored(i, p, x) /\ \A j \in Ids : j # i => pipe'[j] = pipe[j]
  BY DEF Store, TypeOK
<1>2. /\ Stored(i, p, x).active = pipe[i].active
      /\ Stored(i, p, x).buff_1.pid = pipe[i].buff_1.pid
      /\ Stored(i, p, x).buff_2.pid = pipe[i].buff_2.pid
  BY DEF Stored, buffer_of
<1>3. \A j \in Ids : /\ pipe'[j].active = pipe[j].active
                     /\ pipe'[j].buff_1.pid = pipe[j].buff_1.pid
                     /\ pipe'[j].buff_2.pid = pipe[j].buff_2.pid
  BY <1>1, <1>2
<1> QED BY <1>1, <1>3 DEF PairOf

(* PairInv depends on the ends of active pipes only. *)
LEMMA EndsKeepPairs ==
  ASSUME PairInv,
         \A j \in Ids : pipe'[j].active = pipe[j].active /\ PairOf(j)' = PairOf(j)
  PROVE  PairInv'
BY DEF PairInv, ActivePairs, PipePerPair

(* make_pipe keeps one pipe per pair, whichever entry new_pipe_id returns.    *)
LEMMA MakePipeKeepsPairs ==
  ASSUME TypeOK, PairInv, NEW p \in Pids, NEW q \in Pids, p # q, {p, q} \in Pairs,
         NEW caller, MakePipe(caller, p, q)
  PROVE  PairInv'
<1>1. CASE pipe' = pipe
  BY <1>1, EndsKeepPairs DEF PairOf
<1>2. CASE \E i \in Ids : /\ \A j \in Ids : ~Connects(j, p, q)
                         /\ pipe' = [pipe EXCEPT ![i] = new_pipe(p, q)]
  <2> PICK i \in Ids : /\ \A j \in Ids : ~Connects(j, p, q)
                      /\ pipe' = [pipe EXCEPT ![i] = new_pipe(p, q)]
    BY <1>2
  <2>1. \A j \in Ids : pipe[j].active => PairOf(j) # {p, q}
    BY ConnectsPair
  <2>2. pipe'[i].buff_1.pid = p /\ pipe'[i].buff_2.pid = q
    BY DEF TypeOK, new_pipe, buffer_of
  <2>3. PairOf(i)' = {p, q}
    BY <2>2 DEF PairOf
  <2>4. \A j \in Ids : j # i => pipe'[j] = pipe[j]
    BY DEF TypeOK
  <2>5. \A j \in Ids : j # i => PairOf(j)' = PairOf(j)
    BY <2>4 DEF PairOf
  <2>6. ActivePairs'
    BY <2>3, <2>4, <2>5 DEF PairInv, ActivePairs
  <2>7. PipePerPair'
    BY <2>1, <2>3, <2>4, <2>5 DEF PairInv, PipePerPair
  <2> QED BY <2>6, <2>7 DEF PairInv
<1> QED BY <1>1, <1>2 DEF MakePipe

LEMMA PairStep == TypeOK /\ PairInv /\ [Next]_vars => PairInv'
<1> SUFFICES ASSUME TypeOK, PairInv, [Next]_vars PROVE PairInv'
  OBVIOUS
<1>1. ASSUME NEW i \in Ids, NEW p, NEW x, Store(i, p, x) PROVE PairInv'
  BY <1>1, StoredKeepsEnds, EndsKeepPairs
<1>2. ASSUME pipe' = pipe PROVE PairInv'
  BY <1>2, EndsKeepPairs DEF PairOf
<1>3. ASSUME NEW p \in Pids, NEW q \in Pids, p # q, {p, q} \in Pairs
      PROVE  /\ MakePipe(p, p, q) \/ MakePipe(q, p, q) => PairInv'
             /\ \A x \in Signals : MSend(p, q, x) => PairInv'
             /\ MReceive(q, p) => PairInv'
  <2>1. handle[p][{p, q}] # NoPipe => handle[p][{p, q}] \in Ids
    BY <1>3 DEF TypeOK
  <2>2. handle[q][{p, q}] # NoPipe => handle[q][{p, q}] \in Ids
    BY <1>3 DEF TypeOK
  <2>3. \A x \in Signals : MSend(p, q, x) => PairInv'
    BY <2>1, <1>1, <1>2 DEF MSend
  <2>4. MReceive(q, p) => PairInv'
    BY <2>2, <1>1, <1>2 DEF MReceive
  <2> QED BY <1>3, <2>3, <2>4, MakePipeKeepsPairs
<1>4. ASSUME NEW p \in Pids, Recycle(p) PROVE PairInv'
  BY <1>4, <1>2 DEF Recycle
<1>5. CASE UNCHANGED vars
  BY <1>5, <1>2 DEF vars
<1> QED BY <1>3, <1>4, <1>5 DEF Next

(* A pair never has two pipes, with any number of pipes and pairs.           *)
THEOREM OnePipePerPair == Spec => []PipePerPair
<1>1. Init => PairInv
  BY DEF Init, PairInv, ActivePairs, PipePerPair
<1>2. PairInv => PipePerPair
  BY DEF PairInv
<1> QED BY <1>1, <1>2, PairStep, IpcTypeCorrect, PTL DEF Spec

----------------------------------------------------------------------------
(* The invariant of the pipe table.  HandlesValid needs that a pipe is never *)
(* set up again while it is in use, so that there is always a free one when  *)
(* a pair has none yet: at most one pipe per pair (PairInv), and not          *)
(* more pairs than pipes.                                                    *)

EnoughPipes == IsFiniteSet(Pairs) /\ Cardinality(Pairs) <= NO_OF_PIPES

IpcInv == ActivePairs /\ PipePerPair /\ HandlesValid /\ OneInFlight

(* The two ends of an active pipe are distinct. *)
LEMMA EndsDistinct ==
  ASSUME ActivePairs, NEW i \in Ids, pipe[i].active
  PROVE  pipe[i].buff_1.pid # pipe[i].buff_2.pid
<1>1. PICK p, q \in Pids : p # q /\ PairOf(i) = {p, q}
  BY CallersAssumption DEF ActivePairs
<1> QED BY <1>1 DEF PairOf

(* Two processes that have no pipe yet find a free one. *)
LEMMA FreePipe ==
  ASSUME EnoughPipes, TypeOK, ActivePairs, PipePerPair,
         NEW pair \in Pairs, \A j \in Ids : pipe[j].active => PairOf(j) # pair
  PROVE  \E i \in Ids : ~pipe[i].active
<1> SUFFICES ASSUME \A i \in Ids : pipe[i].active PROVE FALSE
  OBVIOUS
<1> DEFINE others == Pairs \ {pair}
<1> DEFINE f == [i \in Ids |-> PairOf(i)]
<1>1. IsFiniteSet(Ids) /\ Cardinality(Ids) = NO_OF_PIPES
  BY FS_Interval, PipesAssumption DEF Ids
<1>2. IsFiniteSet(others) /\ Cardinality(others) = Cardinality(Pairs) - 1
  BY FS_RemoveElement DEF EnoughPipes
<1>3. Cardinality(Pairs) \in Nat
  BY FS_CardinalityType DEF EnoughPipes
<1>4. Cardinality(others) < Cardinality(Ids)
  BY <1>1, <1>2, <1>3, PipesAssumption DEF EnoughPipes
<1>5. f \in [Ids -> others]
  BY DEF ActivePairs
<1> HIDE DEF f, others
<1>6. PICK i, j \in Ids : i # j /\ f[i] = f[j]
  BY <1>1, <1>2, <1>4, <1>5, FS_PigeonHole
<1>7. PairOf(i) = PairOf(j)
  BY <1>6 DEF f
<1> QED BY <1>6, <1>7 DEF PipePerPair

(* Where the two ends of a used pipe are, and what find_buffer finds there. *)
LEMMA UsedPipe ==
  ASSUME TypeOK, IpcInv, NEW p \in Pids, NEW q \in Pids, p # q, {p, q} \in Pairs,
         NEW i, i = handle[p][{p, q}], i # NoPipe
  PROVE  /\ i \in Ids /\ pipe[i].active /\ PairOf(i) = {p, q} /\ p \in PairOf(i) /\ q \in PairOf(i)
         /\ \/ /\ pipe[i].buff_1.pid = p /\ pipe[i].buff_2.pid = q
               /\ Signal(i, p) = pipe[i].buff_1.signal
               /\ Signal(i, q) = pipe[i].buff_2.signal
            \/ /\ pipe[i].buff_1.pid = q /\ pipe[i].buff_2.pid = p
               /\ Signal(i, p) = pipe[i].buff_2.signal
               /\ Signal(i, q) = pipe[i].buff_1.signal
<1>1. i \in Ids
  BY DEF TypeOK
<1>2. pipe[i].active /\ PairOf(i) = {p, q}
  BY DEF IpcInv, HandlesValid
<1>3. \/ pipe[i].buff_1.pid = p /\ pipe[i].buff_2.pid = q
      \/ pipe[i].buff_1.pid = q /\ pipe[i].buff_2.pid = p
  BY <1>2 DEF PairOf
<1> QED BY <1>1, <1>2, <1>3 DEF Signal

(* make_pipe returns the pipe of the pair, and sets up a free one for it     *)
(* when there is none.                                                       *)
LEMMA MakePipeEffect ==
  ASSUME EnoughPipes, TypeOK, IpcInv,
         NEW p \in Pids, NEW q \in Pids, p # q, {p, q} \in Pairs,
         NEW caller \in Pids, MakePipe(caller, p, q)
  PROVE  \E i \in Ids :
           /\ handle' = [handle EXCEPT ![caller] = [@ EXCEPT ![{p, q}] = i]]
           /\ \/ /\ pipe[i].active /\ PairOf(i) = {p, q}
                 /\ pipe' = pipe
              \/ /\ ~pipe[i].active
                 /\ \A j \in Ids : pipe[j].active => PairOf(j) # {p, q}
                 /\ pipe' = [pipe EXCEPT ![i] = new_pipe(p, q)]
<1> PICK i \in Ids :
      /\ \/ Connects(i, p, q) /\ pipe' = pipe
         \/ /\ \A j \in Ids : ~Connects(j, p, q)
            /\ IsNewPipeId(i)
            /\ pipe' = [pipe EXCEPT ![i] = new_pipe(p, q)]
      /\ handle' = [handle EXCEPT ![caller] = [@ EXCEPT ![{p, q}] = i]]
  BY DEF MakePipe, pipe_id
<1>1. CASE Connects(i, p, q) /\ pipe' = pipe
  BY <1>1, ConnectsPair
<1>2. CASE /\ \A j \in Ids : ~Connects(j, p, q)
           /\ IsNewPipeId(i)
           /\ pipe' = [pipe EXCEPT ![i] = new_pipe(p, q)]
  <2>1. \A j \in Ids : pipe[j].active => PairOf(j) # {p, q}
    BY <1>2, ConnectsPair
  <2>2. \E j \in Ids : ~pipe[j].active
    BY <2>1, FreePipe DEF IpcInv
  <2>3. ~pipe[i].active
    BY <1>2, <2>2 DEF IsNewPipeId
  <2> QED BY <1>2, <2>1, <2>3
<1> QED BY <1>1, <1>2

(* A call that stores signals only keeps the table part of the invariant. *)
LEMMA StoreKeepsTable ==
  ASSUME TypeOK, IpcInv,
         \A j \in Ids : pipe'[j].active = pipe[j].active /\ PairOf(j)' = PairOf(j),
         handle' = handle
  PROVE  ActivePairs' /\ PipePerPair' /\ HandlesValid'
<1>1. ActivePairs'
  BY DEF IpcInv, ActivePairs
<1>2. PipePerPair'
  BY DEF IpcInv, PipePerPair
<1>3. HandlesValid'
  <2> SUFFICES ASSUME NEW p \in Pids, NEW pair \in Pairs,
                      NEW i, i = handle[p][pair], i # NoPipe
               PROVE  pipe'[i].active /\ PairOf(i)' = pair
    BY DEF HandlesValid
  <2>1. i \in Ids /\ pipe[i].active /\ PairOf(i) = pair
    BY DEF IpcInv, HandlesValid, TypeOK
  <2> QED BY <2>1
<1> QED BY <1>1, <1>2, <1>3

(* Every call of every process keeps the invariant. *)
LEMMA IpcStep ==
  ASSUME EnoughPipes
  PROVE  TypeOK /\ IpcInv /\ [Next]_vars => IpcInv'
<1> SUFFICES ASSUME TypeOK, IpcInv, [Next]_vars PROVE IpcInv'
  OBVIOUS
<1>1. ASSUME NEW p \in Pids, NEW q \in Pids, p # q, {p, q} \in Pairs,
             NEW caller \in Pids, MakePipe(caller, p, q)
      PROVE  IpcInv'
  <2> PICK i \in Ids :
        /\ handle' = [handle EXCEPT ![caller] = [@ EXCEPT ![{p, q}] = i]]
        /\ \/ /\ pipe[i].active /\ PairOf(i) = {p, q}
              /\ pipe' = pipe
           \/ /\ ~pipe[i].active
              /\ \A j \in Ids : pipe[j].active => PairOf(j) # {p, q}
              /\ pipe' = [pipe EXCEPT ![i] = new_pipe(p, q)]
    BY <1>1, MakePipeEffect
  <2>a. pipe'[i].active /\ PairOf(i)' = {p, q}
    <3>1. CASE pipe[i].active
      BY <3>1 DEF PairOf
    <3>2. CASE ~pipe[i].active
      <4>1. pipe'[i] = new_pipe(p, q)
        BY <3>2 DEF TypeOK
      <4>2. /\ new_pipe(p, q).active
            /\ new_pipe(p, q).buff_1.pid = p /\ new_pipe(p, q).buff_2.pid = q
        BY DEF new_pipe, buffer_of
      <4> QED BY <4>1, <4>2 DEF PairOf
    <3> QED BY <3>1, <3>2
  <2>b. ~pipe[i].active => pipe'[i].buff_1.signal = IPC_EMPTY
    BY DEF TypeOK, new_pipe, buffer_of
  <2>c. \A j \in Ids : j # i => pipe'[j] = pipe[j]
    BY DEF TypeOK
  <2>d. \A j \in Ids : j # i => PairOf(j)' = PairOf(j)
    BY <2>c DEF PairOf
  <2>1. /\ pipe'[i].active /\ PairOf(i)' = {p, q}
        /\ pipe[i].active => pipe' = pipe
        /\ ~pipe[i].active => \A j \in Ids : pipe[j].active => PairOf(j) # {p, q}
        /\ ~pipe[i].active => pipe'[i].buff_1.signal = IPC_EMPTY
        /\ \A j \in Ids : j # i => pipe'[j] = pipe[j] /\ PairOf(j)' = PairOf(j)
    BY <2>a, <2>b, <2>c, <2>d
  <2>2. ActivePairs'
    BY <1>1, <2>1 DEF IpcInv, ActivePairs
  <2>3. PipePerPair'
    <3>1. CASE pipe[i].active
      BY <2>1, <3>1 DEF IpcInv, PipePerPair, PairOf
    <3>2. CASE ~pipe[i].active
      BY <2>1, <3>2 DEF IpcInv, PipePerPair
    <3> QED BY <3>1, <3>2
  <2>4. HandlesValid'
    <3> SUFFICES ASSUME NEW r \in Pids, NEW pair \in Pairs,
                        NEW k, k = handle'[r][pair], k # NoPipe
                 PROVE  pipe'[k].active /\ PairOf(k)' = pair
      BY DEF HandlesValid
    <3>1. CASE r = caller /\ pair = {p, q}
      <4>1. k = i
        BY <1>1, <3>1 DEF TypeOK
      <4> QED BY <2>1, <3>1, <4>1
    <3>2. CASE ~(r = caller /\ pair = {p, q})
      <4>1. k = handle[r][pair]
        BY <1>1, <3>2 DEF TypeOK
      <4>2. k \in Ids /\ pipe[k].active /\ PairOf(k) = pair
        BY <4>1 DEF IpcInv, HandlesValid, TypeOK
      <4> QED BY <2>1, <4>2
    <3> QED BY <3>1, <3>2
  <2>5. OneInFlight'
    BY <2>1 DEF IpcInv, OneInFlight
  <2> QED BY <2>2, <2>3, <2>4, <2>5 DEF IpcInv
<1>2. ASSUME NEW p \in Pids, NEW q \in Pids, p # q, {p, q} \in Pairs, NEW x \in Signals,
             MSend(p, q, x)
      PROVE  IpcInv'
  <2> DEFINE i == handle[p][{p, q}]
  <2>1. i # NoPipe /\ i \in Ids
    BY <1>2 DEF MSend, TypeOK
  <2>2. CASE CanSend(i, p, q) /\ Store(i, q, x)
    <3>1. /\ \A j \in Ids : pipe'[j].active = pipe[j].active /\ PairOf(j)' = PairOf(j)
          /\ \A j \in Ids : j # i => pipe'[j] = pipe[j]
          /\ pipe'[i] = Stored(i, q, x)
      BY <2>1, <2>2, StoredKeepsEnds
    <3>2. ActivePairs' /\ PipePerPair' /\ HandlesValid'
      BY <1>2, <3>1, StoreKeepsTable DEF MSend
    <3>a. \/ /\ pipe[i].buff_1.pid = p /\ pipe[i].buff_2.pid = q
             /\ pipe[i].buff_1.signal = IPC_EMPTY
          \/ /\ pipe[i].buff_1.pid = q
             /\ pipe[i].buff_2.signal = IPC_EMPTY
      BY <1>2, <2>1, <2>2, UsedPipe DEF CanSend
    <3>3. pipe'[i].buff_1.signal = IPC_EMPTY \/ pipe'[i].buff_2.signal = IPC_EMPTY
      BY <1>2, <3>1, <3>a DEF Stored
    <3>4. OneInFlight'
      BY <3>1, <3>3 DEF IpcInv, OneInFlight
    <3> QED BY <3>2, <3>4 DEF IpcInv
  <2>3. CASE UNCHANGED pipe
    BY <1>2, <2>3 DEF MSend, IpcInv, ActivePairs, PipePerPair, HandlesValid, OneInFlight, PairOf
  <2> QED BY <1>2, <2>2, <2>3 DEF MSend
<1>3. ASSUME NEW p \in Pids, NEW q \in Pids, p # q, {p, q} \in Pairs, MReceive(q, p)
      PROVE  IpcInv'
  <2> DEFINE i == handle[q][{p, q}]
  <2>1. i # NoPipe /\ i \in Ids
    BY <1>3 DEF MReceive, TypeOK
  <2>2. CASE Store(i, q, IPC_EMPTY)
    <3>1. /\ \A j \in Ids : pipe'[j].active = pipe[j].active /\ PairOf(j)' = PairOf(j)
          /\ \A j \in Ids : j # i => pipe'[j] = pipe[j]
          /\ pipe'[i] = Stored(i, q, IPC_EMPTY)
      BY <2>1, <2>2, StoredKeepsEnds
    <3>2. ActivePairs' /\ PipePerPair' /\ HandlesValid'
      BY <1>3, <3>1, StoreKeepsTable DEF MReceive
    <3>3. pipe'[i].active =>
            pipe'[i].buff_1.signal = IPC_EMPTY \/ pipe'[i].buff_2.signal = IPC_EMPTY
      BY <2>1, <3>1 DEF IpcInv, OneInFlight, Stored, buffer_of
    <3>4. OneInFlight'
      BY <3>1, <3>3 DEF IpcInv, OneInFlight
    <3> QED BY <3>2, <3>4 DEF IpcInv
  <2>3. CASE UNCHANGED pipe
    BY <1>3, <2>3 DEF MReceive, IpcInv, ActivePairs, PipePerPair, HandlesValid, OneInFlight, PairOf
  <2> QED BY <1>3, <2>2, <2>3 DEF MReceive
<1>4. ASSUME NEW p \in Pids, Recycle(p) PROVE IpcInv'
  <2>1. \A r \in Pids, pair \in Pairs :
          handle'[r][pair] = IF r = p THEN NoPipe ELSE handle[r][pair]
    BY <1>4 DEF Recycle, TypeOK
  <2>2. pipe' = pipe
    BY <1>4 DEF Recycle
  <2>3. HandlesValid'
    BY <2>1, <2>2 DEF IpcInv, HandlesValid, PairOf
  <2> QED BY <2>2, <2>3 DEF IpcInv, ActivePairs, PipePerPair, OneInFlight, PairOf
<1>5. CASE UNCHANGED vars
  BY <1>5 DEF vars, IpcInv, ActivePairs, PipePerPair, HandlesValid, OneInFlight, PairOf
<1>6. ASSUME NEW p \in Pids, NEW q \in Pids, MReceive(q, p) /\ p # q /\ {p, q} \in Pairs
      PROVE  IpcInv'
  BY <1>3, <1>6
<1> QED BY <1>1, <1>2, <1>4, <1>5, <1>6 DEF Next

(* With at most as many pairs as pipes the invariant holds for ever. *)
LEMMA IpcForever ==
  ASSUME EnoughPipes
  PROVE  Spec => []IpcInv
<1>1. Init => IpcInv
  BY DEF Init, IpcInv, ActivePairs, PipePerPair, HandlesValid, OneInFlight
<1> QED BY <1>1, IpcStep, IpcTypeCorrect, PTL DEF Spec

(* With at most as many pairs as pipes, an established pipe keeps its ends:  *)
(* what run ipc_full_table finds takes a full table.                         *)
THEOREM PipesKept ==
  ASSUME EnoughPipes
  PROVE  Spec => EstablishedPipesKept
<1>1. TypeOK /\ IpcInv /\ [Next]_vars
        => [\A i \in Ids : pipe[i].active => pipe'[i].active /\ PairOf(i)' = PairOf(i)]_vars
  <2> SUFFICES ASSUME TypeOK, IpcInv, Next
               PROVE  \A i \in Ids :
                        pipe[i].active => pipe'[i].active /\ PairOf(i)' = PairOf(i)
    OBVIOUS
  <2> DEFINE Kept == \A i \in Ids :
                       pipe[i].active => pipe'[i].active /\ PairOf(i)' = PairOf(i)
  <2>1. ASSUME pipe' = pipe PROVE Kept
    BY <2>1 DEF PairOf
  <2>2. ASSUME NEW i \in Ids, NEW p, NEW x, Store(i, p, x) PROVE Kept
    BY <2>2, StoredKeepsEnds
  <2>3. ASSUME NEW p \in Pids, NEW q \in Pids, p # q, {p, q} \in Pairs,
               NEW caller \in Pids, MakePipe(caller, p, q)
        PROVE  Kept
    <3> PICK i \in Ids :
          pipe' = pipe \/ (~pipe[i].active /\ pipe' = [pipe EXCEPT ![i] = new_pipe(p, q)])
      BY <2>3, MakePipeEffect
    <3>1. CASE pipe' = pipe
      BY <3>1, <2>1
    <3>2. CASE ~pipe[i].active /\ pipe' = [pipe EXCEPT ![i] = new_pipe(p, q)]
      <4>1. \A j \in Ids : j # i => pipe'[j] = pipe[j]
        BY <3>2 DEF TypeOK
      <4> QED BY <3>2, <4>1 DEF PairOf
    <3> QED BY <3>1, <3>2
  <2>4. ASSUME NEW p \in Pids, NEW q \in Pids, p # q, {p, q} \in Pairs
        PROVE  /\ \A x \in Signals : MSend(p, q, x) => Kept
               /\ MReceive(q, p) => Kept
    <3>1. handle[p][{p, q}] # NoPipe => handle[p][{p, q}] \in Ids
      BY <2>4 DEF TypeOK
    <3>2. handle[q][{p, q}] # NoPipe => handle[q][{p, q}] \in Ids
      BY <2>4 DEF TypeOK
    <3>3. \A x \in Signals : MSend(p, q, x) => Kept
      BY <3>1, <2>1, <2>2 DEF MSend
    <3>4. MReceive(q, p) => Kept
      BY <3>2, <2>1, <2>2 DEF MReceive
    <3> QED BY <3>3, <3>4
  <2>5. ASSUME NEW p \in Pids, Recycle(p) PROVE Kept
    BY <2>5, <2>1 DEF Recycle
  <2> HIDE DEF Kept
  <2>6. Kept
    BY <2>3, <2>4, <2>5 DEF Next
  <2> QED BY <2>6 DEF Kept
<1> QED BY <1>1, IpcForever, IpcTypeCorrect, PTL DEF Spec, EstablishedPipesKept

(* With at most as many pairs as pipes, the ids processes hold stay good     *)
(* and mean the same pipe at both ends: no call ever reaches the NULL buffer.*)
THEOREM HandlesStayValid ==
  ASSUME EnoughPipes
  PROVE  Spec => [](HandlesValid /\ PipePerPair)
<1>1. IpcInv => HandlesValid /\ PipePerPair
  BY DEF IpcInv
<1> QED BY <1>1, IpcForever, PTL

(* A pipe carries at most one signal at a time, whatever its two ends do.    *)
THEOREM AlwaysOneInFlight ==
  ASSUME EnoughPipes
  PROVE  Spec => []OneInFlight
<1>1. IpcInv => OneInFlight
  BY DEF IpcInv
<1> QED BY <1>1, IpcForever, PTL

----------------------------------------------------------------------------
(* Refinement: the pipe table implements a mailbox per pair.                 *)

(* What lies in the buffers of pipe i. *)
LEMMA InBoxMembers ==
  ASSUME NEW i \in Ids
  PROVE  \A m : m \in InBox(i) <=>
           \/ /\ m = Letter(pipe[i].buff_2.pid, pipe[i].buff_1.pid, pipe[i].buff_1.signal)
              /\ pipe[i].buff_1.signal # IPC_EMPTY
           \/ /\ m = Letter(pipe[i].buff_1.pid, pipe[i].buff_2.pid, pipe[i].buff_2.signal)
              /\ pipe[i].buff_2.signal # IPC_EMPTY
BY DEF InBox, Letter

LEMMA LetterFields ==
  \A p, q, x : Letter(p, q, x).from = p /\ Letter(p, q, x).to = q /\ Letter(p, q, x).signal = x
BY DEF Letter

(* A letter travels between the ends of its pipe. *)
LEMMA LetterEnds ==
  ASSUME NEW i \in Ids, NEW m \in InBox(i)
  PROVE  {m.from, m.to} = PairOf(i)
BY InBoxMembers, LetterFields DEF PairOf

(* The letters between p and q are those of the pipe they use. *)
LEMMA OwnLetters ==
  ASSUME TypeOK, IpcInv, NEW p \in Pids, NEW q \in Pids, p # q, {p, q} \in Pairs,
         NEW i, i = handle[p][{p, q}] \/ i = handle[q][{p, q}], i # NoPipe
  PROVE  \A m : m \in InBuffers /\ {m.from, m.to} = {p, q} <=> m \in InBox(i)
<1>1. i \in Ids /\ pipe[i].active /\ PairOf(i) = {p, q}
  BY UsedPipe DEF TypeOK, IpcInv, HandlesValid
<1>2. \A m \in InBuffers : \E j \in Ids : pipe[j].active /\ m \in InBox(j)
  BY DEF InBuffers
<1>3. \A j \in Ids : pipe[j].active /\ PairOf(j) = {p, q} => j = i
  BY <1>1 DEF IpcInv, PipePerPair
<1>4. \A m \in InBuffers : {m.from, m.to} = {p, q} => m \in InBox(i)
  BY <1>2, <1>3, LetterEnds
<1>5. \A m \in InBox(i) : m \in InBuffers /\ {m.from, m.to} = {p, q}
  BY <1>1, LetterEnds DEF InBuffers
<1> QED BY <1>4, <1>5

(* Rewriting the buffers of the pipe of p and q changes only its letters. *)
LEMMA OtherLetters ==
  ASSUME NEW i \in Ids, pipe[i].active, pipe'[i].active,
         \A j \in Ids : j # i => pipe'[j] = pipe[j]
  PROVE  \A m : m \in InBuffers' <=>
           m \in InBox(i)' \/ \E j \in Ids : j # i /\ pipe[j].active /\ m \in InBox(j)
<1>1. \A j \in Ids : j # i => (InBox(j)' = InBox(j)) /\ (pipe'[j].active <=> pipe[j].active)
  BY DEF InBox, Letter
<1>2. \A m : m \in InBuffers' <=> \E j \in Ids : pipe'[j].active /\ m \in InBox(j)'
  BY DEF InBuffers
<1> QED BY <1>1, <1>2

(* Setting up a free pipe puts no letter in any buffer. *)
LEMMA NewPipeIsEmpty ==
  ASSUME TypeOK, NEW i \in Ids, ~pipe[i].active, NEW p, NEW q,
         pipe' = [pipe EXCEPT ![i] = new_pipe(p, q)]
  PROVE  InBuffers' = InBuffers
<1>1. pipe'[i] = new_pipe(p, q) /\ \A j \in Ids : j # i => pipe'[j] = pipe[j]
  BY DEF TypeOK
<1>2. /\ new_pipe(p, q).buff_1.signal = IPC_EMPTY
      /\ new_pipe(p, q).buff_2.signal = IPC_EMPTY
  BY DEF new_pipe, buffer_of
<1>3. InBox(i)' = {}
  BY <1>1, <1>2 DEF InBox, Letter
<1>4. \A j \in Ids : j # i => (InBox(j)' = InBox(j)) /\ (pipe'[j].active <=> pipe[j].active)
  BY <1>1 DEF InBox, Letter
<1>5. \A m : m \in InBuffers' <=> \E j \in Ids : pipe'[j].active /\ m \in InBox(j)'
  BY DEF InBuffers
<1>6. \A m : m \in InBuffers <=> \E j \in Ids : pipe[j].active /\ m \in InBox(j)
  BY DEF InBuffers
<1> QED BY <1>3, <1>4, <1>5, <1>6

(* msend implements Send. *)
LEMMA SendRefines ==
  ASSUME TypeOK, IpcInv, NEW p \in Pids, NEW q \in Pids, p # q, {p, q} \in Pairs,
         NEW x \in Signals, MSend(p, q, x)
  PROVE  MB!Send(p, q, x)
<1> PICK i : i = handle[p][{p, q}]
  OBVIOUS
<1>1. /\ i # NoPipe
      /\ \/ CanSend(i, p, q) /\ Store(i, q, x) /\ Reply(p, IPC_SUCCESS)
         \/ ~CanSend(i, p, q) /\ Reply(p, IPC_FAILURE) /\ UNCHANGED pipe
  BY DEF MSend
<1>2. /\ i \in Ids /\ pipe[i].active
      /\ \/ /\ pipe[i].buff_1.pid = p /\ pipe[i].buff_2.pid = q
            /\ Signal(i, p) = pipe[i].buff_1.signal
            /\ Signal(i, q) = pipe[i].buff_2.signal
         \/ /\ pipe[i].buff_1.pid = q /\ pipe[i].buff_2.pid = p
            /\ Signal(i, p) = pipe[i].buff_2.signal
            /\ Signal(i, q) = pipe[i].buff_1.signal
  BY <1>1, UsedPipe
<1>3. \A m : m \in InBuffers /\ {m.from, m.to} = {p, q} <=> m \in InBox(i)
  BY <1>1, OwnLetters
<1>4. CASE CanSend(i, p, q) /\ Store(i, q, x) /\ Reply(p, IPC_SUCCESS)
  <2>1. \A m : m \notin InBox(i)
    BY <1>2, <1>4, InBoxMembers DEF CanSend
  <2>2. /\ \A j \in Ids : j # i => pipe'[j] = pipe[j]
        /\ pipe'[i] = Stored(i, q, x)
        /\ pipe'[i].active
    <3>1. i \in Ids /\ Store(i, q, x)
      BY <1>2, <1>4
    <3>2. /\ \A j \in Ids : pipe'[j].active = pipe[j].active
          /\ \A j \in Ids : j # i => pipe'[j] = pipe[j]
          /\ pipe'[i] = Stored(i, q, x)
      BY <3>1, StoredKeepsEnds
    <3> QED BY <1>2, <3>2
  <2>3. \/ /\ pipe'[i].buff_1 = pipe[i].buff_1 /\ pipe[i].buff_1.pid = p
           /\ pipe[i].buff_1.signal = IPC_EMPTY /\ pipe'[i].buff_2 = buffer_of(q, x)
        \/ /\ pipe'[i].buff_2 = pipe[i].buff_2 /\ pipe[i].buff_2.pid = p
           /\ pipe[i].buff_2.signal = IPC_EMPTY /\ pipe'[i].buff_1 = buffer_of(q, x)
    BY <1>2, <1>4, <2>2 DEF CanSend, Stored
  <2>4. buffer_of(q, x).pid = q /\ buffer_of(q, x).signal = x /\ x # IPC_EMPTY
    BY CallersAssumption DEF buffer_of
  <2>5. \A m : m \in InBox(i)' <=> m = Letter(p, q, x)
    BY <2>3, <2>4 DEF InBox, Letter
  <2>6. \A m : m \in InBuffers' <=> m \in InBuffers \cup {Letter(p, q, x)}
    <3>1. \A m : m \in InBuffers' <=>
            m \in InBox(i)' \/ \E j \in Ids : j # i /\ pipe[j].active /\ m \in InBox(j)
      BY <1>2, <2>2, OtherLetters
    <3>2. \A m : m \in InBuffers <=> \E j \in Ids : pipe[j].active /\ m \in InBox(j)
      BY DEF InBuffers
    <3> QED BY <2>1, <2>5, <3>1, <3>2
  <2>7. InBuffers' = InBuffers \cup {[from |-> p, to |-> q, signal |-> x]}
    BY <2>6 DEF Letter
  <2>8. MB!Between(p, q) = {}
    BY <1>3, <2>1 DEF MB!Between
  <2>9. reply' = MB!Replied(p, MB!IPC_SUCCESS)
    BY <1>4 DEF Reply, MB!Replied, IPC_SUCCESS, MB!IPC_SUCCESS
  <2> QED BY <2>7, <2>8, <2>9 DEF MB!Send, MB!Deposits
<1>5. CASE ~CanSend(i, p, q) /\ Reply(p, IPC_FAILURE) /\ UNCHANGED pipe
  <2>1. \E m : m \in InBox(i)
    BY <1>2, <1>5, InBoxMembers DEF CanSend
  <2>2. MB!Between(p, q) # {}
    BY <1>3, <2>1 DEF MB!Between
  <2>3. InBuffers' = InBuffers
    BY <1>5 DEF InBuffers, InBox, Letter
  <2>4. reply' = MB!Replied(p, MB!IPC_FAILURE)
    BY <1>5 DEF Reply, MB!Replied, IPC_FAILURE, MB!IPC_FAILURE
  <2> QED BY <2>2, <2>3, <2>4 DEF MB!Send, MB!Refused
<1> QED BY <1>1, <1>4, <1>5

(* mreceive implements Receive. *)
LEMMA ReceiveRefines ==
  ASSUME TypeOK, IpcInv, NEW p \in Pids, NEW q \in Pids, p # q, {p, q} \in Pairs,
         MReceive(q, p)
  PROVE  MB!Receive(q, p)
<1> PICK i, x : i = handle[q][{p, q}] /\ x = Signal(i, q)
  OBVIOUS
<1>0. {p, q} = {q, p}
  OBVIOUS
<1>1. /\ i # NoPipe
      /\ \/ x # IPC_EMPTY /\ Store(i, q, IPC_EMPTY) /\ Reply(q, x)
         \/ x = IPC_EMPTY /\ UNCHANGED pipe /\ Reply(q, x)
  BY DEF MReceive
<1>2. /\ i \in Ids /\ pipe[i].active
      /\ \/ /\ pipe[i].buff_1.pid = p /\ pipe[i].buff_2.pid = q
            /\ Signal(i, p) = pipe[i].buff_1.signal
            /\ Signal(i, q) = pipe[i].buff_2.signal
         \/ /\ pipe[i].buff_1.pid = q /\ pipe[i].buff_2.pid = p
            /\ Signal(i, p) = pipe[i].buff_2.signal
            /\ Signal(i, q) = pipe[i].buff_1.signal
  BY <1>0, <1>1, UsedPipe
<1>3. \A m : m \in InBuffers /\ {m.from, m.to} = {p, q} <=> m \in InBox(i)
  BY <1>1, OwnLetters
<1>4. \A m : m \in InBox(i) /\ m.to = q <=> m = Letter(p, q, x) /\ x # IPC_EMPTY
  BY <1>2, InBoxMembers, LetterFields
<1>5. CASE x # IPC_EMPTY /\ Store(i, q, IPC_EMPTY) /\ Reply(q, x)
  <2>1. /\ \A j \in Ids : j # i => pipe'[j] = pipe[j]
        /\ pipe'[i] = Stored(i, q, IPC_EMPTY)
        /\ pipe'[i].active
    <3>1. i \in Ids /\ Store(i, q, IPC_EMPTY)
      BY <1>2, <1>5
    <3>2. /\ \A j \in Ids : pipe'[j].active = pipe[j].active
          /\ \A j \in Ids : j # i => pipe'[j] = pipe[j]
          /\ pipe'[i] = Stored(i, q, IPC_EMPTY)
      BY <3>1, StoredKeepsEnds
    <3> QED BY <1>2, <3>2
  <2>2. Signal(i, p) = IPC_EMPTY
    BY <1>2, <1>5 DEF IpcInv, OneInFlight
  <2>3. pipe'[i].buff_1.signal = IPC_EMPTY /\ pipe'[i].buff_2.signal = IPC_EMPTY
    BY <1>2, <2>1, <2>2 DEF Stored, buffer_of
  <2>4. \A m : m \notin InBox(i)'
    BY <2>3 DEF InBox, Letter
  <2>5. \A m : m \in InBox(i) <=> m = Letter(p, q, x)
    BY <1>2, <1>5, <2>2, InBoxMembers
  <2>6. \A j \in Ids : j # i /\ pipe[j].active => Letter(p, q, x) \notin InBox(j)
    <3> SUFFICES ASSUME NEW j \in Ids, j # i, pipe[j].active, Letter(p, q, x) \in InBox(j)
                 PROVE  FALSE
      OBVIOUS
    <3>1. PairOf(j) = {p, q}
      BY LetterEnds, LetterFields
    <3>2. PairOf(i) = {p, q}
      BY <1>2 DEF PairOf
    <3> QED BY <1>2, <3>1, <3>2 DEF IpcInv, PipePerPair
  <2>7. \A m : m \in InBuffers' <=> m \in InBuffers \ {Letter(p, q, x)}
    <3>1. \A m : m \in InBuffers' <=>
            m \in InBox(i)' \/ \E j \in Ids : j # i /\ pipe[j].active /\ m \in InBox(j)
      BY <1>2, <2>1, OtherLetters
    <3>2. \A m : m \in InBuffers <=> \E j \in Ids : pipe[j].active /\ m \in InBox(j)
      BY DEF InBuffers
    <3> QED BY <2>4, <2>5, <2>6, <3>1, <3>2
  <2>8. InBuffers' = InBuffers \ {Letter(p, q, x)}
    BY <2>7
  <2>9. Letter(p, q, x) \in InBuffers
    BY <1>3, <2>5
  <2>10. reply' = MB!Replied(q, x)
    BY <1>5 DEF Reply, MB!Replied
  <2> QED BY <2>8, <2>9, <2>10, LetterFields DEF MB!Receive, MB!Takes
<1>6. CASE x = IPC_EMPTY /\ UNCHANGED pipe /\ Reply(q, x)
  <2>1. \A m \in InBuffers : ~(m.from = p /\ m.to = q)
    BY <1>3, <1>4, <1>6
  <2>2. InBuffers' = InBuffers
    BY <1>6 DEF InBuffers, InBox, Letter
  <2>3. reply' = MB!Replied(q, MB!IPC_EMPTY)
    BY <1>6 DEF Reply, MB!Replied, IPC_EMPTY, MB!IPC_EMPTY
  <2> QED BY <2>1, <2>2, <2>3 DEF MB!Receive, MB!NothingFor
<1> QED BY <1>1, <1>5, <1>6

(* With at most as many pairs as pipes the pipe table is a mailbox per pair: *)
(* no signal is lost, duplicated, misdelivered or read back by its sender,   *)
(* even when one of the ends is killed and its pid given to another process. *)
THEOREM PipesRefineMailbox ==
  ASSUME EnoughPipes
  PROVE  Spec => RefinesMailbox
<1>1. Init => MB!Init
  BY DEF Init, MB!Init, InBuffers, MB!NoReply
<1>2. TypeOK /\ IpcInv /\ [Next]_vars => [MB!Next]_<<InBuffers, reply>>
  <2> SUFFICES ASSUME TypeOK, IpcInv, [Next]_vars
               PROVE  MB!Next \/ (InBuffers' = InBuffers /\ reply' = reply)
    BY DEF MB!Next
  <2>1. ASSUME NEW p \in Pids, NEW q \in Pids, p # q, {p, q} \in Pairs,
               NEW caller \in Pids, MakePipe(caller, p, q)
        PROVE  InBuffers' = InBuffers /\ reply' = reply
    <3>1. InBuffers' = InBuffers
      <4> PICK i \in Ids :
            \/ pipe' = pipe
            \/ /\ ~pipe[i].active
               /\ pipe' = [pipe EXCEPT ![i] = new_pipe(p, q)]
        BY <2>1, MakePipeEffect
      <4>1. CASE pipe' = pipe
        BY <4>1 DEF InBuffers, InBox, Letter
      <4> QED BY <4>1, NewPipeIsEmpty
    <3> QED BY <2>1, <3>1 DEF MakePipe
  <2>2. ASSUME NEW p \in Pids, NEW q \in Pids, p # q, {p, q} \in Pairs,
               (\E x \in Signals : MSend(p, q, x)) \/ MReceive(q, p)
        PROVE  MB!Next
    BY <2>2, SendRefines, ReceiveRefines DEF MB!Next
  <2>3. ASSUME NEW p \in Pids, Recycle(p)
        PROVE  InBuffers' = InBuffers /\ reply' = reply
    BY <2>3 DEF Recycle, InBuffers, InBox, Letter
  <2>4. CASE UNCHANGED vars
    BY <2>4 DEF vars, InBuffers, InBox, Letter
  <2> QED BY <2>1, <2>2, <2>3, <2>4 DEF Next
<1> QED BY <1>1, <1>2, IpcForever, IpcTypeCorrect, PTL DEF Spec, RefinesMailbox, MB!Spec

=============================================================================
