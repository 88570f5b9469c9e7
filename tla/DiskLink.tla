------------------------------ MODULE DiskLink ------------------------------
(* The disk driver of device/disk.c and the disk server device/disk.py, and  *)
(* the serial line between them (a telnet connection of QEMU, Makefile:11).  *)
(*                                                                           *)
(* The driver sends a request line and waits, with interrupts masked, until  *)
(* it has read an answer line; a refused request is sent again.  The server  *)
(* answers line by line.  It may be stopped or end with an exception at any  *)
(* time and be launched again; what was on its way to it is then lost.       *)
(*                                                                           *)
(* A token of an answer stands for the characters one call of the driver     *)
(* reads: a status byte, a half of a block, a separator, an end of line.     *)
(* BLOCK_SIZE of the kernel is the --block-len of Makefile.disk.             *)
EXTENDS Naturals, Sequences

CONSTANTS
  DISK_RETRY,   \* attempts at a request
  Blocks,       \* addresses the disk has
  Addresses,    \* addresses callers ask for, some beyond the disk
  Halves,       \* contents of one half of a block
  MAX_STOPS     \* model bound: times the server ends

ASSUME LinkAssumption ==
  /\ DISK_RETRY \in Nat \ {0} /\ MAX_STOPS \in Nat
  /\ Blocks \subseteq Addresses

VARIABLES
  image,        \* the disk image
  up,           \* the server is connected
  fresh,        \* ... and has not read a line yet
  tx,           \* request lines on their way to the server
  rx,           \* tokens on their way to the driver
  call,         \* the driver's call, and how far it is
  result,       \* of the last call that returned
  faults,       \* history: short writes and reads, and ends of the server,
                \* since this call began
  interrupted,  \* history: the server was away since the last request
  stops

vars == <<image, up, fresh, tx, rx, call, result, faults, interrupted, stops>>

OKAY == "00"
FAIL == "01"
SEP == " "
EOL == "\n"
Conf == <<"num", "len">>

Data == Halves \X Halves
Ops == {"wr", "rd", "conf"}
Line == [op : Ops, a : Addresses, x : Data]
Token == {OKAY, FAIL, SEP, EOL} \cup Halves \cup {Conf[1], Conf[2]}

DISK_SUCCESS == "success"
DISK_FAILURE == "failure"
returned(status, data) == [status |-> status, data |-> data]
NoResult == returned("none", <<>>)

Call == [at : {"idle", "send", "wait"}, op : Ops, a : Addresses, x : Data,
         tries : 0 .. DISK_RETRY]
Result == [status : {"none", DISK_SUCCESS, DISK_FAILURE}, data : Seq(Token)]

TypeOK ==
  /\ image \in [Blocks -> Data]
  /\ up \in BOOLEAN /\ fresh \in BOOLEAN /\ interrupted \in BOOLEAN
  /\ tx \in Seq(Line) /\ rx \in Seq(Token)
  /\ call \in Call /\ result \in Result
  /\ faults \in Nat /\ stops \in 0 .. MAX_STOPS

\* QEMU waits for the server to connect before it starts the machine
Init ==
  /\ image \in [Blocks -> Data]
  /\ up = TRUE /\ fresh = TRUE
  /\ tx = <<>> /\ rx = <<>>
  /\ call \in [at : {"idle"}, op : Ops, a : Addresses, x : Data, tries : {0}]
  /\ result = NoResult
  /\ faults = 0 /\ interrupted = FALSE /\ stops = 0

----------------------------------------------------------------------------
(* The driver: disk_wr, disk_rd, disk_get_block_num and disk_get_block_len   *)

at(where, tries) == [at |-> where, op |-> call.op, a |-> call.a, x |-> call.x, tries |-> tries]
line == [op |-> call.op, a |-> call.a, x |-> call.x]

\* mem.c calls the driver
Begin(op, a, x) ==
  /\ call.at = "idle"
  /\ call' = [at |-> "send", op |-> op, a |-> a, x |-> x, tries |-> 0]
  /\ result' = NoResult
  /\ faults' = 0
  /\ UNCHANGED <<image, up, fresh, tx, rx, interrupted, stops>>

\* the driver sends a request line; QEMU drops it when nobody is connected
RequestUpTo(attempts) ==
  /\ call.at = "send" /\ call.tries < attempts
  /\ call' = at("wait", call.tries + 1)
  /\ tx' = IF up THEN Append(tx, line) ELSE tx
  /\ interrupted' = ~up
  /\ UNCHANGED <<image, up, fresh, rx, result, faults, stops>>

GiveUpAfter(attempts) ==
  /\ call.at = "send" /\ call.tries >= attempts
  /\ call' = at("idle", 0)
  /\ result' = returned(DISK_FAILURE, <<>>)
  /\ UNCHANGED <<image, up, fresh, tx, rx, faults, interrupted, stops>>

\* Wrong on purpose: the loop runs once too often, or once too seldom.
RequestOnceMore == RequestUpTo(DISK_RETRY + 1)
GiveUpEarly == GiveUpAfter(DISK_RETRY - 1)

Request == RequestUpTo(DISK_RETRY)
GiveUp == GiveUpAfter(DISK_RETRY)

HasData == call.op # "wr"

\* Wrong on purpose: the end of line after a refusal is left unread.
answer_lengthWithoutEol(status) ==
  IF status # OKAY THEN 1 ELSE IF HasData THEN 5 ELSE 2

\* the tokens the driver reads of an answer that begins with this status:
\* the status, on success a separator and two halves, the end of line
answer_length(status) ==
  IF status = OKAY /\ HasData THEN 5 ELSE 2

\* PL011_geth and PL011_getc wait for their characters
Receive ==
  /\ call.at = "wait" /\ rx # <<>>
  /\ LET n == answer_length(Head(rx))
     IN  /\ Len(rx) >= n
         /\ rx' = SubSeq(rx, n + 1, Len(rx))
         /\ \/ /\ Head(rx) = OKAY
               /\ call' = at("idle", 0)
               /\ result' = returned(DISK_SUCCESS, IF HasData THEN <<rx[3], rx[4]>> ELSE <<>>)
            \/ /\ Head(rx) # OKAY
               /\ call' = at("send", call.tries)
               /\ UNCHANGED result
  /\ UNCHANGED <<image, up, fresh, tx, faults, interrupted, stops>>

----------------------------------------------------------------------------
(* The server *)

refusal == <<FAIL, EOL>>
acknowledgement == <<OKAY, EOL>>
acknowledged(data) == <<OKAY, SEP, data[1], data[2], EOL>>

\* the server has read the next line and answers it
Answer(tokens) ==
  /\ up /\ tx # <<>>
  /\ tx' = Tail(tx)
  /\ rx' = rx \o tokens
  /\ fresh' = FALSE
  /\ UNCHANGED <<up, call, result, interrupted, stops>>

\* Wrong on purpose: a command that is none gets no answer.
NoAnswerToNoise ==
  /\ up /\ tx # <<>> /\ fresh
  /\ tx' = Tail(tx)
  /\ fresh' = FALSE
  /\ UNCHANGED <<up, call, result, interrupted, stops, rx, image, faults>>

\* on connecting QEMU sends telnet options without an end of line: the first
\* line the server reads begins with them, and is no command it knows
AnswerNoise ==
  /\ fresh
  /\ Answer(refusal)
  /\ UNCHANGED <<image, faults>>

conf ==
  /\ ~fresh /\ tx # <<>> /\ Head(tx).op = "conf"
  /\ Answer(acknowledged(Conf))
  /\ UNCHANGED <<image, faults>>

\* the server could write, or read, only part of the block, or it ended
Fault == faults' = faults + 1

torn(req) == <<req.x[1], image[req.a][2]>>
Put(a, x) == image' = [image EXCEPT ![a] = x]

write_answering(short_answer) ==
  /\ ~fresh /\ tx # <<>> /\ Head(tx).op = "wr"
  /\ LET req == Head(tx)
     IN  \/ req.a \notin Blocks /\ Answer(refusal) /\ UNCHANGED <<image, faults>>
         \/ req.a \in Blocks /\ Answer(acknowledgement) /\ Put(req.a, req.x) /\ UNCHANGED faults
         \/ req.a \in Blocks /\ Answer(short_answer) /\ Put(req.a, torn(req)) /\ Fault

\* Wrong on purpose: the number of bytes written is not compared.
wr_without_check == write_answering(acknowledgement)

wr == write_answering(refusal)

rd ==
  /\ ~fresh /\ tx # <<>> /\ Head(tx).op = "rd"
  /\ LET a == Head(tx).a
     IN  \/ a \notin Blocks /\ Answer(refusal) /\ UNCHANGED faults
         \/ a \in Blocks /\ Answer(acknowledged(image[a])) /\ UNCHANGED faults
         \/ a \in Blocks /\ Answer(refusal) /\ Fault
  /\ UNCHANGED image

\* the server ends, by an exception in the middle of a write or otherwise;
\* answers it has flushed still arrive
Stop ==
  /\ up /\ stops < MAX_STOPS
  /\ up' = FALSE /\ fresh' = FALSE
  /\ tx' = <<>>
  /\ stops' = stops + 1
  /\ interrupted' = TRUE
  /\ Fault
  /\ \/ UNCHANGED image
     \/ /\ ~fresh /\ tx # <<>> /\ Head(tx).op = "wr" /\ Head(tx).a \in Blocks
        /\ \E x \in {Head(tx).x, torn(Head(tx))} : Put(Head(tx).a, x)
  /\ UNCHANGED <<rx, call, result>>

\* make launch-disk
Launch ==
  /\ ~up
  /\ up' = TRUE /\ fresh' = TRUE
  /\ UNCHANGED <<image, tx, rx, call, result, faults, interrupted, stops>>

----------------------------------------------------------------------------

Driver == Request \/ GiveUp \/ Receive
Server == AnswerNoise \/ conf \/ wr \/ rd

Next ==
  \/ \E op \in Ops, a \in Addresses, x \in Data : Begin(op, a, x)
  \/ Driver
  \/ Server
  \/ Stop
  \/ Launch

Spec == Init /\ [][Next]_vars

\* the machine runs on, and so does the server while it is up
FairSpec == Spec /\ WF_vars(Driver) /\ WF_vars(Server)

----------------------------------------------------------------------------
(* Properties *)

Answers ==
  {refusal} \cup (IF call.op = "wr" THEN {acknowledgement} ELSE {acknowledged(d) : d \in Data \cup {Conf}})

(* Driver and server never get out of step: the line is silent whenever the  *)
(* driver is about to send or no call is in progress, and while it waits at  *)
(* most its own request or one answer to it is under way.  A character too   *)
(* many or too few read by disk.c would shift every later answer.            *)
InStep ==
  \/ tx = <<>> /\ rx = <<>>
  \/ call.at = "wait" /\ tx = <<line>> /\ rx = <<>> /\ up
  \/ call.at = "wait" /\ tx = <<>> /\ rx \in Answers

(* A call fails only for a reason: an address beyond the disk, or a server   *)
(* that fell short or went away, on all attempts but one.  The line that a   *)
(* connection spoils, at boot and after each launch of the server, costs a   *)
(* retry and never a call (disk.h:17, "Rather than give up immediately").    *)
FailureHasCause ==
  result.status = DISK_FAILURE =>
    \/ call.op # "conf" /\ call.a \notin Blocks
    \/ faults >= DISK_RETRY - 1

(* Every call returns, unless the server went away while the driver waited   *)
(* for it: disk.c has no timeout.  That it went away before the call began   *)
(* and is back does no harm.                                                 *)
CallReturns == (call.at # "idle") ~> (call.at = "idle" \/ interrupted)

----------------------------------------------------------------------------
(* Refinement *)

BS == INSTANCE BlockStore WITH
        store <- image,
        pending <- IF call.at = "idle" THEN [op |-> "none"] ELSE line

(* To its callers the driver is an array of blocks, through refusals,        *)
(* retries, short writes and servers that come and go: success means done,   *)
(* and a block changes only while it is being written.                       *)
ImplementsBlockStore == BS!Spec

=============================================================================
