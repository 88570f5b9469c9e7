--------------------------- MODULE DiskLinkProofs ---------------------------
(* Proofs about module DiskLink: for any number of attempts, blocks, block   *)
(* contents and ends of the server, driver and server stay in step, calls    *)
(* fail only for a reason, and the pair implements module BlockStore.        *)
EXTENDS DiskLink, Integers, TLAPS

(* What an answer under way says of the call: a refusal nothing, an          *)
(* acknowledgement that it was done.                                         *)
Acknowledges ==
  \/ /\ call.op = "wr" /\ call.a \in Blocks /\ image[call.a] = call.x
     /\ rx = acknowledgement
  \/ /\ call.op = "rd" /\ call.a \in Blocks
     /\ rx = acknowledged(image[call.a])
  \/ call.op = "conf" /\ rx = acknowledged(Conf)

Synchronous ==
  \/ tx = <<>> /\ rx = <<>>
  \/ call.at = "wait" /\ tx = <<line>> /\ rx = <<>> /\ up
  \/ call.at = "wait" /\ tx = <<>> /\ (rx = refusal \/ Acknowledges)

(* Each attempt used up has a cause: a fault, or the noise of a connection,  *)
(* of which there is one more than there were ends of the server.            *)
Good == call.op = "conf" \/ call.a \in Blocks
Spent == IF call.at = "wait" /\ rx # refusal THEN call.tries - 1 ELSE call.tries
Noise == IF fresh \/ ~up THEN 1 ELSE 0
Accounted == call.at # "idle" /\ Good => Spent + Noise <= faults + 1

\* what holds of every state a run reaches
IInv == TypeOK /\ Synchronous /\ Accounted /\ FailureHasCause

----------------------------------------------------------------------------
(* Lines and answers as sequences *)

LEMMA TwoTokens ==
  ASSUME NEW S, NEW a \in S, NEW b \in S
  PROVE  /\ <<a, b>> \in Seq(S) /\ <<a, b>> # <<>> /\ Head(<<a, b>>) = a
         /\ Len(<<a, b>>) = 2 /\ SubSeq(<<a, b>>, 3, Len(<<a, b>>)) = <<>>
<1>1. <<a, b>> \in Seq(S) /\ <<a, b>> # <<>> /\ Head(<<a, b>>) = a /\ Len(<<a, b>>) = 2
  OBVIOUS
<1> QED BY <1>1

LEMMA FiveTokens ==
  ASSUME NEW S, NEW a \in S, NEW b \in S, NEW c \in S, NEW d \in S, NEW e \in S
  PROVE  /\ <<a, b, c, d, e>> \in Seq(S) /\ <<a, b, c, d, e>> # <<>>
         /\ Head(<<a, b, c, d, e>>) = a /\ Len(<<a, b, c, d, e>>) = 5
         /\ SubSeq(<<a, b, c, d, e>>, 6, Len(<<a, b, c, d, e>>)) = <<>>
<1>1. /\ <<a, b, c, d, e>> \in Seq(S) /\ <<a, b, c, d, e>> # <<>>
      /\ Head(<<a, b, c, d, e>>) = a /\ Len(<<a, b, c, d, e>>) = 5
  OBVIOUS
<1> QED BY <1>1

LEMMA OneLine ==
  ASSUME NEW S, NEW l \in S
  PROVE  /\ <<l>> \in Seq(S) /\ <<l>> # <<>> /\ Head(<<l>>) = l
         /\ Tail(<<l>>) = <<>> /\ Append(<<>>, l) = <<l>>
OBVIOUS

(* Each kind of answer is one the driver reads to its end. *)
LEMMA Tokens ==
  /\ refusal \in Seq(Token) /\ refusal # <<>> /\ Head(refusal) = FAIL
  /\ Len(refusal) = 2 /\ SubSeq(refusal, 3, Len(refusal)) = <<>>
  /\ acknowledgement \in Seq(Token) /\ acknowledgement # <<>> /\ Head(acknowledgement) = OKAY
  /\ Len(acknowledgement) = 2 /\ SubSeq(acknowledgement, 3, Len(acknowledgement)) = <<>>
  /\ \A d \in Data \cup {Conf} :
       LET s == acknowledged(d)
       IN  /\ s \in Seq(Token) /\ s # <<>> /\ Head(s) = OKAY /\ Len(s) = 5
           /\ SubSeq(s, 6, Len(s)) = <<>> /\ <<s[3], s[4]>> = d
<1>1. FAIL \in Token /\ OKAY \in Token /\ EOL \in Token /\ SEP \in Token
  BY DEF Token
<1>2. \A d \in Data \cup {Conf} : d[1] \in Token /\ d[2] \in Token /\ d = <<d[1], d[2]>>
  BY DEF Token, Data, Conf
<1>3. ASSUME NEW d \in Data \cup {Conf}, NEW s, s = acknowledged(d)
      PROVE  /\ s \in Seq(Token) /\ s # <<>> /\ Head(s) = OKAY /\ Len(s) = 5
             /\ SubSeq(s, 6, Len(s)) = <<>> /\ <<s[3], s[4]>> = d
  <2>1. d[1] \in Token /\ d[2] \in Token /\ d = <<d[1], d[2]>>
    BY <1>2
  <2>2. s = <<OKAY, SEP, d[1], d[2], EOL>>
    BY <1>3 DEF acknowledged
  <2>3. s[3] = d[1] /\ s[4] = d[2]
    BY <2>2
  <2>4. /\ s \in Seq(Token) /\ s # <<>> /\ Head(s) = OKAY /\ Len(s) = 5
        /\ SubSeq(s, 6, Len(s)) = <<>>
    BY <1>1, <2>1, <2>2, FiveTokens
  <2> QED BY <2>1, <2>3, <2>4
<1>4. /\ refusal \in Seq(Token) /\ refusal # <<>> /\ Head(refusal) = FAIL
      /\ Len(refusal) = 2 /\ SubSeq(refusal, 3, Len(refusal)) = <<>>
  BY <1>1, TwoTokens DEF refusal
<1>5. /\ acknowledgement \in Seq(Token) /\ acknowledgement # <<>>
      /\ Head(acknowledgement) = OKAY /\ Len(acknowledgement) = 2
      /\ SubSeq(acknowledgement, 3, Len(acknowledgement)) = <<>>
  BY <1>1, TwoTokens DEF acknowledgement
<1> QED BY <1>3, <1>4, <1>5

LEMMA Statuses == OKAY # FAIL
BY DEF OKAY, FAIL

LEMMA LineType == TypeOK => line \in Line
BY DEF TypeOK, Call, Line, line

----------------------------------------------------------------------------
(* What the two ends know of each other *)

LEMMA ServerReads ==
  ASSUME TypeOK, Synchronous, tx # <<>>
  PROVE  /\ call.at = "wait" /\ rx = <<>> /\ up
         /\ Head(tx) = line /\ Tail(tx) = <<>>
<1>1. tx = <<line>> /\ call.at = "wait" /\ rx = <<>> /\ up
  BY DEF Synchronous
<1>2. Head(<<line>>) = line /\ Tail(<<line>>) = <<>>
  BY OneLine, LineType
<1> QED BY <1>1, <1>2

(* The answer leaves the line silent once it is read, and is what was asked. *)
LEMMA DriverReads ==
  ASSUME TypeOK, Synchronous, Receive
  PROVE  /\ tx = <<>> /\ tx' = <<>> /\ rx' = <<>>
         /\ \/ /\ rx = refusal /\ Head(rx) # OKAY
               /\ call' = at("send", call.tries) /\ UNCHANGED result
            \/ /\ Acknowledges /\ rx # refusal
               /\ call' = at("idle", 0)
               /\ result' = returned(DISK_SUCCESS, IF HasData THEN <<rx[3], rx[4]>> ELSE <<>>)
<1>1. call.at = "wait" /\ rx # <<>> /\ tx' = tx
  BY DEF Receive
<1>2. tx = <<>> /\ (rx = refusal \/ Acknowledges)
  BY <1>1 DEF Synchronous
<1>3. rx' = SubSeq(rx, answer_length(Head(rx)) + 1, Len(rx))
  BY DEF Receive
<1>4. \/ /\ Head(rx) = OKAY
         /\ call' = at("idle", 0)
         /\ result' = returned(DISK_SUCCESS, IF HasData THEN <<rx[3], rx[4]>> ELSE <<>>)
      \/ /\ Head(rx) # OKAY
         /\ call' = at("send", call.tries)
         /\ UNCHANGED result
  BY DEF Receive
<1>5. CASE rx = refusal
  <2>1. Head(rx) = FAIL /\ Head(rx) # OKAY
    BY <1>5, Tokens, Statuses
  <2>2. answer_length(Head(rx)) + 1 = 3
    BY <2>1 DEF answer_length
  <2>3. rx' = <<>>
    BY <1>3, <1>5, <2>2, Tokens
  <2> QED BY <1>1, <1>2, <1>4, <1>5, <2>1, <2>3
<1>6. CASE Acknowledges
  <2>1. CASE call.op = "wr" /\ rx = acknowledgement
    <3>1. Head(rx) = OKAY
      BY <2>1, Tokens
    <3>2. answer_length(Head(rx)) + 1 = 3
      BY <2>1 DEF answer_length, HasData
    <3>3. rx' = <<>>
      BY <1>3, <2>1, <3>2, Tokens
    <3>4. rx # refusal
      BY <3>1, Tokens, Statuses
    <3> QED BY <1>1, <1>2, <1>4, <1>6, <3>1, <3>3, <3>4
  <2>2. CASE \E d \in Data \cup {Conf} : call.op # "wr" /\ rx = acknowledged(d)
    <3>1. PICK d \in Data \cup {Conf} : call.op # "wr" /\ rx = acknowledged(d)
      BY <2>2
    <3>2. Head(rx) = OKAY
      BY <3>1, Tokens
    <3>3. answer_length(Head(rx)) + 1 = 6
      BY <3>1, <3>2 DEF answer_length, HasData
    <3>4. rx' = <<>>
      BY <1>3, <3>1, <3>3, Tokens
    <3>5. rx # refusal
      BY <3>2, Tokens, Statuses
    <3> QED BY <1>1, <1>2, <1>4, <1>6, <3>2, <3>4, <3>5
  <2> QED BY <1>6, <2>1, <2>2 DEF Acknowledges, TypeOK
<1> QED BY <1>2, <1>5, <1>6

----------------------------------------------------------------------------
(* Every step keeps types and the two ends in step *)

LEMMA CallType ==
  ASSUME TypeOK, NEW where \in {"idle", "send", "wait"}, NEW n \in 0 .. DISK_RETRY
  PROVE  /\ at(where, n) \in Call /\ at(where, n).at = where /\ at(where, n).tries = n
         /\ at(where, n).op = call.op /\ at(where, n).a = call.a /\ at(where, n).x = call.x
BY DEF TypeOK, Call, at

LEMMA DriverSync ==
  ASSUME TypeOK, Synchronous, Driver
  PROVE  TypeOK' /\ Synchronous'
<1> USE LinkAssumption
<1>1. CASE Request
  <2>1. /\ call.at = "send" /\ call.tries + 1 \in 0 .. DISK_RETRY
        /\ call' = at("wait", call.tries + 1)
        /\ tx' = (IF up THEN Append(tx, line) ELSE tx) /\ interrupted' = ~up
        /\ UNCHANGED <<image, up, fresh, rx, result, faults, stops>>
    BY <1>1 DEF Request, RequestUpTo, TypeOK, Call
  <2>2. tx = <<>> /\ rx = <<>>
    BY <2>1 DEF Synchronous
  <2>3. call' \in Call /\ call'.at = "wait" /\ line' = line
    BY <2>1, CallType DEF line
  <2>4. tx' = IF up THEN <<line>> ELSE <<>>
    BY <2>1, <2>2, OneLine, LineType
  <2>5. tx' \in Seq(Line)
    BY <2>4, OneLine, LineType
  <2> QED BY <2>1, <2>2, <2>3, <2>4, <2>5 DEF TypeOK, Synchronous
<1>2. CASE GiveUp
  <2>1. /\ call.at = "send" /\ call' = at("idle", 0)
        /\ result' = returned(DISK_FAILURE, <<>>)
        /\ UNCHANGED <<image, up, fresh, tx, rx, faults, interrupted, stops>>
    BY <1>2 DEF GiveUp, GiveUpAfter
  <2>2. tx = <<>> /\ rx = <<>>
    BY <2>1 DEF Synchronous
  <2>3. call' \in Call /\ result' \in Result
    BY <2>1, CallType DEF Result, returned
  <2> QED BY <2>1, <2>2, <2>3 DEF TypeOK, Synchronous
<1>3. CASE Receive
  <2>1. UNCHANGED <<image, up, fresh, tx, faults, interrupted, stops>>
    BY <1>3 DEF Receive
  <2>2. tx' = <<>> /\ rx' = <<>>
    BY <1>3, DriverReads
  <2>3. call' \in Call
    BY <1>3, DriverReads, CallType DEF TypeOK, Call
  <2>4. result' \in Result
    <3>1. CASE rx = refusal
      BY <1>3, <3>1, DriverReads DEF TypeOK
    <3>2. CASE Acknowledges /\ result' = returned(DISK_SUCCESS, IF HasData THEN <<rx[3], rx[4]>> ELSE <<>>)
      <4>1. (IF HasData THEN <<rx[3], rx[4]>> ELSE <<>>) \in Seq(Token)
        <5>1. CASE ~HasData
          BY <5>1
        <5>2. CASE HasData
          <6>1. PICK d \in Data \cup {Conf} : rx = acknowledged(d)
            BY <3>2, <5>2 DEF Acknowledges, HasData, TypeOK
          <6>2. <<rx[3], rx[4]>> = d
            BY <6>1, Tokens
          <6>3. d[1] \in Token /\ d[2] \in Token /\ d = <<d[1], d[2]>>
            BY DEF Token, Data, Conf
          <6> QED BY <5>2, <6>2, <6>3
        <5> QED BY <5>1, <5>2
      <4> QED BY <3>2, <4>1 DEF Result, returned
    <3> QED BY <1>3, <3>1, <3>2, DriverReads
  <2>5. tx' \in Seq(Line) /\ rx' \in Seq(Token)
    BY <2>2
  <2> QED BY <2>1, <2>2, <2>3, <2>4, <2>5 DEF TypeOK, Synchronous
<1> QED BY <1>1, <1>2, <1>3 DEF Driver

(* What one Answer of the server leaves behind. *)
LEMMA AnswerEffect ==
  ASSUME TypeOK, Synchronous, NEW tokens \in Seq(Token), Answer(tokens)
  PROVE  /\ tx # <<>> /\ tx' = <<>> /\ rx' = tokens /\ fresh' = FALSE
         /\ UNCHANGED <<up, call, result, interrupted, stops>>
<1>1. /\ tx # <<>> /\ tx' = Tail(tx) /\ rx' = rx \o tokens /\ fresh' = FALSE
      /\ UNCHANGED <<up, call, result, interrupted, stops>>
  BY DEF Answer
<1>2. Tail(tx) = <<>> /\ rx = <<>>
  BY <1>1, ServerReads
<1>3. <<>> \o tokens = tokens
  OBVIOUS
<1> QED BY <1>1, <1>2, <1>3

LEMMA Torn ==
  ASSUME TypeOK, NEW req \in Line, req.a \in Blocks
  PROVE  torn(req) \in Data
<1>1. req.x \in Data /\ image[req.a] \in Data
  BY DEF TypeOK, Line
<1> QED BY <1>1 DEF torn, Data

\* the block of the call in progress becomes x
Written(x) ==
  call.op = "wr" /\ call.a \in Blocks /\ image' = [image EXCEPT ![call.a] = x]

(* A step of the server refuses for a reason or does what it was asked.      *)
LEMMA ServerEffect ==
  ASSUME TypeOK, Synchronous, Server
  PROVE  /\ call.at = "wait" /\ rx = <<>> /\ tx' = <<>> /\ up /\ fresh' = FALSE
         /\ UNCHANGED <<up, call, result, interrupted, stops>>
         /\ rx' \in Seq(Token) /\ faults' \in Nat
         /\ \/ rx' = refusal /\ (fresh \/ ~Good) /\ UNCHANGED <<image, faults>>
            \/ /\ rx' = refusal /\ faults' = faults + 1
               /\ UNCHANGED image \/ Written(torn(line))
            \/ /\ rx' # refusal /\ Acknowledges' /\ UNCHANGED faults
               /\ UNCHANGED image \/ Written(call.x)
<1>1. tx # <<>>
  BY DEF Server, AnswerNoise, conf, wr, write_answering, rd, Answer
<1>2. call.at = "wait" /\ rx = <<>> /\ up /\ Head(tx) = line
  BY <1>1, ServerReads
<1>3. refusal \in Seq(Token) /\ acknowledgement \in Seq(Token) /\ refusal # acknowledgement
  BY Tokens, Statuses
<1>4. \A d \in Data \cup {Conf} : acknowledged(d) \in Seq(Token) /\ acknowledged(d) # refusal
  BY Tokens, Statuses
<1>5. line.op = call.op /\ line.a = call.a /\ line.x = call.x
  BY DEF line
<1>f. faults \in Nat
  BY DEF TypeOK
<1>6. CASE AnswerNoise
  <2>1. Answer(refusal) /\ fresh /\ UNCHANGED <<image, faults>>
    BY <1>6 DEF AnswerNoise
  <2> QED BY <1>2, <1>3, <1>f, <2>1, AnswerEffect
<1>7. CASE conf
  <2>1. Answer(acknowledged(Conf)) /\ call.op = "conf" /\ UNCHANGED <<image, faults>>
    BY <1>2, <1>5, <1>7 DEF conf
  <2>2. rx' = acknowledged(Conf) /\ UNCHANGED <<up, call, result, interrupted, stops>>
        /\ tx' = <<>> /\ fresh' = FALSE
    BY <1>4, <2>1, AnswerEffect
  <2>3. Acknowledges' /\ rx' # refusal /\ rx' \in Seq(Token)
    BY <1>4, <2>1, <2>2 DEF Acknowledges
  <2> QED BY <1>2, <1>f, <2>1, <2>2, <2>3
<1>8. CASE wr
  <2>1. /\ call.op = "wr"
        /\ \/ call.a \notin Blocks /\ Answer(refusal) /\ UNCHANGED <<image, faults>>
           \/ call.a \in Blocks /\ Answer(acknowledgement) /\ Put(call.a, call.x) /\ UNCHANGED faults
           \/ call.a \in Blocks /\ Answer(refusal) /\ Put(call.a, torn(line)) /\ Fault
    BY <1>2, <1>5, <1>8 DEF wr, write_answering
  <2>2. CASE call.a \notin Blocks /\ Answer(refusal) /\ UNCHANGED <<image, faults>>
    <3>1. ~Good
      BY <2>1, <2>2 DEF Good
    <3> QED BY <1>2, <1>3, <1>f, <2>2, <3>1, AnswerEffect
  <2>3. CASE call.a \in Blocks /\ Answer(acknowledgement) /\ Put(call.a, call.x) /\ UNCHANGED faults
    <3>1. rx' = acknowledgement /\ UNCHANGED <<up, call, result, interrupted, stops>>
          /\ tx' = <<>> /\ fresh' = FALSE
      BY <1>3, <2>3, AnswerEffect
    <3>2. image' = [image EXCEPT ![call.a] = call.x] /\ image \in [Blocks -> Data]
      BY <2>3 DEF Put, TypeOK
    <3>3. image'[call.a] = call.x
      BY <2>3, <3>2
    <3>4. Acknowledges'
      BY <2>1, <2>3, <3>1, <3>3 DEF Acknowledges
    <3> QED BY <1>2, <1>3, <1>f, <2>1, <2>3, <3>1, <3>2, <3>4 DEF Written
  <2>4. CASE call.a \in Blocks /\ Answer(refusal) /\ Put(call.a, torn(line)) /\ Fault
    <3>1. Written(torn(line)) /\ faults' = faults + 1
      BY <2>1, <2>4 DEF Put, Fault, Written
    <3>2. rx' = refusal /\ UNCHANGED <<up, call, result, interrupted, stops>>
          /\ tx' = <<>> /\ fresh' = FALSE
      BY <1>3, <2>4, AnswerEffect
    <3>3. faults' \in Nat
      BY <1>f, <3>1
    <3> QED BY <1>2, <1>3, <3>1, <3>2, <3>3
  <2> QED BY <2>1, <2>2, <2>3, <2>4
<1>9. CASE rd
  <2>1. /\ call.op = "rd" /\ UNCHANGED image
        /\ \/ call.a \notin Blocks /\ Answer(refusal) /\ UNCHANGED faults
           \/ call.a \in Blocks /\ Answer(acknowledged(image[call.a])) /\ UNCHANGED faults
           \/ call.a \in Blocks /\ Answer(refusal) /\ Fault
    BY <1>2, <1>5, <1>9 DEF rd
  <2>2. CASE call.a \notin Blocks /\ Answer(refusal) /\ UNCHANGED faults
    <3>1. ~Good
      BY <2>1, <2>2 DEF Good
    <3> QED BY <1>2, <1>3, <1>f, <2>1, <2>2, <3>1, AnswerEffect
  <2>3. CASE call.a \in Blocks /\ Answer(acknowledged(image[call.a])) /\ UNCHANGED faults
    <3>1. image[call.a] \in Data
      BY <2>3 DEF TypeOK
    <3>2. acknowledged(image[call.a]) \in Seq(Token) /\ acknowledged(image[call.a]) # refusal
      BY <1>4, <3>1
    <3>3. rx' = acknowledged(image[call.a]) /\ UNCHANGED <<up, call, result, interrupted, stops>>
          /\ tx' = <<>> /\ fresh' = FALSE
      BY <2>3, <3>2, AnswerEffect
    <3>4. Acknowledges'
      BY <2>1, <2>3, <3>3 DEF Acknowledges
    <3> QED BY <1>2, <1>f, <2>1, <2>3, <3>2, <3>3, <3>4
  <2>4. CASE call.a \in Blocks /\ Answer(refusal) /\ Fault
    <3>1. faults' = faults + 1
      BY <2>4 DEF Fault
    <3>2. rx' = refusal /\ UNCHANGED <<up, call, result, interrupted, stops>>
          /\ tx' = <<>> /\ fresh' = FALSE
      BY <1>3, <2>4, AnswerEffect
    <3>3. faults' \in Nat
      BY <1>f, <3>1
    <3> QED BY <1>2, <1>3, <2>1, <3>1, <3>2, <3>3
  <2> QED BY <2>1, <2>2, <2>3, <2>4
<1> QED BY <1>6, <1>7, <1>8, <1>9 DEF Server

LEMMA ServerSync ==
  ASSUME TypeOK, Synchronous, Server
  PROVE  TypeOK' /\ Synchronous'
<1>1. /\ call.at = "wait" /\ tx' = <<>> /\ fresh' = FALSE
      /\ UNCHANGED <<up, call, result, interrupted, stops>>
      /\ rx' \in Seq(Token) /\ faults' \in Nat
      /\ rx' = refusal \/ Acknowledges'
      /\ UNCHANGED image \/ Written(call.x) \/ Written(torn(line))
  BY ServerEffect
<1>2. image' \in [Blocks -> Data]
  <2>1. call.x \in Data /\ line \in Line /\ line.a = call.a
    BY LineType DEF TypeOK, Call, line
  <2>2. call.a \in Blocks => torn(line) \in Data
    BY <2>1, Torn
  <2> QED BY <1>1, <2>1, <2>2 DEF TypeOK, Written
<1>3. Synchronous'
  BY <1>1 DEF Synchronous, refusal
<1>4. tx' \in Seq(Line)
  BY <1>1
<1> QED BY <1>1, <1>2, <1>3, <1>4 DEF TypeOK

(* What the end of the server leaves behind. *)
LEMMA StopEffect ==
  ASSUME TypeOK, Synchronous, Stop
  PROVE  /\ up' = FALSE /\ tx' = <<>> /\ faults' = faults + 1
         /\ UNCHANGED <<rx, call, result>>
         /\ \/ UNCHANGED image
            \/ /\ rx = <<>> /\ call.at = "wait"
               /\ Written(call.x) \/ Written(torn(line))
<1>1. /\ up' = FALSE /\ tx' = <<>> /\ faults' = faults + 1
      /\ UNCHANGED <<rx, call, result>>
  BY DEF Stop, Fault
<1>2. CASE ~UNCHANGED image
  <2>1. /\ tx # <<>> /\ Head(tx).op = "wr" /\ Head(tx).a \in Blocks
        /\ \E x \in {Head(tx).x, torn(Head(tx))} : Put(Head(tx).a, x)
    BY <1>2 DEF Stop
  <2>2. Head(tx) = line /\ rx = <<>> /\ call.at = "wait"
    BY <2>1, ServerReads
  <2>3. line.op = call.op /\ line.a = call.a /\ line.x = call.x
    BY DEF line
  <2> QED BY <1>1, <2>1, <2>2, <2>3 DEF Put, Written
<1> QED BY <1>1, <1>2

LEMMA SyncStep ==
  TypeOK /\ Synchronous /\ [Next]_vars => TypeOK' /\ Synchronous'
<1> SUFFICES ASSUME TypeOK, Synchronous, [Next]_vars PROVE TypeOK' /\ Synchronous'
  OBVIOUS
<1>1. ASSUME NEW op \in Ops, NEW a \in Addresses, NEW x \in Data, Begin(op, a, x)
      PROVE  TypeOK' /\ Synchronous'
  <2>1. tx = <<>> /\ rx = <<>>
    BY <1>1 DEF Begin, Synchronous
  <2>2. call' \in Call /\ result' \in Result
    <3>1. 0 \in 0 .. DISK_RETRY /\ <<>> \in Seq(Token)
      BY LinkAssumption
    <3>2. call' \in Call
      BY <1>1, <3>1 DEF Begin, Call
    <3>3. result' \in Result
      BY <1>1, <3>1 DEF Begin, Result, NoResult, returned
    <3> QED BY <3>2, <3>3
  <2> QED BY <1>1, <2>1, <2>2 DEF Begin, TypeOK, Synchronous
<1>2. CASE Driver
  BY <1>2, DriverSync
<1>3. CASE Server
  BY <1>3, ServerSync
<1>4. CASE Stop
  <2>1. image' \in [Blocks -> Data]
    <3>1. call.x \in Data /\ line \in Line /\ line.a = call.a
      BY LineType DEF TypeOK, Call, line
    <3>2. call.a \in Blocks => torn(line) \in Data
      BY <3>1, Torn
    <3> QED BY <1>4, <3>1, <3>2, StopEffect DEF TypeOK, Written
  <2>2. stops' \in 0 .. MAX_STOPS /\ fresh' = FALSE /\ interrupted' = TRUE
    BY <1>4, LinkAssumption DEF Stop, TypeOK
  <2>3. TypeOK'
    <3>1. up' = FALSE /\ tx' = <<>> /\ faults' = faults + 1 /\ UNCHANGED <<rx, call, result>>
      BY <1>4, StopEffect
    <3>2. tx' \in Seq(Line) /\ faults' \in Nat
      BY <3>1 DEF TypeOK
    <3> QED BY <2>1, <2>2, <3>1, <3>2 DEF TypeOK
  <2>4. Synchronous'
    BY <1>4, StopEffect DEF Synchronous, Acknowledges, line
  <2> QED BY <2>3, <2>4
<1>5. CASE Launch
  <2>1. up' = TRUE /\ fresh' = TRUE /\ UNCHANGED <<image, tx, rx, call, result, faults, interrupted, stops>>
    BY <1>5 DEF Launch
  <2>2. Synchronous'
    BY <1>5, <2>1 DEF Launch, Synchronous, Acknowledges, line
  <2> QED BY <2>1, <2>2 DEF TypeOK
<1>6. CASE UNCHANGED vars
  BY <1>6 DEF vars, TypeOK, Synchronous, Acknowledges, line
<1> QED BY <1>1, <1>2, <1>3, <1>4, <1>5, <1>6 DEF Next

LEMMA SyncInit == Init => TypeOK /\ Synchronous
<1> SUFFICES ASSUME Init PROVE TypeOK /\ Synchronous
  OBVIOUS
<1>1. 0 \in 0 .. DISK_RETRY /\ 0 \in 0 .. MAX_STOPS /\ 0 \in Nat
  BY LinkAssumption
<1>2. call \in Call
  BY <1>1 DEF Init, Call
<1>3. result \in Result
  BY DEF Init, Result, NoResult, returned
<1>4. tx \in Seq(Line) /\ rx \in Seq(Token)
  BY DEF Init
<1> QED BY <1>1, <1>2, <1>3, <1>4 DEF Init, TypeOK, Synchronous

----------------------------------------------------------------------------
(* Every attempt used up is accounted for *)

LEMMA Numbers ==
  ASSUME TypeOK
  PROVE  /\ call.tries \in Nat /\ faults \in Nat /\ DISK_RETRY \in Nat \ {0}
         /\ Noise \in {0, 1} /\ refusal # <<>>
BY LinkAssumption, Tokens DEF TypeOK, Call, Noise

LEMMA AccountStep ==
  IInv /\ [Next]_vars => Accounted' /\ FailureHasCause'
<1> SUFFICES ASSUME IInv, [Next]_vars PROVE Accounted' /\ FailureHasCause'
  OBVIOUS
<1>0. /\ TypeOK /\ Synchronous /\ Accounted /\ FailureHasCause
      /\ TypeOK'
  BY SyncStep DEF IInv
<1>n. /\ call.tries \in Nat /\ faults \in Nat /\ DISK_RETRY \in Nat \ {0}
      /\ Noise \in {0, 1} /\ refusal # <<>>
      /\ call'.tries \in Nat /\ faults' \in Nat
      /\ Noise' \in {0, 1} /\ refusal' = refusal
  <2>1. refusal' = refusal
    BY DEF refusal
  <2>2. call'.tries \in Nat /\ faults' \in Nat /\ Noise' \in {0, 1}
    BY <1>0 DEF TypeOK, Call, Noise
  <2> QED BY <1>0, <2>1, <2>2, Numbers
<1>q. DISK_FAILURE # DISK_SUCCESS /\ NoResult.status # DISK_FAILURE
  BY DEF DISK_FAILURE, DISK_SUCCESS, NoResult, returned
<1>1. ASSUME NEW op \in Ops, NEW a \in Addresses, NEW x \in Data, Begin(op, a, x)
      PROVE  Accounted' /\ FailureHasCause'
  <2>1. call'.at = "send" /\ call'.tries = 0 /\ faults' = 0 /\ result' = NoResult
    BY <1>1 DEF Begin
  <2>2. Spent' = 0
    BY <2>1 DEF Spent
  <2>3. Accounted'
    <3>1. Noise' = 0 \/ Noise' = 1
      BY <1>n
    <3>2. faults' = 0 /\ Spent' = 0
      BY <2>1, <2>2
    <3>3. 0 + 0 <= 0 + 1 /\ 0 + 1 <= 0 + 1
      OBVIOUS
    <3> QED BY <3>1, <3>2, <3>3 DEF Accounted
  <2>4. result'.status # DISK_FAILURE
    BY <1>q, <2>1
  <2> QED BY <2>3, <2>4 DEF FailureHasCause
<1>2. CASE Request
  <2>1. /\ call.at = "send" /\ call' = at("wait", call.tries + 1)
        /\ UNCHANGED <<up, fresh, rx, result, faults>>
    BY <1>2 DEF Request, RequestUpTo
  <2>2. rx = <<>>
    BY <1>0, <2>1 DEF Synchronous
  <2>3. /\ call'.at = "wait" /\ call'.tries = call.tries + 1
        /\ call'.op = call.op /\ call'.a = call.a
    BY <2>1 DEF at
  <2>4. Spent' = Spent /\ Noise' = Noise /\ Good' = Good
    BY <1>n, <2>1, <2>2, <2>3 DEF Spent, Noise, Good
  <2>5. Accounted'
    BY <1>0, <2>1, <2>4 DEF Accounted
  <2> QED BY <1>0, <2>1, <2>3, <2>5 DEF FailureHasCause
<1>3. CASE GiveUp
  <2>1. /\ call.at = "send" /\ call.tries >= DISK_RETRY /\ call' = at("idle", 0)
        /\ UNCHANGED faults
    BY <1>3 DEF GiveUp, GiveUpAfter
  <2>2. call'.at = "idle" /\ call'.op = call.op /\ call'.a = call.a
    BY <2>1 DEF at
  <2>3. Good => call.tries + Noise <= faults + 1
    BY <1>0, <2>1 DEF Accounted, Spent
  <2>4. Good => faults >= DISK_RETRY - 1
    BY <1>n, <2>1, <2>3
  <2> QED BY <2>1, <2>2, <2>4 DEF Accounted, FailureHasCause, Good
<1>4. CASE Receive
  <2>1. UNCHANGED <<up, fresh, faults>> /\ call.at = "wait"
    BY <1>4 DEF Receive
  <2>2. CASE rx = refusal /\ call' = at("send", call.tries) /\ UNCHANGED result
    <3>1. /\ call'.at = "send" /\ call'.tries = call.tries
          /\ call'.op = call.op /\ call'.a = call.a
      BY <2>2 DEF at
    <3>2. Spent' = Spent /\ Noise' = Noise /\ Good' = Good
      BY <1>n, <2>1, <2>2, <3>1 DEF Spent, Noise, Good
    <3>3. Accounted'
      BY <1>0, <2>1, <3>2 DEF Accounted
    <3> QED BY <1>0, <2>1, <2>2, <3>1, <3>3 DEF FailureHasCause
  <2>3. CASE call' = at("idle", 0) /\ result'.status = DISK_SUCCESS
    BY <1>q, <2>3 DEF Accounted, FailureHasCause, at
  <2> QED BY <1>0, <1>4, <2>2, <2>3, DriverReads DEF returned
<1>5. CASE Server
  <2>1. /\ call.at = "wait" /\ rx = <<>> /\ up /\ fresh' = FALSE
        /\ UNCHANGED <<up, call, result>>
        /\ \/ rx' = refusal /\ (fresh \/ ~Good) /\ UNCHANGED faults
           \/ rx' = refusal /\ faults' = faults + 1
           \/ rx' # refusal /\ UNCHANGED faults
    BY <1>0, <1>5, ServerEffect
  <2>2. /\ Spent = call.tries - 1 /\ Noise' = 0 /\ Good' = Good
        /\ Spent' = IF rx' = refusal THEN call.tries ELSE call.tries - 1
    BY <1>n, <2>1 DEF Spent, Noise, Good
  <2>3. fresh => Noise = 1
    BY DEF Noise
  <2>4. Good => (call.tries - 1) + Noise <= faults + 1
    BY <1>0, <2>1, <2>2 DEF Accounted
  <2>5. Accounted'
    <3>1. Good => Spent' + 0 <= faults' + 1
      BY <1>n, <2>1, <2>2, <2>3, <2>4
    <3> QED BY <2>2, <3>1 DEF Accounted
  <2>6. FailureHasCause'
    BY <1>0, <1>n, <2>1 DEF FailureHasCause
  <2> QED BY <2>5, <2>6
<1>6. CASE Stop
  <2>1. up' = FALSE /\ faults' = faults + 1 /\ UNCHANGED <<rx, call, result>>
    BY <1>0, <1>6, StopEffect
  <2>2. Spent' = Spent /\ Good' = Good /\ Noise' = 1
    BY <1>n, <2>1 DEF Spent, Noise, Good
  <2>3. Spent \in Int
    BY <1>n DEF Spent
  <2>4. Accounted'
    BY <1>0, <1>n, <2>1, <2>2, <2>3 DEF Accounted
  <2>5. FailureHasCause'
    BY <1>0, <1>n, <2>1 DEF FailureHasCause
  <2> QED BY <2>4, <2>5
<1>7. CASE Launch
  <2>1. ~up /\ up' = TRUE /\ fresh' = TRUE /\ UNCHANGED <<rx, call, result, faults>>
    BY <1>7 DEF Launch
  <2>2. Spent' = Spent /\ Good' = Good /\ Noise' = Noise
    BY <1>n, <2>1 DEF Spent, Noise, Good
  <2> QED BY <1>0, <2>1, <2>2 DEF Accounted, FailureHasCause
<1>8. CASE UNCHANGED vars
  <2>1. UNCHANGED <<up, fresh, rx, call, result, faults>>
    BY <1>8 DEF vars
  <2>2. Spent' = Spent /\ Good' = Good /\ Noise' = Noise
    BY <1>n, <2>1 DEF Spent, Noise, Good
  <2> QED BY <1>0, <2>1, <2>2 DEF Accounted, FailureHasCause
<1> QED BY <1>1, <1>2, <1>3, <1>4, <1>5, <1>6, <1>7, <1>8 DEF Next, Driver

LEMMA IInvInit == Init => IInv
<1>1. Init => Accounted /\ FailureHasCause
  BY DEF Init, Accounted, FailureHasCause, NoResult, returned, DISK_FAILURE
<1> QED BY <1>1, SyncInit DEF IInv

LEMMA IInvAlways == Spec => []IInv
<1>1. IInv /\ [Next]_vars => IInv'
  BY SyncStep, AccountStep DEF IInv
<1> QED BY <1>1, IInvInit, PTL DEF Spec

----------------------------------------------------------------------------
(* Results *)

(* Types: every line is a request of the call in progress, every token one   *)
(* the driver knows, and no request is made more than DISK_RETRY times.      *)
THEOREM LinkTypeCorrect == Spec => []TypeOK
<1>1. IInv => TypeOK
  BY DEF IInv
<1> QED BY <1>1, IInvAlways, PTL

(* The driver reads answers to their end and never one that is not its own.  *)
THEOREM LinkInStep == Spec => []InStep
<1>1. IInv => InStep
  <2> SUFFICES ASSUME IInv PROVE InStep
    OBVIOUS
  <2>1. TypeOK /\ Synchronous
    BY DEF IInv
  <2>2. refusal \in Answers
    BY DEF Answers
  <2>3. Acknowledges => rx \in Answers
    BY <2>1 DEF Acknowledges, Answers, TypeOK
  <2> QED BY <2>1, <2>2, <2>3 DEF Synchronous, InStep
<1> QED BY <1>1, IInvAlways, PTL

(* A call fails only for an address beyond the disk, or after a fault on     *)
(* each attempt but one (disk.c:73, disk.c:95).                              *)
THEOREM FailuresHaveCause == Spec => []FailureHasCause
<1>1. IInv => FailureHasCause
  BY DEF IInv
<1> QED BY <1>1, IInvAlways, PTL

----------------------------------------------------------------------------
(* The driver and the server implement BlockStore *)

LEMMA BlockStoreInit == Init => BS!Init
BY DEF Init, BS!Init, BS!NoCall, BS!NoResult, BS!returned, NoResult, returned

(* Under IInv every step is one of BlockStore's, or does not show. *)
LEMMA BlockStoreStep ==
  IInv /\ [Next]_vars => [BS!Next]_<<image, IF call.at = "idle" THEN [op |-> "none"] ELSE line, result>>
<1> DEFINE pending == IF call.at = "idle" THEN [op |-> "none"] ELSE line
<1> SUFFICES ASSUME IInv, [Next]_vars
             PROVE  BS!Next \/ UNCHANGED <<image, pending, result>>
  OBVIOUS
<1>0. TypeOK /\ Synchronous
  BY DEF IInv
<1>l. line.op = call.op /\ line.a = call.a /\ line.x = call.x
      /\ line = [op |-> call.op, a |-> call.a, x |-> call.x]
  BY DEF line
<1>c. call.op \in Ops /\ call.op # "none" /\ line # [op |-> "none"]
  BY <1>l, <1>0 DEF TypeOK, Call, Ops
<1>w. ASSUME call.at # "idle", UNCHANGED <<call, result>>,
             Written(call.x) \/ Written(torn(line))
      PROVE  BS!Next
  <2>1. pending = line /\ pending' = pending
    BY <1>w DEF line
  <2>2. /\ pending.op = "wr" /\ pending.a \in Blocks
        /\ \E x \in {pending.x, <<pending.x[1], image[pending.a][2]>>} :
             image' = [image EXCEPT ![pending.a] = x]
    BY <1>l, <1>w, <2>1 DEF Written, torn
  <2>3. BS!Change
    BY <1>w, <2>1, <2>2 DEF BS!Change
  <2> QED BY <2>3 DEF BS!Next
<1>1. ASSUME NEW op \in Ops, NEW a \in Addresses, NEW x \in Data, Begin(op, a, x)
      PROVE  BS!Next
  <2>1. /\ pending = [op |-> "none"] /\ pending' = [op |-> op, a |-> a, x |-> x]
        /\ result' = NoResult /\ UNCHANGED image
    BY <1>1 DEF Begin, line
  <2>2. BS!Begin(op, a, x)
    BY <2>1 DEF BS!Begin, BS!NoCall, BS!NoResult, BS!returned, NoResult, returned
  <2> QED BY <2>2 DEF BS!Next, Ops
<1>2. CASE Request
  <2>1. call.at = "send" /\ call'.at = "wait" /\ line' = line /\ UNCHANGED <<image, result>>
    BY <1>2 DEF Request, RequestUpTo, at, line
  <2> QED BY <2>1
<1>3. CASE GiveUp
  <2>1. /\ call.at = "send" /\ call'.at = "idle" /\ UNCHANGED image
        /\ result' = returned(DISK_FAILURE, <<>>)
    BY <1>3 DEF GiveUp, GiveUpAfter, at
  <2>2. BS!Fail
    BY <1>c, <2>1 DEF BS!Fail, BS!NoCall, BS!returned, returned, DISK_FAILURE, BS!DISK_FAILURE
  <2> QED BY <2>2 DEF BS!Next
<1>4. CASE Receive
  <2>1. call.at = "wait" /\ UNCHANGED image
    BY <1>4 DEF Receive
  <2>2. CASE call' = at("send", call.tries) /\ UNCHANGED result
    BY <2>1, <2>2 DEF at, line
  <2>3. CASE /\ Acknowledges /\ call' = at("idle", 0)
             /\ result' = returned(DISK_SUCCESS, IF HasData THEN <<rx[3], rx[4]>> ELSE <<>>)
    <3>1. pending = line /\ pending' = [op |-> "none"]
      BY <2>1, <2>3 DEF at
    <3>2. BS!Succeed
      <4>1. CASE call.op = "wr"
        <5>1. call.a \in Blocks /\ image[call.a] = call.x /\ result' = returned(DISK_SUCCESS, <<>>)
          BY <2>3, <4>1 DEF Acknowledges, HasData
        <5> QED BY <1>l, <2>1, <3>1, <4>1, <5>1
                DEF BS!Succeed, BS!NoCall, BS!returned, returned, DISK_SUCCESS, BS!DISK_SUCCESS
      <4>2. CASE call.op = "rd"
        <5>1. call.a \in Blocks /\ rx = acknowledged(image[call.a])
          BY <2>3, <4>2 DEF Acknowledges
        <5>2. <<rx[3], rx[4]>> = image[call.a]
          BY <1>0, <5>1, Tokens DEF TypeOK
        <5>3. result' = returned(DISK_SUCCESS, image[call.a])
          BY <2>3, <4>2, <5>2 DEF HasData
        <5> QED BY <1>l, <2>1, <3>1, <4>2, <5>1, <5>3
                DEF BS!Succeed, BS!NoCall, BS!returned, returned, DISK_SUCCESS, BS!DISK_SUCCESS
      <4>3. CASE call.op = "conf"
        <5>1. rx = acknowledged(Conf)
          BY <2>3, <4>3 DEF Acknowledges
        <5>2. <<rx[3], rx[4]>> = Conf
          BY <5>1, Tokens
        <5>3. result' = returned(DISK_SUCCESS, <<"num", "len">>)
          BY <2>3, <4>3, <5>2 DEF HasData, Conf
        <5> QED BY <1>l, <2>1, <3>1, <4>3, <5>3
                DEF BS!Succeed, BS!NoCall, BS!returned, returned, DISK_SUCCESS, BS!DISK_SUCCESS
      <4> QED BY <1>c, <4>1, <4>2, <4>3 DEF Ops
    <3> QED BY <3>2 DEF BS!Next
  <2> QED BY <1>0, <1>4, <2>2, <2>3, DriverReads
<1>5. CASE Server
  <2>1. /\ call.at = "wait" /\ UNCHANGED <<call, result>>
        /\ UNCHANGED image \/ Written(call.x) \/ Written(torn(line))
    BY <1>0, <1>5, ServerEffect
  <2>2. CASE UNCHANGED image
    BY <2>1, <2>2 DEF line
  <2> QED BY <1>w, <2>1, <2>2
<1>6. CASE Stop
  <2>1. /\ UNCHANGED <<call, result>>
        /\ \/ UNCHANGED image
           \/ call.at = "wait" /\ (Written(call.x) \/ Written(torn(line)))
    BY <1>0, <1>6, StopEffect
  <2>2. CASE UNCHANGED image
    BY <2>1, <2>2 DEF line
  <2> QED BY <1>w, <2>1, <2>2
<1>7. CASE Launch
  BY <1>7 DEF Launch, line
<1>8. CASE UNCHANGED vars
  BY <1>8 DEF vars, line
<1> QED BY <1>1, <1>2, <1>3, <1>4, <1>5, <1>6, <1>7, <1>8 DEF Next, Driver

(* To mem.c the driver is an array of blocks: success means done, a read     *)
(* yields what is on the disk, and a block changes only while it is written. *)
THEOREM LinkImplementsBlockStore == Spec => ImplementsBlockStore
<1> QED BY BlockStoreInit, BlockStoreStep, IInvAlways, PTL DEF Spec, ImplementsBlockStore, BS!Spec

=============================================================================
