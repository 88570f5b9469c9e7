--------------------------- MODULE ConsoleProofs ---------------------------
(* What TLAPS proves of the console, for any lines the user may type and any *)
(* number of children.                                                       *)
EXTENDS Console, TLAPS, WellFoundedInduction, SequenceTheorems

LEMMA AppendToOne == \A a, b : Append(<<a>>, b) = <<a, b>> /\ Len(<<a>>) = 1
<1> SUFFICES ASSUME NEW a, NEW b PROVE Append(<<a>>, b) = <<a, b>> /\ Len(<<a>>) = 1
  OBVIOUS
<1>1. <<a>> \in Seq({a, b}) /\ <<a, b>> \in Seq({a, b}) /\ Len(<<a>>) = 1 /\ Len(<<a, b>>) = 2
  OBVIOUS
<1>2. /\ Append(<<a>>, b) \in Seq({a, b}) /\ Len(Append(<<a>>, b)) = 2
      /\ \A n \in 1 .. 2 : Append(<<a>>, b)[n] = <<a, b>>[n]
  BY <1>1
<1> QED BY <1>1, <1>2, SeqEqual

LEMMA Delimiters == SPACE # NUL
BY DEF SPACE, NUL

----------------------------------------------------------------------------
(* The text a sequence of words is in the line: induction on its length. *)

Smaller == {ss \in Nat \X Nat : ss[1] < ss[2]}

LEMMA Induction ==
  ASSUME NEW T, 0 \in T, \A n \in Nat : n \in T => n + 1 \in T
  PROVE  \A n \in Nat : n \in T
<1> DEFINE Missing == {n \in Nat : n \notin T}
<1> SUFFICES ASSUME Missing # {} PROVE FALSE
  OBVIOUS
<1>1. IsWellFoundedOn(Smaller, Nat)
  BY NatLessThanWellFounded DEF OpToRel, Smaller
<1>2. PICK least \in Missing : \A y \in Missing : <<y, least>> \notin Smaller
  BY <1>1, WFMin
<1>3. \A y \in Missing : ~(y < least)
  BY <1>2 DEF Smaller
<1>4. least # 0 /\ least - 1 \in Nat
  BY <1>2
<1>5. least - 1 \notin T
  BY <1>2, <1>4
<1> QED BY <1>3, <1>4, <1>5

TextUpTo(words, f, n) == IF n = 1 THEN words[1] ELSE f[n - 1] \o <<SPACE>> \o words[n]

LEMMA TextDefined ==
  ASSUME NEW words, NEW N \in Nat
  PROVE  \E f : f = [n \in 1 .. N |-> TextUpTo(words, f, n)]
<1> DEFINE Good(m) == \E f : /\ f = [n \in 1 .. N |-> f[n]]
                             /\ \A n \in 1 .. N : n <= m => f[n] = TextUpTo(words, f, n)
<1> DEFINE T == {m \in Nat : Good(m)}
<1>1. 0 \in T
  <2> DEFINE f == [n \in 1 .. N |-> 0]
  <2>1. f = [n \in 1 .. N |-> f[n]]
    OBVIOUS
  <2>2. \A n \in 1 .. N : ~(n <= 0)
    OBVIOUS
  <2> HIDE DEF f
  <2> QED BY <2>1, <2>2
<1>2. ASSUME NEW m \in Nat, m \in T PROVE m + 1 \in T
  <2>1. PICK f : /\ f = [n \in 1 .. N |-> f[n]]
                 /\ \A n \in 1 .. N : n <= m => f[n] = TextUpTo(words, f, n)
    BY <1>2
  <2> DEFINE g == [n \in 1 .. N |-> IF n = m + 1 THEN TextUpTo(words, f, n) ELSE f[n]]
  <2>2. \A n \in 1 .. N : g[n] = IF n = m + 1 THEN TextUpTo(words, f, n) ELSE f[n]
    OBVIOUS
  <2>3. g = [n \in 1 .. N |-> g[n]]
    OBVIOUS
  <2> HIDE DEF g
  <2>4. ASSUME NEW n \in 1 .. N, n <= m + 1 PROVE TextUpTo(words, g, n) = TextUpTo(words, f, n)
    <3>1. n # 1 => n - 1 \in 1 .. N /\ n - 1 # m + 1
      BY <2>4
    <3>2. n # 1 => g[n - 1] = f[n - 1]
      BY <2>2, <3>1
    <3> QED BY <3>2 DEF TextUpTo
  <2>5. \A n \in 1 .. N : n <= m + 1 => n = m + 1 \/ n <= m
    OBVIOUS
  <2>6. \A n \in 1 .. N : n <= m + 1 => g[n] = TextUpTo(words, g, n)
    BY <2>1, <2>2, <2>4, <2>5
  <2> QED BY <2>3, <2>6
<1>3. N \in T
  <2> HIDE DEF T
  <2> QED BY <1>1, <1>2, Induction
<1>4. PICK f : /\ f = [n \in 1 .. N |-> f[n]]
               /\ \A n \in 1 .. N : n <= N => f[n] = TextUpTo(words, f, n)
  BY <1>3
<1>5. \A n \in 1 .. N : f[n] = TextUpTo(words, f, n)
  BY <1>4
<1> QED BY <1>4, <1>5

(* Its characters are those of the words, and spaces. *)
LEMMA TextType ==
  ASSUME NEW C, NEW words \in Seq(Seq(C)), words # <<>>, SPACE \in C
  PROVE  text(words) \in Seq(C)
<1> DEFINE N == Len(words)
<1> DEFINE f == CHOOSE g : g = [n \in 1 .. N |-> TextUpTo(words, g, n)]
<1>1. /\ N \in Nat /\ N # 0
      /\ \A n \in 1 .. N : words[n] \in Seq(C)
  OBVIOUS
<1>2. text(words) = f[N]
  BY DEF text, TextUpTo
<1> HIDE DEF N
<1>3. f = [n \in 1 .. N |-> TextUpTo(words, f, n)]
  BY <1>1, TextDefined
<1> HIDE DEF f
<1>4. \A n \in 1 .. N : f[n] = TextUpTo(words, f, n)
  BY <1>3
<1> DEFINE T == {m \in Nat : m \in 1 .. N => f[m] \in Seq(C)}
<1>5. 0 \in T
  OBVIOUS
<1>6. ASSUME NEW m \in Nat, m \in T PROVE m + 1 \in T
  <2> SUFFICES ASSUME m + 1 \in 1 .. N PROVE f[m + 1] \in Seq(C)
    OBVIOUS
  <2>0. words[m + 1] \in Seq(C) /\ f[m + 1] = TextUpTo(words, f, m + 1)
    BY <1>1, <1>4
  <2>1. CASE m = 0
    BY <2>0, <2>1 DEF TextUpTo
  <2>2. CASE m # 0
    <3>1. m \in 1 .. N
      BY <1>1, <2>2
    <3>2. f[m] \in Seq(C) /\ <<SPACE>> \in Seq(C)
      BY <1>6, <3>1
    <3>3. m + 1 # 1 /\ (m + 1) - 1 = m
      BY <2>2
    <3>4. f[m + 1] = f[m] \o <<SPACE>> \o words[m + 1]
      BY <2>0, <3>3 DEF TextUpTo
    <3>5. f[m] \o <<SPACE>> \in Seq(C)
      BY <3>2
    <3>6. \A a, b \in Seq(C) : a \o b \in Seq(C)
      OBVIOUS
    <3> QED BY <2>0, <3>4, <3>5, <3>6
  <2> QED BY <2>1, <2>2
<1>7. N \in T
  <2> HIDE DEF T
  <2> QED BY <1>1, <1>5, <1>6, Induction
<1>8. N \in 1 .. N
  BY <1>1
<1> QED BY <1>2, <1>7, <1>8

----------------------------------------------------------------------------
(* Types *)

LEMMA TokensOf ==
  /\ DOMAIN Tokens = {"fork", "load", "kill", "open", "close", "write", "cat"}
  /\ Tokens["fork"] = <<>>
  /\ Tokens["load"] = <<SPACE, SPACE>>
  /\ Tokens["kill"] = <<SPACE, SPACE>>
  /\ Tokens["open"] = <<NUL>>
  /\ Tokens["close"] = <<NUL>>
  /\ Tokens["write"] = <<SPACE, NUL>>
  /\ Tokens["cat"] = <<SPACE>>
BY DEF Tokens

LEMMA HowManyTokens ==
  /\ \A c \in DOMAIN Tokens : Len(Tokens[c]) \in Nat /\ Len(Tokens[c]) <= 2
  /\ "prompt" \notin DOMAIN Tokens /\ "first" \notin DOMAIN Tokens
  /\ "load" \in DOMAIN Tokens /\ Commands = DOMAIN Tokens \ {"load"}
<1>1. ASSUME NEW c \in DOMAIN Tokens PROVE Len(Tokens[c]) \in Nat /\ Len(Tokens[c]) <= 2
  <2>1. /\ Len(<<>>) = 0 /\ Len(<<SPACE>>) = 1 /\ Len(<<NUL>>) = 1
        /\ Len(<<SPACE, SPACE>>) = 2 /\ Len(<<SPACE, NUL>>) = 2
    OBVIOUS
  <2>2. Tokens[c] \in {<<>>, <<SPACE>>, <<NUL>>, <<SPACE, SPACE>>, <<SPACE, NUL>>}
    BY TokensOf
  <2>3. Len(Tokens[c]) \in {0, 1, 2}
    BY <2>1, <2>2, Zenon
  <2>4. \A k \in {0, 1, 2} : k \in Nat /\ k <= 2
    OBVIOUS
  <2> QED BY <2>3, <2>4, Zenon
<1> QED BY <1>1, TokensOf DEF Commands

LEMMA LineTypes ==
  /\ \A l \in Lines : l \in Seq(Words)
  /\ \A word \in Words : word \in Seq(Letters \cup {SPACE}) /\ word # <<>>
<1>1. ASSUME NEW l \in Lines PROVE l \in Seq(Words)
  <2>1. l \in Seq(Range(l)) /\ Range(l) \subseteq Words
    BY LinesAssumption DEF Words
  <2> QED BY <2>1
<1>2. ASSUME NEW word \in Words PROVE word \in Seq(Letters \cup {SPACE}) /\ word # <<>>
  <2>1. PICK l \in Lines : word \in Range(l)
    BY DEF Words
  <2>2. word \in Seq(Range(word)) /\ word # <<>>
    BY <2>1, LinesAssumption
  <2>3. Range(word) \subseteq Letters \cup {SPACE}
    BY <2>1 DEF Letters
  <2> QED BY <2>2, <2>3
<1> QED BY <1>1, <1>2

Args == Seq(Seq(Letters \cup {SPACE}))

(* What TypeOK says of a process s. *)
ProcessOK(s, record) ==
  /\ record \in Process
  /\ s # Console <=> record.doing = "load"
  /\ record.doing \in DOMAIN Tokens => Len(record.args) <= Len(Tokens[record.doing])

LEMMA ProcessTyped ==
  ASSUME NEW doing \in DOMAIN Tokens \cup {"prompt", "first"}, NEW args \in Args,
         NEW line \in Lines \cup {<<>>}, NEW s, s # Console <=> doing = "load",
         doing \in DOMAIN Tokens => Len(args) <= Len(Tokens[doing])
  PROVE  ProcessOK(s, process(doing, args, line))
BY DEF ProcessOK, process, Process, Args

LEMMA NoArgs ==
  /\ <<>> \in Args
  /\ \A c \in DOMAIN Tokens : Len(<<>>) <= Len(Tokens[c])
  /\ "prompt" \notin DOMAIN Tokens /\ "first" \notin DOMAIN Tokens
  /\ "load" \in DOMAIN Tokens /\ Commands = DOMAIN Tokens \ {"load"}
<1>1. <<>> \in Args
  BY DEF Args
<1>2. Len(<<>>) = 0
  OBVIOUS
<1> QED BY <1>1, <1>2, HowManyTokens

LEMMA TypeByProcess ==
  TypeOK <=> /\ x \in Lines \cup {<<>>}
             /\ rest \in Seq(Words)
             /\ Console \in DOMAIN proc /\ DOMAIN proc \subseteq Pids \cup {Console}
             /\ \A s \in DOMAIN proc : ProcessOK(s, proc[s])
             /\ opened.fd \in Descriptors \cup {0}
             /\ hasty \in BOOLEAN
BY DEF TypeOK, ProcessOK

LEMMA BecomesEffect ==
  ASSUME TypeOK, NEW s \in DOMAIN proc, NEW doing, NEW args, Becomes(s, doing, args)
  PROVE  /\ DOMAIN proc' = DOMAIN proc
         /\ proc'[s] = process(doing, args, proc[s].line)
         /\ \A r \in DOMAIN proc : r # s => proc'[r] = proc[r]
<1>1. proc[s] \in Process
  BY DEF TypeOK
<1>2. DOMAIN proc' = DOMAIN proc /\ \A r \in DOMAIN proc : r # s => proc'[r] = proc[r]
  BY DEF Becomes
<1>3. proc'[s] = [proc[s] EXCEPT !.doing = doing, !.args = args]
  BY DEF Becomes
<1>4. proc[s] = [doing |-> proc[s].doing, args |-> proc[s].args, line |-> proc[s].line]
  BY <1>1 DEF Process
<1>5. proc'[s] = process(doing, args, proc[s].line)
  BY <1>3, <1>4 DEF process
<1> QED BY <1>2, <1>5

(* The token strtok returns, and what it leaves, when words are left. *)
token(delimiter, words) ==
  IF words = <<>> THEN NULL
  ELSE IF delimiter = SPACE THEN Head(words)
  ELSE text(words)

left(delimiter, words) == IF words # <<>> /\ delimiter = SPACE THEN Tail(words) ELSE <<>>

LEMMA NextTokenEffect ==
  ASSUME TypeOK, NEW s \in DOMAIN proc, NextToken(s)
  PROVE  LET command == proc[s].doing
             args == proc[s].args
             delimiter == Tokens[command][Len(args) + 1]
         IN  /\ command \in DOMAIN Tokens /\ Len(args) < Len(Tokens[command])
             /\ DOMAIN proc' = DOMAIN proc
             /\ proc'[s] = process(command, Append(args, token(delimiter, rest)), proc[s].line)
             /\ \A r \in DOMAIN proc : r # s => proc'[r] = proc[r]
             /\ rest' = left(delimiter, rest)
             /\ UNCHANGED <<x, opened, did, hasty>>
BY BecomesEffect DEF NextToken, token, left

LEMMA TokenType ==
  ASSUME TypeOK, NEW delimiter
  PROVE  /\ token(delimiter, rest) \in Seq(Letters \cup {SPACE})
         /\ left(delimiter, rest) \in Seq(Words)
<1>1. rest \in Seq(Words)
  BY DEF TypeOK
<1>2. CASE rest = <<>>
  BY <1>2 DEF token, left, NULL
<1>3. CASE rest # <<>>
  <2>1. Head(rest) \in Words /\ Tail(rest) \in Seq(Words)
    BY <1>1, <1>3
  <2>2. Words \subseteq Seq(Letters \cup {SPACE})
    BY LineTypes
  <2>3. rest \in Seq(Seq(Letters \cup {SPACE}))
    BY <1>1, <2>2
  <2>4. text(rest) \in Seq(Letters \cup {SPACE})
    BY <1>3, <2>3, TextType
  <2> QED BY <2>1, <2>2, <2>4 DEF token, left
<1> QED BY <1>2, <1>3

LEMMA NextTokenType == ASSUME TypeOK, NEW s \in DOMAIN proc, NextToken(s) PROVE TypeOK'
<1> DEFINE command == proc[s].doing
<1> DEFINE args == proc[s].args
<1> DEFINE delimiter == Tokens[command][Len(args) + 1]
<1>1. /\ command \in DOMAIN Tokens /\ Len(args) < Len(Tokens[command])
      /\ DOMAIN proc' = DOMAIN proc
      /\ proc'[s] = process(command, Append(args, token(delimiter, rest)), proc[s].line)
      /\ \A r \in DOMAIN proc : r # s => proc'[r] = proc[r]
      /\ rest' = left(delimiter, rest)
      /\ UNCHANGED <<x, opened, did, hasty>>
  BY NextTokenEffect
<1>2. /\ args \in Args /\ proc[s].line \in Lines \cup {<<>>}
      /\ s # Console <=> command = "load"
  BY DEF TypeOK, Process, Args
<1>3. token(delimiter, rest) \in Seq(Letters \cup {SPACE}) /\ left(delimiter, rest) \in Seq(Words)
  BY TokenType
<1> HIDE DEF command, args, delimiter
<1>4. /\ Append(args, token(delimiter, rest)) \in Args
      /\ Len(Append(args, token(delimiter, rest))) = Len(args) + 1
  BY <1>2, <1>3 DEF Args
<1>5. Len(Append(args, token(delimiter, rest))) <= Len(Tokens[command])
  BY <1>1, <1>2, <1>4, NoArgs
<1>6. ProcessOK(s, proc'[s])
  BY <1>1, <1>2, <1>4, <1>5, ProcessTyped
<1>7. \A r \in DOMAIN proc' : ProcessOK(r, proc'[r])
  BY <1>1, <1>6, TypeByProcess
<1> QED BY <1>1, <1>3, <1>7, TypeByProcess DEF TypeOK, ProcessOK

LEMMA ReadLineType == ASSUME TypeOK, NEW l \in Lines, ReadLine(l) PROVE TypeOK'
<1>1. l \in Seq(Words)
  BY LineTypes
<1>2. \A w \in Suffixes(l) : w \in Seq(Words)
  <2>1. \A k \in 1 .. Len(l) : SubSeq(l, k, Len(l)) \in Seq(Words)
    BY <1>1
  <2>2. <<>> \in Seq(Words)
    OBVIOUS
  <2> QED BY <2>1, <2>2 DEF Suffixes
<1>3. rest' \in Seq(Words)
  BY <1>2 DEF ReadLine, TypeOK
<1>4. /\ DOMAIN proc' = DOMAIN proc /\ proc'[Console] = process("first", <<>>, l)
      /\ \A s \in DOMAIN proc : s # Console => proc'[s] = proc[s]
  BY DEF ReadLine, TypeOK
<1>5. ProcessOK(Console, process("first", <<>>, l))
  BY ProcessTyped, NoArgs
<1>6. \A s \in DOMAIN proc' : ProcessOK(s, proc'[s])
  BY <1>4, <1>5, TypeByProcess
<1> QED BY <1>3, <1>4, <1>6, TypeByProcess DEF ReadLine, NothingOpened, ProcessOK, TypeOK

LEMMA FirstTokenEffect ==
  ASSUME TypeOK, FirstToken
  PROVE  /\ DOMAIN proc' = DOMAIN proc
         /\ \A s \in DOMAIN proc : s # Console => proc'[s] = proc[s]
         /\ proc[Console].doing = "first"
         /\ \/ proc'[Console] = process("prompt", <<>>, proc[Console].line)
            \/ /\ x # <<>> /\ x[1][1] \in Commands /\ rest' = Tail(x)
               /\ proc'[Console] = process(x[1][1], <<>>, proc[Console].line)
         /\ UNCHANGED <<x, opened, did, hasty>>
<1>1. Console \in DOMAIN proc
  BY DEF TypeOK
<1>2. CASE x # <<>> /\ x[1][1] \in Commands /\ Becomes(Console, x[1][1], <<>>)
  BY <1>1, <1>2, BecomesEffect DEF FirstToken
<1>3. CASE Becomes(Console, "prompt", <<>>)
  BY <1>1, <1>3, BecomesEffect DEF FirstToken
<1> QED BY <1>2, <1>3 DEF FirstToken

LEMMA FirstTokenType == ASSUME TypeOK, FirstToken PROVE TypeOK'
<1>1. x \in Seq(Words)
  <2>1. CASE x = <<>>
    BY <2>1
  <2> QED BY <2>1, LineTypes DEF TypeOK
<1>2. rest' \in Seq(Words)
  BY <1>1 DEF FirstToken
<1>3. Console \in DOMAIN proc /\ proc[Console].line \in Lines \cup {<<>>}
  BY DEF TypeOK, Process
<1>4. ASSUME NEW c \in Commands \cup {"prompt"}
      PROVE  ProcessOK(Console, process(c, <<>>, proc[Console].line))
  BY <1>3, ProcessTyped, NoArgs
<1>5. ProcessOK(Console, proc'[Console])
  BY <1>4, FirstTokenEffect
<1>6. \A s \in DOMAIN proc' : ProcessOK(s, proc'[s])
  BY <1>5, FirstTokenEffect, TypeByProcess
<1> QED BY <1>2, <1>3, <1>6, FirstTokenEffect, TypeByProcess DEF TypeOK, ProcessOK

LEMMA ConsoleDoneType ==
  ASSUME TypeOK, NEW gone, Console \notin gone, ConsoleDone(gone), UNCHANGED <<x, rest, hasty>>,
         opened'.fd \in Descriptors \cup {0}
  PROVE  TypeOK'
<1>1. /\ DOMAIN proc' = DOMAIN proc \ gone
      /\ proc'[Console] = process("prompt", <<>>, <<>>)
      /\ \A s \in DOMAIN proc' : s # Console => proc'[s] = proc[s]
  BY DEF ConsoleDone, TypeOK
<1>2. ProcessOK(Console, process("prompt", <<>>, <<>>))
  BY ProcessTyped, NoArgs
<1>3. \A s \in DOMAIN proc' : ProcessOK(s, proc'[s])
  BY <1>1, <1>2, TypeByProcess
<1> QED BY <1>1, <1>3, TypeByProcess DEF TypeOK, ProcessOK

(* The child starts with the line of its parent, of which it has no token. *)
LEMMA ForkEffect ==
  ASSUME TypeOK, NEW pid \in Pids \ DOMAIN proc,
         proc' = [s \in DOMAIN proc \cup {pid} |->
                    IF s = Console THEN process("prompt", <<>>, <<>>)
                    ELSE IF s = pid THEN child(proc[Console].line)
                    ELSE proc[s]]
  PROVE  /\ DOMAIN proc' = DOMAIN proc \cup {pid} /\ pid # Console
         /\ proc'[Console] = process("prompt", <<>>, <<>>)
         /\ proc'[pid] = process("load", <<>>, proc[Console].line)
         /\ \A s \in DOMAIN proc : s # Console => proc'[s] = proc[s]
<1>1. Console \in DOMAIN proc /\ pid # Console
  BY DEF TypeOK
<1> QED BY <1>1 DEF child

LEMMA ForkType == ASSUME TypeOK, Fork PROVE TypeOK'
<1>1. CASE ConsoleDone({})
  BY <1>1, ConsoleDoneType DEF Fork, TypeOK
<1>2. ASSUME NEW pid \in Pids \ DOMAIN proc,
             proc' = [s \in DOMAIN proc \cup {pid} |->
                        IF s = Console THEN process("prompt", <<>>, <<>>)
                        ELSE IF s = pid THEN child(proc[Console].line)
                        ELSE proc[s]]
      PROVE  TypeOK'
  <2>1. Console \in DOMAIN proc /\ proc[Console].line \in Lines \cup {<<>>}
    BY DEF TypeOK, Process
  <2>2. /\ ProcessOK(Console, process("prompt", <<>>, <<>>))
        /\ pid # Console => ProcessOK(pid, process("load", <<>>, proc[Console].line))
    BY <2>1, ProcessTyped, NoArgs
  <2>3. \A s \in DOMAIN proc' : ProcessOK(s, proc'[s])
    BY <1>2, <2>2, ForkEffect, TypeByProcess
  <2> QED BY <1>2, <2>1, <2>3, ForkEffect, TypeByProcess DEF Fork, TypeOK, ProcessOK
<1> QED BY <1>1, <1>2 DEF Fork

LEMMA ExecType == ASSUME TypeOK, NEW s \in DOMAIN proc, Exec(s) PROVE TypeOK'
<1>1. s # Console
  BY HowManyTokens DEF Exec, Ready, TypeOK
<1>2. DOMAIN proc' = DOMAIN proc \ {s} /\ \A r \in DOMAIN proc' : proc'[r] = proc[r]
  BY DEF Exec
<1>3. \A r \in DOMAIN proc' : ProcessOK(r, proc'[r])
  BY <1>2, TypeByProcess
<1> QED BY <1>1, <1>2, <1>3, TypeByProcess DEF Exec, TypeOK, ProcessOK

LEMMA TypeStep == TypeOK /\ [Next]_vars => TypeOK'
<1> SUFFICES ASSUME TypeOK, [Next]_vars PROVE TypeOK'
  OBVIOUS
<1>1. ASSUME Kill PROVE TypeOK'
  BY <1>1, ConsoleDoneType DEF Kill, TypeOK
<1>2. ASSUME Open PROVE TypeOK'
  <2>1. opened'.fd \in Descriptors \cup {0}
    BY <1>2 DEF Open
  <2> QED BY <1>2, <2>1, ConsoleDoneType DEF Open
<1>3. ASSUME FileCommand PROVE TypeOK'
  BY <1>3, ConsoleDoneType DEF FileCommand, TypeOK
<1>4. CASE UNCHANGED vars
  BY <1>4 DEF vars, TypeOK
<1> QED
  BY <1>1, <1>2, <1>3, <1>4, ReadLineType, FirstTokenType, NextTokenType, ExecType, ForkType
  DEF Next

(* The shell's state stays in range; only a child ever waits for a program,   *)
(* and no command takes more tokens than it asks for.                        *)
THEOREM ConsoleTypeCorrect == Spec => []TypeOK
<1>1. Init => TypeOK
  <2>1. ProcessOK(Console, process("prompt", <<>>, <<>>))
    BY ProcessTyped, NoArgs
  <2>2. <<>> \in Seq(Words)
    OBVIOUS
  <2>3. Init => opened.fd = 0
    BY DEF Init, NothingOpened
  <2>4. Init => DOMAIN proc = {Console} /\ proc[Console] = process("prompt", <<>>, <<>>)
    BY DEF Init
  <2>5. Init => x = <<>> /\ rest = <<>> /\ hasty = FALSE
    BY DEF Init
  <2> QED BY <2>1, <2>2, <2>3, <2>4, <2>5, TypeByProcess
<1> QED BY <1>1, TypeStep, PTL DEF Spec

----------------------------------------------------------------------------
(* Tokens in order.  As long as the user waits, there is one process that     *)
(* takes tokens, the console or its child, and it has all that are gone since *)
(* the line was read: the first word is its command, its arguments are the   *)
(* next tokens, and the rest is where strtok is.                             *)

InOrder(s) ==
  LET line == proc[s].line
      command == proc[s].doing
      first == Tokens[command][1]
      words == left(first, Tail(line))
  IN  /\ line \in Lines /\ line # <<>>
      /\ line[1][1] = IF command = "load" THEN "fork" ELSE command
      /\ \/ proc[s].args = <<>> /\ rest = Tail(line)
         \/ proc[s].args = <<token(first, Tail(line))>> /\ rest = words
         \/ proc[s].args = <<token(first, Tail(line)), token(Tokens[command][2], words)>>

OneTaker ==
  \A s \in DOMAIN proc \ {Console} :
    /\ proc[Console].doing = "prompt"
    /\ \A r \in DOMAIN proc \ {Console} : r = s

LinesInv ==
  ~hasty => /\ OneTaker
            /\ proc[Console].doing = "first" => proc[Console].line = x
            /\ \A s \in DOMAIN proc : proc[s].doing \in DOMAIN Tokens => InOrder(s)

(* DoesWhatWasTyped for every line, whether the table has it or not. *)
DoesWhatLineAsks == ~did.hasty => did.call = Asked(did.line)

(* The words of a line by their positions are its tokens. *)
LEMMA TailFacts ==
  ASSUME NEW l \in Seq(Words), l # <<>>
  PROVE  /\ Tail(l) \in Seq(Words) /\ Len(l) \in Nat /\ Len(Tail(l)) = Len(l) - 1
         /\ \A n \in 1 .. Len(l) - 1 : Tail(l)[n] = l[n + 1]
         /\ Tail(l) = <<>> <=> Len(l) = 1
         /\ Tail(l) # <<>> => Head(Tail(l)) = l[2]
         /\ DOMAIN l = 1 .. Len(l)
<1>1. /\ Tail(l) \in Seq(Words) /\ Len(l) \in Nat /\ Len(Tail(l)) = Len(l) - 1
      /\ \A n \in 1 .. Len(l) - 1 : Tail(l)[n] = l[n + 1]
      /\ DOMAIN l = 1 .. Len(l)
  OBVIOUS
<1> DEFINE t == Tail(l)
<1>2. t = <<>> <=> Len(t) = 0
  BY <1>1
<1>3. ASSUME t # <<>> PROVE Head(t) = l[2]
  <2>1. 1 \in 1 .. Len(l) - 1 /\ t \in Seq(Words)
    BY <1>1, <1>2, <1>3
  <2>2. Head(t) = t[1]
    BY <2>1
  <2> QED BY <1>1, <2>1, <2>2
<1> QED BY <1>1, <1>2, <1>3

LEMMA Positions ==
  ASSUME NEW l \in Seq(Words), l # <<>>
  PROVE  /\ Word(l, 2) = token(SPACE, Tail(l))
         /\ Word(l, 3) = token(SPACE, left(SPACE, Tail(l)))
         /\ From(l, 2) = token(NUL, Tail(l))
         /\ From(l, 3) = token(NUL, left(SPACE, Tail(l)))
<1> DEFINE t == Tail(l)
<1> DEFINE u == Tail(t)
<1>1. t = SubSeq(l, 2, Len(l))
  OBVIOUS
<1>2. t # <<>> => u = SubSeq(l, 3, Len(l))
  <2> HAVE t # <<>>
  <2>1. u \in Seq(Words) /\ Len(u) = Len(l) - 2 /\ \A n \in 1 .. Len(l) - 2 : u[n] = l[n + 2]
    <3>1. /\ u \in Seq(Words) /\ Len(u) = Len(t) - 1
          /\ \A n \in 1 .. Len(t) - 1 : u[n] = t[n + 1]
      BY TailFacts
    <3> HIDE DEF t, u
    <3> QED BY <3>1, TailFacts DEF t
  <2> DEFINE v == SubSeq(l, 3, Len(l))
  <2>2. v \in Seq(Words) /\ Len(v) = Len(l) - 2 /\ \A n \in 1 .. Len(l) - 2 : v[n] = l[n + 2]
    <3>1. Len(l) \in Nat /\ Len(l) >= 2 /\ \A n \in 3 .. Len(l) : l[n] \in Words
      BY TailFacts
    <3>2. /\ v \in Seq(Words)
          /\ Len(v) = IF 3 <= Len(l) THEN Len(l) - 3 + 1 ELSE 0
          /\ \A n \in 1 .. Len(l) - 3 + 1 : v[n] = l[3 + n - 1]
      BY <3>1, SubSeqProperties
    <3> HIDE DEF v
    <3> DEFINE N == Len(l)
    <3>3. N \in Nat /\ N >= 2
      BY <3>1
    <3>4. Len(v) = N - 2
      <4> HIDE DEF N
      <4>1. Len(v) = IF 3 <= N THEN N - 3 + 1 ELSE 0
        BY <3>2 DEF N
      <4> QED BY <3>3, <4>1
    <3>5. ASSUME NEW n \in 1 .. N - 2 PROVE v[n] = l[n + 2]
      <4>1. n \in 1 .. N - 3 + 1 /\ 3 + n - 1 = n + 2
        BY <3>3, <3>5
      <4>2. v[n] = l[3 + n - 1]
        BY <3>2, <4>1
      <4> QED BY <4>1, <4>2
    <3> QED BY <3>2, <3>4, <3>5
  <2> HIDE DEF u, v
  <2>3. u = v
    BY <2>1, <2>2, SeqEqual
  <2> QED BY <2>3 DEF v
<1>3. /\ t = <<>> <=> 2 \notin DOMAIN l
      /\ t # <<>> => Head(t) = l[2] /\ (u = <<>> <=> 3 \notin DOMAIN l)
      /\ t # <<>> /\ u # <<>> => Head(u) = l[3]
  <2>1. t = <<>> <=> 2 \notin DOMAIN l
    BY TailFacts
  <2>2. ASSUME t # <<>> PROVE Head(t) = l[2] /\ (u = <<>> <=> 3 \notin DOMAIN l)
    <3>1. u = <<>> <=> Len(t) = 1
      BY <2>2, TailFacts
    <3>2. /\ Head(t) = l[2] /\ Len(t) = Len(l) - 1
          /\ DOMAIN l = 1 .. Len(l) /\ Len(l) \in Nat /\ Len(l) >= 2
      BY <2>2, TailFacts
    <3> HIDE DEF t, u
    <3> QED BY <3>1, <3>2
  <2>3. ASSUME t # <<>>, u # <<>> PROVE Head(u) = l[3]
    <3>2. Len(u) = Len(t) - 1
      BY <2>3, TailFacts
    <3>3. Head(u) = t[2]
      BY <2>3, TailFacts
    <3>4. /\ Len(t) = Len(l) - 1 /\ Len(l) \in Nat
          /\ \A n \in 1 .. Len(l) - 1 : t[n] = l[n + 1]
      BY <2>3, TailFacts
    <3>5. u \in Seq(Words)
      BY <2>3, TailFacts
    <3> HIDE DEF t, u
    <3>6. Len(u) \in Nat /\ Len(u) # 0
      BY <2>3, <3>5
    <3>7. 2 \in 1 .. Len(l) - 1
      BY <3>2, <3>4, <3>6
    <3> QED BY <3>3, <3>4, <3>7
  <2> QED BY <2>1, <2>2, <2>3
<1> HIDE DEF t, u
<1>4. left(SPACE, t) = IF t # <<>> THEN u ELSE <<>>
  BY DEF left, u
<1>5. Word(l, 2) = token(SPACE, t) /\ From(l, 2) = token(NUL, t)
  BY <1>1, <1>3, Delimiters DEF Word, From, token
<1>6. /\ Word(l, 3) = token(SPACE, left(SPACE, t))
      /\ From(l, 3) = token(NUL, left(SPACE, t))
  <2>1. CASE t = <<>>
    <3>1. 3 \notin DOMAIN l
      BY <1>3, <2>1, TailFacts
    <3> QED BY <1>4, <2>1, <3>1 DEF Word, From, token
  <2>2. CASE t # <<>>
    BY <1>2, <1>3, <1>4, <2>2, Delimiters DEF Word, From, token
  <2> QED BY <2>1, <2>2
<1> QED BY <1>5, <1>6 DEF t

(* Whoever takes tokens while the user waits is alone in it. *)
LEMMA AloneInIt ==
  ASSUME TypeOK, OneTaker, NEW s \in DOMAIN proc, proc[s].doing \in DOMAIN Tokens,
         NEW r \in DOMAIN proc, r # s
  PROVE  proc[r].doing \notin DOMAIN Tokens
<1>1. CASE s = Console
  <2>1. proc[Console].doing = "prompt"
    BY <1>1 DEF OneTaker
  <2> QED BY <1>1, <2>1, NoArgs
<1>2. CASE s # Console
  <2>1. r = Console /\ proc[Console].doing = "prompt"
    BY <1>2 DEF OneTaker
  <2> QED BY <2>1, NoArgs
<1> QED BY <1>1, <1>2

LEMMA ReadLineInOrder ==
  ASSUME TypeOK, LinesInv, NEW l \in Lines, ReadLine(l)
  PROVE  LinesInv' /\ DoesWhatLineAsks'
<1>1. DoesWhatLineAsks'
  BY DEF DoesWhatLineAsks, ReadLine, NothingDone
<1>2. ASSUME ~hasty' PROVE DOMAIN proc' = {Console} /\ proc'[Console] = process("first", <<>>, l)
  BY <1>2 DEF ReadLine, TypeOK
<1>3. ASSUME ~hasty' PROVE /\ proc'[Console].doing = "first" /\ proc'[Console].line = x'
  BY <1>2, <1>3 DEF ReadLine, process
<1>4. LinesInv'
  BY <1>2, <1>3, NoArgs DEF LinesInv, OneTaker
<1> QED BY <1>1, <1>4

LEMMA FirstTokenInOrder ==
  ASSUME TypeOK, LinesInv, FirstToken, ~hasty
  PROVE  LinesInv'
<1>1. Console \in DOMAIN proc /\ \A s \in DOMAIN proc : s = Console
  BY FirstTokenEffect DEF LinesInv, OneTaker, TypeOK
<1>2. OneTaker'
  BY <1>1, FirstTokenEffect DEF OneTaker
<1>3. CASE proc'[Console] = process("prompt", <<>>, proc[Console].line)
  <2>1. proc'[Console].doing = "prompt"
    BY <1>3 DEF process
  <2> QED BY <1>1, <1>2, <2>1, FirstTokenEffect, NoArgs DEF LinesInv
<1>4. CASE /\ x # <<>> /\ x[1][1] \in Commands /\ rest' = Tail(x)
           /\ proc'[Console] = process(x[1][1], <<>>, proc[Console].line)
  <2>1. /\ proc[Console].line = x /\ x \in Lines
    BY <1>4, FirstTokenEffect DEF LinesInv, TypeOK
  <2>2. /\ proc'[Console].doing = x[1][1] /\ proc'[Console].args = <<>>
        /\ proc'[Console].line = x
    BY <1>4, <2>1 DEF process
  <2>3. x[1][1] # "load" /\ x[1][1] # "first"
    BY <1>4, NoArgs
  <2>4. InOrder(Console)'
    BY <1>4, <2>1, <2>2, <2>3 DEF InOrder
  <2> QED BY <1>1, <1>2, <2>2, <2>3, <2>4, FirstTokenEffect DEF LinesInv
<1> QED BY <1>3, <1>4, FirstTokenEffect

LEMMA NextTokenInOrder ==
  ASSUME TypeOK, LinesInv, NEW s \in DOMAIN proc, NextToken(s), ~hasty
  PROVE  LinesInv'
<1> DEFINE command == proc[s].doing
<1> DEFINE args == proc[s].args
<1> DEFINE line == proc[s].line
<1> DEFINE delimiter == Tokens[command][Len(args) + 1]
<1>1. /\ command \in DOMAIN Tokens /\ Len(args) < Len(Tokens[command])
      /\ DOMAIN proc' = DOMAIN proc
      /\ proc'[s] = process(command, Append(args, token(delimiter, rest)), line)
      /\ \A r \in DOMAIN proc : r # s => proc'[r] = proc[r]
      /\ rest' = left(delimiter, rest)
      /\ UNCHANGED <<x, opened, did, hasty>>
  BY NextTokenEffect
<1>2. InOrder(s) /\ OneTaker
  BY <1>1 DEF LinesInv
<1>3. /\ proc'[s].doing = command /\ proc'[s].line = line
      /\ proc'[s].args = Append(args, token(delimiter, rest))
  BY <1>1 DEF process
<1>4. Console \in DOMAIN proc
  BY DEF TypeOK
<1>5. OneTaker'
  BY <1>1, <1>2, <1>3, <1>4 DEF OneTaker
<1>6. command # "first"
  BY <1>1, NoArgs
<1>7. InOrder(s)'
  <2> DEFINE first == Tokens[command][1]
  <2> DEFINE words == left(first, Tail(line))
  <2>1. /\ line \in Lines /\ line # <<>>
        /\ line[1][1] = IF command = "load" THEN "fork" ELSE command
    BY <1>2 DEF InOrder
  <2>2. Len(Tokens[command]) <= 2
    BY <1>1, HowManyTokens
  <2>3. CASE args = <<>> /\ rest = Tail(line)
    <3>1. delimiter = first /\ Append(args, token(delimiter, rest)) = <<token(first, Tail(line))>>
      BY <2>3
    <3>2. rest' = words
      BY <1>1, <2>3, <3>1
    <3> QED BY <1>3, <2>1, <3>1, <3>2 DEF InOrder
  <2>4. CASE args = <<token(first, Tail(line))>> /\ rest = words
    <3>1. /\ delimiter = Tokens[command][2]
          /\ Append(args, token(delimiter, rest))
               = <<token(first, Tail(line)), token(Tokens[command][2], words)>>
      <4>1. \A a, b : Append(<<a>>, b) = <<a, b>> /\ Len(<<a>>) = 1
        BY AppendToOne
      <4>2. Len(args) = 1
        BY <2>4, <4>1
      <4>3. delimiter = Tokens[command][2]
        BY <4>2
      <4>4. token(delimiter, rest) = token(Tokens[command][2], words)
        BY <2>4, <4>3
      <4> QED BY <2>4, <4>1, <4>3, <4>4
    <3> QED BY <1>3, <2>1, <3>1 DEF InOrder
  <2>5. ASSUME args = <<token(first, Tail(line)), token(Tokens[command][2], words)>>
        PROVE  FALSE
    <3>1. Len(args) = 2
      BY <2>5
    <3> QED BY <1>1, <2>2, <3>1, HowManyTokens
  <2> QED BY <1>2, <2>3, <2>4, <2>5 DEF InOrder
<1>8. \A r \in DOMAIN proc' : proc'[r].doing \in DOMAIN Tokens => r = s
  BY <1>1, <1>2, AloneInIt
<1>9. proc'[Console].doing = "first" => proc'[Console].line = x'
  BY <1>1, <1>3, <1>4, <1>6 DEF LinesInv
<1> QED BY <1>5, <1>7, <1>8, <1>9 DEF LinesInv

(* When the console is done it is at its prompt; before that it was alone. *)
LEMMA DoneInOrder ==
  ASSUME TypeOK, LinesInv, ~hasty, proc[Console].doing \in DOMAIN Tokens,
         NEW gone, Console \notin gone, ConsoleDone(gone), UNCHANGED <<x, rest, hasty>>
  PROVE  LinesInv'
<1>1. \A s \in DOMAIN proc : s = Console
  BY NoArgs DEF LinesInv, OneTaker
<1>2. DOMAIN proc' \subseteq {Console} /\ proc'[Console].doing = "prompt"
  BY <1>1 DEF ConsoleDone, TypeOK, process
<1> QED BY <1>2, NoArgs DEF LinesInv, OneTaker

(* How many tokens a process has. *)
LEMMA ArgsTaken ==
  ASSUME NEW s, InOrder(s)
  PROVE  LET line == proc[s].line
             command == proc[s].doing
             first == Tokens[command][1]
             words == left(first, Tail(line))
         IN  /\ Len(proc[s].args) = 0 => proc[s].args = <<>>
             /\ Len(proc[s].args) = 1 => proc[s].args = <<token(first, Tail(line))>>
             /\ Len(proc[s].args) = 2 =>
                  proc[s].args = <<token(first, Tail(line)), token(Tokens[command][2], words)>>
<1> DEFINE a == token(Tokens[proc[s].doing][1], Tail(proc[s].line))
<1> DEFINE b == token(Tokens[proc[s].doing][2], left(Tokens[proc[s].doing][1], Tail(proc[s].line)))
<1>1. proc[s].args = <<>> \/ proc[s].args = <<a>> \/ proc[s].args = <<a, b>>
  BY DEF InOrder
<1> HIDE DEF a, b
<1>2. Len(<<>>) = 0 /\ Len(<<a>>) = 1 /\ Len(<<a, b>>) = 2
  OBVIOUS
<1>3. /\ Len(proc[s].args) = 0 => proc[s].args = <<>>
      /\ Len(proc[s].args) = 1 => proc[s].args = <<a>>
      /\ Len(proc[s].args) = 2 => proc[s].args = <<a, b>>
  BY <1>1, <1>2
<1> QED BY <1>3 DEF a, b

LEMMA ForkInOrder == ASSUME TypeOK, LinesInv, Fork, ~hasty PROVE LinesInv'
<1>1. /\ proc[Console].doing = "fork" /\ Len(proc[Console].args) = 0
      /\ Console \in DOMAIN proc /\ "fork" \in DOMAIN Tokens
      /\ UNCHANGED <<x, rest, did, hasty>>
  BY TokensOf DEF Fork, Ready, TypeOK
<1>2. CASE ConsoleDone({})
  BY <1>1, <1>2, DoneInOrder
<1>3. ASSUME NEW pid \in Pids \ DOMAIN proc,
             proc' = [s \in DOMAIN proc \cup {pid} |->
                        IF s = Console THEN process("prompt", <<>>, <<>>)
                        ELSE IF s = pid THEN child(proc[Console].line)
                        ELSE proc[s]]
      PROVE  LinesInv'
  <2>1. \A s \in DOMAIN proc : s = Console
    BY <1>1, NoArgs DEF LinesInv, OneTaker
  <2>2. /\ DOMAIN proc' = {Console, pid} /\ pid # Console
        /\ proc'[Console] = process("prompt", <<>>, <<>>)
        /\ proc'[pid] = process("load", <<>>, proc[Console].line)
    BY <1>1, <1>3, <2>1, ForkEffect
  <2>3. /\ proc'[Console].doing = "prompt" /\ proc'[pid].doing = "load"
        /\ proc'[pid].args = <<>> /\ proc'[pid].line = proc[Console].line
    BY <2>2 DEF process
  <2>4. OneTaker'
    BY <2>2, <2>3 DEF OneTaker
  <2>5. /\ InOrder(Console) /\ proc[Console].args = <<>>
    <3>1. InOrder(Console)
      BY <1>1 DEF LinesInv
    <3> QED BY <1>1, <3>1, ArgsTaken
  <2>6. \A a, b : <<a>> # <<>> /\ <<a, b>> # <<>>
    OBVIOUS
  <2>7. /\ proc[Console].line \in Lines /\ proc[Console].line # <<>>
        /\ proc[Console].line[1][1] = "fork"
    BY <1>1, <2>5 DEF InOrder
  <2>8. rest = Tail(proc[Console].line)
    BY <2>5, <2>6, Zenon DEF InOrder
  <2>9. InOrder(pid)'
    BY <1>1, <2>3, <2>7, <2>8 DEF InOrder
  <2> QED BY <1>1, <2>2, <2>3, <2>4, <2>9, NoArgs DEF LinesInv
<1> QED BY <1>2, <1>3 DEF Fork

LEMMA ExecInOrder ==
  ASSUME TypeOK, LinesInv, NEW s \in DOMAIN proc, Exec(s), ~hasty
  PROVE  LinesInv'
<1>1. proc[s].doing = "load" /\ s # Console /\ "load" \in DOMAIN Tokens
  BY NoArgs DEF Exec, Ready, TypeOK
<1>2. \A r \in DOMAIN proc : r # Console => r = s
  BY <1>1 DEF LinesInv, OneTaker
<1>3. proc[Console].doing = "prompt"
  BY <1>1 DEF LinesInv, OneTaker
<1>4. DOMAIN proc' = {Console} /\ proc'[Console].doing = "prompt"
  BY <1>1, <1>2, <1>3 DEF Exec, TypeOK
<1> QED BY <1>4, NoArgs DEF LinesInv, OneTaker

----------------------------------------------------------------------------
(* The calls.  With its tokens in order, a process makes the call that its   *)
(* line asks for.                                                            *)

LEMMA LineOf ==
  ASSUME NEW s, InOrder(s)
  PROVE  /\ proc[s].line \in Seq(Words) /\ proc[s].line # <<>>
         /\ proc[s].line[1][1] = IF proc[s].doing = "load" THEN "fork" ELSE proc[s].doing
BY LineTypes DEF InOrder

(* One word, one text, two words, a word and a text. *)
LEMMA OneArgument ==
  ASSUME NEW s, InOrder(s), Len(proc[s].args) = 1
  PROVE  /\ Tokens[proc[s].doing] = <<SPACE>> => arg(s, 1) = Word(proc[s].line, 2)
         /\ Tokens[proc[s].doing] = <<NUL>> => arg(s, 1) = From(proc[s].line, 2)
<1>1. arg(s, 1) = token(Tokens[proc[s].doing][1], Tail(proc[s].line))
  BY ArgsTaken DEF arg
<1> QED BY <1>1, LineOf, Positions

LEMMA TwoArguments ==
  ASSUME NEW s, InOrder(s), Len(proc[s].args) = 2, Tokens[proc[s].doing][1] = SPACE
  PROVE  /\ arg(s, 1) = Word(proc[s].line, 2)
         /\ Tokens[proc[s].doing][2] = SPACE => arg(s, 2) = Word(proc[s].line, 3)
         /\ Tokens[proc[s].doing][2] = NUL => arg(s, 2) = From(proc[s].line, 3)
<1>1. /\ arg(s, 1) = token(SPACE, Tail(proc[s].line))
      /\ arg(s, 2) = token(Tokens[proc[s].doing][2], left(SPACE, Tail(proc[s].line)))
  BY ArgsTaken DEF arg
<1> QED BY <1>1, LineOf, Positions

LEMMA ExecAsAsked ==
  ASSUME TypeOK, LinesInv, DoesWhatLineAsks, NEW s \in DOMAIN proc, Exec(s)
  PROVE  DoesWhatLineAsks'
<1> SUFFICES ASSUME ~did'.hasty PROVE did'.call = Asked(did'.line)
  BY DEF DoesWhatLineAsks
<1>1. /\ proc[s].doing = "load" /\ Len(proc[s].args) = 2 /\ ~hasty
      /\ did'.call = <<"exec", load(arg(s, 1)), priority(arg(s, 2))>>
      /\ did'.line = proc[s].line
  BY TokensOf DEF Exec, Ready, Did
<1>2. InOrder(s)
  BY <1>1, TokensOf DEF LinesInv
<1>3. arg(s, 1) = Word(proc[s].line, 2) /\ arg(s, 2) = Word(proc[s].line, 3)
  BY <1>1, <1>2, TwoArguments, TokensOf
<1>4. proc[s].line[1][1] = "fork"
  BY <1>1, <1>2, LineOf
<1>5. Asked(proc[s].line)
        = <<"exec", load(Word(proc[s].line, 2)), priority(Word(proc[s].line, 3))>>
  BY <1>4 DEF Asked
<1> QED BY <1>1, <1>3, <1>5

LEMMA KillAsAsked ==
  ASSUME TypeOK, LinesInv, DoesWhatLineAsks, Kill
  PROVE  DoesWhatLineAsks'
<1> SUFFICES ASSUME ~did'.hasty PROVE did'.call = Asked(did'.line)
  BY DEF DoesWhatLineAsks
<1> DEFINE line == proc[Console].line
<1> DEFINE pid == IF arg(Console, 1) = <<"all">> THEN -1 ELSE atoi(arg(Console, 1))
<1>1. /\ proc[Console].doing = "kill" /\ Len(proc[Console].args) = 2 /\ ~hasty
      /\ did'.call = <<"kill", pid, atoi(arg(Console, 2))>>
      /\ did'.line = line /\ Console \in DOMAIN proc
  BY TokensOf DEF Kill, Ready, Did, TypeOK
<1>2. InOrder(Console)
  BY <1>1, TokensOf DEF LinesInv
<1>3. arg(Console, 1) = Word(line, 2) /\ arg(Console, 2) = Word(line, 3)
  BY <1>1, <1>2, TwoArguments, TokensOf
<1>4. line[1][1] = "kill"
  BY <1>1, <1>2, LineOf
<1>5. Asked(line)
        = <<"kill", IF Word(line, 2) = <<"all">> THEN -1 ELSE atoi(Word(line, 2)),
            atoi(Word(line, 3))>>
  BY <1>4 DEF Asked
<1> QED BY <1>1, <1>3, <1>5

LEMMA OpenAsAsked ==
  ASSUME TypeOK, LinesInv, DoesWhatLineAsks, Open
  PROVE  DoesWhatLineAsks'
<1> SUFFICES ASSUME ~did'.hasty PROVE did'.call = Asked(did'.line)
  BY DEF DoesWhatLineAsks
<1> DEFINE line == proc[Console].line
<1>1. /\ proc[Console].doing = "open" /\ Len(proc[Console].args) = 1 /\ ~hasty
      /\ did'.call = <<"open", arg(Console, 1)>>
      /\ did'.line = line /\ Console \in DOMAIN proc
  BY TokensOf DEF Open, Ready, Did, TypeOK
<1>2. InOrder(Console)
  BY <1>1, TokensOf DEF LinesInv
<1>3. arg(Console, 1) = From(line, 2)
  BY <1>1, <1>2, OneArgument, TokensOf
<1>4. line[1][1] = "open"
  BY <1>1, <1>2, LineOf
<1>5. Asked(line) = <<"open", From(line, 2)>>
  BY <1>4 DEF Asked
<1> QED BY <1>1, <1>3, <1>5

LEMMA FileCommandAsAsked ==
  ASSUME TypeOK, LinesInv, DoesWhatLineAsks, FileCommand
  PROVE  DoesWhatLineAsks'
<1> SUFFICES ASSUME ~did'.hasty PROVE did'.call = Asked(did'.line)
  BY DEF DoesWhatLineAsks
<1> DEFINE line == proc[Console].line
<1> DEFINE command == proc[Console].doing
<1>1. /\ Console \in DOMAIN proc /\ ~hasty /\ did'.line = line
      /\ command \in {"close", "write", "cat"} /\ Len(proc[Console].args) = Len(Tokens[command])
  BY DEF FileCommand, Ready, Did, TypeOK
<1>2. InOrder(Console)
  BY <1>1, TokensOf DEF LinesInv
<1>3. line[1][1] = command
  BY <1>1, <1>2, LineOf
<1>4. CASE command = "close"
  <2>1. did'.call = <<"close", atoi(arg(Console, 1))>> /\ Len(proc[Console].args) = 1
    BY <1>1, <1>4, TokensOf DEF FileCommand, Ready, Did
  <2>2. arg(Console, 1) = From(line, 2)
    BY <1>2, <1>4, <2>1, OneArgument, TokensOf
  <2>3. Asked(line) = <<"close", atoi(From(line, 2))>>
    BY <1>3, <1>4 DEF Asked
  <2> QED BY <1>1, <2>1, <2>2, <2>3
<1>5. CASE command = "write"
  <2>1. /\ did'.call = <<"write", atoi(arg(Console, 1)), arg(Console, 2)>>
        /\ Len(proc[Console].args) = 2
    BY <1>1, <1>5, TokensOf DEF FileCommand, Ready, Did
  <2>2. arg(Console, 1) = Word(line, 2) /\ arg(Console, 2) = From(line, 3)
    BY <1>2, <1>5, <2>1, TwoArguments, TokensOf
  <2>3. Asked(line) = <<"write", atoi(Word(line, 2)), From(line, 3)>>
    BY <1>3, <1>5 DEF Asked
  <2> QED BY <1>1, <2>1, <2>2, <2>3
<1>6. CASE command = "cat"
  <2>1. did'.call = <<"cat", arg(Console, 1)>> /\ Len(proc[Console].args) = 1
    BY <1>1, <1>6, TokensOf DEF FileCommand, Ready, Did
  <2>2. arg(Console, 1) = Word(line, 2)
    BY <1>2, <1>6, <2>1, OneArgument, TokensOf
  <2>3. Asked(line) = <<"cat", Word(line, 2)>>
    BY <1>3, <1>6 DEF Asked
  <2> QED BY <1>1, <2>1, <2>2, <2>3
<1> QED BY <1>1, <1>4, <1>5, <1>6

----------------------------------------------------------------------------

IInv == LinesInv /\ DoesWhatLineAsks

LEMMA IInvStep == TypeOK /\ IInv /\ [Next]_vars => IInv'
<1> SUFFICES ASSUME TypeOK, LinesInv, DoesWhatLineAsks, [Next]_vars
             PROVE  LinesInv' /\ DoesWhatLineAsks'
  BY DEF IInv
<1>1. CASE \E l \in Lines : ReadLine(l)
  BY <1>1, ReadLineInOrder
<1>2. CASE FirstToken
  <2>1. hasty' = hasty /\ did' = did
    BY <1>2, FirstTokenEffect
  <2> QED BY <1>2, <2>1, FirstTokenInOrder DEF LinesInv, DoesWhatLineAsks
<1>3. ASSUME NEW s \in DOMAIN proc, NextToken(s) PROVE LinesInv' /\ DoesWhatLineAsks'
  <2>1. hasty' = hasty /\ did' = did
    BY <1>3, NextTokenEffect
  <2> QED BY <1>3, <2>1, NextTokenInOrder DEF LinesInv, DoesWhatLineAsks
<1>4. ASSUME NEW s \in DOMAIN proc, Exec(s) PROVE LinesInv' /\ DoesWhatLineAsks'
  <2>1. hasty' = hasty
    BY <1>4 DEF Exec
  <2> QED BY <1>4, <2>1, ExecInOrder, ExecAsAsked DEF LinesInv
<1>5. CASE Fork
  <2>1. hasty' = hasty /\ did' = did
    BY <1>5 DEF Fork
  <2> QED BY <1>5, <2>1, ForkInOrder DEF LinesInv, DoesWhatLineAsks
<1>6. ASSUME NEW gone, Console \notin gone, ConsoleDone(gone), UNCHANGED <<x, rest, hasty>>,
             proc[Console].doing \in DOMAIN Tokens
      PROVE  LinesInv'
  BY <1>6, DoneInOrder DEF LinesInv
<1>7. CASE Kill
  <2>1. LinesInv'
    BY <1>6, <1>7, TokensOf DEF Kill, Ready
  <2> QED BY <1>7, <2>1, KillAsAsked
<1>8. CASE Open
  <2>1. LinesInv'
    BY <1>6, <1>8, TokensOf DEF Open, Ready
  <2> QED BY <1>8, <2>1, OpenAsAsked
<1>9. CASE FileCommand
  <2>1. LinesInv'
    BY <1>6, <1>9, TokensOf DEF FileCommand, Ready
  <2> QED BY <1>9, <2>1, FileCommandAsAsked
<1>10. CASE UNCHANGED vars
  BY <1>10 DEF vars, LinesInv, OneTaker, InOrder, DoesWhatLineAsks
<1> QED BY <1>1, <1>2, <1>3, <1>4, <1>5, <1>7, <1>8, <1>9, <1>10 DEF Next

(* Every line, complete or not, leads to the call it asks for, with its own   *)
(* arguments and defaults, as long as the user types nothing between a fork  *)
(* and the start of the program; in particular those of the table do.        *)
THEOREM LinesDoWhatTheyAsk == Spec => [](DoesWhatLineAsks /\ DoesWhatWasTyped)
<1>1. Init => IInv
  BY NoArgs DEF Init, IInv, LinesInv, OneTaker, DoesWhatLineAsks, NothingDone, process
<1>2. IInv => DoesWhatLineAsks /\ DoesWhatWasTyped
  BY ExpectedAssumption DEF IInv, DoesWhatLineAsks, DoesWhatWasTyped
<1> QED BY <1>1, <1>2, IInvStep, ConsoleTypeCorrect, PTL DEF Spec

----------------------------------------------------------------------------
(* What open shows: itoa and atoi undo each other on numbers of up to nine   *)
(* digits, the first of which is not 0.                                      *)

ReadUpTo(word, read, n) ==
  IF n = 0 THEN 0 ELSE read[n - 1] * 10 + value(digits(word)[n])

LEMMA ReadDefined ==
  ASSUME NEW word, NEW N \in Nat
  PROVE  \E f : f = [n \in 0 .. N |-> ReadUpTo(word, f, n)]
<1> DEFINE Good(m) == \E f : /\ f = [n \in 0 .. N |-> f[n]]
                             /\ \A n \in 0 .. N : n <= m => f[n] = ReadUpTo(word, f, n)
<1> DEFINE T == {m \in Nat : Good(m)}
<1>1. 0 \in T
  <2> DEFINE f == [n \in 0 .. N |-> 0]
  <2>1. f = [n \in 0 .. N |-> f[n]] /\ \A n \in 0 .. N : f[n] = 0
    OBVIOUS
  <2>2. \A n \in 0 .. N : n <= 0 => ReadUpTo(word, f, n) = 0
    BY DEF ReadUpTo
  <2> HIDE DEF f
  <2> QED BY <2>1, <2>2
<1>2. ASSUME NEW m \in Nat, m \in T PROVE m + 1 \in T
  <2>1. PICK f : /\ f = [n \in 0 .. N |-> f[n]]
                 /\ \A n \in 0 .. N : n <= m => f[n] = ReadUpTo(word, f, n)
    BY <1>2
  <2> DEFINE g == [n \in 0 .. N |-> IF n = m + 1 THEN ReadUpTo(word, f, n) ELSE f[n]]
  <2>2. \A n \in 0 .. N : g[n] = IF n = m + 1 THEN ReadUpTo(word, f, n) ELSE f[n]
    OBVIOUS
  <2>3. g = [n \in 0 .. N |-> g[n]]
    OBVIOUS
  <2> HIDE DEF g
  <2>4. ASSUME NEW n \in 0 .. N, n <= m + 1 PROVE ReadUpTo(word, g, n) = ReadUpTo(word, f, n)
    <3>1. n # 0 => n - 1 \in 0 .. N /\ n - 1 # m + 1
      BY <2>4
    <3>2. n # 0 => g[n - 1] = f[n - 1]
      BY <2>2, <3>1
    <3> QED BY <3>2 DEF ReadUpTo
  <2>5. \A n \in 0 .. N : n <= m + 1 => n = m + 1 \/ n <= m
    OBVIOUS
  <2>6. \A n \in 0 .. N : n <= m + 1 => g[n] = ReadUpTo(word, g, n)
    BY <2>1, <2>2, <2>4, <2>5
  <2> QED BY <2>3, <2>6
<1>3. N \in T
  <2> HIDE DEF T
  <2> QED BY <1>1, <1>2, Induction
<1>4. PICK f : /\ f = [n \in 0 .. N |-> f[n]]
               /\ \A n \in 0 .. N : n <= N => f[n] = ReadUpTo(word, f, n)
  BY <1>3
<1>5. \A n \in 0 .. N : f[n] = ReadUpTo(word, f, n)
  BY <1>4
<1> QED BY <1>4, <1>5

(* What the loop of atoi has read after each character. *)
LEMMA AtoiReads ==
  ASSUME NEW word, word # NULL, Len(digits(word)) \in Nat
  PROVE  \E read :
           /\ \A n \in 0 .. Len(digits(word)) : read[n] = ReadUpTo(word, read, n)
           /\ atoi(word) = IF word[1] = "-" THEN -read[Len(digits(word))]
                                            ELSE read[Len(digits(word))]
<1> DEFINE N == Len(digits(word))
           f == CHOOSE g : g = [n \in 0 .. N |-> ReadUpTo(word, g, n)]
<1>1. atoi(word) = IF word[1] = "-" THEN -f[N] ELSE f[N]
  BY DEF atoi, ReadUpTo
<1> HIDE DEF N
<1>2. f = [n \in 0 .. N |-> ReadUpTo(word, f, n)]
  BY ReadDefined DEF N
<1> HIDE DEF f
<1>3. \A n \in 0 .. N : f[n] = ReadUpTo(word, f, n)
  BY <1>2
<1> QED BY <1>1, <1>3 DEF N

(* The powers of ten. *)
LEMMA Tens ==
  /\ tens[0] = 1 /\ tens[1] = 10 /\ tens[2] = 100 /\ tens[3] = 1000 /\ tens[4] = 10000
  /\ tens[5] = 100000 /\ tens[6] = 1000000 /\ tens[7] = 10000000
  /\ tens[8] = 100000000 /\ tens[9] = 1000000000
<1> DEFINE f == [k \in 0 .. 9 |->
                   CASE k = 0 -> 1 [] k = 1 -> 10 [] k = 2 -> 100 [] k = 3 -> 1000
                     [] k = 4 -> 10000 [] k = 5 -> 100000 [] k = 6 -> 1000000
                     [] k = 7 -> 10000000 [] k = 8 -> 100000000 [] k = 9 -> 1000000000]
<1>1. \E g : g = [k \in 0 .. 9 |-> IF k = 0 THEN 1 ELSE g[k - 1] * 10]
  <2>1. \A k \in 0 .. 9 : f[k] = IF k = 0 THEN 1 ELSE f[k - 1] * 10
    OBVIOUS
  <2>2. f = [k \in 0 .. 9 |-> f[k]]
    OBVIOUS
  <2> HIDE DEF f
  <2>3. f = [k \in 0 .. 9 |-> IF k = 0 THEN 1 ELSE f[k - 1] * 10]
    BY <2>1, <2>2
  <2> QED BY <2>3
<1>2. tens = [k \in 0 .. 9 |-> IF k = 0 THEN 1 ELSE tens[k - 1] * 10]
  BY <1>1 DEF tens
<1>3. \A k \in 0 .. 9 : tens[k] = IF k = 0 THEN 1 ELSE tens[k - 1] * 10
  BY <1>2
<1>4. tens[0] = 1 /\ \A k \in 1 .. 9 : tens[k] = tens[k - 1] * 10
  BY <1>3
<1> QED BY <1>4

(* Dividing by the next power of ten is dividing by ten once more. *)
LEMMA NextTens == \A t \in Nat, k \in 0 .. 8 :
  /\ t \div tens[k] \in Nat
  /\ t \div tens[k + 1] = (t \div tens[k]) \div 10
<1> SUFFICES ASSUME NEW t \in Nat, NEW k \in 0 .. 8
             PROVE  t \div tens[k] \in Nat /\ t \div tens[k + 1] = (t \div tens[k]) \div 10
  OBVIOUS
<1>0. CASE k = 0
  BY <1>0, Tens
<1>1. CASE k = 1
  BY <1>1, Tens
<1>2. CASE k = 2
  BY <1>2, Tens
<1>3. CASE k = 3
  BY <1>3, Tens
<1>4. CASE k = 4
  BY <1>4, Tens
<1>5. CASE k = 5
  BY <1>5, Tens
<1>6. CASE k = 6
  BY <1>6, Tens
<1>7. CASE k = 7
  BY <1>7, Tens
<1>8. CASE k = 8
  BY <1>8, Tens
<1> QED BY <1>0, <1>1, <1>2, <1>3, <1>4, <1>5, <1>6, <1>7, <1>8

(* A number is its last digit and ten times what is before it. *)
LEMMA LastDigit == \A q \in Nat : (q \div 10) * 10 + (q % 10) = q
OBVIOUS

(* How many digits a number has. *)
LEMMA WidthFacts ==
  ASSUME NEW t \in Nat, 0 < t, t < tens[9]
  PROVE  /\ width(t) \in 1 .. 9
         /\ t \div tens[width(t)] = 0
         /\ t < 10 => width(t) = 1
<1> DEFINE Fits(k) == tens[k] > t /\ \A j \in 0 .. k - 1 : tens[j] <= t
<1>1. \E k \in 0 .. 9 : Fits(k)
  <2>1. CASE 1 <= t /\ t < 10
    <3>1. Fits(1)
      BY <2>1, Tens
    <3> QED BY <3>1
  <2>2. CASE 10 <= t /\ t < 100
    <3>1. Fits(2)
      BY <2>2, Tens
    <3> QED BY <3>1
  <2>3. CASE 100 <= t /\ t < 1000
    <3>1. Fits(3)
      BY <2>3, Tens
    <3> QED BY <3>1
  <2>4. CASE 1000 <= t /\ t < 10000
    <3>1. Fits(4)
      BY <2>4, Tens
    <3> QED BY <3>1
  <2>5. CASE 10000 <= t /\ t < 100000
    <3>1. Fits(5)
      BY <2>5, Tens
    <3> QED BY <3>1
  <2>6. CASE 100000 <= t /\ t < 1000000
    <3>1. Fits(6)
      BY <2>6, Tens
    <3> QED BY <3>1
  <2>7. CASE 1000000 <= t /\ t < 10000000
    <3>1. Fits(7)
      BY <2>7, Tens
    <3> QED BY <3>1
  <2>8. CASE 10000000 <= t /\ t < 100000000
    <3>1. Fits(8)
      BY <2>8, Tens
    <3> QED BY <3>1
  <2>9. CASE 100000000 <= t /\ t < 1000000000
    <3>1. Fits(9)
      BY <2>9, Tens
    <3> QED BY <3>1
  <2>10. 1 <= t /\ t < 1000000000
    BY Tens
  <2> QED BY <2>1, <2>2, <2>3, <2>4, <2>5, <2>6, <2>7, <2>8, <2>9, <2>10
<1>2. width(t) \in 0 .. 9 /\ Fits(width(t))
  BY <1>1 DEF width
<1> DEFINE w == width(t)
<1> HIDE DEF w
<1>3. w \in 0 .. 9 /\ tens[w] > t /\ \A j \in 0 .. w - 1 : tens[j] <= t
  BY <1>2 DEF w
<1>4. w # 0
  BY <1>3, Tens
<1>5. tens[w] \in Nat /\ tens[w] > t
  BY <1>3, Tens
<1>6. \A n \in Nat : t < n => t \div n = 0
  BY SMTT(30)
<1>7. t < 10 => w = 1
  <2>1. w # 1 => 1 \in 0 .. w - 1
    BY <1>3, <1>4
  <2> QED BY <1>3, <2>1, Tens
<1>8. w \in 1 .. 9 /\ t \div tens[w] = 0
  BY <1>3, <1>4, <1>5, <1>6
<1> QED BY <1>7, <1>8 DEF w

(* Each digit stands for its number, and is neither a sign nor the end. *)
LEMMA DigitFacts ==
  \A d \in 0 .. 9 : /\ value(Digit[d + 1]) = d
                    /\ Digit[d + 1] \notin {"-", "+", NUL}
<1>1. \A i, j \in 1 .. 10 : Digit[i] = Digit[j] => i = j
  BY DEF Digit
<1>2. Range(Digit) = {Digit[i] : i \in 1 .. 10}
  BY DEF Digit, Range
<1> SUFFICES ASSUME NEW d \in 0 .. 9
             PROVE  value(Digit[d + 1]) = d /\ Digit[d + 1] \notin {"-", "+", NUL}
  OBVIOUS
<1>3. d + 1 \in 1 .. 10
  OBVIOUS
<1>4. Digit[d + 1] \in Range(Digit)
  BY <1>2, <1>3
<1>5. (CHOOSE e \in 1 .. 10 : Digit[e] = Digit[d + 1]) = d + 1
  BY <1>1, <1>3
<1>6. value(Digit[d + 1]) = d
  <2>1. value(Digit[d + 1]) = (CHOOSE e \in 1 .. 10 : Digit[e] = Digit[d + 1]) - 1
    BY <1>4, Zenon DEF value
  <2>2. value(Digit[d + 1]) = (d + 1) - 1
    BY <1>5, <2>1, Zenon
  <2> QED BY <2>2
<1>7. Digit[d + 1] \notin {"-", "+", NUL}
  BY <1>3 DEF Digit, NUL
<1> QED BY <1>6, <1>7

Magnitude(n) == IF n < 0 THEN -n ELSE n
Sign(n) == IF n < 0 THEN 1 ELSE 0

(* What itoa leaves in memory for print to find. *)
LEMMA Shown ==
  ASSUME NEW n \in Int, n # 0, -tens[9] < n, n < tens[9],
         NEW t, t = Magnitude(n), NEW w, w = width(t), NEW sign, sign = Sign(n)
  PROVE  /\ w \in 1 .. 9 /\ t \in Nat /\ 0 < t /\ t < tens[9]
         /\ printed(itoa(n)) =
              [i \in 1 .. w + sign |->
                 IF i <= sign THEN "-" ELSE Digit[((t \div tens[w + sign - i]) % 10) + 1]]
<1> DEFINE len == w + sign
           memory == [i \in 0 .. len |->
                        IF i = len THEN NUL
                        ELSE IF i < sign THEN "-"
                        ELSE Digit[((t \div tens[len - 1 - i]) % 10) + 1]]
<1>1. t \in Nat /\ 0 < t /\ t < tens[9] /\ sign \in 0 .. 1
  <2>1. tens[9] \in Nat
    BY Tens
  <2> QED BY <2>1 DEF Magnitude, Sign
<1>2. w \in 1 .. 9 /\ (t < 10 => w = 1)
  BY <1>1, WidthFacts
<1>3. itoa(n) = memory
  <2>1. len - (IF t < 10 THEN 1 ELSE w) = sign /\ sign - sign = 0
    BY <1>1, <1>2
  <2> QED BY <2>1 DEF itoa, Magnitude, Sign
<1>4. len \in Nat /\ len > 0
  BY <1>1, <1>2
<1>5. \A i \in 0 .. len - 1 : memory[i] # NUL
  <2> SUFFICES ASSUME NEW i \in 0 .. len - 1 PROVE memory[i] # NUL
    OBVIOUS
  <2>1. CASE i < sign
    BY <1>1, <1>2, <2>1 DEF NUL
  <2>2. CASE ~(i < sign)
    <3>1. len - 1 - i \in 0 .. 8
      BY <1>1, <1>2, <2>2
    <3>2. t \div tens[len - 1 - i] \in Nat
      BY <1>1, <3>1, NextTens
    <3>3. (t \div tens[len - 1 - i]) % 10 \in 0 .. 9
      BY <3>2
    <3>4. memory[i] = Digit[((t \div tens[len - 1 - i]) % 10) + 1]
      BY <1>1, <1>2, <2>2
    <3> QED BY <3>3, <3>4, DigitFacts
  <2> QED BY <2>1, <2>2
<1>6. memory[len] = NUL /\ DOMAIN memory = 0 .. len
  BY <1>4
<1> DEFINE end == CHOOSE i \in DOMAIN memory : i >= 0 /\ memory[i] = NUL
<1>7. end = len
  <2> HIDE DEF memory, len
  <2>1. \A i \in 0 .. len : memory[i] = NUL => i = len
    BY <1>4, <1>5
  <2> QED BY <1>4, <1>6, <2>1
<1>8. printed(itoa(n)) = [i \in 1 .. end |-> memory[i - 1]]
  BY <1>3 DEF printed
<1>9. \A i \in 1 .. len :
        memory[i - 1] = IF i <= sign THEN "-" ELSE Digit[((t \div tens[len - i]) % 10) + 1]
  <2> SUFFICES ASSUME NEW i \in 1 .. len
               PROVE  memory[i - 1] = IF i <= sign THEN "-"
                                      ELSE Digit[((t \div tens[len - i]) % 10) + 1]
    OBVIOUS
  <2>1. i - 1 \in 0 .. len /\ i - 1 # len /\ len - 1 - (i - 1) = len - i
    BY <1>4
  <2>2. i - 1 < sign <=> i <= sign
    BY <1>1, <1>4
  <2> QED BY <2>1, <2>2
<1> HIDE DEF memory, end
<1>10. printed(itoa(n)) = [i \in 1 .. len |-> memory[i - 1]]
  BY <1>7, <1>8
<1> QED BY <1>1, <1>2, <1>9, <1>10

(* itoa and atoi are inverse to each other. *)
LEMMA ReadsBack ==
  ASSUME NEW n \in Int, n # 0, -tens[9] < n, n < tens[9]
  PROVE  atoi(printed(itoa(n))) = n
<1> DEFINE t == Magnitude(n)
           w == width(t)
           sign == Sign(n)
           shown == printed(itoa(n))
           dig(i) == Digit[((t \div tens[w - i]) % 10) + 1]
<1>1. /\ w \in 1 .. 9 /\ t \in Nat /\ 0 < t /\ t < tens[9] /\ sign \in 0 .. 1
      /\ n < 0 <=> sign = 1
      /\ n = IF n < 0 THEN -t ELSE t
  BY Shown DEF Sign, Magnitude
<1>2. shown = [i \in 1 .. w + sign |->
                 IF i <= sign THEN "-" ELSE Digit[((t \div tens[w + sign - i]) % 10) + 1]]
  BY Shown
<1>3. t \div tens[w] = 0
  BY <1>1, WidthFacts
<1> HIDE DEF t, w, sign, shown
<1>4. \A i \in 1 .. w : /\ (t \div tens[w - i]) \in Nat
                        /\ (t \div tens[w - i]) % 10 \in 0 .. 9
  <2> SUFFICES ASSUME NEW i \in 1 .. w PROVE (t \div tens[w - i]) \in Nat
    OBVIOUS
  <2>1. w - i \in 0 .. 8
    BY <1>1
  <2> QED BY <1>1, <2>1, NextTens
<1>5. \A i \in 1 .. w : value(dig(i)) = (t \div tens[w - i]) % 10 /\ dig(i) \notin {"-", "+"}
  BY <1>4, DigitFacts
<1>6. /\ digits(shown) = [i \in 1 .. w |-> dig(i)]
      /\ shown[1] = "-" <=> n < 0
      /\ shown # NULL
  <2>1. CASE sign = 0
    <3>1. shown = [i \in 1 .. w |-> dig(i)]
      BY <1>1, <1>2, <2>1
    <3>2. shown[1] = dig(1) /\ shown[1] \notin {"-", "+"}
      BY <1>1, <1>5, <3>1
    <3>3. shown # <<>>
      <4>1. 1 \in DOMAIN shown /\ DOMAIN <<>> = {}
        BY <1>1, <3>1
      <4> QED BY <4>1
    <3> QED BY <1>1, <2>1, <3>1, <3>2, <3>3 DEF digits, NULL
  <2>2. CASE sign = 1
    <3>1. DOMAIN shown = 1 .. w + 1 /\ shown[1] = "-"
      BY <1>1, <1>2, <2>2
    <3>2. \A i \in 1 .. w : shown[i + 1] = dig(i)
      <4> SUFFICES ASSUME NEW i \in 1 .. w PROVE shown[i + 1] = dig(i)
        OBVIOUS
      <4>1. i + 1 \in 1 .. w + sign /\ ~(i + 1 <= sign) /\ w + sign - (i + 1) = w - i
        BY <1>1, <2>2
      <4> QED BY <1>2, <4>1
    <3>3. shown \in Seq(Range(shown)) /\ Len(shown) = w + 1
      <4>1. shown = [i \in 1 .. w + 1 |-> shown[i]] /\ w + 1 \in Nat
        BY <1>1, <1>2, <2>2
      <4>2. \A i \in 1 .. w + 1 : shown[i] \in Range(shown)
        BY <3>1 DEF Range
      <4> QED BY <4>1, <4>2
    <3>4. /\ Tail(shown) \in Seq(Range(shown)) /\ Len(Tail(shown)) = w
          /\ \A i \in 1 .. w : Tail(shown)[i] = shown[i + 1]
      BY <1>1, <3>3
    <3>5. Tail(shown) = [i \in 1 .. w |-> dig(i)]
      <4>1. \A S : \A q \in Seq(S) : q = [i \in 1 .. Len(q) |-> q[i]]
        OBVIOUS
      <4>2. Tail(shown) = [i \in 1 .. w |-> Tail(shown)[i]]
        BY <3>4, <4>1
      <4>3. \A i \in 1 .. w : Tail(shown)[i] = dig(i)
        BY <3>2, <3>4
      <4> HIDE DEF dig
      <4> QED BY <4>2, <4>3
    <3>6. shown # <<>>
      <4>1. 1 \in DOMAIN shown /\ DOMAIN <<>> = {}
        BY <1>1, <3>1
      <4> QED BY <4>1
    <3> QED BY <1>1, <2>2, <3>1, <3>5, <3>6 DEF digits, NULL
  <2> QED BY <1>1, <2>1, <2>2
<1> HIDE DEF dig
<1>7. Len(digits(shown)) = w /\ \A i \in 1 .. w : digits(shown)[i] = dig(i)
  BY <1>1, <1>6
<1>8. PICK read : /\ \A k \in 0 .. w : read[k] = ReadUpTo(shown, read, k)
                  /\ atoi(shown) = IF shown[1] = "-" THEN -read[w] ELSE read[w]
  BY <1>1, <1>6, <1>7, AtoiReads
<1> DEFINE T == {k \in Nat : k <= w => read[k] = t \div tens[w - k]}
<1>9. 0 \in T
  BY <1>1, <1>3, <1>8 DEF ReadUpTo
<1>10. ASSUME NEW k \in Nat, k \in T PROVE k + 1 \in T
  <2> SUFFICES ASSUME k + 1 <= w PROVE read[k + 1] = t \div tens[w - (k + 1)]
    OBVIOUS
  <2>1. /\ k + 1 \in 0 .. w /\ k + 1 \in 1 .. w /\ k + 1 # 0 /\ (k + 1) - 1 = k
        /\ w - (k + 1) \in 0 .. 8 /\ w - (k + 1) + 1 = w - k
    BY <1>1
  <2>2. read[k] = t \div tens[w - k]
    BY <1>1, <1>10
  <2>3. read[k + 1] = read[k] * 10 + value(digits(shown)[k + 1])
    BY <1>8, <2>1 DEF ReadUpTo
  <2>4. value(digits(shown)[k + 1]) = (t \div tens[w - (k + 1)]) % 10
    BY <1>5, <1>7, <2>1
  <2>5. read[k] = (t \div tens[w - (k + 1)]) \div 10
    BY <1>1, <2>1, <2>2, NextTens
  <2> QED BY <1>4, <2>1, <2>3, <2>4, <2>5, LastDigit
<1>11. w \in T
  <2> HIDE DEF T
  <2>1. \A k \in Nat : k \in T
    BY <1>9, <1>10, Induction
  <2> QED BY <1>1, <2>1
<1>12. read[w] = t
  <2>1. w - w = 0 /\ tens[0] = 1
    BY <1>1, Tens
  <2> QED BY <1>1, <1>11, <2>1
<1>13. atoi(shown) = n
  BY <1>1, <1>6, <1>8, <1>12
<1> QED BY <1>13 DEF shown

(* What open prints is what it returned. *)
ShownInv ==
  \/ opened = NothingOpened
  \/ opened.fd \in Descriptors /\ opened.shown = printed(itoa(opened.fd))

(* The descriptor open prints names the file when it is typed again (atoi     *)
(* and itoa, libc.c:4 and 23), for descriptors of up to nine digits but 0.    *)
THEOREM ShownAlwaysReadsBack == Spec => []ShownReadsBack
<1>1. Init => ShownInv
  <2>1. Init => opened = NothingOpened
    BY DEF Init
  <2> QED BY <2>1 DEF ShownInv
<1>2. ShownInv /\ [Next]_vars => ShownInv'
  <2> SUFFICES ASSUME ShownInv, [Next]_vars PROVE ShownInv'
    OBVIOUS
  <2>1. CASE Open
    BY <2>1 DEF Open, ShownInv
  <2>2. CASE opened' = NothingOpened
    BY <2>2 DEF ShownInv
  <2>3. CASE opened' = opened
    BY <2>3 DEF ShownInv
  <2> QED
    BY <2>1, <2>2, <2>3
    DEF Next, ReadLine, FirstToken, NextToken, Exec, Fork, Kill, FileCommand, vars
<1>3. ShownInv => ShownReadsBack
  <2>1. NothingOpened.fd = 0
    BY DEF NothingOpened
  <2>2. \A d \in Descriptors : d # 0 => atoi(printed(itoa(d))) = d
    BY ReadsBack, ConsoleAssumption, DescriptorAssumption
  <2> QED BY <2>1, <2>2, Zenon DEF ShownInv, ShownReadsBack
<1> QED BY <1>1, <1>2, <1>3, PTL DEF Spec

=============================================================================
