------------------------------ MODULE Console ------------------------------
(* The shell of user/console.c and the conversions of user/libc.c it uses.   *)
(*                                                                           *)
(* A line is split by strtok, whose position is one for all processes.  A    *)
(* child that fork made reads its arguments after fork returned, from the    *)
(* line of its parent, who by then may be reading the next one.  Processes   *)
(* are preempted between any two steps; gets and strtok are one step each.   *)
(* The kernel's side of the calls is external.                               *)
EXTENDS Integers, SequencesExt

CONSTANTS
  Lines,        \* lines the user types: sequences of words, words of characters
  Expected,     \* the lines that are complete -> the calls they ask for
  Pids,         \* pids of the console's children
  Descriptors,  \* what open may return
  AT_NULL,      \* what atoi makes of the bytes at address 0
  LETTER        \* what atoi makes of a character that is no digit

Console == 0

ASSUME ConsoleAssumption ==
  /\ Console \notin Pids /\ -1 \notin Pids
  /\ Descriptors \subseteq Int /\ AT_NULL \in Int /\ LETTER \in Int
  /\ DOMAIN Expected \subseteq Lines

ASSUME LinesAssumption ==
  \A l \in Lines :
    /\ l \in Seq(Range(l))
    /\ \A word \in Range(l) : word \in Seq(Range(word)) /\ word # <<>>

VARIABLES
  x,        \* the line gets has read last
  rest,     \* what strtok has left of it
  proc,     \* the console, and its children between fork and exec
  opened,   \* what open returned, and what the console printed of it
  hasty,    \* history: the last line was typed while a child had not yet
            \* loaded its program
  did       \* history: the last call since then, the line it was made for, and
            \* hasty at the time

vars == <<x, rest, proc, opened, hasty, did>>

NULL == <<>>        \* no token: words have a character at least

----------------------------------------------------------------------------
(* libc.c *)

Digit == <<"0", "1", "2", "3", "4", "5", "6", "7", "8", "9">>
NUL == "\\0"
SPACE == " "

value(c) ==
  IF c \in Range(Digit) THEN (CHOOSE d \in 1 .. 10 : Digit[d] = c) - 1 ELSE LETTER

digits(word) == IF word[1] \in {"-", "+"} THEN Tail(word) ELSE word

atoi(word) ==
  LET read[n \in 0 .. Len(digits(word))] ==
        IF n = 0 THEN 0 ELSE read[n - 1] * 10 + value(digits(word)[n])
  IN  IF word = NULL THEN AT_NULL
      ELSE IF word[1] = "-" THEN -read[Len(digits(word))] ELSE read[Len(digits(word))]

\* the n of itoa after k rounds of its loop
tens[k \in 0 .. 9] == IF k = 0 THEN 1 ELSE tens[k - 1] * 10

\* a descriptor is the address of a block, and small numbers stand for failures
ASSUME DescriptorAssumption == \A d \in Descriptors : -tens[9] < d /\ d < tens[9]

\* Wrong on purpose: the loop of itoa ends one power of ten too early.
width_strict(t) == CHOOSE k \in 0 .. 9 : tens[k] >= t /\ \A j \in 0 .. k - 1 : tens[j] < t

\* how far the loop `while( t >= n )` moves p: not at all for 0
width(t) == CHOOSE k \in 0 .. 9 : tens[k] > t /\ \A j \in 0 .. k - 1 : tens[j] <= t

\* the characters itoa writes, by their offset from r: the digits go backwards
\* from the final zero, one of them in any case
itoa(n) ==
  LET t == IF n < 0 THEN -n ELSE n
      sign == IF n < 0 THEN 1 ELSE 0
      end == width(t) + sign
      first == end - (IF t < 10 THEN 1 ELSE width(t))
  IN  [i \in first - sign .. end |->
         IF i = end THEN NUL
         ELSE IF i < first THEN "-"
         ELSE Digit[((t \div tens[end - 1 - i]) % 10) + 1]]

\* print( r, strlen( r ) )
printed(memory) ==
  LET end == CHOOSE i \in DOMAIN memory : i >= 0 /\ memory[i] = NUL
  IN  [i \in 1 .. end |-> memory[i - 1]]

----------------------------------------------------------------------------
(* console.c *)

Letters == UNION {UNION {Range(word) : word \in Range(l)} : l \in Lines}
Words == UNION {Range(l) : l \in Lines}

Programs == {"P3", "P4", "P5", "P6", "P8"}

\* the address of the program's main, or NULL
load(word) == IF word # NULL /\ word[1] \in Programs THEN word[1] ELSE "NULL"

\* the tokens each command asks strtok for, up to a space or the end of the line
Tokens ==
  [fork  |-> <<>>,
   load  |-> <<SPACE, SPACE>>,
   kill  |-> <<SPACE, SPACE>>,
   open  |-> <<NUL>>,
   close |-> <<NUL>>,
   write |-> <<SPACE, NUL>>,
   cat   |-> <<SPACE>>]

Commands == DOMAIN Tokens \ {"load"}

Process == [doing : DOMAIN Tokens \cup {"prompt", "first"},
            args : Seq(Seq(Letters \cup {SPACE})), line : Lines \cup {<<>>}]
process(doing, args, line) == [doing |-> doing, args |-> args, line |-> line]

NothingOpened == [fd |-> 0, shown |-> <<"0">>]
NothingDone == [call |-> <<"none">>, line |-> <<>>, hasty |-> TRUE]

TypeOK ==
  /\ x \in Lines \cup {<<>>}
  /\ rest \in Seq(Words)
  /\ Console \in DOMAIN proc /\ DOMAIN proc \subseteq Pids \cup {Console}
  /\ \A s \in DOMAIN proc :
       /\ proc[s] \in Process
       /\ s # Console <=> proc[s].doing = "load"
       /\ proc[s].doing \in DOMAIN Tokens => Len(proc[s].args) <= Len(Tokens[proc[s].doing])
  /\ opened.fd \in Descriptors \cup {0}
  /\ hasty \in BOOLEAN

Init ==
  /\ x = <<>> /\ rest = <<>>
  /\ proc = [s \in {Console} |-> process("prompt", <<>>, <<>>)]
  /\ opened = NothingOpened
  /\ hasty = FALSE
  /\ did = NothingDone

Becomes(s, doing, args) == proc' = [proc EXCEPT ![s].doing = doing, ![s].args = args]

\* gets: a position strtok still holds may lie in the new line, or behind it
ReadLine(l) ==
  /\ proc[Console].doing = "prompt"
  /\ x' = l
  /\ rest' \in IF rest = <<>> THEN {<<>>} ELSE Suffixes(l) \cup {rest}
  /\ proc' = [proc EXCEPT ![Console] = process("first", <<>>, l)]
  /\ hasty' = (DOMAIN proc # {Console})
  /\ opened' = NothingOpened /\ did' = NothingDone

\* p = strtok( x, " " ), and the branch for p
FirstToken ==
  /\ proc[Console].doing = "first"
  /\ rest' = IF x = <<>> THEN <<>> ELSE Tail(x)
  /\ IF x # <<>> /\ x[1][1] \in Commands
     THEN Becomes(Console, x[1][1], <<>>)
     ELSE Becomes(Console, "prompt", <<>>)
  /\ UNCHANGED <<x, opened, did, hasty>>

\* what the words look like in the line
text(words) ==
  LET upto[n \in 1 .. Len(words)] ==
        IF n = 1 THEN words[1] ELSE upto[n - 1] \o <<SPACE>> \o words[n]
  IN  upto[Len(words)]

\* strtok( NULL, delimiters )
NextToken(s) ==
  LET command == proc[s].doing
      args == proc[s].args
      token == IF rest = <<>> THEN NULL
               ELSE IF Tokens[command][Len(args) + 1] = SPACE THEN Head(rest)
               ELSE text(rest)
  IN  /\ command \in DOMAIN Tokens /\ Len(args) < Len(Tokens[command])
      /\ Becomes(s, command, Append(args, token))
      /\ rest' = IF rest # <<>> /\ Tokens[command][Len(args) + 1] = SPACE THEN Tail(rest) ELSE <<>>
      /\ UNCHANGED <<x, opened, did, hasty>>

\* process s has the arguments of its command
Ready(s, command) ==
  proc[s].doing = command /\ Len(proc[s].args) = Len(Tokens[command])

\* Wrong on purpose: strtok is called among the arguments of the call, which
\* the compiler evaluates from the last to the first.
arg_from_the_last(s, i) == proc[s].args[Len(proc[s].args) + 1 - i]

arg(s, i) == proc[s].args[i]
Did(s, call) == did' = [call |-> call, line |-> proc[s].line, hasty |-> hasty]

\* the console goes back to its prompt; nothing is left of these children
ConsoleDone(gone) ==
  proc' = [s \in DOMAIN proc \ gone |->
             IF s = Console THEN process("prompt", <<>>, <<>>) ELSE proc[s]]

\* Wrong on purpose: the branch for the child is the parent's.
child_at_prompt(line) == process("prompt", <<>>, line)

\* 0 == pid
child(line) == process("load", <<>>, line)

\* the table may be full: the user is not told
Fork ==
  /\ Ready(Console, "fork")
  /\ \/ ConsoleDone({})
     \/ \E pid \in Pids \ DOMAIN proc :
          proc' = [s \in DOMAIN proc \cup {pid} |->
                     IF s = Console THEN process("prompt", <<>>, <<>>)
                     ELSE IF s = pid THEN child(proc[Console].line)
                     ELSE proc[s]]
  /\ UNCHANGED <<x, rest, opened, did, hasty>>

priority(word) == IF word = NULL THEN 2 ELSE atoi(word)

Exec(s) ==
  /\ Ready(s, "load")
  /\ Did(s, <<"exec", load(arg(s, 1)), priority(arg(s, 2))>>)
  /\ proc' = [r \in DOMAIN proc \ {s} |-> proc[r]]
  /\ UNCHANGED <<x, rest, opened, hasty>>

Kill ==
  /\ Ready(Console, "kill")
  /\ LET pid == IF arg(Console, 1) = <<"all">> THEN -1 ELSE atoi(arg(Console, 1))
     IN  /\ Did(Console, <<"kill", pid, atoi(arg(Console, 2))>>)
         /\ ConsoleDone({s \in DOMAIN proc : s # Console /\ (pid = -1 \/ pid = s)})
  /\ UNCHANGED <<x, rest, opened, hasty>>

Open ==
  /\ Ready(Console, "open")
  /\ Did(Console, <<"open", arg(Console, 1)>>)
  /\ \E res \in Descriptors : opened' = [fd |-> res, shown |-> printed(itoa(res))]
  /\ ConsoleDone({})
  /\ UNCHANGED <<x, rest, hasty>>

\* close, write, and cat with its open and read
FileCommand ==
  /\ \/ Ready(Console, "close") /\ Did(Console, <<"close", atoi(arg(Console, 1))>>)
     \/ Ready(Console, "write") /\ Did(Console, <<"write", atoi(arg(Console, 1)), arg(Console, 2)>>)
     \/ Ready(Console, "cat") /\ Did(Console, <<"cat", arg(Console, 1)>>)
  /\ ConsoleDone({})
  /\ UNCHANGED <<x, rest, opened, hasty>>

Next ==
  \/ \E l \in Lines : ReadLine(l)
  \/ FirstToken
  \/ \E s \in DOMAIN proc : NextToken(s) \/ Exec(s)
  \/ Fork \/ Kill \/ Open \/ FileCommand

Spec == Init /\ [][Next]_vars

----------------------------------------------------------------------------
(* Properties *)

(* What a line asks for, word by word. *)

Word(line, n) == IF n \in DOMAIN line THEN line[n] ELSE NULL
From(line, n) == IF n \in DOMAIN line THEN text(SubSeq(line, n, Len(line))) ELSE NULL

Asked(line) ==
  LET command == line[1][1]
  IN  CASE command = "fork"  -> <<"exec", load(Word(line, 2)), priority(Word(line, 3))>>
        [] command = "kill"  -> <<"kill",
                                  IF Word(line, 2) = <<"all">> THEN -1 ELSE atoi(Word(line, 2)),
                                  atoi(Word(line, 3))>>
        [] command = "open"  -> <<"open", From(line, 2)>>
        [] command = "close" -> <<"close", atoi(From(line, 2))>>
        [] command = "write" -> <<"write", atoi(Word(line, 2)), From(line, 3)>>
        [] command = "cat"   -> <<"cat", Word(line, 2)>>

\* the table of calls says so too, for the lines it has
ASSUME ExpectedAssumption == \A l \in DOMAIN Expected : Expected[l] = Asked(l)

(* As long as the user types nothing between a fork and the start of the     *)
(* program, every complete line leads to the call it asks for, with its own  *)
(* arguments and defaults: what the child reads after the fork is what was   *)
(* typed for it, although the console is at its next prompt already          *)
(* (console.c:47-53).                                                        *)
DoesWhatWasTyped ==
  ~did.hasty /\ did.line \in DOMAIN Expected => did.call = Expected[did.line]

(* What `open` prints, typed again, names the file that was opened, for      *)
(* every descriptor but 0.                                                   *)
ShownReadsBack == opened.fd # 0 => atoi(opened.shown) = opened.fd

(* libc.c:22 says that itoa converts x into a string: some digit is shown,   *)
(* whichever descriptor open returns.                                        *)
OpenShowsDescriptor == opened.shown # <<>>

=============================================================================
