----------------------------- MODULE MCConsole -----------------------------
(* A user with a few lines of each command, complete ones and others.  Names *)
(* and texts are words of one character, numbers words of digits.            *)
(* Then numbers for the compute programs it starts.                          *)
EXTENDS Programs, Weights

MCExpected ==
  (<<<<"fork">>, <<"P3">>>>                     :> <<"exec", "P3", 2>>) @@
  (<<<<"fork">>, <<"P6">>, <<"1", "2">>>>       :> <<"exec", "P6", 12>>) @@
  (<<<<"kill">>, <<"all">>, <<"1">>>>           :> <<"kill", -1, 1>>) @@
  (<<<<"kill">>, <<"1">>, <<"2">>>>             :> <<"kill", 1, 2>>) @@
  (<<<<"open">>, <<"F">>>>                      :> <<"open", <<"F">>>>) @@
  (<<<<"close">>, <<"1", "2">>>>                :> <<"close", 12>>) @@
  (<<<<"write">>, <<"4">>, <<"F">>, <<"G">>>>   :> <<"write", 4, <<"F", " ", "G">>>>) @@
  (<<<<"cat">>, <<"F">>>>                       :> <<"cat", <<"F">>>>)

\* an empty line, an unknown command, missing arguments, an unknown program
Incomplete == {<<>>, <<<<"ls">>>>, <<<<"kill">>>>, <<<<"fork">>>>, <<<<"fork">>, <<"P9">>>>}

\* none, one digit, two and nine
MCDescriptors == {-1, 0, 7, 10, 94, 999999999}

\* up to 20 ^ 2, and at the upper end a square of a prime, another odd number and
\* a prime
MCCandidates == 256 .. 400 \cup {63001, 65535, 65521}

\* all numbers P4 runs through
MCDivided == 16 .. 255

\* one bit, all bits up to one, and patterns in all bytes
MCWeighed == {2 ^ k : k \in 8 .. 23} \cup {2 ^ k - 1 : k \in 9 .. 24}
             \cup {256 + k * 131071 : k \in 1 .. 100}

MCLines == DOMAIN MCExpected \cup Incomplete

(* P5 counts bits (user/P5.c); Init has TLC evaluate it once.                 *)
CountsBits == Init => BitsCounted
=============================================================================
