------------------------------ MODULE Compute ------------------------------
(* What the programs user/P3.c and user/P4.c, which the console starts,       *)
(* compute for the numbers their main loops run through.                      *)
EXTENDS Integers

CONSTANTS
  STACK_SIZE,        \* bytes of a user stack
  CALL_FRAME,        \* bytes of it a call of gcd takes
  MAIN_FRAME,        \* bytes of it main_P4 takes
  Candidates,        \* numbers for is_prime
  Divided            \* numbers for gcd

\* from lo to below hi: P4 leaves out 0, with which gcd would never end
ASSUME ComputeAssumption ==
  /\ STACK_SIZE \in Nat /\ CALL_FRAME \in Nat /\ MAIN_FRAME \in Nat
  /\ Candidates \subseteq 256 .. 256 * 256 - 1
  /\ Divided \subseteq 16 .. 255

\* the deepest recursion, once for each number below hi, has room on the stack
ASSUME RoomAssumption == MAIN_FRAME + CALL_FRAME * 255 <= STACK_SIZE

----------------------------------------------------------------------------
(* P3: primes *)

\* Wrong on purpose: the square root itself is not tried.
TriedBelowRoot(x) == {d \in 3 .. 255 : d % 2 = 1 /\ d * d < x}

\* the divisors the loop of is_prime tries; d * d does not overflow below 2^16
Tried(x) == {d \in 3 .. 255 : d % 2 = 1 /\ d * d <= x}

is_prime(x) ==
  IF x % 2 = 0 \/ x < 2 THEN x = 2 ELSE \A d \in Tried(x) : x % d # 0

Prime(x) == x > 1 /\ \A d \in 2 .. x - 1 : x % d # 0

----------------------------------------------------------------------------
(* P4: greatest common divisors *)

\* what gcd may be called with: numbers below hi, and differences of them
Reached == (1 .. 255) \X (1 .. 255)

\* Wrong on purpose: what is left is not divided any further.
gcd_of_one_step(x, y) == IF x > y THEN x - y ELSE IF x < y THEN y - x ELSE x

gcd(x, y) ==
  LET g[p \in Reached] ==
        IF p[1] = p[2] THEN p[1]
        ELSE IF p[1] > p[2] THEN g[<<p[1] - p[2], p[2]>>] ELSE g[<<p[1], p[2] - p[1]>>]
  IN  g[<<x, y>>]

\* how deep the calls of gcd nest: at the level of the Makefile (-O) the compiler does
\* not turn a call in tail position into a jump, so each call waits for the next
Depth[p \in Reached] ==
  IF p[1] = p[2] THEN 1
  ELSE IF p[1] > p[2] THEN 1 + Depth[<<p[1] - p[2], p[2]>>]
  ELSE 1 + Depth[<<p[1], p[2] - p[1]>>]

CommonDivisors(x, y) == {d \in 1 .. x : x % d = 0 /\ y % d = 0}

----------------------------------------------------------------------------
(* Properties *)

(* P3 finds the primes: squares of primes are where a loop to the square root *)
(* may end too soon.                                                          *)
PrimesFound == \A x \in Candidates : is_prime(x) <=> Prime(x)

(* P4 finds greatest common divisors.                                         *)
DivisorsGreatest ==
  \A x, y \in Divided :
    /\ gcd(x, y) \in CommonDivisors(x, y)
    /\ \A d \in CommonDivisors(x, y) : gcd(x, y) >= d

(* Its recursion, one call deeper for each subtraction, stays on the user     *)
(* stack, which nothing guards.                                               *)
RecursionFits ==
  \A x, y \in Divided : MAIN_FRAME + CALL_FRAME * Depth[<<x, y>>] <= STACK_SIZE

=============================================================================
