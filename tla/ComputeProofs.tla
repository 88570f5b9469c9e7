--------------------------- MODULE ComputeProofs ---------------------------
(* What TLAPS proves of the programs P3 and P4: the primes and the greatest   *)
(* common divisors they find, and the stack this takes.                       *)
EXTENDS Programs, ConsoleProofs

----------------------------------------------------------------------------
(* Arithmetic: d divides n if n is a multiple of d. *)

LEMMA Quotient ==
  ASSUME NEW n \in Nat, NEW d \in Nat, d > 0
  PROVE  n \div d \in Nat /\ n = d * (n \div d) + (n % d) /\ n % d \in 0 .. d - 1
OBVIOUS

(* A remainder below d cannot make up for a multiple of d. *)
LEMMA NoRemainder ==
  ASSUME NEW k \in Nat, NEW q \in Nat, NEW d \in Nat, NEW r \in 0 .. d - 1,
         d * k = d * q + r
  PROVE  r = 0
<1>1. d * (k - q) = r
  OBVIOUS
<1>2. CASE k > q
  <2>1. PICK j \in Nat : k - q = j + 1
    BY <1>2
  <2>2. d * (j + 1) = d * j + d /\ d * j >= 0
    OBVIOUS
  <2> QED BY <2>1, <2>2, <1>1
<1>3. CASE k < q
  <2>1. PICK j \in Nat : q - k = j + 1
    BY <1>3
  <2>2. d * (j + 1) = d * j + d /\ d * j >= 0
    OBVIOUS
  <2>3. d * (q - k) = -r
    BY <1>1
  <2> QED BY <2>1, <2>2, <2>3
<1> QED BY <1>1, <1>2, <1>3

LEMMA Multiple ==
  ASSUME NEW n \in Nat, NEW d \in Nat, d > 0, NEW k \in Nat, n = d * k
  PROVE  n % d = 0
<1>1. n \div d \in Nat /\ n = d * (n \div d) + (n % d) /\ n % d \in 0 .. d - 1
  BY Quotient
<1> QED BY <1>1, NoRemainder

LEMMA Factor ==
  ASSUME NEW n \in Nat, NEW d \in Nat, d > 0, n % d = 0
  PROVE  \E k \in Nat : n = d * k
<1>1. n \div d \in Nat /\ n = d * (n \div d)
  BY Quotient
<1> QED BY <1>1

(* A divisor of b divides a if and only if it divides their sum. *)
LEMMA DividesSum ==
  ASSUME NEW a \in Nat, NEW b \in Nat, NEW d \in Nat, d > 0, b % d = 0
  PROVE  (a % d = 0) <=> ((a + b) % d = 0)
<1>1. PICK l \in Nat : b = d * l
  BY Factor
<1>2. ASSUME a % d = 0 PROVE (a + b) % d = 0
  <2>1. PICK k \in Nat : a = d * k
    BY <1>2, Factor
  <2>2. a + b = d * (k + l) /\ a + b \in Nat /\ k + l \in Nat
    BY <1>1, <2>1
  <2> QED BY <2>2, Multiple
<1>3. ASSUME (a + b) % d = 0 PROVE a % d = 0
  <2>0. a + b \in Nat
    OBVIOUS
  <2>1. PICK k \in Nat : a + b = d * k
    BY <2>0, <1>3, Factor
  <2>2. a = d * (k - l)
    BY <1>1, <2>1
  <2>3. k - l \in Nat
    <3>1. CASE k < l
      <4>1. PICK j \in Nat : l - k = j + 1
        BY <3>1
      <4>2. d * (j + 1) = d * j + d /\ d * j >= 0
        OBVIOUS
      <4>3. d * (l - k) = -a
        BY <2>2
      <4> QED BY <4>1, <4>2, <4>3
    <3> QED BY <3>1
  <2> QED BY <2>2, <2>3, Multiple
<1> QED BY <1>2, <1>3

----------------------------------------------------------------------------
(* P3: an odd number that is not prime has an odd divisor no larger than its root. *)

LEMMA SmallerFactor ==
  ASSUME NEW n \in Nat, n < 256 * 256, n % 2 # 0, NEW a \in Nat, NEW b \in Nat,
         a > 1, a <= b, n = a * b
  PROVE  a \in Tried(n) /\ n % a = 0
<1>1. a * a <= a * b
  <2>1. PICK j \in Nat : b = a + j
    OBVIOUS
  <2>2. a * (a + j) = a * a + a * j /\ a * j >= 0
    OBVIOUS
  <2> QED BY <2>1, <2>2
<1>2. a <= 255
  <2>1. CASE a > 255
    <3>1. PICK j \in Nat : a = 256 + j
      BY <2>1
    <3>2. a * a = 256 * 256 + 512 * j + j * j /\ j * j >= 0
      BY <3>1
    <3> QED BY <3>2, <1>1
  <2> QED BY <2>1
<1>3. a % 2 = 1
  <2>1. CASE a % 2 = 0
    <3>1. PICK k \in Nat : a = 2 * k
      BY <2>1
    <3>2. n = 2 * (k * b) /\ k * b \in Nat
      BY <3>1
    <3> QED BY <3>2
  <2> QED BY <2>1
<1>4. n % a = 0
  <2>1. a > 0
    OBVIOUS
  <2> QED BY <2>1, Multiple
<1>5. a \in 3 .. 255
  <2>1. a # 2
    BY <1>3
  <2> QED BY <2>1, <1>2
<1>6. a * a <= n
  BY <1>1
<1> QED BY <1>3, <1>4, <1>5, <1>6 DEF Tried

LEMMA CompositeSeen ==
  ASSUME NEW n \in Nat, n < 256 * 256, n % 2 # 0, NEW d \in 2 .. n - 1, n % d = 0
  PROVE  \E a \in Tried(n) : n % a = 0
<1>1. PICK e \in Nat : n = d * e
  BY Factor
<1>2. e > 1
  <2>1. e # 0 /\ e # 1
    BY <1>1
  <2> QED BY <2>1
<1>3. n = e * d
  BY <1>1
<1> DEFINE Seen(a) == a \in Tried(n) /\ n % a = 0
<1>4. CASE d <= e
  <2>1. d \in Nat /\ d > 1
    OBVIOUS
  <2>2. Seen(d)
    BY <1>1, <1>4, <2>1, SmallerFactor
  <2> QED BY <2>2
<1>5. CASE e <= d
  <2>1. d \in Nat
    OBVIOUS
  <2>2. Seen(e)
    BY <1>2, <1>3, <1>5, <2>1, SmallerFactor
  <2> QED BY <2>2
<1> QED BY <1>4, <1>5

LEMMA PrimesAreFound == PrimesFound
<1> SUFFICES ASSUME NEW n \in Nat, n < 256 * 256, n > 255 PROVE is_prime(n) <=> Prime(n)
  <2>1. \A n \in 256 .. 256 * 256 - 1 : n \in Nat /\ n < 256 * 256 /\ n > 255
    OBVIOUS
  <2> QED BY <2>1, ComputeAssumption DEF PrimesFound, ComputeAssumption
<1>1. CASE n % 2 = 0
  <2>1. ~is_prime(n)
    BY <1>1 DEF is_prime
  <2>2. 2 \in 2 .. n - 1
    OBVIOUS
  <2> QED BY <1>1, <2>1, <2>2 DEF Prime
<1>2. CASE n % 2 # 0
  <2>1. is_prime(n) <=> \A d \in Tried(n) : n % d # 0
    BY <1>2 DEF is_prime
  <2>2. Prime(n) <=> \A d \in 2 .. n - 1 : n % d # 0
    <3>1. n > 1
      OBVIOUS
    <3> QED BY <3>1, Zenon DEF Prime
  <2>3. ASSUME NEW d \in Tried(n) PROVE d \in 2 .. n - 1
    <3>1. d \in 3 .. 255 /\ d * d <= n
      BY DEF Tried
    <3>2. PICK j \in Nat : d = 2 + j
      BY <3>1
    <3>3. d * d = 2 * d + j * d /\ j * d >= 0
      BY <3>1, <3>2
    <3>4. 2 * d <= n
      BY <3>1, <3>3
    <3> QED BY <3>1, <3>4
  <2>4. ASSUME NEW d \in 2 .. n - 1, n % d = 0 PROVE \E a \in Tried(n) : n % a = 0
    BY <1>2, <2>4, CompositeSeen
  <2> QED BY <2>1, <2>2, <2>3, <2>4
<1> QED BY <1>1, <1>2

----------------------------------------------------------------------------
(* P4: the calls of gcd, with their results or with their number. *)

Call(f, p, counted) ==
  IF p[1] = p[2] THEN IF counted THEN 1 ELSE p[1]
  ELSE IF p[1] > p[2]
       THEN IF counted THEN 1 + f[<<p[1] - p[2], p[2]>>] ELSE f[<<p[1] - p[2], p[2]>>]
       ELSE IF counted THEN 1 + f[<<p[1], p[2] - p[1]>>] ELSE f[<<p[1], p[2] - p[1]>>]

LEMMA InReached ==
  /\ \A a, b \in 1 .. 255 : <<a, b>> \in Reached
  /\ \A p \in Reached : \E a, b \in 1 .. 255 : p = <<a, b>>
<1> DEFINE S == 1 .. 255
<1> HIDE DEF S
<1>1. \A a, b \in S : <<a, b>> \in S \X S
  OBVIOUS
<1>2. \A p \in S \X S : \E a, b \in S : p = <<a, b>>
  OBVIOUS
<1> QED BY <1>1, <1>2, Zenon DEF Reached, S

(* Each call is of a smaller pair. *)
LEMMA NextCall ==
  ASSUME NEW a \in 1 .. 255, NEW b \in 1 .. 255
  PROVE  /\ a > b => /\ a - b \in 1 .. 255 /\ <<a - b, b>> \in Reached
                     /\ (a - b) + b < a + b
         /\ a < b => /\ b - a \in 1 .. 255 /\ <<a, b - a>> \in Reached
                     /\ a + (b - a) < a + b
<1>1. a > b => a - b \in 1 .. 255 /\ (a - b) + b < a + b
  OBVIOUS
<1>2. a < b => b - a \in 1 .. 255 /\ a + (b - a) < a + b
  OBVIOUS
<1> QED BY <1>1, <1>2, InReached, Zenon

LEMMA CallsDefined ==
  ASSUME NEW counted \in BOOLEAN
  PROVE  \E f : f = [p \in Reached |-> Call(f, p, counted)]
<1> DEFINE Sum(p) == p[1] + p[2]
           Good(m) == \E f : /\ f = [p \in Reached |-> f[p]]
                             /\ \A p \in Reached : Sum(p) <= m => f[p] = Call(f, p, counted)
           T == {m \in Nat : Good(m)}
<1>0. \A p \in Reached : Sum(p) \in Nat /\ 0 < Sum(p) /\ Sum(p) <= 510
  <2> TAKE p \in Reached
  <2>1. PICK a \in 1 .. 255, b \in 1 .. 255 : p = <<a, b>>
    BY InReached, Zenon
  <2> QED BY <2>1
<1>1. 0 \in T
  <2> DEFINE f == [p \in Reached |-> 0]
  <2>1. f = [p \in Reached |-> f[p]]
    OBVIOUS
  <2>2. \A p \in Reached : ~(Sum(p) <= 0)
    BY <1>0
  <2> HIDE DEF f
  <2> QED BY <2>1, <2>2
<1>2. ASSUME NEW m \in Nat, m \in T PROVE m + 1 \in T
  <2>1. PICK f : /\ f = [p \in Reached |-> f[p]]
                 /\ \A p \in Reached : Sum(p) <= m => f[p] = Call(f, p, counted)
    BY <1>2
  <2> DEFINE g == [p \in Reached |-> IF Sum(p) = m + 1 THEN Call(f, p, counted) ELSE f[p]]
  <2>2. \A p \in Reached : g[p] = IF Sum(p) = m + 1 THEN Call(f, p, counted) ELSE f[p]
    OBVIOUS
  <2>3. g = [p \in Reached |-> g[p]]
    OBVIOUS
  <2> HIDE DEF g
  <2>4. ASSUME NEW p \in Reached, Sum(p) <= m + 1
        PROVE  Call(g, p, counted) = Call(f, p, counted)
    <3>1. PICK a \in 1 .. 255, b \in 1 .. 255 : p = <<a, b>>
      BY InReached, Zenon
    <3>2. p[1] = a /\ p[2] = b /\ Sum(p) = a + b
      BY <3>1
    <3>3. ASSUME NEW q \in Reached, Sum(q) < Sum(p) PROVE g[q] = f[q]
      <4>1. Sum(q) \in Nat /\ Sum(p) \in Nat
        BY <1>0
      <4> HIDE DEF Sum
      <4> QED BY <4>1, <2>2, <2>4, <3>3
    <3>4. CASE a = b
      BY <3>2, <3>4 DEF Call
    <3>5. CASE a > b
      <4>1. <<a - b, b>> \in Reached /\ Sum(<<a - b, b>>) < Sum(p)
        BY <3>2, <3>5, NextCall, Zenon
      <4>2. g[<<a - b, b>>] = f[<<a - b, b>>]
        BY <3>3, <4>1
      <4>3. a # b
        BY <3>5
      <4> QED BY <3>2, <3>5, <4>2, <4>3 DEF Call
    <3>6. CASE a < b
      <4>1. <<a, b - a>> \in Reached /\ Sum(<<a, b - a>>) < Sum(p)
        BY <3>2, <3>6, NextCall, Zenon
      <4>2. g[<<a, b - a>>] = f[<<a, b - a>>]
        BY <3>3, <4>1
      <4>3. a # b /\ ~(a > b)
        BY <3>6
      <4> QED BY <3>2, <4>2, <4>3 DEF Call
    <3> QED BY <3>4, <3>5, <3>6
  <2>5. \A p \in Reached : Sum(p) <= m + 1 => Sum(p) = m + 1 \/ Sum(p) <= m
    BY <1>0
  <2>6. \A p \in Reached : Sum(p) <= m + 1 => g[p] = Call(g, p, counted)
    <3> HIDE DEF Sum
    <3>1. \A p \in Reached : Sum(p) <= m => Sum(p) # m + 1
      BY <1>0
    <3> QED BY <2>1, <2>2, <2>4, <2>5, <3>1
  <2> QED BY <2>3, <2>6
<1>3. 510 \in T
  <2> HIDE DEF T
  <2> QED BY <1>1, <1>2, Induction
<1>4. PICK f : /\ f = [p \in Reached |-> f[p]]
               /\ \A p \in Reached : Sum(p) <= 510 => f[p] = Call(f, p, counted)
  BY <1>3
<1>5. \A p \in Reached : f[p] = Call(f, p, counted)
  BY <1>0, <1>4
<1> QED BY <1>4, <1>5

(* gcd and the depth of its calls, call by call. *)
LEMMA GcdCalls ==
  ASSUME NEW a \in 1 .. 255, NEW b \in 1 .. 255
  PROVE  /\ a = b => gcd(a, b) = a
         /\ a > b => gcd(a, b) = gcd(a - b, b)
         /\ a < b => gcd(a, b) = gcd(a, b - a)
<1> DEFINE g == CHOOSE f : f = [p \in Reached |-> Call(f, p, FALSE)]
<1>1. \A n, y : gcd(n, y) = g[<<n, y>>]
  BY DEF gcd, Call
<1>2. g = [p \in Reached |-> Call(g, p, FALSE)]
  BY CallsDefined
<1> HIDE DEF g
<1>3. <<a, b>> \in Reached
  BY InReached, Zenon
<1>4. g[<<a, b>>] = Call(g, <<a, b>>, FALSE)
  BY <1>2, <1>3
<1>5. gcd(a, b) = IF a = b THEN a ELSE IF a > b THEN g[<<a - b, b>>] ELSE g[<<a, b - a>>]
  BY <1>1, <1>4 DEF Call
<1>6. gcd(a, b) = IF a = b THEN a ELSE IF a > b THEN gcd(a - b, b) ELSE gcd(a, b - a)
  BY <1>1, <1>5
<1> QED BY <1>6

LEMMA DepthCalls ==
  ASSUME NEW a \in 1 .. 255, NEW b \in 1 .. 255
  PROVE  /\ a = b => Depth[<<a, b>>] = 1
         /\ a > b => Depth[<<a, b>>] = 1 + Depth[<<a - b, b>>]
         /\ a < b => Depth[<<a, b>>] = 1 + Depth[<<a, b - a>>]
<1>1. Depth = CHOOSE f : f = [p \in Reached |-> Call(f, p, TRUE)]
  BY DEF Depth, Call
<1>2. Depth = [p \in Reached |-> Call(Depth, p, TRUE)]
  BY <1>1, CallsDefined
<1>3. <<a, b>> \in Reached
  BY InReached
<1>4. Depth[<<a, b>>] = Call(Depth, <<a, b>>, TRUE)
  BY <1>2, <1>3
<1>5. Depth[<<a, b>>] = IF a = b THEN 1 ELSE IF a > b THEN 1 + Depth[<<a - b, b>>]
                                        ELSE 1 + Depth[<<a, b - a>>]
  BY <1>4 DEF Call
<1> QED BY <1>5

----------------------------------------------------------------------------
(* P4: subtracting keeps the common divisors, and the larger number shrinks *)
(* with each call. *)

DividesBoth(d, a, b) == a % d = 0 /\ b % d = 0

LEMMA Subtracted ==
  ASSUME NEW a \in 1 .. 255, NEW b \in 1 .. 255, NEW d \in 1 .. 255
  PROVE  /\ a > b => (DividesBoth(d, a - b, b) <=> DividesBoth(d, a, b))
         /\ a < b => (DividesBoth(d, a, b - a) <=> DividesBoth(d, a, b))
<1>1. ASSUME a > b, b % d = 0 PROVE ((a - b) % d = 0) <=> (a % d = 0)
  <2>1. a - b \in Nat /\ (a - b) + b = a
    BY <1>1
  <2>2. ((a - b) % d = 0) <=> (((a - b) + b) % d = 0)
    <3>1. b \in Nat /\ d \in Nat /\ d > 0
      OBVIOUS
    <3> QED BY <1>1, <2>1, <3>1, DividesSum
  <2> QED BY <2>1, <2>2
<1>2. ASSUME a < b, a % d = 0 PROVE ((b - a) % d = 0) <=> (b % d = 0)
  <2>1. b - a \in Nat /\ (b - a) + a = b
    BY <1>2
  <2>2. ((b - a) % d = 0) <=> (((b - a) + a) % d = 0)
    <3>1. a \in Nat /\ d \in Nat /\ d > 0
      OBVIOUS
    <3> QED BY <1>2, <2>1, <3>1, DividesSum
  <2> QED BY <2>1, <2>2
<1> QED BY <1>1, <1>2 DEF DividesBoth

Greatest(g, a, b) ==
  /\ g \in 1 .. 255 /\ g <= a /\ DividesBoth(g, a, b)
  /\ \A d \in 1 .. 255 : DividesBoth(d, a, b) => d <= g

LEMMA DividesItself == \A a \in 1 .. 255 : DividesBoth(a, a, a) /\ \A d \in 1 .. 255 : DividesBoth(d, a, a) => d <= a
<1>1. ASSUME NEW a \in 1 .. 255 PROVE a % a = 0
  <2>1. a = a * 1
    OBVIOUS
  <2> QED BY <2>1, Multiple
<1>2. ASSUME NEW a \in 1 .. 255, NEW d \in 1 .. 255, a % d = 0 PROVE d <= a
  <2>1. CASE d > a
    <3>1. a % d = a
      BY <2>1
    <3> QED BY <3>1, <1>2
  <2> QED BY <2>1
<1> QED BY <1>1, <1>2 DEF DividesBoth

LEMMA Computed ==
  \A a, b \in 1 .. 255 :
    /\ Greatest(gcd(a, b), a, b)
    /\ Depth[<<a, b>>] \in Nat /\ (Depth[<<a, b>>] <= a \/ Depth[<<a, b>>] <= b)
<1> DEFINE Good(a, b) ==
             /\ Greatest(gcd(a, b), a, b)
             /\ Depth[<<a, b>>] \in Nat /\ (Depth[<<a, b>>] <= a \/ Depth[<<a, b>>] <= b)
           T == {m \in Nat : \A a, b \in 1 .. 255 : a + b <= m => Good(a, b)}
<1>1. 0 \in T
  <2>1. \A a, b \in 1 .. 255 : ~(a + b <= 0)
    OBVIOUS
  <2> QED BY <2>1, Zenon
<1>2. ASSUME NEW m \in Nat, m \in T PROVE m + 1 \in T
  <2>nat. m + 1 \in Nat
    <3> HIDE DEF T
    <3> QED OBVIOUS
  <2> SUFFICES ASSUME NEW a \in 1 .. 255, NEW b \in 1 .. 255, a + b <= m + 1
               PROVE  Good(a, b)
    <3> HIDE DEF Good
    <3> QED BY <2>nat, Zenon
  <2>0. \A c, d \in 1 .. 255 : c + d < a + b => Good(c, d)
    <3>1. \A c, d \in 1 .. 255 : c + d < a + b => c + d <= m
      OBVIOUS
    <3> HIDE DEF Good
    <3> QED BY <3>1, <1>2, Zenon
  <2>1. CASE a = b
    <3>1. gcd(a, b) = a /\ Depth[<<a, b>>] = 1
      BY <2>1, GcdCalls, DepthCalls, Zenon
    <3>2. Greatest(a, a, b)
      BY <2>1, DividesItself, Zenon DEF Greatest
    <3> QED BY <3>1, <3>2
  <2>2. CASE a > b
    <3>1. gcd(a, b) = gcd(a - b, b) /\ Depth[<<a, b>>] = 1 + Depth[<<a - b, b>>]
      BY <2>2, GcdCalls, DepthCalls, Zenon
    <3>2. a - b \in 1 .. 255 /\ (a - b) + b < a + b
      BY <2>2
    <3>3. Good(a - b, b)
      BY <2>0, <3>2, Zenon
    <3>4. Greatest(gcd(a, b), a, b)
      <4>1. \A d \in 1 .. 255 : DividesBoth(d, a - b, b) <=> DividesBoth(d, a, b)
        BY <2>2, Subtracted, Zenon
      <4>2. /\ gcd(a, b) \in 1 .. 255 /\ gcd(a, b) <= a - b
            /\ DividesBoth(gcd(a, b), a - b, b)
            /\ \A d \in 1 .. 255 : DividesBoth(d, a - b, b) => d <= gcd(a, b)
        BY <3>1, <3>3 DEF Greatest
      <4>3. gcd(a, b) <= a
        BY <4>2
      <4> QED BY <4>1, <4>2, <4>3 DEF Greatest
    <3>5. Depth[<<a, b>>] \in Nat /\ (Depth[<<a, b>>] <= a \/ Depth[<<a, b>>] <= b)
      BY <2>2, <3>1, <3>3
    <3> QED BY <3>4, <3>5
  <2>3. CASE a < b
    <3>1. gcd(a, b) = gcd(a, b - a) /\ Depth[<<a, b>>] = 1 + Depth[<<a, b - a>>]
      BY <2>3, GcdCalls, DepthCalls, Zenon
    <3>2. b - a \in 1 .. 255 /\ a + (b - a) < a + b
      BY <2>3
    <3>3. Good(a, b - a)
      BY <2>0, <3>2, Zenon
    <3>4. Greatest(gcd(a, b), a, b)
      <4>1. \A d \in 1 .. 255 : DividesBoth(d, a, b - a) <=> DividesBoth(d, a, b)
        BY <2>3, Subtracted, Zenon
      <4>2. /\ gcd(a, b) \in 1 .. 255 /\ gcd(a, b) <= a
            /\ DividesBoth(gcd(a, b), a, b - a)
            /\ \A d \in 1 .. 255 : DividesBoth(d, a, b - a) => d <= gcd(a, b)
        BY <3>1, <3>3 DEF Greatest
      <4> QED BY <4>1, <4>2 DEF Greatest
    <3>5. Depth[<<a, b>>] \in Nat /\ (Depth[<<a, b>>] <= a \/ Depth[<<a, b>>] <= b)
      BY <2>3, <3>1, <3>3
    <3> QED BY <3>4, <3>5
  <2>4. a = b \/ a > b \/ a < b
    OBVIOUS
  <2> HIDE DEF Good
  <2> QED BY <2>1, <2>2, <2>3, <2>4, Zenon
<1>3. 510 \in T
  <2> HIDE DEF T
  <2> QED BY <1>1, <1>2, Induction
<1>4. \A a, b \in 1 .. 255 : a + b <= 510
  OBVIOUS
<1> HIDE DEF Good
<1> QED BY <1>3, <1>4, Zenon DEF Good

LEMMA DividedAreReached == \A n \in Divided : n \in 1 .. 255
<1>1. Divided \subseteq 16 .. 255
  BY ComputeAssumption DEF ComputeAssumption
<1>2. \A n \in 16 .. 255 : n \in 1 .. 255
  OBVIOUS
<1> QED BY <1>1, <1>2

LEMMA DivisorsAreGreatest == DivisorsGreatest
<1> SUFFICES ASSUME NEW a \in 1 .. 255, NEW b \in 1 .. 255
             PROVE  /\ gcd(a, b) \in CommonDivisors(a, b)
                    /\ \A d \in CommonDivisors(a, b) : gcd(a, b) >= d
  BY DividedAreReached, Zenon DEF DivisorsGreatest
<1>1. Greatest(gcd(a, b), a, b)
  BY Computed, Zenon
<1>2. gcd(a, b) \in 1 .. a
  BY <1>1 DEF Greatest
<1>3. \A d \in 1 .. a : d \in 1 .. 255
  OBVIOUS
<1> QED BY <1>1, <1>2, <1>3 DEF Greatest, DividesBoth, CommonDivisors

LEMMA RecursionAlwaysFits == RecursionFits
<1>1. ASSUME NEW n \in Nat, n <= 255 PROVE MAIN_FRAME + CALL_FRAME * n <= STACK_SIZE
  <2>1. PICK k \in Nat : 255 = n + k
    BY <1>1
  <2>2. CALL_FRAME * (n + k) = CALL_FRAME * n + CALL_FRAME * k /\ CALL_FRAME * k >= 0
    BY ComputeAssumption DEF ComputeAssumption
  <2>3. MAIN_FRAME \in Nat /\ CALL_FRAME \in Nat /\ STACK_SIZE \in Nat
    BY ComputeAssumption DEF ComputeAssumption
  <2>4. MAIN_FRAME + CALL_FRAME * (n + k) <= STACK_SIZE
    BY <2>1, RoomAssumption DEF RoomAssumption
  <2>5. CALL_FRAME * n \in Nat /\ CALL_FRAME * k \in Nat
    BY <2>3
  <2> QED BY <2>2, <2>3, <2>4, <2>5
<1>2. ASSUME NEW a \in 1 .. 255, NEW b \in 1 .. 255
      PROVE  \E n \in Nat : n = Depth[<<a, b>>] /\ n <= 255
  <2>1. PICK n \in Nat : n = Depth[<<a, b>>] /\ (n <= a \/ n <= b)
    BY Computed, Zenon
  <2> QED BY <2>1
<1>3. ASSUME NEW a \in 1 .. 255, NEW b \in 1 .. 255
      PROVE  MAIN_FRAME + CALL_FRAME * Depth[<<a, b>>] <= STACK_SIZE
  BY <1>1, <1>2, Zenon
<1> QED BY <1>3, DividedAreReached, Zenon DEF RecursionFits

(* Whatever of their ranges the programs are given: is_prime is right, gcd    *)
(* returns the greatest common divisor, and its calls stay on the stack       *)
(* (user/P3.c, user/P4.c).                                                    *)
THEOREM ProgramsComputeRight ==
  /\ PrimesFound /\ DivisorsGreatest /\ RecursionFits
  /\ Spec => []ComputesRight
<1>1. ComputesRight
  BY PrimesAreFound, DivisorsAreGreatest, RecursionAlwaysFits DEF ComputesRight
<1>2. []ComputesRight
  BY <1>1, PTL
<1> QED BY <1>2, PrimesAreFound, DivisorsAreGreatest, RecursionAlwaysFits

=============================================================================
