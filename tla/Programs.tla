------------------------------ MODULE Programs ------------------------------
(* The console, and what the programs it starts compute.                      *)
EXTENDS Console, Compute

(* P3 finds the primes, P4 greatest common divisors, on the stack it has      *)
(* (user/P3.c, user/P4.c).  There are no variables in it but those of Init,   *)
(* which is there to have TLC evaluate it once and not in every state.        *)
ComputesRight == Init => PrimesFound /\ DivisorsGreatest /\ RecursionFits

=============================================================================
