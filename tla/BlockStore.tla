----------------------------- MODULE BlockStore -----------------------------
(* What device/disk.c promises its callers: an array of blocks.  A read that *)
(* succeeds yields the block as it is; a write that succeeds has put the     *)
(* data there; a write that fails, or has not returned, may have changed its *)
(* own block, wholly or half, and no other.                                  *)
EXTENDS Sequences

CONSTANTS
  Blocks,      \* addresses the disk has
  Addresses,   \* addresses callers ask for
  Data         \* contents of a block: pairs of halves

VARIABLES
  store,       \* the blocks
  pending,     \* the call in progress
  result       \* of the last call that returned

NoCall == [op |-> "none"]
NoResult == [status |-> "none", data |-> <<>>]
DISK_SUCCESS == "success"
DISK_FAILURE == "failure"
returned(status, data) == [status |-> status, data |-> data]

Init == store \in [Blocks -> Data] /\ pending = NoCall /\ result = NoResult

Begin(op, a, x) ==
  /\ pending = NoCall
  /\ pending' = [op |-> op, a |-> a, x |-> x]
  /\ result' = NoResult
  /\ UNCHANGED store

\* part of a write: the whole block is there, or its first half
Change ==
  /\ pending.op = "wr" /\ pending.a \in Blocks
  /\ \E x \in {pending.x, <<pending.x[1], store[pending.a][2]>>} :
       store' = [store EXCEPT ![pending.a] = x]
  /\ UNCHANGED <<pending, result>>

Succeed ==
  /\ pending.op \in {"wr", "rd"} => pending.a \in Blocks
  /\ \/ pending.op = "wr" /\ store[pending.a] = pending.x /\ result' = returned(DISK_SUCCESS, <<>>)
     \/ pending.op = "rd" /\ result' = returned(DISK_SUCCESS, store[pending.a])
     \/ pending.op = "conf" /\ result' = returned(DISK_SUCCESS, <<"num", "len">>)
  /\ pending' = NoCall
  /\ UNCHANGED store

Fail ==
  /\ pending # NoCall
  /\ pending' = NoCall
  /\ result' = returned(DISK_FAILURE, <<>>)
  /\ UNCHANGED store

Next ==
  \/ \E op \in {"wr", "rd", "conf"}, a \in Addresses, x \in Data : Begin(op, a, x)
  \/ Change
  \/ Succeed
  \/ Fail

Spec == Init /\ [][Next]_<<store, pending, result>>

=============================================================================
