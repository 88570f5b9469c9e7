----------------------------- MODULE MCDiskLink -----------------------------
(* A disk of two blocks, and requests that go beyond it. *)
EXTENDS DiskLink

MCBlocks == {0, 1}
MCAddresses == {0, 1, 2}
=============================================================================
