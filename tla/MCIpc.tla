------------------------------- MODULE MCIpc -------------------------------
(* The waiter P6, pid 1, and two philosophers P7, as pairs that talk.        *)
EXTENDS Ipc

MCPids == {1, 2, 3}
MCPairs == {{1, 2}, {1, 3}}
=============================================================================
