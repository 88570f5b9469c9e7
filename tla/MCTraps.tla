------------------------------ MODULE MCTraps ------------------------------
(* The system calls of the console (with cat) and of P6 to P8.               *)
EXTENDS Traps
MCConsoleCalls == {"fork", "kill", "open", "close", "read", "write"}
MCProgramCalls == {"yield", "get_pid", "get_parent_pid", "make_pipe", "msend", "mreceive",
                   "fork", "exit"}
=============================================================================
