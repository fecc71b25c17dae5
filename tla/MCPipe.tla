------------------------------- MODULE MCPipe -------------------------------
(***************************************************************************)
(* A ring of three bytes shared by two processes, with user buffers up to  *)
(* one byte longer than the ring: a call may fit, fill the ring exactly,   *)
(* or need several rounds.                                                 *)
(***************************************************************************)
EXTENDS Pipe

CONSTANTS p1, p2

MCProc == {p1, p2}
=============================================================================
