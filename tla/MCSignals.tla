----------------------------- MODULE MCSignals -----------------------------
(***************************************************************************)
(* The instance of Signals for TLC.                                        *)
(***************************************************************************)
EXTENDS Signals

MCSig == {SIGDEF, SIGILL, SIGKILL, SIGCONT, SIGSTOP, 20}

MCMasks == {{}, {SIGILL, SIGKILL, SIGCONT}}
=============================================================================
