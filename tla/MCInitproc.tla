----------------------------- MODULE MCInitproc -----------------------------
(* The instance of Initproc, and so of Tasks, for the run: its constants    *)
(* are model values given in MCInitproc.cfg; there is no symmetry           *)
(* reduction, which is not sound for liveness.                              *)
EXTENDS Initproc
=============================================================================
