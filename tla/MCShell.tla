------------------------------ MODULE MCShell -------------------------------
(***************************************************************************)
(* Four lines, each one of those below, in a row.  f and g come into      *)
(* being by redirection, filea by filetest_simple.  Process 2 runs the     *)
(* command and process 3 the child it forks.                               *)
(***************************************************************************)
EXTENDS Shell

MC_Process == 0..3
MC_InodeId == 1..4
MC_Programs == {"hello_world", "cat", "filetest_simple", "forktest_simple", "exit"}
MC_Name == MC_Programs \cup {"f", "g", "filea"}

MC_Lines == {
    << <<"hello_world", ">", "f">> >>,
    << <<"cat", "f">> >>,
    << <<"cat", "f", ">", "g">> >>,
    << <<"cat", ">", "f", "f">> >>,
    << <<"forktest_simple", ">", "f">> >>,
    << <<"exit", "<", "g", ">", "g">> >>,
    << <<"exit">> >>,
    << <<"filetest_simple", "<", "f">> >>,
    << <<"nosuch", ">", "g">> >>,
    << <<"f">> >>,
    << <<"hello_world", ">", "hello_world">> >>,
    << <<"cat", "cat">> >>,
    << <<"cat">> >>,
    << <<"cat", "f", "<">> >>,
    << <<>> >>,
    << <<"hello_world">>, <<"cat", "f">> >>,
    << <<"hello_world", ">", "f">>, <<"cat", "f">> >> }
=============================================================================
