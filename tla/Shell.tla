------------------------------- MODULE Shell --------------------------------
(***************************************************************************)
(* user_shell and the programs it starts (user/src/bin), on the processes  *)
(* of Processes (which Tasks implements) and the calls of Files.  A        *)
(* program is a sequence of instructions: a system call and what the       *)
(* program does with its result.  Processes interleave between any two.    *)
(*                                                                         *)
(* A text is a sequence of tokens: one for each string a program writes at *)
(* once, and one for a whole executable.  A command is a sequence of words *)
(* and a line a sequence of commands, as split by ' ' and '|'.             *)
(***************************************************************************)
EXTENDS Files

CONSTANTS
    SHELL,
    Programs,   \* the names of the executables in the image
    Lines,      \* the lines that may be typed
    MaxLines,   \* bound on the lines typed in a behaviour
    CHUNK       \* the length of cat's buffer

VARIABLES
    prog,       \* per process: its program, where it is, and its registers
    exit_code,  \* per process
    hung,       \* per process: "no", or why its panic handler loops
    command,    \* the command the shell runs, as parsed
    before,     \* history: dir when that command was typed
    typed       \* the number of lines typed

svars == <<family_vars, file_vars, panic, prog, exit_code, hung, command, before, typed>>
-----------------------------------------------------------------------------
\* The instructions.  In close, write, read and dup the descriptor -1 stands for the
\* one the last open returned.
Say(token) == [call |-> "print", text |-> <<token>>]
SayBuf == [call |-> "print_buf"]
Open(name, flags, low, fail) ==
    [call |-> "open", name |-> name, flags |-> flags, low |-> low, fail |-> fail]
Close(fd) == [call |-> "close", fd |-> fd]
DupTo(fd) == [call |-> "dup", to |-> fd]
Pipe == [call |-> "pipe"]
Write(token) == [call |-> "write", text |-> <<token>>]
Read(len) == [call |-> "read", len |-> len]
ReadToEnd(len) == [call |-> "read_to_end", len |-> len]
AssertBuf(token) == [call |-> "assert_buf", text |-> <<token>>]
ForkTo(pc) == [call |-> "fork", child |-> pc]
WaitAny(code) == [call |-> "wait", any |-> TRUE, code |-> code]
WaitChild(code) == [call |-> "wait", any |-> FALSE, code |-> code]
NoChild(any) == [call |-> "wait_none", any |-> any]
Exec(args) == [call |-> "exec", args |-> args]
ExitWith(code) == [call |-> "exit", code |-> code]
Panic(reason) == [call |-> "panic", reason |-> reason]
Prompt == [call |-> "prompt"]

\* What the shell's child does after a call that failed.
return_error == <<Say("error"), ExitWith(-4)>>

MAGIC == -66436

hello_world == <<Say("hello"), ExitWith(0)>>

cat(args) ==
    IF Len(args) # 2 THEN <<Panic("usage")>>
    ELSE <<Open(args[2], {}, 0, <<Panic("no_file")>>), ReadToEnd(CHUNK),
           SayBuf, Say("newline"), Close(-1), ExitWith(0)>>

filetest_simple ==
    LET failed == <<Panic("filetest")>> IN
    <<Open("filea", {"CREATE", "WRITE_ONLY"}, 1, failed), Write("data"), Close(-1),
      Open("filea", {}, 1, failed), Read(100), Close(-1), AssertBuf("data"),
      Say("passed"), ExitWith(0)>>

forktest_simple ==
    <<NoChild(TRUE), Say("start"), ForkTo(8), Say("ready"), WaitAny(100),
      Say("collected"), ExitWith(0),
      Say("child"), ExitWith(100)>>

exit_test ==
    <<Say("forking"), ForkTo(11), Say("parent"), Say("pid"), Say("waiting"),
      WaitChild(MAGIC), NoChild(FALSE), NoChild(TRUE), Say("pass"), ExitWith(0),
      Say("child"), ExitWith(MAGIC)>>

\* The program of an executable, as exec starts it.
main(name, args) ==
    CASE name = "hello_world" -> hello_world
      [] name = "cat" -> cat(args)
      [] name = "filetest_simple" -> filetest_simple
      [] name = "forktest_simple" -> forktest_simple
      [] name = "exit" -> exit_test
-----------------------------------------------------------------------------
\* ProcessArguments::new.  A redirection without a word after it fails there.
Position(words, mark) ==
    IF Contains(words, mark) THEN Least({i \in DOMAIN words : words[i] = mark}) ELSE 0

Redirected(words, mark) ==
    IF Contains(words, mark) THEN words[Position(words, mark) + 1] ELSE None

Drained(words, mark) ==
    LET i == Position(words, mark) IN
    IF i = 0 THEN words ELSE RemoveAt(RemoveAt(words, i), i)

IndexFails(words, mark) == Contains(words, mark) /\ Position(words, mark) = Len(words)

ArgumentsFail(words) ==
    IndexFails(words, "<") \/ IndexFails(Drained(words, "<"), ">")

ProcessArguments(words) ==
    LET rest == Drained(words, "<") IN
    [input |-> Redirected(words, "<"), output |-> Redirected(rest, ">"),
     args |-> Drained(rest, ">")]

\* Whether the redirections of a pipeline are at its ends.
valid(commands) ==
    \/ Len(commands) = 1
    \/ \A i \in DOMAIN commands :
         /\ i < Len(commands) => commands[i].output = None
         /\ i > 1 => commands[i].input = None

Redirect(name, flags, fd) ==
    IF name = None THEN <<>>
    ELSE <<Open(name, flags, 0, return_error), Close(fd), DupTo(fd), Close(-1)>>

\* Variant: only the output is redirected.
child_output_only(cmd) ==
    Redirect(cmd.output, {"CREATE", "WRITE_ONLY"}, 1)
      \o <<IF cmd.args = <<>> THEN Panic("no_command") ELSE Exec(cmd.args)>>

\* What the child does before it is the program.
child(cmd) ==
    Redirect(cmd.input, {}, 0)
      \o Redirect(cmd.output, {"CREATE", "WRITE_ONLY"}, 1)
      \o <<IF cmd.args = <<>> THEN Panic("no_command") ELSE Exec(cmd.args)>>

\* The shell and its child, for one command.  For a pipeline the shell makes the
\* pipes first, and does not come any further.
run(commands) ==
    IF Len(commands) > 1 THEN <<Pipe, Prompt>>
    ELSE <<ForkTo(4), WaitChild(None), Prompt>> \o child(commands[1])
-----------------------------------------------------------------------------
Started(code, args) ==
    [code |-> code, pc |-> 1, args |-> args, fd |-> 0, buf |-> <<>>, child |-> None]

SInit ==
    /\ state = [p \in Process |-> IF p \in {INITPROC, SHELL} THEN "Live" ELSE "Free"]
    /\ parent = [p \in Process |-> IF p = SHELL THEN INITPROC ELSE None]
    /\ dir = [n \in Programs |-> <<n>>]
    /\ os_inodes = [id \in InodeId |-> None]
    /\ fd_table = [p \in Process |-> IF p \in {INITPROC, SHELL} THEN new_fd_table ELSE <<>>]
    /\ console = <<>>
    /\ panic = "none"
    /\ prog = [p \in Process |-> Started(IF p = SHELL THEN <<Prompt>> ELSE <<>>, <<>>)]
    /\ exit_code = [p \in Process |-> 0]
    /\ hung = [p \in Process |-> "no"]
    /\ command = None /\ before = dir /\ typed = 0

instr(p) == prog[p].code[prog[p].pc]
At(p, call) == panic = "none" /\ prog[p].code # <<>> /\ instr(p).call = call

\* p goes on at the next instruction, with the registers r; or at the start of code.
Advance(p, r) == prog' = [prog EXCEPT ![p] = [r EXCEPT !.pc = @ + 1]]
Continue(p, code) == prog' = [prog EXCEPT ![p].code = code, ![p].pc = 1]

shell_vars == <<command, before, typed>>
call_vars == <<family_vars, exit_code, hung, panic, shell_vars>>

print(p) ==
    /\ At(p, "print") \/ At(p, "print_buf")
    /\ UNCHANGED call_vars
    /\ sys_write(p, 1, IF instr(p).call = "print" THEN instr(p).text ELSE prog[p].buf)
    /\ Advance(p, prog[p])

open(p) ==
    LET i == instr(p)
        fd == open_result(p, i.name, i.flags)
    IN /\ At(p, "open")
       /\ UNCHANGED call_vars
       /\ sys_open(p, i.name, i.flags)
       /\ IF fd < i.low THEN Continue(p, i.fail) ELSE Advance(p, [prog[p] EXCEPT !.fd = fd])

close(p) ==
    /\ At(p, "close")
    /\ UNCHANGED call_vars
    /\ sys_close(p, IF instr(p).fd = -1 THEN prog[p].fd ELSE instr(p).fd)
    /\ Advance(p, prog[p])

dup(p) ==
    /\ At(p, "dup")
    /\ UNCHANGED call_vars
    /\ sys_dup(p, prog[p].fd)
    /\ IF dup_result(p, prog[p].fd) = instr(p).to THEN Advance(p, prog[p])
       ELSE Continue(p, <<Panic("dup")>>)

pipe(p) ==
    /\ At(p, "pipe")
    /\ sys_pipe(p)
    /\ IF panic' = "none" THEN Advance(p, prog[p]) ELSE UNCHANGED prog
    /\ UNCHANGED <<family_vars, exit_code, hung, shell_vars>>

write(p) ==
    /\ At(p, "write")
    /\ UNCHANGED call_vars
    /\ sys_write(p, prog[p].fd, instr(p).text)
    /\ Advance(p, prog[p])

\* One read, or cat's loop: an executable is not UTF-8.
read(p) ==
    LET text == read_result(p, prog[p].fd, instr(p).len) IN
    /\ At(p, "read") \/ At(p, "read_to_end")
    /\ UNCHANGED call_vars
    /\ sys_read(p, prog[p].fd, instr(p).len)
    /\ IF instr(p).call = "read" THEN Advance(p, [prog[p] EXCEPT !.buf = text])
       ELSE IF text = <<>> THEN Advance(p, prog[p])
       ELSE IF ToSet(text) \cap Programs # {} THEN Continue(p, <<Panic("not_text")>>)
       ELSE prog' = [prog EXCEPT ![p].buf = @ \o text]

assert_buf(p) ==
    /\ At(p, "assert_buf")
    /\ IF prog[p].buf = instr(p).text THEN Advance(p, prog[p]) ELSE Continue(p, <<Panic("filetest")>>)
    /\ UNCHANGED <<file_vars, call_vars>>

\* The child goes on in the same program, with the same registers and files.
fork(p) ==
    LET c == Least({q \in Process : state[q] = "Free"}) IN
    /\ At(p, "fork")
    /\ Fork(p, c)
    /\ fork_table(p, c)
    /\ prog' = [prog EXCEPT ![p].pc = @ + 1, ![p].child = c,
                            ![c] = [prog[p] EXCEPT !.pc = instr(p).child]]
    /\ UNCHANGED <<exit_code, hung, panic, shell_vars>>

Awaited(p) == {c \in Process : parent[c] = p /\ (instr(p).any \/ c = prog[p].child)}

\* Variant: only a child that succeeded.
ExitedCleanly(c) == state[c] = "Zombie" /\ exit_code[c] = 0

Exited(c) == state[c] = "Zombie"

\* wait and waitpid yield while the child runs, and collect it when it exited.
wait(p) ==
    /\ At(p, "wait")
    /\ \E c \in Awaited(p) :
         /\ Exited(c)
         /\ Reap(p, c)
         /\ drop_table(c)
         /\ prog' = [prog EXCEPT
               ![c] = Started(<<>>, <<>>),
               ![p] = IF c = prog[p].child /\ instr(p).code \in {None, exit_code[c]}
                      THEN [@ EXCEPT !.pc = @ + 1, !.child = None]
                      ELSE [@ EXCEPT !.code = <<Panic("wait")>>, !.pc = 1]]
    /\ UNCHANGED <<exit_code, hung, panic, shell_vars>>

\* They return at once where there is no such child: what was asserted, or not.
wait_none(p) ==
    /\ At(p, "wait") \/ At(p, "wait_none")
    /\ Awaited(p) = {}
    /\ IF instr(p).call = "wait_none" THEN Advance(p, prog[p]) ELSE Continue(p, <<Panic("wait")>>)
    /\ UNCHANGED <<file_vars, call_vars>>

\* exec of a file that is not an executable stops the kernel in from_elf.
exec(p) ==
    LET args == instr(p).args
        name == args[1]
    IN /\ At(p, "exec")
       /\ IF name \notin DOMAIN dir THEN Continue(p, return_error) /\ UNCHANGED panic
          ELSE IF dir[name] # <<>> /\ dir[name][1] \in Programs
          THEN /\ prog' = [prog EXCEPT ![p] = Started(main(dir[name][1], args), args)]
               /\ UNCHANGED panic
          ELSE panic' = "from_elf" /\ UNCHANGED prog
       /\ UNCHANGED <<family_vars, file_vars, exit_code, hung, shell_vars>>

exit(p) ==
    /\ At(p, "exit")
    /\ Exit(p)
    /\ exit_code' = [exit_code EXCEPT ![p] = instr(p).code]
    /\ prog' = [prog EXCEPT ![p] = Started(<<>>, <<>>)]
    /\ UNCHANGED <<file_vars, hung, panic, shell_vars>>

\* panic_handler prints and loops; nothing ends the process.
panic_handler(p) ==
    /\ At(p, "panic")
    /\ UNCHANGED <<family_vars, exit_code, panic, shell_vars>>
    /\ sys_write(p, 1, <<"panicked">>)
    /\ hung' = [hung EXCEPT ![p] = instr(p).reason]
    /\ prog' = [prog EXCEPT ![p].code = <<>>]

\* The shell's loop: a line is typed, parsed and run.
read_line(line) ==
    LET commands == [i \in DOMAIN line |-> ProcessArguments(line[i])]
        parses == \A i \in DOMAIN line : ~ArgumentsFail(line[i])
    IN /\ At(SHELL, "prompt") /\ typed < MaxLines
       /\ typed' = typed + 1
       /\ before' = dir
       /\ command' = IF parses THEN commands ELSE None
       /\ console' = IF parses /\ ~valid(commands) THEN <<"invalid">> ELSE <<>>
       /\ IF ~parses THEN Continue(SHELL, <<Panic("redirection")>>)
          ELSE IF ~valid(commands) THEN UNCHANGED prog
          ELSE Continue(SHELL, run(commands))
       /\ UNCHANGED <<family_vars, dir, os_inodes, fd_table, exit_code, hung, panic>>

Step(p) ==
    \/ print(p) \/ open(p) \/ close(p) \/ dup(p) \/ pipe(p) \/ write(p) \/ read(p) \/ assert_buf(p)
    \/ fork(p) \/ wait(p) \/ wait_none(p) \/ exec(p) \/ exit(p) \/ panic_handler(p)

SNext == (\E p \in Process : Step(p)) \/ \E line \in Lines : read_line(line)

\* Every process that is ready runs again (ReadyRuns of Tasks).  Nobody has to type.
SSpec == SInit /\ [][SNext]_svars /\ \A p \in Process : WF_svars(Step(p))
-----------------------------------------------------------------------------
\* The reference: what a program prints, and the directory d it leaves.  The two
\* processes of forktest_simple and exit print in any order that each one's own allows.
Shuffles(a, b) ==
    {t \in [1..(Len(a) + Len(b)) -> ToSet(a \o b)] :
       \E I \in SUBSET DOMAIN t :
         LET Take(J) == SelectSeq([k \in DOMAIN t |-> IF k \in J THEN t[k] ELSE "-"],
                                  LAMBDA x : x # "-")
         IN Take(I) = a /\ Take(DOMAIN t \ I) = b}

Texts(name, args, d) ==
    CASE name = "hello_world" -> {<<"hello">>}
      [] name = "cat" -> {d[args[2]] \o <<"newline">>}
      [] name = "filetest_simple" -> {<<"passed">>}
      [] name = "forktest_simple" ->
           {<<"start">> \o s \o <<"collected">> : s \in Shuffles(<<"ready">>, <<"child">>)}
      [] name = "exit" ->
           {<<"forking">> \o s \o <<"pass">> :
              s \in Shuffles(<<"parent", "pid", "waiting">>, <<"child">>)}

After(name, d) ==
    IF name = "filetest_simple" THEN [n \in DOMAIN d \cup {"filea"} |->
                                        IF n = "filea" THEN <<"data">> ELSE d[n]]
    ELSE d

Effects(cmd, d) ==
    LET emptied == IF cmd.output = None THEN d
                   ELSE [n \in DOMAIN d \cup {cmd.output} |-> IF n = cmd.output THEN <<>> ELSE d[n]]
        name == cmd.args[1]
        found == name \in DOMAIN emptied
        texts == IF found THEN Texts(emptied[name][1], cmd.args, emptied) ELSE {<<"error">>}
        left == IF found THEN After(emptied[name][1], emptied) ELSE emptied
    IN IF cmd.input # None /\ cmd.input \notin DOMAIN d
       THEN {[dir |-> d, console |-> <<"error">>]}
       ELSE {IF cmd.output = None THEN [dir |-> left, console |-> t]
             ELSE [dir |-> [left EXCEPT ![cmd.output] = t], console |-> <<>>] : t \in texts}

AtPrompt == prog[SHELL].code # <<>> /\ instr(SHELL).call = "prompt"

\* When the shell prompts again, the command has had exactly its effect: what it
\* printed, in an order its processes allow, is on the console or in the file the
\* output was redirected to, complete although a parent and its child write through
\* one shared offset (os/src/fs/inode.rs:75-85); no other file changed; and an error
\* went to the console only if it came before the output was redirected.
CommandEffect ==
    [][~AtPrompt /\ AtPrompt' => [dir |-> dir', console |-> console'] \in Effects(command[1], before)]_svars

IsStream(file, name, device, r, w) ==
    IF name = None THEN file = device
    ELSE file \in InodeId /\ os_inodes[file] = [name |-> name, offset |-> 0, readable |-> r, writable |-> w]

\* exec has just started a program in a child of the shell.
IsFresh(p) ==
    /\ parent[p] = SHELL /\ prog[p].args # <<>> /\ prog[p].pc = 1
    /\ \E name \in Programs : prog[p].code = main(name, prog[p].args)

\* A program starts with the streams that were typed and no other descriptor
\* (user_shell.rs:126-157, os/src/syscall/fs.rs:53-111); and when the shell prompts,
\* no process but initproc and the shell is left, they have the console alone, and no
\* OSInode is still referred to.
StreamsAsTyped ==
    /\ \A p \in Process :
         IsFresh(p) =>
           /\ IsStream(fd_table[p][1], command[1].input, STDIN, TRUE, FALSE)
           /\ IsStream(fd_table[p][2], command[1].output, STDOUT, FALSE, TRUE)
           /\ fd_table[p][3] = STDOUT
           /\ \A k \in 4..Len(fd_table[p]) : fd_table[p][k] = None
    /\ AtPrompt =>
         /\ \A p \in Process :
              /\ state[p] = "Live" <=> p \in {INITPROC, SHELL}
              /\ fd_table[p] = IF state[p] = "Live" THEN new_fd_table ELSE <<>>
         /\ \A id \in InodeId : os_inodes[id] = None

\* The assertions of the shell and of the programs hold (dup gives the descriptor
\* that was closed, wait the child and its code, a read what was written): a panic
\* handler loops only for a line that names no command or no file, or an executable
\* as text.  exec stops the kernel only for something that is not an executable
\* (os/src/mm/memory_set.rs:302).
AssertionsHold ==
    /\ \A p \in Process :
         hung[p] \in {"no", "redirection", "no_command", "usage", "no_file", "not_text"}
    /\ panic = "from_elf" =>
         LET name == command[1].args[1] IN name \in DOMAIN dir /\ dir[name] # <<name>>

\* What the comment on sys_pipe says (os/src/syscall/fs.rs:80), and the pipelines of
\* user_shell rest on: a call of pipe registers two descriptors for the process that
\* were free, one of the read end and one of the write end.
PipeRegistersTwo ==
    [][\A p \in Process : pipe(p) =>
         \E r, w \in 0..(Len(fd_table'[p]) - 1) :
           /\ ~IsOpen(p, r) /\ fd_table'[p][r + 1] = PIPE_READ
           /\ ~IsOpen(p, w) /\ fd_table'[p][w + 1] = PIPE_WRITE]_svars

\* The shell prompts again after every command, unless a panic handler loops or the
\* kernel stopped: the shell waits for a child that does exit, and its waits and
\* those of the programs never wait for each other.
PromptReturns ==
    ~AtPrompt ~> (AtPrompt \/ panic # "none" \/ \E p \in Process : hung[p] # "no")
=============================================================================
