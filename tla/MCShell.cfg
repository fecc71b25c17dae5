CONSTANTS
    Process <- MC_Process
    INITPROC = 0
    SHELL = 1
    InodeId <- MC_InodeId
    Programs <- MC_Programs
    Name <- MC_Name
    Lines <- MC_Lines
    MaxLines = 4
    CHUNK = 2
    STDIN = STDIN
    STDOUT = STDOUT
    PIPE_READ = PIPE_READ
    PIPE_WRITE = PIPE_WRITE
    ZERO = ZERO
    None = None
SPECIFICATION SSpec
INVARIANTS
    StreamsAsTyped
    AssertionsHold
PROPERTIES
    CommandEffect
    PromptReturns
\* At the prompt after the last line, and once the kernel stopped or a program hung.
CHECK_DEADLOCK FALSE
