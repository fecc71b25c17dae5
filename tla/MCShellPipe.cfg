\* The instance of MCShell.cfg.
CONSTANTS
    Process <- MC_Process
    INITPROC = 0
    SHELL = 1
    InodeId <- MC_InodeId
    Programs <- MC_Programs
    Name <- MC_Name
    Lines <- MC_Lines
    MaxLines = 4
    CHUNK = 2
    STDIN = STDIN
    STDOUT = STDOUT
    PIPE_READ = PIPE_READ
    PIPE_WRITE = PIPE_WRITE
    ZERO = ZERO
    None = None
SPECIFICATION SSpec
PROPERTIES
    PipeRegistersTwo
CHECK_DEADLOCK FALSE
