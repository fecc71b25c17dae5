------------------------------- MODULE Files --------------------------------
(***************************************************************************)
(* Descriptor tables and the file system calls (os/src/syscall/fs.rs) over *)
(* open files (os/src/fs): the console and OSInodes with an offset of      *)
(* their own.  The directory below them is the one easy-fs promises        *)
(* (FlatFs, which EasyFs implements).                                      *)
(*                                                                         *)
(* An OSInode has an id; it lives as long as a descriptor refers to it.    *)
(* Stdin and Stdout have no state and are themselves, and so are the ends  *)
(* of a pipe.  A table is a sequence: the descriptor fd is its element     *)
(* fd + 1.                                                                 *)
(***************************************************************************)
EXTENDS Processes, Integers, Sequences, SequencesExt

CONSTANTS
    Name,
    InodeId,    \* 1..n for some n: bounds the OSInodes that live at one time
    STDIN, STDOUT, PIPE_READ, PIPE_WRITE, ZERO

VARIABLES
    dir,        \* the files of the root directory
    os_inodes,  \* per id: the OSInode, or None
    fd_table,   \* per process
    console,    \* what was printed since the last command was typed
    panic       \* "none", or the site at which the kernel stopped

file_vars == <<dir, os_inodes, fd_table, console>>

\* Room on the device is not at stake here: the file system stops with the kernel.
Fs == INSTANCE FlatFs WITH files <- dir, stopped <- (panic # "none"), Request <- {}

\* The table TaskControlBlock::new makes.
new_fd_table == <<STDIN, STDOUT, STDOUT>>
-----------------------------------------------------------------------------
Least(S) == CHOOSE x \in S : \A y \in S : x <= y

\* Variant: a new descriptor always goes to the end of the table.
alloc_fd_push(t) == Len(t)

\* alloc_fd: the lowest free descriptor, or a new one.
alloc_fd(t) == Least({k \in 0..Len(t) : k = Len(t) \/ t[k + 1] = None})

Placed(t, fd, file) == IF fd < Len(t) THEN [t EXCEPT ![fd + 1] = file] ELSE Append(t, file)

IsOpen(p, fd) == fd < Len(fd_table[p]) /\ fd_table[p][fd + 1] # None

FileAt(p, fd) == fd_table[p][fd + 1]

\* The tables change, and an OSInode no table refers to any more is dropped.
SetTables(tables, inodes) ==
    /\ fd_table' = tables
    /\ os_inodes' = [id \in InodeId |->
                       IF \E p \in Process : id \in ToSet(tables[p]) THEN inodes[id] ELSE None]

SetTable(p, t) == SetTables([fd_table EXCEPT ![p] = t], os_inodes)

readable(flags) == "WRITE_ONLY" \notin flags
writable(flags) == flags # {}

\* open_file finds or creates the file; CREATE and TRUNCATE empty an old one.
Opens(name, flags) == "CREATE" \in flags \/ name \in DOMAIN dir

open_file(name, flags) ==
    IF name \notin DOMAIN dir THEN Fs!Create(name)
    ELSE IF flags \cap {"CREATE", "TRUNCATE"} # {} THEN Fs!Clear(name)
    ELSE UNCHANGED dir

open_result(p, name, flags) == IF Opens(name, flags) THEN alloc_fd(fd_table[p]) ELSE -1

sys_open(p, name, flags) ==
    /\ UNCHANGED console
    /\ IF ~Opens(name, flags) THEN UNCHANGED <<dir, os_inodes, fd_table>>
       ELSE LET id == Least({i \in InodeId : os_inodes[i] = None})
                inode == [name |-> name, offset |-> 0,
                          readable |-> readable(flags), writable |-> writable(flags)]
            IN /\ open_file(name, flags)
               /\ SetTables([fd_table EXCEPT ![p] = Placed(@, alloc_fd(@), id)],
                            [os_inodes EXCEPT ![id] = inode])

sys_close(p, fd) ==
    /\ IF IsOpen(p, fd) THEN SetTable(p, [fd_table[p] EXCEPT ![fd + 1] = None])
       ELSE UNCHANGED <<os_inodes, fd_table>>
    /\ UNCHANGED <<dir, console>>

dup_result(p, fd) == IF IsOpen(p, fd) THEN alloc_fd(fd_table[p]) ELSE -1

sys_dup(p, fd) ==
    /\ IF IsOpen(p, fd) THEN SetTable(p, Placed(fd_table[p], dup_result(p, fd), FileAt(p, fd)))
       ELSE UNCHANGED <<os_inodes, fd_table>>
    /\ UNCHANGED <<dir, console>>

\* The inner cell of a task is a RefCell: "free", or "borrowed" until the guard of an
\* exclusive access is dropped, and a borrow of a borrowed cell panics.
inner_exclusive_access(cell) == IF cell = "free" THEN "borrowed" ELSE "panic"

\* It borrows the cell and drops the guard.
current_user_token(cell) == IF inner_exclusive_access(cell) = "panic" THEN "panic" ELSE cell

\* The guard of the first access is held to the end of the call.
sys_pipe(p) ==
    LET cell == current_user_token(inner_exclusive_access("free"))
        t == Placed(fd_table[p], alloc_fd(fd_table[p]), PIPE_READ)
    IN /\ IF cell = "panic" THEN panic' = "sys_pipe" /\ UNCHANGED <<os_inodes, fd_table>>
          ELSE SetTable(p, Placed(t, alloc_fd(t), PIPE_WRITE)) /\ UNCHANGED panic
       /\ UNCHANGED <<dir, console>>

CanRead(p, fd) == IsOpen(p, fd) /\ FileAt(p, fd) \in InodeId /\ os_inodes[FileAt(p, fd)].readable
CanWrite(p, fd) == IsOpen(p, fd) /\ FileAt(p, fd) \in InodeId /\ os_inodes[FileAt(p, fd)].writable

\* What a read of len bytes returns: for an OSInode, what there is at its
\* offset; nothing where the call fails.  (Only the shell reads Stdin.)
read_result(p, fd, len) ==
    LET file == os_inodes[FileAt(p, fd)]
        text == dir[file.name]
        end  == IF file.offset + len < Len(text) THEN file.offset + len ELSE Len(text)
    IN IF CanRead(p, fd) THEN SubSeq(text, file.offset + 1, end) ELSE <<>>

sys_read(p, fd, len) ==
    /\ os_inodes' = IF CanRead(p, fd)
                    THEN [os_inodes EXCEPT ![FileAt(p, fd)].offset = @ + Len(read_result(p, fd, len))]
                    ELSE os_inodes
    /\ UNCHANGED <<dir, fd_table, console>>

\* Variant: the offset is not moved.
write_inode_in_place(id, text) ==
    /\ Fs!Write(os_inodes[id].name, os_inodes[id].offset, text)
    /\ UNCHANGED os_inodes

\* OSInode::write: at the offset, which moves past the bytes written.
write_inode(id, text) ==
    /\ Fs!Write(os_inodes[id].name, os_inodes[id].offset, text)
    /\ os_inodes' = [os_inodes EXCEPT ![id].offset = @ + Len(text)]

sys_write(p, fd, text) ==
    /\ IF CanWrite(p, fd) THEN write_inode(FileAt(p, fd), text) ELSE UNCHANGED <<dir, os_inodes>>
    /\ console' = IF IsOpen(p, fd) /\ FileAt(p, fd) = STDOUT THEN console \o text ELSE console
    /\ UNCHANGED fd_table

\* fork gives the child the same open files.
fork_table(p, c) == SetTable(c, fd_table[p]) /\ UNCHANGED <<dir, console>>

\* The table goes with the TCB, when it is reaped.
drop_table(c) == SetTable(c, <<>>) /\ UNCHANGED <<dir, console>>
=============================================================================
