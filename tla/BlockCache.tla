----------------------------- MODULE BlockCache -----------------------------
(***************************************************************************)
(* The block cache of easy-fs (easy-fs/src/block_cache.rs): the queue of   *)
(* cached blocks, the handles that callers hold, the replacement of an     *)
(* entry nobody holds, the write back on drop and block_cache_sync_all.    *)
(*                                                                         *)
(* Callers lock the cache of a block for the length of a closure, and      *)
(* nest closures on different blocks: handles is the stack of the caches   *)
(* locked now.  The data of a block is one value.  The device writes a     *)
(* block at once.  Nothing writes the cache back when the machine goes     *)
(* down, and power_off can come at any time, also in the middle of         *)
(* block_cache_sync_all.                                                   *)
(***************************************************************************)
EXTENDS Integers, Sequences, SequencesExt

CONSTANTS
    Block, Data,
    BLOCK_CACHE_SIZE,
    Cache,      \* the BlockCache objects (the bound on the heap)
    MaxHeld     \* how deep callers nest closures

ASSUME CacheAssumption ==
    /\ BLOCK_CACHE_SIZE \in Nat \ {0}
    /\ MaxHeld \in Nat

VARIABLES
    queue,      \* BLOCK_CACHE_MANAGER
    handles,    \* the Arcs outside the queue, the innermost last
    block_id, cache, modified,      \* per BlockCache
    disk,       \* the block device
    sync_pos,   \* the next entry block_cache_sync_all looks at, 0 outside it
    panic,
    written     \* history: what was written to each block last

objects == <<block_id, cache, modified>>
vars    == <<queue, handles, objects, disk, sync_pos, panic, written>>

Live == ToSet(queue) \cup ToSet(handles)

Init ==
    /\ queue = <<>> /\ handles = <<>>
    /\ disk \in [Block -> Data]
    /\ \E b \in Block, d \in Data :
         /\ block_id = [c \in Cache |-> b]
         /\ cache = [c \in Cache |-> d]
    /\ modified = [c \in Cache |-> FALSE]
    /\ sync_pos = 0
    /\ panic = FALSE
    /\ written = disk
-----------------------------------------------------------------------------
\* Variant: a write back that comes too late for the device.
disk_after_no_write(c) == disk

\* BlockCache::sync writes the block if it was modified.
disk_after(c) == IF modified[c] THEN [disk EXCEPT ![block_id[c]] = cache[c]] ELSE disk

\* BlockCache::new reads the block from the device as the write back left it.
new_cache(c, b, device) ==
    /\ block_id' = [block_id EXCEPT ![c] = b]
    /\ cache' = [cache EXCEPT ![c] = device[b]]
    /\ modified' = [modified EXCEPT ![c] = FALSE]

\* Variant: the queue is not searched.
Existed_never(b) == {}

Existed(b) == {c \in ToSet(queue) : block_id[c] = b}

\* Variant: the strong count is not consulted.
Replaceable_any == DOMAIN queue

\* Variant: the count of the queue's own Arc is forgotten.
Replaceable_none == {}

\* The entries whose strong count is 1.
Replaceable == {i \in DOMAIN queue : queue[i] \notin ToSet(handles)}

MayGet(b) ==
    /\ ~panic /\ sync_pos = 0
    /\ Len(handles) < MaxHeld
    /\ b \notin {block_id[c] : c \in ToSet(handles)}

get_existing(b) ==
    /\ MayGet(b)
    /\ \E c \in Existed(b) : handles' = Append(handles, c)
    /\ UNCHANGED <<queue, objects, disk, sync_pos, panic, written>>

MustReplace == Len(queue) = BLOCK_CACHE_SIZE

get_new(b, c) ==
    /\ MayGet(b) /\ Existed(b) = {} /\ ~MustReplace
    /\ c \notin Live
    /\ new_cache(c, b, disk)
    /\ queue' = Append(queue, c)
    /\ handles' = Append(handles, c)
    /\ UNCHANGED <<disk, sync_pos, panic, written>>

\* The first entry nobody holds is drained: its drop writes it back.
get_replacing(b, c) ==
    /\ MayGet(b) /\ Existed(b) = {} /\ MustReplace
    /\ c \notin Live
    /\ \E i \in Replaceable :
         /\ \A j \in Replaceable : i <= j
         /\ disk' = disk_after(queue[i])
         /\ queue' = Append(RemoveAt(queue, i), c)
    /\ new_cache(c, b, disk')
    /\ handles' = Append(handles, c)
    /\ UNCHANGED <<sync_pos, panic, written>>

\* "Block cache queue is full"
get_fails(b) ==
    /\ MayGet(b) /\ Existed(b) = {} /\ MustReplace /\ Replaceable = {}
    /\ panic' = TRUE
    /\ UNCHANGED <<queue, handles, objects, disk, sync_pos, written>>

modify(c, d) ==
    /\ ~panic /\ sync_pos = 0 /\ c \in ToSet(handles)
    /\ cache' = [cache EXCEPT ![c] = d]
    /\ modified' = [modified EXCEPT ![c] = TRUE]
    /\ written' = [written EXCEPT ![block_id[c]] = d]
    /\ UNCHANGED <<queue, handles, block_id, disk, sync_pos, panic>>

\* A closure returns.  A cache that left the queue would be written back here.
drop_handle ==
    /\ ~panic /\ sync_pos = 0 /\ handles # <<>>
    /\ handles' = Front(handles)
    /\ disk' = IF Last(handles) \in ToSet(queue) THEN disk ELSE disk_after(Last(handles))
    /\ UNCHANGED <<queue, objects, sync_pos, panic, written>>
-----------------------------------------------------------------------------
(***************************************************************************)
(* block_cache_sync_all.  It locks every cache in turn, and its callers    *)
(* hold none.                                                              *)
(***************************************************************************)
sync_begins ==
    /\ ~panic /\ sync_pos = 0 /\ handles = <<>> /\ queue # <<>>
    /\ sync_pos' = 1
    /\ UNCHANGED <<queue, handles, objects, disk, panic, written>>

\* Variant: the last entry is left out.
next_sync_pos_short(i) == IF i >= Len(queue) - 1 THEN 0 ELSE i + 1

next_sync_pos(i) == IF i = Len(queue) THEN 0 ELSE i + 1

sync_entry ==
    /\ ~panic /\ sync_pos > 0
    /\ LET c == queue[sync_pos]
       IN  /\ disk' = disk_after(c)
           /\ modified' = [modified EXCEPT ![c] = FALSE]
    /\ sync_pos' = next_sync_pos(sync_pos)
    /\ UNCHANGED <<queue, handles, block_id, cache, panic, written>>

power_off ==
    /\ queue' = <<>> /\ handles' = <<>>
    /\ sync_pos' = 0
    /\ panic' = FALSE
    /\ written' = disk
    /\ UNCHANGED <<objects, disk>>

Next ==
    \/ \E b \in Block : get_existing(b) \/ get_fails(b)
    \/ \E b \in Block, c \in Cache : get_new(b, c) \/ get_replacing(b, c)
    \/ \E c \in Cache, d \in Data : modify(c, d)
    \/ drop_handle
    \/ sync_begins
    \/ sync_entry
    \/ power_off

Spec == Init /\ [][Next]_vars
-----------------------------------------------------------------------------
(***************************************************************************)
(* The fields have the types of the Rust fields they stand for, and the    *)
(* assertion of get_block_cache on the length of the queue holds.          *)
(***************************************************************************)
TypeOK ==
    /\ queue \in Seq(Cache) /\ Len(queue) <= BLOCK_CACHE_SIZE
    /\ handles \in Seq(Cache)
    /\ block_id \in [Cache -> Block]
    /\ cache \in [Cache -> Data]
    /\ modified \in [Cache -> BOOLEAN]
    /\ disk \in [Block -> Data]
    /\ sync_pos \in 0 .. Len(queue)
    /\ panic \in BOOLEAN
    /\ written \in [Block -> Data]

(***************************************************************************)
(* There is one cached copy of a block at most, and it is the one every    *)
(* handle to the block leads to: replacement never takes an entry out of   *)
(* the queue that somebody still writes to.                                *)
(***************************************************************************)
OneCopy ==
    /\ \A i, j \in DOMAIN queue : block_id[queue[i]] = block_id[queue[j]] => i = j
    /\ ToSet(handles) \subseteq ToSet(queue)

(***************************************************************************)
(* A cached block that is not marked modified equals the block on the      *)
(* device, so that dropping it without a write loses nothing.              *)
(***************************************************************************)
CleanIsOnDevice ==
    \A c \in ToSet(queue) : ~modified[c] => cache[c] = disk[block_id[c]]

(***************************************************************************)
(* get_block_cache gives up ("Block cache queue is full") only when        *)
(* callers hold as many blocks at once as the queue has entries.           *)
(***************************************************************************)
FullOnlyWhenAllHeld == panic => Len(handles) >= BLOCK_CACHE_SIZE

(***************************************************************************)
(* The cache cannot be seen: the cached copy of a block, or the block on   *)
(* the device when there is none, is what was written to the block last.   *)
(***************************************************************************)
ReadsSeeWrites ==
    /\ \A c \in ToSet(queue) : cache[c] = written[block_id[c]]
    /\ \A b \in Block : (\A c \in ToSet(queue) : block_id[c] # b) => disk[b] = written[b]

(***************************************************************************)
(* When block_cache_sync_all returns, the device has every block as it     *)
(* was last written (the machine did not go down before it returned).      *)
(***************************************************************************)
SyncMakesDurable ==
    [][(sync_pos > 0 /\ sync_pos' = 0 /\ queue' = queue) => disk' = written]_vars

(***************************************************************************)
(* A block on the device changes only to what was last written to it, one  *)
(* block at a time, never back to something older, and going down loses    *)
(* the writes the device does not have and nothing else.                   *)
(***************************************************************************)
WriteBack == INSTANCE WriteBackDisk WITH current <- written

ImplementsDisk == WriteBack!Spec
=============================================================================
