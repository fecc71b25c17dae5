-------------------------- MODULE BlockCacheProofs --------------------------
(***************************************************************************)
(* Proofs about the block cache, for every set of blocks, every size of    *)
(* the queue and every depth to which callers nest.                        *)
(*                                                                         *)
(* SyncedPrefix is the invariant of the loop of block_cache_sync_all: the  *)
(* entries it has passed are clean, and nobody holds a handle that could   *)
(* make them dirty again.                                                  *)
(***************************************************************************)
EXTENDS BlockCache, SeqLemmas, FunctionTheorems

SyncedPrefix ==
    sync_pos > 0 => /\ handles = <<>>
                    /\ \A i \in 1 .. sync_pos - 1 : ~modified[queue[i]]

IInv == TypeOK /\ OneCopy /\ CleanIsOnDevice /\ ReadsSeeWrites /\ SyncedPrefix

\* An empty cache in front of any device.
LEMMA InitIInv == Init => IInv
<1> SUFFICES ASSUME Init PROVE IInv
  OBVIOUS
<1>1. /\ queue = <<>> /\ handles = <<>> /\ ToSet(queue) = {} /\ ToSet(handles) = {}
      /\ DOMAIN queue = {} /\ Len(queue) = 0
  BY DEF Init, ToSet
<1>2. TypeOK
  <2>1. modified \in [Cache -> BOOLEAN] /\ panic \in BOOLEAN
    BY Zenon DEF Init
  <2>2. block_id \in [Cache -> Block] /\ cache \in [Cache -> Data]
    BY Zenon DEF Init
  <2>3. disk \in [Block -> Data] /\ written \in [Block -> Data]
    BY DEF Init
  <2>4. queue \in Seq(Cache) /\ handles \in Seq(Cache) /\ Len(queue) <= BLOCK_CACHE_SIZE
    BY <1>1, CacheAssumption
  <2>5. sync_pos \in 0 .. Len(queue)
    BY <1>1 DEF Init
  <2> QED
    BY <2>1, <2>2, <2>3, <2>4, <2>5 DEF TypeOK
<1>3. OneCopy
  BY <1>1 DEF OneCopy
<1>4. CleanIsOnDevice /\ ReadsSeeWrites /\ SyncedPrefix
  BY <1>1 DEF Init, CleanIsOnDevice, ReadsSeeWrites, SyncedPrefix
<1> QED
  BY <1>2, <1>3, <1>4 DEF IInv

\* One entry per block, said of the entries instead of their positions.
LEMMA OneEntryPerBlock ==
    ASSUME NEW q \in Seq(Cache), NEW id \in [Cache -> Block]
    PROVE  (\A i, j \in DOMAIN q : id[q[i]] = id[q[j]] => i = j)
             <=> /\ IsInjective(q)
                 /\ \A c, d \in ToSet(q) : id[c] = id[d] => c = d
<1>1. ASSUME \A i, j \in DOMAIN q : id[q[i]] = id[q[j]] => i = j
      PROVE  IsInjective(q) /\ \A c, d \in ToSet(q) : id[c] = id[d] => c = d
  BY <1>1 DEF IsInjective, ToSet
<1>2. ASSUME IsInjective(q), \A c, d \in ToSet(q) : id[c] = id[d] => c = d,
             NEW i \in DOMAIN q, NEW j \in DOMAIN q, id[q[i]] = id[q[j]]
      PROVE  i = j
  BY <1>2 DEF IsInjective, ToSet
<1> QED
  BY <1>1, <1>2

\* A new cache is appended to a queue q in which the invariant holds of the device dev.
LEMMA InsertIInv ==
    ASSUME IInv, sync_pos = 0,
           NEW q \in Seq(Cache), Len(q) < BLOCK_CACHE_SIZE,
           IsInjective(q), \A d, e \in ToSet(q) : block_id[d] = block_id[e] => d = e,
           ToSet(handles) \subseteq ToSet(q),
           NEW dev \in [Block -> Data],
           \A d \in ToSet(q) : ~modified[d] => cache[d] = dev[block_id[d]],
           \A d \in ToSet(q) : cache[d] = written[block_id[d]],
           \A e \in Block : (\A d \in ToSet(q) : block_id[d] # e) => dev[e] = written[e],
           NEW c \in Cache, c \notin ToSet(q),
           NEW b \in Block, \A d \in ToSet(q) : block_id[d] # b,
           new_cache(c, b, dev),
           queue' = Append(q, c), handles' = Append(handles, c), disk' = dev,
           UNCHANGED <<sync_pos, panic, written>>
    PROVE  IInv'
<1>1. /\ queue' \in Seq(Cache) /\ ToSet(queue') = ToSet(q) \cup {c} /\ IsInjective(queue')
      /\ Len(queue') = Len(q) + 1
  BY AppendElements, AppendProperties
<1>2. handles' \in Seq(Cache) /\ ToSet(handles') = ToSet(handles) \cup {c}
  BY AppendElements DEF IInv, TypeOK
<1>3. /\ block_id' \in [Cache -> Block] /\ cache' \in [Cache -> Data]
      /\ modified' \in [Cache -> BOOLEAN]
      /\ block_id'[c] = b /\ cache'[c] = dev[b] /\ ~modified'[c]
      /\ \A d \in Cache \ {c} : /\ block_id'[d] = block_id[d] /\ cache'[d] = cache[d]
                               /\ modified'[d] = modified[d]
  BY DEF new_cache, IInv, TypeOK
<1>4. ToSet(q) \subseteq Cache \ {c} /\ Len(q) \in Nat
  BY LenProperties DEF ToSet
<1>5. TypeOK'
  BY <1>1, <1>2, <1>3, <1>4, CacheAssumption DEF IInv, TypeOK
<1>6. OneCopy'
  <2>1. \A d, e \in ToSet(queue') : block_id'[d] = block_id'[e] => d = e
    BY <1>1, <1>3, <1>4
  <2> DEFINE r  == queue'
             id == block_id'
  <2>2. r \in Seq(Cache) /\ id \in [Cache -> Block]
    BY <1>1, <1>3
  <2>3. IsInjective(r) /\ \A d, e \in ToSet(r) : id[d] = id[e] => d = e
    BY <1>1, <2>1
  <2> HIDE DEF r, id
  <2>4. \A i, j \in DOMAIN r : id[r[i]] = id[r[j]] => i = j
    BY <2>2, <2>3, OneEntryPerBlock
  <2>5. ToSet(handles') \subseteq ToSet(queue')
    BY <1>1, <1>2
  <2> QED
    BY <2>4, <2>5 DEF OneCopy, r, id
<1>7. CleanIsOnDevice'
  BY <1>1, <1>3, <1>4 DEF CleanIsOnDevice
<1>8. dev[b] = written[b]
  OBVIOUS
<1>9. ReadsSeeWrites'
  <2>1. \A d \in ToSet(queue') : cache'[d] = written'[block_id'[d]]
    BY <1>1, <1>3, <1>4, <1>8
  <2>2. \A e \in Block : (\A d \in ToSet(queue') : block_id'[d] # e) => disk'[e] = written'[e]
    BY <1>1, <1>3, <1>4
  <2> QED
    BY <2>1, <2>2 DEF ReadsSeeWrites
<1>10. SyncedPrefix'
  BY DEF SyncedPrefix
<1> QED
  BY <1>5, <1>6, <1>7, <1>9, <1>10 DEF IInv

\* The block an entry of the queue is written back to has no other entry.
LEMMA WrittenBack ==
    ASSUME IInv, NEW c \in ToSet(queue)
    PROVE  /\ c \in Cache /\ block_id[c] \in Block
           /\ disk_after(c) \in [Block -> Data]
           /\ disk_after(c)[block_id[c]] = written[block_id[c]]
           /\ \A b \in Block : b # block_id[c] => disk_after(c)[b] = disk[b]
           /\ disk_after(c) = [disk EXCEPT ![block_id[c]] = written[block_id[c]]]
           /\ \A d, e \in ToSet(queue) : block_id[d] = block_id[e] => d = e
<1>1. c \in Cache /\ block_id[c] \in Block /\ cache[c] \in Data
  BY LenProperties DEF IInv, TypeOK, ToSet
<1>2. \A d, e \in ToSet(queue) : block_id[d] = block_id[e] => d = e
  BY OneEntryPerBlock DEF IInv, TypeOK, OneCopy
<1>3. cache[c] = written[block_id[c]] /\ (~modified[c] => cache[c] = disk[block_id[c]])
  BY DEF IInv, ReadsSeeWrites, CleanIsOnDevice
<1>4. disk_after(c) = [disk EXCEPT ![block_id[c]] = written[block_id[c]]]
  <2>1. CASE modified[c]
    BY <2>1, <1>3 DEF disk_after
  <2>2. CASE ~modified[c]
    BY <2>2, <1>1, <1>3 DEF disk_after, IInv, TypeOK
  <2> QED
    BY <2>1, <2>2
<1> QED
  BY <1>1, <1>2, <1>3, <1>4 DEF IInv, TypeOK

\* A block that is not cached enters a queue with room: InsertIInv for the queue itself.
LEMMA GetNewIInv ==
    ASSUME IInv, NEW b \in Block, NEW c \in Cache, get_new(b, c)
    PROVE  IInv'
<1>1. /\ sync_pos = 0 /\ c \notin ToSet(queue) /\ Len(queue) # BLOCK_CACHE_SIZE
      /\ new_cache(c, b, disk) /\ UNCHANGED <<disk, sync_pos, panic, written>>
      /\ queue' = Append(queue, c) /\ handles' = Append(handles, c)
      /\ \A d \in ToSet(queue) : block_id[d] # b
  BY DEF get_new, MayGet, MustReplace, Live, Existed
<1>2. queue \in Seq(Cache) /\ Len(queue) < BLOCK_CACHE_SIZE
  BY <1>1, LenProperties, CacheAssumption DEF IInv, TypeOK
<1>3. IsInjective(queue) /\ \A d, e \in ToSet(queue) : block_id[d] = block_id[e] => d = e
  BY OneEntryPerBlock DEF IInv, TypeOK, OneCopy
<1> QED
  BY <1>1, <1>2, <1>3, InsertIInv
     DEF IInv, TypeOK, OneCopy, CleanIsOnDevice, ReadsSeeWrites

\* Replacement: the entry is written back and drained, then InsertIInv for what is left.
LEMMA GetReplacingIInv ==
    ASSUME IInv, NEW b \in Block, NEW c \in Cache, get_replacing(b, c)
    PROVE  IInv'
<1>1. PICK i \in DOMAIN queue :
         /\ queue[i] \notin ToSet(handles)
         /\ disk' = disk_after(queue[i]) /\ queue' = Append(RemoveAt(queue, i), c)
  BY DEF get_replacing, Replaceable
<1>2. /\ sync_pos = 0 /\ c \notin ToSet(queue) /\ Len(queue) = BLOCK_CACHE_SIZE
      /\ new_cache(c, b, disk') /\ UNCHANGED <<sync_pos, panic, written>>
      /\ handles' = Append(handles, c)
      /\ \A d \in ToSet(queue) : block_id[d] # b
  BY DEF get_replacing, MayGet, MustReplace, Live, Existed
<1> DEFINE v == queue[i]
           q == RemoveAt(queue, i)
           dev == disk_after(v)
<1>3. v \in ToSet(queue) /\ queue \in Seq(Cache) /\ IsInjective(queue)
  BY OneEntryPerBlock DEF IInv, TypeOK, OneCopy, ToSet
<1>4. q \in Seq(Cache) /\ ToSet(q) = ToSet(queue) \ {v} /\ IsInjective(q)
  BY <1>3, RemoveAtElements
<1>5. Len(q) < BLOCK_CACHE_SIZE
  BY <1>2, <1>3, RemoveAtElements, CacheAssumption DEF RemoveAt
<1>6. /\ block_id[v] \in Block /\ dev \in [Block -> Data]
      /\ dev[block_id[v]] = written[block_id[v]]
      /\ \A e \in Block : e # block_id[v] => dev[e] = disk[e]
      /\ \A d, e \in ToSet(queue) : block_id[d] = block_id[e] => d = e
  BY <1>3, WrittenBack
<1> HIDE DEF v, q, dev
<1>7. ToSet(queue) \subseteq Cache
  BY <1>3 DEF ToSet
<1>8. ToSet(handles) \subseteq ToSet(q)
  BY <1>1, <1>4 DEF IInv, OneCopy, v
<1>9. \A d \in ToSet(q) : ~modified[d] => cache[d] = dev[block_id[d]]
  BY <1>3, <1>4, <1>6, <1>7 DEF IInv, TypeOK, CleanIsOnDevice
<1>10. \A d \in ToSet(q) : cache[d] = written[block_id[d]]
  BY <1>4 DEF IInv, ReadsSeeWrites
<1>11. \A e \in Block : (\A d \in ToSet(q) : block_id[d] # e) => dev[e] = written[e]
  BY <1>4, <1>6 DEF IInv, ReadsSeeWrites
<1>12. c \notin ToSet(q) /\ (\A d \in ToSet(q) : block_id[d] # b)
       /\ \A d, e \in ToSet(q) : block_id[d] = block_id[e] => d = e
  BY <1>2, <1>4, <1>6
<1>13. disk' = dev /\ queue' = Append(q, c) /\ new_cache(c, b, dev)
  BY <1>1, <1>2 DEF dev, q, v
<1> QED
  BY <1>2, <1>4, <1>5, <1>6, <1>8, <1>9, <1>10, <1>11, <1>12, <1>13, InsertIInv

\* A step that changes neither the queue nor the caches nor the device.
LEMMA HandlesIInv ==
    ASSUME IInv, UNCHANGED <<queue, objects, disk, written>>,
           handles' \in Seq(Cache), ToSet(handles') \subseteq ToSet(queue),
           panic' \in BOOLEAN, sync_pos' \in {0, 1}, sync_pos' \in 0 .. Len(queue),
           sync_pos' = 1 => handles' = <<>>
    PROVE  IInv'
<1>1. TypeOK'
  BY DEF IInv, TypeOK, objects
<1>2. OneCopy' /\ CleanIsOnDevice' /\ ReadsSeeWrites'
  BY DEF IInv, OneCopy, CleanIsOnDevice, ReadsSeeWrites, objects
<1>3. SyncedPrefix'
  <2>1. CASE sync_pos' = 0
    BY <2>1 DEF SyncedPrefix
  <2>2. CASE sync_pos' = 1
    <3>1. 1 .. sync_pos' - 1 = {}
      BY <2>2
    <3> QED
      BY <2>2, <3>1 DEF SyncedPrefix
  <2> QED
    BY <2>1, <2>2
<1> QED
  BY <1>1, <1>2, <1>3 DEF IInv

\* get_mut marks the entry and changes it; the block has no other entry.
LEMMA ModifyIInv ==
    ASSUME IInv, NEW c \in Cache, NEW d \in Data, modify(c, d)
    PROVE  IInv'
<1>1. /\ c \in ToSet(queue) /\ sync_pos = 0
      /\ UNCHANGED <<queue, handles, block_id, disk, sync_pos, panic>>
      /\ cache' = [cache EXCEPT ![c] = d] /\ modified' = [modified EXCEPT ![c] = TRUE]
      /\ written' = [written EXCEPT ![block_id[c]] = d]
  BY DEF modify, IInv, OneCopy
<1>2. /\ block_id[c] \in Block /\ ToSet(queue) \subseteq Cache
      /\ \A e \in ToSet(queue) : block_id[e] = block_id[c] => e = c
  BY <1>1, WrittenBack DEF IInv, TypeOK, ToSet
<1>3. cache' \in [Cache -> Data] /\ written' \in [Block -> Data]
  BY <1>1 DEF IInv, TypeOK
<1>4. modified' \in [Cache -> BOOLEAN]
  BY <1>1, Zenon DEF IInv, TypeOK
<1>5. TypeOK'
  BY <1>1, <1>3, <1>4 DEF IInv, TypeOK
<1>6. OneCopy'
  BY <1>1 DEF IInv, OneCopy
<1>7. CleanIsOnDevice'
  BY <1>1, <1>2 DEF IInv, TypeOK, CleanIsOnDevice
<1>8. ReadsSeeWrites'
  <2>1. \A e \in ToSet(queue) : cache'[e] = written'[block_id[e]]
    BY <1>1, <1>2 DEF IInv, TypeOK, ReadsSeeWrites
  <2>2. \A b \in Block : (\A e \in ToSet(queue) : block_id[e] # b) => disk[b] = written'[b]
    BY <1>1, <1>2 DEF IInv, TypeOK, ReadsSeeWrites
  <2> QED
    BY <1>1, <2>1, <2>2 DEF ReadsSeeWrites
<1>9. SyncedPrefix'
  BY <1>1 DEF SyncedPrefix
<1> QED
  BY <1>5, <1>6, <1>7, <1>8, <1>9 DEF IInv

\* One round of block_cache_sync_all; after the last one the device has everything.
LEMMA SyncEntryIInv ==
    ASSUME IInv, sync_entry
    PROVE  /\ IInv'
           /\ sync_pos' = 0 => disk' = written
<1> DEFINE c == queue[sync_pos]
<1>0. /\ sync_pos \in Nat /\ sync_pos > 0 /\ sync_pos <= Len(queue) /\ Len(queue) \in Nat
      /\ Len(queue') = Len(queue)
      /\ sync_pos' = IF sync_pos = Len(queue) THEN 0 ELSE sync_pos + 1
  BY LenProperties DEF sync_entry, next_sync_pos, IInv, TypeOK
<1>a. DOMAIN queue = 1 .. Len(queue)
  BY LenProperties DEF IInv, TypeOK
<1>1. /\ c \in ToSet(queue) /\ handles = <<>>
      /\ disk' = disk_after(c) /\ modified' = [modified EXCEPT ![c] = FALSE]
      /\ UNCHANGED <<queue, handles, block_id, cache, panic, written>>
  <2>1. sync_pos \in 1 .. Len(queue)
    BY <1>0
  <2>2. c \in ToSet(queue)
    BY <1>a, <2>1 DEF ToSet
  <2>3. handles = <<>>
    BY <1>0 DEF IInv, SyncedPrefix
  <2> QED
    BY <2>2, <2>3 DEF sync_entry
<1> HIDE DEF c
<1>2. /\ c \in Cache /\ block_id[c] \in Block
      /\ disk' \in [Block -> Data]
      /\ disk'[block_id[c]] = written[block_id[c]]
      /\ \A b \in Block : b # block_id[c] => disk'[b] = disk[b]
      /\ \A d \in ToSet(queue) : block_id[d] = block_id[c] => d = c
      /\ ToSet(queue) \subseteq Cache
  <2>1. ToSet(queue) \subseteq Cache
    BY LenProperties DEF IInv, TypeOK, ToSet
  <2> QED
    BY <1>1, <2>1, WrittenBack
<1>3. modified' \in [Cache -> BOOLEAN]
  BY <1>1, Zenon DEF IInv, TypeOK
<1>4. TypeOK'
  <2>1. sync_pos' \in 0 .. Len(queue')
    BY <1>0
  <2> QED
    BY <1>1, <1>2, <1>3, <2>1 DEF IInv, TypeOK
<1>5. OneCopy'
  BY <1>1 DEF IInv, OneCopy
<1>6. ReadsSeeWrites'
  BY <1>1, <1>2 DEF IInv, TypeOK, ReadsSeeWrites
<1>7. CleanIsOnDevice'
  <2> SUFFICES ASSUME NEW d \in ToSet(queue), ~modified'[d]
               PROVE  cache[d] = disk'[block_id[d]]
    BY <1>1 DEF CleanIsOnDevice
  <2>1. CASE d = c
    BY <1>1, <1>2, <2>1 DEF IInv, ReadsSeeWrites
  <2>2. CASE d # c
    BY <1>1, <1>2, <2>2 DEF IInv, TypeOK, CleanIsOnDevice
  <2> QED
    BY <2>1, <2>2
<1>8. \A i \in 1 .. sync_pos : ~modified'[queue[i]]
  <2> SUFFICES ASSUME NEW i \in 1 .. sync_pos PROVE ~modified'[queue[i]]
    OBVIOUS
  <2>1. i \in DOMAIN queue /\ queue[i] \in ToSet(queue) /\ queue[i] \in Cache
    <3>1. i \in 1 .. Len(queue)
      BY <1>0
    <3> QED
      BY <1>a, <1>2, <3>1 DEF ToSet
  <2>2. CASE i = sync_pos
    BY <1>1, <1>2, <2>2 DEF c, IInv, TypeOK
  <2>3. CASE i # sync_pos
    <3>1. i \in 1 .. sync_pos - 1 /\ sync_pos > 0
      BY <1>0, <2>3
    <3>2. ~modified[queue[i]]
      BY <3>1 DEF IInv, SyncedPrefix
    <3> QED
      BY <1>1, <2>1, <3>2 DEF IInv, TypeOK
  <2> QED
    BY <2>2, <2>3
<1>9. SyncedPrefix'
  <2>1. sync_pos' > 0 => sync_pos' - 1 = sync_pos
    BY <1>0
  <2> QED
    BY <1>1, <1>8, <2>1 DEF SyncedPrefix
<1>10. ASSUME sync_pos' = 0 PROVE disk' = written
  <2>1. \A d \in ToSet(queue) : ~modified'[d]
    <3>1. sync_pos = Len(queue)
      BY <1>0, <1>10
    <3> QED
      BY <1>a, <1>8, <3>1 DEF ToSet
  <2>2. \A d \in ToSet(queue) : disk'[block_id[d]] = written[block_id[d]]
    BY <1>1, <1>6, <1>7, <2>1 DEF CleanIsOnDevice, ReadsSeeWrites
  <2>3. \A b \in Block : disk'[b] = written[b]
    BY <1>1, <1>6, <2>2 DEF ReadsSeeWrites
  <2> QED
    BY <1>2, <2>3 DEF IInv, TypeOK
<1> QED
  BY <1>4, <1>5, <1>6, <1>7, <1>9, <1>10 DEF IInv

\* What a closure that returns leaves of the handles, which may repeat a cache.
LEMMA FrontSubset ==
    ASSUME NEW S, NEW s \in Seq(S), s # <<>>
    PROVE  /\ Front(s) \in Seq(S) /\ ToSet(Front(s)) \subseteq ToSet(s)
           /\ Last(s) \in ToSet(s)
<1>1. DOMAIN s = 1 .. Len(s) /\ Len(s) \in Nat /\ Len(s) > 0
  BY LenProperties, EmptySeq
<1>2. Front(s) \in Seq(S) /\ Len(Front(s)) = Len(s) - 1
      /\ \A i \in 1 .. Len(s) - 1 : Front(s)[i] = s[i]
  BY <1>1 DEF Front
<1>3. DOMAIN Front(s) = 1 .. Len(s) - 1
  BY <1>2, LenProperties
<1>4. 1 .. Len(s) - 1 \subseteq 1 .. Len(s) /\ Len(s) \in 1 .. Len(s)
  BY <1>1
<1>5. ToSet(Front(s)) \subseteq ToSet(s)
  BY <1>1, <1>2, <1>3, <1>4 DEF ToSet
<1>6. Last(s) \in ToSet(s)
  BY <1>1, <1>4 DEF Last, ToSet
<1> QED
  BY <1>2, <1>5, <1>6

\* The cache a closure lets go of is still in the queue, so that nothing is written.
LEMMA DropIInv ==
    ASSUME IInv, drop_handle
    PROVE  IInv' /\ UNCHANGED <<disk, written>>
<1>1. /\ handles' \in Seq(Cache) /\ ToSet(handles') \subseteq ToSet(queue)
      /\ Last(handles) \in ToSet(queue)
  BY FrontSubset DEF drop_handle, IInv, TypeOK, OneCopy
<1>2. sync_pos' = 0 /\ 0 \in 0 .. Len(queue) /\ panic' \in BOOLEAN
  BY LenProperties DEF drop_handle, IInv, TypeOK
<1>3. UNCHANGED <<queue, objects, disk, written>>
  BY <1>1 DEF drop_handle
<1> QED
  BY <1>1, <1>2, <1>3, HandlesIInv

\* The block is found in the queue: one more handle to it.
LEMMA GetExistingIInv ==
    ASSUME IInv, NEW b \in Block, get_existing(b)
    PROVE  IInv'
<1>1. PICK c \in ToSet(queue) : handles' = Append(handles, c)
  BY DEF get_existing, Existed
<1>2. c \in Cache
  BY LenProperties DEF IInv, TypeOK, ToSet
<1>3. handles' \in Seq(Cache) /\ ToSet(handles') \subseteq ToSet(queue)
  BY <1>1, <1>2, AppendElements DEF IInv, TypeOK, OneCopy
<1>4. sync_pos' = 0 /\ 0 \in 0 .. Len(queue) /\ panic' \in BOOLEAN
  BY LenProperties DEF get_existing, MayGet, IInv, TypeOK
<1>5. UNCHANGED <<queue, objects, disk, written>>
  BY DEF get_existing
<1> QED
  BY <1>3, <1>4, <1>5, HandlesIInv

\* The panic of get_block_cache leaves everything as it is.
LEMMA GetFailsIInv ==
    ASSUME IInv, NEW b \in Block, get_fails(b)
    PROVE  IInv'
<1>1. sync_pos' = 0 /\ 0 \in 0 .. Len(queue) /\ panic' \in BOOLEAN
  BY LenProperties DEF get_fails, MayGet, IInv, TypeOK
<1>2. handles' \in Seq(Cache) /\ ToSet(handles') \subseteq ToSet(queue)
  BY DEF get_fails, IInv, TypeOK, OneCopy
<1>3. UNCHANGED <<queue, objects, disk, written>>
  BY DEF get_fails
<1> QED
  BY <1>1, <1>2, <1>3, HandlesIInv

\* block_cache_sync_all starts with no handle held.
LEMMA SyncBeginsIInv ==
    ASSUME IInv, sync_begins
    PROVE  IInv'
<1>1. Len(queue) \in Nat /\ Len(queue) > 0
  BY LenProperties, EmptySeq DEF sync_begins, IInv, TypeOK
<1>2. sync_pos' = 1 /\ 1 \in 0 .. Len(queue)
  BY <1>1 DEF sync_begins
<1>3. handles' \in Seq(Cache) /\ ToSet(handles') \subseteq ToSet(queue)
  BY DEF sync_begins, IInv, TypeOK, OneCopy
<1>4. UNCHANGED <<queue, objects, disk, written>> /\ handles' = <<>> /\ panic' \in BOOLEAN
  BY DEF sync_begins, IInv, TypeOK
<1> QED
  BY <1>2, <1>3, <1>4, HandlesIInv

\* What is left after the machine went down is an empty cache.
LEMMA PowerOffIInv ==
    ASSUME IInv, power_off
    PROVE  IInv'
<1>1. /\ queue' = <<>> /\ handles' = <<>> /\ ToSet(queue') = {} /\ ToSet(handles') = {}
      /\ DOMAIN queue' = {} /\ Len(queue') = 0
  BY DEF power_off, ToSet
<1>2. UNCHANGED objects /\ disk' = disk /\ written' = disk /\ sync_pos' = 0 /\ panic' = FALSE
  BY DEF power_off
<1>3. TypeOK'
  <2>1. queue' \in Seq(Cache) /\ handles' \in Seq(Cache) /\ Len(queue') <= BLOCK_CACHE_SIZE
    BY <1>1, CacheAssumption
  <2>2. sync_pos' \in 0 .. Len(queue')
    BY <1>1, <1>2
  <2> QED
    BY <1>2, <2>1, <2>2 DEF IInv, TypeOK, objects
<1>4. OneCopy'
  BY <1>1 DEF OneCopy
<1>5. CleanIsOnDevice' /\ ReadsSeeWrites' /\ SyncedPrefix'
  BY <1>1, <1>2 DEF CleanIsOnDevice, ReadsSeeWrites, SyncedPrefix
<1> QED
  BY <1>3, <1>4, <1>5 DEF IInv

\* Every step preserves the invariant.
LEMMA NextIInv == IInv /\ [Next]_vars => IInv'
<1> SUFFICES ASSUME IInv, [Next]_vars PROVE IInv'
  OBVIOUS
<1>1. ASSUME NEW b \in Block, get_existing(b) PROVE IInv'
  BY <1>1, GetExistingIInv
<1>2. ASSUME NEW b \in Block, get_fails(b) PROVE IInv'
  BY <1>2, GetFailsIInv
<1>3. ASSUME NEW b \in Block, NEW c \in Cache, get_new(b, c) PROVE IInv'
  BY <1>3, GetNewIInv
<1>4. ASSUME NEW b \in Block, NEW c \in Cache, get_replacing(b, c) PROVE IInv'
  BY <1>4, GetReplacingIInv
<1>5. ASSUME NEW c \in Cache, NEW d \in Data, modify(c, d) PROVE IInv'
  BY <1>5, ModifyIInv
<1>6. CASE drop_handle
  BY <1>6, DropIInv
<1>7. CASE sync_begins
  BY <1>7, SyncBeginsIInv
<1>8. CASE sync_entry
  BY <1>8, SyncEntryIInv
<1>9. CASE power_off
  BY <1>9, PowerOffIInv
<1>10. CASE UNCHANGED vars
  BY <1>10 DEF vars, objects, IInv, TypeOK, OneCopy, CleanIsOnDevice, ReadsSeeWrites,
               SyncedPrefix
<1> QED
  BY <1>1, <1>2, <1>3, <1>4, <1>5, <1>6, <1>7, <1>8, <1>9, <1>10 DEF Next

(***************************************************************************)
(* The inductive invariant: types, one copy per block, clean copies equal  *)
(* to the device, copies equal to what was written, and the loop invariant *)
(* of block_cache_sync_all.                                                *)
(***************************************************************************)
THEOREM CacheInvariance == Spec => []IInv
  BY InitIInv, NextIInv, PTL DEF Spec

(***************************************************************************)
(* The queue never outgrows BLOCK_CACHE_SIZE, so that the assertion in     *)
(* get_block_cache holds, and every field keeps its type.                  *)
(***************************************************************************)
THEOREM CacheTypeCorrect == Spec => []TypeOK
<1>1. IInv => TypeOK
  BY DEF IInv
<1> QED
  BY <1>1, CacheInvariance, PTL

(***************************************************************************)
(* get_block_cache never makes a second copy of a block, and replacement   *)
(* never takes an entry that a caller holds.                               *)
(***************************************************************************)
THEOREM NeverTwoCopies == Spec => []OneCopy
<1>1. IInv => OneCopy
  BY DEF IInv
<1> QED
  BY <1>1, CacheInvariance, PTL

(***************************************************************************)
(* A block whose modified flag is down is on the device as it is cached:   *)
(* the test in BlockCache::sync skips no write.                            *)
(***************************************************************************)
THEOREM CleanCopiesOnDevice == Spec => []CleanIsOnDevice
<1>1. IInv => CleanIsOnDevice
  BY DEF IInv
<1> QED
  BY <1>1, CacheInvariance, PTL

(***************************************************************************)
(* Through the cache every reader sees the last write, however often the   *)
(* block was replaced and read again from the device in between.           *)
(***************************************************************************)
THEOREM ReadersSeeLastWrite == Spec => []ReadsSeeWrites
<1>1. IInv => ReadsSeeWrites
  BY DEF IInv
<1> QED
  BY <1>1, CacheInvariance, PTL

(***************************************************************************)
(* block_cache_sync_all returns with everything on the device.             *)
(***************************************************************************)
THEOREM SyncAllIsDurable == Spec => SyncMakesDurable
<1>1. ASSUME IInv, [Next]_vars, sync_pos > 0, sync_pos' = 0, queue' = queue
      PROVE  disk' = written
  <2> USE <1>1
  <2>1. ASSUME NEW b \in Block, get_existing(b) \/ get_fails(b) PROVE FALSE
    BY <2>1 DEF get_existing, get_fails, MayGet
  <2>2. ASSUME NEW b \in Block, NEW c \in Cache, get_new(b, c) \/ get_replacing(b, c)
        PROVE  FALSE
    BY <2>2 DEF get_new, get_replacing, MayGet
  <2>3. ASSUME NEW c \in Cache, NEW d \in Data, modify(c, d) PROVE FALSE
    BY <2>3 DEF modify
  <2>4. CASE drop_handle \/ sync_begins
    BY <2>4 DEF drop_handle, sync_begins
  <2>5. CASE sync_entry
    BY <2>5, SyncEntryIInv
  <2>6. CASE power_off
    <3>1. Len(queue) = 0
      BY <2>6 DEF power_off
    <3> QED
      BY <3>1 DEF IInv, TypeOK
  <2>7. CASE UNCHANGED vars
    BY <2>7 DEF vars
  <2> QED
    BY <2>1, <2>2, <2>3, <2>4, <2>5, <2>6, <2>7 DEF Next
<1>2. IInv /\ [Next]_vars
        => [(sync_pos > 0 /\ sync_pos' = 0 /\ queue' = queue) => disk' = written]_vars
  BY <1>1
<1> QED
  BY <1>2, CacheInvariance, PTL DEF Spec, SyncMakesDurable

(***************************************************************************)
(* The queue has no entry twice, so when each of its entries is held there *)
(* are as many handles as entries: an entry of the queue can be sent to a  *)
(* place of its own in the stack of handles.                               *)
(***************************************************************************)
LEMMA AllHeldMeansAsMany ==
    ASSUME NEW S, NEW q \in Seq(S), NEW h \in Seq(S),
           IsInjective(q), ToSet(q) \subseteq ToSet(h)
    PROVE  Len(q) <= Len(h)
<1>1. /\ DOMAIN q = 1 .. Len(q) /\ DOMAIN h = 1 .. Len(h)
      /\ Len(q) \in Nat /\ Len(h) \in Nat
  BY LenProperties
<1> DEFINE place == [i \in 1 .. Len(q) |-> CHOOSE j \in 1 .. Len(h) : h[j] = q[i]]
<1>2. \A i \in 1 .. Len(q) : place[i] \in 1 .. Len(h) /\ h[place[i]] = q[i]
  <2> SUFFICES ASSUME NEW i \in 1 .. Len(q)
               PROVE  place[i] \in 1 .. Len(h) /\ h[place[i]] = q[i]
    OBVIOUS
  <2>1. \E j \in 1 .. Len(h) : h[j] = q[i]
    BY <1>1 DEF ToSet
  <2>2. place[i] = CHOOSE j \in 1 .. Len(h) : h[j] = q[i]
    OBVIOUS
  <2> HIDE DEF place
  <2> QED
    BY <2>1, <2>2
<1>3. place \in [1 .. Len(q) -> 1 .. Len(h)]
  <2>1. place = [i \in 1 .. Len(q) |-> place[i]]
    OBVIOUS
  <2> HIDE DEF place
  <2> QED
    BY <1>2, <2>1
<1> HIDE DEF place
<1>4. \A i, j \in 1 .. Len(q) : place[i] = place[j] => i = j
  BY <1>1, <1>2 DEF IsInjective
<1>5. place \in Injection(1 .. Len(q), 1 .. Len(h))
  BY <1>3, <1>4, Fun_IsInj
<1>6. ExistsInjection(1 .. Len(q), 1 .. Len(h))
  BY <1>5 DEF ExistsInjection
<1> QED
  BY <1>1, <1>6, Fun_NatInjLeq

(***************************************************************************)
(* get_block_cache panics only when the callers hold as many handles as    *)
(* the queue has entries; and after the panic only a restart changes the   *)
(* handles.                                                                *)
(***************************************************************************)
THEOREM FullOnlyWhenHeld == Spec => []FullOnlyWhenAllHeld
<1>1. Init => FullOnlyWhenAllHeld
  BY DEF Init, FullOnlyWhenAllHeld
<1>2. ASSUME IInv, NEW b \in Block, get_fails(b)
      PROVE  Len(handles) >= BLOCK_CACHE_SIZE
  <2>1. Len(queue) = BLOCK_CACHE_SIZE /\ \A i \in DOMAIN queue : queue[i] \in ToSet(handles)
    BY <1>2 DEF get_fails, MustReplace, Replaceable
  <2>2. queue \in Seq(Cache) /\ handles \in Seq(Cache) /\ IsInjective(queue)
    BY <1>2, OneEntryPerBlock DEF IInv, TypeOK, OneCopy
  <2>3. ToSet(queue) \subseteq ToSet(handles)
    BY <2>1 DEF ToSet
  <2>4. Len(queue) <= Len(handles)
    BY <2>2, <2>3, AllHeldMeansAsMany
  <2> QED
    BY <2>1, <2>2, <2>4, LenProperties
<1>3. ASSUME IInv, FullOnlyWhenAllHeld, [Next]_vars
      PROVE  FullOnlyWhenAllHeld'
  <2> USE <1>3 DEF FullOnlyWhenAllHeld
  <2>1. ASSUME NEW b \in Block, get_existing(b) PROVE FullOnlyWhenAllHeld'
    BY <2>1 DEF get_existing, MayGet
  <2>2. ASSUME NEW b \in Block, get_fails(b) PROVE FullOnlyWhenAllHeld'
    <3>1. handles' = handles
      BY <2>2 DEF get_fails
    <3> QED
      BY <1>2, <2>2, <3>1
  <2>3. ASSUME NEW b \in Block, NEW c \in Cache, get_new(b, c) \/ get_replacing(b, c)
        PROVE  FullOnlyWhenAllHeld'
    BY <2>3 DEF get_new, get_replacing, MayGet
  <2>4. ASSUME NEW c \in Cache, NEW d \in Data, modify(c, d) PROVE FullOnlyWhenAllHeld'
    BY <2>4 DEF modify
  <2>5. CASE drop_handle \/ sync_begins \/ sync_entry \/ power_off
    BY <2>5 DEF drop_handle, sync_begins, sync_entry, power_off
  <2>6. CASE UNCHANGED vars
    BY <2>6 DEF vars
  <2> QED
    BY <2>1, <2>2, <2>3, <2>4, <2>5, <2>6 DEF Next
<1> QED
  BY <1>1, <1>3, CacheInvariance, PTL DEF Spec

(***************************************************************************)
(* The cache implements the write-back disk: replacement and               *)
(* block_cache_sync_all flush one block each, a closure that modifies a    *)
(* block writes it, and nothing else changes the device or what is read.   *)
(***************************************************************************)
THEOREM CacheIsAWriteBackDisk == Spec => ImplementsDisk
<1>1. Init => WriteBack!Init
  BY DEF Init, WriteBack!Init
<1>2. ASSUME IInv, NEW c \in ToSet(queue), disk' = disk_after(c), written' = written
      PROVE  WriteBack!Next
  BY <1>2, WrittenBack DEF WriteBack!Next, WriteBack!Flush
<1>3. ASSUME IInv, [Next]_vars
      PROVE  [WriteBack!Next]_<<written, disk>>
  <2> USE <1>3
  <2>1. ASSUME NEW b \in Block, get_existing(b) \/ get_fails(b)
        PROVE  UNCHANGED <<written, disk>>
    BY <2>1 DEF get_existing, get_fails
  <2>2. ASSUME NEW b \in Block, NEW c \in Cache, get_new(b, c)
        PROVE  UNCHANGED <<written, disk>>
    BY <2>2 DEF get_new
  <2>3. ASSUME NEW b \in Block, NEW c \in Cache, get_replacing(b, c)
        PROVE  WriteBack!Next
    <3>1. PICK i \in DOMAIN queue : disk' = disk_after(queue[i])
      BY <2>3 DEF get_replacing, Replaceable
    <3>2. queue[i] \in ToSet(queue) /\ written' = written
      BY <2>3 DEF get_replacing, ToSet
    <3> QED
      BY <1>2, <3>1, <3>2
  <2>4. ASSUME NEW c \in Cache, NEW d \in Data, modify(c, d) PROVE WriteBack!Next
    <3>1. block_id[c] \in Block
      BY DEF IInv, TypeOK
    <3> QED
      BY <2>4, <3>1 DEF modify, WriteBack!Next, WriteBack!Write
  <2>5. CASE drop_handle
    BY <2>5, DropIInv
  <2>6. CASE sync_begins
    BY <2>6 DEF sync_begins
  <2>7. CASE sync_entry
    <3>1. queue[sync_pos] \in ToSet(queue)
      <4>1. sync_pos \in 1 .. Len(queue)
        BY <2>7 DEF sync_entry, IInv, TypeOK
      <4>2. DOMAIN queue = 1 .. Len(queue)
        BY LenProperties DEF IInv, TypeOK
      <4> QED
        BY <4>1, <4>2 DEF ToSet
    <3> QED
      BY <1>2, <2>7, <3>1 DEF sync_entry
  <2>8. CASE power_off
    BY <2>8 DEF power_off, WriteBack!Next, WriteBack!PowerOff
  <2>9. CASE UNCHANGED vars
    BY <2>9 DEF vars
  <2> QED
    BY <2>1, <2>2, <2>3, <2>4, <2>5, <2>6, <2>7, <2>8, <2>9 DEF Next
<1> QED
  BY <1>1, <1>3, CacheInvariance, PTL DEF Spec, ImplementsDisk, WriteBack!Spec
=============================================================================
