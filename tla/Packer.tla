------------------------------- MODULE Packer -------------------------------
(***************************************************************************)
(* The program that makes the disk image (easy-fs-fuse/src/main.rs), over  *)
(* EasyFs and the image file, and the kernel that opens the image          *)
(* (os/src/fs/inode.rs).                                                   *)
(*                                                                         *)
(* The device has an older value of the blocks that the cache has not      *)
(* written back.  Inode::create ends with block_cache_sync_all, write_at   *)
(* does not, and the cache is a static, which is not dropped when the      *)
(* program ends.  The cache may write a block back at any time to make     *)
(* room (WriteBackDisk); here, between two operations.                     *)
(***************************************************************************)
EXTENDS EasyFs

CONSTANT apps       \* a sequence of names and contents

VARIABLES
    device,         \* fs.img
    next,           \* the index of the app that is packed
    pc

packerVars == <<vars, device, next, pc>>

\* EasyFileSystem::create writes back what it did.
PackerInit ==
    /\ Init
    /\ device = view
    /\ next = 1
    /\ pc = "create"

\* Variant: create returns without block_cache_sync_all.
synced_never == device

synced == view'

pack_create ==
    /\ pc = "create" /\ next <= Len(apps)
    /\ create(apps[next].name)
    /\ device' = IF panic' = "no" THEN synced ELSE device
    /\ pc' = "write"
    /\ UNCHANGED next

pack_write ==
    /\ pc = "write"
    /\ write_at(apps[next].name, [offset |-> 0, buf |-> apps[next].data])
    /\ next' = next + 1
    /\ pc' = "create"
    /\ UNCHANGED device

write_back(b) ==
    /\ pc \in {"create", "write"} /\ panic = "no"
    /\ device[b] # view[b]
    /\ device' = [device EXCEPT ![b] = view[b]]
    /\ UNCHANGED <<vars, next, pc>>

exit ==
    /\ pc = "create" /\ panic = "no" /\ next > Len(apps)
    /\ pc' = "exit"
    /\ UNCHANGED <<vars, device, next>>

\* The kernel opens the file system of the image.
boot ==
    /\ pc = "exit"
    /\ view' = device
    /\ efs' = open(device[0])
    /\ pc' = "booted"
    /\ UNCHANGED <<panic, device, next>>

over == (pc = "booted" \/ panic # "no") /\ UNCHANGED packerVars

PackerNext ==
    \/ pack_create \/ pack_write \/ exit \/ boot \/ over
    \/ \E b \in DOMAIN view : write_back(b)

PackerSpec == PackerInit /\ [][PackerNext]_packerVars
-----------------------------------------------------------------------------
Found(app) ==
    /\ app.name \in ls(view, efs)
    /\ LET inode == get_inode(view, efs, find(view, efs, app.name))
       IN /\ inode.size = Len(app.data)
          /\ read_at(inode, view, 0, inode.size) = app.data

\* Whatever the cache wrote back, the kernel finds every app but the last one
\* as it was packed: the later apps share bitmap, inode and directory blocks
\* with them, and the create of the next app has synced them.
EarlierAppsFound == pc = "booted" => \A i \in 1..Len(apps) - 1 : Found(apps[i])

\* main.rs: "write data to easy-fs", for every app.  The kernel finds all of
\* them as they were packed.
AllAppsFound == pc = "booted" => \A i \in 1..Len(apps) : Found(apps[i])
=============================================================================
