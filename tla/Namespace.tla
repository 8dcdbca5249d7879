----------------------------- MODULE Namespace -----------------------------
(***************************************************************************)
(* The tree of names: mounting, and the operations of                      *)
(* src/src/chisai-core/fs.c that create, move and remove names.            *)
(*                                                                         *)
(* The file system serves one request at a time (fuse_main gets "-s"), so  *)
(* a request is one action.  What is concurrent is the kernel: it keeps    *)
(* the names it looked up for a second and asks for them again, whatever   *)
(* has become of them meanwhile.                                           *)
(*                                                                         *)
(* The tables `inodeTab' and `dirTab' are the device.  The bitmaps exist   *)
(* in memory only, the device's own stay as they were: all zero, as the    *)
(* README has the image made with dd if=/dev/zero.                         *)
(***************************************************************************)
EXTENDS BlockGroups, Directory, SequencesExt

CONSTANTS LongNames,    \* names longer than CHISAI_FILE_LEN
          MaxDepth,     \* bound of the model: components of a path
          Vfs           \* TRUE: only calls a Linux kernel makes, see below

ASSUME LongNamesAssumption ==
  LongNames \subseteq Names /\ LongNames \cap FullNames = {}
ASSUME MaxDepthAssumption == MaxDepth \in Nat
ASSUME VfsAssumption == Vfs \in BOOLEAN
ASSUME RootFits == BlkInodeNum >= 2

BADBLK_INODE == 1
ROOT_INODE   == 2

Errors == {"ENOENT", "ENOMEM", "EEXIST", "ENAMETOOLONG", "CORRUPT"}

Paths  == BoundedSeq(Names, MaxDepth)
Files  == Paths \ {<<>>}           \* "/" is never created, moved or removed

Entries == [name : Names, idx : Indices]
Dirs    == BoundedSeq(Entries, FilePerDir)

(* The inode fields that naming depends on: S_IFDIR of `mode', and         *)
(* direct_blks[0], the block that holds the entries of a directory.        *)
Inodes == [dir : BOOLEAN, blk : Indices \cup {0}]

VARIABLES phase,     \* "down", "up", "aborted" by an assertion, or "crashed"
          inodes,    \* block groups: inode bitmaps and hints
          blocks,    \* block groups: data bitmaps and hints
          inodeTab,  \* device: inode index -> inode
          dirTab,    \* device: data block -> the entries stored in it
          cached,    \* kernel: paths it takes to exist that do not
          ret        \* what the last request returned

vars == <<phase, inodes, blocks, inodeTab, dirTab, cached, ret>>

ClearGrps == blkgrps_load([g \in GroupIds |-> {}])

-----------------------------------------------------------------------------
(* Looking up                                                              *)

\* fs_find_dir on the first block of an inode.
IsReadable(idx) == exist(blocks, inodeTab[idx].blk)

\* One round of fs_path_to_inode: from a directory to what it has that name.
Enter(tab, idx, name) ==
  IF idx = 0 \/ ~IsReadable(idx) THEN 0
  ELSE LET child == dir_file_inode_idx(tab[inodeTab[idx].blk], name)
       IN  IF exist(inodes, child) THEN child ELSE 0

(* fs_path_to_inode: the walk from the root, component by component; 0 is  *)
(* NO_INODE.  `tab' is the content of the directory blocks.                *)
Walk(tab, path) ==
  LET walk[k \in 0 .. Len(path)] ==
        IF k = 0 THEN IF exist(inodes, ROOT_INODE) THEN ROOT_INODE ELSE 0
        ELSE Enter(tab, walk[k - 1], path[k])
  IN  walk

fs_path_to_inode(tab, path) == Walk(tab, path)[Len(path)]

Parent(tab, path)    == fs_path_to_inode(tab, Front(path))
ParentBlk(tab, path) == inodeTab[Parent(tab, path)].blk

(* fs_path_to_parent, __fs_get_dir: the length of the name is looked at    *)
(* before the parent is.                                                   *)
fs_path_to_parent(tab, path) ==
  IF Last(path) \in LongNames THEN "ENAMETOOLONG"
  ELSE IF Parent(tab, path) = 0 THEN "ENOENT"
  ELSE IF ~IsReadable(Parent(tab, path)) THEN "CORRUPT"
  ELSE "OK"

\* dir_file_inode_idx(&parent_dir, file_path), for a parent that was found.
Child(tab, path) == dir_file_inode_idx(tab[ParentBlk(tab, path)], Last(path))

-----------------------------------------------------------------------------
(* The caller                                                              *)

Found(path) == fs_path_to_inode(dirTab, path) # 0
IsDir(path) == Found(path) => inodeTab[fs_path_to_inode(dirTab, path)].dir

(* The kernel passes a request on only if the names before the last are    *)
(* directories, the last one of mkdir and create does not exist, those of  *)
(* the others do, and a rename does not involve a path and its ancestor or *)
(* a directory and a file.  It judges by its cache, so a name that exists  *)
(* no more, or anything below it, may be asked for.  With Vfs = FALSE the  *)
(* functions of fs.h are called without these precautions.                 *)
Believed(path) ==
  Found(path) \/ \E k \in 1 .. Len(path) : SubSeq(path, 1, k) \in cached

MayMake(path) ==
  Vfs => /\ Believed(Front(path))
         /\ IsDir(Front(path))
         /\ ~Found(path) /\ path \notin cached

MayRemove(path) == Vfs => Believed(path)

MayRename(from, to) ==
  Vfs => /\ Believed(from)
         /\ Believed(Front(to)) /\ IsDir(Front(to))
         /\ ~IsPrefix(from, to) /\ ~IsPrefix(to, from)
         /\ Found(from) /\ Found(to) => (IsDir(from) <=> IsDir(to))

\* What the kernel takes to exist, after a request that left `tab'.
StillCached(paths) == IF Vfs THEN paths ELSE {}

-----------------------------------------------------------------------------
(* Ways for a request to end early                                         *)

Refuse(code) ==
  /\ code \in Errors
  /\ ret' = code
  /\ UNCHANGED <<phase, inodes, blocks, inodeTab, dirTab, cached>>

\* The process ends: its memory and the kernel's cache of it are gone.
Die(how) ==
  /\ phase' = how
  /\ inodes' = ClearGrps
  /\ blocks' = ClearGrps
  /\ cached' = {}
  /\ UNCHANGED <<inodeTab, ret>>

(* fs_path_to_parent copies the name into the caller's CHISAI_FILE_LEN     *)
(* bytes before it looks at its length.  The bytes too many overwrite the  *)
(* caller's frame: the request fails as meant, or the process is lost.     *)
Smash(path) == Last(path) \in LongNames /\ Die("crashed")

-----------------------------------------------------------------------------
(* Mounting                                                                *)

Init ==
  /\ phase = "down"
  /\ inodes = ClearGrps
  /\ blocks = ClearGrps
  /\ inodeTab = [idx \in Indices |-> [dir |-> FALSE, blk |-> 0]]
  /\ dirTab = [blk \in Indices |-> <<>>]
  /\ cached = {}
  /\ ret = "OK"

(* fs_init, fs_create_root.  The device's bitmaps never have the root's    *)
(* bit, so every mount makes a new root, after the inode of bad blocks.    *)
Mount ==
  LET blk == AllocIdx(ClearGrps) IN
  /\ phase # "up"
  /\ phase' = "up"
  /\ blocks' = Allocated(ClearGrps)
  /\ inodes' = Allocated(Allocated(ClearGrps))
  /\ dirTab' = [dirTab EXCEPT ![blk] = <<>>]
  /\ inodeTab' = [inodeTab EXCEPT ![ROOT_INODE] = [dir |-> TRUE, blk |-> blk]]
  /\ UNCHANGED <<cached, ret>>

\* fs_destroy at unmount, or the process is killed: nothing is written back.
Stop == phase = "up" /\ Die("down") /\ UNCHANGED dirTab

-----------------------------------------------------------------------------
(* fs_mkdir, fs_create_file                                                *)

\* Both start alike: find the parent, and refuse a name that is taken.
MakeStatus(path) ==
  LET status == fs_path_to_parent(dirTab, path)
  IN  IF status = "OK" /\ Child(dirTab, path) # 0 THEN "EEXIST" ELSE status

WithEntry(tab, path, idx) ==
  [tab EXCEPT ![ParentBlk(tab, path)] = dir_insert(@, Last(path), idx)]

\* No data block is left, or no inode: the block just taken is not returned.
MkdirExhausted ==
  /\ \/ (Exhausted(blocks) /\ UNCHANGED blocks)
     \/ (HasRoom(blocks) /\ Exhausted(inodes) /\ blocks' = Allocated(blocks))
  /\ ret' = "ENOMEM"
  /\ UNCHANGED <<phase, inodes, inodeTab, dirTab, cached>>

MkdirFaults ==
  /\ Faults(blocks) \/ (HasRoom(blocks) /\ Faults(inodes))
  /\ Die("crashed") /\ UNCHANGED dirTab

\* Slip: dir_init is forgotten and the block keeps what it held.
MkdirKeepsBlock(path) ==
  LET idx == AllocIdx(inodes)
      blk == AllocIdx(blocks)
  IN  /\ HasRoom(blocks) /\ blocks' = Allocated(blocks)
      /\ HasRoom(inodes) /\ inodes' = Allocated(inodes)
      /\ dirTab' = WithEntry(dirTab, path, idx)
      /\ inodeTab' = [inodeTab EXCEPT ![idx] = [dir |-> TRUE, blk |-> blk]]
      /\ ret' = "OK"
      /\ UNCHANGED <<phase, cached>>

(* The parent is saved before the new directory is.  That dir_insert fails *)
(* when the parent is full goes unnoticed.                                 *)
MkdirDone(path) ==
  LET idx == AllocIdx(inodes)
      blk == AllocIdx(blocks)
  IN  /\ HasRoom(blocks) /\ blocks' = Allocated(blocks)
      /\ HasRoom(inodes) /\ inodes' = Allocated(inodes)
      /\ dirTab' = [WithEntry(dirTab, path, idx) EXCEPT ![blk] = <<>>]
      /\ inodeTab' = [inodeTab EXCEPT ![idx] = [dir |-> TRUE, blk |-> blk]]
      /\ ret' = "OK"
      /\ UNCHANGED <<phase, cached>>

Mkdir(path) ==
  /\ phase = "up"
  /\ MayMake(path)
  /\ \/ Refuse(MakeStatus(path))
     \/ Smash(path) /\ UNCHANGED dirTab
     \/ MakeStatus(path) = "OK" /\ MkdirExhausted
     \/ MakeStatus(path) = "OK" /\ MkdirFaults
     \/ MakeStatus(path) = "OK" /\ MkdirDone(path)

CreateExhausted ==
  /\ Exhausted(inodes)
  /\ ret' = "ENOMEM"
  /\ UNCHANGED <<phase, inodes, blocks, inodeTab, dirTab, cached>>

CreateFaults == Faults(inodes) /\ Die("crashed") /\ UNCHANGED dirTab

CreateDone(path) ==
  LET idx == AllocIdx(inodes)
  IN  /\ HasRoom(inodes) /\ inodes' = Allocated(inodes)
      /\ dirTab' = WithEntry(dirTab, path, idx)
      /\ inodeTab' = [inodeTab EXCEPT ![idx] = [dir |-> FALSE, blk |-> 0]]
      /\ ret' = "OK"
      /\ UNCHANGED <<phase, blocks, cached>>

CreateFile(path) ==
  /\ phase = "up"
  /\ MayMake(path)
  /\ \/ Refuse(MakeStatus(path))
     \/ Smash(path) /\ UNCHANGED dirTab
     \/ MakeStatus(path) = "OK" /\ CreateExhausted
     \/ MakeStatus(path) = "OK" /\ CreateFaults
     \/ MakeStatus(path) = "OK" /\ CreateDone(path)

-----------------------------------------------------------------------------
(* fs_rename_file, fs_remove_file                                          *)

WithoutEntry(tab, path) ==
  [tab EXCEPT ![ParentBlk(tab, path)] = dir_remove(@, Last(path))]

RenameStatus(from) ==
  LET status == fs_path_to_parent(dirTab, from)
  IN  IF status = "OK" /\ Child(dirTab, from) = 0 THEN "ENOENT" ELSE status

(* `from' is taken out and its directory saved before `to' is looked at;   *)
(* when that fails it is not put back.                                     *)
RenameLoses(from, to) ==
  LET tab    == WithoutEntry(dirTab, from)
      status == fs_path_to_parent(tab, to)
  IN  /\ dirTab' = tab
      /\ \/ /\ status # "OK"
            /\ ret' = status
         \/ /\ status = "OK"
            /\ ~HasSpace(tab[ParentBlk(tab, to)])
            /\ ret' = "CORRUPT"
      /\ cached' = StillCached(cached \cup {from})
      /\ UNCHANGED <<phase, inodes, blocks, inodeTab>>

RenameSmashes(from, to) == Smash(to) /\ dirTab' = WithoutEntry(dirTab, from)

\* Slip: `to' is looked up while `from' is still in the tree.
RenameLooksFirst(from, to) ==
  LET idx == Child(dirTab, from)
  IN  /\ fs_path_to_parent(dirTab, to) = "OK"
      /\ HasSpace(WithoutEntry(dirTab, from)[ParentBlk(dirTab, to)])
      /\ dirTab' = [WithoutEntry(dirTab, from) EXCEPT
                      ![ParentBlk(dirTab, to)] = dir_insert(@, Last(to), idx)]
      /\ ret' = "OK"
      /\ UNCHANGED <<phase, inodes, blocks, inodeTab, cached>>

RenameDone(from, to) ==
  LET tab == WithoutEntry(dirTab, from)
      idx == Child(dirTab, from)
  IN  /\ fs_path_to_parent(tab, to) = "OK"
      /\ HasSpace(tab[ParentBlk(tab, to)])
      /\ dirTab' = WithEntry(tab, to, idx)
      /\ ret' = "OK"
      /\ cached' = StillCached((cached \ {from}) \cup
                     (IF fs_path_to_inode(dirTab', to) = 0 THEN {to} ELSE {}))
      /\ UNCHANGED <<phase, inodes, blocks, inodeTab>>

RenameFile(from, to) ==
  /\ phase = "up"
  /\ MayRename(from, to)
  /\ \/ Refuse(RenameStatus(from))
     \/ Smash(from) /\ UNCHANGED dirTab
     \/ RenameStatus(from) = "OK" /\ RenameLoses(from, to)
     \/ RenameStatus(from) = "OK" /\ RenameSmashes(from, to)
     \/ RenameStatus(from) = "OK" /\ RenameDone(from, to)

\* The assertion that the removed entry has an inode.
RemoveAborts(path) ==
  /\ fs_path_to_parent(dirTab, path) = "OK"
  /\ ~exist(inodes, Child(dirTab, path))
  /\ Die("aborted") /\ UNCHANGED dirTab

\* Slip: the directory is not saved.
RemoveUnsaved(path) ==
  LET idx == Child(dirTab, path)
  IN  /\ fs_path_to_parent(dirTab, path) = "OK"
      /\ exist(inodes, idx)
      /\ blocks' = Released(blocks, inodeTab[idx].blk)
      /\ inodes' = Released(inodes, idx)
      /\ ret' = "OK"
      /\ UNCHANGED <<phase, inodeTab, dirTab, cached>>

RemoveDone(path) ==
  LET idx == Child(dirTab, path)
  IN  /\ fs_path_to_parent(dirTab, path) = "OK"
      /\ exist(inodes, idx)
      /\ blocks' = Released(blocks, inodeTab[idx].blk)
      /\ inodes' = Released(inodes, idx)
      /\ dirTab' = WithoutEntry(dirTab, path)
      /\ ret' = "OK"
      /\ UNCHANGED <<phase, inodeTab, cached>>

(* Serves unlink and rmdir: nothing asks what kind of inode it is, or      *)
(* whether a directory is empty.                                           *)
RemoveFile(path) ==
  /\ phase = "up"
  /\ MayRemove(path)
  /\ \/ Refuse(fs_path_to_parent(dirTab, path))
     \/ Smash(path) /\ UNCHANGED dirTab
     \/ RemoveAborts(path)
     \/ RemoveDone(path)

-----------------------------------------------------------------------------

\* The kernel looks a name up again when its entry has timed out.
Expire == \E path \in cached :
  /\ cached' = cached \ {path}
  /\ UNCHANGED <<phase, inodes, blocks, inodeTab, dirTab, ret>>

Next ==
  \/ Mount
  \/ Stop
  \/ \E path \in Files : Mkdir(path)
  \/ \E path \in Files : CreateFile(path)
  \/ \E from, to \in Files : RenameFile(from, to)
  \/ \E path \in Files : RemoveFile(path)
  \/ Expire

Spec == Init /\ [][Next]_vars

-----------------------------------------------------------------------------

TypeOK ==
  /\ phase \in {"down", "up", "aborted", "crashed"}
  /\ inodes \in BlkGrps
  /\ blocks \in BlkGrps
  /\ inodeTab \in [Indices -> Inodes]
  /\ DOMAIN dirTab = Indices
  /\ \A blk \in Indices : dirTab[blk] \in Dirs
  /\ cached \in SUBSET Files
  /\ ret \in Errors \cup {"OK"}

LiveDirs == {idx \in Used(inodes) : inodeTab[idx].dir}
EntriesOf(idx) == dirTab[inodeTab[idx].blk]

(* An entry of a live directory leads to an inode in use, never to the     *)
(* root or the reserved one.  fs_remove_file gives up the inode, the block *)
(* and the entry in three steps, and the contents of released blocks and   *)
(* inodes stay on the device to be found by whoever gets them next.        *)
EntriesHaveInodes ==
  \A d \in LiveDirs : \A i \in DOMAIN EntriesOf(d) :
    LET idx == EntriesOf(d)[i].idx
    IN  exist(inodes, idx) /\ idx \notin {BADBLK_INODE, ROOT_INODE}

(* No inode is named twice: whatever rename does to `from' and `to', and   *)
(* in whichever order entries are swapped in dir_remove, it never leaves   *)
(* two entries of one inode, which the two removals would release twice.   *)
OneEntryEach ==
  \A d, e \in LiveDirs :
    \A i \in DOMAIN EntriesOf(d), j \in DOMAIN EntriesOf(e) :
      EntriesOf(d)[i].idx = EntriesOf(e)[j].idx => <<d, i>> = <<e, j>>

(* Each live directory has a block of its own, and it is allocated; blocks *)
(* leak in fs_mkdir but are never shared, and an rmdir of a directory that *)
(* is not empty takes no block away from the directories below it.         *)
DirsOwnBlocks ==
  \A d \in LiveDirs :
    /\ exist(blocks, inodeTab[d].blk)
    /\ \A e \in LiveDirs \ {d} : inodeTab[e].blk # inodeTab[d].blk

(* The bitmaps, blocks and arrays implement the forest of inodes.          *)
Kids ==
  IF phase = "up" THEN [d \in LiveDirs |-> ToSet(EntriesOf(d))]
  ELSE [d \in {ROOT_INODE} |-> {}]

Leaves ==
  IF phase = "up" THEN Used(inodes) \ (LiveDirs \cup {BADBLK_INODE}) ELSE {}

Forest == INSTANCE InodeForest WITH
            Ids    <- Indices \ {BADBLK_INODE},
            Root   <- ROOT_INODE,
            Limit  <- FilePerDir,
            kids   <- Kids,
            leaves <- Leaves

ImplementsForest == Forest!Spec

(* No directory is below itself.  fs_rename_file does not compare its two  *)
(* paths; that `from' is out of the tree before `to' is looked up is what  *)
(* keeps a directory from being moved into itself.                         *)
NoCycle ==
  phase = "up" =>
    \A d \in LiveDirs : \A e \in ToSet(EntriesOf(d)) : d \notin Forest!Below(e.idx)

UniqueNames ==
  \A d \in LiveDirs : \A i, j \in DOMAIN EntriesOf(d) :
    EntriesOf(d)[i].name = EntriesOf(d)[j].name => i = j

(* A request changes what its own paths lead to and nothing else, as long  *)
(* as no name occurs twice: dir_remove moves another entry, releases and   *)
(* allocations hand inodes and blocks of one name to another.              *)
Changed ==
  {path \in Files :
     (fs_path_to_inode(dirTab, path))' # fs_path_to_inode(dirTab, path)}

Requests(from, to) ==
  \/ from = to /\ (Mkdir(to) \/ CreateFile(to) \/ RemoveFile(to))
  \/ RenameFile(from, to)

OtherNamesKept ==
  [][phase = "up" /\ phase' = "up" /\ UniqueNames =>
      LET changed == Changed IN
      changed # {} =>
        \E from, to \in Files :
          /\ \A path \in changed : IsPrefix(from, path) \/ IsPrefix(to, path)
          /\ Requests(from, to)]_vars

(* A name that the kernel found missing is never refused as existing: the  *)
(* lookup of getattr and the test of fs_mkdir and fs_create_file agree,    *)
(* although only the former checks that the entry's inode is in use.       *)
NoGhostNames == Vfs => ret # "EEXIST"

-----------------------------------------------------------------------------
(* What the comments of the source say, and the code does not do.          *)

(* fs_remove_file: assert(ret == true), the removed entry has an inode.    *)
RemovedNamesHaveInodes == phase # "aborted"

=============================================================================
