# chisai-fs in TLA+

chisai-fs is a small FUSE file system. This directory holds TLA+ models of its
core, TLC runs over small instances of them, and proofs checked by TLAPS.
`PROJECT.json` lists every run, theorem, hazard and finding, and maps each
definition to the lines of the source it stands for.

## Inventory of the system

| part | source | state it keeps | operations |
|---|---|---|---|
| bit vectors | `src/utils/bitvec.c` | an array of bytes | get, set, reset, count zeros, find the first clear bit |
| block groups | `src/src/chisai-core/block_group.c` | per group two bitmaps and two cached hints `next_inode`, `next_data` | load, exist, alloc, release, destroy |
| superblock | `src/src/chisai-core/superblock.c` | geometry, free counters | init, save, load |
| directories | `src/src/chisai-core/dir.c` | 15 entries of a name and an inode index, and how many are in use | look up, insert, remove |
| inodes | `src/src/chisai-core/inode.c` | mode, size, block count, 12 direct blocks, one indirect | set fields, save, load |
| namespace operations | `src/src/chisai-core/fs.c` | the mounted file system | init, create root, walk a path, mkdir, create, rename, remove, destroy |
| file contents | `src/src/chisai-core/fs.c` | a private copy of the inode per open file | find or allocate a block, write, read, truncate |
| FUSE front end | `src/src/chisai-mount.c` | handles in `fi->fh`, the global `REOPEN` flag | one callback per request |
| directory reading | `fs.c`, `chisai-mount.c` | a copy of the directory and a position per opendir | opendir, readdir, releasedir |
| formatting | `src/src/chisai-format.c` | none | write the superblock |
| device access | `src/src/chisai-deviceop.c` | a file descriptor | read, write |
| command line, helpers | `src/src/main.c`, `src/utils/log.c`, headers | none | options, logging, assertions |

**How the parts interact.** The kernel sends requests, libfuse calls one
callback of the front end at a time (`main.c` adds `-s`), the callback calls
the core, and the core calls down to directories, inodes, block groups and the
device. No two requests overlap inside the process. State is shared in time
rather than by threads: the bitmaps in memory and the tables on the device are
related only by what the core does; a hint is computed in one request and
trusted in a later one; a handle keeps its own inode from one request to the
next; and the kernel remembers names that the file system may have lost.

**What is hard.** There is no locking to get wrong. What a test would hardly
reach is resources running out and coming back (full groups, full
directories, no inode but still a block), requests that fail after they have
saved something, sequences of legal calls (rename over a name, rmdir of a
directory that is not empty, two handles and a truncate), the kernel's cache
being behind, and what is left after unmounting. `PROJECT.json` lists each such
hazard with its line and the properties that watch it.

**What makes each part correct.**

- Bit vectors: the byte arithmetic is that of a set of positions; counting and
  scanning agree.
- Block groups: an index is handed out to one holder at a time, and refused
  only if none is left.
- Superblock: the free counters do not wrap and never promise too little.
- Directories and namespace: entries lead to inodes in use, an inode has at
  most one name, directories do not share blocks, there are no cycles, a
  request changes what its own paths lead to and nothing else.
- File contents: a read returns what was written at its offset and in its file,
  and fails only where nothing was, files do not share blocks, a truncation takes
  what lies behind the new end and nothing before it, a request ends however it
  lies across blocks.
- Front end: an operation on an open file sees earlier truncations.

## The modules

| module | models |
|---|---|
| `Bitvec` | `bitvec.c`, bit by bit in bytes |
| `BitSet` | abstract: a set of positions |
| `BitvecProofs` | the theorems about `Bitvec` |
| `BlockGroups` | operators on the block groups of one kind (the source has every function twice, for inodes and for data) |
| `Allocator` | the block groups as a service: mount, allocate, release, destroy, with the superblock's counter and an arbitrary device |
| `IndexPool` | abstract: a pool of indices |
| `BlockGroupsProofs` | lemmas on one kind of block groups, for the proofs about the modules above it |
| `AllocatorProofs` | the theorems about `Allocator` |
| `Volume` | layout of the device, formatting, mounting and remounting |
| `VolumeProofs` | the theorems about `Volume` |
| `Products` | lemmas on products, division and least elements for the modules of proofs |
| `Directory` | operators on one directory |
| `Namespace` | mounting, mkdir, create, rename and remove, on top of two instances of block groups and the device tables |
| `InodeForest` | abstract: a forest of directories |
| `NamespaceProofs` | the theorems about the structure of `Namespace` |
| `NamespaceForestProofs` | that `Namespace` has no cycle, implements `InodeForest`, and keeps other names |
| `MCNamespace` | `Namespace` for TLC, with the symmetry of names |
| `FileIO` | block pointers, data blocks, reads and writes block by block, truncation, open handles with `REOPEN`, the position of the device's descriptor |
| `FileStore` | abstract: files with contents and a size, read and written at offsets |
| `FileIOProofs` | the theorems about `FileIO`: types, open handles, truncation, that files share no block, and that it implements `FileStore` |

`Namespace` EXTENDS `BlockGroups` and `Directory`; `Allocator` and `FileIO`
EXTEND `BlockGroups`; a module of proofs EXTENDS the module it is about. Each abstract module is instantiated in the module that
implements it, with a refinement mapping, and its `Spec` is checked as a
property.

### State and actions

`Bitvec`: `inner` is the array; `bitvec_set` and `bitvec_reset` are the
actions, the other functions are operators. The initial vector is arbitrary, as
one read from a device.

`Allocator`: `grps` is `blk_grps` with the bitmap and hint of one kind,
`free` the superblock's counter, `disk` the bitmaps on the device, `ret` what
the last allocation returned, `filled` a history variable for the properties.
`Load` is the part of `fs_init` that reads bitmaps; `Alloc`, `AllocFails` and
`AllocFaults` are the outcomes of `fs_inode_alloc` or `fs_data_alloc`, and
`Release` is `fs_inode_release` or `fs_data_release`. A faulting allocation
computes index 0 - 1 as an unsigned number and writes 512 MiB behind a bitmap of
one block; it is modelled as the end of the process.

`Volume`: `sectors` and `blk` describe the device, `sb` is the superblock on it,
`fs` the one in the memory of the mounted process, `stray` which of the three
bits are set that `fs_create_root` expects to find clear, for each block size a
volume may have, since these bits lie elsewhere for another block size. `exit` is
how the last format or mount ended, `mounted` a history variable. Formatting
changes `sb` only. What a mounted volume writes is abstracted to the bytes it can
reach (`Writes`, from the offsets of the source): a bit that lies there may change
in any request (`Scribble`), every other bit keeps its value. So a volume with
blocks of 512 bytes can leave bits that make the mount of a later volume with
blocks of 4096 bytes fail, but never that of its own next mount.

`Namespace`: `inodes` and `blocks` are the two kinds of block groups,
`inodeTab` and `dirTab` the device's inodes and directory blocks, `cached` the
paths that the kernel takes to exist although they do not, `ret` the last return
code. A request is one action, since requests do not overlap; each action has one
disjunct per way the function can end. A crash in the middle of a request leaves
part of the saves on the device, but the next mount makes a new root without
looking at any of them, so `Stop` between requests covers it. The contents of
released blocks and inodes stay in the tables, as they do on the device.

`Walk` is the loop of `fs_path_to_inode` as a function from the number of
components passed to the inode reached (0 once one is missing), and `Enter` one
round of it. `Kids` and `Leaves` are the refinement mapping to `InodeForest`: the
set of entries of every directory in use, and the inodes in use that are files.

Of an inode the model keeps what naming depends on: whether it is a directory,
and `direct_blks[0]`. Files have no blocks here, as if none were ever written;
`FileIO` has what they hold, and names files by number instead of by path.

The constant `Vfs` says who calls. With `Vfs = FALSE` any function of `fs.h` is
called with any path. With `Vfs = TRUE` the calls are those a Linux kernel makes:
it has looked up the path before, knows what is a directory, does not rename a
directory into itself, and trusts a cached name for a while (`Expire`). The
properties that should hold are checked without these precautions where they do
not need them; every finding is shown with them.

Undefined behaviour: `fs_path_to_parent` copies the last component into 28 bytes
of the caller before it compares its length with 28. For longer names the model
has both the error that is meant and the loss of the process (`Smash`). For names
of exactly 28 characters only the NUL goes too far and the request goes on;
the entry it stores fills its name up to the index behind it and is not found again
(`Matches`).

`FileIO`: `blocks` are the block groups of data blocks, `linked` the files that a
path leads to, `tab` the inodes on the device, `disk` the words of the data
blocks, `handles` what `fi->fh` points to, `reopen` is `REOPEN`, `pos` the position
of the one file descriptor, `wild` whether a write has gone astray since the
mount, and `req` the read or write in progress with its locals `off`, `size`,
`total` and, for a read, the caller's buffer. A read or write begins with
`chisai_fuse_reopen`, takes one step per round of the loop of `fs_read_file` or
`fs_write_file`, and ends; the process may end between any two of them
(`Restart`). Other requests are one action each.

*Names and handles.* A file is `Live` as long as a path or a handle leads to it. It
may have a handle and no path: the entry of a new file is not made in a full
directory and not found again with 28 characters (`Create`), a rename may lose it
(`LoseName`), and libfuse renames an open file that is to be removed to
`.fuse_hidden` and 16 digits, which are 28 characters. Of such a file nothing is
given up when it is closed (`LetGo`: its blocks stay in use), and the unlink of the
hidden name fails the assertion of `fs_remove_file` (`ReleaseHidden`). A reopening
frees the handle first. If its path leads to the file, or to another file that has
got the name since (`PathTo`), the copy is read again (`Reopen`); if it leads
nowhere, `fi->fh` dangles and `REOPEN` stays up (`ReopenFails`), and the next use
of the handle or its release is a second `free` or works on memory of somebody else
(`UseFreed`).

*Words.* The unit of data is the word of 4 bytes, the size of a block index, because
the code can take a word of data for an index. A word that a program writes is known
by file and offset (`Own`), so a word that turns up elsewhere is seen; two writes to
the same place are not told apart. `Any` is a word of which nothing is known: one in
a block that no file names, one in a directory or outside the blocks, or, after a
write has gone astray, any word of a program (`Blurred`). A block of
indices is cleared before it is used again, a block of data is not.

*Seeks that fail.* An index that is 0, or names no block, makes `lseek` fail; nobody
checks, and the access happens at `pos`. This is followed where it leads:

- A read through `indirect_blk` 0 takes the word at `pos` for a block index
  (`Slot`, `WordAt`). If the word is one of a program, or unknown, it may be 0, an
  index, or neither (`TakenFor`).
- A read of data puts what lies there into the buffer (`ReadChunk`).
- A write puts its data there, or into the block that the word happened to
  name, and the process goes on (`SaveAstray`): for a file
  without an indirect block (`WriteStrays`), beyond the last block a file can have
  (`WriteBeyond`, with the block of the previous round or one that was never set),
  and for an indirect block without a second block (`WriteStarved`: index 0 is
  recorded, the data saved behind it in the indirect block, size and inode saved).
  Such a write sets `wild`. From then on any word of an indirect block may be what a
  program wrote, and later writes through it go astray as well.
- The model ends (`GiveUp`) where a write would leave the blocks of files: it hits
  an inode, a bitmap, a directory, or whatever follows the last group; and where a
  request works on freed memory. Anything may follow in the code. The variables take
  their first values there, to have one state for it; no property says anything of it.

`direct_blks[12]`, which the loop of `fs_truncate_file` reaches, is the word behind
the array, `indirect_blk`; the one behind that, `double_indirect_blk`, is always 0.
Behind it the inode ends, and the model asks for no truncation that begins there.

*The abstract store* has contents, sizes and the buffer of a read. A write stores its
words in order in its own file, and may stop early; the size becomes what was written,
or grows by it. A read asks for at most as many words as the size says, copies
what the file has at its offsets, and fails only if it comes to an offset that has
nothing. A truncation keeps what lies before the block of the new end. The mapping
hides a volume on which a write went astray: `InControl` is false from that
write to the next mount, and the store has lost its files.

What is taken from outside: the device is larger than its groups; programs
write at least one byte; the C library's `malloc` returns the chunk that was just
freed, so that `file` is valid after a `chisai_fuse_reopen` that succeeds; there is no
directory but the root (with more, a write that goes astray may hit one without
`GiveUp` being reached), and directories change in `Namespace` only.

## The runs

| run | instance | shows |
|---|---|---|
| `bitvec` | 2 bytes: all 65 536 vectors, all 16 positions | counting, scanning and masking agree with a set of positions, across a byte boundary |
| `allocator` | 2 groups of 3 positions, every initial bitmap | the allocator implements the pool; the counter covers the clear bits; a release frees its own index; a fault needs a full group |
| `namespace_tree` | 4 inodes and blocks, 2 names, 2 entries per directory, paths of 2 components, `Vfs = FALSE` | the structure is a forest, whatever is called; other names are kept while entries move |
| `namespace_kernel` | as `namespace_tree` with a full and a long name more and 1 entry per directory, `Vfs = TRUE` | getattr and mkdir agree on which names exist; the structure is a forest where directories are full and inodes are left |
| `fileio` | 1 handle, 1 file, 1 direct block and 2 words per block, 4 blocks of which the root directory has 1; requests of 1 and 4 words at offsets 0 and 3; truncation to 0 to 7 words | a handle is in step with the device; blocks are private; writes go astray in two ways only; truncation cuts where it should; reads and writes implement files and return |
| `fileio_two` | the same with 2 files and 3 blocks | blocks that pass between files, names that pass between files |
| `volume` | 4 sizes, blocks of one or two sectors, volumes of no to seven groups, every content of the reserved bits | nothing a volume keeps overlaps, it fits, and it mounts again |
| the others | smallest instances with the effect | the findings below |

**Bounds.** `Groups` = 2 has a first and a last group, `BlkInodeNum` = 3 lets one
group be full, empty, and with a hint before and behind a clear bit. Four
indices leave two inodes to be created besides the reserved one and the root:
enough to run out of inodes while a block is left, to remove a directory that is
not empty, to get two entries of one name and to reuse every inode and block. A
directory of two entries is full only when no inode is left for a third, so
`namespace_kernel` has directories of one: there a new name can find its directory
full and an inode free. `MaxDepth`
bounds the paths asked for, not the tree. `MaxFree` bounds the drifting counter
of `Allocator`; one above `Total` shows the drift. Names are symmetric within
their class since they are only compared for equality. `Volume` keeps the shape
of the real numbers (an inode is smaller than a block, a sector is the smaller of
two block sizes) at a scale at which every pair of things on the device can be
compared; one of the sizes is too small, one ends exactly with a group, and one
wraps the indices of `Word`.

`FileIO` has one direct block, so that a request of 4 words at offset 0 fills the
direct block and the first of the indirect ones, one at offset 3 needs all there
is of the second block, the indirect blocks and a block beyond the last. In `fileio`
three blocks are left for data, one fewer than the file can name, and fewer once a
file without a name has kept some, so that they run out at every point of an
allocation, the starved one included; 82 054 states are reached. `fileio_two` has two blocks for two files
(872 452 states): whatever one file gives up the other gets with its old contents,
and a path may lead to the other file when a handle is opened again. `Sector` is the
block: the code's 512 bytes and blocks of 512 bytes. `MaxEnd` is the end of the
longest request, which no size exceeds. The properties of both runs also hold with
two block groups, with two direct blocks and a smaller `Sector`, and with three words
per block; these instances are covered by the theorems and have no run of their own.

Deadlock is checked in every run.

**Fairness.** `FileIO` assumes `WF_vars(WriteStep \/ ReadStep)`, and nothing
else: libfuse runs with `-s`, a request is a call of a single thread, and its
loop goes on as long as the process does. No fairness is assumed of programs or
the kernel, which may stop asking at any time. `RequestsReturn` says that the
loops end; a round that makes no progress would hang the whole file system.

**Findings.** Each is the one property of a violation run.

- `rename_duplicates`: renaming over an existing name leaves two entries.
- `remove_aborts`: a rename that fails on its target has already removed its
  source; unlinking the lost name from the kernel's cache fails an assertion.
- `reopen_once`: with two open handles and a truncation, one handle is reopened
  and the other goes on using blocks that were given up.
- `truncate_aborts`: truncating an empty file to 0 twice fails an assertion, as
  does any truncation to a larger size (`TruncateAborts`).
- `reopen_dangles`: a handle whose path leads nowhere is freed and not opened again;
  one handle is enough. The `REOPEN` workaround keeps a copy that exists in step
  (`HandleFresh`) and does not ensure that there is one.

More facts are part of the models than have a run of their own:

- On a device with logical blocks larger than 512 bytes the volume gets more groups
  than fit: `BLKGETSIZE` counts sectors, and they are multiplied by the block size
  (`disk_size`; `Fits` holds for `SectorVolumeFits` only).
- With one block left, a write behind the direct blocks makes it the indirect block,
  has none for the data and goes on with index 0, which puts the data into the
  indirect block (`WriteStarved`).
- A group that was full and gets a bit back keeps hint 0, and the next allocation
  in it ends the process (`AllocFaults`).
- Nothing created survives a mount, because the bitmaps are never written
  (`Mount`, `Restart`), whatever fsync returned.
- A name of 28 characters is stored and not found (`Matches`).
- A rename that fails loses its source (`RenameLoses`), and making a name in a
  full directory succeeds without making one (`WithEntry`, and the second case of
  `Make` in the abstract forest).
- A removed file gives up its first block only (`Remove`); the others stay in use
  until the next mount.
- A truncation gives up the block that the new end lies in, with the data below
  the new size (`Cut`).
- An overwrite sets the size to its own length (`WriteEnd`), and a read is cut to
  the size of the file wherever it begins (`ReadBegin`), so that reading the end
  of a file asks for blocks behind it and fails (`ReadFails`), and a short write at the
  beginning of a file makes what lies behind unreadable although it stays there. `FileStore` promises
  no more than this: what a read may return depends on the size so computed.
- After a starved allocation two files may write to one block, through a
  word that one of them wrote into its indirect block (`WriteStarved`, then
  `WriteStrays`). `BlocksPrivate` speaks of such words as pointers until a write goes
  astray, and of the pointers in inodes always; `StraysLackIndirect` says how it begins.

## The proofs

`BitvecProofs` proves, for every number of bytes in a vector:

- `TypeCorrect` and `BytesImplementSet`. The masks are arithmetic on a byte, one of
  eight cases (`ByteEffect`), and a position is a byte and a bit of it in one way
  only (`PositionSplits`, `PositionOf`), so that setting a bit adds one element to
  the set of positions and touches no other (`VectorEffect`).
- `ZerosCounted`: each byte's clear positions are as many as its clear bits
  (`ZerosOfByte`, a bijection), different bytes have different ones
  (`ZerosOfBytes`), and so the sum is right for every set of bytes: of the sets
  for which it is not, a smallest one would have a byte whose removal leaves
  another (`TallyCounts`).
- `LowestClearFound`: the scan that begins at any byte finds the lowest clear
  position from there on (`ScanStep`); of the bytes for which it does not, the last
  would have a next one (`ScanFinds`). A full byte counts as 9 and never as found,
  because the promoted byte has its ninth bit clear (`LowestClearOfByte`).

These last two are what the arithmetic of `BlockGroups` takes for granted when it
counts the elements of a set and takes its least. A recursive function is a choice
of a function that satisfies its equation, so that each of the two also needs that
there is one (`TallyExists`, `ScanExists`).

`AllocatorProofs` proves, for every number and size of groups (constants with
their assumptions in `BlockGroups` and `Allocator`: positive numbers, and
`MaxFree` not below the number of indices) and every bitmap on the device:

- `Invariant`: the inductive invariant `IInv`. Type correctness alone is not
  inductive. That the counter stays above 0 follows from its covering the clear
  bits, and this from every allocation consuming a clear bit, for which the hint
  must name one (`HintIsFree`). That a fault needs a group that was full needs
  `ZeroHintSeenFull`: a hint is 0 only in such a group.
- `TypeCorrect`, `HintsNameClearBits`, `CounterIsUpperBound`,
  `FaultsOnlyAfterFull`: the conjuncts that the run `allocator` checks.
- `AllocatorImplementsPool`: the refinement. A successful allocation is a grant
  of an index nobody holds, because the hint's bit was clear and division splits
  the index into group and position again (`IndexOfPosition`,
  `PositionOfIndex`); a refusal means every bit of every group is set; a release
  takes away one index or, for index 0, nothing; a fault or a destroy is a
  restart.

`VolumeProofs` proves, for every block size, inode size, size of a device and
content of it (positive numbers are all that is assumed):

- `PlacesAreApart`: superblock, bitmaps, inodes and data blocks never share a
  byte. Each thing lies within its group (`InGroup`), because the index that an
  allocation composes is split into the same group and position again
  (`IndexRoundTrip`, where the index has to fit into a word); groups follow each
  other (`GroupsFollow`) and within one the five regions do (`ApartInGroup`).
- `SectorVolumesFit`: with blocks of 512 bytes the volume ends on the device.
- `MountedVolumesRemount`: a volume that was mounted can be mounted again. This
  is not inductive; `RootIsKept` adds that since the mount the reserved bits are
  as the mount left them, and `WritesSpareBitmaps` that no record lies on them,
  even where indices wrap.
- `TypeCorrect` and the inductive `Invariant` they come from.

`FileIOProofs` proves, for every number of files, blocks and handles, every size
of blocks and inodes and every length of requests:

- `TypeCorrect`. `TypeOK` is not inductive. An allocation returns an index only if
  its hint is free; a round of a write stays within its block and its request
  (`ChunkFits`), and so within the sizes an inode can have, only if requests begin
  within them (`ReqFits`).
- `TruncationsCut`: a truncation keeps what lies before the block of the new end
  and cuts all of the rest. The loop of `fs_truncate_file` counts old blocks by
  `blkcnt`, in sectors plus one, and that is enough because `blkcnt` always belongs
  to the size (`CountsSectors`) and a sector is no larger than a block
  (`SectorAssumption`, which dir.h states). Where it does not cut, the block was
  never there or the assertion would have failed. What is kept is also not marked
  as old words, since the inode still names it (`AgedFile`).

And for at most one element of `Handles` (`OneHandle`):

- `OneHandleIsFresh`: between requests, a copy that will be used without being
  read again is the inode on the device. It is inductive only with what happens
  within a request (`CopyInv`, lemma `CopiesInStep`): the request's handle is open
  and `REOPEN` is down, a read changes no inode, and a write changes the copy only
  until it saves it. `ReopenBringsInStep` is where the single handle is needed: it
  is the one that takes the flag down. That the path still leads to the file is
  not needed: the copy may be that of another file, which the handle is then open
  for, or there is none. So the theorem is about the copies that exist, and run
  `reopen_dangles` shows how one ceases to.

The rest of the module is for one handle, too. It puts the direct indices of each
file, the index of its indirect block and the indices in that block into one table
(`PtrTable`), with a key for each. As the inode of a file it takes `View`, the
handle's copy as long as a write is changing it and the device's otherwise; as the
words of indirect blocks it takes `Shown`, which is the device until a write
goes astray and nothing after it.

- `BlocksArePrivate` and its inductive invariant `FileInv`: every index in the table
  of a live file is in use, is not the root directory's and is there once
  (`Private`). Every action is one of a few changes of the table: indices go
  (`ShrinkPrivate`), as in `RemovePrivate`, `TruncatePrivate` and `GonePrivate`,
  where those released have left the table, or one that was free comes
  (`GrowPrivate`). A new indirect block is two such steps, and needs that the block
  was cleared (`WriteNewIndirectEffect`): its old words would be pointers. A write
  to a block of data changes no index, because that block is nobody's indirect block
  (`DataIsNotIndirect`), which is the invariant again. A starved allocation adds one
  pointer to an inode, and its data, like that of any write astray, may turn up in
  every word of the device, but in no inode (`WildIndirect`, `AstrayPrivate`,
  `WildPrivateRounds`): what was an invariant of the whole table is one of
  the inodes from there on. The copy that a request starts from has to be the
  inode of the device (`OnHandleViews`): with a stale one, two files would share
  what a truncation gave up, as run `reopen_once` shows for two handles.
- `StraysHaveNoIndirect`: with that, what `fs_find_blk` finds through pointers of the
  inode is a block of this file (`FoundInUse`, `OnlyStrays`), and two ways
  are left in which a first write goes astray: no indirect block, which includes the
  starved allocation of one, or an offset beyond.
- `FilesAreImplemented`: the refinement of `FileStore`, one lemma for each
  kind of step. For a write, `WroteTo` says what a round has changed, however it
  found its block; then the words of the chunk are where `fs_read_file` looks for
  them (`ChunkStored`, by `ChunkOffsets`), no other word of any file has changed
  (`OthersStored`), and the rest of the block comes out as anything only if it was
  absent before (`RoundAdvances`). For a read, a chunk of a block lies within its
  group (`BlockWithin`), so what is read there is what the file has
  (`ChunkHolds`), put at its place in the buffer (`ChunkRead`); where
  the descriptor's position decides, the file has nothing (`ReadStepStored`). Sizes
  agree because a write changes the copy's only when it ends (`SizeInStep`) and a
  read begins with the size on the device (`ReadingView`). Restarts, failed
  assertions, faults and writes that go astray lose all files (`LosesAll`), and a
  volume does not come back from that without a mount (`StaysOut`).

`NamespaceProofs` proves, for every set of names, every number of inodes and
blocks with room for the two reserved inodes, every size of a directory, every
depth of a path and both values of `Vfs`:

- `Invariant`: the inductive invariant. What the runs check is not inductive by
  itself. An allocation gives out an inode or block that nobody has only because
  the hint is free (`HintsAreFree`). The parent of a path is a directory only
  because in this model nothing else has a block (`TablesOK`), as
  `fs_path_to_parent` never looks at the mode. The root and the reserved inode are
  never handed out because they stay in use (`ReservedInodes`). The structure
  itself is one operator (`Sound`) of the sets of inodes and blocks in use and of
  the two tables, and each kind of change to a table is one lemma about it: an
  entry is taken out (`UnlinkSound`) or added (`LinkSound`), an inode is used again
  (`NewInodeSound`, `NewDirSound`), an inode is given up (`GiveUpSound`). An
  operation's proof is a chain of these, in the order of the code's saves.
- `EntriesLead`, `EntriesAreSingle`, `BlocksAreOwn`, `GhostsAreNotSeen`,
  `TypeCorrect`: the invariants that the runs check. `RemoveEffect` has the
  detail on which `OneEntryEach` rests: `dir_remove` moves the last entry into the
  gap, and every other entry is where it was.

`NamespaceForestProofs` goes on from there, for the same constants:

- `ForestInvariant` adds `NoLoop`: every set of inodes has a member to which no
  entry of the set leads. In this form the absence of cycles needs no recursion,
  and each change to a table either takes entries away (`FewerLeadNoLoop`), adds an
  inode without entries (`LeafLeadNoLoop`), or moves an entry (`MoveNoLoop`).
- The last of these is a rename. `fs_rename_file` does not compare its paths; it
  removes the source's entry first and walks to the target then. An inode
  to which no entry leads any more is not on any walk from the root
  (`PassedAreLedTo`, `WalkPassesParents`), and neither is what lies below it, since
  every inode has one entry only: so the target's directory is not below the
  source (`TargetNotBelow`). With the two steps in the other order this fails.
- `NoDirectoryIsBelowItself` carries this over to `NoCycle`. It needs that
  `Below`, a recursive function, is defined for every number of levels
  (`LevelsDefined`) and stays in every set that no entry leads out of
  (`BelowInClosed`).
- `NamespaceImplementsForest`: the refinement, one lemma for each action
  (`MkdirDoneForest`, `CreateDoneForest`, `RenameDoneForest`, `RenameLosesForest`,
  `RemoveDoneForest`, `MountForest`, `DieForest`). An array of entries
  becomes a set, which is as large as the array is long only because no inode has
  two entries (`SizeOfSet`); so a full array is a full set.
- `OthersAreKept`: the action property on whole walks. Where everything is sound,
  the checks of `fs_path_to_inode` for blocks and inodes in use never fail, so that
  a round depends on the directory alone (`EnterIsHop`). Two walks that meet have
  come the same way, since no inode has two entries and none leads to the root
  (`WalksMeet`). A request changes the search for one name in one directory
  (`RemoveKeepsNames`, where the names of a directory have to be unique, and
  `InsertKeepsNames`), and, if it gives up an inode, the searches from there;
  so a walk that comes out otherwise has come to that place, and its path begins
  with that of the request (`OthersKept`). A rename is two such steps, and the
  target's walk is one in the contents between them (`RenameDoneKeepsNames`).

**Model-checked only.** Out of the prover's reach are liveness (`RequestsReturn`)
and induction over data in general. Where a theorem needs a recursive function, the
sum and the scan of `Bitvec`, the walk and `Below` of `Namespace`, the least
number, or smallest set, at which a claim fails takes the place of induction.
Every invariant, action property and refinement of the passing runs has a theorem.

## Not modelled, and the plan

Not modelled: option parsing, logging, statfs and the operations that are
refused or accepted without effect (link, mknod, chown, chmod, utimens, fsync,
flush), device errors (every failing read or write ends the process), and
read or write calls of the device that transfer less than asked.

Listing directories is not modelled either. `opendir` copies the directory in one
step and `readdir` lists the whole copy in one call, so that no request comes
between two entries of a listing; a property of it would restate the copy. That
the position never goes back, so that a listing after `rewinddir` is empty, is
listed as a hazard.

Two handles that write to one file overwrite each other's sizes and blocks;
`FileIO` has these behaviours (run `reopen_once`), but no property is stated for
them beyond the comment on `REOPEN`: the source promises nothing.

Where the models are coarser than the code:

- `Volume` keeps track of the three bits that `fs_create_root` expects to find
  clear, all in group 0, and of writes to indices that seek. A write whose seek fails
  goes where the descriptor was left, which may be a bitmap of a later group, and is
  not among its `Writes`; `FileIO` ends at such a write (`GiveUp`).
- `MountRefused` is the check of the magic. `fs_init` uses the block size and the
  number of groups of the superblock before that check, to allocate and load the
  block groups; with an arbitrary superblock this can fail or exhaust memory earlier.
- Files have no blocks in `Namespace`. The walk of a path through a file, which does
  not look at the mode, and the release of a file's first block do not occur in it.
- `FileIO` has one directory, the root, and no inode table besides `tab`: what a
  write that hits them does to names is not followed.

Of the plan nothing is left but liveness, which stays with TLC.
