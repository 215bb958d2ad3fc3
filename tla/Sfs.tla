-------------------------------- MODULE Sfs --------------------------------
(***************************************************************************)
(* The block management of the simple file system, kern/fs/sfs: the bitmap *)
(* of free blocks, the direct and indirect block pointers of the files,    *)
(* and what of them is in memory only and what has reached the disk.       *)
(*                                                                         *)
(* The kernel is not preempted and disk transfers are polled, so file      *)
(* system calls do not overlap.  A call is a sequence of steps all the     *)
(* same, one for each iteration of its loop over the blocks, because a     *)
(* call may fail half-way when the disk is full.  The data in the blocks   *)
(* and errors of the disk are left out.                                    *)
(***************************************************************************)
EXTENDS Naturals, FiniteSets

CONSTANTS File,              \* the regular files of the disk
          Block,             \* the numbers of the blocks for data and index blocks
          SFS_NDIRECT,       \* direct pointers in an inode
          SFS_BLK_NENTRY,    \* pointers in an index block
          SFS_BLKSIZE,       \* bytes in a block
          SFS_MAX_FILE_SIZE, \* the size above which the calls refuse to grow a file
          MaxLen             \* bound: the longest read or write

ASSUME SfsAssumption ==
  /\ Block \subseteq Nat \ {0} /\ IsFiniteSet(Block)
  /\ {SFS_NDIRECT, SFS_BLK_NENTRY, SFS_BLKSIZE, SFS_MAX_FILE_SIZE, MaxLen} \subseteq Nat \ {0}

VARIABLES freemap,        \* the blocks whose bit is set: the free ones
          unused_blocks,  \* super.unused_blocks
          super_dirty,    \* super_dirty
          din,            \* the inode of each file, in memory
          dirty,          \* the files with sin->dirty
          entries,        \* the pointers in each file's index block, written through to the disk
          disk,           \* the inode of each file, on disk
          d_freemap, d_unused, \* the bitmap and the super block on disk
          reach,          \* the largest position an open descriptor of the file may hold
          call,           \* the call in progress
          phase           \* mounted, cleaned up, or stopped by an assertion

memVars == <<freemap, unused_blocks, super_dirty, din, dirty, entries>>
diskVars == <<disk, d_freemap, d_unused>>
sfsVars == <<memVars, diskVars, reach, call, phase>>

Direct == 0..SFS_NDIRECT - 1
Entry == 0..SFS_BLK_NENTRY - 1
Index == 0..SFS_NDIRECT + SFS_BLK_NENTRY - 1
Pointer == Block \cup {0}
Size == 0..SFS_MAX_FILE_SIZE
Inode == [size : Size, blocks : 0..SFS_NDIRECT + SFS_BLK_NENTRY,
          direct : [Direct -> Pointer], indirect : Pointer]

NoCall == [op |-> "none"]
Calls == {NoCall}
         \cup [op : {"read", "write"}, file : File, pos : Size, end : Size]
         \cup [op : {"truncate"}, file : File, len : Size]

SfsTypeOK ==
  /\ freemap \subseteq Block /\ d_freemap \subseteq Block
  /\ unused_blocks \in 0..Cardinality(Block) /\ d_unused \in 0..Cardinality(Block)
  /\ super_dirty \in BOOLEAN
  /\ din \in [File -> Inode] /\ disk \in [File -> Inode]
  /\ dirty \subseteq File
  /\ entries \in [File -> [Entry -> Pointer]]
  /\ reach \in [File -> Size]
  /\ call \in Calls
  /\ phase \in {"up", "down", "panic"}

\* A disk of empty files, as mksfs writes it, just mounted.
SfsInit ==
  /\ freemap = Block /\ unused_blocks = Cardinality(Block) /\ super_dirty = FALSE
  /\ din = [f \in File |-> [size |-> 0, blocks |-> 0, indirect |-> 0,
                            direct |-> [i \in Direct |-> 0]]]
  /\ dirty = {}
  /\ entries = [f \in File |-> [i \in Entry |-> 0]]
  /\ disk = din /\ d_freemap = freemap /\ d_unused = unused_blocks
  /\ reach = [f \in File |-> 0]
  /\ call = NoCall
  /\ phase = "up"

Lesser(a, b) == IF a < b THEN a ELSE b
Greater(a, b) == IF a < b THEN b ELSE a

\* The disk block of the i-th block of file f; 0 for none.
BlockAt(f, i) == IF i < SFS_NDIRECT THEN din[f].direct[i]
                 ELSE IF din[f].indirect = 0 THEN 0 ELSE entries[f][i - SFS_NDIRECT]

-----------------------------------------------------------------------------
(* Blocks: bitmap_alloc takes the free block with the least number.        *)

LowestBlock(S) == CHOOSE b \in S : \A c \in S : b <= c

\* sfs_block_alloc for each block of B.
Take(B) ==
  /\ freemap' = freemap \ B
  /\ unused_blocks' = unused_blocks - Cardinality(B)
  /\ super_dirty' = TRUE

\* Mutant: the super block is not marked dirty.
GiveQuietly(b) ==
  /\ freemap' = freemap \cup {b}
  /\ unused_blocks' = unused_blocks + 1
  /\ UNCHANGED super_dirty

\* sfs_block_free.
Give(b) ==
  /\ freemap' = freemap \cup {b}
  /\ unused_blocks' = unused_blocks + 1
  /\ super_dirty' = TRUE

\* The blocks to allocate for the i-th block of f: none when its pointer is
\* set already (the inode on disk had fewer blocks than the index block), two
\* when the index block is missing as well.
Needed(f, i) ==
  IF BlockAt(f, i) # 0 THEN 0
  ELSE IF i >= SFS_NDIRECT /\ din[f].indirect = 0 THEN 2 ELSE 1

\* The i-th block of f is found where its pointer is: sfs_bmap_get_nolock.
AddNothing(f, i) ==
  /\ Needed(f, i) = 0
  /\ din' = [din EXCEPT ![f].blocks = @ + 1]
  /\ UNCHANGED <<freemap, unused_blocks, super_dirty, dirty, entries>>

AddDirect(f, i) ==
  /\ Needed(f, i) = 1 /\ i < SFS_NDIRECT /\ freemap # {}
  /\ Take({LowestBlock(freemap)})
  /\ din' = [din EXCEPT ![f].direct[i] = LowestBlock(freemap), ![f].blocks = @ + 1]
  /\ dirty' = dirty \cup {f}
  /\ UNCHANGED entries

\* A pointer in an index block that is there: the inode does not become dirty.
AddEntry(f, i) ==
  /\ Needed(f, i) = 1 /\ i >= SFS_NDIRECT /\ freemap # {}
  /\ Take({LowestBlock(freemap)})
  /\ entries' = [entries EXCEPT ![f][i - SFS_NDIRECT] = LowestBlock(freemap)]
  /\ din' = [din EXCEPT ![f].blocks = @ + 1]
  /\ UNCHANGED dirty

\* The index block is allocated, and cleared, first.
AddIndexBlock(f, i) ==
  LET ent == LowestBlock(freemap)
      ino == LowestBlock(freemap \ {ent})
  IN /\ Needed(f, i) = 2 /\ Cardinality(freemap) >= 2
     /\ Take({ent, ino})
     /\ entries' = [entries EXCEPT ![f] = [e \in Entry |-> IF e = i - SFS_NDIRECT THEN ino ELSE 0]]
     /\ din' = [din EXCEPT ![f].indirect = ent, ![f].blocks = @ + 1]
     /\ dirty' = dirty \cup {f}

\* sfs_bmap_load_nolock(din->blocks): one block more at the end of the file.
AddBlock(f) ==
  LET i == din[f].blocks
  IN AddNothing(f, i) \/ AddDirect(f, i) \/ AddEntry(f, i) \/ AddIndexBlock(f, i)

\* Mutant: failed_cleanup does not free the new index block.
DiskFullLeaks(f) ==
  /\ Cardinality(freemap) < Needed(f, din[f].blocks)
  /\ IF freemap = {} THEN UNCHANGED <<freemap, unused_blocks, super_dirty>> ELSE Take(freemap)
  /\ UNCHANGED <<din, dirty, entries>>

\* -E_NO_MEM from there.  A new index block is given back when there is no
\* block for its first entry.
DiskFull(f) ==
  /\ Cardinality(freemap) < Needed(f, din[f].blocks)
  /\ super_dirty' = (super_dirty \/ freemap # {})
  /\ UNCHANGED <<freemap, unused_blocks, din, dirty, entries>>

\* sfs_bmap_truncate_nolock: frees the last block.  The index block stays.
RemoveBlock(f) ==
  LET i == din[f].blocks - 1
  IN /\ IF BlockAt(f, i) = 0 THEN UNCHANGED <<freemap, unused_blocks, super_dirty>>
        ELSE Give(BlockAt(f, i))
     /\ din' = [din EXCEPT ![f].blocks = i,
                           ![f].direct = [j \in Direct |-> IF j = i THEN 0 ELSE @[j]]]
     /\ entries' = [entries EXCEPT ![f] = [e \in Entry |->
                      IF e + SFS_NDIRECT = i /\ din[f].indirect # 0 THEN 0 ELSE @[e]]]
     /\ dirty' = dirty \cup {f}

-----------------------------------------------------------------------------
(* Reads and writes: sfs_io_nolock.                                        *)

Idle == phase = "up" /\ call = NoCall
During(op, f) == phase = "up" /\ call.op = op /\ call.file = f
Panic == phase' = "panic" /\ call' = NoCall /\ UNCHANGED <<memVars, diskVars, reach>>

\* A call at the position of some descriptor of f, which may be one the file
\* no longer has.
StartIO(op, f) ==
  /\ Idle
  /\ \E offset \in 0..reach[f], len \in 1..MaxLen :
       LET limit == IF op = "read" THEN din[f].size ELSE SFS_MAX_FILE_SIZE
       IN /\ offset < limit
          /\ call' = [op |-> op, file |-> f, pos |-> offset,
                      end |-> Lesser(offset + len, limit)]
  /\ UNCHANGED <<memVars, diskVars, reach, phase>>

\* What is done in the block: up to its end or up to the end of the call.
NextPos == Lesser(call.end, (call.pos \div SFS_BLKSIZE + 1) * SFS_BLKSIZE)

InIO(f) == During("read", f) \/ During("write", f)
Unfinished == call.pos < call.end
BlockNo == call.pos \div SFS_BLKSIZE

\* The block is one of the file's.
IOBlock(f) ==
  /\ InIO(f) /\ Unfinished /\ BlockNo < din[f].blocks
  /\ call' = [call EXCEPT !.pos = NextPos]
  /\ UNCHANGED <<memVars, diskVars, reach, phase>>

\* It is the one after the file's last, and is added.
IOAddBlock(f) ==
  /\ InIO(f) /\ Unfinished /\ BlockNo = din[f].blocks /\ BlockNo \in Index
  /\ AddBlock(f)
  /\ call' = [call EXCEPT !.pos = NextPos]
  /\ UNCHANGED <<diskVars, reach, phase>>

\* There is no room for it: the call ends with what it has done.
IODiskFull(f) ==
  /\ InIO(f) /\ Unfinished /\ BlockNo = din[f].blocks /\ BlockNo \in Index
  /\ DiskFull(f)
  /\ call' = [call EXCEPT !.end = call.pos]
  /\ UNCHANGED <<diskVars, reach, phase>>

\* assert(index <= din->blocks), and the panic for an index out of range.
IOPanic(f) ==
  /\ InIO(f) /\ Unfinished
  /\ BlockNo > din[f].blocks \/ BlockNo \notin Index
  /\ Panic

\* The label out: the file is as long as what was written.
FinishIO(f) ==
  /\ InIO(f) /\ ~Unfinished
  /\ IF call.pos > din[f].size
     THEN din' = [din EXCEPT ![f].size = call.pos] /\ dirty' = dirty \cup {f}
     ELSE UNCHANGED <<din, dirty>>
  /\ reach' = [reach EXCEPT ![f] = Greater(@, din'[f].size)]
  /\ call' = NoCall
  /\ UNCHANGED <<freemap, unused_blocks, super_dirty, entries, diskVars, phase>>

-----------------------------------------------------------------------------
(* sfs_truncfile: opening with O_TRUNC or O_CREAT makes a file empty, and  *)
(* sfs_tryseek beyond the end makes it longer.                             *)

\* ROUNDUP_DIV(len, SFS_BLKSIZE).
TargetBlocks == (call.len + SFS_BLKSIZE - 1) \div SFS_BLKSIZE

StartTruncate(f) ==
  /\ Idle
  /\ \E len \in {0} \cup din[f].size + 1..SFS_MAX_FILE_SIZE - 1 :
       call' = [op |-> "truncate", file |-> f, len |-> len]
  /\ UNCHANGED <<memVars, diskVars, reach, phase>>

InTruncate(f) == During("truncate", f) /\ din[f].size # call.len

TruncateGrow(f) ==
  /\ InTruncate(f) /\ din[f].blocks < TargetBlocks /\ din[f].blocks \in Index
  /\ AddBlock(f)
  /\ UNCHANGED <<diskVars, reach, call, phase>>

\* out_unlock without a new size: the blocks added so far stay.
TruncateDiskFull(f) ==
  /\ InTruncate(f) /\ din[f].blocks < TargetBlocks /\ din[f].blocks \in Index
  /\ DiskFull(f)
  /\ call' = NoCall
  /\ UNCHANGED <<diskVars, reach, phase>>

TruncateShrink(f) ==
  /\ InTruncate(f) /\ din[f].blocks > TargetBlocks
  /\ RemoveBlock(f)
  /\ UNCHANGED <<diskVars, reach, call, phase>>

TruncatePanic(f) ==
  /\ InTruncate(f) /\ din[f].blocks < TargetBlocks /\ din[f].blocks \notin Index
  /\ Panic

FinishTruncate(f) ==
  /\ InTruncate(f) /\ din[f].blocks = TargetBlocks
  /\ din' = [din EXCEPT ![f].size = call.len]
  /\ dirty' = dirty \cup {f}
  /\ reach' = [reach EXCEPT ![f] = Greater(@, call.len)]
  /\ call' = NoCall
  /\ UNCHANGED <<freemap, unused_blocks, super_dirty, entries, diskVars, phase>>

\* The file has the size already: nothing but assert(tblks == din->blocks).
TruncateNothing(f) ==
  /\ During("truncate", f) /\ din[f].size = call.len
  /\ IF TargetBlocks = din[f].blocks
     THEN call' = NoCall /\ UNCHANGED <<memVars, diskVars, reach, phase>>
     ELSE Panic

-----------------------------------------------------------------------------
(* What reaches the disk, and when.                                        *)

\* sfs_fsync: for a descriptor's close or fsync.
Fsync(f) ==
  /\ Idle /\ f \in dirty
  /\ disk' = [disk EXCEPT ![f] = din[f]]
  /\ dirty' = dirty \ {f}
  /\ UNCHANGED <<freemap, unused_blocks, super_dirty, din, entries,
                 d_freemap, d_unused, reach, call, phase>>

\* Mutant: sfs_reclaim frees a dirty inode without writing it.
ReloadDirty(f) ==
  /\ Idle
  /\ din' = [din EXCEPT ![f] = disk[f]]
  /\ dirty' = dirty \ {f}
  /\ reach' = [reach EXCEPT ![f] = disk[f].size]
  /\ UNCHANGED <<freemap, unused_blocks, super_dirty, entries, diskVars, call, phase>>

\* The last descriptor is closed, sfs_reclaim frees the inode in memory, and
\* sfs_load_inode reads it again when the file is opened.
Reload(f) ==
  /\ Idle /\ f \notin dirty
  /\ din' = [din EXCEPT ![f] = disk[f]]
  /\ reach' = [reach EXCEPT ![f] = disk[f].size]
  /\ UNCHANGED <<freemap, unused_blocks, super_dirty, dirty, entries, diskVars, call, phase>>

\* fs_cleanup after the last process: sfs_sync.
Sync ==
  /\ Idle
  /\ disk' = [f \in File |-> IF f \in dirty THEN din[f] ELSE disk[f]]
  /\ dirty' = {}
  /\ IF super_dirty THEN d_unused' = unused_blocks /\ d_freemap' = freemap
     ELSE UNCHANGED <<d_unused, d_freemap>>
  /\ super_dirty' = FALSE
  /\ phase' = "down"
  /\ UNCHANGED <<freemap, unused_blocks, din, entries, reach, call>>

\* sfs_do_mount at the next start.
Mount ==
  /\ phase = "down"
  /\ IF d_unused = Cardinality(d_freemap)
     THEN /\ freemap' = d_freemap /\ unused_blocks' = d_unused
          /\ din' = disk
          /\ reach' = [f \in File |-> disk[f].size]
          /\ phase' = "up"
     ELSE phase' = "panic" /\ UNCHANGED <<freemap, unused_blocks, din, reach>>
  /\ UNCHANGED <<super_dirty, dirty, entries, diskVars, call>>

FileNext(f) ==
  \/ \E op \in {"read", "write"} : StartIO(op, f)
  \/ IOBlock(f) \/ IOAddBlock(f) \/ IODiskFull(f) \/ IOPanic(f) \/ FinishIO(f)
  \/ StartTruncate(f)
  \/ TruncateGrow(f) \/ TruncateDiskFull(f) \/ TruncateShrink(f) \/ TruncatePanic(f)
  \/ FinishTruncate(f) \/ TruncateNothing(f)
  \/ Fsync(f) \/ Reload(f)

SfsNext == (\E f \in File : FileNext(f)) \/ Sync \/ Mount

SfsSpec == SfsInit /\ [][SfsNext]_sfsVars

-----------------------------------------------------------------------------
(* Properties.                                                             *)

\* The blocks f uses, in its inode and its index block.
Used(f) == ({BlockAt(f, i) : i \in Index} \cup {din[f].indirect}) \ {0}

NoBlockTwice(f) ==
  /\ \A i, j \in Index : i # j /\ BlockAt(f, i) # 0 => BlockAt(f, i) # BlockAt(f, j)
  /\ din[f].indirect # 0 => \A i \in Index : BlockAt(f, i) # din[f].indirect

\* SfsTypeOK, and every block has one owner: it is free, or it is one pointer's of
\* one file, never two files' or two places' of one file, and never lost; and
\* the counter of the super block agrees (sfs_block_alloc's and
\* sfs_do_mount's assertions rely on it).
BlocksOwnedOnce ==
  /\ SfsTypeOK
  /\ freemap = Block \ UNION {Used(f) : f \in File}
  /\ \A f \in File : NoBlockTwice(f)
  /\ \A f, g \in File : f # g => Used(f) \cap Used(g) = {}
  /\ unused_blocks = Cardinality(freemap)

\* What a file's calls rely on: it has a block for every index below
\* din->blocks (assert(sfs_block_inuse(sfs, ino)) in sfs_bmap_load_nolock), and
\* no direct pointer beyond them (those would be lost to truncation).
BlocksMapped ==
  \A f \in File :
    /\ \A i \in Index : i < din[f].blocks => BlockAt(f, i) # 0
    /\ \A i \in Direct : i >= din[f].blocks => din[f].direct[i] = 0

\* Blocks and pointers match, in both directions.
BlocksExact == BlocksOwnedOnce /\ BlocksMapped

\* Once the file system is cleaned up, the disk says what the memory said: the
\* same free blocks, the same sizes and the same pointers.  The number of
\* blocks is left out: a seek that fails half-way may add a block to it
\* without making the inode dirty.
CleanShutdown ==
  phase = "down" =>
    /\ d_freemap = freemap /\ d_unused = unused_blocks
    /\ \A f \in File : /\ disk[f].size = din[f].size
                       /\ disk[f].direct = din[f].direct
                       /\ disk[f].indirect = din[f].indirect

\* Data that is in a file stays where it is: no write, failed write, reload or
\* remount gives a block a file keeps to another place.  And a file only becomes
\* shorter when it is opened with O_TRUNC or O_CREAT: a size that a write or a seek
\* has set survives closing, reloading and a clean restart.
DataStaysPut ==
  [][\A f \in File :
       /\ \A i \in Index :
            i < din[f].size \div SFS_BLKSIZE /\ i < din'[f].blocks
              => BlockAt(f, i)' = BlockAt(f, i)
       /\ din'[f].size < din[f].size
            => call = [op |-> "truncate", file |-> f, len |-> 0]]_sfsVars
=============================================================================
