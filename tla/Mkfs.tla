-------------------------------- MODULE Mkfs --------------------------------
(***************************************************************************)
(* The layout of the disk (kernel/fs.h) and the image that mkfs/mkfs.c     *)
(* builds. A block is an array of BSIZE cells, one for a byte, a block     *)
(* number or a directory entry, which is the inode number it names; inode  *)
(* blocks hold IPB inodes and bitmap blocks BPB bits.                      *)
(***************************************************************************)
EXTENDS Integers, Sequences, FiniteSets, FiniteSetsExt

CONSTANTS FSSIZE, LOGSIZE, NINODES, BSIZE, NDIRECT, IPB, BPB,
          Sources  \* the files given to mkfs: a sequence of byte sequences

ASSUME MkfsConstants ==
  /\ {FSSIZE, LOGSIZE, NINODES, BSIZE, NDIRECT, IPB, BPB} \subseteq Nat \ {0}
  /\ Len(Sources) + 1 < NINODES

NINDIRECT == BSIZE
MAXFILE == NDIRECT + NINDIRECT

T_DIR == 1
T_FILE == 2
ROOTINO == 1

nbitmap == FSSIZE \div BPB + 1
ninodeblocks == NINODES \div IPB + 1
nmeta == 2 + LOGSIZE + ninodeblocks + nbitmap

SuperBlock == [magic |-> TRUE, size |-> FSSIZE, ninodes |-> NINODES,
               inodestart |-> 2 + LOGSIZE, bmapstart |-> 2 + LOGSIZE + ninodeblocks]

IBLOCK(i, sb) == i \div IPB + sb.inodestart
BBLOCK(b, sb) == b \div BPB + sb.bmapstart

NoInode == [type |-> 0, size |-> 0, addrs |-> [k \in 0 .. NDIRECT |-> 0]]
ZeroBlock == [c \in 0 .. BSIZE - 1 |-> 0]

(* The blocks that wsect(i, zeroes) leaves, and the super block. *)
Formatted ==
  [b \in 0 .. FSSIZE - 1 |->
     IF b = 1 THEN SuperBlock
     ELSE IF b \in SuperBlock.inodestart .. SuperBlock.bmapstart - 1
     THEN [k \in 0 .. IPB - 1 |-> NoInode]
     ELSE IF b \in SuperBlock.bmapstart .. nmeta - 1
     THEN [k \in 0 .. BPB - 1 |-> 0]
     ELSE ZeroBlock]

-----------------------------------------------------------------------------
(* An image under construction: [disk, freeblock, freeinode, ok], where ok *)
(* says that no assert() has failed.                                       *)

rinode(disk, sb, i) == disk[IBLOCK(i, sb)][i % IPB]
winode(disk, sb, i, din) == [disk EXCEPT ![IBLOCK(i, sb)][i % IPB] = din]

mkfs_ialloc(img, type) ==
  [img EXCEPT !.freeinode = @ + 1,
              !.disk = winode(@, SuperBlock, img.freeinode, [NoInode EXCEPT !.type = type])]

(* Block fbn of the inode din: [img, din] with the block in place. *)
Place(img, din, fbn) ==
  LET slot == IF fbn < NDIRECT THEN fbn ELSE NDIRECT
      new == din.addrs[slot] = 0
      din1 == IF new THEN [din EXCEPT !.addrs[slot] = img.freeblock] ELSE din
      img1 == IF new THEN [img EXCEPT !.freeblock = @ + 1] ELSE img
      ind == din1.addrs[NDIRECT]
  IN [din |-> din1,
      img |-> IF fbn >= NDIRECT /\ img1.disk[ind][fbn - NDIRECT] = 0
              THEN [img1 EXCEPT !.freeblock = @ + 1,
                                !.disk[ind][fbn - NDIRECT] = img1.freeblock]
              ELSE img1]

BlockOf(disk, din, fbn) ==
  IF fbn < NDIRECT THEN din.addrs[fbn] ELSE disk[din.addrs[NDIRECT]][fbn - NDIRECT]

(* The loop of iappend(), which ends with winode(). *)
RECURSIVE AppendFrom(_, _, _, _, _)
AppendFrom(img, inum, din, off, p) ==
  LET fbn == off \div BSIZE
      r == Place(img, din, fbn)
      x == BlockOf(r.img.disk, r.din, fbn)
      n1 == Min({Len(p), (fbn + 1) * BSIZE - off})
      img2 == [r.img EXCEPT !.disk[x] =
                 [c \in 0 .. BSIZE - 1 |-> LET k == c - (off - fbn * BSIZE) IN
                    IF k \in 0 .. n1 - 1 THEN p[k + 1] ELSE @[c]]]
  IN IF p = << >>
     THEN [img EXCEPT !.disk = winode(@, SuperBlock, inum, [din EXCEPT !.size = off])]
     ELSE IF fbn >= MAXFILE THEN [img EXCEPT !.ok = FALSE]
     ELSE AppendFrom(img2, inum, r.din, off + n1, SubSeq(p, n1 + 1, Len(p)))

iappend(img, inum, p) ==
  LET din == rinode(img.disk, SuperBlock, inum) IN AppendFrom(img, inum, din, din.size, p)

(* One entry and one file for every argument of mkfs. *)
RECURSIVE AddFiles(_, _)
AddFiles(img, k) ==
  LET inum == img.freeinode
      img1 == iappend(mkfs_ialloc(img, T_FILE), ROOTINO, <<inum>>)
  IN IF k > Len(Sources) THEN img
     ELSE AddFiles(iappend(img1, inum, Sources[k]), k + 1)

(* The size of the root directory is made a multiple of BSIZE. *)
FixRoot(img) ==
  LET din == rinode(img.disk, SuperBlock, ROOTINO) IN
  [img EXCEPT !.disk = winode(@, SuperBlock, ROOTINO,
                              [din EXCEPT !.size = (@ \div BSIZE + 1) * BSIZE])]

MutOneLess(img) ==
  [img EXCEPT !.disk[SuperBlock.bmapstart] =
     [k \in 0 .. BPB - 1 |-> IF k < img.freeblock - 1 THEN 1 ELSE 0]]

mkfs_balloc(img) ==
  [img EXCEPT !.ok = @ /\ img.freeblock < BPB,
              !.disk[SuperBlock.bmapstart] =
     [k \in 0 .. BPB - 1 |-> IF k < img.freeblock THEN 1 ELSE 0]]

(* main() *)
Image ==
  LET img0 == [disk |-> Formatted, freeblock |-> nmeta, freeinode |-> ROOTINO, ok |-> TRUE]
      img1 == iappend(mkfs_ialloc(img0, T_DIR), ROOTINO, <<ROOTINO>>)
      img2 == iappend(img1, ROOTINO, <<ROOTINO>>)
  IN mkfs_balloc(FixRoot(AddFiles(img2, 1)))
=============================================================================
