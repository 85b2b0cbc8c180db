------------------------------ MODULE FsImage ------------------------------
(***************************************************************************)
(* The read-only filesystem image and the lookup and copy routines of      *)
(* filesys.c that read it: read_dentry_by_name, read_dentry_by_index and   *)
(* read_data.  The image never changes after init_filesys, so it is a set  *)
(* of CONSTANTS and the routines are pure operators.                       *)
(*                                                                         *)
(* Sizes are abstracted: a data block holds BLK bytes (FOUR_KB in the      *)
(* code) and an inode block holds IDX_LIMIT words (FOUR_KB/4), word 0      *)
(* being the file length and words 1.. the data-block numbers.  Bytes are  *)
(* model values, so a byte copied from the wrong place is told apart.      *)
(***************************************************************************)
EXTENDS Integers, Sequences, SequencesExt

CONSTANTS
  BLK,        \* bytes per data block                      (FOUR_KB)
  IDX_LIMIT,  \* words per inode block, word 0 = length    (FOUR_KB/4)
  NAME_LEN,   \* longest name a lookup accepts             (NAME_LEN = 32)
  Dentries,   \* boot-block directory: <<[name, filetype, inode], ...>>
  Inodes,     \* Inodes[i+1] is inode i: a function 0..IDX_LIMIT-1 -> Nat
  Data        \* Data[d+1] is data block d: a sequence of BLK bytes

ASSUME BLK \in Nat \ {0} /\ IDX_LIMIT \in Nat \ {0, 1}
ASSUME \A i \in DOMAIN Inodes : DOMAIN Inodes[i] = 0 .. IDX_LIMIT - 1
ASSUME \A d \in DOMAIN Data : Len(Data[d]) = BLK

\* filetype values of a directory entry (filesys.h)
RTC_FILE == 0
DIR_FILE == 1
REG_FILE == 2

\* the three counts of the boot block, read once by init_filesys
n_dir_entries == Len(Dentries)
N == Len(Inodes)
D == Len(Data)

\* word k of inode i: *(filesys_ptr + (FOUR_KB/4)*(inode + 1) + k)
Word(i, k) == Inodes[i + 1][k]

\* the length field of an inode (word 0)
FileSize(i) == Word(i, 0)

NotFound == [ok |-> FALSE, filename |-> "", filetype |-> 0, inode_num |-> 0]

\* The copy of a boot-block entry into a dentry: the name, the type, and
\* the inode number only for a regular file (0 otherwise).
CopyDentry(e) ==
  [ok |-> TRUE, filename |-> e.name, filetype |-> e.filetype,
   inode_num |-> IF e.filetype = REG_FILE THEN e.inode ELSE 0]

\* read_dentry_by_name: names longer than NAME_LEN are rejected up front,
\* then the first entry whose name matches is copied.
read_dentry_by_name(fname) ==
  IF Len(fname) > NAME_LEN \/ ~\E k \in 1 .. n_dir_entries : Dentries[k].name = fname
  THEN NotFound
  ELSE CopyDentry(Dentries[CHOOSE k \in 1 .. n_dir_entries :
                              /\ Dentries[k].name = fname
                              /\ \A j \in 1 .. k - 1 : Dentries[j].name # fname])

\* read_dentry_by_index: index into 0..n_dir_entries-1
read_dentry_by_index(index) ==
  IF index >= n_dir_entries THEN NotFound
  ELSE CopyDentry(Dentries[index + 1])

(***************************************************************************)
(* read_data(inode, offset, buf, length, fd).  With fd = -1 (NOFD) the     *)
(* walk starts at inode word 0; otherwise at the index saved in the        *)
(* descriptor's flags, passed here as fdIdx.  The result is the return     *)
(* value, the bytes copied, and the index the code writes back into the    *)
(* flags (saved = FALSE on the early returns, which write nothing back).   *)
(* A cursor s = [it, off, idx, dn, bp, out] holds the loop variables:      *)
(* it, offset, inode_idx, dnode_num, the byte position in the block, buf.  *)
(***************************************************************************)
NOFD == -1

Stop(s, saved) == [ret |-> s.it, out |-> s.out, idx |-> s.idx, saved |-> saved]

Cross(i, s) ==
  IF s.off # 0 /\ s.off % BLK = 0
  THEN [s EXCEPT !.idx = @ + 1, !.bp = 0,
                 !.dn = IF s.idx + 1 < IDX_LIMIT THEN Word(i, s.idx + 1) ELSE D]
  ELSE s

\* the while loop: skip data-block numbers outside 0..D-1
RECURSIVE SkipInvalid(_, _)
SkipInvalid(i, s) ==
  IF s.dn < D THEN s
  ELSE IF s.idx + 1 >= IDX_LIMIT THEN [s EXCEPT !.idx = @ + 1]
  ELSE SkipInvalid(i, [s EXCEPT !.idx = @ + 1, !.bp = 0, !.dn = Word(i, s.idx + 1)])

\* the for loop: one byte per recursion
RECURSIVE CopyLoop(_, _, _)
CopyLoop(i, length, s) ==
  IF s.it >= length THEN Stop(s, TRUE)
  ELSE IF s.off >= FileSize(i) THEN Stop(s, FALSE)
  ELSE LET c == Cross(i, s)
           v == IF c.idx >= IDX_LIMIT THEN c ELSE SkipInvalid(i, c)
       IN IF v.idx >= IDX_LIMIT THEN Stop(v, FALSE)
          ELSE CopyLoop(i, length,
                 [v EXCEPT !.it = @ + 1, !.off = @ + 1, !.bp = @ + 1,
                           !.out = Append(@, Data[v.dn + 1][v.bp + 1])])

Empty(r) == [ret |-> r, out |-> <<>>, idx |-> 0, saved |-> FALSE]

read_data(inode, offset, length, fdIdx) ==
  LET idx0 == IF fdIdx = NOFD THEN 0 ELSE fdIdx
  IN  IF inode >= N THEN Empty(-1)
      ELSE IF offset >= FileSize(inode) THEN Empty(0)
      ELSE IF idx0 >= IDX_LIMIT THEN Empty(0)
      ELSE CopyLoop(inode, length,
             [it |-> 0, off |-> offset, idx |-> idx0, dn |-> Word(inode, idx0),
              bp |-> offset % BLK, out |-> <<>>])

(***************************************************************************)
(* Reference definition: the bytes of a file are the bytes of its valid    *)
(* data blocks, in inode order, cut at the length (spec 4.1: an invalid    *)
(* block number means "advance to the next index").                       *)
(***************************************************************************)
ValidBlocks(i) ==
  SelectSeq([k \in 1 .. IDX_LIMIT - 1 |-> Word(i, k)], LAMBDA b : b < D)

FileBytes(i) ==
  LET vb == ValidBlocks(i)
      all == FlattenSeq([k \in 1 .. Len(vb) |-> Data[vb[k] + 1]])
  IN  SubSeq(all, 1, IF FileSize(i) < Len(all) THEN FileSize(i) ELSE Len(all))
=============================================================================
