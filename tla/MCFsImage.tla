----------------------------- MODULE MCFsImage -----------------------------
(***************************************************************************)
(* A small filesystem image in the layout of init_filesys: 2-byte blocks, *)
(* inodes of 4 words (the length and 3 block numbers), 4 data blocks.     *)
(*   "shell": 5 bytes in blocks 0, 2, 3 (length >= D)                     *)
(*   "frame": 3 bytes, block numbers 2, 9, 1 (9 is out of range)          *)
(*   "tiny" : 3 bytes in blocks 1, 2 (length < D)                         *)
(*   "ls"   : 4 bytes in blocks 3, 1, 0 (length >= D)                     *)
(* Block 0, 1 and 3 start with the executable magic byte "E".             *)
(***************************************************************************)
EXTENDS Integers, Sequences

\* a word array 0..Len(s)-1 from a sequence
Words(s) == [k \in 0 .. Len(s) - 1 |-> s[k + 1]]

MC_BLK == 2
MC_IDX_LIMIT == 4
MC_NAME_LEN == 32

MC_Dentries ==
  << [name |-> ".",     filetype |-> 1, inode |-> 0],
     [name |-> "rtc",   filetype |-> 0, inode |-> 0],
     [name |-> "shell", filetype |-> 2, inode |-> 0],
     [name |-> "frame", filetype |-> 2, inode |-> 1],
     [name |-> "tiny",  filetype |-> 2, inode |-> 2],
     [name |-> "ls",    filetype |-> 2, inode |-> 3] >>

MC_Inodes == << Words(<<5, 0, 2, 3>>), Words(<<3, 2, 9, 1>>), Words(<<3, 1, 2, 0>>),
               Words(<<4, 3, 1, 0>>) >>

MC_Data == << <<"E", "s">>, <<"E", "p">>, <<"x", "y">>, <<"E", "q">> >>
=============================================================================
