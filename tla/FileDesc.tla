------------------------------ MODULE FileDesc ------------------------------
(***************************************************************************)
(* The per-process file-descriptor table (pcb.h file_desc_t[8]) and the    *)
(* operations that act on it: the generic system calls of sys_calls.c      *)
(* (sys_open, sys_close, sys_read, sys_write) and the four driver tables   *)
(* they dispatch to (file_*, dir_* in filesys.c, rtc_* in rtc_driver.c,    *)
(* terminal_* in key_driver.c).                                            *)
(*                                                                         *)
(* The operators take the table fa of the current PCB and return the new   *)
(* table with the return value, so that a single-process machine          *)
(* (FileSys) and the nested-process machine (Process) share them.  The     *)
(* packed flags word is a record: bit 0 use, bits 2:1 type, bits 19:8 the  *)
(* saved inode index.                                                      *)
(***************************************************************************)
EXTENDS FsImage

\* descriptor indices, and the general-purpose ones sys_open hands out
FDS == 0 .. 7
GP  == 2 .. 7

\* the operation tables of sys_calls.h, and a NULL file_op_ptr
Tables == {"rtc_table", "dir_table", "file_table", "terminal_table", "NULL"}

\* flags = 0
NoFlags == [use |-> FALSE, type |-> 0, idx |-> 0]

\* clear_fd: a zero-initialised file_desc_t
clear_fd == [ops |-> "NULL", inode |-> 0, file_pos |-> 0, flags |-> NoFlags]

\* fd 0 and 1 as execute builds them: terminal_table, TERMINAL_FILE_FLAGS 0x7
TerminalFd == [ops |-> "terminal_table", inode |-> 0, file_pos |-> 0,
               flags |-> [use |-> TRUE, type |-> 3, idx |-> 0]]

InUse(fa, fd) == fa[fd].flags.use

\* mutant: the loop bound "i < 7", so a full 2..6 yields slot 7 unchecked
FirstFree_lt7(fa) ==
  LET free == {i \in 2 .. 6 : ~InUse(fa, i)}
  IN  IF free = {} THEN 7 ELSE Min(free)

\* the loop "for (i = 2; i < 8; i++) if (flags % 2 == 0) break;": 8 if none
FirstFree(fa) ==
  LET free == {i \in GP : ~InUse(fa, i)}
  IN  IF free = {} THEN 8 ELSE Min(free)

\* the switch of sys_open: table chosen by the dentry's filetype
TableOf(t) ==
  CASE t = RTC_FILE -> "rtc_table"
    [] t = DIR_FILE -> "dir_table"
    [] t = REG_FILE -> "file_table"
    [] OTHER        -> "terminal_table"

Res(fa, ret) == [fa |-> fa, ret |-> ret]

(***************************************************************************)
(* Driver open functions.  Each searches the table for the first free     *)
(* slot itself and, for files and directories, looks the name up again.   *)
(***************************************************************************)
\* mutant: the search of file_open starting at slot 3
FirstFreeFrom3(fa) ==
  LET free == {i \in 3 .. 7 : ~InUse(fa, i)}
  IN  IF free = {} THEN 8 ELSE Min(free)

file_open_from3(fa, name) ==
  LET i == FirstFreeFrom3(fa)
      d == read_dentry_by_name(name)
  IN  IF i >= 8 \/ ~d.ok \/ d.filetype # REG_FILE THEN Res(fa, -1)
      ELSE Res([fa EXCEPT ![i].inode = d.inode_num, ![i].file_pos = 0,
                          ![i].flags = [use |-> TRUE, type |-> REG_FILE, idx |-> 1]], 0)

file_open(fa, name) ==
  LET i == FirstFree(fa)
      d == read_dentry_by_name(name)
  IN  IF i >= 8 \/ ~d.ok \/ d.filetype # REG_FILE THEN Res(fa, -1)
      ELSE Res([fa EXCEPT ![i].inode = d.inode_num, ![i].file_pos = 0,
                          ![i].flags = [use |-> TRUE, type |-> REG_FILE, idx |-> 1]], 0)

\* mutant: "flags | DIR_FILE" without the shift, type bits 0
dir_open_noshift(fa, name) ==
  LET i == FirstFree(fa)
      d == read_dentry_by_name(name)
  IN  IF i >= 8 \/ ~d.ok \/ d.filetype # DIR_FILE THEN Res(fa, -1)
      ELSE Res([fa EXCEPT ![i].inode = d.inode_num, ![i].file_pos = 0,
                          ![i].flags = [use |-> TRUE, type |-> 0, idx |-> 0]], 0)

dir_open(fa, name) ==
  LET i == FirstFree(fa)
      d == read_dentry_by_name(name)
  IN  IF i >= 8 \/ ~d.ok \/ d.filetype # DIR_FILE THEN Res(fa, -1)
      ELSE Res([fa EXCEPT ![i].inode = d.inode_num, ![i].file_pos = 0,
                          ![i].flags = [use |-> TRUE, type |-> DIR_FILE, idx |-> 0]], 0)

\* rtc_open also clears the shared rtc_interrupt flag (FileSys, Process)
rtc_open(fa) ==
  LET i == FirstFree(fa)
  IN  IF i >= 8 THEN Res(fa, -1)
      ELSE Res([fa EXCEPT ![i].inode = 0, ![i].file_pos = 0,
                          ![i].flags = [use |-> TRUE, type |-> RTC_FILE, idx |-> 1]], 0)

\* terminal_open only resets the keyboard modes; the table is untouched
DriverOpen(t, fa, name) ==
  CASE t = "file_table" -> file_open(fa, name)
    [] t = "dir_table"  -> dir_open(fa, name)
    [] t = "rtc_table"  -> rtc_open(fa)
    [] OTHER            -> Res(fa, 0)

\* sys_open: lookup, free slot, bind the table, call its open (whose return
\* value is ignored) and return the slot
sys_open(fa, name) ==
  LET d == read_dentry_by_name(name)
      i == FirstFree(fa)
  IN  IF ~d.ok \/ i >= 8 THEN Res(fa, -1)
      ELSE LET t == TableOf(d.filetype)
           IN  Res(DriverOpen(t, [fa EXCEPT ![i].ops = t], name).fa, i)

(***************************************************************************)
(* Driver close functions: bounds, type and use checks, then flags = 0.   *)
(***************************************************************************)
CloseIf(fa, fd, ok) ==
  IF ok THEN Res([fa EXCEPT ![fd].flags = NoFlags], 0) ELSE Res(fa, -1)

file_close(fa, fd) ==
  CloseIf(fa, fd, fd \in GP /\ fa[fd].flags.type = REG_FILE /\ InUse(fa, fd))

dir_close(fa, fd) ==
  CloseIf(fa, fd, fd \in GP /\ fa[fd].flags.type = DIR_FILE /\ InUse(fa, fd))

rtc_close(fa, fd) ==
  CloseIf(fa, fd, fd \in GP /\ fa[fd].flags.type = RTC_FILE /\ InUse(fa, fd))

terminal_close(fa, fd) ==
  CloseIf(fa, fd, fd \in 0 .. 1 /\ InUse(fa, fd))

\* the close_ptr of a descriptor's table
DriverClose(fa, fd) ==
  CASE fa[fd].ops = "file_table"     -> file_close(fa, fd)
    [] fa[fd].ops = "dir_table"      -> dir_close(fa, fd)
    [] fa[fd].ops = "rtc_table"      -> rtc_close(fa, fd)
    [] fa[fd].ops = "terminal_table" -> terminal_close(fa, fd)

sys_close(fa, fd) ==
  IF fd \notin GP \/ ~InUse(fa, fd) THEN Res(fa, -1)
  ELSE DriverClose(fa, fd)

(***************************************************************************)
(* Driver read and write functions that do not wait for a device.  A read *)
(* returns the new table, the return value and the bytes (or, for a       *)
(* directory, the name) handed to the caller's buffer.                    *)
(***************************************************************************)
RRes(fa, ret, out) == [fa |-> fa, ret |-> ret, out |-> out]

\* file_read: read_data from file_pos with the saved inode index, then
\* file_pos += ret and the index written back when read_data saved it
\* mutant: file_pos advanced by nbytes instead of the bytes read
file_read_advance_n(fa, fd, n) ==
  IF ~InUse(fa, fd) \/ fa[fd].flags.type # REG_FILE THEN RRes(fa, -1, <<>>)
  ELSE LET r == read_data(fa[fd].inode, fa[fd].file_pos, n, fa[fd].flags.idx)
       IN  RRes([fa EXCEPT ![fd].file_pos = @ + n,
                           ![fd].flags.idx = IF r.saved THEN r.idx ELSE @],
                r.ret, r.out)

file_read(fa, fd, n) ==
  IF ~InUse(fa, fd) \/ fa[fd].flags.type # REG_FILE THEN RRes(fa, -1, <<>>)
  ELSE LET r == read_data(fa[fd].inode, fa[fd].file_pos, n, fa[fd].flags.idx)
       IN  RRes([fa EXCEPT ![fd].file_pos = @ + r.ret,
                           ![fd].flags.idx = IF r.saved THEN r.idx ELSE @],
                r.ret, r.out)

\* dir_read: one name per call, cut at nbytes, position advanced by one
\* mutant: the position advanced by the bytes copied
dir_read_pos_cnt(fa, fd, n) ==
  IF fd \notin GP \/ ~InUse(fa, fd) \/ fa[fd].flags.type % 2 = 0 THEN RRes(fa, -1, <<>>)
  ELSE IF fa[fd].file_pos >= n_dir_entries THEN RRes(fa, 0, <<>>)
  ELSE LET name == read_dentry_by_index(fa[fd].file_pos).filename
           cnt  == Min({n, Len(name), NAME_LEN})
       IN  RRes([fa EXCEPT ![fd].file_pos = @ + cnt], cnt, <<SubSeq(name, 1, cnt)>>)

dir_read(fa, fd, n) ==
  IF fd \notin GP \/ ~InUse(fa, fd) \/ fa[fd].flags.type % 2 = 0 THEN RRes(fa, -1, <<>>)
  ELSE IF fa[fd].file_pos >= n_dir_entries THEN RRes(fa, 0, <<>>)
  ELSE LET name == read_dentry_by_index(fa[fd].file_pos).filename
           cnt  == Min({n, Len(name), NAME_LEN})
       IN  RRes([fa EXCEPT ![fd].file_pos = @ + 1], cnt, <<SubSeq(name, 1, cnt)>>)

\* rtc_write reads ONE byte of the caller's buffer as the rate; it must be
\* a power of two 2^k with 2 <= k <= 10, and sets register A to 16 - k
RtcByte(rate) == rate % 256
PowerTest(r) == r = 0 \/ \E k \in 0 .. 7 : r = 2^k
Log2(r) == CHOOSE k \in 0 .. 7 : 2^k <= r /\ r < 2^(k + 1)
rtc_write_ok(rate) ==
  /\ PowerTest(RtcByte(rate))
  /\ RtcByte(rate) # 0 /\ Log2(RtcByte(rate)) \in 2 .. 10
rtc_write_rate(rate) == 16 - Log2(RtcByte(rate))

\* sys_read / sys_write argument checks shared by both calls
BadArgs(fa, fd, n) == IF fd \notin FDS THEN TRUE ELSE n < 0 \/ ~InUse(fa, fd)

\* the loop of sys_halt: close every descriptor in use through its table
RECURSIVE CloseFrom(_, _)
CloseFrom(fa, fd) ==
  IF fd > 7 THEN fa
  ELSE CloseFrom(IF InUse(fa, fd) THEN DriverClose(fa, fd).fa ELSE fa, fd + 1)

HaltCloseAll(fa) == CloseFrom(fa, 0)
=============================================================================
