------------------------------ MODULE FileSys ------------------------------
(***************************************************************************)
(* One process's view of the descriptor layer: the system calls open,     *)
(* close, read and write of sys_calls.c on the current PCB's file_array,  *)
(* dispatched through the operation tables to the filesystem, directory,  *)
(* RTC and terminal drivers, together with the RTC interrupt handler that *)
(* a blocked rtc_read waits for.                                          *)
(*                                                                         *)
(* got is a history variable: what the reads of each descriptor handed to *)
(* the caller since it was opened.  last records the slot and result of  *)
(* the last step if it was an open, a close or an RTC write.                           *)
(***************************************************************************)
EXTENDS FileDesc, FiniteSets

CONSTANTS
  Names,    \* file names passed to open
  FdArgs,   \* descriptor numbers passed to close, read and write
  Counts,   \* nbytes passed to read and write
  Rates     \* int values passed in the buffer of an RTC write

VARIABLES
  file_array,     \* cur_pcb->file_array
  rtc_interrupt,  \* rtc_driver.h: set by rtc_handler, cleared by rtc_read
  rtc_irq,        \* IRQ 8 unmasked on the PIC (enable_irq(8) in rtc_open)
  rtc_rate,       \* the rate bits of RTC register A
  waiting,        \* the descriptor whose rtc_read is spinning, or NoWait
  got,            \* history: output of the reads of each descriptor
  last            \* the last open or close and its result, else Other

vars == <<file_array, rtc_interrupt, rtc_irq, rtc_rate, waiting, got, last>>

NoWait == -1
init_rate == 15
Other == [call |-> "other", fd |-> 0, ret |-> 0, arg |-> 0]

\* the table of the PCB execute builds: fd 0/1 terminal, 2..7 clear_fd
Init ==
  /\ file_array = [fd \in FDS |-> IF fd < 2 THEN TerminalFd ELSE clear_fd]
  /\ rtc_interrupt = 0
  /\ rtc_irq = FALSE
  /\ rtc_rate = 6
  /\ waiting = NoWait
  /\ got = [fd \in FDS |-> <<>>]
  /\ last = Other

Running == waiting = NoWait

\* the file_op_ptr of a descriptor number, NULL outside the table
OpsAt(fd) == IF fd \in FDS THEN file_array[fd].ops ELSE "NULL"

\* sys_open; rtc_open clears rtc_interrupt, sets rate 15 and unmasks IRQ 8
\* mutant: rtc_open without enable_irq(8)
Open_noirq(name) ==
  LET r == sys_open(file_array, name)
      rtc == r.ret >= 0 /\ r.fa[r.ret].ops = "rtc_table"
  IN  /\ Running
      /\ file_array' = r.fa
      /\ rtc_interrupt' = IF rtc THEN 0 ELSE rtc_interrupt
      /\ rtc_irq' = rtc_irq
      /\ rtc_rate' = IF rtc THEN init_rate ELSE rtc_rate
      /\ got' = IF r.ret >= 0 THEN [got EXCEPT ![r.ret] = <<>>] ELSE got
      /\ last' = [call |-> "open", fd |-> r.ret, ret |-> r.ret, arg |-> 0]
      /\ UNCHANGED waiting

Open(name) ==
  LET r == sys_open(file_array, name)
      rtc == r.ret >= 0 /\ r.fa[r.ret].ops = "rtc_table"
  IN  /\ Running
      /\ file_array' = r.fa
      /\ rtc_interrupt' = IF rtc THEN 0 ELSE rtc_interrupt
      /\ rtc_irq' = (rtc_irq \/ rtc)
      /\ rtc_rate' = IF rtc THEN init_rate ELSE rtc_rate
      /\ got' = IF r.ret >= 0 THEN [got EXCEPT ![r.ret] = <<>>] ELSE got
      /\ last' = [call |-> "open", fd |-> r.ret, ret |-> r.ret, arg |-> 0]
      /\ UNCHANGED waiting

Close(fd) ==
  LET r == sys_close(file_array, fd)
  IN  /\ Running
      /\ file_array' = r.fa
      /\ last' = [call |-> "close", fd |-> fd, ret |-> r.ret, arg |-> 0]
      /\ UNCHANGED <<rtc_interrupt, rtc_irq, rtc_rate, waiting, got>>

\* sys_read on a file, a directory or stdout (terminal_read of fd # 0
\* fails); the argument checks fail the call
ReadNow(fd, n) ==
  LET r == CASE BadArgs(file_array, fd, n)   -> RRes(file_array, -1, <<>>)
             [] OpsAt(fd) = "file_table"     -> file_read(file_array, fd, n)
             [] OpsAt(fd) = "dir_table"      -> dir_read(file_array, fd, n)
             [] OpsAt(fd) = "terminal_table" -> RRes(file_array, -1, <<>>)
  IN  /\ Running
      /\ BadArgs(file_array, fd, n) \/ OpsAt(fd) # "rtc_table"
      /\ fd # 0 \/ BadArgs(file_array, fd, n)
      /\ file_array' = r.fa
      /\ got' = IF fd \in FDS THEN [got EXCEPT ![fd] = @ \o r.out] ELSE got
      /\ last' = Other
      /\ UNCHANGED <<rtc_interrupt, rtc_irq, rtc_rate, waiting>>

\* sys_read on an RTC descriptor enters the spin loop of rtc_read
ReadRtc(fd, n) ==
  /\ Running
  /\ ~BadArgs(file_array, fd, n)
  /\ OpsAt(fd) = "rtc_table"
  /\ waiting' = fd
  /\ last' = Other
  /\ UNCHANGED <<file_array, rtc_interrupt, rtc_irq, rtc_rate, got>>

\* rtc_read: the spin sees the flag under cli, clears it and returns 0
RtcReadReturn ==
  /\ waiting # NoWait
  /\ rtc_interrupt = 1
  /\ rtc_interrupt' = 0
  /\ waiting' = NoWait
  /\ last' = Other
  /\ UNCHANGED <<file_array, rtc_irq, rtc_rate, got>>

\* rtc_handler: the periodic interrupt, delivered while IRQ 8 is unmasked
RtcInterrupt ==
  /\ rtc_irq
  /\ rtc_interrupt' = 1
  /\ last' = Other
  /\ UNCHANGED <<file_array, rtc_irq, rtc_rate, waiting, got>>

\* sys_write: files and directories are read-only, the RTC takes a rate,
\* the terminal writes to fd 1 only
Write(fd, n, rate) ==
  LET t   == OpsAt(fd)
      ret == CASE BadArgs(file_array, fd, n) -> -1
               [] t = "rtc_table"            -> IF rtc_write_ok(rate) THEN 0 ELSE -1
               [] t = "terminal_table"       -> IF fd = 1 THEN n ELSE -1
               [] OTHER                      -> -1
  IN  /\ Running
      /\ rtc_rate' = IF t = "rtc_table" /\ ret = 0 
                     THEN rtc_write_rate(rate) ELSE rtc_rate
      /\ last' = IF t = "rtc_table" /\ ~BadArgs(file_array, fd, n)
                 THEN [call |-> "rtc_write", fd |-> fd, ret |-> ret, arg |-> rate]
                 ELSE Other
      /\ UNCHANGED <<file_array, rtc_interrupt, rtc_irq, waiting, got>>

\* sys_set_handler_c and sys_sigreturn_c: signals are not implemented,
\* both return -1 and change no descriptor or device state
SignalCall(call) ==
  /\ Running
  /\ last' = Other
  /\ UNCHANGED <<file_array, rtc_interrupt, rtc_irq, rtc_rate, waiting, got>>

Next ==
  \/ \E name \in Names : Open(name)
  \/ \E fd \in FdArgs : Close(fd)
  \/ \E fd \in FdArgs, n \in Counts : ReadNow(fd, n) \/ ReadRtc(fd, n)
  \/ RtcReadReturn
  \/ RtcInterrupt
  \/ \E fd \in FdArgs, n \in Counts, rate \in Rates : Write(fd, n, rate)
  \/ \E call \in {"set_handler", "sigreturn"} : SignalCall(call)

\* the RTC keeps interrupting while IRQ 8 is unmasked
Fairness == WF_vars(RtcInterrupt) /\ WF_vars(RtcReadReturn)

Spec == Init /\ [][Next]_vars /\ Fairness

-----------------------------------------------------------------------------
\* no position passes the longest file or the directory's end
PosLimit == Max({n_dir_entries} \cup {FileSize(i) : i \in 0 .. N - 1})

TypeOK ==
  /\ \A fd \in FDS :
       /\ file_array[fd].ops \in Tables
       /\ file_array[fd].file_pos \in 0 .. PosLimit
       /\ file_array[fd].flags.use \in BOOLEAN
       /\ file_array[fd].flags.type \in 0 .. 3
       /\ file_array[fd].flags.idx \in 0 .. IDX_LIMIT
  /\ rtc_interrupt \in {0, 1}
  /\ rtc_irq \in BOOLEAN
  /\ rtc_rate \in 0 .. 15
  /\ waiting \in FDS \cup {NoWait}

DirReadEnumerates ==
  \A fd \in GP :
    (InUse(file_array, fd) /\ file_array[fd].ops = "dir_table") =>
      /\ file_array[fd].file_pos <= n_dir_entries
      /\ Len(got[fd]) = file_array[fd].file_pos
      /\ \A k \in 1 .. Len(got[fd]) : IsPrefix(got[fd][k], Dentries[k].name)

(* Every descriptor in use can be closed: the close function of the table *)
(* sys_open bound to it accepts the type bits its open function wrote.    *)
(* A descriptor failing this stays in use for good and is never freed by  *)
(* sys_close nor by the close loop of sys_halt.                           *)
OpenDescriptorsClosable ==
  \A fd \in GP : InUse(file_array, fd) => DriverClose(file_array, fd).ret = 0

(* A successful open returns a slot that was free and is now in use, and *)
(* changes no other slot; closing a descriptor frees exactly that slot.   *)
OpenCloseClaimOneSlot ==
  [][ (last'.call \in {"open", "close"} /\ last'.ret >= 0) =>
           LET fd == last'.fd
           IN  /\ fd \in GP
               /\ InUse(file_array, fd) = (last'.call = "close")
               /\ InUse(file_array', fd) = (last'.call = "open")
               /\ \A g \in FDS \ {fd} : file_array'[g] = file_array[g] ]_vars

(* rtc_write takes every rate its header allows: a power of two from 4   *)
(* up to 1024 Hz ("assert less than 1024Hz") is accepted and programmed.  *)
RtcWriteAcceptsDocumentedRates ==
  (last.call = "rtc_write" /\ last.arg \in {2^k : k \in 2 .. 10}) => last.ret = 0

\* an RTC descriptor is in use
RtcOpen == \E fd \in GP : InUse(file_array, fd) /\ file_array[fd].ops = "rtc_table"

RD == INSTANCE RtcDevice WITH
        flag <- rtc_interrupt,
        armed <- rtc_irq,
        reader <- IF waiting = NoWait THEN "idle" ELSE "waiting",
        open <- RtcOpen,
        halted <- FALSE

(* The descriptor layer uses the RTC as RtcDevice describes it, the same  *)
(* interface the interrupt path implements (Interrupts): an rtc_open arms *)
(* the interrupt and clears the flag, whichever slot it takes and however *)
(* many RTC descriptors are open; closing the last one is the device's    *)
(* close; a read blocks only on an open descriptor and, the interrupt     *)
(* coming, returns; writes of the rate and every other call leave the     *)
(* device alone.                                                          *)
ImplementsRtcDevice == RD!Spec
=============================================================================
