------------------------------ MODULE Process ------------------------------
(***************************************************************************)
(* The process layer of sys_calls.c: sys_execute_c and sys_halt_c, the     *)
(* kernel's boot loop that executes "shell" forever, and the open and     *)
(* close calls of the running program, on the state these share:          *)
(*                                                                         *)
(*   process_number   the count of processes (sys_calls.h)                *)
(*   cur_pcb          the running process's PCB address, NULL for none    *)
(*   pcb              the PCB arena below 8MB, one 8kB slot per depth     *)
(*   page_base        page_base_addr of page-directory entry 32, the      *)
(*                    4MB user window at 128MB, in 4MB units              *)
(*   tss_esp0         tss.esp0, the kernel stack the next trap runs on    *)
(*   mem              physical memory, one sequence of bytes per 4MB      *)
(*                    frame (only the prefix a program image uses)        *)
(*                                                                         *)
(* A running program's own work is the Store step: it writes a byte       *)
(* through the window.  old_ebp, saved and restored with the other        *)
(* fields, is the return into the parent's execute: it is the control     *)
(* flow of the model (halt resumes the parent) and not a variable.        *)
(* terminal_open, called by execute, only resets keyboard state that      *)
(* this module does not hold; rtc_open likewise (see FileSys).            *)
(***************************************************************************)
EXTENDS FileDesc, FiniteSets

CONSTANTS
  MAX_PROC,   \* the limit of "if (process_number >= 6) return -1"
  MAGIC,      \* the executable magic, one model byte for elf_text[0..3]
  STORED,     \* a byte a running program writes into its memory
  Commands,   \* commands a program passes to execute
  Names       \* names a program passes to open

\* the address constants of paging_c.h and sys_calls.h
FOUR_MB == 4194304
EIGHT_KB == 8192
EIGHT_MB == 8388608
HEADER_LEN == 32
NULL == 0

\* mutant: the frame one 4MB page too high
Frame_off(pn) == ((EIGHT_MB + (pn + 1) * FOUR_MB) \div 2^22) % 2^10

\* "((EIGHT_MB + process_number*FOUR_MB) & EIGHT_MASK) >> EIGHT_S"
Frame(pn) == ((EIGHT_MB + pn * FOUR_MB) \div 2^22) % 2^10

\* "EIGHT_MB - process_number*EIGHT_KB - EIGHT_KB"
PcbAddr(pn) == EIGHT_MB - pn * EIGHT_KB - EIGHT_KB

PcbSlots == {PcbAddr(k) : k \in 0 .. MAX_PROC - 1}
\* the 4MB frames below 32MB: the kernel's and the processes'
Frames == 0 .. (EIGHT_MB + MAX_PROC * FOUR_MB) \div FOUR_MB - 1

VARIABLES process_number, cur_pcb, pcb, page_base, tss_esp0, mem

vars == <<process_number, cur_pcb, pcb, page_base, tss_esp0, mem>>

\* the fields of a PCB no code reads before execute writes them
Unwritten == [file_array |-> [fd \in FDS |-> clear_fd], old_pcb_ptr |-> NULL,
              input |-> "", old_phys_addr |-> 0, old_esp0 |-> 0]

\* boot: kernel.c sets tss.esp0 = 0x800000, init_paging points entry 32
\* at physical 0, no process exists
Init ==
  /\ process_number = 0
  /\ cur_pcb = NULL
  /\ pcb = [a \in PcbSlots |-> Unwritten]
  /\ page_base = 0
  /\ tss_esp0 = EIGHT_MB
  /\ mem = [f \in Frames |-> <<>>]

\* read_data into memory that held old: the copied bytes over its prefix
Overlay(new, old) == new \o SubSeq(old, Len(new) + 1, Len(old))

\* the file_array execute builds: stdin and stdout on the terminal, the
\* rest clear_fd
NewFileArray == [fd \in FDS |-> IF fd < 2 THEN TerminalFd ELSE clear_fd]

(***************************************************************************)
(* sys_execute_c.  Every failure returns -1 before any state is written.  *)
(* The header and the image are read with fd = -1 (NOFD).  A file shorter *)
(* than the magic makes strncmp read the uninitialised rest of header;    *)
(* the images here have none.                                             *)
(***************************************************************************)
\* what execute reads of the file named cmd: its dentry, the 32-byte
\* header and the image, read with fd = -1 (NOFD).  The file system never
\* changes after init_filesys, so these are fixed for each command.
ExecFile(cmd) ==
  LET d == read_dentry_by_name(cmd)
  IN  [d      |-> d,
       header |-> read_data(d.inode_num, 0, HEADER_LEN, NOFD),
       image  |-> read_data(d.inode_num, 0, FOUR_MB, NOFD)]

ExecFiles == [cmd \in Commands \cup {"shell"} |-> ExecFile(cmd)]

\* mutant: old_phys_addr saved after the window is switched
sys_execute_late_save(cmd) ==
  LET d      == ExecFiles[cmd].d
      header == ExecFiles[cmd].header
      image  == ExecFiles[cmd].image
      p      == Frame(process_number)
      a      == PcbAddr(process_number)
  IN  /\ process_number < MAX_PROC
      /\ d.ok
      /\ d.filetype = REG_FILE
      /\ header.ret # -1
      /\ header.out # <<>> /\ header.out[1] = MAGIC
      /\ page_base' = p
      /\ mem' = [f \in DOMAIN mem |-> IF f = p THEN Overlay(image.out, mem[f]) ELSE mem[f]]
      /\ pcb' = [pcb EXCEPT ![a] = [file_array |-> NewFileArray,
                                    old_pcb_ptr |-> cur_pcb,
                                    input |-> cmd,
                                    old_phys_addr |-> p,
                                    old_esp0 |-> tss_esp0]]
      /\ cur_pcb' = a
      /\ process_number' = process_number + 1
      /\ tss_esp0' = EIGHT_MB - (process_number + 1) * EIGHT_KB

\* mutant: old_pcb_ptr stored after cur_pcb is repointed at the new PCB
sys_execute_link_self(cmd) ==
  LET d      == ExecFiles[cmd].d
      header == ExecFiles[cmd].header
      image  == ExecFiles[cmd].image
      p      == Frame(process_number)
      a      == PcbAddr(process_number)
  IN  /\ process_number < MAX_PROC
      /\ d.ok
      /\ d.filetype = REG_FILE
      /\ header.ret # -1
      /\ header.out # <<>> /\ header.out[1] = MAGIC
      /\ page_base' = p
      /\ mem' = [f \in DOMAIN mem |-> IF f = p THEN Overlay(image.out, mem[f]) ELSE mem[f]]
      /\ pcb' = [pcb EXCEPT ![a] = [file_array |-> NewFileArray,
                                    old_pcb_ptr |-> a,
                                    input |-> cmd,
                                    old_phys_addr |-> page_base,
                                    old_esp0 |-> tss_esp0]]
      /\ cur_pcb' = a
      /\ process_number' = process_number + 1
      /\ tss_esp0' = EIGHT_MB - (process_number + 1) * EIGHT_KB

sys_execute(cmd) ==
  LET d      == ExecFiles[cmd].d
      header == ExecFiles[cmd].header
      image  == ExecFiles[cmd].image
      p      == Frame(process_number)
      a      == PcbAddr(process_number)
  IN  /\ process_number < MAX_PROC
      /\ d.ok
      /\ d.filetype = REG_FILE
      /\ header.ret # -1
      /\ header.out # <<>> /\ header.out[1] = MAGIC
      /\ page_base' = p
      /\ mem' = [f \in DOMAIN mem |-> IF f = p THEN Overlay(image.out, mem[f]) ELSE mem[f]]
      /\ pcb' = [pcb EXCEPT ![a] = [file_array |-> NewFileArray,
                                    old_pcb_ptr |-> cur_pcb,
                                    input |-> cmd,
                                    old_phys_addr |-> page_base,
                                    old_esp0 |-> tss_esp0]]
      /\ cur_pcb' = a
      /\ process_number' = process_number + 1
      /\ tss_esp0' = EIGHT_MB - (process_number + 1) * EIGHT_KB

(***************************************************************************)
(* sys_halt_c: count down, close every descriptor in use through its      *)
(* table while cur_pcb is still the halting process, then restore the     *)
(* parent's esp0 and window from the PCB and make the parent current.    *)
(* get_bigPage(32) never fails: entry 32 is present from init_paging on.  *)
(***************************************************************************)
\* mutant: the descriptors closed after cur_pcb is repointed
sys_halt_close_parent ==
  LET c == pcb[cur_pcb]
  IN  /\ cur_pcb # NULL
      /\ process_number > 0
      /\ process_number' = process_number - 1
      /\ pcb' = [pcb EXCEPT ![c.old_pcb_ptr].file_array = HaltCloseAll(@)]
      /\ tss_esp0' = c.old_esp0
      /\ page_base' = c.old_phys_addr
      /\ cur_pcb' = c.old_pcb_ptr
      /\ UNCHANGED mem

sys_halt ==
  LET c == pcb[cur_pcb]
  IN  /\ cur_pcb # NULL
      /\ process_number > 0
      /\ process_number' = process_number - 1
      /\ pcb' = [pcb EXCEPT ![cur_pcb].file_array = HaltCloseAll(@)]
      /\ tss_esp0' = c.old_esp0
      /\ page_base' = c.old_phys_addr
      /\ cur_pcb' = c.old_pcb_ptr
      /\ UNCHANGED mem

\* kernel.c: with no process left, the boot loop executes "shell" again
KernelLoop ==
  /\ cur_pcb = NULL
  /\ sys_execute("shell")

\* a running program calls execute
Execute(cmd) ==
  /\ cur_pcb # NULL
  /\ sys_execute(cmd)

\* sys_open_c and sys_close_c on the running process's table
Open(name) ==
  /\ cur_pcb # NULL
  /\ pcb' = [pcb EXCEPT ![cur_pcb].file_array = sys_open(@, name).fa]
  /\ UNCHANGED <<process_number, cur_pcb, page_base, tss_esp0, mem>>

Close(fd) ==
  /\ cur_pcb # NULL
  /\ pcb' = [pcb EXCEPT ![cur_pcb].file_array = sys_close(@, fd).fa]
  /\ UNCHANGED <<process_number, cur_pcb, page_base, tss_esp0, mem>>

\* the running program writes the first byte of its window
Store ==
  /\ cur_pcb # NULL
  /\ mem[page_base] # <<>>
  /\ mem' = [mem EXCEPT ![page_base] = <<STORED>> \o Tail(@)]
  /\ UNCHANGED <<process_number, cur_pcb, pcb, page_base, tss_esp0>>

Next ==
  \/ KernelLoop
  \/ \E cmd \in Commands : Execute(cmd)
  \/ sys_halt
  \/ \E name \in Names : Open(name)
  \/ \E fd \in GP : Close(fd)
  \/ Store

\* with no process left the CPU runs nothing but entry's while (1) loop,
\* which issues int $0x80 for "shell" again and again; programs, which
\* may run for ever, get no fairness
Spec == Init /\ [][Next]_vars /\ WF_vars(KernelLoop)

-----------------------------------------------------------------------------
TypeOK ==
  /\ process_number \in 0 .. MAX_PROC
  /\ cur_pcb \in PcbSlots \cup {NULL}
  /\ page_base \in Frames
  /\ tss_esp0 \in {EIGHT_MB - k * EIGHT_KB : k \in 0 .. MAX_PROC}
  /\ \A a \in PcbSlots :
       /\ pcb[a].old_pcb_ptr \in PcbSlots \cup {NULL}
       /\ pcb[a].old_phys_addr \in Frames
       /\ \A fd \in FDS : pcb[a].file_array[fd].ops \in Tables

(* After any sequence of nested executes and halts, the three pieces of   *)
(* per-process context execute switches and halt restores from the PCB   *)
(* agree with the process count: cur_pcb is the PCB slot of the deepest   *)
(* process, the user window (page-directory entry 32) maps that process's *)
(* frame, and tss.esp0 is the top of its kernel stack; with no process    *)
(* they are back at their boot values (NULL, physical 0, 8MB).            *)
RunningContextConsistent ==
  IF process_number = 0
  THEN /\ cur_pcb = NULL /\ page_base = 0 /\ tss_esp0 = EIGHT_MB
  ELSE /\ cur_pcb = PcbAddr(process_number - 1)
       /\ page_base = Frame(process_number - 1)
       /\ tss_esp0 = EIGHT_MB - process_number * EIGHT_KB

(* Once the root shell runs there is always a process: halt "fails if no *)
(* process is nested below the root shell" (spec 4.3), so the shell that *)
(* the boot loop starts is never torn down (sys_halt_c's first check).    *)
RootShellPersists == [](process_number >= 1 => [](process_number >= 1))

(* The machine always comes back to a shell: whenever no process is left  *)
(* (at boot, and each time the root shell halts) the boot loop's execute *)
(* of "shell" succeeds and a fresh shell runs as the only process.  This *)
(* needs halt to restore cur_pcb along the old_pcb_ptr chain that execute *)
(* wrote, so that the count reaching 0 and cur_pcb reaching NULL happen   *)
(* together, and the shell image to load into frame 0.                    *)
ShellRestarts ==
  (process_number = 0) ~>
    (process_number = 1 /\ cur_pcb # NULL /\ pcb[cur_pcb].input = "shell")

\* the first n bytes of s
PrefixOf(s, n) == SubSeq(s, 1, IF n < Len(s) THEN n ELSE Len(s))

\* the process at depth k as ProcessStack sees it: its command, the
\* descriptors in use in its PCB, and the file-sized prefix of its frame
AbsProc(k) ==
  LET a == PcbAddr(k)
  IN  [prog |-> pcb[a].input,
       fds  |-> {fd \in FDS : InUse(pcb[a].file_array, fd)},
       img  |-> PrefixOf(mem[Frame(k)],
                         FileSize(read_dentry_by_name(pcb[a].input).inode_num))]

AbsProcs == [k \in 1 .. process_number |-> AbsProc(k - 1)]

PS == INSTANCE ProcessStack WITH procs <- AbsProcs

(* The PCB arena, the frames and the window implement the process stack:  *)
(* execute pushes a process holding the file's bytes with stdin/stdout    *)
(* open, halt pops exactly the running one, open, close and the program's *)
(* stores change only the running process, never a suspended parent's    *)
(* descriptor table or memory.                                           *)
ImplementsProcessStack == PS!Spec
=============================================================================
