------------------------------ MODULE Paging ------------------------------
(***************************************************************************)
(* The memory manager of paging_c.c and the paging steps of sys_calls.c:  *)
(* the page directory and the two page tables init_paging builds, the     *)
(* remap of directory entry 32 (the user window at 128MB) by execute and  *)
(* halt with its TLB flush (lpdt reloads cr3), and sys_vidmap_c, with the *)
(* processor's translation of user and kernel accesses through a TLB.    *)
(*                                                                         *)
(* Only the directory slots and table slots the kernel writes are held;   *)
(* every other slot is the clear entry and faults.  The access bits that  *)
(* matter are present, user/supervisor, page size and global: rw is 1 in *)
(* every entry the kernel builds.  A page fault runs an exception handler *)
(* that spins forever, so an access that faults ends the machine and is   *)
(* not a step.  Execute's early failures leave the paging state alone,   *)
(* and its other work is in Process; halt keeps its failure branch.      *)
(***************************************************************************)
EXTENDS Integers, Sequences, SequencesExt, FiniteSets

CONSTANTS
  MAX_PROC,     \* "if (process_number >= 6) return -1"
  UserVAs,      \* addresses a running program touches
  VidmapArgs    \* pointers a program passes to vidmap

\* paging_c.h, sys_calls.h
FOUR_KB == 4096
FOUR_MB == 4194304
EIGHT_MB == 8388608
VID_ADDR == 753664      \* 0xB8000
KER_ADDR == FOUR_MB
PRO_ADDR == 32
USER_VMEM == 33
USER_PROG == 134512640  \* 0x8048000
NULL == 0

\* the directory and table slots init_paging writes
PDSlots == {0, 1, PRO_ADDR, USER_VMEM}
PTSlots == {VID_ADDR \div FOUR_KB}

\* an entry: present, 4MB page or table, user bit, global bit, and the
\* frame (4MB units for a big page, 4kB units in a table) or the table
Entry(p, big, us, g, base, table) ==
  [present |-> p, big |-> big, us |-> us, global |-> g, base |-> base, table |-> table]
Clear == Entry(FALSE, FALSE, FALSE, FALSE, 0, "none")

VARIABLES
  page_directory,  \* page_directory[i] for i in PDSlots
  page_tables,     \* page_table_0 and page_table_1 at PTSlots
  tlb,             \* the processor's cached translations
  process_number,
  saved,           \* old_phys_addr of each running process's PCB
  last,            \* the last access or vidmap and what it did
  vidmapped        \* ghost: vidmap has succeeded once

vars == <<page_directory, page_tables, tlb, process_number, saved, last, vidmapped>>

\* va: the address used; phys: where it went; val: what vidmap wrote
NoCall == [call |-> "none", va |-> 0, phys |-> 0, ret |-> 0, val |-> 0]

\* init_paging: table 0 maps video memory for the kernel, slot 1 the
\* kernel's 4MB global page, slot 32 the user window at physical 0, and
\* slot 33 table 1, which maps video memory for user code
Init ==
  /\ page_directory = [i \in PDSlots |->
        CASE i = 0         -> Entry(TRUE, FALSE, FALSE, FALSE, 0, "page_table_0")
          [] i = 1         -> Entry(TRUE, TRUE, FALSE, TRUE, KER_ADDR \div FOUR_MB, "none")
          [] i = PRO_ADDR  -> Entry(TRUE, TRUE, TRUE, FALSE, 0, "none")
          [] i = USER_VMEM -> Entry(TRUE, FALSE, TRUE, FALSE, 0, "page_table_1")]
  /\ page_tables = [t \in {"page_table_0", "page_table_1"} |->
        [j \in PTSlots |-> Entry(TRUE, FALSE, t = "page_table_1", FALSE, j, "none")]]
  /\ tlb = {}
  /\ process_number = 0
  /\ saved = <<>>
  /\ last = NoCall
  /\ vidmapped = FALSE

PDE(i) == IF i \in PDSlots THEN page_directory[i] ELSE Clear
PTE(t, j) == IF j \in PTSlots THEN page_tables[t][j] ELSE Clear

\* a returned entry pointer: {entry}, or {} for NULL
\* get_bigPage: the directory entry if present, else NULL
get_bigPage(dir_idx) ==
  IF dir_idx < 0 \/ dir_idx >= 1024 \/ ~PDE(dir_idx).present THEN {}
  ELSE {PDE(dir_idx)}

\* get_pageTable_entry: the table entry if the table and it are present
get_pageTable_entry(dir_idx, table_idx) ==
  IF dir_idx < 0 \/ dir_idx >= 1024 \/ table_idx < 0 \/ table_idx >= 1024 THEN {}
  ELSE IF ~PDE(dir_idx).present THEN {}
  ELSE IF ~PTE(PDE(dir_idx).table, table_idx).present THEN {}
  ELSE {PTE(PDE(dir_idx).table, table_idx)}

(***************************************************************************)
(* The processor: a walk of the directory (and table) gives a TLB entry   *)
(* for the 4MB or 4kB page holding va; user mode needs the user bit at   *)
(* every level.  A TLB hit is used without a walk.                        *)
(***************************************************************************)
WalkIn(pd, va) ==
  LET d == IF va \div FOUR_MB \in PDSlots THEN pd[va \div FOUR_MB] ELSE Clear
      t == PTE(d.table, (va \div FOUR_KB) % 1024)
  IN  CASE ~d.present -> {}
        [] d.big      -> {[vbase |-> va - (va % FOUR_MB), len |-> FOUR_MB,
                           pbase |-> d.base * FOUR_MB, us |-> d.us, global |-> d.global]}
        [] ~t.present -> {}
        [] OTHER      -> {[vbase |-> va - (va % FOUR_KB), len |-> FOUR_KB,
                           pbase |-> t.base * FOUR_KB, us |-> d.us /\ t.us,
                           global |-> t.global]}

Walk(va) == WalkIn(page_directory, va)

Covers(e, va) == e.vbase <= va /\ va < e.vbase + e.len

\* the translation used for va: the cached one, else the walk's
LookupIn(t, pd, va) ==
  IF \E e \in t : Covers(e, va) THEN {CHOOSE e \in t : Covers(e, va)}
  ELSE WalkIn(pd, va)

Lookup(va) == LookupIn(tlb, page_directory, va)

Phys(e, va) == e.pbase + (va - e.vbase)

\* mutant: lpdt left out
Flush_none(t) == t

\* lpdt(ret_dir_ptr()): reloading cr3 drops every non-global translation
Flush(t) == {e \in t : e.global}

\* an access by the running program that does not fault, with the
\* translation it used left in the TLB
Access(va, call) ==
  \E e \in Lookup(va) :
    /\ e.us
    /\ tlb' = tlb \cup {e}
    /\ last' = [NoCall EXCEPT !.call = call, !.va = va, !.phys = Phys(e, va)]

\* mutant: the frame one 4MB page too high
ProgramFrame_off(pn) == ((EIGHT_MB + (pn + 1) * FOUR_MB) \div FOUR_MB) % 1024

\* frame of the process at depth pn: "((EIGHT_MB + process_number*FOUR_MB)
\* & EIGHT_MASK) >> EIGHT_S"
ProgramFrame(pn) == ((EIGHT_MB + pn * FOUR_MB) \div FOUR_MB) % 1024

(***************************************************************************)
(* sys_execute_c: save the window's frame, point slot 32 at the child's    *)
(* frame, flush, and copy the program through the window (read_data to     *)
(* USER_PROG).  The boot loop's execute of shell is the one at depth 0.    *)
(***************************************************************************)
ExecuteRemap ==
  LET pd == [page_directory EXCEPT ![PRO_ADDR].base = ProgramFrame(process_number)]
      kept == Flush(tlb)
  IN  /\ process_number < MAX_PROC
      /\ get_bigPage(PRO_ADDR) # {}
      /\ saved' = Append(saved, page_directory[PRO_ADDR].base)
      /\ page_directory' = pd
      /\ process_number' = process_number + 1
      /\ \E e \in LookupIn(kept, pd, USER_PROG) :
           /\ tlb' = kept \cup {e}
           /\ last' = [NoCall EXCEPT !.call = "load", !.va = USER_PROG,
                                     !.phys = Phys(e, USER_PROG)]
      /\ UNCHANGED <<page_tables, vidmapped>>

\* mutant: the parent's frame not put back
HaltRemap_norestore ==
  /\ process_number > 0
  /\ process_number' = process_number - 1
  /\ IF get_bigPage(PRO_ADDR) = {}
     THEN UNCHANGED <<page_directory, saved, tlb, last>>
     ELSE /\ saved' = Front(saved)
          /\ tlb' = Flush(tlb)
          /\ last' = NoCall
          /\ UNCHANGED page_directory
  /\ UNCHANGED <<page_tables, vidmapped>>

\* sys_halt_c: a halt at depth 0 returns -1; otherwise count down, and
\* then, if get_bigPage(32) finds no entry, return -1 with the count
\* already lowered; else restore the parent's frame into slot 32, flush
HaltRemap ==
  /\ process_number > 0
  /\ process_number' = process_number - 1
  /\ IF get_bigPage(PRO_ADDR) = {}
     THEN UNCHANGED <<page_directory, saved, tlb, last>>
     ELSE /\ page_directory' = [page_directory EXCEPT ![PRO_ADDR].base = Last(saved)]
          /\ saved' = Front(saved)
          /\ tlb' = Flush(tlb)
          /\ last' = NoCall
  /\ UNCHANGED <<page_tables, vidmapped>>

\* the running program touches va
UserAccess(va) ==
  /\ process_number > 0
  /\ Access(va, "access")
  /\ UNCHANGED <<page_directory, page_tables, process_number, saved, vidmapped>>

\* mutant: the address built from the program slot
VidmapValue_pro == PRO_ADDR * FOUR_MB + VID_ADDR

\* "(USER_VMEM << 22) | VID_ADDR"
VidmapValue == USER_VMEM * FOUR_MB + VID_ADDR

\* sys_vidmap_c: reject NULL and pointers at or below 4MB, check the user
\* video page, then write VidmapValue through the pointer in kernel mode
\* (where it faults the machine stops)
sys_vidmap(ptr) ==
  IF ptr = NULL \/ ptr <= FOUR_MB
     \/ get_pageTable_entry(USER_VMEM, VID_ADDR \div FOUR_KB) = {}
  THEN /\ last' = [NoCall EXCEPT !.call = "vidmap", !.va = ptr, !.ret = -1]
       /\ UNCHANGED <<tlb, vidmapped>>
  ELSE \E e \in Lookup(ptr) :
         /\ tlb' = tlb \cup {e}
         /\ last' = [call |-> "vidmap", va |-> ptr, phys |-> Phys(e, ptr),
                      ret |-> 0, val |-> VidmapValue]
         /\ vidmapped' = TRUE

Vidmap(ptr) ==
  /\ process_number > 0
  /\ sys_vidmap(ptr)
  /\ UNCHANGED <<page_directory, page_tables, process_number, saved>>

\* the processor drops a cached translation at any time
Evict(e) ==
  /\ tlb' = tlb \ {e}
  /\ UNCHANGED <<page_directory, page_tables, process_number, saved, last, vidmapped>>

Next ==
  \/ ExecuteRemap
  \/ HaltRemap
  \/ \E va \in UserVAs : UserAccess(va)
  \/ \E p \in VidmapArgs : Vidmap(p)
  \/ \E e \in tlb : Evict(e)

Spec == Init /\ [][Next]_vars

-----------------------------------------------------------------------------
TypeOK ==
  /\ process_number \in 0 .. MAX_PROC
  /\ saved \in Seq(Nat) /\ Len(saved) <= MAX_PROC
  /\ page_directory[PRO_ADDR].base \in 0 .. (EIGHT_MB + MAX_PROC * FOUR_MB) \div FOUR_MB - 1
  /\ tlb \subseteq [vbase : Nat, len : {FOUR_KB, FOUR_MB}, pbase : Nat,
                    us : BOOLEAN, global : BOOLEAN]
  /\ vidmapped \in BOOLEAN

(* Every access through the user window on behalf of the running program *)
(* (execute's copy of the image and the program's own loads and stores)  *)
(* reaches that program's own frame, 8MB + depth*4MB, and the only other  *)
(* memory user code reaches is the video page: after any nesting of       *)
(* executes and halts, with translations cached in the TLB.  This is     *)
(* about the remap of directory slot 32 by execute and halt, the cr3      *)
(* reload after it, the global bit of each entry, and the user bits       *)
(* init_paging sets.                                                      *)
UserAccessIsolated ==
  last.call \in {"access", "load"} =>
    \/ last.phys \div FOUR_MB = ProgramFrame(process_number - 1)
    \/ last.call = "access" /\ last.phys \div FOUR_KB = VID_ADDR \div FOUR_KB

(* Execute and halt keep the window and the saved frames in step with the *)
(* process count: each running process's PCB holds its parent's frame (0, *)
(* the boot window, for the shell at depth 0), and slot 32 maps the frame  *)
(* of the process at the top.  A halt that did not restore the parent's  *)
(* frame, or an execute that saved it at the wrong depth, would part the  *)
(* count and the frames for good.                                         *)
WindowTracksProcesses ==
  /\ Len(saved) = process_number
  /\ \A k \in 1 .. process_number :
       saved[k] = IF k = 1 THEN 0 ELSE ProgramFrame(k - 2)
  /\ page_directory[PRO_ADDR].base =
       IF process_number = 0 THEN 0 ELSE ProgramFrame(process_number - 1)

(* The address vidmap hands back is usable: in user mode it translates,   *)
(* through the directory as it is, to the start of video memory.          *)
VidmapAddressMapsVideo ==
  (last.call = "vidmap" /\ last.ret = 0) =>
    \E e \in Walk(last.val) : e.us /\ Phys(e, last.val) = VID_ADDR

(* vidmap writes its result only where the calling program could write    *)
(* itself: a pointer that user mode may not use (a kernel address above   *)
(* 4MB, such as a PCB) is refused.                                        *)
VidmapWritesUserMemory ==
  (last.call = "vidmap" /\ last.ret = 0) => \E e \in Walk(last.va) : e.us

(* User code reaches video memory only after it has asked for it with     *)
(* vidmap (spec 3: the slot "exposes display memory to user space only    *)
(* after an explicit opt-in call").                                       *)
VideoOnlyAfterVidmap ==
  (last.call = "access" /\ last.phys \div FOUR_KB = VID_ADDR \div FOUR_KB) => vidmapped
=============================================================================
