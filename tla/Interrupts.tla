---------------------------- MODULE Interrupts ----------------------------
(***************************************************************************)
(* The interrupt path of the kernel: the IDT that entry() fills with       *)
(* set_idt_entry, the two 8259 PICs as i8259.c drives them (the mask bytes *)
(* of enable_irq and disable_irq, the end-of-interrupt of send_eoi), the   *)
(* handlers behind the two unmasked lines (rtc_handler on IRQ 8 through    *)
(* the cascade on IRQ 2, key_handler on IRQ 1), the exception handlers of  *)
(* exceptions_c.c, and the one kernel loop that waits on an interrupt,     *)
(* rtc_read.                                                                *)
(*                                                                         *)
(* The CPU holds a stack of handler frames above the running kernel or    *)
(* user context; the context below runs only when the stack is empty.     *)
(* A handler step is the code between two points where IF may be 1: the  *)
(* entry through an interrupt gate clears IF, sti sets it.  The PICs are  *)
(* in fully nested mode: a line in service blocks itself and every line   *)
(* of lower priority (higher number).  The RTC and the keyboard are the  *)
(* only sources: every other line stays masked from boot on.  What        *)
(* key_handler does to key_buf is the Terminal module; here a scancode is *)
(* only "mode" (a mode key or a release, the branch that sends EOI twice) *)
(* or "plain".  The screen output of the handlers is left out.            *)
(***************************************************************************)
EXTENDS Integers, Sequences, SequencesExt, FiniteSets, Bitwise

CONSTANTS
  EOI,        \* i8259.h: the OCW2 byte send_eoi writes (0x20 non-specific)
  Vectors,    \* the IDT slots held: the ones the kernel installs or enters
  Faults,     \* exception vectors a user program may raise
  MAX_NEST,   \* bound on nested handler frames
  MaxKeys     \* bound on keys typed

\* kernel.c
SYS_CALL_NUM == 128
TASK_GATE == 5
INT_GATE == 14
TRAP_GATE == 15
\* i8259.c: "map interrupts on IRQs to IDT vectors 0x20-0x27" and 0x28-0x2f
PIC_MASTER_IDT == 32
PIC_SLAVE_IDT == 40
CASCADE == 2       \* rtc_open unmasks 2 with 8: the slave's line
Vector(irq) == IF irq < 8 THEN PIC_MASTER_IDT + irq ELSE PIC_SLAVE_IDT + irq - 8

\* kernel.c: the exception tables, indexed by vector + 1
idt_functions == <<"DIVIDE_ERROR", "1", "NMI_INTERRUPT", "BREAKPOINT", "OVERFLOW",
  "BOUND_RANGE", "INVALID_OPCODE", "DEVICE_NOT_AVAILABLE", "DOUBLE_FAULT", "1",
  "INVALID_TSS", "SEGMENT_MISSING", "STACK_SEG_FAULT", "GENERAL_PROT", "PAGE_FAULT",
  "1", "FLOAT_ERROR", "ALIGN_CHECK", "MACHINE_CHECK", "FLOAT_EXCEP">>
idt_protections == <<0,0,0,3,3,3,0,0,0,0,0,0,0,0,0,0,0,0,0,0>>
idt_gates == <<TRAP_GATE, TRAP_GATE, INT_GATE, INT_GATE, TRAP_GATE, TRAP_GATE,
  TRAP_GATE, TRAP_GATE, TASK_GATE, TRAP_GATE, TRAP_GATE, TRAP_GATE, TRAP_GATE,
  TRAP_GATE, INT_GATE, TRAP_GATE, TRAP_GATE, TRAP_GATE, TRAP_GATE, TRAP_GATE>>

\* an IDT entry: the gate type is held as the four bits set_idt_entry writes
Gate(present, dpl, handler, size, r1, r2, r3) ==
  [present |-> present, dpl |-> dpl, handler |-> handler,
   size |-> size, reserved1 |-> r1, reserved2 |-> r2, reserved3 |-> r3]
GateType(e) == e.size * 8 + e.reserved1 * 4 + e.reserved2 * 2 + e.reserved3
\* mutant: the masked bits not shifted down
GateOf_noshift(present, dpl, handler, g) ==
  Gate(present, dpl, handler, g & 8, g & 4, g & 2, g & 1)

\* "(cur_gate & size_mask) >> 3" and the three reserved bits
GateOf(present, dpl, handler, g) ==
  Gate(present, dpl, handler, shiftR(g & 8, 3), shiftR(g & 4, 2), shiftR(g & 2, 1), g & 1)
NoGate == Gate(0, 0, "none", 0, 0, 0, 0)

VARIABLES
  idt,
  master_mask, slave_mask,  \* i8259.c, also the PICs' mask registers
  irr, isr,        \* lines requested and in service, 0..7 master, 8..15 slave
  eflags_if,       \* the CPU's interrupt flag (EFLAGS.IF)
  stack,           \* handler frames: [v |-> vector, pc |-> where]
  main,            \* the context below the frames: boot, kernel, user, rtc_read
  rtc_irqf,        \* the RTC's register C flag: its IRQ line is high
  kbd_full,        \* the keyboard controller holds a scancode
  rtc_interrupt,   \* rtc_driver.h
  rtc_fd,          \* the program holds an open RTC descriptor
  keys             \* keys typed so far

vars == <<idt, master_mask, slave_mask, irr, isr, eflags_if, stack, main, rtc_irqf,
          kbd_full, rtc_interrupt, rtc_fd, keys>>

Init ==
  /\ idt = [v \in Vectors |-> NoGate]
  /\ master_mask = 0 /\ slave_mask = 0   \* bss
  /\ irr = {} /\ isr = {}
  /\ eflags_if = FALSE
  /\ stack = <<>> /\ main = "boot"
  /\ rtc_irqf = FALSE /\ kbd_full = FALSE
  /\ rtc_interrupt = 0 /\ rtc_fd = FALSE
  /\ keys = 0

(***************************************************************************)
(* set_idt_entry(v, fn): a handler given is installed as a DPL 0 entry    *)
(* with bits 1,1,1,0 (an interrupt gate); without one, an exception slot   *)
(* (not 1, 9, 15) takes its gate, handler and DPL from the tables, 0x80    *)
(* the system-call trap gate with DPL 3, and a slot still empty a          *)
(* not-present filler.                                                     *)
(***************************************************************************)
\* mutant: a handler installed as a trap gate (reserved3 = 1)
set_idt_entry_trap(t, v, fn) ==
  CASE fn # "NULL" ->
         [t EXCEPT ![v] = Gate(1, 0, fn, 1, 1, 1, 1)]
    [] OTHER -> t

set_idt_entry(t, v, fn) ==
  CASE fn # "NULL" ->
         [t EXCEPT ![v] = Gate(1, 0, fn, 1, 1, 1, 0)]
    [] v < 20 /\ v \notin {1, 9, 15} ->
         [t EXCEPT ![v] = IF idt_gates[v + 1] = TASK_GATE
                          THEN GateOf(1, 0, "KERNEL_TSS", TASK_GATE)
                          ELSE GateOf(1, idt_protections[v + 1], idt_functions[v + 1],
                                      idt_gates[v + 1])]
    [] v = SYS_CALL_NUM ->
         [t EXCEPT ![v] = GateOf(1, 3, "SYS_CALL_HANDLER", TRAP_GATE)]
    [] t[v].present = 0 ->
         [t EXCEPT ![v] = Gate(0, 0, "1", 1, 1, 1, 0)]
    [] OTHER -> t

\* uint8_t value = mask & ~(1 << n): the complement truncated to a byte
U8Not(x) == 255 - (x % 256)

\* mutant: the slave's bit without "irq_num -= 8"
enable_irq_noshift(m, irq) ==
  IF irq < 8 THEN [m EXCEPT !.master = @ & U8Not(2^irq)]
  ELSE [m EXCEPT !.slave = @ & U8Not(2^irq)]

\* enable_irq and disable_irq on the pair of mask bytes
enable_irq(m, irq) ==
  IF irq < 8 THEN [m EXCEPT !.master = @ & U8Not(2^irq)]
  ELSE [m EXCEPT !.slave = @ & U8Not(2^(irq - 8))]

disable_irq(m, irq) ==
  IF irq < 8 THEN [m EXCEPT !.master = (@ | 2^irq) % 256]
  ELSE [m EXCEPT !.slave = (@ | 2^(irq - 8)) % 256]

Masks == [master |-> master_mask, slave |-> slave_mask]
Masked(m, irq) ==
  IF irq < 8 THEN shiftR(m.master, irq) % 2 = 1 ELSE shiftR(m.slave, irq - 8) % 2 = 1

\* the lines of one PIC
Lines(pic) == IF pic = "master" THEN 0 .. 7 ELSE 8 .. 15
Highest(S) == CHOOSE l \in S : \A k \in S : l <= k

\* OCW2 to one PIC: 0x20 clears its highest-priority line in service, 0x6L
\* clears line L
OCW2(s, pic, byte) ==
  LET base == IF pic = "master" THEN 0 ELSE 8
      mine == s \cap Lines(pic)
  IN  CASE byte = 32 -> IF mine = {} THEN s ELSE s \ {Highest(mine)}
        [] byte \in 96 .. 103 -> s \ {base + byte - 96}
        [] OTHER -> s

\* send_eoi: the slave first if the line is on it, then the master
send_eoi(s, irq) ==
  LET s1 == IF irq >= 8 THEN OCW2(s, "slave", EOI) ELSE s
  IN  OCW2(s1, "master", EOI)

(***************************************************************************)
(* The PICs: a line requested and unmasked is raised unless a line of the *)
(* same or higher priority of its PIC is in service; the slave raises the *)
(* master's IRQ 2.  The CPU acknowledges the master's highest line.       *)
(***************************************************************************)
Raised(pic, req) ==
  {l \in req \cap Lines(pic) :
     ~Masked(Masks, l) /\ \A k \in isr \cap Lines(pic) : k > l}
SlaveRaised == Raised("slave", irr)
MasterRaised == Raised("master", irr \cup (IF SlaveRaised # {} THEN {CASCADE} ELSE {}))

\* the line an acknowledge delivers: a slave line through the cascade
Acked ==
  LET m == Highest(MasterRaised)
  IN  IF m = CASCADE /\ SlaveRaised # {} THEN Highest(SlaveRaised) ELSE m

Top == stack[Len(stack)]
TopIs(h, pc) == stack # <<>> /\ idt[Top.v].handler = h /\ Top.pc = pc
SetTop(pc) == [stack EXCEPT ![Len(stack)].pc = pc]

(***************************************************************************)
(* entry(), from cli to sti: lidt, i8259_init, disable_irq of all sixteen *)
(* lines, rtc_init (periodic interrupts on), the RTC and keyboard         *)
(* handlers, then set_idt_entry(i, NULL) for every slot.  The filler step  *)
(* of one slot reads and writes that slot only, so the loop is a map.      *)
(***************************************************************************)
Boot ==
  LET m  == FoldLeft(disable_irq, Masks, [k \in 1 .. 16 |-> k - 1])
      t1 == set_idt_entry(set_idt_entry(idt, PIC_SLAVE_IDT, "RTC_HANDLER"),
                          PIC_MASTER_IDT + 1, "KEY_HANDLER")
  IN  /\ main = "boot"
      /\ master_mask' = m.master /\ slave_mask' = m.slave
      /\ idt' = [v \in Vectors |-> set_idt_entry(t1, v, "NULL")[v]]
      /\ eflags_if' = TRUE
      /\ main' = "kernel"
      /\ UNCHANGED <<irr, isr, stack, rtc_irqf, kbd_full, rtc_interrupt, rtc_fd, keys>>

\* the boot loop's execute of shell: terminal_open -> key_open: enable_irq(1)
ExecuteShell ==
  LET m == enable_irq(Masks, 1)
  IN  /\ main = "kernel" /\ stack = <<>>
      /\ master_mask' = m.master /\ slave_mask' = m.slave
      /\ main' = "user"
      /\ UNCHANGED <<idt, irr, isr, eflags_if, stack, rtc_irqf, kbd_full, rtc_interrupt,
                     rtc_fd, keys>>

(***************************************************************************)
(* The program's RTC calls (through sys_open, sys_close, sys_read).        *)
(* rtc_open runs under cli to its sti: the rate, enable_irq(2) and (8) and *)
(* rtc_interrupt = 0 come before the search for a free descriptor, so a    *)
(* full table (found = FALSE) still unmasks and clears.  Its early return *)
(* skips sti; the iret of the system call restores IF.                    *)
(***************************************************************************)
\* mutant: the cascade line left masked
rtc_open_nocascade(found) ==
  LET m == enable_irq(Masks, 8)
  IN  /\ main = "user" /\ stack = <<>>
      /\ master_mask' = m.master /\ slave_mask' = m.slave
      /\ rtc_interrupt' = 0
      /\ rtc_fd' = (rtc_fd \/ found)
      /\ UNCHANGED <<idt, irr, isr, eflags_if, stack, main, rtc_irqf, kbd_full, keys>>

rtc_open(found) ==
  LET m == enable_irq(enable_irq(Masks, CASCADE), 8)
  IN  /\ main = "user" /\ stack = <<>>
      /\ master_mask' = m.master /\ slave_mask' = m.slave
      /\ rtc_interrupt' = 0
      /\ rtc_fd' = (rtc_fd \/ found)
      /\ UNCHANGED <<idt, irr, isr, eflags_if, stack, main, rtc_irqf, kbd_full, keys>>

\* rtc_close frees the descriptor and leaves the PIC alone
rtc_close ==
  /\ main = "user" /\ stack = <<>> /\ rtc_fd
  /\ rtc_fd' = FALSE
  /\ UNCHANGED <<idt, master_mask, slave_mask, irr, isr, eflags_if, stack, main,
                 rtc_irqf, kbd_full, rtc_interrupt, keys>>

\* sys_read on the RTC descriptor: int 0x80 through the system-call gate
\* (IF kept by a trap gate, cleared by an interrupt gate) into rtc_read
ReadRtc ==
  /\ main = "user" /\ stack = <<>> /\ rtc_fd
  /\ main' = "rtc_read"
  /\ eflags_if' = (GateType(idt[SYS_CALL_NUM]) # INT_GATE)
  /\ UNCHANGED <<idt, master_mask, slave_mask, irr, isr, stack, rtc_irqf,
                 kbd_full, rtc_interrupt, rtc_fd, keys>>

\* a pass of rtc_read's loop that does not see the flag: cli, test, sti
rtc_read_spin ==
  /\ main = "rtc_read" /\ stack = <<>>
  /\ rtc_interrupt = 0
  /\ eflags_if' = TRUE
  /\ UNCHANGED <<idt, master_mask, slave_mask, irr, isr, stack, main, rtc_irqf,
                 kbd_full, rtc_interrupt, rtc_fd, keys>>

\* the pass that sees the flag under cli: clear it, break with IF = 0 and
\* return 0; the system call's iret restores the program's IF = 1
rtc_read ==
  /\ main = "rtc_read" /\ stack = <<>>
  /\ rtc_interrupt = 1
  /\ rtc_interrupt' = 0
  /\ main' = "user"
  /\ eflags_if' = TRUE
  /\ UNCHANGED <<idt, master_mask, slave_mask, irr, isr, stack, rtc_irqf,
                 kbd_full, rtc_fd, keys>>

\* the program raises an exception (a fault or int n on a DPL 3 gate): the
\* CPU enters the gate; an interrupt gate clears IF, a trap gate keeps it
Fault(v) ==
  /\ main = "user" /\ stack = <<>>
  /\ idt[v].present = 1
  /\ stack' = <<[v |-> v, pc |-> "entry"]>>
  /\ eflags_if' = (GateType(idt[v]) # INT_GATE)
  /\ UNCHANGED <<idt, master_mask, slave_mask, irr, isr, main, rtc_irqf, kbd_full,
                 rtc_interrupt, rtc_fd, keys>>

(***************************************************************************)
(* The devices.  After rtc_init the RTC sets its flag periodically and    *)
(* raises IRQ 8 (an edge: the flag is only set again once register C is    *)
(* read).  The keyboard raises IRQ 1 when a scancode arrives and the      *)
(* controller is empty.                                                    *)
(***************************************************************************)
RtcTick ==
  /\ main # "boot" /\ ~rtc_irqf
  /\ rtc_irqf' = TRUE /\ irr' = irr \cup {8}
  /\ UNCHANGED <<idt, master_mask, slave_mask, isr, eflags_if, stack, main, kbd_full,
                 rtc_interrupt, rtc_fd, keys>>

KeyPress ==
  /\ keys < MaxKeys /\ ~kbd_full
  /\ kbd_full' = TRUE /\ irr' = irr \cup {1} /\ keys' = keys + 1
  /\ UNCHANGED <<idt, master_mask, slave_mask, isr, eflags_if, stack, main, rtc_irqf,
                 rtc_interrupt, rtc_fd>>

\* the CPU takes the acknowledged line between two instructions with IF = 1
Deliver ==
  LET l == Acked
      v == Vector(l)
  IN  /\ eflags_if /\ MasterRaised # {}
      /\ Len(stack) < MAX_NEST
      /\ irr' = irr \ {l}
      /\ isr' = isr \cup {l} \cup (IF l >= 8 THEN {CASCADE} ELSE {})
      /\ stack' = Append(stack, [v |-> v, pc |-> "entry"])
      /\ eflags_if' = (GateType(idt[v]) # INT_GATE)
      /\ UNCHANGED <<idt, master_mask, slave_mask, main, rtc_irqf, kbd_full,
                     rtc_interrupt, rtc_fd, keys>>

(***************************************************************************)
(* The handlers, entered with IF = 0 through their interrupt gates.       *)
(* rtc_handler: cli, rtc_interrupt = 1, read register C (the RTC drops its *)
(* line), send_eoi(8), sti; then the linkage's iret.                       *)
(***************************************************************************)
rtc_handler ==
  /\ TopIs("RTC_HANDLER", "entry")
  /\ rtc_interrupt' = 1
  /\ rtc_irqf' = FALSE
  /\ isr' = send_eoi(isr, 8)
  /\ eflags_if' = TRUE
  /\ stack' = SetTop("iret")
  /\ UNCHANGED <<idt, master_mask, slave_mask, irr, main, kbd_full, rtc_fd, keys>>

\* mutant: the handler's own EOI left out (only the release branch's
\* second one remains)
key_handler_noeoi(kind) ==
  /\ TopIs("KEY_HANDLER", "entry")
  /\ kbd_full' = FALSE
  /\ eflags_if' = TRUE
  /\ stack' = SetTop(IF kind = "mode" THEN "eoi2" ELSE "iret")
  /\ UNCHANGED <<idt, master_mask, slave_mask, irr, isr, main, rtc_irqf, rtc_interrupt,
                 rtc_fd, keys>>

\* key_handler: cli, inb(KEY_PORT) empties the controller; a release or a
\* mode key takes the branch "send_eoi(1); sti();" and then falls to the
\* send_eoi(1); sti() at the end as well, any other key only to the end
key_handler(kind) ==
  /\ TopIs("KEY_HANDLER", "entry")
  /\ kbd_full' = FALSE
  /\ isr' = send_eoi(isr, 1)
  /\ eflags_if' = TRUE
  /\ stack' = SetTop(IF kind = "mode" THEN "eoi2" ELSE "iret")
  /\ UNCHANGED <<idt, master_mask, slave_mask, irr, main, rtc_irqf, rtc_interrupt,
                 rtc_fd, keys>>

\* the second send_eoi(1); sti() of the release and mode-key branch
KeyEoiAgain ==
  /\ TopIs("KEY_HANDLER", "eoi2")
  /\ isr' = send_eoi(isr, 1)
  /\ eflags_if' = TRUE
  /\ stack' = SetTop("iret")
  /\ UNCHANGED <<idt, master_mask, slave_mask, irr, main, rtc_irqf, kbd_full,
                 rtc_interrupt, rtc_fd, keys>>

\* the linkage's iret of the frame at depth d: back to the interrupted code,
\* whose IF was 1
IretAt(d) ==
  /\ Len(stack) = d /\ Top.pc = "iret"
  /\ stack' = Front(stack)
  /\ eflags_if' = TRUE
  /\ UNCHANGED <<idt, master_mask, slave_mask, irr, isr, main, rtc_irqf, kbd_full,
                 rtc_interrupt, rtc_fd, keys>>

\* exceptions_c.c: every handler clears the screen, prints its name and
\* spins in while(1) with the IF its gate left
ExceptionNames == {idt_functions[k] : k \in DOMAIN idt_functions} \ {"1"}
exception_handler ==
  /\ stack # <<>> /\ Top.pc = "entry"
  /\ idt[Top.v].handler \in ExceptionNames
  /\ stack' = SetTop("spin")
  /\ UNCHANGED <<idt, master_mask, slave_mask, irr, isr, eflags_if, main, rtc_irqf,
                 kbd_full, rtc_interrupt, rtc_fd, keys>>

\* while(1){}: the CPU runs on without a change
ExceptionSpin ==
  /\ stack # <<>> /\ Top.pc = "spin"
  /\ UNCHANGED vars

\* the CPU: boot and kernel code, handlers, rtc_read's loop
Cpu ==
  \/ Boot \/ ExecuteShell \/ rtc_read_spin \/ rtc_read
  \/ Deliver \/ rtc_handler \/ \E k \in {"mode", "plain"} : key_handler(k)
  \/ KeyEoiAgain \/ \E d \in 1 .. MAX_NEST : IretAt(d) \/ exception_handler \/ ExceptionSpin

\* the program and the devices
Env ==
  \/ \E found \in BOOLEAN : rtc_open(found)
  \/ rtc_close \/ ReadRtc \/ \E v \in Faults : Fault(v)
  \/ RtcTick \/ KeyPress

Next == Cpu \/ Env

(***************************************************************************)
(* The CPU runs whatever is enabled; the RTC ticks periodically once       *)
(* rtc_init has set its periodic-interrupt bit.  The steps that run with   *)
(* IF = 1 (rtc_read's loop, the second EOI of key_handler, each iret) are *)
(* strongly fair: an interrupt can preempt them again and again, but they *)
(* are a few instructions and the RTC's period (2 Hz after rtc_open, at   *)
(* most 1024 Hz) is far longer.  The program and the keyboard (a user)    *)
(* need not act.                                                           *)
(***************************************************************************)
Spec ==
  /\ Init /\ [][Next]_vars
  /\ WF_vars(Boot) /\ WF_vars(ExecuteShell) /\ SF_vars(rtc_read)
  /\ WF_vars(Deliver) /\ WF_vars(rtc_handler)
  /\ WF_vars(\E k \in {"mode", "plain"} : key_handler(k))
  /\ SF_vars(KeyEoiAgain) /\ \A d \in 1 .. MAX_NEST : SF_vars(IretAt(d))
  /\ WF_vars(exception_handler)
  /\ WF_vars(RtcTick)

-----------------------------------------------------------------------------
Frames == [v : Vectors, pc : {"entry", "eoi2", "iret", "spin"}]

TypeOK ==
  /\ \A v \in Vectors :
       /\ {idt[v].present, idt[v].size, idt[v].reserved1, idt[v].reserved2,
           idt[v].reserved3} \subseteq {0, 1}
       /\ idt[v].dpl \in {0, 3}
  /\ master_mask \in 0 .. 255 /\ slave_mask \in 0 .. 255
  /\ irr \subseteq 0 .. 15 /\ isr \subseteq 0 .. 15
  /\ eflags_if \in BOOLEAN
  /\ stack \in Seq(Frames) /\ Len(stack) <= MAX_NEST
  /\ main \in {"boot", "kernel", "user", "rtc_read"}
  /\ rtc_interrupt \in {0, 1}
  /\ {rtc_irqf, kbd_full, rtc_fd} \subseteq BOOLEAN
  /\ keys \in 0 .. MaxKeys

(* Whenever the CPU can take an interrupt, no line is in service on either *)
(* PIC: every handler (rtc_handler, both branches of key_handler) sends    *)
(* its EOI before its sti, so the extra EOI of key_handler's release and  *)
(* mode-key branch never finds a line of an interrupted handler to clear,  *)
(* and no handler is entered with its own line still blocking the PIC.    *)
NoInServiceWhileEnabled == eflags_if => isr = {}

(* A program blocked in rtc_read on an open RTC descriptor gets its return *)
(* once the RTC ticks: IRQ 8 is unmasked on the slave and the cascade on  *)
(* the master by rtc_open, and every EOI frees the lines again.           *)
ReadReturns == (main = "rtc_read") ~> (main = "user")

(* The interrupt path implements the RTC as the descriptor layer sees it  *)
(* (FileSys's rtc_interrupt, rtc_irq and waiting): the interrupt is armed *)
(* once boot is over and both IRQ 8 and the cascade are unmasked, every   *)
(* rtc_open arms it, and the interrupt keeps coming and a waiting read     *)
(* keeps taking it under the PIC's priorities and nesting.                *)
Halted == \E d \in DOMAIN stack : stack[d].pc = "spin"
\* an exception handler spins with IF = 0 (entered through an interrupt gate)
Frozen == \E d \in DOMAIN stack : /\ stack[d].pc = "spin"
                                   /\ GateType(idt[stack[d].v]) = INT_GATE
RD == INSTANCE RtcDevice WITH
        flag <- rtc_interrupt,
        armed <- /\ main # "boot" /\ ~Frozen
                 /\ ~Masked(Masks, 8) /\ ~Masked(Masks, CASCADE),
        halted <- Halted,
        reader <- IF main = "rtc_read" THEN "waiting" ELSE "idle",
        open <- rtc_fd
ImplementsRtcDevice == RD!Spec

(* Every scancode the keyboard controller holds is taken by key_handler,  *)
(* whatever the program does and however keys and RTC ticks interleave,  *)
(* unless an exception handler spins with IF = 0: boot masks IRQ 1 and   *)
(* the shell's terminal_open unmasks it (key_open), and every run of      *)
(* key_handler must leave IRQ 1 out of service, or no later key reaches    *)
(* the CPU and the console stops.                                         *)
KeysServiced == kbd_full ~> (~kbd_full \/ Frozen)

(* rtc_read's comment says it spins until an RTC interrupt is received: a *)
(* read waits for a tick that comes after it starts.  Nothing clears the  *)
(* flag when a read starts, so a tick handled between two reads (or after *)
(* rtc_open) is still pending when the next read begins, and that read    *)
(* returns at once on the old tick.                                        *)
ReadWaitsForNextTick == [][ReadRtc => rtc_interrupt = 0]_vars
=============================================================================
