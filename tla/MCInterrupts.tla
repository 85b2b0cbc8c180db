--------------------------- MODULE MCInterrupts ---------------------------
EXTENDS Interrupts

\* OCW2 non-specific end of interrupt
MC_EOI == 32
\* OCW2 specific end of interrupt for level 0 (EOI 0x60 not OR'd with the line)
MC_EOI_SPECIFIC0 == 96
\* divide error (trap gate), breakpoint (DPL 3), the filler slots 1 and
\* 0x30, the keyboard and RTC vectors, page fault (interrupt gate), 0x80
MC_Vectors == {0, 1, 3, 14, 33, 40, 48, 128}
MC_Faults == {0, 3, 14}
=============================================================================
