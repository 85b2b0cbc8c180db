----------------------------- MODULE RtcDevice -----------------------------
(***************************************************************************)
(* What the RTC driver promises the descriptor layer, the view FileSys    *)
(* takes of it: once an RTC descriptor has been opened the interrupt is  *)
(* armed and may set the flag at any time; a read blocks until the flag  *)
(* is set, clears it and returns.  Open re-arms and clears the flag.  A   *)
(* processor exception halts the program: no read, open or close follows;*)
(* the interrupt keeps coming (a trap gate) or stops with it (an         *)
(* interrupt gate, which leaves IF clear for good).                       *)
(***************************************************************************)
VARIABLES
  flag,     \* an interrupt not yet consumed by a read
  armed,    \* the interrupt reaches the CPU
  reader,   \* "idle" or "waiting" in read
  open,     \* an RTC descriptor is open
  halted    \* an exception handler is spinning

vars == <<flag, armed, reader, open, halted>>

Init == flag = 0 /\ armed = FALSE /\ reader = "idle" /\ open = FALSE
        /\ halted = FALSE

Open(found) ==
  /\ reader = "idle" /\ ~halted
  /\ armed' = TRUE /\ flag' = 0 /\ open' = (open \/ found)
  /\ UNCHANGED <<reader, halted>>

Close ==
  /\ reader = "idle" /\ open /\ ~halted
  /\ open' = FALSE
  /\ UNCHANGED <<flag, armed, reader, halted>>

Interrupt ==
  /\ armed
  /\ flag' = 1
  /\ UNCHANGED <<armed, reader, open, halted>>

ReadStart ==
  /\ reader = "idle" /\ open /\ ~halted
  /\ reader' = "waiting"
  /\ UNCHANGED <<flag, armed, open, halted>>

ReadReturn ==
  /\ reader = "waiting" /\ flag = 1
  /\ flag' = 0 /\ reader' = "idle"
  /\ UNCHANGED <<armed, open, halted>>

Halt ==
  /\ reader = "idle"
  /\ halted' = TRUE /\ armed' \in {armed, FALSE}
  /\ UNCHANGED <<flag, reader, open>>

Next == (\E found \in BOOLEAN : Open(found)) \/ Close \/ Interrupt \/ ReadStart \/ ReadReturn
        \/ Halt

\* an armed interrupt keeps coming; a waiting read takes the flag
Spec == Init /\ [][Next]_vars /\ WF_vars(Interrupt) /\ WF_vars(ReadReturn)
=============================================================================
