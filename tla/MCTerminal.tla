----------------------------- MODULE MCTerminal -----------------------------
(* Terminal with a 2-byte key buffer: one character and Enter fill it.    *)
EXTENDS Terminal

\* a, Enter and backspace pressed and released, left shift, caps lock, ctrl
MC_Scancodes == {30, 158, 28, 156, 14, 42, 170, 58, 29, 157}
\* the same with the digit 1
MC_ScancodesDigit == MC_Scancodes \cup {2}
MC_ReadCounts == {1, 4}
=============================================================================
