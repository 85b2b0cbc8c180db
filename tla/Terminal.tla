------------------------------ MODULE Terminal ------------------------------
(***************************************************************************)
(* The console of key_driver.c: the keyboard interrupt handler key_handler *)
(* (with process_to_buffer and add_to_buffer) filling the shared key_buf,  *)
(* and terminal_read, reached by sys_read on fd 0, which clears the        *)
(* buffer, spins on enter_flag, copies key_buf to the caller and clears it *)
(* again.  The system-call gate is a trap gate, so the keyboard interrupt  *)
(* runs between any two statements of terminal_read; key_handler itself    *)
(* runs under cli and is one step.                                         *)
(*                                                                         *)
(* key_buf is held as the sequence key_buf[0 .. key_buf_index-1]: bytes    *)
(* past the index are never read before add_to_buffer overwrites them.    *)
(* mode_flag is written and read only inside key_handler and is a LET.    *)
(* The screen output (putc_terminal, deletec_terminal, clear on ctrl-L) is *)
(* left out.  ref is a ghost: the line a keyboard with shift, caps lock    *)
(* and ctrl as a user understands them would hold.                        *)
(***************************************************************************)
EXTENDS Integers, Sequences, SequencesExt

CONSTANTS
  KEY_BUF_SIZE,   \* key_driver.h: 128
  Scancodes,      \* the bytes inb(KEY_PORT) may deliver
  ReadCounts      \* nbytes passed to read on fd 0 (sys_read rejects < 0)

\* key_driver.h
LSHIFT_PRESSED == 42
LSHIFT_RELEASED == 170
RSHIFT_PRESSED == 54
RSHIFT_RELEASED == 182
CTRL_PRESSED == 29
CTRL_RELEASED == 157
CAPS_PRESSED == 58

\* the key_array entries of the keys the model types: rows normal, shift,
\* caps lock; every other modelled entry (the mode keys) is 0
KeyRow == (30 :> <<"a", "A", "A">>) @@ (2 :> <<"1", "!", "1">>)
          @@ (28 :> <<"NL", "NL", "NL">>)
          @@ (14 :> <<"BS", "BS", "BS">>)
KeySym(d, input) == IF input \in DOMAIN KeyRow THEN KeyRow[input][d + 1] ELSE "NUL"

\* C's ~ on a two's-complement int
BNot(x) == -x - 1

VARIABLES
  key_buf,        \* key_buf[0 .. key_buf_index-1]
  enter_flag,
  shift_mode, caps_mode, ctrl_mode, dict,
  pc,             \* where terminal_read is: idle, spin, copy, reset, clear
  i,              \* terminal_read's loop index
  out,            \* the bytes terminal_read wrote into the caller's buffer
  nbytes,         \* the caller's nbytes
  result,         \* the last read's buffer, return value and nbytes
  ref             \* ghost: the line as the user edited it

vars == <<key_buf, enter_flag, shift_mode, caps_mode, ctrl_mode, dict,
          pc, i, out, nbytes, result, ref>>

\* no read has returned yet (a real nbytes is never negative)
NoResult == [buf |-> <<>>, ret |-> 0, n |-> -1]

\* keyboard_environment, called by terminal_open when execute builds fd 0
Init ==
  /\ key_buf = <<>>
  /\ enter_flag = 0
  /\ shift_mode = 0 /\ caps_mode = 0 /\ ctrl_mode = 0 /\ dict = 0
  /\ pc = "idle" /\ i = 0 /\ out = <<>> /\ nbytes = 0
  /\ result = NoResult
  /\ ref = [shift |-> FALSE, caps |-> FALSE, ctrl |-> FALSE, line |-> <<>>]

(***************************************************************************)
(* The reference keyboard: a letter is upper case iff exactly one of shift *)
(* and caps lock is on, a digit is shifted iff shift is held, keys typed  *)
(* with ctrl held are dropped, backspace removes the last character, a    *)
(* full line takes no more.                                               *)
(***************************************************************************)
RefChar(e, st) ==
  CASE e = 30 -> IF st.shift # st.caps THEN "A" ELSE "a"
    [] e = 2  -> IF st.shift THEN "!" ELSE "1"
    [] OTHER  -> KeySym(0, e)

RefStep(st, e) ==
  CASE e \in {LSHIFT_PRESSED, RSHIFT_PRESSED}   -> [st EXCEPT !.shift = TRUE]
    [] e \in {LSHIFT_RELEASED, RSHIFT_RELEASED} -> [st EXCEPT !.shift = FALSE]
    [] e = CAPS_PRESSED  -> [st EXCEPT !.caps = ~@]
    [] e = CTRL_PRESSED  -> [st EXCEPT !.ctrl = TRUE]
    [] e = CTRL_RELEASED -> [st EXCEPT !.ctrl = FALSE]
    [] e >= 128          -> st
    [] KeySym(0, e) = "BS" -> [st EXCEPT !.line = IF @ = <<>> THEN @ ELSE Front(@)]
    [] st.ctrl \/ Len(st.line) = KEY_BUF_SIZE -> st
    [] OTHER -> [st EXCEPT !.line = Append(@, RefChar(e, st))]

(***************************************************************************)
(* key_handler(input), under cli: enter_flag and mode_flag reset, the mode *)
(* keys, the dictionary from shift_mode and caps_mode, then backspace or   *)
(* process_to_buffer.  symbol is read with the dictionary before the      *)
(* update; process_to_buffer reads it again with the new one.             *)
(***************************************************************************)
\* mutant: the full test off by one
process_to_buffer_gt(buf, d, ctrl, input) ==
  IF ctrl # 0 \/ Len(buf) > KEY_BUF_SIZE THEN buf
  ELSE Append(buf, KeySym(d, input))

\* process_to_buffer with add_to_buffer: dropped under ctrl or when full
process_to_buffer(buf, d, ctrl, input) ==
  IF ctrl # 0 \/ Len(buf) >= KEY_BUF_SIZE THEN buf
  ELSE Append(buf, KeySym(d, input))

\* mutant: shift tested before the shift-and-caps case
Dict_shiftfirst(shift, caps) ==
  CASE shift # 0                   -> 1
    [] BNot(shift) # 0 /\ caps # 0 -> 2
    [] OTHER                       -> 0

\* the dictionary chosen by "shift_mode && caps_mode", "shift_mode &&
\* (~caps_mode)", "(~shift_mode) && caps_mode", else 0
Dict(shift, caps) ==
  CASE shift # 0 /\ caps # 0       -> 0
    [] shift # 0 /\ BNot(caps) # 0 -> 1
    [] BNot(shift) # 0 /\ caps # 0 -> 2
    [] OTHER                       -> 0

key_handler(input) ==
  LET symbol == KeySym(dict, input)
      shift  == CASE input \in {RSHIFT_PRESSED, LSHIFT_PRESSED}   -> 1
                  [] input \in {RSHIFT_RELEASED, LSHIFT_RELEASED} -> 0
                  [] OTHER -> shift_mode
      caps   == IF input = CAPS_PRESSED THEN BNot(caps_mode) ELSE caps_mode
      ctrl   == CASE input = CTRL_PRESSED  -> 1
                  [] input = CTRL_RELEASED -> 0
                  [] OTHER -> ctrl_mode
      mode_flag == input \in {RSHIFT_PRESSED, LSHIFT_PRESSED, RSHIFT_RELEASED,
                              LSHIFT_RELEASED, CAPS_PRESSED, CTRL_PRESSED,
                              CTRL_RELEASED}
      d      == Dict(shift, caps)
      plain  == input < 128 /\ ~mode_flag
  IN  /\ shift_mode' = shift /\ caps_mode' = caps /\ ctrl_mode' = ctrl
      /\ dict' = d
      /\ enter_flag' = IF plain /\ symbol = "NL" THEN 1 ELSE 0
      /\ key_buf' = CASE ~plain          -> key_buf
                      [] symbol = "BS"   -> IF Len(key_buf) > 0 THEN Front(key_buf)
                                            ELSE key_buf
                      [] OTHER           -> process_to_buffer(key_buf, d, ctrl, input)
      /\ ref' = RefStep(ref, input)

KeyInterrupt(input) ==
  /\ key_handler(input)
  /\ UNCHANGED <<pc, i, out, nbytes, result>>

(***************************************************************************)
(* terminal_read(0, buf, n), one action per statement between which the   *)
(* keyboard interrupt may run.                                            *)
(***************************************************************************)
\* sys_read dispatches fd 0 to terminal_read, which clears the buffer
ReadStart(n) ==
  /\ pc = "idle"
  /\ key_buf' = <<>>
  /\ ref' = [ref EXCEPT !.line = <<>>]
  /\ pc' = "spin" /\ out' = <<>> /\ nbytes' = n
  /\ UNCHANGED <<enter_flag, shift_mode, caps_mode, ctrl_mode, dict, i, result>>

\* "if (enter_flag == 1)": the spin sees the flag
ReadSeeEnter ==
  /\ pc = "spin" /\ enter_flag = 1
  /\ pc' = "copy" /\ i' = 0
  /\ UNCHANGED <<key_buf, enter_flag, shift_mode, caps_mode, ctrl_mode, dict,
                 out, nbytes, result, ref>>

\* "for (i = 0; i < key_buf_index; i++) buffer[i] = key_buf[i];"
CopyByte ==
  /\ pc = "copy" /\ i < Len(key_buf)
  /\ out' = Append(out, key_buf[i + 1])
  /\ i' = i + 1
  /\ UNCHANGED <<key_buf, enter_flag, shift_mode, caps_mode, ctrl_mode, dict,
                 pc, nbytes, result, ref>>

\* mutant: the loop without its break, back to the spin
CopyEnd_nobreak ==
  /\ pc = "copy" /\ i >= Len(key_buf)
  /\ pc' = "spin"
  /\ UNCHANGED <<key_buf, enter_flag, shift_mode, caps_mode, ctrl_mode, dict,
                 i, out, nbytes, result, ref>>

CopyEnd ==
  /\ pc = "copy" /\ i >= Len(key_buf)
  /\ pc' = "reset"
  /\ UNCHANGED <<key_buf, enter_flag, shift_mode, caps_mode, ctrl_mode, dict,
                 i, out, nbytes, result, ref>>

\* "enter_flag = 0;"
ResetFlag ==
  /\ pc = "reset"
  /\ enter_flag' = 0 /\ pc' = "clear"
  /\ UNCHANGED <<key_buf, shift_mode, caps_mode, ctrl_mode, dict, i, out,
                 nbytes, result, ref>>

\* "clear_key_buffer(); return i;"
ReadReturn ==
  /\ pc = "clear"
  /\ key_buf' = <<>>
  /\ ref' = [ref EXCEPT !.line = <<>>]
  /\ pc' = "idle"
  /\ result' = [buf |-> out, ret |-> i, n |-> nbytes]
  /\ UNCHANGED <<enter_flag, shift_mode, caps_mode, ctrl_mode, dict, i, out, nbytes>>

\* execute's terminal_open: keyboard_environment resets the modes (the
\* running program is not inside terminal_read)
TerminalOpen ==
  /\ pc = "idle"
  /\ shift_mode' = 0 /\ caps_mode' = 0 /\ ctrl_mode' = 0 /\ dict' = 0
  /\ ref' = [ref EXCEPT !.shift = FALSE, !.caps = FALSE, !.ctrl = FALSE]
  /\ UNCHANGED <<key_buf, enter_flag, pc, i, out, nbytes, result>>

ReaderStep == ReadSeeEnter \/ CopyByte \/ CopyEnd \/ ResetFlag \/ ReadReturn

Next ==
  \/ \E input \in Scancodes : KeyInterrupt(input)
  \/ \E n \in ReadCounts : ReadStart(n)
  \/ ReaderStep
  \/ TerminalOpen

\* the CPU runs terminal_read whenever no interrupt handler runs; nobody
\* has to press a key
Spec == Init /\ [][Next]_vars /\ WF_vars(ReaderStep)

-----------------------------------------------------------------------------
TypeOK ==
  /\ key_buf \in Seq({"a", "A", "1", "!", "NL"}) /\ Len(key_buf) <= KEY_BUF_SIZE
  /\ enter_flag \in {0, 1}
  /\ shift_mode \in {0, 1} /\ caps_mode \in {0, -1} /\ ctrl_mode \in {0, 1}
  /\ dict \in 0 .. 2
  /\ pc \in {"idle", "spin", "copy", "reset", "clear"}
  /\ i \in 0 .. KEY_BUF_SIZE

(* The key buffer always holds the line the user typed since the last    *)
(* clear, as the user sees it: letters in upper case exactly when one of  *)
(* shift and caps lock is on, keys typed with ctrl held left out,         *)
(* backspaces applied, nothing past KEY_BUF_SIZE.  This is about          *)
(* key_handler's mode flags, the ~ of caps_mode and the dictionary choice, *)
(* and its backspace and full-buffer paths, over any sequence of events.  *)
KeyBufIsEditedInput == key_buf = ref.line

(* A read that has seen the Enter flag returns, however many keys arrive  *)
(* while it copies the buffer.                                           *)
ReadCompletes == (pc = "copy") ~> (pc = "idle")

(* A read of the console hands the caller one line: what was typed during *)
(* the read, ending with the Enter that completed it ("line-buffered       *)
(* console input", terminal_read's wait for enter_flag).                  *)
ReadReturnsLine ==
  result # NoResult =>
    /\ result.buf # <<>>
    /\ Last(result.buf) = "NL"
    /\ \A k \in 1 .. Len(result.buf) - 1 : result.buf[k] # "NL"

(* A read never writes more than nbytes bytes into the caller's buffer.   *)
ReadWithinBuffer == result # NoResult => result.ret <= result.n
=============================================================================
