------------------------------ MODULE GetArgs ------------------------------
(***************************************************************************)
(* sys_getargs_c and the command line it reads.  sys_execute_c builds the *)
(* PCB in a local pcb_t that it never clears, strcpy's the whole command  *)
(* into its input[] and copies the record into the PCB arena; so input[]  *)
(* is the command, its terminator, and whatever bytes the kernel stack    *)
(* held before (a nondeterministic choice over Garbage).                 *)
(*                                                                         *)
(* getargs scans input[] for the first space, then copies from the byte  *)
(* after it until a terminator or until idx reaches the unsigned bound   *)
(* nbytes - in_idx; in_idx grows with idx, so the bound shrinks by one   *)
(* on every pass.  A scan or copy that runs off the end of input[]     *)
(* reads the next PCB fields, which the model does not hold: it is       *)
(* recorded as an overrun with either return value.                     *)
(***************************************************************************)
EXTENDS Integers, Sequences, SequencesExt

CONSTANTS
  INPUT_LEN,  \* the size of pcb_t.input (1024)
  Commands,   \* command lines passed to execute, as sequences of characters
  Garbage,    \* values an uninitialised byte of input[] may hold
  NBytes      \* nbytes values a program passes to getargs

NUL == "NUL"
SPACE == " "

VARIABLES
  input,  \* cur_pcb->input
  last    \* the result of the last getargs call, or NoCall

vars == <<input, last>>

NoCall == [call |-> "none", n |-> 0, ret |-> 0, out |-> <<>>, overrun |-> FALSE]

\* strcpy(new_pcb.input, command) over an uninitialised local pcb_t
Strcpy(cmd, junk) == cmd \o <<NUL>> \o junk

\* the running process's command line, as its execute left it
Init ==
  /\ \E cmd \in Commands :
       \E junk \in [1 .. INPUT_LEN - Len(cmd) - 1 -> Garbage] :
         input = Strcpy(cmd, junk)
  /\ last = NoCall

\* "while (input[in_idx] != ' ') in_idx++;" from index i: the index of the
\* space, or -1 when the scan leaves input[]
RECURSIVE ScanSpace(_, _)
ScanSpace(in, i) ==
  IF i >= Len(in) THEN -1
  ELSE IF in[i + 1] = SPACE THEN i
  ELSE ScanSpace(in, i + 1)

\* the bound "nbytes - in_idx" as uint32_t: a negative difference wraps to
\* at least 2^32 - in_idx, above any index of input[], so any value past
\* INPUT_LEN stands for it
UBound(x) == IF x >= 0 THEN x ELSE INPUT_LEN + 1

\* the copy loop "for (idx = 0; idx < nbytes - in_idx; idx++, in_idx++)":
\* buf[idx] = input[in_idx], stopping after a copied terminator; the bound
\* is evaluated again on every pass with the in_idx of that pass
RECURSIVE CopyArgs(_, _, _, _, _)
CopyArgs(in, nbytes, idx, inIdx, out) ==
  IF idx >= UBound(nbytes - inIdx) THEN [idx |-> idx, out |-> out, overrun |-> FALSE]
  ELSE IF inIdx >= Len(in) THEN [idx |-> idx, out |-> out, overrun |-> TRUE]
  ELSE IF in[inIdx + 1] = NUL THEN [idx |-> idx, out |-> Append(out, NUL), overrun |-> FALSE]
  ELSE CopyArgs(in, nbytes, idx + 1, inIdx + 1, Append(out, in[inIdx + 1]))

\* mutant: "in_idx++" after the scan left out, the copy starts at the space
sys_getargs_at_space(in, nbytes) ==
  LET sp == ScanSpace(in, 0)
      c  == CopyArgs(in, nbytes, 0, sp, <<>>)
  IN  IF sp = -1 THEN [idx |-> 0, out |-> <<>>, overrun |-> TRUE]
      ELSE c

\* sys_getargs_c up to its return: the final idx, the bytes written to
\* buf, and whether input[] was overrun; nbytes - in_idx is unsigned
sys_getargs(in, nbytes) ==
  LET sp == ScanSpace(in, 0)
      c  == CopyArgs(in, nbytes, 0, sp + 1, <<>>)
  IN  IF sp = -1 THEN [idx |-> 0, out |-> <<>>, overrun |-> TRUE]
      ELSE c

\* mutant: "return idx" in place of "return 0"
GetArgs_count(n) ==
  LET r == sys_getargs(input, n)
  IN  \E ret \in (IF r.overrun THEN {-1, 0} ELSE {IF r.idx = 0 THEN -1 ELSE r.idx}) :
        /\ last' = [call |-> "getargs", n |-> n, ret |-> ret, out |-> r.out,
                    overrun |-> r.overrun]
        /\ UNCHANGED input

\* "if (idx == 0) return -1; return 0;" after an overrun the loop ran on
\* bytes the model does not hold, so either value may come back
GetArgs(n) ==
  LET r == sys_getargs(input, n)
  IN  \E ret \in (IF r.overrun THEN {-1, 0} ELSE {IF r.idx = 0 THEN -1 ELSE 0}) :
        /\ last' = [call |-> "getargs", n |-> n, ret |-> ret, out |-> r.out,
                    overrun |-> r.overrun]
        /\ UNCHANGED input

Next == \E n \in NBytes : GetArgs(n)

Spec == Init /\ [][Next]_vars

-----------------------------------------------------------------------------
Chars == Garbage \cup {NUL, SPACE} \cup UNION {Range(c) : c \in Commands}

TypeOK ==
  /\ input \in [1 .. INPUT_LEN -> Chars]
  /\ last.ret \in {-1, 0}
  /\ last.out \in Seq(Chars)
  /\ last.overrun \in BOOLEAN

\* the command execute was given: input[] up to its first terminator
Command == SubSeq(input, 1, CHOOSE i \in 0 .. INPUT_LEN - 1 :
                              input[i + 1] = NUL /\ \A j \in 1 .. i : input[j] # NUL)

\* whether the command has a space, and the text after the first one
HasSpace(cmd) == \E i \in 1 .. Len(cmd) : cmd[i] = SPACE
ArgText(cmd) ==
  LET sp == CHOOSE i \in 1 .. Len(cmd) : cmd[i] = SPACE /\ \A j \in 1 .. i - 1 : cmd[j] # SPACE
  IN  SubSeq(cmd, sp + 1, Len(cmd))

(* When the command has a space, getargs never reads past the command:    *)
(* what it writes into buf is a prefix of the text after the first space *)
(* followed by the terminator, whatever nbytes is.                       *)
GetArgsReturnsArgPrefix ==
  (last.call = "getargs" /\ HasSpace(Command)) =>
    /\ ~last.overrun
    /\ IsPrefix(last.out, ArgText(Command) \o <<NUL>>)

(* getargs writes at most nbytes bytes into the caller's buffer (spec 8: *)
(* the arguments "truncated to the caller's buffer size").               *)
GetArgsWithinBuffer ==
  last.call = "getargs" => Len(last.out) <= IF last.n < 0 THEN 0 ELSE last.n

(* With room in buf for the argument and its terminator, getargs copies   *)
(* both and returns 0 (spec 8: the argument "truncated to the caller's   *)
(* buffer size", success when an argument token is present).  The loop   *)
(* bound nbytes - in_idx, shrinking as in_idx grows, is what this tests.  *)
GetArgsCopiesArgument ==
  LET arg == ArgText(Command)
  IN  (last.call = "getargs" /\ HasSpace(Command) /\ arg # <<>>
         /\ last.n >= Len(arg) + 1) =>
        /\ last.out = arg \o <<NUL>>
        /\ last.ret = 0

(* getargs fails when the command has no argument token (spec 8).        *)
GetArgsFailsWithoutArgument ==
  (last.call = "getargs" /\ (~HasSpace(Command) \/ ArgText(Command) = <<>>)) =>
    last.ret = -1
=============================================================================
