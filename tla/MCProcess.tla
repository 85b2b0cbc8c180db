----------------------------- MODULE MCProcess -----------------------------
EXTENDS Process, MCFsImage

MC_MAX_PROC == 6
MC_Commands == {"ls"}
MC_Names == {"."}

\* files whose length is below the number of data blocks, so that word 0
\* of the inode, read as a block number by read_data with fd = -1, is a
\* valid block: "tiny" (executable) and "frame" (first byte not magic)
MC_ShortCommands == {"tiny", "frame"}

\* one descriptor of 2..7 open per process at a time
OpenBound ==
  \A a \in PcbSlots : Cardinality({fd \in GP : InUse(pcb[a].file_array, fd)}) <= 1

(* The PCB slots and frames of processes that have halted keep what they *)
(* last held, and so does a closed descriptor; but execute rewrites a     *)
(* whole PCB, the open functions a whole descriptor, and the image prefix *)
(* that any property reads, before any of these is read again.  States   *)
(* that differ only there are explored once.                              *)
LiveSlots == {PcbAddr(k) : k \in 0 .. process_number - 1} \cap DOMAIN pcb
LiveFrames == {Frame(k) : k \in 0 .. process_number - 1} \cap DOMAIN mem
FdView(fa) == [fd \in FDS |-> IF InUse(fa, fd) THEN fa[fd] ELSE "free"]
PcbView(a) == [pcb[a] EXCEPT !.file_array = FdView(@)]
View == <<process_number, cur_pcb, page_base, tss_esp0,
          [a \in LiveSlots |-> PcbView(a)], [f \in LiveFrames |-> mem[f]]>>
=============================================================================
