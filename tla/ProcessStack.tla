---------------------------- MODULE ProcessStack ----------------------------
(***************************************************************************)
(* What the process layer of the kernel promises, with no PCBs, frames,   *)
(* page tables or kernel stacks: the processes form a stack (execute      *)
(* pushes, halt pops, only the top runs); each process has its program    *)
(* image and its set of open descriptors, and nothing but its own steps   *)
(* changes either.                                                         *)
(*                                                                         *)
(*  - execute succeeds only for a regular file whose first byte is the    *)
(*    executable magic, while fewer than MAX_PROC processes exist; the    *)
(*    new process starts with stdin and stdout open and the file's bytes  *)
(*    as its image (spec: "copy the program image ... into the frame");   *)
(*  - the kernel, with no process, runs only "shell";                     *)
(*  - open takes the lowest free descriptor of 2..7, close frees one;     *)
(*  - a running program writes only its own image.                        *)
(***************************************************************************)
EXTENDS FsImage, FiniteSets

CONSTANTS
  MAX_PROC,  \* processes that may exist at once
  MAGIC,     \* the executable magic (the four bytes 0x7F 'E' 'L' 'F')
  STORED     \* a byte a program writes into its own memory

VARIABLE procs   \* <<[prog, fds, img], ...>>, the running process last

STDIO == {0, 1}
Top == procs[Len(procs)]

\* the inode of a regular file named prog, if there is one
Exe(prog) == read_dentry_by_name(prog)

\* the names of the directory
Programs == {d.name : d \in Range(Dentries)}

\* the executable files and the image each is to be loaded with
Images ==
  [prog \in {p \in Programs : /\ Exe(p).ok
                              /\ Exe(p).filetype = REG_FILE
                              /\ FileSize(Exe(p).inode_num) > 0
                              /\ FileBytes(Exe(p).inode_num)[1] = MAGIC}
     |-> FileBytes(Exe(prog).inode_num)]

Init == procs = <<>>

Exec(prog) ==
  /\ procs = <<>> => prog = "shell"
  /\ Len(procs) < MAX_PROC
  /\ prog \in DOMAIN Images
  /\ procs' = Append(procs, [prog |-> prog, fds |-> STDIO, img |-> Images[prog]])

Exit ==
  /\ procs # <<>>
  /\ procs' = SubSeq(procs, 1, Len(procs) - 1)

Open(name) ==
  LET free == (2 .. 7) \ Top.fds
  IN  /\ procs # <<>>
      /\ read_dentry_by_name(name).ok
      /\ free # {}
      /\ procs' = [procs EXCEPT ![Len(procs)].fds = @ \cup {Min(free)}]

Close(fd) ==
  /\ procs # <<>>
  /\ fd \in Top.fds \ STDIO
  /\ procs' = [procs EXCEPT ![Len(procs)].fds = @ \ {fd}]

Store ==
  /\ procs # <<>>
  /\ Top.img # <<>>
  /\ procs' = [procs EXCEPT ![Len(procs)].img = <<STORED>> \o Tail(@)]

Next ==
  \/ \E prog \in Programs : Exec(prog)
  \/ Exit
  \/ \E name \in Programs : Open(name)
  \/ \E fd \in 2 .. 7 : Close(fd)
  \/ Store

Spec == Init /\ [][Next]_procs
=============================================================================
