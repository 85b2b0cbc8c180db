----------------------------- MODULE MCFileSys -----------------------------
EXTENDS FileSys, MCFsImage

MC_Names == {".", "rtc", "shell", "frame", "nosuch"}
MC_FdArgs == {-1, 1, 2, 3}
MC_Counts == {1, 4}
MC_Rates == {4}

\* the rates rtc_write documents: 4, 8, ..., 1024 Hz
MC_DocRates == {2^k : k \in 2 .. 10}

\* filling the table: one name, descriptors 2 and 7 for close, no reads
MC_FullNames == {"shell", "."}
MC_FullFdArgs == {2, 7}
MC_FullCounts == {-1}

\* at most two descriptors open at a time besides stdin/stdout
MaxOpen == 2
OpenBound == Cardinality({fd \in GP : InUse(file_array, fd)}) <= MaxOpen

(* A closed slot keeps its old file_op_ptr, inode, file_pos and history,  *)
(* but every open function rewrites all of them before they are read, so  *)
(* states that differ only there behave alike and are explored once.      *)
(* Of the read history only what decides the read properties from here   *)
(* on is kept: its length and whether it is right so far, since later      *)
(* reads only append to it.                                                *)
GotView(fd) ==
  IF file_array[fd].ops = "dir_table"
  THEN <<Len(got[fd]), \A k \in 1 .. Len(got[fd]) : IsPrefix(got[fd][k], Dentries[k].name)>>
  ELSE <<Len(got[fd]), got[fd] = SubSeq(FileBytes(file_array[fd].inode), 1, Len(got[fd]))>>
SlotView(fd) == IF InUse(file_array, fd) THEN <<file_array[fd], GotView(fd)>> ELSE "free"
View == <<[fd \in FDS |-> SlotView(fd)], rtc_interrupt, rtc_irq, rtc_rate, waiting, last>>
=============================================================================
