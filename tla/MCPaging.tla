------------------------------ MODULE MCPaging ------------------------------
EXTENDS Paging

EIGHT_KB == 8192

\* the program image, the vidmap address, and addresses that fault in user
\* mode: kernel video memory, the kernel page, an unmapped small page, an
\* unmapped directory slot, the page after the user video page
MC_UserVAs == {USER_PROG, VidmapValue, VID_ADDR, KER_ADDR + FOUR_KB, FOUR_KB,
               EIGHT_MB, VidmapValue + FOUR_KB}
\* NULL, the 4MB boundary, the PCB of process 0, the program's own memory
MC_VidmapArgs == {NULL, FOUR_MB, EIGHT_MB - EIGHT_KB, USER_PROG}
=============================================================================
