----------------------------- MODULE MCGetArgs -----------------------------
EXTENDS GetArgs

\* input[] of 6 bytes; commands with no space, an empty argument, and
\* one- and two-byte arguments after a one- or two-byte program name
MC_INPUT_LEN == 6
MC_Commands == { <<"c">>, <<"c", " ">>, <<"c", " ", "x">>,
                 <<"c", " ", "x", "y">>, <<"c", "c", " ", "x">> }
\* a stale byte may be a space, a terminator or a letter
MC_Garbage == {" ", "NUL", "z"}
\* negative, below the program name's length, short and long buffers
MC_NBytes == {-1, 1, 3, 6}

\* commands with an argument and a buffer shorter than "c " (in_idx = 2)
MC_ArgCommands == { <<"c", " ", "x">>, <<"c", " ", "x", "y">> }
MC_ShortBuf == {1}
=============================================================================
