------------------------------- MODULE MCPodIO -------------------------------
(***************************************************************************)
(* PodIO for TLC: binary digits, numbers of two characters, a podtmp of    *)
(* four and a mapping of three bytes.                                      *)
(***************************************************************************)
EXTENDS PodIO

MCDigits == {"0", "1"}

MCCode == [c \in {"0", "1", "-", "n", "nul"} |->
              CASE c = "nul" -> <<"0">> [] c = "-" -> <<"1", "0">> [] OTHER -> <<"1">>]

\* A float of more than one digit is not exact.
MCPrecision == [ty \in Numeric |-> CASE ty = "float" -> 1 [] ty = "longdouble" -> 0 [] OTHER -> 2]

\* Two digits and the end of a line.
MCBufs == {<<"0", "1", "n">>}

\* From 2 on a write is behind a short number, and too long for podtmp and for the
\* mapping; 4 is behind both.
MCOffsets == {0, 2, 4}

\* Behind podtmp there is a NUL, or a character that ends a number.
MCBehind == {<<>>, <<"n">>}

MCGiven == [as \in Types |->
               CASE as = "char" -> {"1"}
                 [] as = "string" -> {Bytes(<<"1">>, 0), Bytes(<<"n", "n", "n", "n">>, 0)}
                 [] as \in {"int", "int64"} -> {<<"1", "0">>}
                 [] OTHER -> {}]
=============================================================================
