--------------------------- MODULE HashFunctions ---------------------------
(***************************************************************************)
(* src/hash-string.c, as procfuse uses it for the names in a directory: a  *)
(* name is the sequence of its characters.                                 *)
(***************************************************************************)
EXTENDS Integers, SequencesExt, Bitwise

\* << 5 is * 32 as long as the results stay within 31 bits: bound, names of at
\* most three characters.
string_hash(name) == FoldLeft(LAMBDA result, c : ((result * 32) ^^ result) ^^ c, 5381, name)
=============================================================================
