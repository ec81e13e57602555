------------------------------ MODULE PodValues ------------------------------
(***************************************************************************)
(* The values of POD files and what procfuse does to them: conversion      *)
(* between types (procfuse_copyPOD), a number as the text a read shows,    *)
(* and a number or bytes after a write at an offset.                       *)
(*                                                                         *)
(* A number is kept as the text it prints as.  Where that text is digits   *)
(* only and the type holds and prints that many exactly, arithmetic is     *)
(* exact; a sign, a fraction, an exponent, an overflow or a rounding makes *)
(* the outcome any number.                                                 *)
(***************************************************************************)
EXTENDS Integers, Sequences, FiniteSetsExt

CONSTANTS Digits, Zero,   \* the digits
          Mark,           \* a sign, a point, an exponent: part of a number, no digit
          Other,          \* a character that ends a number
          NUL,
          Code,           \* the number a character is
          MaxPrinted,     \* characters of the longest number
          Precision,      \* the digits each type holds and prints exactly
          MapSize,        \* bytes mapped for a string, 4 MB scaled down
          PodTmp          \* sizeof(podtmp), 8192 scaled down

Chars == Digits \cup {Mark, Other, NUL}

Numeric == {"int", "int64", "float", "double", "longdouble"}
Types   == Numeric \cup {"char", "string"}

\* What a number prints as.
Numbers == {n \in UNION {[1..k -> Digits \cup {Mark}] : k \in 1..MaxPrinted} :
               Len(n) > 1 /\ n[1] = Zero => \E i \in 1..Len(n) : n[i] = Mark}

\* The numbers of which nothing gets lost: "%g" prints six digits, an int holds any
\* nine, and "%Le" always prints an exponent.
Exact(ty) == {n \in Numbers : Len(n) <= Precision[ty] /\ \A i \in 1..Len(n) : n[i] \in Digits}

\* What a handler returns, with the bytes a read has filled in.
Answer(n)     == [rval |-> n, bytes |-> <<>>]
Reply(buffer) == [rval |-> Len(buffer), bytes |-> buffer]

EIO    == 5
EINVAL == 22
EFBIG  == 27
ENOSPC == 28    \* whatever errno of ftruncate

-----------------------------------------------------------------------------
(* Text                                                                    *)

\* How many digits a text begins with.
Run(text) == CHOOSE k \in 0..Len(text) :
                 /\ \A i \in 1..k : text[i] \in Digits
                 /\ k < Len(text) => text[k + 1] \notin Digits

\* These digits, without the zeros in front of them.
Parsed(text) ==
    LET some == {i \in 1..Run(text) : text[i] # Zero}
    IN  IF some = {} THEN <<Zero>> ELSE SubSeq(text, Min(some), Run(text))

ReadingsUnlimited(ty, text) == {Parsed(text)}   \* mutant of Readings: any number of digits

\* atoi and its like: the digits in front.  A text that begins with something
\* else, or goes on after them as a number may, or has more of them than the
\* type holds, gives some number.
Readings(ty, text) ==
    IF /\ Run(text) > 0 /\ (Run(text) < Len(text) => text[Run(text) + 1] # Mark)
       /\ Len(Parsed(text)) <= Precision[ty]
    THEN {Parsed(text)} ELSE Numbers

\* memcpy(to + off, buf), within what is there or just behind it.
Put(to, off, buf) ==
    [i \in 1..Max({Len(to), off + Len(buf)}) |->
        IF i \in (off + 1)..(off + Len(buf)) THEN buf[i - off] ELSE to[i]]

ClampedAll(off, buf) == buf   \* mutant of Clamped

\* What of a write at an offset finds room in podtmp.
Clamped(off, buf) == SubSeq(buf, 1, Min({Len(buf), PodTmp - off}))

\* A write beyond the end of a number fills up with zeros.
Padded(text, off) == text \o [i \in 1..Max({0, off - Len(text)}) |-> Zero]

\* The text of a number after a write.
Rewritten(text, off, buf) == Put(Padded(text, off), off, buf)

-----------------------------------------------------------------------------
(* Strings: the mapping r with the length length_r the file counts as its  *)
(* own, and the bytes w of a string that comes from the application.  (A   *)
(* file's own w has a length, but there is no memory behind it.)           *)

Bytes(w, n) == [r |-> [i \in 1..n |-> NUL], length_r |-> n, w |-> w]

FittingAll(pod, off, buf) == buf   \* mutant of Fitting

\* What fits between an offset and the end.
Fitting(pod, off, buf) == SubSeq(buf, 1, Min({Len(buf), pod.length_r - off}))

\* Everything from an offset on becomes NUL; the length stays.
Zeroed(pod, off) ==
    [pod EXCEPT !.r = [i \in DOMAIN @ |-> IF i \in (off + 1)..pod.length_r THEN NUL ELSE @[i]]]

\* A longer string.  The temporary file gets that size too, which may be less than
\* it had: what lies behind is lost.
Grown(pod, off) ==
    [pod EXCEPT !.r = [i \in DOMAIN @ |-> IF i > off THEN NUL ELSE @[i]], !.length_r = off]

-----------------------------------------------------------------------------
(* procfuse_copyPOD: what it may return and leave in the destination.      *)

Refused(dst) == {[rval |-> 0, pod |-> dst]}
Copied(pod)  == {[rval |-> 1, pod |-> pod]}

\* The numeric destinations each numeric source has a case for; INT64 to FLOAT
\* has one under sizeof(dst) >= sizeof(src), which is not the case.
Widens ==
    [char       |-> Numeric \cup {"char"},
     int        |-> Numeric,
     int64      |-> {"int64", "double", "longdouble"},
     float      |-> {"float", "double", "longdouble"},
     double     |-> {"double", "longdouble"},
     longdouble |-> {"longdouble"}]

\* snprintf: what does not fit is cut off, but counted.
Snprintf(dst, text) ==
    LET fits == SubSeq(text, 1, Min({Len(text), dst.length_r - 1}))
    IN  IF dst.length_r = 0 THEN dst ELSE [dst EXCEPT !.r = Put(@, 0, fits \o <<NUL>>)]

\* A text that was cut off is returned as its length, with length_r as it was.
PrintedInto(dst, text) ==
    LET pod == Snprintf(dst, text)
    IN  IF Len(text) < dst.length_r THEN Copied([pod EXCEPT !.length_r = Len(text)])
        ELSE {[rval |-> Len(text), pod |-> pod]}

CharInto(dst, c) ==
    IF dst.length_r >= 1 THEN Copied([dst EXCEPT !.r = Put(@, 0, <<c>>), !.length_r = 1])
    ELSE Refused(dst)

StringInto(dst, w) ==
    IF dst.length_r >= Len(w)
    THEN Copied([dst EXCEPT !.r = Put(@, 0, w), !.length_r = Len(w)])
    ELSE Refused(dst)

FromString(dst_type, dst, src) ==
    IF dst_type = "char" /\ Len(src.w) = 1 THEN Copied(src.w[1])
    ELSE IF dst_type = "string" THEN StringInto(dst, src.w)
    ELSE Refused(dst)

\* The casts, among them (float) of an int and (double) of an int64.
Casts(dst_type, src_type, n) ==
    IF dst_type = src_type \/ n \in Exact(dst_type) THEN {n} ELSE Numbers

ScalarInto(dst_type, dst, src_type, src) ==
    LET n == IF src_type = "char" /\ dst_type # "char" THEN Code[src] ELSE src
    IN  IF dst_type \notin Widens[src_type] THEN Refused(dst)
        ELSE {[rval |-> 1, pod |-> m] : m \in Casts(dst_type, src_type, n)}

CopyPOD(dst_type, dst, src_type, src) ==
    CASE src_type = "string" -> FromString(dst_type, dst, src)
      [] src_type # "string" /\ dst_type = "string" ->
             IF src_type = "char" THEN CharInto(dst, src) ELSE PrintedInto(dst, src)
      [] src_type # "string" /\ dst_type # "string" -> ScalarInto(dst_type, dst, src_type, src)

\* What the application gets: nothing of a conversion that was refused.
Got(as, done) ==
    [rval  |-> done.rval,
     bytes |-> IF done.rval = 0 THEN <<>>
               ELSE IF as = "string" THEN done.pod.r
               ELSE IF as = "char" THEN <<done.pod>>
               ELSE done.pod]
=============================================================================
