----------------------------- MODULE PodRegister -----------------------------
(***************************************************************************)
(* What the handlers of a POD file promise: every call acts on the value   *)
(* at one moment between its beginning and its end, or not at all.  There  *)
(* are no locks and no steps inside a call here.  Only a write to a number *)
(* has two moments: it looks at the old text first and stores later, so    *)
(* what others do in between is lost.                                      *)
(*                                                                         *)
(* The effects are stated by what a user of the file sees, position by     *)
(* position, and do not use the operators of PodIO.                        *)
(***************************************************************************)
EXTENDS PodValues

CONSTANTS Threads, Calls, NoCall, NoResult

VARIABLES type, value,   \* the file
          call,          \* the call each thread is in,
          seen,          \* ... the old text it rewrites,
          result         \* and what it will return, once it has acted

vars == <<type, value, call, seen, result>>

Outcome(v, r) == [value |-> v, result |-> r]

\* What the text of v with buf at off says: zeros fill a hole, the number ends at
\* the first character that is no digit.  When the type cannot hold and print it,
\* or the text says more than digits, nothing is promised.
NumbersAfter(v, off, buf) ==
    LET at(i)  == IF i > off /\ i <= off + Len(buf) THEN buf[i - off]
                  ELSE IF i <= Len(v) THEN v[i] ELSE Zero
        len    == Max({Len(v), off + Len(buf)})
        run    == Max({n \in 0..len : \A i \in 1..n : at(i) \in Digits})
        lead   == {i \in 1..run : at(i) # Zero}
        number == IF lead = {} THEN <<Zero>>
                  ELSE [i \in 1..(run - Min(lead) + 1) |-> at(i + Min(lead) - 1)]
        plain  == run > 0 /\ (run < len => at(run + 1) # Mark)
    IN  IF plain /\ Len(number) <= Precision[type] THEN {number} ELSE Numbers

Read(v, c) ==
    CASE type = "char" -> {Outcome(v, Reply(IF c.off = 0 THEN <<v>> ELSE <<>>))}
      [] type = "string" -> {Outcome(v, Reply(SubSeq(v.r, c.off + 1, Min({c.off + c.size, v.length_r}))))}
      [] type \in Numeric -> {Outcome(v, IF c.off > Len(v) THEN Answer(-EINVAL)
                                         ELSE Reply(SubSeq(v, c.off + 1, Min({c.off + c.size, Len(v)}))))}

\* A number ends where podtmp does.
Looks(c) == c.op = "write" /\ type \in Numeric /\ c.off < PodTmp

Write(v, old, c) ==
    CASE type = "char" -> {Outcome(c.buf[Len(c.buf)], Answer(1))}
      [] type = "string" /\ v.length_r = 0 -> {Outcome(v, Answer(-EIO))}
      [] type = "string" /\ v.length_r > 0 /\ c.off > v.length_r -> {Outcome(v, Answer(-EFBIG))}
      [] type = "string" /\ v.length_r > 0 /\ c.off <= v.length_r ->
             {Outcome([v EXCEPT !.r = [i \in DOMAIN @ |->
                          IF i > c.off /\ i <= Min({c.off + Len(c.buf), v.length_r})
                          THEN c.buf[i - c.off] ELSE @[i]]],
                      Answer(IF c.off = v.length_r THEN -EIO
                             ELSE Min({Len(c.buf), v.length_r - c.off})))}
      [] type \in Numeric /\ ~Looks(c) -> {Outcome(v, Answer(-EFBIG))}
      [] Looks(c) -> LET fits == SubSeq(c.buf, 1, Min({Len(c.buf), PodTmp - c.off}))
                     IN  {Outcome(n, Answer(Len(fits))) : n \in NumbersAfter(old, c.off, fits)}

\* If onModify agrees, a truncation makes a number zero and shortens a string, which
\* keeps its length, or else makes it longer, unless there is no room; if not,
\* nothing changes.  The caller is not told which.
Truncate(v, c) ==
    LET truncated ==
            CASE type = "char" -> NUL
              [] type \in Numeric -> <<Zero>>
              [] type = "string" /\ c.off <= v.length_r ->
                     [v EXCEPT !.r = [i \in DOMAIN @ |->
                         IF i > c.off /\ i <= v.length_r THEN NUL ELSE @[i]]]
              [] type = "string" /\ c.off > v.length_r ->
                     [r |-> [i \in DOMAIN v.r |-> IF i <= c.off THEN v.r[i] ELSE NUL],
                      length_r |-> c.off, w |-> v.w]
        grows == type = "string" /\ c.off > v.length_r
    IN  {Outcome(x, Answer(0)) : x \in (IF c.agrees THEN {truncated} ELSE {})
                                       \cup (IF grows \/ ~c.agrees THEN {v} ELSE {})}

-----------------------------------------------------------------------------
(* The accessors of the application convert.                               *)

Size == [char |-> 1, int |-> 4, float |-> 4, int64 |-> 8, double |-> 8, longdouble |-> 16]
Floating == {"float", "double", "longdouble"}

\* A scalar can be had as another type when that is as large and cuts off no
\* fraction.
Convertible(to, from) == Size[to] >= Size[from] /\ (from \in Floating => to \in Floating)

\* It is the same number then, where the other type can hold and print it.
Converted(to, from, x) ==
    IF to = from THEN {x}
    ELSE LET n == IF from = "char" THEN Code[x] ELSE x
         IN  IF n \in Exact(to) THEN {n} ELSE Numbers

\* The buffer of y begins with text and has a new length.
Filled(y, text, length) ==
    [y EXCEPT !.r = [i \in DOMAIN @ |-> IF i <= Len(text) THEN text[i] ELSE @[i]], !.length_r = length]

\* Scalars are converted; a string of one character is a character.  A string takes
\* bytes whole or not at all, and of a number what leaves room for a NUL.
Copies(to, y, from, x) ==
    CASE from # "string" /\ to # "string" ->
             IF Convertible(to, from) THEN {[rval |-> 1, pod |-> n] : n \in Converted(to, from, x)}
             ELSE {[rval |-> 0, pod |-> y]}
      [] from = "string" /\ to # "string" ->
             IF to = "char" /\ Len(x.w) = 1 THEN {[rval |-> 1, pod |-> x.w[1]]}
             ELSE {[rval |-> 0, pod |-> y]}
      [] from \in {"char", "string"} /\ to = "string" ->
             LET text == IF from = "char" THEN <<x>> ELSE x.w
             IN  IF Len(text) <= y.length_r THEN {[rval |-> 1, pod |-> Filled(y, text, Len(text))]}
                 ELSE {[rval |-> 0, pod |-> y]}
      [] from \in Numeric /\ to = "string" ->
             IF Len(x) < y.length_r
             THEN {[rval |-> 1, pod |-> Filled(y, Append(x, NUL), Len(x))]}
             ELSE {[rval |-> Len(x),
                    pod  |-> IF y.length_r = 0 THEN y
                             ELSE Filled(y, Append(SubSeq(x, 1, y.length_r - 1), NUL), y.length_r)]}

Get(v, c) == {Outcome(v, Got(c.as, done)) : done \in Copies(c.as, c.pod, type, v)}
Set(v, c) == {Outcome(done.pod, Answer(done.rval)) : done \in Copies(type, v, c.as, c.pod)}

Outcomes(v, old, c) ==
    CASE c.op = "read"     -> Read(v, c)
      [] c.op = "write"    -> Write(v, old, c)
      [] c.op = "truncate" -> Truncate(v, c)
      [] c.op = "get"      -> Get(v, c)
      [] c.op = "put"      -> Set(v, c)

-----------------------------------------------------------------------------
Begin(t, c) ==
    /\ call[t] = NoCall
    /\ call' = [call EXCEPT ![t] = c]
    /\ UNCHANGED <<type, value, seen, result>>

Look(t) ==
    /\ call[t] # NoCall /\ result[t] = NoResult /\ seen[t] = <<>>
    /\ Looks(call[t])
    /\ seen' = [seen EXCEPT ![t] = value]
    /\ UNCHANGED <<type, value, call, result>>

Act(t) ==
    /\ call[t] # NoCall /\ result[t] = NoResult
    /\ Looks(call[t]) => seen[t] # <<>>
    /\ \E o \in Outcomes(value, seen[t], call[t]) :
           /\ value' = o.value
           /\ result' = [result EXCEPT ![t] = o.result]
    /\ seen' = [seen EXCEPT ![t] = <<>>]
    /\ UNCHANGED <<type, call>>

End(t) ==
    /\ result[t] # NoResult
    /\ call' = [call EXCEPT ![t] = NoCall]
    /\ result' = [result EXCEPT ![t] = NoResult]
    /\ UNCHANGED <<type, value, seen>>

Next == \E t \in Threads : Look(t) \/ Act(t) \/ End(t) \/ \E c \in Calls : Begin(t, c)

\* The file may be of any type and have any value in the beginning.
Spec ==
    /\ call = [t \in Threads |-> NoCall] /\ result = [t \in Threads |-> NoResult]
    /\ seen = [t \in Threads |-> <<>>]
    /\ [][Next]_vars
=============================================================================
