------------------------------- MODULE PodIO --------------------------------
(***************************************************************************)
(* The handlers of one POD file, at the grain of its lock: procfuse_onFuse *)
(* ReadPOD, WritePOD and TruncatePOD, and procfuse_readPOD and writePOD of *)
(* the application, all of them called with the node's read lock taken.    *)
(*                                                                         *)
(* A call is a sequence of holds of the lock; the lock is let go between   *)
(* two of them.  In a hold a scalar is copied in one step, bytes one by    *)
(* one.  The file is one made with O_RDWR.  A result is what comes back to *)
(* libfuse or to the application.                                          *)
(***************************************************************************)
EXTENDS PodValues

CONSTANTS Threads, NoCall, NoResult,
          FileTypes,      \* the types the file may have
          Bufs, Offsets,  \* what requests ask for
          Sizes,
          Asked,          \* the types the application reads the file as,
          Given,          \* ... and the PODs it hands over, by type
          Setter,         \* the thread that calls procfuse_writePOD
          Behind,         \* what may lie behind podtmp on the stack
          Liberties       \* "growString": onModify agrees to a string beyond its mapping
                          \* "shortReads": a number is read into less than it prints as

\* A file of long doubles is left out: "%Le" prints even zero with an exponent.
ASSUME PodAssumption ==
    /\ Zero \in Digits /\ {Mark, Other, NUL} \cap Digits = {} /\ Mark \notin {Other, NUL}
    /\ FileTypes \subseteq Types
    /\ Precision \in [Numeric -> 0..MaxPrinted]
    /\ \A ty \in FileTypes \cap Numeric : Precision[ty] > 0
    /\ Liberties \subseteq {"growString", "shortReads"}

VARIABLES type, value,   \* node->onpodevent
          mode,          \* how each thread holds the node's lock
          call,          \* what it does,
          todo,          \* ... the holds that are left,
          text,          \* podtmp, or what is still to be copied,
          result         \* and what the handler will return

vars == <<type, value, mode, call, todo, text, result>>

-----------------------------------------------------------------------------
(* Requests                                                                *)

Reads  == [op : {"read"}, off : Offsets, size : Sizes]
Writes == [op : {"write"}, off : Offsets, buf : Bufs]

\* agrees: what onModify is going to say; FALSE also where there is none.
Truncates == [op : {"truncate"}, off : Offsets, agrees : BOOLEAN]

\* All accessors, also procfuse_writePOD_c and so on, call procfuse_readPOD with a
\* buffer of their own.
Gets == [op : {"get"}, as : Asked, pod : {Bytes(<<>>, MapSize - 1)}]
\* procfuse_writePOD is linked, but no header declares it and no accessor calls it.
Puts == UNION {[op : {"put"}, as : {as}, pod : Given[as]] : as \in Types}

Calls == Reads \cup Writes \cup Truncates \cup Gets \cup Puts

ASSUME InputAssumption ==
    /\ MapSize \in Nat \ {0} /\ MaxPrinted \in Nat \ {0}
    /\ PodTmp \in Nat /\ PodTmp > MaxPrinted + 1
    /\ Offsets \subseteq Nat /\ Sizes \subseteq Nat \ {0} /\ Asked \subseteq Types
    /\ \A buf \in Bufs : buf \in Seq(Chars) /\ buf # <<>>
    /\ \A rest \in Behind : rest \in Seq(Chars)
    /\ NoCall \notin Calls /\ NoResult \notin [rval : Int, bytes : Seq(Chars)]
    /\ Code \in [Chars -> Numbers]
    /\ Given["char"] \subseteq Chars
    /\ \A as \in Numeric : Given[as] \subseteq Numbers
    /\ \A pod \in Given["string"] : pod.w \in Seq(Chars)

\* What callers are free to do.
MayBegin(t, c) ==
    /\ c.op = "put" => t = Setter
    /\ c.op = "truncate" /\ type = "string" /\ c.agrees /\ c.off > MapSize => "growString" \in Liberties
    /\ c.op = "read" /\ type \in Numeric /\ c.off + c.size < MaxPrinted => "shortReads" \in Liberties

-----------------------------------------------------------------------------
(* The holds of each handler: the mode of the lock and what is done in it. *)

Hold(m, what) == [m |-> m, what |-> what]
R == Hold("R", "pass")
W == Hold("W", "pass")

ReadHolds == <<R, Hold("W", "fetch"), R>>

BytesHoldsShared == <<R, W, R, Hold("R", "put"), R>>   \* mutant of BytesHolds

\* The first W looks for a transaction, of which there is none.
BytesHolds == <<R, W, R, Hold("W", "put"), R>>

\* The old text comes from procfuse_onFuseReadPOD, whose downgrade leaves the
\* read lock only for the rest.
NumberHolds == <<R, W, R, Hold("W", "check"), Hold("W", "fetch"), Hold("R", "store"), R>>

TruncateHolds == <<R, W, Hold("R", "ask"), Hold("W", "clear"), R>>

Holds(c) ==
    CASE c.op = "read"     -> ReadHolds
      [] c.op = "write"    -> IF type \in Numeric THEN NumberHolds ELSE BytesHolds
      [] c.op = "truncate" -> TruncateHolds
      [] c.op \in {"get", "put"} -> <<Hold("R", c.op)>>

Free(m, t) ==
    \A u \in Threads \ {t} : IF m = "W" THEN mode[u] = "none" ELSE mode[u] # "W"

-----------------------------------------------------------------------------
Init ==
    /\ type \in FileTypes
    /\ value = CASE type = "char" -> NUL
                 [] type \in Numeric -> <<Zero>>
                 [] type = "string" -> Bytes([i \in 1..MapSize |-> NUL], MapSize)
    /\ mode = [t \in Threads |-> "none"]
    /\ call = [t \in Threads |-> NoCall]
    /\ todo = [t \in Threads |-> <<>>]
    /\ text = [t \in Threads |-> <<>>]
    /\ result = [t \in Threads |-> NoResult]

(* A request comes in; the access protocol is about to take the read lock. *)
Request(t, c) ==
    /\ call[t] = NoCall /\ MayBegin(t, c)
    /\ call' = [call EXCEPT ![t] = c]
    /\ todo' = [todo EXCEPT ![t] = Holds(c)]
    /\ UNCHANGED <<type, value, mode, text, result>>

(* The lock is taken for the next hold.                                    *)
Take(t) ==
    /\ mode[t] = "none" /\ todo[t] # <<>>
    /\ Free(Head(todo[t]).m, t)
    /\ mode' = [mode EXCEPT ![t] = Head(todo[t]).m]
    /\ UNCHANGED <<type, value, call, todo, text, result>>

In(t, what) == mode[t] # "none" /\ Head(todo[t]).what = what

\* The hold ends, and the lock is let go; after a failure only the downgrade,
\* or nothing, is left of the handler.
EndHold(t)      == mode' = [mode EXCEPT ![t] = "none"] /\ todo' = [todo EXCEPT ![t] = Tail(@)]
FailHold(t, ts) == mode' = [mode EXCEPT ![t] = "none"] /\ todo' = [todo EXCEPT ![t] = ts]

\* What the FUSE handlers make of an answer: a write of nothing is an error, and
\* a truncation succeeds whatever came of it.
Served(c, r) ==
    IF c.op = "write" /\ r.rval = 0 THEN Answer(-EIO)
    ELSE IF c.op = "truncate" THEN Answer(0)
    ELSE r

Returns(t, r)  == result' = [result EXCEPT ![t] = Served(call[t], r)]
Keeps(t, x)    == text' = [text EXCEPT ![t] = x]

Pass(t) ==
    /\ In(t, "pass") /\ EndHold(t)
    /\ UNCHANGED <<type, value, call, text, result>>

(* procfuse_onFuseReadPOD: a scalar is printed, whatever size is asked for *)
FetchScalar(t) ==
    LET off     == IF call[t].op = "read" THEN call[t].off ELSE 0
        printed == IF type = "char" THEN <<value>> ELSE value
        copied  == SubSeq(printed, off + 1, Len(printed))
    IN  /\ In(t, "fetch") /\ type # "string" /\ EndHold(t)
        /\ IF call[t].op = "write" THEN Keeps(t, copied) /\ UNCHANGED result
           ELSE /\ Returns(t, IF type # "char" /\ off > Len(printed) THEN Answer(-EINVAL)
                             ELSE Reply(copied))
                /\ UNCHANGED text
        /\ UNCHANGED <<type, value, call>>

(* ... bytes are copied as far as size and length go.                      *)
FetchBytes(t) ==
    LET at  == call[t].off + Len(text[t])
        end == Min({call[t].off + call[t].size, value.length_r})
    IN  /\ In(t, "fetch") /\ type = "string"
        /\ IF at < end
           THEN Keeps(t, Append(text[t], value.r[at + 1])) /\ UNCHANGED <<mode, todo, result>>
           ELSE Returns(t, Reply(text[t])) /\ Keeps(t, <<>>) /\ EndHold(t)
        /\ UNCHANGED <<type, value, call>>

(* procfuse_onFuseWritePOD, a character: the last one of the buffer ...    *)
PutChar(t) ==
    /\ In(t, "put") /\ call[t].op = "write" /\ type = "char" /\ EndHold(t)
    /\ value' = call[t].buf[Len(call[t].buf)] /\ Returns(t, Answer(1))
    /\ UNCHANGED <<type, call, text>>

(* ... a string: refused, or the bytes that fit ...                        *)
PutRefused(t) ==
    /\ In(t, "put") /\ call[t].op = "write" /\ type = "string" /\ EndHold(t)
    /\ \/ value.length_r = 0 /\ Returns(t, Answer(-EIO))
       \/ value.length_r > 0 /\ call[t].off > value.length_r /\ Returns(t, Answer(-EFBIG))
    /\ UNCHANGED <<type, value, call, text>>

PutBytes(t) ==
    LET fits == Fitting(value, call[t].off, call[t].buf)
        done == Len(text[t])
    IN  /\ In(t, "put") /\ call[t].op = "write" /\ type = "string"
        /\ value.length_r > 0 /\ call[t].off <= value.length_r
        /\ IF done < Len(fits)
           THEN /\ value' = [value EXCEPT !.r = Put(@, call[t].off + done, <<fits[done + 1]>>)]
                /\ Keeps(t, Append(text[t], fits[done + 1]))
                /\ UNCHANGED <<mode, todo, result>>
           ELSE Returns(t, Answer(done)) /\ Keeps(t, <<>>) /\ EndHold(t) /\ UNCHANGED value
        /\ UNCHANGED <<type, call>>

(* ... a number: the offset is checked, the old text fetched ...           *)
Check(t) ==
    /\ In(t, "check")
    /\ IF call[t].off > PodTmp - 1 THEN Returns(t, Answer(-EFBIG)) /\ FailHold(t, <<R>>)
       ELSE EndHold(t) /\ UNCHANGED result
    /\ UNCHANGED <<type, value, call, text>>

(* ... changed, and read as a number.  Where it fills podtmp no NUL ends it. *)
Store(t) ==
    LET fits == Clamped(call[t].off, call[t].buf)
        new  == Rewritten(text[t], call[t].off, fits)
    IN  /\ In(t, "store") /\ EndHold(t)
        /\ \E rest \in Behind : value' \in Readings(type, IF Len(new) < PodTmp THEN new ELSE new \o rest)
        /\ Returns(t, Answer(Len(fits))) /\ Keeps(t, <<>>)
        /\ UNCHANGED <<type, call>>

(* procfuse_onFuseTruncatePOD: onModify refuses, or there is none ...      *)
Ask(t) ==
    /\ In(t, "ask")
    /\ IF call[t].agrees THEN EndHold(t) /\ UNCHANGED result
       ELSE FailHold(t, <<>>) /\ Returns(t, Answer(-EIO))
    /\ UNCHANGED <<type, value, call, text>>

(* ... or agrees, and the rest is cleared.                                 *)
Clear(t) ==
    /\ In(t, "clear") /\ EndHold(t)
    /\ value' = CASE type = "char" -> NUL
                  [] type \in Numeric -> <<Zero>>
                  [] type = "string" /\ call[t].off <= value.length_r -> Zeroed(value, call[t].off)
                  [] type = "string" /\ call[t].off > value.length_r -> Grown(value, call[t].off)
    /\ Returns(t, Answer(1))
    /\ UNCHANGED <<type, call, text>>

(* ... or ftruncate cannot grow the temporary file.                        *)
GrowFails(t) ==
    /\ In(t, "clear") /\ EndHold(t)
    /\ type = "string" /\ call[t].off > value.length_r
    /\ Returns(t, Answer(-ENOSPC))
    /\ UNCHANGED <<type, value, call, text>>

(* procfuse_readPOD and procfuse_writePOD.                                 *)
GetPOD(t) ==
    /\ In(t, "get") /\ EndHold(t)
    /\ \E done \in CopyPOD(call[t].as, call[t].pod, type, value) : Returns(t, Got(call[t].as, done))
    /\ UNCHANGED <<type, value, call, text>>

PutPOD(t) ==
    /\ In(t, "put") /\ call[t].op = "put" /\ EndHold(t)
    /\ \E done \in CopyPOD(type, value, call[t].as, call[t].pod) :
           value' = done.pod /\ Returns(t, Answer(done.rval))
    /\ UNCHANGED <<type, call, text>>

(* The call returns.                                                       *)
Return(t) ==
    /\ call[t] # NoCall /\ todo[t] = <<>>
    /\ call' = [call EXCEPT ![t] = NoCall] /\ result' = [result EXCEPT ![t] = NoResult]
    /\ UNCHANGED <<type, value, mode, todo, text>>

Step(t) ==
    \/ Take(t)
    \/ Pass(t)
    \/ FetchScalar(t) \/ FetchBytes(t)
    \/ PutChar(t) \/ PutRefused(t) \/ PutBytes(t)
    \/ Check(t) \/ Store(t)
    \/ Ask(t) \/ Clear(t) \/ GrowFails(t)
    \/ GetPOD(t) \/ PutPOD(t)
    \/ Return(t)

Next == \E t \in Threads : Step(t) \/ \E c \in Calls : Request(t, c)

Spec == Init /\ [][Next]_vars

-----------------------------------------------------------------------------
(* Properties                                                              *)

\* The variables have their types; above all, what is stored for a number is one,
\* whatever was written over its text, at whatever offset.
TypeOK ==
    /\ type \in FileTypes
    /\ type = "char" => value \in Chars
    /\ type \in Numeric => value \in Numbers
    /\ type = "string" => value.r \in Seq(Chars) /\ value.length_r \in Nat
    /\ mode \in [Threads -> {"none", "R", "W"}]
    /\ \A t \in Threads : call[t] \in Calls \cup {NoCall} /\ text[t] \in Seq(Chars)

\* No write and no procfuse_writePOD reaches behind the mapping of a string, and
\* length_r, which all of them check, stays within it -- as long as onModify
\* does not agree to a size beyond it (Liberties), where mremap is told the new
\* size for the old one and moves nothing.
WithinMapping ==
    type = "string" => value.length_r <= MapSize /\ Len(value.r) = MapSize

\* A write to a number stays within podtmp.  The offset that makes it so was checked
\* two holds before, and the old text, whatever the number is by then, fetched since.
WithinPodtmp ==
    \A t \in Threads : In(t, "store") =>
        /\ call[t].off < PodTmp
        /\ Len(Rewritten(text[t], call[t].off, Clamped(call[t].off, call[t].buf))) <= PodTmp

\* A write to a string acts with its first byte.  From then on the register has
\* all of them, and the call its result.
Putting == {t \in Threads : In(t, "put") /\ call[t].op = "write" /\ text[t] # <<>>}
Fits(t) == Fitting(value, call[t].off, call[t].buf)

Shown == IF Putting = {} THEN value
         ELSE LET t == CHOOSE t \in Putting : TRUE
              IN  [value EXCEPT !.r = Put(@, call[t].off, Fits(t))]
Told  == [t \in Threads |-> IF t \in Putting THEN Served(call[t], Answer(Len(Fits(t)))) ELSE result[t]]

Seen == [t \in Threads |-> IF type \in Numeric THEN text[t] ELSE <<>>]

Register == INSTANCE PodRegister WITH value <- Shown, result <- Told, seen <- Seen

\* Every call acts at one moment, on the value of that moment: a read never sees
\* half of a write to a string, a refused truncation changes nothing, and what
\* comes out is what the user of a file expects of an offset and a size.  Only a
\* write to a number has two moments, and undoes what happened between them.
RegisterSpec == Register!Spec
=============================================================================
