----------------------------- MODULE PodIO_proof -----------------------------
(***************************************************************************)
(* For any requests, sizes and number of threads, as long as onModify does *)
(* not agree to a string beyond its mapping: no call reaches behind that,  *)
(* or behind podtmp, and what is stored for a number is one.  For any      *)
(* operands, procfuse_copyPOD converts as PodRegister says.  And with      *)
(* requests that are Ordinary (below), the handlers implement it.          *)
(***************************************************************************)
EXTENDS PodIO, SequenceTheorems, NaturalsInduction, WellFoundedInduction, TLAPS

\* A string with its mapping.
Mapped(pod) ==
    /\ pod = [r |-> pod.r, length_r |-> pod.length_r, w |-> pod.w]
    /\ pod.r \in Seq(Chars) /\ Len(pod.r) = MapSize
    /\ pod.length_r \in 0..MapSize /\ pod.w \in Seq(Chars)

LEMMA PodWith ==
    ASSUME NEW pod, pod = [r |-> pod.r, length_r |-> pod.length_r, w |-> pod.w], NEW r, NEW n
    PROVE  /\ [pod EXCEPT !.r = r] = [r |-> r, length_r |-> pod.length_r, w |-> pod.w]
           /\ [pod EXCEPT !.r = r, !.length_r = n] = [r |-> r, length_r |-> n, w |-> pod.w]
<1>2. [pod EXCEPT !.r = r] = [r |-> r, length_r |-> pod.length_r, w |-> pod.w]
  OBVIOUS
<1>3. PICK q : q = [r |-> r, length_r |-> pod.length_r, w |-> pod.w]
  OBVIOUS
<1>4. [q EXCEPT !.length_r = n] = [r |-> r, length_r |-> n, w |-> pod.w]
  BY <1>3
<1>5. [pod EXCEPT !.r = r, !.length_r = n] = [[pod EXCEPT !.r = r] EXCEPT !.length_r = n]
  OBVIOUS
<1> QED
  BY <1>2, <1>3, <1>4, <1>5, Zenon

LEMMA MappedWith ==
    ASSUME NEW pod, Mapped(pod), NEW r, NEW n
    PROVE  /\ [pod EXCEPT !.r = r] = [r |-> r, length_r |-> pod.length_r, w |-> pod.w]
           /\ [pod EXCEPT !.r = r, !.length_r = n] = [r |-> r, length_r |-> n, w |-> pod.w]
<1>1. pod = [r |-> pod.r, length_r |-> pod.length_r, w |-> pod.w]
  BY DEF Mapped
<1>2. [pod EXCEPT !.r = r] = [r |-> r, length_r |-> pod.length_r, w |-> pod.w]
  BY <1>1
<1>3. PICK q : q = [r |-> r, length_r |-> pod.length_r, w |-> pod.w]
  OBVIOUS
<1>4. [q EXCEPT !.length_r = n] = [r |-> r, length_r |-> n, w |-> pod.w]
  BY <1>3
<1>5. [pod EXCEPT !.r = r, !.length_r = n] = [[pod EXCEPT !.r = r] EXCEPT !.length_r = n]
  OBVIOUS
<1> QED
  BY <1>2, <1>3, <1>4, <1>5, Zenon

LEMMA StaysMapped ==
    ASSUME NEW pod, Mapped(pod), NEW r \in Seq(Chars), Len(r) = MapSize, NEW n \in 0..MapSize
    PROVE  Mapped([pod EXCEPT !.r = r]) /\ Mapped([pod EXCEPT !.r = r, !.length_r = n])
<1>1. pod.length_r \in 0..MapSize /\ pod.w \in Seq(Chars)
  BY DEF Mapped
<1>2. /\ Mapped([r |-> r, length_r |-> pod.length_r, w |-> pod.w])
      /\ Mapped([r |-> r, length_r |-> n, w |-> pod.w])
  BY <1>1 DEF Mapped
<1> QED
  BY <1>2, PodWith DEF Mapped

-----------------------------------------------------------------------------
(* Sequences and texts                                                     *)

LEMMA MaxOfTwo ==
    ASSUME NEW a \in Int, NEW b \in Int
    PROVE  Max({a, b}) \in {a, b} /\ Max({a, b}) >= a /\ Max({a, b}) >= b
BY DEF Max

LEMMA MinOfTwo ==
    ASSUME NEW a \in Int, NEW b \in Int
    PROVE  Min({a, b}) \in {a, b} /\ Min({a, b}) <= a /\ Min({a, b}) <= b
BY DEF Min

\* Putting bytes within a text leaves its length.
LEMMA PutWithin ==
    ASSUME NEW to \in Seq(Chars), NEW off \in Nat, NEW buf \in Seq(Chars),
           off + Len(buf) <= Len(to)
    PROVE  Put(to, off, buf) \in Seq(Chars) /\ Len(Put(to, off, buf)) = Len(to)
<1>1. Len(to) \in Nat /\ Len(buf) \in Nat
  BY LenProperties
<1>2. Max({Len(to), off + Len(buf)}) = Len(to)
  <2> DEFINE end == off + Len(buf)
  <2>1. Len(to) \in Int /\ end \in Int /\ end <= Len(to)
    BY <1>1
  <2> HIDE DEF end
  <2>2. Max({Len(to), end}) \in {Len(to), end} /\ Max({Len(to), end}) >= Len(to)
    BY <2>1, MaxOfTwo, Zenon
  <2>3. Max({Len(to), end}) = Len(to)
    BY <2>1, <2>2
  <2> QED
    BY <2>3 DEF end
<1>3. Put(to, off, buf) =
        [i \in 1..Len(to) |-> IF i \in (off + 1)..(off + Len(buf)) THEN buf[i - off] ELSE to[i]]
  BY <1>2 DEF Put
<1>4. \A i \in 1..Len(to) :
        (IF i \in (off + 1)..(off + Len(buf)) THEN buf[i - off] ELSE to[i]) \in Chars
  BY <1>1, ElementOfSeq
<1>5. Put(to, off, buf) \in [1..Len(to) -> Chars]
  BY <1>3, <1>4
<1> QED
  BY <1>1, <1>5

\* What fits of a buffer ends where the string does.
LEMMA FittingFits ==
    ASSUME NEW pod, Mapped(pod), NEW off \in 0..pod.length_r, NEW buf \in Seq(Chars)
    PROVE  /\ Fitting(pod, off, buf) \in Seq(Chars)
           /\ off + Len(Fitting(pod, off, buf)) <= pod.length_r
<1> DEFINE n == Min({Len(buf), pod.length_r - off})
<1>1. /\ Len(buf) \in Nat
      /\ pod.length_r \in Nat /\ pod.length_r - off \in Nat
  BY LenProperties, InputAssumption DEF Mapped
<1>2. n \in Nat /\ n <= Len(buf) /\ n <= pod.length_r - off
  <2> DEFINE room == pod.length_r - off
  <2>1. Len(buf) \in Int /\ room \in Int /\ room >= 0 /\ Len(buf) >= 0
    BY <1>1
  <2> HIDE DEF room
  <2>2. LET m == Min({Len(buf), room})
        IN  m \in {Len(buf), room} /\ m <= Len(buf) /\ m <= room
    BY <2>1, MinOfTwo, Zenon
  <2>3. LET m == Min({Len(buf), room})
        IN  m \in Nat /\ m <= Len(buf) /\ m <= room
    BY <2>1, <2>2
  <2> QED
    BY <2>3 DEF room
<1> HIDE DEF n
<1>3. \A i \in 1..n : buf[i] \in Chars
  BY <1>1, <1>2, ElementOfSeq
<1>4. /\ SubSeq(buf, 1, n) \in Seq(Chars)
      /\ Len(SubSeq(buf, 1, n)) = IF 1 <= n THEN n - 1 + 1 ELSE 0
  BY <1>2, <1>3, SubSeqProperties
<1>5. Fitting(pod, off, buf) = SubSeq(buf, 1, n)
  BY DEF Fitting, n
<1> QED
  BY <1>1, <1>2, <1>4, <1>5

LEMMA ClearedIsMapped ==
    ASSUME NEW pod, Mapped(pod), NEW off \in 0..MapSize
    PROVE  Mapped(Zeroed(pod, off)) /\ Mapped(Grown(pod, off))
<1>1. pod.r \in [1..MapSize -> Chars] /\ DOMAIN pod.r = 1..MapSize /\ MapSize \in Nat
  BY InputAssumption, LenProperties DEF Mapped
<1> DEFINE zero == [i \in DOMAIN pod.r |-> IF i \in (off + 1)..pod.length_r THEN NUL ELSE pod.r[i]]
           grow == [i \in DOMAIN pod.r |-> IF i > off THEN NUL ELSE pod.r[i]]
<1>2. zero \in [1..MapSize -> Chars] /\ grow \in [1..MapSize -> Chars]
  BY <1>1 DEF Chars
<1>3. /\ zero \in Seq(Chars) /\ Len(zero) = MapSize
      /\ grow \in Seq(Chars) /\ Len(grow) = MapSize
  BY <1>1, <1>2
<1> HIDE DEF zero, grow
<1>4. Mapped([pod EXCEPT !.r = zero])
  BY <1>3, StaysMapped
<1>5. Mapped([pod EXCEPT !.r = grow, !.length_r = off])
  BY <1>3, StaysMapped
<1>6. Zeroed(pod, off) = [pod EXCEPT !.r = zero]
  BY DEF Zeroed, zero
<1>7. Grown(pod, off) = [pod EXCEPT !.r = grow, !.length_r = off]
  BY DEF Grown, grow
<1> QED
  BY <1>4, <1>5, <1>6, <1>7

-----------------------------------------------------------------------------
(* Numbers                                                                 *)

\* The least of some numbers.
LEMMA LeastOf ==
    ASSUME NEW S \in SUBSET Nat, S # {}
    PROVE  Min(S) \in S /\ \A n \in S : Min(S) <= n
<1>1. PICK m \in S : \A n \in S : ~(<<n, m>> \in OpToRel(<, Nat))
  BY NatLessThanWellFounded, WFMin, Zenon
<1>2. \A n \in S : ~(n < m)
  BY <1>1 DEF OpToRel
<1>3. \A n \in S : m <= n
  BY <1>2
<1> QED
  BY <1>3 DEF Min

\* The digits in front of a text end at k.
InFront(string, k) ==
    /\ k \in 0..Len(string)
    /\ \A i \in 1..k : string[i] \in Digits
    /\ k < Len(string) => string[k + 1] \notin Digits

LEMMA DigitsEnd ==
    ASSUME NEW string \in Seq(Chars)
    PROVE  \E k \in 0..Len(string) : InFront(string, k)
<1> DEFINE ends == {k \in 0..Len(string) : k < Len(string) => string[k + 1] \notin Digits}
<1>1. Len(string) \in Nat
  BY LenProperties
<1>2. ends \in SUBSET Nat /\ Len(string) \in ends
  BY <1>1
<1>3. PICK k \in ends : \A n \in ends : k <= n
  BY <1>2, LeastOf
<1>4. ASSUME NEW i \in 1..k PROVE string[i] \in Digits
  <2>1. i - 1 \in 0..Len(string) /\ i - 1 < k /\ (i - 1) + 1 = i
    BY <1>1
  <2>2. i - 1 \notin ends
    <3> HIDE DEF ends
    <3>1. k \in Nat /\ \A n \in ends : k <= n
      BY <1>2, <1>3
    <3> QED
      BY <2>1, <3>1
  <2> QED
    BY <2>1, <2>2
<1> QED
  BY <1>4 DEF InFront

LEMMA DigitsEndOnce ==
    ASSUME NEW string \in Seq(Chars), NEW j, NEW k, InFront(string, j), InFront(string, k)
    PROVE  j = k
<1>1. Len(string) \in Nat /\ j \in 0..Len(string) /\ k \in 0..Len(string)
  BY LenProperties DEF InFront
<1>2. ~(j < k)
  <2> SUFFICES ASSUME j < k PROVE FALSE
    OBVIOUS
  <2>1. j + 1 \in 1..k /\ j < Len(string)
    BY <1>1
  <2> QED
    BY <2>1 DEF InFront
<1>3. ~(k < j)
  <2> SUFFICES ASSUME k < j PROVE FALSE
    OBVIOUS
  <2>1. k + 1 \in 1..j /\ k < Len(string)
    BY <1>1
  <2> QED
    BY <2>1 DEF InFront
<1> QED
  BY <1>1, <1>2, <1>3

\* What atoi makes of a text whose digits end at k.
LEMMA RunIs ==
    ASSUME NEW string \in Seq(Chars), NEW k, InFront(string, k)
    PROVE  Run(string) = k
<1>1. InFront(string, Run(string))
  BY DEF InFront, Run
<1> QED
  BY <1>1, DigitsEndOnce

LEMMA ParsedIs ==
    ASSUME NEW string \in Seq(Chars), NEW k, InFront(string, k)
    PROVE  Parsed(string) = LET some == {i \in 1..k : string[i] # Zero}
                            IN  IF some = {} THEN <<Zero>> ELSE SubSeq(string, Min(some), k)
<1>1. Run(string) = k
  BY RunIs
<1>2. PICK n : n = Run(string)
  OBVIOUS
<1>3. Parsed(string) = LET some == {i \in 1..n : string[i] # Zero}
                       IN  IF some = {} THEN <<Zero>> ELSE SubSeq(string, Min(some), n)
  BY <1>2 DEF Parsed
<1> QED
  BY <1>1, <1>2, <1>3

LEMMA ZeroIsNumber == <<Zero>> \in Numbers
<1>1. <<Zero>> \in [1..1 -> Digits \cup {Mark}] /\ 1 \in 1..MaxPrinted /\ Len(<<Zero>>) = 1
  BY PodAssumption, InputAssumption
<1> QED
  BY <1>1 DEF Numbers

LEMMA NumberIsText ==
    ASSUME NEW n \in Numbers
    PROVE  n \in Seq(Chars) /\ Len(n) \in 1..MaxPrinted /\ Len(n) < PodTmp
<1>1. PICK k \in 1..MaxPrinted : n \in [1..k -> Digits \cup {Mark}]
  BY DEF Numbers
<1>2. k \in Nat /\ k < PodTmp
  BY InputAssumption
<1> QED
  BY <1>1, <1>2 DEF Chars

\* A text of a number that is not too long is one.
LEMMA ParsedIsNumber ==
    ASSUME NEW string \in Seq(Chars), Len(Parsed(string)) <= MaxPrinted
    PROVE  Parsed(string) \in Numbers
<1>1. PICK k \in 0..Len(string) : InFront(string, k)
  BY DigitsEnd
<1> DEFINE some == {i \in 1..k : string[i] # Zero}
<1>2. Parsed(string) = IF some = {} THEN <<Zero>> ELSE SubSeq(string, Min(some), k)
  BY <1>1, ParsedIs
<1>3. CASE some = {}
  BY <1>2, <1>3, ZeroIsNumber
<1>4. CASE some # {}
  <2>1. Len(string) \in Nat
    BY LenProperties
  <2>2. some \in SUBSET Nat
    BY <2>1
  <2> DEFINE m == Min(some)
  <2>3. m \in some
    BY <1>4, <2>2, LeastOf
  <2> HIDE DEF m
  <2>4. m \in 1..k /\ k \in Nat /\ string[m] # Zero /\ k - m + 1 \in Nat \ {0}
    BY <2>1, <2>3
  <2> DEFINE n == SubSeq(string, m, k)
  <2>5. n = [i \in 1..(k - m + 1) |-> string[i + m - 1]]
    BY <2>4
  <2>6. ASSUME NEW i \in 1..(k - m + 1) PROVE string[i + m - 1] \in Digits \cup {Mark}
    <3>1. i + m - 1 \in 1..k
      BY <2>4
    <3> QED
      BY <1>1, <3>1 DEF InFront
  <2> HIDE DEF n
  <2>7. n \in [1..(k - m + 1) -> Digits \cup {Mark}]
    BY <2>5, <2>6
  <2>8. n[1] # Zero
    <3>1. 1 \in 1..(k - m + 1) /\ 1 + m - 1 = m
      BY <2>4
    <3>2. n[1] = string[1 + m - 1]
      BY <2>5, <3>1
    <3> QED
      BY <2>4, <3>1, <3>2
  <2>9. n = Parsed(string)
    BY <1>2, <1>4 DEF n, m
  <2>10. n \in Numbers
    <3> DEFINE l == k - m + 1
    <3>1. l \in Nat \ {0} /\ n \in [1..l -> Digits \cup {Mark}]
      BY <2>4, <2>7
    <3> HIDE DEF l
    <3>2. Len(n) = l
      BY <3>1
    <3>3. l \in 1..MaxPrinted
      BY <2>9, <3>1, <3>2, InputAssumption
    <3> QED
      BY <2>8, <3>1, <3>3 DEF Numbers
  <2> QED
    BY <2>9, <2>10
<1> QED
  BY <1>3, <1>4

\* What is read from a text is a number, ...
LEMMA ReadingsAreNumbers ==
    ASSUME NEW ty \in Numeric, NEW string \in Seq(Chars)
    PROVE  Readings(ty, string) \subseteq Numbers
<1>1. Precision[ty] \in 0..MaxPrinted
  BY PodAssumption
<1>2. CASE Len(Parsed(string)) <= Precision[ty]
  <2>1. PICK n : n = Len(Parsed(string))
    OBVIOUS
  <2>2. Len(Parsed(string)) \in Nat
    <3>1. PICK k \in 0..Len(string) : InFront(string, k)
      BY DigitsEnd
    <3>2. k \in Nat /\ Len(string) \in Nat
      BY LenProperties
    <3> DEFINE some == {i \in 1..k : string[i] # Zero}
    <3>3. Parsed(string) = IF some = {} THEN <<Zero>> ELSE SubSeq(string, Min(some), k)
      BY <3>1, ParsedIs
    <3>4. CASE some = {}
      BY <3>3, <3>4
    <3>5. CASE some # {}
      <4>1. some \in SUBSET Nat
        BY <3>2
      <4>2. PICK m : m = Min(some)
        OBVIOUS
      <4>3. m \in 1..k
        BY <3>5, <4>1, <4>2, LeastOf
      <4> HIDE DEF some
      <4> QED
        BY <3>2, <3>3, <3>5, <4>2, <4>3
    <3> QED
      BY <3>4, <3>5
  <2>3. Len(Parsed(string)) <= MaxPrinted
    BY <1>1, <1>2, <2>2, InputAssumption
  <2>4. Parsed(string) \in Numbers
    BY <2>3, ParsedIsNumber
  <2> QED
    BY <2>4 DEF Readings
<1>3. CASE ~(Len(Parsed(string)) <= Precision[ty])
  BY <1>3 DEF Readings
<1> QED
  BY <1>2, <1>3

\* ... and depends on what is behind the text only when that goes on as a number.
LEMMA ReadingEnds ==
    ASSUME NEW ty, NEW string \in Seq(Chars), NEW rest \in Seq(Chars),
           rest = <<>> \/ rest[1] \notin Digits \cup {Mark}
    PROVE  Readings(ty, string \o rest) = Readings(ty, string)
<1> DEFINE long == string \o rest
<1>1. /\ Len(string) \in Nat /\ Len(rest) \in Nat
      /\ long \in Seq(Chars) /\ Len(long) = Len(string) + Len(rest)
      /\ \A i \in 1..Len(long) : long[i] = IF i <= Len(string) THEN string[i] ELSE rest[i - Len(string)]
  BY LenProperties, ConcatProperties
<1> HIDE DEF long
<1>2. PICK k \in 0..Len(string) : InFront(string, k)
  BY DigitsEnd
<1>3. /\ k \in Nat /\ k <= Len(string)
      /\ \A i \in 1..k : string[i] \in Digits
      /\ k < Len(string) => string[k + 1] \notin Digits
  BY <1>1, <1>2 DEF InFront
<1>4. \A i \in 1..k : long[i] = string[i]
  BY <1>1, <1>3
<1>5. k < Len(string) => k < Len(long) /\ long[k + 1] = string[k + 1]
  BY <1>1, <1>3
<1>6. k = Len(string) /\ k < Len(long) => long[k + 1] \notin Digits \cup {Mark}
  <2> SUFFICES ASSUME k = Len(string), k < Len(long) PROVE long[k + 1] \notin Digits \cup {Mark}
    OBVIOUS
  <2>1. Len(rest) > 0 /\ k + 1 \in 1..Len(long) /\ k + 1 - Len(string) = 1 /\ ~(k + 1 <= Len(string))
    BY <1>1, <1>3
  <2>2. long[k + 1] = rest[1]
    BY <1>1, <2>1
  <2>3. rest # <<>>
    BY <2>1
  <2> QED
    BY <2>2, <2>3
<1>7. k \in 0..Len(long)
  BY <1>1, <1>3
<1>8. InFront(long, k)
  <2>1. \A i \in 1..k : long[i] \in Digits
    BY <1>3, <1>4
  <2>2. k < Len(long) => long[k + 1] \notin Digits
    BY <1>1, <1>3, <1>5, <1>6
  <2> QED
    BY <1>7, <2>1, <2>2 DEF InFront
<1>9. Run(string) = k /\ Run(long) = k
  BY <1>1, <1>2, <1>8, RunIs
<1>10. Parsed(long) = Parsed(string)
  <2> DEFINE some(x) == {i \in 1..k : x[i] # Zero}
  <2>1. some(long) = some(string)
    BY <1>4
  <2>2. /\ Parsed(string) = IF some(string) = {} THEN <<Zero>> ELSE SubSeq(string, Min(some(string)), k)
        /\ Parsed(long) = IF some(long) = {} THEN <<Zero>> ELSE SubSeq(long, Min(some(long)), k)
    BY <1>1, <1>2, <1>8, ParsedIs
  <2>3. CASE some(string) = {}
    BY <2>1, <2>2, <2>3
  <2>4. CASE some(string) # {}
    <3>1. some(string) \in SUBSET Nat
      BY <1>3
    <3>2. PICK m : m = Min(some(string))
      OBVIOUS
    <3>3. m \in 1..k
      BY <2>4, <3>1, <3>2, LeastOf
    <3> HIDE DEF some
    <3>4. /\ SubSeq(string, m, k) = [i \in 1..(k - m + 1) |-> string[i + m - 1]]
          /\ SubSeq(long, m, k) = [i \in 1..(k - m + 1) |-> long[i + m - 1]]
      BY <1>1, <1>3, <3>3
    <3>5. \A i \in 1..(k - m + 1) : long[i + m - 1] = string[i + m - 1]
      BY <1>3, <1>4, <3>3
    <3>6. SubSeq(long, m, k) = SubSeq(string, m, k)
      BY <3>4, <3>5
    <3> QED
      BY <2>1, <2>2, <2>4, <3>2, <3>6
  <2> QED
    BY <2>3, <2>4
<1>11. (Run(long) < Len(long) => long[Run(long) + 1] # Mark)
          <=> (Run(string) < Len(string) => string[Run(string) + 1] # Mark)
  BY <1>1, <1>3, <1>5, <1>6, <1>9
<1> QED
  BY <1>9, <1>10, <1>11 DEF Readings, long

\* Putting bytes anywhere behind what is there but no further.
LEMMA PutIs ==
    ASSUME NEW to \in Seq(Chars), NEW off \in Nat, NEW buf \in Seq(Chars), off <= Len(to)
    PROVE  /\ Put(to, off, buf) \in Seq(Chars)
           /\ Len(Put(to, off, buf)) = IF Len(to) >= off + Len(buf) THEN Len(to) ELSE off + Len(buf)
           /\ \A i \in 1..Len(Put(to, off, buf)) :
                 Put(to, off, buf)[i] = IF i > off /\ i <= off + Len(buf) THEN buf[i - off] ELSE to[i]
<1>1. Len(to) \in Nat /\ Len(buf) \in Nat
  BY LenProperties
<1> DEFINE end == off + Len(buf)
           n   == IF Len(to) >= end THEN Len(to) ELSE end
           new == [i \in 1..n |-> IF i \in (off + 1)..end THEN buf[i - off] ELSE to[i]]
<1>2. Max({Len(to), end}) = n
  <2>1. Len(to) \in Int /\ end \in Int
    BY <1>1
  <2> HIDE DEF end
  <2>2. Max({Len(to), end}) \in {Len(to), end} /\ Max({Len(to), end}) >= Len(to)
        /\ Max({Len(to), end}) >= end
    BY <2>1, MaxOfTwo, Zenon
  <2> QED
    BY <2>1, <2>2
<1>3. Put(to, off, buf) = new
  BY <1>2 DEF Put
<1>4. n \in Nat
  BY <1>1
<1>5. ASSUME NEW i \in 1..n
      PROVE  (IF i \in (off + 1)..end THEN buf[i - off] ELSE to[i]) \in Chars
  <2>1. CASE i \in (off + 1)..end
    <3>1. i - off \in 1..Len(buf)
      BY <1>1, <2>1
    <3> QED
      BY <2>1, <3>1, ElementOfSeq
  <2>2. CASE i \notin (off + 1)..end
    <3>1. i \in 1..Len(to)
      BY <1>1, <2>2
    <3> QED
      BY <2>2, <3>1, ElementOfSeq
  <2> QED
    BY <2>1, <2>2
<1>6. ASSUME NEW i \in 1..n
      PROVE  new[i] = IF i > off /\ i <= off + Len(buf) THEN buf[i - off] ELSE to[i]
  <2>1. i \in (off + 1)..end <=> i > off /\ i <= off + Len(buf)
    BY <1>1, <1>4
  <2> QED
    BY <2>1
<1> HIDE DEF n
<1>7. new \in [1..n -> Chars]
  BY <1>5
<1>8. new \in Seq(Chars) /\ Len(new) = n
  BY <1>4, <1>7
<1> QED
  BY <1>3, <1>6, <1>8 DEF n

\* The text of a number after a write, character by character.
LEMMA RewrittenIs ==
    ASSUME NEW string \in Seq(Chars), NEW off \in Nat, NEW buf \in Seq(Chars)
    PROVE  LET new == Rewritten(string, off, buf)
               end == off + Len(buf)
           IN  /\ new \in Seq(Chars)
               /\ Len(new) = IF Len(string) >= end THEN Len(string) ELSE end
               /\ \A i \in 1..Len(new) :
                     new[i] = IF i > off /\ i <= end THEN buf[i - off]
                              ELSE IF i <= Len(string) THEN string[i] ELSE Zero
<1>1. Len(string) \in Nat /\ Len(buf) \in Nat
  BY LenProperties
<1> DEFINE gap   == off - Len(string)
           more  == IF gap > 0 THEN gap ELSE 0
           zeros == [i \in 1..more |-> Zero]
           pad   == Padded(string, off)
<1>2. gap \in Int /\ more \in Nat
  BY <1>1
<1>3. Max({0, gap}) = more
  <2> HIDE DEF gap
  <2>0. 0 \in Int /\ gap \in Int
    BY <1>2
  <2>1. Max({0, gap}) \in {0, gap} /\ Max({0, gap}) >= 0 /\ Max({0, gap}) >= gap
    BY <2>0, MaxOfTwo, Zenon
  <2> QED
    BY <1>2, <2>1
<1>4. pad = string \o zeros
  <2> HIDE DEF more
  <2> QED
    BY <1>3 DEF Padded
<1>5. zeros \in Seq(Chars) /\ Len(zeros) = more /\ \A i \in 1..more : zeros[i] = Zero
  <2> HIDE DEF more
  <2>1. zeros \in [1..more -> Chars]
    BY PodAssumption DEF Chars
  <2> QED
    BY <1>2, <2>1
<1> HIDE DEF zeros, pad
<1>6. /\ pad \in Seq(Chars) /\ Len(pad) = Len(string) + more
      /\ \A i \in 1..Len(pad) : pad[i] = IF i <= Len(string) THEN string[i] ELSE zeros[i - Len(string)]
  BY <1>4, <1>5, ConcatProperties
<1>7. ASSUME NEW i \in 1..Len(pad)
      PROVE  pad[i] = IF i <= Len(string) THEN string[i] ELSE Zero
  <2> DEFINE l == Len(string)
  <2>1. l \in Nat /\ i \in 1..(l + more) /\ pad[i] = IF i <= l THEN string[i] ELSE zeros[i - l]
    BY <1>1, <1>6
  <2> HIDE DEF l, more
  <2>2. i > l => i - l \in 1..more
    BY <1>2, <2>1
  <2>3. ~(i <= l) => zeros[i - l] = Zero
    BY <1>5, <2>1, <2>2
  <2> QED
    BY <2>1, <2>3 DEF l
<1>8. off <= Len(pad) /\ Len(pad) \in Nat
  BY <1>1, <1>2, <1>6
<1> DEFINE new == Put(pad, off, buf)
<1>9. /\ new \in Seq(Chars)
      /\ Len(new) = IF Len(pad) >= off + Len(buf) THEN Len(pad) ELSE off + Len(buf)
      /\ \A i \in 1..Len(new) : new[i] = IF i > off /\ i <= off + Len(buf) THEN buf[i - off] ELSE pad[i]
  BY <1>6, <1>8, PutIs
<1> HIDE DEF new
<1>10. Len(new) = IF Len(string) >= off + Len(buf) THEN Len(string) ELSE off + Len(buf)
  BY <1>1, <1>6, <1>9
<1>11. ASSUME NEW i \in 1..Len(new)
       PROVE  new[i] = IF i > off /\ i <= off + Len(buf) THEN buf[i - off]
                       ELSE IF i <= Len(string) THEN string[i] ELSE Zero
  <2>1. CASE i > off /\ i <= off + Len(buf)
    BY <1>9, <2>1
  <2>2. CASE ~(i > off /\ i <= off + Len(buf))
    <3>1. i \in 1..Len(pad)
      BY <1>1, <1>2, <1>6, <1>8, <1>9, <2>2
    <3>2. new[i] = pad[i]
      BY <1>9, <2>2
    <3> QED
      BY <1>7, <2>2, <3>1, <3>2
  <2> QED
    BY <2>1, <2>2
<1>12. Rewritten(string, off, buf) = new
  BY DEF Rewritten, pad, new
<1> QED
  BY <1>9, <1>10, <1>11, <1>12

\* PodRegister says the same of a number after a write.
LEMMA NumbersAfterIs ==
    ASSUME NEW v \in Seq(Chars), NEW off \in Nat, NEW buf \in Seq(Chars)
    PROVE  Register!NumbersAfter(v, off, buf) = Readings(type, Rewritten(v, off, buf))
<1> DEFINE at(i)  == IF i > off /\ i <= off + Len(buf) THEN buf[i - off]
                     ELSE IF i <= Len(v) THEN v[i] ELSE Zero
           len    == Max({Len(v), off + Len(buf)})
           good   == {n \in 0..len : \A i \in 1..n : at(i) \in Digits}
           run    == Max(good)
           lead   == {i \in 1..run : at(i) # Zero}
           number == IF lead = {} THEN <<Zero>>
                     ELSE [i \in 1..(run - Min(lead) + 1) |-> at(i + Min(lead) - 1)]
           plain  == run > 0 /\ (run < len => at(run + 1) # Mark)
<1>1. Register!NumbersAfter(v, off, buf) =
          IF plain /\ Len(number) <= Precision[type] THEN {number} ELSE Numbers
  BY DEF Register!NumbersAfter, Register!Max, Register!Min, Register!Numbers, Numbers, Max, Min
<1> HIDE DEF at, len
<1>2. PICK new : new = Rewritten(v, off, buf)
  OBVIOUS
<1>3. Len(v) \in Nat /\ Len(buf) \in Nat
  BY LenProperties
<1>4. new \in Seq(Chars) /\ Len(new) = len /\ len \in Nat
  <2> DEFINE end == off + Len(buf)
  <2>1. /\ new \in Seq(Chars)
        /\ Len(new) = IF Len(v) >= end THEN Len(v) ELSE end
    BY <1>2, RewrittenIs
  <2>2. Len(v) \in Int /\ end \in Int
    BY <1>3
  <2> HIDE DEF end
  <2>3. Max({Len(v), end}) \in {Len(v), end} /\ Max({Len(v), end}) >= Len(v)
        /\ Max({Len(v), end}) >= end
    BY <2>2, MaxOfTwo, Zenon
  <2>4. Len(new) = Max({Len(v), end}) /\ Len(new) \in Nat
    BY <2>1, <2>2, <2>3, LenProperties
  <2> QED
    BY <2>1, <2>4 DEF len, end
<1>5. \A i \in 1..len : new[i] = at(i)
  BY <1>2, <1>4, RewrittenIs DEF at
<1>6. PICK k \in 0..len : InFront(new, k)
  BY <1>4, DigitsEnd
<1>7. good = {n \in 0..len : \A i \in 1..n : new[i] \in Digits}
  <2>1. ASSUME NEW n \in 0..len
        PROVE  (\A i \in 1..n : at(i) \in Digits) <=> (\A i \in 1..n : new[i] \in Digits)
    <3>1. \A i \in 1..n : i \in 1..len
      BY <1>4
    <3> QED
      BY <1>5, <3>1
  <2> QED
    BY <2>1
<1> HIDE DEF good
<1>8. run = k
  <2>1. k \in good
    BY <1>6, <1>7 DEF InFront
  <2>2. ASSUME NEW n \in good PROVE k >= n
    <3> SUFFICES ASSUME n > k PROVE FALSE
      BY <1>4, <1>7
    <3>1. n \in 0..len /\ \A i \in 1..n : new[i] \in Digits
      BY <1>7
    <3>2. k + 1 \in 1..n /\ k < Len(new)
      BY <1>4, <3>1
    <3> QED
      BY <1>6, <3>1, <3>2 DEF InFront
  <2>3. \A n \in good : n \in Int
    BY <1>4, <1>7
  <2>4. /\ Max(good) \in good
        /\ \A n \in good : Max(good) >= n
    BY <2>1, <2>2 DEF Max
  <2>5. PICK x \in good : x = Max(good)
    BY <2>4
  <2>6. x >= k /\ k >= x /\ x \in Int /\ k \in Int
    BY <1>4, <2>1, <2>2, <2>3, <2>4, <2>5
  <2>7. x = k
    BY <2>6
  <2> QED
    BY <2>5, <2>7
<1> DEFINE some == {i \in 1..k : new[i] # Zero}
<1> HIDE DEF run
<1>9. lead = some
  <2>1. \A i \in 1..k : new[i] = at(i)
    BY <1>4, <1>5
  <2> QED
    BY <1>8, <2>1
<1>10. Parsed(new) = IF some = {} THEN <<Zero>> ELSE SubSeq(new, Min(some), k)
  BY <1>4, <1>6, ParsedIs
<1> HIDE DEF lead
<1>11. number = Parsed(new)
  <2>1. CASE some = {}
    BY <1>9, <1>10, <2>1
  <2>2. CASE some # {}
    <3>1. some \in SUBSET Nat
      BY <1>4
    <3>2. PICK m : m = Min(some)
      OBVIOUS
    <3>3. m \in 1..k
      BY <2>2, <3>1, <3>2, LeastOf
    <3> HIDE DEF some
    <3>4. SubSeq(new, m, k) = [i \in 1..(k - m + 1) |-> new[i + m - 1]]
      BY <1>4, <3>3
    <3>5. \A i \in 1..(k - m + 1) : new[i + m - 1] = at(i + m - 1)
      BY <1>4, <1>5, <3>3
    <3>6. SubSeq(new, m, k) = [i \in 1..(k - m + 1) |-> at(i + m - 1)]
      BY <3>4, <3>5
    <3>7. number = [i \in 1..(k - m + 1) |-> at(i + m - 1)]
      BY <1>8, <1>9, <2>2, <3>2
    <3> QED
      BY <1>10, <2>2, <3>2, <3>6, <3>7
  <2> QED
    BY <2>1, <2>2
<1>12. Run(new) = k
  BY <1>4, <1>6, RunIs
<1>13. plain <=> Run(new) > 0 /\ (Run(new) < Len(new) => new[Run(new) + 1] # Mark)
  <2>1. k < len => new[k + 1] = at(k + 1)
    BY <1>4, <1>5
  <2> QED
    BY <1>4, <1>8, <1>12, <2>1
<1> HIDE DEF number, plain
<1> QED
  BY <1>1, <1>2, <1>11, <1>13 DEF Readings

-----------------------------------------------------------------------------
(* What procfuse_copyPOD writes to a string                                *)

\* A POD of that type, as the application hands it over.
IsPOD(as, pod) ==
    CASE as = "char" -> pod \in Chars
      [] as \in Numeric -> pod \in Numbers
      [] as = "string" -> pod.w \in Seq(Chars)

LEMMA PutIntoMapped ==
    ASSUME NEW pod, Mapped(pod), NEW off \in Nat, NEW buf \in Seq(Chars),
           off + Len(buf) <= MapSize, NEW n \in 0..MapSize
    PROVE  /\ Mapped([pod EXCEPT !.r = Put(@, off, buf)])
           /\ Mapped([pod EXCEPT !.r = Put(@, off, buf), !.length_r = n])
<1> DEFINE new == Put(pod.r, off, buf)
<1>1. new \in Seq(Chars) /\ Len(new) = MapSize
  BY PutWithin DEF Mapped
<1> HIDE DEF new
<1>2. Mapped([pod EXCEPT !.r = new]) /\ Mapped([pod EXCEPT !.r = new, !.length_r = n])
  BY <1>1, StaysMapped
<1> QED
  BY <1>2 DEF new

\* snprintf writes at most length_r bytes, the NUL among them.
LEMMA SnprintfMapped ==
    ASSUME NEW dst, Mapped(dst), NEW printed \in Seq(Chars)
    PROVE  Mapped(Snprintf(dst, printed))
<1> DEFINE n    == Min({Len(printed), dst.length_r - 1})
           fits == SubSeq(printed, 1, n)
<1>1. Len(printed) \in Nat /\ dst.length_r \in 0..MapSize /\ MapSize \in Nat
  BY LenProperties, InputAssumption DEF Mapped
<1>2. CASE dst.length_r = 0
  BY <1>2 DEF Snprintf
<1>3. CASE dst.length_r # 0
  <2>1. n \in Nat /\ n <= Len(printed) /\ n <= dst.length_r - 1
    <3> DEFINE room == dst.length_r - 1
    <3>1. Len(printed) \in Int /\ room \in Int /\ room >= 0 /\ Len(printed) >= 0
      BY <1>1, <1>3
    <3> HIDE DEF room
    <3>2. LET m == Min({Len(printed), room})
          IN  m \in {Len(printed), room} /\ m <= Len(printed) /\ m <= room
      BY <3>1, MinOfTwo, Zenon
    <3>3. LET m == Min({Len(printed), room})
          IN  m \in Nat /\ m <= Len(printed) /\ m <= room
      BY <3>1, <3>2
    <3> QED
      BY <3>3 DEF room
  <2> HIDE DEF n
  <2>2. \A i \in 1..n : printed[i] \in Chars
    BY <1>1, <2>1, ElementOfSeq
  <2>3. fits \in Seq(Chars) /\ Len(fits) = n
    BY <2>1, <2>2, SubSeqProperties
  <2> HIDE DEF fits
  <2>4. <<NUL>> \in Seq(Chars) /\ Len(<<NUL>>) = 1
    BY DEF Chars
  <2>5. fits \o <<NUL>> \in Seq(Chars) /\ Len(fits \o <<NUL>>) = n + 1
    BY <2>3, <2>4, ConcatProperties
  <2>6. 0 + Len(fits \o <<NUL>>) <= MapSize
    BY <1>1, <2>1, <2>5
  <2>7. Mapped([dst EXCEPT !.r = Put(@, 0, fits \o <<NUL>>)])
    BY <1>1, <2>5, <2>6, PutIntoMapped
  <2> QED
    BY <1>3, <2>7 DEF Snprintf, fits, n
<1> QED
  BY <1>2, <1>3

LEMMA PrintedIsMapped ==
    ASSUME NEW dst, Mapped(dst), NEW printed \in Seq(Chars), NEW done \in PrintedInto(dst, printed)
    PROVE  Mapped(done.pod)
<1> DEFINE pod == Snprintf(dst, printed)
<1>1. Mapped(pod)
  BY SnprintfMapped
<1>2. Len(printed) \in Nat /\ dst.length_r \in 0..MapSize /\ MapSize \in Nat
  BY LenProperties, InputAssumption DEF Mapped
<1> HIDE DEF pod
<1>3. Len(printed) < dst.length_r => Mapped([pod EXCEPT !.length_r = Len(printed)])
  BY <1>1, <1>2 DEF Mapped
<1>4. done.pod = IF Len(printed) < dst.length_r THEN [pod EXCEPT !.length_r = Len(printed)] ELSE pod
  BY DEF PrintedInto, Copied, pod
<1> QED
  BY <1>1, <1>3, <1>4

LEMMA CopyIsMapped ==
    ASSUME NEW dst, Mapped(dst), NEW as \in Types, NEW src, IsPOD(as, src),
           NEW done \in CopyPOD("string", dst, as, src)
    PROVE  Mapped(done.pod)
<1>1. dst.length_r \in 0..MapSize /\ MapSize \in Nat
  BY InputAssumption DEF Mapped
<1>2. CASE as = "string"
  <2>1. src.w \in Seq(Chars) /\ Len(src.w) \in Nat
    BY <1>2, LenProperties DEF IsPOD, Numeric
  <2>2. done \in StringInto(dst, src.w)
    BY <1>2 DEF CopyPOD, FromString
  <2>3. CASE dst.length_r >= Len(src.w)
    <3>1. Mapped([dst EXCEPT !.r = Put(@, 0, src.w), !.length_r = Len(src.w)])
      <4>1. 0 + Len(src.w) <= MapSize /\ Len(src.w) \in 0..MapSize
        BY <1>1, <2>1, <2>3
      <4> QED
        BY <2>1, <4>1, PutIntoMapped
    <3> QED
      BY <2>2, <2>3, <3>1 DEF StringInto, Copied
  <2>4. CASE ~(dst.length_r >= Len(src.w))
    BY <2>2, <2>4 DEF StringInto, Refused
  <2> QED
    BY <2>3, <2>4
<1>3. CASE as = "char"
  <2>1. <<src>> \in Seq(Chars) /\ Len(<<src>>) = 1
    <3>1. src \in Chars
      BY <1>3 DEF IsPOD, Numeric
    <3> QED
      BY <3>1
  <2>2. done \in CharInto(dst, src)
    BY <1>3 DEF CopyPOD
  <2>3. CASE dst.length_r >= 1
    <3>1. Mapped([dst EXCEPT !.r = Put(@, 0, <<src>>), !.length_r = 1])
      <4>1. 0 + Len(<<src>>) <= MapSize /\ 1 \in 0..MapSize
        BY <1>1, <2>1, <2>3
      <4> QED
        BY <2>1, <4>1, PutIntoMapped
    <3> QED
      BY <2>2, <2>3, <3>1 DEF CharInto, Copied
  <2>4. CASE ~(dst.length_r >= 1)
    BY <2>2, <2>4 DEF CharInto, Refused
  <2> QED
    BY <2>3, <2>4
<1>4. CASE as \in Numeric
  <2>1. src \in Seq(Chars)
    BY <1>4, NumberIsText DEF IsPOD, Numeric
  <2>2. done \in PrintedInto(dst, src)
    BY <1>4 DEF CopyPOD, Numeric
  <2> QED
    BY <2>1, <2>2, PrintedIsMapped
<1> QED
  BY <1>2, <1>3, <1>4 DEF Types

\* A number stays one, ...
LEMMA CopyIsNumber ==
    ASSUME NEW ty \in Numeric, NEW dst, NEW as \in Types, NEW src, IsPOD(as, src),
           NEW done \in CopyPOD(ty, dst, as, src)
    PROVE  done.pod \in Numbers \/ done = [rval |-> 0, pod |-> dst]
<1>1. ty # "string" /\ ty # "char"
  BY DEF Numeric
<1>2. CASE as = "string"
  BY <1>1, <1>2 DEF CopyPOD, FromString, Refused
<1>3. CASE as # "string" /\ ty \notin Widens[as]
  BY <1>1, <1>3 DEF CopyPOD, ScalarInto, Refused
<1>4. CASE as # "string" /\ ty \in Widens[as]
  <2> DEFINE n == IF as = "char" THEN Code[src] ELSE src
  <2>1. as = "char" => src \in Chars
    BY DEF IsPOD, Numeric
  <2>2. as # "char" => src \in Numbers
    BY <1>4 DEF IsPOD, Types
  <2>3. n \in Numbers
    BY <2>1, <2>2, InputAssumption
  <2> HIDE DEF n
  <2>4. Casts(ty, as, n) \subseteq Numbers
    BY <2>3 DEF Casts
  <2>5. CopyPOD(ty, dst, as, src) = {[rval |-> 1, pod |-> m] : m \in Casts(ty, as, n)}
    BY <1>1, <1>4 DEF CopyPOD, ScalarInto, n
  <2>6. PICK m \in Casts(ty, as, n) : done = [rval |-> 1, pod |-> m]
    BY <2>5
  <2> QED
    BY <2>4, <2>6
<1> QED
  BY <1>2, <1>3, <1>4

\* ... and a character a character.
LEMMA CopyIsChar ==
    ASSUME NEW dst, NEW as \in Types, NEW src, IsPOD(as, src),
           NEW done \in CopyPOD("char", dst, as, src)
    PROVE  done.pod \in Chars \/ done = [rval |-> 0, pod |-> dst]
<1>1. CASE as = "string"
  <2>1. src.w \in Seq(Chars)
    BY <1>1 DEF IsPOD, Numeric
  <2>2. Len(src.w) = 1 => src.w[1] \in Chars
    BY <2>1, ElementOfSeq
  <2> QED
    BY <1>1, <2>2 DEF CopyPOD, FromString, Refused, Copied
<1>2. CASE as = "char"
  <2>1. src \in Chars
    BY <1>2 DEF IsPOD, Numeric
  <2>2. Casts("char", "char", src) = {src} /\ "char" \in Widens["char"]
    BY DEF Casts, Widens
  <2> QED
    BY <1>2, <2>1, <2>2 DEF CopyPOD, ScalarInto
<1>3. CASE as \in Numeric
  <2>1. as # "char" /\ as # "string"
    BY <1>3 DEF Numeric
  <2>2. /\ "char" \notin Widens["int"] /\ "char" \notin Widens["int64"]
        /\ "char" \notin Widens["float"] /\ "char" \notin Widens["double"]
        /\ "char" \notin Widens["longdouble"]
    BY DEF Widens, Numeric
  <2>3. "char" \notin Widens[as]
    BY <1>3, <2>2 DEF Numeric
  <2> QED
    BY <2>1, <2>3 DEF CopyPOD, ScalarInto, Refused
<1> QED
  BY <1>1, <1>2, <1>3 DEF Types

-----------------------------------------------------------------------------
(* What is left of a handler                                               *)

FetchHold == Hold("W", "fetch")
PutHold   == Hold("W", "put")
CheckHold == Hold("W", "check")
StoreHold == Hold("R", "store")
AskHold   == Hold("R", "ask")
ClearHold == Hold("W", "clear")

\* Nothing, or only the downgrade: the call has acted.
Over == {<<>>, <<R>>}

\* onModify agrees, to a length that is not too long.
Agreed(ty, c) == c.agrees /\ (ty = "string" => c.off <= MapSize)

\* The holds a call c may have before it when it has not acted yet.
Ahead(ty, c) ==
    CASE c.op = "read" -> {<<R, FetchHold, R>>, <<FetchHold, R>>}
      [] c.op = "write" /\ ty \notin Numeric ->
             {<<R, W, R, PutHold, R>>, <<W, R, PutHold, R>>, <<R, PutHold, R>>, <<PutHold, R>>}
      [] c.op = "write" /\ ty \in Numeric ->
             {<<R, W, R, CheckHold, FetchHold, StoreHold, R>>,
              <<W, R, CheckHold, FetchHold, StoreHold, R>>,
              <<R, CheckHold, FetchHold, StoreHold, R>>,
              <<CheckHold, FetchHold, StoreHold, R>>}
             \cup {s \in {<<FetchHold, StoreHold, R>>, <<StoreHold, R>>} : c.off < PodTmp}
      [] c.op = "truncate" ->
             {<<R, W, AskHold, ClearHold, R>>, <<W, AskHold, ClearHold, R>>, <<AskHold, ClearHold, R>>}
             \cup {s \in {<<ClearHold, R>>} : Agreed(ty, c)}
      [] c.op \in {"get", "put"} -> {<<Hold("R", c.op)>>}

\* What the hold at hand says of its call, and what comes after it.
Now(ty, c, s) ==
    /\ Head(s).m \in {"R", "W"}
    /\ Head(s).what \in {"pass", "fetch", "put", "check", "store", "ask", "clear", "get"}
    /\ Head(s).what = "pass" =>
           s = <<R>> \/ (Tail(s) \in Ahead(ty, c) /\ Tail(s) # <<StoreHold, R>>)
    /\ Head(s).what = "fetch" =>
           /\ Head(s).m = "W"
           /\ \/ c.op = "read" /\ Tail(s) = <<R>>
              \/ c.op = "write" /\ ty \in Numeric /\ c.off < PodTmp /\ Tail(s) = <<StoreHold, R>>
    /\ Head(s).what = "put" =>
           \/ c.op = "put" /\ Tail(s) = <<>>
           \/ c.op = "write" /\ ty \notin Numeric /\ Head(s).m = "W" /\ Tail(s) = <<R>>
    /\ Head(s).what = "check" =>
           c.op = "write" /\ ty \in Numeric /\ Tail(s) = <<FetchHold, StoreHold, R>>
    /\ Head(s).what = "store" =>
           c.op = "write" /\ ty \in Numeric /\ c.off < PodTmp /\ s = <<StoreHold, R>> /\ Tail(s) = <<R>>
    /\ Head(s).what = "ask" => c.op = "truncate" /\ Tail(s) = <<ClearHold, R>>
    /\ Head(s).what = "clear" => c.op = "truncate" /\ Agreed(ty, c) /\ Head(s).m = "W" /\ Tail(s) = <<R>>
    /\ Head(s).what = "get" => c.op = "get" /\ Tail(s) = <<>>

LEMMA Kinds ==
    ASSUME NEW c \in Calls
    PROVE  c.op \in {"read", "write", "truncate", "get", "put"}
BY DEF Calls, Reads, Writes, Truncates, Gets, Puts

\* A call that has not acted has something left to do.
LEMMA AheadIsNotOver ==
    ASSUME NEW ty, NEW c \in Calls, NEW s \in Ahead(ty, c)
    PROVE  s \notin Over
<1>1. (s = <<>> => Len(s) = 0) /\ (s = <<R>> => Len(s) = 1)
  OBVIOUS
<1>2. CASE Len(s) > 1
  <2> DEFINE n == Len(s)
  <2>1. n > 1 /\ (s = <<>> => n = 0) /\ (s = <<R>> => n = 1)
    BY <1>1, <1>2
  <2> HIDE DEF n
  <2>2. n # 0 /\ n # 1
    BY <2>1
  <2> QED
    BY <2>1, <2>2, Zenon DEF Over
<1>3. CASE c.op = "read"
  <2>1. Len(s) \in {3, 2}
    BY <1>3 DEF Ahead
  <2> QED
    BY <1>2, <2>1
<1>4. CASE c.op = "write" /\ ty \notin Numeric
  <2>1. Len(s) \in {5, 4, 3, 2}
    BY <1>4 DEF Ahead
  <2> QED
    BY <1>2, <2>1
<1>5. CASE c.op = "write" /\ ty \in Numeric
  <2>1. Len(s) \in {7, 6, 5, 4, 3, 2}
    BY <1>5 DEF Ahead
  <2> QED
    BY <1>2, <2>1
<1>6. CASE c.op = "truncate"
  <2>1. Len(s) \in {5, 4, 3, 2}
    BY <1>6 DEF Ahead
  <2> QED
    BY <1>2, <2>1
<1>7. CASE c.op \in {"get", "put"}
  <2>1. s = <<Hold("R", c.op)>>
    BY <1>7 DEF Ahead
  <2>2. Head(s).what = c.op /\ Head(<<R>>).what = "pass" /\ Len(s) = 1
    BY <2>1 DEF R, Hold
  <2> QED
    BY <1>1, <1>7, <2>2 DEF Over
<1> QED
  BY <1>3, <1>4, <1>5, <1>6, <1>7, Kinds

LEMMA HoldsAhead ==
    ASSUME NEW c \in Calls
    PROVE  Holds(c) \in Ahead(type, c)
<1>1. CASE c.op = "read"
  BY <1>1 DEF Ahead, Holds, ReadHolds, FetchHold
<1>2. CASE c.op = "write" /\ type \notin Numeric
  BY <1>2 DEF Ahead, Holds, BytesHolds, PutHold
<1>3. CASE c.op = "write" /\ type \in Numeric
  BY <1>3 DEF Ahead, Holds, NumberHolds, CheckHold, FetchHold, StoreHold
<1>4. CASE c.op = "truncate"
  BY <1>4 DEF Ahead, Holds, TruncateHolds, AskHold, ClearHold
<1>5. CASE c.op \in {"get", "put"}
  BY <1>5 DEF Ahead, Holds
<1> QED
  BY <1>1, <1>2, <1>3, <1>4, <1>5, Kinds

LEMMA HoldFields ==
    /\ R.m = "R" /\ R.what = "pass" /\ W.m = "W" /\ W.what = "pass"
    /\ FetchHold.m = "W" /\ FetchHold.what = "fetch"
    /\ PutHold.m = "W" /\ PutHold.what = "put"
    /\ CheckHold.m = "W" /\ CheckHold.what = "check"
    /\ StoreHold.m = "R" /\ StoreHold.what = "store"
    /\ AskHold.m = "R" /\ AskHold.what = "ask"
    /\ ClearHold.m = "W" /\ ClearHold.what = "clear"
BY DEF R, W, FetchHold, PutHold, CheckHold, StoreHold, AskHold, ClearHold, Hold

LEMMA NotStore ==
    ASSUME NEW s, Head(s).what # "store"
    PROVE  s # <<StoreHold, R>>
<1>1. Head(<<StoreHold, R>>).what = "store"
  BY DEF StoreHold, Hold
<1> QED
  BY <1>1

LEMMA StoreIsElsewhere ==
    \A s \in {<<>>, <<R>>, <<FetchHold, StoreHold, R>>, <<ClearHold, R>>} : s # <<StoreHold, R>>
<1>1. <<>> # <<StoreHold, R>>
  OBVIOUS
<1>2. ASSUME NEW s \in {<<R>>, <<FetchHold, StoreHold, R>>, <<ClearHold, R>>}
      PROVE  s # <<StoreHold, R>>
  <2>1. Head(s) \in {R, FetchHold, ClearHold}
    BY <1>2
  <2>2. Head(s).what # "store"
    BY <2>1, HoldFields
  <2> QED
    BY <2>2, NotStore
<1> QED
  BY <1>1, <1>2

LEMMA PassNow ==
    ASSUME NEW ty, NEW c, NEW s, Head(s).m \in {"R", "W"}, Head(s).what = "pass",
           s = <<R>> \/ (Tail(s) \in Ahead(ty, c) /\ Tail(s) # <<StoreHold, R>>)
    PROVE  Now(ty, c, s)
<1>1. /\ Head(s).what # "fetch" /\ Head(s).what # "put" /\ Head(s).what # "check"
      /\ Head(s).what # "store" /\ Head(s).what # "ask" /\ Head(s).what # "clear"
      /\ Head(s).what # "get"
  OBVIOUS
<1>2. Head(s).what \in {"pass", "fetch", "put", "check", "store", "ask", "clear", "get"}
  OBVIOUS
<1> QED
  BY <1>1, <1>2, Zenon DEF Now

LEMMA HoldAtHand ==
    ASSUME NEW ty, NEW c \in Calls, NEW s \in Over \cup Ahead(ty, c), s # <<>>
    PROVE  Now(ty, c, s)
<1>1. CASE s = <<R>>
  <2>1. Head(s) = R
    BY <1>1
  <2>2. Head(s).m = "R" /\ Head(s).what = "pass"
    BY <2>1 DEF R, Hold
  <2> QED
    BY <1>1, <2>2, PassNow
<1> SUFFICES ASSUME s \in Ahead(ty, c) PROVE Now(ty, c, s)
  BY <1>1 DEF Over
<1>2. CASE c.op = "read"
  <2>1. s = <<R, FetchHold, R>> \/ s = <<FetchHold, R>>
    BY <1>2 DEF Ahead
  <2>2. <<FetchHold, R>> \in Ahead(ty, c)
    BY <1>2 DEF Ahead
  <2>3. CASE s = <<R, FetchHold, R>>
    <3>1. Head(s) = R /\ Tail(s) = <<FetchHold, R>>
      BY <2>3
    <3>2. Head(s).m = "R" /\ Head(s).what = "pass"
      BY <3>1, HoldFields
    <3>3. Tail(s) \in Ahead(ty, c)
      BY <2>2, <3>1
    <3>4. Head(Tail(s)) = FetchHold
      <4>1. Head(<<FetchHold, R>>) = FetchHold
        OBVIOUS
      <4> QED
        BY <3>1, <4>1, Zenon
    <3>5. Head(Tail(s)).what # "store"
      BY <3>4, HoldFields
    <3>6. Tail(s) # <<StoreHold, R>>
      BY <3>5, NotStore
    <3> QED
      BY <3>2, <3>3, <3>6, PassNow
  <2>4. CASE s = <<FetchHold, R>>
    <3>1. Head(s) = FetchHold /\ Tail(s) = <<R>>
      BY <2>4
    <3> QED
      BY <1>2, <3>1 DEF Now, FetchHold, Hold
  <2> QED
    BY <2>1, <2>3, <2>4
<1>3. CASE c.op = "write" /\ ty \notin Numeric
  <2> DEFINE s1 == <<R, W, R, PutHold, R>>
             s2 == <<W, R, PutHold, R>>
             s3 == <<R, PutHold, R>>
             s4 == <<PutHold, R>>
  <2>1. s \in {s1, s2, s3, s4}
    BY <1>3 DEF Ahead
  <2>2. {s2, s3, s4} \subseteq Ahead(ty, c)
    BY <1>3 DEF Ahead
  <2>3. /\ Head(s1) = R /\ Tail(s1) = s2 /\ Head(s2) = W /\ Tail(s2) = s3
        /\ Head(s3) = R /\ Tail(s3) = s4 /\ Head(s4) = PutHold /\ Tail(s4) = <<R>>
    OBVIOUS
  <2> HIDE DEF s1, s2, s3, s4
  <2>4. CASE s \in {s1, s2, s3}
    <3>1. Head(s) \in {R, W} /\ Tail(s) \in Ahead(ty, c) /\ Head(Tail(s)) \in {R, W, PutHold}
      BY <2>2, <2>3, <2>4
    <3>2. /\ Head(s).m \in {"R", "W"} /\ Head(s).what = "pass"
          /\ Head(Tail(s)).what # "store"
      BY <3>1, HoldFields
    <3>3. Tail(s) # <<StoreHold, R>>
      BY <3>2, NotStore
    <3> QED
      BY <3>1, <3>2, <3>3, PassNow
  <2>5. CASE s = s4
    BY <1>3, <2>3, <2>5 DEF Now, PutHold, Hold
  <2> QED
    BY <2>1, <2>4, <2>5
<1>4. CASE c.op = "write" /\ ty \in Numeric
  <2> DEFINE s1 == <<R, W, R, CheckHold, FetchHold, StoreHold, R>>
             s2 == <<W, R, CheckHold, FetchHold, StoreHold, R>>
             s3 == <<R, CheckHold, FetchHold, StoreHold, R>>
             s4 == <<CheckHold, FetchHold, StoreHold, R>>
             s5 == <<FetchHold, StoreHold, R>>
             s6 == <<StoreHold, R>>
  <2>1. s \in {s1, s2, s3, s4} \/ (s \in {s5, s6} /\ c.off < PodTmp)
    BY <1>4 DEF Ahead
  <2>2. {s2, s3, s4} \subseteq Ahead(ty, c)
    BY <1>4 DEF Ahead
  <2>3. /\ Head(s1) = R /\ Tail(s1) = s2 /\ Head(s2) = W /\ Tail(s2) = s3
        /\ Head(s3) = R /\ Tail(s3) = s4 /\ Head(s4) = CheckHold /\ Tail(s4) = s5
        /\ Head(s5) = FetchHold /\ Tail(s5) = s6 /\ Head(s6) = StoreHold /\ Tail(s6) = <<R>>
    OBVIOUS
  <2>4. CASE s \in {s1, s2, s3}
    <3> HIDE DEF s1, s2, s3, s4, s5, s6
    <3>1. Head(s) \in {R, W} /\ Tail(s) \in Ahead(ty, c) /\ Head(Tail(s)) \in {R, W, CheckHold}
      BY <2>2, <2>3, <2>4
    <3>2. /\ Head(s).m \in {"R", "W"} /\ Head(s).what = "pass"
          /\ Head(Tail(s)).what # "store"
      BY <3>1, HoldFields
    <3>3. Tail(s) # <<StoreHold, R>>
      BY <3>2, NotStore
    <3> QED
      BY <3>1, <3>2, <3>3, PassNow
  <2>5. CASE s = s4
    <3>1. Head(s) = CheckHold /\ Tail(s) = s5
      BY <2>3, <2>5
    <3> QED
      BY <1>4, <3>1 DEF Now, CheckHold, Hold
  <2>6. CASE s = s5 /\ c.off < PodTmp
    <3>1. Head(s) = FetchHold /\ Tail(s) = s6
      BY <2>3, <2>6
    <3> QED
      BY <1>4, <2>6, <3>1 DEF Now, FetchHold, Hold
  <2>7. CASE s = s6 /\ c.off < PodTmp
    <3>1. Head(s) = StoreHold /\ Tail(s) = <<R>>
      BY <2>3, <2>7
    <3> QED
      BY <1>4, <2>7, <3>1 DEF Now, StoreHold, Hold
  <2> QED
    BY <2>1, <2>4, <2>5, <2>6, <2>7
<1>5. CASE c.op = "truncate"
  <2> DEFINE s1 == <<R, W, AskHold, ClearHold, R>>
             s2 == <<W, AskHold, ClearHold, R>>
             s3 == <<AskHold, ClearHold, R>>
             s4 == <<ClearHold, R>>
  <2>1. s \in {s1, s2, s3} \/ (s = s4 /\ Agreed(ty, c))
    BY <1>5 DEF Ahead
  <2>2. {s2, s3} \subseteq Ahead(ty, c)
    BY <1>5 DEF Ahead
  <2>3. /\ Head(s1) = R /\ Tail(s1) = s2 /\ Head(s2) = W /\ Tail(s2) = s3
        /\ Head(s3) = AskHold /\ Tail(s3) = s4 /\ Head(s4) = ClearHold /\ Tail(s4) = <<R>>
    OBVIOUS
  <2>4. CASE s \in {s1, s2}
    <3> HIDE DEF s1, s2, s3, s4
    <3>1. Head(s) \in {R, W} /\ Tail(s) \in Ahead(ty, c) /\ Head(Tail(s)) \in {R, W, AskHold}
      BY <2>2, <2>3, <2>4
    <3>2. /\ Head(s).m \in {"R", "W"} /\ Head(s).what = "pass"
          /\ Head(Tail(s)).what # "store"
      BY <3>1, HoldFields
    <3>3. Tail(s) # <<StoreHold, R>>
      BY <3>2, NotStore
    <3> QED
      BY <3>1, <3>2, <3>3, PassNow
  <2>5. CASE s = s3
    <3>1. Head(s) = AskHold /\ Tail(s) = s4
      BY <2>3, <2>5
    <3> QED
      BY <1>5, <3>1 DEF Now, AskHold, Hold
  <2>6. CASE s = s4 /\ Agreed(ty, c)
    <3>1. Head(s) = ClearHold /\ Tail(s) = <<R>>
      BY <2>3, <2>6
    <3> QED
      BY <1>5, <2>6, <3>1 DEF Now, ClearHold, Hold
  <2> QED
    BY <2>1, <2>4, <2>5, <2>6
<1>6. CASE c.op \in {"get", "put"}
  <2>1. s = <<Hold("R", c.op)>>
    BY <1>6 DEF Ahead
  <2>2. Head(s) = Hold("R", c.op) /\ Tail(s) = <<>>
    BY <2>1
  <2> QED
    BY <1>6, <2>2 DEF Now, Hold
<1> QED
  BY <1>2, <1>3, <1>4, <1>5, <1>6, Kinds

-----------------------------------------------------------------------------
(* The invariant of control and data                                       *)

\* A lock is held for the hold at hand, and that is one of a call's.
OnTheWay(t) ==
    /\ mode[t] # "none" => todo[t] # <<>> /\ mode[t] = Head(todo[t]).m
    /\ IF call[t] = NoCall THEN todo[t] = <<>> ELSE todo[t] \in Over \cup Ahead(type, call[t])

\* A call is one its caller may make.
Entitled(t) == call[t] # NoCall => MayBegin(t, call[t])

Control ==
    /\ type \in FileTypes
    /\ mode \in [Threads -> {"none", "R", "W"}]
    /\ call \in [Threads -> Calls \cup {NoCall}]
    /\ DOMAIN todo = Threads /\ todo = [t \in Threads |-> todo[t]]
    /\ \A t \in Threads : OnTheWay(t) /\ Entitled(t)

\* What a write to a number has fetched is the text of one.
Data ==
    /\ text \in [Threads -> Seq(Chars)]
    /\ type = "char" => value \in Chars
    /\ type \in Numeric => value \in Numbers /\ \A t \in Threads : text[t] \in Numbers \cup {<<>>}
    /\ type = "string" => Mapped(value)

IInv == Control /\ Data

LEMMA InHold ==
    ASSUME Control, NEW t \in Threads, NEW what, In(t, what)
    PROVE  /\ call[t] \in Calls /\ todo[t] # <<>> /\ mode[t] # "none"
           /\ todo[t] \in Over \cup Ahead(type, call[t])
           /\ mode[t] = Head(todo[t]).m
           /\ Head(todo[t]).what = what
           /\ Now(type, call[t], todo[t])
<1>1. /\ mode[t] # "none" /\ Head(todo[t]).what = what /\ OnTheWay(t)
      /\ call[t] \in Calls \cup {NoCall}
  BY DEF In, Control
<1>2. /\ call[t] \in Calls /\ todo[t] # <<>> /\ mode[t] = Head(todo[t]).m
      /\ todo[t] \in Over \cup Ahead(type, call[t])
  BY <1>1 DEF OnTheWay
<1> QED
  BY <1>1, <1>2, HoldAtHand

\* What is left after a hold may be left of the call.
LEMMA TailAhead ==
    ASSUME Control, NEW t \in Threads, NEW what, In(t, what),
           what = "check" => call[t].off < PodTmp,
           what = "ask" => Agreed(type, call[t])
    PROVE  Tail(todo[t]) \in Over \cup Ahead(type, call[t])
<1> DEFINE c == call[t]
           s == todo[t]
<1>1. /\ c \in Calls /\ s # <<>> /\ s \in Over \cup Ahead(type, c)
      /\ Head(s).what = what /\ Now(type, c, s)
  BY InHold
<1> HIDE DEF c, s
<1>2. what \in {"pass", "fetch", "put", "check", "store", "ask", "clear", "get"}
  BY <1>1 DEF Now
<1>3. CASE what = "pass"
  <2>1. s = <<R>> \/ Tail(s) \in Ahead(type, c)
    BY <1>1, <1>3 DEF Now
  <2>2. Tail(<<R>>) = <<>>
    OBVIOUS
  <2> QED
    BY <2>1, <2>2 DEF Over, c, s
<1>4. CASE what = "fetch"
  <2>1. \/ Tail(s) = <<R>>
        \/ c.op = "write" /\ type \in Numeric /\ c.off < PodTmp /\ Tail(s) = <<StoreHold, R>>
    BY <1>1, <1>4 DEF Now
  <2>2. c.op = "write" /\ type \in Numeric /\ c.off < PodTmp => <<StoreHold, R>> \in Ahead(type, c)
    BY DEF Ahead
  <2> QED
    BY <2>1, <2>2 DEF Over, c, s
<1>5. CASE what = "check"
  <2>1. c.op = "write" /\ type \in Numeric /\ Tail(s) = <<FetchHold, StoreHold, R>>
    BY <1>1, <1>5 DEF Now
  <2>2. c.off < PodTmp
    BY <1>5 DEF c
  <2>3. <<FetchHold, StoreHold, R>> \in Ahead(type, c)
    BY <2>1, <2>2 DEF Ahead
  <2> QED
    BY <2>1, <2>3 DEF c, s
<1>6. CASE what = "ask"
  <2>1. c.op = "truncate" /\ Tail(s) = <<ClearHold, R>>
    BY <1>1, <1>6 DEF Now
  <2>2. Agreed(type, c)
    BY <1>6 DEF c
  <2>3. <<ClearHold, R>> \in Ahead(type, c)
    BY <2>1, <2>2 DEF Ahead
  <2> QED
    BY <2>1, <2>3 DEF c, s
<1>7. CASE what \in {"put", "store", "clear", "get"}
  <2>1. Tail(s) = <<>> \/ Tail(s) = <<R>>
    BY <1>1, <1>7 DEF Now
  <2> QED
    BY <2>1 DEF Over, s
<1> QED
  BY <1>2, <1>3, <1>4, <1>5, <1>6, <1>7

LEMMA InitIInv == Init => IInv
<1> SUFFICES ASSUME Init PROVE IInv
  OBVIOUS
<1>1. type \in FileTypes /\ type \in Types
  BY PodAssumption DEF Init
<1>2. Control
  BY <1>1 DEF Init, Control, OnTheWay, Entitled
<1>3. CASE type = "string"
  <2>1. value = Bytes([i \in 1..MapSize |-> NUL], MapSize)
    BY <1>3 DEF Init, Numeric
  <2>2. [i \in 1..MapSize |-> NUL] \in Seq(Chars) /\ Len([i \in 1..MapSize |-> NUL]) = MapSize
    BY InputAssumption DEF Chars
  <2>3. Mapped(value)
    BY <2>1, <2>2, InputAssumption DEF Bytes, Mapped
  <2>4. text \in [Threads -> Seq(Chars)]
    BY DEF Init
  <2> QED
    BY <1>2, <1>3, <2>3, <2>4 DEF IInv, Data, Numeric
<1>4. CASE type \in Numeric
  <2>1. value \in Numbers /\ type # "char" /\ type # "string"
    BY <1>4, ZeroIsNumber DEF Init, Numeric
  <2>2. text \in [Threads -> Seq(Chars)] /\ \A t \in Threads : text[t] = <<>>
    BY DEF Init
  <2> QED
    BY <1>2, <2>1, <2>2 DEF IInv, Data
<1>5. CASE type = "char"
  <2>1. value = NUL
    BY <1>5 DEF Init, Numeric
  <2>2. text \in [Threads -> Seq(Chars)]
    BY DEF Init
  <2> QED
    BY <1>2, <1>5, <2>1, <2>2 DEF IInv, Data, Numeric, Chars
<1> QED
  BY <1>1, <1>3, <1>4, <1>5 DEF Types

\* An action that leaves the value and what was copied leaves the data.
LEMMA DataStays ==
    ASSUME Data, UNCHANGED <<type, value, text>>
    PROVE  Data'
BY DEF Data, Mapped

LEMMA ControlStays ==
    ASSUME Control, UNCHANGED <<type, mode, call, todo>>
    PROVE  Control'
BY DEF Control, OnTheWay, Entitled, MayBegin

\* A hold ends, and the rest of the handler is left, or less.
LEMMA HoldEnds ==
    ASSUME Control, NEW t \in Threads, NEW what, In(t, what),
           NEW rest \in Over \cup Ahead(type, call[t]), FailHold(t, rest), UNCHANGED <<type, call>>
    PROVE  Control'
<1>1. call[t] \in Calls
  BY InHold
<1>2. /\ mode' \in [Threads -> {"none", "R", "W"}] /\ mode'[t] = "none"
      /\ DOMAIN todo' = Threads /\ todo' = [u \in Threads |-> todo'[u]] /\ todo'[t] = rest
      /\ \A u \in Threads \ {t} : mode'[u] = mode[u] /\ todo'[u] = todo[u]
  BY DEF Control, FailHold
<1>3. call[t] # NoCall
  BY <1>1, InputAssumption
<1>4. ASSUME NEW u \in Threads
      PROVE  OnTheWay(u)'
  <2>1. CASE u = t
    BY <1>2, <1>3, <2>1 DEF OnTheWay
  <2>2. CASE u # t
    BY <1>2, <2>2 DEF OnTheWay, Control
  <2> QED
    BY <2>1, <2>2
<1>5. \A u \in Threads : Entitled(u)'
  BY DEF Control, Entitled, MayBegin
<1> QED
  BY <1>2, <1>4, <1>5 DEF Control

LEMMA EndHoldEnds ==
    ASSUME Control, NEW t \in Threads, NEW what, In(t, what),
           what = "check" => call[t].off < PodTmp,
           what = "ask" => Agreed(type, call[t]),
           EndHold(t), UNCHANGED <<type, call>>
    PROVE  Control'
<1>1. Tail(todo[t]) \in Over \cup Ahead(type, call[t])
  BY TailAhead
<1>2. FailHold(t, Tail(todo[t]))
  BY DEF EndHold, FailHold, Control
<1> QED
  BY <1>1, <1>2, HoldEnds

\* What the requests bring along.
LEMMA CallTypes ==
    ASSUME NEW c \in Calls
    PROVE  /\ c.op = "read" => c.off \in Nat /\ c.size \in Nat \ {0}
           /\ c.op = "write" => c.off \in Nat /\ c.buf \in Seq(Chars) /\ c.buf # <<>>
           /\ c.op = "truncate" => c.off \in Nat /\ c.agrees \in BOOLEAN
           /\ c.op = "get" => c.as \in Asked /\ c.pod = Bytes(<<>>, MapSize - 1)
           /\ c.op = "put" => c.as \in Types /\ IsPOD(c.as, c.pod)
<1>1. CASE c \in Reads
  BY <1>1, InputAssumption DEF Reads
<1>2. CASE c \in Writes
  BY <1>2, InputAssumption DEF Writes
<1>3. CASE c \in Truncates
  BY <1>3, InputAssumption DEF Truncates
<1>4. CASE c \in Gets
  BY <1>4 DEF Gets
<1>5. CASE c \in Puts
  <2>1. PICK as \in Types : c \in [op : {"put"}, as : {as}, pod : Given[as]]
    BY <1>5 DEF Puts
  <2>2. c.op = "put" /\ c.as = as /\ c.pod \in Given[as]
    BY <2>1
  <2>3. CASE as = "char"
    BY <2>2, <2>3, InputAssumption DEF IsPOD, Numeric
  <2>4. CASE as \in Numeric
    BY <2>2, <2>4, InputAssumption DEF IsPOD, Numeric, Types
  <2>5. CASE as = "string"
    BY <2>2, <2>5, InputAssumption DEF IsPOD, Numeric
  <2>6. as \in Numeric \/ as = "char" \/ as = "string"
    BY DEF Types
  <2> QED
    BY <2>2, <2>3, <2>4, <2>5, <2>6
<1> QED
  BY <1>1, <1>2, <1>3, <1>4, <1>5 DEF Calls

-----------------------------------------------------------------------------
(* Control                                                                 *)

LEMMA RequestControl ==
    ASSUME Control, NEW t \in Threads, NEW c \in Calls, Request(t, c)
    PROVE  Control'
<1>1. Holds(c) \in Over \cup Ahead(type, c)
  BY HoldsAhead
<1> DEFINE hs == Holds(c)
<1>2. /\ call' = [call EXCEPT ![t] = c] /\ todo' = [todo EXCEPT ![t] = hs]
      /\ UNCHANGED <<type, mode>> /\ c # NoCall /\ mode[t] = "none"
  BY InputAssumption DEF Request, Control, OnTheWay
<1> HIDE DEF hs
<1>3. /\ call' \in [Threads -> Calls \cup {NoCall}]
      /\ DOMAIN todo' = Threads /\ todo' = [u \in Threads |-> todo'[u]]
      /\ todo'[t] = hs /\ call'[t] = c
      /\ \A u \in Threads \ {t} : call'[u] = call[u] /\ todo'[u] = todo[u]
  BY <1>2 DEF Control
<1>4. ASSUME NEW u \in Threads
      PROVE  OnTheWay(u)'
  <2>1. CASE u = t
    BY <1>1, <1>2, <1>3, <2>1 DEF OnTheWay, hs
  <2>2. CASE u # t
    BY <1>2, <1>3, <2>2 DEF OnTheWay, Control
  <2> QED
    BY <2>1, <2>2
<1>5. ASSUME NEW u \in Threads
      PROVE  Entitled(u)'
  <2>1. CASE u = t
    BY <1>2, <1>3, <2>1 DEF Entitled, Request, MayBegin
  <2>2. CASE u # t
    BY <1>2, <1>3, <2>2 DEF Entitled, Control, MayBegin
  <2> QED
    BY <2>1, <2>2
<1> QED
  BY <1>2, <1>3, <1>4, <1>5 DEF Control

LEMMA StepControl ==
    ASSUME Control, NEW t \in Threads, Step(t), "growString" \notin Liberties
    PROVE  Control'
<1>1. CASE Take(t)
  <2>1. call[t] \in Calls /\ todo[t] \in Over \cup Ahead(type, call[t]) /\ todo[t] # <<>>
    BY <1>1 DEF Take, Control, OnTheWay
  <2>2. Head(todo[t]).m \in {"R", "W"}
    BY <2>1, HoldAtHand DEF Now
  <2> QED
    BY <1>1, <2>2 DEF Take, Control, OnTheWay, Entitled, MayBegin
<1>2. CASE Pass(t)
  BY <1>2, EndHoldEnds DEF Pass
<1>3. CASE FetchScalar(t)
  BY <1>3, EndHoldEnds DEF FetchScalar
<1>4. CASE FetchBytes(t)
  <2>1. \/ UNCHANGED <<type, mode, call, todo>>
        \/ EndHold(t) /\ UNCHANGED <<type, call>> /\ In(t, "fetch")
    BY <1>4 DEF FetchBytes
  <2> QED
    BY <2>1, EndHoldEnds, ControlStays
<1>5. CASE PutChar(t)
  BY <1>5, EndHoldEnds DEF PutChar
<1>6. CASE PutRefused(t)
  BY <1>6, EndHoldEnds DEF PutRefused
<1>7. CASE PutBytes(t)
  <2>1. \/ UNCHANGED <<type, mode, call, todo>>
        \/ EndHold(t) /\ UNCHANGED <<type, call>> /\ In(t, "put")
    BY <1>7 DEF PutBytes
  <2> QED
    BY <2>1, EndHoldEnds, ControlStays
<1>8. CASE Check(t)
  <2>1. In(t, "check") /\ UNCHANGED <<type, call>>
    BY <1>8 DEF Check
  <2>2. call[t] \in Calls /\ Now(type, call[t], todo[t]) /\ Head(todo[t]).what = "check"
    BY <2>1, InHold
  <2>3. call[t].off \in Nat /\ PodTmp \in Nat
    BY <2>2, CallTypes, InputAssumption DEF Now
  <2>4. CASE call[t].off > PodTmp - 1
    <3>1. FailHold(t, <<R>>) /\ <<R>> \in Over
      BY <1>8, <2>4 DEF Check, Over
    <3> QED
      BY <2>1, <3>1, HoldEnds
  <2>5. CASE ~(call[t].off > PodTmp - 1)
    <3>1. EndHold(t) /\ call[t].off < PodTmp
      BY <1>8, <2>3, <2>5 DEF Check
    <3> QED
      BY <2>1, <3>1, EndHoldEnds
  <2> QED
    BY <2>4, <2>5
<1>9. CASE Store(t)
  BY <1>9, EndHoldEnds DEF Store
<1>10. CASE Ask(t)
  <2>1. In(t, "ask") /\ UNCHANGED <<type, call>>
    BY <1>10 DEF Ask
  <2>2. CASE ~call[t].agrees
    <3>1. FailHold(t, <<>>) /\ <<>> \in Over
      BY <1>10, <2>2 DEF Ask, Over
    <3> QED
      BY <2>1, <3>1, HoldEnds
  <2>3. CASE call[t].agrees
    <3>1. call[t] \in Calls /\ Now(type, call[t], todo[t]) /\ Head(todo[t]).what = "ask"
      BY <2>1, InHold
    <3>2. call[t].op = "truncate" /\ call[t].off \in Nat
      BY <3>1, CallTypes DEF Now
    <3>3. MayBegin(t, call[t])
      BY <3>1, InputAssumption DEF Control, Entitled
    <3>4. Agreed(type, call[t])
      BY <2>3, <3>2, <3>3, InputAssumption DEF Agreed, MayBegin
    <3>5. EndHold(t)
      BY <1>10, <2>3 DEF Ask
    <3> QED
      BY <2>1, <3>4, <3>5, EndHoldEnds
  <2> QED
    BY <2>2, <2>3
<1>11. CASE Clear(t)
  BY <1>11, EndHoldEnds DEF Clear
<1>12. CASE GrowFails(t)
  BY <1>12, EndHoldEnds DEF GrowFails
<1>13. CASE GetPOD(t)
  BY <1>13, EndHoldEnds DEF GetPOD
<1>14. CASE PutPOD(t)
  BY <1>14, EndHoldEnds DEF PutPOD
<1>15. CASE Return(t)
  <2>1. /\ call' \in [Threads -> Calls \cup {NoCall}] /\ call'[t] = NoCall /\ todo[t] = <<>>
        /\ UNCHANGED <<type, mode, todo>>
        /\ \A u \in Threads \ {t} : call'[u] = call[u]
    BY <1>15 DEF Return, Control
  <2>2. ASSUME NEW u \in Threads
        PROVE  OnTheWay(u)'
    <3>1. CASE u = t
      BY <2>1, <3>1 DEF OnTheWay, Control
    <3>2. CASE u # t
      BY <2>1, <3>2 DEF OnTheWay, Control
    <3> QED
      BY <3>1, <3>2
  <2>3. \A u \in Threads : Entitled(u)'
    BY <2>1 DEF Entitled, Control, MayBegin
  <2> QED
    BY <2>1, <2>2, <2>3 DEF Control
<1> QED
  BY <1>1, <1>2, <1>3, <1>4, <1>5, <1>6, <1>7, <1>8, <1>9, <1>10, <1>11, <1>12, <1>13, <1>14, <1>15
  DEF Step

-----------------------------------------------------------------------------
(* Data                                                                    *)

\* A piece of a text.
LEMMA PieceOfText ==
    ASSUME NEW string \in Seq(Chars), NEW m \in Nat \ {0}, NEW n \in Int, n <= Len(string)
    PROVE  /\ SubSeq(string, m, n) \in Seq(Chars)
           /\ Len(SubSeq(string, m, n)) = IF m <= n THEN n - m + 1 ELSE 0
           /\ \A i \in 1..Len(SubSeq(string, m, n)) : SubSeq(string, m, n)[i] = string[i + m - 1]
<1>1. Len(string) \in Nat
  BY LenProperties
<1>2. CASE m <= n
  <2>1. \A i \in m..n : string[i] \in Chars
    BY <1>1, ElementOfSeq
  <2>2. n \in Nat /\ 1 + n - m = n - m + 1
    BY <1>2
  <2> QED
    BY <1>2, <2>1, <2>2, SubSeqProperties
<1>3. CASE ~(m <= n)
  BY <1>3, SubSeqProperties
<1> QED
  BY <1>2, <1>3

\* Text that was read from a number is that of one.
LEMMA KeepsData ==
    ASSUME Data, NEW t \in Threads, NEW x \in Seq(Chars), type \in Numeric => x \in Numbers \cup {<<>>},
           Keeps(t, x), UNCHANGED <<type, value>>
    PROVE  Data'
<1>1. /\ text' \in [Threads -> Seq(Chars)] /\ text'[t] = x
      /\ \A u \in Threads \ {t} : text'[u] = text[u]
  BY DEF Data, Keeps
<1>2. type \in Numeric => \A u \in Threads : text'[u] \in Numbers \cup {<<>>}
  BY <1>1 DEF Data
<1> QED
  BY <1>1, <1>2 DEF Data, Mapped

LEMMA FetchScalarData ==
    ASSUME IInv, NEW t \in Threads, FetchScalar(t)
    PROVE  Data'
<1>1. UNCHANGED <<type, value>> /\ In(t, "fetch") /\ type # "string"
  BY DEF FetchScalar
<1>2. CASE UNCHANGED text
  BY <1>1, <1>2, DataStays DEF IInv
<1>3. CASE call[t].op = "write"
  <2>1. type \in Numeric
    BY <1>1, <1>3, InHold DEF IInv, Now
  <2>2. value \in Numbers /\ type # "char"
    BY <2>1 DEF IInv, Data, Numeric
  <2>3. value \in Seq(Chars) /\ Len(value) \in Nat
    BY <2>2, NumberIsText, InputAssumption
  <2>4. Keeps(t, SubSeq(value, 0 + 1, Len(value)))
    BY <1>3, <2>2 DEF FetchScalar
  <2>5. SubSeq(value, 1, Len(value)) = value
    BY <2>3
  <2>6. Keeps(t, value)
    <3>1. 0 + 1 = 1
      OBVIOUS
    <3> QED
      BY <2>4, <2>5, <3>1, Zenon
  <2> QED
    BY <1>1, <2>2, <2>3, <2>6, KeepsData DEF IInv
<1> QED
  BY <1>2, <1>3 DEF FetchScalar

LEMMA EmptyTextData ==
    ASSUME Data, NEW t \in Threads, Keeps(t, <<>>), UNCHANGED <<type, value>>
    PROVE  Data'
<1>1. <<>> \in Seq(Chars)
  OBVIOUS
<1> QED
  BY <1>1, KeepsData

\* A read copies bytes of the string only, ...
LEMMA FetchBytesData ==
    ASSUME IInv, NEW t \in Threads, FetchBytes(t)
    PROVE  Data'
<1>1. /\ type = "string" /\ UNCHANGED <<type, value>> /\ Mapped(value)
      /\ text[t] \in Seq(Chars) /\ type \notin Numeric /\ In(t, "fetch")
  BY DEF FetchBytes, IInv, Data, Numeric
<1>2. call[t].op = "read" /\ call[t].off \in Nat /\ call[t].size \in Nat
  BY <1>1, InHold, CallTypes DEF IInv, Now
<1> DEFINE at  == call[t].off + Len(text[t])
           end == Min({call[t].off + call[t].size, value.length_r})
<1>3. at \in Nat /\ (at < end => at + 1 \in 1..MapSize)
  <2>2. at \in Nat /\ value.length_r \in 0..MapSize /\ MapSize \in Nat
    BY <1>1, <1>2, LenProperties, InputAssumption DEF Mapped
  <2> DEFINE a == call[t].off + call[t].size
  <2>3. a \in Int /\ value.length_r \in Int
    BY <1>2, <2>2
  <2> HIDE DEF a
  <2>4. Min({a, value.length_r}) \in {a, value.length_r} /\ Min({a, value.length_r}) <= value.length_r
    BY <2>3, MinOfTwo, Zenon
  <2>5. end \in Int /\ end <= value.length_r
    BY <2>3, <2>4 DEF a
  <2> HIDE DEF at, end
  <2> QED
    BY <2>2, <2>5
<1>4. CASE at < end
  <2>1. value.r[at + 1] \in Chars
    BY <1>1, <1>3, <1>4, ElementOfSeq DEF Mapped
  <2>2. Keeps(t, Append(text[t], value.r[at + 1]))
    BY <1>4 DEF FetchBytes
  <2>3. Append(text[t], value.r[at + 1]) \in Seq(Chars)
    BY <1>1, <2>1, AppendProperties
  <2> QED
    BY <1>1, <2>2, <2>3, KeepsData DEF IInv
<1>5. CASE ~(at < end)
  BY <1>1, <1>5, EmptyTextData DEF FetchBytes, IInv
<1> QED
  BY <1>4, <1>5

\* ... a write puts them before its end, ...
LEMMA PutBytesData ==
    ASSUME IInv, NEW t \in Threads, PutBytes(t)
    PROVE  Data'
<1> DEFINE fits == Fitting(value, call[t].off, call[t].buf)
           done == Len(text[t])
<1>1. /\ type = "string" /\ type' = type /\ Mapped(value)
      /\ text[t] \in Seq(Chars) /\ type \notin Numeric
      /\ call[t].op = "write" /\ call[t].off <= value.length_r
  BY DEF PutBytes, IInv, Data, Numeric
<1>2. call[t].off \in Nat /\ call[t].buf \in Seq(Chars)
  BY <1>1, InHold, CallTypes DEF PutBytes, IInv
<1>3. call[t].off \in 0..value.length_r /\ value.length_r \in 0..MapSize /\ MapSize \in Nat
  BY <1>1, <1>2, InputAssumption DEF Mapped
<1>4. fits \in Seq(Chars) /\ call[t].off + Len(fits) <= value.length_r
  BY <1>1, <1>2, <1>3, FittingFits
<1>5. done \in Nat /\ Len(fits) \in Nat
  BY <1>1, <1>4, LenProperties
<1> HIDE DEF fits, done
<1>6. CASE done < Len(fits)
  <2> DEFINE b == fits[done + 1]
  <2>1. b \in Chars
    BY <1>4, <1>5, <1>6, ElementOfSeq
  <2>2. <<b>> \in Seq(Chars) /\ Len(<<b>>) = 1
    BY <2>1
  <2>3. (call[t].off + done) + Len(<<b>>) <= MapSize /\ call[t].off + done \in Nat
    BY <1>2, <1>3, <1>4, <1>5, <1>6, <2>2
  <2> HIDE DEF b
  <2>4. /\ value' = [value EXCEPT !.r = Put(@, call[t].off + done, <<b>>)]
        /\ text' = [text EXCEPT ![t] = Append(text[t], b)]
    BY <1>6 DEF PutBytes, Keeps, b, fits, done
  <2>5. Mapped(value')
    <3>1. Mapped([value EXCEPT !.r = Put(@, call[t].off + done, <<b>>)])
      BY <1>1, <1>3, <2>2, <2>3, PutIntoMapped
    <3> QED
      BY <2>4, <3>1
  <2>6. Append(text[t], b) \in Seq(Chars)
    BY <1>1, <2>1, AppendProperties
  <2>7. text' \in [Threads -> Seq(Chars)]
    BY <2>4, <2>6 DEF IInv, Data
  <2> QED
    BY <1>1, <2>5, <2>7 DEF Data, Mapped
<1>7. CASE ~(done < Len(fits))
  BY <1>1, <1>7, EmptyTextData DEF PutBytes, fits, done, IInv
<1> QED
  BY <1>6, <1>7

\* What of a write finds room in podtmp.
LEMMA ClampedIs ==
    ASSUME NEW off \in Nat, NEW buf \in Seq(Chars), off < PodTmp
    PROVE  /\ Clamped(off, buf) \in Seq(Chars)
           /\ off + Len(Clamped(off, buf)) <= PodTmp
           /\ Len(Clamped(off, buf)) \in Nat
           /\ buf # <<>> => Len(Clamped(off, buf)) # 0
<1> DEFINE room == PodTmp - off
           n    == Min({Len(buf), room})
<1>1. /\ Len(buf) \in Nat /\ room \in Nat \ {0} /\ PodTmp \in Nat
      /\ buf # <<>> => Len(buf) # 0
  BY LenProperties, EmptySeq, InputAssumption
<1>2. n \in Nat /\ n <= Len(buf) /\ n <= room /\ (buf # <<>> => n # 0)
  <2>1. Len(buf) \in Int /\ room \in Int
    BY <1>1
  <2> HIDE DEF room
  <2>2. n \in {Len(buf), room} /\ n <= Len(buf) /\ n <= room
    BY <2>1, MinOfTwo, Zenon
  <2> HIDE DEF n
  <2> QED
    BY <1>1, <2>2
<1>3. SubSeq(buf, 1, n) \in Seq(Chars) /\ Len(SubSeq(buf, 1, n)) = n
  <2> HIDE DEF n
  <2> QED
    BY <1>1, <1>2, PieceOfText
<1>4. Clamped(off, buf) = SubSeq(buf, 1, n)
  BY DEF Clamped
<1> HIDE DEF n
<1>5. off + n <= PodTmp
  BY <1>1, <1>2
<1> QED
  BY <1>2, <1>3, <1>4, <1>5

\* ... a number is read from a text, ...
LEMMA StoreData ==
    ASSUME IInv, NEW t \in Threads, Store(t)
    PROVE  Data'
<1>1. In(t, "store") /\ type' = type /\ Keeps(t, <<>>)
  BY DEF Store
<1>2. /\ call[t] \in Calls /\ call[t].op = "write" /\ type \in Numeric /\ call[t].off < PodTmp
  BY <1>1, InHold DEF IInv, Now
<1>3. call[t].off \in Nat /\ call[t].buf \in Seq(Chars)
  BY <1>2, CallTypes
<1> DEFINE fits == Clamped(call[t].off, call[t].buf)
           new  == Rewritten(text[t], call[t].off, fits)
<1>4. fits \in Seq(Chars)
  BY <1>2, <1>3, ClampedIs
<1>5. text[t] \in Seq(Chars)
  BY DEF IInv, Data
<1> HIDE DEF fits
<1>6. new \in Seq(Chars)
  BY <1>3, <1>4, <1>5, RewrittenIs
<1>7. PICK rest \in Behind : value' \in Readings(type, IF Len(new) < PodTmp THEN new ELSE new \o rest)
  BY DEF Store, new, fits
<1> HIDE DEF new
<1>8. new \o rest \in Seq(Chars)
  BY <1>6, InputAssumption, ConcatProperties
<1>9. value' \in Numbers
  BY <1>2, <1>6, <1>7, <1>8, ReadingsAreNumbers
<1>10. /\ text' \in [Threads -> Seq(Chars)] /\ text'[t] = <<>>
       /\ \A u \in Threads \ {t} : text'[u] = text[u]
  BY <1>1 DEF IInv, Data, Keeps
<1>11. \A u \in Threads : text'[u] \in Numbers \cup {<<>>}
  BY <1>2, <1>10 DEF IInv, Data
<1> QED
  BY <1>1, <1>2, <1>9, <1>10, <1>11 DEF Data, Numeric

\* ... a truncation has asked for the new length, ...
LEMMA ClearData ==
    ASSUME IInv, NEW t \in Threads, Clear(t)
    PROVE  Data'
<1>1. UNCHANGED <<type, text>> /\ In(t, "clear") /\ type \in Types
  BY PodAssumption DEF Clear, IInv, Control
<1>2. CASE type = "char"
  <2>1. value' = NUL
    BY <1>2 DEF Clear, Numeric
  <2> QED
    BY <1>1, <1>2, <2>1 DEF IInv, Data, Numeric, Chars
<1>3. CASE type \in Numeric
  <2>1. value' = <<Zero>> /\ type # "char" /\ type # "string"
    BY <1>3 DEF Clear, Numeric
  <2> QED
    BY <1>1, <1>3, <2>1, ZeroIsNumber DEF IInv, Data
<1>4. CASE type = "string"
  <2>1. Mapped(value) /\ type \notin Numeric
    BY <1>4 DEF IInv, Data, Numeric
  <2>2. call[t].off \in Nat /\ call[t].off <= MapSize
    BY <1>1, <1>4, InHold, CallTypes DEF IInv, Now, Agreed
  <2>3. call[t].off \in 0..MapSize /\ value.length_r \in Nat
    BY <2>1, <2>2, InputAssumption DEF Mapped
  <2>4. Mapped(Zeroed(value, call[t].off)) /\ Mapped(Grown(value, call[t].off))
    BY <2>1, <2>3, ClearedIsMapped
  <2>5. value' = Zeroed(value, call[t].off) \/ value' = Grown(value, call[t].off)
    <3>1. CASE call[t].off <= value.length_r
      BY <1>4, <2>3, <3>1 DEF Clear, Numeric
    <3>2. CASE call[t].off > value.length_r
      BY <1>4, <2>3, <3>2 DEF Clear, Numeric
    <3> QED
      BY <2>3, <3>1, <3>2
  <2>6. Mapped(value')
    BY <2>4, <2>5
  <2> QED
    BY <1>1, <1>4, <2>1, <2>6 DEF IInv, Data, Mapped
<1> QED
  BY <1>1, <1>2, <1>3, <1>4 DEF Types

\* ... a character is one of those of the buffer, ...
LEMMA PutCharData ==
    ASSUME IInv, NEW t \in Threads, PutChar(t)
    PROVE  Data'
<1>1. /\ In(t, "put") /\ call[t].op = "write" /\ type = "char" /\ UNCHANGED <<type, text>>
      /\ value' = call[t].buf[Len(call[t].buf)]
  BY DEF PutChar
<1>2. PICK buf \in Seq(Chars) : buf = call[t].buf /\ buf # <<>>
  BY <1>1, InHold, CallTypes DEF IInv
<1>3. Len(buf) \in 1..Len(buf)
  BY <1>2
<1>4. value' \in Chars
  BY <1>1, <1>2, <1>3, ElementOfSeq
<1> QED
  BY <1>1, <1>4 DEF IInv, Data, Numeric

\* ... and procfuse_copyPOD looks at length_r.
LEMMA PutPODData ==
    ASSUME IInv, NEW t \in Threads, PutPOD(t)
    PROVE  Data'
<1>1. UNCHANGED <<type, text>> /\ type \in Types /\ In(t, "put") /\ call[t].op = "put"
  BY PodAssumption DEF PutPOD, IInv, Control
<1>0. PICK done \in CopyPOD(type, value, call[t].as, call[t].pod) : value' = done.pod
  BY DEF PutPOD
<1>2. call[t].as \in Types /\ IsPOD(call[t].as, call[t].pod)
  BY <1>1, InHold, CallTypes DEF IInv
<1>3. CASE type = "char"
  <2>1. value' \in Chars
    BY <1>0, <1>2, <1>3, CopyIsChar DEF IInv, Data
  <2> QED
    BY <1>1, <1>3, <2>1 DEF IInv, Data, Numeric
<1>4. CASE type \in Numeric
  <2>1. value' \in Numbers
    BY <1>0, <1>2, <1>4, CopyIsNumber DEF IInv, Data
  <2>2. type # "char" /\ type # "string"
    BY <1>4 DEF Numeric
  <2> QED
    BY <1>1, <1>4, <2>1, <2>2 DEF IInv, Data
<1>5. CASE type = "string"
  <2>1. Mapped(value')
    BY <1>0, <1>2, <1>5, CopyIsMapped DEF IInv, Data
  <2>2. type \notin Numeric
    BY <1>5 DEF Numeric
  <2> QED
    BY <1>1, <1>5, <2>1, <2>2 DEF IInv, Data, Mapped
<1> QED
  BY <1>1, <1>3, <1>4, <1>5 DEF Types

LEMMA StepData ==
    ASSUME IInv, NEW t \in Threads, Step(t)
    PROVE  Data'
<1>1. CASE Take(t)
  BY <1>1, DataStays DEF Take, IInv
<1>2. CASE Pass(t)
  BY <1>2, DataStays DEF Pass, IInv
<1>3. CASE FetchScalar(t)
  BY <1>3, FetchScalarData
<1>4. CASE FetchBytes(t)
  BY <1>4, FetchBytesData
<1>5. CASE PutChar(t)
  BY <1>5, PutCharData
<1>6. CASE PutRefused(t)
  BY <1>6, DataStays DEF PutRefused, IInv
<1>7. CASE PutBytes(t)
  BY <1>7, PutBytesData
<1>8. CASE Check(t)
  BY <1>8, DataStays DEF Check, IInv
<1>9. CASE Store(t)
  BY <1>9, StoreData
<1>10. CASE Ask(t)
  BY <1>10, DataStays DEF Ask, IInv
<1>11. CASE Clear(t)
  BY <1>11, ClearData
<1>12. CASE GrowFails(t)
  BY <1>12, DataStays DEF GrowFails, IInv
<1>13. CASE GetPOD(t)
  BY <1>13, DataStays DEF GetPOD, IInv
<1>14. CASE PutPOD(t)
  BY <1>14, PutPODData
<1>15. CASE Return(t)
  BY <1>15, DataStays DEF Return, IInv
<1> QED
  BY <1>1, <1>2, <1>3, <1>4, <1>5, <1>6, <1>7, <1>8, <1>9, <1>10, <1>11, <1>12, <1>13, <1>14, <1>15
  DEF Step

-----------------------------------------------------------------------------
(* What holds of every file                                                *)

LEMMA Inductive ==
    ASSUME "growString" \notin Liberties, IInv, [Next]_vars
    PROVE  IInv'
<1>1. CASE UNCHANGED vars
  <2>1. Control'
    BY <1>1, ControlStays DEF vars, IInv
  <2>2. Data'
    BY <1>1, DataStays DEF vars, IInv
  <2> QED
    BY <2>1, <2>2 DEF IInv
<1>2. ASSUME NEW t \in Threads, Step(t) PROVE IInv'
  <2>1. Control'
    BY <1>2, StepControl DEF IInv
  <2>2. Data'
    BY <1>2, StepData
  <2> QED
    BY <2>1, <2>2 DEF IInv
<1>3. ASSUME NEW t \in Threads, NEW c \in Calls, Request(t, c) PROVE IInv'
  <2>1. Control'
    BY <1>3, RequestControl DEF IInv
  <2>2. Data'
    BY <1>3, DataStays DEF IInv, Request
  <2> QED
    BY <2>1, <2>2 DEF IInv
<1> QED
  BY <1>1, <1>2, <1>3 DEF Next

\* Whatever is written, truncated or set, and however many threads do it, a string
\* stays within its mapping: the lengths procfuse_onFuseReadPOD, WritePOD and
\* TruncatePOD and procfuse_copyPOD check bound what they copy.
THEOREM StringsStayMapped ==
    ASSUME "growString" \notin Liberties
    PROVE  Spec => []WithinMapping
<1>1. Init => IInv
  BY InitIInv
<1>2. IInv /\ [Next]_vars => IInv'
  BY Inductive
<1>3. IInv => WithinMapping
  BY InputAssumption DEF IInv, Data, Mapped, WithinMapping
<1> QED
  BY <1>1, <1>2, <1>3, PTL DEF Spec

\* Whatever characters are written at whatever offset, with podtmp filled to its end
\* and anything behind it, and whatever is set: a number stays one, a character a
\* character, and the length of a string a length.
THEOREM TypeCorrect ==
    ASSUME "growString" \notin Liberties
    PROVE  Spec => []TypeOK
<1>1. Init => IInv
  BY InitIInv
<1>2. IInv /\ [Next]_vars => IInv'
  BY Inductive
<1>3. IInv => TypeOK
  BY InputAssumption DEF IInv, Control, Data, Mapped, TypeOK
<1> QED
  BY <1>1, <1>2, <1>3, PTL DEF Spec

\* However long a buffer is, at whatever offset, and whatever other threads did to the
\* number since the offset was checked: the write stays within podtmp (1637-1645).
THEOREM WritesStayInPodtmp ==
    ASSUME "growString" \notin Liberties
    PROVE  Spec => []WithinPodtmp
<1>1. Init => IInv
  BY InitIInv
<1>2. IInv /\ [Next]_vars => IInv'
  BY Inductive
<1>3. ASSUME IInv, NEW t \in Threads, In(t, "store")
      PROVE  /\ call[t].off < PodTmp
             /\ Len(Rewritten(text[t], call[t].off, Clamped(call[t].off, call[t].buf))) <= PodTmp
  <2>1. /\ call[t] \in Calls /\ call[t].op = "write" /\ type \in Numeric /\ call[t].off < PodTmp
    BY <1>3, InHold DEF IInv, Now
  <2>2. PICK off \in Nat, buf \in Seq(Chars) : off = call[t].off /\ buf = call[t].buf
    BY <2>1, CallTypes
  <2>3. PICK fits \in Seq(Chars) : fits = Clamped(off, buf) /\ off + Len(fits) <= PodTmp
    BY <2>1, <2>2, ClampedIs
  <2>4. PICK old \in Seq(Chars) : old = text[t] /\ Len(old) < PodTmp
    <3>1. text[t] \in Seq(Chars) /\ text[t] \in Numbers \cup {<<>>}
      BY <1>3, <2>1 DEF IInv, Data
    <3>2. Len(text[t]) < PodTmp
      BY <3>1, NumberIsText, InputAssumption
    <3> QED
      BY <3>1, <3>2
  <2>5. Len(Rewritten(old, off, fits)) = IF Len(old) >= off + Len(fits) THEN Len(old) ELSE off + Len(fits)
    BY RewrittenIs
  <2>6. Len(Rewritten(old, off, fits)) <= PodTmp
    BY <2>3, <2>4, <2>5, LenProperties, InputAssumption
  <2> QED
    BY <2>1, <2>2, <2>3, <2>4, <2>6
<1>4. IInv => WithinPodtmp
  BY <1>3 DEF WithinPodtmp
<1> QED
  BY <1>1, <1>2, <1>4, PTL DEF Spec

-----------------------------------------------------------------------------
(* What a handler keeps between two steps                                  *)

Results == [rval : Int, bytes : Seq(Chars)]

\* A writer has the lock alone.
Alone(t) == mode[t] = "W" => \A u \in Threads \ {t} : mode[u] = "none"

\* A call has its result when nothing but a downgrade is left.
Answered(t) ==
    IF call[t] # NoCall /\ todo[t] \in Over THEN result[t] \in Results ELSE result[t] = NoResult

Writing(t) == In(t, "put") /\ call[t].op = "write"

\* The bytes a read has copied are those of the string, ...
FetchedSoFar(t) ==
    /\ \A i \in 1..Len(text[t]) : text[t][i] = value.r[call[t].off + i]
    /\ text[t] # <<>> =>
           call[t].off + Len(text[t]) <= Min({call[t].off + call[t].size, value.length_r})

\* ... and the bytes a write has put are there.
PutSoFar(t) ==
    /\ Len(text[t]) <= Len(Fits(t))
    /\ \A i \in 1..Len(text[t]) : value.r[call[t].off + i] = Fits(t)[i]

\* Requests for which the register's promise is made: a string is not made longer than
\* its mapping, a number is read with room for all of it, and what lies behind podtmp
\* does not go on as a number.
Ordinary ==
    /\ Liberties = {}
    /\ \A rest \in Behind : rest = <<>> \/ rest[1] \notin Digits \cup {Mark}

\* What a handler keeps between two steps is true of the value; a write to a number
\* has the old text until it stores the new one.
Progress(t) ==
    /\ type = "char" => text[t] = <<>>
    /\ type \in Numeric => (text[t] # <<>> <=> todo[t] = <<StoreHold, R>>)
    /\ type = "string" =>
           /\ text[t] # <<>> => In(t, "fetch") \/ Writing(t)
           /\ In(t, "fetch") => FetchedSoFar(t)
           /\ Writing(t) => PutSoFar(t)

Calm ==
    /\ result \in [Threads -> Results \cup {NoResult}]
    /\ \A t \in Threads : Alone(t) /\ Answered(t) /\ Progress(t)

\* What a step of t leaves to the others.
Local(t) ==
    /\ UNCHANGED <<type, call>>
    /\ result' \in [Threads -> Results \cup {NoResult}]
    /\ mode'[t] \in {mode[t], "none"}
    /\ \A u \in Threads \ {t} :
           mode'[u] = mode[u] /\ todo'[u] = todo[u] /\ text'[u] = text[u] /\ result'[u] = result[u]

\* The others do not notice a step of a thread that holds the lock.
LEMMA OthersCalm ==
    ASSUME IInv, Calm, NEW t \in Threads, mode[t] # "none", Local(t),
           NEW u \in Threads, u # t
    PROVE  Answered(u)' /\ Progress(u)'
<1>1. /\ mode'[u] = mode[u] /\ todo'[u] = todo[u] /\ text'[u] = text[u] /\ result'[u] = result[u]
      /\ call' = call /\ type' = type
  BY DEF Local
<1>2. Answered(u)'
  BY <1>1 DEF Calm, Answered
<1>3. mode[u] # "W"
  BY DEF Calm, Alone
<1>4. type = "string" => ~In(u, "fetch") /\ ~Writing(u)
  <2> SUFFICES ASSUME type = "string" PROVE ~In(u, "fetch") /\ ~Writing(u)
    OBVIOUS
  <2>1. type \notin Numeric
    BY DEF Numeric
  <2>2. ~In(u, "fetch")
    BY <1>3, InHold DEF IInv, Now
  <2>3. ~Writing(u)
    BY <1>3, InHold DEF IInv, Now, Writing
  <2> QED
    BY <2>2, <2>3
<1>5. type = "string" => ~In(u, "fetch")' /\ ~Writing(u)'
  BY <1>1, <1>4 DEF In, Writing
<1>6. Progress(u)'
  <2>1. Progress(u)
    BY DEF Calm
  <2> QED
    BY <1>1, <1>4, <1>5, <2>1 DEF Progress
<1> QED
  BY <1>2, <1>6

\* ... and neither has more than he had.
LEMMA StillAlone ==
    ASSUME Calm, NEW t \in Threads, Local(t)
    PROVE  \A u \in Threads : Alone(u)'
<1>1. \A u \in Threads : mode'[u] \in {mode[u], "none"}
  BY DEF Local
<1> QED
  BY <1>1 DEF Calm, Alone

LEMMA StillCalm ==
    ASSUME IInv, Calm, NEW t \in Threads, mode[t] # "none", Local(t), Answered(t)', Progress(t)'
    PROVE  Calm'
<1>1. ASSUME NEW u \in Threads PROVE Alone(u)' /\ Answered(u)' /\ Progress(u)'
  BY StillAlone, OthersCalm
<1> QED
  BY <1>1 DEF Calm, Local

\* A call that is about to act has no result yet.
LEMMA NotYet ==
    ASSUME IInv, Calm, NEW t \in Threads, NEW what, In(t, what), what # "pass"
    PROVE  call[t] \in Calls /\ call[t] # NoCall /\ todo[t] \notin Over /\ result[t] = NoResult
<1>1. call[t] \in Calls /\ todo[t] # <<>> /\ Head(todo[t]).what = what
  BY InHold DEF IInv
<1>2. call[t] # NoCall
  BY <1>1, InputAssumption
<1>3. todo[t] # <<R>>
  <2>1. Head(<<R>>) = R
    OBVIOUS
  <2> QED
    BY <1>1, <2>1, HoldFields
<1>4. todo[t] \notin Over
  BY <1>1, <1>3 DEF Over
<1> QED
  BY <1>1, <1>2, <1>4 DEF Calm, Answered

\* A call acts: what is left is over, and it has its result.
LEMMA ActsCalmly ==
    ASSUME IInv, Calm, NEW t \in Threads, NEW what, In(t, what), what # "pass", Local(t),
           mode'[t] = "none", todo'[t] \in Over, result'[t] \in Results,
           text'[t] = <<>>
    PROVE  Calm'
<1>1. call[t] # NoCall /\ mode[t] # "none" /\ type' = type /\ call' = call
  BY NotYet DEF In, Local
<1>2. Answered(t)'
  BY <1>1 DEF Answered
<1>3. todo'[t] # <<StoreHold, R>>
  BY StoreIsElsewhere DEF Over
<1>4. ~In(t, "fetch")' /\ ~Writing(t)'
  BY DEF In, Writing
<1>5. Progress(t)'
  BY <1>1, <1>3, <1>4 DEF Progress, Numeric
<1> QED
  BY <1>1, <1>2, <1>5, StillCalm

\* A hold that leaves everything to the next ones.
LEMMA EndsCalmly ==
    ASSUME IInv, Calm, NEW t \in Threads, NEW what, In(t, what), what \in {"pass", "check", "ask"},
           what = "check" => call[t].off < PodTmp,
           what = "ask" => Agreed(type, call[t]),
           EndHold(t), UNCHANGED <<type, value, call, text, result>>
    PROVE  Calm'
<1>1. /\ call[t] \in Calls /\ todo[t] \in Over \cup Ahead(type, call[t]) /\ todo[t] # <<>>
      /\ mode[t] # "none" /\ Head(todo[t]).what = what /\ Now(type, call[t], todo[t])
  BY InHold DEF IInv
<1>2. call[t] # NoCall
  BY <1>1, InputAssumption
<1>3. mode'[t] = "none" /\ todo'[t] = Tail(todo[t])
  BY DEF EndHold, IInv, Control
<1>4. Local(t)
  BY DEF Local, EndHold, IInv, Control, Calm
<1>5. todo'[t] \in Over <=> todo[t] \in Over
  <2>1. CASE todo[t] = <<R>>
    <3>1. Tail(<<R>>) = <<>>
      OBVIOUS
    <3> QED
      BY <1>3, <2>1, <3>1, Zenon DEF Over
  <2>2. CASE todo[t] # <<R>>
    <3>1. todo[t] \notin Over
      BY <1>1, <2>2 DEF Over
    <3>2. Tail(todo[t]) \in Over \cup Ahead(type, call[t])
      BY TailAhead DEF IInv
    <3>3. what = "pass" => Tail(todo[t]) \in Ahead(type, call[t])
      BY <1>1, <2>2 DEF Now
    <3>4. what = "check" => Tail(todo[t]) = <<FetchHold, StoreHold, R>>
      BY <1>1 DEF Now
    <3>5. what = "ask" => Tail(todo[t]) = <<ClearHold, R>>
      BY <1>1 DEF Now
    <3>6. <<FetchHold, StoreHold, R>> \notin Over /\ <<ClearHold, R>> \notin Over
      BY DEF Over
    <3>7. what \in {"check", "ask"} => Tail(todo[t]) \notin Over
      BY <3>4, <3>5, <3>6, Zenon
    <3>8. Tail(todo[t]) \notin Over
      BY <1>1, <3>3, <3>7, AheadIsNotOver
    <3> QED
      BY <1>3, <3>1, <3>8
  <2> QED
    BY <2>1, <2>2
<1>6. Answered(t)'
  BY <1>2, <1>5 DEF Answered, Calm
<1>7. todo[t] # <<StoreHold, R>>
  BY <1>1, NotStore
<1>8. todo'[t] # <<StoreHold, R>>
  <2>1. CASE what = "pass"
    <3>1. Tail(<<R>>) = <<>>
      OBVIOUS
    <3> QED
      BY <1>1, <1>3, <2>1, <3>1, StoreIsElsewhere DEF Now
  <2>2. CASE what = "check"
    BY <1>1, <1>3, <2>2, StoreIsElsewhere DEF Now
  <2>3. CASE what = "ask"
    BY <1>1, <1>3, <2>3, StoreIsElsewhere DEF Now
  <2> QED
    BY <2>1, <2>2, <2>3
<1>9. ~In(t, "fetch")' /\ ~Writing(t)' /\ ~In(t, "fetch") /\ ~Writing(t)
  BY <1>1, <1>3 DEF In, Writing
<1>10. Progress(t)'
  <2>1. Progress(t)
    BY DEF Calm
  <2> QED
    BY <1>7, <1>8, <1>9, <2>1 DEF Progress
<1> QED
  BY <1>1, <1>4, <1>6, <1>10, StillCalm

-----------------------------------------------------------------------------
(* What a user sees                                                        *)

LEMMA NobodyPutting ==
    ASSUME Putting = {}, result \in [Threads -> Results \cup {NoResult}]
    PROVE  Shown = value /\ Told = result
<1>1. Shown = value
  BY DEF Shown
<1>2. Told = [t \in Threads |-> result[t]]
  BY DEF Told
<1> QED
  BY <1>1, <1>2

\* Nobody else is putting bytes while t has the lock, or gets to by what t does.
LEMMA OthersDoNotPut ==
    ASSUME IInv, Calm, NEW t \in Threads, mode[t] # "none"
    PROVE  /\ t \notin Putting => Putting = {}
           /\ Local(t) /\ t \notin Putting' => Putting' = {}
<1>1. ASSUME NEW u \in Threads, u # t PROVE u \notin Putting
  <2> SUFFICES ASSUME u \in Putting PROVE FALSE
    OBVIOUS
  <2>1. In(u, "put") /\ call[u].op = "write" /\ text[u] # <<>>
    BY DEF Putting
  <2>2. type \notin Numeric /\ mode[u] = "W" /\ type \in Types
    BY <2>1, InHold, PodAssumption DEF IInv, Control, Now
  <2> QED
    BY <1>1, <2>2 DEF Calm, Alone
<1>2. ASSUME NEW u \in Threads, u # t, Local(t) PROVE u \notin Putting'
  BY <1>1, <1>2 DEF Putting, In, Local
<1> QED
  BY <1>1, <1>2 DEF Putting

\* A step by which the file and the results stay as they are.
LEMMA Quiet ==
    ASSUME IInv, Calm, NEW t \in Threads, mode[t] # "none", Local(t),
           UNCHANGED <<value, result>>, type \notin Numeric \/ UNCHANGED text, t \notin Putting, t \notin Putting'
    PROVE  UNCHANGED Register!vars
<1>1. Putting = {} /\ Putting' = {}
  BY OthersDoNotPut
<1>2. Shown = value /\ Told = result
  BY <1>1, NobodyPutting DEF Calm
<1>3. Shown' = value'
  BY <1>1 DEF Shown
<1>4. Told' = [u \in Threads |-> result'[u]]
  BY <1>1 DEF Told
<1>5. Told' = result'
  BY <1>4 DEF Calm
<1>6. Seen' = Seen
  BY DEF Seen, Local
<1> QED
  BY <1>2, <1>3, <1>5, <1>6 DEF Register!vars, Local

\* PodRegister may make x of the value v, and of the text old seen before, by a call c
\* with the result y.
Offers(v, old, c, x, y) == [value |-> x, result |-> y] \in Register!Outcomes(v, old, c)

LEMMA AnswerIsResult ==
    ASSUME NEW n \in Int
    PROVE  Answer(n) \in Results /\ Answer(n).rval = n /\ Answer(n).bytes = <<>>
<1>1. <<>> \in Seq(Chars)
  OBVIOUS
<1> QED
  BY <1>1 DEF Answer, Results

LEMMA ReplyIsResult ==
    ASSUME NEW string \in Seq(Chars)
    PROVE  Reply(string) \in Results
BY LenProperties DEF Reply, Results

LEMMA ServedResult ==
    ASSUME NEW c, NEW r \in Results
    PROVE  Served(c, r) \in Results
<1>1. -EIO \in Int /\ 0 \in Int
  BY DEF EIO
<1>2. Answer(-EIO) \in Results /\ Answer(0) \in Results
  BY <1>1, AnswerIsResult
<1> QED
  BY <1>2 DEF Served

\* A call acts in one step.
LEMMA Acting ==
    ASSUME IInv, Calm, NEW t \in Threads, NEW what, In(t, what), what # "pass", t \notin Putting,
           NEW rest \in Over, FailHold(t, rest), NEW r \in Results, Returns(t, r),
           UNCHANGED <<type, call>>, UNCHANGED text \/ Keeps(t, <<>>),
           text'[t] = <<>>, Register!Looks(call[t]) => Seen[t] # <<>>,
           Offers(value, Seen[t], call[t], value', Served(call[t], r))
    PROVE  Calm' /\ Register!Act(t)
<1>1. call[t] \in Calls /\ call[t] # NoCall /\ result[t] = NoResult /\ mode[t] # "none"
  BY NotYet DEF In
<1>2. PICK y \in Results : y = Served(call[t], r)
  BY ServedResult
<1>3. /\ result' = [result EXCEPT ![t] = y] /\ result'[t] = y
      /\ mode'[t] = "none" /\ todo'[t] = rest /\ Local(t)
  <2>1. result' = [result EXCEPT ![t] = y]
    BY <1>2 DEF Returns
  <2>2. result' \in [Threads -> Results \cup {NoResult}] /\ result'[t] = y
    BY <2>1 DEF Calm
  <2>3. mode'[t] = "none" /\ todo'[t] = rest
    BY DEF FailHold, IInv, Control
  <2>4. \A u \in Threads \ {t} :
           mode'[u] = mode[u] /\ todo'[u] = todo[u] /\ text'[u] = text[u] /\ result'[u] = result[u]
    BY <2>1 DEF FailHold, IInv, Control, Data, Calm, Keeps
  <2> QED
    BY <2>1, <2>2, <2>3, <2>4 DEF Local
<1>4. Calm'
  BY <1>3, ActsCalmly
<1>5. t \notin Putting'
  BY <1>3 DEF Putting, In
<1>6. Putting = {} /\ Putting' = {}
  BY <1>1, <1>3, <1>5, OthersDoNotPut
<1>7. Shown = value /\ Told = result
  BY <1>6, NobodyPutting DEF Calm
<1>8. Shown' = value'
  BY <1>6 DEF Shown
<1>9. Told' = [u \in Threads |-> result'[u]]
  BY <1>6 DEF Told
<1>10. Told' = result'
  BY <1>3, <1>9 DEF Local
<1>11. PICK o \in Register!Outcomes(value, Seen[t], call[t]) : o.value = value' /\ o.result = y
  BY <1>2 DEF Offers
<1>12. Seen' = [Seen EXCEPT ![t] = <<>>]
  BY <1>3 DEF Seen, Local
<1>13. Register!Act(t)
  BY <1>1, <1>3, <1>7, <1>8, <1>10, <1>11, <1>12 DEF Register!Act
<1> QED
  BY <1>4, <1>13

-----------------------------------------------------------------------------
(* Reads                                                                   *)

LEMMA EndsAs ==
    ASSUME IInv, NEW t \in Threads, EndHold(t), NEW rest, Tail(todo[t]) = rest
    PROVE  FailHold(t, rest)
BY DEF EndHold, FailHold, IInv, Control

\* Equal character by character.
LEMMA SameText ==
    ASSUME NEW a \in Seq(Chars), NEW b \in Seq(Chars), Len(a) = Len(b),
           \A i \in 1..Len(a) : a[i] = b[i]
    PROVE  a = b
BY SeqEqual

LEMMA WholeText ==
    ASSUME NEW string \in Seq(Chars)
    PROVE  SubSeq(string, 1, Len(string)) = string
<1>1. Len(string) \in Nat
  BY LenProperties
<1>2. /\ SubSeq(string, 1, Len(string)) \in Seq(Chars)
      /\ Len(SubSeq(string, 1, Len(string))) = Len(string)
      /\ \A i \in 1..Len(string) : SubSeq(string, 1, Len(string))[i] = string[i + 1 - 1]
  BY <1>1, PieceOfText
<1> QED
  BY <1>2, SameText

\* Only a string is read or written byte by byte.
LEMMA NothingKept ==
    ASSUME Calm, NEW t \in Threads, type \in Types, todo[t] # <<StoreHold, R>>,
           ~In(t, "fetch"), ~Writing(t)
    PROVE  text[t] = <<>>
BY DEF Calm, Progress, Types

LEMMA NothingInHand ==
    ASSUME IInv, Calm, NEW t \in Threads, NEW what, In(t, what), what \notin {"fetch", "store"},
           ~Writing(t)
    PROVE  text[t] = <<>> /\ t \notin Putting
<1>1. Head(todo[t]).what = what /\ ~In(t, "fetch")
  BY InHold DEF IInv, In
<1>2. todo[t] # <<StoreHold, R>>
  BY <1>1, NotStore
<1>3. type \in Types
  BY PodAssumption DEF IInv, Control
<1>4. text[t] = <<>>
  BY <1>1, <1>2, <1>3, NothingKept
<1> QED
  BY <1>4 DEF Putting

\* Only a write to a number looks at the old text first.
LEMMA LooksAtNumbers ==
    ASSUME NEW t \in Threads,
           call[t].op # "write" \/ type \notin Numeric \/ ~(call[t].off < PodTmp)
    PROVE  ~Register!Looks(call[t])
BY DEF Register!Looks, Register!Numeric, Numeric

LEMMA NotPutting ==
    ASSUME NEW t \in Threads, ~Writing(t) \/ text[t] = <<>>
    PROVE  t \notin Putting
BY DEF Putting, Writing

\* procfuse_onFuseReadPOD returns what is left of the text behind the offset, ...
LEMMA ScalarIsRead ==
    ASSUME Ordinary, IInv, Calm, NEW t \in Threads, FetchScalar(t), call[t].op = "read"
    PROVE  Calm' /\ Register!Act(t)
<1> DEFINE c == call[t]
           printed == IF type = "char" THEN <<value>> ELSE value
           copied  == SubSeq(printed, c.off + 1, Len(printed))
           r == IF type # "char" /\ c.off > Len(printed) THEN Answer(-EINVAL) ELSE Reply(copied)
<1>1. /\ In(t, "fetch") /\ type # "string" /\ EndHold(t) /\ UNCHANGED <<type, value, call, text>>
      /\ c.op = "read" /\ c.op # "write" /\ Returns(t, r)
  BY DEF FetchScalar
<1>2. c \in Calls /\ Tail(todo[t]) = <<R>>
  BY <1>1, InHold DEF IInv, Now
<1>3. c.off \in Nat
  BY <1>1, <1>2, CallTypes
<1>4. FailHold(t, <<R>>) /\ <<R>> \in Over
  BY <1>1, <1>2, EndsAs DEF Over
<1>5. printed \in Seq(Chars)
  <2>1. CASE type = "char"
    BY <2>1 DEF IInv, Data
  <2>2. CASE type # "char"
    <3>1. value \in Numbers
      BY <1>1, <2>2, PodAssumption DEF IInv, Control, Data, Types
    <3> QED
      BY <2>2, <3>1, NumberIsText
  <2> QED
    BY <2>1, <2>2
<1>6. copied \in Seq(Chars)
  <2> HIDE DEF printed
  <2>1. Len(printed) \in Nat
    BY <1>5, LenProperties
  <2> QED
    BY <1>3, <1>5, <2>1, PieceOfText
<1>7. r \in Results
  <2>1. -EINVAL \in Int
    BY DEF EINVAL
  <2> HIDE DEF copied, printed
  <2> QED
    BY <1>6, <2>1, AnswerIsResult, ReplyIsResult
<1>8. Served(c, r) = r
  BY <1>1 DEF Served
<1>9. ~Writing(t)
  BY <1>1 DEF Writing
<1>10. t \notin Putting
  BY <1>9, NotPutting
<1>11. text'[t] = <<>> /\ ~Register!Looks(call[t])
  <2>1. Head(todo[t]).what = "fetch" /\ type \in Types
    BY <1>1, PodAssumption DEF In, IInv, Control
  <2>2. todo[t] # <<StoreHold, R>>
    BY <2>1, NotStore
  <2> QED
    BY <1>1, <2>1, <2>2, LooksAtNumbers DEF Calm, Progress, Types
<1>12. Register!Outcomes(value, Seen[t], c) = Register!Read(value, c)
  BY <1>1 DEF Register!Outcomes
<1>13. Offers(value, Seen[t], c, value', r)
  <2>1. CASE type = "char"
    <3>1. copied = IF c.off = 0 THEN <<value>> ELSE <<>>
      <4>1. printed = <<value>> /\ Len(<<value>>) = 1
        BY <2>1
      <4>2. CASE c.off = 0
        <5>1. SubSeq(printed, 1, Len(printed)) = printed
          BY <1>5, WholeText
        <5>2. c.off + 1 = 1
          BY <4>2
        <5>3. copied = printed
          BY <5>1, <5>2, Zenon
        <5> QED
          BY <4>1, <4>2, <5>3, Zenon
      <4>3. CASE c.off # 0
        <5>1. Len(copied) = 0
          <6> HIDE DEF printed
          <6>1. printed \in Seq(Chars) /\ Len(printed) = 1
            BY <1>5, <4>1
          <6> QED
            BY <1>3, <4>3, <6>1, PieceOfText
        <5> QED
          BY <1>6, <4>3, <5>1, EmptySeq
      <4> QED
        BY <4>2, <4>3
    <3> HIDE DEF copied
    <3>2. r = Reply(copied)
      BY <2>1
    <3>3. Register!Read(value, c) =
            {Register!Outcome(value, Register!Reply(IF c.off = 0 THEN <<value>> ELSE <<>>))}
      <4>1. type # "string" /\ type \notin Register!Numeric
        BY <2>1 DEF Register!Numeric
      <4> QED
        BY <2>1, <4>1 DEF Register!Read
    <3> QED
      BY <1>1, <1>12, <3>1, <3>2, <3>3 DEF Offers, Register!Outcome, Register!Reply, Reply
  <2>2. CASE type # "char"
    <3>1. type \in Numeric
      BY <1>1, <2>2, PodAssumption DEF IInv, Control, Types
    <3>2. r = IF c.off > Len(value) THEN Answer(-EINVAL)
              ELSE Reply(SubSeq(value, c.off + 1, Len(value)))
      BY <2>2
    <3>4. Register!Min({c.off + c.size, Len(value)}) = Len(value)
      <4>1. c.size \in Nat /\ c.off + c.size >= MaxPrinted
        BY <1>1, <1>2, <3>1, CallTypes, InputAssumption DEF IInv, Control, Entitled, MayBegin, Ordinary
      <4>2. PICK l \in Nat : l = Len(value) /\ l <= MaxPrinted
        BY <3>1, NumberIsText, InputAssumption DEF IInv, Data
      <4>3. PICK e \in Nat : e = c.off + c.size /\ e >= MaxPrinted
        BY <1>3, <4>1
      <4>4. e \in Int /\ l \in Int
        OBVIOUS
      <4>5. Min({e, l}) \in {e, l} /\ Min({e, l}) <= e /\ Min({e, l}) <= l
        BY <4>4, MinOfTwo, Zenon
      <4>6. Min({e, l}) = l
        BY <4>2, <4>3, <4>5, InputAssumption
      <4> QED
        BY <4>2, <4>3, <4>6 DEF Register!Min, Min
    <3>3. Register!Read(value, c) =
            {Register!Outcome(value,
                IF c.off > Len(value) THEN Register!Answer(-Register!EINVAL)
                ELSE Register!Reply(SubSeq(value, c.off + 1, Len(value))))}
      BY <1>1, <2>2, <3>1, <3>4 DEF Register!Read, Register!Numeric, Numeric
    <3> QED
      BY <1>1, <1>12, <3>2, <3>3
      DEF Offers, Register!Outcome, Register!Answer, Register!Reply, Answer, Reply,
          EINVAL, Register!EINVAL
  <2> QED
    BY <2>1, <2>2
<1> HIDE DEF r
<1> QED
  BY <1>1, <1>4, <1>7, <1>8, <1>10, <1>11, <1>13, Acting

\* ... or leaves all of it to a write.
LEMMA ScalarIsFetched ==
    ASSUME IInv, Calm, NEW t \in Threads, FetchScalar(t), call[t].op = "write"
    PROVE  Calm' /\ Register!Look(t)
<1>1. /\ In(t, "fetch") /\ type # "string" /\ EndHold(t) /\ UNCHANGED <<type, value, call, result>>
      /\ mode[t] # "none" /\ call[t].op # "read"
  BY DEF FetchScalar, In
<1>2. /\ call[t] \in Calls /\ type \in Numeric /\ Tail(todo[t]) = <<StoreHold, R>>
  BY <1>1, InHold DEF IInv, Now
<1>3. type # "char" /\ value \in Numbers
  BY <1>2 DEF IInv, Data, Numeric
<1>4. value \in Seq(Chars)
  BY <1>3, NumberIsText
<1>5. text' = [text EXCEPT ![t] = SubSeq(value, 0 + 1, Len(value))]
  BY <1>3 DEF FetchScalar, Keeps
<1>6. SubSeq(value, 0 + 1, Len(value)) = value
  BY <1>4, WholeText
<1>7. /\ text'[t] = value /\ mode'[t] = "none" /\ todo'[t] = <<StoreHold, R>> /\ Local(t)
  <2>1. mode'[t] = "none" /\ todo'[t] = <<StoreHold, R>>
    BY <1>1, <1>2 DEF EndHold, IInv, Control
  <2>2. text'[t] = value
    BY <1>5, <1>6 DEF IInv, Data
  <2>3. \A u \in Threads \ {t} :
           mode'[u] = mode[u] /\ todo'[u] = todo[u] /\ text'[u] = text[u] /\ result'[u] = result[u]
    BY <1>1, <1>5 DEF EndHold, IInv, Control, Data
  <2>4. result' \in [Threads -> Results \cup {NoResult}]
    BY <1>1 DEF Calm
  <2> QED
    BY <1>1, <2>1, <2>2, <2>3, <2>4 DEF Local
<1>8. result[t] = NoResult /\ call[t] # NoCall
  BY <1>1, NotYet
<1>9. <<StoreHold, R>> \notin Over
  BY DEF Over
<1>10. Answered(t)'
  BY <1>1, <1>7, <1>8, <1>9 DEF Answered
<1>11. Progress(t)'
  <2>1. value # <<>>
    BY <1>3 DEF Numbers
  <2>2. type \in Numeric /\ type # "string" /\ type # "char"
    BY <1>1, <1>2, <1>3
  <2> QED
    BY <1>1, <1>7, <2>1, <2>2 DEF Progress
<1>12. Calm'
  BY <1>1, <1>7, <1>10, <1>11, StillCalm
<1>13. t \notin Putting /\ t \notin Putting'
  BY <1>1, <1>7 DEF Putting, In
<1>14. Putting = {} /\ Putting' = {}
  BY <1>1, <1>7, <1>13, OthersDoNotPut
<1>15. Shown = value /\ Told = result
  BY <1>14, NobodyPutting DEF Calm
<1>16. Shown' = value'
  BY <1>14 DEF Shown
<1>17. Told' = [u \in Threads |-> result'[u]]
  BY <1>14 DEF Told
<1>18. Told' = Told
  BY <1>1, <1>15, <1>17 DEF Calm
<1>19. text[t] = <<>>
  <2>1. Head(todo[t]).what = "fetch"
    BY <1>1 DEF In
  <2>2. todo[t] # <<StoreHold, R>>
    BY <2>1, NotStore
  <2> QED
    BY <1>2, <2>2 DEF Calm, Progress
<1>20. Seen[t] = <<>> /\ Seen' = [Seen EXCEPT ![t] = value]
  BY <1>1, <1>2, <1>7, <1>19 DEF Seen, Local
<1>21. Register!Looks(call[t])
  <2>1. call[t].op = "write" /\ call[t].off < PodTmp
    BY <1>1, InHold DEF IInv, Now
  <2> QED
    BY <1>2, <2>1 DEF Register!Looks, Register!Numeric, Numeric
<1>22. Register!Look(t)
  BY <1>1, <1>8, <1>15, <1>16, <1>18, <1>20, <1>21 DEF Register!Look
<1> QED
  BY <1>12, <1>22

\* The bytes of a string a read gets at.
LEMMA EndOfRead ==
    ASSUME IInv, type = "string", NEW off \in Nat, NEW size \in Nat,
           NEW end, end = Min({off + size, value.length_r})
    PROVE  /\ value.r \in Seq(Chars) /\ Len(value.r) = MapSize /\ MapSize \in Nat
           /\ end \in Nat /\ end <= MapSize
<1>1. value.r \in Seq(Chars) /\ Len(value.r) = MapSize /\ value.length_r \in 0..MapSize
  BY DEF IInv, Data, Mapped
<1>2. PICK a \in Nat : a = off + size
  OBVIOUS
<1>3. PICK l \in Nat : l = value.length_r /\ l <= MapSize
  BY <1>1, InputAssumption
<1>4. a \in Int /\ l \in Int
  OBVIOUS
<1>5. Min({a, l}) \in {a, l} /\ Min({a, l}) <= l
  BY <1>4, MinOfTwo, Zenon
<1> QED
  BY <1>1, <1>2, <1>3, <1>5, InputAssumption

\* A read of a string copies its bytes, ...
LEMMA ByteIsFetched ==
    ASSUME IInv, Calm, NEW t \in Threads, FetchBytes(t),
           call[t].off + Len(text[t]) < Min({call[t].off + call[t].size, value.length_r})
    PROVE  Calm' /\ UNCHANGED Register!vars
<1>1. /\ In(t, "fetch") /\ type = "string" /\ type \notin Numeric /\ mode[t] # "none"
      /\ UNCHANGED <<type, value, call, mode, todo, result>>
      /\ Keeps(t, Append(text[t], value.r[(call[t].off + Len(text[t])) + 1]))
  BY DEF FetchBytes, In, Numeric
<1>2. call[t] \in Calls /\ call[t].op = "read"
  BY <1>1, InHold DEF IInv, Now
<1>3. PICK off \in Nat : off = call[t].off
  BY <1>2, CallTypes
<1>4. PICK size \in Nat : size = call[t].size
  BY <1>2, CallTypes
<1>5. PICK end : end = Min({off + size, value.length_r})
  OBVIOUS
<1>6. value.r \in Seq(Chars) /\ Len(value.r) = MapSize /\ end \in Nat /\ end <= MapSize /\ MapSize \in Nat
  BY <1>1, <1>5, EndOfRead
<1>7. PICK string \in Seq(Chars) : string = text[t]
  BY DEF IInv, Data
<1>8. PICK n \in Nat : n = Len(string)
  BY LenProperties
<1>9. off + n < end
  BY <1>3, <1>4, <1>5, <1>7, <1>8
<1>10. PICK b \in Chars : b = value.r[(off + n) + 1]
  BY <1>6, <1>8, <1>9, ElementOfSeq
<1>11. PICK new : new = Append(string, b)
  OBVIOUS
<1>12. new \in Seq(Chars) /\ Len(new) = n + 1 /\ new[n + 1] = b
       /\ \A i \in 1..n : new[i] = string[i]
  BY <1>8, <1>11, AppendProperties
<1>13. text' = [text EXCEPT ![t] = new]
  BY <1>1, <1>3, <1>7, <1>8, <1>10, <1>11 DEF Keeps
<1>14. text'[t] = new /\ Local(t)
  BY <1>1, <1>13 DEF IInv, Data, Local, Calm
<1>15. Progress(t)'
  <2>1. FetchedSoFar(t)
    BY <1>1 DEF Calm, Progress
  <2>2. \A i \in 1..n : string[i] = value.r[off + i]
    BY <1>3, <1>7, <1>8, <2>1 DEF FetchedSoFar
  <2>3. \A i \in 1..Len(new) : new[i] = value.r[off + i]
    <3> SUFFICES ASSUME NEW i \in 1..Len(new) PROVE new[i] = value.r[off + i]
      OBVIOUS
    <3>1. CASE i \in 1..n
      BY <1>12, <2>2, <3>1
    <3>2. CASE i = n + 1
      <4>1. (off + n) + 1 = off + i
        BY <1>8, <3>2
      <4> QED
        BY <1>10, <1>12, <3>2, <4>1
    <3> QED
      BY <1>8, <1>12, <3>1, <3>2
  <2>4. off + Len(new) <= end
    BY <1>6, <1>8, <1>9, <1>12
  <2>5. FetchedSoFar(t)'
    BY <1>1, <1>3, <1>4, <1>5, <1>14, <2>3, <2>4 DEF FetchedSoFar
  <2>6. ~Writing(t)' /\ In(t, "fetch")'
    BY <1>1, <1>2 DEF Writing, In
  <2> QED
    BY <1>1, <2>5, <2>6 DEF Progress
<1>16. Answered(t)'
  BY <1>1 DEF Calm, Answered
<1>17. Calm'
  BY <1>1, <1>14, <1>15, <1>16, StillCalm
<1>18. t \notin Putting /\ t \notin Putting'
  BY <1>1, <1>2 DEF Putting
<1> QED
  BY <1>1, <1>14, <1>17, <1>18, Quiet

\* ... and returns as many as there are.
LEMMA StringIsRead ==
    ASSUME IInv, Calm, NEW t \in Threads, FetchBytes(t),
           ~(call[t].off + Len(text[t]) < Min({call[t].off + call[t].size, value.length_r}))
    PROVE  Calm' /\ Register!Act(t)
<1>1. /\ In(t, "fetch") /\ type = "string" /\ type \notin Numeric /\ EndHold(t)
      /\ UNCHANGED <<type, value, call>>
      /\ Returns(t, Reply(text[t])) /\ Keeps(t, <<>>)
  BY DEF FetchBytes, Numeric
<1>2. call[t] \in Calls /\ call[t].op = "read" /\ Tail(todo[t]) = <<R>>
  BY <1>1, InHold DEF IInv, Now
<1>3. PICK off \in Nat : off = call[t].off
  BY <1>2, CallTypes
<1>4. PICK size \in Nat : size = call[t].size
  BY <1>2, CallTypes
<1>5. PICK end : end = Min({off + size, value.length_r})
  OBVIOUS
<1>6. value.r \in Seq(Chars) /\ Len(value.r) = MapSize /\ end \in Nat /\ end <= MapSize /\ MapSize \in Nat
  BY <1>1, <1>5, EndOfRead
<1>7. PICK string \in Seq(Chars) : string = text[t]
  BY DEF IInv, Data
<1>8. PICK n \in Nat : n = Len(string)
  BY LenProperties
<1>9. ~(off + n < end)
  BY <1>3, <1>4, <1>5, <1>7, <1>8
<1>10. /\ \A i \in 1..n : string[i] = value.r[off + i]
       /\ string # <<>> => off + n <= end
  <2>1. FetchedSoFar(t)
    BY <1>1 DEF Calm, Progress
  <2> QED
    BY <1>3, <1>4, <1>5, <1>7, <1>8, <2>1 DEF FetchedSoFar
<1>11. PICK piece : piece = SubSeq(value.r, off + 1, end)
  OBVIOUS
<1>12. piece = string
  <2> DEFINE m == off + 1
  <2>1. m \in Nat \ {0} /\ end \in Int /\ end <= Len(value.r)
    BY <1>6
  <2>2. /\ SubSeq(value.r, m, end) \in Seq(Chars)
        /\ Len(SubSeq(value.r, m, end)) = IF m <= end THEN end - m + 1 ELSE 0
        /\ \A i \in 1..Len(SubSeq(value.r, m, end)) : SubSeq(value.r, m, end)[i] = value.r[i + m - 1]
    <3> HIDE DEF m
    <3> QED
      BY <1>6, <2>1, PieceOfText
  <2>3. /\ piece \in Seq(Chars) /\ Len(piece) = IF off + 1 <= end THEN end - off ELSE 0
        /\ \A i \in 1..Len(piece) : piece[i] = value.r[i + (off + 1) - 1]
    BY <1>6, <1>11, <2>2
  <2>4. Len(piece) = n
    <3>1. CASE n = 0
      BY <1>6, <1>9, <2>3, <3>1
    <3>2. CASE n # 0
      <4>1. string # <<>>
        BY <1>8, <3>2
      <4> QED
        BY <1>6, <1>9, <1>10, <2>3, <3>2, <4>1
    <3> QED
      BY <3>1, <3>2
  <2>5. \A i \in 1..n : piece[i] = string[i]
    <3> SUFFICES ASSUME NEW i \in 1..n PROVE piece[i] = string[i]
      OBVIOUS
    <3>1. i + (off + 1) - 1 = off + i
      OBVIOUS
    <3> QED
      BY <1>10, <2>3, <2>4, <3>1
  <2> QED
    BY <1>8, <2>3, <2>4, <2>5, SameText
<1>13. PICK r \in Results : r = Reply(string)
  BY ReplyIsResult
<1>14. Served(call[t], r) = r
  BY <1>2 DEF Served
<1>15. Offers(value, Seen[t], call[t], value', r)
  <2>1. Register!Outcomes(value, Seen[t], call[t]) = Register!Read(value, call[t])
    BY <1>2 DEF Register!Outcomes
  <2>2. Register!Read(value, call[t]) =
          {Register!Outcome(value, Register!Reply(SubSeq(value.r, off + 1,
                                                         Register!Min({off + size, value.length_r}))))}
    <3>1. type # "char" /\ type = "string" /\ type \notin Register!Numeric
      BY <1>1 DEF Register!Numeric
    <3> QED
      BY <1>3, <1>4, <3>1 DEF Register!Read
  <2>3. Register!Min({off + size, value.length_r}) = end
    BY <1>5 DEF Register!Min, Min
  <2>4. Register!Read(value, call[t]) = {Register!Outcome(value, Register!Reply(string))}
    BY <1>11, <1>12, <2>2, <2>3
  <2> QED
    BY <1>1, <1>13, <2>1, <2>4 DEF Offers, Register!Outcome, Register!Reply, Reply
<1>16. FailHold(t, <<R>>) /\ <<R>> \in Over
  BY <1>1, <1>2, EndsAs DEF Over
<1>17. ~Writing(t)
  BY <1>2 DEF Writing
<1>18. t \notin Putting
  BY <1>17, NotPutting
<1>19. text'[t] = <<>> /\ ~Register!Looks(call[t])
  BY <1>1, LooksAtNumbers DEF Keeps, IInv, Data
<1>20. Returns(t, r)
  BY <1>1, <1>7, <1>13
<1> QED
  BY <1>1, <1>13, <1>14, <1>15, <1>16, <1>18, <1>19, <1>20, Acting

-----------------------------------------------------------------------------
(* Writes                                                                  *)

\* The character a write leaves.
LEMMA CharIsPut ==
    ASSUME IInv, Calm, NEW t \in Threads, PutChar(t)
    PROVE  Calm' /\ Register!Act(t)
<1>1. /\ In(t, "put") /\ call[t].op = "write" /\ type = "char" /\ type \notin Numeric /\ type # "string"
      /\ EndHold(t) /\ UNCHANGED <<type, call, text>> /\ Returns(t, Answer(1))
      /\ value' = call[t].buf[Len(call[t].buf)]
  BY DEF PutChar, Numeric
<1>2. call[t] \in Calls /\ Tail(todo[t]) = <<R>>
  BY <1>1, InHold DEF IInv, Now
<1>3. FailHold(t, <<R>>) /\ <<R>> \in Over
  BY <1>1, <1>2, EndsAs DEF Over
<1>4. PICK r \in Results : r = Answer(1)
  BY AnswerIsResult
<1>5. Returns(t, r) /\ Served(call[t], r) = r
  <2>1. r.rval = 1
    BY <1>4 DEF Answer
  <2> QED
    BY <1>1, <1>4, <2>1 DEF Served
<1>6. text[t] = <<>>
  BY <1>1 DEF Calm, Progress
<1>7. t \notin Putting /\ text'[t] = <<>> /\ ~Register!Looks(call[t])
  BY <1>1, <1>6, NotPutting, LooksAtNumbers
<1>8. Offers(value, Seen[t], call[t], value', Served(call[t], r))
  <2>1. Register!Outcomes(value, Seen[t], call[t]) = Register!Write(value, Seen[t], call[t])
    BY <1>1 DEF Register!Outcomes
  <2>2. type \notin Register!Numeric
    BY <1>1 DEF Register!Numeric
  <2>3. Register!Write(value, Seen[t], call[t]) =
          {Register!Outcome(call[t].buf[Len(call[t].buf)], Register!Answer(1))}
    BY <1>1, <1>7, <2>2 DEF Register!Write
  <2> QED
    BY <1>1, <1>4, <1>5, <2>1, <2>3 DEF Offers, Register!Outcome, Register!Answer, Answer
<1> QED
  BY <1>1, <1>3, <1>4, <1>5, <1>7, <1>8, Acting

\* What of a write there is room for.
LEMMA FitsIs ==
    ASSUME IInv, NEW t \in Threads, type = "string", call[t] \in Calls, call[t].op = "write"
    PROVE  /\ Fits(t) \in Seq(Chars)
           /\ Len(Fits(t)) = IF call[t].off >= value.length_r THEN 0
                             ELSE Min({Len(call[t].buf), value.length_r - call[t].off})
           /\ \A i \in 1..Len(Fits(t)) : Fits(t)[i] = call[t].buf[i]
<1>1. PICK off \in Nat : off = call[t].off
  BY CallTypes
<1>2. PICK buf \in Seq(Chars) : buf = call[t].buf
  BY CallTypes
<1>3. PICK l \in Nat : l = value.length_r
  BY InputAssumption DEF IInv, Data, Mapped
<1>4. PICK n \in Nat : n = Len(buf)
  BY LenProperties
<1>5. PICK d \in Int : d = l - off
  OBVIOUS
<1>6. n \in Int
  OBVIOUS
<1>7. Min({n, d}) \in {n, d} /\ Min({n, d}) <= n /\ Min({n, d}) <= d
  BY <1>5, <1>6, MinOfTwo, Zenon
<1>8. PICK m \in Int : m = Min({n, d}) /\ m <= n /\ m <= d /\ m \in {n, d}
  BY <1>5, <1>6, <1>7
<1>9. Fits(t) = SubSeq(buf, 1, m)
  BY <1>1, <1>2, <1>3, <1>4, <1>5, <1>8 DEF Fits, Fitting
<1>10. PICK x : x = SubSeq(buf, 1, m)
  OBVIOUS
<1>11. /\ x \in Seq(Chars) /\ Len(x) = IF 1 <= m THEN m - 1 + 1 ELSE 0
       /\ \A i \in 1..Len(x) : x[i] = buf[i + 1 - 1]
  <2>1. 1 \in Nat \ {0} /\ m \in Int /\ m <= Len(buf)
    BY <1>4, <1>8
  <2>2. /\ SubSeq(buf, 1, m) \in Seq(Chars)
        /\ Len(SubSeq(buf, 1, m)) = IF 1 <= m THEN m - 1 + 1 ELSE 0
        /\ \A i \in 1..Len(SubSeq(buf, 1, m)) : SubSeq(buf, 1, m)[i] = buf[i + 1 - 1]
    BY <2>1, PieceOfText, Zenon
  <2> QED
    BY <1>10, <2>2
<1>12. Len(x) \in Nat
  BY <1>11, LenProperties
<1>13. \A i \in 1..Len(x) : x[i] = buf[i]
  <2> SUFFICES ASSUME NEW i \in 1..Len(x) PROVE x[i] = buf[i]
    OBVIOUS
  <2>1. i + 1 - 1 = i
    BY <1>12
  <2> QED
    BY <1>11, <2>1
<1>14. Len(x) = IF off >= l THEN 0 ELSE m
  BY <1>5, <1>8, <1>11
<1> QED
  BY <1>1, <1>2, <1>3, <1>4, <1>5, <1>8, <1>9, <1>10, <1>11, <1>13, <1>14

\* A write that is refused has put nothing.
LEMMA NoneIsPut ==
    ASSUME IInv, Calm, NEW t \in Threads, PutRefused(t)
    PROVE  Calm' /\ Register!Act(t)
<1>1. /\ In(t, "put") /\ call[t].op = "write" /\ type = "string" /\ type \notin Numeric /\ type # "char"
      /\ EndHold(t) /\ UNCHANGED <<type, value, call, text>> /\ Writing(t)
  BY DEF PutRefused, Numeric, Writing
<1>2. call[t] \in Calls /\ Tail(todo[t]) = <<R>>
  BY <1>1, InHold DEF IInv, Now
<1>3. FailHold(t, <<R>>) /\ <<R>> \in Over
  BY <1>1, <1>2, EndsAs DEF Over
<1>4. PICK off \in Nat : off = call[t].off
  BY <1>2, CallTypes, <1>1
<1>5. PICK l \in Nat : l = value.length_r
  BY <1>1, InputAssumption DEF IInv, Data, Mapped
<1>6. \/ l = 0 /\ Returns(t, Answer(-EIO))
      \/ l > 0 /\ off > l /\ Returns(t, Answer(-EFBIG))
  BY <1>4, <1>5 DEF PutRefused
<1>7. Len(Fits(t)) = 0
  <2>1. off >= l
    BY <1>6
  <2>2. call[t].off >= value.length_r
    BY <1>4, <1>5, <2>1
  <2> QED
    BY <1>1, <1>2, <2>2, FitsIs
<1>8. text[t] = <<>>
  <2>1. Len(text[t]) <= 0 /\ text[t] \in Seq(Chars)
    BY <1>1, <1>7 DEF Calm, Progress, PutSoFar, IInv, Data
  <2>2. Len(text[t]) = 0
    BY <2>1, LenProperties
  <2> QED
    BY <2>1, <2>2, EmptySeq
<1>9. t \notin Putting /\ text'[t] = <<>> /\ ~Register!Looks(call[t])
  BY <1>1, <1>8, NotPutting, LooksAtNumbers
<1>10. Register!Outcomes(value, Seen[t], call[t]) = Register!Write(value, Seen[t], call[t]) /\ type \notin Register!Numeric
  BY <1>1 DEF Register!Outcomes, Register!Numeric
<1>11. -EIO \in Int /\ -EFBIG \in Int /\ -EIO # 0 /\ -EFBIG # 0
  BY DEF EIO, EFBIG
<1>12. CASE l = 0 /\ Returns(t, Answer(-EIO))
  <2>1. PICK r \in Results : r = Answer(-EIO) /\ r.rval # 0
    BY <1>11, AnswerIsResult
  <2>2. Served(call[t], r) = r
    BY <1>1, <2>1 DEF Served
  <2>3. Register!Write(value, Seen[t], call[t]) =
          {Register!Outcome(value, Register!Answer(-Register!EIO))}
    BY <1>1, <1>5, <1>9, <1>10, <1>12 DEF Register!Write
  <2>4. Offers(value, Seen[t], call[t], value', Served(call[t], r))
    BY <1>1, <1>10, <2>1, <2>2, <2>3
    DEF Offers, Register!Outcome, Register!Answer, Register!EIO, Answer, EIO
  <2>5. Returns(t, r)
    BY <1>12, <2>1
  <2> QED
    BY <1>1, <1>3, <1>9, <2>1, <2>4, <2>5, Acting
<1>13. CASE l > 0 /\ off > l /\ Returns(t, Answer(-EFBIG))
  <2>1. PICK r \in Results : r = Answer(-EFBIG) /\ r.rval # 0
    BY <1>11, AnswerIsResult
  <2>2. Served(call[t], r) = r
    BY <1>1, <2>1 DEF Served
  <2>3. Register!Write(value, Seen[t], call[t]) =
          {Register!Outcome(value, Register!Answer(-Register!EFBIG))}
    <3>1. ~(value.length_r = 0) /\ value.length_r > 0 /\ call[t].off > value.length_r
          /\ ~(call[t].off <= value.length_r)
      BY <1>4, <1>5, <1>13
    <3> QED
      BY <1>1, <1>9, <1>10, <3>1 DEF Register!Write
  <2>4. Offers(value, Seen[t], call[t], value', Served(call[t], r))
    BY <1>1, <1>10, <2>1, <2>2, <2>3
    DEF Offers, Register!Outcome, Register!Answer, Register!EFBIG, Answer, EFBIG
  <2>5. Returns(t, r)
    BY <1>13, <2>1
  <2> QED
    BY <1>1, <1>3, <1>9, <2>1, <2>4, <2>5, Acting
<1> QED
  BY <1>6, <1>12, <1>13

\* A write of bytes that is not refused.
LEMMA WriteAt ==
    ASSUME IInv, NEW t \in Threads, PutBytes(t)
    PROVE  /\ In(t, "put") /\ Writing(t) /\ type = "string" /\ type # "char" /\ type \notin Numeric
           /\ call[t] \in Calls /\ call[t].op = "write" /\ Tail(todo[t]) = <<R>>
           /\ UNCHANGED <<type, call>> /\ Mapped(value)
           /\ call[t].off \in Nat /\ value.length_r \in Nat /\ MapSize \in Nat
           /\ value.length_r > 0 /\ call[t].off <= value.length_r /\ value.length_r <= MapSize
           /\ call[t].buf \in Seq(Chars) /\ call[t].buf # <<>>
           /\ Fits(t) \in Seq(Chars) /\ Len(Fits(t)) \in Nat
           /\ call[t].off + Len(Fits(t)) <= value.length_r
<1>1. /\ In(t, "put") /\ Writing(t) /\ type = "string" /\ type # "char" /\ type \notin Numeric
      /\ call[t].op = "write" /\ UNCHANGED <<type, call>>
      /\ value.length_r > 0 /\ call[t].off <= value.length_r
  BY DEF PutBytes, Numeric, Writing
<1>2. call[t] \in Calls /\ Tail(todo[t]) = <<R>>
  BY <1>1, InHold DEF IInv, Now
<1>3. call[t].off \in Nat /\ call[t].buf \in Seq(Chars) /\ call[t].buf # <<>>
  BY <1>1, <1>2, CallTypes
<1>4. Mapped(value) /\ value.length_r \in Nat /\ MapSize \in Nat /\ value.length_r <= MapSize
  BY <1>1, InputAssumption DEF IInv, Data, Mapped
<1>5. call[t].off \in 0..value.length_r
  BY <1>1, <1>3, <1>4
<1>6. Fits(t) \in Seq(Chars) /\ call[t].off + Len(Fits(t)) <= value.length_r
  BY <1>3, <1>4, <1>5, FittingFits DEF Fits
<1>7. Len(Fits(t)) \in Nat
  BY <1>6, LenProperties
<1> QED
  BY <1>1, <1>2, <1>3, <1>4, <1>6, <1>7

\* What one thread that is putting bytes shows.
Complete(t) == [value EXCEPT !.r = Put(@, call[t].off, Fits(t))]
Reported(t) == Served(call[t], Answer(Len(Fits(t))))

LEMMA WhilePutting ==
    ASSUME NEW t \in Threads, Putting = {t}
    PROVE  /\ Shown = Complete(t)
           /\ Told = [u \in Threads |-> IF u = t THEN Reported(t) ELSE result[u]]
<1>1. (CHOOSE u \in Putting : TRUE) = t
  OBVIOUS
<1>2. Shown = Complete(t)
  BY <1>1 DEF Shown, Complete
<1>3. \A u \in Threads : (IF u \in Putting THEN Served(call[u], Answer(Len(Fits(u)))) ELSE result[u])
                           = (IF u = t THEN Reported(t) ELSE result[u])
  BY DEF Reported
<1>4. Told = [u \in Threads |-> IF u = t THEN Reported(t) ELSE result[u]]
  BY <1>3 DEF Told
<1> QED
  BY <1>2, <1>4

\* The bytes there is room for, position by position.
Written(r, off, l, buf) ==
    [i \in DOMAIN r |-> IF i > off /\ i <= Min({off + Len(buf), l}) THEN buf[i - off] ELSE r[i]]

RoomFor(off, l, buf, fits) ==
    /\ Len(fits) = IF off >= l THEN 0 ELSE Min({Len(buf), l - off})
    /\ \A i \in 1..Len(fits) : fits[i] = buf[i]

LEMMA WrittenIs ==
    ASSUME NEW r \in Seq(Chars), NEW off \in Nat, NEW l \in Nat, off <= l, l <= Len(r),
           NEW buf \in Seq(Chars), NEW fits \in Seq(Chars), RoomFor(off, l, buf, fits)
    PROVE  Written(r, off, l, buf) = Put(r, off, fits)
<1>1. PICK b \in Nat : b = Len(buf)
  BY LenProperties
<1>2. PICK k \in Nat : k = Len(r)
  BY LenProperties
<1>3. PICK f \in Nat : f = Len(fits)
  BY LenProperties
<1>4. PICK end \in Nat : end = off + b
  OBVIOUS
<1>5. PICK room \in Int : room = l - off
  OBVIOUS
<1>6. b \in Int /\ l \in Int /\ end \in Int
  OBVIOUS
<1>7. Min({end, l}) \in {end, l} /\ Min({end, l}) <= end /\ Min({end, l}) <= l
  BY <1>6, MinOfTwo, Zenon
<1>8. Min({b, room}) \in {b, room} /\ Min({b, room}) <= b /\ Min({b, room}) <= room
  BY <1>5, <1>6, MinOfTwo, Zenon
<1>9. PICK last \in Nat : last = Min({end, l})
  BY <1>7
<1>10. f = IF off >= l THEN 0 ELSE Min({b, room})
  BY <1>1, <1>3, <1>5 DEF RoomFor
<1>11. last = off + f
  <2>1. PICK m \in Int : m = Min({b, room})
    BY <1>5, <1>8
  <2>2. m \in {b, room} /\ m <= b /\ m <= room /\ last \in {end, l} /\ last <= end /\ last <= l
    BY <1>7, <1>8, <1>9, <2>1
  <2>3. f = IF off >= l THEN 0 ELSE m
    BY <1>10, <2>1
  <2> QED
    BY <1>4, <1>5, <2>2, <2>3
<1>12. off + f <= k /\ off <= k
  BY <1>2, <1>7, <1>9, <1>11
<1>13. PICK new : new = Put(r, off, fits)
  OBVIOUS
<1>14. /\ new \in Seq(Chars) /\ Len(new) = k
       /\ \A i \in 1..k : new[i] = IF i > off /\ i <= off + f THEN fits[i - off] ELSE r[i]
  BY <1>2, <1>3, <1>12, <1>13, PutIs
<1>15. \A i \in 1..k : i > off /\ i <= off + f => fits[i - off] = buf[i - off]
  <2> SUFFICES ASSUME NEW i \in 1..k, i > off, i <= off + f PROVE fits[i - off] = buf[i - off]
    OBVIOUS
  <2>1. PICK j \in 1..f : j = i - off
    OBVIOUS
  <2> QED
    BY <1>3, <2>1 DEF RoomFor
<1>16. DOMAIN r = 1..k /\ DOMAIN new = 1..k /\ new = [i \in 1..k |-> new[i]]
  BY <1>2, <1>14, LenProperties
<1>17. [i \in 1..k |-> IF i > off /\ i <= last THEN buf[i - off] ELSE r[i]] = new
  BY <1>11, <1>14, <1>15, <1>16
<1>18. Min({off + Len(buf), l}) = last
  BY <1>1, <1>4, <1>9
<1> DEFINE g == [i \in DOMAIN r |->
                    IF i > off /\ i <= Min({off + Len(buf), l}) THEN buf[i - off] ELSE r[i]]
           h == [i \in 1..k |-> IF i > off /\ i <= last THEN buf[i - off] ELSE r[i]]
<1>19. g = h
  BY <1>16, <1>18, Zenon
<1>20. h = new
  BY <1>17, Zenon
<1>21. g = Put(r, off, fits)
  <2> HIDE DEF g, h
  <2> QED
    BY <1>13, <1>19, <1>20
<1> QED
  BY <1>21 DEF Written

\* What PodRegister makes of it.
LEMMA WriteOffers ==
    ASSUME IInv, NEW t \in Threads, PutBytes(t)
    PROVE  Offers(value, Seen[t], call[t], Complete(t), Reported(t))
<1>1. Register!Outcomes(value, Seen[t], call[t]) = Register!Write(value, Seen[t], call[t])
  BY WriteAt DEF Register!Outcomes
<1>2. PICK off \in Nat : off = call[t].off
  BY WriteAt
<1>3. PICK l \in Nat : l = value.length_r
  BY WriteAt
<1>4. PICK buf \in Seq(Chars) : buf = call[t].buf
  BY WriteAt
<1>5. PICK r \in Seq(Chars) : r = value.r
  BY WriteAt DEF Mapped
<1>6. PICK fits \in Seq(Chars) : fits = Fits(t)
  BY WriteAt
<1>7. off <= l /\ l > 0 /\ l <= Len(r) /\ Len(fits) \in Nat /\ Len(buf) \in Nat /\ Len(buf) # 0
  BY <1>2, <1>3, <1>4, <1>5, <1>6, WriteAt, LenProperties, EmptySeq DEF Mapped
<1>8. RoomFor(off, l, buf, fits)
  BY <1>2, <1>3, <1>4, <1>6, WriteAt, FitsIs DEF RoomFor
<1>9. Written(r, off, l, buf) = Put(r, off, fits)
  BY <1>7, <1>8, WrittenIs
<1>10. PICK n \in Int : n = IF off = l THEN -EIO ELSE Min({Len(buf), l - off})
  <2>1. PICK d \in Int : d = l - off
    OBVIOUS
  <2>2. Len(buf) \in Int
    BY <1>7
  <2>3. Min({Len(buf), d}) \in {Len(buf), d}
    BY <2>1, <2>2, MinOfTwo, Zenon
  <2>4. Min({Len(buf), l - off}) \in Int
    BY <2>1, <2>2, <2>3
  <2> QED
    BY <2>4 DEF EIO
<1>11. Reported(t) = Answer(n)
  <2>1. call[t].op = "write"
    BY WriteAt
  <2>2. CASE off = l
    <3>1. Len(fits) = 0
      BY <1>8, <2>2 DEF RoomFor
    <3>2. Answer(0).rval = 0
      BY DEF Answer
    <3> QED
      BY <1>6, <1>10, <2>1, <2>2, <3>1, <3>2 DEF Reported, Served
  <2>3. CASE off # l
    <3>1. ~(off >= l)
      BY <1>7, <2>3
    <3>2. Len(fits) = n
      BY <1>8, <1>10, <2>3, <3>1 DEF RoomFor
    <3>3. n # 0
      <4>1. PICK d \in Int : d = l - off
        OBVIOUS
      <4>2. Len(buf) \in Int
        BY <1>7
      <4>3. Min({Len(buf), d}) \in {Len(buf), d}
        BY <4>1, <4>2, MinOfTwo, Zenon
      <4>4. d # 0
        BY <2>3, <4>1
      <4>5. n = Min({Len(buf), d})
        BY <1>10, <2>3, <4>1
      <4> QED
        BY <1>7, <4>3, <4>4, <4>5
    <3>4. Answer(n).rval = n
      BY DEF Answer
    <3> QED
      BY <1>6, <2>1, <3>2, <3>3, <3>4 DEF Reported, Served
  <2> QED
    BY <2>2, <2>3
<1>12. Register!Write(value, Seen[t], call[t]) =
          {Register!Outcome([value EXCEPT !.r = [i \in DOMAIN @ |->
                                IF i > off /\ i <= Register!Min({off + Len(buf), l})
                                THEN buf[i - off] ELSE @[i]]],
                            Register!Answer(IF off = l THEN -Register!EIO
                                            ELSE Register!Min({Len(buf), l - off})))}
  <2>1. type \notin Register!Numeric /\ type # "char" /\ type = "string"
    BY WriteAt DEF Register!Numeric
  <2>2. ~(l = 0) /\ l > 0 /\ ~(off > l) /\ off <= l
    BY <1>7
  <2>3. ~Register!Looks(call[t])
    BY WriteAt, LooksAtNumbers
  <2> QED
    BY <1>2, <1>3, <1>4, <2>1, <2>2, <2>3 DEF Register!Write
<1>13. /\ Register!Min({off + Len(buf), l}) = Min({off + Len(buf), l})
       /\ Register!Min({Len(buf), l - off}) = Min({Len(buf), l - off})
       /\ Register!EIO = EIO
  BY DEF Register!Min, Min, Register!EIO, EIO
<1>14. Register!Write(value, Seen[t], call[t]) =
          {Register!Outcome([value EXCEPT !.r = Put(r, off, fits)], Register!Answer(n))}
  <2>1. Register!Write(value, Seen[t], call[t]) =
          {Register!Outcome([value EXCEPT !.r = Written(r, off, l, buf)], Register!Answer(n))}
    BY <1>5, <1>10, <1>12, <1>13 DEF Written
  <2> QED
    BY <1>9, <2>1
<1>15. Complete(t) = [value EXCEPT !.r = Put(r, off, fits)]
  BY <1>2, <1>5, <1>6 DEF Complete
<1> QED
  BY <1>1, <1>11, <1>14, <1>15 DEF Offers, Register!Outcome, Register!Answer, Answer

\* Bytes put within a text, position by position.
Inside(r, off, fits) == off + Len(fits) <= Len(r)

HasPut(r, off, fits, y) ==
    /\ y \in Seq(Chars) /\ Len(y) = Len(r)
    /\ \A i \in 1..Len(r) : i > off /\ i <= off + Len(fits) => y[i] = fits[i - off]
    /\ \A i \in 1..Len(r) : ~(i > off /\ i <= off + Len(fits)) => y[i] = r[i]

LEMMA PutInside ==
    ASSUME NEW r \in Seq(Chars), NEW off \in Nat, NEW fits \in Seq(Chars), Inside(r, off, fits)
    PROVE  HasPut(r, off, fits, Put(r, off, fits))
<1>1. Len(r) \in Nat /\ Len(fits) \in Nat
  BY LenProperties
<1>2. off <= Len(r) /\ Len(r) >= off + Len(fits)
  BY <1>1 DEF Inside
<1>3. PICK y : y = Put(r, off, fits)
  OBVIOUS
<1>4. /\ y \in Seq(Chars)
      /\ Len(y) = IF Len(r) >= off + Len(fits) THEN Len(r) ELSE off + Len(fits)
      /\ \A i \in 1..Len(y) :
            y[i] = IF i > off /\ i <= off + Len(fits) THEN fits[i - off] ELSE r[i]
  BY <1>2, <1>3, PutIs
<1> QED
  BY <1>1, <1>2, <1>3, <1>4 DEF HasPut

\* One byte of a buffer more.
OneMore(r, off, fits, d, one) ==
    /\ d < Len(fits) /\ off + Len(fits) <= Len(r)
    /\ one = Put(r, off + d, <<fits[d + 1]>>)

\* The bytes that are there already make no difference.
LEMMA PutTwice ==
    ASSUME NEW r \in Seq(Chars), NEW off \in Nat, NEW fits \in Seq(Chars), NEW d \in Nat,
           NEW one, OneMore(r, off, fits, d, one)
    PROVE  /\ Put(one, off, fits) = Put(r, off, fits)
           /\ one \in Seq(Chars) /\ Len(one) = Len(r)
           /\ \A i \in 1..Len(r) : one[i] = IF i = off + d + 1 THEN fits[d + 1] ELSE r[i]
<1>1. PICK k \in Nat : k = Len(r)
  BY LenProperties
<1>2. PICK f \in Nat : f = Len(fits)
  BY LenProperties
<1>3. PICK at \in Nat : at = off + d
  OBVIOUS
<1>4. PICK b \in Chars : b = fits[d + 1]
  BY <1>2, ElementOfSeq DEF OneMore
<1>5. PICK string : string = <<b>>
  OBVIOUS
<1>6. string \in Seq(Chars) /\ Len(string) = 1 /\ string[1] = b
  BY <1>4, <1>5
<1>7. one = Put(r, at, string) /\ at + 1 <= k /\ off + f <= k /\ at + Len(string) <= Len(r)
  BY <1>1, <1>2, <1>3, <1>4, <1>5, <1>6 DEF OneMore
<1>8. /\ one \in Seq(Chars) /\ Len(one) = k
      /\ \A i \in 1..k : i > at /\ i <= at + 1 => one[i] = string[i - at]
      /\ \A i \in 1..k : ~(i > at /\ i <= at + 1) => one[i] = r[i]
  <2>1. HasPut(r, at, string, one)
    BY <1>6, <1>7, PutInside DEF Inside
  <2> QED
    BY <1>1, <1>6, <2>1 DEF HasPut
<1>9. /\ one[at + 1] = b
      /\ \A i \in 1..k : i # at + 1 => one[i] = r[i]
  <2>1. PICK i \in 1..k : i = at + 1 /\ i - at = 1
    BY <1>7
  <2>2. i > at /\ i <= at + 1
    BY <2>1
  <2>3. one[i] = string[i - at] /\ string[i - at] = b
    BY <1>6, <1>8, <2>1, <2>2
  <2>4. ASSUME NEW j \in 1..k, j # at + 1 PROVE one[j] = r[j]
    <3>1. ~(j > at /\ j <= at + 1)
      BY <2>4
    <3> QED
      BY <1>8, <3>1
  <2> QED
    BY <2>1, <2>3, <2>4
<1>10. PICK x : x = Put(one, off, fits)
  OBVIOUS
<1>11. PICK y : y = Put(r, off, fits)
  OBVIOUS
<1>12. /\ x \in Seq(Chars) /\ Len(x) = k
       /\ \A i \in 1..k : i > off /\ i <= off + f => x[i] = fits[i - off]
       /\ \A i \in 1..k : ~(i > off /\ i <= off + f) => x[i] = one[i]
  <2>1. Inside(one, off, fits)
    BY <1>2, <1>7, <1>8 DEF Inside
  <2>2. HasPut(one, off, fits, x)
    BY <1>8, <1>10, <2>1, PutInside
  <2> QED
    BY <1>2, <1>8, <2>2 DEF HasPut
<1>13. /\ y \in Seq(Chars) /\ Len(y) = k
       /\ \A i \in 1..k : i > off /\ i <= off + f => y[i] = fits[i - off]
       /\ \A i \in 1..k : ~(i > off /\ i <= off + f) => y[i] = r[i]
  <2>1. Inside(r, off, fits)
    BY <1>1, <1>2, <1>7 DEF Inside
  <2>2. HasPut(r, off, fits, y)
    BY <1>11, <2>1, PutInside
  <2> QED
    BY <1>1, <1>2, <2>2 DEF HasPut
<1>14. \A i \in 1..k : x[i] = y[i]
  <2> SUFFICES ASSUME NEW i \in 1..k PROVE x[i] = y[i]
    OBVIOUS
  <2>1. CASE i > off /\ i <= off + f
    BY <1>12, <1>13, <2>1
  <2>2. CASE ~(i > off /\ i <= off + f)
    <3>1. i # at + 1
      BY <1>2, <1>3, <2>2 DEF OneMore
    <3> QED
      BY <1>9, <1>12, <1>13, <2>2, <3>1
  <2> QED
    BY <2>1, <2>2
<1>15. x = y
  BY <1>12, <1>13, <1>14, SameText
<1> QED
  BY <1>1, <1>3, <1>4, <1>8, <1>9, <1>10, <1>11, <1>15

LEMMA PutAlready ==
    ASSUME NEW r \in Seq(Chars), NEW off \in Nat, NEW fits \in Seq(Chars),
           off + Len(fits) <= Len(r), \A i \in 1..Len(fits) : r[off + i] = fits[i]
    PROVE  Put(r, off, fits) = r
<1>1. PICK k \in Nat : k = Len(r)
  BY LenProperties
<1>2. PICK f \in Nat : f = Len(fits)
  BY LenProperties
<1>3. PICK y : y = Put(r, off, fits)
  OBVIOUS
<1>4. /\ y \in Seq(Chars) /\ Len(y) = k
      /\ \A i \in 1..k : i > off /\ i <= off + f => y[i] = fits[i - off]
      /\ \A i \in 1..k : ~(i > off /\ i <= off + f) => y[i] = r[i]
  <2>1. HasPut(r, off, fits, y)
    BY <1>3, PutInside DEF Inside
  <2> QED
    BY <1>1, <1>2, <2>1 DEF HasPut
<1>5. \A i \in 1..k : y[i] = r[i]
  <2> SUFFICES ASSUME NEW i \in 1..k, i > off, i <= off + f PROVE y[i] = r[i]
    BY <1>4
  <2>1. PICK j \in 1..f : j = i - off /\ off + j = i
    OBVIOUS
  <2> QED
    BY <1>2, <1>4, <2>1
<1> QED
  BY <1>1, <1>3, <1>4, <1>5, SameText

\* A byte is put.
LEMMA ByteIsPut ==
    ASSUME IInv, Calm, NEW t \in Threads, PutBytes(t), Len(text[t]) < Len(Fits(t))
    PROVE  /\ Calm' /\ Putting' = {t} /\ UNCHANGED <<type, call, result>>
           /\ Complete(t)' = Complete(t) /\ Reported(t)' = Reported(t)
<1>1. PICK off \in Nat : off = call[t].off
  BY WriteAt
<1>2. PICK fits \in Seq(Chars) : fits = Fits(t) /\ Len(fits) \in Nat
  BY WriteAt
<1>3. PICK r \in Seq(Chars) : r = value.r /\ Len(r) = MapSize
  BY WriteAt DEF Mapped
<1>4. PICK string \in Seq(Chars) : string = text[t]
  BY DEF IInv, Data
<1>5. PICK d \in Nat : d = Len(string)
  BY LenProperties
<1>6. d < Len(fits) /\ off + Len(fits) <= Len(r) /\ Len(r) \in Nat
  BY <1>1, <1>2, <1>3, <1>4, <1>5, WriteAt
<1>7. PICK b \in Chars : b = fits[d + 1]
  BY <1>2, <1>5, <1>6, ElementOfSeq
<1>8. PICK one : one = Put(r, off + d, <<b>>)
  OBVIOUS
<1>9. /\ Put(one, off, fits) = Put(r, off, fits)
      /\ one \in Seq(Chars) /\ Len(one) = Len(r)
      /\ \A i \in 1..Len(r) : one[i] = IF i = off + d + 1 THEN b ELSE r[i]
  <2>1. OneMore(r, off, fits, d, one)
    BY <1>6, <1>7, <1>8 DEF OneMore
  <2>2. /\ Put(one, off, fits) = Put(r, off, fits)
        /\ one \in Seq(Chars) /\ Len(one) = Len(r)
        /\ \A i \in 1..Len(r) : one[i] = IF i = off + d + 1 THEN fits[d + 1] ELSE r[i]
    BY <2>1, PutTwice
  <2> QED
    BY <1>7, <2>2
<1>10. PICK new \in Seq(Chars) : new = Append(string, b)
  BY AppendProperties
<1>11. Len(new) = d + 1 /\ new[d + 1] = b /\ \A i \in 1..d : new[i] = string[i]
  BY <1>5, <1>10, AppendProperties
<1>12. /\ value' = [value EXCEPT !.r = one] /\ text' = [text EXCEPT ![t] = new]
       /\ UNCHANGED <<type, call, mode, todo, result>>
  <2>1. Fitting(value, call[t].off, call[t].buf) = fits
    BY <1>2 DEF Fits
  <2>2. /\ value' = [value EXCEPT !.r = Put(@, call[t].off + Len(text[t]), <<fits[Len(text[t]) + 1]>>)]
        /\ Keeps(t, Append(text[t], fits[Len(text[t]) + 1]))
        /\ UNCHANGED <<type, call, mode, todo, result>>
    BY <1>2, <2>1 DEF PutBytes
  <2> QED
    BY <1>1, <1>3, <1>4, <1>5, <1>7, <1>8, <1>10, <2>2 DEF Keeps
<1>13. value' = [r |-> one, length_r |-> value.length_r, w |-> value.w]
  BY <1>12, WriteAt, MappedWith
<1>14. /\ value'.r = one /\ value'.length_r = value.length_r /\ value'.w = value.w
       /\ Mapped(value')
  <2>1. Mapped(value')
    <3>1. Mapped(value) /\ value.length_r \in 0..MapSize /\ one \in Seq(Chars) /\ Len(one) = MapSize
      BY <1>3, <1>9, WriteAt DEF Mapped
    <3>2. Mapped([value EXCEPT !.r = one])
      BY <3>1, StaysMapped
    <3> QED
      BY <1>12, <3>2
  <2> QED
    BY <1>13, <2>1
<1>15. Fits(t)' = fits
  BY <1>2, <1>12, <1>14 DEF Fits, Fitting
<1>16. Complete(t)' = Complete(t)
  <2>1. Complete(t) = [value EXCEPT !.r = Put(r, off, fits)]
    BY <1>1, <1>2, <1>3 DEF Complete
  <2>2. Complete(t)' = [value' EXCEPT !.r = Put(one, off, fits)]
    BY <1>1, <1>12, <1>14, <1>15 DEF Complete
  <2>3. PICK all : all = Put(r, off, fits) /\ all = Put(one, off, fits)
    BY <1>9
  <2>4. Complete(t) = [r |-> all, length_r |-> value.length_r, w |-> value.w]
    BY <2>1, <2>3, WriteAt, MappedWith
  <2>5. Complete(t)' = [r |-> all, length_r |-> value'.length_r, w |-> value'.w]
    <3>1. PICK v : v = value'
      OBVIOUS
    <3>2. Mapped(v)
      BY <1>14, <3>1
    <3>3. [v EXCEPT !.r = all] = [r |-> all, length_r |-> v.length_r, w |-> v.w]
      BY <3>2, MappedWith
    <3> QED
      BY <2>2, <2>3, <3>1, <3>3
  <2> QED
    BY <1>14, <2>4, <2>5
<1>17. Reported(t)' = Reported(t)
  BY <1>2, <1>12, <1>15 DEF Reported, Served, Answer
<1>18. text'[t] = new /\ Local(t)
  BY <1>12 DEF IInv, Data, Local, Calm
<1>19. In(t, "put")' /\ Writing(t)' /\ ~In(t, "fetch")'
  BY <1>12, WriteAt DEF In, Writing
<1>20. PutSoFar(t)'
  <2>1. PutSoFar(t)
    BY WriteAt DEF Calm, Progress
  <2>2. \A i \in 1..d : r[off + i] = fits[i]
    BY <1>1, <1>2, <1>3, <1>4, <1>5, <2>1 DEF PutSoFar
  <2>3. \A i \in 1..(d + 1) : one[off + i] = fits[i]
    <3> SUFFICES ASSUME NEW i \in 1..(d + 1) PROVE one[off + i] = fits[i]
      OBVIOUS
    <3>1. PICK j \in 1..Len(r) : j = off + i
      BY <1>5, <1>6
    <3>2. one[j] = IF j = off + d + 1 THEN b ELSE r[j]
      BY <1>9
    <3>3. CASE i = d + 1
      BY <1>7, <3>1, <3>2, <3>3
    <3>4. CASE i # d + 1
      <4>1. i \in 1..d /\ j # off + d + 1
        BY <3>1, <3>4
      <4> QED
        BY <2>2, <3>1, <3>2, <4>1
    <3> QED
      BY <3>3, <3>4
  <2>4. Len(new) <= Len(fits)
    BY <1>2, <1>6, <1>11
  <2> QED
    BY <1>1, <1>11, <1>12, <1>14, <1>15, <1>18, <2>3, <2>4 DEF PutSoFar
<1>21. Progress(t)'
  BY <1>12, <1>19, <1>20, WriteAt DEF Progress
<1>22. Answered(t)'
  BY <1>12 DEF Calm, Answered
<1>23. mode[t] # "none"
  BY WriteAt DEF In
<1>24. Calm'
  BY <1>18, <1>21, <1>22, <1>23, StillCalm
<1>25. new # <<>>
  BY <1>11
<1>26. t \in Putting'
  BY <1>18, <1>19, <1>25, WriteAt, <1>12 DEF Putting
<1>27. \A u \in Threads \ {t} : u \notin Putting'
  <2> SUFFICES ASSUME NEW u \in Threads, u # t, u \in Putting' PROVE FALSE
    OBVIOUS
  <2>1. In(u, "put") /\ call[u].op = "write"
    BY <1>12 DEF Putting, In
  <2>2. call[u] \in Calls /\ mode[u] = "W"
    BY <2>1, InHold, WriteAt DEF IInv, Now
  <2> QED
    BY <1>23, <2>2 DEF Calm, Alone
<1> QED
  BY <1>12, <1>16, <1>17, <1>24, <1>26, <1>27 DEF Putting

LEMMA WhilePuttingThen ==
    ASSUME NEW t \in Threads, Putting' = {t}
    PROVE  /\ Shown' = Complete(t)'
           /\ Told' = [u \in Threads |-> IF u = t THEN Reported(t)' ELSE result'[u]]
<1>1. (CHOOSE u \in Putting' : TRUE) = t
  OBVIOUS
<1>2. Shown' = Complete(t)'
  BY <1>1 DEF Shown, Complete
<1>3. Told' = [u \in Threads |-> IF u \in Putting' THEN Served(call'[u], Answer(Len(Fits(u)')))
                                 ELSE result'[u]]
  BY DEF Told, Served
<1>4. \A u \in Threads : (IF u \in Putting' THEN Served(call'[u], Answer(Len(Fits(u)'))) ELSE result'[u])
                           = (IF u = t THEN Reported(t)' ELSE result'[u])
  BY DEF Reported, Served
<1>5. Told' = [u \in Threads |-> IF u = t THEN Reported(t)' ELSE result'[u]]
  BY <1>3, <1>4
<1> QED
  BY <1>2, <1>5

\* A writer of bytes has the lock alone.
LEMMA OnlyPutting ==
    ASSUME IInv, Calm, NEW t \in Threads, PutBytes(t), text[t] # <<>>
    PROVE  Putting = {t}
<1>1. t \in Putting /\ mode[t] # "none"
  BY WriteAt DEF Putting, In
<1>2. \A u \in Threads \ {t} : u \notin Putting
  <2> SUFFICES ASSUME NEW u \in Threads, u # t, u \in Putting PROVE FALSE
    OBVIOUS
  <2>1. In(u, "put") /\ call[u].op = "write"
    BY DEF Putting
  <2>2. call[u] \in Calls /\ mode[u] = "W"
    BY <2>1, InHold, WriteAt DEF IInv, Now
  <2> QED
    BY <1>1, <2>2 DEF Calm, Alone
<1> QED
  BY <1>1, <1>2 DEF Putting

\* A write acts with its first byte, ...
LEMMA FirstByteIsPut ==
    ASSUME IInv, Calm, NEW t \in Threads, PutBytes(t), Len(text[t]) < Len(Fits(t)),
           text[t] = <<>>
    PROVE  Calm' /\ Register!Act(t)
<1>1. /\ Calm' /\ Putting' = {t} /\ UNCHANGED <<type, call, result>>
      /\ Complete(t)' = Complete(t) /\ Reported(t)' = Reported(t)
  BY ByteIsPut
<1>2. mode[t] # "none" /\ result[t] = NoResult /\ call[t] # NoCall
  BY WriteAt, NotYet DEF In
<1>3. Putting = {}
  BY <1>2, NotPutting, OthersDoNotPut
<1>4. Shown = value /\ Told = result
  BY <1>3, NobodyPutting DEF Calm
<1>5. Shown' = Complete(t) /\ Told' = [u \in Threads |-> IF u = t THEN Reported(t) ELSE result[u]]
  BY <1>1, WhilePuttingThen
<1>6. result = [u \in Threads |-> result[u]]
  BY DEF Calm
<1>7. Told' = [result EXCEPT ![t] = Reported(t)]
  BY <1>5, <1>6
<1>8. PICK o \in Register!Outcomes(value, Seen[t], call[t]) : o.value = Complete(t) /\ o.result = Reported(t)
  BY WriteOffers DEF Offers
<1>9. /\ ~Register!Looks(call[t])
       /\ Seen' = [Seen EXCEPT ![t] = <<>>]
  BY <1>1, WriteAt, LooksAtNumbers DEF Seen
<1>10. Register!Act(t)
  BY <1>1, <1>2, <1>4, <1>5, <1>7, <1>8, <1>9 DEF Register!Act
<1> QED
  BY <1>1, <1>10

\* ... puts the others where a reader does not see them missing, ...
LEMMA NextByteIsPut ==
    ASSUME IInv, Calm, NEW t \in Threads, PutBytes(t), Len(text[t]) < Len(Fits(t)),
           text[t] # <<>>
    PROVE  Calm' /\ UNCHANGED Register!vars
<1>1. /\ Calm' /\ Putting' = {t} /\ UNCHANGED <<type, call, result>>
      /\ Complete(t)' = Complete(t) /\ Reported(t)' = Reported(t)
  BY ByteIsPut
<1>2. Putting = {t}
  BY OnlyPutting
<1>3. Shown = Complete(t) /\ Told = [u \in Threads |-> IF u = t THEN Reported(t) ELSE result[u]]
  BY <1>2, WhilePutting
<1>4. Shown' = Complete(t) /\ Told' = [u \in Threads |-> IF u = t THEN Reported(t) ELSE result[u]]
  BY <1>1, WhilePuttingThen
<1>5. Seen' = Seen
  BY <1>1, WriteAt DEF Seen
<1> QED
  BY <1>1, <1>3, <1>4, <1>5 DEF Register!vars

\* ... and returns when all of them are there.
LEMMA WriteEnds ==
    ASSUME IInv, Calm, NEW t \in Threads, PutBytes(t), ~(Len(text[t]) < Len(Fits(t)))
    PROVE  /\ Complete(t) = value /\ EndHold(t) /\ UNCHANGED <<type, value, call>>
           /\ Returns(t, Answer(Len(Fits(t)))) /\ Keeps(t, <<>>) /\ text'[t] = <<>>
           /\ FailHold(t, <<R>>) /\ <<R>> \in Over
           /\ text[t] = <<>> \/ Putting = {t}
<1>1. /\ EndHold(t) /\ UNCHANGED <<type, value, call>>
      /\ Returns(t, Answer(Len(text[t]))) /\ Keeps(t, <<>>)
  <2>1. Fitting(value, call[t].off, call[t].buf) = Fits(t)
    BY DEF Fits
  <2> QED
    BY <2>1 DEF PutBytes
<1>2. PICK off \in Nat : off = call[t].off
  BY WriteAt
<1>3. PICK fits \in Seq(Chars) : fits = Fits(t) /\ Len(fits) \in Nat
  BY WriteAt
<1>4. PICK r \in Seq(Chars) : r = value.r /\ Len(r) = MapSize
  BY WriteAt DEF Mapped
<1>5. PICK string \in Seq(Chars) : string = text[t] /\ Len(string) \in Nat
  BY LenProperties DEF IInv, Data
<1>6. PutSoFar(t)
  BY WriteAt DEF Calm, Progress
<1>7. Len(string) = Len(fits) /\ \A i \in 1..Len(fits) : r[off + i] = fits[i]
  <2>1. Len(string) <= Len(fits) /\ \A i \in 1..Len(string) : r[off + i] = fits[i]
    BY <1>2, <1>3, <1>4, <1>5, <1>6 DEF PutSoFar
  <2>2. Len(string) = Len(fits)
    BY <1>3, <1>5, <2>1
  <2> QED
    BY <2>1, <2>2
<1>8. off + Len(fits) <= Len(r)
  <2>1. PICK l \in Nat : l = value.length_r
    BY WriteAt
  <2> QED
    BY <1>2, <1>3, <1>4, <2>1, WriteAt
<1>9. Put(r, off, fits) = r
  BY <1>7, <1>8, PutAlready
<1>10. Complete(t) = value
  <2>1. Complete(t) = [value EXCEPT !.r = r]
    BY <1>2, <1>3, <1>4, <1>9 DEF Complete
  <2>2. Complete(t) = [r |-> r, length_r |-> value.length_r, w |-> value.w]
    BY <2>1, WriteAt, MappedWith
  <2> QED
    BY <1>4, <2>2, WriteAt DEF Mapped
<1>11. FailHold(t, <<R>>) /\ <<R>> \in Over
  BY <1>1, WriteAt, EndsAs DEF Over
<1>12. text'[t] = <<>>
  BY <1>1 DEF Keeps, IInv, Data
<1>13. text[t] # <<>> => Putting = {t}
  BY OnlyPutting
<1>14. Returns(t, Answer(Len(Fits(t))))
  BY <1>1, <1>3, <1>5, <1>7
<1> QED
  BY <1>1, <1>10, <1>11, <1>12, <1>13, <1>14

LEMMA NothingFits ==
    ASSUME IInv, Calm, NEW t \in Threads, PutBytes(t), ~(Len(text[t]) < Len(Fits(t))),
           text[t] = <<>>
    PROVE  Calm' /\ Register!Act(t)
<1>1. PICK r \in Results : r = Answer(Len(Fits(t)))
  BY WriteAt, AnswerIsResult
<1>2. Offers(value, Seen[t], call[t], value', Served(call[t], r))
  <2>1. Offers(value, Seen[t], call[t], Complete(t), Reported(t))
    BY WriteOffers
  <2> QED
    BY <1>1, <2>1, WriteEnds DEF Reported
<1>3. t \notin Putting /\ Returns(t, r) /\ In(t, "put") /\ ~Register!Looks(call[t])
  BY <1>1, NotPutting, WriteEnds, WriteAt, LooksAtNumbers
<1> QED
  BY <1>1, <1>2, <1>3, WriteEnds, Acting

LEMMA AllIsPut ==
    ASSUME IInv, Calm, NEW t \in Threads, PutBytes(t), ~(Len(text[t]) < Len(Fits(t))),
           text[t] # <<>>
    PROVE  Calm' /\ UNCHANGED Register!vars
<1>1. PICK y \in Results : y = Reported(t)
  BY WriteAt, AnswerIsResult, ServedResult DEF Reported
<1>2. result' = [result EXCEPT ![t] = y]
  BY <1>1, WriteEnds DEF Returns, Reported
<1>3. /\ result'[t] = y /\ mode'[t] = "none" /\ todo'[t] = <<R>> /\ mode[t] # "none"
      /\ Local(t)
  <2>1. result' \in [Threads -> Results \cup {NoResult}] /\ result'[t] = y
    BY <1>2 DEF Calm
  <2>2. mode'[t] = "none" /\ todo'[t] = <<R>>
    BY WriteEnds DEF FailHold, IInv, Control
  <2>3. \A u \in Threads \ {t} :
           mode'[u] = mode[u] /\ todo'[u] = todo[u] /\ text'[u] = text[u] /\ result'[u] = result[u]
    BY <1>2, WriteEnds DEF FailHold, IInv, Control, Data, Calm, Keeps
  <2> QED
    BY <2>1, <2>2, <2>3, WriteAt, WriteEnds DEF Local, In
<1>4. Calm'
  BY <1>3, WriteAt, WriteEnds, ActsCalmly
<1>5. t \notin Putting'
  BY <1>3 DEF Putting, In
<1>6. Putting' = {} /\ Putting = {t}
  BY <1>3, <1>5, OthersDoNotPut, WriteEnds
<1>7. Shown = value /\ Told = [u \in Threads |-> IF u = t THEN y ELSE result[u]]
  BY <1>1, <1>6, WhilePutting, WriteEnds
<1>8. Shown' = value'
  BY <1>6 DEF Shown
<1>9. Told' = [u \in Threads |-> result'[u]]
  BY <1>6 DEF Told
<1>10. \A u \in Threads : result'[u] = IF u = t THEN y ELSE result[u]
  BY <1>3 DEF Local
<1>11. Told' = Told
  BY <1>7, <1>9, <1>10
<1>12. Seen' = Seen
  BY WriteAt DEF Seen
<1> QED
  BY <1>4, <1>7, <1>8, <1>11, <1>12, WriteEnds DEF Register!vars

\* An offset behind podtmp: the buffer is not looked at.
LEMMA CheckFails ==
    ASSUME IInv, Calm, NEW t \in Threads, Check(t), call[t].off > PodTmp - 1
    PROVE  Calm' /\ Register!Act(t)
<1>1. /\ In(t, "check") /\ Returns(t, Answer(-EFBIG)) /\ FailHold(t, <<R>>)
      /\ UNCHANGED <<type, value, call, text>>
  BY DEF Check
<1>2. call[t] \in Calls /\ call[t].op = "write" /\ type \in Numeric
  BY <1>1, InHold DEF IInv, Now
<1>3. PICK off \in Nat : off = call[t].off
  BY <1>2, CallTypes
<1>4. off >= PodTmp /\ ~(off < PodTmp)
  BY <1>3, InputAssumption
<1>5. PICK r \in Results : r = Answer(-EFBIG) /\ r.rval # 0
  <2>1. -EFBIG \in Int /\ -EFBIG # 0
    BY DEF EFBIG
  <2> QED
    BY <2>1, AnswerIsResult
<1>6. Returns(t, r) /\ Served(call[t], r) = r
  BY <1>1, <1>2, <1>5 DEF Served
<1>7. t \notin Putting /\ text'[t] = <<>> /\ ~Register!Looks(call[t])
  <2>1. ~Writing(t)
    BY <1>1, InHold DEF IInv, Writing, In
  <2> QED
    BY <1>1, <1>3, <1>4, <2>1, NothingInHand, LooksAtNumbers
<1>8. Offers(value, Seen[t], call[t], value', r)
  <2>1. type # "char" /\ type # "string" /\ type \in Register!Numeric
    BY <1>2 DEF Numeric, Register!Numeric
  <2>2. Register!Outcomes(value, Seen[t], call[t]) = Register!Write(value, Seen[t], call[t])
    BY <1>2 DEF Register!Outcomes
  <2>3. Register!Write(value, Seen[t], call[t]) = {Register!Outcome(value, Register!Answer(-Register!EFBIG))}
    BY <1>7, <2>1 DEF Register!Write
  <2> QED
    BY <1>1, <1>5, <2>2, <2>3
    DEF Offers, Register!Outcome, Register!Answer, Register!EFBIG, Answer, EFBIG
<1>9. <<R>> \in Over
  BY DEF Over
<1> QED
  BY <1>1, <1>2, <1>5, <1>6, <1>7, <1>8, <1>9, Acting

\* A hold that ends with nothing done.
LEMMA EndsQuietly ==
    ASSUME IInv, Calm, NEW t \in Threads, NEW what, In(t, what),
           what \in {"pass", "check", "ask"},
           what = "check" => call[t].off < PodTmp,
           what = "ask" => Agreed(type, call[t]),
           EndHold(t), UNCHANGED <<type, value, call, text, result>>
    PROVE  Calm' /\ UNCHANGED Register!vars
<1>1. Calm'
  BY EndsCalmly
<1>2. mode[t] # "none" /\ mode'[t] = "none" /\ Local(t)
  BY DEF EndHold, IInv, Control, Local, In, Calm
<1>3. t \notin Putting /\ t \notin Putting'
  BY <1>2 DEF Putting, In
<1> QED
  BY <1>1, <1>2, <1>3, Quiet

LEMMA CheckPasses ==
    ASSUME IInv, Calm, NEW t \in Threads, Check(t), ~(call[t].off > PodTmp - 1)
    PROVE  Calm' /\ UNCHANGED Register!vars
<1>1. /\ In(t, "check") /\ EndHold(t) /\ UNCHANGED <<type, value, call, text, result>>
  BY DEF Check
<1>2. call[t] \in Calls /\ call[t].op = "write"
  BY <1>1, InHold DEF IInv, Now
<1>3. PICK off \in Nat : off = call[t].off
  BY <1>2, CallTypes
<1>4. call[t].off < PodTmp
  BY <1>3, InputAssumption
<1> QED
  BY <1>1, <1>4, EndsQuietly

\* A number is read from its old text with the buffer in it.
LEMMA NumberIsStored ==
    ASSUME Ordinary, IInv, Calm, NEW t \in Threads, Store(t)
    PROVE  Calm' /\ Register!Act(t)
<1>1. In(t, "store") /\ EndHold(t) /\ UNCHANGED <<type, call>> /\ Keeps(t, <<>>)
  BY DEF Store
<1>2. /\ call[t] \in Calls /\ call[t].op = "write" /\ type \in Numeric /\ call[t].off < PodTmp
      /\ todo[t] = <<StoreHold, R>> /\ Tail(todo[t]) = <<R>>
  BY <1>1, InHold DEF IInv, Now
<1>3. PICK off \in Nat : off = call[t].off
  BY <1>2, CallTypes
<1>4. PICK buf \in Seq(Chars) : buf = call[t].buf /\ buf # <<>>
  BY <1>2, CallTypes
<1>5. PICK fits \in Seq(Chars) : fits = Clamped(off, buf) /\ Len(fits) \in Nat /\ Len(fits) # 0
  BY <1>2, <1>3, <1>4, ClampedIs
<1>6. PICK old \in Seq(Chars) : old = text[t] /\ old # <<>>
  BY <1>2 DEF IInv, Data, Calm, Progress
<1>7. Seen[t] = old
  BY <1>2, <1>6 DEF Seen
<1>8. PICK new \in Seq(Chars) : new = Rewritten(old, off, fits)
  BY RewrittenIs
<1>9. value' \in Readings(type, new)
  <2>1. PICK rest \in Behind : value' \in Readings(type, IF Len(new) < PodTmp THEN new ELSE new \o rest)
    BY <1>3, <1>4, <1>5, <1>6, <1>8 DEF Store
  <2>2. rest \in Seq(Chars) /\ (rest = <<>> \/ rest[1] \notin Digits \cup {Mark})
    BY InputAssumption DEF Ordinary
  <2>3. Readings(type, new \o rest) = Readings(type, new)
    BY <2>2, ReadingEnds
  <2> QED
    BY <2>1, <2>3
<1>10. value' \in Register!NumbersAfter(old, off, fits)
  BY <1>8, <1>9, NumbersAfterIs
<1>11. PICK n \in Nat : n = Len(fits) /\ n # 0
  BY <1>5
<1>12. PICK r \in Results : r = Answer(n) /\ r.rval # 0
  BY <1>11, AnswerIsResult
<1>13. Returns(t, r) /\ Served(call[t], r) = r
  <2>1. Returns(t, Answer(Len(fits)))
    BY <1>3, <1>4, <1>5 DEF Store
  <2> QED
    BY <1>2, <1>11, <1>12, <2>1 DEF Served
<1>14. Offers(value, Seen[t], call[t], value', r)
  <2>1. type # "char" /\ type # "string" /\ type \in Register!Numeric /\ Register!Looks(call[t])
    BY <1>2 DEF Numeric, Register!Numeric, Register!Looks
  <2>2. Register!Outcomes(value, Seen[t], call[t]) = Register!Write(value, Seen[t], call[t])
    BY <1>2 DEF Register!Outcomes
  <2>3. Register!Write(value, Seen[t], call[t]) =
            LET some == SubSeq(buf, 1, Register!Min({Len(buf), PodTmp - off}))
            IN  {Register!Outcome(x, Register!Answer(Len(some))) : x \in Register!NumbersAfter(Seen[t], off, some)}
    BY <1>3, <1>4, <2>1 DEF Register!Write
  <2>4. SubSeq(buf, 1, Register!Min({Len(buf), PodTmp - off})) = fits
    BY <1>5 DEF Clamped, Register!Min, Min
  <2>5. Register!Write(value, Seen[t], call[t]) =
            {Register!Outcome(x, Register!Answer(Len(fits))) : x \in Register!NumbersAfter(Seen[t], off, fits)}
    BY <2>3, <2>4
  <2> QED
    BY <1>7, <1>10, <1>11, <1>12, <2>2, <2>5 DEF Offers, Register!Outcome, Register!Answer, Answer
<1>15. FailHold(t, <<R>>) /\ <<R>> \in Over
  BY <1>1, <1>2, EndsAs DEF Over
<1>16. t \notin Putting
  BY <1>1, InHold DEF IInv, Putting, In
<1>17. text'[t] = <<>> /\ Seen[t] # <<>>
  BY <1>1, <1>6, <1>7 DEF Keeps, IInv, Data
<1> QED
  BY <1>1, <1>2, <1>12, <1>13, <1>14, <1>15, <1>16, <1>17, Acting

-----------------------------------------------------------------------------
(* Truncations                                                             *)

\* What a thread does is a truncation, it gets an answer, and all of them serve 0.
LEMMA TruncationServed ==
    ASSUME NEW c, c.op = "truncate", NEW r
    PROVE  Served(c, r) = Answer(0)
BY DEF Served

\* Nothing is done for want of leave or of room, and the caller is not told.
LEMMA KeepsOffered ==
    ASSUME NEW old, NEW c, c.op = "truncate",
           ~c.agrees \/ (type = "string" /\ c.off > value.length_r)
    PROVE  Offers(value, old, c, value, Answer(0))
<1>1. Register!Outcomes(value, old, c) = Register!Truncate(value, c)
  BY DEF Register!Outcomes
<1>2. Register!Outcome(value, Register!Answer(0)) \in Register!Truncate(value, c)
  BY DEF Register!Truncate
<1> QED
  BY <1>1, <1>2 DEF Offers, Register!Outcome, Register!Answer, Answer

LEMMA ModifyRefused ==
    ASSUME IInv, Calm, NEW t \in Threads, In(t, "ask"), ~call[t].agrees,
           FailHold(t, <<>>), Returns(t, Answer(-EIO)), UNCHANGED <<type, value, call, text>>
    PROVE  Calm' /\ Register!Act(t)
<1>1. call[t].op = "truncate"
  BY InHold DEF IInv, Now
<1>2. PICK r \in Results : r = Answer(-EIO)
  <2>1. -EIO \in Int
    BY DEF EIO
  <2> QED
    BY <2>1, AnswerIsResult
<1>3. Returns(t, r) /\ Served(call[t], r) = Answer(0)
  BY <1>1, <1>2, TruncationServed
<1>4. Offers(value, Seen[t], call[t], value', Served(call[t], r))
  BY <1>1, <1>3, KeepsOffered
<1>5. ~Writing(t)
  BY <1>1 DEF Writing
<1>7. t \notin Putting /\ text'[t] = <<>> /\ ~Register!Looks(call[t])
  BY <1>1, <1>5, NothingInHand, LooksAtNumbers
<1>8. <<>> \in Over
  BY DEF Over
<1> QED
  BY <1>2, <1>3, <1>4, <1>7, <1>8, Acting

LEMMA FileDoesNotGrow ==
    ASSUME IInv, Calm, NEW t \in Threads, GrowFails(t)
    PROVE  Calm' /\ Register!Act(t)
<1>1. /\ In(t, "clear") /\ EndHold(t) /\ Returns(t, Answer(-ENOSPC))
      /\ UNCHANGED <<type, value, call, text>> /\ type = "string" /\ call[t].off > value.length_r
  BY DEF GrowFails
<1>2. call[t].op = "truncate" /\ Tail(todo[t]) = <<R>>
  BY <1>1, InHold DEF IInv, Now
<1>3. PICK r \in Results : r = Answer(-ENOSPC)
  <2>1. -ENOSPC \in Int
    BY DEF ENOSPC
  <2> QED
    BY <2>1, AnswerIsResult
<1>4. Returns(t, r) /\ Served(call[t], r) = Answer(0)
  BY <1>1, <1>2, <1>3, TruncationServed
<1>5. Offers(value, Seen[t], call[t], value', Served(call[t], r))
  BY <1>1, <1>2, <1>4, KeepsOffered
<1>6. ~Writing(t)
  BY <1>1, <1>2 DEF Writing
<1>8. t \notin Putting /\ text'[t] = <<>> /\ ~Register!Looks(call[t])
  BY <1>1, <1>2, <1>6, NothingInHand, LooksAtNumbers
<1>9. FailHold(t, <<R>>) /\ <<R>> \in Over
  BY <1>1, <1>2, EndsAs DEF Over
<1> QED
  BY <1>1, <1>3, <1>4, <1>5, <1>8, <1>9, Acting

\* The rest of a string is cleared; a number becomes zero.
LEMMA ClearedOffered ==
    ASSUME IInv, NEW t \in Threads, Clear(t), call[t].op = "truncate", call[t] \in Calls, call[t].agrees
    PROVE  Offers(value, Seen[t], call[t], value', Answer(0))
<1>1. PICK off \in Nat : off = call[t].off
  BY CallTypes
<1>2. Register!Outcomes(value, Seen[t], call[t]) = Register!Truncate(value, call[t])
  BY DEF Register!Outcomes
<1> DEFINE Gives(v) == Register!Outcome(v, Register!Answer(0)) \in Register!Truncate(value, call[t])
<1>3. Gives(value')
  <2>1. CASE type = "char"
    <3>1. value' = NUL
      BY <2>1 DEF Clear, Numeric
    <3>2. Gives(NUL)
      BY <2>1 DEF Register!Truncate, Register!Numeric
    <3> QED
      BY <3>1, <3>2
  <2>2. CASE type \in Numeric
    <3>1. type # "char" /\ type # "string" /\ type \in Register!Numeric
      BY <2>2 DEF Numeric, Register!Numeric
    <3>2. value' = <<Zero>>
      BY <2>2, <3>1 DEF Clear
    <3>3. Gives(<<Zero>>)
      BY <3>1 DEF Register!Truncate
    <3> QED
      BY <3>2, <3>3
  <2>3. CASE type = "string"
    <3>1. type # "char" /\ type \notin Numeric /\ type \notin Register!Numeric
      BY <2>3 DEF Numeric, Register!Numeric
    <3>2. Mapped(value)
      BY <2>3 DEF IInv, Data
    <3>3. PICK l \in Nat : l = value.length_r
      BY <3>2, InputAssumption DEF Mapped
    <3>4. PICK r \in Seq(Chars) : r = value.r
      BY <3>2 DEF Mapped
    <3>5. PICK k \in Nat : k = Len(r) /\ DOMAIN r = 1..k
      BY LenProperties
    <3>6. CASE off <= l
      <4>1. PICK x : x = [i \in DOMAIN r |-> IF i > off /\ i <= l THEN NUL ELSE r[i]]
        OBVIOUS
      <4>2. x = [i \in DOMAIN r |-> IF i \in (off + 1)..l THEN NUL ELSE r[i]]
        BY <3>5, <4>1
      <4>3. value' = [value EXCEPT !.r = x]
        BY <1>1, <2>3, <3>1, <3>3, <3>4, <3>6, <4>2 DEF Clear, Zeroed
      <4>4. Gives([value EXCEPT !.r = x])
        <5>1. ~(off > l)
          BY <3>6
        <5> QED
          BY <1>1, <2>3, <3>1, <3>3, <3>4, <3>6, <4>1, <5>1 DEF Register!Truncate
      <4> QED
        BY <4>3, <4>4
    <3>7. CASE off > l
      <4>1. PICK x : x = [i \in DOMAIN r |-> IF i <= off THEN r[i] ELSE NUL]
        OBVIOUS
      <4>2. x = [i \in DOMAIN r |-> IF i > off THEN NUL ELSE r[i]]
        BY <3>5, <4>1
      <4>3. ~(off <= l)
        BY <3>7
      <4>4. value' = [value EXCEPT !.r = x, !.length_r = off]
        BY <1>1, <2>3, <3>1, <3>3, <3>4, <3>7, <4>2, <4>3 DEF Clear, Grown
      <4>5. value' = [r |-> x, length_r |-> off, w |-> value.w]
        BY <3>2, <4>4, MappedWith
      <4>6. Gives([r |-> x, length_r |-> off, w |-> value.w])
        BY <1>1, <2>3, <3>1, <3>3, <3>4, <3>7, <4>1, <4>3 DEF Register!Truncate
      <4> QED
        BY <4>5, <4>6
    <3> QED
      BY <3>6, <3>7
  <2> QED
    BY <2>1, <2>2, <2>3, PodAssumption DEF IInv, Control, Types
<1> QED
  BY <1>2, <1>3 DEF Offers, Register!Outcome, Register!Answer, Answer

LEMMA RestIsCleared ==
    ASSUME IInv, Calm, NEW t \in Threads, Clear(t)
    PROVE  Calm' /\ Register!Act(t)
<1>1. In(t, "clear") /\ EndHold(t) /\ Returns(t, Answer(1)) /\ UNCHANGED <<type, call, text>>
  BY DEF Clear
<1>2. call[t] \in Calls /\ call[t].op = "truncate" /\ call[t].agrees /\ Tail(todo[t]) = <<R>>
  BY <1>1, InHold DEF IInv, Now, Agreed
<1>3. PICK r \in Results : r = Answer(1)
  BY AnswerIsResult
<1>4. Returns(t, r) /\ Served(call[t], r) = Answer(0)
  BY <1>1, <1>2, <1>3, TruncationServed
<1>5. Offers(value, Seen[t], call[t], value', Served(call[t], r))
  BY <1>2, <1>4, ClearedOffered
<1>6. ~Writing(t)
  BY <1>1, <1>2 DEF Writing
<1>8. t \notin Putting /\ text'[t] = <<>> /\ ~Register!Looks(call[t])
  BY <1>1, <1>2, <1>6, NothingInHand, LooksAtNumbers
<1>9. FailHold(t, <<R>>) /\ <<R>> \in Over
  BY <1>1, <1>2, EndsAs DEF Over
<1> QED
  BY <1>1, <1>3, <1>4, <1>5, <1>8, <1>9, Acting

-----------------------------------------------------------------------------
(* The accessors                                                           *)

\* A string with as much memory as it says.
Room(y) ==
    /\ y = [r |-> y.r, length_r |-> y.length_r, w |-> y.w]
    /\ y.r \in Seq(Chars) /\ y.length_r \in 0..Len(y.r)

LEMMA RoomWith ==
    ASSUME NEW y, Room(y), NEW r, NEW n
    PROVE  /\ [y EXCEPT !.r = r] = [r |-> r, length_r |-> y.length_r, w |-> y.w]
           /\ [y EXCEPT !.r = r, !.length_r = n] = [r |-> r, length_r |-> n, w |-> y.w]
<1>1. y = [r |-> y.r, length_r |-> y.length_r, w |-> y.w]
  BY DEF Room
<1>2. [y EXCEPT !.r = r] = [r |-> r, length_r |-> y.length_r, w |-> y.w]
  BY <1>1
<1>3. PICK q : q = [r |-> r, length_r |-> y.length_r, w |-> y.w]
  OBVIOUS
<1>4. [q EXCEPT !.length_r = n] = [r |-> r, length_r |-> n, w |-> y.w]
  BY <1>3
<1>5. [y EXCEPT !.r = r, !.length_r = n] = [[y EXCEPT !.r = r] EXCEPT !.length_r = n]
  OBVIOUS
<1> QED
  BY <1>2, <1>3, <1>4, <1>5, Zenon

LEMMA FilledIs ==
    ASSUME NEW y, Room(y), NEW string \in Seq(Chars), Len(string) <= Len(y.r), NEW n
    PROVE  /\ Register!Filled(y, string, n) = [r |-> Put(y.r, 0, string), length_r |-> n, w |-> y.w]
           /\ Register!Filled(y, string, n).r \in Seq(Chars)
<1>1. PICK r \in Seq(Chars) : r = y.r
  BY DEF Room
<1>2. PICK k \in Nat : k = Len(r) /\ DOMAIN r = 1..k
  BY LenProperties
<1>3. PICK put : put = Put(r, 0, string)
  OBVIOUS
<1>4. PICK f \in Nat : f = Len(string) /\ f <= k
  BY <1>1, <1>2, LenProperties
<1>5. /\ put \in Seq(Chars) /\ Len(put) = k
      /\ \A i \in 1..k : put[i] = IF i <= f THEN string[i] ELSE r[i]
  <2>1. Inside(r, 0, string)
    BY <1>2, <1>4 DEF Inside
  <2>2. HasPut(r, 0, string, put)
    BY <1>3, <2>1, PutInside
  <2>3. /\ put \in Seq(Chars) /\ Len(put) = k
        /\ \A i \in 1..k : i > 0 /\ i <= 0 + f => put[i] = string[i - 0]
        /\ \A i \in 1..k : ~(i > 0 /\ i <= 0 + f) => put[i] = r[i]
    BY <1>2, <1>4, <2>2 DEF HasPut
  <2>4. ASSUME NEW i \in 1..k PROVE put[i] = IF i <= f THEN string[i] ELSE r[i]
    <3>1. CASE i <= f
      <4>1. i > 0 /\ i <= 0 + f /\ i - 0 = i
        BY <1>4, <3>1
      <4> QED
        BY <2>3, <3>1, <4>1
    <3>2. CASE ~(i <= f)
      <4>1. ~(i > 0 /\ i <= 0 + f)
        BY <1>4, <3>2
      <4> QED
        BY <2>3, <3>2, <4>1
    <3> QED
      BY <3>1, <3>2
  <2> QED
    BY <2>3, <2>4
<1>6. PICK g : g = [i \in DOMAIN r |-> IF i <= Len(string) THEN string[i] ELSE r[i]]
  OBVIOUS
<1>7. g = put
  <2>1. g = [i \in 1..k |-> IF i <= f THEN string[i] ELSE r[i]]
    BY <1>2, <1>4, <1>6
  <2>2. put = [i \in 1..k |-> put[i]]
    BY <1>5, LenProperties
  <2> QED
    BY <1>5, <2>1, <2>2
<1>8. Register!Filled(y, string, n) = [y EXCEPT !.r = g, !.length_r = n]
  BY <1>1, <1>6 DEF Register!Filled
<1>9. Register!Filled(y, string, n) = [r |-> put, length_r |-> n, w |-> y.w]
  <2>1. [y EXCEPT !.r = put, !.length_r = n] = [r |-> put, length_r |-> n, w |-> y.w]
    BY RoomWith
  <2> QED
    BY <1>7, <1>8, <2>1
<1> QED
  BY <1>1, <1>3, <1>5, <1>7, <1>8, <1>9

\* The cases procfuse_copyPOD has are those where nothing is cut off.
LEMMA WidensWhenLossless ==
    ASSUME NEW from \in Types \ {"string"}, NEW to \in Types \ {"string"}
    PROVE  to \in Widens[from] <=> Register!Convertible(to, from)
<1> USE DEF Types, Numeric, Widens, Register!Size, Register!Floating, Register!Convertible
<1>1. CASE from = "char"
  BY <1>1
<1>2. CASE from = "int"
  BY <1>2
<1>3. CASE from = "int64"
  BY <1>3
<1>4. CASE from = "float"
  BY <1>4
<1>5. CASE from = "double"
  BY <1>5
<1>6. CASE from = "longdouble"
  BY <1>6
<1> QED
  BY <1>1, <1>2, <1>3, <1>4, <1>5, <1>6

LEMMA ScalarCopies ==
    ASSUME NEW to \in Types \ {"string"}, NEW y, NEW from \in Types \ {"string"}, NEW x
    PROVE  Register!Copies(to, y, from, x) = ScalarInto(to, y, from, x)
<1>1. Register!Numbers = Numbers /\ Register!Exact(to) = Exact(to)
  BY DEF Register!Numbers, Numbers, Register!Exact, Exact
<1> DEFINE n == IF from = "char" /\ to # "char" THEN Code[x] ELSE x
<1>2. to \in Widens[from] => Register!Converted(to, from, x) = Casts(to, from, n)
  <2>1. CASE to = from
    BY <2>1 DEF Register!Converted, Casts
  <2>2. CASE to # from /\ to = "char"
    <3>1. ~Register!Convertible(to, from)
      BY <2>2 DEF Register!Convertible, Register!Size, Types, Numeric
    <3> QED
      BY <3>1, WidensWhenLossless
  <2>3. CASE to # from /\ to # "char"
    BY <1>1, <2>3 DEF Register!Converted, Casts
  <2> QED
    BY <2>1, <2>2, <2>3
<1>3. Register!Copies(to, y, from, x) =
          IF Register!Convertible(to, from)
          THEN {[rval |-> 1, pod |-> m] : m \in Register!Converted(to, from, x)}
          ELSE {[rval |-> 0, pod |-> y]}
  BY DEF Register!Copies
<1>4. ScalarInto(to, y, from, x) =
          IF to \notin Widens[from] THEN {[rval |-> 0, pod |-> y]}
          ELSE {[rval |-> 1, pod |-> m] : m \in Casts(to, from, n)}
  BY DEF ScalarInto, Refused
<1>5. to \in Widens[from] <=> Register!Convertible(to, from)
  BY WidensWhenLossless
<1> HIDE DEF n
<1> QED
  BY <1>2, <1>3, <1>4, <1>5

\* The bytes of a string, or a character, are taken whole or not at all, ...
LEMMA BytesCopies ==
    ASSUME NEW y, Room(y), NEW string \in Seq(Chars)
    PROVE  StringInto(y, string) =
               IF Len(string) <= y.length_r
               THEN {[rval |-> 1, pod |-> Register!Filled(y, string, Len(string))]}
               ELSE {[rval |-> 0, pod |-> y]}
<1>1. PICK l \in Nat : l = y.length_r /\ l <= Len(y.r)
  BY LenProperties DEF Room
<1>2. PICK n \in Nat : n = Len(string)
  BY LenProperties
<1>3. CASE n <= l
  <2>1. Len(string) <= Len(y.r) /\ y.length_r >= Len(string)
    BY <1>1, <1>2, <1>3, LenProperties DEF Room
  <2>2. PICK put : put = Put(y.r, 0, string)
    OBVIOUS
  <2>3. Register!Filled(y, string, n) = [r |-> put, length_r |-> n, w |-> y.w]
    BY <2>1, <2>2, FilledIs
  <2>4. [y EXCEPT !.r = put, !.length_r = n] = [r |-> put, length_r |-> n, w |-> y.w]
    BY RoomWith
  <2>5. StringInto(y, string) = {[rval |-> 1, pod |-> [y EXCEPT !.r = put, !.length_r = n]]}
    BY <1>2, <2>1, <2>2 DEF StringInto, Copied
  <2> QED
    BY <1>1, <1>2, <1>3, <2>3, <2>4, <2>5
<1>4. CASE ~(n <= l)
  <2>1. ~(y.length_r >= Len(string))
    BY <1>1, <1>2, <1>4
  <2> QED
    BY <1>1, <1>2, <1>4, <2>1 DEF StringInto, Refused
<1> QED
  BY <1>3, <1>4

\* ... a number as far as snprintf has room for it.
LEMMA PrintedCopies ==
    ASSUME NEW y, Room(y), NEW x \in Numbers
    PROVE  PrintedInto(y, x) =
               IF Len(x) < y.length_r
               THEN {[rval |-> 1, pod |-> Register!Filled(y, Append(x, NUL), Len(x))]}
               ELSE {[rval |-> Len(x),
                      pod  |-> IF y.length_r = 0 THEN y
                               ELSE Register!Filled(y, Append(SubSeq(x, 1, y.length_r - 1), NUL), y.length_r)]}
<1>1. PICK l \in Nat : l = y.length_r /\ l <= Len(y.r)
  BY LenProperties DEF Room
<1>2. x \in Seq(Chars)
  BY NumberIsText
<1>3. PICK n \in Nat : n = Len(x)
  BY <1>2, LenProperties
<1>4. PICK m \in Int : m = Min({n, l - 1}) /\ m \in {n, l - 1} /\ m <= n /\ m <= l - 1
  <2>1. PICK d \in Int : d = l - 1
    OBVIOUS
  <2>2. n \in Int
    OBVIOUS
  <2>3. Min({n, d}) \in {n, d} /\ Min({n, d}) <= n /\ Min({n, d}) <= d
    BY <2>1, <2>2, MinOfTwo, Zenon
  <2> QED
    BY <2>1, <2>2, <2>3
<1>5. PICK fits : fits = SubSeq(x, 1, m)
  OBVIOUS
<1>6. fits \in Seq(Chars) /\ Len(fits) = IF 1 <= m THEN m ELSE 0
  <2>1. 1 \in Nat \ {0} /\ m <= Len(x)
    BY <1>3, <1>4
  <2>2. SubSeq(x, 1, m) \in Seq(Chars) /\ Len(SubSeq(x, 1, m)) = IF 1 <= m THEN m - 1 + 1 ELSE 0
    BY <1>2, <2>1, PieceOfText, Zenon
  <2> QED
    BY <1>5, <2>2
<1>7. NUL \in Chars
  BY DEF Chars
<1>8. Append(fits, NUL) \in Seq(Chars) /\ Len(Append(fits, NUL)) = Len(fits) + 1
      /\ Append(fits, NUL) = fits \o <<NUL>>
  BY <1>6, <1>7, AppendProperties
<1>9. Snprintf(y, x) = IF l = 0 THEN y ELSE [y EXCEPT !.r = Put(@, 0, Append(fits, NUL))]
  BY <1>1, <1>3, <1>4, <1>5, <1>8 DEF Snprintf
<1>10. CASE l = 0
  <2>1. ~(Len(x) < y.length_r)
    BY <1>1, <1>3, <1>10
  <2> QED
    BY <1>1, <1>9, <1>10, <2>1 DEF PrintedInto
<1>11. CASE l # 0
  <2>1. m \in Nat /\ Len(fits) = m
    BY <1>3, <1>4, <1>6, <1>11
  <2>2. Len(Append(fits, NUL)) <= Len(y.r)
    BY <1>1, <1>4, <1>8, <2>1, LenProperties DEF Room
  <2>3. PICK put : put = Put(y.r, 0, Append(fits, NUL))
    OBVIOUS
  <2>4. /\ Snprintf(y, x) = [r |-> put, length_r |-> y.length_r, w |-> y.w]
        /\ \A k : Register!Filled(y, Append(fits, NUL), k) = [r |-> put, length_r |-> k, w |-> y.w]
    <3>1. Snprintf(y, x) = [y EXCEPT !.r = put]
      BY <1>9, <1>11, <2>3
    <3>2. \A k : Register!Filled(y, Append(fits, NUL), k) = [r |-> put, length_r |-> k, w |-> y.w]
      BY <1>8, <2>2, <2>3, FilledIs
    <3>3. [y EXCEPT !.r = put] = [r |-> put, length_r |-> y.length_r, w |-> y.w]
      BY RoomWith
    <3> QED
      BY <3>1, <3>2, <3>3
  <2>5. CASE n < l
    <3>1. m = n /\ fits = x
      <4>1. m = n
        BY <1>4, <2>5
      <4> QED
        BY <1>2, <1>3, <1>5, <4>1, WholeText
    <3>2. PICK pod : pod = Snprintf(y, x)
      OBVIOUS
    <3>3. [pod EXCEPT !.length_r = n] = [r |-> put, length_r |-> n, w |-> y.w]
      BY <2>4, <3>2
    <3>4. Len(x) < y.length_r
      BY <1>1, <1>3, <2>5
    <3> QED
      BY <1>3, <2>4, <3>1, <3>2, <3>3, <3>4 DEF PrintedInto, Copied
  <2>6. CASE ~(n < l)
    <3>1. m = l - 1
      BY <1>4, <2>6
    <3>2. ~(Len(x) < y.length_r) /\ y.length_r # 0 /\ fits = SubSeq(x, 1, y.length_r - 1)
      BY <1>1, <1>3, <1>5, <1>11, <2>6, <3>1
    <3>3. Register!Filled(y, Append(SubSeq(x, 1, y.length_r - 1), NUL), y.length_r) = Snprintf(y, x)
      BY <2>4, <3>2
    <3> QED
      BY <3>2, <3>3 DEF PrintedInto
  <2> QED
    BY <2>5, <2>6
<1> QED
  BY <1>10, <1>11

\* procfuse_copyPOD converts as PodRegister says.
THEOREM ConversionsAreCopies ==
    ASSUME NEW to \in Types, NEW y, to = "string" => Room(y),
           NEW from \in Types, NEW x, IsPOD(from, x)
    PROVE  CopyPOD(to, y, from, x) = Register!Copies(to, y, from, x)
<1>1. CASE from # "string" /\ to # "string"
  BY <1>1, ScalarCopies DEF CopyPOD
<1>2. CASE from = "string" /\ to # "string"
  BY <1>2 DEF CopyPOD, FromString, Copied, Refused, Register!Copies
<1>3. CASE from = "string" /\ to = "string"
  <2>0. from # "char" /\ from \notin Register!Numeric /\ from \in {"char", "string"}
    BY <1>3 DEF Register!Numeric
  <2>1. x.w \in Seq(Chars)
    BY <1>3 DEF IsPOD, Numeric
  <2>2. Register!Copies(to, y, from, x) =
            IF Len(x.w) <= y.length_r THEN {[rval |-> 1, pod |-> Register!Filled(y, x.w, Len(x.w))]}
            ELSE {[rval |-> 0, pod |-> y]}
    BY <1>3, <2>0 DEF Register!Copies
  <2> QED
    BY <1>3, <2>1, <2>2, BytesCopies DEF CopyPOD, FromString
<1>4. CASE from = "char" /\ to = "string"
  <2>0. from # "string" /\ from \notin Register!Numeric /\ from \in {"char", "string"}
    BY <1>4 DEF Register!Numeric
  <2>1. x \in Chars
    BY <1>4 DEF IsPOD, Numeric
  <2>2. PICK string \in Seq(Chars) : string = <<x>> /\ Len(string) = 1
    <3>1. <<x>> \in Seq(Chars) /\ Len(<<x>>) = 1
      BY <2>1
    <3> QED
      BY <3>1, Zenon
  <2>3. Register!Copies(to, y, from, x) =
            IF Len(string) <= y.length_r
            THEN {[rval |-> 1, pod |-> Register!Filled(y, string, Len(string))]}
            ELSE {[rval |-> 0, pod |-> y]}
    BY <1>4, <2>0, <2>2 DEF Register!Copies
  <2>4. CharInto(y, x) = StringInto(y, string)
    BY <2>2 DEF CharInto, StringInto
  <2> QED
    BY <1>4, <2>3, <2>4, BytesCopies DEF CopyPOD
<1>5. CASE from \in Numeric /\ to = "string"
  <2>1. from # "string" /\ from # "char" /\ from \in Register!Numeric
    BY <1>5 DEF Numeric, Register!Numeric
  <2>2. x \in Numbers
    BY <1>5, <2>1 DEF IsPOD
  <2>3. CopyPOD(to, y, from, x) = PrintedInto(y, x)
    BY <1>5, <2>1 DEF CopyPOD
  <2>4. Register!Copies(to, y, from, x) =
               IF Len(x) < y.length_r
               THEN {[rval |-> 1, pod |-> Register!Filled(y, Append(x, NUL), Len(x))]}
               ELSE {[rval |-> Len(x),
                      pod  |-> IF y.length_r = 0 THEN y
                               ELSE Register!Filled(y, Append(SubSeq(x, 1, y.length_r - 1), NUL), y.length_r)]}
    BY <1>5, <2>1 DEF Register!Copies
  <2> QED
    BY <1>5, <2>2, <2>3, <2>4, PrintedCopies
<1> QED
  BY <1>1, <1>2, <1>3, <1>4, <1>5 DEF Types

LEMMA StringAnswers ==
    ASSUME NEW dst, NEW string, NEW done \in StringInto(dst, string)
    PROVE  done.rval \in {0, 1}
<1>1. CASE dst.length_r >= Len(string)
  <2>1. PICK pod : done = [rval |-> 1, pod |-> pod]
    BY <1>1 DEF StringInto, Copied
  <2> QED
    BY <2>1
<1>2. CASE ~(dst.length_r >= Len(string))
  BY <1>2 DEF StringInto, Refused
<1> QED
  BY <1>1, <1>2

\* What a conversion answers.
LEMMA CopyAnswers ==
    ASSUME NEW as, NEW dst, NEW from \in Types, NEW src, from \in Numeric => src \in Numbers,
           NEW done \in CopyPOD(as, dst, from, src)
    PROVE  done.rval \in Int
<1>1. 0 \in Int /\ 1 \in Int
  OBVIOUS
<1>2. CASE from = "string"
  <2>1. CASE as = "string"
    <3>1. done \in StringInto(dst, src.w)
      BY <1>2, <2>1 DEF CopyPOD, FromString
    <3> QED
      BY <1>1, <3>1, StringAnswers
  <2>2. CASE as # "string"
    <3>1. done \in Copied(src.w[1]) \/ done \in Refused(dst)
      BY <1>2, <2>2 DEF CopyPOD, FromString
    <3> QED
      BY <1>1, <3>1 DEF Copied, Refused
  <2> QED
    BY <2>1, <2>2
<1>3. CASE from # "string" /\ as = "string"
  <2>1. CASE from = "char"
    BY <1>1, <1>3, <2>1 DEF CopyPOD, CharInto, Copied, Refused
  <2>2. CASE from # "char"
    <3>1. src \in Numbers
      BY <1>3, <2>2 DEF Types
    <3>2. Len(src) \in Int
      BY <3>1, NumberIsText, InputAssumption
    <3>3. done \in PrintedInto(dst, src)
      BY <1>3, <2>2 DEF CopyPOD
    <3> QED
      BY <1>1, <3>2, <3>3 DEF PrintedInto, Copied
  <2> QED
    BY <2>1, <2>2
<1>4. CASE from # "string" /\ as # "string"
  <2>1. done \in ScalarInto(as, dst, from, src)
    BY <1>4 DEF CopyPOD
  <2>2. PICK ms : ScalarInto(as, dst, from, src) =
                      IF as \notin Widens[from] THEN {[rval |-> 0, pod |-> dst]}
                      ELSE {[rval |-> 1, pod |-> m] : m \in ms}
    BY DEF ScalarInto, Refused
  <2>3. CASE as \notin Widens[from]
    BY <1>1, <2>1, <2>2, <2>3
  <2>4. CASE as \in Widens[from]
    <3>1. PICK m \in ms : done = [rval |-> 1, pod |-> m]
      BY <2>1, <2>2, <2>4
    <3> QED
      BY <1>1, <3>1
  <2> QED
    BY <2>3, <2>4
<1> QED
  BY <1>2, <1>3, <1>4

\* What it puts into a string is text.
LEMMA CopyIsText ==
    ASSUME NEW y, Room(y), NEW from \in Types, NEW x, IsPOD(from, x),
           NEW done \in CopyPOD("string", y, from, x)
    PROVE  done.pod.r \in Seq(Chars)
<1>0. PICK l \in Nat : l = y.length_r /\ l <= Len(y.r) /\ y.r \in Seq(Chars) /\ Len(y.r) \in Nat
  BY LenProperties DEF Room
<1>2. CASE from = "string" \/ from = "char"
  <2>1. PICK string \in Seq(Chars) : done \in StringInto(y, string)
    <3>1. CASE from = "string"
      BY <3>1 DEF IsPOD, CopyPOD, FromString, Numeric
    <3>2. CASE from = "char"
      <4>1. x \in Chars
        BY <3>2 DEF IsPOD, Numeric
      <4>2. <<x>> \in Seq(Chars) /\ Len(<<x>>) = 1
        BY <4>1
      <4>3. CharInto(y, x) = StringInto(y, <<x>>)
        BY <4>2 DEF CharInto, StringInto
      <4> QED
        BY <3>2, <4>2, <4>3 DEF CopyPOD
    <3> QED
      BY <1>2, <3>1, <3>2
  <2>2. PICK n \in Nat : n = Len(string)
    BY LenProperties
  <2>3. CASE n <= l
    <3>1. done.pod = Register!Filled(y, string, n)
      BY <1>0, <2>1, <2>2, <2>3, BytesCopies
    <3>2. Len(string) <= Len(y.r)
      BY <1>0, <2>2, <2>3
    <3> QED
      BY <3>1, <3>2, FilledIs
  <2>4. CASE ~(n <= l)
    <3>1. done.pod = y
      BY <1>0, <2>1, <2>2, <2>4, BytesCopies
    <3> QED
      BY <1>0, <3>1
  <2> QED
    BY <2>3, <2>4
<1>3. CASE from \in Numeric
  <2>1. from # "string" /\ from # "char"
    BY <1>3 DEF Numeric
  <2>2. x \in Numbers /\ x \in Seq(Chars) /\ done \in PrintedInto(y, x)
    BY <1>3, <2>1, NumberIsText DEF IsPOD, CopyPOD
  <2>3. PICK n \in Nat : n = Len(x)
    BY <2>2, LenProperties
  <2>4. NUL \in Chars
    BY DEF Chars
  <2>5. CASE n < l
    <3>1. done.pod = Register!Filled(y, Append(x, NUL), n)
      BY <1>0, <2>2, <2>3, <2>5, PrintedCopies
    <3>2. Append(x, NUL) \in Seq(Chars) /\ Len(Append(x, NUL)) <= Len(y.r)
      BY <1>0, <2>2, <2>3, <2>4, <2>5, AppendProperties
    <3> QED
      BY <3>1, <3>2, FilledIs
  <2>6. CASE ~(n < l) /\ l = 0
    <3>1. ~(Len(x) < y.length_r) /\ y.length_r = 0
      BY <1>0, <2>3, <2>6
    <3>2. done.pod = y
      BY <2>2, <3>1, PrintedCopies
    <3> QED
      BY <1>0, <3>2
  <2>7. CASE ~(n < l) /\ l # 0
    <3>1. PICK m \in Nat : m = l - 1
      BY <2>7
    <3>2. done.pod = Register!Filled(y, Append(SubSeq(x, 1, m), NUL), l)
      BY <1>0, <2>2, <2>3, <2>7, <3>1, PrintedCopies
    <3>3. SubSeq(x, 1, m) \in Seq(Chars) /\ Len(SubSeq(x, 1, m)) <= m
      <4>1. 1 \in Nat \ {0} /\ m \in Int /\ m <= Len(x)
        BY <2>3, <2>7, <3>1
      <4>2. SubSeq(x, 1, m) \in Seq(Chars) /\ Len(SubSeq(x, 1, m)) = IF 1 <= m THEN m - 1 + 1 ELSE 0
        BY <2>2, <4>1, PieceOfText, Zenon
      <4> QED
        BY <4>2
    <3>4. PICK piece \in Seq(Chars) : piece = SubSeq(x, 1, m) /\ Len(piece) <= m /\ Len(piece) \in Nat
      BY <3>3, LenProperties
    <3>5. Append(piece, NUL) \in Seq(Chars) /\ Len(Append(piece, NUL)) <= Len(y.r)
      BY <1>0, <2>4, <3>1, <3>4, AppendProperties
    <3>6. done.pod = Register!Filled(y, Append(piece, NUL), l)
      BY <3>2, <3>4
    <3>7. PICK ended \in Seq(Chars) : ended = Append(piece, NUL) /\ Len(ended) <= Len(y.r)
      BY <3>5
    <3>8. Register!Filled(y, ended, l).r \in Seq(Chars)
      BY <3>7, FilledIs
    <3> QED
      BY <3>6, <3>7, <3>8
  <2> QED
    BY <2>5, <2>6, <2>7
<1> QED
  BY <1>2, <1>3 DEF Types

\* What the application gets of it.
LEMMA GotIsResult ==
    ASSUME NEW as \in Types, NEW y, as = "string" => Room(y), NEW from \in Types, NEW x,
           IsPOD(from, x), NEW done \in CopyPOD(as, y, from, x)
    PROVE  Got(as, done) \in Results
<1>1. done.rval \in Int
  <2>1. from \in Numeric => x \in Numbers
    BY DEF IsPOD, Numeric
  <2> QED
    BY <2>1, CopyAnswers
<1>2. PICK bytes : bytes = IF done.rval = 0 THEN <<>>
                           ELSE IF as = "string" THEN done.pod.r
                           ELSE IF as = "char" THEN <<done.pod>>
                           ELSE done.pod
  OBVIOUS
<1>3. bytes \in Seq(Chars)
  <2>1. CASE done.rval = 0
    BY <1>2, <2>1
  <2>2. CASE done.rval # 0 /\ as = "string"
    BY <1>2, <2>2, CopyIsText
  <2>3. CASE done.rval # 0 /\ as = "char"
    <3>1. done.pod \in Chars
      BY <2>3, CopyIsChar
    <3> QED
      BY <1>2, <2>3, <3>1
  <2>4. CASE done.rval # 0 /\ as \in Numeric
    <3>1. done.pod \in Numbers
      <4>1. done # [rval |-> 0, pod |-> y]
        BY <2>4
      <4> QED
        BY <2>4, <4>1, CopyIsNumber
    <3>2. as # "string" /\ as # "char"
      BY <2>4 DEF Numeric
    <3> QED
      BY <1>2, <2>4, <3>1, <3>2, NumberIsText
  <2> QED
    BY <2>1, <2>2, <2>3, <2>4 DEF Types
<1> QED
  BY <1>1, <1>2, <1>3 DEF Got, Results

\* The file's POD is one.
LEMMA FileIsPOD ==
    ASSUME IInv
    PROVE  type \in Types /\ IsPOD(type, value) /\ (type = "string" => Room(value))
<1>1. type \in Types
  BY PodAssumption DEF IInv, Control
<1>2. type = "string" => Room(value)
  BY InputAssumption DEF IInv, Data, Mapped, Room
<1>3. IsPOD(type, value)
  BY <1>1 DEF IInv, Data, Mapped, IsPOD, Types, Numeric
<1> QED
  BY <1>1, <1>2, <1>3

\* So is the buffer of an accessor.
LEMMA BufferIsRoom == Room(Bytes(<<>>, MapSize - 1))
<1>1. PICK n \in Nat : n = MapSize - 1
  BY InputAssumption
<1>2. PICK buffer : buffer = [i \in 1..n |-> NUL]
  OBVIOUS
<1>3. buffer \in [1..n -> Chars]
  BY <1>2 DEF Chars
<1>4. buffer \in Seq(Chars) /\ Len(buffer) = n
  BY <1>3
<1>5. Bytes(<<>>, MapSize - 1) = [r |-> buffer, length_r |-> n, w |-> <<>>]
  BY <1>1, <1>2 DEF Bytes
<1> QED
  BY <1>4, <1>5 DEF Room

\* procfuse_readPOD.
LEMMA PODIsGot ==
    ASSUME IInv, Calm, NEW t \in Threads, GetPOD(t)
    PROVE  Calm' /\ Register!Act(t)
<1>1. In(t, "get") /\ EndHold(t) /\ UNCHANGED <<type, value, call, text>>
  BY DEF GetPOD
<1>2. call[t] \in Calls /\ call[t].op = "get" /\ Tail(todo[t]) = <<>>
  BY <1>1, InHold DEF IInv, Now
<1>3. PICK done \in CopyPOD(call[t].as, call[t].pod, type, value) : Returns(t, Got(call[t].as, done))
  BY DEF GetPOD
<1>4. call[t].as \in Types /\ Room(call[t].pod)
  BY <1>2, CallTypes, BufferIsRoom, InputAssumption
<1>5. PICK r \in Results : r = Got(call[t].as, done)
  BY <1>4, FileIsPOD, GotIsResult
<1>6. Returns(t, r) /\ Served(call[t], r) = r
  BY <1>2, <1>3, <1>5 DEF Served
<1>7. Offers(value, Seen[t], call[t], value', Served(call[t], r))
  <2>1. Register!Outcomes(value, Seen[t], call[t]) = Register!Get(value, call[t])
    BY <1>2 DEF Register!Outcomes
  <2>2. done \in Register!Copies(call[t].as, call[t].pod, type, value)
    BY <1>3, <1>4, FileIsPOD, ConversionsAreCopies
  <2>3. Register!Got(call[t].as, done) = r
    BY <1>5 DEF Got, Register!Got
  <2> QED
    BY <1>1, <1>6, <2>1, <2>2, <2>3 DEF Offers, Register!Outcome, Register!Get
<1>8. ~Writing(t)
  BY <1>2 DEF Writing
<1>9. t \notin Putting /\ text'[t] = <<>> /\ ~Register!Looks(call[t])
  BY <1>1, <1>2, <1>8, NothingInHand, LooksAtNumbers
<1>10. FailHold(t, <<>>) /\ <<>> \in Over
  BY <1>1, <1>2, EndsAs DEF Over
<1> QED
  BY <1>1, <1>5, <1>6, <1>7, <1>9, <1>10, Acting

\* procfuse_writePOD.
LEMMA PODIsPut ==
    ASSUME IInv, Calm, NEW t \in Threads, PutPOD(t)
    PROVE  Calm' /\ Register!Act(t)
<1>1. In(t, "put") /\ call[t].op = "put" /\ EndHold(t) /\ UNCHANGED <<type, call, text>>
  BY DEF PutPOD
<1>2. call[t] \in Calls /\ Tail(todo[t]) = <<>>
  BY <1>1, InHold DEF IInv, Now
<1>3. PICK done \in CopyPOD(type, value, call[t].as, call[t].pod) :
          value' = done.pod /\ Returns(t, Answer(done.rval))
  BY DEF PutPOD
<1>4. call[t].as \in Types /\ IsPOD(call[t].as, call[t].pod)
  BY <1>1, <1>2, CallTypes
<1>5. PICK n \in Int : n = done.rval
  <2>1. call[t].as \in Numeric => call[t].pod \in Numbers
    BY <1>4 DEF IsPOD, Numeric
  <2> QED
    BY <1>4, <2>1, CopyAnswers
<1>6. PICK r \in Results : r = Answer(n)
  BY AnswerIsResult
<1>7. Returns(t, r) /\ Served(call[t], r) = r
  BY <1>1, <1>3, <1>5, <1>6 DEF Served
<1>8. Offers(value, Seen[t], call[t], value', Served(call[t], r))
  <2>1. Register!Outcomes(value, Seen[t], call[t]) = Register!Set(value, call[t])
    BY <1>1 DEF Register!Outcomes
  <2>2. done \in Register!Copies(type, value, call[t].as, call[t].pod)
    BY <1>3, <1>4, FileIsPOD, ConversionsAreCopies
  <2> QED
    BY <1>3, <1>5, <1>6, <1>7, <2>1, <2>2
    DEF Offers, Register!Outcome, Register!Set, Register!Answer, Answer
<1>9. ~Writing(t)
  BY <1>1 DEF Writing
<1>10. t \notin Putting /\ text'[t] = <<>> /\ ~Register!Looks(call[t])
  BY <1>1, <1>9, NothingInHand, LooksAtNumbers
<1>11. FailHold(t, <<>>) /\ <<>> \in Over
  BY <1>1, <1>2, EndsAs DEF Over
<1> QED
  BY <1>1, <1>6, <1>7, <1>8, <1>10, <1>11, Acting

-----------------------------------------------------------------------------
(* Between the holds                                                       *)

\* A thread without the lock comes, goes or waits: the user sees no difference
\* in the file.
Outside(t) ==
    /\ mode[t] = "none" /\ UNCHANGED <<type, value, text>>
    /\ mode' = mode \/ (text[t] = <<>> /\ \A u \in Threads \ {t} : mode'[u] = mode[u])
    /\ \A u \in Threads \ {t} : call'[u] = call[u] /\ todo'[u] = todo[u] /\ result'[u] = result[u]

LEMMA SeenFromOutside ==
    ASSUME NEW t \in Threads, Outside(t)
    PROVE  /\ t \notin Putting /\ t \notin Putting' /\ Shown' = Shown
           /\ \A u \in Threads \ {t} : Told'[u] = Told[u]
           /\ Told[t] = result[t] /\ Told'[t] = result'[t]
           /\ Seen' = Seen
           /\ Told' = [u \in Threads |-> Told'[u]] /\ Told = [u \in Threads |-> Told[u]]
<1>1. t \notin Putting /\ t \notin Putting'
  BY DEF Outside, Putting, In
<1>2. \A u \in Threads \ {t} : u \in Putting' <=> u \in Putting
  BY DEF Outside, Putting, In
<1>3. Putting' = Putting
  BY <1>1, <1>2 DEF Putting
<1>4. \A u \in Threads \ {t} : Fits(u)' = Fits(u) /\ call'[u] = call[u]
  BY DEF Outside, Fits
<1>5. \A u \in Putting : u \in Threads \ {t}
  BY <1>1 DEF Putting
<1>6. Shown' = Shown
  <2>1. CASE Putting = {}
    BY <1>3, <2>1 DEF Shown, Outside
  <2>2. CASE Putting # {}
    <3>1. PICK u : u = CHOOSE w \in Putting : TRUE
      OBVIOUS
    <3>2. u \in Threads \ {t}
      BY <1>5, <2>2, <3>1
    <3>3. Shown = [value EXCEPT !.r = Put(@, call[u].off, Fits(u))]
      BY <2>2, <3>1 DEF Shown
    <3>4. Shown' = [value' EXCEPT !.r = Put(@, call'[u].off, Fits(u)')]
      <4>1. u = CHOOSE w \in Putting' : TRUE
        BY <1>3, <3>1
      <4> QED
        BY <1>3, <2>2, <4>1 DEF Shown
    <3> QED
      BY <1>4, <3>2, <3>3, <3>4 DEF Outside
  <2> QED
    BY <2>1, <2>2
<1>7. \A u \in Threads : Told[u] = IF u \in Putting THEN Reported(u) ELSE result[u]
  BY DEF Told, Reported
<1>8. \A u \in Threads : Told'[u] = IF u \in Putting' THEN Reported(u)' ELSE result'[u]
  BY DEF Told, Reported, Served
<1>9. \A u \in Threads \ {t} : Reported(u)' = Reported(u)
  BY <1>4 DEF Reported, Served
<1>10. \A u \in Threads \ {t} : Told'[u] = Told[u]
  BY <1>3, <1>7, <1>8, <1>9 DEF Outside
<1>11. Told' = [u \in Threads |-> Told'[u]] /\ Told = [u \in Threads |-> Told[u]]
  BY DEF Told
<1>12. Seen' = Seen
  BY DEF Outside, Seen
<1> QED
  BY <1>1, <1>6, <1>7, <1>8, <1>10, <1>11, <1>12

\* A thread without the lock has in hand what it is going to store only.
LEMMA EmptyHanded ==
    ASSUME Calm, NEW t \in Threads, mode[t] = "none", type \in Types
    PROVE  type \in Numeric \/ text[t] = <<>>
<1>1. ~In(t, "fetch") /\ ~Writing(t)
  BY DEF In, Writing
<1> QED
  BY <1>1 DEF Calm, Progress, Types

LEMMA TakeCalm ==
    ASSUME IInv, Calm, NEW t \in Threads, Take(t)
    PROVE  Calm' /\ UNCHANGED Register!vars
<1>1. /\ mode[t] = "none" /\ todo[t] # <<>> /\ Free(Head(todo[t]).m, t)
      /\ mode' = [mode EXCEPT ![t] = Head(todo[t]).m]
      /\ UNCHANGED <<type, value, call, todo, text, result>>
  BY DEF Take
<1>2. mode'[t] = Head(todo[t]).m /\ \A u \in Threads \ {t} : mode'[u] = mode[u]
  BY <1>1 DEF IInv, Control
<1>3. call[t] \in Calls /\ Now(type, call[t], todo[t])
  <2>1. call[t] \in Calls /\ todo[t] \in Over \cup Ahead(type, call[t])
    BY <1>1 DEF IInv, Control, OnTheWay
  <2> QED
    BY <1>1, <2>1, HoldAtHand
<1>4. \A u \in Threads : Alone(u)'
  <2>1. Alone(t)'
    BY <1>1, <1>2 DEF Alone, Free
  <2>2. ASSUME NEW u \in Threads, u # t PROVE Alone(u)'
    BY <1>1, <1>2, <2>2 DEF Alone, Free, Calm
  <2> QED
    BY <2>1, <2>2
<1>5. type \in Types
  BY PodAssumption DEF IInv, Control
<1>6. type \in Numeric \/ text[t] = <<>>
  BY <1>1, <1>5, EmptyHanded
<1>7. \A u \in Threads : Answered(u)'
  BY <1>1 DEF Calm, Answered
<1>8. Progress(t)'
  <2>1. Progress(t)
    BY DEF Calm
  <2>2. ASSUME type = "string" PROVE text[t] = <<>>
    BY <1>6, <2>2 DEF Numeric
  <2>3. ASSUME type = "string" PROVE FetchedSoFar(t)'
    <3>1. text'[t] = <<>> /\ Len(<<>>) = 0
      BY <1>1, <2>2, <2>3
    <3> QED
      BY <3>1 DEF FetchedSoFar
  <2>4. ASSUME type = "string", Writing(t)' PROVE PutSoFar(t)'
    <3>1. call[t].op = "write"
      BY <1>1, <2>4 DEF Writing
    <3>2. Fits(t) \in Seq(Chars)
      BY <1>3, <2>4, <3>1, FitsIs
    <3>3. Fits(t)' = Fits(t)
      BY <1>1 DEF Fits
    <3>4. text'[t] = <<>> /\ Len(<<>>) = 0 /\ Len(Fits(t)) \in Nat
      BY <1>1, <2>2, <2>4, <3>2, LenProperties
    <3> QED
      BY <3>3, <3>4 DEF PutSoFar
  <2> QED
    BY <1>1, <2>1, <2>2, <2>3, <2>4 DEF Progress
<1>9. ASSUME NEW u \in Threads, u # t PROVE Progress(u)'
  <2>1. Progress(u)
    BY DEF Calm
  <2>2. mode'[u] = mode[u]
    BY <1>2, <1>9
  <2>3. (In(u, "fetch")' <=> In(u, "fetch")) /\ (Writing(u)' <=> Writing(u))
    BY <1>1, <2>2 DEF In, Writing
  <2>4. (FetchedSoFar(u)' <=> FetchedSoFar(u)) /\ (PutSoFar(u)' <=> PutSoFar(u))
    BY <1>1 DEF FetchedSoFar, PutSoFar, Fits
  <2> QED
    BY <1>1, <2>1, <2>3, <2>4 DEF Progress
<1>10. Calm'
  BY <1>1, <1>4, <1>7, <1>8, <1>9 DEF Calm
<1>11. UNCHANGED Register!vars
  <2>1. CASE text[t] = <<>>
    <3>1. Outside(t)
      BY <1>1, <1>2, <2>1 DEF Outside
    <3>2. \A u \in Threads : Told'[u] = Told[u]
      BY <1>1, <3>1, SeenFromOutside
    <3>3. Told' = Told
      BY <3>1, <3>2, SeenFromOutside
    <3> QED
      BY <1>1, <3>1, <3>3, SeenFromOutside DEF Register!vars
  <2>2. CASE type \in Numeric
    <3>1. \A u \in Threads : u \notin Putting /\ u \notin Putting'
      <4> SUFFICES ASSUME NEW u \in Threads, Head(todo[u]).what = "put", call[u].op = "write",
                          mode[u] # "none" \/ u = t
                   PROVE  FALSE
        BY <1>1, <1>2 DEF Putting, In
      <4>1. call[u] \in Calls /\ Now(type, call[u], todo[u])
        BY <1>3, InHold DEF In, IInv
      <4> QED
        BY <2>2, <4>1 DEF Now
    <3>2. Putting = {} /\ Putting' = {}
      BY <3>1 DEF Putting
    <3>3. Shown' = Shown
      BY <1>1, <3>2 DEF Shown
    <3>4. Told' = Told
      BY <1>1, <3>2 DEF Told
    <3> QED
      BY <1>1, <3>3, <3>4 DEF Register!vars, Seen
  <2> QED
    BY <1>6, <2>1, <2>2
<1> QED
  BY <1>10, <1>11

\* A call begins or returns.
LEMMA OutsideCalm ==
    ASSUME IInv, Calm, NEW t \in Threads, Outside(t), mode' = mode,
           result' \in [Threads -> Results \cup {NoResult}], Answered(t)',
           todo[t] # <<StoreHold, R>>, todo'[t] # <<StoreHold, R>>
    PROVE  Calm'
<1>1. /\ mode[t] = "none" /\ UNCHANGED <<type, value, text, mode>>
      /\ \A u \in Threads \ {t} : call'[u] = call[u] /\ todo'[u] = todo[u] /\ result'[u] = result[u]
  BY DEF Outside
<1>2. ASSUME NEW u \in Threads PROVE Alone(u)'
  BY <1>1 DEF Calm, Alone
<1>3. Progress(t)'
  <2>1. Progress(t)
    BY DEF Calm
  <2>2. ~In(t, "fetch") /\ ~Writing(t) /\ ~In(t, "fetch")' /\ ~Writing(t)'
    BY <1>1 DEF In, Writing
  <2> QED
    BY <1>1, <2>1, <2>2 DEF Progress
<1>4. ASSUME NEW u \in Threads, u # t PROVE Answered(u)' /\ Progress(u)'
  <2>1. Answered(u) /\ Progress(u)
    BY DEF Calm
  <2>2. call'[u] = call[u] /\ todo'[u] = todo[u] /\ result'[u] = result[u] /\ mode'[u] = mode[u]
    BY <1>1, <1>4
  <2>3. (In(u, "fetch")' <=> In(u, "fetch")) /\ (Writing(u)' <=> Writing(u))
    BY <1>1, <2>2 DEF In, Writing
  <2>4. (FetchedSoFar(u)' <=> FetchedSoFar(u)) /\ (PutSoFar(u)' <=> PutSoFar(u))
    BY <1>1, <2>2 DEF FetchedSoFar, PutSoFar, Fits
  <2>5. Progress(u)'
    BY <1>1, <2>1, <2>2, <2>3, <2>4 DEF Progress
  <2> QED
    BY <1>1, <2>1, <2>2, <2>5 DEF Answered
<1> QED
  BY <1>2, <1>3, <1>4 DEF Calm

LEMMA CallReturns ==
    ASSUME IInv, Calm, NEW t \in Threads, Return(t)
    PROVE  Calm' /\ Register!End(t)
<1>1. /\ call[t] # NoCall /\ todo[t] = <<>>
      /\ call' = [call EXCEPT ![t] = NoCall] /\ result' = [result EXCEPT ![t] = NoResult]
      /\ UNCHANGED <<type, value, mode, todo, text>>
  BY DEF Return
<1>2. mode[t] = "none"
  BY <1>1 DEF IInv, Control, OnTheWay
<1>3. /\ call'[t] = NoCall /\ result'[t] = NoResult
      /\ \A u \in Threads \ {t} : call'[u] = call[u] /\ result'[u] = result[u]
      /\ result' \in [Threads -> Results \cup {NoResult}]
  BY <1>1 DEF IInv, Control, Calm
<1>4. Outside(t)
  BY <1>1, <1>2, <1>3 DEF Outside
<1>5. result[t] # NoResult
  <2>1. todo[t] \in Over
    BY <1>1 DEF Over
  <2>2. result[t] \in Results
    BY <1>1, <2>1 DEF Calm, Answered
  <2> QED
    BY <2>2, InputAssumption DEF Results
<1>6. Calm'
  <2>1. Answered(t)'
    BY <1>3 DEF Answered
  <2>2. todo[t] # <<StoreHold, R>> /\ todo'[t] # <<StoreHold, R>>
    <3>1. <<StoreHold, R>> # <<>>
      OBVIOUS
    <3> QED
      BY <1>1, <3>1, Zenon
  <2> QED
    BY <1>1, <1>3, <1>4, <2>1, <2>2, OutsideCalm
<1>7. Register!End(t)
  <2>1. Told[t] # NoResult
    BY <1>4, <1>5, SeenFromOutside
  <2>2. Told' = [Told EXCEPT ![t] = NoResult]
    <3>1. Told' = [u \in Threads |-> Told'[u]] /\ Told = [u \in Threads |-> Told[u]]
      BY <1>4, SeenFromOutside
    <3>2. Told'[t] = NoResult /\ \A u \in Threads \ {t} : Told'[u] = Told[u]
      BY <1>3, <1>4, SeenFromOutside
    <3> QED
      BY <3>1, <3>2
  <2>3. Shown' = Shown
    BY <1>4, SeenFromOutside
  <2> QED
    BY <1>1, <1>4, <2>1, <2>2, <2>3, SeenFromOutside DEF Register!End
<1> QED
  BY <1>6, <1>7

LEMMA CallBegins ==
    ASSUME IInv, Calm, NEW t \in Threads, NEW c \in Calls, Request(t, c)
    PROVE  Calm' /\ Register!Begin(t, c)
<1>1. /\ call[t] = NoCall /\ MayBegin(t, c) /\ call' = [call EXCEPT ![t] = c]
      /\ todo' = [todo EXCEPT ![t] = Holds(c)]
      /\ UNCHANGED <<type, value, mode, text, result>>
  BY DEF Request
<1>2. mode[t] = "none" /\ c # NoCall
  BY <1>1, InputAssumption DEF IInv, Control, OnTheWay
<1>3. PICK s : s = Holds(c)
  OBVIOUS
<1>4. /\ call'[t] = c /\ todo'[t] = s
      /\ \A u \in Threads \ {t} : call'[u] = call[u] /\ todo'[u] = todo[u]
  BY <1>1, <1>3 DEF IInv, Control
<1>5. Outside(t)
  BY <1>1, <1>2, <1>4 DEF Outside
<1>6. Calm'
  <2>1. s \notin Over
    BY <1>3, HoldsAhead, AheadIsNotOver
  <2>2. result[t] = NoResult
    BY <1>1 DEF Calm, Answered
  <2>3. Answered(t)'
    BY <1>1, <1>2, <1>4, <2>1, <2>2 DEF Answered
  <2>4. todo[t] # <<StoreHold, R>>
    <3>1. todo[t] = <<>>
      BY <1>1 DEF IInv, Control, OnTheWay
    <3>2. <<StoreHold, R>> # <<>>
      OBVIOUS
    <3> QED
      BY <3>1, <3>2, Zenon
  <2>5. s # <<StoreHold, R>>
    <3>1. c.op \in {"read", "write", "truncate", "get", "put"}
      BY Kinds
    <3>2. Len(s) \in {3, 5, 7, 1}
      BY <1>3, <3>1 DEF Holds, ReadHolds, BytesHolds, NumberHolds, TruncateHolds
    <3>3. Len(<<StoreHold, R>>) = 2
      OBVIOUS
    <3> QED
      BY <3>2, <3>3
  <2>6. result' \in [Threads -> Results \cup {NoResult}]
    BY <1>1 DEF Calm
  <2> QED
    BY <1>1, <1>4, <1>5, <2>3, <2>4, <2>5, <2>6, OutsideCalm
<1>7. Register!Begin(t, c)
  <2>1. Told' = Told
    <3>1. Told' = [u \in Threads |-> Told'[u]] /\ Told = [u \in Threads |-> Told[u]]
      BY <1>5, SeenFromOutside
    <3>2. \A u \in Threads : Told'[u] = Told[u]
      BY <1>1, <1>5, SeenFromOutside
    <3> QED
      BY <3>1, <3>2
  <2>2. Shown' = Shown
    BY <1>5, SeenFromOutside
  <2> QED
    BY <1>1, <1>5, <2>1, <2>2, SeenFromOutside DEF Register!Begin
<1> QED
  BY <1>6, <1>7

-----------------------------------------------------------------------------
(* Every call acts at one moment                                           *)

\* Every step keeps Calm, and is one of PodRegister or none.
LEMMA StepActs ==
    ASSUME Ordinary, IInv, Calm, NEW t \in Threads, Step(t)
    PROVE  Calm' /\ (Register!Look(t) \/ Register!Act(t) \/ Register!End(t) \/ UNCHANGED Register!vars)
<1>1. CASE Take(t)
  BY <1>1, TakeCalm
<1>2. CASE Pass(t)
  <2>1. In(t, "pass") /\ EndHold(t) /\ UNCHANGED <<type, value, call, text, result>>
    BY <1>2 DEF Pass
  <2> QED
    BY <2>1, EndsQuietly
<1>3. CASE FetchScalar(t)
  <2>1. call[t].op \in {"read", "write"}
    BY <1>3, InHold DEF IInv, FetchScalar, Now
  <2> QED
    BY <1>3, <2>1, ScalarIsRead, ScalarIsFetched
<1>4. CASE FetchBytes(t)
  BY <1>4, ByteIsFetched, StringIsRead
<1>5. CASE PutChar(t)
  BY <1>5, CharIsPut
<1>6. CASE PutRefused(t)
  BY <1>6, NoneIsPut
<1>7. CASE PutBytes(t)
  BY <1>7, FirstByteIsPut, NextByteIsPut, NothingFits, AllIsPut
<1>8. CASE Check(t)
  BY <1>8, CheckFails, CheckPasses
<1>9. CASE Store(t)
  BY <1>9, NumberIsStored
<1>10. CASE Ask(t)
  <2>1. CASE ~call[t].agrees
    BY <1>10, <2>1, ModifyRefused DEF Ask
  <2>2. CASE call[t].agrees
    <3>1. In(t, "ask") /\ EndHold(t) /\ UNCHANGED <<type, value, call, text, result>>
      BY <1>10, <2>2 DEF Ask
    <3>2. call[t].op = "truncate" /\ call[t] \in Calls
      BY <3>1, InHold DEF IInv, Now
    <3>3. Agreed(type, call[t])
      BY <2>2, <3>2, CallTypes, InputAssumption
      DEF Agreed, IInv, Control, Entitled, MayBegin, Ordinary
    <3> QED
      BY <3>1, <3>3, EndsQuietly
  <2> QED
    BY <2>1, <2>2
<1>11. CASE Clear(t)
  BY <1>11, RestIsCleared
<1>12. CASE GrowFails(t)
  BY <1>12, FileDoesNotGrow
<1>13. CASE GetPOD(t)
  BY <1>13, PODIsGot
<1>14. CASE PutPOD(t)
  BY <1>14, PODIsPut
<1>15. CASE Return(t)
  BY <1>15, CallReturns
<1> QED
  BY <1>1, <1>2, <1>3, <1>4, <1>5, <1>6, <1>7, <1>8, <1>9, <1>10, <1>11, <1>12, <1>13, <1>14, <1>15
  DEF Step

LEMMA NextActs ==
    ASSUME Ordinary, IInv, Calm, [Next]_vars
    PROVE  Calm' /\ [Register!Next]_(Register!vars)
<1>1. CASE UNCHANGED vars
  <2>1. Calm'
    BY <1>1 DEF vars, Calm, Alone, Answered, Progress, In, Writing, FetchedSoFar,
                PutSoFar, Fits
  <2>2. Putting' = Putting
    BY <1>1 DEF vars, Putting, In
  <2>3. Shown' = Shown
    BY <1>1, <2>2 DEF vars, Shown, Fits
  <2>4. Told' = Told
    BY <1>1, <2>2 DEF vars, Told, Fits, Served
  <2>5. Seen' = Seen
    BY <1>1 DEF vars, Seen
  <2> QED
    BY <1>1, <2>1, <2>3, <2>4, <2>5 DEF vars, Register!vars
<1>2. ASSUME NEW t \in Threads, Step(t) PROVE Calm' /\ [Register!Next]_(Register!vars)
  BY <1>2, StepActs DEF Register!Next
<1>3. ASSUME NEW t \in Threads, NEW c \in Calls, Request(t, c)
      PROVE  Calm' /\ [Register!Next]_(Register!vars)
  BY <1>3, CallBegins DEF Register!Next
<1> QED
  BY <1>1, <1>2, <1>3 DEF Next

LEMMA BeginsCalmly ==
    ASSUME Init
    PROVE  /\ Calm
           /\ call = [t \in Threads |-> NoCall] /\ Told = [t \in Threads |-> NoResult]
           /\ Seen = [t \in Threads |-> <<>>]
<1>1. \A t \in Threads : Alone(t) /\ Answered(t)
  BY DEF Init, Alone, Answered
<1>2. ASSUME NEW t \in Threads PROVE Progress(t)
  <2>1. todo[t] = <<>> /\ text[t] = <<>> /\ mode[t] = "none"
    BY DEF Init
  <2>2. ~In(t, "fetch") /\ ~Writing(t)
    BY <2>1 DEF In, Writing
  <2>3. <<StoreHold, R>> # <<>>
    OBVIOUS
  <2>4. todo[t] # <<StoreHold, R>>
    BY <2>1, <2>3, Zenon
  <2> QED
    BY <2>1, <2>2, <2>4 DEF Progress
<1>3. Calm
  BY <1>1, <1>2 DEF Init, Calm
<1>4. Putting = {}
  BY DEF Init, Putting, In
<1>5. Seen = [t \in Threads |-> <<>>]
  BY DEF Init, Seen
<1> QED
  BY <1>3, <1>4, <1>5, NobodyPutting DEF Init, Calm

\* Any calls of any threads act like operations on a register that take effect at one
\* moment between the request and its answer: a read gets the bytes of before or
\* after a write to a string and never some of each, a truncation that onModify
\* refuses changes nothing, and what is stored, cut off and returned at every offset,
\* also where podtmp ends, is what PodRegister says position by position.  A write to
\* a number starts from the text it has seen at one moment and stores at another, since
\* procfuse_onFuseReadPOD lets go of the write lock.
THEOREM CallsImplementRegister ==
    ASSUME Ordinary
    PROVE  Spec => RegisterSpec
<1>1. Init => IInv /\ Calm
  BY InitIInv, BeginsCalmly
<1>2. IInv /\ Calm /\ [Next]_vars => IInv' /\ Calm'
  BY Inductive, NextActs DEF Ordinary
<1>3. Init => /\ call = [t \in Threads |-> NoCall] /\ Told = [t \in Threads |-> NoResult]
              /\ Seen = [t \in Threads |-> <<>>]
  BY BeginsCalmly
<1>4. IInv /\ Calm /\ [Next]_vars => [Register!Next]_(Register!vars)
  BY NextActs
<1> QED
  BY <1>1, <1>2, <1>3, <1>4, PTL DEF Spec, RegisterSpec, Register!Spec
=============================================================================
