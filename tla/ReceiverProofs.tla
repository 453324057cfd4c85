---------------------------- MODULE ReceiverProofs ----------------------------
(***************************************************************************)
(* Proofs about Receiver for every number, length and kind of the lines,   *)
(* every limit on a line and on a read, and every number of resets.        *)
(***************************************************************************)
EXTENDS Receiver, TLAPS, FiniteSetTheorems, SequenceTheorems, WellFoundedInduction

USE CountAssumption, MaxLineAssumption

(***************************************************************************)
(* Numbers.                                                                *)
(***************************************************************************)
LEMMA LeastOfNaturals ==
  ASSUME NEW S \in SUBSET Nat, S # {}
  PROVE  \E m \in S : \A x \in S : m <= x
<1> DEFINE R == OpToRel(<, Nat)
<1>1. IsWellFoundedOn(R, Nat)
  BY NatLessThanWellFounded
<1>2. \A i, j \in Nat : i < j => <<i, j>> \in R
  BY DEF OpToRel
<1> HIDE DEF R
<1>3. PICK m \in S : \A j \in S : ~(<<j, m>> \in R)
  <2>1. S \subseteq Nat /\ S # {}
    OBVIOUS
  <2> QED
    BY ONLY <1>1, <2>1, WFMin
<1>4. ASSUME NEW x \in S PROVE m <= x
  <2>1. m \in Nat /\ x \in Nat /\ ~(x < m)
    BY <1>2, <1>3
  <2> QED
    BY <2>1
<1> QED
  BY <1>4

LEMMA MaxOf ==
  ASSUME NEW n \in Nat, NEW S \in SUBSET (0..n), S # {}
  PROVE  Max(S) \in S /\ \A x \in S : x <= Max(S)
<1> DEFINE T == {n - x : x \in S}
<1>1. T \in SUBSET Nat /\ T # {}
  <2>1. ASSUME NEW x \in S PROVE n - x \in Nat
    <3>1. x \in Nat /\ x <= n
      OBVIOUS
    <3> QED
      BY <3>1
  <2> QED
    BY <2>1
<1>2. PICK k \in T : \A j \in T : k <= j
  BY <1>1, LeastOfNaturals
<1>3. PICK m \in S : k = n - m
  OBVIOUS
<1>4. ASSUME NEW x \in S PROVE m >= x
  <2>1. k <= n - x
    BY <1>2
  <2> QED
    BY <1>3, <2>1
<1>5. Max(S) \in S /\ \A x \in S : Max(S) >= x
  BY <1>4 DEF Max
<1>6. ASSUME NEW x \in S PROVE x <= Max(S)
  <2>0. \A y \in S : y \in Nat
    OBVIOUS
  <2>1. Max(S) \in Nat /\ x \in Nat /\ Max(S) >= x
    BY <1>5, <2>0
  <2> QED
    BY <2>1
<1> QED
  BY <1>5, <1>6

(***************************************************************************)
(* The inductive invariant.                                                *)
(***************************************************************************)
\* The lines come one after the other.
Rising == ends[0] = 0 /\ \A m, n \in 0..Count : m < n => ends[m] < ends[n]

\* No newline waits in the buffer, which is empty between two connections.
NoEndInside ==
  /\ ~connected => from = pos
  /\ \A n \in Numbers : ends[n] <= from \/ pos < ends[n]

\* What is missing at the head of the line in the buffer is too long by itself.
HeadGone(f) == \A n \in Numbers : ends[n - 1] < f /\ f < ends[n] => f - ends[n - 1] > MaxLine

\* What was processed or lost is over before the buffer begins.
OverBefore ==
  /\ \A k \in DOMAIN got : ends[got[k].line] <= from
  /\ \A n \in lost : ends[n] <= from

Inv ==
  /\ TypeOK /\ Rising /\ NoEndInside /\ HeadGone(from) /\ BufferBounded
  /\ OverBefore /\ ShortLinesArrive /\ OnlyTailsBesides

LEMMA RisingInit == Init => Rising
<1> SUFFICES ASSUME Init PROVE Rising
  OBVIOUS
<1>1. /\ \A n \in 0..Count : ends[n] \in Nat
      /\ \A n \in Numbers : ends[n - 1] < ends[n]
  <2>1. ends \in [0..Count -> 0..MaxBytes]
    BY DEF Init
  <2>2. ASSUME NEW n \in 0..Count PROVE ends[n] \in Nat
    BY <2>1
  <2>3. ASSUME NEW n \in Numbers PROVE ends[n - 1] < ends[n]
    <3>1. n - 1 \in 0..Count /\ n \in 0..Count
      BY DEF Numbers
    <3>2. ends[n] - ends[n - 1] - 1 \in Nat
      BY LengthsAssumption DEF Init
    <3> QED
      BY <2>2, <3>1, <3>2
  <2> QED
    BY <2>2, <2>3
<1> DEFINE S == {n \in 0..Count : \E m \in 0..Count : m < n /\ ~(ends[m] < ends[n])}
<1>2. CASE S = {}
  <2>1. ASSUME NEW m \in 0..Count, NEW n \in 0..Count, m < n PROVE ends[m] < ends[n]
    BY <1>2, <2>1
  <2>2. ends[0] = 0
    BY DEF Init
  <2> QED
    BY <2>1, <2>2 DEF Rising
<1>3. CASE S # {}
  <2>1. S \in SUBSET Nat
    OBVIOUS
  <2>2. PICK n \in S : \A x \in S : n <= x
    BY <1>3, <2>1, LeastOfNaturals
  <2>3. PICK m \in 0..Count : m < n /\ ~(ends[m] < ends[n])
    BY <2>2
  <2>4. n \in Numbers /\ n - 1 \in 0..Count /\ n - 1 < n /\ n \in 0..Count
    BY <2>3 DEF Numbers
  <2>5. n - 1 \notin S
    BY <2>1, <2>2, <2>4
  <2>6. m = n - 1 \/ ends[m] < ends[n - 1]
    BY <2>3, <2>4, <2>5
  <2> QED
    BY <1>1, <2>3, <2>4, <2>6
<1> QED
  BY <1>2, <1>3

LEMMA InvInit == Init => Inv
<1> SUFFICES ASSUME Init PROVE Inv
  OBVIOUS
<1>1. /\ pos = 0 /\ from = 0 /\ connected = FALSE /\ got = <<>> /\ lost = {} /\ drops = 0
      /\ ends \in [0..Count -> 0..MaxBytes] /\ ends[0] = 0
      /\ kinds \in [Numbers -> Kinds]
      /\ health = [active |-> 0, records |-> 0, errors |-> 0, mismatch |-> FALSE]
  BY DEF Init
<1>2. Rising
  BY RisingInit
<1>3. ASSUME NEW n \in Numbers PROVE ends[n] > 0
  BY <1>1, <1>2 DEF Rising, Numbers
<1>4. TypeOK
  <2>1. ends[Count] \in Nat
    BY <1>1
  <2>2. <<>> \in Seq([line : Numbers, from : Nat])
    OBVIOUS
  <2>3. pos \in 0..ends[Count] /\ from \in 0..pos
    BY <1>1, <2>1
  <2>4. health \in [active : Nat, records : Nat, errors : Nat, mismatch : BOOLEAN]
    BY <1>1
  <2>5. health.active = IF connected THEN 1 ELSE 0
    BY <1>1
  <2> QED
    BY <1>1, <2>2, <2>3, <2>4, <2>5 DEF TypeOK
<1>5. NoEndInside /\ BufferBounded
  BY <1>1, <1>3 DEF NoEndInside, BufferBounded
<1>6. DOMAIN got = {} /\ lost = {}
  BY <1>1
<1>7. OverBefore /\ OnlyTailsBesides
  BY <1>6 DEF OverBefore, OnlyTailsBesides
<1>8. ShortLinesArrive
  <2>1. ASSUME NEW n \in Numbers PROVE ~(ends[n] <= pos)
    <3>1. n \in 0..Count
      BY DEF Numbers
    <3>2. ends[n] \in Nat /\ ends[n] > 0
      BY <1>1, <1>3, <3>1
    <3> QED
      BY <1>1, <3>2
  <2> QED
    BY <1>6, <2>1 DEF ShortLinesArrive
<1>9. HeadGone(from)
  <2>1. ASSUME NEW n \in Numbers PROVE ~(ends[n - 1] < 0)
    <3>1. n - 1 \in 0..Count
      BY DEF Numbers
    <3>2. ends[n - 1] \in Nat
      BY <1>1, <3>1
    <3> QED
      BY <3>2
  <2> QED
    BY <1>1, <2>1 DEF HeadGone
<1> QED
  BY <1>2, <1>4, <1>5, <1>7, <1>8, <1>9 DEF Inv

(***************************************************************************)
(* Framing: what becomes of a buffer with the bytes up to p.               *)
(***************************************************************************)
LEMMA Places ==
  ASSUME Inv
  PROVE  /\ pos \in Nat /\ from \in Nat /\ from <= pos /\ pos <= ends[Count]
         /\ ends[Count] \in Nat
         /\ \A n \in 0..Count : ends[n] \in Nat /\ ends[n] <= ends[Count]
         /\ \A n \in Numbers : /\ n \in 0..Count /\ n - 1 \in 0..Count
                               /\ ends[n - 1] < ends[n]
<1>1. /\ ends \in [0..Count -> 0..MaxBytes] /\ pos \in 0..ends[Count] /\ from \in 0..pos
      /\ Rising
  BY DEF Inv, TypeOK
<1>2. ASSUME NEW n \in 0..Count PROVE ends[n] \in Nat
  BY <1>1
<1>3. ASSUME NEW n \in 0..Count PROVE ends[n] <= ends[Count]
  BY <1>1, <1>2 DEF Rising
<1>4. ASSUME NEW n \in Numbers PROVE n \in 0..Count /\ n - 1 \in 0..Count /\ n - 1 < n
  BY DEF Numbers
<1>5. ASSUME NEW n \in Numbers PROVE ends[n - 1] < ends[n]
  BY <1>1, <1>4 DEF Rising
<1> QED
  BY <1>1, <1>2, <1>3, <1>4, <1>5

LEMMA LinesInOrder ==
  ASSUME Inv, NEW m \in 0..Count, NEW n \in 0..Count, ends[m] < ends[n]
  PROVE  m < n
<1>1. ends[m] \in Nat /\ ends[n] \in Nat
  BY Places
<1>2. n < m => ends[n] < ends[m]
  BY DEF Inv, Rising
<1> QED
  BY <1>1, <1>2

LEMMA LineFacts ==
  ASSUME Inv, NEW p \in Nat, NEW n \in Ended(p)
  PROVE  /\ n \in Numbers /\ pos < ends[n] /\ ends[n] <= p /\ from < ends[n]
         /\ Start(n) \in Nat /\ Start(n) < ends[n] /\ Start(n) >= ends[n - 1]
         /\ Start(n) = ends[n - 1] \/ Length(n) > MaxLine
<1>1. /\ n \in Numbers /\ from < ends[n] /\ ends[n] <= p
  BY DEF Ended
<1>2. /\ from \in Nat /\ ends[n - 1] \in Nat /\ ends[n] \in Nat /\ ends[n - 1] < ends[n]
      /\ pos \in Nat
  BY <1>1, Places
<1>3. pos < ends[n]
  BY <1>1, <1>2 DEF Inv, NoEndInside
<1>4. CASE from < ends[n - 1] \/ from = ends[n - 1]
  BY <1>1, <1>2, <1>3, <1>4 DEF Start
<1>5. CASE ends[n - 1] < from
  <2>1. from - ends[n - 1] > MaxLine
    BY <1>1, <1>5 DEF Inv, HeadGone
  <2>2. Length(n) > MaxLine
    BY <1>1, <1>2, <2>1 DEF Length
  <2>3. Start(n) = from
    BY <1>2, <1>5 DEF Start
  <2> QED
    BY <1>1, <1>2, <1>3, <1>5, <2>2, <2>3
<1> QED
  BY <1>2, <1>4, <1>5

\* A line that is not too long is framed whole; of one that is, at most a tail.
LEMMA LinesFacts ==
  ASSUME Inv, NEW p \in Nat
  PROVE  /\ Lines(p) \subseteq Ended(p) /\ Ended(p) \subseteq Numbers
         /\ \A n \in Ended(p) : Length(n) <= MaxLine =>
              n \in Lines(p) /\ Start(n) = ends[n - 1]
         /\ \A n \in Lines(p) :
              \/ Start(n) = ends[n - 1] /\ Length(n) <= MaxLine
              \/ /\ Start(n) > ends[n - 1] /\ Length(n) > MaxLine
                 /\ Start(n) < ends[n] /\ ends[n] - Start(n) - 1 <= MaxLine
<1>1. Lines(p) \subseteq Ended(p) /\ Ended(p) \subseteq Numbers
  BY DEF Lines, Ended
<1>2. ASSUME NEW n \in Ended(p)
      PROVE  /\ Length(n) \in Nat /\ ends[n - 1] \in Nat /\ ends[n] \in Nat
             /\ Start(n) = ends[n - 1] => Length(n) = ends[n] - Start(n) - 1
  BY <1>1, Places DEF Length
<1>3. ASSUME NEW n \in Ended(p), Length(n) <= MaxLine
      PROVE  n \in Lines(p) /\ Start(n) = ends[n - 1]
  <2>1. Start(n) = ends[n - 1]
    BY <1>2, <1>3, LineFacts
  <2> QED
    BY <1>2, <1>3, <2>1 DEF Lines
<1>4. ASSUME NEW n \in Lines(p)
      PROVE  \/ Start(n) = ends[n - 1] /\ Length(n) <= MaxLine
             \/ /\ Start(n) > ends[n - 1] /\ Length(n) > MaxLine
                /\ Start(n) < ends[n] /\ ends[n] - Start(n) - 1 <= MaxLine
  <2>1. n \in Ended(p) /\ ends[n] - Start(n) - 1 <= MaxLine
    BY DEF Lines
  <2>2. /\ Start(n) \in Nat /\ Start(n) < ends[n] /\ Start(n) >= ends[n - 1]
        /\ Start(n) = ends[n - 1] \/ Length(n) > MaxLine
    BY <2>1, LineFacts
  <2>3. /\ Length(n) \in Nat /\ ends[n - 1] \in Nat
        /\ Start(n) = ends[n - 1] => Length(n) = ends[n] - Start(n) - 1
    BY <1>2, <2>1
  <2> QED
    BY <2>1, <2>2, <2>3
<1> QED
  BY <1>1, <1>3, <1>4

\* What remains is the end of the line in which p is, unless that is too long.
LEMMA RemainingFacts ==
  ASSUME Inv, NEW p \in Nat, pos < p, p <= ends[Count]
  PROVE  /\ Remaining(p) \in Nat /\ from <= Remaining(p) /\ Remaining(p) <= p
         /\ p - Remaining(p) <= MaxLine
         /\ \A n \in Numbers : ends[n] <= Remaining(p) \/ p < ends[n]
         /\ HeadGone(Remaining(p))
<1> DEFINE S == {from} \cup {ends[n] : n \in Ended(p)}
           e == LastEnd(p)
           r == Remaining(p)
<1>1. /\ pos \in Nat /\ from \in Nat /\ from <= pos
      /\ \A n \in Numbers : ends[n] \in Nat /\ ends[n - 1] \in Nat /\ ends[n - 1] < ends[n]
  BY Places
<1>2. S \in SUBSET (0..p) /\ S # {}
  <2>1. ASSUME NEW n \in Ended(p) PROVE ends[n] \in 0..p
    BY <1>1 DEF Ended
  <2>2. from \in 0..p
    BY <1>1
  <2> QED
    BY <2>1, <2>2
<1>3. e \in S /\ \A x \in S : x <= e
  BY <1>2, MaxOf DEF LastEnd
<1>4. e \in 0..p /\ from <= e
  BY <1>2, <1>3
<1>5. ASSUME NEW n \in Numbers, ends[n] <= p PROVE ends[n] <= e
  <2>1. CASE from < ends[n]
    <3>1. ends[n] \in S
      BY <1>5, <2>1 DEF Ended
    <3> QED
      BY <1>3, <3>1
  <2>2. CASE ~(from < ends[n])
    BY <1>1, <1>4, <2>2
  <2> QED
    BY <2>1, <2>2
<1>6. HeadGone(e)
  <2> SUFFICES ASSUME NEW n \in Numbers, ends[n - 1] < e, e < ends[n]
               PROVE  e - ends[n - 1] > MaxLine
    BY DEF HeadGone
  <2>1. CASE e = from
    BY <2>1 DEF Inv, HeadGone
  <2>2. CASE e # from
    <3>1. PICK j \in Numbers : e = ends[j]
      BY <1>3, <2>2 DEF Ended
    <3>2. n - 1 \in 0..Count /\ n \in 0..Count /\ j \in 0..Count
      BY <3>1, Places
    <3>3. n - 1 < j /\ j < n
      BY <3>1, <3>2, LinesInOrder
    <3> QED
      BY <3>2, <3>3
  <2> QED
    BY <2>1, <2>2
<1> HIDE DEF e, S
<1>7. r = IF p - e > MaxLine THEN p ELSE e
  BY DEF Remaining, e, r
<1> HIDE DEF r
<1>8. /\ r \in Nat /\ from <= r /\ e <= r /\ r <= p /\ p - r <= MaxLine
  <2>1. e \in Nat /\ e <= p /\ from \in Nat /\ MaxLine \in Nat
    BY <1>1, <1>4
  <2>2. CASE p - e > MaxLine
    BY <1>4, <1>7, <2>1, <2>2
  <2>3. CASE ~(p - e > MaxLine)
    BY <1>4, <1>7, <2>1, <2>3
  <2> QED
    BY <2>2, <2>3
<1>9. ASSUME NEW n \in Numbers PROVE ends[n] <= r \/ p < ends[n]
  <2>1. ends[n] \in Nat /\ e \in Nat
    BY <1>1, <1>4
  <2>2. ends[n] <= p => ends[n] <= e
    BY <1>5
  <2> QED
    BY <1>8, <2>1, <2>2
<1>10. HeadGone(r)
  <2>1. CASE r = e
    BY <1>6, <2>1
  <2>2. CASE r = p /\ p - e > MaxLine
    <3> SUFFICES ASSUME NEW n \in Numbers, ends[n - 1] < p, p < ends[n]
                 PROVE  p - ends[n - 1] > MaxLine
      BY <2>2 DEF HeadGone
    <3>1. ends[n - 1] \in Nat /\ n - 1 \in 0..Count
      BY Places
    <3>2. ends[n - 1] <= e
      <4>1. CASE n - 1 \in Numbers
        BY <1>5, <3>1, <4>1
      <4>2. CASE n - 1 = 0
        <5>1. ends[0] = 0
          BY DEF Inv, Rising
        <5> QED
          BY <1>4, <4>2, <5>1
      <4> QED
        BY <3>1, <4>1, <4>2 DEF Numbers
    <3> QED
      BY <1>4, <2>2, <3>1, <3>2
  <2> QED
    BY <1>7, <2>1, <2>2
<1> QED
  BY <1>8, <1>9, <1>10 DEF r
(***************************************************************************)
(* Processing: what a step adds to the history and to the counters.        *)
(***************************************************************************)
LEMMA UpTo ==
  ASSUME NEW n \in Nat
  PROVE  IsFiniteSet(1..n) /\ Cardinality(1..n) = n
<1>1. IsFiniteSet(1..n) /\ Cardinality(1..n) = IF 1 > n THEN 0 ELSE n - 1 + 1
  BY FS_Interval
<1> QED
  BY <1>1

LEMMA NumberIsNatural ==
  ASSUME NEW L \in SUBSET Numbers, NEW kind
  PROVE  Number(L, kind) \in Nat /\ Cardinality(L) \in Nat
<1> DEFINE S == {n \in L : KindOf(n) = kind}
<1>1. IsFiniteSet(Numbers)
  BY UpTo DEF Numbers
<1>2. S \subseteq Numbers
  OBVIOUS
<1>3. IsFiniteSet(S) /\ IsFiniteSet(L)
  BY <1>1, <1>2, FS_Subset
<1> QED
  BY <1>3, FS_CardinalityType DEF Number

\* The entries of the history.
Entry == [line : Numbers, from : Nat]

\* The entries that a step adds are those of the lines of L, in their order.
Added(L) ==
  /\ got' \in Seq(Entry)
  /\ \A k \in DOMAIN got : k \in DOMAIN got' /\ got'[k] = got[k]
  /\ \A k \in DOMAIN got' \ DOMAIN got :
       got'[k].line \in L /\ got'[k].from = Start(got'[k].line)
  /\ \A n \in L : \E k \in DOMAIN got' : got'[k] = [line |-> n, from |-> Start(n)]
  /\ \A k \in DOMAIN got' \ DOMAIN got, j \in DOMAIN got' :
       j < k => j \in DOMAIN got \/ got'[j].line < got'[k].line

LEMMA ProcessedAdds ==
  ASSUME got \in Seq(Entry), NEW L \in SUBSET Numbers, NEW active,
         \A n \in L : Start(n) \in Nat, Processed(L, active)
  PROVE  Added(L)
<1>1. PICK order \in [1..Cardinality(L) -> L] :
        /\ {order[k] : k \in DOMAIN order} = L
        /\ \A j, k \in DOMAIN order : j < k => order[j] < order[k]
        /\ got' = got \o [k \in DOMAIN order |->
                            [line |-> order[k], from |-> Start(order[k])]]
  BY DEF Processed
<1> DEFINE c == Cardinality(L)
           t == [k \in DOMAIN order |-> [line |-> order[k], from |-> Start(order[k])]]
<1>2. c \in Nat /\ DOMAIN order = 1..c
  BY <1>1, NumberIsNatural
<1>3. /\ DOMAIN t = 1..c
      /\ \A k \in 1..c : order[k] \in L /\ t[k] = [line |-> order[k], from |-> Start(order[k])]
  BY <1>1, <1>2
<1>4. \A k \in 1..c : t[k] \in Entry /\ t[k].line = order[k] /\ t[k].from = Start(order[k])
  BY <1>3 DEF Entry
<1> HIDE DEF t, c
<1>5. t \in Seq(Entry) /\ Len(t) = c
  <2>1. t \in [1..c -> Entry]
    <3>1. t = [k \in 1..c |-> t[k]]
      BY <1>2 DEF t
    <3> QED
      BY <1>4, <3>1
  <2> QED
    BY <1>2, <2>1
<1>6. got' = got \o t
  BY <1>1 DEF t
<1> DEFINE l == Len(got)
<1>7. l \in Nat /\ DOMAIN got = 1..l
  OBVIOUS
<1>8. /\ got' \in Seq(Entry) /\ Len(got') = l + c
      /\ \A k \in 1..(l + c) : got'[k] = IF k <= l THEN got[k] ELSE t[k - l]
  <2>1. got \in Seq(Entry)
    OBVIOUS
  <2> QED
    BY ONLY <1>5, <1>6, <2>1, ConcatProperties DEF l
<1> HIDE DEF l
<1>9. DOMAIN got' = 1..(l + c)
  BY <1>2, <1>7, <1>8
<1>10. ASSUME NEW k \in DOMAIN got
       PROVE  k \in DOMAIN got' /\ got'[k] = got[k]
  <2>1. k \in 1..l /\ k \in 1..(l + c) /\ k <= l
    BY <1>2, <1>7
  <2> QED
    BY <1>8, <1>9, <2>1
<1>11. ASSUME NEW k \in DOMAIN got' \ DOMAIN got
       PROVE  /\ k - l \in 1..c /\ k > l /\ k \in Nat
              /\ got'[k] = t[k - l]
  <2>1. k \in 1..(l + c) /\ k \notin 1..l
    BY <1>7, <1>9
  <2>2. k > l /\ k - l \in 1..c /\ k \in Nat
    BY <1>2, <1>7, <2>1
  <2>3. ~(k <= l)
    BY <1>7, <2>2
  <2> QED
    BY <1>8, <2>1, <2>2, <2>3
<1>12. ASSUME NEW n \in L
       PROVE  \E k \in DOMAIN got' : got'[k] = [line |-> n, from |-> Start(n)]
  <2>1. PICK i \in 1..c : order[i] = n
    BY <1>1, <1>2
  <2>2. l + i \in 1..(l + c) /\ ~(l + i <= l) /\ (l + i) - l = i
    BY <1>2, <1>7, <2>1
  <2>3. got'[l + i] = t[i]
    BY <1>8, <2>2
  <2> QED
    BY <1>3, <1>9, <2>1, <2>2, <2>3
<1>13. ASSUME NEW k \in DOMAIN got' \ DOMAIN got, NEW j \in DOMAIN got' \ DOMAIN got, j < k
       PROVE  got'[j].line < got'[k].line
  <2>1. /\ j - l \in 1..c /\ k - l \in 1..c /\ j - l < k - l
        /\ got'[j] = t[j - l] /\ got'[k] = t[k - l]
    BY <1>7, <1>11, <1>13
  <2>2. order[j - l] < order[k - l]
    BY <1>1, <1>2, <2>1
  <2> QED
    BY <1>4, <2>1, <2>2
<1>14. ASSUME NEW k \in DOMAIN got' \ DOMAIN got
       PROVE  got'[k].line \in L /\ got'[k].from = Start(got'[k].line)
  BY <1>3, <1>4, <1>11
<1> QED
  BY <1>8, <1>10, <1>12, <1>13, <1>14 DEF Added

LEMMA ProcessedHealth ==
  ASSUME health \in [active : Nat, records : Nat, errors : Nat, mismatch : BOOLEAN],
         NEW L \in SUBSET Numbers, NEW active \in Nat, Processed(L, active)
  PROVE  /\ health' \in [active : Nat, records : Nat, errors : Nat, mismatch : BOOLEAN]
         /\ health'.active = active
<1>1. PICK counted \in 0..Number(L, "record") :
        health' = [active   |-> active,
                   records  |-> health.records + counted,
                   errors   |-> health.errors + Number(L, "junk"),
                   mismatch |-> health.mismatch \/ Number(L, "bare") > 0]
  BY DEF Processed
<1>2. counted \in Nat /\ Number(L, "junk") \in Nat
  BY NumberIsNatural
<1>3. health.records + counted \in Nat /\ health.errors + Number(L, "junk") \in Nat
  BY <1>2
<1>4. (health.mismatch \/ Number(L, "bare") > 0) \in BOOLEAN
  OBVIOUS
<1> QED
  BY <1>1, <1>3, <1>4

\* What a step has to show of the lines it processed, L, and of those it lost, X,
\* when the buffer begins behind r afterwards.
LEMMA HistoryKept ==
  ASSUME Inv, NEW L \in SUBSET Numbers, NEW X \in SUBSET Numbers, NEW p \in Nat,
         L \subseteq Lines(p), Added(L), lost' = lost \cup X, ends' = ends,
         pos' \in Nat, from' \in Nat, from <= from', from' <= pos',
         \A n \in L : ends[n] <= from',
         \A n \in X : n \notin L /\ from < ends[n] /\ ends[n] <= from',
         \A n \in Numbers \ X :
           pos < ends[n] /\ ends[n] <= pos' /\ Length(n) <= MaxLine =>
             n \in L /\ Start(n) = ends[n - 1]
  PROVE  OverBefore' /\ ShortLinesArrive' /\ OnlyTailsBesides'
<1>1. /\ pos \in Nat /\ from \in Nat /\ from <= pos
      /\ \A n \in Numbers : ends[n] \in Nat
  BY Places
<1>2. got \in Seq(Entry) /\ lost \subseteq Numbers
  BY DEF Inv, TypeOK, Entry
<1>3. ASSUME NEW k \in DOMAIN got
      PROVE  /\ got[k].line \in Numbers /\ ends[got[k].line] <= from
             /\ got[k].line \notin lost
  <2>1. got[k] \in Entry
    BY <1>2
  <2> QED
    BY <2>1 DEF Inv, OverBefore, ShortLinesArrive, Entry
<1>4. \A n \in lost : ends[n] <= from
  BY DEF Inv, OverBefore
<1>5. ASSUME NEW n \in L PROVE n \in Numbers /\ pos < ends[n] /\ from < ends[n] /\ n \notin lost
  <2>1. n \in Ended(p)
    BY DEF Lines
  <2>2. n \in Numbers /\ pos < ends[n] /\ from < ends[n]
    BY <2>1, LineFacts
  <2>3. n \notin lost
    BY <1>1, <1>4, <2>2
  <2> QED
    BY <2>2, <2>3
<1>6. ASSUME NEW k \in DOMAIN got'
      PROVE  \/ k \in DOMAIN got /\ got'[k] = got[k]
             \/ k \notin DOMAIN got /\ got'[k].line \in L /\ got'[k].from = Start(got'[k].line)
  BY DEF Added
<1>7. ASSUME NEW k \in DOMAIN got'
      PROVE  /\ got'[k].line \in Numbers /\ ends[got'[k].line] \in Nat
             /\ ends[got'[k].line] <= from' /\ got'[k].line \notin lost'
  <2>1. CASE k \in DOMAIN got /\ got'[k] = got[k]
    <3>1. /\ got'[k].line \in Numbers /\ ends[got'[k].line] \in Nat
          /\ ends[got'[k].line] <= from /\ got'[k].line \notin lost
      BY <1>1, <1>3, <2>1
    <3>2. ends[got'[k].line] <= from'
      BY <1>1, <3>1
    <3>3. got'[k].line \notin X
      BY <1>1, <3>1
    <3> QED
      BY <3>1, <3>2, <3>3
  <2>2. CASE got'[k].line \in L
    BY <1>1, <1>5, <2>2
  <2> QED
    BY <1>6, <2>1, <2>2
<1>8. OverBefore'
  <2>1. ASSUME NEW n \in lost' PROVE ends[n] <= from'
    <3>1. CASE n \in lost
      BY <1>1, <1>2, <1>4, <3>1
    <3>2. CASE n \in X
      BY <3>2
    <3> QED
      BY <3>1, <3>2
  <2> QED
    BY <1>7, <2>1 DEF OverBefore
<1>9. ShortLinesArrive'
  <2>1. ASSUME NEW n \in Numbers \ lost', ends[n] <= pos', Length(n) <= MaxLine
        PROVE  \E k \in DOMAIN got' : got'[k] = [line |-> n, from |-> ends[n - 1]]
    <3>1. CASE ends[n] <= pos
      <4>1. PICK k \in DOMAIN got : got[k] = [line |-> n, from |-> ends[n - 1]]
        BY <2>1, <3>1 DEF Inv, ShortLinesArrive
      <4> QED
        BY <4>1 DEF Added
    <3>2. CASE ~(ends[n] <= pos)
      <4>1. pos < ends[n] /\ n \notin X
        BY <1>1, <3>2
      <4>2. n \in L /\ Start(n) = ends[n - 1]
        BY <2>1, <4>1
      <4> QED
        BY <4>2 DEF Added
    <3> QED
      BY <3>1, <3>2
  <2>2. ASSUME NEW j \in DOMAIN got', NEW k \in DOMAIN got', j < k
        PROVE  got'[j].line < got'[k].line
    <3>1. CASE k \in DOMAIN got
      <4>1. DOMAIN got = 1..Len(got) /\ DOMAIN got' = 1..Len(got') /\ Len(got) \in Nat /\ Len(got') \in Nat
        BY <1>2 DEF Added
      <4>2. j \in DOMAIN got
        BY <2>2, <3>1, <4>1
      <4>3. got[j].line < got[k].line
        BY <2>2, <3>1, <4>2 DEF Inv, ShortLinesArrive
      <4> QED
        BY <3>1, <4>2, <4>3 DEF Added
    <3>2. CASE k \notin DOMAIN got /\ j \in DOMAIN got
      <4>1. got'[k].line \in L /\ got'[j] = got[j]
        BY <1>6, <3>2
      <4>2. ends[got[j].line] <= from /\ got[j].line \in Numbers
        BY <1>3, <3>2
      <4>3. from < ends[got'[k].line] /\ got'[k].line \in Numbers
        BY <1>5, <4>1
      <4> DEFINE a == got'[j].line
                 b == got'[k].line
      <4>4. a \in Numbers /\ b \in Numbers /\ ends[a] < ends[b]
        BY <1>1, <4>1, <4>2, <4>3
      <4> HIDE DEF a, b
      <4>5. a < b
        <5>1. a \in 0..Count /\ b \in 0..Count
          BY <4>4, Places
        <5> QED
          BY <4>4, <5>1, LinesInOrder
      <4> QED
        BY <4>5 DEF a, b
    <3>3. CASE k \notin DOMAIN got /\ j \notin DOMAIN got
      BY <2>2, <3>3 DEF Added
    <3> QED
      BY <3>1, <3>2, <3>3
  <2>3. ASSUME NEW k \in DOMAIN got' PROVE ends[got'[k].line] <= pos'
    BY <1>7
  <2>4. \A n \in Numbers : Length(n)' = Length(n)
    BY DEF Length
  <2> QED
    BY <1>7, <2>1, <2>2, <2>3, <2>4 DEF ShortLinesArrive
<1>10. OnlyTailsBesides'
  <2> DEFINE Entered(n, s) ==
        \/ s = ends[n - 1] /\ Length(n) <= MaxLine
        \/ /\ s > ends[n - 1] /\ Length(n) > MaxLine
           /\ s < ends[n] /\ ends[n] - s - 1 <= MaxLine
  <2>1. ASSUME NEW k \in DOMAIN got' PROVE Entered(got'[k].line, got'[k].from)
    <3>1. CASE k \in DOMAIN got /\ got'[k] = got[k]
      <4>1. Entered(got[k].line, got[k].from)
        BY <3>1 DEF Inv, OnlyTailsBesides
      <4> QED
        BY <3>1, <4>1
    <3>2. CASE got'[k].line \in L /\ got'[k].from = Start(got'[k].line)
      <4>1. \A n \in Lines(p) : Entered(n, Start(n))
        BY LinesFacts
      <4>2. got'[k].line \in Lines(p)
        BY <3>2
      <4> QED
        BY <3>2, <4>1, <4>2
    <3> QED
      BY <1>6, <3>1, <3>2
  <2>2. \A n : Length(n)' = Length(n)
    BY DEF Length
  <2> QED
    BY <2>1, <2>2 DEF OnlyTailsBesides
<1> QED
  BY <1>8, <1>9, <1>10

(***************************************************************************)
(* The steps.                                                              *)
(***************************************************************************)
LEMMA InvTypes ==
  ASSUME Inv
  PROVE  /\ ends \in [0..Count -> 0..MaxBytes] /\ kinds \in [Numbers -> Kinds]
         /\ connected \in BOOLEAN /\ drops \in Nat /\ lost \subseteq Numbers
         /\ got \in Seq(Entry)
         /\ health \in [active : Nat, records : Nat, errors : Nat, mismatch : BOOLEAN]
         /\ health.active = IF connected THEN 1 ELSE 0
  BY DEF Inv, TypeOK, Entry

\* A step that processes nothing adds nothing.
LEMMA NothingAdded ==
  ASSUME got \in Seq(Entry), got' = got
  PROVE  Added({})
  BY DEF Added

\* What is left of the invariant, when the buffer begins behind r afterwards.
LEMMA BufferKept ==
  ASSUME Inv, ends' = ends, pos' \in Nat, from' \in Nat, from' <= pos',
         pos' - from' <= MaxLine, ~connected' => from' = pos',
         \A n \in Numbers : ends[n] <= from' \/ pos' < ends[n],
         \A n \in Numbers : ends[n - 1] < from' /\ from' < ends[n] =>
                              from' - ends[n - 1] > MaxLine
  PROVE  Rising' /\ NoEndInside' /\ HeadGone(from)' /\ BufferBounded'
<1>1. Rising'
  BY DEF Inv, Rising
<1>2. NoEndInside'
  BY DEF NoEndInside
<1>3. HeadGone(from)'
  BY DEF HeadGone
<1> QED
  BY <1>1, <1>2, <1>3 DEF BufferBounded

LEMMA ActiveChanged ==
  ASSUME health \in [active : Nat, records : Nat, errors : Nat, mismatch : BOOLEAN],
         NEW a \in Nat, health' = [health EXCEPT !.active = a]
  PROVE  /\ health' \in [active : Nat, records : Nat, errors : Nat, mismatch : BOOLEAN]
         /\ health'.active = a
  OBVIOUS

LEMMA ConnectKeepsInv ==
  ASSUME Inv, Connect
  PROVE  Inv'
<1>1. /\ ~connected /\ connected' = TRUE /\ from' = pos /\ from = pos
      /\ health' = [health EXCEPT !.active = @ + 1]
      /\ ends' = ends /\ kinds' = kinds /\ pos' = pos /\ drops' = drops
      /\ got' = got /\ lost' = lost
  BY DEF Connect, Inv, NoEndInside
<1>2. from' = from
  BY <1>1
<1>3. TypeOK'
  <2>1. pos \in 0..ends[Count] /\ from \in 0..pos
    BY DEF Inv, TypeOK
  <2>2. /\ health' \in [active : Nat, records : Nat, errors : Nat, mismatch : BOOLEAN]
        /\ health'.active = 1
    <3>1. health.active + 1 = 1
      BY <1>1, InvTypes
    <3>2. health' = [health EXCEPT !.active = 1]
      BY <1>1, <3>1
    <3> QED
      BY <3>2, InvTypes, ActiveChanged
  <2> QED
    BY <1>1, <1>2, <2>1, <2>2, InvTypes DEF TypeOK, Entry
<1>4. Rising' /\ NoEndInside' /\ HeadGone(from)' /\ BufferBounded'
  BY <1>1, <1>2 DEF Inv, Rising, NoEndInside, HeadGone, BufferBounded
<1>5. OverBefore' /\ ShortLinesArrive' /\ OnlyTailsBesides'
  BY <1>1, <1>2 DEF Inv, OverBefore, ShortLinesArrive, OnlyTailsBesides, Length
<1> QED
  BY <1>3, <1>4, <1>5 DEF Inv

LEMMA ReadKeepsInv ==
  ASSUME Inv, Read
  PROVE  Inv'
<1>1. PICK m \in 1..MaxRead :
        /\ pos + m <= ends[Count] /\ pos' = pos + m
        /\ Processed(Lines(pos + m), health.active)
        /\ from' = Remaining(pos + m)
  BY DEF Read
<1>2. /\ connected /\ ends' = ends /\ kinds' = kinds /\ connected' = connected
      /\ drops' = drops /\ lost' = lost
  BY DEF Read
<1> DEFINE p == pos + m
           L == Lines(p)
<1>3. p \in Nat /\ pos < p /\ p <= ends[Count]
  <2>1. pos \in Nat /\ m \in Nat /\ m > 0
    BY Places
  <2> QED
    BY <1>1, <2>1
<1>4. L \in SUBSET Numbers
  BY <1>3, LinesFacts
<1>5. pos' = p /\ from' = Remaining(p) /\ Processed(L, health.active)
  BY <1>1
<1> HIDE DEF p
<1>6. /\ from' \in Nat /\ from <= from' /\ from' <= p /\ p - from' <= MaxLine
      /\ \A n \in Numbers : ends[n] <= from' \/ p < ends[n]
      /\ \A n \in Numbers : ends[n - 1] < from' /\ from' < ends[n] =>
                              from' - ends[n - 1] > MaxLine
  BY <1>3, <1>5, RemainingFacts DEF HeadGone
<1>7. ASSUME NEW n \in L PROVE /\ n \in Ended(p) /\ n \in Numbers /\ Start(n) \in Nat
                               /\ ends[n] <= from'
  <2>1. n \in Ended(p)
    BY <1>3, LinesFacts
  <2>2. n \in Numbers /\ Start(n) \in Nat /\ ends[n] <= p
    BY <1>3, <2>1, LineFacts
  <2>3. ends[n] \in Nat
    BY <2>2, Places
  <2> QED
    BY <1>3, <1>6, <2>1, <2>2, <2>3
<1>8. Added(L)
  <2> HIDE DEF L
  <2> QED
    BY <1>4, <1>5, <1>7, InvTypes, ProcessedAdds
<1>9. /\ health' \in [active : Nat, records : Nat, errors : Nat, mismatch : BOOLEAN]
      /\ health'.active = 1
  <2> HIDE DEF L
  <2>1. health.active = 1 /\ health.active \in Nat
    BY <1>2, InvTypes
  <2> QED
    BY <1>4, <1>5, <2>1, InvTypes, ProcessedHealth
<1>10. TypeOK'
  <2>1. pos' \in 0..ends[Count] /\ from' \in 0..pos'
    BY <1>3, <1>5, <1>6, Places
  <2> QED
    BY <1>2, <1>8, <1>9, <2>1, InvTypes DEF TypeOK, Entry, Added
<1>11. Rising' /\ NoEndInside' /\ HeadGone(from)' /\ BufferBounded'
  BY <1>2, <1>3, <1>5, <1>6, BufferKept
<1>12. OverBefore' /\ ShortLinesArrive' /\ OnlyTailsBesides'
  <2>1. ASSUME NEW n \in Numbers, pos < ends[n], ends[n] <= p, Length(n) <= MaxLine
        PROVE  n \in L /\ Start(n) = ends[n - 1]
    <3>1. from < ends[n]
      BY <2>1, Places
    <3>2. n \in Ended(p)
      BY <2>1, <3>1 DEF Ended
    <3> QED
      BY <1>3, <2>1, <3>2, LinesFacts
  <2> DEFINE X == {}
  <2>2. lost' = lost \cup X /\ X \in SUBSET Numbers
    BY <1>2
  <2>3. L \subseteq Lines(p) /\ \A n \in L : ends[n] <= from'
    BY <1>7
  <2>4. \A n \in X : n \notin L /\ from < ends[n] /\ ends[n] <= from'
    OBVIOUS
  <2>5. pos' \in Nat /\ from' <= pos'
    BY <1>3, <1>5, <1>6
  <2>6. \A n \in Numbers \ X :
          pos < ends[n] /\ ends[n] <= pos' /\ Length(n) <= MaxLine =>
            n \in L /\ Start(n) = ends[n - 1]
    BY <1>5, <2>1
  <2> HIDE DEF L, X
  <2> QED
    BY <1>2, <1>3, <1>4, <1>6, <1>8, <2>2, <2>3, <2>4, <2>5, <2>6, HistoryKept
<1> QED
  BY <1>10, <1>11, <1>12 DEF Inv

\* Behind the end of a connection the buffer begins with a line, and the lines that
\* are lost are over.
LEMMA ResumptionFacts ==
  ASSUME Inv, NEW p \in Nat, NEW q \in Resumptions(p), pos <= p
  PROVE  /\ q \in Nat /\ p <= q /\ q <= ends[Count]
         /\ \A n \in Numbers : ends[n] <= q \/ q < ends[n]
         /\ \A n \in Numbers : ~(ends[n - 1] < q /\ q < ends[n])
<1>1. PICK j \in 0..Count : q = ends[j] /\ p <= q
  BY DEF Resumptions
<1>2. q \in Nat /\ q <= ends[Count]
  BY <1>1, Places
<1>3. ASSUME NEW n \in Numbers, ends[n - 1] < q, q < ends[n] PROVE FALSE
  <2>1. n \in 0..Count /\ n - 1 \in 0..Count
    BY Places
  <2>2. n - 1 < j /\ j < n
    BY <1>1, <1>3, <2>1, LinesInOrder
  <2> QED
    BY <2>1, <2>2
<1>4. \A n \in Numbers : ends[n] \in Nat
  BY Places
<1> QED
  BY <1>1, <1>2, <1>3, <1>4

\* The end of a connection keeps the invariant, when the lines of L were
\* processed before, those in the buffer that end at f or before it.
LEMMA DisconnectedKeepsInv ==
  ASSUME Inv, NEW p \in Nat, pos <= p, NEW q \in Resumptions(p), NEW f \in Nat,
         f <= q, from <= f, Disconnected(f, q), ends' = ends, kinds' = kinds, drops' \in Nat,
         NEW L \in SUBSET Lines(p), Added(L), \A n \in L : ends[n] <= f,
         \A n \in Ended(p) : ends[n] <= f /\ Length(n) <= MaxLine => n \in L,
         \A n \in Numbers : ends[n] <= f => ends[n] <= p,
         health' \in [active : Nat, records : Nat, errors : Nat, mismatch : BOOLEAN],
         health'.active = 0
  PROVE  Inv'
<1> DEFINE X == {n \in Numbers : f < ends[n] /\ ends[n - 1] < q}
<1>1. connected' = FALSE /\ pos' = q /\ from' = q /\ lost' = lost \cup X
  BY DEF Disconnected
<1>2. /\ q \in Nat /\ p <= q /\ q <= ends[Count]
      /\ \A n \in Numbers : ends[n] <= q \/ q < ends[n]
      /\ \A n \in Numbers : ~(ends[n - 1] < q /\ q < ends[n])
  BY ResumptionFacts
<1>3. /\ pos \in Nat /\ from \in Nat /\ from <= pos /\ ends[Count] \in Nat
      /\ \A n \in Numbers : ends[n] \in Nat /\ ends[n - 1] < ends[n] /\ ends[n - 1] \in Nat
  BY Places
<1>4. TypeOK'
  <2>1. pos' \in 0..ends[Count] /\ from' \in 0..pos'
    BY <1>1, <1>2, <1>3
  <2>2. lost' \subseteq Numbers
    BY <1>1, InvTypes
  <2>3. got' \in Seq(Entry)
    BY DEF Added
  <2> QED
    BY <1>1, <2>1, <2>2, <2>3, InvTypes DEF TypeOK, Entry
<1>5. Rising' /\ NoEndInside' /\ HeadGone(from)' /\ BufferBounded'
  <2>1. pos' - from' <= MaxLine /\ from' <= pos' /\ pos' \in Nat /\ from' \in Nat
    BY <1>1, <1>2
  <2> QED
    BY <1>1, <1>2, <2>1, BufferKept
<1>6. OverBefore' /\ ShortLinesArrive' /\ OnlyTailsBesides'
  <2>1. L \in SUBSET Numbers
    BY LinesFacts
  <2>2. ASSUME NEW n \in L PROVE ends[n] <= from'
    BY <1>1, <1>2, <1>3, <2>1
  <2>3. ASSUME NEW n \in X PROVE n \notin L /\ from < ends[n] /\ ends[n] <= from'
    <3>1. n \in Numbers /\ f < ends[n] /\ ends[n - 1] < q
      OBVIOUS
    <3>2. n \notin L /\ from < ends[n]
      BY <1>3, <3>1
    <3>3. ends[n] <= q
      BY <1>2, <3>1
    <3> QED
      BY <1>1, <3>2, <3>3
  <2>4. ASSUME NEW n \in Numbers \ X, pos < ends[n], ends[n] <= q, Length(n) <= MaxLine
        PROVE  n \in L /\ Start(n) = ends[n - 1]
    <3>1. ends[n - 1] < q /\ ends[n] \in Nat
      BY <1>2, <1>3, <2>4
    <3>2. ends[n] <= f
      BY <3>1
    <3>3. n \in Ended(p)
      <4>1. ends[n] <= p /\ from < ends[n]
        BY <1>3, <2>4, <3>2
      <4> QED
        BY <4>1 DEF Ended
    <3>4. n \in L
      BY <2>4, <3>2, <3>3
    <3> QED
      BY <2>4, <3>3, <3>4, LinesFacts
  <2>5. pos' \in Nat /\ from' \in Nat /\ from <= from' /\ from' <= pos' /\ X \in SUBSET Numbers
    BY <1>1, <1>2, <1>3
  <2> HIDE DEF X
  <2> QED
    BY <1>1, <2>1, <2>2, <2>3, <2>4, <2>5, HistoryKept
<1> QED
  BY <1>4, <1>5, <1>6 DEF Inv

LEMMA DropKeepsInv ==
  ASSUME Inv, Drop
  PROVE  Inv'
<1>1. PICK q \in Resumptions(pos) : Disconnected(from, q)
  BY DEF Drop
<1>2. /\ connected /\ drops' = drops + 1 /\ health' = [health EXCEPT !.active = @ - 1]
      /\ ends' = ends /\ kinds' = kinds /\ got' = got
  BY DEF Drop
<1>3. /\ pos \in Nat /\ from \in Nat /\ from <= pos
      /\ \A n \in Numbers : ends[n] \in Nat
  BY Places
<1>4. q \in Nat /\ pos <= q
  BY <1>3, ResumptionFacts
<1>5. /\ health' \in [active : Nat, records : Nat, errors : Nat, mismatch : BOOLEAN]
      /\ health'.active = 0
  <2>1. health.active - 1 = 0
    BY <1>2, InvTypes
  <2>2. health' = [health EXCEPT !.active = 0]
    BY <1>2, <2>1
  <2> QED
    BY <2>2, InvTypes, ActiveChanged
<1>6. drops' \in Nat /\ Added({})
  BY <1>2, InvTypes, NothingAdded
<1>7. \A n \in Ended(pos) : ~(ends[n] <= from)
  BY <1>3 DEF Ended
<1>8. \A n \in Numbers : ends[n] <= from => ends[n] <= pos
  BY <1>3
<1>9. from <= q /\ from <= from /\ pos <= pos /\ {} \in SUBSET Lines(pos)
  BY <1>3, <1>4
<1> QED
  BY <1>1, <1>2, <1>3, <1>5, <1>6, <1>7, <1>8, <1>9, DisconnectedKeepsInv

LEMMA ReadRaisesKeepsInv ==
  ASSUME Inv, ReadRaises
  PROVE  Inv'
<1>1. PICK m \in 1..MaxRead :
        /\ pos + m <= ends[Count]
        /\ \E f \in Lines(pos + m), q \in Resumptions(pos + m) :
             /\ Processed({n \in Lines(pos + m) : n <= f}, health.active - 1)
             /\ Disconnected(ends[f], q)
  BY DEF ReadRaises
<1> DEFINE p == pos + m
<1>2. PICK f \in Lines(p), q \in Resumptions(p) :
        /\ Processed({n \in Lines(p) : n <= f}, health.active - 1)
        /\ Disconnected(ends[f], q)
  BY <1>1
<1>3. p \in Nat /\ pos < p /\ p <= ends[Count]
  <2>1. pos \in Nat /\ m \in Nat /\ m > 0
    BY Places
  <2> QED
    BY <1>1, <2>1
<1> HIDE DEF p
<1> DEFINE L == {n \in Lines(p) : n <= f}
<1>4. connected /\ ends' = ends /\ kinds' = kinds /\ drops' = drops
  BY DEF ReadRaises
<1>5. Lines(p) \subseteq Ended(p) /\ Ended(p) \subseteq Numbers
  BY <1>3, LinesFacts
<1>6. /\ \A n \in Numbers : n \in 0..Count /\ ends[n] \in Nat
      /\ from \in Nat /\ pos \in Nat /\ f \in Numbers
  BY <1>5, Places
<1>7. q \in Nat /\ p <= q
  <2>1. pos <= p
    BY <1>3, <1>6
  <2> QED
    BY <1>3, <2>1, ResumptionFacts
<1>8. ends[f] <= p /\ from < ends[f]
  BY <1>5 DEF Ended
<1>9. ASSUME NEW n \in Numbers PROVE ends[n] <= ends[f] <=> n <= f
  <2>1. n < f => ends[n] < ends[f]
    BY <1>6 DEF Inv, Rising
  <2>2. f < n => ends[f] < ends[n]
    BY <1>6 DEF Inv, Rising
  <2>3. n \in Nat /\ f \in Nat /\ ends[n] \in Nat /\ ends[f] \in Nat
    BY <1>6
  <2>4. n = f => ends[n] = ends[f]
    OBVIOUS
  <2> QED
    BY <2>1, <2>2, <2>3, <2>4
<1>10. L \in SUBSET Numbers /\ L \in SUBSET Lines(p)
  BY <1>5
<1>11. ASSUME NEW n \in L PROVE Start(n) \in Nat /\ ends[n] <= ends[f]
  <2>1. n \in Ended(p) /\ n \in Numbers /\ n <= f
    BY <1>5
  <2> QED
    BY <1>3, <1>9, <2>1, LineFacts
<1>12. ASSUME NEW n \in Ended(p), ends[n] <= ends[f], Length(n) <= MaxLine PROVE n \in L
  <2>1. n \in Lines(p)
    BY <1>3, <1>12, LinesFacts
  <2> QED
    BY <1>5, <1>9, <1>12, <2>1
<1>13. health.active = 1 /\ health.active - 1 = 0
  BY <1>4, InvTypes
<1>14. Processed(L, 0) /\ Disconnected(ends[f], q)
  BY <1>2, <1>13
<1> HIDE DEF L
<1>15. Added(L)
  BY <1>10, <1>11, <1>14, InvTypes, ProcessedAdds
<1>16. /\ health' \in [active : Nat, records : Nat, errors : Nat, mismatch : BOOLEAN]
       /\ health'.active = 0
  BY <1>10, <1>14, InvTypes, ProcessedHealth
<1>17. drops' \in Nat
  BY <1>4, InvTypes
<1>18. ends[f] \in Nat /\ ends[f] <= q /\ from <= ends[f] /\ pos <= p
  BY <1>3, <1>6, <1>7, <1>8
<1>19. ASSUME NEW n \in Numbers, ends[n] <= ends[f] PROVE ends[n] <= p
  BY <1>3, <1>6, <1>8, <1>19
<1> QED
  BY <1>3, <1>4, <1>10, <1>11, <1>12, <1>14, <1>15, <1>16, <1>17, <1>18, <1>19,
     DisconnectedKeepsInv

LEMMA StepKeepsInv == Inv /\ [Next]_vars => Inv'
<1> SUFFICES ASSUME Inv, [Next]_vars PROVE Inv'
  OBVIOUS
<1>1. CASE UNCHANGED vars
  BY <1>1 DEF vars, Inv, TypeOK, Rising, NoEndInside, HeadGone, BufferBounded, OverBefore,
     ShortLinesArrive, OnlyTailsBesides, Length
<1> QED
  BY <1>1, ConnectKeepsInv, ReadKeepsInv, ReadRaisesKeepsInv, DropKeepsInv DEF Next

LEMMA Invariant == Spec => []Inv
  BY InvInit, StepKeepsInv, PTL DEF Spec

(***************************************************************************)
(* What the runs check.                                                    *)
(***************************************************************************)
\* The buffer is a run of the stream's bytes behind the last one read or lost, and
\* Health counts exactly the handlers that run: every way out of handle signs off.
THEOREM TypeCorrect == Spec => []TypeOK
  BY Invariant, PTL DEF Inv

\* handle and iter_frames: a line that is not too long is processed whole, once and
\* in its place, however the reads cut the stream and whatever its neighbours are,
\* unless the end of a connection cut it or came before its turn.
THEOREM ShortLinesArriveEver == Spec => []ShortLinesArrive
  BY Invariant, PTL DEF Inv

\* An over-long line is never processed but for a tail of it, when its head was
\* discarded: no record is made of two lines or of a part of a short one.
THEOREM OnlyTailsEver == Spec => []OnlyTailsBesides
  BY Invariant, PTL DEF Inv

\* iter_frames: between two reads the buffer of a connection holds no more than
\* max_line_bytes, whatever is sent.
THEOREM BufferIsBounded == Spec => []BufferBounded
  BY Invariant, PTL DEF Inv

=============================================================================
