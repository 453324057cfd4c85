--------------------------- MODULE OneApiPullProofs ---------------------------
(***************************************************************************)
(* Proofs about OneApiPull for every finite set of objects and of          *)
(* microtenants, every page size and every number of changes: that the     *)
(* pages of a pull, taken of listings that change under the reader, add up *)
(* to what was listed.                                                     *)
(***************************************************************************)
EXTENDS OneApiPull, TLAPS, FiniteSetTheorems, SequenceTheorems

USE NoTenantAssumption, FiniteAssumption, MaxChangesAssumption

(***************************************************************************)
(* The inductive invariant.                                                *)
(***************************************************************************)
Ids == Objs \cup Tenants

Pulls == [pc : {"get", "wait", "done", "failed"}, at : Listings, page : Nat \ {0},
          items : Seq(Ids), todo : Seq(Scopes), pulled : SUBSET (Scopes \X Ids)]

Distinct(s) == \A i, j \in 1..Len(s) : s[i] = s[j] => i = j

\* A listing has an entry once; a pull asks for pages a listing may have.
TypeInv ==
  /\ list \in [Listings -> Seq(Ids)]
  /\ \A l \in Listings : ToSet(list[l]) \subseteq Entries(l) /\ Distinct(list[l])
  /\ licensed \in BOOLEAN /\ changes \in 0..MaxChanges
  /\ token \in {"none", "valid", "expired"}
  /\ pull \in Pulls /\ (pull.page = 1 \/ pull.page \in 1..MaxPages)
  /\ shrunk \subseteq Listings

\* What is listed all the time is listed; what is listed was; what was read was
\* listed where it was read.
EverInv ==
  /\ since \subseteq Listed /\ since \subseteq ever
  /\ Pulling => Listed \subseteq ever /\ {pull.at} \X ToSet(pull.items) \subseteq ever
  /\ Pulling => ToSet(pull.items) \subseteq Entries(pull.at)
  /\ pull.pulled \subseteq ever

\* x is in one of the pages of l from page n on.
Ahead(l, n, x) == \E i \in 1..Len(list[l]) : i > (n - 1) * PageSize /\ list[l][i] = x

\* In the listing being read, what was there all the time is read or still ahead.
ReadInv ==
  Pulling /\ pull.at \notin shrunk =>
    \A x : <<pull.at, x>> \in since => x \in ToSet(pull.items) \/ Ahead(pull.at, pull.page, x)

Full(t) == \A x : <<t, x>> \in since => <<t, x>> \in pull.pulled

\* A microtenant is being read, is still to be read, or has been read in full.
DoneInv ==
  /\ Pulling /\ pull.at # Micro =>
       \A t \in Known \ shrunk : t = pull.at \/ t \in ToSet(pull.todo) \/ Full(t)
  /\ pull.pc = "done" => \A t \in Known \ shrunk : Full(t)

(***************************************************************************)
(* A sequence with an element more, or one less.                           *)
(***************************************************************************)
LEMMA SubSeqOf ==
  ASSUME NEW S, NEW s \in Seq(S), NEW m \in 1..Len(s) + 1, NEW n \in 0..Len(s), n - m + 1 \in Nat
  PROVE  /\ SubSeq(s, m, n) \in Seq(S) /\ Len(SubSeq(s, m, n)) = n - m + 1
         /\ \A i \in 1..n - m + 1 : SubSeq(s, m, n)[i] = s[m + i - 1]
<1> DEFINE r == SubSeq(s, m, n)
<1>1. /\ m \in Int /\ n \in Int /\ Len(s) \in Nat /\ m >= 1 /\ n <= Len(s)
      /\ \A i \in m..n : s[i] \in S
  OBVIOUS
<1>2. /\ r \in Seq(S) /\ Len(r) = IF m <= n THEN n - m + 1 ELSE 0
      /\ \A i \in 1..n - m + 1 : r[i] = s[m + i - 1]
  BY <1>1, SubSeqProperties
<1> HIDE DEF r
<1>3. Len(r) = n - m + 1
  BY <1>1, <1>2
<1> QED
  BY <1>2, <1>3 DEF r

LEMMA InsertFacts ==
  ASSUME NEW S, NEW s \in Seq(S), NEW x \in S, NEW k \in 1..Len(s) + 1
  PROVE  /\ InsertAt(s, k, x) \in Seq(S) /\ Len(InsertAt(s, k, x)) = Len(s) + 1
         /\ \A i \in 1..Len(s) + 1 :
              InsertAt(s, k, x)[i] = IF i < k THEN s[i] ELSE IF i = k THEN x ELSE s[i - 1]
<1> DEFINE a == SubSeq(s, 1, k - 1)
           b == SubSeq(s, k, Len(s))
           c == a \o <<x>>
           q == InsertAt(s, k, x)
<1>0. Len(s) \in Nat /\ k \in Nat /\ k >= 1 /\ k <= Len(s) + 1
  OBVIOUS
<1>1. /\ a \in Seq(S) /\ Len(a) = k - 1 /\ \A i \in 1..k - 1 : a[i] = s[i]
  <2>1. 1 \in 1..Len(s) + 1 /\ k - 1 \in 0..Len(s) /\ (k - 1) - 1 + 1 \in Nat
        /\ (k - 1) - 1 + 1 = k - 1 /\ \A i \in 1..k - 1 : 1 + i - 1 = i
    BY <1>0
  <2>2. /\ a \in Seq(S) /\ Len(a) = (k - 1) - 1 + 1
        /\ \A i \in 1..(k - 1) - 1 + 1 : a[i] = s[1 + i - 1]
    BY <2>1, SubSeqOf
  <2> HIDE DEF a
  <2> QED
    BY <2>1, <2>2
<1>2. /\ b \in Seq(S) /\ Len(b) = Len(s) - k + 1
      /\ \A i \in 1..Len(s) - k + 1 : b[i] = s[k + i - 1]
  <2>1. Len(s) \in 0..Len(s) /\ Len(s) - k + 1 \in Nat
    BY <1>0
  <2> QED
    BY <2>1, SubSeqOf
<1>3. q = c \o b
  BY DEF InsertAt
<1> HIDE DEF a, b, q
<1>4. /\ c \in Seq(S) /\ Len(c) = k
      /\ \A i \in 1..k : c[i] = IF i < k THEN s[i] ELSE x
  <2>1. <<x>> \in Seq(S) /\ Len(<<x>>) = 1 /\ <<x>>[1] = x
    OBVIOUS
  <2>2. /\ c \in Seq(S) /\ Len(c) = Len(a) + 1
        /\ \A i \in 1..Len(a) + 1 : c[i] = IF i <= Len(a) THEN a[i] ELSE <<x>>[i - Len(a)]
    BY <1>1, <2>1, ConcatProperties
  <2>3. Len(a) + 1 = k
    BY <1>0, <1>1
  <2> HIDE DEF c
  <2>4. ASSUME NEW i \in 1..k PROVE c[i] = IF i < k THEN s[i] ELSE x
    <3>1. CASE i < k
      <4>1. i <= Len(a) /\ i \in 1..k - 1
        BY <1>0, <1>1, <3>1
      <4> QED
        BY <1>1, <2>2, <2>3, <3>1, <4>1
    <3>2. CASE ~(i < k)
      <4>1. i = k /\ ~(i <= Len(a)) /\ i - Len(a) = 1
        BY <1>0, <1>1, <3>2
      <4> QED
        BY <2>1, <2>2, <2>3, <3>2, <4>1
    <3> QED
      BY <3>1, <3>2
  <2> QED
    BY <2>2, <2>3, <2>4
<1> HIDE DEF c
<1>5. /\ q \in Seq(S) /\ Len(q) = Len(c) + Len(b)
      /\ \A i \in 1..Len(c) + Len(b) : q[i] = IF i <= Len(c) THEN c[i] ELSE b[i - Len(c)]
  BY <1>2, <1>3, <1>4, ConcatProperties
<1>6. Len(c) + Len(b) = Len(s) + 1
  BY <1>0, <1>2, <1>4
<1>7. ASSUME NEW i \in 1..Len(s) + 1
      PROVE  q[i] = IF i < k THEN s[i] ELSE IF i = k THEN x ELSE s[i - 1]
  <2>1. CASE i <= k
    <3>1. i \in 1..k /\ (i < k \/ i = k) /\ q[i] = c[i]
      BY <1>0, <1>4, <1>5, <1>6, <2>1
    <3> QED
      BY <1>4, <3>1
  <2>2. CASE ~(i <= k)
    <3>1. i - k \in 1..Len(s) - k + 1 /\ k + (i - k) - 1 = i - 1 /\ ~(i < k) /\ i # k
      BY <1>0, <2>2
    <3>2. q[i] = b[i - k]
      BY <1>4, <1>5, <1>6, <2>2
    <3> QED
      BY <1>2, <3>1, <3>2
  <2> QED
    BY <2>1, <2>2
<1>8. q \in Seq(S) /\ Len(q) = Len(s) + 1
  BY <1>5, <1>6
<1>9. \A i \in 1..Len(s) + 1 :
        q[i] = IF i < k THEN s[i] ELSE IF i = k THEN x ELSE s[i - 1]
  BY <1>7
<1> QED
  BY <1>8, <1>9 DEF q

LEMMA RemoveFacts ==
  ASSUME NEW S, NEW s \in Seq(S), NEW k \in 1..Len(s)
  PROVE  /\ RemoveAt(s, k) \in Seq(S) /\ Len(RemoveAt(s, k)) = Len(s) - 1
         /\ \A i \in 1..Len(s) - 1 :
              RemoveAt(s, k)[i] = s[IF i < k THEN i ELSE i + 1]
<1> DEFINE a == SubSeq(s, 1, k - 1)
           b == SubSeq(s, k + 1, Len(s))
           r == RemoveAt(s, k)
<1>0. Len(s) \in Nat /\ k \in Nat /\ k >= 1 /\ k <= Len(s)
  OBVIOUS
<1>1. /\ a \in Seq(S) /\ Len(a) = k - 1 /\ \A i \in 1..k - 1 : a[i] = s[i]
  <2>1. 1 \in 1..Len(s) + 1 /\ k - 1 \in 0..Len(s) /\ (k - 1) - 1 + 1 \in Nat
        /\ (k - 1) - 1 + 1 = k - 1 /\ \A i \in 1..k - 1 : 1 + i - 1 = i
    BY <1>0
  <2>2. /\ a \in Seq(S) /\ Len(a) = (k - 1) - 1 + 1
        /\ \A i \in 1..(k - 1) - 1 + 1 : a[i] = s[1 + i - 1]
    BY <2>1, SubSeqOf
  <2> HIDE DEF a
  <2> QED
    BY <2>1, <2>2
<1>2. /\ b \in Seq(S) /\ Len(b) = Len(s) - k
      /\ \A i \in 1..Len(s) - k : b[i] = s[i + k]
  <2>1. k + 1 \in 1..Len(s) + 1 /\ Len(s) \in 0..Len(s) /\ Len(s) - (k + 1) + 1 \in Nat
        /\ Len(s) - (k + 1) + 1 = Len(s) - k
        /\ \A i \in 1..Len(s) - k : k + 1 + i - 1 = i + k
    BY <1>0
  <2>2. /\ b \in Seq(S) /\ Len(b) = Len(s) - (k + 1) + 1
        /\ \A i \in 1..Len(s) - (k + 1) + 1 : b[i] = s[k + 1 + i - 1]
    BY ONLY <2>1, s \in Seq(S), SubSeqOf
  <2> HIDE DEF b
  <2> QED
    BY <2>1, <2>2
<1>3. r = a \o b
  BY DEF RemoveAt
<1> HIDE DEF a, b, r
<1>4. /\ r \in Seq(S) /\ Len(r) = Len(a) + Len(b)
      /\ \A i \in 1..Len(a) + Len(b) : r[i] = IF i <= Len(a) THEN a[i] ELSE b[i - Len(a)]
  <2>1. a \in Seq(S) /\ b \in Seq(S)
    BY <1>1, <1>2
  <2>2. /\ a \o b \in Seq(S) /\ Len(a \o b) = Len(a) + Len(b)
        /\ \A i \in 1..Len(a) + Len(b) :
             (a \o b)[i] = IF i <= Len(a) THEN a[i] ELSE b[i - Len(a)]
    BY ONLY <2>1, ConcatProperties
  <2> QED
    BY ONLY <1>3, <2>2
<1>5. Len(a) + Len(b) = Len(s) - 1
  BY <1>0, <1>1, <1>2
<1>6. ASSUME NEW i \in 1..Len(s) - 1 PROVE r[i] = s[IF i < k THEN i ELSE i + 1]
  <2>1. CASE i < k
    <3>1. i <= k - 1 /\ i \in 1..k - 1
      BY <1>0, <2>1
    <3> QED
      BY <1>1, <1>4, <1>5, <2>1, <3>1
  <2>2. CASE ~(i < k)
    <3>1. ~(i <= k - 1) /\ i - (k - 1) \in 1..Len(s) - k /\ i - (k - 1) + k = i + 1
      BY <1>0, <2>2
    <3>2. r[i] = b[i - (k - 1)]
      BY <1>1, <1>4, <1>5, <3>1
    <3> QED
      BY <1>2, <2>2, <3>1, <3>2
  <2> QED
    BY <2>1, <2>2
<1> QED
  BY <1>4, <1>5, <1>6 DEF r

LEMMA InsertDistinct ==
  ASSUME NEW S, NEW s \in Seq(S), Distinct(s), NEW x \in S, x \notin ToSet(s),
         NEW k \in 1..Len(s) + 1
  PROVE  /\ InsertAt(s, k, x) \in Seq(S) /\ Distinct(InsertAt(s, k, x))
         /\ ToSet(InsertAt(s, k, x)) = ToSet(s) \cup {x}
         /\ \A i \in 1..Len(s) :
              \E j \in 1..Len(InsertAt(s, k, x)) : j >= i /\ InsertAt(s, k, x)[j] = s[i]
<1> DEFINE r == InsertAt(s, k, x)
<1>1. /\ r \in Seq(S) /\ Len(r) = Len(s) + 1
      /\ \A i \in 1..Len(s) + 1 :
           r[i] = IF i < k THEN s[i] ELSE IF i = k THEN x ELSE s[i - 1]
  <2>1. /\ InsertAt(s, k, x) \in Seq(S) /\ Len(InsertAt(s, k, x)) = Len(s) + 1
        /\ \A i \in 1..Len(s) + 1 :
             InsertAt(s, k, x)[i] = IF i < k THEN s[i] ELSE IF i = k THEN x ELSE s[i - 1]
    BY ONLY InsertFacts, s \in Seq(S), x \in S, k \in 1..Len(s) + 1
  <2> QED
    BY <2>1
<1> HIDE DEF r
<1>2. /\ Len(s) \in Nat /\ DOMAIN s = 1..Len(s) /\ DOMAIN r = 1..Len(s) + 1
      /\ k \in Nat /\ k >= 1 /\ k <= Len(s) + 1
  BY <1>1
<1>3. \A i \in 1..Len(s) : s[i] # x
  BY <1>2 DEF ToSet
<1>4. ASSUME NEW i \in 1..Len(s) + 1
      PROVE  \/ i = k /\ r[i] = x
             \/ i < k /\ i \in 1..Len(s) /\ r[i] = s[i]
             \/ i > k /\ i - 1 \in 1..Len(s) /\ r[i] = s[i - 1]
  <2>1. i = k \/ (i < k /\ i \in 1..Len(s)) \/ (i > k /\ i - 1 \in 1..Len(s))
    BY <1>2
  <2>2. i > k => ~(i < k) /\ i # k
    BY <1>2
  <2>3. i = k => ~(i < k)
    BY <1>2
  <2> QED
    BY <1>1, <2>1, <2>2, <2>3
<1>5. Distinct(r)
  <2> SUFFICES ASSUME NEW i \in 1..Len(s) + 1, NEW j \in 1..Len(s) + 1, r[i] = r[j] PROVE i = j
    BY <1>1 DEF Distinct
  <2>1. CASE i = k \/ j = k
    BY <1>2, <1>3, <1>4, <2>1
  <2>2. CASE i # k /\ j # k
    <3>1. PICK a \in 1..Len(s) : r[i] = s[a] /\ a = IF i < k THEN i ELSE i - 1
      BY <1>2, <1>4, <2>2
    <3>2. PICK b \in 1..Len(s) : r[j] = s[b] /\ b = IF j < k THEN j ELSE j - 1
      BY <1>2, <1>4, <2>2
    <3>3. a = b
      BY <3>1, <3>2 DEF Distinct
    <3> QED
      BY <1>2, <2>2, <3>1, <3>2, <3>3
  <2> QED
    BY <2>1, <2>2
<1>6. ASSUME NEW i \in 1..Len(s) PROVE \E j \in 1..Len(r) : j >= i /\ r[j] = s[i]
  <2>1. CASE i < k
    <3>1. i \in 1..Len(r) /\ i >= i /\ r[i] = s[i]
      BY <1>1, <1>2, <2>1
    <3> QED
      BY <3>1
  <2>2. CASE ~(i < k)
    <3>1. i + 1 \in 1..Len(s) + 1 /\ i + 1 >= i /\ ~(i + 1 < k) /\ i + 1 # k /\ i + 1 - 1 = i
      BY <1>2, <2>2
    <3>2. r[i + 1] = s[i]
      BY <1>1, <3>1
    <3> QED
      BY <1>1, <3>1, <3>2
  <2> QED
    BY <2>1, <2>2
<1>7. ToSet(r) = ToSet(s) \cup {x}
  <2>1. ASSUME NEW y \in ToSet(r) PROVE y \in ToSet(s) \cup {x}
    BY <1>2, <1>4 DEF ToSet
  <2>2. ASSUME NEW y \in ToSet(s) PROVE y \in ToSet(r)
    <3>1. PICK i \in 1..Len(s) : y = s[i]
      BY <1>2 DEF ToSet
    <3> QED
      BY <1>1, <1>2, <1>6, <3>1 DEF ToSet
  <2>3. x \in ToSet(r)
    <3>1. k \in 1..Len(s) + 1
      OBVIOUS
    <3>2. r[k] = x
      BY <1>2, <1>4, <3>1
    <3> QED
      BY <1>2, <3>1, <3>2 DEF ToSet
  <2> QED
    BY <2>1, <2>2, <2>3
<1> QED
  BY <1>1, <1>5, <1>6, <1>7 DEF r

LEMMA RemoveDistinct ==
  ASSUME NEW S, NEW s \in Seq(S), Distinct(s), NEW k \in 1..Len(s)
  PROVE  LET r == RemoveAt(s, k) IN
         r \in Seq(S) /\ Distinct(r) /\ ToSet(r) = ToSet(s) \ {s[k]}
<1> DEFINE r == RemoveAt(s, k)
<1>1. /\ r \in Seq(S) /\ Len(r) = Len(s) - 1
      /\ \A i \in 1..Len(s) - 1 : r[i] = s[IF i < k THEN i ELSE i + 1]
  BY RemoveFacts
<1> HIDE DEF r
<1>2. /\ Len(s) \in Nat /\ DOMAIN s = 1..Len(s) /\ DOMAIN r = 1..Len(s) - 1
      /\ k \in Nat /\ k >= 1 /\ k <= Len(s)
  BY <1>1
<1>3. ASSUME NEW i \in 1..Len(s) - 1
      PROVE  LET a == IF i < k THEN i ELSE i + 1
             IN a \in 1..Len(s) /\ a # k /\ r[i] = s[a]
  BY <1>1, <1>2
<1>4. Distinct(r)
  <2> SUFFICES ASSUME NEW i \in 1..Len(s) - 1, NEW j \in 1..Len(s) - 1, r[i] = r[j] PROVE i = j
    BY <1>1 DEF Distinct
  <2> DEFINE a == IF i < k THEN i ELSE i + 1
             b == IF j < k THEN j ELSE j + 1
  <2>1. a \in 1..Len(s) /\ b \in 1..Len(s) /\ s[a] = s[b]
    BY <1>3
  <2>2. a = b
    BY <2>1 DEF Distinct
  <2> QED
    BY <1>2, <2>2
<1>5. ASSUME NEW y \in ToSet(r) PROVE y \in ToSet(s) \ {s[k]}
  <2>1. PICK i \in 1..Len(s) - 1 : y = r[i]
    BY <1>2 DEF ToSet
  <2>2. PICK a \in 1..Len(s) : a # k /\ y = s[a]
    BY <1>3, <2>1
  <2> QED
    BY <1>2, <2>2 DEF ToSet, Distinct
<1>6. ASSUME NEW y \in ToSet(s), y # s[k] PROVE y \in ToSet(r)
  <2>1. PICK a \in 1..Len(s) : y = s[a] /\ a # k
    BY <1>2, <1>6 DEF ToSet
  <2> DEFINE i == IF a < k THEN a ELSE a - 1
  <2>2. i \in 1..Len(s) - 1 /\ (IF i < k THEN i ELSE i + 1) = a
    BY <1>2, <2>1
  <2>3. r[i] = s[a]
    BY <1>1, <2>2
  <2> QED
    BY <1>2, <2>1, <2>2, <2>3 DEF ToSet
<1>7. ToSet(r) = ToSet(s) \ {s[k]}
  BY <1>5, <1>6
<1> QED
  BY <1>1, <1>4, <1>7 DEF r

(***************************************************************************)
(* Pages.                                                                  *)
(***************************************************************************)
LEMMA PageFacts ==
  ASSUME NEW s \in Seq(Ids), NEW n \in Nat \ {0}
  PROVE  LET r == SubSeq(s, (n - 1) * PageSize + 1, Min({n * PageSize, Len(s)})) IN
         /\ r \in Seq(Ids) /\ ToSet(r) \subseteq ToSet(s)
         /\ \A i \in 1..Len(s) : i > (n - 1) * PageSize /\ i <= n * PageSize => s[i] \in ToSet(r)
<1> DEFINE a == (n - 1) * PageSize
           z == n * PageSize
           b == Min({z, Len(s)})
           r == SubSeq(s, a + 1, b)
<1>0. /\ Len(s) \in Nat /\ DOMAIN s = 1..Len(s) /\ a \in Nat /\ z \in Nat
  BY PageSizeAssumption
<1> HIDE DEF a, z
<1>1. /\ b \in Nat /\ b <= Len(s) /\ b <= z
      /\ \A i \in 1..Len(s) : i <= z => i <= b
  <2> DEFINE m == IF z <= Len(s) THEN z ELSE Len(s)
  <2>1. m \in {z, Len(s)} /\ \A y \in {z, Len(s)} : m <= y
    BY <1>0
  <2>2. b \in {z, Len(s)} /\ \A y \in {z, Len(s)} : b <= y
    BY <2>1 DEF Min
  <2> HIDE DEF b
  <2>3. (b = z \/ b = Len(s)) /\ b <= z /\ b <= Len(s)
    BY <2>2
  <2> QED
    BY <1>0, <2>3
<1> HIDE DEF b
<1>2. /\ r \in Seq(Ids)
      /\ Len(r) = IF a + 1 <= b THEN b - (a + 1) + 1 ELSE 0
      /\ \A i \in 1..b - (a + 1) + 1 : r[i] = s[a + 1 + i - 1]
  <2>1. a + 1 \in Int /\ b \in Int /\ \A i \in a + 1..b : s[i] \in Ids
    BY <1>0, <1>1
  <2> QED
    BY <2>1, SubSeqProperties
<1> HIDE DEF r
<1>3. ASSUME NEW i \in 1..Len(r) PROVE r[i] \in ToSet(s)
  <2>1. i \in 1..b - (a + 1) + 1 /\ a + 1 + i - 1 \in 1..Len(s)
    BY <1>0, <1>1, <1>2
  <2> QED
    BY <1>0, <1>2, <2>1 DEF ToSet
<1>4. DOMAIN r = 1..Len(r)
  BY <1>2
<1>5. ASSUME NEW i \in 1..Len(s), i > a, i <= z PROVE s[i] \in ToSet(r)
  <2>1. i - a \in 1..Len(r) /\ i - a \in 1..b - (a + 1) + 1 /\ a + 1 + (i - a) - 1 = i
    BY <1>0, <1>1, <1>2, <1>5
  <2>2. r[i - a] = s[i]
    BY <1>2, <2>1
  <2> QED
    BY <1>4, <2>1, <2>2 DEF ToSet
<1>6. ToSet(r) \subseteq ToSet(s)
  BY <1>3, <1>4 DEF ToSet
<1> QED
  BY <1>2, <1>5, <1>6 DEF r, b, a, z

LEMMA DistinctLength ==
  ASSUME NEW s \in Seq(Ids), Distinct(s)
  PROVE  Len(s) <= Cardinality(Ids) /\ Cardinality(Ids) \in Nat
<1>1. Len(s) \in Nat /\ s \in [1..Len(s) -> Ids]
  OBVIOUS
<1>2. IsFiniteSet(Ids)
  BY FS_Union DEF Ids
<1>3. s \in Injection(1..Len(s), Ids)
  BY <1>1 DEF Distinct, Injection, IsInjective
<1>4. Cardinality(1..Len(s)) = IF 1 > Len(s) THEN 0 ELSE Len(s) - 1 + 1
  BY <1>1, FS_Interval
<1>5. Cardinality(1..Len(s)) <= Cardinality(Ids)
  BY <1>2, <1>3, FS_Injection
<1>6. Cardinality(Ids) \in Nat
  BY <1>2, FS_CardinalityType
<1> QED
  BY <1>1, <1>4, <1>5, <1>6

LEMMA CeilMonotone ==
  ASSUME NEW a \in Nat, NEW b \in Nat, a <= b
  PROVE  /\ (a + PageSize - 1) \div PageSize \in Nat
         /\ (a + PageSize - 1) \div PageSize <= (b + PageSize - 1) \div PageSize
  BY PageSizeAssumption

\* Up to the last page there are as many entries as the listing has.
LEMMA CeilCovers ==
  ASSUME NEW a \in Nat, NEW n \in Nat, n >= (a + PageSize - 1) \div PageSize
  PROVE  a <= n * PageSize
<1> DEFINE q == (a + PageSize - 1) \div PageSize
<1>1. q \in Nat /\ a + PageSize - 1 < PageSize * q + PageSize
  BY PageSizeAssumption
<1> HIDE DEF q
<1>2. q <= n
  BY DEF q
<1>3. q * PageSize <= n * PageSize
  BY <1>1, <1>2, PageSizeAssumption
<1>4. PageSize * q = q * PageSize /\ q * PageSize \in Nat /\ n * PageSize \in Nat
      /\ PageSize \in Nat
  BY <1>1, PageSizeAssumption
<1>5. a < q * PageSize + 1
  BY <1>1, <1>4
<1> QED
  BY <1>3, <1>4, <1>5

\* A page that is not the last of its listing is followed by one that a listing
\* may have.
LEMMA PagesBounded ==
  ASSUME NEW l \in Listings, list[l] \in Seq(Ids), Distinct(list[l]), NEW n \in Nat \ {0}
  PROVE  /\ IsLast(n, TotalPages(l)) => Len(list[l]) <= n * PageSize
         /\ ~IsLast(n, TotalPages(l)) => n + 1 \in 1..MaxPages
<1> DEFINE k == Len(list[l])
           t == TotalPages(l)
<1>1. k \in Nat /\ k <= Cardinality(Ids) /\ Cardinality(Ids) \in Nat
  BY DistinctLength
<1>2. t = (k + PageSize - 1) \div PageSize
  BY DEF TotalPages
<1>3. MaxPages = (Cardinality(Ids) + PageSize - 1) \div PageSize
  BY DEF MaxPages, Ids
<1>4. t \in Nat /\ t <= MaxPages /\ MaxPages \in Nat
  BY <1>1, <1>2, <1>3, CeilMonotone
<1> HIDE DEF k, t
<1>5. IsLast(n, t) => k <= n * PageSize
  BY <1>1, <1>2, CeilCovers DEF IsLast
<1>6. ~IsLast(n, t) => n + 1 \in 1..MaxPages
  BY <1>4 DEF IsLast
<1> QED
  BY <1>5, <1>6 DEF k, t

(***************************************************************************)
(* Listings.                                                               *)
(***************************************************************************)
ListedIn(f) == UNION {{l} \X ToSet(f[l]) : l \in Listings}

LEMMA ListedIs == Listed = ListedIn(list) /\ Listed' = ListedIn(list')
  BY DEF Listed, ListedIn

LEMMA ListedMember ==
  ASSUME NEW f
  PROVE  /\ \A e \in ListedIn(f) : \E l \in Listings : \E x \in ToSet(f[l]) : e = <<l, x>>
         /\ \A l \in Listings : \A x \in ToSet(f[l]) : <<l, x>> \in ListedIn(f)
         /\ \A l, x : <<l, x>> \in ListedIn(f) => l \in Listings /\ x \in ToSet(f[l])
  BY DEF ListedIn

LEMMA Sorts ==
  /\ \A t \in Scopes : t \in Listings /\ t # Micro /\ Entries(t) = Objs
  /\ Micro \in Listings /\ Micro \notin Scopes /\ Entries(Micro) = Tenants
  /\ NoTenant \in Scopes /\ Tenants \subseteq Scopes
  /\ \A l \in Listings : Entries(l) \subseteq Ids /\ (l # Micro => l \in Scopes)
  BY DEF Scopes, Listings, Entries, Ids

LEMMA MembersOf ==
  ASSUME NEW S, NEW s \in Seq(S)
  PROVE  /\ \A x \in ToSet(s) : \E i \in 1..Len(s) : s[i] = x
         /\ \A i \in 1..Len(s) : s[i] \in ToSet(s)
         /\ ToSet(s) \subseteq S
  BY DEF ToSet

\* Everything listed is ahead of the first page.
LEMMA FirstPage ==
  ASSUME NEW s \in Seq(Ids), NEW x \in ToSet(s)
  PROVE  \E i \in 1..Len(s) : i > (1 - 1) * PageSize /\ s[i] = x
<1>1. PICK i \in 1..Len(s) : s[i] = x
  BY MembersOf
<1>2. i > (1 - 1) * PageSize
  BY PageSizeAssumption
<1> QED
  BY <1>1, <1>2

LEMMA OrderFacts ==
  ASSUME NEW S \in SUBSET Ids, NEW s \in Orders(S)
  PROVE  s \in Seq(Ids) /\ Distinct(s) /\ ToSet(s) \subseteq S
<1>1. PICK T \in SUBSET S : s \in SetToSeqs(T)
  BY DEF Orders
<1>2. IsFiniteSet(Ids)
  BY FS_Union DEF Ids
<1>3. IsFiniteSet(T)
  BY <1>2, FS_Subset
<1>4. Cardinality(T) \in Nat
  BY <1>3, FS_CardinalityType
<1>5. /\ s \in [1..Cardinality(T) -> T]
      /\ \A i, j \in 1..Cardinality(T) : i # j => s[i] # s[j]
  BY <1>1 DEF SetToSeqs
<1>6. s \in Seq(T) /\ Len(s) = Cardinality(T)
  BY <1>4, <1>5
<1>7. s \in Seq(Ids)
  BY <1>4, <1>5
<1> QED
  BY <1>5, <1>6, <1>7 DEF Distinct, ToSet

(***************************************************************************)
(* The inductive invariant holds.                                          *)
(***************************************************************************)
Inv == TypeInv /\ EverInv /\ ReadInv /\ DoneInv

LEMMA FirstRequestIs ==
  /\ FirstRequest \in Pulls /\ FirstRequest.at = Micro /\ FirstRequest.page = 1
  /\ FirstRequest.items = <<>> /\ FirstRequest.todo = <<>> /\ FirstRequest.pulled = {}
<1>1. Micro \in Listings /\ 1 \in Nat \ {0} /\ <<>> \in Seq(Ids) /\ <<>> \in Seq(Scopes)
  BY Sorts
<1> QED
  BY <1>1 DEF FirstRequest, Pulls

LEMMA FirstRequestFacts ==
  ASSUME NEW pc \in {"get", "wait", "done", "failed"}
  PROVE  LET q == [FirstRequest EXCEPT !.pc = pc] IN
         /\ q \in Pulls /\ q.pc = pc /\ q.at = Micro /\ q.page = 1 /\ q.items = <<>>
         /\ q.todo = <<>> /\ q.pulled = {}
<1> DEFINE q == [FirstRequest EXCEPT !.pc = pc]
<1>3. /\ q \in Pulls /\ q.pc = pc /\ q.at = FirstRequest.at /\ q.page = FirstRequest.page
      /\ q.items = FirstRequest.items /\ q.todo = FirstRequest.todo
      /\ q.pulled = FirstRequest.pulled
  BY FirstRequestIs DEF Pulls
<1> HIDE DEF q
<1>4. /\ q \in Pulls /\ q.pc = pc /\ q.at = Micro /\ q.page = 1 /\ q.items = <<>>
      /\ q.todo = <<>> /\ q.pulled = {}
  BY FirstRequestIs, <1>3
<1> QED
  BY <1>4 DEF q

LEMMA EmptySeqSet == ToSet(<<>>) = {}
  BY DEF ToSet

LEMMA InvInit == Init => Inv
<1> SUFFICES ASSUME Init PROVE Inv
  OBVIOUS
<1>1. PICK f \in [Scopes -> Orders(Objs)], m \in Orders(Tenants) :
        list = [l \in Listings |-> IF l = Micro THEN m ELSE f[l]]
  BY DEF Init
<1>2. ASSUME NEW l \in Listings
      PROVE  list[l] \in Seq(Ids) /\ Distinct(list[l]) /\ ToSet(list[l]) \subseteq Entries(l)
  <2>1. CASE l = Micro
    <3>1. list[l] = m /\ Tenants \in SUBSET Ids
      BY <1>1, <2>1 DEF Ids
    <3> QED
      BY <2>1, <3>1, OrderFacts, Sorts
  <2>2. CASE l # Micro
    <3>1. l \in Scopes /\ list[l] = f[l] /\ f[l] \in Orders(Objs) /\ Objs \in SUBSET Ids
      BY <1>1, <2>2, Sorts DEF Ids
    <3> QED
      BY <3>1, OrderFacts, Sorts
  <2> QED
    BY <2>1, <2>2
<1>3. list \in [Listings -> Seq(Ids)]
  BY <1>1, <1>2
<1>4. /\ pull \in Pulls /\ pull.pc = "done" /\ pull.at = Micro /\ pull.page = 1
      /\ pull.items = <<>> /\ pull.pulled = {}
  BY FirstRequestFacts DEF Init
<1>5. ~Pulling /\ since = {} /\ shrunk = {} /\ ever = {}
  BY <1>4 DEF Pulling, Init
<1>6. TypeInv
  BY <1>2, <1>3, <1>4, <1>5 DEF TypeInv, Init
<1> QED
  BY <1>4, <1>5, <1>6 DEF Inv, EverInv, ReadInv, DoneInv, Full

LEMMA CreateStep ==
  ASSUME Inv, NEW l \in Listings, NEW x \in Entries(l), NEW k \in 1..Len(list[l]) + 1,
         Create(l, x, k)
  PROVE  Inv'
<1> DEFINE s == list[l]
           r == InsertAt(s, k, x)
<1>1. /\ Pulling /\ changes < MaxChanges /\ x \notin ToSet(s)
      /\ changes' = changes + 1 /\ list' = [list EXCEPT ![l] = r]
      /\ ever' = ever \cup {<<l, x>>}
      /\ licensed' = licensed /\ token' = token /\ pull' = pull /\ since' = since
      /\ shrunk' = shrunk
  BY DEF Create
<1>2. /\ list \in [Listings -> Seq(Ids)] /\ pull \in Pulls
      /\ \A m \in Listings : ToSet(list[m]) \subseteq Entries(m) /\ Distinct(list[m])
  BY DEF Inv, TypeInv
<1>3. x \in Ids /\ s \in Seq(Ids)
  BY <1>2, Sorts
<1>4. /\ r \in Seq(Ids) /\ Distinct(r) /\ ToSet(r) = ToSet(s) \cup {x}
      /\ \A i \in 1..Len(s) : \E j \in 1..Len(r) : j >= i /\ r[j] = s[i]
  <2>1. Distinct(s) /\ x \notin ToSet(s) /\ k \in 1..Len(s) + 1
    BY <1>1, <1>2
  <2> HIDE DEF s
  <2> QED
    BY <1>3, <2>1, InsertDistinct
<1>5. list'[l] = r /\ \A m \in Listings : m # l => list'[m] = list[m]
  BY <1>1, <1>2
<1> HIDE DEF r
<1>6. TypeInv'
  <2>1. list' \in [Listings -> Seq(Ids)]
    BY <1>1, <1>2, <1>4
  <2>2. ASSUME NEW m \in Listings PROVE ToSet(list'[m]) \subseteq Entries(m) /\ Distinct(list'[m])
    BY <1>2, <1>4, <1>5
  <2>3. changes' \in 0..MaxChanges
    BY <1>1 DEF Inv, TypeInv
  <2> QED
    BY <1>1, <2>1, <2>2, <2>3 DEF Inv, TypeInv
<1>7. EverInv'
  <2>1. ASSUME NEW m \in Listings PROVE ToSet(list[m]) \subseteq ToSet(list'[m])
    BY <1>4, <1>5
  <2>2. Listed \subseteq Listed'
    <3> SUFFICES ASSUME NEW e \in ListedIn(list) PROVE e \in ListedIn(list')
      BY ListedIs
    <3> QED
      BY <2>1, ListedMember
  <2>3. Listed' \subseteq Listed \cup {<<l, x>>}
    <3> SUFFICES ASSUME NEW e \in ListedIn(list') PROVE e \in ListedIn(list) \cup {<<l, x>>}
      BY ListedIs
    <3>1. PICK m \in Listings : \E y \in ToSet(list'[m]) : e = <<m, y>>
      BY ListedMember
    <3>2. PICK y \in ToSet(list'[m]) : e = <<m, y>>
      BY <3>1
    <3>3. y \in ToSet(list[m]) \/ (m = l /\ y = x)
      BY <1>4, <1>5, <3>2
    <3> QED
      BY <3>2, <3>3, ListedMember
  <2> QED
    BY <1>1, <2>2, <2>3 DEF Inv, EverInv, Pulling
<1>8. ReadInv'
  <2> SUFFICES ASSUME pull.at \notin shrunk, NEW y, <<pull.at, y>> \in since,
                      y \notin ToSet(pull.items)
               PROVE  Ahead(pull.at, pull.page, y)'
    BY <1>1 DEF ReadInv, Pulling
  <2>1. Ahead(pull.at, pull.page, y)
    BY <1>1 DEF Inv, ReadInv
  <2>2. pull.at \in Listings /\ pull.page \in Nat \ {0}
    BY <1>2 DEF Pulls
  <2> DEFINE a == (pull.page - 1) * PageSize
  <2>3. a \in Nat
    BY <2>2, PageSizeAssumption
  <2>4. PICK i \in 1..Len(list[pull.at]) : i > a /\ list[pull.at][i] = y
    BY <2>1 DEF Ahead
  <2> HIDE DEF a
  <2>5. \E j \in 1..Len(list'[pull.at]) : j > a /\ list'[pull.at][j] = y
    <3>1. CASE pull.at # l
      BY <1>5, <2>2, <2>4, <3>1
    <3>2. CASE pull.at = l
      <4>1. PICK j \in 1..Len(r) : j >= i /\ r[j] = s[i]
        BY <1>4, <2>4, <3>2
      <4>2. j > a
        <5>1. i \in Nat /\ j \in Nat
          OBVIOUS
        <5> QED
          BY <2>3, <2>4, <4>1, <5>1
      <4> QED
        BY <1>5, <2>4, <3>2, <4>1, <4>2
    <3> QED
      BY <3>1, <3>2
  <2> QED
    BY <1>1, <2>5 DEF Ahead, a
<1>9. DoneInv'
  BY <1>1 DEF Inv, DoneInv, Pulling, Known, Full
<1> QED
  BY <1>6, <1>7, <1>8, <1>9 DEF Inv

LEMMA DeleteStep ==
  ASSUME Inv, NEW l \in Listings, NEW x \in Entries(l), Delete(l, x)
  PROVE  Inv'
<1> DEFINE s == list[l]
<1>1. PICK k \in DOMAIN s : s[k] = x /\ list' = [list EXCEPT ![l] = RemoveAt(@, k)]
  BY DEF Delete
<1> DEFINE r == RemoveAt(s, k)
<1>2. /\ Pulling /\ changes < MaxChanges
      /\ changes' = changes + 1 /\ list' = [list EXCEPT ![l] = r]
      /\ since' = since \ {<<l, x>>}
      /\ shrunk' = IF Reading(l) THEN shrunk \cup {l} ELSE shrunk
      /\ licensed' = licensed /\ token' = token /\ pull' = pull /\ ever' = ever
  BY <1>1 DEF Delete
<1>3. /\ list \in [Listings -> Seq(Ids)] /\ pull \in Pulls
      /\ \A m \in Listings : ToSet(list[m]) \subseteq Entries(m) /\ Distinct(list[m])
  BY DEF Inv, TypeInv
<1>4. s \in Seq(Ids) /\ k \in 1..Len(s)
  BY <1>3
<1>5. r \in Seq(Ids) /\ Distinct(r) /\ ToSet(r) = ToSet(s) \ {x}
  BY <1>1, <1>3, <1>4, RemoveDistinct
<1>6. list'[l] = r /\ \A m \in Listings : m # l => list'[m] = list[m]
  BY <1>2, <1>3
<1> HIDE DEF r
<1>7. TypeInv'
  <2>1. list' \in [Listings -> Seq(Ids)]
    BY <1>2, <1>3, <1>5
  <2>2. ASSUME NEW m \in Listings PROVE ToSet(list'[m]) \subseteq Entries(m) /\ Distinct(list'[m])
    BY <1>3, <1>5, <1>6
  <2>3. changes' \in 0..MaxChanges
    BY <1>2 DEF Inv, TypeInv
  <2>4. shrunk' \subseteq Listings
    BY <1>2 DEF Inv, TypeInv
  <2> QED
    BY <1>2, <2>1, <2>2, <2>3, <2>4 DEF Inv, TypeInv
<1>8. EverInv'
  <2>1. Listed' \subseteq Listed
    <3> SUFFICES ASSUME NEW e \in ListedIn(list') PROVE e \in ListedIn(list)
      BY ListedIs
    <3>1. \A m \in Listings : ToSet(list'[m]) \subseteq ToSet(list[m])
      BY <1>5, <1>6
    <3> QED
      BY <3>1, ListedMember
  <2>2. since' \subseteq Listed'
    <3> SUFFICES ASSUME NEW e \in since, e # <<l, x>> PROVE e \in ListedIn(list')
      BY <1>2, ListedIs
    <3>1. e \in ListedIn(list)
      BY ListedIs DEF Inv, EverInv
    <3>2. PICK m \in Listings : \E y \in ToSet(list[m]) : e = <<m, y>>
      BY <3>1, ListedMember
    <3>3. PICK y \in ToSet(list[m]) : e = <<m, y>>
      BY <3>2
    <3>4. y \in ToSet(list'[m])
      BY <1>5, <1>6, <3>3
    <3> QED
      BY <3>3, <3>4, ListedMember
  <2> QED
    BY <1>2, <2>1, <2>2 DEF Inv, EverInv, Pulling
<1>9. ReadInv'
  <2> SUFFICES ASSUME pull.at \notin shrunk', NEW y, <<pull.at, y>> \in since',
                      y \notin ToSet(pull.items)
               PROVE  Ahead(pull.at, pull.page, y)'
    BY <1>2 DEF ReadInv, Pulling
  <2>1. pull.at \in Listings /\ pull.page \in Nat \ {0}
    BY <1>3 DEF Pulls
  <2>2. CASE pull.at # l
    <3>1. pull.at \notin shrunk /\ list'[pull.at] = list[pull.at]
      BY <1>2, <1>6, <2>1, <2>2
    <3>2. Ahead(pull.at, pull.page, y)
      BY <1>2, <3>1 DEF Inv, ReadInv
    <3> QED
      BY <1>2, <3>1, <3>2 DEF Ahead
  <2>3. CASE pull.at = l
    <3>1. pull.page = 1
      BY <1>2, <2>1, <2>3 DEF Reading
    <3>2. y \in ToSet(s) /\ y # x
      BY <1>2, <2>3, ListedIs, ListedMember DEF Inv, EverInv
    <3>3. y \in ToSet(r)
      BY <1>5, <3>2
    <3>4. \E i \in 1..Len(r) : i > (1 - 1) * PageSize /\ r[i] = y
      BY <1>5, <3>3, FirstPage
    <3> QED
      BY <1>2, <1>6, <2>3, <3>1, <3>4 DEF Ahead
  <2> QED
    BY <2>2, <2>3
<1>10. DoneInv'
  <2>1. since' \subseteq since /\ shrunk \subseteq shrunk'
    BY <1>2
  <2>2. Known' \ shrunk' \subseteq Known \ shrunk
    BY <1>2, <2>1 DEF Known
  <2>3. \A t : Full(t) => Full(t)'
    BY <1>2, <2>1 DEF Full
  <2> QED
    BY <1>2, <2>2, <2>3 DEF Inv, DoneInv, Pulling
<1> QED
  BY <1>7, <1>8, <1>9, <1>10 DEF Inv

\* What Returned makes of p, whose listing has come to its end with these rows.
ReturnedAs(p, items, q) ==
  \/ /\ p.at = Micro
     /\ q.pc = p.pc /\ q.at = NoTenant /\ q.page = 1 /\ q.items = <<>>
     /\ q.todo = items /\ q.pulled = p.pulled
  \/ /\ p.at # Micro /\ p.todo = <<>>
     /\ q.pc = "done" /\ q.at = p.at /\ q.page = p.page
     /\ q.pulled = p.pulled \cup ({p.at} \X ToSet(items))
  \/ /\ p.at # Micro /\ p.todo # <<>>
     /\ q.pc = p.pc /\ q.at = Head(p.todo) /\ q.page = 1 /\ q.items = <<>>
     /\ q.todo = Tail(p.todo) /\ q.pulled = p.pulled \cup ({p.at} \X ToSet(items))

LEMMA ReturnedFields ==
  ASSUME NEW p \in Pulls, NEW items \in Seq(Ids), ToSet(items) \subseteq Entries(p.at),
         NEW q, q = Returned([p EXCEPT !.items = items])
  PROVE  q \in Pulls /\ ReturnedAs(p, items, q)
<1> DEFINE m == [p EXCEPT !.items = items]
<1>1. /\ m \in Pulls /\ m.pc = p.pc /\ m.at = p.at /\ m.page = p.page /\ m.items = items
      /\ m.todo = p.todo /\ m.pulled = p.pulled
  BY DEF Pulls
<1>2. q = Returned(m)
  OBVIOUS
<1> HIDE DEF m
<1>3. 1 \in Nat \ {0} /\ <<>> \in Seq(Ids) /\ NoTenant \in Listings
  BY Sorts
<1>4. CASE p.at = Micro
  <2> DEFINE todo == <<NoTenant>> \o items
             a == [m EXCEPT !.todo = todo]
  <2>1. \A i \in 1..Len(items) : items[i] \in Scopes
    BY <1>4, MembersOf, Sorts
  <2>2. items \in Seq(Scopes)
    BY <2>1
  <2>3. <<NoTenant>> \in Seq(Scopes) /\ Len(<<NoTenant>>) = 1 /\ <<NoTenant>>[1] = NoTenant
    BY Sorts
  <2>4. /\ todo \in Seq(Scopes) /\ Len(todo) = 1 + Len(items) /\ Len(items) \in Nat
        /\ \A i \in 1..1 + Len(items) :
             todo[i] = IF i <= 1 THEN NoTenant ELSE items[i - 1]
    BY <2>2, <2>3, ConcatProperties
  <2> HIDE DEF todo
  <2>5. todo # <<>> /\ Head(todo) = NoTenant
    BY <2>4
  <2>6. Tail(todo) = items
    <3>1. /\ Tail(todo) \in Seq(Scopes) /\ Len(Tail(todo)) = Len(items)
          /\ \A i \in 1..Len(items) : Tail(todo)[i] = todo[i + 1]
      BY <2>4, <2>5, HeadTailProperties
    <3>2. \A i \in 1..Len(items) : todo[i + 1] = items[i]
      BY <2>4
    <3> QED
      BY <2>2, <3>1, <3>2, SeqEqual
  <2>7. /\ a \in Pulls /\ a.pc = p.pc /\ a.todo = todo /\ a.pulled = p.pulled
    BY <1>1, <2>4 DEF Pulls
  <2>8. q = NextListing(a)
    BY <1>1, <1>2, <1>4 DEF Returned, todo
  <2> HIDE DEF a
  <2>9. q = [a EXCEPT !.at = NoTenant, !.todo = items, !.page = 1, !.items = <<>>]
    BY <2>5, <2>6, <2>7, <2>8 DEF NextListing
  <2>10. /\ q \in Pulls /\ q.pc = a.pc /\ q.at = NoTenant /\ q.page = 1 /\ q.items = <<>>
         /\ q.todo = items /\ q.pulled = a.pulled
    BY <1>3, <2>2, <2>7, <2>9 DEF Pulls
  <2> QED
    BY <1>4, <2>7, <2>10 DEF ReturnedAs
<1>5. CASE p.at # Micro
  <2> DEFINE pulled == p.pulled \cup ({p.at} \X ToSet(items))
             a == [m EXCEPT !.pulled = pulled]
  <2>1. p.at \in Scopes /\ p.pulled \in SUBSET (Scopes \X Ids) /\ p.todo \in Seq(Scopes)
    BY <1>5, Sorts DEF Pulls
  <2>2. pulled \in SUBSET (Scopes \X Ids)
    BY <2>1, MembersOf
  <2>3. q = NextListing(a)
    BY <1>1, <1>2, <1>5 DEF Returned
  <2> HIDE DEF pulled
  <2>4. /\ a \in Pulls /\ a.pc = p.pc /\ a.at = p.at /\ a.page = p.page /\ a.todo = p.todo
        /\ a.pulled = pulled
    BY <1>1, <2>2 DEF Pulls
  <2> HIDE DEF a
  <2>5. CASE p.todo = <<>>
    <3>1. q = [a EXCEPT !.pc = "done"]
      BY <2>3, <2>4, <2>5 DEF NextListing
    <3>2. /\ q \in Pulls /\ q.pc = "done" /\ q.at = a.at /\ q.page = a.page /\ q.pulled = a.pulled
      BY <2>4, <3>1 DEF Pulls
    <3> QED
      BY <1>5, <2>4, <2>5, <3>2 DEF pulled, ReturnedAs
  <2>6. CASE p.todo # <<>>
    <3>1. q = [a EXCEPT !.at = Head(p.todo), !.todo = Tail(p.todo), !.page = 1, !.items = <<>>]
      BY <2>3, <2>4, <2>6 DEF NextListing
    <3>2. Head(p.todo) \in Listings /\ Tail(p.todo) \in Seq(Scopes)
      BY <2>1, <2>6, HeadTailProperties, Sorts
    <3>3. /\ q \in Pulls /\ q.pc = a.pc /\ q.at = Head(p.todo) /\ q.page = 1 /\ q.items = <<>>
          /\ q.todo = Tail(p.todo) /\ q.pulled = a.pulled
      BY <1>3, <2>4, <3>1, <3>2 DEF Pulls
    <3> QED
      BY <1>5, <2>4, <2>6, <3>3 DEF pulled, ReturnedAs
  <2> QED
    BY <2>5, <2>6
<1> QED
  BY <1>4, <1>5

\* The listing being read has come to its end with the rows in items.
LEMMA ReturnStep ==
  ASSUME Inv, pull.pc = "get", UNCHANGED <<list, licensed, changes, token, since, ever, shrunk>>,
         NEW items \in Seq(Ids), ToSet(items) \subseteq Entries(pull.at),
         {pull.at} \X ToSet(items) \subseteq ever,
         pull.at \notin shrunk /\ (pull.at = Micro => licensed) =>
           \A x : <<pull.at, x>> \in since => x \in ToSet(items),
         pull' = Returned([pull EXCEPT !.items = items])
  PROVE  Inv'
<1>0. /\ list' = list /\ licensed' = licensed /\ changes' = changes /\ token' = token
      /\ since' = since /\ ever' = ever /\ shrunk' = shrunk
      /\ Known' = Known /\ Listed' = Listed /\ Pulling
  BY DEF Known, Listed, Pulling
<1>1. /\ pull \in Pulls /\ list \in [Listings -> Seq(Ids)]
      /\ since \subseteq Listed /\ Listed \subseteq ever /\ pull.pulled \subseteq ever
      /\ pull.page = 1 \/ pull.page \in 1..MaxPages
  BY <1>0 DEF Inv, TypeInv, EverInv
<1>r. pull' \in Pulls /\ ReturnedAs(pull, items, pull')
  BY <1>1, ReturnedFields
<1>2. pull' \in Pulls /\ (pull'.page = 1 \/ pull'.page = pull.page)
  BY <1>r DEF ReturnedAs
<1>3. /\ pull'.pulled \subseteq ever /\ pull.pulled \subseteq pull'.pulled
      /\ (pull.at # Micro => {pull.at} \X ToSet(items) \subseteq pull'.pulled)
  BY <1>1, <1>r DEF ReturnedAs
<1>4. Pulling' => pull'.items = <<>> /\ pull'.page = 1 /\ pull'.pc = "get"
  BY <1>r DEF Pulling, ReturnedAs
<1>5. TypeInv'
  BY <1>0, <1>1, <1>2 DEF Inv, TypeInv
<1>6. EverInv'
  BY <1>0, <1>1, <1>3, <1>4, EmptySeqSet DEF Inv, EverInv
<1>7. ReadInv'
  <2> SUFFICES ASSUME Pulling', NEW x, <<pull'.at, x>> \in since PROVE Ahead(pull.at, pull.page, x)'
    BY <1>0 DEF ReadInv
  <2>1. pull'.at \in Listings /\ x \in ToSet(list[pull'.at])
    BY <1>1, ListedIs, ListedMember
  <2>2. list[pull'.at] \in Seq(Ids)
    BY <1>1, <2>1
  <2>3. \E i \in 1..Len(list[pull'.at]) : i > (1 - 1) * PageSize /\ list[pull'.at][i] = x
    BY <2>1, <2>2, FirstPage
  <2> QED
    BY <1>0, <1>4, <2>3 DEF Ahead
<1>8. DoneInv'
  <2>1. \A t : Full(t) => Full(t)'
    BY <1>0, <1>3 DEF Full
  <2>2. CASE pull.at = Micro
    <3>1. /\ pull'.pc = "get" /\ pull'.at = NoTenant /\ pull'.todo = items
      BY <1>r, <2>2 DEF ReturnedAs
    <3>2. ASSUME NEW t \in Known \ shrunk PROVE t = NoTenant \/ t \in ToSet(items)
      BY <2>2, <3>2 DEF Known
    <3> QED
      BY <1>0, <3>1, <3>2 DEF DoneInv
  <2>3. CASE pull.at # Micro
    <3>1. ASSUME NEW t \in Known \ shrunk
          PROVE  t \in ToSet(pull.todo) \/ Full(t)'
      <4>1. t = pull.at \/ t \in ToSet(pull.todo) \/ Full(t)
        BY <1>0, <2>3 DEF Inv, DoneInv
      <4>2. t = pull.at => Full(t)'
        BY <1>0, <1>3, <2>3 DEF Full
      <4> QED
        BY <2>1, <4>1, <4>2
    <3>2. CASE pull.todo = <<>>
      <4>1. pull'.pc = "done"
        BY <1>r, <2>3, <3>2 DEF ReturnedAs
      <4> QED
        BY <1>0, <3>1, <3>2, <4>1, EmptySeqSet DEF DoneInv, Pulling
    <3>3. CASE pull.todo # <<>>
      <4>1. pull'.pc = "get" /\ pull'.at = Head(pull.todo) /\ pull'.todo = Tail(pull.todo)
        BY <1>r, <2>3, <3>3 DEF ReturnedAs
      <4>2. ASSUME NEW t \in ToSet(pull.todo) PROVE t = Head(pull.todo) \/ t \in ToSet(Tail(pull.todo))
        <5>1. pull.todo \in Seq(Scopes)
          BY <1>1 DEF Pulls
        <5>2. PICK i \in 1..Len(pull.todo) : pull.todo[i] = t
          BY <5>1, MembersOf
        <5>3. /\ Tail(pull.todo) \in Seq(Scopes) /\ Len(Tail(pull.todo)) = Len(pull.todo) - 1
              /\ \A j \in 1..Len(Tail(pull.todo)) : Tail(pull.todo)[j] = pull.todo[j + 1]
          BY <3>3, <5>1, HeadTailProperties
        <5>4. CASE i = 1
          BY <5>1, <5>2, <5>4
        <5>5. CASE i # 1
          <6>1. i - 1 \in 1..Len(Tail(pull.todo)) /\ i - 1 + 1 = i
            BY <5>1, <5>3, <5>5
          <6>2. Tail(pull.todo)[i - 1] = t
            BY <5>2, <5>3, <6>1
          <6> QED
            BY <5>3, <6>1, <6>2, MembersOf
        <5> QED
          BY <5>4, <5>5
      <4> QED
        BY <1>0, <3>1, <4>1, <4>2 DEF DoneInv
    <3> QED
      BY <3>2, <3>3
  <2> QED
    BY <2>2, <2>3
<1> QED
  BY <1>5, <1>6, <1>7, <1>8 DEF Inv

LEMMA NotLicensedStep == ASSUME Inv, NotLicensed PROVE Inv'
<1>1. /\ pull.pc = "get" /\ pull.at = Micro /\ ~licensed
      /\ pull' = Returned([pull EXCEPT !.items = <<>>])
      /\ UNCHANGED <<list, licensed, changes, token, since, ever, shrunk>>
  BY DEF NotLicensed, service, history
<1>2. <<>> \in Seq(Ids) /\ ToSet(<<>>) = {}
  BY EmptySeqSet
<1> QED
  BY <1>1, <1>2, ReturnStep

LEMMA AnswerStep == ASSUME Inv, Answer PROVE Inv'
<1> DEFINE l == pull.at
           n == pull.page
           page == Page(l, n)
           items == pull.items \o page
           more == [pull EXCEPT !.items = pull.items \o page]
<1>1. /\ pull.pc = "get" /\ (l = Micro => licensed)
      /\ pull' = IF IsLast(n, TotalPages(l)) THEN Returned(more) ELSE Turned(more)
      /\ UNCHANGED <<list, licensed, changes, token, since, ever, shrunk>>
  BY DEF Answer, service, history
<1>2. /\ pull \in Pulls /\ list \in [Listings -> Seq(Ids)]
      /\ \A k \in Listings : ToSet(list[k]) \subseteq Entries(k) /\ Distinct(list[k])
  BY DEF Inv, TypeInv
<1>3. l \in Listings /\ n \in Nat \ {0} /\ pull.items \in Seq(Ids) /\ list[l] \in Seq(Ids)
  BY <1>2 DEF Pulls
<1>4. /\ page \in Seq(Ids) /\ ToSet(page) \subseteq ToSet(list[l])
      /\ \A i \in 1..Len(list[l]) :
           i > (n - 1) * PageSize /\ i <= n * PageSize => list[l][i] \in ToSet(page)
  BY <1>3, PageFacts DEF Page
<1> HIDE DEF page
<1>5. items \in Seq(Ids) /\ ToSet(items) = ToSet(pull.items) \cup ToSet(page)
  <2> DEFINE s == pull.items
  <2>1. /\ items \in Seq(Ids) /\ Len(items) = Len(s) + Len(page)
        /\ \A i \in 1..Len(s) + Len(page) :
             items[i] = IF i <= Len(s) THEN s[i] ELSE page[i - Len(s)]
    BY <1>3, <1>4, ConcatProperties
  <2> HIDE DEF items, s
  <2>2. s \in Seq(Ids) /\ Len(s) \in Nat /\ Len(page) \in Nat
    BY <1>3, <1>4 DEF s
  <2>3. ASSUME NEW i \in 1..Len(items) PROVE items[i] \in ToSet(s) \cup ToSet(page)
    <3>1. CASE i <= Len(s)
      <4>1. i \in 1..Len(s) /\ items[i] = s[i]
        BY <2>1, <2>2, <3>1
      <4> QED
        BY <2>2, <4>1, MembersOf
    <3>2. CASE ~(i <= Len(s))
      <4>1. i - Len(s) \in 1..Len(page) /\ items[i] = page[i - Len(s)]
        BY <2>1, <2>2, <3>2
      <4> QED
        BY <1>4, <4>1, MembersOf
    <3> QED
      BY <3>1, <3>2
  <2>4. ASSUME NEW i \in 1..Len(s) PROVE s[i] \in ToSet(items)
    <3>1. i \in 1..Len(items) /\ items[i] = s[i]
      BY <2>1, <2>2
    <3> QED
      BY <2>1, <3>1, MembersOf
  <2>5. ASSUME NEW i \in 1..Len(page) PROVE page[i] \in ToSet(items)
    <3>1. i + Len(s) \in 1..Len(items) /\ items[i + Len(s)] = page[i]
      <4>1. i + Len(s) \in 1..Len(s) + Len(page) /\ ~(i + Len(s) <= Len(s))
            /\ i + Len(s) - Len(s) = i
        BY <2>2
      <4> QED
        BY <2>1, <4>1
    <3> QED
      BY <2>1, <3>1, MembersOf
  <2>6. ASSUME NEW x \in ToSet(items) PROVE x \in ToSet(s) \cup ToSet(page)
    <3>1. PICK i \in 1..Len(items) : items[i] = x
      BY <2>1, MembersOf
    <3> QED
      BY <2>3, <3>1
  <2>7. ASSUME NEW x \in ToSet(s) PROVE x \in ToSet(items)
    <3>1. PICK i \in 1..Len(s) : s[i] = x
      BY <2>2, MembersOf
    <3> QED
      BY <2>4, <3>1
  <2>8. ASSUME NEW x \in ToSet(page) PROVE x \in ToSet(items)
    <3>1. PICK i \in 1..Len(page) : page[i] = x
      BY <1>4, MembersOf
    <3> QED
      BY <2>5, <3>1
  <2>9. ToSet(items) = ToSet(s) \cup ToSet(page)
    BY <2>6, <2>7, <2>8
  <2> QED
    BY <2>1, <2>9 DEF s
<1> HIDE DEF items
<1>6. /\ ToSet(items) \subseteq Entries(l) /\ {l} \X ToSet(items) \subseteq ever
  <2>1. Pulling
    BY <1>1 DEF Pulling
  <2>2. /\ ToSet(pull.items) \subseteq Entries(l) /\ {l} \X ToSet(pull.items) \subseteq ever
        /\ Listed \subseteq ever
    BY <2>1 DEF Inv, EverInv
  <2>3. \A x \in ToSet(page) : x \in Entries(l) /\ <<l, x>> \in ever
    BY <1>2, <1>3, <1>4, <2>2, ListedIs, ListedMember
  <2>4. \A x \in ToSet(items) : x \in Entries(l) /\ <<l, x>> \in ever
    BY <1>5, <2>2, <2>3
  <2>5. ToSet(items) \subseteq Entries(l)
    BY <2>4
  <2>6. ASSUME NEW e \in {l} \X ToSet(items) PROVE e \in ever
    <3>1. PICK x \in ToSet(items) : e = <<l, x>>
      OBVIOUS
    <3> QED
      BY <2>4, <3>1
  <2> QED
    BY <2>5, <2>6
<1>7. ASSUME l \notin shrunk, NEW x, <<l, x>> \in since
      PROVE  x \in ToSet(items) \/ \E i \in 1..Len(list[l]) : i > n * PageSize /\ list[l][i] = x
  <2>1. x \in ToSet(pull.items) \/ Ahead(l, n, x)
    BY <1>1, <1>7 DEF Inv, ReadInv, Pulling
  <2>2. CASE Ahead(l, n, x)
    <3>1. PICK i \in 1..Len(list[l]) : i > (n - 1) * PageSize /\ list[l][i] = x
      BY <2>2 DEF Ahead
    <3>2. i > n * PageSize \/ i <= n * PageSize
      <4>1. i \in Nat /\ n * PageSize \in Nat
        BY <1>3, PageSizeAssumption
      <4> QED
        BY <4>1
    <3> QED
      BY <1>4, <1>5, <3>1, <3>2
  <2> QED
    BY <1>5, <2>1, <2>2
<1>8. /\ IsLast(n, TotalPages(l)) => Len(list[l]) <= n * PageSize
      /\ ~IsLast(n, TotalPages(l)) => n + 1 \in 1..MaxPages
  BY <1>2, <1>3, PagesBounded
<1>9. CASE IsLast(n, TotalPages(l))
  <2>1. pull' = Returned([pull EXCEPT !.items = items])
    BY <1>1, <1>9 DEF items
  <2>2. l \notin shrunk => \A x : <<l, x>> \in since => x \in ToSet(items)
    <3>1. \A i \in 1..Len(list[l]) : ~(i > n * PageSize)
      <4>1. n * PageSize \in Nat /\ Len(list[l]) \in Nat
        BY <1>3, PageSizeAssumption
      <4> QED
        BY <1>8, <1>9, <4>1
    <3> QED
      BY <1>7, <3>1
  <2> QED
    BY <1>1, <1>5, <1>6, <2>1, <2>2, ReturnStep
<1>10. CASE ~IsLast(n, TotalPages(l))
  <2> DEFINE m == [pull EXCEPT !.items = items]
  <2>r. pull' = Turned(m)
    BY <1>1, <1>10 DEF items
  <2>m. /\ m \in Pulls /\ m.pc = pull.pc /\ m.at = l /\ m.page = n /\ m.items = items
        /\ m.todo = pull.todo /\ m.pulled = pull.pulled
    BY <1>2, <1>5 DEF Pulls
  <2> HIDE DEF m
  <2>1. pull' = [m EXCEPT !.page = n + 1] /\ n + 1 \in Nat \ {0}
    BY <1>3, <2>r, <2>m DEF Turned
  <2>2. /\ pull' \in Pulls /\ pull'.pc = "get" /\ pull'.at = l /\ pull'.page = n + 1
        /\ pull'.items = items /\ pull'.todo = pull.todo /\ pull'.pulled = pull.pulled
    BY <1>1, <2>m, <2>1 DEF Pulls
  <2>0. /\ list' = list /\ licensed' = licensed /\ changes' = changes /\ token' = token
        /\ since' = since /\ ever' = ever /\ shrunk' = shrunk
        /\ Known' = Known /\ Listed' = Listed /\ Pulling /\ Pulling'
    BY <1>1, <2>2 DEF Known, Listed, Pulling
  <2>3. TypeInv'
    BY <1>8, <1>10, <2>0, <2>2 DEF Inv, TypeInv
  <2>4. EverInv'
    BY <1>6, <2>0, <2>2 DEF Inv, EverInv
  <2>5. ReadInv'
    <3> SUFFICES ASSUME l \notin shrunk, NEW x, <<l, x>> \in since, x \notin ToSet(items)
                 PROVE  Ahead(pull.at, pull.page, x)'
      BY <2>0, <2>2 DEF ReadInv
    <3>1. \E i \in 1..Len(list[l]) : i > n * PageSize /\ list[l][i] = x
      BY <1>7
    <3>2. n + 1 - 1 = n
      BY <1>3
    <3>3. \E i \in 1..Len(list'[pull'.at]) :
            i > (pull'.page - 1) * PageSize /\ list'[pull'.at][i] = x
      <4> HIDE DEF l, n
      <4>1. list' = list /\ pull'.at = l /\ pull'.page - 1 = n
        BY <1>3, <2>0, <2>2
      <4> QED
        BY <3>1, <4>1
    <3> QED
      BY <3>3 DEF Ahead
  <2>6. DoneInv'
    BY <2>0, <2>2 DEF Inv, DoneInv, Full
  <2> QED
    BY <2>3, <2>4, <2>5, <2>6 DEF Inv
<1> QED
  BY <1>9, <1>10

LEMMA StartStep == ASSUME Inv, StartPull PROVE Inv'
<1>1. /\ list' = list /\ licensed' = licensed /\ changes' = changes /\ token' = "none"
      /\ since' = Listed /\ ever' = Listed /\ shrunk' = {} /\ Listed' = Listed
      /\ pull' = FirstRequest
  BY DEF StartPull, service, Listed
<1>3. /\ pull' \in Pulls /\ pull'.pc = "get" /\ pull'.at = Micro /\ pull'.page = 1
      /\ pull'.items = <<>> /\ pull'.pulled = {}
  BY <1>1, FirstRequestIs DEF FirstRequest
<1>4. TypeInv'
  BY <1>1, <1>3 DEF Inv, TypeInv
<1>5. EverInv'
  BY <1>1, <1>3, EmptySeqSet DEF EverInv
<1>6. ReadInv'
  <2> SUFFICES ASSUME NEW x, <<Micro, x>> \in Listed PROVE Ahead(Micro, 1, x)'
    BY <1>1, <1>3 DEF ReadInv
  <2>1. x \in ToSet(list[Micro]) /\ list[Micro] \in Seq(Ids)
    BY ListedIs, ListedMember, Sorts DEF Inv, TypeInv
  <2> QED
    BY <1>1, <2>1, FirstPage DEF Ahead
<1>7. DoneInv'
  BY <1>3 DEF DoneInv
<1> QED
  BY <1>4, <1>5, <1>6, <1>7 DEF Inv

LEMMA FailStep == ASSUME Inv, Fail PROVE Inv'
<1>1. /\ list' = list /\ licensed' = licensed /\ changes' = changes /\ token' = token
      /\ since' = since /\ ever' = ever /\ shrunk' = shrunk /\ Listed' = Listed
      /\ pull' = [FirstRequest EXCEPT !.pc = "failed"]
  BY DEF Fail, service, history, Listed
<1>2. /\ pull' \in Pulls /\ pull'.pc = "failed" /\ pull'.page = 1 /\ pull'.pulled = {}
  BY <1>1, FirstRequestFacts
<1>3. ~Pulling'
  BY <1>2 DEF Pulling
<1>4. TypeInv'
  BY <1>1, <1>2 DEF Inv, TypeInv
<1>5. EverInv'
  BY <1>1, <1>2, <1>3 DEF Inv, EverInv
<1> QED
  BY <1>2, <1>3, <1>4, <1>5 DEF Inv, ReadInv, DoneInv

\* A token is got or expires, a request is refused or repeated: nothing that was
\* read or listed changes.
LEMMA QuietStep ==
  ASSUME Inv, GetToken \/ TokenExpires \/ Refused \/ Retry \/ UNCHANGED vars
  PROVE  Inv'
<1>1. pull \in Pulls
  BY DEF Inv, TypeInv
<1>2. /\ list' = list /\ licensed' = licensed /\ changes' = changes
      /\ token' \in {"none", "valid", "expired"}
      /\ since' = since /\ ever' = ever /\ shrunk' = shrunk
      /\ \/ pull' = pull
         \/ Pulling /\ \E pc \in {"get", "wait"} : pull' = [pull EXCEPT !.pc = pc]
  BY DEF GetToken, TokenExpires, Refused, Retry, vars, service, history, Pulling, Inv, TypeInv
<1>3. /\ pull' \in Pulls /\ pull'.at = pull.at /\ pull'.page = pull.page /\ pull'.items = pull.items
      /\ pull'.todo = pull.todo /\ pull'.pulled = pull.pulled
      /\ Pulling' <=> Pulling
      /\ pull'.pc = "done" <=> pull.pc = "done"
  <2>1. CASE pull' = pull
    BY <1>1, <2>1 DEF Pulling
  <2>2. ASSUME Pulling, NEW pc \in {"get", "wait"}, pull' = [pull EXCEPT !.pc = pc]
        PROVE  <1>3
    BY <1>1, <2>2 DEF Pulling, Pulls
  <2> QED
    BY <1>2, <2>1, <2>2
<1>4. Known' = Known /\ Listed' = Listed
  BY <1>2 DEF Known, Listed
<1>5. TypeInv'
  BY <1>2, <1>3 DEF Inv, TypeInv
<1>6. EverInv'
  BY <1>2, <1>3, <1>4 DEF Inv, EverInv
<1>7. ReadInv'
  BY <1>2, <1>3 DEF Inv, ReadInv, Ahead
<1>8. DoneInv'
  BY <1>2, <1>3, <1>4 DEF Inv, DoneInv, Full
<1> QED
  BY <1>5, <1>6, <1>7, <1>8 DEF Inv

LEMMA InvStep == Inv /\ [Next]_vars => Inv'
<1> SUFFICES ASSUME Inv, [Next]_vars PROVE Inv'
  OBVIOUS
<1>1. ASSUME Service PROVE Inv'
  <2>1. CASE TokenExpires
    BY <2>1, QuietStep
  <2>2. ASSUME NEW l \in Listings, NEW x \in Entries(l), Delete(l, x) PROVE Inv'
    BY <2>2, DeleteStep
  <2>3. ASSUME NEW l \in Listings, NEW x \in Entries(l), NEW i \in 1..Len(list[l]) + 1,
               Create(l, x, i)
        PROVE  Inv'
    BY <2>3, CreateStep
  <2> QED
    BY <1>1, <2>1, <2>2, <2>3 DEF Service
<1>2. ASSUME Client PROVE Inv'
  BY <1>2, StartStep, AnswerStep, NotLicensedStep, FailStep, QuietStep
     DEF Client, Reply, Unauthorized
<1> QED
  BY <1>1, <1>2, QuietStep DEF Next

LEMMA Invariant == Spec => []Inv
  BY InvInit, InvStep, PTL DEF Spec

\* The service and the client keep their types; in particular no page is asked
\* for beyond those that a listing of the entries there are can have.
THEOREM TypeCorrect == Spec => []TypeOK
<1>1. Inv => TypeOK
  <2> SUFFICES ASSUME Inv PROVE TypeOK
    OBVIOUS
  <2>1. pull \in Pulls
    BY DEF Inv, TypeInv
  <2>2. /\ pull.pc \in {"get", "wait", "done", "failed"} /\ pull.at \in Listings
        /\ pull.items \in Seq(Ids) /\ pull.todo \in Seq(Scopes)
        /\ pull.pulled \subseteq Scopes \X Ids
    BY <2>1 DEF Pulls
  <2>3. ToSet(pull.items) \subseteq Ids /\ ToSet(pull.todo) \subseteq Scopes
    BY <2>2, MembersOf
  <2> QED
    BY <2>2, <2>3 DEF Inv, TypeInv, EverInv, TypeOK, Ids
<1> QED
  BY <1>1, Invariant, PTL

\* Every row a pull returns was listed, at some time since the pull began, in the
\* microtenant it will be stored under.
THEOREM PulledWhereListedEver == Spec => []PulledWhereListed
<1>1. Inv => PulledWhereListed
  BY DEF Inv, EverInv, PulledWhereListed
<1> QED
  BY <1>1, Invariant, PTL

\* A pull that is done has every object that was listed all the time, in every
\* microtenant that was, whatever else was created or deleted meanwhile, on
\* whatever pages it came and however often a request was refused; only a
\* listing that lost an entry while it was read may have skipped one.
THEOREM PullIsCompleteEver == Spec => []PullIsComplete
<1>1. Inv => PullIsComplete
  BY DEF Inv, DoneInv, Full, PullIsComplete
<1> QED
  BY <1>1, Invariant, PTL

=============================================================================
