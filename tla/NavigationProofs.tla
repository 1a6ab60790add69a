---------------------------- MODULE NavigationProofs ----------------------------
(***************************************************************************)
(* Theorems about the index of Navigation, for any shards, any number of   *)
(* them in any order, and texts of any length: its ids are ids of what it  *)
(* has, it is the index of the union of its shards, and the two directions *)
(* of the call hierarchy are one relation.  And about its text: the server *)
(* has the one the client means.  And about its searches: they give the    *)
(* best there is, whatever the order they look in.                         *)
(*                                                                         *)
(* The model adds rows by recursive functions.  What they compute is shown *)
(* with the least element of a set of numbers in place of an induction     *)
(* theorem: first such facts about numbers and recursive functions, then   *)
(* sequences (ranges, sorting, removal of duplicates), then the tables a   *)
(* row, a document and a shard change, then the invariant and the calls,   *)
(* then the line table and the edits, and at the end the search.           *)
(***************************************************************************)
EXTENDS Navigation, FiniteSetTheorems, SequenceTheorems, TLAPS

LOCAL INSTANCE FiniteSetsExt

-----------------------------------------------------------------------------
(* Induction. *)

(* A set of numbers has a least one. *)
LEMMA LeastOf ==
  ASSUME NEW T, T \subseteq Nat, T # {}
  PROVE  \E n \in T : \A m \in T : n <= m
<1> DEFINE R == OpToRel(<, Nat)
<1>1. IsWellFoundedOn(R, Nat)
  BY NatLessThanWellFounded
<1>2. \E n \in T : \A m \in T : <<m, n>> \notin R
  <2> HIDE DEF R
  <2> QED BY <1>1, WFMin
<1>3. \A m, n \in Nat : m < n => <<m, n>> \in R
  BY DEF OpToRel
<1>4. PICK n \in T : \A m \in T : <<m, n>> \notin R
  BY <1>2, Zenon
<1>5. \A m \in T : ~(m < n)
  BY <1>3, <1>4, Zenon
<1>6. \A m \in T : n <= m
  BY <1>5
<1> QED BY <1>4, <1>6, Zenon

(* A set with 0 and every successor has every number up to a bound. *)
LEMMA UpTo ==
  ASSUME NEW n \in Nat, NEW S, 0 \in S, \A i \in 1 .. n : i - 1 \in S => i \in S
  PROVE  0 .. n \subseteq S
<1> SUFFICES ASSUME (0 .. n) \ S # {} PROVE FALSE
  OBVIOUS
<1>1. PICK i \in (0 .. n) \ S : \A j \in (0 .. n) \ S : i <= j
  <2> DEFINE T == (0 .. n) \ S
  <2>1. T \subseteq Nat /\ T # {}
    OBVIOUS
  <2> HIDE DEF T
  <2>2. \E i \in T : \A j \in T : i <= j
    BY <2>1, LeastOf
  <2> QED BY <2>2 DEF T
<1>2. i \in 1 .. n /\ i - 1 \in 0 .. n
  BY <1>1
<1>3. i - 1 \in S
  BY <1>1, <1>2
<1> QED BY <1>1, <1>2, <1>3

(* A function that takes each of its values from the one before exists. *)
Iterates(f, n, S, a, g) ==
  /\ f \in [0 .. n -> S]
  /\ f[0] = a
  /\ \A i \in 1 .. n : f[i] = g[i][f[i - 1]]

LEMMA Recursion ==
  ASSUME NEW n \in Nat, NEW S, NEW a \in S, NEW g \in [1 .. n -> [S -> S]]
  PROVE  \E f : Iterates(f, n, S, a, g)
<1> DEFINE Follows(f, m) == /\ f[0] = a
                           /\ \A i \in 1 .. m : f[i] = g[i][f[i - 1]]
           T == {m \in 0 .. n : \E f \in [0 .. m -> S] : Follows(f, m)}
<1>1. 0 \in T
  <2> DEFINE f == [i \in 0 .. 0 |-> a]
  <2>1. f \in [0 .. 0 -> S] /\ Follows(f, 0)
    OBVIOUS
  <2> HIDE DEF f, Follows
  <2> QED BY <2>1
<1>2. ASSUME NEW m \in 1 .. n, m - 1 \in T PROVE m \in T
  <2>1. PICK f \in [0 .. m - 1 -> S] : Follows(f, m - 1)
    BY <1>2
  <2> DEFINE h == [i \in 0 .. m |-> IF i = m THEN g[m][f[m - 1]] ELSE f[i]]
  <2>2. h \in [0 .. m -> S]
    <3>1. f[m - 1] \in S /\ g[m] \in [S -> S]
      BY <2>1
    <3> QED BY <2>1, <3>1
  <2>3. h[0] = a
    BY <2>1
  <2>4. ASSUME NEW i \in 1 .. m PROVE h[i] = g[i][h[i - 1]]
    <3>1. i - 1 \in 0 .. m /\ i - 1 # m /\ h[i - 1] = f[i - 1]
      OBVIOUS
    <3>2. i # m => i \in 1 .. m - 1 /\ f[i] = g[i][f[i - 1]]
      BY <2>1
    <3> QED BY <3>1, <3>2
  <2> HIDE DEF h
  <2>5. Follows(h, m)
    BY <2>3, <2>4
  <2> HIDE DEF Follows
  <2> QED BY <2>2, <2>5
<1>3. 0 .. n \subseteq T
  <2> HIDE DEF T
  <2> QED BY <1>1, <1>2, UpTo
<1>4. PICK f \in [0 .. n -> S] : Follows(f, n)
  BY <1>3
<1>5. Iterates(f, n, S, a, g)
  BY <1>4 DEF Iterates
<1> QED BY <1>5

-----------------------------------------------------------------------------
(* `Deduplicated`: the rows of a sequence, once each and in its order. *)

Distinct(s) == \A i, j \in DOMAIN s : s[i] = s[j] => i = j

(* A subsequence: what is in order in t is in order in s. *)
InOrderOf(t, s, n) ==
  \A i, j \in DOMAIN t : i < j => \E k, l \in 1 .. n : k < l /\ t[i] = s[k] /\ t[j] = s[l]

KeptStep(s, kept, i) ==
  IF i = 0 THEN <<>>
  ELSE IF s[i] \in RangeOf(kept[i - 1]) THEN kept[i - 1]
  ELSE Append(kept[i - 1], s[i])

LEMMA DeduplicatedDef ==
  ASSUME NEW S, NEW s \in Seq(S)
  PROVE  \E kept : /\ kept = [i \in 0 .. Len(s) |-> KeptStep(s, kept, i)]
                   /\ Deduplicated(s) = kept[Len(s)]
<1> DEFINE g == [i \in 1 .. Len(s) |-> [x \in Seq(S) |->
                    IF s[i] \in RangeOf(x) THEN x ELSE Append(x, s[i])]]
<1>1. g \in [1 .. Len(s) -> [Seq(S) -> Seq(S)]]
  OBVIOUS
<1>2. <<>> \in Seq(S) /\ Len(s) \in Nat
  OBVIOUS
<1>3. \A i \in 1 .. Len(s), x \in Seq(S) :
        g[i][x] = IF s[i] \in RangeOf(x) THEN x ELSE Append(x, s[i])
  OBVIOUS
<1> HIDE DEF g
<1>4. PICK f : Iterates(f, Len(s), Seq(S), <<>>, g)
  BY <1>1, <1>2, Recursion
<1>5. f = [i \in 0 .. Len(s) |-> KeptStep(s, f, i)]
  <2> SUFFICES ASSUME NEW i \in 0 .. Len(s) PROVE f[i] = KeptStep(s, f, i)
    BY <1>4 DEF Iterates
  <2>1. i # 0 => i \in 1 .. Len(s) /\ f[i - 1] \in Seq(S)
    BY <1>2, <1>4 DEF Iterates
  <2>2. i # 0 => g[i][f[i - 1]] = KeptStep(s, f, i)
    BY <1>3, <2>1 DEF KeptStep
  <2>3. f[i] = IF i = 0 THEN <<>> ELSE g[i][f[i - 1]]
    BY <1>4, <2>1 DEF Iterates
  <2> QED BY <2>2, <2>3 DEF KeptStep
<1> DEFINE kept[i \in 0 .. Len(s)] ==
        IF i = 0 THEN <<>>
        ELSE LET before == kept[i - 1]
             IN  IF s[i] \in RangeOf(before) THEN before ELSE Append(before, s[i])
<1>6. kept = [i \in 0 .. Len(s) |-> KeptStep(s, kept, i)]
  BY <1>5, Zenon DEF KeptStep
<1>7. Deduplicated(s) = kept[Len(s)]
  BY Zenon DEF Deduplicated
<1> QED BY <1>6, <1>7, Zenon

LEMMA AppendFacts ==
  ASSUME NEW S, NEW s \in Seq(S), NEW e \in S
  PROVE  /\ Append(s, e) \in Seq(S)
         /\ Len(Append(s, e)) = Len(s) + 1
         /\ DOMAIN Append(s, e) = 1 .. Len(s) + 1
         /\ \A i \in 1 .. Len(s) : Append(s, e)[i] = s[i]
         /\ Append(s, e)[Len(s) + 1] = e
         /\ RangeOf(Append(s, e)) = RangeOf(s) \union {e}
<1>1. /\ Append(s, e) \in Seq(S)
      /\ Len(Append(s, e)) = Len(s) + 1
      /\ DOMAIN Append(s, e) = 1 .. Len(s) + 1
      /\ \A i \in 1 .. Len(s) : Append(s, e)[i] = s[i]
      /\ Append(s, e)[Len(s) + 1] = e
      /\ DOMAIN s = 1 .. Len(s) /\ Len(s) \in Nat
  OBVIOUS
<1>2. RangeOf(Append(s, e)) = RangeOf(s) \union {e}
  <2>1. \A i \in 1 .. Len(s) + 1 : i \in 1 .. Len(s) \/ i = Len(s) + 1
    BY <1>1
  <2>2. \A i \in 1 .. Len(s) : i \in 1 .. Len(s) + 1
    BY <1>1
  <2>3. Len(s) + 1 \in 1 .. Len(s) + 1
    BY <1>1
  <2> QED BY <1>1, <2>1, <2>2, <2>3 DEF RangeOf
<1> QED BY <1>1, <1>2

LEMMA DeduplicatedFacts ==
  ASSUME NEW S, NEW s \in Seq(S)
  PROVE  /\ Deduplicated(s) \in Seq(S)
         /\ RangeOf(Deduplicated(s)) = RangeOf(s)
         /\ Distinct(Deduplicated(s))
         /\ InOrderOf(Deduplicated(s), s, Len(s))
<1>1. PICK kept : /\ kept = [i \in 0 .. Len(s) |-> KeptStep(s, kept, i)]
                  /\ Deduplicated(s) = kept[Len(s)]
  BY DeduplicatedDef
<1>2. Len(s) \in Nat /\ 0 \in 0 .. Len(s)
  OBVIOUS
<1> DEFINE P(i) == /\ kept[i] \in Seq(S)
                   /\ RangeOf(kept[i]) = {s[j] : j \in 1 .. i}
                   /\ Distinct(kept[i])
                   /\ InOrderOf(kept[i], s, i)
           T == {i \in 0 .. Len(s) : P(i)}
<1>3. 0 \in T
  <2>1. kept[0] = KeptStep(s, kept, 0)
    BY <1>1, <1>2
  <2>2. kept[0] = <<>>
    BY <2>1 DEF KeptStep
  <2>3. RangeOf(<<>>) = {} /\ {s[j] : j \in 1 .. 0} = {}
    BY DEF RangeOf
  <2>4. Distinct(<<>>) /\ InOrderOf(<<>>, s, 0)
    BY DEF Distinct, InOrderOf
  <2>5. P(0)
    BY <2>2, <2>3, <2>4
  <2> QED BY <1>2, <2>5
<1>4. ASSUME NEW i \in 1 .. Len(s), i - 1 \in T PROVE i \in T
  <2>1. P(i - 1)
    BY <1>4
  <2>2. s[i] \in S /\ i \in 0 .. Len(s) /\ i # 0
    OBVIOUS
  <2>3. kept[i] = KeptStep(s, kept, i)
    BY <1>1, <2>2
  <2>4. kept[i] = IF s[i] \in RangeOf(kept[i - 1]) THEN kept[i - 1]
                  ELSE Append(kept[i - 1], s[i])
    BY <2>2, <2>3 DEF KeptStep
  <2>5. {s[j] : j \in 1 .. i} = {s[j] : j \in 1 .. i - 1} \union {s[i]}
    <3>1. \A j \in 1 .. i : j \in 1 .. i - 1 \/ j = i
      OBVIOUS
    <3>2. \A j \in 1 .. i - 1 : j \in 1 .. i
      OBVIOUS
    <3> QED BY <3>1, <3>2
  <2>6. CASE s[i] \in RangeOf(kept[i - 1])
    <3>1. kept[i] = kept[i - 1]
      BY <2>4, <2>6
    <3>2. InOrderOf(kept[i], s, i)
      BY <2>1, <3>1 DEF InOrderOf
    <3> QED BY <2>1, <2>2, <2>5, <2>6, <3>1, <3>2
  <2>7. CASE s[i] \notin RangeOf(kept[i - 1])
    <3> DEFINE b == kept[i - 1]
    <3>1. /\ kept[i] = Append(b, s[i])
          /\ b \in Seq(S) /\ RangeOf(b) = {s[j] : j \in 1 .. i - 1}
          /\ Distinct(b) /\ InOrderOf(b, s, i - 1) /\ s[i] \notin RangeOf(b)
      BY <2>1, <2>4, <2>7
    <3> HIDE DEF b
    <3> DEFINE a == kept[i]
    <3>2. DOMAIN b = 1 .. Len(b) /\ Len(b) \in Nat
      BY <3>1
    <3>3. \A j \in 1 .. Len(b) : b[j] \in RangeOf(b)
      BY <3>2 DEF RangeOf
    <3>4. /\ a \in Seq(S)
          /\ DOMAIN a = 1 .. Len(b) + 1
          /\ \A j \in 1 .. Len(b) : a[j] = b[j]
          /\ a[Len(b) + 1] = s[i]
          /\ RangeOf(a) = RangeOf(b) \union {s[i]}
      BY <2>2, <3>1, AppendFacts
    <3>5. \A j \in DOMAIN a : j = Len(b) + 1 \/ (j \in 1 .. Len(b) /\ a[j] # s[i])
      BY <3>1, <3>4, <3>2, <3>3
    <3> HIDE DEF a
    <3>6. Distinct(a)
      BY <3>1, <3>4, <3>2, <3>5 DEF Distinct
    <3>7. InOrderOf(a, s, i)
      <4> SUFFICES ASSUME NEW j \in DOMAIN a, NEW k \in DOMAIN a, j < k
                   PROVE  \E m, n \in 1 .. i : m < n /\ a[j] = s[m] /\ a[k] = s[n]
        BY DEF InOrderOf
      <4>1. j \in 1 .. Len(b) /\ a[j] = b[j] /\ b[j] \in RangeOf(b)
        BY <3>4, <3>2, <3>3
      <4>2. CASE k = Len(b) + 1
        <5>1. PICK m \in 1 .. i - 1 : b[j] = s[m]
          BY <3>1, <4>1
        <5>2. m \in 1 .. i /\ i \in 1 .. i /\ m < i
          OBVIOUS
        <5> QED BY <3>4, <4>1, <4>2, <5>1, <5>2
      <4>3. CASE k # Len(b) + 1
        <5>1. k \in 1 .. Len(b) /\ a[k] = b[k]
          BY <3>4, <3>2, <4>3
        <5>2. PICK m, n \in 1 .. i - 1 : m < n /\ b[j] = s[m] /\ b[k] = s[n]
          BY <3>1, <3>2, <4>1, <5>1 DEF InOrderOf
        <5>3. m \in 1 .. i /\ n \in 1 .. i
          OBVIOUS
        <5> QED BY <4>1, <5>1, <5>2, <5>3
      <4> QED BY <4>2, <4>3
    <3> QED BY <2>2, <2>5, <3>1, <3>4, <3>6, <3>7 DEF a
  <2> QED BY <2>6, <2>7
<1>5. 0 .. Len(s) \subseteq T
  <2> HIDE DEF T
  <2> QED BY <1>2, <1>3, <1>4, UpTo
<1>6. P(Len(s))
  <2>1. Len(s) \in 0 .. Len(s)
    OBVIOUS
  <2> QED BY <1>5, <2>1
<1>7. RangeOf(s) = {s[j] : j \in 1 .. Len(s)}
  BY DEF RangeOf
<1> QED BY <1>1, <1>6, <1>7

-----------------------------------------------------------------------------
(* `Selected`: the rows of a sequence that are in a set, in its order. *)

SelectStep(s, chosen, kept, i) ==
  IF i = 0 THEN <<>>
  ELSE IF s[i] \in chosen THEN Append(kept[i - 1], s[i]) ELSE kept[i - 1]

LEMMA SelectedDef ==
  ASSUME NEW S, NEW s \in Seq(S), NEW chosen
  PROVE  \E kept : /\ kept = [i \in 0 .. Len(s) |-> SelectStep(s, chosen, kept, i)]
                   /\ Selected(s, chosen) = kept[Len(s)]
<1> DEFINE g == [i \in 1 .. Len(s) |-> [x \in Seq(S) |->
                    IF s[i] \in chosen THEN Append(x, s[i]) ELSE x]]
<1>1. g \in [1 .. Len(s) -> [Seq(S) -> Seq(S)]]
  <2>1. \A i \in 1 .. Len(s), x \in Seq(S) : Append(x, s[i]) \in Seq(S)
    OBVIOUS
  <2> QED BY <2>1
<1>2. <<>> \in Seq(S) /\ Len(s) \in Nat
  OBVIOUS
<1>3. \A i \in 1 .. Len(s), x \in Seq(S) :
        g[i][x] = IF s[i] \in chosen THEN Append(x, s[i]) ELSE x
  OBVIOUS
<1> HIDE DEF g
<1>4. PICK f : Iterates(f, Len(s), Seq(S), <<>>, g)
  BY <1>1, <1>2, Recursion
<1>5. f = [i \in 0 .. Len(s) |-> SelectStep(s, chosen, f, i)]
  <2> SUFFICES ASSUME NEW i \in 0 .. Len(s) PROVE f[i] = SelectStep(s, chosen, f, i)
    BY <1>4 DEF Iterates
  <2>1. i # 0 => i \in 1 .. Len(s) /\ f[i - 1] \in Seq(S)
    BY <1>2, <1>4 DEF Iterates
  <2>2. i # 0 => g[i][f[i - 1]] = SelectStep(s, chosen, f, i)
    BY <1>3, <2>1 DEF SelectStep
  <2>3. f[i] = IF i = 0 THEN <<>> ELSE g[i][f[i - 1]]
    BY <1>4, <2>1 DEF Iterates
  <2> QED BY <2>2, <2>3 DEF SelectStep
<1> DEFINE kept[i \in 0 .. Len(s)] ==
        IF i = 0 THEN <<>>
        ELSE IF s[i] \in chosen THEN Append(kept[i - 1], s[i]) ELSE kept[i - 1]
<1>6. kept = [i \in 0 .. Len(s) |-> SelectStep(s, chosen, kept, i)]
  BY <1>5, Zenon DEF SelectStep
<1>7. Selected(s, chosen) = kept[Len(s)]
  BY Zenon DEF Selected
<1> QED BY <1>6, <1>7, Zenon

LEMMA SelectedFacts ==
  ASSUME NEW S, NEW s \in Seq(S), NEW chosen
  PROVE  /\ Selected(s, chosen) \in Seq(S)
         /\ RangeOf(Selected(s, chosen)) = RangeOf(s) \intersect chosen
         /\ InOrderOf(Selected(s, chosen), s, Len(s))
         /\ Distinct(s) => Distinct(Selected(s, chosen))
<1>1. PICK kept : /\ kept = [i \in 0 .. Len(s) |-> SelectStep(s, chosen, kept, i)]
                  /\ Selected(s, chosen) = kept[Len(s)]
  BY SelectedDef
<1>2. Len(s) \in Nat /\ 0 \in 0 .. Len(s)
  OBVIOUS
<1> DEFINE P(i) == /\ kept[i] \in Seq(S)
                   /\ RangeOf(kept[i]) = {s[j] : j \in 1 .. i} \intersect chosen
                   /\ InOrderOf(kept[i], s, i)
           T == {i \in 0 .. Len(s) : P(i)}
<1>3. 0 \in T
  <2>1. kept[0] = SelectStep(s, chosen, kept, 0)
    BY <1>1, <1>2
  <2>2. kept[0] = <<>>
    BY <2>1 DEF SelectStep
  <2>3. RangeOf(<<>>) = {} /\ {s[j] : j \in 1 .. 0} = {}
    BY DEF RangeOf
  <2>4. InOrderOf(<<>>, s, 0)
    BY DEF InOrderOf
  <2>5. P(0)
    BY <2>2, <2>3, <2>4
  <2> QED BY <1>2, <2>5
<1>4. ASSUME NEW i \in 1 .. Len(s), i - 1 \in T PROVE i \in T
  <2>1. P(i - 1)
    BY <1>4
  <2>2. s[i] \in S /\ i \in 0 .. Len(s) /\ i # 0
    OBVIOUS
  <2>3. kept[i] = SelectStep(s, chosen, kept, i)
    BY <1>1, <2>2
  <2>4. kept[i] = IF s[i] \in chosen THEN Append(kept[i - 1], s[i]) ELSE kept[i - 1]
    BY <2>2, <2>3 DEF SelectStep
  <2>5. {s[j] : j \in 1 .. i} = {s[j] : j \in 1 .. i - 1} \union {s[i]}
    <3>1. \A j \in 1 .. i : j \in 1 .. i - 1 \/ j = i
      OBVIOUS
    <3>2. \A j \in 1 .. i - 1 : j \in 1 .. i
      OBVIOUS
    <3> QED BY <3>1, <3>2
  <2>6. CASE s[i] \notin chosen
    <3>1. kept[i] = kept[i - 1]
      BY <2>4, <2>6
    <3>2. InOrderOf(kept[i], s, i)
      BY <2>1, <3>1 DEF InOrderOf
    <3> QED BY <2>1, <2>2, <2>5, <2>6, <3>1, <3>2
  <2>7. CASE s[i] \in chosen
    <3> DEFINE b == kept[i - 1]
               a == kept[i]
    <3>1. /\ a = Append(b, s[i])
          /\ b \in Seq(S) /\ RangeOf(b) = {s[j] : j \in 1 .. i - 1} \intersect chosen
          /\ InOrderOf(b, s, i - 1)
      BY <2>1, <2>4, <2>7
    <3> HIDE DEF b
    <3>2. DOMAIN b = 1 .. Len(b) /\ Len(b) \in Nat
      BY <3>1
    <3>3. \A j \in 1 .. Len(b) : b[j] \in RangeOf(b)
      BY <3>2 DEF RangeOf
    <3>4. /\ a \in Seq(S)
          /\ DOMAIN a = 1 .. Len(b) + 1
          /\ \A j \in 1 .. Len(b) : a[j] = b[j]
          /\ a[Len(b) + 1] = s[i]
          /\ RangeOf(a) = RangeOf(b) \union {s[i]}
      BY <2>2, <3>1, AppendFacts
    <3> HIDE DEF a
    <3>5. InOrderOf(a, s, i)
      <4> SUFFICES ASSUME NEW j \in DOMAIN a, NEW k \in DOMAIN a, j < k
                   PROVE  \E m, n \in 1 .. i : m < n /\ a[j] = s[m] /\ a[k] = s[n]
        BY DEF InOrderOf
      <4>1. j \in 1 .. Len(b) /\ a[j] = b[j] /\ b[j] \in RangeOf(b)
        BY <3>2, <3>3, <3>4
      <4>2. CASE k = Len(b) + 1
        <5>1. PICK m \in 1 .. i - 1 : b[j] = s[m]
          BY <3>1, <4>1
        <5>2. m \in 1 .. i /\ i \in 1 .. i /\ m < i
          OBVIOUS
        <5> QED BY <3>4, <4>1, <4>2, <5>1, <5>2
      <4>3. CASE k # Len(b) + 1
        <5>1. k \in 1 .. Len(b) /\ a[k] = b[k]
          BY <3>2, <3>4, <4>3
        <5>2. PICK m, n \in 1 .. i - 1 : m < n /\ b[j] = s[m] /\ b[k] = s[n]
          BY <3>1, <3>2, <4>1, <5>1 DEF InOrderOf
        <5>3. m \in 1 .. i /\ n \in 1 .. i
          OBVIOUS
        <5> QED BY <4>1, <5>1, <5>2, <5>3
      <4> QED BY <4>2, <4>3
    <3> QED BY <2>2, <2>5, <2>7, <3>1, <3>4, <3>5 DEF a
  <2> QED BY <2>6, <2>7
<1>5. 0 .. Len(s) \subseteq T
  <2> HIDE DEF T
  <2> QED BY <1>2, <1>3, <1>4, UpTo
<1>6. P(Len(s))
  <2>1. Len(s) \in 0 .. Len(s)
    OBVIOUS
  <2> QED BY <1>5, <2>1
<1>7. RangeOf(s) = {s[j] : j \in 1 .. Len(s)}
  BY DEF RangeOf
<1> DEFINE t == Selected(s, chosen)
<1>8. t \in Seq(S) /\ RangeOf(t) = RangeOf(s) \intersect chosen /\ InOrderOf(t, s, Len(s))
  BY <1>1, <1>6, <1>7
<1> HIDE DEF t
<1>9. ASSUME Distinct(s) PROVE Distinct(t)
  <2> SUFFICES ASSUME NEW i \in DOMAIN t, NEW j \in DOMAIN t, i # j PROVE t[i] # t[j]
    BY DEF Distinct
  <2>1. DOMAIN s = 1 .. Len(s)
    OBVIOUS
  <2>2. \A k, l \in 1 .. Len(s) : k < l => s[k] # s[l]
    BY <1>9, <2>1 DEF Distinct
  <2>3. i < j \/ j < i
    BY <1>8
  <2>4. CASE i < j
    BY <1>8, <2>2, <2>4 DEF InOrderOf
  <2>5. CASE j < i
    BY <1>8, <2>2, <2>5 DEF InOrderOf
  <2> QED BY <2>3, <2>4, <2>5
<1> QED BY <1>8, <1>9 DEF t

-----------------------------------------------------------------------------
(* `SortedBy`. *)

LEMMA LessIsOrder ==
  ASSUME NEW n \in Nat, NEW a \in [1 .. n -> Int], NEW b \in [1 .. n -> Int],
         NEW c \in [1 .. n -> Int]
  PROVE  /\ ~Less(a, a)
         /\ Less(a, b) /\ Less(b, c) => Less(a, c)
         /\ a # b => Less(a, b) \/ Less(b, a)
<1>1. ~Less(a, a)
  BY DEF Less
<1>2. ASSUME Less(a, b), Less(b, c) PROVE Less(a, c)
  <2>1. PICK k \in 1 .. n : a[k] < b[k] /\ \A j \in 1 .. k - 1 : a[j] = b[j]
    BY <1>2 DEF Less
  <2>2. PICK m \in 1 .. n : b[m] < c[m] /\ \A j \in 1 .. m - 1 : b[j] = c[j]
    BY <1>2 DEF Less
  <2>3. CASE k <= m
    <3>1. a[k] < c[k]
      <4>1. CASE k = m
        BY <2>1, <2>2, <4>1
      <4>2. CASE k # m
        <5>1. k \in 1 .. m - 1
          BY <2>3, <4>2
        <5> QED BY <2>1, <2>2, <5>1
      <4> QED BY <4>1, <4>2
    <3>2. \A j \in 1 .. k - 1 : a[j] = c[j]
      <4>1. \A j \in 1 .. k - 1 : j \in 1 .. m - 1
        BY <2>3
      <4> QED BY <2>1, <2>2, <4>1
    <3> QED BY <3>1, <3>2 DEF Less
  <2>4. CASE m < k
    <3>1. m \in 1 .. k - 1
      BY <2>4
    <3>2. a[m] < c[m]
      BY <2>1, <2>2, <3>1
    <3>3. \A j \in 1 .. m - 1 : j \in 1 .. k - 1
      BY <2>4
    <3>4. \A j \in 1 .. m - 1 : a[j] = c[j]
      BY <2>1, <2>2, <3>3
    <3> QED BY <3>2, <3>4 DEF Less
  <2> QED BY <2>3, <2>4
<1>3. ASSUME a # b PROVE Less(a, b) \/ Less(b, a)
  <2> DEFINE T == {k \in 1 .. n : a[k] # b[k]}
  <2>1. (\A k \in 1 .. n : a[k] = b[k]) => a = b
    OBVIOUS
  <2>2. PICK i \in 1 .. n : a[i] # b[i]
    BY <1>3, <2>1
  <2>3. i \in T
    BY <2>2
  <2>4. T \subseteq Nat
    OBVIOUS
  <2>5. T \subseteq Nat /\ T # {}
    BY <2>3, <2>4, Zenon
  <2>6. PICK k \in T : \A j \in T : k <= j
    <3> HIDE DEF T
    <3> QED BY <2>5, LeastOf
  <2>7. k \in 1 .. n /\ a[k] # b[k] /\ \A j \in 1 .. k - 1 : a[j] = b[j]
    BY <2>6
  <2>8. a[k] < b[k] \/ b[k] < a[k]
    BY <2>7
  <2> QED BY <2>7, <2>8 DEF Less
<1> QED BY <1>1, <1>2, <1>3

(* The keys of the elements of S are in a line, as tuples of one length are. *)
Linear(key, S) ==
  \A x, y, z \in S :
    /\ ~Less(key[x], key[x])
    /\ Less(key[x], key[y]) /\ Less(key[y], key[z]) => Less(key[x], key[z])
    /\ key[x] # key[y] => Less(key[x], key[y]) \/ Less(key[y], key[x])

Keys(key, S, n) == \A x \in S : key[x] \in [1 .. n -> Int]

LEMMA KeysAreLinear ==
  ASSUME NEW n \in Nat, NEW S, NEW key, Keys(key, S, n)
  PROVE  Linear(key, S)
BY LessIsOrder DEF Keys, Linear

Ordered(s, key) == \A i, j \in DOMAIN s : i < j => ~Less(key[s[j]], key[s[i]])

(* Where an element is placed, and that the others keep their order. *)
PlacedAt(s, x, key, at) ==
  /\ at \in 1 .. Len(s) + 1
  /\ \A i \in 1 .. Len(s) : i < at => ~Less(key[x], key[s[i]])
  /\ at \in 1 .. Len(s) => Less(key[x], key[s[at]])
  /\ Placed(s, x, key) = [j \in 1 .. Len(s) + 1 |->
                          IF j < at THEN s[j] ELSE IF j = at THEN x ELSE s[j - 1]]

LEMMA PlacedDef ==
  ASSUME NEW S, NEW s \in Seq(S), NEW x \in S, NEW key
  PROVE  \E at : PlacedAt(s, x, key, at)
<1> DEFINE behind == {j \in DOMAIN s : Less(key[x], key[s[j]])}
           at == IF behind = {} THEN Len(s) + 1 ELSE Min(behind)
<1>1. /\ DOMAIN s = 1 .. Len(s) /\ Len(s) \in Nat
      /\ behind \subseteq Nat
  OBVIOUS
<1>2. Placed(s, x, key) = SubSeq(s, 1, at - 1) \o <<x>> \o SubSeq(s, at, Len(s))
  BY Zenon DEF Placed
<1>3. behind # {} => at \in behind /\ \A m \in behind : at <= m
  <2> HIDE DEF behind
  <2>1. behind # {} => \E n \in behind : \A m \in behind : n <= m
    BY <1>1, LeastOf
  <2> QED BY <2>1, Zenon DEF Min
<1>4. /\ at \in 1 .. Len(s) + 1
      /\ \A i \in 1 .. Len(s) : i < at => ~Less(key[x], key[s[i]])
      /\ at \in 1 .. Len(s) => Less(key[x], key[s[at]])
  <2>1. \A i \in 1 .. Len(s) : i \in behind <=> Less(key[x], key[s[i]])
    BY <1>1
  <2>2. CASE behind = {}
    BY <1>1, <2>1, <2>2
  <2>3. CASE behind # {}
    <3> DEFINE n == at
    <3>1. n \in behind /\ \A m \in behind : n <= m
      BY <1>3, <2>3
    <3>2. n \in 1 .. Len(s)
      BY <1>1, <3>1
    <3> HIDE DEF n, behind
    <3> QED BY <1>1, <2>1, <3>1, <3>2 DEF n
  <2> QED BY <2>2, <2>3
<1> DEFINE n == at
<1>5. /\ Placed(s, x, key) = SubSeq(s, 1, n - 1) \o <<x>> \o SubSeq(s, n, Len(s))
      /\ n \in 1 .. Len(s) + 1
      /\ \A i \in 1 .. Len(s) : i < n => ~Less(key[x], key[s[i]])
      /\ n \in 1 .. Len(s) => Less(key[x], key[s[n]])
  BY <1>2, <1>4
<1> HIDE DEF at, behind, n
<1> DEFINE u == SubSeq(s, 1, n - 1) \o <<x>>
           v == SubSeq(s, n, Len(s))
           t == [j \in 1 .. Len(s) + 1 |->
                   IF j < n THEN s[j] ELSE IF j = n THEN x ELSE s[j - 1]]
<1>6. /\ u \in Seq(S) /\ Len(u) = n
      /\ \A j \in 1 .. n : u[j] = IF j < n THEN s[j] ELSE x
  <2>1. /\ SubSeq(s, 1, n - 1) \in Seq(S) /\ Len(SubSeq(s, 1, n - 1)) = n - 1
        /\ \A j \in 1 .. n - 1 : SubSeq(s, 1, n - 1)[j] = s[j]
    BY <1>1, <1>5
  <2> DEFINE a == SubSeq(s, 1, n - 1)
  <2> HIDE DEF a
  <2>2. a \in Seq(S) /\ Len(a) = n - 1 /\ \A j \in 1 .. n - 1 : a[j] = s[j]
    BY <2>1 DEF a
  <2> DEFINE b == <<x>>
  <2>3. u = a \o b
    BY DEF a
  <2>4. b \in Seq(S) /\ Len(b) = 1 /\ b[1] = x
    OBVIOUS
  <2> HIDE DEF b, u
  <2>5. /\ u \in Seq(S) /\ Len(u) = Len(a) + Len(b)
        /\ \A j \in 1 .. Len(a) + Len(b) :
             u[j] = IF j <= Len(a) THEN a[j] ELSE b[j - Len(a)]
    BY <2>2, <2>3, <2>4, ConcatProperties
  <2>6. n \in Nat /\ Len(a) + Len(b) = n
    BY <1>1, <1>5, <2>2, <2>4
  <2>7. ASSUME NEW j \in 1 .. n PROVE u[j] = IF j < n THEN s[j] ELSE x
    <3>1. j \in 1 .. Len(a) + Len(b)
      BY <2>6
    <3>2. u[j] = IF j <= Len(a) THEN a[j] ELSE b[j - Len(a)]
      BY <2>5, <3>1
    <3>3. CASE j < n
      <4>1. j \in 1 .. n - 1 /\ j <= Len(a)
        BY <2>2, <2>6, <3>3
      <4>2. a[j] = s[j]
        BY <2>2, <4>1
      <4> QED BY <3>2, <3>3, <4>1, <4>2
    <3>4. CASE j = n
      <4>1. ~(j <= Len(a)) /\ j - Len(a) = 1 /\ ~(j < n)
        BY <2>2, <2>6, <3>4
      <4> QED BY <2>4, <3>2, <4>1
    <3>5. j < n \/ j = n
      BY <2>6
    <3> QED BY <3>3, <3>4, <3>5
  <2> QED BY <2>5, <2>6, <2>7
<1>7. /\ v \in Seq(S) /\ Len(v) = Len(s) + 1 - n
      /\ \A j \in 1 .. Len(v) : v[j] = s[n + j - 1]
  BY <1>1, <1>5
<1>8. u \o v = t
  <2> HIDE DEF u, v
  <2> DEFINE w == u \o v
  <2>1. /\ w \in Seq(S) /\ Len(w) = Len(u) + Len(v)
        /\ \A j \in 1 .. Len(u) + Len(v) :
             w[j] = IF j <= Len(u) THEN u[j] ELSE v[j - Len(u)]
    BY <1>6, <1>7, ConcatProperties
  <2> HIDE DEF w
  <2>2. Len(w) = Len(s) + 1 /\ DOMAIN w = 1 .. Len(s) + 1
    BY <1>1, <1>5, <1>6, <1>7, <2>1
  <2>3. ASSUME NEW j \in 1 .. Len(s) + 1
        PROVE  w[j] = IF j < n THEN s[j] ELSE IF j = n THEN x ELSE s[j - 1]
    <3>1. j \in 1 .. Len(u) + Len(v)
      BY <1>1, <1>5, <1>6, <1>7
    <3>2. CASE j <= n
      <4>1. j \in 1 .. n /\ w[j] = u[j]
        <5>1. j \in 1 .. n /\ j <= Len(u)
          BY <1>1, <1>5, <1>6, <3>2
        <5>2. w[j] = IF j <= Len(u) THEN u[j] ELSE v[j - Len(u)]
          BY <2>1, <3>1
        <5> QED BY <5>1, <5>2
      <4> QED BY <1>5, <1>6, <3>2, <4>1
    <3>3. CASE j > n
      <4>1. j - n \in 1 .. Len(v) /\ n + (j - n) - 1 = j - 1
        BY <1>1, <1>5, <1>7, <3>3
      <4>2. w[j] = v[j - n]
        <5>1. ~(j <= Len(u)) /\ j - Len(u) = j - n
          BY <1>1, <1>5, <1>6, <3>3
        <5>2. w[j] = IF j <= Len(u) THEN u[j] ELSE v[j - Len(u)]
          BY <2>1, <3>1
        <5> QED BY <5>1, <5>2
      <4>3. v[j - n] = s[n + (j - n) - 1]
        BY <1>7, <4>1
      <4>4. w[j] = s[j - 1] /\ ~(j < n) /\ j # n
        BY <1>5, <3>3, <4>1, <4>2, <4>3
      <4> QED BY <4>4
    <3> QED BY <1>5, <3>2, <3>3
  <2>4. w = [j \in 1 .. Len(s) + 1 |-> w[j]]
    BY <2>1, <2>2
  <2> QED BY <2>3, <2>4 DEF w
<1>9. PlacedAt(s, x, key, n)
  BY <1>5, <1>8 DEF PlacedAt
<1> QED BY <1>9

LEMMA PlacedFacts ==
  ASSUME NEW S, NEW s \in Seq(S), NEW x \in S, NEW key,
         Linear(key, S), Ordered(s, key)
  PROVE  /\ Placed(s, x, key) \in Seq(S)
         /\ Len(Placed(s, x, key)) = Len(s) + 1
         /\ RangeOf(Placed(s, x, key)) = RangeOf(s) \union {x}
         /\ Ordered(Placed(s, x, key), key)
<1>1. /\ DOMAIN s = 1 .. Len(s) /\ Len(s) \in Nat
      /\ \A i \in 1 .. Len(s) : s[i] \in S
  OBVIOUS
<1>2. PICK p : PlacedAt(s, x, key, p)
  BY PlacedDef
<1>3. /\ p \in 1 .. Len(s) + 1
      /\ \A i \in 1 .. Len(s) : i < p => ~Less(key[x], key[s[i]])
  BY <1>2 DEF PlacedAt
<1>4. \A i \in 1 .. Len(s) : p <= i => Less(key[x], key[s[i]])
  <2> SUFFICES ASSUME NEW i \in 1 .. Len(s), p <= i PROVE Less(key[x], key[s[i]])
    OBVIOUS
  <2>1. p \in 1 .. Len(s) /\ Less(key[x], key[s[p]])
    BY <1>1, <1>2 DEF PlacedAt
  <2>2. CASE i = p
    BY <2>1, <2>2
  <2>3. CASE i # p
    <3>1. ~Less(key[s[i]], key[s[p]])
      BY <1>1, <2>1, <2>3 DEF Ordered
    <3>2. s[i] \in S /\ s[p] \in S
      BY <1>1, <2>1
    <3>3. key[s[p]] = key[s[i]] \/ Less(key[s[p]], key[s[i]])
      BY <3>1, <3>2 DEF Linear
    <3>4. Less(key[s[p]], key[s[i]]) => Less(key[x], key[s[i]])
      BY <2>1, <3>2 DEF Linear
    <3> QED BY <2>1, <3>3, <3>4
  <2> QED BY <2>2, <2>3
<1> DEFINE t == Placed(s, x, key)
<1>5. /\ DOMAIN t = 1 .. Len(s) + 1
      /\ t = [j \in 1 .. Len(s) + 1 |-> t[j]]
      /\ \A j \in 1 .. Len(s) + 1 :
           t[j] = IF j < p THEN s[j] ELSE IF j = p THEN x ELSE s[j - 1]
  BY <1>2 DEF PlacedAt
<1> HIDE DEF t
<1>6. \A j \in 1 .. Len(s) + 1 :
        \/ j < p /\ j \in 1 .. Len(s) /\ t[j] = s[j]
        \/ j = p /\ t[j] = x
        \/ p < j /\ j - 1 \in 1 .. Len(s) /\ t[j] = s[j - 1]
  <2>1. ASSUME NEW j \in 1 .. Len(s) + 1
        PROVE  \/ j < p /\ j \in 1 .. Len(s) /\ t[j] = s[j]
               \/ j = p /\ t[j] = x
               \/ p < j /\ j - 1 \in 1 .. Len(s) /\ t[j] = s[j - 1]
    <3>1. CASE j < p
      BY <1>1, <1>3, <1>5, <3>1
    <3>2. CASE j = p
      BY <1>1, <1>3, <1>5, <3>2
    <3>3. CASE p < j
      <4>1. j - 1 \in 1 .. Len(s) /\ ~(j < p) /\ j # p
        BY <1>1, <1>3, <3>3
      <4>2. t[j] = s[j - 1]
        BY <1>5, <4>1
      <4> QED BY <3>3, <4>1, <4>2
    <3> QED BY <1>1, <1>3, <3>1, <3>2, <3>3
  <2> QED BY <2>1
<1>7. t \in Seq(S)
  <2>1. \A j \in 1 .. Len(s) + 1 : t[j] \in S
    BY <1>1, <1>6
  <2> QED BY <1>1, <1>5, <2>1, IsASeq
<1>8. RangeOf(t) = RangeOf(s) \union {x}
  <2>1. ASSUME NEW e \in RangeOf(t) PROVE e \in RangeOf(s) \union {x}
    BY <1>1, <1>5, <1>6, <2>1 DEF RangeOf
  <2>2. x \in RangeOf(t)
    BY <1>3, <1>5, <1>6 DEF RangeOf
  <2>3. ASSUME NEW i \in 1 .. Len(s) PROVE s[i] \in RangeOf(t)
    <3>1. CASE i < p
      BY <1>1, <1>5, <1>6, <3>1 DEF RangeOf
    <3>2. CASE p <= i
      <4>1. i + 1 \in 1 .. Len(s) + 1 /\ p < i + 1 /\ i + 1 - 1 = i /\ ~(i + 1 < p)
        BY <1>1, <1>3, <3>2
      <4>2. t[i + 1] = s[i]
        BY <1>5, <4>1
      <4> QED BY <1>5, <4>1, <4>2 DEF RangeOf
    <3> QED BY <1>1, <1>3, <3>1, <3>2
  <2> QED BY <1>1, <2>1, <2>2, <2>3 DEF RangeOf
<1>9. Len(t) = Len(s) + 1
  BY <1>1, <1>5, <1>7
<1>10. Ordered(t, key)
  <2> SUFFICES ASSUME NEW i \in 1 .. Len(s) + 1, NEW j \in 1 .. Len(s) + 1, i < j
               PROVE  ~Less(key[t[j]], key[t[i]])
    BY <1>5 DEF Ordered
  <2>1. \A k \in 1 .. Len(s) :
          Less(key[x], key[s[k]]) => ~Less(key[s[k]], key[x])
    BY <1>1 DEF Linear
  <2>2. \A k, m \in 1 .. Len(s) : k < m => ~Less(key[s[m]], key[s[k]])
    BY <1>1 DEF Ordered
  <2>3. CASE i = p
    <3>1. j - 1 \in 1 .. Len(s) /\ t[j] = s[j - 1] /\ t[i] = x /\ p <= j - 1
      BY <1>3, <1>6, <2>3
    <3> QED BY <1>4, <2>1, <3>1
  <2>4. CASE j = p
    <3>1. i \in 1 .. Len(s) /\ t[i] = s[i] /\ t[j] = x /\ i < p
      BY <1>3, <1>6, <2>4
    <3> QED BY <1>3, <3>1
  <2>5. CASE i # p /\ j # p
    BY <1>1, <1>3, <1>6, <2>2, <2>5
  <2> QED BY <2>3, <2>4, <2>5
<1> QED BY <1>7, <1>8, <1>10, <1>9 DEF t

SortStep(s, key, sorted, i) ==
  IF i = 0 THEN <<>> ELSE Placed(sorted[i - 1], s[i], key)

LEMMA PlacedType ==
  ASSUME NEW S, NEW s \in Seq(S), NEW x \in S, NEW key
  PROVE  Placed(s, x, key) \in Seq(S)
<1>1. PICK p : PlacedAt(s, x, key, p)
  BY PlacedDef
<1>2. Len(s) \in Nat /\ \A i \in 1 .. Len(s) : s[i] \in S
  OBVIOUS
<1>3. ASSUME NEW j \in 1 .. Len(s) + 1
      PROVE  (IF j < p THEN s[j] ELSE IF j = p THEN x ELSE s[j - 1]) \in S
  <2>1. j < p => j \in 1 .. Len(s)
    BY <1>1, <1>2 DEF PlacedAt
  <2>2. ~(j < p) /\ j # p => j - 1 \in 1 .. Len(s)
    BY <1>1, <1>2 DEF PlacedAt
  <2> QED BY <1>2, <2>1, <2>2
<1>4. Len(s) + 1 \in Nat
  BY <1>2
<1> QED BY <1>1, <1>3, <1>4, IsASeq DEF PlacedAt

LEMMA SortedByDef ==
  ASSUME NEW S, NEW s \in Seq(S), NEW key
  PROVE  \E sorted : /\ sorted = [i \in 0 .. Len(s) |-> SortStep(s, key, sorted, i)]
                     /\ SortedBy(s, key) = sorted[Len(s)]
<1> DEFINE g == [i \in 1 .. Len(s) |-> [x \in Seq(S) |-> Placed(x, s[i], key)]]
<1>1. g \in [1 .. Len(s) -> [Seq(S) -> Seq(S)]]
  <2>1. \A i \in 1 .. Len(s), x \in Seq(S) : Placed(x, s[i], key) \in Seq(S)
    BY PlacedType
  <2> QED BY <2>1
<1>2. <<>> \in Seq(S) /\ Len(s) \in Nat
  OBVIOUS
<1>3. \A i \in 1 .. Len(s), x \in Seq(S) : g[i][x] = Placed(x, s[i], key)
  OBVIOUS
<1> HIDE DEF g
<1>4. PICK f : Iterates(f, Len(s), Seq(S), <<>>, g)
  BY <1>1, <1>2, Recursion
<1>5. f = [i \in 0 .. Len(s) |-> SortStep(s, key, f, i)]
  <2> SUFFICES ASSUME NEW i \in 0 .. Len(s) PROVE f[i] = SortStep(s, key, f, i)
    BY <1>4 DEF Iterates
  <2>1. i # 0 => i \in 1 .. Len(s) /\ f[i - 1] \in Seq(S)
    BY <1>2, <1>4 DEF Iterates
  <2>2. i # 0 => g[i][f[i - 1]] = SortStep(s, key, f, i)
    BY <1>3, <2>1 DEF SortStep
  <2>3. f[i] = IF i = 0 THEN <<>> ELSE g[i][f[i - 1]]
    BY <1>4, <2>1 DEF Iterates
  <2> QED BY <2>2, <2>3 DEF SortStep
<1> DEFINE sorted[i \in 0 .. Len(s)] ==
        IF i = 0 THEN <<>> ELSE Placed(sorted[i - 1], s[i], key)
<1>6. sorted = [i \in 0 .. Len(s) |-> SortStep(s, key, sorted, i)]
  BY <1>5, Zenon DEF SortStep
<1>7. SortedBy(s, key) = sorted[Len(s)]
  BY Zenon DEF SortedBy
<1> QED BY <1>6, <1>7, Zenon

(* A sorted sequence has what was in it, in the order of the keys. *)
LEMMA SortedByFacts ==
  ASSUME NEW S, NEW s \in Seq(S), NEW key, Linear(key, S)
  PROVE  /\ SortedBy(s, key) \in Seq(S)
         /\ Len(SortedBy(s, key)) = Len(s)
         /\ RangeOf(SortedBy(s, key)) = RangeOf(s)
         /\ Ordered(SortedBy(s, key), key)
<1>1. PICK sorted : /\ sorted = [i \in 0 .. Len(s) |-> SortStep(s, key, sorted, i)]
                    /\ SortedBy(s, key) = sorted[Len(s)]
  BY SortedByDef
<1>2. Len(s) \in Nat /\ 0 \in 0 .. Len(s) /\ Len(s) \in 0 .. Len(s)
  OBVIOUS
<1> DEFINE P(i) == /\ sorted[i] \in Seq(S)
                   /\ Len(sorted[i]) = i
                   /\ RangeOf(sorted[i]) = {s[j] : j \in 1 .. i}
                   /\ Ordered(sorted[i], key)
           T == {i \in 0 .. Len(s) : P(i)}
<1>3. 0 \in T
  <2>1. sorted[0] = SortStep(s, key, sorted, 0)
    BY <1>1, <1>2
  <2>2. sorted[0] = <<>>
    BY <2>1 DEF SortStep
  <2>3. RangeOf(<<>>) = {} /\ {s[j] : j \in 1 .. 0} = {}
    BY DEF RangeOf
  <2>4. Ordered(<<>>, key) /\ Len(<<>>) = 0
    BY DEF Ordered
  <2>5. P(0)
    BY <2>2, <2>3, <2>4
  <2> QED BY <1>2, <2>5
<1>4. ASSUME NEW i \in 1 .. Len(s), i - 1 \in T PROVE i \in T
  <2>1. P(i - 1)
    BY <1>4
  <2>2. s[i] \in S /\ i \in 0 .. Len(s) /\ i # 0
    OBVIOUS
  <2>3. sorted[i] = SortStep(s, key, sorted, i)
    BY <1>1, <2>2
  <2>4. sorted[i] = Placed(sorted[i - 1], s[i], key)
    BY <2>2, <2>3 DEF SortStep
  <2>5. {s[j] : j \in 1 .. i} = {s[j] : j \in 1 .. i - 1} \union {s[i]}
    <3>1. \A j \in 1 .. i : j \in 1 .. i - 1 \/ j = i
      OBVIOUS
    <3>2. \A j \in 1 .. i - 1 : j \in 1 .. i
      OBVIOUS
    <3> QED BY <3>1, <3>2
  <2> DEFINE b == sorted[i - 1]
  <2>6. b \in Seq(S) /\ Len(b) = i - 1 /\ Ordered(b, key) /\ RangeOf(b) = {s[j] : j \in 1 .. i - 1}
        /\ sorted[i] = Placed(b, s[i], key)
    BY <2>1, <2>4
  <2> HIDE DEF b
  <2> DEFINE x == s[i]
  <2>7. x \in S /\ Linear(key, S)
    BY <2>2
  <2> HIDE DEF x
  <2>8. /\ Placed(b, x, key) \in Seq(S)
        /\ Len(Placed(b, x, key)) = Len(b) + 1
        /\ RangeOf(Placed(b, x, key)) = RangeOf(b) \union {x}
        /\ Ordered(Placed(b, x, key), key)
    BY <2>6, <2>7, PlacedFacts, Zenon
  <2> QED BY <2>2, <2>5, <2>6, <2>8 DEF x
<1>5. 0 .. Len(s) \subseteq T
  <2> HIDE DEF T
  <2> QED BY <1>2, <1>3, <1>4, UpTo
<1>6. P(Len(s))
  BY <1>2, <1>5
<1>7. RangeOf(s) = {s[j] : j \in 1 .. Len(s)}
  BY DEF RangeOf
<1> QED BY <1>1, <1>6, <1>7

-----------------------------------------------------------------------------
(* An index, and what it has of the rows of its shards. *)

UseRows == [path : Nat, range : Ranges, encoding : Encodings, import : BOOLEAN]

OccurrenceRows == [range : Ranges, symbol : Nat]

Indexes ==
  [definitions : Seq(Declarations),
   references : [Symbols -> Seq(UseRows)],
   paths : Seq(Paths),
   pathIds : UNION {[some -> Nat] : some \in SUBSET Paths},
   occurrences : [Paths -> Seq(OccurrenceRows)],
   names : Seq(Symbols)]

(* The rows of a document, as the properties name them. *)
RowOf(doc, row) == [path |-> doc.path, encoding |-> doc.encoding, row |-> row]

SitesIn(rows) ==
  {[symbol |-> k.row.symbol, path |-> k.path, range |-> k.row.range] :
     k \in {seen \in KeptOf(rows) : seen.row.definition}}

UsesIn(rows, s) ==
  {[path |-> k.path, range |-> k.row.range, encoding |-> k.encoding, import |-> k.row.import] :
     k \in {seen \in KeptOf(rows) : seen.row.symbol = s /\ ~seen.row.definition}}

OccurrencesIn(rows, p) ==
  {[range |-> k.row.range, symbol |-> k.row.symbol] : k \in {seen \in KeptOf(rows) : seen.path = p}}

(* The ids name what they stand for.  There are none after a snapshot. *)
PathsHold(ix) ==
  /\ Distinct(ix.paths)
  /\ DOMAIN ix.pathIds = {} \/ DOMAIN ix.pathIds = RangeOf(ix.paths)
  /\ \A p \in DOMAIN ix.pathIds : ix.pathIds[p] \in DOMAIN ix.paths /\ ix.paths[ix.pathIds[p]] = p

NamesHold(ix) == Distinct(ix.names) /\ RangeOf(ix.names) \subseteq Symbols \ Locals

(* The columns of a declaration are what a row at its path has. *)
EncodingSeen(def, rows) ==
  \E k \in KeptOf(rows) : k.path = def.path /\ k.encoding = def.encoding

SitesHold(ix, rows) ==
  /\ \A i, j \in DOMAIN ix.definitions :
       SiteOf(ix.definitions[i]) = SiteOf(ix.definitions[j]) => i = j
  /\ {SiteOf(def) : def \in RangeOf(ix.definitions)} = SitesIn(rows)
  /\ \A def \in RangeOf(ix.definitions) : EncodingSeen(def, rows)

UsesHold(ix, rows) ==
  \A s \in Symbols :
    /\ \A i \in DOMAIN ix.references[s] : ix.references[s][i].path \in DOMAIN ix.paths
    /\ RangeOf(ReferencesTo(ix, s)) = UsesIn(rows, s)

OccurrencesHold(ix, rows) ==
  \A p \in Paths :
    /\ \A i \in DOMAIN ix.occurrences[p] : ix.occurrences[p][i].symbol \in DOMAIN ix.names
    /\ {[range |-> o.range, symbol |-> ix.names[o.symbol]] : o \in RangeOf(ix.occurrences[p])}
         = OccurrencesIn(rows, p)

Holds(ix, rows) ==
  /\ PathsHold(ix)
  /\ NamesHold(ix)
  /\ SitesHold(ix, rows)
  /\ UsesHold(ix, rows)
  /\ OccurrencesHold(ix, rows)

(* The rows of an index that ReferencesTo reads. *)
Fields ==
  {"definitions", "references", "paths", "pathIds", "occurrences", "names"}

LEMMA IndexFields ==
  ASSUME NEW ix \in Indexes
  PROVE  /\ ix.definitions \in Seq(Declarations)
         /\ ix.references \in [Symbols -> Seq(UseRows)]
         /\ ix.paths \in Seq(Paths)
         /\ ix.pathIds \in UNION {[some -> Nat] : some \in SUBSET Paths}
         /\ ix.occurrences \in [Paths -> Seq(OccurrenceRows)]
         /\ ix.names \in Seq(Symbols)
         /\ DOMAIN ix = Fields
BY DEF Indexes, Fields

LEMMA IndexFromFields ==
  ASSUME NEW ix,
         ix = [definitions |-> ix.definitions, references |-> ix.references,
               paths |-> ix.paths, pathIds |-> ix.pathIds,
               occurrences |-> ix.occurrences, names |-> ix.names],
         ix.definitions \in Seq(Declarations),
         ix.references \in [Symbols -> Seq(UseRows)],
         ix.paths \in Seq(Paths),
         ix.pathIds \in UNION {[some -> Nat] : some \in SUBSET Paths},
         ix.occurrences \in [Paths -> Seq(OccurrenceRows)],
         ix.names \in Seq(Symbols)
  PROVE  ix \in Indexes
BY DEF Indexes

LEMMA IdInFacts ==
  ASSUME NEW s, NEW x \in RangeOf(s)
  PROVE  IdIn(s, x) \in DOMAIN s /\ s[IdIn(s, x)] = x
BY DEF IdIn, RangeOf

LEMMA InternedFacts ==
  ASSUME NEW S, NEW s \in Seq(S), NEW x \in S
  PROVE  /\ Interned(s, x) \in Seq(S)
         /\ RangeOf(Interned(s, x)) = RangeOf(s) \union {x}
         /\ \A i \in DOMAIN s : i \in DOMAIN Interned(s, x) /\ Interned(s, x)[i] = s[i]
         /\ Distinct(s) => Distinct(Interned(s, x))
<1>1. CASE x \in RangeOf(s)
  BY <1>1 DEF Interned
<1>2. CASE x \notin RangeOf(s)
  <2>1. Interned(s, x) = Append(s, x)
    BY <1>2 DEF Interned
  <2> DEFINE t == Append(s, x)
  <2>2. /\ t \in Seq(S)
        /\ DOMAIN t = 1 .. Len(s) + 1
        /\ \A i \in 1 .. Len(s) : t[i] = s[i]
        /\ t[Len(s) + 1] = x
        /\ RangeOf(t) = RangeOf(s) \union {x}
        /\ DOMAIN s = 1 .. Len(s) /\ Len(s) \in Nat
    BY AppendFacts
  <2> HIDE DEF t
  <2>3. \A i \in DOMAIN s : i \in DOMAIN t /\ t[i] = s[i] /\ t[i] # x
    BY <1>2, <2>2 DEF RangeOf
  <2>4. \A i \in DOMAIN t : i \in DOMAIN s \/ i = Len(s) + 1
    BY <2>2
  <2>5. Distinct(s) => Distinct(t)
    BY <2>2, <2>3, <2>4 DEF Distinct
  <2> QED BY <2>1, <2>2, <2>3, <2>5 DEF t
<1> QED BY <1>1, <1>2

-----------------------------------------------------------------------------
(* `intern_reference_path`. *)

LEMMA PathIdsFacts ==
  ASSUME NEW ix \in Indexes
  PROVE  /\ DOMAIN PathIds(ix) \subseteq Paths
         /\ \A p \in DOMAIN PathIds(ix) : PathIds(ix)[p] \in Nat
         /\ PathsHold(ix) =>
              /\ DOMAIN PathIds(ix) = RangeOf(ix.paths)
              /\ \A p \in DOMAIN PathIds(ix) :
                   PathIds(ix)[p] \in DOMAIN ix.paths /\ ix.paths[PathIds(ix)[p]] = p
<1>1. /\ ix.paths \in Seq(Paths)
      /\ ix.pathIds \in UNION {[some -> Nat] : some \in SUBSET Paths}
  BY IndexFields
<1>2. RangeOf(ix.paths) \subseteq Paths
  BY <1>1 DEF RangeOf
<1>3. DOMAIN ix.paths \subseteq Nat
  BY <1>1
<1>4. DOMAIN ix.pathIds \subseteq Paths /\ \A p \in DOMAIN ix.pathIds : ix.pathIds[p] \in Nat
  BY <1>1
<1>5. CASE DOMAIN ix.pathIds = {} /\ ix.paths # <<>>
  <2>1. PathIds(ix) = [p \in RangeOf(ix.paths) |-> IdIn(ix.paths, p)]
    BY <1>5 DEF PathIds
  <2>2. \A p \in RangeOf(ix.paths) :
          IdIn(ix.paths, p) \in DOMAIN ix.paths /\ ix.paths[IdIn(ix.paths, p)] = p
    BY IdInFacts
  <2> QED BY <1>2, <1>3, <2>1, <2>2
<1>6. CASE ~(DOMAIN ix.pathIds = {} /\ ix.paths # <<>>)
  <2>1. PathIds(ix) = ix.pathIds
    BY <1>6 DEF PathIds
  <2>2. ix.paths = <<>> => RangeOf(ix.paths) = {}
    BY DEF RangeOf
  <2>3. PathsHold(ix) => DOMAIN ix.pathIds = RangeOf(ix.paths)
    BY <1>6, <2>2 DEF PathsHold
  <2> QED BY <1>4, <2>1, <2>3 DEF PathsHold
<1> QED BY <1>5, <1>6

-----------------------------------------------------------------------------
(* `insert_occurrence`: a row is noted where it is. *)

Noted(ix, doc, row) ==
  LET names == Interned(ix.names, row.symbol)
  IN  [ix EXCEPT
        !.names = names,
        !.occurrences[doc.path] =
          Append(@, [range |-> row.range, symbol |-> IdIn(names, row.symbol)])]

Readable(row) == row.range # None /\ row.symbol \notin Locals

LEMMA DocumentFields ==
  ASSUME NEW doc \in Documents
  PROVE  doc.path \in Paths /\ doc.encoding \in Encodings /\ doc.rows \in Seq(RowSet)
BY DEF Documents

LEMMA RowFields ==
  ASSUME NEW row \in RowSet
  PROVE  /\ row.symbol \in Symbols
         /\ row.range \in Ranges \union {None}
         /\ row.definition \in BOOLEAN
         /\ row.import \in BOOLEAN
         /\ row.enclosing \in Ranges \union {None}
         /\ row.described \in BOOLEAN
         /\ row.implements \in SUBSET Symbols
BY DEF RowSet

LEMMA NotedFields ==
  ASSUME NEW ix \in Indexes, NEW doc \in Documents, NEW row \in RowSet, Readable(row)
  PROVE  LET names == Interned(ix.names, row.symbol)
             entry == [range |-> row.range, symbol |-> IdIn(names, row.symbol)]
             new == Noted(ix, doc, row)
         IN  /\ new \in Indexes
             /\ entry \in OccurrenceRows
             /\ IdIn(names, row.symbol) \in DOMAIN names
             /\ names[IdIn(names, row.symbol)] = row.symbol
             /\ new.definitions = ix.definitions
             /\ new.references = ix.references
             /\ new.paths = ix.paths
             /\ new.pathIds = ix.pathIds
             /\ new.names = names
             /\ new.occurrences = [ix.occurrences EXCEPT ![doc.path] = Append(@, entry)]
<1> DEFINE names == Interned(ix.names, row.symbol)
           entry == [range |-> row.range, symbol |-> IdIn(names, row.symbol)]
           new == Noted(ix, doc, row)
           table == [ix.occurrences EXCEPT ![doc.path] = Append(@, entry)]
<1>1. doc.path \in Paths /\ row.symbol \in Symbols /\ row.range \in Ranges
  BY DocumentFields, RowFields DEF Readable
<1>2. /\ names \in Seq(Symbols)
      /\ row.symbol \in RangeOf(names)
  BY <1>1, IndexFields, InternedFacts
<1>3. IdIn(names, row.symbol) \in DOMAIN names /\ names[IdIn(names, row.symbol)] = row.symbol
  BY <1>2, IdInFacts
<1>4. entry \in OccurrenceRows
  <2>1. IdIn(names, row.symbol) \in Nat
    BY <1>2, <1>3
  <2> HIDE DEF names
  <2> QED BY <1>1, <2>1 DEF OccurrenceRows
<1>5. table \in [Paths -> Seq(OccurrenceRows)]
  <2>1. ix.occurrences \in [Paths -> Seq(OccurrenceRows)]
    BY IndexFields
  <2> HIDE DEF entry
  <2> QED BY <1>1, <1>4, <2>1
<1>6. new = [ix EXCEPT !.names = names, !.occurrences = table]
  <2>1. new = [ix EXCEPT !.names = names,
                         !.occurrences[doc.path] = Append(@, entry)]
    BY DEF Noted
  <2>2. DOMAIN ix = Fields
    BY IndexFields
  <2> HIDE DEF names, entry, new
  <2> QED BY <2>1, <2>2 DEF Fields
<1> HIDE DEF names, entry, new, table
<1>7. /\ new.definitions = ix.definitions
      /\ new.references = ix.references
      /\ new.paths = ix.paths
      /\ new.pathIds = ix.pathIds
      /\ new.names = names
      /\ new.occurrences = table
  BY <1>6, IndexFields DEF Fields
<1>8. new = [definitions |-> new.definitions, references |-> new.references,
             paths |-> new.paths, pathIds |-> new.pathIds,
             occurrences |-> new.occurrences, names |-> new.names]
  BY <1>6 DEF Indexes
<1>9. new \in Indexes
  BY <1>2, <1>5, <1>7, <1>8, IndexFields, IndexFromFields
<1> QED BY <1>3, <1>4, <1>7, <1>9 DEF names, entry, new, table

LEMMA AddedToRows ==
  ASSUME NEW rows, NEW doc, NEW row
  PROVE  LET more == rows \union {RowOf(doc, row)}
         IN  /\ ~Readable(row) => KeptOf(more) = KeptOf(rows)
             /\ Readable(row) => KeptOf(more) = KeptOf(rows) \union {RowOf(doc, row)}
BY DEF KeptOf, RowOf, Readable

LEMMA StillSeen ==
  ASSUME NEW rows, NEW doc, NEW row, NEW def
  PROVE  LET more == rows \union {RowOf(doc, row)}
         IN  /\ EncodingSeen(def, rows) => EncodingSeen(def, more)
             /\ Readable(row) /\ def.path = doc.path /\ def.encoding = doc.encoding
                  => EncodingSeen(def, more)
<1> DEFINE r == RowOf(doc, row)
           more == rows \union {r}
<1>1. /\ ~Readable(row) => KeptOf(more) = KeptOf(rows)
      /\ Readable(row) => KeptOf(more) = KeptOf(rows) \union {r}
  BY AddedToRows
<1>2. r.path = doc.path /\ r.encoding = doc.encoding
  BY DEF RowOf
<1>3. Readable(row) \in BOOLEAN
  BY DEF Readable
<1> HIDE DEF r, more
<1>4. EncodingSeen(def, rows) => EncodingSeen(def, more)
  BY <1>1, <1>3 DEF EncodingSeen
<1>5. Readable(row) /\ def.path = doc.path /\ def.encoding = doc.encoding
        => EncodingSeen(def, more)
  BY <1>1, <1>2 DEF EncodingSeen
<1> QED BY <1>4, <1>5 DEF r, more

LEMMA AddedOccurrences ==
  ASSUME NEW rows, NEW doc, NEW row, NEW p, Readable(row)
  PROVE  OccurrencesIn(rows \union {RowOf(doc, row)}, p)
           = OccurrencesIn(rows, p)
               \union {o \in {[range |-> row.range, symbol |-> row.symbol]} : p = doc.path}
<1> DEFINE r == RowOf(doc, row)
           more == rows \union {r}
           For(k) == [range |-> k.row.range, symbol |-> k.row.symbol]
<1>1. KeptOf(more) = KeptOf(rows) \union {r}
  BY AddedToRows
<1>2. r.path = doc.path /\ For(r) = [range |-> row.range, symbol |-> row.symbol]
  BY DEF RowOf
<1>3. \A k \in KeptOf(more) : k.path = p => k \in KeptOf(rows) \/ (k = r /\ p = doc.path)
  BY <1>1, <1>2
<1>4. \A k \in KeptOf(rows) : k \in KeptOf(more)
  BY <1>1
<1>5. r \in KeptOf(more)
  BY <1>1
<1>6. OccurrencesIn(more, p) = {For(k) : k \in {seen \in KeptOf(more) : seen.path = p}}
      /\ OccurrencesIn(rows, p) = {For(k) : k \in {seen \in KeptOf(rows) : seen.path = p}}
  BY DEF OccurrencesIn
<1> HIDE DEF r, more, For
<1>7. ASSUME NEW o \in OccurrencesIn(more, p)
      PROVE  o \in OccurrencesIn(rows, p) \/ (o = For(r) /\ p = doc.path)
  <2>1. PICK k \in KeptOf(more) : k.path = p /\ o = For(k)
    BY <1>6
  <2> QED BY <1>3, <1>6, <2>1
<1>8. OccurrencesIn(rows, p) \subseteq OccurrencesIn(more, p)
  BY <1>4, <1>6
<1>9. p = doc.path => For(r) \in OccurrencesIn(more, p)
  BY <1>2, <1>5, <1>6
<1>10. OccurrencesIn(more, p) = OccurrencesIn(rows, p) \union {o \in {For(r)} : p = doc.path}
  BY <1>7, <1>8, <1>9
<1> QED BY <1>2, <1>10 DEF more, r

LEMMA NotedHolds ==
  ASSUME NEW ix \in Indexes, NEW doc \in Documents, NEW row \in RowSet, Readable(row),
         NEW rows, Holds(ix, rows)
  PROVE  LET new == Noted(ix, doc, row)
         IN  /\ PathsHold(new)
             /\ NamesHold(new)
             /\ SitesHold(new, rows)
             /\ UsesHold(new, rows)
             /\ OccurrencesHold(new, rows \union {RowOf(doc, row)})
<1> DEFINE names == Interned(ix.names, row.symbol)
           entry == [range |-> row.range, symbol |-> IdIn(names, row.symbol)]
           new == Noted(ix, doc, row)
           more == rows \union {RowOf(doc, row)}
<1>1. /\ entry \in OccurrenceRows
      /\ IdIn(names, row.symbol) \in DOMAIN names
      /\ names[IdIn(names, row.symbol)] = row.symbol
      /\ new.definitions = ix.definitions
      /\ new.references = ix.references
      /\ new.paths = ix.paths
      /\ new.pathIds = ix.pathIds
      /\ new.names = names
      /\ new.occurrences = [ix.occurrences EXCEPT ![doc.path] = Append(@, entry)]
  BY NotedFields, Zenon
<1>2. /\ ix.names \in Seq(Symbols) /\ row.symbol \in Symbols \ Locals
      /\ ix.occurrences \in [Paths -> Seq(OccurrenceRows)] /\ doc.path \in Paths
      /\ row.range \in Ranges
  BY IndexFields, DocumentFields, RowFields DEF Readable
<1>3. /\ RangeOf(names) = RangeOf(ix.names) \union {row.symbol}
      /\ \A i \in DOMAIN ix.names : i \in DOMAIN names /\ names[i] = ix.names[i]
      /\ Distinct(ix.names) => Distinct(names)
  <2>1. row.symbol \in Symbols /\ ix.names \in Seq(Symbols)
    BY <1>2
  <2>2. names \in Seq(Symbols)
        /\ RangeOf(names) = RangeOf(ix.names) \union {row.symbol}
    BY <2>1, InternedFacts
  <2>3. \A i \in DOMAIN ix.names : i \in DOMAIN names /\ names[i] = ix.names[i]
    <3> DEFINE old == ix.names
               x == row.symbol
    <3>1. old \in Seq(Symbols) /\ x \in Symbols
      BY <2>1
    <3> HIDE DEF old, x
    <3>2. \A i \in DOMAIN old : i \in DOMAIN Interned(old, x) /\ Interned(old, x)[i] = old[i]
      BY <3>1, InternedFacts
    <3> QED BY <3>2 DEF old, x
  <2>4. Distinct(ix.names) => Distinct(names)
    BY <2>1, InternedFacts
  <2> QED BY <2>2, <2>3, <2>4
<1>4. PathsHold(new) /\ SitesHold(new, rows)
  <2> HIDE DEF new
  <2> QED BY <1>1 DEF Holds, PathsHold, SitesHold
<1>5. NamesHold(new)
  <2> HIDE DEF new, names
  <2> QED BY <1>1, <1>2, <1>3 DEF Holds, NamesHold
<1>6. UsesHold(new, rows)
  <2> HIDE DEF new
  <2>1. \A s \in Symbols : ReferencesTo(new, s) = ReferencesTo(ix, s)
    BY <1>1 DEF ReferencesTo
  <2> QED BY <1>1, <2>1 DEF Holds, UsesHold
<1>7. OccurrencesHold(new, more)
  <2> SUFFICES ASSUME NEW p \in Paths
               PROVE  /\ \A i \in DOMAIN new.occurrences[p] :
                           new.occurrences[p][i].symbol \in DOMAIN new.names
                      /\ {[range |-> o.range, symbol |-> new.names[o.symbol]] :
                            o \in RangeOf(new.occurrences[p])} = OccurrencesIn(more, p)
    BY DEF OccurrencesHold
  <2> DEFINE For(o) == [range |-> o.range, symbol |-> ix.names[o.symbol]]
             New(o) == [range |-> o.range, symbol |-> names[o.symbol]]
             all == new.occurrences[p]
             old == ix.occurrences[p]
  <2>1. /\ \A i \in DOMAIN old : old[i].symbol \in DOMAIN ix.names
        /\ {For(o) : o \in RangeOf(old)} = OccurrencesIn(rows, p)
    BY DEF Holds, OccurrencesHold
  <2>2. \A o \in RangeOf(old) : o.symbol \in DOMAIN ix.names
    BY <2>1 DEF RangeOf
  <2>3. \A o \in RangeOf(old) : o.symbol \in DOMAIN names /\ New(o) = For(o)
    <3> HIDE DEF names
    <3> QED BY <1>3, <2>2
  <2>4. New(entry) = [range |-> row.range, symbol |-> row.symbol]
        /\ entry.symbol \in DOMAIN names
    BY <1>1
  <2>5. OccurrencesIn(more, p) = OccurrencesIn(rows, p)
                                   \union {o \in {New(entry)} : p = doc.path}
    BY <2>4, AddedOccurrences
  <2> HIDE DEF names, entry, new, more, For, New
  <2>6. CASE p = doc.path
    <3>1. all = Append(old, entry) /\ old \in Seq(OccurrenceRows)
      BY <1>1, <1>2, <2>6
    <3>2. RangeOf(all) = RangeOf(old) \union {entry}
      <4> HIDE DEF all, old
      <4> QED BY <1>1, <3>1, AppendFacts
    <3> HIDE DEF all, old
    <3>3. \A o \in RangeOf(all) : o.symbol \in DOMAIN names
      BY <2>3, <2>4, <3>2
    <3>4. {New(o) : o \in RangeOf(all)} = {For(o) : o \in RangeOf(old)} \union {New(entry)}
      BY <2>3, <3>2
    <3>5. {New(o) : o \in RangeOf(all)} = OccurrencesIn(more, p)
      BY <2>1, <2>5, <2>6, <3>4
    <3>6. \A i \in DOMAIN all : all[i].symbol \in DOMAIN names
      BY <3>3 DEF RangeOf
    <3> QED BY <1>1, <3>5, <3>6 DEF New, all
  <2>7. CASE p # doc.path
    <3>1. all = old
      BY <1>1, <1>2, <2>7
    <3>2. {New(o) : o \in RangeOf(old)} = {For(o) : o \in RangeOf(old)}
      BY <2>3
    <3>3. {New(o) : o \in RangeOf(all)} = OccurrencesIn(more, p)
      BY <2>1, <2>5, <2>7, <3>1, <3>2
    <3>4. \A i \in DOMAIN all : all[i].symbol \in DOMAIN names
      BY <2>3, <3>1 DEF RangeOf
    <3> QED BY <1>1, <3>3, <3>4 DEF New, all
  <2> QED BY <2>6, <2>7
<1> QED BY <1>4, <1>5, <1>6, <1>7

-----------------------------------------------------------------------------
(* `insert`: a declaration is new at its site, or known. *)

DeclarationOf(doc, row) ==
  [symbol |-> row.symbol, path |-> doc.path, range |-> row.range,
   encoding |-> doc.encoding, enclosing |-> row.enclosing,
   described |-> row.described, implements |-> row.implements]

LEMMA DeclarationFields ==
  ASSUME NEW doc \in Documents, NEW row \in RowSet, Readable(row)
  PROVE  /\ DeclarationOf(doc, row) \in Declarations
         /\ SiteOf(DeclarationOf(doc, row))
              = [symbol |-> row.symbol, path |-> doc.path, range |-> row.range]
<1>1. doc.path \in Paths /\ doc.encoding \in Encodings
  BY DocumentFields
<1>2. /\ row.symbol \in Symbols /\ row.range \in Ranges
      /\ row.enclosing \in Ranges \union {None}
      /\ row.described \in BOOLEAN /\ row.implements \in SUBSET Symbols
  BY RowFields DEF Readable
<1> QED BY <1>1, <1>2 DEF DeclarationOf, Declarations, SiteOf

LEMMA InsertFields ==
  ASSUME NEW ix \in Indexes, NEW def \in Declarations
  PROVE  LET new == Insert(ix, def)
         IN  /\ new \in Indexes
             /\ new.references = ix.references
             /\ new.paths = ix.paths
             /\ new.pathIds = ix.pathIds
             /\ new.occurrences = ix.occurrences
             /\ new.names = ix.names
             /\ new.definitions =
                  IF SiteOf(def) \in {SiteOf(known) : known \in RangeOf(ix.definitions)}
                  THEN ix.definitions ELSE Append(ix.definitions, def)
<1>1. CASE SiteOf(def) \in {SiteOf(known) : known \in RangeOf(ix.definitions)}
  BY <1>1 DEF Insert
<1>2. CASE SiteOf(def) \notin {SiteOf(known) : known \in RangeOf(ix.definitions)}
  <2> DEFINE more == Append(ix.definitions, def)
             new == Insert(ix, def)
  <2>1. new = [ix EXCEPT !.definitions = more]
    BY <1>2 DEF Insert
  <2>2. more \in Seq(Declarations)
    BY IndexFields
  <2> HIDE DEF more, new
  <2>3. /\ new.definitions = more
        /\ new.references = ix.references
        /\ new.paths = ix.paths
        /\ new.pathIds = ix.pathIds
        /\ new.occurrences = ix.occurrences
        /\ new.names = ix.names
    BY <2>1, IndexFields DEF Fields
  <2>4. new = [definitions |-> new.definitions, references |-> new.references,
               paths |-> new.paths, pathIds |-> new.pathIds,
               occurrences |-> new.occurrences, names |-> new.names]
    BY <2>1 DEF Indexes
  <2>5. new \in Indexes
    BY <2>2, <2>3, <2>4, IndexFields, IndexFromFields
  <2> QED BY <1>2, <2>3, <2>5 DEF new, more
<1> QED BY <1>1, <1>2

LEMMA AddedSites ==
  ASSUME NEW rows, NEW doc, NEW row \in RowSet, Readable(row)
  PROVE  LET site == [symbol |-> row.symbol, path |-> doc.path, range |-> row.range]
             more == rows \union {RowOf(doc, row)}
         IN  /\ row.definition => SitesIn(more) = SitesIn(rows) \union {site}
             /\ ~row.definition => SitesIn(more) = SitesIn(rows)
<1> DEFINE r == RowOf(doc, row)
           more == rows \union {r}
           For(k) == [symbol |-> k.row.symbol, path |-> k.path, range |-> k.row.range]
<1>1. KeptOf(more) = KeptOf(rows) \union {r}
  BY AddedToRows
<1>2. r.row = row /\ For(r) = [symbol |-> row.symbol, path |-> doc.path, range |-> row.range]
  BY DEF RowOf
<1>3. row.definition \in BOOLEAN
  BY RowFields
<1>4. SitesIn(more) = {For(k) : k \in {seen \in KeptOf(more) : seen.row.definition}}
      /\ SitesIn(rows) = {For(k) : k \in {seen \in KeptOf(rows) : seen.row.definition}}
  BY DEF SitesIn
<1> HIDE DEF r, more, For
<1>5. CASE row.definition
  <2>1. {seen \in KeptOf(more) : seen.row.definition}
          = {seen \in KeptOf(rows) : seen.row.definition} \union {r}
    BY <1>1, <1>2, <1>5
  <2>2. SitesIn(more) = SitesIn(rows) \union {For(r)}
    BY <1>4, <2>1
  <2> QED BY <1>2, <1>5, <2>2 DEF more, r
<1>6. CASE ~row.definition
  <2>1. {seen \in KeptOf(more) : seen.row.definition}
          = {seen \in KeptOf(rows) : seen.row.definition}
    BY <1>1, <1>2, <1>6
  <2>2. SitesIn(more) = SitesIn(rows)
    BY <1>4, <2>1
  <2> QED BY <1>6, <2>2 DEF more, r
<1> QED BY <1>5, <1>6

LEMMA AddedUses ==
  ASSUME NEW rows, NEW doc, NEW row \in RowSet, Readable(row), NEW s
  PROVE  LET use == [path |-> doc.path, range |-> row.range,
                     encoding |-> doc.encoding, import |-> row.import]
             more == rows \union {RowOf(doc, row)}
         IN  /\ row.symbol = s /\ ~row.definition => UsesIn(more, s) = UsesIn(rows, s) \union {use}
             /\ row.definition => UsesIn(more, s) = UsesIn(rows, s)
             /\ row.symbol # s => UsesIn(more, s) = UsesIn(rows, s)
<1> DEFINE r == RowOf(doc, row)
           more == rows \union {r}
           For(k) == [path |-> k.path, range |-> k.row.range,
                      encoding |-> k.encoding, import |-> k.row.import]
<1>1. KeptOf(more) = KeptOf(rows) \union {r}
  BY AddedToRows
<1>2. r.row = row /\ For(r) = [path |-> doc.path, range |-> row.range,
                               encoding |-> doc.encoding, import |-> row.import]
  BY DEF RowOf
<1>3. UsesIn(more, s)
        = {For(k) : k \in {seen \in KeptOf(more) : seen.row.symbol = s /\ ~seen.row.definition}}
      /\ UsesIn(rows, s)
        = {For(k) : k \in {seen \in KeptOf(rows) : seen.row.symbol = s /\ ~seen.row.definition}}
  BY DEF UsesIn
<1> HIDE DEF r, more, For
<1>4. CASE row.symbol = s /\ ~row.definition
  <2>1. {seen \in KeptOf(more) : seen.row.symbol = s /\ ~seen.row.definition}
          = {seen \in KeptOf(rows) : seen.row.symbol = s /\ ~seen.row.definition} \union {r}
    BY <1>1, <1>2, <1>4
  <2>2. UsesIn(more, s) = UsesIn(rows, s) \union {For(r)}
    BY <1>3, <2>1
  <2> QED BY <1>2, <1>4, <2>2 DEF more, r
<1>5. CASE ~(row.symbol = s /\ ~row.definition)
  <2>1. {seen \in KeptOf(more) : seen.row.symbol = s /\ ~seen.row.definition}
          = {seen \in KeptOf(rows) : seen.row.symbol = s /\ ~seen.row.definition}
    BY <1>1, <1>2, <1>5
  <2>2. UsesIn(more, s) = UsesIn(rows, s)
    BY <1>3, <2>1
  <2> QED BY <1>5, <2>2 DEF more, r
<1> QED BY <1>4, <1>5

LEMMA InsertHolds ==
  ASSUME NEW ix \in Indexes, NEW doc \in Documents, NEW row \in RowSet, Readable(row),
         row.definition, NEW rows, SitesHold(ix, rows), UsesHold(ix, rows)
  PROVE  LET new == Insert(ix, DeclarationOf(doc, row))
             more == rows \union {RowOf(doc, row)}
         IN  SitesHold(new, more) /\ UsesHold(new, more)
<1> DEFINE def == DeclarationOf(doc, row)
           new == Insert(ix, def)
           more == rows \union {RowOf(doc, row)}
           old == ix.definitions
<1>1. def \in Declarations
      /\ SiteOf(def) = [symbol |-> row.symbol, path |-> doc.path, range |-> row.range]
  BY DeclarationFields
<1>2. def.path = doc.path /\ def.encoding = doc.encoding
  BY DEF DeclarationOf
<1> HIDE DEF def
<1>3. /\ new.references = ix.references
      /\ new.paths = ix.paths
      /\ new.definitions =
           IF SiteOf(def) \in {SiteOf(known) : known \in RangeOf(old)}
           THEN old ELSE Append(old, def)
  BY <1>1, InsertFields, Zenon
<1>4. old \in Seq(Declarations)
  BY IndexFields
<1>5. SitesIn(more) = SitesIn(rows) \union {SiteOf(def)}
  <2>1. SitesIn(more)
          = SitesIn(rows) \union {[symbol |-> row.symbol, path |-> doc.path, range |-> row.range]}
    BY AddedSites
  <2> QED BY <1>1, <2>1
<1>6. \A s : UsesIn(more, s) = UsesIn(rows, s)
  <2> SUFFICES ASSUME NEW s PROVE UsesIn(more, s) = UsesIn(rows, s)
    OBVIOUS
  <2> QED BY AddedUses
<1> HIDE DEF new, more, old
<1>7. UsesHold(new, more)
  <2>1. \A s \in Symbols : ReferencesTo(new, s) = ReferencesTo(ix, s)
    BY <1>3 DEF ReferencesTo
  <2> QED BY <1>3, <1>6, <2>1 DEF UsesHold
<1>8. SitesHold(new, more)
  <2>1. /\ \A i, j \in DOMAIN old : SiteOf(old[i]) = SiteOf(old[j]) => i = j
        /\ {SiteOf(known) : known \in RangeOf(old)} = SitesIn(rows)
    BY DEF SitesHold, old
  <2>2. \A known \in RangeOf(old) : EncodingSeen(known, more)
    <3>1. \A known \in RangeOf(old) : EncodingSeen(known, rows)
      BY DEF SitesHold, old
    <3> QED BY <3>1, StillSeen DEF more
  <2>3. EncodingSeen(def, more)
    BY <1>2, StillSeen DEF more
  <2>4. CASE SiteOf(def) \in {SiteOf(known) : known \in RangeOf(old)}
    <3>1. new.definitions = old /\ SitesIn(more) = SitesIn(rows)
      BY <1>3, <1>5, <2>1, <2>4
    <3> QED BY <2>1, <2>2, <3>1 DEF SitesHold
  <2>5. CASE SiteOf(def) \notin {SiteOf(known) : known \in RangeOf(old)}
    <3> DEFINE t == Append(old, def)
    <3>1. new.definitions = t
      BY <1>3, <2>5
    <3>2. /\ DOMAIN t = 1 .. Len(old) + 1
          /\ \A i \in 1 .. Len(old) : t[i] = old[i]
          /\ t[Len(old) + 1] = def
          /\ RangeOf(t) = RangeOf(old) \union {def}
          /\ DOMAIN old = 1 .. Len(old) /\ Len(old) \in Nat
      BY <1>1, <1>4, AppendFacts
    <3> HIDE DEF t
    <3>3. \A i \in DOMAIN t : \/ i \in DOMAIN old /\ t[i] = old[i] /\ SiteOf(t[i]) # SiteOf(def)
                              \/ i = Len(old) + 1 /\ t[i] = def
      <4>1. \A i \in DOMAIN old : SiteOf(old[i]) # SiteOf(def)
        BY <2>5 DEF RangeOf
      <4>2. \A i \in DOMAIN t : i \in DOMAIN old \/ i = Len(old) + 1
        BY <3>2
      <4> QED BY <3>2, <4>1, <4>2
    <3>4. \A i, j \in DOMAIN t : SiteOf(t[i]) = SiteOf(t[j]) => i = j
      BY <2>1, <3>3
    <3>5. {SiteOf(known) : known \in RangeOf(t)} = SitesIn(more)
      BY <1>5, <2>1, <3>2
    <3>6. \A known \in RangeOf(t) : EncodingSeen(known, more)
      BY <2>2, <2>3, <3>2
    <3> QED BY <3>1, <3>4, <3>5, <3>6 DEF SitesHold
  <2> QED BY <2>4, <2>5
<1> QED BY <1>7, <1>8 DEF new, more, def

-----------------------------------------------------------------------------
(* `add_reference`: a use has its path's id, and what had an id before keeps it. *)

PathsWith(ix, p) == IF p \notin DOMAIN PathIds(ix) THEN Append(ix.paths, p) ELSE ix.paths

IdsWith(ix, p) ==
  [q \in DOMAIN PathIds(ix) \union {p} |->
     IF q \in DOMAIN PathIds(ix) THEN PathIds(ix)[q] ELSE Len(PathsWith(ix, p))]

UseOf(ix, doc, row) ==
  [path |-> IdsWith(ix, doc.path)[doc.path], range |-> row.range,
   encoding |-> doc.encoding, import |-> row.import]

LEMMA PathAddedTypes ==
  ASSUME NEW ix \in Indexes, NEW p \in Paths
  PROVE  /\ PathsWith(ix, p) \in Seq(Paths)
         /\ IdsWith(ix, p) \in UNION {[some -> Nat] : some \in SUBSET Paths}
         /\ p \in DOMAIN IdsWith(ix, p) /\ IdsWith(ix, p)[p] \in Nat
<1>1. ix.paths \in Seq(Paths)
  BY IndexFields
<1>2. PathsWith(ix, p) \in Seq(Paths)
  BY <1>1 DEF PathsWith
<1>3. Len(PathsWith(ix, p)) \in Nat
  BY <1>2
<1>4. DOMAIN PathIds(ix) \subseteq Paths /\ \A q \in DOMAIN PathIds(ix) : PathIds(ix)[q] \in Nat
  BY PathIdsFacts
<1> DEFINE some == DOMAIN PathIds(ix) \union {p}
<1>5. some \in SUBSET Paths /\ p \in some
  BY <1>4
<1>6. \A q \in some : (IF q \in DOMAIN PathIds(ix) THEN PathIds(ix)[q]
                       ELSE Len(PathsWith(ix, p))) \in Nat
  BY <1>3, <1>4
<1>7. IdsWith(ix, p) \in [some -> Nat]
  BY <1>6 DEF IdsWith
<1> HIDE DEF some
<1> QED BY <1>2, <1>5, <1>7

LEMMA PathAddedFacts ==
  ASSUME NEW ix \in Indexes, NEW p \in Paths, PathsHold(ix)
  PROVE  /\ Distinct(PathsWith(ix, p))
         /\ \A i \in DOMAIN ix.paths : /\ i \in DOMAIN PathsWith(ix, p)
                                       /\ PathsWith(ix, p)[i] = ix.paths[i]
         /\ DOMAIN IdsWith(ix, p) = RangeOf(PathsWith(ix, p))
         /\ \A q \in DOMAIN IdsWith(ix, p) :
              /\ IdsWith(ix, p)[q] \in DOMAIN PathsWith(ix, p)
              /\ PathsWith(ix, p)[IdsWith(ix, p)[q]] = q
<1> DEFINE ids == PathIds(ix)
           old == ix.paths
           new == PathsWith(ix, p)
           known == IdsWith(ix, p)
<1>1. /\ DOMAIN ids = RangeOf(old)
      /\ \A q \in DOMAIN ids : ids[q] \in DOMAIN old /\ old[ids[q]] = q
  BY PathIdsFacts
<1>2. new = IF p \notin DOMAIN ids THEN Append(old, p) ELSE old
  BY DEF PathsWith
<1>3. /\ DOMAIN known = DOMAIN ids \union {p}
      /\ \A q \in DOMAIN known : known[q] = IF q \in DOMAIN ids THEN ids[q] ELSE Len(new)
  BY DEF IdsWith
<1>4. old \in Seq(Paths) /\ Distinct(old)
  BY IndexFields DEF PathsHold
<1> HIDE DEF ids, old, new, known
<1>5. CASE p \in RangeOf(old)
  <2>1. new = old /\ DOMAIN known = RangeOf(old)
    BY <1>1, <1>2, <1>3, <1>5
  <2> QED BY <1>1, <1>3, <1>4, <2>1 DEF old, new, known
<1>6. CASE p \notin RangeOf(old)
  <2>1. new = Append(old, p)
    BY <1>1, <1>2, <1>6
  <2>2. /\ DOMAIN new = 1 .. Len(old) + 1 /\ Len(new) = Len(old) + 1
        /\ \A i \in 1 .. Len(old) : new[i] = old[i]
        /\ new[Len(old) + 1] = p
        /\ RangeOf(new) = RangeOf(old) \union {p}
        /\ DOMAIN old = 1 .. Len(old) /\ Len(old) \in Nat
    BY <1>4, <2>1, AppendFacts
  <2>3. \A i \in DOMAIN old : i \in DOMAIN new /\ new[i] = old[i] /\ new[i] # p
    BY <1>6, <2>2 DEF RangeOf
  <2>4. \A i \in DOMAIN new : i \in DOMAIN old \/ (i = Len(old) + 1 /\ new[i] = p)
    BY <2>2
  <2>5. Distinct(new)
    BY <1>4, <2>3, <2>4 DEF Distinct
  <2>6. DOMAIN known = RangeOf(new)
    BY <1>1, <1>3, <2>2
  <2>7. ASSUME NEW q \in DOMAIN known PROVE known[q] \in DOMAIN new /\ new[known[q]] = q
    <3>1. CASE q \in DOMAIN ids
      BY <1>1, <1>3, <2>3, <3>1
    <3>2. CASE q \notin DOMAIN ids
      BY <1>3, <2>2, <3>2
    <3> QED BY <3>1, <3>2
  <2> QED BY <2>3, <2>5, <2>6, <2>7 DEF old, new, known
<1> QED BY <1>5, <1>6

LEMMA AddReferenceFields ==
  ASSUME NEW ix \in Indexes, NEW doc \in Documents, NEW row \in RowSet, Readable(row)
  PROVE  LET new == AddReference(ix, doc, row)
             use == UseOf(ix, doc, row)
         IN  /\ new \in Indexes
             /\ use \in UseRows
             /\ new.definitions = ix.definitions
             /\ new.references = [ix.references EXCEPT ![row.symbol] = Append(@, use)]
             /\ new.paths = PathsWith(ix, doc.path)
             /\ new.pathIds = IdsWith(ix, doc.path)
             /\ new.occurrences = ix.occurrences
             /\ new.names = ix.names
<1> DEFINE new == AddReference(ix, doc, row)
           use == UseOf(ix, doc, row)
           table == [ix.references EXCEPT ![row.symbol] = Append(@, use)]
           paths == PathsWith(ix, doc.path)
           ids == IdsWith(ix, doc.path)
<1>1. /\ doc.path \in Paths /\ doc.encoding \in Encodings
      /\ row.symbol \in Symbols /\ row.range \in Ranges /\ row.import \in BOOLEAN
  BY DocumentFields, RowFields DEF Readable
<1>2. /\ paths \in Seq(Paths)
      /\ ids \in UNION {[some -> Nat] : some \in SUBSET Paths}
      /\ ids[doc.path] \in Nat
  BY <1>1, PathAddedTypes
<1>3. use \in UseRows
  <2> HIDE DEF ids
  <2>1. use = [path |-> ids[doc.path], range |-> row.range,
               encoding |-> doc.encoding, import |-> row.import]
    BY DEF UseOf, ids
  <2> HIDE DEF use
  <2> QED BY <1>1, <1>2, <2>1 DEF UseRows
<1>4. table \in [Symbols -> Seq(UseRows)]
  <2>1. ix.references \in [Symbols -> Seq(UseRows)]
    BY IndexFields
  <2> HIDE DEF use
  <2> QED BY <1>1, <1>3, <2>1
<1>5. new = [ix EXCEPT !.paths = paths, !.pathIds = ids, !.references = table]
  <2>1. new = [ix EXCEPT !.paths = paths, !.pathIds = ids,
                         !.references[row.symbol] = Append(@, use)]
    BY DEF AddReference, UseOf, PathsWith, IdsWith
  <2>2. DOMAIN ix = Fields
    BY IndexFields
  <2> HIDE DEF use, paths, ids, new
  <2> QED BY <2>1, <2>2 DEF Fields
<1> HIDE DEF new, use, table, paths, ids
<1>6. /\ new.definitions = ix.definitions
      /\ new.references = table
      /\ new.paths = paths
      /\ new.pathIds = ids
      /\ new.occurrences = ix.occurrences
      /\ new.names = ix.names
  BY <1>5, IndexFields DEF Fields
<1>7. new = [definitions |-> new.definitions, references |-> new.references,
             paths |-> new.paths, pathIds |-> new.pathIds,
             occurrences |-> new.occurrences, names |-> new.names]
  BY <1>5 DEF Indexes
<1>8. new \in Indexes
  BY <1>2, <1>4, <1>6, <1>7, IndexFields, IndexFromFields
<1> QED BY <1>3, <1>6, <1>8 DEF new, use, table, paths, ids

NamedUse(paths, use) == [use EXCEPT !.path = paths[@]]

LEMMA ReferencesRange ==
  ASSUME NEW ix, NEW s
  PROVE  RangeOf(ReferencesTo(ix, s)) = {NamedUse(ix.paths, use) : use \in RangeOf(ix.references[s])}
BY DEF ReferencesTo, RangeOf, NamedUse

LEMMA UseOfNamed ==
  ASSUME NEW ix \in Indexes, NEW doc \in Documents, NEW row \in RowSet, Readable(row), PathsHold(ix)
  PROVE  /\ UseOf(ix, doc, row).path \in DOMAIN PathsWith(ix, doc.path)
         /\ NamedUse(PathsWith(ix, doc.path), UseOf(ix, doc, row))
              = [path |-> doc.path, range |-> row.range,
                 encoding |-> doc.encoding, import |-> row.import]
<1> DEFINE paths == PathsWith(ix, doc.path)
           ids == IdsWith(ix, doc.path)
           use == UseOf(ix, doc, row)
           p == doc.path
<1>1. p \in Paths
  BY DocumentFields
<1>2. p \in DOMAIN ids
  BY <1>1, PathAddedTypes
<1>3. ids[p] \in DOMAIN paths /\ paths[ids[p]] = p
  <2> HIDE DEF p
  <2> QED BY <1>1, <1>2, PathAddedFacts DEF p
<1>4. use = [path |-> ids[p], range |-> row.range,
             encoding |-> doc.encoding, import |-> row.import]
  BY DEF UseOf
<1> HIDE DEF paths, ids, use, p
<1>5. use.path \in DOMAIN paths
  BY <1>3, <1>4
<1>6. NamedUse(paths, use) = [path |-> p, range |-> row.range,
                              encoding |-> doc.encoding, import |-> row.import]
  BY <1>3, <1>4 DEF NamedUse
<1> QED BY <1>5, <1>6 DEF paths, use, p

LEMMA AddReferenceHolds ==
  ASSUME NEW ix \in Indexes, NEW doc \in Documents, NEW row \in RowSet, Readable(row),
         ~row.definition, NEW rows, PathsHold(ix), SitesHold(ix, rows), UsesHold(ix, rows)
  PROVE  LET new == AddReference(ix, doc, row)
             more == rows \union {RowOf(doc, row)}
         IN  PathsHold(new) /\ SitesHold(new, more) /\ UsesHold(new, more)
<1> DEFINE new == AddReference(ix, doc, row)
           more == rows \union {RowOf(doc, row)}
           use == UseOf(ix, doc, row)
           paths == PathsWith(ix, doc.path)
           ids == IdsWith(ix, doc.path)
           said == [path |-> doc.path, range |-> row.range,
                    encoding |-> doc.encoding, import |-> row.import]
<1>1. /\ use \in UseRows
      /\ new.definitions = ix.definitions
      /\ new.references = [ix.references EXCEPT ![row.symbol] = Append(@, use)]
      /\ new.paths = paths
      /\ new.pathIds = ids
  BY AddReferenceFields, Zenon
<1>2. /\ doc.path \in Paths /\ row.symbol \in Symbols
      /\ ix.references \in [Symbols -> Seq(UseRows)]
  BY DocumentFields, RowFields, IndexFields
<1>3. /\ Distinct(paths)
      /\ \A i \in DOMAIN ix.paths : i \in DOMAIN paths /\ paths[i] = ix.paths[i]
      /\ DOMAIN ids = RangeOf(paths)
      /\ \A q \in DOMAIN ids : ids[q] \in DOMAIN paths /\ paths[ids[q]] = q
  <2> DEFINE p == doc.path
  <2>1. p \in Paths
    BY <1>2
  <2> HIDE DEF p
  <2>2. /\ Distinct(PathsWith(ix, p))
        /\ \A i \in DOMAIN ix.paths : /\ i \in DOMAIN PathsWith(ix, p)
                                      /\ PathsWith(ix, p)[i] = ix.paths[i]
        /\ DOMAIN IdsWith(ix, p) = RangeOf(PathsWith(ix, p))
        /\ \A q \in DOMAIN IdsWith(ix, p) :
             /\ IdsWith(ix, p)[q] \in DOMAIN PathsWith(ix, p)
             /\ PathsWith(ix, p)[IdsWith(ix, p)[q]] = q
    BY <2>1, PathAddedFacts
  <2> QED BY <2>2 DEF p
<1>4. use.path \in DOMAIN paths /\ NamedUse(paths, use) = said
  BY UseOfNamed
<1>5. \A s : /\ row.symbol = s => UsesIn(more, s) = UsesIn(rows, s) \union {said}
             /\ row.symbol # s => UsesIn(more, s) = UsesIn(rows, s)
  <2> SUFFICES ASSUME NEW s
               PROVE  /\ row.symbol = s => UsesIn(more, s) = UsesIn(rows, s) \union {said}
                      /\ row.symbol # s => UsesIn(more, s) = UsesIn(rows, s)
    OBVIOUS
  <2> QED BY AddedUses
<1>6. SitesIn(more) = SitesIn(rows)
  BY AddedSites
<1> HIDE DEF new, more, use, paths, ids, said
<1>7. PathsHold(new)
  BY <1>1, <1>3 DEF PathsHold
<1>8. \A def : EncodingSeen(def, rows) => EncodingSeen(def, more)
  BY StillSeen DEF more
<1>9. SitesHold(new, more)
  BY <1>1, <1>6, <1>8 DEF SitesHold
<1>10. UsesHold(new, more)
  <2> SUFFICES ASSUME NEW s \in Symbols
               PROVE  /\ \A i \in DOMAIN new.references[s] :
                           new.references[s][i].path \in DOMAIN new.paths
                      /\ RangeOf(ReferencesTo(new, s)) = UsesIn(more, s)
    BY DEF UsesHold
  <2> DEFINE old == ix.references[s]
             all == new.references[s]
  <2>1. /\ \A i \in DOMAIN old : old[i].path \in DOMAIN ix.paths
        /\ {NamedUse(ix.paths, u) : u \in RangeOf(old)} = UsesIn(rows, s)
    BY ReferencesRange DEF UsesHold
  <2>2. old \in Seq(UseRows)
    BY <1>2
  <2>3. \A u \in RangeOf(old) : /\ u.path \in DOMAIN paths
                                /\ NamedUse(paths, u) = NamedUse(ix.paths, u)
    <3>1. \A u \in RangeOf(old) : u.path \in DOMAIN ix.paths
      BY <2>1 DEF RangeOf
    <3>2. \A u \in RangeOf(old) : u \in UseRows
      BY <2>2 DEF RangeOf
    <3> HIDE DEF old
    <3>3. \A u \in RangeOf(old) : u.path \in DOMAIN paths /\ paths[u.path] = ix.paths[u.path]
      BY <1>3, <3>1
    <3> QED BY <3>2, <3>3 DEF NamedUse, UseRows
  <2>4. RangeOf(ReferencesTo(new, s)) = {NamedUse(paths, u) : u \in RangeOf(all)}
    <3>1. RangeOf(ReferencesTo(new, s)) = {NamedUse(new.paths, u) : u \in RangeOf(all)}
      BY ReferencesRange, Zenon
    <3>2. new.paths = paths
      BY <1>1
    <3> QED BY <3>1, <3>2, Zenon
  <2>5. CASE row.symbol = s
    <3>1. all = Append(old, use)
      BY <1>1, <1>2, <2>5
    <3>2. RangeOf(all) = RangeOf(old) \union {use}
      <4> HIDE DEF all, old
      <4> QED BY <1>1, <2>2, <3>1, AppendFacts
    <3> HIDE DEF old
    <3>3. \A u \in RangeOf(all) : u.path \in DOMAIN paths
      BY <1>4, <2>3, <3>2
    <3>4. {NamedUse(paths, u) : u \in RangeOf(all)} = UsesIn(rows, s) \union {said}
      BY <1>4, <2>1, <2>3, <3>2
    <3>5. \A i \in DOMAIN all : all[i].path \in DOMAIN new.paths
      BY <1>1, <3>3 DEF RangeOf
    <3> QED BY <1>5, <2>4, <2>5, <3>4, <3>5
  <2>6. CASE row.symbol # s
    <3>1. all = old
      BY <1>1, <1>2, <2>6
    <3> HIDE DEF old, all
    <3>2. {NamedUse(paths, u) : u \in RangeOf(all)} = UsesIn(rows, s)
      BY <2>1, <2>3, <3>1
    <3>3. \A i \in DOMAIN all : all[i].path \in DOMAIN new.paths
      BY <1>1, <2>3, <3>1 DEF RangeOf
    <3> QED BY <1>5, <2>4, <2>6, <3>2, <3>3 DEF all
  <2> QED BY <2>5, <2>6
<1> QED BY <1>7, <1>9, <1>10 DEF new, more

-----------------------------------------------------------------------------
(* A row of a document. *)

LEMMA AddRowCases ==
  ASSUME NEW ix, NEW doc, NEW row \in RowSet
  PROVE  /\ ~Readable(row) => AddRow(ix, doc, row) = ix
         /\ (Readable(row) /\ row.definition) =>
              AddRow(ix, doc, row) = Insert(Noted(ix, doc, row), DeclarationOf(doc, row))
         /\ (Readable(row) /\ ~row.definition) =>
              AddRow(ix, doc, row) = AddReference(Noted(ix, doc, row), doc, row)
<1>1. row.definition \in BOOLEAN
  BY RowFields
<1>2. CASE ~Readable(row)
  BY <1>2 DEF AddRow, Readable
<1>3. CASE Readable(row)
  <2>1. AddRow(ix, doc, row) =
          IF row.definition
          THEN Insert(Noted(ix, doc, row), DeclarationOf(doc, row))
          ELSE AddReference(Noted(ix, doc, row), doc, row)
    BY <1>3, Zenon DEF AddRow, Readable, Noted, DeclarationOf
  <2> QED BY <1>1, <1>3, <2>1, Zenon
<1> QED BY <1>2, <1>3

LEMMA AddRowFields ==
  ASSUME NEW ix \in Indexes, NEW doc \in Documents, NEW row \in RowSet
  PROVE  LET new == AddRow(ix, doc, row)
         IN  /\ new \in Indexes
             /\ \A p \in Paths : p # doc.path => new.occurrences[p] = ix.occurrences[p]
             /\ \A s \in Symbols : (row.definition \/ row.symbol # s) =>
                  new.references[s] = ix.references[s]
<1> DEFINE new == AddRow(ix, doc, row)
<1>1. CASE ~Readable(row)
  <2>1. new = ix
    BY <1>1, AddRowCases
  <2> QED BY <2>1
<1>2. CASE Readable(row)
  <2> DEFINE noted == Noted(ix, doc, row)
             entry == [range |-> row.range, symbol |-> IdIn(Interned(ix.names, row.symbol), row.symbol)]
             def == DeclarationOf(doc, row)
             use == UseOf(noted, doc, row)
  <2>1. /\ noted \in Indexes
        /\ noted.references = ix.references
        /\ noted.occurrences = [ix.occurrences EXCEPT ![doc.path] = Append(@, entry)]
    BY <1>2, NotedFields, Zenon
  <2>2. def \in Declarations
    BY <1>2, DeclarationFields
  <2>3. /\ ix.occurrences \in [Paths -> Seq(OccurrenceRows)]
        /\ ix.references \in [Symbols -> Seq(UseRows)]
        /\ row.definition \in BOOLEAN /\ row.symbol \in Symbols
    BY IndexFields, RowFields
  <2> HIDE DEF noted, entry, def, use
  <2>4. \A p \in Paths : p # doc.path => noted.occurrences[p] = ix.occurrences[p]
    BY <2>1, <2>3
  <2>5. CASE row.definition
    <3>1. new = Insert(noted, def)
      BY <1>2, <2>5, AddRowCases DEF noted, def
    <3>2. /\ new \in Indexes
          /\ new.references = noted.references
          /\ new.occurrences = noted.occurrences
      <4> HIDE DEF new
      <4> QED BY <2>1, <2>2, <3>1, InsertFields
    <3> HIDE DEF new
    <3> QED BY <2>1, <2>4, <3>2 DEF new
  <2>6. CASE ~row.definition
    <3>1. new = AddReference(noted, doc, row)
      BY <1>2, <2>6, AddRowCases DEF noted
    <3>2. /\ new \in Indexes
          /\ new.references = [noted.references EXCEPT ![row.symbol] = Append(@, use)]
          /\ new.occurrences = noted.occurrences
      <4> HIDE DEF new
      <4> QED BY <1>2, <2>1, <3>1, AddReferenceFields DEF use
    <3> HIDE DEF new
    <3>3. \A s \in Symbols : row.symbol # s => new.references[s] = ix.references[s]
      BY <2>1, <2>3, <3>2
    <3> QED BY <2>1, <2>4, <2>6, <3>2, <3>3 DEF new
  <2> QED BY <2>3, <2>5, <2>6
<1> QED BY <1>1, <1>2

(* What the index has of the rows so far, it has of this one too. *)
LEMMA AddRowHolds ==
  ASSUME NEW ix \in Indexes, NEW doc \in Documents, NEW row \in RowSet,
         NEW rows, Holds(ix, rows)
  PROVE  Holds(AddRow(ix, doc, row), rows \union {RowOf(doc, row)})
<1> DEFINE new == AddRow(ix, doc, row)
           more == rows \union {RowOf(doc, row)}
<1>1. CASE ~Readable(row)
  <2>1. new = ix
    BY <1>1, AddRowCases
  <2>2. KeptOf(more) = KeptOf(rows)
    BY <1>1, AddedToRows
  <2>3. SitesIn(more) = SitesIn(rows)
    BY <2>2, Zenon DEF SitesIn
  <2>4. \A s : UsesIn(more, s) = UsesIn(rows, s)
    BY <2>2, Zenon DEF UsesIn
  <2>5. \A p : OccurrencesIn(more, p) = OccurrencesIn(rows, p)
    BY <2>2, Zenon DEF OccurrencesIn
  <2> HIDE DEF new, more
  <2>6. \A def : EncodingSeen(def, rows) => EncodingSeen(def, more)
    BY <2>2 DEF EncodingSeen
  <2>7. SitesHold(ix, more) /\ UsesHold(ix, more) /\ OccurrencesHold(ix, more)
    BY <2>3, <2>4, <2>5, <2>6 DEF Holds, SitesHold, UsesHold, OccurrencesHold
  <2>8. Holds(new, more)
    BY <2>1, <2>7, Zenon DEF Holds
  <2> QED BY <2>8 DEF new, more
<1>2. CASE Readable(row)
  <2> DEFINE noted == Noted(ix, doc, row)
             def == DeclarationOf(doc, row)
             use == UseOf(noted, doc, row)
  <2>1. noted \in Indexes
    BY <1>2, NotedFields, Zenon
  <2>2. def \in Declarations
    BY <1>2, DeclarationFields
  <2>3. /\ PathsHold(noted)
        /\ NamesHold(noted)
        /\ SitesHold(noted, rows)
        /\ UsesHold(noted, rows)
        /\ OccurrencesHold(noted, more)
    BY <1>2, NotedHolds, Zenon
  <2>4. row.definition \in BOOLEAN
    BY RowFields
  <2>5. CASE row.definition
    <3>1. new = Insert(noted, def)
      BY <1>2, <2>5, AddRowCases
    <3>2. SitesHold(new, more) /\ UsesHold(new, more)
      <4>1. SitesHold(Insert(noted, def), more) /\ UsesHold(Insert(noted, def), more)
        <5> HIDE DEF noted
        <5> QED BY <1>2, <2>1, <2>3, <2>5, InsertHolds
      <4> QED BY <3>1, <4>1, Zenon
    <3> HIDE DEF new, more, noted, def
    <3>3. /\ new.paths = noted.paths
          /\ new.pathIds = noted.pathIds
          /\ new.occurrences = noted.occurrences
          /\ new.names = noted.names
      BY <2>1, <2>2, <3>1, InsertFields
    <3>4. PathsHold(new) /\ NamesHold(new) /\ OccurrencesHold(new, more)
      BY <2>3, <3>3 DEF PathsHold, NamesHold, OccurrencesHold
    <3>5. Holds(new, more)
      BY <3>2, <3>4 DEF Holds
    <3> QED BY <3>5 DEF new, more
  <2>6. CASE ~row.definition
    <3>1. new = AddReference(noted, doc, row)
      BY <1>2, <2>6, AddRowCases
    <3>2. PathsHold(new) /\ SitesHold(new, more) /\ UsesHold(new, more)
      <4>1. LET added == AddReference(noted, doc, row)
            IN  PathsHold(added) /\ SitesHold(added, more) /\ UsesHold(added, more)
        <5> HIDE DEF noted
        <5> QED BY <1>2, <2>1, <2>3, <2>6, AddReferenceHolds
      <4> QED BY <3>1, <4>1, Zenon
    <3> HIDE DEF new, more, noted
    <3>3. new.occurrences = noted.occurrences /\ new.names = noted.names
      BY <1>2, <2>1, <3>1, AddReferenceFields
    <3>4. NamesHold(new) /\ OccurrencesHold(new, more)
      BY <2>3, <3>3 DEF NamesHold, OccurrencesHold
    <3>5. Holds(new, more)
      BY <3>2, <3>4 DEF Holds
    <3> QED BY <3>5 DEF new, more
  <2> QED BY <2>4, <2>5, <2>6
<1> QED BY <1>1, <1>2

-----------------------------------------------------------------------------
(* The occurrences of a document, once each and in source order. *)

InSourceOrder(s) ==
  \A i, j \in DOMAIN s : i < j => ~Less(SourceKey(s[j]), SourceKey(s[i]))

SourceOrdered(s) == Deduplicated(SortedBy(s, [o \in RangeOf(s) |-> SourceKey(o)]))

LEMMA SourceKeyType ==
  ASSUME NEW o \in OccurrenceRows
  PROVE  SourceKey(o) \in [1 .. 5 -> Int]
<1>1. /\ o.range.startLine \in Int /\ o.range.startCol \in Int
      /\ o.range.endLine \in Int /\ o.range.endCol \in Int /\ o.symbol \in Int
  BY DEF OccurrenceRows, Ranges
<1> DEFINE key == <<o.range.startLine, o.range.startCol, o.range.endLine, o.range.endCol, o.symbol>>
<1>2. key \in [1 .. 5 -> Int]
  BY <1>1
<1> QED BY <1>2 DEF SourceKey

LEMMA SourceOrderedFacts ==
  ASSUME NEW s \in Seq(OccurrenceRows)
  PROVE  /\ SourceOrdered(s) \in Seq(OccurrenceRows)
         /\ RangeOf(SourceOrdered(s)) = RangeOf(s)
         /\ Distinct(SourceOrdered(s))
         /\ InSourceOrder(SourceOrdered(s))
<1> DEFINE S == RangeOf(s)
           key == [o \in S |-> SourceKey(o)]
           sorted == SortedBy(s, key)
           once == Deduplicated(sorted)
<1>1. S \subseteq OccurrenceRows
  BY DEF RangeOf
<1>2. s \in Seq(S)
  BY DEF RangeOf
<1>3. Linear(key, S)
  <2>1. Keys(key, S, 5)
    BY <1>1, SourceKeyType DEF Keys
  <2> HIDE DEF key, S
  <2> QED BY <2>1, KeysAreLinear
<1>4. \A o \in S : key[o] = SourceKey(o)
  OBVIOUS
<1>5. once = SourceOrdered(s)
  BY DEF SourceOrdered
<1>6. S = RangeOf(s)
  OBVIOUS
<1> HIDE DEF S, key, once
<1>7. sorted \in Seq(S) /\ RangeOf(sorted) = S /\ Ordered(sorted, key)
  BY <1>2, <1>3, <1>6, SortedByFacts
<1> HIDE DEF sorted
<1>8. once \in Seq(S) /\ RangeOf(once) = S /\ Distinct(once)
      /\ InOrderOf(once, sorted, Len(sorted))
  BY <1>7, DeduplicatedFacts DEF once
<1>9. once \in Seq(OccurrenceRows)
  BY <1>1, <1>8
<1>10. InSourceOrder(once)
  <2> SUFFICES ASSUME NEW i \in DOMAIN once, NEW j \in DOMAIN once, i < j
               PROVE  ~Less(SourceKey(once[j]), SourceKey(once[i]))
    BY DEF InSourceOrder
  <2>1. PICK k, m \in 1 .. Len(sorted) : k < m /\ once[i] = sorted[k] /\ once[j] = sorted[m]
    BY <1>8 DEF InOrderOf
  <2>2. DOMAIN sorted = 1 .. Len(sorted)
    BY <1>7
  <2>3. ~Less(key[sorted[m]], key[sorted[k]])
    BY <1>7, <2>1, <2>2 DEF Ordered
  <2>4. sorted[m] \in S /\ sorted[k] \in S
    BY <1>7, <2>2
  <2> QED BY <1>4, <2>1, <2>3, <2>4
<1> QED BY <1>5, <1>6, <1>8, <1>9, <1>10

Tidy(ix) ==
  \A p \in Paths : Distinct(ix.occurrences[p]) /\ InSourceOrder(ix.occurrences[p])

Tidied(ix, p) == [ix EXCEPT !.occurrences[p] = SourceOrdered(@)]

LEMMA TidiedFields ==
  ASSUME NEW ix \in Indexes, NEW p \in Paths
  PROVE  LET new == Tidied(ix, p)
         IN  /\ new \in Indexes
             /\ new.definitions = ix.definitions
             /\ new.references = ix.references
             /\ new.paths = ix.paths
             /\ new.pathIds = ix.pathIds
             /\ new.names = ix.names
             /\ new.occurrences = [ix.occurrences EXCEPT ![p] = SourceOrdered(@)]
<1> DEFINE new == Tidied(ix, p)
           table == [ix.occurrences EXCEPT ![p] = SourceOrdered(@)]
<1>1. table \in [Paths -> Seq(OccurrenceRows)]
  <2>1. ix.occurrences \in [Paths -> Seq(OccurrenceRows)]
    BY IndexFields
  <2>2. SourceOrdered(ix.occurrences[p]) \in Seq(OccurrenceRows)
    BY <2>1, SourceOrderedFacts
  <2> QED BY <2>1, <2>2
<1>2. new = [ix EXCEPT !.occurrences = table]
  <2>1. DOMAIN ix = Fields
    BY IndexFields
  <2> QED BY <2>1 DEF Tidied, Fields
<1> HIDE DEF new, table
<1>3. /\ new.definitions = ix.definitions
      /\ new.references = ix.references
      /\ new.paths = ix.paths
      /\ new.pathIds = ix.pathIds
      /\ new.names = ix.names
      /\ new.occurrences = table
  BY <1>2, IndexFields DEF Fields
<1>4. new = [definitions |-> new.definitions, references |-> new.references,
             paths |-> new.paths, pathIds |-> new.pathIds,
             occurrences |-> new.occurrences, names |-> new.names]
  BY <1>2 DEF Indexes
<1>5. new \in Indexes
  BY <1>1, <1>3, <1>4, IndexFields, IndexFromFields
<1> QED BY <1>3, <1>5 DEF new, table

LEMMA TidiedHolds ==
  ASSUME NEW ix \in Indexes, NEW p \in Paths, NEW rows
  PROVE  /\ Holds(ix, rows) => Holds(Tidied(ix, p), rows)
         /\ \A q \in Paths : q # p => Tidied(ix, p).occurrences[q] = ix.occurrences[q]
         /\ Distinct(Tidied(ix, p).occurrences[p])
         /\ InSourceOrder(Tidied(ix, p).occurrences[p])
<1> DEFINE new == Tidied(ix, p)
<1>1. /\ new.definitions = ix.definitions
      /\ new.references = ix.references
      /\ new.paths = ix.paths
      /\ new.pathIds = ix.pathIds
      /\ new.names = ix.names
      /\ new.occurrences = [ix.occurrences EXCEPT ![p] = SourceOrdered(@)]
  BY TidiedFields, Zenon
<1>2. ix.occurrences \in [Paths -> Seq(OccurrenceRows)]
  BY IndexFields
<1> HIDE DEF new
<1>3. /\ \A q \in Paths : q # p => new.occurrences[q] = ix.occurrences[q]
      /\ new.occurrences[p] = SourceOrdered(ix.occurrences[p])
  BY <1>1, <1>2
<1>4. /\ RangeOf(new.occurrences[p]) = RangeOf(ix.occurrences[p])
      /\ Distinct(new.occurrences[p])
      /\ InSourceOrder(new.occurrences[p])
  BY <1>2, <1>3, SourceOrderedFacts
<1>5. ASSUME Holds(ix, rows) PROVE Holds(new, rows)
  <2>1. PathsHold(new) /\ NamesHold(new) /\ SitesHold(new, rows)
    BY <1>1, <1>5 DEF Holds, PathsHold, NamesHold, SitesHold
  <2>2. UsesHold(new, rows)
    <3>1. \A s \in Symbols : ReferencesTo(new, s) = ReferencesTo(ix, s)
      BY <1>1 DEF ReferencesTo
    <3> QED BY <1>1, <1>5, <3>1 DEF Holds, UsesHold
  <2>3. OccurrencesHold(new, rows)
    <3> SUFFICES ASSUME NEW q \in Paths
                 PROVE  /\ \A i \in DOMAIN new.occurrences[q] :
                             new.occurrences[q][i].symbol \in DOMAIN new.names
                        /\ {[range |-> o.range, symbol |-> new.names[o.symbol]] :
                              o \in RangeOf(new.occurrences[q])} = OccurrencesIn(rows, q)
      BY DEF OccurrencesHold
    <3>1. RangeOf(new.occurrences[q]) = RangeOf(ix.occurrences[q])
      BY <1>3, <1>4
    <3>2. /\ \A i \in DOMAIN ix.occurrences[q] : ix.occurrences[q][i].symbol \in DOMAIN ix.names
          /\ {[range |-> o.range, symbol |-> ix.names[o.symbol]] :
                o \in RangeOf(ix.occurrences[q])} = OccurrencesIn(rows, q)
      BY <1>5 DEF Holds, OccurrencesHold
    <3>3. \A o \in RangeOf(ix.occurrences[q]) : o.symbol \in DOMAIN ix.names
      BY <3>2 DEF RangeOf
    <3>4. \A i \in DOMAIN new.occurrences[q] : new.occurrences[q][i] \in RangeOf(new.occurrences[q])
      BY DEF RangeOf
    <3>5. \A i \in DOMAIN new.occurrences[q] : new.occurrences[q][i].symbol \in DOMAIN ix.names
      BY <3>1, <3>3, <3>4
    <3> QED BY <1>1, <3>1, <3>2, <3>5
  <2> QED BY <2>1, <2>2, <2>3 DEF Holds
<1> QED BY <1>3, <1>4, <1>5 DEF new

-----------------------------------------------------------------------------
(* `add_document`. *)

DocumentRows(doc) == {RowOf(doc, doc.rows[i]) : i \in DOMAIN doc.rows}

(* The symbols a document uses, whose references it may add to. *)
UsedIn(doc) == {row.symbol : row \in {r \in RangeOf(doc.rows) : ~r.definition}}

AddRowStep(ix, doc, added, i) ==
  IF i = 0 THEN ix ELSE AddRow(added[i - 1], doc, doc.rows[i])

LEMMA AddDocumentDef ==
  ASSUME NEW ix \in Indexes, NEW doc \in Documents
  PROVE  \E added : /\ added = [i \in 0 .. Len(doc.rows) |-> AddRowStep(ix, doc, added, i)]
                    /\ AddDocument(ix, doc) = Tidied(added[Len(doc.rows)], doc.path)
<1> DEFINE n == Len(doc.rows)
           g == [i \in 1 .. n |-> [x \in Indexes |-> AddRow(x, doc, doc.rows[i])]]
<1>1. n \in Nat /\ \A i \in 1 .. n : doc.rows[i] \in RowSet
  BY DocumentFields
<1>2. \A i \in 1 .. n, x \in Indexes : AddRow(x, doc, doc.rows[i]) \in Indexes
  BY <1>1, AddRowFields
<1>3. g \in [1 .. n -> [Indexes -> Indexes]]
  <2> HIDE DEF n
  <2> QED BY <1>2
<1>4. \A i \in 1 .. n, x \in Indexes : g[i][x] = AddRow(x, doc, doc.rows[i])
  OBVIOUS
<1> HIDE DEF g, n
<1>5. PICK f : Iterates(f, n, Indexes, ix, g)
  BY <1>1, <1>3, Recursion
<1>6. f = [i \in 0 .. n |-> AddRowStep(ix, doc, f, i)]
  <2> SUFFICES ASSUME NEW i \in 0 .. n PROVE f[i] = AddRowStep(ix, doc, f, i)
    BY <1>5 DEF Iterates
  <2>1. i # 0 => i \in 1 .. n /\ f[i - 1] \in Indexes
    BY <1>1, <1>5 DEF Iterates
  <2>2. i # 0 => g[i][f[i - 1]] = AddRowStep(ix, doc, f, i)
    BY <1>4, <2>1 DEF AddRowStep
  <2>3. f[i] = IF i = 0 THEN ix ELSE g[i][f[i - 1]]
    BY <1>5, <2>1 DEF Iterates
  <2> QED BY <2>2, <2>3 DEF AddRowStep
<1> DEFINE added[i \in 0 .. Len(doc.rows)] ==
        IF i = 0 THEN ix ELSE AddRow(added[i - 1], doc, doc.rows[i])
<1>7. added = [i \in 0 .. Len(doc.rows) |-> AddRowStep(ix, doc, added, i)]
  BY <1>6, Zenon DEF AddRowStep, n
<1>8. AddDocument(ix, doc) = Tidied(added[Len(doc.rows)], doc.path)
  BY Zenon DEF AddDocument, Tidied, SourceOrdered
<1> QED BY <1>7, <1>8, Zenon

(* A document adds its rows and leaves the tables in order. *)
LEMMA AddDocumentFacts ==
  ASSUME NEW ix \in Indexes, NEW doc \in Documents, NEW rows
  PROVE  LET new == AddDocument(ix, doc)
         IN  /\ new \in Indexes
             /\ Holds(ix, rows) => Holds(new, rows \union DocumentRows(doc))
             /\ Tidy(ix) => Tidy(new)
             /\ \A s \in Symbols \ UsedIn(doc) : new.references[s] = ix.references[s]
<1> DEFINE n == Len(doc.rows)
           new == AddDocument(ix, doc)
           RowsTo(i) == {RowOf(doc, doc.rows[j]) : j \in 1 .. i}
<1>1. PICK added : /\ added = [i \in 0 .. n |-> AddRowStep(ix, doc, added, i)]
                   /\ new = Tidied(added[n], doc.path)
  BY AddDocumentDef
<1>2. /\ n \in Nat /\ DOMAIN doc.rows = 1 .. n
      /\ \A i \in 1 .. n : doc.rows[i] \in RowSet
      /\ doc.path \in Paths
  BY DocumentFields
<1> HIDE DEF n, new
<1> DEFINE P(i) ==
             /\ added[i] \in Indexes
             /\ Holds(ix, rows) => Holds(added[i], rows \union RowsTo(i))
             /\ \A p \in Paths : p # doc.path => added[i].occurrences[p] = ix.occurrences[p]
             /\ \A s \in Symbols \ UsedIn(doc) : added[i].references[s] = ix.references[s]
           T == {i \in 0 .. n : P(i)}
<1>3. 0 \in T
  <2>1. added[0] = AddRowStep(ix, doc, added, 0) /\ 0 \in 0 .. n
    BY <1>1, <1>2
  <2>2. added[0] = ix
    BY <2>1 DEF AddRowStep
  <2>3. rows \union RowsTo(0) = rows
    OBVIOUS
  <2>4. Holds(ix, rows) => Holds(added[0], rows \union RowsTo(0))
    BY <2>2, <2>3, Zenon
  <2> HIDE DEF RowsTo
  <2> QED BY <2>1, <2>2, <2>4
<1>4. ASSUME NEW i \in 1 .. n, i - 1 \in T PROVE i \in T
  <2>1. P(i - 1)
    BY <1>4
  <2>2. i \in 0 .. n /\ i # 0 /\ doc.rows[i] \in RowSet
    BY <1>2
  <2>3. added[i] = AddRowStep(ix, doc, added, i)
    BY <1>1, <2>2
  <2> DEFINE before == added[i - 1]
             row == doc.rows[i]
             after == added[i]
             seen == rows \union RowsTo(i - 1)
  <2>4. after = AddRow(before, doc, row)
    BY <2>2, <2>3 DEF AddRowStep
  <2>5. before \in Indexes /\ row \in RowSet /\ (Holds(ix, rows) => Holds(before, seen))
    BY <2>1, <2>2
  <2>6. RowsTo(i) = RowsTo(i - 1) \union {RowOf(doc, row)}
    <3>1. \A j \in 1 .. i : j \in 1 .. i - 1 \/ j = i
      BY <1>2
    <3>2. \A j \in 1 .. i - 1 : j \in 1 .. i
      BY <1>2
    <3>3. i \in 1 .. i
      BY <1>2
    <3> QED BY <3>1, <3>2, <3>3
  <2>7. rows \union RowsTo(i) = seen \union {RowOf(doc, row)}
    <3> HIDE DEF RowsTo
    <3> QED BY <2>6
  <2>8. row \in RangeOf(doc.rows)
    BY <1>2 DEF RangeOf
  <2> DEFINE Spared(s) == row.definition \/ row.symbol # s
  <2>9. \A s \in Symbols \ UsedIn(doc) : Spared(s)
    <3> HIDE DEF row
    <3> QED BY <2>8 DEF UsedIn
  <2>10. /\ \A p \in Paths : p # doc.path => before.occurrences[p] = ix.occurrences[p]
         /\ \A s \in Symbols \ UsedIn(doc) : before.references[s] = ix.references[s]
    BY <2>1
  <2> HIDE DEF before, row, after, seen, RowsTo
  <2>11. /\ after \in Indexes
         /\ \A p \in Paths : p # doc.path => after.occurrences[p] = before.occurrences[p]
         /\ \A s \in Symbols : Spared(s) => after.references[s] = before.references[s]
    BY <2>4, <2>5, AddRowFields
  <2>12. Holds(ix, rows) => Holds(after, rows \union RowsTo(i))
    <3>1. Holds(before, seen) => Holds(AddRow(before, doc, row), seen \union {RowOf(doc, row)})
      BY <2>5, AddRowHolds
    <3> QED BY <2>4, <2>5, <2>7, <3>1
  <2> HIDE DEF Spared
  <2>13. \A p \in Paths : p # doc.path => after.occurrences[p] = ix.occurrences[p]
    BY <2>10, <2>11
  <2>14. \A s \in Symbols \ UsedIn(doc) : after.references[s] = ix.references[s]
    BY <2>9, <2>10, <2>11
  <2>15. P(i)
    BY <2>11, <2>12, <2>13, <2>14 DEF after
  <2> HIDE DEF P
  <2> QED BY <2>2, <2>15
<1>5. 0 .. n \subseteq T
  <2> HIDE DEF T
  <2> QED BY <1>2, <1>3, <1>4, UpTo
<1>6. P(n)
  <2>1. n \in 0 .. n
    BY <1>2
  <2> QED BY <1>5, <2>1
<1> DEFINE last == added[n]
           all == rows \union RowsTo(n)
<1>7. RowsTo(n) = DocumentRows(doc)
  BY <1>2 DEF DocumentRows
<1>8. /\ last \in Indexes
      /\ Holds(ix, rows) => Holds(last, all)
      /\ \A p \in Paths : p # doc.path => last.occurrences[p] = ix.occurrences[p]
      /\ \A s \in Symbols \ UsedIn(doc) : last.references[s] = ix.references[s]
      /\ new = Tidied(last, doc.path)
  BY <1>1, <1>6
<1> HIDE DEF last, all
<1>9. /\ new \in Indexes /\ new.references = last.references
  BY <1>2, <1>8, TidiedFields
<1>10. /\ Holds(last, all) => Holds(new, all)
       /\ \A q \in Paths : q # doc.path => new.occurrences[q] = last.occurrences[q]
       /\ Distinct(new.occurrences[doc.path])
       /\ InSourceOrder(new.occurrences[doc.path])
  BY <1>2, <1>8, TidiedHolds
<1>11. Tidy(ix) => Tidy(new)
  BY <1>8, <1>10 DEF Tidy
<1>12. Holds(ix, rows) => Holds(new, rows \union DocumentRows(doc))
  BY <1>7, <1>8, <1>10, Zenon DEF all
<1> QED BY <1>8, <1>9, <1>11, <1>12 DEF new

-----------------------------------------------------------------------------
(* `deduplicate_references` and a snapshot leave what the index holds. *)

LEMMA DeduplicateReferencesFacts ==
  ASSUME NEW ix \in Indexes, NEW symbols, NEW rows
  PROVE  LET new == DeduplicateReferences(ix, symbols)
         IN  /\ new \in Indexes
             /\ new.occurrences = ix.occurrences
             /\ Holds(ix, rows) => Holds(new, rows)
             /\ \A s \in Symbols \intersect symbols : Distinct(new.references[s])
             /\ \A s \in Symbols \ symbols : new.references[s] = ix.references[s]
<1> DEFINE new == DeduplicateReferences(ix, symbols)
           table == [s \in Symbols |-> IF s \in symbols THEN Deduplicated(ix.references[s])
                                       ELSE ix.references[s]]
<1>1. ix.references \in [Symbols -> Seq(UseRows)]
  BY IndexFields
<1>2. \A s \in Symbols : /\ Deduplicated(ix.references[s]) \in Seq(UseRows)
                         /\ RangeOf(Deduplicated(ix.references[s])) = RangeOf(ix.references[s])
                         /\ Distinct(Deduplicated(ix.references[s]))
  BY <1>1, DeduplicatedFacts
<1>3. table \in [Symbols -> Seq(UseRows)]
  BY <1>1, <1>2
<1>4. new = [ix EXCEPT !.references = table]
  <2>1. DOMAIN ix = Fields
    BY IndexFields
  <2> QED BY <2>1 DEF DeduplicateReferences, Fields
<1>5. \A s \in Symbols : table[s] = IF s \in symbols THEN Deduplicated(ix.references[s])
                                    ELSE ix.references[s]
  OBVIOUS
<1> HIDE DEF new, table
<1>6. /\ new.definitions = ix.definitions
      /\ new.references = table
      /\ new.paths = ix.paths
      /\ new.pathIds = ix.pathIds
      /\ new.occurrences = ix.occurrences
      /\ new.names = ix.names
  BY <1>4, IndexFields DEF Fields
<1>7. new = [definitions |-> new.definitions, references |-> new.references,
             paths |-> new.paths, pathIds |-> new.pathIds,
             occurrences |-> new.occurrences, names |-> new.names]
  BY <1>4 DEF Indexes
<1>8. new \in Indexes
  BY <1>3, <1>6, <1>7, IndexFields, IndexFromFields
<1>9. \A s \in Symbols : RangeOf(new.references[s]) = RangeOf(ix.references[s])
  BY <1>2, <1>5, <1>6
<1>10. ASSUME Holds(ix, rows) PROVE Holds(new, rows)
  <2>1. PathsHold(new) /\ NamesHold(new) /\ SitesHold(new, rows) /\ OccurrencesHold(new, rows)
    BY <1>6, <1>10 DEF Holds, PathsHold, NamesHold, SitesHold, OccurrencesHold
  <2>2. ASSUME NEW s \in Symbols
        PROVE  /\ \A i \in DOMAIN new.references[s] : new.references[s][i].path \in DOMAIN new.paths
               /\ RangeOf(ReferencesTo(new, s)) = UsesIn(rows, s)
    <3>1. /\ \A i \in DOMAIN ix.references[s] : ix.references[s][i].path \in DOMAIN ix.paths
          /\ RangeOf(ReferencesTo(ix, s)) = UsesIn(rows, s)
      BY <1>10 DEF Holds, UsesHold
    <3>2. \A u \in RangeOf(ix.references[s]) : u.path \in DOMAIN ix.paths
      BY <3>1 DEF RangeOf
    <3>3. \A i \in DOMAIN new.references[s] : new.references[s][i] \in RangeOf(new.references[s])
      BY DEF RangeOf
    <3>4. \A i \in DOMAIN new.references[s] : new.references[s][i].path \in DOMAIN new.paths
      BY <1>6, <1>9, <3>2, <3>3
    <3>5. RangeOf(ReferencesTo(new, s)) = {NamedUse(new.paths, u) : u \in RangeOf(new.references[s])}
      BY ReferencesRange, Zenon
    <3>6. RangeOf(ReferencesTo(ix, s)) = {NamedUse(ix.paths, u) : u \in RangeOf(ix.references[s])}
      BY ReferencesRange, Zenon
    <3>7. new.paths = ix.paths /\ RangeOf(new.references[s]) = RangeOf(ix.references[s])
      BY <1>6, <1>9
    <3>8. RangeOf(ReferencesTo(new, s)) = RangeOf(ReferencesTo(ix, s))
      BY <3>5, <3>6, <3>7, Zenon
    <3> QED BY <3>1, <3>4, <3>8
  <2>3. UsesHold(new, rows)
    BY <2>2 DEF UsesHold
  <2> QED BY <2>1, <2>3 DEF Holds
<1>11. /\ \A s \in Symbols \intersect symbols : Distinct(new.references[s])
       /\ \A s \in Symbols \ symbols : new.references[s] = ix.references[s]
  BY <1>2, <1>5, <1>6
<1> QED BY <1>6, <1>8, <1>10, <1>11 DEF new

LEMMA RereadFacts ==
  ASSUME NEW ix \in Indexes, NEW rows
  PROVE  LET new == Reread(ix)
         IN  /\ new \in Indexes
             /\ new.occurrences = ix.occurrences
             /\ new.references = ix.references
             /\ Holds(ix, rows) => Holds(new, rows)
<1> DEFINE new == Reread(ix)
<1>1. <<>> \in UNION {[some -> Nat] : some \in SUBSET Paths}
  <2>1. <<>> \in [{} -> Nat] /\ {} \in SUBSET Paths
    OBVIOUS
  <2> QED BY <2>1
<1>2. new = [ix EXCEPT !.pathIds = <<>>]
  BY DEF Reread
<1> HIDE DEF new
<1>3. /\ new.definitions = ix.definitions
      /\ new.references = ix.references
      /\ new.paths = ix.paths
      /\ new.pathIds = <<>>
      /\ new.occurrences = ix.occurrences
      /\ new.names = ix.names
  BY <1>2, IndexFields DEF Fields
<1>4. new = [definitions |-> new.definitions, references |-> new.references,
             paths |-> new.paths, pathIds |-> new.pathIds,
             occurrences |-> new.occurrences, names |-> new.names]
  BY <1>2 DEF Indexes
<1>5. new \in Indexes
  BY <1>1, <1>3, <1>4, IndexFields, IndexFromFields
<1>6. ASSUME Holds(ix, rows) PROVE Holds(new, rows)
  <2>1. DOMAIN new.pathIds = {}
    BY <1>3
  <2>2. PathsHold(new)
    BY <1>3, <1>6, <2>1 DEF Holds, PathsHold
  <2>3. NamesHold(new) /\ SitesHold(new, rows) /\ OccurrencesHold(new, rows)
    BY <1>3, <1>6 DEF Holds, NamesHold, SitesHold, OccurrencesHold
  <2>4. \A s \in Symbols : ReferencesTo(new, s) = ReferencesTo(ix, s)
    BY <1>3 DEF ReferencesTo
  <2>5. UsesHold(new, rows)
    BY <1>3, <1>6, <2>4 DEF Holds, UsesHold
  <2> QED BY <2>2, <2>3, <2>5 DEF Holds
<1> QED BY <1>3, <1>5, <1>6 DEF new

LEMMA EmptyIndexFacts ==
  /\ EmptyIndex \in Indexes
  /\ Holds(EmptyIndex, {})
  /\ Tidy(EmptyIndex)
<1>1. <<>> \in UNION {[some -> Nat] : some \in SUBSET Paths}
  <2>1. <<>> \in [{} -> Nat] /\ {} \in SUBSET Paths
    OBVIOUS
  <2> QED BY <2>1
<1> DEFINE e == EmptyIndex
<1>2. /\ e.definitions = <<>>
      /\ e.references = [s \in Symbols |-> <<>>]
      /\ e.paths = <<>>
      /\ e.pathIds = <<>>
      /\ e.occurrences = [p \in Paths |-> <<>>]
      /\ e.names = <<>>
  BY DEF EmptyIndex
<1>3. e = [definitions |-> e.definitions, references |-> e.references,
           paths |-> e.paths, pathIds |-> e.pathIds,
           occurrences |-> e.occurrences, names |-> e.names]
  BY DEF EmptyIndex
<1> HIDE DEF e
<1>4. e \in Indexes
  <2>1. /\ e.definitions \in Seq(Declarations)
        /\ e.references \in [Symbols -> Seq(UseRows)]
        /\ e.paths \in Seq(Paths)
        /\ e.occurrences \in [Paths -> Seq(OccurrenceRows)]
        /\ e.names \in Seq(Symbols)
    BY <1>2
  <2>2. e.pathIds \in UNION {[some -> Nat] : some \in SUBSET Paths}
    BY <1>1, <1>2
  <2> QED BY <1>3, <2>1, <2>2, IndexFromFields
<1>5. DOMAIN <<>> = {} /\ RangeOf(<<>>) = {}
  BY DEF RangeOf
<1>6. KeptOf({}) = {}
  BY DEF KeptOf
<1>7. PathsHold(e) /\ NamesHold(e)
  BY <1>2, <1>5 DEF PathsHold, NamesHold, Distinct
<1>8. SitesHold(e, {})
  BY <1>2, <1>5, <1>6 DEF SitesHold, SitesIn
<1>9. UsesHold(e, {})
  <2> SUFFICES ASSUME NEW s \in Symbols
               PROVE  /\ \A i \in DOMAIN e.references[s] : e.references[s][i].path \in DOMAIN e.paths
                      /\ RangeOf(ReferencesTo(e, s)) = UsesIn({}, s)
    BY DEF UsesHold
  <2>1. e.references[s] = <<>>
    BY <1>2
  <2>2. RangeOf(ReferencesTo(e, s)) = {}
    <3>1. RangeOf(ReferencesTo(e, s)) = {NamedUse(e.paths, u) : u \in RangeOf(e.references[s])}
      BY ReferencesRange, Zenon
    <3> QED BY <1>5, <2>1, <3>1
  <2>3. UsesIn({}, s) = {}
    BY <1>6 DEF UsesIn
  <2> QED BY <1>5, <2>1, <2>2, <2>3
<1>10. OccurrencesHold(e, {})
  <2> SUFFICES ASSUME NEW p \in Paths
               PROVE  /\ \A i \in DOMAIN e.occurrences[p] :
                           e.occurrences[p][i].symbol \in DOMAIN e.names
                      /\ {[range |-> o.range, symbol |-> e.names[o.symbol]] :
                            o \in RangeOf(e.occurrences[p])} = OccurrencesIn({}, p)
    BY DEF OccurrencesHold
  <2>1. e.occurrences[p] = <<>>
    BY <1>2
  <2>2. OccurrencesIn({}, p) = {}
    BY <1>6 DEF OccurrencesIn
  <2> QED BY <1>5, <2>1, <2>2
<1>11. Tidy(e)
  BY <1>2, <1>5 DEF Tidy, Distinct, InSourceOrder
<1> QED BY <1>4, <1>7, <1>8, <1>9, <1>10, <1>11 DEF e, Holds

-----------------------------------------------------------------------------
(* `add_shard_with`. *)

AllDistinct(ix) == \A s \in Symbols : Distinct(ix.references[s])

AddDocumentStep(ix, shard, added, i) ==
  IF i = 0 THEN ix ELSE AddDocument(added[i - 1], shard[i])

LEMMA AddShardDef ==
  ASSUME NEW ix \in Indexes, NEW shard \in Seq(Documents), NEW deduplicate
  PROVE  \E added : /\ added = [i \in 0 .. Len(shard) |-> AddDocumentStep(ix, shard, added, i)]
                    /\ AddShard(ix, shard, deduplicate) =
                         IF deduplicate
                         THEN DeduplicateReferences(added[Len(shard)], Touched(shard))
                         ELSE added[Len(shard)]
<1> DEFINE n == Len(shard)
           g == [i \in 1 .. n |-> [x \in Indexes |-> AddDocument(x, shard[i])]]
<1>1. n \in Nat /\ \A i \in 1 .. n : shard[i] \in Documents
  OBVIOUS
<1>2. \A i \in 1 .. n, x \in Indexes : AddDocument(x, shard[i]) \in Indexes
  BY <1>1, AddDocumentFacts
<1>3. g \in [1 .. n -> [Indexes -> Indexes]]
  <2> HIDE DEF n
  <2> QED BY <1>2
<1>4. \A i \in 1 .. n, x \in Indexes : g[i][x] = AddDocument(x, shard[i])
  OBVIOUS
<1> HIDE DEF g, n
<1>5. PICK f : Iterates(f, n, Indexes, ix, g)
  BY <1>1, <1>3, Recursion
<1>6. f = [i \in 0 .. n |-> AddDocumentStep(ix, shard, f, i)]
  <2> SUFFICES ASSUME NEW i \in 0 .. n PROVE f[i] = AddDocumentStep(ix, shard, f, i)
    BY <1>5 DEF Iterates
  <2>1. i # 0 => i \in 1 .. n /\ f[i - 1] \in Indexes
    BY <1>1, <1>5 DEF Iterates
  <2>2. i # 0 => g[i][f[i - 1]] = AddDocumentStep(ix, shard, f, i)
    BY <1>4, <2>1 DEF AddDocumentStep
  <2>3. f[i] = IF i = 0 THEN ix ELSE g[i][f[i - 1]]
    BY <1>5, <2>1 DEF Iterates
  <2> QED BY <2>2, <2>3 DEF AddDocumentStep
<1> DEFINE added[i \in 0 .. Len(shard)] ==
        IF i = 0 THEN ix ELSE AddDocument(added[i - 1], shard[i])
<1>7. added = [i \in 0 .. Len(shard) |-> AddDocumentStep(ix, shard, added, i)]
  BY <1>6, Zenon DEF AddDocumentStep, n
<1>8. AddShard(ix, shard, deduplicate) =
        IF deduplicate THEN DeduplicateReferences(added[Len(shard)], Touched(shard))
        ELSE added[Len(shard)]
  BY Zenon DEF AddShard
<1> QED BY <1>7, <1>8, Zenon

LEMMA RowsOfShard ==
  ASSUME NEW shard \in Seq(Documents)
  PROVE  /\ Rows(shard) = UNION {DocumentRows(shard[i]) : i \in 1 .. Len(shard)}
         /\ Touched(shard) = UNION {UsedIn(shard[i]) : i \in 1 .. Len(shard)}
<1>1. DOMAIN shard = 1 .. Len(shard)
  OBVIOUS
<1>2. Rows(shard) = UNION {DocumentRows(shard[i]) : i \in DOMAIN shard}
  BY Zenon DEF Rows, DocumentRows, RowOf
<1>3. Touched(shard) = UNION {UsedIn(doc) : doc \in RangeOf(shard)}
  BY Zenon DEF Touched, UsedIn
<1>4. {UsedIn(doc) : doc \in RangeOf(shard)} = {UsedIn(shard[i]) : i \in DOMAIN shard}
  BY DEF RangeOf
<1> QED BY <1>1, <1>2, <1>3, <1>4

(* A shard adds its rows.  With the references it touches deduplicated, those
   of every symbol are still distinct if they were. *)
LEMMA AddShardFacts ==
  ASSUME NEW ix \in Indexes, NEW shard \in Seq(Documents), NEW rows, NEW deduplicate \in BOOLEAN
  PROVE  LET new == AddShard(ix, shard, deduplicate)
         IN  /\ new \in Indexes
             /\ Holds(ix, rows) => Holds(new, rows \union Rows(shard))
             /\ Tidy(ix) => Tidy(new)
             /\ deduplicate /\ AllDistinct(ix) => AllDistinct(new)
<1> DEFINE n == Len(shard)
           new == AddShard(ix, shard, deduplicate)
           RowsTo(i) == UNION {DocumentRows(shard[j]) : j \in 1 .. i}
<1>1. PICK added : /\ added = [i \in 0 .. n |-> AddDocumentStep(ix, shard, added, i)]
                   /\ new = IF deduplicate
                            THEN DeduplicateReferences(added[n], Touched(shard))
                            ELSE added[n]
  BY AddShardDef
<1>2. n \in Nat /\ \A i \in 1 .. n : shard[i] \in Documents
  OBVIOUS
<1>3. Rows(shard) = RowsTo(n) /\ \A i \in 1 .. n : UsedIn(shard[i]) \subseteq Touched(shard)
  BY RowsOfShard
<1> HIDE DEF n, new
<1> DEFINE P(i) ==
             /\ added[i] \in Indexes
             /\ Holds(ix, rows) => Holds(added[i], rows \union RowsTo(i))
             /\ Tidy(ix) => Tidy(added[i])
             /\ \A s \in Symbols \ Touched(shard) : added[i].references[s] = ix.references[s]
           T == {i \in 0 .. n : P(i)}
<1>4. 0 \in T
  <2>1. 0 \in 0 .. n
    BY <1>2
  <2>2. added[0] = AddDocumentStep(ix, shard, added, 0) /\ 0 \in 0 .. n
    BY <1>1, <2>1
  <2>3. added[0] = ix
    BY <2>2 DEF AddDocumentStep
  <2>4. rows \union RowsTo(0) = rows
    OBVIOUS
  <2>5. Holds(ix, rows) => Holds(added[0], rows \union RowsTo(0))
    BY <2>3, <2>4, Zenon
  <2> HIDE DEF RowsTo
  <2> QED BY <2>2, <2>3, <2>5
<1>5. ASSUME NEW i \in 1 .. n, i - 1 \in T PROVE i \in T
  <2>1. P(i - 1)
    BY <1>5
  <2>2. i \in 0 .. n /\ i # 0 /\ shard[i] \in Documents
    BY <1>2
  <2>3. added[i] = AddDocumentStep(ix, shard, added, i)
    BY <1>1, <2>2
  <2> DEFINE before == added[i - 1]
             doc == shard[i]
             after == added[i]
             seen == rows \union RowsTo(i - 1)
  <2>4. after = AddDocument(before, doc)
    BY <2>2, <2>3 DEF AddDocumentStep
  <2>5. /\ before \in Indexes /\ doc \in Documents
        /\ Holds(ix, rows) => Holds(before, seen)
        /\ Tidy(ix) => Tidy(before)
        /\ \A s \in Symbols \ Touched(shard) : before.references[s] = ix.references[s]
    BY <2>1, <2>2
  <2>6. RowsTo(i) = RowsTo(i - 1) \union DocumentRows(doc)
    <3>1. \A j \in 1 .. i : j \in 1 .. i - 1 \/ j = i
      BY <1>2
    <3>2. \A j \in 1 .. i - 1 : j \in 1 .. i
      BY <1>2
    <3>3. i \in 1 .. i
      BY <1>2
    <3> QED BY <3>1, <3>2, <3>3
  <2>7. rows \union RowsTo(i) = seen \union DocumentRows(doc)
    <3> HIDE DEF RowsTo
    <3> QED BY <2>6
  <2>8. UsedIn(doc) \subseteq Touched(shard)
    BY <1>3
  <2> HIDE DEF before, doc, after, seen, RowsTo
  <2>9. /\ after \in Indexes
        /\ Holds(before, seen) => Holds(after, seen \union DocumentRows(doc))
        /\ Tidy(before) => Tidy(after)
        /\ \A s \in Symbols \ UsedIn(doc) : after.references[s] = before.references[s]
    BY <2>4, <2>5, AddDocumentFacts
  <2>10. Holds(ix, rows) => Holds(after, rows \union RowsTo(i))
    BY <2>5, <2>7, <2>9
  <2>11. \A s \in Symbols \ Touched(shard) : after.references[s] = ix.references[s]
    BY <2>5, <2>8, <2>9
  <2>12. Tidy(ix) => Tidy(after)
    BY <2>5, <2>9
  <2> QED BY <2>2, <2>9, <2>10, <2>11, <2>12 DEF after
<1>6. 0 .. n \subseteq T
  <2> HIDE DEF T
  <2> QED BY <1>2, <1>4, <1>5, UpTo
<1>7. P(n)
  <2>1. n \in 0 .. n
    BY <1>2
  <2> QED BY <1>6, <2>1
<1> DEFINE last == added[n]
           all == rows \union RowsTo(n)
<1>8. /\ last \in Indexes
      /\ Holds(ix, rows) => Holds(last, all)
      /\ Tidy(ix) => Tidy(last)
      /\ \A s \in Symbols \ Touched(shard) : last.references[s] = ix.references[s]
      /\ new = IF deduplicate THEN DeduplicateReferences(last, Touched(shard)) ELSE last
  BY <1>1, <1>7
<1>9. all = rows \union Rows(shard)
  BY <1>3
<1> HIDE DEF last, all
<1>10. CASE deduplicate
  <2>1. new = DeduplicateReferences(last, Touched(shard))
    BY <1>8, <1>10
  <2>2. /\ new \in Indexes
        /\ new.occurrences = last.occurrences
        /\ Holds(last, all) => Holds(new, all)
        /\ \A s \in Symbols \intersect Touched(shard) : Distinct(new.references[s])
        /\ \A s \in Symbols \ Touched(shard) : new.references[s] = last.references[s]
    <3> DEFINE touched == Touched(shard)
    <3> HIDE DEF touched
    <3>1. LET it == DeduplicateReferences(last, touched)
          IN  /\ it \in Indexes
              /\ it.occurrences = last.occurrences
              /\ Holds(last, all) => Holds(it, all)
              /\ \A s \in Symbols \intersect touched : Distinct(it.references[s])
              /\ \A s \in Symbols \ touched : it.references[s] = last.references[s]
      BY <1>8, DeduplicateReferencesFacts, Zenon
    <3> QED BY <2>1, <3>1, Zenon DEF touched
  <2>3. Tidy(ix) => Tidy(new)
    BY <1>8, <2>2 DEF Tidy
  <2>4. AllDistinct(ix) => AllDistinct(new)
    BY <1>8, <2>2 DEF AllDistinct
  <2> QED BY <1>8, <1>9, <2>2, <2>3, <2>4 DEF new
<1>11. CASE ~deduplicate
  <2>1. new = last
    BY <1>8, <1>11
  <2> QED BY <1>8, <1>9, <1>11, <2>1 DEF new
<1> QED BY <1>10, <1>11

-----------------------------------------------------------------------------
(* An edit leaves a text. *)

LEMMA GreatestOf ==
  ASSUME NEW n \in Nat, NEW T, T \subseteq 0 .. n, T # {}
  PROVE  Max(T) \in T /\ \A m \in T : m <= Max(T)
<1> DEFINE L == {k \in 0 .. n : n - k \in T}
<1>1. \A m \in T : m \in 0 .. n /\ n - m \in 0 .. n /\ n - (n - m) = m
  OBVIOUS
<1>2. \A m \in T : n - m \in L
  BY <1>1
<1>3. PICK k \in L : \A l \in L : k <= l
  <2>1. L \subseteq Nat
    OBVIOUS
  <2>2. PICK m : m \in T
    OBVIOUS
  <2>3. n - m \in L
    BY <1>2, <2>2
  <2>4. L \subseteq Nat /\ L # {}
    BY <2>1, <2>3, Zenon
  <2> HIDE DEF L
  <2> QED BY <2>4, LeastOf
<1>4. n - k \in T /\ \A m \in T : m <= n - k
  <2>1. n - k \in T /\ k \in 0 .. n
    OBVIOUS
  <2>2. ASSUME NEW m \in T PROVE m <= n - k
    <3>1. k <= n - m
      BY <1>2, <1>3
    <3> QED BY <1>1, <2>1, <3>1
  <2> QED BY <2>1, <2>2
<1>5. \E x \in T : \A y \in T : x >= y
  <2>1. \A y \in T : n - k >= y
    BY <1>1, <1>4
  <2> QED BY <1>4, <2>1
<1>6. Max(T) \in T /\ \A y \in T : Max(T) >= y
  BY <1>5, Zenon DEF Max
<1> QED BY <1>1, <1>6

LEMMA SplicedType ==
  ASSUME NEW t \in Seq(Chars), NEW from \in 0 .. Len(t), NEW to \in 0 .. Len(t),
         NEW inserted \in Seq(Chars)
  PROVE  Spliced(t, from, to, inserted) \in Seq(Chars)
<1>1. Len(t) \in Nat
  OBVIOUS
<1>2. SubSeq(t, 1, from) \in Seq(Chars)
  BY <1>1, SubSeqProperties
<1>3. SubSeq(t, to + 1, Len(t)) \in Seq(Chars)
  BY <1>1, SubSeqProperties
<1> QED BY <1>2, <1>3 DEF Spliced

LEMMA ReplacedType ==
  ASSUME NEW t \in Seq(Chars), NEW start, NEW end, NEW inserted \in Seq(Chars)
  PROVE  Replaced(t, start, end, inserted) \in Seq(Chars)
<1> DEFINE byte == [i \in 0 .. Len(t) |-> Scan(t)[i].len]
           Boundaries == {byte[i] : i \in 0 .. Len(t)}
           At(offset) == CHOOSE i \in 0 .. Len(t) : byte[i] = offset
<1>1. Replaced(t, start, end, inserted) =
        IF {start, end} \subseteq Boundaries
        THEN Spliced(t, At(start), At(end), inserted)
        ELSE t
  BY DEF Replaced
<1>2. \A offset \in Boundaries : At(offset) \in 0 .. Len(t)
  <2> HIDE DEF byte
  <2> QED OBVIOUS
<1> HIDE DEF Boundaries, At
<1>3. CASE {start, end} \subseteq Boundaries
  <2>1. At(start) \in 0 .. Len(t) /\ At(end) \in 0 .. Len(t)
    BY <1>2, <1>3
  <2> QED BY <1>1, <1>3, <2>1, SplicedType
<1>4. CASE ~({start, end} \subseteq Boundaries)
  BY <1>1, <1>4
<1> QED BY <1>3, <1>4

LEMMA ApplyChangeType ==
  ASSUME NEW t \in Seq(Chars), NEW change, change.text \in Seq(Chars)
  PROVE  ApplyChange(t, change) \in Seq(Chars)
<1> DEFINE start == Offset(TableOf(t), change.range.start, encoding)
           end == Offset(TableOf(t), change.range.end, encoding)
<1>1. ApplyChange(t, change) =
        IF change.range = None THEN change.text
        ELSE IF start = None \/ end = None THEN t
        ELSE IF start > end THEN t
        ELSE Replaced(t, start, end, change.text)
  BY Zenon DEF ApplyChange
<1>2. Replaced(t, start, end, change.text) \in Seq(Chars)
  <2> HIDE DEF start, end
  <2> QED BY ReplacedType
<1> HIDE DEF start, end
<1> QED BY <1>1, <1>2

LEMMA BoundaryOfType ==
  ASSUME NEW t \in Seq(Chars), NEW position, NEW unit, BoundaryOf(t, position, unit) # None
  PROVE  BoundaryOf(t, position, unit) \in 0 .. Len(t)
<1> DEFINE reached == {i \in 0 .. Len(t) :
                         /\ PositionOf(t, i, unit).line = position.line
                         /\ PositionOf(t, i, unit).character <= position.character}
<1>1. BoundaryOf(t, position, unit) = IF reached = {} THEN None ELSE Max(reached)
  BY Zenon DEF BoundaryOf
<1>2. reached \subseteq 0 .. Len(t) /\ Len(t) \in Nat
  OBVIOUS
<1> HIDE DEF reached
<1>3. reached # {}
  BY <1>1
<1>4. Max(reached) \in reached
  BY <1>2, <1>3, GreatestOf
<1> QED BY <1>1, <1>2, <1>3, <1>4

LEMMA EditedType ==
  ASSUME NEW t \in Seq(Chars), NEW change, change.text \in Seq(Chars)
  PROVE  Edited(t, change) \in Seq(Chars)
<1> DEFINE from == BoundaryOf(t, change.range.start, encoding)
           to == BoundaryOf(t, change.range.end, encoding)
<1>1. Edited(t, change) =
        IF change.range = None THEN change.text
        ELSE IF from = None \/ to = None THEN t
        ELSE IF from > to THEN t
        ELSE Spliced(t, from, to, change.text)
  BY Zenon DEF Edited
<1>2. (from # None => from \in 0 .. Len(t)) /\ (to # None => to \in 0 .. Len(t))
  BY BoundaryOfType, Zenon
<1> HIDE DEF from, to
<1>3. (from # None /\ to # None) => Spliced(t, from, to, change.text) \in Seq(Chars)
  BY <1>2, SplicedType
<1> QED BY <1>1, <1>3

ChangeStep(t, changes, after, k) ==
  IF k = 0 THEN t ELSE ApplyChange(after[k - 1], changes[k])

LEMMA ApplyChangesDef ==
  ASSUME NEW t \in Seq(Chars), NEW changes,
         Len(changes) \in Nat, \A k \in 1 .. Len(changes) : changes[k].text \in Seq(Chars)
  PROVE  \E after : /\ after \in [0 .. Len(changes) -> Seq(Chars)]
                    /\ after = [k \in 0 .. Len(changes) |-> ChangeStep(t, changes, after, k)]
                    /\ ApplyChanges(t, changes) = after[Len(changes)]
<1> DEFINE n == Len(changes)
           g == [k \in 1 .. n |-> [x \in Seq(Chars) |-> ApplyChange(x, changes[k])]]
<1>1. n \in Nat
  OBVIOUS
<1>2. \A k \in 1 .. n, x \in Seq(Chars) : ApplyChange(x, changes[k]) \in Seq(Chars)
  BY ApplyChangeType
<1>3. g \in [1 .. n -> [Seq(Chars) -> Seq(Chars)]]
  <2> HIDE DEF n
  <2> QED BY <1>2
<1>4. \A k \in 1 .. n, x \in Seq(Chars) : g[k][x] = ApplyChange(x, changes[k])
  OBVIOUS
<1> HIDE DEF g, n
<1>5. PICK f : Iterates(f, n, Seq(Chars), t, g)
  BY <1>1, <1>3, Recursion
<1>6. f = [k \in 0 .. n |-> ChangeStep(t, changes, f, k)]
  <2> SUFFICES ASSUME NEW k \in 0 .. n PROVE f[k] = ChangeStep(t, changes, f, k)
    BY <1>5 DEF Iterates
  <2>1. k # 0 => k \in 1 .. n /\ f[k - 1] \in Seq(Chars)
    BY <1>1, <1>5 DEF Iterates
  <2>2. k # 0 => g[k][f[k - 1]] = ChangeStep(t, changes, f, k)
    BY <1>4, <2>1 DEF ChangeStep
  <2>3. f[k] = IF k = 0 THEN t ELSE g[k][f[k - 1]]
    BY <1>5, <2>1 DEF Iterates
  <2> QED BY <2>2, <2>3 DEF ChangeStep
<1> DEFINE after[k \in 0 .. Len(changes)] ==
        IF k = 0 THEN t ELSE ApplyChange(after[k - 1], changes[k])
<1>7. after = [k \in 0 .. Len(changes) |-> ChangeStep(t, changes, after, k)]
  BY <1>6, Zenon DEF ChangeStep, n
<1>8. ApplyChanges(t, changes) = after[Len(changes)]
  BY Zenon DEF ApplyChanges
<1>9. after \in [0 .. Len(changes) -> Seq(Chars)]
  <2> DEFINE T == {k \in 0 .. n : after[k] \in Seq(Chars)}
  <2> HIDE DEF after
  <2>1. \A k \in 0 .. n : after[k] = ChangeStep(t, changes, after, k)
    BY <1>7 DEF n
  <2>2. 0 \in T
    BY <1>1, <2>1 DEF ChangeStep
  <2>3. ASSUME NEW k \in 1 .. n, k - 1 \in T PROVE k \in T
    <3>1. k \in 0 .. n /\ k # 0 /\ after[k - 1] \in Seq(Chars)
      BY <1>1, <2>3
    <3>2. after[k] = ApplyChange(after[k - 1], changes[k])
      BY <2>1, <3>1 DEF ChangeStep
    <3> QED BY <1>2, <3>1, <3>2
  <2>4. 0 .. n \subseteq T
    <3> HIDE DEF T
    <3> QED BY <1>1, <2>2, <2>3, UpTo
  <2>5. DOMAIN after = 0 .. n
    BY <1>7 DEF n
  <2>6. after = [k \in 0 .. n |-> after[k]]
    BY <1>7 DEF n
  <2> QED BY <2>4, <2>6 DEF n
<1> HIDE DEF after
<1> QED BY <1>7, <1>8, <1>9

LEMMA ApplyChangesType ==
  ASSUME NEW t \in Seq(Chars), NEW changes,
         Len(changes) \in Nat, \A k \in 1 .. Len(changes) : changes[k].text \in Seq(Chars)
  PROVE  ApplyChanges(t, changes) \in Seq(Chars)
<1>1. PICK after : /\ after \in [0 .. Len(changes) -> Seq(Chars)]
                   /\ ApplyChanges(t, changes) = after[Len(changes)]
  BY ApplyChangesDef
<1> QED BY <1>1

-----------------------------------------------------------------------------
(* The invariant. *)

NavInv ==
  /\ encoding \in Encodings
  /\ text \in Seq(Chars)
  /\ intended \in Seq(Chars)
  /\ phase \in {"loading", "ready"}
  /\ loaded \in Seq(Shards)
  /\ index \in Indexes
  /\ Holds(index, Seen)
  /\ Tidy(index)
  /\ phase = "ready" => AllDistinct(index)

LEMMA InitNavInv == Init => NavInv
<1> SUFFICES ASSUME Init PROVE NavInv
  OBVIOUS
<1>1. /\ encoding \in Encodings /\ text \in Seq(Chars) /\ intended \in Seq(Chars)
      /\ phase = "loading" /\ loaded = <<>> /\ loaded \in Seq(Shards) /\ index = EmptyIndex
  BY DEF Init
<1>2. Seen = {}
  BY <1>1 DEF Seen
<1>3. index \in Indexes /\ Holds(index, Seen) /\ Tidy(index)
  BY <1>1, <1>2, EmptyIndexFacts
<1> QED BY <1>1, <1>3 DEF NavInv

LEMMA SeenWith ==
  ASSUME loaded \in Seq(Shards), NEW shard \in Shards, loaded' = Append(loaded, shard)
  PROVE  Seen' = Seen \union Rows(shard)
<1>1. loaded' = Append(loaded, shard)
  OBVIOUS
<1>2. /\ DOMAIN loaded' = DOMAIN loaded \union {Len(loaded) + 1}
      /\ \A k \in DOMAIN loaded : loaded'[k] = loaded[k]
      /\ loaded'[Len(loaded) + 1] = shard
  BY <1>1
<1>3. Seen' = UNION {Rows(loaded'[k]) : k \in DOMAIN loaded'}
  BY DEF Seen
<1>4. Seen = UNION {Rows(loaded[k]) : k \in DOMAIN loaded}
  BY DEF Seen
<1>5. \A k \in DOMAIN loaded : Rows(loaded'[k]) = Rows(loaded[k])
  BY <1>2
<1>6. Rows(loaded'[Len(loaded) + 1]) = Rows(shard)
  BY <1>2
<1> QED BY <1>2, <1>3, <1>4, <1>5, <1>6

LEMMA SameShards ==
  ASSUME loaded' = loaded
  PROVE  Seen' = Seen
BY DEF Seen

LEMMA EditNavInv ==
  ASSUME NavInv, UNCHANGED <<encoding, index, phase, loaded>>,
         text' \in Seq(Chars), intended' \in Seq(Chars)
  PROVE  NavInv'
<1>1. Seen' = Seen
  BY SameShards
<1> QED BY <1>1 DEF NavInv

LEMMA StepNavInv == NavInv /\ [Next]_vars => NavInv'
<1> SUFFICES ASSUME NavInv, [Next]_vars PROVE NavInv'
  OBVIOUS
<1>1. Shards \subseteq Seq(Documents) /\ Inserts \union Batched \subseteq Seq(Chars)
  BY InputAssumption
<1>2. /\ text \in Seq(Chars) /\ intended \in Seq(Chars) /\ loaded \in Seq(Shards)
      /\ index \in Indexes /\ Holds(index, Seen) /\ Tidy(index)
      /\ phase = "ready" => AllDistinct(index)
  BY DEF NavInv
<1>3. CASE UNCHANGED vars
  <2>1. UNCHANGED <<encoding, index, phase, loaded>> /\ text' = text /\ intended' = intended
    BY <1>3 DEF vars
  <2> QED BY <1>2, <2>1, EditNavInv
<1>4. ASSUME NEW change \in Changes(intended, Inserts), DidChange(<<change>>)
      PROVE  NavInv'
  <2>1. change.text \in Seq(Chars)
    BY <1>1, <1>4 DEF Changes
  <2>2. /\ text' = ApplyChanges(text, <<change>>)
        /\ intended' = Edited(intended, change)
        /\ UNCHANGED <<encoding, index, phase, loaded>>
    BY <1>4 DEF DidChange
  <2>3. text' \in Seq(Chars)
    <3> DEFINE changes == <<change>>
    <3>1. Len(changes) \in Nat /\ \A k \in 1 .. Len(changes) : changes[k].text \in Seq(Chars)
      BY <2>1
    <3> HIDE DEF changes
    <3>2. ApplyChanges(text, changes) \in Seq(Chars)
      BY <1>2, <3>1, ApplyChangesType
    <3> QED BY <2>2, <3>2 DEF changes
  <2>4. intended' \in Seq(Chars)
    BY <1>2, <2>1, <2>2, EditedType
  <2> QED BY <2>2, <2>3, <2>4, EditNavInv
<1>5. ASSUME NEW first \in Changes(intended, Batched),
             NEW second \in Changes(Edited(intended, first), Batched),
             DidChangeTwice(<<first, second>>)
      PROVE  NavInv'
  <2>1. first.text \in Seq(Chars) /\ second.text \in Seq(Chars)
    BY <1>1, <1>5 DEF Changes
  <2>2. /\ text' = ApplyChanges(text, <<first, second>>)
        /\ intended' = Edited(Edited(intended, first), second)
        /\ UNCHANGED <<encoding, index, phase, loaded>>
    BY <1>5 DEF DidChangeTwice
  <2>3. text' \in Seq(Chars)
    <3> DEFINE changes == <<first, second>>
    <3>1. Len(changes) \in Nat /\ \A k \in 1 .. Len(changes) : changes[k].text \in Seq(Chars)
      BY <2>1
    <3> HIDE DEF changes
    <3>2. ApplyChanges(text, changes) \in Seq(Chars)
      BY <1>2, <3>1, ApplyChangesType
    <3> QED BY <2>2, <3>2 DEF changes
  <2>4. Edited(intended, first) \in Seq(Chars)
    BY <1>2, <2>1, EditedType
  <2>5. intended' \in Seq(Chars)
    BY <2>1, <2>2, <2>4, EditedType
  <2> QED BY <2>2, <2>3, <2>5, EditNavInv
<1>6. ASSUME NEW shard \in Shards, LoadShard(shard) PROVE NavInv'
  <2>1. /\ phase = "loading" /\ index' = AddShard(index, shard, FALSE)
        /\ loaded' = Append(loaded, shard) /\ UNCHANGED <<encoding, text, intended, phase>>
    BY <1>6 DEF LoadShard
  <2>2. Seen' = Seen \union Rows(shard)
    BY <1>2, <2>1, SeenWith
  <2>3. shard \in Seq(Documents)
    BY <1>1
  <2>4. index' \in Indexes /\ Holds(index', Seen \union Rows(shard)) /\ Tidy(index')
    BY <1>2, <2>1, <2>3, AddShardFacts
  <2>5. Holds(index', Seen')
    BY <2>2, <2>4
  <2>6. loaded' \in Seq(Shards)
    BY <1>2, <2>1
  <2> QED BY <2>1, <2>4, <2>5, <2>6 DEF NavInv
<1>7. ASSUME NEW shard \in Shards, AppendShard(shard) PROVE NavInv'
  <2>1. /\ phase = "ready" /\ index' = AddShard(index, shard, TRUE)
        /\ loaded' = Append(loaded, shard) /\ UNCHANGED <<encoding, text, intended, phase>>
    BY <1>7 DEF AppendShard
  <2>2. Seen' = Seen \union Rows(shard)
    BY <1>2, <2>1, SeenWith
  <2>3. shard \in Seq(Documents)
    BY <1>1
  <2>4. /\ index' \in Indexes /\ Holds(index', Seen \union Rows(shard)) /\ Tidy(index')
        /\ AllDistinct(index')
    BY <1>2, <2>1, <2>3, AddShardFacts
  <2>5. Holds(index', Seen')
    BY <2>2, <2>4
  <2>6. loaded' \in Seq(Shards)
    BY <1>2, <2>1
  <2> QED BY <2>1, <2>4, <2>5, <2>6 DEF NavInv
<1>8. CASE FinishLoad
  <2>1. /\ index' = DeduplicateReferences(index, Symbols) /\ phase' = "ready"
        /\ UNCHANGED <<encoding, text, intended, loaded>>
    BY <1>8 DEF FinishLoad
  <2>2. Seen' = Seen
    BY <2>1, SameShards
  <2>3. /\ index' \in Indexes /\ Holds(index', Seen) /\ index'.occurrences = index.occurrences
        /\ \A s \in Symbols \intersect Symbols : Distinct(index'.references[s])
    BY <1>2, <2>1, DeduplicateReferencesFacts
  <2> QED BY <1>2, <2>1, <2>2, <2>3 DEF NavInv, Tidy, AllDistinct
<1>9. CASE ReadSnapshot
  <2>1. /\ phase = "ready" /\ index' = Reread(index)
        /\ UNCHANGED <<encoding, text, intended, phase, loaded>>
    BY <1>9 DEF ReadSnapshot
  <2>2. Seen' = Seen
    BY <2>1, SameShards
  <2>3. /\ index' \in Indexes /\ Holds(index', Seen) /\ index'.occurrences = index.occurrences
        /\ index'.references = index.references
    BY <1>2, <2>1, RereadFacts
  <2> QED BY <1>2, <2>1, <2>2, <2>3 DEF NavInv, Tidy, AllDistinct
<1> QED BY <1>3, <1>4, <1>5, <1>6, <1>7, <1>8, <1>9 DEF Next

(* The texts are texts, and every id in the index is one of a path or a symbol
   that it has, whatever the shards, however many, and however large the texts. *)
THEOREM NavigationTypeOK == Spec => []TypeOK
<1>1. NavInv => TypeOK
  <2> SUFFICES ASSUME NavInv PROVE TypeOK
    OBVIOUS
  <2>1. /\ index \in Indexes /\ PathsHold(index) /\ NamesHold(index)
        /\ UsesHold(index, Seen) /\ OccurrencesHold(index, Seen)
    BY DEF NavInv, Holds
  <2>2. \A s \in Symbols : \A i \in DOMAIN index.references[s] :
          index.references[s][i].path \in DOMAIN index.paths
    BY <2>1 DEF UsesHold
  <2>3. \A p \in Paths : \A i \in DOMAIN index.occurrences[p] :
          index.occurrences[p][i].symbol \in DOMAIN index.names
    BY <2>1 DEF OccurrencesHold
  <2>4. \A p \in DOMAIN index.pathIds : index.pathIds[p] \in DOMAIN index.paths
    BY <2>1 DEF PathsHold
  <2>5. RangeOf(index.paths) \subseteq Paths
    BY <2>1, IndexFields DEF RangeOf
  <2>6. RangeOf(index.names) \subseteq Symbols \ Locals
    BY <2>1 DEF NamesHold
  <2>7. IsIndex(index)
    BY <2>2, <2>3, <2>4, <2>5, <2>6 DEF IsIndex
  <2> QED BY <2>7 DEF NavInv, TypeOK
<1> QED BY <1>1, InitNavInv, StepNavInv, PTL DEF Spec

LEMMA DistinctOnce ==
  ASSUME NEW S, NEW s \in Seq(S), Distinct(s)
  PROVE  Once(s)
<1> DEFINE n == Len(s)
           First(i) == {s[j] : j \in 1 .. i}
           T == {i \in 0 .. n : IsFiniteSet(First(i)) /\ Cardinality(First(i)) = i}
<1>1. n \in Nat /\ DOMAIN s = 1 .. n /\ RangeOf(s) = First(n)
  BY DEF RangeOf
<1>2. \A i, j \in 1 .. n : s[i] = s[j] => i = j
  BY <1>1 DEF Distinct
<1> HIDE DEF n
<1>3. 0 \in T
  <2>1. First(0) = {} /\ 0 \in 0 .. n
    BY <1>1
  <2> HIDE DEF First
  <2>2. IsFiniteSet({}) /\ Cardinality({}) = 0
    BY FS_EmptySet
  <2> QED BY <2>1, <2>2
<1>4. ASSUME NEW i \in 1 .. n, i - 1 \in T PROVE i \in T
  <2>1. First(i) = First(i - 1) \union {s[i]}
    <3>1. \A j \in 1 .. i : j \in 1 .. i - 1 \/ j = i
      BY <1>1
    <3>2. \A j \in 1 .. i - 1 : j \in 1 .. i
      BY <1>1
    <3>3. i \in 1 .. i
      BY <1>1
    <3> QED BY <3>1, <3>2, <3>3
  <2>2. s[i] \notin First(i - 1)
    <3>1. \A j \in 1 .. i - 1 : j \in 1 .. n /\ j # i
      BY <1>1
    <3> QED BY <1>2, <3>1
  <2> DEFINE R == First(i - 1)
             x == s[i]
  <2>3. IsFiniteSet(R) /\ Cardinality(R) = i - 1 /\ i \in 0 .. n
    BY <1>1, <1>4
  <2>4. First(i) = R \union {x} /\ x \notin R
    BY <2>1, <2>2
  <2> HIDE DEF R, x, First
  <2>5. /\ IsFiniteSet(R \union {x})
        /\ Cardinality(R \union {x}) = IF x \in R THEN Cardinality(R) ELSE Cardinality(R) + 1
    BY <2>3, FS_AddElement, Zenon
  <2>6. Cardinality(R \union {x}) = i
    BY <2>3, <2>4, <2>5
  <2> QED BY <2>3, <2>4, <2>5, <2>6
<1>5. 0 .. n \subseteq T
  <2> HIDE DEF T
  <2> QED BY <1>1, <1>3, <1>4, UpTo
<1>6. Cardinality(First(n)) = n
  <2>1. n \in 0 .. n
    BY <1>1
  <2> HIDE DEF First
  <2> QED BY <1>5, <2>1
<1> QED BY <1>1, <1>6 DEF Once, n

(* Ids name different paths, so different rows are still different with the
   paths in place of the ids. *)
LEMMA ReferencesDistinct ==
  ASSUME NEW ix \in Indexes, NEW rows, Holds(ix, rows), NEW s \in Symbols,
         Distinct(ix.references[s])
  PROVE  Once(ReferencesTo(ix, s))
<1> DEFINE refs == ix.references[s]
           named == ReferencesTo(ix, s)
           paths == ix.paths
<1>1. refs \in Seq(UseRows) /\ paths \in Seq(Paths)
  BY IndexFields
<1>2. /\ \A i \in DOMAIN refs : refs[i].path \in DOMAIN paths
      /\ Distinct(paths) /\ Distinct(refs)
  BY DEF Holds, UsesHold, PathsHold
<1>3. named = [i \in DOMAIN refs |-> NamedUse(paths, refs[i])]
  BY DEF ReferencesTo, NamedUse
<1> HIDE DEF refs, named, paths
<1>4. DOMAIN refs = 1 .. Len(refs) /\ Len(refs) \in Nat /\ \A i \in DOMAIN refs : refs[i] \in UseRows
  BY <1>1
<1>5. named \in Seq({NamedUse(paths, u) : u \in UseRows})
  <2> DEFINE S == {NamedUse(paths, u) : u \in UseRows}
  <2>1. \A i \in 1 .. Len(refs) : NamedUse(paths, refs[i]) \in S
    BY <1>4
  <2> HIDE DEF S
  <2> QED BY <1>3, <1>4, <2>1, IsASeq
<1>6. Distinct(named)
  <2> SUFFICES ASSUME NEW i \in DOMAIN named, NEW j \in DOMAIN named, named[i] = named[j]
               PROVE  i = j
    BY DEF Distinct
  <2>1. i \in DOMAIN refs /\ j \in DOMAIN refs
    BY <1>3
  <2>2. NamedUse(paths, refs[i]) = NamedUse(paths, refs[j])
    BY <1>3, <2>1
  <2>3. refs[i] \in UseRows /\ refs[j] \in UseRows
    BY <1>4, <2>1
  <2>4. /\ paths[refs[i].path] = paths[refs[j].path]
        /\ refs[i].range = refs[j].range
        /\ refs[i].encoding = refs[j].encoding
        /\ refs[i].import = refs[j].import
    <3> DEFINE a == refs[i]
               b == refs[j]
    <3> HIDE DEF a, b
    <3>1. a \in UseRows /\ b \in UseRows /\ NamedUse(paths, a) = NamedUse(paths, b)
      BY <2>2, <2>3 DEF a, b
    <3>2. \A u \in UseRows : /\ NamedUse(paths, u).path = paths[u.path]
                             /\ NamedUse(paths, u).range = u.range
                             /\ NamedUse(paths, u).encoding = u.encoding
                             /\ NamedUse(paths, u).import = u.import
      BY DEF NamedUse, UseRows
    <3>3. /\ paths[a.path] = paths[b.path]
          /\ a.range = b.range
          /\ a.encoding = b.encoding
          /\ a.import = b.import
      BY <3>1, <3>2
    <3> QED BY <3>3 DEF a, b
  <2>5. refs[i].path = refs[j].path
    BY <1>2, <2>1, <2>4 DEF Distinct
  <2>6. refs[i] = refs[j]
    BY <2>3, <2>4, <2>5 DEF UseRows
  <2> QED BY <1>2, <2>1, <2>6 DEF Distinct
<1> QED BY <1>5, <1>6, DistinctOnce DEF named

LEMMA SitesDistinct ==
  ASSUME NEW ix \in Indexes, NEW rows, Holds(ix, rows)
  PROVE  Once(ix.definitions)
<1>1. ix.definitions \in Seq(Declarations)
  BY IndexFields
<1>2. Distinct(ix.definitions)
  BY DEF Holds, SitesHold, Distinct
<1> QED BY <1>1, <1>2, DistinctOnce

(* However shards overlap, and in whatever order they come, the index of a
   finished load has every declaration site, use and occurrence of its shards
   once and nothing else, and so it stays when shards are added and when it is
   written and read back. *)
THEOREM IndexIsUnion == Spec => []IndexIsUnionOfShards
<1>1. NavInv => IndexIsUnionOfShards
  <2> SUFFICES ASSUME NavInv, phase = "ready"
               PROVE  /\ Once(index.definitions)
                      /\ {SiteOf(def) : def \in RangeOf(index.definitions)} = SitesIn(Seen)
                      /\ \A s \in Symbols :
                           /\ Once(ReferencesTo(index, s))
                           /\ RangeOf(ReferencesTo(index, s)) = UsesIn(Seen, s)
                      /\ \A p \in Paths :
                           /\ Once(index.occurrences[p])
                           /\ {[range |-> o.range, symbol |-> index.names[o.symbol]] :
                                 o \in RangeOf(index.occurrences[p])} = OccurrencesIn(Seen, p)
    BY Zenon DEF IndexIsUnionOfShards, SitesIn, UsesIn, OccurrencesIn, Kept
  <2>1. index \in Indexes /\ Holds(index, Seen) /\ Tidy(index) /\ AllDistinct(index)
    BY DEF NavInv
  <2>2. SitesHold(index, Seen) /\ UsesHold(index, Seen) /\ OccurrencesHold(index, Seen)
    BY <2>1 DEF Holds
  <2>3. Once(index.definitions)
    BY <2>1, SitesDistinct
  <2>4. \A s \in Symbols : Once(ReferencesTo(index, s))
    BY <2>1, ReferencesDistinct DEF AllDistinct
  <2>5. \A p \in Paths : Once(index.occurrences[p])
    <3>1. \A p \in Paths : index.occurrences[p] \in Seq(OccurrenceRows)
      BY <2>1, IndexFields
    <3> QED BY <2>1, <3>1, DistinctOnce DEF Tidy
  <2>6. {SiteOf(def) : def \in RangeOf(index.definitions)} = SitesIn(Seen)
    BY <2>2 DEF SitesHold
  <2>7. \A s \in Symbols : RangeOf(ReferencesTo(index, s)) = UsesIn(Seen, s)
    BY <2>2 DEF UsesHold
  <2>8. \A p \in Paths : {[range |-> o.range, symbol |-> index.names[o.symbol]] :
                            o \in RangeOf(index.occurrences[p])} = OccurrencesIn(Seen, p)
    BY <2>2 DEF OccurrencesHold
  <2> QED BY <2>3, <2>4, <2>5, <2>6, <2>7, <2>8
<1> QED BY <1>1, InitNavInv, StepNavInv, PTL DEF Spec

-----------------------------------------------------------------------------
(* The callable around a place. *)

AtOrAround(def, path, range) ==
  /\ def.path = path
  /\ def.symbol \in Callables
  /\ def.enclosing # None
  /\ Encloses(def.enclosing, range)

LEMMA SpanLenType ==
  ASSUME NEW range \in Ranges
  PROVE  SpanLen(range) \in Nat
<1>1. /\ range.startLine \in Nat /\ range.startCol \in Nat
      /\ range.endLine \in Nat /\ range.endCol \in Nat
      /\ range.startLine <= range.endLine
  BY DEF Ranges, AtOrBefore
<1> DEFINE lines == range.endLine - range.startLine
           columns == range.endCol - range.startCol
           T == {0, columns}
<1>2. lines \in Nat /\ columns \in Int /\ MaxU32 \in Nat
  BY <1>1, CharAssumption
<1> HIDE DEF lines, columns
<1>3. Max(T) \in Nat
  <2>1. \E x \in T : \A y \in T : x >= y
    BY <1>2
  <2>2. Max(T) \in T /\ \A y \in T : Max(T) >= y
    BY <2>1, Zenon DEF Max
  <2> QED BY <1>2, <2>2
<1> HIDE DEF T
<1>4. lines * MaxU32 \in Nat
  BY <1>2
<1>5. lines * MaxU32 + Max(T) \in Nat
  BY <1>3, <1>4
<1> QED BY <1>5 DEF SpanLen, lines, columns, T

(* Among candidates with sizes there is a first smallest. *)
LEMMA FirstSmallestExists ==
  ASSUME NEW C, C \subseteq Nat, C # {}, NEW size, \A i \in C : size[i] \in Nat
  PROVE  \E i \in C : \A j \in C : size[i] < size[j] \/ (size[i] = size[j] /\ i <= j)
<1> DEFINE Sizes == {size[i] : i \in C}
<1>1. PICK least \in Sizes : \A other \in Sizes : least <= other
  <2>1. Sizes \subseteq Nat /\ Sizes # {}
    OBVIOUS
  <2> HIDE DEF Sizes
  <2> QED BY <2>1, LeastOf
<1> DEFINE S == {i \in C : size[i] = least}
<1>2. PICK i \in S : \A j \in S : i <= j
  <2>1. S \subseteq Nat /\ S # {}
    BY <1>1
  <2> HIDE DEF S
  <2> QED BY <2>1, LeastOf
<1>3. i \in C /\ size[i] = least
  BY <1>2
<1>4. ASSUME NEW j \in C PROVE size[i] < size[j] \/ (size[i] = size[j] /\ i <= j)
  <2>1. least <= size[j] /\ size[j] \in Nat /\ least \in Nat
    BY <1>1, <1>3
  <2>2. size[j] = least => i <= j
    BY <1>2
  <2> QED BY <1>3, <2>1, <2>2
<1> QED BY <1>3, <1>4

LEMMA EnclosingCallableFacts ==
  ASSUME NEW ix \in Indexes, NEW path, NEW range
  PROVE  LET callable == EnclosingCallable(ix, path, range)
         IN  /\ callable # None => /\ callable \in RangeOf(ix.definitions)
                                   /\ AtOrAround(callable, path, range)
             /\ (\E def \in RangeOf(ix.definitions) : AtOrAround(def, path, range))
                  => callable # None
<1> DEFINE defs == ix.definitions
           around == {i \in DOMAIN defs :
                        /\ defs[i].path = path
                        /\ defs[i].symbol \in Callables
                        /\ defs[i].enclosing # None
                        /\ Encloses(defs[i].enclosing, range)}
           size == [i \in around |-> SpanLen(defs[i].enclosing)]
           first == CHOOSE i \in around : \A j \in around :
                      \/ SpanLen(defs[i].enclosing) < SpanLen(defs[j].enclosing)
                      \/ (SpanLen(defs[i].enclosing) = SpanLen(defs[j].enclosing) /\ i <= j)
           callable == EnclosingCallable(ix, path, range)
<1>1. callable = IF around = {} THEN None ELSE defs[first]
  BY Zenon DEF EnclosingCallable, FirstSmallest
<1>2. defs \in Seq(Declarations)
  BY IndexFields
<1>3. \A i \in around : SpanLen(defs[i].enclosing) \in Nat
  <2> SUFFICES ASSUME NEW i \in around PROVE SpanLen(defs[i].enclosing) \in Nat
    OBVIOUS
  <2>1. defs[i] \in Declarations /\ defs[i].enclosing # None
    BY <1>2
  <2>2. defs[i].enclosing \in Ranges
    BY <2>1 DEF Declarations
  <2> QED BY <2>2, SpanLenType
<1>4. ASSUME around # {} PROVE first \in around
  <2>1. around \subseteq Nat
    BY <1>2
  <2>2. \A i \in around : size[i] \in Nat /\ size[i] = SpanLen(defs[i].enclosing)
    BY <1>3
  <2>3. \E i \in around : \A j \in around :
          size[i] < size[j] \/ (size[i] = size[j] /\ i <= j)
    <3> HIDE DEF around, size
    <3> QED BY <1>4, <2>1, <2>2, FirstSmallestExists
  <2>4. \E i \in around : \A j \in around :
          \/ SpanLen(defs[i].enclosing) < SpanLen(defs[j].enclosing)
          \/ (SpanLen(defs[i].enclosing) = SpanLen(defs[j].enclosing) /\ i <= j)
    <3> HIDE DEF around, size, defs
    <3> QED BY <2>2, <2>3
  <2> HIDE DEF around
  <2> QED BY <2>4, Zenon
<1>5. \A i \in DOMAIN defs : i \in around <=> AtOrAround(defs[i], path, range)
  BY DEF AtOrAround
<1>6. \A i \in DOMAIN defs : defs[i] \in Declarations /\ defs[i] # None
  BY <1>2, InputAssumption
<1>7. around \subseteq DOMAIN defs
  OBVIOUS
<1> HIDE DEF defs, around, first, callable
<1>8. ASSUME callable # None
      PROVE  callable \in RangeOf(defs) /\ AtOrAround(callable, path, range)
  <2>1. first \in around /\ callable = defs[first]
    BY <1>1, <1>4, <1>8
  <2> QED BY <1>5, <1>7, <2>1 DEF RangeOf
<1>9. ASSUME NEW def \in RangeOf(defs), AtOrAround(def, path, range) PROVE callable # None
  <2>1. PICK i \in DOMAIN defs : defs[i] = def
    BY DEF RangeOf
  <2>2. i \in around
    BY <1>5, <1>9, <2>1
  <2>3. first \in DOMAIN defs /\ callable = defs[first]
    BY <1>1, <1>4, <1>7, <2>2
  <2> QED BY <1>6, <2>3
<1> QED BY <1>8, <1>9 DEF defs, callable

-----------------------------------------------------------------------------
(* Who calls and what is called. *)

(* Where a scan of the occurrences stops that looks for none below a line. *)
ScannedTo(occurrences, line) ==
  LET later == {i \in DOMAIN occurrences : occurrences[i].range.startLine > line}
  IN  IF later = {} THEN DOMAIN occurrences ELSE 1 .. Min(later) - 1

LEMMA ScannedFacts ==
  ASSUME NEW s \in Seq(OccurrenceRows), NEW line \in Nat
  PROVE  /\ ScannedTo(s, line) \subseteq DOMAIN s
         /\ InSourceOrder(s) => \A i \in DOMAIN s :
              s[i].range.startLine <= line => i \in ScannedTo(s, line)
<1> DEFINE later == {i \in DOMAIN s : s[i].range.startLine > line}
<1>1. ScannedTo(s, line) = IF later = {} THEN DOMAIN s ELSE 1 .. Min(later) - 1
  BY DEF ScannedTo
<1>2. /\ DOMAIN s = 1 .. Len(s) /\ Len(s) \in Nat
      /\ \A i \in DOMAIN s : s[i].range.startLine \in Nat
  <2>1. \A i \in DOMAIN s : s[i] \in OccurrenceRows
    OBVIOUS
  <2>2. \A o \in OccurrenceRows : o.range.startLine \in Nat
    BY DEF OccurrenceRows, Ranges
  <2> QED BY <2>1, <2>2
<1>3. later \subseteq 1 .. Len(s)
  BY <1>2
<1>4. \A i \in DOMAIN s : i \in later <=> s[i].range.startLine > line
  OBVIOUS
<1> HIDE DEF later
<1>5. ASSUME later # {} PROVE Min(later) \in later /\ \A i \in later : Min(later) <= i
  <2>1. later \subseteq Nat
    BY <1>2, <1>3
  <2>2. \E x \in later : \A y \in later : x <= y
    BY <1>5, <2>1, LeastOf
  <2> QED BY <2>2, Zenon DEF Min
<1> DEFINE m == Min(later)
<1>6. later # {} => m \in later /\ m \in 1 .. Len(s)
  BY <1>3, <1>5
<1> HIDE DEF m
<1>7. ScannedTo(s, line) = IF later = {} THEN DOMAIN s ELSE 1 .. m - 1
  BY <1>1 DEF m
<1>8. ScannedTo(s, line) \subseteq DOMAIN s
  <2>1. CASE later = {}
    BY <1>7, <2>1
  <2>2. CASE later # {}
    <3>1. m \in 1 .. Len(s) /\ Len(s) \in Nat
      BY <1>2, <1>6, <2>2
    <3>2. 1 .. m - 1 \subseteq 1 .. Len(s)
      BY <3>1
    <3> QED BY <1>2, <1>7, <2>2, <3>2
  <2> QED BY <2>1, <2>2
<1>9. ASSUME InSourceOrder(s), NEW i \in DOMAIN s, s[i].range.startLine <= line
      PROVE  i \in ScannedTo(s, line)
  <2>1. CASE later = {}
    BY <1>7, <2>1
  <2>2. CASE later # {}
    <3>1. m \in DOMAIN s /\ m \in later
      BY <1>2, <1>6, <2>2
    <3>2. m \in DOMAIN s /\ s[m].range.startLine > line
      BY <1>4, <3>1
    <3>3. s[i].range.startLine < s[m].range.startLine
      BY <1>2, <1>9, <3>2
    <3>4. Less(SourceKey(s[i]), SourceKey(s[m]))
      <4> DEFINE a == SourceKey(s[i])
                 b == SourceKey(s[m])
      <4>1. a[1] = s[i].range.startLine /\ b[1] = s[m].range.startLine
        BY DEF SourceKey
      <4>2. 1 \in DOMAIN a \cap DOMAIN b
        BY DEF SourceKey
      <4>3. \A j \in 1 .. 1 - 1 : a[j] = b[j]
        OBVIOUS
      <4> HIDE DEF a, b
      <4>4. Less(a, b)
        BY <3>3, <4>1, <4>2, <4>3 DEF Less
      <4> QED BY <4>4 DEF a, b
    <3>5. ~(m < i) /\ m # i
      BY <1>2, <1>9, <3>2, <3>3, <3>4 DEF InSourceOrder
    <3>6. i \in 1 .. m - 1
      BY <1>2, <3>2, <3>5
    <3> QED BY <1>7, <2>2, <3>6
  <2> QED BY <2>1, <2>2
<1> QED BY <1>8, <1>9

(* A use is where no shard has the declaration of its symbol. *)
LEMMA UsesAreNotDeclared ==
  ASSUME loaded \in Seq(Shards), NEW a \in Seen, NEW b \in Seen,
         a.path = b.path, a.row.symbol = b.row.symbol, a.row.range = b.row.range
  PROVE  a.row.definition = b.row.definition
<1>1. Seen \subseteq UNION {Rows(shard) : shard \in Shards}
  BY DEF Seen
<1>2. a \in UNION {Rows(shard) : shard \in Shards} /\ b \in UNION {Rows(shard) : shard \in Shards}
  BY <1>1
<1> DEFINE All == UNION {Rows(shard) : shard \in Shards}
<1> HIDE DEF All
<1>3. a \in All /\ b \in All
  BY <1>2 DEF All
<1>4. \A x, y \in All :
        (x.path = y.path /\ x.row.symbol = y.row.symbol /\ x.row.range = y.row.range)
          => x.row.definition = y.row.definition
  BY ShardAssumption, Zenon DEF All
<1> QED BY <1>3, <1>4

(* What is in a callable's body, by the rows that say so. *)
CalledFrom(owner, symbol) ==
  \E u \in UsesIn(Seen, symbol) :
    u.path = owner.path /\ Encloses(owner.enclosing, u.range)
      /\ LET callable == EnclosingCallable(index, u.path, u.range)
         IN  callable # None /\ SiteOf(callable) = SiteOf(owner)

(* A response that is not full has everything that was found, and one that is
   cut has nothing else. *)
LEMMA CallLimitedFacts ==
  ASSUME NEW S, NEW s \in Seq(S)
  PROVE  /\ RangeOf(CallLimited(s)) \subseteq RangeOf(s)
         /\ Len(CallLimited(s)) # CallLimit => CallLimited(s) = s
<1>1. Len(s) \in Nat /\ CallLimit \in Nat \ {0} /\ DOMAIN s = 1 .. Len(s)
  BY SearchAssumption
<1> DEFINE n == Min({Len(s), CallLimit})
<1>2. n \in {Len(s), CallLimit} /\ n <= Len(s) /\ n <= CallLimit
  <2> DEFINE T == {Len(s), CallLimit}
  <2>1. T \subseteq Nat /\ T # {}
    BY <1>1
  <2> HIDE DEF T
  <2>2. \E m \in T : \A k \in T : m <= k
    BY <2>1, LeastOf
  <2>3. Min(T) \in T /\ \A k \in T : Min(T) <= k
    BY <2>2, Zenon DEF Min
  <2> QED BY <2>3 DEF T
<1>3. CallLimited(s) = SubSeq(s, 1, n)
  BY DEF CallLimited
<1> HIDE DEF n
<1>4. n \in 0 .. Len(s)
  BY <1>1, <1>2
<1>5. SubSeq(s, 1, n) = [i \in 1 .. n |-> s[i]] /\ Len(SubSeq(s, 1, n)) = n
  BY <1>1, <1>4
<1>6. RangeOf(CallLimited(s)) \subseteq RangeOf(s)
  BY <1>1, <1>3, <1>4, <1>5 DEF RangeOf
<1>7. ASSUME Len(CallLimited(s)) # CallLimit PROVE CallLimited(s) = s
  <2>1. n = Len(s)
    BY <1>2, <1>3, <1>5, <1>7
  <2>2. s = [i \in 1 .. Len(s) |-> s[i]]
    OBVIOUS
  <2> QED BY <1>3, <1>5, <2>1, <2>2
<1> QED BY <1>6, <1>7

LEMMA IncomingAre ==
  ASSUME NavInv, NEW target \in CallableSites, NEW owner \in CallableSites, owner.enclosing # None
  PROVE  /\ SiteOf(owner) \in RangeOf(IncomingCalls(target)) => CalledFrom(owner, target.symbol)
         /\ CalledFrom(owner, target.symbol) => \/ SiteOf(owner) \in RangeOf(IncomingCalls(target))
                                               \/ Len(IncomingCalls(target)) = CallLimit
<1>1. /\ index \in Indexes /\ Holds(index, Seen)
      /\ target \in RangeOf(index.definitions) /\ owner \in RangeOf(index.definitions)
  BY DEF NavInv, CallableSites
<1>2. index.definitions \in Seq(Declarations)
  BY <1>1, IndexFields
<1>3. target.symbol \in Symbols
  <2>1. target \in Declarations
    BY <1>1, <1>2 DEF RangeOf
  <2> QED BY <2>1 DEF Declarations
<1> DEFINE refs == ReferencesTo(index, target.symbol)
           uses == UsesIn(Seen, target.symbol)
           Around(u) == EnclosingCallable(index, u.path, u.range)
<1>4. RangeOf(refs) = uses
  BY <1>1, <1>3 DEF Holds, UsesHold
<1> DEFINE site == SiteOf(owner)
           callers == [i \in DOMAIN refs |->
                         IF Around(refs[i]) = None THEN None ELSE SiteOf(Around(refs[i]))]
           found == Deduplicated(Selected(callers, RangeOf(callers) \ {None}))
<1>5. site # None
  <2>1. owner \in Declarations
    BY <1>1, <1>2 DEF RangeOf
  <2>2. site \in Sites
    BY <2>1 DEF SiteOf, Sites, Declarations
  <2> HIDE DEF site
  <2> QED BY <2>2, InputAssumption
<1>6. callers \in Seq(RangeOf(callers))
  <2>1. index.references[target.symbol] \in Seq(UseRows)
    BY <1>1, <1>3, IndexFields
  <2>2. DOMAIN callers = DOMAIN index.references[target.symbol]
    <3>1. DOMAIN refs = DOMAIN index.references[target.symbol]
      BY DEF ReferencesTo
    <3> HIDE DEF refs, Around
    <3> QED BY <3>1
  <2>3. callers = [i \in DOMAIN callers |-> callers[i]]
    OBVIOUS
  <2>4. DOMAIN callers = 1 .. Len(index.references[target.symbol])
        /\ Len(index.references[target.symbol]) \in Nat
    BY <2>1, <2>2
  <2> HIDE DEF callers
  <2>5. \A i \in DOMAIN callers : callers[i] \in RangeOf(callers)
    BY DEF RangeOf
  <2> QED BY <2>3, <2>4, <2>5, IsASeq
<1>7. site \in RangeOf(callers) <=>
        \E u \in uses : Around(u) # None /\ SiteOf(Around(u)) = site
  <2>1. uses = {refs[i] : i \in DOMAIN refs}
    BY <1>4 DEF RangeOf
  <2> HIDE DEF Around, refs, uses, site
  <2>2. DOMAIN callers = DOMAIN refs
    OBVIOUS
  <2>3. \A i \in DOMAIN refs :
          callers[i] = IF Around(refs[i]) = None THEN None ELSE SiteOf(Around(refs[i]))
    OBVIOUS
  <2> HIDE DEF callers
  <2>4. site \in RangeOf(callers) <=> \E i \in DOMAIN refs : callers[i] = site
    BY <2>2 DEF RangeOf
  <2>5. \A i \in DOMAIN refs : callers[i] = site <=>
          Around(refs[i]) # None /\ SiteOf(Around(refs[i])) = site
    BY <1>5, <2>3
  <2> QED BY <2>1, <2>4, <2>5
<1>8. found \in Seq(RangeOf(callers)) /\ RangeOf(found) = RangeOf(callers) \ {None}
  <2> DEFINE chosen == Selected(callers, RangeOf(callers) \ {None})
  <2> HIDE DEF callers
  <2>1. chosen \in Seq(RangeOf(callers)) /\ RangeOf(chosen) = RangeOf(callers) \ {None}
    BY <1>6, SelectedFacts
  <2> HIDE DEF chosen
  <2>2. Deduplicated(chosen) \in Seq(RangeOf(callers)) /\ RangeOf(Deduplicated(chosen)) = RangeOf(chosen)
    BY <2>1, DeduplicatedFacts
  <2> QED BY <2>1, <2>2 DEF chosen
<1>9. ASSUME NEW u \in uses, Around(u) # None, SiteOf(Around(u)) = SiteOf(owner)
      PROVE  u.path = owner.path /\ Encloses(owner.enclosing, u.range)
  <2>1. Around(u) \in RangeOf(index.definitions) /\ AtOrAround(Around(u), u.path, u.range)
    BY <1>1, <1>9, EnclosingCallableFacts
  <2> DEFINE c == Around(u)
  <2>2. c \in RangeOf(index.definitions) /\ SiteOf(c) = SiteOf(owner)
    BY <1>9, <2>1
  <2> HIDE DEF c
  <2>3. c = owner
    BY <1>1, <2>2 DEF Holds, SitesHold, RangeOf
  <2> QED BY <2>1, <2>3 DEF c, AtOrAround
<1>10. IncomingCalls(target) = CallLimited(found)
  BY Zenon DEF IncomingCalls
<1>11. site \in RangeOf(found) <=> CalledFrom(owner, target.symbol)
  <2>1. site \in RangeOf(found) <=> site \in RangeOf(callers)
    BY <1>5, <1>8
  <2> HIDE DEF uses, found, callers
  <2> QED BY <1>7, <1>9, <2>1, Zenon DEF CalledFrom, uses
<1> HIDE DEF found, site, callers
<1>12. /\ RangeOf(CallLimited(found)) \subseteq RangeOf(found)
       /\ Len(CallLimited(found)) # CallLimit => CallLimited(found) = found
  BY <1>8, CallLimitedFacts
<1> QED BY <1>10, <1>11, <1>12 DEF site

LEMMA OutgoingAre ==
  ASSUME NavInv, NEW target \in CallableSites, NEW owner \in CallableSites, owner.enclosing # None
  PROVE  /\ target.symbol \in RangeOf(OutgoingCalls(owner)) => CalledFrom(owner, target.symbol)
         /\ CalledFrom(owner, target.symbol) => \/ target.symbol \in RangeOf(OutgoingCalls(owner))
                                               \/ Len(OutgoingCalls(owner)) = CallLimit
<1> DEFINE symbol == target.symbol
           occurrences == index.occurrences[owner.path]
           scanned == ScannedTo(occurrences, owner.enclosing.endLine)
           Named(o) == index.names[o.symbol]
           Around(range) == EnclosingCallable(index, owner.path, range)
           OwnedBy(range) == Around(range) = None \/ SiteOf(Around(range)) = SiteOf(owner)
           Declared(range, name) ==
             \E def \in RangeOf(index.definitions) :
               SiteOf(def) = [symbol |-> name, path |-> owner.path, range |-> range]
           Inside(o) == /\ Encloses(owner.enclosing, o.range)
                        /\ OwnedBy(o.range)
                        /\ ~Declared(o.range, Named(o))
<1>1. /\ index \in Indexes /\ Tidy(index) /\ loaded \in Seq(Shards)
      /\ SitesHold(index, Seen) /\ OccurrencesHold(index, Seen)
      /\ target \in RangeOf(index.definitions) /\ owner \in RangeOf(index.definitions)
      /\ symbol \in Callables /\ owner.symbol \in Callables
  BY DEF NavInv, Holds, CallableSites
<1>2. owner \in Declarations
  BY <1>1, IndexFields DEF RangeOf
<1>3. owner.path \in Paths /\ owner.enclosing \in Ranges /\ owner.enclosing.endLine \in Nat
  BY <1>2 DEF Declarations, Ranges
<1>4. occurrences \in Seq(OccurrenceRows) /\ InSourceOrder(occurrences)
  BY <1>1, <1>3, IndexFields DEF Tidy
<1>5. {[range |-> o.range, symbol |-> Named(o)] : o \in RangeOf(occurrences)}
        = OccurrencesIn(Seen, owner.path)
  BY <1>1, <1>3 DEF OccurrencesHold
<1> DEFINE inside == {i \in scanned : Inside(occurrences[i])}
           named == [i \in DOMAIN occurrences |->
                       IF i \in inside THEN Named(occurrences[i]) ELSE None]
           within == WithinCallable(index, owner)
           found == Selected(within, {s \in Callables : Defined(index, s)})
<1>6. within = Deduplicated(Selected(named, Symbols))
  BY Zenon DEF WithinCallable, ScannedTo
<1>7. named \in Seq(RangeOf(named)) /\ DOMAIN named = DOMAIN occurrences
  <2>1. DOMAIN named = DOMAIN occurrences
    OBVIOUS
  <2>2. named = [i \in DOMAIN occurrences |-> named[i]]
    OBVIOUS
  <2>3. DOMAIN occurrences = 1 .. Len(occurrences) /\ Len(occurrences) \in Nat
    BY <1>4
  <2> HIDE DEF named
  <2>4. \A i \in DOMAIN occurrences : named[i] \in RangeOf(named)
    BY <2>1 DEF RangeOf
  <2> QED BY <2>1, <2>2, <2>3, <2>4, IsASeq
<1>8. within \in Seq(RangeOf(named)) /\ RangeOf(within) = RangeOf(named) \intersect Symbols
  <2> HIDE DEF named, within
  <2> DEFINE chosen == Selected(named, Symbols)
  <2>1. chosen \in Seq(RangeOf(named)) /\ RangeOf(chosen) = RangeOf(named) \intersect Symbols
    BY <1>7, SelectedFacts
  <2> HIDE DEF chosen
  <2>2. /\ Deduplicated(chosen) \in Seq(RangeOf(named))
        /\ RangeOf(Deduplicated(chosen)) = RangeOf(chosen)
    BY <2>1, DeduplicatedFacts
  <2> QED BY <1>6, <2>1, <2>2 DEF chosen
<1>9. /\ found \in Seq(RangeOf(named))
      /\ symbol \in RangeOf(found) <=> symbol \in RangeOf(named)
  <2>1. symbol \in Symbols /\ symbol \in {s \in Callables : Defined(index, s)}
    BY <1>1, SymbolAssumption DEF Defined
  <2> DEFINE wanted == {s \in Callables : Defined(index, s)}
  <2> HIDE DEF named, within, symbol, wanted
  <2>2. /\ Selected(within, wanted) \in Seq(RangeOf(named))
        /\ RangeOf(Selected(within, wanted)) = RangeOf(within) \intersect wanted
    BY <1>8, SelectedFacts
  <2> QED BY <1>8, <2>1, <2>2 DEF wanted
<1>10. OutgoingCalls(owner) = CallLimited(found)
  BY Zenon DEF OutgoingCalls
<1> HIDE DEF found, within
<1>11. symbol \in RangeOf(found) <=>
        \E i \in scanned : Inside(occurrences[i]) /\ Named(occurrences[i]) = symbol
  <2>1. symbol # None
    BY <1>1, SymbolAssumption, InputAssumption
  <2>2. scanned \subseteq DOMAIN occurrences
    BY <1>3, <1>4, ScannedFacts
  <2>3. \A i : i \in inside <=> i \in scanned /\ Inside(occurrences[i])
    OBVIOUS
  <2> HIDE DEF occurrences, scanned, Named, Inside, inside, symbol, found
  <2>4. \A i \in DOMAIN occurrences :
          named[i] = symbol <=> i \in inside /\ Named(occurrences[i]) = symbol
    BY <2>1
  <2> HIDE DEF named
  <2>5. symbol \in RangeOf(named) <=> \E i \in DOMAIN occurrences : named[i] = symbol
    BY <1>7 DEF RangeOf
  <2>6. symbol \in RangeOf(found) <=> symbol \in RangeOf(named)
    BY <1>9
  <2>7. (\E i \in DOMAIN occurrences : named[i] = symbol)
          <=> \E i \in scanned : Inside(occurrences[i]) /\ Named(occurrences[i]) = symbol
    BY <2>2, <2>3, <2>4
  <2> QED BY <2>5, <2>6, <2>7
<1>12. /\ RangeOf(CallLimited(found)) \subseteq RangeOf(found)
       /\ Len(CallLimited(found)) # CallLimit => CallLimited(found) = found
  <2> HIDE DEF named, symbol
  <2>1. found \in Seq(RangeOf(named))
    BY <1>9
  <2> QED BY <2>1, CallLimitedFacts
<1> HIDE DEF named
<1>13. \A range, name : Declared(range, name) <=>
        \E k \in KeptOf(Seen) : /\ k.row.definition /\ k.row.symbol = name
                                /\ k.path = owner.path /\ k.row.range = range
  <2> SUFFICES ASSUME NEW range, NEW name
               PROVE  Declared(range, name) <=>
                        \E k \in KeptOf(Seen) : /\ k.row.definition /\ k.row.symbol = name
                                                /\ k.path = owner.path /\ k.row.range = range
    OBVIOUS
  <2> DEFINE site == [symbol |-> name, path |-> owner.path, range |-> range]
  <2>1. {SiteOf(def) : def \in RangeOf(index.definitions)} = SitesIn(Seen)
    BY <1>1 DEF SitesHold
  <2>2. Declared(range, name) <=> site \in SitesIn(Seen)
    BY <2>1
  <2> HIDE DEF Declared
  <2> QED BY <2>2 DEF SitesIn
<1>14. \A range, name : (\E o \in RangeOf(occurrences) : o.range = range /\ Named(o) = name) <=>
        \E k \in KeptOf(Seen) : /\ k.path = owner.path /\ k.row.range = range
                                /\ k.row.symbol = name
  <2> SUFFICES ASSUME NEW range, NEW name
               PROVE  (\E o \in RangeOf(occurrences) : o.range = range /\ Named(o) = name) <=>
                        \E k \in KeptOf(Seen) : /\ k.path = owner.path /\ k.row.range = range
                                                /\ k.row.symbol = name
    OBVIOUS
  <2> DEFINE entry == [range |-> range, symbol |-> name]
  <2>1. entry \in OccurrencesIn(Seen, owner.path) <=>
          \E k \in KeptOf(Seen) : /\ k.path = owner.path /\ k.row.range = range
                                  /\ k.row.symbol = name
    BY DEF OccurrencesIn
  <2> HIDE DEF occurrences, Named
  <2>2. entry \in OccurrencesIn(Seen, owner.path) <=>
          \E o \in RangeOf(occurrences) : o.range = range /\ Named(o) = name
    BY <1>5
  <2> QED BY <2>1, <2>2
<1>15. /\ \A u \in UsesIn(Seen, symbol) : \E k \in KeptOf(Seen) :
            /\ k.path = u.path /\ k.row.range = u.range
            /\ k.row.symbol = symbol /\ ~k.row.definition
       /\ \A k \in KeptOf(Seen) : k.row.symbol = symbol /\ ~k.row.definition =>
            \E u \in UsesIn(Seen, symbol) : u.path = k.path /\ u.range = k.row.range
  <2> DEFINE For(k) == [path |-> k.path, range |-> k.row.range,
                        encoding |-> k.encoding, import |-> k.row.import]
             Using == {k \in KeptOf(Seen) : k.row.symbol = symbol /\ ~k.row.definition}
  <2>1. UsesIn(Seen, symbol) = {For(k) : k \in Using}
    BY DEF UsesIn
  <2>2. \A k : For(k).path = k.path /\ For(k).range = k.row.range
    OBVIOUS
  <2>3. \A k : k \in Using <=> k \in KeptOf(Seen) /\ k.row.symbol = symbol /\ ~k.row.definition
    OBVIOUS
  <2> HIDE DEF For, Using
  <2> QED BY <2>1, <2>2, <2>3
<1>16. \A a, b \in KeptOf(Seen) :
         (a.path = b.path /\ a.row.symbol = b.row.symbol /\ a.row.range = b.row.range)
           => a.row.definition = b.row.definition
  <2>1. KeptOf(Seen) \subseteq Seen
    BY DEF KeptOf
  <2> QED BY <1>1, <2>1, UsesAreNotDeclared
<1>17. CalledFrom(owner, symbol) <=>
         \E u \in UsesIn(Seen, symbol) :
           /\ u.path = owner.path /\ Encloses(owner.enclosing, u.range)
           /\ Around(u.range) # None /\ SiteOf(Around(u.range)) = SiteOf(owner)
  BY DEF CalledFrom
<1>18. \A range : Encloses(owner.enclosing, range) => Around(range) # None
  <2> SUFFICES ASSUME NEW range, Encloses(owner.enclosing, range) PROVE Around(range) # None
    OBVIOUS
  <2>1. AtOrAround(owner, owner.path, range)
    BY <1>1 DEF AtOrAround
  <2> QED BY <1>1, <2>1, EnclosingCallableFacts
<1>19. \A o \in OccurrenceRows : Encloses(owner.enclosing, o.range) =>
         o.range.startLine <= owner.enclosing.endLine
  BY <1>3 DEF OccurrenceRows, Ranges, Encloses, AtOrBefore
<1>20. /\ scanned \subseteq DOMAIN occurrences
       /\ \A i \in DOMAIN occurrences :
            occurrences[i].range.startLine <= owner.enclosing.endLine => i \in scanned
  <2> HIDE DEF occurrences
  <2> QED BY <1>3, <1>4, ScannedFacts
<1> HIDE DEF symbol, occurrences, scanned, Named, Around, Declared
<1>21. ASSUME NEW i \in scanned, Inside(occurrences[i]), Named(occurrences[i]) = symbol
       PROVE  CalledFrom(owner, symbol)
  <2> DEFINE range == occurrences[i].range
  <2>1. /\ Encloses(owner.enclosing, range)
        /\ Around(range) # None /\ SiteOf(Around(range)) = SiteOf(owner)
        /\ ~Declared(range, symbol)
    BY <1>18, <1>21
  <2>2. \E o \in RangeOf(occurrences) : o.range = range /\ Named(o) = symbol
    BY <1>20, <1>21 DEF RangeOf
  <2> HIDE DEF range
  <2>3. \E k \in KeptOf(Seen) : /\ k.path = owner.path /\ k.row.range = range
                                /\ k.row.symbol = symbol /\ ~k.row.definition
    BY <1>13, <1>14, <2>1, <2>2
  <2>4. \E u \in UsesIn(Seen, symbol) : u.path = owner.path /\ u.range = range
    BY <1>15, <2>3
  <2> QED BY <1>17, <2>1, <2>4
<1>22. ASSUME CalledFrom(owner, symbol)
       PROVE  \E i \in scanned : Inside(occurrences[i]) /\ Named(occurrences[i]) = symbol
  <2>1. PICK u \in UsesIn(Seen, symbol) :
          /\ u.path = owner.path /\ Encloses(owner.enclosing, u.range)
          /\ Around(u.range) # None /\ SiteOf(Around(u.range)) = SiteOf(owner)
    BY <1>17, <1>22
  <2>2. PICK k \in KeptOf(Seen) : /\ k.path = owner.path /\ k.row.range = u.range
                                  /\ k.row.symbol = symbol /\ ~k.row.definition
    BY <1>15, <2>1
  <2>3. ~Declared(u.range, symbol)
    BY <1>13, <1>16, <2>2
  <2>4. \E o \in RangeOf(occurrences) : o.range = u.range /\ Named(o) = symbol
    BY <1>14, <2>2
  <2>5. PICK i \in DOMAIN occurrences : occurrences[i].range = u.range
                                        /\ Named(occurrences[i]) = symbol
    BY <2>4 DEF RangeOf
  <2>6. occurrences[i] \in OccurrenceRows
    BY <1>4
  <2>7. i \in scanned
    BY <1>19, <1>20, <2>1, <2>5, <2>6
  <2>8. Inside(occurrences[i])
    BY <2>1, <2>3, <2>5
  <2> QED BY <2>5, <2>7, <2>8
<1>23. symbol \in RangeOf(found) <=> CalledFrom(owner, symbol)
  BY <1>11, <1>21, <1>22
<1> QED BY <1>23, <1>10, <1>12 DEF symbol

(* Who calls this and what this calls are one relation, up to the number of
   calls a response carries: however callables nest, however many sites a
   symbol has and in whatever order the shards came. *)
THEOREM CallsDual == Spec => []CallsAreDual
<1>1. NavInv => CallsAreDual
  <2> SUFFICES ASSUME NavInv,
                      NEW target \in CallableSites,
                      NEW owner \in CallableSites, owner.enclosing # None
               PROVE  /\ SiteOf(owner) \in RangeOf(IncomingCalls(target)) =>
                           \/ target.symbol \in RangeOf(OutgoingCalls(owner))
                           \/ Len(OutgoingCalls(owner)) = CallLimit
                      /\ target.symbol \in RangeOf(OutgoingCalls(owner)) =>
                           \/ SiteOf(owner) \in RangeOf(IncomingCalls(target))
                           \/ Len(IncomingCalls(target)) = CallLimit
    BY Zenon DEF CallsAreDual
  <2> QED BY IncomingAre, OutgoingAre
<1> QED BY <1>1, InitNavInv, StepNavInv, PTL DEF Spec

-----------------------------------------------------------------------------
(* The declarations of a file, in source order. *)

LEMMA PositionsOfFacts ==
  ASSUME NEW ix, ix.definitions \in Seq(Declarations), NEW chosen
  PROVE  /\ PositionsOf(ix, chosen) \in Seq(DOMAIN ix.definitions)
         /\ RangeOf(PositionsOf(ix, chosen)) = DOMAIN ix.definitions \intersect chosen
         /\ Distinct(PositionsOf(ix, chosen))
<1> DEFINE D == DOMAIN ix.definitions
           all == [i \in D |-> i]
<1>1. Len(ix.definitions) \in Nat /\ D = 1 .. Len(ix.definitions)
  OBVIOUS
<1>2. PositionsOf(ix, chosen) = Selected(all, chosen)
  BY DEF PositionsOf
<1>3. \A i \in D : all[i] = i
  OBVIOUS
<1>4. DOMAIN all = D
  OBVIOUS
<1>5. all \in Seq(D)
  <2>1. \A i \in 1 .. Len(ix.definitions) : i \in D
    BY <1>1
  <2>2. [i \in 1 .. Len(ix.definitions) |-> i] \in Seq(D)
    BY <1>1, <2>1, IsASeq
  <2> QED BY <1>1, <2>2
<1> HIDE DEF all, D
<1>6. RangeOf(all) = D /\ Distinct(all)
  BY <1>3, <1>4 DEF RangeOf, Distinct
<1>7. /\ Selected(all, chosen) \in Seq(D)
      /\ RangeOf(Selected(all, chosen)) = D \intersect chosen
      /\ Distinct(Selected(all, chosen))
  BY <1>5, <1>6, SelectedFacts
<1> QED BY <1>2, <1>7 DEF D

(* They come in the order of where their names start. *)
StartsInOrder(defs) ==
  \A i, j \in DOMAIN defs : i < j =>
    AtOrBefore(defs[i].range.startLine, defs[i].range.startCol,
               defs[j].range.startLine, defs[j].range.startCol)

LEMMA DefinitionsInFacts ==
  ASSUME NEW ix \in Indexes, NEW path
  PROVE  /\ DefinitionsIn(ix, path) \in Seq(Declarations)
         /\ StartsInOrder(DefinitionsIn(ix, path))
<1> DEFINE defs == ix.definitions
           n == Len(defs)
           here == PositionsOf(ix, {i \in DOMAIN defs : defs[i].path = path})
           key == [i \in RangeOf(here) |-> <<defs[i].range.startLine, defs[i].range.startCol>>]
           order == SortedBy(here, key)
           sorted == [k \in DOMAIN order |-> defs[order[k]]]
<1>1. defs \in Seq(Declarations) /\ n \in Nat /\ DOMAIN defs = 1 .. n
  BY IndexFields
<1>2. here \in Seq(1 .. n)
  BY <1>1, PositionsOfFacts
<1>3. \A i \in 1 .. n : defs[i].range.startLine \in Nat /\ defs[i].range.startCol \in Nat
  <2> SUFFICES ASSUME NEW i \in 1 .. n
               PROVE  defs[i].range.startLine \in Nat /\ defs[i].range.startCol \in Nat
    OBVIOUS
  <2>1. defs[i] \in Declarations
    BY <1>1
  <2> HIDE DEF defs, n
  <2>2. defs[i].range \in Ranges
    BY <2>1 DEF Declarations
  <2> QED BY <2>2 DEF Ranges
<1>4. DefinitionsIn(ix, path) = sorted
  BY DEF DefinitionsIn
<1> HIDE DEF defs, n, here
<1>5. RangeOf(here) \subseteq 1 .. n
  <2> DEFINE R == 1 .. n
  <2>1. here \in Seq(R)
    BY <1>2
  <2> HIDE DEF R
  <2>2. \A i \in DOMAIN here : here[i] \in R
    BY <2>1
  <2>3. RangeOf(here) \subseteq R
    BY <2>2 DEF RangeOf
  <2> QED BY <2>3 DEF R
<1>6. here \in Seq(RangeOf(here))
  <2>1. Len(here) \in Nat /\ DOMAIN here = 1 .. Len(here)
    BY <1>2
  <2>2. here = [i \in 1 .. Len(here) |-> here[i]]
    BY <1>2
  <2>3. \A i \in 1 .. Len(here) : here[i] \in RangeOf(here)
    BY <2>1 DEF RangeOf
  <2> QED BY <2>1, <2>2, <2>3, IsASeq
<1>7. \A i \in RangeOf(here) : key[i] = <<defs[i].range.startLine, defs[i].range.startCol>>
  OBVIOUS
<1>8. Linear(key, RangeOf(here))
  <2> HIDE DEF key
  <2> SUFFICES ASSUME NEW i \in RangeOf(here) PROVE key[i] \in [1 .. 2 -> Int]
    BY KeysAreLinear DEF Keys
  <2>1. defs[i].range.startLine \in Nat /\ defs[i].range.startCol \in Nat
    BY <1>3, <1>5
  <2> DEFINE t == <<defs[i].range.startLine, defs[i].range.startCol>>
  <2>2. t \in [1 .. 2 -> Int]
    BY <2>1
  <2> HIDE DEF t
  <2> QED BY <1>7, <2>2 DEF t
<1> HIDE DEF key
<1>9. /\ order \in Seq(RangeOf(here))
      /\ Ordered(order, key)
  BY <1>6, <1>8, SortedByFacts
<1> HIDE DEF order
<1>10. \A k \in DOMAIN order : order[k] \in RangeOf(here) /\ order[k] \in 1 .. n
  BY <1>5, <1>9
<1>11. sorted \in Seq(Declarations)
  <2>1. Len(order) \in Nat /\ DOMAIN order = 1 .. Len(order)
    BY <1>9
  <2>2. \A k \in 1 .. Len(order) : defs[order[k]] \in Declarations
    BY <1>1, <1>10, <2>1
  <2> QED BY <2>1, <2>2, IsASeq
<1>12. StartsInOrder(sorted)
  <2> SUFFICES ASSUME NEW i \in DOMAIN sorted, NEW j \in DOMAIN sorted, i < j
               PROVE  AtOrBefore(sorted[i].range.startLine, sorted[i].range.startCol,
                                 sorted[j].range.startLine, sorted[j].range.startCol)
    BY DEF StartsInOrder
  <2>1. i \in DOMAIN order /\ j \in DOMAIN order
        /\ sorted[i] = defs[order[i]] /\ sorted[j] = defs[order[j]]
    OBVIOUS
  <2> HIDE DEF sorted
  <2> DEFINE a == defs[order[i]].range
             b == defs[order[j]].range
  <2>2. ~Less(key[order[j]], key[order[i]])
    BY <1>9, <2>1 DEF Ordered
  <2>3. /\ a.startLine \in Nat /\ a.startCol \in Nat
        /\ b.startLine \in Nat /\ b.startCol \in Nat
    BY <1>3, <1>10, <2>1
  <2>4. /\ key[order[i]] = <<a.startLine, a.startCol>>
        /\ key[order[j]] = <<b.startLine, b.startCol>>
    BY <1>7, <1>10, <2>1
  <2>5. ~Less(<<b.startLine, b.startCol>>, <<a.startLine, a.startCol>>)
    BY <2>2, <2>4
  <2> HIDE DEF a, b
  <2>6. ~(b.startLine < a.startLine)
    <3>1. ASSUME b.startLine < a.startLine
          PROVE  Less(<<b.startLine, b.startCol>>, <<a.startLine, a.startCol>>)
      <4> DEFINE x == <<b.startLine, b.startCol>>
                 y == <<a.startLine, a.startCol>>
      <4>1. 1 \in DOMAIN x \cap DOMAIN y /\ x[1] < y[1]
        BY <3>1
      <4>2. \A m \in 1 .. 1 - 1 : x[m] = y[m]
        OBVIOUS
      <4> HIDE DEF x, y
      <4>3. Less(x, y)
        BY <4>1, <4>2 DEF Less
      <4> QED BY <4>3 DEF x, y
    <3> QED BY <2>5, <3>1
  <2>7. ~(b.startLine = a.startLine /\ b.startCol < a.startCol)
    <3>1. ASSUME b.startLine = a.startLine, b.startCol < a.startCol
          PROVE  Less(<<b.startLine, b.startCol>>, <<a.startLine, a.startCol>>)
      <4> DEFINE x == <<b.startLine, b.startCol>>
                 y == <<a.startLine, a.startCol>>
      <4>1. 2 \in DOMAIN x \cap DOMAIN y /\ x[2] < y[2] /\ x[1] = y[1]
        BY <3>1
      <4>2. \A m \in 1 .. 2 - 1 : m = 1
        OBVIOUS
      <4> HIDE DEF x, y
      <4>3. Less(x, y)
        BY <4>1, <4>2 DEF Less
      <4> QED BY <4>3 DEF x, y
    <3> QED BY <2>5, <3>1
  <2>8. AtOrBefore(a.startLine, a.startCol, b.startLine, b.startCol)
    BY <2>3, <2>6, <2>7 DEF AtOrBefore
  <2> QED BY <2>1, <2>8 DEF a, b
<1> QED BY <1>4, <1>11, <1>12

-----------------------------------------------------------------------------
(* The walk of `document_symbols_from`. *)

(* The declarations that are closed and opened at a declaration. *)
Holding(defs, stack, i) ==
  {k \in DOMAIN stack : Encloses(defs[stack[k]].enclosing, defs[i].range)}

KeptOpen(defs, stack, i) ==
  CHOOSE k \in {0} \union Holding(defs, stack, i) : \A j \in Holding(defs, stack, i) : j <= k

OutlineStep(defs, walk, i) ==
  IF i = 0 THEN [stack |-> <<>>, parents |-> <<>>]
  ELSE LET stack == walk[i - 1].stack
           kept == KeptOpen(defs, stack, i)
           opened == IF defs[i].enclosing = None THEN <<>> ELSE <<i>>
       IN  [stack |-> SubSeq(stack, 1, kept) \o opened,
            parents |-> Append(walk[i - 1].parents, IF kept = 0 THEN 0 ELSE stack[kept])]

Walks == [stack : Seq(Nat), parents : Seq(Nat)]

LEMMA KeptOpenFacts ==
  ASSUME NEW defs, NEW stack \in Seq(Nat), NEW i
  PROVE  LET kept == KeptOpen(defs, stack, i)
         IN  /\ kept \in 0 .. Len(stack)
             /\ kept # 0 => kept \in Holding(defs, stack, i)
             /\ \A j \in Holding(defs, stack, i) : j <= kept
<1> DEFINE T == {0} \union Holding(defs, stack, i)
           n == Len(stack)
<1>1. n \in Nat /\ DOMAIN stack = 1 .. n
  OBVIOUS
<1>2. Holding(defs, stack, i) \subseteq DOMAIN stack
  BY DEF Holding
<1> HIDE DEF n
<1>3. T \subseteq 0 .. n /\ T # {}
  BY <1>1, <1>2
<1> HIDE DEF T
<1>4. Max(T) \in T /\ \A j \in T : j <= Max(T)
  BY <1>1, <1>3, GreatestOf
<1>5. \E k \in T : \A j \in Holding(defs, stack, i) : j <= k
  BY <1>4 DEF T
<1> DEFINE kept == CHOOSE k \in T : \A j \in Holding(defs, stack, i) : j <= k
<1>6. KeptOpen(defs, stack, i) = kept
  BY DEF KeptOpen, T
<1>7. kept \in T /\ \A j \in Holding(defs, stack, i) : j <= kept
  BY <1>5, Zenon
<1> HIDE DEF kept
<1>8. kept \in 0 .. n /\ (kept # 0 => kept \in Holding(defs, stack, i))
  BY <1>3, <1>7 DEF T
<1> QED BY <1>6, <1>7, <1>8 DEF n

LEMMA OutlineDef ==
  ASSUME NEW defs, Len(defs) \in Nat
  PROVE  \E walk \in [0 .. Len(defs) -> Walks] :
           /\ walk = [i \in 0 .. Len(defs) |-> OutlineStep(defs, walk, i)]
           /\ Outline(defs) = walk[Len(defs)].parents
<1> DEFINE n == Len(defs)
           Step(x, i) ==
             [stack |-> SubSeq(x.stack, 1, KeptOpen(defs, x.stack, i))
                          \o (IF defs[i].enclosing = None THEN <<>> ELSE <<i>>),
              parents |-> Append(x.parents, IF KeptOpen(defs, x.stack, i) = 0 THEN 0
                                            ELSE x.stack[KeptOpen(defs, x.stack, i)])]
           g == [i \in 1 .. n |-> [x \in Walks |-> Step(x, i)]]
           start == [stack |-> <<>>, parents |-> <<>>]
<1>1. n \in Nat
  OBVIOUS
<1> HIDE DEF n
<1>2. ASSUME NEW i \in 1 .. n, NEW x \in Walks PROVE Step(x, i) \in Walks
  <2> DEFINE stack == x.stack
             kept == KeptOpen(defs, stack, i)
             opened == IF defs[i].enclosing = None THEN <<>> ELSE <<i>>
  <2>1. stack \in Seq(Nat) /\ x.parents \in Seq(Nat)
    BY DEF Walks
  <2> HIDE DEF stack
  <2>2. kept \in 0 .. Len(stack)
    BY <2>1, KeptOpenFacts
  <2> HIDE DEF kept
  <2>3. SubSeq(stack, 1, kept) \in Seq(Nat)
    BY <2>1, <2>2
  <2>4. opened \in Seq(Nat)
    BY <1>1
  <2> HIDE DEF opened
  <2>5. SubSeq(stack, 1, kept) \o opened \in Seq(Nat)
    BY <2>3, <2>4
  <2>6. (IF kept = 0 THEN 0 ELSE stack[kept]) \in Nat
    BY <2>1, <2>2
  <2>7. Append(x.parents, IF kept = 0 THEN 0 ELSE stack[kept]) \in Seq(Nat)
    BY <2>1, <2>6
  <2> QED BY <2>5, <2>7 DEF Walks, opened, kept, stack
<1> HIDE DEF Step
<1>3. g \in [1 .. n -> [Walks -> Walks]]
  BY <1>2
<1>4. start \in Walks
  BY DEF Walks
<1>5. \A i \in 1 .. n, x \in Walks : g[i][x] = Step(x, i)
  OBVIOUS
<1> HIDE DEF g, start
<1>6. PICK f : Iterates(f, n, Walks, start, g)
  BY <1>1, <1>3, <1>4, Recursion
<1>7. f = [i \in 0 .. n |-> OutlineStep(defs, f, i)]
  <2> SUFFICES ASSUME NEW i \in 0 .. n PROVE f[i] = OutlineStep(defs, f, i)
    BY <1>6 DEF Iterates
  <2>1. i # 0 => i \in 1 .. n /\ f[i - 1] \in Walks
    BY <1>1, <1>6 DEF Iterates
  <2>2. i # 0 => g[i][f[i - 1]] = Step(f[i - 1], i)
    BY <1>5, <2>1
  <2>3. i # 0 => Step(f[i - 1], i) = OutlineStep(defs, f, i)
    BY DEF Step, OutlineStep
  <2>4. f[i] = IF i = 0 THEN start ELSE g[i][f[i - 1]]
    BY <1>6, <2>1 DEF Iterates
  <2>5. i = 0 => start = OutlineStep(defs, f, i)
    BY DEF OutlineStep, start
  <2> QED BY <2>2, <2>3, <2>4, <2>5
<1> DEFINE walk[i \in 0 .. Len(defs)] ==
        IF i = 0 THEN [stack |-> <<>>, parents |-> <<>>]
        ELSE LET stack == walk[i - 1].stack
                 holds == {k \in DOMAIN stack :
                             Encloses(defs[stack[k]].enclosing, defs[i].range)}
                 kept == CHOOSE k \in {0} \union holds : \A j \in holds : j <= k
                 opened == IF defs[i].enclosing = None THEN <<>> ELSE <<i>>
             IN  [stack |-> SubSeq(stack, 1, kept) \o opened,
                  parents |-> Append(walk[i - 1].parents,
                                     IF kept = 0 THEN 0 ELSE stack[kept])]
<1>8. walk = [i \in 0 .. n |-> OutlineStep(defs, walk, i)]
  BY <1>7, Zenon DEF OutlineStep, KeptOpen, Holding, n
<1>9. Outline(defs) = walk[n].parents
  BY Zenon DEF Outline, n
<1> HIDE DEF walk
<1>10. walk \in [0 .. n -> Walks]
  <2> DEFINE T == {i \in 0 .. n : walk[i] \in Walks}
  <2>1. 0 \in T
    <3>1. walk[0] = OutlineStep(defs, walk, 0) /\ 0 \in 0 .. n
      BY <1>1, <1>8
    <3> QED BY <1>4, <3>1 DEF OutlineStep, start
  <2>2. ASSUME NEW i \in 1 .. n, i - 1 \in T PROVE i \in T
    <3>1. walk[i] = OutlineStep(defs, walk, i) /\ i # 0 /\ i \in 0 .. n
      BY <1>1, <1>8
    <3>2. walk[i - 1] \in Walks
      BY <2>2
    <3>3. OutlineStep(defs, walk, i) = Step(walk[i - 1], i)
      BY <3>1 DEF Step, OutlineStep
    <3> QED BY <1>2, <3>1, <3>2, <3>3
  <2>3. 0 .. n \subseteq T
    <3> HIDE DEF T
    <3> QED BY <1>1, <2>1, <2>2, UpTo
  <2> QED BY <1>8, <2>3
<1> QED BY <1>8, <1>9, <1>10, Zenon DEF n

-----------------------------------------------------------------------------
(* What is on the stack, and the outline it leaves. *)

NamesApart(a, b) ==
  \/ AtOrBefore(a.endLine, a.endCol, b.startLine, b.startCol)
  \/ AtOrBefore(b.endLine, b.endCol, a.startLine, a.startCol)

(* The files that OutlineNests is about. *)
Plain(defs) ==
  \A i \in DOMAIN defs :
    /\ ~NamesApart(defs[i].range, defs[i].range)
    /\ defs[i].enclosing # None => Encloses(defs[i].enclosing, defs[i].range)
    /\ \A j \in DOMAIN defs \ {i} : NamesApart(defs[i].range, defs[j].range)

Holder(defs, j, i) ==
  /\ j \in 1 .. i - 1
  /\ defs[j].enclosing # None
  /\ Encloses(defs[j].enclosing, defs[i].range)

LEMMA BeforeAgain ==
  ASSUME NEW l1 \in Nat, NEW c1 \in Nat, NEW l2 \in Nat, NEW c2 \in Nat,
         NEW l3 \in Nat, NEW c3 \in Nat,
         AtOrBefore(l1, c1, l2, c2), AtOrBefore(l2, c2, l3, c3)
  PROVE  AtOrBefore(l1, c1, l3, c3)
BY DEF AtOrBefore

(* A declaration that holds a later one holds all between them. *)
LEMMA HoldsBetween ==
  ASSUME NEW defs \in Seq(Declarations), StartsInOrder(defs), Plain(defs),
         NEW j \in DOMAIN defs, NEW m \in DOMAIN defs, NEW i \in DOMAIN defs,
         j < m, m < i, Holder(defs, j, i)
  PROVE  Holder(defs, j, m)
<1> DEFINE outer == defs[j].enclosing
           first == defs[j].range
           middle == defs[m].range
           last == defs[i].range
<1>1. outer # None /\ Encloses(outer, last)
  BY DEF Holder
<1>2. Encloses(outer, first)
  BY <1>1 DEF Plain
<1>3. /\ AtOrBefore(first.startLine, first.startCol, middle.startLine, middle.startCol)
      /\ AtOrBefore(middle.startLine, middle.startCol, last.startLine, last.startCol)
  BY DEF StartsInOrder
<1>4. ~NamesApart(last, last) /\ NamesApart(middle, last)
  BY DEF Plain
<1>5. outer \in Ranges /\ first \in Ranges /\ middle \in Ranges /\ last \in Ranges
  <2>1. defs[j] \in Declarations /\ defs[m] \in Declarations /\ defs[i] \in Declarations
    OBVIOUS
  <2> QED BY <1>1, <2>1 DEF Declarations
<1>6. j \in 1 .. m - 1
  OBVIOUS
<1> HIDE DEF outer, first, middle, last
<1>7. /\ outer.startLine \in Nat /\ outer.startCol \in Nat
      /\ outer.endLine \in Nat /\ outer.endCol \in Nat
      /\ first.startLine \in Nat /\ first.startCol \in Nat
      /\ middle.startLine \in Nat /\ middle.startCol \in Nat
      /\ middle.endLine \in Nat /\ middle.endCol \in Nat
      /\ last.startLine \in Nat /\ last.startCol \in Nat
      /\ last.endLine \in Nat /\ last.endCol \in Nat
      /\ AtOrBefore(last.startLine, last.startCol, last.endLine, last.endCol)
  BY <1>5 DEF Ranges
<1>8. AtOrBefore(outer.startLine, outer.startCol, middle.startLine, middle.startCol)
  <2>1. AtOrBefore(outer.startLine, outer.startCol, first.startLine, first.startCol)
    BY <1>2 DEF Encloses
  <2> QED BY <1>3, <1>7, <2>1, BeforeAgain
<1>9. AtOrBefore(middle.endLine, middle.endCol, last.startLine, last.startCol)
  <2>1. ASSUME AtOrBefore(last.endLine, last.endCol, middle.startLine, middle.startCol)
        PROVE  FALSE
    <3>1. AtOrBefore(last.endLine, last.endCol, last.startLine, last.startCol)
      BY <1>3, <1>7, <2>1, BeforeAgain
    <3> QED BY <1>4, <3>1 DEF NamesApart
  <2> QED BY <1>4, <2>1 DEF NamesApart
<1>10. AtOrBefore(middle.endLine, middle.endCol, outer.endLine, outer.endCol)
  <2>1. AtOrBefore(last.endLine, last.endCol, outer.endLine, outer.endCol)
    BY <1>1 DEF Encloses
  <2>2. AtOrBefore(middle.endLine, middle.endCol, last.endLine, last.endCol)
    BY <1>7, <1>9, BeforeAgain
  <2> QED BY <1>7, <2>1, <2>2, BeforeAgain
<1>11. Encloses(outer, middle)
  BY <1>8, <1>10 DEF Encloses
<1> QED BY <1>1, <1>6, <1>11 DEF Holder, outer, middle

(* After m declarations the stack has, in their order, all that hold a later
   one, and each declaration's parent is the last before it that holds it. *)
WalkHolds(defs, stack, parents, m) ==
  /\ stack \in Seq(Nat) /\ parents \in Seq(Nat)
  /\ Len(parents) = m
  /\ \A k \in DOMAIN stack : stack[k] \in 1 .. m /\ defs[stack[k]].enclosing # None
  /\ \A k, l \in DOMAIN stack : k < l => stack[k] < stack[l]
  /\ \A i \in m + 1 .. Len(defs), j \in 1 .. m :
       Holder(defs, j, i) => \E k \in DOMAIN stack : stack[k] = j
  /\ \A i \in 1 .. m : /\ parents[i] = 0 \/ Holder(defs, parents[i], i)
                       /\ \A j \in 1 .. m : Holder(defs, j, i) => j <= parents[i]

LEMMA WalkStep ==
  ASSUME NEW defs \in Seq(Declarations), StartsInOrder(defs), Plain(defs),
         NEW m \in DOMAIN defs, NEW stack, NEW parents, WalkHolds(defs, stack, parents, m - 1)
  PROVE  LET kept == KeptOpen(defs, stack, m)
         IN  WalkHolds(defs,
               SubSeq(stack, 1, kept) \o (IF defs[m].enclosing = None THEN <<>> ELSE <<m>>),
               Append(parents, IF kept = 0 THEN 0 ELSE stack[kept]), m)
<1> DEFINE n == Len(defs)
           kept == KeptOpen(defs, stack, m)
           opened == IF defs[m].enclosing = None THEN <<>> ELSE <<m>>
           top == IF kept = 0 THEN 0 ELSE stack[kept]
           newStack == SubSeq(stack, 1, kept) \o opened
           newParents == Append(parents, top)
<1>1. n \in Nat /\ m \in 1 .. n /\ DOMAIN defs = 1 .. n
  OBVIOUS
<1>2. /\ stack \in Seq(Nat) /\ parents \in Seq(Nat) /\ Len(parents) = m - 1
      /\ \A k \in DOMAIN stack : stack[k] \in 1 .. m - 1 /\ defs[stack[k]].enclosing # None
      /\ \A k, l \in DOMAIN stack : k < l => stack[k] < stack[l]
  BY <1>1 DEF WalkHolds
<1>3. \A i \in m .. n, j \in 1 .. m - 1 :
        Holder(defs, j, i) => \E k \in DOMAIN stack : stack[k] = j
  BY <1>1 DEF WalkHolds
<1>4. \A i \in 1 .. m - 1 :
        /\ parents[i] = 0 \/ Holder(defs, parents[i], i)
        /\ \A j \in 1 .. m - 1 : Holder(defs, j, i) => j <= parents[i]
  BY DEF WalkHolds
<1>5. /\ kept \in 0 .. Len(stack)
      /\ kept # 0 => kept \in Holding(defs, stack, m)
      /\ \A j \in Holding(defs, stack, m) : j <= kept
  BY <1>2, KeptOpenFacts
<1> HIDE DEF n, kept
<1>6. \A k \in DOMAIN stack : k \in Holding(defs, stack, m) <=> Holder(defs, stack[k], m)
  BY <1>2 DEF Holding, Holder
<1>7. Holding(defs, stack, m) \subseteq DOMAIN stack /\ DOMAIN stack = 1 .. Len(stack)
      /\ Len(stack) \in Nat
  BY <1>2 DEF Holding
<1>8. /\ newStack \in Seq(Nat)
      /\ \A k \in 1 .. kept : k \in DOMAIN newStack /\ newStack[k] = stack[k]
      /\ \A k \in DOMAIN newStack : k \in 1 .. kept \/ k = kept + 1
      /\ kept + 1 \in DOMAIN newStack <=> defs[m].enclosing # None
      /\ defs[m].enclosing # None => newStack[kept + 1] = m
  <2> DEFINE lower == SubSeq(stack, 1, kept)
  <2>1. /\ kept \in Nat /\ lower \in Seq(Nat) /\ Len(lower) = kept
        /\ \A k \in 1 .. kept : lower[k] = stack[k]
    BY <1>2, <1>5
  <2> HIDE DEF lower
  <2>2. CASE defs[m].enclosing = None
    <3>1. newStack = lower
      BY <2>1, <2>2 DEF lower
    <3> HIDE DEF newStack
    <3>2. kept + 1 \notin DOMAIN lower /\ DOMAIN lower = 1 .. kept
      BY <2>1
    <3> QED BY <2>1, <2>2, <3>1, <3>2
  <2>3. CASE defs[m].enclosing # None
    <3>1. newStack = Append(lower, m)
      BY <2>1, <2>3 DEF lower
    <3> HIDE DEF newStack
    <3>2. /\ newStack \in Seq(Nat) /\ DOMAIN newStack = 1 .. kept + 1
          /\ \A k \in 1 .. kept : newStack[k] = lower[k]
          /\ newStack[kept + 1] = m
      BY <1>1, <2>1, <3>1
    <3> QED BY <2>1, <2>3, <3>2
  <2> QED BY <2>2, <2>3
<1>9. /\ newParents \in Seq(Nat) /\ Len(newParents) = m
      /\ \A i \in 1 .. m - 1 : newParents[i] = parents[i]
      /\ newParents[m] = top
  <2>1. top \in Nat
    BY <1>2, <1>5, <1>7
  <2> HIDE DEF top
  <2> QED BY <1>1, <1>2, <2>1
<1> HIDE DEF newStack, newParents, opened
<1>10. \A k \in DOMAIN newStack : k \in 1 .. kept \/ (k = kept + 1 /\ defs[m].enclosing # None)
  BY <1>8
<1>11. \A k \in 1 .. kept : k \in DOMAIN stack
  BY <1>5, <1>7
<1>12. ASSUME NEW k \in DOMAIN newStack
       PROVE  newStack[k] \in 1 .. m /\ defs[newStack[k]].enclosing # None
  <2>1. CASE k \in 1 .. kept
    BY <1>1, <1>2, <1>8, <1>11, <2>1
  <2>2. CASE k = kept + 1 /\ defs[m].enclosing # None
    BY <1>1, <1>8, <2>2
  <2> QED BY <1>10, <2>1, <2>2
<1>13. ASSUME NEW k \in DOMAIN newStack, NEW l \in DOMAIN newStack, k < l
       PROVE  newStack[k] < newStack[l]
  <2>1. CASE l \in 1 .. kept
    <3>1. k \in 1 .. kept
      BY <1>5, <1>7, <1>8, <1>13, <2>1
    <3> QED BY <1>2, <1>8, <1>11, <1>13, <2>1, <3>1
  <2>2. CASE l = kept + 1 /\ defs[m].enclosing # None
    <3>1. k \in 1 .. kept
      BY <1>5, <1>7, <1>10, <1>13, <2>2
    <3>2. newStack[k] = stack[k] /\ stack[k] \in 1 .. m - 1 /\ newStack[l] = m
      BY <1>2, <1>8, <1>11, <2>2, <3>1
    <3> QED BY <1>1, <3>2
  <2> QED BY <1>10, <2>1, <2>2
<1>14. ASSUME NEW i \in m + 1 .. n, NEW j \in 1 .. m, Holder(defs, j, i)
       PROVE  \E k \in DOMAIN newStack : newStack[k] = j
  <2>1. CASE j = m
    <3>1. defs[m].enclosing # None
      BY <1>14, <2>1 DEF Holder
    <3>2. kept + 1 \in DOMAIN newStack /\ newStack[kept + 1] = m
      BY <1>8, <3>1
    <3> QED BY <2>1, <3>2
  <2>2. CASE j # m
    <3>1. j \in DOMAIN defs /\ i \in DOMAIN defs /\ j < m /\ m < i /\ j \in 1 .. m - 1
          /\ m \in m .. n
      BY <1>1, <2>2
    <3>2. Holder(defs, j, m)
      BY <1>14, <3>1, HoldsBetween
    <3>3. PICK k \in DOMAIN stack : stack[k] = j
      BY <1>3, <3>1, <3>2
    <3>4. k \in Holding(defs, stack, m)
      BY <1>6, <3>2, <3>3
    <3>5. k \in 1 .. kept
      BY <1>5, <1>7, <3>4
    <3>6. k \in DOMAIN newStack /\ newStack[k] = j
      BY <1>5, <1>7, <1>8, <3>3, <3>5
    <3> QED BY <3>6
  <2> QED BY <2>1, <2>2
<1>15. top = 0 \/ Holder(defs, top, m)
  BY <1>5, <1>6, <1>7
<1>16. ASSUME NEW j \in 1 .. m, Holder(defs, j, m) PROVE j <= top
  <2>1. j \in 1 .. m - 1 /\ m \in m .. n
    BY <1>1, <1>16 DEF Holder
  <2>2. PICK k \in DOMAIN stack : stack[k] = j
    BY <1>3, <1>16, <2>1
  <2>3. k \in Holding(defs, stack, m)
    BY <1>6, <1>16, <2>2
  <2>4. k <= kept /\ k \in 1 .. Len(stack)
    BY <1>5, <1>7, <2>3
  <2>5. kept \in DOMAIN stack /\ kept # 0 /\ k \in DOMAIN stack
    BY <1>5, <1>7, <2>4
  <2>6. stack[k] <= stack[kept]
    <3>1. k = kept => stack[k] = stack[kept]
      OBVIOUS
    <3>2. k # kept => k < kept
      BY <1>5, <2>4
    <3>3. stack[k] \in Nat /\ stack[kept] \in Nat
      BY <1>2, <2>5
    <3> QED BY <1>2, <2>5, <3>1, <3>2, <3>3
  <2> QED BY <2>2, <2>5, <2>6
<1> HIDE DEF top
<1>17. ASSUME NEW i \in 1 .. m
       PROVE  /\ newParents[i] = 0 \/ Holder(defs, newParents[i], i)
              /\ \A j \in 1 .. m : Holder(defs, j, i) => j <= newParents[i]
  <2>1. CASE i = m
    BY <1>9, <1>15, <1>16, <2>1
  <2>2. CASE i # m
    <3>1. i \in 1 .. m - 1
      BY <1>1, <2>2
    <3>2. \A j \in 1 .. m : Holder(defs, j, i) => j \in 1 .. m - 1
      BY <1>1, <3>1 DEF Holder
    <3> QED BY <1>4, <1>9, <3>1, <3>2
  <2> QED BY <2>1, <2>2
<1>18. WalkHolds(defs, newStack, newParents, m)
  BY <1>8, <1>9, <1>12, <1>13, <1>14, <1>17 DEF WalkHolds, n
<1> QED BY <1>18 DEF newStack, newParents, opened, top, kept

LEMMA OutlineFacts ==
  ASSUME NEW defs \in Seq(Declarations), StartsInOrder(defs), Plain(defs), NEW i \in DOMAIN defs
  PROVE  LET parent == Outline(defs)[i]
         IN  /\ parent = 0 \/ Holder(defs, parent, i)
             /\ \A j \in 1 .. i - 1 : Holder(defs, j, i) =>
                  parent # 0 /\ Encloses(defs[j].enclosing, defs[parent].range)
<1> DEFINE n == Len(defs)
<1>1. n \in Nat /\ DOMAIN defs = 1 .. n
  OBVIOUS
<1>2. PICK walk \in [0 .. n -> Walks] :
        /\ walk = [m \in 0 .. n |-> OutlineStep(defs, walk, m)]
        /\ Outline(defs) = walk[n].parents
  BY <1>1, OutlineDef
<1> HIDE DEF n
<1> DEFINE T == {m \in 0 .. n : WalkHolds(defs, walk[m].stack, walk[m].parents, m)}
<1>3. 0 \in T
  <2>1. walk[0] = OutlineStep(defs, walk, 0) /\ 0 \in 0 .. n
    BY <1>1, <1>2
  <2>2. walk[0].stack = <<>> /\ walk[0].parents = <<>>
    BY <2>1 DEF OutlineStep
  <2>3. WalkHolds(defs, <<>>, <<>>, 0)
    BY DEF WalkHolds
  <2> QED BY <2>1, <2>2, <2>3
<1>4. ASSUME NEW m \in 1 .. n, m - 1 \in T PROVE m \in T
  <2>1. walk[m] = OutlineStep(defs, walk, m) /\ m # 0 /\ m \in 0 .. n /\ m \in DOMAIN defs
    BY <1>1, <1>2
  <2> DEFINE stack == walk[m - 1].stack
             parents == walk[m - 1].parents
             kept == KeptOpen(defs, stack, m)
             newStack == SubSeq(stack, 1, kept)
                           \o (IF defs[m].enclosing = None THEN <<>> ELSE <<m>>)
             newParents == Append(parents, IF kept = 0 THEN 0 ELSE stack[kept])
  <2>2. walk[m] = [stack |-> newStack, parents |-> newParents]
    BY <2>1, Zenon DEF OutlineStep
  <2>3. WalkHolds(defs, stack, parents, m - 1)
    BY <1>4
  <2> HIDE DEF stack, parents
  <2>4. WalkHolds(defs, newStack, newParents, m)
    BY <2>1, <2>3, WalkStep
  <2> HIDE DEF newStack, newParents
  <2>5. walk[m].stack = newStack /\ walk[m].parents = newParents
    BY <2>2
  <2> QED BY <2>1, <2>5, <2>4
<1>5. 0 .. n \subseteq T
  <2> HIDE DEF T
  <2> QED BY <1>1, <1>3, <1>4, UpTo
<1> DEFINE parents == Outline(defs)
           parent == parents[i]
<1>6. n \in T
  BY <1>1, <1>5
<1>7. WalkHolds(defs, walk[n].stack, parents, n)
  BY <1>2, <1>6
<1>8. /\ parent = 0 \/ Holder(defs, parent, i)
      /\ \A j \in 1 .. n : Holder(defs, j, i) => j <= parent
  BY <1>1, <1>7 DEF WalkHolds
<1> HIDE DEF parent
<1>9. ASSUME NEW j \in 1 .. i - 1, Holder(defs, j, i)
      PROVE  parent # 0 /\ Encloses(defs[j].enclosing, defs[parent].range)
  <2>1. j \in 1 .. n /\ j <= parent /\ j # 0
    BY <1>1, <1>8, <1>9
  <2>2. parent # 0
    BY <1>8, <2>1
  <2>3. Holder(defs, parent, i) /\ parent \in 1 .. i - 1 /\ parent \in DOMAIN defs
    BY <1>1, <1>8, <2>2 DEF Holder
  <2>4. CASE j = parent
    <3>1. defs[parent].enclosing # None
      BY <2>3 DEF Holder
    <3>2. Encloses(defs[parent].enclosing, defs[parent].range)
      BY <2>3, <3>1 DEF Plain
    <3> QED BY <2>2, <2>4, <3>2
  <2>5. CASE j # parent
    <3>1. j < parent /\ parent < i /\ j \in DOMAIN defs
      BY <1>1, <2>1, <2>3, <2>5
    <3>2. Holder(defs, j, parent)
      BY <1>9, <2>3, <3>1, HoldsBetween
    <3> QED BY <2>2, <3>2 DEF Holder
  <2> QED BY <2>4, <2>5
<1> QED BY <1>8, <1>9 DEF parent

(* However the spans of declarations overlap, a file's outline hangs each of
   them under the innermost earlier one whose span its name is in, whatever the
   shards and in whatever order they were loaded and written to snapshots. *)
THEOREM OutlineIsNested == Spec => []OutlineNests
<1>1. NavInv => OutlineNests
  <2> SUFFICES ASSUME NavInv, NEW p \in Paths,
                      Plain(DefinitionsIn(index, p)), NEW i \in DOMAIN DefinitionsIn(index, p)
               PROVE  LET defs == DefinitionsIn(index, p)
                          parents == Outline(defs)
                          holders == {j \in 1 .. i - 1 :
                                        /\ defs[j].enclosing # None
                                        /\ Encloses(defs[j].enclosing, defs[i].range)}
                      IN  /\ parents[i] \in holders \union {0}
                          /\ \A j \in holders :
                               /\ parents[i] # 0
                               /\ Encloses(defs[j].enclosing, defs[parents[i]].range)
    BY DEF OutlineNests, Plain, NamesApart
  <2> DEFINE defs == DefinitionsIn(index, p)
             parents == Outline(defs)
  <2>1. index \in Indexes
    BY DEF NavInv
  <2>2. defs \in Seq(Declarations) /\ StartsInOrder(defs)
    BY <2>1, DefinitionsInFacts
  <2>3. /\ parents[i] = 0 \/ Holder(defs, parents[i], i)
        /\ \A j \in 1 .. i - 1 : Holder(defs, j, i) =>
             parents[i] # 0 /\ Encloses(defs[j].enclosing, defs[parents[i]].range)
    BY <2>2, OutlineFacts
  <2> HIDE DEF parents
  <2> QED BY <2>3 DEF Holder, parents
<1> QED BY <1>1, InitNavInv, StepNavInv, PTL DEF Spec

-----------------------------------------------------------------------------
(***************************************************************************)
(* Texts.  A text is measured by three functions of the number of its      *)
(* first characters: their bytes, their UTF-16 units and their lines.      *)
(***************************************************************************)

Measured(t, p, u, m) ==
  /\ p \in [0 .. Len(t) -> Nat] /\ p[0] = 0
  /\ u \in [0 .. Len(t) -> Nat] /\ u[0] = 0
  /\ m \in [0 .. Len(t) -> Nat] /\ m[0] = 0
  /\ \A i \in 1 .. Len(t) : /\ p[i] = p[i - 1] + Bytes[t[i]]
                            /\ u[i] = u[i - 1] + Units[t[i]]
                            /\ m[i] = m[i - 1] + (IF t[i] = Newline THEN 1 ELSE 0)

LEMMA AddsUp ==
  ASSUME NEW n \in Nat, NEW w \in [1 .. n -> Nat]
  PROVE  \E p \in [0 .. n -> Nat] : p[0] = 0 /\ \A i \in 1 .. n : p[i] = p[i - 1] + w[i]
<1> DEFINE g == [i \in 1 .. n |-> [x \in Nat |-> x + w[i]]]
<1>1. g \in [1 .. n -> [Nat -> Nat]]
  OBVIOUS
<1>2. \A i \in 1 .. n, x \in Nat : g[i][x] = x + w[i]
  OBVIOUS
<1> HIDE DEF g
<1>3. PICK p : Iterates(p, n, Nat, 0, g)
  BY <1>1, Recursion
<1>4. p \in [0 .. n -> Nat] /\ p[0] = 0
  BY <1>3 DEF Iterates
<1>5. ASSUME NEW i \in 1 .. n PROVE p[i] = p[i - 1] + w[i]
  <2>1. p[i] = g[i][p[i - 1]] /\ p[i - 1] \in Nat
    BY <1>3 DEF Iterates
  <2> QED BY <1>2, <2>1
<1> QED BY <1>4, <1>5

LEMMA MeasuredExists ==
  ASSUME NEW t \in Seq(Chars)
  PROVE  \E p, u, m : Measured(t, p, u, m)
<1> DEFINE n == Len(t)
           pw == [i \in 1 .. n |-> Bytes[t[i]]]
           uw == [i \in 1 .. n |-> Units[t[i]]]
           mw == [i \in 1 .. n |-> IF t[i] = Newline THEN 1 ELSE 0]
<1>1. n \in Nat /\ \A i \in 1 .. n : t[i] \in Chars
  OBVIOUS
<1>2. pw \in [1 .. n -> Nat] /\ uw \in [1 .. n -> Nat] /\ mw \in [1 .. n -> Nat]
  BY <1>1, CharAssumption
<1>3. \A i \in 1 .. n : /\ pw[i] = Bytes[t[i]] /\ uw[i] = Units[t[i]]
                        /\ mw[i] = IF t[i] = Newline THEN 1 ELSE 0
  OBVIOUS
<1> HIDE DEF pw, uw, mw
<1>4. PICK p \in [0 .. n -> Nat] : p[0] = 0 /\ \A i \in 1 .. n : p[i] = p[i - 1] + pw[i]
  BY <1>1, <1>2, AddsUp
<1>5. PICK u \in [0 .. n -> Nat] : u[0] = 0 /\ \A i \in 1 .. n : u[i] = u[i - 1] + uw[i]
  BY <1>1, <1>2, AddsUp
<1>6. PICK m \in [0 .. n -> Nat] : m[0] = 0 /\ \A i \in 1 .. n : m[i] = m[i - 1] + mw[i]
  BY <1>1, <1>2, AddsUp
<1>7. ASSUME NEW i \in 1 .. n
      PROVE  /\ p[i] = p[i - 1] + Bytes[t[i]]
             /\ u[i] = u[i - 1] + Units[t[i]]
             /\ m[i] = m[i - 1] + (IF t[i] = Newline THEN 1 ELSE 0)
  <2>1. p[i] = p[i - 1] + Bytes[t[i]]
    BY <1>3, <1>4
  <2>2. u[i] = u[i - 1] + Units[t[i]]
    BY <1>3, <1>5
  <2>3. m[i] = m[i - 1] + (IF t[i] = Newline THEN 1 ELSE 0)
    BY <1>3, <1>6
  <2> QED BY <2>1, <2>2, <2>3
<1>8. Measured(t, p, u, m)
  BY <1>4, <1>5, <1>6, <1>7, Zenon DEF Measured
<1> QED BY <1>8

(* A character has one to four bytes, one or two units, and no more units than *)
(* bytes.                                                                      *)
LEMMA MeasuredStep ==
  ASSUME NEW t \in Seq(Chars), NEW p, NEW u, NEW m, Measured(t, p, u, m), NEW i \in 1 .. Len(t)
  PROVE  /\ i - 1 \in 0 .. Len(t) /\ i \in 0 .. Len(t) /\ t[i] \in Chars
         /\ Bytes[t[i]] \in 1 .. 4 /\ Units[t[i]] \in 1 .. 2 /\ Units[t[i]] <= Bytes[t[i]]
         /\ p[i - 1] \in Nat /\ u[i - 1] \in Nat /\ m[i - 1] \in Nat
         /\ p[i] = p[i - 1] + Bytes[t[i]]
         /\ u[i] = u[i - 1] + Units[t[i]]
         /\ t[i] = Newline => m[i] = m[i - 1] + 1 /\ p[i] = p[i - 1] + 1
         /\ t[i] # Newline => m[i] = m[i - 1]
BY CharAssumption DEF Measured

LEMMA OneMore ==
  ASSUME NEW a \in Nat, NEW b \in Nat, NEW bytes \in 1 .. 4, NEW units \in 1 .. 2,
         NEW x \in Nat, NEW y \in Nat, NEW d \in Nat, units <= bytes,
         a + (d - 1) <= x, x <= a + 4 * (d - 1), b + (d - 1) <= y, y - b <= x - a
  PROVE  /\ a + d <= x + bytes /\ x + bytes <= a + 4 * d
         /\ b + d <= y + units /\ (y + units) - b <= (x + bytes) - a
OBVIOUS

LEMMA SumAtLeast ==
  ASSUME NEW a \in Nat, NEW b \in Nat, NEW d \in Nat, a + d <= b
  PROVE  a <= b
OBVIOUS

LEMMA MeasuredAscends ==
  ASSUME NEW t \in Seq(Chars), NEW p, NEW u, NEW m, Measured(t, p, u, m),
         NEW i \in 0 .. Len(t), NEW j \in 0 .. Len(t), i <= j
  PROVE  /\ p[i] \in Nat /\ p[j] \in Nat /\ u[i] \in Nat /\ u[j] \in Nat
         /\ m[i] \in Nat /\ m[j] \in Nat
         /\ p[i] + (j - i) <= p[j] /\ p[j] <= p[i] + 4 * (j - i)
         /\ u[i] + (j - i) <= u[j] /\ u[j] - u[i] <= p[j] - p[i]
         /\ m[i] <= m[j]
<1> DEFINE Apart(d) == /\ p[i] + d <= p[i + d] /\ p[i + d] <= p[i] + 4 * d
                       /\ u[i] + d <= u[i + d] /\ u[i + d] - u[i] <= p[i + d] - p[i]
                       /\ m[i] <= m[i + d]
           T == {d \in 0 .. j - i : Apart(d)}
<1>1. /\ Len(t) \in Nat
      /\ \A k \in 0 .. Len(t) : p[k] \in Nat /\ u[k] \in Nat /\ m[k] \in Nat
  <2>1. /\ p \in [0 .. Len(t) -> Nat] /\ u \in [0 .. Len(t) -> Nat]
        /\ m \in [0 .. Len(t) -> Nat]
    BY Zenon DEF Measured
  <2> QED BY <2>1
<1>2. 0 \in T
  BY <1>1
<1>3. ASSUME NEW d \in 1 .. j - i, d - 1 \in T PROVE d \in T
  <2>1. i + d \in 1 .. Len(t) /\ (i + d) - 1 = i + (d - 1)
    OBVIOUS
  <2> DEFINE k == i + d
  <2>2. /\ Bytes[t[k]] \in 1 .. 4 /\ Units[t[k]] \in 1 .. 2 /\ Units[t[k]] <= Bytes[t[k]]
        /\ p[k - 1] \in Nat /\ u[k - 1] \in Nat /\ m[k - 1] \in Nat
        /\ p[k] = p[k - 1] + Bytes[t[k]]
        /\ u[k] = u[k - 1] + Units[t[k]]
        /\ t[k] = Newline => m[k] = m[k - 1] + 1
        /\ t[k] # Newline => m[k] = m[k - 1]
    <3> k \in 1 .. Len(t)
      BY <2>1
    <3> HIDE DEF k
    <3> QED BY MeasuredStep
  <2>3. Apart(d - 1)
    BY <1>3
  <2>4. /\ p[i] + (d - 1) <= p[k - 1] /\ p[k - 1] <= p[i] + 4 * (d - 1)
        /\ u[i] + (d - 1) <= u[k - 1] /\ u[k - 1] - u[i] <= p[k - 1] - p[i]
        /\ m[i] <= m[k - 1]
    BY <2>1, <2>3
  <2>5. p[i] \in Nat /\ u[i] \in Nat /\ m[i] \in Nat /\ d \in Nat
    BY <1>1
  <2> DEFINE bytes == Bytes[t[k]]
             units == Units[t[k]]
  <2> HIDE DEF k, bytes, units, Apart, T
  <2>6. /\ p[i] + d <= p[k - 1] + bytes /\ p[k - 1] + bytes <= p[i] + 4 * d
        /\ u[i] + d <= u[k - 1] + units /\ (u[k - 1] + units) - u[i] <= (p[k - 1] + bytes) - p[i]
    <3>1. bytes \in 1 .. 4 /\ units \in 1 .. 2 /\ units <= bytes
      BY <2>2 DEF bytes, units
    <3> QED BY <2>2, <2>4, <2>5, <3>1, OneMore
  <2>7. p[k] = p[k - 1] + bytes /\ u[k] = u[k - 1] + units
    BY <2>2 DEF bytes, units
  <2>8. m[i] <= m[k]
    <3>1. m[k] = m[k - 1] \/ m[k] = m[k - 1] + 1
      BY <2>2
    <3> QED BY <2>2, <2>4, <2>5, <3>1
  <2>9. p[i] + d <= p[k] /\ p[k] <= p[i] + 4 * d /\ u[i] + d <= u[k] /\ u[k] - u[i] <= p[k] - p[i]
    BY <2>6, <2>7
  <2> QED BY <1>3, <2>8, <2>9 DEF k, T, Apart
<1>4. j - i \in Nat
  OBVIOUS
<1>5. 0 .. j - i \subseteq T
  <2> HIDE DEF T
  <2> QED BY <1>2, <1>3, <1>4, UpTo
<1>6. Apart(j - i) /\ i + (j - i) = j
  BY <1>4, <1>5
<1> QED BY <1>1, <1>6


-----------------------------------------------------------------------------
(* Lines. *)

LEMMA MeasuredTypes ==
  ASSUME NEW t \in Seq(Chars), NEW p, NEW u, NEW m, Measured(t, p, u, m)
  PROVE  /\ Len(t) \in Nat
         /\ \A k \in 0 .. Len(t) : p[k] \in Nat /\ u[k] \in Nat /\ m[k] \in Nat
         /\ p[0] = 0 /\ u[0] = 0 /\ m[0] = 0
<1>1. /\ p \in [0 .. Len(t) -> Nat] /\ u \in [0 .. Len(t) -> Nat]
      /\ m \in [0 .. Len(t) -> Nat] /\ p[0] = 0 /\ u[0] = 0 /\ m[0] = 0
  BY Zenon DEF Measured
<1> QED BY <1>1

LEMMA LinesBefore ==
  ASSUME NEW t \in Seq(Chars), NEW p, NEW u, NEW m, Measured(t, p, u, m), NEW i \in 0 .. Len(t)
  PROVE  Cardinality(Before(t, i)) = m[i]
<1> DEFINE n == Len(t)
           T == {j \in 0 .. n : IsFiniteSet(Before(t, j)) /\ Cardinality(Before(t, j)) = m[j]}
<1>1. n \in Nat /\ m[0] = 0
  BY MeasuredTypes
<1>2. 0 \in T
  <2>1. Before(t, 0) = {}
    BY DEF Before
  <2>2. IsFiniteSet(Before(t, 0)) /\ Cardinality(Before(t, 0)) = 0 /\ 0 \in 0 .. n
    <3>1. IsFiniteSet({}) /\ Cardinality({}) = 0
      BY FS_EmptySet
    <3>2. 0 \in 0 .. n
      BY <1>1
    <3> QED BY <2>1, <3>1, <3>2, Zenon
  <2> QED BY <1>1, <2>2
<1>3. ASSUME NEW j \in 1 .. n, j - 1 \in T PROVE j \in T
  <2>1. IsFiniteSet(Before(t, j - 1)) /\ Cardinality(Before(t, j - 1)) = m[j - 1]
    BY <1>3
  <2>2. j \in 0 .. n
    BY <1>1
  <2>3. CASE t[j] = Newline
    <3>1. Before(t, j) = Before(t, j - 1) \union {j} /\ j \notin Before(t, j - 1)
      BY <2>3 DEF Before
    <3>2. m[j] = m[j - 1] + 1
      BY <2>3, MeasuredStep
    <3> QED BY <2>1, <2>2, <3>1, <3>2, FS_AddElement
  <2>4. CASE t[j] # Newline
    <3>1. Before(t, j) = Before(t, j - 1)
      BY <2>4 DEF Before
    <3>2. m[j] = m[j - 1]
      BY <2>4, MeasuredStep
    <3> QED BY <2>1, <2>2, <3>1, <3>2
  <2> QED BY <2>3, <2>4
<1>4. 0 .. n \subseteq T
  <2> HIDE DEF T
  <2> QED BY <1>1, <1>2, <1>3, UpTo
<1> QED BY <1>4

(* Of the first i characters, the boundaries from s to z are the ones with l - 1 *)
(* newlines before them: line l.                                                 *)
LineSpan(m, i, l, s, z) ==
  /\ s \in 0 .. i /\ z \in s .. i
  /\ \A j \in 0 .. i : m[j] = l - 1 <=> j \in s .. z

(* Inside a line is no newline, before it and after it is one. *)
LEMMA SpanNewlines ==
  ASSUME NEW t \in Seq(Chars), NEW p, NEW u, NEW m, Measured(t, p, u, m),
         NEW n \in 0 .. Len(t), NEW l \in Nat, NEW s, NEW z, LineSpan(m, n, l, s, z)
  PROVE  /\ s \in 0 .. n /\ z \in s .. n
         /\ \A k \in s + 1 .. z : t[k] # Newline
         /\ s > 0 => t[s] = Newline
         /\ z < n => t[z + 1] = Newline
<1>1. Len(t) \in Nat /\ n \in Nat
  OBVIOUS
<1>2. s \in 0 .. n /\ z \in s .. n /\ \A j \in 0 .. n : m[j] = l - 1 <=> j \in s .. z
  BY DEF LineSpan
<1>3. ASSUME NEW k \in s + 1 .. z PROVE t[k] # Newline
  <2>1. k \in 1 .. Len(t) /\ k \in s .. z /\ k - 1 \in s .. z /\ k \in 0 .. n /\ k - 1 \in 0 .. n
    BY <1>1, <1>2
  <2>2. m[k] = l - 1 /\ m[k - 1] = l - 1
    BY <1>2, <2>1
  <2>3. t[k] = Newline => m[k] = m[k - 1] + 1
    BY <2>1, MeasuredStep
  <2> QED BY <2>2, <2>3
<1>4. ASSUME s > 0 PROVE t[s] = Newline
  <2>1. s \in 1 .. Len(t) /\ s \in 0 .. n /\ s - 1 \in 0 .. n /\ s \in s .. z /\ s - 1 \notin s .. z
    BY <1>1, <1>2, <1>4
  <2>2. m[s] = l - 1 /\ m[s - 1] # l - 1
    BY <1>2, <2>1
  <2>3. t[s] # Newline => m[s] = m[s - 1]
    BY <2>1, MeasuredStep
  <2> QED BY <2>2, <2>3
<1>5. ASSUME z < n PROVE t[z + 1] = Newline
  <2> DEFINE k == z + 1
  <2>1. k \in 1 .. Len(t) /\ k \in 0 .. n /\ k - 1 \in 0 .. n /\ k \notin s .. z /\ k - 1 \in s .. z
    BY <1>1, <1>2, <1>5
  <2> HIDE DEF k
  <2>2. m[k - 1] = l - 1 /\ m[k] # l - 1
    BY <1>2, <2>1
  <2>3. t[k] # Newline => m[k] = m[k - 1]
    BY <2>1, MeasuredStep
  <2> QED BY <2>2, <2>3 DEF k
<1> QED BY <1>2, <1>3, <1>4, <1>5

LEMMA LineStartIs ==
  ASSUME NEW t \in Seq(Chars), NEW p, NEW u, NEW m, Measured(t, p, u, m),
         NEW l \in Nat, NEW s, NEW z, LineSpan(m, Len(t), l, s, z), NEW j \in s .. z
  PROVE  LineStart(t, j) = s
<1> DEFINE T == {0} \union Before(t, j)
<1>1. Len(t) \in Nat /\ Len(t) \in 0 .. Len(t)
  OBVIOUS
<1>2. /\ s \in 0 .. Len(t) /\ z \in s .. Len(t)
      /\ \A k \in s + 1 .. z : t[k] # Newline
      /\ s > 0 => t[s] = Newline
  BY <1>1, SpanNewlines
<1>3. j \in Nat /\ T \subseteq 0 .. j /\ T # {}
  BY <1>2 DEF Before
<1>4. s \in T
  BY <1>2 DEF Before
<1>5. \A k \in T : k <= s
  BY <1>2 DEF Before
<1>6. LineStart(t, j) = Max(T)
  BY DEF LineStart
<1> DEFINE g == Max(T)
<1> HIDE DEF T
<1>7. g \in T /\ \A k \in T : k <= g
  BY <1>3, GreatestOf
<1> HIDE DEF g
<1>8. g \in Nat /\ g <= s /\ s <= g /\ s \in Nat
  BY <1>2, <1>3, <1>4, <1>5, <1>7
<1>9. g = s
  BY <1>8
<1> QED BY <1>6, <1>9 DEF g


(* What a client counts: bytes, or units. *)
Counted(p, u, unit) == IF unit = "Utf8" THEN p ELSE u

LEMMA CountedStep ==
  ASSUME NEW t \in Seq(Chars), NEW p, NEW u, NEW m, Measured(t, p, u, m), NEW unit,
         NEW i \in 1 .. Len(t)
  PROVE  /\ Counted(p, u, unit)[i - 1] \in Nat /\ Size(t[i], unit) \in 1 .. 4
         /\ Counted(p, u, unit)[i] = Counted(p, u, unit)[i - 1] + Size(t[i], unit)
<1>1. /\ p[i - 1] \in Nat /\ p[i] = p[i - 1] + Bytes[t[i]] /\ Bytes[t[i]] \in 1 .. 4
      /\ u[i - 1] \in Nat /\ u[i] = u[i - 1] + Units[t[i]] /\ Units[t[i]] \in 1 .. 4
  BY MeasuredStep
<1> QED BY <1>1 DEF Counted, Size

LEMMA WidthIs ==
  ASSUME NEW t \in Seq(Chars), NEW p, NEW u, NEW m, Measured(t, p, u, m), NEW unit,
         NEW from \in 0 .. Len(t), NEW to \in from .. Len(t)
  PROVE  Width(t, from, to, unit) = Counted(p, u, unit)[to] - Counted(p, u, unit)[from]
<1> DEFINE q == Counted(p, u, unit)
           Step(f, i) == IF i = from THEN 0 ELSE f[i - 1] + Size(t[i], unit)
           width[i \in from .. to] == IF i = from THEN 0 ELSE width[i - 1] + Size(t[i], unit)
           f == [i \in from .. to |-> q[i] - q[from]]
<1>1. Width(t, from, to, unit) = width[to]
  BY Zenon DEF Width
<1>2. Len(t) \in Nat /\ \A i \in 0 .. Len(t) : q[i] \in Nat
  BY MeasuredTypes DEF Counted
<1>3. ASSUME NEW i \in from + 1 .. to
      PROVE  i \in 1 .. Len(t) /\ q[i] = q[i - 1] + Size(t[i], unit) /\ Size(t[i], unit) \in Nat
  <2> HIDE DEF q, width, f
  <2>1. i \in 1 .. Len(t)
    BY <1>2
  <2>2. /\ Counted(p, u, unit)[i] = Counted(p, u, unit)[i - 1] + Size(t[i], unit)
        /\ Size(t[i], unit) \in 1 .. 4
    BY <2>1, CountedStep
  <2> QED BY <2>1, <2>2 DEF q
<1> HIDE DEF q
<1>4. f = [i \in from .. to |-> Step(f, i)]
  <2> SUFFICES ASSUME NEW i \in from .. to PROVE f[i] = Step(f, i)
    OBVIOUS
  <2>1. CASE i = from
    <3>1. q[from] \in Nat
      BY <1>2
    <3> QED BY <2>1, <3>1
  <2>2. CASE i # from
    <3>1. i \in from + 1 .. to /\ i - 1 \in from .. to
      BY <2>2
    <3>2. q[i] \in Nat /\ q[i - 1] \in Nat /\ q[from] \in Nat /\ q[i] = q[i - 1] + Size(t[i], unit)
          /\ Size(t[i], unit) \in Nat
      BY <1>2, <1>3, <3>1
    <3>3. f[i] = q[i] - q[from] /\ f[i - 1] = q[i - 1] - q[from]
      BY <3>1
    <3>4. f[i] = f[i - 1] + Size(t[i], unit)
      BY <3>2, <3>3
    <3> QED BY <2>2, <3>4
  <2> QED BY <2>1, <2>2
<1>5. width = [i \in from .. to |-> Step(width, i)]
  BY <1>4, Zenon
<1> HIDE DEF width, Size
<1> DEFINE T == {d \in 0 .. to - from : width[from + d] = q[from + d] - q[from]}
<1>6. to - from \in Nat
  OBVIOUS
<1>7. 0 \in T
  <2>1. width[from] = 0 /\ q[from] \in Nat /\ from + 0 = from
    BY <1>2, <1>5
  <2> QED BY <1>6, <2>1
<1>8. ASSUME NEW d \in 1 .. to - from, d - 1 \in T PROVE d \in T
  <2> DEFINE i == from + d
  <2>1. i \in from + 1 .. to /\ i \in from .. to /\ i # from /\ i - 1 = from + (d - 1)
        /\ i \in 0 .. Len(t) /\ i - 1 \in 0 .. Len(t)
    OBVIOUS
  <2>2. width[i - 1] = q[i - 1] - q[from]
    BY <1>8, <2>1
  <2> HIDE DEF i
  <2>3. width[i] = width[i - 1] + Size(t[i], unit)
    BY <1>5, <2>1
  <2>4. q[i] = q[i - 1] + Size(t[i], unit) /\ Size(t[i], unit) \in Nat
    BY <1>3, <2>1
  <2>5. q[i] \in Nat /\ q[i - 1] \in Nat /\ q[from] \in Nat
    BY <1>2, <2>1
  <2>6. width[i] = q[i] - q[from]
    <3> HIDE DEF T
    <3> QED BY <2>2, <2>3, <2>4, <2>5
  <2> QED BY <1>8, <2>6 DEF i
<1>9. 0 .. to - from \subseteq T
  <2> HIDE DEF T
  <2> QED BY <1>6, <1>7, <1>8, UpTo
<1>10. from + (to - from) = to /\ to - from \in T
  <2> HIDE DEF T
  <2> QED BY <1>6, <1>9
<1> QED BY <1>1, <1>10 DEF q


(* The last boundary of the line from s to z that is not past a column. *)
LastWithin(q, s, z, column, b) ==
  /\ b \in s .. z
  /\ q[b] - q[s] <= column
  /\ b < z => q[b + 1] - q[s] > column

LEMMA BoundaryOfLine ==
  ASSUME NEW t \in Seq(Chars), NEW p, NEW u, NEW m, Measured(t, p, u, m), NEW unit,
         NEW position, position.line \in Nat, position.character \in Nat,
         NEW s, NEW z, LineSpan(m, Len(t), position.line + 1, s, z)
  PROVE  /\ BoundaryOf(t, position, unit) \in 0 .. Len(t)
         /\ LastWithin(Counted(p, u, unit), s, z, position.character,
                       BoundaryOf(t, position, unit))
<1> DEFINE n == Len(t)
           q == Counted(p, u, unit)
           line == position.line
           column == position.character
           reached == {i \in 0 .. Len(t) :
                         /\ PositionOf(t, i, unit).line = line
                         /\ PositionOf(t, i, unit).character <= column}
           within == {i \in s .. z : q[i] - q[s] <= column}
<1>1. BoundaryOf(t, position, unit) = IF reached = {} THEN None ELSE Max(reached)
  BY Zenon DEF BoundaryOf
<1>2. /\ n \in Nat /\ s \in 0 .. n /\ z \in s .. n
      /\ \A i \in 0 .. n : m[i] = (line + 1) - 1 <=> i \in s .. z
  BY DEF LineSpan
<1>3. \A i \in 0 .. n : q[i] \in Nat
  BY MeasuredTypes DEF Counted
<1>4. \A i \in 0 .. n : PositionOf(t, i, unit).line = m[i]
  BY LinesBefore DEF PositionOf
<1>5. ASSUME NEW i \in s .. z PROVE PositionOf(t, i, unit).character = q[i] - q[s]
  <2>1. LineStart(t, i) = s
    <3>1. line + 1 \in Nat
      OBVIOUS
    <3> QED BY <3>1, LineStartIs
  <2>2. i \in s .. n /\ s \in 0 .. n
    BY <1>2
  <2>3. Width(t, s, i, unit) = q[i] - q[s]
    BY <2>2, WidthIs
  <2> QED BY <2>1, <2>3 DEF PositionOf
<1>6. reached = within
  <2>1. \A i \in 0 .. n : m[i] = line <=> i \in s .. z
    BY <1>2
  <2>2. \A i \in s .. z : i \in 0 .. n
    BY <1>2
  <2> HIDE DEF q
  <2> QED BY <1>4, <1>5, <2>1, <2>2
<1>7. s \in within /\ within \subseteq 0 .. n
  BY <1>2, <1>3
<1> DEFINE b == Max(within)
<1>8. b \in within /\ \A i \in within : i <= b
  <2> HIDE DEF within
  <2> QED BY <1>2, <1>7, GreatestOf
<1>9. BoundaryOf(t, position, unit) = b
  BY <1>1, <1>6, <1>7
<1> HIDE DEF b
<1>10. LastWithin(q, s, z, column, b)
  <2>1. b \in s .. z /\ q[b] - q[s] <= column
    BY <1>8
  <2>2. ASSUME b < z PROVE q[b + 1] - q[s] > column
    <3>1. b + 1 \in s .. z /\ b + 1 \in 0 .. n
      BY <1>2, <2>1, <2>2
    <3>2. b + 1 \notin within
      <4> HIDE DEF within
      <4> QED BY <1>2, <1>8, <2>1
    <3>3. ~(q[b + 1] - q[s] <= column)
      BY <3>1, <3>2
    <3> HIDE DEF q
    <3> QED BY <1>2, <1>3, <3>1, <3>3
  <2> HIDE DEF q
  <2> QED BY <2>1, <2>2 DEF LastWithin
<1> QED BY <1>7, <1>8, <1>9, <1>10

LEMMA BoundaryOfNoLine ==
  ASSUME NEW t \in Seq(Chars), NEW p, NEW u, NEW m, Measured(t, p, u, m), NEW unit,
         NEW position, \A i \in 0 .. Len(t) : m[i] # position.line
  PROVE  BoundaryOf(t, position, unit) = None
<1> DEFINE reached == {i \in 0 .. Len(t) :
                         /\ PositionOf(t, i, unit).line = position.line
                         /\ PositionOf(t, i, unit).character <= position.character}
<1>1. BoundaryOf(t, position, unit) = IF reached = {} THEN None ELSE Max(reached)
  BY Zenon DEF BoundaryOf
<1>2. \A i \in 0 .. Len(t) : PositionOf(t, i, unit).line = m[i]
  BY LinesBefore DEF PositionOf
<1>3. reached = {}
  BY <1>2
<1> QED BY <1>1, <1>3

-----------------------------------------------------------------------------
(* Columns in bytes. *)

LEMMA ModFacts ==
  ASSUME NEW x \in Int, NEW y \in Nat, y > 0
  PROVE  x % y \in Nat /\ (x \in 0 .. y - 1 => x % y = x)
OBVIOUS

Entries == [start : Int, len : Nat, units : Nat]

(* What an entry makes of a column. *)
Grown(entry, column) ==
  IF entry.start >= column THEN column
  ELSE (column + (entry.len - entry.units)) % (MaxU32 + 1)

LEMMA GrownType ==
  ASSUME NEW entry \in Entries, NEW column \in Nat
  PROVE  Grown(entry, column) \in Nat
<1>1. column + (entry.len - entry.units) \in Int /\ MaxU32 + 1 \in Nat /\ MaxU32 + 1 > 0
  BY CharAssumption DEF Entries
<1>2. (column + (entry.len - entry.units)) % (MaxU32 + 1) \in Nat
  BY <1>1, ModFacts
<1> QED BY <1>2 DEF Grown

ColumnStep(wide, column, after, k) ==
  IF k = 0 THEN column ELSE Grown(wide[k], after[k - 1])

LEMMA ByteColumnDef ==
  ASSUME NEW wide \in Seq(Entries), NEW column \in Nat
  PROVE  \E after : /\ after = [k \in 0 .. Len(wide) |-> ColumnStep(wide, column, after, k)]
                    /\ ByteColumn(wide, column) = after[Len(wide)]
<1> DEFINE n == Len(wide)
           g == [k \in 1 .. n |-> [x \in Nat |-> Grown(wide[k], x)]]
<1>1. n \in Nat /\ \A k \in 1 .. n : wide[k] \in Entries
  OBVIOUS
<1>2. \A k \in 1 .. n, x \in Nat : Grown(wide[k], x) \in Nat
  BY <1>1, GrownType
<1>3. g \in [1 .. n -> [Nat -> Nat]]
  <2> HIDE DEF n
  <2> QED BY <1>2
<1>4. \A k \in 1 .. n, x \in Nat : g[k][x] = Grown(wide[k], x)
  OBVIOUS
<1> HIDE DEF g, n
<1>5. PICK f : Iterates(f, n, Nat, column, g)
  BY <1>1, <1>3, Recursion
<1>6. f = [k \in 0 .. n |-> ColumnStep(wide, column, f, k)]
  <2> SUFFICES ASSUME NEW k \in 0 .. n PROVE f[k] = ColumnStep(wide, column, f, k)
    BY <1>5 DEF Iterates
  <2>1. k # 0 => k \in 1 .. n /\ f[k - 1] \in Nat
    BY <1>1, <1>5 DEF Iterates
  <2>2. k # 0 => g[k][f[k - 1]] = ColumnStep(wide, column, f, k)
    BY <1>4, <2>1 DEF ColumnStep
  <2>3. f[k] = IF k = 0 THEN column ELSE g[k][f[k - 1]]
    BY <1>5, <2>1 DEF Iterates
  <2> QED BY <2>2, <2>3 DEF ColumnStep
<1> DEFINE after[k \in 0 .. Len(wide)] ==
        IF k = 0 THEN column
        ELSE IF wide[k].start >= after[k - 1] THEN after[k - 1]
        ELSE (after[k - 1] + (wide[k].len - wide[k].units)) % (MaxU32 + 1)
<1>7. after = [k \in 0 .. Len(wide) |-> ColumnStep(wide, column, after, k)]
  BY <1>6, Zenon DEF ColumnStep, Grown, n
<1>8. ByteColumn(wide, column) = after[Len(wide)]
  BY Zenon DEF ByteColumn
<1> HIDE DEF after
<1> QED BY <1>7, <1>8

(* Of no entries, and of one more. *)
LEMMA ByteColumnFacts ==
  ASSUME NEW wide \in Seq(Entries), NEW column \in Nat
  PROVE  /\ ByteColumn(<<>>, column) = column
         /\ ByteColumn(wide, column) \in Nat
         /\ \A entry \in Entries :
              ByteColumn(Append(wide, entry), column) = Grown(entry, ByteColumn(wide, column))
<1> DEFINE n == Len(wide)
<1>1. n \in Nat /\ \A k \in 1 .. n : wide[k] \in Entries
  OBVIOUS
<1>2. PICK f : /\ f = [k \in 0 .. n |-> ColumnStep(wide, column, f, k)]
               /\ ByteColumn(wide, column) = f[n]
  BY ByteColumnDef
<1> HIDE DEF n
<1>3. \A k \in 0 .. n : f[k] = ColumnStep(wide, column, f, k)
  BY <1>2
<1>4. ByteColumn(<<>>, column) = column
  <2> DEFINE e == <<>>
  <2>1. e \in Seq(Entries) /\ Len(e) = 0
    OBVIOUS
  <2> HIDE DEF e
  <2>2. PICK h : /\ h = [k \in 0 .. Len(e) |-> ColumnStep(e, column, h, k)]
                 /\ ByteColumn(e, column) = h[Len(e)]
    BY <2>1, ByteColumnDef
  <2>3. h[0] = ColumnStep(e, column, h, 0)
    BY <2>1, <2>2
  <2> QED BY <2>1, <2>2, <2>3 DEF ColumnStep, e
<1>5. f[n] \in Nat
  <2> DEFINE T == {k \in 0 .. n : f[k] \in Nat}
  <2>1. 0 \in T
    BY <1>1, <1>3 DEF ColumnStep
  <2>2. ASSUME NEW k \in 1 .. n, k - 1 \in T PROVE k \in T
    <3>1. f[k - 1] \in Nat /\ k # 0 /\ k \in 0 .. n
      BY <1>1, <2>2
    <3>2. f[k] = Grown(wide[k], f[k - 1])
      BY <1>3, <3>1 DEF ColumnStep
    <3> QED BY <1>1, <3>1, <3>2, GrownType
  <2>3. 0 .. n \subseteq T
    <3> HIDE DEF T
    <3> QED BY <1>1, <2>1, <2>2, UpTo
  <2> QED BY <1>1, <2>3
<1>6. ASSUME NEW entry \in Entries
      PROVE  ByteColumn(Append(wide, entry), column) = Grown(entry, f[n])
  <2> DEFINE more == Append(wide, entry)
  <2>1. /\ more \in Seq(Entries) /\ Len(more) = n + 1 /\ more[n + 1] = entry
        /\ \A k \in 1 .. n : more[k] = wide[k]
    BY DEF n
  <2> HIDE DEF more
  <2>2. PICK h : /\ h = [k \in 0 .. Len(more) |-> ColumnStep(more, column, h, k)]
                 /\ ByteColumn(more, column) = h[Len(more)]
    BY <2>1, ByteColumnDef
  <2>3. \A k \in 0 .. n + 1 : h[k] = ColumnStep(more, column, h, k)
    BY <2>1, <2>2
  <2> DEFINE T == {k \in 0 .. n : h[k] = f[k]}
  <2>4. 0 \in T
    <3>1. 0 \in 0 .. n /\ 0 \in 0 .. n + 1
      BY <1>1
    <3> QED BY <1>3, <2>3, <3>1 DEF ColumnStep
  <2>5. ASSUME NEW k \in 1 .. n, k - 1 \in T PROVE k \in T
    <3>1. h[k - 1] = f[k - 1] /\ k # 0 /\ k \in 0 .. n /\ k \in 0 .. n + 1
      BY <1>1, <2>5
    <3>2. f[k] = Grown(wide[k], f[k - 1]) /\ h[k] = Grown(more[k], h[k - 1])
      BY <1>3, <2>3, <3>1 DEF ColumnStep
    <3> QED BY <2>1, <3>1, <3>2
  <2>6. 0 .. n \subseteq T
    <3> HIDE DEF T
    <3> QED BY <1>1, <2>4, <2>5, UpTo
  <2>7. h[n] = f[n]
    BY <1>1, <2>6
  <2>8. h[n + 1] = Grown(more[n + 1], h[n])
    <3>1. n + 1 # 0 /\ n + 1 \in 0 .. n + 1 /\ (n + 1) - 1 = n
      BY <1>1
    <3> QED BY <2>3, <3>1 DEF ColumnStep
  <2> QED BY <2>1, <2>2, <2>7, <2>8 DEF more
<1> QED BY <1>2, <1>4, <1>5, <1>6

-----------------------------------------------------------------------------
(* Columns in units. *)

(* What an entry takes off a column that counts the bytes up to a place. *)
Shrunk(entry, column, x) ==
  IF entry.start >= column THEN x ELSE x - (entry.len - entry.units)

UnitStep(wide, column, after, k) ==
  IF k = 0 THEN column ELSE Shrunk(wide[k], column, after[k - 1])

LEMMA ShrunkType ==
  ASSUME NEW entry \in Entries, NEW column \in Nat, NEW x \in Int
  PROVE  Shrunk(entry, column, x) \in Int
BY DEF Shrunk, Entries

LEMMA Utf16ColumnDef ==
  ASSUME NEW wide \in Seq(Entries), NEW column \in Nat
  PROVE  \E after : /\ after = [k \in 0 .. Len(wide) |-> UnitStep(wide, column, after, k)]
                    /\ Utf16Column(wide, column) = after[Len(wide)]
<1> DEFINE n == Len(wide)
           g == [k \in 1 .. n |-> [x \in Int |-> Shrunk(wide[k], column, x)]]
<1>1. n \in Nat /\ \A k \in 1 .. n : wide[k] \in Entries
  OBVIOUS
<1>2. \A k \in 1 .. n, x \in Int : Shrunk(wide[k], column, x) \in Int
  BY <1>1, ShrunkType
<1>3. g \in [1 .. n -> [Int -> Int]]
  <2> HIDE DEF n
  <2> QED BY <1>2
<1>4. \A k \in 1 .. n, x \in Int : g[k][x] = Shrunk(wide[k], column, x)
  OBVIOUS
<1> HIDE DEF g, n
<1>5. PICK f : Iterates(f, n, Int, column, g)
  <2>1. column \in Int
    OBVIOUS
  <2> QED BY <1>1, <1>3, <2>1, Recursion
<1>6. f = [k \in 0 .. n |-> UnitStep(wide, column, f, k)]
  <2> SUFFICES ASSUME NEW k \in 0 .. n PROVE f[k] = UnitStep(wide, column, f, k)
    BY <1>5 DEF Iterates
  <2>1. k # 0 => k \in 1 .. n /\ f[k - 1] \in Int
    BY <1>1, <1>5 DEF Iterates
  <2>2. k # 0 => g[k][f[k - 1]] = UnitStep(wide, column, f, k)
    BY <1>4, <2>1 DEF UnitStep
  <2>3. f[k] = IF k = 0 THEN column ELSE g[k][f[k - 1]]
    BY <1>5, <2>1 DEF Iterates
  <2> QED BY <2>2, <2>3 DEF UnitStep
<1> DEFINE after[k \in 0 .. Len(wide)] ==
        IF k = 0 THEN column
        ELSE IF wide[k].start >= column THEN after[k - 1]
        ELSE after[k - 1] - (wide[k].len - wide[k].units)
<1>7. after = [k \in 0 .. Len(wide) |-> UnitStep(wide, column, after, k)]
  BY <1>6, Zenon DEF UnitStep, Shrunk, n
<1>8. Utf16Column(wide, column) = after[Len(wide)]
  BY Zenon DEF Utf16Column
<1> HIDE DEF after
<1> QED BY <1>7, <1>8

(* Of no entries, and of one more. *)
LEMMA Utf16ColumnFacts ==
  ASSUME NEW wide \in Seq(Entries), NEW column \in Nat
  PROVE  /\ Utf16Column(<<>>, column) = column
         /\ Utf16Column(wide, column) \in Int
         /\ \A entry \in Entries :
              Utf16Column(Append(wide, entry), column)
                = Shrunk(entry, column, Utf16Column(wide, column))
<1> DEFINE n == Len(wide)
<1>1. n \in Nat /\ \A k \in 1 .. n : wide[k] \in Entries
  OBVIOUS
<1>2. PICK f : /\ f = [k \in 0 .. n |-> UnitStep(wide, column, f, k)]
               /\ Utf16Column(wide, column) = f[n]
  BY Utf16ColumnDef
<1> HIDE DEF n
<1>3. \A k \in 0 .. n : f[k] = UnitStep(wide, column, f, k)
  BY <1>2
<1>4. Utf16Column(<<>>, column) = column
  <2> DEFINE e == <<>>
  <2>1. e \in Seq(Entries) /\ Len(e) = 0
    OBVIOUS
  <2> HIDE DEF e
  <2>2. PICK h : /\ h = [k \in 0 .. Len(e) |-> UnitStep(e, column, h, k)]
                 /\ Utf16Column(e, column) = h[Len(e)]
    BY <2>1, Utf16ColumnDef
  <2>3. h[0] = UnitStep(e, column, h, 0)
    BY <2>1, <2>2
  <2> QED BY <2>1, <2>2, <2>3 DEF UnitStep, e
<1>5. f[n] \in Int
  <2> DEFINE T == {k \in 0 .. n : f[k] \in Int}
  <2>1. 0 \in T
    BY <1>1, <1>3 DEF UnitStep
  <2>2. ASSUME NEW k \in 1 .. n, k - 1 \in T PROVE k \in T
    <3>1. f[k - 1] \in Int /\ k # 0 /\ k \in 0 .. n
      BY <1>1, <2>2
    <3>2. f[k] = Shrunk(wide[k], column, f[k - 1])
      BY <1>3, <3>1 DEF UnitStep
    <3> QED BY <1>1, <3>1, <3>2, ShrunkType
  <2>3. 0 .. n \subseteq T
    <3> HIDE DEF T
    <3> QED BY <1>1, <2>1, <2>2, UpTo
  <2> QED BY <1>1, <2>3
<1>6. ASSUME NEW entry \in Entries
      PROVE  Utf16Column(Append(wide, entry), column) = Shrunk(entry, column, f[n])
  <2> DEFINE more == Append(wide, entry)
  <2>1. /\ more \in Seq(Entries) /\ Len(more) = n + 1 /\ more[n + 1] = entry
        /\ \A k \in 1 .. n : more[k] = wide[k]
    BY DEF n
  <2> HIDE DEF more
  <2>2. PICK h : /\ h = [k \in 0 .. Len(more) |-> UnitStep(more, column, h, k)]
                 /\ Utf16Column(more, column) = h[Len(more)]
    BY <2>1, Utf16ColumnDef
  <2>3. \A k \in 0 .. n + 1 : h[k] = UnitStep(more, column, h, k)
    BY <2>1, <2>2
  <2> DEFINE T == {k \in 0 .. n : h[k] = f[k]}
  <2>4. 0 \in T
    <3>1. 0 \in 0 .. n /\ 0 \in 0 .. n + 1
      BY <1>1
    <3> QED BY <1>3, <2>3, <3>1 DEF UnitStep
  <2>5. ASSUME NEW k \in 1 .. n, k - 1 \in T PROVE k \in T
    <3>1. h[k - 1] = f[k - 1] /\ k # 0 /\ k \in 0 .. n /\ k \in 0 .. n + 1
      BY <1>1, <2>5
    <3>2. f[k] = Shrunk(wide[k], column, f[k - 1]) /\ h[k] = Shrunk(more[k], column, h[k - 1])
      BY <1>3, <2>3, <3>1 DEF UnitStep
    <3> QED BY <2>1, <3>1, <3>2
  <2>6. 0 .. n \subseteq T
    <3> HIDE DEF T
    <3> QED BY <1>1, <2>4, <2>5, UpTo
  <2>7. h[n] = f[n]
    BY <1>1, <2>6
  <2>8. h[n + 1] = Shrunk(more[n + 1], column, h[n])
    <3>1. n + 1 # 0 /\ n + 1 \in 0 .. n + 1 /\ (n + 1) - 1 = n
      BY <1>1
    <3> QED BY <2>3, <3>1 DEF UnitStep
  <2> QED BY <2>1, <2>2, <2>7, <2>8 DEF more
<1> QED BY <1>2, <1>4, <1>5, <1>6

-----------------------------------------------------------------------------
(* What the table has of a line. *)

(* The entry of the line that starts at boundary s for the k-th character. *)
EntryFor(t, p, s, k, entry) ==
  entry.start = p[k - 1] - p[s] /\ entry.len = Bytes[t[k]]

(* An entry is for a character of the line, and every character longer than a *)
(* byte has one.                                                              *)
HasEntries(t, p, s, z, wide) ==
  /\ wide \in Seq(Entries)
  /\ \A j \in 1 .. Len(wide) : \E k \in s + 1 .. z : EntryFor(t, p, s, k, wide[j])
  /\ \A k \in s + 1 .. z :
       Bytes[t[k]] # 1 => \E j \in 1 .. Len(wide) : EntryFor(t, p, s, k, wide[j])

(* A column in units has grown by what the characters before boundary e have in *)
(* bytes beyond their units, and e is the first boundary not before the column. *)
GrownTo(p, u, s, z, column, grown, e) ==
  /\ e \in s .. z
  /\ grown = (column + (p[e] - p[s])) - (u[e] - u[s])
  /\ e > s => u[e - 1] - u[s] < column
  /\ e < z => u[e] - u[s] >= column

Converts(p, u, s, z, wide) ==
  \A column \in Nat :
    column + (p[z] - p[s]) <= MaxU32
      => \E e \in s .. z : GrownTo(p, u, s, z, column, ByteColumn(wide, column), e)

(* The other way, a column in bytes at a boundary becomes the units before the     *)
(* boundary, and one past the line loses what the line has in bytes beyond units.  *)
Narrows(p, u, s, z, wide) ==
  /\ \A b \in s .. z : Utf16Column(wide, p[b] - p[s]) = u[b] - u[s]
  /\ \A column \in Nat :
       column >= p[z] - p[s]
         => Utf16Column(wide, column) = (column - (p[z] - p[s])) + (u[z] - u[s])

LEMMA ContentEmpty ==
  ASSUME NEW t \in Seq(Chars), NEW p, NEW u, NEW m, Measured(t, p, u, m), NEW s \in 0 .. Len(t)
  PROVE  /\ HasEntries(t, p, s, s, <<>>)
         /\ Converts(p, u, s, s, <<>>)
         /\ Narrows(p, u, s, s, <<>>)
<1>1. Len(t) \in Nat /\ p[s] \in Nat /\ u[s] \in Nat
  BY MeasuredTypes
<1> DEFINE e == <<>>
<1>2. e \in Seq(Entries) /\ Len(e) = 0
  OBVIOUS
<1>3. \A column \in Nat : ByteColumn(e, column) = column
  BY <1>2, ByteColumnFacts
<1> HIDE DEF e
<1>4. HasEntries(t, p, s, s, e)
  BY <1>1, <1>2 DEF HasEntries
<1>5. ASSUME NEW column \in Nat PROVE GrownTo(p, u, s, s, column, ByteColumn(e, column), s)
  BY <1>1, <1>3 DEF GrownTo
<1>6. Converts(p, u, s, s, e)
  BY <1>1, <1>5 DEF Converts
<1>7. \A column \in Nat : Utf16Column(e, column) = column
  BY Utf16ColumnFacts, <1>2 DEF e
<1>8. Narrows(p, u, s, s, e)
  BY <1>1, <1>7 DEF Narrows
<1> QED BY <1>4, <1>6, <1>8 DEF e

LEMMA HasEntriesNext ==
  ASSUME NEW t \in Seq(Chars), NEW p, NEW u, NEW m, Measured(t, p, u, m), NEW s \in 0 .. Len(t),
         NEW k \in s + 1 .. Len(t), NEW wide, HasEntries(t, p, s, k - 1, wide),
         NEW entry \in Entries, EntryFor(t, p, s, k, entry)
  PROVE  HasEntries(t, p, s, k, IF Bytes[t[k]] = 1 THEN wide ELSE Append(wide, entry))
<1> DEFINE z == k - 1
<1>1. /\ Len(t) \in Nat /\ z \in s .. Len(t) /\ s + 1 .. k = (s + 1 .. z) \union {k}
      /\ k \in s + 1 .. k /\ \A i \in s + 1 .. z : i \in s + 1 .. k
  OBVIOUS
<1> HIDE DEF z
<1>2. /\ wide \in Seq(Entries)
      /\ \A j \in 1 .. Len(wide) : \E i \in s + 1 .. z : EntryFor(t, p, s, i, wide[j])
      /\ \A i \in s + 1 .. z :
           Bytes[t[i]] # 1 => \E j \in 1 .. Len(wide) : EntryFor(t, p, s, i, wide[j])
  BY DEF HasEntries, z
<1>3. CASE Bytes[t[k]] = 1
  <2>1. \A j \in 1 .. Len(wide) : \E i \in s + 1 .. k : EntryFor(t, p, s, i, wide[j])
    BY <1>1, <1>2
  <2>2. \A i \in s + 1 .. k :
          Bytes[t[i]] # 1 => \E j \in 1 .. Len(wide) : EntryFor(t, p, s, i, wide[j])
    BY <1>1, <1>2, <1>3
  <2> QED BY <1>2, <1>3, <2>1, <2>2 DEF HasEntries
<1>4. CASE Bytes[t[k]] # 1
  <2> DEFINE more == Append(wide, entry)
             n == Len(wide)
  <2>1. /\ more \in Seq(Entries) /\ Len(more) = n + 1 /\ more[n + 1] = entry /\ n \in Nat
        /\ \A j \in 1 .. n : more[j] = wide[j]
    BY <1>2
  <2>2. /\ \A j \in 1 .. n : j \in 1 .. n + 1
        /\ \A j \in 1 .. n + 1 : j \in 1 .. n \/ j = n + 1
        /\ n + 1 \in 1 .. n + 1
    BY <2>1
  <2> HIDE DEF more, n
  <2>3. \A j \in 1 .. n + 1 : \E i \in s + 1 .. k : EntryFor(t, p, s, i, more[j])
    BY <1>1, <1>2, <2>1, <2>2 DEF n
  <2>4. \A i \in s + 1 .. k :
          Bytes[t[i]] # 1 => \E j \in 1 .. n + 1 : EntryFor(t, p, s, i, more[j])
    BY <1>1, <1>2, <2>1, <2>2 DEF n
  <2>5. HasEntries(t, p, s, k, more)
    BY <2>1, <2>3, <2>4 DEF HasEntries
  <2> QED BY <1>4, <2>5 DEF more
<1> QED BY <1>3, <1>4

(* The arithmetic of a character more: a column that is not past boundary z stays, *)
(* and one past it grows by what the character has beyond its units.               *)
LEMMA StaysWithin ==
  ASSUME NEW ps \in Nat, NEW us \in Nat, NEW pz \in Nat, NEW pe \in Nat, NEW ue \in Nat,
         NEW column \in Nat, NEW a, pe <= pz,
         a = (column + (pe - ps)) - (ue - us), ue - us >= column
  PROVE  pz - ps >= a
OBVIOUS

LEMMA GrowsPast ==
  ASSUME NEW ps \in Nat, NEW us \in Nat, NEW pz \in Nat, NEW uz \in Nat,
         NEW bytes \in 1 .. 4, NEW units \in 1 .. 2, units <= bytes, us <= uz,
         NEW column \in Nat, NEW a \in Nat, NEW max \in Nat,
         a = (column + (pz - ps)) - (uz - us), uz - us < column,
         column + ((pz + bytes) - ps) <= max
  PROVE  /\ a + (bytes - units) = (column + ((pz + bytes) - ps)) - ((uz + units) - us)
         /\ a + (bytes - units) \in 0 .. max
         /\ ~(pz - ps >= a)
OBVIOUS

LEMMA ConvertsNext ==
  ASSUME NEW t \in Seq(Chars), NEW p, NEW u, NEW m, Measured(t, p, u, m), NEW s \in 0 .. Len(t),
         NEW k \in s + 1 .. Len(t), NEW wide \in Seq(Entries), Converts(p, u, s, k - 1, wide),
         NEW entry \in Entries, EntryFor(t, p, s, k, entry), entry.units = Units[t[k]]
  PROVE  Converts(p, u, s, k, IF Bytes[t[k]] = 1 THEN wide ELSE Append(wide, entry))
<1> DEFINE z == k - 1
           next == IF Bytes[t[k]] = 1 THEN wide ELSE Append(wide, entry)
           bytes == Bytes[t[k]]
           units == Units[t[k]]
<1>1. /\ Len(t) \in Nat /\ z \in s .. Len(t) /\ k = z + 1 /\ k \in 1 .. Len(t)
      /\ z \in 0 .. Len(t) /\ s <= z /\ k - 1 = z
  OBVIOUS
<1>2. /\ bytes \in 1 .. 4 /\ units \in 1 .. 2 /\ units <= bytes
      /\ p[z] \in Nat /\ u[z] \in Nat /\ p[k] = p[z] + bytes /\ u[k] = u[z] + units
  BY <1>1, MeasuredStep
<1>3. p[s] \in Nat /\ u[s] \in Nat /\ u[z] - u[s] <= p[z] - p[s] /\ u[s] <= u[z]
  <2> HIDE DEF z
  <2>1. /\ p[s] \in Nat /\ u[s] \in Nat /\ u[z] \in Nat /\ u[s] + (z - s) <= u[z]
        /\ u[z] - u[s] <= p[z] - p[s]
    BY <1>1, MeasuredAscends
  <2> QED BY <1>1, <2>1
<1>4. entry.start = p[z] - p[s] /\ entry.len = bytes /\ entry.units = units
  BY DEF EntryFor
<1>5. Converts(p, u, s, z, wide)
  OBVIOUS
<1>6. MaxU32 \in Nat
  BY CharAssumption
<1> DEFINE ps == p[s]
           us == u[s]
           pz == p[z]
           uz == u[z]
<1>7. /\ ps \in Nat /\ us \in Nat /\ pz \in Nat /\ uz \in Nat /\ us <= uz
      /\ p[k] = pz + bytes /\ u[k] = uz + units
  BY <1>2, <1>3
<1> HIDE DEF z, bytes, units, ps, us, pz, uz
<1>8. ASSUME NEW column \in Nat, column + (p[k] - p[s]) <= MaxU32
      PROVE  \E e \in s .. k : GrownTo(p, u, s, k, column, ByteColumn(next, column), e)
  <2> DEFINE a == ByteColumn(wide, column)
  <2>1. a \in Nat
    BY ByteColumnFacts
  <2>2. ByteColumn(next, column) = IF bytes = 1 THEN a ELSE Grown(entry, a)
    BY ByteColumnFacts DEF bytes
  <2> HIDE DEF a, next
  <2>3. column + (p[z] - p[s]) <= MaxU32
    <3>1. column + ((pz + bytes) - ps) <= MaxU32
      BY <1>8, <1>7 DEF ps
    <3>2. column + (pz - ps) <= MaxU32
      BY <1>2, <1>6, <1>7, <3>1
    <3> QED BY <3>2 DEF ps, pz
  <2>4. PICK e \in s .. z : GrownTo(p, u, s, z, column, a, e)
    BY <1>5, <2>3 DEF Converts, a
  <2>5. /\ a = (column + (p[e] - p[s])) - (u[e] - u[s])
        /\ e > s => u[e - 1] - u[s] < column
        /\ e < z => u[e] - u[s] >= column
    BY <2>4 DEF GrownTo
  <2>6. /\ e \in 0 .. Len(t) /\ e <= z /\ e \in Nat /\ e \in s .. k /\ k \in s .. k
        /\ e < k /\ k > s /\ k \in Nat /\ z \in Nat /\ s \in Nat
    BY <1>1
  <2>7. p[e] \in Nat /\ u[e] \in Nat /\ p[e] <= p[z]
    <3>1. p[e] \in Nat /\ u[e] \in Nat /\ p[e] + (z - e) <= p[z]
      BY <1>1, <2>6, MeasuredAscends
    <3>2. z - e \in Nat
      BY <2>6
    <3> QED BY <1>2, <3>1, <3>2, SumAtLeast
  <2>8. CASE u[e] - u[s] >= column
    <3>1. entry.start >= a
      <4> DEFINE pe == p[e]
                 ue == u[e]
      <4>1. pe \in Nat /\ ue \in Nat /\ pe <= pz
        BY <2>7 DEF pz
      <4>2. a = (column + (pe - ps)) - (ue - us) /\ ue - us >= column
        BY <2>5, <2>8 DEF ps, us
      <4> HIDE DEF pe, ue
      <4>3. pz - ps >= a
        BY <1>7, <4>1, <4>2, StaysWithin
      <4> QED BY <1>4, <4>3 DEF pz, ps
    <3>2. ByteColumn(next, column) = a
      BY <2>2, <3>1 DEF Grown
    <3>3. GrownTo(p, u, s, k, column, a, e)
      BY <2>5, <2>6, <2>8 DEF GrownTo
    <3> QED BY <2>6, <3>2, <3>3
  <2>9. CASE u[e] - u[s] < column
    <3>1. e = z
      BY <1>3, <2>5, <2>6, <2>7, <2>9
    <3>2. a = (column + (pz - ps)) - (uz - us) /\ uz - us < column
      BY <2>5, <2>9, <3>1 DEF ps, us, pz, uz
    <3> DEFINE b == a + (bytes - units)
    <3>3. column + ((pz + bytes) - ps) <= MaxU32
      BY <1>8, <1>7 DEF ps
    <3>4. /\ b = (column + ((pz + bytes) - ps)) - ((uz + units) - us)
          /\ b \in 0 .. MaxU32 /\ ~(pz - ps >= a)
      BY <1>2, <1>6, <1>7, <2>1, <3>2, <3>3, GrowsPast
    <3>5. ByteColumn(next, column) = b
      <4>1. CASE bytes = 1
        <5>1. b = a
          BY <1>2, <2>1, <4>1
        <5> QED BY <2>2, <4>1, <5>1
      <4>2. CASE bytes # 1
        <5>1. ~(entry.start >= a)
          BY <1>4, <3>4 DEF pz, ps
        <5>2. Grown(entry, a) = (a + (bytes - units)) % (MaxU32 + 1)
          BY <1>4, <5>1 DEF Grown
        <5>3. b % (MaxU32 + 1) = b
          <6> HIDE DEF b
          <6>1. MaxU32 + 1 \in Nat /\ MaxU32 + 1 > 0 /\ b \in 0 .. (MaxU32 + 1) - 1 /\ b \in Int
            BY <1>6, <3>4
          <6> QED BY <6>1, ModFacts
        <5> QED BY <2>2, <4>2, <5>2, <5>3
      <4> QED BY <4>1, <4>2
    <3>6. u[k - 1] - u[s] < column
      BY <1>1, <3>2 DEF us, uz
    <3>7. GrownTo(p, u, s, k, column, b, k)
      <4>1. b = (column + (p[k] - p[s])) - (u[k] - u[s])
        BY <1>7, <3>4 DEF ps, us
      <4> HIDE DEF b
      <4> QED BY <2>6, <3>6, <4>1 DEF GrownTo
    <3> QED BY <2>6, <3>5, <3>7
  <2>10. u[e] - u[s] \in Int /\ column \in Int
    BY <1>3, <2>7
  <2> QED BY <2>8, <2>9, <2>10
<1> QED BY <1>8 DEF Converts, next

LEMMA NarrowsNext ==
  ASSUME NEW t \in Seq(Chars), NEW p, NEW u, NEW m, Measured(t, p, u, m), NEW s \in 0 .. Len(t),
         NEW k \in s + 1 .. Len(t), NEW wide \in Seq(Entries), Narrows(p, u, s, k - 1, wide),
         NEW entry \in Entries, EntryFor(t, p, s, k, entry), entry.units = Units[t[k]]
  PROVE  Narrows(p, u, s, k, IF Bytes[t[k]] = 1 THEN wide ELSE Append(wide, entry))
<1> DEFINE z == k - 1
           next == IF Bytes[t[k]] = 1 THEN wide ELSE Append(wide, entry)
           bytes == Bytes[t[k]]
           units == Units[t[k]]
           ps == p[s]
           us == u[s]
           pz == p[z]
           uz == u[z]
<1>1. /\ Len(t) \in Nat /\ z \in s .. Len(t) /\ k = z + 1 /\ k \in 1 .. Len(t)
      /\ z \in 0 .. Len(t) /\ s <= z /\ k - 1 = z /\ \A b \in s .. k : b \in s .. z \/ b = k
  OBVIOUS
<1>2. /\ bytes \in 1 .. 4 /\ units \in 1 .. 2 /\ units <= bytes
      /\ p[k] = pz + bytes /\ u[k] = uz + units
  BY <1>1, MeasuredStep
<1>3. /\ ps \in Nat /\ us \in Nat /\ pz \in Nat /\ uz \in Nat
      /\ \A b \in s .. z : p[b] \in Nat /\ ps <= p[b] /\ p[b] <= pz
      /\ us <= uz
  <2> HIDE DEF z
  <2>1. /\ p[s] \in Nat /\ p[z] \in Nat /\ u[s] \in Nat /\ u[z] \in Nat
        /\ u[s] + (z - s) <= u[z] /\ z - s \in Nat
    BY <1>1, MeasuredAscends
  <2>2. ASSUME NEW b \in s .. z PROVE p[b] \in Nat /\ ps <= p[b] /\ p[b] <= pz
    <3>1. b \in 0 .. Len(t) /\ s <= b /\ b <= z /\ b - s \in Nat /\ z - b \in Nat
      BY <1>1
    <3>2. p[b] \in Nat /\ p[s] + (b - s) <= p[b] /\ p[b] + (z - b) <= p[z]
      BY <1>1, <3>1, MeasuredAscends
    <3> QED BY <2>1, <3>1, <3>2, SumAtLeast
  <2>3. u[s] <= u[z]
    BY <2>1, SumAtLeast
  <2> QED BY <2>1, <2>2, <2>3
<1>4. entry.start = pz - ps /\ entry.len = bytes /\ entry.units = units
  BY DEF EntryFor
<1>5. /\ \A b \in s .. z : Utf16Column(wide, p[b] - ps) = u[b] - us
      /\ \A column \in Nat :
           column >= pz - ps => Utf16Column(wide, column) = (column - (pz - ps)) + (uz - us)
  BY DEF Narrows
<1> HIDE DEF z, bytes, units, ps, us, pz, uz
<1>6. ASSUME NEW column \in Nat
      PROVE  Utf16Column(next, column)
               = IF bytes = 1 \/ entry.start >= column THEN Utf16Column(wide, column)
                 ELSE Utf16Column(wide, column) - (bytes - units)
  <2>1. Utf16Column(Append(wide, entry), column)
          = Shrunk(entry, column, Utf16Column(wide, column))
    BY Utf16ColumnFacts
  <2> QED BY <1>4, <2>1 DEF Shrunk, bytes
<1> HIDE DEF next
<1>7. ASSUME NEW b \in s .. z PROVE Utf16Column(next, p[b] - ps) = u[b] - us
  <2>1. p[b] - ps \in Nat /\ pz - ps >= p[b] - ps
    BY <1>3
  <2> QED BY <1>4, <1>5, <1>6, <2>1
<1>8. ASSUME NEW column \in Nat, column >= p[k] - ps
      PROVE  Utf16Column(next, column) = (column - (p[k] - ps)) + (u[k] - us)
  <2>1. column >= pz - ps /\ ~(pz - ps >= column)
    BY <1>2, <1>3, <1>8
  <2> DEFINE x == Utf16Column(wide, column)
  <2>2. x = (column - (pz - ps)) + (uz - us)
    BY <1>5, <2>1
  <2>3. Utf16Column(next, column) = IF bytes = 1 THEN x ELSE x - (bytes - units)
    BY <1>4, <1>6, <2>1
  <2> HIDE DEF x
  <2>4. bytes = 1 => units = 1
    BY <1>2
  <2> QED BY <1>2, <1>3, <2>2, <2>3, <2>4
<1>9. Utf16Column(next, p[k] - ps) = u[k] - us
  <2> DEFINE column == p[k] - ps
  <2>1. column \in Nat /\ column >= p[k] - ps
    <3>1. ps <= pz
      BY <1>3, <1>1
    <3> QED BY <1>2, <1>3, <3>1
  <2>2. Utf16Column(next, column) = (column - (p[k] - ps)) + (u[k] - us)
    BY <1>8, <2>1
  <2>3. u[k] - us \in Int /\ p[k] - ps \in Int
    BY <1>2, <1>3
  <2>4. (column - (p[k] - ps)) + (u[k] - us) = u[k] - us
    BY <2>3
  <2> QED BY <2>2, <2>4
<1>10. \A b \in s .. k : Utf16Column(next, p[b] - ps) = u[b] - us
  BY <1>1, <1>7, <1>9
<1> QED BY <1>8, <1>10 DEF Narrows, next, ps, us

-----------------------------------------------------------------------------
(* The table. *)

Tables ==
  {table \in [starts : Seq(Nat), wide : Seq(Seq(Entries)), len : Nat] :
     Len(table.starts) > 0 /\ Len(table.wide) = Len(table.starts)}

(* A table and one more character. *)
Extended(before, c) ==
  LET end == before.len + Bytes[c]
      line == Len(before.starts)
  IN  IF c = Newline
      THEN [starts |-> Append(before.starts, end),
            wide |-> Append(before.wide, <<>>), len |-> end]
      ELSE [before EXCEPT
             !.len = end,
             !.wide[line] =
               IF Bytes[c] = 1 THEN @
               ELSE Append(@, [start |-> before.len - before.starts[line],
                               len |-> Bytes[c], units |-> Units[c]])]

NoText == [starts |-> <<0>>, wide |-> << <<>> >>, len |-> 0]

ScanStep(t, scan, i) == IF i = 0 THEN NoText ELSE Extended(scan[i - 1], t[i])

(* The entry a character adds. *)
Added(before, c) ==
  [start |-> before.len - before.starts[Len(before.starts)],
   len |-> Bytes[c], units |-> Units[c]]

LEMMA TableFields ==
  ASSUME NEW table \in Tables
  PROVE  /\ table.starts \in Seq(Nat) /\ table.wide \in Seq(Seq(Entries)) /\ table.len \in Nat
         /\ Len(table.starts) \in Nat /\ Len(table.starts) > 0
         /\ Len(table.wide) = Len(table.starts)
         /\ table = [starts |-> table.starts, wide |-> table.wide, len |-> table.len]
BY DEF Tables

LEMMA ExtendedNewline ==
  ASSUME NEW table \in Tables
  PROVE  /\ Extended(table, Newline) \in Tables
         /\ Extended(table, Newline).starts = Append(table.starts, table.len + 1)
         /\ Extended(table, Newline).wide = Append(table.wide, <<>>)
         /\ Extended(table, Newline).len = table.len + 1
<1>1. Bytes[Newline] = 1
  BY CharAssumption
<1>2. Extended(table, Newline) =
        [starts |-> Append(table.starts, table.len + 1),
         wide |-> Append(table.wide, <<>>), len |-> table.len + 1]
  BY <1>1 DEF Extended
<1>3. /\ table.starts \in Seq(Nat) /\ table.wide \in Seq(Seq(Entries)) /\ table.len \in Nat
      /\ Len(table.wide) = Len(table.starts) /\ Len(table.starts) > 0 /\ Len(table.starts) \in Nat
  BY TableFields
<1>4. table.len + 1 \in Nat /\ <<>> \in Seq(Entries)
  BY <1>3
<1>5. /\ Append(table.starts, table.len + 1) \in Seq(Nat)
      /\ Len(Append(table.starts, table.len + 1)) = Len(table.starts) + 1
  BY <1>3, <1>4, AppendProperties
<1>6. /\ Append(table.wide, <<>>) \in Seq(Seq(Entries))
      /\ Len(Append(table.wide, <<>>)) = Len(table.starts) + 1
  <2> DEFINE e == <<>>
             S == Seq(Entries)
             w == table.wide
  <2>1. e \in S /\ w \in Seq(S)
    BY <1>3, <1>4
  <2> HIDE DEF e, S, w
  <2>2. Append(w, e) \in Seq(S) /\ Len(Append(w, e)) = Len(w) + 1
    BY <2>1, AppendProperties
  <2> QED BY <1>3, <2>2 DEF e, S, w
<1> QED BY <1>2, <1>3, <1>4, <1>5, <1>6 DEF Tables

LEMMA ExtendedOther ==
  ASSUME NEW table \in Tables, NEW c \in Chars, c # Newline
  PROVE  /\ Extended(table, c) \in Tables
         /\ Extended(table, c).starts = table.starts
         /\ Extended(table, c).len = table.len + Bytes[c]
         /\ Added(table, c) \in Entries
         /\ Extended(table, c).wide =
              [table.wide EXCEPT ![Len(table.starts)] =
                 IF Bytes[c] = 1 THEN table.wide[Len(table.starts)]
                 ELSE Append(table.wide[Len(table.starts)], Added(table, c))]
<1> DEFINE line == Len(table.starts)
           last == IF Bytes[c] = 1 THEN table.wide[line]
                   ELSE Append(table.wide[line], Added(table, c))
<1>1. /\ table.starts \in Seq(Nat) /\ table.wide \in Seq(Seq(Entries)) /\ table.len \in Nat
      /\ Len(table.wide) = line /\ line \in Nat /\ line > 0
      /\ table = [starts |-> table.starts, wide |-> table.wide, len |-> table.len]
  BY TableFields
<1>2. Bytes[c] \in Nat /\ Units[c] \in Nat
  BY CharAssumption
<1>3. table.starts[line] \in Nat /\ table.wide[line] \in Seq(Entries)
  BY <1>1
<1>4. Added(table, c) \in Entries
  BY <1>1, <1>2, <1>3 DEF Added, Entries
<1>5. last \in Seq(Entries)
  <2> HIDE DEF line
  <2> QED BY <1>3, <1>4, AppendProperties
<1>6. Extended(table, c) =
        [starts |-> table.starts, wide |-> [table.wide EXCEPT ![line] = last],
         len |-> table.len + Bytes[c]]
  BY <1>1 DEF Extended, Added
<1> HIDE DEF last
<1>7. /\ [table.wide EXCEPT ![line] = last] \in Seq(Seq(Entries))
      /\ Len([table.wide EXCEPT ![line] = last]) = line
  <2> HIDE DEF line
  <2> QED BY <1>1, <1>5
<1>8. table.len + Bytes[c] \in Nat
  BY <1>1, <1>2
<1> QED BY <1>1, <1>4, <1>6, <1>7, <1>8 DEF Tables, last

LEMMA NoTextFacts == NoText \in Tables /\ Len(NoText.starts) = 1
<1>1. <<0>> \in Seq(Nat) /\ Len(<<0>>) = 1
  OBVIOUS
<1>2. <<>> \in Seq(Entries)
  OBVIOUS
<1>3. << <<>> >> \in Seq(Seq(Entries)) /\ Len(<< <<>> >>) = 1
  BY <1>2
<1> QED BY <1>1, <1>3 DEF NoText, Tables

LEMMA ScanDef ==
  ASSUME NEW t \in Seq(Chars)
  PROVE  /\ Scan(t)[0] = NoText
         /\ \A i \in 1 .. Len(t) : /\ Scan(t)[i - 1] \in Tables /\ Scan(t)[i] \in Tables
                                   /\ Scan(t)[i] = Extended(Scan(t)[i - 1], t[i])
<1> DEFINE n == Len(t)
           g == [i \in 1 .. n |-> [x \in Tables |-> Extended(x, t[i])]]
<1>1. n \in Nat /\ \A i \in 1 .. n : t[i] \in Chars
  OBVIOUS
<1>2. \A i \in 1 .. n, x \in Tables : Extended(x, t[i]) \in Tables
  <2> SUFFICES ASSUME NEW i \in 1 .. n, NEW x \in Tables PROVE Extended(x, t[i]) \in Tables
    OBVIOUS
  <2> DEFINE c == t[i]
  <2>1. c \in Chars
    BY <1>1
  <2> HIDE DEF c
  <2>2. CASE c = Newline
    BY <2>2, ExtendedNewline DEF c
  <2>3. CASE c # Newline
    BY <2>1, <2>3, ExtendedOther DEF c
  <2> QED BY <2>2, <2>3
<1>3. g \in [1 .. n -> [Tables -> Tables]]
  <2> HIDE DEF n
  <2> QED BY <1>2
<1>4. \A i \in 1 .. n, x \in Tables : g[i][x] = Extended(x, t[i])
  OBVIOUS
<1> HIDE DEF g, n
<1>5. PICK f : Iterates(f, n, Tables, NoText, g)
  BY <1>1, <1>3, Recursion, NoTextFacts
<1>6. f = [i \in 0 .. n |-> ScanStep(t, f, i)]
  <2> SUFFICES ASSUME NEW i \in 0 .. n PROVE f[i] = ScanStep(t, f, i)
    BY <1>5 DEF Iterates
  <2>1. i # 0 => i \in 1 .. n /\ f[i - 1] \in Tables
    BY <1>1, <1>5 DEF Iterates
  <2>2. i # 0 => g[i][f[i - 1]] = ScanStep(t, f, i)
    BY <1>4, <2>1 DEF ScanStep
  <2>3. f[i] = IF i = 0 THEN NoText ELSE g[i][f[i - 1]]
    BY <1>5, <2>1 DEF Iterates
  <2> QED BY <2>2, <2>3 DEF ScanStep
<1> DEFINE scan[i \in 0 .. Len(t)] ==
        IF i = 0 THEN [starts |-> <<0>>, wide |-> << <<>> >>, len |-> 0]
        ELSE LET before == scan[i - 1]
                 c == t[i]
                 end == before.len + Bytes[c]
                 line == Len(before.starts)
             IN  IF c = Newline
                 THEN [starts |-> Append(before.starts, end),
                       wide |-> Append(before.wide, <<>>), len |-> end]
                 ELSE [before EXCEPT
                        !.len = end,
                        !.wide[line] =
                          IF Bytes[c] = 1 THEN @
                          ELSE Append(@, [start |-> before.len - before.starts[line],
                                          len |-> Bytes[c], units |-> Units[c]])]
<1>7. Scan(t) = scan
  BY Zenon DEF Scan
<1>8. scan = [i \in 0 .. Len(t) |-> ScanStep(t, scan, i)]
  BY <1>6, Zenon DEF ScanStep, Extended, NoText, n
<1> HIDE DEF scan
<1>9. \A i \in 0 .. n : scan[i] = ScanStep(t, scan, i)
  BY <1>8 DEF n
<1> DEFINE T == {i \in 0 .. n : scan[i] \in Tables}
<1>10. scan[0] = NoText /\ 0 \in T
  BY <1>1, <1>9, NoTextFacts DEF ScanStep
<1>11. ASSUME NEW i \in 1 .. n PROVE scan[i] = Extended(scan[i - 1], t[i])
  <2>1. i # 0 /\ i \in 0 .. n
    BY <1>1
  <2> QED BY <1>9, <2>1 DEF ScanStep
<1>12. ASSUME NEW i \in 1 .. n, i - 1 \in T PROVE i \in T
  BY <1>1, <1>2, <1>11, <1>12
<1>13. 0 .. n \subseteq T
  <2> HIDE DEF T
  <2> QED BY <1>1, <1>10, <1>12, UpTo
<1>14. ASSUME NEW i \in 1 .. n PROVE scan[i - 1] \in Tables /\ scan[i] \in Tables
  <2>1. i - 1 \in 0 .. n /\ i \in 0 .. n
    BY <1>1
  <2> QED BY <1>13, <2>1
<1> QED BY <1>7, <1>10, <1>11, <1>14 DEF n

(* A line of the table of the first i characters. *)
LineHolds(t, p, u, m, i, l, start, wide) ==
  \E s, z \in 0 .. i :
    /\ LineSpan(m, i, l, s, z)
    /\ start = p[s]
    /\ HasEntries(t, p, s, z, wide)
    /\ Converts(p, u, s, z, wide)
    /\ Narrows(p, u, s, z, wide)

TableHolds(t, p, u, m, i, table) ==
  /\ table \in Tables
  /\ table.len = p[i]
  /\ Len(table.starts) = m[i] + 1
  /\ \A l \in 1 .. m[i] + 1 : LineHolds(t, p, u, m, i, l, table.starts[l], table.wide[l])

(* A line that is not the last stays what it is. *)
LEMMA EarlierLineHolds ==
  ASSUME NEW t \in Seq(Chars), NEW p, NEW u, NEW m, Measured(t, p, u, m),
         NEW i \in 1 .. Len(t), NEW l \in Nat, m[i] # l - 1, NEW start, NEW wide,
         LineHolds(t, p, u, m, i - 1, l, start, wide)
  PROVE  LineHolds(t, p, u, m, i, l, start, wide)
<1> DEFINE h == i - 1
<1>1. /\ h \in Nat /\ i \in Nat /\ 0 .. i = (0 .. h) \union {i} /\ 0 .. h \subseteq 0 .. i
      /\ \A s, z \in 0 .. h : i \notin s .. z /\ (z \in s .. h => z \in s .. i)
  OBVIOUS
<1> HIDE DEF h
<1>2. PICK s, z \in 0 .. h :
        /\ LineSpan(m, h, l, s, z) /\ start = p[s]
        /\ HasEntries(t, p, s, z, wide) /\ Converts(p, u, s, z, wide)
        /\ Narrows(p, u, s, z, wide)
  BY DEF LineHolds, h
<1>3. /\ z \in s .. h /\ \A j \in 0 .. h : m[j] = l - 1 <=> j \in s .. z
  BY <1>2 DEF LineSpan
<1>4. s \in 0 .. i /\ z \in 0 .. i /\ z \in s .. i
  BY <1>1, <1>3
<1>5. \A j \in 0 .. i : m[j] = l - 1 <=> j \in s .. z
  BY <1>1, <1>3
<1>6. LineSpan(m, i, l, s, z)
  BY <1>4, <1>5 DEF LineSpan
<1> QED BY <1>2, <1>4, <1>6 DEF LineHolds

(* A newline starts one. *)
LEMMA NewLineHolds ==
  ASSUME NEW t \in Seq(Chars), NEW p, NEW u, NEW m, Measured(t, p, u, m),
         NEW i \in 0 .. Len(t), i > 0 => t[i] = Newline
  PROVE  LineHolds(t, p, u, m, i, m[i] + 1, p[i], <<>>)
<1>1. Len(t) \in Nat /\ i \in Nat /\ m[i] \in Nat
  BY MeasuredTypes
<1>2. ASSUME NEW j \in 0 .. i, j # i PROVE m[j] # m[i]
  <2> DEFINE h == i - 1
  <2>1. h \in 0 .. Len(t) /\ i \in 1 .. Len(t) /\ j \in 0 .. Len(t) /\ j <= h /\ i > 0
    BY <1>1, <1>2
  <2>2. m[i] = m[h] + 1
    BY <2>1, MeasuredStep
  <2> HIDE DEF h
  <2>3. m[j] \in Nat /\ m[h] \in Nat /\ m[j] <= m[h]
    BY <2>1, MeasuredAscends
  <2> QED BY <2>2, <2>3
<1>3. i \in 0 .. i /\ i \in i .. i /\ \A j \in 0 .. i : j \in i .. i <=> j = i
  BY <1>1
<1>4. LineSpan(m, i, m[i] + 1, i, i)
  <2> DEFINE l == m[i] + 1
  <2>1. l - 1 = m[i]
    BY <1>1
  <2> HIDE DEF l
  <2>2. \A j \in 0 .. i : m[j] = l - 1 <=> j \in i .. i
    BY <1>2, <1>3, <2>1
  <2>3. LineSpan(m, i, l, i, i)
    BY <1>3, <2>2 DEF LineSpan
  <2> QED BY <2>3 DEF l
<1>5. /\ HasEntries(t, p, i, i, <<>>) /\ Converts(p, u, i, i, <<>>)
      /\ Narrows(p, u, i, i, <<>>)
  BY ContentEmpty
<1> QED BY <1>3, <1>4, <1>5 DEF LineHolds

LEMMA TableHoldsFirst ==
  ASSUME NEW t \in Seq(Chars), NEW p, NEW u, NEW m, Measured(t, p, u, m)
  PROVE  TableHolds(t, p, u, m, 0, NoText)
<1>1. Len(t) \in Nat /\ p[0] = 0 /\ u[0] = 0 /\ m[0] = 0 /\ 0 \in 0 .. Len(t)
  BY MeasuredTypes
<1>2. LineHolds(t, p, u, m, 0, m[0] + 1, p[0], <<>>)
  BY <1>1, NewLineHolds
<1>3. NoText \in Tables /\ Len(NoText.starts) = 1
  BY NoTextFacts
<1>4. NoText.len = 0 /\ NoText.starts[1] = 0 /\ NoText.wide[1] = <<>>
  BY DEF NoText
<1>5. \A l \in 1 .. m[0] + 1 : l = 1
  BY <1>1
<1>6. m[0] + 1 = 1
  BY <1>1
<1>7. LineHolds(t, p, u, m, 0, 1, NoText.starts[1], NoText.wide[1])
  BY <1>1, <1>2, <1>4, <1>6
<1> QED BY <1>1, <1>3, <1>4, <1>5, <1>6, <1>7 DEF TableHolds

LEMMA TableHoldsNewline ==
  ASSUME NEW t \in Seq(Chars), NEW p, NEW u, NEW m, Measured(t, p, u, m),
         NEW i \in 1 .. Len(t), t[i] = Newline,
         NEW table, TableHolds(t, p, u, m, i - 1, table)
  PROVE  TableHolds(t, p, u, m, i, Extended(table, Newline))
<1> DEFINE h == i - 1
           next == Extended(table, Newline)
<1>1. /\ table \in Tables /\ table.len = p[h] /\ Len(table.starts) = m[h] + 1
      /\ \A l \in 1 .. m[h] + 1 : LineHolds(t, p, u, m, h, l, table.starts[l], table.wide[l])
  BY DEF TableHolds
<1>2. /\ m[h] \in Nat /\ p[h] \in Nat /\ m[i] = m[h] + 1 /\ p[i] = p[h] + 1
      /\ i \in 0 .. Len(t)
  BY MeasuredStep
<1>3. /\ table.starts \in Seq(Nat) /\ table.wide \in Seq(Seq(Entries)) /\ table.len \in Nat
      /\ Len(table.wide) = m[i] /\ Len(table.starts) = m[i]
  BY <1>1, <1>2, TableFields
<1>4. /\ next \in Tables /\ next.starts = Append(table.starts, p[i])
      /\ next.wide = Append(table.wide, <<>>) /\ next.len = p[i]
  BY <1>1, <1>2, ExtendedNewline
<1> HIDE DEF next
<1>5. /\ Len(next.starts) = m[i] + 1 /\ m[i] \in Nat
      /\ next.starts[m[i] + 1] = p[i] /\ next.wide[m[i] + 1] = <<>>
      /\ \A l \in 1 .. m[i] : next.starts[l] = table.starts[l] /\ next.wide[l] = table.wide[l]
  <2> DEFINE a == table.starts
             b == table.wide
             S == Seq(Entries)
             e == <<>>
             k == m[i]
             x == p[i]
  <2>1. k \in Nat /\ x \in Nat
    <3>1. \A number \in Nat : number + 1 \in Nat
      OBVIOUS
    <3> QED BY <1>2, <3>1, Zenon
  <2>2. e \in S
    OBVIOUS
  <2>3. a \in Seq(Nat) /\ Len(a) = k /\ b \in Seq(S) /\ Len(b) = k
    BY <1>3, Zenon
  <2>4. /\ a \in Seq(Nat) /\ Len(a) = k /\ k \in Nat /\ x \in Nat
        /\ b \in Seq(S) /\ Len(b) = k /\ e \in S
    BY <2>1, <2>2, <2>3, Zenon
  <2>5. next.starts = Append(a, x) /\ next.wide = Append(b, e)
    BY <1>4
  <2> HIDE DEF a, b, S, e, k, x
  <2>6. /\ Len(Append(a, x)) = k + 1 /\ Append(a, x)[k + 1] = x
        /\ \A l \in 1 .. k : Append(a, x)[l] = a[l]
    BY <2>4
  <2>7. Append(b, e)[k + 1] = e /\ \A l \in 1 .. k : Append(b, e)[l] = b[l]
    BY <2>4
  <2> QED BY <2>4, <2>5, <2>6, <2>7 DEF a, b, e, k, x
<1>6. ASSUME NEW l \in 1 .. m[i] + 1
      PROVE  LineHolds(t, p, u, m, i, l, next.starts[l], next.wide[l])
  <2>1. CASE l = m[i] + 1
    BY <1>2, <1>5, <2>1, NewLineHolds
  <2>2. CASE l # m[i] + 1
    <3>1. l \in 1 .. m[i] /\ l \in Nat /\ m[i] # l - 1
      BY <1>5, <2>2
    <3>2. LineHolds(t, p, u, m, h, l, table.starts[l], table.wide[l])
      BY <1>1, <1>2, <3>1
    <3> QED BY <1>5, <3>1, <3>2, EarlierLineHolds
  <2> QED BY <2>1, <2>2
<1> QED BY <1>4, <1>5, <1>6 DEF TableHolds, next

(* A character that is no newline makes the last line longer. *)
LEMMA LastLineHolds ==
  ASSUME NEW t \in Seq(Chars), NEW p, NEW u, NEW m, Measured(t, p, u, m),
         NEW i \in 1 .. Len(t), t[i] # Newline, NEW wide, NEW start, NEW entry \in Entries,
         LineHolds(t, p, u, m, i - 1, m[i - 1] + 1, start, wide),
         entry.start = p[i - 1] - start, entry.len = Bytes[t[i]], entry.units = Units[t[i]]
  PROVE  LineHolds(t, p, u, m, i, m[i] + 1, start,
                   IF Bytes[t[i]] = 1 THEN wide ELSE Append(wide, entry))
<1> DEFINE h == i - 1
           l == m[h] + 1
           next == IF Bytes[t[i]] = 1 THEN wide ELSE Append(wide, entry)
<1>1. /\ h \in Nat /\ i \in Nat /\ 0 .. i = (0 .. h) \union {i} /\ h \in 0 .. h
      /\ i \in 0 .. i /\ 0 .. h \subseteq 0 .. i /\ h \in 0 .. Len(t) /\ i = h + 1
      /\ \A j \in 0 .. h : i \in j .. i /\ i \in j + 1 .. Len(t) /\ j \in 0 .. Len(t)
      /\ \A j, k \in 0 .. h : k \in j .. h <=> k \in j .. i
  OBVIOUS
<1>2. m[h] \in Nat /\ m[i] = m[h] /\ l - 1 = m[h] /\ l - 1 = m[i]
  BY MeasuredStep
<1> HIDE DEF h, l, next
<1>3. PICK s, z \in 0 .. h :
        /\ LineSpan(m, h, l, s, z) /\ start = p[s]
        /\ HasEntries(t, p, s, z, wide) /\ Converts(p, u, s, z, wide)
        /\ Narrows(p, u, s, z, wide)
  BY DEF LineHolds, h, l
<1>4. z \in s .. h /\ \A j \in 0 .. h : m[j] = l - 1 <=> j \in s .. z
  BY <1>3 DEF LineSpan
<1>5. z = h
  <2>1. h \in s .. z
    BY <1>1, <1>2, <1>4
  <2> QED BY <1>1, <1>4, <2>1
<1>6. LineSpan(m, i, l, s, i)
  <2>1. \A j \in 0 .. i : m[j] = l - 1 <=> j \in s .. i
    BY <1>1, <1>2, <1>4, <1>5
  <2> QED BY <1>1, <2>1 DEF LineSpan
<1>7. s \in 0 .. Len(t) /\ i \in s + 1 .. Len(t) /\ s \in 0 .. i /\ i \in s .. i
  BY <1>1
<1>8. EntryFor(t, p, s, i, entry) /\ wide \in Seq(Entries)
  BY <1>3 DEF EntryFor, HasEntries
<1>9. /\ HasEntries(t, p, s, i - 1, wide) /\ Converts(p, u, s, i - 1, wide)
      /\ Narrows(p, u, s, i - 1, wide)
  BY <1>3, <1>5 DEF h
<1>10. HasEntries(t, p, s, i, next)
  BY <1>7, <1>8, <1>9, HasEntriesNext DEF next
<1>11. Converts(p, u, s, i, next)
  BY <1>7, <1>8, <1>9, ConvertsNext DEF next
<1>12. Narrows(p, u, s, i, next)
  BY <1>7, <1>8, <1>9, NarrowsNext DEF next
<1>13. LineHolds(t, p, u, m, i, l, start, next)
  BY <1>1, <1>3, <1>6, <1>7, <1>10, <1>11, <1>12 DEF LineHolds
<1>14. l = m[i] + 1
  BY <1>2 DEF l
<1> QED BY <1>13, <1>14 DEF next

LEMMA TableHoldsOther ==
  ASSUME NEW t \in Seq(Chars), NEW p, NEW u, NEW m, Measured(t, p, u, m),
         NEW i \in 1 .. Len(t), t[i] # Newline,
         NEW table, TableHolds(t, p, u, m, i - 1, table)
  PROVE  TableHolds(t, p, u, m, i, Extended(table, t[i]))
<1> DEFINE h == i - 1
           c == t[i]
           next == Extended(table, c)
           L == Len(table.starts)
           last == IF Bytes[c] = 1 THEN table.wide[L] ELSE Append(table.wide[L], Added(table, c))
<1>1. /\ table \in Tables /\ table.len = p[h] /\ L = m[h] + 1
      /\ \A l \in 1 .. m[h] + 1 : LineHolds(t, p, u, m, h, l, table.starts[l], table.wide[l])
  BY DEF TableHolds
<1>2. /\ m[h] \in Nat /\ m[i] = m[h] /\ p[i] = p[h] + Bytes[c] /\ c \in Chars
  BY MeasuredStep
<1>3. /\ L \in Nat /\ L > 0 /\ table.wide \in Seq(Seq(Entries)) /\ Len(table.wide) = L
  BY <1>1, TableFields
<1>4. /\ next \in Tables /\ next.starts = table.starts /\ next.len = p[i]
      /\ Added(table, c) \in Entries
      /\ next.wide = [table.wide EXCEPT ![L] = last]
  BY <1>1, <1>2, ExtendedOther
<1>5. /\ Added(table, c).start = p[h] - table.starts[L]
      /\ Added(table, c).len = Bytes[c] /\ Added(table, c).units = Units[c]
  BY <1>1 DEF Added
<1>6. LineHolds(t, p, u, m, i, m[i] + 1, table.starts[L], last)
  <2>1. L \in 1 .. m[h] + 1
    BY <1>1, <1>2, <1>3
  <2>2. LineHolds(t, p, u, m, h, m[h] + 1, table.starts[L], table.wide[L])
    BY <1>1, <2>1
  <2> HIDE DEF L
  <2> QED BY <1>4, <1>5, <2>2, LastLineHolds
<1> HIDE DEF next, last, L
<1>7. /\ next.wide[L] = last
      /\ \A l \in 1 .. L : l # L => next.wide[l] = table.wide[l]
  BY <1>3, <1>4
<1>8. ASSUME NEW l \in 1 .. m[i] + 1
      PROVE  LineHolds(t, p, u, m, i, l, next.starts[l], next.wide[l])
  <2>1. CASE l = L
    BY <1>1, <1>2, <1>4, <1>6, <1>7, <2>1
  <2>2. CASE l # L
    <3>1. l \in 1 .. L /\ l \in Nat /\ m[i] # l - 1
      BY <1>1, <1>2, <2>2
    <3>2. LineHolds(t, p, u, m, h, l, table.starts[l], table.wide[l])
      BY <1>1, <1>2
    <3>3. LineHolds(t, p, u, m, i, l, table.starts[l], table.wide[l])
      BY <3>1, <3>2, EarlierLineHolds
    <3> QED BY <1>4, <1>7, <2>2, <3>1, <3>3
  <2> QED BY <2>1, <2>2
<1>9. Len(next.starts) = m[i] + 1
  BY <1>1, <1>2, <1>4 DEF L
<1> QED BY <1>4, <1>8, <1>9 DEF TableHolds, next

(* The table of every prefix of a text is what the measures say. *)
LEMMA ScanHolds ==
  ASSUME NEW t \in Seq(Chars), NEW p, NEW u, NEW m, Measured(t, p, u, m), NEW i \in 0 .. Len(t)
  PROVE  TableHolds(t, p, u, m, i, Scan(t)[i])
<1> DEFINE n == Len(t)
           T == {k \in 0 .. n : TableHolds(t, p, u, m, k, Scan(t)[k])}
<1>1. n \in Nat
  OBVIOUS
<1>2. 0 \in T
  <2>1. TableHolds(t, p, u, m, 0, Scan(t)[0])
    BY ScanDef, TableHoldsFirst
  <2> QED BY <1>1, <2>1
<1>3. ASSUME NEW k \in 1 .. n, k - 1 \in T PROVE k \in T
  <2>1. TableHolds(t, p, u, m, k - 1, Scan(t)[k - 1]) /\ k \in 0 .. n
    BY <1>1, <1>3
  <2>2. Scan(t)[k] = Extended(Scan(t)[k - 1], t[k])
    BY ScanDef
  <2>3. CASE t[k] = Newline
    <3>1. TableHolds(t, p, u, m, k, Extended(Scan(t)[k - 1], Newline))
      BY <2>1, <2>3, TableHoldsNewline
    <3> QED BY <2>1, <2>2, <2>3, <3>1
  <2>4. CASE t[k] # Newline
    <3>1. TableHolds(t, p, u, m, k, Extended(Scan(t)[k - 1], t[k]))
      BY <2>1, <2>4, TableHoldsOther
    <3> QED BY <2>1, <2>2, <3>1
  <2> QED BY <2>3, <2>4
<1>4. 0 .. n \subseteq T
  <2> HIDE DEF T
  <2> QED BY <1>1, <1>2, <1>3, UpTo
<1> QED BY <1>4

-----------------------------------------------------------------------------
(* Offsets. *)

LEMMA SmallestOf ==
  ASSUME NEW T, T \subseteq Nat, T # {}
  PROVE  Min(T) \in T /\ \A m \in T : Min(T) <= m
<1>1. \E x \in T : \A y \in T : x <= y
  BY LeastOf
<1> QED BY <1>1, Zenon DEF Min

LEMMA SmallerOf ==
  ASSUME NEW a \in Nat, NEW b \in Nat
  PROVE  Min({a, b}) = IF a <= b THEN a ELSE b
<1> DEFINE g == Min({a, b})
<1>1. g \in {a, b} /\ \A m \in {a, b} : g <= m
  <2> DEFINE T == {a, b}
  <2>1. T \subseteq Nat /\ T # {}
    OBVIOUS
  <2> HIDE DEF T
  <2>2. Min(T) \in T /\ \A m \in T : Min(T) <= m
    BY <2>1, SmallestOf
  <2> QED BY <2>2 DEF T
<1> HIDE DEF g
<1>2. g = IF a <= b THEN a ELSE b
  BY <1>1
<1> QED BY <1>2 DEF g

LEMMA NotBetween ==
  ASSUME NEW x \in Nat, NEW y \in Nat, NEW origin \in Nat, NEW column \in Nat,
         column < x - origin, x <= y
  PROVE  ~(column > y - origin) /\ ~(y - origin <= column)
OBVIOUS

(* A column inside a character goes to the boundary before it. *)
LEMMA SnappedIs ==
  ASSUME NEW t \in Seq(Chars), NEW p, NEW u, NEW m, Measured(t, p, u, m),
         NEW s \in 0 .. Len(t), NEW z \in s .. Len(t), NEW wide, HasEntries(t, p, s, z, wide),
         NEW b \in s .. z, NEW column \in Nat,
         column <= p[z] - p[s], p[b] - p[s] <= column, b < z => column < p[b + 1] - p[s]
  PROVE  Snapped(wide, column) = p[b] - p[s]
<1> DEFINE holders == {j \in DOMAIN wide : column > wide[j].start
                                           /\ column < wide[j].start + wide[j].len}
<1>1. Snapped(wide, column) = IF holders = {} THEN column ELSE wide[Min(holders)].start
  BY Zenon DEF Snapped
<1>2. /\ wide \in Seq(Entries) /\ DOMAIN wide = 1 .. Len(wide)
      /\ \A j \in 1 .. Len(wide) : \E k \in s + 1 .. z : EntryFor(t, p, s, k, wide[j])
      /\ \A k \in s + 1 .. z :
           Bytes[t[k]] # 1 => \E j \in 1 .. Len(wide) : EntryFor(t, p, s, k, wide[j])
  BY DEF HasEntries
<1>3. Len(t) \in Nat /\ p[s] \in Nat /\ p[z] \in Nat /\ p[b] \in Nat
  BY MeasuredTypes
<1>4. ASSUME NEW j \in holders PROVE wide[j].start = p[b] - p[s]
  <2>1. PICK k \in s + 1 .. z : EntryFor(t, p, s, k, wide[j])
    BY <1>2
  <2> DEFINE h == k - 1
  <2>2. k \in 1 .. Len(t) /\ h \in 0 .. Len(t) /\ h \in s .. z /\ k = h + 1
        /\ b \in 0 .. Len(t) /\ k \in 0 .. Len(t)
    BY <1>3
  <2>3. p[k] = p[h] + Bytes[t[k]] /\ p[h] \in Nat /\ Bytes[t[k]] \in 1 .. 4
    BY <2>2, MeasuredStep
  <2> HIDE DEF h
  <2>4. wide[j].start = p[h] - p[s] /\ wide[j].len = Bytes[t[k]]
    BY <2>1 DEF EntryFor, h
  <2>5. column > p[h] - p[s] /\ column < p[k] - p[s]
    <3>1. column > wide[j].start /\ column < wide[j].start + wide[j].len
      OBVIOUS
    <3> DEFINE ph == p[h]
               ps == p[s]
               bytes == Bytes[t[k]]
    <3>2. ph \in Nat /\ ps \in Nat /\ bytes \in Nat /\ p[k] = ph + bytes
      BY <1>3, <2>3
    <3>3. column > ph - ps /\ column < (ph - ps) + bytes
      BY <2>4, <3>1
    <3> HIDE DEF ph, ps, bytes
    <3>4. column < (ph + bytes) - ps
      BY <3>2, <3>3
    <3> QED BY <3>2, <3>3, <3>4 DEF ph, ps
  <2>6. ~(b < h)
    <3> SUFFICES ASSUME b < h PROVE FALSE
      OBVIOUS
    <3> DEFINE c == b + 1
    <3>1. c \in 0 .. Len(t) /\ c <= h /\ b < z
      BY <1>3, <2>2
    <3> HIDE DEF c
    <3>2. p[c] \in Nat /\ p[c] + (h - c) <= p[h]
      BY <2>2, <3>1, MeasuredAscends
    <3>3. column < p[c] - p[s]
      BY <3>1 DEF c
    <3>4. p[c] <= p[h]
      BY <2>2, <2>3, <3>1, <3>2
    <3> QED BY <1>3, <2>3, <2>5, <3>2, <3>3, <3>4, NotBetween
  <2>7. ~(k <= b)
    <3> SUFFICES ASSUME k <= b PROVE FALSE
      OBVIOUS
    <3>1. p[k] \in Nat /\ p[k] + (b - k) <= p[b]
      BY <2>2, MeasuredAscends
    <3>2. p[k] <= p[b]
      BY <1>3, <2>2, <3>1
    <3> QED BY <1>3, <2>5, <3>1, <3>2, NotBetween
  <2>8. h = b
    BY <1>3, <2>2, <2>6, <2>7
  <2> QED BY <2>4, <2>8
<1>5. CASE holders = {}
  <2>1. CASE p[b] - p[s] = column
    BY <1>1, <1>5, <2>1
  <2>2. CASE p[b] - p[s] # column
    <3> DEFINE k == b + 1
    <3>1. b < z
      BY <1>3, <2>2
    <3>2. k \in 1 .. Len(t) /\ k \in s + 1 .. z /\ k - 1 = b /\ k - 1 \in 0 .. Len(t)
      BY <1>3, <3>1
    <3>3. column < p[k] - p[s]
      BY <3>1
    <3> HIDE DEF k
    <3>4. p[k] = p[b] + Bytes[t[k]] /\ Bytes[t[k]] \in 1 .. 4
      BY <3>2, MeasuredStep
    <3>5. Bytes[t[k]] # 1
      BY <1>3, <2>2, <3>3, <3>4
    <3>6. PICK j \in 1 .. Len(wide) : EntryFor(t, p, s, k, wide[j])
      BY <1>2, <3>2, <3>5
    <3>7. wide[j].start = p[b] - p[s] /\ wide[j].len = Bytes[t[k]]
      BY <3>2, <3>6 DEF EntryFor
    <3>8. column > wide[j].start
      BY <1>3, <2>2, <3>7
    <3>9. column < wide[j].start + wide[j].len
      <4> DEFINE pb == p[b]
                 ps == p[s]
                 bytes == Bytes[t[k]]
      <4>1. pb \in Nat /\ ps \in Nat
        BY <1>3
      <4>2. bytes \in Nat
        BY <3>4
      <4>3. column < (pb + bytes) - ps
        BY <3>3, <3>4
      <4>4. wide[j].start + wide[j].len = (pb - ps) + bytes
        BY <3>7
      <4> HIDE DEF pb, ps, bytes
      <4>5. (pb + bytes) - ps = (pb - ps) + bytes
        BY <4>1, <4>2
      <4> QED BY <4>3, <4>4, <4>5
    <3>10. j \in holders
      BY <1>2, <3>8, <3>9
    <3> QED BY <1>5, <3>10
  <2> QED BY <2>1, <2>2
<1>6. CASE holders # {}
  <2>1. holders \subseteq Nat
    BY <1>2
  <2> HIDE DEF holders
  <2>2. Min(holders) \in holders
    BY <1>6, <2>1, SmallestOf
  <2> QED BY <1>1, <1>4, <1>6, <2>2
<1> QED BY <1>5, <1>6

LEMMA LineEndIs ==
  ASSUME NEW t \in Seq(Chars), NEW p, NEW u, NEW m, Measured(t, p, u, m),
         NEW table, TableHolds(t, p, u, m, Len(t), table),
         NEW line \in Nat, line <= m[Len(t)], NEW s, NEW z, LineSpan(m, Len(t), line + 1, s, z)
  PROVE  LineEnd(table, line) = p[z]
<1> DEFINE n == Len(t)
           l == line + 1
           next == line + 2
<1>1. /\ table.len = p[n] /\ Len(table.starts) = m[n] + 1 /\ table.starts \in Seq(Nat)
      /\ \A k \in 1 .. m[n] + 1 : LineHolds(t, p, u, m, n, k, table.starts[k], table.wide[k])
  BY TableFields DEF TableHolds
<1>2. n \in Nat /\ m[n] \in Nat /\ n \in 0 .. n
  BY MeasuredTypes
<1>3. DOMAIN table.starts = 1 .. m[n] + 1
  BY <1>1, <1>2
<1>4. l \in Nat /\ next = l + 1 /\ l - 1 = line /\ next - 1 = l
  OBVIOUS
<1>5. LineEnd(table, line) = IF next \in 1 .. m[n] + 1 THEN table.starts[next] - 1 ELSE p[n]
  BY <1>1, <1>3 DEF LineEnd
<1> HIDE DEF n, l, next
<1>6. s \in 0 .. n /\ z \in s .. n /\ \A j \in 0 .. n : m[j] = line <=> j \in s .. z
  BY <1>4 DEF LineSpan, n, l
<1>7. z < n => t[z + 1] = Newline
  BY <1>2, <1>4, SpanNewlines DEF n, l
<1>8. CASE next \in 1 .. m[n] + 1
  <2>1. PICK a, b \in 0 .. n : LineSpan(m, n, next, a, b) /\ table.starts[next] = p[a]
    BY <1>1, <1>8 DEF LineHolds
  <2>2. b \in a .. n /\ \A j \in 0 .. n : m[j] = l <=> j \in a .. b
    BY <1>4, <2>1 DEF LineSpan
  <2>3. m[a] = l /\ m[s] = line /\ m[z] = line /\ a \in 0 .. n /\ z \in 0 .. n
    BY <1>2, <1>6, <2>1, <2>2
  <2>4. ~(a < s)
    <3> SUFFICES ASSUME a < s PROVE FALSE
      OBVIOUS
    <3>1. a <= s /\ s \in 0 .. Len(t) /\ a \in 0 .. Len(t)
      BY <1>2, <1>6, <2>3 DEF n
    <3>2. m[a] <= m[s]
      BY <3>1, MeasuredAscends
    <3> QED BY <1>4, <2>3, <3>2
  <2>5. a > z
    <3>1. a \notin s .. z
      BY <1>4, <1>6, <2>3
    <3> QED BY <1>2, <1>6, <2>3, <2>4, <3>1
  <2> DEFINE k == z + 1
  <2>6. k \in 1 .. n /\ k \in 0 .. n /\ k - 1 = z /\ z < n
    BY <1>2, <1>6, <2>3, <2>5
  <2>7. t[k] = Newline
    BY <1>7, <2>6
  <2> HIDE DEF k
  <2>8. m[k] = m[z] + 1 /\ p[k] = p[z] + 1 /\ p[z] \in Nat
    BY <2>6, <2>7, MeasuredStep DEF n
  <2>9. k \in a .. b
    BY <1>4, <2>2, <2>3, <2>6, <2>8 DEF l
  <2>10. a = k
    BY <1>2, <2>3, <2>5, <2>6, <2>9
  <2>11. table.starts[next] - 1 = p[z]
    BY <2>1, <2>8, <2>10
  <2> QED BY <1>5, <1>8, <2>11
<1>9. CASE next \notin 1 .. m[n] + 1
  <2>1. m[n] = line
    BY <1>2, <1>4, <1>9 DEF n, l
  <2>2. z = n
    BY <1>2, <1>6, <2>1
  <2> QED BY <1>5, <1>9, <2>2
<1> QED BY <1>8, <1>9

LEMMA CountedAscends ==
  ASSUME NEW t \in Seq(Chars), NEW p, NEW u, NEW m, Measured(t, p, u, m), NEW unit,
         NEW i \in 0 .. Len(t), NEW j \in 0 .. Len(t), i <= j
  PROVE  /\ Counted(p, u, unit)[i] \in Nat /\ Counted(p, u, unit)[j] \in Nat
         /\ Counted(p, u, unit)[i] <= Counted(p, u, unit)[j]
<1>1. /\ p[i] \in Nat /\ p[j] \in Nat /\ u[i] \in Nat /\ u[j] \in Nat
      /\ p[i] + (j - i) <= p[j] /\ u[i] + (j - i) <= u[j] /\ j - i \in Nat
  BY MeasuredAscends
<1>2. p[i] <= p[j] /\ u[i] <= u[j]
  BY <1>1
<1> QED BY <1>1, <1>2 DEF Counted

LEMMA OneLastWithin ==
  ASSUME NEW t \in Seq(Chars), NEW p, NEW u, NEW m, Measured(t, p, u, m), NEW unit,
         NEW s \in 0 .. Len(t), NEW z \in s .. Len(t), NEW column \in Nat, NEW b, NEW k,
         LastWithin(Counted(p, u, unit), s, z, column, b),
         LastWithin(Counted(p, u, unit), s, z, column, k)
  PROVE  b = k
<1> DEFINE q == Counted(p, u, unit)
<1>1. Len(t) \in Nat
  OBVIOUS
<1>2. ASSUME NEW x, NEW y, LastWithin(q, s, z, column, x), LastWithin(q, s, z, column, y)
      PROVE  ~(x < y)
  <2> SUFFICES ASSUME x < y PROVE FALSE
    OBVIOUS
  <2>1. x \in s .. z /\ y \in s .. z /\ q[y] - q[s] <= column
        /\ (x < z => q[x + 1] - q[s] > column)
    BY <1>2 DEF LastWithin
  <2> DEFINE h == x + 1
  <2>2. h \in 0 .. Len(t) /\ y \in 0 .. Len(t) /\ h <= y /\ x < z /\ s \in 0 .. Len(t) /\ s <= y
    BY <1>1, <2>1
  <2>3. q[h] - q[s] > column
    BY <2>1, <2>2
  <2> HIDE DEF h
  <2>4. q[h] \in Nat /\ q[y] \in Nat /\ q[h] <= q[y] /\ q[s] \in Nat
    BY <2>2, CountedAscends
  <2> HIDE DEF q
  <2> QED BY <2>1, <2>3, <2>4
<1>3. ~(b < k) /\ ~(k < b)
  BY <1>2
<1>4. b \in s .. z /\ k \in s .. z
  BY DEF LastWithin
<1> QED BY <1>3, <1>4

(* A column in bytes, cut to the line, is at a boundary or inside the character *)
(* after it.                                                                    *)
CutTo(p, s, z, column, b) ==
  LET cut == IF column <= p[z] - p[s] THEN column ELSE p[z] - p[s]
  IN  /\ column \in Nat
      /\ p[b] - p[s] <= cut
      /\ b < z => cut < p[b + 1] - p[s]

LEMMA BytesCut ==
  ASSUME NEW t \in Seq(Chars), NEW p, NEW u, NEW m, Measured(t, p, u, m),
         NEW s \in 0 .. Len(t), NEW z \in s .. Len(t), NEW column \in Nat, NEW b,
         LastWithin(p, s, z, column, b)
  PROVE  CutTo(p, s, z, column, b)
<1>1. b \in s .. z /\ p[b] - p[s] <= column /\ (b < z => p[b + 1] - p[s] > column)
  BY DEF LastWithin
<1>2. Len(t) \in Nat /\ p[s] \in Nat /\ p[z] \in Nat /\ p[b] \in Nat /\ b \in 0 .. Len(t)
  BY <1>1, MeasuredTypes
<1>3. p[b] <= p[z]
  <2>1. b <= z /\ z - b \in Nat
    BY <1>1, <1>2
  <2>2. p[b] + (z - b) <= p[z]
    BY <1>2, <2>1, MeasuredAscends
  <2> QED BY <1>2, <2>1, <2>2
<1>4. ASSUME b < z PROVE p[b + 1] \in Nat /\ p[b + 1] <= p[z]
  <2> DEFINE h == b + 1
  <2>1. h \in 0 .. Len(t) /\ h <= z
    BY <1>1, <1>2, <1>4
  <2> HIDE DEF h
  <2>2. p[h] \in Nat /\ p[z] \in Nat /\ p[h] + (z - h) <= p[z] /\ z - h \in Nat
    BY <2>1, MeasuredAscends
  <2>3. p[h] <= p[z]
    BY <2>2
  <2> QED BY <2>2, <2>3 DEF h
<1>5. CASE column <= p[z] - p[s]
  BY <1>1, <1>5 DEF CutTo
<1>6. CASE ~(column <= p[z] - p[s])
  <2>1. ~(b < z)
    BY <1>1, <1>2, <1>4, <1>6
  <2>2. p[b] - p[s] <= p[z] - p[s]
    BY <1>2, <1>3
  <2> QED BY <1>6, <2>1, <2>2 DEF CutTo
<1> QED BY <1>5, <1>6

(* A column in units, converted to bytes, is there too. *)
LEMMA UnitsCut ==
  ASSUME NEW t \in Seq(Chars), NEW p, NEW u, NEW m, Measured(t, p, u, m),
         NEW s \in 0 .. Len(t), NEW z \in s .. Len(t), NEW column \in Nat, NEW b,
         LastWithin(u, s, z, column, b), NEW grown, NEW e, GrownTo(p, u, s, z, column, grown, e)
  PROVE  CutTo(p, s, z, grown, b)
<1>1. /\ e \in s .. z /\ grown = (column + (p[e] - p[s])) - (u[e] - u[s])
      /\ e > s => u[e - 1] - u[s] < column
      /\ e < z => u[e] - u[s] >= column
  BY DEF GrownTo
<1>2. /\ Len(t) \in Nat /\ p[s] \in Nat /\ p[z] \in Nat /\ p[e] \in Nat /\ e \in 0 .. Len(t)
      /\ u[s] \in Nat /\ u[z] \in Nat /\ u[e] \in Nat /\ s <= e /\ e <= z /\ s \in Nat
      /\ z \in Nat /\ e \in Nat /\ z \in 0 .. Len(t)
  BY <1>1, MeasuredTypes
<1>3. /\ p[s] <= p[e] /\ p[e] <= p[z] /\ u[s] <= u[e] /\ u[e] <= u[z]
      /\ u[e] - u[s] <= p[e] - p[s]
  <2>1. p[s] + (e - s) <= p[e] /\ u[s] + (e - s) <= u[e] /\ u[e] - u[s] <= p[e] - p[s]
    BY <1>2, MeasuredAscends
  <2>2. p[e] + (z - e) <= p[z] /\ u[e] + (z - e) <= u[z]
    BY <1>2, MeasuredAscends
  <2> DEFINE c == e - s
             d == z - e
  <2>3. c \in Nat /\ d \in Nat
    BY <1>2
  <2> HIDE DEF c, d
  <2>4. p[s] <= p[e] /\ u[s] <= u[e]
    <3>1. p[s] + c <= p[e] /\ u[s] + c <= u[e]
      BY <2>1 DEF c
    <3> QED BY <1>2, <2>3, <3>1
  <2>5. p[e] <= p[z] /\ u[e] <= u[z]
    <3>1. p[e] + d <= p[z] /\ u[e] + d <= u[z]
      BY <2>2 DEF d
    <3> QED BY <1>2, <2>3, <3>1
  <2> QED BY <2>1, <2>4, <2>5
<1>4. ASSUME NEW k, LastWithin(u, s, z, column, k) PROVE b = k
  <2> DEFINE unit == "Utf16"
  <2>1. Counted(p, u, unit) = u
    BY DEF Counted
  <2> HIDE DEF unit
  <2>2. /\ LastWithin(Counted(p, u, unit), s, z, column, b)
        /\ LastWithin(Counted(p, u, unit), s, z, column, k)
    BY <1>4, <2>1
  <2> QED BY <2>2, OneLastWithin
<1>5. ASSUME NEW k \in 0 .. Len(t), k < z
      PROVE  /\ p[k + 1] \in Nat /\ p[k + 1] > p[k] /\ u[k + 1] \in Nat /\ u[k + 1] > u[k]
             /\ p[k] \in Nat /\ u[k] \in Nat
  <2> DEFINE h == k + 1
  <2>1. h \in 1 .. Len(t) /\ k = h - 1
    BY <1>2, <1>5
  <2> HIDE DEF h
  <2>2. /\ Bytes[t[h]] \in 1 .. 4 /\ Units[t[h]] \in 1 .. 2 /\ p[h - 1] \in Nat /\ u[h - 1] \in Nat
        /\ p[h] = p[h - 1] + Bytes[t[h]] /\ u[h] = u[h - 1] + Units[t[h]]
    BY <2>1, MeasuredStep
  <2>3. p[h] > p[h - 1] /\ u[h] > u[h - 1] /\ p[h] \in Nat /\ u[h] \in Nat
    <3> DEFINE bytes == Bytes[t[h]]
               units == Units[t[h]]
               ph == p[h - 1]
               uh == u[h - 1]
    <3>1. /\ bytes \in 1 .. 4 /\ units \in 1 .. 2 /\ ph \in Nat /\ uh \in Nat
          /\ p[h] = ph + bytes /\ u[h] = uh + units
      BY <2>2
    <3> HIDE DEF bytes, units, ph, uh
    <3>2. p[h] > ph /\ u[h] > uh /\ p[h] \in Nat /\ u[h] \in Nat
      BY <3>1
    <3> QED BY <3>2 DEF ph, uh
  <2> QED BY <2>1, <2>2, <2>3 DEF h
<1> DEFINE ps == p[s]
           us == u[s]
           pe == p[e]
           ue == u[e]
           pz == p[z]
<1>6. /\ ps \in Nat /\ us \in Nat /\ pe \in Nat /\ ue \in Nat /\ pz \in Nat
      /\ ps <= pe /\ pe <= pz /\ us <= ue /\ ue - us <= pe - ps
      /\ grown = (column + (pe - ps)) - (ue - us)
  BY <1>1, <1>2, <1>3
<1>7. CASE ue - us <= column
  <2>1. e < z => ue - us = column
    <3> HIDE DEF ps, pe, pz
    <3> SUFFICES ASSUME e < z PROVE ue - us = column
      OBVIOUS
    <3>1. ue - us >= column
      BY <1>1
    <3> HIDE DEF ue, us
    <3> QED BY <1>6, <1>7, <3>1
  <2>2. e < z => u[e + 1] - us > column
    <3> SUFFICES ASSUME e < z PROVE u[e + 1] - us > column
      OBVIOUS
    <3>1. u[e + 1] \in Nat /\ u[e + 1] > ue
      BY <1>2, <1>5
    <3> DEFINE un == u[e + 1]
    <3> HIDE DEF ue, us, un
    <3> QED BY <1>6, <2>1, <3>1 DEF un
  <2>3. b = e
    <3>1. LastWithin(u, s, z, column, e)
      BY <1>1, <1>7, <2>2 DEF LastWithin
    <3> QED BY <1>4, <3>1
  <2>4. CASE e < z
    <3>1. p[e + 1] \in Nat /\ p[e + 1] > pe
      BY <1>2, <1>5, <2>4
    <3> DEFINE pn == p[e + 1]
               cut == IF grown <= pz - ps THEN grown ELSE pz - ps
    <3>2. pn \in Nat /\ pn > pe
      BY <3>1
    <3> HIDE DEF ps, us, pe, ue, pz, pn
    <3>3. grown = pe - ps
      BY <1>6, <2>1, <2>4
    <3>4. grown \in Nat /\ cut = pe - ps /\ pe - ps < pn - ps
      BY <1>6, <3>2, <3>3
    <3>5. p[b] - p[s] = pe - ps /\ p[b + 1] - p[s] = pn - ps
      BY <2>3 DEF pe, ps, pn
    <3>6. pe - ps <= pe - ps
      BY <1>6
    <3>7. grown \in Nat /\ p[b] - p[s] <= cut /\ cut < p[b + 1] - p[s]
      BY <3>4, <3>5, <3>6
    <3> QED BY <3>7 DEF CutTo, pz, ps
  <2>5. CASE e = z
    <3> DEFINE cut == IF grown <= pz - ps THEN grown ELSE pz - ps
    <3>1. pe = pz /\ p[b] - p[s] = pz - ps
      BY <2>3, <2>5
    <3> HIDE DEF ps, us, pe, ue, pz
    <3>2. grown \in Nat /\ pz - ps <= grown
      BY <1>6, <1>7, <3>1
    <3>3. cut = pz - ps
      BY <1>6, <3>2
    <3>4. p[b] - p[s] <= cut /\ ~(b < z)
      <4>1. pz - ps <= pz - ps
        BY <1>6
      <4> QED BY <1>2, <2>3, <2>5, <3>1, <3>3, <4>1
    <3> QED BY <3>2, <3>4 DEF CutTo, pz, ps
  <2> QED BY <1>2, <2>4, <2>5
<1>8. CASE ue - us > column
  <2> DEFINE h == e - 1
             bytes == Bytes[t[e]]
             units == Units[t[e]]
             ph == p[h]
             uh == u[h]
  <2>1. e > s
    <3> SUFFICES ASSUME e = s PROVE FALSE
      BY <1>2
    <3>1. ue = us
      OBVIOUS
    <3> HIDE DEF ue, us
    <3> QED BY <1>6, <1>8, <3>1
  <2>2. e \in 1 .. Len(t) /\ h \in s .. z /\ h \in 0 .. Len(t) /\ h < z /\ h + 1 = e
    BY <1>2, <2>1
  <2>3. /\ bytes \in 1 .. 4 /\ units \in 1 .. 2 /\ units <= bytes /\ ph \in Nat /\ uh \in Nat
        /\ pe = ph + bytes /\ ue = uh + units
    BY <2>2, MeasuredStep
  <2>4. uh - us < column
    BY <1>1, <2>1
  <2>5. b = h
    <3>1. u[h] - u[s] <= column
      <4>1. uh - us <= column
        <5> HIDE DEF uh, us, ue, ps, pe, pz
        <5> QED BY <1>6, <2>3, <2>4
      <4> QED BY <4>1
    <3>2. u[h + 1] - u[s] > column
      BY <1>8, <2>2
    <3>3. LastWithin(u, s, z, column, h)
      BY <2>2, <3>1, <3>2 DEF LastWithin
    <3> QED BY <1>4, <3>3
  <2> DEFINE cut == IF grown <= pz - ps THEN grown ELSE pz - ps
  <2>6. p[b] - p[s] = ph - ps /\ p[b + 1] - p[s] = pe - ps
    BY <2>2, <2>5
  <2> HIDE DEF h, bytes, units, ph, uh, ps, us, pe, ue, pz
  <2>7. units = 2 /\ column = (uh - us) + 1
    BY <1>6, <1>8, <2>3, <2>4
  <2>8. grown = (ph - ps) + (bytes - 1) /\ ue - us = column + 1
    BY <1>6, <2>3, <2>7
  <2>9. grown \in Nat /\ cut = grown
    BY <1>6, <2>3, <2>7, <2>8
  <2>10. ph - ps <= grown /\ grown < pe - ps
    BY <1>6, <2>3, <2>8
  <2> QED BY <2>6, <2>9, <2>10 DEF CutTo, pz, ps
<1>9. ue - us \in Int
  <2> HIDE DEF ue, us, ps, pe, pz
  <2> QED BY <1>6
<1> QED BY <1>7, <1>8, <1>9

(* The offset of a position is the bytes before its boundary. *)
LEMMA OffsetIs ==
  ASSUME NEW t \in Seq(Chars), NEW p, NEW u, NEW m, Measured(t, p, u, m), NEW unit \in Encodings,
         NEW position, position.line \in Nat, position.character \in Nat,
         position.character + p[Len(t)] <= MaxU32
  PROVE  \/ /\ BoundaryOf(t, position, unit) = None
            /\ Offset(TableOf(t), position, unit) = None
         \/ /\ BoundaryOf(t, position, unit) \in 0 .. Len(t)
            /\ Offset(TableOf(t), position, unit) = p[BoundaryOf(t, position, unit)]
<1> DEFINE n == Len(t)
           table == TableOf(t)
           line == position.line
           c == position.character
           l == line + 1
<1>1. n \in Nat /\ n \in 0 .. n /\ m[n] \in Nat /\ MaxU32 \in Nat
  BY MeasuredTypes, CharAssumption
<1>2. TableHolds(t, p, u, m, n, table)
  BY <1>1, ScanHolds DEF TableOf
<1> HIDE DEF table
<1>3. /\ table \in Tables /\ Len(table.starts) = m[n] + 1 /\ table.starts \in Seq(Nat)
      /\ \A k \in 1 .. m[n] + 1 : LineHolds(t, p, u, m, n, k, table.starts[k], table.wide[k])
  BY <1>2, TableFields DEF TableHolds
<1>4. DOMAIN table.starts = 1 .. m[n] + 1
  BY <1>1, <1>3
<1>5. CASE l \notin 1 .. m[n] + 1
  <2>1. Offset(table, position, unit) = None
    BY <1>4, <1>5 DEF Offset
  <2>2. line > m[n]
    BY <1>1, <1>5
  <2>3. ASSUME NEW i \in 0 .. n PROVE m[i] # line
    <3>1. i <= n
      BY <1>1
    <3> HIDE DEF n
    <3>2. m[i] \in Nat /\ m[i] <= m[n]
      BY <1>1, <3>1, MeasuredAscends DEF n
    <3> HIDE DEF line
    <3> QED BY <1>1, <2>2, <3>2
  <2>4. BoundaryOf(t, position, unit) = None
    BY <2>3, BoundaryOfNoLine
  <2> QED BY <2>1, <2>4 DEF table
<1>6. CASE l \in 1 .. m[n] + 1
  <2>1. PICK s, z \in 0 .. n :
          /\ LineSpan(m, n, l, s, z) /\ table.starts[l] = p[s]
          /\ HasEntries(t, p, s, z, table.wide[l]) /\ Converts(p, u, s, z, table.wide[l])
    BY <1>3, <1>6 DEF LineHolds
  <2> DEFINE wide == table.wide[l]
             q == Counted(p, u, unit)
             b == BoundaryOf(t, position, unit)
             column == IF unit = "Utf8" THEN c ELSE ByteColumn(wide, c)
  <2>2. b \in 0 .. n /\ LastWithin(q, s, z, c, b)
    BY <2>1, BoundaryOfLine
  <2>3. z \in s .. n
    BY <2>1 DEF LineSpan
  <2>4. b \in s .. z
    BY <2>2 DEF LastWithin
  <2>5. /\ p[s] \in Nat /\ p[z] \in Nat /\ p[b] \in Nat /\ p[n] \in Nat
        /\ p[z] <= p[n] /\ p[s] <= p[z] /\ p[s] <= p[b]
    <3>1. /\ s \in 0 .. n /\ z \in 0 .. n /\ s <= z /\ z <= n /\ s <= b
          /\ n - z \in Nat /\ z - s \in Nat /\ b - s \in Nat
      BY <1>1, <2>1, <2>3, <2>4
    <3> HIDE DEF b
    <3>2. p[s] \in Nat /\ p[z] \in Nat /\ p[b] \in Nat /\ p[n] \in Nat
      BY <1>1, <2>2, <3>1, MeasuredTypes
    <3>3. p[z] + (n - z) <= p[n] /\ p[s] + (z - s) <= p[z] /\ p[s] + (b - s) <= p[b]
      BY <1>1, <2>2, <3>1, MeasuredAscends
    <3> DEFINE nz == n - z
               zs == z - s
               bs == b - s
    <3>4. nz \in Nat /\ zs \in Nat /\ bs \in Nat
      BY <3>1
    <3>5. p[z] + nz <= p[n] /\ p[s] + zs <= p[z] /\ p[s] + bs <= p[b]
      BY <3>3
    <3> HIDE DEF nz, zs, bs, n
    <3>6. p[z] <= p[n] /\ p[s] <= p[z] /\ p[s] <= p[b]
      BY <3>2, <3>4, <3>5, SumAtLeast
    <3> QED BY <3>2, <3>6
  <2>6. CutTo(p, s, z, column, b)
    <3>1. CASE unit = "Utf8"
      <4>1. LastWithin(p, s, z, c, b) /\ column = c
        BY <2>2, <3>1 DEF Counted
      <4> HIDE DEF b, column, c
      <4> QED BY <2>1, <2>3, <4>1, BytesCut DEF c
    <3>2. CASE unit # "Utf8"
      <4>1. LastWithin(u, s, z, c, b) /\ column = ByteColumn(wide, c)
        BY <2>2, <3>2 DEF Counted
      <4>2. c + (p[z] - p[s]) <= MaxU32
        <5>1. c \in Nat /\ c + p[n] <= MaxU32
          OBVIOUS
        <5> DEFINE pz == p[z]
                   ps == p[s]
                   pn == p[n]
        <5>2. pz \in Nat /\ ps \in Nat /\ pn \in Nat /\ pz <= pn /\ c + pn <= MaxU32
          BY <2>5, <5>1
        <5> HIDE DEF pz, ps, pn, c
        <5>3. c + (pz - ps) <= MaxU32
          BY <1>1, <5>1, <5>2
        <5> QED BY <5>3 DEF pz, ps
      <4> HIDE DEF b, column, c, wide
      <4>3. PICK e \in s .. z : GrownTo(p, u, s, z, c, ByteColumn(wide, c), e)
        BY <2>1, <4>2 DEF Converts, c, wide
      <4>4. CutTo(p, s, z, ByteColumn(wide, c), b)
        BY <2>1, <2>3, <4>1, <4>3, UnitsCut DEF c
      <4> QED BY <4>1, <4>4
    <3> QED BY <3>1, <3>2
  <2> HIDE DEF b, column
  <2> DEFINE cut == IF column <= p[z] - p[s] THEN column ELSE p[z] - p[s]
  <2>7. /\ column \in Nat
        /\ p[b] - p[s] <= cut
        /\ b < z => cut < p[b + 1] - p[s]
    BY <2>6 DEF CutTo
  <2>8. LineEnd(table, line) = p[z]
    <3>1. line <= m[n]
      BY <1>1, <1>6
    <3> QED BY <1>2, <2>1, <3>1, LineEndIs
  <2>9. Min({column, LineEnd(table, line) - table.starts[l]}) = cut /\ cut \in Nat
        /\ cut <= p[z] - p[s]
    <3> DEFINE len == p[z] - p[s]
    <3>1. len \in Nat
      BY <2>5
    <3>2. LineEnd(table, line) - table.starts[l] = len
      BY <2>1, <2>8
    <3> HIDE DEF len, line, l
    <3>3. Min({column, len}) = IF column <= len THEN column ELSE len
      BY <2>7, <3>1, SmallerOf
    <3>4. (IF column <= len THEN column ELSE len) \in Nat
          /\ (IF column <= len THEN column ELSE len) <= len
      BY <2>7, <3>1
    <3> QED BY <3>2, <3>3, <3>4 DEF len
  <2>10. Offset(table, position, unit) =
          table.starts[l] + Snapped(wide, Min({column, LineEnd(table, line) - table.starts[l]}))
    BY <1>4, <1>6 DEF Offset, column
  <2> HIDE DEF cut, wide
  <2>11. Snapped(wide, cut) = p[b] - p[s]
    BY <2>1, <2>3, <2>4, <2>7, <2>9, SnappedIs DEF wide
  <2>12. Offset(table, position, unit) = p[s] + (p[b] - p[s])
    BY <2>1, <2>9, <2>10, <2>11
  <2>13. p[s] + (p[b] - p[s]) = p[b]
    BY <2>5
  <2> QED BY <2>2, <2>12, <2>13 DEF b, table
<1> QED BY <1>5, <1>6

-----------------------------------------------------------------------------
(* Edits of the text. *)

LEMMA ReplacedIs ==
  ASSUME NEW t \in Seq(Chars), NEW p, NEW u, NEW m, Measured(t, p, u, m),
         NEW from \in 0 .. Len(t), NEW to \in 0 .. Len(t), NEW inserted
  PROVE  Replaced(t, p[from], p[to], inserted) = Spliced(t, from, to, inserted)
<1> DEFINE byte == [i \in 0 .. Len(t) |-> Scan(t)[i].len]
           Boundaries == {byte[i] : i \in 0 .. Len(t)}
           At(offset) == CHOOSE i \in 0 .. Len(t) : byte[i] = offset
           start == p[from]
           end == p[to]
<1>1. Replaced(t, start, end, inserted) =
        IF {start, end} \subseteq Boundaries
        THEN Spliced(t, At(start), At(end), inserted)
        ELSE t
  BY DEF Replaced
<1>2. \A i \in 0 .. Len(t) : byte[i] = p[i]
  BY ScanHolds DEF TableHolds
<1> HIDE DEF byte
<1>3. ASSUME NEW i \in 0 .. Len(t), NEW j \in 0 .. Len(t), p[i] = p[j] PROVE ~(i < j)
  <2> SUFFICES ASSUME i < j PROVE FALSE
    OBVIOUS
  <2> DEFINE d == j - i
  <2>1. d \in Nat /\ d > 0 /\ i <= j
    OBVIOUS
  <2>2. p[i] \in Nat /\ p[j] \in Nat /\ p[i] + d <= p[j]
    BY <2>1, MeasuredAscends
  <2> HIDE DEF d
  <2> QED BY <1>3, <2>1, <2>2
<1>4. ASSUME NEW i \in 0 .. Len(t) PROVE p[i] \in Boundaries /\ At(p[i]) = i
  <2>1. byte[i] = p[i]
    BY <1>2
  <2>2. At(p[i]) \in 0 .. Len(t) /\ byte[At(p[i])] = p[i]
    BY <2>1
  <2> DEFINE j == At(p[i])
  <2>3. j \in 0 .. Len(t) /\ p[j] = p[i]
    BY <1>2, <2>2
  <2> HIDE DEF j
  <2>4. ~(i < j) /\ ~(j < i)
    BY <1>3, <2>3
  <2>5. j = i
    BY <2>3, <2>4
  <2> QED BY <2>1, <2>5 DEF j
<1>5. At(start) = from /\ At(end) = to /\ {start, end} \subseteq Boundaries
  BY <1>4
<1> HIDE DEF At, Boundaries, start, end
<1>6. Replaced(t, start, end, inserted) = Spliced(t, from, to, inserted)
  BY <1>1, <1>5
<1> QED BY <1>6 DEF start, end

(* A position the text can be asked about without a column that wraps. *)
Near(p, n, position) ==
  /\ position.line \in Nat
  /\ position.character \in Nat
  /\ position.character + p[n] <= MaxU32

(* The server's edit of bytes is the client's of characters. *)
LEMMA ApplyChangeIs ==
  ASSUME encoding \in Encodings, NEW t \in Seq(Chars), NEW p, NEW u, NEW m, Measured(t, p, u, m),
         NEW change,
         change.range # None => /\ Near(p, Len(t), change.range.start)
                                /\ Near(p, Len(t), change.range.end)
  PROVE  ApplyChange(t, change) = Edited(t, change)
<1> DEFINE first == change.range.start
           last == change.range.end
           start == Offset(TableOf(t), first, encoding)
           end == Offset(TableOf(t), last, encoding)
           from == BoundaryOf(t, first, encoding)
           to == BoundaryOf(t, last, encoding)
<1>1. ApplyChange(t, change) =
        IF change.range = None THEN change.text
        ELSE IF start = None \/ end = None THEN t
        ELSE IF start > end THEN t
        ELSE Replaced(t, start, end, change.text)
  BY Zenon DEF ApplyChange
<1>2. Edited(t, change) =
        IF change.range = None THEN change.text
        ELSE IF from = None \/ to = None THEN t
        ELSE IF from > to THEN t
        ELSE Spliced(t, from, to, change.text)
  BY Zenon DEF Edited
<1>3. CASE change.range = None
  BY <1>1, <1>2, <1>3
<1>4. CASE change.range # None
  <2>1. /\ first.line \in Nat /\ first.character \in Nat /\ first.character + p[Len(t)] <= MaxU32
        /\ last.line \in Nat /\ last.character \in Nat /\ last.character + p[Len(t)] <= MaxU32
    BY <1>4 DEF Near
  <2> HIDE DEF first, last
  <2>2. (from = None /\ start = None) \/ (from \in 0 .. Len(t) /\ start = p[from])
    BY <2>1, OffsetIs
  <2>3. (to = None /\ end = None) \/ (to \in 0 .. Len(t) /\ end = p[to])
    BY <2>1, OffsetIs
  <2> HIDE DEF start, end, from, to
  <2>4. None \notin Nat
    BY CharAssumption
  <2>5. CASE from = None \/ to = None
    <3>1. \A i \in 0 .. Len(t) : i # None
      BY <2>4
    <3>2. (from = None => start = None) /\ (to = None => end = None)
      BY <2>2, <2>3, <3>1, Zenon
    <3>3. ApplyChange(t, change) = t
      BY <1>1, <1>4, <2>5, <3>2, Zenon
    <3>4. Edited(t, change) = t
      BY <1>2, <1>4, <2>5, Zenon
    <3> QED BY <3>3, <3>4
  <2>6. CASE from # None /\ to # None
    <3>1. /\ from \in 0 .. Len(t) /\ to \in 0 .. Len(t) /\ start = p[from] /\ end = p[to]
          /\ Len(t) \in Nat
      BY <2>2, <2>3, <2>6
    <3>2. start \in Nat /\ end \in Nat
      BY <3>1, MeasuredTypes
    <3>3. start # None /\ end # None
      BY <2>4, <3>2
    <3>4. start > end <=> from > to
      <4>1. CASE from <= to
        <5>1. p[from] \in Nat /\ p[to] \in Nat /\ p[from] + (to - from) <= p[to] /\ to - from \in Nat
          BY <3>1, <4>1, MeasuredAscends
        <5>2. p[from] <= p[to]
          BY <5>1, SumAtLeast
        <5> QED BY <3>1, <3>2, <4>1, <5>2
      <4>2. CASE to < from
        <5> DEFINE d == from - to
        <5>1. p[to] + d <= p[from]
          BY <3>1, <4>2, MeasuredAscends
        <5>2. d \in Nat /\ d > 0
          BY <3>1, <4>2
        <5> HIDE DEF d
        <5>3. end < start
          BY <3>1, <3>2, <5>1, <5>2
        <5> QED BY <3>1, <3>2, <4>2, <5>3
      <4> QED BY <3>1, <4>1, <4>2
    <3>5. Replaced(t, start, end, change.text) = Spliced(t, from, to, change.text)
      BY <3>1, ReplacedIs
    <3> QED BY <1>1, <1>2, <1>4, <2>6, <3>3, <3>4, <3>5
  <2> QED BY <2>5, <2>6
<1> QED BY <1>3, <1>4

LEMMA PositionOfBounds ==
  ASSUME NEW t \in Seq(Chars), NEW p, NEW u, NEW m, Measured(t, p, u, m), NEW unit,
         NEW i \in 0 .. Len(t)
  PROVE  /\ PositionOf(t, i, unit).line \in Nat
         /\ PositionOf(t, i, unit).character \in 0 .. p[Len(t)]
<1> DEFINE n == Len(t)
           q == Counted(p, u, unit)
           T == {0} \union Before(t, i)
           s == LineStart(t, i)
<1>1. n \in Nat /\ i \in Nat /\ n \in 0 .. n /\ 0 \in 0 .. n /\ i <= n /\ 0 <= n
  OBVIOUS
<1>2. /\ PositionOf(t, i, unit).line = Cardinality(Before(t, i))
      /\ PositionOf(t, i, unit).character = Width(t, s, i, unit)
  BY DEF PositionOf
<1>3. Cardinality(Before(t, i)) = m[i] /\ m[i] \in Nat
  BY LinesBefore, MeasuredTypes
<1>4. s \in 0 .. i
  <2>1. T \subseteq 0 .. i /\ T # {}
    BY <1>1 DEF Before
  <2>2. s = Max(T)
    BY DEF LineStart
  <2> HIDE DEF T, s
  <2>3. Max(T) \in T
    BY <1>1, <2>1, GreatestOf
  <2> QED BY <2>1, <2>2, <2>3
<1> HIDE DEF s
<1>5. s \in 0 .. Len(t) /\ i \in s .. Len(t)
  BY <1>1, <1>4
<1>6. Width(t, s, i, unit) = q[i] - q[s]
  BY <1>5, WidthIs
<1>7. q[i] \in Nat /\ q[s] \in Nat /\ q[s] <= q[i] /\ q[i] <= q[n] /\ q[n] \in Nat
  <2>1. s <= i
    BY <1>4
  <2>2. q[i] \in Nat /\ q[s] \in Nat /\ q[s] <= q[i]
    BY <1>5, <2>1, CountedAscends
  <2>3. q[n] \in Nat /\ q[i] <= q[n]
    BY <1>1, CountedAscends
  <2> QED BY <2>2, <2>3
<1>8. q[n] <= p[n] /\ p[n] \in Nat
  <2>1. u[n] - u[0] <= p[n] - p[0] /\ p[n] \in Nat /\ u[n] \in Nat
    BY <1>1, MeasuredAscends
  <2>2. u[0] = 0 /\ p[0] = 0
    BY MeasuredTypes
  <2>3. u[n] <= p[n] /\ p[n] <= p[n]
    BY <2>1, <2>2
  <2> QED BY <2>1, <2>3 DEF Counted
<1> DEFINE a == q[i]
           b == q[s]
           c == q[n]
           d == p[n]
<1>9. /\ a \in Nat /\ b \in Nat /\ c \in Nat /\ d \in Nat /\ b <= a /\ a <= c /\ c <= d
      /\ PositionOf(t, i, unit).character = a - b
  BY <1>2, <1>6, <1>7, <1>8
<1> HIDE DEF a, b, c, d
<1>10. PositionOf(t, i, unit).character \in 0 .. d
  BY <1>9
<1> QED BY <1>2, <1>3, <1>10 DEF d

(* The positions a client may ask about are near. *)
LEMMA PositionsNear ==
  ASSUME encoding \in Encodings, NEW t \in Seq(Chars), Len(t) <= 2 * MaxText,
         NEW p, NEW u, NEW m, Measured(t, p, u, m), NEW position \in Positions(t)
  PROVE  Near(p, Len(t), position)
<1> DEFINE n == Len(t)
           ends == {PositionOf(t, i, encoding) : i \in 0 .. n}
           C == {e.character : e \in ends}
           widest == CHOOSE c \in C : \A e \in ends : e.character <= c
           size == p[n]
<1>1. n \in Nat /\ n \in 0 .. n /\ 0 \in 0 .. n /\ size \in Nat /\ MaxU32 \in Nat /\ MaxText \in Nat
      /\ n <= 2 * MaxText /\ 16 * MaxText < MaxU32
  BY MeasuredTypes, CharAssumption, ColumnAssumption
<1>2. Positions(t) =
        [line : {e.line : e \in ends} \union {1 + Cardinality(Before(t, n))},
         character : 0 .. widest + 1]
  BY DEF Positions
<1>3. ASSUME NEW e \in ends PROVE e.line \in Nat /\ e.character \in 0 .. size
  BY PositionOfBounds
<1>4. Cardinality(Before(t, n)) \in Nat
  BY <1>1, LinesBefore, MeasuredTypes
<1>5. C \subseteq 0 .. size /\ C # {}
  <2>1. PositionOf(t, 0, encoding) \in ends
    BY <1>1
  <2> HIDE DEF ends
  <2> QED BY <1>3, <2>1
<1>6. \E c \in C : \A e \in ends : e.character <= c
  <2> HIDE DEF ends
  <2>1. \A e \in ends : e.character \in C
    OBVIOUS
  <2> HIDE DEF C, size
  <2>2. Max(C) \in C /\ \A c \in C : c <= Max(C)
    BY <1>1, <1>5, GreatestOf
  <2> QED BY <2>1, <2>2
<1>7. widest \in C
  <2> HIDE DEF C, ends
  <2> QED BY <1>6
<1>8. position.line \in Nat /\ position.character \in 0 .. widest + 1
  <2> HIDE DEF ends, widest
  <2>1. /\ position.line \in {e.line : e \in ends} \union {1 + Cardinality(Before(t, n))}
        /\ position.character \in 0 .. widest + 1
    BY <1>2
  <2>2. 1 + Cardinality(Before(t, n)) \in Nat
    BY <1>4
  <2> QED BY <1>3, <2>1, <2>2
<1>9. size <= 4 * n
  <2>1. p[n] <= p[0] + 4 * (n - 0)
    BY <1>1, MeasuredAscends
  <2>2. p[0] = 0
    BY MeasuredTypes
  <2> QED BY <1>1, <2>1, <2>2
<1> HIDE DEF n, ends, C, widest, size
<1>10. widest \in 0 .. size
  BY <1>5, <1>7
<1>11. position.character \in Nat /\ position.character <= size + 1
  BY <1>1, <1>8, <1>10
<1>12. (size + 1) + size <= MaxU32
  BY <1>1, <1>9
<1>13. position.character + size <= MaxU32
  BY <1>1, <1>11, <1>12
<1> QED BY <1>8, <1>11, <1>13 DEF Near, size, n

LEMMA EditedLength ==
  ASSUME NEW t \in Seq(Chars), NEW change, change.text \in Seq(Chars)
  PROVE  Len(Edited(t, change)) <= Len(t) + Len(change.text)
<1> DEFINE from == BoundaryOf(t, change.range.start, encoding)
           to == BoundaryOf(t, change.range.end, encoding)
           inserted == change.text
<1>1. Edited(t, change) =
        IF change.range = None THEN inserted
        ELSE IF from = None \/ to = None THEN t
        ELSE IF from > to THEN t
        ELSE Spliced(t, from, to, inserted)
  BY Zenon DEF Edited
<1>2. (from # None => from \in 0 .. Len(t)) /\ (to # None => to \in 0 .. Len(t))
  BY BoundaryOfType, Zenon
<1>3. Len(t) \in Nat /\ Len(inserted) \in Nat
  OBVIOUS
<1> HIDE DEF from, to, inserted
<1>4. ASSUME from \in 0 .. Len(t), to \in 0 .. Len(t), ~(from > to)
      PROVE  Len(Spliced(t, from, to, inserted)) <= Len(t) + Len(inserted)
  <2>1. SubSeq(t, 1, from) \in Seq(Chars) /\ Len(SubSeq(t, 1, from)) = from
    BY <1>3, <1>4, SubSeqProperties
  <2>2. /\ SubSeq(t, to + 1, Len(t)) \in Seq(Chars)
        /\ Len(SubSeq(t, to + 1, Len(t))) = Len(t) - to
    BY <1>3, <1>4, SubSeqProperties
  <2>3. inserted \in Seq(Chars)
    BY DEF inserted
  <2>4. Len(Spliced(t, from, to, inserted)) = from + Len(inserted) + (Len(t) - to)
    BY <2>1, <2>2, <2>3 DEF Spliced
  <2> QED BY <1>3, <1>4, <2>4
<1>5. Edited(t, change) \in {inserted, t}
        \/ (/\ from \in 0 .. Len(t) /\ to \in 0 .. Len(t) /\ ~(from > to)
            /\ Edited(t, change) = Spliced(t, from, to, inserted))
  BY <1>1, <1>2, Zenon
<1>6. CASE Edited(t, change) \in {inserted, t}
  BY <1>3, <1>6 DEF inserted
<1> QED BY <1>4, <1>5, <1>6 DEF inserted

-----------------------------------------------------------------------------
(* Both sides of the connection. *)

LEMMA EditsAgree ==
  ASSUME encoding \in Encodings, NEW t \in Seq(Chars), Len(t) <= 2 * MaxText, NEW inserts,
         NEW change \in Changes(t, inserts)
  PROVE  ApplyChange(t, change) = Edited(t, change)
<1>1. PICK p, u, m : Measured(t, p, u, m)
  BY MeasuredExists
<1>2. change.range = None \/ (change.range.start \in Positions(t) /\ change.range.end \in Positions(t))
  BY DEF Changes
<1>3. change.range # None => /\ Near(p, Len(t), change.range.start)
                             /\ Near(p, Len(t), change.range.end)
  BY <1>1, <1>2, PositionsNear
<1> QED BY <1>1, <1>3, ApplyChangeIs

LEMMA OneChange ==
  ASSUME NEW t \in Seq(Chars), NEW change, change.text \in Seq(Chars)
  PROVE  ApplyChanges(t, <<change>>) = ApplyChange(t, change)
<1> DEFINE changes == <<change>>
<1>1. Len(changes) = 1 /\ changes[1] = change
  OBVIOUS
<1> HIDE DEF changes
<1>2. PICK after : /\ after = [k \in 0 .. Len(changes) |-> ChangeStep(t, changes, after, k)]
                   /\ ApplyChanges(t, changes) = after[Len(changes)]
  <2>1. Len(changes) \in Nat /\ \A k \in 1 .. Len(changes) : changes[k].text \in Seq(Chars)
    BY <1>1
  <2> QED BY <2>1, ApplyChangesDef
<1>3. after[0] = t /\ after[1] = ApplyChange(after[0], change)
  BY <1>1, <1>2 DEF ChangeStep
<1> QED BY <1>1, <1>2, <1>3 DEF changes

LEMMA TwoChanges ==
  ASSUME NEW t \in Seq(Chars), NEW first, first.text \in Seq(Chars),
         NEW second, second.text \in Seq(Chars)
  PROVE  ApplyChanges(t, <<first, second>>) = ApplyChange(ApplyChange(t, first), second)
<1> DEFINE changes == <<first, second>>
<1>1. Len(changes) = 2 /\ changes[1] = first /\ changes[2] = second
  OBVIOUS
<1> HIDE DEF changes
<1>2. PICK after : /\ after = [k \in 0 .. Len(changes) |-> ChangeStep(t, changes, after, k)]
                   /\ ApplyChanges(t, changes) = after[Len(changes)]
  <2>1. Len(changes) \in Nat /\ \A k \in 1 .. Len(changes) : changes[k].text \in Seq(Chars)
    BY <1>1
  <2> QED BY <2>1, ApplyChangesDef
<1>3. after[0] = t /\ after[1] = ApplyChange(after[0], first)
      /\ after[2] = ApplyChange(after[1], second)
  BY <1>1, <1>2 DEF ChangeStep
<1> QED BY <1>1, <1>2, <1>3 DEF changes

TextInv == text = intended /\ Len(intended) <= MaxText

LEMMA InitTextInv == Init => TextInv
<1>1. MaxText \in Nat
  BY ColumnAssumption
<1>2. Len(<<>>) = 0
  OBVIOUS
<1> QED BY <1>1, <1>2 DEF Init, TextInv

LEMMA StepTextInv == NavInv /\ TextInv /\ [Next]_vars => TextInv'
<1> SUFFICES ASSUME NavInv, TextInv, [Next]_vars PROVE TextInv'
  OBVIOUS
<1>1. /\ encoding \in Encodings /\ text \in Seq(Chars) /\ text = intended
      /\ Len(intended) <= MaxText /\ Len(intended) \in Nat
  BY DEF NavInv, TextInv
<1>2. /\ MaxText \in Nat /\ MaxBatched \in Nat /\ MaxBatched <= MaxText
      /\ \A inserted \in Inserts \union Batched : inserted \in Seq(Chars) /\ Len(inserted) <= MaxText
  BY ColumnAssumption, InputAssumption
<1>3. ASSUME NEW t, NEW inserts, NEW change \in Changes(t, inserts), inserts \subseteq Inserts \union Batched
      PROVE  change.text \in Seq(Chars) /\ Len(change.text) <= MaxText
  <2>1. change.text \in inserts
    BY DEF Changes
  <2> QED BY <1>2, <1>3, <2>1
<1>4. ASSUME NEW change \in Changes(intended, Inserts), DidChange(<<change>>), Len(intended') <= MaxText
      PROVE  TextInv'
  <2>1. change.text \in Seq(Chars)
    <3>1. Inserts \subseteq Inserts \union Batched
      OBVIOUS
    <3> QED BY <1>3, <3>1
  <2>2. text' = ApplyChanges(text, <<change>>) /\ intended' = Edited(intended, change)
    BY <1>4 DEF DidChange
  <2>3. ApplyChanges(text, <<change>>) = ApplyChange(text, change)
    BY <1>1, <2>1, OneChange
  <2>4. Len(intended) <= 2 * MaxText
    BY <1>1, <1>2
  <2>5. ApplyChange(text, change) = Edited(intended, change)
    BY <1>1, <2>4, EditsAgree
  <2> QED BY <1>4, <2>2, <2>3, <2>5 DEF TextInv
<1>5. ASSUME Len(intended) <= MaxBatched,
             NEW first \in Changes(intended, Batched),
             NEW second \in Changes(Edited(intended, first), Batched),
             DidChangeTwice(<<first, second>>), Len(intended') <= MaxText
      PROVE  TextInv'
  <2> DEFINE between == Edited(intended, first)
  <2>1. /\ first.text \in Seq(Chars) /\ Len(first.text) <= MaxText
        /\ second.text \in Seq(Chars)
    <3>1. Batched \subseteq Inserts \union Batched
      OBVIOUS
    <3> QED BY <1>3, <3>1
  <2>2. text' = ApplyChanges(text, <<first, second>>) /\ intended' = Edited(between, second)
    BY <1>5 DEF DidChangeTwice
  <2>3. ApplyChanges(text, <<first, second>>) = ApplyChange(ApplyChange(text, first), second)
    BY <1>1, <2>1, TwoChanges
  <2>4. Len(intended) <= 2 * MaxText
    BY <1>1, <1>2
  <2>5. ApplyChange(text, first) = between
    BY <1>1, <2>4, EditsAgree
  <2>6. between \in Seq(Chars) /\ Len(between) <= Len(intended) + Len(first.text)
    BY <1>1, <2>1, EditedType, EditedLength
  <2>7. Len(between) <= 2 * MaxText
    <3>1. Len(first.text) \in Nat /\ Len(between) \in Nat
      BY <2>1, <2>6
    <3> HIDE DEF between
    <3> QED BY <1>1, <1>2, <2>1, <2>6, <3>1
  <2>8. second \in Changes(between, Batched)
    BY <1>5
  <2> HIDE DEF between
  <2>9. ApplyChange(between, second) = Edited(between, second)
    BY <1>1, <2>6, <2>7, <2>8, EditsAgree
  <2> QED BY <1>5, <2>2, <2>3, <2>5, <2>9 DEF TextInv
<1>6. ASSUME UNCHANGED <<text, intended>> PROVE TextInv'
  BY <1>6 DEF TextInv
<1>7. CASE UNCHANGED vars
  BY <1>6, <1>7 DEF vars
<1>8. ASSUME NEW shard \in Shards, LoadShard(shard) \/ AppendShard(shard) PROVE TextInv'
  BY <1>6, <1>8 DEF LoadShard, AppendShard
<1>9. CASE FinishLoad
  BY <1>6, <1>9 DEF FinishLoad
<1>10. CASE ReadSnapshot
  BY <1>6, <1>10 DEF ReadSnapshot
<1> QED BY <1>4, <1>5, <1>7, <1>8, <1>9, <1>10 DEF Next

(* The server and the client have one text.  The edits reach the server as lines *)
(* and columns in the encoding the client negotiated, and the server makes byte  *)
(* offsets of them with its table: `apply_changes` and `LineIndex`.              *)
THEOREM TextIsIntended == Spec => []ServerHasIntendedText
<1>1. Spec => []NavInv
  BY InitNavInv, StepNavInv, PTL DEF Spec
<1>2. TextInv => ServerHasIntendedText
  BY DEF TextInv, ServerHasIntendedText
<1> QED BY <1>1, <1>2, InitTextInv, StepTextInv, PTL DEF Spec

-----------------------------------------------------------------------------
(* The order of search results. *)

(* What ranks a declaration says in its second number how long it is. *)
Ranks == {t \in Seq(Int) : Len(t) \in Nat /\ 2 <= Len(t) /\ Len(t) = t[2] + 4}

LEMMA LessAgain ==
  ASSUME NEW a \in Seq(Int), NEW b \in Seq(Int), NEW c \in Seq(Int),
         Less(a, b), Less(b, c)
  PROVE  Less(a, c)
<1>1. DOMAIN a = 1 .. Len(a) /\ DOMAIN b = 1 .. Len(b) /\ DOMAIN c = 1 .. Len(c)
      /\ Len(a) \in Nat /\ Len(b) \in Nat /\ Len(c) \in Nat
      /\ (\A k \in DOMAIN a : a[k] \in Int)
      /\ (\A k \in DOMAIN b : b[k] \in Int)
      /\ (\A k \in DOMAIN c : c[k] \in Int)
  OBVIOUS
<1>2. PICK k \in DOMAIN a \cap DOMAIN b : a[k] < b[k] /\ \A j \in 1 .. k - 1 : a[j] = b[j]
  BY DEF Less
<1>3. PICK m \in DOMAIN b \cap DOMAIN c : b[m] < c[m] /\ \A j \in 1 .. m - 1 : b[j] = c[j]
  BY DEF Less
<1>4. CASE k < m
  <2>1. k \in 1 .. m - 1 /\ k \in DOMAIN a \cap DOMAIN c
    BY <1>1, <1>2, <1>3, <1>4
  <2>2. a[k] < c[k]
    BY <1>2, <1>3, <2>1
  <2>3. \A j \in 1 .. k - 1 : j \in 1 .. m - 1
    BY <1>1, <1>4
  <2>4. \A j \in 1 .. k - 1 : a[j] = c[j]
    BY <1>2, <1>3, <2>3
  <2> QED BY <2>1, <2>2, <2>4 DEF Less
<1>5. CASE k = m
  <2>1. k \in DOMAIN a \cap DOMAIN c /\ a[k] < c[k]
    BY <1>1, <1>2, <1>3, <1>5
  <2>2. \A j \in 1 .. k - 1 : a[j] = c[j]
    BY <1>2, <1>3, <1>5
  <2> QED BY <2>1, <2>2 DEF Less
<1>6. CASE m < k
  <2>1. m \in 1 .. k - 1 /\ m \in DOMAIN a \cap DOMAIN c
    BY <1>1, <1>2, <1>3, <1>6
  <2>2. a[m] < c[m]
    BY <1>2, <1>3, <2>1
  <2>3. \A j \in 1 .. m - 1 : j \in 1 .. k - 1
    BY <1>1, <1>6
  <2>4. \A j \in 1 .. m - 1 : a[j] = c[j]
    BY <1>2, <1>3, <2>3
  <2> QED BY <2>1, <2>2, <2>4 DEF Less
<1> QED BY <1>1, <1>2, <1>3, <1>4, <1>5, <1>6

LEMMA RanksAreLinear ==
  ASSUME NEW S, NEW key, \A x \in S : key[x] \in Ranks
  PROVE  Linear(key, S)
<1>1. ASSUME NEW a \in Ranks, NEW b \in Ranks, a # b PROVE Less(a, b) \/ Less(b, a)
  <2>1. /\ a \in Seq(Int) /\ b \in Seq(Int) /\ Len(a) \in Nat /\ Len(b) \in Nat
        /\ 2 <= Len(a) /\ 2 <= Len(b) /\ Len(a) = a[2] + 4 /\ Len(b) = b[2] + 4
    BY DEF Ranks
  <2>2. /\ 1 \in DOMAIN a \cap DOMAIN b /\ 2 \in DOMAIN a \cap DOMAIN b
        /\ a[1] \in Int /\ b[1] \in Int /\ a[2] \in Int /\ b[2] \in Int
    BY <2>1
  <2>3. CASE a[1] # b[1]
    <3>1. \A j \in 1 .. 1 - 1 : a[j] = b[j] /\ b[j] = a[j]
      OBVIOUS
    <3>2. a[1] < b[1] \/ b[1] < a[1]
      BY <2>2, <2>3
    <3> QED BY <2>2, <3>1, <3>2 DEF Less
  <2>4. CASE a[1] = b[1] /\ a[2] # b[2]
    <3>1. \A j \in 1 .. 2 - 1 : a[j] = b[j] /\ b[j] = a[j]
      BY <2>4
    <3>2. a[2] < b[2] \/ b[2] < a[2]
      BY <2>2, <2>4
    <3> QED BY <2>2, <3>1, <3>2 DEF Less
  <2>5. CASE a[2] = b[2]
    <3>1. Len(a) = Len(b)
      BY <2>1, <2>5
    <3>2. a \in [1 .. Len(a) -> Int] /\ b \in [1 .. Len(a) -> Int]
      BY <2>1, <3>1
    <3> QED BY <1>1, <2>1, <3>2, LessIsOrder
  <2> QED BY <2>3, <2>4, <2>5
<1>2. \A a \in Ranks : a \in Seq(Int)
  BY DEF Ranks
<1>3. \A a \in Ranks : ~Less(a, a)
  <2> SUFFICES ASSUME NEW a \in Ranks PROVE ~Less(a, a)
    OBVIOUS
  <2>1. \A k \in DOMAIN a : a[k] \in Int
    BY <1>2
  <2>2. \A k \in DOMAIN a : ~(a[k] < a[k])
    BY <2>1
  <2> QED BY <2>2 DEF Less
<1>4. ASSUME NEW x \in S, NEW y \in S, NEW z \in S
      PROVE  /\ ~Less(key[x], key[x])
             /\ Less(key[x], key[y]) /\ Less(key[y], key[z]) => Less(key[x], key[z])
             /\ key[x] # key[y] => Less(key[x], key[y]) \/ Less(key[y], key[x])
  <2>1. key[x] \in Ranks /\ key[y] \in Ranks /\ key[z] \in Ranks
    OBVIOUS
  <2>2. Less(key[x], key[y]) /\ Less(key[y], key[z]) => Less(key[x], key[z])
    BY <1>2, <2>1, LessAgain
  <2> QED BY <1>1, <1>3, <2>1, <2>2
<1> QED BY <1>4, Zenon DEF Linear

LEMMA RankedType ==
  ASSUME NEW def \in Declarations, NEW needle
  PROVE  RankedDefinition(def, needle) \in Ranks
<1> DEFINE name == ShortName[def.symbol]
           first == <<Rank(name, needle), Len(name)>>
           last == <<Order[def.path], Order[def.symbol]>>
<1>1. def.symbol \in Symbols /\ def.path \in Paths
  BY DEF Declarations
<1>2. name \in Seq(Nat) /\ Order[def.path] \in Nat /\ Order[def.symbol] \in Nat
  BY <1>1, SearchAssumption
<1>3. Rank(name, needle) \in Nat
  BY DEF Rank
<1>4. RankedDefinition(def, needle) = first \o name \o last
  BY DEF RankedDefinition
<1> HIDE DEF name
<1>5. Len(name) \in Nat
  BY <1>2
<1>6. first \in Seq(Int) /\ Len(first) = 2 /\ first[2] = Len(name)
  BY <1>3, <1>5
<1>7. last \in Seq(Int) /\ Len(last) = 2
  BY <1>2
<1> HIDE DEF first, last
<1>8. name \in Seq(Int)
  BY <1>2
<1> DEFINE front == first \o name
<1>9. front \in Seq(Int) /\ Len(front) = Len(name) + 2
  <2>1. first \o name \in Seq(Int) /\ Len(first \o name) = Len(first) + Len(name)
    BY <1>6, <1>8, ConcatProperties, Zenon
  <2> HIDE DEF front
  <2>2. Len(first) + Len(name) = Len(name) + 2
    BY <1>5, <1>6
  <2> QED BY <2>1, <2>2 DEF front
<1>10. front[2] = Len(name)
  BY <1>5, <1>6, <1>8, ConcatProperties
<1> HIDE DEF front
<1> DEFINE all == front \o last
<1>11. all \in Seq(Int) /\ Len(all) = Len(name) + 4
  <2>1. front \o last \in Seq(Int) /\ Len(front \o last) = Len(front) + Len(last)
    BY <1>7, <1>9, ConcatProperties, Zenon
  <2> HIDE DEF all
  <2>2. Len(front) + Len(last) = Len(name) + 4
    BY <1>5, <1>7, <1>9
  <2> QED BY <2>1, <2>2 DEF all
<1>12. all[2] = Len(name)
  BY <1>5, <1>7, <1>9, <1>10, ConcatProperties
<1>13. RankedDefinition(def, needle) = all
  BY <1>4 DEF front
<1> HIDE DEF all
<1>14. all \in Ranks
  BY <1>5, <1>11, <1>12 DEF Ranks
<1> QED BY <1>14, <1>13

(* A finite set can be put in order. *)
LEMMA SortedSet ==
  ASSUME NEW S, IsFiniteSet(S), NEW key, Linear(key, S)
  PROVE  /\ Cardinality(S) \in Nat
         /\ \E order \in [1 .. Cardinality(S) -> S] : RangeOf(order) = S /\ Ordered(order, key)
<1>1. PICK s \in Seq(S) : \A x \in S : \E i \in 1 .. Len(s) : s[i] = x
  BY DEF IsFiniteSet
<1> DEFINE f == Deduplicated(s)
           n == Len(f)
<1>2. RangeOf(s) = S
  BY <1>1 DEF RangeOf
<1>3. f \in Seq(S) /\ RangeOf(f) = S /\ Distinct(f)
  BY <1>2, DeduplicatedFacts
<1> HIDE DEF f
<1>4. n \in Nat /\ Cardinality(S) = n
  BY <1>3, DistinctOnce DEF Once
<1> HIDE DEF n
<1>5. /\ SortedBy(f, key) \in Seq(S) /\ Len(SortedBy(f, key)) = n
      /\ RangeOf(SortedBy(f, key)) = S /\ Ordered(SortedBy(f, key), key)
  BY <1>3, SortedByFacts DEF n
<1> DEFINE order == SortedBy(f, key)
<1> HIDE DEF order
<1>6. order \in Seq(S) /\ Len(order) = n /\ RangeOf(order) = S /\ Ordered(order, key)
  BY <1>5 DEF order
<1>7. order \in [1 .. n -> S]
  BY <1>6
<1> QED BY <1>4, <1>6, <1>7

(* Among the best so far there is one that none is behind. *)
LEMMA WorstExists ==
  ASSUME NEW S, IsFiniteSet(S), S # {}, NEW key, Linear(key, S)
  PROVE  \E w \in S : \A other \in S : ~Less(key[w], key[other])
<1> DEFINE n == Cardinality(S)
<1>1. n \in Nat
  BY SortedSet
<1>2. PICK order \in [1 .. n -> S] : RangeOf(order) = S /\ Ordered(order, key)
  BY SortedSet
<1> HIDE DEF n
<1>3. DOMAIN order = 1 .. n
  BY <1>2
<1>4. \A x \in S : \E i \in 1 .. n : order[i] = x
  BY <1>2, <1>3 DEF RangeOf
<1>5. n \in 1 .. n
  BY <1>1, <1>4
<1>6. order[n] \in S
  BY <1>2, <1>5
<1>7. ASSUME NEW other \in S PROVE ~Less(key[order[n]], key[other])
  <2>1. PICK i \in 1 .. n : order[i] = other
    BY <1>4
  <2>2. CASE i = n
    BY <1>6, <2>1, <2>2 DEF Linear
  <2>3. CASE i # n
    <3>1. i < n
      BY <1>1, <2>3
    <3> QED BY <1>2, <1>3, <1>5, <2>1, <3>1 DEF Ordered
  <2> QED BY <2>2, <2>3
<1> QED BY <1>6, <1>7

-----------------------------------------------------------------------------
(* The best of the candidates so far. *)

Candidates == [at : Nat, ranked : Ranks]

(* The number that is kept of k candidates. *)
Fewer(k, limit) == IF k <= limit THEN k ELSE limit

(* Nothing that was seen and is not kept is before anything that is kept. *)
BestHolds(best, seen, limit, k) ==
  /\ best \subseteq seen /\ IsFiniteSet(best) /\ Cardinality(best) = Fewer(k, limit)
  /\ k <= limit => best = seen
  /\ \A kept \in best : \A other \in seen \ best : ~Less(other.ranked, kept.ranked)

LEMMA CandidatesLinear ==
  ASSUME NEW S, S \subseteq Candidates
  PROVE  LET key == [c \in S |-> c.ranked]
         IN  Linear(key, S) /\ \A c \in S : key[c] = c.ranked
<1> DEFINE key == [c \in S |-> c.ranked]
<1>1. \A c \in S : key[c] = c.ranked /\ c.ranked \in Ranks
  BY DEF Candidates
<1> HIDE DEF key
<1>2. \A c \in S : key[c] \in Ranks
  BY <1>1
<1>3. Linear(key, S)
  BY <1>2, RanksAreLinear
<1> QED BY <1>1, <1>3 DEF key

LEMMA KeepHolds ==
  ASSUME NEW seen, seen \subseteq Candidates, NEW candidate \in Candidates, candidate \notin seen,
         NEW limit \in Nat, limit # 0, NEW k \in Nat, NEW best, BestHolds(best, seen, limit, k)
  PROVE  BestHolds(Keep(best, candidate, limit), seen \union {candidate}, limit, k + 1)
<1> DEFINE all == seen \union {candidate}
           key == [c \in all |-> c.ranked]
           worst == CHOOSE w \in best : \A other \in best : ~Less(w.ranked, other.ranked)
<1>1. /\ best \subseteq seen /\ IsFiniteSet(best) /\ Cardinality(best) = Fewer(k, limit)
      /\ k <= limit => best = seen
      /\ \A kept \in best : \A other \in seen \ best : ~Less(other.ranked, kept.ranked)
  BY DEF BestHolds
<1>2. Linear(key, all) /\ \A c \in all : key[c] = c.ranked
  BY CandidatesLinear
<1> HIDE DEF key
<1>3. \A x, y, z \in all :
        /\ ~Less(x.ranked, x.ranked)
        /\ Less(x.ranked, y.ranked) /\ Less(y.ranked, z.ranked) => Less(x.ranked, z.ranked)
        /\ x.ranked # y.ranked => Less(x.ranked, y.ranked) \/ Less(y.ranked, x.ranked)
  BY <1>2 DEF Linear
<1>4. candidate \notin best
  BY <1>1
<1>5. CASE Cardinality(best) < limit
  <2> DEFINE new == best \union {candidate}
  <2>1. Keep(best, candidate, limit) = new
    BY <1>5, Zenon DEF Keep
  <2>2. k <= limit /\ k < limit /\ Cardinality(best) = k
    BY <1>1, <1>5 DEF Fewer
  <2>3. IsFiniteSet(new) /\ Cardinality(new) = Cardinality(best) + 1
    BY <1>1, <1>4, FS_AddElement
  <2>4. Cardinality(new) = Fewer(k + 1, limit)
    BY <2>2, <2>3 DEF Fewer
  <2>5. new = all
    BY <1>1, <2>2
  <2> QED BY <2>1, <2>3, <2>4, <2>5 DEF BestHolds
<1>6. CASE ~(Cardinality(best) < limit)
  <2>1. Cardinality(best) = limit /\ limit <= k
    BY <1>1, <1>6 DEF Fewer
  <2>2. best # {}
    BY <2>1, FS_EmptySet
  <2>3. worst \in best /\ \A other \in best : ~Less(worst.ranked, other.ranked)
    <3>1. Linear(key, best)
      BY <1>1, <1>2 DEF Linear
    <3>2. \E w \in best : \A other \in best : ~Less(key[w], key[other])
      BY <1>1, <2>2, <3>1, WorstExists
    <3>3. \A c \in best : key[c] = c.ranked
      BY <1>1, <1>2
    <3>4. \E w \in best : \A other \in best : ~Less(w.ranked, other.ranked)
      BY <3>2, <3>3
    <3> QED BY <3>4, Zenon
  <2>4. Keep(best, candidate, limit) = IF Less(candidate.ranked, worst.ranked)
                                       THEN (best \ {worst}) \union {candidate} ELSE best
    BY <1>6, Zenon DEF Keep
  <2> HIDE DEF worst
  <2>5. Fewer(k + 1, limit) = limit /\ ~(k + 1 <= limit)
    BY <2>1 DEF Fewer
  <2>6. CASE Less(candidate.ranked, worst.ranked)
    <3> DEFINE rest == best \ {worst}
               new == rest \union {candidate}
    <3>1. IsFiniteSet(rest) /\ Cardinality(rest) = limit - 1
      BY <1>1, <2>1, <2>3, FS_RemoveElement
    <3>2. candidate \notin rest
      BY <1>4
    <3>3. IsFiniteSet(new) /\ Cardinality(new) = Cardinality(rest) + 1
      BY <3>1, <3>2, FS_AddElement
    <3>4. Cardinality(new) = limit
      BY <3>1, <3>3
    <3>5. ASSUME NEW kept \in new, NEW other \in all \ new PROVE ~Less(other.ranked, kept.ranked)
      <4>1. kept \in all /\ other \in all /\ worst \in all /\ candidate \in all
        BY <1>1, <2>3
      <4>2. CASE other = worst
        <5>1. kept \in best => ~Less(other.ranked, kept.ranked)
          BY <2>3, <4>2
        <5>2. kept = candidate => ~Less(other.ranked, kept.ranked)
          BY <1>3, <2>6, <4>1, <4>2
        <5> QED BY <5>1, <5>2
      <4>3. CASE other # worst
        <5>1. other \in seen \ best
          BY <4>3
        <5>2. kept \in best => ~Less(other.ranked, kept.ranked)
          BY <1>1, <5>1
        <5>3. kept = candidate => ~Less(other.ranked, kept.ranked)
          BY <1>1, <1>3, <2>3, <2>6, <4>1, <5>1
        <5> QED BY <5>2, <5>3
      <4> QED BY <4>2, <4>3
    <3>6. Keep(best, candidate, limit) = new /\ new \subseteq all
      BY <1>1, <2>4, <2>6
    <3> QED BY <2>5, <3>3, <3>4, <3>5, <3>6 DEF BestHolds
  <2>7. CASE ~Less(candidate.ranked, worst.ranked)
    <3>1. Keep(best, candidate, limit) = best
      BY <2>4, <2>7
    <3>2. ASSUME NEW kept \in best, NEW other \in all \ best PROVE ~Less(other.ranked, kept.ranked)
      <4>1. kept \in all /\ worst \in all /\ candidate \in all
        BY <1>1, <2>3
      <4>2. CASE other = candidate
        <5>1. ~Less(worst.ranked, kept.ranked)
          BY <2>3
        <5>2. Less(kept.ranked, worst.ranked) \/ kept.ranked = worst.ranked
          BY <1>3, <4>1, <5>1
        <5> QED BY <1>3, <2>7, <4>1, <4>2, <5>2
      <4>3. CASE other # candidate
        BY <1>1, <4>3
      <4> QED BY <4>2, <4>3
    <3>3. best \subseteq all
      BY <1>1
    <3> QED BY <1>1, <2>1, <2>5, <3>1, <3>2, <3>3 DEF BestHolds
  <2> QED BY <2>6, <2>7
<1> QED BY <1>5, <1>6

LEMMA InOrderFacts ==
  ASSUME NEW best, best \subseteq Candidates, IsFiniteSet(best)
  PROVE  LET order == InOrder(best)
         IN  /\ Cardinality(best) \in Nat
             /\ order \in [1 .. Cardinality(best) -> best]
             /\ RangeOf(order) = best
             /\ \A j, k \in DOMAIN order : j < k => ~Less(order[k].ranked, order[j].ranked)
<1> DEFINE key == [c \in best |-> c.ranked]
           n == Cardinality(best)
           Sorted(order) == /\ RangeOf(order) = best
                            /\ \A j, k \in DOMAIN order :
                                 j < k => ~Less(order[k].ranked, order[j].ranked)
<1>1. Linear(key, best) /\ \A c \in best : key[c] = c.ranked
  BY CandidatesLinear
<1> HIDE DEF key
<1>2. n \in Nat
  BY <1>1, SortedSet
<1>3. PICK order \in [1 .. n -> best] : RangeOf(order) = best /\ Ordered(order, key)
  BY <1>1, SortedSet
<1>4. \A k \in DOMAIN order : order[k] \in best
  BY <1>3
<1>5. Sorted(order)
  BY <1>1, <1>3, <1>4 DEF Ordered
<1>6. \E some \in [1 .. n -> best] : Sorted(some)
  BY <1>3, <1>5
<1>7. InOrder(best) = CHOOSE some \in [1 .. n -> best] : Sorted(some)
  BY DEF InOrder
<1> HIDE DEF Sorted, n
<1>8. InOrder(best) \in [1 .. n -> best] /\ Sorted(InOrder(best))
  BY <1>6, <1>7, Zenon
<1> QED BY <1>2, <1>8, Zenon DEF Sorted, n

-----------------------------------------------------------------------------
(* What a search scans and keeps. *)

LEMMA ConcatFacts ==
  ASSUME NEW S, NEW s \in Seq(S), NEW t \in Seq(S)
  PROVE  /\ s \o t \in Seq(S) /\ Len(s \o t) = Len(s) + Len(t)
         /\ Len(s) \in Nat /\ Len(t) \in Nat
         /\ \A i \in 1 .. Len(s) : (s \o t)[i] = s[i]
         /\ \A i \in 1 .. Len(t) : (s \o t)[Len(s) + i] = t[i]
         /\ RangeOf(s \o t) = RangeOf(s) \union RangeOf(t)
<1> DEFINE all == s \o t
           n == Len(s)
           m == Len(t)
<1>1. n \in Nat /\ m \in Nat /\ DOMAIN s = 1 .. n /\ DOMAIN t = 1 .. m
  OBVIOUS
<1>2. /\ all \in Seq(S) /\ Len(all) = n + m
      /\ \A i \in 1 .. n + m : all[i] = IF i <= n THEN s[i] ELSE t[i - n]
  BY ConcatProperties, Zenon
<1> HIDE DEF n, m, all
<1>3. \A i \in 1 .. n : all[i] = s[i]
  <2> TAKE i \in 1 .. n
  <2>1. i \in 1 .. n + m /\ i <= n
    BY <1>1
  <2> QED BY <1>2, <2>1
<1>4. \A i \in 1 .. m : n + i \in 1 .. n + m /\ all[n + i] = t[i]
  <2> TAKE i \in 1 .. m
  <2>1. n + i \in 1 .. n + m /\ ~(n + i <= n) /\ (n + i) - n = i
    BY <1>1
  <2> QED BY <1>2, <2>1
<1>5. DOMAIN all = 1 .. n + m
  BY <1>2
<1>6. ASSUME NEW i \in 1 .. n + m PROVE i \in 1 .. n \/ (i - n \in 1 .. m /\ i = n + (i - n))
  BY <1>1
<1>7. \A i \in 1 .. n : i \in 1 .. n + m
  BY <1>1
<1>8. RangeOf(all) = RangeOf(s) \union RangeOf(t)
  <2>1. ASSUME NEW i \in DOMAIN all PROVE all[i] \in RangeOf(s) \union RangeOf(t)
    <3>1. CASE i \in 1 .. n
      BY <1>1, <1>3, <3>1 DEF RangeOf
    <3>2. CASE i - n \in 1 .. m /\ i = n + (i - n)
      <4>1. all[n + (i - n)] = t[i - n]
        BY <1>4, <3>2
      <4>2. all[i] = t[i - n] /\ i - n \in DOMAIN t
        BY <1>1, <3>2, <4>1
      <4> QED BY <4>2 DEF RangeOf
    <3> QED BY <1>5, <1>6, <3>1, <3>2
  <2>2. \A i \in DOMAIN s : s[i] \in RangeOf(all)
    BY <1>1, <1>3, <1>5, <1>7 DEF RangeOf
  <2>3. \A i \in DOMAIN t : t[i] \in RangeOf(all)
    BY <1>1, <1>4, <1>5 DEF RangeOf
  <2> QED BY <2>1, <2>2, <2>3 DEF RangeOf
<1> QED BY <1>1, <1>2, <1>3, <1>4, <1>8 DEF all, n, m

LEMMA ConcatDistinct ==
  ASSUME NEW S, NEW s \in Seq(S), NEW t \in Seq(S), Distinct(s), Distinct(t),
         RangeOf(s) \intersect RangeOf(t) = {}
  PROVE  Distinct(s \o t)
<1> DEFINE all == s \o t
           n == Len(s)
           m == Len(t)
<1>1. /\ all \in Seq(S) /\ Len(all) = n + m /\ n \in Nat /\ m \in Nat
      /\ \A i \in 1 .. n : all[i] = s[i]
      /\ \A i \in 1 .. m : all[n + i] = t[i]
  BY ConcatFacts
<1>2. DOMAIN s = 1 .. n /\ DOMAIN t = 1 .. m
  OBVIOUS
<1>3. \A i \in 1 .. n : s[i] \in RangeOf(s)
  BY <1>2 DEF RangeOf
<1>4. \A i \in 1 .. m : t[i] \in RangeOf(t)
  BY <1>2 DEF RangeOf
<1>5. \A i, j \in 1 .. n : s[i] = s[j] => i = j
  BY <1>2 DEF Distinct
<1>6. \A i, j \in 1 .. m : t[i] = t[j] => i = j
  BY <1>2 DEF Distinct
<1> HIDE DEF n, m, all
<1>7. DOMAIN all = 1 .. n + m
  BY <1>1
<1>8. \A i \in 1 .. n + m : i \in 1 .. n \/ i - n \in 1 .. m
  BY <1>1
<1>9. \A i \in 1 .. n + m : i - n \in 1 .. m => all[i] = t[i - n]
  <2> TAKE i \in 1 .. n + m
  <2>1. n + (i - n) = i
    BY <1>1
  <2> QED BY <1>1, <2>1
<1>10. ASSUME NEW i \in 1 .. n + m, NEW j \in 1 .. n + m, all[i] = all[j] PROVE i = j
  <2>1. CASE i \in 1 .. n /\ j \in 1 .. n
    BY <1>1, <1>5, <1>10, <2>1
  <2>2. CASE i - n \in 1 .. m /\ j - n \in 1 .. m
    <3>1. i - n = j - n
      BY <1>6, <1>9, <1>10, <2>2
    <3> QED BY <1>1, <3>1
  <2>3. CASE i \in 1 .. n /\ j - n \in 1 .. m
    BY <1>1, <1>3, <1>4, <1>9, <1>10, <2>3
  <2>4. CASE i - n \in 1 .. m /\ j \in 1 .. n
    BY <1>1, <1>3, <1>4, <1>9, <1>10, <2>4
  <2> QED BY <1>8, <2>1, <2>2, <2>3, <2>4
<1> QED BY <1>7, <1>10 DEF Distinct, all

(* `ByName` *)
NamedWith(ix, included, name) ==
  {i \in included : ShortName[ix.definitions[i].symbol] = name}

ByNameStep(ix, included, names, scanned, k) ==
  IF k = 0 THEN <<>>
  ELSE scanned[k - 1] \o PositionsOf(ix, NamedWith(ix, included, names[k]))

LEMMA ByNameDef ==
  ASSUME NEW ix, ix.definitions \in Seq(Declarations), NEW included, NEW S, NEW names \in Seq(S)
  PROVE  \E scanned :
           /\ scanned = [k \in 0 .. Len(names) |-> ByNameStep(ix, included, names, scanned, k)]
           /\ ByName(ix, included, names) = scanned[Len(names)]
<1> DEFINE n == Len(names)
           D == Seq(DOMAIN ix.definitions)
           Of(k) == PositionsOf(ix, NamedWith(ix, included, names[k]))
           g == [k \in 1 .. n |-> [x \in D |-> x \o Of(k)]]
<1>1. n \in Nat /\ <<>> \in D
  OBVIOUS
<1>2. \A k \in 1 .. n : Of(k) \in D
  BY PositionsOfFacts
<1>3. \A k \in 1 .. n : \A x \in D : x \o Of(k) \in D
  <2> HIDE DEF Of
  <2> QED BY <1>2, ConcatProperties, Zenon
<1> HIDE DEF D, Of
<1>4. g \in [1 .. n -> [D -> D]]
  BY <1>3
<1>5. \A k \in 1 .. n : \A x \in D : g[k][x] = x \o Of(k)
  OBVIOUS
<1> HIDE DEF g, n
<1>6. PICK f : Iterates(f, n, D, <<>>, g)
  BY <1>1, <1>4, Recursion
<1>7. f = [k \in 0 .. n |-> ByNameStep(ix, included, names, f, k)]
  <2> SUFFICES ASSUME NEW k \in 0 .. n PROVE f[k] = ByNameStep(ix, included, names, f, k)
    BY <1>6 DEF Iterates
  <2>1. k # 0 => k \in 1 .. n /\ f[k - 1] \in D
    BY <1>1, <1>6 DEF Iterates
  <2>2. k # 0 => f[k] = f[k - 1] \o Of(k)
    BY <1>5, <1>6, <2>1 DEF Iterates
  <2>3. k = 0 => f[k] = <<>>
    BY <1>6 DEF Iterates
  <2> QED BY <2>2, <2>3 DEF ByNameStep, Of
<1> DEFINE scanned[k \in 0 .. n] ==
        IF k = 0 THEN <<>>
        ELSE scanned[k - 1] \o
               PositionsOf(ix, {i \in included : ShortName[ix.definitions[i].symbol] = names[k]})
<1>8. scanned = [k \in 0 .. n |-> ByNameStep(ix, included, names, scanned, k)]
  BY <1>7, Zenon DEF ByNameStep, NamedWith
<1>9. ByName(ix, included, names) = scanned[n]
  BY Zenon DEF ByName, n
<1> QED BY <1>8, <1>9, Zenon DEF n

LEMMA ByNameFacts ==
  ASSUME NEW ix, ix.definitions \in Seq(Declarations), NEW included,
         included \subseteq DOMAIN ix.definitions, NEW S, NEW names \in Seq(S), Distinct(names)
  PROVE  /\ ByName(ix, included, names) \in Seq(DOMAIN ix.definitions)
         /\ RangeOf(ByName(ix, included, names))
              = {i \in included : ShortName[ix.definitions[i].symbol] \in RangeOf(names)}
         /\ Distinct(ByName(ix, included, names))
<1>1. PICK scanned :
        /\ scanned = [k \in 0 .. Len(names) |-> ByNameStep(ix, included, names, scanned, k)]
        /\ ByName(ix, included, names) = scanned[Len(names)]
  BY ByNameDef
<1> DEFINE n == Len(names)
           D == DOMAIN ix.definitions
           name(i) == ShortName[ix.definitions[i].symbol]
           Upto(k) == {i \in included : \E j \in 1 .. k : name(i) = names[j]}
           P(k) == scanned[k] \in Seq(D) /\ RangeOf(scanned[k]) = Upto(k) /\ Distinct(scanned[k])
           T == {k \in 0 .. n : P(k)}
<1>2. n \in Nat /\ DOMAIN names = 1 .. n
  OBVIOUS
<1>3. \A i, j \in 1 .. n : names[i] = names[j] => i = j
  BY <1>2 DEF Distinct
<1> HIDE DEF n, name
<1>4. 0 \in T
  <2>1. 0 \in 0 .. n
    BY <1>2
  <2>2. scanned[0] = <<>>
    BY <1>1, <2>1 DEF ByNameStep, n
  <2>3. RangeOf(<<>>) = {} /\ Distinct(<<>>) /\ <<>> \in Seq(D)
    BY DEF RangeOf, Distinct
  <2>4. Upto(0) = {}
    OBVIOUS
  <2> QED BY <2>1, <2>2, <2>3, <2>4
<1>5. ASSUME NEW k \in 1 .. n, k - 1 \in T PROVE k \in T
  <2> DEFINE here == PositionsOf(ix, NamedWith(ix, included, names[k]))
             before == scanned[k - 1]
  <2>1. k \in 0 .. n /\ k # 0
    BY <1>2
  <2>2. scanned[k] = before \o here
    BY <1>1, <2>1 DEF ByNameStep, n
  <2>3. /\ here \in Seq(D) /\ Distinct(here)
        /\ RangeOf(here) = D \intersect NamedWith(ix, included, names[k])
    BY PositionsOfFacts
  <2>4. RangeOf(here) = {i \in included : name(i) = names[k]}
    BY <2>3 DEF NamedWith, name
  <2>5. P(k - 1)
    BY <1>5
  <2> HIDE DEF here, before
  <2>6. before \in Seq(D) /\ RangeOf(before) = Upto(k - 1) /\ Distinct(before)
    BY <2>5 DEF before
  <2>7. RangeOf(before) \intersect RangeOf(here) = {}
    <3>1. \A j \in 1 .. k - 1 : j \in 1 .. n /\ j # k
      BY <1>2
    <3> QED BY <1>3, <2>4, <2>6, <3>1
  <2>8. Upto(k) = Upto(k - 1) \union {i \in included : name(i) = names[k]}
    <3>1. \A j \in 1 .. k : j \in 1 .. k - 1 \/ j = k
      BY <1>2
    <3>2. \A j \in 1 .. k - 1 : j \in 1 .. k
      BY <1>2
    <3>3. k \in 1 .. k
      BY <1>2
    <3> QED BY <3>1, <3>2, <3>3
  <2> HIDE DEF D, Upto
  <2>9. before \o here \in Seq(D) /\ RangeOf(before \o here) = RangeOf(before) \union RangeOf(here)
    BY <2>3, <2>6, ConcatFacts
  <2>10. Distinct(before \o here)
    BY <2>3, <2>6, <2>7, ConcatDistinct
  <2>11. P(k)
    BY <2>2, <2>4, <2>6, <2>8, <2>9, <2>10
  <2> QED BY <2>1, <2>11
<1>6. n \in T
  <2> HIDE DEF T
  <2>1. n \in 0 .. n
    BY <1>2
  <2>2. n \in Nat
    BY <1>2
  <2>3. 0 .. n \subseteq T
    BY <1>4, <1>5, <2>2, UpTo
  <2> QED BY <2>1, <2>3
<1>7. Upto(n) = {i \in included : name(i) \in RangeOf(names)}
  BY <1>2 DEF RangeOf
<1> QED BY <1>1, <1>6, <1>7 DEF n, name

-----------------------------------------------------------------------------
(* `BestOf` *)
BestStep(candidates, limit, best, k) ==
  IF k = 0 \/ limit = 0 THEN {} ELSE Keep(best[k - 1], candidates[k], limit)

LEMMA KeepType ==
  ASSUME NEW S, NEW best, best \subseteq S, NEW candidate \in S, NEW limit
  PROVE  Keep(best, candidate, limit) \subseteq S
<1> DEFINE worst == CHOOSE w \in best : \A other \in best : ~Less(w.ranked, other.ranked)
<1>1. \/ Keep(best, candidate, limit) = best \union {candidate}
      \/ Keep(best, candidate, limit) = (best \ {worst}) \union {candidate}
      \/ Keep(best, candidate, limit) = best
  BY Zenon DEF Keep
<1> HIDE DEF worst
<1> QED BY <1>1

LEMMA BestDef ==
  ASSUME NEW S, NEW candidates \in Seq(S), NEW limit \in Nat
  PROVE  \E best : /\ best = [k \in 0 .. Len(candidates) |-> BestStep(candidates, limit, best, k)]
                   /\ BestOf(candidates, limit) = best[Len(candidates)]
<1> DEFINE n == Len(candidates)
           B == SUBSET S
           Next1(k, x) == IF limit = 0 THEN {} ELSE Keep(x, candidates[k], limit)
           g == [k \in 1 .. n |-> [x \in B |-> Next1(k, x)]]
<1>1. n \in Nat /\ {} \in B
  OBVIOUS
<1>2. \A k \in 1 .. n : candidates[k] \in S
  OBVIOUS
<1>3. \A k \in 1 .. n : \A x \in B : Next1(k, x) \in B
  BY <1>2, KeepType
<1> HIDE DEF B, Next1
<1>4. g \in [1 .. n -> [B -> B]]
  BY <1>3
<1>5. \A k \in 1 .. n : \A x \in B : g[k][x] = Next1(k, x)
  OBVIOUS
<1> HIDE DEF g, n
<1>6. PICK f : Iterates(f, n, B, {}, g)
  BY <1>1, <1>4, Recursion
<1>7. f = [k \in 0 .. n |-> BestStep(candidates, limit, f, k)]
  <2> SUFFICES ASSUME NEW k \in 0 .. n PROVE f[k] = BestStep(candidates, limit, f, k)
    BY <1>6 DEF Iterates
  <2>1. k # 0 => k \in 1 .. n /\ f[k - 1] \in B
    BY <1>1, <1>6 DEF Iterates
  <2>2. k # 0 => f[k] = Next1(k, f[k - 1])
    BY <1>5, <1>6, <2>1 DEF Iterates
  <2>3. k = 0 => f[k] = {}
    BY <1>6 DEF Iterates
  <2> QED BY <2>2, <2>3, Zenon DEF BestStep, Next1
<1> DEFINE best[k \in 0 .. n] ==
        IF k = 0 \/ limit = 0 THEN {} ELSE Keep(best[k - 1], candidates[k], limit)
<1>8. best = [k \in 0 .. n |-> BestStep(candidates, limit, best, k)]
  BY <1>7, Zenon DEF BestStep
<1>9. BestOf(candidates, limit) = best[n]
  BY Zenon DEF BestOf, n
<1> QED BY <1>8, <1>9, Zenon DEF n

(* What the heap has at the end is the best of what it was offered. *)
LEMMA BestFacts ==
  ASSUME NEW candidates \in Seq(Candidates), Distinct(candidates), NEW limit \in Nat
  PROVE  BestHolds(BestOf(candidates, limit), RangeOf(candidates), limit, Len(candidates))
<1>1. PICK best : /\ best = [k \in 0 .. Len(candidates) |-> BestStep(candidates, limit, best, k)]
                  /\ BestOf(candidates, limit) = best[Len(candidates)]
  BY BestDef
<1> DEFINE n == Len(candidates)
           Offered(k) == {candidates[j] : j \in 1 .. k}
           P(k) == BestHolds(best[k], Offered(k), limit, k)
           T == {k \in 0 .. n : P(k)}
<1>2. n \in Nat /\ DOMAIN candidates = 1 .. n /\ \A j \in 1 .. n : candidates[j] \in Candidates
  OBVIOUS
<1>3. \A i, j \in 1 .. n : candidates[i] = candidates[j] => i = j
  BY <1>2 DEF Distinct
<1>4. n \in 0 .. n /\ 0 \in 0 .. n
  BY <1>2
<1>5. RangeOf(candidates) = Offered(n)
  BY <1>2 DEF RangeOf
<1>6. CASE limit = 0
  <2>1. BestOf(candidates, limit) = {}
    BY <1>1, <1>4, <1>6 DEF BestStep
  <2>2. IsFiniteSet({}) /\ Cardinality({}) = 0
    BY FS_EmptySet
  <2> HIDE DEF n
  <2>3. Fewer(n, limit) = 0
    BY <1>2, <1>6 DEF Fewer
  <2>4. n <= limit => Offered(n) = {}
    BY <1>2, <1>6
  <2>5. BestHolds({}, Offered(n), limit, n)
    BY <2>2, <2>3, <2>4 DEF BestHolds
  <2> QED BY <1>5, <2>1, <2>5 DEF n
<1>7. CASE limit # 0
  <2> HIDE DEF n
  <2>1. 0 \in T
    <3>1. best[0] = {}
      BY <1>1, <1>4 DEF BestStep, n
    <3>2. IsFiniteSet({}) /\ Cardinality({}) = 0
      BY FS_EmptySet
    <3>3. Fewer(0, limit) = 0
      BY DEF Fewer
    <3>4. Offered(0) = {}
      OBVIOUS
    <3>5. BestHolds({}, {}, limit, 0)
      BY <3>2, <3>3 DEF BestHolds
    <3> QED BY <1>4, <3>1, <3>4, <3>5
  <2>2. ASSUME NEW k \in 1 .. n, k - 1 \in T PROVE k \in T
    <3>1. k \in 0 .. n /\ k # 0 /\ k - 1 \in Nat /\ (k - 1) + 1 = k
      BY <1>2
    <3>2. best[k] = Keep(best[k - 1], candidates[k], limit)
      BY <1>1, <1>7, <3>1 DEF BestStep, n
    <3>3. BestHolds(best[k - 1], Offered(k - 1), limit, k - 1)
      BY <2>2
    <3>4. \A j \in 1 .. k - 1 : j \in 1 .. n /\ j # k
      BY <1>2
    <3>5. Offered(k - 1) \subseteq Candidates /\ candidates[k] \in Candidates
      BY <1>2, <3>4
    <3>6. candidates[k] \notin Offered(k - 1)
      BY <1>3, <3>4
    <3>7. Offered(k) = Offered(k - 1) \union {candidates[k]}
      <4>1. \A j \in 1 .. k : j \in 1 .. k - 1 \/ j = k
        BY <1>2
      <4>2. \A j \in 1 .. k - 1 : j \in 1 .. k
        BY <1>2
      <4>3. k \in 1 .. k
        BY <1>2
      <4> QED BY <4>1, <4>2, <4>3
    <3> HIDE DEF Before
    <3>8. BestHolds(Keep(best[k - 1], candidates[k], limit),
                    Offered(k - 1) \union {candidates[k]}, limit, (k - 1) + 1)
      BY <1>7, <3>1, <3>3, <3>5, <3>6, KeepHolds
    <3>9. P(k)
      BY <3>1, <3>2, <3>7, <3>8
    <3> QED BY <3>1, <3>9
  <2>3. 0 .. n \subseteq T
    <3> HIDE DEF T
    <3> QED BY <1>2, <2>1, <2>2, UpTo
  <2>4. P(n)
    BY <1>4, <2>3
  <2> QED BY <1>1, <1>5, <2>4 DEF n
<1> QED BY <1>6, <1>7

-----------------------------------------------------------------------------
(* What a search finds. *)

HitsOf(defs, query, shadowed) ==
  {d \in defs : query # <<>> /\ Matches(ShortName[d.symbol], query) /\ d.path \notin shadowed}

(* The best of what there is, and no more than the limit. *)
IsBest(results, hits, query, limit) ==
  /\ results \in Seq(Declarations)
  /\ Len(results) = Fewer(Cardinality(hits), limit)
  /\ RangeOf(results) \subseteq hits
  /\ \A i, j \in DOMAIN results : i < j =>
       ~Less(RankedDefinition(results[j], query), RankedDefinition(results[i], query))
  /\ \A kept \in RangeOf(results) : \A other \in hits \ RangeOf(results) :
       ~Less(RankedDefinition(other, query), RankedDefinition(kept, query))

LEMMA SearchLimitedFacts ==
  ASSUME NEW ix, ix.definitions \in Seq(Declarations), Distinct(ix.definitions),
         NEW query, NEW limit \in Nat, NEW shadowed, NEW S, NEW names \in Seq(S), Distinct(names),
         \A d \in HitsOf(RangeOf(ix.definitions), query, shadowed) :
           ShortName[d.symbol] \in RangeOf(names)
  PROVE  LET hits == HitsOf(RangeOf(ix.definitions), query, shadowed)
             found == SearchLimited(ix, query, limit, shadowed, names)
         IN  /\ Cardinality(hits) \in Nat /\ found.total = Cardinality(hits)
             /\ IsBest(found.results, hits, query, limit)
<1> DEFINE hits == HitsOf(RangeOf(ix.definitions), query, shadowed)
           found == SearchLimited(ix, query, limit, shadowed, names)
<1>1. CASE query = <<>>
  <2>1. hits = {}
    BY <1>1 DEF HitsOf
  <2>2. found = [results |-> <<>>, total |-> 0]
    BY <1>1, Zenon DEF SearchLimited
  <2>3. IsFiniteSet({}) /\ Cardinality({}) = 0
    BY FS_EmptySet
  <2>4. Fewer(0, limit) = 0
    BY DEF Fewer
  <2>5. IsBest(<<>>, {}, query, limit)
    <3>1. RangeOf(<<>>) = {} /\ DOMAIN <<>> = {} /\ <<>> \in Seq(Declarations) /\ Len(<<>>) = 0
      BY DEF RangeOf
    <3> QED BY <2>3, <2>4, <3>1 DEF IsBest
  <2> HIDE DEF hits
  <2>6. found.results = <<>> /\ found.total = 0
    BY <2>2
  <2> HIDE DEF found
  <2> QED BY <2>1, <2>3, <2>5, <2>6 DEF hits, found
<1>2. CASE query # <<>>
  <2> DEFINE defs == ix.definitions
             D == DOMAIN defs
             included == {i \in D : /\ defs[i].path \notin shadowed
                                    /\ Matches(ShortName[defs[i].symbol], query)}
             scanned == ByName(ix, included, names)
             n == Len(scanned)
             candidates == [k \in DOMAIN scanned |->
                              [at |-> scanned[k],
                               ranked |-> RankedDefinition(defs[scanned[k]], query)]]
             best == BestOf(candidates, limit)
             sorted == InOrder(best)
             results == [k \in DOMAIN sorted |-> defs[sorted[k].at]]
  <2>1. found = [results |-> results, total |-> Len(candidates)]
    BY <1>2, Zenon DEF SearchLimited
  <2>2. defs \in Seq(Declarations) /\ Distinct(defs) /\ D = 1 .. Len(defs) /\ Len(defs) \in Nat
    OBVIOUS
  <2>3. /\ \A i \in D : defs[i] \in RangeOf(defs) /\ defs[i] \in Declarations
        /\ \A d \in RangeOf(defs) : \E i \in D : defs[i] = d
    BY <2>2 DEF RangeOf
  <2>4. \A i \in D : i \in included <=> defs[i] \in hits
    BY <1>2, <2>3 DEF HitsOf
  <2>5. hits \subseteq RangeOf(defs)
    BY DEF HitsOf
  <2>6. \A d \in hits : ShortName[d.symbol] \in RangeOf(names)
    OBVIOUS
  <2>7. included \subseteq D
    OBVIOUS
  <2> HIDE DEF included, hits
  <2>8. scanned \in Seq(D) /\ RangeOf(scanned) = included /\ Distinct(scanned)
    <3>1. /\ ByName(ix, included, names) \in Seq(D)
          /\ RangeOf(ByName(ix, included, names))
               = {i \in included : ShortName[defs[i].symbol] \in RangeOf(names)}
          /\ Distinct(ByName(ix, included, names))
      BY <2>7, ByNameFacts, Zenon
    <3>2. \A i \in included : ShortName[defs[i].symbol] \in RangeOf(names)
      BY <2>4, <2>6, <2>7
    <3> QED BY <3>1, <3>2
  <2>9. n \in Nat /\ DOMAIN scanned = 1 .. n
    BY <2>8
  <2>10. \A k \in 1 .. n : scanned[k] \in included /\ scanned[k] \in D
    BY <2>7, <2>8, <2>9 DEF RangeOf
  <2>11. \A i \in included : \E k \in 1 .. n : scanned[k] = i
    BY <2>8, <2>9 DEF RangeOf
  <2>12. \A k, l \in 1 .. n : scanned[k] = scanned[l] => k = l
    BY <2>8, <2>9 DEF Distinct
  <2> HIDE DEF scanned, n
  <2>13. Cardinality(hits) = n
    <3> DEFINE h == [k \in 1 .. n |-> defs[scanned[k]]]
    <3>1. h \in Seq(hits) /\ Len(h) = n /\ DOMAIN h = 1 .. n
      <4>1. \A k \in 1 .. n : defs[scanned[k]] \in hits
        BY <2>4, <2>10
      <4>2. h \in [1 .. n -> hits]
        BY <4>1
      <4> HIDE DEF h
      <4> QED BY <2>9, <4>2
    <3>2. \A k \in 1 .. n : h[k] = defs[scanned[k]]
      OBVIOUS
    <3> HIDE DEF h
    <3>3. RangeOf(h) = hits
      <4>1. RangeOf(h) \subseteq hits
        BY <3>1 DEF RangeOf
      <4>2. ASSUME NEW d \in hits PROVE d \in RangeOf(h)
        <5>1. PICK i \in D : defs[i] = d
          BY <2>3, <2>5
        <5>2. PICK k \in 1 .. n : scanned[k] = i
          BY <2>4, <2>11, <5>1
        <5> QED BY <3>1, <3>2, <5>1, <5>2 DEF RangeOf
      <4> QED BY <4>1, <4>2
    <3>4. Distinct(h)
      <4>1. ASSUME NEW k \in 1 .. n, NEW l \in 1 .. n, h[k] = h[l] PROVE k = l
        <5>1. defs[scanned[k]] = defs[scanned[l]]
          BY <3>2, <4>1
        <5>2. scanned[k] = scanned[l]
          BY <2>2, <2>10, <5>1 DEF Distinct
        <5> QED BY <2>12, <5>2
      <4> QED BY <3>1, <4>1 DEF Distinct
    <3>5. Once(h)
      BY <3>1, <3>4, DistinctOnce
    <3> QED BY <3>1, <3>3, <3>5 DEF Once
  <2>14. /\ DOMAIN candidates = 1 .. n
         /\ \A k \in 1 .. n : /\ candidates[k] \in Candidates
                              /\ candidates[k].at = scanned[k]
                              /\ candidates[k].ranked = RankedDefinition(defs[scanned[k]], query)
    <3>1. DOMAIN candidates = 1 .. n
      BY <2>9
    <3>2. ASSUME NEW k \in 1 .. n
          PROVE  /\ candidates[k] \in Candidates
                 /\ candidates[k].at = scanned[k]
                 /\ candidates[k].ranked = RankedDefinition(defs[scanned[k]], query)
      <4>1. candidates[k] = [at |-> scanned[k],
                             ranked |-> RankedDefinition(defs[scanned[k]], query)]
        BY <2>9
      <4>2. scanned[k] \in Nat /\ defs[scanned[k]] \in Declarations
        BY <2>2, <2>3, <2>10
      <4>3. RankedDefinition(defs[scanned[k]], query) \in Ranks
        BY <4>2, RankedType
      <4> QED BY <4>1, <4>2, <4>3 DEF Candidates
    <3> QED BY <3>1, <3>2
  <2> HIDE DEF candidates
  <2>15. candidates \in Seq(Candidates) /\ Len(candidates) = n
    <3>1. candidates \in Seq(Candidates)
      <4>1. candidates = [k \in 1 .. n |-> candidates[k]]
        BY <2>9, <2>14 DEF candidates
      <4>2. [k \in 1 .. n |-> candidates[k]] \in Seq(Candidates)
        BY <2>9, <2>14, IsASeq
      <4> QED BY <4>1, <4>2
    <3> QED BY <2>9, <2>14, <3>1
  <2>16. Distinct(candidates)
    BY <2>12, <2>14 DEF Distinct
  <2>17. BestHolds(best, RangeOf(candidates), limit, n)
    BY <2>15, <2>16, BestFacts
  <2> HIDE DEF best
  <2>18. /\ best \subseteq RangeOf(candidates) /\ IsFiniteSet(best)
         /\ Cardinality(best) = Fewer(n, limit)
         /\ \A kept \in best : \A other \in RangeOf(candidates) \ best :
              ~Less(other.ranked, kept.ranked)
    BY <2>17 DEF BestHolds
  <2>19. \A c \in RangeOf(candidates) : c \in Candidates
    BY <2>14 DEF RangeOf
  <2>20. \A c \in RangeOf(candidates) :
           c.at \in included /\ c.at \in D /\ c.ranked = RankedDefinition(defs[c.at], query)
    BY <2>10, <2>14 DEF RangeOf
  <2> DEFINE m == Cardinality(best)
  <2>21. /\ m \in Nat
         /\ sorted \in [1 .. m -> best] /\ RangeOf(sorted) = best
         /\ \A j, k \in DOMAIN sorted : j < k => ~Less(sorted[k].ranked, sorted[j].ranked)
    <3>1. best \subseteq Candidates
      BY <2>18, <2>19
    <3> QED BY <2>18, <3>1, InOrderFacts
  <2> HIDE DEF sorted, m
  <2>22. \A k \in 1 .. m :
           /\ sorted[k] \in best /\ sorted[k].at \in included /\ sorted[k].at \in D
           /\ sorted[k].ranked = RankedDefinition(defs[sorted[k].at], query)
    BY <2>18, <2>20, <2>21
  <2>23. DOMAIN results = 1 .. m /\ \A k \in 1 .. m : results[k] = defs[sorted[k].at]
    BY <2>21
  <2> HIDE DEF results
  <2>24. \A k \in 1 .. m : results[k] \in Declarations /\ results[k] \in hits
    BY <2>3, <2>4, <2>22, <2>23
  <2>25. results \in Seq(Declarations) /\ Len(results) = m
    <3>1. results = [k \in 1 .. m |-> results[k]]
      BY <2>21, <2>23 DEF results
    <3>2. [k \in 1 .. m |-> results[k]] \in Seq(Declarations)
      BY <2>21, <2>24, IsASeq
    <3>3. results \in Seq(Declarations)
      BY <3>1, <3>2
    <3> QED BY <2>21, <2>23, <3>3
  <2>26. RangeOf(results) \subseteq hits
    BY <2>23, <2>24 DEF RangeOf
  <2>27. ASSUME NEW i \in 1 .. m, NEW j \in 1 .. m, i < j
         PROVE  ~Less(RankedDefinition(results[j], query), RankedDefinition(results[i], query))
    <3>1. ~Less(sorted[j].ranked, sorted[i].ranked)
      BY <2>21, <2>27
    <3> QED BY <2>22, <2>23, <3>1
  <2>28. ASSUME NEW kept \in RangeOf(results), NEW other \in hits \ RangeOf(results)
         PROVE  ~Less(RankedDefinition(other, query), RankedDefinition(kept, query))
    <3>1. PICK k \in 1 .. m : results[k] = kept
      BY <2>23 DEF RangeOf
    <3>2. sorted[k] \in best /\ sorted[k].ranked = RankedDefinition(kept, query)
      BY <2>22, <2>23, <3>1
    <3>3. PICK i \in D : defs[i] = other
      BY <2>3, <2>5
    <3>4. PICK l \in 1 .. n : scanned[l] = i
      BY <2>4, <2>11, <3>3
    <3>5. /\ candidates[l] \in RangeOf(candidates) /\ candidates[l].at = i
          /\ candidates[l].ranked = RankedDefinition(other, query)
      BY <2>14, <3>3, <3>4 DEF RangeOf
    <3>6. candidates[l] \notin best
      <4> SUFFICES ASSUME candidates[l] \in best PROVE FALSE
        OBVIOUS
      <4>1. PICK j \in 1 .. m : sorted[j] = candidates[l]
        BY <2>21 DEF RangeOf
      <4>2. results[j] = other
        BY <2>23, <3>3, <3>5, <4>1
      <4> QED BY <2>23, <4>2 DEF RangeOf
    <3> QED BY <2>18, <3>2, <3>5, <3>6
  <2>29. IsBest(results, hits, query, limit)
    BY <2>13, <2>18, <2>23, <2>25, <2>26, <2>27, <2>28 DEF IsBest, m
  <2> HIDE DEF found
  <2>30. found.results = results /\ found.total = n
    BY <2>1, <2>15
  <2> QED BY <2>9, <2>13, <2>29, <2>30 DEF hits, found
<1> QED BY <1>1, <1>2

-----------------------------------------------------------------------------
(* What the open document declares goes first. *)

Room(k, limit) == IF k <= limit THEN limit - k ELSE 0

LEMMA WhatIsLeft ==
  ASSUME NEW a \in Nat, NEW b \in Nat
  PROVE  Max({0, a - b}) = Room(b, a)
<1> DEFINE T == {0, a - b}
           g == Max(T)
<1>1. \E x \in T : \A y \in T : x >= y
  BY a >= b \/ ~(a >= b)
<1>2. g \in T /\ \A y \in T : g >= y
  <2> HIDE DEF T
  <2> QED BY <1>1, Zenon DEF Max
<1> HIDE DEF g
<1>3. g = IF b <= a THEN a - b ELSE 0
  BY <1>2
<1> QED BY <1>3 DEF g, Room

(* A page of two sequences, the second no longer than the first leaves room for. *)
IsPage(page, first, s, t, m) ==
  /\ Len(page) = first + Len(t)
  /\ first = Fewer(Len(s), m)
  /\ SubSeq(page, 1, first) = SubSeq(s, 1, first)
  /\ SubSeq(page, first + 1, Len(page)) = t

LEMMA PageFacts ==
  ASSUME NEW S, NEW s \in Seq(S), NEW t \in Seq(S), NEW m \in Nat,
         Len(t) <= Room(Len(s), m)
  PROVE  IsPage(SubSeq(s \o t, 1, Min({Len(s \o t), m})), Min({Len(s), m}), s, t, m)
<1> DEFINE a == Len(s)
           b == Len(t)
           all == s \o t
           first == Min({a, m})
           last == Min({Len(all), m})
           page == SubSeq(all, 1, last)
<1>1. /\ all \in Seq(S) /\ Len(all) = a + b /\ a \in Nat /\ b \in Nat
      /\ \A i \in 1 .. a : all[i] = s[i]
      /\ \A i \in 1 .. b : all[a + i] = t[i]
  BY ConcatFacts
<1>2. b <= (IF a <= m THEN m - a ELSE 0)
  BY DEF Room
<1>3. t = [i \in 1 .. b |-> t[i]]
  OBVIOUS
<1> HIDE DEF a, b, all
<1>4. first = IF a <= m THEN a ELSE m
  BY <1>1, SmallerOf
<1>5. last = IF a + b <= m THEN a + b ELSE m
  BY <1>1, SmallerOf
<1> HIDE DEF first, last
<1>6. first \in Nat /\ last \in Nat /\ last = first + b /\ first <= a /\ last <= a + b
  BY <1>1, <1>2, <1>4, <1>5
<1>7. b # 0 => first = a
  BY <1>1, <1>2, <1>4
<1>8. page = [i \in 1 .. last |-> all[i]]
  BY <1>6
<1> HIDE DEF page
<1>9. DOMAIN page = 1 .. last /\ \A i \in 1 .. last : page[i] = all[i]
  BY <1>8
<1>10. Len(page) = last
  BY <1>6, <1>8
<1>11. SubSeq(page, 1, first) = SubSeq(s, 1, first)
  <2>1. SubSeq(page, 1, first) = [i \in 1 .. first |-> page[i]]
    BY <1>6
  <2>2. SubSeq(s, 1, first) = [i \in 1 .. first |-> s[i]]
    BY <1>6
  <2>3. \A i \in 1 .. first : i \in 1 .. last /\ i \in 1 .. a
    BY <1>1, <1>6
  <2>4. \A i \in 1 .. first : page[i] = s[i]
    BY <1>1, <1>9, <2>3
  <2> QED BY <2>1, <2>2, <2>4
<1>12. SubSeq(page, first + 1, last) = t
  <2>1. SubSeq(page, first + 1, last) = [i \in 1 .. b |-> page[first + i]]
    <3>1. SubSeq(page, first + 1, last)
            = [i \in 1 .. (1 + last - (first + 1)) |-> page[i + (first + 1) - 1]]
      BY <1>6
    <3>2. 1 + last - (first + 1) = b
      BY <1>1, <1>6
    <3>3. \A i \in 1 .. b : i + (first + 1) - 1 = first + i
      BY <1>1, <1>6
    <3> QED BY <3>1, <3>2, <3>3
  <2>2. ASSUME NEW i \in 1 .. b PROVE page[first + i] = t[i]
    <3>1. b # 0 /\ first + i \in 1 .. last
      BY <1>1, <1>6
    <3>2. page[first + i] = all[a + i]
      BY <1>7, <1>9, <3>1
    <3> QED BY <1>1, <3>2
  <2> QED BY <1>3, <2>1, <2>2
<1> QED BY <1>4, <1>6, <1>10, <1>11, <1>12 DEF IsPage, Fewer, a, b, all, first, last, page

(* As many rows as there are values: each of them once. *)
LEMMA OrderOnce ==
  ASSUME NEW S, IsFiniteSet(S), NEW order \in [1 .. Cardinality(S) -> S], RangeOf(order) = S
  PROVE  order \in Seq(S) /\ Distinct(order)
<1> DEFINE n == Cardinality(S)
           First(k) == {order[j] : j \in 1 .. k}
           Apart(k) == \A i, j \in 1 .. k : order[i] = order[j] => i = j
           P(k) == /\ IsFiniteSet(First(k)) /\ Cardinality(First(k)) \in 0 .. k
                   /\ Cardinality(First(k)) = k => Apart(k)
           T == {k \in 0 .. n : P(k)}
<1>1. n \in Nat
  BY FS_CardinalityType
<1> HIDE DEF n
<1>2. order \in [1 .. n -> S] /\ DOMAIN order = 1 .. n
  BY DEF n
<1>3. First(n) = S
  BY <1>2 DEF RangeOf
<1>4. 0 \in T
  <2>1. First(0) = {} /\ 0 \in 0 .. n /\ Apart(0)
    BY <1>1
  <2>2. IsFiniteSet({}) /\ Cardinality({}) = 0
    BY FS_EmptySet
  <2>3. P(0)
    <3> HIDE DEF First, Apart
    <3> QED BY <2>1, <2>2
  <2> QED BY <2>1, <2>3
<1>5. ASSUME NEW k \in 1 .. n, k - 1 \in T PROVE k \in T
  <2>1. P(k - 1) /\ k \in 0 .. n
    BY <1>1, <1>5
  <2>2. First(k) = First(k - 1) \union {order[k]}
    <3>1. \A j \in 1 .. k : j \in 1 .. k - 1 \/ j = k
      BY <1>1
    <3>2. \A j \in 1 .. k - 1 : j \in 1 .. k
      BY <1>1
    <3>3. k \in 1 .. k
      BY <1>1
    <3> QED BY <3>1, <3>2, <3>3
  <2>3. CASE order[k] \in First(k - 1)
    <3>1. First(k) = First(k - 1)
      BY <2>2, <2>3
    <3> HIDE DEF First, Apart
    <3>2. Cardinality(First(k)) \in 0 .. k /\ Cardinality(First(k)) # k
      BY <1>1, <2>1, <3>1
    <3>3. P(k)
      BY <2>1, <3>1, <3>2
    <3> QED BY <2>1, <3>3
  <2>4. CASE order[k] \notin First(k - 1)
    <3>1. ASSUME Apart(k - 1), NEW i \in 1 .. k, NEW j \in 1 .. k, order[i] = order[j]
          PROVE  i = j
      <4>1. \A l \in 1 .. k - 1 : order[l] # order[k]
        BY <2>4
      <4>2. i \in 1 .. k - 1 \/ i = k
        BY <1>1
      <4>3. j \in 1 .. k - 1 \/ j = k
        BY <1>1
      <4> QED BY <3>1, <4>1, <4>2, <4>3
    <3>2. Apart(k - 1) => Apart(k)
      BY <3>1
    <3> DEFINE before == First(k - 1)
    <3> HIDE DEF First, Apart
    <3>3. IsFiniteSet(before) /\ order[k] \notin before
      BY <2>1, <2>4
    <3> HIDE DEF before
    <3>4. /\ IsFiniteSet(before \union {order[k]})
          /\ Cardinality(before \union {order[k]}) = Cardinality(before) + 1
      BY <3>3, FS_AddElement
    <3>5. IsFiniteSet(First(k)) /\ Cardinality(First(k)) = Cardinality(First(k - 1)) + 1
      BY <2>2, <3>4 DEF before
    <3>6. Cardinality(First(k - 1)) \in 0 .. k - 1
          /\ (Cardinality(First(k - 1)) = k - 1 => Apart(k - 1))
      BY <2>1
    <3>7. Cardinality(First(k)) \in 0 .. k
          /\ (Cardinality(First(k)) = k => Cardinality(First(k - 1)) = k - 1)
      BY <1>1, <3>5, <3>6
    <3>8. P(k)
      BY <3>2, <3>5, <3>6, <3>7
    <3> QED BY <2>1, <3>8
  <2> QED BY <2>3, <2>4
<1>6. P(n)
  <2>1. 0 .. n \subseteq T
    <3> HIDE DEF T
    <3> QED BY <1>1, <1>4, <1>5, UpTo
  <2>2. n \in 0 .. n
    BY <1>1
  <2> QED BY <2>1, <2>2
<1>7. Distinct(order)
  <2>1. Cardinality(First(n)) = n
    BY <1>3 DEF n
  <2>2. Apart(n)
    BY <1>6, <2>1
  <2> QED BY <1>2, <2>2 DEF Distinct
<1>8. order \in Seq(S)
  BY <1>1, <1>2
<1> QED BY <1>7, <1>8

LEMMA RangeFinite ==
  ASSUME NEW S, NEW s \in Seq(S)
  PROVE  IsFiniteSet(RangeOf(s))
<1>1. s \in Seq(RangeOf(s)) /\ DOMAIN s = 1 .. Len(s)
  BY DEF RangeOf
<1>2. \A x \in RangeOf(s) : \E i \in 1 .. Len(s) : s[i] = x
  BY <1>1 DEF RangeOf
<1> QED BY <1>1, <1>2, Zenon DEF IsFiniteSet

(* Whatever the order of the name table, however many shards and in whatever
   order, and whatever the open document declares: a search gives the matches
   of the document, then the best of the index, none left out that ranks before
   one that is given, as many as the limit allows, and counts them all. *)
THEOREM SearchIsBest == Spec => []SearchFindsBest
<1>1. NavInv => SearchFindsBest
  <2> SUFFICES ASSUME NavInv, NEW query \in Queries, NEW live \in Lives PROVE
        LET shadowed == IF live = <<>> THEN {} ELSE {Open}
            Hits(defs) == {d \in defs : query # <<>> /\ Matches(ShortName[d.symbol], query)}
            liveHits == Selected(live, Hits(RangeOf(live)))
            indexed == {d \in Hits(RangeOf(index.definitions)) : d.path \notin shadowed}
            Worth(def) == RankedDefinition(def, query)
            names == {ShortName[d.symbol] : d \in Hits(RangeOf(index.definitions))}
        IN  \A order \in Orders(names) :
              LET found == WorkspaceSymbolWith(query, live, shadowed, order)
                  first == Min({Len(liveHits), SearchLimit})
                  rest == SubSeq(found.symbols, first + 1, Len(found.symbols))
              IN  /\ found.total = Len(liveHits) + Cardinality(indexed)
                  /\ Len(found.symbols) = Min({found.total, SearchLimit})
                  /\ SubSeq(found.symbols, 1, first) = SubSeq(liveHits, 1, first)
                  /\ RangeOf(rest) \subseteq indexed
                  /\ \A i, j \in DOMAIN rest : i < j => ~Less(Worth(rest[j]), Worth(rest[i]))
                  /\ \A kept \in RangeOf(rest) : \A other \in indexed \ RangeOf(rest) :
                       ~Less(Worth(other), Worth(kept))
    BY Zenon DEF SearchFindsBest
  <2> DEFINE shadowed == IF live = <<>> THEN {} ELSE {Open}
             defs == index.definitions
             Hits(some) == {d \in some : query # <<>> /\ Matches(ShortName[d.symbol], query)}
             liveHits == Selected(live, Hits(RangeOf(live)))
             indexed == {d \in Hits(RangeOf(defs)) : d.path \notin shadowed}
             Worth(def) == RankedDefinition(def, query)
             names == {ShortName[d.symbol] : d \in Hits(RangeOf(defs))}
             hits == HitsOf(RangeOf(defs), query, shadowed)
  <2>1. index \in Indexes /\ Holds(index, Seen)
    BY DEF NavInv
  <2>2. defs \in Seq(Declarations) /\ Distinct(defs)
    BY <2>1, IndexFields DEF Holds, SitesHold, Distinct
  <2>3. live \in Seq(Declarations) /\ SearchLimit \in Nat
    BY SearchAssumption
  <2>4. liveHits \in Seq(Declarations) /\ Len(liveHits) \in Nat
    BY <2>3, SelectedFacts
  <2>5. indexed = hits
    BY DEF HitsOf
  <2>6. IsFiniteSet(names)
    <3> DEFINE table == [i \in 1 .. Len(defs) |-> ShortName[defs[i].symbol]]
    <3>1. table \in Seq({ShortName[d.symbol] : d \in Declarations})
      <4>1. \A i \in 1 .. Len(defs) : defs[i] \in Declarations
        BY <2>2
      <4> QED BY <2>2, <4>1
    <3>2. names \subseteq RangeOf(table)
      <4>1. \A d \in RangeOf(defs) : \E i \in 1 .. Len(defs) : defs[i] = d
        BY <2>2 DEF RangeOf
      <4> QED BY <4>1 DEF RangeOf
    <3> HIDE DEF table, names
    <3>3. IsFiniteSet(RangeOf(table))
      BY <3>1, RangeFinite
    <3> QED BY <3>2, <3>3, FS_Subset, Zenon
  <2> SUFFICES ASSUME NEW order \in Orders(names) PROVE
        LET found == WorkspaceSymbolWith(query, live, shadowed, order)
            first == Min({Len(liveHits), SearchLimit})
            rest == SubSeq(found.symbols, first + 1, Len(found.symbols))
        IN  /\ found.total = Len(liveHits) + Cardinality(indexed)
            /\ Len(found.symbols) = Min({found.total, SearchLimit})
            /\ SubSeq(found.symbols, 1, first) = SubSeq(liveHits, 1, first)
            /\ RangeOf(rest) \subseteq indexed
            /\ \A i, j \in DOMAIN rest : i < j => ~Less(Worth(rest[j]), Worth(rest[i]))
            /\ \A kept \in RangeOf(rest) : \A other \in indexed \ RangeOf(rest) :
                 ~Less(Worth(other), Worth(kept))
    BY Zenon
  <2> DEFINE left == Max({0, SearchLimit - Len(liveHits)})
             searched == SearchLimited(index, query, left, shadowed, order)
             all == liveHits \o searched.results
             found == WorkspaceSymbolWith(query, live, shadowed, order)
             first == Min({Len(liveHits), SearchLimit})
             rest == SubSeq(found.symbols, first + 1, Len(found.symbols))
  <2>7. order \in Seq(names) /\ Distinct(order) /\ RangeOf(order) = names
    <3> HIDE DEF names
    <3>1. order \in [1 .. Cardinality(names) -> names] /\ RangeOf(order) = names
      BY DEF Orders
    <3> QED BY <2>6, <3>1, OrderOnce
  <2>8. \A d \in hits : ShortName[d.symbol] \in RangeOf(order)
    BY <2>7 DEF HitsOf
  <2>9. found = [symbols |-> SubSeq(all, 1, Min({Len(all), SearchLimit})),
                 total |-> Len(liveHits) + searched.total]
    BY Zenon DEF WorkspaceSymbolWith
  <2> HIDE DEF shadowed, liveHits, indexed, names, Hits, found
  <2>10. left = Room(Len(liveHits), SearchLimit)
         /\ left \in Nat
    <3>1. left = Room(Len(liveHits), SearchLimit)
      BY <2>3, <2>4, WhatIsLeft
    <3> HIDE DEF left
    <3> QED BY <2>3, <2>4, <3>1 DEF Room
  <2> HIDE DEF left
  <2>11. /\ Cardinality(hits) \in Nat /\ searched.total = Cardinality(hits)
         /\ IsBest(searched.results, hits, query, left)
    BY <2>2, <2>7, <2>8, <2>10, SearchLimitedFacts
  <2> DEFINE results == searched.results
             page == SubSeq(liveHits \o results, 1, Min({Len(liveHits \o results), SearchLimit}))
  <2> HIDE DEF hits, searched
  <2>12. /\ results \in Seq(Declarations) /\ Len(results) = Fewer(Cardinality(hits), left)
         /\ RangeOf(results) \subseteq hits
         /\ \A i, j \in DOMAIN results : i < j => ~Less(Worth(results[j]), Worth(results[i]))
         /\ \A kept \in RangeOf(results) : \A other \in hits \ RangeOf(results) :
              ~Less(Worth(other), Worth(kept))
    BY <2>11, Zenon DEF IsBest
  <2>13. found.symbols = page /\ found.total = Len(liveHits) + Cardinality(hits)
    BY <2>9, <2>11
  <2> HIDE DEF Worth
  <2> HIDE DEF results
  <2>14. Len(results) <= Room(Len(liveHits), SearchLimit)
    BY <2>10, <2>11, <2>12 DEF Fewer
  <2>15. /\ Len(page) = first + Len(results)
         /\ first = Fewer(Len(liveHits), SearchLimit)
         /\ SubSeq(page, 1, first) = SubSeq(liveHits, 1, first)
         /\ SubSeq(page, first + 1, Len(page)) = results
    <3>1. liveHits \in Seq(Declarations) /\ results \in Seq(Declarations) /\ SearchLimit \in Nat
      BY <2>3, <2>4, <2>12
    <3>2. IsPage(page, first, liveHits, results, SearchLimit)
      BY <2>14, <3>1, PageFacts
    <3> HIDE DEF page, first
    <3> QED BY <3>2, Zenon DEF IsPage
  <2> HIDE DEF page, first
  <2>16. rest = results
    BY <2>13, <2>15
  <2>17. Min({found.total, SearchLimit})
           = IF found.total <= SearchLimit THEN found.total ELSE SearchLimit
    BY <2>3, <2>4, <2>11, <2>13, SmallerOf
  <2>18. Len(page) = IF found.total <= SearchLimit THEN found.total ELSE SearchLimit
    BY <2>3, <2>4, <2>10, <2>11, <2>12, <2>13, <2>15 DEF Fewer, Room
  <2>19. Len(found.symbols) = Min({found.total, SearchLimit})
    BY <2>13, <2>17, <2>18
  <2> HIDE DEF rest
  <2> QED BY <2>5, <2>12, <2>13, <2>15, <2>16, <2>19, Zenon DEF rest, first, found
<1> QED BY <1>1, InitNavInv, StepNavInv, PTL DEF Spec

=============================================================================
