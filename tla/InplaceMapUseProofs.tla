------------------------ MODULE InplaceMapUseProofs ------------------------
(***************************************************************************)
(* For any capacity, any keys and any number of maps: the two arrays stay  *)
(* parallel and, when hints stand where they may, the keys ascend and the  *)
(* map implements FiniteMap.                                               *)
(***************************************************************************)
EXTENDS InplaceMapUse, FiniteSetTheorems, SequenceTheorems, WellFoundedInduction, TLAPS

Ascends(s) == \A i, j \in 1 .. Len(s) : i < j => s[i] < s[j]

\* A map in use, and one that was moved from.
Sound(m) ==
  /\ m \in [keys : Seq(Keys), values : Seq(Values)]
  /\ Len(m.values) = Len(m.keys) /\ Len(m.keys) <= N
  /\ ~AnyHint => Ascends(m.keys)

GivenAway(m) ==
  /\ m \in [keys : Seq({Moved}), values : Seq({Moved})]
  /\ Len(m.values) = Len(m.keys) /\ Len(m.keys) \in 1 .. N

Codes == {"None", "Success", "AlreadyExists", "Full", "True", "False", "One", "Nil"}

\* What a method on one map may leave and return.
Fine(r) == Sound(r.map) /\ r.code \in Codes /\ r.at \in -1 .. Size(r.map)

-----------------------------------------------------------------------------
(* Numbers and sequences.                                                  *)

\* The least number principle.
LEMMA LeastNumber ==
  ASSUME NEW S, S \subseteq Nat, S # {}
  PROVE  \E n \in S : \A k \in S : n <= k
<1> DEFINE R == OpToRel(<, Nat)
<1>1. IsWellFoundedOn(R, Nat)
  BY NatLessThanWellFounded
<1>2. \A k, n \in Nat : <<k, n>> \in R <=> k < n
  BY DEF OpToRel
<1> HIDE DEF R
<1>3. \E n \in S : \A k \in S : ~ (<<k, n>> \in R)
  BY <1>1, WFMin
<1>4. PICK n \in S : \A k \in S : ~ (<<k, n>> \in R)
  BY <1>3
<1>5. \A k \in S : n <= k
  <2> TAKE k \in S
  <2>1. k \in Nat /\ n \in Nat
    OBVIOUS
  <2>2. ~(k < n)
    BY <1>2, <1>4, <2>1
  <2> QED
    BY <2>1, <2>2
<1> QED
  BY <1>5

LEMMA MinIs ==
  ASSUME NEW S, S \subseteq Int, NEW n \in S, \A k \in S : n <= k
  PROVE  Min(S) = n
<1>1. Min(S) \in S /\ \A k \in S : Min(S) <= k
  BY DEF Min
<1>2. Min(S) \in Int /\ n \in Int /\ Min(S) <= n /\ n <= Min(S)
  BY <1>1
<1> QED
  BY <1>2

\* A finite set of numbers has a greatest one.
LEMMA Bounded ==
  \A S : S \subseteq Nat /\ IsFiniteSet(S) => \E n \in Nat : \A k \in S : k <= n
<1> DEFINE B(S) == \E n \in Nat : \A k \in S : k <= n
           Bad == {c \in Nat : \E S : /\ S \subseteq Nat /\ IsFiniteSet(S)
                                      /\ Cardinality(S) = c /\ ~B(S)}
<1>1. SUFFICES ASSUME Bad # {}
               PROVE  FALSE
  BY FS_CardinalityType
<1>2. PICK c \in Bad : \A d \in Bad : c <= d
  BY <1>1, LeastNumber
<1>3. PICK S : /\ S \subseteq Nat /\ IsFiniteSet(S)
               /\ Cardinality(S) = c /\ ~B(S)
  BY <1>2
<1>4. S # {}
  BY <1>3
<1>5. PICK s \in S : TRUE
  BY <1>4
<1>6. /\ IsFiniteSet(S \ {s}) /\ Cardinality(S \ {s}) = c - 1
      /\ S \ {s} \subseteq Nat
  BY <1>3, <1>5, FS_RemoveElement
<1>7. c - 1 \in Nat
  BY <1>6, FS_CardinalityType
<1>8. B(S \ {s})
  <2>1. c - 1 \notin Bad
    <3>1. c \in Nat
      BY <1>2
    <3> HIDE DEF Bad
    <3> QED BY <1>2, <3>1
  <2> QED BY <2>1, <1>6, <1>7
<1>9. PICK n \in Nat : \A k \in S \ {s} : k <= n
  BY <1>8
<1>10. s \in Nat
  BY <1>3, <1>5
<1>11. CASE n <= s
  <2>1. \A k \in S : k <= s
    BY <1>3, <1>9, <1>10, <1>11
  <2> QED BY <2>1, <1>3, <1>10
<1>12. CASE s <= n
  <2>1. \A k \in S : k <= n
    BY <1>3, <1>9, <1>10, <1>12
  <2> QED BY <2>1, <1>3
<1> QED
  BY <1>10, <1>11, <1>12

\* End is greater than every key.
LEMMA EndIsLast == End \in Int /\ \A k \in Keys : k < End
<1> DEFINE U == {n \in Nat : \A k \in Keys : k <= n}
<1>1. U # {}
  BY Bounded, MapAssumption
<1>2. PICK n \in U : \A k \in U : n <= k
  BY <1>1, LeastNumber
<1>3. n \in Keys
  <2> SUFFICES ASSUME n \notin Keys
               PROVE  FALSE
    OBVIOUS
  <2>1. PICK k \in Keys : TRUE
    BY MapAssumption
  <2>2. \A j \in Keys : j \in Nat /\ j <= n /\ j # n
    BY <1>2, MapAssumption
  <2>3. n \in Nat
    BY <1>2
  <2>4. n - 1 \in Nat
    BY <2>1, <2>2, <2>3
  <2>5. n - 1 \in U
    BY <2>2, <2>3, <2>4
  <2> HIDE DEF U
  <2> QED BY <2>5, <1>2, <2>3
<1>4. n \in Nat /\ \A k \in Keys : n >= k /\ k \in Nat
  BY <1>2, MapAssumption
<1>5. Max(Keys) \in Keys /\ \A k \in Keys : Max(Keys) >= k
  BY <1>3, <1>4 DEF Max
<1> QED
  BY <1>4, <1>5 DEF End

LEMMA PutSeq ==
  ASSUME NEW S, NEW s \in Seq(S), NEW idx \in 0 .. Len(s), NEW item \in S
  PROVE  /\ Put(s, idx, item) \in Seq(S)
         /\ Len(Put(s, idx, item)) = Len(s) + 1
         /\ \A k \in 1 .. Len(s) + 1 :
              Put(s, idx, item)[k] =
                IF k <= idx THEN s[k] ELSE IF k = idx + 1 THEN item ELSE s[k - 1]
<1> DEFINE a == SubSeq(s, 1, idx)
           b == SubSeq(s, idx + 1, Len(s))
<1>1. Len(s) \in Nat /\ idx \in Nat /\ idx <= Len(s)
  OBVIOUS
<1>2. /\ a \in Seq(S) /\ Len(a) = idx /\ \A k \in 1 .. idx : a[k] = s[k]
      /\ b \in Seq(S) /\ Len(b) = Len(s) - idx
      /\ \A k \in 1 .. Len(s) - idx : b[k] = s[idx + k]
  <2>1. \A k \in 1 .. Len(s) : s[k] \in S
    BY ElementOfSeq
  <2>2. \A k \in 1 .. idx : s[k] \in S
    BY <1>1, <2>1
  <2>3. \A k \in idx + 1 .. Len(s) : s[k] \in S
    BY <1>1, <2>1
  <2>4. /\ a \in Seq(S) /\ Len(a) = idx /\ \A k \in 1 .. idx : a[k] = s[k]
    <3>1. /\ a \in Seq(S) /\ Len(a) = (IF 1 <= idx THEN idx - 1 + 1 ELSE 0)
          /\ \A k \in 1 .. idx - 1 + 1 : a[k] = s[1 + k - 1]
      BY <2>2, <1>1, SubSeqProperties
    <3> HIDE DEF a
    <3> QED BY <3>1, <1>1
  <2>5. /\ b \in Seq(S)
        /\ Len(b) = (IF idx + 1 <= Len(s) THEN Len(s) - (idx + 1) + 1 ELSE 0)
        /\ \A k \in 1 .. Len(s) - (idx + 1) + 1 : b[k] = s[(idx + 1) + k - 1]
    BY <2>3, <1>1, SubSeqProperties
  <2> HIDE DEF a, b
  <2> QED BY <2>4, <2>5, <1>1
<1>3. Put(s, idx, item) = (a \o <<item>>) \o b
  <2>1. (idx + 1) - 1 = idx
    BY <1>1
  <2>2. Put(s, idx, item) =
          (SubSeq(s, 1, (idx + 1) - 1) \o <<item>>) \o SubSeq(s, idx + 1, Len(s))
    BY DEF Put, InsertAt
  <2> QED BY <2>1, <2>2, Zenon
<1> HIDE DEF a, b
<1>4. <<item>> \in Seq(S) /\ Len(<<item>>) = 1 /\ <<item>>[1] = item
  OBVIOUS
<1>5. /\ a \o <<item>> \in Seq(S) /\ Len(a \o <<item>>) = idx + 1
      /\ \A k \in 1 .. idx + 1 : (a \o <<item>>)[k] = IF k <= idx THEN a[k] ELSE item
  <2>1. /\ a \o <<item>> \in Seq(S) /\ Len(a \o <<item>>) = Len(a) + Len(<<item>>)
        /\ \A k \in 1 .. Len(a) + Len(<<item>>) : (a \o <<item>>)[k] =
             IF k <= Len(a) THEN a[k] ELSE <<item>>[k - Len(a)]
    BY <1>2, <1>4, ConcatProperties
  <2>2. Len(a) + Len(<<item>>) = idx + 1
    BY <1>2, <1>4
  <2>3. ASSUME NEW k \in 1 .. idx + 1
        PROVE  (a \o <<item>>)[k] = IF k <= idx THEN a[k] ELSE item
    <3>1. (a \o <<item>>)[k] = IF k <= idx THEN a[k] ELSE <<item>>[k - idx]
      BY <2>1, <2>2, <1>2, Zenon
    <3>2. k <= idx \/ k - idx = 1
      BY <1>1
    <3> QED BY <3>1, <3>2, <1>4
  <2> QED BY <2>1, <2>2, <2>3, Zenon
<1> DEFINE c == a \o <<item>>
<1>6. /\ c \o b \in Seq(S) /\ Len(c \o b) = Len(c) + Len(b)
      /\ \A k \in 1 .. Len(c) + Len(b) :
           (c \o b)[k] = IF k <= Len(c) THEN c[k] ELSE b[k - Len(c)]
  BY <1>2, <1>5, ConcatProperties
<1> HIDE DEF c
<1>7. ASSUME NEW k \in 1 .. Len(s) + 1
      PROVE  (c \o b)[k] =
               IF k <= idx THEN s[k] ELSE IF k = idx + 1 THEN item ELSE s[k - 1]
  <2>1. Len(c) = idx + 1 /\ \A i \in 1 .. idx + 1 : c[i] = IF i <= idx THEN a[i] ELSE item
    BY <1>5 DEF c
  <2>2. CASE k <= idx
    BY <2>1, <2>2, <1>6, <1>2, <1>1
  <2>3. CASE k = idx + 1
    BY <2>1, <2>3, <1>6, <1>2, <1>1
  <2>4. CASE k > idx + 1
    <3>1. k - (idx + 1) \in 1 .. Len(s) - idx
      BY <2>4, <1>1
    <3>2. b[k - (idx + 1)] = s[idx + (k - (idx + 1))]
      BY <3>1, <1>2
    <3> QED BY <3>1, <3>2, <2>1, <2>4, <1>6, <1>2, <1>1
  <2>5. k <= idx \/ k = idx + 1 \/ k > idx + 1
    BY <1>1
  <2> QED BY <2>2, <2>3, <2>4, <2>5, Zenon
<1> QED
  BY <1>3, <1>5, <1>6, <1>7, <1>2, <1>1 DEF c

LEMMA CutSeq ==
  ASSUME NEW S, NEW s \in Seq(S), NEW i \in 0 .. Len(s), NEW j \in i .. Len(s)
  PROVE  /\ Cut(s, i, j) \in Seq(S)
         /\ Len(Cut(s, i, j)) = Len(s) - (j - i)
         /\ \A k \in 1 .. Len(s) - (j - i) :
              Cut(s, i, j)[k] = IF k <= i THEN s[k] ELSE s[k + (j - i)]
<1> DEFINE a == SubSeq(s, 1, i)
           b == SubSeq(s, j + 1, Len(s))
<1>1. Len(s) \in Nat /\ i \in Nat /\ j \in Nat /\ i <= j /\ j <= Len(s)
  OBVIOUS
<1>2. /\ a \in Seq(S) /\ Len(a) = i /\ \A k \in 1 .. i : a[k] = s[k]
      /\ b \in Seq(S) /\ Len(b) = Len(s) - j
      /\ \A k \in 1 .. Len(s) - j : b[k] = s[j + k]
  <2>1. \A k \in 1 .. Len(s) : s[k] \in S
    BY ElementOfSeq
  <2>2. \A k \in 1 .. i : s[k] \in S
    BY <1>1, <2>1
  <2>3. \A k \in j + 1 .. Len(s) : s[k] \in S
    BY <1>1, <2>1
  <2>4. /\ a \in Seq(S) /\ Len(a) = i /\ \A k \in 1 .. i : a[k] = s[k]
    <3>1. /\ a \in Seq(S) /\ Len(a) = (IF 1 <= i THEN i - 1 + 1 ELSE 0)
          /\ \A k \in 1 .. i - 1 + 1 : a[k] = s[1 + k - 1]
      BY <2>2, <1>1, SubSeqProperties
    <3> HIDE DEF a
    <3> QED BY <3>1, <1>1
  <2>5. /\ b \in Seq(S)
        /\ Len(b) = (IF j + 1 <= Len(s) THEN Len(s) - (j + 1) + 1 ELSE 0)
        /\ \A k \in 1 .. Len(s) - (j + 1) + 1 : b[k] = s[(j + 1) + k - 1]
    BY <2>3, <1>1, SubSeqProperties
  <2> HIDE DEF a, b
  <2> QED BY <2>4, <2>5, <1>1
<1>3. Cut(s, i, j) = a \o b
  BY DEF Cut
<1> HIDE DEF a, b
<1>4. /\ a \o b \in Seq(S) /\ Len(a \o b) = Len(a) + Len(b)
      /\ \A k \in 1 .. Len(a) + Len(b) :
           (a \o b)[k] = IF k <= Len(a) THEN a[k] ELSE b[k - Len(a)]
  BY <1>2, ConcatProperties
<1>5. ASSUME NEW k \in 1 .. Len(s) - (j - i)
      PROVE  (a \o b)[k] = IF k <= i THEN s[k] ELSE s[k + (j - i)]
  <2>1. CASE k <= i
    BY <2>1, <1>1, <1>2, <1>4
  <2>2. CASE k > i
    <3>1. k - i \in 1 .. Len(s) - j
      BY <2>2, <1>1
    <3>2. b[k - i] = s[j + (k - i)]
      BY <3>1, <1>2
    <3>3. j + (k - i) = k + (j - i)
      BY <1>1
    <3> QED BY <3>1, <3>2, <3>3, <2>2, <1>1, <1>2, <1>4
  <2>3. k <= i \/ k > i
    BY <1>1
  <2> QED BY <2>1, <2>2, <2>3, Zenon
<1> QED
  BY <1>3, <1>4, <1>5, <1>2, <1>1

-----------------------------------------------------------------------------
(* Finding a key.                                                          *)

LEMMA SoundFacts ==
  ASSUME NEW m, Sound(m)
  PROVE  /\ m = [keys |-> m.keys, values |-> m.values]
         /\ m.keys \in Seq(Keys) /\ m.values \in Seq(Values)
         /\ Size(m) \in 0 .. N /\ Size(m) = Len(m.keys) /\ Len(m.values) = Size(m)
         /\ N \in Nat /\ Keys \subseteq Nat
         /\ \A i \in 1 .. Size(m) : /\ m.keys[i] \in Keys /\ m.keys[i] \in Nat
                                    /\ m.values[i] \in Values
<1>1. m.keys \in Seq(Keys) /\ m.values \in Seq(Values) /\ Len(m.values) = Len(m.keys)
  BY DEF Sound
<1>2. Len(m.keys) \in Nat
  BY <1>1
<1>3. \A i \in 1 .. Len(m.keys) : m.keys[i] \in Keys /\ m.values[i] \in Values
  BY <1>1, ElementOfSeq
<1>4. /\ m = [keys |-> m.keys, values |-> m.values]
      /\ Len(m.keys) <= N /\ N \in Nat /\ Keys \subseteq Nat
  BY MapAssumption DEF Sound
<1>5. Size(m) = Len(m.keys)
  BY DEF Size
<1> HIDE DEF Sound
<1> QED
  BY <1>1, <1>2, <1>3, <1>4, <1>5

LEMMA LowerBoundIs ==
  ASSUME NEW m, Sound(m), NEW key \in Keys
  PROVE  /\ LowerBound(m, key) \in 0 .. Size(m)
         /\ \A i \in 1 .. LowerBound(m, key) : m.keys[i] < key
         /\ LowerBound(m, key) < Size(m) => ~(m.keys[LowerBound(m, key) + 1] < key)
<1> DEFINE J == {i \in 1 .. Len(m.keys) : ~(m.keys[i] < key)}
           first == IF J # {} THEN Min(J) ELSE 0
<1>1. LowerBound(m, key) = IF first = 0 THEN Size(m) ELSE first - 1
  BY DEF LowerBound, SelectInSeq
<1>2. Len(m.keys) \in Nat /\ Size(m) = Len(m.keys)
  BY SoundFacts DEF Size
<1>3. CASE J = {}
  BY <1>1, <1>2, <1>3
<1>4. CASE J # {}
  <2>1. J \subseteq Nat
    OBVIOUS
  <2>2. PICK n \in J : \A k \in J : n <= k
    BY <1>4, <2>1, LeastNumber
  <2>3. Min(J) = n
    <3>1. J \subseteq Int
      BY <2>1
    <3> HIDE DEF J
    <3> QED BY <2>2, <3>1, MinIs
  <2>4. n \in 1 .. Len(m.keys) /\ ~(m.keys[n] < key)
    OBVIOUS
  <2>5. ASSUME NEW i \in 1 .. n - 1
        PROVE  m.keys[i] < key
    <3>1. i \in 1 .. Len(m.keys) /\ ~(n <= i)
      BY <2>4, <1>2
    <3>2. i \notin J
      BY <2>2, <3>1
    <3> QED BY <3>1, <3>2
  <2>6. LowerBound(m, key) = n - 1
    BY <1>1, <1>4, <2>3, <2>4
  <2> HIDE DEF J
  <2> QED
    BY <2>4, <2>5, <2>6, <1>2
<1> QED
  BY <1>3, <1>4

\* In an ascending map the keys from there on are not less.
LEMMA Bounds ==
  ASSUME NEW m, Sound(m), ~AnyHint, NEW key \in Keys
  PROVE  /\ \A i \in 1 .. Size(m) : i <= LowerBound(m, key) <=> m.keys[i] < key
         /\ IsKeyAt(m, LowerBound(m, key), key) <=>
              \E i \in 1 .. Size(m) : m.keys[i] = key
         /\ IsKeyAt(m, LowerBound(m, key), key) =>
              /\ LowerBound(m, key) \in 0 .. Size(m) - 1
              /\ m.keys[LowerBound(m, key) + 1] = key
              /\ \A i \in 1 .. Size(m) : i > LowerBound(m, key) + 1 => key < m.keys[i]
<1> DEFINE L == LowerBound(m, key)
<1>1. /\ L \in 0 .. Size(m) /\ \A i \in 1 .. L : m.keys[i] < key
      /\ L < Size(m) => ~(m.keys[L + 1] < key)
  BY LowerBoundIs
<1>2. /\ Size(m) \in Nat /\ key \in Nat /\ \A i \in 1 .. Size(m) : m.keys[i] \in Nat
      /\ \A i, j \in 1 .. Size(m) : i < j => m.keys[i] < m.keys[j]
  BY SoundFacts DEF Sound, Ascends
<1>3. IsKeyAt(m, L, key) <=> L < Size(m) /\ ~(key < m.keys[L + 1])
  BY DEF IsKeyAt, KeyAt
<1> HIDE DEF L
<1>4. ASSUME NEW i \in 1 .. Size(m), i > L
      PROVE  ~(m.keys[i] < key) /\ (i > L + 1 => m.keys[L + 1] < m.keys[i])
  <2>1. L + 1 \in 1 .. Size(m) /\ L < Size(m)
    BY <1>1, <1>2, <1>4
  <2>2. i = L + 1 \/ L + 1 < i
    BY <1>1, <1>2, <1>4
  <2> QED BY <2>1, <2>2, <1>1, <1>2
<1>5. \A i \in 1 .. Size(m) : i <= L <=> m.keys[i] < key
  BY <1>1, <1>2, <1>4
<1>6. IsKeyAt(m, L, key) => /\ L \in 0 .. Size(m) - 1 /\ m.keys[L + 1] = key
                            /\ \A i \in 1 .. Size(m) : i > L + 1 => key < m.keys[i]
  <2>1. SUFFICES ASSUME IsKeyAt(m, L, key)
                 PROVE  /\ L \in 0 .. Size(m) - 1 /\ m.keys[L + 1] = key
                        /\ \A i \in 1 .. Size(m) : i > L + 1 => key < m.keys[i]
    OBVIOUS
  <2>2. L + 1 \in 1 .. Size(m) /\ L \in 0 .. Size(m) - 1
    BY <2>1, <1>1, <1>2, <1>3
  <2>3. m.keys[L + 1] = key
    BY <2>1, <2>2, <1>1, <1>2, <1>3
  <2> QED BY <2>2, <2>3, <1>1, <1>2, <1>4
<1>7. ASSUME NEW i \in 1 .. Size(m), m.keys[i] = key
      PROVE  IsKeyAt(m, L, key)
  <2>1. i > L /\ L + 1 \in 1 .. Size(m)
    BY <1>1, <1>2, <1>5, <1>7
  <2>2. i = L + 1 \/ i > L + 1
    BY <2>1, <1>1, <1>2
  <2>3. m.keys[L + 1] <= key
    BY <2>1, <2>2, <1>2, <1>4, <1>7
  <2> QED BY <2>1, <2>3, <1>1, <1>2, <1>3
<1>8. IsKeyAt(m, L, key) <=> \E i \in 1 .. Size(m) : m.keys[i] = key
  <2>1. ASSUME IsKeyAt(m, L, key)
        PROVE  L + 1 \in 1 .. Size(m) /\ m.keys[L + 1] = key
    BY <2>1, <1>6, <1>2
  <2> QED BY <2>1, <1>7
<1> QED
  BY <1>5, <1>6, <1>8 DEF L

-----------------------------------------------------------------------------
(* The function that a map stands for.                                     *)

LEMMA FunctionIs ==
  ASSUME NEW m, Sound(m), ~AnyHint
  PROVE  /\ FunctionOf(m) = [key \in DOMAIN FunctionOf(m) |-> FunctionOf(m)[key]]
         /\ DOMAIN FunctionOf(m) = {m.keys[i] : i \in 1 .. Size(m)}
         /\ \A i \in 1 .. Size(m) : FunctionOf(m)[m.keys[i]] = m.values[i]
<1>1. DOMAIN m.keys = 1 .. Size(m)
  BY SoundFacts
<1>2. ToSet(m.keys) = {m.keys[i] : i \in 1 .. Size(m)}
  BY <1>1 DEF ToSet
<1>3. ASSUME NEW i \in 1 .. Size(m)
      PROVE  FunctionOf(m)[m.keys[i]] = m.values[i]
  <2> DEFINE J == {j \in 1 .. Len(m.keys) : m.keys[j] = m.keys[i]}
  <2>1. J = {i}
    <3>1. \A j \in 1 .. Size(m) : m.keys[j] \in Nat /\ (i < j => m.keys[i] < m.keys[j])
                                  /\ (j < i => m.keys[j] < m.keys[i])
      BY SoundFacts DEF Sound, Ascends
    <3>2. \A j \in 1 .. Size(m) : m.keys[j] = m.keys[i] => j = i
      BY <3>1, SoundFacts
    <3> QED BY <3>2, SoundFacts
  <2>2. m.keys[i] \in ToSet(m.keys)
    BY <1>2
  <2>3. FunctionOf(m)[m.keys[i]] = m.values[IF J # {} THEN Min(J) ELSE 0]
    BY <2>2 DEF FunctionOf, SelectInSeq
  <2>4. Min({i}) = i
    BY MinIs
  <2> QED BY <2>1, <2>3, <2>4
<1>4. /\ DOMAIN FunctionOf(m) = ToSet(m.keys)
      /\ FunctionOf(m) = [key \in DOMAIN FunctionOf(m) |-> FunctionOf(m)[key]]
  BY DEF FunctionOf
<1> QED
  BY <1>2, <1>3, <1>4

LEMMA IsFunctionOf ==
  ASSUME NEW m, Sound(m), ~AnyHint, NEW f, f = [key \in DOMAIN f |-> f[key]],
         DOMAIN f = {m.keys[i] : i \in 1 .. Size(m)},
         \A i \in 1 .. Size(m) : f[m.keys[i]] = m.values[i]
  PROVE  FunctionOf(m) = f
<1> DEFINE g == FunctionOf(m)
<1>1. /\ g = [key \in DOMAIN g |-> g[key]] /\ DOMAIN g = DOMAIN f
      /\ \A i \in 1 .. Size(m) : g[m.keys[i]] = m.values[i]
  BY FunctionIs
<1> HIDE DEF g
<1>2. \A key \in DOMAIN f : f[key] = g[key]
  BY <1>1
<1> QED
  BY <1>1, <1>2 DEF g

LEMMA SizeIs ==
  ASSUME NEW m, Sound(m), ~AnyHint
  PROVE  Cardinality(DOMAIN FunctionOf(m)) = Size(m)
<1> DEFINE S == 1 .. Size(m)
           T == {m.keys[i] : i \in S}
           B == [i \in S |-> m.keys[i]]
<1>1. ASSUME NEW i \in S, NEW j \in S, m.keys[i] = m.keys[j]
      PROVE  i = j
  <2>1. m.keys[i] \in Nat /\ m.keys[j] \in Nat /\ i \in Nat /\ j \in Nat
    BY SoundFacts
  <2>2. (i < j => m.keys[i] < m.keys[j]) /\ (j < i => m.keys[j] < m.keys[i])
    BY SoundFacts DEF Sound, Ascends
  <2> QED BY <1>1, <2>1, <2>2
<1>2. Size(m) \in Nat
  BY SoundFacts
<1>3. B \in Bijection(S, T)
  BY <1>1 DEF Bijection, Injection, Surjection, IsInjective
<1>4. Cardinality(T) = Size(m)
  <2> HIDE DEF T, B
  <2>1. ExistsBijection(S, T)
    BY <1>3 DEF ExistsBijection
  <2> QED BY <1>2, <2>1, FS_CountingElements
<1> QED
  BY <1>4, FunctionIs

LEMMA NewMapIs ==
  /\ Sound(NewMap) /\ Size(NewMap) = 0
  /\ ~AnyHint => FunctionOf(NewMap) = FM!Empty
<1>1. Sound(NewMap) /\ Size(NewMap) = 0
  BY MapAssumption DEF Sound, NewMap, Size, Ascends
<1>2. ASSUME ~AnyHint
      PROVE  FunctionOf(NewMap) = FM!Empty
  <2> DEFINE f == FM!Empty
  <2>1. f = [key \in DOMAIN f |-> f[key]] /\ DOMAIN f = {}
    BY DEF FM!Empty
  <2> HIDE DEF f
  <2>2. {NewMap.keys[i] : i \in 1 .. Size(NewMap)} = {}
    BY <1>1
  <2>3. \A i \in 1 .. Size(NewMap) : f[NewMap.keys[i]] = NewMap.values[i]
    BY <1>1
  <2> QED BY <2>1, <2>2, <2>3, <1>1, <1>2, IsFunctionOf DEF f
<1> QED
  BY <1>1, <1>2

-----------------------------------------------------------------------------
(* Iterators.                                                              *)

LEMMA KeyOfIs ==
  ASSUME NEW m, Sound(m)
  PROVE  /\ KeyOf(m, None) = None
         /\ KeyOf(m, Size(m)) = End
         /\ \A at \in 0 .. Size(m) - 1 : KeyOf(m, at) = m.keys[at + 1]
<1>1. Size(m) \in Nat /\ None = -1
  BY SoundFacts DEF None
<1>2. \A at \in 0 .. Size(m) : at # None
  BY <1>1
<1>3. \A at \in 0 .. Size(m) - 1 : at # Size(m) /\ at \in 0 .. Size(m)
  BY <1>1
<1>4. Size(m) # None
  BY <1>1
<1>5. \A at : KeyOf(m, at) =
        IF at = None THEN None ELSE IF at = Size(m) THEN End ELSE m.keys[at + 1]
  BY DEF KeyOf, KeyAt
<1> QED
  BY <1>2, <1>3, <1>4, <1>5, Zenon

\* An iterator stands at a key that is not greater than those from there on.
LEMMA StandsAt ==
  ASSUME NEW m, Sound(m), ~AnyHint, NEW at \in 0 .. Size(m), NEW i \in 1 .. Size(m)
  PROVE  at < i <=> KeyOf(m, at) <= m.keys[i]
<1>1. /\ Size(m) \in Nat /\ \A j \in 1 .. Size(m) : m.keys[j] \in Nat /\ m.keys[j] \in Keys
      /\ \A j, k \in 1 .. Size(m) : j < k => m.keys[j] < m.keys[k]
  BY SoundFacts DEF Sound, Ascends
<1>2. CASE at = Size(m)
  BY <1>1, <1>2, KeyOfIs, EndIsLast
<1>3. CASE at # Size(m)
  <2>1. at \in 0 .. Size(m) - 1 /\ at + 1 \in 1 .. Size(m)
    BY <1>1, <1>3
  <2>2. KeyOf(m, at) = m.keys[at + 1]
    BY <2>1, KeyOfIs
  <2>3. i < at + 1 \/ i = at + 1 \/ at + 1 < i
    BY <2>1
  <2>4. CASE i < at + 1
    BY <1>1, <2>1, <2>2, <2>4
  <2>5. CASE i = at + 1
    BY <1>1, <2>1, <2>2, <2>5
  <2>6. CASE at + 1 < i
    BY <1>1, <2>1, <2>2, <2>6
  <2> QED BY <2>3, <2>4, <2>5, <2>6
<1> QED
  BY <1>2, <1>3

LEMMA Known ==
  ASSUME NEW m, Sound(m), ~AnyHint, NEW key \in Keys
  PROVE  key \in DOMAIN FunctionOf(m) <=> IsKeyAt(m, LowerBound(m, key), key)
<1>1. DOMAIN FunctionOf(m) = {m.keys[i] : i \in 1 .. Size(m)}
  BY FunctionIs
<1>2. IsKeyAt(m, LowerBound(m, key), key) <=> \E i \in 1 .. Size(m) : m.keys[i] = key
  BY Bounds
<1> QED
  BY <1>1, <1>2

\* find(), at(), lowerBound() and upperBound() stand where FiniteMap says.
LEMMA Lookups ==
  ASSUME NEW m, Sound(m), NEW key \in Keys
  PROVE  /\ Find(m, key) \in 0 .. Size(m)
         /\ At(m, key) \in -1 .. Size(m)
         /\ LowerBound(m, key) \in 0 .. Size(m)
         /\ UpperBound(m, key) \in 0 .. Size(m)
         /\ ~AnyHint =>
              LET f == FunctionOf(m)
              IN  /\ KeyOf(m, Find(m, key)) = IF key \in DOMAIN f THEN key ELSE End
                  /\ KeyOf(m, At(m, key)) = IF key \in DOMAIN f THEN key ELSE None
                  /\ KeyOf(m, LowerBound(m, key)) = FM!CeilingKey(f, key)
                  /\ KeyOf(m, UpperBound(m, key)) = FM!HigherKey(f, key)
<1> DEFINE L == LowerBound(m, key)
           f == FunctionOf(m)
<1>1. Size(m) \in Nat /\ L \in 0 .. Size(m) /\ None = -1
  BY SoundFacts, LowerBoundIs DEF None
<1>2. IsKeyAt(m, L, key) => L < Size(m)
  BY DEF IsKeyAt
<1>3. /\ Find(m, key) = IF IsKeyAt(m, L, key) THEN L ELSE Size(m)
      /\ UpperBound(m, key) = IF IsKeyAt(m, L, key) THEN L + 1 ELSE L
      /\ At(m, key) = IF Find(m, key) = Size(m) THEN None ELSE Find(m, key)
  BY DEF Find, UpperBound, At
<1> HIDE DEF L
<1>4. /\ Find(m, key) \in 0 .. Size(m) /\ At(m, key) \in -1 .. Size(m)
      /\ L \in 0 .. Size(m) /\ UpperBound(m, key) \in 0 .. Size(m)
  BY <1>1, <1>2, <1>3
<1>5. ASSUME ~AnyHint
      PROVE  /\ KeyOf(m, Find(m, key)) = IF key \in DOMAIN f THEN key ELSE End
             /\ KeyOf(m, At(m, key)) = IF key \in DOMAIN f THEN key ELSE None
             /\ KeyOf(m, L) = FM!CeilingKey(f, key)
             /\ KeyOf(m, UpperBound(m, key)) = FM!HigherKey(f, key)
  <2>1. key \in DOMAIN f <=> IsKeyAt(m, L, key)
    BY <1>5, Known DEF L
  <2>2. IsKeyAt(m, L, key) => KeyOf(m, L) = key /\ L \in 0 .. Size(m) - 1
    <3>1. SUFFICES ASSUME IsKeyAt(m, L, key)
                   PROVE  KeyOf(m, L) = key /\ L \in 0 .. Size(m) - 1
      OBVIOUS
    <3>2. L \in 0 .. Size(m) - 1 /\ m.keys[L + 1] = key
      BY <1>5, <3>1, Bounds DEF L
    <3> QED BY <3>2, KeyOfIs
  <2>3. KeyOf(m, Size(m)) = End /\ KeyOf(m, None) = None
    BY KeyOfIs
  <2>4. DOMAIN f = {m.keys[i] : i \in 1 .. Size(m)}
    BY <1>5, FunctionIs
  <2>5. /\ key \in Int /\ End \in Int /\ key < End
        /\ \A i \in 1 .. Size(m) : m.keys[i] \in Int /\ m.keys[i] < End
    BY SoundFacts, EndIsLast
  <2>6. \A at \in 0 .. Size(m) :
          KeyOf(m, at) \in DOMAIN f \cup {End} /\ KeyOf(m, at) \in Int
    <3> SUFFICES ASSUME NEW at \in 0 .. Size(m)
                 PROVE  KeyOf(m, at) \in DOMAIN f \cup {End} /\ KeyOf(m, at) \in Int
      OBVIOUS
    <3>1. CASE at = Size(m)
      BY <3>1, <2>3, <2>5
    <3>2. CASE at # Size(m)
      <4>1. at \in 0 .. Size(m) - 1 /\ at + 1 \in 1 .. Size(m)
        BY <3>2, <1>1
      <4>2. KeyOf(m, at) = m.keys[at + 1]
        BY <4>1, KeyOfIs
      <4> QED BY <4>1, <4>2, <2>4, <2>5
    <3> QED BY <3>1, <3>2
  <2>7. \A i \in 1 .. Size(m) : i <= L <=> m.keys[i] < key
    BY <1>5, Bounds DEF L
  <2>8. ASSUME NEW at \in 0 .. Size(m), NEW S,
               S \subseteq DOMAIN f \cup {End}, KeyOf(m, at) \in S,
               \A i \in 1 .. Size(m) : m.keys[i] \in S => at < i
        PROVE  KeyOf(m, at) = Min(S)
    <3>1. S \subseteq Int
      BY <2>8, <2>4, <2>5
    <3>2. ASSUME NEW k \in S
          PROVE  KeyOf(m, at) <= k
      <4>1. CASE k = End
        BY <4>1, <2>5, <2>6, <2>4
      <4>2. CASE k # End
        <5>1. PICK i \in 1 .. Size(m) : k = m.keys[i]
          BY <4>2, <2>8, <2>4
        <5> QED BY <5>1, <1>5, <2>8, StandsAt
      <4> QED BY <4>1, <4>2
    <3> QED BY <2>8, <3>1, <3>2, MinIs
  <2>9. KeyOf(m, L) = FM!CeilingKey(f, key)
    <3> DEFINE S == {j \in DOMAIN f \cup {End} : j >= key}
    <3>1. S \subseteq DOMAIN f \cup {End}
      OBVIOUS
    <3>2. \A i \in 1 .. Size(m) : m.keys[i] \in S => L < i
      BY <2>5, <2>7, <1>1
    <3>3. KeyOf(m, L) >= key
      <4>1. CASE L = Size(m)
        BY <4>1, <2>3, <2>5
      <4>2. CASE L # Size(m)
        <5>1. L \in 0 .. Size(m) - 1 /\ L + 1 \in 1 .. Size(m) /\ ~(L + 1 <= L)
          BY <4>2, <1>1
        <5>2. KeyOf(m, L) = m.keys[L + 1]
          BY <5>1, KeyOfIs
        <5> QED BY <5>1, <5>2, <2>5, <2>7
      <4> QED BY <4>1, <4>2
    <3>4. KeyOf(m, L) \in S
      <4>1. KeyOf(m, L) \in DOMAIN f \cup {End}
        BY <2>6, <1>1
      <4> QED BY ONLY <4>1, <3>3
    <3>5. FM!CeilingKey(f, key) = Min(S)
      BY DEF FM!CeilingKey, FM!Dom, FM!Min, Min
    <3> HIDE DEF S
    <3> QED BY <3>1, <3>2, <3>4, <3>5, <2>8, <1>1
  <2>10. KeyOf(m, UpperBound(m, key)) = FM!HigherKey(f, key)
    <3> DEFINE S == {j \in DOMAIN f \cup {End} : j > key}
               U == UpperBound(m, key)
    <3>1. S \subseteq DOMAIN f \cup {End}
      OBVIOUS
    <3>2. \A i \in 1 .. Size(m) : U < i <=> key < m.keys[i]
      <4>1. CASE IsKeyAt(m, L, key)
        <5>1. /\ U = L + 1 /\ L \in 0 .. Size(m) - 1 /\ m.keys[L + 1] = key
              /\ \A i \in 1 .. Size(m) : i > L + 1 => key < m.keys[i]
          BY <4>1, <1>3, <1>5, Bounds DEF L
        <5>2. \A i \in 1 .. Size(m) : i < L + 1 => m.keys[i] < key
          BY <2>7, <1>1
        <5> HIDE DEF U
        <5>3. ASSUME NEW i \in 1 .. Size(m)
              PROVE  U < i <=> key < m.keys[i]
          <6>1. i < L + 1 \/ i = L + 1 \/ i > L + 1
            BY <1>1
          <6> QED BY <6>1, <5>1, <5>2, <2>5
        <5> QED BY <5>3
      <4>2. CASE ~IsKeyAt(m, L, key)
        <5>1. U = L /\ \A i \in 1 .. Size(m) : m.keys[i] # key
          BY <4>2, <1>3, <1>5, Bounds DEF L
        <5> HIDE DEF U
        <5> QED BY <5>1, <2>5, <2>7, <1>1
      <4> QED BY <4>1, <4>2
    <3>3. KeyOf(m, U) > key
      <4>1. CASE U = Size(m)
        BY <4>1, <2>3, <2>5
      <4>2. CASE U # Size(m)
        <5>1. U \in 0 .. Size(m) - 1 /\ U + 1 \in 1 .. Size(m) /\ U < U + 1
          BY <4>2, <1>1, <1>4
        <5>2. KeyOf(m, U) = m.keys[U + 1]
          BY <5>1, KeyOfIs
        <5> HIDE DEF U
        <5> QED BY <5>1, <5>2, <2>5, <3>2
      <4> QED BY <4>1, <4>2
    <3>4. KeyOf(m, U) \in S
      <4>1. KeyOf(m, U) \in DOMAIN f \cup {End}
        BY <2>6, <1>4
      <4> QED BY ONLY <4>1, <3>3
    <3>5. FM!HigherKey(f, key) = Min(S)
      BY DEF FM!HigherKey, FM!Dom, FM!Min, Min
    <3>6. \A i \in 1 .. Size(m) : m.keys[i] \in S => U < i
      BY <3>2, <2>5
    <3> HIDE DEF S
    <3> QED BY <3>1, <3>4, <3>5, <3>6, <2>8, <1>4
  <2>11. Find(m, key) = Size(m) <=> ~IsKeyAt(m, L, key)
    BY <1>1, <1>2, <1>3
  <2> QED BY <2>1, <2>2, <2>3, <2>9, <2>10, <2>11, <1>3
<1> QED
  BY <1>4, <1>5 DEF L

-----------------------------------------------------------------------------
(* Insertions.                                                             *)

\* What r leaves and returns is what FiniteMap's Add says.
Adds(m, r, key, value, present, full, refused, added) ==
  LET f == FunctionOf(m)
      g == FunctionOf(r.map)
      at == KeyOf(r.map, r.at)
  IN IF key \in DOMAIN f THEN g = f /\ r.code = present /\ at = key
     ELSE IF Cardinality(DOMAIN f) = N
          THEN g = f /\ r.code = full /\ at = refused
          ELSE g = FM!Extended(f, key, value) /\ r.code = added /\ at = key

InsertCodes == {"Success", "AlreadyExists", "Full"}

\* A new key goes to its place, or does not fit.
LEMMA PutBothIs ==
  ASSUME NEW m, Sound(m), NEW idx \in 0 .. Size(m), NEW key \in Keys, NEW value \in Values,
         ~AnyHint => \A i \in 1 .. Size(m) : /\ i <= idx => m.keys[i] < key
                                             /\ i > idx => key < m.keys[i]
  PROVE  LET r == PutBoth(m, idx, key, value)
         IN /\ Fine(r) /\ r.code \in InsertCodes
            /\ ~AnyHint =>
                 /\ key \notin DOMAIN FunctionOf(m)
                 /\ Adds(m, r, key, value, "AlreadyExists", "Full", End, "Success")
<1> DEFINE ks == Put(m.keys, idx, key)
           vs == Put(m.values, idx, value)
           r == PutBoth(m, idx, key, value)
           n == [keys |-> ks, values |-> vs]
<1>1. /\ Size(m) \in 0 .. N /\ N \in Nat \ {0} /\ Size(m) = Len(m.keys) /\ Size(m) = Len(m.values)
      /\ m.keys \in Seq(Keys) /\ m.values \in Seq(Values)
      /\ idx \in Nat /\ idx <= Size(m) /\ key \in Nat /\ Size(m) \in Nat
      /\ \A i \in 1 .. Size(m) : m.keys[i] \in Nat
  BY SoundFacts, MapAssumption
<1>2. /\ ks \in Seq(Keys) /\ Len(ks) = Size(m) + 1
      /\ \A k \in 1 .. Size(m) + 1 :
           ks[k] = IF k <= idx THEN m.keys[k]
                   ELSE IF k = idx + 1 THEN key ELSE m.keys[k - 1]
  <2>1. PICK s : s = m.keys
    OBVIOUS
  <2>2. s \in Seq(Keys) /\ idx \in 0 .. Len(s) /\ key \in Keys
    BY <1>1, <2>1
  <2>3. Put(s, idx, key) \in Seq(Keys) /\ Len(Put(s, idx, key)) = Len(s) + 1
    BY ONLY <2>2, PutSeq
  <2>4. \A k \in 1 .. Len(s) + 1 : Put(s, idx, key)[k] =
          IF k <= idx THEN s[k] ELSE IF k = idx + 1 THEN key ELSE s[k - 1]
    BY ONLY <2>2, PutSeq
  <2> QED BY <2>1, <2>3, <2>4, <1>1
<1>3. /\ vs \in Seq(Values) /\ Len(vs) = Size(m) + 1
      /\ \A k \in 1 .. Size(m) + 1 :
           vs[k] = IF k <= idx THEN m.values[k]
                   ELSE IF k = idx + 1 THEN value ELSE m.values[k - 1]
  <2>1. PICK s : s = m.values
    OBVIOUS
  <2>2. s \in Seq(Values) /\ idx \in 0 .. Len(s) /\ value \in Values
    BY <1>1, <2>1
  <2>3. Put(s, idx, value) \in Seq(Values) /\ Len(Put(s, idx, value)) = Len(s) + 1
    BY ONLY <2>2, PutSeq
  <2>4. \A k \in 1 .. Len(s) + 1 : Put(s, idx, value)[k] =
          IF k <= idx THEN s[k] ELSE IF k = idx + 1 THEN value ELSE s[k - 1]
    BY ONLY <2>2, PutSeq
  <2> QED BY <2>1, <2>3, <2>4, <1>1
<1>4. ~AnyHint => key \notin DOMAIN FunctionOf(m)
  <2>1. SUFFICES ASSUME ~AnyHint, key \in DOMAIN FunctionOf(m)
                 PROVE  FALSE
    OBVIOUS
  <2>2. PICK i \in 1 .. Size(m) : m.keys[i] = key
    <3>1. DOMAIN FunctionOf(m) = {m.keys[i] : i \in 1 .. Size(m)}
      BY <2>1, FunctionIs
    <3> QED BY <2>1, <3>1
  <2> QED BY <2>1, <2>2, <1>1
<1>5. CASE Size(m) = N
  <2>1. r = Result(m, "Full", Size(m))
    BY <1>5, <1>1 DEF PutBoth, HasRoom
  <2>2. r.map = m /\ r.code = "Full" /\ r.at = Size(m)
    BY <2>1 DEF Result
  <2>3. KeyOf(m, Size(m)) = End
    BY KeyOfIs
  <2>4. ~AnyHint => Cardinality(DOMAIN FunctionOf(m)) = N
    BY <1>5, SizeIs
  <2> HIDE DEF r
  <2>5. Fine(r) /\ r.code \in InsertCodes
    BY <2>2, <1>1 DEF Fine, Codes, InsertCodes
  <2>6. ~AnyHint => Adds(m, r, key, value, "AlreadyExists", "Full", End, "Success")
    BY <2>2, <2>3, <2>4, <1>4 DEF Adds
  <2> QED BY <2>5, <2>6, <1>4 DEF r
<1>6. CASE Size(m) # N
  <2>1. r = Result(n, "Success", idx)
    BY <1>6, <1>1 DEF PutBoth, HasRoom
  <2>2. r.map = n /\ r.code = "Success" /\ r.at = idx
    BY <2>1 DEF Result
  <2>3. n.keys = ks /\ n.values = vs /\ Size(n) = Size(m) + 1
    BY <1>2 DEF Size
  <2>4. ASSUME ~AnyHint
        PROVE  Ascends(ks)
    <3> SUFFICES ASSUME NEW i \in 1 .. Size(m) + 1, NEW j \in 1 .. Size(m) + 1, i < j
                 PROVE  ks[i] < ks[j]
      BY <1>2 DEF Ascends
    <3>1. \A k, l \in 1 .. Size(m) : k < l => m.keys[k] < m.keys[l]
      BY <2>4, <1>1 DEF Sound, Ascends
    <3>2. \A k \in 1 .. Size(m) : (k <= idx => m.keys[k] < key) /\ (k > idx => key < m.keys[k])
      BY <2>4
    <3> HIDE DEF ks
    <3>3. CASE j <= idx
      <4>1. i <= idx /\ i \in 1 .. Size(m) /\ j \in 1 .. Size(m)
        BY <3>3, <1>1
      <4> QED BY <4>1, <3>1, <3>3, <1>2
    <3>4. CASE j = idx + 1
      <4>1. i <= idx /\ i \in 1 .. Size(m) /\ ~(j <= idx)
        BY <3>4, <1>1
      <4>2. ks[i] = m.keys[i] /\ ks[j] = key
        BY <4>1, <3>4, <1>2
      <4> QED BY <4>1, <4>2, <3>2
    <3>5. CASE j > idx + 1
      <4>1. j - 1 \in 1 .. Size(m) /\ j - 1 > idx /\ ks[j] = m.keys[j - 1]
        BY <3>5, <1>1, <1>2
      <4>2. CASE i <= idx
        <5>1. i \in 1 .. Size(m) /\ i < j - 1 /\ ks[i] = m.keys[i]
          BY <4>1, <4>2, <1>1, <1>2
        <5> QED BY <5>1, <4>1, <3>1
      <4>3. CASE i = idx + 1
        <5>1. ks[i] = key
          BY <4>3, <1>1, <1>2
        <5> QED BY <5>1, <4>1, <3>2
      <4>4. CASE i > idx + 1
        <5>1. i - 1 \in 1 .. Size(m) /\ i - 1 < j - 1 /\ ks[i] = m.keys[i - 1]
          BY <4>4, <1>1, <1>2
        <5> QED BY <5>1, <4>1, <3>1
      <4>5. i <= idx \/ i = idx + 1 \/ i > idx + 1
        BY <1>1
      <4> QED BY <4>2, <4>3, <4>4, <4>5
    <3>6. j <= idx \/ j = idx + 1 \/ j > idx + 1
      BY <1>1
    <3> QED BY <3>3, <3>4, <3>5, <3>6
  <2>5. Sound(n)
    <3>1. Size(m) + 1 <= N
      BY <1>1, <1>6
    <3>2. n \in [keys : Seq(Keys), values : Seq(Values)]
      BY <1>2, <1>3
    <3> HIDE DEF n, ks, vs
    <3> QED BY <3>1, <3>2, <2>3, <2>4, <1>2, <1>3 DEF Sound
  <2> HIDE DEF n, ks, vs, r
  <2>6. Fine(r) /\ r.code \in InsertCodes
    <3>1. idx \in -1 .. Size(n)
      BY <2>3, <1>1
    <3> QED BY <2>2, <2>5, <3>1 DEF Fine, Codes, InsertCodes
  <2>7. ASSUME ~AnyHint
        PROVE  Adds(m, r, key, value, "AlreadyExists", "Full", End, "Success")
    <3> DEFINE f == FunctionOf(m)
               g == FM!Extended(f, key, value)
    <3>1. /\ DOMAIN f = {m.keys[i] : i \in 1 .. Size(m)} /\ key \notin DOMAIN f
          /\ \A i \in 1 .. Size(m) : f[m.keys[i]] = m.values[i]
      BY <1>4, <2>7, FunctionIs
    <3>2. /\ DOMAIN g = DOMAIN f \cup {key} /\ g = [k \in DOMAIN g |-> g[k]]
          /\ g[key] = value /\ \A k \in DOMAIN f : k # key => g[k] = f[k]
      BY DEF FM!Extended, FM!Dom
    <3> HIDE DEF f, g
    <3>3. ASSUME NEW i \in 1 .. Size(m) + 1
          PROVE  ks[i] \in DOMAIN g /\ g[ks[i]] = vs[i]
      <4>1. CASE i <= idx
        <5>1. i \in 1 .. Size(m) /\ ks[i] = m.keys[i] /\ vs[i] = m.values[i]
          BY <4>1, <1>1, <1>2, <1>3
        <5>2. m.keys[i] \in DOMAIN f
          BY <5>1, <3>1
        <5> QED BY <5>1, <5>2, <3>1, <3>2
      <4>2. CASE i = idx + 1
        <5>1. ks[i] = key /\ vs[i] = value
          BY <4>2, <1>1, <1>2, <1>3
        <5> QED BY <5>1, <3>2
      <4>3. CASE i > idx + 1
        <5>1. i - 1 \in 1 .. Size(m) /\ ks[i] = m.keys[i - 1] /\ vs[i] = m.values[i - 1]
          BY <4>3, <1>1, <1>2, <1>3
        <5>2. m.keys[i - 1] \in DOMAIN f
          BY <5>1, <3>1
        <5> QED BY <5>1, <5>2, <3>1, <3>2
      <4>4. i <= idx \/ i = idx + 1 \/ i > idx + 1
        BY <1>1
      <4> QED BY <4>1, <4>2, <4>3, <4>4
    <3>4. ASSUME NEW k \in DOMAIN g
          PROVE  \E i \in 1 .. Size(m) + 1 : k = ks[i]
      <4>1. CASE k = key
        <5>1. idx + 1 \in 1 .. Size(m) + 1 /\ ks[idx + 1] = key
          BY <1>1, <1>2
        <5> QED BY <4>1, <5>1
      <4>2. CASE k # key
        <5>1. PICK i \in 1 .. Size(m) : k = m.keys[i]
          BY <4>2, <3>1, <3>2
        <5>2. CASE i <= idx
          <6>1. i \in 1 .. Size(m) + 1 /\ ks[i] = m.keys[i]
            BY <5>2, <1>1, <1>2
          <6> QED BY <5>1, <6>1
        <5>3. CASE i > idx
          <6>1. i + 1 \in 1 .. Size(m) + 1 /\ ks[i + 1] = m.keys[i]
            <7>1. /\ i + 1 \in 1 .. Size(m) + 1 /\ ~(i + 1 <= idx) /\ i + 1 # idx + 1
                  /\ i + 1 - 1 = i
              BY <5>3, <1>1
            <7> QED BY <7>1, <1>2
          <6> QED BY <5>1, <6>1
        <5>4. i <= idx \/ i > idx
          BY <1>1
        <5> QED BY <5>2, <5>3, <5>4
      <4> QED BY <4>1, <4>2
    <3>5. DOMAIN g = {n.keys[i] : i \in 1 .. Size(n)}
      BY <2>3, <3>3, <3>4
    <3>6. FunctionOf(n) = g
      BY <2>3, <2>5, <2>7, <3>2, <3>3, <3>5, IsFunctionOf
    <3>7. KeyOf(n, idx) = key
      <4>1. idx \in 0 .. Size(n) - 1 /\ idx + 1 \in 1 .. Size(m) + 1
        BY <2>3, <1>1
      <4>2. n.keys[idx + 1] = key
        BY <4>1, <2>3, <1>1, <1>2
      <4> QED BY <4>1, <4>2, <2>5, KeyOfIs
    <3>8. Cardinality(DOMAIN f) # N
      BY <1>6, <2>7, SizeIs DEF f
    <3> QED BY <3>1, <3>6, <3>7, <3>8, <2>2 DEF Adds, f, g
  <2> QED BY <2>6, <2>7, <1>4 DEF r
<1> QED
  BY <1>5, <1>6

LEMMA InsertIs ==
  ASSUME NEW m, Sound(m), NEW key \in Keys, NEW value \in Values
  PROVE  LET r == Insert(m, key, value)
         IN /\ Fine(r) /\ r.code \in InsertCodes
            /\ ~AnyHint => Adds(m, r, key, value, "AlreadyExists", "Full", End, "Success")
<1> DEFINE L == LowerBound(m, key)
           r == Insert(m, key, value)
<1>1. Size(m) \in Nat /\ L \in 0 .. Size(m)
  BY SoundFacts, LowerBoundIs
<1>2. r = IF IsKeyAt(m, L, key) THEN Result(m, "AlreadyExists", L)
          ELSE PutBoth(m, L, key, value)
  BY DEF Insert
<1> HIDE DEF L, r
<1>3. CASE IsKeyAt(m, L, key)
  <2>1. r.map = m /\ r.code = "AlreadyExists" /\ r.at = L
    BY <1>2, <1>3 DEF Result
  <2>2. Fine(r) /\ r.code \in InsertCodes
    BY <2>1, <1>1 DEF Fine, Codes, InsertCodes
  <2>3. ASSUME ~AnyHint
        PROVE  Adds(m, r, key, value, "AlreadyExists", "Full", End, "Success")
    <3>1. L \in 0 .. Size(m) - 1 /\ m.keys[L + 1] = key
      BY <1>3, <2>3, Bounds DEF L
    <3>2. key \in DOMAIN FunctionOf(m)
      BY <1>3, <2>3, Known DEF L
    <3> QED BY <2>1, <3>1, <3>2, KeyOfIs DEF Adds
  <2> QED BY <2>2, <2>3 DEF r
<1>4. CASE ~IsKeyAt(m, L, key)
  <2>1. ASSUME ~AnyHint, NEW i \in 1 .. Size(m)
        PROVE  (i <= L => m.keys[i] < key) /\ (i > L => key < m.keys[i])
    <3>1. i <= L <=> m.keys[i] < key
      BY <2>1, Bounds DEF L
    <3>2. m.keys[i] # key
      BY <2>1, <1>4, Bounds DEF L
    <3>3. m.keys[i] \in Nat /\ key \in Nat
      BY SoundFacts
    <3> QED BY <3>1, <3>2, <3>3, <1>1
  <2> QED BY <2>1, <1>1, <1>2, <1>4, PutBothIs DEF r
<1> QED
  BY <1>3, <1>4
\* A result has its three parts.
LEMMA Outcomes ==
  /\ \A m, code, at : LET r == Result(m, code, at)
                      IN r.map = m /\ r.code = code /\ r.at = at
  /\ \A m, key, value : LET r == Insert(m, key, value)
                        IN r = Result(r.map, r.code, r.at)
  /\ \A m, hint, key, value : LET r == InsertHint(m, hint, key, value)
                              IN r = Result(r.map, r.code, r.at)
<1>1. \A m, code, at : LET r == Result(m, code, at)
                       IN r.map = m /\ r.code = code /\ r.at = at
  BY DEF Result
<1>2. \A m, idx, key, value : LET r == PutBoth(m, idx, key, value)
                              IN r = Result(r.map, r.code, r.at)
  BY DEF PutBoth, Result
<1>3. \A m, code, at : LET r == Result(m, code, at)
                       IN r = Result(r.map, r.code, r.at)
  BY DEF Result
<1>4. ASSUME NEW m, NEW key, NEW value
      PROVE  LET r == Insert(m, key, value) IN r = Result(r.map, r.code, r.at)
  <2> DEFINE r == Insert(m, key, value)
  <2>1. \/ r = Result(m, "AlreadyExists", LowerBound(m, key))
        \/ r = PutBoth(m, LowerBound(m, key), key, value)
    BY DEF Insert
  <2> HIDE DEF r
  <2>2. r = Result(r.map, r.code, r.at)
    BY <2>1, <1>2, <1>3
  <2> QED BY <2>2 DEF r
<1>5. ASSUME NEW m, NEW hint, NEW key, NEW value
      PROVE  LET r == InsertHint(m, hint, key, value) IN r = Result(r.map, r.code, r.at)
  <2> DEFINE r == InsertHint(m, hint, key, value)
  <2>1. \/ r = Result(m, "AlreadyExists", hint)
        \/ r = PutBoth(m, hint, key, value)
        \/ r = Insert(m, key, value)
    BY DEF InsertHint
  <2> HIDE DEF r
  <2>2. r = Result(r.map, r.code, r.at)
    BY <2>1, <1>2, <1>3, <1>4
  <2> QED BY <2>2 DEF r
<1> QED
  BY <1>1, <1>4, <1>5

LEMMA TryEmplaceIs ==
  ASSUME NEW m, Sound(m), NEW key \in Keys, NEW value \in Values
  PROVE  LET r == TryEmplace(m, key, value)
         IN /\ Fine(r)
            /\ ~AnyHint => Adds(m, r, key, value, "False", "False", End, "True")
<1> DEFINE q == Insert(m, key, value)
           r == TryEmplace(m, key, value)
<1>1. /\ Fine(q) /\ q.code \in InsertCodes
      /\ ~AnyHint => Adds(m, q, key, value, "AlreadyExists", "Full", End, "Success")
  BY InsertIs
<1>2. q = Result(q.map, q.code, q.at)
  BY Outcomes
<1>3. r = [q EXCEPT !.code = IF @ = "Success" THEN "True" ELSE "False"]
  BY DEF TryEmplace
<1> HIDE DEF q, r
<1>4. /\ r.map = q.map /\ r.at = q.at
      /\ r.code = IF q.code = "Success" THEN "True" ELSE "False"
  BY <1>2, <1>3 DEF Result
<1> QED
  BY <1>1, <1>4 DEF Adds, Fine, Codes, InsertCodes, r

LEMMA GetOrCreateIs ==
  ASSUME NEW m, Sound(m), NEW key \in Keys
  PROVE  LET r == GetOrCreate(m, key)
         IN /\ Fine(r)
            /\ ~AnyHint => Adds(m, r, key, Zero, "None", "None", None, "None")
<1> DEFINE q == Insert(m, key, Zero)
           r == GetOrCreate(m, key)
<1>1. /\ Fine(q) /\ q.code \in InsertCodes
      /\ ~AnyHint => Adds(m, q, key, Zero, "AlreadyExists", "Full", End, "Success")
  BY InsertIs, MapAssumption
<1>2. r = Result(q.map, "None", IF q.code = "Full" THEN None ELSE q.at)
  BY DEF GetOrCreate
<1> HIDE DEF q, r
<1>3. r.map = q.map /\ r.code = "None" /\ r.at = IF q.code = "Full" THEN None ELSE q.at
  BY <1>2 DEF Result
<1>4. Sound(r.map) /\ q.at \in -1 .. Size(r.map) /\ KeyOf(r.map, None) = None
  BY <1>1, <1>3, KeyOfIs DEF Fine
<1>5. Fine(r)
  <2>1. Size(r.map) \in Nat /\ None = -1
    BY <1>4, SoundFacts DEF None
  <2> QED BY <2>1, <1>3, <1>4 DEF Fine, Codes
<1> QED
  BY <1>1, <1>3, <1>4, <1>5 DEF Adds, r

\* A key that is there takes the new value.
LEMMA InsertOrAssignIs ==
  ASSUME NEW m, Sound(m), NEW key \in Keys, NEW value \in Values
  PROVE  LET r == InsertOrAssign(m, key, value)
         IN /\ Fine(r)
            /\ ~AnyHint /\ key \notin DOMAIN FunctionOf(m) =>
                 Adds(m, r, key, value, "AlreadyExists", "Full", End, "Success")
            /\ ~AnyHint /\ key \in DOMAIN FunctionOf(m) =>
                 /\ FunctionOf(r.map) = FM!Extended(FunctionOf(m), key, value)
                 /\ r.code = "AlreadyExists" /\ KeyOf(r.map, r.at) = key
<1> DEFINE L == LowerBound(m, key)
           r == InsertOrAssign(m, key, value)
           n == [m EXCEPT !.values[L + 1] = value]
<1>1. /\ Size(m) \in Nat /\ L \in 0 .. Size(m)
      /\ m = [keys |-> m.keys, values |-> m.values]
      /\ Len(m.values) = Size(m) /\ m.values \in Seq(Values) /\ Size(m) = Len(m.keys)
      /\ m.keys \in Seq(Keys) /\ Len(m.keys) <= N
  BY SoundFacts, LowerBoundIs DEF Sound
<1>2. r = IF IsKeyAt(m, L, key) THEN Result(n, "AlreadyExists", L)
          ELSE PutBoth(m, L, key, value)
  BY DEF InsertOrAssign
<1>3. /\ n.keys = m.keys /\ n.values = [m.values EXCEPT ![L + 1] = value]
      /\ n = [keys |-> n.keys, values |-> n.values]
  BY <1>1
<1>4. IsKeyAt(m, L, key) => L < Size(m)
  BY DEF IsKeyAt
<1> HIDE DEF L, r, n
<1>5. CASE IsKeyAt(m, L, key)
  <2>1. r.map = n /\ r.code = "AlreadyExists" /\ r.at = L
    BY <1>2, <1>5 DEF Result
  <2>2. /\ n.values \in Seq(Values) /\ Len(n.values) = Size(m)
        /\ \A i \in 1 .. Size(m) : n.values[i] = IF i = L + 1 THEN value ELSE m.values[i]
    <3>1. L + 1 \in 1 .. Len(m.values)
      BY <1>1, <1>4, <1>5
    <3>2. DOMAIN m.values = 1 .. Len(m.values)
      BY <1>1
    <3>3. n.values \in Seq(Values) /\ Len(n.values) = Len(m.values)
      BY <1>1, <1>3, <3>1, ExceptSeq
    <3> QED BY <3>1, <3>2, <3>3, <1>1, <1>3
  <2>3. Size(n) = Size(m)
    BY <1>3 DEF Size
  <2>4. Sound(n)
    <3>1. n \in [keys : Seq(Keys), values : Seq(Values)]
      BY <1>1, <1>3, <2>2
    <3> QED BY <3>1, <2>2, <1>1, <1>3 DEF Sound
  <2>5. Fine(r)
    <3>1. L \in -1 .. Size(n)
      BY <1>1, <2>3
    <3> QED BY <3>1, <2>1, <2>4 DEF Fine, Codes
  <2>6. ASSUME ~AnyHint
        PROVE  /\ key \in DOMAIN FunctionOf(m)
               /\ FunctionOf(n) = FM!Extended(FunctionOf(m), key, value)
               /\ KeyOf(n, L) = key
    <3> DEFINE f == FunctionOf(m)
               g == FM!Extended(f, key, value)
    <3>1. /\ DOMAIN f = {m.keys[i] : i \in 1 .. Size(m)}
          /\ \A i \in 1 .. Size(m) : f[m.keys[i]] = m.values[i]
      BY <2>6, FunctionIs
    <3>2. key \in DOMAIN f
      BY <1>5, <2>6, Known DEF L
    <3>3. L \in 0 .. Size(m) - 1 /\ m.keys[L + 1] = key
      BY <1>5, <2>6, Bounds DEF L
    <3>4. /\ DOMAIN g = DOMAIN f \cup {key} /\ g = [k \in DOMAIN g |-> g[k]]
          /\ g[key] = value /\ \A k \in DOMAIN f : k # key => g[k] = f[k]
      BY DEF FM!Extended, FM!Dom
    <3> HIDE DEF f, g
    <3>5. DOMAIN g = {n.keys[i] : i \in 1 .. Size(n)}
      BY <3>1, <3>2, <3>4, <1>3, <2>3
    <3>6. ASSUME NEW i \in 1 .. Size(n)
          PROVE  g[n.keys[i]] = n.values[i]
      <4>1. i \in 1 .. Size(m) /\ n.keys[i] = m.keys[i] /\ m.keys[i] \in DOMAIN f
        BY <2>3, <1>3, <3>1
      <4>2. CASE i = L + 1
        BY <4>1, <4>2, <2>2, <3>3, <3>4
      <4>3. CASE i # L + 1
        <5>1. m.keys[i] # key
          <6>1. m.keys[i] \in Nat /\ L + 1 \in 1 .. Size(m) /\ key \in Nat
            BY <4>1, <3>3, SoundFacts
          <6>2. i < L + 1 \/ L + 1 < i
            BY <4>1, <4>3, <6>1
          <6>3. \A k, l \in 1 .. Size(m) : k < l => m.keys[k] < m.keys[l]
            BY <2>6, <1>1 DEF Sound, Ascends
          <6> QED BY <6>1, <6>2, <6>3, <4>1, <3>3
        <5> QED BY <5>1, <4>1, <4>3, <2>2, <3>1, <3>4
      <4> QED BY <4>2, <4>3
    <3>7. FunctionOf(n) = g
      BY <2>4, <2>6, <3>4, <3>5, <3>6, IsFunctionOf
    <3>8. KeyOf(n, L) = key
      BY <2>3, <2>4, <3>3, <1>3, KeyOfIs
    <3> QED BY <3>2, <3>7, <3>8 DEF f, g
  <2> QED BY <2>1, <2>5, <2>6 DEF r
<1>6. CASE ~IsKeyAt(m, L, key)
  <2>1. r = Insert(m, key, value)
    BY <1>2, <1>6 DEF Insert, L
  <2>2. ~AnyHint => key \notin DOMAIN FunctionOf(m)
    BY <1>6, Known DEF L
  <2> QED BY <2>1, <2>2, InsertIs DEF Fine, r
<1> QED
  BY <1>5, <1>6

\* A hint that does not stand before the key's place is either not taken or
\* stands at the key itself.
LEMMA InsertHintIs ==
  ASSUME NEW m, Sound(m), NEW key \in Keys, NEW value \in Values,
         NEW hint \in 0 .. Size(m), AnyHint \/ hint >= LowerBound(m, key)
  PROVE  LET r == InsertHint(m, hint, key, value)
         IN /\ Fine(r) /\ r.code \in InsertCodes
            /\ ~AnyHint => Adds(m, r, key, value, "AlreadyExists", "Full", End, "Success")
<1> DEFINE L == LowerBound(m, key)
           r == InsertHint(m, hint, key, value)
<1>1. CASE ~HintTaken(m, hint, key)
  <2>1. r = Insert(m, key, value)
    BY <1>1 DEF InsertHint
  <2> HIDE DEF r
  <2> QED BY <2>1, InsertIs DEF r
<1>2. CASE HintTaken(m, hint, key) /\ AnyHint
  <2>1. CASE ~(KeyAt(m, hint) < key)
    <3>1. r = Result(m, "AlreadyExists", hint)
      BY <1>2, <2>1 DEF InsertHint
    <3>2. hint \in -1 .. Size(m)
      BY SoundFacts
    <3> HIDE DEF r
    <3> QED BY <3>1, <3>2, <1>2, Outcomes DEF Fine, Codes, InsertCodes, r
  <2>2. CASE KeyAt(m, hint) < key
    <3>1. r = PutBoth(m, hint, key, value)
      BY <1>2, <2>2 DEF InsertHint
    <3> HIDE DEF r
    <3> QED BY <3>1, <1>2, PutBothIs DEF r
  <2> QED BY <2>1, <2>2
<1>3. CASE HintTaken(m, hint, key) /\ ~AnyHint
  <2>1. /\ Size(m) \in Nat /\ L \in 0 .. Size(m) /\ hint >= L /\ hint \in Nat
        /\ \A i \in 1 .. Size(m) : i <= L <=> m.keys[i] < key
        /\ \A i \in 1 .. Size(m) : m.keys[i] \in Nat
        /\ key \in Nat
    BY <1>3, SoundFacts, Bounds, LowerBoundIs
  <2>2. hint # Size(m) /\ (hint = 0 \/ m.keys[hint] < key) /\ ~(key < m.keys[hint + 1])
    <3>1. hint - 1 + 1 = hint
      BY <2>1
    <3> QED BY <3>1, <1>3 DEF HintTaken, KeyAt
  <2> HIDE DEF L
  <2>3. hint = L
    <3>1. hint = 0 \/ (hint \in 1 .. Size(m) /\ hint <= L)
      BY <2>1, <2>2
    <3> QED BY <2>1, <3>1
  <2>4. IsKeyAt(m, L, key) /\ hint < Size(m)
    BY <2>1, <2>2, <2>3 DEF IsKeyAt, KeyAt
  <2>5. m.keys[hint + 1] = key
    BY <2>3, <2>4, <1>3, Bounds DEF L
  <2>6. r = Insert(m, key, value)
    <3>1. ~(KeyAt(m, hint) < key)
      BY <2>5, <2>1 DEF KeyAt
    <3>2. r = Result(m, "AlreadyExists", hint)
      BY <3>1, <1>3 DEF InsertHint
    <3>3. Insert(m, key, value) = Result(m, "AlreadyExists", L)
      BY <2>4 DEF Insert, L
    <3> QED BY <3>2, <3>3, <2>3
  <2> HIDE DEF r
  <2> QED BY <2>6, InsertIs DEF r
<1> QED
  BY <1>1, <1>2, <1>3

LEMMA TryEmplaceHintIs ==
  ASSUME NEW m, Sound(m), NEW key \in Keys, NEW value \in Values,
         NEW hint \in 0 .. Size(m), AnyHint \/ hint >= LowerBound(m, key)
  PROVE  LET r == TryEmplaceHint(m, hint, key, value)
         IN /\ Fine(r)
            /\ ~AnyHint => Adds(m, r, key, value, "None", "None", End, "None")
<1> DEFINE q == InsertHint(m, hint, key, value)
           r == TryEmplaceHint(m, hint, key, value)
<1>1. /\ Fine(q)
      /\ ~AnyHint => Adds(m, q, key, value, "AlreadyExists", "Full", End, "Success")
  BY InsertHintIs
<1>2. q = Result(q.map, q.code, q.at)
  BY Outcomes
<1>3. r = [q EXCEPT !.code = "None"]
  BY DEF TryEmplaceHint
<1> HIDE DEF q, r
<1>4. r.map = q.map /\ r.at = q.at /\ r.code = "None"
  BY <1>2, <1>3 DEF Result
<1> QED
  BY <1>1, <1>4 DEF Adds, Fine, Codes, r
-----------------------------------------------------------------------------
(* Removals.                                                               *)

\* The keys from the one i stands at up to the one j stands at go; the
\* iterator then stands where j stood.
LEMMA EraseRangeIs ==
  ASSUME NEW m, Sound(m), NEW j \in 0 .. Size(m), NEW i \in 0 .. j
  PROVE  LET r == EraseRange(m, i, j)
             f == FunctionOf(m)
         IN /\ Fine(r) /\ r.code = "None"
            /\ ~AnyHint =>
                 /\ FunctionOf(r.map) =
                      FM!Shrunk(f, {k \in FM!Dom(f) : KeyOf(m, i) <= k /\ k < KeyOf(m, j)})
                 /\ KeyOf(r.map, r.at) = KeyOf(m, j)
<1> DEFINE ks == Cut(m.keys, i, j)
           vs == Cut(m.values, i, j)
           n == [keys |-> ks, values |-> vs]
           r == EraseRange(m, i, j)
           d == j - i
<1>1. /\ Size(m) \in Nat /\ Size(m) <= N /\ N \in Nat
      /\ m.keys \in Seq(Keys) /\ m.values \in Seq(Values)
      /\ Len(m.keys) = Size(m) /\ Len(m.values) = Size(m)
      /\ i \in Nat /\ j \in Nat /\ i <= j /\ j <= Size(m)
      /\ \A k \in 1 .. Size(m) : m.keys[k] \in Nat
  BY SoundFacts
<1>2. r.map = n /\ r.code = "None" /\ r.at = i
  BY Outcomes DEF EraseRange
<1>3. /\ ks \in Seq(Keys) /\ Len(ks) = Size(m) - d
      /\ \A k \in 1 .. Size(m) - d : ks[k] = IF k <= i THEN m.keys[k] ELSE m.keys[k + d]
  <2>1. PICK s : s = m.keys
    OBVIOUS
  <2>2. s \in Seq(Keys) /\ i \in 0 .. Len(s) /\ j \in i .. Len(s)
    BY <1>1, <2>1
  <2>3. Cut(s, i, j) \in Seq(Keys) /\ Len(Cut(s, i, j)) = Len(s) - (j - i)
    BY ONLY <2>2, CutSeq
  <2>4. \A k \in 1 .. Len(s) - (j - i) :
          Cut(s, i, j)[k] = IF k <= i THEN s[k] ELSE s[k + (j - i)]
    BY ONLY <2>2, CutSeq
  <2> QED BY <2>1, <2>3, <2>4, <1>1
<1>4. /\ vs \in Seq(Values) /\ Len(vs) = Size(m) - d
      /\ \A k \in 1 .. Size(m) - d :
           vs[k] = IF k <= i THEN m.values[k] ELSE m.values[k + d]
  <2>1. PICK s : s = m.values
    OBVIOUS
  <2>2. s \in Seq(Values) /\ i \in 0 .. Len(s) /\ j \in i .. Len(s)
    BY <1>1, <2>1
  <2>3. Cut(s, i, j) \in Seq(Values) /\ Len(Cut(s, i, j)) = Len(s) - (j - i)
    BY ONLY <2>2, CutSeq
  <2>4. \A k \in 1 .. Len(s) - (j - i) :
          Cut(s, i, j)[k] = IF k <= i THEN s[k] ELSE s[k + (j - i)]
    BY ONLY <2>2, CutSeq
  <2> QED BY <2>1, <2>3, <2>4, <1>1
<1> HIDE DEF ks, vs, r
<1>5. n.keys = ks /\ n.values = vs /\ Size(n) = Size(m) - d
  BY <1>3 DEF Size
<1>6. d \in Nat /\ j = i + d /\ Size(m) - d \in Nat
  BY <1>1
<1> HIDE DEF n, d
<1>7. ASSUME ~AnyHint
      PROVE  Ascends(ks)
  <2> SUFFICES ASSUME NEW k \in 1 .. Size(m) - d, NEW l \in 1 .. Size(m) - d, k < l
               PROVE  ks[k] < ks[l]
    BY <1>3 DEF Ascends
  <2>1. \A a, b \in 1 .. Size(m) : a < b => m.keys[a] < m.keys[b]
    BY <1>7, <1>1 DEF Sound, Ascends
  <2> DEFINE o == IF k <= i THEN k ELSE k + d
             p == IF l <= i THEN l ELSE l + d
  <2>2. o \in 1 .. Size(m) /\ p \in 1 .. Size(m) /\ o < p
    BY <1>1, <1>6
  <2>3. ks[k] = m.keys[o] /\ ks[l] = m.keys[p]
    BY <1>3
  <2> HIDE DEF o, p
  <2> QED BY <2>1, <2>2, <2>3
<1>8. Sound(n)
  <2>1. n \in [keys : Seq(Keys), values : Seq(Values)]
    BY <1>3, <1>4 DEF n
  <2>2. Size(m) - d <= N
    BY <1>1, <1>6
  <2> QED BY <2>1, <2>2, <1>3, <1>4, <1>5, <1>7 DEF Sound
<1>9. Fine(r) /\ r.code = "None"
  <2>1. i \in -1 .. Size(n)
    BY <1>1, <1>5, <1>6
  <2> QED BY <2>1, <1>2, <1>8 DEF Fine, Codes
<1>10. ASSUME ~AnyHint
       PROVE  KeyOf(n, i) = KeyOf(m, j)
  <2>1. CASE j = Size(m)
    <3>1. i = Size(n)
      BY <2>1, <1>1, <1>5, <1>6
    <3> QED BY <2>1, <3>1, <1>8, KeyOfIs
  <2>2. CASE j # Size(m)
    <3>1. /\ j \in 0 .. Size(m) - 1 /\ i \in 0 .. Size(n) - 1
          /\ i + 1 \in 1 .. Size(m) - d /\ ~(i + 1 <= i) /\ i + 1 + d = j + 1
      BY <2>2, <1>1, <1>5, <1>6
    <3>2. KeyOf(m, j) = m.keys[j + 1] /\ KeyOf(n, i) = n.keys[i + 1]
      BY <3>1, <1>8, KeyOfIs
    <3>3. n.keys[i + 1] = m.keys[i + 1 + d]
      BY <3>1, <1>3, <1>5
    <3> QED BY <3>1, <3>2, <3>3
  <2> QED BY <2>1, <2>2
<1>11. ASSUME ~AnyHint
       PROVE  FunctionOf(n) =
                FM!Shrunk(FunctionOf(m),
                          {k \in FM!Dom(FunctionOf(m)) :
                             KeyOf(m, i) <= k /\ k < KeyOf(m, j)})
  <2> DEFINE f == FunctionOf(m)
             gone == {k \in FM!Dom(f) : KeyOf(m, i) <= k /\ k < KeyOf(m, j)}
             g == FM!Shrunk(f, gone)
  <2>1. /\ DOMAIN f = {m.keys[k] : k \in 1 .. Size(m)}
        /\ \A k \in 1 .. Size(m) : f[m.keys[k]] = m.values[k]
    BY <1>11, FunctionIs
  <2>2. /\ DOMAIN g = DOMAIN f \ gone /\ g = [k \in DOMAIN g |-> g[k]]
        /\ \A k \in DOMAIN g : g[k] = f[k]
    BY DEF FM!Shrunk, FM!Dom
  <2>3. ASSUME NEW k \in 1 .. Size(m)
        PROVE  m.keys[k] \in gone <=> i < k /\ ~(j < k)
    <3>1. (i < k <=> KeyOf(m, i) <= m.keys[k]) /\ (j < k <=> KeyOf(m, j) <= m.keys[k])
      <4>1. i \in 0 .. Size(m)
        BY <1>1
      <4> QED BY <4>1, <1>11, StandsAt
    <3>2. KeyOf(m, j) \in Int /\ m.keys[k] \in Int
      <4>1. CASE j = Size(m)
        BY <4>1, <1>1, KeyOfIs, EndIsLast
      <4>2. CASE j # Size(m)
        <5>1. j \in 0 .. Size(m) - 1 /\ j + 1 \in 1 .. Size(m)
          BY <4>2, <1>1
        <5>2. KeyOf(m, j) = m.keys[j + 1]
          BY <5>1, KeyOfIs
        <5> QED BY <5>1, <5>2, <1>1
      <4> QED BY <4>1, <4>2, <1>1
    <3>3. m.keys[k] \in DOMAIN f
      BY <2>1
    <3>4. m.keys[k] \in gone <=> KeyOf(m, i) <= m.keys[k] /\ m.keys[k] < KeyOf(m, j)
      BY ONLY <3>3 DEF FM!Dom
    <3> QED BY <3>1, <3>2, <3>4
  <2> HIDE DEF f, gone, g
  <2>4. ASSUME NEW k \in 1 .. Size(n)
        PROVE  n.keys[k] \in DOMAIN g /\ g[n.keys[k]] = n.values[k]
    <3> DEFINE o == IF k <= i THEN k ELSE k + d
    <3>1. o \in 1 .. Size(m) /\ ~(i < o /\ ~(j < o)) /\ k \in 1 .. Size(m) - d
      BY <1>1, <1>5, <1>6
    <3>2. n.keys[k] = m.keys[o] /\ n.values[k] = m.values[o]
      BY <3>1, <1>3, <1>4, <1>5
    <3> HIDE DEF o
    <3>3. m.keys[o] \in DOMAIN g
      BY <3>1, <2>1, <2>2, <2>3
    <3> QED BY <3>1, <3>2, <3>3, <2>1, <2>2
  <2>5. ASSUME NEW k \in DOMAIN g
        PROVE  \E l \in 1 .. Size(n) : k = n.keys[l]
    <3>1. PICK o \in 1 .. Size(m) : k = m.keys[o]
      BY <2>1, <2>2
    <3>2. o <= i \/ j < o
      BY <3>1, <2>2, <2>3, <1>1
    <3> DEFINE l == IF o <= i THEN o ELSE o - d
    <3>3. /\ l \in 1 .. Size(m) - d /\ l \in 1 .. Size(n)
          /\ o = IF l <= i THEN l ELSE l + d
      BY <3>2, <1>1, <1>5, <1>6
    <3> HIDE DEF l
    <3> QED BY <3>1, <3>3, <1>3, <1>5
  <2>6. DOMAIN g = {n.keys[k] : k \in 1 .. Size(n)}
    BY <2>4, <2>5
  <2>7. FunctionOf(n) = g
    BY <1>8, <1>11, <2>2, <2>4, <2>6, IsFunctionOf
  <2> QED BY <2>7 DEF f, gone, g
<1> QED
  BY <1>2, <1>9, <1>10, <1>11 DEF r

LEMMA EraseIs ==
  ASSUME NEW m, Sound(m), NEW key \in Keys
  PROVE  LET r == Erase(m, key)
             f == FunctionOf(m)
         IN /\ Fine(r) /\ r.at = None
            /\ ~AnyHint => /\ FunctionOf(r.map) = FM!Shrunk(f, {key})
                           /\ r.code = IF key \in DOMAIN f THEN "One" ELSE "Nil"
<1> DEFINE L == LowerBound(m, key)
           F == Find(m, key)
           r == Erase(m, key)
           f == FunctionOf(m)
<1>1. /\ Size(m) \in Nat /\ L \in 0 .. Size(m) /\ F \in 0 .. Size(m) /\ None = -1
      /\ F = IF IsKeyAt(m, L, key) THEN L ELSE Size(m)
      /\ IsKeyAt(m, L, key) => L < Size(m)
  BY SoundFacts, Lookups DEF None, Find, IsKeyAt
<1>2. r = IF F = Size(m) THEN Result(m, "Nil", None)
          ELSE Result(EraseRange(m, F, F + 1).map, "One", None)
  BY DEF Erase
<1> HIDE DEF L, F, r
<1>3. CASE F = Size(m)
  <2>1. r.map = m /\ r.code = "Nil" /\ r.at = None
    BY <1>2, <1>3, Outcomes
  <2>2. Fine(r)
    BY <2>1, <1>1 DEF Fine, Codes
  <2>3. ASSUME ~AnyHint
        PROVE  key \notin DOMAIN f /\ f = FM!Shrunk(f, {key})
    <3>1. key \notin DOMAIN f
      <4>1. ~IsKeyAt(m, L, key)
        BY <1>1, <1>3
      <4> QED BY <4>1, <2>3, Known DEF L
    <3>2. f = [k \in DOMAIN f |-> f[k]]
      BY <2>3, FunctionIs
    <3> HIDE DEF f
    <3>3. DOMAIN f \ {key} = DOMAIN f
      BY <3>1
    <3>4. FM!Shrunk(f, {key}) = [k \in DOMAIN f \ {key} |-> f[k]]
      BY DEF FM!Shrunk, FM!Dom
    <3> QED BY <3>1, <3>2, <3>3, <3>4
  <2> QED BY <2>1, <2>2, <2>3 DEF r
<1>4. CASE F # Size(m)
  <2> DEFINE q == EraseRange(m, F, F + 1)
  <2>1. /\ F + 1 \in 0 .. Size(m) /\ F \in 0 .. F + 1 /\ F \in 0 .. Size(m) - 1
        /\ F + 1 \in 1 .. Size(m) /\ F = L /\ IsKeyAt(m, L, key)
    BY <1>1, <1>4
  <2>2. r.map = q.map /\ r.code = "One" /\ r.at = None
    BY <1>2, <1>4, Outcomes
  <2>3. /\ Fine(q)
        /\ ~AnyHint => FunctionOf(q.map) =
             FM!Shrunk(f, {k \in FM!Dom(f) : KeyOf(m, F) <= k /\ k < KeyOf(m, F + 1)})
    BY <2>1, EraseRangeIs
  <2> HIDE DEF q
  <2>4. Fine(r)
    <3>1. Size(q.map) \in Nat
      BY <2>3, SoundFacts DEF Fine
    <3> QED BY <2>2, <2>3, <3>1, <1>1 DEF Fine, Codes
  <2>5. ASSUME ~AnyHint
        PROVE  /\ key \in DOMAIN f
               /\ {k \in FM!Dom(f) : KeyOf(m, F) <= k /\ k < KeyOf(m, F + 1)} = {key}
    <3>1. key \in DOMAIN f
      BY <2>1, <2>5, Known DEF L
    <3>2. m.keys[F + 1] = key
      BY <2>1, <2>5, Bounds DEF L
    <3>3. DOMAIN f = {m.keys[i] : i \in 1 .. Size(m)}
      BY <2>5, FunctionIs
    <3>4. \A i \in 1 .. Size(m) :
            /\ F < i <=> KeyOf(m, F) <= m.keys[i]
            /\ F + 1 < i <=> KeyOf(m, F + 1) <= m.keys[i]
      BY <2>1, <1>1, <2>5, StandsAt
    <3>5. KeyOf(m, F + 1) \in Int /\ \A i \in 1 .. Size(m) : m.keys[i] \in Int
      <4>1. \A i \in 1 .. Size(m) : m.keys[i] \in Int
        BY SoundFacts
      <4>2. CASE F + 1 = Size(m)
        BY <4>1, <4>2, KeyOfIs, EndIsLast
      <4>3. CASE F + 1 # Size(m)
        <5>1. F + 1 \in 0 .. Size(m) - 1 /\ F + 1 + 1 \in 1 .. Size(m)
          BY <4>3, <2>1, <1>1
        <5> QED BY <5>1, <4>1, KeyOfIs
      <4> QED BY <4>1, <4>2, <4>3
    <3>6. ASSUME NEW i \in 1 .. Size(m)
          PROVE  KeyOf(m, F) <= m.keys[i] /\ m.keys[i] < KeyOf(m, F + 1) <=> i = F + 1
      <4>1. m.keys[i] < KeyOf(m, F + 1) <=> ~(F + 1 < i)
        BY <3>4, <3>5
      <4>2. KeyOf(m, F) <= m.keys[i] <=> F < i
        BY <3>4
      <4>3. F < i /\ ~(F + 1 < i) <=> i = F + 1
        BY <2>1
      <4> QED BY <4>1, <4>2, <4>3, Zenon
    <3> HIDE DEF f
    <3>7. \A k : k \in DOMAIN f =>
            (KeyOf(m, F) <= k /\ k < KeyOf(m, F + 1) <=> k = key)
      <4> SUFFICES ASSUME NEW k \in DOMAIN f
                   PROVE  KeyOf(m, F) <= k /\ k < KeyOf(m, F + 1) <=> k = key
        OBVIOUS
      <4>1. PICK i \in 1 .. Size(m) : k = m.keys[i]
        BY <3>3
      <4>2. m.keys[i] = key => i = F + 1
        <5>1. \A a, b \in 1 .. Size(m) : a < b => m.keys[a] < m.keys[b]
          BY <2>5, SoundFacts DEF Sound, Ascends
        <5>2. i < F + 1 \/ i = F + 1 \/ F + 1 < i
          BY <2>1
        <5> QED BY <5>1, <5>2, <2>1, <3>2, <3>5
      <4> QED BY <4>1, <4>2, <3>2, <3>6
    <3> QED BY <3>1, <3>7 DEF FM!Dom
  <2> QED BY <2>2, <2>3, <2>4, <2>5 DEF r
<1> QED
  BY <1>3, <1>4
-----------------------------------------------------------------------------
(* Ranges.                                                                 *)

\* The results after each of the pairs, in InplaceMap and in FiniteMap.
Runs(m, pairs, stops, done) ==
  /\ done[0] = Result(m, "Success", None)
  /\ \A k \in 1 .. Len(pairs) :
       done[k] = IF stops /\ done[k - 1].code = "Full" THEN done[k - 1]
                 ELSE Insert(done[k - 1].map, pairs[k][1], pairs[k][2])

Counts(f, pairs, done) ==
  /\ done[0] = [f |-> f, full |-> FALSE]
  /\ \A k \in 1 .. Len(pairs) :
       done[k] = IF done[k - 1].full \/ pairs[k][1] \in DOMAIN done[k - 1].f
                 THEN done[k - 1]
                 ELSE IF Cardinality(DOMAIN done[k - 1].f) = N
                      THEN [done[k - 1] EXCEPT !.full = TRUE]
                      ELSE [done[k - 1] EXCEPT
                              !.f = FM!Extended(done[k - 1].f, pairs[k][1], pairs[k][2])]

LEMMA InsertAllRuns ==
  ASSUME NEW m, NEW pairs \in Seq(Keys \X Values), NEW stops
  PROVE  \E done : /\ Runs(m, pairs, stops, done)
                   /\ InsertAll(m, pairs, stops) = done[Len(pairs)]
<1> DEFINE At0 == Result(m, "Success", None)
           After(r, k) == IF stops /\ r.code = "Full" THEN r
                          ELSE Insert(r.map, pairs[k][1], pairs[k][2])
           E(f, k) == IF k = 0 THEN At0 ELSE After(f[k - 1], k)
           Is(f, n) == f = [k \in 0 .. n |-> E(f, k)]
           Bad == {n \in Nat : ~ \E f : Is(f, n)}
<1>1. InsertAll(m, pairs, stops) = (CHOOSE f : Is(f, Len(pairs)))[Len(pairs)]
  BY DEF InsertAll
<1> HIDE DEF At0, After
<1>2. Bad = {}
  <2> SUFFICES ASSUME Bad # {}
               PROVE  FALSE
    OBVIOUS
  <2>1. PICK n \in Bad : \A k \in Bad : n <= k
    BY LeastNumber
  <2>2. n \in Nat /\ ~ \E f : Is(f, n)
    OBVIOUS
  <2>3. CASE n = 0
    <3> DEFINE f == [k \in 0 .. 0 |-> At0]
    <3>1. Is(f, 0)
      OBVIOUS
    <3> QED BY <2>2, <2>3, <3>1
  <2>4. CASE n # 0
    <3>1. n - 1 \in Nat /\ n - 1 \notin Bad
      <4>1. n - 1 \in Nat /\ ~(n <= n - 1)
        BY <2>2, <2>4
      <4> HIDE DEF Bad
      <4> QED BY <4>1, <2>1
    <3>2. PICK f : Is(f, n - 1)
      BY <3>1
    <3>3. \A k \in 0 .. n - 1 : f[k] = E(f, k)
      <4>1. \A g : g = [k \in 0 .. n - 1 |-> E(f, k)] => \A k \in 0 .. n - 1 : g[k] = E(f, k)
        OBVIOUS
      <4> QED BY <3>2, <4>1
    <3> DEFINE g == [k \in 0 .. n |-> IF k = n THEN E(f, n) ELSE f[k]]
    <3>4. \A k \in 0 .. n : g[k] = E(g, k)
      <4> SUFFICES ASSUME NEW k \in 0 .. n
                   PROVE  g[k] = E(g, k)
        OBVIOUS
      <4>1. g[k] = E(f, k)
        <5>1. k = n \/ k \in 0 .. n - 1
          BY <2>2
        <5>2. g[k] = IF k = n THEN E(f, n) ELSE f[k]
          OBVIOUS
        <5> HIDE DEF E
        <5> QED BY <5>1, <5>2, <3>3
      <4>2. k # 0 => g[k - 1] = f[k - 1]
        <5>1. k # 0 => k - 1 \in 0 .. n /\ k - 1 # n
          BY <2>2
        <5> QED BY <5>1
      <4> HIDE DEF g
      <4> QED BY <4>1, <4>2
    <3>5. g = [k \in 0 .. n |-> g[k]]
      OBVIOUS
    <3>6. Is(g, n)
      <4> HIDE DEF g, E
      <4> QED BY <3>4, <3>5
    <3> QED BY <2>2, <3>6
  <2> QED BY <2>3, <2>4
<1>3. Len(pairs) \in Nat
  OBVIOUS
<1> DEFINE done == CHOOSE f : Is(f, Len(pairs))
<1>4. done = [k \in 0 .. Len(pairs) |-> E(done, k)]
  <2>1. \E f : Is(f, Len(pairs))
    BY <1>2, <1>3
  <2> QED BY <2>1
<1> HIDE DEF done
<1>5. \A k \in 0 .. Len(pairs) : done[k] = E(done, k)
  <2>1. \A g : g = [k \in 0 .. Len(pairs) |-> E(done, k)] =>
                 \A k \in 0 .. Len(pairs) : g[k] = E(done, k)
    OBVIOUS
  <2> QED BY <1>4, <2>1
<1>6. done[0] = At0 /\ \A k \in 1 .. Len(pairs) : done[k] = After(done[k - 1], k)
  BY <1>3, <1>5
<1>7. InsertAll(m, pairs, stops) = done[Len(pairs)]
  BY <1>1 DEF done
<1> QED
  BY <1>6, <1>7 DEF Runs, At0, After

\* FiniteMap counts as this module does.
LEMMA CardinalityIs == \A S : FM!Cardinality(S) = Cardinality(S)
  BY DEF FM!Cardinality, Cardinality

\* The same of FiniteMap.
LEMMA InsertAllCounts ==
  ASSUME NEW f, NEW pairs \in Seq(Keys \X Values)
  PROVE  \E done : /\ Counts(f, pairs, done)
                   /\ FM!InsertAll(f, pairs) = done[Len(pairs)]
<1> DEFINE At0 == [f |-> f, full |-> FALSE]
           Step(acc, p) ==
             IF acc.full \/ p[1] \in DOMAIN acc.f THEN acc
             ELSE IF Cardinality(DOMAIN acc.f) = N THEN [acc EXCEPT !.full = TRUE]
             ELSE [acc EXCEPT !.f = FM!Extended(acc.f, p[1], p[2])]
           E(h, k) == IF k = 0 THEN At0 ELSE Step(h[k - 1], pairs[k])
           Is(h, n) == h = [k \in 0 .. n |-> E(h, k)]
           Bad == {n \in Nat : ~ \E h : Is(h, n)}
<1>1. FM!InsertAll(f, pairs) = (CHOOSE h : Is(h, Len(pairs)))[Len(pairs)]
  BY CardinalityIs DEF FM!InsertAll, FM!Dom
<1> HIDE DEF At0, Step
<1>2. Bad = {}
  <2> SUFFICES ASSUME Bad # {}
               PROVE  FALSE
    OBVIOUS
  <2>1. PICK n \in Bad : \A k \in Bad : n <= k
    BY LeastNumber
  <2>2. n \in Nat /\ ~ \E h : Is(h, n)
    OBVIOUS
  <2>3. CASE n = 0
    <3> DEFINE h == [k \in 0 .. 0 |-> At0]
    <3>1. Is(h, 0)
      OBVIOUS
    <3> QED BY <2>2, <2>3, <3>1
  <2>4. CASE n # 0
    <3>1. n - 1 \in Nat /\ n - 1 \notin Bad
      <4>1. n - 1 \in Nat /\ ~(n <= n - 1)
        BY <2>2, <2>4
      <4> HIDE DEF Bad
      <4> QED BY <4>1, <2>1
    <3>2. PICK h : Is(h, n - 1)
      BY <3>1
    <3>3. \A k \in 0 .. n - 1 : h[k] = E(h, k)
      <4>1. \A g : g = [k \in 0 .. n - 1 |-> E(h, k)] => \A k \in 0 .. n - 1 : g[k] = E(h, k)
        OBVIOUS
      <4> QED BY <3>2, <4>1
    <3> DEFINE g == [k \in 0 .. n |-> IF k = n THEN E(h, n) ELSE h[k]]
    <3>4. \A k \in 0 .. n : g[k] = E(g, k)
      <4> SUFFICES ASSUME NEW k \in 0 .. n
                   PROVE  g[k] = E(g, k)
        OBVIOUS
      <4>1. g[k] = E(h, k)
        <5>1. k = n \/ k \in 0 .. n - 1
          BY <2>2
        <5>2. g[k] = IF k = n THEN E(h, n) ELSE h[k]
          OBVIOUS
        <5> HIDE DEF E
        <5> QED BY <5>1, <5>2, <3>3
      <4>2. k # 0 => g[k - 1] = h[k - 1]
        <5>1. k # 0 => k - 1 \in 0 .. n /\ k - 1 # n
          BY <2>2
        <5> QED BY <5>1
      <4> HIDE DEF g
      <4> QED BY <4>1, <4>2
    <3>5. g = [k \in 0 .. n |-> g[k]]
      OBVIOUS
    <3>6. Is(g, n)
      <4> HIDE DEF g, E
      <4> QED BY <3>4, <3>5
    <3> QED BY <2>2, <3>6
  <2> QED BY <2>3, <2>4
<1>3. Len(pairs) \in Nat
  OBVIOUS
<1> DEFINE done == CHOOSE h : Is(h, Len(pairs))
<1>4. done = [k \in 0 .. Len(pairs) |-> E(done, k)]
  <2>1. \E h : Is(h, Len(pairs))
    BY <1>2, <1>3
  <2> QED BY <2>1
<1> HIDE DEF done
<1>5. \A k \in 0 .. Len(pairs) : done[k] = E(done, k)
  <2>1. \A g : g = [k \in 0 .. Len(pairs) |-> E(done, k)] =>
                 \A k \in 0 .. Len(pairs) : g[k] = E(done, k)
    OBVIOUS
  <2> QED BY <1>4, <2>1
<1>6. done[0] = At0 /\ \A k \in 1 .. Len(pairs) : done[k] = Step(done[k - 1], pairs[k])
  BY <1>3, <1>5
<1>7. FM!InsertAll(f, pairs) = done[Len(pairs)]
  BY <1>1 DEF done
<1> QED
  BY <1>6, <1>7 DEF Counts, At0, Step
\* Pair for pair both leave the same function.  Once a pair did not fit, the
\* keys that are new do not fit either.
LEMMA InsertAllIs ==
  ASSUME NEW m, Sound(m), NEW pairs \in Seq(Keys \X Values), NEW stops \in BOOLEAN
  PROVE  LET r == InsertAll(m, pairs, stops)
             d == FM!InsertAll(FunctionOf(m), pairs)
         IN /\ Sound(r.map)
            /\ ~AnyHint => FunctionOf(r.map) = d.f
            /\ ~AnyHint /\ stops => (r.code = "Full" <=> d.full)
<1>1. PICK done : /\ Runs(m, pairs, stops, done)
                  /\ InsertAll(m, pairs, stops) = done[Len(pairs)]
  BY InsertAllRuns
<1>2. PICK count : /\ Counts(FunctionOf(m), pairs, count)
                   /\ FM!InsertAll(FunctionOf(m), pairs) = count[Len(pairs)]
  BY InsertAllCounts
<1> DEFINE Same(r, c) ==
             /\ c = [f |-> c.f, full |-> c.full] /\ c.full \in BOOLEAN
             /\ FunctionOf(r.map) = c.f
             /\ c.full => Cardinality(DOMAIN c.f) = N
             /\ stops => (r.code = "Full" <=> c.full)
           Good(k) == Sound(done[k].map) /\ (~AnyHint => Same(done[k], count[k]))
           Bad == {k \in 0 .. Len(pairs) : ~Good(k)}
<1>3. Len(pairs) \in Nat
  OBVIOUS
<1>4. Good(0)
  <2>1. done[0].map = m /\ done[0].code = "Success"
    BY <1>1, Outcomes DEF Runs
  <2>2. Same(done[0], count[0])
    BY <1>2, <2>1 DEF Counts
  <2> QED BY <2>1, <2>2
<1>5. ASSUME NEW k \in 1 .. Len(pairs), Good(k - 1)
      PROVE  Good(k)
  <2> DEFINE r == done[k - 1]
             c == count[k - 1]
             key == pairs[k][1]
             value == pairs[k][2]
             q == Insert(r.map, key, value)
  <2>1. Sound(r.map) /\ (~AnyHint => Same(r, c))
    BY <1>5
  <2>2. key \in Keys /\ value \in Values
    <3>1. pairs[k] \in Keys \X Values
      BY ElementOfSeq
    <3> QED BY <3>1
  <2>3. done[k] = IF stops /\ r.code = "Full" THEN r ELSE q
    BY <1>1 DEF Runs
  <2>4. count[k] = IF c.full \/ key \in DOMAIN c.f THEN c
                   ELSE IF Cardinality(DOMAIN c.f) = N THEN [c EXCEPT !.full = TRUE]
                   ELSE [c EXCEPT !.f = FM!Extended(c.f, key, value)]
    BY <1>2 DEF Counts
  <2>5. /\ Fine(q) /\ q.code \in InsertCodes
        /\ ~AnyHint => Adds(r.map, q, key, value, "AlreadyExists", "Full", End, "Success")
    BY <2>1, <2>2, InsertIs
  <2> HIDE DEF r, c, key, value, q
  <2>6. Sound(done[k].map)
    BY <2>1, <2>3, <2>5 DEF Fine
  <2>7. ASSUME ~AnyHint
        PROVE  Same(done[k], count[k])
    <3> DEFINE g == FunctionOf(q.map)
    <3>1. Same(r, c)
      BY <2>1, <2>7
    <3>2. IF key \in DOMAIN c.f THEN g = c.f /\ q.code = "AlreadyExists"
          ELSE IF Cardinality(DOMAIN c.f) = N THEN g = c.f /\ q.code = "Full"
          ELSE g = FM!Extended(c.f, key, value) /\ q.code = "Success"
      BY <2>5, <2>7, <3>1 DEF Adds
    <3> HIDE DEF g
    <3>3. CASE stops /\ r.code = "Full"
      <4>1. done[k] = r /\ count[k] = c
        BY <2>3, <2>4, <3>1, <3>3
      <4> QED BY <3>1, <4>1
    <3>4. CASE ~(stops /\ r.code = "Full") /\ c.full
      <4>1. done[k] = q /\ count[k] = c /\ ~stops
        BY <2>3, <2>4, <3>1, <3>4
      <4>2. g = c.f
        BY <3>1, <3>2, <3>4
      <4> QED BY <3>1, <4>1, <4>2 DEF g
    <3>5. CASE ~(stops /\ r.code = "Full") /\ ~c.full /\ key \in DOMAIN c.f
      <4>1. done[k] = q /\ count[k] = c /\ g = c.f /\ q.code # "Full"
        BY <2>3, <2>4, <3>2, <3>5
      <4> QED BY <3>1, <3>5, <4>1 DEF g
    <3>6. CASE /\ ~(stops /\ r.code = "Full") /\ ~c.full
               /\ key \notin DOMAIN c.f /\ Cardinality(DOMAIN c.f) = N
      <4>1. /\ done[k] = q /\ count[k] = [c EXCEPT !.full = TRUE]
            /\ g = c.f /\ q.code = "Full"
        BY <2>3, <2>4, <3>2, <3>6
      <4>2. count[k] = [f |-> c.f, full |-> TRUE]
        BY <4>1, <3>1
      <4> QED BY <3>6, <4>1, <4>2 DEF g
    <3>7. CASE /\ ~(stops /\ r.code = "Full") /\ ~c.full
               /\ key \notin DOMAIN c.f /\ Cardinality(DOMAIN c.f) # N
      <4> DEFINE e == FM!Extended(c.f, key, value)
      <4>1. /\ done[k] = q /\ g = e /\ q.code # "Full"
            /\ count[k] = [c EXCEPT !.f = e]
        BY <2>3, <2>4, <3>2, <3>7
      <4> HIDE DEF e
      <4>2. count[k] = [f |-> e, full |-> FALSE]
        BY <4>1, <3>1, <3>7
      <4>3. count[k].f = e /\ count[k].full = FALSE
        BY <4>2
      <4>4. count[k] = [f |-> count[k].f, full |-> count[k].full]
        BY <4>2, <4>3
      <4>5. FunctionOf(done[k].map) = e
        BY <4>1 DEF g
      <4> HIDE DEF g
      <4>6. done[k].code # "Full"
        BY <4>1
      <4> QED BY <4>3, <4>4, <4>5, <4>6
    <3> QED BY <3>1, <3>3, <3>4, <3>5, <3>6, <3>7
  <2> QED BY <2>6, <2>7
<1> HIDE DEF Good
<1>6. Bad = {}
  <2> SUFFICES ASSUME Bad # {}
               PROVE  FALSE
    OBVIOUS
  <2>1. Bad \subseteq Nat
    OBVIOUS
  <2>2. \A k \in 0 .. Len(pairs) : k \in Bad <=> ~Good(k)
    OBVIOUS
  <2>3. \A k \in Bad : k \in 0 .. Len(pairs)
    OBVIOUS
  <2> HIDE DEF Bad
  <2>4. PICK k \in Bad : \A l \in Bad : k <= l
    BY <2>1, LeastNumber
  <2>5. k \in 1 .. Len(pairs) /\ ~Good(k)
    BY <2>2, <2>3, <1>3, <1>4
  <2>6. k - 1 \in 0 .. Len(pairs) /\ ~(k <= k - 1)
    BY <2>5, <1>3
  <2>7. Good(k - 1)
    BY <2>2, <2>4, <2>6
  <2> QED BY <2>5, <2>7, <1>5
<1>7. Good(Len(pairs))
  BY <1>3, <1>6
<1> QED
  BY <1>1, <1>2, <1>7 DEF Good

LEMMA InsertRangeIs ==
  ASSUME NEW m, Sound(m), NEW pairs \in Seq(Keys \X Values)
  PROVE  LET r == InsertRange(m, pairs)
             d == FM!InsertAll(FunctionOf(m), pairs)
         IN /\ Fine(r) /\ r.at = None
            /\ ~AnyHint => /\ FunctionOf(r.map) = d.f
                           /\ r.code = IF d.full THEN "Full" ELSE "Success"
<1> DEFINE q == InsertAll(m, pairs, TRUE)
           d == FM!InsertAll(FunctionOf(m), pairs)
           r == InsertRange(m, pairs)
<1>1. /\ Sound(q.map)
      /\ ~AnyHint => FunctionOf(q.map) = d.f
      /\ ~AnyHint => (q.code = "Full" <=> d.full)
  BY InsertAllIs
<1>2. r = Result(q.map, IF q.code = "Full" THEN "Full" ELSE "Success", None)
  BY DEF InsertRange
<1> HIDE DEF q, d, r
<1>3. /\ r.map = q.map /\ r.at = None
      /\ r.code = IF q.code = "Full" THEN "Full" ELSE "Success"
  BY <1>2, Outcomes
<1>4. Size(q.map) \in Nat /\ None = -1
  BY <1>1, SoundFacts DEF None
<1>5. Fine(r)
  BY <1>1, <1>3, <1>4 DEF Fine, Codes
<1> QED
  BY <1>1, <1>3, <1>5 DEF r, d

LEMMA ConstructedFromIs ==
  ASSUME NEW pairs \in Seq(Keys \X Values)
  PROVE  LET m == ConstructedFrom(pairs)
         IN Sound(m) /\ (~AnyHint => FunctionOf(m) = FM!InsertAll(FM!Empty, pairs).f)
<1> DEFINE q == InsertAll(NewMap, pairs, FALSE)
<1>1. /\ Sound(q.map)
      /\ ~AnyHint => FunctionOf(q.map) = FM!InsertAll(FunctionOf(NewMap), pairs).f
  BY InsertAllIs, NewMapIs
<1>2. ~AnyHint => FunctionOf(NewMap) = FM!Empty
  BY NewMapIs
<1> QED
  BY <1>1, <1>2 DEF ConstructedFrom

\* A move leaves an empty map empty.
LEMMA GivenUpIs ==
  ASSUME NEW m, Sound(m)
  PROVE  /\ Size(m) = 0 => GivenUp(m) = NewMap
         /\ Size(m) # 0 => GivenAway(GivenUp(m))
         /\ Size(GivenUp(m)) = Size(m)
<1> DEFINE ks == [k \in DOMAIN m.keys |-> Moved]
           vs == [k \in DOMAIN m.values |-> Moved]
           n == [keys |-> ks, values |-> vs]
<1>1. /\ Size(m) \in 0 .. N /\ Size(m) \in Nat /\ Size(m) = Len(m.keys) /\ Len(m.values) = Size(m)
      /\ DOMAIN m.keys = 1 .. Size(m) /\ DOMAIN m.values = 1 .. Size(m) /\ N \in Nat
  BY SoundFacts
<1>2. GivenUp(m) = n
  BY DEF GivenUp
<1>3. ks = [k \in 1 .. Size(m) |-> Moved] /\ vs = [k \in 1 .. Size(m) |-> Moved]
  BY <1>1
<1>4. /\ ks \in Seq({Moved}) /\ Len(ks) = Size(m)
      /\ vs \in Seq({Moved}) /\ Len(vs) = Size(m)
  <2> DEFINE s == [k \in 1 .. Size(m) |-> Moved]
  <2>1. s \in Seq({Moved}) /\ Len(s) = Size(m)
    BY <1>1
  <2> QED BY <1>3, <2>1
<1> HIDE DEF ks, vs
<1>5. Size(n) = Size(m)
  BY <1>4 DEF Size
<1>6. ASSUME Size(m) = 0
      PROVE  n = NewMap
  <2>1. ks = <<>> /\ vs = <<>>
    BY <1>4, <1>6, EmptySeq
  <2> QED BY <2>1 DEF NewMap
<1>7. ASSUME Size(m) # 0
      PROVE  GivenAway(n)
  <2>1. Size(m) \in 1 .. N
    BY <1>1, <1>7
  <2> QED BY <1>4, <2>1 DEF GivenAway
<1> QED
  BY <1>2, <1>5, <1>6, <1>7
-----------------------------------------------------------------------------
(* The inductive invariant.                                                *)

IMaps ==
  /\ map = [x \in Maps |-> map[x]]
  /\ \A x \in Maps : Sound(map[x]) \/ GivenAway(map[x])

IRet ==
  /\ ret.code \in Codes
  /\ call.op = "none" => ret.at = -1
  /\ call.op # "none" => call.on \in Maps /\ ret.at \in -1 .. Size(map[call.on])

IInv == IMaps /\ IRet

LEMMA BoundedSeqs ==
  ASSUME NEW S, NEW n \in Nat
  PROVE  /\ \A s \in BoundedSeq(S, n) : s \in Seq(S)
         /\ \A s \in Seq(S) : Len(s) <= n => s \in BoundedSeq(S, n)
<1>1. BoundedSeq(S, n) = UNION {[1 .. m -> S] : m \in 0 .. n}
  BY DEF BoundedSeq, SeqOf
<1>2. ASSUME NEW s \in BoundedSeq(S, n)
      PROVE  s \in Seq(S)
  <2>1. PICK m \in 0 .. n : s \in [1 .. m -> S]
    BY <1>1
  <2>2. m \in Nat
    OBVIOUS
  <2> QED BY <2>1, <2>2, SeqDef
<1>3. ASSUME NEW s \in Seq(S), Len(s) <= n
      PROVE  s \in BoundedSeq(S, n)
  <2>1. Len(s) \in 0 .. n /\ s \in [1 .. Len(s) -> S]
    BY <1>3, LenProperties
  <2> QED BY <2>1, <1>1
<1> QED
  BY <1>2, <1>3

LEMMA SpansAreSeqs == \A pairs \in Pairs : pairs \in Seq(Keys \X Values)
<1>1. MaxSpan \in Nat
  BY UseAssumption
<1> QED
  BY <1>1, BoundedSeqs DEF Pairs

\* A map is whole unless it was moved from.
HasAll(m) == \A k \in DOMAIN m.keys : m.keys[k] # Moved

LEMMA HasAllIs ==
  ASSUME NEW m
  PROVE  /\ Sound(m) => HasAll(m)
         /\ GivenAway(m) => ~HasAll(m)
<1>1. ASSUME Sound(m)
      PROVE  HasAll(m)
  <2>1. DOMAIN m.keys = 1 .. Size(m) /\ \A i \in 1 .. Size(m) : m.keys[i] \in Keys
    BY <1>1, SoundFacts
  <2>2. Moved \notin Keys
    BY MapAssumption
  <2> QED BY <2>1, <2>2 DEF HasAll
<1>2. ASSUME GivenAway(m)
      PROVE  ~HasAll(m)
  <2> DEFINE s == m.keys
  <2>1. s \in Seq({Moved}) /\ Len(s) \in 1 .. N /\ N \in Nat
    BY <1>2, MapAssumption DEF GivenAway
  <2> HIDE DEF s
  <2>2. 1 \in 1 .. Len(s) /\ DOMAIN s = 1 .. Len(s)
    BY <2>1
  <2>3. s[1] \in {Moved}
    BY <2>1, <2>2, ElementOfSeq
  <2> QED BY <2>2, <2>3 DEF HasAll, s
<1> QED
  BY <1>1, <1>2

LEMMA WholeIs == \A x : Whole(x) <=> HasAll(map[x])
  BY DEF Whole, HasAll

LEMMA InitInv == Init => IInv
<1> SUFFICES ASSUME Init
             PROVE  IInv
  OBVIOUS
<1>1. map = [x \in Maps |-> NewMap]
  BY DEF Init
<1>2. \A x \in Maps : map[x] = NewMap
  BY <1>1
<1>3. IMaps
  BY <1>1, <1>2, NewMapIs DEF IMaps
<1>4. IRet
  BY DEF Init, IRet, Codes, None
<1> QED
  BY <1>3, <1>4 DEF IInv

\* A call that leaves and returns what it may keeps the invariant.
LEMMA DoesInv ==
  ASSUME IMaps, NEW x \in Maps, NEW c, c.op # "none", c.on = x,
         NEW r, Fine(r), Does(c, r)
  PROVE  IInv'
<1>1. map' = [map EXCEPT ![x] = r.map] /\ call' = c /\ ret' = [code |-> r.code, at |-> r.at]
  BY DEF Does
<1>2. /\ map' = [y \in Maps |-> map'[y]]
      /\ \A y \in Maps : map'[y] = IF y = x THEN r.map ELSE map[y]
  BY <1>1 DEF IMaps
<1>3. IMaps'
  BY <1>2 DEF IMaps, Fine
<1>4. IRet'
  BY <1>1, <1>2 DEF IRet, Fine
<1> QED
  BY <1>3, <1>4 DEF IInv

LEMMA DoesBothInv ==
  ASSUME IMaps, NEW x \in Maps, NEW y \in Maps, x # y, NEW op, op # "none",
         NEW m, NEW n, Sound(m), Sound(n) \/ GivenAway(n), DoesBoth(op, x, m, y, n)
  PROVE  IInv'
<1>1. /\ map' = [map EXCEPT ![x] = m, ![y] = n]
      /\ call' = [op |-> op, on |-> x, from |-> y]
      /\ ret' = [code |-> "None", at |-> None]
  BY DEF DoesBoth
<1>2. /\ map' = [z \in Maps |-> map'[z]]
      /\ \A z \in Maps : map'[z] = IF z = y THEN n ELSE IF z = x THEN m ELSE map[z]
  BY <1>1 DEF IMaps
<1>3. IMaps'
  BY <1>2 DEF IMaps
<1>4. IRet'
  <2>1. map'[x] = m /\ Size(m) \in Nat
    BY <1>2, SoundFacts
  <2> QED BY <1>1, <2>1 DEF IRet, Codes, None
<1> QED
  BY <1>3, <1>4 DEF IInv
-----------------------------------------------------------------------------
(* The state as FiniteMap sees it.                                         *)

Abs == [x \in Maps |-> IF Whole(x) THEN FunctionOf(map[x]) ELSE Moved]

AbsRet == [code |-> ret.code,
           at |-> IF ret.at = None THEN None ELSE KeyOf(map[call.on], ret.at)]

\* FiniteMap's steps in these terms.
LEMMA Becoming ==
  ASSUME NEW x, NEW f
  PROVE  FM!Becomes(x, f) <=> Abs' = [Abs EXCEPT ![x] = f]
  BY DEF FM!Becomes, Abs

LEMMA Returning ==
  ASSUME NEW code, NEW at
  PROVE  FM!Returns(code, at) <=> AbsRet' = [code |-> code, at |-> at]
  BY DEF FM!Returns, AbsRet

LEMMA Adding ==
  ASSUME NEW x, NEW k, NEW v, NEW present, NEW full, NEW refused, NEW added
  PROVE  FM!Add(x, k, v, present, full, refused, added) <=>
           IF k \in DOMAIN Abs[x] THEN FM!Returns(present, k) /\ Abs' = Abs
           ELSE IF Cardinality(DOMAIN Abs[x]) = N
                THEN FM!Returns(full, refused) /\ Abs' = Abs
                ELSE FM!Becomes(x, FM!Extended(Abs[x], k, v)) /\ FM!Returns(added, k)
  BY CardinalityIs DEF FM!Add, FM!Dom, Abs

LEMMA AbsIs ==
  ASSUME NEW x \in Maps
  PROVE  /\ Abs = [y \in Maps |-> Abs[y]]
         /\ Whole(x) => Abs[x] = FunctionOf(map[x])
         /\ ~Whole(x) => Abs[x] = Moved
  BY DEF Abs

\* What a call on one map does to it.
LEMMA DoesAbs ==
  ASSUME IMaps, NEW x \in Maps, NEW c, c.op # "none", c.on = x,
         NEW r, Fine(r), Does(c, r)
  PROVE  /\ Abs' = [Abs EXCEPT ![x] = FunctionOf(r.map)]
         /\ AbsRet' = [code |-> r.code, at |-> KeyOf(r.map, r.at)]
<1>1. map' = [map EXCEPT ![x] = r.map] /\ call' = c /\ ret' = [code |-> r.code, at |-> r.at]
  BY DEF Does
<1>2. \A y \in Maps : map'[y] = IF y = x THEN r.map ELSE map[y]
  BY <1>1 DEF IMaps
<1>3. ASSUME NEW y \in Maps
      PROVE  Abs'[y] = IF y = x THEN FunctionOf(r.map) ELSE Abs[y]
  <2>1. Abs'[y] = IF Whole(y)' THEN FunctionOf(map'[y]) ELSE Moved
    BY DEF Abs
  <2>2. CASE y = x
    <3>1. Sound(map'[x])
      BY <1>2 DEF Fine
    <3>2. Whole(x)'
      BY <3>1, HasAllIs DEF Whole, HasAll
    <3> QED BY <2>1, <2>2, <3>2, <1>2
  <2>3. CASE y # x
    <3>1. map'[y] = map[y]
      BY <2>3, <1>2
    <3>2. Whole(y)' <=> Whole(y)
      BY <3>1 DEF Whole
    <3> QED BY <2>1, <2>3, <3>1, <3>2 DEF Abs
  <2> QED BY <2>2, <2>3
<1>4. Abs' = [y \in Maps |-> Abs'[y]] /\ Abs = [y \in Maps |-> Abs[y]]
  BY DEF Abs
<1>5. Abs' = [Abs EXCEPT ![x] = FunctionOf(r.map)]
  BY <1>3, <1>4
<1>6. AbsRet' = [code |-> r.code, at |-> KeyOf(r.map, r.at)]
  <2>1. AbsRet' = [code |-> ret'.code,
                   at |-> IF ret'.at = None THEN None ELSE KeyOf(map'[call'.on], ret'.at)]
    BY DEF AbsRet
  <2>2. ret'.code = r.code /\ ret'.at = r.at /\ call'.on = x /\ map'[x] = r.map
    BY <1>1, <1>2
  <2>3. KeyOf(r.map, None) = None
    BY DEF KeyOf
  <2> QED BY <2>1, <2>2, <2>3
<1> QED
  BY <1>5, <1>6

LEMMA AddsStep ==
  ASSUME IMaps, NEW x \in Maps, Whole(x), NEW c, c.op # "none", c.on = x,
         NEW r, Fine(r), Does(c, r),
         NEW key, NEW value, NEW present, NEW full, NEW refused, NEW added,
         Adds(map[x], r, key, value, present, full, refused, added)
  PROVE  FM!Add(x, key, value, present, full, refused, added)
<1>1. /\ Abs' = [Abs EXCEPT ![x] = FunctionOf(r.map)]
      /\ AbsRet' = [code |-> r.code, at |-> KeyOf(r.map, r.at)]
  BY DoesAbs
<1> DEFINE f == Abs[x]
<1>2. f = FunctionOf(map[x]) /\ [Abs EXCEPT ![x] = f] = Abs
  BY AbsIs
<1>3. /\ FM!Add(x, key, value, present, full, refused, added) <=>
           IF key \in DOMAIN f THEN FM!Returns(present, key) /\ Abs' = Abs
           ELSE IF Cardinality(DOMAIN f) = N
                THEN FM!Returns(full, refused) /\ Abs' = Abs
                ELSE FM!Becomes(x, FM!Extended(f, key, value)) /\ FM!Returns(added, key)
  BY Adding
<1>4. \A code, at : FM!Returns(code, at) <=> AbsRet' = [code |-> code, at |-> at]
  BY Returning
<1>5. \A g : FM!Becomes(x, g) <=> Abs' = [Abs EXCEPT ![x] = g]
  BY Becoming
<1>6. IF key \in DOMAIN f
      THEN FunctionOf(r.map) = f /\ r.code = present /\ KeyOf(r.map, r.at) = key
      ELSE IF Cardinality(DOMAIN f) = N
           THEN FunctionOf(r.map) = f /\ r.code = full /\ KeyOf(r.map, r.at) = refused
           ELSE /\ FunctionOf(r.map) = FM!Extended(f, key, value)
                /\ r.code = added /\ KeyOf(r.map, r.at) = key
  BY <1>2 DEF Adds
<1> HIDE DEF f
<1>7. CASE key \in DOMAIN f
  BY <1>1, <1>2, <1>3, <1>4, <1>6, <1>7
<1>8. CASE key \notin DOMAIN f /\ Cardinality(DOMAIN f) = N
  BY <1>1, <1>2, <1>3, <1>4, <1>6, <1>8
<1>9. CASE key \notin DOMAIN f /\ Cardinality(DOMAIN f) # N
  BY <1>1, <1>2, <1>3, <1>4, <1>5, <1>6, <1>9
<1> QED
  BY <1>7, <1>8, <1>9
-----------------------------------------------------------------------------
(* The steps.                                                              *)

\* The call of a step of FiniteMap.
LEMMA Calling == FM!Next <=> FM!Does(call')
  BY DEF FM!Next

LEMMA AddPairStep ==
  ASSUME IMaps, NEW x \in Maps, Whole(x), AddPair(x)
  PROVE  IInv' /\ (~AnyHint => FM!Next)
<1>1. Sound(map[x])
  BY HasAllIs, WholeIs DEF IMaps
<1> DEFINE c(op, key, value) == [op |-> op, on |-> x, key |-> key, value |-> value]
<1>2. PICK key \in Keys, value \in Values :
        \/ Does(c("insert", key, value), Insert(map[x], key, value))
        \/ Does(c("tryEmplace", key, value), TryEmplace(map[x], key, value))
        \/ Does(c("insertOrAssign", key, value), InsertOrAssign(map[x], key, value))
        \/ \E hint \in Positions(x) :
             /\ AnyHint \/ hint >= LowerBound(map[x], key)
             /\ \/ Does(c("insert", key, value), InsertHint(map[x], hint, key, value))
                \/ Does(c("tryEmplaceHint", key, value),
                        TryEmplaceHint(map[x], hint, key, value))
  BY DEF AddPair
<1>3. \A op : LET d == c(op, key, value)
              IN d.op = op /\ d.on = x /\ d.key = key /\ d.value = value
  OBVIOUS
<1> HIDE DEF c
<1>4. \A d, r : Does(d, r) => call' = d
  BY DEF Does
<1>5. ASSUME NEW r, Does(c("insert", key, value), r), Fine(r),
             ~AnyHint => Adds(map[x], r, key, value, "AlreadyExists", "Full", End, "Success")
      PROVE  IInv' /\ (~AnyHint => FM!Next)
  <2> DEFINE d == c("insert", key, value)
  <2>1. d.op = "insert" /\ d.on = x /\ d.key = key /\ d.value = value /\ call' = d
    BY <1>3, <1>4, <1>5
  <2> HIDE DEF d
  <2>2. IInv'
    BY <1>5, <2>1, DoesInv DEF d
  <2>3. ASSUME ~AnyHint
        PROVE  FM!Next
    <3>1. FM!Insert(x, key, value)
      BY <1>5, <2>1, <2>3, AddsStep DEF FM!Insert, d
    <3> QED BY <3>1, <2>1, Calling DEF FM!Does
  <2> QED BY <2>2, <2>3
<1>6. CASE Does(c("insert", key, value), Insert(map[x], key, value))
  BY <1>1, <1>5, <1>6, InsertIs
<1>7. CASE Does(c("tryEmplace", key, value), TryEmplace(map[x], key, value))
  <2> DEFINE d == c("tryEmplace", key, value)
             r == TryEmplace(map[x], key, value)
  <2>1. d.op = "tryEmplace" /\ d.on = x /\ d.key = key /\ d.value = value /\ call' = d
    BY <1>3, <1>4, <1>7
  <2>2. Fine(r) /\ (~AnyHint => Adds(map[x], r, key, value, "False", "False", End, "True"))
    BY <1>1, TryEmplaceIs
  <2>3. Does(d, r)
    BY <1>7
  <2> HIDE DEF d, r
  <2>4. IInv'
    BY <2>1, <2>2, <2>3, DoesInv
  <2>5. ASSUME ~AnyHint
        PROVE  FM!Next
    <3>1. FM!TryEmplace(x, key, value)
      BY <2>1, <2>2, <2>3, <2>5, AddsStep DEF FM!TryEmplace
    <3> QED BY <3>1, <2>1, Calling DEF FM!Does
  <2> QED BY <2>4, <2>5
<1>8. CASE Does(c("insertOrAssign", key, value), InsertOrAssign(map[x], key, value))
  <2> DEFINE d == c("insertOrAssign", key, value)
             r == InsertOrAssign(map[x], key, value)
             f == FunctionOf(map[x])
  <2>1. d.op = "insertOrAssign" /\ d.on = x /\ d.key = key /\ d.value = value /\ call' = d
    BY <1>3, <1>4, <1>8
  <2>2. /\ Fine(r)
        /\ ~AnyHint /\ key \notin DOMAIN f =>
             Adds(map[x], r, key, value, "AlreadyExists", "Full", End, "Success")
        /\ ~AnyHint /\ key \in DOMAIN f =>
             /\ FunctionOf(r.map) = FM!Extended(f, key, value)
             /\ r.code = "AlreadyExists" /\ KeyOf(r.map, r.at) = key
    BY <1>1, InsertOrAssignIs
  <2>3. Does(d, r)
    BY <1>8
  <2> HIDE DEF d, r
  <2>4. IInv'
    BY <2>1, <2>2, <2>3, DoesInv
  <2>5. ASSUME ~AnyHint
        PROVE  FM!Next
    <3>1. Abs[x] = f
      BY AbsIs
    <3>2. FM!InsertOrAssign(x, key, value) <=>
            IF key \in DOMAIN Abs[x]
            THEN /\ FM!Becomes(x, FM!Extended(Abs[x], key, value))
                 /\ FM!Returns("AlreadyExists", key)
            ELSE FM!Insert(x, key, value)
      BY DEF FM!InsertOrAssign, FM!Dom, Abs
    <3>3. CASE key \in DOMAIN f
      <4>1. /\ Abs' = [Abs EXCEPT ![x] = FunctionOf(r.map)]
            /\ AbsRet' = [code |-> r.code, at |-> KeyOf(r.map, r.at)]
        BY <2>1, <2>2, <2>3, DoesAbs
      <4>2. FM!Becomes(x, FM!Extended(f, key, value)) /\ FM!Returns("AlreadyExists", key)
        BY <4>1, <2>2, <2>5, <3>3, Becoming, Returning
      <4>3. FM!InsertOrAssign(x, key, value)
        BY <4>2, <3>1, <3>2, <3>3
      <4> QED BY <4>3, <2>1, Calling DEF FM!Does
    <3>4. CASE key \notin DOMAIN f
      <4>1. FM!Insert(x, key, value)
        BY <2>1, <2>2, <2>3, <2>5, <3>4, AddsStep DEF FM!Insert
      <4>2. FM!InsertOrAssign(x, key, value)
        BY <4>1, <3>1, <3>2, <3>4
      <4> QED BY <4>2, <2>1, Calling DEF FM!Does
    <3> QED BY <3>3, <3>4
  <2> QED BY <2>4, <2>5
<1>9. ASSUME NEW hint \in Positions(x), AnyHint \/ hint >= LowerBound(map[x], key),
             Does(c("insert", key, value), InsertHint(map[x], hint, key, value))
      PROVE  IInv' /\ (~AnyHint => FM!Next)
  <2>1. hint \in 0 .. Size(map[x])
    BY DEF Positions
  <2> QED BY <1>1, <1>5, <1>9, <2>1, InsertHintIs
<1>10. ASSUME NEW hint \in Positions(x), AnyHint \/ hint >= LowerBound(map[x], key),
              Does(c("tryEmplaceHint", key, value),
                   TryEmplaceHint(map[x], hint, key, value))
       PROVE  IInv' /\ (~AnyHint => FM!Next)
  <2> DEFINE d == c("tryEmplaceHint", key, value)
             r == TryEmplaceHint(map[x], hint, key, value)
  <2>1. d.op = "tryEmplaceHint" /\ d.on = x /\ d.key = key /\ d.value = value /\ call' = d
    BY <1>3, <1>4, <1>10
  <2>2. Fine(r) /\ (~AnyHint => Adds(map[x], r, key, value, "None", "None", End, "None"))
    <3>1. hint \in 0 .. Size(map[x])
      BY DEF Positions
    <3> QED BY <3>1, <1>1, <1>10, TryEmplaceHintIs
  <2>3. Does(d, r)
    BY <1>10
  <2> HIDE DEF d, r
  <2>4. IInv'
    BY <2>1, <2>2, <2>3, DoesInv
  <2>5. ASSUME ~AnyHint
        PROVE  FM!Next
    <3>1. FM!TryEmplaceHint(x, key, value)
      BY <2>1, <2>2, <2>3, <2>5, AddsStep DEF FM!TryEmplaceHint
    <3> QED BY <3>1, <2>1, Calling DEF FM!Does
  <2> QED BY <2>4, <2>5
<1> QED
  BY <1>2, <1>6, <1>7, <1>8, <1>9, <1>10
\* A call that leaves and returns what FiniteMap names.
LEMMA ChangesStep ==
  ASSUME IMaps, NEW x \in Maps, NEW c, c.op # "none", c.on = x,
         NEW r, Fine(r), Does(c, r)
  PROVE  /\ IInv' /\ call' = c
         /\ FM!Becomes(x, FunctionOf(r.map))
         /\ FM!Returns(r.code, KeyOf(r.map, r.at))
<1>1. IInv' /\ call' = c
  BY DoesInv DEF Does
<1>2. /\ Abs' = [Abs EXCEPT ![x] = FunctionOf(r.map)]
      /\ AbsRet' = [code |-> r.code, at |-> KeyOf(r.map, r.at)]
  BY DoesAbs
<1> QED
  BY <1>1, <1>2, Becoming, Returning

LEMMA AddPairsStep ==
  ASSUME IMaps, NEW x \in Maps, Whole(x), AddPairs(x)
  PROVE  IInv' /\ (~AnyHint => FM!Next)
<1>1. Sound(map[x])
  BY HasAllIs, WholeIs DEF IMaps
<1>2. PICK pairs \in Pairs :
        Does([op |-> "insertRange", on |-> x, pairs |-> pairs], InsertRange(map[x], pairs))
  BY DEF AddPairs
<1> DEFINE c == [op |-> "insertRange", on |-> x, pairs |-> pairs]
           r == InsertRange(map[x], pairs)
           f == FunctionOf(map[x])
           d == FM!InsertAll(f, pairs)
<1>3. c.op = "insertRange" /\ c.on = x /\ c.pairs = pairs
  OBVIOUS
<1>4. /\ Fine(r) /\ r.at = None
      /\ ~AnyHint => /\ FunctionOf(r.map) = d.f
                     /\ r.code = IF d.full THEN "Full" ELSE "Success"
  BY <1>1, SpansAreSeqs, InsertRangeIs
<1>5. Does(c, r)
  BY <1>2
<1> HIDE DEF c, r
<1>6. /\ IInv' /\ call' = c
      /\ FM!Becomes(x, FunctionOf(r.map))
      /\ FM!Returns(r.code, KeyOf(r.map, r.at))
  BY <1>3, <1>4, <1>5, ChangesStep
<1>7. ASSUME ~AnyHint
      PROVE  FM!Next
  <2>1. FM!InsertRange(x, pairs) <=>
          LET done == FM!InsertAll(Abs[x], pairs)
          IN FM!Becomes(x, done.f) /\ FM!Returns(IF done.full THEN "Full" ELSE "Success", None)
    BY DEF FM!InsertRange, Abs
  <2>2. Abs[x] = f
    BY AbsIs
  <2>3. KeyOf(r.map, r.at) = None
    BY <1>4 DEF KeyOf
  <2> HIDE DEF f, d
  <2>4. FM!Becomes(x, d.f) /\ FM!Returns(IF d.full THEN "Full" ELSE "Success", None)
    BY <2>3, <1>4, <1>6, <1>7
  <2>5. FM!InsertRange(x, pairs)
    BY <2>1, <2>2, <2>4 DEF d
  <2> QED BY <2>5, <1>3, <1>6, Calling DEF FM!Does
<1> QED
  BY <1>6, <1>7

\* A lookup changes nothing.
LEMMA LooksStep ==
  ASSUME IMaps, NEW x \in Maps, Whole(x), NEW c, c.op # "none", c.on = x,
         NEW at \in -1 .. Size(map[x]), Does(c, Result(map[x], "None", at))
  PROVE  /\ IInv' /\ call' = c
         /\ Abs' = Abs /\ FM!Returns("None", KeyOf(map[x], at))
<1> DEFINE r == Result(map[x], "None", at)
<1>1. r.map = map[x] /\ r.code = "None" /\ r.at = at
  BY Outcomes
<1>2. Does(c, r)
  OBVIOUS
<1> HIDE DEF r
<1>3. Fine(r)
  BY <1>1, HasAllIs, WholeIs DEF IMaps, Fine, Codes
<1>4. /\ IInv' /\ call' = c
      /\ FM!Returns(r.code, KeyOf(r.map, r.at))
  BY <1>2, <1>3, ChangesStep
<1>5. Abs' = [Abs EXCEPT ![x] = FunctionOf(r.map)]
  BY <1>2, <1>3, DoesAbs
<1>6. Abs' = Abs
  BY <1>1, <1>5, AbsIs
<1> QED
  BY <1>1, <1>4, <1>6

LEMMA Looking ==
  ASSUME NEW x, NEW k
  PROVE  /\ FM!Find(x, k) <=>
              FM!Returns("None", IF k \in DOMAIN Abs[x] THEN k ELSE End) /\ Abs' = Abs
         /\ FM!At(x, k) <=>
              FM!Returns("None", IF k \in DOMAIN Abs[x] THEN k ELSE None) /\ Abs' = Abs
         /\ FM!LowerBound(x, k) <=>
              FM!Returns("None", FM!CeilingKey(Abs[x], k)) /\ Abs' = Abs
         /\ FM!UpperBound(x, k) <=>
              FM!Returns("None", FM!HigherKey(Abs[x], k)) /\ Abs' = Abs
  BY DEF FM!Find, FM!At, FM!LowerBound, FM!UpperBound, FM!Dom, Abs

LEMMA UseKeyStep ==
  ASSUME IMaps, NEW x \in Maps, Whole(x), UseKey(x)
  PROVE  IInv' /\ (~AnyHint => FM!Next)
<1>1. Sound(map[x])
  BY HasAllIs, WholeIs DEF IMaps
<1> DEFINE c(op, key) == [op |-> op, on |-> x, key |-> key]
           Finds(at) == Result(map[x], "None", at)
           f == FunctionOf(map[x])
<1>2. PICK key \in Keys :
        \/ Does(c("getOrCreate", key), GetOrCreate(map[x], key))
        \/ Does(c("erase", key), Erase(map[x], key))
        \/ Does(c("find", key), Finds(Find(map[x], key)))
        \/ Does(c("at", key), Finds(At(map[x], key)))
        \/ Does(c("lowerBound", key), Finds(LowerBound(map[x], key)))
        \/ Does(c("upperBound", key), Finds(UpperBound(map[x], key)))
  BY DEF UseKey
<1>3. \A op : LET d == c(op, key) IN d.op = op /\ d.on = x /\ d.key = key
  OBVIOUS
<1> HIDE DEF c
<1>4. Abs[x] = f
  BY AbsIs
<1>5. /\ Find(map[x], key) \in -1 .. Size(map[x])
      /\ At(map[x], key) \in -1 .. Size(map[x])
      /\ LowerBound(map[x], key) \in -1 .. Size(map[x])
      /\ UpperBound(map[x], key) \in -1 .. Size(map[x])
      /\ ~AnyHint =>
           /\ KeyOf(map[x], Find(map[x], key)) = IF key \in DOMAIN f THEN key ELSE End
           /\ KeyOf(map[x], At(map[x], key)) = IF key \in DOMAIN f THEN key ELSE None
           /\ KeyOf(map[x], LowerBound(map[x], key)) = FM!CeilingKey(f, key)
           /\ KeyOf(map[x], UpperBound(map[x], key)) = FM!HigherKey(f, key)
  <2>1. Size(map[x]) \in Nat
    BY <1>1, SoundFacts
  <2> QED BY <2>1, <1>1, Lookups
<1> HIDE DEF f
<1>6. CASE Does(c("getOrCreate", key), GetOrCreate(map[x], key))
  <2> DEFINE d == c("getOrCreate", key)
             r == GetOrCreate(map[x], key)
  <2>1. d.op = "getOrCreate" /\ d.on = x /\ d.key = key
    BY <1>3
  <2>2. Fine(r) /\ (~AnyHint => Adds(map[x], r, key, Zero, "None", "None", None, "None"))
    BY <1>1, GetOrCreateIs
  <2>3. Does(d, r)
    BY <1>6
  <2> HIDE DEF d, r
  <2>4. IInv' /\ call' = d
    BY <2>1, <2>2, <2>3, ChangesStep
  <2>5. ASSUME ~AnyHint
        PROVE  FM!Next
    <3>1. FM!GetOrCreate(x, key)
      BY <2>1, <2>2, <2>3, <2>5, AddsStep DEF FM!GetOrCreate
    <3> QED BY <3>1, <2>1, <2>4, Calling DEF FM!Does
  <2> QED BY <2>4, <2>5
<1>7. CASE Does(c("erase", key), Erase(map[x], key))
  <2> DEFINE d == c("erase", key)
             r == Erase(map[x], key)
  <2>1. d.op = "erase" /\ d.on = x /\ d.key = key
    BY <1>3
  <2>2. /\ Fine(r) /\ r.at = None
        /\ ~AnyHint => /\ FunctionOf(r.map) = FM!Shrunk(f, {key})
                       /\ r.code = IF key \in DOMAIN f THEN "One" ELSE "Nil"
    BY <1>1, EraseIs DEF f
  <2>3. Does(d, r)
    BY <1>7
  <2> HIDE DEF d, r
  <2>4. /\ IInv' /\ call' = d
        /\ FM!Becomes(x, FunctionOf(r.map)) /\ FM!Returns(r.code, KeyOf(r.map, r.at))
    BY <2>1, <2>2, <2>3, ChangesStep
  <2>5. ASSUME ~AnyHint
        PROVE  FM!Next
    <3>1. KeyOf(r.map, r.at) = None
      BY <2>2 DEF KeyOf
    <3>2. FM!Erase(x, key) <=>
            /\ FM!Becomes(x, FM!Shrunk(Abs[x], {key}))
            /\ FM!Returns(IF key \in DOMAIN Abs[x] THEN "One" ELSE "Nil", None)
      BY DEF FM!Erase, FM!Dom, Abs
    <3>3. FM!Erase(x, key)
      BY <3>1, <3>2, <2>2, <2>4, <2>5, <1>4
    <3> QED BY <3>3, <2>1, <2>4, Calling DEF FM!Does
  <2> QED BY <2>4, <2>5
<1>8. CASE Does(c("find", key), Finds(Find(map[x], key)))
  <2> DEFINE d == c("find", key)
  <2>1. d.op = "find" /\ d.on = x /\ d.key = key
    BY <1>3
  <2>2. /\ IInv' /\ call' = d /\ Abs' = Abs
        /\ FM!Returns("None", KeyOf(map[x], Find(map[x], key)))
    BY <1>5, <1>8, <2>1, LooksStep
  <2> HIDE DEF d
  <2>3. ~AnyHint => FM!Find(x, key)
    BY <1>4, <1>5, <2>2, Looking
  <2> QED BY <2>1, <2>2, <2>3, Calling DEF FM!Does
<1>9. CASE Does(c("at", key), Finds(At(map[x], key)))
  <2> DEFINE d == c("at", key)
  <2>1. d.op = "at" /\ d.on = x /\ d.key = key
    BY <1>3
  <2>2. /\ IInv' /\ call' = d /\ Abs' = Abs
        /\ FM!Returns("None", KeyOf(map[x], At(map[x], key)))
    BY <1>5, <1>9, <2>1, LooksStep
  <2> HIDE DEF d
  <2>3. ~AnyHint => FM!At(x, key)
    BY <1>4, <1>5, <2>2, Looking
  <2> QED BY <2>1, <2>2, <2>3, Calling DEF FM!Does
<1>10. CASE Does(c("lowerBound", key), Finds(LowerBound(map[x], key)))
  <2> DEFINE d == c("lowerBound", key)
  <2>1. d.op = "lowerBound" /\ d.on = x /\ d.key = key
    BY <1>3
  <2>2. /\ IInv' /\ call' = d /\ Abs' = Abs
        /\ FM!Returns("None", KeyOf(map[x], LowerBound(map[x], key)))
    BY <1>5, <1>10, <2>1, LooksStep
  <2> HIDE DEF d
  <2>3. ~AnyHint => FM!LowerBound(x, key)
    BY <1>4, <1>5, <2>2, Looking
  <2> QED BY <2>1, <2>2, <2>3, Calling DEF FM!Does
<1>11. CASE Does(c("upperBound", key), Finds(UpperBound(map[x], key)))
  <2> DEFINE d == c("upperBound", key)
  <2>1. d.op = "upperBound" /\ d.on = x /\ d.key = key
    BY <1>3
  <2>2. /\ IInv' /\ call' = d /\ Abs' = Abs
        /\ FM!Returns("None", KeyOf(map[x], UpperBound(map[x], key)))
    BY <1>5, <1>11, <2>1, LooksStep
  <2> HIDE DEF d
  <2>3. ~AnyHint => FM!UpperBound(x, key)
    BY <1>4, <1>5, <2>2, Looking
  <2> QED BY <2>1, <2>2, <2>3, Calling DEF FM!Does
<1> QED
  BY <1>2, <1>6, <1>7, <1>8, <1>9, <1>10, <1>11
LEMMA EraseAtStep ==
  ASSUME IMaps, NEW x \in Maps, Whole(x), EraseAt(x)
  PROVE  IInv' /\ (~AnyHint => FM!Next)
<1>1. Sound(map[x])
  BY HasAllIs, WholeIs DEF IMaps
<1>2. PICK j \in Positions(x) : \E i \in 0 .. j :
        Does([op |-> "eraseRange", on |-> x,
              first |-> KeyOf(map[x], i), last |-> KeyOf(map[x], j)],
             EraseRange(map[x], i, j))
  BY DEF EraseAt
<1>3. PICK i \in 0 .. j :
        Does([op |-> "eraseRange", on |-> x,
              first |-> KeyOf(map[x], i), last |-> KeyOf(map[x], j)],
             EraseRange(map[x], i, j))
  BY <1>2
<1> DEFINE c == [op |-> "eraseRange", on |-> x,
                 first |-> KeyOf(map[x], i), last |-> KeyOf(map[x], j)]
           r == EraseRange(map[x], i, j)
           f == FunctionOf(map[x])
<1>4. /\ c.op = "eraseRange" /\ c.on = x
      /\ c.first = KeyOf(map[x], i) /\ c.last = KeyOf(map[x], j)
  OBVIOUS
<1>5. /\ Fine(r) /\ r.code = "None"
      /\ ~AnyHint =>
           /\ FunctionOf(r.map) =
                FM!Shrunk(f, {k \in FM!Dom(f) : c.first <= k /\ k < c.last})
           /\ KeyOf(r.map, r.at) = c.last
  <2>1. j \in 0 .. Size(map[x])
    BY DEF Positions
  <2> QED BY <2>1, <1>1, EraseRangeIs
<1>6. Does(c, r)
  BY <1>3
<1> HIDE DEF c, r, f
<1>7. /\ IInv' /\ call' = c
      /\ FM!Becomes(x, FunctionOf(r.map)) /\ FM!Returns(r.code, KeyOf(r.map, r.at))
  BY <1>4, <1>5, <1>6, ChangesStep
<1>8. ASSUME ~AnyHint
      PROVE  FM!Next
  <2>1. \A lo, hi :
          FM!EraseRange(x, lo, hi) <=>
            /\ FM!Becomes(x, FM!Shrunk(Abs[x], {k \in FM!Dom(Abs[x]) : lo <= k /\ k < hi}))
            /\ FM!Returns("None", hi)
    BY DEF FM!EraseRange, Abs
  <2>2. Abs[x] = f
    BY AbsIs DEF f
  <2>3. FM!EraseRange(x, c.first, c.last)
    BY <2>1, <2>2, <1>5, <1>7, <1>8
  <2> QED BY <2>3, <1>4, <1>7, Calling DEF FM!Does
<1> QED
  BY <1>7, <1>8

LEMMA ClearStep ==
  ASSUME IMaps, NEW x \in Maps, Clear(x)
  PROVE  IInv' /\ (~AnyHint => FM!Next)
<1> DEFINE c == [op |-> "clear", on |-> x]
           r == Result(Cleared, "None", None)
<1>1. c.op = "clear" /\ c.on = x /\ Does(c, r)
  BY DEF Clear
<1>2. r.map = NewMap /\ r.code = "None" /\ r.at = None
  BY Outcomes DEF Cleared
<1> HIDE DEF c, r
<1>3. Fine(r) /\ KeyOf(r.map, r.at) = None
  BY <1>2, NewMapIs DEF Fine, Codes, None, KeyOf
<1>4. /\ IInv' /\ call' = c
      /\ FM!Becomes(x, FunctionOf(r.map)) /\ FM!Returns(r.code, KeyOf(r.map, r.at))
  BY <1>1, <1>3, ChangesStep
<1>5. ~AnyHint => FM!Clear(x)
  BY <1>2, <1>3, <1>4, NewMapIs DEF FM!Clear
<1> QED
  BY <1>1, <1>4, <1>5, Calling DEF FM!Does

LEMMA RebuildStep ==
  ASSUME IMaps, NEW x \in Maps, Rebuild(x)
  PROVE  IInv' /\ (~AnyHint => FM!Next)
<1>1. PICK pairs \in Pairs :
        LET c == [op |-> "rebuild", on |-> x, pairs |-> pairs]
        IN \/ Does(c, Result(ConstructedFrom(pairs), "None", None))
           \/ Does(c, Result(InsertRange(Cleared, pairs).map, "None", None))
  BY DEF Rebuild
<1> DEFINE c == [op |-> "rebuild", on |-> x, pairs |-> pairs]
           g == FM!InsertAll(FM!Empty, pairs).f
<1>2. c.op = "rebuild" /\ c.on = x /\ c.pairs = pairs
  OBVIOUS
<1>3. \E m : /\ Does(c, Result(m, "None", None)) /\ Sound(m)
             /\ ~AnyHint => FunctionOf(m) = g
  <2>1. pairs \in Seq(Keys \X Values)
    BY SpansAreSeqs
  <2>2. /\ Sound(ConstructedFrom(pairs))
        /\ ~AnyHint => FunctionOf(ConstructedFrom(pairs)) = g
    BY <2>1, ConstructedFromIs
  <2> DEFINE q == InsertRange(Cleared, pairs)
  <2>3. Sound(q.map) /\ (~AnyHint => FunctionOf(q.map) = g)
    <3>1. Cleared = NewMap /\ Sound(NewMap) /\ (~AnyHint => FunctionOf(NewMap) = FM!Empty)
      BY NewMapIs DEF Cleared
    <3>2. /\ Fine(q)
          /\ ~AnyHint => FunctionOf(q.map) = FM!InsertAll(FunctionOf(Cleared), pairs).f
      BY <2>1, <3>1, InsertRangeIs
    <3> HIDE DEF q
    <3> QED BY <3>1, <3>2 DEF Fine
  <2> HIDE DEF q, c, g
  <2>4. Does(c, Result(ConstructedFrom(pairs), "None", None))
          \/ Does(c, Result(q.map, "None", None))
    BY <1>1 DEF c, q
  <2> QED BY <2>2, <2>3, <2>4
<1>4. PICK m : /\ Does(c, Result(m, "None", None)) /\ Sound(m)
               /\ ~AnyHint => FunctionOf(m) = g
  BY <1>3
<1> DEFINE r == Result(m, "None", None)
<1>5. r.map = m /\ r.code = "None" /\ r.at = None /\ Does(c, r)
  BY <1>4, Outcomes
<1> HIDE DEF c, r, g
<1>6. Fine(r) /\ KeyOf(r.map, r.at) = None
  <2>1. Size(m) \in Nat
    BY <1>4, SoundFacts
  <2> QED BY <2>1, <1>4, <1>5 DEF Fine, Codes, None, KeyOf
<1>7. /\ IInv' /\ call' = c
      /\ FM!Becomes(x, FunctionOf(r.map)) /\ FM!Returns(r.code, KeyOf(r.map, r.at))
  BY <1>2, <1>5, <1>6, ChangesStep
<1>8. ~AnyHint => FM!Rebuild(x, pairs)
  BY <1>4, <1>5, <1>6, <1>7 DEF FM!Rebuild, g
<1> QED
  BY <1>2, <1>7, <1>8, Calling DEF FM!Does

\* What a call on two maps does to both.
LEMMA DoesBothAbs ==
  ASSUME IMaps, NEW x \in Maps, NEW y \in Maps, x # y, NEW op, op # "none",
         NEW m, NEW n, Sound(m), Sound(n) \/ GivenAway(n), DoesBoth(op, x, m, y, n)
  PROVE  /\ Abs' = [z \in Maps |-> IF z = y THEN IF HasAll(n) THEN FunctionOf(n) ELSE Moved
                                   ELSE IF z = x THEN FunctionOf(m) ELSE Abs[z]]
         /\ FM!Returns("None", None)
         /\ call' = [op |-> op, on |-> x, from |-> y]
<1>1. /\ map' = [map EXCEPT ![x] = m, ![y] = n]
      /\ call' = [op |-> op, on |-> x, from |-> y]
      /\ ret' = [code |-> "None", at |-> None]
  BY DEF DoesBoth
<1>2. \A z \in Maps : map'[z] = IF z = y THEN n ELSE IF z = x THEN m ELSE map[z]
  BY <1>1 DEF IMaps
<1>3. ASSUME NEW z \in Maps
      PROVE  Abs'[z] = IF z = y THEN IF HasAll(n) THEN FunctionOf(n) ELSE Moved
                       ELSE IF z = x THEN FunctionOf(m) ELSE Abs[z]
  <2>1. Abs'[z] = IF HasAll(map'[z]) THEN FunctionOf(map'[z]) ELSE Moved
    BY DEF Abs, Whole, HasAll
  <2>2. Abs[z] = IF HasAll(map[z]) THEN FunctionOf(map[z]) ELSE Moved
    BY DEF Abs, Whole, HasAll
  <2>3. HasAll(m)
    BY HasAllIs
  <2> QED BY <2>1, <2>2, <2>3, <1>2
<1>4. Abs' = [z \in Maps |-> Abs'[z]]
  BY DEF Abs
<1>5. Abs' = [z \in Maps |-> IF z = y THEN IF HasAll(n) THEN FunctionOf(n) ELSE Moved
                             ELSE IF z = x THEN FunctionOf(m) ELSE Abs[z]]
  BY <1>3, <1>4
<1>6. AbsRet' = [code |-> "None", at |-> None]
  BY <1>1 DEF AbsRet
<1> QED
  BY <1>1, <1>5, <1>6, Returning

LEMMA PairStep ==
  ASSUME IMaps, NEW x \in Maps, NEW y \in Maps, x # y, Whole(y),
         Copy(x, y) \/ Move(x, y) \/ (Whole(x) /\ Swap(x, y))
  PROVE  IInv' /\ (~AnyHint => FM!Next)
<1>1. Sound(map[y]) /\ HasAll(map[y]) /\ Abs[y] = FunctionOf(map[y])
  BY HasAllIs, WholeIs, AbsIs DEF IMaps
<1>2. Abs = [z \in Maps |-> Abs[z]]
  BY AbsIs
<1>3. CASE Copy(x, y)
  <2>1. DoesBoth("copy", x, map[y], y, map[y])
    BY <1>3 DEF Copy
  <2>2. IInv'
    BY <2>1, <1>1, DoesBothInv
  <2>3. /\ Abs' = [z \in Maps |->
                     IF z = y THEN IF HasAll(map[y]) THEN FunctionOf(map[y]) ELSE Moved
                     ELSE IF z = x THEN FunctionOf(map[y]) ELSE Abs[z]]
        /\ FM!Returns("None", None)
        /\ call' = [op |-> "copy", on |-> x, from |-> y]
    BY <2>1, <1>1, DoesBothAbs
  <2>4. Abs' = [Abs EXCEPT ![x] = Abs[y]]
    BY <2>3, <1>1, <1>2
  <2>5. FM!Copy(x, y) <=> FM!Becomes(x, Abs[y]) /\ FM!Returns("None", None)
    BY DEF FM!Copy, Abs
  <2>6. FM!Copy(x, y)
    BY <2>3, <2>4, <2>5, Becoming
  <2>7. call'.op = "copy" /\ call'.on = x /\ call'.from = y
    BY <2>3
  <2> QED BY <2>2, <2>6, <2>7, Calling DEF FM!Does
<1>4. CASE Move(x, y)
  <2> DEFINE n == GivenUp(map[y])
             g == IF HasAll(n) THEN FunctionOf(n) ELSE Moved
  <2>1. DoesBoth("move", x, map[y], y, n)
    BY <1>4 DEF Move
  <2>2. (Size(map[y]) = 0 => n = NewMap) /\ (Size(map[y]) # 0 => GivenAway(n))
    BY <1>1, GivenUpIs
  <2> HIDE DEF n
  <2>3. Sound(n) \/ GivenAway(n)
    BY <2>2, NewMapIs
  <2>4. IInv'
    BY <2>1, <2>3, <1>1, DoesBothInv
  <2>5. /\ Abs' = [z \in Maps |-> IF z = y THEN g
                                  ELSE IF z = x THEN FunctionOf(map[y]) ELSE Abs[z]]
        /\ FM!Returns("None", None)
        /\ call' = [op |-> "move", on |-> x, from |-> y]
    BY <2>1, <2>3, <1>1, DoesBothAbs
  <2>6. ASSUME ~AnyHint
        PROVE  FM!Next
    <3> DEFINE f == Abs[y]
    <3>1. f = FM!Empty <=> Size(map[y]) = 0
      <4>1. /\ f = [k \in DOMAIN f |-> f[k]]
            /\ DOMAIN f = {map[y].keys[i] : i \in 1 .. Size(map[y])}
        BY <1>1, <2>6, FunctionIs
      <4>2. Size(map[y]) \in Nat
        BY <1>1, SoundFacts
      <4> DEFINE e == FM!Empty
      <4>3. e = [k \in DOMAIN e |-> e[k]] /\ DOMAIN e = {}
        BY DEF FM!Empty
      <4> HIDE DEF e, f
      <4>4. ASSUME Size(map[y]) = 0
            PROVE  f = e
        <5>1. DOMAIN f = {}
          BY <4>1, <4>4
        <5> QED BY <5>1, <4>1, <4>3
      <4>5. ASSUME Size(map[y]) # 0
            PROVE  DOMAIN f # {}
        <5>1. 1 \in 1 .. Size(map[y])
          BY <4>2, <4>5
        <5> QED BY <5>1, <4>1
      <4> QED BY <4>3, <4>4, <4>5 DEF e
    <3>2. g = IF f = FM!Empty THEN f ELSE Moved
      <4>1. CASE Size(map[y]) = 0
        BY <4>1, <2>2, <2>6, <3>1, NewMapIs, HasAllIs
      <4>2. CASE Size(map[y]) # 0
        BY <4>2, <2>2, <3>1, HasAllIs
      <4> QED BY <4>1, <4>2
    <3>3. FM!Move(x, y) <=>
            /\ Abs' = [Abs EXCEPT ![x] = Abs[y], ![y] = IF @ = FM!Empty THEN @ ELSE Moved]
            /\ FM!Returns("None", None)
      BY DEF FM!Move, Abs
    <3>4. Abs' = [Abs EXCEPT ![x] = Abs[y], ![y] = IF @ = FM!Empty THEN @ ELSE Moved]
      <4> DEFINE h == [Abs EXCEPT ![x] = Abs[y], ![y] = IF @ = FM!Empty THEN @ ELSE Moved]
      <4>1. h = [z \in Maps |-> h[z]]
        BY <1>2
      <4>2. \A z \in Maps : h[z] = IF z = y THEN IF f = FM!Empty THEN f ELSE Moved
                                   ELSE IF z = x THEN f ELSE Abs[z]
        BY <1>2
      <4>3. \A z \in Maps : Abs'[z] = IF z = y THEN g
                                      ELSE IF z = x THEN FunctionOf(map[y]) ELSE Abs[z]
        BY <2>5
      <4>4. Abs' = [z \in Maps |-> Abs'[z]]
        BY DEF Abs
      <4> HIDE DEF g, h
      <4>5. \A z \in Maps : Abs'[z] = h[z]
        BY <4>2, <4>3, <3>2, <1>1
      <4> QED BY <4>1, <4>4, <4>5 DEF h
    <3>5. FM!Move(x, y)
      BY <2>5, <3>3, <3>4
    <3>6. call'.op = "move" /\ call'.on = x /\ call'.from = y
      BY <2>5
    <3> QED BY <3>5, <3>6, Calling DEF FM!Does
  <2> QED BY <2>4, <2>6
<1>5. CASE Whole(x) /\ Swap(x, y)
  <2>1. DoesBoth("swap", x, map[y], y, map[x])
    BY <1>5 DEF Swap
  <2>2. Sound(map[x]) /\ HasAll(map[x]) /\ Abs[x] = FunctionOf(map[x])
    BY <1>5, HasAllIs, WholeIs, AbsIs DEF IMaps
  <2>3. IInv'
    BY <2>1, <2>2, <1>1, DoesBothInv
  <2>4. /\ Abs' = [z \in Maps |->
                     IF z = y THEN IF HasAll(map[x]) THEN FunctionOf(map[x]) ELSE Moved
                     ELSE IF z = x THEN FunctionOf(map[y]) ELSE Abs[z]]
        /\ FM!Returns("None", None)
        /\ call' = [op |-> "swap", on |-> x, from |-> y]
    BY <2>1, <2>2, <1>1, DoesBothAbs
  <2>5. Abs' = [Abs EXCEPT ![x] = Abs[y], ![y] = Abs[x]]
    BY <2>2, <2>4, <1>1, <1>2
  <2>6. FM!Swap(x, y) <=> /\ Abs' = [Abs EXCEPT ![x] = Abs[y], ![y] = Abs[x]]
                          /\ FM!Returns("None", None)
    BY DEF FM!Swap, Abs
  <2>7. FM!Swap(x, y)
    BY <2>4, <2>5, <2>6
  <2>8. call'.op = "swap" /\ call'.on = x /\ call'.from = y
    BY <2>4
  <2> QED BY <2>3, <2>7, <2>8, Calling DEF FM!Does
<1> QED
  BY <1>3, <1>4, <1>5

LEMMA NextStep ==
  ASSUME IInv, Next
  PROVE  IInv' /\ (~AnyHint => FM!Next)
<1>1. IMaps
  BY DEF IInv
<1>2. CASE \E x \in Maps :
             /\ Whole(x)
             /\ AddPair(x) \/ AddPairs(x) \/ UseKey(x) \/ EraseAt(x)
  BY <1>1, <1>2, AddPairStep, AddPairsStep, UseKeyStep, EraseAtStep
<1>3. CASE \E x \in Maps : Clear(x) \/ Rebuild(x)
  BY <1>1, <1>3, ClearStep, RebuildStep
<1>4. CASE \E x, y \in Maps :
             /\ x # y /\ Whole(y)
             /\ Copy(x, y) \/ Move(x, y) \/ (Whole(x) /\ Swap(x, y))
  BY <1>1, <1>4, PairStep
<1> QED
  BY <1>2, <1>3, <1>4 DEF Next

LEMMA StutterStep ==
  ASSUME IInv, UNCHANGED vars
  PROVE  IInv' /\ UNCHANGED Abs /\ UNCHANGED AbsRet /\ UNCHANGED call
<1>1. map' = map /\ call' = call /\ ret' = ret
  BY DEF vars
<1> QED
  BY <1>1 DEF IInv, IMaps, IRet, Abs, AbsRet, Whole

LEMMA Invariance == Spec => []IInv
<1>1. Init => IInv
  BY InitInv
<1>2. IInv /\ [Next]_vars => IInv'
  BY NextStep, StutterStep
<1> QED
  BY <1>1, <1>2, PTL DEF Spec

-----------------------------------------------------------------------------
(* The theorems.                                                           *)

\* The state keeps its types, with any hints: at most N keys and values, and
\* iterators that stand in their map or at its end.
THEOREM TypeCorrect == Spec => []TypeOK
<1>1. ASSUME IInv
      PROVE  TypeOK
  <2> DEFINE M == [keys : BoundedSeq(Keys \cup {Moved}, N),
                   values : BoundedSeq(Values \cup {Moved}, N)]
  <2>1. \A x \in Maps : map[x] \in M
    <3> SUFFICES ASSUME NEW x \in Maps
                 PROVE  map[x] \in M
      OBVIOUS
    <3>1. N \in Nat
      BY MapAssumption
    <3>2. /\ map[x] = [keys |-> map[x].keys, values |-> map[x].values]
          /\ map[x].keys \in Seq(Keys \cup {Moved}) /\ Len(map[x].keys) <= N
          /\ map[x].values \in Seq(Values \cup {Moved}) /\ Len(map[x].values) <= N
      <4>1. CASE Sound(map[x])
        BY <4>1, SeqMonotonic DEF Sound
      <4>2. CASE GivenAway(map[x])
        <5>1. Len(map[x].keys) <= N
          BY <4>2, <3>1 DEF GivenAway
        <5> QED BY <4>2, <5>1, SeqMonotonic DEF GivenAway
      <4> QED BY <4>1, <4>2, <1>1 DEF IInv, IMaps
    <3>3. /\ map[x].keys \in BoundedSeq(Keys \cup {Moved}, N)
          /\ map[x].values \in BoundedSeq(Values \cup {Moved}, N)
      BY <3>1, <3>2, BoundedSeqs
    <3> QED BY <3>2, <3>3
  <2>2. map = [x \in Maps |-> map[x]]
    BY <1>1 DEF IInv, IMaps
  <2>3. map \in [Maps -> M]
    <3> HIDE DEF M
    <3> QED BY <2>1, <2>2
  <2>4. /\ ret.code \in Codes
        /\ ret.at \in -1 .. IF call.op = "none" THEN -1 ELSE Size(map[call.on])
    BY <1>1 DEF IInv, IRet
  <2> QED BY <2>3, <2>4 DEF TypeOK, Codes
<1> QED
  BY <1>1, Invariance, PTL

\* No call, the ones that end halfway included, leaves more values than keys
\* or more keys than values, with any hints.
THEOREM StaysParallel == Spec => []Parallel
<1>1. IInv => Parallel
  BY DEF IInv, IMaps, Parallel, Sound, GivenAway
<1> QED
  BY <1>1, Invariance, PTL

\* The keys that std::lower_bound searches stay strictly ascending as long as
\* no hint stands before its key's place.
THEOREM StaysAscending ==
  ASSUME ~AnyHint
  PROVE  Spec => []KeysAscend
<1>1. ASSUME IInv
      PROVE  KeysAscend
  <2> SUFFICES ASSUME NEW x \in Maps, Whole(x)
               PROVE  \A i, j \in DOMAIN map[x].keys :
                        i < j => map[x].keys[i] < map[x].keys[j]
    BY DEF KeysAscend
  <2>1. Sound(map[x])
    BY <1>1, HasAllIs, WholeIs DEF IInv, IMaps
  <2>2. DOMAIN map[x].keys = 1 .. Len(map[x].keys)
    BY <2>1, SoundFacts
  <2> QED BY <2>1, <2>2 DEF Sound, Ascends
<1> QED
  BY <1>1, Invariance, PTL

\* Each method does to the map, and returns, what it does to a finite function
\* of at most N keys, as long as no hint stands before its key's place.
THEOREM ImplementsFiniteMap ==
  ASSUME ~AnyHint
  PROVE  Spec => RefinesFiniteMap
<1>1. Init => FM!Init
  <2> SUFFICES ASSUME Init
               PROVE  FM!Init
    OBVIOUS
  <2>1. FM!Init <=> /\ Abs = [x \in Maps |-> FM!Empty]
                    /\ call = [op |-> "none"]
                    /\ AbsRet = [code |-> "None", at |-> None]
    BY DEF FM!Init, Abs, AbsRet
  <2>2. \A x \in Maps : Abs[x] = FM!Empty
    <3> SUFFICES ASSUME NEW x \in Maps
                 PROVE  Abs[x] = FM!Empty
      OBVIOUS
    <3>1. map[x] = NewMap
      BY DEF Init
    <3>2. Whole(x)
      BY <3>1, NewMapIs, HasAllIs, WholeIs
    <3> QED BY <3>1, <3>2, AbsIs, NewMapIs
  <2>3. Abs = [x \in Maps |-> Abs[x]]
    BY DEF Abs
  <2>4. AbsRet = [code |-> "None", at |-> None]
    BY DEF Init, AbsRet
  <2> QED BY <2>1, <2>2, <2>3, <2>4 DEF Init
<1>2. IInv /\ [Next]_vars => [FM!Next]_FM!vars
  <2>1. ASSUME IInv, Next
        PROVE  FM!Next
    BY <2>1, NextStep
  <2>2. ASSUME IInv, UNCHANGED vars
        PROVE  UNCHANGED FM!vars
    BY <2>2, StutterStep DEF FM!vars, Abs, AbsRet
  <2> QED BY <2>1, <2>2
<1> QED
  BY <1>1, <1>2, Invariance, PTL DEF Spec, RefinesFiniteMap, FM!Spec
=============================================================================
