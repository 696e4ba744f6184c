----------------------------- MODULE ParseProofs -----------------------------
(***************************************************************************)
(* Theorems about Parse, for every line, every buffer and whatever lies    *)
(* behind it.                                                              *)
(*                                                                         *)
(* The properties are about the parser's result, not about how it comes    *)
(* about, so the invariant (ParseInv) is short: the typed line lies in the *)
(* buffer when it is parsed.  The work is in parse_cmd().  Its searches    *)
(* are described by what they find (SkipBlanksIs, ToBlankFinds, StrIs),    *)
(* and words are counted by their starts (Rank), in the line.  Shows       *)
(* connects the two: from some place on, memory holds what is left of the  *)
(* line.  Cutting off a word that a blank closes keeps it true behind the  *)
(* blank (CutShows); behind the last word of a line that no blank closes   *)
(* it is lost, and arguments can only be added (LoopSound).                *)
(***************************************************************************)
EXTENDS Parse, WellFoundedInduction, SequenceTheorems, FiniteSetTheorems,
        TLAPS

\* Memory of n places, from 0 on.
IsMem(m, n) == n \in Nat /\ DOMAIN m = 0 .. n - 1

\* From place s on, memory holds what is left of a line, and a NUL.
Shows(m, t, s) ==
    /\ Len(t) < End(m)
    /\ s \in 0 .. Len(t)
    /\ \A j \in s .. Len(t) - 1 : m[j] = t[j + 1]
    /\ m[Len(t)] = NUL

\* A line has no NUL.
IsLine(t) == IsText(t) /\ \A k \in 1 .. Len(t) : t[k] # NUL

----------------------------------------------------------------------------
\* A set of numbers has a least one, and Min finds it.
LEMMA Least ==
    ASSUME NEW T, T \subseteq Nat, T # {}
    PROVE  \E m \in T : \A k \in T : m <= k
<1>1. PICK m \in T : \A k \in T : ~(<<k, m>> \in OpToRel(<, Nat))
  BY NatLessThanWellFounded, WFMin
<1>2. \A k \in T : ~(k < m)
  BY <1>1 DEF OpToRel
<1>3. m \in Nat /\ \A k \in T : k \in Nat
  OBVIOUS
<1>4. \A k \in T : m <= k
  BY <1>2, <1>3
<1> QED
  BY <1>4

LEMMA MinIs ==
    ASSUME NEW T, T \subseteq Nat, NEW x \in T, \A y \in T : x <= y
    PROVE  Min(T) = x
<1>1. PICK z : z = Min(T)
  OBVIOUS
<1>2. z = CHOOSE w \in T : \A y \in T : w <= y
  BY <1>1 DEF Min
<1>3. z \in T /\ \A y \in T : z <= y
  BY <1>2
<1>4. z <= x /\ x <= z /\ z \in Nat /\ x \in Nat
  BY <1>3
<1> QED
  BY <1>1, <1>4

\* Searching from i to at most i + n for a place that is in G.
LEMMA MinFrom ==
    ASSUME NEW G, NEW i \in Nat, NEW n \in Nat, i + n \in G
    PROVE  LET x == Min({j \in i .. i + n : j \in G})
           IN  /\ x \in i .. i + n
               /\ x \in G
               /\ \A j \in i .. x - 1 : j \notin G
<1> DEFINE T == {j \in i .. i + n : j \in G}
<1>1. T \subseteq Nat /\ T # {} /\ \A j \in T : j \in i .. i + n /\ j \in G
  <2>1. i + n \in T
    OBVIOUS
  <2> QED
    BY <2>1
<1>2. PICK x \in T : \A y \in T : x <= y
  <2> HIDE DEF T
  <2> QED
    BY <1>1, Least
<1>3. Min(T) = x
  <2> HIDE DEF T
  <2> QED
    BY <1>1, <1>2, MinIs
<1>4. x \in i .. i + n /\ x \in G
  BY <1>1
<1>5. ASSUME NEW j \in i .. x - 1, j \in G PROVE FALSE
  <2>1. j \in T /\ ~(x <= j)
    BY <1>4, <1>5
  <2> HIDE DEF T
  <2> QED
    BY <1>2, <2>1
<1> HIDE DEF T
<1>6. /\ Min(T) \in i .. i + n
      /\ Min(T) \in G
      /\ \A j \in i .. Min(T) - 1 : j \notin G
  BY <1>3, <1>4, <1>5
<1> QED
  BY <1>6 DEF T

\* And the only such place.
LEMMA OnlyFirst ==
    ASSUME NEW G, NEW i \in Nat,
           NEW x \in Nat, x >= i, x \in G, \A j \in i .. x - 1 : j \notin G,
           NEW y \in Nat, y >= i, y \in G, \A j \in i .. y - 1 : j \notin G
    PROVE  x = y
<1>1. ~(x < y)
  OBVIOUS
<1>2. ~(y < x)
  OBVIOUS
<1> QED
  BY <1>1, <1>2

----------------------------------------------------------------------------
\* The loops that look for a blank, for something else, for a NUL.
LEMMA NulNoBlank == ~IsBlank(NUL)
BY Zenon DEF IsBlank, NUL

LEMMA Places ==
    ASSUME NEW m, NEW n, IsMem(m, n)
    PROVE  End(m) = n
<1>1. 0 \in Int /\ n - 1 \in Int /\ n \in Nat /\ DOMAIN m = 0 .. n - 1
  BY DEF IsMem
<1>2. Cardinality(0 .. n - 1) = IF 0 > n - 1 THEN 0 ELSE (n - 1) - 0 + 1
  BY <1>1, FS_Interval
<1>3. Cardinality(0 .. n - 1) = n
  BY <1>1, <1>2
<1> QED
  BY <1>1, <1>3 DEF End

LEMMA SkipBlanksFinds ==
    ASSUME NEW m, NEW n, IsMem(m, n), NEW i \in Nat
    PROVE  /\ SkipBlanks(m, i) \in i .. i + n
           /\ ~IsBlank(Char(m, SkipBlanks(m, i)))
           /\ \A j \in i .. SkipBlanks(m, i) - 1 : IsBlank(Char(m, j))
<1> DEFINE G == {j \in Nat : ~IsBlank(Char(m, j))}
<1>1. n \in Nat /\ Ahead(m, i) = i .. i + n
  BY Places DEF IsMem, Ahead
<1>2. i + n \in G
  <2>1. i + n \notin DOMAIN m
    BY <1>1 DEF IsMem
  <2>2. Char(m, i + n) = NUL
    BY <2>1 DEF Char
  <2>3. i + n \in Nat
    BY <1>1
  <2> QED
    BY <2>2, <2>3, NulNoBlank
<1>3. SkipBlanks(m, i) = Min({j \in i .. i + n : j \in G})
  <2>1. \A j \in i .. i + n : j \in Nat
    BY <1>1
  <2>2. {j \in i .. i + n : j \in G}
            = {j \in i .. i + n : ~IsBlank(Char(m, j))}
    BY <2>1
  <2> QED
    BY <1>1, <2>2 DEF SkipBlanks
<1>4. PICK x : x = Min({j \in i .. i + n : j \in G})
  OBVIOUS
<1>5. x \in i .. i + n /\ x \in G /\ \A j \in i .. x - 1 : j \notin G
  <2> HIDE DEF G
  <2> QED
    BY <1>1, <1>2, <1>4, MinFrom
<1>6. \A j \in i .. x - 1 : j \in Nat
  BY <1>5
<1>7. ~IsBlank(Char(m, x)) /\ \A j \in i .. x - 1 : IsBlank(Char(m, j))
  BY <1>5, <1>6
<1> QED
  BY <1>3, <1>4, <1>5, <1>7

LEMMA SkipBlanksIs ==
    ASSUME NEW m, NEW n, IsMem(m, n), NEW i \in Nat, NEW x \in Nat, x >= i,
           ~IsBlank(Char(m, x)), \A j \in i .. x - 1 : IsBlank(Char(m, j))
    PROVE  SkipBlanks(m, i) = x
<1> DEFINE G == {j \in Nat : ~IsBlank(Char(m, j))}
<1>1. PICK y : y = SkipBlanks(m, i)
  OBVIOUS
<1>2. /\ y \in i .. i + n /\ ~IsBlank(Char(m, y))
      /\ \A j \in i .. y - 1 : IsBlank(Char(m, j))
  BY <1>1, SkipBlanksFinds
<1>3. y \in Nat /\ y >= i
  BY <1>2 DEF IsMem
<1>4. x \in G /\ y \in G
  BY <1>2, <1>3
<1>5. /\ \A j \in i .. x - 1 : j \notin G
      /\ \A j \in i .. y - 1 : j \notin G
  BY <1>2
<1>6. x = y
  <2> HIDE DEF G
  <2> QED
    BY <1>3, <1>4, <1>5, OnlyFirst
<1> QED
  BY <1>1, <1>6

LEMMA ToBlankFinds ==
    ASSUME NEW m, NEW n, IsMem(m, n), NEW i \in Nat
    PROVE  /\ ToBlank(m, i) \in i .. i + n
           /\ IsBlank(Char(m, ToBlank(m, i))) \/ ToBlank(m, i) >= n
           /\ \A j \in i .. ToBlank(m, i) - 1 :
                  ~IsBlank(Char(m, j)) /\ j < n
<1> DEFINE G == {j \in Nat : IsBlank(Char(m, j)) \/ j >= n}
<1>1. n \in Nat /\ Ahead(m, i) = i .. i + n /\ End(m) = n
  BY Places DEF IsMem, Ahead
<1>2. i + n \in G
  BY <1>1
<1>3. ToBlank(m, i) = Min({j \in i .. i + n : j \in G})
  <2>1. \A j \in i .. i + n : j \in Nat
    BY <1>1
  <2>2. {j \in i .. i + n : j \in G}
            = {j \in i .. i + n : IsBlank(Char(m, j)) \/ j >= n}
    BY <2>1
  <2> QED
    BY <1>1, <2>2 DEF ToBlank
<1>4. PICK x : x = Min({j \in i .. i + n : j \in G})
  OBVIOUS
<1>5. x \in i .. i + n /\ x \in G /\ \A j \in i .. x - 1 : j \notin G
  <2> HIDE DEF G
  <2> QED
    BY <1>1, <1>2, <1>4, MinFrom
<1>6. \A j \in i .. x - 1 : j \in Nat
  BY <1>5
<1>7. /\ IsBlank(Char(m, x)) \/ x >= n
      /\ \A j \in i .. x - 1 : ~IsBlank(Char(m, j)) /\ ~(j >= n)
  BY <1>5, <1>6
<1>8. \A j \in i .. x - 1 : ~(j >= n) => j < n
  BY <1>1, <1>6
<1> QED
  BY <1>3, <1>4, <1>5, <1>7, <1>8

\* The string at place i, up to the NUL at place x.
LEMMA StrIs ==
    ASSUME NEW m, NEW n, IsMem(m, n), NEW i \in Nat, NEW x \in Nat, x >= i,
           Char(m, x) = NUL, \A j \in i .. x - 1 : Char(m, j) # NUL
    PROVE  Str(m, i) = [k \in 1 .. x - i |-> m[i + k - 1]]
<1> DEFINE G == {j \in Nat : Char(m, j) = NUL}
<1>1. n \in Nat /\ Ahead(m, i) = i .. i + n
  BY Places DEF IsMem, Ahead
<1>2. i + n \in G
  <2>1. i + n \notin DOMAIN m /\ i + n \in Nat
    BY <1>1 DEF IsMem
  <2> QED
    BY <2>1 DEF Char
<1>3. \A j \in i .. i + n : j \in Nat
  BY <1>1
<1>4. {j \in i .. i + n : j \in G} = {j \in Ahead(m, i) : Char(m, j) = NUL}
  BY <1>1, <1>3
<1>5. PICK y : y = Min({j \in i .. i + n : j \in G})
  OBVIOUS
<1>6. y \in i .. i + n /\ y \in G /\ \A j \in i .. y - 1 : j \notin G
  <2> HIDE DEF G
  <2> QED
    BY <1>1, <1>2, <1>5, MinFrom
<1>7. y \in Nat /\ y >= i /\ x \in G /\ \A j \in i .. x - 1 : j \notin G
  BY <1>1, <1>6
<1>8. x = y
  <2> HIDE DEF G
  <2> QED
    BY <1>6, <1>7, OnlyFirst
<1> QED
  BY <1>4, <1>5, <1>8 DEF Str

\* Whatever memory holds, it holds a string there.
LEMMA StrSome ==
    ASSUME NEW m, NEW n, IsMem(m, n), NEW i \in Nat
    PROVE  \E x \in Nat : DOMAIN Str(m, i) = 1 .. x
<1> DEFINE G == {j \in Nat : Char(m, j) = NUL}
<1>1. n \in Nat /\ Ahead(m, i) = i .. i + n
  BY Places DEF IsMem, Ahead
<1>2. i + n \in G
  <2>1. i + n \notin DOMAIN m /\ i + n \in Nat
    BY <1>1 DEF IsMem
  <2> QED
    BY <2>1 DEF Char
<1>3. \A j \in i .. i + n : j \in Nat
  BY <1>1
<1>4. {j \in i .. i + n : j \in G} = {j \in Ahead(m, i) : Char(m, j) = NUL}
  BY <1>1, <1>3
<1>5. PICK y : y = Min({j \in i .. i + n : j \in G})
  OBVIOUS
<1>6. y \in i .. i + n
  <2> HIDE DEF G
  <2> QED
    BY <1>1, <1>2, <1>5, MinFrom
<1>7. y - i \in Nat
  BY <1>1, <1>6
<1>8. DOMAIN Str(m, i) = 1 .. y - i
  BY <1>4, <1>5 DEF Str
<1> QED
  BY <1>7, <1>8

\* Cutting a word off changes one place at most.
LEMMA CutIs ==
    ASSUME NEW m, NEW n, IsMem(m, n), NEW i
    PROVE  /\ IsMem(Cut(m, i), n)
           /\ \A j : j # i => Cut(m, i)[j] = m[j]
           /\ i \in 0 .. n - 1 => Cut(m, i)[i] = NUL
BY DEF Cut, IsMem

----------------------------------------------------------------------------
\* The words of a line.
LEMMA LineFacts ==
    ASSUME NEW t, IsLine(t)
    PROVE  /\ Len(t) \in Nat
           /\ DOMAIN t = 1 .. Len(t)
           /\ t \in Seq(ToSet(t))
<1>1. t \in Seq(ToSet(t))
  BY DEF IsLine, IsText
<1> QED
  BY <1>1, LenProperties

\* Between the words there is no word.
LEMMA Gap ==
    ASSUME NEW t, IsLine(t), NEW lo \in Nat, NEW hi \in Nat, NoWord(t, lo),
           \A j \in Starts(t) : ~(lo < j /\ j <= hi)
    PROVE  \A k \in lo .. hi : NoWord(t, k)
<1> DEFINE T == {k \in lo .. hi : ~NoWord(t, k)}
<1> SUFFICES ASSUME T # {} PROVE FALSE
  OBVIOUS
<1>1. PICK k \in T : \A j \in T : k <= j
  <2>1. T \subseteq Nat
    OBVIOUS
  <2> HIDE DEF T
  <2> QED
    BY <2>1, Least
<1>2. k \in lo .. hi /\ ~NoWord(t, k)
  OBVIOUS
<1>3. k # lo
  BY <1>2
<1>4. k - 1 \in lo .. hi /\ ~(k <= k - 1) /\ lo < k /\ k <= hi
  BY <1>2, <1>3
<1>5. NoWord(t, k - 1)
  <2>1. k - 1 \notin T
    <3> HIDE DEF T
    <3> QED
      BY <1>1, <1>4
  <2> QED
    BY <1>4, <2>1
<1>6. k \in DOMAIN t
  BY <1>2 DEF NoWord
<1>7. k \in Starts(t)
  BY <1>2, <1>5, <1>6 DEF Starts
<1> QED
  BY <1>4, <1>7

\* A word goes from its start to its stop.
LEMMA StartFacts ==
    ASSUME NEW t, IsLine(t), NEW i \in Starts(t)
    PROVE  /\ i \in 1 .. Len(t) /\ i \in Nat /\ i - 1 \in Nat
           /\ ~NoWord(t, i) /\ NoWord(t, i - 1)
BY LineFacts DEF Starts

LEMMA StopFacts ==
    ASSUME NEW t, IsLine(t), NEW i \in Starts(t)
    PROVE  /\ Stop(t, i) \in i .. Len(t)
           /\ \A k \in i .. Stop(t, i) : ~NoWord(t, k)
           /\ NoWord(t, Stop(t, i) + 1)
<1> DEFINE G == {j \in Nat : NoWord(t, j)}
<1>1. PICK l : l = Len(t)
  OBVIOUS
<1>2. l \in Nat /\ i \in 1 .. l /\ ~NoWord(t, i)
  BY <1>1, LineFacts, StartFacts
<1>3. PICK n : n = l + 1 - i
  OBVIOUS
<1>4. n \in Nat /\ i + n = l + 1 /\ i \in Nat
  BY <1>2, <1>3
<1>5. i + n \in G
  BY <1>1, <1>4, LineFacts DEF NoWord
<1>6. PICK x : x = Min({j \in i .. i + n : j \in G})
  OBVIOUS
<1>7. x \in i .. i + n /\ x \in G /\ \A j \in i .. x - 1 : j \notin G
  <2> HIDE DEF G
  <2> QED
    BY <1>4, <1>5, <1>6, MinFrom
<1>8. Stop(t, i) = x - 1
  <2>1. \A j \in i .. l + 1 : j \in Nat
    BY <1>2
  <2>2. {j \in i .. i + n : j \in G} = {j \in i .. l + 1 : NoWord(t, j)}
    BY <1>4, <2>1
  <2> QED
    BY <1>1, <1>6, <2>2 DEF Stop
<1>9. x # i /\ NoWord(t, x) /\ \A j \in i .. x - 1 : ~NoWord(t, j)
  BY <1>2, <1>4, <1>7
<1>10. x - 1 \in i .. l /\ (x - 1) + 1 = x
  BY <1>2, <1>4, <1>7, <1>9
<1> QED
  BY <1>1, <1>8, <1>9, <1>10

\* The next word starts behind the blank behind this one.
LEMMA LaterStart ==
    ASSUME NEW t, IsLine(t), NEW i \in Starts(t), NEW j \in Starts(t), i < j
    PROVE  Stop(t, i) + 1 < j /\ Stop(t, i) < Len(t)
<1>1. /\ i \in Nat /\ j \in 1 .. Len(t) /\ Len(t) \in Nat
      /\ NoWord(t, j - 1)
  BY StartFacts, LineFacts
<1>2. /\ Stop(t, i) \in i .. Len(t)
      /\ \A k \in i .. Stop(t, i) : ~NoWord(t, k)
  BY StopFacts
<1>3. j - 1 \notin i .. Stop(t, i)
  BY <1>1, <1>2
<1> QED
  BY <1>1, <1>2, <1>3

----------------------------------------------------------------------------
\* Words are counted in the order in which they start.
LEMMA FiniteStarts ==
    ASSUME NEW t, IsLine(t)
    PROVE  /\ IsFiniteSet(Starts(t))
           /\ Cardinality(Starts(t)) \in 0 .. Len(t)
<1>1. Len(t) \in Nat /\ Starts(t) \subseteq 1 .. Len(t)
  BY LineFacts DEF Starts
<1>2. IsFiniteSet(1 .. Len(t)) /\ Cardinality(1 .. Len(t)) = Len(t)
  <2>1. /\ IsFiniteSet(1 .. Len(t))
        /\ Cardinality(1 .. Len(t))
               = IF 1 > Len(t) THEN 0 ELSE Len(t) - 1 + 1
    BY <1>1, FS_Interval
  <2> QED
    BY <1>1, <2>1
<1>3. /\ IsFiniteSet(Starts(t))
      /\ Cardinality(Starts(t)) <= Cardinality(1 .. Len(t))
  BY <1>1, <1>2, FS_Subset
<1>4. Cardinality(Starts(t)) \in Nat
  BY <1>3, FS_CardinalityType
<1> QED
  BY <1>1, <1>2, <1>3, <1>4

UpTo(t, i) == {j \in Starts(t) : j <= i}

LEMMA UpToFinite ==
    ASSUME NEW t, IsLine(t), NEW i
    PROVE  /\ IsFiniteSet(UpTo(t, i))
           /\ Rank(t, i) = Cardinality(UpTo(t, i))
           /\ Rank(t, i) \in 0 .. Cardinality(Starts(t))
<1>1. UpTo(t, i) \in SUBSET Starts(t)
  BY DEF UpTo
<1>2. /\ IsFiniteSet(Starts(t))
      /\ Cardinality(Starts(t)) \in Nat
  BY FiniteStarts, FS_CardinalityType
<1>3. /\ IsFiniteSet(UpTo(t, i))
      /\ Cardinality(UpTo(t, i)) <= Cardinality(Starts(t))
  BY <1>1, <1>2, FS_Subset
<1>4. Cardinality(UpTo(t, i)) \in Nat
  BY <1>3, FS_CardinalityType
<1>5. Rank(t, i) = Cardinality(UpTo(t, i))
  BY DEF Rank, UpTo
<1> QED
  BY <1>2, <1>3, <1>4, <1>5

LEMMA RankFirst ==
    ASSUME NEW t, IsLine(t), NEW i \in Starts(t), \A j \in Starts(t) : i <= j
    PROVE  Rank(t, i) = 1
<1>1. \A j \in Starts(t) : j \in Nat
  BY StartFacts
<1>2. UpTo(t, i) = {i}
  BY <1>1 DEF UpTo
<1> QED
  BY <1>2, UpToFinite, FS_Singleton

LEMMA RankNext ==
    ASSUME NEW t, IsLine(t), NEW i \in Starts(t), NEW j \in Starts(t), i < j,
           \A k \in Starts(t) : k <= i \/ j <= k
    PROVE  Rank(t, j) = Rank(t, i) + 1
<1>1. \A k \in Starts(t) : k \in Nat
  BY StartFacts
<1>2. UpTo(t, j) = UpTo(t, i) \cup {j} /\ j \notin UpTo(t, i)
  BY <1>1 DEF UpTo
<1>3. IsFiniteSet(UpTo(t, i))
  BY UpToFinite
<1>4. Cardinality(UpTo(t, j)) = Cardinality(UpTo(t, i)) + 1
  BY <1>2, <1>3, FS_AddElement
<1> QED
  BY <1>4, UpToFinite

LEMMA RankOnly ==
    ASSUME NEW t, IsLine(t), NEW i \in Starts(t), NEW j \in Starts(t),
           Rank(t, i) = Rank(t, j)
    PROVE  i = j
<1>0. i \in Nat /\ j \in Nat
  BY StartFacts
<1>1. ASSUME NEW x \in Starts(t), NEW y \in Starts(t), x < y,
             Rank(t, x) = Rank(t, y)
      PROVE  FALSE
  <2>1. x \in Nat /\ y \in Nat /\ \A k \in Starts(t) : k \in Nat
    BY StartFacts
  <2>2. UpTo(t, x) \in SUBSET UpTo(t, y)
    <3>1. \A k \in Starts(t) : k <= x => k <= y
      BY <1>1, <2>1
    <3> QED
      BY <3>1 DEF UpTo
  <2>3. y \in UpTo(t, y) /\ y \notin UpTo(t, x)
    BY <1>1, <2>1 DEF UpTo
  <2>4. /\ IsFiniteSet(UpTo(t, y))
        /\ Cardinality(UpTo(t, y)) = Cardinality(UpTo(t, x))
    <3>1. Rank(t, x) = Cardinality(UpTo(t, x))
      BY UpToFinite
    <3>2. Rank(t, y) = Cardinality(UpTo(t, y)) /\ IsFiniteSet(UpTo(t, y))
      BY UpToFinite
    <3> QED
      BY <1>1, <3>1, <3>2
  <2>5. UpTo(t, y) = UpTo(t, x)
    BY <2>2, <2>4, FS_Subset
  <2> QED
    BY <2>3, <2>5
<1>2. ~(i < j) /\ ~(j < i)
  BY <1>1
<1> QED
  BY <1>0, <1>2

LEMMA FirstStart ==
    ASSUME NEW t, IsLine(t), Starts(t) # {}
    PROVE  \E i \in Starts(t) : \A j \in Starts(t) : i <= j
<1>1. Starts(t) \subseteq Nat
  BY StartFacts
<1> QED
  BY <1>1, Least

LEMMA NextStart ==
    ASSUME NEW t, IsLine(t), NEW i \in Starts(t),
           Rank(t, i) < Cardinality(Starts(t))
    PROVE  \E j \in Starts(t) :
               i < j /\ \A k \in Starts(t) : k <= i \/ j <= k
<1> DEFINE T == {j \in Starts(t) : i < j}
<1>1. \A k \in Starts(t) : k \in Nat
  BY StartFacts
<1>2. T # {}
  <2> SUFFICES ASSUME T = {} PROVE FALSE
    OBVIOUS
  <2>1. \A j \in Starts(t) : j <= i
    BY <1>1
  <2>2. UpTo(t, i) = Starts(t)
    BY <2>1 DEF UpTo
  <2>3. Rank(t, i) = Cardinality(Starts(t))
    BY <2>2, UpToFinite
  <2>4. Cardinality(Starts(t)) \in Nat
    BY FiniteStarts, FS_CardinalityType
  <2> QED
    BY <2>3, <2>4
<1>3. PICK j \in T : \A k \in T : j <= k
  <2>1. T \subseteq Nat
    BY <1>1
  <2> HIDE DEF T
  <2> QED
    BY <1>2, <2>1, Least
<1>4. j \in Starts(t) /\ i < j
  OBVIOUS
<1>5. ASSUME NEW k \in Starts(t) PROVE k <= i \/ j <= k
  <2>1. i \in Nat /\ k \in Nat
    BY <1>1
  <2>2. CASE i < k
    <3>1. k \in T
      BY <2>2
    <3> HIDE DEF T
    <3> QED
      BY <1>3, <3>1
  <2> QED
    BY <2>1, <2>2
<1> QED
  BY <1>4, <1>5

LEMMA NoNext ==
    ASSUME NEW t, IsLine(t), NEW i \in Starts(t),
           Rank(t, i) = Cardinality(Starts(t))
    PROVE  \A j \in Starts(t) : j <= i
<1>1. UpTo(t, i) \in SUBSET Starts(t)
  BY DEF UpTo
<1>2. IsFiniteSet(Starts(t))
  BY FiniteStarts
<1>3. Cardinality(Starts(t)) = Cardinality(UpTo(t, i))
  BY UpToFinite
<1>4. Starts(t) = UpTo(t, i)
  BY <1>1, <1>2, <1>3, FS_Subset
<1> QED
  BY <1>4 DEF UpTo

LEMMA WordsAre ==
    ASSUME NEW t, IsLine(t)
    PROVE  /\ DOMAIN Words(t) = 1 .. Cardinality(Starts(t))
           /\ Len(Words(t)) = Cardinality(Starts(t))
           /\ Cardinality(Starts(t)) \in Nat
           /\ \A i \in Starts(t) : /\ Rank(t, i) \in DOMAIN Words(t)
                                   /\ Words(t)[Rank(t, i)]
                                          = SubSeq(t, i, Stop(t, i))
<1>1. PICK n : n = Cardinality(Starts(t))
  OBVIOUS
<1>2. n \in Nat
  BY <1>1, FiniteStarts, FS_CardinalityType
<1>3. DOMAIN Words(t) = 1 .. n
  BY <1>1 DEF Words
<1>4. Len(Words(t)) = n
  BY <1>2, <1>3
<1>5. ASSUME NEW i \in Starts(t)
      PROVE  /\ Rank(t, i) \in DOMAIN Words(t)
             /\ Words(t)[Rank(t, i)] = SubSeq(t, i, Stop(t, i))
  <2>1. PICK k : k = Rank(t, i)
    OBVIOUS
  <2>2. k \in 1 .. n
    <3>1. i \in UpTo(t, i) /\ IsFiniteSet(UpTo(t, i))
      BY StartFacts, UpToFinite DEF UpTo
    <3>2. k \in 0 .. n /\ k = Cardinality(UpTo(t, i))
      BY <1>1, <2>1, UpToFinite
    <3>3. k # 0
      BY <3>1, <3>2, FS_EmptySet
    <3> QED
      BY <1>2, <3>2, <3>3
  <2>3. (CHOOSE j \in Starts(t) : Rank(t, j) = k) = i
    <3>1. PICK j : j = CHOOSE x \in Starts(t) : Rank(t, x) = k
      OBVIOUS
    <3>2. j \in Starts(t) /\ Rank(t, j) = k
      BY <2>1, <3>1
    <3>3. j = i
      BY <2>1, <3>2, RankOnly
    <3> QED
      BY <3>1, <3>3
  <2>4. Words(t)[k] =
            LET x == CHOOSE j \in Starts(t) : Rank(t, j) = k
            IN  SubSeq(t, x, Stop(t, x))
    BY <1>1, <2>2 DEF Words
  <2> QED
    BY <1>3, <2>1, <2>2, <2>3, <2>4
<1> QED
  BY <1>1, <1>2, <1>3, <1>4, <1>5

----------------------------------------------------------------------------
\* A line in memory.
LEMMA ShowsFacts ==
    ASSUME NEW m, NEW n, IsMem(m, n), NEW t, IsLine(t),
           NEW s, Shows(m, t, s)
    PROVE  /\ s \in 0 .. Len(t) /\ s \in Nat /\ Len(t) \in 0 .. n - 1
           /\ Char(m, Len(t)) = NUL /\ m[Len(t)] = NUL
           /\ \A j \in s .. Len(t) - 1 :
                  /\ j + 1 \in 1 .. Len(t)
                  /\ Char(m, j) = t[j + 1] /\ m[j] = t[j + 1]
                  /\ Char(m, j) # NUL
                  /\ IsBlank(Char(m, j)) <=> NoWord(t, j + 1)
<1>1. PICK l : l = Len(t)
  OBVIOUS
<1>2. End(m) = n /\ n \in Nat /\ DOMAIN m = 0 .. n - 1
  BY Places DEF IsMem
<1>3. l \in Nat /\ DOMAIN t = 1 .. l /\ \A k \in 1 .. l : t[k] # NUL
  BY <1>1, LineFacts DEF IsLine
<1>4. /\ l < n /\ s \in 0 .. l
      /\ \A j \in s .. l - 1 : m[j] = t[j + 1]
      /\ m[l] = NUL
  BY <1>1, <1>2 DEF Shows
<1>5. l \in DOMAIN m /\ Char(m, l) = NUL
  BY <1>2, <1>3, <1>4 DEF Char
<1>6. ASSUME NEW j \in s .. l - 1
      PROVE  /\ j + 1 \in 1 .. l
             /\ Char(m, j) = t[j + 1]
             /\ Char(m, j) # NUL
             /\ IsBlank(Char(m, j)) <=> NoWord(t, j + 1)
  <2>1. j \in DOMAIN m /\ j + 1 \in 1 .. l
    BY <1>2, <1>3, <1>4
  <2>2. Char(m, j) = t[j + 1]
    BY <1>4, <2>1 DEF Char
  <2>3. NoWord(t, j + 1) <=> IsBlank(t[j + 1])
    BY <1>3, <2>1, Zenon DEF NoWord
  <2> QED
    BY <1>3, <2>1, <2>2, <2>3
<1> QED
  BY <1>1, <1>2, <1>3, <1>4, <1>5, <1>6

LEMMA ShowsLater ==
    ASSUME NEW m, NEW n, IsMem(m, n), NEW t, IsLine(t),
           NEW s, Shows(m, t, s), NEW r \in s .. Len(t)
    PROVE  Shows(m, t, r)
BY ShowsFacts DEF Shows

\* Blanks are skipped up to the next word, or to the end of the line.
LEMMA SkipToWord ==
    ASSUME NEW m, NEW n, IsMem(m, n), NEW t, IsLine(t),
           NEW s, Shows(m, t, s), NoWord(t, s),
           NEW i \in Starts(t), s < i,
           \A j \in Starts(t) : j <= s \/ i <= j
    PROVE  /\ SkipBlanks(m, s) = i - 1
           /\ Char(m, i - 1) # NUL
           /\ Shows(m, t, i - 1)
<1>1. /\ s \in Nat /\ i \in 1 .. Len(t) /\ i \in Nat /\ Len(t) \in Nat
      /\ ~NoWord(t, i)
  BY ShowsFacts, StartFacts, LineFacts
<1>2. \A k \in s .. i - 1 : NoWord(t, k)
  <2>1. \A j \in Starts(t) : j \in Nat
    BY StartFacts
  <2>2. \A j \in Starts(t) : ~(s < j /\ j <= i - 1)
    BY <1>1, <2>1
  <2>3. i - 1 \in Nat
    BY <1>1
  <2> QED
    BY <1>1, <2>2, <2>3, Gap
<1>3. i - 1 \in s .. Len(t) - 1 /\ (i - 1) + 1 = i
  BY <1>1
<1>4. ~IsBlank(Char(m, i - 1)) /\ Char(m, i - 1) # NUL
  BY <1>1, <1>3, ShowsFacts
<1>5. ASSUME NEW j \in s .. (i - 1) - 1 PROVE IsBlank(Char(m, j))
  <2>1. j \in s .. Len(t) - 1 /\ j + 1 \in s .. i - 1
    BY <1>1
  <2> QED
    BY <1>2, <2>1, ShowsFacts
<1>6. SkipBlanks(m, s) = i - 1
  <2>1. i - 1 \in Nat /\ i - 1 >= s
    BY <1>1
  <2> QED
    BY <1>1, <1>4, <1>5, <2>1, SkipBlanksIs
<1>7. Shows(m, t, i - 1)
  <2>1. i - 1 \in s .. Len(t)
    BY <1>1
  <2> QED
    BY <2>1, ShowsLater
<1> QED
  BY <1>4, <1>6, <1>7

LEMMA SkipToEnd ==
    ASSUME NEW m, NEW n, IsMem(m, n), NEW t, IsLine(t),
           NEW s, Shows(m, t, s), NoWord(t, s),
           \A j \in Starts(t) : j <= s
    PROVE  SkipBlanks(m, s) = Len(t) /\ Char(m, Len(t)) = NUL
<1>1. /\ s \in 0 .. Len(t) /\ Len(t) \in Nat /\ s \in Nat
      /\ Char(m, Len(t)) = NUL
  BY ShowsFacts, LineFacts
<1>2. \A k \in s .. Len(t) : NoWord(t, k)
  <2>1. \A j \in Starts(t) : j \in Nat
    BY StartFacts
  <2>2. \A j \in Starts(t) : ~(s < j /\ j <= Len(t))
    BY <1>1, <2>1
  <2> QED
    BY <1>1, <2>2, Gap
<1>3. ASSUME NEW j \in s .. Len(t) - 1 PROVE IsBlank(Char(m, j))
  <2>1. j + 1 \in s .. Len(t)
    BY <1>1
  <2> QED
    BY <1>2, <2>1, ShowsFacts
<1>4. ~IsBlank(Char(m, Len(t))) /\ Len(t) >= s
  BY <1>1, NulNoBlank
<1> QED
  BY <1>1, <1>3, <1>4, SkipBlanksIs

\* The blank behind a word that is not the last of the line is found; behind
\* the last one the search goes on behind the NUL.
LEMMA WordEnd ==
    ASSUME NEW m, NEW n, IsMem(m, n), NEW t, IsLine(t),
           NEW i \in Starts(t), Shows(m, t, i - 1)
    PROVE  /\ ToBlank(m, i - 1) \in Nat
           /\ IF Stop(t, i) < Len(t) THEN ToBlank(m, i - 1) = Stop(t, i)
              ELSE Stop(t, i) = Len(t) /\ ToBlank(m, i - 1) > Len(t)
<1>1. PICK e : e = ToBlank(m, i - 1)
  OBVIOUS
<1>2. PICK st : st = Stop(t, i)
  OBVIOUS
<1>3. PICK l : l = Len(t)
  OBVIOUS
<1>4. i - 1 \in Nat /\ i \in 1 .. l
  BY <1>3, StartFacts
<1>5. /\ e \in i - 1 .. i - 1 + n
      /\ IsBlank(Char(m, e)) \/ e >= n
      /\ \A j \in i - 1 .. e - 1 : ~IsBlank(Char(m, j)) /\ j < n
  BY <1>1, <1>4, ToBlankFinds
<1>6. /\ st \in i .. l
      /\ \A k \in i .. st : ~NoWord(t, k)
      /\ NoWord(t, st + 1)
  BY <1>2, <1>3, StopFacts
<1>7. /\ l \in 0 .. n - 1 /\ Char(m, l) = NUL /\ n \in Nat
      /\ \A j \in i - 1 .. l - 1 : IsBlank(Char(m, j)) <=> NoWord(t, j + 1)
  BY <1>3, ShowsFacts DEF IsMem
<1>8. e \in Nat
  BY <1>4, <1>5, <1>7
<1>9. ASSUME NEW j \in i - 1 .. st - 1 PROVE ~IsBlank(Char(m, j)) /\ j < n
  <2>1. j \in i - 1 .. l - 1 /\ j + 1 \in i .. st
    BY <1>4, <1>6, <1>7
  <2> QED
    BY <1>4, <1>6, <1>7, <2>1
<1>10. e >= st
  <2> SUFFICES ASSUME e < st PROVE FALSE
    BY <1>4, <1>6, <1>7, <1>8
  <2>1. e \in i - 1 .. st - 1
    BY <1>4, <1>5, <1>6, <1>7
  <2> QED
    BY <1>5, <1>7, <1>8, <1>9, <2>1
<1>11. CASE st < l
  <2>1. st \in i - 1 .. l - 1 /\ st < n
    BY <1>4, <1>6, <1>7, <1>11
  <2>2. IsBlank(Char(m, st))
    BY <1>6, <1>7, <2>1
  <2>3. st \notin i - 1 .. e - 1
    BY <1>5, <2>2
  <2>4. e = st
    BY <1>4, <1>6, <1>7, <1>8, <1>10, <2>3
  <2> QED
    BY <1>1, <1>2, <1>3, <1>8, <1>11, <2>4
<1>12. CASE ~(st < l)
  <2>1. st = l
    BY <1>4, <1>6, <1>7, <1>12
  <2>2. e # l
    BY <1>5, <1>7, NulNoBlank
  <2> QED
    BY <1>1, <1>2, <1>3, <1>7, <1>8, <1>10, <1>12, <2>1, <2>2
<1> QED
  BY <1>11, <1>12

\* Cut off there, the word is what the line says.
LEMMA WordStr ==
    ASSUME NEW m, NEW n, IsMem(m, n), NEW t, IsLine(t),
           NEW i \in Starts(t), Shows(m, t, i - 1)
    PROVE  Str(Cut(m, ToBlank(m, i - 1)), i - 1) = SubSeq(t, i, Stop(t, i))
<1>1. PICK e : e = ToBlank(m, i - 1)
  OBVIOUS
<1>2. PICK st : st = Stop(t, i)
  OBVIOUS
<1>3. PICK l : l = Len(t)
  OBVIOUS
<1>4. PICK c : c = Cut(m, e)
  OBVIOUS
<1>5. i - 1 \in Nat /\ i \in 1 .. l /\ st \in i .. l /\ n \in Nat
  BY <1>2, <1>3, StartFacts, StopFacts DEF IsMem
<1>6. e \in Nat /\ IF st < l THEN e = st ELSE st = l /\ e > l
  BY <1>1, <1>2, <1>3, WordEnd
<1>7. /\ IsMem(c, n)
      /\ \A j : j # e => c[j] = m[j]
      /\ e \in 0 .. n - 1 => c[e] = NUL
  BY <1>4, CutIs
<1>8. /\ l \in 0 .. n - 1 /\ m[l] = NUL
      /\ \A j \in i - 1 .. l - 1 :
             Char(m, j) = t[j + 1] /\ m[j] = t[j + 1] /\ Char(m, j) # NUL
  BY <1>3, ShowsFacts
<1>9. Char(c, st) = NUL
  <2>1. st \in DOMAIN c
    BY <1>5, <1>7, <1>8 DEF IsMem
  <2>2. c[st] = NUL
    <3>1. CASE st < l
      BY <1>5, <1>6, <1>7, <1>8, <3>1
    <3>2. CASE ~(st < l)
      BY <1>5, <1>6, <1>7, <1>8, <3>2
    <3> QED
      BY <3>1, <3>2
  <2> QED
    BY <2>1, <2>2 DEF Char
<1>10. ASSUME NEW j \in i - 1 .. st - 1
       PROVE  Char(c, j) # NUL /\ c[j] = t[j + 1]
  <2>1. j \in i - 1 .. l - 1 /\ j # e /\ j \in 0 .. n - 1
    BY <1>5, <1>6, <1>8
  <2>2. c[j] = m[j] /\ j \in DOMAIN c /\ j \in DOMAIN m
    BY <1>7, <2>1 DEF IsMem
  <2>3. Char(c, j) = Char(m, j)
    BY <2>2 DEF Char
  <2> QED
    BY <1>8, <2>1, <2>2, <2>3
<1>11. Str(c, i - 1) = [k \in 1 .. st - (i - 1) |-> c[(i - 1) + k - 1]]
  <2>1. PICK b : b = i - 1
    OBVIOUS
  <2>2. b \in Nat /\ st \in Nat /\ st >= b
    BY <1>5, <2>1
  <2>3. \A j \in b .. st - 1 : Char(c, j) # NUL
    BY <1>10, <2>1
  <2>4. IsMem(c, n)
    BY <1>7
  <2>5. Str(c, b) = [k \in 1 .. st - b |-> c[b + k - 1]]
    BY <1>9, <2>2, <2>3, <2>4, StrIs
  <2> QED
    BY <2>1, <2>5
<1>12. ASSUME NEW k \in 1 .. st - (i - 1)
       PROVE  c[(i - 1) + k - 1] = t[i + k - 1]
  <2>1. (i - 1) + k - 1 \in i - 1 .. st - 1
    BY <1>5
  <2>2. ((i - 1) + k - 1) + 1 = i + k - 1
    BY <1>5
  <2> QED
    BY <1>10, <2>1, <2>2
<1>13. st - (i - 1) = st - i + 1
  BY <1>5
<1>14. SubSeq(t, i, st) = [k \in 1 .. st - i + 1 |-> t[i + k - 1]]
  BY <1>3, <1>5
<1> QED
  BY <1>1, <1>2, <1>4, <1>11, <1>12, <1>13, <1>14

----------------------------------------------------------------------------
\* The values of the first digits of a number.
Shift(r, c) == r * 10 + GETNUM(c)
Sums(f, digits, n) ==
    f = [k \in 0 .. n |-> IF k = 0 THEN 0 ELSE Shift(f[k - 1], digits[k])]

LEMMA SumsFacts ==
    ASSUME NEW digits, NEW n \in Nat, NEW f, Sums(f, digits, n)
    PROVE  /\ f[0] = 0
           /\ \A j \in 1 .. n : f[j] = Shift(f[j - 1], digits[j])
<1> DEFINE g(j) == IF j = 0 THEN 0 ELSE Shift(f[j - 1], digits[j])
<1>1. \A j \in 0 .. n : f[j] = g(j)
  <2>1. f = [j \in 0 .. n |-> g(j)]
    BY DEF Sums
  <2> HIDE DEF g
  <2> QED
    BY <2>1
<1>2. 0 \in 0 .. n /\ \A j \in 1 .. n : j \in 0 .. n /\ j # 0
  OBVIOUS
<1>3. g(0) = 0 /\ \A j \in 1 .. n : g(j) = Shift(f[j - 1], digits[j])
  BY <1>2, Zenon
<1> HIDE DEF g
<1> QED
  BY <1>1, <1>2, <1>3

\* There are such sums, for every number.
LEMMA SumsSome ==
    ASSUME NEW digits, NEW n \in Nat
    PROVE  \E f : Sums(f, digits, n)
<1> DEFINE T == {m \in Nat : ~ \E f : Sums(f, digits, m)}
<1> SUFFICES ASSUME T # {} PROVE FALSE
  OBVIOUS
<1>1. PICK m \in T : \A k \in T : m <= k
  <2>1. T \subseteq Nat
    OBVIOUS
  <2> HIDE DEF T
  <2> QED
    BY <2>1, Least
<1>2. m \in Nat
  OBVIOUS
<1>3. CASE m = 0
  <2> DEFINE f == [j \in 0 .. 0 |-> 0]
             g == [j \in 0 .. 0 |->
                      IF j = 0 THEN 0 ELSE Shift(f[j - 1], digits[j])]
  <2>1. f = g
    <3>1. \A j \in 0 .. 0 : j = 0
      OBVIOUS
    <3> QED
      BY <3>1, Zenon
  <2>2. Sums(f, digits, 0)
    BY <2>1, Zenon DEF Sums
  <2> QED
    BY <1>1, <1>3, <2>2
<1>4. CASE m # 0
  <2>1. m - 1 \in Nat /\ ~(m <= m - 1)
    BY <1>2, <1>4
  <2>2. m - 1 \notin T
    <3> HIDE DEF T
    <3> QED
      BY <1>1, <2>1
  <2>3. PICK h : Sums(h, digits, m - 1)
    BY <2>1, <2>2
  <2>4. /\ h[0] = 0
        /\ \A j \in 1 .. m - 1 : h[j] = Shift(h[j - 1], digits[j])
    BY <2>1, <2>3, SumsFacts
  <2> DEFINE last == Shift(h[m - 1], digits[m])
             f == [j \in 0 .. m |-> IF j = m THEN last ELSE h[j]]
             g(j) == IF j = 0 THEN 0 ELSE Shift(f[j - 1], digits[j])
  <2>5. ASSUME NEW j \in 0 .. m
        PROVE  f[j] = g(j)
    <3>1. CASE j = 0
      <4>1. f[0] = h[0] /\ g(0) = 0
        <5> HIDE DEF last
        <5> QED
          BY <1>2, <1>4
      <4> HIDE DEF f, g
      <4> QED
        BY <2>4, <3>1, <4>1
    <3>2. CASE j # 0
      <4>1. j \in 1 .. m /\ j - 1 \in 0 .. m /\ j - 1 # m
        BY <1>2, <3>2
      <4>2. f[j - 1] = h[j - 1]
        <5> HIDE DEF last
        <5> QED
          BY <4>1
      <4>3. f[j] = Shift(h[j - 1], digits[j])
        <5>1. CASE j = m
          <6>1. f[m] = last
            <7> HIDE DEF last
            <7> QED
              BY <1>2
          <6> HIDE DEF f
          <6> QED
            BY <5>1, <6>1
        <5>2. CASE j # m
          <6>1. f[j] = h[j] /\ j \in 1 .. m - 1
            <7> HIDE DEF last
            <7> QED
              BY <1>2, <4>1, <5>2
          <6> HIDE DEF f
          <6> QED
            BY <2>4, <6>1
        <5> QED
          BY <5>1, <5>2
      <4>4. g(j) = Shift(f[j - 1], digits[j])
        <5> HIDE DEF f
        <5> QED
          BY <3>2, Zenon
      <4> HIDE DEF f, g
      <4> QED
        BY <4>2, <4>3, <4>4
    <3> QED
      BY <3>1, <3>2
  <2>6. f = [j \in 0 .. m |-> f[j]]
    <3> HIDE DEF last
    <3> QED
      OBVIOUS
  <2>7. f = [j \in 0 .. m |-> g(j)]
    <3> HIDE DEF f, g
    <3> QED
      BY <2>5, <2>6
  <2>8. Sums(f, digits, m)
    <3> HIDE DEF f
    <3> QED
      BY <2>7 DEF Sums
  <2> QED
    BY <1>1, <2>8
<1> QED
  BY <1>3, <1>4

\* A number is a number.
LEMMA DigitNat ==
    ASSUME NEW c \in ToSet(Digits)
    PROVE  GETNUM(c) \in Nat
<1>1. DOMAIN Digits = 1 .. 10
  BY DEF Digits
<1>2. PICK x \in DOMAIN Digits : Digits[x] = c
  BY DEF ToSet
<1>3. PICK k : k = CHOOSE y \in DOMAIN Digits : Digits[y] = c
  OBVIOUS
<1>4. k \in DOMAIN Digits
  BY <1>2, <1>3
<1>5. GETNUM(c) = k - 1
  BY <1>3 DEF GETNUM
<1> HIDE DEF Digits
<1>6. k \in 1 .. 10
  BY <1>1, <1>4
<1> QED
  BY <1>5, <1>6

LEMMA ValueNat ==
    ASSUME NEW digits, Len(digits) \in Nat,
           \A k \in 1 .. Len(digits) : digits[k] \in ToSet(Digits)
    PROVE  Value(digits) \in Nat
<1> DEFINE body(f) == [k \in 0 .. Len(digits) |->
                IF k = 0 THEN 0 ELSE f[k - 1] * 10 + GETNUM(digits[k])]
<1>1. PICK f : f = CHOOSE g : g = body(g)
  OBVIOUS
<1>2. Value(digits) = f[Len(digits)]
  BY <1>1 DEF Value
<1>3. \E g : g = body(g)
  BY SumsSome DEF Sums, Shift
<1>4. f = body(f)
  <2> HIDE DEF body
  <2> QED
    BY <1>1, <1>3
<1>5. PICK n \in Nat : n = Len(digits)
  OBVIOUS
<1>6. Sums(f, digits, n)
  BY <1>4, <1>5 DEF Sums, Shift
<1>7. /\ f[0] = 0
      /\ \A k \in 1 .. n : f[k] = Shift(f[k - 1], digits[k])
  BY <1>6, SumsFacts
<1> HIDE DEF body
<1> DEFINE T == {k \in 0 .. n : f[k] \notin Nat}
<1>8. ASSUME T # {} PROVE FALSE
  <2>1. PICK k \in T : \A j \in T : k <= j
    <3>1. T \subseteq Nat
      OBVIOUS
    <3> HIDE DEF T
    <3> QED
      BY <1>8, <3>1, Least
  <2>2. k \in 0 .. n /\ f[k] \notin Nat
    OBVIOUS
  <2>3. k # 0
    BY <1>7, <2>2
  <2>4. k \in 1 .. n /\ k - 1 \in 0 .. n /\ ~(k <= k - 1)
    BY <2>2, <2>3
  <2>5. f[k - 1] \in Nat
    <3>1. k - 1 \notin T
      <4> HIDE DEF T
      <4> QED
        BY <2>1, <2>4
    <3> QED
      BY <2>4, <3>1
  <2>6. GETNUM(digits[k]) \in Nat
    BY <1>5, <2>4, DigitNat
  <2>7. f[k] = f[k - 1] * 10 + GETNUM(digits[k])
    BY <1>7, <2>4 DEF Shift
  <2>8. f[k] \in Nat
    BY <2>5, <2>6, <2>7
  <2> QED
    BY <2>2, <2>8
<1>9. f[n] \in Nat
  <2>1. n \in 0 .. n /\ n \notin T
    BY <1>8
  <2> QED
    BY <2>1
<1> QED
  BY <1>2, <1>5, <1>9

\* The number is the digits in front.
LEMMA NumberIs ==
    ASSUME NEW s, Len(s) \in Nat, NEW n \in 0 .. Len(s),
           \A k \in 1 .. n : s[k] \in ToSet(Digits),
           n = Len(s) \/ s[n + 1] \notin ToSet(Digits)
    PROVE  Number(s) = IF n = 0 THEN -1 ELSE Value(SubSeq(s, 1, n))
<1> DEFINE T == {k \in 1 .. Len(s) + 1 :
                     k > Len(s) \/ s[k] \notin ToSet(Digits)}
<1>1. n + 1 \in T /\ T \subseteq Nat
  OBVIOUS
<1>2. ASSUME NEW k \in T PROVE n + 1 <= k
  <2>1. k \in 1 .. Len(s) + 1 /\ (k > Len(s) \/ s[k] \notin ToSet(Digits))
    OBVIOUS
  <2> QED
    BY <2>1
<1>3. Min(T) = n + 1
  <2> HIDE DEF T
  <2> QED
    BY <1>1, <1>2, MinIs
<1>4. Min(T) - 1 = n
  <2> HIDE DEF T
  <2> QED
    BY <1>3
<1>5. PICK x : x = Min(T) - 1
  OBVIOUS
<1>6. Number(s) = IF x = 0 THEN -1 ELSE Value(SubSeq(s, 1, x))
  BY <1>5, Zenon DEF Number
<1> QED
  <2> HIDE DEF T
  <2> QED
    BY <1>4, <1>5, <1>6, Zenon

\* Every text has digits in front, if only none.
LEMMA DigitsSome ==
    ASSUME NEW s, Len(s) \in Nat
    PROVE  \E n \in 0 .. Len(s) :
               /\ \A k \in 1 .. n : s[k] \in ToSet(Digits)
               /\ n = Len(s) \/ s[n + 1] \notin ToSet(Digits)
<1> DEFINE T == {k \in 1 .. Len(s) + 1 :
                     k > Len(s) \/ s[k] \notin ToSet(Digits)}
<1>1. T \subseteq Nat /\ Len(s) + 1 \in T
  OBVIOUS
<1>2. PICK x \in T : \A k \in T : x <= k
  <2> HIDE DEF T
  <2> QED
    BY <1>1, Least
<1>3. x \in 1 .. Len(s) + 1 /\ (x > Len(s) \/ s[x] \notin ToSet(Digits))
  OBVIOUS
<1>4. ASSUME NEW k \in 1 .. x - 1 PROVE s[k] \in ToSet(Digits)
  <2>1. ~(x <= k) /\ k \in 1 .. Len(s) + 1 /\ ~(k > Len(s))
    BY <1>3
  <2>2. k \notin T
    <3> HIDE DEF T
    <3> QED
      BY <1>2, <2>1
  <2> QED
    BY <2>1, <2>2
<1>5. /\ x - 1 \in 0 .. Len(s) /\ (x - 1) + 1 = x
      /\ x > Len(s) => x - 1 = Len(s)
  BY <1>3
<1> HIDE DEF T
<1> QED
  BY <1>3, <1>4, <1>5

LEMMA NumberNat ==
    ASSUME NEW s, Len(s) \in Nat
    PROVE  Number(s) \in Nat \cup {-1}
<1>1. PICK n \in 0 .. Len(s) :
          /\ \A k \in 1 .. n : s[k] \in ToSet(Digits)
          /\ n = Len(s) \/ s[n + 1] \notin ToSet(Digits)
  BY DigitsSome
<1>2. Number(s) = IF n = 0 THEN -1 ELSE Value(SubSeq(s, 1, n))
  BY <1>1, NumberIs
<1>3. PICK d : d = SubSeq(s, 1, n)
  OBVIOUS
<1>4. Len(d) = n /\ \A k \in 1 .. n : d[k] = s[k]
  BY <1>3
<1>5. Value(d) \in Nat
  BY <1>1, <1>4, ValueNat
<1> QED
  BY <1>2, <1>3, <1>5

\* A number does not go on behind its word.
LEMMA NumberFront ==
    ASSUME NEW s, NEW w, Len(s) \in Nat, Len(w) \in 0 .. Len(s),
           \A k \in 1 .. Len(w) : w[k] = s[k],
           Len(w) = Len(s) \/ s[Len(w) + 1] \notin ToSet(Digits)
    PROVE  Number(s) = Number(w)
<1>1. Len(w) \in Nat
  OBVIOUS
<1>2. PICK n \in 0 .. Len(w) :
          /\ \A k \in 1 .. n : w[k] \in ToSet(Digits)
          /\ n = Len(w) \/ w[n + 1] \notin ToSet(Digits)
  BY <1>1, DigitsSome
<1>3. Number(w) = IF n = 0 THEN -1 ELSE Value(SubSeq(w, 1, n))
  BY <1>1, <1>2, NumberIs
<1>4. n \in 0 .. Len(s) /\ \A k \in 1 .. n : s[k] \in ToSet(Digits)
  BY <1>1, <1>2
<1>5. n = Len(s) \/ s[n + 1] \notin ToSet(Digits)
  <2>1. CASE n = Len(w)
    BY <2>1
  <2>2. CASE n # Len(w)
    <3>1. n + 1 \in 1 .. Len(w)
      BY <1>1, <1>2, <2>2
    <3> QED
      BY <1>2, <2>2, <3>1
  <2> QED
    BY <2>1, <2>2
<1>6. Number(s) = IF n = 0 THEN -1 ELSE Value(SubSeq(s, 1, n))
  BY <1>4, <1>5, NumberIs
<1>7. SubSeq(s, 1, n) = SubSeq(w, 1, n)
  BY <1>1, <1>2
<1>8. CASE n = 0
  BY <1>3, <1>6, <1>8
<1>9. CASE n # 0
  <2>1. Number(w) = Value(SubSeq(w, 1, n))
    BY <1>3, <1>9
  <2>2. Number(s) = Value(SubSeq(s, 1, n))
    BY <1>6, <1>9
  <2> QED
    BY <1>7, <2>1, <2>2
<1> QED
  BY <1>8, <1>9

----------------------------------------------------------------------------
\* What the loop of parse_args() has made after so many turns.
Turns(f, a, n) == f = [k \in 0 .. n |-> IF k = 0 THEN a ELSE Turn(f[k - 1])]

LEMMA TurnsFacts ==
    ASSUME NEW a, NEW n \in Nat, NEW f, Turns(f, a, n)
    PROVE  /\ f[0] = a
           /\ \A j \in 1 .. n : f[j] = Turn(f[j - 1])
<1> DEFINE g(j) == IF j = 0 THEN a ELSE Turn(f[j - 1])
<1>1. \A j \in 0 .. n : f[j] = g(j)
  <2>1. f = [j \in 0 .. n |-> g(j)]
    BY DEF Turns
  <2> HIDE DEF g
  <2> QED
    BY <2>1
<1>2. 0 \in 0 .. n /\ \A j \in 1 .. n : j \in 0 .. n /\ j # 0
  OBVIOUS
<1>3. g(0) = a /\ \A j \in 1 .. n : g(j) = Turn(f[j - 1])
  BY <1>2, Zenon
<1> HIDE DEF g
<1> QED
  BY <1>1, <1>2, <1>3

\* There is such a loop, wherever it starts.
LEMMA TurnsSome ==
    ASSUME NEW a, NEW n \in Nat
    PROVE  \E f : Turns(f, a, n)
<1> DEFINE T == {m \in Nat : ~ \E f : Turns(f, a, m)}
<1> SUFFICES ASSUME T # {} PROVE FALSE
  OBVIOUS
<1>1. PICK m \in T : \A k \in T : m <= k
  <2>1. T \subseteq Nat
    OBVIOUS
  <2> HIDE DEF T
  <2> QED
    BY <2>1, Least
<1>2. m \in Nat
  OBVIOUS
<1>3. CASE m = 0
  <2> DEFINE f == [j \in 0 .. 0 |-> a]
             g == [j \in 0 .. 0 |->
                      IF j = 0 THEN a ELSE Turn(f[j - 1])]
  <2>1. f = g
    <3>1. \A j \in 0 .. 0 : j = 0
      OBVIOUS
    <3> QED
      BY <3>1, Zenon
  <2>2. Turns(f, a, 0)
    BY <2>1, Zenon DEF Turns
  <2> QED
    BY <1>1, <1>3, <2>2
<1>4. CASE m # 0
  <2>1. m - 1 \in Nat /\ ~(m <= m - 1)
    BY <1>2, <1>4
  <2>2. m - 1 \notin T
    <3> HIDE DEF T
    <3> QED
      BY <1>1, <2>1
  <2>3. PICK h : Turns(h, a, m - 1)
    BY <2>1, <2>2
  <2>4. /\ h[0] = a
        /\ \A j \in 1 .. m - 1 : h[j] = Turn(h[j - 1])
    BY <2>1, <2>3, TurnsFacts
  <2> DEFINE last == Turn(h[m - 1])
             f == [j \in 0 .. m |-> IF j = m THEN last ELSE h[j]]
             g(j) == IF j = 0 THEN a ELSE Turn(f[j - 1])
  <2>5. ASSUME NEW j \in 0 .. m
        PROVE  f[j] = g(j)
    <3>1. CASE j = 0
      <4>1. f[0] = h[0] /\ g(0) = a
        <5> HIDE DEF last
        <5> QED
          BY <1>2, <1>4
      <4> HIDE DEF f, g
      <4> QED
        BY <2>4, <3>1, <4>1
    <3>2. CASE j # 0
      <4>1. j \in 1 .. m /\ j - 1 \in 0 .. m /\ j - 1 # m
        BY <1>2, <3>2
      <4>2. f[j - 1] = h[j - 1]
        <5> HIDE DEF last
        <5> QED
          BY <4>1
      <4>3. f[j] = Turn(h[j - 1])
        <5>1. CASE j = m
          <6>1. f[m] = last
            <7> HIDE DEF last
            <7> QED
              BY <1>2
          <6> HIDE DEF f
          <6> QED
            BY <5>1, <6>1
        <5>2. CASE j # m
          <6>1. f[j] = h[j] /\ j \in 1 .. m - 1
            <7> HIDE DEF last
            <7> QED
              BY <1>2, <4>1, <5>2
          <6> HIDE DEF f
          <6> QED
            BY <2>4, <6>1
        <5> QED
          BY <5>1, <5>2
      <4>4. g(j) = Turn(f[j - 1])
        <5> HIDE DEF f
        <5> QED
          BY <3>2, Zenon
      <4> HIDE DEF f, g
      <4> QED
        BY <4>2, <4>3, <4>4
    <3> QED
      BY <3>1, <3>2
  <2>6. f = [j \in 0 .. m |-> f[j]]
    <3> HIDE DEF last
    <3> QED
      OBVIOUS
  <2>7. f = [j \in 0 .. m |-> g(j)]
    <3> HIDE DEF f, g
    <3> QED
      BY <2>5, <2>6
  <2>8. Turns(f, a, m)
    <3> HIDE DEF f
    <3> QED
      BY <2>7 DEF Turns
  <2> QED
    BY <1>1, <2>8
<1> QED
  BY <1>3, <1>4

LEMMA LoopIs ==
    ASSUME NEW a, End(a.m) \in Nat
    PROVE  \E f : Turns(f, a, End(a.m)) /\ parse_args(a) = f[End(a.m)]
<1> DEFINE body(f) == [k \in 0 .. End(a.m) |->
                           IF k = 0 THEN a ELSE Turn(f[k - 1])]
<1>1. PICK f : f = CHOOSE g : g = body(g)
  OBVIOUS
<1>2. parse_args(a) = f[End(a.m)]
  BY <1>1 DEF parse_args
<1>3. \E g : g = body(g)
  BY TurnsSome DEF Turns
<1>4. f = body(f)
  <2> HIDE DEF body
  <2> QED
    BY <1>1, <1>3
<1> QED
  BY <1>2, <1>4 DEF Turns

----------------------------------------------------------------------------
\* Sequences of words.
LEMMA TextFacts ==
    ASSUME NEW x, IsText(x)
    PROVE  Len(x) \in Nat /\ DOMAIN x = 1 .. Len(x)
BY LenProperties DEF IsText

LEMMA SeqText ==
    ASSUME NEW S, NEW x \in Seq(S)
    PROVE  IsText(x)
<1>1. Len(x) \in Nat /\ DOMAIN x = 1 .. Len(x)
  BY LenProperties
<1>2. \A k \in 1 .. Len(x) : x[k] \in ToSet(x)
  BY <1>1 DEF ToSet
<1> QED
  BY <1>1, <1>2 DEF IsText

LEMMA OneText ==
    ASSUME NEW w
    PROVE  IsText(<<w>>) /\ Len(<<w>>) = 1 /\ <<w>>[1] = w
<1>1. <<w>> \in Seq({w})
  OBVIOUS
<1> QED
  BY <1>1, SeqText

LEMMA MoreText ==
    ASSUME NEW x, IsText(x), NEW w
    PROVE  /\ IsText(Append(x, w))
           /\ Len(Append(x, w)) = Len(x) + 1
           /\ \A k \in 1 .. Len(x) : Append(x, w)[k] = x[k]
           /\ Append(x, w)[Len(x) + 1] = w
<1>1. PICK S : S = ToSet(x) \cup {w}
  OBVIOUS
<1>2. x \in Seq(S)
  <2>1. x \in Seq(ToSet(x)) /\ ToSet(x) \subseteq S
    BY <1>1 DEF IsText
  <2> QED
    BY <2>1, SeqMonotonic
<1>3. w \in S
  BY <1>1
<1>4. /\ Append(x, w) \in Seq(S)
      /\ Len(Append(x, w)) = Len(x) + 1
      /\ \A k \in 1 .. Len(x) : Append(x, w)[k] = x[k]
      /\ Append(x, w)[Len(x) + 1] = w
  BY <1>2, <1>3
<1> QED
  BY <1>4, SeqText

\* Whatever memory holds, a turn keeps its size and only adds words.
Sound(a, n) == IsMem(a.m, n) /\ a.s \in Nat /\ IsText(a.args)
Longer(x, y) == Len(x) <= Len(y) /\ \A k \in 1 .. Len(x) : y[k] = x[k]

LEMMA LongerFacts ==
    ASSUME NEW x, NEW y, NEW z, IsText(x), IsText(y), IsText(z)
    PROVE  /\ Longer(x, x)
           /\ Longer(x, y) /\ Longer(y, z) => Longer(x, z)
<1>1. Len(x) \in Nat /\ Len(y) \in Nat /\ Len(z) \in Nat
  BY TextFacts
<1> QED
  BY <1>1 DEF Longer

LEMMA ArgIs ==
    ASSUME NEW a, NEW b, b = SkipBlanks(a.m, a.s),
           NEW e, e = ToBlank(a.m, b), NEW c, c = Cut(a.m, e)
    PROVE  /\ Arg(a).m = c
           /\ Arg(a).s = e + 1
           /\ Arg(a).args = Append(a.args, Str(c, b))
BY DEF Arg

LEMMA TurnSound ==
    ASSUME NEW a, NEW n, Sound(a, n)
    PROVE  Sound(Turn(a), n) /\ Longer(a.args, Turn(a).args)
<1>1. IsMem(a.m, n) /\ a.s \in Nat /\ IsText(a.args) /\ n \in Nat
  BY DEF Sound, IsMem
<1>2. CASE More(a)
  <2>1. PICK b : b = SkipBlanks(a.m, a.s)
    OBVIOUS
  <2>2. PICK e : e = ToBlank(a.m, b)
    OBVIOUS
  <2>3. PICK c : c = Cut(a.m, e)
    OBVIOUS
  <2>4. b \in Nat
    <3>1. b \in a.s .. a.s + n
      BY <1>1, <2>1, SkipBlanksFinds
    <3> QED
      BY <1>1, <3>1
  <2>5. e \in Nat
    <3>1. e \in b .. b + n
      BY <1>1, <2>2, <2>4, ToBlankFinds
    <3> QED
      BY <1>1, <2>4, <3>1
  <2>6. IsMem(c, n)
    BY <1>1, <2>3, CutIs
  <2>7. PICK w : w = Str(c, b)
    OBVIOUS
  <2>8. /\ Turn(a).m = c /\ Turn(a).s = e + 1
        /\ Turn(a).args = Append(a.args, w)
    BY <1>2, <2>1, <2>2, <2>3, <2>7, ArgIs DEF Turn
  <2>9. /\ IsText(Append(a.args, w))
        /\ Len(Append(a.args, w)) = Len(a.args) + 1
        /\ \A k \in 1 .. Len(a.args) : Append(a.args, w)[k] = a.args[k]
    BY <1>1, MoreText
  <2>10. Len(a.args) \in Nat
    BY <1>1, TextFacts
  <2>11. Longer(a.args, Append(a.args, w))
    BY <2>9, <2>10 DEF Longer
  <2> QED
    BY <2>5, <2>6, <2>8, <2>9, <2>11 DEF Sound
<1>3. CASE ~More(a)
  <2>1. Turn(a) = a
    BY <1>3 DEF Turn
  <2> QED
    BY <1>1, <2>1, LongerFacts
<1> QED
  BY <1>2, <1>3

LEMMA LoopSound ==
    ASSUME NEW a, NEW n \in Nat, NEW f, Turns(f, a, n),
           NEW lo \in 0 .. n, Sound(f[lo], n)
    PROVE  \A k \in lo .. n :
               Sound(f[k], n) /\ Longer(f[lo].args, f[k].args)
<1> DEFINE P(k) == Sound(f[k], n) /\ Longer(f[lo].args, f[k].args)
           T == {k \in lo .. n : ~P(k)}
<1> SUFFICES ASSUME T # {} PROVE FALSE
  OBVIOUS
<1>1. PICK k \in T : \A j \in T : k <= j
  <2>1. T \subseteq Nat
    OBVIOUS
  <2> HIDE DEF T
  <2> QED
    BY <2>1, Least
<1>2. k \in lo .. n /\ ~P(k)
  OBVIOUS
<1>3. IsText(f[lo].args)
  BY DEF Sound
<1>4. k # lo
  <2>1. Longer(f[lo].args, f[lo].args)
    BY <1>3, LongerFacts
  <2> QED
    BY <1>2, <2>1
<1>5. k - 1 \in lo .. n /\ k \in 1 .. n /\ ~(k <= k - 1)
  BY <1>2, <1>4
<1>6. P(k - 1)
  <2>1. k - 1 \notin T
    <3> HIDE DEF T
    <3> QED
      BY <1>1, <1>5
  <2> HIDE DEF P
  <2> QED
    BY <1>5, <2>1
<1>7. f[k] = Turn(f[k - 1])
  BY <1>5, TurnsFacts
<1>8. PICK b : b = f[k - 1]
  OBVIOUS
<1>9. Sound(b, n) /\ Longer(f[lo].args, b.args)
  BY <1>6, <1>8
<1>10. Sound(Turn(b), n) /\ Longer(b.args, Turn(b).args)
  BY <1>9, TurnSound
<1>11. IsText(b.args) /\ IsText(Turn(b).args)
  BY <1>9, <1>10 DEF Sound
<1>12. Longer(f[lo].args, Turn(b).args)
  BY <1>3, <1>9, <1>10, <1>11, LongerFacts
<1> QED
  BY <1>2, <1>7, <1>8, <1>10, <1>12

----------------------------------------------------------------------------
\* After the word that starts at i: the words up to it are there, and if it
\* is not the end of the line, the rest of the line and what lies behind it
\* are as they were.
Rest(m, n, m0, t) == \A j \in Len(t) .. n - 1 : m[j] = m0[j]
AtWord(a, n, m0, t, i) ==
    /\ Sound(a, n)
    /\ Len(a.args) = Rank(t, i)
    /\ \A k \in 1 .. Rank(t, i) : a.args[k] = Words(t)[k]
    /\ Stop(t, i) < Len(t) =>
           a.s = Stop(t, i) + 1 /\ Shows(a.m, t, a.s) /\ Rest(a.m, n, m0, t)

LEMMA CutShows ==
    ASSUME NEW m, NEW n, IsMem(m, n), NEW t, IsLine(t),
           NEW s, Shows(m, t, s), NEW e \in Nat, s <= e, e < Len(t)
    PROVE  /\ IsMem(Cut(m, e), n)
           /\ Shows(Cut(m, e), t, e + 1)
           /\ Rest(Cut(m, e), n, m, t)
<1>1. PICK c : c = Cut(m, e)
  OBVIOUS
<1>2. IsMem(c, n) /\ \A j : j # e => c[j] = m[j]
  BY <1>1, CutIs
<1>3. /\ s \in Nat /\ Len(t) \in 0 .. n - 1 /\ m[Len(t)] = NUL
      /\ \A j \in s .. Len(t) - 1 : m[j] = t[j + 1]
  BY ShowsFacts
<1>4. End(c) = n /\ n \in Nat
  BY <1>2, Places DEF IsMem
<1>5. Len(t) \in Nat /\ Len(t) # e /\ e + 1 \in 0 .. Len(t)
  BY <1>3
<1>6. ASSUME NEW j \in e + 1 .. Len(t) - 1 PROVE c[j] = t[j + 1]
  <2>1. j \in s .. Len(t) - 1 /\ j # e
    BY <1>3, <1>5
  <2> QED
    BY <1>2, <1>3, <2>1
<1>7. Shows(c, t, e + 1)
  BY <1>2, <1>3, <1>4, <1>5, <1>6 DEF Shows
<1>8. ASSUME NEW j \in Len(t) .. n - 1 PROVE c[j] = m[j]
  <2>1. j # e
    BY <1>3
  <2> QED
    BY <1>2, <2>1
<1> QED
  BY <1>1, <1>2, <1>7, <1>8 DEF Rest

\* A turn reads the next word.
LEMMA TurnWord ==
    ASSUME NEW m0, NEW n \in Nat, NEW t, IsLine(t),
           NEW i \in Starts(t), NEW j \in Starts(t), i < j,
           \A k \in Starts(t) : k <= i \/ j <= k,
           NEW a, AtWord(a, n, m0, t, i)
    PROVE  AtWord(Turn(a), n, m0, t, j)
<1>1. /\ i \in Nat /\ j \in Nat /\ Len(t) \in Nat
      /\ Stop(t, i) \in i .. Len(t) /\ Stop(t, j) \in j .. Len(t)
      /\ NoWord(t, Stop(t, i) + 1)
  BY StartFacts, StopFacts, LineFacts
<1>2. Stop(t, i) + 1 < j /\ Stop(t, i) < Len(t)
  BY LaterStart
<1>3. /\ Sound(a, n) /\ a.s = Stop(t, i) + 1
      /\ Shows(a.m, t, a.s) /\ Rest(a.m, n, m0, t)
      /\ Len(a.args) = Rank(t, i)
      /\ \A k \in 1 .. Rank(t, i) : a.args[k] = Words(t)[k]
  BY <1>2 DEF AtWord
<1>4. IsMem(a.m, n) /\ IsText(a.args)
  BY <1>3 DEF Sound
<1>5. /\ SkipBlanks(a.m, a.s) = j - 1 /\ Char(a.m, j - 1) # NUL
      /\ Shows(a.m, t, j - 1)
  <2>1. \A k \in Starts(t) : k \in Nat
    BY StartFacts
  <2>2. \A k \in Starts(t) : k <= a.s \/ j <= k
    BY <1>1, <1>3, <2>1
  <2>3. a.s < j /\ NoWord(t, a.s)
    BY <1>1, <1>2, <1>3
  <2> QED
    BY <1>3, <1>4, <2>2, <2>3, SkipToWord
<1>6. More(a)
  BY <1>5 DEF More
<1>7. PICK e : e = ToBlank(a.m, j - 1)
  OBVIOUS
<1>8. PICK c : c = Cut(a.m, e)
  OBVIOUS
<1>9. PICK w : w = Str(c, j - 1)
  OBVIOUS
<1>10. /\ Turn(a).m = c /\ Turn(a).s = e + 1
       /\ Turn(a).args = Append(a.args, w)
  BY <1>5, <1>6, <1>7, <1>8, <1>9, ArgIs DEF Turn
<1>11. w = Words(t)[Rank(t, j)] /\ Rank(t, j) = Rank(t, i) + 1
  <2>1. w = SubSeq(t, j, Stop(t, j))
    BY <1>4, <1>5, <1>7, <1>8, <1>9, WordStr
  <2> QED
    BY <2>1, WordsAre, RankNext
<1>12. Len(Append(a.args, w)) = Rank(t, j)
  BY <1>3, <1>4, <1>11, MoreText
<1>13. ASSUME NEW k \in 1 .. Rank(t, j)
       PROVE  Append(a.args, w)[k] = Words(t)[k]
  <2>1. Rank(t, i) \in Nat
    BY <1>3, <1>4, TextFacts
  <2>2. /\ \A l \in 1 .. Rank(t, i) : Append(a.args, w)[l] = a.args[l]
        /\ Append(a.args, w)[Rank(t, i) + 1] = w
    BY <1>3, <1>4, MoreText
  <2>3. k \in 1 .. Rank(t, i) \/ k = Rank(t, i) + 1
    BY <1>11, <2>1
  <2> QED
    BY <1>3, <1>11, <2>2, <2>3
<1>14. ASSUME Stop(t, j) < Len(t)
       PROVE  /\ e + 1 = Stop(t, j) + 1
              /\ Shows(c, t, e + 1)
              /\ Rest(c, n, m0, t)
  <2>1. e = Stop(t, j)
    BY <1>4, <1>5, <1>7, <1>14, WordEnd
  <2>2. e \in Nat /\ j - 1 <= e /\ e < Len(t)
    BY <1>1, <1>14, <2>1
  <2>3. Shows(c, t, e + 1) /\ Rest(c, n, a.m, t)
    BY <1>4, <1>5, <1>8, <2>2, CutShows
  <2>4. Rest(c, n, m0, t)
    BY <1>3, <2>3 DEF Rest
  <2> QED
    BY <2>1, <2>3, <2>4
<1>15. Sound(Turn(a), n)
  BY <1>3, TurnSound
<1> QED
  BY <1>10, <1>12, <1>13, <1>14, <1>15 DEF AtWord

\* The command is the first word.
LEMMA FirstWord ==
    ASSUME NEW m, NEW n, IsMem(m, n), NEW t, IsLine(t), Shows(m, t, 0),
           NEW i \in Starts(t), \A j \in Starts(t) : i <= j,
           NEW b, b = SkipBlanks(m, 0), NEW p, p = ToBlank(m, b),
           NEW c, c = Cut(m, p), NEW w, w = Str(c, b),
           NEW a, a = [m |-> c, s |-> p + 1, args |-> <<w>>]
    PROVE  AtWord(a, n, m, t, i) /\ w = Words(t)[1] /\ Rank(t, i) = 1
<1>1. /\ i \in Nat /\ Len(t) \in Nat /\ i \in 1 .. Len(t)
      /\ Stop(t, i) \in i .. Len(t)
  BY StartFacts, StopFacts, LineFacts
<1>2. b = i - 1 /\ Shows(m, t, i - 1)
  <2>1. NoWord(t, 0)
    BY LineFacts DEF NoWord
  <2>2. 0 < i /\ \A j \in Starts(t) : j <= 0 \/ i <= j
    BY <1>1
  <2> QED
    BY <2>1, <2>2, SkipToWord
<1>3. Rank(t, i) = 1
  BY RankFirst
<1>4. w = Words(t)[1]
  <2>1. w = SubSeq(t, i, Stop(t, i))
    BY <1>2, WordStr
  <2> QED
    BY <1>3, <2>1, WordsAre
<1>5. /\ p \in Nat
      /\ Stop(t, i) < Len(t) => p = Stop(t, i)
  BY <1>2, WordEnd
<1>6. /\ a.m = c /\ a.s = p + 1 /\ a.args = <<w>>
      /\ IsText(<<w>>) /\ Len(<<w>>) = 1 /\ <<w>>[1] = w
  BY OneText
<1>7. Sound(a, n)
  <2>1. IsMem(c, n)
    BY CutIs
  <2> QED
    BY <1>5, <1>6, <2>1 DEF Sound
<1>8. ASSUME Stop(t, i) < Len(t)
      PROVE  /\ a.s = Stop(t, i) + 1
             /\ Shows(a.m, t, a.s)
             /\ Rest(a.m, n, m, t)
  <2>1. p = Stop(t, i) /\ i - 1 <= p /\ p < Len(t)
    BY <1>1, <1>5, <1>8
  <2>2. Shows(c, t, p + 1) /\ Rest(c, n, m, t)
    BY <1>2, <1>5, <2>1, CutShows
  <2> QED
    BY <1>6, <2>1, <2>2
<1>9. \A k \in 1 .. 1 : k = 1
  OBVIOUS
<1> QED
  BY <1>3, <1>4, <1>6, <1>7, <1>8, <1>9 DEF AtWord

----------------------------------------------------------------------------
\* The loop reads the words of the line one by one.
LEMMA LoopWords ==
    ASSUME NEW m0, NEW n \in Nat, NEW t, IsLine(t), Len(t) < n,
           NEW a, NEW f, Turns(f, a, n),
           NEW i0 \in Starts(t), Rank(t, i0) = 1, AtWord(a, n, m0, t, i0)
    PROVE  \A k \in 0 .. Cardinality(Starts(t)) - 1 :
               /\ k \in 0 .. n
               /\ \E i \in Starts(t) :
                      Rank(t, i) = k + 1 /\ AtWord(f[k], n, m0, t, i)
<1> DEFINE P(k) == \E i \in Starts(t) :
                       Rank(t, i) = k + 1 /\ AtWord(f[k], n, m0, t, i)
<1>1. PICK c : c = Cardinality(Starts(t))
  OBVIOUS
<1>2. c \in Nat /\ c - 1 < n /\ Len(t) \in Nat
  BY <1>1, LineFacts, FiniteStarts
<1> DEFINE T == {k \in 0 .. c - 1 : ~P(k)}
<1>3. ASSUME T # {} PROVE FALSE
  <2>1. PICK k \in T : \A j \in T : k <= j
    <3>1. T \subseteq Nat
      BY <1>2
    <3> HIDE DEF T
    <3> QED
      BY <1>3, <3>1, Least
  <2>2. k \in 0 .. c - 1 /\ ~P(k)
    OBVIOUS
  <2>3. k # 0
    <3>1. f[0] = a
      BY TurnsFacts
    <3>2. P(0)
      BY <3>1
    <3> HIDE DEF P
    <3> QED
      BY <2>2, <3>2
  <2>4. k - 1 \in 0 .. c - 1 /\ k \in 1 .. n /\ ~(k <= k - 1)
    BY <1>2, <2>2, <2>3
  <2>5. P(k - 1)
    <3>1. k - 1 \notin T
      <4> HIDE DEF T
      <4> QED
        BY <2>1, <2>4
    <3> HIDE DEF P
    <3> QED
      BY <2>4, <3>1
  <2>6. PICK i \in Starts(t) :
            Rank(t, i) = k /\ AtWord(f[k - 1], n, m0, t, i)
    <3>1. (k - 1) + 1 = k
      BY <2>4
    <3> QED
      BY <2>5, <3>1
  <2>7. PICK j \in Starts(t) :
            i < j /\ \A l \in Starts(t) : l <= i \/ j <= l
    <3>1. Rank(t, i) < Cardinality(Starts(t))
      BY <1>1, <1>2, <2>2, <2>6
    <3> QED
      BY <3>1, NextStart
  <2>8. Rank(t, j) = k + 1
    BY <2>6, <2>7, RankNext
  <2>9. AtWord(Turn(f[k - 1]), n, m0, t, j)
    BY <2>6, <2>7, TurnWord
  <2>10. f[k] = Turn(f[k - 1])
    BY <2>4, TurnsFacts
  <2> QED
    BY <2>2, <2>8, <2>9, <2>10
<1>4. ASSUME NEW k \in 0 .. c - 1 PROVE P(k) /\ k \in 0 .. n
  <2>1. k \notin T
    BY <1>3
  <2> QED
    BY <1>2, <2>1
<1> QED
  BY <1>1, <1>4

\* When there is nothing more, it does nothing more.
LEMMA LoopStays ==
    ASSUME NEW a, NEW n \in Nat, NEW f, Turns(f, a, n),
           NEW lo \in 0 .. n, ~More(f[lo])
    PROVE  f[n] = f[lo]
<1> DEFINE T == {k \in lo .. n : f[k] # f[lo]}
<1>1. ASSUME T # {} PROVE FALSE
  <2>1. PICK k \in T : \A j \in T : k <= j
    <3>1. T \subseteq Nat
      OBVIOUS
    <3> HIDE DEF T
    <3> QED
      BY <1>1, <3>1, Least
  <2>2. k \in lo .. n /\ f[k] # f[lo]
    OBVIOUS
  <2>3. k - 1 \in lo .. n /\ k \in 1 .. n /\ ~(k <= k - 1)
    BY <2>2
  <2>4. f[k - 1] = f[lo]
    <3>1. k - 1 \notin T
      <4> HIDE DEF T
      <4> QED
        BY <2>1, <2>3
    <3> QED
      BY <2>3, <3>1
  <2>5. f[k] = Turn(f[k - 1])
    BY <2>3, TurnsFacts
  <2> QED
    BY <2>2, <2>4, <2>5 DEF Turn
<1>2. n \in lo .. n /\ n \notin T
  BY <1>1
<1> QED
  BY <1>2

LEMMA WordsText ==
    ASSUME NEW t, IsLine(t)
    PROVE  IsText(Words(t))
<1>1. PICK n : n = Cardinality(Starts(t))
  OBVIOUS
<1>2. n \in Nat /\ DOMAIN Words(t) = 1 .. n /\ Len(Words(t)) = n
  BY <1>1, WordsAre
<1>3. PICK w : w = Words(t)
  OBVIOUS
<1>4. w = [k \in 1 .. n |-> w[k]]
  <2> DEFINE e(k) == LET i == CHOOSE j \in Starts(t) : Rank(t, j) = k
                     IN  SubSeq(t, i, Stop(t, i))
  <2>1. w = [k \in 1 .. n |-> e(k)]
    BY <1>1, <1>3 DEF Words
  <2> HIDE DEF e
  <2> QED
    BY <2>1
<1>5. \A k \in 1 .. n : w[k] \in ToSet(w)
  BY <1>2, <1>3 DEF ToSet
<1>6. w \in Seq(ToSet(w))
  BY <1>2, <1>4, <1>5
<1> QED
  BY <1>3, <1>6 DEF IsText

LEMMA SameText ==
    ASSUME NEW x, NEW y, IsText(x), IsText(y), Len(x) = Len(y), Longer(x, y)
    PROVE  x = y
<1>1. PICK S : S = ToSet(x) \cup ToSet(y)
  OBVIOUS
<1>2. x \in Seq(S) /\ y \in Seq(S)
  <2>1. /\ x \in Seq(ToSet(x)) /\ y \in Seq(ToSet(y))
        /\ ToSet(x) \subseteq S /\ ToSet(y) \subseteq S
    BY <1>1 DEF IsText
  <2> QED
    BY <2>1, SeqMonotonic
<1>3. \A k \in 1 .. Len(x) : x[k] = y[k]
  BY DEF Longer
<1> QED
  BY <1>2, <1>3, SeqEqual

\* A last blank closes the last word.
LEMMA LastBlank ==
    ASSUME NEW t, IsLine(t), NEW i \in Starts(t), IsBlank(Last(t))
    PROVE  Stop(t, i) < Len(t)
<1>1. /\ i \in 1 .. Len(t) /\ Len(t) \in Nat
      /\ Stop(t, i) \in i .. Len(t)
      /\ \A k \in i .. Stop(t, i) : ~NoWord(t, k)
  BY StartFacts, StopFacts, LineFacts
<1>2. NoWord(t, Len(t))
  BY DEF NoWord, Last
<1>3. Stop(t, i) # Len(t)
  BY <1>1, <1>2
<1> QED
  BY <1>1, <1>3

\* All words of the line are arguments; with a last blank they are all, and
\* nothing behind the line is written.
LEMMA ParseArgs ==
    ASSUME NEW m, NEW n \in Nat, NEW t, IsLine(t), Len(t) < n,
           NEW i \in Starts(t), Rank(t, i) = 1,
           NEW a, AtWord(a, n, m, t, i), NEW all, all = parse_args(a)
    PROVE  /\ Sound(all, n)
           /\ Longer(Words(t), all.args)
           /\ IsBlank(Last(t)) => all.args = Words(t) /\ Rest(all.m, n, m, t)
<1>1. Sound(a, n) /\ End(a.m) = n
  BY Places DEF AtWord, Sound
<1>2. PICK f : Turns(f, a, n) /\ all = f[n]
  BY <1>1, LoopIs
<1>3. PICK c : c = Cardinality(Starts(t)) - 1
  OBVIOUS
<1>4. /\ c \in 0 .. n
      /\ \E j \in Starts(t) : Rank(t, j) = c + 1 /\ AtWord(f[c], n, m, t, j)
  <2>1. c \in 0 .. Cardinality(Starts(t)) - 1
    <3>1. Cardinality(Starts(t)) # 0
      BY FiniteStarts, FS_EmptySet
    <3>2. Cardinality(Starts(t)) \in Nat
      BY WordsAre
    <3> QED
      BY <1>3, <3>1, <3>2
  <2> QED
    BY <1>2, <1>3, <2>1, LoopWords
<1>5. PICK j \in Starts(t) : Rank(t, j) = c + 1 /\ AtWord(f[c], n, m, t, j)
  BY <1>4
<1>6. PICK b : b = f[c]
  OBVIOUS
<1>7. c + 1 = Cardinality(Starts(t)) /\ Len(Words(t)) = c + 1
  BY <1>3, WordsAre
<1>8. /\ Sound(b, n) /\ Len(b.args) = Len(Words(t))
      /\ Longer(Words(t), b.args)
      /\ Stop(t, j) < Len(t) =>
             /\ b.s = Stop(t, j) + 1
             /\ Shows(b.m, t, b.s) /\ Rest(b.m, n, m, t)
  <2>1. Len(b.args) \in Nat
    BY <1>5, <1>6, TextFacts DEF AtWord, Sound
  <2> QED
    BY <1>5, <1>6, <1>7, <2>1 DEF AtWord, Longer
<1>9. Sound(f[n], n) /\ Longer(b.args, f[n].args)
  <2>1. Sound(f[c], n)
    BY <1>6, <1>8
  <2>2. n \in c .. n
    BY <1>4
  <2> QED
    BY <1>2, <1>4, <1>6, <2>1, <2>2, LoopSound
<1>10. IsText(b.args) /\ IsText(f[n].args) /\ IsText(Words(t))
  BY <1>8, <1>9, WordsText DEF Sound
<1>11. Longer(Words(t), f[n].args)
  BY <1>8, <1>9, <1>10, LongerFacts
<1>12. ASSUME IsBlank(Last(t))
       PROVE  f[n].args = Words(t) /\ Rest(f[n].m, n, m, t)
  <2>1. Stop(t, j) < Len(t)
    BY <1>12, LastBlank
  <2>2. /\ b.s = Stop(t, j) + 1
        /\ Shows(b.m, t, b.s) /\ Rest(b.m, n, m, t)
    BY <1>8, <2>1
  <2>3. \A k \in Starts(t) : k <= b.s
    <3>1. \A k \in Starts(t) : k <= j /\ k \in Nat
      BY <1>5, <1>7, NoNext, StartFacts
    <3>2. Stop(t, j) \in j .. Len(t) /\ j \in Nat /\ Len(t) \in Nat
      BY StopFacts, StartFacts, LineFacts
    <3> QED
      BY <2>2, <3>1, <3>2
  <2>4. NoWord(t, b.s)
    BY <2>2, StopFacts
  <2>5. Char(b.m, SkipBlanks(b.m, b.s)) = NUL
    <3>1. IsMem(b.m, n)
      BY <1>8 DEF Sound
    <3> QED
      BY <2>2, <2>3, <2>4, <3>1, SkipToEnd
  <2>6. ~More(f[c])
    BY <1>6, <2>5 DEF More
  <2>7. f[n] = b
    BY <1>2, <1>4, <1>6, <2>6, LoopStays
  <2>8. b.args = Words(t)
    BY <1>8, <1>10, SameText
  <2> QED
    BY <2>2, <2>7, <2>8
<1> QED
  BY <1>2, <1>9, <1>11, <1>12

----------------------------------------------------------------------------
\* The number behind the command is the second word.
LEMMA BlankNoDigit ==
    ASSUME NEW c, IsBlank(c)
    PROVE  c \notin ToSet(Digits)
<1>1. ToSet(Digits) = {"0", "1", "2", "3", "4", "5", "6", "7", "8", "9"}
  BY DEF ToSet, Digits
<1>2. c = " "
  BY Zenon DEF IsBlank
<1>3. " " \notin {"0", "1", "2", "3", "4", "5", "6", "7", "8", "9"}
  BY Zenon
<1> QED
  BY <1>1, <1>2, <1>3, Zenon

LEMMA PidWord ==
    ASSUME NEW m0, NEW n \in Nat, NEW t, IsLine(t),
           NEW i \in Starts(t), Rank(t, i) = 1,
           NEW a, AtWord(a, n, m0, t, i), Cardinality(Starts(t)) > 1
    PROVE  /\ parse_num(a.m, a.s) = Number(Words(t)[2])
           /\ Rest(a.m, n, m0, t)
<1>1. PICK j \in Starts(t) : i < j /\ \A k \in Starts(t) : k <= i \/ j <= k
  <2>1. Rank(t, i) < Cardinality(Starts(t))
    BY WordsAre
  <2> QED
    BY <2>1, NextStart
<1>2. PICK st : st = Stop(t, j)
  OBVIOUS
<1>3. PICK l : l = Len(t)
  OBVIOUS
<1>4. /\ i \in Nat /\ j \in 1 .. l /\ j \in Nat /\ l \in Nat
      /\ Stop(t, i) \in i .. l /\ NoWord(t, Stop(t, i) + 1)
      /\ st \in j .. l /\ NoWord(t, st + 1)
  BY <1>2, <1>3, StartFacts, StopFacts, LineFacts
<1>5. Stop(t, i) + 1 < j /\ Stop(t, i) < l
  BY <1>1, <1>3, LaterStart
<1>6. /\ IsMem(a.m, n) /\ a.s = Stop(t, i) + 1
      /\ Shows(a.m, t, a.s) /\ Rest(a.m, n, m0, t)
  BY <1>3, <1>5 DEF AtWord, Sound
<1>7. SkipBlanks(a.m, a.s) = j - 1 /\ Shows(a.m, t, j - 1)
  <2>1. \A k \in Starts(t) : k \in Nat
    BY StartFacts
  <2>2. \A k \in Starts(t) : k <= a.s \/ j <= k
    BY <1>1, <1>4, <1>6, <2>1
  <2>3. a.s < j /\ NoWord(t, a.s)
    BY <1>4, <1>5, <1>6
  <2> QED
    BY <1>6, <2>2, <2>3, SkipToWord
<1>8. /\ Char(a.m, l) = NUL
      /\ \A k \in j - 1 .. l - 1 :
             a.m[k] = t[k + 1] /\ Char(a.m, k) # NUL
  BY <1>3, <1>6, <1>7, ShowsFacts
<1>9. PICK s : s = Str(a.m, j - 1)
  OBVIOUS
<1>10. s = [k \in 1 .. l - (j - 1) |-> a.m[(j - 1) + k - 1]]
  <2>1. PICK b : b = j - 1
    OBVIOUS
  <2>2. b \in Nat /\ l >= b
    BY <1>4, <2>1
  <2>3. \A k \in b .. l - 1 : Char(a.m, k) # NUL
    BY <1>8, <2>1
  <2>4. PICK m : m = a.m
    OBVIOUS
  <2>5. IsMem(m, n) /\ l \in Nat /\ Char(m, l) = NUL
    BY <1>4, <1>6, <1>8, <2>4
  <2>6. \A k \in b .. l - 1 : Char(m, k) # NUL
    BY <2>3, <2>4
  <2>7. Str(m, b) = [k \in 1 .. l - b |-> m[b + k - 1]]
    BY <2>2, <2>5, <2>6, StrIs
  <2> QED
    BY <1>9, <2>1, <2>4, <2>7
<1>11. /\ Len(s) = l - (j - 1)
       /\ \A k \in 1 .. l - (j - 1) : s[k] = t[(j - 1) + k]
  <2>1. Len(s) = l - (j - 1)
    BY <1>4, <1>10
  <2>2. ASSUME NEW k \in 1 .. l - (j - 1) PROVE s[k] = t[(j - 1) + k]
    <3>1. /\ (j - 1) + k - 1 \in j - 1 .. l - 1
          /\ ((j - 1) + k - 1) + 1 = (j - 1) + k
      BY <1>4
    <3> QED
      BY <1>8, <1>10, <3>1
  <2> QED
    BY <2>1, <2>2
<1>12. PICK w : w = Words(t)[2]
  OBVIOUS
<1>13. w = SubSeq(t, j, st)
  <2>1. Rank(t, j) = 2
    BY <1>1, RankNext
  <2> QED
    BY <1>2, <1>12, <2>1, WordsAre
<1>14. Len(w) = st - (j - 1) /\ \A k \in 1 .. Len(w) : w[k] = t[(j - 1) + k]
  BY <1>4, <1>13
<1>15. Number(s) = Number(w)
  <2>1. Len(s) \in Nat /\ Len(w) \in 0 .. Len(s)
    BY <1>4, <1>11, <1>14
  <2>2. \A k \in 1 .. Len(w) : w[k] = s[k]
    BY <1>4, <1>11, <1>14
  <2>3. Len(w) = Len(s) \/ s[Len(w) + 1] \notin ToSet(Digits)
    <3>1. CASE st = l
      BY <1>11, <1>14, <3>1
    <3>2. CASE st # l
      <4>1. st + 1 \in 1 .. l /\ st + 1 \in DOMAIN t
        BY <1>3, <1>4, <3>2, LineFacts
      <4>2. IsBlank(t[st + 1])
        BY <1>4, <4>1 DEF NoWord
      <4>3. /\ Len(w) + 1 \in 1 .. l - (j - 1)
            /\ (j - 1) + (Len(w) + 1) = st + 1
        BY <1>4, <1>14, <3>2
      <4>4. s[Len(w) + 1] = t[st + 1]
        BY <1>11, <4>3
      <4> QED
        BY <4>2, <4>4, BlankNoDigit
    <3> QED
      BY <3>1, <3>2
  <2> QED
    BY <2>1, <2>2, <2>3, NumberFront
<1> QED
  BY <1>6, <1>7, <1>9, <1>12, <1>15 DEF parse_num

\* A closed line without a second word has no number.
LEMMA PidNone ==
    ASSUME NEW m0, NEW n \in Nat, NEW t, IsLine(t),
           NEW i \in Starts(t), Rank(t, i) = 1, IsBlank(Last(t)),
           NEW a, AtWord(a, n, m0, t, i), Cardinality(Starts(t)) = 1
    PROVE  parse_num(a.m, a.s) = -1
<1>1. Stop(t, i) < Len(t)
  BY LastBlank
<1>2. /\ IsMem(a.m, n) /\ a.s = Stop(t, i) + 1
      /\ Shows(a.m, t, a.s)
  BY <1>1 DEF AtWord, Sound
<1>3. /\ i \in Nat /\ Len(t) \in Nat
      /\ Stop(t, i) \in i .. Len(t) /\ NoWord(t, Stop(t, i) + 1)
  BY StartFacts, StopFacts, LineFacts
<1>4. \A k \in Starts(t) : k <= a.s
  <2>1. \A k \in Starts(t) : k <= i /\ k \in Nat
    BY NoNext, StartFacts
  <2> QED
    BY <1>2, <1>3, <2>1
<1>5. SkipBlanks(a.m, a.s) = Len(t) /\ Char(a.m, Len(t)) = NUL
  BY <1>2, <1>3, <1>4, SkipToEnd
<1>6. PICK s : s = Str(a.m, Len(t))
  OBVIOUS
<1>7. Len(s) = 0
  <2>1. PICK m : m = a.m
    OBVIOUS
  <2>2. PICK l : l = Len(t)
    OBVIOUS
  <2>3. IsMem(m, n) /\ l \in Nat /\ l >= l /\ Char(m, l) = NUL
    BY <1>2, <1>3, <1>5, <2>1, <2>2
  <2>4. \A j \in l .. l - 1 : Char(m, j) # NUL
    BY <2>3
  <2>5. Str(m, l) = [k \in 1 .. l - l |-> m[l + k - 1]]
    BY <2>3, <2>4, StrIs
  <2>6. l - l = 0
    BY <2>3
  <2> QED
    BY <1>6, <2>1, <2>2, <2>5, <2>6
<1>8. Number(s) = -1
  <2>1. PICK z \in Nat : z = 0
    OBVIOUS
  <2>2. Len(s) \in Nat /\ z \in 0 .. Len(s) /\ z = Len(s)
    BY <1>7, <2>1
  <2>3. \A k \in 1 .. z : s[k] \in ToSet(Digits)
    BY <2>1
  <2>4. Number(s) = IF z = 0 THEN -1 ELSE Value(SubSeq(s, 1, z))
    BY <2>2, <2>3, NumberIs
  <2> QED
    BY <2>1, <2>4
<1> QED
  BY <1>5, <1>6, <1>8 DEF parse_num

----------------------------------------------------------------------------
\* What parse_cmd() makes of a command, by its kind.
LEMMA Kinds ==
    ASSUME NEW w
    PROVE  Cmd(w) \in DOMAIN Names \cup {"exe"} /\ "exe" \notin WithTarget
<1>1. "exe" \notin WithTarget
  BY DEF WithTarget
<1>2. PICK cmds : cmds = {c \in DOMAIN Names : Same(w, Names[c])}
  OBVIOUS
<1>3. Cmd(w) = TheOne(cmds)
  BY <1>2 DEF Cmd
<1>4. CASE cmds # {}
  <2>1. PICK k : k = CHOOSE c \in cmds : TRUE
    OBVIOUS
  <2>2. k \in cmds /\ TheOne(cmds) = k
    BY <1>4, <2>1 DEF TheOne
  <2> QED
    BY <1>1, <1>2, <1>3, <2>2
<1>5. CASE cmds = {}
  BY <1>1, <1>3, <1>5 DEF TheOne
<1> QED
  BY <1>4, <1>5

\* No two commands are one to strcmp(): their first letters differ.
LEMMA NamesApart ==
    ASSUME NEW c \in DOMAIN Names, NEW d \in DOMAIN Names,
           Same(Names[c], Names[d])
    PROVE  c = d
<1>1. \A e \in DOMAIN Names : Len(Names[e]) > 1 /\ Len(Names[e]) \in Nat
  BY DEF Names
<1>2. Names[c][1] = Names[d][1]
  BY <1>1 DEF Same
<1> QED
  BY <1>2 DEF Names

\* A word that is a command by its letters is that command to strcmp(), and a
\* word that is near none is a command to strcmp() only by its letters.
LEMMA NamedIs ==
    ASSUME NEW w
    PROVE  /\ Named(w) \in WithTarget => Cmd(w) = Named(w)
           /\ (\A c \in DOMAIN Names : ~Near(w, Names[c]))
                  => Cmd(w) = Named(w)
<1>1. PICK cmds : cmds = {c \in DOMAIN Names : Same(w, Names[c])}
  OBVIOUS
<1>2. PICK named : named = {c \in DOMAIN Names : w = Names[c]}
  OBVIOUS
<1>3. Cmd(w) = TheOne(cmds) /\ Named(w) = TheOne(named)
  BY <1>1, <1>2 DEF Cmd, Named
<1>4. ASSUME NEW c \in DOMAIN Names
      PROVE  Same(w, Names[c]) <=> w = Names[c] \/ Near(w, Names[c])
  BY DEF Same, Near
<1>5. ASSUME Named(w) \in WithTarget
      PROVE  cmds = named
  <2>1. named # {}
    BY <1>3, <1>5, Kinds DEF TheOne
  <2>2. PICK c \in DOMAIN Names : w = Names[c]
    BY <1>2, <2>1
  <2>3. \A d \in DOMAIN Names : Same(w, Names[d]) => d = c
    BY <2>2, NamesApart
  <2>4. Same(w, Names[c])
    BY <1>4, <2>2
  <2> QED
    BY <1>1, <1>2, <2>2, <2>3, <2>4, <1>4
<1>6. ASSUME \A c \in DOMAIN Names : ~Near(w, Names[c])
      PROVE  cmds = named
  BY <1>1, <1>2, <1>4, <1>6
<1> QED
  BY <1>3, <1>5, <1>6

LEMMA CmdIs ==
    ASSUME NEW m, NEW b, b = SkipBlanks(m, 0), NEW p, p = ToBlank(m, b),
           NEW c, c = Cut(m, p), NEW w, w = Str(c, b),
           NEW a, a = [m |-> c, s |-> p + 1, args |-> <<w>>],
           NEW all, all = parse_args(a)
    PROVE  /\ Cmd(w) = "exe" =>
                  parse_cmd(m) = [m |-> all.m, runinfo |-> Launch(all.args)]
           /\ Cmd(w) \in WithTarget =>
                  parse_cmd(m) =
                      [m |-> c,
                       runinfo |-> Command(Cmd(w), parse_num(c, p + 1))]
           /\ Cmd(w) # "exe" /\ Cmd(w) \notin WithTarget =>
                  parse_cmd(m) = [m |-> c, runinfo |-> Command(Cmd(w), 0)]
<1>1. "exe" \notin WithTarget
  BY Kinds
<1>2. parse_cmd(m) =
          CASE Cmd(w) = "exe" ->
                   [m |-> all.m, runinfo |-> Launch(all.args)]
            [] Cmd(w) \in WithTarget ->
                   [m |-> c,
                    runinfo |-> Command(Cmd(w), parse_num(c, p + 1))]
            [] OTHER -> [m |-> c, runinfo |-> Command(Cmd(w), 0)]
  BY DEF parse_cmd
<1> QED
  BY <1>1, <1>2

LEMMA TakenIs ==
    ASSUME NEW words
    PROVE  /\ Cmd(words[1]) = "exe" => Taken(words) = Launch(words)
           /\ Cmd(words[1]) \in WithTarget =>
                  Taken(words) =
                      Command(Cmd(words[1]), IF Len(words) = 1 THEN -1
                                             ELSE Number(words[2]))
           /\ Cmd(words[1]) # "exe" /\ Cmd(words[1]) \notin WithTarget =>
                  Taken(words) = Command(Cmd(words[1]), 0)
<1>1. "exe" \notin WithTarget
  BY Kinds
<1>2. PICK cmd : cmd = Cmd(words[1])
  OBVIOUS
<1>3. PICK bg : bg = Background(words)
  OBVIOUS
<1>4. Taken(words) = Said(words, cmd, bg)
  BY <1>2, <1>3 DEF Taken
<1>5. Launch(words) = [cmd_type |-> "exe", tar_pid |-> 0, bg |-> bg,
                       args |-> IF bg THEN Front(words) ELSE words]
  BY <1>3 DEF Launch
<1> QED
  BY <1>1, <1>2, <1>4, <1>5 DEF Said

\* A line without a misspelt word is to strcmp() what it means.
LEMMA MeantIs ==
    ASSUME NEW words, ~Misspelt(words)
    PROVE  Taken(words) = Meant(words)
<1>1. PICK cmd : cmd = Named(words[1])
  OBVIOUS
<1>2. Cmd(words[1]) = cmd
  BY <1>1, NamedIs DEF Misspelt
<1>3. PICK bg : bg = Background(words)
  OBVIOUS
<1>4. PICK own : own = (Last(words) = <<"&">>)
  OBVIOUS
<1>5. /\ Taken(words) = Said(words, cmd, bg)
      /\ Meant(words) = Said(words, cmd, own)
  BY <1>1, <1>2, <1>3, <1>4 DEF Taken, Meant
<1>6. cmd = "exe" => bg = own
  <2>1. PICK u : u = <<"&">>
    OBVIOUS
  <2>2. PICK z : z = Last(words)
    OBVIOUS
  <2>3. cmd = "exe" => ~Near(z, u)
    BY <1>1, <2>1, <2>2 DEF Misspelt
  <2>4. bg = Same(z, u) /\ own = (z = u)
    BY <1>3, <1>4, <2>1, <2>2 DEF Background
  <2>5. Same(z, u) <=> z = u \/ Near(z, u)
    BY DEF Same, Near
  <2>6. Same(z, u) \in BOOLEAN
    BY DEF Same
  <2> QED
    BY <2>3, <2>4, <2>5, <2>6
<1>7. cmd # "exe" => Said(words, cmd, bg) = Said(words, cmd, own)
  BY DEF Said
<1> QED
  BY <1>5, <1>6, <1>7

\* Memory keeps its size and runinfo its type, whatever memory holds.
IsRun(r) ==
    /\ r.cmd_type \in DOMAIN Names \cup {"exe"}
    /\ r.tar_pid \in Nat \cup {-1}
    /\ r.bg \in BOOLEAN

LEMMA CommandRun ==
    ASSUME NEW w, NEW pid \in Nat \cup {-1}
    PROVE  IsRun(Command(Cmd(w), pid))
BY Kinds DEF Command, IsRun

LEMMA LaunchRun ==
    ASSUME NEW args
    PROVE  IsRun(Launch(args))
<1>1. Background(args) \in BOOLEAN
  <2>1. PICK u : u = <<"&">>
    OBVIOUS
  <2>2. Same(Last(args), u) \in BOOLEAN
    BY DEF Same
  <2> QED
    BY <2>1, <2>2, Zenon DEF Background
<1>2. PICK g : g = Background(args)
  OBVIOUS
<1>3. PICK r : r = Launch(args)
  OBVIOUS
<1>4. r.cmd_type = "exe" /\ r.tar_pid = 0 /\ r.bg = g
  BY <1>2, <1>3 DEF Launch
<1> QED
  BY <1>1, <1>2, <1>3, <1>4 DEF IsRun

LEMMA CmdTyped ==
    ASSUME NEW m, NEW n, IsMem(m, n)
    PROVE  IsMem(parse_cmd(m).m, n) /\ IsRun(parse_cmd(m).runinfo)
<1>0. n \in Nat
  BY DEF IsMem
<1>1. PICK b : b = SkipBlanks(m, 0)
  OBVIOUS
<1>2. PICK p : p = ToBlank(m, b)
  OBVIOUS
<1>3. PICK c : c = Cut(m, p)
  OBVIOUS
<1>4. PICK w : w = Str(c, b)
  OBVIOUS
<1>5. PICK a : a = [m |-> c, s |-> p + 1, args |-> <<w>>]
  OBVIOUS
<1>6. PICK all : all = parse_args(a)
  OBVIOUS
<1>7. p \in Nat /\ IsMem(c, n)
  <2>1. b \in 0 .. 0 + n
    BY <1>1, SkipBlanksFinds
  <2>2. b \in Nat
    BY <1>0, <2>1
  <2>3. p \in b .. b + n
    BY <1>2, <2>2, ToBlankFinds
  <2> QED
    BY <1>0, <1>3, <2>2, <2>3, CutIs
<1>8. Sound(a, n)
  <2>1. a.m = c /\ a.s = p + 1 /\ a.args = <<w>>
    BY <1>5
  <2> QED
    BY <1>7, <2>1, OneText DEF Sound
<1>9. Sound(all, n)
  <2>1. End(a.m) = n
    BY <1>8, Places DEF Sound
  <2>2. PICK f : Turns(f, a, n) /\ all = f[n]
    BY <1>0, <1>6, <2>1, LoopIs
  <2>3. 0 \in 0 .. n /\ n \in 0 .. n /\ f[0] = a
    BY <1>0, <2>2, TurnsFacts
  <2> QED
    BY <1>0, <1>8, <2>2, <2>3, LoopSound
<1>10. CASE Cmd(w) = "exe"
  <2>1. parse_cmd(m) = [m |-> all.m, runinfo |-> Launch(all.args)]
    BY <1>1, <1>2, <1>3, <1>4, <1>5, <1>6, <1>10, CmdIs
  <2> QED
    BY <1>9, <2>1, LaunchRun DEF Sound
<1>11. CASE Cmd(w) \in WithTarget
  <2>1. parse_cmd(m) =
            [m |-> c, runinfo |-> Command(Cmd(w), parse_num(c, p + 1))]
    BY <1>1, <1>2, <1>3, <1>4, <1>5, <1>6, <1>11, CmdIs
  <2>2. parse_num(c, p + 1) \in Nat \cup {-1}
    <3>1. PICK x : x = SkipBlanks(c, p + 1)
      OBVIOUS
    <3>2. x \in Nat
      <4>1. p + 1 \in Nat
        BY <1>7
      <4>2. x \in p + 1 .. p + 1 + n
        BY <1>7, <3>1, <4>1, SkipBlanksFinds
      <4> QED
        BY <1>0, <1>7, <4>2
    <3>3. PICK y : y = Str(c, x)
      OBVIOUS
    <3>4. Len(y) \in Nat
      <4>1. PICK k \in Nat : DOMAIN y = 1 .. k
        BY <1>7, <3>2, <3>3, StrSome
      <4> QED
        BY <4>1
    <3> QED
      BY <3>1, <3>3, <3>4, NumberNat DEF parse_num
  <2> QED
    BY <1>7, <2>1, <2>2, CommandRun
<1>12. CASE Cmd(w) # "exe" /\ Cmd(w) \notin WithTarget
  <2>1. parse_cmd(m) = [m |-> c, runinfo |-> Command(Cmd(w), 0)]
    BY <1>1, <1>2, <1>3, <1>4, <1>5, <1>6, <1>12, CmdIs
  <2> QED
    BY <1>7, <2>1, CommandRun
<1> QED
  BY <1>10, <1>11, <1>12

----------------------------------------------------------------------------
\* More words launch with more arguments, even when an "&" is taken away.
LEMMA FrontText ==
    ASSUME NEW x, IsText(x), Len(x) > 0
    PROVE  /\ IsText(Front(x)) /\ Len(Front(x)) = Len(x) - 1
           /\ \A k \in 1 .. Len(x) - 1 : Front(x)[k] = x[k]
<1>1. x \in Seq(ToSet(x)) /\ Len(x) \in Nat
  BY TextFacts DEF IsText
<1>2. Front(x) = SubSeq(x, 1, Len(x) - 1)
  BY DEF Front
<1>3. /\ SubSeq(x, 1, Len(x) - 1) \in Seq(ToSet(x))
      /\ Len(SubSeq(x, 1, Len(x) - 1)) = Len(x) - 1
      /\ \A k \in 1 .. Len(x) - 1 : SubSeq(x, 1, Len(x) - 1)[k] = x[k]
  <2>1. PICK l : l = Len(x) - 1
    OBVIOUS
  <2>2. l \in Nat /\ 1 \in Int /\ l \in Int /\ l - 1 + 1 = l
    BY <1>1, <2>1
  <2>3. \A k \in 1 .. l : x[k] \in ToSet(x)
    BY <1>1, <2>1, ElementOfSeq
  <2>4. /\ SubSeq(x, 1, l) \in Seq(ToSet(x))
        /\ Len(SubSeq(x, 1, l)) = IF 1 <= l THEN l - 1 + 1 ELSE 0
        /\ \A k \in 1 .. l - 1 + 1 : SubSeq(x, 1, l)[k] = x[1 + k - 1]
    BY <2>2, <2>3, SubSeqProperties
  <2>5. \A k \in 1 .. l : 1 + k - 1 = k
    BY <2>2
  <2> QED
    BY <2>1, <2>2, <2>4, <2>5
<1> QED
  BY <1>2, <1>3, SeqText

LEMMA LongerPrefix ==
    ASSUME NEW x, NEW y, IsText(x), IsText(y), Longer(x, y)
    PROVE  IsPrefix(x, y)
<1>1. Len(x) \in Nat /\ Len(y) \in Nat /\ Len(x) <= Len(y)
  BY TextFacts DEF Longer
<1>2. \A k \in 1 .. Len(x) : x[k] = y[k]
  BY DEF Longer
<1>3. SubSeq(x, 1, Len(x)) = SubSeq(y, 1, Len(x))
  BY <1>1, <1>2
<1> QED
  BY <1>1, <1>3 DEF IsPrefix

LEMMA LaunchLonger ==
    ASSUME NEW x, NEW y, IsText(x), IsText(y), Len(x) > 0, Longer(x, y)
    PROVE  IsPrefix(Launch(x).args, Launch(y).args)
<1>1. Len(x) \in Nat /\ Len(y) \in Nat /\ Len(x) <= Len(y)
      /\ \A k \in 1 .. Len(x) : y[k] = x[k]
  BY TextFacts DEF Longer
<1>2. ASSUME NEW z, IsText(z), Len(z) > 0
      PROVE  Launch(z).args \in {z, Front(z)}
  <2>1. PICK u : u = Background(z)
    OBVIOUS
  <2>2. PICK r : r = Launch(z)
    OBVIOUS
  <2>3. r.args = IF u THEN Front(z) ELSE z
    BY <2>1, <2>2 DEF Launch
  <2> QED
    BY <2>2, <2>3
<1>3. PICK v : v = Launch(x).args
  OBVIOUS
<1>4. PICK w : w = Launch(y).args
  OBVIOUS
<1>5. v \in {x, Front(x)} /\ w \in {y, Front(y)}
  BY <1>1, <1>2, <1>3, <1>4
<1>6. /\ IsText(Front(x)) /\ Len(Front(x)) = Len(x) - 1
      /\ \A k \in 1 .. Len(x) - 1 : Front(x)[k] = x[k]
      /\ IsText(Front(y)) /\ Len(Front(y)) = Len(y) - 1
      /\ \A k \in 1 .. Len(y) - 1 : Front(y)[k] = y[k]
  BY <1>1, FrontText
<1>7. /\ IsText(v) /\ Len(v) <= Len(x) /\ Len(v) \in Nat
      /\ \A k \in 1 .. Len(v) : v[k] = x[k]
  BY <1>1, <1>5, <1>6
<1>8. /\ IsText(w) /\ Len(w) >= Len(y) - 1 /\ Len(w) \in Nat
      /\ \A k \in 1 .. Len(w) : w[k] = y[k]
  BY <1>1, <1>5, <1>6
<1>9. CASE Len(x) = Len(y)
  <2>1. x = y
    BY <1>9, SameText
  <2>2. v = w
    BY <1>3, <1>4, <2>1
  <2>3. Longer(v, v)
    BY <1>7, LongerFacts
  <2> QED
    BY <1>3, <1>4, <1>7, <2>2, <2>3, LongerPrefix
<1>10. CASE Len(x) # Len(y)
  <2>1. Len(v) <= Len(w)
    BY <1>1, <1>7, <1>8, <1>10
  <2>2. \A k \in 1 .. Len(v) : w[k] = v[k]
    BY <1>1, <1>7, <1>8, <2>1
  <2>3. Longer(v, w)
    BY <2>1, <2>2 DEF Longer
  <2> QED
    BY <1>3, <1>4, <1>7, <1>8, <2>3, LongerPrefix
<1> QED
  BY <1>9, <1>10

----------------------------------------------------------------------------
\* What was typed is what is parsed: with words that are left behind it only
\* when the line does not bring its own last blank.
Adds(run, meant) ==
    /\ run.cmd_type = meant.cmd_type
    /\ IsPrefix(meant.args, run.args)
    /\ meant.tar_pid # -1 => run.tar_pid = meant.tar_pid

LEMMA CommandAdds ==
    ASSUME NEW cmd, NEW pid, NEW other, other # -1 => pid = other
    PROVE  Adds(Command(cmd, pid), Command(cmd, other))
<1>1. IsPrefix(<<>>, <<>>)
  <2>1. IsText(<<>>) /\ Longer(<<>>, <<>>)
    <3>1. IsText(<<>>)
      BY EmptySeq, SeqText
    <3> QED
      BY <3>1, LongerFacts
  <2> QED
    BY <2>1, LongerPrefix
<1> QED
  BY <1>1 DEF Adds, Command

Whole(words, t) ==
    \/ IsBlank(Last(t))
    \/ Len(words) > 1 /\ Cmd(words[1]) \in WithTarget
Means(run, m, n, t, words) ==
    /\ Adds(run.runinfo, Taken(words))
    /\ Whole(words, t) => /\ run.runinfo = Taken(words)
                          /\ Rest(run.m, n, m, t)

LEMMA CmdMeans ==
    ASSUME NEW m, NEW n, IsMem(m, n), NEW t, IsLine(t), Shows(m, t, 0),
           Words(t) # <<>>
    PROVE  Means(parse_cmd(m), m, n, t, Words(t))
<1>1. PICK b : b = SkipBlanks(m, 0)
  OBVIOUS
<1>2. PICK p : p = ToBlank(m, b)
  OBVIOUS
<1>3. PICK c : c = Cut(m, p)
  OBVIOUS
<1>4. PICK w : w = Str(c, b)
  OBVIOUS
<1>5. PICK a : a = [m |-> c, s |-> p + 1, args |-> <<w>>]
  OBVIOUS
<1>6. PICK all : all = parse_args(a)
  OBVIOUS
<1>7. PICK words : words = Words(t)
  OBVIOUS
<1>8. PICK run : run = parse_cmd(m)
  OBVIOUS
<1>9. /\ n \in Nat /\ Len(t) < n
      /\ a.m = c /\ a.s = p + 1
  BY <1>5, ShowsFacts DEF IsMem
<1>10. /\ IsText(words) /\ Len(words) = Cardinality(Starts(t))
       /\ Len(words) \in Nat /\ Len(words) > 0
  <2>1. IsText(words) /\ Len(words) = Cardinality(Starts(t))
    BY <1>7, WordsText, WordsAre
  <2>2. Len(words) \in Nat /\ Len(words) # 0
    <3>1. words \in Seq(ToSet(words))
      BY <2>1 DEF IsText
    <3> QED
      BY <1>7, <3>1, EmptySeq, LenProperties
  <2> QED
    BY <2>1, <2>2
<1>11. PICK i \in Starts(t) : \A j \in Starts(t) : i <= j
  <2>1. Cardinality(Starts(t)) # 0
    BY <1>10
  <2>2. Starts(t) # {}
    BY <2>1, FS_EmptySet
  <2> QED
    BY <2>2, FirstStart
<1>12. AtWord(a, n, m, t, i) /\ w = words[1] /\ Rank(t, i) = 1
  BY <1>1, <1>2, <1>3, <1>4, <1>5, <1>7, <1>11, FirstWord
<1>13. /\ Sound(all, n) /\ Longer(words, all.args)
       /\ IsBlank(Last(t)) => all.args = words /\ Rest(all.m, n, m, t)
  BY <1>6, <1>7, <1>9, <1>12, ParseArgs
<1>14. IsBlank(Last(t)) => Rest(c, n, m, t)
  BY <1>9, <1>12, LastBlank DEF AtWord
<1> SUFFICES Means(run, m, n, t, words)
  BY <1>7, <1>8
<1>15. CASE Cmd(w) = "exe"
  <2>1. run = [m |-> all.m, runinfo |-> Launch(all.args)]
    BY <1>1, <1>2, <1>3, <1>4, <1>5, <1>6, <1>8, <1>15, CmdIs
  <2>2. run.m = all.m /\ run.runinfo = Launch(all.args)
    BY <2>1
  <2>3. Taken(words) = Launch(words)
    BY <1>12, <1>15, TakenIs
  <2>4. IsPrefix(Launch(words).args, Launch(all.args).args)
    <3>1. IsText(all.args)
      BY <1>13 DEF Sound
    <3> QED
      BY <1>10, <1>13, <3>1, LaunchLonger
  <2>5. Adds(run.runinfo, Taken(words))
    <3>1. \A x : Launch(x).cmd_type = "exe" /\ Launch(x).tar_pid = 0
      BY DEF Launch
    <3> QED
      BY <2>2, <2>3, <2>4, <3>1 DEF Adds
  <2>6. Whole(words, t) => IsBlank(Last(t))
    BY <1>12, <1>15, Kinds DEF Whole
  <2> QED
    BY <1>13, <2>2, <2>3, <2>5, <2>6 DEF Means
<1>16. CASE Cmd(w) \in WithTarget
  <2>1. PICK pid : pid = parse_num(c, p + 1)
    OBVIOUS
  <2>2. run = [m |-> c, runinfo |-> Command(Cmd(w), pid)]
    BY <1>1, <1>2, <1>3, <1>4, <1>5, <1>6, <1>8, <1>16, <2>1, CmdIs
  <2>3. run.m = c /\ run.runinfo = Command(Cmd(w), pid)
    BY <2>2
  <2>4. PICK other : other = IF Len(words) = 1 THEN -1 ELSE Number(words[2])
    OBVIOUS
  <2>5. Taken(words) = Command(Cmd(w), other)
    BY <1>12, <1>16, <2>4, TakenIs
  <2>6. CASE Len(words) > 1
    <3>1. pid = Number(words[2]) /\ Rest(c, n, m, t)
      BY <1>7, <1>9, <1>10, <1>12, <2>1, <2>6, PidWord
    <3>2. pid = other
      BY <1>10, <2>4, <2>6, <3>1
    <3>3. Adds(run.runinfo, Taken(words))
      BY <2>3, <2>5, <3>2, CommandAdds
    <3> QED
      BY <2>3, <2>5, <3>1, <3>2, <3>3 DEF Means
  <2>7. CASE ~(Len(words) > 1)
    <3>1. Len(words) = 1 /\ other = -1
      BY <1>10, <2>4, <2>7
    <3>2. Adds(run.runinfo, Taken(words))
      BY <2>3, <2>5, <3>1, CommandAdds
    <3>3. IsBlank(Last(t)) => pid = -1
      BY <1>9, <1>10, <1>12, <2>1, <3>1, PidNone
    <3> QED
      BY <1>14, <2>3, <2>5, <2>7, <3>1, <3>2, <3>3 DEF Means, Whole
  <2> QED
    BY <2>6, <2>7
<1>17. CASE Cmd(w) # "exe" /\ Cmd(w) \notin WithTarget
  <2>1. run = [m |-> c, runinfo |-> Command(Cmd(w), 0)]
    BY <1>1, <1>2, <1>3, <1>4, <1>5, <1>6, <1>8, <1>17, CmdIs
  <2>2. run.m = c /\ run.runinfo = Command(Cmd(w), 0)
    BY <2>1
  <2>3. Taken(words) = Command(Cmd(w), 0)
    BY <1>12, <1>17, TakenIs
  <2>4. Adds(run.runinfo, Taken(words))
    BY <2>2, <2>3, CommandAdds
  <2>5. Whole(words, t) => IsBlank(Last(t))
    BY <1>12, <1>17 DEF Whole
  <2> QED
    BY <1>14, <2>2, <2>3, <2>4, <2>5 DEF Means
<1> QED
  BY <1>15, <1>16, <1>17

----------------------------------------------------------------------------
\* The inductive invariant: a line that is to be parsed lies in the buffer.
ParseInv ==
    /\ TypeOK
    /\ pc = "parse" => Shows(mem, line, 0)
    /\ ParsesOwnLine
    /\ StaleOnlyAdds

LEMMA EmptyLine == IsLine(<<>>) /\ Words(<<>>) = <<>>
<1>1. <<>> \in Seq({}) /\ Len(<<>>) = 0
  OBVIOUS
<1>2. IsLine(<<>>)
  <2>1. IsText(<<>>)
    BY <1>1, SeqText
  <2> QED
    BY <1>1, <2>1 DEF IsLine
<1>3. Starts(<<>>) = {}
  BY <1>1, <1>2, LineFacts DEF Starts
<1>4. Len(Words(<<>>)) = 0 /\ IsText(Words(<<>>))
  BY <1>2, <1>3, FS_EmptySet, WordsAre, WordsText
<1>5. Words(<<>>) \in Seq(ToSet(Words(<<>>)))
  BY <1>4 DEF IsText
<1> QED
  BY <1>2, <1>4, <1>5, EmptySeq

LEMMA TypedLine ==
    ASSUME NEW t \in Lines
    PROVE  IsLine(t) /\ Len(t) < SIZE
<1>1. IsText(t) /\ Len(t) < SIZE /\ NUL \notin ToSet(t)
  BY ParseAssumption
<1>2. \A k \in 1 .. Len(t) : t[k] # NUL
  BY <1>1, TextFacts DEF ToSet
<1> QED
  BY <1>1, <1>2 DEF IsLine

LEMMA Buffer ==
    ASSUME TypeOK
    PROVE  /\ IsLine(line)
           /\ \E n \in Nat : n >= SIZE /\ IsMem(mem, n)
<1>1. IsLine(line)
  BY TypedLine, EmptyLine DEF TypeOK
<1>2. PICK behind \in Behind : DOMAIN mem = 0 .. SIZE + Len(behind) - 1
  BY DEF TypeOK
<1>3. Len(behind) \in Nat /\ SIZE \in Nat
  BY ParseAssumption, TextFacts
<1>4. IsMem(mem, SIZE + Len(behind)) /\ SIZE + Len(behind) \in Nat
  BY <1>2, <1>3 DEF IsMem
<1> QED
  BY <1>1, <1>3, <1>4

LEMMA InitParse == Init => ParseInv
<1> SUFFICES ASSUME Init PROVE ParseInv
  OBVIOUS
<1>1. PICK behind \in Behind :
          mem = [j \in 0 .. SIZE + Len(behind) - 1 |->
                     IF j < SIZE THEN NUL ELSE behind[j - SIZE + 1]]
  BY DEF Init
<1>2. DOMAIN mem = 0 .. SIZE + Len(behind) - 1
  BY <1>1
<1>3. /\ line = <<>> /\ pc = "read" /\ runinfo = Command("jobs", 0)
  BY DEF Init
<1>4. TypeOK
  <2>1. "jobs" \in DOMAIN Names
    BY DEF Names
  <2>2. IsRun(runinfo)
    BY <1>3, <2>1 DEF Command, IsRun
  <2> QED
    BY <1>2, <1>3, <2>2 DEF TypeOK, IsRun
<1>5. Words(line) = <<>>
  BY <1>3, EmptyLine
<1>6. ParsesOwnLine /\ StaleOnlyAdds
  BY <1>5 DEF ParsesOwnLine, StaleOnlyAdds, Closed
<1> QED
  BY <1>3, <1>4, <1>6 DEF ParseInv

\* The line is typed over the beginning of the buffer.
LEMMA ReadParse ==
    ASSUME ParseInv, NEW typed \in Lines, getstring(typed)
    PROVE  ParseInv'
<1>1. PICK n \in Nat : n >= SIZE /\ IsMem(mem, n)
  BY Buffer DEF ParseInv
<1>2. /\ IsLine(typed) /\ Len(typed) < SIZE /\ SIZE \in Nat
      /\ Len(typed) \in Nat
  BY TypedLine, LineFacts, ParseAssumption
<1>3. DOMAIN mem = 0 .. n - 1
  BY <1>1 DEF IsMem
<1>4. mem' = [j \in DOMAIN mem |->
                  IF j < Len(typed) THEN typed[j + 1]
                  ELSE IF j = Len(typed) THEN NUL ELSE mem[j]]
  BY DEF getstring
<1>5. line' = typed /\ pc' = "parse" /\ runinfo' = runinfo
  BY DEF getstring
<1>6. DOMAIN mem' = DOMAIN mem
  BY <1>4
<1>7. TypeOK'
  BY <1>5, <1>6 DEF ParseInv, TypeOK
<1>8. Shows(mem', typed, 0)
  <2>1. IsMem(mem', n)
    BY <1>1, <1>6 DEF IsMem
  <2>2. Len(typed) < End(mem')
    BY <1>1, <1>2, <2>1, Places
  <2>3. Len(typed) \in DOMAIN mem
    BY <1>1, <1>2, <1>3
  <2>4. mem'[Len(typed)] = NUL
    BY <1>2, <1>4, <2>3
  <2>5. ASSUME NEW j \in 0 .. Len(typed) - 1
        PROVE  mem'[j] = typed[j + 1]
    <3>1. j \in DOMAIN mem /\ j < Len(typed)
      BY <1>1, <1>2, <1>3
    <3> QED
      BY <1>4, <3>1
  <2> QED
    BY <1>2, <2>2, <2>4, <2>5 DEF Shows
<1>9. ParsesOwnLine' /\ StaleOnlyAdds'
  BY <1>5 DEF ParsesOwnLine, StaleOnlyAdds
<1> QED
  BY <1>5, <1>7, <1>8, <1>9 DEF ParseInv

LEMMA ParseParse ==
    ASSUME ParseInv, Parse
    PROVE  ParseInv'
<1>1. PICK n \in Nat : n >= SIZE /\ IsMem(mem, n)
  BY Buffer DEF ParseInv
<1>2. IsLine(line) /\ Shows(mem, line, 0)
  BY Buffer DEF ParseInv, Parse
<1>3. /\ mem' = parse_cmd(mem).m /\ runinfo' = parse_cmd(mem).runinfo
      /\ pc' = "read" /\ line' = line
  BY DEF Parse
<1>4. IsMem(mem', n) /\ IsRun(runinfo')
  BY <1>1, <1>3, CmdTyped
<1>5. TypeOK'
  <2>1. DOMAIN mem' = DOMAIN mem
    BY <1>1, <1>4 DEF IsMem
  <2> QED
    BY <1>3, <1>4, <2>1 DEF ParseInv, TypeOK, IsRun
<1>6. ASSUME Words(line) # <<>>
      PROVE  /\ Adds(runinfo', Taken(Words(line)))
             /\ Closed => runinfo' = Taken(Words(line))
  BY <1>1, <1>2, <1>3, <1>6, CmdMeans, NamedIs DEF Closed, Means, Whole
<1>7. Closed' <=> Closed
  BY <1>3 DEF Closed
<1>8. ParsesOwnLine'
  BY <1>3, <1>6, <1>7, MeantIs DEF ParsesOwnLine, Closed
<1>9. StaleOnlyAdds'
  BY <1>3, <1>6 DEF StaleOnlyAdds, Adds
<1> QED
  BY <1>3, <1>5, <1>8, <1>9 DEF ParseInv

LEMMA StepParse == ParseInv /\ [Next]_vars => ParseInv'
<1> SUFFICES ASSUME ParseInv, [Next]_vars PROVE ParseInv'
  OBVIOUS
<1>1. ASSUME NEW typed \in Lines, getstring(typed) PROVE ParseInv'
  BY <1>1, ReadParse
<1>2. CASE Parse
  BY <1>2, ParseParse
<1>3. CASE UNCHANGED vars
  <2>1. mem' = mem /\ line' = line /\ pc' = pc /\ runinfo' = runinfo
    BY <1>3 DEF vars
  <2>2. TypeOK' /\ (pc = "parse" => Shows(mem, line, 0))'
    BY <2>1 DEF ParseInv, TypeOK
  <2>3. ParsesOwnLine' /\ StaleOnlyAdds'
    BY <2>1 DEF ParseInv, ParsesOwnLine, StaleOnlyAdds, Closed
  <2> QED
    BY <2>2, <2>3 DEF ParseInv
<1> QED
  BY <1>1, <1>2, <1>3 DEF Next

LEMMA AlwaysParse == Spec => []ParseInv
<1>1. Init => ParseInv
  BY InitParse
<1>2. ParseInv /\ [Next]_vars => ParseInv'
  BY StepParse
<1> QED
  BY <1>1, <1>2, PTL DEF Spec

\* Every variable of the parser keeps to its type: parse_cmd() ends with one
\* of the commands there are, with a number that is -1 or none below it.  (What
\* parse_cmd() reads and writes farther behind usr_buff than mem reaches is
\* left out, so nothing is said about it.)
THEOREM ParserTypeCorrect == Spec => []TypeOK
<1>1. ParseInv => TypeOK
  BY DEF ParseInv
<1> QED
  BY <1>1, AlwaysParse, PTL

\* A line that brings its own last blank, or a number with its command, and
\* has no misspelt word, means what it says: parse_cmd() makes of it what a
\* split at the blanks and a comparison of every letter would, for every such
\* line, whatever is left in usr_buff and behind it.
THEOREM ClosedLineParsed == Spec => []ParsesOwnLine
<1>1. ParseInv => ParsesOwnLine
  BY DEF ParseInv
<1> QED
  BY <1>1, AlwaysParse, PTL

\* What parse_args() reads behind a line adds arguments, and no more: the
\* command, its arguments and its number are the line's, as strcmp() takes
\* its words.
THEOREM LeftoversOnlyAdd == Spec => []StaleOnlyAdds
<1>1. ParseInv => StaleOnlyAdds
  BY DEF ParseInv
<1> QED
  BY <1>1, AlwaysParse, PTL

\* Parsing a closed line writes NULs in the line and nothing behind it.
THEOREM ClosedLineKeepsRest == Spec => WritesOwnLine
<1> DEFINE A == (pc = "parse" /\ Closed) =>
                    \A i \in DOMAIN mem : i >= Len(line) => mem'[i] = mem[i]
<1>1. ParseInv /\ [Next]_vars => [A]_vars
  <2> SUFFICES ASSUME ParseInv, Next, pc = "parse", Closed,
                      NEW i \in DOMAIN mem, i >= Len(line)
               PROVE  mem'[i] = mem[i]
    OBVIOUS
  <2>1. Parse
    BY DEF Next, getstring
  <2>2. PICK n \in Nat : n >= SIZE /\ IsMem(mem, n)
    BY Buffer DEF ParseInv
  <2>3. /\ IsLine(line) /\ Shows(mem, line, 0) /\ Words(line) # <<>>
        /\ mem' = parse_cmd(mem).m
    BY <2>1, Buffer DEF ParseInv, Parse, Closed
  <2>4. Rest(mem', n, mem, line)
    BY <2>2, <2>3, CmdMeans, NamedIs DEF Closed, Means, Whole
  <2>5. i \in Len(line) .. n - 1
    BY <2>2, <2>3, LineFacts DEF IsMem
  <2> QED
    BY <2>4, <2>5 DEF Rest
<1>2. Spec => [][A]_vars
  <2> HIDE DEF A
  <2> QED
    BY <1>1, AlwaysParse, PTL DEF Spec
<1> QED
  BY <1>2 DEF WritesOwnLine
=============================================================================
