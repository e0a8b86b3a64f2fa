----------------------------- MODULE PagesProofs -----------------------------
(***************************************************************************)
(* The pages of a list, put together, are one descending list without a    *)
(* gap, for every finite set of ids and every limit.                       *)
(*                                                                         *)
(* A page is a prefix of a descending enumeration, so the proof first      *)
(* shows that every finite set of naturals has one.  That is an induction  *)
(* over finite sets; it is done with a smallest counterexample, which      *)
(* WFMin gives without an operator as a parameter.                         *)
(***************************************************************************)
EXTENDS Pages, FiniteSetTheorems, TLAPS

\* s lists the set ids, the greatest first.
IsDescending(s, ids) ==
    /\ s \in [1 .. Cardinality(ids) -> ids]
    /\ Range(s) = ids
    /\ \A i, j \in DOMAIN s : i < j => s[i] > s[j]

FiniteSetsOfIds == FiniteSubsetsOf(Nat)

\* A family of finite sets of naturals has a member none of whose proper
\* subsets is in the family.
LEMMA SmallestMember ==
    ASSUME NEW F \in SUBSET FiniteSetsOfIds, F # {}
    PROVE  \E S \in F : \A x \in S : S \ {x} \notin F
<1>1. PICK S \in F : \A U \in F : <<U, S>> \notin StrictSubsetOrdering(Nat)
  BY FS_StrictSubsetOrderingWellFounded, WFMin DEF FiniteSetsOfIds
<1>2. ASSUME NEW x \in S, S \ {x} \in F
      PROVE  <<S \ {x}, S>> \in StrictSubsetOrdering(Nat)
  BY <1>2 DEF StrictSubsetOrdering, FiniteSetsOfIds, FiniteSubsetsOf
<1>3. QED
  BY <1>1, <1>2

\* A finite set of naturals that is not empty has a greatest element: the
\* cursor of the first page, one more than it, is above every id.
LEMMA GreatestExists ==
    ASSUME NEW S \in SUBSET Nat, IsFiniteSet(S), S # {}
    PROVE  \E m \in S : \A x \in S : m >= x
<1> DEFINE Greatest(U) == \E m \in U : \A x \in U : m >= x
           F == {U \in FiniteSetsOfIds : U # {} /\ ~ Greatest(U)}
<1>1. SUFFICES ASSUME F # {} PROVE FALSE
  BY DEF FiniteSetsOfIds, FiniteSubsetsOf
<1>2. F \in SUBSET FiniteSetsOfIds
  OBVIOUS
<1>3. PICK U \in F : \A x \in U : U \ {x} \notin F
  <2> HIDE DEF F
  <2> QED
    BY <1>1, <1>2, SmallestMember
<1>4. PICK x \in U : TRUE
  BY <1>3
<1>5. U \in SUBSET Nat /\ U \ {x} \in FiniteSetsOfIds
  BY <1>3, FS_RemoveElement DEF FiniteSetsOfIds, FiniteSubsetsOf
<1>6. CASE U \ {x} = {}
  BY <1>3, <1>4, <1>5, <1>6
<1>7. CASE U \ {x} # {}
  <2>1. PICK m \in U \ {x} : \A y \in U \ {x} : m >= y
    BY <1>3, <1>4, <1>5, <1>7
  <2>2. \A y \in U : (IF m >= x THEN m ELSE x) >= y
    BY <2>1, <1>4, <1>5
  <2>3. QED
    BY <2>1, <2>2, <1>3, <1>4, <1>5
<1>8. QED
  BY <1>6, <1>7

\* Put the greatest element before an enumeration of the others.
LEMMA DescendingExists ==
    ASSUME NEW S \in SUBSET Nat, IsFiniteSet(S)
    PROVE  \E s : IsDescending(s, S)
<1> DEFINE F == {U \in FiniteSetsOfIds : ~ \E s : IsDescending(s, U)}
<1>1. SUFFICES ASSUME F # {} PROVE FALSE
  BY DEF FiniteSetsOfIds, FiniteSubsetsOf
<1>2. PICK U \in F : \A x \in U : U \ {x} \notin F
  <2>1. F \in SUBSET FiniteSetsOfIds
    OBVIOUS
  <2> HIDE DEF F
  <2>2. QED
    BY <1>1, <2>1, SmallestMember
<1>3. U \in SUBSET Nat /\ IsFiniteSet(U) /\ Cardinality(U) \in Nat
  BY <1>2, FS_CardinalityType DEF FiniteSetsOfIds, FiniteSubsetsOf
<1>4. U # {}
  <2>1. SUFFICES ASSUME U = {} PROVE IsDescending(<<>>, U)
    BY <1>2
  <2>2. Cardinality(U) = 0
    BY <2>1, FS_EmptySet
  <2>3. QED
    BY <2>1, <2>2 DEF IsDescending, Range
<1>5. PICK m \in U : \A x \in U : m >= x
  BY <1>3, <1>4, GreatestExists
<1>6. U \ {m} \in FiniteSetsOfIds /\ Cardinality(U \ {m}) = Cardinality(U) - 1
  BY <1>3, <1>5, FS_RemoveElement DEF FiniteSetsOfIds, FiniteSubsetsOf
<1>7. PICK s : IsDescending(s, U \ {m})
  BY <1>2, <1>5, <1>6
<1>8. Cardinality(U) > 0
  BY <1>3, <1>4, FS_EmptySet
<1> DEFINE n == Cardinality(U)
           t == [i \in 1 .. n |-> IF i = 1 THEN m ELSE s[i - 1]]
<1>9. /\ n \in Nat \ {0}
      /\ s \in [1 .. n - 1 -> U \ {m}]
      /\ \A x \in U \ {m} : \E i \in 1 .. n - 1 : s[i] = x
      /\ \A i, j \in 1 .. n - 1 : i < j => s[i] > s[j]
  <2>1. n \in Nat \ {0} /\ Cardinality(U \ {m}) = n - 1
    BY <1>3, <1>6, <1>8
  <2> HIDE DEF n
  <2>2. s \in [1 .. n - 1 -> U \ {m}] /\ DOMAIN s = 1 .. n - 1
    BY <2>1, <1>7 DEF IsDescending
  <2>3. \A x \in U \ {m} : \E i \in 1 .. n - 1 : s[i] = x
    BY <2>2, <1>7 DEF IsDescending, Range
  <2>4. \A i, j \in 1 .. n - 1 : i < j => s[i] > s[j]
    BY <2>2, <1>7 DEF IsDescending
  <2>5. QED
    BY <2>1, <2>2, <2>3, <2>4
<1> HIDE DEF n
<1>10. t \in [1 .. n -> U]
  BY <1>5, <1>9
<1>11. Range(t) = U
  <2>1. Range(t) \subseteq U
    BY <1>10 DEF Range
  <2>2. ASSUME NEW x \in U
        PROVE  \E i \in 1 .. n : t[i] = x
    <3>1. CASE x = m
      BY <3>1, <1>9
    <3>2. CASE x # m
      <4>1. PICK i \in 1 .. n - 1 : s[i] = x
        BY <3>2, <1>9
      <4>2. i + 1 \in 1 .. n /\ t[i + 1] = s[i]
        BY <1>9
      <4>3. QED
        BY <4>1, <4>2
    <3>3. QED
      BY <3>1, <3>2
  <2>3. QED
    BY <2>1, <2>2, <1>10 DEF Range
<1>12. ASSUME NEW i \in 1 .. n, NEW j \in 1 .. n, i < j
       PROVE  t[i] > t[j]
  <2>1. j - 1 \in 1 .. n - 1 /\ t[j] = s[j - 1] /\ s[j - 1] \in U \ {m}
    BY <1>9, <1>12
  <2>2. CASE i = 1
    <3>1. t[i] = m
      BY <2>2
    <3>2. t[j] \in Nat /\ m >= t[j] /\ m # t[j] /\ m \in Nat
      BY <2>1, <1>3, <1>5
    <3>3. QED
      BY <3>1, <3>2
  <2>3. CASE i # 1
    <3>1. i - 1 \in 1 .. n - 1 /\ t[i] = s[i - 1] /\ i - 1 < j - 1
      BY <2>3, <1>9, <1>12
    <3>2. QED
      BY <3>1, <2>1, <1>9
  <2>4. QED
    BY <2>2, <2>3
<1>13. IsDescending(t, U)
  BY <1>10, <1>11, <1>12 DEF IsDescending, n
<1>14. QED
  BY <1>2, <1>13

LEMMA DescendingProperties ==
    ASSUME NEW S \in SUBSET Nat, IsFiniteSet(S)
    PROVE  IsDescending(Descending(S), S)
BY DescendingExists DEF Descending, IsDescending

\* LIMIT: a prefix of the enumeration, as long as the limit allows.
LEMMA FirstOfProperties ==
    ASSUME NEW S, NEW s \in Seq(S), NEW n \in Nat
    PROVE  /\ FirstOf(s, n) \in Seq(S)
           /\ Len(FirstOf(s, n)) = (IF n < Len(s) THEN n ELSE Len(s))
           /\ \A i \in 1 .. Len(FirstOf(s, n)) : FirstOf(s, n)[i] = s[i]
BY DEF FirstOf
----------------------------------------------------------------------------
\* The rows that the next SELECT may return.
Below == {id \in Matching(row, filter) : id < cursor}

\* What one SELECT returns: rows below the cursor, the greatest first; those
\* it leaves out are below its last one, and none is if it is short.
LEMMA PageProperties ==
    ASSUME limit \in Nat \ {0}
    PROVE  /\ Page \in Seq(Ids)
           /\ \A i \in 1 .. Len(Page) : Page[i] \in Below
           /\ \A i, j \in 1 .. Len(Page) : i < j => Page[i] > Page[j]
           /\ \A id \in Below :
                 \/ \E i \in 1 .. Len(Page) : Page[i] = id
                 \/ Len(Page) = limit /\ id < Page[Len(Page)]
<1> DEFINE s == Descending(Below)
           n == Cardinality(Below)
<1>1. Below \in SUBSET Nat /\ Below \in SUBSET Ids /\ IsFiniteSet(Below) /\ n \in Nat
  <2>1. Below \in SUBSET Ids
    BY DEF Below, Matching
  <2>2. QED
    BY <2>1, PagesAssumption, FS_Subset, FS_CardinalityType
<1>2. IsDescending(s, Below)
  BY <1>1, DescendingProperties
<1>3. Page = FirstOf(s, limit)
  BY DEF Page, Below
<1> HIDE DEF s, n
<1>4. /\ s \in [1 .. n -> Below]
      /\ \A id \in Below : \E i \in 1 .. n : s[i] = id
      /\ \A i, j \in 1 .. n : i < j => s[i] > s[j]
  <2>1. s \in [1 .. n -> Below] /\ DOMAIN s = 1 .. n
    BY <1>2 DEF IsDescending, n
  <2>2. \A id \in Below : \E i \in 1 .. n : s[i] = id
    BY <2>1, <1>2 DEF IsDescending, Range
  <2>3. \A i, j \in 1 .. n : i < j => s[i] > s[j]
    BY <2>1, <1>2 DEF IsDescending
  <2>4. QED
    BY <2>1, <2>2, <2>3
<1>5. s \in Seq(Below) /\ Len(s) = n
  BY <1>1, <1>4
<1> DEFINE k == IF limit < n THEN limit ELSE n
<1>6. /\ Page \in Seq(Below) /\ Len(Page) = k
      /\ \A i \in 1 .. k : Page[i] = s[i]
  BY <1>3, <1>5, FirstOfProperties
<1>7. k \in Nat /\ k <= n
  BY <1>1
<1>8. ASSUME NEW id \in Below, \A i \in 1 .. k : Page[i] # id
      PROVE  k = limit /\ id < Page[k]
  <2>1. PICK i \in 1 .. n : s[i] = id
    BY <1>4
  <2>2. i > k
    BY <2>1, <1>1, <1>6, <1>7, <1>8
  <2>3. k = limit /\ k \in 1 .. n
    BY <2>2, <1>1, <1>7
  <2>4. s[k] > s[i] /\ Page[k] = s[k]
    BY <2>2, <2>3, <1>4, <1>6, <1>7
  <2>5. s[k] \in Nat /\ s[i] \in Nat
    BY <2>3, <1>1, <1>4
  <2>6. QED
    BY <2>1, <2>3, <2>4, <2>5
<1>9. QED
  <2> HIDE DEF k
  <2>1. \A i, j \in 1 .. Len(Page) : i < j => Page[i] > Page[j]
    <3>1. SUFFICES ASSUME NEW i \in 1 .. k, NEW j \in 1 .. k, i < j
                   PROVE  s[i] > s[j]
      BY <1>6
    <3>2. i \in 1 .. n /\ j \in 1 .. n
      BY <1>1, <1>7
    <3>3. QED
      BY <3>1, <3>2, <1>4
  <2>2. Page \in Seq(Ids) /\ \A i \in 1 .. Len(Page) : Page[i] \in Below
    <3>1. Page \in [1 .. k -> Below]
      BY <1>6
    <3>2. Page \in [1 .. k -> Ids]
      BY <3>1, <1>1
    <3>3. QED
      BY <3>1, <3>2, <1>6, <1>7
  <2>3. QED
    BY <2>1, <2>2, <1>6, <1>8
----------------------------------------------------------------------------
\* The cursor is the last id that was listed.
CursorAtLast ==
    IF listed = <<>> THEN cursor = NoCursor ELSE cursor = listed[Len(listed)]

\* A row that matched ever since the first page still does, and it is listed
\* as soon as the cursor is past it or there are no more pages.
NoGap ==
    /\ steady \subseteq Matching(row, filter)
    /\ \A id \in steady : at = "done" \/ id >= cursor => id \in Range(listed)

PagesInv == PagesTypeOK /\ CursorAtLast /\ ListedInOrder /\ NoGap

\* The cursor of the first page is above every id.
LEMMA NoCursorAboveAll == \A id \in Ids : id \in Nat /\ NoCursor \in Nat /\ id < NoCursor
<1>1. SUFFICES ASSUME NEW id \in Ids
               PROVE  id \in Nat /\ NoCursor \in Nat /\ id < NoCursor
  OBVIOUS
<1>2. \E m \in Ids : \A x \in Ids : m >= x
  BY PagesAssumption, GreatestExists
<1>3. Max(Ids) \in Ids /\ Max(Ids) >= id
  BY <1>2 DEF Max
<1>4. Max(Ids) \in Nat /\ id \in Nat
  BY <1>3, PagesAssumption
<1>5. QED
  BY <1>3, <1>4 DEF NoCursor

\* Everything listed is at the cursor or above it.
LEMMA ListedAboveCursor ==
    ASSUME PagesInv
    PROVE  \A i \in 1 .. Len(listed) : listed[i] >= cursor
<1>1. SUFFICES ASSUME NEW i \in 1 .. Len(listed)
               PROVE  listed[i] >= cursor
  OBVIOUS
<1>2. listed \in Seq(Ids) /\ listed # <<>> /\ DOMAIN listed = 1 .. Len(listed)
  BY DEF PagesInv, PagesTypeOK
<1>3. cursor = listed[Len(listed)] /\ Len(listed) \in 1 .. Len(listed)
  BY <1>2 DEF PagesInv, CursorAtLast
<1>4. listed[i] \in Nat /\ cursor \in Nat
  <2>1. listed[i] \in Ids /\ listed[Len(listed)] \in Ids
    BY <1>2, <1>3
  <2>2. QED
    BY <2>1, <1>3, PagesAssumption
<1>5. i < Len(listed) => listed[i] > listed[Len(listed)]
  BY <1>2, <1>3 DEF PagesInv, ListedInOrder
<1>6. QED
  BY <1>2, <1>3, <1>4, <1>5

\* A page goes below what is listed, and down to the cursor it leaves nothing
\* out.
LEMMA GetPageKeepsInv ==
    ASSUME PagesInv, GetPage
    PROVE  PagesInv'
<1>1. /\ listed \in Seq(Ids) /\ limit \in Nat \ {0} /\ cursor \in Ids \cup {NoCursor}
      /\ \A id \in Ids : id \in Nat /\ cursor \in Nat
  BY PagesAssumption, NoCursorAboveAll DEF PagesInv, PagesTypeOK
<1>2. /\ Page \in Seq(Ids)
      /\ \A i \in 1 .. Len(Page) : Page[i] \in Below
      /\ \A i, j \in 1 .. Len(Page) : i < j => Page[i] > Page[j]
      /\ \A id \in Below :
            \/ \E i \in 1 .. Len(Page) : Page[i] = id
            \/ Len(Page) = limit /\ id < Page[Len(Page)]
  BY <1>1, PageProperties
<1> DEFINE p == Page
           L == Len(listed)
<1>3. /\ listed' = listed \o p
      /\ cursor' = (IF p = <<>> THEN cursor ELSE p[Len(p)])
      /\ at' = IF Len(p) < limit THEN "done" ELSE "asking"
      /\ UNCHANGED <<row, filter, limit, steady>>
  BY DEF GetPage, Last
<1> HIDE DEF p
<1>4. /\ p \in Seq(Ids) /\ Len(p) \in Nat
      /\ \A i \in 1 .. Len(p) : p[i] \in Ids /\ p[i] < cursor
      /\ \A i, j \in 1 .. Len(p) : i < j => p[i] > p[j]
      /\ \A id \in Below :
            \/ \E i \in 1 .. Len(p) : p[i] = id
            \/ Len(p) = limit /\ id < p[Len(p)]
  BY <1>2 DEF p, Below, Matching
<1>5. /\ listed' \in Seq(Ids) /\ Len(listed') = L + Len(p) /\ L \in Nat
      /\ DOMAIN listed' = 1 .. L + Len(p)
      /\ \A i \in 1 .. L : listed'[i] = listed[i]
      /\ \A i \in 1 .. Len(p) : listed'[L + i] = p[i]
  BY <1>1, <1>3, <1>4
<1>6. PagesTypeOK'
  <2>1. cursor' \in Ids \cup {NoCursor}
    BY <1>1, <1>3, <1>4
  <2>2. NoCursor' = NoCursor
    BY DEF NoCursor
  <2>3. QED
    BY <1>3, <1>5, <2>1, <2>2 DEF PagesInv, PagesTypeOK
<1>7. CursorAtLast'
  <2>1. CASE p = <<>>
    <3>1. listed' = listed /\ cursor' = cursor
      BY <2>1, <1>1, <1>3
    <3>2. QED
      BY <3>1 DEF PagesInv, CursorAtLast, NoCursor
  <2>2. CASE p # <<>>
    <3>1. Len(p) \in 1 .. Len(p)
      BY <2>2, <1>4
    <3>2. listed' # <<>> /\ listed'[Len(listed')] = p[Len(p)]
      BY <3>1, <1>5
    <3>3. QED
      BY <2>2, <3>2, <1>3 DEF CursorAtLast
  <2>3. QED
    BY <2>1, <2>2
<1>8. ListedInOrder'
  <2>1. SUFFICES ASSUME NEW i \in 1 .. L + Len(p), NEW j \in 1 .. L + Len(p), i < j
                 PROVE  listed'[i] > listed'[j]
    BY <1>5 DEF ListedInOrder
  <2>2. CASE j <= L
    <3>1. i \in 1 .. L /\ j \in 1 .. L /\ DOMAIN listed = 1 .. L
      BY <2>1, <2>2, <1>1, <1>5
    <3>2. QED
      BY <2>1, <3>1, <1>5 DEF PagesInv, ListedInOrder
  <2>3. CASE i > L
    <3>1. i - L \in 1 .. Len(p) /\ j - L \in 1 .. Len(p) /\ i - L < j - L
      BY <2>1, <2>3, <1>4, <1>5
    <3>2. listed'[L + (i - L)] = p[i - L] /\ listed'[L + (j - L)] = p[j - L]
      BY <3>1, <1>5
    <3>3. L + (i - L) = i /\ L + (j - L) = j
      BY <1>4, <1>5
    <3>4. QED
      BY <3>1, <3>2, <3>3, <1>4
  <2>4. CASE i <= L /\ j > L
    <3>1. i \in 1 .. L /\ j - L \in 1 .. Len(p)
      BY <2>1, <2>4, <1>4, <1>5
    <3>2. listed'[i] = listed[i] /\ listed'[L + (j - L)] = p[j - L] /\ L + (j - L) = j
      BY <3>1, <1>4, <1>5
    <3>3. listed[i] >= cursor /\ p[j - L] < cursor
      BY <3>1, <1>4, ListedAboveCursor
    <3>4. listed[i] \in Nat /\ p[j - L] \in Nat /\ cursor \in Nat
      BY <3>1, <1>1, <1>4
    <3>5. QED
      BY <3>2, <3>3, <3>4
  <2>5. QED
    BY <2>2, <2>3, <2>4, <1>4, <1>5
<1>9. NoGap'
  <2>1. (steady \subseteq Matching(row, filter))'
    BY <1>3 DEF PagesInv, NoGap, Matching
  <2>2. ASSUME NEW id \in steady, at' = "done" \/ id >= cursor'
        PROVE  id \in Range(listed')
    <3>1. id \in Matching(row, filter) /\ id \in Nat /\ cursor \in Nat
      BY <1>1 DEF PagesInv, NoGap, Matching
    <3>2. CASE id >= cursor
      <4>1. PICK i \in 1 .. L : listed[i] = id
        BY <3>2, <1>1 DEF PagesInv, NoGap, Range
      <4>2. i \in DOMAIN listed' /\ listed'[i] = id
        BY <4>1, <1>4, <1>5
      <4>3. QED
        BY <4>2 DEF Range
    <3>3. CASE ~ id >= cursor
      <4>1. id \in Below
        BY <3>1, <3>3 DEF Below
      <4>2. CASE \E i \in 1 .. Len(p) : p[i] = id
        <5>1. PICK i \in 1 .. Len(p) : p[i] = id
          BY <4>2
        <5>2. L + i \in 1 .. L + Len(p) /\ listed'[L + i] = id
          BY <5>1, <1>4, <1>5
        <5>3. QED
          BY <5>2, <1>5 DEF Range
      <4>3. CASE Len(p) = limit /\ id < p[Len(p)]
        <5>1. p # <<>> /\ Len(p) \in 1 .. Len(p)
          BY <4>3, <1>1, <1>4
        <5>2. at' = "asking" /\ cursor' = p[Len(p)] /\ cursor' \in Nat
          BY <5>1, <4>3, <1>1, <1>3, <1>4
        <5>3. QED
          BY <5>2, <4>3, <3>1, <2>2
      <4>4. QED
        BY <4>1, <4>2, <4>3, <1>4
    <3>4. QED
      BY <3>2, <3>3
  <2>3. QED
    BY <2>1, <2>2, <1>3 DEF NoGap
<1>10. QED
  BY <1>6, <1>7, <1>8, <1>9 DEF PagesInv

\* What others do to the rows between two pages can only make rows unsteady.
LEMMA RowChangesKeepsInv ==
    ASSUME PagesInv, NEW id \in Ids, RowChanges(id)
    PROVE  PagesInv'
<1>1. UNCHANGED listVars /\ steady' = steady \cap Matching(row', filter)
  BY DEF RowChanges
<1>2. PagesTypeOK'
  <2>1. row' \in [Ids -> {"free", "open", "archived", "deleted"}]
    BY DEF RowChanges, PagesInv, PagesTypeOK
  <2>2. QED
    BY <1>1, <2>1 DEF listVars, PagesInv, PagesTypeOK, NoCursor
<1>3. CursorAtLast' /\ ListedInOrder'
  BY <1>1 DEF listVars, PagesInv, CursorAtLast, ListedInOrder, NoCursor
<1>4. NoGap'
  BY <1>1 DEF listVars, PagesInv, NoGap, Matching
<1>5. QED
  BY <1>2, <1>3, <1>4 DEF PagesInv

\* The three facts of the inductive invariant: the first page has not been
\* asked for; a page keeps it; a change of a row keeps it.
LEMMA PagesInductive ==
    /\ PagesInit => PagesInv
    /\ PagesInv /\ [PagesNext \/ Listed]_pagesVars => PagesInv'
<1>1. ASSUME PagesInit
      PROVE  PagesInv
  <2>1. PagesTypeOK
    BY <1>1 DEF PagesInit, PagesTypeOK, Matching
  <2>2. CursorAtLast /\ ListedInOrder
    BY <1>1 DEF PagesInit, CursorAtLast, ListedInOrder
  <2>3. ASSUME NEW id \in steady
        PROVE  ~ (at = "done" \/ id >= cursor)
    <3>1. id \in Ids
      BY <1>1 DEF PagesInit, Matching
    <3>2. QED
      BY <3>1, <1>1, NoCursorAboveAll DEF PagesInit
  <2>4. NoGap
    BY <1>1, <2>3 DEF PagesInit, NoGap
  <2>5. QED
    BY <2>1, <2>2, <2>4 DEF PagesInv
<1>2. ASSUME PagesInv, [PagesNext \/ Listed]_pagesVars
      PROVE  PagesInv'
  <2>1. CASE GetPage
    BY <1>2, <2>1, GetPageKeepsInv
  <2>2. ASSUME NEW id \in Ids, RowChanges(id)
        PROVE  PagesInv'
    BY <1>2, <2>2, RowChangesKeepsInv
  <2>3. CASE UNCHANGED pagesVars
    BY <1>2, <2>3 DEF pagesVars, listVars, PagesInv, PagesTypeOK, CursorAtLast,
                      ListedInOrder, NoGap, Matching, NoCursor
  <2>4. QED
    BY <1>2, <2>1, <2>2, <2>3 DEF PagesNext, Listed
<1>3. QED
  BY <1>1, <1>2

\* list_threads_for_owner and list_conversations_for_owner: the pages put
\* together are one descending list, so no row is listed twice, whatever is
\* created, archived and deleted between two pages.
THEOREM PagesDescend == PagesSpec => []ListedInOrder
<1>1. PagesInv => ListedInOrder
  BY DEF PagesInv
<1>2. QED
  BY PagesInductive, <1>1, PTL DEF PagesSpec

\* list_threads_for_owner and list_conversations_for_owner: when the last page
\* has come, every row that matched the filter all along has been listed.
THEOREM PagesMissNothing == PagesSpec => []SteadyRowsListed
<1>1. PagesInv => SteadyRowsListed
  BY DEF PagesInv, NoGap, SteadyRowsListed
<1>2. QED
  BY PagesInductive, <1>1, PTL DEF PagesSpec
=============================================================================
