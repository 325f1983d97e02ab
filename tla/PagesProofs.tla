---------------------------- MODULE PagesProofs -----------------------------
(* Proofs about Pages, for any number of rows, page sizes and timestamps. *)
EXTENDS Pages, FiniteSetTheorems, WellFoundedInduction, TLAPS

(* A nonempty set of naturals has a least element. *)
LEMMA LeastNatural ==
  ASSUME NEW S \in SUBSET Nat, S # {}
  PROVE  \E m \in S : \A n \in S : m <= n
<1> DEFINE R == OpToRel(<, Nat)
<1>1. IsWellFoundedOn(R, Nat)
  BY NatLessThanWellFounded
<1>2. \A n, m \in S : n < m => <<n, m>> \in R
  BY DEF OpToRel
<1> HIDE DEF R
<1>3. PICK m \in S : \A n \in S : ~(<<n, m>> \in R)
  BY <1>1, WFMin
<1>4. \A n \in S : ~(n < m)
  BY <1>2, <1>3
<1>5. \A n \in S : m <= n
  BY <1>4
<1> QED BY <1>5

(* The order of the list, written out. *)
LEMMA OlderKeys ==
  ASSUME NEW r \in Id, NEW q \in Id
  PROVE  Older(KeyOf(r), KeyOf(q)) <=> at[r] < at[q] \/ (at[r] = at[q] /\ r < q)
BY DEF Older, KeyOf

LEMMA NaturalKeys ==
  ASSUME TypeOK, NEW r \in Id
  PROVE  r \in Nat /\ at[r] \in Nat /\ at[r] \in Time \union {0}
<1>1. at \in [Id -> Time \union {0}]
  BY DEF TypeOK
<1>2. at[r] \in Time \union {0}
  BY <1>1
<1>3. Id \subseteq Nat /\ \A t \in Time : t \in Nat
  BY PagesAssumption
<1> QED BY <1>2, <1>3

(* The list's order is total, so the oldest of some rows is one of them    *)
(* and older than the others: the token of a page is well defined.         *)
LEMMA OldestIsOldest ==
  ASSUME TypeOK, NEW S \in SUBSET Id, S # {}
  PROVE  /\ Oldest(S) \in S
         /\ \A q \in S \ {Oldest(S)} : Older(KeyOf(Oldest(S)), KeyOf(q))
<1> DEFINE T == {at[r] : r \in S}
<1>1. \A r \in S : r \in Nat /\ at[r] \in Nat
  BY NaturalKeys
<1>2. T \in SUBSET Nat /\ T # {}
  BY <1>1
<1>3. PICK t \in T : \A u \in T : t <= u
  BY <1>2, LeastNatural
<1> DEFINE I == {r \in S : at[r] = t}
<1>4. I \in SUBSET Nat /\ I # {}
  BY <1>1, <1>3
<1>5. PICK m \in I : \A n \in I : m <= n
  BY <1>4, LeastNatural
<1>6. \A q \in S \ {m} : Older(KeyOf(m), KeyOf(q))
  <2> SUFFICES ASSUME NEW q \in S \ {m}
               PROVE  at[m] < at[q] \/ (at[m] = at[q] /\ m < q)
    BY OlderKeys
  <2>1. at[m] <= at[q]
    BY <1>3
  <2>2. at[m] = at[q] => m < q
    BY <1>1, <1>5
  <2> QED BY <1>1, <2>1, <2>2
<1> QED BY <1>6 DEF Oldest

(* What page returns of the rows the SELECT found: a page without a token  *)
(* holds all rows before the cursor; otherwise the token separates the     *)
(* rows of the page from the rows that are left.                           *)
LEMMA PageSplitsRows ==
  ASSUME TypeOK, NEW f, NEW c \in Key \union {NoCursor}, NEW size \in Asked,
         NEW S \in SUBSET Id, Newest(Rows(f, c), S, Limit(size)),
         NEW items, NEW next,
         items = page(S, Limit(size)).items, next = page(S, Limit(size)).next
  PROVE  /\ items \subseteq Rows(f, c)
         /\ next \in Key \union {NoCursor}
         /\ next = NoCursor => items = Rows(f, c)
         /\ next # NoCursor =>
              /\ \A r \in Rows(f, c) : r \in items <=> ~Older(KeyOf(r), next)
              /\ \A r \in Id : Older(KeyOf(r), next) => Before(r, c)
              /\ \E r \in Rows(f, c) : next = KeyOf(r)
<1> DEFINE E == Rows(f, c)
<1>1. E \subseteq Id /\ IsFiniteSet(E) /\ IsFiniteSet(S)
  BY PagesAssumption, FS_Subset DEF Rows, Matching
<1>2. Cardinality(E) \in Nat /\ Cardinality(S) \in Nat /\ Limit(size) \in Nat /\ Limit(size) >= 2
  BY <1>1, FS_CardinalityType, PagesAssumption DEF Limit
<1>3. S \subseteq E /\ \A r \in S, q \in E \ S : Older(KeyOf(q), KeyOf(r))
  BY DEF Newest
<1>4. CASE Cardinality(S) < Limit(size)
  <2>1. S = E
    BY <1>2, <1>4 DEF Newest
  <2>2. items = S /\ next = NoCursor
    BY <1>4 DEF page
  <2> QED BY <2>1, <2>2
<1>5. CASE ~(Cardinality(S) < Limit(size))
  <2> DEFINE last == Oldest(S)
             edge == Oldest(S \ {last})
  <2>1. S # {}
    BY <1>2, <1>5, FS_EmptySet
  <2>2. last \in S /\ \A q \in S \ {last} : Older(KeyOf(last), KeyOf(q))
    BY <2>1, OldestIsOldest
  <2>3. Cardinality(S \ {last}) = Cardinality(S) - 1
    BY <1>1, <2>2, FS_RemoveElement
  <2>4. S \ {last} # {}
    <3>1. Cardinality(S \ {last}) # 0
      BY <1>2, <1>5, <2>3
    <3>2. IsFiniteSet(S \ {last})
      BY <1>1, FS_Subset
    <3> QED BY <3>1, <3>2, FS_EmptySet
  <2>5. edge \in S \ {last} /\ \A q \in (S \ {last}) \ {edge} : Older(KeyOf(edge), KeyOf(q))
    BY <2>4, OldestIsOldest
  <2>6. items = S \ {last} /\ next = KeyOf(edge)
    BY <1>5 DEF page
  <2>7. \A r \in E : at[r] \in Time /\ at[r] \in Nat /\ r \in Nat /\ at[r] # 0 /\ Before(r, c)
    BY <1>1, NaturalKeys DEF Rows, Matching
  <2>8. edge \in E /\ edge \in Id /\ edge \in S /\ last \in E
    BY <1>1, <1>3, <2>2, <2>5
  <2>9. next \in Key /\ next # NoCursor
    BY <2>6, <2>7, <2>8 DEF KeyOf, Key, NoCursor
  <2> HIDE DEF last, edge
  <2>10. \A r \in E : r \in items <=> ~Older(KeyOf(r), next)
    <3> SUFFICES ASSUME NEW r \in E
                 PROVE  r \in items <=> ~(at[r] < at[edge] \/ (at[r] = at[edge] /\ r < edge))
      BY <1>1, <2>6, <2>8, OlderKeys
    <3>1. CASE r \in items
      <4>1. r = edge \/ Older(KeyOf(edge), KeyOf(r))
        BY <2>5, <2>6, <3>1
      <4> QED BY <1>1, <2>7, <2>8, <3>1, <4>1, OlderKeys
    <3>2. CASE r \notin items
      <4>1. r = last \/ r \in E \ S
        BY <2>6, <3>2
      <4>2. Older(KeyOf(r), KeyOf(edge))
        BY <1>3, <2>2, <2>5, <2>8, <4>1
      <4> QED BY <1>1, <2>8, <3>2, <4>2, OlderKeys
    <3> QED BY <3>1, <3>2
  <2>11. \A r \in Id : Older(KeyOf(r), next) => Before(r, c)
    <3> SUFFICES ASSUME NEW r \in Id, Older(KeyOf(r), KeyOf(edge))
                 PROVE  Before(r, c)
      BY <2>6
    <3>1. CASE c = NoCursor
      BY <3>1 DEF Before
    <3>2. CASE c # NoCursor
      <4>1. c[1] \in Nat /\ c[2] \in Nat
        BY <3>2, PagesAssumption DEF Key
      <4>2. at[edge] < c[1] \/ (at[edge] = c[1] /\ edge < c[2])
        BY <2>7, <2>8, <3>2 DEF Before, Older, KeyOf
      <4>3. at[r] < at[edge] \/ (at[r] = at[edge] /\ r < edge)
        BY <2>8, OlderKeys
      <4>4. at[r] \in Nat /\ r \in Nat /\ at[edge] \in Nat /\ edge \in Nat
        BY <2>8, NaturalKeys
      <4>5. at[r] < c[1] \/ (at[r] = c[1] /\ r < c[2])
        BY <4>1, <4>2, <4>3, <4>4
      <4> QED BY <4>5 DEF Before, Older, KeyOf
    <3> QED BY <3>1, <3>2
  <2> QED BY <1>3, <2>6, <2>8, <2>9, <2>10, <2>11
<1> QED BY <1>4, <1>5

-----------------------------------------------------------------------------
(* A step of a writer. *)
LEMMA WritePreserves ==
  ASSUME PagesInv, NEW r \in Id, NEW t \in Time, NEW s \in Status, Write(r, t, s),
         list # "worked" => at[r] = 0 \/ t = at[r]
  PROVE  PagesInv'
<1> USE DEF Write, scanVars
<1>0. TypeOK
  BY DEF PagesInv
<1>1. TypeOK'
  BY <1>0 DEF TypeOK, Key
<1>2. \A q \in Id \ {r} : at'[q] = at[q] /\ status'[q] = status[q]
  BY <1>0 DEF TypeOK
<1>3. \A q \in Id \ {r} : Ahead(q)' = Ahead(q) /\ KeyOf(q)' = KeyOf(q)
  BY <1>2 DEF Ahead, Before, KeyOf
<1>4. \A q \in Id \ {r} : q \in Matching(filter)' <=> q \in Matching(filter)
  BY <1>2 DEF Matching
<1>5. UntouchedAheadOrListed'
  <2> SUFFICES ASSUME scan # "none", NEW q \in present \ changed, q # r
               PROVE  q \in Matching(filter)' /\ listed[q] = IF Ahead(q)' THEN 0 ELSE 1
    BY DEF UntouchedAheadOrListed
  <2>1. q \in Id
    BY <1>0 DEF TypeOK
  <2> QED BY <1>3, <1>4, <2>1 DEF PagesInv, UntouchedAheadOrListed
<1>6. OtherRowsFilteredOut'
  BY <1>4 DEF PagesInv, OtherRowsFilteredOut
<1>7. FixedListedBehind'
  <2> SUFFICES ASSUME list # "worked", NEW q \in Id
               PROVE  listed[q] <= 1 /\ (listed[q] = 1 => at'[q] # 0 /\ ~Ahead(q)')
    BY DEF FixedListedBehind
  <2>1. listed[q] <= 1 /\ (listed[q] = 1 => at[q] # 0 /\ ~Ahead(q))
    BY DEF PagesInv, FixedListedBehind
  <2>2. CASE q # r
    BY <1>2, <1>3, <2>1, <2>2
  <2>3. CASE q = r
    <3>1. listed[q] = 1 => at'[q] = at[q]
      BY <1>0, <2>1, <2>3 DEF TypeOK
    <3>2. at'[q] = at[q] => Ahead(q)' = Ahead(q)
      BY DEF Ahead, Before, KeyOf
    <3> QED BY <2>1, <3>1, <3>2
  <2> QED BY <2>2, <2>3
<1>8. OnlyChangedRepeat'
  BY DEF PagesInv, OnlyChangedRepeat
<1> QED BY <1>1, <1>5, <1>6, <1>7, <1>8 DEF PagesInv

(* A page, of a new scan or of the one under way: n counts the rows        *)
(* returned so far and c is the cursor.                                    *)
LEMMA ReturnSplits ==
  ASSUME TypeOK, NEW f \in Filters, NEW c \in Key \union {NoCursor}, NEW size \in Asked,
         NEW n \in [Id -> 0..2], Return(f, c, size, n), UNCHANGED tableVars
  PROVE  /\ listed' \in [Id -> 0..2]
         /\ cursor' \in Key \union {NoCursor}
         /\ scan' \in {"running", "ended"}
         /\ (scan' = "running") <=> (cursor' # NoCursor)
         /\ \A r \in Id :
              \/ /\ r \in Rows(f, c)
                 /\ listed'[r] = n[r]
                 /\ Ahead(r)'
              \/ /\ r \in Rows(f, c)
                 /\ listed'[r] = IF n[r] < 2 THEN n[r] + 1 ELSE n[r]
                 /\ ~Ahead(r)'
              \/ /\ r \notin Rows(f, c)
                 /\ listed'[r] = n[r]
                 /\ Ahead(r)' => Before(r, c)
<1>1. PICK S \in SUBSET Id :
        /\ Newest(Rows(f, c), S, Limit(size))
        /\ listed' = [r \in Id |-> IF r \in page(S, Limit(size)).items /\ n[r] < 2
                                    THEN n[r] + 1 ELSE n[r]]
        /\ cursor' = page(S, Limit(size)).next
        /\ scan' = IF page(S, Limit(size)).next = NoCursor THEN "ended" ELSE "running"
  BY DEF Return
<1> DEFINE items == page(S, Limit(size)).items
           next == page(S, Limit(size)).next
<1>2. /\ items \subseteq Rows(f, c)
      /\ next \in Key \union {NoCursor}
      /\ next = NoCursor => items = Rows(f, c)
      /\ next # NoCursor =>
           /\ \A r \in Rows(f, c) : r \in items <=> ~Older(KeyOf(r), next)
           /\ \A r \in Id : Older(KeyOf(r), next) => Before(r, c)
  BY <1>1, PageSplitsRows
<1> HIDE DEF items, next
<1>3. /\ listed' = [r \in Id |-> IF r \in items /\ n[r] < 2 THEN n[r] + 1 ELSE n[r]]
      /\ cursor' = next
      /\ scan' = IF next = NoCursor THEN "ended" ELSE "running"
  BY <1>1 DEF items, next
<1>4. \A r \in Id : Ahead(r)' <=> next # NoCursor /\ Older(KeyOf(r), next)
  BY <1>3 DEF Ahead, Before, KeyOf, tableVars
<1>5. listed' \in [Id -> 0..2]
  BY <1>3
<1>6. cursor' \in Key \union {NoCursor} /\ scan' \in {"running", "ended"}
      /\ ((scan' = "running") <=> (cursor' # NoCursor))
  BY <1>2, <1>3
<1>7. ASSUME NEW r \in Id
      PROVE  \/ r \in Rows(f, c) /\ listed'[r] = n[r] /\ Ahead(r)'
             \/ /\ r \in Rows(f, c)
                /\ listed'[r] = IF n[r] < 2 THEN n[r] + 1 ELSE n[r]
                /\ ~Ahead(r)'
             \/ r \notin Rows(f, c) /\ listed'[r] = n[r] /\ (Ahead(r)' => Before(r, c))
  <2>1. listed'[r] = IF r \in items THEN IF n[r] < 2 THEN n[r] + 1 ELSE n[r] ELSE n[r]
    BY <1>3
  <2>2. CASE r \in items
    BY <1>2, <1>4, <2>1, <2>2
  <2>3. CASE r \notin items
    BY <1>2, <1>4, <2>1, <2>3
  <2> QED BY <2>2, <2>3
<1> QED BY <1>5, <1>6, <1>7

LEMMA FirstPagePreserves ==
  ASSUME PagesInv, NEW f \in Filters, NEW size \in Asked, FirstPage(f, size)
  PROVE  PagesInv'
<1> DEFINE zero == [r \in Id |-> 0]
<1>0. TypeOK
  BY DEF PagesInv
<1>1. /\ Return(f, NoCursor, size, zero)
      /\ filter' = f /\ present' = Matching(f) /\ changed' = {}
      /\ UNCHANGED tableVars
  BY DEF FirstPage
<1>2. zero \in [Id -> 0..2] /\ NoCursor \in Key \union {NoCursor} /\ \A r \in Id : zero[r] = 0
  OBVIOUS
<1> HIDE DEF zero
<1>3. /\ listed' \in [Id -> 0..2]
      /\ cursor' \in Key \union {NoCursor}
      /\ scan' \in {"running", "ended"}
      /\ (scan' = "running") <=> (cursor' # NoCursor)
      /\ \A r \in Id :
           \/ r \in Rows(f, NoCursor) /\ listed'[r] = 0 /\ Ahead(r)'
           \/ r \in Rows(f, NoCursor) /\ listed'[r] = 1 /\ ~Ahead(r)'
           \/ r \notin Rows(f, NoCursor) /\ listed'[r] = 0
  <2>1. ASSUME NEW r \in Id
        PROVE  (IF zero[r] < 2 THEN zero[r] + 1 ELSE zero[r]) = 1
    BY <1>2
  <2> QED BY <1>0, <1>1, <1>2, <2>1, ReturnSplits
<1>4. Rows(f, NoCursor) = Matching(f) /\ Matching(f)' = Matching(f) /\ Matching(f) \subseteq Id
  BY <1>1 DEF Rows, Before, Matching, tableVars
<1>5. TypeOK'
  BY <1>0, <1>1, <1>3, <1>4 DEF TypeOK, tableVars, Key
<1>6. UntouchedAheadOrListed'
  <2> SUFFICES ASSUME NEW r \in Matching(f)
               PROVE  r \in Matching(filter)' /\ listed'[r] = IF Ahead(r)' THEN 0 ELSE 1
    BY <1>1 DEF UntouchedAheadOrListed
  <2>1. r \in Matching(filter)'
    BY <1>1, <1>4 DEF Matching
  <2> QED BY <1>3, <1>4, <2>1
<1>7. OtherRowsFilteredOut'
  BY <1>1, <1>4 DEF OtherRowsFilteredOut, Matching
<1>8. FixedListedBehind'
  <2> SUFFICES ASSUME NEW r \in Id
               PROVE  listed'[r] <= 1 /\ (listed'[r] = 1 => at'[r] # 0 /\ ~Ahead(r)')
    BY DEF FixedListedBehind
  <2>1. r \in Matching(f) => at'[r] # 0
    BY <1>1 DEF Matching, tableVars
  <2> QED BY <1>3, <1>4, <2>1
<1>9. OnlyChangedRepeat'
  BY <1>3 DEF OnlyChangedRepeat
<1> QED BY <1>5, <1>6, <1>7, <1>8, <1>9 DEF PagesInv

LEMMA NextPagePreserves ==
  ASSUME PagesInv, NEW size \in Asked, NextPage(size)
  PROVE  PagesInv'
<1>0. TypeOK
  BY DEF PagesInv
<1>1. /\ scan = "running"
      /\ Return(filter, cursor, size, listed)
      /\ UNCHANGED <<filter, present, changed>>
      /\ UNCHANGED tableVars
  BY DEF NextPage
<1>2. /\ filter \in Filters /\ cursor \in Key \union {NoCursor} /\ listed \in [Id -> 0..2]
      /\ present \subseteq Id
  BY <1>0 DEF TypeOK
<1>3. /\ listed' \in [Id -> 0..2]
      /\ cursor' \in Key \union {NoCursor}
      /\ scan' \in {"running", "ended"}
      /\ (scan' = "running") <=> (cursor' # NoCursor)
      /\ \A r \in Id :
           \/ r \in Rows(filter, cursor) /\ listed'[r] = listed[r] /\ Ahead(r)'
           \/ /\ r \in Rows(filter, cursor)
              /\ listed'[r] = IF listed[r] < 2 THEN listed[r] + 1 ELSE listed[r]
              /\ ~Ahead(r)'
           \/ /\ r \notin Rows(filter, cursor)
              /\ listed'[r] = listed[r]
              /\ Ahead(r)' => Before(r, cursor)
  BY <1>0, <1>1, <1>2, ReturnSplits
<1>4. \A r \in Id : r \in Rows(filter, cursor) <=> r \in Matching(filter) /\ Ahead(r)
  BY <1>1 DEF Rows, Ahead, Matching
<1>5. Matching(filter)' = Matching(filter)
  BY <1>1 DEF Matching, tableVars
<1>6. TypeOK'
  BY <1>0, <1>1, <1>3 DEF TypeOK, tableVars, Key
<1>7. UntouchedAheadOrListed'
  <2> SUFFICES ASSUME NEW r \in present \ changed
               PROVE  r \in Matching(filter)' /\ listed'[r] = IF Ahead(r)' THEN 0 ELSE 1
    BY <1>1 DEF UntouchedAheadOrListed
  <2>1. r \in Id /\ r \in Matching(filter) /\ listed[r] = IF Ahead(r) THEN 0 ELSE 1
    BY <1>1, <1>2 DEF PagesInv, UntouchedAheadOrListed
  <2>2. CASE Ahead(r)
    BY <1>3, <1>4, <1>5, <2>1, <2>2
  <2>3. CASE ~Ahead(r)
    <3>1. listed'[r] = listed[r] /\ (Ahead(r)' => Before(r, cursor))
      BY <1>3, <1>4, <2>1, <2>3
    <3>2. ~Before(r, cursor)
      BY <1>1, <2>3 DEF Ahead
    <3> QED BY <1>5, <2>1, <2>3, <3>1, <3>2
  <2> QED BY <2>2, <2>3
<1>8. OtherRowsFilteredOut'
  BY <1>1, <1>5 DEF PagesInv, OtherRowsFilteredOut
<1>9. FixedListedBehind'
  <2> SUFFICES ASSUME list # "worked", NEW r \in Id
               PROVE  listed'[r] <= 1 /\ (listed'[r] = 1 => at[r] # 0 /\ ~Ahead(r)')
    BY <1>1 DEF FixedListedBehind, tableVars
  <2>1. listed[r] \in 0..1 /\ (listed[r] = 1 => at[r] # 0 /\ ~Ahead(r))
    BY <1>2 DEF PagesInv, FixedListedBehind
  <2>2. CASE r \in Rows(filter, cursor)
    <3>1. Ahead(r) /\ at[r] # 0 /\ listed[r] = 0
      BY <1>4, <2>1, <2>2 DEF Matching
    <3> QED BY <1>3, <2>2, <3>1
  <2>3. CASE r \notin Rows(filter, cursor)
    <3>1. listed'[r] = listed[r] /\ (Ahead(r)' => Before(r, cursor))
      BY <1>3, <2>3
    <3> QED BY <1>1, <2>1, <3>1 DEF Ahead
  <2> QED BY <2>2, <2>3
<1>10. OnlyChangedRepeat'
  <2> SUFFICES ASSUME NEW r \in Id, listed'[r] > 1, r \notin changed
               PROVE  FALSE
    BY <1>1 DEF OnlyChangedRepeat
  <2>1. listed[r] \in 0..1
    BY <1>2 DEF PagesInv, OnlyChangedRepeat
  <2>2. r \in Rows(filter, cursor) /\ listed[r] = 1
    BY <1>3, <2>1
  <2>3. r \in present
    BY <1>1, <1>4, <2>2 DEF PagesInv, OtherRowsFilteredOut
  <2> QED BY <1>1, <1>4, <2>2, <2>3 DEF PagesInv, UntouchedAheadOrListed
<1> QED BY <1>6, <1>7, <1>8, <1>9, <1>10 DEF PagesInv

-----------------------------------------------------------------------------
LEMMA InitPages == Init => PagesInv
<1> SUFFICES ASSUME Init PROVE PagesInv
  OBVIOUS
<1>1. TypeOK
  BY DEF Init, TypeOK, Status, Filters
<1> QED BY <1>1 DEF Init, PagesInv, UntouchedAheadOrListed, OtherRowsFilteredOut,
                    FixedListedBehind, OnlyChangedRepeat

LEMMA NextPreservesPages == PagesInv /\ [Next]_vars => PagesInv'
<1> SUFFICES ASSUME PagesInv, [Next]_vars PROVE PagesInv'
  OBVIOUS
<1>0. TypeOK
  BY DEF PagesInv
<1>1. ASSUME NEW r \in Id, NEW t \in Time, Insert(r, t) PROVE PagesInv'
  BY <1>1, WritePreserves DEF Insert, Status
<1>2. ASSUME NEW r \in Id, Review(r) PROVE PagesInv'
  <2>1. at[r] \in Time
    BY <1>0, <1>2, NaturalKeys DEF Review
  <2> QED BY <1>2, <2>1, WritePreserves DEF Review, Status
<1>3. ASSUME NEW r \in Id, NEW t \in Time, NEW s \in Status, WorkOn(r, t, s) PROVE PagesInv'
  BY <1>3, WritePreserves DEF WorkOn
<1>4. ASSUME NEW f \in Filters, NEW size \in Asked, FirstPage(f, size) PROVE PagesInv'
  BY <1>4, FirstPagePreserves
<1>5. ASSUME NEW size \in Asked, NextPage(size) PROVE PagesInv'
  BY <1>5, NextPagePreserves
<1>6. CASE UNCHANGED vars
  BY <1>6 DEF vars, tableVars, scanVars, PagesInv, TypeOK, UntouchedAheadOrListed,
              OtherRowsFilteredOut, FixedListedBehind, OnlyChangedRepeat, Matching, Ahead,
              Before, KeyOf, Key
<1> QED BY <1>1, <1>2, <1>3, <1>4, <1>5, <1>6 DEF Next

(* The inductive invariant of the scan holds for any table, page sizes and *)
(* timestamps, whatever writers do between the pages.                      *)
THEOREM PagesInvariant == Spec => []PagesInv
BY InitPages, NextPreservesPages, PTL DEF Spec

(* Type correctness: in particular a scan is under way exactly while the   *)
(* client holds a token.                                                   *)
THEOREM PagesTypeCorrect == Spec => []TypeOK
<1>1. PagesInv => TypeOK
  BY DEF PagesInv
<1> QED BY <1>1, PagesInvariant, PTL

(* A finished scan has returned every row that was there throughout and    *)
(* was not written exactly once.                                           *)
THEOREM UntouchedRowsListedOnce == Spec => []UntouchedListedOnce
<1>1. PagesInv => UntouchedListedOnce
  BY DEF PagesInv, UntouchedAheadOrListed, UntouchedListedOnce, Ahead
<1> QED BY <1>1, PagesInvariant, PTL

(* Only a case that was worked on between two pages is returned twice.     *)
THEOREM NoRepeatsUnlessMoved == Spec => []RepeatsOnlyIfMoved
<1>1. PagesInv => RepeatsOnlyIfMoved
  <2> SUFFICES ASSUME PagesInv, NEW r \in Id, listed[r] > 1
               PROVE  list = "worked" /\ r \in changed
    BY DEF RepeatsOnlyIfMoved
  <2>1. listed[r] \in 0..2
    BY DEF PagesInv, TypeOK
  <2>2. ~(listed[r] <= 1)
    BY <2>1
  <2> QED BY <2>2 DEF PagesInv, FixedListedBehind, OnlyChangedRepeat
<1> QED BY <1>1, PagesInvariant, PTL

(* A page that is not the last returns an older token than it was given. *)
LEMMA NextPageGoesBack ==
  ASSUME TypeOK, NEW size \in Asked, NextPage(size)
  PROVE  scan' = "ended" \/ Older(cursor', cursor)
<1>1. cursor \in Key /\ cursor # NoCursor
  BY DEF NextPage, TypeOK
<1>2. PICK S \in SUBSET Id :
        /\ Newest(Rows(filter, cursor), S, Limit(size))
        /\ cursor' = page(S, Limit(size)).next
        /\ scan' = IF cursor' = NoCursor THEN "ended" ELSE "running"
  BY DEF NextPage, Return
<1> SUFFICES ASSUME cursor' # NoCursor PROVE Older(cursor', cursor)
  BY <1>2
<1>3. \E r \in Rows(filter, cursor) : page(S, Limit(size)).next = KeyOf(r)
  <2> DEFINE items == page(S, Limit(size)).items
             next == page(S, Limit(size)).next
  <2>1. items = page(S, Limit(size)).items /\ next = page(S, Limit(size)).next
    OBVIOUS
  <2>2. next # NoCursor
    BY <1>2
  <2> HIDE DEF items, next
  <2> QED BY <1>1, <1>2, <2>1, <2>2, PageSplitsRows
<1>4. PICK r \in Rows(filter, cursor) : cursor' = KeyOf(r)
  BY <1>2, <1>3
<1>5. Before(r, cursor)
  BY DEF Rows
<1> QED BY <1>1, <1>4, <1>5 DEF Before

(* The scan makes progress with every page: its tokens go strictly back    *)
(* in the order of the list, for any page sizes and whatever is written    *)
(* between the pages; with finitely many keys it comes to its end.         *)
THEOREM ScanMakesProgress == Spec => TokensGoBack
<1>1. ASSUME TypeOK, [Next]_vars PROVE [TokenGoesBack]_vars
  <2>1. CASE \E size \in Asked : NextPage(size)
    BY <1>1, <2>1, NextPageGoesBack DEF TokenGoesBack
  <2>2. CASE UNCHANGED vars
    BY <2>2
  <2>3. CASE Next /\ ~\E size \in Asked : NextPage(size)
    <3>1. scan = "running" => UNCHANGED <<scan, cursor>>
      BY <2>3 DEF Next, Insert, Review, WorkOn, FirstPage, Write, scanVars
    <3> QED BY <2>3, <3>1 DEF TokenGoesBack
  <2> QED BY <1>1, <2>1, <2>2, <2>3
<1>2. TypeOK /\ [Next]_vars => [TokenGoesBack]_vars
  BY <1>1
<1> QED BY <1>2, PagesTypeCorrect, PTL DEF Spec, TokensGoBack
=============================================================================
