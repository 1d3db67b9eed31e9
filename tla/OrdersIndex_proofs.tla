------------------------- MODULE OrdersIndex_proofs -------------------------
(***************************************************************************)
(* For any orders, clock, limits and page sizes: an order whose create was *)
(* answered is listed, and the pages of a walk are in order, repeat        *)
(* nothing, and together hold all that was there when the walk began.      *)
(***************************************************************************)
EXTENDS OrdersIndex, FiniteSetTheorems, SequenceTheorems, TLAPS

(* What a search matches, and the place of a hit in it. *)
Matching(S, after) == {i \in S : after = NoCursor \/ Newer(after, Key(i))}
Rank(M, i) == Cardinality({j \in M : Newer(Key(j), Key(i))})

(* The sequence h holds the first size, or all, of the orders M, in order. *)
FirstHits(h, M, size) ==
    /\ h \in Seq(Ids) /\ Len(h) <= size
    /\ \A n \in 1..Len(h) : h[n] \in M
    /\ \A m, n \in 1..Len(h) : m < n => Newer(Key(h[m]), Key(h[n]))
    /\ \A i \in M : \/ \E n \in 1..Len(h) : h[n] = i
                    \/ Len(h) = size /\ \A n \in 1..Len(h) : Newer(Key(h[n]), Key(i))

(* The page lists the first of the orders M, in order; its cursor is the   *)
(* key of the last, and without one there are no more.                     *)
FirstPage(page, M) ==
    /\ page.items \in Seq(Ids)
    /\ \A n \in 1..Len(page.items) : page.items[n] \in M
    /\ \A m, n \in 1..Len(page.items) :
          m < n => Newer(Key(page.items[m]), Key(page.items[n]))
    /\ page.next # NoCursor =>
          Len(page.items) # 0 /\ page.next = Key(page.items[Len(page.items)])
    /\ \A i \in M : \/ \E n \in 1..Len(page.items) : page.items[n] = i
                    \/ page.next # NoCursor /\ Newer(page.next, Key(i))

ClockTypeOK == createdAt \in [Ids -> 0..MaxClock]

-----------------------------------------------------------------------------
(* The sort is a strict order, and the id makes it total. *)
LEMMA KeyType ==
  ASSUME ClockTypeOK, NEW i \in Ids
  PROVE  /\ Key(i) \in Nat \X Nat /\ Key(i) \in Keys
         /\ Key(i)[1] = createdAt[i] /\ Key(i)[2] = i /\ Key(i) # NoCursor
  BY IndexAssumption DEF ClockTypeOK, Key, Keys

LEMMA NewerOrder ==
  ASSUME NEW k \in Nat \X Nat, NEW l \in Nat \X Nat, NEW m \in Nat \X Nat
  PROVE  /\ ~ Newer(k, k)
         /\ Newer(k, l) => ~ Newer(l, k)
         /\ Newer(k, l) /\ Newer(l, m) => Newer(k, m)
         /\ k[2] # l[2] => Newer(k, l) \/ Newer(l, k)
  BY DEF Newer

LEMMA NewerTotal ==
  ASSUME ClockTypeOK, NEW i \in Ids, NEW j \in Ids, i # j
  PROVE  Newer(Key(i), Key(j)) \/ Newer(Key(j), Key(i))
  BY KeyType, NewerOrder

-----------------------------------------------------------------------------
(* Ranks count from 0, grow from hit to hit, and none is left out. *)
LEMMA RankType ==
  ASSUME ClockTypeOK, NEW M \in SUBSET Ids, NEW i \in M
  PROVE  /\ IsFiniteSet(M) /\ Cardinality(M) \in Nat
         /\ Rank(M, i) \in 0..(Cardinality(M) - 1)
  <1> DEFINE before == {j \in M : Newer(Key(j), Key(i))}
  <1>1. IsFiniteSet(M) /\ Cardinality(M) \in Nat
    BY IndexAssumption, FS_Subset, FS_CardinalityType
  <1>2. i \in M \ before
    BY KeyType, NewerOrder
  <1>3. before \in SUBSET M /\ before # M
    BY <1>2
  <1>4. IsFiniteSet(before) /\ Cardinality(before) <= Cardinality(M)
        /\ Cardinality(before) # Cardinality(M)
    BY <1>1, <1>3, FS_Subset
  <1>5. Cardinality(before) \in Nat
    BY <1>4, FS_CardinalityType
  <1>6. QED
    BY <1>1, <1>4, <1>5 DEF Rank

LEMMA RankGrows ==
  ASSUME ClockTypeOK, NEW M \in SUBSET Ids, NEW i \in M, NEW j \in M
  PROVE  /\ Newer(Key(i), Key(j)) => Rank(M, i) < Rank(M, j)
         /\ Rank(M, i) < Rank(M, j) => Newer(Key(i), Key(j))
         /\ Rank(M, i) = Rank(M, j) => i = j
  <1>1. ASSUME NEW k \in M, NEW l \in M, Newer(Key(k), Key(l))
        PROVE  Rank(M, k) < Rank(M, l)
    <2> DEFINE before(x) == {y \in M : Newer(Key(y), Key(x))}
    <2>1. IsFiniteSet(before(l))
      BY RankType, FS_Subset
    <2>2. before(k) \subseteq before(l)
      <3>1. ASSUME NEW y \in before(k) PROVE Newer(Key(y), Key(l))
        <4>1. y \in Ids /\ Newer(Key(y), Key(k))
          OBVIOUS
        <4>2. Key(y) \in Nat \X Nat /\ Key(k) \in Nat \X Nat /\ Key(l) \in Nat \X Nat
          BY <4>1, KeyType
        <4>3. QED
          BY <1>1, <4>1, <4>2, NewerOrder
      <3>2. QED
        BY <3>1
    <2>3. k \in before(l) \ before(k)
      BY <1>1, KeyType, NewerOrder
    <2>4. /\ Cardinality(before(k)) <= Cardinality(before(l))
          /\ Cardinality(before(k)) # Cardinality(before(l))
      BY <2>1, <2>2, <2>3, FS_Subset
    <2>5. Rank(M, k) = Cardinality(before(k)) /\ Rank(M, l) = Cardinality(before(l))
      BY DEF Rank
    <2>6. Rank(M, k) \in Int /\ Rank(M, l) \in Int
      BY RankType
    <2> HIDE DEF before
    <2>7. QED
      BY <2>4, <2>5, <2>6
  <1>2. Rank(M, i) \in Int /\ Rank(M, j) \in Int
    BY RankType
  <1>3. QED
    BY <1>1, <1>2, NewerTotal

LEMMA RankTaken ==
  ASSUME ClockTypeOK, NEW M \in SUBSET Ids, NEW n \in 1..Cardinality(M)
  PROVE  \E i \in M : Rank(M, i) = n - 1
  <1> DEFINE rank == [i \in M |-> Rank(M, i)]
             places == 0..(Cardinality(M) - 1)
  <1>1. IsFiniteSet(M) /\ Cardinality(M) \in Nat
    BY IndexAssumption, FS_Subset, FS_CardinalityType
  <1>2. rank \in [M -> places]
    BY RankType
  <1>3. \A i, j \in M : rank[i] = rank[j] => i = j
    BY RankGrows
  <1>4. rank \in Injection(M, places)
    BY <1>2, <1>3, Zenon DEF Injection, IsInjective
  <1>5. IsFiniteSet(places) /\ Cardinality(places) = Cardinality(M)
    <2>1. 0 \in Int /\ Cardinality(M) - 1 \in Int
      BY <1>1
    <2>2. /\ IsFiniteSet(places)
          /\ Cardinality(places) = IF 0 > Cardinality(M) - 1 THEN 0 ELSE Cardinality(M) - 1 - 0 + 1
      BY <2>1, FS_Interval
    <2>3. QED
      BY <1>1, <2>2
  <1>6. rank \in Surjection(M, places)
    BY <1>4, <1>5, FS_Injection
  <1>7. n - 1 \in places
    BY <1>1
  <1>8. PICK i \in M : rank[i] = n - 1
    BY <1>6, <1>7, Zenon DEF Surjection
  <1>9. QED
    BY <1>8

-----------------------------------------------------------------------------
(* The hits are the first of what matches, in order. *)
LEMMA HitsRanks ==
  ASSUME ClockTypeOK, NEW S \in SUBSET Ids, NEW after, NEW size \in Nat
  PROVE  LET M == Matching(S, after)
             h == Hits(S, after, size)
             L == Min2(size, Cardinality(M))
         IN  /\ M \in SUBSET Ids /\ Cardinality(M) \in Nat /\ L \in Nat
             /\ h \in Seq(Ids) /\ Len(h) = L
             /\ \A n \in 1..L : h[n] \in M /\ Rank(M, h[n]) = n - 1
  <1> DEFINE M == Matching(S, after)
             h == Hits(S, after, size)
             L == Min2(size, Cardinality(M))
  <1>1. M \in SUBSET Ids
    BY DEF Matching
  <1>2. Cardinality(M) \in Nat /\ L \in Nat /\ L <= size /\ L <= Cardinality(M)
    BY <1>1, IndexAssumption, FS_Subset, FS_CardinalityType DEF Min2
  <1>3. h = [n \in 1..L |-> CHOOSE i \in M : Rank(M, i) = n - 1]
    BY DEF Hits, Matching, Rank
  <1> HIDE DEF M, h, L
  <1>4. ASSUME NEW n \in 1..L PROVE h[n] \in M /\ Rank(M, h[n]) = n - 1
    <2>1. n \in 1..Cardinality(M)
      BY <1>2
    <2>2. \E i \in M : Rank(M, i) = n - 1
      BY <1>1, <2>1, RankTaken
    <2>3. h[n] = CHOOSE i \in M : Rank(M, i) = n - 1
      BY <1>3
    <2>4. QED
      BY <2>2, <2>3
  <1>5. h \in [1..L -> Ids]
    BY <1>1, <1>3, <1>4
  <1>6. h \in Seq(Ids) /\ Len(h) = L
    BY <1>2, <1>5
  <1>7. QED
    BY <1>1, <1>2, <1>4, <1>6 DEF M, h, L

LEMMA HitsAreFirst ==
  ASSUME ClockTypeOK, NEW S \in SUBSET Ids, NEW after, NEW size \in Nat
  PROVE  FirstHits(Hits(S, after, size), Matching(S, after), size)
  <1> DEFINE h == Hits(S, after, size)
             M == Matching(S, after)
             L == Min2(size, Cardinality(M))
  <1>1. /\ M \in SUBSET Ids /\ Cardinality(M) \in Nat /\ L \in Nat
        /\ h \in Seq(Ids) /\ Len(h) = L
        /\ \A n \in 1..L : h[n] \in M /\ Rank(M, h[n]) = n - 1
    BY HitsRanks
  <1>2. L <= size /\ (L = size \/ L = Cardinality(M))
    BY <1>1 DEF Min2
  <1> HIDE DEF M, L, h
  <1>3. ASSUME NEW m \in 1..L, NEW n \in 1..L, m < n
        PROVE  Newer(Key(h[m]), Key(h[n]))
    <2>1. Rank(M, h[m]) = m - 1 /\ Rank(M, h[n]) = n - 1 /\ h[m] \in M /\ h[n] \in M
      BY <1>1
    <2>2. Rank(M, h[m]) < Rank(M, h[n])
      BY <1>1, <1>3, <2>1
    <2>3. QED
      BY <1>1, <2>1, <2>2, RankGrows
  <1>4. ASSUME NEW i \in M
        PROVE  \/ \E n \in 1..L : h[n] = i
               \/ L = size /\ \A n \in 1..L : Newer(Key(h[n]), Key(i))
    <2>1. Rank(M, i) \in 0..(Cardinality(M) - 1)
      BY <1>1, RankType
    <2>2. CASE Rank(M, i) < L
      <3>1. Rank(M, i) + 1 \in 1..L
        BY <1>1, <2>1, <2>2
      <3>2. PICK n \in 1..L : n = Rank(M, i) + 1
        BY <3>1
      <3>3. h[n] \in M /\ Rank(M, h[n]) = Rank(M, i)
        BY <1>1, <2>1, <3>2
      <3>4. h[n] = i
        BY <1>1, <3>3, RankGrows
      <3>5. QED
        BY <3>4
    <2>3. CASE Rank(M, i) >= L
      <3>1. L = size
        BY <1>1, <1>2, <2>1, <2>3
      <3>2. ASSUME NEW n \in 1..L PROVE Newer(Key(h[n]), Key(i))
        <4>1. h[n] \in M /\ Rank(M, h[n]) = n - 1
          BY <1>1
        <4>2. Rank(M, h[n]) < Rank(M, i)
          BY <1>1, <2>1, <2>3, <4>1
        <4>3. QED
          BY <1>1, <4>1, <4>2, RankGrows
      <3>3. QED
        BY <3>1, <3>2
    <2>4. QED
      BY <1>1, <2>1, <2>2, <2>3
  <1>5. QED
    BY <1>1, <1>2, <1>3, <1>4 DEF M, h, FirstHits

(* A page: in order, and what matches and is not on it is after its last   *)
(* hit, whose key is the cursor.                                           *)
LEMMA PageIsFirst ==
  ASSUME ClockTypeOK, NEW S \in SUBSET Ids, NEW after, NEW halves \in Nat \ {0},
         FindPage(S, after, halves).status = 200
  PROVE  FirstPage(FindPage(S, after, halves), Matching(S, after))
  <1> DEFINE page == FindPage(S, after, halves)
             size == (halves + 2) \div 2
             k == halves \div 2
             h == Hits(S, after, size)
             hasMore == 2 * Len(h) > halves
             first == SubSeq(h, 1, k)
  <1>1. k \in Nat /\ size \in Nat /\ size = k + 1 /\ (halves = 2 * k \/ halves = 2 * k + 1)
    OBVIOUS
  <1>2. FirstHits(h, Matching(S, after), size)
    BY <1>1, HitsAreFirst
  <1>3. CASE ~ hasMore
    <2>1. page = [status |-> 200, items |-> h, next |-> NoCursor]
      BY <1>3 DEF FindPage, Page
    <2>2. Len(h) # size
      BY <1>1, <1>2, <1>3 DEF FirstHits
    <2> HIDE DEF h, size
    <2>3. QED
      BY <1>2, <2>1, <2>2 DEF FirstHits, FirstPage
  <1>4. CASE hasMore
    <2>1. first # <<>> /\ page = [status |-> 200, items |-> first, next |-> NextCursor(h, first)]
      BY <1>4 DEF FindPage, Page, NoPage
    <2>2. Len(h) = k + 1
      BY <1>1, <1>2, <1>4 DEF FirstHits
    <2> HIDE DEF h, size, k
    <2>3. /\ first \in Seq(Ids) /\ Len(first) = k
          /\ \A n \in 1..k : first[n] = h[n]
      BY <1>1, <1>2, <2>2 DEF FirstHits
    <2>4. k \in 1..Len(h)
      BY <1>1, <2>1, <2>2, <2>3
    <2>5. h[k] \in Ids /\ page.next = Key(h[k]) /\ page.next # NoCursor
      BY <1>2, <2>1, <2>3, <2>4, KeyType DEF NextCursor, FirstHits, Matching
    <2>6. ASSUME NEW i \in Matching(S, after)
          PROVE  (\E n \in 1..k : first[n] = i) \/ Newer(Key(h[k]), Key(i))
      <3>1. CASE \E n \in 1..Len(h) : h[n] = i
        <4>1. PICK n \in 1..Len(h) : h[n] = i
          BY <3>1
        <4>2. CASE n \in 1..k
          BY <2>3, <4>1, <4>2
        <4>3. CASE n > k
          BY <1>2, <2>4, <4>1, <4>3 DEF FirstHits
        <4>4. QED
          BY <1>1, <4>2, <4>3
      <3>2. CASE \A n \in 1..Len(h) : Newer(Key(h[n]), Key(i))
        BY <2>4, <3>2
      <3>3. QED
        BY <1>2, <3>1, <3>2 DEF FirstHits
    <2>7. \A n \in 1..k : first[n] \in Matching(S, after)
      BY <1>1, <1>2, <2>2, <2>3 DEF FirstHits
    <2>8. \A m, n \in 1..k : m < n => Newer(Key(first[m]), Key(first[n]))
      BY <1>1, <1>2, <2>2, <2>3 DEF FirstHits
    <2> HIDE DEF first
    <2>9. QED
      BY <2>1, <2>3, <2>4, <2>5, <2>6, <2>7, <2>8 DEF NextCursor, FirstPage
  <1>5. QED
    BY <1>3, <1>4

-----------------------------------------------------------------------------
(* What a search sees was indexed, so that its timestamp stays.            *)
SearchableIsIndexed == \A i \in searchable : create[i] \in {"indexed", "answered"}

Shown(i) == \E n \in 1..Len(seen) : seen[n] = i

(* The cursor is the key of the last order seen, and what was expected and *)
(* is not shown yet is behind it.                                          *)
CursorIsSound ==
    /\ walk = "off" => seen = <<>> /\ cursor = NoCursor
    /\ walk = "on" /\ cursor = NoCursor => Len(seen) = 0
    /\ walk = "on" /\ cursor # NoCursor => Len(seen) # 0 /\ cursor = Key(seen[Len(seen)])
    /\ walk = "on" =>
          \A i \in expected : Shown(i) \/ cursor = NoCursor \/ Newer(cursor, Key(i))

WalkInv ==
    /\ expected \subseteq searchable
    /\ \A n \in 1..Len(seen) : seen[n] \in searchable
    /\ WalkIsOrdered
    /\ CursorIsSound
    /\ WalkIsComplete

IndexInv == IndexTypeOK /\ AnsweredIsListed /\ SearchableIsIndexed /\ WalkInv

LEMMA IndexInitInv == IndexInit => IndexInv
  <1>1. SUFFICES ASSUME IndexInit PROVE IndexInv
    OBVIOUS
  <1>2. IndexTypeOK
    BY <1>1, IndexAssumption DEF IndexInit, IndexTypeOK
  <1>3. Len(seen) = 0
    BY <1>1 DEF IndexInit
  <1>4. QED
    BY <1>1, <1>2, <1>3
       DEF IndexInit, IndexInv, AnsweredIsListed, SearchableIsIndexed, WalkInv,
           WalkIsOrdered, CursorIsSound, WalkIsComplete

(* What the store does beside a walk leaves the walk as it is. *)
LEMMA WalkKept ==
  ASSUME IndexInv, UNCHANGED walkVars, searchable \subseteq searchable',
         \A i \in searchable : createdAt'[i] = createdAt[i]
  PROVE  WalkInv'
  <1>1. \A i \in searchable : Key(i)' = Key(i)
    BY DEF Key
  <1>2. seen \in Seq(Ids) /\ Len(seen) \in Nat
    BY DEF IndexInv, IndexTypeOK
  <1>3. UNCHANGED <<seen, cursor, walk, expected>>
    BY DEF walkVars
  <1>4. WalkIsOrdered'
    BY <1>1, <1>2, <1>3 DEF IndexInv, WalkInv, WalkIsOrdered
  <1>5. CursorIsSound'
    <2>1. Len(seen) # 0 => Len(seen) \in 1..Len(seen)
      BY <1>2
    <2>2. QED
      BY <1>1, <1>2, <1>3, <2>1 DEF IndexInv, WalkInv, CursorIsSound, Shown
  <1>6. QED
    BY <1>3, <1>4, <1>5 DEF IndexInv, WalkInv, WalkIsComplete

(* The handler of a page: with status 200 it has decoded its cursor. *)
LEMMA PageIsFound ==
  ASSUME NEW S \in SUBSET Ids, NEW limit \in Limits,
         GetOrdersPage(S, cursor, limit).status = 200
  PROVE  /\ PageSize(limit) \in Nat \ {0}
         /\ GetOrdersPage(S, cursor, limit) = FindPage(S, cursor, PageSize(limit))
  <1>1. PageSize(limit) \in Nat \ {0}
    BY IndexAssumption DEF PageSize, Min2
  <1>2. NoPage(400).status # 200 /\ NoPage(500).status # 200
    BY DEF NoPage
  <1>3. QED
    BY <1>1, <1>2 DEF GetOrdersPage

LEMMA ReadPageInv ==
  ASSUME IndexInv, NEW limit \in Limits, ReadPage(limit)
  PROVE  IndexInv'
  <1> DEFINE page == GetOrdersPage(searchable, cursor, limit)
             items == page.items
             M == Matching(searchable, cursor)
  <1>1. /\ IndexTypeOK /\ ClockTypeOK /\ searchable \in SUBSET Ids
        /\ seen \in Seq(Ids) /\ Len(seen) \in Nat
    BY DEF IndexInv, IndexTypeOK, ClockTypeOK
  <1>2. /\ walk = "on" /\ page.status = 200
        /\ seen' = seen \o items /\ cursor' = page.next
        /\ walk' = IF page.next = NoCursor THEN "done" ELSE "on"
        /\ UNCHANGED <<clock, create, createdAt, searchable, expected>>
    BY DEF ReadPage, createVars
  <1>3. /\ items \in Seq(Ids) /\ Len(items) \in Nat
        /\ \A n \in 1..Len(items) : items[n] \in M
        /\ \A m, n \in 1..Len(items) : m < n => Newer(Key(items[m]), Key(items[n]))
        /\ page.next # NoCursor =>
              /\ Len(items) # 0
              /\ page.next = Key(items[Len(items)])
        /\ \A i \in M :
              \/ \E n \in 1..Len(items) : items[n] = i
              \/ page.next # NoCursor /\ Newer(page.next, Key(i))
    <2>1. /\ PageSize(limit) \in Nat \ {0}
          /\ page = FindPage(searchable, cursor, PageSize(limit))
      BY <1>1, <1>2, PageIsFound
    <2> DEFINE found == FindPage(searchable, cursor, PageSize(limit))
    <2>0. found.status = 200
      BY <1>2, <2>1
    <2>2. FirstPage(found, M)
      BY <1>1, <2>0, <2>1, PageIsFirst
    <2>3. FirstPage(page, M)
      BY <2>1, <2>2
    <2> HIDE DEF page
    <2>4. QED
      BY <2>3 DEF FirstPage
  <1> HIDE DEF page, items
  <1>4. /\ seen' \in Seq(Ids) /\ Len(seen') = Len(seen) + Len(items)
        /\ \A n \in 1..Len(seen) : seen'[n] = seen[n]
        /\ \A n \in Len(seen) + 1..Len(seen') :
              n - Len(seen) \in 1..Len(items) /\ seen'[n] = items[n - Len(seen)]
        /\ \A n \in 1..Len(items) : seen'[Len(seen) + n] = items[n]
    BY <1>1, <1>2, <1>3
  <1>5. \A i : Key(i)' = Key(i)
    BY <1>2 DEF Key
  <1>6. M \subseteq searchable /\ M \subseteq Ids
    BY <1>1 DEF Matching
  <1>7. cursor' \in Keys \cup {NoCursor}
    <2>1. CASE page.next # NoCursor
      <3>1. Len(items) \in 1..Len(items)
        BY <1>3, <2>1
      <3>2. QED
        BY <1>1, <1>2, <1>3, <1>6, <2>1, <3>1, KeyType
    <2>2. QED
      BY <1>2, <2>1
  <1>8. IndexTypeOK'
    BY <1>1, <1>2, <1>4, <1>7 DEF IndexTypeOK
  <1>9. \A n \in 1..Len(seen') : seen'[n] \in searchable'
    BY <1>1, <1>2, <1>3, <1>4, <1>6 DEF IndexInv, WalkInv
  <1>10. WalkIsOrdered'
    <2>1. SUFFICES ASSUME NEW m \in 1..Len(seen'), NEW n \in 1..Len(seen'), m < n
                   PROVE  Newer(Key(seen'[m]), Key(seen'[n]))
      BY <1>5 DEF WalkIsOrdered
    <2>2. CASE n <= Len(seen)
      <3>1. m \in 1..Len(seen) /\ n \in 1..Len(seen)
        BY <1>1, <1>4, <2>1, <2>2
      <3>2. QED
        BY <1>4, <2>1, <3>1 DEF IndexInv, WalkInv, WalkIsOrdered
    <2>3. CASE m > Len(seen)
      <3>1. /\ m - Len(seen) \in 1..Len(items) /\ seen'[m] = items[m - Len(seen)]
            /\ n - Len(seen) \in 1..Len(items) /\ seen'[n] = items[n - Len(seen)]
        BY <1>1, <1>3, <1>4, <2>1, <2>3
      <3>2. m - Len(seen) < n - Len(seen)
        BY <1>1, <1>3, <1>4, <2>1
      <3>3. QED
        BY <1>3, <3>1, <3>2
    <2>4. CASE m <= Len(seen) /\ n > Len(seen)
      <3> DEFINE last == seen[Len(seen)]
                 i == seen'[m]
                 j == seen'[n]
      <3>1. m \in 1..Len(seen) /\ Len(seen) \in 1..Len(seen) /\ i = seen[m]
        BY <1>1, <1>4, <2>1, <2>4
      <3>2. j \in M
        <4>1. n - Len(seen) \in 1..Len(items) /\ j = items[n - Len(seen)]
          BY <1>1, <1>3, <1>4, <2>1, <2>4
        <4>2. QED
          BY <1>3, <4>1
      <3>3. cursor # NoCursor /\ cursor = Key(last)
        BY <1>1, <1>2, <3>1 DEF IndexInv, WalkInv, CursorIsSound
      <3>4. Newer(Key(last), Key(j))
        BY <3>2, <3>3 DEF Matching
      <3>5. i \in Ids /\ j \in Ids /\ last \in Ids
        BY <1>1, <1>6, <3>1, <3>2
      <3>6. CASE m = Len(seen)
        BY <3>1, <3>4, <3>6
      <3>7. CASE m < Len(seen)
        <4>1. Newer(Key(i), Key(last))
          BY <3>1, <3>7 DEF IndexInv, WalkInv, WalkIsOrdered
        <4>2. Key(i) \in Nat \X Nat /\ Key(last) \in Nat \X Nat /\ Key(j) \in Nat \X Nat
          BY <1>1, <3>5, KeyType
        <4>3. QED
          BY <3>4, <4>1, <4>2, NewerOrder
      <3>8. QED
        BY <1>1, <2>4, <3>1, <3>6, <3>7
    <2>5. QED
      BY <1>1, <1>4, <2>2, <2>3, <2>4
  <1>11. ASSUME NEW i \in expected
         PROVE  Shown(i)' \/ (page.next # NoCursor /\ Newer(page.next, Key(i)))
    <2>1. CASE Shown(i)
      <3>1. PICK n \in 1..Len(seen) : seen[n] = i
        BY <2>1 DEF Shown
      <3>2. n \in 1..Len(seen') /\ seen'[n] = i
        BY <1>1, <1>3, <1>4, <3>1
      <3>3. QED
        BY <3>2 DEF Shown
    <2>2. CASE ~ Shown(i)
      <3>1. i \in M
        BY <1>2, <2>2 DEF IndexInv, WalkInv, CursorIsSound, Matching
      <3>2. CASE \E n \in 1..Len(items) : items[n] = i
        <4>1. PICK n \in 1..Len(items) : items[n] = i
          BY <3>2
        <4>2. Len(seen) + n \in 1..Len(seen') /\ seen'[Len(seen) + n] = i
          BY <1>1, <1>3, <1>4, <4>1
        <4>3. QED
          BY <4>2 DEF Shown
      <3>3. QED
        BY <1>3, <3>1, <3>2
    <2>3. QED
      BY <2>1, <2>2
  <1>12. CursorIsSound'
    <2>1. CASE page.next = NoCursor
      BY <1>2, <2>1 DEF CursorIsSound
    <2>2. CASE page.next # NoCursor
      <3>1. /\ Len(seen') \in Len(seen) + 1..Len(seen')
            /\ Len(seen') - Len(seen) = Len(items) /\ Len(seen') # 0
        BY <1>1, <1>3, <1>4, <2>2
      <3>2. seen'[Len(seen')] = items[Len(items)]
        BY <1>4, <3>1
      <3>3. walk' = "on" /\ cursor' # NoCursor /\ expected' = expected
            /\ cursor' = Key(seen'[Len(seen')])
        BY <1>2, <1>3, <2>2, <3>2
      <3>4. ASSUME NEW i \in expected'
            PROVE  Shown(i)' \/ Newer(cursor', Key(i))
        <4>1. i \in expected /\ cursor' = page.next
          BY <1>2
        <4>2. QED
          BY <1>11, <4>1
      <3>5. QED
        BY <1>5, <3>1, <3>3, <3>4 DEF CursorIsSound
    <2>3. QED
      BY <2>1, <2>2
  <1>13. WalkIsComplete'
    BY <1>2, <1>11 DEF WalkIsComplete, Shown
  <1>14. QED
    BY <1>2, <1>8, <1>9, <1>10, <1>12, <1>13
       DEF IndexInv, AnsweredIsListed, SearchableIsIndexed, WalkInv

LEMMA IndexNextInv == IndexInv /\ [IndexNext]_indexVars => IndexInv'
  <1>1. SUFFICES ASSUME IndexInv, [IndexNext]_indexVars PROVE IndexInv'
    OBVIOUS
  <1> USE DEF IndexInv, AnsweredIsListed, SearchableIsIndexed
  <1>2. CASE Tick
    <2>1. IndexTypeOK'
      BY <1>1, <1>2, IndexAssumption DEF Tick, IndexTypeOK, walkVars
    <2>2. WalkInv'
      BY <1>1, <1>2, WalkKept DEF Tick
    <2>3. QED
      BY <1>1, <1>2, <2>1, <2>2 DEF Tick
  <1>3. ASSUME NEW i \in Ids, Create(i) PROVE IndexInv'
    <2>1. IndexTypeOK'
      BY <1>1, <1>3 DEF Create, IndexTypeOK, walkVars
    <2>2. i \notin searchable
      BY <1>1, <1>3 DEF Create
    <2>3. WalkInv'
      BY <1>1, <1>3, <2>2, WalkKept DEF Create, IndexTypeOK
    <2>4. QED
      BY <1>1, <1>3, <2>1, <2>2, <2>3 DEF Create, IndexTypeOK
  <1>4. ASSUME NEW i \in Ids, Index(i) \/ Answered(i) PROVE IndexInv'
    <2>1. IndexTypeOK'
      BY <1>1, <1>4 DEF Index, Answered, IndexTypeOK, walkVars
    <2>2. WalkInv'
      BY <1>1, <1>4, WalkKept DEF Index, Answered
    <2>3. QED
      BY <1>1, <1>4, <2>1, <2>2 DEF Index, Answered, IndexTypeOK
  <1>5. CASE Refresh
    <2>1. IndexTypeOK'
      BY <1>1, <1>5 DEF Refresh, IndexTypeOK, createVars, walkVars
    <2>2. searchable \subseteq searchable'
      BY <1>1, <1>5 DEF Refresh, IndexTypeOK
    <2>3. WalkInv'
      BY <1>1, <1>5, <2>2, WalkKept DEF Refresh, createVars
    <2>4. QED
      BY <1>1, <1>5, <2>1, <2>3 DEF Refresh, createVars
  <1>6. CASE StartWalk
    <2>1. IndexTypeOK'
      BY <1>1, <1>6 DEF StartWalk, IndexTypeOK, createVars
    <2>2. Len(seen) = 0 /\ cursor = NoCursor
      BY <1>1, <1>6 DEF StartWalk, WalkInv, CursorIsSound
    <2>3. WalkInv'
      BY <1>1, <1>6, <2>2
         DEF StartWalk, WalkInv, CursorIsSound, WalkIsOrdered, WalkIsComplete
    <2>4. QED
      BY <1>1, <1>6, <2>1, <2>3 DEF StartWalk, createVars
  <1>7. ASSUME NEW limit \in Limits, ReadPage(limit) PROVE IndexInv'
    BY <1>1, <1>7, ReadPageInv
  <1>8. CASE UNCHANGED indexVars
    <2>1. IndexTypeOK'
      BY <1>1, <1>8 DEF indexVars, IndexTypeOK, createVars, walkVars
    <2>2. WalkInv'
      BY <1>1, <1>8, WalkKept DEF indexVars, createVars
    <2>3. QED
      BY <1>1, <1>8, <2>1, <2>2 DEF indexVars, createVars
  <1>9. QED
    BY <1>1, <1>2, <1>3, <1>4, <1>5, <1>6, <1>7, <1>8 DEF IndexNext

-----------------------------------------------------------------------------
(* Types. *)
THEOREM IndexTypes == IndexSpec => []IndexTypeOK
  <1>1. IndexInv => IndexTypeOK
    BY DEF IndexInv
  <1>2. QED
    BY <1>1, IndexInitInv, IndexNextInv, PTL DEF IndexSpec

(* The pages list orders newest first and none twice, whatever becomes     *)
(* searchable in between and whatever the limits.                          *)
THEOREM PagesAreInOrder == IndexSpec => []WalkIsOrdered
  <1>1. IndexInv => WalkIsOrdered
    BY DEF IndexInv, WalkInv
  <1>2. QED
    BY <1>1, IndexInitInv, IndexNextInv, PTL DEF IndexSpec

(* A finished walk has shown all that was searchable when it began.        *)
THEOREM PagesAreComplete == IndexSpec => []WalkIsComplete
  <1>1. IndexInv => WalkIsComplete
    BY DEF IndexInv, WalkInv
  <1>2. QED
    BY <1>1, IndexInitInv, IndexNextInv, PTL DEF IndexSpec

(* An order whose create was answered is seen by every search.             *)
THEOREM CreatedIsListed == IndexSpec => []AnsweredIsListed
  <1>1. IndexInv => AnsweredIsListed
    BY DEF IndexInv
  <1>2. QED
    BY <1>1, IndexInitInv, IndexNextInv, PTL DEF IndexSpec
-----------------------------------------------------------------------------
(* No page leads back to itself (orders.repository.ts 167-195): a page     *)
(* either is the last or shows more orders and moves the cursor to an      *)
(* older one.  With n orders in all, a walk has at most n pages and one.   *)
THEOREM EveryPageAdvances ==
  IndexSpec =>
    [][\A limit \in Limits : ReadPage(limit) =>
          \/ walk' = "done"
          \/ /\ Len(seen') > Len(seen)
             /\ cursor # NoCursor => Newer(cursor, cursor')]_indexVars
  <1> DEFINE Advances(limit) ==
               \/ walk' = "done"
               \/ /\ Len(seen') > Len(seen)
                  /\ cursor # NoCursor => Newer(cursor, cursor')
  <1>1. ASSUME IndexInv, NEW limit \in Limits, ReadPage(limit)
        PROVE  Advances(limit)
    <2> DEFINE page == GetOrdersPage(searchable, cursor, limit)
               found == FindPage(searchable, cursor, PageSize(limit))
               M == Matching(searchable, cursor)
    <2>1. /\ ClockTypeOK /\ searchable \in SUBSET Ids
          /\ seen \in Seq(Ids) /\ Len(seen) \in Nat
      BY <1>1 DEF IndexInv, IndexTypeOK, ClockTypeOK
    <2>2. /\ page.status = 200
          /\ seen' = seen \o page.items /\ cursor' = page.next
          /\ walk' = IF page.next = NoCursor THEN "done" ELSE "on"
      BY <1>1 DEF ReadPage
    <2>3. PageSize(limit) \in Nat \ {0} /\ page = found
      BY <2>1, <2>2, PageIsFound
    <2>4. found.status = 200
      BY <2>2, <2>3
    <2>5. FirstPage(found, M)
      BY <2>1, <2>3, <2>4, PageIsFirst
    <2>6. FirstPage(page, M)
      BY <2>3, <2>5
    <2> HIDE DEF page, M
    <2>7. SUFFICES ASSUME page.next # NoCursor
                   PROVE  Advances(limit)
      BY <2>2
    <2>8. /\ Len(page.items) \in 1..Len(page.items)
          /\ page.items \in Seq(Ids)
          /\ page.next = Key(page.items[Len(page.items)])
          /\ page.items[Len(page.items)] \in M
      BY <2>6, <2>7 DEF FirstPage
    <2>9. Len(seen') > Len(seen)
      BY <2>1, <2>2, <2>8
    <2>10. cursor # NoCursor => Newer(cursor, cursor')
      BY <2>2, <2>8 DEF M, Matching
    <2>11. QED
      BY <2>9, <2>10
  <1>2. IndexInv /\ [IndexNext]_indexVars
          => [\A limit \in Limits : ReadPage(limit) => Advances(limit)]_indexVars
    BY <1>1
  <1> HIDE DEF Advances
  <1>3. QED
    BY <1>2, IndexInitInv, IndexNextInv, PTL DEF IndexSpec, Advances

(* Following nextCursor is never refused with a limit that is absent,      *)
(* negative or at least one: the errors of GET /api/v1/orders are for      *)
(* cursors no page gave and for limits between zero and one                *)
(* (orders.service.ts 27-45, orders.repository.ts 181-195).                *)
THEOREM FollowedCursorsAreAnswered ==
  IndexSpec =>
    [](\A limit \in Limits : limit <= 0 \/ limit >= 2 =>
          GetOrdersPage(searchable, cursor, limit).status = 200)
  <1>1. ASSUME IndexInv, NEW limit \in Limits, limit <= 0 \/ limit >= 2
        PROVE  GetOrdersPage(searchable, cursor, limit).status = 200
    <2> DEFINE halves == PageSize(limit)
               k == halves \div 2
               h == Hits(searchable, cursor, (halves + 2) \div 2)
               first == SubSeq(h, 1, k)
    <2>1. halves \in Nat /\ halves >= 2
      BY <1>1, IndexAssumption DEF PageSize, Min2
    <2>2. k \in Nat /\ k >= 1 /\ (halves + 2) \div 2 = k + 1
      BY <2>1
    <2>3. /\ ClockTypeOK /\ searchable \in SUBSET Ids
          /\ cursor \in (Nat \X Nat) \cup {NoCursor}
      <3>1. \A time \in 0..MaxClock, i \in Ids : <<time, i>> \in Nat \X Nat
        BY IndexAssumption
      <3>2. QED
        BY <1>1, <3>1 DEF IndexInv, IndexTypeOK, ClockTypeOK, Keys
    <2>4. GetOrdersPage(searchable, cursor, limit) = FindPage(searchable, cursor, halves)
      <3>1. cursor # NotBase64Json /\ cursor # WrongTypes
        BY <2>3, IndexAssumption, Zenon
      <3>2. QED
        BY <3>1 DEF GetOrdersPage, DecodeCursorThrows
    <2>5. FirstHits(h, Matching(searchable, cursor), k + 1)
      BY <2>2, <2>3, HitsAreFirst
    <2> HIDE DEF h
    <2>6. 2 * Len(h) > halves => first # <<>>
      <3>1. SUFFICES ASSUME 2 * Len(h) > halves PROVE Len(first) # 0
        OBVIOUS
      <3>2. h \in Seq(Ids) /\ Len(h) <= k + 1 /\ Len(h) \in Nat
        BY <2>5 DEF FirstHits
      <3>3. Len(h) = k + 1
        BY <2>1, <2>2, <3>1, <3>2
      <3>4. QED
        BY <2>2, <3>2, <3>3
    <2>7. QED
      BY <2>4, <2>6 DEF FindPage, Page, h
  <1>2. IndexInv => \A limit \in Limits : limit <= 0 \/ limit >= 2 =>
                       GetOrdersPage(searchable, cursor, limit).status = 200
    BY <1>1
  <1>3. QED
    BY <1>2, IndexInitInv, IndexNextInv, PTL DEF IndexSpec
=============================================================================
