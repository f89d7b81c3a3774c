--------------------------- MODULE ReactionsProofs ---------------------------
(* What keeps the numbers about reactions right, for any number of comments,  *)
(* readers and values of a vote.                                              *)
EXTENDS Reactions, FiniteSetTheorems, TLAPS

Numbers == [Value -> Nat]
Slot == Value \cup {None}

Erasings == [stage : {"no", "read", "wiped"}, seen : Numbers, taken : SUBSET Reader]
Clearings ==
    [stage : {"no", "locking"}, mine : [Comment -> Slot], seen : [Comment -> Numbers \cup {NotRead}],
     locked : SUBSET Comment, ban : BOOLEAN, lost : BOOLEAN]

\* The types, those of what a transaction holds in hand included
ReactionsInv ==
    /\ TypeOK
    /\ erasing \in [Comment -> Erasings]
    /\ clearing \in [Reader -> Clearings]

-----------------------------------------------------------------------------
(* Types.                                                                   *)

\* Counting up or down yields counts.
LEMMA PlusCounts ==
  ASSUME NEW count \in Numbers, NEW v \in Value, NEW n \in Int
  PROVE  Plus(count, v, n) \in Numbers
  BY DEF Plus, Numbers

\* A clearing that may have lost a row is still one.
LEMMA LostOrNot ==
  ASSUME NEW k \in Clearings, NEW b
  PROVE  [k EXCEPT !.lost = k.lost \/ b] \in Clearings
  <1>1. \A x \in BOOLEAN : [k EXCEPT !.lost = x] \in Clearings
    BY DEF Clearings
  <1>2. (k.lost \/ b) \in BOOLEAN
    OBVIOUS
  <1> QED BY <1>1, <1>2, Zenon

\* What a removal adds up and leaves is counts.
LEMMA RemovalCounts ==
  ASSUME ReactionsInv, NEW c \in Comment, NEW seen \in Numbers, NEW who \in SUBSET Reader
  PROVE  /\ Absorbed(c, seen) \in [Reader -> Numbers]
         /\ LeftOn(c, seen) \in Numbers
         /\ Swept(c, who) \in [Reader -> Numbers]
         /\ WithoutRows(c, who) \in [Reader -> Slot]
         /\ RowsLost(c, who) \in [Reader -> Clearings]
  <1>1. AuthorOf[c] \in Reader
    BY AuthorsAreReaders
  <1>2. totals \in [Reader -> Numbers] /\ collected \in [Reader -> Numbers] /\ counts \in [Comment -> Numbers]
    BY DEF ReactionsInv, TypeOK, Numbers
  <1>3. Absorbed(c, seen) \in [Reader -> Numbers]
    BY <1>1, <1>2 DEF Absorbed, Numbers
  <1>4. LeftOn(c, seen) \in Numbers
    BY <1>2 DEF LeftOn, Numbers
  <1>5. \A v \in Value : Cardinality(Holders(c, v) \cap who) \in Nat
    <2> TAKE v \in Value
    <2>1. Holders(c, v) \cap who \in SUBSET Reader
      BY DEF Holders
    <2> QED BY <2>1, ReadersAreFinite, FS_Subset, FS_CardinalityType
  <1>6. Swept(c, who) \in [Reader -> Numbers]
    BY <1>1, <1>2, <1>5 DEF Swept, Numbers
  <1>7. WithoutRows(c, who) \in [Reader -> Slot]
    BY DEF WithoutRows, ReactionsInv, TypeOK, Slot
  <1>8. RowsLost(c, who) \in [Reader -> Clearings]
    <2> SUFFICES ASSUME NEW r \in Reader
                 PROVE  [clearing[r] EXCEPT !.lost = clearing[r].lost \/ (r \in who /\ clearing[r].mine[c] # None)] \in Clearings
      BY DEF RowsLost
    <2>1. clearing[r] \in Clearings
      BY DEF ReactionsInv
    <2> QED BY <2>1, LostOrNot
  <1> QED BY <1>3, <1>4, <1>6, <1>7, <1>8

\* The types hold at first.
LEMMA TypesAtFirst == Init => ReactionsInv
  <1> SUFFICES ASSUME Init PROVE ReactionsInv
    OBVIOUS
  <1>1. Zero \in Numbers /\ Untouched \in Erasings
    BY DEF Zero, Numbers, Untouched, Erasings
  <1>2. Rest \in Clearings
    BY DEF Rest, Clearings, Slot
  <1>3. erasing \in [Comment -> Erasings] /\ clearing \in [Reader -> Clearings]
    BY <1>1, <1>2 DEF Init
  <1>4. TypeOK
    <2>1. \A c \in Comment : erasing[c].seen \in Numbers /\ erasing[c].taken \subseteq Reader
      BY <1>3 DEF Erasings
    <2>2. \A r \in Reader : clearing[r].locked \subseteq Comment
      BY <1>3 DEF Clearings
    <2> QED BY <1>1, <2>1, <2>2 DEF Init, TypeOK, Numbers
  <1> QED BY <1>3, <1>4 DEF ReactionsInv

\* Enough to have the types again after a step.
LEMMA TypesFromParts ==
  ASSUME down' \subseteq Comment, erased' \subseteq down', cleared' \subseteq banned', banned' \subseteq Reader,
         rows' \in [Comment -> [Reader -> Slot]], counts' \in [Comment -> Numbers],
         totals' \in [Reader -> Numbers], collected' \in [Reader -> Numbers],
         resolving' \in [Comment -> Numbers \cup {NotRead}],
         erasing' \in [Comment -> Erasings], clearing' \in [Reader -> Clearings]
  PROVE  ReactionsInv'
  <1>1. \A c \in Comment : erasing'[c].seen \in Numbers /\ erasing'[c].taken \subseteq Reader
    BY DEF Erasings
  <1>2. \A r \in Reader : clearing'[r].locked \subseteq Comment
    BY DEF Clearings
  <1> QED BY <1>1, <1>2 DEF ReactionsInv, TypeOK, Numbers, Slot

\* What the types say, by parts.
LEMMA PartsOfTypes ==
  ASSUME ReactionsInv
  PROVE  /\ down \subseteq Comment /\ erased \subseteq down /\ cleared \subseteq banned /\ banned \subseteq Reader
         /\ rows \in [Comment -> [Reader -> Slot]] /\ counts \in [Comment -> Numbers]
         /\ totals \in [Reader -> Numbers] /\ collected \in [Reader -> Numbers]
         /\ resolving \in [Comment -> Numbers \cup {NotRead}]
         /\ erasing \in [Comment -> Erasings] /\ clearing \in [Reader -> Clearings]
  BY DEF ReactionsInv, TypeOK, Numbers, Slot

\* Taking a comment down with counts in hand keeps the types of all it changes.
LEMMA TakeDownTypes ==
  ASSUME ReactionsInv, NEW c \in Comment, NEW seen \in Numbers, TakeDown(c, seen)
  PROVE  /\ down' \subseteq Comment /\ down \subseteq down'
         /\ rows' \in [Comment -> [Reader -> Slot]] /\ counts' \in [Comment -> Numbers]
         /\ totals' \in [Reader -> Numbers] /\ collected' \in [Reader -> Numbers]
         /\ clearing' \in [Reader -> Clearings]
  <1>1. Reader \in SUBSET Reader
    OBVIOUS
  <1> QED BY <1>1, PartsOfTypes, RemovalCounts DEF TakeDown

\* Every step keeps the types.
LEMMA TypesAreKept == ReactionsInv /\ [Next]_vars => ReactionsInv'
  <1> SUFFICES ASSUME ReactionsInv, [Next]_vars PROVE ReactionsInv'
    OBVIOUS
  <1> USE PartsOfTypes
  <1>1. ASSUME NEW r \in Reader, NEW c \in Comment, NEW v \in Value, Set(r, c, v)
        PROVE  ReactionsInv'
    <2>1. rows' \in [Comment -> [Reader -> Slot]]
      BY <1>1 DEF Set, Slot
    <2>2. counts[c] \in Numbers /\ rows[c][r] \in Slot
      OBVIOUS
    <2>3. Plus(counts[c], v, 1) \in Numbers
      BY <2>2, PlusCounts
    <2>4. ASSUME rows[c][r] # None
          PROVE  Plus(Plus(counts[c], rows[c][r], -1), v, 1) \in Numbers
      <3>1. rows[c][r] \in Value
        BY <2>2, <2>4 DEF Slot
      <3>2. Plus(counts[c], rows[c][r], -1) \in Numbers
        BY <2>2, <3>1, PlusCounts
      <3> QED BY <3>2, PlusCounts
    <2>5. counts' \in [Comment -> Numbers]
      BY <1>1, <2>2, <2>3, <2>4 DEF Set
    <2> QED BY <1>1, <2>1, <2>5, TypesFromParts DEF Set
  <1>2. ASSUME NEW r \in Reader, NEW c \in Comment, Clear(r, c)
        PROVE  ReactionsInv'
    <2>1. rows' \in [Comment -> [Reader -> Slot]]
      BY <1>2 DEF Clear, Slot
    <2>2. rows[c][r] \in Value /\ counts[c] \in Numbers
      BY <1>2 DEF Clear, Slot
    <2>3. counts' \in [Comment -> Numbers]
      BY <1>2, <2>2, PlusCounts DEF Clear
    <2>4. {r} \in SUBSET Reader
      OBVIOUS
    <2>5. clearing' \in [Reader -> Clearings]
      BY <1>2, <2>2, <2>4, RemovalCounts DEF Clear
    <2> QED BY <1>2, <2>1, <2>3, <2>5, TypesFromParts DEF Clear
  <1>3. ASSUME NEW c \in Comment, Remove(c)
        PROVE  ReactionsInv'
    <2>1. counts[c] \in Numbers
      OBVIOUS
    <2> QED BY <1>3, <2>1, TakeDownTypes, TypesFromParts DEF Remove
  <1>4. ASSUME NEW r \in Reader, RestrictCommenting(r) \/ Lift(r)
        PROVE  ReactionsInv'
    BY <1>4, TypesFromParts DEF RestrictCommenting, Lift
  <1>5. ASSUME NEW c \in Comment, ResolveRead(c)
        PROVE  ReactionsInv'
    BY <1>5, TypesFromParts DEF ResolveRead
  <1>6. ASSUME NEW c \in Comment, ResolveHide(c)
        PROVE  ReactionsInv'
    <2>1. resolving[c] \in Numbers
      BY <1>6 DEF ResolveHide
    <2>2. resolving' \in [Comment -> Numbers \cup {NotRead}]
      BY <1>6 DEF ResolveHide
    <2> QED BY <1>6, <2>1, <2>2, TakeDownTypes, TypesFromParts DEF ResolveHide
  <1>7. ASSUME NEW c \in Comment, EraseRead(c)
        PROVE  ReactionsInv'
    <2>1. [stage |-> "read", seen |-> counts[c], taken |-> {}] \in Erasings
      BY DEF Erasings
    <2> QED BY <1>7, <2>1, TypesFromParts DEF EraseRead
  <1>8. ASSUME NEW c \in Comment, EraseRows(c)
        PROVE  ReactionsInv'
    <2>1. [erasing[c] EXCEPT !.stage = "wiped", !.taken = WithRow(c)] \in Erasings
      BY DEF Erasings, WithRow
    <2>2. erasing' = [erasing EXCEPT ![c] = [erasing[c] EXCEPT !.stage = "wiped", !.taken = WithRow(c)]]
      BY <1>8 DEF EraseRows, Erasings
    <2> QED BY <1>8, <2>1, <2>2, TypesFromParts DEF EraseRows
  <1>9. ASSUME NEW c \in Comment, EraseComment(c)
        PROVE  ReactionsInv'
    <2>1. erasing[c].seen \in Numbers /\ erasing[c].taken \in SUBSET Reader
      BY DEF Erasings
    <2>2. Untouched \in Erasings
      BY DEF Untouched, Erasings, Zero, Numbers
    <2>3. erasing' \in [Comment -> Erasings]
      BY <1>9, <2>2 DEF EraseComment
    <2>4. /\ totals' \in [Reader -> Numbers] /\ collected' \in [Reader -> Numbers]
          /\ counts' \in [Comment -> Numbers] /\ rows' \in [Comment -> [Reader -> Slot]]
          /\ clearing' \in [Reader -> Clearings]
      BY <1>9, <2>1, RemovalCounts DEF EraseComment
    <2> QED BY <1>9, <2>3, <2>4, TypesFromParts DEF EraseComment
  <1>10. ASSUME NEW c \in Comment, EraseFail(c)
         PROVE  ReactionsInv'
    <2>1. Untouched \in Erasings
      BY DEF Untouched, Erasings, Zero, Numbers
    <2> QED BY <1>10, <2>1, TypesFromParts DEF EraseFail
  <1>11. ASSUME NEW r \in Reader, NEW ban \in BOOLEAN, NEW loaded, ClearRead(r, ban, loaded)
         PROVE  ReactionsInv'
    <2>1. [stage |-> "locking", mine |-> [c \in Comment |-> rows[c][r]],
           seen |-> [c \in Comment |-> IF c \in loaded THEN counts[c] ELSE NotRead],
           locked |-> {}, ban |-> ban, lost |-> FALSE] \in Clearings
      BY DEF Clearings
    <2>2. clearing' \in [Reader -> Clearings]
      BY <1>11, <2>1 DEF ClearRead
    <2> QED BY <1>11, <2>2, TypesFromParts DEF ClearRead
  <1>12. ASSUME NEW r \in Reader, ClearLock(r)
         PROVE  ReactionsInv'
    <2>1. PICK c \in Comment : clearing' = [clearing EXCEPT ![r].locked = @ \cup {c}]
      BY <1>12 DEF ClearLock, ToLock
    <2>2. [clearing[r] EXCEPT !.locked = clearing[r].locked \cup {c}] \in Clearings
      BY DEF Clearings
    <2>3. clearing' \in [Reader -> Clearings]
      BY <2>1, <2>2
    <2> QED BY <1>12, <2>3, TypesFromParts DEF ClearLock
  <1>13. ASSUME NEW r \in Reader, ClearFinish(r)
         PROVE  ReactionsInv'
    <2>1. Rest \in Clearings /\ Zero \in Numbers
      BY DEF Rest, Clearings, Slot, Zero, Numbers
    <2>2. clearing' \in [Reader -> Clearings]
      BY <1>13, <2>1 DEF ClearFinish
    <2>3. \A c \in Comment : InHand(r, c) \in Numbers
      BY DEF InHand, Clearings
    <2>4. counts' \in [Comment -> Numbers]
      <3>1. counts' = [c \in Comment |-> [v \in Value |->
                IF v = clearing[r].mine[c] /\ InHand(r, c)[v] > 0
                THEN InHand(r, c)[v] - 1 ELSE counts[c][v]]]
        BY <1>13 DEF ClearFinish
      <3> QED BY <2>3, <3>1 DEF Numbers
    <2>5. rows' \in [Comment -> [Reader -> Slot]]
      <3>1. rows' = [c \in Comment |-> [rows[c] EXCEPT ![r] =
                        IF clearing[r].mine[c] = None THEN rows[c][r] ELSE None]]
        BY <1>13 DEF ClearFinish
      <3> QED BY <3>1 DEF Slot
    <2>6. totals' \in [Reader -> Numbers] /\ collected' \in [Reader -> Numbers]
      BY <1>13, <2>1 DEF ClearFinish
    <2>7. cleared' \subseteq banned' /\ banned' \subseteq Reader
      BY <1>13 DEF ClearFinish
    <2> QED BY <1>13, <2>2, <2>4, <2>5, <2>6, <2>7, TypesFromParts DEF ClearFinish
  <1>14. ASSUME NEW r \in Reader, ClearFail(r)
         PROVE  ReactionsInv'
    <2>1. Rest \in Clearings
      BY DEF Rest, Clearings, Slot
    <2> QED BY <1>14, <2>1, TypesFromParts DEF ClearFail
  <1>15. CASE UNCHANGED vars
    BY <1>15, TypesFromParts DEF vars
  <1> QED BY <1>1, <1>2, <1>3, <1>4, <1>5, <1>6, <1>7, <1>8, <1>9, <1>10, <1>11, <1>12, <1>13, <1>14, <1>15
          DEF Next, LockedNext, ResolveNext, EraseNext, ClearNext

\* Rows, counts, totals and what transactions hold in hand keep their types, whoever reads before he locks
\* and whatever the database rolls back (ReactionService, AuthorTotals).
THEOREM ReactionTypeCorrect == Spec => []TypeOK
  <1>1. Spec => []ReactionsInv
    BY TypesAtFirst, TypesAreKept, PTL DEF Spec
  <1>2. ReactionsInv => TypeOK
    BY DEF ReactionsInv
  <1> QED BY <1>1, <1>2, PTL

-----------------------------------------------------------------------------
(* Numbers in order.                                                        *)

\* Those who have a value on a comment can be counted.
LEMMA HoldersAreFinite ==
  ASSUME NEW c, NEW v
  PROVE  IsFiniteSet(Holders(c, v)) /\ Cardinality(Holders(c, v)) \in Nat
  <1>1. Holders(c, v) \in SUBSET Reader
    BY DEF Holders
  <1> QED BY <1>1, ReadersAreFinite, FS_Subset, FS_CardinalityType

\* A row that changes is counted where it came to and no more where it was.
LEMMA RowChanges ==
  ASSUME NEW c \in Comment, NEW r \in Reader, NEW x \in Slot, NEW v \in Value,
         rows \in [Comment -> [Reader -> Slot]], rows'[c] = [rows[c] EXCEPT ![r] = x]
  PROVE  Cardinality(Holders(c, v)') =
            IF rows[c][r] = v /\ x # v THEN Cardinality(Holders(c, v)) - 1
            ELSE IF rows[c][r] # v /\ x = v THEN Cardinality(Holders(c, v)) + 1
            ELSE Cardinality(Holders(c, v))
  <1>1. CASE rows[c][r] = v /\ x # v
    <2>1. Holders(c, v)' = Holders(c, v) \ {r} /\ r \in Holders(c, v)
      BY <1>1 DEF Holders
    <2> QED BY <1>1, <2>1, HoldersAreFinite, FS_RemoveElement
  <1>2. CASE rows[c][r] # v /\ x = v
    <2>1. Holders(c, v)' = Holders(c, v) \cup {r} /\ r \notin Holders(c, v)
      BY <1>2 DEF Holders
    <2> QED BY <1>2, <2>1, HoldersAreFinite, FS_AddElement
  <1>3. CASE (rows[c][r] = v) <=> (x = v)
    <2>1. Holders(c, v)' = Holders(c, v)
      BY <1>3 DEF Holders
    <2> QED BY <1>3, <2>1
  <1> QED BY <1>1, <1>2, <1>3

\* A row that is there is counted.
LEMMA RowIsCounted ==
  ASSUME ReactionsInv, NEW c \in Comment, OrderOn(c), NEW r \in Reader, rows[c][r] \in Value
  PROVE  counts[c][rows[c][r]] > 0
  <1> DEFINE v == rows[c][r]
  <1>1. r \in Holders(c, v)
    BY DEF Holders
  <1>2. Cardinality(Holders(c, v)) # 0
    BY <1>1, HoldersAreFinite, FS_EmptySet
  <1> QED BY <1>2, HoldersAreFinite DEF OrderOn, CountsMatchRows

\* What a step does not touch.
Stands(c) ==
    counts'[c] = counts[c] /\ rows'[c] = rows[c] /\ (c \in down' <=> c \in down)

\* The step leaves all comments but one alone, and all totals but that of its author.
OthersStand(c) ==
    /\ \A d \in Comment \ {c} : Stands(d)
    /\ \A a \in Reader \ {AuthorOf[c]} : totals'[a] = totals[a] /\ collected'[a] = collected[a]

\* What nothing touches stays in order.
LEMMA OrderStands ==
  ASSUME NEW c \in Comment, OrderOn(c), Stands(c)
  PROVE  OrderOn(c)'
  <1>1. \A v \in Value : Holders(c, v)' = Holders(c, v)
    BY DEF Holders, Stands
  <1> QED BY <1>1 DEF OrderOn, CountsMatchRows, DownIsBare, Stands, Zero

\* A vote put or replaced under the counter lock keeps order.
LEMMA SetKeepsOrder ==
  ASSUME ReactionsInv, NEW r \in Reader, NEW c \in Comment, NEW v \in Value, Set(r, c, v), OrderOn(c)
  PROVE  OrderOn(c)'
  <1> USE PartsOfTypes
  <1>1. /\ rows' = [rows EXCEPT ![c] = [rows[c] EXCEPT ![r] = v]] /\ c \notin down
        /\ down' = down
    BY DEF Set
  <1>2. counts[c] \in Numbers /\ rows[c][r] \in Slot /\ v \in Slot
    BY DEF Slot
  <1>3. \A w \in Value : Cardinality(Holders(c, w)') = counts'[c][w]
    <2> TAKE w \in Value
    <2>1. Cardinality(Holders(c, w)) = counts[c][w] /\ counts[c][w] \in Nat
      BY DEF OrderOn, CountsMatchRows, Numbers
    <2>2. Cardinality(Holders(c, w)') =
            IF rows[c][r] = w /\ v # w THEN counts[c][w] - 1
            ELSE IF rows[c][r] # w /\ v = w THEN counts[c][w] + 1
            ELSE counts[c][w]
      <3>1. rows'[c] = [rows[c] EXCEPT ![r] = v]
        BY <1>1
      <3>2. Cardinality(Holders(c, w)') =
              IF rows[c][r] = w /\ v # w THEN Cardinality(Holders(c, w)) - 1
              ELSE IF rows[c][r] # w /\ v = w THEN Cardinality(Holders(c, w)) + 1
              ELSE Cardinality(Holders(c, w))
        <4>1. rows \in [Comment -> [Reader -> Slot]] /\ v \in Slot
          BY <1>2
        <4> QED BY ONLY <3>1, <4>1, RowChanges, c \in Comment, r \in Reader, w \in Value
      <3> QED BY <2>1, <3>2
    <2>3. CASE rows[c][r] = v
      BY <2>2, <2>3 DEF Set
    <2>4. CASE rows[c][r] = None
      <3>1. counts'[c] = Plus(counts[c], v, 1)
        BY <2>4, NoneIsNoValue DEF Set
      <3> QED BY <1>2, <2>1, <2>2, <2>4, <3>1, NoneIsNoValue DEF Plus, Numbers
    <2>5. CASE rows[c][r] # v /\ rows[c][r] # None
      <3>1. rows[c][r] \in Value /\ counts[c][rows[c][r]] > 0
        BY <1>2, <2>5, RowIsCounted DEF Slot
      <3>2. counts'[c] = Plus(Plus(counts[c], rows[c][r], -1), v, 1)
        BY <2>5 DEF Set
      <3> QED BY <1>2, <2>1, <2>2, <2>5, <3>1, <3>2 DEF Plus, Numbers
    <2> QED BY <2>3, <2>4, <2>5
  <1> QED BY <1>1, <1>3 DEF OrderOn, CountsMatchRows, DownIsBare

\* A vote taken back under the counter lock keeps order.
LEMMA ClearKeepsOrder ==
  ASSUME ReactionsInv, NEW r \in Reader, NEW c \in Comment, Clear(r, c), OrderOn(c)
  PROVE  OrderOn(c)'
  <1> USE PartsOfTypes
  <1>1. /\ rows' = [rows EXCEPT ![c] = [rows[c] EXCEPT ![r] = None]]
        /\ counts' = [counts EXCEPT ![c] = Plus(counts[c], rows[c][r], -1)]
        /\ down' = down
    BY DEF Clear
  <1>2. counts[c] \in Numbers /\ rows[c][r] \in Value /\ None \in Slot
    BY DEF Slot, Clear
  <1>3. counts[c][rows[c][r]] > 0 /\ c \notin down
    BY <1>2, RowIsCounted DEF OrderOn, DownIsBare, Clear
  <1>4. \A w \in Value : Cardinality(Holders(c, w)') = counts'[c][w]
    <2> TAKE w \in Value
    <2>1. Cardinality(Holders(c, w)) = counts[c][w] /\ counts[c][w] \in Nat
      BY DEF OrderOn, CountsMatchRows, Numbers
    <2>2. w # None
      BY NoneIsNoValue
    <2>3. rows'[c] = [rows[c] EXCEPT ![r] = None]
      BY <1>1
    <2>4. Cardinality(Holders(c, w)') = IF rows[c][r] = w THEN counts[c][w] - 1 ELSE counts[c][w]
      BY <1>2, <2>1, <2>2, <2>3, RowChanges
    <2> QED BY <1>1, <1>2, <1>3, <2>1, <2>4 DEF Plus, Numbers
  <1> QED BY <1>1, <1>3, <1>4 DEF OrderOn, CountsMatchRows, DownIsBare

\* What a comment loses all of at once keeps order, if what it loses is what it has; and its author
\* gets what the rows that go were counted as.
Stripped(c, who) ==
    /\ down' = down \cup {c} /\ totals' = Absorbed(c, counts[c])
    /\ counts' = [counts EXCEPT ![c] = LeftOn(c, counts[c])]
    /\ collected' = Swept(c, who) /\ rows' = [rows EXCEPT ![c] = WithoutRows(c, who)]

LEMMA StrippedKeepsOrder ==
  ASSUME ReactionsInv, NEW c \in Comment, NEW who \in SUBSET Reader, WithRow(c) \subseteq who,
         Stripped(c, who)
  PROVE  /\ OrderOn(c) => OrderOn(c)'
         /\ OrderOn(c) /\ TotalIsCollected(AuthorOf[c]) => TotalIsCollected(AuthorOf[c])'
  <1> USE PartsOfTypes DEF Stripped
  <1>1. \A r \in Reader : rows'[c][r] = None
    BY DEF WithoutRows, WithRow
  <1>2. counts'[c] = Zero
    BY DEF LeftOn, Zero, Numbers
  <1>3. \A v \in Value : Holders(c, v)' = {}
    BY <1>1, NoneIsNoValue DEF Holders
  <1>4. OrderOn(c)'
    <2>1. \A v \in Value : counts'[c][v] = Cardinality(Holders(c, v)')
      BY <1>2, <1>3, FS_EmptySet DEF Zero
    <2> QED BY <1>1, <1>2, <2>1 DEF OrderOn, CountsMatchRows, DownIsBare, Zero
  <1>5. ASSUME OrderOn(c), TotalIsCollected(AuthorOf[c])
        PROVE  TotalIsCollected(AuthorOf[c])'
    <2>1. \A v \in Value : Holders(c, v) \cap who = Holders(c, v)
      BY NoneIsNoValue DEF Holders, WithRow
    <2>2. \A v \in Value : Cardinality(Holders(c, v) \cap who) = counts[c][v]
      BY <1>5, <2>1 DEF OrderOn, CountsMatchRows
    <2>3. collected'[AuthorOf[c]] = [v \in Value |-> collected[AuthorOf[c]][v] + counts[c][v]]
      BY <2>2, AuthorsAreReaders DEF Swept
    <2>4. totals'[AuthorOf[c]] = [v \in Value |-> totals[AuthorOf[c]][v] + counts[c][v]]
      BY AuthorsAreReaders DEF Absorbed
    <2> QED BY <1>5, <2>3, <2>4 DEF TotalIsCollected
  <1> QED BY <1>4, <1>5

\* Whatever counts it holds, a removal touches its comment and that comment's author alone.
LEMMA RemovalIsLocal ==
  ASSUME ReactionsInv, NEW c \in Comment, NEW seen, NEW who,
         down' = down \cup {c}, totals' = Absorbed(c, seen),
         counts' = [counts EXCEPT ![c] = LeftOn(c, seen)],
         collected' = Swept(c, who), rows' = [rows EXCEPT ![c] = WithoutRows(c, who)]
  PROVE  OthersStand(c)
  BY PartsOfTypes DEF OthersStand, Stands, Absorbed, Swept

\* A clearing that has read the row and the counts of a comment as they still are keeps them in order,
\* and so does one that has no business with that comment.
LEMMA ClearFinishKeepsOrder ==
  ASSUME ReactionsInv, NEW r \in Reader, ClearFinish(r), NEW c \in Comment, OrderOn(c), ~StaleOn(c)
  PROVE  OrderOn(c)'
  <1> USE PartsOfTypes
  <1> DEFINE mine == clearing[r].mine
  <1>1. clearing[r] \in Clearings
    OBVIOUS
  <1>2. /\ rows' = [d \in Comment |-> [rows[d] EXCEPT ![r] = IF mine[d] = None THEN rows[d][r] ELSE None]]
        /\ counts' = [d \in Comment |-> [v \in Value |->
                IF v = mine[d] /\ InHand(r, d)[v] > 0 THEN InHand(r, d)[v] - 1 ELSE counts[d][v]]]
        /\ down' = down
    BY DEF ClearFinish
  <1>3. CASE mine[c] = None
    <2>1. rows'[c] = rows[c]
      BY <1>2, <1>3
    <2>2. counts'[c] = [v \in Value |-> counts[c][v]]
      BY <1>2, <1>3, NoneIsNoValue
    <2>3. Stands(c)
      BY <1>2, <2>1, <2>2 DEF Numbers, Stands
    <2> QED BY <2>3, OrderStands
  <1>4. CASE mine[c] # None
    <2>1. clearing[r].mine[c] = rows[c][r] /\ clearing[r].seen[c] \in {NotRead, counts[c]}
      BY <1>4 DEF StaleOn
    <2>2. rows[c][r] = mine[c] /\ mine[c] \in Value
      BY <1>1, <1>4, <2>1 DEF Clearings, Slot
    <2>3. counts[c][mine[c]] > 0
      BY <2>2, RowIsCounted
    <2>4. InHand(r, c) = counts[c]
      BY <2>1 DEF InHand
    <2>5. c \notin down
      BY <1>4, <2>2 DEF OrderOn, DownIsBare
    <2>6. counts'[c] = [v \in Value |-> IF v = mine[c] THEN counts[c][v] - 1 ELSE counts[c][v]]
      BY <1>2, <2>3, <2>4
    <2>7. rows'[c] = [rows[c] EXCEPT ![r] = None]
      BY <1>2, <1>4
    <2>8. ASSUME NEW v \in Value
          PROVE  counts'[c][v] = Cardinality(Holders(c, v)')
      <3>1. None \in Slot /\ v # None
        BY NoneIsNoValue DEF Slot
      <3>2. counts[c][v] = Cardinality(Holders(c, v))
        BY DEF OrderOn, CountsMatchRows
      <3>3. Cardinality(Holders(c, v)') =
              IF rows[c][r] = v /\ None # v THEN Cardinality(Holders(c, v)) - 1
              ELSE IF rows[c][r] # v /\ None = v THEN Cardinality(Holders(c, v)) + 1
              ELSE Cardinality(Holders(c, v))
        <4>1. rows \in [Comment -> [Reader -> Slot]]
          OBVIOUS
        <4> QED BY ONLY <2>7, <3>1, <4>1, RowChanges, c \in Comment, r \in Reader, v \in Value
      <3>4. counts'[c][v] = IF rows[c][r] = v THEN counts[c][v] - 1 ELSE counts[c][v]
        BY ONLY <2>2, <2>6, v \in Value
      <3> QED BY <3>1, <3>2, <3>3, <3>4
    <2> QED BY <1>2, <2>5, <2>8 DEF OrderOn, CountsMatchRows, DownIsBare
  <1> QED BY <1>3, <1>4

\* A clearing moves no total but that of a reader who goes, and all of that.
LEMMA ClearFinishKeepsTotals ==
  ASSUME ReactionsInv, NEW r \in Reader, ClearFinish(r), NEW a \in Reader, TotalIsCollected(a)
  PROVE  TotalIsCollected(a)'
  BY PartsOfTypes DEF ClearFinish, TotalIsCollected

\* At first everything is in order: nobody has reacted.
LEMMA OrderAtFirst == Init => InOrder
  <1> SUFFICES ASSUME Init PROVE InOrder
    OBVIOUS
  <1>1. \A c \in Comment, v \in Value : Holders(c, v) = {}
    BY NoneIsNoValue DEF Init, Holders
  <1>2. \A c \in Comment : CountsMatchRows(c)
    BY <1>1, FS_EmptySet DEF Init, CountsMatchRows, Zero
  <1> QED BY <1>2 DEF Init, InOrder, OrderOn, DownIsBare, TotalIsCollected

Harmless ==
    /\ \A c \in Comment : OrderOn(c) /\ ~StaleOn(c) => OrderOn(c)'
    /\ \A a \in Reader :
          TotalIsCollected(a) /\ (\A c \in Comment : AuthorOf[c] = a => ~StaleOn(c) /\ OrderOn(c))
            => TotalIsCollected(a)'

\* A step about one comment does no harm if it keeps that comment's order and its author's total.
LEMMA OneCommentHarmless ==
  ASSUME NEW c \in Comment, OthersStand(c),
         OrderOn(c) /\ ~StaleOn(c) => OrderOn(c)',
         TotalIsCollected(AuthorOf[c]) /\ OrderOn(c) /\ ~StaleOn(c) => TotalIsCollected(AuthorOf[c])'
  PROVE  Harmless
  <1>1. ASSUME NEW d \in Comment, OrderOn(d), ~StaleOn(d) PROVE OrderOn(d)'
    <2>1. CASE d = c
      BY <1>1, <2>1
    <2>2. CASE d # c
      <3>1. Stands(d)
        BY <2>2 DEF OthersStand
      <3> QED BY <1>1, <3>1, OrderStands
    <2> QED BY <2>1, <2>2
  <1>2. ASSUME NEW a \in Reader, TotalIsCollected(a),
               \A d \in Comment : AuthorOf[d] = a => ~StaleOn(d) /\ OrderOn(d)
        PROVE  TotalIsCollected(a)'
    <2>1. CASE a = AuthorOf[c]
      BY <1>2, <2>1
    <2>2. CASE a # AuthorOf[c]
      BY <1>2, <2>2 DEF OthersStand, TotalIsCollected
    <2> QED BY <2>1, <2>2
  <1> QED BY <1>1, <1>2 DEF Harmless

\* A removal with the counts as they are, and all rows.
LEMMA FreshRemovalHarmless ==
  ASSUME ReactionsInv, NEW c \in Comment, NEW seen, NEW who \in SUBSET Reader,
         down' = down \cup {c}, totals' = Absorbed(c, seen),
         counts' = [counts EXCEPT ![c] = LeftOn(c, seen)],
         collected' = Swept(c, who), rows' = [rows EXCEPT ![c] = WithoutRows(c, who)],
         ~StaleOn(c) => seen = counts[c] /\ WithRow(c) \subseteq who
  PROVE  Harmless
  <1>1. OthersStand(c)
    BY RemovalIsLocal
  <1>2. ASSUME ~StaleOn(c)
        PROVE  /\ OrderOn(c) => OrderOn(c)'
               /\ OrderOn(c) /\ TotalIsCollected(AuthorOf[c]) => TotalIsCollected(AuthorOf[c])'
    <2>1. Stripped(c, who) /\ WithRow(c) \subseteq who
      BY <1>2 DEF Stripped
    <2> QED BY <2>1, StrippedKeepsOrder
  <1> QED BY <1>1, <1>2, OneCommentHarmless

\* A step that moves no number does no harm.
LEMMA NothingMoves ==
  ASSUME UNCHANGED <<down, rows, counts, totals, collected>>
  PROVE  Harmless
  <1>1. \A c \in Comment : Stands(c)
    BY DEF Stands
  <1> QED BY <1>1, OrderStands DEF Harmless, TotalIsCollected

\* No step does harm but by a stale copy, and where it does is where it shows.
LEMMA StepsAreHarmless ==
  ASSUME ReactionsInv, [Next]_vars
  PROVE  Harmless
  <1> USE PartsOfTypes
  <1>1. ASSUME NEW r \in Reader, NEW c \in Comment, NEW v \in Value, Set(r, c, v) PROVE Harmless
    <2>1. OthersStand(c) /\ totals' = totals /\ collected' = collected
      BY <1>1 DEF Set, OthersStand, Stands
    <2>2. OrderOn(c) => OrderOn(c)'
      BY <1>1, SetKeepsOrder
    <2> QED BY <2>1, <2>2, OneCommentHarmless DEF TotalIsCollected
  <1>2. ASSUME NEW r \in Reader, NEW c \in Comment, Clear(r, c) PROVE Harmless
    <2>1. OthersStand(c) /\ totals' = totals /\ collected' = collected
      BY <1>2 DEF Clear, OthersStand, Stands
    <2>2. OrderOn(c) => OrderOn(c)'
      BY <1>2, ClearKeepsOrder
    <2> QED BY <2>1, <2>2, OneCommentHarmless DEF TotalIsCollected
  <1>3. ASSUME NEW c \in Comment, Remove(c) PROVE Harmless
    <2>1. PICK seen : seen = counts[c]
      OBVIOUS
    <2>2. /\ down' = down \cup {c} /\ totals' = Absorbed(c, seen)
          /\ counts' = [counts EXCEPT ![c] = LeftOn(c, seen)]
          /\ collected' = Swept(c, Reader) /\ rows' = [rows EXCEPT ![c] = WithoutRows(c, Reader)]
      BY <1>3, <2>1 DEF Remove, TakeDown
    <2>3. Reader \in SUBSET Reader /\ WithRow(c) \subseteq Reader
      BY DEF WithRow
    <2> QED BY <2>1, <2>2, <2>3, FreshRemovalHarmless
  <1>4. ASSUME NEW c \in Comment, ResolveHide(c) PROVE Harmless
    <2>1. PICK seen : seen = resolving[c]
      OBVIOUS
    <2>2. /\ down' = down \cup {c} /\ totals' = Absorbed(c, seen)
          /\ counts' = [counts EXCEPT ![c] = LeftOn(c, seen)]
          /\ collected' = Swept(c, Reader) /\ rows' = [rows EXCEPT ![c] = WithoutRows(c, Reader)]
      BY <1>4, <2>1 DEF ResolveHide, TakeDown
    <2>3. Reader \in SUBSET Reader /\ WithRow(c) \subseteq Reader
      BY DEF WithRow
    <2>4. ~StaleOn(c) => seen = counts[c]
      BY <1>4, <2>1 DEF StaleOn
    <2> QED BY <2>2, <2>3, <2>4, FreshRemovalHarmless
  <1>5. ASSUME NEW c \in Comment, EraseComment(c) PROVE Harmless
    <2>1. PICK seen, who : seen = erasing[c].seen /\ who = erasing[c].taken
      OBVIOUS
    <2>2. /\ down' = down \cup {c} /\ totals' = Absorbed(c, seen)
          /\ counts' = [counts EXCEPT ![c] = LeftOn(c, seen)]
          /\ collected' = Swept(c, who) /\ rows' = [rows EXCEPT ![c] = WithoutRows(c, who)]
      BY <1>5, <2>1 DEF EraseComment
    <2>3. who \in SUBSET Reader
      BY <2>1 DEF Erasings
    <2>4. ~StaleOn(c) => seen = counts[c] /\ WithRow(c) \subseteq who
      BY <1>5, <2>1 DEF StaleOn
    <2> QED BY <2>2, <2>3, <2>4, FreshRemovalHarmless
  <1>6. ASSUME NEW r \in Reader, ClearFinish(r) PROVE Harmless
    BY <1>6, ClearFinishKeepsOrder, ClearFinishKeepsTotals DEF Harmless
  <1>7. ASSUME NEW c \in Comment, ResolveRead(c) \/ EraseRead(c) \/ EraseRows(c) \/ EraseFail(c)
        PROVE  Harmless
    BY <1>7, NothingMoves DEF ResolveRead, EraseRead, EraseRows, EraseFail
  <1>8. ASSUME NEW r \in Reader, RestrictCommenting(r) \/ Lift(r) \/ ClearLock(r) \/ ClearFail(r)
        PROVE  Harmless
    BY <1>8, NothingMoves DEF RestrictCommenting, Lift, ClearLock, ClearFail
  <1>9. ASSUME NEW r \in Reader, NEW ban, NEW loaded, ClearRead(r, ban, loaded) PROVE Harmless
    BY <1>9, NothingMoves DEF ClearRead
  <1>10. CASE UNCHANGED vars
    BY <1>10, NothingMoves DEF vars
  <1> QED BY <1>1, <1>2, <1>3, <1>4, <1>5, <1>6, <1>7, <1>8, <1>9, <1>10
          DEF Next, LockedNext, ResolveNext, EraseNext, ClearNext

\* Of all the transactions, those that read before they lock included, only one that ends on a count or a
\* row changed since it read it puts a number out of order, and that on the comment it read: what has gone
\* wrong does not spread but to the total of that comment's author (ReactionService, ModerationQueueService,
\* ErasedReaderWriter).
THEOREM StaleCopiesAlone == Spec => OnlyStaleCopiesDoHarm
  <1>1. Spec => []ReactionsInv
    BY TypesAtFirst, TypesAreKept, PTL DEF Spec
  <1>2. ReactionsInv /\ [Next]_vars =>
          [/\ \A c \in Comment : OrderOn(c) /\ ~OrderOn(c)' => StaleOn(c)
           /\ \A a \in Reader : TotalIsCollected(a) /\ ~TotalIsCollected(a)' =>
                \E c \in Comment : AuthorOf[c] = a /\ (StaleOn(c) \/ ~OrderOn(c))]_vars
    BY StepsAreHarmless DEF Harmless
  <1> QED BY <1>1, <1>2, PTL DEF Spec, OnlyStaleCopiesDoHarm

-----------------------------------------------------------------------------
(* Locks first.                                                             *)

\* A transaction that takes the counter lock first ends on nothing stale.
LEMMA LockedIsFresh ==
  ASSUME ReactionsInv, LockedNext, NEW c \in Comment
  PROVE  ~StaleOn(c)
  <1> USE PartsOfTypes
  <1>1. resolving' = resolving /\ erasing' = erasing
    BY DEF LockedNext, Remove, RestrictCommenting, Lift, Clear, Set
  <1>2. ~ResolveHide(c)
    BY <1>1 DEF ResolveHide
  <1>3. ~EraseComment(c)
    <2> SUFFICES ASSUME EraseComment(c) PROVE FALSE
      OBVIOUS
    <2>1. erasing[c].stage = "wiped" /\ erasing'[c] = Untouched
      BY DEF EraseComment
    <2> QED BY <1>1, <2>1 DEF Untouched
  <1>4. ASSUME NEW r \in Reader PROVE ~ClearFinish(r)
    <2>1. ASSUME NEW d, NEW who, clearing' = RowsLost(d, who)
          PROVE  clearing'[r].stage = clearing[r].stage
      BY <2>1 DEF RowsLost, Clearings
    <2>2. clearing'[r].stage = clearing[r].stage
      BY <2>1 DEF LockedNext, Remove, TakeDown, RestrictCommenting, Lift, Clear, Set
    <2> SUFFICES ASSUME ClearFinish(r) PROVE FALSE
      OBVIOUS
    <2>3. clearing[r].stage = "locking" /\ clearing'[r] = Rest
      BY DEF ClearFinish
    <2> QED BY <2>2, <2>3 DEF Rest
  <1> QED BY <1>2, <1>3, <1>4 DEF StaleOn

\* What takes the counter lock before it reads anything does no harm, whoever else is half way through and
\* whatever has gone wrong elsewhere: a comment in order stays so, and so does the total of an author all of
\* whose comments are (ReactionService, CommentRemoval).
THEOREM LockingFirstKeepsOrder ==
  Spec => [][LockedNext =>
               /\ \A c \in Comment : OrderOn(c) => OrderOn(c)'
               /\ \A a \in Reader :
                    TotalIsCollected(a) /\ (\A c \in Comment : AuthorOf[c] = a => OrderOn(c))
                      => TotalIsCollected(a)']_vars
  <1>1. Spec => []ReactionsInv
    BY TypesAtFirst, TypesAreKept, PTL DEF Spec
  <1>2. ReactionsInv /\ [Next]_vars =>
          [LockedNext =>
               /\ \A c \in Comment : OrderOn(c) => OrderOn(c)'
               /\ \A a \in Reader :
                    TotalIsCollected(a) /\ (\A c \in Comment : AuthorOf[c] = a => OrderOn(c))
                      => TotalIsCollected(a)']_vars
    BY StepsAreHarmless, LockedIsFresh DEF Harmless
  <1> QED BY <1>1, <1>2, PTL DEF Spec
=============================================================================
