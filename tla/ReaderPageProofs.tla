--------------------------- MODULE ReaderPageProofs ---------------------------
(* What TLC finds of the comments block on three comments and a few requests,  *)
(* for any comments, pages, loads and requests, in the browser and in the app. *)
(* Rows first, then pages and what the service answers, then the reducer, one  *)
(* answer after another: what each may do to a page is Follows and SameList.   *)
(* The invariant adds to the run's what is known of every request under way.   *)
EXTENDS MobilePage, FiniteSetTheorems, SequenceTheorems, WellFoundedInduction, TLAPS

----------------------------------------------------------------------------
(* Rows of comments: what the orders and the filters of the reducer hand out. *)

Comments == Nat \ {0}
Distinct(seq) == \A i, j \in DOMAIN seq : seq[i] = seq[j] => i = j

\* Numbers up to a bound are finitely many.
LEMMA BoundedIsFinite ==
    ASSUME NEW n \in Nat, NEW S \in SUBSET (0..n)
    PROVE  S \in SUBSET Nat /\ IsFiniteSet(S) /\ Cardinality(S) \in Nat
<1>1. IsFiniteSet(0..n)
    BY FS_Interval
<1>2. IsFiniteSet(S)
    BY <1>1, FS_Subset
<1>3. 0..n \subseteq Nat
    OBVIOUS
<1> QED
    BY <1>2, <1>3, FS_CardinalityType

\* How many of some numbers come up to a number, and how much one more brings.
LEMMA UpToCounts ==
    ASSUME NEW S \in SUBSET Nat, IsFiniteSet(S), NEW i \in Nat
    PROVE  /\ IsFiniteSet({b \in S : b <= i})
           /\ Cardinality({b \in S : b <= i}) \in Nat
           /\ Cardinality({b \in S : b <= i + 1}) =
                Cardinality({b \in S : b <= i}) + (IF i + 1 \in S THEN 1 ELSE 0)
<1>1. {b \in S : b <= i} \in SUBSET S
    OBVIOUS
<1>2. IsFiniteSet({b \in S : b <= i}) /\ Cardinality({b \in S : b <= i}) \in Nat
    BY <1>1, FS_Subset, FS_CardinalityType
<1>3. CASE i + 1 \in S
    <2>0. i + 1 \in Nat /\ ~(i + 1 <= i) /\ \A b \in S : b <= i + 1 <=> b <= i \/ b = i + 1
        OBVIOUS
    <2>1. {b \in S : b <= i + 1} = {b \in S : b <= i} \union {i + 1} /\ i + 1 \notin {b \in S : b <= i}
        BY <1>3, <2>0
    <2> QED
        BY <1>2, <1>3, <2>1, FS_AddElement
<1>4. CASE i + 1 \notin S
    <2>0. \A b \in S : b <= i + 1 <=> b <= i \/ b = i + 1
        OBVIOUS
    <2>1. \A b \in S : b <= i + 1 <=> b <= i
        BY <1>4, <2>0
    <2>2. {b \in S : b <= i + 1} = {b \in S : b <= i}
        BY <2>1
    <2>3. Cardinality({b \in S : b <= i + 1}) = Cardinality({b \in S : b <= i})
        BY <2>2
    <2>4. (IF i + 1 \in S THEN 1 ELSE 0) = 0
        BY <1>4
    <2> QED
        BY <1>2, <2>3, <2>4
<1> QED
    BY <1>2, <1>3, <1>4

\* There is a k-th of some numbers for every k up to how many they are, and only one.
LEMMA NthIsThere ==
    ASSUME NEW n \in Nat, NEW S \in SUBSET (0..n), NEW k \in 1..Cardinality(S)
    PROVE  Nth(S, k) \in S /\ Cardinality({b \in S : b <= Nth(S, k)}) = k
<1> DEFINE count(i) == Cardinality({b \in S : b <= i})
           reach == {i \in Nat : count(i) >= k}
<1>1. /\ S \in SUBSET Nat /\ IsFiniteSet(S) /\ Cardinality(S) \in Nat
      /\ k \in Nat /\ k >= 1 /\ k <= Cardinality(S)
    BY BoundedIsFinite
<1>0. \A b \in S : (b <= 0 <=> b = 0) /\ b <= n
    OBVIOUS
<1>2. \A i \in Nat : count(i) \in Nat /\ count(i + 1) = count(i) + (IF i + 1 \in S THEN 1 ELSE 0)
    BY <1>1, UpToCounts
<1>3. count(0) = IF 0 \in S THEN 1 ELSE 0
    <2>1. CASE 0 \in S
        <3>1. {b \in S : b <= 0} = {0}
            BY <1>0, <2>1
        <3> QED
            BY <2>1, <3>1, FS_Singleton
    <2>2. CASE 0 \notin S
        <3>1. {b \in S : b <= 0} = {}
            BY <1>0, <2>2
        <3> QED
            BY <2>2, <3>1, FS_EmptySet
    <2> QED
        BY <2>1, <2>2
<1>4. reach # {}
    <2>2. {b \in S : b <= n} = S
        BY <1>0
    <2>3. count(n) = Cardinality(S)
        BY <2>2
    <2> HIDE DEF count
    <2> QED
        BY <1>1, <2>3
<1> HIDE DEF count
<1>5. PICK i \in reach : \A j \in reach : ~(j < i)
    <2>1. PICK i \in reach : \A j \in reach : <<j, i>> \notin OpToRel(<, Nat)
        BY <1>4, NatLessThanWellFounded, WFMin
    <2> QED
        BY <2>1 DEF OpToRel
<1>6. i \in S /\ count(i) = k
    <2>1. CASE i = 0
        BY <1>1, <1>3, <1>5, <2>1
    <2>2. CASE i # 0
        <3>1. PICK h \in Nat : i = h + 1
            <4>1. i - 1 \in Nat /\ i = (i - 1) + 1
                BY <1>5, <2>2
            <4> QED
                BY <4>1
        <3>2. h \notin reach
            BY <1>5, <3>1
        <3>3. count(h) < k
            BY <1>1, <1>2, <3>2
        <3> QED
            BY <1>1, <1>2, <1>5, <3>1, <3>3
    <2> QED
        BY <2>1, <2>2
<1>7. \E c \in S : Cardinality({b \in S : b <= c}) = k
    BY <1>6 DEF count
<1> QED
    BY <1>7 DEF Nth

\* A listing puts each comment in once.
LEMMA OrderedOnes ==
    ASSUME NEW n \in Nat, NEW S \in SUBSET (0..n), NEW order
    PROVE  Ordered(S, order) \in Seq(S) /\ Distinct(Ordered(S, order))
<1> DEFINE m == Cardinality(S)
           at(k) == IF order = "newest" THEN m + 1 - k ELSE k
<1>1. m \in Nat
    BY BoundedIsFinite
<1>2. Ordered(S, order) = [k \in 1..m |-> Nth(S, at(k))]
    BY DEF Ordered
<1> HIDE DEF m
<1>3. \A k \in 1..m : at(k) \in 1..m
    BY <1>1
<1>4. \A j, k \in 1..m : at(j) = at(k) => j = k
    BY <1>1
<1> HIDE DEF at
<1>5. \A k \in 1..m : Nth(S, k) \in S /\ Cardinality({b \in S : b <= Nth(S, k)}) = k
    BY NthIsThere DEF m
<1>6. \A k \in 1..m : Nth(S, at(k)) \in S
    BY <1>3, <1>5
<1>7. ASSUME NEW j \in 1..m, NEW k \in 1..m, Nth(S, at(j)) = Nth(S, at(k)) PROVE j = k
    <2>1. at(j) \in 1..m /\ at(k) \in 1..m
        BY <1>3
    <2>2. /\ Cardinality({b \in S : b <= Nth(S, at(j))}) = at(j)
          /\ Cardinality({b \in S : b <= Nth(S, at(k))}) = at(k)
        BY <1>5, <2>1
    <2>3. at(j) = at(k)
        BY <1>7, <2>2
    <2> QED
        BY <1>4, <2>3
<1>8. Ordered(S, order) \in [1..m -> S]
    BY <1>2, <1>6
<1>9. Ordered(S, order) \in Seq(S)
    BY <1>1, <1>8
<1> QED
    BY <1>2, <1>7, <1>9 DEF Distinct

\* A row with some taken out is a row of the others, as distinct as it was.
LEMMA WithoutOnes ==
    ASSUME NEW T, NEW seq \in Seq(T), NEW cs
    PROVE  /\ Without(seq, cs) \in Seq(T)
           /\ Range(Without(seq, cs)) \subseteq Range(seq) \ cs
           /\ Distinct(seq) => Distinct(Without(seq, cs))
<1> DEFINE left == {i \in DOMAIN seq : seq[i] \notin cs}
           m == Cardinality(left)
<1>1. Len(seq) \in Nat /\ DOMAIN seq = 1..Len(seq) /\ seq \in [1..Len(seq) -> T]
    OBVIOUS
<1>2. left \in SUBSET (0..Len(seq)) /\ \A i \in left : i \in DOMAIN seq /\ seq[i] \notin cs /\ seq[i] \in T
    BY <1>1
<1>3. Without(seq, cs) = [k \in 1..m |-> seq[Nth(left, k)]]
    BY DEF Without
<1> HIDE DEF left
<1>4. m \in Nat
    BY <1>1, <1>2, BoundedIsFinite
<1>5. \A k \in 1..m : Nth(left, k) \in left /\ Cardinality({b \in left : b <= Nth(left, k)}) = k
    BY <1>1, <1>2, NthIsThere
<1> HIDE DEF m
<1>6. \A k \in 1..m : Nth(left, k) \in DOMAIN seq /\ seq[Nth(left, k)] \in T /\ seq[Nth(left, k)] \notin cs
    BY <1>2, <1>5
<1>7. Without(seq, cs) \in [1..m -> T] /\ DOMAIN Without(seq, cs) = 1..m
    BY <1>3, <1>6
<1>8. Without(seq, cs) \in Seq(T)
    BY <1>4, <1>7
<1>9. Range(Without(seq, cs)) \subseteq Range(seq) \ cs
    BY <1>3, <1>6 DEF Range
<1>10. ASSUME Distinct(seq), NEW j \in 1..m, NEW k \in 1..m, Without(seq, cs)[j] = Without(seq, cs)[k]
       PROVE  j = k
    <2>1. Nth(left, j) = Nth(left, k)
        BY <1>3, <1>6, <1>10 DEF Distinct
    <2> QED
        BY <1>5, <2>1
<1>11. Distinct(seq) => Distinct(Without(seq, cs))
    BY <1>7, <1>10 DEF Distinct
<1> QED
    BY <1>8, <1>9, <1>11

\* A row put before or after another.
LEMMA JoinedOnes ==
    ASSUME NEW T, NEW s \in Seq(T), NEW t \in Seq(T)
    PROVE  /\ s \o t \in Seq(T) /\ Range(s \o t) = Range(s) \union Range(t)
           /\ Distinct(s) /\ Distinct(t) /\ Range(s) \intersect Range(t) = {} => Distinct(s \o t)
<1>1. s \o t \in Seq(T) /\ Range(s \o t) = Range(s) \union Range(t)
    BY RangeConcatenation
<1>2. ASSUME Distinct(s), Distinct(t), Range(s) \intersect Range(t) = {}
      PROVE  Distinct(s \o t)
    <2>1. /\ DOMAIN s = 1..Len(s) /\ DOMAIN t = 1..Len(t) /\ Len(s) \in Nat /\ Len(t) \in Nat
          /\ DOMAIN (s \o t) = 1..(Len(s) + Len(t))
          /\ \A i \in 1..(Len(s) + Len(t)) : (s \o t)[i] = IF i <= Len(s) THEN s[i] ELSE t[i - Len(s)]
        OBVIOUS
    <2> SUFFICES ASSUME NEW i \in 1..(Len(s) + Len(t)), NEW j \in 1..(Len(s) + Len(t)),
                        (s \o t)[i] = (s \o t)[j]
                 PROVE  i = j
        BY <2>1 DEF Distinct
    <2>2. CASE i <= Len(s) /\ j <= Len(s)
        <3>1. i \in DOMAIN s /\ j \in DOMAIN s /\ s[i] = s[j]
            BY <2>1, <2>2
        <3> QED
            BY <1>2, <3>1 DEF Distinct
    <2>3. CASE ~(i <= Len(s)) /\ ~(j <= Len(s))
        <3>1. i - Len(s) \in DOMAIN t /\ j - Len(s) \in DOMAIN t /\ t[i - Len(s)] = t[j - Len(s)]
            BY <2>1, <2>3
        <3>2. i - Len(s) = j - Len(s)
            BY <1>2, <3>1 DEF Distinct
        <3> QED
            BY <2>1, <3>2
    <2>4. ASSUME NEW k \in 1..(Len(s) + Len(t)), NEW l \in 1..(Len(s) + Len(t)), k <= Len(s), ~(l <= Len(s)),
                 (s \o t)[k] = (s \o t)[l]
          PROVE  FALSE
        <3>1. k \in DOMAIN s /\ l - Len(s) \in DOMAIN t /\ s[k] = t[l - Len(s)]
            BY <2>1, <2>4
        <3>2. s[k] \in Range(s) /\ t[l - Len(s)] \in Range(t)
            BY <3>1 DEF Range
        <3> QED
            BY <1>2, <3>1, <3>2
    <2> QED
        BY <2>2, <2>3, <2>4
<1> QED
    BY <1>1, <1>2

\* One alone, one more at the end, and one ahead of the rest.
LEMMA OneAlone ==
    ASSUME NEW T, NEW c \in T
    PROVE  <<c>> \in Seq(T) /\ Range(<<c>>) = {c} /\ Distinct(<<c>>)
BY DEF Range, Distinct
LEMMA AppendedOnes ==
    ASSUME NEW T, NEW s \in Seq(T), NEW c \in T
    PROVE  Append(s, c) \in Seq(T) /\ Range(Append(s, c)) = Range(s) \union {c}
<1>1. PICK one : one = <<c>>
    OBVIOUS
<1>2. one \in Seq(T) /\ Range(one) = {c}
    BY <1>1, OneAlone
<1>3. s \o one \in Seq(T) /\ Range(s \o one) = Range(s) \union Range(one)
    BY <1>2, JoinedOnes
<1>4. Append(s, c) = s \o one
    BY <1>1, AppendIsConcat
<1> QED
    BY <1>2, <1>3, <1>4
LEMMA OneAhead ==
    ASSUME NEW T, NEW s \in Seq(T), NEW c \in T
    PROVE  /\ <<c>> \o s \in Seq(T) /\ Range(<<c>> \o s) = {c} \union Range(s)
           /\ Distinct(s) /\ c \notin Range(s) => Distinct(<<c>> \o s)
<1>1. PICK one : one = <<c>>
    OBVIOUS
<1>2. one \in Seq(T) /\ Range(one) = {c} /\ Distinct(one)
    BY <1>1, OneAlone
<1>3. one \o s \in Seq(T) /\ Range(one \o s) = {c} \union Range(s)
    BY <1>2, JoinedOnes
<1>4. Distinct(s) /\ c \notin Range(s) => Distinct(one \o s)
    BY <1>2, JoinedOnes
<1> QED
    BY <1>1, <1>3, <1>4

\* The rows a page of a listing is cut from: comments that hang where they were asked for.
LEMMA PageOfRows ==
    ASSUME NEW s, s.parent \in Seq(Nat), NEW p, NEW order, NEW last
    PROVE  /\ RowPage(s, p, order, last) \in Seq(Comments) /\ Distinct(RowPage(s, p, order, last))
           /\ \A c \in Range(RowPage(s, p, order, last)) : c \in DOMAIN s.parent /\ s.parent[c] = p
<1> DEFINE rest == After(Under(s, p), order, last)
           all == Ordered(rest, order)
           n == IF Len(all) < PageSize THEN Len(all) ELSE PageSize
<1>1. Len(s.parent) \in Nat /\ DOMAIN s.parent = 1..Len(s.parent)
    OBVIOUS
<1>2. rest \subseteq 1..Len(s.parent) /\ \A c \in rest : s.parent[c] = p
    BY DEF After, Under, Known
<1>3. rest \in SUBSET (0..Len(s.parent)) /\ rest \subseteq Comments
    BY <1>1, <1>2 DEF Comments
<1>4. all \in Seq(rest) /\ Distinct(all)
    BY <1>1, <1>3, OrderedOnes
<1>5. RowPage(s, p, order, last) = SubSeq(all, 1, n)
    BY DEF RowPage
<1> HIDE DEF rest
<1> HIDE DEF all
<1>6. n \in Nat /\ n <= Len(all) /\ Len(all) \in Nat
    BY <1>4, BoundsAssumption
<1> HIDE DEF n
<1>7. \A i \in 1..n : i \in 1..Len(all) /\ i \in DOMAIN all /\ all[i] \in rest
    BY <1>4, <1>6
<1>8. SubSeq(all, 1, n) = [i \in 1..n |-> all[i]]
    BY <1>4, <1>6, <1>7
<1>9. SubSeq(all, 1, n) \in Seq(rest) /\ Range(SubSeq(all, 1, n)) \subseteq rest
    BY <1>6, <1>7, <1>8 DEF Range
<1>10. Distinct(SubSeq(all, 1, n))
    BY <1>4, <1>7, <1>8 DEF Distinct
<1> QED
    BY <1>1, <1>2, <1>3, <1>5, <1>9, <1>10, SeqMonotonic

\* What a page of a listing holds for a reader: some of its rows.
LEMMA PageOfItems ==
    ASSUME NEW s, s.parent \in Seq(Nat), NEW p, NEW order, NEW last
    PROVE  /\ Items(s, p, order, last) \in Seq(Comments) /\ Distinct(Items(s, p, order, last))
           /\ \A c \in Range(Items(s, p, order, last)) : c \in DOMAIN s.parent /\ s.parent[c] = p
<1>1. PICK rows, out : rows = RowPage(s, p, order, last) /\ out = {c \in Known(s) : ~Stands(s, c)}
    OBVIOUS
<1>2. /\ rows \in Seq(Comments) /\ Distinct(rows)
      /\ \A c \in Range(rows) : c \in DOMAIN s.parent /\ s.parent[c] = p
    BY <1>1, PageOfRows
<1>3. Items(s, p, order, last) = Without(rows, out)
    BY <1>1 DEF Items
<1> QED
    BY <1>2, <1>3, WithoutOnes

----------------------------------------------------------------------------
(* Pages.                                                                     *)

Orders == {"none", "branch"} \union Sorts
Cursors == [order : Orders, last : Int]
Visibilities == {"deleted", "soft_hidden", "gravestone", "visible"}
Nodes == [replies : Seq(Comments) \union {NotRead}, hasMore : BOOLEAN, cursor : Cursors, revealed : BOOLEAN,
          loading : BOOLEAN, failed : BOOLEAN, count : Int, visibility : Visibilities]
Phases == {"idle", "loading", "ready", "failed", "missing", "hidden", "gone"}
Pages == [phase : Phases, rooted : Nat, inHis : BOOLEAN, items : Seq(Comments), cursor : Cursors,
          more : {"idle", "loading", "failed"}, highlight : Int, node : UNION {[D -> Nodes] : D \in SUBSET Comments}]
Servers == [parent : Seq(Nat), down : SUBSET Nat, mode : Modes]

\* What a comment was read under hangs under it
RepliesHang(node, parents) ==
    \A p \in DOMAIN node : node[p].replies # NotRead =>
        \A k \in Range(node[p].replies) : k \in DOMAIN node /\ k \in DOMAIN parents /\ parents[k] = p
\* The items of a list hang under none, and a rooted view has the one it is rooted on
ItemsHang(pg, parents) ==
    \A c \in Range(pg.items) :
        c \in DOMAIN pg.node /\ IF pg.rooted = Top THEN c \in DOMAIN parents /\ parents[c] = Top ELSE c = pg.rooted
PageOK(pg, parents) ==
    /\ pg \in Pages
    /\ RepliesHang(pg.node, parents) /\ ItemsHang(pg, parents)
    /\ pg.more = "loading" => IsList(pg)

\* A comment that is drawn says it loads
Loads(pg, c) == pg.phase = "ready" /\ c \in Drawn(pg) /\ pg.node[c].loading
\* What a page may become without a full load: nothing says it loads that did not, but x
Follows(pg, new, x) ==
    /\ new.phase = "ready" => pg.phase = "ready" /\ new.rooted = pg.rooted
    /\ new.phase = "loading" => pg.phase = "loading"
    /\ new.more = "loading" => pg.more = "loading"
    /\ \A c \in Comments : Loads(new, c) => c = x \/ Loads(pg, c)
\* The list goes on as it was
SameList(pg, new) ==
    IsList(new) => IsList(pg) /\ new.cursor = pg.cursor /\ (Distinct(pg.items) => Distinct(new.items))

\* The fields of a page and its nodes.
LEMMA PageTypes ==
    ASSUME NEW pg \in Pages
    PROVE  /\ pg.phase \in Phases /\ pg.rooted \in Nat /\ pg.inHis \in BOOLEAN /\ pg.items \in Seq(Comments)
           /\ pg.cursor \in Cursors /\ pg.more \in {"idle", "loading", "failed"} /\ pg.highlight \in Int
           /\ DOMAIN pg.node \in SUBSET Comments /\ pg.node \in [DOMAIN pg.node -> Nodes]
           /\ Range(pg.items) \subseteq Comments
<1>1. pg.node \in UNION {[D -> Nodes] : D \in SUBSET Comments} /\ pg.items \in Seq(Comments)
    BY DEF Pages
<1>2. PICK D \in SUBSET Comments : pg.node \in [D -> Nodes]
    BY <1>1
<1>3. DOMAIN pg.node = D
    BY <1>2
<1>4. Range(pg.items) \subseteq Comments
    BY <1>1, RangeOfSeq
<1> QED
    BY <1>2, <1>3, <1>4 DEF Pages

\* What is drawn: the items, and what was read under them.
LEMMA DrawnOnes ==
    ASSUME NEW pg, NEW c
    PROVE  c \in Drawn(pg) <=>
              c \in Range(pg.items) \/ \E p \in Range(pg.items) : pg.node[p].replies # NotRead /\ c \in Range(pg.node[p].replies)
<1>1. \A p : Range(RepliesOf(pg, p)) = IF pg.node[p].replies # NotRead THEN Range(pg.node[p].replies) ELSE {}
    <2>1. Range(<<>>) = {}
        BY DEF Range
    <2> QED
        BY <2>1 DEF RepliesOf, IsRead
<1> QED
    BY <1>1 DEF Drawn

\* What is drawn has a node.
LEMMA DrawnHaveNodes ==
    ASSUME NEW pg, NEW par, PageOK(pg, par), NEW c \in Drawn(pg)
    PROVE  c \in DOMAIN pg.node /\ pg.node[c] \in Nodes /\ c \in Comments
<1>1. c \in DOMAIN pg.node
    BY DrawnOnes DEF PageOK, RepliesHang, ItemsHang
<1> QED
    BY <1>1, PageTypes DEF PageOK

\* A comment drawn anew does not load yet
Fresh(n) == n.replies = NotRead /\ ~n.loading

\* A page drawn again with other items and nodes follows from the one before, if what is new does not load.
LEMMA Redrawn ==
    ASSUME NEW pg, NEW par, PageOK(pg, par), NEW new \in Pages, NEW x,
           new.phase = pg.phase, new.rooted = pg.rooted, new.more = "loading" => pg.more = "loading",
           RepliesHang(new.node, par), ItemsHang(new, par),
           \A c \in Range(new.items) : c \in Range(pg.items) \/ Fresh(new.node[c]),
           \A c \in DOMAIN new.node : c = x \/ ~new.node[c].loading \/ (c \in DOMAIN pg.node /\ pg.node[c].loading),
           \A p \in DOMAIN new.node : new.node[p].replies # NotRead =>
               \A k \in Range(new.node[p].replies) :
                   ~new.node[k].loading \/ (pg.node[p].replies # NotRead /\ k \in Range(pg.node[p].replies))
    PROVE  PageOK(new, par) /\ Follows(pg, new, x)
<1>1. PageOK(new, par)
    BY DEF PageOK, IsList
<1>2. ASSUME NEW c \in Comments, Loads(new, c), c # x PROVE Loads(pg, c)
    <2>1. c \in DOMAIN new.node
        BY <1>1, <1>2, DrawnHaveNodes DEF Loads
    <2>2. new.node[c].loading /\ pg.node[c].loading /\ pg.phase = "ready"
        BY <1>2, <2>1 DEF Loads
    <2>3. CASE c \in Range(new.items)
        <3>1. c \in Range(pg.items)
            BY <2>2, <2>3 DEF Fresh
        <3> QED
            BY <2>2, <3>1, DrawnOnes DEF Loads
    <2>4. ASSUME NEW p \in Range(new.items), new.node[p].replies # NotRead, c \in Range(new.node[p].replies)
          PROVE  Loads(pg, c)
        <3>1. p \in DOMAIN new.node /\ p \in Range(pg.items)
            BY <2>4 DEF ItemsHang, Fresh
        <3>2. pg.node[p].replies # NotRead /\ c \in Range(pg.node[p].replies)
            BY <2>2, <2>4, <3>1
        <3> QED
            BY <2>2, <3>1, <3>2, DrawnOnes DEF Loads
    <2> QED
        BY <1>2, <2>3, <2>4, DrawnOnes DEF Loads
<1> QED
    BY <1>1, <1>2 DEF Follows

----------------------------------------------------------------------------
(* What the service answers.                                                  *)

\* The service has only gained comments since
Earlier(s, parents) == \A k \in DOMAIN s.parent : k \in DOMAIN parents /\ parents[k] = s.parent[k]

\* The comments there are, as numbers.
LEMMA KnownOnes ==
    ASSUME NEW s \in Servers
    PROVE  /\ s.parent \in Seq(Nat) /\ Len(s.parent) \in Nat /\ DOMAIN s.parent = 1..Len(s.parent)
           /\ Known(s) = DOMAIN s.parent /\ Known(s) \in SUBSET (0..Len(s.parent)) /\ Known(s) \subseteq Comments
           /\ \A k \in Known(s) : s.parent[k] \in Nat
<1>1. s.parent \in Seq(Nat)
    BY DEF Servers
<1>2. Len(s.parent) \in Nat /\ DOMAIN s.parent = 1..Len(s.parent) /\ \A k \in 1..Len(s.parent) : s.parent[k] \in Nat
    BY <1>1
<1>3. 1..Len(s.parent) \subseteq Comments /\ 1..Len(s.parent) \subseteq 0..Len(s.parent)
    BY <1>2 DEF Comments
<1> QED
    BY <1>1, <1>2, <1>3 DEF Known

\* A fresh leaf is a node with nothing read under it.
LEMMA LeafIsFresh ==
    ASSUME NEW s \in Servers, NEW c
    PROVE  Leaf(s, c) \in Nodes /\ Fresh(Leaf(s, c))
<1>1. {k \in Under(s, c) : ~TakenOut(s, k)} \in SUBSET (0..Len(s.parent))
    BY KnownOnes DEF Under
<1>2. CountFor(s, c) \in Nat
    BY <1>1, KnownOnes, BoundedIsFinite DEF CountFor
<1>3. Visibility(s, c) \in Visibilities /\ Prefix \in Cursors
    BY DEF Visibility, Visibilities, Prefix, Cursors, Orders, None
<1> QED
    BY <1>2, <1>3 DEF Leaf, Nodes, Fresh

\* The cursor after a page resumes its order, if anything follows.
LEMMA CursorOnes ==
    ASSUME NEW s \in Servers, NEW p, NEW order \in Sorts, NEW last
    PROVE  /\ NextCursor(s, p, order, last) \in Cursors
           /\ NextCursor(s, p, order, last) = End \/ NextCursor(s, p, order, last).order = order
<1> DEFINE rest == After(Under(s, p), order, last)
           all == Ordered(rest, order)
           now == RowPage(s, p, order, last)
<1>1. End \in Cursors
    BY DEF End, Cursors, Orders, None
<1>2. rest \in SUBSET (0..Len(s.parent)) /\ Len(s.parent) \in Nat
    BY KnownOnes DEF After, Under
<1>3. Cardinality(rest) \in Nat /\ all \in Seq(rest) /\ DOMAIN all = 1..Cardinality(rest)
    BY <1>2, BoundedIsFinite, OrderedOnes DEF Ordered
<1>4. ASSUME Cardinality(rest) > PageSize PROVE now[Len(now)] \in Int
    <2>1. now = SubSeq(all, 1, IF Len(all) < PageSize THEN Len(all) ELSE PageSize)
        BY DEF RowPage
    <2> HIDE DEF rest, all
    <2>2. Len(all) = Cardinality(rest) /\ PageSize \in Nat \ {0} /\ ~(Len(all) < PageSize)
        BY <1>3, <1>4, BoundsAssumption
    <2>3. now = SubSeq(all, 1, PageSize)
        BY <2>1, <2>2
    <2>4. \A i \in 1..PageSize : all[i] \in rest
        BY <1>3, <2>2
    <2>5. now \in Seq(rest) /\ Len(now) = PageSize
        BY <2>2, <2>3, <2>4, <1>3
    <2>6. now[Len(now)] \in rest
        BY <2>2, <2>5
    <2>7. rest \subseteq Int
        BY <1>2
    <2> HIDE DEF now
    <2> QED
        BY <2>6, <2>7
<1>5. NextCursor(s, p, order, last) = IF Cardinality(rest) > PageSize THEN [order |-> order, last |-> now[Len(now)]] ELSE End
    BY DEF NextCursor
<1> HIDE DEF rest, all, now
<1>6. CASE Cardinality(rest) > PageSize
    <2>1. PICK n \in Int : n = now[Len(now)]
        BY <1>4, <1>6
    <2>2. NextCursor(s, p, order, last) = [order |-> order, last |-> n]
        BY <1>5, <1>6, <2>1
    <2> QED
        BY <2>2 DEF Cursors, Orders
<1> QED
    BY <1>1, <1>5, <1>6

\* The items of a page answered are comments that hang where they were asked for, still.
LEMMA AnsweredItems ==
    ASSUME NEW s \in Servers, NEW par, Earlier(s, par), NEW p, NEW order, NEW last
    PROVE  /\ Items(s, p, order, last) \in Seq(Comments) /\ Distinct(Items(s, p, order, last))
           /\ Range(Items(s, p, order, last)) \in SUBSET Comments
           /\ \A c \in Range(Items(s, p, order, last)) : c \in DOMAIN par /\ par[c] = p
<1>1. s.parent \in Seq(Nat)
    BY KnownOnes
<1> QED
    BY <1>1, PageOfItems, RangeOfSeq DEF Earlier

\* The nodes of some comments, with what was read under each
NodesOK(node, par) ==
    DOMAIN node \in SUBSET Comments /\ node \in [DOMAIN node -> Nodes] /\ RepliesHang(node, par)

\* What nodes are when some of them, cs, have become leaves
LeavesOver(new, node, cs, par) ==
    /\ NodesOK(new, par) /\ DOMAIN new = DOMAIN node \union cs
    /\ \A c \in cs : Fresh(new[c])
    /\ \A c \in DOMAIN node \ cs : new[c] = node[c]

\* Nodes with some of them replaced by leaves.
LEMMA LeavesMade ==
    ASSUME NEW s \in Servers, NEW par, NEW node, NodesOK(node, par), NEW cs \in SUBSET Comments
    PROVE  LeavesOver(WithLeaves(node, s, cs), node, cs, par)
<1>1. PICK D, W : D = DOMAIN node /\ W = WithLeaves(node, s, cs)
    OBVIOUS
<1>2. D \in SUBSET Comments /\ node \in [D -> Nodes] /\ RepliesHang(node, par)
    BY <1>1 DEF NodesOK
<1>3. W = [c \in D \union cs |-> IF c \in cs THEN Leaf(s, c) ELSE node[c]]
    BY <1>1 DEF WithLeaves
<1>4. \A c \in cs : Leaf(s, c) \in Nodes /\ Fresh(Leaf(s, c))
    BY LeafIsFresh
<1>5. \A c \in D \union cs : (IF c \in cs THEN Leaf(s, c) ELSE node[c]) \in Nodes
    BY <1>2, <1>4
<1>6. W \in [D \union cs -> Nodes] /\ DOMAIN W = D \union cs /\ D \union cs \in SUBSET Comments
    BY <1>2, <1>3, <1>5
<1>7. (\A c \in cs : Fresh(W[c])) /\ \A c \in D \ cs : W[c] = node[c]
    BY <1>3, <1>4
<1>8. RepliesHang(W, par)
    BY <1>2, <1>6, <1>7 DEF RepliesHang, Fresh
<1>9. NodesOK(W, par)
    BY <1>6, <1>8 DEF NodesOK
<1>10. LeavesOver(W, node, cs, par)
    BY <1>1, <1>6, <1>7, <1>9 DEF LeavesOver
<1> QED
    BY <1>1, <1>10

\* At first there are no nodes, and then there are leaves.
Blank == <<>>
LEMMA NoNodes ==
    ASSUME NEW par
    PROVE  NodesOK(Blank, par) /\ DOMAIN Blank = {} /\ Blank \in [{} -> Nodes] /\ RepliesHang(Blank, par)
<1>1. DOMAIN Blank = {} /\ Blank \in [{} -> Nodes]
    BY DEF Blank
<1> QED
    BY <1>1 DEF RepliesHang, NodesOK
LEMMA FirstLeaves ==
    ASSUME NEW s \in Servers, NEW par, NEW cs \in SUBSET Comments
    PROVE  /\ NodesOK(WithLeaves(Blank, s, cs), par) /\ DOMAIN WithLeaves(Blank, s, cs) = cs
           /\ \A c \in cs : Fresh(WithLeaves(Blank, s, cs)[c])
<1>1. NodesOK(Blank, par) /\ DOMAIN Blank = {}
    BY NoNodes
<1>2. LeavesOver(WithLeaves(Blank, s, cs), Blank, cs, par)
    BY <1>1, LeavesMade
<1>3. DOMAIN Blank \union cs = cs
    BY <1>1
<1> QED
    BY <1>2, <1>3 DEF LeavesOver

\* Pages without comments.
LEMMA BarePages ==
    ASSUME NEW par, NEW phase \in Phases
    PROVE  /\ PageOK(Bare(phase), par) /\ Bare(phase).phase = phase /\ Bare(phase).more = "idle" /\ Bare(phase).items = <<>>
           /\ Bare(phase).rooted = Top /\ Bare(phase).cursor = End /\ Drawn(Bare(phase)) = {}
<1>1. End \in Cursors /\ <<>> \in Seq(Comments) /\ <<>> \in [{} -> Nodes] /\ None \in Int /\ Top \in Nat
    BY NoNodes DEF Blank, End, Cursors, Orders, None, Top
<1>2. <<>> \in UNION {[D -> Nodes] : D \in SUBSET Comments}
    BY <1>1
<1>3. Bare(phase) \in Pages /\ Bare(phase).items = <<>> /\ Bare(phase).node = <<>> /\ Bare(phase).more = "idle"
      /\ Bare(phase).rooted = Top /\ Bare(phase).phase = phase /\ Bare(phase).cursor = End
    BY <1>1, <1>2 DEF Bare, Pages
<1>4. Range(<<>>) = {}
    BY DEF Range
<1>5. Drawn(Bare(phase)) = {}
    BY <1>3, <1>4 DEF Drawn
<1> QED
    BY <1>3, <1>4, <1>5, NoNodes DEF Blank, PageOK, ItemsHang

----------------------------------------------------------------------------
(* The reducer, one answer after another.                                     *)

\* Nothing loads on a page whose items are all fresh.
LEMMA FreshPages ==
    ASSUME NEW pg, NEW par, PageOK(pg, par), \A c \in Range(pg.items) : Fresh(pg.node[c])
    PROVE  \A c \in Comments : ~Loads(pg, c)
BY DrawnOnes DEF Loads, Fresh

\* A list just answered.
LEMMA ListedPage ==
    ASSUME NEW s \in Servers, NEW par, Earlier(s, par), NEW order \in Sorts
    PROVE  /\ PageOK(Listed(s, order), par) /\ Listed(s, order).phase = "ready" /\ Listed(s, order).rooted = Top
           /\ Listed(s, order).more = "idle" /\ Distinct(Listed(s, order).items)
           /\ Listed(s, order).cursor = End \/ Listed(s, order).cursor.order = order
           /\ \A c \in Comments : ~Loads(Listed(s, order), c)
<1> DEFINE pg == Bare("ready")
<1>1. PICK items : items = Items(s, Top, order, None)
    OBVIOUS
<1>2. items \in Seq(Comments) /\ Distinct(items) /\ Range(items) \in SUBSET Comments
      /\ \A c \in Range(items) : c \in DOMAIN par /\ par[c] = Top
    BY <1>1, AnsweredItems
<1>3. PICK cursor \in Cursors : cursor = NextCursor(s, Top, order, None) /\ (cursor = End \/ cursor.order = order)
    BY CursorOnes
<1>4. PICK node : node = WithLeaves(<<>>, s, Range(items))
    OBVIOUS
<1>5. node \in [Range(items) -> Nodes] /\ DOMAIN node = Range(items) /\ RepliesHang(node, par)
      /\ \A c \in Range(items) : Fresh(node[c])
    <2> DEFINE L == WithLeaves(Blank, s, Range(items))
    <2>1. NodesOK(L, par) /\ DOMAIN L = Range(items) /\ \A c \in Range(items) : Fresh(L[c])
        BY ONLY <1>2, FirstLeaves, s \in Servers
    <2>2. node = L
        BY <1>4 DEF Blank
    <2> HIDE DEF L
    <2> QED
        BY ONLY <2>1, <2>2 DEF NodesOK
<1>6. PageOK(pg, par) /\ pg.phase = "ready" /\ pg.more = "idle" /\ pg.rooted = Top
    BY BarePages DEF Phases
<1>7. PICK new : new = [pg EXCEPT !.items = items, !.cursor = cursor, !.node = node]
    OBVIOUS
<1>8. Listed(s, order) = new
    BY <1>1, <1>3, <1>4, <1>7 DEF Listed
<1> HIDE DEF pg
<1>9. new \in Pages /\ new.phase = "ready" /\ new.more = "idle" /\ new.rooted = Top /\ new.items = items
      /\ new.cursor = cursor /\ new.node = node
    <2>1. node \in UNION {[D -> Nodes] : D \in SUBSET Comments}
        BY <1>2, <1>5
    <2> QED
        BY <1>2, <1>6, <1>7, <2>1 DEF Pages, PageOK
<1>10. PageOK(new, par)
    BY <1>2, <1>5, <1>9 DEF PageOK, ItemsHang
<1> QED
    BY <1>2, <1>3, <1>5, <1>8, <1>9, <1>10, FreshPages

\* One node changed for another among leaves for some
WithNode(pg, s, R, c, n, highlight) ==
    [pg EXCEPT !.highlight = highlight, !.node = [WithLeaves(pg.node, s, R) EXCEPT ![c] = n]]

\* One node changed for another, and leaves for what is new under it.
LEMMA BranchNodes ==
    ASSUME NEW pg, NEW par, PageOK(pg, par), NEW s \in Servers, NEW R \in SUBSET Comments,
           NEW c \in DOMAIN pg.node, NEW n \in Nodes, NEW highlight \in Int, NEW new,
           new = WithNode(pg, s, R, c, n, highlight),
           n.loading => pg.node[c].loading /\ c \notin R,
           n.replies # NotRead => \A k \in Range(n.replies) :
               /\ k \in R \/ (pg.node[c].replies # NotRead /\ k \in Range(pg.node[c].replies))
               /\ k \in DOMAIN par /\ par[k] = c
    PROVE  /\ PageOK(new, par) /\ Follows(pg, new, Top) /\ SameList(pg, new)
           /\ new.node[c] = n /\ new.phase = pg.phase /\ new.rooted = pg.rooted
<1>1. /\ DOMAIN pg.node \in SUBSET Comments /\ pg.node \in [DOMAIN pg.node -> Nodes] /\ c \in Comments
      /\ RepliesHang(pg.node, par) /\ ItemsHang(pg, par) /\ pg \in Pages
    BY PageTypes DEF PageOK
<1>2. NodesOK(pg.node, par)
    BY <1>1 DEF NodesOK
<1>0. PICK W : W = WithLeaves(pg.node, s, R)
    OBVIOUS
<1>3. /\ W \in [DOMAIN pg.node \union R -> Nodes] /\ DOMAIN W = DOMAIN pg.node \union R /\ RepliesHang(W, par)
      /\ (\A k \in R : Fresh(W[k])) /\ \A k \in DOMAIN pg.node \ R : W[k] = pg.node[k]
    <2>1. LeavesOver(WithLeaves(pg.node, s, R), pg.node, R, par)
        BY <1>2, LeavesMade
    <2> QED
        BY ONLY <1>0, <2>1 DEF LeavesOver, NodesOK
<1>4. PICK node : node = [W EXCEPT ![c] = n]
    OBVIOUS
<1>5. /\ node \in [DOMAIN pg.node \union R -> Nodes] /\ DOMAIN node = DOMAIN pg.node \union R
      /\ node[c] = n /\ \A k \in DOMAIN node \ {c} : node[k] = W[k]
    BY <1>3, <1>4
<1>6. new = [pg EXCEPT !.highlight = highlight, !.node = node]
    BY <1>0, <1>4 DEF WithNode
<1>7. /\ new \in Pages /\ new.phase = pg.phase /\ new.rooted = pg.rooted /\ new.items = pg.items /\ new.more = pg.more
      /\ new.cursor = pg.cursor /\ new.node = node
    <2>1. node \in UNION {[D -> Nodes] : D \in SUBSET Comments}
        BY <1>1, <1>5
    <2> QED
        BY <1>1, <1>6, <2>1 DEF Pages
<1>8. RepliesHang(node, par)
    BY <1>1, <1>3, <1>5 DEF RepliesHang
<1>9. ItemsHang(new, par)
    BY <1>1, <1>5, <1>7 DEF ItemsHang
<1>10. \A k \in DOMAIN node : ~node[k].loading \/ (k \in DOMAIN pg.node /\ pg.node[k].loading)
    BY <1>3, <1>5 DEF Fresh
<1>11. ASSUME NEW p \in DOMAIN node, node[p].replies # NotRead, NEW k \in Range(node[p].replies)
       PROVE  ~node[k].loading \/ (pg.node[p].replies # NotRead /\ k \in Range(pg.node[p].replies))
    <2>1. CASE p = c
        BY <1>3, <1>5, <1>11, <2>1 DEF Fresh
    <2>2. CASE p # c
        <3>1. p \in DOMAIN pg.node \ R /\ node[p] = pg.node[p]
            BY <1>3, <1>5, <1>11, <2>2 DEF Fresh
        <3> QED
            BY <1>11, <3>1
    <2> QED
        BY <2>1, <2>2
<1>12. PageOK(new, par) /\ Follows(pg, new, Top)
    BY <1>7, <1>8, <1>9, <1>10, <1>11, Redrawn
<1>13. SameList(pg, new)
    BY <1>7 DEF SameList, IsList
<1> QED
    BY <1>5, <1>7, <1>12, <1>13

\* Nothing changed.
LEMMA SamePage ==
    ASSUME NEW pg, NEW x
    PROVE  Follows(pg, pg, x) /\ SameList(pg, pg)
BY DEF Follows, SameList

\* A page whose highlight stays.
LEMMA SameHighlight ==
    ASSUME NEW pg \in Pages, NEW node
    PROVE  [pg EXCEPT !.node = node] = [pg EXCEPT !.highlight = pg.highlight, !.node = node]
BY DEF Pages

\* A branch read anew: what it is read for does not load any more.
LEMMA BranchPage ==
    ASSUME NEW pg, NEW par, PageOK(pg, par), NEW s \in Servers, Earlier(s, par), NEW c
    PROVE  /\ PageOK(WithBranch(pg, s, c), par) /\ Follows(pg, WithBranch(pg, s, c), Top)
           /\ SameList(pg, WithBranch(pg, s, c)) /\ ~Loads(WithBranch(pg, s, c), c)
           /\ WithBranch(pg, s, c).phase = pg.phase /\ WithBranch(pg, s, c).rooted = pg.rooted
<1>1. CASE pg.phase # "ready" \/ c \notin Drawn(pg)
    <2>1. WithBranch(pg, s, c) = pg
        BY <1>1 DEF WithBranch
    <2> QED
        BY <1>1, <2>1, SamePage DEF Loads
<1>2. CASE ~(pg.phase # "ready" \/ c \notin Drawn(pg))
    <2>1. c \in DOMAIN pg.node /\ pg.node[c] \in Nodes /\ pg.highlight \in Int /\ pg \in Pages
        BY <1>2, DrawnHaveNodes, PageTypes DEF PageOK
    <2>2. PICK items : items = Items(s, c, "oldest", None)
        OBVIOUS
    <2>3. items \in Seq(Comments) /\ Range(items) \in SUBSET Comments
          /\ \A k \in Range(items) : k \in DOMAIN par /\ par[k] = c
        BY <2>2, AnsweredItems
    <2>4. PICK revealed, hasMore \in BOOLEAN :
            revealed = pg.node[c].revealed /\ hasMore = (NextCursor(s, c, "oldest", None) # End /\ Len(items) < CountFor(s, c))
        BY <2>1 DEF Nodes
    <2>5. PICK n : n = [Leaf(s, c) EXCEPT !.replies = items, !.revealed = revealed, !.hasMore = hasMore]
        OBVIOUS
    <2>6. n \in Nodes /\ ~n.loading /\ n.replies = items
        BY <2>1, <2>3, <2>4, <2>5, LeafIsFresh DEF Nodes, Fresh
    <2>7. WithBranch(pg, s, c) = [pg EXCEPT !.node = [WithLeaves(pg.node, s, Range(items)) EXCEPT ![c] = n]]
        BY <1>2, <2>2, <2>4, <2>5 DEF WithBranch
    <2>8. PICK R, lit, new : R = Range(items) /\ lit = pg.highlight /\ new = WithNode(pg, s, R, c, n, lit)
        OBVIOUS
    <2>9. WithBranch(pg, s, c) = new
        BY <2>1, <2>7, <2>8, SameHighlight DEF WithNode
    <2>10. /\ PageOK(new, par) /\ Follows(pg, new, Top) /\ SameList(pg, new)
           /\ new.node[c] = n /\ new.phase = pg.phase /\ new.rooted = pg.rooted
        <3>1. R \in SUBSET Comments /\ lit \in Int
            BY <2>1, <2>3, <2>8
        <3>2. \A k \in Range(n.replies) : k \in R /\ k \in DOMAIN par /\ par[k] = c
            BY <2>3, <2>6, <2>8
        <3> QED
            BY <2>1, <2>6, <2>8, <3>1, <3>2, BranchNodes
    <2> QED
        BY <2>6, <2>9, <2>10 DEF Loads
<1> QED
    BY <1>1, <1>2

\* A page of replies read: the first replaces what a branch handed out.
LEMMA RepliesPage ==
    ASSUME NEW pg, NEW par, PageOK(pg, par), NEW r, r.seen \in Servers, Earlier(r.seen, par)
    PROVE  /\ PageOK(RepliesLoaded(pg, r.seen, r), par) /\ Follows(pg, RepliesLoaded(pg, r.seen, r), Top)
           /\ SameList(pg, RepliesLoaded(pg, r.seen, r)) /\ ~Loads(RepliesLoaded(pg, r.seen, r), r.id)
<1> DEFINE s == r.seen
           c == r.id
<1>1. CASE pg.phase # "ready" \/ c \notin Drawn(pg)
    <2>1. RepliesLoaded(pg, s, r) = pg
        BY <1>1 DEF RepliesLoaded
    <2> QED
        BY <1>1, <2>1, SamePage DEF Loads
<1>2. CASE ~(pg.phase # "ready" \/ c \notin Drawn(pg))
    <2>1. c \in DOMAIN pg.node /\ pg.node[c] \in Nodes /\ pg.highlight \in Int /\ pg \in Pages
        BY <1>2, DrawnHaveNodes, PageTypes DEF PageOK
    <2>2. PICK items : items = Items(s, c, "oldest", r.last)
        OBVIOUS
    <2>3. items \in Seq(Comments) /\ Range(items) \in SUBSET Comments
          /\ \A k \in Range(items) : k \in DOMAIN par /\ par[k] = c
        BY <2>2, AnsweredItems
    <2>4. PICK next \in Cursors : next = NextCursor(s, c, "oldest", r.last)
        BY CursorOnes DEF Sorts
    <2>5. PICK hasMore \in BOOLEAN : hasMore = (next # End)
        OBVIOUS
    <2>6. PICK kept : kept = IF pg.node[c].cursor = Prefix THEN <<>> ELSE RepliesOf(pg, c)
        OBVIOUS
    <2>7. kept \in Seq(Comments) /\ (Range(kept) = {} \/ (pg.node[c].replies # NotRead /\ kept = pg.node[c].replies))
        <3>1. Range(<<>>) = {} /\ <<>> \in Seq(Comments)
            BY DEF Range
        <3> QED
            BY <2>1, <2>6, <3>1 DEF RepliesOf, IsRead, Nodes
    <2>8. PICK all : all = kept \o items
        OBVIOUS
    <2>9. all \in Seq(Comments) /\ Range(all) = Range(kept) \union Range(items)
        BY <2>3, <2>7, <2>8, JoinedOnes
    <2>10. PICK n : n = [pg.node[c] EXCEPT !.replies = all, !.hasMore = hasMore, !.cursor = next,
                                           !.loading = FALSE, !.failed = FALSE]
        OBVIOUS
    <2>11. n \in Nodes /\ ~n.loading /\ n.replies = all
        BY <2>1, <2>4, <2>5, <2>9, <2>10 DEF Nodes
    <2>12. RepliesLoaded(pg, s, r) = [pg EXCEPT !.node = [WithLeaves(pg.node, s, Range(items)) EXCEPT ![c] = n]]
        BY <1>2, <2>2, <2>4, <2>5, <2>6, <2>8, <2>10 DEF RepliesLoaded
    <2>13. PICK R, lit, new : R = Range(items) /\ lit = pg.highlight /\ new = WithNode(pg, s, R, c, n, lit)
        OBVIOUS
    <2>14. RepliesLoaded(pg, s, r) = new
        BY <2>1, <2>12, <2>13, SameHighlight DEF WithNode
    <2>15. \A k \in Range(all) : /\ k \in Range(items) \/ (pg.node[c].replies # NotRead /\ k \in Range(pg.node[c].replies))
                                 /\ k \in DOMAIN par /\ par[k] = c
        BY <2>1, <2>3, <2>7, <2>9 DEF PageOK, RepliesHang
    <2>16. /\ PageOK(new, par) /\ Follows(pg, new, Top) /\ SameList(pg, new)
           /\ new.node[c] = n /\ new.phase = pg.phase /\ new.rooted = pg.rooted
        <3>1. R \in SUBSET Comments /\ lit \in Int
            BY <2>1, <2>3, <2>13
        <3>2. \A k \in Range(n.replies) :
                /\ k \in R \/ (pg.node[c].replies # NotRead /\ k \in Range(pg.node[c].replies))
                /\ k \in DOMAIN par /\ par[k] = c
            BY <2>11, <2>13, <2>15
        <3> HIDE DEF s, c
        <3>3. s \in Servers
            BY DEF s
        <3> QED
            BY <2>1, <2>11, <2>13, <3>1, <3>2, <3>3, BranchNodes
    <2> QED
        BY <2>11, <2>14, <2>16 DEF Loads
<1> QED
    BY <1>1, <1>2

\* A view rooted on a comment.
LEMMA RootedPage ==
    ASSUME NEW s \in Servers, NEW par, Earlier(s, par), NEW c \in Comments, NEW highlight \in Int
    PROVE  /\ PageOK(Rooted(s, c, highlight), par) /\ Rooted(s, c, highlight).phase = "ready"
           /\ Rooted(s, c, highlight).rooted = c /\ Rooted(s, c, highlight).more # "loading"
           /\ \A k \in Comments : ~Loads(Rooted(s, c, highlight), k)
<1> DEFINE pg == Bare("ready")
<1>1. PICK lit \in Int : lit = IF highlight = None THEN c ELSE highlight
    BY DEF Comments
<1>2. PICK inHis \in BOOLEAN : inHis = \E a \in Chain(s, c) \cap His : Visibility(s, a) \notin Authorless
    OBVIOUS
<1>3. PICK node : node = WithLeaves(<<>>, s, {c})
    OBVIOUS
<1>4. node \in [{c} -> Nodes] /\ DOMAIN node = {c} /\ RepliesHang(node, par) /\ Fresh(node[c])
    <2>1. {c} \in SUBSET Comments
        OBVIOUS
    <2>2. PICK R \in SUBSET Comments : R = {c}
        BY <2>1
    <2> DEFINE L == WithLeaves(Blank, s, R)
    <2>3. NodesOK(L, par) /\ DOMAIN L = R /\ \A k \in R : Fresh(L[k])
        BY ONLY FirstLeaves, s \in Servers, R \in SUBSET Comments
    <2>4. node = L
        BY <1>3, <2>2 DEF Blank
    <2> HIDE DEF L
    <2> QED
        BY ONLY <2>2, <2>3, <2>4 DEF NodesOK
<1>5. PageOK(pg, par) /\ pg.phase = "ready" /\ pg.more = "idle"
    BY BarePages DEF Phases
<1>6. PICK items : items = <<c>>
    OBVIOUS
<1>7. items \in Seq(Comments) /\ Range(items) = {c}
    BY <1>6, OneAlone
<1>8. PICK new : new = [pg EXCEPT !.rooted = c, !.items = items, !.node = node, !.inHis = inHis, !.highlight = lit]
    OBVIOUS
<1>9. Rooted(s, c, highlight) = WithBranch(new, s, c)
    BY <1>1, <1>2, <1>3, <1>6, <1>8 DEF Rooted
<1> HIDE DEF pg
<1>10. new \in Pages /\ new.phase = "ready" /\ new.more = "idle" /\ new.rooted = c /\ new.items = items /\ new.node = node
    <2>1. node \in UNION {[D -> Nodes] : D \in SUBSET Comments}
        BY <1>4
    <2> QED
        BY <1>5, <1>7, <1>8, <2>1 DEF Pages, PageOK, Comments
<1>11. PageOK(new, par)
    <2>1. c # Top
        BY DEF Comments, Top
    <2> QED
        BY <1>4, <1>7, <1>10, <2>1 DEF PageOK, ItemsHang
<1>12. \A k \in Comments : ~Loads(new, k)
    BY <1>4, <1>7, <1>10, <1>11, FreshPages
<1>13. PICK drawn : drawn = WithBranch(new, s, c)
    OBVIOUS
<1>14. PageOK(drawn, par) /\ Follows(new, drawn, Top) /\ drawn.phase = "ready" /\ drawn.rooted = c
    BY <1>10, <1>11, <1>13, BranchPage
<1>15. \A k \in Comments : k # Top
    BY DEF Comments, Top
<1> QED
    BY <1>9, <1>10, <1>12, <1>13, <1>14, <1>15 DEF Follows

\* A page that has only lost some of what it showed follows from the one before, and x alone may load anew.
LEMMA Thinned ==
    ASSUME NEW pg, NEW par, PageOK(pg, par), NEW new \in Pages, NEW x,
           new.phase = pg.phase, new.rooted = pg.rooted, new.more = pg.more, new.cursor = pg.cursor,
           Range(new.items) \subseteq Range(pg.items), Distinct(pg.items) => Distinct(new.items),
           DOMAIN new.node = DOMAIN pg.node,
           \A p \in DOMAIN pg.node :
               /\ new.node[p].replies # NotRead =>
                     pg.node[p].replies # NotRead /\ Range(new.node[p].replies) \subseteq Range(pg.node[p].replies)
               /\ new.node[p].loading => p = x \/ pg.node[p].loading
    PROVE  PageOK(new, par) /\ Follows(pg, new, x) /\ SameList(pg, new)
<1>1. RepliesHang(pg.node, par) /\ ItemsHang(pg, par)
    BY DEF PageOK
<1>2. RepliesHang(new.node, par)
    BY <1>1 DEF RepliesHang
<1>3. ItemsHang(new, par)
    BY <1>1 DEF ItemsHang
<1>4. PageOK(new, par)
    BY <1>2, <1>3 DEF PageOK, IsList
<1>5. ASSUME NEW c \in Comments, Loads(new, c), c # x PROVE Loads(pg, c)
    <2>1. c \in Drawn(new) /\ pg.phase = "ready"
        BY <1>5 DEF Loads
    <2>2. c \in DOMAIN pg.node
        BY <2>1, <1>4, DrawnHaveNodes
    <2>3. pg.node[c].loading
        BY <1>5, <2>2 DEF Loads
    <2>4. c \in Drawn(pg)
        <3>1. \A p \in Range(pg.items) : p \in DOMAIN pg.node
            BY <1>1 DEF ItemsHang
        <3> QED
            BY <2>1, <3>1, DrawnOnes
    <2> QED
        BY <2>1, <2>3, <2>4 DEF Loads
<1> QED
    BY <1>4, <1>5 DEF Follows, SameList, IsList

\* One node drawn changed, with what was read under it.
LEMMA InViewPage ==
    ASSUME NEW pg, NEW par, PageOK(pg, par), NEW c, NEW n, NEW x,
           c \in Drawn(pg) =>
               n \in Nodes /\ n.replies = pg.node[c].replies /\ (n.loading => c = x \/ pg.node[c].loading)
    PROVE  /\ PageOK(InView(pg, c, n), par) /\ Follows(pg, InView(pg, c, n), x) /\ SameList(pg, InView(pg, c, n))
           /\ InView(pg, c, n).phase = pg.phase /\ InView(pg, c, n).rooted = pg.rooted
           /\ InView(pg, c, n).more = pg.more
           /\ (c \in Drawn(pg) => ~n.loading) => ~Loads(InView(pg, c, n), c)
<1>1. CASE pg.phase = "ready" /\ c \in Drawn(pg)
    <2>1. c \in DOMAIN pg.node /\ pg \in Pages
        BY <1>1, DrawnHaveNodes DEF PageOK
    <2>2. DOMAIN pg.node \in SUBSET Comments /\ pg.node \in [DOMAIN pg.node -> Nodes]
        BY <2>1, PageTypes
    <2>3. PICK node : node = [pg.node EXCEPT ![c] = n]
        OBVIOUS
    <2>4. /\ node \in [DOMAIN pg.node -> Nodes] /\ DOMAIN node = DOMAIN pg.node
          /\ node[c] = n /\ \A p \in DOMAIN pg.node \ {c} : node[p] = pg.node[p]
        BY <1>1, <2>1, <2>2, <2>3
    <2>5. PICK new : new = [pg EXCEPT !.node = node]
        OBVIOUS
    <2>6. InView(pg, c, n) = new
        BY <1>1, <2>3, <2>5 DEF InView
    <2>7. /\ new \in Pages /\ new.phase = pg.phase /\ new.rooted = pg.rooted /\ new.more = pg.more
          /\ new.cursor = pg.cursor /\ new.items = pg.items /\ new.node = node
        <3>1. node \in UNION {[D -> Nodes] : D \in SUBSET Comments}
            BY <2>2, <2>4
        <3> QED
            BY <2>1, <2>5, <3>1 DEF Pages
    <2>8. \A p \in DOMAIN pg.node :
               /\ new.node[p].replies # NotRead =>
                     pg.node[p].replies # NotRead /\ Range(new.node[p].replies) \subseteq Range(pg.node[p].replies)
               /\ new.node[p].loading => p = x \/ pg.node[p].loading
        BY <1>1, <2>4, <2>7
    <2>9. PageOK(new, par) /\ Follows(pg, new, x) /\ SameList(pg, new)
        BY <2>4, <2>7, <2>8, Thinned
    <2> QED
        BY <1>1, <2>4, <2>6, <2>7, <2>9 DEF Loads
<1>2. CASE ~(pg.phase = "ready" /\ c \in Drawn(pg))
    <2>1. InView(pg, c, n) = pg
        BY <1>2 DEF InView
    <2> QED
        BY <1>2, <2>1, SamePage DEF Loads
<1> QED
    BY <1>1, <1>2

\* Replies asked for, and replies that do not come.
LEMMA RepliesAsked ==
    ASSUME NEW pg, NEW par, PageOK(pg, par), NEW c
    PROVE  /\ PageOK(RepliesLoading(pg, c), par) /\ Follows(pg, RepliesLoading(pg, c), c)
           /\ SameList(pg, RepliesLoading(pg, c))
           /\ PageOK(RepliesFailed(pg, c), par) /\ Follows(pg, RepliesFailed(pg, c), Top)
           /\ SameList(pg, RepliesFailed(pg, c)) /\ ~Loads(RepliesFailed(pg, c), c)
<1>1. CASE c \notin Drawn(pg)
    <2>1. RepliesLoading(pg, c) = pg /\ RepliesFailed(pg, c) = pg
        BY <1>1 DEF RepliesLoading, RepliesFailed
    <2> QED
        BY <1>1, <2>1, SamePage DEF Loads
<1>2. CASE c \in Drawn(pg)
    <2>1. PICK old \in Nodes : old = pg.node[c]
        BY <1>2, DrawnHaveNodes
    <2>2. PICK asked1, failed1 : /\ asked1 = [old EXCEPT !.loading = TRUE, !.failed = FALSE]
                                 /\ failed1 = [old EXCEPT !.loading = FALSE, !.failed = TRUE]
        OBVIOUS
    <2>3. /\ asked1 \in Nodes /\ asked1.replies = pg.node[c].replies
          /\ failed1 \in Nodes /\ failed1.replies = pg.node[c].replies /\ ~failed1.loading
        BY <2>1, <2>2 DEF Nodes
    <2>4. RepliesLoading(pg, c) = InView(pg, c, asked1) /\ RepliesFailed(pg, c) = InView(pg, c, failed1)
        BY <1>2, <2>1, <2>2 DEF RepliesLoading, RepliesFailed
    <2>5. PageOK(InView(pg, c, asked1), par) /\ Follows(pg, InView(pg, c, asked1), c) /\ SameList(pg, InView(pg, c, asked1))
        BY <2>3, InViewPage
    <2>6. /\ PageOK(InView(pg, c, failed1), par) /\ Follows(pg, InView(pg, c, failed1), Top)
          /\ SameList(pg, InView(pg, c, failed1)) /\ ~Loads(InView(pg, c, failed1), c)
        BY <2>3, InViewPage
    <2> QED
        BY <2>4, <2>5, <2>6
<1> QED
    BY <1>1, <1>2

\* A collapsed comment revealed.
LEMMA RevealedPage ==
    ASSUME NEW pg, NEW par, PageOK(pg, par), NEW c
    PROVE  PageOK(Reveal(pg, c), par) /\ Follows(pg, Reveal(pg, c), Top) /\ SameList(pg, Reveal(pg, c))
<1>1. PICK n : n = [pg.node[c] EXCEPT !.revealed = TRUE]
    OBVIOUS
<1>2. c \in Drawn(pg) => n \in Nodes /\ n.replies = pg.node[c].replies /\ (n.loading => c = Top \/ pg.node[c].loading)
    <2> SUFFICES ASSUME c \in Drawn(pg)
                 PROVE  n \in Nodes /\ n.replies = pg.node[c].replies /\ (n.loading => c = Top \/ pg.node[c].loading)
        OBVIOUS
    <2>1. PICK old \in Nodes : old = pg.node[c]
        BY DrawnHaveNodes
    <2> QED
        BY <1>1, <2>1 DEF Nodes
<1>3. Reveal(pg, c) = InView(pg, c, n)
    BY <1>1 DEF Reveal
<1> QED
    BY <1>2, <1>3, InViewPage

\* A comment out of the tree: it is drawn nowhere after that.
LEMMA DroppedPage ==
    ASSUME NEW pg, NEW par, PageOK(pg, par), NEW c, pg.rooted # c
    PROVE  /\ PageOK(DropFromView(pg, c), par) /\ Follows(pg, DropFromView(pg, c), Top)
           /\ SameList(pg, DropFromView(pg, c)) /\ ~Loads(DropFromView(pg, c), c)
<1>1. /\ pg \in Pages /\ DOMAIN pg.node \in SUBSET Comments /\ pg.node \in [DOMAIN pg.node -> Nodes]
      /\ pg.items \in Seq(Comments) /\ RepliesHang(pg.node, par) /\ ItemsHang(pg, par)
    BY PageTypes DEF PageOK
<1>2. CASE pg.rooted = Top /\ c \in Range(pg.items)
    <2>1. PICK items : items = Without(pg.items, {c})
        OBVIOUS
    <2>2. /\ items \in Seq(Comments) /\ Range(items) \subseteq Range(pg.items) \ {c}
          /\ Distinct(pg.items) => Distinct(items)
        BY <1>1, <2>1, WithoutOnes
    <2>3. PICK new : new = [pg EXCEPT !.items = items]
        OBVIOUS
    <2>4. DropFromView(pg, c) = new
        BY <1>2, <2>1, <2>3 DEF DropFromView
    <2>5. /\ new \in Pages /\ new.phase = pg.phase /\ new.rooted = pg.rooted /\ new.more = pg.more
          /\ new.cursor = pg.cursor /\ new.items = items /\ new.node = pg.node
        BY <1>1, <2>2, <2>3 DEF Pages
    <2>6. PageOK(new, par) /\ Follows(pg, new, Top) /\ SameList(pg, new)
        BY <2>2, <2>5, Thinned
    <2>7. c \notin Drawn(new)
        <3>1. c \notin Range(items) /\ par[c] = Top
            BY <1>1, <1>2, <2>2 DEF ItemsHang
        <3>2. \A p \in Range(items) : pg.node[p].replies # NotRead => c \notin Range(pg.node[p].replies)
            <4>1. \A p \in Range(items) : p \in DOMAIN pg.node /\ p # Top
                BY <1>1, <2>2 DEF ItemsHang, Comments, Top
            <4> QED
                BY <1>1, <3>1, <4>1 DEF RepliesHang
        <3> QED
            BY <2>5, <3>1, <3>2, DrawnOnes
    <2> QED
        BY <2>4, <2>6, <2>7 DEF Loads
<1>3. CASE ~(pg.rooted = Top /\ c \in Range(pg.items))
    <2> DEFINE has(p) == pg.node[p].replies # NotRead /\ c \in Range(pg.node[p].replies)
    <2>1. PICK node : node = [p \in DOMAIN pg.node |->
              IF pg.node[p].replies # NotRead /\ c \in Range(pg.node[p].replies)
              THEN WithoutReply(pg.node[p], c) ELSE pg.node[p]]
        OBVIOUS
    <2>2. PICK new : new = [pg EXCEPT !.node = node]
        OBVIOUS
    <2>3. DropFromView(pg, c) = new
        BY <1>3, <2>1, <2>2 DEF DropFromView
    <2>4. ASSUME NEW p \in DOMAIN pg.node
          PROVE  /\ node[p] \in Nodes /\ (node[p].loading => pg.node[p].loading)
                 /\ node[p].replies # NotRead =>
                       /\ pg.node[p].replies # NotRead /\ Range(node[p].replies) \subseteq Range(pg.node[p].replies)
                       /\ c \notin Range(node[p].replies)
        <3>1. CASE has(p)
            <4>1. PICK old \in Nodes : old = pg.node[p]
                BY <1>1, <2>4
            <4>2. old.replies \in Seq(Comments) /\ old.count \in Int
                BY <3>1, <4>1 DEF Nodes
            <4>3. PICK left : left = Without(old.replies, {c})
                OBVIOUS
            <4>4. left \in Seq(Comments) /\ Range(left) \subseteq Range(old.replies) \ {c}
                BY <4>2, <4>3, WithoutOnes
            <4>5. PICK count \in Int : count = AtLeast0(old.count - 1)
                BY <4>2 DEF AtLeast0
            <4>6. PICK n : n = [old EXCEPT !.replies = left, !.count = count]
                OBVIOUS
            <4>7. n \in Nodes /\ n.replies = left /\ n.loading = old.loading
                BY <4>1, <4>4, <4>5, <4>6 DEF Nodes
            <4>8. node[p] = n
                BY <2>1, <2>4, <3>1, <4>1, <4>3, <4>5, <4>6 DEF WithoutReply
            <4> QED
                BY <3>1, <4>1, <4>4, <4>7, <4>8
        <3>2. CASE ~has(p)
            <4>1. node[p] = pg.node[p]
                BY <2>1, <2>4, <3>2
            <4> QED
                BY <1>1, <2>4, <3>2, <4>1
        <3> QED
            BY <3>1, <3>2
    <2>5. DOMAIN node = DOMAIN pg.node /\ node \in [DOMAIN pg.node -> Nodes]
        BY <2>1, <2>4
    <2> HIDE DEF has
    <2>6. /\ new \in Pages /\ new.phase = pg.phase /\ new.rooted = pg.rooted /\ new.more = pg.more
          /\ new.cursor = pg.cursor /\ new.items = pg.items /\ new.node = node
        <3>1. node \in UNION {[D -> Nodes] : D \in SUBSET Comments}
            BY <1>1, <2>5
        <3> QED
            BY <1>1, <2>2, <3>1 DEF Pages
    <2>7. PageOK(new, par) /\ Follows(pg, new, Top) /\ SameList(pg, new)
        BY <2>4, <2>5, <2>6, Thinned
    <2>8. c \notin Drawn(new)
        <3>1. c \notin Range(pg.items) /\ \A p \in Range(pg.items) : p \in DOMAIN pg.node
            BY <1>1, <1>3 DEF ItemsHang
        <3> QED
            BY <2>4, <2>6, <3>1, DrawnOnes
    <2> QED
        BY <2>3, <2>7, <2>8 DEF Loads
<1> QED
    BY <1>2, <1>3

\* A page without comments follows from any, and is no list.
LEMMA BareFollows ==
    ASSUME NEW pg, NEW par, NEW phase \in Phases \ {"ready", "loading"}, NEW x
    PROVE  /\ PageOK(Bare(phase), par) /\ Follows(pg, Bare(phase), x) /\ SameList(pg, Bare(phase))
           /\ \A c : ~Loads(Bare(phase), c)
BY BarePages DEF Follows, SameList, IsList, Loads

\* A comment the service has no more: it, and any view rooted on it, goes.
LEMMA VanishedPage ==
    ASSUME NEW pg, NEW par, PageOK(pg, par), NEW c, NEW byBlock \in BOOLEAN
    PROVE  /\ PageOK(Vanished(pg, c, byBlock), par) /\ Follows(pg, Vanished(pg, c, byBlock), Top)
           /\ SameList(pg, Vanished(pg, c, byBlock)) /\ ~Loads(Vanished(pg, c, byBlock), c)
<1>1. CASE pg.phase # "ready"
    <2>1. Vanished(pg, c, byBlock) = pg
        BY <1>1 DEF Vanished
    <2> QED
        BY <1>1, <2>1, SamePage DEF Loads
<1>2. CASE pg.phase = "ready" /\ pg.rooted = c
    <2>1. PICK phase \in Phases \ {"ready", "loading"} : phase = IF byBlock THEN "hidden" ELSE "gone"
        BY DEF Phases
    <2>2. Vanished(pg, c, byBlock) = Bare(phase)
        BY <1>2, <2>1 DEF Vanished
    <2> QED
        BY <2>2, BareFollows
<1>3. CASE pg.phase = "ready" /\ pg.rooted # c
    <2>1. Vanished(pg, c, byBlock) = DropFromView(pg, c)
        BY <1>3 DEF Vanished
    <2> QED
        BY <1>3, <2>1, DroppedPage
<1> QED
    BY <1>1, <1>2, <1>3

\* The reader's own comment deleted: a placeholder where replies hang under it, else it goes.
LEMMA DeletedPage ==
    ASSUME NEW pg, NEW par, PageOK(pg, par), NEW c
    PROVE  PageOK(Deleted(pg, c), par) /\ Follows(pg, Deleted(pg, c), Top) /\ SameList(pg, Deleted(pg, c))
<1>1. CASE pg.phase # "ready" \/ c \notin Drawn(pg)
    <2>1. Deleted(pg, c) = pg
        BY <1>1 DEF Deleted
    <2> QED
        BY <2>1, SamePage
<1>2. CASE pg.phase = "ready" /\ c \in Drawn(pg) /\ pg.node[c].count > 0
    <2>1. PICK old \in Nodes : old = pg.node[c]
        BY <1>2, DrawnHaveNodes
    <2>2. PICK n : n = [old EXCEPT !.visibility = "deleted"]
        OBVIOUS
    <2>3. n \in Nodes /\ n.replies = old.replies /\ n.loading = old.loading
        BY <2>1, <2>2 DEF Nodes, Visibilities
    <2>4. Deleted(pg, c) = InView(pg, c, n)
        BY <1>2, <2>1, <2>2 DEF Deleted
    <2> QED
        BY <2>1, <2>3, <2>4, InViewPage
<1>3. CASE pg.phase = "ready" /\ c \in Drawn(pg) /\ ~(pg.node[c].count > 0) /\ pg.rooted = c
    <2>1. PICK phase \in Phases \ {"ready", "loading"} : phase = "gone"
        BY DEF Phases
    <2>2. Deleted(pg, c) = Bare(phase)
        BY <1>3, <2>1 DEF Deleted
    <2> QED
        BY <2>2, BareFollows
<1>4. CASE pg.phase = "ready" /\ c \in Drawn(pg) /\ ~(pg.node[c].count > 0) /\ pg.rooted # c
    <2>1. Deleted(pg, c) = DropFromView(pg, c)
        BY <1>4 DEF Deleted
    <2> QED
        BY <1>4, <2>1, DroppedPage
<1> QED
    BY <1>1, <1>2, <1>3, <1>4

\* A node after an ignore: some of what was read under it may go, and it does not load anew.
LEMMA IgnoredNode ==
    ASSUME NEW pg, NEW c, pg.node[c] \in Nodes, NEW mode
    PROVE  /\ IgnoreNode(pg, c, mode) \in Nodes /\ IgnoreNode(pg, c, mode).loading = pg.node[c].loading
           /\ IgnoreNode(pg, c, mode).replies # NotRead =>
                 /\ pg.node[c].replies # NotRead
                 /\ Range(IgnoreNode(pg, c, mode).replies) \subseteq Range(pg.node[c].replies)
<1>1. PICK n \in Nodes : n = pg.node[c]
    OBVIOUS
<1>2. IgnoredComment(n, mode) \in Nodes /\ IgnoredComment(n, mode).replies = n.replies
      /\ IgnoredComment(n, mode).loading = n.loading
    BY DEF IgnoredComment, Nodes, Visibilities
<1>3. PICK seen : seen = IF mode # "subtree_removal" /\ ByHim(pg.node, c) THEN IgnoredComment(n, mode) ELSE n
    OBVIOUS
<1>4. seen \in Nodes /\ seen.replies = n.replies /\ seen.loading = n.loading
    BY <1>2, <1>3
<1>5. CASE n.replies = NotRead
    <2>1. IgnoreNode(pg, c, mode) = seen
        BY <1>1, <1>3, <1>5 DEF IgnoreNode
    <2> QED
        BY <1>1, <1>4, <1>5, <2>1
<1>6. CASE n.replies # NotRead
    <2>1. n.replies \in Seq(Comments)
        BY <1>1, <1>6 DEF Nodes
    <2>2. PICK goes : goes = GoesFrom(pg.node, Range(n.replies), mode)
        OBVIOUS
    <2>3. PICK left : left = Without(n.replies, goes)
        OBVIOUS
    <2>4. left \in Seq(Comments) /\ Range(left) \subseteq Range(n.replies)
        BY <2>1, <2>3, WithoutOnes
    <2>5. seen.count \in Int /\ Len(n.replies) \in Nat /\ Len(left) \in Nat
        BY <1>4, <2>1, <2>4 DEF Nodes
    <2>6. PICK count \in Int : count = AtLeast0(seen.count - (Len(n.replies) - Len(left)))
        BY <2>5 DEF AtLeast0
    <2>7. PICK new : new = [seen EXCEPT !.replies = left, !.count = count]
        OBVIOUS
    <2>8. new \in Nodes /\ new.replies = left /\ new.loading = seen.loading
        BY <1>4, <2>4, <2>6, <2>7 DEF Nodes
    <2>9. IgnoreNode(pg, c, mode) = new
        BY <1>1, <1>3, <1>6, <2>2, <2>3, <2>6, <2>7 DEF IgnoreNode
    <2> QED
        BY <1>1, <1>4, <1>6, <2>4, <2>8, <2>9
<1> QED
    BY <1>5, <1>6

\* The author ignored: what is his goes or is covered, and the view with it if it hung under him.
LEMMA IgnoredPage ==
    ASSUME NEW pg, NEW par, PageOK(pg, par), NEW mode
    PROVE  PageOK(Ignored(pg, mode), par) /\ Follows(pg, Ignored(pg, mode), Top) /\ SameList(pg, Ignored(pg, mode))
<1> DEFINE kept == [c \in DOMAIN pg.node |-> IF c \in Drawn(pg) THEN IgnoreNode(pg, c, mode) ELSE pg.node[c]]
           left == Without(pg.items, GoesFrom(kept, Range(pg.items), mode))
<1>1. /\ pg \in Pages /\ DOMAIN pg.node \in SUBSET Comments /\ pg.node \in [DOMAIN pg.node -> Nodes]
      /\ pg.items \in Seq(Comments) /\ pg.inHis \in BOOLEAN
    BY PageTypes DEF PageOK
<1>2. CASE pg.phase # "ready"
    <2>1. Ignored(pg, mode) = pg
        BY <1>2 DEF Ignored
    <2> QED
        BY <2>1, SamePage
<1>3. CASE pg.phase = "ready" /\ mode = "subtree_removal" /\ pg.inHis
    <2>1. PICK phase \in Phases \ {"ready", "loading"} : phase = "hidden"
        BY DEF Phases
    <2>2. Ignored(pg, mode) = Bare(phase)
        BY <1>3, <2>1 DEF Ignored
    <2> QED
        BY <2>2, BareFollows
<1>4. CASE pg.phase = "ready" /\ ~(mode = "subtree_removal" /\ pg.inHis)
    <2>1. PICK node : node = kept
        OBVIOUS
    <2>2. PICK items : items = left
        OBVIOUS
    <2>3. Ignored(pg, mode) = IF pg.rooted # Top /\ items = <<>> THEN Bare("missing")
                              ELSE [pg EXCEPT !.node = node, !.items = items, !.inHis = @ /\ mode # "gravestone"]
        BY <1>4, <2>1, <2>2 DEF Ignored
    <2>4. ASSUME NEW c \in DOMAIN pg.node
          PROVE  /\ node[c] \in Nodes /\ (node[c].loading => pg.node[c].loading)
                 /\ node[c].replies # NotRead =>
                       pg.node[c].replies # NotRead /\ Range(node[c].replies) \subseteq Range(pg.node[c].replies)
        <3>1. pg.node[c] \in Nodes
            BY <1>1
        <3>2. node[c] = IF c \in Drawn(pg) THEN IgnoreNode(pg, c, mode) ELSE pg.node[c]
            BY <2>1, <2>4
        <3> HIDE DEF kept, left
        <3>3. CASE c \in Drawn(pg)
            <4>1. node[c] = IgnoreNode(pg, c, mode)
                BY <3>2, <3>3
            <4> QED
                BY <3>1, <4>1, IgnoredNode
        <3>4. CASE c \notin Drawn(pg)
            BY <3>1, <3>2, <3>4
        <3> QED
            BY <3>3, <3>4
    <2>5. DOMAIN node = DOMAIN pg.node /\ node \in [DOMAIN pg.node -> Nodes]
        BY <2>1, <2>4
    <2>6. /\ items \in Seq(Comments) /\ Range(items) \subseteq Range(pg.items)
          /\ Distinct(pg.items) => Distinct(items)
        BY <1>1, <2>2, WithoutOnes
    <2> HIDE DEF kept, left
    <2>7. CASE pg.rooted # Top /\ items = <<>>
        <3>1. PICK phase \in Phases \ {"ready", "loading"} : phase = "missing"
            BY DEF Phases
        <3>2. Ignored(pg, mode) = Bare(phase)
            BY <2>3, <2>7, <3>1
        <3> QED
            BY <3>2, BareFollows
    <2>8. CASE ~(pg.rooted # Top /\ items = <<>>)
        <3>1. PICK inHis \in BOOLEAN : inHis = (pg.inHis /\ mode # "gravestone")
            OBVIOUS
        <3>2. PICK new : new = [pg EXCEPT !.node = node, !.items = items, !.inHis = inHis]
            OBVIOUS
        <3>3. Ignored(pg, mode) = new
            BY <2>3, <2>8, <3>1, <3>2
        <3>4. /\ new \in Pages /\ new.phase = pg.phase /\ new.rooted = pg.rooted /\ new.more = pg.more
              /\ new.cursor = pg.cursor /\ new.items = items /\ new.node = node
            <4>1. node \in UNION {[D -> Nodes] : D \in SUBSET Comments}
                BY <1>1, <2>5
            <4> QED
                BY <1>1, <2>6, <3>2, <4>1 DEF Pages
        <3>5. PageOK(new, par) /\ Follows(pg, new, Top) /\ SameList(pg, new)
            BY <2>4, <2>5, <2>6, <3>4, Thinned
        <3> QED
            BY <3>3, <3>5
    <2> QED
        BY <2>7, <2>8
<1> QED
    BY <1>2, <1>3, <1>4

\* The ignore lifted: what was covered shows again.
LEMMA UnignoredPage ==
    ASSUME NEW pg, NEW par, PageOK(pg, par)
    PROVE  PageOK(Unignored(pg), par) /\ Follows(pg, Unignored(pg), Top) /\ SameList(pg, Unignored(pg))
<1>1. /\ pg \in Pages /\ DOMAIN pg.node \in SUBSET Comments /\ pg.node \in [DOMAIN pg.node -> Nodes]
    BY PageTypes DEF PageOK
<1>2. CASE pg.phase # "ready"
    <2>1. Unignored(pg) = pg
        BY <1>2 DEF Unignored
    <2> QED
        BY <2>1, SamePage
<1>3. CASE pg.phase = "ready"
    <2>1. PICK node : node = [c \in DOMAIN pg.node |-> IF c \in His /\ pg.node[c].visibility = "soft_hidden"
                                 THEN [pg.node[c] EXCEPT !.visibility = "visible", !.revealed = FALSE] ELSE pg.node[c]]
        OBVIOUS
    <2>2. PICK new : new = [pg EXCEPT !.node = node]
        OBVIOUS
    <2>3. Unignored(pg) = new
        BY <1>3, <2>1, <2>2 DEF Unignored
    <2>4. ASSUME NEW c \in DOMAIN pg.node
          PROVE  node[c] \in Nodes /\ node[c].loading = pg.node[c].loading /\ node[c].replies = pg.node[c].replies
        <3>1. PICK old \in Nodes : old = pg.node[c]
            BY <1>1
        <3>2. PICK shown : shown = [old EXCEPT !.visibility = "visible", !.revealed = FALSE]
            OBVIOUS
        <3>3. shown \in Nodes /\ shown.loading = old.loading /\ shown.replies = old.replies
            BY <3>1, <3>2 DEF Nodes, Visibilities
        <3>4. node[c] = shown \/ node[c] = old
            BY <2>1, <3>1, <3>2
        <3> QED
            BY <3>1, <3>3, <3>4
    <2>5. DOMAIN node = DOMAIN pg.node /\ node \in [DOMAIN pg.node -> Nodes]
        BY <2>1, <2>4
    <2>6. /\ new \in Pages /\ new.phase = pg.phase /\ new.rooted = pg.rooted /\ new.more = pg.more
          /\ new.cursor = pg.cursor /\ new.items = pg.items /\ new.node = node
        <3>1. node \in UNION {[D -> Nodes] : D \in SUBSET Comments}
            BY <1>1, <2>5
        <3> QED
            BY <1>1, <2>2, <3>1 DEF Pages
    <2>7. PageOK(new, par) /\ Follows(pg, new, Top) /\ SameList(pg, new)
        BY <2>4, <2>5, <2>6, Thinned
    <2> QED
        BY <2>3, <2>7
<1> QED
    BY <1>2, <1>3

\* A list with other items, and leaves for the new ones
HangUnder(R, par, p) == \A c \in R : c \in DOMAIN par /\ par[c] = p
SameOnes(items, shown, R) == \A c : c \in Range(items) <=> c \in Range(shown) \/ c \in R
Grown(pg, s, R, items, cursor, more, highlight) ==
    [pg EXCEPT !.items = items, !.cursor = cursor, !.more = more, !.highlight = highlight,
               !.node = WithLeaves(pg.node, s, R)]

\* What may be asked of such a list: the new ones hang under none
GrowsBy(pg, par, R, items, cursor, more) ==
    /\ PageOK(pg, par) /\ IsList(pg)
    /\ R \in SUBSET Comments /\ HangUnder(R, par, Top)
    /\ items \in Seq(Comments) /\ SameOnes(items, pg.items, R)
    /\ cursor \in Cursors /\ more \in {"idle", pg.more}

\* Comments put at the end of a list or ahead of it, as fresh leaves.
LEMMA ListGrown ==
    ASSUME NEW pg, NEW par, NEW s \in Servers, NEW R, NEW items, NEW cursor, NEW more, NEW highlight \in Int,
           GrowsBy(pg, par, R, items, cursor, more), NEW new, new = Grown(pg, s, R, items, cursor, more, highlight)
    PROVE  /\ PageOK(new, par) /\ Follows(pg, new, Top) /\ IsList(new)
           /\ new.items = items /\ new.cursor = cursor /\ new.more = more
<1>0. /\ PageOK(pg, par) /\ IsList(pg) /\ R \in SUBSET Comments /\ HangUnder(R, par, Top)
      /\ items \in Seq(Comments) /\ SameOnes(items, pg.items, R)
      /\ cursor \in Cursors /\ more \in {"idle", pg.more}
    BY DEF GrowsBy
<1>1. /\ DOMAIN pg.node \in SUBSET Comments /\ pg.node \in [DOMAIN pg.node -> Nodes]
      /\ RepliesHang(pg.node, par) /\ ItemsHang(pg, par) /\ pg \in Pages
    BY <1>0, PageTypes DEF PageOK
<1>2. NodesOK(pg.node, par)
    BY <1>1 DEF NodesOK
<1>3. PICK node : node = WithLeaves(pg.node, s, R)
    OBVIOUS
<1>4. /\ NodesOK(node, par) /\ DOMAIN node = DOMAIN pg.node \union R
      /\ (\A k \in R : Fresh(node[k])) /\ \A k \in DOMAIN pg.node \ R : node[k] = pg.node[k]
    <2>1. LeavesOver(WithLeaves(pg.node, s, R), pg.node, R, par)
        BY <1>0, <1>2, LeavesMade
    <2> QED
        BY ONLY <1>3, <2>1 DEF LeavesOver
<1>5. new = [pg EXCEPT !.items = items, !.cursor = cursor, !.more = more, !.highlight = highlight, !.node = node]
    BY <1>3 DEF Grown
<1>6. /\ new \in Pages /\ new.phase = pg.phase /\ new.rooted = pg.rooted /\ new.items = items /\ new.more = more
      /\ new.cursor = cursor /\ new.node = node
    <2>1. node \in UNION {[D -> Nodes] : D \in SUBSET Comments}
        BY <1>4 DEF NodesOK
    <2>2. more \in {"idle", "loading", "failed"}
        BY <1>0, <1>1 DEF Pages
    <2> QED
        BY <1>0, <1>1, <1>5, <2>1, <2>2 DEF Pages
<1>7. pg.rooted = Top /\ \A c \in Range(pg.items) : c \in DOMAIN pg.node /\ c \in DOMAIN par /\ par[c] = Top
    BY <1>0, <1>1 DEF ItemsHang, IsList
<1>8. ItemsHang(new, par)
    BY <1>0, <1>4, <1>6, <1>7 DEF ItemsHang, HangUnder, SameOnes
<1>9. \A c \in Range(new.items) : c \in Range(pg.items) \/ Fresh(new.node[c])
    BY <1>0, <1>4, <1>6 DEF SameOnes
<1>10. \A k \in DOMAIN new.node : ~new.node[k].loading \/ (k \in DOMAIN pg.node /\ pg.node[k].loading)
    BY <1>4, <1>6 DEF Fresh
<1>11. \A p \in DOMAIN new.node : new.node[p].replies # NotRead =>
           \A k \in Range(new.node[p].replies) :
               ~new.node[k].loading \/ (pg.node[p].replies # NotRead /\ k \in Range(pg.node[p].replies))
    BY <1>4, <1>6 DEF Fresh
<1>12. RepliesHang(new.node, par)
    BY <1>4, <1>6 DEF NodesOK
<1>13. PageOK(new, par) /\ Follows(pg, new, Top)
    BY <1>0, <1>6, <1>8, <1>9, <1>10, <1>11, <1>12, Redrawn
<1> QED
    BY <1>0, <1>6, <1>7, <1>13 DEF IsList

\* The page after the last, put after what is shown.
LEMMA ExtendedPage ==
    ASSUME NEW pg, NEW par, PageOK(pg, par), NEW s \in Servers, NEW r, r.sort \in Sorts,
           NEW arriving \in Seq(Comments), \A c \in Range(arriving) : c \in DOMAIN par /\ par[c] = Top
    PROVE  /\ PageOK(Extended(pg, s, r, arriving), par) /\ Follows(pg, Extended(pg, s, r, arriving), Top)
           /\ Extended(pg, s, r, arriving).more # "loading"
           /\ IsList(Extended(pg, s, r, arriving)) =>
                 /\ IsList(pg) /\ Extended(pg, s, r, arriving).items = pg.items \o arriving
                 /\ \/ Extended(pg, s, r, arriving).cursor = End
                    \/ Extended(pg, s, r, arriving).cursor.order = r.sort
<1>1. CASE ~IsList(pg)
    <2>1. Extended(pg, s, r, arriving) = pg
        BY <1>1 DEF Extended
    <2> QED
        BY <1>1, <2>1, SamePage DEF PageOK
<1>2. CASE IsList(pg)
    <2>1. pg.items \in Seq(Comments) /\ pg.highlight \in Int /\ pg \in Pages
        BY PageTypes DEF PageOK
    <2>2. PICK items : items = pg.items \o arriving
        OBVIOUS
    <2>3. items \in Seq(Comments) /\ Range(items) = Range(pg.items) \union Range(arriving)
        BY <2>1, <2>2, JoinedOnes
    <2>4. PICK cursor \in Cursors :
              cursor = NextCursor(s, Top, r.sort, r.last) /\ (cursor = End \/ cursor.order = r.sort)
        BY CursorOnes
    <2>5. PICK R \in SUBSET Comments : R = Range(arriving)
        BY RangeOfSeq
    <2>6. PICK highlight \in Int : highlight = pg.highlight
        BY <2>1
    <2>7. PICK more : more = "idle"
        OBVIOUS
    <2>8. PICK new : new = Grown(pg, s, R, items, cursor, more, highlight)
        OBVIOUS
    <2>9. Extended(pg, s, r, arriving) = new
        <3>1. Extended(pg, s, r, arriving) =
                  [pg EXCEPT !.items = items, !.cursor = cursor, !.more = more, !.node = WithLeaves(pg.node, s, R)]
            BY <1>2, <2>2, <2>4, <2>5, <2>7 DEF Extended
        <3>2. PICK node : node = WithLeaves(pg.node, s, R)
            OBVIOUS
        <3>3. [pg EXCEPT !.items = items, !.cursor = cursor, !.more = more, !.node = node]
                = [pg EXCEPT !.items = items, !.cursor = cursor, !.more = more, !.highlight = highlight, !.node = node]
            BY <2>1, <2>6 DEF Pages
        <3> QED
            BY <2>8, <3>1, <3>2, <3>3 DEF Grown
    <2>10. /\ PageOK(new, par) /\ Follows(pg, new, Top) /\ IsList(new)
           /\ new.items = items /\ new.cursor = cursor /\ new.more = more
        <3>1. HangUnder(R, par, Top)
            BY <2>5 DEF HangUnder
        <3>2. SameOnes(items, pg.items, R)
            BY <2>3, <2>5 DEF SameOnes
        <3>3. GrowsBy(pg, par, R, items, cursor, more)
            BY <1>2, <2>3, <2>7, <3>1, <3>2 DEF GrowsBy
        <3> QED
            BY ONLY <2>8, <3>3, ListGrown, s \in Servers, highlight \in Int
    <2> QED
        BY <1>2, <2>2, <2>4, <2>7, <2>9, <2>10
<1> QED
    BY <1>1, <1>2

\* What is said of the page after the last.
LEMMA MorePage ==
    ASSUME NEW pg, NEW par, PageOK(pg, par), NEW status \in {"loading", "failed"}
    PROVE  /\ PageOK(MoreIs(pg, status), par) /\ SameList(pg, MoreIs(pg, status))
           /\ MoreIs(pg, status).phase = pg.phase /\ MoreIs(pg, status).rooted = pg.rooted
           /\ \A c \in Comments : Loads(MoreIs(pg, status), c) => Loads(pg, c)
           /\ status = "failed" => Follows(pg, MoreIs(pg, status), Top) /\ MoreIs(pg, status).more # "loading"
<1>1. CASE ~IsList(pg)
    <2>1. MoreIs(pg, status) = pg
        BY <1>1 DEF MoreIs
    <2> QED
        BY <1>1, <2>1, SamePage DEF PageOK
<1>2. CASE IsList(pg)
    <2>1. PICK new : new = [pg EXCEPT !.more = status]
        OBVIOUS
    <2>2. MoreIs(pg, status) = new
        BY <1>2, <2>1 DEF MoreIs
    <2>3. /\ new \in Pages /\ new.phase = pg.phase /\ new.rooted = pg.rooted /\ new.more = status
          /\ new.cursor = pg.cursor /\ new.items = pg.items /\ new.node = pg.node
        BY <2>1 DEF Pages, PageOK
    <2>4. PageOK(new, par)
        BY <1>2, <2>3 DEF PageOK, ItemsHang, IsList
    <2>5. \A c : Loads(new, c) <=> Loads(pg, c)
        BY <2>3, DrawnOnes DEF Loads
    <2> QED
        BY <2>2, <2>3, <2>4, <2>5 DEF SameList, IsList, Follows
<1> QED
    BY <1>1, <1>2

\* Another comment lit up.
LEMMA LitPage ==
    ASSUME NEW pg, NEW par, PageOK(pg, par), NEW c \in Int
    PROVE  /\ PageOK([pg EXCEPT !.highlight = c], par) /\ Follows(pg, [pg EXCEPT !.highlight = c], Top)
           /\ SameList(pg, [pg EXCEPT !.highlight = c])
<1>1. PICK new : new = [pg EXCEPT !.highlight = c]
    OBVIOUS
<1>2. /\ new \in Pages /\ new.phase = pg.phase /\ new.rooted = pg.rooted /\ new.more = pg.more
      /\ new.cursor = pg.cursor /\ new.items = pg.items /\ new.node = pg.node
    BY <1>1 DEF Pages, PageOK
<1>3. PageOK(new, par) /\ Follows(pg, new, Top) /\ SameList(pg, new)
    BY <1>2, Thinned
<1> QED
    BY <1>1, <1>3

\* The reader's own comment: ahead of the list, unless it is drawn already.
LEMMA PostedPage ==
    ASSUME NEW pg, NEW par, PageOK(pg, par), NEW s \in Servers, NEW c \in Comments, c \in DOMAIN par, par[c] = Top
    PROVE  PageOK(Posted(pg, s, c), par) /\ Follows(pg, Posted(pg, s, c), Top) /\ SameList(pg, Posted(pg, s, c))
<1>0. c \in Int
    BY DEF Comments
<1>1. CASE ~IsList(pg)
    <2>1. Posted(pg, s, c) = pg
        BY <1>1 DEF Posted
    <2> QED
        BY <2>1, SamePage
<1>2. CASE IsList(pg) /\ c \in Drawn(pg)
    <2>1. Posted(pg, s, c) = [pg EXCEPT !.highlight = c]
        BY <1>2 DEF Posted
    <2> QED
        BY <1>0, <2>1, LitPage
<1>3. CASE IsList(pg) /\ c \notin Drawn(pg)
    <2>1. pg.items \in Seq(Comments) /\ pg.cursor \in Cursors /\ pg \in Pages
        BY PageTypes DEF PageOK
    <2>2. PICK items : items = <<c>> \o pg.items
        OBVIOUS
    <2>3. c \notin Range(pg.items)
        BY <1>3, DrawnOnes
    <2>4. /\ items \in Seq(Comments) /\ Range(items) = {c} \union Range(pg.items)
          /\ Distinct(pg.items) => Distinct(items)
        BY <2>1, <2>2, <2>3, OneAhead
    <2>5. PICK R \in SUBSET Comments : R = {c}
        OBVIOUS
    <2>6. PICK cursor, lit, more, new :
              cursor \in Cursors /\ lit \in Int /\ cursor = pg.cursor /\ more = pg.more /\ lit = c /\ new = Grown(pg, s, R, items, cursor, more, lit)
        BY <1>0, <2>1
    <2>7. Posted(pg, s, c) = new
        <3>1. PICK node : node = WithLeaves(pg.node, s, R)
            OBVIOUS
        <3>2. Posted(pg, s, c) = [pg EXCEPT !.highlight = c, !.items = items, !.node = node]
            BY <1>3, <2>2, <2>5, <3>1 DEF Posted
        <3>3. [pg EXCEPT !.highlight = c, !.items = items, !.node = node]
                = [pg EXCEPT !.items = items, !.cursor = cursor, !.more = more, !.highlight = c, !.node = node]
            BY <2>1, <2>6 DEF Pages
        <3> QED
            BY <2>6, <3>1, <3>2, <3>3 DEF Grown
    <2>8. /\ PageOK(new, par) /\ Follows(pg, new, Top) /\ IsList(new)
          /\ new.items = items /\ new.cursor = cursor /\ new.more = more
        <3>1. HangUnder(R, par, Top)
            BY <2>5 DEF HangUnder
        <3>2. SameOnes(items, pg.items, R)
            BY <2>4, <2>5 DEF SameOnes
        <3>3. GrowsBy(pg, par, R, items, cursor, more)
            BY <1>3, <2>4, <2>6, <3>1, <3>2 DEF GrowsBy
        <3>4. new = Grown(pg, s, R, items, cursor, more, lit) /\ lit \in Int
            BY <2>6
        <3> QED
            BY ONLY <3>3, <3>4, ListGrown, s \in Servers
    <2>9. SameList(pg, new)
        BY <1>3, <2>4, <2>6, <2>8 DEF SameList
    <2> QED
        BY <2>7, <2>8, <2>9
<1> QED
    BY <1>1, <1>2, <1>3

\* The reader's own reply: after what was read under its parent, or alone there.
LEMMA RepliedPage ==
    ASSUME NEW pg, NEW par, PageOK(pg, par), NEW s \in Servers, NEW p, NEW c \in Comments, c \in DOMAIN par, par[c] = p
    PROVE  PageOK(Replied(pg, s, p, c), par) /\ Follows(pg, Replied(pg, s, p, c), Top)
           /\ SameList(pg, Replied(pg, s, p, c))
<1>0. c \in Int
    BY DEF Comments
<1>1. CASE pg.phase # "ready"
    <2>1. Replied(pg, s, p, c) = pg
        BY <1>1 DEF Replied
    <2> QED
        BY <2>1, SamePage
<1>2. CASE pg.phase = "ready" /\ (c \in Drawn(pg) \/ p \notin Drawn(pg))
    <2>1. Replied(pg, s, p, c) = [pg EXCEPT !.highlight = c]
        BY <1>2 DEF Replied
    <2> QED
        BY <1>0, <2>1, LitPage
<1>3. CASE pg.phase = "ready" /\ ~(c \in Drawn(pg) \/ p \notin Drawn(pg))
    <2>1. p \in DOMAIN pg.node /\ pg.node[p] \in Nodes
        BY <1>3, DrawnHaveNodes
    <2>2. PICK old \in Nodes : old = pg.node[p]
        BY <2>1
    <2>3. PICK replies : replies = IF old.replies = NotRead THEN <<c>> ELSE Append(old.replies, c)
        OBVIOUS
    <2>4. /\ replies \in Seq(Comments)
          /\ \A k \in Range(replies) : k = c \/ (old.replies # NotRead /\ k \in Range(old.replies))
        <3>1. CASE old.replies = NotRead
            <4>1. <<c>> \in Seq(Comments) /\ Range(<<c>>) = {c}
                BY OneAlone
            <4> QED
                BY <2>3, <3>1, <4>1
        <3>2. CASE old.replies # NotRead
            <4>1. PICK row \in Seq(Comments) : row = old.replies
                BY <3>2 DEF Nodes
            <4>2. Append(row, c) \in Seq(Comments) /\ Range(Append(row, c)) = Range(row) \union {c}
                BY ONLY AppendedOnes, c \in Comments, row \in Seq(Comments)
            <4>3. replies = Append(row, c)
                BY <2>3, <3>2, <4>1
            <4> QED
                BY ONLY <3>2, <4>1, <4>2, <4>3
        <3> QED
            BY <3>1, <3>2
    <2>5. PICK hasMore \in BOOLEAN, count \in Int :
              hasMore = (IF old.replies = NotRead THEN old.count > 0 ELSE old.hasMore) /\ count = old.count + 1
        <3>1. old.hasMore \in BOOLEAN /\ old.count + 1 \in Int
            BY DEF Nodes
        <3>2. (old.count > 0) \in BOOLEAN
            OBVIOUS
        <3> QED
            BY <3>1, <3>2
    <2>6. PICK n : n = [old EXCEPT !.count = count, !.replies = replies, !.hasMore = hasMore]
        OBVIOUS
    <2>7. n \in Nodes /\ n.replies = replies /\ n.loading = old.loading
        BY <2>4, <2>5, <2>6 DEF Nodes
    <2>8. PICK R \in SUBSET Comments : R = {c}
        OBVIOUS
    <2>9. PICK new : new = WithNode(pg, s, R, p, n, c)
        OBVIOUS
    <2>10. Replied(pg, s, p, c) = new
        BY <1>3, <2>2, <2>3, <2>5, <2>6, <2>8, <2>9 DEF Replied, WithNode
    <2>11. PageOK(new, par) /\ Follows(pg, new, Top) /\ SameList(pg, new)
        <3>1. n.loading => pg.node[p].loading /\ p \notin R
            BY <1>3, <2>2, <2>7, <2>8
        <3>2. n.replies # NotRead => \A k \in Range(n.replies) :
                /\ k \in R \/ (pg.node[p].replies # NotRead /\ k \in Range(pg.node[p].replies))
                /\ k \in DOMAIN par /\ par[k] = p
            BY <2>1, <2>2, <2>4, <2>7, <2>8 DEF PageOK, RepliesHang
        <3>3. n \in Nodes
            BY <2>7
        <3> QED
            BY ONLY <1>0, <2>1, <2>9, <3>1, <3>2, <3>3, BranchNodes, PageOK(pg, par), s \in Servers, R \in SUBSET Comments
    <2> QED
        BY <2>10, <2>11
<1> QED
    BY <1>1, <1>2, <1>3

----------------------------------------------------------------------------
(* The machine's invariant.                                                   *)

FullLoads == {"list", "rooted"}
Kinds == FullLoads \union Writes \union Modes \union {"more", "branch", "replies", "remove", "report", "lift"}
Statuses == {"sent", "done", "missing", "hidden", "refused"}
Requests == [n : Nat, kind : Kinds, gen : Nat, id : Nat, last : Int, cut : Orders, sort : Sorts, status : Statuses,
             seen : Servers, made : Int]

\* What a request under way says is so still, at the generation gen and in the order now chosen
RequestOK(r, parents, gen, order) ==
    /\ r \in Requests /\ Earlier(r.seen, parents) /\ r.gen <= gen
    /\ r.kind \in {"list", "post"} => r.id = Top
    /\ r.kind = "rooted" => r.id # Top
    /\ r.kind \in Writes /\ r.status = "done" => r.made \in DOMAIN parents /\ parents[r.made] = r.id
    /\ r.kind \in {"list", "more"} /\ r.gen = gen => r.sort = order

StateOK ==
    /\ app \in {"web", "mobile"} /\ server \in Servers /\ Earlier(AtFirst, server.parent)
    /\ address \in Nat /\ hashPending \in BOOLEAN /\ generation \in Nat /\ sort \in Sorts
    /\ replyingTo \in Int /\ pending \in Int /\ asked \in Nat
RequestsOK == \A r \in flight : RequestOK(r, server.parent, generation, sort)
AddressAsked == ~hashPending => \A r \in flight : r.kind \in FullLoads /\ r.gen = generation => r.id = address
LoadIsAsked == page.phase = "loading" => \E r \in flight : r.kind \in FullLoads /\ r.gen = generation
MoreIsAsked == page.more = "loading" => \E r \in flight : r.kind = "more"
RepliesAreAsked ==
    \A c \in Comments : Loads(page, c) => \E r \in flight : r.kind \in {"branch", "replies"} /\ r.id = c
OneEach == app = "web" /\ IsList(page) => Distinct(page.items)
PageInv ==
    /\ StateOK /\ PageOK(page, server.parent) /\ RequestsOK
    /\ AddressAsked /\ ViewFollowsAddress
    /\ LoadIsAsked /\ MoreIsAsked /\ RepliesAreAsked
    /\ OneEach

\* A request asked now.
LEMMA Asking ==
    ASSUME NEW others, NEW kind \in Kinds, NEW id \in Nat, NEW last \in Int, AskBeside(others, kind, id, last),
           StateOK, PageOK(page, server.parent), generation' \in Nat, sort' \in Sorts, UNCHANGED server
    PROVE  /\ asked' \in Nat
           /\ \E q \in Requests :
                /\ flight' = others \union {q} /\ q.kind = kind /\ q.gen = generation' /\ q.id = id /\ q.sort = sort'
                /\ q.status = "sent" /\ Earlier(q.seen, server'.parent)
<1>1. PICK cut \in Orders : cut = IF kind = "more" THEN page.cursor.order ELSE sort'
    <2>1. page.cursor \in Cursors
        BY PageTypes DEF PageOK
    <2>2. page.cursor.order \in Orders
        BY <2>1 DEF Cursors
    <2> QED
        BY <2>2 DEF Orders
<1>2. AtFirst \in Servers
    BY BoundsAssumption DEF AtFirst, Servers, Modes
<1>3. PICK q : q = [n |-> asked, kind |-> kind, gen |-> generation', id |-> id, last |-> last,
                    cut |-> cut, sort |-> sort', status |-> "sent", seen |-> AtFirst, made |-> None]
    OBVIOUS
<1>4. flight' = others \union {q} /\ asked' = asked + 1
    BY <1>1, <1>3 DEF AskBeside
<1>5. q \in Requests
    BY <1>2, <1>3 DEF Requests, Statuses, StateOK, None
<1>6. Earlier(q.seen, server'.parent)
    BY <1>3 DEF StateOK
<1> QED
    BY <1>3, <1>4, <1>5, <1>6 DEF StateOK

\* The start.
LEMMA PageStarts == PageInit => PageInv
<1> SUFFICES ASSUME PageInit PROVE PageInv
    OBVIOUS
<1>1. Init
    BY DEF PageInit, MobileInit
<1>2. StateOK
    <2>1. AtFirst \in Servers /\ Earlier(AtFirst, AtFirst.parent)
        BY BoundsAssumption DEF AtFirst, Servers, Modes, Earlier
    <2>2. server = AtFirst
        BY <1>1 DEF Init
    <2>3. server \in Servers /\ Earlier(AtFirst, server.parent)
        BY <2>1, <2>2
    <2>4. app \in {"web", "mobile"} /\ hashPending \in BOOLEAN /\ sort \in Sorts
        BY <1>1 DEF Init
    <2>5. address \in {0, 1} /\ generation = 0 /\ replyingTo = -1 /\ pending = -1 /\ asked = 0
        BY <1>1 DEF Init, None, Top
    <2>6. address \in Nat /\ generation \in Nat /\ replyingTo \in Int /\ pending \in Int /\ asked \in Nat
        BY <2>5
    <2> QED
        BY <2>3, <2>4, <2>6 DEF StateOK
<1>3. PICK phase \in Phases : phase = "idle" /\ page = Bare(phase)
    BY <1>1 DEF Init, initial, Phases
<1>4. PageOK(page, server.parent) /\ page.phase = "idle" /\ page.more = "idle"
    BY <1>3, BarePages
<1>5. flight = {}
    BY <1>1 DEF Init
<1> QED
    BY <1>2, <1>4, <1>5
    DEF PageInv, RequestsOK, AddressAsked, ViewFollowsAddress, LoadIsAsked, MoreIsAsked, RepliesAreAsked, Loads, OneEach,
        IsList

\* A list that goes on shows each comment once, if it did, and in the order it had.
LEMMA ListGoesOn ==
    ASSUME OneEach, SameList(page, page'), app' = app
    PROVE  OneEach' /\ (sort' = sort /\ OrderFits => OrderFits')
BY DEF OneEach, SameList, OrderFits

\* The requests of one kind that are left when another is over.
LEMMA StillAsked ==
    ASSUME NEW r \in flight, flight' = flight \ {r}, generation' = generation
    PROVE  /\ LoadIsAsked /\ (page'.phase = "loading" => page.phase = "loading")
              /\ (r.kind \in FullLoads /\ r.gen = generation => page'.phase # "loading") => LoadIsAsked'
           /\ MoreIsAsked /\ (page'.more = "loading" => page.more = "loading")
              /\ (r.kind = "more" => page'.more # "loading") => MoreIsAsked'
           /\ RepliesAreAsked /\ (\A c \in Comments : Loads(page', c) => Loads(page, c))
              /\ (r.kind \in {"branch", "replies"} => ~Loads(page', r.id)) => RepliesAreAsked'
<1>1. ASSUME LoadIsAsked, page'.phase = "loading" => page.phase = "loading",
             r.kind \in FullLoads /\ r.gen = generation => page'.phase # "loading"
      PROVE  LoadIsAsked'
    BY <1>1 DEF LoadIsAsked
<1>2. ASSUME MoreIsAsked, page'.more = "loading" => page.more = "loading",
             r.kind = "more" => page'.more # "loading"
      PROVE  MoreIsAsked'
    BY <1>2 DEF MoreIsAsked
<1>3. ASSUME RepliesAreAsked, \A c \in Comments : Loads(page', c) => Loads(page, c),
             r.kind \in {"branch", "replies"} => ~Loads(page', r.id)
      PROVE  RepliesAreAsked'
    <2> SUFFICES ASSUME NEW c \in Comments, Loads(page', c)
                 PROVE  \E q \in flight' : q.kind \in {"branch", "replies"} /\ q.id = c
        BY DEF RepliesAreAsked
    <2>1. PICK q \in flight : q.kind \in {"branch", "replies"} /\ q.id = c
        BY <1>3 DEF RepliesAreAsked
    <2>2. q # r
        BY <1>3, <2>1
    <2> QED
        BY <2>1, <2>2
<1> QED
    BY <1>1, <1>2, <1>3

\* An answer drawn.
LEMMA Answering ==
    ASSUME PageInv, NEW r \in flight, Settled(r), UNCHANGED <<app, server, generation, sort>>,
           address' \in Nat, hashPending' \in BOOLEAN, replyingTo' \in Int, pending' \in Int,
           ~hashPending' => ~hashPending /\ address' = address,
           PageOK(page', server.parent), Follows(page, page', Top), OneEach',
           r.kind \in {"branch", "replies"} => ~Loads(page', r.id),
           r.kind = "more" => page'.more # "loading",
           r.kind \in FullLoads /\ r.gen = generation => page'.phase # "loading"
    PROVE  PageInv'
<1>1. flight' = flight \ {r} /\ asked' = asked
    BY DEF Settled
<1>2. StateOK'
    BY <1>1 DEF PageInv, StateOK
<1>3. PageOK(page', server'.parent)
    OBVIOUS
<1>4. RequestsOK'
    BY <1>1 DEF PageInv, RequestsOK
<1>5. AddressAsked'
    BY <1>1 DEF PageInv, AddressAsked
<1>6. ViewFollowsAddress'
    BY DEF PageInv, ViewFollowsAddress, Follows
<1>7. \A c \in Comments : Loads(page', c) => Loads(page, c)
    BY DEF Follows, Comments, Top
<1>8. LoadIsAsked' /\ MoreIsAsked' /\ RepliesAreAsked'
    BY <1>1, <1>7, StillAsked DEF PageInv, Follows
<1> QED
    BY <1>2, <1>3, <1>4, <1>5, <1>6, <1>8 DEF PageInv

\* A full load asked for: the page has nothing else to wait for.
LEMMA Loading ==
    ASSUME PageInv, NEW others \in SUBSET flight, NEW c \in Nat,
           IF c = Top THEN LoadList(others) ELSE LoadRooted(others, c),
           UNCHANGED <<app, server>>, sort' \in Sorts, address' \in Nat, hashPending' \in BOOLEAN, replyingTo' \in Int,
           ~hashPending' => c = address'
    PROVE  PageInv' /\ OrderFits'
<1>1. PICK kind \in FullLoads, last \in Int :
          /\ AskBeside(others, kind, c, last) /\ (kind = "list" => c = Top) /\ (kind = "rooted" => c # Top)
          /\ generation' = generation + 1 /\ page' = Bare("loading") /\ pending' \in Int
    <2>1. CASE c = Top
        <3>1. "list" \in FullLoads /\ None \in Int /\ pending \in Int
            BY DEF FullLoads, None, PageInv, StateOK
        <3> QED
            BY <2>1, <3>1 DEF LoadList
    <2>2. CASE c # Top
        <3>1. "rooted" \in FullLoads /\ None \in Int /\ pending \in Int
            BY DEF FullLoads, None, PageInv, StateOK
        <3> QED
            BY <2>2, <3>1 DEF LoadRooted
    <2> QED
        BY <2>1, <2>2
<1>2. /\ StateOK /\ PageOK(page, server.parent) /\ generation' \in Nat /\ generation' > generation /\ generation \in Nat
      /\ kind \in Kinds
    BY <1>1 DEF PageInv, StateOK, Kinds
<1>3. /\ asked' \in Nat
      /\ \E q \in Requests :
            /\ flight' = others \union {q} /\ q.kind = kind /\ q.gen = generation' /\ q.id = c /\ q.sort = sort'
            /\ q.status = "sent" /\ Earlier(q.seen, server'.parent)
    BY <1>1, <1>2, Asking
<1>4. PICK q \in Requests :
            /\ flight' = others \union {q} /\ q.kind = kind /\ q.gen = generation' /\ q.id = c /\ q.sort = sort'
            /\ q.status = "sent" /\ Earlier(q.seen, server'.parent)
    BY <1>3
<1>5. PICK phase \in Phases : phase = "loading"
    BY DEF Phases
<1>6. /\ PageOK(page', server'.parent) /\ page'.phase = "loading" /\ page'.more = "idle"
    BY <1>1, <1>5, BarePages
<1>7. StateOK'
    BY <1>1, <1>2, <1>3 DEF StateOK
<1>8. ASSUME NEW r \in others
      PROVE  r.gen # generation' /\ RequestOK(r, server'.parent, generation', sort')
    <2>1. RequestOK(r, server.parent, generation, sort)
        BY DEF PageInv, RequestsOK
    <2>2. r.gen \in Nat /\ r.gen <= generation
        BY <2>1 DEF RequestOK, Requests
    <2>3. r.gen # generation' /\ r.gen <= generation'
        BY <1>2, <2>2
    <2> QED
        BY <2>1, <2>3 DEF RequestOK
<1>9. RequestOK(q, server'.parent, generation', sort')
    <2>1. q.gen <= generation'
        BY <1>2, <1>4
    <2> QED
        BY <1>1, <1>4, <2>1 DEF RequestOK, FullLoads, Writes
<1>10. RequestsOK'
    BY <1>4, <1>8, <1>9 DEF RequestsOK
<1>11. AddressAsked'
    BY <1>4, <1>8 DEF AddressAsked
<1>12. LoadIsAsked' /\ MoreIsAsked' /\ RepliesAreAsked' /\ ViewFollowsAddress' /\ OneEach' /\ OrderFits'
    BY <1>1, <1>4, <1>6 DEF LoadIsAsked, MoreIsAsked, RepliesAreAsked, ViewFollowsAddress, OneEach, OrderFits, IsList, Loads
<1> QED
    BY <1>6, <1>7, <1>10, <1>11, <1>12 DEF PageInv

\* Something else asked for.
LEMMA AskingMore ==
    ASSUME PageInv, NEW kind \in Kinds \ FullLoads, NEW id \in Nat, NEW last \in Int, Ask(kind, id, last),
           UNCHANGED reading, kind = "post" => id = Top,
           PageOK(page', server.parent), SameList(page, page'),
           page'.phase = "ready" => page.phase = "ready" /\ page'.rooted = page.rooted,
           page'.phase = "loading" => page.phase = "loading",
           page'.more = "loading" => page.more = "loading" \/ kind = "more",
           \A c \in Comments : Loads(page', c) => Loads(page, c) \/ (kind \in {"branch", "replies"} /\ c = id)
    PROVE  PageInv' /\ (OrderFits => OrderFits')
<1>1. /\ UNCHANGED <<server, address, hashPending, generation, sort, replyingTo, pending, app>>
      /\ AskBeside(flight, kind, id, last)
    BY DEF reading, Ask
<1>2. StateOK /\ generation' \in Nat /\ sort' \in Sorts /\ kind \in Kinds
    BY <1>1 DEF PageInv, StateOK
<1>3. /\ asked' \in Nat
      /\ \E q \in Requests :
            /\ flight' = flight \union {q} /\ q.kind = kind /\ q.gen = generation' /\ q.id = id /\ q.sort = sort'
            /\ q.status = "sent" /\ Earlier(q.seen, server'.parent)
    BY <1>1, <1>2, Asking DEF PageInv
<1>4. PICK q \in Requests :
            /\ flight' = flight \union {q} /\ q.kind = kind /\ q.gen = generation' /\ q.id = id /\ q.sort = sort'
            /\ q.status = "sent" /\ Earlier(q.seen, server'.parent)
    BY <1>3
<1>5. StateOK'
    BY <1>1, <1>2, <1>3 DEF StateOK
<1>6. RequestOK(q, server'.parent, generation', sort')
    <2>1. q.gen <= generation'
        BY <1>2, <1>4
    <2> QED
        BY <1>4, <2>1 DEF RequestOK, FullLoads, Writes
<1>7. RequestsOK'
    BY <1>1, <1>4, <1>6 DEF PageInv, RequestsOK
<1>8. AddressAsked'
    BY <1>1, <1>4 DEF PageInv, AddressAsked
<1>9. ViewFollowsAddress'
    BY <1>1 DEF PageInv, ViewFollowsAddress
<1>10. LoadIsAsked' /\ MoreIsAsked'
    BY <1>1, <1>4 DEF PageInv, LoadIsAsked, MoreIsAsked
<1>11. RepliesAreAsked'
    BY <1>1, <1>4 DEF PageInv, RepliesAreAsked
<1>12. OneEach' /\ (OrderFits => OrderFits')
    BY <1>1, ListGoesOn DEF PageInv
<1>13. PageOK(page', server'.parent)
    BY <1>1
<1> QED
    BY <1>5, <1>7, <1>8, <1>9, <1>10, <1>11, <1>12, <1>13 DEF PageInv

\* An answer that follows from the page before and leaves its list as it went.
LEMMA Drawing ==
    ASSUME PageInv, NEW r \in flight, NEW drawn, Draw(r, drawn),
           PageOK(drawn, server.parent), Follows(page, drawn, Top), SameList(page, drawn),
           r.kind \in {"branch", "replies"} => ~Loads(drawn, r.id),
           r.kind = "more" => drawn.more # "loading",
           r.kind \in FullLoads /\ r.gen = generation => drawn.phase # "loading"
    PROVE  PageInv' /\ (OrderFits => OrderFits')
<1>1. Settled(r) /\ page' = drawn /\ UNCHANGED <<server, address, hashPending, generation, sort, replyingTo, pending, app>>
    BY DEF Draw, reading
<1>2. /\ address' \in Nat /\ hashPending' \in BOOLEAN /\ replyingTo' \in Int /\ pending' \in Int
      /\ ~hashPending' => ~hashPending /\ address' = address
    BY <1>1 DEF PageInv, StateOK
<1>3. OneEach' /\ (OrderFits => OrderFits')
    BY <1>1, ListGoesOn DEF PageInv
<1>4. PageInv'
    BY <1>1, <1>2, <1>3, Answering
<1> QED
    BY <1>3, <1>4

\* What a request under way is known to be.
LEMMA RequestIs ==
    ASSUME PageInv, NEW r \in flight
    PROVE  /\ RequestOK(r, server.parent, generation, sort) /\ r.seen \in Servers /\ Earlier(r.seen, server.parent)
           /\ r.id \in Nat /\ r.gen \in Nat /\ generation \in Nat /\ r.gen <= generation /\ r.last \in Int /\ r.sort \in Sorts
           /\ r.kind \in Kinds /\ PageOK(page, server.parent)
           /\ DOMAIN server.parent \subseteq Comments
<1>1. RequestOK(r, server.parent, generation, sort)
    BY DEF PageInv, RequestsOK
<1>2. DOMAIN server.parent \subseteq Comments
    BY KnownOnes DEF PageInv, StateOK
<1> QED
    BY <1>1, <1>2 DEF PageInv, StateOK, RequestOK, Requests

\* What the reducer makes of each answer.
LEMMA Reduced ==
    ASSUME NEW pg, NEW r, NEW new, new = Reduce(pg, r) \/ new = MobileReduce(pg, r)
    PROVE  /\ r.kind = "list" => new = Listed(r.seen, r.sort)
           /\ r.kind = "rooted" => new = Rooted(r.seen, r.id, r.last)
           /\ r.kind = "branch" => new = WithBranch(pg, r.seen, r.id)
           /\ r.kind = "replies" => new = RepliesLoaded(pg, r.seen, r)
           /\ r.kind = "post" => new = Posted(pg, r.seen, r.made)
           /\ r.kind = "reply" => new = Replied(pg, r.seen, r.id, r.made)
           /\ r.kind = "remove" => new = Deleted(pg, r.id)
           /\ r.kind \in Modes \ {"none"} => new = Ignored(pg, r.kind)
           /\ r.kind = "none" => new = Unignored(pg)
<1>1. r.kind # "more" => new = Reduce(pg, r)
    BY DEF MobileReduce
<1>2. r.kind \in Modes => r.kind \in {"none", "soft", "gravestone", "subtree_removal"}
    BY DEF Modes
<1> QED
    BY <1>1, <1>2 DEF Reduce
LEMMA ReducedMore ==
    ASSUME NEW pg, NEW r, r.kind = "more"
    PROVE  Reduce(pg, r) = MoreLoaded(pg, r.seen, r) /\ MobileReduce(pg, r) = MobileMoreLoaded(pg, r.seen, r)
BY DEF Reduce, MobileReduce, Modes

\* The answer to a full load is drawn if no other was asked since: the list in the order chosen, or the
\* view rooted on the comment asked for.
LEMMA LoadIsDrawn ==
    ASSUME PageInv, NEW r \in flight, NEW new, new = Reduce(page, r) \/ new = MobileReduce(page, r), LoadArrives(r, new)
    PROVE  PageInv' /\ (OrderFits => OrderFits')
<1>0. r.kind \in FullLoads /\ Draw(r, IF r.gen = generation THEN new ELSE page)
    BY DEF LoadArrives, Held, FullLoads
<1>1. CASE r.gen # generation
    <2>1. Draw(r, page)
        BY <1>0, <1>1
    <2>2. PageOK(page, server.parent) /\ Follows(page, page, Top) /\ SameList(page, page)
        BY SamePage DEF PageInv
    <2> QED
        BY <1>0, <1>1, <2>1, <2>2, Drawing DEF FullLoads
<1>2. CASE r.gen = generation
    <2>0. /\ flight' = flight \ {r} /\ asked' = asked /\ page' = new
          /\ UNCHANGED <<server, address, hashPending, generation, sort, replyingTo, pending, app>>
        BY <1>0, <1>2 DEF Draw, Settled, reading
    <2>1. /\ PageOK(new, server.parent) /\ new.phase = "ready" /\ new.rooted = r.id /\ new.more # "loading"
          /\ \A k \in Comments : ~Loads(new, k)
          /\ IsList(new) => Distinct(new.items) /\ (new.cursor = End \/ new.cursor.order = sort)
        <3>1. CASE r.kind = "list"
            <4>1. new = Listed(r.seen, r.sort)
                BY <3>1, Reduced
            <4>2. r.id = Top /\ r.sort = sort
                BY <1>2, <3>1, RequestIs DEF RequestOK
            <4>3. /\ PageOK(Listed(r.seen, r.sort), server.parent) /\ Listed(r.seen, r.sort).phase = "ready"
                  /\ Listed(r.seen, r.sort).rooted = Top /\ Listed(r.seen, r.sort).more = "idle"
                  /\ Distinct(Listed(r.seen, r.sort).items)
                  /\ Listed(r.seen, r.sort).cursor = End \/ Listed(r.seen, r.sort).cursor.order = r.sort
                  /\ \A c \in Comments : ~Loads(Listed(r.seen, r.sort), c)
                BY RequestIs, ListedPage
            <4> QED
                BY <4>1, <4>2, <4>3
        <3>2. CASE r.kind = "rooted"
            <4>1. new = Rooted(r.seen, r.id, r.last)
                BY <3>2, Reduced
            <4>2. r.id \in Comments
                BY <3>2, RequestIs DEF RequestOK, Comments, Top
            <4>3. /\ PageOK(Rooted(r.seen, r.id, r.last), server.parent) /\ Rooted(r.seen, r.id, r.last).phase = "ready"
                  /\ Rooted(r.seen, r.id, r.last).rooted = r.id /\ Rooted(r.seen, r.id, r.last).more # "loading"
                  /\ \A k \in Comments : ~Loads(Rooted(r.seen, r.id, r.last), k)
                BY <4>2, RequestIs, RootedPage
            <4>4. ~IsList(new)
                BY <4>1, <4>2, <4>3 DEF IsList, Comments, Top
            <4> QED
                BY <4>1, <4>3, <4>4
        <3> QED
            BY <1>0, <3>1, <3>2 DEF FullLoads
    <2>2. StateOK' /\ RequestsOK' /\ AddressAsked'
        BY <2>0 DEF PageInv, StateOK, RequestsOK, AddressAsked
    <2>3. ViewFollowsAddress'
        BY <1>0, <1>2, <2>0, <2>1 DEF PageInv, AddressAsked, ViewFollowsAddress
    <2>4. LoadIsAsked' /\ MoreIsAsked' /\ RepliesAreAsked' /\ OneEach' /\ OrderFits'
        BY <2>0, <2>1 DEF LoadIsAsked, MoreIsAsked, RepliesAreAsked, OneEach, OrderFits
    <2> QED
        BY <2>0, <2>1, <2>2, <2>3, <2>4 DEF PageInv
<1> QED
    BY <1>1, <1>2

\* The page after the last is drawn at the end of the list; the browser leaves out what is shown.
LEMMA MoreIsDrawn ==
    ASSUME PageInv, NEW r \in flight, NEW new, MoreArrives(r, new),
           (app = "web" /\ new = Reduce(page, r)) \/ (app = "mobile" /\ new = MobileReduce(page, r))
    PROVE  PageInv' /\ (OrderFits /\ ~OrderFits' => r.gen < generation)
<1>1. /\ r.kind = "more" /\ Settled(r) /\ page' = new
      /\ UNCHANGED <<server, address, hashPending, generation, sort, replyingTo, pending, app>>
    BY DEF MoreArrives, Held, Draw, reading
<1>2. /\ r.seen \in Servers /\ Earlier(r.seen, server.parent) /\ r.sort \in Sorts /\ PageOK(page, server.parent)
      /\ r.gen \in Nat /\ generation \in Nat /\ r.gen <= generation
      /\ r.gen = generation => r.sort = sort
    BY <1>1, RequestIs DEF RequestOK
<1>3. PICK items \in Seq(Comments) :
          /\ items = Items(r.seen, Top, r.sort, r.last) /\ Distinct(items)
          /\ \A c \in Range(items) : c \in DOMAIN server.parent /\ server.parent[c] = Top
    BY <1>2, AnsweredItems
<1>4. PICK arriving \in Seq(Comments) :
          /\ new = Extended(page, r.seen, r, arriving)
          /\ Range(arriving) \subseteq Range(items)
          /\ app = "web" => Distinct(arriving) /\ Range(page.items) \intersect Range(arriving) = {}
    <2>1. CASE app = "web" /\ new = Reduce(page, r)
        <3>1. PICK left : left = Without(items, Range(page.items))
            OBVIOUS
        <3>2. /\ left \in Seq(Comments) /\ Range(left) \subseteq Range(items) \ Range(page.items)
              /\ Distinct(left)
            BY <1>3, <3>1, WithoutOnes
        <3>3. new = MoreLoaded(page, r.seen, r)
            BY <1>1, <2>1, ReducedMore
        <3>4. new = Extended(page, r.seen, r, left)
            BY <1>3, <3>1, <3>3 DEF MoreLoaded, WithoutSeen
        <3> QED
            BY <3>2, <3>4
    <2>2. CASE app = "mobile" /\ new = MobileReduce(page, r)
        <3>1. new = MobileMoreLoaded(page, r.seen, r)
            BY <1>1, <2>2, ReducedMore
        <3>2. new = Extended(page, r.seen, r, items)
            BY <1>3, <3>1 DEF MobileMoreLoaded
        <3> QED
            BY <2>2, <3>2
    <2> QED
        BY <2>1, <2>2
<1>5. \A c \in Range(arriving) : c \in DOMAIN server.parent /\ server.parent[c] = Top
    BY <1>3, <1>4
<1>6. /\ PageOK(new, server.parent) /\ Follows(page, new, Top) /\ new.more # "loading"
      /\ IsList(new) => /\ IsList(page) /\ new.items = page.items \o arriving
                        /\ new.cursor = End \/ new.cursor.order = r.sort
    <2>1. /\ PageOK(Extended(page, r.seen, r, arriving), server.parent) /\ Follows(page, Extended(page, r.seen, r, arriving), Top)
          /\ Extended(page, r.seen, r, arriving).more # "loading"
          /\ IsList(Extended(page, r.seen, r, arriving)) =>
                 /\ IsList(page) /\ Extended(page, r.seen, r, arriving).items = page.items \o arriving
                 /\ \/ Extended(page, r.seen, r, arriving).cursor = End
                    \/ Extended(page, r.seen, r, arriving).cursor.order = r.sort
        BY <1>2, <1>5, ExtendedPage
    <2> QED
        BY <1>4, <2>1
<1>7. app = "web" /\ IsList(new) => Distinct(new.items)
    <2> SUFFICES ASSUME app = "web", IsList(new) PROVE Distinct(new.items)
        OBVIOUS
    <2>1. PICK shown \in Seq(Comments) : shown = page.items
        BY <1>2, PageTypes DEF PageOK
    <2>2. Distinct(shown) /\ Distinct(arriving) /\ Range(shown) \intersect Range(arriving) = {}
        BY <1>4, <1>6, <2>1 DEF PageInv, OneEach
    <2>3. Distinct(shown \o arriving)
        BY <2>2, JoinedOnes
    <2> QED
        BY <1>6, <2>1, <2>3
<1>8. OneEach'
    BY <1>1, <1>7 DEF OneEach
<1>9. /\ address' \in Nat /\ hashPending' \in BOOLEAN /\ replyingTo' \in Int /\ pending' \in Int
      /\ ~hashPending' => ~hashPending /\ address' = address
    BY <1>1 DEF PageInv, StateOK
<1>10. PageInv'
    BY <1>1, <1>6, <1>8, <1>9, Answering DEF FullLoads
<1>11. r.gen = generation => OrderFits'
    BY <1>1, <1>2, <1>6 DEF OrderFits
<1>12. r.gen # generation => r.gen < generation
    BY <1>2
<1> QED
    BY <1>10, <1>11, <1>12

\* Replies read, and replies that are not there.
LEMMA RepliesAreDrawn ==
    ASSUME PageInv, NEW r \in flight, NEW new, new = Reduce(page, r) \/ new = MobileReduce(page, r),
           RepliesArrive(r, new) \/ VanishedOn(r)
    PROVE  PageInv' /\ (OrderFits => OrderFits')
<1>1. CASE RepliesArrive(r, new) /\ r.kind = "branch"
    <2>1. Draw(r, WithBranch(page, r.seen, r.id))
        BY <1>1, Reduced DEF RepliesArrive
    <2>2. /\ PageOK(WithBranch(page, r.seen, r.id), server.parent) /\ Follows(page, WithBranch(page, r.seen, r.id), Top)
          /\ SameList(page, WithBranch(page, r.seen, r.id)) /\ ~Loads(WithBranch(page, r.seen, r.id), r.id)
        BY RequestIs, BranchPage
    <2> QED
        BY <1>1, <2>1, <2>2, Drawing DEF FullLoads
<1>2. CASE RepliesArrive(r, new) /\ r.kind = "replies"
    <2>1. Draw(r, RepliesLoaded(page, r.seen, r))
        BY <1>2, Reduced DEF RepliesArrive
    <2>2. /\ PageOK(RepliesLoaded(page, r.seen, r), server.parent) /\ Follows(page, RepliesLoaded(page, r.seen, r), Top)
          /\ SameList(page, RepliesLoaded(page, r.seen, r)) /\ ~Loads(RepliesLoaded(page, r.seen, r), r.id)
        BY RequestIs, RepliesPage
    <2> QED
        BY <1>2, <2>1, <2>2, Drawing DEF FullLoads
<1>3. CASE VanishedOn(r)
    <2>1. PICK byBlock \in BOOLEAN : byBlock = (r.status = "hidden")
        OBVIOUS
    <2>2. Draw(r, Vanished(page, r.id, byBlock)) /\ r.kind \in {"branch", "replies", "report"}
        BY <1>3, <2>1 DEF VanishedOn
    <2>3. /\ PageOK(Vanished(page, r.id, byBlock), server.parent) /\ Follows(page, Vanished(page, r.id, byBlock), Top)
          /\ SameList(page, Vanished(page, r.id, byBlock)) /\ ~Loads(Vanished(page, r.id, byBlock), r.id)
        BY VanishedPage DEF PageInv
    <2> QED
        BY <2>2, <2>3, Drawing DEF FullLoads
<1>4. RepliesArrive(r, new) => r.kind = "branch" \/ r.kind = "replies"
    BY DEF RepliesArrive, Held
<1> QED
    BY <1>1, <1>2, <1>3, <1>4

\* What the reader wrote, drawn.
LEMMA WritingIsDrawn ==
    ASSUME PageInv, NEW r \in flight, NEW new, new = Reduce(page, r) \/ new = MobileReduce(page, r),
           PostArrives(r, new) \/ ReplyArrives(r, new)
    PROVE  PageInv' /\ (OrderFits => OrderFits')
<1>1. r.status = "done" /\ r.kind \in Writes
    BY DEF PostArrives, ReplyArrives, Held, Writes
<1>2. /\ r.made \in DOMAIN server.parent /\ server.parent[r.made] = r.id /\ r.made \in Comments
      /\ r.kind = "post" => r.id = Top
    BY <1>1, RequestIs DEF RequestOK
<1>3. CASE PostArrives(r, new)
    <2>1. r.kind = "post"
        BY <1>3 DEF PostArrives, Held
    <2>2. Draw(r, Posted(page, r.seen, r.made))
        BY <1>3, <2>1, Reduced DEF PostArrives
    <2>3. /\ PageOK(Posted(page, r.seen, r.made), server.parent) /\ Follows(page, Posted(page, r.seen, r.made), Top)
          /\ SameList(page, Posted(page, r.seen, r.made))
        BY <1>2, <2>1, RequestIs, PostedPage
    <2> QED
        BY <2>1, <2>2, <2>3, Drawing DEF FullLoads
<1>4. CASE ReplyArrives(r, new) /\ r.kind = "reply"
    <2>1. /\ Settled(r) /\ page' = new /\ UNCHANGED <<pending, address, hashPending, app, server, generation, sort>>
          /\ replyingTo' = None
        BY <1>4 DEF ReplyArrives
    <2>2. new = Replied(page, r.seen, r.id, r.made)
        BY <1>4, Reduced
    <2>3. PageOK(new, server.parent) /\ Follows(page, new, Top) /\ SameList(page, new)
        BY <1>2, <2>2, RequestIs, RepliedPage
    <2>4. OneEach' /\ (OrderFits => OrderFits')
        BY <2>1, <2>3, ListGoesOn DEF PageInv
    <2>5. /\ address' \in Nat /\ hashPending' \in BOOLEAN /\ replyingTo' \in Int /\ pending' \in Int
          /\ ~hashPending' => ~hashPending /\ address' = address
        BY <2>1 DEF PageInv, StateOK, None
    <2>6. PageInv'
        BY <1>4, <2>1, <2>3, <2>4, <2>5, Answering DEF FullLoads
    <2> QED
        BY <2>4, <2>6
<1>5. CASE ReplyArrives(r, new) /\ r.kind # "reply"
    <2>1. /\ Settled(r) /\ page' = page /\ UNCHANGED <<app, server, generation, sort>> /\ replyingTo' = None
          /\ pending' = r.made /\ address' = r.id /\ hashPending' = (hashPending \/ address # r.id)
        BY <1>5 DEF ReplyArrives
    <2>2. r.kind = "deepReply"
        BY <1>5 DEF ReplyArrives, Held
    <2>3. PageOK(page, server.parent) /\ Follows(page, page, Top) /\ SameList(page, page)
        BY SamePage DEF PageInv
    <2>4. OneEach' /\ (OrderFits => OrderFits')
        BY <2>1, <2>3, ListGoesOn DEF PageInv
    <2>5. address' \in Nat /\ replyingTo' \in Int /\ pending' \in Int
        BY <1>2, <2>1, RequestIs DEF None, Comments
    <2>6. hashPending' \in BOOLEAN /\ (~hashPending' => ~hashPending /\ address' = address)
        BY <2>1 DEF PageInv, StateOK
    <2>7. PageInv'
        BY <2>1, <2>2, <2>3, <2>4, <2>5, <2>6, Answering DEF FullLoads
    <2> QED
        BY <2>4, <2>7
<1> QED
    BY <1>3, <1>4, <1>5

\* What the reader took away, covered or showed again, drawn.
LEMMA ChangeIsDrawn ==
    ASSUME PageInv, NEW r \in flight, NEW new, new = Reduce(page, r) \/ new = MobileReduce(page, r),
           RemoveArrives(r, new) \/ IgnoreArrives(r, new) \/ ReportArrives(r)
    PROVE  PageInv' /\ (OrderFits => OrderFits')
<1>1. CASE RemoveArrives(r, new)
    <2>1. /\ r.kind = "remove" /\ Settled(r) /\ page' = new
          /\ UNCHANGED <<app, server, address, hashPending, generation, sort, pending>>
          /\ replyingTo' = None \/ replyingTo' = replyingTo
        BY <1>1 DEF RemoveArrives
    <2>2. new = Deleted(page, r.id)
        BY <2>1, Reduced
    <2>3. PageOK(new, server.parent) /\ Follows(page, new, Top) /\ SameList(page, new)
        BY <2>2, DeletedPage DEF PageInv
    <2>4. OneEach' /\ (OrderFits => OrderFits')
        BY <2>1, <2>3, ListGoesOn DEF PageInv
    <2>5. /\ address' \in Nat /\ hashPending' \in BOOLEAN /\ replyingTo' \in Int /\ pending' \in Int
          /\ ~hashPending' => ~hashPending /\ address' = address
        BY <2>1 DEF PageInv, StateOK, None
    <2>6. PageInv'
        BY <2>1, <2>3, <2>4, <2>5, Answering DEF FullLoads
    <2> QED
        BY <2>4, <2>6
<1>2. CASE IgnoreArrives(r, new) /\ r.kind # "none"
    <2>1. r.kind \in Modes \ {"none"} /\ Draw(r, new)
        BY <1>2 DEF IgnoreArrives, Held
    <2>2. new = Ignored(page, r.kind)
        BY <2>1, Reduced
    <2>3. PageOK(new, server.parent) /\ Follows(page, new, Top) /\ SameList(page, new)
        BY <2>2, IgnoredPage DEF PageInv
    <2> QED
        BY <2>1, <2>3, Drawing DEF FullLoads, Modes
<1>3. CASE IgnoreArrives(r, new) /\ r.kind = "none"
    <2>1. Draw(r, new)
        BY <1>3 DEF IgnoreArrives
    <2>2. new = Unignored(page)
        BY <1>3, Reduced
    <2>3. PageOK(new, server.parent) /\ Follows(page, new, Top) /\ SameList(page, new)
        BY <2>2, UnignoredPage DEF PageInv
    <2> QED
        BY <1>3, <2>1, <2>3, Drawing DEF FullLoads
<1>4. CASE ReportArrives(r)
    <2>1. r.kind = "report" /\ Draw(r, page)
        BY <1>4 DEF ReportArrives, Held
    <2>2. PageOK(page, server.parent) /\ Follows(page, page, Top) /\ SameList(page, page)
        BY SamePage DEF PageInv
    <2> QED
        BY <2>1, <2>2, Drawing DEF FullLoads
<1> QED
    BY <1>1, <1>2, <1>3, <1>4

\* What does not come: the comment the view was to be rooted on is not there, or the request fails.
LEMMA FailureIsDrawn ==
    ASSUME PageInv, NEW r \in flight, NotThere(r) \/ Fails(r)
    PROVE  PageInv' /\ (OrderFits => OrderFits')
<1>0. PageOK(page, server.parent) /\ Follows(page, page, Top) /\ SameList(page, page)
    BY SamePage DEF PageInv
<1>1. ASSUME NEW phase \in Phases \ {"ready", "loading"}, r.kind \in FullLoads,
             Draw(r, IF r.gen = generation THEN Bare(phase) ELSE page)
      PROVE  PageInv' /\ (OrderFits => OrderFits')
    <2>1. CASE r.gen = generation
        <3>1. Draw(r, Bare(phase))
            BY <1>1, <2>1
        <3>2. /\ PageOK(Bare(phase), server.parent) /\ Follows(page, Bare(phase), Top) /\ SameList(page, Bare(phase))
              /\ Bare(phase).phase # "loading"
            BY BareFollows, BarePages
        <3> QED
            BY <1>1, <3>1, <3>2, Drawing DEF FullLoads
    <2>2. CASE r.gen # generation
        <3>1. Draw(r, page)
            BY <1>1, <2>2
        <3> QED
            BY <1>0, <1>1, <2>2, <3>1, Drawing DEF FullLoads
    <2> QED
        BY <2>1, <2>2
<1>2. CASE NotThere(r)
    <2>1. PICK phase \in Phases \ {"ready", "loading"} : phase = r.status
        BY <1>2 DEF NotThere, Phases
    <2>2. r.kind \in FullLoads /\ Draw(r, IF r.gen = generation THEN Bare(phase) ELSE page)
        BY <1>2, <2>1 DEF NotThere, FullLoads
    <2> QED
        BY <1>1, <2>2
<1>3. CASE Fails(r) /\ r.kind \in FullLoads
    <2>1. PICK phase \in Phases \ {"ready", "loading"} : phase = "failed"
        BY DEF Phases
    <2>2. Draw(r, IF r.gen = generation THEN Bare(phase) ELSE page)
        BY <1>3, <2>1 DEF Fails, FullLoads
    <2> QED
        BY <1>1, <1>3, <2>2
<1>4. CASE Fails(r) /\ r.kind = "more"
    <2>1. Draw(r, MoreIs(page, "failed"))
        BY <1>4 DEF Fails
    <2>2. /\ PageOK(MoreIs(page, "failed"), server.parent) /\ Follows(page, MoreIs(page, "failed"), Top)
          /\ SameList(page, MoreIs(page, "failed")) /\ MoreIs(page, "failed").more # "loading"
        BY <1>0, MorePage
    <2> QED
        BY <1>4, <2>1, <2>2, Drawing DEF FullLoads
<1>5. CASE Fails(r) /\ r.kind \in {"branch", "replies"}
    <2>1. Draw(r, RepliesFailed(page, r.id))
        BY <1>5 DEF Fails
    <2>2. /\ PageOK(RepliesFailed(page, r.id), server.parent) /\ Follows(page, RepliesFailed(page, r.id), Top)
          /\ SameList(page, RepliesFailed(page, r.id)) /\ ~Loads(RepliesFailed(page, r.id), r.id)
        BY <1>0, RepliesAsked
    <2> QED
        BY <1>5, <2>1, <2>2, Drawing DEF FullLoads
<1>6. CASE Fails(r) /\ r.kind \notin FullLoads \union {"more", "branch", "replies"}
    <2>1. Draw(r, page)
        BY <1>6 DEF Fails, FullLoads
    <2> QED
        BY <1>0, <1>6, <2>1, Drawing DEF FullLoads
<1> QED
    BY <1>2, <1>3, <1>4, <1>5, <1>6

\* The ignore lifted from a hidden view: the address is loaded anew.
LEMMA LiftIsLoaded ==
    ASSUME PageInv, NEW r \in flight, LiftArrives(r)
    PROVE  PageInv' /\ OrderFits'
<1>1. /\ UNCHANGED <<app, server, address, hashPending>> /\ replyingTo' = None /\ sort' = sort
      /\ IF address = Top THEN LoadList(flight \ {r}) ELSE LoadRooted(flight \ {r}, address)
    BY DEF LiftArrives, LoadBeside
<1>2. PICK others \in SUBSET flight : others = flight \ {r}
    OBVIOUS
<1>3. /\ address \in Nat /\ sort' \in Sorts /\ address' \in Nat /\ hashPending' \in BOOLEAN /\ replyingTo' \in Int
      /\ IF address = Top THEN LoadList(others) ELSE LoadRooted(others, address)
    BY <1>1, <1>2 DEF PageInv, StateOK, None
<1> QED
    BY <1>1, <1>3, Loading

\* Whatever answer comes, to either client: only a page asked before the last full load changes the order.
LEMMA AnswersKeep ==
    ASSUME PageInv, NEW r \in flight, NEW new, Arrives(r, new),
           (app = "web" /\ new = Reduce(page, r)) \/ (app = "mobile" /\ new = MobileReduce(page, r))
    PROVE  /\ PageInv'
           /\ OrderFits /\ ~OrderFits' => \E q \in flight \ flight' : q.kind = "more" /\ q.gen < generation
<1>1. CASE MoreArrives(r, new)
    <2>1. PageInv' /\ (OrderFits /\ ~OrderFits' => r.gen < generation)
        BY <1>1, MoreIsDrawn
    <2>2. r.kind = "more" /\ r \in flight \ flight'
        BY <1>1 DEF MoreArrives, Held, Draw, Settled
    <2> QED
        BY <2>1, <2>2
<1>2. CASE ~MoreArrives(r, new)
    <2>1. PageInv' /\ (OrderFits => OrderFits')
        BY <1>2, LoadIsDrawn, RepliesAreDrawn, WritingIsDrawn, ChangeIsDrawn, FailureIsDrawn, LiftIsLoaded DEF Arrives
    <2> QED
        BY <2>1
<1> QED
    BY <1>1, <1>2

\* The steps that load anew.
LEMMA LoadsKeep ==
    ASSUME PageInv,
           Open \/ HashChange \/ BackToAll \/ MobileBackToAll \/ \E order \in Sorts : SetSort(order)
    PROVE  PageInv' /\ OrderFits'
<1>0. address \in Nat /\ hashPending \in BOOLEAN /\ sort \in Sorts /\ replyingTo \in Int /\ None \in Int /\ Top \in Nat
    BY DEF PageInv, StateOK, None, Top
<1>1. PICK others \in SUBSET flight : others = flight
    OBVIOUS
<1>2. ASSUME NEW c \in Nat, Load(c), UNCHANGED <<app, server>>, address' \in Nat, hashPending' \in BOOLEAN,
             ~hashPending' => c = address'
      PROVE  PageInv' /\ OrderFits'
    <2>1. replyingTo' = None /\ sort' = sort /\ IF c = Top THEN LoadList(others) ELSE LoadRooted(others, c)
        BY <1>1, <1>2 DEF Load, LoadBeside
    <2>2. sort' \in Sorts /\ replyingTo' \in Int
        BY <1>0, <2>1
    <2> QED
        BY <1>2, <2>1, <2>2, Loading
<1>3. CASE Open \/ HashChange
    <2>1. Load(address) /\ UNCHANGED <<app, server, address>> /\ (hashPending' = hashPending \/ hashPending' = FALSE)
        BY <1>3 DEF Open, HashChange
    <2>2. hashPending' \in BOOLEAN
        BY <1>0, <2>1
    <2> QED
        BY <1>0, <1>2, <2>1, <2>2
<1>4. CASE BackToAll
    <2>1. Load(Top) /\ UNCHANGED <<app, server, hashPending>> /\ address' = Top
        BY <1>4 DEF BackToAll
    <2> QED
        BY <1>0, <1>2, <2>1
<1>5. CASE MobileBackToAll
    <2>1. Load(address) /\ UNCHANGED <<app, server>> /\ address' = Top /\ hashPending' = (hashPending \/ address # Top)
        BY <1>5 DEF MobileBackToAll
    <2>2. hashPending' \in BOOLEAN /\ (~hashPending' => address = address') /\ address' \in Nat
        BY <1>0, <2>1
    <2> QED
        BY <1>0, <1>2, <2>1, <2>2
<1>6. ASSUME NEW order \in Sorts, SetSort(order) PROVE PageInv' /\ OrderFits'
    <2>1. /\ IsList(page) /\ sort' = order /\ UNCHANGED <<app, server, address, hashPending, replyingTo>> /\ LoadList(others)
        BY <1>1, <1>6 DEF SetSort, OffersSort
    <2>2. ~hashPending => address = Top
        BY <2>1 DEF PageInv, ViewFollowsAddress, IsList
    <2>3. PICK c \in Nat : c = Top
        BY <1>0
    <2>4. IF c = Top THEN LoadList(others) ELSE LoadRooted(others, c)
        BY <2>1, <2>3
    <2>5. sort' \in Sorts /\ address' \in Nat /\ hashPending' \in BOOLEAN /\ replyingTo' \in Int /\ (~hashPending' => c = address')
        BY <1>0, <2>1, <2>2, <2>3
    <2> QED
        BY <2>1, <2>4, <2>5, Loading
<1> QED
    BY <1>3, <1>4, <1>5, <1>6

\* The steps that ask for the rest of what is shown, or write.
LEMMA AsksKeep ==
    ASSUME PageInv, NEW c \in Comments, LoadMore \/ ShowReplies(c) \/ MoreReplies(c) \/ Post \/ Written(c) \/ Lift
    PROVE  PageInv' /\ (OrderFits => OrderFits')
<1>0. /\ PageOK(page, server.parent) /\ page.cursor \in Cursors /\ None \in Int /\ Top \in Nat
      /\ c \in Nat /\ c \in Comments
    <2>1. page \in Pages
        BY DEF PageInv, PageOK
    <2> QED
        BY <2>1, PageTypes DEF PageInv, None, Top, Comments
<1>1. ASSUME NEW kind \in Kinds \ (FullLoads \union {"more", "branch", "replies"}), NEW id \in {c, Top}, kind = "post" => id = Top,
             Ask(kind, id, None), UNCHANGED <<page, reading>>
      PROVE  PageInv' /\ (OrderFits => OrderFits')
    <2>1. page' = page /\ UNCHANGED reading /\ kind \in Kinds \ FullLoads /\ id \in Nat
        BY <1>0, <1>1
    <2>2. PageOK(page', server.parent) /\ SameList(page, page')
        BY <1>0, <2>1, SamePage
    <2> QED
        BY <1>0, <1>1, <2>1, <2>2, AskingMore
<1>2. CASE LoadMore
    <2>1. page' = MoreIs(page, "loading") /\ UNCHANGED reading /\ Ask("more", Top, page.cursor.last)
        BY <1>2 DEF LoadMore
    <2>2. /\ PageOK(page', server.parent) /\ SameList(page, page') /\ page'.phase = page.phase /\ page'.rooted = page.rooted
          /\ \A k \in Comments : Loads(page', k) => Loads(page, k)
        BY <1>0, <2>1, MorePage
    <2>3. PICK kind \in Kinds \ FullLoads, last \in Int : kind = "more" /\ last = page.cursor.last
        BY <1>0 DEF Kinds, FullLoads, Cursors
    <2>4. Ask(kind, Top, last)
        BY <2>1, <2>3
    <2> QED
        BY <1>0, <2>1, <2>2, <2>3, <2>4, AskingMore
<1>3. ASSUME NEW kind \in {"branch", "replies"}, NEW last \in Int, Ask(kind, c, last), UNCHANGED reading,
             page' = RepliesLoading(page, c)
      PROVE  PageInv' /\ (OrderFits => OrderFits')
    <2>1. PageOK(page', server.parent) /\ Follows(page, page', c) /\ SameList(page, page')
        BY <1>0, <1>3, RepliesAsked
    <2>2. kind \in Kinds \ FullLoads /\ kind # "post"
        BY DEF Kinds, FullLoads
    <2>3. /\ page'.phase = "ready" => page.phase = "ready" /\ page'.rooted = page.rooted
          /\ page'.phase = "loading" => page.phase = "loading"
          /\ page'.more = "loading" => page.more = "loading"
          /\ \A k \in Comments : Loads(page', k) => Loads(page, k) \/ k = c
        BY <2>1 DEF Follows
    <2> QED
        BY <1>0, <1>3, <2>1, <2>2, <2>3, AskingMore
<1>4. CASE ShowReplies(c)
    BY <1>0, <1>3, <1>4 DEF ShowReplies
<1>5. CASE MoreReplies(c)
    <2>1. page' = RepliesLoading(page, c) /\ UNCHANGED reading /\ Ask("replies", c, page.node[c].cursor.last)
          /\ page.phase = "ready" /\ c \in Range(page.items)
        BY <1>5 DEF MoreReplies, OffersMoreReplies
    <2>2. c \in Drawn(page)
        BY <2>1, DrawnOnes
    <2>3. page.node[c] \in Nodes
        BY <1>0, <2>2, DrawnHaveNodes
    <2>4. PICK last \in Int : last = page.node[c].cursor.last
        BY <2>3 DEF Nodes, Cursors
    <2> QED
        BY <1>3, <2>1, <2>4
<1>6. CASE Post
    <2>1. "post" \in Kinds \ (FullLoads \union {"more", "branch", "replies"})
        BY DEF Kinds, FullLoads, Writes
    <2> QED
        BY <1>1, <1>6, <2>1 DEF Post
<1>7. CASE Lift
    <2>1. "lift" \in Kinds \ (FullLoads \union {"more", "branch", "replies"})
        BY DEF Kinds, FullLoads
    <2> QED
        BY <1>1, <1>7, <2>1 DEF Lift
<1>8. CASE Written(c)
    <2>1. {"reply", "deepReply", "remove", "report"} \union Modes \subseteq Kinds \ (FullLoads \union {"more", "branch", "replies", "post"})
        BY DEF Kinds, FullLoads, Modes, Writes
    <2>2. PICK kind \in {"reply", "deepReply", "remove", "report"} \union Modes :
              Ask(kind, c, None) /\ UNCHANGED <<page, reading>>
        <3>1. CASE Reply(c)
            BY <3>1 DEF Reply
        <3>2. CASE DeleteOwn(c)
            BY <3>2 DEF DeleteOwn
        <3>3. CASE Report(c)
            BY <3>3 DEF Report
        <3>4. CASE Unignore(c)
            BY <3>4 DEF Unignore, Modes
        <3>5. CASE \E mode \in Modes \ {"none"} : Ignore(c, mode)
            BY <3>5 DEF Ignore
        <3> QED
            BY <1>8, <3>1, <3>2, <3>3, <3>4, <3>5 DEF Written
    <2> QED
        BY <1>1, <2>1, <2>2
<1> QED
    BY <1>2, <1>4, <1>5, <1>6, <1>7, <1>8

\* A comment more leaves what is known of the page and of the requests as it was.
GrownBy(par, par2) == \A k \in DOMAIN par : k \in DOMAIN par2 /\ par2[k] = par[k]
LEMMA GrowthKeeps ==
    ASSUME NEW par, NEW par2, GrownBy(par, par2)
    PROVE  /\ \A pg : PageOK(pg, par) => PageOK(pg, par2)
           /\ \A s : Earlier(s, par) => Earlier(s, par2)
           /\ \A r, gen, order : RequestOK(r, par, gen, order) => RequestOK(r, par2, gen, order)
<1>1. ASSUME NEW pg, PageOK(pg, par) PROVE PageOK(pg, par2)
    BY <1>1 DEF GrownBy, PageOK, RepliesHang, ItemsHang
<1>2. ASSUME NEW s, Earlier(s, par) PROVE Earlier(s, par2)
    BY <1>2 DEF GrownBy, Earlier
<1>3. ASSUME NEW r, NEW gen, NEW order, RequestOK(r, par, gen, order) PROVE RequestOK(r, par2, gen, order)
    <2>1. Earlier(r.seen, par2)
        BY <1>2, <1>3 DEF RequestOK
    <2>2. r.kind \in Writes /\ r.status = "done" => r.made \in DOMAIN par2 /\ par2[r.made] = r.id
        BY <1>3 DEF RequestOK, GrownBy
    <2> QED
        BY <1>3, <2>1, <2>2 DEF RequestOK
<1> QED
    BY <1>1, <1>2, <1>3

\* A request served: what it asked for is read or written there and then.
LEMMA ServesKeep ==
    ASSUME PageInv, NEW r \in flight, Serve(r)
    PROVE  PageInv' /\ (OrderFits => OrderFits')
<1>1. /\ server \in Servers /\ server.parent \in Seq(Nat) /\ Len(server.parent) \in Nat
      /\ DOMAIN server.parent = 1..Len(server.parent) /\ server.down \in SUBSET Nat /\ server.mode \in Modes
    BY KnownOnes DEF PageInv, StateOK, Servers
<1>2. r \in Requests /\ r.id \in Nat /\ r.kind \in Kinds /\ RequestOK(r, server.parent, generation, sort)
    BY RequestIs DEF RequestOK
<1>3. PICK status \in Statuses : status = AnswerTo(r)
    BY DEF AnswerTo, Statuses
<1>4. PICK written \in BOOLEAN : written = (status = "done" /\ r.kind \in Writes)
    OBVIOUS
<1>5. PICK parent : parent = IF written THEN Append(server.parent, r.id) ELSE server.parent
    OBVIOUS
<1>6. PICK down : down = IF status = "done" /\ r.kind = "remove" THEN server.down \union {r.id} ELSE server.down
    OBVIOUS
<1>7. PICK mode : mode = IF r.kind \in Modes THEN r.kind ELSE IF r.kind = "lift" THEN "none" ELSE server.mode
    OBVIOUS
<1>8. PICK after : after = [server EXCEPT !.parent = parent, !.down = down, !.mode = mode]
    OBVIOUS
<1>9. PICK seen : seen = IF status = "done" THEN after ELSE r.seen
    OBVIOUS
<1>10. PICK made : made = IF written THEN Len(parent) ELSE None
    OBVIOUS
<1>11. PICK q : q = [r EXCEPT !.status = status, !.seen = seen, !.made = made]
    OBVIOUS
<1>12. /\ parent \in Seq(Nat) /\ GrownBy(server.parent, parent)
       /\ written => Len(parent) \in DOMAIN parent /\ parent[Len(parent)] = r.id
       /\ Len(parent) \in Nat
    BY <1>1, <1>2, <1>5 DEF GrownBy
<1>13. after \in Servers /\ after.parent = parent
    <2>1. down \in SUBSET Nat /\ mode \in Modes
        BY <1>1, <1>2, <1>6, <1>7 DEF Modes
    <2> QED
        BY <1>1, <1>8, <1>12, <2>1 DEF Servers
<1>14. server' = after /\ flight' = (flight \ {r}) \union {q}
    BY <1>3, <1>4, <1>5, <1>6, <1>7, <1>8, <1>9, <1>10, <1>11, <1>13 DEF Serve, Writes
<1>15. UNCHANGED <<app, page, address, hashPending, generation, sort, replyingTo, pending, asked>>
    BY DEF Serve
<1>16. seen \in Servers /\ Earlier(seen, parent)
    <2>1. Earlier(after, parent)
        BY <1>13 DEF Earlier
    <2>2. r.seen \in Servers /\ Earlier(r.seen, parent)
        BY <1>12, RequestIs, GrowthKeeps
    <2> QED
        BY <1>9, <1>13, <2>1, <2>2
<1>17. /\ q \in Requests /\ q.kind = r.kind /\ q.id = r.id /\ q.gen = r.gen /\ q.sort = r.sort /\ q.status = status
       /\ q.seen = seen /\ q.made = made
    <2>1. made \in Int
        BY <1>10, <1>12 DEF None
    <2> QED
        BY <1>2, <1>11, <1>16, <2>1 DEF Requests
<1>18. RequestOK(q, parent, generation, sort)
    <2>1. q.kind \in Writes /\ q.status = "done" => q.made \in DOMAIN parent /\ parent[q.made] = q.id
        BY <1>4, <1>10, <1>12, <1>17
    <2> QED
        BY <1>2, <1>16, <1>17, <2>1 DEF RequestOK
<1>19. RequestsOK'
    <2>1. \A p \in flight : RequestOK(p, parent, generation, sort)
        BY <1>12, GrowthKeeps DEF PageInv, RequestsOK
    <2> QED
        BY <1>13, <1>14, <1>15, <1>18, <2>1 DEF RequestsOK
<1>20. StateOK'
    BY <1>12, <1>13, <1>14, <1>15, GrowthKeeps DEF PageInv, StateOK
<1>21. PageOK(page', server'.parent)
    BY <1>12, <1>13, <1>14, <1>15, GrowthKeeps DEF PageInv
<1>22. AddressAsked' /\ ViewFollowsAddress' /\ LoadIsAsked' /\ MoreIsAsked'
    BY <1>14, <1>15, <1>17 DEF PageInv, AddressAsked, ViewFollowsAddress, LoadIsAsked, MoreIsAsked
<1>23. RepliesAreAsked'
    BY <1>14, <1>15, <1>17 DEF PageInv, RepliesAreAsked
<1>24. OneEach' /\ (OrderFits => OrderFits')
    BY <1>15 DEF PageInv, OneEach, OrderFits
<1> QED
    BY <1>19, <1>20, <1>21, <1>22, <1>23, <1>24 DEF PageInv

\* A comment taken down by others: the page learns it with its next answer.
LEMMA TakingDownKeeps ==
    ASSUME PageInv, NEW c \in Ids, TakenDown(c)
    PROVE  PageInv' /\ (OrderFits => OrderFits')
<1>1. UNCHANGED <<app, page, address, hashPending, generation, sort, replyingTo, pending, flight, asked>>
    BY DEF TakenDown
<1>2. server' \in Servers /\ server'.parent = server.parent
    <2>1. server' = [server EXCEPT !.down = @ \union {c}] /\ c \in Nat /\ server \in Servers
        BY BoundsAssumption DEF TakenDown, Ids, PageInv, StateOK
    <2>2. PICK down : down = server.down \union {c}
        OBVIOUS
    <2>3. down \in SUBSET Nat
        BY <2>1, <2>2 DEF Servers
    <2>4. server' = [server EXCEPT !.down = down]
        BY <2>1, <2>2
    <2> QED
        BY <2>1, <2>3, <2>4 DEF Servers
<1>3. StateOK' /\ PageOK(page', server'.parent) /\ RequestsOK'
    BY <1>1, <1>2 DEF PageInv, StateOK, RequestsOK
<1>4. AddressAsked' /\ ViewFollowsAddress' /\ LoadIsAsked' /\ MoreIsAsked' /\ RepliesAreAsked'
    BY <1>1 DEF PageInv, AddressAsked, ViewFollowsAddress, LoadIsAsked, MoreIsAsked, RepliesAreAsked
<1>5. OneEach' /\ (OrderFits => OrderFits')
    BY <1>1 DEF PageInv, OneEach, OrderFits
<1> QED
    BY <1>3, <1>4, <1>5 DEF PageInv

\* What the reader does without a request.
LEMMA LooksKeep ==
    ASSUME PageInv, NEW c \in Ids, Reroot(c) \/ RevealOne(c) \/ OpenReply(c)
    PROVE  PageInv' /\ (OrderFits => OrderFits')
<1>0. c \in Nat /\ c \in Int
    BY BoundsAssumption DEF Ids
<1>1. CASE Reroot(c)
    <2>1. /\ address' = c /\ hashPending' = TRUE
          /\ UNCHANGED <<app, server, page, generation, sort, replyingTo, pending, flight, asked>>
        BY <1>1 DEF Reroot
    <2>2. StateOK' /\ PageOK(page', server'.parent) /\ RequestsOK'
        <3>1. hashPending' \in BOOLEAN
            BY <2>1
        <3> QED
            BY <1>0, <2>1, <3>1 DEF PageInv, StateOK, RequestsOK
    <2>3. AddressAsked' /\ ViewFollowsAddress' /\ LoadIsAsked' /\ MoreIsAsked' /\ RepliesAreAsked'
        BY <2>1 DEF PageInv, AddressAsked, ViewFollowsAddress, LoadIsAsked, MoreIsAsked, RepliesAreAsked
    <2>4. OneEach' /\ (OrderFits => OrderFits')
        BY <2>1 DEF PageInv, OneEach, OrderFits
    <2> QED
        BY <2>2, <2>3, <2>4 DEF PageInv
<1>2. CASE OpenReply(c)
    <2>1. replyingTo' = c /\ UNCHANGED <<app, server, page, address, hashPending, generation, sort, pending, flight, asked>>
        BY <1>2 DEF OpenReply
    <2>2. StateOK' /\ PageOK(page', server'.parent) /\ RequestsOK'
        BY <1>0, <2>1 DEF PageInv, StateOK, RequestsOK
    <2>3. AddressAsked' /\ ViewFollowsAddress' /\ LoadIsAsked' /\ MoreIsAsked' /\ RepliesAreAsked'
        BY <2>1 DEF PageInv, AddressAsked, ViewFollowsAddress, LoadIsAsked, MoreIsAsked, RepliesAreAsked
    <2>4. OneEach' /\ (OrderFits => OrderFits')
        BY <2>1 DEF PageInv, OneEach, OrderFits
    <2> QED
        BY <2>2, <2>3, <2>4 DEF PageInv
<1>3. CASE RevealOne(c)
    <2>1. /\ page' = Reveal(page, c)
          /\ UNCHANGED <<server, address, hashPending, generation, sort, replyingTo, pending, app, flight, asked>>
        BY <1>3 DEF RevealOne, reading
    <2>2. PageOK(page', server.parent) /\ Follows(page, page', Top) /\ SameList(page, page')
        BY <2>1, RevealedPage DEF PageInv
    <2>3. StateOK' /\ PageOK(page', server'.parent) /\ RequestsOK'
        BY <2>1, <2>2 DEF PageInv, StateOK, RequestsOK
    <2>4. AddressAsked' /\ ViewFollowsAddress' /\ LoadIsAsked' /\ MoreIsAsked'
        BY <2>1, <2>2 DEF PageInv, AddressAsked, ViewFollowsAddress, LoadIsAsked, MoreIsAsked, Follows
    <2>5. RepliesAreAsked'
        BY <2>1, <2>2 DEF PageInv, RepliesAreAsked, Follows, Comments, Top
    <2>6. OneEach' /\ (OrderFits => OrderFits')
        BY <2>1, <2>2, ListGoesOn DEF PageInv
    <2> QED
        BY <2>3, <2>4, <2>5, <2>6 DEF PageInv
<1> QED
    BY <1>1, <1>2, <1>3

----------------------------------------------------------------------------
(* The machine.                                                               *)

\* Every step of either client keeps the invariant, and only the answer to a page asked before the last
\* full load takes the order of the list away.
LEMMA StepsKeep ==
    ASSUME PageInv, PageNext
    PROVE  /\ PageInv'
           /\ OrderFits /\ ~OrderFits' => \E r \in flight \ flight' : r.kind = "more" /\ r.gen < generation
<1> DEFINE Good == /\ PageInv'
                   /\ OrderFits /\ ~OrderFits' =>
                          \E r \in flight \ flight' : r.kind = "more" /\ r.gen < generation
<1>1. CASE Open \/ HashChange \/ BackToAll \/ MobileBackToAll \/ \E order \in Sorts : SetSort(order)
    <2>1. PageInv' /\ OrderFits'
        BY <1>1, LoadsKeep
    <2> QED
        BY <2>1
<1>2. ASSUME NEW c \in Ids, Browsed(c) \/ Written(c) \/ TakenDown(c)
      PROVE  Good
    <2>0. c \in Comments
        BY BoundsAssumption DEF Ids, Comments
    <2>1. PageInv' /\ (OrderFits => OrderFits')
        BY <1>2, <2>0, AsksKeep, LooksKeep, TakingDownKeeps DEF Browsed
    <2> QED
        BY <2>1
<1>3. ASSUME NEW r \in flight, Serve(r)
      PROVE  Good
    <2>1. PageInv' /\ (OrderFits => OrderFits')
        BY <1>3, ServesKeep
    <2> QED
        BY <2>1
<1>4. ASSUME NEW r \in flight, (app = "web" /\ Answered(r)) \/ (app = "mobile" /\ MobileAnswered(r))
      PROVE  Good
    <2>1. CASE app = "web" /\ Answered(r)
        <3>1. PICK new : new = Reduce(page, r) /\ Arrives(r, new)
            BY <2>1 DEF Answered
        <3> QED
            BY <2>1, <3>1, AnswersKeep
    <2>2. CASE app = "mobile" /\ MobileAnswered(r)
        <3>1. PICK new : new = MobileReduce(page, r) /\ Arrives(r, new)
            BY <2>2 DEF MobileAnswered
        <3> QED
            BY <2>2, <3>1, AnswersKeep
    <2> QED
        BY <1>4, <2>1, <2>2
<1> HIDE DEF Good
<1>5. ASSUME LoadMore \/ Post \/ Lift PROVE Good
    <2>1. PICK c \in Comments : c = 1
        BY DEF Comments
    <2>2. PageInv' /\ (OrderFits => OrderFits')
        BY <1>5, AsksKeep
    <2> QED
        BY <2>2 DEF Good
<1>6. CASE app = "web" /\ Next
    BY <1>1, <1>2, <1>3, <1>4, <1>5, <1>6 DEF Next, Good
<1>7. CASE app = "mobile" /\ MobileNext
    BY <1>1, <1>2, <1>3, <1>4, <1>5, <1>7
    DEF MobileNext, MobileOpen, MobileLoadMore, MobileBrowsed, MobileWritten, Good
<1> QED
    BY <1>6, <1>7 DEF PageNext, Good

\* The invariant holds throughout.
THEOREM PageIsInOrder == PageSpec => []PageInv
<1>1. PageInv /\ UNCHANGED vars => PageInv'
    BY DEF vars, PageInv, StateOK, RequestsOK, AddressAsked, ViewFollowsAddress, LoadIsAsked, MoreIsAsked,
           RepliesAreAsked, OneEach
<1>2. PageInv /\ [PageNext]_vars => PageInv'
    BY <1>1, StepsKeep
<1> QED
    BY <1>2, PageStarts, PTL DEF PageSpec

\* What is drawn is what the address asks for, in whatever order the answers to full loads come, for any
\* number of loads and requests.
THEOREM ViewsFollowTheAddress == PageSpec => []ViewFollowsAddress
<1>1. PageInv => ViewFollowsAddress
    BY DEF PageInv
<1> QED
    BY <1>1, PageIsInOrder, PTL

\* The browser's list shows no comment twice, whatever the reader posts and whatever pages overlap.
THEOREM ListsShowEachOnce == PageSpec => []NothingTwice
<1>1. PageInv => NothingTwice
    BY DEF PageInv, OneEach, NothingTwice, Distinct
<1> QED
    BY <1>1, PageIsInOrder, PTL

\* Nothing is left saying it loads with no request to end it.
THEOREM WhatLoadsIsAsked == PageSpec => []LoadingIsAsked
<1>1. ASSUME PageInv PROVE LoadingIsAsked
    <2>1. ASSUME page.phase = "ready", NEW c \in Drawn(page), page.node[c].loading
          PROVE  \E r \in flight : r.kind \in {"branch", "replies"} /\ r.id = c
        <3>1. c \in Comments
            BY <1>1, DrawnHaveNodes DEF PageInv
        <3>2. Loads(page, c)
            BY <2>1 DEF Loads
        <3> QED
            BY <1>1, <3>1, <3>2 DEF PageInv, RepliesAreAsked
    <2> QED
        BY <1>1, <2>1 DEF PageInv, LoadIsAsked, MoreIsAsked, FullLoads, LoadingIsAsked
<1> QED
    BY <1>1, PageIsInOrder, PTL

\* Only the answer to a page asked before the last full load leaves a cursor of another order.
THEOREM OnlyLatePagesDo == PageSpec => OnlyLatePagesMixOrders
<1>1. PageInv /\ [PageNext]_vars => [OrderFits /\ ~OrderFits' =>
         \E r \in flight \ flight' : r.kind = "more" /\ r.gen < generation]_vars
    <2>1. PageInv /\ PageNext => (OrderFits /\ ~OrderFits' => \E r \in flight \ flight' : r.kind = "more" /\ r.gen < generation)
        BY StepsKeep
    <2> QED
        BY <2>1
<1> QED
    BY <1>1, PageIsInOrder, PTL DEF PageSpec, OnlyLatePagesMixOrders

----------------------------------------------------------------------------
(* The service behind the page: whatever the clients ask of it, in whatever   *)
(* order, it shows what DiscussionPromise says. The comment tree keeps the    *)
(* same promise row by row, so the two models of the service agree.           *)

ShownOnes(s) == {c \in Known(s) : Shown(s, c)}
Standing(s) == Known(s) \ s.down
Above(s) == [n \in ShownOnes(s) |-> Chain(s, n)]
Promise == INSTANCE DiscussionPromise WITH
    Comment <- Comments, standing <- Standing(server), above <- Above(server),
    replies <- [n \in ShownOnes(server) |-> Cardinality(Under(server, n))]
ServiceKeepsThePage == [][Promise!Next]_(Promise!page)

\* Comments are later than what they answer, and threads are three levels deep.
Placed(s, c) == Parent(s, c) \in Nat /\ Parent(s, c) < c /\ Parent(s, Parent(s, Parent(s, c))) = Top
Threads(s) == s \in Servers /\ s.down \subseteq Known(s) /\ \A c \in Known(s) : Placed(s, c)

\* What a comment hangs under is there before it.
LEMMA ChainOnes ==
    ASSUME NEW s, Threads(s), NEW c \in Known(s)
    PROVE  /\ c \in Nat \ {0} /\ Parent(s, c) \in Nat /\ Parent(s, c) < c
           /\ Parent(s, Parent(s, c)) \in Nat
           /\ Parent(s, c) = 0 => Parent(s, Parent(s, c)) = 0
           /\ Parent(s, c) # 0 => Parent(s, c) \in Known(s) /\ Parent(s, Parent(s, c)) < Parent(s, c)
           /\ Chain(s, c) = {c, Parent(s, c), Parent(s, Parent(s, c))} \ {0}
           /\ Chain(s, c) \subseteq Known(s) /\ c \in Chain(s, c)
<1>1. s \in Servers /\ Known(s) = 1..Len(s.parent) /\ Len(s.parent) \in Nat
    BY KnownOnes DEF Threads, Known
<1>2. PICK p : p = Parent(s, c)
    OBVIOUS
<1>3. PICK g : g = Parent(s, p)
    OBVIOUS
<1>4. c \in Nat \ {0} /\ p \in Nat /\ p < c
    BY <1>1, <1>2 DEF Threads, Placed
<1>5. p = 0 => g = 0
    BY <1>3 DEF Parent, Top
<1>6. ASSUME p # 0 PROVE p \in Known(s) /\ g \in Nat /\ g < p
    <2>1. p \in Known(s)
        BY <1>1, <1>4, <1>6
    <2> QED
        BY <1>3, <2>1 DEF Threads, Placed
<1>7. g # 0 => g \in Known(s)
    BY <1>1, <1>4, <1>5, <1>6
<1>8. Chain(s, c) = {c, p, g} \ {0}
    BY <1>2, <1>3 DEF Chain, Top
<1>9. Chain(s, c) \subseteq Known(s) /\ c \in Chain(s, c)
    BY <1>4, <1>6, <1>7, <1>8
<1> QED
    BY <1>2, <1>3, <1>4, <1>5, <1>6, <1>8, <1>9

\* What anyone is shown is what stands, and what that hangs under.
LEMMA ShownIsHeld ==
    ASSUME NEW s, Threads(s)
    PROVE  /\ ShownOnes(s) = Promise!Held(Standing(s), Above(s))
           /\ Standing(s) \subseteq ShownOnes(s)
           /\ ShownOnes(s) = UNION {Chain(s, k) : k \in Standing(s)}
<1>1. \A k \in Standing(s) : Chain(s, k) \subseteq Known(s) /\ k \in Chain(s, k)
    BY ChainOnes DEF Standing
<1>2. ShownOnes(s) = UNION {Chain(s, k) : k \in Standing(s)}
    BY <1>1 DEF ShownOnes, Shown, Standing
<1>3. Standing(s) \subseteq ShownOnes(s)
    BY <1>1, <1>2
<1>4. {Above(s)[k] : k \in Standing(s)} = {Chain(s, k) : k \in Standing(s)}
    BY <1>3 DEF Above
<1> QED
    BY <1>2, <1>3, <1>4 DEF Promise!Held

\* What hangs directly under a comment that is shown is what the service counts there.
LEMMA UnderIsDirect ==
    ASSUME NEW s, Threads(s), NEW n \in ShownOnes(s)
    PROVE  Promise!DirectlyUnder(n, Above(s)) = Under(s, n)
<1>1. Promise!DirectlyUnder(n, Above(s)) = {c \in ShownOnes(s) : Chain(s, c) \ {c} = Chain(s, n)}
    BY DEF Promise!DirectlyUnder, Above
<1>2. Under(s, n) = {c \in ShownOnes(s) : s.parent[c] = n}
    BY DEF Under, ShownOnes
<1>3. n \in Known(s)
    BY DEF ShownOnes
<1>4. ASSUME NEW c \in ShownOnes(s)
      PROVE  (Chain(s, c) \ {c} = Chain(s, n)) <=> (s.parent[c] = n)
    <2>1. c \in Known(s)
        BY DEF ShownOnes
    <2>2. PICK p : p = Parent(s, c)
        OBVIOUS
    <2>3. PICK g : g = Parent(s, p)
        OBVIOUS
    <2>4. /\ c \in Nat \ {0} /\ p \in Nat /\ p < c /\ g \in Nat /\ (p = 0 => g = 0) /\ (p # 0 => g < p)
          /\ Chain(s, c) = {c, p, g} \ {0} /\ Parent(s, g) = 0
        BY <2>1, <2>2, <2>3, ChainOnes DEF Threads, Placed, Top
    <2>5. PICK q : q = Parent(s, n)
        OBVIOUS
    <2>6. PICK h : h = Parent(s, q)
        OBVIOUS
    <2>7. /\ n \in Nat \ {0} /\ q \in Nat /\ q < n /\ h \in Nat /\ (q = 0 => h = 0) /\ (q # 0 => h < q)
          /\ Chain(s, n) = {n, q, h} \ {0}
        BY <1>3, <2>5, <2>6, ChainOnes
    <2>8. s.parent[c] = p
        BY <2>2, <2>4 DEF Parent, Top
    <2>9. ASSUME p = n PROVE Chain(s, c) \ {c} = Chain(s, n)
        <3>1. q = g /\ h = 0
            BY <2>3, <2>4, <2>5, <2>6, <2>9
        <3>2. c # n /\ c # g
            BY <2>4, <2>7, <2>9
        <3> QED
            BY <2>4, <2>7, <2>9, <3>1, <3>2
    <2>10. ASSUME Chain(s, c) \ {c} = Chain(s, n) PROVE p = n
        <3>1. n \in {p, g} \ {0}
            BY <2>4, <2>7, <2>10
        <3>2. p # 0 /\ n <= p
            BY <2>4, <2>7, <3>1
        <3>3. p \in {n, q, h}
            BY <2>4, <2>7, <2>10, <3>2
        <3> QED
            BY <2>4, <2>7, <3>2, <3>3
    <2> QED
        BY <2>8, <2>9, <2>10
<1> QED
    BY <1>1, <1>2, <1>4

LEMMA CountsAgree == \A S : Promise!Cardinality(S) = Cardinality(S)
BY DEF Cardinality, Promise!Cardinality

\* So what is shown after a step is what DiscussionPromise shows, if what stands hangs where it says.
LEMMA ShowingIsPromised ==
    ASSUME NEW s, Threads(s), server' = s, NEW up, up = Standing(s),
           NEW chain, \A n \in ShownOnes(s) : chain[n] = Chain(s, n)
    PROVE  Promise!Shows(up, chain)
<1>1. up \subseteq ShownOnes(s) /\ ShownOnes(s) = UNION {Chain(s, k) : k \in up}
    BY ShownIsHeld
<1>2. {chain[k] : k \in up} = {Chain(s, k) : k \in up}
    BY <1>1
<1>3. ShownOnes(s) = Promise!Held(up, chain)
    BY <1>1, <1>2 DEF Promise!Held
<1>4. Above(s) = [n \in Promise!Held(up, chain) |-> chain[n]]
    BY <1>3 DEF Above
<1>5. DOMAIN Above(s) = ShownOnes(s)
    BY DEF Above
<1>6. [n \in ShownOnes(s) |-> Cardinality(Under(s, n))]
          = [n \in DOMAIN Above(s) |-> Promise!Cardinality(Promise!DirectlyUnder(n, Above(s)))]
    BY <1>5, UnderIsDirect, CountsAgree
<1> QED
    BY <1>4, <1>6 DEF Promise!Shows

\* A comment is written under another, at most two deep, or under none.
Takes(s, p) == p = Top \/ (p \in Known(s) /\ Parent(s, Parent(s, p)) = Top)
GrownUnder(s, s2, p, c) ==
    /\ Threads(s2) /\ c \in Comments /\ c \notin Known(s) /\ Standing(s2) = Standing(s) \union {c}
    /\ ShownOnes(s2) = ShownOnes(s) \union {c} \union Chain(s2, c)
    /\ \A k \in Known(s) : Chain(s2, k) = Chain(s, k)
    /\ Chain(s2, c) = IF p = Top THEN {c} ELSE Chain(s, p) \union {c}
LEMMA GrownThreads ==
    ASSUME NEW s, Threads(s), NEW p, Takes(s, p), NEW s2 \in Servers,
           s2.parent = Append(s.parent, p), s2.down = s.down
    PROVE  GrownUnder(s, s2, p, Len(s.parent) + 1)
<1> DEFINE c == Len(s.parent) + 1
<1>1. /\ s \in Servers /\ s.parent \in Seq(Nat) /\ Len(s.parent) \in Nat /\ Known(s) = 1..Len(s.parent)
      /\ s.down \subseteq Known(s)
    BY KnownOnes DEF Threads, Known
<1>2. p \in Nat /\ (p # 0 => p \in Known(s))
    BY <1>1 DEF Takes, Top
<1>3. /\ c \in Comments /\ c \notin Known(s) /\ Known(s2) = Known(s) \union {c} /\ Len(s2.parent) = c
      /\ \A k \in Known(s) : s2.parent[k] = s.parent[k]
      /\ s2.parent[c] = p
    <2>1. PICK par : par = s.parent
        OBVIOUS
    <2>2. par \in Seq(Nat) /\ Len(par) \in Nat /\ s2.parent = Append(par, p) /\ c = Len(par) + 1
        BY <1>1, <2>1
    <2>3. /\ Len(Append(par, p)) = c /\ Append(par, p)[c] = p
          /\ \A k \in 1..Len(par) : Append(par, p)[k] = par[k]
        BY <1>2, <2>2
    <2>4. c \in Nat \ {0} /\ c \notin 1..Len(par) /\ 1..c = (1..Len(par)) \union {c}
        BY <2>2
    <2> QED
        BY <1>1, <2>1, <2>2, <2>3, <2>4 DEF Known, Comments
<1>4. /\ \A k \in Known(s) \union {0} : Parent(s2, k) = Parent(s, k)
      /\ Parent(s2, c) = p
    BY <1>1, <1>3 DEF Parent, Top, Comments
<1>5. \A k \in Known(s) : /\ k \in Known(s) \union {0} /\ Parent(s, k) \in Known(s) \union {0}
                          /\ Parent(s, Parent(s, k)) \in Known(s) \union {0}
    <2>1. ASSUME NEW k \in Known(s) PROVE Parent(s, Parent(s, k)) \in Known(s) \union {0}
        <3>1. Chain(s, k) \subseteq Known(s) /\ Parent(s, Parent(s, k)) \in Chain(s, k) \union {0}
            BY ChainOnes
        <3> QED
            BY <3>1
    <2> QED
        BY <2>1, ChainOnes
<1>6. \A k \in Known(s) : Chain(s2, k) = Chain(s, k) /\ Placed(s2, k)
    BY <1>4, <1>5 DEF Chain, Placed, Threads
<1>7. Parent(s2, p) = Parent(s, p) /\ Parent(s2, Parent(s2, p)) = Parent(s, Parent(s, p)) /\ Parent(s, Parent(s, p)) = 0
    <2>1. p \in Known(s) \union {0} /\ Parent(s, p) \in Known(s) \union {0}
        BY <1>2, <1>5 DEF Parent, Top
    <2>2. Parent(s, Parent(s, p)) = 0
        BY DEF Takes, Parent, Top
    <2> QED
        BY <1>4, <2>1, <2>2
<1>8. p < c /\ Placed(s2, c)
    BY <1>1, <1>2, <1>3, <1>4, <1>7 DEF Placed, Top, Comments
<1>9. Threads(s2)
    BY <1>1, <1>3, <1>6, <1>8 DEF Threads
<1>10. Standing(s2) = Standing(s) \union {c}
    BY <1>1, <1>3 DEF Standing
<1>11. Chain(s2, c) = {c, p, Parent(s, p)} \ {0}
    BY <1>4, <1>7 DEF Chain, Top
<1>12. Chain(s2, c) = IF p = Top THEN {c} ELSE Chain(s, p) \union {c}
    <2>1. CASE p = Top
        BY <1>3, <1>11, <2>1 DEF Parent, Top, Comments
    <2>2. CASE p # Top
        <3>1. Chain(s, p) = {p, Parent(s, p), 0} \ {0}
            BY <1>7 DEF Chain, Top
        <3>2. c # 0
            BY <1>3 DEF Comments
        <3> QED
            BY <1>11, <2>2, <3>1, <3>2
    <2> QED
        BY <2>1, <2>2
<1>13. ShownOnes(s2) = ShownOnes(s) \union {c} \union Chain(s2, c)
    <2>1. ShownOnes(s2) = UNION {Chain(s2, k) : k \in Standing(s) \union {c}}
        BY <1>9, <1>10, ShownIsHeld
    <2>2. \A k \in Standing(s) : Chain(s2, k) = Chain(s, k)
        BY <1>6 DEF Standing
    <2>3. ShownOnes(s) = UNION {Chain(s, k) : k \in Standing(s)}
        BY ShownIsHeld
    <2>4. c \in Chain(s2, c)
        BY <1>3, <1>11 DEF Comments
    <2> QED
        BY <2>1, <2>2, <2>3, <2>4
<1> QED
    BY <1>3, <1>6, <1>9, <1>10, <1>12, <1>13 DEF GrownUnder

\* A comment written is one posted, or one answering what stands.
LEMMA WritingIsPromised ==
    ASSUME Threads(server), NEW p, Takes(server, p), p = Top \/ p \in Standing(server), server' \in Servers,
           server'.parent = Append(server.parent, p), server'.down = server.down
    PROVE  Threads(server)' /\ Promise!Next
<1>1. PICK s : s = server
    OBVIOUS
<1>2. PICK s2 : s2 = server'
    OBVIOUS
<1>3. PICK c : c = Len(s.parent) + 1
    OBVIOUS
<1>4. GrownUnder(s, s2, p, c)
    <2>1. /\ Threads(s) /\ Takes(s, p) /\ s2 \in Servers /\ s2.parent = Append(s.parent, p) /\ s2.down = s.down
        BY <1>1, <1>2
    <2> QED
        BY ONLY <1>3, <2>1, GrownThreads
<1>5. c \notin DOMAIN Above(s) /\ DOMAIN Above(s) = ShownOnes(s) /\ ShownOnes(s) \subseteq Known(s)
    BY <1>4 DEF Above, ShownOnes, GrownUnder
<1>6. ASSUME NEW places, Chain(s2, c) = places \union {c}, Chain(s2, c) \subseteq ShownOnes(s) \union {c}
      PROVE  Promise!Shows(Standing(s) \union {c}, Promise!Under(c, places))
    <2>1. PICK chain : chain = Promise!Under(c, places)
        OBVIOUS
    <2>2. chain = [n \in ShownOnes(s) \union {c} |-> IF n = c THEN places \union {c} ELSE Above(s)[n]]
        BY <1>1, <1>5, <2>1 DEF Promise!Under
    <2>3. \A n \in ShownOnes(s2) : n \in ShownOnes(s) \union {c}
        BY <1>4, <1>6 DEF GrownUnder
    <2>4. \A n \in ShownOnes(s) : Above(s)[n] = Chain(s2, n)
        BY <1>4, <1>5 DEF Above, GrownUnder
    <2>5. \A n \in ShownOnes(s2) : chain[n] = Chain(s2, n)
        BY <1>6, <2>2, <2>3, <2>4
    <2>6. Promise!Shows(Standing(s2), chain)
        BY <1>2, <1>4, <2>5, ShowingIsPromised DEF GrownUnder
    <2> QED
        BY <1>4, <2>1, <2>6 DEF GrownUnder
<1>7. CASE p = Top
    <2>1. Chain(s2, c) = {} \union {c}
        BY <1>4, <1>7 DEF GrownUnder
    <2>2. Promise!Shows(Standing(s) \union {c}, Promise!Under(c, {}))
        BY <1>6, <2>1
    <2>3. Promise!Post(c)
        BY <1>1, <1>5, <2>2 DEF Promise!Post
    <2> QED
        BY <1>2, <1>4, <2>3 DEF Promise!Next, Promise!Writing, GrownUnder
<1>8. CASE p # Top
    <2>1. p \in Standing(s) /\ p \in ShownOnes(s)
        BY <1>1, <1>8, ShownIsHeld
    <2>2. Above(s)[p] = Chain(s, p)
        BY <2>1 DEF Above
    <2>3. Chain(s, p) \subseteq ShownOnes(s)
        BY <1>1, <2>1, ShownIsHeld
    <2>4. Chain(s2, c) = Above(s)[p] \union {c} /\ Chain(s2, c) \subseteq ShownOnes(s) \union {c}
        BY <1>4, <1>8, <2>2, <2>3 DEF GrownUnder
    <2>5. Promise!Shows(Standing(s) \union {c}, Promise!Under(c, Above(s)[p]))
        BY <1>6, <2>4
    <2>6. Promise!Reply(c, p)
        BY <1>1, <1>5, <2>1, <2>5 DEF Promise!Reply
    <2> QED
        BY <1>1, <1>2, <1>4, <2>1, <2>6 DEF Promise!Next, Promise!Writing, GrownUnder
<1> QED
    BY <1>7, <1>8

\* What is shown hangs on the comments and on those taken down, and on nothing else.
LEMMA SameShown ==
    ASSUME NEW s, Threads(s), NEW s2 \in Servers, s2.parent = s.parent, s2.down = s.down
    PROVE  /\ Threads(s2) /\ Standing(s2) = Standing(s) /\ ShownOnes(s2) = ShownOnes(s) /\ Above(s2) = Above(s)
           /\ \A n : Under(s2, n) = Under(s, n)
<1>1. Known(s2) = Known(s) /\ \A c : Parent(s2, c) = Parent(s, c)
    BY DEF Known, Parent
<1>2. \A c : Chain(s2, c) = Chain(s, c)
    BY <1>1 DEF Chain
<1>3. \A c : Shown(s2, c) <=> Shown(s, c)
    BY <1>1, <1>2 DEF Shown
<1>4. \A n : Under(s2, n) = Under(s, n)
    BY <1>1, <1>3 DEF Under
<1>5. ShownOnes(s2) = ShownOnes(s)
    BY <1>1, <1>3 DEF ShownOnes
<1>6. Above(s2) = Above(s)
    BY <1>2, <1>5 DEF Above
<1>7. Threads(s2)
    BY <1>1 DEF Threads, Placed
<1> QED
    BY <1>1, <1>4, <1>5, <1>6, <1>7 DEF Standing

\* A comment taken down goes, and what only it held up.
LEMMA DownIsPromised ==
    ASSUME Threads(server), NEW c \in Known(server), server' \in Servers,
           server'.parent = server.parent, server'.down = server.down \union {c}
    PROVE  Threads(server)' /\ [Promise!Next]_(Promise!page)
<1>1. PICK s : s = server
    OBVIOUS
<1>2. PICK s2 : s2 = server'
    OBVIOUS
<1>3. Known(s2) = Known(s) /\ (\A k : Parent(s2, k) = Parent(s, k)) /\ (\A k : Chain(s2, k) = Chain(s, k))
    <2>1. Known(s2) = Known(s) /\ \A k : Parent(s2, k) = Parent(s, k)
        BY <1>1, <1>2 DEF Known, Parent
    <2> QED
        BY <2>1 DEF Chain
<1>4. Threads(s2)
    BY <1>1, <1>2, <1>3 DEF Threads, Placed
<1>5. CASE c \in Standing(s)
    <2>1. Standing(s2) = Standing(s) \ {c}
        BY <1>1, <1>2, <1>3 DEF Standing
    <2>2. ShownOnes(s2) \subseteq ShownOnes(s)
        BY <1>1, <1>2, <1>3, <2>1 DEF ShownOnes, Shown, Standing
    <2>3. \A n \in ShownOnes(s2) : Above(s)[n] = Chain(s2, n)
        BY <1>3, <2>2 DEF Above
    <2>4. Promise!Shows(Standing(s2), Above(s))
        BY <1>2, <1>4, <2>3, ShowingIsPromised
    <2>5. Promise!TakeDown({c})
        BY <1>1, <1>5, <2>1, <2>4 DEF Promise!TakeDown
    <2> QED
        BY <1>1, <1>2, <1>4, <1>5, <2>5 DEF Promise!Next
<1>6. CASE c \notin Standing(s)
    <2>1. server'.down = server.down
        BY <1>1, <1>6 DEF Standing
    <2>2. /\ Standing(s2) = Standing(s) /\ ShownOnes(s2) = ShownOnes(s) /\ Above(s2) = Above(s)
          /\ \A n : Under(s2, n) = Under(s, n)
        BY <1>1, <1>2, <2>1, SameShown
    <2>3. [n \in ShownOnes(s2) |-> Cardinality(Under(s2, n))] = [n \in ShownOnes(s) |-> Cardinality(Under(s, n))]
        BY <2>2
    <2> QED
        BY <1>1, <1>2, <1>4, <2>2, <2>3 DEF Promise!page
<1> QED
    BY <1>5, <1>6

\* What is under way may still be written: a comment under none, a reply where its thread has room.
Fits(r, s) == (r.kind = "post" => r.id = Top) /\ (r.kind \in Writes => Takes(s, r.id))
ServiceOK == Threads(server) /\ \A r \in flight : Fits(r, server)

LEMMA ServiceStarts == PageInit => ServiceOK
<1> SUFFICES ASSUME PageInit PROVE ServiceOK
    OBVIOUS
<1>1. server = AtFirst /\ flight = {}
    BY DEF PageInit, MobileInit, Init
<1>2. AtFirst \in Servers /\ AtFirst.parent = Old /\ AtFirst.down = {} /\ Known(AtFirst) = DOMAIN Old
    BY BoundsAssumption DEF AtFirst, Servers, Modes, Known
<1>3. ASSUME NEW c \in DOMAIN Old PROVE Placed(AtFirst, c)
    <2>1. Old \in Seq(Nat) /\ DOMAIN Old = 1..Len(Old) /\ Len(Old) \in Nat /\ c \in Nat \ {0}
        BY BoundsAssumption
    <2>2. PICK p : p = Old[c]
        OBVIOUS
    <2>3. p \in Nat /\ p < c /\ Parent(AtFirst, c) = p
        BY <1>2, <1>3, <2>1, <2>2, OldAssumption DEF Parent, Top
    <2>4. p # 0 => p \in DOMAIN Old
        BY <1>3, <2>1, <2>3
    <2>5. PICK g : g = Parent(AtFirst, p)
        OBVIOUS
    <2>6. p = 0 => g = 0
        BY <2>5 DEF Parent, Top
    <2>7. p # 0 => g = Old[p] /\ g \in Nat /\ g < p
        BY <1>2, <2>1, <2>4, <2>5, OldAssumption DEF Parent, Top
    <2>8. g # 0 => g \in DOMAIN Old /\ Old[g] = 0
        BY <1>3, <2>1, <2>2, <2>3, <2>6, <2>7, OldAssumption
    <2>9. Parent(AtFirst, g) = 0
        BY <1>2, <2>8 DEF Parent, Top
    <2> QED
        BY <2>3, <2>5, <2>9 DEF Placed, Top
<1> QED
    BY <1>1, <1>2, <1>3 DEF ServiceOK, Threads

\* A request asked is no reply, or one its thread has room for.
LEMMA AskFits ==
    ASSUME ServiceOK, UNCHANGED server, NEW others, others \subseteq flight, NEW kind, NEW id, NEW last,
           AskBeside(others, kind, id, last), kind = "post" => id = Top, kind \in Writes => Takes(server, id)
    PROVE  ServiceOK'
<1>1. ASSUME NEW q \in flight' PROVE Fits(q, server)
    <2>1. q \in others \/ (q.kind = kind /\ q.id = id)
        BY <1>1 DEF AskBeside
    <2> QED
        BY <2>1 DEF ServiceOK, Fits
<1> QED
    BY <1>1 DEF ServiceOK

LEMMA LoadFits ==
    ASSUME ServiceOK, UNCHANGED server, NEW others, others \subseteq flight, NEW c, LoadBeside(others, c)
    PROVE  ServiceOK'
<1>1. CASE c = Top
    <2>1. AskBeside(others, "list", Top, None)
        BY <1>1 DEF LoadBeside, LoadList
    <2> QED
        BY <2>1, AskFits DEF Writes
<1>2. CASE c # Top
    <2>1. AskBeside(others, "rooted", c, pending)
        BY <1>2 DEF LoadBeside, LoadRooted
    <2> QED
        BY <2>1, AskFits DEF Writes
<1> QED
    BY <1>1, <1>2

\* What the reader does changes nothing the service holds.
LEMMA ReadersFit ==
    ASSUME ServiceOK, NEW c, NEW order,
           \/ Open \/ HashChange \/ BackToAll \/ MobileBackToAll \/ SetSort(order)
           \/ LoadMore \/ Post \/ Lift \/ Browsed(c) \/ Written(c)
    PROVE  UNCHANGED server /\ ServiceOK'
<1>1. CASE Open \/ HashChange \/ BackToAll \/ MobileBackToAll
    <2>1. UNCHANGED server /\ (LoadBeside(flight, address) \/ LoadBeside(flight, Top))
        BY <1>1 DEF Open, HashChange, BackToAll, MobileBackToAll, Load
    <2> QED
        BY <2>1, LoadFits
<1>2. CASE SetSort(order)
    <2>1. UNCHANGED server /\ AskBeside(flight, "list", Top, None)
        BY <1>2 DEF SetSort, LoadList
    <2> QED
        BY <2>1, AskFits DEF Writes
<1>3. CASE LoadMore
    <2>1. UNCHANGED server /\ AskBeside(flight, "more", Top, page.cursor.last)
        BY <1>3 DEF LoadMore, reading, Ask
    <2> QED
        BY <2>1, AskFits DEF Writes
<1>4. CASE Post
    <2>1. UNCHANGED server /\ AskBeside(flight, "post", Top, None)
        BY <1>4 DEF Post, reading, Ask
    <2> QED
        BY <2>1, AskFits DEF Takes
<1>5. CASE Lift
    <2>1. UNCHANGED server /\ AskBeside(flight, "lift", Top, None)
        BY <1>5 DEF Lift, reading, Ask
    <2> QED
        BY <2>1, AskFits DEF Writes
<1>6. CASE Browsed(c)
    <2>1. CASE ShowReplies(c) \/ MoreReplies(c)
        <3>1. /\ UNCHANGED server
              /\ AskBeside(flight, "branch", c, None) \/ AskBeside(flight, "replies", c, page.node[c].cursor.last)
            BY <2>1 DEF ShowReplies, MoreReplies, reading, Ask
        <3> QED
            BY <3>1, AskFits DEF Writes
    <2>2. CASE Reroot(c) \/ RevealOne(c) \/ OpenReply(c)
        <3>1. UNCHANGED <<server, flight>>
            BY <2>2 DEF Reroot, RevealOne, OpenReply, reading
        <3> QED
            BY <3>1 DEF ServiceOK
    <2> QED
        BY <1>6, <2>1, <2>2 DEF Browsed
<1>7. CASE Written(c)
    <2>1. CASE Reply(c)
        <3>1. UNCHANGED server /\ Takes(server, c)
            BY <2>1 DEF Reply, Shallow, Takes, reading
        <3>2. PICK kind : kind = IF c \in Range(page.items) THEN "reply" ELSE "deepReply"
            OBVIOUS
        <3>3. AskBeside(flight, kind, c, None)
            BY <2>1, <3>2 DEF Reply, Ask
        <3> QED
            BY <3>1, <3>2, <3>3, AskFits
    <2>2. ASSUME NEW kind \in {"remove", "report"} \union Modes, UNCHANGED <<page, reading>>, Ask(kind, c, None)
          PROVE  UNCHANGED server /\ ServiceOK'
        <3>1. UNCHANGED server /\ AskBeside(flight, kind, c, None)
            BY <2>2 DEF reading, Ask
        <3>2. kind \notin Writes
            BY DEF Writes, Modes
        <3>3. kind # "post"
            BY <3>2 DEF Writes
        <3> QED
            BY <3>1, <3>2, <3>3, AskFits
    <2>3. DeleteOwn(c) => UNCHANGED <<page, reading>> /\ Ask("remove", c, None)
        BY DEF DeleteOwn
    <2>4. Report(c) => UNCHANGED <<page, reading>> /\ Ask("report", c, None)
        BY DEF Report
    <2>5. Unignore(c) => UNCHANGED <<page, reading>> /\ Ask("none", c, None)
        BY DEF Unignore
    <2>6. \A mode : Ignore(c, mode) => UNCHANGED <<page, reading>> /\ Ask(mode, c, None)
        BY DEF Ignore
    <2>7. "none" \in Modes
        BY DEF Modes
    <2> QED
        BY <1>7, <2>1, <2>2, <2>3, <2>4, <2>5, <2>6, <2>7 DEF Written
<1> QED
    BY <1>1, <1>2, <1>3, <1>4, <1>5, <1>6, <1>7

\* Nor does an answer.
LEMMA AnswersFit ==
    ASSUME ServiceOK, NEW r, NEW new, Arrives(r, new)
    PROVE  UNCHANGED server /\ ServiceOK'
<1>1. CASE LiftArrives(r)
    <2>1. UNCHANGED server /\ LoadBeside(flight \ {r}, address)
        BY <1>1 DEF LiftArrives
    <2> QED
        BY <2>1, LoadFits
<1>2. CASE ~LiftArrives(r)
    <2>1. UNCHANGED server /\ flight' = flight \ {r}
        BY <1>2 DEF Arrives, LoadArrives, NotThere, MoreArrives, RepliesArrive, VanishedOn, PostArrives, ReplyArrives,
               RemoveArrives, IgnoreArrives, ReportArrives, Fails, Draw, Settled, reading
    <2> QED
        BY <2>1 DEF ServiceOK
<1> QED
    BY <1>1, <1>2

\* A thread keeps the room it had.
LEMMA TakesStill ==
    ASSUME NEW s, Threads(s), NEW s2, s2 \in Servers, GrownBy(s.parent, s2.parent), NEW p, Takes(s, p)
    PROVE  Takes(s2, p)
<1>1. Known(s) = DOMAIN s.parent /\ Known(s2) = DOMAIN s2.parent
    BY KnownOnes DEF Threads
<1>2. \A k \in Known(s) \union {0} : Parent(s2, k) = Parent(s, k)
    BY <1>1 DEF GrownBy, Parent, Top
<1>3. Known(s) \subseteq Known(s2)
    BY <1>1 DEF GrownBy
<1>4. CASE p # Top
    <2>1. p \in Known(s) /\ Parent(s, Parent(s, p)) = Top
        BY <1>4 DEF Takes
    <2>2. Parent(s, p) \in Known(s) \union {0}
        BY <2>1, ChainOnes
    <2> QED
        BY <1>2, <1>3, <2>1, <2>2 DEF Takes
<1> QED
    BY <1>4 DEF Takes

\* What is served is what was promised: a comment more, one less, or nothing others see.
LEMMA ServingFits ==
    ASSUME PageInv, ServiceOK, NEW r \in flight, Serve(r)
    PROVE  ServiceOK' /\ [Promise!Next]_(Promise!page)
<1>1. server' \in Servers /\ server \in Servers /\ r \in Requests
    <2>1. PageInv'
        BY ServesKeep
    <2>2. server' \in Servers /\ server \in Servers
        BY <2>1 DEF PageInv, StateOK
    <2>3. r \in Requests
        BY RequestIs DEF RequestOK
    <2> QED
        BY <2>2, <2>3
<1>2. /\ server'.parent = IF AnswerTo(r) = "done" /\ r.kind \in Writes THEN Append(server.parent, r.id) ELSE server.parent
      /\ server'.down = IF AnswerTo(r) = "done" /\ r.kind = "remove" THEN server.down \union {r.id} ELSE server.down
    BY <1>1 DEF Serve, Servers
<1>3. \A q \in flight' : q \in flight \/ (q.kind = r.kind /\ q.id = r.id)
    BY <1>1 DEF Serve, Requests
<1>4. Threads(server) /\ Fits(r, server)
    BY DEF ServiceOK
<1>5. Threads(server)' /\ [Promise!Next]_(Promise!page)
    <2>1. CASE AnswerTo(r) = "done" /\ r.kind \in Writes
        <3>1. r.id = Top \/ r.id \in Standing(server)
            BY <1>4, <2>1 DEF AnswerTo, Reads, Writes, Standing, Fits
        <3>2. Takes(server, r.id) /\ r.kind # "remove"
            BY <1>4, <2>1 DEF Fits, Writes
        <3> QED
            BY <1>1, <1>2, <1>4, <2>1, <3>1, <3>2, WritingIsPromised
    <2>2. CASE AnswerTo(r) = "done" /\ r.kind = "remove"
        <3>1. Shown(server, r.id)
            BY <2>2 DEF AnswerTo
        <3>2. r.id \in Known(server)
            BY <1>4, <3>1, ChainOnes DEF Shown
        <3> QED
            BY <1>1, <1>2, <1>4, <2>2, <3>2, DownIsPromised DEF Writes
    <2>3. CASE ~(AnswerTo(r) = "done" /\ r.kind \in Writes \union {"remove"})
        <3>1. server'.parent = server.parent /\ server'.down = server.down
            BY <1>2, <2>3
        <3>2. PICK s, s2 : s = server /\ s2 = server'
            OBVIOUS
        <3>3. /\ Threads(s2) /\ Standing(s2) = Standing(s) /\ ShownOnes(s2) = ShownOnes(s) /\ Above(s2) = Above(s)
              /\ \A n : Under(s2, n) = Under(s, n)
            BY <1>1, <1>4, <3>1, <3>2, SameShown
        <3>4. [n \in ShownOnes(s2) |-> Cardinality(Under(s2, n))] = [n \in ShownOnes(s) |-> Cardinality(Under(s, n))]
            BY <3>3
        <3> QED
            BY <3>2, <3>3, <3>4 DEF Promise!page
    <2> QED
        BY <2>1, <2>2, <2>3
<1>6. GrownBy(server.parent, server'.parent)
    <2>1. server.parent \in Seq(Nat)
        BY <1>1, KnownOnes
    <2> QED
        BY <1>2, <2>1 DEF GrownBy
<1>7. \A q \in flight' : Fits(q, server')
    <2>1. \A p : Takes(server, p) => Takes(server', p)
        BY <1>1, <1>4, <1>6, TakesStill
    <2> QED
        BY <1>3, <2>1 DEF ServiceOK, Fits
<1> QED
    BY <1>5, <1>7 DEF ServiceOK

\* Nothing a reader's clients ask, in whatever order it is served, makes the service show more or fewer
\* comments than DiscussionPromise, or count others under them than are there to be read: the service
\* the page is modelled against keeps the promise the comment tree keeps.
THEOREM ThePageIsServed == PageSpec => ServiceKeepsThePage
<1>1. PageInv /\ ServiceOK /\ [PageNext]_vars => ServiceOK' /\ [Promise!Next]_(Promise!page)
    <2> SUFFICES ASSUME PageInv, ServiceOK, [PageNext]_vars
                 PROVE  ServiceOK' /\ [Promise!Next]_(Promise!page)
        OBVIOUS
    <2>1. ASSUME UNCHANGED server, ServiceOK' PROVE ServiceOK' /\ [Promise!Next]_(Promise!page)
        BY <2>1 DEF Promise!page
    <2>2. CASE UNCHANGED vars
        BY <2>1, <2>2 DEF vars, ServiceOK
    <2>3. ASSUME NEW r \in flight, Serve(r) PROVE ServiceOK' /\ [Promise!Next]_(Promise!page)
        BY <2>3, ServingFits
    <2>4. ASSUME NEW c \in Ids, TakenDown(c) PROVE ServiceOK' /\ [Promise!Next]_(Promise!page)
        <3>1. /\ c \in Known(server) /\ server' = [server EXCEPT !.down = @ \union {c}] /\ UNCHANGED flight
              /\ server \in Servers /\ Threads(server)
            BY <2>4 DEF TakenDown, PageInv, StateOK, ServiceOK
        <3>2. server' \in Servers
            BY <2>4, TakingDownKeeps DEF PageInv, StateOK
        <3>3. server'.parent = server.parent /\ server'.down = server.down \union {c}
            BY <3>1 DEF Servers
        <3>4. Threads(server)' /\ [Promise!Next]_(Promise!page)
            BY <3>1, <3>2, <3>3, DownIsPromised
        <3>5. \A r \in flight' : Fits(r, server')
            BY <3>1, <3>3 DEF ServiceOK, Fits, Takes, Known, Parent
        <3> QED
            BY <3>4, <3>5 DEF ServiceOK
    <2>5. ASSUME NEW r \in flight, Answered(r) \/ MobileAnswered(r)
          PROVE  ServiceOK' /\ [Promise!Next]_(Promise!page)
        BY <2>1, <2>5, AnswersFit DEF Answered, MobileAnswered
    <2>6. ASSUME NEW c, NEW order,
                 \/ Open \/ HashChange \/ BackToAll \/ MobileBackToAll \/ SetSort(order)
                 \/ LoadMore \/ Post \/ Lift \/ Browsed(c) \/ Written(c)
          PROVE  ServiceOK' /\ [Promise!Next]_(Promise!page)
        BY <2>1, <2>6, ReadersFit
    <2>7. CASE Next
        BY <2>3, <2>4, <2>5, <2>6, <2>7 DEF Next
    <2>8. CASE MobileNext
        BY <2>3, <2>4, <2>5, <2>6, <2>8 DEF MobileNext, MobileOpen, MobileLoadMore, MobileBrowsed, MobileWritten
    <2> QED
        BY <2>2, <2>7, <2>8 DEF PageNext
<1> QED
    BY <1>1, ServiceStarts, PageIsInOrder, PTL DEF PageSpec, ServiceKeepsThePage

===============================================================================
