------------------------- MODULE CommentTreeProofs -------------------------
(***************************************************************************)
(* What TLC finds of CommentTree on four comments, for any finite supply   *)
(* of them.  The invariant is the conjunction of the run's invariants with *)
(* two facts the run does not name: ids without a row carry nothing, and a *)
(* path is closed upwards and runs down to its comment without a gap.      *)
(* Then ReaderErasure, which runs over the same tree: what survives any    *)
(* sequence of erasures and sweeps, for any number of comments and any     *)
(* size of a batch.  The counts are among it only as long as takedowns are *)
(* plain: see the run that expects a violation.                            *)
(***************************************************************************)
EXTENDS ReaderErasure, FiniteSetTheorems, WellFoundedInduction, TLAPS

FreeIdsAreBlank ==
    \A c \in Comment \ comments : parent[c] = NoParent /\ replyCount[c] = 0

PathsAreWhole ==
    \A c \in comments :
        /\ c \in path[c]
        /\ path[c] \subseteq comments
        /\ \A m \in path[c] : parent[m] = NoParent \/ parent[m] \in path[c]
        /\ \A m \in path[c] \ {c} : \E d \in path[c] : parent[d] = m

\* The table itself, whatever the marks and the counts on it
TableInv == TypeOK /\ FreeIdsAreBlank /\ PathsFollowParents /\ PathsAreWhole

\* Nothing here takes an author away from a row
RowsAreSigned == \A c \in comments : author[c] \in Reader

\* All the invariant says of the tree, whoever signs the rows
Whole == TableInv /\ Sound

TreeInv == Whole /\ RowsAreSigned

-----------------------------------------------------------------------------
LEMMA SetsOfComments ==
    ASSUME NEW S \in SUBSET Comment
    PROVE  IsFiniteSet(S) /\ Cardinality(S) \in Nat
BY IdsAreFinite, FS_Subset, FS_CardinalityType

LEMMA TakenAway ==
    ASSUME NEW S \in SUBSET Comment, NEW T \in SUBSET S
    PROVE  Cardinality(S \ T) = Cardinality(S) - Cardinality(T)
<1>1. IsFiniteSet(S)
  BY SetsOfComments
<1>2. S \cap T = T
  OBVIOUS
<1> QED
  BY <1>1, <1>2, FS_Difference

LEMMA AsManyIsAll ==
    ASSUME NEW S \in SUBSET Comment, NEW T \in SUBSET S,
           Cardinality(S) <= Cardinality(T)
    PROVE  S = T
<1>1. IsFiniteSet(S) /\ Cardinality(S) \in Nat /\ Cardinality(T) \in Nat
  BY SetsOfComments
<1>2. Cardinality(T) <= Cardinality(S)
  BY <1>1, FS_Subset
<1>3. Cardinality(S) = Cardinality(T)
  BY <1>1, <1>2
<1> QED
  BY <1>1, <1>3, FS_Subset

LEMMA NoneIsEmpty ==
    ASSUME NEW S \in SUBSET Comment
    PROVE  Cardinality(S) = 0 <=> S = {}
BY SetsOfComments, FS_EmptySet

LEMMA StrictSubsetsOfComments ==
    IsWellFoundedOn(StrictSubsetOrdering(Comment), SUBSET Comment)
<1>1. IsWellFoundedOn(StrictSubsetOrdering(Comment), FiniteSubsetsOf(Comment))
  BY FS_StrictSubsetOrderingWellFounded
<1>2. FiniteSubsetsOf(Comment) = SUBSET Comment
  BY IdsAreFinite, FS_FiniteSubsetsOfFinite
<1> QED
  BY <1>1, <1>2

\* Along a path, what passes from a comment to the next one below reaches the end of it
LEMMA PathDescent ==
    ASSUME TypeOK, PathsFollowParents, PathsAreWhole,
           NEW c \in comments, NEW T \in SUBSET path[c], T # {},
           \A m \in T : m # c => \E d \in T : parent[d] = m
    PROVE  c \in T
<1> SUFFICES ASSUME c \notin T
             PROVE  FALSE
  OBVIOUS
<1> DEFINE Rest(m) == Comment \ path[m]
           Rests == {Rest(m) : m \in T}
<1>1. T \subseteq comments /\ comments \subseteq Comment
  BY DEF PathsAreWhole, TypeOK
<1>2. IsWellFoundedOn(StrictSubsetOrdering(Comment), SUBSET Comment)
  BY StrictSubsetsOfComments
<1>3. Rests \subseteq SUBSET Comment /\ Rests # {}
  OBVIOUS
<1>4. PICK R \in Rests : \A Q \in Rests : <<Q, R>> \notin StrictSubsetOrdering(Comment)
  <2> HIDE DEF Rests
  <2> QED
    BY <1>2, <1>3, WFMin
<1>5. PICK m \in T : R = Rest(m)
  BY <1>4
<1>6. PICK d \in T : parent[d] = m
  BY <1>5
<1>7. path[d] = path[m] \cup {d} /\ d \notin path[m] /\ d \in Comment
  BY <1>1, <1>6, NullsAreApart DEF PathsFollowParents
<1>8. Rest(d) \subseteq Rest(m) /\ Rest(d) # Rest(m) /\ Rest(d) \in Rests
  BY <1>6, <1>7
<1>9. <<Rest(d), Rest(m)>> \in StrictSubsetOrdering(Comment)
  BY <1>8 DEF StrictSubsetOrdering
<1> QED
  BY <1>4, <1>5, <1>8, <1>9

-----------------------------------------------------------------------------
LEMMA WalkStaysInTable ==
    ASSUME TableInv, NEW taken \in SUBSET comments
    PROVE  /\ WithAncestors(taken) \subseteq comments
           /\ taken \subseteq WithAncestors(taken)
           /\ \A m \in WithAncestors(taken) :
                 parent[m] = NoParent \/ parent[m] \in WithAncestors(taken)
BY DEF TableInv, TypeOK, PathsAreWhole, WithAncestors

\* A row goes only with every row under it
LEMMA RowsGoWithRowsUnderThem ==
    ASSUME TypeOK, NEW doomed \in SUBSET comments, NEW gone, NEW auth, NEW hid,
           RowsGo(doomed, gone, auth, hid),
           NEW n \in doomed
    PROVE  ChildrenOf(n) \subseteq doomed
<1> DEFINE under == {c \in doomed : parent[c] = n}
<1>1. ChildrenOf(n) \in SUBSET Comment /\ under \in SUBSET ChildrenOf(n)
  BY DEF TypeOK, ChildrenOf
<1>2. Cardinality(ChildrenOf(n)) <= Cardinality(under)
  BY DEF RowsGo, RowMayGo
<1>3. ChildrenOf(n) = under
  <2> HIDE DEF under
  <2> QED
    BY <1>1, <1>2, AsManyIsAll
<1> QED
  BY <1>3

\* Hence nothing that remains in the table has lost a row above it
LEMMA SurvivorsKeepTheirPath ==
    ASSUME TableInv, NEW doomed \in SUBSET comments,
           \A n \in doomed : ChildrenOf(n) \subseteq doomed,
           NEW c \in comments \ doomed
    PROVE  path[c] \cap doomed = {}
<1> SUFFICES ASSUME path[c] \cap doomed # {}
             PROVE  FALSE
  OBVIOUS
<1> DEFINE T == path[c] \cap doomed
<1>1. ASSUME NEW m \in T, m # c
      PROVE  \E d \in T : parent[d] = m
  <2>1. PICK d \in path[c] : parent[d] = m
    BY <1>1 DEF TableInv, PathsAreWhole
  <2>2. d \in ChildrenOf(m)
    BY <2>1 DEF TableInv, PathsAreWhole, ChildrenOf
  <2> QED
    BY <2>1, <2>2
<1>2. c \in T
  <2> HIDE DEF T
  <2>1. T \in SUBSET path[c] /\ T # {}
    BY DEF T
  <2> QED
    BY <1>1, <2>1, PathDescent DEF TableInv
<1> QED
  BY <1>2

(***************************************************************************)
(* Any collapse leaves a whole table, whatever it was handed.  `wereShown' *)
(* is left open: the table does not depend on it.                          *)
(***************************************************************************)
LEMMA CollapseKeepsTable ==
    ASSUME TableInv,
           NEW taken \in SUBSET comments, NEW wereShown,
           NEW auth \in [Comment -> Reader \cup {NoAuthor}],
           NEW del \in SUBSET comments, deleted \subseteq del,
           NEW hid \in SUBSET del,
           Collapse(taken, wereShown, auth, del, hid)
    PROVE  TableInv'
<1> USE DEF TableInv
<1>a. PICK gone \in SUBSET WithAncestors(taken) :
        \E doomed \in SUBSET gone :
            /\ RowsGo(doomed, gone, auth, hid)
            /\ TakeAway(gone, doomed, taken, wereShown, auth, del, hid)
  BY DEF Collapse
<1>b. PICK doomed \in SUBSET gone :
        /\ RowsGo(doomed, gone, auth, hid)
        /\ TakeAway(gone, doomed, taken, wereShown, auth, del, hid)
  BY <1>a
<1>1. /\ comments' = comments \ doomed
      /\ parent' = [c \in Comment |-> IF c \in doomed THEN NoParent ELSE parent[c]]
      /\ path' = [c \in Comment |-> IF c \in doomed THEN {} ELSE path[c]]
      /\ author' = [c \in Comment |-> IF c \in doomed THEN NoAuthor ELSE auth[c]]
      /\ replyCount' = [c \in Comment |->
              IF c \in doomed THEN 0
              ELSE Decremented(c, LostBy(c, gone, taken, wereShown))]
      /\ deleted' = del \ doomed
      /\ hidden' = hid \ doomed
      /\ counted' = counted \ doomed
      /\ reported' = reported \ doomed
  BY <1>b DEF TakeAway
<1>2. gone \subseteq comments /\ doomed \subseteq comments
  BY WalkStaysInTable
<1>3. \A n \in doomed : ChildrenOf(n) \subseteq doomed
  BY <1>2, <1>b, RowsGoWithRowsUnderThem
<1>4. \A c \in comments' :
        /\ c \in comments \ doomed /\ c \in Comment
        /\ path[c] \cap doomed = {} /\ path'[c] = path[c] /\ parent'[c] = parent[c]
  BY <1>1, <1>2, <1>3, SurvivorsKeepTheirPath DEF TypeOK
<1>5. TypeOK'
  <2>1. \A n \in Comment : Decremented(n, LostBy(n, gone, taken, wereShown)) \in Nat
    <3> TAKE n \in Comment
    <3>1. LostBy(n, gone, taken, wereShown) \in Nat
      BY <1>2, SetsOfComments DEF LostBy, TypeOK
    <3> QED
      BY <3>1 DEF Decremented, TypeOK
  <2>2. replyCount' \in [Comment -> Nat]
    BY <1>1, <2>1
  <2>3. parent' \in [Comment -> Comment \cup {NoParent}] /\ path' \in [Comment -> SUBSET Comment]
    BY <1>1 DEF TypeOK
  <2>4. author' \in [Comment -> Reader \cup {NoAuthor}]
    BY <1>1
  <2>5. /\ comments' \subseteq Comment /\ deleted' \subseteq comments'
        /\ hidden' \subseteq deleted' /\ counted' \subseteq deleted' /\ reported' \subseteq comments'
    BY <1>1 DEF TypeOK
  <2> QED
    BY <2>2, <2>3, <2>4, <2>5 DEF TypeOK
<1>6. FreeIdsAreBlank'
  <2> SUFFICES ASSUME NEW c \in Comment, c \notin comments'
               PROVE  parent'[c] = NoParent /\ replyCount'[c] = 0
    BY DEF FreeIdsAreBlank
  <2>1. CASE c \in doomed
    BY <1>1, <2>1
  <2>2. CASE c \notin doomed
    <3>1. c \notin comments /\ parent[c] = NoParent /\ replyCount[c] = 0
      BY <1>1, <2>2 DEF FreeIdsAreBlank
    <3>2. \A d \in gone : parent[d] # c
      BY <1>2, <3>1, NullsAreApart DEF PathsFollowParents
    <3>3. LostBy(c, gone, taken, wereShown) = 0
      BY <3>2, FS_EmptySet DEF LostBy
    <3> QED
      BY <1>1, <2>2, <3>1, <3>3 DEF Decremented
  <2> QED
    BY <2>1, <2>2
<1>7. PathsFollowParents'
  <2> SUFFICES ASSUME NEW c \in comments'
               PROVE  IF parent'[c] = NoParent
                      THEN path'[c] = {c}
                      ELSE /\ parent'[c] \in comments'
                           /\ c \notin path'[parent'[c]]
                           /\ path'[c] = path'[parent'[c]] \cup {c}
    BY DEF PathsFollowParents
  <2>1. CASE parent[c] = NoParent
    BY <1>4, <2>1 DEF PathsFollowParents
  <2>2. CASE parent[c] # NoParent
    <3>1. parent[c] \in comments /\ parent[c] \in path[c]
      BY <1>4, <2>2 DEF PathsFollowParents, PathsAreWhole
    <3>2. parent[c] \in comments'
      BY <1>1, <1>4, <3>1
    <3> QED
      BY <1>4, <2>2, <3>2 DEF PathsFollowParents
  <2> QED
    BY <2>1, <2>2
<1>8. PathsAreWhole'
  <2> SUFFICES ASSUME NEW c \in comments'
               PROVE  /\ c \in path'[c]
                      /\ path'[c] \subseteq comments'
                      /\ \A m \in path'[c] : parent'[m] = NoParent \/ parent'[m] \in path'[c]
                      /\ \A m \in path'[c] \ {c} : \E d \in path'[c] : parent'[d] = m
    BY DEF PathsAreWhole
  <2>1. path[c] \subseteq comments'
    BY <1>1, <1>4 DEF PathsAreWhole
  <2>2. \A m \in path[c] : parent'[m] = parent[m]
    BY <1>4, <2>1
  <2> QED
    BY <1>4, <2>1, <2>2 DEF PathsAreWhole
<1> QED
  BY <1>5, <1>6, <1>7, <1>8

-----------------------------------------------------------------------------
\* What a collapse leaves standing, and what it leaves as it was
StandsAfter(del, auth, hid) ==
    /\ comments' \ deleted' = comments \ del
    /\ \A n \in comments' :
          n \in comments /\ path'[n] = path[n] /\ author'[n] = auth[n]
    /\ \A x \in comments \cap (hid \cup counted \cup reported) :
          auth[x] # NoAuthor => x \in comments'

LEMMA CollapseLeaves ==
    ASSUME TableInv,
           NEW taken \in SUBSET comments, NEW wereShown, NEW auth,
           NEW del \in SUBSET comments, NEW hid,
           Collapse(taken, wereShown, auth, del, hid)
    PROVE  StandsAfter(del, auth, hid)
<1> USE DEF TableInv, StandsAfter
<1>1. PICK gone \in SUBSET WithAncestors(taken) :
        /\ GoFromView(gone, taken, del)
        /\ \E doomed \in SUBSET gone :
            /\ RowsGo(doomed, gone, auth, hid)
            /\ TakeAway(gone, doomed, taken, wereShown, auth, del, hid)
  BY DEF Collapse
<1>2. PICK doomed \in SUBSET gone :
        /\ RowsGo(doomed, gone, auth, hid)
        /\ TakeAway(gone, doomed, taken, wereShown, auth, del, hid)
  BY <1>1
<1>3. doomed \subseteq del
  BY <1>1 DEF GoFromView, LeavesView
<1>4. comments' \ deleted' = comments \ del
  BY <1>2, <1>3 DEF TakeAway
<1>5. \A n \in comments' :
        n \in comments /\ path'[n] = path[n] /\ author'[n] = auth[n]
  BY <1>2 DEF TakeAway, TypeOK
<1>6. \A x \in comments \cap (hid \cup counted \cup reported) :
        auth[x] # NoAuthor => x \in comments'
  BY <1>2 DEF RowsGo, RowMayGo, TakeAway
<1> QED
  BY <1>4, <1>5, <1>6

-----------------------------------------------------------------------------
(***************************************************************************)
(* The page.  With counts that tell what is shown and with nothing         *)
(* standing cut off, the comments on the page are those on the path of     *)
(* something that stands, and a path tells what hangs directly under what. *)
(***************************************************************************)
LEMMA PathsTellApart ==
    ASSUME TableInv, NEW c \in comments, NEW n \in comments, path[c] = path[n]
    PROVE  c = n
<1> USE DEF TableInv
<1> SUFFICES ASSUME c # n
             PROVE  FALSE
  OBVIOUS
<1>1. c \in path[n] \ {n}
  BY DEF PathsAreWhole
<1>2. PICK d \in path[n] : parent[d] = c
  BY <1>1 DEF PathsAreWhole
<1>3. d \in comments /\ c \in Comment
  BY DEF PathsAreWhole, TypeOK
<1>4. d \notin path[c]
  BY <1>2, <1>3, NullsAreApart DEF PathsFollowParents
<1> QED
  BY <1>2, <1>4

LEMMA ChildrenByPath ==
    ASSUME TableInv, NEW c \in comments, NEW n \in comments
    PROVE  parent[c] = n <=> path[c] \ {c} = path[n]
<1> USE DEF TableInv
<1>1. n \in Comment /\ n \in path[n] /\ c \in path[c]
  BY DEF PathsAreWhole, TypeOK
<1>2. CASE parent[c] = NoParent
  <2>1. path[c] \ {c} = {}
    BY <1>2 DEF PathsFollowParents
  <2> QED
    BY <1>1, <1>2, <2>1, NullsAreApart
<1>3. CASE parent[c] # NoParent
  <2>1. parent[c] \in comments /\ path[c] \ {c} = path[parent[c]]
    BY <1>3 DEF PathsFollowParents
  <2> QED
    BY <2>1, PathsTellApart
<1> QED
  BY <1>2, <1>3

Shown(n) == n \notin deleted \/ replyCount[n] > 0

\* The instance counts as this module does
LEMMA SameCount == \A S : Promise!Cardinality(S) = Cardinality(S)
BY DEF Cardinality, Promise!Cardinality

PageIsHeld == OnPage = Promise!Held(comments \ deleted, [n \in OnPage |-> path[n]])

RepliesTally ==
    \A n \in OnPage :
        replyCount[n] = Cardinality(Promise!DirectlyUnder(n, [m \in OnPage |-> path[m]]))

\* Of the comments shown above or as a given one, take one as far down as they go: were it
\* a placeholder, its count would promise another below.
LEMMA OnPageIsHeld == Whole => PageIsHeld
<1> SUFFICES ASSUME Whole
             PROVE  PageIsHeld
  OBVIOUS
<1> USE DEF Whole, TableInv, Sound
<1>1. OnPage = {n \in comments : Shown(n)} /\ OnPage \subseteq Comment /\ OnPage \subseteq comments
  BY DEF OnPage, OutOfView, Shown, TypeOK
<1>2. comments \ deleted \subseteq OnPage
  BY DEF OnPage, OutOfView
<1>3. \A s \in comments \ deleted : path[s] \subseteq OnPage
  BY DEF StandingIsReachable, OnPage, PathsAreWhole
<1>4. ASSUME NEW n \in OnPage
      PROVE  \E s \in comments \ deleted : n \in path[s]
  <2> SUFFICES ASSUME \A s \in comments \ deleted : n \notin path[s]
               PROVE  FALSE
    OBVIOUS
  <2> DEFINE Below == {m \in OnPage : n \in path[m]}
             Rest(m) == Comment \ path[m]
             Rests == {Rest(m) : m \in Below}
  <2>1. n \in Below
    BY <1>1 DEF PathsAreWhole
  <2>2. Rests \subseteq SUBSET Comment /\ Rests # {}
    BY <2>1
  <2>3. PICK R \in Rests : \A Q \in Rests : <<Q, R>> \notin StrictSubsetOrdering(Comment)
    <3>1. IsWellFoundedOn(StrictSubsetOrdering(Comment), SUBSET Comment)
      BY StrictSubsetsOfComments
    <3> HIDE DEF Rests
    <3> QED
      BY <2>2, <3>1, WFMin
  <2>4. PICK m \in Below : R = Rest(m)
    BY <2>3
  <2>5. m \in comments /\ n \in path[m] /\ m \in deleted /\ replyCount[m] > 0
    BY <1>1, <2>4 DEF Shown
  <2>6. ShownChildrenOf(m, deleted) # {}
    <3>1. /\ replyCount[m] = Cardinality(ShownChildrenOf(m, deleted)) 
          /\ ShownChildrenOf(m, deleted) \in SUBSET Comment
      BY <2>5 DEF ReplyCountIsShown, ShownChildrenOf, ChildrenOf, TypeOK
    <3>2. Cardinality(ShownChildrenOf(m, deleted)) # 0
      BY <2>5, <3>1
    <3> QED
      BY <3>1, <3>2, NoneIsEmpty
  <2>7. PICK d \in ShownChildrenOf(m, deleted) : TRUE
    BY <2>6
  <2>8. d \in comments /\ parent[d] = m /\ Shown(d) /\ d \in Comment /\ m \in Comment
    BY <2>5, <2>7 DEF ShownChildrenOf, ChildrenOf, CountsAsShown, Shown, TypeOK
  <2>9. path[d] = path[m] \cup {d} /\ d \notin path[m]
    BY <2>8, NullsAreApart DEF PathsFollowParents
  <2>10. d \in Below
    BY <1>1, <2>5, <2>8, <2>9
  <2>11. Rest(d) \subseteq Rest(m) /\ Rest(d) # Rest(m) /\ Rest(d) \in Rests
    BY <2>8, <2>9, <2>10
  <2>12. <<Rest(d), Rest(m)>> \in StrictSubsetOrdering(Comment)
    BY <2>11 DEF StrictSubsetOrdering
  <2> QED
    BY <2>3, <2>4, <2>11, <2>12
<1>5. \A s \in comments \ deleted : [n \in OnPage |-> path[n]][s] = path[s]
  BY <1>2
<1>6. Promise!Held(comments \ deleted, [n \in OnPage |-> path[n]])
        = UNION {path[s] : s \in comments \ deleted}
  BY <1>5 DEF Promise!Held
<1> QED
  BY <1>3, <1>4, <1>6 DEF PageIsHeld

\* The number beside a comment is the number one would count
LEMMA RepliesAreDirectlyUnder == Whole => RepliesTally
<1> SUFFICES ASSUME Whole, NEW n \in OnPage
             PROVE  replyCount[n]
                      = Cardinality(Promise!DirectlyUnder(n, [m \in OnPage |-> path[m]]))
  BY DEF RepliesTally
<1> USE DEF Whole, TableInv, Sound
<1>1. n \in comments /\ OnPage \subseteq comments /\ OnPage = {c \in comments : Shown(c)}
  BY DEF OnPage, OutOfView, Shown, TypeOK
<1>2. Promise!DirectlyUnder(n, [m \in OnPage |-> path[m]])
        = {c \in OnPage : path[c] \ {c} = path[n]}
  BY DEF Promise!DirectlyUnder
<1>3. ShownChildrenOf(n, deleted) = {c \in comments : parent[c] = n /\ Shown(c)}
  BY DEF ShownChildrenOf, ChildrenOf, CountsAsShown, Shown
<1>4. \A c \in OnPage : parent[c] = n <=> path[c] \ {c} = path[n]
  BY <1>1, ChildrenByPath
<1>5. ShownChildrenOf(n, deleted) = {c \in OnPage : path[c] \ {c} = path[n]}
  BY <1>1, <1>3, <1>4
<1> QED
  BY <1>1, <1>2, <1>5 DEF ReplyCountIsShown

\* So the page after a step is that of DiscussionPromise, if what stands has the paths it says
PageFollows(up, chain) ==
    /\ comments' \ deleted' = up
    /\ \A n \in OnPage' : chain[n] = path'[n]

LEMMA PageShows ==
    ASSUME Whole', NEW up, NEW chain, PageFollows(up, chain)
    PROVE  Promise!Shows(up, chain)
<1> USE DEF PageFollows
<1>1. PageIsHeld' /\ RepliesTally'
  BY OnPageIsHeld, RepliesAreDirectlyUnder, PTL
<1>2. comments' \ deleted' \subseteq OnPage'
  BY DEF OnPage, OutOfView
<1>3. OnPage' = Promise!Held(up, chain)
  BY <1>1, <1>2 DEF PageIsHeld, Promise!Held
<1>4. [n \in OnPage |-> path[n]]' = [n \in Promise!Held(up, chain) |-> chain[n]]
  BY <1>3
<1>5. [n \in OnPage |-> replyCount[n]]'
        = [n \in DOMAIN [m \in OnPage |-> path[m]]' |->
             Cardinality(Promise!DirectlyUnder(n, [m \in OnPage |-> path[m]]'))]
  BY <1>1 DEF RepliesTally
<1>6. [n \in OnPage |-> replyCount[n]]'
        = [n \in DOMAIN [m \in OnPage |-> path[m]]' |->
             Promise!Cardinality(Promise!DirectlyUnder(n, [m \in OnPage |-> path[m]]'))]
  BY <1>5, SameCount
<1> QED
  BY <1>4, <1>6 DEF Promise!Shows

(***************************************************************************)
(* Plain takedowns.  No comment of the set is above another, and all above *)
(* them are shown, so each is judged as it would be alone; what they share *)
(* is judged by the replies all of them together take from it.             *)
(***************************************************************************)
LostUnder(gone, taken, wereShown, n) ==
    {d \in gone : parent[d] = n /\ (d \notin taken \/ d \in wereShown)}

\* A comment the walk comes by goes exactly if it is down and all it counts have gone with it
WalkIsFair(gone, taken, wereShown) ==
    /\ gone \subseteq comments /\ gone \subseteq deleted \cup taken
    /\ \A m \in WithAncestors(taken) \ taken : ~OutOfView(m)
    /\ \A c \in taken : c \in gone <=> replyCount[c] = 0
    /\ \A n \in comments :
         /\ LostUnder(gone, taken, wereShown, n) \in SUBSET ShownChildrenOf(n, deleted)
         /\ replyCount[n] - Cardinality(LostUnder(gone, taken, wereShown, n)) \in Nat
         /\ n \notin WithAncestors(taken) => LostUnder(gone, taken, wereShown, n) = {}
    /\ \A n \in WithAncestors(taken) :
         n \in gone <=>
             /\ n \in deleted \cup taken
             /\ replyCount[n] = Cardinality(LostUnder(gone, taken, wereShown, n))

\* A plain takedown is fair to all it comes by.
LEMMA PlainWalk ==
    ASSUME TableInv, ReplyCountIsShown,
           NEW taken \in SUBSET comments, Plain(taken),
           NEW wereShown, \A c \in taken : c \in wereShown <=> ~OutOfView(c),
           NEW gone \in SUBSET WithAncestors(taken),
           GoFromView(gone, taken, deleted \cup taken)
    PROVE  WalkIsFair(gone, taken, wereShown)
<1> USE DEF TableInv
<1> DEFINE del == deleted \cup taken
           Lost(n) == LostUnder(gone, taken, wereShown, n)
           Others(n) == {d \in gone \ taken : parent[d] = n}
           Leaves(n) == {d \in taken : parent[d] = n /\ d \in wereShown /\ replyCount[d] = 0}
<1>1. /\ gone \subseteq del /\ gone \subseteq comments
      /\ WithAncestors(taken) \subseteq comments /\ comments \subseteq Comment
  BY WalkStaysInTable DEF GoFromView, LeavesView, TypeOK
<1>2. \A m \in WithAncestors(taken) \ taken : ~OutOfView(m)
  BY DEF WithAncestors, Plain
<1>3. \A n \in comments : Lost(n) \in SUBSET ShownChildrenOf(n, deleted)
  BY <1>1, <1>2 DEF LostUnder, ShownChildrenOf, ChildrenOf, CountsAsShown, OutOfView, TypeOK
<1>4. \A n \in comments : replyCount[n] - Cardinality(Lost(n)) \in Nat
  <2> TAKE n \in comments
  <2>1. ShownChildrenOf(n, deleted) \in SUBSET Comment
    BY <1>1 DEF ShownChildrenOf, ChildrenOf
  <2>2. Cardinality(ShownChildrenOf(n, deleted) \ Lost(n)) = replyCount[n] - Cardinality(Lost(n))
    <3> HIDE DEF Lost
    <3> QED
      BY <1>3, <2>1, TakenAway DEF ReplyCountIsShown
  <2>3. Cardinality(ShownChildrenOf(n, deleted) \ Lost(n)) \in Nat
    BY <2>1, SetsOfComments
  <2> QED
    BY <2>2, <2>3
<1>5. \A n \in comments : n \notin WithAncestors(taken) => Lost(n) = {}
  BY WalkStaysInTable, NullsAreApart, <1>1 DEF LostUnder
<1>6. ASSUME NEW c \in taken
      PROVE  ChildrenOf(c) \cap WithAncestors(taken) = {}
  <2> SUFFICES ASSUME NEW d \in ChildrenOf(c), d \in WithAncestors(taken)
               PROVE  FALSE
    OBVIOUS
  <2>1. PICK t \in taken : d \in path[t]
    BY DEF WithAncestors
  <2>2. d \in comments /\ parent[d] = c /\ c # NoParent
    BY <1>1, NullsAreApart DEF ChildrenOf
  <2>3. c \in path[t]
    BY <2>1, <2>2 DEF PathsAreWhole
  <2>4. c = t
    BY <2>3 DEF Plain
  <2>5. (d # c /\ d \notin taken) \/ d = c
    BY <2>1, <2>4 DEF Plain
  <2>6. parent[c] = NoParent \/ c \notin path[parent[c]]
    BY DEF PathsFollowParents
  <2>7. d # c
    BY <2>2, <2>6 DEF PathsFollowParents, PathsAreWhole
  <2>8. path[d] = path[c] \cup {d} /\ d \notin path[c]
    BY <2>2 DEF PathsFollowParents
  <2> QED
    BY <2>1, <2>4, <2>8
<1>7. ASSUME NEW c \in taken
      PROVE  c \in gone <=> replyCount[c] = 0
  <2>0. c \in comments /\ c \in WithAncestors(taken) /\ replyCount[c] \in Nat
    BY WalkStaysInTable DEF TypeOK
  <2>1. Others(c) = {}
    BY <1>1, <1>6 DEF ChildrenOf
  <2>2. ShownChildrenOf(c, del) = ShownChildrenOf(c, deleted)
    BY <1>6, WalkStaysInTable DEF ShownChildrenOf, CountsAsShown
  <2>3. c \in gone <=> Cardinality(ShownChildrenOf(c, del)) <= Cardinality(Others(c))
    BY <2>0 DEF GoFromView, LeavesView
  <2>4. c \in gone <=> replyCount[c] <= 0
    BY <2>0, <2>1, <2>2, <2>3, FS_EmptySet DEF ReplyCountIsShown
  <2> QED
    BY <2>0, <2>4
<1>8. \A n \in comments :
        Cardinality(ShownChildrenOf(n, del)) - Cardinality(Others(n))
          = replyCount[n] - Cardinality(Lost(n))
  <2> TAKE n \in comments
  <2>1. ShownChildrenOf(n, del) = ShownChildrenOf(n, deleted) \ Leaves(n)
    BY <1>1 DEF ShownChildrenOf, ChildrenOf, CountsAsShown, OutOfView, TypeOK
  <2>2. Leaves(n) \subseteq ShownChildrenOf(n, deleted)
    BY <1>1 DEF ShownChildrenOf, ChildrenOf, CountsAsShown, OutOfView, TypeOK
  <2>3. Others(n) = Lost(n) \ Leaves(n) /\ Leaves(n) \subseteq Lost(n)
    BY <1>7 DEF LostUnder
  <2>4. ShownChildrenOf(n, deleted) \in SUBSET Comment /\ Lost(n) \in SUBSET Comment
    BY <1>1 DEF ShownChildrenOf, ChildrenOf, LostUnder
  <2>5. Cardinality(ShownChildrenOf(n, del)) = replyCount[n] - Cardinality(Leaves(n))
    <3> HIDE DEF Leaves
    <3> QED
      BY <2>1, <2>2, <2>4, TakenAway DEF ReplyCountIsShown
  <2>6. Cardinality(Others(n)) = Cardinality(Lost(n)) - Cardinality(Leaves(n))
    <3> HIDE DEF Leaves, Others, Lost
    <3> QED
      BY <2>3, <2>4, TakenAway
  <2>7. Cardinality(Leaves(n)) \in Nat /\ Cardinality(Lost(n)) \in Nat /\ replyCount[n] \in Nat
    <3>1. Leaves(n) \in SUBSET Comment
      BY <1>1
    <3> HIDE DEF Leaves, Lost
    <3> QED
      BY <1>1, <2>4, <3>1, SetsOfComments DEF TypeOK
  <2> HIDE DEF Leaves, Others, Lost, del
  <2> QED
    BY <2>5, <2>6, <2>7
<1>9. \A n \in WithAncestors(taken) :
        n \in gone <=> n \in del /\ replyCount[n] = Cardinality(Lost(n))
  <2> TAKE n \in WithAncestors(taken)
  <2>1. n \in gone <=>
          n \in del /\ Cardinality(ShownChildrenOf(n, del)) <= Cardinality(Others(n))
    BY DEF GoFromView, LeavesView
  <2>2. /\ Cardinality(ShownChildrenOf(n, del)) \in Nat
        /\ Cardinality(Others(n)) \in Nat
        /\ Cardinality(Lost(n)) \in Nat
    BY <1>1, SetsOfComments DEF ShownChildrenOf, ChildrenOf, LostUnder
  <2>3. /\ Cardinality(ShownChildrenOf(n, del)) - Cardinality(Others(n))
             = replyCount[n] - Cardinality(Lost(n))
        /\ replyCount[n] - Cardinality(Lost(n)) \in Nat
        /\ replyCount[n] \in Nat
    BY <1>1, <1>4, <1>8 DEF TypeOK
  <2>4. Cardinality(ShownChildrenOf(n, del)) <= Cardinality(Others(n))
          <=> replyCount[n] = Cardinality(Lost(n))
    <3> HIDE DEF Others, Lost, del, TableInv
    <3> QED
      BY <2>2, <2>3
  <2> QED
    BY <2>1, <2>4
<1> QED
  BY <1>1, <1>2, <1>3, <1>4, <1>5, <1>7, <1>9 DEF WalkIsFair

\* A plain takedown leaves counts, page and table as sound as it found them: a comment that
\* survives is shown afterwards exactly when it was shown before and the walk did not pass it.
LEMMA PlainTakedown ==
    ASSUME TableInv, Sound,
           NEW taken \in SUBSET comments, Plain(taken),
           NEW wereShown, \A c \in taken : c \in wereShown <=> ~OutOfView(c),
           NEW auth \in [Comment -> Reader \cup {NoAuthor}],
           \A c \in Comment \ taken : auth[c] = author[c],
           NEW hid \in SUBSET (deleted \cup taken), hidden \subseteq hid,
           Collapse(taken, wereShown, auth, deleted \cup taken, hid)
    PROVE  Sound'
<1> USE DEF TableInv, Sound
<1> DEFINE del == deleted \cup taken
           walk == WithAncestors(taken)
<1>a. PICK gone \in SUBSET walk :
        /\ GoFromView(gone, taken, del)
        /\ \E doomed \in SUBSET gone :
            /\ RowsGo(doomed, gone, auth, hid)
            /\ TakeAway(gone, doomed, taken, wereShown, auth, del, hid)
  BY DEF Collapse
<1>b. PICK doomed \in SUBSET gone :
        /\ RowsGo(doomed, gone, auth, hid)
        /\ TakeAway(gone, doomed, taken, wereShown, auth, del, hid)
  BY <1>a
<1> DEFINE Lost(n) == LostUnder(gone, taken, wereShown, n)
<1>1. /\ comments' = comments \ doomed
      /\ parent' = [n \in Comment |-> IF n \in doomed THEN NoParent ELSE parent[n]]
      /\ path' = [n \in Comment |-> IF n \in doomed THEN {} ELSE path[n]]
      /\ author' = [n \in Comment |-> IF n \in doomed THEN NoAuthor ELSE auth[n]]
      /\ replyCount' = [n \in Comment |->
              IF n \in doomed THEN 0 ELSE Decremented(n, LostBy(n, gone, taken, wereShown))]
      /\ deleted' = del \ doomed
      /\ hidden' = hid \ doomed
      /\ counted' = counted \ doomed
      /\ reported' = reported \ doomed
  BY <1>b DEF TakeAway
<1>2. /\ gone \subseteq comments /\ gone \subseteq del
      /\ \A m \in walk \ taken : ~OutOfView(m)
      /\ \A c \in taken : c \in gone <=> replyCount[c] = 0
      /\ \A n \in comments :
           /\ Lost(n) \in SUBSET ShownChildrenOf(n, deleted)
           /\ replyCount[n] - Cardinality(Lost(n)) \in Nat
           /\ n \notin walk => Lost(n) = {}
      /\ \A n \in walk : n \in gone <=> n \in del /\ replyCount[n] = Cardinality(Lost(n))
  <2>1. ReplyCountIsShown /\ gone \in SUBSET WithAncestors(taken)
        /\ GoFromView(gone, taken, deleted \cup taken)
    BY <1>a
  <2>2. WalkIsFair(gone, taken, wereShown)
    <3> HIDE DEF Sound, TableInv
    <3> QED
      BY <2>1, PlainWalk
  <2> QED
    BY <2>2 DEF WalkIsFair
<1>3. /\ walk \subseteq comments /\ taken \subseteq walk /\ comments \subseteq Comment
      /\ doomed \subseteq comments
      /\ \A m \in walk : parent[m] = NoParent \/ parent[m] \in walk
  BY <1>2, WalkStaysInTable DEF TypeOK
<1>4. TableInv'
  <2>1. del \in SUBSET comments /\ deleted \subseteq del /\ hid \in SUBSET del
    BY DEF TypeOK
  <2> QED
    BY <2>1, CollapseKeepsTable
<1>5. \A n \in comments' :
        /\ n \in comments /\ n \in Comment /\ n \notin doomed
        /\ replyCount'[n] = replyCount[n] - Cardinality(Lost(n))
        /\ parent'[n] = parent[n] /\ path'[n] = path[n] /\ author'[n] = auth[n]
  <2> TAKE n \in comments'
  <2>1. n \in comments /\ n \in Comment /\ n \notin doomed
    BY <1>1, <1>3
  <2>2. Cardinality(Lost(n)) \in Nat
    BY <1>2, <1>3, SetsOfComments DEF LostUnder
  <2>3. Decremented(n, LostBy(n, gone, taken, wereShown)) = replyCount[n] - Cardinality(Lost(n))
    <3>1. /\ LostBy(n, gone, taken, wereShown) = Cardinality(Lost(n))
          /\ replyCount[n] - Cardinality(Lost(n)) \in Nat
          /\ replyCount[n] \in Nat
      BY <1>2, <2>1 DEF LostBy, LostUnder, TypeOK
    <3>2. replyCount[n] >= Cardinality(Lost(n))
      <4> HIDE DEF Lost
      <4> QED
        BY <2>2, <3>1
    <3> QED
      BY <3>1, <3>2 DEF Decremented
  <2> QED
    BY <1>1, <2>1, <2>3
<1>6. \A n \in comments' : Shown(n)' <=> Shown(n) /\ n \notin gone
  <2> TAKE n \in comments'
  <2>1. n \in comments /\ n \notin doomed /\ replyCount[n] \in Nat
    BY <1>5 DEF TypeOK
  <2>2. CASE n \in walk
    <3>1. n \in gone <=> n \in del /\ ~(replyCount'[n] > 0)
      <4>1. replyCount'[n] = replyCount[n] - Cardinality(Lost(n)) /\ replyCount'[n] \in Nat
        BY <1>2, <1>5, <2>1
      <4>2. Cardinality(Lost(n)) \in Nat
        BY <1>2, <1>3, SetsOfComments DEF LostUnder
      <4>3. n \in gone <=> n \in del /\ replyCount[n] = Cardinality(Lost(n))
        BY <1>2, <2>2
      <4> HIDE DEF Lost
      <4> QED
        BY <2>1, <4>1, <4>2, <4>3
    <3>2. n \notin gone => Shown(n)
      BY <1>2, <2>1, <2>2 DEF OutOfView, Shown
    <3> QED
      BY <1>1, <2>1, <3>1, <3>2 DEF Shown
  <2>3. CASE n \notin walk
    <3>1. replyCount'[n] = replyCount[n]
      <4>1. Cardinality(Lost(n)) = 0
        BY <1>2, <2>1, <2>3, FS_EmptySet
      <4> QED
        BY <1>5, <2>1, <4>1
    <3> QED
      BY <1>1, <1>3, <2>1, <2>3, <3>1 DEF Shown
  <2> QED
    BY <2>2, <2>3
<1>7. ReplyCountIsShown'
  <2> SUFFICES ASSUME NEW n \in comments'
               PROVE  replyCount'[n] = Cardinality(ShownChildrenOf(n, deleted)')
    BY DEF ReplyCountIsShown
  <2>1. ShownChildrenOf(n, deleted)' = {x \in comments' : parent'[x] = n /\ Shown(x)'}
    BY DEF ShownChildrenOf, ChildrenOf, CountsAsShown, Shown
  <2>2. ShownChildrenOf(n, deleted) = {x \in comments : parent[x] = n /\ Shown(x)}
    BY DEF ShownChildrenOf, ChildrenOf, CountsAsShown, Shown
  <2>3. \A x \in gone : parent[x] = n /\ Shown(x) => x \in Lost(n)
    BY <1>2 DEF LostUnder, Shown, OutOfView, TypeOK
  <2>4. ShownChildrenOf(n, deleted)' = ShownChildrenOf(n, deleted) \ Lost(n)
    BY <1>1, <1>5, <1>6, <2>1, <2>2, <2>3 DEF LostUnder
  <2>5. /\ ShownChildrenOf(n, deleted) \in SUBSET Comment
        /\ Lost(n) \in SUBSET ShownChildrenOf(n, deleted)
        /\ replyCount[n] = Cardinality(ShownChildrenOf(n, deleted))
    BY <1>2, <1>3, <1>5, <2>2 DEF ReplyCountIsShown
  <2>6. Cardinality(ShownChildrenOf(n, deleted) \ Lost(n))
          = Cardinality(ShownChildrenOf(n, deleted)) - Cardinality(Lost(n))
    <3> HIDE DEF Lost
    <3> QED
      BY <2>5, TakenAway
  <2> QED
    BY <1>5, <2>4, <2>5, <2>6
<1>8. StandingIsReachable'
  <2> SUFFICES ASSUME NEW s \in comments' \ deleted', NEW n \in path'[s]
               PROVE  Shown(n)'
    BY <1>4 DEF StandingIsReachable, OutOfView, Shown, TypeOK, PathsAreWhole
  <2>1. s \in comments \ del /\ path'[s] = path[s]
    BY <1>1, <1>5
  <2>2. \A m \in path[s] : Shown(m)
    BY <2>1 DEF StandingIsReachable, OutOfView, Shown, TypeOK, PathsAreWhole
  <2>3. path[s] \cap gone = {}
    <3> SUFFICES ASSUME path[s] \cap gone # {}
                 PROVE  FALSE
      OBVIOUS
    <3> DEFINE T == path[s] \cap gone
    <3>1. ASSUME NEW m \in T, m # s
          PROVE  \E d \in T : parent[d] = m
      <4>1. PICK d \in path[s] : parent[d] = m
        BY <2>1, <3>1 DEF PathsAreWhole
      <4>2. d \in ShownChildrenOf(m, deleted)
        BY <2>1, <2>2, <4>1
           DEF PathsAreWhole, ShownChildrenOf, ChildrenOf, CountsAsShown, Shown
      <4>3. m \in comments /\ replyCount[m] = Cardinality(Lost(m))
        BY <1>2, <1>3
      <4>4. /\ ShownChildrenOf(m, deleted) \in SUBSET Comment
            /\ Lost(m) \in SUBSET ShownChildrenOf(m, deleted)
            /\ Cardinality(ShownChildrenOf(m, deleted)) = Cardinality(Lost(m))
        BY <1>2, <1>3, <4>3 DEF ReplyCountIsShown, ShownChildrenOf, ChildrenOf
      <4>5. Cardinality(Lost(m)) \in Nat
        BY <4>4, SetsOfComments
      <4>6. ShownChildrenOf(m, deleted) = Lost(m)
        <5> HIDE DEF Lost
        <5> QED
          BY <4>4, <4>5, AsManyIsAll
      <4> QED
        BY <4>1, <4>2, <4>6 DEF LostUnder
    <3>2. s \in T
      <4> HIDE DEF T
      <4>1. T \in SUBSET path[s] /\ T # {}
        BY DEF T
      <4> QED
        BY <2>1, <3>1, <4>1, PathDescent
    <3> QED
      BY <1>2, <2>1, <3>2
  <2>4. n \in comments'
    BY <1>4 DEF PathsAreWhole
  <2> QED
    BY <1>6, <2>1, <2>2, <2>3, <2>4
<1>9. NoEmptyPlaceholder'
  <2> SUFFICES ASSUME NEW n \in deleted', ChildrenOf(n)' = {}
               PROVE  author'[n] # NoAuthor /\ n \in hidden' \cup counted' \cup reported'
    BY DEF NoEmptyPlaceholder
  <2>1. n \in del /\ n \notin doomed /\ n \in comments'
    BY <1>1, <1>4 DEF TypeOK
  <2>2. ChildrenOf(n) \subseteq doomed
    BY <1>1, <1>5 DEF ChildrenOf
  <2>3. CASE n \in gone
    <3>1. ChildrenOf(n) = {x \in doomed : parent[x] = n}
      BY <1>3, <2>2 DEF ChildrenOf
    <3>2. Cardinality(ChildrenOf(n)) <= Cardinality({x \in doomed : parent[x] = n})
      <4>1. Cardinality(ChildrenOf(n)) \in Nat
        BY <1>3, SetsOfComments DEF ChildrenOf
      <4> QED
        BY <3>1, <4>1
    <3>3. auth[n] # NoAuthor /\ n \in hid \cup counted \cup reported
      BY <1>b, <2>1, <2>3, <3>2 DEF RowsGo, RowMayGo
    <3> QED
      BY <1>1, <1>5, <2>1, <3>3
  <2>4. CASE n \notin gone /\ n \in walk
    <3>1. ShownChildrenOf(n, deleted) \subseteq Lost(n)
      BY <1>2, <2>2 DEF ShownChildrenOf, ChildrenOf, CountsAsShown, LostUnder, OutOfView, TypeOK
    <3>2. ShownChildrenOf(n, deleted) = Lost(n)
      BY <1>2, <1>3, <2>4, <3>1
    <3> QED
      BY <1>2, <1>3, <2>1, <2>4, <3>2 DEF ReplyCountIsShown
  <2>5. CASE n \notin walk
    <3>1. ChildrenOf(n) = {}
      BY <1>2, <1>3, <2>1, <2>2, <2>5, NullsAreApart DEF ChildrenOf, TypeOK
    <3>2. n \in deleted /\ n \notin taken
      BY <1>3, <2>1, <2>5
    <3>3. author[n] # NoAuthor /\ n \in hidden \cup counted \cup reported
      BY <3>1, <3>2 DEF NoEmptyPlaceholder
    <3> QED
      BY <1>1, <1>5, <2>1, <3>2, <3>3
  <2> QED
    BY <2>3, <2>4, <2>5
<1> QED
  BY <1>7, <1>8, <1>9

\* What comes down leaves the page, and with it the places that held nothing else
LEMMA TakedownShows ==
    ASSUME Whole, Whole',
           NEW taken \in SUBSET comments, NEW wereShown, NEW auth, NEW hid,
           Collapse(taken, wereShown, auth, deleted \cup taken, hid),
           NEW some, some = taken \ deleted
    PROVE  Promise!TakeDown(some)
<1> DEFINE standing == comments \ deleted
<1>0. PICK chain : chain = [n \in OnPage |-> path[n]]
  OBVIOUS
<1>1. deleted \cup taken \in SUBSET comments /\ TableInv
  BY DEF Whole, TableInv, TypeOK
<1>2. /\ comments' \ deleted' = standing \ (taken \ deleted)
      /\ \A n \in comments' : n \in comments /\ path'[n] = path[n]
  <2>1. StandsAfter(deleted \cup taken, auth, hid)
    BY <1>1, CollapseLeaves
  <2> QED
    BY <2>1 DEF StandsAfter
<1>3. \A n \in OnPage' : n \in OnPage /\ path'[n] = path[n]
  <2> TAKE n \in OnPage'
  <2>1. PageIsHeld'
    BY OnPageIsHeld, PTL
  <2>2. n \in comments'
    BY DEF OnPage
  <2>3. \A s \in comments' \ deleted' : s \in OnPage'
    BY DEF OnPage, OutOfView
  <2>4. PICK s \in comments' \ deleted' : n \in path'[s]
    BY <2>1, <2>3 DEF PageIsHeld, Promise!Held
  <2>5. s \in standing /\ n \in path[s]
    BY <1>2, <2>4
  <2>6. ~OutOfView(n)
    BY <2>5 DEF Whole, Sound, StandingIsReachable
  <2> QED
    BY <1>2, <2>2, <2>6 DEF OnPage
<1>4. \A n \in OnPage' : chain[n] = path'[n]
  BY <1>0, <1>3
<1>5. Promise!Shows(standing \ (taken \ deleted), chain)
  <2>1. PageFollows(standing \ (taken \ deleted), chain)
    BY <1>2, <1>4 DEF PageFollows
  <2> HIDE DEF standing
  <2> QED
    BY <2>1, PageShows
<1>6. taken \ deleted \subseteq standing
  OBVIOUS
<1> QED
  BY <1>0, <1>5, <1>6 DEF Promise!TakeDown, Promise!Shows

\* A comment on the page is under shown comments only, so taking it down is plain
LEMMA OneComesDown ==
    ASSUME Whole,
           NEW c \in comments \ deleted,
           NEW hid \in SUBSET (deleted \cup {c}), hidden \subseteq hid,
           Collapse({c}, {c}, author, deleted \cup {c}, hid)
    PROVE  /\ Whole'
           /\ Promise!TakeDown({c})
           /\ comments \ deleted \subseteq (comments' \ deleted') \cup {c}
           /\ \A n \in comments' : n \in comments /\ author'[n] = author[n]
           /\ \A x \in hidden \cup counted \cup reported :
                 author[x] # NoAuthor => x \in comments' /\ author'[x] = author[x]
<1> USE DEF Whole, TableInv
<1>1. /\ {c} \in SUBSET comments /\ deleted \cup {c} \in SUBSET comments
      /\ author \in [Comment -> Reader \cup {NoAuthor}]
      /\ hidden \cup counted \cup reported \subseteq comments
  BY DEF TypeOK
<1>2. Plain({c}) /\ ~OutOfView(c)
  BY DEF Plain, Sound, StandingIsReachable, OutOfView
<1>3. TableInv'
  <2> HIDE DEF TableInv
  <2> QED
    BY <1>1, CollapseKeepsTable
<1>4. Sound'
  <2> HIDE DEF TableInv
  <2> QED
    BY <1>1, <1>2, PlainTakedown
<1>5. PICK one, auth : one = {c} /\ auth = author
  OBVIOUS
<1>6. one \in SUBSET comments /\ deleted \cup one \in SUBSET comments /\ one = one \ deleted
  BY <1>1, <1>5
<1>7. Collapse(one, one, auth, deleted \cup one, hid)
  BY <1>5
<1>8. Promise!TakeDown(one)
  <2>1. Whole'
    BY <1>3, <1>4
  <2> HIDE DEF Whole
  <2> QED
    BY <1>6, <1>7, <2>1, TakedownShows
<1>9. Promise!TakeDown({c})
  BY <1>5, <1>8 DEF Promise!TakeDown, Promise!Shows
<1>10. StandsAfter(deleted \cup one, auth, hid)
  <2> HIDE DEF TableInv
  <2> QED
    BY <1>6, <1>7, CollapseLeaves
<1> QED
  BY <1>1, <1>3, <1>4, <1>5, <1>9, <1>10 DEF StandsAfter

-----------------------------------------------------------------------------
LEMMA TreeInit == Init => TreeInv
<1> SUFFICES ASSUME Init
             PROVE  TreeInv
  OBVIOUS
<1>1. comments = {} /\ deleted = {}
  BY DEF Init
<1>2. TypeOK /\ FreeIdsAreBlank
  BY DEF Init, TypeOK, FreeIdsAreBlank
<1> QED
  BY <1>1, <1>2
     DEF TreeInv, Whole, Sound, TableInv, PathsFollowParents, PathsAreWhole, RowsAreSigned,
         ReplyCountIsShown, StandingIsReachable, NoEmptyPlaceholder

LEMMA CreateKeepsTable ==
    ASSUME TableInv, NEW c \in Comment, NEW a \in Reader, Create(c, a)
    PROVE  TableInv'
<1> USE DEF TableInv
<1>1. c \notin comments /\ parent[c] = NoParent /\ replyCount[c] = 0
  BY DEF Create, FreeIdsAreBlank
<1>2. /\ comments' = comments \cup {c}
      /\ path' \in [Comment -> SUBSET Comment] /\ path'[c] = {c}
      /\ author' \in [Comment -> Reader \cup {NoAuthor}]
      /\ \A n \in Comment \ {c} : path'[n] = path[n]
      /\ UNCHANGED <<parent, replyCount, deleted, hidden, counted, reported>>
  BY DEF Create, TypeOK
<1>3. \A n \in comments : n \in Comment \ {c} /\ n \in comments'
  BY <1>1, <1>2 DEF TypeOK
<1>4. TypeOK' /\ FreeIdsAreBlank'
  BY <1>2, <1>3 DEF TypeOK, FreeIdsAreBlank
<1>5. PathsFollowParents' /\ PathsAreWhole'
  BY <1>1, <1>2, <1>3 DEF PathsFollowParents, PathsAreWhole
<1> QED
  BY <1>4, <1>5

LEMMA ReplyKeepsTable ==
    ASSUME TableInv, NEW c \in Comment, NEW a \in Reader, NEW p \in Comment, Reply(c, a, p)
    PROVE  TableInv'
<1> USE DEF TableInv
<1>1. c \notin comments /\ p \in comments \ deleted /\ p # c
  BY DEF Reply
<1>2. /\ comments' = comments \cup {c}
      /\ parent' \in [Comment -> Comment \cup {NoParent}] /\ parent'[c] = p
      /\ path' \in [Comment -> SUBSET Comment] /\ path'[c] = path[p] \cup {c}
      /\ author' \in [Comment -> Reader \cup {NoAuthor}]
      /\ replyCount' \in [Comment -> Nat]
      /\ \A n \in Comment \ {c} : parent'[n] = parent[n] /\ path'[n] = path[n]
      /\ \A n \in Comment \ {p} : replyCount'[n] = replyCount[n]
      /\ UNCHANGED <<deleted, hidden, counted, reported>>
  BY DEF Reply, TypeOK
<1>3. \A n \in comments : n \in Comment \ {c} /\ n \in comments'
  BY <1>1, <1>2 DEF TypeOK
<1>4. TypeOK' /\ FreeIdsAreBlank'
  BY <1>1, <1>2, <1>3 DEF TypeOK, FreeIdsAreBlank
<1>5. PathsFollowParents'
  BY <1>1, <1>2, <1>3, NullsAreApart DEF PathsFollowParents, PathsAreWhole, TypeOK
<1>6. PathsAreWhole'
  <2> SUFFICES ASSUME NEW n \in comments'
               PROVE  /\ n \in path'[n]
                      /\ path'[n] \subseteq comments'
                      /\ \A m \in path'[n] : parent'[m] = NoParent \/ parent'[m] \in path'[n]
                      /\ \A m \in path'[n] \ {n} : \E d \in path'[n] : parent'[d] = m
    BY DEF PathsAreWhole
  <2>1. CASE n # c
    BY <1>2, <1>3, <2>1 DEF PathsAreWhole
  <2>2. CASE n = c
    BY <1>1, <1>2, <1>3, <2>2 DEF PathsAreWhole
  <2> QED
    BY <2>1, <2>2
<1> QED
  BY <1>4, <1>5, <1>6

\* A report or a counted violation writes one mark
LEMMA MarksKeepTable ==
    ASSUME TableInv, NEW c \in Comment, FileReport(c) \/ CountViolation(c)
    PROVE  TableInv'
<1>1. /\ UNCHANGED <<comments, parent, path, author, replyCount, deleted, hidden>>
      /\ counted' \subseteq deleted' /\ reported' \subseteq comments'
  BY DEF FileReport, CountViolation, TableInv, TypeOK
<1> QED
  BY <1>1 DEF TableInv, TypeOK, FreeIdsAreBlank, PathsFollowParents, PathsAreWhole

LEMMA CreateKeepsTree ==
    ASSUME Whole, NEW c \in Comment, NEW a \in Reader, Create(c, a)
    PROVE  Whole' /\ Promise!Post(c)
<1> USE DEF Whole, Sound, TableInv
<1>1. c \notin comments /\ parent[c] = NoParent /\ replyCount[c] = 0
  BY DEF Create, FreeIdsAreBlank
<1>2. /\ comments' = comments \cup {c}
      /\ path'[c] = {c} /\ author'[c] = a
      /\ \A n \in Comment \ {c} : path'[n] = path[n] /\ author'[n] = author[n]
      /\ UNCHANGED <<parent, replyCount, deleted, hidden, counted, reported>>
  BY DEF Create, TypeOK
<1>3. \A n \in comments : n \in Comment \ {c} /\ n \in comments'
  BY <1>1, <1>2 DEF TypeOK
<1>4. TableInv'
  BY CreateKeepsTable
<1>6. \A n \in comments' : ShownChildrenOf(n, deleted)' = ShownChildrenOf(n, deleted)
  BY <1>1, <1>2, <1>3, NullsAreApart DEF ShownChildrenOf, ChildrenOf, CountsAsShown, TypeOK
<1>7. ShownChildrenOf(c, deleted) = {}
  BY <1>1, NullsAreApart DEF ShownChildrenOf, ChildrenOf, PathsFollowParents
<1>8. ReplyCountIsShown'
  BY <1>1, <1>2, <1>6, <1>7, FS_EmptySet DEF ReplyCountIsShown
<1>9. StandingIsReachable'
  BY <1>1, <1>2, <1>3 DEF StandingIsReachable, OutOfView, TypeOK, PathsAreWhole
<1>10. NoEmptyPlaceholder'
  <2>1. \A n \in deleted : ChildrenOf(n) \subseteq ChildrenOf(n)'
    BY <1>2 DEF ChildrenOf
  <2> QED
    BY <1>2, <1>3, <2>1 DEF NoEmptyPlaceholder, TypeOK
<1>11. Whole'
  BY <1>4, <1>8, <1>9, <1>10
<1>12. Promise!Post(c)
  <2>0. PICK chain : chain = Promise!Under(c, {})
    OBVIOUS
  <2>1. OnPage' \subseteq OnPage \cup {c} /\ c \notin OnPage
    BY <1>1, <1>2, <1>3 DEF OnPage, OutOfView, TypeOK
  <2>2. \A n \in OnPage' : chain[n] = path'[n]
    BY <1>2, <1>3, <2>0, <2>1 DEF Promise!Under, OnPage
  <2>3. comments' \ deleted' = (comments \ deleted) \cup {c}
    BY <1>1, <1>2 DEF TypeOK
  <2>4. Promise!Shows((comments \ deleted) \cup {c}, chain)
    <3>1. PageFollows((comments \ deleted) \cup {c}, chain)
      BY <2>2, <2>3 DEF PageFollows
    <3> HIDE DEF Whole
    <3> QED
      BY <1>11, <3>1, PageShows
  <2> QED
    BY <2>0, <2>1, <2>4 DEF Promise!Post, Promise!Shows
<1> QED
  BY <1>11, <1>12

LEMMA ReplyKeepsTree ==
    ASSUME Whole, NEW c \in Comment, NEW a \in Reader, NEW p \in Comment, Reply(c, a, p)
    PROVE  Whole' /\ Promise!Reply(c, p)
<1> USE DEF Whole, Sound, TableInv
<1>1. /\ c \notin comments /\ replyCount[c] = 0 /\ c \notin deleted
      /\ p \in comments \ deleted /\ p # c
  BY DEF Reply, FreeIdsAreBlank, TypeOK
<1>2. /\ comments' = comments \cup {c}
      /\ parent'[c] = p /\ path'[c] = path[p] \cup {c} /\ author'[c] = a
      /\ replyCount'[p] = replyCount[p] + 1
      /\ \A n \in Comment \ {c} :
            parent'[n] = parent[n] /\ path'[n] = path[n] /\ author'[n] = author[n]
      /\ \A n \in Comment \ {p} : replyCount'[n] = replyCount[n]
      /\ deleted' = deleted /\ hidden' = hidden /\ counted' = counted /\ reported' = reported
  BY DEF Reply, TypeOK
<1>3. \A n \in comments : n \in Comment \ {c} /\ n \in comments'
  BY <1>1, <1>2 DEF TypeOK
<1>4. TableInv'
  BY ReplyKeepsTable
<1>7. \A n \in comments : Shown(n)' <=> Shown(n)
  BY <1>1, <1>2, <1>3 DEF Shown
<1>8. ReplyCountIsShown'
  <2> SUFFICES ASSUME NEW n \in comments'
               PROVE  replyCount'[n] = Cardinality(ShownChildrenOf(n, deleted)')
    BY DEF ReplyCountIsShown
  <2>1. ShownChildrenOf(n, deleted)' = {x \in comments' : parent'[x] = n /\ Shown(x)'}
    BY DEF ShownChildrenOf, ChildrenOf, CountsAsShown, Shown
  <2>2. ShownChildrenOf(n, deleted) = {x \in comments : parent[x] = n /\ Shown(x)}
    BY DEF ShownChildrenOf, ChildrenOf, CountsAsShown, Shown
  <2>3. CASE n = p
    <3>1. ShownChildrenOf(p, deleted)' = ShownChildrenOf(p, deleted) \cup {c}
      BY <1>1, <1>2, <1>3, <1>7, <2>1, <2>2, <2>3 DEF Shown
    <3>2. c \notin ShownChildrenOf(p, deleted) /\ IsFiniteSet(ShownChildrenOf(p, deleted))
      BY <1>1, <1>3, <2>2, <2>3, SetsOfComments
    <3>3. Cardinality(ShownChildrenOf(p, deleted)') = Cardinality(ShownChildrenOf(p, deleted)) + 1
      BY <3>1, <3>2, FS_AddElement
    <3> QED
      BY <1>1, <1>2, <2>3, <3>3 DEF ReplyCountIsShown
  <2>4. CASE n = c
    <3>1. ShownChildrenOf(c, deleted)' = {}
      BY <1>1, <1>2, <1>3, <2>1, <2>4, NullsAreApart DEF PathsFollowParents
    <3> QED
      BY <1>1, <1>2, <2>4, <3>1, FS_EmptySet
  <2>5. CASE n \in comments \ {p}
    <3>1. ShownChildrenOf(n, deleted)' = ShownChildrenOf(n, deleted)
      BY <1>2, <1>3, <1>7, <2>1, <2>2, <2>5
    <3> QED
      BY <1>2, <1>3, <2>5, <3>1 DEF ReplyCountIsShown
  <2> QED
    BY <1>2, <2>3, <2>4, <2>5
<1>9. StandingIsReachable'
  <2> SUFFICES ASSUME NEW s \in comments' \ deleted', NEW n \in path'[s]
               PROVE  ~OutOfView(n)'
    BY DEF StandingIsReachable
  <2>1. n = c \/ (n \in comments /\ ~OutOfView(n))
    BY <1>1, <1>2, <1>3 DEF StandingIsReachable, PathsAreWhole
  <2> QED
    BY <1>1, <1>2, <1>3, <2>1 DEF OutOfView, TypeOK
<1>10. NoEmptyPlaceholder'
  <2>1. \A n \in deleted : ChildrenOf(n) \subseteq ChildrenOf(n)'
    BY <1>2, <1>3 DEF ChildrenOf
  <2> QED
    BY <1>2, <1>3, <2>1 DEF NoEmptyPlaceholder, TypeOK
<1>11. Whole'
  BY <1>4, <1>8, <1>9, <1>10
<1>12. Promise!Reply(c, p)
  <2>0. PICK chain : chain = Promise!Under(c, [n \in OnPage |-> path[n]][p])
    OBVIOUS
  <2>1. OnPage' \subseteq OnPage \cup {c} /\ c \notin OnPage /\ p \in OnPage
    BY <1>1, <1>2, <1>3, <1>7 DEF OnPage, OutOfView, Shown, TypeOK
  <2>2. \A n \in OnPage' : chain[n] = path'[n]
    BY <1>2, <1>3, <2>0, <2>1 DEF Promise!Under, OnPage
  <2>3. comments' \ deleted' = (comments \ deleted) \cup {c}
    BY <1>1, <1>2 DEF TypeOK
  <2>4. Promise!Shows((comments \ deleted) \cup {c}, chain)
    <3>1. PageFollows((comments \ deleted) \cup {c}, chain)
      BY <2>2, <2>3 DEF PageFollows
    <3> HIDE DEF Whole
    <3> QED
      BY <1>11, <3>1, PageShows
  <2> QED
    BY <1>1, <2>0, <2>1, <2>4 DEF Promise!Reply, Promise!Shows
<1> QED
  BY <1>11, <1>12

\* The tree and the page do not see the mark
LEMMA MarksKeepTree ==
    ASSUME Whole, NEW c \in Comment, FileReport(c) \/ CountViolation(c)
    PROVE  Whole' /\ UNCHANGED Promise!page
<1> USE DEF Whole, Sound, TableInv
<1>1. /\ UNCHANGED <<comments, parent, path, author, replyCount, deleted, hidden>>
      /\ counted \subseteq counted' /\ reported \subseteq reported'
  BY DEF FileReport, CountViolation
<1>2. TableInv'
  BY MarksKeepTable
<1>3. ReplyCountIsShown' /\ StandingIsReachable'
  BY <1>1 DEF ReplyCountIsShown, StandingIsReachable, ShownChildrenOf, ChildrenOf,
              CountsAsShown, OutOfView
<1>4. NoEmptyPlaceholder'
  BY <1>1 DEF NoEmptyPlaceholder, ChildrenOf
<1>5. UNCHANGED Promise!page
  BY <1>1 DEF Promise!page, OnPage, OutOfView
<1> QED
  BY <1>2, <1>3, <1>4, <1>5

\* What one step may do to the rows it finds
StepTakesLittle ==
    /\ \E d \in Comment : comments \ deleted \subseteq (comments' \ deleted') \cup {d}
    /\ \A c \in hidden \cup counted \cup reported :
            c \in comments' /\ author'[c] = author[c]

\* A step keeps the tree whole and turns the page as DiscussionPromise does
LEMMA WholeStep ==
    ASSUME Whole, Next
    PROVE  Whole' /\ (Promise!Next \/ UNCHANGED Promise!page)
<1>0. hidden \subseteq deleted /\ comments \subseteq Comment
  BY DEF Whole, TableInv, TypeOK
<1>1. ASSUME NEW c \in Comment, NEW a \in Reader, Create(c, a)
      PROVE  Whole' /\ Promise!Next
  <2>1. Whole' /\ Promise!Post(c)
    BY <1>1, CreateKeepsTree
  <2> QED
    BY <2>1 DEF Promise!Next, Promise!Writing
<1>2. ASSUME NEW c \in Comment, NEW a \in Reader, NEW p \in Comment, Reply(c, a, p)
      PROVE  Whole' /\ Promise!Next
  <2>1. Whole' /\ Promise!Reply(c, p)
    BY <1>2, ReplyKeepsTree
  <2>2. p \in comments \ deleted
    BY <1>2 DEF Reply
  <2> QED
    BY <2>1, <2>2 DEF Promise!Next, Promise!Writing
<1>3. ASSUME NEW c \in comments \ deleted,
             NEW hid \in {hidden, hidden \cup {c}},
             Collapse({c}, {c}, author, deleted \cup {c}, hid)
      PROVE  Whole' /\ Promise!Next
  <2>1. hid \in SUBSET (deleted \cup {c}) /\ hidden \subseteq hid
    BY <1>0
  <2>2. Whole' /\ Promise!TakeDown({c})
    BY <1>3, <2>1, OneComesDown
  <2> QED
    BY <2>2 DEF Promise!Next
<1>4. ASSUME NEW c \in Comment, NEW a \in Reader, DeleteOwn(c, a)
      PROVE  Whole' /\ Promise!Next
  BY <1>3, <1>4 DEF DeleteOwn
<1>5. ASSUME NEW c \in Comment, Hide(c)
      PROVE  Whole' /\ Promise!Next
  BY <1>3, <1>5 DEF Hide
<1>6. ASSUME NEW c \in Comment, FileReport(c) \/ CountViolation(c)
      PROVE  Whole' /\ UNCHANGED Promise!page
  BY <1>6, MarksKeepTree
<1> QED
  BY <1>1, <1>2, <1>4, <1>5, <1>6 DEF Next

LEMMA TreeStep ==
    ASSUME TreeInv, Next
    PROVE  TreeInv' /\ StepTakesLittle
<1> USE DEF TreeInv
<1>0. /\ hidden \cup counted \cup reported \subseteq comments /\ comments \subseteq Comment
      /\ hidden \subseteq deleted /\ author \in [Comment -> Reader \cup {NoAuthor}]
  BY DEF Whole, TableInv, TypeOK
<1>1. Whole'
  BY WholeStep
<1>2. ASSUME NEW c \in Comment, NEW a \in Reader,
             Create(c, a) \/ \E p \in Comment : Reply(c, a, p)
      PROVE  RowsAreSigned' /\ StepTakesLittle
  <2>1. /\ c \notin comments /\ comments' = comments \cup {c} /\ deleted' = deleted
        /\ author'[c] = a /\ \A n \in Comment \ {c} : author'[n] = author[n]
    BY <1>0, <1>2 DEF Create, Reply
  <2> QED
    BY <1>0, <2>1 DEF RowsAreSigned, StepTakesLittle
<1>3. ASSUME NEW c \in comments \ deleted,
             NEW hid \in {hidden, hidden \cup {c}},
             Collapse({c}, {c}, author, deleted \cup {c}, hid)
      PROVE  RowsAreSigned' /\ StepTakesLittle
  <2>1. hid \in SUBSET (deleted \cup {c}) /\ hidden \subseteq hid
    BY <1>0
  <2>2. /\ comments \ deleted \subseteq (comments' \ deleted') \cup {c}
        /\ \A n \in comments' : n \in comments /\ author'[n] = author[n]
        /\ \A x \in hidden \cup counted \cup reported :
              author[x] # NoAuthor => x \in comments' /\ author'[x] = author[x]
    BY <1>3, <2>1, OneComesDown
  <2>3. \A x \in hidden \cup counted \cup reported : author[x] # NoAuthor
    BY <1>0, NullsAreApart DEF RowsAreSigned
  <2>4. RowsAreSigned'
    BY <2>2 DEF RowsAreSigned
  <2> QED
    BY <1>0, <2>2, <2>3, <2>4 DEF StepTakesLittle
<1>4. ASSUME NEW c \in Comment, NEW a \in Reader, DeleteOwn(c, a)
      PROVE  RowsAreSigned' /\ StepTakesLittle
  BY <1>3, <1>4 DEF DeleteOwn
<1>5. ASSUME NEW c \in Comment, Hide(c)
      PROVE  RowsAreSigned' /\ StepTakesLittle
  BY <1>3, <1>5 DEF Hide
<1>6. ASSUME NEW c \in Comment, FileReport(c) \/ CountViolation(c)
      PROVE  RowsAreSigned' /\ StepTakesLittle
  BY <1>0, <1>6 DEF FileReport, CountViolation, StepTakesLittle, RowsAreSigned
<1>7. RowsAreSigned' /\ StepTakesLittle
  BY <1>2, <1>4, <1>5, <1>6 DEF Next
<1> QED
  BY <1>1, <1>7

LEMMA TreeStutter ==
    ASSUME Whole, UNCHANGED vars
    PROVE  Whole' /\ UNCHANGED Promise!page
BY DEF Whole, Sound, TableInv, vars, TypeOK, FreeIdsAreBlank, PathsFollowParents, PathsAreWhole,
       ReplyCountIsShown, StandingIsReachable, NoEmptyPlaceholder,
       ShownChildrenOf, ChildrenOf, CountsAsShown, OutOfView, OnPage, Promise!page

LEMMA TreeInvariant == Spec => []TreeInv
<1>1. TreeInv /\ UNCHANGED vars => TreeInv'
  BY TreeStutter DEF TreeInv, RowsAreSigned, vars
<1>2. TreeInv /\ [Next]_vars => TreeInv'
  BY <1>1, TreeStep
<1> QED
  BY TreeInit, <1>2, PTL DEF Spec

-----------------------------------------------------------------------------
\* Every column keeps a value of its type, and the marks imply each other as they should:
\* hidden and counted rows are deleted ones, and every mark is on a row.
THEOREM TypeCorrect == Spec => []TypeOK
BY TreeInvariant, PTL DEF TreeInv, Whole, TableInv

\* However deletions and removals interleave, in_reply_to_id never points at a row that went.
THEOREM PathsCorrect == Spec => []PathsFollowParents
BY TreeInvariant, PTL DEF TreeInv, Whole, TableInv

\* The reply count the service keeps up to date by hand is the number of replies shown.
THEOREM ReplyCountsCorrect == Spec => []ReplyCountIsShown
BY TreeInvariant, PTL DEF TreeInv, Whole, Sound

\* Nobody's comment disappears from the page because of what came down above it.
THEOREM NothingStandingIsLost == Spec => []StandingIsReachable
BY TreeInvariant, PTL DEF TreeInv, Whole, Sound

\* No gravestone outlives what it held up, unless moderation or a report pins it.
THEOREM NothingEmptyIsKept == Spec => []NoEmptyPlaceholder
BY TreeInvariant, PTL DEF TreeInv, Whole, Sound

\* One step takes down one standing comment at most.
THEOREM OneAtATime == Spec => OneComesDownAtATime
<1>1. TreeInv /\ [Next]_vars => [StepTakesLittle]_vars
  BY TreeStep
<1>2. [StepTakesLittle]_vars =>
        [\E d \in Comment : comments \ deleted \subseteq (comments' \ deleted') \cup {d}]_vars
  BY DEF StepTakesLittle
<1> QED
  BY TreeInvariant, <1>1, <1>2, PTL DEF Spec, OneComesDownAtATime

\* What is recorded about an author survives his deletions, under his name.
THEOREM RecordsAreKept == Spec => RecordsStay
<1>1. TreeInv /\ [Next]_vars => [StepTakesLittle]_vars
  BY TreeStep
<1>2. [StepTakesLittle]_vars =>
        [\A c \in hidden \cup counted \cup reported :
            c \in comments' /\ author'[c] = author[c]]_vars
  BY DEF StepTakesLittle
<1> QED
  BY TreeInvariant, <1>1, <1>2, PTL DEF Spec, RecordsStay

LEMMA PageInit == Init => Promise!Init
<1> SUFFICES ASSUME Init
             PROVE  Promise!Init
  OBVIOUS
<1>1. comments = {} /\ OnPage = {}
  BY DEF Init, OnPage
<1> QED
  BY <1>1 DEF Promise!Init

\* The service implements DiscussionPromise: with every post, deletion and removal its readers
\* see what stands, where it was answered, and the numbers they would count.
THEOREM PageIsKept == Spec => KeepsThePage
<1>1. TreeInv /\ [Next]_vars => [Promise!Next]_(Promise!page)
  BY WholeStep, TreeStutter DEF TreeInv
<1> QED
  BY TreeInvariant, PageInit, <1>1, PTL DEF Spec, KeepsThePage, Promise!Spec

----------------------------------------------------------------------------
(* Erasures over the tree (ReaderErasure).                                  *)

ErasureInv == TableInv /\ AuthorlessIsDown

\* What one step may do to the rows of others
StepSparesOthers ==
    \E r \in Reader \cup {NoAuthor} :
        /\ comments \ deleted \subseteq (comments' \ deleted') \cup CommentsOf(r)
        /\ \A c \in hidden \cup counted \cup reported :
              author[c] \in {r, NoAuthor} \/ (c \in comments' /\ author'[c] = author[c])

(***************************************************************************)
(* The common shape of every removal: rows of one account come down, some  *)
(* of them perhaps losing their author, and the collapse follows.          *)
(***************************************************************************)
LEMMA TakedownOfOne ==
    ASSUME ErasureInv, NEW r \in Reader,
           NEW taken \in SUBSET CommentsOf(r), NEW wereShown,
           NEW auth \in [Comment -> Reader \cup {NoAuthor}],
           \A c \in Comment \ taken : auth[c] = author[c],
           NEW hid \in SUBSET (deleted \cup taken), hidden \subseteq hid,
           Collapse(taken, wereShown, auth, deleted \cup taken, hid)
    PROVE  ErasureInv' /\ StepSparesOthers
<1> USE DEF ErasureInv, TableInv
<1> DEFINE del == deleted \cup taken
<1>1. taken \in SUBSET comments /\ del \in SUBSET comments
  BY DEF CommentsOf, TypeOK
<1>2. TableInv'
  BY <1>1, CollapseKeepsTable
<1>3. PICK gone \in SUBSET WithAncestors(taken) :
        /\ GoFromView(gone, taken, del)
        /\ \E doomed \in SUBSET gone :
            /\ RowsGo(doomed, gone, auth, hid)
            /\ TakeAway(gone, doomed, taken, wereShown, auth, del, hid)
  BY DEF Collapse
<1>4. PICK doomed \in SUBSET gone :
        /\ RowsGo(doomed, gone, auth, hid)
        /\ TakeAway(gone, doomed, taken, wereShown, auth, del, hid)
  BY <1>3
<1>5. /\ comments' = comments \ doomed /\ deleted' = del \ doomed
      /\ \A c \in Comment \ doomed : author'[c] = auth[c]
  BY <1>4 DEF TakeAway
<1>6. doomed \subseteq del
  BY <1>3 DEF GoFromView, LeavesView
<1>7. AuthorlessIsDown'
  <2> SUFFICES ASSUME NEW c \in comments' \ deleted'
               PROVE  author'[c] # NoAuthor
    BY DEF AuthorlessIsDown
  <2>1. c \in comments \ deleted /\ c \in Comment /\ c \notin taken /\ c \notin doomed
    BY <1>5 DEF TypeOK
  <2> QED
    BY <1>5, <2>1 DEF AuthorlessIsDown
<1>8. comments \ deleted \subseteq (comments' \ deleted') \cup CommentsOf(r)
  BY <1>5, <1>6
<1>9. ASSUME NEW c \in hidden \cup counted \cup reported, author[c] \notin {r, NoAuthor}
      PROVE  c \in comments' /\ author'[c] = author[c]
  <2>1. c \in comments /\ c \in Comment /\ c \notin taken
    BY <1>9 DEF TypeOK, CommentsOf
  <2>2. auth[c] = author[c] /\ auth[c] # NoAuthor
    BY <1>9, <2>1
  <2>3. c \notin doomed
    BY <1>4, <1>9, <2>2 DEF RowsGo, RowMayGo
  <2> QED
    BY <1>5, <2>1, <2>2, <2>3
<1> QED
  BY <1>2, <1>7, <1>8, <1>9, NullsAreApart DEF StepSparesOthers

LEMMA ErasureInit == Init => ErasureInv
<1>1. Init => TableInv
  BY TreeInit DEF TreeInv, Whole
<1>2. Init => AuthorlessIsDown
  BY DEF Init, AuthorlessIsDown
<1> QED
  BY <1>1, <1>2 DEF ErasureInv

LEMMA ErasureStep ==
    ASSUME ErasureInv, ErasureNext
    PROVE  ErasureInv' /\ StepSparesOthers
<1> USE DEF ErasureInv, TableInv
<1>0. hidden \cup counted \cup reported \subseteq comments /\ author \in [Comment -> Reader \cup {NoAuthor}]
  BY DEF TypeOK
<1>1. ASSUME NEW c \in Comment, NEW a \in Reader, Create(c, a)
      PROVE  ErasureInv' /\ StepSparesOthers
  <2>1. TableInv'
    BY <1>1, CreateKeepsTable
  <2>2. AuthorlessIsDown'
    BY <1>1, NullsAreApart DEF Create, AuthorlessIsDown, TypeOK
  <2>3. StepSparesOthers
    BY <1>0, <1>1 DEF Create, StepSparesOthers, TypeOK
  <2> QED
    BY <2>1, <2>2, <2>3
<1>2. ASSUME NEW c \in Comment, NEW a \in Reader, NEW p \in Comment, Reply(c, a, p)
      PROVE  ErasureInv' /\ StepSparesOthers
  <2>1. TableInv'
    BY <1>2, ReplyKeepsTable
  <2>2. AuthorlessIsDown'
    BY <1>2, NullsAreApart DEF Reply, AuthorlessIsDown, TypeOK
  <2>3. StepSparesOthers
    BY <1>0, <1>2 DEF Reply, StepSparesOthers, TypeOK
  <2> QED
    BY <2>1, <2>2, <2>3
<1>3. ASSUME NEW c \in Comment, NEW a \in Reader, DeleteOwn(c, a)
      PROVE  ErasureInv' /\ StepSparesOthers
  <2>1. {c} \in SUBSET CommentsOf(a) /\ hidden \in SUBSET (deleted \cup {c})
    BY <1>3 DEF DeleteOwn, CommentsOf, TypeOK
  <2>2. Collapse({c}, {c}, author, deleted \cup {c}, hidden)
    BY <1>3 DEF DeleteOwn
  <2> QED
    BY <1>0, <2>1, <2>2, TakedownOfOne
<1>4. ASSUME NEW c \in Comment, Hide(c)
      PROVE  ErasureInv' /\ StepSparesOthers
  <2>1. c \in comments \ deleted /\ author[c] \in Reader
    BY <1>4 DEF Hide, AuthorlessIsDown, TypeOK
  <2>2. {c} \in SUBSET CommentsOf(author[c]) /\ hidden \cup {c} \in SUBSET (deleted \cup {c})
    BY <2>1 DEF CommentsOf, TypeOK
  <2>3. Collapse({c}, {c}, author, deleted \cup {c}, hidden \cup {c})
    BY <1>4 DEF Hide
  <2> QED
    BY <1>0, <2>1, <2>2, <2>3, TakedownOfOne
<1>5. ASSUME NEW c \in Comment, FileReport(c) \/ CountViolation(c)
      PROVE  ErasureInv' /\ StepSparesOthers
  <2>1. TableInv'
    BY <1>5, MarksKeepTable
  <2>2. comments' = comments /\ deleted' = deleted /\ author' = author
    BY <1>5 DEF FileReport, CountViolation
  <2> QED
    BY <1>0, <2>1, <2>2 DEF StepSparesOthers, AuthorlessIsDown
<1>6. ASSUME NEW r \in Reader, NEW batch \in SUBSET CommentsOf(r), EraseBatch(r, batch)
      PROVE  ErasureInv' /\ StepSparesOthers
  <2> DEFINE auth == [c \in Comment |-> IF c \in batch THEN NoAuthor ELSE author[c]]
  <2>1. /\ auth \in [Comment -> Reader \cup {NoAuthor}]
        /\ \A c \in Comment \ batch : auth[c] = author[c]
    BY <1>0
  <2>2. hidden \in SUBSET (deleted \cup batch)
    BY DEF TypeOK
  <2>3. Collapse(batch, {c \in batch : ~OutOfView(c)}, auth, deleted \cup batch, hidden)
    BY <1>6 DEF EraseBatch
  <2> HIDE DEF auth
  <2> QED
    BY <2>1, <2>2, <2>3, TakedownOfOne
<1>7. ASSUME NEW r \in Reader, NEW swept \in SUBSET CommentsOf(r), Sweep(r, swept)
      PROVE  ErasureInv' /\ StepSparesOthers
  <2>1. hidden \cup swept \in SUBSET (deleted \cup swept)
    BY DEF TypeOK
  <2>2. Collapse(swept, swept, author, deleted \cup swept, hidden \cup swept)
    BY <1>7 DEF Sweep
  <2> QED
    BY <1>0, <2>1, <2>2, TakedownOfOne
<1> QED
  BY <1>1, <1>2, <1>3, <1>4, <1>5, <1>6, <1>7 DEF ErasureNext, Next

LEMMA ErasureInvariant == ErasureSpec => []ErasureInv
<1>1. ErasureInv /\ UNCHANGED vars => ErasureInv'
  BY DEF ErasureInv, TableInv, vars, TypeOK, FreeIdsAreBlank, PathsFollowParents,
         PathsAreWhole, AuthorlessIsDown
<1>2. ErasureInv /\ [ErasureNext]_vars => ErasureInv'
  BY <1>1, ErasureStep
<1> QED
  BY ErasureInit, <1>2, PTL DEF ErasureSpec

-----------------------------------------------------------------------------
\* Erasures and sweeps leave every column and every mark well formed.
THEOREM ErasureTypeCorrect == ErasureSpec => []TypeOK
BY ErasureInvariant, PTL DEF ErasureInv, TableInv

\* However many comments one statement takes, no row is left hanging off one that went:
\* the foreign key is satisfied whatever batch the erase was given.
THEOREM ErasurePathsCorrect == ErasureSpec => []PathsFollowParents
BY ErasureInvariant, PTL DEF ErasureInv, TableInv

\* A comment that stands has an author, whatever accounts were erased meanwhile.
THEOREM StandingIsSigned == ErasureSpec => []AuthorlessIsDown
BY ErasureInvariant, PTL DEF ErasureInv

\* One step takes down comments of one account only.
THEOREM OthersStayUp == ErasureSpec => OnlyOnesOwnComeDown
<1>1. ErasureInv /\ [ErasureNext]_vars => [StepSparesOthers]_vars
  BY ErasureStep
<1>2. [StepSparesOthers]_vars =>
        [\E r \in Reader \cup {NoAuthor} :
            comments \ deleted \subseteq (comments' \ deleted') \cup CommentsOf(r)]_vars
  BY DEF StepSparesOthers
<1> QED
  BY ErasureInvariant, <1>1, <1>2, PTL DEF ErasureSpec, OnlyOnesOwnComeDown

\* Records about other authors stay in the table, under their names.
THEOREM OthersRecordsAreKept == ErasureSpec => RecordsOfOthersStay
<1>1. ErasureInv /\ [ErasureNext]_vars => [StepSparesOthers]_vars
  BY ErasureStep
<1>2. [StepSparesOthers]_vars =>
        [\E r \in Reader \cup {NoAuthor} :
            \A c \in hidden \cup counted \cup reported :
                author[c] \in {r, NoAuthor} \/ (c \in comments' /\ author'[c] = author[c])]_vars
  BY DEF StepSparesOthers
<1> QED
  BY ErasureInvariant, <1>1, <1>2, PTL DEF ErasureSpec, RecordsOfOthersStay

\* The page after a plain takedown is the page without what was taken
LEMMA PlainStep ==
    ASSUME ErasureInv, Sound, PlainNext
    PROVE  Sound' /\ [Promise!SweepingNext]_(Promise!page)
<1>1. Whole /\ TableInv' /\ TableInv
  <2>1. ErasureNext
    BY DEF PlainNext, ErasureNext
  <2> QED
    BY <2>1, ErasureStep DEF ErasureInv, Whole
<1>2. ASSUME NEW r \in Reader, NEW taken \in SUBSET CommentsOf(r), Plain(taken),
             NEW wereShown, \A c \in taken : c \in wereShown <=> ~OutOfView(c),
             NEW auth \in [Comment -> Reader \cup {NoAuthor}],
             \A c \in Comment \ taken : auth[c] = author[c],
             NEW hid \in SUBSET (deleted \cup taken), hidden \subseteq hid,
             Collapse(taken, wereShown, auth, deleted \cup taken, hid)
      PROVE  Sound' /\ Promise!SweepingNext
  <2>1. taken \in SUBSET comments
    BY DEF CommentsOf
  <2>2. Sound'
    BY <1>1, <1>2, <2>1, PlainTakedown
  <2>3. Whole'
    BY <1>1, <2>2 DEF Whole
  <2>4. PICK some : some = taken \ deleted
    OBVIOUS
  <2>5. Promise!TakeDown(some)
    BY <1>1, <1>2, <2>1, <2>3, <2>4, TakedownShows
  <2>6. some \in SUBSET (comments \ deleted)
    BY <2>1, <2>4
  <2> QED
    BY <2>2, <2>5, <2>6 DEF Promise!SweepingNext
<1>3. ASSUME NEW r \in Reader, NEW taken \in SUBSET CommentsOf(r), Plain(taken),
             EraseBatch(r, taken)
      PROVE  Sound' /\ Promise!SweepingNext
  <2> DEFINE auth == [c \in Comment |-> IF c \in taken THEN NoAuthor ELSE author[c]]
             wereShown == {c \in taken : ~OutOfView(c)}
  <2>1. /\ auth \in [Comment -> Reader \cup {NoAuthor}]
        /\ \A c \in Comment \ taken : auth[c] = author[c]
    BY <1>1 DEF TableInv, TypeOK
  <2>2. hidden \in SUBSET (deleted \cup taken)
    BY <1>1 DEF TableInv, TypeOK
  <2>3. \A c \in taken : c \in wereShown <=> ~OutOfView(c)
    OBVIOUS
  <2>4. Collapse(taken, wereShown, auth, deleted \cup taken, hidden)
    BY <1>3 DEF EraseBatch
  <2> HIDE DEF auth, wereShown
  <2> QED
    BY <1>2, <1>3, <2>1, <2>2, <2>3, <2>4
<1>4. ASSUME NEW r \in Reader, NEW taken \in SUBSET CommentsOf(r), Plain(taken),
             Sweep(r, taken)
      PROVE  Sound' /\ Promise!SweepingNext
  <2>1. /\ author \in [Comment -> Reader \cup {NoAuthor}]
        /\ hidden \cup taken \in SUBSET (deleted \cup taken)
    BY <1>1 DEF TableInv, TypeOK
  <2>2. \A c \in taken : c \in taken <=> ~OutOfView(c)
    BY <1>4 DEF Sweep, OutOfView
  <2>3. Collapse(taken, taken, author, deleted \cup taken, hidden \cup taken)
    BY <1>4 DEF Sweep
  <2> QED
    BY <1>2, <1>4, <2>1, <2>2, <2>3
<1>5. CASE Next
  <2>1. Whole' /\ (Promise!Next \/ UNCHANGED Promise!page)
    BY <1>1, <1>5, WholeStep
  <2>2. Promise!Next => Promise!SweepingNext
    BY DEF Promise!Next, Promise!SweepingNext
  <2> QED
    BY <2>1, <2>2 DEF Whole
<1> QED
  BY <1>3, <1>4, <1>5 DEF PlainNext

LEMMA PlainStutter ==
    ASSUME ErasureInv, Sound, UNCHANGED vars
    PROVE  Sound' /\ UNCHANGED Promise!page
BY TreeStutter DEF ErasureInv, Whole

\* However many comments an erasure or a sweep takes at once, counts, page and table stay sound
\* as long as none of them is above another and none is under one out of view, and the page
\* turns as DiscussionPromise lets it (CommentCollapse).
THEOREM PlainTakedownsKeepSound == ErasureSpec => PlainTakedownsAreSound
<1>1. ErasureInv =>
        [Sound /\ PlainNext => Sound' /\ [Promise!SweepingNext]_(Promise!page)]_vars
  BY PlainStep
<1> QED
  BY ErasureInvariant, <1>1, PTL DEF PlainTakedownsAreSound

\* So a discussion in which every takedown of many is plain keeps its counts and its page for
\* good: erasures and sweeps, too, only take from the page what they are to take.
THEOREM PlainErasuresKeepThePage ==
    PlainSpec => []Sound /\ Promise!SweepingSpec
<1>1. Init => ErasureInv /\ Sound /\ Promise!Init
  <2>1. Init => Promise!Init
    BY PageInit
  <2> QED
    BY <2>1, ErasureInit, TreeInit DEF TreeInv, Whole
<1>2. ErasureInv /\ UNCHANGED vars => ErasureInv'
  BY DEF ErasureInv, TableInv, vars, TypeOK, FreeIdsAreBlank, PathsFollowParents,
         PathsAreWhole, AuthorlessIsDown
<1>3. PlainNext => ErasureNext
  BY DEF PlainNext, ErasureNext
<1>4. ErasureInv /\ Sound /\ [PlainNext]_vars
        => ErasureInv' /\ Sound' /\ [Promise!SweepingNext]_(Promise!page)
  BY <1>2, <1>3, ErasureStep, PlainStep, PlainStutter
<1> QED
  BY <1>1, <1>4, PTL DEF PlainSpec, Promise!SweepingSpec
=============================================================================
