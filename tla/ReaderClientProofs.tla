------------------------- MODULE ReaderClientProofs --------------------------
(* The machines of the readers' clients, each proved on its own: what a page   *)
(* holds of what it asked, what clicks come to, what the ignores and the menu  *)
(* of a comment show, how long a session stands, and what becomes of what a    *)
(* reader writes.                                                              *)
EXTENDS ReaderWriting, ReaderRequests, ReaderVotes, ReaderIgnores, ReaderMenu, ReaderSession,
        FiniteSetTheorems, SequenceTheorems, TLAPS

----------------------------------------------------------------------------
(* What a page asks for (ReaderRequests).                                   *)

Resuming == soon # <<>> /\ Head(soon).does = "resume"

\* A step leaves at most two things to be done at once: the read it calls, and the caller of the one that ended
SoonIsShort ==
    \/ soon = <<>>
    \/ \E r \in Reads : soon = <<Return(r)>>
    \/ \E h, r \in Reads : soon = <<Resume(h), Return(r)>>

\* The line is the last reads asked, in their order, the one that is called just ahead of them
LineIsTheLast ==
    /\ Len(line) <= asked
    /\ \A i \in 1..Len(line) : line[i] = (asked - Len(line)) + i
    /\ Resuming => Len(line) < asked /\ Head(soon).read = asked - Len(line)
    /\ \A r \in Reads : read[r] = "unasked" <=> r > asked
    /\ \A r \in Reads : read[r] = "line" <=>
            (r > asked - Len(line) /\ r <= asked) \/ (Resuming /\ r = asked - Len(line))

\* A slot is taken by each read that is out; they are all taken while others wait, but for the one
\* that the called read is about to take
SlotsAreCounted ==
    /\ running = Cardinality(Going)
    /\ Resuming => running + 1 = Concurrency
    /\ ~Resuming => running <= Concurrency /\ (line # <<>> => running = Concurrency)

PauseHasATry == \A r \in Reads : read[r] = "pause" => tries[r] <= Retries

RequestsInv == RequestsTypeOK /\ SoonIsShort /\ LineIsTheLast /\ SlotsAreCounted /\ PauseHasATry

----------------------------------------------------------------------------
(* Counting the reads that are out.                                         *)

OutAtSea == {"sent", "body", "pause"}

\* The reads that are out can be counted.
LEMMA GoingIsFinite == IsFiniteSet(Going) /\ Cardinality(Going) \in Nat
  <1>1. IsFiniteSet(Reads)
    BY MaxReadsAssumption, FS_Interval DEF Reads
  <1>2. Going \in SUBSET Reads
    BY DEF Going
  <1> QED BY <1>1, <1>2, FS_Subset, FS_CardinalityType

\* A read that goes out makes one more.
LEMMA GoingGains ==
  ASSUME NEW r \in Reads, NEW s \in OutAtSea, read \in [Reads -> Stages], read[r] \notin OutAtSea,
         read' = [read EXCEPT ![r] = s]
  PROVE  Cardinality(Going') = Cardinality(Going) + 1
  <1>1. Going' = Going \cup {r} /\ r \notin Going
    BY DEF Going, OutAtSea
  <1> QED BY <1>1, GoingIsFinite, FS_AddElement

\* A read that ends makes one less.
LEMMA GoingLoses ==
  ASSUME NEW r \in Reads, read \in [Reads -> Stages], read[r] \in OutAtSea,
         read' = [read EXCEPT ![r] = "ended"]
  PROVE  Cardinality(Going') = Cardinality(Going) - 1
  <1>1. Going' = Going \ {r} /\ r \in Going
    BY DEF Going, OutAtSea
  <1> QED BY <1>1, GoingIsFinite, FS_RemoveElement

\* A read that stays out, or stays in, changes nothing.
LEMMA GoingKeeps ==
  ASSUME NEW r \in Reads, NEW s \in Stages, read \in [Reads -> Stages],
         read[r] \in OutAtSea <=> s \in OutAtSea,
         read' = [read EXCEPT ![r] = s]
  PROVE  Going' = Going
  BY DEF Going, OutAtSea

----------------------------------------------------------------------------
(* The invariant.                                                           *)

\* Before anything is asked the invariant holds.
LEMMA InvHoldsAtFirst == RequestsInit => RequestsInv
  <1> SUFFICES ASSUME RequestsInit PROVE RequestsInv
    OBVIOUS
  <1>1. RequestsTypeOK
    BY MaxReadsAssumption DEF RequestsInit, RequestsTypeOK, Stages, Retries
  <1>2. LineIsTheLast /\ SoonIsShort /\ PauseHasATry
    BY MaxReadsAssumption DEF RequestsInit, LineIsTheLast, SoonIsShort, PauseHasATry, Resuming, Reads
  <1>3. Going = {}
    BY DEF RequestsInit, Going
  <1>4. SlotsAreCounted
    BY <1>3, FS_EmptySet, ConcurrencyAssumption DEF RequestsInit, SlotsAreCounted, Resuming
  <1> QED BY <1>1, <1>2, <1>4 DEF RequestsInv

\* Asking for a read keeps the invariant, with nothing left to be done at once.
LEMMA EnqueueKeepsInv ==
  ASSUME RequestsInv, ~Resuming, Enqueue, soon' = <<>>
  PROVE  RequestsInv'
  <1> DEFINE n == asked + 1
  <1>0. n \in Reads /\ read[n] = "unasked" /\ asked \in Nat /\ asked' = n /\ status' = status
    BY MaxReadsAssumption DEF RequestsInv, RequestsTypeOK, LineIsTheLast, Enqueue, Reads
  <1>1. ~Resuming' /\ SoonIsShort'
    BY DEF Resuming, SoonIsShort
  <1>2. CASE running >= Concurrency
    <2>1. /\ line' = Append(line, n) /\ read' = [read EXCEPT ![n] = "line"]
          /\ running' = running /\ tries' = tries
      BY <1>2 DEF Enqueue
    <2>2. RequestsTypeOK'
      BY <1>0, <2>1 DEF RequestsInv, RequestsTypeOK, Stages, Reads
    <2>3. LineIsTheLast'
      <3>1. Len(line') = Len(line) + 1 /\ Len(line) \in Nat
        BY <1>0, <2>1 DEF RequestsInv, RequestsTypeOK
      <3>2. \A i \in 1..Len(line') : line'[i] = (asked' - Len(line')) + i
        BY <1>0, <2>1, <3>1 DEF RequestsInv, RequestsTypeOK, LineIsTheLast
      <3>3. \A r \in Reads : read'[r] = "unasked" <=> r > asked'
        BY <1>0, <2>1 DEF RequestsInv, RequestsTypeOK, LineIsTheLast, Reads
      <3>4. \A r \in Reads : read'[r] = "line" <=> r > asked' - Len(line') /\ r <= asked'
        BY <1>0, <2>1, <3>1 DEF RequestsInv, RequestsTypeOK, LineIsTheLast, Reads
      <3> QED BY <1>0, <1>1, <3>1, <3>2, <3>3, <3>4 DEF RequestsInv, LineIsTheLast
    <2>4. Going' = Going
      BY <1>0, <2>1, GoingKeeps DEF RequestsInv, RequestsTypeOK, Stages, OutAtSea
    <2>5. SlotsAreCounted'
      BY <1>1, <1>2, <2>1, <2>4, ConcurrencyAssumption DEF RequestsInv, RequestsTypeOK, SlotsAreCounted
    <2>6. PauseHasATry'
      BY <1>0, <2>1 DEF RequestsInv, RequestsTypeOK, PauseHasATry
    <2> QED BY <1>1, <2>2, <2>3, <2>5, <2>6 DEF RequestsInv
  <1>3. CASE ~(running >= Concurrency)
    <2>1. /\ line' = line /\ read' = [read EXCEPT ![n] = "sent"]
          /\ tries' = [tries EXCEPT ![n] = 1] /\ running' = running + 1
      BY <1>3 DEF Enqueue, Start
    <2>2. RequestsTypeOK'
      BY <1>0, <1>3, <2>1 DEF RequestsInv, RequestsTypeOK, Stages, Reads, Retries
    <2>3. line = <<>>
      BY <1>3, ConcurrencyAssumption DEF RequestsInv, RequestsTypeOK, SlotsAreCounted
    <2>4. LineIsTheLast'
      BY <1>0, <1>1, <2>1, <2>3 DEF RequestsInv, RequestsTypeOK, LineIsTheLast, Reads
    <2>5. Cardinality(Going') = Cardinality(Going) + 1
      BY <1>0, <2>1, GoingGains DEF RequestsInv, RequestsTypeOK, OutAtSea
    <2>6. SlotsAreCounted'
      BY <1>1, <1>3, <2>1, <2>3, <2>5, ConcurrencyAssumption DEF RequestsInv, RequestsTypeOK, SlotsAreCounted
    <2>7. PauseHasATry'
      BY <1>0, <2>1 DEF RequestsInv, RequestsTypeOK, PauseHasATry, Retries
    <2> QED BY <1>1, <2>2, <2>4, <2>6, <2>7 DEF RequestsInv
  <1> QED BY <1>2, <1>3

\* Two things put after nothing are a pair.
LEMMA PairAfterNothing ==
  ASSUME NEW a, NEW b
  PROVE  <<>> \o (<<a>> \o <<b>>) = <<a, b>>
  <1>1. <<a>> \in Seq({a, b}) /\ <<b>> \in Seq({a, b}) /\ <<a, b>> \in Seq({a, b})
    OBVIOUS
  <1>2. Len(<<a>>) = 1 /\ Len(<<b>>) = 1 /\ Len(<<a, b>>) = 2
    OBVIOUS
  <1>3. /\ <<a>> \o <<b>> \in Seq({a, b}) /\ Len(<<a>> \o <<b>>) = 2
        /\ (<<a>> \o <<b>>)[1] = a /\ (<<a>> \o <<b>>)[2] = b
    BY <1>1, <1>2, ConcatProperties
  <1>4. \A p, q \in Seq({a, b}) :
          Len(p) = 2 /\ Len(q) = 2 /\ p[1] = q[1] /\ p[2] = q[2] => p = q
    <2> TAKE p, q \in Seq({a, b})
    <2> HAVE Len(p) = 2 /\ Len(q) = 2 /\ p[1] = q[1] /\ p[2] = q[2]
    <2>1. Len(p) = Len(q) /\ \A i \in 1..Len(p) : p[i] = q[i]
      OBVIOUS
    <2> QED BY ONLY <2>1, SeqEqual, p \in Seq({a, b}), q \in Seq({a, b}), Zenon
  <1>5. <<a, b>>[1] = a /\ <<a, b>>[2] = b
    OBVIOUS
  <1>6. <<a>> \o <<b>> = <<a, b>>
    BY ONLY <1>1, <1>2, <1>3, <1>4, <1>5, Zenon
  <1> QED BY <1>1, <1>6, ConcatEmptySeq

\* The end of a read keeps the invariant: its slot goes to the one it calls.
LEMMA EndKeepsInv ==
  ASSUME NEW r \in Reads, RequestsInv, soon = <<>>, read[r] \in OutAtSea, End(r)
  PROVE  RequestsInv'
  <1>0. /\ read' = [read EXCEPT ![r] = "ended"] /\ running' = running - 1
        /\ tries' = tries /\ status' = status /\ asked' = asked /\ asked \in Nat
        /\ ~Resuming
    BY MaxReadsAssumption DEF End, RequestsInv, RequestsTypeOK, Resuming
  <1>1. Cardinality(Going') = Cardinality(Going) - 1
    BY <1>0, GoingLoses DEF RequestsInv, RequestsTypeOK
  <1>2. PauseHasATry'
    BY <1>0 DEF RequestsInv, RequestsTypeOK, PauseHasATry
  <1>3. CASE line = <<>>
    <2>1. line' = <<>> /\ soon' = <<Return(r)>>
      BY <1>3 DEF End, Calls
    <2>2. ~Resuming' /\ SoonIsShort'
      BY <2>1 DEF Resuming, SoonIsShort, Return
    <2>3. RequestsTypeOK'
      BY <1>0, <2>1 DEF RequestsInv, RequestsTypeOK, Stages, Return
    <2>4. LineIsTheLast'
      BY <1>0, <1>3, <2>1, <2>2 DEF RequestsInv, RequestsTypeOK, LineIsTheLast, Reads, OutAtSea
    <2>5. SlotsAreCounted'
      BY <1>0, <1>1, <2>1, <2>2, ConcurrencyAssumption DEF RequestsInv, RequestsTypeOK, SlotsAreCounted
    <2> QED BY <1>2, <2>2, <2>3, <2>4, <2>5 DEF RequestsInv
  <1>4. CASE line # <<>>
    <2>1. line' = Tail(line) /\ soon' = <<Resume(Head(line)), Return(r)>>
      <3>1. Calls(r) = <<Resume(Head(line))>> \o <<Return(r)>>
        BY <1>4 DEF Calls
      <3>2. line' = Tail(line) /\ soon' = <<>> \o Calls(r)
        BY <1>4 DEF End
      <3> QED BY <3>1, <3>2, PairAfterNothing
    <2>2. line \in Seq(Reads) /\ Head(line) = line[1] /\ Head(line) \in Reads /\ Len(line) \in Nat \ {0}
      BY <1>4 DEF RequestsInv, RequestsTypeOK
    <2>3. Resuming' /\ Head(soon').read = Head(line) /\ SoonIsShort'
      BY <2>1, <2>2 DEF Resuming, SoonIsShort, Resume
    <2>4. RequestsTypeOK'
      <3>1. soon' \in Seq([does : {"resume", "return"}, read : Reads])
        BY <2>1, <2>2 DEF Resume, Return
      <3> QED BY <1>0, <2>1, <2>2, <3>1 DEF RequestsInv, RequestsTypeOK, Stages
    <2>5. LineIsTheLast'
      <3>1. Len(line') = Len(line) - 1 /\ \A i \in 1..Len(line') : line'[i] = line[i + 1]
        BY <2>1, <2>2
      <3>2. Head(line) = asked - Len(line) + 1 /\ Len(line) <= asked
        BY <2>2 DEF RequestsInv, LineIsTheLast
      <3>3. \A i \in 1..Len(line') : line'[i] = (asked' - Len(line')) + i
        BY <1>0, <2>2, <3>1 DEF RequestsInv, LineIsTheLast
      <3>4. \A q \in Reads : read'[q] = "unasked" <=> q > asked'
        BY <1>0 DEF RequestsInv, RequestsTypeOK, LineIsTheLast, Reads, OutAtSea
      <3>5. \A q \in Reads : read'[q] = "line" <=> q > asked - Len(line) /\ q <= asked
        BY <1>0 DEF RequestsInv, RequestsTypeOK, LineIsTheLast, Reads, OutAtSea
      <3>6. \A q \in Reads : read'[q] = "line" <=>
              (q > asked' - Len(line') /\ q <= asked') \/ q = asked' - Len(line')
        <4> TAKE q \in Reads
        <4>1. /\ asked' = asked /\ asked \in Nat /\ q \in Int
              /\ Len(line) \in Nat \ {0} /\ Len(line') = Len(line) - 1
          BY <1>0, <2>2, <3>1, MaxReadsAssumption DEF Reads
        <4>2. (q > asked - Len(line) /\ q <= asked) <=>
              (q > asked' - Len(line') /\ q <= asked') \/ q = asked' - Len(line')
          BY <4>1
        <4> QED BY <3>5, <4>2
      <3> QED BY <1>0, <2>2, <2>3, <3>1, <3>2, <3>3, <3>4, <3>6 DEF LineIsTheLast
    <2>6. SlotsAreCounted'
      BY <1>0, <1>1, <1>4, <2>3, ConcurrencyAssumption DEF RequestsInv, RequestsTypeOK, SlotsAreCounted
    <2> QED BY <1>2, <2>3, <2>4, <2>5, <2>6 DEF RequestsInv
  <1> QED BY <1>3, <1>4

\* A read that stays out keeps the invariant.
LEMMA StayKeepsInv ==
  ASSUME NEW r \in Reads, NEW s \in OutAtSea, RequestsInv, soon = <<>>, read[r] \in OutAtSea,
         read' = [read EXCEPT ![r] = s],
         tries' \in [Reads -> 0..(Retries + 1)],
         status' \in [Reads -> {"none", "ok", "refused", "overloaded"}],
         \A q \in Reads \ {r} : tries'[q] = tries[q],
         s = "pause" => tries'[r] <= Retries,
         UNCHANGED <<asked, running, line, soon>>
  PROVE  RequestsInv'
  <1>1. RequestsTypeOK'
    BY DEF RequestsInv, RequestsTypeOK, Stages, OutAtSea
  <1>2. SoonIsShort' /\ Resuming' = Resuming
    BY DEF RequestsInv, SoonIsShort, Resuming
  <1>3. LineIsTheLast'
    <2>1. ~Resuming /\ ~Resuming'
      BY DEF Resuming
    <2>2. \A q \in Reads : /\ read'[q] = "unasked" <=> read[q] = "unasked"
                           /\ read'[q] = "line" <=> read[q] = "line"
      BY DEF RequestsInv, RequestsTypeOK, OutAtSea
    <2> QED BY <2>1, <2>2 DEF RequestsInv, LineIsTheLast
  <1>4. Going' = Going
    BY GoingKeeps DEF RequestsInv, RequestsTypeOK, Stages, OutAtSea
  <1>5. SlotsAreCounted'
    BY <1>2, <1>4 DEF RequestsInv, SlotsAreCounted
  <1>6. PauseHasATry'
    BY DEF RequestsInv, RequestsTypeOK, PauseHasATry
  <1> QED BY <1>1, <1>2, <1>3, <1>5, <1>6 DEF RequestsInv

\* A read that may be tried again keeps the invariant, tried again or not.
LEMMA RetryKeepsInv ==
  ASSUME NEW r \in Reads, RequestsInv, soon = <<>>, read[r] \in OutAtSea, Retry(r)
  PROVE  RequestsInv'
  <1>1. CASE tries[r] <= Retries
    <2>1. read' = [read EXCEPT ![r] = "pause"] /\ UNCHANGED <<tries, status, asked, running, line, soon>>
      BY <1>1 DEF Retry
    <2> QED BY <1>1, <2>1, StayKeepsInv DEF RequestsInv, RequestsTypeOK, OutAtSea
  <1>2. CASE ~(tries[r] <= Retries)
    BY <1>2, EndKeepsInv DEF Retry
  <1> QED BY <1>1, <1>2

\* The read that is called takes the slot that was left to it.
LEMMA ResumeKeepsInv ==
  ASSUME RequestsInv, ResumeStep
  PROVE  RequestsInv'
  <1>1. Resuming
    BY DEF ResumeStep, Resuming
  <1>2. PICK h, r \in Reads : soon = <<Resume(h), Return(r)>>
    BY <1>1 DEF RequestsInv, SoonIsShort, Resuming, Return
  <1>3. soon' = <<Return(r)>> /\ Head(soon).read = h
    BY <1>2 DEF ResumeStep, Resume
  <1>4. /\ read' = [read EXCEPT ![h] = "sent"] /\ tries' = [tries EXCEPT ![h] = 1]
        /\ running' = running + 1 /\ status' = status /\ asked' = asked /\ line' = line
    BY <1>3 DEF ResumeStep, Start
  <1>5. ~Resuming' /\ SoonIsShort'
    BY <1>3 DEF Resuming, SoonIsShort, Return
  <1>6. read[h] = "line" /\ h = asked - Len(line) /\ Len(line) \in Nat /\ asked \in Nat
    BY <1>1, <1>3, MaxReadsAssumption DEF RequestsInv, RequestsTypeOK, LineIsTheLast
  <1>7. RequestsTypeOK'
    <2>1. soon' \in Seq([does : {"resume", "return"}, read : Reads])
      BY <1>3 DEF Return
    <2> QED BY <1>4, <2>1 DEF RequestsInv, RequestsTypeOK, Stages, Retries
  <1>8. LineIsTheLast'
    <2>1. \A q \in Reads : read'[q] = "unasked" <=> q > asked'
      BY <1>4, <1>6 DEF RequestsInv, RequestsTypeOK, LineIsTheLast, Reads
    <2>2. \A q \in Reads : read'[q] = "line" <=> q > asked' - Len(line') /\ q <= asked'
      <3> TAKE q \in Reads
      <3>1. q \in Int /\ asked' = asked /\ Len(line') = Len(line)
        BY <1>4, MaxReadsAssumption DEF Reads
      <3>2. read[q] = "line" <=> (q > asked - Len(line) /\ q <= asked) \/ q = h
        BY <1>1, <1>6 DEF RequestsInv, LineIsTheLast
      <3>3. read'[q] = "line" <=> read[q] = "line" /\ q # h
        BY <1>4 DEF RequestsInv, RequestsTypeOK
      <3>4. q = h => ~(q > asked - Len(line))
        BY <1>6, <3>1
      <3> QED BY <3>1, <3>2, <3>3, <3>4
    <2> QED BY <1>4, <1>5, <2>1, <2>2 DEF RequestsInv, LineIsTheLast
  <1>9. Cardinality(Going') = Cardinality(Going) + 1
    BY <1>4, <1>6, GoingGains DEF RequestsInv, RequestsTypeOK, OutAtSea
  <1>10. SlotsAreCounted'
    BY <1>1, <1>4, <1>5, <1>9, ConcurrencyAssumption DEF RequestsInv, RequestsTypeOK, SlotsAreCounted
  <1>11. PauseHasATry'
    BY <1>4 DEF RequestsInv, RequestsTypeOK, PauseHasATry
  <1> QED BY <1>5, <1>7, <1>8, <1>10, <1>11 DEF RequestsInv

\* The caller of a read that ended goes on, and may ask for one more.
LEMMA ReturnKeepsInv ==
  ASSUME RequestsInv, ReturnStep
  PROVE  RequestsInv'
  <1>1. ~Resuming
    BY DEF ReturnStep, Resuming
  <1>2. soon' = <<>>
    <2>1. PICK r \in Reads : soon = <<Return(r)>>
      BY DEF ReturnStep, RequestsInv, SoonIsShort, Resume
    <2> QED BY <2>1 DEF ReturnStep
  <1>3. CASE Enqueue
    BY <1>1, <1>2, <1>3, EnqueueKeepsInv
  <1>4. CASE UNCHANGED <<read, tries, status, asked, running, line>>
    <2>1. ~Resuming' /\ SoonIsShort' /\ Going' = Going
      BY <1>2, <1>4 DEF Resuming, SoonIsShort, Going
    <2>2. RequestsTypeOK' /\ LineIsTheLast' /\ PauseHasATry'
      BY <1>1, <1>2, <1>4, <2>1 DEF RequestsInv, RequestsTypeOK, LineIsTheLast, PauseHasATry
    <2>3. SlotsAreCounted'
      BY <1>1, <1>4, <2>1 DEF RequestsInv, SlotsAreCounted
    <2> QED BY <2>1, <2>2, <2>3 DEF RequestsInv
  <1> QED BY <1>3, <1>4 DEF ReturnStep

\* Every step keeps the invariant.
LEMMA InvIsKept == RequestsInv /\ [RequestsNext]_rvars => RequestsInv'
  <1> SUFFICES ASSUME RequestsInv, [RequestsNext]_rvars PROVE RequestsInv'
    OBVIOUS
  <1>1. CASE Ask
    <2>1. ~Resuming /\ soon' = <<>> /\ Enqueue
      BY <1>1 DEF Ask, Resuming
    <2> QED BY <2>1, EnqueueKeepsInv
  <1>2. CASE ResumeStep
    BY <1>2, ResumeKeepsInv
  <1>3. CASE ReturnStep
    BY <1>3, ReturnKeepsInv
  <1>4. ASSUME NEW r \in Reads, Answered(r) PROVE RequestsInv'
    <2>1. PICK s \in {"ok", "refused", "overloaded"} : status' = [status EXCEPT ![r] = s]
      BY <1>4 DEF Answered
    <2>2. status' \in [Reads -> {"none", "ok", "refused", "overloaded"}]
      BY <2>1 DEF RequestsInv, RequestsTypeOK
    <2> QED BY <1>4, <2>2, StayKeepsInv DEF Answered, RequestsInv, RequestsTypeOK, OutAtSea
  <1>5. ASSUME NEW r \in Reads, Unanswered(r) PROVE RequestsInv'
    BY <1>5, RetryKeepsInv DEF Unanswered, OutAtSea
  <1>6. ASSUME NEW r \in Reads, BodyRead(r) PROVE RequestsInv'
    <2>1. soon = <<>> /\ read[r] \in OutAtSea /\ (Retry(r) \/ End(r))
      BY <1>6 DEF BodyRead, OutAtSea
    <2> QED BY <2>1, RetryKeepsInv, EndKeepsInv
  <1>7. ASSUME NEW r \in Reads, PauseOver(r) PROVE RequestsInv'
    <2>1. /\ soon = <<>> /\ read[r] = "pause" /\ read' = [read EXCEPT ![r] = "sent"]
          /\ tries' = [tries EXCEPT ![r] = tries[r] + 1]
          /\ UNCHANGED <<status, asked, running, line, soon>>
      BY <1>7 DEF PauseOver
    <2>2. tries[r] \in 0..(Retries + 1) /\ tries[r] <= Retries
      BY <2>1 DEF RequestsInv, RequestsTypeOK, PauseHasATry
    <2>3. tries' \in [Reads -> 0..(Retries + 1)] /\ \A q \in Reads \ {r} : tries'[q] = tries[q]
      BY <2>1, <2>2 DEF RequestsInv, RequestsTypeOK, Retries
    <2> QED BY <2>1, <2>3, StayKeepsInv DEF RequestsInv, RequestsTypeOK, OutAtSea
  <1>8. CASE UNCHANGED rvars
    <2>1. Going' = Going /\ Resuming' = Resuming
      BY <1>8 DEF rvars, Going, Resuming
    <2>2. SlotsAreCounted' /\ LineIsTheLast'
      BY <1>8, <2>1 DEF rvars, RequestsInv, SlotsAreCounted, LineIsTheLast
    <2> QED BY <1>8, <2>2 DEF rvars, RequestsInv, RequestsTypeOK, SoonIsShort, PauseHasATry
  <1> QED BY <1>1, <1>2, <1>3, <1>4, <1>5, <1>6, <1>7, <1>8 DEF RequestsNext

----------------------------------------------------------------------------
(* Reads take turns.                                                        *)

\* What waits to be called is one continuation when the first in line is called, none else.
LEMMA CalledAreCounted ==
  ASSUME RequestsInv, Resuming
  PROVE  Cardinality({i \in DOMAIN soon : soon[i].does = "resume"}) = 1
  <1>1. PICK h, r \in Reads : soon = <<Resume(h), Return(r)>>
    BY DEF RequestsInv, SoonIsShort, Resuming, Return
  <1>2. {i \in DOMAIN soon : soon[i].does = "resume"} = {1}
    BY <1>1 DEF Resume, Return
  <1> QED BY <1>2, FS_Singleton

\* What waits to be called is counted by a natural number.
LEMMA CalledAreFew ==
  ASSUME RequestsInv
  PROVE  Cardinality({i \in DOMAIN soon : soon[i].does = "resume"}) \in Nat
  <1>1. DOMAIN soon = 1..Len(soon) /\ Len(soon) \in Nat
    BY DEF RequestsInv, RequestsTypeOK
  <1>2. IsFiniteSet(DOMAIN soon)
    BY <1>1, FS_Interval
  <1>3. {i \in DOMAIN soon : soon[i].does = "resume"} \in SUBSET DOMAIN soon
    OBVIOUS
  <1> QED BY <1>2, <1>3, FS_Subset, FS_CardinalityType

\* The invariant is strong enough: two at a time, each that waits is called, in the order asked.
LEMMA InvGivesTurns == RequestsInv => ReadsTakeTurns
  <1> SUFFICES ASSUME RequestsInv PROVE ReadsTakeTurns
    OBVIOUS
  <1>1. TwoAtATime
    BY ConcurrencyAssumption, GoingIsFinite DEF RequestsInv, SlotsAreCounted, TwoAtATime
  <1>2. LineIsCalled
    <2>1. CASE Resuming
      BY <2>1, CalledAreCounted, ConcurrencyAssumption, GoingIsFinite DEF RequestsInv, SlotsAreCounted, LineIsCalled
    <2>2. CASE ~Resuming
      BY <2>2, CalledAreFew, ConcurrencyAssumption, GoingIsFinite DEF RequestsInv, SlotsAreCounted, LineIsCalled
    <2> QED BY <2>1, <2>2
  <1>3. InTheOrderAsked
    BY DEF RequestsInv, RequestsTypeOK, LineIsTheLast, InTheOrderAsked, Reads
  <1> QED BY <1>1, <1>2, <1>3 DEF ReadsTakeTurns

\* However many are asked, in whatever order answers, timeouts and pauses come: a read takes a slot only
\* when one is left to it, the first asked is the first out, and none is left in line with a slot free
\* (queue.ts, api.ts).
THEOREM ReadsTakeTheirTurns == RequestsSpec => []ReadsTakeTurns
  <1>1. RequestsSpec => []RequestsInv
    BY InvHoldsAtFirst, InvIsKept, PTL DEF RequestsSpec
  <1> QED BY <1>1, InvGivesTurns, PTL

\* Every variable of the reads keeps its type, for any number of them.
THEOREM RequestsAreWellTyped == RequestsSpec => []RequestsTypeOK
  <1>1. RequestsSpec => []RequestsInv
    BY InvHoldsAtFirst, InvIsKept, PTL DEF RequestsSpec
  <1>2. RequestsInv => RequestsTypeOK
    BY DEF RequestsInv
  <1> QED BY <1>1, <1>2, PTL

----------------------------------------------------------------------------
(* Polls and reactions (ReaderVotes).                                       *)

----------------------------------------------------------------------------
(* The poll.                                                                *)

Writes == [n : Nat, to : SUBSET Options, answer : {"none", "done", "401", "closed", "failed"}, awaited : BOOLEAN]

PollTypes ==
    /\ multipleChoice \in BOOLEAN /\ sending \in BOOLEAN /\ crossed \in BOOLEAN /\ expired \in BOOLEAN /\ cookie \in BOOLEAN /\ over \in BOOLEAN
    /\ poll \in [fetched : BOOLEAN, choice : SUBSET Options, closed : BOOLEAN]
    /\ load \in [state : {"none", "out", "served"}, choice : SUBSET Options, closed : BOOLEAN]
    /\ confirmed \in SUBSET Options /\ desired \in SUBSET Options /\ ballot \in SUBSET Options /\ last \in SUBSET Options
    /\ votes \subseteq Writes
    /\ clicks \in Nat

\* A reader clicks a poll he has before him, in a session the page knows; of the first click on, a load
\* can only be out if one was at a click
Known ==
    /\ clicks > 0 => poll.fetched /\ known = "in"
    /\ clicks > 0 /\ ~crossed => load.state = "none"

\* Before the first click nothing is sent, and what was read is what the service holds, or would be
\* but for a session that has ended since
BeforeClicks ==
    clicks = 0 =>
        /\ votes = {} /\ ~sending
        /\ load.state = "served" /\ cookie => load.choice = ballot
        /\ poll.fetched => /\ poll.choice = confirmed /\ desired = confirmed
                           /\ cookie => confirmed = ballot

\* One write at a time; the poll is drawn with the latest click; what the widget believes confirmed is
\* so, until the write under way is taken
OneVoteAtATime ==
    clicks > 0 /\ ~crossed /\ ~expired /\ lost # "unheard" =>
        /\ poll.choice = desired
        /\ lost = "nothing" => desired = last
        /\ sending \/ (votes = {} /\ desired = confirmed /\ confirmed = ballot)
        /\ sending => \E v \in votes :
              /\ votes = {v} /\ v.awaited
              /\ v.answer = "none" => ~cookie \/ confirmed = ballot
              /\ v.answer = "done" => v.to = ballot
              /\ v.answer \in {"closed", "failed"} => confirmed = ballot

PollInv == PollTypes /\ Known /\ BeforeClicks /\ OneVoteAtATime

\* A click changes what is drawn, among the options.
LEMMA TogglesChange ==
  ASSUME PollTypes, NEW o \in Options
  PROVE  Toggled(o) \in SUBSET Options /\ Toggled(o) # poll.choice
  BY DEF PollTypes, Toggled

\* A write under way is typed, and so it is answered or given up.
LEMMA WritesAreTyped ==
  ASSUME NEW v \in Writes
  PROVE  /\ v.n \in Nat /\ v.to \in SUBSET Options /\ v.awaited \in BOOLEAN
         /\ v.answer \in {"none", "done", "401", "closed", "failed"}
         /\ \A answer \in {"none", "done", "401", "closed", "failed"} :
              /\ [v EXCEPT !.answer = answer] \in Writes
              /\ [v EXCEPT !.answer = answer].answer = answer
              /\ [v EXCEPT !.answer = answer].to = v.to
              /\ [v EXCEPT !.answer = answer].awaited = v.awaited
         /\ [v EXCEPT !.awaited = FALSE] \in Writes
  BY DEF Writes

\* The write that a click or an answer sends.
LEMMA NewVote ==
  ASSUME PollTypes, NEW to \in SUBSET Options
  PROVE  Vote(to) \in Writes /\ Vote(to).to = to /\ Vote(to).answer = "none" /\ Vote(to).awaited
  BY DEF PollTypes, Vote, Writes

\* A click keeps the invariant: the widget has a session and a poll, and it has one write out at most.
LEMMA ChooseKeepsPoll ==
  ASSUME PollInv, NEW o \in Options, Choose(o)
  PROVE  PollInv'
  <1> DEFINE to == Toggled(o)
  <1>1. /\ to \in SUBSET Options /\ to # poll.choice
        /\ Vote(to) \in Writes /\ Vote(to).to = to /\ Vote(to).answer = "none" /\ Vote(to).awaited
    BY TogglesChange, NewVote DEF PollInv
  <1>2. /\ desired' = to /\ last' = to /\ poll' = [poll EXCEPT !.choice = to]
        /\ IF sending \/ to = confirmed THEN UNCHANGED <<votes, sending>>
           ELSE votes' = votes \union {Vote(to)} /\ sending' = TRUE
        /\ clicks' = clicks + 1 /\ crossed' = (crossed \/ load.state # "none")
        /\ UNCHANGED <<multipleChoice, confirmed, load, known, expired, cookie, ballot, over, lost>>
        /\ poll.fetched /\ known = "in" /\ ~expired
    BY DEF Choose, CanVote, serverSide
  <1> HIDE DEF to
  <1>3. /\ poll' \in [fetched : BOOLEAN, choice : SUBSET Options, closed : BOOLEAN]
        /\ poll'.fetched /\ poll'.choice = to
    BY <1>1, <1>2 DEF PollInv, PollTypes
  <1>4. PollTypes'
    <2>1. votes' \subseteq Writes /\ sending' \in BOOLEAN
      BY <1>1, <1>2 DEF PollInv, PollTypes
    <2>2. crossed' \in BOOLEAN
      BY <1>2 DEF PollInv, PollTypes
    <2> QED BY <1>1, <1>2, <1>3, <2>1, <2>2 DEF PollInv, PollTypes
  <1>5. Known' /\ BeforeClicks'
    BY <1>2, <1>3 DEF PollInv, PollTypes, Known, BeforeClicks
  <1>6. OneVoteAtATime'
    <2> SUFFICES ASSUME ~crossed', lost # "unheard"
                 PROVE  /\ sending' \/ (votes' = {} /\ desired' = confirmed' /\ confirmed' = ballot')
                        /\ sending' => \E v \in votes' :
                              /\ votes' = {v} /\ v.awaited
                              /\ v.answer = "none" => ~cookie' \/ confirmed' = ballot'
                              /\ v.answer = "done" => v.to = ballot'
                              /\ v.answer \in {"closed", "failed"} => confirmed' = ballot'
      BY <1>2, <1>3 DEF OneVoteAtATime
    <2>1. ~crossed /\ load.state = "none"
      BY <1>2
    <2>2. CASE clicks = 0
      <3>1. votes = {} /\ ~sending /\ poll.choice = confirmed /\ (cookie => confirmed = ballot)
        BY <1>2, <2>2 DEF PollInv, BeforeClicks
      <3>2. votes' = {Vote(to)} /\ sending'
        BY <1>1, <1>2, <3>1
      <3> QED BY <1>1, <1>2, <3>1, <3>2
    <2>3. CASE clicks > 0 /\ sending
      <3>1. UNCHANGED <<votes, sending>>
        BY <1>2, <2>3
      <3> QED BY <1>2, <2>1, <2>3, <3>1 DEF PollInv, OneVoteAtATime
    <2>4. CASE clicks > 0 /\ ~sending
      <3>1. votes = {} /\ confirmed = ballot
        BY <1>2, <2>1, <2>4 DEF PollInv, OneVoteAtATime
      <3>2. CASE to = confirmed
        BY <1>2, <2>4, <3>1, <3>2
      <3>3. CASE to # confirmed
        <4>1. votes' = {Vote(to)} /\ sending'
          BY <1>2, <2>4, <3>1, <3>3
        <4> QED BY <1>1, <1>2, <3>1, <4>1
      <3> QED BY <3>2, <3>3
    <2> QED BY <2>2, <2>3, <2>4 DEF PollInv, PollTypes
  <1> QED BY <1>4, <1>5, <1>6 DEF PollInv

\* The service answers a write: with "done" it holds what was written, with anything else what it held.
LEMMA ServedKeepsPoll ==
  ASSUME PollInv, NEW v \in votes, VoteServed(v)
  PROVE  PollInv'
  <1>1. PICK answer \in {"401", "closed", "done", "failed"} :
          /\ (IF ~cookie THEN answer = "401" ELSE answer # "401")
          /\ votes' = (votes \ {v}) \union {[v EXCEPT !.answer = answer]}
          /\ ballot' = IF answer = "done" THEN v.to ELSE ballot
    BY DEF VoteServed
  <1>2. /\ v.answer = "none"
        /\ UNCHANGED <<multipleChoice, poll, confirmed, desired, sending, load, known, expired, cookie, over, clicks, last, crossed, lost>>
    BY DEF VoteServed
  <1> DEFINE w == [v EXCEPT !.answer = answer]
  <1>3. v \in Writes /\ w \in Writes /\ w.answer = answer /\ w.to = v.to /\ w.awaited = v.awaited /\ v.to \in SUBSET Options
    <2>1. v \in Writes /\ answer \in {"none", "done", "401", "closed", "failed"}
      BY <1>1 DEF PollInv, PollTypes
    <2> HIDE DEF w
    <2>2. w = [v EXCEPT !.answer = answer]
      BY DEF w
    <2> QED BY <2>1, <2>2 DEF Writes
  <1> HIDE DEF w
  <1>4. votes' = (votes \ {v}) \union {w}
    BY <1>1 DEF w
  <1>5. PollTypes'
    BY <1>1, <1>2, <1>3, <1>4 DEF PollInv, PollTypes
  <1>6. clicks > 0
    BY DEF PollInv, BeforeClicks, PollTypes
  <1>7. Known' /\ BeforeClicks'
    BY <1>2, <1>6 DEF PollInv, Known, BeforeClicks
  <1>8. OneVoteAtATime'
    <2> SUFFICES ASSUME ~crossed, ~expired, lost # "unheard" PROVE OneVoteAtATime'
      BY <1>2 DEF OneVoteAtATime
    <2>1. /\ sending /\ votes = {v} /\ v.awaited
          /\ ~cookie \/ confirmed = ballot
          /\ poll.choice = desired /\ (lost = "nothing" => desired = last)
      BY <1>2, <1>6 DEF PollInv, OneVoteAtATime
    <2>2. votes' = {w}
      BY <1>4, <2>1
    <2>3. w.answer \in {"closed", "failed"} => confirmed = ballot /\ ballot' = ballot
      BY <1>1, <1>3, <2>1
    <2>4. w.answer = "done" => w.to = ballot'
      BY <1>1, <1>3
    <2>5. w.answer # "none"
      BY <1>1, <1>3
    <2> QED BY <1>2, <1>3, <2>1, <2>2, <2>3, <2>4, <2>5 DEF OneVoteAtATime
  <1> QED BY <1>5, <1>7, <1>8 DEF PollInv

\* A write that is taken confirms what the service holds; the next goes out for the latest click.
LEMMA TakenKeepsPoll ==
  ASSUME PollInv, NEW v \in votes, VoteTaken(v)
  PROVE  PollInv'
  <1>1. /\ v.awaited /\ v.answer = "done" /\ confirmed' = v.to
        /\ votes' = (votes \ {v}) \union (IF desired = v.to THEN {} ELSE {Vote(desired)})
        /\ sending' = (desired # v.to)
        /\ UNCHANGED <<multipleChoice, poll, desired, load, known, expired, cookie, ballot, over, clicks, last, crossed, lost>>
    BY DEF VoteTaken, serverSide
  <1>2. v.to \in SUBSET Options
    BY WritesAreTyped DEF PollInv, PollTypes
  <1>3. Vote(desired) \in Writes /\ Vote(desired).answer = "none" /\ Vote(desired).awaited
    BY NewVote DEF PollInv, PollTypes
  <1>4. PollTypes'
    BY <1>1, <1>2, <1>3 DEF PollInv, PollTypes
  <1>5. clicks > 0
    BY DEF PollInv, BeforeClicks, PollTypes
  <1>6. Known' /\ BeforeClicks'
    BY <1>1, <1>5 DEF PollInv, Known, BeforeClicks
  <1>7. OneVoteAtATime'
    <2> SUFFICES ASSUME ~crossed, ~expired, lost # "unheard" PROVE OneVoteAtATime'
      BY <1>1 DEF OneVoteAtATime
    <2>1. /\ votes = {v} /\ v.to = ballot
          /\ poll.choice = desired /\ (lost = "nothing" => desired = last)
      BY <1>1, <1>5 DEF PollInv, OneVoteAtATime
    <2>2. CASE desired = v.to
      <3>1. votes' = {} /\ ~sending'
        BY <1>1, <2>1, <2>2
      <3> QED BY <1>1, <2>1, <2>2, <3>1 DEF OneVoteAtATime
    <2>3. CASE desired # v.to
      <3>1. votes' = {Vote(desired)} /\ sending'
        BY <1>1, <2>1, <2>3
      <3> QED BY <1>1, <1>3, <2>1, <3>1 DEF OneVoteAtATime
    <2> QED BY <2>2, <2>3
  <1> QED BY <1>4, <1>6, <1>7 DEF PollInv

\* What was turned down is taken back to what is confirmed, and that is what the service holds, unless
\* the session was refused or the answer never came.
LEMMA TakenBackKeepsPoll ==
  ASSUME PollInv, NEW v \in votes, VoteRefused(v) \/ VoteGivenUp(v)
  PROVE  PollInv'
  <1> DEFINE w == [v EXCEPT !.awaited = FALSE]
  <1>1. /\ desired' = confirmed /\ sending' = FALSE
        /\ UNCHANGED <<multipleChoice, confirmed, load, known, cookie, ballot, over, clicks, last, crossed>>
        /\ expired' \in BOOLEAN /\ (expired => expired')
    BY DEF VoteRefused, VoteGivenUp, TakeBack, serverSide, PollInv, PollTypes
  <1>2. votes' \subseteq (votes \ {v}) \union {w}
    BY DEF VoteRefused, VoteGivenUp
  <1>3. v \in Writes /\ w \in Writes
    BY WritesAreTyped DEF PollInv, PollTypes
  <1> HIDE DEF w
  <1>4. poll' \in [fetched : BOOLEAN, choice : SUBSET Options, closed : BOOLEAN] /\ poll'.choice = confirmed /\ poll'.fetched = poll.fetched
    <2>1. PICK closed \in BOOLEAN : poll' = [poll EXCEPT !.choice = confirmed, !.closed = closed]
      <3>1. CASE VoteRefused(v)
        <4>1. (poll.closed \/ v.answer = "closed") \in BOOLEAN
          OBVIOUS
        <4> QED BY <3>1, <4>1 DEF VoteRefused
      <3>2. CASE VoteGivenUp(v)
        <4>1. poll' = [poll EXCEPT !.choice = confirmed]
          BY <3>2 DEF VoteGivenUp
        <4> QED BY <4>1 DEF PollInv, PollTypes
      <3> QED BY <3>1, <3>2
    <2> QED BY <2>1 DEF PollInv, PollTypes
  <1>5. PollTypes'
    BY <1>1, <1>2, <1>3, <1>4 DEF PollInv, PollTypes
  <1>6. clicks > 0
    BY DEF PollInv, BeforeClicks, PollTypes
  <1>7. Known' /\ BeforeClicks'
    BY <1>1, <1>4, <1>6 DEF PollInv, Known, BeforeClicks
  <1>8. OneVoteAtATime'
    <2>1. CASE VoteGivenUp(v)
      BY <2>1 DEF VoteGivenUp, OneVoteAtATime
    <2>2. CASE VoteRefused(v)
      <3> SUFFICES ASSUME ~crossed, ~expired', lost' # "unheard" PROVE OneVoteAtATime'
        BY <1>1 DEF OneVoteAtATime
      <3>1. /\ v.answer \in {"closed", "failed"} /\ lost # "unheard" /\ lost' = "refused" /\ ~expired
            /\ votes' = votes \ {v}
        BY <2>2 DEF VoteRefused
      <3>2. votes = {v} /\ confirmed = ballot
        BY <1>6, <3>1 DEF PollInv, OneVoteAtATime
      <3>3. votes' = {}
        BY <3>1, <3>2
      <3> QED BY <1>1, <1>4, <3>1, <3>2, <3>3 DEF OneVoteAtATime
    <2> QED BY <2>1, <2>2
  <1> QED BY <1>5, <1>7, <1>8 DEF PollInv

\* Loads come and go before the first click, or were out at one.
LEMMA LoadsKeepPoll ==
  ASSUME PollInv, LoadServed \/ PollTurn \/ PollLoaded \/ PollLoadFails \/ SessionKnown \/ RetryPoll
  PROVE  PollInv'
  <1>1. CASE LoadServed
    <2>1. /\ load.state = "out" /\ load' = [state |-> "served", choice |-> IF cookie THEN ballot ELSE {}, closed |-> over]
          /\ UNCHANGED <<multipleChoice, poll, confirmed, desired, sending, known, expired, cookie, ballot, over, votes, clicks, last, crossed, lost>>
      BY <1>1 DEF LoadServed, serverSide
    <2>2. PollTypes'
      BY <2>1 DEF PollInv, PollTypes
    <2>3. Known' /\ BeforeClicks'
      BY <2>1 DEF PollInv, Known, BeforeClicks
    <2>4. OneVoteAtATime'
      BY <2>1 DEF PollInv, OneVoteAtATime
    <2> QED BY <2>2, <2>3, <2>4 DEF PollInv
  <1>2. CASE PollTurn
    <2>1. /\ UNCHANGED <<multipleChoice, poll, confirmed, desired, sending, load, known, expired, ballot, votes, clicks, last, crossed, lost>>
          /\ over' \in BOOLEAN /\ cookie' \in BOOLEAN /\ (cookie' => cookie)
      <3>1. CASE over' = TRUE /\ UNCHANGED <<cookie, ballot>>
        BY <1>2, <3>1 DEF PollTurn, PollInv, PollTypes
      <3>2. CASE cookie' = FALSE /\ UNCHANGED <<over, ballot>>
        BY <1>2, <3>2 DEF PollTurn, PollInv, PollTypes
      <3> QED BY <1>2, <3>1, <3>2 DEF PollTurn
    <2>2. PollTypes'
      BY <2>1 DEF PollInv, PollTypes
    <2>3. Known' /\ BeforeClicks'
      BY <2>1 DEF PollInv, Known, BeforeClicks
    <2>4. OneVoteAtATime'
      BY <2>1 DEF PollInv, OneVoteAtATime
    <2> QED BY <2>2, <2>3, <2>4 DEF PollInv
  <1>3. CASE PollLoaded
    <2>1. /\ load.state = "served" /\ poll' = [fetched |-> TRUE, choice |-> load.choice, closed |-> load.closed]
          /\ confirmed' = load.choice /\ desired' = load.choice /\ load' = NoLoad
          /\ UNCHANGED <<multipleChoice, sending, known, expired, cookie, ballot, over, votes, clicks, last, crossed, lost>>
      BY <1>3 DEF PollLoaded, serverSide
    <2>2. PollTypes'
      BY <2>1 DEF PollInv, PollTypes, NoLoad
    <2>3. Known' /\ BeforeClicks'
      BY <2>1 DEF PollInv, Known, BeforeClicks, NoLoad
    <2>4. OneVoteAtATime'
      BY <2>1 DEF PollInv, OneVoteAtATime, Known
    <2> QED BY <2>2, <2>3, <2>4 DEF PollInv
  <1>4. CASE PollLoadFails
    BY <1>4 DEF PollLoadFails, PollInv, PollTypes, Known, BeforeClicks, OneVoteAtATime, NoLoad, serverSide
  <1>5. CASE SessionKnown \/ RetryPoll
    <2>1. /\ load' = [NoLoad EXCEPT !.state = "out"] /\ (known = "nothing" \/ ~poll.fetched)
          /\ UNCHANGED <<multipleChoice, poll, confirmed, desired, sending, expired, cookie, ballot, over, votes, clicks, last, crossed, lost>>
      BY <1>5 DEF SessionKnown, RetryPoll, LoadAgain, serverSide
    <2>2. load' = [state |-> "out", choice |-> {}, closed |-> FALSE]
      BY <2>1 DEF NoLoad
    <2>3. ~(clicks > 0)
      BY <2>1 DEF PollInv, Known
    <2>a. load' \in [state : {"none", "out", "served"}, choice : SUBSET Options, closed : BOOLEAN]
      BY <2>2
    <2>4. PollTypes'
      BY <2>1, <2>a DEF PollInv, PollTypes
    <2>5. Known' /\ BeforeClicks' /\ OneVoteAtATime'
      BY <2>1, <2>2, <2>3 DEF PollInv, Known, BeforeClicks, OneVoteAtATime
    <2> QED BY <2>4, <2>5 DEF PollInv
  <1> QED BY <1>1, <1>2, <1>3, <1>4, <1>5

\* Every step of the widget and of the service keeps the invariant.
LEMMA PollStep == PollInv /\ [PollNext]_pvars => PollInv'
  <1> SUFFICES ASSUME PollInv, [PollNext]_pvars PROVE PollInv'
    OBVIOUS
  <1>1. CASE UNCHANGED pvars
    BY <1>1 DEF pvars, PollInv, PollTypes, Known, BeforeClicks, OneVoteAtATime
  <1> QED BY <1>1, ChooseKeepsPoll, ServedKeepsPoll, TakenKeepsPoll, TakenBackKeepsPoll, LoadsKeepPoll DEF PollNext

\* However quick the clicks and whatever becomes of the writes: at rest the poll is drawn with the vote
\* the service holds, and that is the last click unless one was turned down (PollWidget.tsx).
THEOREM VotesSettle == PollSpec => []LatestVoteStands
  <1>1. PollInit => PollInv
    <2> SUFFICES ASSUME PollInit PROVE PollInv
      OBVIOUS
    <2>1. ballot \in SUBSET Options
      BY DEF PollInit, Choices
    <2>2. load = [state |-> "out", choice |-> {}, closed |-> FALSE]
      BY DEF PollInit, NoLoad
    <2>3. PollTypes
      <3>1. load \in [state : {"none", "out", "served"}, choice : SUBSET Options, closed : BOOLEAN]
        BY <2>2
      <3>2. poll \in [fetched : BOOLEAN, choice : SUBSET Options, closed : BOOLEAN]
        BY DEF PollInit, NotFetched
      <3> QED BY <2>1, <3>1, <3>2 DEF PollInit, PollTypes
    <2>4. Known /\ BeforeClicks /\ OneVoteAtATime
      BY <2>2 DEF PollInit, Known, BeforeClicks, OneVoteAtATime, NotFetched
    <2> QED BY <2>3, <2>4 DEF PollInv
  <1>2. PollInv => LatestVoteStands
    BY DEF PollInv, OneVoteAtATime, LatestVoteStands
  <1> QED BY <1>1, <1>2, PollStep, PTL DEF PollSpec

----------------------------------------------------------------------------
(* The reaction.                                                            *)

Marks == {"like", "dislike", "none"}
Sent == [n : Nat, to : Marks, back : Marks, answer : {"none", "done", "failed"}, awaited : BOOLEAN]

UnansweredClicks == {q \in reactionsOut : q.answer = "none"}

\* Requests are numbered by the tap that was the last before them
ReactTypes ==
    /\ mark \in Marks /\ stored \in Marks /\ taps \in Nat
    /\ tap \in [on : BOOLEAN, to : Marks, confirmed : Marks]
    /\ tangled \in BOOLEAN /\ unheard \in BOOLEAN
    /\ reactionsOut \subseteq Sent
    /\ \A q \in reactionsOut : q.n <= taps /\ (tap.on => q.n < taps)
    /\ \A p, q \in reactionsOut : p.n = q.n => p = q
    /\ ~unheard => \A q \in reactionsOut : q.awaited

\* Nothing was overtaken, given up, or failed under a later tap
Clean == ~tangled /\ ~unheard /\ \A q \in reactionsOut : q.answer = "failed" => q.n = taps

\* What the slot goes back to if the taps under way fail
Standing == IF tap.on THEN tap.confirmed ELSE mark

\* The requests are served in their order, and each goes back to what the one before it was for, the
\* first to what the service holds; after the last comes what is drawn
Chained ==
    /\ tap.on => mark = tap.to
    /\ \A p \in reactionsOut \ UnansweredClicks, q \in UnansweredClicks : p.n < q.n
    /\ \A p, q \in UnansweredClicks : p.n < q.n /\ (\A r \in UnansweredClicks : r.n <= p.n \/ r.n >= q.n) => q.back = p.to
    /\ \A q \in UnansweredClicks : (\A r \in UnansweredClicks : r.n >= q.n) => q.back = stored
    /\ \A q \in UnansweredClicks : (\A r \in UnansweredClicks : r.n <= q.n) => Standing = q.to
    /\ UnansweredClicks = {} =>
          IF \E q \in reactionsOut : q.answer = "failed" THEN \A q \in reactionsOut : q.answer = "failed" => q.back = stored
          ELSE Standing = stored

ReactInv == ReactTypes /\ (Clean => Chained)

\* A request is typed whatever is answered to it.
LEMMA SentIsTyped ==
  ASSUME NEW q \in Sent
  PROVE  /\ q.n \in Nat /\ q.to \in Marks /\ q.back \in Marks /\ q.answer \in {"none", "done", "failed"} /\ q.awaited \in BOOLEAN
         /\ \A answer \in {"none", "done", "failed"} :
              LET r == [q EXCEPT !.answer = answer]
              IN r \in Sent /\ r.answer = answer /\ r.n = q.n /\ r.to = q.to /\ r.back = q.back /\ r.awaited = q.awaited
         /\ LET r == [q EXCEPT !.awaited = FALSE] IN r \in Sent /\ r.n = q.n
  BY DEF Sent

\* A tap changes what is drawn; what a run of taps goes back to stays what it was before the first.
LEMMA ReactKeeps ==
  ASSUME ReactInv, NEW v \in Values, React(v)
  PROVE  ReactInv'
  <1>1. PICK to \in Marks :
          /\ mark' = to
          /\ tap' = [on |-> TRUE, to |-> to, confirmed |-> IF tap.on THEN tap.confirmed ELSE mark]
          /\ taps' = taps + 1
          /\ UNCHANGED <<reactionsOut, stored, tangled, unheard>>
    BY DEF React, Values, Marks
  <1>2. /\ tap' \in [on : BOOLEAN, to : Marks, confirmed : Marks]
        /\ tap'.on /\ tap'.to = mark' /\ Standing' = Standing
    BY <1>1 DEF ReactInv, ReactTypes, Standing
  <1>3. \A q \in reactionsOut : q.n \in Nat /\ q.n <= taps
    BY SentIsTyped DEF ReactInv, ReactTypes
  <1>4. ReactTypes'
    BY <1>1, <1>2, <1>3 DEF ReactInv, ReactTypes
  <1>5. ASSUME Clean' PROVE Chained'
    <2>1. /\ \A q \in reactionsOut : q.answer # "failed"
          /\ Clean
      BY <1>1, <1>3, <1>5 DEF Clean, ReactInv, ReactTypes
    <2> QED BY <1>1, <1>2, <2>1 DEF ReactInv, Chained, UnansweredClicks
  <1> QED BY <1>4, <1>5 DEF ReactInv

\* The request that goes out comes last, and goes back to what the one before it was for.
LEMMA SettleKeeps ==
  ASSUME ReactInv, Settle
  PROVE  ReactInv'
  <1> DEFINE new == [n |-> taps, to |-> tap.to, back |-> tap.confirmed, answer |-> "none", awaited |-> TRUE]
  <1>1. /\ tap.on /\ reactionsOut' = reactionsOut \union {new} /\ tap' = [on |-> FALSE, to |-> "none", confirmed |-> "none"]
        /\ UNCHANGED <<mark, taps, stored, tangled, unheard>>
    BY DEF Settle, NoTap
  <1>2. /\ new \in Sent /\ new.n = taps /\ new.to = tap.to /\ new.back = tap.confirmed /\ new.answer = "none" /\ new.awaited
        /\ tap.confirmed \in Marks
    BY DEF ReactInv, ReactTypes, Sent
  <1> HIDE DEF new
  <1>3. /\ tap' \in [on : BOOLEAN, to : Marks, confirmed : Marks] /\ ~tap'.on
        /\ Standing = tap.confirmed /\ Standing' = mark
    BY <1>1 DEF Marks, Standing
  <1>4. \A q \in reactionsOut : q.n \in Nat /\ q.n < taps
    BY <1>1, SentIsTyped DEF ReactInv, ReactTypes
  <1>5. taps \in Nat
    BY DEF ReactInv, ReactTypes
  <1>6. ReactTypes'
    BY <1>1, <1>2, <1>3, <1>4, <1>5 DEF ReactInv, ReactTypes
  <1>7. ASSUME Clean' PROVE Chained'
    <2>1. /\ \A q \in reactionsOut : q.answer # "failed"
          /\ Clean /\ Chained
      BY <1>1, <1>4, <1>5, <1>7 DEF Clean, ReactInv
    <2>2. UnansweredClicks' = UnansweredClicks \union {new} /\ UnansweredClicks \subseteq reactionsOut
      BY <1>1, <1>2 DEF UnansweredClicks
    <2>3. new.to = mark
      BY <1>1, <1>2, <2>1 DEF Chained
    <2>4. \A p \in UnansweredClicks : (\A r \in UnansweredClicks' : r.n <= p.n \/ r.n >= new.n) => new.back = p.to
      <3> SUFFICES ASSUME NEW p \in UnansweredClicks, \A r \in UnansweredClicks' : r.n <= p.n \/ r.n >= new.n
                   PROVE  new.back = p.to
        OBVIOUS
      <3>1. \A r \in UnansweredClicks : r.n <= p.n
        BY <1>2, <1>4, <1>5, <2>2
      <3>2. Standing = p.to
        BY <2>1, <3>1 DEF Chained
      <3> QED BY <1>2, <1>3, <3>2
    <2>5. (\A r \in UnansweredClicks' : r.n >= new.n) => new.back = stored
      <3> SUFFICES ASSUME \A r \in UnansweredClicks' : r.n >= new.n PROVE new.back = stored
        OBVIOUS
      <3>1. UnansweredClicks = {}
        BY <1>2, <1>4, <1>5, <2>2
      <3>2. Standing = stored
        BY <2>1, <3>1 DEF Chained
      <3> QED BY <1>2, <1>3, <3>2
    <2>6. \A p \in reactionsOut' \ UnansweredClicks', q \in UnansweredClicks' : p.n < q.n
      BY <1>1, <1>2, <1>4, <1>5, <2>1, <2>2 DEF Chained
    <2>7. \A p, q \in UnansweredClicks' : p.n < q.n /\ (\A r \in UnansweredClicks' : r.n <= p.n \/ r.n >= q.n) => q.back = p.to
      <3> SUFFICES ASSUME NEW p \in UnansweredClicks', NEW q \in UnansweredClicks', p.n < q.n,
                          \A r \in UnansweredClicks' : r.n <= p.n \/ r.n >= q.n
                   PROVE  q.back = p.to
        OBVIOUS
      <3>1. p \in UnansweredClicks
        BY <1>2, <1>4, <1>5, <2>2
      <3>2. CASE q = new
        BY <2>4, <3>1, <3>2
      <3>3. CASE q \in UnansweredClicks
        BY <2>1, <2>2, <3>1, <3>3 DEF Chained
      <3> QED BY <2>2, <3>2, <3>3
    <2>8. \A q \in UnansweredClicks' : (\A r \in UnansweredClicks' : r.n >= q.n) => q.back = stored'
      BY <1>1, <2>1, <2>2, <2>5 DEF Chained
    <2>9. \A q \in UnansweredClicks' : (\A r \in UnansweredClicks' : r.n <= q.n) => Standing' = q.to
      BY <1>2, <1>3, <1>4, <1>5, <2>2, <2>3
    <2>10. UnansweredClicks' # {} /\ ~tap'.on
      BY <1>3, <2>2
    <2> HIDE DEF UnansweredClicks
    <2> QED BY <2>6, <2>7, <2>8, <2>9, <2>10 DEF Chained
  <1> QED BY <1>6, <1>7 DEF ReactInv

\* The service takes the first of the requests under way, or the step says that one was overtaken.
LEMMA ServedKeeps ==
  ASSUME ReactInv, NEW q \in reactionsOut, ReactionServed(q)
  PROVE  ReactInv'
  <1>1. PICK answer \in {"done", "failed"} :
          /\ reactionsOut' = (reactionsOut \ {q}) \union {[q EXCEPT !.answer = answer]}
          /\ stored' = IF answer = "done" THEN q.to ELSE stored
    BY DEF ReactionServed
  <1>2. /\ q.answer = "none" /\ UNCHANGED <<mark, tap, taps, unheard>>
        /\ tangled' = (tangled \/ \E p \in reactionsOut : p.n < q.n /\ p.answer = "none")
    BY DEF ReactionServed
  <1> DEFINE w == [q EXCEPT !.answer = answer]
  <1>3. w \in Sent /\ w.answer = answer /\ w.n = q.n /\ w.to = q.to /\ w.back = q.back /\ w.awaited = q.awaited
        /\ q.to \in Marks /\ q.n \in Nat
    <2>1. q \in Sent
      BY DEF ReactInv, ReactTypes
    <2> HIDE DEF w
    <2>2. w = [q EXCEPT !.answer = answer]
      BY DEF w
    <2> QED BY <2>1, <2>2 DEF Sent
  <1> HIDE DEF w
  <1>4. reactionsOut' = (reactionsOut \ {q}) \union {w}
    BY <1>1 DEF w
  <1>5. \A p \in reactionsOut : p.n \in Nat /\ p.n <= taps
    BY SentIsTyped DEF ReactInv, ReactTypes
  <1>6. ReactTypes'
    <2>1. stored' \in Marks /\ tangled' \in BOOLEAN
      BY <1>1, <1>2, <1>3 DEF ReactInv, ReactTypes
    <2>2. reactionsOut' \subseteq Sent /\ \A p \in reactionsOut' : p.n <= taps /\ (tap.on => p.n < taps)
      BY <1>3, <1>4 DEF ReactInv, ReactTypes
    <2>3. \A p, r \in reactionsOut' : p.n = r.n => p = r
      BY <1>3, <1>4 DEF ReactInv, ReactTypes
    <2>4. ~unheard => \A p \in reactionsOut' : p.awaited
      BY <1>3, <1>4 DEF ReactInv, ReactTypes
    <2> QED BY <1>2, <2>1, <2>2, <2>3, <2>4 DEF ReactInv, ReactTypes
  <1>7. ASSUME Clean' PROVE Chained'
    <2>1. ~tangled /\ (\A p \in UnansweredClicks : p.n >= q.n)
      <3>1. ~tangled'
        BY <1>7 DEF Clean
      <3>2. ~tangled /\ \A p \in reactionsOut : ~(p.n < q.n /\ p.answer = "none")
        BY <1>2, <3>1
      <3>3. \A p \in UnansweredClicks : p \in reactionsOut /\ p.answer = "none"
        BY DEF UnansweredClicks
      <3> QED BY <1>3, <1>5, <3>2, <3>3
    <2>2. Clean /\ Chained
      <3>1. \A p \in reactionsOut : p.answer = "failed" => p.n = taps
        BY <1>2, <1>4, <1>7 DEF Clean
      <3> QED BY <1>2, <1>7, <2>1, <3>1 DEF Clean, ReactInv
    <2>3. /\ UnansweredClicks' = UnansweredClicks \ {q} /\ q \in UnansweredClicks /\ UnansweredClicks \subseteq reactionsOut
          /\ \A p \in UnansweredClicks' : p.n > q.n
      <3>1. UnansweredClicks' = UnansweredClicks \ {q} /\ q \in UnansweredClicks
        BY <1>1, <1>2, <1>3, <1>4 DEF UnansweredClicks
      <3>2. \A p \in UnansweredClicks' : p.n > q.n
        BY <1>3, <1>5, <2>1, <3>1 DEF UnansweredClicks, ReactInv, ReactTypes
      <3> QED BY <3>1, <3>2 DEF UnansweredClicks
    <2>4. q.back = stored
      BY <2>1, <2>2, <2>3 DEF Chained
    <2>5. Standing' = Standing
      BY <1>2 DEF Standing
    <2>6. w.n = q.n /\ w \notin UnansweredClicks'
      BY <1>1, <1>3 DEF UnansweredClicks
    <2>7. \A p \in reactionsOut' \ UnansweredClicks', r \in UnansweredClicks' : p.n < r.n
      <3> SUFFICES ASSUME NEW p \in reactionsOut' \ UnansweredClicks', NEW r \in UnansweredClicks' PROVE p.n < r.n
        OBVIOUS
      <3>1. CASE p = w
        BY <1>3, <1>5, <2>3, <3>1
      <3>2. CASE p # w
        <4>1. p \in reactionsOut \ UnansweredClicks
          BY <1>4, <2>3, <3>2
        <4> QED BY <2>2, <2>3, <4>1 DEF Chained
      <3> QED BY <3>1, <3>2
    <2>8. CASE answer = "failed"
      <3>1. q.n = taps
        BY <1>1, <1>2, <1>3, <1>4, <1>7, <2>8 DEF Clean
      <3>2. UnansweredClicks' = {}
        BY <1>3, <1>5, <2>3, <3>1
      <3>3. \A p \in reactionsOut' : p.answer = "failed" => p = w
        BY <1>2, <1>3, <1>4, <1>6, <1>7, <3>1 DEF Clean, ReactTypes
      <3>4. w \in reactionsOut' /\ w.answer = "failed" /\ w.back = stored'
        BY <1>1, <1>3, <1>4, <2>4, <2>8
      <3>5. tap'.on => mark' = tap'.to
        BY <1>2, <2>2 DEF Chained
      <3> HIDE DEF UnansweredClicks
      <3> QED BY <2>7, <3>2, <3>3, <3>4, <3>5 DEF Chained
    <2>9. CASE answer = "done"
      <3>1. stored' = q.to
        BY <1>1, <2>9
      <3>2. \A p, r \in UnansweredClicks' : p.n < r.n /\ (\A s \in UnansweredClicks' : s.n <= p.n \/ s.n >= r.n) => r.back = p.to
        <4> SUFFICES ASSUME NEW p \in UnansweredClicks', NEW r \in UnansweredClicks', p.n < r.n,
                            \A s \in UnansweredClicks' : s.n <= p.n \/ s.n >= r.n
                     PROVE  r.back = p.to
          OBVIOUS
        <4>1. \A s \in UnansweredClicks : s.n <= p.n \/ s.n >= r.n
          BY <1>3, <1>5, <2>3
        <4> QED BY <2>2, <2>3, <4>1 DEF Chained
      <3>3. \A r \in UnansweredClicks' : (\A s \in UnansweredClicks' : s.n >= r.n) => r.back = stored'
        <4> SUFFICES ASSUME NEW r \in UnansweredClicks', \A s \in UnansweredClicks' : s.n >= r.n PROVE r.back = q.to
          BY <3>1
        <4>1. q.n < r.n /\ \A s \in UnansweredClicks : s.n <= q.n \/ s.n >= r.n
          BY <1>3, <1>5, <2>3
        <4> QED BY <2>2, <2>3, <4>1 DEF Chained
      <3>4. \A r \in UnansweredClicks' : (\A s \in UnansweredClicks' : s.n <= r.n) => Standing' = r.to
        <4> SUFFICES ASSUME NEW r \in UnansweredClicks', \A s \in UnansweredClicks' : s.n <= r.n PROVE Standing = r.to
          BY <2>5
        <4>1. \A s \in UnansweredClicks : s.n <= r.n
          BY <1>3, <1>5, <2>3
        <4> QED BY <2>2, <2>3, <4>1 DEF Chained
      <3>5. ASSUME UnansweredClicks' = {} PROVE Standing' = stored' /\ \A p \in reactionsOut' : p.answer # "failed"
        <4>1. UnansweredClicks = {q}
          BY <2>3, <3>5
        <4>2. Standing = q.to
          BY <1>3, <2>2, <4>1 DEF Chained
        <4>3. \A p \in reactionsOut' : p.answer = "failed" => p # w /\ p \in reactionsOut \ UnansweredClicks /\ p.n = taps
          BY <1>2, <1>3, <1>4, <1>7, <2>3, <2>9, <3>5 DEF Clean, UnansweredClicks
        <4>4. \A p \in reactionsOut \ UnansweredClicks : p.n < q.n
          BY <2>2, <2>3 DEF Chained
        <4> QED BY <1>3, <1>5, <2>5, <3>1, <4>2, <4>3, <4>4
      <3>6. tap'.on => mark' = tap'.to
        BY <1>2, <2>2 DEF Chained
      <3> HIDE DEF UnansweredClicks
      <3> QED BY <2>7, <3>2, <3>3, <3>4, <3>5, <3>6 DEF Chained
    <2> QED BY <2>8, <2>9
  <1> QED BY <1>6, <1>7 DEF ReactInv

\* An answer heard: a refusal of the last run of taps puts back what the service holds, any other is
\* crossed by a later tap.
LEMMA AnsweredKeeps ==
  ASSUME ReactInv, NEW q \in reactionsOut, ReactionAnswered(q)
  PROVE  ReactInv'
  <1>1. /\ q.awaited /\ q.answer # "none" /\ reactionsOut' = reactionsOut \ {q}
        /\ UNCHANGED <<unheard, tap, taps, stored>>
        /\ IF q.answer = "failed" THEN mark' = q.back /\ tangled' = (tangled \/ taps # q.n) ELSE mark' = mark /\ tangled' = tangled
    BY DEF ReactionAnswered, PutBack
  <1>2. q \in Sent /\ q.n \in Nat /\ q.back \in Marks
    BY SentIsTyped DEF ReactInv, ReactTypes
  <1>3. \A p \in reactionsOut : p.n \in Nat /\ p.n <= taps
    BY SentIsTyped DEF ReactInv, ReactTypes
  <1>4. ReactTypes'
    <2>1. mark' \in Marks /\ tangled' \in BOOLEAN
      BY <1>1, <1>2 DEF ReactInv, ReactTypes
    <2> QED BY <1>1, <2>1 DEF ReactInv, ReactTypes
  <1>5. UnansweredClicks' = UnansweredClicks /\ UnansweredClicks \subseteq reactionsOut
    BY <1>1 DEF UnansweredClicks
  <1>6. ASSUME Clean' PROVE Chained'
    <2>1. CASE q.answer # "failed"
      <3>1. mark' = mark /\ tangled' = tangled /\ Standing' = Standing
        BY <1>1, <2>1 DEF Standing
      <3>2. \A p \in reactionsOut : p.answer = "failed" => p \in reactionsOut'
        BY <1>1, <2>1
      <3>3. Clean
        BY <1>1, <1>6, <3>1, <3>2 DEF Clean
      <3>4. Chained
        BY <3>3 DEF ReactInv
      <3> HIDE DEF UnansweredClicks
      <3>5. /\ tap'.on => mark' = tap'.to
            /\ \A p \in reactionsOut' \ UnansweredClicks', r \in UnansweredClicks' : p.n < r.n
            /\ \A p, r \in UnansweredClicks' : p.n < r.n /\ (\A s \in UnansweredClicks' : s.n <= p.n \/ s.n >= r.n) => r.back = p.to
            /\ \A r \in UnansweredClicks' : (\A s \in UnansweredClicks' : s.n >= r.n) => r.back = stored'
            /\ \A r \in UnansweredClicks' : (\A s \in UnansweredClicks' : s.n <= r.n) => Standing' = r.to
        BY <1>1, <1>5, <3>1, <3>4 DEF Chained
      <3>6. UnansweredClicks' = {} =>
              IF \E p \in reactionsOut' : p.answer = "failed" THEN \A p \in reactionsOut' : p.answer = "failed" => p.back = stored'
              ELSE Standing' = stored'
        BY <1>1, <1>5, <3>1, <3>2, <3>4 DEF Chained
      <3> QED BY <3>5, <3>6 DEF Chained
    <2>2. CASE q.answer = "failed"
      <3>1. ~tangled /\ taps = q.n /\ mark' = q.back
        BY <1>1, <1>6, <2>2 DEF Clean
      <3>2. Clean
        BY <1>1, <1>6, <3>1 DEF Clean
      <3>3. Chained
        BY <3>2 DEF ReactInv
      <3>4. ~tap.on
        BY <1>2, <3>1 DEF ReactInv, ReactTypes
      <3>5. UnansweredClicks = {}
        <4>1. q \in reactionsOut \ UnansweredClicks
          BY <1>1 DEF UnansweredClicks
        <4>2. \A p \in UnansweredClicks : q.n < p.n
          BY <3>3, <4>1 DEF Chained
        <4> QED BY <1>2, <1>3, <1>5, <3>1, <4>2
      <3>6. q.back = stored
        BY <2>2, <3>3, <3>5 DEF Chained
      <3>7. Standing' = stored'
        BY <1>1, <3>1, <3>4, <3>6 DEF Standing
      <3>8. \A p \in reactionsOut' : p.answer # "failed"
        BY <1>1, <1>6, <3>1 DEF Clean, ReactInv, ReactTypes
      <3>9. ~tap'.on /\ UnansweredClicks' = {}
        BY <1>1, <1>5, <3>4, <3>5
      <3> HIDE DEF UnansweredClicks
      <3> QED BY <3>7, <3>8, <3>9 DEF Chained
    <2> QED BY <2>1, <2>2
  <1> QED BY <1>4, <1>6 DEF ReactInv

\* Every step of the slot and of the service keeps the invariant.
LEMMA ReactStep == ReactInv /\ [ReactNext]_mvars => ReactInv'
  <1> SUFFICES ASSUME ReactInv, [ReactNext]_mvars PROVE ReactInv'
    OBVIOUS
  <1>1. ASSUME NEW q \in reactionsOut, ReactionGivenUp(q) PROVE ReactInv'
    <2>1. q \in Sent /\ q.back \in Marks /\ [q EXCEPT !.awaited = FALSE] \in Sent /\ [q EXCEPT !.awaited = FALSE].n = q.n
      BY SentIsTyped DEF ReactInv, ReactTypes
    <2> DEFINE w == [q EXCEPT !.awaited = FALSE]
    <2>2. /\ reactionsOut' \subseteq (reactionsOut \ {q}) \union {w} /\ mark' = q.back /\ unheard'
          /\ tangled' = (tangled \/ taps # q.n) /\ UNCHANGED <<tap, taps, stored>>
      BY <1>1 DEF ReactionGivenUp, PutBack
    <2> HIDE DEF w
    <2>3. w \in Sent /\ w.n = q.n
      BY <2>1 DEF w
    <2>4. tangled' \in BOOLEAN /\ unheard' \in BOOLEAN
      BY <1>1, <2>2 DEF ReactionGivenUp, ReactInv, ReactTypes
    <2>5. ReactTypes'
      BY <2>1, <2>2, <2>3, <2>4 DEF ReactInv, ReactTypes
    <2> QED BY <2>2, <2>5 DEF ReactInv, Clean
  <1>2. CASE UNCHANGED mvars
    BY <1>2 DEF mvars, ReactInv, ReactTypes, Clean, Chained, UnansweredClicks, Standing
  <1> QED BY <1>1, <1>2, ReactKeeps, SettleKeeps, ServedKeeps, AnsweredKeeps DEF ReactNext

\* However quick the taps: at rest the slot is drawn as the service holds it, but for a request given
\* up, overtaken, or failed under a later tap (ReactionBar.tsx, reactions.ts).
THEOREM TapsSettle == ReactSpec => []ReactionSettles
  <1>1. ReactInit => ReactInv
    <2> SUFFICES ASSUME ReactInit PROVE ReactInv
      OBVIOUS
    <2>1. tap = [on |-> FALSE, to |-> "none", confirmed |-> "none"] /\ reactionsOut = {} /\ mark = stored /\ stored \in Marks
      BY DEF ReactInit, NoTap, Values, Marks
    <2>2. tap \in [on : BOOLEAN, to : Marks, confirmed : Marks] /\ ~tap.on
      BY <2>1 DEF Marks
    <2>3. ReactTypes
      BY <2>1, <2>2 DEF ReactInit, ReactTypes
    <2>4. Chained
      BY <2>1, <2>2 DEF Chained, UnansweredClicks, Standing
    <2> QED BY <2>3, <2>4 DEF ReactInv
  <1>2. ReactInv => ReactionSettles
    <2> SUFFICES ASSUME ReactInv, ~tap.on, \A q \in reactionsOut : ~q.awaited, ~tangled, ~unheard
                 PROVE  mark = stored
      BY DEF ReactionSettles
    <2>1. reactionsOut = {}
      BY DEF ReactInv, ReactTypes
    <2> QED BY <2>1 DEF ReactInv, Clean, Chained, UnansweredClicks, Standing
  <1> QED BY <1>1, <1>2, ReactStep, PTL DEF ReactSpec

\* A vote and a reaction, each going its own way: both settle on what the service holds.
THEOREM BothSettle == PollSpec /\ ReactSpec => []ClicksSettle
  BY VotesSettle, TapsSettle, PTL DEF ClicksSettle

----------------------------------------------------------------------------
(* Ignored people (ReaderIgnores).                                          *)

ModesHeld == {"soft", "hard", "none"}
Rows == [state : {"unread", "failed", "absent", "ready"}, mode : ModesHeld, lifted : BOOLEAN, busy : BOOLEAN]
Changes == [n : Nat, person : Persons, to : ModesHeld, answer : {"none", "done", "refused", "401", "404"},
            awaited : BOOLEAN, here : BOOLEAN]

IgnoresTypes ==
    /\ rows \in [Persons -> Rows] /\ ignores \in [Persons -> ModesHeld]
    /\ changes \subseteq Changes
    /\ busyId \in Persons \union {Nobody}
    /\ shut \in BOOLEAN /\ asks \in Nat

\* What a row says
Said(p) == IF rows[p].lifted THEN "none" ELSE rows[p].mode
Sure(p) == p \notin unsure \union doubled
Drawn(c) == c.awaited /\ c.here

\* Only the branch is drawn anew with a change out, and only there can two of one person be out
AllHere == place # "branch" => doubled = {} /\ \A c \in changes : c.here

\* What waits for an answer and what takes no clicks are one
Waits ==
    ~shut =>
    /\ \A c \in changes : Drawn(c) => rows[c.person].state = "ready"
    /\ place # "branch" => /\ \A c \in changes : c.awaited => rows[c.person].busy
                           /\ \A p \in Persons : rows[p].busy => \E c \in changes : c.awaited /\ c.person = p
    /\ place = "branch" /\ busyId # Nobody => \E c \in changes : Drawn(c) /\ c.person = busyId
    /\ \A c, d \in changes : c.awaited /\ d.awaited /\ c.person = d.person /\ c.person \notin doubled => c = d

\* A row is right but for the change that is out
Told ==
    ~shut =>
    /\ \A c \in changes : Drawn(c) /\ Sure(c.person) =>
          /\ c.answer \in {"none", "refused", "401"} => ignores[c.person] = Said(c.person)
          /\ c.answer = "done" => ignores[c.person] = c.to
    /\ \A p \in Persons : Ready(p) /\ Sure(p) /\ (\A c \in changes : Drawn(c) => c.person # p) => ignores[p] = Said(p)

IgnoresInv == IgnoresTypes /\ AllHere /\ Waits /\ Told

\* A row of which nothing is known, and what an answer makes of it.
LEMMA RowsMade ==
  /\ NoRow \in Rows /\ NoRow.state = "unread" /\ ~NoRow.busy /\ ~NoRow.lifted
  /\ \A state \in {"absent", "failed"} :
        LET r == [NoRow EXCEPT !.state = state] IN r \in Rows /\ ~r.busy /\ ~r.lifted /\ r.state = state
  /\ \A state \in {"absent", "ready"}, mode \in ModesHeld :
        LET r == [NoRow EXCEPT !.state = state, !.mode = mode]
        IN r \in Rows /\ ~r.busy /\ ~r.lifted /\ r.state = state /\ r.mode = mode
  <1>1. NoRow \in Rows /\ NoRow.state = "unread" /\ ~NoRow.busy /\ ~NoRow.lifted
    BY DEF NoRow, Rows, ModesHeld
  <1>2. ASSUME NEW state \in {"absent", "failed"}
        PROVE  LET r == [NoRow EXCEPT !.state = state] IN r \in Rows /\ ~r.busy /\ ~r.lifted /\ r.state = state
    BY <1>1 DEF Rows
  <1>3. ASSUME NEW state \in {"absent", "ready"}, NEW mode \in ModesHeld
        PROVE  LET r == [NoRow EXCEPT !.state = state, !.mode = mode]
               IN r \in Rows /\ ~r.busy /\ ~r.lifted /\ r.state = state /\ r.mode = mode
    BY <1>1 DEF Rows
  <1> QED BY <1>1, <1>2, <1>3

\* A row that is set anew, and the rest as they were.
LEMMA RowSet ==
  ASSUME IgnoresTypes, NEW p \in Persons, NEW r \in Rows, rows' = [rows EXCEPT ![p] = r]
  PROVE  rows' \in [Persons -> Rows] /\ rows'[p] = r /\ \A q \in Persons : q # p => rows'[q] = rows[q]
  BY DEF IgnoresTypes

\* The fields of rows and changes.
LEMMA FieldsAreTyped ==
  ASSUME IgnoresTypes
  PROVE  /\ \A p \in Persons : /\ rows[p] \in Rows /\ rows[p].mode \in ModesHeld
                               /\ rows[p].lifted \in BOOLEAN /\ rows[p].busy \in BOOLEAN
                               /\ ignores[p] \in ModesHeld
         /\ \A c \in changes : /\ c \in Changes /\ c.person \in Persons /\ c.to \in ModesHeld /\ c.awaited \in BOOLEAN /\ c.here \in BOOLEAN
                               /\ c.answer \in {"none", "done", "refused", "401", "404"}
  <1>1. \A p \in Persons : rows[p] \in Rows /\ ignores[p] \in ModesHeld
    BY DEF IgnoresTypes
  <1>2. \A c \in changes : c \in Changes
    BY DEF IgnoresTypes
  <1> QED BY <1>1, <1>2 DEF Rows, Changes

\* A row that turns busy, or takes clicks again, says what it said.
LEMMA BusyRow ==
  ASSUME IgnoresTypes, NEW p \in Persons, NEW b \in BOOLEAN, rows' = [rows EXCEPT ![p].busy = b]
  PROVE  /\ rows' \in [Persons -> Rows] /\ rows'[p].busy = b
         /\ \A q \in Persons : rows'[q].state = rows[q].state /\ Said(q)' = Said(q)
         /\ \A q \in Persons : q # p => rows'[q] = rows[q]
  <1> DEFINE r == [rows[p] EXCEPT !.busy = b]
  <1>1. r \in Rows /\ r.busy = b /\ r.state = rows[p].state /\ r.mode = rows[p].mode /\ r.lifted = rows[p].lifted
    BY FieldsAreTyped DEF Rows
  <1>2. rows' = [rows EXCEPT ![p] = r]
    OBVIOUS
  <1> HIDE DEF r
  <1>3. rows' \in [Persons -> Rows] /\ rows'[p] = r /\ \A q \in Persons : q # p => rows'[q] = rows[q]
    BY <1>1, <1>2, RowSet
  <1> QED BY <1>1, <1>3 DEF Said

\* A page that comes says what the service holds; nothing was out for a row that was not drawn.
LEMMA ReadKeeps ==
  ASSUME IgnoresInv, NEW p \in Persons, ReadRow(p)
  PROVE  IgnoresInv'
  <1>1. /\ ~shut /\ rows[p].state \in {"unread", "failed"} /\ unsure' = unsure \ {p}
        /\ UNCHANGED <<place, editing, busyId, shut, changes, ignores, asks, doubled>>
    BY DEF ReadRow
  <1>2. PICK r \in Rows : /\ rows' = [rows EXCEPT ![p] = r] /\ ~r.busy /\ ~r.lifted
                          /\ r.state = "ready" => r.mode = ignores[p]
    <2>1. PICK failed \in BOOLEAN :
        rows' = [rows EXCEPT ![p] =
            IF failed THEN [NoRow EXCEPT !.state = "failed"]
            ELSE [NoRow EXCEPT !.state = IF ignores[p] = "none" /\ place # "profile" THEN "absent" ELSE "ready",
                               !.mode = ignores[p]]]
      BY DEF ReadRow
    <2>3. ignores[p] \in ModesHeld
      BY FieldsAreTyped DEF IgnoresInv
    <2>7. CASE failed
      BY <2>1, <2>7, RowsMade
    <2>8. CASE ~failed
      <3> DEFINE state == IF ignores[p] = "none" /\ place # "profile" THEN "absent" ELSE "ready"
      <3>1. state \in {"absent", "ready"}
        OBVIOUS
      <3>2. rows' = [rows EXCEPT ![p] = [NoRow EXCEPT !.state = state, !.mode = ignores[p]]]
        BY <2>1, <2>8
      <3> HIDE DEF state
      <3> QED BY <2>3, <3>1, <3>2, RowsMade
    <2> QED BY <2>7, <2>8
  <1>3. rows' \in [Persons -> Rows] /\ rows'[p] = r /\ \A q \in Persons : q # p => rows'[q] = rows[q]
    BY <1>2, RowSet DEF IgnoresInv
  <1>4. \A c \in changes : c.person \in Persons
    BY FieldsAreTyped DEF IgnoresInv
  <1>5. \A c \in changes : Drawn(c) => c.person # p
    BY <1>1 DEF IgnoresInv, Waits
  <1>6. place # "branch" => \A c \in changes : c.awaited => Drawn(c)
    BY DEF IgnoresInv, AllHere, Drawn
  <1>7. IgnoresTypes' /\ AllHere'
    BY <1>1, <1>3 DEF IgnoresInv, IgnoresTypes, AllHere
  <1>8. Waits'
    <2>1. \A c \in changes : Drawn(c) => rows'[c.person].state = "ready"
      BY <1>1, <1>3, <1>4, <1>5 DEF IgnoresInv, Waits
    <2>2. place # "branch" => /\ \A c \in changes : c.awaited => rows'[c.person].busy
                              /\ \A q \in Persons : rows'[q].busy => \E c \in changes : c.awaited /\ c.person = q
      BY <1>1, <1>2, <1>3, <1>4, <1>5, <1>6 DEF IgnoresInv, Waits
    <2> QED BY <1>1, <2>1, <2>2 DEF IgnoresInv, Waits, Drawn
  <1>9. Told'
    <2>1. \A q \in Persons : q # p => (Said(q)' = Said(q) /\ (Ready(q)' => Ready(q)) /\ (Sure(q)' => Sure(q)))
      BY <1>1, <1>3 DEF Said, Ready, Sure
    <2>2. Ready(p)' => ignores[p] = Said(p)'
      BY <1>2, <1>3 DEF Ready, Said
    <2> QED BY <1>1, <1>4, <1>5, <2>1, <2>2 DEF IgnoresInv, Told, Drawn
  <1> QED BY <1>7, <1>8, <1>9 DEF IgnoresInv

\* A change goes out from a row that takes clicks: outside the branch none was out for it.
LEMMA SendKeeps ==
  ASSUME IgnoresInv, NEW p \in Persons, NEW to \in ModesHeld, Ready(p), ~Busy(p), Send(p, to)
  PROVE  IgnoresInv'
  <1> DEFINE new == [n |-> asks', person |-> p, to |-> to, answer |-> "none", awaited |-> TRUE, here |-> TRUE]
  <1>1. /\ asks' = asks + 1 /\ changes' = changes \union {new}
        /\ rows' = [rows EXCEPT ![p].busy = TRUE]
        /\ busyId' = IF place = "branch" THEN p ELSE busyId
        /\ doubled' = IF UnderWay(p) = {} THEN doubled ELSE doubled \union {p}
        /\ UNCHANGED <<place, shut, ignores, unsure>>
    BY DEF Send
  <1>2. /\ new \in Changes /\ new.person = p /\ new.to = to /\ new.answer = "none" /\ Drawn(new) /\ new.awaited /\ new.here
    BY <1>1 DEF Changes, Drawn, IgnoresInv, IgnoresTypes
  <1> HIDE DEF new
  <1>3. /\ rows' \in [Persons -> Rows] /\ rows'[p].busy
        /\ \A q \in Persons : rows'[q].state = rows[q].state /\ Said(q)' = Said(q)
        /\ \A q \in Persons : q # p => rows'[q] = rows[q]
    BY <1>1, BusyRow DEF IgnoresInv
  <1>4. \A c \in changes : c.person \in Persons
    BY FieldsAreTyped DEF IgnoresInv
  <1>5. ~shut /\ rows[p].state = "ready"
    BY DEF Ready
  <1>6. place # "branch" => UnderWay(p) = {}
    BY <1>5 DEF Busy, UnderWay, IgnoresInv, Waits
  <1>7. \A c \in changes : c.awaited /\ c.person = p => UnderWay(p) # {}
    BY DEF UnderWay
  <1>8. IgnoresTypes' /\ AllHere'
    <2>1. asks' \in Nat /\ changes' \subseteq Changes /\ busyId' \in Persons \union {Nobody}
      BY <1>1, <1>2 DEF IgnoresInv, IgnoresTypes
    <2>2. AllHere'
      BY <1>1, <1>2, <1>6 DEF IgnoresInv, AllHere
    <2> QED BY <1>1, <1>3, <2>1, <2>2 DEF IgnoresInv, IgnoresTypes
  <1>9. Waits'
    <2>1. \A c \in changes' : Drawn(c) => rows'[c.person].state = "ready"
      BY <1>1, <1>2, <1>3, <1>4, <1>5 DEF IgnoresInv, Waits
    <2>2. place # "branch" => /\ \A c \in changes' : c.awaited => rows'[c.person].busy
                              /\ \A q \in Persons : rows'[q].busy => \E c \in changes' : c.awaited /\ c.person = q
      BY <1>1, <1>2, <1>3, <1>4, <1>5 DEF IgnoresInv, Waits
    <2>3. place = "branch" /\ busyId' # Nobody => \E c \in changes' : Drawn(c) /\ c.person = busyId'
      BY <1>1, <1>2
    <2>4. \A c, d \in changes' : c.awaited /\ d.awaited /\ c.person = d.person /\ c.person \notin doubled' => c = d
      <3>1. \A c, d \in changes : c.awaited /\ d.awaited /\ c.person = d.person /\ c.person \notin doubled' => c = d
        BY <1>1, <1>5 DEF IgnoresInv, Waits
      <3>2. \A c \in changes : c.awaited /\ c.person = p => p \in doubled'
        BY <1>1, <1>7
      <3> QED BY <1>1, <1>2, <3>1, <3>2
    <2> QED BY <1>1, <2>1, <2>2, <2>3, <2>4 DEF Waits, Drawn
  <1>10. Told'
    <2>1. \A q \in Persons : (Ready(q)' => Ready(q)) /\ (Sure(q)' => Sure(q))
      BY <1>1, <1>3 DEF Ready, Sure
    <2>2. Sure(p)' => ignores[p] = Said(p)
      <3> SUFFICES ASSUME Sure(p)' PROVE ignores[p] = Said(p)
        OBVIOUS
      <3>1. UnderWay(p) = {}
        BY <1>1 DEF Sure
      <3>2. \A c \in changes : Drawn(c) => c.person # p
        BY <3>1 DEF UnderWay, Drawn
      <3> QED BY <1>5, <2>1, <3>2 DEF IgnoresInv, Told
    <2>3. \A c \in changes' : Drawn(c) /\ Sure(c.person)' =>
          /\ c.answer \in {"none", "refused", "401"} => ignores[c.person] = Said(c.person)'
          /\ c.answer = "done" => ignores[c.person] = c.to
      BY <1>1, <1>2, <1>3, <1>4, <1>5, <2>1, <2>2 DEF IgnoresInv, Told
    <2>4. \A q \in Persons : Ready(q)' /\ Sure(q)' /\ (\A c \in changes' : Drawn(c) => c.person # q) => ignores[q] = Said(q)'
      BY <1>1, <1>2, <1>3, <1>5, <2>1 DEF IgnoresInv, Told
    <2> QED BY <1>1, <2>3, <2>4 DEF Told, Drawn
  <1> QED BY <1>8, <1>9, <1>10 DEF IgnoresInv

\* The service takes a change: one that is drawn tells what becomes of the row, another makes it unsure.
LEMMA ChangeServedKeeps ==
  ASSUME IgnoresInv, NEW c \in changes, ChangeServed(c)
  PROVE  IgnoresInv'
  <1>1. PICK answer \in {"done", "refused", "401", "404"} :
        /\ changes' = (changes \ {c}) \union {[c EXCEPT !.answer = answer]}
        /\ ignores' = IF answer = "done" THEN [ignores EXCEPT ![c.person] = c.to]
                      ELSE IF answer = "404" THEN [ignores EXCEPT ![c.person] = "none"]
                      ELSE ignores
        /\ unsure' = IF answer \in {"done", "404"} /\ ~(c.awaited /\ c.here) THEN unsure \union {c.person} ELSE unsure
    BY DEF ChangeServed
  <1>2. /\ c.answer = "none" /\ ~shut
        /\ UNCHANGED <<place, rows, editing, busyId, shut, asks, doubled>>
    BY DEF ChangeServed
  <1> DEFINE w == [c EXCEPT !.answer = answer]
  <1>3. c \in Changes
    BY DEF IgnoresInv, IgnoresTypes
  <1>4. /\ w \in Changes /\ w.answer = answer /\ w.person = c.person /\ w.to = c.to /\ w.awaited = c.awaited /\ w.here = c.here
        /\ c.person \in Persons /\ c.to \in ModesHeld
    <2>1. w = [c EXCEPT !.answer = answer]
      OBVIOUS
    <2> HIDE DEF w
    <2> QED BY <1>3, <2>1 DEF Changes
  <1>5. changes' = (changes \ {c}) \union {w}
    BY <1>1
  <1> HIDE DEF w
  <1>6. \A d \in changes : d.person \in Persons
    BY FieldsAreTyped DEF IgnoresInv
  <1>7. /\ ignores' \in [Persons -> ModesHeld]
        /\ \A q \in Persons : q # c.person => ignores'[q] = ignores[q]
        /\ answer = "done" => ignores'[c.person] = c.to
        /\ answer \in {"refused", "401"} => ignores' = ignores
    <2>1. CASE answer = "done"
      BY <1>1, <1>4, <2>1 DEF IgnoresInv, IgnoresTypes
    <2>2. CASE answer = "404"
      BY <1>1, <1>4, <2>2 DEF IgnoresInv, IgnoresTypes, ModesHeld
    <2>3. CASE answer \in {"refused", "401"}
      BY <1>1, <2>3 DEF IgnoresInv, IgnoresTypes
    <2> QED BY <2>1, <2>2, <2>3
  <1>8. IgnoresTypes' /\ AllHere'
    <2>1. changes' \subseteq Changes
      BY <1>4, <1>5 DEF IgnoresInv, IgnoresTypes
    <2>2. AllHere'
      BY <1>2, <1>4, <1>5 DEF IgnoresInv, AllHere
    <2> QED BY <1>2, <1>7, <2>1, <2>2 DEF IgnoresInv, IgnoresTypes
  <1>9. Drawn(w) = Drawn(c)
    BY <1>4 DEF Drawn
  <1>10. Waits'
    <2>1. \A d \in changes' : Drawn(d) => rows[d.person].state = "ready"
      BY <1>2, <1>4, <1>5, <1>9 DEF IgnoresInv, Waits
    <2>2. place # "branch" => /\ \A d \in changes' : d.awaited => rows[d.person].busy
                              /\ \A q \in Persons : rows[q].busy => \E d \in changes' : d.awaited /\ d.person = q
      BY <1>2, <1>4, <1>5 DEF IgnoresInv, Waits
    <2>3. place = "branch" /\ busyId # Nobody => \E d \in changes' : Drawn(d) /\ d.person = busyId
      BY <1>2, <1>4, <1>5, <1>9 DEF IgnoresInv, Waits
    <2>4. \A d, e \in changes' : d.awaited /\ e.awaited /\ d.person = e.person /\ d.person \notin doubled => d = e
      BY <1>2, <1>4, <1>5 DEF IgnoresInv, Waits
    <2> QED BY <1>2, <2>1, <2>2, <2>3, <2>4 DEF Waits, Drawn
  <1>11. Told'
    <2>1. \A q \in Persons : Said(q)' = Said(q) /\ Ready(q)' = Ready(q) /\ (Sure(q)' => Sure(q))
      BY <1>1, <1>2 DEF Said, Ready, Sure
    <2>2. Sure(c.person)' /\ ~Drawn(c) => ignores' = ignores
      BY <1>1 DEF Sure, Drawn
    <2>3. \A d \in changes' : Drawn(d) /\ Sure(d.person)' =>
          /\ d.answer \in {"none", "refused", "401"} => ignores'[d.person] = Said(d.person)
          /\ d.answer = "done" => ignores'[d.person] = d.to
      <3> SUFFICES ASSUME NEW d \in changes', Drawn(d), Sure(d.person)'
                   PROVE  /\ d.answer \in {"none", "refused", "401"} => ignores'[d.person] = Said(d.person)
                          /\ d.answer = "done" => ignores'[d.person] = d.to
        OBVIOUS
      <3>1. CASE d = w
        <4>1. Drawn(c) /\ Sure(c.person)
          BY <1>4, <1>9, <2>1, <3>1
        <4>2. ignores[c.person] = Said(c.person)
          BY <1>2, <4>1 DEF IgnoresInv, Told
        <4> QED BY <1>4, <1>7, <3>1, <4>2
      <3>2. CASE d \in changes \ {c}
        <4>1. /\ d.answer \in {"none", "refused", "401"} => ignores[d.person] = Said(d.person)
              /\ d.answer = "done" => ignores[d.person] = d.to
          BY <1>2, <1>6, <2>1, <3>2 DEF IgnoresInv, Told
        <4>2. CASE d.person # c.person
          BY <1>6, <1>7, <3>2, <4>1, <4>2
        <4>3. CASE d.person = c.person
          <5>1. d.person \notin doubled
            BY <1>2 DEF Sure
          <5>2. ~Drawn(c)
            BY <1>2, <3>2, <4>3, <5>1 DEF IgnoresInv, Waits, Drawn
          <5> QED BY <2>2, <4>1, <4>3, <5>2
        <4> QED BY <4>2, <4>3
      <3> QED BY <1>5, <3>1, <3>2
    <2>4. \A q \in Persons : Ready(q) /\ Sure(q)' /\ (\A d \in changes' : Drawn(d) => d.person # q) => ignores'[q] = Said(q)
      <3> SUFFICES ASSUME NEW q \in Persons, Ready(q), Sure(q)', \A d \in changes' : Drawn(d) => d.person # q
                   PROVE  ignores'[q] = Said(q)
        OBVIOUS
      <3>1. \A d \in changes : Drawn(d) => d.person # q
        BY <1>4, <1>5, <1>9
      <3>2. ignores[q] = Said(q)
        BY <1>2, <2>1, <3>1 DEF IgnoresInv, Told
      <3>3. q = c.person => ~Drawn(c)
        BY <3>1
      <3> QED BY <1>7, <2>2, <3>2, <3>3
    <2>5. \A d \in changes' : d.person \in Persons
      BY <1>4, <1>5, <1>6
    <2> QED BY <1>2, <2>1, <2>3, <2>4, <2>5 DEF Told, Drawn
  <1> QED BY <1>8, <1>10, <1>11 DEF IgnoresInv

\* The branch drawn anew knows no change that is out.
LEMMA AskAgainKeeps ==
  ASSUME IgnoresInv, NEW c \in changes, AskAgain(c), UNCHANGED <<place, shut, ignores, asks, doubled>>
  PROVE  IgnoresInv'
  <1>1. /\ place = "branch" /\ rows' = [p \in Persons |-> NoRow] /\ busyId' = Nobody
        /\ changes' = {[d EXCEPT !.here = FALSE] : d \in changes \ {c}}
    BY DEF AskAgain, Unread
  <1>2. NoRow \in Rows /\ NoRow.state # "ready"
    BY DEF NoRow, Rows, ModesHeld
  <1>3. ASSUME NEW d \in changes
        PROVE  LET e == [d EXCEPT !.here = FALSE]
               IN e \in Changes /\ ~e.here /\ e.awaited = d.awaited /\ e.person = d.person
    <2>1. d \in Changes
      BY DEF IgnoresInv, IgnoresTypes
    <2> QED BY <2>1 DEF Changes
  <1>4. \A e \in changes' : e \in Changes /\ ~e.here
    BY <1>1, <1>3
  <1>5. \A p \in Persons : ~Ready(p)'
    BY <1>1, <1>2 DEF Ready
  <1>6. IgnoresTypes' /\ AllHere'
    BY <1>1, <1>2, <1>4 DEF IgnoresInv, IgnoresTypes, AllHere
  <1>7. ~shut => \A e, f \in changes' : e.awaited /\ f.awaited /\ e.person = f.person /\ e.person \notin doubled => e = f
    <2> SUFFICES ASSUME ~shut, NEW e \in changes', NEW f \in changes', e.awaited, f.awaited, e.person = f.person, e.person \notin doubled
                 PROVE  e = f
      OBVIOUS
    <2>1. PICK d \in changes : e = [d EXCEPT !.here = FALSE]
      BY <1>1
    <2>2. PICK g \in changes : f = [g EXCEPT !.here = FALSE]
      BY <1>1
    <2>3. d.awaited /\ g.awaited /\ d.person = g.person /\ d.person \notin doubled
      BY <1>3, <2>1, <2>2
    <2>4. d = g
      BY <2>3 DEF IgnoresInv, Waits
    <2> QED BY <2>1, <2>2, <2>4
  <1>8. Waits'
    BY <1>1, <1>4, <1>7 DEF Waits, Drawn
  <1>9. Told'
    BY <1>4, <1>5 DEF Told, Drawn
  <1> QED BY <1>6, <1>8, <1>9 DEF IgnoresInv

\* A change refused or given up: its row takes clicks again, and says what it said or is unsure.
LEMMA SaysKeeps ==
  ASSUME IgnoresInv, NEW c \in changes, c.awaited, ~shut, Says(c), UNCHANGED <<place, shut, ignores, asks, doubled>>,
         changes \ {c} \subseteq changes', changes' \subseteq (changes \ {c}) \union {[c EXCEPT !.awaited = FALSE]},
         unsure \subseteq unsure', c.answer = "refused" \/ c.person \in unsure'
  PROVE  IgnoresInv'
  <1>1. c \in Changes /\ c.person \in Persons
    BY FieldsAreTyped DEF IgnoresInv
  <1> DEFINE w == [c EXCEPT !.awaited = FALSE]
  <1>2. w \in Changes /\ ~w.awaited /\ w.here = c.here
    BY <1>1 DEF Changes
  <1> HIDE DEF w
  <1>3. \A d \in changes' : d = w \/ d \in changes \ {c}
    BY DEF w
  <1>4. \A d \in changes' : d.awaited => d \in changes \ {c}
    BY <1>2, <1>3
  <1>5. /\ rows' \in [Persons -> Rows]
        /\ \A q \in Persons : rows'[q].state = rows[q].state /\ Said(q)' = Said(q)
        /\ \A q \in Persons : q # c.person => rows'[q] = rows[q]
        /\ IF c.here THEN ~rows'[c.person].busy /\ busyId' = Nobody ELSE rows' = rows /\ busyId' = busyId
    <2>1. CASE c.here
      <3>1. rows' = [rows EXCEPT ![c.person].busy = FALSE] /\ busyId' = Nobody
        BY <2>1 DEF Says
      <3> QED BY <1>1, <2>1, <3>1, BusyRow DEF IgnoresInv
    <2>2. CASE ~c.here
      <3>1. rows' = rows /\ busyId' = busyId
        BY <2>2 DEF Says
      <3> QED BY <2>2, <3>1 DEF IgnoresInv, IgnoresTypes, Said
    <2> QED BY <2>1, <2>2
  <1>6. \A d \in changes : d.person \in Persons
    BY FieldsAreTyped DEF IgnoresInv
  <1>7. IgnoresTypes' /\ AllHere'
    <2>1. changes' \subseteq Changes
      BY <1>2, <1>3 DEF IgnoresInv, IgnoresTypes
    <2>2. busyId' \in Persons \union {Nobody}
      BY <1>5 DEF IgnoresInv, IgnoresTypes
    <2>3. AllHere'
      BY <1>2, <1>3 DEF IgnoresInv, AllHere
    <2> QED BY <1>5, <2>1, <2>2, <2>3 DEF IgnoresInv, IgnoresTypes
  <1>8. Waits'
    <2>1. \A d \in changes' : Drawn(d) => rows'[d.person].state = "ready"
      BY <1>4, <1>5, <1>6 DEF IgnoresInv, Waits, Drawn
    <2>2. ASSUME place # "branch"
          PROVE /\ \A d \in changes' : d.awaited => rows'[d.person].busy
                /\ \A q \in Persons : rows'[q].busy => \E d \in changes' : d.awaited /\ d.person = q
      <3>1. c.here /\ doubled = {}
        BY <2>2 DEF IgnoresInv, AllHere
      <3>2. \A d \in changes \ {c} : d.awaited => d.person # c.person
        BY <3>1 DEF IgnoresInv, Waits
      <3>3. \A d \in changes' : d.awaited => rows'[d.person].busy
        BY <1>4, <1>5, <1>6, <2>2, <3>2 DEF IgnoresInv, Waits
      <3>4. \A q \in Persons : rows'[q].busy => \E d \in changes' : d.awaited /\ d.person = q
        BY <1>5, <2>2, <3>1 DEF IgnoresInv, Waits
      <3> QED BY <3>3, <3>4
    <2>3. place = "branch" /\ busyId' # Nobody => \E d \in changes' : Drawn(d) /\ d.person = busyId'
      BY <1>5 DEF IgnoresInv, Waits, Drawn
    <2>4. \A d, e \in changes' : d.awaited /\ e.awaited /\ d.person = e.person /\ d.person \notin doubled => d = e
      BY <1>4 DEF IgnoresInv, Waits
    <2> QED BY <2>1, <2>2, <2>3, <2>4 DEF Waits, Drawn
  <1>9. Told'
    <2>1. \A q \in Persons : (Ready(q)' => Ready(q)) /\ (Sure(q)' => Sure(q))
      BY <1>5 DEF Ready, Sure
    <2>2. \A d \in changes' : Drawn(d) /\ Sure(d.person)' =>
          /\ d.answer \in {"none", "refused", "401"} => ignores[d.person] = Said(d.person)'
          /\ d.answer = "done" => ignores[d.person] = d.to
      BY <1>4, <1>5, <1>6, <2>1 DEF IgnoresInv, Told, Drawn
    <2>3. \A q \in Persons : Ready(q)' /\ Sure(q)' /\ (\A d \in changes' : Drawn(d) => d.person # q) => ignores[q] = Said(q)'
      <3> SUFFICES ASSUME NEW q \in Persons, Ready(q), Sure(q), Sure(q)', \A d \in changes' : Drawn(d) => d.person # q
                   PROVE  ignores[q] = Said(q)
        BY <1>5, <2>1
      <3>1. CASE q = c.person /\ Drawn(c)
        <4>1. c.answer = "refused"
          BY <3>1 DEF Sure
        <4> QED BY <3>1, <4>1 DEF IgnoresInv, Told
      <3>2. CASE ~(q = c.person /\ Drawn(c))
        <4>1. \A d \in changes : Drawn(d) => d.person # q
          BY <3>2
        <4> QED BY <4>1 DEF IgnoresInv, Told
      <3> QED BY <3>1, <3>2
    <2> QED BY <2>2, <2>3 DEF Told, Drawn
  <1> QED BY <1>7, <1>8, <1>9 DEF IgnoresInv

\* A row whose change is answered outside the branch is set to what the service holds, or goes.
LEMMA RowAnswered ==
  ASSUME IgnoresInv, NEW c \in changes, c.awaited, ~shut, place # "branch", changes' = changes \ {c},
         NEW r \in Rows, rows' = [rows EXCEPT ![c.person] = r], ~r.busy,
         (c.answer = "done" /\ c.to = (IF r.lifted THEN "none" ELSE r.mode)) \/ r.state # "ready",
         UNCHANGED <<place, shut, ignores, asks, doubled, busyId, unsure>>
  PROVE  IgnoresInv'
  <1>1. c \in Changes /\ c.person \in Persons
    BY FieldsAreTyped DEF IgnoresInv
  <1>2. rows' \in [Persons -> Rows] /\ rows'[c.person] = r /\ \A q \in Persons : q # c.person => rows'[q] = rows[q]
    BY <1>1, RowSet DEF IgnoresInv
  <1>3. Drawn(c) /\ doubled = {} /\ \A d \in changes : d.here
    BY DEF IgnoresInv, AllHere, Drawn
  <1>4. \A d \in changes \ {c} : d.awaited => d.person # c.person
    BY <1>3 DEF IgnoresInv, Waits
  <1>5. \A d \in changes : d.person \in Persons
    BY FieldsAreTyped DEF IgnoresInv
  <1>6. IgnoresTypes' /\ AllHere'
    BY <1>2 DEF IgnoresInv, IgnoresTypes, AllHere
  <1>7. Waits'
    <2>1. \A d \in changes' : Drawn(d) => rows'[d.person].state = "ready"
      BY <1>2, <1>4, <1>5 DEF IgnoresInv, Waits, Drawn
    <2>2. \A d \in changes' : d.awaited => rows'[d.person].busy
      BY <1>2, <1>4, <1>5 DEF IgnoresInv, Waits
    <2>3. \A q \in Persons : rows'[q].busy => \E d \in changes' : d.awaited /\ d.person = q
      BY <1>2 DEF IgnoresInv, Waits
    <2>4. \A d, e \in changes' : d.awaited /\ e.awaited /\ d.person = e.person /\ d.person \notin doubled => d = e
      BY DEF IgnoresInv, Waits
    <2> QED BY <2>1, <2>2, <2>3, <2>4 DEF Waits, Drawn
  <1>8. Told'
    <2>1. \A q \in Persons : q # c.person => (Said(q)' = Said(q) /\ (Ready(q)' => Ready(q)))
      BY <1>2 DEF Said, Ready
    <2>2. \A q \in Persons : Sure(q)' = Sure(q)
      BY DEF Sure
    <2>3. Ready(c.person)' /\ Sure(c.person) => ignores[c.person] = Said(c.person)'
      BY <1>2, <1>3 DEF Ready, Said, IgnoresInv, Told
    <2>4. \A d \in changes' : Drawn(d) /\ Sure(d.person)' =>
          /\ d.answer \in {"none", "refused", "401"} => ignores[d.person] = Said(d.person)'
          /\ d.answer = "done" => ignores[d.person] = d.to
      BY <1>4, <1>5, <2>1, <2>2 DEF IgnoresInv, Told, Drawn
    <2>5. \A q \in Persons : Ready(q)' /\ Sure(q)' /\ (\A d \in changes' : Drawn(d) => d.person # q) => ignores[q] = Said(q)'
      BY <2>1, <2>2, <2>3 DEF IgnoresInv, Told
    <2> QED BY <2>4, <2>5 DEF Told, Drawn
  <1> QED BY <1>6, <1>7, <1>8 DEF IgnoresInv

\* What becomes of a change that is answered.
LEMMA HeardKeeps ==
  ASSUME IgnoresInv, NEW c \in changes, ChangeHeard(c)
  PROVE  IgnoresInv'
  <1>1. c \in Changes /\ c.person \in Persons /\ rows[c.person] \in Rows /\ c.to \in ModesHeld
    BY FieldsAreTyped DEF IgnoresInv
  <1>2. CASE Taken(c)
    <2>1. c.awaited /\ ~shut /\ c.answer = "done" /\ UNCHANGED <<place, shut, ignores, asks, doubled>>
      BY <1>2 DEF Taken, Heard
    <2>2. CASE AskAgain(c)
      BY <2>1, <2>2, AskAgainKeeps
    <2>3. CASE ~AskAgain(c)
      <3>1. /\ place # "branch" /\ changes' = changes \ {c} /\ UNCHANGED <<busyId, unsure>>
            /\ rows' = [rows EXCEPT ![c.person] =
                  IF c.to = "none" /\ place = "list" THEN [@ EXCEPT !.lifted = TRUE, !.busy = FALSE]
                  ELSE [NoRow EXCEPT !.state = "ready", !.mode = c.to]]
        BY <1>2, <2>3 DEF Taken
      <3>2. CASE c.to = "none" /\ place = "list"
        <4> DEFINE r == [rows[c.person] EXCEPT !.lifted = TRUE, !.busy = FALSE]
        <4>1. r \in Rows /\ ~r.busy /\ r.lifted
          BY <1>1 DEF Rows
        <4>2. rows' = [rows EXCEPT ![c.person] = r]
          BY <3>1, <3>2
        <4> HIDE DEF r
        <4> QED BY <2>1, <3>1, <3>2, <4>1, <4>2, RowAnswered
      <3>3. CASE ~(c.to = "none" /\ place = "list")
        <4> DEFINE r == [NoRow EXCEPT !.state = "ready", !.mode = c.to]
        <4>3. r \in Rows /\ ~r.busy /\ ~r.lifted /\ r.mode = c.to
          BY <1>1, RowsMade
        <4>2. rows' = [rows EXCEPT ![c.person] = r]
          BY <3>1, <3>3
        <4> HIDE DEF r
        <4> QED BY <2>1, <3>1, <4>2, <4>3, RowAnswered
      <3> QED BY <3>2, <3>3
    <2> QED BY <2>2, <2>3
  <1>3. CASE ChangeRefused(c)
    BY <1>3, SaysKeeps DEF ChangeRefused, Heard
  <1>4. CASE ChangeGivenUp(c)
    BY <1>4, SaysKeeps DEF ChangeGivenUp
  <1>5. CASE PersonGone(c)
    <2>1. c.awaited /\ ~shut /\ UNCHANGED <<place, shut, ignores, asks, doubled>>
      BY <1>5 DEF PersonGone, Heard
    <2>2. CASE AskAgain(c)
      BY <2>1, <2>2, AskAgainKeeps
    <2>3. CASE /\ place = "list" /\ changes' = changes \ {c} /\ UNCHANGED <<editing, busyId, unsure>>
               /\ rows' = [rows EXCEPT ![c.person] = [NoRow EXCEPT !.state = "absent"]]
      <3> DEFINE r == [NoRow EXCEPT !.state = "absent"]
      <3>3. r \in Rows /\ ~r.busy /\ r.state # "ready"
        BY RowsMade
      <3>2. rows' = [rows EXCEPT ![c.person] = r]
        BY <2>3
      <3> HIDE DEF r
      <3> QED BY <2>1, <2>3, <3>2, <3>3, RowAnswered
    <2>4. CASE /\ changes' = changes \ {c} /\ Says(c) /\ unsure' = unsure \union {c.person}
      BY <2>1, <2>4, SaysKeeps
    <2> QED BY <1>5, <2>2, <2>3, <2>4 DEF PersonGone
  <1>6. CASE IgnoresSessionOver(c)
    <2>1. /\ changes' \subseteq changes /\ shut' = TRUE /\ rows' = [p \in Persons |-> NoRow] /\ busyId' = Nobody
          /\ UNCHANGED <<place, ignores, asks, unsure, doubled>>
      BY <1>6 DEF IgnoresSessionOver, Unread
    <2>2. NoRow \in Rows
      BY DEF NoRow, Rows, ModesHeld
    <2> QED BY <2>1, <2>2 DEF IgnoresInv, IgnoresTypes, AllHere, Waits, Told
  <1> QED BY <1>2, <1>3, <1>4, <1>5, <1>6 DEF ChangeHeard

\* What a row offers is offered by a row that takes clicks.
LEMMA OffersKeep ==
  ASSUME IgnoresInv, NEW p \in Persons, RowOffers(p)
  PROVE  IgnoresInv'
  <1>1. rows[p].mode \in ModesHeld
    BY FieldsAreTyped DEF IgnoresInv
  <1>2. ASSUME UNCHANGED <<place, rows, busyId, shut, changes, ignores, asks, unsure, doubled>> PROVE IgnoresInv'
    BY <1>2 DEF IgnoresInv, IgnoresTypes, AllHere, Waits, Told, Sure, Said, Ready, Drawn
  <1>3. CASE ReadRow(p)
    BY <1>3, ReadKeeps
  <1>4. CASE Edit(p) \/ CancelEdit(p)
    BY <1>2, <1>4 DEF Edit, CancelEdit
  <1>5. CASE Restore(p)
    BY <1>1, <1>5, SendKeeps DEF Restore
  <1>6. CASE Lift(p)
    BY <1>6, SendKeeps DEF Lift, ModesHeld
  <1>7. ASSUME NEW mode \in Modes, Save(p, mode) PROVE IgnoresInv'
    <2>1. Ready(p) /\ ~Busy(p) /\ mode \in ModesHeld
      BY <1>7 DEF Save, Modes, ModesHeld
    <2>2. CASE mode = rows[p].mode
      BY <1>2, <1>7, <2>2 DEF Save
    <2>3. CASE mode # rows[p].mode
      BY <1>7, <2>1, <2>3, SendKeeps DEF Save
    <2> QED BY <2>2, <2>3
  <1> QED BY <1>3, <1>4, <1>5, <1>6, <1>7 DEF RowOffers

\* Every step of a place and of the service keeps the invariant.
LEMMA IgnoresStep == IgnoresInv /\ [IgnoresNext]_ivars => IgnoresInv'
  <1> SUFFICES ASSUME IgnoresInv, [IgnoresNext]_ivars PROVE IgnoresInv'
    OBVIOUS
  <1>1. ASSUME NEW p \in Persons, NEW mode \in Modes \union {"none"}, ChangedElsewhere(p, mode) PROVE IgnoresInv'
    <2>1. /\ asks' = asks + 1 /\ ignores' = [ignores EXCEPT ![p] = mode] /\ unsure' = unsure \union {p}
          /\ UNCHANGED <<place, rows, editing, busyId, shut, changes, doubled>>
      BY <1>1 DEF ChangedElsewhere
    <2>2. mode \in ModesHeld
      BY DEF Modes, ModesHeld
    <2>3. ignores' \in [Persons -> ModesHeld] /\ \A q \in Persons : q # p => ignores'[q] = ignores[q]
      BY <2>1, <2>2 DEF IgnoresInv, IgnoresTypes
    <2>4. IgnoresTypes' /\ AllHere' /\ Waits'
      BY <2>1, <2>3 DEF IgnoresInv, IgnoresTypes, AllHere, Waits, Drawn
    <2>5. \A c \in changes : c.person \in Persons
      BY FieldsAreTyped DEF IgnoresInv
    <2>6. \A q \in Persons : Said(q)' = Said(q) /\ Ready(q)' = Ready(q) /\ (Sure(q)' => Sure(q) /\ q # p)
      BY <2>1 DEF Said, Ready, Sure
    <2>7. Told'
      BY <2>1, <2>3, <2>5, <2>6 DEF IgnoresInv, Told, Drawn
    <2> QED BY <2>4, <2>7 DEF IgnoresInv
  <1>2. CASE UNCHANGED ivars
    BY <1>2 DEF ivars, IgnoresInv, IgnoresTypes, AllHere, Waits, Told, Sure, Said, Ready, Drawn
  <1> QED BY <1>1, <1>2, OffersKeep, HeardKeeps, ChangeServedKeeps
          DEF IgnoresNext, ListRows, ListHears, BranchRows, BranchHears, ProfileRow, ProfileHears

\* However the changes cross: a row with none out says what the service holds, no place but the branch
\* lets two of one person out, and no row stays shut for good (IgnoreList.tsx, HiddenBranch.tsx,
\* ReaderIgnore.tsx).
THEOREM RowsAreTrue == IgnoresSpec => []RowsTellTheTruth
  <1>1. IgnoresInit => IgnoresInv
    <2> SUFFICES ASSUME IgnoresInit PROVE IgnoresInv
      OBVIOUS
    <2>1. NoRow \in Rows /\ ~NoRow.busy /\ NoRow.state = "unread"
      BY DEF NoRow, Rows, ModesHeld
    <2>2. ignores \in [Persons -> ModesHeld]
      BY DEF IgnoresInit, Modes, ModesHeld
    <2>3. \A p \in Persons : rows[p] = NoRow
      BY DEF IgnoresInit, Unread
    <2>4. IgnoresTypes
      BY <2>1, <2>2 DEF IgnoresInit, Unread, IgnoresTypes
    <2>5. AllHere /\ Waits
      BY <2>1, <2>3 DEF IgnoresInit, AllHere, Waits
    <2>6. Told
      BY <2>1, <2>3 DEF IgnoresInit, Told, Ready
    <2> QED BY <2>4, <2>5, <2>6 DEF IgnoresInv
  <1>2. IgnoresInv => RowsTellTheTruth
    <2> SUFFICES ASSUME IgnoresInv PROVE RowsTellTheTruth
      OBVIOUS
    <2>1. \A p \in Persons : Out(p) = {c \in changes : Drawn(c) /\ c.person = p}
      BY DEF Out, UnderWay, Drawn
    <2>2. ASSUME NEW p \in Persons, Ready(p), Out(p) = {}, p \notin unsure \union doubled
          PROVE  ignores[p] = IF rows[p].lifted THEN "none" ELSE rows[p].mode
      <3>1. ~shut /\ Sure(p) /\ \A c \in changes : Drawn(c) => c.person # p
        BY <2>1, <2>2 DEF Ready, Sure
      <3> QED BY <2>2, <3>1 DEF IgnoresInv, Told, Said
    <2>3. place # "branch" => doubled = {}
      BY DEF IgnoresInv, AllHere
    <2>4. ASSUME NEW p \in Persons, Ready(p), Busy(p) PROVE Out(p) # {}
      <3>1. CASE place = "branch"
        <4>1. ~shut /\ busyId = p /\ p # Nobody
          BY <2>4, <3>1, NobodyAssumption DEF Ready, Busy
        <4> QED BY <2>1, <3>1, <4>1 DEF IgnoresInv, Waits
      <3>2. CASE place # "branch"
        <4>1. ~shut /\ rows[p].busy
          BY <2>4, <3>2 DEF Ready, Busy
        <4> QED BY <2>1, <3>2, <4>1 DEF IgnoresInv, Waits, AllHere, Drawn
      <3> QED BY <3>1, <3>2
    <2> QED BY <2>2, <2>3, <2>4 DEF RowsTellTheTruth
  <1> QED BY <1>1, <1>2, IgnoresStep, PTL DEF IgnoresSpec

----------------------------------------------------------------------------
(* The menu of a comment (ReaderMenu).                                      *)

Kinds == {"closed", "menu", "sign-in", "reported", "remove", "report", "ignore"}
Asks == [n : Nat, what : {"remove", "report", "ignore"}, mode : {"none", "soft", "hard"},
         answer : {"none", "done", "refused", "401", "404"}, awaited : BOOLEAN]

MenuTypes ==
    /\ onApp \in BOOLEAN /\ drawn \in BOOLEAN /\ reported \in BOOLEAN /\ marked \in BOOLEAN
    /\ filed \in BOOLEAN /\ menuUnsure \in BOOLEAN /\ mixed \in BOOLEAN
    /\ panel \in [kind : Kinds, busy : BOOLEAN]
    /\ menuAsks \subseteq Asks /\ menuSent \in Nat

\* Whoever says the comment was reported has it from a report that was taken
Filed ==
    /\ marked \/ reported \/ panel.kind = "reported" \/ lookup = "known" => filed
    /\ \A m \in menuAsks : m.what = "report" /\ m.answer = "done" => filed

\* One request about the ignore at a time; until it is heard of the page draws what was there before
Drawing ==
    ~menuUnsure =>
    /\ \A m, k \in menuAsks : m.what = "ignore" /\ k.what = "ignore" => m = k
    /\ \A m \in menuAsks : m.what = "ignore" =>
          IF m.answer = "done" THEN ignoredAs = m.mode ELSE drawn => drawnAs = ignoredAs
    /\ drawn /\ (\A m \in menuAsks : m.what # "ignore") => drawnAs = ignoredAs

\* A panel is open to clicks only where nothing is waited for
Awaiting ==
    /\ panel.busy => drawn /\ \E m \in menuAsks : m.awaited /\ m.what = panel.kind
    /\ ~mixed => /\ \A m, k \in menuAsks : m.awaited /\ k.awaited => m = k
                 /\ (\E m \in menuAsks : m.awaited) => panel.busy \/ panel.kind = "closed"

MenuInv == MenuTypes /\ Filed /\ Drawing /\ Awaiting

\* A panel put up takes clicks.
LEMMA PanelsMade ==
  /\ \A kind \in Kinds : Panel(kind) \in [kind : Kinds, busy : BOOLEAN] /\ Panel(kind).kind = kind /\ ~Panel(kind).busy
  /\ Closed \in [kind : Kinds, busy : BOOLEAN] /\ Closed.kind = "closed" /\ ~Closed.busy
  BY DEF Panel, Closed, Kinds

\* The fields of what is under way.
LEMMA AsksAreTyped ==
  ASSUME MenuTypes
  PROVE  /\ \A m \in menuAsks : /\ m \in Asks /\ m.what \in {"remove", "report", "ignore"} /\ m.mode \in {"none", "soft", "hard"}
                                /\ m.awaited \in BOOLEAN
         /\ panel.kind \in Kinds /\ panel.busy \in BOOLEAN
  <1>1. \A m \in menuAsks : m \in Asks
    BY DEF MenuTypes
  <1>2. panel.kind \in Kinds /\ panel.busy \in BOOLEAN
    BY DEF MenuTypes
  <1> QED BY <1>1, <1>2 DEF Asks

\* Another panel of the open menu, with nothing under way in it.
LEMMA ShowKeeps ==
  ASSUME MenuInv, NEW kind \in Kinds, Show(kind), kind # "reported",
         panel.kind = "menu" \/ panel.kind = "reported" \/ kind = "closed"
  PROVE  MenuInv'
  <1>1. /\ panel' = Panel(kind)
        /\ UNCHANGED <<onApp, lookup, own, drawn, reported, drawnAs, signedUp, marked, menuAsks, menuSent, filed, ignoredAs, menuUnsure, mixed>>
    BY DEF Show, menuService
  <1>2. panel' \in [kind : Kinds, busy : BOOLEAN] /\ panel'.kind = kind /\ ~panel'.busy
    BY <1>1, PanelsMade
  <1>3. MenuTypes' /\ Filed' /\ Drawing'
    BY <1>1, <1>2 DEF MenuInv, MenuTypes, Filed, Drawing
  <1>4. panel.kind \in {"menu", "reported"} => ~panel.busy
    BY AsksAreTyped DEF MenuInv, Awaiting
  <1>5. Awaiting'
    BY <1>1, <1>2, <1>4 DEF MenuInv, Awaiting
  <1> QED BY <1>3, <1>5 DEF MenuInv

\* The menu is opened or shut.
LEMMA ToggleKeeps ==
  ASSUME MenuInv, Toggle
  PROVE  MenuInv'
  <1>1. /\ panel' = IF panel.kind = "closed" THEN Panel("menu") ELSE Closed
        /\ mixed' = (mixed \/ (panel.kind = "closed" /\ \E m \in menuAsks : m.awaited))
        /\ UNCHANGED <<onApp, lookup, own, drawn, reported, drawnAs, signedUp, marked, menuAsks, menuSent, filed, ignoredAs, menuUnsure>>
    BY DEF Toggle, menuService
  <1>2. /\ panel' \in [kind : Kinds, busy : BOOLEAN] /\ ~panel'.busy
        /\ panel'.kind = IF panel.kind = "closed" THEN "menu" ELSE "closed"
    BY <1>1, PanelsMade DEF Kinds
  <1>3. mixed' \in BOOLEAN
    BY <1>1 DEF MenuInv, MenuTypes
  <1>4. MenuTypes' /\ Filed' /\ Drawing'
    BY <1>1, <1>2, <1>3 DEF MenuInv, MenuTypes, Filed, Drawing
  <1>5. Awaiting'
    BY <1>1, <1>2 DEF MenuInv, Awaiting
  <1> QED BY <1>4, <1>5 DEF MenuInv

\* A request goes out from a panel that takes clicks, so that none is waited for.
LEMMA AskKeeps ==
  ASSUME MenuInv, NEW what \in {"remove", "report", "ignore"}, NEW mode \in {"none", "soft", "hard"}, Ask_(what, mode)
  PROVE  MenuInv'
  <1> DEFINE new == [n |-> menuSent', what |-> what, mode |-> mode, answer |-> "none", awaited |-> TRUE]
  <1>1. /\ panel = Panel(what) /\ menuSent' = menuSent + 1 /\ menuAsks' = menuAsks \union {new} /\ drawn
        /\ panel' = [kind |-> what, busy |-> TRUE]
        /\ menuUnsure' = (menuUnsure \/ (what = "ignore" /\ \E m \in menuAsks : m.what = "ignore"))
        /\ UNCHANGED <<onApp, lookup, own, drawn, reported, drawnAs, signedUp, marked, filed, ignoredAs, mixed>>
    BY DEF Ask_, menuService
  <1>2. new \in Asks /\ new.what = what /\ new.mode = mode /\ new.answer = "none" /\ new.awaited
    BY <1>1 DEF MenuInv, MenuTypes, Asks
  <1> HIDE DEF new
  <1>3. what \in Kinds /\ what # "closed" /\ what # "reported"
    BY DEF Kinds
  <1>4. panel' \in [kind : Kinds, busy : BOOLEAN] /\ panel'.kind = what /\ panel'.busy
    BY <1>1, <1>3
  <1>5. panel.kind = what /\ ~panel.busy
    BY <1>1, <1>3, PanelsMade
  <1>6. menuUnsure' \in BOOLEAN
    BY <1>1 DEF MenuInv, MenuTypes
  <1>7. MenuTypes'
    BY <1>1, <1>2, <1>4, <1>6 DEF MenuInv, MenuTypes
  <1>8. Filed'
    BY <1>1, <1>2, <1>3, <1>4 DEF MenuInv, Filed
  <1>9. Drawing'
    <2> SUFFICES ASSUME ~menuUnsure' PROVE Drawing'
      BY DEF Drawing
    <2>1. ~menuUnsure /\ (what = "ignore" => \A m \in menuAsks : m.what # "ignore")
      BY <1>1
    <2>2. what = "ignore" => drawnAs = ignoredAs
      BY <1>1, <2>1 DEF MenuInv, Drawing
    <2> QED BY <1>1, <1>2, <2>1, <2>2 DEF MenuInv, Drawing
  <1>10. Awaiting'
    BY <1>1, <1>2, <1>3, <1>4, <1>5 DEF MenuInv, Awaiting
  <1> QED BY <1>7, <1>8, <1>9, <1>10 DEF MenuInv

\* The service answers; a report it takes is filed, an ignore it takes stands.
LEMMA MenuServedKeeps ==
  ASSUME MenuInv, NEW m \in menuAsks, MenuServed(m)
  PROVE  MenuInv'
  <1>1. PICK answer \in {"done", "refused", "401", "404"} :
        /\ menuAsks' = (menuAsks \ {m}) \union {[m EXCEPT !.answer = answer]}
        /\ filed' = (filed \/ (answer = "done" /\ m.what = "report"))
        /\ ignoredAs' = IF answer = "done" /\ m.what = "ignore" THEN m.mode ELSE ignoredAs
    BY DEF MenuServed, MenuAnswers
  <1>2. /\ m.answer = "none"
        /\ UNCHANGED <<onApp, lookup, own, drawn, panel, reported, drawnAs, signedUp, marked, menuSent, tokenOk, menuUnsure, mixed>>
    BY DEF MenuServed
  <1> DEFINE w == [m EXCEPT !.answer = answer]
  <1>3. m \in Asks
    BY DEF MenuInv, MenuTypes
  <1>4. w \in Asks /\ w.answer = answer /\ w.what = m.what /\ w.mode = m.mode /\ w.awaited = m.awaited
    <2>1. w = [m EXCEPT !.answer = answer]
      OBVIOUS
    <2> HIDE DEF w
    <2> QED BY <1>3, <2>1 DEF Asks
  <1>5. menuAsks' = (menuAsks \ {m}) \union {w}
    BY <1>1
  <1> HIDE DEF w
  <1>6. filed' \in BOOLEAN /\ (filed => filed')
    BY <1>1 DEF MenuInv, MenuTypes
  <1>7. MenuTypes'
    <2>1. menuAsks' \subseteq Asks
      BY <1>4, <1>5 DEF MenuInv, MenuTypes
    <2> QED BY <1>2, <1>6, <2>1 DEF MenuInv, MenuTypes
  <1>8. Filed'
    BY <1>1, <1>2, <1>4, <1>5, <1>6 DEF MenuInv, Filed
  <1>9. Drawing'
    <2> SUFFICES ASSUME ~menuUnsure PROVE Drawing'
      BY <1>2 DEF Drawing
    <2>1. CASE m.what = "ignore"
      <3>1. (\A k \in menuAsks : k.what = "ignore" => k = m) /\ (drawn => drawnAs = ignoredAs)
        BY <1>2, <2>1 DEF MenuInv, Drawing
      <3>2. \A k \in menuAsks' : k.what = "ignore" => k = w
        BY <1>5, <3>1
      <3>3. IF w.answer = "done" THEN ignoredAs' = w.mode ELSE drawn => drawnAs = ignoredAs'
        BY <1>1, <1>4, <2>1, <3>1
      <3> QED BY <1>2, <1>4, <1>5, <2>1, <3>2, <3>3 DEF Drawing
    <2>2. CASE m.what # "ignore"
      <3>1. ignoredAs' = ignoredAs
        BY <1>1, <2>2
      <3> QED BY <1>2, <1>4, <1>5, <2>2, <3>1 DEF MenuInv, Drawing
    <2> QED BY <2>1, <2>2
  <1>10. Awaiting'
    BY <1>2, <1>4, <1>5 DEF MenuInv, Awaiting
  <1> QED BY <1>7, <1>8, <1>9, <1>10 DEF MenuInv

\* An answer shuts the menu, or opens its panel to clicks, or finds no menu at all: with one request
\* fewer nothing is waited for that should not be.
LEMMA AwaitingAfter ==
  ASSUME MenuInv, NEW m \in menuAsks, m.awaited, \A k \in menuAsks' : k.awaited => k \in menuAsks \ {m},
         (panel' = panel /\ ~drawn) \/ ~panel'.busy, mixed' = mixed
  PROVE  Awaiting'
  BY DEF MenuInv, Awaiting

\* A request that says nothing of the ignore is answered, or one is refused: the page draws what it drew.
LEMMA DrawingAfter ==
  ASSUME MenuInv, NEW m \in menuAsks, menuAsks' = menuAsks \ {m}, UNCHANGED <<ignoredAs, menuUnsure>>,
         ~drawn' \/ (UNCHANGED <<drawn, drawnAs>> /\ (m.what # "ignore" \/ m.answer # "done"))
  PROVE  Drawing'
  BY DEF MenuInv, Drawing

\* An answer is heard, or not waited for any longer.
LEMMA HearsKeeps ==
  ASSUME MenuInv, NEW m \in menuAsks,
         GoneFromPage(m) \/ ReportTaken(m) \/ IgnoreTaken(m) \/ MenuRefused(m) \/ MenuGivenUp(m) \/ MenuSignedOut(m)
  PROVE  MenuInv'
  <1>1. m \in Asks /\ m.what \in {"remove", "report", "ignore"} /\ m.mode \in {"none", "soft", "hard"}
    BY AsksAreTyped DEF MenuInv
  <1>2. Panel(m.what) \in [kind : Kinds, busy : BOOLEAN] /\ ~Panel(m.what).busy /\ Panel(m.what).kind = m.what
    BY <1>1, PanelsMade DEF Kinds
  <1>3. CASE GoneFromPage(m)
    <2>1. /\ m.awaited /\ menuAsks' = menuAsks \ {m} /\ ~drawn' /\ drawn' \in BOOLEAN /\ panel' = Closed /\ lookup' = "none"
          /\ UNCHANGED <<onApp, menuSent, filed, ignoredAs, mixed, reported, drawnAs, marked, menuUnsure>>
      BY <1>3 DEF GoneFromPage, Hears, menuService
    <2>2. MenuTypes' /\ Filed'
      BY <2>1, PanelsMade DEF MenuInv, MenuTypes, Filed
    <2>3. Drawing' /\ Awaiting'
      BY <2>1, PanelsMade, AwaitingAfter, DrawingAfter
    <2> QED BY <2>2, <2>3 DEF MenuInv
  <1>4. CASE ReportTaken(m)
    <2>1. /\ m.what = "report" /\ m.answer = "done" /\ m.awaited /\ menuAsks' = menuAsks \ {m}
          /\ marked' = TRUE /\ reported' = drawn /\ panel' = IF drawn THEN Panel("reported") ELSE panel
          /\ UNCHANGED <<onApp, menuSent, filed, ignoredAs, mixed, lookup, drawn, drawnAs, menuUnsure>>
      BY <1>4 DEF ReportTaken, Hears, menuService
    <2>2. filed /\ ~(m.what = "ignore")
      BY <2>1 DEF MenuInv, Filed
    <2>3. panel' \in [kind : Kinds, busy : BOOLEAN] /\ ((panel' = panel /\ ~drawn) \/ ~panel'.busy)
      BY <2>1, PanelsMade DEF Kinds, MenuInv, MenuTypes
    <2>4. MenuTypes' /\ Filed'
      BY <2>1, <2>2, <2>3 DEF MenuInv, MenuTypes, Filed
    <2>5. Drawing' /\ Awaiting'
      BY <2>1, <2>2, <2>3, AwaitingAfter, DrawingAfter
    <2> QED BY <2>4, <2>5 DEF MenuInv
  <1>5. CASE IgnoreTaken(m)
    <2>1. /\ m.what = "ignore" /\ m.answer = "done" /\ m.awaited /\ menuAsks' = menuAsks \ {m}
          /\ drawnAs' = IF m.mode = "hard" THEN drawnAs ELSE m.mode
          /\ drawn' = (drawn /\ m.mode # "hard")
          /\ panel' = Closed /\ reported' = (drawn' /\ marked /\ ~onApp)
          /\ lookup' = IF onApp /\ drawn' THEN IF marked THEN "known" ELSE "unknown" ELSE "none"
          /\ UNCHANGED <<onApp, menuSent, filed, ignoredAs, mixed, marked, menuUnsure>>
      BY <1>5 DEF IgnoreTaken, MenuMounts, Hears, menuService
    <2>2. drawn' \in BOOLEAN /\ reported' \in BOOLEAN
      BY <2>1 DEF MenuInv, MenuTypes
    <2>3. lookup' = "known" \/ reported' => filed
      BY <2>1 DEF MenuInv, Filed
    <2>4. MenuTypes' /\ Filed'
      BY <2>1, <2>2, <2>3, PanelsMade DEF MenuInv, MenuTypes, Filed
    <2>5. Drawing'
      <3> SUFFICES ASSUME ~menuUnsure PROVE Drawing'
        BY <2>1 DEF Drawing
      <3>1. ignoredAs = m.mode /\ \A k \in menuAsks' : k.what # "ignore"
        BY <2>1 DEF MenuInv, Drawing
      <3> QED BY <2>1, <3>1 DEF Drawing
    <2>6. Awaiting'
      BY <2>1, PanelsMade, AwaitingAfter
    <2> QED BY <2>4, <2>5, <2>6 DEF MenuInv
  <1>6. CASE MenuRefused(m)
    <2>1. /\ m.answer = "refused" /\ m.awaited /\ menuAsks' = menuAsks \ {m}
          /\ panel' = IF drawn THEN Panel(m.what) ELSE panel
          /\ UNCHANGED <<onApp, menuSent, filed, ignoredAs, mixed, lookup, drawn, reported, drawnAs, marked, menuUnsure>>
      BY <1>6 DEF MenuRefused, Back, Hears, menuService
    <2>2. /\ panel' \in [kind : Kinds, busy : BOOLEAN] /\ ((panel' = panel /\ ~drawn) \/ ~panel'.busy)
          /\ panel'.kind = "reported" => panel.kind = "reported"
      BY <1>1, <1>2, <2>1 DEF MenuInv, MenuTypes
    <2>3. MenuTypes' /\ Filed'
      BY <2>1, <2>2 DEF MenuInv, MenuTypes, Filed
    <2>4. Drawing' /\ Awaiting'
      BY <2>1, <2>2, AwaitingAfter, DrawingAfter
    <2> QED BY <2>3, <2>4 DEF MenuInv
  <1>7. CASE MenuGivenUp(m)
    <2> DEFINE w == [m EXCEPT !.awaited = FALSE]
    <2>1. /\ m.awaited /\ menuAsks' = (menuAsks \ {m}) \union (IF m.answer = "none" THEN {w} ELSE {})
          /\ panel' = IF drawn THEN Panel(m.what) ELSE panel
          /\ menuUnsure' = (menuUnsure \/ m.what = "ignore")
          /\ UNCHANGED <<onApp, menuSent, filed, ignoredAs, mixed, lookup, drawn, reported, drawnAs, marked>>
      BY <1>7 DEF MenuGivenUp, Back, menuService
    <2>2. w \in Asks /\ ~w.awaited /\ w.what = m.what /\ w.answer = m.answer
      BY <1>1 DEF Asks
    <2> HIDE DEF w
    <2>3. /\ panel' \in [kind : Kinds, busy : BOOLEAN] /\ ((panel' = panel /\ ~drawn) \/ ~panel'.busy)
          /\ panel'.kind = "reported" => panel.kind = "reported"
      BY <1>1, <1>2, <2>1 DEF MenuInv, MenuTypes
    <2>4. menuUnsure' \in BOOLEAN
      BY <2>1 DEF MenuInv, MenuTypes
    <2>5. MenuTypes' /\ Filed'
      <3>1. menuAsks' \subseteq Asks
        BY <2>1, <2>2 DEF MenuInv, MenuTypes
      <3>2. \A k \in menuAsks' : k.what = "report" /\ k.answer = "done" => filed
        BY <2>1, <2>2 DEF MenuInv, Filed
      <3> QED BY <2>1, <2>3, <2>4, <3>1, <3>2 DEF MenuInv, MenuTypes, Filed
    <2>6. Drawing'
      <3> SUFFICES ASSUME ~menuUnsure, m.what # "ignore" PROVE Drawing'
        BY <2>1 DEF Drawing
      <3>1. \A k \in menuAsks' : k.what = "ignore" => k \in menuAsks
        BY <2>1, <2>2
      <3>2. \A k \in menuAsks : k.what = "ignore" => k \in menuAsks'
        BY <2>1
      <3> QED BY <2>1, <3>1, <3>2 DEF MenuInv, Drawing
    <2>7. \A k \in menuAsks' : k.awaited => k \in menuAsks \ {m}
      BY <2>1, <2>2
    <2>8. Awaiting'
      BY <2>1, <2>3, <2>7, AwaitingAfter
    <2> QED BY <2>5, <2>6, <2>8 DEF MenuInv
  <1>8. CASE MenuSignedOut(m)
    <2>1. /\ m.answer = "401" /\ m.awaited /\ menuAsks' = menuAsks \ {m} /\ panel' = Closed
          /\ UNCHANGED <<onApp, menuSent, filed, ignoredAs, mixed, lookup, drawn, reported, drawnAs, marked, menuUnsure>>
      BY <1>8 DEF MenuSignedOut, Hears, menuService
    <2>2. MenuTypes' /\ Filed'
      BY <2>1, PanelsMade DEF MenuInv, MenuTypes, Filed
    <2>3. Drawing' /\ Awaiting'
      BY <2>1, PanelsMade, AwaitingAfter, DrawingAfter
    <2> QED BY <2>2, <2>3 DEF MenuInv
  <1> QED BY <1>3, <1>4, <1>5, <1>6, <1>7, <1>8

\* The page opened again waits for nothing, and draws what the service holds.
LEMMA PageAgainKeeps ==
  ASSUME MenuInv, MenuPageAgain
  PROVE  MenuInv'
  <1>1. /\ drawn' = TRUE /\ panel' = Closed /\ drawnAs' = ignoredAs
        /\ reported' = (drawn' /\ marked /\ ~onApp)
        /\ lookup' = IF onApp /\ drawn' THEN IF marked THEN "known" ELSE "unknown" ELSE "none"
        /\ menuUnsure' = (menuUnsure \/ \E m \in menuAsks : m.what = "ignore")
        /\ menuAsks' = {[m EXCEPT !.awaited = FALSE] : m \in {r \in menuAsks : r.answer = "none"}}
        /\ UNCHANGED <<onApp, marked, menuSent, filed, ignoredAs, mixed>>
    BY DEF MenuPageAgain, MenuMounts, menuService
  <1>2. ASSUME NEW m \in menuAsks
        PROVE  LET w == [m EXCEPT !.awaited = FALSE] IN w \in Asks /\ ~w.awaited /\ w.what = m.what /\ w.answer = m.answer
    <2>1. m \in Asks
      BY DEF MenuInv, MenuTypes
    <2> QED BY <2>1 DEF Asks
  <1>3. \A w \in menuAsks' : w \in Asks /\ ~w.awaited /\ w.answer = "none" /\ \E m \in menuAsks : w.what = m.what
    BY <1>1, <1>2
  <1>4. reported' \in BOOLEAN /\ menuUnsure' \in BOOLEAN
    BY <1>1 DEF MenuInv, MenuTypes
  <1>5. MenuTypes' /\ Filed'
    BY <1>1, <1>3, <1>4, PanelsMade DEF MenuInv, MenuTypes, Filed
  <1>6. Drawing'
    <2>1. ~menuUnsure' => \A w \in menuAsks' : w.what # "ignore"
      BY <1>1, <1>3
    <2>2. drawnAs' = ignoredAs'
      BY <1>1
    <2> QED BY <2>1, <2>2 DEF Drawing
  <1>7. Awaiting'
    BY <1>1, <1>3, PanelsMade DEF Awaiting
  <1> QED BY <1>5, <1>6, <1>7 DEF MenuInv

\* Every step of the menu, the device and the service keeps the invariant.
LEMMA MenuStep == MenuInv /\ [MenuNext]_uvars => MenuInv'
  <1> SUFFICES ASSUME MenuInv, [MenuNext]_uvars PROVE MenuInv'
    OBVIOUS
  <1>1. CASE OpenRemove \/ OpenReport \/ OpenIgnore
    BY <1>1, ShowKeeps DEF OpenRemove, OpenReport, OpenIgnore, Kinds
  <1>2. CASE AskRemove \/ AskReport \/ AskUnignore
    BY <1>2, AskKeeps DEF AskRemove, AskReport, AskUnignore
  <1>3. ASSUME NEW mode \in {"soft", "hard"}, AskIgnore(mode) PROVE MenuInv'
    <2>1. CASE Show("closed")
      BY <2>1, ShowKeeps DEF Kinds
    <2>2. CASE Ask_("ignore", mode)
      BY <2>2, AskKeeps
    <2> QED BY <1>3, <2>1, <2>2 DEF AskIgnore
  <1>4. CASE MenuTurn
    BY <1>4 DEF MenuTurn, MenuInv, MenuTypes, Filed, Drawing, Awaiting
  <1>5. CASE LookedUp
    <2>1. /\ reported' = (lookup = "known") /\ lookup' = "none"
          /\ UNCHANGED <<onApp, drawn, panel, drawnAs, marked, menuAsks, menuSent, filed, ignoredAs, menuUnsure, mixed>>
      BY <1>5 DEF LookedUp, menuService
    <2>2. reported' \in BOOLEAN /\ (reported' => filed)
      BY <2>1 DEF MenuInv, Filed
    <2> QED BY <2>1, <2>2 DEF MenuInv, MenuTypes, Filed, Drawing, Awaiting
  <1>6. CASE UNCHANGED uvars
    BY <1>6 DEF uvars, menuService, MenuInv, MenuTypes, Filed, Drawing, Awaiting
  <1> QED BY <1>1, <1>2, <1>3, <1>4, <1>5, <1>6, ToggleKeeps, HearsKeeps, PageAgainKeeps, MenuServedKeeps
          DEF MenuNext, WebMenu, AppMenu, AppMenuHears, MenuOpens, MenuSends, MenuHears

\* Whatever the reader opens, shuts and sends: the menu says of reports and of the ignore what the
\* service holds, and a panel that takes no clicks waits for an answer (CommentMenu.tsx, reported.ts).
THEOREM MenusAreTrue == MenuSpec => []MenuTellsTheTruth
  <1>1. MenuInit => MenuInv
    <2> SUFFICES ASSUME MenuInit PROVE MenuInv
      OBVIOUS
    <2>1. MenuTypes
      BY PanelsMade DEF MenuInit, MenuTypes
    <2>2. Filed /\ Drawing /\ Awaiting
      BY PanelsMade DEF MenuInit, Filed, Drawing, Awaiting
    <2> QED BY <2>1, <2>2 DEF MenuInv
  <1>2. MenuInv => MenuTellsTheTruth
    BY DEF MenuInv, Filed, Drawing, Awaiting, MenuTellsTheTruth
  <1> QED BY <1>1, <1>2, MenuStep, PTL DEF MenuSpec

----------------------------------------------------------------------------
(* Sessions (ReaderSession).                                                *)

People == Accounts \union {Noone}
SealSet == [who : People, login : Nat, stale : BOOLEAN]
FlowSet == [open : BOOLEAN, left : People, marked : BOOLEAN]
TripKinds == {"session", "call", "logout", "callback", "delete"}
TripAnswers == {"none", "in", "out", "done", "401", "failed"}
TripSet == [n : Nat, kind : TripKinds, seal : SealSet, flow : FlowSet, who : People, here : BOOLEAN,
            answer : TripAnswers, sets : SealSet]
PageSteps == {"idle", "login", "last"}
PageSet == [knows : BOOLEAN, who : People, step : PageSteps, deleting : BOOLEAN]

BrowserTypes ==
    /\ jar \in SealSet /\ flow \in FlowSet /\ page \in PageSet
    /\ trips \subseteq TripSet
    /\ keys \subseteq Nat \ {0}
    /\ sent \in Nat /\ current \in Nat /\ raced \in BOOLEAN

\* Every seal there is
SealsAbout == {jar, NoSeal} \union {t.seal : t \in trips} \union {t.sets : t \in trips}

\* A login is known by the number of the request that came back with it, and names one account
Numbered ==
    /\ \A t \in trips : t.n <= sent
    /\ \A t, u \in trips : t.n = u.n => t = u
    /\ \A s \in SealsAbout : s.login <= sent
    /\ current <= sent /\ \A n \in keys : n <= sent
    /\ \A s, r \in SealsAbout : s.login = r.login => s.who = r.who

\* No cookie, no token and no page knows a login before its code is exchanged
NotBefore ==
    \A t \in trips : t.kind = "callback" /\ t.answer = "none" =>
        t.n \notin keys /\ t.n # current /\ \A s \in SealsAbout : s.login # t.n

\* What an answer does to the cookie it was asked under
AnswersTo ==
    \A t \in trips :
        /\ t.answer = "none" => t.sets = t.seal
        /\ t.kind \in {"session", "call", "delete"} => t.sets.login = t.seal.login \/ (t.sets = NoSeal /\ t.seal.login \notin keys)
        /\ t.kind = "callback" /\ t.answer = "in" =>
              /\ t.sets.who = t.who
              /\ t.seal.login \notin keys \/ t.seal.login \in spare
        /\ t.kind = "logout" /\ t.answer = "out" => t.seal.login \notin keys \/ t.seal.login \in spare
        /\ t.kind = "callback" => t.who \in Accounts

\* The cookie holds the last login while its token is good, and every good token is held or to be
Kept_ ==
    ~raced =>
        /\ current \in keys => jar.login = current
        /\ \A n \in keys : n \in spare \/ n = jar.login
              \/ \E t \in trips : t.kind = "callback" /\ t.answer = "in" /\ t.sets.login = n

\* A login begun by one account finds its cookie, or none
Begun ==
    ~raced =>
        /\ flow.open => jar.who \in {flow.left, Noone}
        /\ \A t \in trips : t.kind = "callback" => t.seal.who \in {t.flow.left, Noone}

BrowserInv == BrowserTypes /\ Numbered /\ NotBefore /\ AnswersTo /\ Kept_ /\ Begun

AppSet == [shows : {"nothing", "in", "out"}, hands : Nat, profile : BOOLEAN, coding : BOOLEAN, naming : BOOLEAN]
AppInv ==
    /\ app \in AppSet
    /\ chain \in Nat /\ appLogins \in Nat \ {0} /\ 0 \notin appKeys
    /\ outage \in BOOLEAN /\ lateName \in BOOLEAN
    /\ AppSessionStands
    /\ app.profile => app.hands # 0

(* Sealing. *)

\* A seal about is a seal.
LEMMA SealsAreSeals ==
    ASSUME BrowserTypes
    PROVE  SealsAbout \subseteq SealSet
<1>1. NoSeal \in SealSet
    BY DEF NoSeal, SealSet, People
<1>2. \A t \in trips : t.seal \in SealSet /\ t.sets \in SealSet
    BY DEF BrowserTypes, TripSet
<1>3. jar \in SealSet
    BY DEF BrowserTypes
<1> QED
    BY <1>1, <1>2, <1>3 DEF SealsAbout

\* What the seals about say stays true when every seal after the step has the login and the account of
\* one before it.
LEMMA SealsKept ==
    ASSUME BrowserTypes, Numbered, sent' >= sent, sent' \in Nat, \A s \in SealsAbout' : \E r \in SealsAbout : s.login = r.login /\ s.who = r.who
    PROVE  /\ \A s \in SealsAbout' : s.login <= sent'
           /\ \A s, r \in SealsAbout' : s.login = r.login => s.who = r.who
           /\ \A n \in Nat : (\A s \in SealsAbout : s.login # n) => \A s \in SealsAbout' : s.login # n
<1>0. SealsAbout \subseteq SealSet
    BY SealsAreSeals
<1>1. \A s \in SealsAbout' : s.login <= sent'
    <2> SUFFICES ASSUME NEW s \in SealsAbout' PROVE s.login <= sent'
        OBVIOUS
    <2>1. PICK r \in SealsAbout : s.login = r.login
        OBVIOUS
    <2>2. r.login <= sent /\ r.login \in Nat /\ sent \in Nat
        BY <1>0, <2>1 DEF Numbered, BrowserTypes, SealSet
    <2> QED
        BY <2>1, <2>2
<1>2. \A s, r \in SealsAbout' : s.login = r.login => s.who = r.who
    <2> SUFFICES ASSUME NEW s \in SealsAbout', NEW r \in SealsAbout', s.login = r.login PROVE s.who = r.who
        OBVIOUS
    <2>1. PICK s0 \in SealsAbout : s.login = s0.login /\ s.who = s0.who
        OBVIOUS
    <2>2. PICK r0 \in SealsAbout : r.login = r0.login /\ r.who = r0.who
        OBVIOUS
    <2> QED
        BY <2>1, <2>2 DEF Numbered
<1> QED
    BY <1>1, <1>2

\* A request that leaves joins the others with a number of its own.
LEMMA LeavingKeeps ==
    ASSUME BrowserInv, NEW kind \in TripKinds, NEW who \in People, NEW here \in BOOLEAN, Leaves(kind, who, here),
           kind = "callback" => who \in Accounts /\ flow.open,
           UNCHANGED <<jar, flow, keys, current, raced, spare>>, page' \in PageSet
    PROVE  BrowserInv'
<1> DEFINE u == [n |-> sent', kind |-> kind, seal |-> jar, flow |-> IF kind = "callback" THEN flow ELSE NoFlow, who |-> who, here |-> here,
                 answer |-> "none", sets |-> jar]
<1>0. BrowserTypes /\ Numbered /\ NotBefore /\ AnswersTo /\ Kept_ /\ Begun
    BY DEF BrowserInv
<1>1. trips' = trips \union {u} /\ sent' = sent + 1 /\ sent \in Nat
    BY <1>0 DEF Leaves, BrowserTypes
<1>2. NoFlow \in FlowSet
    BY DEF NoFlow, FlowSet, People
<1>3. u \in TripSet
    BY <1>0, <1>1, <1>2 DEF BrowserTypes, TripSet, TripAnswers
<1>4. u.n = sent + 1 /\ u.kind = kind /\ u.seal = jar /\ u.sets = jar /\ u.answer = "none" /\ u.who = who
    BY <1>1
<1>4a. kind = "callback" => u.flow = flow
    OBVIOUS
<1> HIDE DEF u
<1>5. BrowserTypes'
    BY <1>0, <1>1, <1>3 DEF BrowserTypes
<1>6. SealsAbout' = SealsAbout
    BY <1>1, <1>4 DEF SealsAbout
<1>7. \A t \in trips : t.n \in Nat /\ t.n <= sent /\ t.n # u.n
    BY <1>0, <1>1, <1>4 DEF Numbered, BrowserTypes, TripSet
<1>8. SealsAbout \subseteq SealSet
    BY <1>0, SealsAreSeals
<1>9. \A s \in SealsAbout : s.login \in Nat /\ s.login <= sent /\ s.login # sent + 1
    BY <1>8, <1>0, <1>1 DEF Numbered, SealSet
<1>10. Numbered'
    <2>1. \A t \in trips' : t.n <= sent'
        BY <1>1, <1>4, <1>7
    <2>2. \A t, v \in trips' : t.n = v.n => t = v
        BY <1>0, <1>1, <1>7 DEF Numbered
    <2>3. \A s \in SealsAbout' : s.login <= sent'
        BY <1>6, <1>9, <1>1
    <2>4. current' <= sent' /\ \A n \in keys' : n <= sent'
        BY <1>0, <1>1 DEF Numbered, BrowserTypes
    <2>5. \A s, r \in SealsAbout' : s.login = r.login => s.who = r.who
        BY <1>0, <1>6 DEF Numbered
    <2> QED
        BY <2>1, <2>2, <2>3, <2>4, <2>5 DEF Numbered
<1>11. NotBefore'
    <2>1. u.n \notin keys /\ u.n # current /\ \A s \in SealsAbout : s.login # u.n
        BY <1>0, <1>1, <1>4, <1>9 DEF Numbered, BrowserTypes
    <2> QED
        BY <1>0, <1>1, <1>6, <2>1 DEF NotBefore
<1>12. AnswersTo'
    BY <1>0, <1>1, <1>4 DEF AnswersTo
<1>13. Kept_'
    BY <1>0, <1>1 DEF Kept_
<1>14. Begun'
    BY <1>0, <1>1, <1>4, <1>4a DEF Begun
<1> QED
    BY <1>5, <1>10, <1>11, <1>12, <1>13, <1>14 DEF BrowserInv

\* What a request is answered with, apart from the login it may bring.
SealedOver(t, u) ==
    /\ u \in TripSet /\ u.n = t.n /\ u.kind = t.kind /\ u.seal = t.seal /\ u.flow = t.flow /\ u.who = t.who
    /\ u.answer # "none"

\* An answer that brings no login leaves the browser as it was.
LEMMA AnsweringKeeps ==
    ASSUME BrowserInv, NEW t \in trips, t.answer = "none", NEW u, SealedOver(t, u), trips' = (trips \ {t}) \union {u},
           \/ u.sets.login = t.seal.login /\ u.sets.who = t.seal.who
           \/ u.sets = NoSeal,
           t.kind \in {"session", "call", "delete"} => u.sets.login = t.seal.login \/ (u.sets = NoSeal /\ t.seal.login \notin keys),
           t.kind = "callback" => u.answer # "in",
           t.kind = "logout" /\ u.answer = "out" => t.seal.login \notin keys' \/ t.seal.login \in spare',
           UNCHANGED <<jar, flow, page, sent, current, raced>>, keys' \subseteq keys, spare \subseteq spare'
    PROVE  BrowserInv'
<1>0. BrowserTypes /\ Numbered /\ NotBefore /\ AnswersTo /\ Kept_ /\ Begun
    BY DEF BrowserInv
<1>1. BrowserTypes'
    BY <1>0 DEF BrowserTypes, SealedOver
<1>2. \A s \in SealsAbout' : \E r \in SealsAbout : s.login = r.login /\ s.who = r.who
    <2>1. SealsAbout' \subseteq SealsAbout \union {u.sets}
        BY DEF SealsAbout, SealedOver
    <2>2. \E r \in SealsAbout : u.sets.login = r.login /\ u.sets.who = r.who
        BY DEF SealsAbout
    <2> QED
        BY <2>1, <2>2
<1>3. sent' >= sent /\ sent' \in Nat
    BY <1>0 DEF BrowserTypes
<1>4. /\ \A s \in SealsAbout' : s.login <= sent'
      /\ \A s, r \in SealsAbout' : s.login = r.login => s.who = r.who
      /\ \A n \in Nat : (\A s \in SealsAbout : s.login # n) => \A s \in SealsAbout' : s.login # n
    BY <1>0, <1>2, <1>3, SealsKept
<1>5. Numbered'
    <2>1. \A v \in trips' : v.n <= sent'
        BY <1>0 DEF Numbered, SealedOver
    <2>2. \A v, w \in trips' : v.n = w.n => v = w
        BY <1>0 DEF Numbered, SealedOver
    <2>3. current' <= sent' /\ \A n \in keys' : n <= sent'
        BY <1>0 DEF Numbered
    <2> QED
        BY <1>4, <2>1, <2>2, <2>3 DEF Numbered
<1>6. NotBefore'
    <2> SUFFICES ASSUME NEW v \in trips', v.kind = "callback", v.answer = "none"
                 PROVE  v.n \notin keys' /\ v.n # current' /\ \A s \in SealsAbout' : s.login # v.n
        BY DEF NotBefore
    <2>1. v \in trips /\ v.n \in Nat
        BY <1>0 DEF SealedOver, BrowserTypes, TripSet
    <2> QED
        BY <1>0, <1>4, <2>1 DEF NotBefore
<1>7. AnswersTo'
    <2> SUFFICES ASSUME NEW v \in trips'
                 PROVE  /\ v.answer = "none" => v.sets = v.seal
                        /\ v.kind \in {"session", "call", "delete"} => v.sets.login = v.seal.login \/ (v.sets = NoSeal /\ v.seal.login \notin keys')
                        /\ v.kind = "callback" /\ v.answer = "in" =>
                              /\ v.sets.who = v.who
                              /\ v.seal.login \notin keys' \/ v.seal.login \in spare'
                        /\ v.kind = "logout" /\ v.answer = "out" => v.seal.login \notin keys' \/ v.seal.login \in spare'
                        /\ v.kind = "callback" => v.who \in Accounts
        BY DEF AnswersTo
    <2>1. CASE v \in trips
        BY <1>0, <2>1 DEF AnswersTo
    <2>2. CASE v = u
        BY <1>0, <2>2 DEF AnswersTo, SealedOver
    <2> QED
        BY <2>1, <2>2
<1>8. Kept_'
    <2> SUFFICES ASSUME ~raced
                 PROVE  /\ current \in keys' => jar.login = current
                        /\ \A n \in keys' : n \in spare' \/ n = jar.login
                              \/ \E v \in trips' : v.kind = "callback" /\ v.answer = "in" /\ v.sets.login = n
        BY DEF Kept_
    <2> QED
        BY <1>0 DEF Kept_
<1>9. Begun'
    BY <1>0 DEF Begun, SealedOver
<1> QED
    BY <1>1, <1>5, <1>6, <1>7, <1>8, <1>9 DEF BrowserInv

\* A code exchanged brings a login nobody knew, and its answer holds it.
LEMMA ExchangeKeeps ==
    ASSUME BrowserInv, NEW t \in trips, CallbackServed(t)
    PROVE  BrowserInv'
<1> DEFINE u == [t EXCEPT !.answer = IF t.kind = "call" THEN "done" ELSE "in", !.sets = [who |-> t.who, login |-> t.n, stale |-> FALSE]]
<1>0. BrowserTypes /\ Numbered /\ NotBefore /\ AnswersTo /\ Kept_ /\ Begun
    BY DEF BrowserInv
<1>1. trips' = (trips \ {t}) \union {u} /\ t.kind = "callback" /\ t.answer = "none"
    BY DEF CallbackServed, Answer
<1>1a. t \in TripSet
    BY <1>0 DEF BrowserTypes
<1>2. SealedOver(t, u) /\ u.answer = "in" /\ u.sets = [who |-> t.who, login |-> t.n, stale |-> FALSE] /\ u.sets \in SealSet
    BY <1>1, <1>1a DEF TripSet, SealedOver, TripAnswers, TripKinds, SealSet
<1>3. u.sets.login = t.n /\ u.sets.who = t.who
    BY <1>2
<1> HIDE DEF u
<1>4. UNCHANGED <<jar, flow, page, sent, current, raced>>
    BY DEF CallbackServed, Still
<1>5. PICK revoked \in BOOLEAN : /\ keys' = (IF revoked THEN keys \ {t.seal.login} ELSE keys) \union {t.n}
                                 /\ spare' = IF revoked THEN spare ELSE spare \union {t.seal.login}
    BY DEF CallbackServed
<1>6. t.n \notin keys /\ t.n # current /\ (\A s \in SealsAbout : s.login # t.n) /\ t.n \in Nat /\ t.n <= sent
    BY <1>0, <1>1, <1>1a DEF NotBefore, Numbered, TripSet
<1>7. keys' \subseteq keys \union {t.n} /\ spare \subseteq spare' /\ t.n \in keys'
    BY <1>5
<1>8. t.seal.login \notin keys' \/ t.seal.login \in spare'
    <2>1. t.seal.login # t.n
        BY <1>6 DEF SealsAbout
    <2> QED
        BY <1>5, <2>1
<1>9. SealsAbout' \subseteq SealsAbout \union {u.sets}
    BY <1>1, <1>2, <1>4 DEF SealsAbout, SealedOver
<1>9a. t.n # 0
    <2>1. NoSeal \in SealsAbout /\ NoSeal.login = 0
        BY DEF SealsAbout, NoSeal
    <2> QED
        BY <1>6, <2>1
<1>10. BrowserTypes'
    BY <1>0, <1>1, <1>2, <1>4, <1>6, <1>7, <1>9a DEF BrowserTypes, SealedOver
<1>11. Numbered'
    <2>1. \A v \in trips' : v.n <= sent'
        BY <1>0, <1>1, <1>2, <1>4 DEF Numbered, SealedOver
    <2>2. \A v, w \in trips' : v.n = w.n => v = w
        BY <1>0, <1>1, <1>2 DEF Numbered, SealedOver
    <2>3. current' <= sent' /\ \A n \in keys' : n <= sent'
        BY <1>0, <1>4, <1>6, <1>7 DEF Numbered
    <2>4. \A s \in SealsAbout' : s.login <= sent'
        BY <1>0, <1>3, <1>4, <1>6, <1>9 DEF Numbered
    <2>5. \A s, r \in SealsAbout' : s.login = r.login => s.who = r.who
        BY <1>0, <1>3, <1>6, <1>9 DEF Numbered
    <2> QED
        BY <2>1, <2>2, <2>3, <2>4, <2>5 DEF Numbered
<1>12. NotBefore'
    <2> SUFFICES ASSUME NEW v \in trips', v.kind = "callback", v.answer = "none"
                 PROVE  v.n \notin keys' /\ v.n # current' /\ \A s \in SealsAbout' : s.login # v.n
        BY DEF NotBefore
    <2>1. v \in trips /\ v # t
        BY <1>1, <1>2
    <2>2. v.n # t.n
        BY <1>0, <2>1 DEF Numbered
    <2> QED
        BY <1>0, <1>3, <1>4, <1>7, <1>9, <2>1, <2>2 DEF NotBefore
<1>13. AnswersTo'
    <2> SUFFICES ASSUME NEW v \in trips'
                 PROVE  /\ v.answer = "none" => v.sets = v.seal
                        /\ v.kind \in {"session", "call", "delete"} => v.sets.login = v.seal.login \/ (v.sets = NoSeal /\ v.seal.login \notin keys')
                        /\ v.kind = "callback" /\ v.answer = "in" =>
                              /\ v.sets.who = v.who
                              /\ v.seal.login \notin keys' \/ v.seal.login \in spare'
                        /\ v.kind = "logout" /\ v.answer = "out" => v.seal.login \notin keys' \/ v.seal.login \in spare'
                        /\ v.kind = "callback" => v.who \in Accounts
        BY DEF AnswersTo
    <2>1. CASE v \in trips
        <3>1. v.seal.login # t.n
            BY <1>6, <2>1 DEF SealsAbout
        <3> QED
            BY <1>0, <1>7, <2>1, <3>1 DEF AnswersTo
    <2>2. CASE v = u
        BY <1>0, <1>1, <1>2, <1>3, <1>8, <2>2 DEF AnswersTo, SealedOver
    <2> QED
        BY <1>1, <2>1, <2>2
<1>14. Kept_'
    <2> SUFFICES ASSUME ~raced
                 PROVE  /\ current \in keys' => jar.login = current
                        /\ \A n \in keys' : n \in spare' \/ n = jar.login
                              \/ \E v \in trips' : v.kind = "callback" /\ v.answer = "in" /\ v.sets.login = n
        BY <1>4 DEF Kept_
    <2>1. current \in keys' => jar.login = current
        BY <1>0, <1>6, <1>7 DEF Kept_
    <2>2. ASSUME NEW n \in keys'
          PROVE  n \in spare' \/ n = jar.login \/ \E v \in trips' : v.kind = "callback" /\ v.answer = "in" /\ v.sets.login = n
        <3>1. CASE n = t.n
            BY <1>1, <1>2, <1>3, <3>1 DEF SealedOver
        <3>2. CASE n \in keys
            BY <1>0, <1>1, <1>7, <3>2 DEF Kept_
        <3> QED
            BY <1>7, <2>2, <3>1, <3>2
    <2> QED
        BY <2>1, <2>2
<1>15. Begun'
    BY <1>0, <1>1, <1>2, <1>4 DEF Begun, SealedOver
<1> QED
    BY <1>10, <1>11, <1>12, <1>13, <1>14, <1>15 DEF BrowserInv

(* Hearing. *)

\* The same request, heard by its page or not.
Same(u, v) ==
    /\ u.n = v.n /\ u.kind = v.kind /\ u.seal = v.seal /\ u.flow = v.flow /\ u.who = v.who
    /\ u.answer = v.answer /\ u.sets = v.sets

\* A page that goes leaves its requests under way, and an answer leaves the others.
LEMMA GoneFrom ==
    ASSUME BrowserTypes, Numbered, NEW ts \in SUBSET trips, trips' = ts \/ trips' = Unheard(ts)
    PROVE  /\ trips' \subseteq TripSet
           /\ \A u \in trips' : \E v \in ts : Same(u, v)
           /\ \A v \in ts : \E u \in trips' : Same(u, v)
           /\ \A u, v \in trips' : u.n = v.n => u = v
<1>0. ts \subseteq TripSet
    BY DEF BrowserTypes
<1>1. CASE trips' = ts
    BY <1>0, <1>1 DEF Same, Numbered
<1>2. CASE trips' = Unheard(ts)
    <2>1. \A t \in ts : /\ [t EXCEPT !.here = FALSE] \in TripSet
                        /\ Same([t EXCEPT !.here = FALSE], t)
        BY <1>0 DEF TripSet, Same
    <2>2. \A u \in trips' : \E v \in ts : u = [v EXCEPT !.here = FALSE]
        BY <1>2 DEF Unheard
    <2>3. \A v \in ts : [v EXCEPT !.here = FALSE] \in trips'
        BY <1>2 DEF Unheard
    <2>4. trips' \subseteq TripSet
        BY <2>1, <2>2
    <2>5. \A u \in trips' : \E v \in ts : Same(u, v)
        BY <2>1, <2>2
    <2>6. \A v \in ts : \E u \in trips' : Same(u, v)
        BY <2>1, <2>3
    <2>7. \A u, v \in trips' : u.n = v.n => u = v
        <3> SUFFICES ASSUME NEW u \in trips', NEW v \in trips', u.n = v.n PROVE u = v
            OBVIOUS
        <3>1. PICK u0 \in ts : u = [u0 EXCEPT !.here = FALSE]
            BY <2>2
        <3>2. PICK v0 \in ts : v = [v0 EXCEPT !.here = FALSE]
            BY <2>2
        <3>3. u.n = u0.n /\ v.n = v0.n
            BY <2>1, <3>1, <3>2 DEF Same
        <3>4. u0 = v0
            BY <3>3 DEF Numbered
        <3> QED
            BY <3>1, <3>2, <3>4
    <2> QED
        BY <2>4, <2>5, <2>6, <2>7
<1> QED
    BY <1>1, <1>2

\* What arrives changes the cookie for one that was about, and the requests under way are those before
\* it, but for the one that came and the logout that may follow it.
LEMMA ArrivingKeeps ==
    ASSUME BrowserInv, NEW ts \in SUBSET trips,
           \A u \in trips' : \/ \E v \in ts : Same(u, v)
                             \/ /\ u.kind = "logout" /\ u.answer = "none" /\ u.seal = jar' /\ u.sets = jar'
                                /\ \E v \in trips \ ts : u.n = v.n,
           \A u, v \in trips' : u.n = v.n => u = v,
           \E r \in SealsAbout : r.login = jar'.login /\ r.who = jar'.who,
           current' \in {0, current, jar'.login}, current' \in Nat, keys' \subseteq keys, sent' = sent, spare \subseteq spare'
    PROVE  Numbered' /\ NotBefore' /\ AnswersTo'
<1>0. BrowserTypes /\ Numbered /\ NotBefore /\ AnswersTo
    BY DEF BrowserInv
<1>1. \A s \in SealsAbout' : \E r \in SealsAbout : s.login = r.login /\ s.who = r.who
    <2>0. NoSeal \in SealsAbout /\ \A v \in trips : v.seal \in SealsAbout /\ v.sets \in SealsAbout
        BY DEF SealsAbout
    <2>1. \A u \in trips' : \E r \in SealsAbout : u.seal.login = r.login /\ u.seal.who = r.who
        BY <2>0 DEF Same
    <2>2. \A u \in trips' : \E r \in SealsAbout : u.sets.login = r.login /\ u.sets.who = r.who
        BY <2>0 DEF Same
    <2>3. \A s \in SealsAbout' : s = jar' \/ s = NoSeal \/ \E u \in trips' : s = u.seal \/ s = u.sets
        BY DEF SealsAbout
    <2> QED
        BY <2>0, <2>1, <2>2, <2>3
<1>2. sent' >= sent /\ sent' \in Nat
    BY <1>0 DEF BrowserTypes
<1>3. /\ \A s \in SealsAbout' : s.login <= sent'
      /\ \A s, r \in SealsAbout' : s.login = r.login => s.who = r.who
      /\ \A n \in Nat : (\A s \in SealsAbout : s.login # n) => \A s \in SealsAbout' : s.login # n
    BY <1>0, <1>1, <1>2, SealsKept
<1>3a. jar' \in SealsAbout'
    BY DEF SealsAbout
<1>4. Numbered'
    <2>1. \A v \in trips' : v.n <= sent'
        BY <1>0 DEF Numbered, Same
    <2>2. current' <= sent' /\ \A n \in keys' : n <= sent'
        BY <1>0, <1>3, <1>3a DEF Numbered, BrowserTypes
    <2> QED
        BY <1>3, <2>1, <2>2 DEF Numbered
<1>5. NotBefore'
    <2> SUFFICES ASSUME NEW u \in trips', u.kind = "callback", u.answer = "none"
                 PROVE  u.n \notin keys' /\ u.n # current' /\ \A s \in SealsAbout' : s.login # u.n
        BY DEF NotBefore
    <2>1. PICK v \in ts : Same(u, v)
        OBVIOUS
    <2>2. v \in trips /\ v.kind = "callback" /\ v.answer = "none" /\ v.n = u.n /\ v.n \in Nat
        BY <1>0, <2>1 DEF Same, BrowserTypes, TripSet
    <2>3. v.n \notin keys /\ v.n # current /\ \A s \in SealsAbout : s.login # v.n
        BY <1>0, <2>2 DEF NotBefore
    <2>4. \A s \in SealsAbout' : s.login # v.n
        BY <1>3, <2>2, <2>3
    <2>5. v.n # 0
        <3>1. NoSeal \in SealsAbout /\ NoSeal.login = 0
            BY DEF SealsAbout, NoSeal
        <3> QED
            BY <2>3, <3>1
    <2> QED
        BY <1>3a, <2>2, <2>3, <2>4, <2>5
<1>6. AnswersTo'
    <2> SUFFICES ASSUME NEW v \in trips'
                 PROVE  /\ v.answer = "none" => v.sets = v.seal
                        /\ v.kind \in {"session", "call", "delete"} => v.sets.login = v.seal.login \/ (v.sets = NoSeal /\ v.seal.login \notin keys')
                        /\ v.kind = "callback" /\ v.answer = "in" =>
                              /\ v.sets.who = v.who
                              /\ v.seal.login \notin keys' \/ v.seal.login \in spare'
                        /\ v.kind = "logout" /\ v.answer = "out" => v.seal.login \notin keys' \/ v.seal.login \in spare'
                        /\ v.kind = "callback" => v.who \in Accounts
        BY DEF AnswersTo
    <2>1. CASE \E w \in ts : Same(v, w)
        <3>1. PICK w \in ts : Same(v, w)
            BY <2>1
        <3>2. /\ w.answer = "none" => w.sets = w.seal
              /\ w.kind \in {"session", "call", "delete"} => w.sets.login = w.seal.login \/ (w.sets = NoSeal /\ w.seal.login \notin keys)
              /\ w.kind = "callback" /\ w.answer = "in" =>
                    /\ w.sets.who = w.who
                    /\ w.seal.login \notin keys \/ w.seal.login \in spare
              /\ w.kind = "logout" /\ w.answer = "out" => w.seal.login \notin keys \/ w.seal.login \in spare
              /\ w.kind = "callback" => w.who \in Accounts
            BY <1>0 DEF AnswersTo
        <3> QED
            BY <3>1, <3>2 DEF Same
    <2>2. CASE v.kind = "logout" /\ v.answer = "none" /\ v.seal = jar' /\ v.sets = jar'
        BY <2>2
    <2> QED
        BY <2>1, <2>2
<1> QED
    BY <1>4, <1>5, <1>6

\* What a callback under way begun under and what a login to be is held by, after it.
LEMMA HeldAndBegun ==
    ASSUME BrowserInv, NEW ts \in SUBSET trips,
           \A u \in trips' : (\E v \in ts : Same(u, v)) \/ u.kind = "logout",
           \A v \in ts : \E u \in trips' : Same(u, v),
           UNCHANGED keys, spare \subseteq spare', raced => raced', flow' \in {flow, NoFlow},
           ~raced' => /\ current' \in keys => jar'.login = current'
                      /\ flow'.open => jar'.who \in {flow'.left, Noone}
                      /\ jar.login \in keys => jar.login = jar'.login \/ jar.login \in spare'
                      /\ \A v \in trips \ ts : v.kind = "callback" /\ v.answer = "in" => v.sets.login = jar'.login \/ v.sets.login \in spare'
    PROVE  Kept_' /\ Begun'
<1>0. Kept_ /\ Begun
    BY DEF BrowserInv
<1>1. ASSUME ~raced', NEW n \in keys'
      PROVE  n \in spare' \/ n = jar'.login \/ \E u \in trips' : u.kind = "callback" /\ u.answer = "in" /\ u.sets.login = n
    <2>1. n \in spare \/ n = jar.login \/ \E v \in trips : v.kind = "callback" /\ v.answer = "in" /\ v.sets.login = n
        BY <1>0, <1>1 DEF Kept_
    <2>2. CASE n \in spare
        BY <2>2
    <2>3. CASE n = jar.login
        BY <1>1, <2>3
    <2>4. CASE \E v \in trips : v.kind = "callback" /\ v.answer = "in" /\ v.sets.login = n
        <3>1. PICK v \in trips : v.kind = "callback" /\ v.answer = "in" /\ v.sets.login = n
            BY <2>4
        <3>2. CASE v \in ts
            BY <3>1, <3>2 DEF Same
        <3>3. CASE v \notin ts
            BY <1>1, <3>1, <3>3
        <3> QED
            BY <3>2, <3>3
    <2> QED
        BY <2>1, <2>2, <2>3, <2>4
<1>2. Kept_'
    BY <1>1 DEF Kept_
<1>3. Begun'
    <2> SUFFICES ASSUME ~raced', NEW u \in trips', u.kind = "callback"
                 PROVE  u.seal.who \in {u.flow.left, Noone}
        BY DEF Begun
    <2>1. PICK v \in ts : Same(u, v)
        OBVIOUS
    <2> QED
        BY <1>0, <2>1 DEF Begun, Same
<1> QED
    BY <1>2, <1>3

\* An answer that may set or clear the cookie, and brings no login: the session, a call, a deletion.
\* Asked under the cookie there is, it leaves its login, or clears one whose token is dead.
LEMMA CookieHeard ==
    ASSUME BrowserInv, NEW t \in trips, t.kind \in {"session", "call", "delete"},
           jar' = IF t.sets # t.seal THEN t.sets ELSE jar,
           raced' = (raced \/ (t.sets # t.seal /\ t.seal.login # jar.login))
    PROVE  /\ jar' \in SealSet /\ raced' \in BOOLEAN /\ (raced => raced')
           /\ \E r \in SealsAbout : r.login = jar'.login /\ r.who = jar'.who
           /\ ~raced' => /\ current \in keys => jar'.login = current
                         /\ flow.open => jar'.who \in {flow.left, Noone}
                         /\ jar.login \in keys => jar.login = jar'.login
<1>0. BrowserTypes /\ Numbered /\ AnswersTo /\ Kept_ /\ Begun /\ t \in TripSet
    BY DEF BrowserInv, BrowserTypes
<1>1. jar \in SealsAbout /\ t.seal \in SealsAbout /\ t.sets \in SealsAbout
    BY DEF SealsAbout
<1>2. jar' \in SealsAbout
    BY <1>1
<1>3. jar' \in SealSet
    BY <1>0, <1>2, SealsAreSeals
<1>4. raced' \in BOOLEAN /\ (raced => raced')
    BY <1>0 DEF BrowserTypes
<1>5. ASSUME ~raced'
      PROVE  /\ current \in keys => jar'.login = current
             /\ flow.open => jar'.who \in {flow.left, Noone}
             /\ jar.login \in keys => jar.login = jar'.login
    <2>1. ~raced
        BY <1>4, <1>5
    <2>2. /\ current \in keys => jar.login = current
          /\ flow.open => jar.who \in {flow.left, Noone}
        BY <1>0, <2>1 DEF Kept_, Begun
    <2>3. CASE t.sets = t.seal
        BY <2>2, <2>3
    <2>4. CASE t.sets # t.seal
        <3>1. jar' = t.sets /\ t.seal.login = jar.login
            BY <1>5, <2>4
        <3>2. t.sets.login = t.seal.login \/ (t.sets = NoSeal /\ t.seal.login \notin keys)
            BY <1>0 DEF AnswersTo
        <3>3. CASE t.sets.login = t.seal.login
            <4>1. jar'.who = jar.who
                BY <1>0, <1>1, <3>1, <3>3 DEF Numbered
            <4> QED
                BY <2>2, <3>1, <3>3, <4>1
        <3>4. CASE t.sets = NoSeal /\ t.seal.login \notin keys
            <4>1. jar'.who = Noone
                BY <3>1, <3>4 DEF NoSeal
            <4> QED
                BY <2>2, <3>1, <3>4, <4>1
        <3> QED
            BY <3>2, <3>3, <3>4
    <2> QED
        BY <2>3, <2>4
<1> QED
    BY <1>2, <1>3, <1>4, <1>5

\* The session is heard, or a call, or it is lost.
LEMMA HearingKeeps ==
    ASSUME BrowserInv, NEW t \in trips, SessionHeard(t) \/ AnswerHeard(t)
    PROVE  BrowserInv'
<1>0. BrowserTypes /\ Numbered /\ t \in TripSet
    BY DEF BrowserInv, BrowserTypes
<1>1. /\ t.kind \in {"session", "call", "delete"} /\ t.kind # "callback"
      /\ jar' = IF t.sets # t.seal THEN t.sets ELSE jar
      /\ raced' = (raced \/ (t.sets # t.seal /\ t.seal.login # jar.login))
      /\ trips' = trips \ {t}
      /\ UNCHANGED <<flow, keys, logins, sent, deleted, current, spare>>
    BY DEF SessionHeard, AnswerHeard, SetCookie
<1>2. page' \in PageSet
    BY <1>0 DEF SessionHeard, AnswerHeard, BrowserTypes, PageSet, TripSet, SealSet, People
<1>3. /\ jar' \in SealSet /\ raced' \in BOOLEAN /\ (raced => raced')
      /\ \E r \in SealsAbout : r.login = jar'.login /\ r.who = jar'.who
      /\ ~raced' => /\ current \in keys => jar'.login = current
                    /\ flow.open => jar'.who \in {flow.left, Noone}
                    /\ jar.login \in keys => jar.login = jar'.login
    BY <1>1, CookieHeard
<1>4. BrowserTypes'
    BY <1>0, <1>1, <1>2, <1>3 DEF BrowserTypes
<1> DEFINE ts == trips \ {t}
<1>5. /\ \A u \in trips' : \E v \in ts : Same(u, v)
      /\ \A v \in ts : \E u \in trips' : Same(u, v)
      /\ \A u, v \in trips' : u.n = v.n => u = v
      /\ ts \in SUBSET trips
      /\ \A v \in trips \ ts : v.kind # "callback"
    BY <1>0, <1>1, GoneFrom
<1> HIDE DEF ts
<1>6. Numbered' /\ NotBefore' /\ AnswersTo'
    BY <1>0, <1>1, <1>3, <1>5, ArrivingKeeps DEF BrowserTypes
<1>7. Kept_' /\ Begun'
    BY <1>1, <1>3, <1>5, HeldAndBegun
<1> QED
    BY <1>4, <1>6, <1>7 DEF BrowserInv

\* A deletion is heard; the page signs out at once where it is done.
LEMMA DeletionKeeps ==
    ASSUME BrowserInv, NEW t \in trips, DeletionHeard(t)
    PROVE  BrowserInv'
<1> DEFINE u == [t EXCEPT !.kind = "logout", !.answer = "none", !.seal = jar', !.sets = jar']
           ts == trips \ {t}
<1>0. BrowserTypes /\ Numbered /\ t \in TripSet
    BY DEF BrowserInv, BrowserTypes
<1>1. /\ t.kind = "delete"
      /\ jar' = IF t.sets # t.seal THEN t.sets ELSE jar
      /\ raced' = (raced \/ (t.sets # t.seal /\ t.seal.login # jar.login))
      /\ UNCHANGED <<flow, keys, logins, sent, deleted, current, spare>>
    BY DEF DeletionHeard
<1>2. trips' = ts \union {u} \/ trips' = ts
    BY DEF DeletionHeard
<1>3. /\ jar' \in SealSet /\ raced' \in BOOLEAN /\ (raced => raced')
      /\ \E r \in SealsAbout : r.login = jar'.login /\ r.who = jar'.who
      /\ ~raced' => /\ current \in keys => jar'.login = current
                    /\ flow.open => jar'.who \in {flow.left, Noone}
                    /\ jar.login \in keys => jar.login = jar'.login
    BY <1>1, CookieHeard
<1>4. u \in TripSet /\ u.n = t.n /\ u.kind = "logout" /\ u.answer = "none" /\ u.seal = jar' /\ u.sets = jar'
    BY <1>0, <1>3 DEF TripSet, TripKinds, TripAnswers
<1>5. page' \in PageSet
    <2>1. page \in PageSet
        BY <1>0 DEF BrowserTypes
    <2>2. \/ page' = page
          \/ page' = [page EXCEPT !.deleting = FALSE, !.step = "login"]
          \/ page' = [page EXCEPT !.deleting = FALSE, !.step = page.step]
        BY DEF DeletionHeard
    <2> QED
        BY <2>1, <2>2 DEF PageSet, PageSteps
<1> HIDE DEF u
<1>6. BrowserTypes'
    BY <1>0, <1>1, <1>2, <1>3, <1>4, <1>5 DEF BrowserTypes
<1>7. /\ \A v \in trips' : (\E w \in ts : Same(v, w)) \/ v = u
      /\ \A v \in ts : \E w \in trips' : Same(w, v)
      /\ \A v, w \in trips' : v.n = w.n => v = w
      /\ ts \in SUBSET trips /\ t \in trips \ ts
      /\ \A v \in trips \ ts : v.kind # "callback"
    <2>1. \A v \in ts : Same(v, v) /\ v \in trips'
        BY <1>2 DEF Same
    <2>2. \A v, w \in trips' : v.n = w.n => v = w
        BY <1>0, <1>2, <1>4 DEF Numbered
    <2> QED
        BY <1>1, <1>2, <2>1, <2>2
<1>8. t \in trips \ ts
    OBVIOUS
<1> HIDE DEF ts
<1>9. \A v \in trips' : (\E w \in ts : Same(v, w))
          \/ /\ v.kind = "logout" /\ v.answer = "none" /\ v.seal = jar' /\ v.sets = jar'
             /\ \E w \in trips \ ts : v.n = w.n
    BY <1>4, <1>7, <1>8
<1>10. Numbered' /\ NotBefore' /\ AnswersTo'
    BY <1>0, <1>1, <1>3, <1>7, <1>9, ArrivingKeeps DEF BrowserTypes
<1>11. Kept_' /\ Begun'
    BY <1>1, <1>3, <1>7, <1>9, HeldAndBegun
<1> QED
    BY <1>6, <1>10, <1>11 DEF BrowserInv

\* A request is lost, and its answer with it.
LEMMA LosingKeeps ==
    ASSUME BrowserInv, NEW t \in trips, TripLost(t)
    PROVE  BrowserInv'
<1> DEFINE ts == trips \ {t}
<1>0. BrowserTypes /\ Numbered /\ t \in TripSet /\ Kept_ /\ Begun
    BY DEF BrowserInv, BrowserTypes
<1>1. /\ UNCHANGED <<jar, flow, keys, sent, current, raced>> /\ spare \subseteq spare' /\ trips' = ts
      /\ t.kind = "callback" /\ t.answer = "in" => t.sets.login \in spare'
    BY DEF TripLost
<1>2. page' \in PageSet
    BY <1>0 DEF TripLost, BrowserTypes, PageSet
<1>3. BrowserTypes'
    BY <1>0, <1>1, <1>2 DEF BrowserTypes
<1>4. /\ \A u \in trips' : \E v \in ts : Same(u, v)
      /\ \A v \in ts : \E u \in trips' : Same(u, v)
      /\ \A u, v \in trips' : u.n = v.n => u = v
      /\ ts \in SUBSET trips
      /\ \A v \in trips \ ts : v = t
    BY <1>0, <1>1, GoneFrom
<1> HIDE DEF ts
<1>5. jar \in SealsAbout
    BY DEF SealsAbout
<1>6. Numbered' /\ NotBefore' /\ AnswersTo'
    BY <1>0, <1>1, <1>4, <1>5, ArrivingKeeps DEF BrowserTypes
<1>7. Kept_' /\ Begun'
    BY <1>0, <1>1, <1>4, HeldAndBegun DEF Kept_, Begun
<1> QED
    BY <1>3, <1>6, <1>7 DEF BrowserInv

\* A navigation takes its request with it, and the page, where it was this one.
LEMMA NavigationTakes ==
    ASSUME BrowserTypes, Numbered, NEW t \in trips, NEW step \in PageSteps, Navigated(step, t)
    PROVE  /\ page' \in PageSet
           /\ trips' \subseteq TripSet
           /\ \A u \in trips' : \E v \in trips \ {t} : Same(u, v)
           /\ \A v \in trips \ {t} : \E u \in trips' : Same(u, v)
           /\ \A u, v \in trips' : u.n = v.n => u = v
<1>1. [NewPage EXCEPT !.step = step] \in PageSet
    BY DEF NewPage, PageSet, PageSteps, People
<1>2. page' \in PageSet
    BY <1>1 DEF Navigated, Reload, BrowserTypes
<1>3. trips' = trips \ {t} \/ trips' = Unheard(trips \ {t})
    BY DEF Navigated
<1> QED
    BY <1>2, <1>3, GoneFrom

\* A login arrives with its cookie.
LEMMA LoginKeeps ==
    ASSUME BrowserInv, NEW t \in trips, LoggedIn(t)
    PROVE  BrowserInv'
<1> DEFINE ts == trips \ {t}
<1>0. BrowserTypes /\ Numbered /\ AnswersTo /\ Kept_ /\ t \in TripSet
    BY DEF BrowserInv, BrowserTypes
<1>1. /\ t.kind = "callback" /\ t.answer = "in" /\ jar' = t.sets /\ flow' = NoFlow /\ current' = t.sets.login
      /\ raced' = (raced \/ t.seal.login # jar.login)
      /\ UNCHANGED <<keys, sent, spare>>
    BY DEF LoggedIn
<1>2. Navigated("last", t) \/ Navigated("idle", t)
    BY DEF LoggedIn
<1>3. /\ page' \in PageSet
      /\ trips' \subseteq TripSet
      /\ \A u \in trips' : \E v \in ts : Same(u, v)
      /\ \A v \in ts : \E u \in trips' : Same(u, v)
      /\ \A u, v \in trips' : u.n = v.n => u = v
    BY <1>0, <1>2, NavigationTakes DEF PageSteps
<1>4. ts \in SUBSET trips /\ \A v \in trips \ ts : v = t
    OBVIOUS
<1> HIDE DEF ts
<1>5. NoFlow \in FlowSet /\ ~NoFlow.open
    BY DEF NoFlow, FlowSet, People
<1>6. jar' \in SealSet /\ jar' \in SealsAbout /\ current' \in Nat /\ raced' \in BOOLEAN /\ (raced => raced')
    BY <1>0, <1>1 DEF TripSet, SealSet, SealsAbout, BrowserTypes
<1>7. BrowserTypes'
    BY <1>0, <1>1, <1>3, <1>5, <1>6 DEF BrowserTypes
<1>8. Numbered' /\ NotBefore' /\ AnswersTo'
    BY <1>0, <1>1, <1>3, <1>4, <1>6, ArrivingKeeps
<1>9. ~raced' => (jar.login \in keys => jar.login \in spare)
    BY <1>0, <1>1 DEF AnswersTo
<1>10. Kept_' /\ Begun'
    BY <1>1, <1>3, <1>4, <1>5, <1>6, <1>9, HeldAndBegun
<1> QED
    BY <1>7, <1>8, <1>10 DEF BrowserInv

\* A logout arrives, and clears the cookie.
LEMMA LogoutKeeps ==
    ASSUME BrowserInv, NEW t \in trips, LoggedOut(t)
    PROVE  BrowserInv'
<1> DEFINE ts == trips \ {t}
<1>0. BrowserTypes /\ Numbered /\ AnswersTo /\ Kept_ /\ t \in TripSet
    BY DEF BrowserInv, BrowserTypes
<1>1. /\ t.kind = "logout" /\ t.answer = "out" /\ jar' = NoSeal
      /\ current' = IF current = t.seal.login THEN 0 ELSE current
      /\ raced' = (raced \/ t.seal.login # jar.login)
      /\ UNCHANGED <<flow, keys, sent, spare>>
    BY DEF LoggedOut
<1>2. Navigated("idle", t)
    BY DEF LoggedOut
<1>3. /\ page' \in PageSet
      /\ trips' \subseteq TripSet
      /\ \A u \in trips' : \E v \in ts : Same(u, v)
      /\ \A v \in ts : \E u \in trips' : Same(u, v)
      /\ \A u, v \in trips' : u.n = v.n => u = v
    BY <1>0, <1>2, NavigationTakes DEF PageSteps
<1>4. ts \in SUBSET trips /\ \A v \in trips \ ts : v = t
    OBVIOUS
<1> HIDE DEF ts
<1>5. NoSeal \in SealSet /\ NoSeal.who = Noone /\ NoSeal \in SealsAbout
    BY DEF NoSeal, SealSet, People, SealsAbout
<1>6. current' \in {0, current} /\ current' \in Nat /\ raced' \in BOOLEAN /\ (raced => raced')
    BY <1>0, <1>1 DEF BrowserTypes
<1>7. BrowserTypes'
    BY <1>0, <1>1, <1>3, <1>5, <1>6 DEF BrowserTypes
<1>8. Numbered' /\ NotBefore' /\ AnswersTo'
    BY <1>0, <1>1, <1>3, <1>4, <1>5, <1>6, ArrivingKeeps
<1>9. ~raced' => /\ current' \notin keys
                 /\ jar.login \in keys => jar.login \in spare
    <2> SUFFICES ASSUME ~raced'
                 PROVE  current' \notin keys /\ (jar.login \in keys => jar.login \in spare)
        OBVIOUS
    <2>1. t.seal.login = jar.login /\ ~raced
        BY <1>1
    <2>2. jar.login \in keys => jar.login \in spare
        BY <1>0, <1>1, <2>1 DEF AnswersTo
    <2>3. 0 \notin keys
        BY <1>0 DEF BrowserTypes
    <2>4. current \in keys => current = jar.login
        BY <1>0, <2>1 DEF Kept_
    <2> QED
        BY <1>1, <2>1, <2>2, <2>3, <2>4
<1>10. Kept_' /\ Begun'
    BY <1>1, <1>3, <1>4, <1>5, <1>6, <1>9, HeldAndBegun
<1> QED
    BY <1>7, <1>8, <1>10 DEF BrowserInv

\* A failed login is forgotten, and a page opened anew knows nothing.
LEMMA TurningKeeps ==
    ASSUME BrowserInv, OpenAnew \/ \E t \in trips : LoginFailed(t)
    PROVE  BrowserInv'
<1>0. BrowserTypes /\ Numbered /\ Kept_ /\ Begun
    BY DEF BrowserInv
<1>1. NoFlow \in FlowSet /\ ~NoFlow.open
    BY DEF NoFlow, FlowSet, People
<1>2. jar \in SealsAbout
    BY DEF SealsAbout
<1>3. CASE OpenAnew
    <2>1. UNCHANGED <<jar, flow, keys, sent, current, raced, spare>> /\ trips' = Unheard(trips)
        BY <1>3 DEF OpenAnew
    <2>2. page' \in PageSet
        BY <1>3 DEF OpenAnew, Reload, NewPage, PageSet, PageSteps, People
    <2> DEFINE ts == trips
    <2>3. /\ trips' \subseteq TripSet
          /\ \A u \in trips' : \E v \in ts : Same(u, v)
          /\ \A v \in ts : \E u \in trips' : Same(u, v)
          /\ \A u, v \in trips' : u.n = v.n => u = v
          /\ ts \in SUBSET trips
        BY <1>0, <2>1, GoneFrom
    <2>4. BrowserTypes'
        BY <1>0, <2>1, <2>2, <2>3 DEF BrowserTypes
    <2>5. Numbered' /\ NotBefore' /\ AnswersTo'
        BY <1>0, <1>2, <2>1, <2>3, ArrivingKeeps DEF BrowserTypes
    <2>6. Kept_' /\ Begun'
        BY <1>0, <2>1, <2>3, HeldAndBegun DEF Kept_, Begun
    <2> QED
        BY <2>4, <2>5, <2>6 DEF BrowserInv
<1>4. CASE \E t \in trips : LoginFailed(t)
    <2>0. PICK t \in trips : LoginFailed(t)
        BY <1>4
    <2> DEFINE ts == trips \ {t}
    <2>1. /\ flow' = NoFlow /\ UNCHANGED <<jar, keys, sent, current, raced, spare>> /\ t.answer = "failed"
          /\ Navigated("idle", t)
        BY <2>0 DEF LoginFailed
    <2>2. /\ page' \in PageSet
          /\ trips' \subseteq TripSet
          /\ \A u \in trips' : \E v \in ts : Same(u, v)
          /\ \A v \in ts : \E u \in trips' : Same(u, v)
          /\ \A u, v \in trips' : u.n = v.n => u = v
        BY <1>0, <2>1, NavigationTakes DEF PageSteps
    <2>3. ts \in SUBSET trips /\ \A v \in trips \ ts : v = t
        OBVIOUS
    <2> HIDE DEF ts
    <2>4. BrowserTypes'
        BY <1>0, <1>1, <2>1, <2>2 DEF BrowserTypes
    <2>5. Numbered' /\ NotBefore' /\ AnswersTo'
        BY <1>0, <1>2, <2>1, <2>2, <2>3, ArrivingKeeps DEF BrowserTypes
    <2>6. Kept_' /\ Begun'
        BY <1>0, <1>1, <2>1, <2>2, <2>3, HeldAndBegun DEF Kept_, Begun
    <2> QED
        BY <2>4, <2>5, <2>6 DEF BrowserInv
<1> QED
    BY <1>3, <1>4

\* Time passes, a reader leaves for the login page, or walks through the deletion.
LEMMA WaitingKeeps ==
    ASSUME BrowserInv, Expire \/ KeyDies \/ AskDeletion \/ \E b \in BOOLEAN : LeaveForLogin(b)
    PROVE  BrowserInv'
<1>0. BrowserTypes /\ Numbered /\ NotBefore /\ AnswersTo /\ Kept_ /\ Begun
    BY DEF BrowserInv
<1>1. UNCHANGED <<trips, sent, current, raced, spare>>
    BY DEF Expire, KeyDies, AskDeletion, LeaveForLogin
<1>2. jar' \in SealSet /\ jar'.login = jar.login /\ jar'.who = jar.who
    <2>1. jar' = jar \/ jar' = [jar EXCEPT !.stale = TRUE]
        BY DEF Expire, KeyDies, AskDeletion, LeaveForLogin
    <2>2. jar \in SealSet
        BY <1>0 DEF BrowserTypes
    <2> QED
        BY <2>1, <2>2 DEF SealSet
<1>3. keys' \subseteq keys
    BY DEF Expire, KeyDies, AskDeletion, LeaveForLogin
<1>4. flow' = flow \/ (flow'.left = jar.who /\ flow' \in FlowSet)
    <2>1. ASSUME NEW b \in BOOLEAN, LeaveForLogin(b)
          PROVE  flow'.left = jar.who /\ flow' \in FlowSet
        <3>1. flow' = [open |-> TRUE, left |-> jar.who, marked |-> b]
            BY <2>1 DEF LeaveForLogin
        <3>2. jar.who \in People
            BY <1>0 DEF BrowserTypes, SealSet
        <3> QED
            BY <3>1, <3>2 DEF FlowSet
    <2>2. ASSUME Expire \/ KeyDies \/ AskDeletion PROVE flow' = flow
        BY <2>2 DEF Expire, KeyDies, AskDeletion
    <2> QED
        BY <2>1, <2>2
<1>5. page' \in PageSet
    <2>1. page \in PageSet
        BY <1>0 DEF BrowserTypes
    <2>2. page' = page \/ page' = [page EXCEPT !.step = "login"] \/ page' = [page EXCEPT !.step = "idle"]
        BY DEF Expire, KeyDies, AskDeletion, LeaveForLogin, GoTo
    <2> QED
        BY <2>1, <2>2 DEF PageSet, PageSteps
<1>6. BrowserTypes'
    BY <1>0, <1>1, <1>2, <1>3, <1>4, <1>5 DEF BrowserTypes
<1>7. Numbered' /\ NotBefore' /\ AnswersTo'
    <2>1. \A u \in trips' : \E v \in trips : Same(u, v)
        BY <1>1 DEF Same
    <2>2. \A u, v \in trips' : u.n = v.n => u = v
        BY <1>0, <1>1 DEF Numbered
    <2>3. \E r \in SealsAbout : r.login = jar'.login /\ r.who = jar'.who
        BY <1>2 DEF SealsAbout
    <2>4. current' \in {0, current, jar'.login} /\ current' \in Nat /\ sent' = sent /\ spare \subseteq spare'
        BY <1>0, <1>1 DEF BrowserTypes
    <2>5. trips \in SUBSET trips
        OBVIOUS
    <2> QED
        BY <1>3, <2>1, <2>2, <2>3, <2>4, <2>5, ArrivingKeeps
<1>8. Kept_'
    BY <1>0, <1>1, <1>2, <1>3 DEF Kept_
<1>9. Begun'
    BY <1>0, <1>1, <1>2, <1>4 DEF Begun
<1> QED
    BY <1>6, <1>7, <1>8, <1>9 DEF BrowserInv

\* The server answers with what the cookie of the request was, or with none.
LEMMA ServingKeeps ==
    ASSUME BrowserInv, NEW t \in trips, SessionServed(t) \/ ProxyServed(t) \/ CallbackFails(t) \/ LogoutServed(t)
    PROVE  BrowserInv'
<1>0. BrowserTypes /\ t \in TripSet /\ t.seal \in SealSet
    BY DEF BrowserInv, BrowserTypes, TripSet
<1>1. UNCHANGED <<jar, flow, page, sent, current, raced>> /\ t.answer = "none"
    BY DEF SessionServed, ProxyServed, CallbackFails, LogoutServed, Still
<1>2. NoSeal \in SealSet
    BY DEF NoSeal, SealSet, People
<1>3. ASSUME NEW answer, NEW seal, Answer(t, answer, seal), seal \in SealSet, answer \in TripAnswers \ {"none"},
             \/ seal.login = t.seal.login /\ seal.who = t.seal.who
             \/ seal = NoSeal,
             t.kind \in {"session", "call", "delete"} => seal.login = t.seal.login \/ (seal = NoSeal /\ t.seal.login \notin keys),
             t.kind = "callback" => answer # "in",
             t.kind = "logout" /\ answer = "out" => t.seal.login \notin keys' \/ t.seal.login \in spare',
             keys' \subseteq keys, spare \subseteq spare'
      PROVE  BrowserInv'
    <2> DEFINE u == [t EXCEPT !.answer = IF t.kind = "call" THEN "done" ELSE answer, !.sets = seal]
    <2>1. trips' = (trips \ {t}) \union {u}
        BY <1>3 DEF Answer
    <2>2. SealedOver(t, u) /\ u.sets = seal /\ (t.kind # "call" => u.answer = answer)
        BY <1>0, <1>3 DEF SealedOver, TripSet, TripAnswers
    <2> HIDE DEF u
    <2> QED
        BY <1>1, <1>3, <2>1, <2>2, AnsweringKeeps
<1>4. NoSeal.login = 0 /\ 0 \notin keys
    BY <1>0 DEF NoSeal, BrowserTypes
<1>5. \A stale \in BOOLEAN : LET seal == [t.seal EXCEPT !.stale = stale]
                             IN  seal \in SealSet /\ seal.login = t.seal.login /\ seal.who = t.seal.who
    BY <1>0 DEF SealSet
<1>6. "signed-out" \in Freshness(t.seal) => t.seal.login \notin keys
    BY DEF Freshness
<1>7. CASE SessionServed(t)
    <2>1. t.kind = "session" /\ UNCHANGED <<keys, spare>>
        BY <1>7 DEF SessionServed
    <2>2. CASE Answer(t, "out", t.seal)
        BY <1>0, <1>3, <2>1, <2>2 DEF TripAnswers
    <2>3. CASE t.seal.login \notin keys /\ Answer(t, "out", NoSeal)
        BY <1>2, <1>3, <2>1, <2>3 DEF TripAnswers
    <2>4. CASE \E stale \in BOOLEAN : Answer(t, "in", [t.seal EXCEPT !.stale = stale])
        <3>1. PICK stale \in BOOLEAN : Answer(t, "in", [t.seal EXCEPT !.stale = stale])
            BY <2>4
        <3> DEFINE seal == [t.seal EXCEPT !.stale = stale]
        <3>2. seal \in SealSet /\ seal.login = t.seal.login /\ seal.who = t.seal.who /\ Answer(t, "in", seal)
            BY <1>5, <3>1
        <3> HIDE DEF seal
        <3> QED
            BY <1>3, <2>1, <3>2 DEF TripAnswers
    <2> QED
        BY <1>6, <1>7, <2>2, <2>3, <2>4 DEF SessionServed
<1>8. CASE ProxyServed(t)
    <2>1. t.kind \in {"call", "delete"} /\ UNCHANGED <<keys, spare>>
        BY <1>8 DEF ProxyServed
    <2>2. CASE t.seal.login \notin keys /\ Answer(t, "401", NoSeal)
        BY <1>2, <1>3, <2>1, <2>2 DEF TripAnswers
    <2>3. CASE Answer(t, "failed", t.seal)
        BY <1>0, <1>3, <2>1, <2>3 DEF TripAnswers
    <2>4. CASE \E answer \in {"done", "401", "failed"} : Answer(t, answer, [t.seal EXCEPT !.stale = FALSE])
        <3>1. PICK answer \in {"done", "401", "failed"} : Answer(t, answer, [t.seal EXCEPT !.stale = FALSE])
            BY <2>4
        <3> DEFINE seal == [t.seal EXCEPT !.stale = FALSE]
        <3>2. seal \in SealSet /\ seal.login = t.seal.login /\ seal.who = t.seal.who /\ Answer(t, answer, seal)
            BY <1>5, <3>1
        <3> HIDE DEF seal
        <3> QED
            BY <1>3, <2>1, <3>2 DEF TripAnswers
    <2>5. t.seal = NoSeal => t.seal.login \notin keys
        BY <1>4
    <2> QED
        <3>1. PICK f \in IF t.seal = NoSeal THEN {"nobody"} ELSE Freshness(t.seal) :
                 \/ f \in {"nobody", "signed-out"} /\ Answer(t, "401", NoSeal)
                 \/ Answer(t, "failed", t.seal)
                 \/ \E answer \in IF t.kind = "delete" THEN {"done", "401", "failed"} ELSE {"done"} : Answer(t, answer, [t.seal EXCEPT !.stale = FALSE])
            BY <1>8, Zenon DEF ProxyServed
        <3>2. f \in {"nobody", "signed-out"} => t.seal.login \notin keys
            BY <1>6, <2>5, <3>1 DEF Freshness
        <3> QED
            BY <2>2, <2>3, <2>4, <3>1, <3>2
<1>9. CASE CallbackFails(t)
    BY <1>0, <1>3, <1>9 DEF CallbackFails, TripAnswers
<1>10. CASE LogoutServed(t)
    <2>1. t.kind = "logout" /\ Answer(t, "out", NoSeal)
        BY <1>10 DEF LogoutServed
    <2>2. keys' \subseteq keys /\ spare \subseteq spare' /\ (t.seal.login \notin keys' \/ t.seal.login \in spare')
        BY <1>10 DEF LogoutServed
    <2> QED
        BY <1>2, <1>3, <2>1, <2>2 DEF TripAnswers
<1> QED
    BY <1>7, <1>8, <1>9, <1>10

\* A request of the page leaves, or a code comes back.
LEMMA AskingKeeps ==
    ASSUME BrowserInv,
           \/ AskSession \/ AskThrough \/ DeleteAccount
           \/ \E here \in BOOLEAN : LogOut(here)
           \/ \E who \in Accounts, here \in BOOLEAN : ComeBack(who, here)
    PROVE  BrowserInv'
<1>0. page \in PageSet /\ page.who \in People
    BY DEF BrowserInv, BrowserTypes, PageSet
<1>1. Noone \in People /\ Accounts \subseteq People
    BY DEF People
<1>2. [page EXCEPT !.deleting = TRUE] \in PageSet
    BY <1>0 DEF PageSet
<1>3. CASE AskSession
    BY <1>0, <1>1, <1>3, LeavingKeeps DEF AskSession, TripKinds
<1>4. CASE AskThrough
    BY <1>0, <1>1, <1>4, LeavingKeeps DEF AskThrough, TripKinds
<1>5. CASE DeleteAccount
    BY <1>0, <1>2, <1>5, LeavingKeeps DEF DeleteAccount, TripKinds
<1>6. ASSUME NEW here \in BOOLEAN, LogOut(here) PROVE BrowserInv'
    BY <1>0, <1>1, <1>6, LeavingKeeps DEF LogOut, TripKinds
<1>7. ASSUME NEW who \in Accounts, NEW here \in BOOLEAN, ComeBack(who, here) PROVE BrowserInv'
    BY <1>0, <1>1, <1>7, LeavingKeeps DEF ComeBack, TripKinds
<1> QED
    BY <1>3, <1>4, <1>5, <1>6, <1>7

\* At first the browser holds at most the cookie it starts with.
LEMMA BrowserStart == BrowserInit => BrowserInv
<1> SUFFICES ASSUME BrowserInit PROVE BrowserInv
    OBVIOUS
<1>1. trips = {} /\ ~raced /\ sent = 1 /\ current = jar.login /\ keys = {jar.login} \ {0} /\ flow = NoFlow /\ page = NewPage /\ raced = FALSE
    BY DEF BrowserInit
<1>2. jar = NoSeal \/ \E a \in Accounts : jar = [who |-> a, login |-> 1, stale |-> FALSE]
    BY DEF BrowserInit
<1>3. jar \in SealSet /\ jar.login \in {0, 1} /\ (jar = NoSeal \/ jar.login = 1)
    <2>1. NoSeal \in SealSet /\ NoSeal.login = 0
        BY DEF SealSet, NoSeal, People
    <2>2. \A a \in Accounts : [who |-> a, login |-> 1, stale |-> FALSE] \in SealSet
        BY DEF SealSet, People
    <2> QED
        BY <1>2, <2>1, <2>2
<1>4. BrowserTypes
    BY <1>1, <1>3 DEF BrowserTypes, NoFlow, FlowSet, NewPage, PageSet, PageSteps, People, NoSeal, SealSet
<1>5. SealsAbout = {jar, NoSeal} /\ NoSeal.login = 0
    BY <1>1 DEF SealsAbout, NoSeal
<1>6. Numbered
    BY <1>1, <1>3, <1>5 DEF Numbered
<1>7. NotBefore /\ AnswersTo /\ Kept_ /\ Begun
    BY <1>1 DEF NotBefore, AnswersTo, Kept_, Begun, NoFlow
<1> QED
    BY <1>4, <1>6, <1>7 DEF BrowserInv

\* Every step of the browser, of the services and of the mail keeps what is known of the cookies.
LEMMA BrowserStep == BrowserInv /\ [BrowserNext]_bvars => BrowserInv'
<1> SUFFICES ASSUME BrowserInv, [BrowserNext]_bvars PROVE BrowserInv'
    OBVIOUS
<1>1. CASE UNCHANGED bvars
    BY <1>1 DEF bvars, BrowserInv, BrowserTypes, Numbered, NotBefore, AnswersTo, Kept_, Begun, SealsAbout
<1>2. CASE \/ AskSession \/ AskThrough \/ DeleteAccount
           \/ \E here \in BOOLEAN : LogOut(here)
           \/ \E who \in Accounts, here \in BOOLEAN : ComeBack(who, here)
    BY <1>2, AskingKeeps
<1>3. CASE Expire \/ KeyDies \/ AskDeletion \/ \E b \in BOOLEAN : LeaveForLogin(b)
    BY <1>3, WaitingKeeps
<1>4. CASE OpenAnew \/ \E t \in trips : LoginFailed(t)
    BY <1>4, TurningKeeps
<1>5. CASE \E t \in trips : SessionServed(t) \/ ProxyServed(t) \/ CallbackFails(t) \/ LogoutServed(t)
    BY <1>5, ServingKeeps
<1>6. CASE \E t \in trips : CallbackServed(t)
    BY <1>6, ExchangeKeeps
<1>7. CASE \E t \in trips : SessionHeard(t) \/ AnswerHeard(t)
    BY <1>7, HearingKeeps
<1>8. CASE \E t \in trips : TripLost(t)
    BY <1>8, LosingKeeps
<1>9. CASE \E t \in trips : LoggedIn(t)
    BY <1>9, LoginKeeps
<1>10. CASE \E t \in trips : LoggedOut(t)
    BY <1>10, LogoutKeeps
<1>11. CASE \E t \in trips : DeletionHeard(t)
    BY <1>11, DeletionKeeps
<1> QED
    BY <1>1, <1>2, <1>3, <1>4, <1>5, <1>6, <1>7, <1>8, <1>9, <1>10, <1>11, Zenon DEF BrowserNext

\* A reader stays signed in until he or Keycloak ends it.
THEOREM CookiesAreKept == BrowserSpec => []CookieIsKept
<1>1. BrowserInv => CookieIsKept
    <2> SUFFICES ASSUME BrowserInv, ~raced
                 PROVE  /\ current \in keys => jar.login = current
                        /\ \A n \in keys : n \in spare \union {jar.login} \union {t.sets.login : t \in trips}
        BY DEF CookieIsKept
    <2>1. Kept_
        BY DEF BrowserInv
    <2> QED
        BY <2>1 DEF Kept_
<1> QED
    BY BrowserStart, BrowserStep, <1>1, PTL DEF BrowserSpec

\* The last step of a deletion opens for the account that left for the login, and no other.
THEOREM MarksStay == BrowserSpec => MarkStaysWithItsAccount
<1>1. ASSUME BrowserInv, BrowserInv', [BrowserNext]_bvars, page.step # "last", page'.step = "last", ~raced'
      PROVE  \E t \in trips : t.kind = "callback" /\ t.flow.marked /\ t.flow.left = t.who /\ t.who = jar'.who
    <2>0. page \in PageSet
        BY <1>1 DEF BrowserInv, BrowserTypes
    <2>1. PICK t \in trips : LoggedIn(t) /\ Marked(t)
        <3>1. /\ ~AskSession /\ ~AskThrough /\ ~Expire /\ ~KeyDies /\ ~OpenAnew /\ ~AskDeletion /\ ~DeleteAccount
              /\ \A here \in BOOLEAN : ~LogOut(here)
              /\ \A b \in BOOLEAN : ~LeaveForLogin(b)
              /\ \A who \in Accounts, here \in BOOLEAN : ~ComeBack(who, here)
            BY <1>1, <2>0 DEF AskSession, AskThrough, Expire, KeyDies, OpenAnew, AskDeletion, DeleteAccount, LogOut, LeaveForLogin,
                ComeBack, Leaves, Reload, NewPage, GoTo, PageSet
        <3>2. \A t \in trips : ~(SessionServed(t) \/ ProxyServed(t) \/ CallbackServed(t) \/ CallbackFails(t) \/ LogoutServed(t))
            BY <1>1 DEF SessionServed, ProxyServed, CallbackServed, CallbackFails, LogoutServed, Still
        <3>3. \A t \in trips : ~(SessionHeard(t) \/ AnswerHeard(t) \/ TripLost(t))
            BY <1>1, <2>0 DEF SessionHeard, AnswerHeard, TripLost, PageSet
        <3>4. \A t \in trips : ~(LoginFailed(t) \/ LoggedOut(t))
            BY <1>1 DEF LoginFailed, LoggedOut, Navigated, Reload, NewPage
        <3>5. \A t \in trips : ~DeletionHeard(t)
            <4> SUFFICES ASSUME NEW t \in trips, DeletionHeard(t) PROVE FALSE
                OBVIOUS
            <4>1. \/ page' = page
                  \/ page' = [page EXCEPT !.deleting = FALSE, !.step = "login"]
                  \/ page' = [page EXCEPT !.deleting = FALSE, !.step = page.step]
                BY DEF DeletionHeard
            <4> QED
                BY <1>1, <2>0, <4>1 DEF PageSet
        <3>6. ~UNCHANGED bvars
            BY <1>1 DEF bvars
        <3>7. PICK t \in trips : LoggedIn(t)
            BY <1>1, <3>1, <3>2, <3>3, <3>4, <3>5, <3>6, Zenon DEF BrowserNext
        <3>8. Marked(t)
            BY <1>1, <3>7 DEF LoggedIn, Navigated, Reload, NewPage
        <3> QED
            BY <3>7, <3>8
    <2>2. t.kind = "callback" /\ t.answer = "in" /\ jar' = t.sets /\ t.flow.marked /\ t.seal.who = t.who /\ ~raced
        BY <1>1, <2>1 DEF LoggedIn, Marked
    <2>3. t.who \in Accounts /\ t.sets.who = t.who
        BY <1>1, <2>2 DEF BrowserInv, AnswersTo
    <2>4. t.seal.who \in {t.flow.left, Noone}
        BY <1>1, <2>2 DEF BrowserInv, Begun
    <2>5. t.flow.left = t.who
        BY <2>2, <2>3, <2>4, NooneAssumption
    <2> QED
        BY <2>2, <2>3, <2>5
<1>2. BrowserInv /\ BrowserInv' /\ [BrowserNext]_bvars
      => [page.step # "last" /\ page'.step = "last" /\ ~raced' =>
            \E t \in trips : t.kind = "callback" /\ t.flow.marked /\ t.flow.left = t.who /\ t.who = jar'.who]_bvars
    BY <1>1
<1>3. BrowserSpec => []BrowserInv
    BY BrowserStart, BrowserStep, PTL DEF BrowserSpec
<1> QED
    BY <1>2, <1>3, PTL DEF BrowserSpec, MarkStaysWithItsAccount

\* At first the app is idle.
LEMMA AppStart == AppInit => AppInv
<1> SUFFICES ASSUME AppInit PROVE AppInv
    OBVIOUS
<1>1. app \in AppSet /\ app.shows = "nothing" /\ app.hands = 0 /\ ~app.profile
    BY DEF AppInit, Idle, AppSet
<1>2. chain \in Nat /\ appLogins \in Nat \ {0} /\ 0 \notin appKeys
    BY DEF AppInit
<1>3. outage \in BOOLEAN /\ lateName \in BOOLEAN /\ chain = appCurrent
    BY DEF AppInit
<1> QED
    BY <1>1, <1>2, <1>3 DEF AppInv, AppSessionStands

\* Every step of the app and of the services keeps what is known of its tokens.
LEMMA AppStep == AppInv /\ [AppNext]_avars => AppInv'
<1> SUFFICES ASSUME AppInv, [AppNext]_avars PROVE AppInv'
    OBVIOUS
<1>0. /\ app \in AppSet /\ chain \in Nat /\ appLogins \in Nat \ {0} /\ 0 \notin appKeys
      /\ outage \in BOOLEAN /\ lateName \in BOOLEAN
      /\ appCurrent \in appKeys /\ ~outage => chain = appCurrent
      /\ app.hands \in {0, chain} /\ (app.shows = "in" => app.hands # 0 \/ lateName) /\ (app.profile => app.hands # 0)
    BY DEF AppInv, AppSessionStands
<1> SUFFICES
      /\ app' \in AppSet
      /\ chain' \in Nat /\ appLogins' \in Nat \ {0} /\ 0 \notin appKeys' /\ outage' \in BOOLEAN /\ lateName' \in BOOLEAN
      /\ appCurrent' \in appKeys' /\ ~outage' => chain' = appCurrent'
      /\ app'.hands \in {0, chain'}
      /\ app'.shows = "in" => app'.hands # 0 \/ lateName'
      /\ app'.profile => app'.hands # 0
    BY DEF AppInv, AppSessionStands
<1> USE DEF AppSet
<1>1. CASE UNCHANGED avars
    BY <1>0, <1>1 DEF avars
<1>2. CASE AppRestore
    <2>1. \/ app' = [app EXCEPT !.shows = "out"] /\ chain = 0 /\ UNCHANGED <<chain, outage>>
          \/ app' = [app EXCEPT !.hands = chain, !.profile = TRUE] /\ chain # 0 /\ UNCHANGED <<chain, outage>>
          \/ app' = [app EXCEPT !.shows = "out"] /\ chain' = 0 /\ outage' = (outage \/ chain \in appKeys)
        BY <1>2 DEF AppRestore
    <2>2. UNCHANGED <<appKeys, appLogins, appCurrent, lateName>> /\ app.hands = 0 /\ ~app.profile
        BY <1>2 DEF AppRestore, Idle
    <2> QED
        BY <1>0, <2>1, <2>2
<1>3. CASE ProfileCame
    <2>1. app' \in AppSet /\ app'.shows = "in" /\ app'.hands = app.hands /\ app'.profile = FALSE /\ app.hands # 0
        BY <1>0, <1>3 DEF ProfileCame
    <2> QED
        BY <1>0, <1>3, <2>1 DEF ProfileCame
<1>4. CASE AppLogin
    <2>1. app' \in AppSet /\ app'.shows = app.shows /\ app'.hands = app.hands /\ app'.profile = app.profile
        BY <1>0, <1>4 DEF AppLogin
    <2>2. appLogins' \in Nat \ {0} /\ UNCHANGED <<chain, appKeys, appCurrent, outage, lateName>>
        BY <1>0, <1>4 DEF AppLogin
    <2> QED
        BY <1>0, <2>1, <2>2
<1>5. CASE Exchanged
    <2>1. app' \in AppSet /\ app'.shows = app.shows /\ app'.hands = appLogins /\ app'.profile = TRUE
        BY <1>0, <1>5 DEF Exchanged
    <2> QED
        BY <1>0, <1>5, <2>1 DEF Exchanged
<1>6. CASE ExchangeFails
    BY <1>0, <1>6 DEF ExchangeFails
<1>7. CASE AppLogout
    <2>1. app' \in AppSet /\ app'.shows = "out" /\ app'.hands = 0 /\ app'.profile = FALSE
        BY <1>0, <1>7 DEF AppLogout
    <2>2. chain' = 0 /\ appCurrent' = 0 /\ appKeys' \subseteq appKeys /\ UNCHANGED <<appLogins, outage, lateName>>
        BY <1>7 DEF AppLogout
    <2> QED
        BY <1>0, <2>1, <2>2
<1>8. CASE AppTurnedDown
    BY <1>0, <1>8 DEF AppTurnedDown
<1>9. CASE AskName
    <2>1. app' \in AppSet /\ app'.shows = app.shows /\ app'.hands = app.hands /\ app'.profile = app.profile
        BY <1>0, <1>9 DEF AskName
    <2> QED
        BY <1>0, <1>9, <2>1 DEF AskName
<1>10. CASE NameAnswered
    <2>1. PICK done \in BOOLEAN :
              /\ app' = [app EXCEPT !.naming = FALSE, !.shows = IF done THEN "in" ELSE app.shows]
              /\ lateName' = (lateName \/ (done /\ app.shows # "in"))
        BY <1>10 DEF NameAnswered
    <2>2. /\ app' \in AppSet /\ app'.hands = app.hands /\ app'.profile = app.profile
          /\ app'.shows = IF done THEN "in" ELSE app.shows
        BY <1>0, <2>1
    <2>3. UNCHANGED <<chain, appKeys, appLogins, appCurrent, outage>>
        BY <1>10 DEF NameAnswered
    <2>4. lateName' \in BOOLEAN /\ (done /\ app.shows # "in" => lateName') /\ (lateName => lateName')
        BY <1>0, <2>1
    <2> QED
        BY <1>0, <2>2, <2>3, <2>4
<1>11. CASE AppTurn
    <2>1. \/ app' \in AppSet /\ app'.shows = "nothing" /\ app'.hands = 0 /\ app'.profile = FALSE
          \/ app' = app
        <3>1. Idle \in AppSet /\ Idle.shows = "nothing" /\ Idle.hands = 0 /\ Idle.profile = FALSE
            BY DEF Idle
        <3>2. app' = Idle \/ app' = app
            BY <1>11 DEF AppTurn
        <3> QED
            BY <3>1, <3>2
    <2>2. appKeys' \subseteq appKeys /\ UNCHANGED <<chain, appLogins, appCurrent, outage, lateName>>
        BY <1>11 DEF AppTurn
    <2> QED
        BY <1>0, <2>1, <2>2
<1> QED
    BY <1>1, <1>2, <1>3, <1>4, <1>5, <1>6, <1>7, <1>8, <1>9, <1>10, <1>11 DEF AppNext

\* The app holds the last login while Keycloak takes its token, and shows what it holds.
THEOREM AppSessionsStand == AppSpec => []AppSessionStands
<1>1. AppInv => AppSessionStands
    BY DEF AppInv
<1> QED
    BY AppStart, AppStep, <1>1, PTL DEF AppSpec

\* In the browser and in the app alike a reader stays signed in until he or Keycloak ends it, and is not
\* shown signed in with nothing to show for it.
THEOREM SessionsStand == BrowserSpec /\ AppSpec => []SessionsAreKept
BY CookiesAreKept, AppSessionsStand, PTL DEF SessionsAreKept

----------------------------------------------------------------------------
(* What a reader writes (ReaderWriting).                                    *)

AnyText == Texts \union {"c"}
Drafts == [text : AnyText, old : BOOLEAN]
PendingKeys == [body : AnyText, key : Nat]
Failures == {"none", "rate", "parent", "restricted", "network"}
Forms == [on : BOOLEAN, inst : Nat, text : AnyText, unsaved : BOOLEAN, reading : Drafts, sending : BOOLEAN, failure : Failures,
          pending : PendingKeys, sent : BOOLEAN, restricted : BOOLEAN]
AnswerKinds == {"none", "401", "done", "restricted", "parent", "rate"}
Requests == [n : Nat, place : Places, inst : Nat, body : AnyText, key : Nat, answer : AnswerKinds, awaited : BOOLEAN]
Sends == [place : Places, inst : Nat, body : AnyText, key : Nat, over : BOOLEAN]
Posts == [n : Nat, inst : Nat, body : AnyText, key : Nat]

WritingTypes ==
    /\ client \in {"web", "mobile"} /\ signedIn \in BOOLEAN /\ tokenGood \in BOOLEAN
    /\ drafts \in [Kept -> Drafts] /\ forms \in [Places -> Forms] /\ made \in Nat /\ moves \in Nat
    /\ seed \in [text : AnyText, at : Nat] /\ taken \in Nat
    /\ requests \subseteq Requests /\ sends \in Seq(Sends) /\ heard \subseteq Nat /\ posted \in Seq(Posts)
    /\ parentGone \in BOOLEAN /\ banned \in BOOLEAN /\ shown \in AnyText /\ held \in AnyText

\* A text sent or written is one of those that left the device, under the key it left with
Of(x) == /\ x.n \in DOMAIN sends /\ sends[x.n].inst = x.inst /\ sends[x.n].body = x.body /\ sends[x.n].key = x.key
Recorded ==
    /\ \A r \in requests : Of(r) /\ sends[r.n].place = r.place
    /\ \A r, s \in requests : r.n = s.n => r = s
    /\ \A i \in DOMAIN posted : Of(posted[i]) /\ sends[posted[i].n].place \in Kept
    /\ \A i, j \in DOMAIN posted : posted[i].key = posted[j].key => i = j
    /\ heard \subseteq DOMAIN sends

\* A form is one of its own, and what it sent is its own
Instances ==
    /\ \A k \in DOMAIN sends : sends[k].inst <= made
    /\ \A p \in Places : forms[p].on => /\ forms[p].inst <= made
                                        /\ \A k \in DOMAIN sends : sends[k].inst = forms[p].inst => sends[k].place = p
    /\ \A p, q \in Places : forms[p].on /\ forms[q].on /\ forms[p].inst = forms[q].inst => p = q

\* A form that keeps a key keeps that of the last it sent, of which it was not told; one that keeps none was
\* told since all it sent. It waits for the last it sent and no other
Last(m, inst) == m \in DOMAIN sends /\ sends[m].inst = inst /\ \A k \in DOMAIN sends : k > m => sends[k].inst # inst
Remembers(p) ==
    IF forms[p].pending # NoKey
    THEN \E m \in DOMAIN sends : /\ Last(m, forms[p].inst) /\ m \notin heard
                                 /\ forms[p].pending.body = sends[m].body /\ forms[p].pending.key = sends[m].key
    ELSE \A i \in DOMAIN sends : sends[i].inst = forms[p].inst => \E k \in DOMAIN sends : k >= i /\ sends[k].inst = forms[p].inst /\ k \in heard
Remembered ==
    /\ \A p \in Kept : forms[p].on => Remembers(p)
    /\ \A p \in Places : \A r \in requests : r.awaited /\ forms[p].on /\ forms[p].inst = r.inst => forms[p].sending /\ Last(r.n, r.inst)

\* The same text sent again, with no other between and none told, is sent under one key
OneKey(i, j) == \A k \in i .. (j - 1) : sends[k].inst = sends[i].inst => sends[k].body = sends[j].body /\ k \notin heard
Keyed ==
    \A i, j \in DOMAIN sends : /\ i < j /\ sends[i].inst = sends[j].inst /\ sends[i].place \in Kept /\ OneKey(i, j)
                               => sends[i].key = sends[j].key

RetryInv == WritingTypes /\ Recorded /\ Instances /\ Remembered /\ Keyed

\* Unless one was sent over another, a correction is under way alone, and what the service holds is its text or the page's
Edits == {r \in requests : r.place = "edit"}
Corrected ==
    (\A k \in DOMAIN sends : ~sends[k].over) =>
        /\ \A r, s \in Edits : r = s
        /\ \A r \in Edits : r.answer = "done" => r.body = held
        /\ shown # held => \E r \in Edits : r.answer = "done"

\* The texts, the places and the empty values.
LEMMA WritingConstants ==
  /\ {"", "a", "a ", "b", "c"} = AnyText /\ Texts \subseteq AnyText /\ \A t \in AnyText : Body(t) \in AnyText
  /\ Kept = {"top", "reply"} /\ Places = {"top", "reply", "edit"} /\ Kept \subseteq Places
  /\ NoDraft \in Drafts /\ NoDraft.text = "" /\ ~NoDraft.old /\ NoKey \in PendingKeys /\ NoKey.body = "" /\ Body("") = ""
  /\ Off \in Forms /\ ~Off.on /\ ~Off.sending /\ Off.pending = NoKey /\ ~Off.sent /\ NoSeed \in [text : AnyText, at : Nat]
  <1>1. {"", "a", "a ", "b", "c"} = AnyText /\ Texts \subseteq AnyText /\ \A t \in AnyText : Body(t) \in AnyText
    BY DEF AnyText, Texts, Body
  <1>2. Kept = {"top", "reply"} /\ Places = {"top", "reply", "edit"} /\ Kept \subseteq Places
    BY DEF Kept, Places
  <1>3. NoDraft \in Drafts /\ NoDraft.text = "" /\ ~NoDraft.old /\ NoKey \in PendingKeys /\ NoKey.body = "" /\ Body("") = ""
    BY <1>1 DEF NoDraft, Drafts, NoKey, PendingKeys, Body
  <1>4. Off \in Forms /\ ~Off.on /\ ~Off.sending /\ Off.pending = NoKey /\ ~Off.sent
    BY <1>1, <1>3 DEF Off, Forms, Failures
  <1>5. NoSeed \in [text : AnyText, at : Nat]
    BY <1>1 DEF NoSeed
  <1> QED BY <1>1, <1>2, <1>3, <1>4, <1>5

\* The fields of the forms, of the requests and of what is drafted.
LEMMA WritingFields ==
  ASSUME WritingTypes
  PROVE  /\ \A p \in Places : /\ forms[p] \in Forms /\ forms[p].on \in BOOLEAN /\ forms[p].inst \in Nat /\ forms[p].text \in AnyText
                              /\ forms[p].sending \in BOOLEAN /\ forms[p].pending \in PendingKeys /\ forms[p].reading \in Drafts
                              /\ forms[p].sent \in BOOLEAN
         /\ \A p \in Kept : drafts[p] \in Drafts /\ drafts[p].text \in AnyText /\ drafts[p].old \in BOOLEAN
         /\ \A r \in requests : /\ r \in Requests /\ r.n \in Nat /\ r.place \in Places /\ r.inst \in Nat /\ r.body \in AnyText
                                /\ r.key \in Nat /\ r.awaited \in BOOLEAN /\ r.answer \in AnswerKinds
         /\ \A k \in DOMAIN sends : /\ sends[k] \in Sends /\ sends[k].inst \in Nat /\ sends[k].body \in AnyText
                                    /\ sends[k].key \in Nat /\ sends[k].place \in Places
         /\ DOMAIN sends = 1 .. Len(sends) /\ Len(sends) \in Nat
         /\ seed.text \in AnyText /\ seed.at \in Nat
  <1>1. \A p \in Places : forms[p] \in Forms
    BY DEF WritingTypes
  <1>2. \A f \in Forms : /\ f.on \in BOOLEAN /\ f.inst \in Nat /\ f.text \in AnyText /\ f.sending \in BOOLEAN /\ f.pending \in PendingKeys
                         /\ f.reading \in Drafts /\ f.sent \in BOOLEAN
    BY DEF Forms
  <1>3. \A p \in Kept : drafts[p] \in Drafts /\ drafts[p].text \in AnyText /\ drafts[p].old \in BOOLEAN
    BY DEF WritingTypes, Drafts
  <1>4. \A r \in requests : /\ r \in Requests /\ r.n \in Nat /\ r.place \in Places /\ r.inst \in Nat /\ r.body \in AnyText
                            /\ r.key \in Nat /\ r.awaited \in BOOLEAN /\ r.answer \in AnswerKinds
    BY DEF WritingTypes, Requests
  <1>5. \A k \in DOMAIN sends : sends[k] \in Sends
    BY DEF WritingTypes
  <1>6. \A s \in Sends : s.inst \in Nat /\ s.body \in AnyText /\ s.key \in Nat /\ s.place \in Places
    BY DEF Sends
  <1>7. DOMAIN sends = 1 .. Len(sends) /\ Len(sends) \in Nat
    BY DEF WritingTypes
  <1>8. seed.text \in AnyText /\ seed.at \in Nat
    BY DEF WritingTypes
  <1> QED BY <1>1, <1>2, <1>3, <1>4, <1>5, <1>6, <1>7, <1>8

\* What saving does to the drafts.
LEMMA SavedMakes ==
  ASSUME NEW ds \in [Kept -> Drafts], NEW p \in Places, NEW text \in AnyText
  PROVE  /\ Saved(ds, p, text) \in [Kept -> Drafts]
         /\ \A q \in Kept : q # p => Saved(ds, p, text)[q] = ds[q]
         /\ p \in Kept /\ Body(text) # "" => Saved(ds, p, text)[p] = [text |-> text, old |-> FALSE] /\ Saved(ds, p, text)[p].text = text
         /\ Cleared(ds, p) \in [Kept -> Drafts] /\ \A q \in Kept : Cleared(ds, p)[q] = IF q = p THEN NoDraft ELSE ds[q]
  <1>1. [text |-> text, old |-> FALSE] \in Drafts /\ [text |-> text, old |-> FALSE].text = text
    BY DEF Drafts
  <1>2. PICK d \in Drafts : d = IF Body(text) = "" THEN NoDraft ELSE [text |-> text, old |-> FALSE]
    BY <1>1, WritingConstants
  <1>3. Saved(ds, p, text) = IF p \notin Kept THEN ds ELSE [ds EXCEPT ![p] = d]
    BY <1>2 DEF Saved
  <1>4. Cleared(ds, p) = IF p \notin Kept THEN ds ELSE [ds EXCEPT ![p] = NoDraft]
    BY WritingConstants DEF Cleared, Saved
  <1>5. NoDraft \in Drafts
    BY WritingConstants
  <1> QED BY <1>1, <1>2, <1>3, <1>4, <1>5

\* Forms that go save the last of their typing, and stand no more.
LEMMA GoneMakes ==
  ASSUME WritingTypes, NEW ds \in [Kept -> Drafts], NEW gone \in SUBSET Places
  PROVE  /\ LastSaved(ds, gone) \in [Kept -> Drafts]
         /\ \A p \in Kept : LastSaved(ds, gone)[p] = IF p \in gone /\ forms[p].on /\ ~forms[p].sent THEN Saved(ds, p, forms[p].text)[p] ELSE ds[p]
         /\ Gone(gone) \in [Places -> Forms] /\ \A p \in Places : Gone(gone)[p] = IF p \in gone THEN Off ELSE forms[p]
  <1>1. \A p \in Kept : Saved(ds, p, forms[p].text)[p] \in Drafts
    <2>1. SUFFICES ASSUME NEW p \in Kept PROVE Saved(ds, p, forms[p].text)[p] \in Drafts
      OBVIOUS
    <2>2. p \in Places /\ forms[p].text \in AnyText
      BY WritingConstants, WritingFields
    <2>3. Saved(ds, p, forms[p].text) \in [Kept -> Drafts]
      BY <2>2, SavedMakes
    <2> QED BY <2>3
  <1>2. LastSaved(ds, gone) \in [Kept -> Drafts]
    BY <1>1 DEF LastSaved
  <1>3. \A p \in Kept : LastSaved(ds, gone)[p] = IF p \in gone /\ forms[p].on /\ ~forms[p].sent THEN Saved(ds, p, forms[p].text)[p] ELSE ds[p]
    BY DEF LastSaved
  <1>4. Gone(gone) \in [Places -> Forms] /\ \A p \in Places : Gone(gone)[p] = IF p \in gone THEN Off ELSE forms[p]
    BY WritingConstants, WritingFields DEF Gone
  <1> QED BY <1>2, <1>3, <1>4

\* A step in which nothing is sent, written or told and no form is put up: what is under way comes from what was, and a form
\* that still stands keeps its key, and waits as it did unless what it waited for is over
Quiet ==
    /\ made' = made /\ sends' = sends /\ heard' = heard /\ posted' = posted
    /\ \A s \in requests' : \E r \in requests : /\ s.n = r.n /\ s.place = r.place /\ s.inst = r.inst /\ s.body = r.body
                                                /\ s.key = r.key /\ (s.awaited => r.awaited)
    /\ \A s, t \in requests' : s.n = t.n => s = t
    /\ \A p \in Places : forms'[p].on =>
          /\ forms[p].on /\ forms'[p].inst = forms[p].inst /\ forms'[p].pending = forms[p].pending
          /\ forms'[p].sending = forms[p].sending \/ \A s \in requests' : s.awaited => s.inst # forms[p].inst

\* A quiet step leaves what is known of the keys as it was.
LEMMA QuietKeeps ==
  ASSUME RetryInv, Quiet
  PROVE  Recorded' /\ Instances' /\ Remembered' /\ Keyed'
  <1>1. made' = made /\ sends' = sends /\ heard' = heard /\ posted' = posted
    BY DEF Quiet
  <1>2. \A s \in requests' : \E r \in requests : /\ s.n = r.n /\ s.place = r.place /\ s.inst = r.inst /\ s.body = r.body
                                                 /\ s.key = r.key /\ (s.awaited => r.awaited)
    BY DEF Quiet
  <1>3. \A p \in Places : forms'[p].on =>
          /\ forms[p].on /\ forms'[p].inst = forms[p].inst /\ forms'[p].pending = forms[p].pending
          /\ forms'[p].sending = forms[p].sending \/ \A s \in requests' : s.awaited => s.inst # forms[p].inst
    BY DEF Quiet
  <1>4. Recorded'
    <2>1. \A s \in requests' : Of(s)' /\ (sends[s.n].place = s.place)'
      <3>1. SUFFICES ASSUME NEW s \in requests' PROVE Of(s)' /\ sends'[s.n].place = s.place
        OBVIOUS
      <3>2. PICK r \in requests : s.n = r.n /\ s.place = r.place /\ s.inst = r.inst /\ s.body = r.body /\ s.key = r.key
        BY <1>2
      <3>3. Of(r) /\ sends[r.n].place = r.place
        BY DEF RetryInv, Recorded
      <3> QED BY <1>1, <3>2, <3>3 DEF Of
    <2>2. \A s, t \in requests' : s.n = t.n => s = t
      BY DEF Quiet
    <2>3. \A i \in DOMAIN posted : Of(posted[i]) /\ sends[posted[i].n].place \in Kept
      BY DEF RetryInv, Recorded
    <2>4. (\A i \in DOMAIN posted : Of(posted[i]) /\ sends[posted[i].n].place \in Kept)'
      BY <1>1, <2>3 DEF Of
    <2>5. (\A i, j \in DOMAIN posted : posted[i].key = posted[j].key => i = j)'
      BY <1>1 DEF RetryInv, Recorded
    <2>6. (heard \subseteq DOMAIN sends)'
      BY <1>1 DEF RetryInv, Recorded
    <2> QED BY <2>1, <2>2, <2>4, <2>5, <2>6 DEF Recorded
  <1>5. Instances'
    BY <1>1, <1>3 DEF RetryInv, Instances
  <1>6. \A m, i : Last(m, i)' <=> Last(m, i)
    BY <1>1 DEF Last
  <1>7. (\A p \in Kept : forms[p].on => Remembers(p))'
    <2>1. SUFFICES ASSUME NEW p \in Kept, forms'[p].on PROVE Remembers(p)'
      OBVIOUS
    <2>2. p \in Places
      BY WritingConstants
    <2>3. forms[p].on /\ forms'[p].inst = forms[p].inst /\ forms'[p].pending = forms[p].pending
      BY <1>3, <2>1, <2>2
    <2>4. Remembers(p)
      BY <2>3 DEF RetryInv, Remembered
    <2> QED BY <1>1, <2>3, <2>4 DEF Remembers, Last
  <1>8. (\A p \in Places : \A r \in requests : r.awaited /\ forms[p].on /\ forms[p].inst = r.inst => forms[p].sending /\ Last(r.n, r.inst))'
    <2>1. SUFFICES ASSUME NEW p \in Places, NEW s \in requests', s.awaited, forms'[p].on, forms'[p].inst = s.inst
                   PROVE  forms'[p].sending /\ Last(s.n, s.inst)'
      OBVIOUS
    <2>2. forms[p].on /\ forms'[p].inst = forms[p].inst /\ forms'[p].sending = forms[p].sending
      BY <1>3, <2>1
    <2>3. PICK r \in requests : s.n = r.n /\ s.inst = r.inst /\ (s.awaited => r.awaited)
      BY <1>2
    <2>4. forms[p].sending /\ Last(r.n, r.inst)
      BY <2>1, <2>2, <2>3 DEF RetryInv, Remembered
    <2> QED BY <1>1, <2>2, <2>3, <2>4 DEF Last
  <1>9. Keyed'
    BY <1>1 DEF RetryInv, Keyed, OneKey
  <1> QED BY <1>4, <1>5, <1>7, <1>8, <1>9 DEF Remembered

\* Of the requests of a form only one is waited for.
LEMMA OneAwaited ==
  ASSUME RetryInv, NEW p \in Places, forms[p].on, NEW r \in requests, NEW s \in requests,
         r.awaited, s.awaited, r.inst = forms[p].inst, s.inst = forms[p].inst
  PROVE  r = s
  <1>1. Last(r.n, r.inst) /\ Last(s.n, r.inst)
    BY DEF RetryInv, Remembered
  <1>2. r.n \in Nat /\ s.n \in Nat
    BY WritingFields DEF RetryInv
  <1>3. r.n = s.n
    BY <1>1, <1>2 DEF Last
  <1> QED BY <1>3 DEF RetryInv, Recorded

\* Requests that stay as they are, or fewer of them, are those of a quiet step.
LEMMA FewerAreQuiet ==
  ASSUME RetryInv, requests' \subseteq requests
  PROVE  /\ \A s \in requests' : \E r \in requests : /\ s.n = r.n /\ s.place = r.place /\ s.inst = r.inst /\ s.body = r.body
                                                     /\ s.key = r.key /\ (s.awaited => r.awaited)
         /\ \A s, t \in requests' : s.n = t.n => s = t
  BY DEF RetryInv, Recorded

\* A draft read by the app's store, a text typed and a draft saved.
LEMMA FieldKeeps ==
  ASSUME RetryInv, NEW p \in Places,
         (p \in Kept /\ DraftRead(p)) \/ (\E t \in Texts : TypeText(p, t)) \/ SaveDraft(p)
  PROVE  WritingTypes' /\ Quiet
  <1>1. WritingTypes
    BY DEF RetryInv
  <1>2. /\ forms[p] \in Forms /\ forms[p].text \in AnyText /\ forms[p].reading \in Drafts /\ forms \in [Places -> Forms]
        /\ drafts \in [Kept -> Drafts]
    BY <1>1, WritingFields DEF WritingTypes
  <1>3. forms[p].reading.text \in AnyText /\ NoDraft \in Drafts /\ Texts \subseteq AnyText
    BY <1>2, WritingConstants DEF Drafts
  <1>4. /\ requests' = requests /\ sends' = sends /\ heard' = heard /\ posted' = posted /\ made' = made
        /\ UNCHANGED <<client, signedIn, tokenGood, seed, taken, parentGone, banned, shown, held>>
    BY DEF DraftRead, TypeText, SaveDraft, device
  <1>5. moves' \in Nat
    <2>1. moves \in Nat
      BY <1>1 DEF WritingTypes
    <2>2. moves' = moves \/ moves' = moves + 1
      BY DEF DraftRead, TypeText, SaveDraft, device, Moves
    <2> QED BY <2>1, <2>2
  <1>6. \E t \in AnyText, d \in Drafts, b \in BOOLEAN :
           forms' = [forms EXCEPT ![p].text = t, ![p].reading = d, ![p].unsaved = b]
    <2>1. CASE DraftRead(p)
      BY <2>1, <1>2, <1>3 DEF DraftRead
    <2>2. CASE \E t \in Texts : TypeText(p, t)
      <3>1. PICK t \in Texts : forms' = [forms EXCEPT ![p].text = t, ![p].unsaved = p \in Kept]
        BY <2>2 DEF TypeText
      <3>2. forms' = [forms EXCEPT ![p].text = t, ![p].reading = forms[p].reading, ![p].unsaved = p \in Kept]
        BY <3>1, <1>2 DEF Forms
      <3>3. (p \in Kept) \in BOOLEAN
        OBVIOUS
      <3> QED BY <3>2, <3>3, <1>2, <1>3
    <2>3. CASE SaveDraft(p)
      <3>1. forms' = [forms EXCEPT ![p].text = forms[p].text, ![p].reading = forms[p].reading, ![p].unsaved = FALSE]
        BY <2>3, <1>2 DEF SaveDraft, Forms
      <3> QED BY <3>1, <1>2
    <2> QED BY <2>1, <2>2, <2>3
  <1>7. PICK t \in AnyText, d \in Drafts, b \in BOOLEAN : forms' = [forms EXCEPT ![p].text = t, ![p].reading = d, ![p].unsaved = b]
    BY <1>6
  <1>8. forms' \in [Places -> Forms]
    BY <1>2, <1>7 DEF Forms
  <1>9. \A q \in Places : forms'[q].on = forms[q].on /\ forms'[q].inst = forms[q].inst /\ forms'[q].pending = forms[q].pending
                          /\ forms'[q].sending = forms[q].sending
    BY <1>2, <1>7 DEF Forms
  <1>10. drafts' \in [Kept -> Drafts]
    <2>1. Saved(drafts, p, forms[p].text) \in [Kept -> Drafts]
      BY <1>2, SavedMakes
    <2> QED BY <2>1, <1>2 DEF DraftRead, TypeText, SaveDraft, device
  <1>11. WritingTypes'
    BY <1>1, <1>4, <1>5, <1>8, <1>10 DEF WritingTypes
  <1>12. Quiet
    BY <1>4, <1>9, FewerAreQuiet DEF Quiet
  <1> QED BY <1>11, <1>12

\* A form that goes.
LEMMA LeaveKeeps ==
  ASSUME RetryInv, NEW p \in Places, Leave(p)
  PROVE  WritingTypes' /\ Quiet
  <1>1. WritingTypes
    BY DEF RetryInv
  <1>2. LastSaved(drafts, {p}) \in [Kept -> Drafts] /\ Gone({p}) \in [Places -> Forms]
        /\ \A q \in Places : Gone({p})[q] = IF q \in {p} THEN Off ELSE forms[q]
    <2>1. drafts \in [Kept -> Drafts] /\ {p} \in SUBSET Places
      BY <1>1 DEF WritingTypes
    <2> QED BY <1>1, <2>1, GoneMakes
  <1>3. /\ requests' = requests /\ sends' = sends /\ heard' = heard /\ posted' = posted /\ made' = made
        /\ UNCHANGED <<client, signedIn, tokenGood, seed, taken, parentGone, banned, shown, held>>
        /\ moves' = moves + 1 /\ drafts' = LastSaved(drafts, {p}) /\ forms' = Gone({p})
    BY DEF Leave, Moves
  <1>4. WritingTypes'
    <2>1. moves' \in Nat
      BY <1>1, <1>3 DEF WritingTypes
    <2> QED BY <1>1, <1>2, <1>3, <2>1 DEF WritingTypes
  <1>5. \A q \in Places : forms'[q].on => forms'[q] = forms[q]
    BY <1>2, <1>3, WritingConstants
  <1>6. Quiet
    BY <1>3, <1>5, FewerAreQuiet DEF Quiet
  <1> QED BY <1>4, <1>6

\* The page goes.
LEMMA PageGoneKeeps ==
  ASSUME RetryInv, PageGone
  PROVE  WritingTypes' /\ Quiet
  <1>1. WritingTypes
    BY DEF RetryInv
  <1>2. /\ sends' = sends /\ heard' = heard /\ posted' = posted /\ made' = made
        /\ UNCHANGED <<client, tokenGood, drafts, parentGone, banned, held>>
        /\ moves' = moves + 1 /\ seed' = NoSeed /\ taken' = 0 /\ signedIn' = tokenGood /\ shown' = held
        /\ forms' = [p \in Places |-> Off] /\ requests' = {[r EXCEPT !.awaited = FALSE] : r \in requests}
    BY DEF PageGone, Moves
  <1>3. \A r \in requests : /\ [r EXCEPT !.awaited = FALSE] \in Requests
                            /\ [r EXCEPT !.awaited = FALSE].n = r.n /\ [r EXCEPT !.awaited = FALSE].place = r.place
                            /\ [r EXCEPT !.awaited = FALSE].inst = r.inst /\ [r EXCEPT !.awaited = FALSE].body = r.body
                            /\ [r EXCEPT !.awaited = FALSE].key = r.key /\ [r EXCEPT !.awaited = FALSE].awaited = FALSE
    BY <1>1 DEF WritingTypes, Requests
  <1>4. WritingTypes'
    <2>1. moves' \in Nat /\ taken' \in Nat
      BY <1>1, <1>2 DEF WritingTypes
    <2>2. requests' \subseteq Requests
      BY <1>2, <1>3
    <2>3. forms' \in [Places -> Forms] /\ seed' \in [text : AnyText, at : Nat]
      BY <1>2, WritingConstants
    <2>4. signedIn' \in BOOLEAN /\ shown' \in AnyText
      BY <1>1, <1>2 DEF WritingTypes
    <2> QED BY <1>1, <1>2, <2>1, <2>2, <2>3, <2>4 DEF WritingTypes
  <1>5. \A s \in requests' : \E r \in requests : /\ s.n = r.n /\ s.place = r.place /\ s.inst = r.inst /\ s.body = r.body
                                                 /\ s.key = r.key /\ (s.awaited => r.awaited) /\ s = [r EXCEPT !.awaited = FALSE]
    BY <1>2, <1>3
  <1>6. \A s, t \in requests' : s.n = t.n => s = t
    <2>1. SUFFICES ASSUME NEW s \in requests', NEW t \in requests', s.n = t.n PROVE s = t
      OBVIOUS
    <2>2. PICK q \in requests : s.n = q.n /\ s = [q EXCEPT !.awaited = FALSE]
      BY <1>5
    <2>3. PICK r \in requests : t.n = r.n /\ t = [r EXCEPT !.awaited = FALSE]
      BY <1>5
    <2>4. q = r
      BY <2>1, <2>2, <2>3 DEF RetryInv, Recorded
    <2> QED BY <2>2, <2>3, <2>4
  <1>7. \A q \in Places : ~forms'[q].on
    BY <1>2, WritingConstants
  <1> QED BY <1>2, <1>4, <1>5, <1>6, <1>7 DEF Quiet

\* A reply handed over to the form for comments.
LEMMA HandOverKeeps ==
  ASSUME RetryInv, PostAsNew
  PROVE  WritingTypes' /\ Quiet
  <1>1. WritingTypes
    BY DEF RetryInv
  <1>2. /\ requests' = requests /\ sends' = sends /\ heard' = heard /\ posted' = posted /\ made' = made /\ moves' = moves
        /\ UNCHANGED <<client, signedIn, tokenGood, parentGone, banned, shown, held>>
        /\ drafts' = Cleared(drafts, "reply") /\ seed' = [text |-> forms["reply"].text, at |-> seed.at + 1]
        /\ taken' = IF forms["top"].on THEN 1 ELSE 0
    BY DEF PostAsNew
  <1>3. /\ forms["reply"].text \in AnyText /\ "reply" \in Places /\ "top" \in Places /\ forms \in [Places -> Forms] /\ "reply" \in Kept
        /\ Off \in Forms /\ ~Off.on /\ seed.at \in Nat
    BY <1>1, WritingConstants, WritingFields DEF WritingTypes
  <1>4. forms' = [forms EXCEPT !["reply"] = Off,
                     !["top"] = IF forms["top"].on THEN [@ EXCEPT !.text = forms["reply"].text, !.unsaved = TRUE] ELSE @]
    BY DEF PostAsNew
  <1>5. PICK w : w = [forms["top"] EXCEPT !.text = forms["reply"].text, !.unsaved = TRUE]
    OBVIOUS
  <1>6. forms["top"] \in Forms
    BY <1>3
  <1>7. w \in Forms /\ w.on = forms["top"].on /\ w.inst = forms["top"].inst /\ w.pending = forms["top"].pending
        /\ w.sending = forms["top"].sending
    BY <1>3, <1>5, <1>6 DEF Forms
  <1>8. forms' = [forms EXCEPT !["reply"] = Off, !["top"] = IF forms["top"].on THEN w ELSE forms["top"]]
    BY <1>3, <1>4, <1>5
  <1>9. forms' \in [Places -> Forms]
    BY <1>3, <1>7, <1>8
  <1>10. \A q \in Places : /\ q # "reply" => /\ forms'[q].on = forms[q].on /\ forms'[q].inst = forms[q].inst
                                             /\ forms'[q].pending = forms[q].pending /\ forms'[q].sending = forms[q].sending
                           /\ q = "reply" => ~forms'[q].on
    BY <1>3, <1>7, <1>8
  <1>11. drafts' \in [Kept -> Drafts]
    <2>1. drafts \in [Kept -> Drafts] /\ "" \in AnyText
      BY <1>1, WritingConstants DEF WritingTypes
    <2> QED BY <1>2, <1>3, <2>1, SavedMakes DEF Cleared
  <1>12. seed' \in [text : AnyText, at : Nat] /\ taken' \in Nat
    BY <1>2, <1>3
  <1>13. WritingTypes'
    BY <1>1, <1>2, <1>9, <1>11, <1>12 DEF WritingTypes
  <1>14. Quiet
    BY <1>2, <1>10, FewerAreQuiet DEF Quiet
  <1> QED BY <1>13, <1>14

\* What happens around the reader, and signing in.
LEMMA TurnKeeps ==
  ASSUME RetryInv, Turn \/ SignIn
  PROVE  WritingTypes' /\ Quiet
  <1>1. WritingTypes
    BY DEF RetryInv
  <1>2. /\ requests' = requests /\ sends' = sends /\ heard' = heard /\ posted' = posted /\ made' = made /\ forms' = forms
        /\ UNCHANGED <<client, taken, shown, held>> /\ moves' = moves + 1
    BY DEF Turn, SignIn, Moves
  <1>3. moves' \in Nat
    BY <1>1, <1>2 DEF WritingTypes
  <1>4. seed' \in [text : AnyText, at : Nat]
    BY <1>1, WritingConstants DEF Turn, SignIn, WritingTypes
  <1>5. /\ drafts \in [Kept -> Drafts] /\ \A p \in Kept : (IF drafts[p] = NoDraft THEN NoDraft ELSE [drafts[p] EXCEPT !.old = TRUE]) \in Drafts
    <2>1. \A p \in Kept : drafts[p] \in Drafts
      BY <1>1, WritingFields
    <2>2. \A d \in Drafts : [d EXCEPT !.old = TRUE] \in Drafts
      BY DEF Drafts
    <2> QED BY <1>1, <2>1, <2>2, WritingConstants DEF WritingTypes
  <1>6. drafts' \in [Kept -> Drafts]
    <2>1. \/ drafts' = drafts
          \/ drafts' = [p \in Kept |-> IF drafts[p] = NoDraft THEN NoDraft ELSE [drafts[p] EXCEPT !.old = TRUE]]
      BY DEF Turn, SignIn
    <2> QED BY <1>5, <2>1
  <1>7. signedIn' \in BOOLEAN /\ tokenGood' \in BOOLEAN /\ parentGone' \in BOOLEAN /\ banned' \in BOOLEAN
    BY <1>1 DEF Turn, SignIn, WritingTypes
  <1>8. WritingTypes'
    BY <1>1, <1>2, <1>3, <1>4, <1>6, <1>7 DEF WritingTypes
  <1>9. Quiet
    BY <1>2, FewerAreQuiet DEF Quiet
  <1> QED BY <1>8, <1>9

\* The session is over.
LEMMA SessionOverKeeps ==
  ASSUME RetryInv, NEW r \in requests, SessionOver(r)
  PROVE  WritingTypes' /\ Quiet
  <1>1. WritingTypes
    BY DEF RetryInv
  <1>2. LastSaved(drafts, Kept) \in [Kept -> Drafts] /\ Gone(Places) \in [Places -> Forms]
        /\ \A q \in Places : Gone(Places)[q] = IF q \in Places THEN Off ELSE forms[q]
    <2>1. drafts \in [Kept -> Drafts] /\ Kept \in SUBSET Places /\ Places \in SUBSET Places
      BY <1>1, WritingConstants DEF WritingTypes
    <2> QED BY <1>1, <2>1, GoneMakes
  <1>3. /\ requests' = requests \ {r} /\ sends' = sends /\ heard' = heard /\ posted' = posted /\ made' = made /\ moves' = moves
        /\ UNCHANGED <<client, tokenGood, seed, taken, parentGone, banned, shown, held>>
        /\ signedIn' = FALSE /\ drafts' = LastSaved(drafts, Kept) /\ forms' = Gone(Places)
    BY DEF SessionOver
  <1>4. requests' \subseteq requests /\ requests' \subseteq Requests
    BY <1>1, <1>3 DEF WritingTypes
  <1>5. WritingTypes'
    BY <1>1, <1>2, <1>3, <1>4 DEF WritingTypes
  <1>6. \A q \in Places : ~forms'[q].on
    BY <1>2, <1>3, WritingConstants
  <1>7. Quiet
    BY <1>3, <1>4, <1>6, FewerAreQuiet DEF Quiet
  <1> QED BY <1>5, <1>7

\* The correction is answered.
LEMMA EditedKeeps ==
  ASSUME RetryInv, NEW r \in requests, Edited(r)
  PROVE  WritingTypes' /\ Quiet
  <1>1. WritingTypes
    BY DEF RetryInv
  <1>2. Gone({"edit"}) \in [Places -> Forms] /\ \A q \in Places : Gone({"edit"})[q] = IF q \in {"edit"} THEN Off ELSE forms[q]
    <2>1. drafts \in [Kept -> Drafts] /\ {"edit"} \in SUBSET Places
      BY <1>1, WritingConstants DEF WritingTypes
    <2> QED BY <1>1, <2>1, GoneMakes
  <1>3. /\ requests' = requests \ {r} /\ sends' = sends /\ heard' = heard /\ posted' = posted /\ made' = made
        /\ UNCHANGED <<client, signedIn, tokenGood, drafts, moves, seed, taken, parentGone, banned, held>>
        /\ shown' = r.body /\ forms' = Gone({"edit"})
    BY DEF Edited, device
  <1>4. requests' \subseteq requests /\ requests' \subseteq Requests /\ shown' \in AnyText
    BY <1>1, <1>3, WritingFields DEF WritingTypes
  <1>5. WritingTypes'
    BY <1>1, <1>2, <1>3, <1>4 DEF WritingTypes
  <1>6. \A q \in Places : forms'[q].on => forms'[q] = forms[q]
    BY <1>2, <1>3, WritingConstants
  <1>7. Quiet
    BY <1>3, <1>4, <1>6, FewerAreQuiet DEF Quiet
  <1> QED BY <1>5, <1>7

\* Requests of which one is no longer waited for, or answered, are those of a quiet step.
LEMMA OneTurnsQuietly ==
  ASSUME RetryInv, NEW r \in requests, NEW w \in Requests, w.n = r.n, w.place = r.place, w.inst = r.inst, w.body = r.body,
         w.key = r.key, w.awaited => r.awaited, requests' = (requests \ {r}) \union {w}
  PROVE  /\ \A s \in requests' : \E q \in requests : /\ s.n = q.n /\ s.place = q.place /\ s.inst = q.inst /\ s.body = q.body
                                                     /\ s.key = q.key /\ (s.awaited => q.awaited)
         /\ \A s, t \in requests' : s.n = t.n => s = t
         /\ requests' \subseteq Requests
  <1>1. \A q, s \in requests : q.n = s.n => q = s
    BY DEF RetryInv, Recorded
  <1>2. requests \subseteq Requests
    BY DEF RetryInv, WritingTypes
  <1> QED BY <1>1, <1>2

\* A refusal, and an answer given up on: the form that waits for it waits no more.
LEMMA RefusedKeeps ==
  ASSUME RetryInv, NEW r \in requests, Refused(r) \/ GivenUp(r)
  PROVE  WritingTypes' /\ Quiet
  <1>1. WritingTypes
    BY DEF RetryInv
  <1>2. /\ sends' = sends /\ heard' = heard /\ posted' = posted /\ made' = made
        /\ UNCHANGED <<client, signedIn, tokenGood, drafts, moves, seed, taken, parentGone, banned, shown, held>>
    BY DEF Refused, GivenUp, device
  <1>3. r \in Requests /\ r.n \in Nat /\ r.place \in Places /\ r.awaited /\ forms \in [Places -> Forms] /\ r.answer \in AnswerKinds
    BY <1>1, WritingFields DEF Refused, GivenUp, Waiting, WritingTypes
  <1>4. /\ \A s \in requests' : \E q \in requests : /\ s.n = q.n /\ s.place = q.place /\ s.inst = q.inst /\ s.body = q.body
                                                    /\ s.key = q.key /\ (s.awaited => q.awaited)
        /\ \A s, t \in requests' : s.n = t.n => s = t
        /\ requests' \subseteq Requests
        /\ \A s \in requests' : s.awaited => s \in requests /\ s # r
    <2>1. CASE Refused(r)
      <3>1. requests' = requests \ {r}
        BY <2>1 DEF Refused
      <3>2. requests' \subseteq requests
        BY <3>1
      <3> QED BY <3>1, <3>2, <1>1, FewerAreQuiet DEF WritingTypes
    <2>2. CASE GivenUp(r)
      <3>1. PICK w : w = [r EXCEPT !.awaited = FALSE]
        OBVIOUS
      <3>2. w \in Requests /\ w.n = r.n /\ w.place = r.place /\ w.inst = r.inst /\ w.body = r.body /\ w.key = r.key /\ w.awaited = FALSE
        BY <1>3, <3>1 DEF Requests
      <3>3. requests' = (requests \ {r}) \union {w}
        BY <2>2, <3>1 DEF GivenUp
      <3> QED BY <3>2, <3>3, OneTurnsQuietly
    <2> QED BY <2>1, <2>2
  <1>5. \E b \in BOOLEAN, f \in Failures :
           forms' = IF ~Live(r) THEN forms ELSE [forms EXCEPT ![r.place].sending = FALSE, ![r.place].restricted = b, ![r.place].failure = f]
    <2>1. CASE Refused(r)
      <3>1. r.answer \in Failures
        BY <2>1 DEF Refused, Failures
      <3>2. (r.answer = "restricted" /\ r.place \in Kept) \in BOOLEAN
        OBVIOUS
      <3>3. forms' = IF ~Live(r) THEN forms
                     ELSE [forms EXCEPT ![r.place].sending = FALSE, ![r.place].restricted = r.answer = "restricted" /\ r.place \in Kept,
                                        ![r.place].failure = r.answer]
        BY <2>1 DEF Refused
      <3> QED BY <3>1, <3>2, <3>3
    <2>2. CASE GivenUp(r)
      <3>1. forms[r.place].restricted \in BOOLEAN /\ "network" \in Failures
        BY <1>3 DEF Forms, Failures
      <3>2. forms' = IF ~Live(r) THEN forms
                     ELSE [forms EXCEPT ![r.place].sending = FALSE, ![r.place].restricted = forms[r.place].restricted,
                                        ![r.place].failure = "network"]
        BY <1>3, <2>2 DEF GivenUp, Forms
      <3> QED BY <3>1, <3>2
    <2> QED BY <2>1, <2>2
  <1>6. PICK b \in BOOLEAN, f \in Failures :
           forms' = IF ~Live(r) THEN forms ELSE [forms EXCEPT ![r.place].sending = FALSE, ![r.place].restricted = b, ![r.place].failure = f]
    BY <1>5
  <1>7. forms' \in [Places -> Forms]
    <2>1. PICK w : w = [forms[r.place] EXCEPT !.sending = FALSE, !.restricted = b, !.failure = f]
      OBVIOUS
    <2>2. forms[r.place] \in Forms
      BY <1>3
    <2>3. w \in Forms
      BY <1>6, <2>1, <2>2 DEF Forms
    <2>4. forms' = forms \/ forms' = [forms EXCEPT ![r.place] = w]
      BY <1>3, <1>6, <2>1
    <2> QED BY <1>3, <2>3, <2>4
  <1>8. \A p \in Places : /\ forms'[p].on = forms[p].on /\ forms'[p].inst = forms[p].inst /\ forms'[p].pending = forms[p].pending
                          /\ forms'[p].sending = forms[p].sending \/ (Live(r) /\ p = r.place)
    BY <1>3, <1>6 DEF Forms
  <1>9. \A p \in Places : forms'[p].on => forms'[p].sending = forms[p].sending \/ \A s \in requests' : s.awaited => s.inst # forms[p].inst
    <2>1. SUFFICES ASSUME NEW p \in Places, Live(r), p = r.place, NEW s \in requests', s.awaited, s.inst = forms[p].inst PROVE FALSE
      BY <1>8
    <2>2. forms[p].on /\ forms[p].inst = r.inst
      BY <2>1 DEF Live
    <2>3. s \in requests /\ s # r
      BY <1>4, <2>1
    <2>4. r = s
      BY <1>3, <2>1, <2>2, <2>3, OneAwaited
    <2> QED BY <2>3, <2>4
  <1>10. WritingTypes'
    BY <1>1, <1>2, <1>4, <1>7 DEF WritingTypes
  <1>11. Quiet
    BY <1>2, <1>4, <1>8, <1>9 DEF Quiet
  <1> QED BY <1>10, <1>11

\* The service answers: the requests and what it holds.
LEMMA ServeTypes ==
  ASSUME RetryInv, NEW r \in requests, Serve(r)
  PROVE  /\ WritingTypes'
         /\ \A s \in requests' : \E q \in requests : /\ s.n = q.n /\ s.place = q.place /\ s.inst = q.inst /\ s.body = q.body
                                                     /\ s.key = q.key /\ (s.awaited => q.awaited)
         /\ \A s, t \in requests' : s.n = t.n => s = t
         /\ \/ posted' = posted
            \/ /\ posted' = Append(posted, [n |-> r.n, inst |-> r.inst, body |-> r.body, key |-> r.key])
               /\ r.place \in Kept /\ \A i \in DOMAIN posted : posted[i].key # r.key
         /\ \E a \in AnswerKinds : /\ requests' = (requests \ {r}) \union {[r EXCEPT !.answer = a]}
                                /\ held' = IF r.place = "edit" /\ a = "done" THEN r.body ELSE held
  <1>1. WritingTypes
    BY DEF RetryInv
  <1>2. /\ UNCHANGED <<client, signedIn, tokenGood, drafts, made, moves, seed, taken, forms, sends, heard, parentGone, banned, shown>>
    BY DEF Serve, device
  <1>3. r \in Requests /\ r.n \in Nat /\ r.inst \in Nat /\ r.body \in AnyText /\ r.key \in Nat /\ r.awaited \in BOOLEAN
    BY <1>1, WritingFields
  <1>4. Answers(r) \subseteq AnswerKinds
    BY DEF Answers, AnswerKinds
  <1>5. PICK a \in Answers(r) :
          /\ requests' = (requests \ {r}) \union {[r EXCEPT !.answer = a]}
          /\ posted' = IF r.place \in Kept /\ a = "done" /\ \A i \in DOMAIN posted : posted[i].key # r.key
                       THEN Append(posted, [n |-> r.n, inst |-> r.inst, body |-> r.body, key |-> r.key]) ELSE posted
          /\ held' = IF r.place = "edit" /\ a = "done" THEN r.body ELSE held
    BY DEF Serve
  <1>6. PICK w : w = [r EXCEPT !.answer = a]
    OBVIOUS
  <1>7. w \in Requests /\ w.n = r.n /\ w.place = r.place /\ w.inst = r.inst /\ w.body = r.body /\ w.key = r.key /\ w.awaited = r.awaited
    BY <1>3, <1>4, <1>5, <1>6 DEF Requests
  <1>8. /\ \A s \in requests' : \E q \in requests : /\ s.n = q.n /\ s.place = q.place /\ s.inst = q.inst /\ s.body = q.body
                                                    /\ s.key = q.key /\ (s.awaited => q.awaited)
        /\ \A s, t \in requests' : s.n = t.n => s = t
        /\ requests' \subseteq Requests
    BY <1>5, <1>6, <1>7, OneTurnsQuietly
  <1>9. posted' \in Seq(Posts) /\ held' \in AnyText
    <2>1. [n |-> r.n, inst |-> r.inst, body |-> r.body, key |-> r.key] \in Posts
      BY <1>3 DEF Posts
    <2> QED BY <1>1, <1>3, <1>5, <2>1 DEF WritingTypes
  <1>10. WritingTypes'
    BY <1>1, <1>2, <1>8, <1>9 DEF WritingTypes
  <1> QED BY <1>4, <1>5, <1>8, <1>10

\* The service answers: a text is written under a key no other was written under.
LEMMA ServeKeeps ==
  ASSUME RetryInv, NEW r \in requests, Serve(r)
  PROVE  WritingTypes' /\ Recorded' /\ Instances' /\ Remembered' /\ Keyed'
  <1>1. WritingTypes'
    BY ServeTypes
  <1>2. made' = made /\ sends' = sends /\ heard' = heard /\ forms' = forms
    BY DEF Serve, device
  <1>3. /\ \A s \in requests' : \E q \in requests : /\ s.n = q.n /\ s.place = q.place /\ s.inst = q.inst /\ s.body = q.body
                                                    /\ s.key = q.key /\ (s.awaited => q.awaited)
        /\ \A s, t \in requests' : s.n = t.n => s = t
    BY ServeTypes
  <1>4. Of(r) /\ sends[r.n].place = r.place
    BY DEF RetryInv, Recorded
  <1>5. Recorded'
    <2>1. \A s \in requests' : Of(s)' /\ (sends[s.n].place = s.place)'
      <3>1. SUFFICES ASSUME NEW s \in requests' PROVE Of(s)' /\ sends'[s.n].place = s.place
        OBVIOUS
      <3>2. PICK q \in requests : s.n = q.n /\ s.place = q.place /\ s.inst = q.inst /\ s.body = q.body /\ s.key = q.key
        BY <1>3
      <3>3. Of(q) /\ sends[q.n].place = q.place
        BY DEF RetryInv, Recorded
      <3> QED BY <1>2, <3>2, <3>3 DEF Of
    <2>2. /\ \A i \in DOMAIN posted : Of(posted[i]) /\ sends[posted[i].n].place \in Kept
          /\ \A i, j \in DOMAIN posted : posted[i].key = posted[j].key => i = j
          /\ posted \in Seq(Posts)
      BY DEF RetryInv, Recorded, WritingTypes
    <2>3. /\ \A i \in DOMAIN posted' : /\ posted'[i].n \in DOMAIN sends /\ sends[posted'[i].n].inst = posted'[i].inst
                                       /\ sends[posted'[i].n].body = posted'[i].body /\ sends[posted'[i].n].key = posted'[i].key
                                       /\ sends[posted'[i].n].place \in Kept
          /\ \A i, j \in DOMAIN posted' : posted'[i].key = posted'[j].key => i = j
      <3>1. CASE posted' = posted
        BY <2>2, <3>1 DEF Of
      <3>2. CASE /\ posted' = Append(posted, [n |-> r.n, inst |-> r.inst, body |-> r.body, key |-> r.key])
                 /\ r.place \in Kept /\ \A i \in DOMAIN posted : posted[i].key # r.key
        <4>1. PICK e : e = [n |-> r.n, inst |-> r.inst, body |-> r.body, key |-> r.key]
          OBVIOUS
        <4>2. posted' = Append(posted, e) /\ e.n = r.n /\ e.inst = r.inst /\ e.body = r.body /\ e.key = r.key
          BY <3>2, <4>1
        <4>3. DOMAIN posted' = DOMAIN posted \union {Len(posted) + 1} /\ posted'[Len(posted) + 1] = e
              /\ \A i \in DOMAIN posted : posted'[i] = posted[i]
          BY <2>2, <4>2
        <4>4. /\ e.n \in DOMAIN sends /\ sends[e.n].inst = e.inst /\ sends[e.n].body = e.body /\ sends[e.n].key = e.key
              /\ sends[e.n].place \in Kept /\ \A i \in DOMAIN posted : posted[i].key # e.key
          BY <1>4, <3>2, <4>2 DEF Of
        <4> QED BY <2>2, <4>3, <4>4 DEF Of
      <3> QED BY <3>1, <3>2, ServeTypes
    <2>4. (\A i \in DOMAIN posted : Of(posted[i]) /\ sends[posted[i].n].place \in Kept)'
      BY <1>2, <2>3 DEF Of
    <2>5. (heard \subseteq DOMAIN sends)'
      BY <1>2 DEF RetryInv, Recorded
    <2> QED BY <1>3, <2>1, <2>3, <2>4, <2>5 DEF Recorded
  <1>6. Instances'
    BY <1>2 DEF RetryInv, Instances
  <1>7. (\A p \in Kept : forms[p].on => Remembers(p))'
    BY <1>2 DEF RetryInv, Remembered, Remembers, Last
  <1>8. (\A p \in Places : \A s \in requests : s.awaited /\ forms[p].on /\ forms[p].inst = s.inst => forms[p].sending /\ Last(s.n, s.inst))'
    <2>1. SUFFICES ASSUME NEW p \in Places, NEW s \in requests', s.awaited, forms[p].on, forms[p].inst = s.inst
                   PROVE  forms[p].sending /\ Last(s.n, s.inst)'
      BY <1>2
    <2>2. PICK q \in requests : s.n = q.n /\ s.inst = q.inst /\ (s.awaited => q.awaited)
      BY <1>3
    <2>3. forms[p].sending /\ Last(q.n, q.inst)
      BY <2>1, <2>2 DEF RetryInv, Remembered
    <2> QED BY <1>2, <2>2, <2>3 DEF Last
  <1>9. Keyed'
    BY <1>2 DEF RetryInv, Keyed, OneKey
  <1> QED BY <1>1, <1>5, <1>6, <1>7, <1>8, <1>9 DEF Remembered

\* A success: what the drafts and the forms come to.
LEMMA SucceedsTypes ==
  ASSUME RetryInv, NEW r \in requests, Succeeds(r)
  PROVE  /\ WritingTypes'
         /\ \A q \in Places : forms'[q].on =>
               \/ forms'[q] = forms[q] /\ (Live(r) => q # r.place)
               \/ /\ q = "top" /\ r.place = "top" /\ Live(r) /\ forms'[q].inst = forms[q].inst
                  /\ forms'[q].pending = NoKey /\ ~forms'[q].sending
         /\ Live(r) /\ r.place = "reply" => ~forms'["reply"].on
  <1>1. WritingTypes
    BY DEF RetryInv
  <1>2. /\ requests' = requests \ {r} /\ sends' = sends /\ posted' = posted /\ made' = made /\ moves' = moves
        /\ UNCHANGED <<client, signedIn, tokenGood, seed, taken, parentGone, banned, shown, held>>
        /\ heard' = IF Live(r) THEN heard \union {r.n} ELSE heard
        /\ r.place \in Kept
    BY DEF Succeeds
  <1>3. r.n \in Nat /\ r.place \in Places /\ drafts \in [Kept -> Drafts] /\ forms \in [Places -> Forms] /\ "" \in AnyText
        /\ forms["top"] \in Forms /\ "top" \in Places /\ {"reply"} \in SUBSET Places
    BY <1>1, WritingFields, WritingConstants DEF WritingTypes
  <1>4. PICK after \in [Kept -> Drafts] : after = Cleared(drafts, r.place)
    BY <1>3, SavedMakes DEF Cleared
  <1>5. LastSaved(after, {"reply"}) \in [Kept -> Drafts] /\ Gone({"reply"}) \in [Places -> Forms]
        /\ \A q \in Places : Gone({"reply"})[q] = IF q \in {"reply"} THEN Off ELSE forms[q]
    BY <1>1, <1>3, GoneMakes
  <1>6. PICK w : w = [forms["top"] EXCEPT !.text = "", !.pending = NoKey, !.sent = TRUE, !.sending = FALSE, !.unsaved = TRUE]
    OBVIOUS
  <1>7. w \in Forms /\ w.on = forms["top"].on /\ w.inst = forms["top"].inst /\ w.pending = NoKey /\ w.sending = FALSE
    BY <1>3, <1>6, WritingConstants DEF Forms
  <1>8. /\ drafts' \in [Kept -> Drafts]
        /\ \/ r.place = "reply" /\ forms' = Gone({"reply"})
           \/ r.place = "top" /\ ~Live(r) /\ forms' = forms
           \/ r.place = "top" /\ Live(r) /\ forms' = [forms EXCEPT !["top"] = w]
    <2>1. CASE r.place = "reply"
      <3>1. drafts' = IF Live(r) THEN after ELSE LastSaved(after, {"reply"})
        BY <1>4, <2>1 DEF Succeeds
      <3>2. forms' = Gone({"reply"})
        BY <2>1 DEF Succeeds
      <3> QED BY <1>5, <2>1, <3>1, <3>2
    <2>2. CASE r.place # "reply"
      <3>1. r.place = "top"
        BY <1>2, <2>2, WritingConstants
      <3>2. drafts' = after
        BY <1>4, <2>2 DEF Succeeds
      <3>3. forms' = IF ~Live(r) THEN forms
                     ELSE [forms EXCEPT !["top"].text = "", !["top"].pending = NoKey, !["top"].sent = TRUE,
                                        !["top"].sending = FALSE, !["top"].unsaved = TRUE]
        BY <2>2 DEF Succeeds
      <3> QED BY <1>3, <1>6, <3>1, <3>2, <3>3
    <2> QED BY <2>1, <2>2
  <1>9. forms' \in [Places -> Forms]
    BY <1>3, <1>5, <1>7, <1>8
  <1>10. heard' \subseteq Nat /\ requests' \subseteq Requests
    BY <1>1, <1>2, <1>3 DEF WritingTypes
  <1>11. WritingTypes'
    BY <1>1, <1>2, <1>8, <1>9, <1>10 DEF WritingTypes
  <1>12. \A q \in Places : forms'[q].on =>
            \/ forms'[q] = forms[q] /\ (Live(r) => q # r.place)
            \/ /\ q = "top" /\ r.place = "top" /\ Live(r) /\ forms'[q].inst = forms[q].inst
               /\ forms'[q].pending = NoKey /\ ~forms'[q].sending
    <2>1. CASE r.place = "reply" /\ forms' = Gone({"reply"})
      <3>1. SUFFICES ASSUME NEW q \in Places, forms'[q].on PROVE forms'[q] = forms[q] /\ q # "reply"
        BY <2>1
      <3>2. forms'[q] = IF q \in {"reply"} THEN Off ELSE forms[q]
        BY <1>5, <2>1
      <3>3. ~Off.on
        BY WritingConstants
      <3> QED BY <3>1, <3>2, <3>3
    <2>2. CASE r.place = "top" /\ ~Live(r) /\ forms' = forms
      BY <2>2
    <2>3. CASE r.place = "top" /\ Live(r) /\ forms' = [forms EXCEPT !["top"] = w]
      <3>1. \A q \in Places : forms'[q] = IF q = "top" THEN w ELSE forms[q]
        BY <1>3, <2>3
      <3> QED BY <1>7, <2>3, <3>1
    <2> QED BY <1>8, <2>1, <2>2, <2>3
  <1>13. r.place = "reply" => ~forms'["reply"].on
    BY <1>3, <1>5, <1>8, WritingConstants
  <1> QED BY <1>11, <1>12, <1>13

\* A success told to no form is a quiet step; one told to a form settles all that form sent.
LEMMA SucceedsKeeps ==
  ASSUME RetryInv, NEW r \in requests, Succeeds(r)
  PROVE  WritingTypes' /\ Recorded' /\ Instances' /\ Remembered' /\ Keyed'
  <1>1. WritingTypes' /\ WritingTypes
    BY SucceedsTypes DEF RetryInv
  <1>2. /\ \A q \in Places : forms'[q].on =>
               \/ forms'[q] = forms[q] /\ (Live(r) => q # r.place)
               \/ /\ q = "top" /\ r.place = "top" /\ Live(r) /\ forms'[q].inst = forms[q].inst
                  /\ forms'[q].pending = NoKey /\ ~forms'[q].sending
        /\ Live(r) /\ r.place = "reply" => ~forms'["reply"].on
    BY SucceedsTypes
  <1>3. /\ requests' = requests \ {r} /\ sends' = sends /\ posted' = posted /\ made' = made
        /\ heard' = IF Live(r) THEN heard \union {r.n} ELSE heard
        /\ r.place \in Kept /\ r.awaited
    BY DEF Succeeds, Waiting
  <1>4. /\ \A s \in requests' : \E q \in requests : /\ s.n = q.n /\ s.place = q.place /\ s.inst = q.inst /\ s.body = q.body
                                                    /\ s.key = q.key /\ (s.awaited => q.awaited)
        /\ \A s, t \in requests' : s.n = t.n => s = t
        /\ requests' \subseteq requests
    BY <1>3, FewerAreQuiet
  <1>5. CASE ~Live(r)
    <2>1. heard' = heard
      BY <1>3, <1>5
    <2>2. Quiet
      BY <1>2, <1>3, <1>4, <1>5, <2>1 DEF Quiet
    <2> QED BY <1>1, <2>2, QuietKeeps
  <1>6. CASE Live(r)
    <2>1. /\ heard' = heard \union {r.n} /\ forms[r.place].on /\ forms[r.place].inst = r.inst /\ r.place \in Places
          /\ r.n \in Nat /\ r.inst \in Nat
      BY <1>1, <1>3, <1>6, WritingFields DEF Live
    <2>2. Last(r.n, r.inst) /\ Of(r)
      BY <1>3, <2>1 DEF RetryInv, Remembered, Recorded
    <2>3. \A q \in Places : forms'[q].on => forms[q].on /\ forms'[q].inst = forms[q].inst
      BY <1>2, <2>1
    <2>4. Recorded'
      <3>1. \A s \in requests' : Of(s)' /\ (sends[s.n].place = s.place)'
        BY <1>3, <1>4 DEF RetryInv, Recorded, Of
      <3>2. (\A i \in DOMAIN posted : Of(posted[i]) /\ sends[posted[i].n].place \in Kept)'
        BY <1>3 DEF RetryInv, Recorded, Of
      <3>3. (\A i, j \in DOMAIN posted : posted[i].key = posted[j].key => i = j)'
        BY <1>3 DEF RetryInv, Recorded
      <3>4. (heard \subseteq DOMAIN sends)'
        BY <1>3, <2>1, <2>2 DEF RetryInv, Recorded, Last
      <3> QED BY <1>4, <3>1, <3>2, <3>3, <3>4 DEF Recorded
    <2>5. Instances'
      BY <1>3, <2>3 DEF RetryInv, Instances
    <2>6. (\A p \in Kept : forms[p].on => Remembers(p))'
      <3>1. SUFFICES ASSUME NEW p \in Kept, forms'[p].on PROVE Remembers(p)'
        OBVIOUS
      <3>2. p \in Places
        BY WritingConstants
      <3>3. CASE forms'[p] = forms[p] /\ p # r.place
        <4>1. forms[p].on /\ p # r.place
          BY <3>1, <3>3
        <4>2. forms[p].inst # r.inst
          BY <2>1, <3>2, <4>1 DEF RetryInv, Instances
        <4>3. Remembers(p)
          BY <4>1 DEF RetryInv, Remembered
        <4>4. \A m : Last(m, forms[p].inst) => m # r.n
          BY <2>2, <4>2 DEF Last
        <4> QED BY <1>3, <2>1, <3>3, <4>3, <4>4 DEF Remembers, Last
      <3>4. CASE /\ p = "top" /\ r.place = "top" /\ forms'[p].inst = forms[p].inst /\ forms'[p].pending = NoKey
        <4>1. forms'[p].inst = r.inst
          BY <2>1, <3>4
        <4>2. \A i \in DOMAIN sends : sends[i].inst = r.inst => r.n >= i
          BY <1>1, <2>1, <2>2, WritingFields DEF Last
        <4>3. r.n \in DOMAIN sends /\ sends[r.n].inst = r.inst /\ r.n \in heard'
          BY <2>1, <2>2 DEF Last
        <4> QED BY <1>3, <3>4, <4>1, <4>2, <4>3 DEF Remembers
      <3> QED BY <1>2, <1>6, <3>1, <3>2, <3>3, <3>4
    <2>7. (\A p \in Places : \A s \in requests : s.awaited /\ forms[p].on /\ forms[p].inst = s.inst => forms[p].sending /\ Last(s.n, s.inst))'
      <3>1. SUFFICES ASSUME NEW p \in Places, NEW s \in requests', s.awaited, forms'[p].on, forms'[p].inst = s.inst
                     PROVE  forms'[p].sending /\ Last(s.n, s.inst)'
        OBVIOUS
      <3>2. s \in requests /\ s # r /\ forms[p].on /\ forms[p].inst = s.inst
        BY <1>3, <2>3, <3>1
      <3>3. forms[p].sending /\ Last(s.n, s.inst)
        BY <3>1, <3>2 DEF RetryInv, Remembered
      <3>4. p # r.place
        <4>1. SUFFICES ASSUME p = r.place PROVE FALSE
          OBVIOUS
        <4>2. s.inst = r.inst
          BY <2>1, <3>2, <4>1
        <4>3. r = s
          BY <1>3, <2>1, <3>1, <3>2, <4>2, OneAwaited
        <4> QED BY <3>2, <4>3
      <3>5. forms'[p] = forms[p]
        BY <1>2, <3>1, <3>4
      <3> QED BY <1>3, <3>3, <3>5 DEF Last
    <2>8. Keyed'
      BY <1>3, <2>1 DEF RetryInv, Keyed, OneKey
    <2> QED BY <1>1, <2>4, <2>5, <2>6, <2>7, <2>8 DEF Remembered
  <1> QED BY <1>5, <1>6

\* A form put on the page: what it holds.
LEMMA MountTypes ==
  ASSUME RetryInv, NEW p \in Places, Mount(p)
  PROVE  /\ WritingTypes' /\ made' = made + 1
         /\ \A q \in Places : q # p => forms'[q] = forms[q]
         /\ forms'[p].on /\ forms'[p].inst = made + 1 /\ forms'[p].pending = NoKey /\ ~forms'[p].sending
  <1>1. WritingTypes
    BY DEF RetryInv
  <1>2. /\ UNCHANGED <<client, signedIn, tokenGood, moves, seed, requests, sends, heard, posted, parentGone, banned, shown, held>>
        /\ made' = made + 1 /\ made \in Nat
    BY <1>1 DEF Mount, WritingTypes
  <1>3. /\ Off \in Forms /\ forms \in [Places -> Forms] /\ drafts \in [Kept -> Drafts] /\ seed.text \in AnyText /\ shown \in AnyText
        /\ NoDraft \in Drafts /\ "" \in AnyText /\ Off.pending = NoKey /\ ~Off.sending /\ taken \in Nat
    BY <1>1, WritingConstants, WritingFields DEF WritingTypes
  <1>4. PICK draft \in Drafts : draft = IF p \in Kept THEN Fresh(drafts[p]) ELSE NoDraft
    <2>1. p \in Kept => Fresh(drafts[p]) \in Drafts
      BY <1>3 DEF Fresh
    <2> QED BY <1>3, <2>1
  <1>5. draft.text \in AnyText
    BY DEF Drafts
  <1>6. PICK t \in AnyText : t = IF p = "top" /\ seed # NoSeed THEN seed.text
                                 ELSE IF p = "edit" THEN shown
                                 ELSE IF client = "web" THEN draft.text ELSE ""
    BY <1>3, <1>5
  <1>7. PICK d \in Drafts : d = IF client = "mobile" /\ ~(p = "top" /\ seed # NoSeed) THEN draft ELSE NoDraft
    BY <1>3
  <1>8. /\ forms' = [forms EXCEPT ![p] = [Off EXCEPT !.on = TRUE, !.inst = made + 1, !.unsaved = p \in Kept, !.text = t, !.reading = d]]
    BY <1>2, <1>4, <1>6, <1>7 DEF Mount
  <1>9. PICK w : w = [Off EXCEPT !.on = TRUE, !.inst = made + 1, !.unsaved = p \in Kept, !.text = t, !.reading = d]
    OBVIOUS
  <1>10. w \in Forms /\ w.on = TRUE /\ w.inst = made + 1 /\ w.pending = NoKey /\ w.sending = FALSE
    <2>1. (p \in Kept) \in BOOLEAN
      OBVIOUS
    <2>2. PICK i \in Nat : i = made + 1
      BY <1>2
    <2>3. w = [Off EXCEPT !.on = TRUE, !.inst = i, !.unsaved = p \in Kept, !.text = t, !.reading = d]
      BY <1>9, <2>2
    <2>4. w \in Forms
      BY <1>3, <2>1, <2>3 DEF Forms
    <2>5. w.on = TRUE /\ w.inst = i /\ w.pending = Off.pending /\ w.sending = Off.sending
      BY <1>3, <2>3 DEF Forms
    <2> QED BY <1>3, <2>2, <2>4, <2>5 DEF Forms
  <1>11. forms' = [forms EXCEPT ![p] = w]
    BY <1>8, <1>9
  <1>12. forms' \in [Places -> Forms] /\ \A q \in Places : forms'[q] = IF q = p THEN w ELSE forms[q]
    BY <1>3, <1>10, <1>11
  <1>13. drafts' \in [Kept -> Drafts] /\ taken' \in Nat /\ made' \in Nat
    <2>1. drafts' = IF p \in Kept THEN [drafts EXCEPT ![p] = draft] ELSE drafts
      BY <1>4 DEF Mount
    <2>2. taken' = IF p = "top" /\ seed # NoSeed THEN taken + 1 ELSE taken
      BY <1>4 DEF Mount
    <2>3. drafts' \in [Kept -> Drafts]
      <3>1. [drafts EXCEPT ![p] = draft] \in [Kept -> Drafts]
        BY <1>3
      <3> QED BY <1>3, <2>1, <3>1
    <2>4. taken' \in Nat
      <3>1. taken \in Nat
        BY <1>3
      <3> QED BY <2>2, <3>1
    <2> QED BY <1>2, <2>3, <2>4
  <1>14. WritingTypes'
    BY <1>1, <1>2, <1>12, <1>13 DEF WritingTypes
  <1> QED BY <1>2, <1>10, <1>12, <1>14

\* A form put on the page has sent nothing yet.
LEMMA MountKeeps ==
  ASSUME RetryInv, NEW p \in Places, Mount(p)
  PROVE  WritingTypes' /\ Recorded' /\ Instances' /\ Remembered' /\ Keyed'
  <1>1. WritingTypes' /\ WritingTypes
    BY MountTypes DEF RetryInv
  <1>2. /\ made' = made + 1 /\ made \in Nat
        /\ \A q \in Places : q # p => forms'[q] = forms[q]
        /\ forms'[p].on /\ forms'[p].inst = made + 1 /\ forms'[p].pending = NoKey /\ ~forms'[p].sending
    BY <1>1, MountTypes DEF WritingTypes
  <1>3. requests' = requests /\ sends' = sends /\ heard' = heard /\ posted' = posted
    BY DEF Mount
  <1>4. \A k \in DOMAIN sends : sends[k].inst # made + 1
    <2>1. SUFFICES ASSUME NEW k \in DOMAIN sends PROVE sends[k].inst # made + 1
      OBVIOUS
    <2>2. sends[k].inst \in Nat /\ sends[k].inst <= made
      BY <1>1, WritingFields DEF RetryInv, Instances
    <2> QED BY <1>2, <2>2
  <1>5. Recorded'
    <2>1. (\A r \in requests : Of(r) /\ sends[r.n].place = r.place)'
      BY <1>3 DEF RetryInv, Recorded, Of
    <2>2. (\A i \in DOMAIN posted : Of(posted[i]) /\ sends[posted[i].n].place \in Kept)'
      BY <1>3 DEF RetryInv, Recorded, Of
    <2> QED BY <1>3, <2>1, <2>2 DEF RetryInv, Recorded
  <1>6. Instances'
    <2>1. (\A k \in DOMAIN sends : sends[k].inst <= made)'
      <3>1. SUFFICES ASSUME NEW k \in DOMAIN sends PROVE sends[k].inst <= made + 1
        BY <1>2, <1>3
      <3>2. sends[k].inst \in Nat /\ sends[k].inst <= made
        BY <1>1, WritingFields DEF RetryInv, Instances
      <3> QED BY <1>2, <3>2
    <2>2. \A q \in Places : forms[q].on => forms[q].inst \in Nat /\ forms[q].inst <= made
      BY <1>1, WritingFields DEF RetryInv, Instances
    <2>3. (\A q \in Places : forms[q].on => /\ forms[q].inst <= made
                                            /\ \A k \in DOMAIN sends : sends[k].inst = forms[q].inst => sends[k].place = q)'
      <3>1. SUFFICES ASSUME NEW q \in Places, forms'[q].on
                     PROVE  /\ forms'[q].inst <= made + 1
                            /\ \A k \in DOMAIN sends : sends[k].inst = forms'[q].inst => sends[k].place = q
        BY <1>2, <1>3
      <3>2. CASE q = p
        BY <1>2, <1>4, <3>2
      <3>3. CASE q # p
        <4>1. forms'[q] = forms[q]
          BY <1>2, <3>3
        <4>2. \A k \in DOMAIN sends : sends[k].inst = forms[q].inst => sends[k].place = q
          BY <3>1, <4>1 DEF RetryInv, Instances
        <4> QED BY <1>2, <2>2, <3>1, <4>1, <4>2
      <3> QED BY <3>2, <3>3
    <2>4. (\A q, s \in Places : forms[q].on /\ forms[s].on /\ forms[q].inst = forms[s].inst => q = s)'
      <3>1. SUFFICES ASSUME NEW q \in Places, NEW s \in Places, forms'[q].on, forms'[s].on, forms'[q].inst = forms'[s].inst, q # s
                     PROVE  FALSE
        OBVIOUS
      <3>2. CASE q # p /\ s # p
        BY <1>2, <3>1, <3>2 DEF RetryInv, Instances
      <3>3. CASE q = p
        BY <1>2, <2>2, <3>1, <3>3
      <3>4. CASE s = p
        BY <1>2, <2>2, <3>1, <3>4
      <3> QED BY <3>2, <3>3, <3>4
    <2> QED BY <2>1, <2>3, <2>4 DEF Instances
  <1>7. (\A q \in Kept : forms[q].on => Remembers(q))'
    <2>1. SUFFICES ASSUME NEW q \in Kept, forms'[q].on PROVE Remembers(q)'
      OBVIOUS
    <2>2. CASE q = p
      <3>1. forms'[q].pending = NoKey /\ forms'[q].inst = made + 1
        BY <1>2, <2>2
      <3> QED BY <1>3, <1>4, <3>1 DEF Remembers
    <2>3. CASE q # p
      <3>1. forms'[q] = forms[q] /\ q \in Places
        BY <1>2, <2>3, WritingConstants
      <3>2. Remembers(q)
        BY <2>1, <3>1 DEF RetryInv, Remembered
      <3> QED BY <1>3, <3>1, <3>2 DEF Remembers, Last
    <2> QED BY <2>2, <2>3
  <1>8. (\A q \in Places : \A s \in requests : s.awaited /\ forms[q].on /\ forms[q].inst = s.inst => forms[q].sending /\ Last(s.n, s.inst))'
    <2>1. SUFFICES ASSUME NEW q \in Places, NEW s \in requests, s.awaited, forms'[q].on, forms'[q].inst = s.inst
                   PROVE  forms'[q].sending /\ Last(s.n, s.inst)'
      BY <1>3
    <2>2. s.inst # made + 1
      BY <1>4 DEF RetryInv, Recorded, Of
    <2>3. forms'[q] = forms[q]
      BY <1>2, <2>1, <2>2
    <2>4. forms[q].sending /\ Last(s.n, s.inst)
      BY <2>1, <2>3 DEF RetryInv, Remembered
    <2> QED BY <1>3, <2>3, <2>4 DEF Last
  <1>9. Keyed'
    BY <1>3 DEF RetryInv, Keyed, OneKey
  <1> QED BY <1>1, <1>5, <1>6, <1>7, <1>8, <1>9 DEF Remembered

\* What a text goes out as.
LEMMA SubmitMakes ==
  ASSUME RetryInv, NEW p \in Places, Submit(p)
  PROVE  /\ WritingTypes'
         /\ \E e \in Sends, w \in Requests, keyed \in PendingKeys :
               /\ keyed = KeyFor(forms[p].pending, Body(forms[p].text)) /\ keyed.body = Body(forms[p].text) /\ keyed.body # ""
               /\ sends' = Append(sends, e) /\ requests' = requests \union {w}
               /\ e.place = p /\ e.inst = forms[p].inst /\ e.body = keyed.body /\ e.key = keyed.key
               /\ e.over = (p = "edit" /\ \E r \in requests : r.place = "edit")
               /\ w.n = Len(sends) + 1 /\ w.place = p /\ w.inst = forms[p].inst /\ w.body = keyed.body /\ w.key = keyed.key
               /\ w.answer = "none" /\ w.awaited = TRUE
               /\ forms'[p].on /\ forms'[p].inst = forms[p].inst /\ forms'[p].sending
               /\ forms'[p].pending = IF p \in Kept THEN keyed ELSE NoKey
         /\ \A q \in Places : q # p => forms'[q] = forms[q]
         /\ forms[p].on /\ ~forms[p].sending
  <1>1. WritingTypes
    BY DEF RetryInv
  <1>2. /\ UNCHANGED <<client, signedIn, tokenGood, drafts, made, moves, seed, taken, heard, posted, parentGone, banned, shown, held>>
        /\ forms[p].on /\ ~forms[p].sending
    BY DEF Submit, device
  <1>3. /\ forms \in [Places -> Forms] /\ forms[p] \in Forms /\ forms[p].inst \in Nat /\ forms[p].pending \in PendingKeys
        /\ Body(forms[p].text) \in AnyText /\ sends \in Seq(Sends) /\ Len(sends) \in Nat /\ Len(sends) + 1 \in Nat /\ requests \subseteq Requests
    <2>1. sends \in Seq(Sends) /\ requests \subseteq Requests /\ forms \in [Places -> Forms]
      BY <1>1 DEF WritingTypes
    <2>2. Len(sends) \in Nat /\ Len(sends) + 1 \in Nat
      BY <2>1
    <2>3. forms[p].text \in AnyText
      BY <1>1, WritingFields
    <2>4. Body(forms[p].text) \in AnyText
      BY <2>3, WritingConstants
    <2> QED BY <1>1, <2>1, <2>2, <2>4, WritingFields
  <1>4. Body(forms[p].text) # ""
    BY DEF Submit, Problem
  <1>5. PICK keyed \in PendingKeys : keyed = KeyFor(forms[p].pending, Body(forms[p].text))
    <2>1. [body |-> Body(forms[p].text), key |-> Len(sends) + 1] \in PendingKeys
      BY <1>3 DEF PendingKeys
    <2> QED BY <1>3, <2>1 DEF KeyFor
  <1>6. keyed.body = Body(forms[p].text) /\ keyed.body \in AnyText /\ keyed.key \in Nat
    <2>1. keyed.body = Body(forms[p].text)
      BY <1>5 DEF KeyFor
    <2>2. keyed.body \in AnyText /\ keyed.key \in Nat
      BY <1>5 DEF PendingKeys
    <2> QED BY <2>1, <2>2
  <1>7. PICK upon \in BOOLEAN : upon = (p = "edit" /\ \E r \in requests : r.place = "edit")
    <2>1. (p = "edit" /\ \E r \in requests : r.place = "edit") \in BOOLEAN
      OBVIOUS
    <2> QED BY <2>1
  <1>8. PICK e : e = [place |-> p, inst |-> forms[p].inst, body |-> keyed.body, key |-> keyed.key, over |-> upon]
    OBVIOUS
  <1>9. PICK w : w = [n |-> Len(sends) + 1, place |-> p, inst |-> forms[p].inst, body |-> keyed.body,
                      key |-> keyed.key, answer |-> "none", awaited |-> TRUE]
    OBVIOUS
  <1>10. PICK pend \in PendingKeys : pend = IF p \in Kept THEN keyed ELSE NoKey
    BY <1>5, WritingConstants
  <1>11. e \in Sends /\ w \in Requests
    <2>1. e \in Sends
      BY <1>3, <1>6, <1>8 DEF Sends
    <2>2. w \in Requests
      BY <1>3, <1>6, <1>9 DEF Requests, AnswerKinds
    <2> QED BY <2>1, <2>2
  <1>12. /\ forms' = [forms EXCEPT ![p].sending = TRUE, ![p].failure = "none", ![p].pending = pend]
         /\ requests' = requests \union {w} /\ sends' = Append(sends, e)
    <2>1. forms' = [forms EXCEPT ![p].sending = TRUE, ![p].failure = "none", ![p].pending = pend]
      BY <1>5, <1>10 DEF Submit
    <2>2. requests' = requests \union {w}
      BY <1>5, <1>9 DEF Submit
    <2>3. sends' = Append(sends, [place |-> p, inst |-> forms[p].inst, body |-> keyed.body, key |-> keyed.key,
                                  over |-> p = "edit" /\ \E r \in requests : r.place = "edit"])
      BY <1>5 DEF Submit
    <2> QED BY <1>7, <1>8, <2>1, <2>2, <2>3
  <1>13. PICK f : f = [forms[p] EXCEPT !.sending = TRUE, !.failure = "none", !.pending = pend]
    OBVIOUS
  <1>14. f \in Forms /\ f.on = forms[p].on /\ f.inst = forms[p].inst /\ f.sending = TRUE /\ f.pending = pend
    BY <1>3, <1>10, <1>13 DEF Forms, Failures
  <1>15. forms' = [forms EXCEPT ![p] = f]
    BY <1>3, <1>12, <1>13
  <1>16. forms' \in [Places -> Forms] /\ forms'[p] = f /\ \A q \in Places : q # p => forms'[q] = forms[q]
    BY <1>3, <1>14, <1>15
  <1>17. sends' \in Seq(Sends) /\ requests' \subseteq Requests
    BY <1>3, <1>11, <1>12
  <1>18. WritingTypes'
    BY <1>1, <1>2, <1>16, <1>17 DEF WritingTypes
  <1>19. /\ e.place = p /\ e.inst = forms[p].inst /\ e.body = keyed.body /\ e.key = keyed.key /\ e.over = upon
         /\ w.n = Len(sends) + 1 /\ w.place = p /\ w.inst = forms[p].inst /\ w.body = keyed.body /\ w.key = keyed.key
         /\ w.answer = "none" /\ w.awaited = TRUE
    BY <1>8, <1>9
  <1>20. /\ forms'[p].on /\ forms'[p].inst = forms[p].inst /\ forms'[p].sending
         /\ forms'[p].pending = IF p \in Kept THEN keyed ELSE NoKey
    BY <1>2, <1>10, <1>14, <1>16
  <1>21. keyed = KeyFor(forms[p].pending, Body(forms[p].text)) /\ keyed.body = Body(forms[p].text) /\ keyed.body # ""
    BY <1>4, <1>5, <1>6
  <1>22. e.over = (p = "edit" /\ \E r \in requests : r.place = "edit")
    BY <1>7, <1>19
  <1>23. \E e_1 \in Sends, w_1 \in Requests, keyed_1 \in PendingKeys :
               /\ keyed_1 = KeyFor(forms[p].pending, Body(forms[p].text)) /\ keyed_1.body = Body(forms[p].text) /\ keyed_1.body # ""
               /\ sends' = Append(sends, e_1) /\ requests' = requests \union {w_1}
               /\ e_1.place = p /\ e_1.inst = forms[p].inst /\ e_1.body = keyed_1.body /\ e_1.key = keyed_1.key
               /\ e_1.over = (p = "edit" /\ \E r \in requests : r.place = "edit")
               /\ w_1.n = Len(sends) + 1 /\ w_1.place = p /\ w_1.inst = forms[p].inst /\ w_1.body = keyed_1.body /\ w_1.key = keyed_1.key
               /\ w_1.answer = "none" /\ w_1.awaited = TRUE
               /\ forms'[p].on /\ forms'[p].inst = forms[p].inst /\ forms'[p].sending
               /\ forms'[p].pending = IF p \in Kept THEN keyed_1 ELSE NoKey
    <2> USE <1>11
    <2> WITNESS e \in Sends, w \in Requests, keyed \in PendingKeys
    <2> QED BY <1>12, <1>19, <1>20, <1>21, <1>22
  <1> QED BY <1>2, <1>16, <1>18, <1>23

\* A text goes out under the key of the same text sent before and not told of, or under one of its own.
LEMMA SubmitKeeps ==
  ASSUME RetryInv, NEW p \in Places, Submit(p)
  PROVE  WritingTypes' /\ Recorded' /\ Instances' /\ Remembered' /\ Keyed'
  <1>1. WritingTypes' /\ WritingTypes
    BY SubmitMakes DEF RetryInv
  <1>2. PICK e \in Sends, w \in Requests, keyed \in PendingKeys :
               /\ keyed = KeyFor(forms[p].pending, Body(forms[p].text)) /\ keyed.body = Body(forms[p].text) /\ keyed.body # ""
               /\ sends' = Append(sends, e) /\ requests' = requests \union {w}
               /\ e.place = p /\ e.inst = forms[p].inst /\ e.body = keyed.body /\ e.key = keyed.key
               /\ e.over = (p = "edit" /\ \E r \in requests : r.place = "edit")
               /\ w.n = Len(sends) + 1 /\ w.place = p /\ w.inst = forms[p].inst /\ w.body = keyed.body /\ w.key = keyed.key
               /\ w.answer = "none" /\ w.awaited = TRUE
               /\ forms'[p].on /\ forms'[p].inst = forms[p].inst /\ forms'[p].sending
               /\ forms'[p].pending = IF p \in Kept THEN keyed ELSE NoKey
    BY SubmitMakes
  <1>3. /\ \A q \in Places : q # p => forms'[q] = forms[q]
        /\ forms[p].on /\ ~forms[p].sending
    BY SubmitMakes
  <1>4. PICK new \in Nat : new = Len(sends) + 1
    BY <1>1 DEF WritingTypes
  <1>5. /\ DOMAIN sends' = DOMAIN sends \union {new} /\ sends'[new] = e /\ \A k \in DOMAIN sends : sends'[k] = sends[k]
        /\ \A k \in DOMAIN sends : k \in Nat /\ k < new /\ k # new
        /\ \A k \in DOMAIN sends, m \in Nat : m <= k /\ m > 0 => m \in DOMAIN sends
    <2>1. sends \in Seq(Sends)
      BY <1>1 DEF WritingTypes
    <2>2. DOMAIN sends = 1 .. Len(sends) /\ Len(sends) \in Nat
      BY <2>1
    <2>3. sends' = Append(sends, e)
      BY <1>2
    <2>4. DOMAIN sends' = 1 .. (Len(sends) + 1) /\ sends'[Len(sends) + 1] = e /\ \A k \in 1 .. Len(sends) : sends'[k] = sends[k]
      BY <2>1, <2>3
    <2> QED BY <1>4, <2>2, <2>4
  <1>6. made' = made /\ heard' = heard /\ posted' = posted
    BY DEF Submit, device
  <1>7. new \notin heard
    BY <1>5 DEF RetryInv, Recorded
  <1>8. Recorded'
    <2>1. \A r \in requests : Of(r) /\ sends[r.n].place = r.place /\ r.n # new
      BY <1>5 DEF RetryInv, Recorded, Of
    <2>2. (\A r \in requests : Of(r) /\ sends[r.n].place = r.place)'
      <3>1. SUFFICES ASSUME NEW r \in requests'
                     PROVE  r.n \in DOMAIN sends' /\ sends'[r.n].inst = r.inst /\ sends'[r.n].body = r.body /\ sends'[r.n].key = r.key
                            /\ sends'[r.n].place = r.place
        BY DEF Of
      <3>2. CASE r \in requests
        BY <1>5, <2>1, <3>2 DEF Of
      <3>3. CASE r = w
        BY <1>2, <1>4, <1>5, <3>3
      <3> QED BY <1>2, <3>1, <3>2, <3>3
    <2>3. (\A r, s \in requests : r.n = s.n => r = s)'
      <3>1. \A r, s \in requests : r.n = s.n => r = s
        BY DEF RetryInv, Recorded
      <3>2. \A r \in requests' : r \in requests \/ r = w
        BY <1>2
      <3>3. w.n = new
        BY <1>2, <1>4
      <3> QED BY <2>1, <3>1, <3>2, <3>3
    <2>4. (\A i \in DOMAIN posted : Of(posted[i]) /\ sends[posted[i].n].place \in Kept)'
      <3>1. \A i \in DOMAIN posted : Of(posted[i]) /\ sends[posted[i].n].place \in Kept
        BY DEF RetryInv, Recorded
      <3> QED BY <1>5, <1>6, <3>1 DEF Of
    <2>5. (\A i, j \in DOMAIN posted : posted[i].key = posted[j].key => i = j)' /\ (heard \subseteq DOMAIN sends)'
      BY <1>5, <1>6 DEF RetryInv, Recorded
    <2> QED BY <2>2, <2>3, <2>4, <2>5 DEF Recorded
  <1>9. \A q \in Places : forms'[q].on => forms[q].on /\ forms'[q].inst = forms[q].inst
    BY <1>2, <1>3
  <1>10. Instances'
    <2>1. forms[p].inst <= made
      BY <1>3 DEF RetryInv, Instances
    <2>2. (\A k \in DOMAIN sends : sends[k].inst <= made)'
      <3>1. \A k \in DOMAIN sends : sends[k].inst <= made
        BY DEF RetryInv, Instances
      <3>2. e.inst <= made
        BY <1>2, <2>1
      <3> QED BY <1>5, <1>6, <3>1, <3>2
    <2>3. (\A q \in Places : forms[q].on => /\ forms[q].inst <= made
                                            /\ \A k \in DOMAIN sends : sends[k].inst = forms[q].inst => sends[k].place = q)'
      <3>1. SUFFICES ASSUME NEW q \in Places, forms'[q].on
                     PROVE  /\ forms[q].inst <= made
                            /\ \A k \in DOMAIN sends' : sends'[k].inst = forms[q].inst => sends'[k].place = q
        BY <1>6, <1>9
      <3>2. forms[q].on /\ (forms[p].inst = forms[q].inst => p = q)
        BY <1>3, <1>9, <3>1 DEF RetryInv, Instances
      <3>3. forms[q].inst <= made /\ \A k \in DOMAIN sends : sends[k].inst = forms[q].inst => sends[k].place = q
        BY <3>2 DEF RetryInv, Instances
      <3>4. e.inst = forms[q].inst => e.place = q
        BY <1>2, <3>2
      <3> QED BY <1>5, <3>3, <3>4
    <2>4. (\A q, s \in Places : forms[q].on /\ forms[s].on /\ forms[q].inst = forms[s].inst => q = s)'
      BY <1>9 DEF RetryInv, Instances
    <2> QED BY <2>2, <2>3, <2>4 DEF Instances
  <1>11. \A q \in Places : q # p /\ forms'[q].on => forms[q].inst # e.inst /\ forms'[q] = forms[q] /\ forms[q].on
    BY <1>2, <1>3 DEF RetryInv, Instances
  <1>12. \A m, i : Last(m, i) /\ i # e.inst => Last(m, i)'
    BY <1>5 DEF Last
  <1>13. Last(new, e.inst)'
    BY <1>5 DEF Last
  <1>14. (\A q \in Kept : forms[q].on => Remembers(q))'
    <2>1. SUFFICES ASSUME NEW q \in Kept, forms'[q].on PROVE Remembers(q)'
      OBVIOUS
    <2>2. q \in Places
      BY WritingConstants
    <2>3. CASE q = p
      <3>1. forms'[q].pending = keyed /\ keyed # NoKey /\ forms'[q].inst = e.inst
        BY <1>2, <2>3, WritingConstants
      <3>2. new \in DOMAIN sends' /\ sends'[new].body = keyed.body /\ sends'[new].key = keyed.key
        BY <1>2, <1>5
      <3>3. new \notin heard'
        BY <1>6, <1>7
      <3>4. Last(new, forms[q].inst)'
        BY <1>13, <3>1 DEF Last
      <3> QED BY <3>1, <3>2, <3>3, <3>4 DEF Remembers
    <2>4. CASE q # p
      <3>1. forms[q].inst # e.inst /\ forms'[q] = forms[q] /\ forms[q].on
        BY <1>11, <2>1, <2>2, <2>4
      <3>2. Remembers(q)
        BY <3>1 DEF RetryInv, Remembered
      <3>3. CASE forms[q].pending # NoKey
        <4>1. PICK m \in DOMAIN sends : /\ Last(m, forms[q].inst) /\ m \notin heard
                                        /\ forms[q].pending.body = sends[m].body /\ forms[q].pending.key = sends[m].key
          BY <3>2, <3>3 DEF Remembers
        <4>2. m \in DOMAIN sends' /\ sends'[m] = sends[m] /\ m \notin heard'
          BY <1>5, <1>6, <4>1
        <4>3. Last(m, forms[q].inst)'
          BY <1>5, <3>1, <4>1 DEF Last
        <4> QED BY <3>1, <3>3, <4>1, <4>2, <4>3 DEF Remembers
      <3>4. CASE forms[q].pending = NoKey
        <4>1. SUFFICES ASSUME NEW i \in DOMAIN sends', sends'[i].inst = forms[q].inst
                       PROVE  \E k \in DOMAIN sends' : k >= i /\ sends'[k].inst = forms[q].inst /\ k \in heard
          BY <1>6, <3>1, <3>4 DEF Remembers
        <4>2. i \in DOMAIN sends /\ sends[i].inst = forms[q].inst
          BY <1>5, <3>1, <4>1
        <4>3. PICK k \in DOMAIN sends : k >= i /\ sends[k].inst = forms[q].inst /\ k \in heard
          BY <3>2, <3>4, <4>2 DEF Remembers
        <4> QED BY <1>5, <4>3
      <3> QED BY <3>3, <3>4
    <2> QED BY <2>3, <2>4
  <1>15. (\A q \in Places : \A s \in requests : s.awaited /\ forms[q].on /\ forms[q].inst = s.inst => forms[q].sending /\ Last(s.n, s.inst))'
    <2>1. SUFFICES ASSUME NEW q \in Places, NEW s \in requests', s.awaited, forms'[q].on, forms'[q].inst = s.inst
                   PROVE  forms'[q].sending /\ Last(s.n, s.inst)'
      OBVIOUS
    <2>2. CASE s = w
      <3>1. s.n = new /\ s.inst = e.inst
        BY <1>2, <1>4, <2>2
      <3>2. q = p
        BY <1>11, <2>1, <3>1
      <3> QED BY <1>2, <1>13, <3>1, <3>2
    <2>3. CASE s \in requests
      <3>1. forms[q].on /\ forms[q].inst = s.inst
        BY <1>9, <2>1
      <3>2. forms[q].sending /\ Last(s.n, s.inst)
        BY <2>1, <2>3, <3>1 DEF RetryInv, Remembered
      <3>3. q # p
        BY <1>3, <3>2
      <3>4. forms[q].inst # e.inst /\ forms'[q] = forms[q]
        BY <1>11, <2>1, <3>3
      <3> QED BY <1>12, <3>1, <3>2, <3>4
    <2> QED BY <1>2, <2>1, <2>2, <2>3
  <1>16. Keyed'
    <2>1. SUFFICES ASSUME NEW i \in DOMAIN sends', NEW j \in DOMAIN sends', i < j, sends'[i].inst = sends'[j].inst, sends'[i].place \in Kept,
                          OneKey(i, j)'
                   PROVE  sends'[i].key = sends'[j].key
      BY DEF Keyed
    <2>2. \A k \in i .. (j - 1) : sends'[k].inst = sends'[i].inst => sends'[k].body = sends'[j].body /\ k \notin heard
      BY <1>6, <2>1 DEF OneKey
    <2>3. i \in Nat /\ j \in Nat /\ new \in Nat /\ i > 0
      <3>1. sends' \in Seq(Sends)
        BY <1>1 DEF WritingTypes
      <3> QED BY <1>4, <3>1
    <2>4. i # new
      BY <1>5, <2>1, <2>3
    <2>5. i \in DOMAIN sends /\ i < new /\ sends'[i] = sends[i]
      BY <1>5, <2>4
    <2>6. CASE j \in DOMAIN sends
      <3>1. sends'[j] = sends[j]
        BY <1>5, <2>6
      <3>2. \A k \in i .. (j - 1) : k \in DOMAIN sends /\ sends'[k] = sends[k]
        BY <1>5, <2>3, <2>6
      <3>3. OneKey(i, j)
        BY <2>2, <2>5, <3>1, <3>2 DEF OneKey
      <3>4. sends[i].key = sends[j].key
        BY <2>1, <2>5, <2>6, <3>1, <3>3 DEF RetryInv, Keyed
      <3> QED BY <2>5, <3>1, <3>4
    <2>7. CASE j = new
      <3>1. sends'[j] = e /\ sends[i].inst = e.inst /\ e.inst = forms[p].inst /\ sends[i].place \in Kept
        BY <1>2, <1>5, <2>1, <2>5, <2>7
      <3>2. sends[i].place = p /\ p \in Kept
        BY <1>3, <2>5, <3>1 DEF RetryInv, Instances
      <3>3. Remembers(p)
        BY <1>3, <3>2 DEF RetryInv, Remembered
      <3>4. \A k \in DOMAIN sends : k >= i /\ sends[k].inst = e.inst => sends[k].body = e.body /\ k \notin heard
        <4>1. SUFFICES ASSUME NEW k \in DOMAIN sends, k >= i, sends[k].inst = e.inst PROVE sends[k].body = e.body /\ k \notin heard
          OBVIOUS
        <4>2. k \in i .. (j - 1)
          BY <1>5, <2>3, <2>7, <4>1
        <4> QED BY <1>5, <2>2, <2>5, <3>1, <4>1, <4>2
      <3>5. forms[p].pending # NoKey
        BY <2>5, <3>1, <3>3, <3>4 DEF Remembers
      <3>6. PICK m \in DOMAIN sends : /\ Last(m, forms[p].inst) /\ m \notin heard
                                      /\ forms[p].pending.body = sends[m].body /\ forms[p].pending.key = sends[m].key
        BY <3>3, <3>5 DEF Remembers
      <3>7. m >= i /\ sends[m].inst = e.inst
        BY <1>5, <2>3, <2>5, <3>1, <3>6 DEF Last
      <3>8. sends[m].body = e.body /\ e.key = sends[m].key
        <4>1. sends[m].body = e.body
          BY <3>4, <3>6, <3>7
        <4>2. keyed = forms[p].pending
          BY <1>2, <3>6, <4>1 DEF KeyFor
        <4> QED BY <1>2, <3>6, <4>1, <4>2
      <3>9. CASE m = i
        BY <2>5, <3>1, <3>8, <3>9
      <3>10. CASE m > i
        <4>1. \A k \in i .. (m - 1) : k \in DOMAIN sends /\ k >= i
          BY <1>5, <2>3, <3>6
        <4>2. OneKey(i, m)
          BY <3>1, <3>4, <3>8, <4>1 DEF OneKey
        <4>3. sends[i].key = sends[m].key
          BY <2>5, <3>1, <3>6, <3>7, <3>10, <4>2 DEF RetryInv, Keyed
        <4> QED BY <2>5, <3>1, <3>8, <4>3
      <3> QED BY <1>5, <2>3, <3>6, <3>7, <3>9, <3>10
    <2> QED BY <1>5, <2>6, <2>7
  <1> QED BY <1>1, <1>8, <1>10, <1>14, <1>15, <1>16 DEF Remembered

\* At the start nothing was sent.
LEMMA WritingStart == WritingInit => RetryInv /\ Corrected
  <1> SUFFICES ASSUME WritingInit PROVE RetryInv /\ Corrected
    OBVIOUS
  <1>1. /\ client \in {"web", "mobile"} /\ signedIn = TRUE /\ tokenGood = TRUE /\ drafts = [p \in Kept |-> NoDraft] /\ forms = [p \in Places |-> Off]
        /\ made = 0 /\ moves = 0 /\ seed = NoSeed /\ taken = 0 /\ requests = {} /\ sends = <<>> /\ heard = {} /\ posted = <<>>
        /\ parentGone = FALSE /\ banned = FALSE /\ shown = "c" /\ held = "c"
    BY DEF WritingInit
  <1>2. /\ drafts \in [Kept -> Drafts] /\ forms \in [Places -> Forms] /\ seed \in [text : AnyText, at : Nat] /\ "c" \in AnyText
        /\ \A p \in Places : ~forms[p].on
    BY <1>1, WritingConstants
  <1>3. sends \in Seq(Sends) /\ posted \in Seq(Posts) /\ DOMAIN sends = {} /\ DOMAIN posted = {}
    BY <1>1
  <1>4. WritingTypes
    BY <1>1, <1>2, <1>3 DEF WritingTypes
  <1>5. Recorded /\ Instances /\ Remembered /\ Keyed
    BY <1>1, <1>2, <1>3, WritingConstants DEF Recorded, Instances, Remembered, Keyed
  <1>6. Corrected
    BY <1>1 DEF Corrected, Edits
  <1> QED BY <1>4, <1>5, <1>6 DEF RetryInv

\* Every action keeps the types and what is known of the keys.
LEMMA WritingStep == RetryInv /\ [WritingNext]_wvars => RetryInv'
  <1> SUFFICES ASSUME RetryInv, [WritingNext]_wvars PROVE RetryInv'
    OBVIOUS
  <1>1. ASSUME WritingTypes', Quiet PROVE RetryInv'
    BY <1>1, QuietKeeps DEF RetryInv
  <1>2. ASSUME NEW p \in Places, Offered(p) PROVE RetryInv'
    <2>1. CASE Mount(p)
      BY <2>1, MountKeeps DEF RetryInv
    <2>2. CASE SaveDraft(p) \/ \E t \in Texts : TypeText(p, t)
      BY <1>1, <2>2, FieldKeeps
    <2>3. CASE Leave(p)
      BY <1>1, <2>3, LeaveKeeps
    <2>4. CASE Submit(p)
      BY <2>4, SubmitKeeps DEF RetryInv
    <2> QED BY <1>2, <2>1, <2>2, <2>3, <2>4 DEF Offered
  <1>3. ASSUME NEW r \in requests, Answer_(r) PROVE RetryInv'
    <2>1. CASE Succeeds(r)
      BY <2>1, SucceedsKeeps DEF RetryInv
    <2>2. CASE Edited(r)
      BY <1>1, <2>2, EditedKeeps
    <2>3. CASE SessionOver(r)
      BY <1>1, <2>3, SessionOverKeeps
    <2>4. CASE Refused(r) \/ GivenUp(r)
      BY <1>1, <2>4, RefusedKeeps
    <2> QED BY <1>3, <2>1, <2>2, <2>3, <2>4 DEF Answer_
  <1>4. Kept \subseteq Places /\ "edit" \in Places
    BY WritingConstants
  <1>5. ASSUME NEW p \in Kept, DraftRead(p) PROVE RetryInv'
    <2>1. p \in Places
      BY <1>4
    <2> QED BY <1>1, <1>5, <2>1, FieldKeeps
  <1>6. CASE PostAsNew
    BY <1>1, <1>6, HandOverKeeps
  <1>7. CASE PageGone
    BY <1>1, <1>7, PageGoneKeeps
  <1>8. CASE Turn \/ SignIn
    BY <1>1, <1>8, TurnKeeps
  <1>9. ASSUME NEW r \in requests, Serve(r) PROVE RetryInv'
    BY <1>9, ServeKeeps DEF RetryInv
  <1>10. CASE UNCHANGED wvars
    <2>1. WritingTypes' /\ Quiet
      <3>1. WritingTypes'
        BY <1>10 DEF RetryInv, WritingTypes, wvars
      <3>2. Quiet
        BY <1>10, FewerAreQuiet DEF Quiet, wvars
      <3> QED BY <3>1, <3>2
    <2> QED BY <1>1, <2>1
  <1> QED BY <1>2, <1>3, <1>4, <1>5, <1>6, <1>7, <1>8, <1>9, <1>10 DEF WritingNext, WebForms, WebEditForm, WebAnswers, AppForms, AppAnswers

\* What is known of the keys says that a text sent again is written once.
LEMMA RetriesAreOne == RetryInv => RetryWritesOnce
  <1> SUFFICES ASSUME RetryInv PROVE RetryWritesOnce
    OBVIOUS
  <1>1. SUFFICES ASSUME NEW i \in DOMAIN posted, NEW j \in DOMAIN posted, i # j, posted[i].n < posted[j].n,
                        posted[i].inst = posted[j].inst, posted[i].body = posted[j].body,
                        ~\E k \in posted[i].n..(posted[j].n - 1) :
                            sends[k].inst = posted[i].inst /\ (sends[k].body # posted[i].body \/ k \in heard)
                 PROVE  FALSE
    BY DEF RetryWritesOnce
  <1>2. /\ posted[i].n \in DOMAIN sends /\ sends[posted[i].n].inst = posted[i].inst /\ sends[posted[i].n].body = posted[i].body
        /\ sends[posted[i].n].key = posted[i].key /\ sends[posted[i].n].place \in Kept
        /\ posted[j].n \in DOMAIN sends /\ sends[posted[j].n].inst = posted[j].inst /\ sends[posted[j].n].body = posted[j].body
        /\ sends[posted[j].n].key = posted[j].key
    BY DEF RetryInv, Recorded, Of
  <1>3. OneKey(posted[i].n, posted[j].n)
    BY <1>1, <1>2 DEF OneKey
  <1>4. posted[i].key = posted[j].key
    BY <1>1, <1>2, <1>3 DEF RetryInv, Keyed
  <1> QED BY <1>1, <1>4 DEF RetryInv, Recorded

\* As long as its form stands, a text sent again after an answer that never came is written once.
THEOREM RetriesWriteOnce == WritingSpec => []RetryWritesOnce
  <1>1. WritingInit => RetryInv
    BY WritingStart
  <1>2. RetryInv /\ [WritingNext]_wvars => RetryInv'
    BY WritingStep
  <1> QED BY <1>1, <1>2, RetriesAreOne, PTL DEF WritingSpec

\* Corrections neither sent nor answered: those under way keep their texts and answers, and none that was served goes.
LEMMA CorrectionsStay ==
  ASSUME RetryInv, Corrected, sends' = sends, held' = held, shown' = shown,
         \A s, t \in Edits' : s.n = t.n => s = t,
         \A s \in Edits' : \E r \in Edits : s.n = r.n /\ s.body = r.body /\ s.answer = r.answer,
         \A r \in Edits : r.answer = "done" => \E s \in Edits' : s.answer = "done"
  PROVE  Corrected'
  <1>1. SUFFICES ASSUME \A k \in DOMAIN sends' : ~sends'[k].over
                 PROVE  /\ \A r, s \in Edits' : r = s
                        /\ \A r \in Edits' : r.answer = "done" => r.body = held'
                        /\ shown' # held' => \E r \in Edits' : r.answer = "done"
    BY DEF Corrected
  <1>2. /\ \A r, s \in Edits : r = s
        /\ \A r \in Edits : r.answer = "done" => r.body = held
        /\ shown # held => \E r \in Edits : r.answer = "done"
    BY <1>1 DEF Corrected
  <1> QED BY <1>2

\* The requests under way go on as they were, or one that is no correction served goes or turns.
LEMMA OthersKeepCorrections ==
  ASSUME RetryInv, Corrected, sends' = sends, held' = held, shown' = shown,
         \/ requests' = requests
         \/ \E r \in requests : requests' = requests \ {r} /\ (r.place # "edit" \/ r.answer # "done")
         \/ \E r \in requests, w \in Requests : /\ requests' = (requests \ {r}) \union {w}
                                                /\ w.n = r.n /\ w.place = r.place /\ w.body = r.body
                                                /\ w.answer = r.answer \/ r.place # "edit"
  PROVE  Corrected'
  <1>1. Edits' = {r \in requests' : r.place = "edit"} /\ Edits = {r \in requests : r.place = "edit"}
    BY DEF Edits
  <1>2. \A r, s \in requests : r.n = s.n => r = s
    BY DEF RetryInv, Recorded
  <1>3. CASE requests' = requests
    BY <1>1, <1>2, <1>3, CorrectionsStay
  <1>4. CASE \E r \in requests : requests' = requests \ {r} /\ (r.place # "edit" \/ r.answer # "done")
    <2>1. PICK r \in requests : requests' = requests \ {r} /\ (r.place # "edit" \/ r.answer # "done")
      BY <1>4
    <2>2. \A s, t \in Edits' : s.n = t.n => s = t
      BY <1>1, <1>2, <2>1
    <2>3. \A s \in Edits' : \E q \in Edits : s.n = q.n /\ s.body = q.body /\ s.answer = q.answer
      BY <1>1, <2>1
    <2>4. \A q \in Edits : q.answer = "done" => \E s \in Edits' : s.answer = "done"
      BY <1>1, <2>1
    <2> QED BY <2>2, <2>3, <2>4, CorrectionsStay
  <1>5. CASE \E r \in requests, w \in Requests : /\ requests' = (requests \ {r}) \union {w}
                                                 /\ w.n = r.n /\ w.place = r.place /\ w.body = r.body
                                                 /\ w.answer = r.answer \/ r.place # "edit"
    <2>1. PICK r \in requests, w \in Requests : /\ requests' = (requests \ {r}) \union {w}
                                                /\ w.n = r.n /\ w.place = r.place /\ w.body = r.body
                                                /\ w.answer = r.answer \/ r.place # "edit"
      BY <1>5
    <2>2. \A s, t \in Edits' : s.n = t.n => s = t
      BY <1>1, <1>2, <2>1
    <2>3. \A s \in Edits' : \E q \in Edits : s.n = q.n /\ s.body = q.body /\ s.answer = q.answer
      <3>1. SUFFICES ASSUME NEW s \in Edits' PROVE \E q \in Edits : s.n = q.n /\ s.body = q.body /\ s.answer = q.answer
        OBVIOUS
      <3>2. CASE s = w
        BY <1>1, <2>1, <3>1, <3>2
      <3>3. CASE s \in requests
        BY <1>1, <3>1, <3>3
      <3> QED BY <1>1, <2>1, <3>1, <3>2, <3>3
    <2>4. \A q \in Edits : q.answer = "done" => \E s \in Edits' : s.answer = "done"
      <3>1. SUFFICES ASSUME NEW q \in Edits, q.answer = "done" PROVE \E s \in Edits' : s.answer = "done"
        OBVIOUS
      <3>2. CASE q = r
        <4>1. w \in Edits' /\ w.answer = "done"
          BY <1>1, <2>1, <3>1, <3>2
        <4> QED BY <4>1
      <3>3. CASE q # r
        <4>1. q \in Edits'
          BY <1>1, <2>1, <3>1, <3>3
        <4> QED BY <3>1, <4>1
      <3> QED BY <3>2, <3>3
    <2> QED BY <2>2, <2>3, <2>4, CorrectionsStay
  <1> QED BY <1>3, <1>4, <1>5

\* A correction sent, served, shown on the page, or left behind as the page goes.
LEMMA CorrectionSent ==
  ASSUME RetryInv, Corrected, NEW p \in Places, Submit(p)
  PROVE  Corrected'
  <1>1. PICK e \in Sends, w \in Requests, keyed \in PendingKeys :
               /\ keyed = KeyFor(forms[p].pending, Body(forms[p].text)) /\ keyed.body = Body(forms[p].text) /\ keyed.body # ""
               /\ sends' = Append(sends, e) /\ requests' = requests \union {w}
               /\ e.place = p /\ e.inst = forms[p].inst /\ e.body = keyed.body /\ e.key = keyed.key
               /\ e.over = (p = "edit" /\ \E r \in requests : r.place = "edit")
               /\ w.n = Len(sends) + 1 /\ w.place = p /\ w.inst = forms[p].inst /\ w.body = keyed.body /\ w.key = keyed.key
               /\ w.answer = "none" /\ w.awaited = TRUE
               /\ forms'[p].on /\ forms'[p].inst = forms[p].inst /\ forms'[p].sending
               /\ forms'[p].pending = IF p \in Kept THEN keyed ELSE NoKey
    BY SubmitMakes
  <1>2. shown' = shown /\ held' = held
    BY DEF Submit
  <1>3. SUFFICES ASSUME \A k \in DOMAIN sends' : ~sends'[k].over
                 PROVE  /\ \A r, s \in Edits' : r = s
                        /\ \A r \in Edits' : r.answer = "done" => r.body = held
                        /\ shown # held => \E r \in Edits' : r.answer = "done"
    BY <1>2 DEF Corrected
  <1>4. ~e.over /\ \A k \in DOMAIN sends : ~sends[k].over
    <2>1. sends \in Seq(Sends) /\ sends' = Append(sends, e)
      BY <1>1 DEF RetryInv, WritingTypes
    <2>2. Len(sends) + 1 \in DOMAIN sends' /\ sends'[Len(sends) + 1] = e
      BY <2>1
    <2>3. \A k \in DOMAIN sends : k \in DOMAIN sends' /\ sends'[k] = sends[k]
      BY <2>1
    <2> QED BY <1>3, <2>2, <2>3
  <1>5. /\ \A r, s \in Edits : r = s
        /\ \A r \in Edits : r.answer = "done" => r.body = held
        /\ shown # held => \E r \in Edits : r.answer = "done"
    BY <1>4 DEF Corrected
  <1>6. Edits' = {r \in requests' : r.place = "edit"} /\ Edits = {r \in requests : r.place = "edit"}
    BY DEF Edits
  <1>7. requests' = requests \union {w} /\ w.place = p /\ w.answer = "none"
    BY <1>1
  <1>8. CASE p = "edit"
    <2>1. Edits = {}
      BY <1>1, <1>4, <1>6, <1>8
    <2>2. Edits' = {w}
      BY <1>6, <1>7, <1>8, <2>1
    <2> QED BY <1>5, <1>7, <2>1, <2>2
  <1>9. CASE p # "edit"
    <2>1. Edits' = Edits
      BY <1>6, <1>7, <1>9
    <2> QED BY <1>5, <2>1
  <1> QED BY <1>8, <1>9

\* The service takes a correction.
LEMMA CorrectionServed ==
  ASSUME RetryInv, Corrected, NEW r \in requests, Serve(r)
  PROVE  Corrected'
  <1>1. PICK a \in AnswerKinds : /\ requests' = (requests \ {r}) \union {[r EXCEPT !.answer = a]}
                              /\ held' = IF r.place = "edit" /\ a = "done" THEN r.body ELSE held
    BY ServeTypes
  <1>2. sends' = sends /\ shown' = shown /\ r.answer = "none"
    BY DEF Serve
  <1>3. PICK w : w = [r EXCEPT !.answer = a]
    OBVIOUS
  <1>4. w \in Requests /\ w.n = r.n /\ w.place = r.place /\ w.body = r.body /\ w.answer = a
    <2>1. r \in Requests
      BY DEF RetryInv, WritingTypes
    <2> QED BY <1>3, <2>1 DEF Requests
  <1>5. requests' = (requests \ {r}) \union {w}
    BY <1>1, <1>3
  <1>6. CASE r.place # "edit"
    <2>1. held' = held
      BY <1>1, <1>6
    <2> QED BY <1>2, <1>4, <1>5, <1>6, <2>1, OthersKeepCorrections
  <1>7. CASE r.place = "edit"
    <2>1. SUFFICES ASSUME \A k \in DOMAIN sends : ~sends[k].over
                   PROVE  /\ \A q, s \in Edits' : q = s
                          /\ \A q \in Edits' : q.answer = "done" => q.body = held'
                          /\ shown # held' => \E q \in Edits' : q.answer = "done"
      BY <1>2 DEF Corrected
    <2>2. /\ \A q, s \in Edits : q = s
          /\ shown # held => \E q \in Edits : q.answer = "done"
      BY <2>1 DEF Corrected
    <2>3. Edits' = {q \in requests' : q.place = "edit"} /\ Edits = {q \in requests : q.place = "edit"}
      BY DEF Edits
    <2>4. Edits = {r}
      BY <1>7, <2>2, <2>3
    <2>5. Edits' = {w}
      BY <1>4, <1>5, <1>7, <2>3, <2>4
    <2>6. shown = held
      BY <1>2, <2>2, <2>4
    <2> QED BY <1>1, <1>4, <1>7, <2>5, <2>6
  <1> QED BY <1>6, <1>7

\* A correction is shown on the page.
LEMMA CorrectionShown ==
  ASSUME Corrected, NEW r \in requests, Edited(r)
  PROVE  Corrected'
  <1>1. requests' = requests \ {r} /\ shown' = r.body /\ held' = held /\ sends' = sends /\ r.place = "edit" /\ r.answer = "done"
    BY DEF Edited
  <1>2. SUFFICES ASSUME \A k \in DOMAIN sends : ~sends[k].over
                 PROVE  /\ \A q, s \in Edits' : q = s
                        /\ \A q \in Edits' : q.answer = "done" => q.body = held
                        /\ shown' # held => \E q \in Edits' : q.answer = "done"
    BY <1>1 DEF Corrected
  <1>3. /\ \A q, s \in Edits : q = s
        /\ \A q \in Edits : q.answer = "done" => q.body = held
    BY <1>2 DEF Corrected
  <1>4. Edits' = {q \in requests' : q.place = "edit"} /\ Edits = {q \in requests : q.place = "edit"}
    BY DEF Edits
  <1>5. r \in Edits /\ Edits' = {}
    BY <1>1, <1>3, <1>4
  <1> QED BY <1>1, <1>3, <1>5

\* The page goes, and comes back with what the service holds.
LEMMA CorrectionsLeft ==
  ASSUME RetryInv, Corrected, PageGone
  PROVE  Corrected'
  <1>1. shown' = held /\ held' = held /\ sends' = sends /\ requests' = {[r EXCEPT !.awaited = FALSE] : r \in requests}
    BY DEF PageGone
  <1>2. \A r \in requests : [r EXCEPT !.awaited = FALSE].place = r.place /\ [r EXCEPT !.awaited = FALSE].body = r.body
                            /\ [r EXCEPT !.awaited = FALSE].answer = r.answer
    BY DEF RetryInv, WritingTypes, Requests
  <1>3. SUFFICES ASSUME \A k \in DOMAIN sends : ~sends[k].over
                 PROVE  /\ \A q, s \in Edits' : q = s
                        /\ \A q \in Edits' : q.answer = "done" => q.body = held
    BY <1>1 DEF Corrected
  <1>4. /\ \A q, s \in Edits : q = s
        /\ \A q \in Edits : q.answer = "done" => q.body = held
    BY <1>3 DEF Corrected
  <1>5. \A q \in Edits' : \E r \in Edits : q = [r EXCEPT !.awaited = FALSE] /\ q.body = r.body /\ q.answer = r.answer
    <2>1. SUFFICES ASSUME NEW q \in requests', q.place = "edit"
                   PROVE  \E r \in Edits : q = [r EXCEPT !.awaited = FALSE] /\ q.body = r.body /\ q.answer = r.answer
      BY DEF Edits
    <2>2. PICK r \in requests : q = [r EXCEPT !.awaited = FALSE]
      BY <1>1
    <2>3. r.place = q.place /\ q.body = r.body /\ q.answer = r.answer
      BY <1>2, <2>2
    <2>4. r \in Edits
      BY <2>1, <2>3 DEF Edits
    <2> QED BY <2>2, <2>3, <2>4
  <1> QED BY <1>4, <1>5

\* Every action keeps what is known of the corrections.
LEMMA CorrectedStep == RetryInv /\ Corrected /\ [WritingNext]_wvars => Corrected'
  <1> SUFFICES ASSUME RetryInv, Corrected, [WritingNext]_wvars PROVE Corrected'
    OBVIOUS
  <1>1. ASSUME sends' = sends, held' = held, shown' = shown, requests' = requests PROVE Corrected'
    BY <1>1, OthersKeepCorrections
  <1>2. ASSUME NEW p \in Places, Offered(p) PROVE Corrected'
    <2>1. CASE Submit(p)
      BY <2>1, CorrectionSent
    <2>2. CASE Mount(p) \/ SaveDraft(p) \/ Leave(p) \/ \E t \in Texts : TypeText(p, t)
      BY <1>1, <2>2 DEF Mount, SaveDraft, Leave, TypeText
    <2> QED BY <1>2, <2>1, <2>2 DEF Offered
  <1>3. ASSUME NEW r \in requests, Answer_(r) PROVE Corrected'
    <2>1. CASE Succeeds(r)
      <3>1. sends' = sends /\ held' = held /\ shown' = shown /\ requests' = requests \ {r} /\ r.place # "edit"
        BY <2>1, WritingConstants DEF Succeeds
      <3> QED BY <3>1, OthersKeepCorrections
    <2>2. CASE Edited(r)
      BY <2>2, CorrectionShown
    <2>3. CASE SessionOver(r) \/ Refused(r)
      <3>1. sends' = sends /\ held' = held /\ shown' = shown /\ requests' = requests \ {r} /\ r.answer # "done"
        BY <2>3 DEF SessionOver, Refused
      <3> QED BY <3>1, OthersKeepCorrections
    <2>4. CASE GivenUp(r)
      <3>1. sends' = sends /\ held' = held /\ shown' = shown /\ requests' = (requests \ {r}) \union {[r EXCEPT !.awaited = FALSE]}
        BY <2>4 DEF GivenUp
      <3>2. PICK w : w = [r EXCEPT !.awaited = FALSE]
        OBVIOUS
      <3>3. w \in Requests /\ w.n = r.n /\ w.place = r.place /\ w.body = r.body /\ w.answer = r.answer
        <4>1. r \in Requests
          BY DEF RetryInv, WritingTypes
        <4> QED BY <3>2, <4>1 DEF Requests
      <3> QED BY <3>1, <3>2, <3>3, OthersKeepCorrections
    <2> QED BY <1>3, <2>1, <2>2, <2>3, <2>4 DEF Answer_
  <1>4. Kept \subseteq Places /\ "edit" \in Places
    BY WritingConstants
  <1>5. CASE (\E p \in Kept : DraftRead(p)) \/ PostAsNew \/ Turn \/ SignIn
    BY <1>1, <1>5 DEF DraftRead, PostAsNew, Turn, SignIn
  <1>6. CASE PageGone
    BY <1>6, CorrectionsLeft
  <1>7. ASSUME NEW r \in requests, Serve(r) PROVE Corrected'
    BY <1>7, CorrectionServed
  <1>8. CASE UNCHANGED wvars
    BY <1>1, <1>8 DEF wvars
  <1> QED BY <1>2, <1>3, <1>4, <1>5, <1>6, <1>7, <1>8 DEF WritingNext, WebForms, WebEditForm, WebAnswers, AppForms, AppAnswers

\* Where the comment on the page reads otherwise than with the service, the answer of the correction the service
\* holds is on the way, or one was sent over another.
THEOREM CorrectionsAreShown == WritingSpec => []ShownIsHeld
  <1>1. WritingInit => RetryInv /\ Corrected
    BY WritingStart
  <1>2. RetryInv /\ Corrected /\ [WritingNext]_wvars => (RetryInv /\ Corrected)'
    BY WritingStep, CorrectedStep
  <1>3. RetryInv /\ Corrected => ShownIsHeld
    BY DEF Corrected, Edits, ShownIsHeld
  <1> QED BY <1>1, <1>2, <1>3, PTL DEF WritingSpec

\* A form that goes leaves its text, and a draft goes for a reason
LeavesItsText(p) ==
    forms[p].on /\ ~forms'[p].on /\ Body(forms[p].text) # "" =>
        \/ drafts'[p].text = forms[p].text
        \/ \E r \in requests \ requests' : r.answer = "done" /\ r.inst = forms[p].inst
        \/ p = "reply" /\ seed'.text = forms[p].text /\ seed' # seed
        \/ forms[p].sent
        \/ PageGone
DropsForAReason(p) ==
    client = "web" /\ drafts[p] # NoDraft /\ drafts'[p].text # drafts[p].text =>
        \/ drafts[p].old
        \/ forms[p].on /\ drafts'[p] = Saved(drafts, p, forms[p].text)[p]
        \/ \E r \in requests \ requests' : r.place = p /\ r.answer = "done"
        \/ p = "reply" /\ seed' # seed

\* Where the drafts stay and no form goes there is nothing to ask.
LEMMA NothingGoes ==
  ASSUME NEW p \in Kept, drafts'[p] = drafts[p] \/ drafts'[p].text = drafts[p].text, forms[p].on => forms'[p].on
  PROVE  LeavesItsText(p) /\ DropsForAReason(p)
  BY DEF LeavesItsText, DropsForAReason

\* A text saved is the draft.
LEMMA SavedText ==
  ASSUME NEW ds \in [Kept -> Drafts], NEW p \in Kept, NEW text \in AnyText
  PROVE  Body(text) # "" => Saved(ds, p, text)[p].text = text
  <1>1. SUFFICES ASSUME Body(text) # "" PROVE Saved(ds, p, text)[p].text = text
    OBVIOUS
  <1>2. Saved(ds, p, text) = [ds EXCEPT ![p] = [text |-> text, old |-> FALSE]]
    BY <1>1 DEF Saved
  <1> QED BY <1>2

\* The other drafts stay.
LEMMA SavedElsewhere ==
  ASSUME NEW ds \in [Kept -> Drafts], NEW p \in Places, NEW text \in AnyText, NEW q \in Kept, q # p
  PROVE  Saved(ds, p, text)[q] = ds[q] /\ Cleared(ds, p)[q] = ds[q]
  <1>1. PICK d : d = IF Body(text) = "" THEN NoDraft ELSE [text |-> text, old |-> FALSE]
    OBVIOUS
  <1>2. Saved(ds, p, text) = IF p \notin Kept THEN ds ELSE [ds EXCEPT ![p] = d]
    BY <1>1 DEF Saved
  <1>3. Cleared(ds, p) = IF p \notin Kept THEN ds ELSE [ds EXCEPT ![p] = NoDraft]
    BY WritingConstants DEF Cleared, Saved
  <1> QED BY <1>2, <1>3

\* Forms that go while the page stays.
LEMMA GoingSaves ==
  ASSUME WritingTypes, NEW p \in Kept, NEW gone \in SUBSET Places, drafts' = LastSaved(drafts, gone), forms' = Gone(gone)
  PROVE  LeavesItsText(p) /\ DropsForAReason(p)
  <1>1. /\ drafts \in [Kept -> Drafts] /\ p \in Places /\ forms[p].text \in AnyText
    BY WritingConstants, WritingFields DEF WritingTypes
  <1>2. /\ drafts'[p] = IF p \in gone /\ forms[p].on /\ ~forms[p].sent THEN Saved(drafts, p, forms[p].text)[p] ELSE drafts[p]
        /\ forms'[p] = IF p \in gone THEN Off ELSE forms[p]
    BY <1>1, GoneMakes
  <1>3. Body(forms[p].text) # "" => Saved(drafts, p, forms[p].text)[p].text = forms[p].text
    BY <1>1, SavedText
  <1> QED BY <1>2, <1>3 DEF LeavesItsText, DropsForAReason

\* A success drops the draft of its place, and the form it was told to.
LEMMA SucceedsDrops ==
  ASSUME WritingTypes, NEW p \in Kept, NEW r \in requests, Succeeds(r)
  PROVE  LeavesItsText(p) /\ DropsForAReason(p)
  <1>1. /\ r.answer = "done" /\ r.place \in Kept /\ requests' = requests \ {r} /\ r \in requests \ requests'
    BY DEF Succeeds
  <1>2. /\ drafts \in [Kept -> Drafts] /\ p \in Places /\ forms[p].text \in AnyText /\ "" \in AnyText /\ r.place \in Places
        /\ Kept = {"top", "reply"} /\ {"reply"} \in SUBSET Places /\ "top" \in Places /\ "reply" \in Places /\ forms["top"] \in Forms
        /\ forms \in [Places -> Forms]
    BY <1>1, WritingConstants, WritingFields DEF WritingTypes
  <1>3. PICK after \in [Kept -> Drafts] : after = Cleared(drafts, r.place)
    BY <1>2, SavedMakes DEF Cleared
  <1>4. \A q \in Kept : q # r.place => after[q] = drafts[q]
    <2>1. SUFFICES ASSUME NEW q \in Kept, q # r.place PROVE Cleared(drafts, r.place)[q] = drafts[q]
      BY <1>3
    <2>2. drafts \in [Kept -> Drafts] /\ r.place \in Places /\ "" \in AnyText
      BY <1>2
    <2> QED BY <2>1, <2>2, SavedElsewhere
  <1>5. CASE r.place = "reply"
    <2>1. drafts' = IF Live(r) THEN after ELSE LastSaved(after, {"reply"})
      BY <1>3, <1>5 DEF Succeeds
    <2>2. forms' = Gone({"reply"})
      BY <1>5 DEF Succeeds
    <2>3. /\ LastSaved(after, {"reply"})[p] = IF p \in {"reply"} /\ forms[p].on /\ ~forms[p].sent THEN Saved(after, p, forms[p].text)[p] ELSE after[p]
          /\ forms'[p] = IF p \in {"reply"} THEN Off ELSE forms[p]
      <3>1. {"reply"} \in SUBSET Places
        BY <1>2
      <3>2. /\ LastSaved(after, {"reply"})[p] = IF p \in {"reply"} /\ forms[p].on /\ ~forms[p].sent THEN Saved(after, p, forms[p].text)[p] ELSE after[p]
            /\ \A q \in Places : Gone({"reply"})[q] = IF q \in {"reply"} THEN Off ELSE forms[q]
        BY <3>1, GoneMakes
      <3> QED BY <1>2, <2>2, <3>2
    <2>4. CASE p = "top"
      <3>1. drafts'[p] = drafts[p] /\ forms'[p] = forms[p]
        BY <1>4, <1>5, <2>1, <2>3, <2>4
      <3> QED BY <3>1, NothingGoes
    <2>5. CASE p = "reply"
      <3>1. DropsForAReason(p)
        BY <1>1, <1>5, <2>5 DEF DropsForAReason
      <3>2. CASE Live(r)
        <4>1. r.inst = forms[p].inst
          BY <1>5, <2>5, <3>2 DEF Live
        <4> QED BY <1>1, <3>1, <4>1 DEF LeavesItsText
      <3>3. CASE ~Live(r)
        <4>1. Body(forms[p].text) # "" => Saved(after, p, forms[p].text)[p].text = forms[p].text
          <5>1. forms[p].text \in AnyText
            BY <1>2
          <5> QED BY <5>1, SavedText
        <4>2. forms[p].on /\ ~forms[p].sent => drafts'[p] = Saved(after, p, forms[p].text)[p]
          BY <2>1, <2>3, <2>5, <3>3
        <4> QED BY <3>1, <4>1, <4>2 DEF LeavesItsText
      <3> QED BY <3>2, <3>3
    <2> QED BY <1>2, <2>4, <2>5
  <1>6. CASE r.place = "top"
    <2>1. drafts' = after
      BY <1>3, <1>6 DEF Succeeds
    <2>2. forms' = IF ~Live(r) THEN forms
                   ELSE [forms EXCEPT !["top"].text = "", !["top"].pending = NoKey, !["top"].sent = TRUE,
                                      !["top"].sending = FALSE, !["top"].unsaved = TRUE]
      BY <1>6 DEF Succeeds
    <2>3. forms'[p].on = forms[p].on
      BY <1>2, <2>2 DEF Forms
    <2>4. CASE p = "top"
      <3>1. DropsForAReason(p)
        BY <1>1, <1>6, <2>4 DEF DropsForAReason
      <3> QED BY <2>3, <3>1 DEF LeavesItsText
    <2>5. CASE p = "reply"
      <3>1. drafts'[p] = drafts[p]
        BY <1>4, <1>6, <2>1, <2>5
      <3> QED BY <2>3, <3>1, NothingGoes
    <2> QED BY <1>2, <2>4, <2>5
  <1> QED BY <1>1, <1>2, <1>5, <1>6

\* A reply handed over takes its draft with it.
LEMMA HandOverDrops ==
  ASSUME WritingTypes, NEW p \in Kept, PostAsNew
  PROVE  LeavesItsText(p) /\ DropsForAReason(p)
  <1>1. /\ drafts \in [Kept -> Drafts] /\ Kept = {"top", "reply"} /\ "" \in AnyText /\ "top" \in Places /\ "reply" \in Places /\ seed.at \in Nat
        /\ forms \in [Places -> Forms] /\ forms["top"] \in Forms
    BY WritingConstants, WritingFields DEF WritingTypes
  <1>2. drafts' = Cleared(drafts, "reply") /\ seed' = [text |-> forms["reply"].text, at |-> seed.at + 1]
    BY DEF PostAsNew
  <1>3. seed'.text = forms["reply"].text /\ seed' # seed
    <2>1. seed'.text = forms["reply"].text /\ seed'.at = seed.at + 1
      BY <1>2
    <2>2. seed.at + 1 # seed.at
      <3>1. seed.at \in Nat
        BY <1>1
      <3> QED BY <3>1
    <2> QED BY <2>1, <2>2
  <1>4. CASE p = "reply"
    BY <1>3, <1>4 DEF LeavesItsText, DropsForAReason
  <1>5. CASE p = "top"
    <2>1. drafts'[p] = drafts[p]
      <3>1. drafts \in [Kept -> Drafts] /\ "reply" \in Places /\ "" \in AnyText /\ p # "reply"
        BY <1>1, <1>5
      <3>2. Cleared(drafts, "reply")[p] = drafts[p]
        BY <3>1, SavedElsewhere
      <3> QED BY <1>2, <3>2
    <2>2. forms'[p].on = forms[p].on
      <3>1. forms' = [forms EXCEPT !["reply"] = Off,
                         !["top"] = IF forms["top"].on THEN [@ EXCEPT !.text = forms["reply"].text, !.unsaved = TRUE] ELSE @]
        BY DEF PostAsNew
      <3> QED BY <1>1, <1>5, <3>1 DEF Forms
    <2> QED BY <2>1, <2>2, NothingGoes
  <1> QED BY <1>1, <1>4, <1>5

\* What a form offers: only leaving takes it off the page.
LEMMA OfferedDrops ==
  ASSUME RetryInv, NEW p \in Kept, NEW q \in Places, Offered(q)
  PROVE  LeavesItsText(p) /\ DropsForAReason(p)
  <1>1. WritingTypes /\ p \in Places /\ drafts \in [Kept -> Drafts] /\ forms \in [Places -> Forms] /\ forms[q] \in Forms
        /\ forms[q].text \in AnyText /\ {q} \in SUBSET Places /\ NoDraft.text = ""
    BY WritingConstants, WritingFields DEF RetryInv, WritingTypes
  <1>2. CASE Mount(q)
    <2>1. forms[p].on => forms'[p].on
      BY <1>1, <1>2, MountTypes
    <2>2. CASE p = q
      <3>1. drafts' = [drafts EXCEPT ![q] = Fresh(drafts[q])]
        BY <1>2, <2>2 DEF Mount
      <3>2. drafts'[p] = Fresh(drafts[p])
        BY <1>1, <2>2, <3>1
      <3> QED BY <2>1, <3>2 DEF Fresh, LeavesItsText, DropsForAReason
    <2>3. CASE p # q
      <3>1. drafts'[p] = drafts[p]
        BY <1>1, <1>2, <2>3 DEF Mount
      <3> QED BY <2>1, <3>1, NothingGoes
    <2> QED BY <2>2, <2>3
  <1>3. CASE SaveDraft(q)
    <2>1. forms'[p].on = forms[p].on
      BY <1>1, <1>3 DEF SaveDraft, Forms
    <2>2. drafts' = Saved(drafts, q, forms[q].text) /\ forms[q].on
      BY <1>3 DEF SaveDraft
    <2>3. CASE p = q
      BY <2>1, <2>2, <2>3 DEF LeavesItsText, DropsForAReason
    <2>4. CASE p # q
      <3>1. drafts'[p] = drafts[p]
        <4>1. drafts \in [Kept -> Drafts] /\ forms[q].text \in AnyText
          BY <1>1
        <4> QED BY <2>2, <2>4, <4>1, SavedElsewhere
      <3> QED BY <2>1, <3>1, NothingGoes
    <2> QED BY <2>3, <2>4
  <1>4. CASE Leave(q)
    <2>1. drafts' = LastSaved(drafts, {q}) /\ forms' = Gone({q})
      BY <1>4 DEF Leave
    <2> QED BY <1>1, <2>1, GoingSaves
  <1>5. CASE Submit(q)
    <2>1. drafts' = drafts
      BY <1>5 DEF Submit, device
    <2>2. forms[p].on => forms'[p].on
      BY <1>1, <1>5, SubmitMakes
    <2> QED BY <2>1, <2>2, NothingGoes
  <1>6. CASE \E t \in Texts : TypeText(q, t)
    <2>1. drafts' = drafts /\ forms'[p].on = forms[p].on
      <3>1. PICK t \in Texts : TypeText(q, t)
        BY <1>6
      <3>2. forms' = [forms EXCEPT ![q].text = t, ![q].unsaved = q \in Kept] /\ drafts' = drafts
        BY <3>1 DEF TypeText
      <3> QED BY <1>1, <3>2 DEF Forms
    <2> QED BY <2>1, NothingGoes
  <1> QED BY <1>2, <1>3, <1>4, <1>5, <1>6 DEF Offered

\* An answer: only a success and the end of the session take forms off the page.
LEMMA AnswerDrops ==
  ASSUME RetryInv, NEW p \in Kept, NEW r \in requests, Answer_(r)
  PROVE  LeavesItsText(p) /\ DropsForAReason(p)
  <1>1. WritingTypes /\ p \in Places /\ p # "edit" /\ forms \in [Places -> Forms] /\ r.place \in Places /\ Kept \in SUBSET Places
        /\ {"edit"} \in SUBSET Places
    BY WritingConstants, WritingFields DEF RetryInv, WritingTypes
  <1>2. CASE Succeeds(r)
    BY <1>1, <1>2, SucceedsDrops
  <1>3. CASE Edited(r)
    <2>1. drafts' = drafts /\ forms' = Gone({"edit"})
      BY <1>3 DEF Edited, device
    <2>2. drafts \in [Kept -> Drafts]
      BY <1>1 DEF WritingTypes
    <2>3. forms'[p] = forms[p]
      BY <1>1, <2>1, <2>2, GoneMakes
    <2> QED BY <2>1, <2>3, NothingGoes
  <1>4. CASE SessionOver(r)
    <2>1. drafts' = LastSaved(drafts, Kept) /\ forms' = Gone(Places)
      BY <1>4 DEF SessionOver
    <2>2. /\ drafts'[p] = LastSaved(drafts, Kept)[p] /\ drafts \in [Kept -> Drafts] /\ Places \in SUBSET Places
      BY <1>1, <2>1 DEF WritingTypes
    <2>3. drafts'[p] = IF forms[p].on /\ ~forms[p].sent THEN Saved(drafts, p, forms[p].text)[p] ELSE drafts[p]
      BY <1>1, <2>2, GoneMakes
    <2>4. Body(forms[p].text) # "" => Saved(drafts, p, forms[p].text)[p].text = forms[p].text
      <3>1. forms[p].text \in AnyText
        BY <1>1, WritingFields
      <3>2. drafts \in [Kept -> Drafts]
        BY <2>2
      <3> QED BY <3>1, <3>2, SavedText
    <2>5. LeavesItsText(p)
      BY <2>3, <2>4 DEF LeavesItsText
    <2>6. DropsForAReason(p)
      BY <2>3 DEF DropsForAReason
    <2> QED BY <2>5, <2>6
  <1>5. CASE Refused(r) \/ GivenUp(r)
    <2>1. drafts' = drafts
      BY <1>5 DEF Refused, GivenUp, device
    <2>2. forms[p].on => forms'[p].on
      <3>1. CASE Refused(r)
        <4>1. forms' = IF ~Live(r) THEN forms
                       ELSE [forms EXCEPT ![r.place].sending = FALSE, ![r.place].restricted = r.answer = "restricted" /\ r.place \in Kept,
                                          ![r.place].failure = r.answer]
          BY <3>1 DEF Refused
        <4> QED BY <1>1, <4>1 DEF Forms
      <3>2. CASE GivenUp(r)
        <4>1. forms' = IF ~Live(r) THEN forms ELSE [forms EXCEPT ![r.place].sending = FALSE, ![r.place].failure = "network"]
          BY <3>2 DEF GivenUp
        <4> QED BY <1>1, <4>1 DEF Forms
      <3> QED BY <1>5, <3>1, <3>2
    <2> QED BY <2>1, <2>2, NothingGoes
  <1> QED BY <1>2, <1>3, <1>4, <1>5 DEF Answer_

\* A form that goes while the page stays leaves its text in the draft, and a draft is dropped or replaced for a reason.
THEOREM DraftsStay == WritingSpec => DraftsAreKept
  <1>1. WritingInit => RetryInv
    BY WritingStart
  <1>2. RetryInv /\ [WritingNext]_wvars => RetryInv'
    BY WritingStep
  <1>3. ASSUME RetryInv, [WritingNext]_wvars PROVE \A p \in Kept : LeavesItsText(p) /\ DropsForAReason(p)
    <2>1. SUFFICES ASSUME NEW p \in Kept PROVE LeavesItsText(p) /\ DropsForAReason(p)
      OBVIOUS
    <2>2. WritingTypes /\ Kept \subseteq Places /\ "edit" \in Places /\ p \in Places /\ forms \in [Places -> Forms] /\ drafts \in [Kept -> Drafts]
      BY <1>3, WritingConstants DEF RetryInv, WritingTypes
    <2>3. ASSUME NEW q \in Places, Offered(q) PROVE LeavesItsText(p) /\ DropsForAReason(p)
      BY <1>3, <2>3, OfferedDrops
    <2>4. ASSUME NEW r \in requests, Answer_(r) PROVE LeavesItsText(p) /\ DropsForAReason(p)
      BY <1>3, <2>4, AnswerDrops
    <2>5. ASSUME NEW q \in Kept, DraftRead(q) PROVE LeavesItsText(p) /\ DropsForAReason(p)
      <3>1. drafts' = drafts
        BY <2>5 DEF DraftRead, device
      <3>2. forms'[p].on = forms[p].on
        BY <2>2, <2>5 DEF DraftRead, Forms
      <3> QED BY <3>1, <3>2, NothingGoes
    <2>6. CASE PostAsNew
      BY <2>2, <2>6, HandOverDrops
    <2>7. CASE PageGone
      <3>1. drafts' = drafts
        BY <2>7 DEF PageGone
      <3> QED BY <2>7, <3>1 DEF LeavesItsText, DropsForAReason
    <2>8. CASE Turn
      <3>1. forms' = forms
        BY <2>8 DEF Turn
      <3>2. drafts' = drafts \/ drafts' = [q \in Kept |-> IF drafts[q] = NoDraft THEN NoDraft ELSE [drafts[q] EXCEPT !.old = TRUE]]
        BY <2>8 DEF Turn
      <3>3. drafts[p] \in Drafts
        BY <2>2
      <3>4. drafts'[p].text = drafts[p].text
        BY <3>2, <3>3 DEF Drafts
      <3> QED BY <3>1, <3>4, NothingGoes
    <2>9. CASE SignIn \/ \E r \in requests : Serve(r)
      <3>1. drafts' = drafts /\ forms' = forms
        BY <2>9 DEF SignIn, Serve, device
      <3> QED BY <3>1, NothingGoes
    <2>10. CASE UNCHANGED wvars
      BY <2>10, NothingGoes DEF wvars
    <2> QED BY <1>3, <2>2, <2>3, <2>4, <2>5, <2>6, <2>7, <2>8, <2>9, <2>10
            DEF WritingNext, WebForms, WebEditForm, WebAnswers, AppForms, AppAnswers
  <1>4. RetryInv /\ [WritingNext]_wvars =>
          [\A p \in Kept :
            /\ forms[p].on /\ ~forms'[p].on /\ Body(forms[p].text) # "" =>
                \/ drafts'[p].text = forms[p].text
                \/ \E r \in requests \ requests' : r.answer = "done" /\ r.inst = forms[p].inst
                \/ p = "reply" /\ seed'.text = forms[p].text /\ seed' # seed
                \/ forms[p].sent
                \/ PageGone
            /\ client = "web" /\ drafts[p] # NoDraft /\ drafts'[p].text # drafts[p].text =>
                \/ drafts[p].old
                \/ forms[p].on /\ drafts'[p] = Saved(drafts, p, forms[p].text)[p]
                \/ \E r \in requests \ requests' : r.place = p /\ r.answer = "done"
                \/ p = "reply" /\ seed' # seed]_wvars
    BY <1>3 DEF LeavesItsText, DropsForAReason
  <1> QED BY <1>1, <1>2, <1>4, PTL DEF WritingSpec, DraftsAreKept
==============================================================================
