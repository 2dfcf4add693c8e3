-------------------------- MODULE ProjectLogTheorems --------------------------
(***************************************************************************)
(* Facts about the reduction of the project log that hold for any bodies:  *)
(* what publishing a transaction behind the high watermark of a complete   *)
(* log does to forks, to the nesting of the histories and to completeness. *)
(***************************************************************************)
EXTENDS ProjectLog, FiniteSetTheorems, SequenceTheorems, WellFoundedInduction, TLAPS

(* Of two transactions in the log, the shorter history begins the longer.  *)
Nested(log) == \A d, e \in log : Len(d) <= Len(e) => SubSeq(e, 1, Len(d)) = d

(* A body whose command and events are on no transaction of history h.     *)
FreshFor(h, b) ==
    \A i \in 1..Len(h) : /\ CommandOf[h[i]] # CommandOf[b]
                         /\ EventsOf[h[i]] \cap EventsOf[b] = {}

(***************************************************************************)
(* Induction over the naturals, for sets: the library states it with an     *)
(* operator for what is to be shown, which no backend can instantiate, but   *)
(* that < is well founded and that a least element follows it states of     *)
(* relations and sets.                                                     *)
(***************************************************************************)
LEMMA LeastNatural ==
    ASSUME NEW S \in SUBSET Nat, S # {}
    PROVE  \E m \in S : \A n \in S : m <= n
<1> DEFINE R == OpToRel(<, Nat)
<1>1. IsWellFoundedOn(R, Nat)
  BY NatLessThanWellFounded
<1>2. PICK m \in S : \A n \in S : ~(<<n, m>> \in R)
  BY <1>1, WFMin
<1>3. \A n \in S : <<n, m>> \in R <=> n < m
  BY DEF OpToRel
<1>4. \A n \in S : ~(n < m)
  <2> HIDE DEF R
  <2> QED BY <1>2, <1>3
<1>5. \A n \in S : m <= n
  BY <1>4
<1> QED BY <1>5

(* A set that has 0, and with a number below k the next, has all up to k.  *)
LEMMA UpTo ==
    ASSUME NEW S, NEW k \in Nat, 0 \in S, \A n \in 0..k : n \in S /\ n < k => n + 1 \in S
    PROVE  0..k \subseteq S
<1> DEFINE T == (0..k) \ S
<1> SUFFICES ASSUME T # {} PROVE FALSE
  OBVIOUS
<1>1. PICK m \in T : \A n \in T : m <= n
  <2>1. T \in SUBSET Nat
    OBVIOUS
  <2> HIDE DEF T
  <2> QED BY <2>1, LeastNatural
<1>2. m \in 1..k /\ m \notin S
  BY <1>1
<1>3. m - 1 \in 0..k /\ m - 1 < k /\ (m - 1) + 1 = m
  BY <1>2
<1>4. m - 1 \in S
  BY <1>1, <1>3
<1> QED BY <1>2, <1>3, <1>4

(* Whatever names a version, a digest or null, is a watermark.             *)
LEMMA VersionsAreWatermarks ==
    ASSUME NEW log \in SUBSET Digest
    PROVE  log \cup {<< >>} \subseteq Watermark
<1>1. << >> \in Seq(Body)
  BY EmptySeq
<1> QED BY <1>1 DEF Digest, Watermark

(* A digest determines the predecessor and the body it was made of.        *)
LEMMA DigestParts ==
    ASSUME NEW h \in Watermark, NEW b \in Body
    PROVE  /\ DigestOf(h, b) \in Digest
           /\ Len(DigestOf(h, b)) = Len(h) + 1
           /\ Previous(DigestOf(h, b)) = h
           /\ BodyOf(DigestOf(h, b)) = b
<1>1. /\ Append(h, b) \in Seq(Body)
      /\ Len(Append(h, b)) = Len(h) + 1
      /\ Append(h, b)[Len(h) + 1] = b
      /\ \A i \in 1..Len(h) : Append(h, b)[i] = h[i]
  BY DEF Watermark
<1>2. SubSeq(Append(h, b), 1, Len(h)) = h
  BY <1>1 DEF Watermark
<1> QED BY <1>1, <1>2 DEF Watermark, Digest, Previous, BodyOf, DigestOf

(* A transaction has a body.                                               *)
LEMMA BodyOfDigest ==
    ASSUME NEW d \in Digest
    PROVE  BodyOf(d) \in Body
<1>1. d \in Seq(Body) /\ Len(d) \in 1..Len(d)
  BY EmptySeq DEF Digest
<1> QED BY <1>1 DEF BodyOf

(* A beginning of a history has the length it was cut to.                  *)
LEMMA PrefixLength ==
    ASSUME NEW d \in Watermark, NEW k \in Nat, k <= Len(d)
    PROVE  SubSeq(d, 1, k) \in Watermark /\ Len(SubSeq(d, 1, k)) = k
  BY DEF Watermark

(* The predecessor of a transaction is one shorter than the transaction.   *)
LEMMA PreviousShorter ==
    ASSUME NEW d \in Digest
    PROVE  /\ Previous(d) \in Watermark
           /\ Len(Previous(d)) = Len(d) - 1
           /\ Len(d) \in Nat \ {0}
<1>1. d \in Watermark /\ Len(d) \in Nat \ {0}
  BY EmptySeq DEF Digest, Watermark
<1>2. Len(d) - 1 \in Nat /\ Len(d) - 1 <= Len(d)
  BY <1>1
<1> QED BY <1>1, <1>2, PrefixLength DEF Previous

(* The beginnings of a history that are one longer and one shorter.        *)
LEMMA PrefixOfPrefix ==
    ASSUME NEW d \in Watermark, NEW i \in 1..Len(d)
    PROVE  /\ SubSeq(d, 1, i) \in Digest
           /\ Previous(SubSeq(d, 1, i)) = SubSeq(d, 1, i - 1)
<1>1. i \in Nat /\ i - 1 \in Nat /\ i <= Len(d) /\ d \in Seq(Body) /\ Len(d) \in Nat
  BY DEF Watermark
<1>2. SubSeq(d, 1, i) \in Seq(Body) /\ Len(SubSeq(d, 1, i)) = i
  BY <1>1, PrefixLength DEF Watermark
<1>3. SubSeq(d, 1, i) # << >>
  BY <1>1, <1>2, EmptySeq
<1>4. SubSeq(SubSeq(d, 1, i), 1, i - 1) = SubSeq(d, 1, i - 1)
  BY <1>1, <1>2
<1> QED BY <1>2, <1>3, <1>4 DEF Digest, Previous

(* A complete log is one chain: no two of its transactions have the same    *)
(* predecessor, and the shorter of two histories begins the longer.        *)
LEMMA CompleteIsForkless ==
    ASSUME NEW log \in SUBSET Digest, Complete(log)
    PROVE  Forkless(log)
<1> SUFFICES ASSUME NEW d \in log, NEW e \in log, Previous(d) = Previous(e) PROVE d = e
  BY DEF Forkless
<1>1. Len(d) \in 1..Len(d) /\ d \in Seq(Body)
  BY PreviousShorter DEF Digest
<1>2. SubSeq(d, 1, Len(d)) = d
  BY <1>1, SubSeqFull
<1>3. AppliedAt(log, d, Len(d))
  BY <1>1 DEF Complete, Applied
<1> QED BY <1>2, <1>3 DEF AppliedAt, Previous

LEMMA CompleteIsNested ==
    ASSUME NEW log \in SUBSET Digest, Complete(log)
    PROVE  Nested(log)
<1> SUFFICES ASSUME NEW d \in log, NEW e \in log, Len(d) <= Len(e)
             PROVE  SubSeq(e, 1, Len(d)) = d
  BY DEF Nested
<1>1. /\ d \in Seq(Body) /\ Len(d) \in Nat /\ d \in Watermark
      /\ e \in Seq(Body) /\ Len(e) \in Nat /\ e \in Watermark
  BY PreviousShorter DEF Digest, Watermark
<1> DEFINE Same == {i \in 0..Len(d) : SubSeq(e, 1, i) = SubSeq(d, 1, i)}
<1>2. 0 \in Same
  BY <1>1, SubSeqEmpty
<1>3. ASSUME NEW i \in 0..Len(d), i \in Same, i < Len(d) PROVE i + 1 \in Same
  <2>1. i + 1 \in 1..Len(d) /\ i + 1 \in 1..Len(e) /\ (i + 1) - 1 = i
    BY <1>1, <1>3
  <2>2. AppliedAt(log, d, i + 1) /\ AppliedAt(log, e, i + 1)
    BY <2>1 DEF Complete, Applied
  <2>3. Previous(SubSeq(e, 1, i + 1)) = SubSeq(d, 1, i)
    BY <1>1, <1>3, <2>1, PrefixOfPrefix
  <2>4. SubSeq(e, 1, i + 1) = SubSeq(d, 1, i + 1)
    BY <2>1, <2>2, <2>3 DEF AppliedAt
  <2> QED BY <2>1, <2>4
<1>4. 0..Len(d) \subseteq Same
  <2> HIDE DEF Same
  <2> QED BY <1>1, <1>2, <1>3, UpTo
<1>5. SubSeq(e, 1, Len(d)) = SubSeq(d, 1, Len(d))
  BY <1>1, <1>4
<1> QED BY <1>1, <1>5, SubSeqFull

(* Behind the high watermark of a complete log there is nothing yet, so    *)
(* the new transaction is nobody's sibling.                                *)
LEMMA ExtendForkless ==
    ASSUME NEW log \in SUBSET Digest, NEW h \in Watermark, NEW b \in Body,
           Forkless(log), Complete(log), IsHighWatermark(log, h)
    PROVE  /\ Forkless(log \cup {DigestOf(h, b)})
           /\ \A e \in log : Previous(e) # h
<1>1. \A e \in log : Previous(e) # h
  <2>1. SUFFICES ASSUME NEW e \in log, Previous(e) = h PROVE FALSE
    OBVIOUS
  <2>2. Len(e) <= Len(h)
    BY DEF Complete, IsHighWatermark
  <2>3. Len(h) = Len(e) - 1 /\ Len(e) \in Nat
    BY <2>1, PreviousShorter
  <2> QED BY <2>2, <2>3
<1>2. Previous(DigestOf(h, b)) = h
  BY DigestParts
<1> QED BY <1>1, <1>2 DEF Forkless

(* Every history in the log begins the new transaction's.                  *)
LEMMA ExtendNested ==
    ASSUME NEW log \in SUBSET Digest, NEW h \in Watermark, NEW b \in Body,
           Nested(log), Complete(log), IsHighWatermark(log, h)
    PROVE  /\ Nested(log \cup {DigestOf(h, b)})
           /\ \A e \in log : Len(e) <= Len(h) /\ SubSeq(h, 1, Len(e)) = e
<1> DEFINE n == DigestOf(h, b)
<1>1. ASSUME NEW e \in log
      PROVE  Len(e) <= Len(h) /\ SubSeq(h, 1, Len(e)) = e
  <2>1. Len(e) <= Len(h)
    BY DEF Complete, IsHighWatermark
  <2>2. h \in log
    <3>1. Len(e) \in Nat \ {0} /\ Len(<< >>) = 0
      BY PreviousShorter
    <3>2. h # << >>
      BY <2>1, <3>1
    <3> QED BY <3>2 DEF IsHighWatermark, Applied
  <2> QED BY <2>1, <2>2 DEF Nested
<1>2. ASSUME NEW e \in log
      PROVE  Len(e) < Len(n) /\ SubSeq(n, 1, Len(e)) = e
  <2>1. Len(n) = Len(h) + 1 /\ Len(e) \in Nat \ {0} /\ Len(h) \in Nat
    BY DigestParts, PreviousShorter DEF Watermark
  <2>2. Len(e) <= Len(h)
    BY <1>1
  <2>3. SubSeq(n, 1, Len(e)) = SubSeq(h, 1, Len(e))
    BY <2>1, <2>2 DEF DigestOf, Watermark
  <2> QED BY <1>1, <2>1, <2>2, <2>3
<1>3. SubSeq(n, 1, Len(n)) = n
  BY DigestParts, SubSeqFull DEF Digest
<1>4. \A e \in log \cup {n} : Len(e) \in Nat
  BY DigestParts, PreviousShorter
<1> HIDE DEF n
<1>5. Nested(log \cup {n})
  BY <1>2, <1>3, <1>4 DEF Nested
<1> QED BY <1>1, <1>5 DEF n

(* A body is on the history of a transaction in the log only at a place     *)
(* where the newest history has it too.                                    *)
LEMMA BodiesOfHistory ==
    ASSUME NEW log \in SUBSET Digest, NEW h \in Watermark, NEW e \in log,
           Len(e) <= Len(h), SubSeq(h, 1, Len(e)) = e
    PROVE  Len(e) \in 1..Len(h) /\ BodyOf(e) = h[Len(e)]
<1>1. Len(e) \in Nat \ {0} /\ Len(h) \in Nat
  BY PreviousShorter DEF Watermark
<1>2. SubSeq(h, 1, Len(e))[Len(e)] = h[Len(e)]
  BY <1>1 DEF Watermark
<1> QED BY <1>1, <1>2 DEF BodyOf

(* Publishing behind the high watermark of a complete log, under a command *)
(* and events the history does not know, leaves the log complete.          *)
LEMMA ExtendComplete ==
    ASSUME NEW log \in SUBSET Digest, NEW h \in Watermark, NEW b \in Body,
           Forkless(log), Nested(log), Complete(log), IsHighWatermark(log, h),
           FreshFor(h, b)
    PROVE  Complete(log \cup {DigestOf(h, b)})
<1> DEFINE n == DigestOf(h, b)
           new == log \cup {n}
<1>1. /\ n \in Digest /\ Len(n) = Len(h) + 1
      /\ Previous(n) = h /\ BodyOf(n) = b
      /\ Len(h) \in Nat /\ n \in Seq(Body) /\ Len(n) \in Nat
  BY DigestParts DEF Watermark, Digest
<1>2. \A e \in log : Len(e) <= Len(h) /\ SubSeq(h, 1, Len(e)) = e
  BY ExtendNested
<1>3. \A e \in log : Previous(e) # h
  BY ExtendForkless
<1>4. \A e \in log : /\ CommandOf[BodyOf(e)] # CommandOf[b]
                     /\ EventsOf[BodyOf(e)] \cap EventsOf[b] = {}
  BY <1>2, BodiesOfHistory DEF FreshFor
<1>5. n \notin log
  BY <1>1, <1>2
<1> HIDE DEF n
<1>6. ~IdentityConflict(new, n)
  BY <1>1, <1>4, <1>5 DEF IdentityConflict, DuplicateCommand, DuplicateEvent
<1>7. ASSUME NEW e \in log, ~IdentityConflict(log, e) PROVE ~IdentityConflict(new, e)
  BY <1>1, <1>4, <1>7 DEF IdentityConflict, DuplicateCommand, DuplicateEvent
<1>8. ASSUME NEW e \in log, NEW i \in 1..Len(e) PROVE AppliedAt(new, e, i)
  <2>1. AppliedAt(log, e, i)
    BY <1>8 DEF Complete, Applied
  <2>2. SubSeq(e, 1, i) \in log /\ ~IdentityConflict(log, SubSeq(e, 1, i))
    BY <2>1 DEF AppliedAt
  <2>3. SubSeq(e, 1, i - 1) # h
    <3>1. e \in Seq(Body) /\ Len(e) \in Nat /\ i \in Nat /\ i >= 1 /\ i <= Len(e)
      BY <1>8, PreviousShorter DEF Digest
    <3>2. Len(SubSeq(e, 1, i - 1)) = i - 1
      BY <3>1
    <3> QED BY <1>1, <1>2, <3>1, <3>2
  <2> QED BY <1>1, <1>7, <2>1, <2>2, <2>3 DEF AppliedAt
<1>9. ASSUME NEW i \in 1..Len(n) PROVE AppliedAt(new, n, i)
  <2>1. CASE i = Len(n)
    <3>1. SubSeq(n, 1, i) = n
      BY <1>1, <2>1, SubSeqFull
    <3>2. SubSeq(n, 1, i - 1) = h
      BY <1>1, <2>1 DEF Previous
    <3> QED BY <1>1, <1>3, <1>6, <3>1, <3>2 DEF AppliedAt
  <2>2. CASE i # Len(n)
    <3>1. i \in 1..Len(h)
      BY <1>1, <1>9, <2>2
    <3>2. \A j \in 0..Len(h) : SubSeq(n, 1, j) = SubSeq(h, 1, j)
      BY <1>1 DEF n, DigestOf, Watermark
    <3>3. h \in log
      <4>1. h # << >>
        BY <3>1
      <4> QED BY <4>1 DEF IsHighWatermark, Applied
    <3>4. AppliedAt(new, h, i)
      BY <1>8, <3>1, <3>3
    <3>5. SubSeq(n, 1, i) = SubSeq(h, 1, i) /\ SubSeq(n, 1, i - 1) = SubSeq(h, 1, i - 1)
      BY <1>1, <3>1, <3>2
    <3> QED BY <3>4, <3>5 DEF AppliedAt
  <2> QED BY <2>1, <2>2
<1>10. Complete(new)
  BY <1>8, <1>9 DEF Complete, Applied
<1> QED BY <1>10 DEF n

(* A transaction reuses an id exactly when its body is not fresh for the    *)
(* history it follows.                                                     *)
LEMMA ReuseIsNotFresh ==
    ASSUME NEW h \in Watermark, NEW b \in Body
    PROVE  Reuses(DigestOf(h, b)) <=> ~FreshFor(h, b)
<1> DEFINE d == DigestOf(h, b)
<1>1. Len(d) - 1 = Len(h) /\ BodyOf(d) = b
  BY DigestParts DEF Watermark
<1>2. \A i \in 1..Len(h) : d[i] = h[i]
  BY DEF DigestOf, Watermark
<1> HIDE DEF d
<1>3. Reuses(d) <=> ~FreshFor(h, b)
  BY <1>1, <1>2 DEF Reuses, FreshFor
<1> QED BY <1>3 DEF d

(* Nothing in a complete log reuses an id.                                  *)
LEMMA CompleteReusesNothing ==
    ASSUME NEW log \in SUBSET Digest, Complete(log)
    PROVE  Reusing(log) = {}
<1> SUFFICES ASSUME NEW d \in log, NEW i \in 1..(Len(d) - 1)
             PROVE  /\ CommandOf[d[i]] # CommandOf[BodyOf(d)]
                    /\ EventsOf[d[i]] \cap EventsOf[BodyOf(d)] = {}
  BY DEF Reusing, Reuses
<1>1. d \in Watermark /\ d \in Seq(Body) /\ Len(d) \in Nat \ {0}
  BY PreviousShorter DEF Digest, Watermark
<1> DEFINE e == SubSeq(d, 1, i)
<1>2. i \in 1..Len(d) /\ Len(d) \in 1..Len(d)
  BY <1>1
<1>3. Len(e) = i /\ e[i] = d[i] /\ e # d
  BY <1>1, <1>2, PrefixLength DEF Watermark
<1>4. AppliedAt(log, d, i) /\ AppliedAt(log, d, Len(d))
  BY <1>2 DEF Complete, Applied
<1>5. SubSeq(d, 1, Len(d)) = d
  BY <1>1, SubSeqFull
<1>6. e \in log \ {d} /\ ~IdentityConflict(log, d)
  BY <1>3, <1>4, <1>5 DEF AppliedAt
<1>7. BodyOf(e) = d[i]
  BY <1>3 DEF BodyOf
<1> HIDE DEF e
<1> QED BY <1>6, <1>7 DEF IdentityConflict, DuplicateCommand, DuplicateEvent

(* Every beginning of a history in the log is in the log.                   *)
Closed(log) == \A d \in log : \A i \in 1..Len(d) : SubSeq(d, 1, i) \in log

LEMMA ExtendClosed ==
    ASSUME NEW log \in SUBSET Digest, Closed(log), NEW h \in Watermark, NEW b \in Body,
           h \in log \cup {<< >>}
    PROVE  Closed(log \cup {DigestOf(h, b)})
<1> DEFINE n == DigestOf(h, b)
<1>1. Len(n) = Len(h) + 1 /\ Len(h) \in Nat /\ n \in Seq(Body)
  BY DigestParts DEF Watermark, Digest
<1>2. \A j \in 0..Len(h) : SubSeq(n, 1, j) = SubSeq(h, 1, j)
  BY <1>1 DEF DigestOf, Watermark
<1> HIDE DEF n
<1>3. ASSUME NEW i \in 1..Len(n) PROVE SubSeq(n, 1, i) \in log \cup {n}
  <2>1. CASE i = Len(n)
    BY <1>1, <2>1, SubSeqFull
  <2>2. CASE i # Len(n)
    <3>1. i \in 1..Len(h)
      BY <1>1, <2>2
    <3>2. h \in log
      <4>1. h # << >>
        BY <3>1
      <4> QED BY <4>1
    <3>3. SubSeq(n, 1, i) = SubSeq(h, 1, i)
      BY <1>1, <1>2, <3>1
    <3> QED BY <3>1, <3>2, <3>3 DEF Closed
  <2> QED BY <2>1, <2>2
<1>4. Closed(log \cup {n})
  BY <1>3 DEF Closed
<1> QED BY <1>4 DEF n

-----------------------------------------------------------------------------
(***************************************************************************)
(* That the loop of the reducer computes the chain, for any log.  Its turns  *)
(* are a recursive function, which is shown to exist; that what they leave  *)
(* is a chain, and that every applied transaction is on it, is by induction *)
(* over the turns and over the transaction's history.                       *)
(***************************************************************************)
(* What the turns of the loop leave, one after another.                     *)
Turns(log, w) ==
    /\ w = [n \in 0..Cardinality(log) |-> w[n]]
    /\ w[0] = << >>
    /\ \A n \in 1..Cardinality(log) : w[n] = Turn(log, w[n - 1], n)

(* The loop is defined: there is what its turns leave, and Walk is the last. *)
LEMMA WalkTurns ==
    ASSUME NEW log, IsFiniteSet(log)
    PROVE  \E w : Turns(log, w) /\ Walk(log) = w[Cardinality(log)]
<1> DEFINE K == Cardinality(log)
           First(n, w) == /\ w = [i \in 0..n |-> w[i]]
                          /\ w[0] = << >>
                          /\ \A i \in 1..n : w[i] = Turn(log, w[i - 1], i)
           S == {n \in 0..K : \E w : First(n, w)}
<1>1. K \in Nat
  BY FS_CardinalityType
<1> HIDE DEF K
<1>2. 0 \in S
  <2> DEFINE w == [i \in 0..0 |-> << >>]
  <2>1. w[0] = << >> /\ w = [i \in 0..0 |-> w[i]]
    OBVIOUS
  <2>2. First(0, w)
    BY <2>1
  <2> HIDE DEF w, First
  <2> QED BY <1>1, <2>2
<1>3. ASSUME NEW n \in 0..K, n \in S, n < K PROVE n + 1 \in S
  <2>1. PICK w : First(n, w)
    BY <1>3
  <2> DEFINE v == [i \in 0..(n + 1) |-> IF i = n + 1 THEN Turn(log, w[n], n + 1) ELSE w[i]]
  <2>2. v[0] = << >> /\ \A i \in 0..n : v[i] = w[i]
    BY <1>1, <2>1
  <2>3. v[n + 1] = Turn(log, w[n], n + 1)
    BY <1>1
  <2>4. v = [i \in 0..(n + 1) |-> v[i]]
    OBVIOUS
  <2> HIDE DEF v
  <2>5. ASSUME NEW i \in 1..(n + 1) PROVE v[i] = Turn(log, v[i - 1], i)
    <3>1. CASE i = n + 1
      <4>1. v[i - 1] = w[n] 
        BY <1>1, <2>2, <3>1
      <4> QED BY <2>3, <3>1, <4>1
    <3>2. CASE i # n + 1
      <4>1. i \in 1..n /\ i - 1 \in 0..n /\ i \in 0..n
        BY <1>1, <3>2
      <4>2. w[i] = Turn(log, w[i - 1], i)
        BY <2>1, <4>1
      <4> QED BY <2>2, <4>1, <4>2
    <3> QED BY <3>1, <3>2
  <2>6. First(n + 1, v)
    BY <2>2, <2>4, <2>5
  <2> QED BY <1>1, <1>3, <2>6
<1>4. K \in S
  <2>1. 0..K \subseteq S
    <3> HIDE DEF S
    <3> QED BY <1>1, <1>2, <1>3, UpTo
  <2> QED BY <1>1, <2>1
<1>5. PICK w : First(K, w)
  BY <1>4
<1> DEFINE W == CHOOSE walk : walk = [n \in 0..K |-> IF n = 0 THEN << >> ELSE Turn(log, walk[n - 1], n)]
<1>6. w = [n \in 0..K |-> IF n = 0 THEN << >> ELSE Turn(log, w[n - 1], n)]
  BY <1>1, <1>5
<1>7. W = [n \in 0..K |-> IF n = 0 THEN << >> ELSE Turn(log, W[n - 1], n)]
  BY <1>6
<1>8. Walk(log) = W[K]
  BY DEF Walk, K
<1> HIDE DEF W
<1>9. Turns(log, W)
  <2>1. W[0] = << >> /\ \A n \in 1..K : W[n] = Turn(log, W[n - 1], n)
    BY <1>1, <1>7
  <2>2. W = [n \in 0..K |-> W[n]]
    BY <1>7
  <2> QED BY <2>1, <2>2 DEF Turns, K
<1> QED BY <1>8, <1>9 DEF K

Tip(a) == IF a = << >> THEN << >> ELSE a[Len(a)]

(* What may be applied behind p: the only child, under a fresh identity.    *)
Continues(log, p, d) ==
    /\ d \in log /\ Previous(d) = p /\ ~IdentityConflict(log, d)
    /\ \A e \in log : Previous(e) = p => e = d

(* A sequence of transactions each of which continues what is before it.    *)
Chain(log, a) ==
    /\ a \in Seq(log)
    /\ \A i \in 1..Len(a) : Continues(log, IF i = 1 THEN << >> ELSE a[i - 1], a[i])

LEMMA TurnContinues ==
    ASSUME NEW log \in SUBSET Digest, IsFiniteSet(log), NEW a \in Seq(log), NEW n \in Nat, Len(a) = n - 1
    PROVE  \/ \E d : Continues(log, Tip(a), d) /\ Turn(log, a, n) = Append(a, d)
           \/ /\ \A d : ~Continues(log, Tip(a), d)
              /\ Turn(log, a, n) = a
<1> DEFINE next == Children(log, Tip(a))
           Taken == Cardinality(next) = 1 /\ \A d \in next : ~IdentityConflict(log, d)
<1>1. Turn(log, a, n) = IF Taken THEN Append(a, CHOOSE d \in next : TRUE) ELSE a
  BY DEF Turn, Tip
<1>2. IsFiniteSet(next)
  <2>1. next \in SUBSET log
    BY DEF Children
  <2> QED BY <2>1, FS_Subset
<1>3. \A d : Continues(log, Tip(a), d) <=> next = {d} /\ ~IdentityConflict(log, d)
  BY DEF Continues, Children
<1> HIDE DEF next
<1>4. Cardinality(next) = 1 <=> \E d : next = {d}
  BY <1>2, FS_Singleton
<1>5. CASE Taken
  <2>1. PICK d : next = {d}
    BY <1>4, <1>5
  <2>2. (CHOOSE e \in next : TRUE) = d
    BY <2>1
  <2> QED BY <1>1, <1>3, <1>5, <2>1, <2>2
<1>6. CASE ~Taken
  BY <1>1, <1>3, <1>4, <1>6
<1> QED BY <1>5, <1>6

LEMMA ChainGrows ==
    ASSUME NEW log, NEW a, Chain(log, a), NEW d, Continues(log, Tip(a), d)
    PROVE  Chain(log, Append(a, d)) /\ Len(Append(a, d)) = Len(a) + 1
<1>1. /\ a \in Seq(log) /\ d \in log /\ Len(a) \in Nat
  BY DEF Chain, Continues
<1>2. /\ Append(a, d) \in Seq(log) /\ Len(Append(a, d)) = Len(a) + 1
      /\ Append(a, d)[Len(a) + 1] = d /\ \A i \in 1..Len(a) : Append(a, d)[i] = a[i]
  BY <1>1, AppendProperties
<1> DEFINE b == Append(a, d)
<1> HIDE DEF b
<1>3. ASSUME NEW i \in 1..Len(b) PROVE Continues(log, IF i = 1 THEN << >> ELSE b[i - 1], b[i])
  <2>1. CASE i = Len(a) + 1
    <3>1. (IF i = 1 THEN << >> ELSE b[i - 1]) = Tip(a)
      BY <1>1, <1>2, <2>1, EmptySeq DEF Tip, b
    <3> QED BY <1>2, <2>1, <3>1 DEF b
  <2>2. CASE i # Len(a) + 1
    <3>1. i \in 1..Len(a) /\ (i # 1 => i - 1 \in 1..Len(a))
      BY <1>1, <1>2, <2>2 DEF b
    <3>2. Continues(log, IF i = 1 THEN << >> ELSE a[i - 1], a[i])
      BY <3>1 DEF Chain
    <3> QED BY <1>2, <3>1, <3>2 DEF b
  <2> QED BY <2>1, <2>2
<1> QED BY <1>2, <1>3 DEF Chain, b

(* The loop applies a chain, one transaction a turn, until there is nothing  *)
(* that continues it.                                                       *)
LEMMA WalkIsAChain ==
    ASSUME NEW log \in SUBSET Digest, IsFiniteSet(log)
    PROVE  /\ Chain(log, Walk(log)) /\ Len(Walk(log)) <= Cardinality(log)
           /\ Len(Walk(log)) < Cardinality(log) => \A d : ~Continues(log, Tip(Walk(log)), d)
<1> DEFINE K == Cardinality(log)
<1>1. PICK w : Turns(log, w) /\ Walk(log) = w[K]
  BY WalkTurns
<1>2. K \in Nat
  BY FS_CardinalityType
<1> DEFINE Fits(n) == /\ Chain(log, w[n]) /\ Len(w[n]) <= n
                      /\ Len(w[n]) < n => \A d : ~Continues(log, Tip(w[n]), d)
           S == {n \in 0..K : Fits(n)}
<1>3. 0 \in S
  <2>1. w[0] = << >>
    BY <1>1 DEF Turns
  <2>2. << >> \in Seq(log) /\ Len(<< >>) = 0
    BY EmptySeq
  <2>3. Chain(log, << >>)
    BY <2>2 DEF Chain
  <2> QED BY <1>2, <2>1, <2>2, <2>3
<1>4. ASSUME NEW n \in 0..K, n \in S, n < K PROVE n + 1 \in S
  <2> DEFINE a == w[n]
  <2>1. w[n + 1] = Turn(log, a, n + 1)
    <3>1. n + 1 \in 1..Cardinality(log) /\ (n + 1) - 1 = n
      BY <1>2, <1>4
    <3> QED BY <1>1, <3>1 DEF Turns
  <2>2. Chain(log, a) /\ Len(a) <= n /\ (Len(a) < n => \A d : ~Continues(log, Tip(a), d))
    BY <1>4
  <2>3. a \in Seq(log) /\ Len(a) \in Nat /\ n \in Nat
    BY <1>4, <2>2 DEF Chain
  <2> HIDE DEF a
  <2>4. Fits(n + 1)
    <3>1. CASE Len(a) < n
      <4>1. w[n + 1] = a
        BY <2>1, <2>3, <3>1 DEF Turn
      <4> QED BY <2>2, <2>3, <3>1, <4>1
    <3>2. CASE Len(a) = n
      <4>1. Len(a) = (n + 1) - 1 /\ n + 1 \in Nat
        BY <2>3, <3>2
      <4>2. CASE \E d : Continues(log, Tip(a), d) /\ Turn(log, a, n + 1) = Append(a, d)
        <5>1. PICK d : Continues(log, Tip(a), d) /\ Turn(log, a, n + 1) = Append(a, d)
          BY <4>2
        <5>2. Chain(log, w[n + 1]) /\ Len(w[n + 1]) = n + 1
          BY <2>1, <2>2, <3>2, <5>1, ChainGrows
        <5> QED BY <2>3, <5>2
      <4>3. CASE (\A d : ~Continues(log, Tip(a), d)) /\ Turn(log, a, n + 1) = a
        BY <2>1, <2>2, <2>3, <3>2, <4>3
      <4> QED BY <2>3, <4>1, <4>2, <4>3, TurnContinues
    <3> QED BY <2>2, <2>3, <3>1, <3>2
  <2> HIDE DEF Fits
  <2> QED BY <1>2, <1>4, <2>4
<1>5. K \in S
  <2>1. 0..K \subseteq S
    <3> HIDE DEF S
    <3> QED BY <1>2, <1>3, <1>4, UpTo
  <2> QED BY <1>2, <2>1
<1> QED BY <1>1, <1>5

(* The history of what a chain has at i is the chain up to i.               *)
LEMMA ChainIsHistory ==
    ASSUME NEW log \in SUBSET Digest, NEW a, Chain(log, a), NEW i \in 1..Len(a)
    PROVE  a[i] \in log /\ Len(a[i]) = i /\ \A j \in 1..i : SubSeq(a[i], 1, j) = a[j]
<1>1. a \in Seq(log) /\ Len(a) \in Nat
  BY DEF Chain
<1>2. \A n \in 1..Len(a) : /\ a[n] \in log /\ a[n] \in Seq(Body) /\ Len(a[n]) \in Nat
                           /\ Len(Previous(a[n])) = Len(a[n]) - 1
  BY <1>1, PreviousShorter DEF Digest
<1> DEFINE History(n) == Len(a[n]) = n /\ \A j \in 1..n : SubSeq(a[n], 1, j) = a[j]
           S == {n \in 0..Len(a) : n = 0 \/ History(n)}
<1>3. 0 \in S
  BY <1>1
<1>4. ASSUME NEW n \in 0..Len(a), n \in S, n < Len(a) PROVE n + 1 \in S
  <2> DEFINE d == a[n + 1]
  <2>1. n + 1 \in 1..Len(a) /\ n \in Nat
    BY <1>1, <1>4
  <2>2. d \in Seq(Body) /\ Len(d) \in Nat /\ Len(Previous(d)) = Len(d) - 1
    BY <1>2, <2>1
  <2>3. Previous(d) = IF n = 0 THEN << >> ELSE a[n]
    <3>1. Continues(log, IF n + 1 = 1 THEN << >> ELSE a[(n + 1) - 1], d)
      BY <2>1 DEF Chain
    <3>2. (n + 1 = 1 <=> n = 0) /\ (n + 1) - 1 = n
      BY <2>1
    <3> QED BY <3>1, <3>2 DEF Continues
  <2> HIDE DEF d
  <2>4. Len(d) = n + 1
    <3>1. CASE n = 0
      BY <2>2, <2>3, <3>1, EmptySeq
    <3>2. CASE n # 0
      BY <1>4, <2>1, <2>2, <2>3, <3>2
    <3> QED BY <3>1, <3>2
  <2>5. ASSUME NEW j \in 1..(n + 1) PROVE SubSeq(d, 1, j) = a[j]
    <3>1. CASE j = n + 1
      <4>1. SubSeq(d, 1, j) = d
        BY <2>2, <2>4, <3>1, SubSeqFull
      <4> QED BY <3>1, <4>1 DEF d
    <3>2. CASE j # n + 1
      <4>1. n # 0 /\ j \in 1..n
        BY <2>1, <3>2
      <4>2. SubSeq(d, 1, n) = a[n]
        BY <2>1, <2>3, <2>4, <4>1 DEF Previous
      <4>3. SubSeq(SubSeq(d, 1, n), 1, j) = SubSeq(d, 1, j)
        BY <2>1, <2>2, <2>4, <4>1
      <4>4. SubSeq(a[n], 1, j) = a[j]
        BY <1>4, <4>1
      <4> QED BY <4>2, <4>3, <4>4
    <3> QED BY <3>1, <3>2
  <2>6. History(n + 1)
    BY <2>4, <2>5 DEF d
  <2> HIDE DEF History
  <2> QED BY <2>1, <2>6
<1>5. 0..Len(a) \subseteq S
  <2> HIDE DEF S
  <2> QED BY <1>1, <1>3, <1>4, UpTo
<1>6. i \in S /\ i # 0
  BY <1>1, <1>5
<1> QED BY <1>2, <1>6

(* A transaction of a chain is applied.                                     *)
LEMMA ChainIsApplied ==
    ASSUME NEW log \in SUBSET Digest, NEW a, Chain(log, a), NEW i \in 1..Len(a)
    PROVE  a[i] \in Applied(log)
<1>1. a[i] \in log /\ Len(a[i]) = i /\ \A j \in 1..i : SubSeq(a[i], 1, j) = a[j]
  BY ChainIsHistory
<1>2. Len(a) \in Nat
  BY DEF Chain
<1>3. ASSUME NEW j \in 1..i PROVE AppliedAt(log, a[i], j)
  <2>1. j \in 1..Len(a)
    BY <1>2
  <2>2. Continues(log, IF j = 1 THEN << >> ELSE a[j - 1], a[j])
    BY <2>1 DEF Chain
  <2>3. SubSeq(a[i], 1, j - 1) = IF j = 1 THEN << >> ELSE a[j - 1]
    <3>1. CASE j = 1
      BY <3>1, SubSeqEmpty
    <3>2. CASE j # 1
      <4>1. j - 1 \in 1..i
        BY <1>2, <3>2
      <4> QED BY <1>1, <3>2, <4>1
    <3> QED BY <3>1, <3>2
  <2>4. SubSeq(a[i], 1, j) = a[j]
    BY <1>1
  <2> QED BY <2>2, <2>3, <2>4 DEF AppliedAt, Continues
<1> QED BY <1>1, <1>3 DEF Applied

(* More histories than transactions cannot be: those of one transaction      *)
(* differ in length.                                                        *)
LEMMA HistoryFits ==
    ASSUME NEW log, IsFiniteSet(log), NEW d \in Digest, \A i \in 1..Len(d) : SubSeq(d, 1, i) \in log
    PROVE  Len(d) <= Cardinality(log)
<1>1. Cardinality(log) \in Nat /\ Len(d) \in Nat /\ d \in Watermark
  BY FS_CardinalityType, PreviousShorter DEF Digest, Watermark
<1> SUFFICES ASSUME Cardinality(log) < Len(d) PROVE FALSE
  BY <1>1
<1>2. IsFiniteSet(1..Len(d)) /\ Cardinality(1..Len(d)) = Len(d)
  <2>1. 1 \in Int /\ Len(d) \in Int
    BY <1>1
  <2>2. /\ IsFiniteSet(1..Len(d))
        /\ Cardinality(1..Len(d)) = IF 1 > Len(d) THEN 0 ELSE Len(d) - 1 + 1
    BY <2>1, FS_Interval
  <2> QED BY <1>1, <2>2
<1> DEFINE f == [i \in 1..Len(d) |-> SubSeq(d, 1, i)]
<1>3. f \in [1..Len(d) -> log]
  OBVIOUS
<1>4. PICK i, j \in 1..Len(d) : i # j /\ f[i] = f[j]
  <2> HIDE DEF f
  <2> QED BY <1>2, <1>3, FS_PigeonHole
<1>5. Len(SubSeq(d, 1, i)) = i /\ Len(SubSeq(d, 1, j)) = j
  BY <1>1, PrefixLength
<1> QED BY <1>4, <1>5

(* An applied transaction is on the walk, at the place of its length.       *)
LEMMA AppliedIsWalked ==
    ASSUME NEW log \in SUBSET Digest, IsFiniteSet(log), NEW d \in Applied(log)
    PROVE  Len(d) \in 1..Len(Walk(log)) /\ Walk(log)[Len(d)] = d
<1> DEFINE a == Walk(log)
<1>1. /\ Chain(log, a) /\ Len(a) <= Cardinality(log)
      /\ Len(a) < Cardinality(log) => \A e : ~Continues(log, Tip(a), e)
  BY WalkIsAChain
<1>2. /\ d \in Digest /\ d \in Watermark /\ d \in Seq(Body) /\ Len(d) \in Nat \ {0}
      /\ \A i \in 1..Len(d) : AppliedAt(log, d, i)
  BY PreviousShorter DEF Applied, Digest, Watermark
<1>3. a \in Seq(log) /\ Len(a) \in Nat /\ Cardinality(log) \in Nat
  BY <1>1, FS_CardinalityType DEF Chain
<1>4. Len(d) <= Cardinality(log)
  <2>1. \A i \in 1..Len(d) : SubSeq(d, 1, i) \in log
    BY <1>2 DEF AppliedAt
  <2> QED BY <1>2, <2>1, HistoryFits
<1> HIDE DEF a
<1> DEFINE S == {i \in 0..Len(d) : i <= Len(a) /\ (i = 0 \/ SubSeq(d, 1, i) = a[i])}
<1>5. 0 \in S
  BY <1>2, <1>3
<1>6. ASSUME NEW i \in 0..Len(d), i \in S, i < Len(d) PROVE i + 1 \in S
  <2> DEFINE e == SubSeq(d, 1, i + 1)
             p == IF i = 0 THEN << >> ELSE a[i]
  <2>1. i + 1 \in 1..Len(d) /\ i \in Nat /\ (i + 1) - 1 = i
    BY <1>2, <1>6
  <2>2. SubSeq(d, 1, i) = p
    <3>1. CASE i = 0
      <4>1. SubSeq(d, 1, 0) = << >>
        BY SubSeqEmpty
      <4> QED BY <3>1, <4>1
    <3>2. CASE i # 0
      BY <1>6, <3>2
    <3> QED BY <3>1, <3>2
  <2>3. Continues(log, p, e)
    <3>1. Previous(e) = p
      BY <1>2, <2>1, <2>2, PrefixOfPrefix
    <3>2. AppliedAt(log, d, i + 1)
      BY <1>2, <2>1
    <3> QED BY <2>1, <2>2, <3>1, <3>2 DEF AppliedAt, Continues
  <2> HIDE DEF e, p
  <2>4. i < Len(a)
    <3> SUFFICES ASSUME Len(a) = i PROVE FALSE
      BY <1>3, <1>6, <2>1
    <3>1. Tip(a) = p
      BY <1>3, <2>1, EmptySeq DEF Tip, p
    <3>2. Len(a) < Cardinality(log)
      BY <1>2, <1>3, <1>4, <1>6, <2>1
    <3> QED BY <1>1, <2>3, <3>1, <3>2
  <2>5. Continues(log, p, a[i + 1])
    <3>1. i + 1 \in 1..Len(a) /\ (i + 1 = 1 <=> i = 0)
      BY <1>3, <2>1, <2>4
    <3> QED BY <1>1, <2>1, <3>1 DEF Chain, p
  <2>6. a[i + 1] = e
    BY <2>3, <2>5 DEF Continues
  <2> QED BY <1>3, <2>1, <2>4, <2>6 DEF e
<1>7. 0..Len(d) \subseteq S
  <2> HIDE DEF S
  <2> QED BY <1>2, <1>5, <1>6, UpTo
<1>8. Len(d) \in S
  BY <1>2, <1>7
<1>9. SubSeq(d, 1, Len(d)) = d
  BY <1>2, SubSeqFull
<1> QED BY <1>2, <1>3, <1>8, <1>9 DEF a

LEMMA WalkAppliesTheChain ==
    ASSUME NEW log \in SUBSET Digest, IsFiniteSet(log)
    PROVE  WalkApplied(log) = Applied(log)
<1>1. Chain(log, Walk(log))
  BY WalkIsAChain
<1> QED BY <1>1, ChainIsApplied, AppliedIsWalked DEF WalkApplied

LEMMA WalkEndsHighest ==
    ASSUME NEW log \in SUBSET Digest, IsFiniteSet(log)
    PROVE  IsHighWatermark(log, SourceHighWatermark(log))
<1> DEFINE a == Walk(log)
<1>1. Chain(log, a) /\ a \in Seq(log) /\ Len(a) \in Nat
  BY WalkIsAChain DEF Chain
<1>2. SourceHighWatermark(log) = Tip(a)
  BY DEF SourceHighWatermark, Tip
<1>3. \A d \in Applied(log) : Len(d) \in 1..Len(a)
  BY AppliedIsWalked
<1> HIDE DEF a
<1>4. CASE a = << >>
  <2>1. Len(a) = 0 /\ Tip(a) = << >>
    BY <1>4, EmptySeq DEF Tip
  <2>2. Applied(log) = {}
    BY <1>3, <2>1
  <2> QED BY <1>2, <2>1, <2>2 DEF IsHighWatermark
<1>5. CASE a # << >>
  <2>1. Len(a) \in 1..Len(a) /\ Tip(a) = a[Len(a)]
    BY <1>1, <1>5, EmptySeq DEF Tip
  <2>2. Tip(a) \in Applied(log)
    BY <1>1, <2>1, ChainIsApplied
  <2>3. Len(Tip(a)) = Len(a)
    BY <1>1, <2>1, ChainIsHistory
  <2>4. \A d \in Applied(log) : Len(d) <= Len(Tip(a))
    BY <1>1, <1>3, <2>3
  <2> QED BY <1>2, <2>2, <2>4 DEF IsHighWatermark
<1> QED BY <1>4, <1>5

(* What the walk leaves out is named by a diagnostic.                       *)
LEMMA LeftOutIsNamed ==
    ASSUME NEW log, NEW d \in log \ WalkApplied(log)
    PROVE  \E x \in ChainDiagnostics(log) : x[2] = d
<1> DEFINE direct == DirectDiagnostics(log)
           named == {x[2] : x \in direct}
<1>1. ChainDiagnostics(log) =
        direct \cup {<<"unreachable_transaction", e>> : e \in (log \ WalkApplied(log)) \ named}
  BY DEF ChainDiagnostics
<1> HIDE DEF direct
<1>2. CASE d \in named
  BY <1>1, <1>2
<1>3. CASE d \notin named
  <2>1. <<"unreachable_transaction", d>> \in ChainDiagnostics(log)
    BY <1>1, <1>3
  <2>2. <<"unreachable_transaction", d>>[2] = d
    OBVIOUS
  <2> QED BY <2>1, <2>2
<1> QED BY <1>2, <1>3

(* A complete log is diagnosed with nothing.                                *)
LEMMA CompleteIsClean ==
    ASSUME NEW log \in SUBSET Digest, IsFiniteSet(log), Complete(log)
    PROVE  WalkApplied(log) = log /\ ChainDiagnostics(log) = {}
<1>1. WalkApplied(log) = log
  BY WalkAppliesTheChain DEF Complete, Applied
<1>2. ASSUME NEW d \in log PROVE d \in Seq(Body) /\ Len(d) \in Nat \ {0} /\ AppliedAt(log, d, Len(d))
  <2>1. d \in Seq(Body) /\ Len(d) \in Nat \ {0}
    BY PreviousShorter DEF Digest
  <2> QED BY <2>1 DEF Complete, Applied
<1>3. ASSUME NEW d \in log PROVE ~IdentityConflict(log, d)
  <2>1. SubSeq(d, 1, Len(d)) = d
    BY <1>2, SubSeqFull
  <2> QED BY <1>2, <2>1 DEF AppliedAt
<1>4. ASSUME NEW d \in log PROVE Previous(d) \in log \cup {<< >>}
  <2>1. CASE Len(d) = 1
    <3>1. SubSeq(d, 1, 0) = << >>
      BY SubSeqEmpty
    <3> QED BY <2>1, <3>1 DEF Previous
  <2>2. CASE Len(d) # 1
    <3>1. Len(d) - 1 \in 1..Len(d)
      <4>1. Len(d) \in Nat \ {0, 1}
        BY <1>2, <2>2
      <4>2. \A n \in Nat \ {0, 1} : n - 1 \in 1..n
        OBVIOUS
      <4> QED BY <4>1, <4>2
    <3>2. AppliedAt(log, d, Len(d) - 1)
      BY <3>1 DEF Complete, Applied
    <3> QED BY <3>2 DEF AppliedAt, Previous
  <2> QED BY <2>1, <2>2
<1>5. \A p : IsFiniteSet(Children(log, p)) /\ Cardinality(Children(log, p)) <= 1
  <2> TAKE p
  <2>1. Forkless(log)
    BY CompleteIsForkless
  <2>2. \A d, e \in Children(log, p) : d = e
    BY <2>1 DEF Forkless, Children
  <2>3. CASE Children(log, p) = {}
    BY <2>3, FS_EmptySet
  <2>4. CASE Children(log, p) # {}
    <3>1. PICK d : Children(log, p) = {d}
      BY <2>2, <2>4
    <3>2. IsFiniteSet({d}) /\ Cardinality({d}) = 1
      BY FS_Singleton
    <3> QED BY <3>1, <3>2
  <2> QED BY <2>3, <2>4
<1>6. log # {} => Children(log, << >>) # {}
  <2> SUFFICES ASSUME NEW d \in log PROVE Children(log, << >>) # {}
    OBVIOUS
  <2>1. 1 \in 1..Len(d) /\ SubSeq(d, 1, 1) \in log
    BY <1>2 DEF Complete, Applied, AppliedAt
  <2>2. Previous(SubSeq(d, 1, 1)) = << >>
    <3>1. Previous(SubSeq(d, 1, 1)) = SubSeq(d, 1, 1 - 1)
      BY <1>2, <2>1, PrefixOfPrefix DEF Watermark
    <3> QED BY <3>1, SubSeqEmpty
  <2> QED BY <2>1, <2>2 DEF Children
<1>7. DirectDiagnostics(log) = {}
  <2> DEFINE roots == Children(log, << >>)
             applied == WalkApplied(log)
  <2>1. {x \in log : Previous(x) \notin log \cup {<< >>}} = {}
    BY <1>4
  <2>2. {x \in log : DuplicateCommand(log, x)} = {} /\ {x \in log : DuplicateEvent(log, x)} = {}
    BY <1>3 DEF IdentityConflict
  <2>3. {x \in log : roots = {}} = {}
    BY <1>6
  <2>4. \A p : ~(Cardinality(Children(log, p)) > 1)
    <3> TAKE p
    <3>1. Cardinality(Children(log, p)) \in Nat
      BY <1>5, FS_CardinalityType
    <3> QED BY <1>5, <3>1
  <2>5. {x \in roots : Cardinality(roots) > 1} = {}
    BY <2>4
  <2>6. {x \in log : Previous(x) \in applied /\ Cardinality(Children(log, Previous(x))) > 1} = {}
    BY <2>4
  <2> QED BY <2>1, <2>2, <2>3, <2>5, <2>6 DEF DirectDiagnostics
<1>8. ChainDiagnostics(log) = {}
  BY <1>1, <1>7 DEF ChainDiagnostics
<1> QED BY <1>1, <1>8

(* The summary says complete exactly when every transaction is applied.     *)
LEMMA CompleteIsReported ==
    ASSUME NEW log \in SUBSET Digest, IsFiniteSet(log), NEW quarantined
    PROVE  WalkComplete(log, quarantined) <=> Complete(log) /\ quarantined = {}
<1>1. WalkApplied(log) = Applied(log) /\ Applied(log) \in SUBSET log
  BY WalkAppliesTheChain DEF Applied
<1>2. /\ Cardinality(log) \in Nat /\ Cardinality(Applied(log)) \in Nat
      /\ Cardinality(log) = Cardinality(Applied(log)) => log = Applied(log)
  BY <1>1, FS_Subset, FS_CardinalityType
<1>3. ASSUME WalkComplete(log, quarantined) PROVE Complete(log) /\ quarantined = {}
  BY <1>1, <1>2, <1>3 DEF WalkComplete, Complete
<1>4. ASSUME Complete(log), quarantined = {} PROVE WalkComplete(log, quarantined)
  <2>1. WalkApplied(log) = log /\ ChainDiagnostics(log) = {}
    BY <1>4, CompleteIsClean
  <2> QED BY <1>2, <1>4, <2>1 DEF WalkComplete
<1> QED BY <1>3, <1>4

(* The loop of the reducer computes the unambiguous chain, for any log: it   *)
(* applies the same transactions, each after its predecessor, ends at the   *)
(* high watermark, names what it leaves out, and reports completeness       *)
(* exactly when nothing is left out or damaged.                             *)
THEOREM ReducerIsTheChain ==
    ASSUME NEW log \in SUBSET Digest, IsFiniteSet(log), NEW quarantined
    PROVE  /\ WalkApplied(log) = Applied(log)
           /\ IsHighWatermark(log, SourceHighWatermark(log))
           /\ \A i \in 2..Len(Walk(log)) : Previous(Walk(log)[i]) = Walk(log)[i - 1]
           /\ \A d \in log \ WalkApplied(log) : \E x \in ChainDiagnostics(log) : x[2] = d
           /\ WalkComplete(log, quarantined) <=> Complete(log) /\ quarantined = {}
<1>1. ASSUME NEW i \in 2..Len(Walk(log)) PROVE Previous(Walk(log)[i]) = Walk(log)[i - 1]
  <2>1. Chain(log, Walk(log)) /\ Len(Walk(log)) \in Nat
    BY WalkIsAChain DEF Chain
  <2>2. i \in 1..Len(Walk(log)) /\ i # 1
    BY <2>1
  <2> QED BY <2>1, <2>2 DEF Chain, Continues
<1> QED BY <1>1, WalkAppliesTheChain, WalkEndsHighest, LeftOutIsNamed, CompleteIsReported
=============================================================================
