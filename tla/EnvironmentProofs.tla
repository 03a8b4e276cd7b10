--------------------------- MODULE EnvironmentProofs ---------------------------
(***************************************************************************)
(* Proofs about the .env files of instances, for every template, user's    *)
(* file and blueprint over finitely many keys, and every bound.            *)
(***************************************************************************)
EXTENDS EnvironmentInv, FiniteSetTheorems, SequenceTheorems, WellFoundedInduction, TLAPS

(***************************************************************************)
(* Files as maps                                                           *)
(***************************************************************************)

\* A set of numbers has a least one: of the finite sets of those that are not
\* greater than x there is a smallest.
LEMMA MinIs ==
    ASSUME NEW S, S \subseteq Nat, S # {}
    PROVE  Min(S) \in S /\ \A y \in S : Min(S) <= y
<1> DEFINE Upto(x) == {y \in S : y <= x}
           T       == {Upto(x) : x \in S}
           R       == StrictSubsetOrdering(S)
<1>1. T \subseteq FiniteSubsetsOf(S)
  <2> SUFFICES ASSUME NEW x \in S PROVE Upto(x) \in SUBSET S /\ IsFiniteSet(Upto(x))
    BY DEF FiniteSubsetsOf
  <2>1. Upto(x) \in SUBSET Nat /\ x \in Nat /\ \A y \in Upto(x) : y <= x
    OBVIOUS
  <2> QED
    BY <2>1, FS_BoundedSetOfNaturals
<1>2. PICK least \in T : \A other \in T : ~(<<other, least>> \in R)
  <2>1. T # {}
    OBVIOUS
  <2>2. IsWellFoundedOn(R, FiniteSubsetsOf(S))
    BY FS_StrictSubsetOrderingWellFounded
  <2> HIDE DEF T, R
  <2> QED
    BY <1>1, <2>1, <2>2, WFMin
<1>3. PICK x \in S : least = Upto(x)
  OBVIOUS
<1>4. ASSUME NEW y \in S, ~(x <= y) PROVE FALSE
  <2>0. Upto(y) \in T /\ x \in Upto(x) /\ x \notin Upto(y)
    BY <1>4
  <2>1. \A z \in S : z <= y => z <= x
    BY <1>4
  <2>2. Upto(y) \in SUBSET S /\ Upto(x) \in SUBSET S /\ Upto(y) \subseteq Upto(x)
    BY <2>1, Zenon
  <2>3. Upto(x) # Upto(y)
    BY <2>0, Zenon
  <2>4. <<Upto(y), least>> \in R
    BY <1>3, <2>2, <2>3 DEF StrictSubsetOrdering
  <2> QED
    BY <1>2, <2>0, <2>4
<1>5. \E z \in S : \A y \in S : z <= y
  BY <1>4
<1> QED
  BY <1>5 DEF Min

\* A set of numbers with a bound has a greatest one: the least of its mirror
\* image.
LEMMA MaxIs ==
    ASSUME NEW N \in Nat, NEW S, S \subseteq 1 .. N, S # {}
    PROVE  Max(S) \in S /\ \A y \in S : y <= Max(S)
<1> DEFINE T == {z \in Nat : \E y \in S : z = N - y}
<1>1. T \subseteq Nat /\ \A y \in S : N - y \in T
  OBVIOUS
<1>2. PICK y \in S : TRUE
  OBVIOUS
<1>3. T # {}
  BY <1>1, <1>2
<1>4. Min(T) \in T /\ \A z \in T : Min(T) <= z
  <2> HIDE DEF T
  <2> QED BY <1>1, <1>3, MinIs
<1>5. PICK x \in S : Min(T) = N - x
  BY <1>4
<1>6. \A z \in S : N - x <= N - z
  BY <1>1, <1>4, <1>5
<1>7. \A z \in S : z <= x
  BY <1>6
<1> QED
  BY <1>7 DEF Max

\* What AsMap takes for a key is the value of its last line.
LEMMA LastCounts ==
    ASSUME NEW lines \in Seq(Lines)
    PROVE  /\ DOMAIN AsMap(lines) = KeysOf(lines)
           /\ \A k \in KeysOf(lines) : \E n \in DOMAIN lines :
                 /\ lines[n].key = k /\ AsMap(lines)[k] = lines[n].val
                 /\ \A m \in DOMAIN lines : lines[m].key = k => m <= n
<1>1. DOMAIN lines = 1 .. Len(lines) /\ Len(lines) \in Nat
  OBVIOUS
<1>2. ASSUME NEW k \in KeysOf(lines)
      PROVE  \E n \in DOMAIN lines :
                 /\ lines[n].key = k /\ AsMap(lines)[k] = lines[n].val
                 /\ \A m \in DOMAIN lines : lines[m].key = k => m <= n
  <2> DEFINE S == {n \in DOMAIN lines : lines[n].key = k}
  <2>1. S \subseteq 1 .. Len(lines) /\ S # {}
    BY <1>1 DEF KeysOf
  <2>2. Max(S) \in S /\ \A y \in S : y <= Max(S)
    <3> HIDE DEF S
    <3> QED BY <1>1, <2>1, MaxIs
  <2>3. AsMap(lines)[k] = lines[Max(S)].val
    BY DEF AsMap
  <2> QED
    BY <2>2, <2>3
<1> QED
  BY <1>2 DEF AsMap

\* The value of a key in a file is that of its last line.
LEMMA LastIs ==
    ASSUME NEW lines \in Seq(Lines), NEW n \in DOMAIN lines,
           \A m \in DOMAIN lines : lines[m].key = lines[n].key => m <= n
    PROVE  AsMap(lines)[lines[n].key] = lines[n].val
<1>1. lines[n].key \in KeysOf(lines)
  BY DEF KeysOf
<1>2. PICK l \in DOMAIN lines :
          /\ lines[l].key = lines[n].key /\ AsMap(lines)[lines[n].key] = lines[l].val
          /\ \A m \in DOMAIN lines : lines[m].key = lines[n].key => m <= l
  BY <1>1, LastCounts
<1>3. l <= n /\ n <= l /\ n \in Nat /\ l \in Nat
  BY <1>2
<1> QED
  BY <1>2, <1>3

(***************************************************************************)
(* Orders of a finite set                                                  *)
(***************************************************************************)

\* Whatever order a map is iterated in, every key has its turn, and
\* nothing else has: an injection into a set of the same size is onto.
LEMMA OrderIs ==
    ASSUME NEW S, IsFiniteSet(S), NEW f \in SetToSeqs(S)
    PROVE  /\ f \in Seq(S) /\ Len(f) \in Nat /\ DOMAIN f = 1 .. Len(f)
           /\ \A n \in DOMAIN f : f[n] \in S
           /\ \A x \in S : \E n \in DOMAIN f : f[n] = x
<1> DEFINE N == Cardinality(S)
<1>1. N \in Nat
  BY FS_CardinalityType
<1>2. f \in [1 .. N -> S] /\ \A i, j \in 1 .. N : i # j => f[i] # f[j]
  BY DEF SetToSeqs
<1>3. f \in Injection(1 .. N, S)
  BY <1>2 DEF Injection, IsInjective
<1>4. IsFiniteSet(1 .. N) /\ Cardinality(1 .. N) = N
  BY <1>1, FS_Interval
<1> HIDE DEF N
<1>5. f \in Surjection(1 .. N, S)
  BY <1>3, <1>4, FS_Injection DEF N
<1>6. \A x \in S : \E n \in 1 .. N : f[n] = x
  BY <1>5 DEF Surjection
<1>7. f \in Seq(S) /\ Len(f) = N /\ DOMAIN f = 1 .. N
  BY <1>1, <1>2
<1> QED
  BY <1>1, <1>2, <1>6, <1>7

\* There is such an order; SetToSeq, which stands for the sorted one, is one.
LEMMA SomeOrder ==
    ASSUME NEW S, IsFiniteSet(S)
    PROVE  SetToSeq(S) \in SetToSeqs(S)
<1>1. ExistsBijection(1 .. Cardinality(S), S)
  BY FS_CardinalityType
<1>2. \E f \in [1 .. Cardinality(S) -> S] : IsInjective(f)
  BY <1>1 DEF ExistsBijection, Bijection, Injection
<1>3. SetToSeq(S) \in [1 .. Cardinality(S) -> S] /\ IsInjective(SetToSeq(S))
  BY <1>2 DEF SetToSeq
<1> QED
  BY <1>3 DEF SetToSeqs, IsInjective

(***************************************************************************)
(* What DeriveMerged writes                                                *)
(***************************************************************************)

Vals == Values \cup (Instances \X Keys)

\* The map that the derived file is, whatever the overrides.
Written(t, over, hs, sc, i) ==
    [k \in KeysOf(t) \cup hs \cup (DOMAIN over \ sc) |->
        IF k \in hs THEN Own(i, k)
        ELSE IF k \in DOMAIN over \ sc THEN over[k]
        ELSE AsMap(t)[k]]

\* The overrides that a command may have.
Overrides(over) == DOMAIN over \subseteq Keys /\ \A k \in DOMAIN over : over[k] \in Vals

\* The lines of a derived file: those of the template, the missing holes in
\* some order, the other overrides in some order.
Consists(d, t, over, hs, sc, i, order, rest) ==
    /\ Len(d) = Len(t) + Len(order) + Len(rest)
    /\ \A n \in 1 .. Len(t) : d[n] = Copied(t[n], over, hs, sc, i)
    /\ \A n \in 1 .. Len(order) : d[Len(t) + n] = Assign(order[n], Own(i, order[n]))
    /\ \A n \in 1 .. Len(rest) :
          d[Len(t) + Len(order) + n] = Assign(rest[n], over[rest[n]])

\* A derived file is made of the three stretches that DeriveMerged writes
\* one after the other.
LEMMA DerivedLines ==
    ASSUME NEW t \in Seq(Lines), NEW over, Overrides(over), NEW hs \in SUBSET Keys, NEW sc,
           NEW i \in Instances, NEW d \in Derived(t, over, hs, sc, i)
    PROVE  /\ d \in Seq(Lines)
           /\ \E order \in SetToSeqs(hs \ KeysOf(t)) :
                 Consists(d, t, over, hs, sc, i, order, SetToSeq(Unwritten(t, over, hs, sc)))
<1> DEFINE W      == Unwritten(t, over, hs, sc)
           rest   == SetToSeq(W)
           copied == [n \in DOMAIN t |-> Copied(t[n], over, hs, sc, i)]
           last   == [n \in DOMAIN rest |-> Assign(rest[n], over[rest[n]])]
<1>1. PICK order \in SetToSeqs(hs \ KeysOf(t)) :
          d = copied \o [n \in DOMAIN order |-> Assign(order[n], Own(i, order[n]))] \o last
  BY DEF Derived
<1> DEFINE mid == [n \in DOMAIN order |-> Assign(order[n], Own(i, order[n]))]
<1>2. IsFiniteSet(hs \ KeysOf(t)) /\ IsFiniteSet(W) /\ W \subseteq DOMAIN over
  <2>1. hs \ KeysOf(t) \in SUBSET Keys /\ W \in SUBSET Keys /\ W \subseteq DOMAIN over
    BY DEF Unwritten, Overrides
  <2> QED
    BY <2>1, FS_Subset, EnvironmentAssumption
<1>3. /\ Len(order) \in Nat /\ DOMAIN order = 1 .. Len(order)
      /\ \A n \in DOMAIN order : order[n] \in hs \ KeysOf(t)
  BY <1>2, OrderIs
<1>4. /\ Len(rest) \in Nat /\ DOMAIN rest = 1 .. Len(rest)
      /\ \A n \in DOMAIN rest : rest[n] \in W
  <2> HIDE DEF W
  <2> QED BY <1>2, OrderIs, SomeOrder
<1>5. copied \in Seq(Lines) /\ Len(copied) = Len(t) /\ DOMAIN copied = 1 .. Len(t)
  <2>1. DOMAIN t = 1 .. Len(t) /\ Len(t) \in Nat
    OBVIOUS
  <2>2. ASSUME NEW n \in DOMAIN t PROVE copied[n] \in Lines
    <3>0. t[n] \in Lines
      BY <2>1, ElementOfSeq
    <3>1. t[n] \in Lines /\ t[n].key \in Keys
      BY <3>0 DEF Lines
    <3>2. ASSUME t[n].key \in hs PROVE Assign(t[n].key, Own(i, t[n].key)) \in Lines
      BY <3>1 DEF Assign, Own, Lines
    <3>3. ASSUME t[n].key \in DOMAIN over PROVE Assign(t[n].key, over[t[n].key]) \in Lines
      BY <3>1, <3>3 DEF Assign, Overrides, Vals, Lines
    <3> QED
      BY <3>1, <3>2, <3>3 DEF Copied
  <2>3. copied \in [1 .. Len(t) -> Lines]
    BY <2>1, <2>2
  <2> HIDE DEF copied
  <2> QED
    BY <2>1, <2>3
<1>6. mid \in Seq(Lines) /\ Len(mid) = Len(order) /\ DOMAIN mid = 1 .. Len(order)
  <2>1. \A n \in 1 .. Len(order) : Assign(order[n], Own(i, order[n])) \in Lines
    BY <1>3 DEF Assign, Own, Lines
  <2>2. mid \in [1 .. Len(order) -> Lines]
    BY <1>3, <2>1
  <2> HIDE DEF mid
  <2> QED
    BY <1>3, <2>2
<1>7. last \in Seq(Lines) /\ Len(last) = Len(rest) /\ DOMAIN last = 1 .. Len(rest)
  <2>1. \A n \in 1 .. Len(rest) : Assign(rest[n], over[rest[n]]) \in Lines
    <3> HIDE DEF rest, W
    <3> QED BY <1>2, <1>4 DEF Assign, Overrides, Vals, Lines
  <2>2. last \in [1 .. Len(rest) -> Lines]
    <3> HIDE DEF rest
    <3> QED BY <1>4, <2>1
  <2> HIDE DEF last, rest
  <2> QED
    BY <1>4, <2>2
<1>8. /\ \A n \in 1 .. Len(t) : copied[n] = Copied(t[n], over, hs, sc, i)
      /\ \A n \in 1 .. Len(order) : mid[n] = Assign(order[n], Own(i, order[n]))
      /\ \A n \in 1 .. Len(rest) : last[n] = Assign(rest[n], over[rest[n]])
  <2> HIDE DEF rest
  <2> QED BY <1>3, <1>4, <1>5
<1> HIDE DEF copied, mid, last, rest
<1>9. d = copied \o mid \o last
  BY <1>1 DEF mid
<1>10. /\ copied \o mid \in Seq(Lines) /\ Len(copied \o mid) = Len(t) + Len(order)
       /\ \A n \in 1 .. Len(t) : (copied \o mid)[n] = copied[n]
       /\ \A n \in 1 .. Len(order) : (copied \o mid)[Len(t) + n] = mid[n]
  <2>1. /\ copied \o mid \in Seq(Lines) /\ Len(copied \o mid) = Len(copied) + Len(mid)
        /\ \A n \in 1 .. Len(copied) + Len(mid) :
              (copied \o mid)[n] = IF n <= Len(copied) THEN copied[n] ELSE mid[n - Len(copied)]
    BY <1>5, <1>6, ConcatProperties
  <2>2. Len(t) \in Nat
    OBVIOUS
  <2>3. ASSUME NEW n \in 1 .. Len(t) PROVE (copied \o mid)[n] = copied[n]
    BY <1>3, <1>5, <1>6, <2>1, <2>2
  <2>4. ASSUME NEW n \in 1 .. Len(order) PROVE (copied \o mid)[Len(t) + n] = mid[n]
    <3>1. /\ Len(t) + n \in 1 .. Len(t) + Len(order) /\ ~(Len(t) + n <= Len(t))
          /\ (Len(t) + n) - Len(t) = n
      BY <1>3, <2>2
    <3> QED
      BY <1>5, <1>6, <2>1, <3>1
  <2> QED
    BY <1>5, <1>6, <2>1, <2>3, <2>4
<1>11. /\ d \in Seq(Lines) /\ Len(d) = Len(t) + Len(order) + Len(rest)
       /\ \A n \in 1 .. Len(t) : d[n] = copied[n]
       /\ \A n \in 1 .. Len(order) : d[Len(t) + n] = mid[n]
       /\ \A n \in 1 .. Len(rest) : d[Len(t) + Len(order) + n] = last[n]
  <2> DEFINE front == copied \o mid
  <2>1. /\ front \in Seq(Lines) /\ Len(front) = Len(t) + Len(order) /\ Len(t) \in Nat
        /\ \A n \in 1 .. Len(t) : front[n] = copied[n]
        /\ \A n \in 1 .. Len(order) : front[Len(t) + n] = mid[n]
    BY <1>10
  <2>2. d = front \o last
    BY <1>9
  <2> HIDE DEF front
  <2>3. /\ d \in Seq(Lines) /\ Len(d) = Len(front) + Len(last)
        /\ \A n \in 1 .. Len(front) + Len(last) :
              d[n] = IF n <= Len(front) THEN front[n] ELSE last[n - Len(front)]
    BY <2>1, <2>2, <1>7, ConcatProperties
  <2>4. \A n \in 1 .. Len(t) : d[n] = copied[n]
    BY <1>3, <1>4, <1>7, <2>1, <2>3
  <2>5. ASSUME NEW n \in 1 .. Len(order) PROVE d[Len(t) + n] = mid[n]
    BY <1>3, <1>4, <1>7, <2>1, <2>3
  <2>6. ASSUME NEW n \in 1 .. Len(rest) PROVE d[Len(t) + Len(order) + n] = last[n]
    <3>1. Len(front) + n \in 1 .. Len(front) + Len(last) /\ ~(Len(front) + n <= Len(front))
      BY <1>3, <1>4, <1>7, <2>1
    <3>2. (Len(front) + n) - Len(front) = n
      BY <1>3, <1>4, <2>1
    <3> QED
      BY <2>1, <2>3, <3>1, <3>2
  <2> QED
    BY <1>7, <2>1, <2>3, <2>4, <2>5, <2>6
<1> QED
  BY <1>8, <1>11 DEF Consists, rest

\* What a derived file says of each key (DeriveMerged of derive.go).
LEMMA DerivedIs ==
    ASSUME NEW t \in Seq(Lines), NEW over, Overrides(over), NEW hs \in SUBSET Keys, NEW sc,
           NEW i \in Instances, NEW d \in Derived(t, over, hs, sc, i)
    PROVE  d \in Seq(Lines) /\ AsMap(d) = Written(t, over, hs, sc, i)
<1> DEFINE W    == Unwritten(t, over, hs, sc)
           rest == SetToSeq(W)
           new  == hs \ KeysOf(t)
<1>1. d \in Seq(Lines)
  BY DerivedLines
<1>2. PICK order \in SetToSeqs(new) :
          Consists(d, t, over, hs, sc, i, order, rest)
  BY DerivedLines
<1>e. /\ Len(d) = Len(t) + Len(order) + Len(rest)
      /\ \A n \in 1 .. Len(t) : d[n] = Copied(t[n], over, hs, sc, i)
      /\ \A n \in 1 .. Len(order) : d[Len(t) + n] = Assign(order[n], Own(i, order[n]))
      /\ \A n \in 1 .. Len(rest) :
            d[Len(t) + Len(order) + n] = Assign(rest[n], over[rest[n]])
  BY <1>2 DEF Consists
<1>3. IsFiniteSet(new) /\ IsFiniteSet(W)
  <2>1. new \in SUBSET Keys /\ W \in SUBSET Keys
    BY DEF Unwritten, Overrides
  <2> QED
    BY <2>1, FS_Subset, EnvironmentAssumption
<1> HIDE DEF new, W
<1>4. /\ Len(order) \in Nat /\ DOMAIN order = 1 .. Len(order)
      /\ \A n \in DOMAIN order : order[n] \in new
      /\ \A x \in new : \E n \in DOMAIN order : order[n] = x
  BY <1>3, OrderIs
<1>5. /\ Len(rest) \in Nat /\ DOMAIN rest = 1 .. Len(rest)
      /\ \A n \in DOMAIN rest : rest[n] \in W
      /\ \A x \in W : \E n \in DOMAIN rest : rest[n] = x
  BY <1>3, OrderIs, SomeOrder
<1>6. /\ Len(t) \in Nat /\ DOMAIN t = 1 .. Len(t) /\ DOMAIN d = 1 .. Len(d)
      /\ \A n \in DOMAIN t : t[n].key \in KeysOf(t) /\ d[n].key = t[n].key
  <2>1. \A n \in DOMAIN t : Copied(t[n], over, hs, sc, i).key = t[n].key
    BY DEF Copied, Assign
  <2>2. Len(t) \in Nat /\ DOMAIN t = 1 .. Len(t) /\ DOMAIN d = 1 .. Len(d)
    BY <1>1
  <2> QED
    BY <1>e, <2>1, <2>2 DEF KeysOf
<1> HIDE DEF rest
<1>7. ASSUME NEW n \in DOMAIN d
      PROVE  \/ n \in DOMAIN t
             \/ \E x \in new : d[n] = Assign(x, Own(i, x))
             \/ \E x \in W : d[n] = Assign(x, over[x])
  <2>1. CASE n \in 1 .. Len(t)
    BY <2>1, <1>6
  <2>2. CASE n \in Len(t) + 1 .. Len(t) + Len(order)
    <3>1. n - Len(t) \in 1 .. Len(order) /\ n = Len(t) + (n - Len(t))
      BY <2>2, <1>4, <1>6
    <3> QED
      BY <3>1, <1>e, <1>4
  <2>3. CASE n \in Len(t) + Len(order) + 1 .. Len(d)
    <3>1. n - Len(t) - Len(order) \in 1 .. Len(rest) /\ n = Len(t) + Len(order) + (n - Len(t) - Len(order))
      BY <2>3, <1>e, <1>4, <1>5, <1>6
    <3> QED
      BY <3>1, <1>e, <1>5
  <2> QED
    BY <1>e, <1>4, <1>5, <1>6, <2>1, <2>2, <2>3
<1>8. ASSUME NEW x \in new
      PROVE  \E n \in DOMAIN d : d[n] = Assign(x, Own(i, x))
  <2>1. PICK n \in 1 .. Len(order) : order[n] = x
    BY <1>4
  <2>2. Len(t) + n \in DOMAIN d
    BY <1>e, <1>4, <1>5, <1>6
  <2> QED
    BY <1>e, <2>1, <2>2
<1>9. ASSUME NEW x \in W
      PROVE  \E n \in DOMAIN d : d[n] = Assign(x, over[x])
  <2>1. PICK n \in 1 .. Len(rest) : rest[n] = x
    BY <1>5
  <2>2. Len(t) + Len(order) + n \in DOMAIN d
    BY <1>e, <1>4, <1>5, <1>6
  <2> QED
    BY <1>e, <2>1, <2>2
<1>10. new \cap KeysOf(t) = {} /\ W \cap KeysOf(t) = {} /\ W \cap new = {}
  BY DEF new, W, Unwritten
<1>11. DOMAIN t \subseteq DOMAIN d
  BY <1>e, <1>4, <1>5, <1>6
<1>12. KeysOf(d) = KeysOf(t) \cup new \cup W
  <2>1. \A x : Assign(x, Own(i, x)).key = x /\ Assign(x, over[x]).key = x
    BY DEF Assign
  <2>2. \A n \in DOMAIN d : d[n].key \in KeysOf(t) \cup new \cup W
    BY <1>6, <1>7, <2>1
  <2>3. \A x \in new \cup W : \E n \in DOMAIN d : d[n].key = x
    BY <1>8, <1>9, <2>1
  <2>4. \A x \in KeysOf(t) : \E n \in DOMAIN d : d[n].key = x
    BY <1>6, <1>11 DEF KeysOf
  <2> QED
    BY <2>2, <2>3, <2>4 DEF KeysOf
<1>13. ASSUME NEW k \in KeysOf(t)
       PROVE  AsMap(d)[k] = IF k \in hs THEN Own(i, k)
                            ELSE IF k \in DOMAIN over \ sc THEN over[k]
                            ELSE AsMap(t)[k]
  <2>1. PICK n \in DOMAIN t :
            /\ t[n].key = k /\ AsMap(t)[k] = t[n].val
            /\ \A m \in DOMAIN t : t[m].key = k => m <= n
    BY LastCounts
  <2>2. ASSUME NEW m \in DOMAIN d, d[m].key = k PROVE m <= n
    <3>1. m \in DOMAIN t
      BY <1>7, <1>10, <2>2 DEF Assign
    <3> QED
      BY <1>6, <2>1, <2>2, <3>1
  <2>3. n \in DOMAIN d /\ d[n].key = k
    BY <1>6, <1>11, <2>1
  <2>4. AsMap(d)[k] = d[n].val
    BY <1>1, <2>2, <2>3, LastIs
  <2>5. d[n] = Copied(t[n], over, hs, sc, i)
    BY <1>e, <1>6
  <2> QED
    BY <2>1, <2>4, <2>5 DEF Copied, Assign
<1>14. ASSUME NEW k \in new PROVE AsMap(d)[k] = Own(i, k)
  <2>1. PICK n \in DOMAIN d : d[n].key = k /\ AsMap(d)[k] = d[n].val
    BY <1>1, <1>12, LastCounts
  <2> QED
    BY <1>6, <1>7, <1>10, <2>1 DEF Assign
<1>15. ASSUME NEW k \in W PROVE AsMap(d)[k] = over[k]
  <2>1. PICK n \in DOMAIN d : d[n].key = k /\ AsMap(d)[k] = d[n].val
    BY <1>1, <1>12, LastCounts
  <2> QED
    BY <1>6, <1>7, <1>10, <2>1 DEF Assign
<1>16. KeysOf(t) \cup new \cup W = KeysOf(t) \cup hs \cup (DOMAIN over \ sc)
  BY DEF new, W, Unwritten
<1>17. \A k \in KeysOf(d) : AsMap(d)[k] = Written(t, over, hs, sc, i)[k]
  <2>1. ASSUME NEW k \in KeysOf(d) PROVE AsMap(d)[k] = Written(t, over, hs, sc, i)[k]
    <3>1. CASE k \in KeysOf(t)
      BY <3>1, <1>12, <1>13, <1>16 DEF Written
    <3>2. CASE k \in new
      BY <3>2, <1>12, <1>14, <1>16 DEF Written, new
    <3>3. CASE k \in W
      BY <3>3, <1>12, <1>15, <1>16 DEF Written, W, Unwritten
    <3> QED
      BY <1>12, <3>1, <3>2, <3>3
  <2> QED
    BY <2>1
<1>18. AsMap(d) = [k \in KeysOf(d) |-> AsMap(d)[k]]
  BY DEF AsMap
<1> QED
  BY <1>1, <1>12, <1>16, <1>17, <1>18 DEF Written

(***************************************************************************)
(* What is derived is what the manual says                                 *)
(***************************************************************************)

\* What an instance was born with, as far as its .env still says.
Born(lines) == IF lines = NoFile THEN <<>> ELSE AsMap(lines)

\* Both callers of DeriveMerged hand it overrides that are maps of keys to
\* values: the user's file, and what is read from the .env of an instance.
LEMMA FilesAreOverrides ==
    /\ \A us \in UserEnvs \cup {<<>>} : Overrides(us)
    /\ \A lines \in Seq(Lines) \cup {NoFile} : Overrides(Born(lines))
<1>1. ASSUME NEW us \in UserEnvs PROVE Overrides(us)
  <2>1. PICK D \in SUBSET Keys : us \in [D -> Values]
    BY EnvironmentAssumption
  <2> QED
    BY <2>1 DEF Overrides, Vals
<1>2. ASSUME NEW lines \in Seq(Lines) PROVE Overrides(AsMap(lines))
  <2>1. \A n \in DOMAIN lines : lines[n].key \in Keys /\ lines[n].val \in Vals
    <3> TAKE n \in DOMAIN lines
    <3>1. lines[n] \in Lines
      BY ElementOfSeq, LenProperties
    <3> QED
      BY <3>1 DEF Lines, Vals
  <2>2. \A k \in KeysOf(lines) : k \in Keys /\ AsMap(lines)[k] \in Vals
    BY <2>1, LastCounts
  <2> QED
    BY <2>2, LastCounts DEF Overrides
<1>3. Overrides(<<>>)
  BY DEF Overrides
<1> QED
  BY <1>1, <1>2, <1>3 DEF Born

\* The overrides of a rederive.
Merges(over, us, lines, hs) ==
    /\ DOMAIN over = (DOMAIN us \cup DOMAIN Born(lines)) \ hs
    /\ \A k \in DOMAIN over : over[k] = Over(us, Born(lines))[k]

\* The overrides of a rederive, key by key.
LEMMA MergedIs ==
    ASSUME NEW us, Overrides(us), NEW lines, Overrides(Born(lines)), NEW hs
    PROVE  /\ Overrides(Merged(us, lines, hs))
           /\ Merges(Merged(us, lines, hs), us, lines, hs)
<1>1. Merged(us, lines, hs) =
         [k \in (DOMAIN us \cup DOMAIN Born(lines)) \ hs |-> Over(us, Born(lines))[k]]
  BY DEF Merged, Born, Over
<1>2. \A k \in DOMAIN us \cup DOMAIN Born(lines) :
         k \in Keys /\ Over(us, Born(lines))[k] \in Vals
  BY DEF Overrides, Over
<1> QED
  BY <1>1, <1>2 DEF Overrides, Merges

\* The keys of Reference, and its values.
Given(us, lines, sc) == (DOMAIN us \cup DOMAIN Born(lines)) \ sc

ValueOf(k, t, us, lines, hs, sc, i) ==
    IF k \in hs THEN Own(i, k)
    ELSE IF k \in Given(us, lines, sc) THEN Over(us, Born(lines))[k]
    ELSE AsMap(t)[k]

Agrees(map, t, us, lines, hs, sc, i) ==
    map = [k \in hs \cup KeysOf(t) \cup Given(us, lines, sc) |->
              ValueOf(k, t, us, lines, hs, sc, i)]

\* The documented precedence, key by key.
LEMMA ReferenceIs ==
    ASSUME NEW t \in Seq(Lines), NEW us, NEW lines, NEW hs, NEW sc, NEW i
    PROVE  Agrees(Reference(t, us, lines, hs, sc, i), t, us, lines, hs, sc, i)
  BY LastCounts, Zenon DEF Reference, Born, Given, ValueOf, Agrees

Follows(d, t, us, lines, hs, sc, i) == AsMap(d) = Reference(t, us, lines, hs, sc, i)

\* Rederive writes what Reference says, whatever the instance has.
LEMMA RederiveIsReference ==
    ASSUME NEW t \in Seq(Lines), NEW us \in UserEnvs \cup {<<>>},
           NEW lines \in Seq(Lines) \cup {NoFile},
           NEW hs \in SUBSET Keys, NEW sc, NEW i \in Instances,
           NEW d \in Derived(t, Merged(us, lines, hs), hs, sc, i)
    PROVE  d \in Seq(Lines) /\ Follows(d, t, us, lines, hs, sc, i)
<1> DEFINE over  == Merged(us, lines, hs)
           given == Given(us, lines, sc)
<1>0. Overrides(us) /\ Overrides(Born(lines))
  BY FilesAreOverrides
<1>1. /\ Overrides(over) /\ DOMAIN over \ sc = given \ hs
      /\ \A k \in given \ hs : over[k] = Over(us, Born(lines))[k]
  <2>1. Overrides(over) /\ Merges(over, us, lines, hs)
    BY <1>0, MergedIs
  <2> HIDE DEF over
  <2> QED
    BY <2>1 DEF Given, Merges
<1> HIDE DEF over
<1>2. d \in Seq(Lines) /\ AsMap(d) = Written(t, over, hs, sc, i)
  BY <1>1, DerivedIs DEF over
<1> HIDE DEF given
<1>3. KeysOf(t) \cup hs \cup (DOMAIN over \ sc) = hs \cup KeysOf(t) \cup given
  BY <1>1
<1>4. ASSUME NEW k \in hs \cup KeysOf(t) \cup given
      PROVE  (IF k \in hs THEN Own(i, k)
              ELSE IF k \in DOMAIN over \ sc THEN over[k]
              ELSE AsMap(t)[k]) = ValueOf(k, t, us, lines, hs, sc, i)
  BY <1>1 DEF ValueOf, given
<1>5. Written(t, over, hs, sc, i) =
         [k \in hs \cup KeysOf(t) \cup given |-> ValueOf(k, t, us, lines, hs, sc, i)]
  BY <1>3, <1>4 DEF Written
<1>6. Agrees(Reference(t, us, lines, hs, sc, i), t, us, lines, hs, sc, i)
  BY ReferenceIs
<1> QED
  BY <1>2, <1>5, <1>6 DEF Agrees, Follows, given

\* Up writes what a rederive would make of it: what it was born with is its own.
LEMMA UpIsReference ==
    ASSUME NEW t \in Seq(Lines), NEW us \in UserEnvs, NEW hs \in SUBSET Keys, NEW sc,
           NEW i \in Instances, NEW d \in Derived(t, us, hs, sc, i)
    PROVE  d \in Seq(Lines) /\ Follows(d, t, us, d, hs, sc, i)
<1>1. Overrides(us)
  BY FilesAreOverrides
<1>2. d \in Seq(Lines) /\ AsMap(d) = Written(t, us, hs, sc, i)
  BY <1>1, DerivedIs
<1>3. Born(d) = Written(t, us, hs, sc, i)
  BY <1>2, EnvironmentAssumption DEF Born
<1>4. DOMAIN Born(d) = KeysOf(t) \cup hs \cup (DOMAIN us \ sc)
  BY <1>3 DEF Written
<1> DEFINE given == Given(us, d, sc)
<1>5. KeysOf(t) \cup hs \cup (DOMAIN us \ sc) = hs \cup KeysOf(t) \cup given
  BY <1>4 DEF Given
<1>6. ASSUME NEW k \in KeysOf(t) \cup hs \cup (DOMAIN us \ sc)
      PROVE  Written(t, us, hs, sc, i)[k] = ValueOf(k, t, us, d, hs, sc, i)
  BY <1>3, <1>4 DEF Written, Over, ValueOf, Given
<1>7. Written(t, us, hs, sc, i) =
         [k \in KeysOf(t) \cup hs \cup (DOMAIN us \ sc) |-> Written(t, us, hs, sc, i)[k]]
  BY DEF Written
<1> HIDE DEF given
<1>8. Written(t, us, hs, sc, i) =
         [k \in hs \cup KeysOf(t) \cup given |-> ValueOf(k, t, us, d, hs, sc, i)]
  BY <1>5, <1>6, <1>7
<1>9. Agrees(Reference(t, us, d, hs, sc, i), t, us, d, hs, sc, i)
  BY ReferenceIs
<1> QED
  BY <1>2, <1>8, <1>9 DEF Agrees, Follows, given

\* A second rederive changes the value of no key.
LEMMA ReferenceAgain ==
    ASSUME NEW t \in Seq(Lines), NEW us, NEW lines, NEW hs, NEW sc, NEW i,
           NEW d \in Seq(Lines), Follows(d, t, us, lines, hs, sc, i)
    PROVE  Follows(d, t, us, d, hs, sc, i)
<1> DEFINE given == Given(us, lines, sc)
           again == Given(us, d, sc)
           keys  == hs \cup KeysOf(t) \cup given
           Is(k) == ValueOf(k, t, us, lines, hs, sc, i)
<1>1. Born(d) = AsMap(d)
  BY EnvironmentAssumption DEF Born
<1>2. AsMap(d) = [k \in keys |-> Is(k)]
  <2>1. Agrees(Reference(t, us, lines, hs, sc, i), t, us, lines, hs, sc, i)
    BY ReferenceIs
  <2> QED
    BY <2>1 DEF Agrees, Follows
<1>3. DOMAIN Born(d) = keys
  BY <1>1, <1>2
<1>4. hs \cup KeysOf(t) \cup again = keys
  BY <1>3 DEF Given
<1>5. ASSUME NEW k \in keys PROVE Is(k) = ValueOf(k, t, us, d, hs, sc, i)
  <2>1. Born(d)[k] = Is(k)
    BY <1>1, <1>2
  <2>2. CASE k \in hs
    BY <2>2 DEF ValueOf
  <2>3. CASE k \notin hs /\ k \in sc
    BY <2>3 DEF ValueOf, Given
  <2>4. CASE k \notin hs /\ k \notin sc /\ k \in DOMAIN us
    BY <2>4 DEF ValueOf, Given, Over
  <2>5. CASE k \notin hs /\ k \notin sc /\ k \notin DOMAIN us
    <3>1. k \in again
      BY <1>3, <2>5 DEF Given
    <3>2. ValueOf(k, t, us, d, hs, sc, i) = Over(us, Born(d))[k]
      BY <2>5, <3>1 DEF ValueOf
    <3> QED
      BY <1>3, <2>1, <2>5, <3>2 DEF Over
  <2> QED
    BY <2>2, <2>3, <2>4, <2>5
<1> HIDE DEF Is, keys, given, again
<1>6. AsMap(d) = [k \in keys |-> ValueOf(k, t, us, d, hs, sc, i)]
  BY <1>2, <1>5
<1>7. Agrees(Reference(t, us, d, hs, sc, i), t, us, d, hs, sc, i)
  BY ReferenceIs
<1> QED
  BY <1>4, <1>6, <1>7 DEF Agrees, Follows, again

(***************************************************************************)
(* Types                                                                   *)
(***************************************************************************)

LEMMA InitTypes == Init => Types
<1> SUFFICES ASSUME Init PROVE Types
  OBVIOUS
<1>1. job \in JobType
  BY EnvironmentAssumption DEF Init, NoJob, JobType
<1> QED
  BY <1>1, EnvironmentAssumption DEF Init, Types, TypeOK

\* The instance a command is at.
LEMMA AtIs ==
    ASSUME Types, job.todo # {}
    PROVE  At \in job.todo /\ At \in Instances
<1>1. job.todo \subseteq Instances /\ job.todo \subseteq Nat
  BY EnvironmentAssumption DEF Types, JobType
<1> QED
  BY <1>1, MinIs DEF At

LEMMA EndsJob == ASSUME Ends PROVE job' \in JobType /\ pc' = "idle"
  BY EnvironmentAssumption DEF Ends, NoJob, JobType

LEMMA FaultsTypes ==
    ASSUME Types, Works \/ Fails \/ UNCHANGED faults PROVE faults' \in 0 .. MaxFaults
  BY EnvironmentAssumption DEF Types, TypeOK, Works, Fails

LEMMA BeginTypes ==
    ASSUME Types, Start
    PROVE  Types'
<1>1. ASSUME NEW op \in {"up", "rederive", "verify"}, NEW todo \in SUBSET Instances,
             NEW phase \in {"derive", "create", "check"}, op = "up" => todo # {},
             NEW us \in UserEnvs \cup {<<>>}, NEW blind \in SUBSET Instances,
             Begin(op, todo, us, blind, phase), Works \/ Fails
      PROVE  Types'
  <2>1. op = "up" => Min(todo) \in Instances
    BY <1>1, MinIs, EnvironmentAssumption
  <2>2. job' \in JobType
    BY <1>1, <2>1 DEF Begin, JobType, Types, TypeOK
  <2>3. job'.mem = rec /\ job'.todo \cup job'.failed \subseteq Instances
    BY <1>1 DEF Begin
  <2>4. faults' \in 0 .. MaxFaults
    BY <1>1, FaultsTypes
  <2> QED
    BY <1>1, <2>2, <2>3, <2>4 DEF Begin, Types, TypeOK, inputs
<1>2. user \in UserEnvs /\ Registered \in SUBSET Instances
  BY DEF Types, TypeOK, Registered
<1>3. CASE Rederive
  BY <1>1, <1>2, <1>3 DEF Rederive
<1>4. CASE ~Rederive
  <2>1. PICK i \in Instances : Begin("up", {i}, user, {}, "create") \/ Begin("verify", {i}, user, {}, "check")
    BY <1>2, <1>4 DEF Start
  <2>2. Works
    BY <1>4 DEF Start
  <2>3. CASE Begin("up", {i}, user, {}, "create")
    <3>1. {i} # {} /\ {i} \in SUBSET Instances /\ {} \in SUBSET Instances
      OBVIOUS
    <3> QED
      BY <1>1, <1>2, <2>2, <2>3, <3>1
  <2>4. CASE Begin("verify", {i}, user, {}, "check")
    BY <1>1, <1>2, <2>2, <2>4
  <2> QED
    BY <2>1, <2>3, <2>4
<1> QED
  BY <1>3, <1>4

LEMMA CreateTypes == ASSUME Types, Role, Create PROVE Types'
<1>1. At \in Instances /\ job.op = "up" /\ job \in JobType
  BY AtIs DEF Role, Create, Types
<1>2. faults' \in 0 .. MaxFaults
  BY FaultsTypes DEF Create
<1>3. CASE Works /\ \E lines \in NewEnv(At) : env' = [env EXCEPT ![At] = lines]
           /\ fresh' = [fresh EXCEPT ![At] = IF job.holes = holes /\ job.scrub = scrub
                                             THEN "up" ELSE "none"]
           /\ pc' = "static" /\ UNCHANGED job
  <2>1. PICK lines \in NewEnv(At) : env' = [env EXCEPT ![At] = lines]
    BY <1>3
  <2>2. lines \in Seq(Lines)
    <3>1. template \in Seq(Lines) /\ user \in UserEnvs /\ job.holes \in SUBSET Keys
      BY <1>1, EnvironmentAssumption DEF Types, TypeOK, JobType
    <3> QED
      BY <1>1, <2>1, <3>1, UpIsReference DEF NewEnv
  <2> QED
    BY <1>1, <1>2, <1>3, <2>1, <2>2 DEF Types, TypeOK, Create, inputs
<1>4. CASE RollBack /\ UNCHANGED fresh
  BY <1>1, <1>2, <1>4, EndsJob DEF Types, TypeOK, Create, inputs, RollBack
<1> QED
  BY <1>3, <1>4 DEF Create

LEMMA StaticTypes == ASSUME Types, Role, Static PROVE Types'
<1>1. At \in Instances
  BY AtIs DEF Role, Static, Types
<1>0. faults' \in 0 .. MaxFaults
  BY FaultsTypes DEF Static
<1>2. CASE RollBack
  BY <1>0, <1>1, <1>2, EndsJob DEF Types, TypeOK, Static, inputs, RollBack
<1>3. CASE pc' = "register" /\ UNCHANGED <<env, job>>
  BY <1>0, <1>1, <1>3 DEF Types, TypeOK, Static, inputs
<1> QED
  BY <1>2, <1>3 DEF Static

LEMMA RegisterTypes == ASSUME Types, Role, Register PROVE Types'
<1>1. At \in Instances /\ job \in JobType /\ ~job.dirty
  BY AtIs DEF Role, Register, Types
<1>2. faults' \in 0 .. MaxFaults
  BY FaultsTypes DEF Register
<1>3. CASE Fails /\ RollBack /\ UNCHANGED rec
  BY <1>1, <1>2, <1>3, EndsJob DEF Types, TypeOK, Register, inputs, RollBack
<1>4. CASE ~(Fails /\ RollBack /\ UNCHANGED rec)
  <2> DEFINE new == [supplied |-> job.holes, health |-> "none", current |-> FALSE]
  <2>1. new \in Rec
    BY <1>1 DEF Rec, JobType
  <2>2. rec' = [rec EXCEPT ![At] = new] /\ UNCHANGED env
    BY <1>4 DEF Register
  <2> HIDE DEF new
  <2>3. rec' \in [Instances -> Rec \cup {NoInst}] /\ env' \in [Instances -> Seq(Lines) \cup {NoFile}]
    BY <1>1, <2>1, <2>2 DEF Types, TypeOK
  <2>4. CASE Ends
    BY <1>2, <2>2, <2>3, <2>4, EndsJob DEF Types, TypeOK, Register, inputs
  <2>5. CASE job' = [job EXCEPT !.mem[At] = new] /\ pc' = "check"
    <3>1. job.mem = rec /\ rec \in [Instances -> Rec \cup {NoInst}]
      BY <1>1 DEF Types, TypeOK, Register
    <3>2. job'.mem = rec' /\ job'.mem \in [Instances -> Rec \cup {NoInst}]
      BY <1>1, <2>2, <2>3, <2>5, <3>1 DEF JobType
    <3>3. job' \in JobType
      BY <1>1, <2>5, <3>2 DEF JobType
    <3>4. job'.user = job.user /\ job'.todo = job.todo /\ job'.failed = job.failed
      BY <1>1, <2>5 DEF JobType
    <3> QED
      BY <1>1, <1>2, <2>2, <2>3, <2>5, <3>2, <3>3, <3>4 DEF Types, TypeOK, Register, inputs
  <2> QED
    BY <1>4, <2>4, <2>5 DEF Register, new
<1> QED
  BY <1>3, <1>4

LEMMA SkipsJob ==
    ASSUME Types, job.todo # {}, Skips(At)
    PROVE  /\ job' \in JobType /\ job'.user = job.user /\ job'.dirty = job.dirty
           /\ job'.mem = job.mem /\ job'.todo = job.todo \ {At}
           /\ job'.failed = job.failed \cup {At} /\ job'.op = job.op
           /\ job'.new = job.new /\ job'.holes = job.holes /\ job'.scrub = job.scrub
           /\ job'.quiet = job.quiet /\ job'.blind = job.blind
<1>1. job \in JobType /\ At \in Instances
  BY AtIs DEF Types
<1> QED
  BY <1>1 DEF Skips, JobType

\* What rederive derives from: the old .env, or nothing.
DerivesFrom(old, lines) ==
    /\ old \in {env[At], NoFile}
    /\ lines \in Derived(template, Merged(job.user, old, job.holes), job.holes, job.scrub, At)
    /\ job' = [job EXCEPT !.tmp = lines,
                          !.blind = IF old = env[At] THEN @ ELSE @ \cup {At}]

LEMMA DeriveIs ==
    ASSUME Derive, ~(Skips(At) /\ UNCHANGED pc)
    PROVE  pc' = "replace" /\ pc = "derive" /\ \E old, lines : DerivesFrom(old, lines)
<1>1. /\ pc' = "replace" /\ pc = "derive"
      /\ \E old \in {env[At], NoFile} :
            \E lines \in Derived(template, Merged(job.user, old, job.holes),
                                job.holes, job.scrub, At) :
               job' = [job EXCEPT !.tmp = lines,
                                  !.blind = IF old = env[At] THEN @ ELSE @ \cup {At}]
  BY DEF Derive
<1>2. PICK old \in {env[At], NoFile} :
         \E lines \in Derived(template, Merged(job.user, old, job.holes),
                             job.holes, job.scrub, At) :
            job' = [job EXCEPT !.tmp = lines,
                               !.blind = IF old = env[At] THEN @ ELSE @ \cup {At}]
  BY <1>1
<1>3. PICK lines \in Derived(template, Merged(job.user, old, job.holes),
                             job.holes, job.scrub, At) :
            job' = [job EXCEPT !.tmp = lines,
                               !.blind = IF old = env[At] THEN @ ELSE @ \cup {At}]
  BY <1>2
<1>4. DerivesFrom(old, lines)
  BY <1>3 DEF DerivesFrom
<1> QED
  BY <1>1, <1>4

\* What Derive leaves of the command.
LEMMA DerivesJob ==
    ASSUME Types, At \in Instances, NEW old, NEW lines, DerivesFrom(old, lines)
    PROVE  /\ lines \in Seq(Lines)
           /\ Follows(lines, template, job.user, old, job.holes, job.scrub, At)
           /\ job' \in JobType /\ job'.user = job.user /\ job'.dirty = job.dirty
           /\ job'.mem = job.mem /\ job'.todo = job.todo /\ job'.failed = job.failed
           /\ job'.op = job.op /\ job'.tmp = lines
           /\ job'.new = job.new /\ job'.holes = job.holes /\ job'.scrub = job.scrub
           /\ job'.quiet = job.quiet
           /\ job'.blind = IF old = env[At] THEN job.blind ELSE job.blind \cup {At}
<1>1. /\ job \in JobType /\ template \in Seq(Lines) /\ job.holes \in SUBSET Keys
      /\ job.user \in UserEnvs \cup {<<>>} /\ old \in Seq(Lines) \cup {NoFile}
  BY EnvironmentAssumption DEF Types, TypeOK, JobType, DerivesFrom
<1>2. /\ lines \in Seq(Lines)
      /\ Follows(lines, template, job.user, old, job.holes, job.scrub, At)
  BY <1>1, RederiveIsReference DEF DerivesFrom
<1> DEFINE blind == IF old = env[At] THEN job.blind ELSE job.blind \cup {At}
<1>3. blind \in SUBSET Instances
  BY <1>1 DEF JobType
<1>4. job' = [job EXCEPT !.tmp = lines, !.blind = blind]
  BY DEF DerivesFrom
<1> HIDE DEF blind
<1>5. /\ job' \in JobType /\ job'.user = job.user /\ job'.dirty = job.dirty
      /\ job'.mem = job.mem /\ job'.todo = job.todo /\ job'.failed = job.failed
      /\ job'.op = job.op /\ job'.tmp = lines
      /\ job'.new = job.new /\ job'.holes = job.holes /\ job'.scrub = job.scrub
      /\ job'.quiet = job.quiet /\ job'.blind = blind
  BY <1>1, <1>2, <1>3, <1>4 DEF JobType
<1> QED
  BY <1>2, <1>5 DEF blind

LEMMA DeriveTypes == ASSUME Types, Derive PROVE Types'
<1>1. At \in Instances /\ job \in JobType
  BY AtIs DEF Derive, Types
<1>2. faults' \in 0 .. MaxFaults
  BY FaultsTypes DEF Derive
<1>3. CASE Skips(At) /\ UNCHANGED pc
  BY <1>1, <1>2, <1>3, SkipsJob DEF Types, TypeOK, Derive, inputs
<1>4. CASE ~(Skips(At) /\ UNCHANGED pc)
  <2>1. PICK old, lines : DerivesFrom(old, lines)
    BY <1>4, DeriveIs
  <2>2. /\ job' \in JobType /\ job'.dirty = job.dirty /\ job'.mem = job.mem
        /\ job'.todo = job.todo /\ job'.failed = job.failed
    BY <1>1, <2>1, DerivesJob
  <2>3. pc' = "replace" /\ pc = "derive"
    BY <1>4, DeriveIs
  <2> QED
    BY <1>1, <1>2, <2>2, <2>3 DEF Types, TypeOK, Derive, inputs
<1> QED
  BY <1>3, <1>4

LEMMA FreshnessIs == Freshness(At) \in {"none", "rederive", "blind"}
  BY DEF Freshness

LEMMA SameTypes == ASSUME Types, Role, Same PROVE Types'
<1>1. At \in Instances /\ job \in JobType
  BY AtIs DEF Role, Same, Types
<1>2. /\ job' \in JobType /\ job'.user = job.user /\ job'.dirty = job.dirty
      /\ job'.mem = job.mem /\ job'.todo \subseteq job.todo /\ job'.failed = job.failed
  BY <1>1 DEF Same, JobType
<1> QED
  BY <1>1, <1>2, FreshnessIs DEF Types, TypeOK, Same, inputs

LEMMA RenameTypes == ASSUME Types, Role, Rename PROVE Types'
<1>1. At \in Instances /\ job \in JobType /\ job.todo # {}
  BY AtIs DEF Role, Rename, Types
<1>2. faults' \in 0 .. MaxFaults
  BY FaultsTypes DEF Rename
<1>3. CASE Skips(At) /\ pc' = "derive" /\ UNCHANGED <<env, fresh>>
  BY <1>1, <1>2, <1>3, SkipsJob DEF Types, TypeOK, Rename, inputs
<1>4. CASE ~(Skips(At) /\ pc' = "derive" /\ UNCHANGED <<env, fresh>>)
  <2>1. /\ pc' = "check" /\ env' = [env EXCEPT ![At] = job.tmp] /\ UNCHANGED job
        /\ fresh' = [fresh EXCEPT ![At] = Freshness(At)]
    BY <1>4 DEF Rename
  <2>2. job.tmp \in Seq(Lines)
    BY <1>1 DEF JobType
  <2> QED
    BY <1>1, <1>2, <2>1, <2>2, FreshnessIs DEF Types, TypeOK, Rename, inputs
<1> QED
  BY <1>3, <1>4

\* A command that checks is about a record.
LEMMA CheckedIs ==
    ASSUME Types, Role, SameNames, pc = "check"
    PROVE  /\ job \in JobType /\ At \in job.todo /\ At \in Instances
           /\ rec[At] \in Rec /\ job.mem \in [Instances -> Rec \cup {NoInst}]
           /\ job.mem[At] \in Rec
<1>1. job \in JobType /\ At \in job.todo /\ At \in Instances
  BY AtIs DEF Role, Types
<1>2. rec[At] # NoInst /\ job.mem[At] # NoInst
  BY <1>1 DEF Role, SameNames
<1> QED
  BY <1>1, <1>2 DEF Types, TypeOK

\* What a check notes.
LEMMA NotesJob ==
    ASSUME Types, Role, SameNames, pc = "check",
           NEW health \in {"healthy", "unhealthy"}, Notes(At, health)
    PROVE  /\ job' \in JobType
           /\ job'.mem \in [Instances -> Rec \cup {NoInst}] /\ job'.dirty
           /\ job'.mem[At] = [job.mem[At] EXCEPT !.health = health,
                                !.current = job.holes = holes /\ job.scrub = scrub]
           /\ job'.mem[At] \in Rec
           /\ \A i \in Instances : i # At => job'.mem[i] = job.mem[i]
           /\ job'.todo = job.todo \ {At} /\ job'.user = job.user /\ job'.failed = job.failed
           /\ job'.op = job.op /\ job'.new = job.new
           /\ job'.holes = job.holes /\ job'.scrub = job.scrub /\ job'.quiet = job.quiet
           /\ job'.blind = job.blind
<1> DEFINE r == [job.mem[At] EXCEPT !.health = health,
                    !.current = job.holes = holes /\ job.scrub = scrub]
<1>1. /\ job \in JobType /\ At \in Instances /\ job.mem[At] \in Rec
      /\ job.mem \in [Instances -> Rec \cup {NoInst}]
  BY CheckedIs
<1>2. r \in Rec
  BY <1>1 DEF Rec
<1>3. Noted(At, health) = [job.mem EXCEPT ![At] = r]
  BY <1>1 DEF Noted
<1> HIDE DEF r
<1>4. /\ Noted(At, health) \in [Instances -> Rec \cup {NoInst}]
      /\ Noted(At, health)[At] = r
      /\ \A i \in Instances : i # At => Noted(At, health)[i] = job.mem[i]
  BY <1>1, <1>2, <1>3
<1>5. job' = [job EXCEPT !.mem = Noted(At, health), !.dirty = TRUE, !.todo = @ \ {At}]
  BY DEF Notes
<1>6. /\ job'.mem = Noted(At, health) /\ job'.dirty /\ job'.todo = job.todo \ {At}
      /\ job'.user = job.user /\ job'.failed = job.failed /\ job'.op = job.op
      /\ job'.new = job.new /\ job'.holes = job.holes /\ job'.scrub = job.scrub
      /\ job'.quiet = job.quiet /\ job'.blind = job.blind
  BY <1>1, <1>5 DEF JobType
<1>7. job' \in JobType
  BY <1>1, <1>4, <1>5 DEF JobType
<1> QED
  BY <1>2, <1>4, <1>6, <1>7 DEF r

\* The verdict of a check.
LEMMA CheckNotes ==
    ASSUME Check
    PROVE  \E health \in {"healthy", "unhealthy"} :
              /\ Notes(At, health)
              /\ Fails \/ (Works /\ (health = "healthy" => Judges(At)))
  BY DEF Check

LEMMA CheckTypes == ASSUME Types, Role, SameNames, Check PROVE Types'
<1>1. pc = "check" /\ pc' = "derive" /\ UNCHANGED <<inputs, rec, env, fresh, edits>>
  BY DEF Check
<1>2. PICK health \in {"healthy", "unhealthy"} : Notes(At, health) /\ (Works \/ Fails)
  BY CheckNotes
<1>3. faults' \in 0 .. MaxFaults
  BY <1>2, FaultsTypes
<1>4. /\ job' \in JobType /\ job'.mem \in [Instances -> Rec \cup {NoInst}] /\ job'.dirty
      /\ job'.todo = job.todo \ {At} /\ job'.user = job.user /\ job'.failed = job.failed
  BY <1>1, <1>2, NotesJob
<1> QED
  BY <1>1, <1>3, <1>4 DEF Types, TypeOK, inputs

LEMMA SaveTypes == ASSUME Types, Save PROVE Types'
<1>1. faults' \in 0 .. MaxFaults
  BY FaultsTypes DEF Save
<1>2. job' \in JobType /\ pc' = "idle"
  BY EndsJob DEF Save
<1>3. rec' \in [Instances -> Rec \cup {NoInst}]
  <2>1. WithoutNew(rec, NoInst) \in [Instances -> Rec \cup {NoInst}]
    BY DEF WithoutNew, Types, TypeOK
  <2> QED
    BY <2>1 DEF Save, Types, TypeOK
<1>4. env' \in [Instances -> Seq(Lines) \cup {NoFile}]
  <2>1. WithoutNew(env, NoFile) \in [Instances -> Seq(Lines) \cup {NoFile}]
    BY DEF WithoutNew, Types
  <2> QED
    BY <2>1 DEF Save, Types
<1>5. fresh' \in [Instances -> {"none", "up", "rederive", "blind"}]
  <2>1. WithoutNew(fresh, "none") \in [Instances -> {"none", "up", "rederive", "blind"}]
    BY DEF WithoutNew, Types, TypeOK
  <2> QED
    BY <2>1 DEF Save, Types, TypeOK
<1> QED
  BY <1>1, <1>2, <1>3, <1>4, <1>5 DEF Types, TypeOK, Save, inputs

LEMMA DownTypes == ASSUME Types, NEW i \in Instances, Down(i) PROVE Types'
  BY DEF Types, TypeOK, Down, inputs

LEMMA CrashTypes == ASSUME Types, Crash PROVE Types'
<1>1. faults' \in 0 .. MaxFaults
  BY FaultsTypes DEF Crash
<1> QED
  BY <1>1, EndsJob DEF Types, TypeOK, Crash, inputs

\* An edit only outdates what was checked.
LEMMA OutdatedIs ==
    ASSUME NEW records \in [Instances -> Rec \cup {NoInst}]
    PROVE  /\ Outdated(records) \in [Instances -> Rec \cup {NoInst}]
           /\ \A i \in Instances :
                 /\ Outdated(records)[i] = NoInst <=> records[i] = NoInst
                 /\ Outdated(records)[i] # NoInst => ~Outdated(records)[i].current
<1>1. ASSUME NEW i \in Instances, records[i] # NoInst
      PROVE  /\ [records[i] EXCEPT !.current = FALSE] \in Rec
             /\ ~[records[i] EXCEPT !.current = FALSE].current
  BY <1>1 DEF Rec
<1>2. NoInst \notin Rec
  BY EnvironmentAssumption
<1> QED
  BY <1>1, <1>2 DEF Outdated

LEMMA EditsJob ==
    ASSUME Types, Edits
    PROVE  /\ job' \in JobType /\ job'.user = job.user /\ job'.dirty = job.dirty
           /\ job'.todo = job.todo /\ job'.failed = job.failed
           /\ job'.op = job.op /\ job'.new = job.new
           /\ pc # "idle" => ~job'.quiet /\ job'.mem = Outdated(job.mem)
<1>1. job \in JobType /\ (pc # "idle" => job.mem \in [Instances -> Rec \cup {NoInst}])
  BY DEF Types, TypeOK
<1>2. CASE pc = "idle"
  BY <1>1, <1>2 DEF Edits
<1>3. CASE pc # "idle"
  <2>1. Outdated(job.mem) \in [Instances -> Rec \cup {NoInst}]
    BY <1>1, <1>3, OutdatedIs
  <2>2. job' = [job EXCEPT !.mem = Outdated(job.mem), !.quiet = FALSE]
    BY <1>3 DEF Edits
  <2> QED
    BY <1>1, <1>3, <2>1, <2>2 DEF JobType
<1> QED
  BY <1>2, <1>3

LEMMA EditsTypes ==
    ASSUME Types, Edits, template' \in Templates, user' \in UserEnvs, holes' \in SUBSET Keys,
           scrub' \in SUBSET Keys, env' \in [Instances -> Seq(Lines) \cup {NoFile}]
    PROVE  Types'
<1>1. edits' \in 0 .. MaxEdits
  BY EnvironmentAssumption DEF Types, TypeOK, Edits
<1>2. rec \in [Instances -> Rec \cup {NoInst}]
      /\ rec' = Outdated(rec) /\ rec' \in [Instances -> Rec \cup {NoInst}]
  BY OutdatedIs DEF Types, TypeOK, Edits
<1>3. pc # "idle" => /\ job.dirty \/ job.mem = rec
                     /\ job.mem \in [Instances -> Rec \cup {NoInst}]
                     /\ job'.mem = Outdated(job.mem)
                     /\ Outdated(job.mem) \in [Instances -> Rec \cup {NoInst}]
  BY EditsJob, OutdatedIs DEF Types, TypeOK
<1>4. job' \in JobType /\ job'.user = job.user /\ job'.dirty = job.dirty
      /\ job'.todo = job.todo /\ job'.failed = job.failed
  BY EditsJob
<1>5. fresh' \in [Instances -> {"none", "up", "rederive", "blind"}]
  BY DEF Edits
<1>6. pc' = pc /\ faults' = faults
  BY DEF Edits
<1> QED
  BY <1>1, <1>2, <1>3, <1>4, <1>5, <1>6 DEF Types, TypeOK

\* Every edit is one.
LEMMA EditIs ==
    ASSUME Types, EditTemplate \/ EditUser \/ EditBlueprint \/ LoseEnv
    PROVE  /\ Edits /\ template' \in Templates /\ user' \in UserEnvs
           /\ holes' \in SUBSET Keys /\ scrub' \in SUBSET Keys
           /\ env' \in [Instances -> Seq(Lines) \cup {NoFile}]
           /\ \A i \in Instances : env'[i] = env[i] \/ (env'[i] = NoFile /\ rec[i] # NoInst)
  BY DEF Types, TypeOK, EditTemplate, EditUser, EditBlueprint, LoseEnv, inputs, Registered

LEMMA TypesNext == ASSUME IInv, [Next]_vars PROVE Types'
<1>1. Types /\ Role /\ SameNames
  BY DEF IInv
<1>2. CASE EditTemplate \/ EditUser \/ EditBlueprint \/ LoseEnv
  BY <1>1, <1>2, EditIs, EditsTypes
<1>3. CASE UNCHANGED vars
  BY <1>1, <1>3 DEF Types, TypeOK, vars, inputs
<1> QED
  BY <1>1, <1>2, <1>3, BeginTypes, CreateTypes, StaticTypes, RegisterTypes, DeriveTypes, SameTypes,
     RenameTypes, CheckTypes, SaveTypes, DownTypes, CrashTypes DEF Next

(***************************************************************************)
(* The parts that hold where nothing happens to them                       *)
(***************************************************************************)

\* The target of an instance depends on the inputs and its .env only.
LEMMA TargetStill ==
    ASSUME UNCHANGED inputs, NEW i \in Instances, env'[i] = env[i]
    PROVE  Target(i)' = Target(i)
  BY DEF Target, inputs

\* So does what the checks of an environment find.
LEMMA PassesStill ==
    ASSUME UNCHANGED inputs, NEW i \in Instances, env'[i] = env[i]
    PROVE  EnvPasses(env[i], holes, scrub)' <=> EnvPasses(env[i], holes, scrub)
  BY DEF EnvPasses, Complete, Resolved, NoLeak, inputs

\* Between commands four parts say nothing.
LEMMA IdleKeeps ==
    ASSUME pc' = "idle"
    PROVE  Role' /\ SameNames' /\ ReadsToday' /\ TmpIsRight' /\ Reached'
  BY DEF Role, SameNames, ReadsToday, TmpIsRight, Reached

\* An instance whose .env, record and freshness stay.
LEMMA FreshStays ==
    ASSUME FreshFiles, UNCHANGED inputs, NEW i \in Instances,
           env'[i] = env[i], fresh'[i] = fresh[i], rec'[i] # NoInst => rec[i] # NoInst,
           fresh'[i] \in {"up", "rederive"}
    PROVE  /\ env'[i] # NoFile => AsMap(env'[i]) = Target(i)'
           /\ rec'[i] # NoInst => env'[i] # NoFile
  BY TargetStill DEF FreshFiles

\* A verdict that stays while its .env does.
LEMMA VerdictStays ==
    ASSUME Verdicts, UNCHANGED inputs, faults = MaxFaults, NEW i \in Instances,
           env'[i] = env[i], ~(pc = "check" /\ i = At),
           Known'[i] = Known[i], Known[i] # NoInst, Known[i].current,
           Known[i].health = "healthy"
    PROVE  EnvPasses(env[i], holes, scrub)'
  BY PassesStill DEF Verdicts

(***************************************************************************)
(* The commands                                                            *)
(***************************************************************************)

LEMMA BeginKeeps ==
    ASSUME IInv, Start
    PROVE  Role' /\ SameNames' /\ Verdicts' /\ FreshFiles' /\ ReadsToday' /\ TmpIsRight' /\ Reached'
<1>1. ASSUME NEW op, NEW todo \in SUBSET Instances, NEW us, NEW blind, NEW phase,
             Begin(op, todo, us, blind, phase), Works \/ Fails,
             us = user \/ blind = Instances,
             \/ op = "rederive" /\ todo = Registered /\ phase = "derive"
             \/ op = "up" /\ phase = "create" /\ \E i \in Instances \ Registered : todo = {i}
             \/ op = "verify" /\ phase = "check" /\ \E i \in Registered : todo = {i}
      PROVE  Role' /\ SameNames' /\ Verdicts' /\ FreshFiles' /\ ReadsToday' /\ TmpIsRight' /\ Reached'
  <2>0. faults' = MaxFaults => faults = MaxFaults
    BY <1>1, EnvironmentAssumption DEF Works, Fails, IInv, Types, TypeOK
  <2>1. /\ pc = "idle" /\ pc' = phase /\ UNCHANGED <<inputs, rec, env, fresh, edits>>
        /\ job'.op = op /\ job'.todo = todo /\ job'.new = (IF op = "up" THEN Min(todo) ELSE NoInst)
        /\ job'.user = us /\ job'.blind = blind /\ job'.holes = holes /\ job'.scrub = scrub /\ job'.mem = rec
        /\ ~job'.dirty
    BY <1>1 DEF Begin
  <2>2. ASSUME NEW i \in Instances, todo = {i} PROVE Min(todo) = i
    BY <2>2, MinIs, EnvironmentAssumption
  <2>3. At' = Min(todo)
    BY <2>1 DEF At
  <2>4. Role'
    BY <1>1, <2>1, <2>2, <2>3 DEF Role, Registered
  <2>5. SameNames'
    BY <2>1 DEF SameNames
  <2>6. Known' = rec /\ Known = rec
    BY <1>1, <2>1 DEF Known
  <2>7. Verdicts'
    BY <2>0, <2>1, <2>6, VerdictStays DEF Verdicts, IInv
  <2>8. FreshFiles'
    BY <1>1, <2>1, FreshStays DEF FreshFiles, IInv
  <2>9. ReadsToday' /\ TmpIsRight'
    BY <1>1, <2>1 DEF ReadsToday, TmpIsRight, inputs
  <2>10. Reached'
    BY <1>1, <2>1 DEF Reached, Registered
  <2> QED
    BY <2>4, <2>5, <2>7, <2>8, <2>9, <2>10
<1> QED
  BY <1>1 DEF Start, Rederive, Registered

\* A rollback of up removes the .env of an instance that nobody knows.
LEMMA RollBackKeeps ==
    ASSUME IInv, pc \in {"create", "static", "register"}, RollBack,
           UNCHANGED <<inputs, rec, fresh>>, faults' <= faults, faults' \in 0 .. MaxFaults
    PROVE  Role' /\ SameNames' /\ Verdicts' /\ FreshFiles' /\ ReadsToday' /\ TmpIsRight' /\ Reached'
<1>1. /\ At \in Instances /\ rec[At] = NoInst /\ ~job.dirty /\ pc' = "idle"
      /\ \A i \in Instances : env'[i] = IF i = At THEN NoFile ELSE env[i]
  BY AtIs DEF IInv, Role, RollBack, Ends, Types
<1>2. Known' = rec /\ Known = rec
  BY <1>1 DEF IInv, Types, TypeOK, Known
<1>3. Verdicts'
  <2> SUFFICES ASSUME faults' = MaxFaults, NEW i \in Instances, Known'[i] # NoInst,
                      Known'[i].current, Known'[i].health = "healthy"
               PROVE  EnvPasses(env[i], holes, scrub)'
    BY DEF Verdicts
  <2>1. faults = MaxFaults /\ i # At
    BY <1>1, <1>2 DEF IInv, Types, TypeOK
  <2> QED
    BY <1>1, <1>2, <2>1, VerdictStays DEF IInv
<1>4. FreshFiles'
  <2> SUFFICES ASSUME NEW i \in Instances, fresh'[i] \in {"up", "rederive"}
               PROVE  /\ env'[i] # NoFile => AsMap(env'[i]) = Target(i)'
                      /\ rec'[i] # NoInst => env'[i] # NoFile
    BY <1>1 DEF FreshFiles
  <2>1. CASE i = At
    BY <1>1, <2>1
  <2>2. CASE i # At
    BY <1>1, <2>2, FreshStays DEF IInv
  <2> QED
    BY <2>1, <2>2
<1> QED
  BY <1>1, <1>3, <1>4, IdleKeeps

\* Up derives from the user's file alone, and the new .env is what a rederive
\* would make of it, provided the blueprint has not changed since up read it.
LEMMA CreateKeeps ==
    ASSUME IInv, Create
    PROVE  Role' /\ SameNames' /\ Verdicts' /\ FreshFiles' /\ ReadsToday' /\ TmpIsRight' /\ Reached'
<1>1. /\ At \in Instances /\ rec[At] = NoInst /\ ~job.dirty /\ job.op = "up" /\ pc = "create"
      /\ UNCHANGED <<inputs, rec, edits>>
  BY AtIs DEF IInv, Role, Create, Types
<1>2. CASE Fails /\ RollBack /\ UNCHANGED fresh
  <2>1. faults' <= faults /\ faults' \in 0 .. MaxFaults
    BY <1>2, EnvironmentAssumption DEF Fails, IInv, Types, TypeOK
  <2> QED
    BY <1>1, <1>2, <2>1, RollBackKeeps
<1>3. CASE ~(Fails /\ RollBack /\ UNCHANGED fresh)
  <2>1. PICK lines \in NewEnv(At) : env' = [env EXCEPT ![At] = lines]
    BY <1>3 DEF Create
  <2>2. /\ Works /\ pc' = "static" /\ UNCHANGED job
        /\ fresh' = [fresh EXCEPT ![At] = IF job.holes = holes /\ job.scrub = scrub
                                         THEN "up" ELSE "none"]
    BY <1>3 DEF Create
  <2>3. /\ \A i \in Instances : env'[i] = IF i = At THEN lines ELSE env[i]
        /\ \A i \in Instances : i # At => fresh'[i] = fresh[i]
        /\ fresh'[At] \in {"up", "rederive"} => job.holes = holes /\ job.scrub = scrub
    BY <1>1, <2>1, <2>2 DEF IInv, Types, TypeOK
  <2>4. /\ lines \in Seq(Lines)
        /\ fresh'[At] \in {"up", "rederive"} => AsMap(lines) = Reference(template, user, lines, holes, scrub, At)
    <3>1. template \in Seq(Lines) /\ user \in UserEnvs /\ job.holes \in SUBSET Keys
      BY EnvironmentAssumption DEF IInv, Types, TypeOK, JobType
    <3>2. /\ lines \in Seq(Lines)
          /\ Follows(lines, template, user, lines, job.holes, job.scrub, At)
      BY <1>1, <2>1, <3>1, UpIsReference DEF NewEnv
    <3> QED
      BY <2>3, <3>2 DEF Follows
  <2>5. job' = job /\ rec' = rec /\ faults' = faults /\ At' = At
    BY <1>1, <2>2 DEF Works, At
  <2>6. Role' /\ SameNames' /\ TmpIsRight'
    BY <1>1, <2>2, <2>5 DEF IInv, Role, SameNames, TmpIsRight
  <2>7. ReadsToday' /\ Reached'
    BY <1>1, <2>2, <2>5 DEF IInv, ReadsToday, Reached, inputs
  <2>8. Known' = rec /\ Known = rec
    BY <1>1, <2>2, <2>5 DEF IInv, Types, TypeOK, Known
  <2>9. Verdicts'
    <3> SUFFICES ASSUME faults = MaxFaults, NEW i \in Instances, Known'[i] # NoInst,
                        Known'[i].current, Known'[i].health = "healthy"
                 PROVE  EnvPasses(env[i], holes, scrub)'
      BY <2>5 DEF Verdicts
    <3>1. i # At
      BY <1>1, <2>8
    <3> QED
      BY <1>1, <2>3, <2>8, <3>1, VerdictStays DEF IInv
  <2>10. FreshFiles'
    <3> SUFFICES ASSUME NEW i \in Instances, fresh'[i] \in {"up", "rederive"}
                 PROVE  /\ env'[i] # NoFile => AsMap(env'[i]) = Target(i)'
                        /\ rec'[i] # NoInst => env'[i] # NoFile
      BY <2>2 DEF FreshFiles
    <3>1. CASE i = At
      BY <1>1, <2>3, <2>4, <2>5, <3>1 DEF Target, inputs
    <3>2. CASE i # At
      BY <1>1, <2>3, <2>5, <3>2, FreshStays DEF IInv
    <3> QED
      BY <3>1, <3>2
  <2> QED
    BY <2>6, <2>7, <2>9, <2>10
<1> QED
  BY <1>2, <1>3

LEMMA StaticKeeps ==
    ASSUME IInv, Static
    PROVE  Role' /\ SameNames' /\ Verdicts' /\ FreshFiles' /\ ReadsToday' /\ TmpIsRight' /\ Reached'
<1>1. /\ At \in Instances /\ rec[At] = NoInst /\ ~job.dirty /\ job.op = "up" /\ pc = "static"
      /\ UNCHANGED <<inputs, rec, fresh, edits>>
  BY AtIs DEF IInv, Role, Static, Types
<1>0. faults' <= faults /\ faults' \in 0 .. MaxFaults /\ (faults' = MaxFaults => faults = MaxFaults)
  BY EnvironmentAssumption DEF Static, Works, Fails, IInv, Types, TypeOK
<1>2. CASE RollBack
  BY <1>0, <1>1, <1>2, RollBackKeeps
<1>3. CASE ~RollBack
  <2>1. pc' = "register" /\ UNCHANGED <<env, job>>
    BY <1>3 DEF Static
  <2>2. env[At] # NoFile
    BY <1>3 DEF Static, EnvPasses, EnvMayPass
  <2>3. At' = At /\ job' = job /\ rec' = rec /\ env' = env /\ fresh' = fresh
    BY <1>1, <2>1 DEF At
  <2>4. Role' /\ SameNames' /\ TmpIsRight' /\ ReadsToday' /\ Reached'
    BY <1>1, <2>1, <2>3 DEF IInv, Role, SameNames, TmpIsRight, ReadsToday, Reached, inputs
  <2>5. Known' = Known
    BY <1>1, <2>1, <2>3 DEF Known
  <2>6. Verdicts'
    BY <1>0, <1>1, <2>1, <2>3, <2>5, VerdictStays DEF Verdicts, IInv
  <2>7. FreshFiles'
    BY <1>1, <2>1, <2>2, <2>3, FreshStays DEF FreshFiles, IInv
  <2> QED
    BY <2>4, <2>6, <2>7
<1> QED
  BY <1>2, <1>3

LEMMA RegisterKeeps ==
    ASSUME IInv, Register
    PROVE  Role' /\ SameNames' /\ Verdicts' /\ FreshFiles' /\ ReadsToday' /\ TmpIsRight' /\ Reached'
<1>1. /\ At \in Instances /\ rec[At] = NoInst /\ ~job.dirty /\ job.op = "up" /\ pc = "register"
      /\ UNCHANGED <<inputs, fresh, edits>> /\ job.mem = rec /\ job \in JobType
      /\ rec \in [Instances -> Rec \cup {NoInst}]
  BY AtIs DEF IInv, Role, Register, Types, TypeOK
<1>2. CASE Fails /\ RollBack /\ UNCHANGED rec
  <2>1. faults' <= faults /\ faults' \in 0 .. MaxFaults
    BY <1>2, EnvironmentAssumption DEF Fails, IInv, Types, TypeOK
  <2> QED
    BY <1>1, <1>2, <2>1, RollBackKeeps
<1>3. CASE ~(Fails /\ RollBack /\ UNCHANGED rec)
  <2> DEFINE new == [supplied |-> job.holes, health |-> "none", current |-> FALSE]
  <2>0. new \in Rec /\ ~new.current
    BY <1>1 DEF Rec, JobType
  <2>1. new \in Rec /\ new # NoInst /\ ~new.current
    BY <2>0, EnvironmentAssumption
  <2>2. /\ Works /\ rec' = [rec EXCEPT ![At] = new] /\ UNCHANGED env
        /\ \/ job' = [job EXCEPT !.mem[At] = new] /\ pc' = "check"
           \/ Ends
    BY <1>3 DEF Register
  <2> HIDE DEF new
  <2>3. /\ \A i \in Instances : rec'[i] = IF i = At THEN new ELSE rec[i]
        /\ env' = env /\ faults' = faults /\ fresh' = fresh
    BY <1>1, <2>2 DEF Works
  <2>4. \/ pc' = "idle"
        \/ /\ pc' = "check" /\ job'.mem = rec' /\ job'.op = "up" /\ job'.new = job.new
           /\ job'.todo = job.todo /\ At' = At /\ job'.quiet = job.quiet
           /\ job'.blind = job.blind
           /\ job'.user = job.user /\ job'.holes = job.holes /\ job'.scrub = job.scrub
    <3>1. CASE job' = [job EXCEPT !.mem[At] = new] /\ pc' = "check"
      <4>1. job'.mem = [job.mem EXCEPT ![At] = new]
        BY <1>1, <3>1 DEF JobType
      <4>2. /\ job'.op = job.op /\ job'.new = job.new /\ job'.todo = job.todo
            /\ job'.quiet = job.quiet /\ job'.blind = job.blind
            /\ job'.user = job.user /\ job'.holes = job.holes /\ job'.scrub = job.scrub
        BY <1>1, <3>1 DEF JobType
      <4> QED
        BY <1>1, <2>2, <3>1, <4>1, <4>2 DEF At
    <3> QED
      BY <2>2, <3>1 DEF Ends
  <2>5. Role' /\ SameNames' /\ TmpIsRight' /\ ReadsToday' /\ Reached'
    <3>1. CASE pc' = "idle"
      BY <3>1, IdleKeeps
    <3>2. CASE pc' # "idle"
      <4>1. job.new \in Instances /\ job.todo \subseteq {job.new} /\ job.todo # {}
        BY <1>1 DEF IInv, Role
      <4>2. rec'[At] # NoInst
        BY <1>1, <2>1, <2>3
      <4> QED
        BY <1>1, <2>3, <2>4, <3>2, <4>1, <4>2
           DEF IInv, Role, SameNames, TmpIsRight, ReadsToday, Reached, inputs
    <3> QED
      BY <3>1, <3>2
  <2>6. Known = rec /\ Known' = rec'
    BY <1>1, <2>4 DEF Known
  <2>7. Verdicts'
    <3> SUFFICES ASSUME faults = MaxFaults, NEW i \in Instances, Known'[i] # NoInst,
                        Known'[i].current, Known'[i].health = "healthy"
                 PROVE  EnvPasses(env[i], holes, scrub)'
      BY <2>3 DEF Verdicts
    <3>1. i # At
      BY <1>1, <2>1, <2>3, <2>6
    <3> QED
      BY <1>1, <2>3, <2>6, <3>1, VerdictStays DEF IInv
  <2>8. FreshFiles'
    <3> SUFFICES ASSUME NEW i \in Instances, fresh'[i] \in {"up", "rederive"}
                 PROVE  /\ env'[i] # NoFile => AsMap(env'[i]) = Target(i)'
                        /\ rec'[i] # NoInst => env'[i] # NoFile
      BY <2>4 DEF FreshFiles
    <3>1. CASE i = At
      BY <1>1, <2>3, <3>1, TargetStill DEF IInv, FreshFiles
    <3>2. CASE i # At
      BY <1>1, <2>3, <3>2, FreshStays DEF IInv
    <3> QED
      BY <3>1, <3>2
  <2> QED
    BY <2>5, <2>7, <2>8
<1> QED
  BY <1>2, <1>3

\* Rederive passes over an instance: nothing changes but what is left to do.
LEMMA SkipsKeeps ==
    ASSUME IInv, pc \in {"derive", "replace"}, job.todo # {}, Skips(At), pc' = "derive",
           UNCHANGED <<inputs, rec, env, fresh>>, faults' = MaxFaults => faults = MaxFaults
    PROVE  Role' /\ SameNames' /\ Verdicts' /\ FreshFiles' /\ ReadsToday' /\ TmpIsRight' /\ Reached'
<1>1. At \in Instances /\ job.op = "rederive"
  BY AtIs DEF IInv, Role, Types
<1>2. /\ job'.mem = job.mem /\ job'.todo = job.todo \ {At} /\ job'.user = job.user
      /\ job'.failed = job.failed \cup {At} /\ job'.op = job.op
      /\ job'.new = job.new /\ job'.holes = job.holes /\ job'.scrub = job.scrub
      /\ job'.quiet = job.quiet /\ job'.blind = job.blind
  BY SkipsJob DEF IInv
<1>3. Role' /\ SameNames' /\ TmpIsRight'
  BY <1>1, <1>2 DEF IInv, Role, SameNames, TmpIsRight, Registered
<1>4. ReadsToday' /\ Reached'
  BY <1>1, <1>2 DEF IInv, ReadsToday, Reached, inputs, Registered
<1>5. Known' = Known
  BY <1>2 DEF Known
<1>6. Verdicts'
  BY <1>5, VerdictStays DEF Verdicts, IInv
<1>7. FreshFiles'
  BY FreshStays DEF FreshFiles, IInv
<1> QED
  BY <1>3, <1>4, <1>6, <1>7

\* The file written beside the old one is the target of the instance, if what
\* rederive has read is what is there.
LEMMA DeriveKeeps ==
    ASSUME IInv, Derive
    PROVE  Role' /\ SameNames' /\ Verdicts' /\ FreshFiles' /\ ReadsToday' /\ TmpIsRight' /\ Reached'
<1>1. /\ At \in job.todo /\ At \in Instances /\ job.op = "rederive" /\ pc = "derive"
      /\ job \in JobType /\ job.todo # {}
      /\ UNCHANGED <<inputs, rec, env, fresh, edits>>
  BY AtIs DEF IInv, Role, Derive, Types
<1>2. faults' = MaxFaults => faults = MaxFaults
  <2>1. Works \/ Fails
    BY DEF Derive
  <2> QED
    BY <2>1, EnvironmentAssumption DEF Works, Fails, IInv, Types, TypeOK
<1>3. CASE Skips(At) /\ UNCHANGED pc
  BY <1>1, <1>2, <1>3, SkipsKeeps
<1>4. CASE ~(Skips(At) /\ UNCHANGED pc)
  <2>1. PICK old, lines : DerivesFrom(old, lines)
    BY <1>4, DeriveIs
  <2>2. pc' = "replace"
    BY <1>4, DeriveIs
  <2>3. Follows(lines, template, job.user, old, job.holes, job.scrub, At)
    BY <1>1, <2>1, DerivesJob DEF IInv
  <2>4. /\ job'.mem = job.mem /\ job'.todo = job.todo /\ job'.user = job.user
        /\ job'.failed = job.failed /\ job'.op = job.op /\ job'.tmp = lines
        /\ job'.new = job.new /\ job'.holes = job.holes /\ job'.scrub = job.scrub
        /\ job'.quiet = job.quiet
        /\ job'.blind = IF old = env[At] THEN job.blind ELSE job.blind \cup {At}
    BY <1>1, <2>1, DerivesJob DEF IInv
  <2>5. At' = At
    BY <2>4 DEF At
  <2>6. Role' /\ SameNames'
    BY <1>1, <2>2, <2>4 DEF IInv, Role, SameNames, Registered
  <2>7. ReadsToday' /\ Reached'
    <3>1. job.blind = Instances => job'.blind = Instances
      BY <1>1, <2>4
    <3> QED
      BY <1>1, <2>2, <2>4, <3>1 DEF IInv, ReadsToday, Reached, inputs, Registered
  <2>8. TmpIsRight'
    <3> SUFFICES ASSUME job.quiet, At \notin job'.blind PROVE AsMap(lines) = Target(At)'
      BY <2>4, <2>5 DEF TmpIsRight
    <3>1. old = env[At] /\ job.blind # Instances
      BY <1>1, <2>4
    <3>2. job.user = user /\ job.holes = holes /\ job.scrub = scrub
      BY <1>1, <3>1 DEF IInv, ReadsToday
    <3>3. AsMap(lines) = Target(At)
      BY <2>3, <3>1, <3>2 DEF Target, Follows
    <3>4. Target(At)' = Target(At)
      BY <1>1, <2>5 DEF Target, inputs
    <3> QED
      BY <3>3, <3>4
  <2>9. Known' = Known
    BY <1>1, <2>2, <2>4 DEF Known
  <2>10. Verdicts'
    BY <1>1, <1>2, <2>2, <2>9, VerdictStays DEF Verdicts, IInv
  <2>11. FreshFiles'
    BY <1>1, <2>2, FreshStays DEF FreshFiles, IInv
  <2> QED
    BY <2>6, <2>7, <2>8, <2>10, <2>11
<1> QED
  BY <1>3, <1>4

LEMMA SameKeeps ==
    ASSUME IInv, Same
    PROVE  Role' /\ SameNames' /\ Verdicts' /\ FreshFiles' /\ ReadsToday' /\ TmpIsRight' /\ Reached'
<1>1. /\ At \in job.todo /\ At \in Instances /\ job.op = "rederive" /\ pc = "replace" /\ pc' = "derive"
      /\ job \in JobType /\ job.tmp = env[At]
      /\ UNCHANGED <<inputs, rec, env, edits, faults>>
      /\ \A i \in Instances :
            fresh'[i] = IF i # At THEN fresh[i] ELSE Freshness(At)
  BY AtIs DEF IInv, Role, Same, Types, TypeOK
<1>2. /\ job'.mem = job.mem /\ job'.todo = job.todo \ {At} /\ job'.user = job.user
      /\ job'.failed = job.failed /\ job'.op = job.op
      /\ job'.new = job.new /\ job'.holes = job.holes /\ job'.scrub = job.scrub
      /\ job'.quiet = job.quiet /\ job'.blind = job.blind
  BY <1>1 DEF Same, JobType
<1>3. Role' /\ SameNames' /\ TmpIsRight'
  BY <1>1, <1>2 DEF IInv, Role, SameNames, TmpIsRight, Registered
<1>4. ReadsToday' /\ Reached'
  BY <1>1, <1>2 DEF IInv, ReadsToday, Reached, Freshness, inputs, Registered
<1>5. Known' = Known
  BY <1>1, <1>2 DEF Known
<1>6. Verdicts'
  BY <1>1, <1>5, VerdictStays DEF Verdicts, IInv
<1>7. FreshFiles'
  <2> SUFFICES ASSUME NEW i \in Instances, fresh'[i] \in {"up", "rederive"}
               PROVE  /\ env'[i] # NoFile => AsMap(env'[i]) = Target(i)'
                      /\ rec'[i] # NoInst => env'[i] # NoFile
    BY <1>1 DEF FreshFiles
  <2>1. CASE i = At
    <3>1. job.quiet /\ At \notin job.blind
      BY <1>1, <2>1 DEF Freshness
    <3>2. AsMap(env[At]) = Target(At)
      BY <1>1, <3>1 DEF IInv, TmpIsRight
    <3>3. env[At] # NoFile
      BY <1>1, EnvironmentAssumption DEF JobType
    <3> QED
      BY <1>1, <2>1, <3>2, <3>3, TargetStill
  <2>2. CASE i # At
    BY <1>1, <2>2, FreshStays DEF IInv
  <2> QED
    BY <2>1, <2>2
<1> QED
  BY <1>3, <1>4, <1>6, <1>7

\* Once it has taken the place of the old .env, which the target is computed
\* from, it still is: ReferenceAgain.
LEMMA RenameKeeps ==
    ASSUME IInv, Rename
    PROVE  Role' /\ SameNames' /\ Verdicts' /\ FreshFiles' /\ ReadsToday' /\ TmpIsRight' /\ Reached'
<1>1. /\ At \in job.todo /\ At \in Instances /\ job.op = "rederive" /\ pc = "replace"
      /\ job \in JobType /\ job.todo # {} /\ rec[At] # NoInst
      /\ UNCHANGED <<inputs, rec, edits>>
  BY AtIs DEF IInv, Role, Rename, Types, Registered
<1>2. faults' = MaxFaults => faults = MaxFaults
  BY EnvironmentAssumption DEF Rename, Works, Fails, IInv, Types, TypeOK
<1>3. CASE Skips(At) /\ pc' = "derive" /\ UNCHANGED <<env, fresh>>
  BY <1>1, <1>2, <1>3, SkipsKeeps
<1>4. CASE ~(Skips(At) /\ pc' = "derive" /\ UNCHANGED <<env, fresh>>)
  <2>1. /\ pc' = "check" /\ job' = job /\ At' = At
        /\ \A i \in Instances : env'[i] = IF i = At THEN job.tmp ELSE env[i]
        /\ \A i \in Instances :
              fresh'[i] = IF i # At THEN fresh[i] ELSE Freshness(At)
    BY <1>4 DEF Rename, IInv, Types, TypeOK, At
  <2>2. Role' /\ SameNames' /\ TmpIsRight'
    BY <1>1, <2>1 DEF IInv, Role, SameNames, TmpIsRight, Registered
  <2>3. ReadsToday' /\ Reached'
    BY <1>1, <2>1 DEF IInv, ReadsToday, Reached, Freshness, inputs, Registered
  <2>4. Known' = Known
    BY <1>1, <2>1 DEF Known
  <2>5. Verdicts'
    BY <1>1, <1>2, <2>1, <2>4, VerdictStays DEF Verdicts, IInv
  <2>6. FreshFiles'
    <3> SUFFICES ASSUME NEW i \in Instances, fresh'[i] \in {"up", "rederive"}
                 PROVE  /\ env'[i] # NoFile => AsMap(env'[i]) = Target(i)'
                        /\ rec'[i] # NoInst => env'[i] # NoFile
      BY <2>1 DEF FreshFiles
    <3>1. CASE i = At
      <4>1. Follows(job.tmp, template, user, env[At], holes, scrub, At)
        BY <1>1, <2>1, <3>1 DEF IInv, TmpIsRight, Target, Follows, Freshness
      <4>2. job.tmp \in Seq(Lines) /\ template \in Seq(Lines)
        BY <1>1, EnvironmentAssumption DEF IInv, Types, TypeOK, JobType
      <4>3. Follows(job.tmp, template, user, job.tmp, holes, scrub, At)
        BY <4>1, <4>2, ReferenceAgain
      <4>4. Target(i)' = Reference(template, user, job.tmp, holes, scrub, At)
        BY <1>1, <2>1, <3>1 DEF Target, inputs
      <4>5. job.tmp # NoFile
        BY <4>2, EnvironmentAssumption
      <4> QED
        BY <1>1, <2>1, <3>1, <4>3, <4>4, <4>5 DEF Follows
    <3>2. CASE i # At
      BY <1>1, <2>1, <3>2, FreshStays DEF IInv
    <3> QED
      BY <3>1, <3>2
  <2> QED
    BY <2>2, <2>3, <2>5, <2>6
<1> QED
  BY <1>3, <1>4

\* The verdict noted on an instance is about the file that is there; those on
\* the others stay.
LEMMA CheckKeeps ==
    ASSUME IInv, Check
    PROVE  Role' /\ SameNames' /\ Verdicts' /\ FreshFiles' /\ ReadsToday' /\ TmpIsRight' /\ Reached'
<1>1. /\ pc = "check" /\ pc' = "derive" /\ UNCHANGED <<inputs, rec, env, fresh, edits>>
      /\ Types /\ Role /\ SameNames
  BY DEF Check, IInv
<1>2. /\ job \in JobType /\ At \in job.todo /\ At \in Instances
      /\ rec[At] \in Rec /\ job.mem[At] \in Rec
  BY <1>1, CheckedIs
<1>4. PICK health \in {"healthy", "unhealthy"} :
         /\ Notes(At, health)
         /\ Fails \/ (Works /\ (health = "healthy" => Judges(At)))
  BY CheckNotes
<1>5. /\ job'.mem[At] = [job.mem[At] EXCEPT !.health = health,
                            !.current = job.holes = holes /\ job.scrub = scrub]
      /\ job'.mem[At] \in Rec
      /\ \A i \in Instances : i # At => job'.mem[i] = job.mem[i]
      /\ job'.todo = job.todo \ {At} /\ job'.user = job.user /\ job'.failed = job.failed
      /\ job'.op = job.op /\ job'.new = job.new
      /\ job'.holes = job.holes /\ job'.scrub = job.scrub /\ job'.quiet = job.quiet
      /\ job'.blind = job.blind
  BY <1>1, <1>4, NotesJob
<1>6. NoInst \notin Rec
  BY EnvironmentAssumption
<1>7. Role'
  <2>1. job.op # "rederive" => job'.todo = {}
    BY <1>1, <1>2, <1>5 DEF Role
  <2> QED
    BY <1>1, <1>5, <2>1 DEF Role, Registered
<1>8. SameNames'
  BY <1>1, <1>2, <1>5, <1>6 DEF SameNames
<1>9. ReadsToday' /\ TmpIsRight'
  BY <1>1, <1>5 DEF IInv, ReadsToday, TmpIsRight, inputs
<1>10. Reached'
  BY <1>1, <1>5 DEF IInv, Reached, Registered
<1>11. Verdicts'
  <2> SUFFICES ASSUME faults' = MaxFaults, NEW i \in Instances, Known'[i] # NoInst,
                      Known'[i].current, Known'[i].health = "healthy"
               PROVE  EnvPasses(env[i], holes, scrub)'
    BY DEF Verdicts
  <2>1. faults = MaxFaults /\ ~Fails
    BY <1>4, EnvironmentAssumption DEF Works, Fails, IInv, Types, TypeOK
  <2>2. Known' = job'.mem /\ Known = job.mem
    BY <1>1 DEF Known
  <2>3. CASE i = At
    <3>1. health = "healthy" /\ job.holes = holes /\ job.scrub = scrub
      BY <1>2, <1>5, <2>2, <2>3 DEF Rec
    <3>2. EnvPasses(env[i], holes, scrub)
      BY <1>4, <2>1, <2>3, <3>1 DEF Judges
    <3> QED
      BY <1>1, <3>2, PassesStill
  <2>4. CASE i # At
    BY <1>1, <1>5, <2>1, <2>2, <2>4, VerdictStays DEF IInv
  <2> QED
    BY <2>3, <2>4
<1>12. FreshFiles'
  BY <1>1, FreshStays DEF FreshFiles, IInv
<1> QED
  BY <1>7, <1>8, <1>9, <1>10, <1>11, <1>12

\* The copy becomes the registry, with the verdicts in it; an up that cannot
\* save takes its instance and its .env away.
LEMMA SaveKeeps ==
    ASSUME IInv, Save
    PROVE  Role' /\ SameNames' /\ Verdicts' /\ FreshFiles' /\ ReadsToday' /\ TmpIsRight' /\ Reached'
<1>1. pc = "derive" /\ pc' = "idle" /\ UNCHANGED <<inputs, edits>>
  BY DEF Save, Ends
<1>2. CASE Works /\ rec' = (IF job.dirty THEN job.mem ELSE rec) /\ UNCHANGED <<env, fresh>>
  <2>1. rec' = job.mem /\ Known' = Known /\ faults' = faults
    BY <1>1, <1>2 DEF IInv, Types, TypeOK, Known, Works
  <2>2. \A i \in Instances : rec'[i] # NoInst => rec[i] # NoInst
    BY <1>1, <2>1 DEF IInv, SameNames
  <2>3. Verdicts'
    BY <1>1, <1>2, <2>1, VerdictStays DEF Verdicts, IInv
  <2>4. FreshFiles'
    BY <1>1, <1>2, <2>2, FreshStays DEF FreshFiles, IInv
  <2> QED
    BY <1>1, <2>3, <2>4, IdleKeeps
<1>3. CASE job.dirty /\ Fails /\ env' = WithoutNew(env, NoFile) /\ fresh' = WithoutNew(fresh, "none")
           /\ rec' \in {rec, WithoutNew(rec, NoInst)}
  <2>1. Verdicts'
    BY <1>3, EnvironmentAssumption DEF Verdicts, Fails, IInv, Types, TypeOK
  <2>2. FreshFiles'
    <3> SUFFICES ASSUME NEW i \in Instances, fresh'[i] \in {"up", "rederive"}
                 PROVE  /\ env'[i] # NoFile => AsMap(env'[i]) = Target(i)'
                        /\ rec'[i] # NoInst => env'[i] # NoFile
      BY <1>1 DEF FreshFiles
    <3>1. i # job.new
      BY <1>3 DEF WithoutNew
    <3>2. env'[i] = env[i] /\ fresh'[i] = fresh[i] /\ rec'[i] = rec[i]
      BY <1>3, <3>1 DEF WithoutNew
    <3> QED
      BY <1>1, <3>2, FreshStays DEF IInv
  <2> QED
    BY <1>1, <2>1, <2>2, IdleKeeps
<1> QED
  BY <1>2, <1>3 DEF Save

LEMMA DownKeeps ==
    ASSUME IInv, NEW j \in Instances, Down(j)
    PROVE  Role' /\ SameNames' /\ Verdicts' /\ FreshFiles' /\ ReadsToday' /\ TmpIsRight' /\ Reached'
<1>1. /\ pc = "idle" /\ pc' = "idle" /\ UNCHANGED <<inputs, faults>>
      /\ \A i \in Instances : rec'[i] = IF i = j THEN NoInst ELSE rec[i]
      /\ \A i \in Instances : env'[i] = IF i = j THEN NoFile ELSE env[i]
      /\ \A i \in Instances : fresh'[i] = IF i = j THEN "none" ELSE fresh[i]
  BY DEF Down, IInv, Types, TypeOK
<1>2. Known' = rec' /\ Known = rec
  BY <1>1 DEF Known
<1>3. Verdicts'
  <2> SUFFICES ASSUME faults = MaxFaults, NEW i \in Instances, Known'[i] # NoInst,
                      Known'[i].current, Known'[i].health = "healthy"
               PROVE  EnvPasses(env[i], holes, scrub)'
    BY <1>1 DEF Verdicts
  <2>1. i # j
    BY <1>1, <1>2
  <2> QED
    BY <1>1, <1>2, <2>1, VerdictStays DEF IInv
<1>4. FreshFiles'
  <2> SUFFICES ASSUME NEW i \in Instances, fresh'[i] \in {"up", "rederive"}
               PROVE  /\ env'[i] # NoFile => AsMap(env'[i]) = Target(i)'
                      /\ rec'[i] # NoInst => env'[i] # NoFile
    BY <1>1 DEF FreshFiles
  <2>1. CASE i = j
    BY <1>1, <2>1
  <2>2. CASE i # j
    BY <1>1, <2>2, FreshStays DEF IInv
  <2> QED
    BY <2>1, <2>2
<1> QED
  BY <1>1, <1>3, <1>4, IdleKeeps

LEMMA CrashKeeps ==
    ASSUME IInv, Crash
    PROVE  Role' /\ SameNames' /\ Verdicts' /\ FreshFiles' /\ ReadsToday' /\ TmpIsRight' /\ Reached'
<1>1. pc' = "idle" /\ UNCHANGED <<inputs, rec, env, fresh>> /\ Fails
  BY DEF Crash, Ends
<1>2. Verdicts'
  BY <1>1, EnvironmentAssumption DEF Verdicts, Fails, IInv, Types, TypeOK
<1>3. FreshFiles'
  BY <1>1, FreshStays DEF FreshFiles, IInv
<1> QED
  BY <1>1, <1>2, <1>3, IdleKeeps

\* An edit makes nothing fresh and no verdict current, so that nothing is
\* claimed any more until a command has run.
LEMMA EditsKeep ==
    ASSUME IInv, Edits
    PROVE  Role' /\ SameNames' /\ Verdicts' /\ FreshFiles' /\ ReadsToday' /\ TmpIsRight' /\ Reached'
<1>1. /\ pc' = pc /\ faults' = faults /\ rec' = Outdated(rec)
      /\ rec \in [Instances -> Rec \cup {NoInst}] /\ Types
  BY DEF Edits, IInv, Types, TypeOK
<1>2. /\ \A i \in Instances : rec'[i] = NoInst <=> rec[i] = NoInst
      /\ \A i \in Instances : rec'[i] # NoInst => ~rec'[i].current
  BY <1>1, OutdatedIs
<1>3. /\ job'.dirty = job.dirty /\ job'.todo = job.todo /\ job'.op = job.op
      /\ job'.new = job.new /\ At' = At
      /\ pc # "idle" => ~job'.quiet /\ job'.mem = Outdated(job.mem)
  BY <1>1, EditsJob DEF At
<1>4. pc # "idle" => /\ \A i \in Instances : job'.mem[i] = NoInst <=> job.mem[i] = NoInst
                     /\ \A i \in Instances : job'.mem[i] # NoInst => ~job'.mem[i].current
  <2>1. pc # "idle" => job.mem \in [Instances -> Rec \cup {NoInst}]
    BY <1>1 DEF Types, TypeOK
  <2> QED
    BY <1>3, <2>1, OutdatedIs
<1>5. Role'
  <2>1. pc # "idle" /\ pc # "derive" => At \in Instances
    BY <1>1, AtIs DEF IInv, Role
  <2> QED
    BY <1>1, <1>2, <1>3, <2>1 DEF IInv, Role, Registered
<1>6. SameNames'
  BY <1>1, <1>2, <1>4 DEF IInv, SameNames
<1>7. Verdicts'
  BY <1>1, <1>2, <1>4 DEF Verdicts, Known
<1>8. FreshFiles'
  BY DEF FreshFiles, Edits
<1>9. ReadsToday' /\ TmpIsRight' /\ Reached'
  BY <1>1, <1>3 DEF ReadsToday, TmpIsRight, Reached
<1> QED
  BY <1>5, <1>6, <1>7, <1>8, <1>9

LEMMA NothingKeeps ==
    ASSUME IInv, UNCHANGED vars
    PROVE  Role' /\ SameNames' /\ Verdicts' /\ FreshFiles' /\ ReadsToday' /\ TmpIsRight' /\ Reached'
<1>1. /\ UNCHANGED inputs /\ pc' = pc /\ job' = job /\ rec' = rec /\ env' = env
      /\ fresh' = fresh /\ faults' = faults /\ At' = At
  BY DEF vars, At
<1>2. Known' = Known
  BY <1>1 DEF Known
<1>3. Role' /\ SameNames' /\ ReadsToday'
  BY <1>1 DEF IInv, Role, SameNames, ReadsToday, inputs, Registered
<1>4. Reached'
  BY <1>1 DEF IInv, Reached, Registered
<1>5. Verdicts'
  BY <1>1, <1>2, PassesStill DEF Verdicts, IInv
<1>6. FreshFiles'
  BY <1>1, TargetStill DEF FreshFiles, IInv
<1>7. TmpIsRight'
  BY <1>1 DEF IInv, TmpIsRight, Target, inputs
<1> QED
  BY <1>3, <1>4, <1>5, <1>6, <1>7

(***************************************************************************)
(* Theorems                                                                *)
(***************************************************************************)

LEMMA InitIInv == Init => IInv
<1>1. Init => Role /\ SameNames /\ ReadsToday /\ TmpIsRight /\ Reached
  BY DEF Init, Role, SameNames, ReadsToday, TmpIsRight, Reached
<1>2. Init => Verdicts /\ FreshFiles
  BY DEF Init, Verdicts, Known, FreshFiles
<1> QED
  BY <1>1, <1>2, InitTypes DEF IInv

LEMMA NextIInv == IInv /\ [Next]_vars => IInv'
<1> SUFFICES ASSUME IInv, [Next]_vars PROVE IInv'
  OBVIOUS
<1>1. Types'
  BY TypesNext
<1>2. Role' /\ SameNames' /\ Verdicts' /\ FreshFiles' /\ ReadsToday' /\ TmpIsRight' /\ Reached'
  <2>1. CASE EditTemplate \/ EditUser \/ EditBlueprint \/ LoseEnv
    BY <2>1, EditIs, EditsKeep DEF IInv
  <2> QED
    BY <2>1, NothingKeeps, BeginKeeps, CreateKeeps, StaticKeeps, RegisterKeeps, DeriveKeeps,
       SameKeeps, RenameKeeps, CheckKeeps, SaveKeeps, DownKeeps, CrashKeeps DEF Next
<1> QED
  BY <1>1, <1>2 DEF IInv

\* The inductive invariant: which command is in which phase, what it has read
\* and what it knows of the instances, which verdicts hold, and how fresh each
\* .env is (up.go, rederive.go, verify.go).
THEOREM EnvironmentInvariant == Spec => []IInv
  BY InitIInv, NextIInv, PTL DEF Spec

\* Types; and a command whose copy of the registry differs from the file knows
\* that it has to save.
THEOREM EnvironmentTypes == Spec => []TypeOK
<1>1. IInv => TypeOK
  BY DEF IInv, Types
<1> QED
  BY <1>1, EnvironmentInvariant, PTL

\* DeriveMerged comes to the documented precedence, for every template, also
\* one that repeats a key, every user's file and .env of an instance, and every
\* choice of holes and scrubbed keys (derive.go).
THEOREM DeriveIsReferenceHolds == Spec => []DeriveIsReference
<1>1. ASSUME IInv PROVE DeriveIsReference
  <2>1. /\ template \in Seq(Lines) /\ user \in UserEnvs /\ holes \in SUBSET Keys
        /\ \A i \in Instances : env[i] \in Seq(Lines) \cup {NoFile}
    BY <1>1, EnvironmentAssumption DEF IInv, Types, TypeOK
  <2>2. ASSUME NEW i \in Instances,
               NEW lines \in Derived(template, Merged(user, env[i], holes), holes, scrub, i)
        PROVE  Follows(lines, template, user, env[i], holes, scrub, i)
    BY <2>1, RederiveIsReference
  <2> QED
    BY <2>2 DEF DeriveIsReference, Follows, Target
<1> QED
  BY <1>1, EnvironmentInvariant, PTL

\* The .env of an instance derived since the last edit, by a command that could
\* read its inputs, is what a rederive would make of it (DeriveMerged as up.go
\* and rederive.go call it).
THEOREM FreshIsRightHolds == Spec => []FreshIsRight
<1>1. IInv => FreshIsRight
  BY DEF IInv, FreshFiles, FreshIsRight, Registered
<1> QED
  BY <1>1, EnvironmentInvariant, PTL

\* While nothing fails, an instance that the registry calls healthy passes the
\* checks of its environment (rederive.go, RunVerify of verify.go).
THEOREM HealthIsTrueHolds == Spec => []HealthIsTrue
<1>1. IInv => HealthIsTrue
  BY DEF IInv, Verdicts, Known, HealthIsTrue, Registered
<1> QED
  BY <1>1, EnvironmentInvariant, PTL

\* A rederive has derived every instance anew but those it reports, if nobody
\* edits meanwhile (the loop of rederive.go).
THEOREM RederiveReachesAllHolds == Spec => RederiveReachesAll
<1>1. ASSUME IInv, Save, job.op = "rederive", job.quiet, NEW i \in Registered
      PROVE  fresh'[i] \in {"rederive", "blind"} \/ i \in job.failed
  <2>1. pc = "derive" /\ job.todo = {} /\ job.new = NoInst
    BY <1>1 DEF Save, IInv, Role
  <2>2. fresh[i] \in {"rederive", "blind"} \/ i \in job.failed
    BY <1>1, <2>1 DEF IInv, Reached
  <2>3. i \in Instances /\ i # NoInst
    BY EnvironmentAssumption DEF Registered
  <2>4. fresh'[i] = fresh[i]
    BY <1>1, <2>1, <2>3 DEF Save, WithoutNew
  <2> QED
    BY <2>2, <2>4
<1>2. IInv /\ [Next]_vars =>
         [Save /\ job.op = "rederive" /\ job.quiet =>
             \A i \in Registered :
                fresh'[i] \in {"rederive", "blind"} \/ i \in job.failed]_vars
  BY <1>1
<1> QED
  BY <1>2, EnvironmentInvariant, PTL DEF Spec, RederiveReachesAll

=============================================================================
