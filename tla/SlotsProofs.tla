------------------------------ MODULE SlotsProofs ------------------------------
(***************************************************************************)
(* Proofs about the slot finder, for any zones, dates, duration, calendars *)
(* and grid.  Merge, SumFunction and Kept are folds over finite sets; what *)
(* they compute is shown by taking the element the fold takes last out of  *)
(* the set, down to the empty set (TakingOut).  The parts:                 *)
(*   - finite sets and folds over them;                                    *)
(*   - what a merge is: neat intervals with the union of those merged;     *)
(*   - the nights of a date, and the gaps that they leave, which are its   *)
(*     stretches; the longest of them and its slots (SlotsOfADate);        *)
(*   - the owner's events (ConflictIsAnEvent) and the candidates;          *)
(*   - the choice (ShortlistIsBest), and the two properties.               *)
(***************************************************************************)
EXTENDS Slots, FiniteSetTheorems, WellFoundedInduction, TLAPS

-----------------------------------------------------------------------------
(* Finite sets, from which an element is taken at a time.                  *)

LEMMA LeastNat ==
  ASSUME NEW S \in SUBSET Nat, S # {}
  PROVE  \E m \in S : \A n \in S : m <= n
  <1>1. PICK m \in S : \A n \in S : <<n, m>> \notin OpToRel(<, Nat)
    BY NatLessThanWellFounded, WFMin
  <1>2. \A n \in S : ~(n < m)
    BY <1>1 DEF OpToRel
  <1> QED BY <1>2

LEMMA OneOut ==
  ASSUME NEW T, IsFiniteSet(T), NEW x \in T
  PROVE  /\ Cardinality(T) \in Nat \ {0}
         /\ Cardinality(T \ {x}) = Cardinality(T) - 1
  <1>1. IsFiniteSet(T \ {x}) /\ Cardinality(T \ {x}) = Cardinality(T) - 1
    BY FS_RemoveElement
  <1>2. Cardinality(T) \in Nat /\ Cardinality(T \ {x}) \in Nat
    BY <1>1, FS_CardinalityType
  <1> QED BY <1>1, <1>2

(* What holds of the empty set and goes from a set without some element of *)
(* it to the set holds of every subset of a finite set.                    *)
LEMMA TakingOut ==
  ASSUME NEW S, IsFiniteSet(S), NEW C, {} \in C,
         \A T \in SUBSET S : T # {} => \E x \in T : T \ {x} \in C => T \in C
  PROVE  SUBSET S \subseteq C
  <1> DEFINE Bad == {n \in Nat : \E T \in SUBSET S : Cardinality(T) = n /\ T \notin C}
  <1>1. SUFFICES ASSUME Bad # {} PROVE FALSE
    BY <1>1, FS_Subset, FS_CardinalityType
  <1>2. PICK m \in Bad : \A n \in Bad : m <= n
    BY <1>1, LeastNat
  <1>3. PICK T \in SUBSET S : Cardinality(T) = m /\ T \notin C
    BY <1>2
  <1>4. PICK x \in T : T \ {x} \in C => T \in C
    BY <1>3
  <1>5. IsFiniteSet(T)
    BY FS_Subset
  <1>6. Cardinality(T \ {x}) = m - 1 /\ m - 1 \in Nat
    BY <1>3, <1>5, OneOut
  <1>7. T \ {x} \notin C /\ T \ {x} \in SUBSET S
    BY <1>3, <1>4
  <1> QED BY <1>2, <1>6, <1>7

(* A total order on a finite set has a last element on every part of it.   *)
IsLast(x, T, R) == x \in T /\ \A y \in T : y = x \/ <<y, x>> \in R

LEMMA LastExists ==
  ASSUME NEW S, IsFiniteSet(S), NEW R,
         \A x, y \in S : x = y \/ <<x, y>> \in R \/ <<y, x>> \in R,
         \A x, y, z \in S : <<x, y>> \in R /\ <<y, z>> \in R => <<x, z>> \in R
  PROVE  \A T \in SUBSET S : T # {} => \E x \in T : IsLast(x, T, R)
  <1> DEFINE C == {T \in SUBSET S : T # {} => \E x \in T : IsLast(x, T, R)}
  <1>1. ASSUME NEW T \in SUBSET S, NEW x \in T, T \ {x} \in C PROVE T \in C
    <2>1. CASE T \ {x} = {}
      BY <2>1 DEF IsLast
    <2>2. CASE T \ {x} # {}
      <3>1. PICK z \in T \ {x} : IsLast(z, T \ {x}, R)
        BY <1>1, <2>2
      <3>2. CASE <<x, z>> \in R
        BY <3>1, <3>2 DEF IsLast
      <3>3. CASE <<z, x>> \in R
        <4>1. \A y \in T : y = x \/ <<y, x>> \in R
          BY <3>1, <3>3 DEF IsLast
        <4> QED BY <4>1 DEF IsLast
      <3> QED BY <3>2, <3>3
    <2> QED BY <2>1, <2>2
  <1>2. SUBSET S \subseteq C
    <2> HIDE DEF C
    <2>1. {} \in C
      BY DEF C
    <2>2. \A T \in SUBSET S : T # {} => \E x \in T : T \ {x} \in C => T \in C
      BY <1>1
    <2> QED BY <2>1, <2>2, TakingOut
  <1> QED BY <1>2

(* A fold over the parts of a finite set: the function exists, whatever    *)
(* the step and the order in which elements are picked.                    *)
IsFoldOver(D, pick, step, base, g) ==
  g = [T \in D |-> IF T = {} THEN base ELSE step[<<pick[T], g[T \ {pick[T]}]>>]]
UpTo(S, n) == {T \in SUBSET S : Cardinality(T) <= n}

LEMMA FoldOverExists ==
  ASSUME NEW S, IsFiniteSet(S), NEW pick, \A T \in SUBSET S : T # {} => pick[T] \in T,
         NEW step, NEW base
  PROVE  \E g : IsFoldOver(SUBSET S, pick, step, base, g)
  <1> DEFINE Bad == {n \in Nat : ~ \E g : IsFoldOver(UpTo(S, n), pick, step, base, g)}
  <1>1. SUFFICES ASSUME Bad # {} PROVE FALSE
    <2>1. Cardinality(S) \in Nat /\ \A T \in SUBSET S : Cardinality(T) <= Cardinality(S)
      BY FS_Subset, FS_CardinalityType
    <2>2. UpTo(S, Cardinality(S)) = SUBSET S
      BY <2>1 DEF UpTo
    <2>3. \E g : IsFoldOver(UpTo(S, Cardinality(S)), pick, step, base, g)
      BY <1>1, <2>1
    <2> QED BY <2>2, <2>3
  <1>2. PICK m \in Bad : \A n \in Bad : m <= n
    BY <1>1, LeastNat
  <1>3. PICK h : m # 0 => IsFoldOver(UpTo(S, m - 1), pick, step, base, h)
    <2>1. m # 0 => m - 1 \in Nat /\ m - 1 \notin Bad
      BY <1>2
    <2> QED BY <2>1
  <1> DEFINE g == [T \in UpTo(S, m) |-> IF T = {} THEN base ELSE step[<<pick[T], h[T \ {pick[T]}]>>]]
  <1>4. ASSUME NEW T \in UpTo(S, m), T # {}
        PROVE  m # 0 /\ T \ {pick[T]} \in UpTo(S, m - 1) /\ T \ {pick[T]} \in UpTo(S, m)
    <2>1. T \in SUBSET S /\ pick[T] \in T /\ Cardinality(T) <= m
      BY <1>4 DEF UpTo
    <2>2. IsFiniteSet(T) /\ m \in Nat
      BY <2>1, FS_Subset
    <2> HIDE DEF Bad
    <2>3. Cardinality(T) \in Nat \ {0} /\ Cardinality(T \ {pick[T]}) = Cardinality(T) - 1
      BY <2>1, <2>2, OneOut
    <2>4. m # 0 /\ Cardinality(T \ {pick[T]}) <= m - 1 /\ Cardinality(T \ {pick[T]}) <= m
      BY <2>1, <2>2, <2>3
    <2> QED BY <2>1, <2>4 DEF UpTo
  <1>5. ASSUME NEW T \in UpTo(S, m), T # {} PROVE g[T \ {pick[T]}] = h[T \ {pick[T]}]
    <2> DEFINE U == T \ {pick[T]}
    <2>1. m # 0 /\ U \in UpTo(S, m - 1) /\ U \in UpTo(S, m)
      BY <1>4, <1>5
    <2>2. h[U] = IF U = {} THEN base ELSE step[<<pick[U], h[U \ {pick[U]}]>>]
      BY <1>3, <2>1 DEF IsFoldOver
    <2>3. g[U] = IF U = {} THEN base ELSE step[<<pick[U], h[U \ {pick[U]}]>>]
      BY <2>1
    <2> QED BY <2>2, <2>3
  <1>6. IsFoldOver(UpTo(S, m), pick, step, base, g)
    <2> HIDE DEF Bad
    <2> QED BY <1>5 DEF IsFoldOver
  <1> QED BY <1>2, <1>6

(* Its values, if the step stays in a set.                                 *)
LEMMA FoldOverTyped ==
  ASSUME NEW S, IsFiniteSet(S), NEW A, NEW base \in A,
         NEW pick, \A T \in SUBSET S : T # {} => pick[T] \in T,
         NEW step \in [S \X A -> A]
  PROVE  \E g \in [SUBSET S -> A] : IsFoldOver(SUBSET S, pick, step, base, g)
  <1>1. PICK g : IsFoldOver(SUBSET S, pick, step, base, g)
    BY FoldOverExists
  <1>2. \A T \in SUBSET S : g[T] = IF T = {} THEN base ELSE step[<<pick[T], g[T \ {pick[T]}]>>]
    BY <1>1 DEF IsFoldOver
  <1> DEFINE C == {T \in SUBSET S : g[T] \in A}
  <1>3. {} \in C
    BY <1>2
  <1>4. ASSUME NEW T \in SUBSET S, T # {}, T \ {pick[T]} \in C PROVE T \in C
    <2>1. <<pick[T], g[T \ {pick[T]}]>> \in S \X A
      BY <1>4
    <2> QED BY <1>2, <1>4, <2>1
  <1>5. SUBSET S \subseteq C
    <2> HIDE DEF C
    <2>1. \A T \in SUBSET S : T # {} => \E x \in T : T \ {x} \in C => T \in C
      BY <1>4
    <2> QED BY <1>3, <2>1, TakingOut
  <1>6. g = [T \in SUBSET S |-> g[T]]
    BY <1>1 DEF IsFoldOver
  <1>7. \A T \in SUBSET S : g[T] \in A
    BY <1>5
  <1>8. g \in [SUBSET S -> A]
    BY <1>6, <1>7
  <1> QED BY <1>1, <1>8

-----------------------------------------------------------------------------
(* Merging intervals.                                                      *)

Pairs == Int \X Int

LEMMA LatestIsLast ==
  ASSUME NEW S \in SUBSET Pairs, IsFiniteSet(S)
  PROVE  \A T \in SUBSET S : T # {} =>
            Latest(T) \in T /\ \A y \in T : y = Latest(T) \/ Earlier(y, Latest(T))
  <1> DEFINE R == {p \in S \X S : Earlier(p[1], p[2])}
  <1>1. \A x, y \in S : <<x, y>> \in R <=> Earlier(x, y)
    OBVIOUS
  <1>2. \A x, y \in S : x = y \/ Earlier(x, y) \/ Earlier(y, x)
    BY DEF Earlier, Pairs
  <1>3. \A x, y, z \in S : Earlier(x, y) /\ Earlier(y, z) => Earlier(x, z)
    BY DEF Earlier, Pairs
  <1> HIDE DEF R
  <1>4. \A T \in SUBSET S : T # {} => \E x \in T : IsLast(x, T, R)
    BY <1>1, <1>2, <1>3, LastExists
  <1>5. ASSUME NEW T \in SUBSET S, T # {}
        PROVE  Latest(T) \in T /\ \A y \in T : y = Latest(T) \/ Earlier(y, Latest(T))
    <2>1. \E x \in T : \A y \in T : y = x \/ Earlier(y, x)
      BY <1>1, <1>4, <1>5 DEF IsLast
    <2> QED BY <2>1 DEF Latest
  <1> QED BY <1>5

LEMMA JoinedType ==
  ASSUME NEW x \in Pairs, NEW merged \in Seq(Pairs)
  PROVE  Joined(x, merged) \in Seq(Pairs)
  <1>1. CASE Len(merged) > 0 /\ x[1] <= merged[Len(merged)][2]
    <2>1. <<merged[Len(merged)][1], Longer(merged[Len(merged)][2], x[2])>> \in Pairs
      BY <1>1 DEF Pairs, Longer
    <2> QED BY <1>1, <2>1 DEF Joined
  <1>2. CASE ~(Len(merged) > 0 /\ x[1] <= merged[Len(merged)][2])
    BY <1>2 DEF Joined
  <1> QED BY <1>1, <1>2

(* The merge of a finite set, step by step.                                *)
IsMerge(g, S) ==
  /\ g \in [SUBSET S -> Seq(Pairs)]
  /\ \A T \in SUBSET S : g[T] = IF T = {} THEN <<>> ELSE Joined(Latest(T), g[T \ {Latest(T)}])

FoldsJoined(S, g) ==
  g = [T \in SUBSET S |-> IF T = {} THEN <<>> ELSE Joined(Latest(T), g[T \ {Latest(T)}])]

LEMMA MergeUnfolds ==
  ASSUME NEW S \in SUBSET Pairs, IsFiniteSet(S)
  PROVE  \E g : IsMerge(g, S) /\ Merge(S) = g[S]
  <1>1. \A T \in SUBSET S : T # {} => Latest(T) \in T
    BY LatestIsLast
  <1>2. \E g : FoldsJoined(S, g)
    <2> DEFINE pick == [T \in SUBSET S |-> Latest(T)]
               step == [p \in S \X Seq(Pairs) |-> Joined(p[1], p[2])]
    <2>1. step \in [S \X Seq(Pairs) -> Seq(Pairs)]
      BY JoinedType
    <2>2. \A T \in SUBSET S : T # {} => pick[T] \in T
      BY <1>1
    <2>3. PICK g \in [SUBSET S -> Seq(Pairs)] : IsFoldOver(SUBSET S, pick, step, <<>>, g)
      <3> HIDE DEF pick, step
      <3>1. <<>> \in Seq(Pairs)
        OBVIOUS
      <3> QED BY <2>1, <2>2, <3>1, FoldOverTyped
    <2>4. ASSUME NEW T \in SUBSET S, T # {}
          PROVE  step[<<pick[T], g[T \ {pick[T]}]>>] = Joined(Latest(T), g[T \ {Latest(T)}])
      <3>1. T \ {Latest(T)} \in SUBSET S /\ Latest(T) \in S
        BY <1>1, <2>4
      <3>2. g[T \ {Latest(T)}] \in Seq(Pairs)
        BY <3>1
      <3> QED BY <3>1, <3>2
    <2>5. FoldsJoined(S, g)
      <3> HIDE DEF pick, step
      <3> QED BY <2>3, <2>4 DEF IsFoldOver, FoldsJoined
    <2> QED BY <2>5
  <1>3. Merge(S) = (CHOOSE g : FoldsJoined(S, g))[S]
    BY DEF Merge, MapThenFoldSet, FoldsJoined
  <1>4. PICK g : FoldsJoined(S, g) /\ Merge(S) = g[S]
    BY <1>2, <1>3
  <1>5. \A T \in SUBSET S : g[T] = IF T = {} THEN <<>> ELSE Joined(Latest(T), g[T \ {Latest(T)}])
    BY <1>4 DEF FoldsJoined
  <1> DEFINE C == {T \in SUBSET S : g[T] \in Seq(Pairs)}
  <1>6. {} \in C
    <2>1. <<>> \in Seq(Pairs)
      OBVIOUS
    <2>2. {} \in SUBSET S
      OBVIOUS
    <2>3. g[{}] = <<>>
      BY <1>5, <2>2
    <2> QED BY <2>1, <2>2, <2>3
  <1>7. ASSUME NEW T \in SUBSET S, T # {}, T \ {Latest(T)} \in C PROVE T \in C
    BY <1>1, <1>5, <1>7, JoinedType
  <1>8. \A T \in SUBSET S : T # {} => \E x \in T : T \ {x} \in C => T \in C
    BY <1>1, <1>7
  <1>9. SUBSET S \subseteq C
    <2> HIDE DEF C
    <2> QED BY <1>6, <1>8, TakingOut
  <1>10. \A T \in SUBSET S : g[T] \in Seq(Pairs)
    BY <1>9
  <1>11. g \in [SUBSET S -> Seq(Pairs)]
    BY <1>4, <1>10 DEF FoldsJoined
  <1> QED BY <1>4, <1>5, <1>11 DEF IsMerge

(* Apart, in order, and the same points as the intervals merged.           *)
Neat(merged) ==
  /\ \A k \in DOMAIN merged : merged[k][1] < merged[k][2]
  /\ \A j, k \in DOMAIN merged : j < k => merged[j][2] < merged[k][1]
CoversSet(intervals, t) == \E x \in intervals : x[1] <= t /\ t < x[2]
Covers(merged, t) == \E k \in DOMAIN merged : merged[k][1] <= t /\ t < merged[k][2]

MergedOf(merged, T) ==
  /\ merged \in Seq(Pairs)
  /\ Neat(merged)
  /\ \A t \in Int : Covers(merged, t) <=> CoversSet(T, t)
  /\ \A k \in DOMAIN merged :
        (\E x \in T : merged[k][1] = x[1]) /\ (\E x \in T : merged[k][2] = x[2])

Intervals == {x \in Pairs : x[1] < x[2]}

LEMMA JoinedMerges ==
  ASSUME NEW T \in SUBSET Intervals, NEW x \in T, \A y \in T : y = x \/ Earlier(y, x),
         NEW merged, MergedOf(merged, T \ {x})
  PROVE  MergedOf(Joined(x, merged), T)
  <1> DEFINE n == Len(merged)
             joined == Joined(x, merged)
  <1>1. merged \in Seq(Pairs) /\ n \in Nat /\ DOMAIN merged = 1 .. n
    BY DEF MergedOf
  <1>2. \A k \in 1 .. n : merged[k] \in Pairs /\ merged[k][1] \in Int /\ merged[k][2] \in Int
    BY <1>1 DEF Pairs
  <1>3. x \in Pairs /\ x[1] \in Int /\ x[2] \in Int /\ x[1] < x[2]
    BY DEF Intervals, Pairs
  <1>4. joined \in Seq(Pairs)
    BY <1>1, <1>3, JoinedType
  <1>5. \A k \in 1 .. n : merged[k][1] <= x[1]
    <2> SUFFICES ASSUME NEW k \in 1 .. n PROVE merged[k][1] <= x[1]
      OBVIOUS
    <2>1. PICK y \in T \ {x} : merged[k][1] = y[1]
      BY <1>1 DEF MergedOf
    <2>2. y[1] \in Int /\ Earlier(y, x)
      BY DEF Intervals, Pairs
    <2> QED BY <1>3, <2>1, <2>2 DEF Earlier
  <1>6. /\ \A k \in 1 .. n : merged[k][1] < merged[k][2]
        /\ \A j, k \in 1 .. n : j < k => merged[j][2] < merged[k][1]
    BY <1>1 DEF MergedOf, Neat
  <1>7. \A t \in Int : CoversSet(T, t) <=> Covers(merged, t) \/ (x[1] <= t /\ t < x[2])
    <2>1. \A t \in Int : CoversSet(T, t) <=> CoversSet(T \ {x}, t) \/ (x[1] <= t /\ t < x[2])
      BY DEF CoversSet
    <2> QED BY <2>1 DEF MergedOf
  <1>8. CASE n > 0 /\ x[1] <= merged[n][2]
    <2> DEFINE last == <<merged[n][1], Longer(merged[n][2], x[2])>>
    <2>1. joined = [merged EXCEPT ![n] = last]
      BY <1>8 DEF Joined
    <2>2. n \in 1 .. n /\ last[1] = merged[n][1] /\ last[2] = Longer(merged[n][2], x[2])
      BY <1>1, <1>8
    <2>3. DOMAIN joined = 1 .. n /\ joined[n] = last /\ \A k \in 1 .. n : k # n => joined[k] = merged[k]
      BY <1>1, <2>1, <2>2
    <2>4. /\ last[2] \in Int /\ last[2] >= merged[n][2] /\ last[2] >= x[2]
          /\ last[2] = merged[n][2] \/ last[2] = x[2]
      BY <1>2, <1>3, <2>2 DEF Longer
    <2> HIDE DEF last, joined
    <2>5. Neat(joined)
      <3>1. \A k \in 1 .. n : joined[k][1] < joined[k][2]
        BY <1>2, <1>6, <2>2, <2>3, <2>4
      <3>2. \A j, k \in 1 .. n : j < k => joined[j][2] < joined[k][1]
        BY <1>1, <1>6, <2>2, <2>3
      <3> QED BY <2>3, <3>1, <3>2 DEF Neat
    <2>6. ASSUME NEW t \in Int
          PROVE  Covers(joined, t) <=> Covers(merged, t) \/ (x[1] <= t /\ t < x[2])
      <3>1. last[1] <= t /\ t < last[2] <=>
               (merged[n][1] <= t /\ t < merged[n][2]) \/ (x[1] <= t /\ t < x[2])
        BY <1>2, <1>3, <1>5, <1>8, <2>2, <2>4
      <3>2. Covers(joined, t) <=> (last[1] <= t /\ t < last[2])
                                  \/ \E k \in 1 .. n : k # n /\ merged[k][1] <= t /\ t < merged[k][2]
        BY <2>2, <2>3 DEF Covers
      <3>3. Covers(merged, t) <=> (merged[n][1] <= t /\ t < merged[n][2])
                                  \/ \E k \in 1 .. n : k # n /\ merged[k][1] <= t /\ t < merged[k][2]
        BY <1>1, <2>2 DEF Covers
      <3> QED BY <3>1, <3>2, <3>3
    <2>7. \A k \in DOMAIN joined :
             (\E y \in T : joined[k][1] = y[1]) /\ (\E y \in T : joined[k][2] = y[2])
      <3>1. \A k \in 1 .. n :
               (\E y \in T : merged[k][1] = y[1]) /\ (\E y \in T : merged[k][2] = y[2])
        BY <1>1 DEF MergedOf
      <3> QED BY <2>2, <2>3, <2>4, <3>1
    <2> QED BY <1>4, <1>7, <2>5, <2>6, <2>7 DEF MergedOf, joined
  <1>9. CASE ~(n > 0 /\ x[1] <= merged[n][2])
    <2>1. joined = Append(merged, x)
      BY <1>9 DEF Joined
    <2>2. /\ DOMAIN joined = 1 .. n + 1 /\ joined[n + 1] = x
          /\ \A k \in 1 .. n : joined[k] = merged[k]
      BY <1>1, <1>3, <2>1
    <2>3. \A k \in 1 .. n : merged[k][2] < x[1]
      <3> SUFFICES ASSUME NEW k \in 1 .. n PROVE merged[k][2] < x[1]
        OBVIOUS
      <3>1. n \in 1 .. n /\ merged[n][2] < x[1]
        BY <1>1, <1>2, <1>3, <1>9
      <3>2. k < n => merged[k][2] < merged[n][1] /\ merged[n][1] < merged[n][2]
        BY <1>6, <3>1
      <3> QED BY <1>1, <1>2, <1>3, <3>1, <3>2
    <2> HIDE DEF joined
    <2>4. Neat(joined)
      <3>1. \A k \in 1 .. n + 1 : k \in 1 .. n \/ k = n + 1
        BY <1>1
      <3>2. \A k \in 1 .. n + 1 : joined[k][1] < joined[k][2]
        BY <1>3, <1>6, <2>2, <3>1
      <3>3. \A j, k \in 1 .. n + 1 : j < k => joined[j][2] < joined[k][1]
        <4> SUFFICES ASSUME NEW j \in 1 .. n + 1, NEW k \in 1 .. n + 1, j < k
                     PROVE  joined[j][2] < joined[k][1]
          OBVIOUS
        <4>1. j \in 1 .. n
          BY <1>1
        <4> QED BY <1>6, <2>2, <2>3, <3>1, <4>1
      <3> QED BY <2>2, <3>2, <3>3 DEF Neat
    <2>5. ASSUME NEW t \in Int
          PROVE  Covers(joined, t) <=> Covers(merged, t) \/ (x[1] <= t /\ t < x[2])
      <3>1. \A k : k \in 1 .. n + 1 <=> k \in 1 .. n \/ k = n + 1
        BY <1>1
      <3> QED BY <1>1, <2>2, <3>1 DEF Covers
    <2>6. \A k \in DOMAIN joined :
             (\E y \in T : joined[k][1] = y[1]) /\ (\E y \in T : joined[k][2] = y[2])
      <3>1. \A k \in 1 .. n :
               (\E y \in T : merged[k][1] = y[1]) /\ (\E y \in T : merged[k][2] = y[2])
        BY <1>1 DEF MergedOf
      <3>2. \A k \in 1 .. n + 1 : k \in 1 .. n \/ k = n + 1
        BY <1>1
      <3> QED BY <2>2, <3>1, <3>2
    <2> QED BY <1>4, <1>7, <2>4, <2>5, <2>6 DEF MergedOf, joined
  <1> QED BY <1>8, <1>9

LEMMA MergeMerges ==
  ASSUME NEW S \in SUBSET Intervals, IsFiniteSet(S)
  PROVE  MergedOf(Merge(S), S)
  <1>1. S \in SUBSET Pairs
    BY DEF Intervals
  <1>2. PICK g : IsMerge(g, S) /\ Merge(S) = g[S]
    BY <1>1, MergeUnfolds
  <1> DEFINE C == {T \in SUBSET S : MergedOf(g[T], T)}
  <1>3. {} \in C
    <2>1. g[{}] = <<>>
      BY <1>2 DEF IsMerge
    <2>2. MergedOf(<<>>, {})
      BY DEF MergedOf, Neat, Covers, CoversSet
    <2> QED BY <2>1, <2>2
  <1>4. ASSUME NEW T \in SUBSET S, T # {}
        PROVE  \E x \in T : T \ {x} \in C => T \in C
    <2>1. Latest(T) \in T /\ \A y \in T : y = Latest(T) \/ Earlier(y, Latest(T))
      BY <1>1, <1>4, LatestIsLast
    <2>2. g[T] = Joined(Latest(T), g[T \ {Latest(T)}])
      BY <1>2, <1>4 DEF IsMerge
    <2>3. ASSUME T \ {Latest(T)} \in C PROVE T \in C
      BY <2>1, <2>2, <2>3, JoinedMerges
    <2> QED BY <2>1, <2>3
  <1>5. SUBSET S \subseteq C
    <2> HIDE DEF C
    <2> QED BY <1>3, <1>4, TakingOut
  <1> QED BY <1>2, <1>5

-----------------------------------------------------------------------------
(* Sums over finite sets.                                                  *)

FoldsSum(f, g) ==
  g = [T \in SUBSET DOMAIN f |->
         IF T = {} THEN 0 ELSE f[CHOOSE x \in T : TRUE] + g[T \ {CHOOSE x \in T : TRUE}]]

LEMMA SumOfNaturals ==
  ASSUME NEW S, IsFiniteSet(S), NEW f \in [S -> Nat]
  PROVE  SumFunction(f) \in Nat /\ \A x \in S : f[x] <= SumFunction(f)
  <1> DEFINE any(T) == CHOOSE x \in T : TRUE
  <1>1. \A T \in SUBSET S : T # {} => any(T) \in T
    OBVIOUS
  <1>2. \E g : FoldsSum(f, g)
    <2> DEFINE pick == [T \in SUBSET S |-> any(T)]
               step == [p \in S \X Nat |-> f[p[1]] + p[2]]
    <2>1. step \in [S \X Nat -> Nat]
      OBVIOUS
    <2>2. \A T \in SUBSET S : T # {} => pick[T] \in T
      BY <1>1
    <2>3. PICK g \in [SUBSET S -> Nat] : IsFoldOver(SUBSET S, pick, step, 0, g)
      <3> HIDE DEF pick, step
      <3> QED BY <2>1, <2>2, FoldOverTyped
    <2>4. ASSUME NEW T \in SUBSET S, T # {}
          PROVE  step[<<pick[T], g[T \ {pick[T]}]>>] = f[any(T)] + g[T \ {any(T)}]
      <3> HIDE DEF any
      <3>1. T \ {any(T)} \in SUBSET S /\ any(T) \in S
        BY <1>1, <2>4
      <3> QED BY <3>1
    <2>5. FoldsSum(f, g)
      <3> HIDE DEF pick, step
      <3> QED BY <2>3, <2>4 DEF IsFoldOver, FoldsSum
    <2> QED BY <2>5
  <1>3. SumFunction(f) = (CHOOSE g : FoldsSum(f, g))[S]
    BY DEF SumFunction, SumFunctionOnSet, FoldFunctionOnSet, MapThenFoldSet, FoldsSum
  <1>4. PICK g : FoldsSum(f, g) /\ SumFunction(f) = g[S]
    BY <1>2, <1>3
  <1>5. \A T \in SUBSET S : g[T] = IF T = {} THEN 0 ELSE f[any(T)] + g[T \ {any(T)}]
    BY <1>4 DEF FoldsSum
  <1> HIDE DEF any
  <1> DEFINE C == {T \in SUBSET S : g[T] \in Nat /\ \A x \in T : f[x] <= g[T]}
  <1>6. {} \in C
    BY <1>5
  <1>7. ASSUME NEW T \in SUBSET S, T # {}, T \ {any(T)} \in C PROVE T \in C
    <2>1. any(T) \in T /\ f[any(T)] \in Nat /\ g[T] = f[any(T)] + g[T \ {any(T)}]
      BY <1>1, <1>5, <1>7
    <2>2. g[T \ {any(T)}] \in Nat /\ \A x \in T \ {any(T)} : f[x] \in Nat /\ f[x] <= g[T \ {any(T)}]
      BY <1>7
    <2>3. g[T] \in Nat /\ \A x \in T : f[x] <= g[T]
      BY <2>1, <2>2
    <2> QED BY <2>3
  <1>8. \A T \in SUBSET S : T # {} => \E x \in T : T \ {x} \in C => T \in C
    BY <1>1, <1>7
  <1>9. SUBSET S \subseteq C
    <2> HIDE DEF C
    <2> QED BY <1>6, <1>8, TakingOut
  <1> QED BY <1>4, <1>9

-----------------------------------------------------------------------------
(* Nights.                                                                 *)

LEMMA DayType == Day \in Nat \ {0} /\ PerHour \in Nat \ {0} /\ Day = 24 * PerHour
  BY UnitAssumption DEF Day

LEMMA DivMod ==
  ASSUME NEW u \in Int, NEW d \in Nat \ {0}
  PROVE  u \div d \in Int /\ u % d \in 0 .. d - 1 /\ u = (u \div d) * d + (u % d)
  OBVIOUS

LEMMA ModIs ==
  ASSUME NEW u \in Int, NEW q \in Int, NEW d \in Nat \ {0}, 0 <= u - q * d, u - q * d < d
  PROVE  u % d = u - q * d
  <1> DEFINE p == u \div d
  <1>1. p \in Int /\ u % d \in 0 .. d - 1 /\ u = p * d + (u % d)
    BY DivMod
  <1> HIDE DEF p
  <1>2. (p - q) * d = (u - q * d) - (u % d)
    BY <1>1
  <1>3. p - q < 1
    BY <1>1, <1>2
  <1>4. p - q > -1
    BY <1>1, <1>2
  <1>5. p = q
    BY <1>1, <1>3, <1>4
  <1> QED BY <1>1, <1>5

LEMMA Times == ASSUME NEW a \in Int, NEW b \in Int, NEW d \in Nat, a <= b PROVE a * d <= b * d
  OBVIOUS

InDate(t, day) == day * Day <= t /\ t < (day + 1) * Day
Within(t, x) == x[1] <= t /\ t < x[2]

LEMMA NightOfADate ==
  ASSUME NEW day \in Int, NEW zone \in Zones, NEW t \in Int, InDate(t, day)
  PROVE  Asleep(t, zone) <=> \E d \in DaysAround(day) : Within(t, Exclusion(zone, d))
  <1> DEFINE u == t + zone
             q == u \div Day
  <1>1. /\ zone \in Int /\ -Day <= zone /\ zone <= Day
        /\ u \in Int /\ q \in Int /\ u % Day \in 0 .. Day - 1 /\ u = q * Day + (u % Day)
    <2>1. zone \in Int /\ -Day <= zone /\ zone <= Day
      BY DayType DEF Zones
    <2>2. u \in Int
      BY <2>1
    <2> HIDE DEF u
    <2> QED BY <2>1, <2>2, DivMod, DayType
  <1>2. Asleep(t, zone) <=> PerHour <= u % Day /\ u % Day < 6 * PerHour
    BY DayType, <1>1 DEF Asleep, LocalTime, Hour
  <1>3. \A d \in Int : Within(t, Exclusion(zone, d)) <=>
           d * Day + PerHour <= u /\ u < d * Day + 6 * PerHour
    <2> SUFFICES ASSUME NEW d \in Int
                 PROVE  Within(t, Exclusion(zone, d)) <=>
                           d * Day + PerHour <= u /\ u < d * Day + 6 * PerHour
      OBVIOUS
    <2>1. d * Day \in Int
      BY DayType
    <2>2. Exclusion(zone, d)[1] = d * Day + PerHour - zone /\ Exclusion(zone, d)[2] = d * Day + 6 * PerHour - zone
      BY DayType, <1>1, <2>1 DEF Exclusion, Hour
    <2> QED BY DayType, <1>1, <2>1, <2>2 DEF Within
  <1>4. q \in DaysAround(day)
    <2>1. (day - 1) * Day = day * Day - Day /\ (day + 1) * Day = day * Day + Day /\ day * Day \in Int
      BY DayType
    <2>2. (day - 1) * Day <= u /\ u < (day + 1) * Day + Day
      BY DayType, <1>1, <2>1 DEF InDate
    <2>3. ~(q <= day - 2)
      <3>1. (day - 2) * Day = (day - 1) * Day - Day
        BY DayType
      <3>2. q <= day - 2 => q * Day <= (day - 2) * Day
        BY DayType, <1>1, Times
      <3> QED BY DayType, <1>1, <2>2, <3>1, <3>2
    <2>4. ~(q >= day + 2)
      <3>1. (day + 2) * Day = (day + 1) * Day + Day
        BY DayType
      <3>2. q >= day + 2 => q * Day >= (day + 2) * Day
        BY DayType, <1>1, Times
      <3> QED BY DayType, <1>1, <2>2, <3>1, <3>2
    <2> QED BY <1>1, <2>3, <2>4 DEF DaysAround
  <1>5. ASSUME Asleep(t, zone) PROVE Within(t, Exclusion(zone, q))
    <2>1. q * Day \in Int
      BY DayType, <1>1
    <2> HIDE DEF u, q
    <2> QED BY DayType, <1>1, <1>2, <1>3, <1>5, <2>1
  <1>6. ASSUME NEW d \in DaysAround(day), Within(t, Exclusion(zone, d)) PROVE Asleep(t, zone)
    <2>1. d \in Int
      BY DEF DaysAround
    <2>2. d * Day + PerHour <= u /\ u < d * Day + 6 * PerHour /\ d * Day \in Int
      BY <1>3, <1>6, <2>1, DayType
    <2>3. 0 <= u - d * Day /\ u - d * Day < Day
      BY DayType, <1>1, <2>2
    <2> HIDE DEF u
    <2>4. u % Day = u - d * Day
      BY DayType, <1>1, <2>1, <2>3, ModIs
    <2> QED BY DayType, <1>1, <1>2, <2>2, <2>4
  <1> QED BY <1>4, <1>5, <1>6

LEMMA ImageIsFinite ==
  ASSUME NEW S, IsFiniteSet(S), NEW f
  PROVE  IsFiniteSet({f[x] : x \in S})
  <1> DEFINE T == {f[x] : x \in S}
             h == [x \in S |-> f[x]]
  <1>1. h \in Surjection(S, T)
    BY DEF Surjection
  <1> QED BY <1>1, FS_Surjection

LEMMA DateBounds ==
  ASSUME NEW day \in Int
  PROVE  /\ day * Day \in Int /\ (day + 1) * Day \in Int
         /\ (day + 1) * Day = day * Day + Day /\ day * Day < (day + 1) * Day
  BY DayType

LEMMA NightsType ==
  ASSUME NEW group \in Seq(Zones), NEW day \in Int
  PROVE  IsFiniteSet(Nights(group, day)) /\ Nights(group, day) \in SUBSET Intervals
  <1> DEFINE I == (1 .. Len(group)) \X DaysAround(day)
             f == [p \in I |-> Exclusion(group[p[1]], p[2])]
  <1>1. IsFiniteSet(1 .. Len(group)) /\ DOMAIN group = 1 .. Len(group)
    <2>1. DOMAIN group = 1 .. Len(group) /\ Len(group) \in Int
      OBVIOUS
    <2> QED BY <2>1, FS_Interval
  <1>2. IsFiniteSet(DaysAround(day))
    <2>1. DaysAround(day) = day - 1 .. day + 1
      BY DEF DaysAround
    <2> QED BY <2>1, FS_Interval
  <1>3. IsFiniteSet(I)
    BY <1>1, <1>2, FS_Product
  <1>4. Nights(group, day) = {f[p] : p \in I}
    <2>1. \A i \in DOMAIN group, d \in DaysAround(day) : <<i, d>> \in I /\ f[<<i, d>>] = Exclusion(group[i], d)
      BY <1>1
    <2>2. \A p \in I : p[1] \in DOMAIN group /\ p[2] \in DaysAround(day) /\ f[p] = Exclusion(group[p[1]], p[2])
      BY <1>1
    <2> HIDE DEF I, f
    <2>3. ASSUME NEW x \in Nights(group, day) PROVE x \in {f[p] : p \in I}
      <3>1. PICK i \in DOMAIN group, d \in DaysAround(day) : x = Exclusion(group[i], d)
        BY DEF Nights
      <3> QED BY <2>1, <3>1
    <2>4. ASSUME NEW p \in I PROVE f[p] \in Nights(group, day)
      BY <2>2 DEF Nights
    <2> QED BY <2>3, <2>4
  <1>5. ASSUME NEW i \in DOMAIN group, NEW d \in DaysAround(day) PROVE Exclusion(group[i], d) \in Intervals
    <2>1. group[i] \in Int /\ d \in Int
      BY DayType DEF Zones, DaysAround
    <2>2. d * Day \in Int
      BY <2>1, DayType
    <2> QED BY <2>1, <2>2, DayType DEF Exclusion, Hour, Intervals, Pairs
  <1>6. Nights(group, day) \in SUBSET Intervals
    BY <1>5 DEF Nights
  <1>7. IsFiniteSet({f[p] : p \in I})
    <2> HIDE DEF f, I
    <2> QED BY <1>3, ImageIsFinite
  <1> QED BY <1>4, <1>6, <1>7

(* The exclusions of a date cover the hours of it at which somebody sleeps. *)
ExclusionsOf(E, group, day) ==
  /\ IsFiniteSet(E) /\ E \in SUBSET Intervals
  /\ \A x \in E : day * Day <= x[1] /\ x[2] <= (day + 1) * Day
  /\ \A t \in Int : InDate(t, day) => (CoversSet(E, t) <=> ~TouchesNobody(t, group))

LEMMA ExclusionsAreNights ==
  ASSUME NEW group \in Seq(Zones), NEW day \in Int
  PROVE  ExclusionsOf(Exclusions(group, day), group, day)
  <1> DEFINE from == day * Day
             to == from + Day
             Near == {x \in Nights(group, day) : x[1] < to /\ x[2] > from}
             clip == [x \in Near |-> <<Longer(x[1], from), Shorter(x[2], to)>>]
             E == Exclusions(group, day)
  <1>1. E = {clip[x] : x \in Near}
    BY DEF Exclusions
  <1>2. /\ from \in Int /\ to \in Int /\ from < to /\ to = (day + 1) * Day
    BY DateBounds, DayType
  <1>3. IsFiniteSet(E)
    <2>1. IsFiniteSet(Near)
      BY NightsType, FS_Subset
    <2> HIDE DEF clip, Near
    <2> QED BY <1>1, <2>1, ImageIsFinite
  <1>4. ASSUME NEW x \in Near
        PROVE  /\ clip[x] \in Intervals /\ from <= clip[x][1] /\ clip[x][2] <= to
               /\ \A t \in Int : from <= t /\ t < to => (Within(t, clip[x]) <=> Within(t, x))
    <2>1. x[1] \in Int /\ x[2] \in Int /\ x[1] < x[2] /\ x[1] < to /\ x[2] > from
      BY NightsType DEF Intervals, Pairs
    <2>2. /\ clip[x] = <<Longer(x[1], from), Shorter(x[2], to)>>
          /\ clip[x][1] = Longer(x[1], from) /\ clip[x][2] = Shorter(x[2], to)
      OBVIOUS
    <2> HIDE DEF clip, from, to
    <2>3. /\ Longer(x[1], from) \in Int /\ Shorter(x[2], to) \in Int
          /\ Longer(x[1], from) < Shorter(x[2], to)
      BY <1>2, <2>1 DEF Longer, Shorter
    <2>4. clip[x] \in Intervals
      BY <2>2, <2>3 DEF Intervals, Pairs
    <2> QED BY <1>2, <2>1, <2>2, <2>4 DEF Longer, Shorter, Within
  <1>5. \A t \in Int : InDate(t, day) =>
           (~TouchesNobody(t, group) <=> \E x \in Nights(group, day) : Within(t, x))
    <2> SUFFICES ASSUME NEW t \in Int, InDate(t, day)
                 PROVE  ~TouchesNobody(t, group) <=> \E x \in Nights(group, day) : Within(t, x)
      OBVIOUS
    <2>1. \A i \in DOMAIN group :
             Asleep(t, group[i]) <=> \E d \in DaysAround(day) : Within(t, Exclusion(group[i], d))
      BY NightOfADate
    <2> QED BY <2>1 DEF TouchesNobody, Nights
  <1>6. ASSUME NEW t \in Int, InDate(t, day)
        PROVE  CoversSet(E, t) <=> ~TouchesNobody(t, group)
    <2>1. from <= t /\ t < to
      BY <1>2, <1>6 DEF InDate
    <2>2. CoversSet(E, t) <=> \E x \in Near : Within(t, clip[x])
      BY <1>1 DEF CoversSet, Within
    <2>3. CoversSet(E, t) <=> \E x \in Near : Within(t, x)
      BY <1>4, <2>1, <2>2
    <2>4. \A x \in Nights(group, day) : Within(t, x) => x \in Near
      <3>1. \A x \in Nights(group, day) : x[1] \in Int /\ x[2] \in Int
        BY NightsType DEF Intervals, Pairs
      <3> HIDE DEF from, to
      <3> QED BY <1>2, <2>1, <3>1 DEF Within
    <2> QED BY <1>5, <1>6, <2>3, <2>4
  <1> HIDE DEF clip, Near, from, to
  <1>7. E \in SUBSET Intervals /\ \A x \in E : from <= x[1] /\ x[2] <= to
    BY <1>1, <1>4
  <1> QED BY <1>2, <1>3, <1>6, <1>7 DEF ExclusionsOf, from

-----------------------------------------------------------------------------
(* What the merge leaves of a date are its stretches.                      *)

GapFrom(merged, day, i) == IF i = 1 THEN day * Day ELSE merged[i - 1][2]
GapTo(merged, day, i) == IF i = Len(merged) + 1 THEN (day + 1) * Day ELSE merged[i][1]

(* Merged intervals of a date, which cover what is not free.               *)
IsDatesMerge(merged, day, Free) ==
  /\ merged \in Seq(Pairs) /\ Neat(merged)
  /\ \A k \in DOMAIN merged : day * Day <= merged[k][1] /\ merged[k][2] <= (day + 1) * Day
  /\ Free = {t \in day * Day .. (day + 1) * Day - 1 : ~Covers(merged, t)}

IsStretch(w, day, Free) ==
  /\ w \in Int \X Int
  /\ day * Day <= w[1] /\ w[1] < w[2] /\ w[2] <= (day + 1) * Day
  /\ \A t \in w[1] .. w[2] - 1 : t \in Free
  /\ w[1] - 1 \notin Free /\ w[2] \notin Free

LEMMA MergeFacts ==
  ASSUME NEW day \in Int, NEW merged, NEW Free, IsDatesMerge(merged, day, Free)
  PROVE  /\ Len(merged) \in Nat /\ DOMAIN merged = 1 .. Len(merged)
         /\ \A k \in 1 .. Len(merged) :
               /\ merged[k][1] \in Int /\ merged[k][2] \in Int
               /\ day * Day <= merged[k][1] /\ merged[k][1] < merged[k][2]
               /\ merged[k][2] <= (day + 1) * Day
         /\ \A j, k \in 1 .. Len(merged) : j < k => merged[j][2] < merged[k][1]
  <1>1. merged \in Seq(Pairs) /\ Len(merged) \in Nat /\ DOMAIN merged = 1 .. Len(merged)
    BY DEF IsDatesMerge
  <1>2. \A k \in 1 .. Len(merged) : merged[k] \in Pairs /\ merged[k][1] \in Int /\ merged[k][2] \in Int
    BY <1>1 DEF Pairs
  <1> QED BY <1>1, <1>2 DEF IsDatesMerge, Neat

LEMMA GapEnds ==
  ASSUME NEW day \in Int, NEW merged, NEW Free, IsDatesMerge(merged, day, Free),
         NEW i \in 1 .. Len(merged) + 1
  PROVE  /\ GapFrom(merged, day, i) \in Int /\ GapTo(merged, day, i) \in Int
         /\ day * Day <= GapFrom(merged, day, i) /\ GapTo(merged, day, i) <= (day + 1) * Day
         /\ i # 1 => i - 1 \in 1 .. Len(merged) /\ GapFrom(merged, day, i) = merged[i - 1][2]
         /\ i # Len(merged) + 1 => i \in 1 .. Len(merged) /\ GapTo(merged, day, i) = merged[i][1]
  <1>1. day * Day \in Int /\ (day + 1) * Day \in Int /\ day * Day <= (day + 1) * Day
    BY DateBounds
  <1>2. Len(merged) \in Nat
    BY MergeFacts
  <1>3. i # 1 => i - 1 \in 1 .. Len(merged)
    BY <1>2
  <1>4. i # Len(merged) + 1 => i \in 1 .. Len(merged)
    BY <1>2
  <1>5. /\ GapFrom(merged, day, i) \in Int /\ day * Day <= GapFrom(merged, day, i)
        /\ i # 1 => GapFrom(merged, day, i) = merged[i - 1][2]
    <2>1. CASE i = 1
      BY <1>1, <2>1 DEF GapFrom
    <2>2. CASE i # 1
      <3>1. i - 1 \in 1 .. Len(merged)
        BY <1>3, <2>2
      <3>2. /\ merged[i - 1][1] \in Int /\ merged[i - 1][2] \in Int
            /\ day * Day <= merged[i - 1][1] /\ merged[i - 1][1] < merged[i - 1][2]
        BY <3>1, MergeFacts
      <3> QED BY <1>1, <2>2, <3>2 DEF GapFrom
    <2> QED BY <2>1, <2>2
  <1>6. /\ GapTo(merged, day, i) \in Int /\ GapTo(merged, day, i) <= (day + 1) * Day
        /\ i # Len(merged) + 1 => GapTo(merged, day, i) = merged[i][1]
    <2>1. CASE i = Len(merged) + 1
      BY <1>1, <2>1 DEF GapTo
    <2>2. CASE i # Len(merged) + 1
      <3>1. i \in 1 .. Len(merged)
        BY <1>4, <2>2
      <3>2. /\ merged[i][1] \in Int /\ merged[i][2] \in Int
            /\ merged[i][1] < merged[i][2] /\ merged[i][2] <= (day + 1) * Day
        BY <3>1, MergeFacts
      <3> QED BY <1>1, <2>2, <3>2 DEF GapTo
    <2> QED BY <2>1, <2>2
  <1> QED BY <1>3, <1>4, <1>5, <1>6

(* Between its ends a gap is free.                                         *)
LEMMA GapIsFree ==
  ASSUME NEW day \in Int, NEW merged, NEW Free, IsDatesMerge(merged, day, Free),
         NEW i \in 1 .. Len(merged) + 1, NEW t \in Int,
         GapFrom(merged, day, i) <= t, t < GapTo(merged, day, i)
  PROVE  t \in Free
  <1> DEFINE n == Len(merged)
  <1>1. day * Day \in Int /\ (day + 1) * Day \in Int
    BY DateBounds
  <1>2. day * Day <= t /\ t < (day + 1) * Day
    BY <1>1, GapEnds
  <1>3. ASSUME NEW k \in 1 .. n, merged[k][1] <= t, t < merged[k][2] PROVE FALSE
    <2>1. /\ n \in Nat /\ merged[k][1] \in Int /\ merged[k][2] \in Int
          /\ \A j \in 1 .. n : merged[j][1] \in Int /\ merged[j][2] \in Int /\ merged[j][1] < merged[j][2]
          /\ \A j, l \in 1 .. n : j < l => merged[j][2] < merged[l][1]
      BY MergeFacts
    <2>2. CASE k < i
      <3>1. i # 1 /\ i - 1 \in 1 .. n /\ GapFrom(merged, day, i) = merged[i - 1][2]
        BY <2>1, <2>2, GapEnds
      <3>2. merged[k][2] <= merged[i - 1][2]
        <4>1. CASE k = i - 1
          BY <2>1, <4>1
        <4>2. CASE k # i - 1
          <5>1. k < i - 1
            BY <2>1, <2>2, <4>2
          <5>2. merged[k][2] < merged[i - 1][1] /\ merged[i - 1][1] < merged[i - 1][2]
            BY <2>1, <3>1, <5>1
          <5>3. merged[i - 1][1] \in Int /\ merged[i - 1][2] \in Int
            BY <2>1, <3>1
          <5> QED BY <2>1, <5>2, <5>3
        <4> QED BY <4>1, <4>2
      <3>3. merged[i - 1][2] \in Int
        BY <2>1, <3>1
      <3> QED BY <1>3, <2>1, <3>1, <3>2, <3>3
    <2>3. CASE k >= i
      <3>1. i # n + 1 /\ i \in 1 .. n /\ GapTo(merged, day, i) = merged[i][1]
        BY <2>1, <2>3, GapEnds
      <3>2. merged[i][1] <= merged[k][1] /\ merged[i][1] \in Int
        <4>1. CASE k = i
          BY <2>1, <4>1
        <4>2. CASE k # i
          <5>1. i < k
            BY <2>1, <2>3, <4>2
          <5>2. merged[i][2] < merged[k][1] /\ merged[i][1] < merged[i][2]
            BY <2>1, <3>1, <5>1
          <5>3. merged[i][1] \in Int /\ merged[i][2] \in Int
            BY <2>1, <3>1
          <5> QED BY <2>1, <5>2, <5>3
        <4> QED BY <4>1, <4>2
      <3> QED BY <1>3, <2>1, <3>1, <3>2
    <2> QED BY <2>1, <2>2, <2>3
  <1>4. ~Covers(merged, t)
    BY <1>3, MergeFacts DEF Covers
  <1> QED BY <1>1, <1>2, <1>4 DEF IsDatesMerge

LEMMA GapIsStretch ==
  ASSUME NEW day \in Int, NEW merged, NEW Free, IsDatesMerge(merged, day, Free),
         NEW w \in Gaps(merged, day)
  PROVE  IsStretch(w, day, Free)
  <1> DEFINE n == Len(merged)
  <1>1. PICK i \in 1 .. n + 1 : w = <<GapFrom(merged, day, i), GapTo(merged, day, i)>> /\ w[1] < w[2]
    BY DEF Gaps, GapFrom, GapTo
  <1>2. w[1] = GapFrom(merged, day, i) /\ w[2] = GapTo(merged, day, i)
    BY <1>1
  <1>3. day * Day \in Int /\ (day + 1) * Day \in Int
    BY DateBounds
  <1>4. w \in Int \X Int /\ day * Day <= w[1] /\ w[2] <= (day + 1) * Day
    BY <1>1, <1>2, GapEnds
  <1>5. \A t \in w[1] .. w[2] - 1 : t \in Free
    BY <1>2, <1>4, GapIsFree
  <1>6. \A t \in Free : t \in Int /\ day * Day <= t /\ t < (day + 1) * Day /\ ~Covers(merged, t)
    BY <1>3 DEF IsDatesMerge
  <1>7. w[1] - 1 \notin Free
    <2>1. CASE i = 1
      BY <1>2, <1>3, <1>6, <2>1 DEF GapFrom
    <2>2. CASE i # 1
      <3>1. i - 1 \in 1 .. n /\ w[1] = merged[i - 1][2]
        BY <1>2, <2>2, GapEnds
      <3>2. Covers(merged, w[1] - 1)
        BY <3>1, MergeFacts DEF Covers
      <3> QED BY <1>6, <3>2
    <2> QED BY <2>1, <2>2
  <1>8. w[2] \notin Free
    <2>1. CASE i = n + 1
      BY <1>2, <1>3, <1>6, <2>1 DEF GapTo
    <2>2. CASE i # n + 1
      <3>1. i \in 1 .. n /\ w[2] = merged[i][1]
        BY <1>2, <2>2, GapEnds
      <3>2. merged[i][1] <= w[2] /\ w[2] < merged[i][2] /\ i \in DOMAIN merged
        BY <1>4, <3>1, MergeFacts
      <3>3. Covers(merged, w[2])
        BY <3>2 DEF Covers
      <3> QED BY <1>6, <3>3
    <2> QED BY <2>1, <2>2
  <1> QED BY <1>1, <1>4, <1>5, <1>7, <1>8 DEF IsStretch

LEMMA StretchIsGap ==
  ASSUME NEW day \in Int, NEW merged, NEW Free, IsDatesMerge(merged, day, Free),
         NEW w, IsStretch(w, day, Free)
  PROVE  w \in Gaps(merged, day)
  <1> DEFINE n == Len(merged)
  <1>1. /\ n \in Nat /\ DOMAIN merged = 1 .. n
        /\ \A k \in 1 .. n : merged[k][1] \in Int /\ merged[k][2] \in Int /\ merged[k][1] < merged[k][2]
    BY MergeFacts
  <1>2. /\ w = <<w[1], w[2]>> /\ w[1] \in Int /\ w[2] \in Int /\ w[1] < w[2]
        /\ day * Day <= w[1] /\ w[2] <= (day + 1) * Day
        /\ w[1] - 1 \notin Free /\ w[2] \notin Free
    BY DEF IsStretch
  <1>3. day * Day \in Int /\ (day + 1) * Day \in Int
    BY DateBounds
  <1>4. \A k \in 1 .. n, t \in w[1] .. w[2] - 1 : ~(merged[k][1] <= t /\ t < merged[k][2])
    BY <1>1 DEF IsStretch, IsDatesMerge, Covers
  <1> DEFINE P == {k \in 1 .. n + 1 : k = n + 1 \/ merged[k][2] > w[1]}
  <1>5. PICK i \in P : \A k \in P : i <= k
    <2>1. P \in SUBSET Nat /\ n + 1 \in P
      BY <1>1
    <2> HIDE DEF P
    <2> QED BY <2>1, LeastNat
  <1>6. i \in 1 .. n + 1 /\ (i = n + 1 \/ merged[i][2] > w[1])
    BY <1>5
  <1> DEFINE from == GapFrom(merged, day, i)
             to == GapTo(merged, day, i)
  <1>7. /\ from \in Int /\ to \in Int /\ day * Day <= from /\ to <= (day + 1) * Day
        /\ i # 1 => i - 1 \in 1 .. n /\ from = merged[i - 1][2]
        /\ i # n + 1 => i \in 1 .. n /\ to = merged[i][1]
    BY <1>6, GapEnds
  <1>8. \A t \in Int : from <= t /\ t < to => t \in Free
    BY <1>6, GapIsFree
  <1>9. from <= w[1]
    <2>1. CASE i = 1
      BY <1>2, <2>1 DEF GapFrom
    <2>2. CASE i # 1
      <3>1. i - 1 \in 1 .. n /\ i - 1 < i
        BY <1>1, <1>7, <2>2
      <3>2. i - 1 \notin P
        BY <1>1, <1>5, <3>1
      <3>3. ~(merged[i - 1][2] > w[1])
        BY <1>1, <3>1, <3>2
      <3> QED BY <1>1, <1>2, <1>7, <2>2, <3>1, <3>3
    <2> QED BY <2>1, <2>2
  <1>10. w[1] < to
    <2>1. CASE i = n + 1
      BY <1>2, <1>3, <2>1 DEF GapTo
    <2>2. CASE i # n + 1
      <3>1. i \in 1 .. n /\ to = merged[i][1] /\ merged[i][2] > w[1]
        BY <1>6, <1>7, <2>2
      <3>2. ~(merged[i][1] <= w[1])
        BY <1>2, <1>4, <3>1
      <3> QED BY <1>1, <1>2, <3>1, <3>2
    <2> QED BY <2>1, <2>2
  <1> HIDE DEF from, to, P
  <1>11. w[1] = from
    <2>1. w[1] > from => w[1] - 1 \in Free
      BY <1>2, <1>7, <1>8, <1>10
    <2> QED BY <1>2, <1>7, <1>9, <2>1
  <1>12. w[2] <= to
    <2>1. CASE i = n + 1
      BY <1>2, <2>1 DEF GapTo, to
    <2>2. CASE i # n + 1
      <3>1. i \in 1 .. n /\ to = merged[i][1] /\ merged[i][1] < merged[i][2]
        BY <1>1, <1>7, <2>2
      <3>2. w[2] > to => to \in w[1] .. w[2] - 1
        BY <1>2, <1>7, <1>10
      <3>3. to \in w[1] .. w[2] - 1 => FALSE
        BY <1>1, <1>4, <1>7, <3>1
      <3> QED BY <1>2, <1>7, <3>2, <3>3
    <2> QED BY <2>1, <2>2
  <1>13. w[2] = to
    <2>1. w[2] < to => w[2] \in Free
      BY <1>2, <1>7, <1>8, <1>9
    <2> QED BY <1>2, <1>7, <1>12, <2>1
  <1> QED BY <1>2, <1>6, <1>11, <1>13 DEF Gaps, GapFrom, GapTo, from, to

AwakeOf(group, day) == {t \in day * Day .. (day + 1) * Day - 1 : TouchesNobody(t, group)}

LEMMA StretchesOfADate ==
  ASSUME NEW group \in Seq(Zones), NEW day \in Int
  PROVE  AwakeStretches(group, day) = {w \in Int \X Int : IsStretch(w, day, AwakeOf(group, day))}
  <1> DEFINE from == day * Day
             to == from + Day
             awake == {t \in from .. to - 1 : TouchesNobody(t, group)}
  <1>1. from \in Int /\ to \in Int /\ to = (day + 1) * Day /\ awake = AwakeOf(group, day)
    BY DateBounds DEF AwakeOf
  <1>2. \A t \in awake : t \in Int /\ from <= t /\ t < to
    BY <1>1
  <1>3. AwakeStretches(group, day) =
          {w \in awake \X (from + 1 .. to) :
             /\ w[1] < w[2] /\ \A t \in w[1] .. w[2] - 1 : t \in awake
             /\ w[1] - 1 \notin awake /\ w[2] \notin awake}
    BY DEF AwakeStretches
  <1> HIDE DEF from, to, awake
  <1>4. ASSUME NEW w \in AwakeStretches(group, day) PROVE w \in Int \X Int /\ IsStretch(w, day, awake)
    <2>1. /\ w[1] \in awake /\ w[2] \in from + 1 .. to /\ w = <<w[1], w[2]>>
          /\ w[1] < w[2] /\ \A t \in w[1] .. w[2] - 1 : t \in awake
          /\ w[1] - 1 \notin awake /\ w[2] \notin awake
      BY <1>3
    <2>2. w[1] \in Int /\ w[2] \in Int /\ from <= w[1] /\ w[2] <= to
      BY <1>1, <1>2, <2>1
    <2>3. w \in Int \X Int
      BY <2>1, <2>2
    <2> QED BY <1>1, <2>1, <2>2, <2>3 DEF IsStretch, from
  <1>5. ASSUME NEW w \in Int \X Int, IsStretch(w, day, awake) PROVE w \in AwakeStretches(group, day)
    <2>1. /\ w = <<w[1], w[2]>> /\ w[1] \in Int /\ w[2] \in Int /\ from <= w[1] /\ w[1] < w[2] /\ w[2] <= to
          /\ \A t \in w[1] .. w[2] - 1 : t \in awake
          /\ w[1] - 1 \notin awake /\ w[2] \notin awake
      BY <1>1, <1>5 DEF IsStretch, from
    <2>2. w[1] \in awake /\ w[2] \in from + 1 .. to
      BY <1>1, <2>1
    <2>3. w \in awake \X (from + 1 .. to)
      BY <2>1, <2>2
    <2> QED BY <1>3, <2>1, <2>3
  <1> QED BY <1>1, <1>4, <1>5

LEMMA GapsAreStretches ==
  ASSUME NEW group \in Seq(Zones), NEW day \in Int
  PROVE  LET gaps == Gaps(Merge(Exclusions(group, day)), day)
         IN  /\ gaps = AwakeStretches(group, day)
             /\ IsFiniteSet(gaps)
             /\ \A w \in gaps : IsStretch(w, day, AwakeOf(group, day))
  <1> DEFINE E == Exclusions(group, day)
             merged == Merge(E)
             gaps == Gaps(merged, day)
             Free == AwakeOf(group, day)
  <1>1. ExclusionsOf(E, group, day)
    BY ExclusionsAreNights
  <1>2. MergedOf(merged, E)
    BY <1>1, MergeMerges DEF ExclusionsOf
  <1> HIDE DEF merged, E
  <1>3. day * Day \in Int /\ (day + 1) * Day \in Int
    BY DateBounds
  <1>4. Free = {t \in day * Day .. (day + 1) * Day - 1 : ~Covers(merged, t)}
    <2>1. \A t \in day * Day .. (day + 1) * Day - 1 : TouchesNobody(t, group) <=> ~Covers(merged, t)
      BY <1>1, <1>2, <1>3 DEF ExclusionsOf, MergedOf, InDate
    <2> QED BY <2>1 DEF AwakeOf
  <1>5. \A k \in DOMAIN merged : day * Day <= merged[k][1] /\ merged[k][2] <= (day + 1) * Day
    BY <1>1, <1>2 DEF ExclusionsOf, MergedOf
  <1> HIDE DEF Free
  <1>6. IsDatesMerge(merged, day, Free)
    BY <1>2, <1>4, <1>5 DEF MergedOf, IsDatesMerge
  <1>7. \A w \in gaps : IsStretch(w, day, Free) /\ w \in Int \X Int
    BY <1>6, GapIsStretch DEF IsStretch
  <1>8. \A w : IsStretch(w, day, Free) => w \in gaps
    BY <1>6, StretchIsGap
  <1>9. gaps = AwakeStretches(group, day)
    BY <1>7, <1>8, StretchesOfADate DEF Free
  <1>10. IsFiniteSet(gaps)
    <2> DEFINE I == 1 .. Len(merged) + 1
               gap == [i \in I |-> <<GapFrom(merged, day, i), GapTo(merged, day, i)>>]
    <2>1. Len(merged) + 1 \in Int
      BY <1>6, MergeFacts
    <2>2. IsFiniteSet({gap[i] : i \in I})
      <3>1. IsFiniteSet(I)
        BY <2>1, FS_Interval
      <3> HIDE DEF gap, I
      <3> QED BY <3>1, ImageIsFinite
    <2>3. gaps \in SUBSET {gap[i] : i \in I}
      BY DEF Gaps, GapFrom, GapTo
    <2> QED BY <2>2, <2>3, FS_Subset
  <1> QED BY <1>7, <1>9, <1>10 DEF merged, E, Free

LEMMA LongestExists ==
  ASSUME NEW G \in SUBSET Pairs, IsFiniteSet(G), G # {}
  PROVE  \E w \in G : FirstOfLongest(w, G)
  <1> DEFINE Less(v, w) == Size(v) < Size(w) \/ (Size(v) = Size(w) /\ w[1] <= v[1])
             R == {p \in G \X G : Less(p[1], p[2])}
  <1>1. \A v, w \in G : <<v, w>> \in R <=> Less(v, w)
    OBVIOUS
  <1>2. \A w \in G : w[1] \in Int /\ Size(w) \in Int
    BY DEF Pairs, Size
  <1>3. \A v, w \in G : v = w \/ Less(v, w) \/ Less(w, v)
    BY <1>2
  <1>4. \A u, v, w \in G : Less(u, v) /\ Less(v, w) => Less(u, w)
    BY <1>2
  <1> HIDE DEF R, Less
  <1>5. PICK w \in G : IsLast(w, G, R)
    BY <1>1, <1>3, <1>4, LastExists
  <1>6. \A v \in G : v = w \/ Less(v, w)
    BY <1>1, <1>5 DEF IsLast
  <1> QED BY <1>2, <1>6 DEF FirstOfLongest, Less

(* The slots of a date: a grid in its longest stretch.                     *)
WindowSlots(w, duration) == {t \in w[1] .. w[2] - duration : (t - w[1]) % Step = 0}

LEMMA SlotsOfADate ==
  ASSUME NEW group \in Seq(Zones), NEW day \in Int, NEW duration \in Nat \ {0}
  PROVE  LET stretches == AwakeStretches(group, day)
             slots     == RawSlots(group, day, duration)
         IN  IF stretches = {} THEN slots = {}
             ELSE \E w \in stretches : FirstOfLongest(w, stretches) /\ slots = WindowSlots(w, duration)
  <1> DEFINE gaps == Gaps(Merge(Exclusions(group, day)), day)
             slots == RawSlots(group, day, duration)
             size == [w \in gaps |-> Size(w)]
             window == OverlapWindow(group, day, duration)
  <1>1. gaps = AwakeStretches(group, day) /\ IsFiniteSet(gaps)
    BY GapsAreStretches
  <1>2. \A w \in gaps : IsStretch(w, day, AwakeOf(group, day))
    BY GapsAreStretches
  <1>3. \A w \in gaps : w \in Pairs /\ w[1] \in Int /\ w[2] \in Int /\ w[1] < w[2]
    BY <1>2 DEF IsStretch, Pairs
  <1>4. window = LongestGap(gaps, duration)
    BY DEF OverlapWindow
  <1>5. slots = StartsIn(window, group, duration)
    BY DEF RawSlots
  <1> HIDE DEF gaps, window, slots
  <1>6. SumFunction(size) \in Nat /\ \A w \in gaps : Size(w) <= SumFunction(size)
    <2>1. size \in [gaps -> Nat]
      BY <1>3 DEF Size
    <2>2. SumFunction(size) \in Nat /\ \A w \in gaps : size[w] <= SumFunction(size)
      <3> HIDE DEF size
      <3> QED BY <1>1, <2>1, SumOfNaturals
    <2>3. \A w \in gaps : size[w] = Size(w)
      OBVIOUS
    <2> QED BY <2>2, <2>3
  <1>7. CASE gaps = {}
    <2>1. window = None
      BY <1>4, <1>7 DEF LongestGap
    <2>2. slots = {}
      BY <1>5, <2>1 DEF StartsIn
    <2> QED BY <1>1, <1>7, <2>2 DEF slots
  <1>8. CASE gaps # {} /\ SumFunction(size) < duration
    <2>1. window = None
      BY <1>4, <1>8 DEF LongestGap
    <2>2. slots = {}
      BY <1>5, <2>1 DEF StartsIn
    <2>3. PICK w \in gaps : FirstOfLongest(w, gaps)
      BY <1>1, <1>3, <1>8, LongestExists
    <2>4. Size(w) < duration
      BY <1>3, <1>6, <1>8 DEF Size
    <2>5. WindowSlots(w, duration) = {}
      BY <1>3, <2>4 DEF WindowSlots, Size
    <2> QED BY <1>1, <1>8, <2>2, <2>3, <2>5 DEF slots
  <1>9. CASE gaps # {} /\ ~(SumFunction(size) < duration)
    <2>1. window = CHOOSE w \in gaps : FirstOfLongest(w, gaps)
      BY <1>4, <1>9 DEF LongestGap
    <2>2. window \in gaps /\ FirstOfLongest(window, gaps)
      BY <1>1, <1>3, <1>9, <2>1, LongestExists
    <2>3. window # None
      BY <1>3, <2>2 DEF None, Pairs
    <2>4. ASSUME NEW t \in window[1] .. window[2] - duration
          PROVE  ~AnyBlocked(t, t + duration, group)
      <3>1. \A u \in window[1] .. window[2] - 1 : TouchesNobody(u, group)
        BY <1>2, <2>2 DEF IsStretch, AwakeOf
      <3>2. \A u \in t .. t + duration - 1 : u \in window[1] .. window[2] - 1
        BY <1>3, <2>2
      <3> QED BY <3>1, <3>2 DEF AnyBlocked, TouchesNobody
    <2>5. slots = WindowSlots(window, duration)
      BY <1>5, <2>3, <2>4 DEF StartsIn, WindowSlots
    <2> QED BY <1>1, <1>9, <2>2, <2>5 DEF slots
  <1> QED BY <1>7, <1>8, <1>9

-----------------------------------------------------------------------------
(* A slot runs into a busy interval when it runs into an event.            *)

LEMMA OverlapIsShared ==
  ASSUME NEW a \in Int, NEW b \in Int, NEW c \in Int, NEW d \in Int, a < b, c < d
  PROVE  Overlap(a, b, c, d) <=> \E t \in Int : (a <= t /\ t < b) /\ (c <= t /\ t < d)
  <1>1. ASSUME Overlap(a, b, c, d)
        PROVE  \E t \in Int : (a <= t /\ t < b) /\ (c <= t /\ t < d)
    <2>1. CASE a <= c
      BY <1>1, <2>1 DEF Overlap
    <2>2. CASE c < a
      BY <1>1, <2>2 DEF Overlap
    <2> QED BY <2>1, <2>2
  <1>2. ASSUME NEW t \in Int, (a <= t /\ t < b) /\ (c <= t /\ t < d)
        PROVE  Overlap(a, b, c, d)
    BY <1>2 DEF Overlap
  <1> QED BY <1>1, <1>2

LEMMA FirstHit ==
  ASSUME NEW S \in SUBSET Nat, S # {}
  PROVE  Min(S) \in S
  BY LeastNat DEF Min

TimedOf(events) == {<<e.start, e.end>> : e \in {e \in ToSet(events) : IsTimed(e)}}

LEMMA TimedType ==
  ASSUME NEW events \in Seq(Events)
  PROVE  IsFiniteSet(TimedOf(events)) /\ TimedOf(events) \in SUBSET Intervals
  <1> DEFINE T == {e \in ToSet(events) : IsTimed(e)}
             f == [e \in T |-> <<e.start, e.end>>]
  <1>1. DOMAIN events = 1 .. Len(events) /\ Len(events) \in Int
    OBVIOUS
  <1>2. IsFiniteSet(ToSet(events))
    <2>1. IsFiniteSet(DOMAIN events)
      BY <1>1, FS_Interval
    <2>2. ToSet(events) = {events[i] : i \in DOMAIN events}
      BY DEF ToSet
    <2> QED BY <2>1, <2>2, ImageIsFinite
  <1>3. IsFiniteSet(T)
    BY <1>2, FS_Subset
  <1>4. TimedOf(events) = {f[e] : e \in T}
    BY DEF TimedOf
  <1>5. IsFiniteSet({f[e] : e \in T})
    <2> HIDE DEF f, T
    <2> QED BY <1>3, ImageIsFinite
  <1>6. ASSUME NEW e \in T PROVE <<e.start, e.end>> \in Intervals
    <2>1. e \in Events /\ IsTimed(e)
      BY DEF ToSet
    <2> QED BY <2>1 DEF Events, IsTimed, Intervals, Pairs
  <1>7. TimedOf(events) \in SUBSET Intervals
    BY <1>6 DEF TimedOf
  <1> QED BY <1>4, <1>5, <1>7

LEMMA ConflictIsAnEvent ==
  ASSUME NEW events \in Seq(Events), NEW start \in Int, NEW end \in Int, start < end
  PROVE  Conflict(start, end, Busy(events)) # None <=>
            \E i \in DOMAIN events :
               IsTimed(events[i]) /\ Overlap(start, end, events[i].start, events[i].end)
  <1> DEFINE busy == Busy(events)
             hits == {k \in DOMAIN busy : Overlap(start, end, busy[k][1], busy[k][2])}
  <1>1. MergedOf(busy, TimedOf(events))
    BY TimedType, MergeMerges DEF Busy, TimedOf
  <1> HIDE DEF busy
  <1>2. /\ busy \in Seq(Pairs) /\ DOMAIN busy = 1 .. Len(busy)
        /\ \A k \in DOMAIN busy : busy[k][1] < busy[k][2]
    BY <1>1 DEF MergedOf, Neat
  <1>3. \A k \in DOMAIN busy : busy[k] \in Pairs /\ busy[k][1] \in Int /\ busy[k][2] \in Int
    BY <1>2 DEF Pairs
  <1>4. hits # {} <=> \E t \in Int : (start <= t /\ t < end) /\ Covers(busy, t)
    <2>1. \A k \in DOMAIN busy : k \in hits <=>
             \E t \in Int : (start <= t /\ t < end) /\ (busy[k][1] <= t /\ t < busy[k][2])
      BY <1>2, <1>3, OverlapIsShared
    <2> HIDE DEF hits
    <2>2. hits \subseteq DOMAIN busy
      BY DEF hits
    <2> QED BY <2>1, <2>2 DEF Covers
  <1>5. ASSUME NEW t \in Int
        PROVE  Covers(busy, t) <=> \E i \in DOMAIN events : IsTimed(events[i]) /\ events[i].start <= t /\ t < events[i].end
    <2>1. Covers(busy, t) <=> CoversSet(TimedOf(events), t)
      BY <1>1 DEF MergedOf
    <2>2. CoversSet(TimedOf(events), t) <=> \E e \in ToSet(events) : IsTimed(e) /\ e.start <= t /\ t < e.end
      <3>1. ASSUME NEW x \in TimedOf(events), x[1] <= t, t < x[2]
            PROVE  \E e \in ToSet(events) : IsTimed(e) /\ e.start <= t /\ t < e.end
        <4>1. PICK e \in ToSet(events) : IsTimed(e) /\ x = <<e.start, e.end>>
          BY DEF TimedOf
        <4>2. x[1] = e.start /\ x[2] = e.end
          BY <4>1
        <4> QED BY <3>1, <4>1, <4>2
      <3>2. ASSUME NEW e \in ToSet(events), IsTimed(e), e.start <= t, t < e.end
            PROVE  CoversSet(TimedOf(events), t)
        <4>1. <<e.start, e.end>> \in TimedOf(events)
          BY <3>2 DEF TimedOf
        <4> QED BY <3>2, <4>1 DEF CoversSet
      <3> QED BY <3>1, <3>2 DEF CoversSet
    <2> QED BY <2>1, <2>2 DEF ToSet
  <1>6. ASSUME NEW i \in DOMAIN events, IsTimed(events[i])
        PROVE  Overlap(start, end, events[i].start, events[i].end) <=>
                  \E t \in Int : (start <= t /\ t < end) /\ (events[i].start <= t /\ t < events[i].end)
    <2>1. events[i] \in Events
      OBVIOUS
    <2>2. events[i].start \in Int /\ events[i].end \in Int /\ events[i].start < events[i].end
      BY <1>6, <2>1 DEF Events, IsTimed
    <2> QED BY <2>2, OverlapIsShared
  <1>7. hits # {} <=> \E i \in DOMAIN events :
                         IsTimed(events[i]) /\ Overlap(start, end, events[i].start, events[i].end)
    BY <1>4, <1>5, <1>6
  <1>8. hits # {} => busy[Min(hits)] # None
    <2>1. hits \in SUBSET Nat
      BY <1>2
    <2>2. hits # {} => Min(hits) \in DOMAIN busy
      BY <2>1, FirstHit
    <2> QED BY <1>3, <2>2 DEF Pairs, None
  <1>9. Conflict(start, end, busy) # None <=> hits # {}
    BY <1>8 DEF Conflict
  <1> QED BY <1>7, <1>9 DEF busy

-----------------------------------------------------------------------------
(* Candidates.                                                             *)

LEMMA FairnessType == ASSUME NEW start, NEW end, NEW zone PROVE Fairness(start, end, zone) \in Nat
  BY DEF Fairness

LEMMA OwnerPreferenceType == ASSUME NEW start PROVE OwnerPreference(start) \in Nat
  BY DEF OwnerPreference

LEMMA BufferType == ASSUME NEW start, NEW end, NEW busy PROVE Buffer(start, end, busy) \in Nat
  BY DEF Buffer

LEMMA DayBalanceType == ASSUME NEW day, NEW counted PROVE DayBalance(day, counted) \in Nat
  BY DEF DayBalance

LEMMA ScoreType ==
  ASSUME NEW start \in Int, NEW end, NEW group \in Seq(Zones), NEW busy, NEW counted, NEW span \in Nat
  PROVE  Score(start, end, group, busy, counted, span) \in Int
  <1> DEFINE people == Len(group)
             day == LocalDay(start, OwnerZone)
             scores == [i \in DOMAIN group |-> Fairness(start, end, group[i])]
             fair == SumFunction(scores)
             moved == IF Conflict(start, end, busy) = None THEN 10 ELSE 5
             flat == 25 * OwnerPreference(start) + 15 * Buffer(start, end, busy)
                     + 10 * DayBalance(day, counted) + 15 * moved
  <1>1. people \in Nat /\ DOMAIN group = 1 .. people
    OBVIOUS
  <1>2. day \in Int
    <2>1. start + OwnerZone \in Int
      BY AskAssumption, DayType DEF Zones
    <2> QED BY <2>1, DayType, DivMod DEF LocalDay
  <1>3. fair \in Nat
    <2>1. IsFiniteSet(DOMAIN group)
      BY <1>1, FS_Interval
    <2>2. scores \in [DOMAIN group -> Nat]
      BY FairnessType
    <2> HIDE DEF scores
    <2> QED BY <2>1, <2>2, SumOfNaturals
  <1>4. flat \in Nat
    <2>1. moved \in Nat
      OBVIOUS
    <2> HIDE DEF moved, day
    <2> QED BY <2>1, OwnerPreferenceType, BufferType, DayBalanceType
  <1>5. Score(start, end, group, busy, counted, span) =
          2 * span * (30 * fair + people * flat) + people * 5 * Longer(0, 20 * span - 10 * day)
    BY DEF Score
  <1> HIDE DEF people, day, scores, fair, moved, flat
  <1>6. Longer(0, 20 * span - 10 * day) \in Int
    BY <1>2 DEF Longer
  <1>7. people * flat \in Int /\ people * 5 \in Int
    BY <1>1, <1>4
  <1>8. 30 * fair + people * flat \in Int /\ 2 * span \in Int
    BY <1>3, <1>7
  <1>9. 2 * span * (30 * fair + people * flat) \in Int
    BY <1>8
  <1>10. people * 5 * Longer(0, 20 * span - 10 * day) \in Int
    BY <1>6, <1>7
  <1> QED BY <1>5, <1>9, <1>10

(* What the choice needs of its candidates: they are finitely many, and    *)
(* the order is total.                                                     *)
IsSlot(c) ==
  /\ c.day \in Int /\ c.start \in Int /\ c.end \in Int /\ c.score \in Int
  /\ c.start < c.end
AreCandidates(K) ==
  /\ IsFiniteSet(K)
  /\ \A c \in K : IsSlot(c)
  /\ \A c, d \in K : c.day = d.day /\ c.start = d.start => c = d

LEMMA RawSlotsType ==
  ASSUME NEW group \in Seq(Zones), NEW day \in Int, NEW duration \in Nat \ {0}
  PROVE  IsFiniteSet(RawSlots(group, day, duration)) /\ RawSlots(group, day, duration) \subseteq Int
  <1> DEFINE slots == RawSlots(group, day, duration)
  <1>1. CASE slots = {}
    BY <1>1, FS_EmptySet
  <1>2. CASE slots # {}
    <2>1. PICK w \in AwakeStretches(group, day) : slots = WindowSlots(w, duration)
      BY <1>2, SlotsOfADate
    <2>2. w[1] \in Int /\ w[2] - duration \in Int
      BY StretchesOfADate
    <2>3. IsFiniteSet(w[1] .. w[2] - duration)
      BY <2>2, FS_Interval
    <2>4. slots \in SUBSET (w[1] .. w[2] - duration)
      BY <2>1 DEF WindowSlots
    <2> HIDE DEF slots
    <2> QED BY <2>2, <2>3, <2>4, FS_Subset DEF slots
  <1> QED BY <1>1, <1>2

IsAsk(a) ==
  /\ a.group \in Seq(Zones) /\ a.last \in Nat /\ a.duration \in Nat \ {0}
  /\ a.calendar \in Seq(Seq(Events)) /\ Len(a.calendar) > a.last

LEMMA AskType == ASSUME NEW a \in Asks PROVE IsAsk(a)
  <1>1. a.group \in Groups /\ a.last \in 0 .. LastDay /\ a.duration \in Durations /\ a.calendar \in Calendars
    BY DEF Asks
  <1>2. a.group \in Seq(Zones) /\ LastDay \in Nat /\ a.duration \in Nat \ {0}
    BY <1>1, AskAssumption
  <1>3. a.calendar \in Seq(Seq(Events)) /\ Len(a.calendar) > LastDay
    BY <1>1, AskAssumption
  <1>4. Len(a.calendar) \in Nat
    BY <1>3
  <1> QED BY <1>1, <1>2, <1>3, <1>4 DEF IsAsk

LEMMA EventsOfADate ==
  ASSUME NEW a, IsAsk(a), NEW day \in Workdays(a.last)
  PROVE  day \in Nat /\ a.calendar[day + 1] \in Seq(Events)
  <1>1. day \in Nat /\ day <= a.last
    BY DEF Workdays, IsAsk
  <1>2. Len(a.calendar) \in Nat /\ day + 1 \in 1 .. Len(a.calendar)
    BY <1>1 DEF IsAsk
  <1>3. DOMAIN a.calendar = 1 .. Len(a.calendar)
    BY DEF IsAsk
  <1> QED BY <1>1, <1>2, <1>3 DEF IsAsk

CandidatesOf(a) == SlotCandidates(a.group, a.last, a.duration, a.calendar)
CandidateAt(a, day, start) == SlotAt(day, start, a.group, a.last, a.duration, a.calendar)

LEMMA CandidateFields ==
  ASSUME NEW a, IsAsk(a), NEW day \in Workdays(a.last), NEW start \in RawSlots(a.group, day, a.duration)
  PROVE  LET c == CandidateAt(a, day, start)
         IN  /\ IsSlot(c) /\ c.day = day /\ c.start = start
             /\ c.move = Conflict(start, c.end, Busy(a.calendar[day + 1]))
  <1> DEFINE c == CandidateAt(a, day, start)
             busy == Busy(a.calendar[day + 1])
             end == start + a.duration
  <1>1. /\ c.day = day /\ c.start = start /\ c.end = end /\ c.move = Conflict(start, end, busy)
        /\ c.score = Score(start, end, a.group, busy, CountedBy(day, a.calendar), Longer(a.last, 1))
    BY DEF CandidateAt, SlotAt
  <1>2. day \in Int /\ a.duration \in Nat \ {0}
    BY EventsOfADate DEF IsAsk
  <1>3. start \in Int
    BY <1>2, RawSlotsType DEF IsAsk
  <1>4. Longer(a.last, 1) \in Nat
    BY DEF IsAsk, Longer
  <1>5. c.score \in Int
    BY <1>1, <1>3, <1>4, ScoreType DEF IsAsk
  <1> HIDE DEF c, busy
  <1> QED BY <1>1, <1>2, <1>3, <1>5 DEF IsSlot, c, busy

LEMMA CandidatesType ==
  ASSUME NEW a, IsAsk(a)
  PROVE  /\ AreCandidates(CandidatesOf(a))
         /\ \A c \in CandidatesOf(a) :
               \E day \in Workdays(a.last) : \E start \in RawSlots(a.group, day, a.duration) :
                  c = CandidateAt(a, day, start)
  <1> DEFINE K == CandidatesOf(a)
             D == Workdays(a.last)
             ofDay == [day \in D |-> {CandidateAt(a, day, start) : start \in RawSlots(a.group, day, a.duration)}]
  <1>1. K = UNION {ofDay[day] : day \in D}
    BY DEF CandidatesOf, SlotCandidates, CandidateAt
  <1>2. ASSUME NEW c \in K
        PROVE  \E day \in D : \E start \in RawSlots(a.group, day, a.duration) : c = CandidateAt(a, day, start)
    BY <1>1, <1>2
  <1>3. IsFiniteSet(D)
    <2>1. IsFiniteSet(0 .. a.last)
      BY FS_Interval DEF IsAsk
    <2> QED BY <2>1, FS_Subset DEF Workdays
  <1>4. ASSUME NEW day \in D PROVE IsFiniteSet(ofDay[day])
    <2> DEFINE f == [start \in RawSlots(a.group, day, a.duration) |-> CandidateAt(a, day, start)]
    <2>1. IsFiniteSet(RawSlots(a.group, day, a.duration))
      <3>1. day \in Int /\ a.group \in Seq(Zones) /\ a.duration \in Nat \ {0}
        BY EventsOfADate DEF IsAsk
      <3> QED BY <3>1, RawSlotsType
    <2>2. ofDay[day] = {f[start] : start \in RawSlots(a.group, day, a.duration)}
      OBVIOUS
    <2>3. IsFiniteSet({f[start] : start \in RawSlots(a.group, day, a.duration)})
      <3> HIDE DEF f
      <3> QED BY <2>1, ImageIsFinite
    <2> QED BY <2>2, <2>3
  <1>5. IsFiniteSet(K)
    <2> HIDE DEF ofDay, D
    <2>1. IsFiniteSet({ofDay[day] : day \in D})
      BY <1>3, ImageIsFinite
    <2>2. \A T \in {ofDay[day] : day \in D} : IsFiniteSet(T)
      BY <1>4
    <2>3. IsFiniteSet(UNION {ofDay[day] : day \in D})
      BY <2>1, <2>2, FS_UNION
    <2> QED BY <1>1, <2>3
  <1>6. ASSUME NEW c \in K PROVE IsSlot(c)
    BY <1>2, CandidateFields
  <1>7. ASSUME NEW c \in K, NEW d \in K, c.day = d.day, c.start = d.start PROVE c = d
    <2>1. ASSUME NEW e \in K PROVE e = CandidateAt(a, e.day, e.start)
      <3>1. PICK day \in D : \E start \in RawSlots(a.group, day, a.duration) : e = CandidateAt(a, day, start)
        BY <1>2
      <3>2. PICK start \in RawSlots(a.group, day, a.duration) : e = CandidateAt(a, day, start)
        BY <3>1
      <3>3. e.day = day /\ e.start = start
        BY <3>2, CandidateFields
      <3> QED BY <3>2, <3>3
    <2> QED BY <1>7, <2>1
  <1> QED BY <1>2, <1>5, <1>6, <1>7 DEF AreCandidates

-----------------------------------------------------------------------------
(* The choice.                                                             *)

LEMMA BetterIsTotal ==
  ASSUME NEW x, NEW y, IsSlot(x), IsSlot(y)
  PROVE  \/ x.day = y.day /\ x.start = y.start
         \/ Better(x, y) \/ Better(y, x)
  BY DEF IsSlot, Better, Earlier

LEMMA BetterIsTransitive ==
  ASSUME NEW x, NEW y, NEW z, IsSlot(x), IsSlot(y), IsSlot(z), Better(x, y), Better(y, z)
  PROVE  Better(x, z)
  BY DEF IsSlot, Better, Earlier

LEMMA WorstIsLast ==
  ASSUME NEW K, AreCandidates(K)
  PROVE  \A T \in SUBSET K : T # {} =>
            Worst(T) \in T /\ \A y \in T : y = Worst(T) \/ Better(y, Worst(T))
  <1> DEFINE R == {p \in K \X K : Better(p[1], p[2])}
  <1>1. \A x, y \in K : <<x, y>> \in R <=> Better(x, y)
    OBVIOUS
  <1>2. \A x, y \in K : x = y \/ Better(x, y) \/ Better(y, x)
    BY BetterIsTotal DEF AreCandidates
  <1>3. \A x, y, z \in K : Better(x, y) /\ Better(y, z) => Better(x, z)
    BY BetterIsTransitive DEF AreCandidates
  <1> HIDE DEF R
  <1>4. \A T \in SUBSET K : T # {} => \E x \in T : IsLast(x, T, R)
    BY <1>1, <1>2, <1>3, LastExists DEF AreCandidates
  <1>5. ASSUME NEW T \in SUBSET K, T # {}
        PROVE  Worst(T) \in T /\ \A y \in T : y = Worst(T) \/ Better(y, Worst(T))
    <2>1. \E x \in T : \A y \in T : y = x \/ Better(y, x)
      BY <1>1, <1>4, <1>5 DEF IsLast
    <2> QED BY <2>1 DEF Worst
  <1> QED BY <1>5

FoldsKept(K, g) ==
  g = [T \in SUBSET K |-> IF T = {} THEN <<>> ELSE Keep(Worst(T), g[T \ {Worst(T)}])]

LEMMA KeptUnfolds ==
  ASSUME NEW K, AreCandidates(K)
  PROVE  \E g : FoldsKept(K, g) /\ Kept(K) = g[K]
  <1>1. \A T \in SUBSET K : T # {} => Worst(T) \in T
    BY WorstIsLast
  <1>2. \E g : FoldsKept(K, g)
    <2> DEFINE pick == [T \in SUBSET K |-> Worst(T)]
               step == [p \in K \X Seq(K) |-> Keep(p[1], p[2])]
    <2>1. step \in [K \X Seq(K) -> Seq(K)]
      BY DEF Keep
    <2>2. \A T \in SUBSET K : T # {} => pick[T] \in T
      BY <1>1
    <2>3. PICK g \in [SUBSET K -> Seq(K)] : IsFoldOver(SUBSET K, pick, step, <<>>, g)
      <3> HIDE DEF pick, step
      <3>1. <<>> \in Seq(K)
        OBVIOUS
      <3> QED BY <2>1, <2>2, <3>1, FoldOverTyped DEF AreCandidates
    <2>4. ASSUME NEW T \in SUBSET K, T # {}
          PROVE  step[<<pick[T], g[T \ {pick[T]}]>>] = Keep(Worst(T), g[T \ {Worst(T)}])
      <3>1. T \ {Worst(T)} \in SUBSET K /\ Worst(T) \in K
        BY <1>1, <2>4
      <3>2. g[T \ {Worst(T)}] \in Seq(K)
        BY <3>1
      <3> QED BY <3>1, <3>2
    <2>5. FoldsKept(K, g)
      <3> HIDE DEF pick, step
      <3> QED BY <2>3, <2>4 DEF IsFoldOver, FoldsKept
    <2> QED BY <2>5
  <1>3. Kept(K) = (CHOOSE g : FoldsKept(K, g))[K]
    BY DEF Kept, MapThenFoldSet, FoldsKept
  <1> QED BY <1>2, <1>3

(* Kept of T, from the best: no two overlap, and what is not kept overlaps *)
(* something kept that is no worse.                                        *)
Touch(c, d) == Overlap(c.start, c.end, d.start, d.end)
IsKept(kept, T) ==
  /\ kept \in Seq(T)
  /\ \A i, j \in DOMAIN kept : i < j =>
        kept[i].score >= kept[j].score /\ ~Touch(kept[i], kept[j])
  /\ \A c \in T : (\E i \in DOMAIN kept : kept[i] = c)
                  \/ \E i \in DOMAIN kept : kept[i].score >= c.score /\ Touch(c, kept[i])

LEMMA SeqInLarger ==
  ASSUME NEW S, NEW T, S \subseteq T, NEW s \in Seq(S)
  PROVE  s \in Seq(T)
  <1>1. Len(s) \in Nat /\ s \in [1 .. Len(s) -> S]
    OBVIOUS
  <1>2. s \in [1 .. Len(s) -> T]
    BY <1>1
  <1> QED BY <1>1, <1>2

LEMMA CutAt ==
  ASSUME NEW S, NEW s \in Seq(S), NEW m \in Nat, m <= Len(s)
  PROVE  /\ Len(SubSeq(s, 1, m)) = m
         /\ DOMAIN SubSeq(s, 1, m) = 1 .. m
         /\ \A i \in 1 .. m : SubSeq(s, 1, m)[i] = s[i]
  OBVIOUS

LEMMA KeepKeeps ==
  ASSUME NEW T, \A c \in T : IsSlot(c), NEW x \in T, \A y \in T : y = x \/ Better(y, x),
         NEW kept, IsKept(kept, T \ {x})
  PROVE  IsKept(Keep(x, kept), T)
  <1> DEFINE n == Len(kept)
  <1>1. kept \in Seq(T \ {x}) /\ n \in Nat /\ DOMAIN kept = 1 .. n
    BY DEF IsKept
  <1>2. \A i \in 1 .. n : kept[i] \in T \ {x}
    BY <1>1
  <1>3. kept \in Seq(T)
    BY <1>1, SeqInLarger
  <1>4. ASSUME NEW i \in 1 .. n PROVE kept[i].score >= x.score
    <2> DEFINE y == kept[i]
    <2>1. y \in T /\ y # x
      BY <1>2
    <2> HIDE DEF y
    <2>2. y.score \in Int /\ x.score \in Int /\ Better(y, x)
      BY <2>1 DEF IsSlot
    <2>3. y.score >= x.score
      BY <2>2 DEF Better
    <2> QED BY <2>3 DEF y
  <1>5. CASE ~ClearOf(kept, x)
    <2>1. Keep(x, kept) = kept
      BY <1>5 DEF Keep
    <2>2. \E i \in DOMAIN kept : kept[i].score >= x.score /\ Touch(x, kept[i])
      BY <1>1, <1>4, <1>5 DEF ClearOf, Touch
    <2> QED BY <1>3, <2>1, <2>2 DEF IsKept
  <1>6. CASE ClearOf(kept, x)
    <2> DEFINE longer == Append(kept, x)
    <2>1. /\ Keep(x, kept) = longer /\ longer \in Seq(T) /\ DOMAIN longer = 1 .. n + 1
          /\ longer[n + 1] = x /\ \A i \in 1 .. n : longer[i] = kept[i]
      BY <1>1, <1>3, <1>6 DEF Keep
    <2> HIDE DEF longer
    <2>2. \A i : i \in 1 .. n + 1 <=> i \in 1 .. n \/ i = n + 1
      BY <1>1
    <2>3. ASSUME NEW i \in 1 .. n + 1, NEW j \in 1 .. n + 1, i < j
          PROVE  longer[i].score >= longer[j].score /\ ~Touch(longer[i], longer[j])
      <3>1. i \in 1 .. n
        BY <1>1, <2>3
      <3>2. CASE j \in 1 .. n
        BY <1>1, <2>1, <2>3, <3>1, <3>2 DEF IsKept
      <3>3. CASE j = n + 1
        <4>1. ~Touch(x, kept[i])
          BY <1>1, <1>6, <3>1 DEF ClearOf, Touch
        <4>2. IsSlot(x) /\ IsSlot(kept[i])
          BY <1>2, <3>1
        <4>3. ~Touch(kept[i], x)
          BY <4>1, <4>2 DEF Touch, Overlap, IsSlot
        <4> QED BY <1>4, <2>1, <3>1, <3>3, <4>3
      <3> QED BY <2>2, <3>2, <3>3
    <2>4. ASSUME NEW c \in T
          PROVE  (\E i \in DOMAIN longer : longer[i] = c)
                 \/ \E i \in DOMAIN longer : longer[i].score >= c.score /\ Touch(c, longer[i])
      <3>1. CASE c = x
        BY <2>1, <2>2, <3>1
      <3>2. CASE c # x
        <4>1. (\E i \in 1 .. n : kept[i] = c)
              \/ \E i \in 1 .. n : kept[i].score >= c.score /\ Touch(c, kept[i])
          BY <1>1, <3>2 DEF IsKept
        <4> QED BY <2>1, <2>2, <4>1
      <3> QED BY <3>1, <3>2
    <2> QED BY <2>1, <2>3, <2>4 DEF IsKept
  <1> QED BY <1>5, <1>6

LEMMA KeptIsKept ==
  ASSUME NEW K, AreCandidates(K)
  PROVE  IsKept(Kept(K), K)
  <1>1. PICK g : FoldsKept(K, g) /\ Kept(K) = g[K]
    BY KeptUnfolds
  <1>2. \A T \in SUBSET K : g[T] = IF T = {} THEN <<>> ELSE Keep(Worst(T), g[T \ {Worst(T)}])
    BY <1>1 DEF FoldsKept
  <1> DEFINE C == {T \in SUBSET K : IsKept(g[T], T)}
  <1>3. {} \in C
    <2>1. {} \in SUBSET K
      OBVIOUS
    <2>2. g[{}] = <<>>
      BY <1>2, <2>1
    <2>3. IsKept(<<>>, {})
      BY DEF IsKept
    <2> QED BY <2>1, <2>2, <2>3
  <1>4. ASSUME NEW T \in SUBSET K, T # {}
        PROVE  \E x \in T : T \ {x} \in C => T \in C
    <2>1. Worst(T) \in T /\ \A y \in T : y = Worst(T) \/ Better(y, Worst(T))
      BY <1>4, WorstIsLast
    <2>2. g[T] = Keep(Worst(T), g[T \ {Worst(T)}])
      BY <1>2, <1>4
    <2>3. ASSUME T \ {Worst(T)} \in C PROVE T \in C
      <3>1. IsKept(g[T \ {Worst(T)}], T \ {Worst(T)})
        BY <2>3
      <3>2. \A c \in T : IsSlot(c)
        BY DEF AreCandidates
      <3>3. IsKept(Keep(Worst(T), g[T \ {Worst(T)}]), T)
        BY <2>1, <3>1, <3>2, KeepKeeps
      <3> QED BY <2>2, <3>3
    <2> QED BY <2>1, <2>3
  <1>5. SUBSET K \subseteq C
    <2> HIDE DEF C
    <2> QED BY <1>3, <1>4, TakingOut DEF AreCandidates
  <1> QED BY <1>1, <1>5

(* The list is cut to TopN.                                                *)
IsBestOf(offer_, K) ==
  /\ Len(offer_) <= TopN
  /\ \A i \in DOMAIN offer_ : offer_[i] \in K
  /\ \A i, j \in DOMAIN offer_ : i < j =>
        offer_[i].score >= offer_[j].score /\ ~Touch(offer_[i], offer_[j])
  /\ \A c \in K \ ToSet(offer_) :
        \/ \E k \in DOMAIN offer_ : offer_[k].score >= c.score /\ Touch(c, offer_[k])
        \/ Len(offer_) = TopN /\ \A k \in DOMAIN offer_ : offer_[k].score >= c.score

LEMMA CutIsBest ==
  ASSUME NEW K, AreCandidates(K), NEW kept, IsKept(kept, K), NEW n \in Nat, n = Len(kept),
         NEW m \in Nat, m <= n, m <= TopN, m = n \/ m = TopN
  PROVE  IsBestOf(SubSeq(kept, 1, m), K)
  <1> DEFINE list == SubSeq(kept, 1, m)
  <1>1. kept \in Seq(K) /\ DOMAIN kept = 1 .. n /\ \A i \in 1 .. n : kept[i] \in K
    BY DEF IsKept
  <1>2. \A i \in 1 .. m : i \in 1 .. n
    OBVIOUS
  <1>3. Len(list) = m /\ DOMAIN list = 1 .. m /\ \A i \in 1 .. m : list[i] = kept[i]
    BY <1>1, <1>2, CutAt
  <1> HIDE DEF list
  <1>4. \A i, j \in 1 .. n : i < j => kept[i].score >= kept[j].score /\ ~Touch(kept[i], kept[j])
    BY <1>1 DEF IsKept
  <1>5. \A i \in 1 .. n : kept[i].score \in Int
    BY <1>1 DEF AreCandidates, IsSlot
  <1>6. ASSUME NEW c \in K \ ToSet(list)
        PROVE  \/ \E k \in DOMAIN list : list[k].score >= c.score /\ Touch(c, list[k])
               \/ Len(list) = TopN /\ \A k \in DOMAIN list : list[k].score >= c.score
    <2>1. c.score \in Int
      BY DEF AreCandidates, IsSlot
    <2>2. PICK i \in 1 .. n : kept[i] = c \/ (kept[i].score >= c.score /\ Touch(c, kept[i]))
      BY <1>1 DEF IsKept
    <2>3. CASE i <= m
      <3>1. i \in 1 .. m
        BY <2>3
      <3>2. list[i] = kept[i] /\ list[i] \in ToSet(list)
        BY <1>3, <3>1 DEF ToSet
      <3> QED BY <1>3, <2>2, <3>1, <3>2
    <2>4. CASE i > m
      <3>1. m = TopN
        BY <2>4
      <3>2. ASSUME NEW k \in 1 .. m PROVE list[k].score >= c.score
        <4>1. k \in 1 .. n /\ k < i
          BY <1>2, <2>4
        <4>2. kept[k].score >= kept[i].score
          BY <1>4, <4>1
        <4>3. kept[k].score \in Int /\ kept[i].score \in Int
          BY <1>5, <4>1
        <4>4. kept[i].score >= c.score
          BY <2>1, <2>2, <4>3
        <4>5. kept[k].score >= c.score
          BY <2>1, <4>2, <4>3, <4>4
        <4> QED BY <1>3, <4>5
      <3> QED BY <1>3, <3>1, <3>2
    <2> QED BY <2>3, <2>4
  <1>7. \A i, j \in DOMAIN list : i < j => list[i].score >= list[j].score /\ ~Touch(list[i], list[j])
    BY <1>2, <1>3, <1>4
  <1>8. \A i \in DOMAIN list : list[i] \in K
    BY <1>1, <1>2, <1>3
  <1>9. IsBestOf(list, K)
    BY <1>3, <1>6, <1>7, <1>8 DEF IsBestOf
  <1> QED BY <1>9 DEF list

LEMMA ShortlistIsBest ==
  ASSUME NEW K, AreCandidates(K)
  PROVE  IsBestOf(Shortlist(K), K)
  <1>1. IsKept(Kept(K), K)
    BY KeptIsKept
  <1>2. Len(Kept(K)) \in Nat
    BY <1>1 DEF IsKept
  <1>3. PICK n \in Nat : n = Len(Kept(K))
    BY <1>2
  <1>4. TopN \in Nat
    BY AskAssumption
  <1>5. PICK m \in Nat : m = Shorter(TopN, n)
    BY <1>4 DEF Shorter
  <1>6. m <= n /\ m <= TopN /\ (m = n \/ m = TopN)
    BY <1>4, <1>5 DEF Shorter
  <1>7. IsBestOf(SubSeq(Kept(K), 1, m), K)
    BY <1>1, <1>3, <1>6, CutIsBest
  <1> QED BY <1>3, <1>5, <1>7 DEF Shortlist

-----------------------------------------------------------------------------
(* The two properties, for any ask of the bounds.                          *)

LEMMA SlotsInvInit == SlotsIdle => SlotsInv
  BY DEF SlotsIdle, SlotsInv

LEMMA SlotsInvStep == SlotsInv /\ [Propose]_slotVars => SlotsInv'
  <1> SUFFICES ASSUME SlotsInv, Propose \/ UNCHANGED slotVars PROVE SlotsInv'
    OBVIOUS
  <1>1. CASE Propose
    BY <1>1, Zenon DEF SlotsInv, Propose
  <1>2. CASE UNCHANGED slotVars
    BY <1>2, Zenon DEF SlotsInv, slotVars
  <1> QED BY <1>1, <1>2

LEMMA SlotsInvWindow == SlotsInv => LongestWindow
  <1> SUFFICES ASSUME SlotsInv, NEW day \in 0 .. ask.last
               PROVE  LET stretches == AwakeStretches(ask.group, day)
                          slots     == RawSlots(ask.group, day, ask.duration)
                      IN  IF stretches = {} THEN slots = {}
                          ELSE \E w \in stretches :
                                  /\ FirstOfLongest(w, stretches)
                                  /\ slots = {t \in w[1] .. w[2] - ask.duration : (t - w[1]) % Step = 0}
    BY DEF LongestWindow
  <1>1. IsAsk(ask)
    BY AskType DEF SlotsInv
  <1>2. ask.group \in Seq(Zones) /\ day \in Int /\ ask.duration \in Nat \ {0}
    BY <1>1 DEF IsAsk
  <1> QED BY <1>2, SlotsOfADate DEF WindowSlots

LEMMA SlotsInvBest == SlotsInv => OfferIsBest
  <1> SUFFICES ASSUME SlotsInv, answered PROVE OfferIsBest
    BY DEF OfferIsBest
  <1> DEFINE K == CandidatesOf(ask)
  <1>1. IsAsk(ask)
    BY AskType DEF SlotsInv
  <1>2. offer = Shortlist(K)
    BY DEF SlotsInv, FindCandidateSlots, CandidatesOf
  <1>3. AreCandidates(K)
    BY <1>1, CandidatesType
  <1>4. IsBestOf(offer, K)
    BY <1>2, <1>3, ShortlistIsBest
  <1>5. ASSUME NEW k \in DOMAIN offer PROVE RightlyMarked(offer[k])
    <2> DEFINE slot == offer[k]
    <2>1. slot \in K
      BY <1>4 DEF IsBestOf
    <2>2. PICK day \in Workdays(ask.last) : \E start \in RawSlots(ask.group, day, ask.duration) :
               slot = CandidateAt(ask, day, start)
      BY <1>1, <2>1, CandidatesType
    <2>3. PICK start \in RawSlots(ask.group, day, ask.duration) : slot = CandidateAt(ask, day, start)
      BY <2>2
    <2> DEFINE events == ask.calendar[day + 1]
    <2>4. /\ IsSlot(slot) /\ slot.day = day /\ slot.start = start
          /\ slot.move = Conflict(start, slot.end, Busy(events))
      BY <1>1, <2>3, CandidateFields
    <2>5. events \in Seq(Events)
      BY <1>1, EventsOfADate
    <2>6. start \in Int /\ slot.end \in Int /\ start < slot.end
      BY <2>4 DEF IsSlot
    <2> HIDE DEF slot, events
    <2>7. slot.move # None <=>
            \E i \in DOMAIN events :
               IsTimed(events[i]) /\ Overlap(slot.start, slot.end, events[i].start, events[i].end)
      BY <2>4, <2>5, <2>6, ConflictIsAnEvent
    <2>8. events = ask.calendar[slot.day + 1]
      BY <2>4 DEF events
    <2>9. RightlyMarked(slot)
      BY <2>7, <2>8 DEF RightlyMarked
    <2> QED BY <2>9 DEF slot
  <1>6. \A x, y : Touch(x, y) <=> Overlap(x.start, x.end, y.start, y.end)
    BY DEF Touch
  <1>7. K = SlotCandidates(ask.group, ask.last, ask.duration, ask.calendar)
    BY DEF CandidatesOf
  <1> QED BY <1>4, <1>5, <1>6, <1>7 DEF OfferIsBest, IsBestOf
===============================================================================
