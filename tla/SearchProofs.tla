---------------------------- MODULE SearchProofs ----------------------------
(***************************************************************************)
(* The search for weights, for any corpus, any caps, any grid and any      *)
(* number of trials and passes: no trial it rejected would have been the   *)
(* better choice (BestTrialSound), a descent that stops for want of an     *)
(* improvement stands at a local optimum (DescentsSettle), and every trial *)
(* is on the Pareto table or dominated there (FrontierCovers).  Last, the  *)
(* decision each trial and each request calls: it never drops below what   *)
(* fewer signals gave (VerdictNeverDrops).                                 *)
(*                                                                         *)
(*   TrackOK    the best of the loop that runs is a trial, with the matrix *)
(*              its weights give;                                          *)
(*   BestOK     the best over all loops has been tried, and nothing tried  *)
(*              has a higher score;                                        *)
(*   GatesOK    the baseline has been tried with every gate left behind;   *)
(*   SweepOK    a pass without an improvement has tried every move that    *)
(*              could have been one;                                       *)
(*   SettledOK  hence a descent that settled did so at a local optimum.    *)
(*                                                                         *)
(* Two definitions are folds or choices among finite sets, and what they   *)
(* yield is shown by a least counterexample: the order of the moves, which *)
(* FlattenSeq puts together, and the best member of a finite set.          *)
(***************************************************************************)
EXTENDS Search, Policy, SequenceTheorems, Induction

-----------------------------------------------------------------------------
(* Rates and scores. *)

Matrices == [Labels -> [{"allow", "warn", "block"} -> Nat]]

\* A whole multiple of 1/Unit, rounded down, of a part of a total.
LEMMA Share ==
  ASSUME NEW u \in Nat, NEW p \in Nat, NEW a \in Nat \ {0}, p <= a
  PROVE  (u * p) \div a \in 0..u
<1> DEFINE q == (u * p) \div a
<1>1. u * p \in Nat /\ u * p <= u * a
  OBVIOUS
<1>2. q \in Int /\ q >= 0
  BY <1>1
<1>3. a * q <= u * p
  BY <1>1
<1>4. q <= u
  <2> SUFFICES ASSUME q >= u + 1 PROVE FALSE
    BY <1>2
  <2> HIDE DEF q
  <2>1. a * q >= a * (u + 1)
    BY <1>2
  <2>2. a * (u + 1) = a * u + a /\ a * u = u * a
    OBVIOUS
  <2> QED
    BY <1>1, <1>2, <1>3, <2>1, <2>2
<1> QED
  BY <1>2, <1>4

LEMMA RateBounds ==
  ASSUME NEW met \in Matrices, NEW l \in Labels, NEW p \in Nat,
         p <= met[l]["allow"] + met[l]["warn"] + met[l]["block"]
  PROVE  Rate(p, met, l) \in 0..Unit
<1> DEFINE all == met[l]["allow"] + met[l]["warn"] + met[l]["block"]
<1>1. all \in Nat
  BY DEF Matrices
<1>2. Unit \in Nat
  BY SearchAssumption
<1>3. CASE all = 0
  BY <1>2, <1>3 DEF Rate
<1>4. CASE all # 0
  <2>1. Rate(p, met, l) = (Unit * p) \div all
    BY <1>4 DEF Rate
  <2> HIDE DEF all
  <2>2. all \in Nat \ {0} /\ p <= all
    BY <1>1, <1>4 DEF all
  <2> QED
    BY <1>2, <2>1, <2>2, Share
<1> QED
  BY <1>3, <1>4

LEMMA Rates ==
  ASSUME NEW met \in Matrices
  PROVE  HardFPRate(met) \in 0..Unit /\ SoftFPRate(met) \in 0..Unit /\ CatchRate(met) \in 0..Unit
<1>1. \A l \in Labels : /\ met[l]["allow"] \in Nat /\ met[l]["warn"] \in Nat
                        /\ met[l]["block"] \in Nat
  BY DEF Matrices
<1>2. "benign" \in Labels /\ "malicious" \in Labels
  BY DEF Labels
<1>3. HardFPRate(met) \in 0..Unit
  BY <1>1, <1>2, RateBounds DEF HardFPRate
<1>4. SoftFPRate(met) \in 0..Unit
  BY <1>1, <1>2, RateBounds DEF SoftFPRate
<1>5. CatchRate(met) \in 0..Unit
  BY <1>1, <1>2, RateBounds DEF CatchRate
<1> QED
  BY <1>3, <1>4, <1>5

LEMMA UnitFacts == Unit \in Nat \ {0} /\ Unit >= 100 /\ Unit % 100 = 0
BY SearchAssumption

LEMMA ScoreInt == ASSUME NEW met \in Matrices PROVE Score(met) \in Int
<1>1. /\ HardFPRate(met) \in Nat /\ SoftFPRate(met) \in Nat /\ CatchRate(met) \in Nat
      /\ MaxHardFPRate \in Int /\ MaxSoftFPRate \in Int /\ Unit \in Nat
  BY Rates, SearchAssumption
<1>2. (HardFPRate(met) > MaxHardFPRate) \in BOOLEAN /\ respectsObjective(met) \in BOOLEAN
  BY <1>1 DEF respectsObjective
<1>3. HardFPRate(met) <= MaxHardFPRate <=> ~(HardFPRate(met) > MaxHardFPRate)
  BY <1>1
<1> QED
  BY <1>1, <1>2, <1>3 DEF Score

\* Within the caps the score is the catch less a tenth of the warnings; outside
\* of them it is lower than any score within.
LEMMA ScoreOfFeasible ==
  ASSUME NEW met \in Matrices, respectsObjective(met)
  PROVE  /\ Score(met) = CatchRate(met) - SoftFPRate(met) \div 10
         /\ Score(met) >= 0 - Unit \div 10
<1>1. /\ HardFPRate(met) \in 0..Unit /\ SoftFPRate(met) \in 0..Unit /\ CatchRate(met) \in 0..Unit
      /\ MaxHardFPRate \in Int
  BY Rates, SearchAssumption
<1>2. ~(HardFPRate(met) > MaxHardFPRate)
  BY <1>1 DEF respectsObjective
<1>3. Score(met) = CatchRate(met) - SoftFPRate(met) \div 10
  BY <1>2 DEF Score
<1> QED
  BY <1>1, <1>3, UnitFacts

LEMMA ScoreOfInfeasible ==
  ASSUME NEW met \in Matrices, ~respectsObjective(met)
  PROVE  Score(met) < 0 - Unit \div 10
<1>1. /\ HardFPRate(met) \in 0..Unit /\ SoftFPRate(met) \in 0..Unit /\ CatchRate(met) \in 0..Unit
      /\ MaxHardFPRate \in Int
  BY Rates, SearchAssumption
<1>2. CatchRate(met) \div 100 <= Unit \div 100
  BY <1>1, UnitFacts
<1>3. CASE HardFPRate(met) > MaxHardFPRate
  <2>1. Score(met) = 0 - Unit - HardFPRate(met) + CatchRate(met) \div 100
    BY <1>1, <1>3 DEF Score
  <2> QED
    BY <1>1, <1>2, <2>1, UnitFacts
<1>4. CASE ~(HardFPRate(met) > MaxHardFPRate)
  <2>1. Score(met) = 0 - Unit \div 2 - SoftFPRate(met) + CatchRate(met) \div 100
    BY <1>1, <1>4 DEF Score
  <2> QED
    BY <1>1, <1>2, <2>1, UnitFacts
<1> QED
  BY <1>3, <1>4

\* What the highest score says of a trial.
LEMMA HighestScore ==
  ASSUME NEW b \in Matrices, NEW met \in Matrices, Score(met) <= Score(b), respectsObjective(met)
  PROVE  /\ respectsObjective(b)
         /\ SoftFPRate(met) <= SoftFPRate(b) => CatchRate(met) <= CatchRate(b)
<1>1. Score(met) \in Int /\ Score(b) \in Int /\ Unit \in Nat
  BY ScoreInt, UnitFacts
<1>2. respectsObjective(b)
  <2>1. ASSUME ~respectsObjective(b) PROVE FALSE
    <3>1. Score(b) < 0 - Unit \div 10
      BY <2>1, ScoreOfInfeasible
    <3>2. Score(met) >= 0 - Unit \div 10
      BY ScoreOfFeasible
    <3> QED
      BY <1>1, <3>1, <3>2
  <2> QED
    BY <2>1
<1>3. /\ Score(b) = CatchRate(b) - SoftFPRate(b) \div 10
      /\ Score(met) = CatchRate(met) - SoftFPRate(met) \div 10
  BY <1>2, ScoreOfFeasible
<1>4. /\ SoftFPRate(met) \in Nat /\ CatchRate(met) \in Nat
      /\ SoftFPRate(b) \in Nat /\ CatchRate(b) \in Nat
  BY Rates, UnitFacts
<1> QED
  BY <1>2, <1>3, <1>4

-----------------------------------------------------------------------------
(* The table of trade-offs. *)

\* How far a trial is from catching everything at no cost: less for a trial that
\* dominates another.
Cost(met) == Unit - CatchRate(met) + HardFPRate(met) + SoftFPRate(met)

LEMMA CostFacts ==
  ASSUME NEW a \in Matrices, NEW b \in Matrices
  PROVE  Cost(a) \in Nat /\ (dominatesTrial(a, b) => Cost(a) < Cost(b))
<1>1. \A met \in Matrices : /\ HardFPRate(met) \in 0..Unit /\ SoftFPRate(met) \in 0..Unit
                            /\ CatchRate(met) \in 0..Unit /\ Unit \in Nat
  BY Rates, UnitFacts
<1> QED
  BY <1>1 DEF Cost, dominatesTrial

LEMMA DominatesTransitive ==
  ASSUME NEW a \in Matrices, NEW b \in Matrices, NEW c \in Matrices,
         dominatesTrial(a, b), dominatesTrial(b, c)
  PROVE  dominatesTrial(a, c)
<1>1. \A met \in Matrices : /\ HardFPRate(met) \in Int /\ SoftFPRate(met) \in Int
                            /\ CatchRate(met) \in Int
  BY Rates, UnitFacts
<1> QED
  BY <1>1 DEF dominatesTrial

LEMMA SmallestCost ==
  ASSUME NEW D \in SUBSET Matrices, D # {}
  PROVE  \E d \in D : \A e \in D : Cost(d) <= Cost(e)
<1> DEFINE costs == {Cost(d) : d \in D}
<1>1. costs \in SUBSET Nat /\ costs # {}
  BY CostFacts
<1>2. PICK n \in costs : \A m \in costs : n <= m
  BY <1>1, LeastNumber
<1> QED
  BY <1>2

LEMMA FrontierComplete ==
  ASSUME log \subseteq Matrices
  PROVE  FrontierCovers
<1> SUFFICES ASSUME NEW met \in log, respectsObjective(met)
             PROVE  \E f \in Frontier : f = met \/ dominatesTrial(f, met)
  BY DEF FrontierCovers
<1> DEFINE D == {o \in log : respectsObjective(o) /\ (o = met \/ dominatesTrial(o, met))}
<1>1. D \in SUBSET Matrices /\ D # {}
  OBVIOUS
<1>2. PICK f \in D : \A e \in D : Cost(f) <= Cost(e)
  <2> HIDE DEF D
  <2> QED
    BY <1>1, SmallestCost
<1>3. ASSUME NEW other \in log, respectsObjective(other), dominatesTrial(other, f)
      PROVE  FALSE
  <2>1. other \in Matrices /\ f \in Matrices /\ met \in Matrices
    OBVIOUS
  <2>2. dominatesTrial(other, met)
    BY <1>3, <2>1, DominatesTransitive
  <2>3. other \in D
    BY <1>3, <2>2
  <2>4. Cost(other) < Cost(f) /\ Cost(other) \in Nat /\ Cost(f) \in Nat
    BY <1>3, <2>1, CostFacts
  <2>5. Cost(f) <= Cost(other)
    BY <1>2, <2>3
  <2> QED
    BY <2>4, <2>5
<1>4. f \in Frontier
  BY <1>3 DEF Frontier
<1> QED
  BY <1>4

-----------------------------------------------------------------------------
(* The inductive invariant. *)

Gates == Range(normalizeMinCategories)

IsTrial(t) ==
  /\ t.weights \in [DOMAIN Base -> Int] /\ t.allow \in Int /\ t.block \in Int
  /\ t.met = Evaluate(val, t.weights, t.allow, t.block, t.minCategories)

\* A descent begins with the first move of the first pass.
StageOK ==
  /\ stage \in {"split", "random", "descend", "baseline", "done"}
  /\ origin \in {"random", "baseline"} /\ improved \in BOOLEAN
  /\ drawn \in Nat
  /\ stage # "descend" => pass = 1 /\ position = 1 /\ ~improved /\ origin = "random"
  /\ pass \in 1..RefineSteps /\ position \in 1..(Len(Moves) + 1)

SplitOK ==
  /\ stage = "split" =>
       log = {} /\ best = << >> /\ descents = {} /\ drawn = 0 /\ gates = normalizeMinCategories
  /\ analysed \in Corpora /\ IsFiniteSet(DOMAIN val)

\* No trial ranks higher than the best.
BestOK ==
  /\ log \subseteq Matrices
  /\ best = << >> => log = {}
  /\ best # << >> =>
       best[1].met \in log /\ \A met \in log : Score(met) <= Score(best[1].met)

\* The baseline has been tried with each gate that is finished.
GatesOK ==
  /\ gates \in Seq(Gates) /\ (gates = << >> <=> stage = "done")
  /\ \A c \in Gates : c \in Range(gates) \/ buildBaselineSeed(c).met \in log
  /\ stage = "descend" /\ origin = "baseline" => buildBaselineSeed(Head(gates)).met \in log

TrackOK == stage = "descend" \/ (stage = "random" /\ drawn # 0) => IsTrial(track[1])

Tried(move) ==
  \/ Score(Moved(move).met) <= Score(track[1].met)
  \/ move.kind = "allow" /\ track[1].block <= move.value
  \/ move.kind = "block" /\ move.value <= track[1].allow

\* A pass without an improvement leaves out a weight's own value only: what the
\* sweep found when it began is still the weight of the best trial.
SweepOK ==
  stage = "descend" /\ ~improved =>
    /\ \A i \in 1..(position - 1) : Tried(Moves[i])
    /\ position <= Len(Moves) /\ Moves[position].kind = "weight" /\ ~Moves[position].first =>
         current = track[1].weights[Moves[position].key]

SettledOK == \A d \in descents : d.settled => LocalOptimum(d.trial)

IInv ==
  /\ StageOK /\ SplitOK /\ BestOK /\ GatesOK /\ TrackOK /\ SweepOK /\ SettledOK

LEMMA EvaluateMatrix ==
  ASSUME NEW runs, IsFiniteSet(DOMAIN runs), NEW w, NEW a, NEW b, NEW c
  PROVE  Evaluate(runs, w, a, b, c) \in Matrices
<1> DEFINE decided == [i \in DOMAIN runs |-> ApplyWithMinCategories(runs[i], w, a, b, c)]
           Of(l, v) == {i \in DOMAIN runs : runs[i].label = l /\ decided[i] = v}
<1>1. \A l, v : Cardinality(Of(l, v)) \in Nat
  <2> SUFFICES ASSUME NEW l, NEW v PROVE Cardinality(Of(l, v)) \in Nat
    OBVIOUS
  <2>1. Of(l, v) \in SUBSET DOMAIN runs
    OBVIOUS
  <2> HIDE DEF Of
  <2> QED
    BY <2>1, FS_Subset, FS_CardinalityType
<1>2. Evaluate(runs, w, a, b, c)
        = [l \in Labels |-> [v \in {"allow", "warn", "block"} |-> Cardinality(Of(l, v))]]
  BY DEF Evaluate
<1> HIDE DEF Of, decided
<1> QED
  BY <1>1, <1>2 DEF Matrices

\* A trial logged is not better than the best one kept.
LEMMA LoggedKeeps ==
  ASSUME BestOK, NEW t, t.met \in Matrices, Logged(t)
  PROVE  BestOK' /\ log \subseteq log' /\ t.met \in log' /\ best' # << >>
<1>1. log' = log \union {t.met}
  BY DEF Logged
<1>2. \A met \in Matrices : Score(met) \in Int
  BY ScoreInt
<1>3. CASE best = << >>
  <2>1. log = {} /\ best' = <<t>>
    BY <1>3 DEF Logged, BestOK
  <2>2. log' = {t.met} /\ best' # << >> /\ best'[1] = t
    BY <1>1, <2>1
  <2> QED
    BY <1>1, <1>2, <2>2 DEF BestOK
<1>4. CASE best # << >> /\ Better(t, best[1])
  <2>1. best' = <<t>>
    BY <1>4 DEF Logged
  <2>2. best' # << >> /\ best'[1] = t
    BY <2>1
  <2>3. \A met \in log : Score(met) <= Score(best[1].met)
    BY <1>4 DEF BestOK
  <2>4. Score(t.met) > Score(best[1].met) /\ best[1].met \in Matrices /\ log \subseteq Matrices
    BY <1>4 DEF Better, BestOK
  <2>5. \A met \in log' : Score(met) <= Score(t.met)
    BY <1>1, <1>2, <2>3, <2>4
  <2> QED
    BY <1>1, <2>2, <2>4, <2>5 DEF BestOK
<1>5. CASE best # << >> /\ ~Better(t, best[1])
  <2>1. best' = best
    BY <1>5 DEF Logged
  <2>2. \A met \in log : Score(met) <= Score(best[1].met)
    BY <1>5 DEF BestOK
  <2>3. ~(Score(t.met) > Score(best[1].met)) /\ best[1].met \in log /\ log \subseteq Matrices
    BY <1>5 DEF Better, BestOK
  <2>4. \A met \in log' : Score(met) <= Score(best[1].met)
    BY <1>1, <1>2, <2>2, <2>3
  <2> QED
    BY <1>1, <1>5, <2>1, <2>3, <2>4 DEF BestOK
<1> QED
  BY <1>3, <1>4, <1>5

\* The gates are a sequence of at least one.
LEMMA GatesFacts ==
  normalizeMinCategories \in Seq(Gates) /\ normalizeMinCategories # << >>
<1> DEFINE G == Range(Candidates) \intersect Nat
           Given == IF G = {} THEN {BaseCategories} ELSE G
           n == Cardinality(Given)
<1>1. IsFiniteSet(Given) /\ Given # {}
  <2>1. IsFiniteSet(Range(Candidates))
    <3>1. IsFiniteSet(1..Len(Candidates)) /\ Range(Candidates) = {Candidates[i] : i \in 1..Len(Candidates)}
      <4>1. Candidates \in Seq(Int)
        BY SearchAssumption
      <4>2. DOMAIN Candidates = 1..Len(Candidates) /\ Len(Candidates) \in Nat
        BY ONLY <4>1
      <4>3. Range(Candidates) = {Candidates[i] : i \in 1..Len(Candidates)}
        BY ONLY <4>2, Zenon DEF Range
      <4> QED
        BY <4>2, <4>3, FS_Interval
    <3> DEFINE f == [i \in 1..Len(Candidates) |-> Candidates[i]]
    <3>2. f \in Surjection(1..Len(Candidates), Range(Candidates))
      BY <3>1 DEF Surjection
    <3> QED
      BY <3>1, <3>2, FS_Surjection
  <2>2. IsFiniteSet(G)
    BY <2>1, FS_Subset
  <2>3. IsFiniteSet({BaseCategories})
    BY FS_Singleton
  <2> QED
    BY <2>2, <2>3
<1> HIDE DEF Given
<1>2. normalizeMinCategories
        = [i \in 1..n |-> CHOOSE x \in Given :
               Cardinality({y \in Given : [c \in Given |-> c][y] < [c \in Given |-> c][x]}) = i - 1]
  BY DEF normalizeMinCategories, Sorted, Given
<1>3. n \in Nat /\ n > 0
  BY <1>1, FS_CardinalityType, FS_EmptySet
<1> HIDE DEF n
<1>4. \A i \in 1..n : normalizeMinCategories[i] \in Gates
  BY <1>2 DEF Gates, Range
<1>5. normalizeMinCategories \in [1..n -> Gates]
  BY <1>2, <1>4
<1> QED
  BY <1>3, <1>5

LEMMA SplitFinite ==
  ASSUME analysed \in Corpora, NEW order \in Orders
  PROVE  IsFiniteSet(DOMAIN Split(order))
<1> DEFINE group(l) == Sorted(OfLabel(l), [r \in OfLabel(l) |-> r.sha])
           spent(l) == IF l = order[1] THEN 0 ELSE Len(group(order[1]))
           shuffled(l) == [i \in DOMAIN group(l) |->
                             group(l)[Shuffle(spent(l), Len(group(l)))[i]]]
           part(l) == SubSeq(shuffled(l), 1, (Len(group(l)) * ValNum) \div ValDen)
           X == UNION {Range(shuffled(l)) : l \in Labels}
<1>1. \A l \in Labels : part(l) \in Seq(X)
  <2> SUFFICES ASSUME NEW l \in Labels PROVE part(l) \in Seq(X)
    OBVIOUS
  <2> DEFINE n == Cardinality(OfLabel(l))
             t == shuffled(l)
  <2>1. n \in Nat
    BY CorpusAssumption, FS_Subset, FS_CardinalityType DEF OfLabel
  <2>2. group(l) = [i \in 1..n |-> CHOOSE x \in OfLabel(l) :
                        Cardinality({y \in OfLabel(l) : [r \in OfLabel(l) |-> r.sha][y]
                                                      < [r \in OfLabel(l) |-> r.sha][x]}) = i - 1]
    BY DEF Sorted
  <2>3. DOMAIN group(l) = 1..n
    BY <2>2
  <2> HIDE DEF n
  <2>4. Len(group(l)) = n
    <3> HIDE DEF group
    <3> QED
      BY <2>1, <2>2
  <2> DEFINE m == (n * ValNum) \div ValDen
  <2>5. m \in 0..n
    BY <2>1, CorpusAssumption, Share
  <2>6. t \in [1..n -> X]
    <3>1. t = [i \in 1..n |-> group(l)[Shuffle(spent(l), Len(group(l)))[i]]]
      BY <2>3
    <3>2. Range(t) \subseteq X
      <4> HIDE DEF shuffled
      <4> QED
        OBVIOUS
    <3> HIDE DEF t, X, group, spent
    <3>3. DOMAIN t = 1..n
      BY <3>1
    <3>4. \A i \in 1..n : t[i] \in X
      BY <3>2, <3>3 DEF Range
    <3> QED
      BY <3>1, <3>4
  <2>7. part(l) = SubSeq(t, 1, m)
    BY <2>4
  <2> HIDE DEF t, m, part, X
  <2>8. t \in Seq(X) /\ Len(t) = n
    BY <2>1, <2>6
  <2>9. \A i \in 1..m : t[i] \in X
    BY <2>1, <2>5, <2>6
  <2> QED
    BY <2>1, <2>5, <2>7, <2>8, <2>9, SubSeqProperties
<1>2. order[1] \in Labels /\ order[2] \in Labels
  BY DEF Orders, Labels
<1>3. Split(order) = part(order[1]) \o part(order[2])
  BY DEF Split
<1> HIDE DEF part, X
<1>4. Split(order) \in Seq(X)
  BY <1>1, <1>2, <1>3, ConcatProperties
<1>5. Len(Split(order)) \in Nat /\ DOMAIN Split(order) = 1..Len(Split(order))
  BY <1>4, LenProperties
<1> QED
  BY <1>5, FS_Interval

-----------------------------------------------------------------------------
(* Flattening a sequence of sequences. *)

IsFlatten(g, s, n) == g = [i \in 1..n |-> IF i = 1 THEN s[i] ELSE g[i - 1] \o s[i]]

\* FlattenSeq by the function that it is.
LEMMA FlattenByFunction ==
  ASSUME NEW s, Len(s) # 0
  PROVE  FlattenSeq(s) = (CHOOSE g : IsFlatten(g, s, Len(s)))[Len(s)]
BY DEF FlattenSeq, IsFlatten

\* That function exists: one that is too short for the first time can be extended.
LEMMA FlattenExists ==
  ASSUME NEW s, NEW n \in Nat \ {0}
  PROVE  \E g : IsFlatten(g, s, n)
<1> DEFINE Bad == {m \in Nat \ {0} : ~ \E g : IsFlatten(g, s, m)}
<1>1. SUFFICES ASSUME Bad # {} PROVE FALSE
  OBVIOUS
<1>2. PICK m \in Bad : \A k \in Bad : m <= k
  <2>1. Bad \in SUBSET Nat
    OBVIOUS
  <2> HIDE DEF Bad
  <2> QED
    BY <2>1, <1>1, LeastNumber
<1>3. m \in Nat \ {0} /\ ~ \E g : IsFlatten(g, s, m)
  OBVIOUS
<1>4. CASE m = 1
  <2> DEFINE h == [i \in 1..1 |-> s[i]]
  <2>1. h = [i \in 1..m |-> IF i = 1 THEN s[i] ELSE h[i - 1] \o s[i]]
    BY <1>4
  <2> HIDE DEF h
  <2> QED
    BY <1>3, <2>1 DEF IsFlatten
<1>5. CASE m # 1
  <2>1. m - 1 \in Nat \ {0} /\ m - 1 \notin Bad
    BY <1>2, <1>3, <1>5
  <2>2. PICK g : IsFlatten(g, s, m - 1)
    BY <2>1
  <2>3. \A i \in 1..(m - 1) : g[i] = IF i = 1 THEN s[i] ELSE g[i - 1] \o s[i]
    BY <2>2 DEF IsFlatten
  <2> DEFINE h == [i \in 1..m |-> IF i = m THEN g[m - 1] \o s[m] ELSE g[i]]
  <2>4. \A i \in 1..m : h[i] = IF i = 1 THEN s[i] ELSE h[i - 1] \o s[i]
    <3> SUFFICES ASSUME NEW i \in 1..m
                 PROVE  h[i] = IF i = 1 THEN s[i] ELSE h[i - 1] \o s[i]
      OBVIOUS
    <3>1. CASE i = m
      <4>1. m - 1 \in 1..m /\ m - 1 # m
        BY <1>3, <1>5
      <4>2. h[m - 1] = g[m - 1] /\ h[i] = g[m - 1] \o s[m]
        BY <3>1, <4>1
      <4> HIDE DEF h
      <4> QED
        BY <1>5, <3>1, <4>2
    <3>2. CASE i # m
      <4>1. i \in 1..(m - 1) /\ h[i] = g[i]
        BY <1>3, <3>2
      <4>2. i # 1 => h[i - 1] = g[i - 1]
        BY <1>3, <3>2
      <4> HIDE DEF h
      <4> QED
        BY <2>3, <4>1, <4>2
    <3> QED
      BY <3>1, <3>2
  <2>5. h = [i \in 1..m |-> h[i]]
    OBVIOUS
  <2> HIDE DEF h
  <2>6. IsFlatten(h, s, m)
    BY <2>4, <2>5 DEF IsFlatten
  <2> QED
    BY <1>3, <2>6
<1> QED
  BY <1>4, <1>5

\* r is made of the first n members of s: every place of it is a place of one of
\* them, with the same one before it, and every place of them is in it.
Made(r, s, n) ==
  /\ \A p \in 1..Len(r) : \E k \in 1..n : \E q \in 1..Len(s[k]) :
       /\ r[p] = s[k][q]
       /\ q = 1 \/ (p - 1 \in 1..Len(r) /\ r[p - 1] = s[k][q - 1])
  /\ \A k \in 1..n : \A q \in 1..Len(s[k]) : \E p \in 1..Len(r) : r[p] = s[k][q]

LEMMA MadeOne ==
  ASSUME NEW M, NEW s \in Seq(Seq(M)), Len(s) # 0
  PROVE  s[1] \in Seq(M) /\ Made(s[1], s, 1)
<1>1. s[1] \in Seq(M)
  BY ElementOfSeq
<1>2. Len(s[1]) \in Nat
  BY <1>1
<1> QED
  BY <1>1, <1>2 DEF Made

\* Where the places of two sequences are in their concatenation.
LEMMA ConcatPlaces ==
  ASSUME NEW M, NEW r \in Seq(M), NEW t \in Seq(M)
  PROVE  /\ \A p \in 1..Len(r) : p \in 1..Len(r \o t) /\ (r \o t)[p] = r[p]
         /\ \A q \in 1..Len(t) : q + Len(r) \in 1..Len(r \o t) /\ (r \o t)[q + Len(r)] = t[q]
<1> DEFINE u == r \o t
<1>2. /\ u \in Seq(M) /\ Len(u) = Len(r) + Len(t)
      /\ Len(r) \in Nat /\ Len(t) \in Nat
      /\ \A p \in 1..(Len(r) + Len(t)) : u[p] = IF p <= Len(r) THEN r[p] ELSE t[p - Len(r)]
  BY ConcatProperties
<1> HIDE DEF u
<1>6. \A p \in 1..Len(r) : p \in 1..Len(u) /\ u[p] = r[p]
  BY <1>2
<1>7. \A q \in 1..Len(t) : q + Len(r) \in 1..Len(u) /\ u[q + Len(r)] = t[q]
  <2> SUFFICES ASSUME NEW q \in 1..Len(t)
               PROVE  q + Len(r) \in 1..Len(u) /\ u[q + Len(r)] = t[q]
    OBVIOUS
  <2> DEFINE p == q + Len(r)
  <2>1. p \in 1..(Len(r) + Len(t)) /\ ~(p <= Len(r)) /\ p - Len(r) = q
    BY <1>2
  <2> HIDE DEF p
  <2>2. u[p] = t[q]
    BY <1>2, <2>1
  <2> QED
    BY <1>2, <2>1, <2>2 DEF p
<1> QED
  BY <1>6, <1>7 DEF u

LEMMA MadeStep ==
  ASSUME NEW M, NEW s \in Seq(Seq(M)), NEW n \in Nat \ {0}, n + 1 <= Len(s),
         NEW r \in Seq(M), Made(r, s, n)
  PROVE  r \o s[n + 1] \in Seq(M) /\ Made(r \o s[n + 1], s, n + 1)
<1> DEFINE t == s[n + 1]
           u == r \o t
<1>1. t \in Seq(M)
  BY ElementOfSeq
<1> HIDE DEF t
<1>2. u \in Seq(M) /\ Len(u) = Len(r) + Len(t) /\ Len(r) \in Nat /\ Len(t) \in Nat
  BY <1>1, ConcatProperties
<1>6. /\ \A p \in 1..Len(r) : p \in 1..Len(u) /\ u[p] = r[p]
      /\ \A q \in 1..Len(t) : q + Len(r) \in 1..Len(u) /\ u[q + Len(r)] = t[q]
  BY <1>1, ConcatPlaces
<1> HIDE DEF u
<1>3. ASSUME NEW p \in 1..Len(u)
      PROVE  \E k \in 1..(n + 1) : \E q \in 1..Len(s[k]) :
               /\ u[p] = s[k][q]
               /\ q = 1 \/ (p - 1 \in 1..Len(u) /\ u[p - 1] = s[k][q - 1])
  <2>1. CASE p <= Len(r)
    <3>1. p \in 1..Len(r) /\ u[p] = r[p]
      BY <1>2, <1>6, <2>1
    <3> DEFINE From(k, q) == /\ r[p] = s[k][q]
                             /\ q = 1 \/ (p - 1 \in 1..Len(r) /\ r[p - 1] = s[k][q - 1])
    <3>5. PICK k \in 1..n : \E q \in 1..Len(s[k]) : From(k, q)
      BY <3>1 DEF Made
    <3>2. PICK q \in 1..Len(s[k]) : From(k, q)
      BY <3>5
    <3>3. p - 1 \in 1..Len(r) => p - 1 \in 1..Len(u) /\ u[p - 1] = r[p - 1]
      BY <1>6
    <3>4. k \in 1..(n + 1)
      OBVIOUS
    <3> QED
      BY <3>1, <3>2, <3>3, <3>4
  <2>2. CASE p > Len(r)
    <3> DEFINE q == p - Len(r)
    <3>1. q \in 1..Len(t) /\ n + 1 \in 1..(n + 1) /\ q + Len(r) = p
      BY <1>2, <2>2
    <3>3. u[p] = t[q]
      BY <1>6, <3>1
    <3>2. q # 1 => p - 1 \in 1..Len(u) /\ u[p - 1] = t[q - 1]
      <4> SUFFICES ASSUME q # 1 PROVE p - 1 \in 1..Len(u) /\ u[p - 1] = t[q - 1]
        OBVIOUS
      <4>1. q - 1 \in 1..Len(t) /\ (q - 1) + Len(r) = p - 1
        BY <1>2, <2>2, <3>1
      <4> QED
        BY <1>6, <4>1
    <3> HIDE DEF q
    <3> QED
      BY <3>1, <3>2, <3>3 DEF t
  <2> QED
    BY <1>2, <2>1, <2>2
<1>4. ASSUME NEW k \in 1..(n + 1), NEW q \in 1..Len(s[k])
      PROVE  \E p \in 1..Len(u) : u[p] = s[k][q]
  <2>1. CASE k \in 1..n
    <3>1. PICK p \in 1..Len(r) : r[p] = s[k][q]
      BY <2>1 DEF Made
    <3>2. p \in 1..Len(u) /\ u[p] = r[p]
      BY <1>6
    <3> QED
      BY <3>1, <3>2
  <2>2. CASE k = n + 1
    <3>1. q \in 1..Len(t) /\ s[k][q] = t[q]
      BY <2>2 DEF t
    <3>2. q + Len(r) \in 1..Len(u) /\ u[q + Len(r)] = t[q]
      BY <1>6, <3>1
    <3> QED
      BY <3>1, <3>2
  <2> QED
    BY <2>1, <2>2
<1>5. Made(u, s, n + 1)
  BY <1>3, <1>4 DEF Made
<1> QED
  BY <1>2, <1>5 DEF t, u

LEMMA FlattenMade ==
  ASSUME NEW M, NEW s \in Seq(Seq(M))
  PROVE  FlattenSeq(s) \in Seq(M) /\ Made(FlattenSeq(s), s, Len(s))
<1>1. Len(s) \in Nat
  OBVIOUS
<1>2. CASE Len(s) = 0
  <2>1. FlattenSeq(s) = s /\ s = << >>
    BY <1>2 DEF FlattenSeq
  <2> QED
    BY <1>2, <2>1 DEF Made
<1>3. CASE Len(s) # 0
  <2>1. PICK g : g = (CHOOSE h : IsFlatten(h, s, Len(s))) /\ IsFlatten(g, s, Len(s))
    BY <1>1, <1>3, FlattenExists
  <2>2. FlattenSeq(s) = g[Len(s)]
    BY <1>3, <2>1, FlattenByFunction
  <2>3. \A i \in 1..Len(s) : g[i] = IF i = 1 THEN s[i] ELSE g[i - 1] \o s[i]
    BY <2>1 DEF IsFlatten
  <2> DEFINE Bad == {i \in 1..Len(s) : ~(g[i] \in Seq(M) /\ Made(g[i], s, i))}
  <2>4. Bad = {}
    <3>1. SUFFICES ASSUME Bad # {} PROVE FALSE
      OBVIOUS
    <3>2. PICK i \in Bad : \A j \in Bad : i <= j
      <4>1. Bad \in SUBSET Nat
        BY <1>1
      <4> HIDE DEF Bad
      <4> QED
        BY <4>1, <3>1, LeastNumber
    <3>3. i \in 1..Len(s) /\ ~(g[i] \in Seq(M) /\ Made(g[i], s, i))
      OBVIOUS
    <3>4. CASE i = 1
      BY <1>3, <2>3, <3>3, <3>4, MadeOne
    <3>5. CASE i # 1
      <4> DEFINE n == i - 1
      <4>1. n \in 1..Len(s) /\ n \in Nat \ {0} /\ n + 1 = i /\ n \notin Bad
        BY <1>1, <3>2, <3>3, <3>5
      <4>2. g[n] \in Seq(M) /\ Made(g[n], s, n)
        BY <4>1
      <4>3. g[i] = g[n] \o s[i]
        BY <2>3, <3>3, <3>5
      <4> HIDE DEF n, Bad
      <4>4. g[n] \o s[n + 1] \in Seq(M) /\ Made(g[n] \o s[n + 1], s, n + 1)
        BY <1>1, <3>3, <4>1, <4>2, MadeStep
      <4> QED
        BY <3>3, <4>1, <4>3, <4>4
    <3> QED
      BY <3>4, <3>5
  <2>5. Len(s) \in 1..Len(s)
    BY <1>1, <1>3
  <2> QED
    BY <2>2, <2>4, <2>5
<1> QED
  BY <1>2, <1>3

-----------------------------------------------------------------------------
(* The moves of a pass. *)

MoveSet == [kind : {"weight", "allow", "block"}, key : DOMAIN Base \union {""},
            value : Int, first : BOOLEAN]

\* A grid is a sequence, and no step between its bounds is missing.
LEMMA GridFacts ==
  ASSUME NEW low \in Int, NEW high \in Int
  PROVE  /\ GridOf(low, high) \in Seq(Int)
         /\ \A v \in GridPoints(low, high) :
              \E i \in 1..Len(GridOf(low, high)) : GridOf(low, high)[i] = v
<1> DEFINE n == (high - low) \div StepSize + 1
           g == [i \in 1..n |-> low + (i - 1) * StepSize]
<1>1. StepSize \in Nat \ {0} /\ n \in Int
  BY SearchAssumption
<1>2. GridOf(low, high) = g
  BY DEF GridOf
<1>3. \A i \in 1..n : low + (i - 1) * StepSize \in Int
  BY <1>1
<1>4. \E m \in Nat : 1..n = 1..m
  <2>1. CASE n >= 0
    BY <1>1, <2>1
  <2>2. CASE n < 0
    <3>1. 1..n = 1..0
      BY <1>1, <2>2
    <3> QED
      BY <3>1
  <2> QED
    BY <1>1, <2>1, <2>2
<1>5. g \in Seq(Int) /\ 1..Len(g) = 1..n
  <2>1. PICK m \in Nat : 1..n = 1..m
    BY <1>4
  <2>2. g \in [1..m -> Int] /\ DOMAIN g = 1..n
    BY <1>3, <2>1
  <2> HIDE DEF g, n
  <2>3. g \in Seq(Int) /\ Len(g) = m
    BY <2>2
  <2> QED
    BY <2>1, <2>3
<1>6. ASSUME NEW v \in GridPoints(low, high)
      PROVE  \E i \in 1..n : g[i] = v
  <2> DEFINE d == v - low
             j == d \div StepSize
  <2>1. d \in Nat /\ d <= high - low /\ d % StepSize = 0
    BY <1>1 DEF GridPoints
  <2>2. j \in Nat /\ d = StepSize * j
    <3> HIDE DEF d
    <3> QED
      BY <1>1, <2>1
  <2>3. j <= (high - low) \div StepSize
    <3> DEFINE e == high - low
               k == e \div StepSize
    <3>1. e \in Nat /\ d <= e
      BY <2>1
    <3> HIDE DEF d, e, j
    <3>2. k \in Nat /\ e < StepSize * (k + 1)
      BY <1>1, <3>1
    <3> HIDE DEF k
    <3>3. StepSize * j < StepSize * (k + 1)
      BY <1>1, <2>2, <2>1, <3>1, <3>2
    <3>4. j < k + 1
      BY <1>1, <2>2, <3>2, <3>3
    <3> QED
      BY <2>2, <3>2, <3>4 DEF k, e
  <2> HIDE DEF j
  <2>4. j + 1 \in 1..n
    BY <1>1, <2>2, <2>3
  <2>5. g[j + 1] = low + j * StepSize
    BY <2>2, <2>4
  <2>6. low + j * StepSize = v
    BY <1>1, <2>1, <2>2 DEF GridPoints
  <2> QED
    BY <2>4, <2>5, <2>6
<1> QED
  BY <1>2, <1>5, <1>6

IsMove(m, kind, key, value, i) ==
  m.kind = kind /\ m.key = key /\ m.value = value /\ (i = 1 => m.first)

LEMMA SeqOfFunction ==
  ASSUME NEW M, NEW n \in Nat, NEW f \in [1..n -> M]
  PROVE  f \in Seq(M) /\ Len(f) = n
OBVIOUS

LEMMA SweepFacts ==
  ASSUME NEW kind \in {"weight", "allow", "block"}, NEW key \in DOMAIN Base \union {""},
         NEW grid \in Seq(Int)
  PROVE  /\ MovesOn(kind, key, grid) \in Seq(MoveSet)
         /\ Len(MovesOn(kind, key, grid)) = Len(grid)
         /\ \A i \in 1..Len(grid) : IsMove(MovesOn(kind, key, grid)[i], kind, key, grid[i], i)
<1> DEFINE s == MovesOn(kind, key, grid)
           n == Len(grid)
           move(i) == [kind |-> kind, key |-> key, value |-> grid[i], first |-> i = 1]
<1>1. n \in Nat /\ DOMAIN grid = 1..n /\ \A i \in 1..n : grid[i] \in Int
  BY LenProperties, ElementOfSeq
<1>2. s = [i \in 1..n |-> move(i)]
  BY <1>1 DEF MovesOn
<1>3. \A i \in 1..n : move(i) \in MoveSet /\ IsMove(move(i), kind, key, grid[i], i)
  <2> SUFFICES ASSUME NEW i \in 1..n
               PROVE  move(i) \in MoveSet /\ IsMove(move(i), kind, key, grid[i], i)
    OBVIOUS
  <2>1. grid[i] \in Int
    BY <1>1
  <2>2. (i = 1) \in BOOLEAN
    OBVIOUS
  <2>3. move(i) \in MoveSet
    BY <2>1, <2>2, Zenon DEF MoveSet
  <2>4. IsMove(move(i), kind, key, grid[i], i)
    BY Zenon DEF IsMove
  <2> QED
    BY <2>3, <2>4
<1> HIDE DEF move
<1>4. s \in [1..n -> MoveSet]
  BY <1>2, <1>3
<1>5. \A i \in 1..n : IsMove(s[i], kind, key, grid[i], i)
  BY <1>2, <1>3
<1> HIDE DEF s
<1>6. s \in Seq(MoveSet) /\ Len(s) = n
  <2>1. n \in Nat
    BY <1>1
  <2> HIDE DEF n
  <2> QED
    BY ONLY <2>1, <1>4, SeqOfFunction
<1> QED
  BY <1>5, <1>6 DEF s

\* Every value of every weight and threshold comes in a pass, and the moves of a
\* sweep follow one another.
LEMMA MovesFacts ==
  /\ Moves \in Seq(MoveSet)
  /\ \A p \in 1..Len(Moves) : Moves[p].kind = "weight" => Moves[p].key \in DOMAIN Base
  /\ \A p \in 1..Len(Moves) : Moves[p].kind = "weight" /\ ~Moves[p].first =>
       /\ p - 1 \in 1..Len(Moves)
       /\ Moves[p - 1].kind = "weight" /\ Moves[p - 1].key = Moves[p].key
  /\ \A k \in Range(TunableRules), v \in GridPoints(WeightMin, WeightMax) :
       \E p \in 1..Len(Moves) :
         Moves[p].kind = "weight" /\ Moves[p].key = k /\ Moves[p].value = v
  /\ \A v \in GridPoints(AllowRange[1], AllowRange[2]) :
       \E p \in 1..Len(Moves) : Moves[p].kind = "allow" /\ Moves[p].value = v
  /\ \A v \in GridPoints(BlockRange[1], BlockRange[2]) :
       \E p \in 1..Len(Moves) : Moves[p].kind = "block" /\ Moves[p].value = v
<1> DEFINE grid == GridOf(WeightMin, WeightMax)
           sweeps == [i \in DOMAIN TunableRules |-> MovesOn("weight", TunableRules[i], grid)]
           f == FlattenSeq(sweeps)
           a == MovesOn("allow", "", GridOf(AllowRange[1], AllowRange[2]))
           b == MovesOn("block", "", GridOf(BlockRange[1], BlockRange[2]))
           K == Len(TunableRules)
<1>1. /\ WeightMin \in Int /\ WeightMax \in Int
      /\ AllowRange[1] \in Int /\ AllowRange[2] \in Int
      /\ BlockRange[1] \in Int /\ BlockRange[2] \in Int
      /\ K \in Nat /\ DOMAIN TunableRules = 1..K
      /\ \A k \in 1..K : TunableRules[k] \in DOMAIN Base
  BY WeightAssumption
<1>2. /\ grid \in Seq(Int)
      /\ \A v \in GridPoints(WeightMin, WeightMax) : \E i \in 1..Len(grid) : grid[i] = v
  BY <1>1, GridFacts
<1> HIDE DEF grid
<1>3. \A k \in 1..K :
        /\ sweeps[k] \in Seq(MoveSet) /\ Len(sweeps[k]) = Len(grid)
        /\ \A i \in 1..Len(grid) : IsMove(sweeps[k][i], "weight", TunableRules[k], grid[i], i)
  <2> SUFFICES ASSUME NEW k \in 1..K
               PROVE  /\ sweeps[k] \in Seq(MoveSet) /\ Len(sweeps[k]) = Len(grid)
                      /\ \A i \in 1..Len(grid) :
                           IsMove(sweeps[k][i], "weight", TunableRules[k], grid[i], i)
    OBVIOUS
  <2> DEFINE t == MovesOn("weight", TunableRules[k], grid)
  <2>1. sweeps[k] = t /\ TunableRules[k] \in DOMAIN Base
    BY <1>1
  <2>2. /\ t \in Seq(MoveSet) /\ Len(t) = Len(grid)
        /\ \A i \in 1..Len(grid) : IsMove(t[i], "weight", TunableRules[k], grid[i], i)
    BY <1>2, <2>1, SweepFacts
  <2> HIDE DEF t, sweeps
  <2> QED
    BY <2>1, <2>2
<1>4. sweeps \in Seq(Seq(MoveSet)) /\ Len(sweeps) = K
  <2>1. sweeps \in [1..K -> Seq(MoveSet)]
    <3>1. \A k \in 1..K : sweeps[k] \in Seq(MoveSet)
      BY <1>3
    <3>2. sweeps = [k \in 1..K |-> sweeps[k]]
      BY <1>1
    <3> HIDE DEF sweeps
    <3> QED
      BY <3>1, <3>2
  <2> HIDE DEF sweeps
  <2> QED
    BY <1>1, <2>1
<1> HIDE DEF sweeps
<1>5. f \in Seq(MoveSet) /\ Made(f, sweeps, K)
  BY <1>4, FlattenMade
<1>6. /\ a \in Seq(MoveSet) /\ \A i \in 1..Len(a) : a[i].kind = "allow"
      /\ \A v \in GridPoints(AllowRange[1], AllowRange[2]) : \E i \in 1..Len(a) : a[i].value = v
  <2> DEFINE g == GridOf(AllowRange[1], AllowRange[2])
  <2>1. /\ g \in Seq(Int)
        /\ \A v \in GridPoints(AllowRange[1], AllowRange[2]) : \E i \in 1..Len(g) : g[i] = v
    BY <1>1, GridFacts, ZenonT(30)
  <2> HIDE DEF g
  <2>2. /\ a \in Seq(MoveSet) /\ Len(a) = Len(g)
        /\ \A i \in 1..Len(g) : IsMove(a[i], "allow", "", g[i], i)
    <3>1. a = MovesOn("allow", "", g)
      BY DEF g
    <3> HIDE DEF a
    <3>2. /\ MovesOn("allow", "", g) \in Seq(MoveSet) /\ Len(MovesOn("allow", "", g)) = Len(g)
          /\ \A i \in 1..Len(g) : IsMove(MovesOn("allow", "", g)[i], "allow", "", g[i], i)
      BY <2>1, SweepFacts
    <3> QED
      BY <3>1, <3>2
  <2> HIDE DEF a
  <2>3. \A i \in 1..Len(a) : a[i].kind = "allow" /\ a[i].value = g[i]
    BY <2>2 DEF IsMove
  <2>4. \A v \in GridPoints(AllowRange[1], AllowRange[2]) : \E i \in 1..Len(a) : g[i] = v
    BY <2>1, <2>2
  <2> QED
    BY <2>2, <2>3, <2>4
<1>7. /\ b \in Seq(MoveSet) /\ \A i \in 1..Len(b) : b[i].kind = "block"
      /\ \A v \in GridPoints(BlockRange[1], BlockRange[2]) : \E i \in 1..Len(b) : b[i].value = v
  <2> DEFINE g == GridOf(BlockRange[1], BlockRange[2])
  <2>1. /\ g \in Seq(Int)
        /\ \A v \in GridPoints(BlockRange[1], BlockRange[2]) : \E i \in 1..Len(g) : g[i] = v
    BY <1>1, GridFacts, ZenonT(30)
  <2> HIDE DEF g
  <2>2. /\ b \in Seq(MoveSet) /\ Len(b) = Len(g)
        /\ \A i \in 1..Len(g) : IsMove(b[i], "block", "", g[i], i)
    <3>1. b = MovesOn("block", "", g)
      BY DEF g
    <3> HIDE DEF b
    <3>2. /\ MovesOn("block", "", g) \in Seq(MoveSet) /\ Len(MovesOn("block", "", g)) = Len(g)
          /\ \A i \in 1..Len(g) : IsMove(MovesOn("block", "", g)[i], "block", "", g[i], i)
      BY <2>1, SweepFacts
    <3> QED
      BY <3>1, <3>2
  <2> HIDE DEF b
  <2>3. \A i \in 1..Len(b) : b[i].kind = "block" /\ b[i].value = g[i]
    BY <2>2 DEF IsMove
  <2>4. \A v \in GridPoints(BlockRange[1], BlockRange[2]) : \E i \in 1..Len(b) : g[i] = v
    BY <2>1, <2>2
  <2> QED
    BY <2>2, <2>3, <2>4
<1>8. Moves = (f \o a) \o b
  BY DEF Moves, sweeps, grid
<1> HIDE DEF f, a, b
<1>9. /\ Moves \in Seq(MoveSet) /\ Len(Moves) = Len(f) + Len(a) + Len(b)
      /\ Len(f) \in Nat /\ Len(a) \in Nat /\ Len(b) \in Nat
      /\ \A p \in 1..Len(f) : p \in 1..Len(Moves) /\ Moves[p] = f[p]
      /\ \A p \in 1..Len(a) : p + Len(f) \in 1..Len(Moves) /\ Moves[p + Len(f)] = a[p]
      /\ \A p \in 1..Len(b) :
           /\ p + (Len(f) + Len(a)) \in 1..Len(Moves)
           /\ Moves[p + (Len(f) + Len(a))] = b[p]
  <2> DEFINE c == f \o a
  <2>1. c \in Seq(MoveSet) /\ Len(c) = Len(f) + Len(a) /\ Len(f) \in Nat /\ Len(a) \in Nat
    BY <1>5, <1>6, ConcatProperties
  <2>2. /\ \A p \in 1..Len(f) : p \in 1..Len(c) /\ c[p] = f[p]
        /\ \A p \in 1..Len(a) : p + Len(f) \in 1..Len(c) /\ c[p + Len(f)] = a[p]
    BY <1>5, <1>6, ConcatPlaces
  <2>3. Moves = c \o b
    BY <1>8
  <2> HIDE DEF c
  <2>4. /\ Moves \in Seq(MoveSet) /\ Len(Moves) = Len(c) + Len(b) /\ Len(b) \in Nat
        /\ \A p \in 1..Len(c) : p \in 1..Len(Moves) /\ Moves[p] = c[p]
        /\ \A p \in 1..Len(b) : p + Len(c) \in 1..Len(Moves) /\ Moves[p + Len(c)] = b[p]
    <3>3. c \in Seq(MoveSet) /\ b \in Seq(MoveSet)
      BY <1>7, <2>1
    <3>1. /\ c \o b \in Seq(MoveSet) /\ Len(c \o b) = Len(c) + Len(b) /\ Len(b) \in Nat
      BY ONLY <3>3, ConcatProperties, LenProperties
    <3>2. /\ \A p \in 1..Len(c) : p \in 1..Len(c \o b) /\ (c \o b)[p] = c[p]
          /\ \A p \in 1..Len(b) : p + Len(c) \in 1..Len(c \o b) /\ (c \o b)[p + Len(c)] = b[p]
      BY ONLY <3>3, ConcatPlaces
    <3> HIDE DEF Moves
    <3> QED
      BY <2>3, <3>1, <3>2
  <2> QED
    BY <2>1, <2>2, <2>4
<1>10. \A p \in 1..Len(Moves) : Moves[p].kind = "weight" => p \in 1..Len(f)
  <2> SUFFICES ASSUME NEW p \in 1..Len(Moves), ~(p \in 1..Len(f)) PROVE Moves[p].kind # "weight"
    OBVIOUS
  <2>1. CASE p <= Len(f) + Len(a)
    <3>1. p - Len(f) \in 1..Len(a) /\ (p - Len(f)) + Len(f) = p
      BY <1>9, <2>1
    <3>2. Moves[p] = a[p - Len(f)]
      BY <1>9, <3>1
    <3> QED
      BY <1>6, <3>1, <3>2
  <2>2. CASE p > Len(f) + Len(a)
    <3> DEFINE q == p - (Len(f) + Len(a))
    <3>1. q \in 1..Len(b) /\ q + (Len(f) + Len(a)) = p
      BY <1>9, <2>2
    <3> HIDE DEF q
    <3>2. Moves[p] = b[q]
      BY <1>9, <3>1
    <3> QED
      BY <1>7, <3>1, <3>2
  <2> QED
    BY <1>9, <2>1, <2>2
<1>11. ASSUME NEW p \in 1..Len(Moves), Moves[p].kind = "weight"
       PROVE  /\ Moves[p].key \in DOMAIN Base
              /\ ~Moves[p].first => /\ p - 1 \in 1..Len(Moves)
                                    /\ Moves[p - 1].kind = "weight"
                                    /\ Moves[p - 1].key = Moves[p].key
  <2>1. p \in 1..Len(f) /\ Moves[p] = f[p]
    BY <1>9, <1>10, <1>11
  <2> DEFINE From(k, q) == /\ f[p] = sweeps[k][q]
                           /\ q = 1 \/ (p - 1 \in 1..Len(f) /\ f[p - 1] = sweeps[k][q - 1])
  <2>2. PICK k \in 1..K : \E q \in 1..Len(sweeps[k]) : From(k, q)
    BY <1>5, <2>1 DEF Made
  <2>3. PICK q \in 1..Len(sweeps[k]) : From(k, q)
    BY <2>2
  <2>4. q \in 1..Len(grid)
    BY <1>3
  <2>5. IsMove(sweeps[k][q], "weight", TunableRules[k], grid[q], q)
    BY <1>3, <2>4
  <2>6. Moves[p].key \in DOMAIN Base /\ Moves[p].key = TunableRules[k] /\ (q = 1 => Moves[p].first)
    BY <1>1, <2>1, <2>3, <2>5 DEF IsMove
  <2>7. ASSUME q # 1
        PROVE  /\ p - 1 \in 1..Len(Moves)
               /\ Moves[p - 1].kind = "weight" /\ Moves[p - 1].key = TunableRules[k]
    <3>1. q - 1 \in 1..Len(grid)
      BY <1>2, <2>4, <2>7
    <3>2. p - 1 \in 1..Len(f) /\ f[p - 1] = sweeps[k][q - 1]
      BY <2>3, <2>7
    <3>3. sweeps[k][q - 1].kind = "weight" /\ sweeps[k][q - 1].key = TunableRules[k]
      BY <1>3, <3>1 DEF IsMove
    <3> QED
      BY <1>9, <3>2, <3>3
  <2> QED
    BY <2>6, <2>7
<1>12. ASSUME NEW k \in Range(TunableRules), NEW v \in GridPoints(WeightMin, WeightMax)
       PROVE  \E p \in 1..Len(Moves) :
                Moves[p].kind = "weight" /\ Moves[p].key = k /\ Moves[p].value = v
  <2>1. PICK j \in 1..K : TunableRules[j] = k
    BY <1>1 DEF Range
  <2>2. PICK i \in 1..Len(grid) : grid[i] = v
    BY <1>2
  <2>3. i \in 1..Len(sweeps[j])
    BY <1>3
  <2>4. PICK p \in 1..Len(f) : f[p] = sweeps[j][i]
    BY <1>5, <2>3 DEF Made
  <2>5. IsMove(sweeps[j][i], "weight", k, v, i)
    BY <1>3, <2>1, <2>2
  <2> QED
    BY <1>9, <2>4, <2>5 DEF IsMove
<1>13. ASSUME NEW v \in GridPoints(AllowRange[1], AllowRange[2])
       PROVE  \E p \in 1..Len(Moves) : Moves[p].kind = "allow" /\ Moves[p].value = v
  <2>1. PICK i \in 1..Len(a) : a[i].value = v
    BY <1>6
  <2> QED
    BY <1>6, <1>9, <2>1
<1>14. ASSUME NEW v \in GridPoints(BlockRange[1], BlockRange[2])
       PROVE  \E p \in 1..Len(Moves) : Moves[p].kind = "block" /\ Moves[p].value = v
  <2>1. PICK i \in 1..Len(b) : b[i].value = v
    BY <1>7
  <2> QED
    BY <1>7, <1>9, <2>1
<1> QED
  BY <1>9, <1>11, <1>12, <1>13, <1>14

-----------------------------------------------------------------------------
(* The steps. *)

\* What a trial is does not change once the corpus is split.
LEMMA ValStays ==
  ASSUME val' = val
  PROVE  /\ \A t : IsTrial(t)' <=> IsTrial(t)
         /\ \A t : LocalOptimum(t)' <=> LocalOptimum(t)
         /\ \A c : buildBaselineSeed(c).met' = buildBaselineSeed(c).met
BY DEF IsTrial, LocalOptimum, buildBaselineSeed, Trial

LEMMA BaselineIsTrial ==
  ASSUME SplitOK, NEW c
  PROVE  IsTrial(buildBaselineSeed(c)) /\ buildBaselineSeed(c).met \in Matrices
<1>1. /\ Base \in [DOMAIN Base -> Int]
      /\ BaseAllow \in Int
  <2>1. BaseAllow \in Int
    BY SearchAssumption
  <2> QED
    BY <2>1, WeightAssumption, Zenon
<1>2. AboveAllow(BaseAllow, BaseBlock) \in Int
  BY SearchAssumption DEF AboveAllow
<1>3. Evaluate(val, Base, BaseAllow, AboveAllow(BaseAllow, BaseBlock), c) \in Matrices
  BY EvaluateMatrix DEF SplitOK
<1> QED
  BY <1>1, <1>2, <1>3 DEF IsTrial, buildBaselineSeed, Trial

LEMMA MovedIsTrial ==
  ASSUME SplitOK, IsTrial(track[1]), NEW p \in 1..Len(Moves)
  PROVE  IsTrial(Moved(Moves[p])) /\ Moved(Moves[p]).met \in Matrices
<1> DEFINE m == Moves[p]
           u == track[1]
<1>1. m \in MoveSet /\ (m.kind = "weight" => m.key \in DOMAIN Base)
  BY MovesFacts, ElementOfSeq
<1> HIDE DEF m
<1>2. \A w, a, b, c : Evaluate(val, w, a, b, c) \in Matrices
  BY EvaluateMatrix DEF SplitOK
<1>3. CASE m.kind = "weight"
  <2>1. Moved(m) = Trial([u.weights EXCEPT ![m.key] = m.value], u.allow, u.block, u.minCategories)
    BY <1>3 DEF Moved
  <2>2. [u.weights EXCEPT ![m.key] = m.value] \in [DOMAIN Base -> Int]
    BY <1>1, <1>3 DEF IsTrial, MoveSet
  <2> QED
    BY <1>2, <2>1, <2>2 DEF IsTrial, Trial, m
<1>4. CASE m.kind = "allow"
  <2>1. Moved(m) = Trial(u.weights, m.value, u.block, u.minCategories) /\ m.value \in Int
    BY <1>1, <1>4 DEF Moved, MoveSet
  <2> QED
    BY <1>2, <2>1 DEF IsTrial, Trial, m
<1>5. CASE m.kind = "block"
  <2>1. Moved(m) = Trial(u.weights, u.allow, m.value, u.minCategories) /\ m.value \in Int
    BY <1>1, <1>5 DEF Moved, MoveSet
  <2> QED
    BY <1>2, <2>1 DEF IsTrial, Trial, m
<1> QED
  BY <1>1, <1>3, <1>4, <1>5 DEF MoveSet

LEMMA InitHolds == SearchInit => IInv
<1> SUFFICES ASSUME SearchInit PROVE IInv
  OBVIOUS
<1>1. RefineSteps \in Nat \ {0} /\ Len(Moves) \in Nat
  BY SearchAssumption, MovesFacts
<1>2. StageOK
  <2>1. /\ stage = "split" /\ origin = "random" /\ drawn = 0
        /\ pass = 1 /\ position = 1
    BY DEF SearchInit
  <2>2. improved \in BOOLEAN /\ ~improved
    BY DEF SearchInit
  <2>3. 1 \in 1..RefineSteps /\ 1 \in 1..(Len(Moves) + 1) /\ 0 \in Nat
    BY <1>1
  <2> QED
    BY <2>1, <2>2, <2>3 DEF StageOK
<1>3. IsFiniteSet(DOMAIN val)
  <2>1. DOMAIN val = {}
    BY DEF SearchInit
  <2> QED
    BY <2>1, FS_EmptySet
<1>4. SplitOK
  BY <1>3 DEF SearchInit, SplitOK
<1>5. BestOK
  BY DEF SearchInit, BestOK
<1>6. GatesOK
  BY GatesFacts DEF SearchInit, GatesOK, Gates
<1>7. TrackOK /\ SweepOK /\ SettledOK
  BY DEF SearchInit, TrackOK, SweepOK, SettledOK
<1> QED
  BY <1>2, <1>4, <1>5, <1>6, <1>7 DEF IInv

LEMMA SplitRunsKeeps ==
  ASSUME IInv, NEW order \in Orders, SplitRuns(order)
  PROVE  IInv'
<1> USE DEF loops
<1>1. StageOK'
  BY DEF IInv, StageOK, SplitRuns
<1>2. SplitOK'
  <2>1. IsFiniteSet(DOMAIN val')
    BY SplitFinite DEF IInv, SplitOK, SplitRuns
  <2> QED
    BY <2>1 DEF IInv, SplitOK, SplitRuns
<1>3. BestOK'
  BY DEF IInv, BestOK, SplitRuns
<1>4. GatesOK'
  <2>1. gates = normalizeMinCategories
    BY DEF IInv, SplitOK, SplitRuns
  <2> QED
    BY <2>1, GatesFacts DEF SplitRuns, GatesOK, Gates
<1>5. TrackOK' /\ SweepOK' /\ SettledOK'
  BY DEF IInv, SplitOK, SplitRuns, TrackOK, SweepOK, SettledOK
<1> QED
  BY <1>1, <1>2, <1>3, <1>4, <1>5 DEF IInv

LEMMA RandomTrialKeeps ==
  ASSUME IInv, NEW draw \in Samples, RandomTrial(draw)
  PROVE  IInv'
<1> DEFINE t == Trial(draw.weights, draw.allow, AboveAllow(draw.allow, draw.block), Head(gates))
<1>1. /\ stage = "random" /\ Logged(t) /\ drawn' = drawn + 1
      /\ track' = IF drawn = 0 \/ Better(t, track[1]) THEN <<t>> ELSE track
      /\ stage' = IF drawn' = Trials THEN "descend" ELSE "random"
      /\ UNCHANGED <<analysed, val, gates, origin, pass, position, current, improved, descents>>
  BY DEF RandomTrial
<1>2. IsTrial(t) /\ t.met \in Matrices
  <2>1. draw.weights \in [DOMAIN Base -> Int] /\ draw.allow \in Int /\ draw.block \in Int
    BY WeightAssumption
  <2>2. AboveAllow(draw.allow, draw.block) \in Int
    BY <2>1, SearchAssumption DEF AboveAllow
  <2>3. \A w, a, b, c : Evaluate(val, w, a, b, c) \in Matrices
    BY EvaluateMatrix DEF IInv, SplitOK
  <2> QED
    BY <2>1, <2>2, <2>3 DEF IsTrial, Trial
<1> HIDE DEF t
<1>3. BestOK' /\ log \subseteq log'
  BY <1>1, <1>2, LoggedKeeps DEF IInv
<1>4. StageOK'
  <2>1. stage' \in {"random", "descend"} /\ drawn' \in Nat
    BY <1>1 DEF IInv, StageOK
  <2>2. pass = 1 /\ position = 1 /\ ~improved /\ origin = "random"
    BY <1>1 DEF IInv, StageOK
  <2>3. improved' \in BOOLEAN /\ ~improved'
    BY <1>1, <2>2 DEF IInv, StageOK
  <2>4. pass' = pass /\ position' = position /\ origin' = origin
    BY <1>1
  <2> QED
    BY <2>1, <2>2, <2>3, <2>4 DEF IInv, StageOK
<1>5. SplitOK'
  BY <1>1 DEF IInv, SplitOK
<1>6. GatesOK'
  <2>1. gates' = gates /\ gates # << >> /\ stage' # "done"
    BY <1>1 DEF IInv, GatesOK
  <2>2. \A c \in Gates : buildBaselineSeed(c).met' = buildBaselineSeed(c).met
    BY <1>1, ValStays
  <2>3. ~(stage' = "descend" /\ origin' = "baseline")
    BY <1>1 DEF IInv, StageOK
  <2> QED
    BY <1>3, <2>1, <2>2, <2>3 DEF IInv, GatesOK
<1>7. TrackOK'
  <2>1. drawn = 0 \/ IsTrial(track[1])
    BY <1>1 DEF IInv, TrackOK
  <2>2. ASSUME drawn = 0 \/ Better(t, track[1]) PROVE IsTrial(track'[1])
    <3>1. track' = <<t>>
      BY <1>1, <2>2
    <3> QED
      BY <1>2, <3>1
  <2>3. ASSUME ~(drawn = 0 \/ Better(t, track[1])) PROVE IsTrial(track'[1])
    <3>1. track' = track
      BY <1>1, <2>3
    <3> QED
      BY <2>1, <2>3, <3>1
  <2>4. IsTrial(track'[1])
    BY <2>2, <2>3
  <2> QED
    BY <1>1, <2>4 DEF TrackOK, IsTrial
<1>8. SweepOK'
  <2>1. position = 1
    BY <1>1 DEF IInv, StageOK
  <2>2. position' = 1 /\ 1..(1 - 1) = {}
    BY <1>1, <2>1
  <2>3. 1 <= Len(Moves) => ~(Moves[1].kind = "weight" /\ ~Moves[1].first)
    BY MovesFacts
  <2> QED
    BY <2>2, <2>3 DEF SweepOK
<1>9. SettledOK'
  BY <1>1, ValStays DEF IInv, SettledOK
<1> QED
  BY <1>3, <1>4, <1>5, <1>6, <1>7, <1>8, <1>9 DEF IInv

LEMMA BaselineTrialKeeps ==
  ASSUME IInv, BaselineTrial
  PROVE  IInv'
<1> DEFINE t == buildBaselineSeed(Head(gates))
<1>1. /\ stage = "baseline" /\ Logged(t) /\ track' = <<t>>
      /\ origin' = "baseline" /\ stage' = "descend"
      /\ UNCHANGED <<analysed, val, gates, drawn, pass, position, current, improved, descents>>
  BY DEF BaselineTrial
<1>2. IsTrial(t) /\ t.met \in Matrices
  BY BaselineIsTrial DEF IInv
<1> HIDE DEF t
<1>3. BestOK' /\ log \subseteq log' /\ t.met \in log'
  BY <1>1, <1>2, LoggedKeeps DEF IInv
<1>4. StageOK'
  <2>1. pass = 1 /\ position = 1 /\ ~improved
    BY <1>1 DEF IInv, StageOK
  <2>2. improved' \in BOOLEAN
    BY <1>1 DEF IInv, StageOK
  <2>3. pass' = pass /\ position' = position /\ drawn' = drawn
    BY <1>1
  <2> QED
    BY <1>1, <2>1, <2>2, <2>3 DEF IInv, StageOK
<1>5. SplitOK'
  BY <1>1 DEF IInv, SplitOK
<1>6. GatesOK'
  <2>1. gates' = gates /\ gates # << >> /\ stage' # "done"
    BY <1>1 DEF IInv, GatesOK
  <2>2. \A c : buildBaselineSeed(c).met' = buildBaselineSeed(c).met
    BY <1>1, ValStays
  <2>3. buildBaselineSeed(Head(gates)).met \in log'
    BY <1>3 DEF t
  <2> QED
    BY <1>3, <2>1, <2>2, <2>3 DEF IInv, GatesOK
<1>7. TrackOK'
  <2>1. IsTrial(track'[1])
    BY <1>1, <1>2
  <2> QED
    BY <1>1, <2>1 DEF TrackOK, IsTrial
<1>8. SweepOK'
  <2>1. position = 1
    BY <1>1 DEF IInv, StageOK
  <2>2. position' = 1 /\ 1..(1 - 1) = {}
    BY <1>1, <2>1
  <2>3. 1 <= Len(Moves) => ~(Moves[1].kind = "weight" /\ ~Moves[1].first)
    BY MovesFacts
  <2> QED
    BY <2>2, <2>3 DEF SweepOK
<1>9. SettledOK'
  BY <1>1, ValStays DEF IInv, SettledOK
<1> QED
  BY <1>3, <1>4, <1>5, <1>6, <1>7, <1>8, <1>9 DEF IInv

\* A weight's value that is left out gives the trial itself again.
LEMMA LeftOutScoresNoHigher ==
  ASSUME IsTrial(track[1]), track[1].met \in Matrices, NEW m,
         m.kind = "weight", m.key \in DOMAIN Base, m.value = track[1].weights[m.key]
  PROVE  Score(Moved(m).met) <= Score(track[1].met)
<1> DEFINE u == track[1]
<1>1. Moved(m) = Trial([u.weights EXCEPT ![m.key] = m.value], u.allow, u.block, u.minCategories)
  BY DEF Moved
<1>2. [u.weights EXCEPT ![m.key] = m.value] = u.weights
  BY DEF IsTrial
<1>3. Moved(m).met = u.met
  BY <1>1, <1>2 DEF Trial, IsTrial
<1> QED
  BY <1>3, ScoreInt

LEMMA DescentTrialKeeps ==
  ASSUME IInv, DescentTrial
  PROVE  IInv'
<1> DEFINE m == Moves[position]
           held == IF m.kind = "weight" /\ m.first THEN track[1].weights[m.key] ELSE current
<1>1. /\ stage = "descend" /\ pass <= RefineSteps /\ position <= Len(Moves)
      /\ position \in 1..Len(Moves)
  BY MovesFacts DEF DescentTrial, Descending, IInv, StageOK
<1>2. /\ current' = held /\ position' = position + 1
      /\ UNCHANGED <<analysed, val, gates, stage, drawn, origin, pass, descents>>
  BY DEF DescentTrial
<1>3. \/ LeftOut(m, held) /\ UNCHANGED <<track, improved, log, best>>
      \/ /\ ~LeftOut(m, held)
         /\ Logged(Moved(m))
         /\ track' = IF Better(Moved(m), track[1]) THEN <<Moved(m)>> ELSE track
         /\ improved' = (improved \/ Better(Moved(m), track[1]))
  BY DEF DescentTrial
<1>4. m \in MoveSet /\ (m.kind = "weight" => m.key \in DOMAIN Base)
  BY <1>1, MovesFacts, ElementOfSeq
<1>5. IsTrial(track[1])
  BY <1>1 DEF IInv, TrackOK
<1>6. track[1].met \in Matrices
  BY <1>5, EvaluateMatrix DEF IInv, SplitOK, IsTrial
<1>7. IsTrial(Moved(m)) /\ Moved(m).met \in Matrices
  BY <1>1, <1>5, MovedIsTrial DEF IInv
<1> HIDE DEF m, held
<1>8. BestOK' /\ log \subseteq log'
  <2>1. CASE LeftOut(m, held) /\ UNCHANGED <<track, improved, log, best>>
    BY <2>1 DEF IInv, BestOK
  <2>2. CASE Logged(Moved(m))
    BY <2>2, <1>7, LoggedKeeps DEF IInv
  <2> QED
    BY <1>3, <2>1, <2>2
<1>9. StageOK'
  <2>1. position' \in 1..(Len(Moves) + 1)
    BY <1>1, <1>2, MovesFacts
  <2>2. improved' \in BOOLEAN
    <3>1. improved \in BOOLEAN
      BY DEF IInv, StageOK
    <3> QED
      BY <1>3, <3>1, Zenon
  <2>3. stage' = "descend" /\ pass' = pass /\ origin' = origin /\ drawn' = drawn
    BY <1>1, <1>2
  <2> QED
    BY <2>1, <2>2, <2>3 DEF IInv, StageOK
<1>10. SplitOK'
  BY <1>1, <1>2 DEF IInv, SplitOK
<1>11. GatesOK'
  <2>1. gates' = gates /\ stage' = stage /\ origin' = origin
    BY <1>2
  <2>2. \A c : buildBaselineSeed(c).met' = buildBaselineSeed(c).met
    BY <1>2, ValStays
  <2> QED
    BY <1>8, <2>1, <2>2 DEF IInv, GatesOK
<1>12. TrackOK'
  <2>1. CASE track' = track
    BY <1>5, <1>2, <2>1 DEF TrackOK, IsTrial
  <2>2. CASE track' = <<Moved(m)>>
    <3>1. IsTrial(track'[1])
      BY <1>7, <2>2
    <3> QED
      BY <1>2, <3>1 DEF TrackOK, IsTrial
  <2> QED
    BY <1>3, <2>1, <2>2
<1>13. SettledOK'
  BY <1>2, ValStays DEF IInv, SettledOK
<1>14. ASSUME ~improved'
       PROVE  ~improved /\ track' = track /\ Tried(m) /\ (m.kind = "weight" => held = track[1].weights[m.key])
  <2>1. ~improved
    BY <1>3, <1>14
  <2>2. m.kind = "weight" => held = track[1].weights[m.key]
    BY <1>1, <2>1 DEF IInv, SweepOK, held, m
  <2>3. CASE LeftOut(m, held) /\ UNCHANGED <<track, improved, log, best>>
    <3>1. CASE m.kind = "weight"
      <4>1. m.value = track[1].weights[m.key]
        BY <2>2, <2>3, <3>1 DEF LeftOut
      <4> QED
        BY <1>4, <1>5, <1>6, <2>1, <2>2, <2>3, <3>1, <4>1, LeftOutScoresNoHigher DEF Tried
    <3>2. CASE m.kind = "allow"
      BY <2>1, <2>2, <2>3, <3>2 DEF LeftOut, Tried
    <3>3. CASE m.kind = "block"
      BY <2>1, <2>2, <2>3, <3>3 DEF LeftOut, Tried
    <3> QED
      BY <1>4, <3>1, <3>2, <3>3 DEF MoveSet
  <2>4. CASE /\ track' = IF Better(Moved(m), track[1]) THEN <<Moved(m)>> ELSE track
             /\ improved' = (improved \/ Better(Moved(m), track[1]))
    <3>1. ~Better(Moved(m), track[1])
      BY <1>14, <2>4
    <3>2. Score(Moved(m).met) <= Score(track[1].met)
      BY <3>1, <1>6, <1>7, ScoreInt DEF Better
    <3> QED
      BY <2>1, <2>2, <2>4, <3>1, <3>2 DEF Tried
  <2> QED
    BY <1>3, <2>3, <2>4
<1>15. SweepOK'
  <2> SUFFICES ASSUME ~improved'
               PROVE  /\ \A i \in 1..(position' - 1) : Tried(Moves[i])'
                      /\ position' <= Len(Moves) /\ Moves[position'].kind = "weight"
                           /\ ~Moves[position'].first =>
                            current' = track'[1].weights[Moves[position'].key]
    BY DEF SweepOK
  <2>1. ~improved /\ track' = track /\ Tried(m) /\ (m.kind = "weight" => held = track[1].weights[m.key])
    BY <1>14
  <2>2. \A i \in 1..(position - 1) : Tried(Moves[i])
    BY <1>1, <2>1 DEF IInv, SweepOK
  <2>3. \A i \in 1..position : Tried(Moves[i])
    BY <1>1, <2>1, <2>2 DEF m
  <2>4. \A x : Tried(x)' <=> Tried(x)
    BY <1>2, <2>1 DEF Tried, Moved, Trial
  <2>5. position' - 1 = position
    BY <1>1, <1>2
  <2>6. ASSUME position' <= Len(Moves), Moves[position'].kind = "weight", ~Moves[position'].first
        PROVE  current' = track'[1].weights[Moves[position'].key]
    <3>1. position' \in 1..Len(Moves)
      BY <1>1, <1>2, <2>6, MovesFacts
    <3>2. Moves[position' - 1].kind = "weight" /\ Moves[position' - 1].key = Moves[position'].key
      BY <2>6, <3>1, MovesFacts
    <3> QED
      BY <1>2, <2>1, <2>5, <3>2 DEF m
  <2> QED
    BY <2>3, <2>4, <2>5, <2>6
<1> QED
  BY <1>8, <1>9, <1>10, <1>11, <1>12, <1>13, <1>15 DEF IInv

LEMMA NextPassKeeps ==
  ASSUME IInv, NextPass
  PROVE  IInv'
<1>1. /\ stage = "descend" /\ pass < RefineSteps
      /\ pass' = pass + 1 /\ position' = 1 /\ improved' = FALSE
      /\ UNCHANGED <<analysed, val, gates, stage, drawn, origin, track, log, best, descents>>
  BY DEF NextPass
<1>2. StageOK'
  <2>1. pass' \in 1..RefineSteps
    BY <1>1, SearchAssumption DEF IInv, StageOK
  <2>2. position' \in 1..(Len(Moves) + 1)
    BY <1>1, MovesFacts
  <2>3. improved' \in BOOLEAN
    BY <1>1
  <2> QED
    BY <1>1, <2>1, <2>2, <2>3 DEF IInv, StageOK
<1>3. SplitOK' /\ BestOK'
  BY <1>1 DEF IInv, SplitOK, BestOK
<1>4. GatesOK'
  <2>1. \A c : buildBaselineSeed(c).met' = buildBaselineSeed(c).met
    BY <1>1, ValStays
  <2> QED
    BY <1>1, <2>1 DEF IInv, GatesOK
<1>5. TrackOK'
  BY <1>1 DEF IInv, TrackOK, IsTrial
<1>6. SweepOK'
  <2>1. position' = 1 /\ 1..(1 - 1) = {}
    BY <1>1
  <2>2. 1 <= Len(Moves) => ~(Moves[1].kind = "weight" /\ ~Moves[1].first)
    BY MovesFacts
  <2> QED
    BY <2>1, <2>2 DEF SweepOK
<1>7. SettledOK'
  BY <1>1, ValStays DEF IInv, SettledOK
<1> QED
  BY <1>2, <1>3, <1>4, <1>5, <1>6, <1>7 DEF IInv

\* A pass without an improvement has tried every move from where it stands.
LEMMA PassSettles ==
  ASSUME IInv, stage = "descend", ~Descending, ~improved
  PROVE  LocalOptimum(track[1])
<1> DEFINE u == track[1]
<1>1. IsTrial(u)
  BY DEF IInv, TrackOK
<1>2. position - 1 = Len(Moves) /\ Len(Moves) \in Nat
  <2>1. Len(Moves) \in Nat
    BY MovesFacts
  <2>2. position > Len(Moves)
    BY <2>1, SearchAssumption DEF IInv, StageOK, Descending
  <2> QED
    BY <2>1, <2>2 DEF IInv, StageOK
<1>3. \A p \in 1..Len(Moves) : Tried(Moves[p])
  BY <1>2 DEF IInv, SweepOK
<1>4. ASSUME NEW k \in Range(TunableRules), NEW v \in GridPoints(WeightMin, WeightMax)
      PROVE  Score(Evaluate(val, [u.weights EXCEPT ![k] = v], u.allow, u.block, u.minCategories))
               <= Score(u.met)
  <2>1. PICK p \in 1..Len(Moves) :
          Moves[p].kind = "weight" /\ Moves[p].key = k /\ Moves[p].value = v
    BY MovesFacts
  <2>2. Score(Moved(Moves[p]).met) <= Score(u.met)
    BY <1>3, <2>1 DEF Tried
  <2>3. Moved(Moves[p]).met
          = Evaluate(val, [u.weights EXCEPT ![k] = v], u.allow, u.block, u.minCategories)
    BY <2>1 DEF Moved, Trial
  <2> QED
    BY <2>2, <2>3
<1>5. ASSUME NEW v \in GridPoints(AllowRange[1], AllowRange[2]), v < u.block
      PROVE  Score(Evaluate(val, u.weights, v, u.block, u.minCategories)) <= Score(u.met)
  <2>1. PICK p \in 1..Len(Moves) : Moves[p].kind = "allow" /\ Moves[p].value = v
    BY MovesFacts
  <2>2. v \in Int /\ u.block \in Int
    BY <1>1, WeightAssumption DEF GridPoints, IsTrial
  <2>3. Score(Moved(Moves[p]).met) <= Score(u.met)
    BY <1>3, <1>5, <2>1, <2>2 DEF Tried
  <2>4. Moved(Moves[p]).met = Evaluate(val, u.weights, v, u.block, u.minCategories)
    BY <2>1 DEF Moved, Trial
  <2> QED
    BY <2>3, <2>4
<1>6. ASSUME NEW v \in GridPoints(BlockRange[1], BlockRange[2]), v > u.allow
      PROVE  Score(Evaluate(val, u.weights, u.allow, v, u.minCategories)) <= Score(u.met)
  <2>1. PICK p \in 1..Len(Moves) : Moves[p].kind = "block" /\ Moves[p].value = v
    BY MovesFacts
  <2>2. v \in Int /\ u.allow \in Int
    BY <1>1, WeightAssumption DEF GridPoints, IsTrial
  <2>3. Score(Moved(Moves[p]).met) <= Score(u.met)
    BY <1>3, <1>6, <2>1, <2>2 DEF Tried
  <2>4. Moved(Moves[p]).met = Evaluate(val, u.weights, u.allow, v, u.minCategories)
    BY <2>1 DEF Moved, Trial
  <2> QED
    BY <2>3, <2>4
<1> QED
  BY <1>4, <1>5, <1>6 DEF LocalOptimum

LEMMA DescentEndsKeeps ==
  ASSUME IInv, DescentEnds
  PROVE  IInv'
<1>1. /\ stage = "descend" /\ ~Descending
      /\ descents' = descents \union {[trial |-> track[1], settled |-> ~improved]}
      /\ pass' = 1 /\ position' = 1 /\ improved' = FALSE /\ origin' = "random"
      /\ UNCHANGED <<analysed, val, log, best>>
  BY DEF DescentEnds
<1>2. \/ origin = "random" /\ stage' = "baseline" /\ gates' = gates
      \/ /\ origin = "baseline" /\ gates' = Tail(gates) /\ drawn' = 0
         /\ stage' = IF gates' = << >> THEN "done" ELSE "random"
  BY DEF DescentEnds
<1>3. StageOK'
  <2>1. RefineSteps \in Nat \ {0} /\ Len(Moves) \in Nat
    BY SearchAssumption, MovesFacts
  <2>2. pass' \in 1..RefineSteps /\ position' \in 1..(Len(Moves) + 1)
    BY <1>1, <2>1
  <2>3. improved' \in BOOLEAN /\ ~improved'
    BY <1>1
  <2>4. drawn' \in Nat
    BY DEF DescentEnds, IInv, StageOK
  <2>5. stage' \in {"baseline", "done", "random"}
    BY <1>2
  <2> QED
    BY <1>1, <2>2, <2>3, <2>4, <2>5 DEF StageOK
<1>4. SplitOK' /\ BestOK'
  BY <1>1, <1>2 DEF IInv, SplitOK, BestOK
<1>5. GatesOK'
  <2>1. \A c : buildBaselineSeed(c).met' = buildBaselineSeed(c).met
    BY <1>1, ValStays
  <2>2. gates \in Seq(Gates) /\ gates # << >>
    BY <1>1 DEF IInv, GatesOK
  <2>3. CASE origin = "random" /\ stage' = "baseline" /\ gates' = gates
    BY <1>1, <2>1, <2>2, <2>3 DEF IInv, GatesOK
  <2>4. CASE /\ origin = "baseline" /\ gates' = Tail(gates)
             /\ stage' = IF gates' = << >> THEN "done" ELSE "random"
    <3>1. gates' \in Seq(Gates)
      BY <2>2, <2>4, HeadTailProperties
    <3>2. \A c \in Range(gates) : c = Head(gates) \/ c \in Range(gates')
      <4> SUFFICES ASSUME NEW i \in 1..Len(gates), i # 1 PROVE gates[i] \in Range(gates')
        BY <2>2 DEF Range
      <4>1. /\ DOMAIN gates' = 1..Len(gates') /\ Len(gates') = Len(gates) - 1
            /\ \A j \in 1..Len(gates') : gates'[j] = gates[j + 1]
        BY <2>2, <2>4, HeadTailProperties, LenProperties
      <4>2. i - 1 \in DOMAIN gates' /\ gates'[i - 1] = gates[i]
        BY <2>2, <4>1
      <4> QED
        BY <4>2 DEF Range
    <3>3. buildBaselineSeed(Head(gates)).met \in log
      BY <1>1, <2>4 DEF IInv, GatesOK
    <3>4. \A c \in Gates : c \in Range(gates) \/ buildBaselineSeed(c).met \in log
      BY DEF IInv, GatesOK
    <3>5. \A c \in Gates : c \in Range(gates') \/ buildBaselineSeed(c).met \in log
      BY <3>2, <3>3, <3>4
    <3>6. gates' = << >> <=> stage' = "done"
      BY <2>4
    <3>7. stage' # "descend"
      BY <2>4
    <3> QED
      BY <1>1, <2>1, <3>1, <3>5, <3>6, <3>7 DEF GatesOK
  <2> QED
    BY <1>2, <2>3, <2>4
<1>6. TrackOK' /\ SweepOK'
  BY <1>2 DEF TrackOK, SweepOK
<1>7. SettledOK'
  <2>1. \A d \in descents : d.settled => LocalOptimum(d.trial)
    BY DEF IInv, SettledOK
  <2>2. ~improved => LocalOptimum(track[1])
    BY <1>1, PassSettles
  <2> DEFINE e == [trial |-> track[1], settled |-> ~improved]
  <2>3. \A d \in descents' : d.settled => LocalOptimum(d.trial)
    <3>1. e.trial = track[1] /\ (e.settled => ~improved)
      BY Zenon
    <3>2. e.settled => LocalOptimum(e.trial)
      BY <2>2, <3>1
    <3> HIDE DEF e
    <3>3. descents' = descents \union {e}
      BY <1>1 DEF e
    <3> QED
      BY <2>1, <3>2, <3>3
  <2>4. \A x : LocalOptimum(x)' <=> LocalOptimum(x)
    BY <1>1, ValStays
  <2> QED
    BY <2>3, <2>4 DEF SettledOK
<1> QED
  BY <1>3, <1>4, <1>5, <1>6, <1>7 DEF IInv

LEMMA StutterKeeps ==
  ASSUME IInv, UNCHANGED calibVars
  PROVE  IInv'
<1>1. /\ UNCHANGED <<analysed, val, gates, stage, log, best, descents>>
      /\ UNCHANGED <<drawn, origin, track, pass, position, current, improved>>
  BY DEF calibVars, loops
<1>2. StageOK' /\ SplitOK' /\ BestOK'
  BY <1>1 DEF IInv, StageOK, SplitOK, BestOK
<1>3. GatesOK'
  <2>1. \A c : buildBaselineSeed(c).met' = buildBaselineSeed(c).met
    BY <1>1, ValStays
  <2> QED
    BY <1>1, <2>1 DEF IInv, GatesOK
<1>4. TrackOK' /\ SweepOK'
  <2>1. \A x : Tried(x)' <=> Tried(x)
    BY <1>1 DEF Tried, Moved, Trial
  <2> QED
    BY <1>1, <2>1 DEF IInv, TrackOK, IsTrial, SweepOK
<1>5. SettledOK'
  BY <1>1, ValStays DEF IInv, SettledOK
<1> QED
  BY <1>2, <1>3, <1>4, <1>5 DEF IInv

-----------------------------------------------------------------------------
(* The theorems. *)

\* The strengthening of all three properties of the search is inductive.
THEOREM Inductive == SearchSpec => []IInv
<1>1. SearchInit => IInv
  BY InitHolds
<1>2. IInv /\ [SearchNext]_calibVars => IInv'
  <2> SUFFICES ASSUME IInv, [SearchNext]_calibVars PROVE IInv'
    OBVIOUS
  <2>1. ASSUME NEW order \in Orders, SplitRuns(order) PROVE IInv'
    BY <2>1, SplitRunsKeeps
  <2>2. ASSUME NEW draw \in Samples, RandomTrial(draw) PROVE IInv'
    BY <2>2, RandomTrialKeeps
  <2>3. CASE BaselineTrial
    BY <2>3, BaselineTrialKeeps
  <2>4. CASE DescentTrial
    BY <2>4, DescentTrialKeeps
  <2>5. CASE NextPass
    BY <2>5, NextPassKeeps
  <2>6. CASE DescentEnds
    BY <2>6, DescentEndsKeeps
  <2>7. CASE UNCHANGED calibVars
    BY <2>7, StutterKeeps
  <2> QED
    BY <2>1, <2>2, <2>3, <2>4, <2>5, <2>6, <2>7 DEF SearchNext
<1> QED
  BY <1>1, <1>2, PTL DEF SearchSpec

\* The table of trade-offs printed for any corpus leaves no trial out: each one
\* within the caps is on it or dominated by one that is (printParetoFrontier).
THEOREM FrontierSound == SearchSpec => []FrontierCovers
<1>1. IInv => FrontierCovers
  BY FrontierComplete DEF IInv, BestOK
<1> QED
  BY <1>1, Inductive, PTL

\* The calibrated configuration keeps to the caps if any trial does, and does not
\* rank below the configuration the proxy has, whatever was drawn (Search, Score).
THEOREM BestSound == SearchSpec => []BestTrialSound
<1>1. IInv => BestTrialSound
  <2> SUFFICES ASSUME IInv, stage = "done" PROVE BestTrialSound
    BY DEF BestTrialSound
  <2> DEFINE b == best[1].met
  <2>1. \A c \in Gates : buildBaselineSeed(c).met \in log
    <3>1. gates = << >> /\ Range(gates) = {}
      BY DEF IInv, GatesOK, Range
    <3> QED
      BY <3>1 DEF IInv, GatesOK
  <2>2. log # {}
    <3>1. \E c : c \in Gates
      BY GatesFacts DEF Gates, Range
    <3> QED
      BY <2>1, <3>1
  <2>3. b \in log /\ log \subseteq Matrices /\ \A met \in log : Score(met) <= Score(b)
    BY <2>2 DEF IInv, BestOK
  <2>4. ASSUME NEW met \in log, respectsObjective(met)
        PROVE  /\ respectsObjective(b)
               /\ SoftFPRate(met) <= SoftFPRate(b) => CatchRate(met) <= CatchRate(b)
    <3>1. met \in Matrices /\ b \in Matrices /\ Score(met) <= Score(b)
      BY <2>3
    <3> HIDE DEF b
    <3> QED
      BY <2>4, <3>1, HighestScore
  <2>5. \A c \in Gates : Score(buildBaselineSeed(c).met) <= Score(b)
    BY <2>1, <2>3
  <2> QED
    BY <2>4, <2>5 DEF BestTrialSound, Gates
<1> QED
  BY <1>1, Inductive, PTL

\* A descent that stopped by itself stands at a local optimum of any grid: the
\* value that a weight's sweep leaves out, and the threshold pairs it leaves out,
\* hide no better trial (refineCoordinateDescent).
THEOREM DescentsSound == SearchSpec => []DescentsSettle
<1>1. IInv => DescentsSettle
  BY DEF IInv, SettledOK, DescentsSettle
<1> QED
  BY <1>1, Inductive, PTL

-----------------------------------------------------------------------------
(* The types of the search. *)

\* No two tarballs of a corpus have the same hash.
ShasDiffer ==
  \A c \in Corpora : \A r, q \in c : r.sha \in Int /\ (r.sha = q.sha => r = q)

\* rand.Shuffle exchanges places, whatever was drawn before.
ShufflesPlaces ==
  \A spent, n \in Nat : Shuffle(spent, n) \in [1..n -> 1..n]

\* In a finite set with different keys, each place of the order is taken.
LEMMA SortedMember ==
  ASSUME NEW S, IsFiniteSet(S), NEW key \in [S -> Int],
         \A x, y \in S : key[x] = key[y] => x = y,
         NEW i \in 1..Cardinality(S)
  PROVE  Sorted(S, key)[i] \in S
<1> DEFINE Below(x) == {y \in S : key[y] < key[x]}
           n == Cardinality(S)
           T == 0..(n - 1)
           f == [x \in S |-> Cardinality(Below(x))]
<1>1. n \in Nat /\ n >= 1 /\ IsFiniteSet(T) /\ Cardinality(T) = n
  <2>1. n \in Nat
    BY FS_CardinalityType
  <2>2. n >= 1 /\ 0 \in Int /\ n - 1 \in Int
    BY <2>1
  <2> HIDE DEF n
  <2> QED
    BY <2>1, <2>2, FS_Interval
<1>2. ASSUME NEW x \in S PROVE IsFiniteSet(Below(x)) /\ Cardinality(Below(x)) \in Nat
  <2>1. Below(x) \in SUBSET S
    OBVIOUS
  <2> HIDE DEF Below
  <2> QED
    BY <2>1, FS_Subset, FS_CardinalityType
<1>3. ASSUME NEW x \in S PROVE Cardinality(Below(x)) \in T
  <2>1. Below(x) \in SUBSET (S \ {x})
    OBVIOUS
  <2>2. IsFiniteSet(S \ {x}) /\ Cardinality(S \ {x}) = n - 1
    BY FS_RemoveElement
  <2> HIDE DEF Below, n
  <2>3. Cardinality(Below(x)) <= n - 1
    BY <2>1, <2>2, FS_Subset
  <2> QED
    BY <1>1, <1>2, <2>3
<1>4. ASSUME NEW x \in S, NEW y \in S, key[x] < key[y]
      PROVE  Cardinality(Below(x)) < Cardinality(Below(y))
  <2>1. x \notin Below(x) /\ Below(x) \union {x} \in SUBSET Below(y)
    BY <1>4
  <2> HIDE DEF Below
  <2>2. Cardinality(Below(x) \union {x}) = Cardinality(Below(x)) + 1
    BY <1>2, <2>1, FS_AddElement
  <2>3. Cardinality(Below(x) \union {x}) <= Cardinality(Below(y))
    BY <1>2, <2>1, FS_Subset
  <2> QED
    BY <1>2, <2>2, <2>3
<1>5. \A x \in S : f[x] = Cardinality(Below(x))
  OBVIOUS
<1>6. f \in Injection(S, T)
  <2>1. f \in [S -> T]
    BY <1>3
  <2>2. ASSUME NEW x \in S, NEW y \in S, f[x] = f[y] PROVE x = y
    <3>1. ~(key[x] < key[y]) /\ ~(key[y] < key[x])
      <4> HIDE DEF f, Below
      <4> QED
        BY <1>2, <1>4, <1>5, <2>2
    <3>2. key[x] = key[y]
      BY <3>1
    <3> QED
      BY <3>2
  <2> HIDE DEF f, T
  <2>3. DOMAIN f = S
    BY <2>1
  <2> QED
    BY <2>1, <2>2, <2>3 DEF Injection, IsInjective
<1>7. f \in Surjection(S, T)
  <2> HIDE DEF f, T
  <2> QED
    BY <1>1, <1>6, FS_Injection
<1>8. \E x \in S : Cardinality(Below(x)) = i - 1
  <2>1. i - 1 \in T
    BY <1>1
  <2> HIDE DEF f, T, Below
  <2>2. \E x \in S : f[x] = i - 1
    BY <1>7, <2>1 DEF Surjection
  <2> QED
    BY <1>5, <2>2
<1>9. Sorted(S, key)[i] = CHOOSE x \in S : Cardinality(Below(x)) = i - 1
  BY DEF Sorted
<1> HIDE DEF Below
<1> QED
  BY <1>8, <1>9

\* The validation part is taken from the corpus.
LEMMA SplitFromCorpus ==
  ASSUME ShasDiffer, ShufflesPlaces, analysed \in Corpora, NEW order \in Orders
  PROVE  Range(Split(order)) \subseteq analysed
<1> DEFINE group(l) == Sorted(OfLabel(l), [r \in OfLabel(l) |-> r.sha])
           spent(l) == IF l = order[1] THEN 0 ELSE Len(group(order[1]))
           shuffled(l) == [i \in DOMAIN group(l) |->
                             group(l)[Shuffle(spent(l), Len(group(l)))[i]]]
           part(l) == SubSeq(shuffled(l), 1, (Len(group(l)) * ValNum) \div ValDen)
<1>1. ASSUME NEW l
      PROVE  group(l) \in Seq(analysed) /\ DOMAIN group(l) = 1..Len(group(l))
  <2> DEFINE key == [r \in OfLabel(l) |-> r.sha]
             n == Cardinality(OfLabel(l))
  <2>1. IsFiniteSet(OfLabel(l)) /\ OfLabel(l) \subseteq analysed
    BY CorpusAssumption, FS_Subset DEF OfLabel
  <2>2. n \in Nat
    BY <2>1, FS_CardinalityType
  <2>3. \A r, q \in OfLabel(l) : r.sha \in Int /\ (r.sha = q.sha => r = q)
    BY <2>1 DEF ShasDiffer
  <2>4. key \in [OfLabel(l) -> Int] /\ \A r, q \in OfLabel(l) : key[r] = key[q] => r = q
    BY <2>3
  <2> DEFINE g == Sorted(OfLabel(l), key)
  <2>5. \A i \in 1..n : g[i] \in OfLabel(l)
    <3> HIDE DEF key
    <3> QED
      BY <2>1, <2>4, SortedMember
  <2>6. DOMAIN g = 1..n /\ g = [i \in DOMAIN g |-> g[i]]
    <3> DEFINE At(i) == CHOOSE x \in OfLabel(l) :
                          Cardinality({y \in OfLabel(l) : key[y] < key[x]}) = i - 1
               F == [i \in 1..n |-> At(i)]
    <3>1. g = F
      BY DEF Sorted
    <3>2. DOMAIN F = 1..n /\ F = [i \in DOMAIN F |-> F[i]]
      <4> HIDE DEF key, n, At
      <4> QED
        OBVIOUS
    <3> HIDE DEF g, F, n
    <3> QED
      BY <3>1, <3>2, Zenon
  <2> HIDE DEF g, n
  <2>7. g \in [1..n -> analysed]
    BY <2>1, <2>5, <2>6
  <2>8. g \in Seq(analysed) /\ DOMAIN g = 1..Len(g)
    BY <2>2, <2>7
  <2> QED
    BY <2>8 DEF g
<1> HIDE DEF group
<1>2. ASSUME NEW l PROVE part(l) \in Seq(analysed)
  <2> DEFINE n == Len(group(l))
             t == shuffled(l)
             m == (n * ValNum) \div ValDen
  <2>1. n \in Nat /\ DOMAIN group(l) = 1..n /\ \A i \in 1..n : group(l)[i] \in analysed
    BY <1>1
  <2>2. spent(l) \in Nat
    BY <1>1
  <2> HIDE DEF spent
  <2>3. Shuffle(spent(l), n) \in [1..n -> 1..n]
    BY <2>1, <2>2 DEF ShufflesPlaces
  <2>4. t \in [1..n -> analysed]
    BY <2>1, <2>3
  <2>5. m \in 0..n
    BY <2>1, CorpusAssumption, Share
  <2>6. part(l) = SubSeq(t, 1, m)
    OBVIOUS
  <2> HIDE DEF t, m, n, part
  <2>7. t \in Seq(analysed) /\ Len(t) = n
    BY <2>1, <2>4
  <2>8. \A i \in 1..m : t[i] \in analysed
    BY <2>1, <2>4, <2>5
  <2> QED
    BY <2>1, <2>5, <2>6, <2>7, <2>8, SubSeqProperties
<1>3. Split(order) = part(order[1]) \o part(order[2])
  BY DEF Split, group
<1> HIDE DEF part
<1>4. Split(order) \in Seq(analysed)
  BY <1>2, <1>3, ConcatProperties
<1> QED
  BY <1>4 DEF Range

LEMMA GatesAreNat == Gates \subseteq Nat
<1> DEFINE G == Range(Candidates) \intersect Nat
           Given == IF G = {} THEN {BaseCategories} ELSE G
<1>1. Given \subseteq Nat /\ IsFiniteSet(Given)
  <2>1. BaseCategories \in Nat
    BY SearchAssumption
  <2>2. IsFiniteSet(G)
    <3>1. Candidates \in Seq(Int)
      BY SearchAssumption
    <3> DEFINE f == [i \in 1..Len(Candidates) |-> Candidates[i]]
    <3>2. DOMAIN Candidates = 1..Len(Candidates) /\ Len(Candidates) \in Nat
      BY ONLY <3>1
    <3>3. Range(Candidates) = {Candidates[i] : i \in 1..Len(Candidates)}
      BY ONLY <3>2, Zenon DEF Range
    <3>4. f \in Surjection(1..Len(Candidates), Range(Candidates))
      BY <3>3 DEF Surjection
    <3>5. IsFiniteSet(Range(Candidates))
      BY <3>2, <3>4, FS_Interval, FS_Surjection
    <3> QED
      BY <3>5, FS_Subset
  <2> QED
    BY <2>1, <2>2, FS_Singleton
<1> HIDE DEF Given
<1>2. \A x, y \in Given : [c \in Given |-> c][x] = [c \in Given |-> c][y] => x = y
  OBVIOUS
<1>3. [c \in Given |-> c] \in [Given -> Int]
  BY <1>1
<1> DEFINE N == Sorted(Given, [c \in Given |-> c])
<1>4. normalizeMinCategories = N
  BY DEF normalizeMinCategories, Given
<1>5. \A i \in 1..Cardinality(Given) : N[i] \in Given
  BY <1>1, <1>2, <1>3, SortedMember
<1>6. DOMAIN N = 1..Cardinality(Given)
  BY DEF Sorted
<1> HIDE DEF N
<1> QED
  BY <1>1, <1>4, <1>5, <1>6 DEF Gates, Range

\* A trial that is held was logged, and its thresholds are in order.
HeldIn(s, tried) ==
  \/ s = << >>
  \/ \E t : /\ s = <<t>> /\ t.met \in tried
            /\ t.allow \in Int /\ t.block \in Int /\ t.block > t.allow

HeldOK ==
  /\ Range(val) \subseteq analysed
  /\ drawn <= Trials /\ (stage = "random" => drawn < Trials)
  /\ HeldIn(best, log) /\ HeldIn(track, log)
  /\ stage = "descend" \/ (stage = "random" /\ drawn # 0) => track # << >>

LEMMA HeldOn ==
  ASSUME NEW s, NEW tried, NEW more, tried \subseteq more, HeldIn(s, tried)
  PROVE  HeldIn(s, more)
BY DEF HeldIn

LEMMA NewlyHeld ==
  ASSUME NEW t, NEW tried, t.met \in tried, t.allow \in Int, t.block \in Int, t.block > t.allow
  PROVE  HeldIn(<<t>>, tried) /\ <<t>> # << >>
BY DEF HeldIn

LEMMA HeldFirst ==
  ASSUME NEW s, NEW tried, HeldIn(s, tried), s # << >>
  PROVE  /\ s[1].met \in tried /\ s[1].allow \in Int /\ s[1].block \in Int
         /\ s[1].block > s[1].allow
<1>1. PICK t : /\ s = <<t>> /\ t.met \in tried
               /\ t.allow \in Int /\ t.block \in Int /\ t.block > t.allow
  BY DEF HeldIn
<1>2. s[1] = t
  BY <1>1
<1> QED
  BY <1>1, <1>2

\* A trial that is logged may be held from then on.
LEMMA LoggedHeld ==
  ASSUME HeldIn(best, log), HeldIn(track, log),
         NEW t, Logged(t), t.allow \in Int, t.block \in Int, t.block > t.allow
  PROVE  HeldIn(best', log') /\ HeldIn(track, log') /\ HeldIn(<<t>>, log') /\ <<t>> # << >>
<1>1. log' = log \union {t.met} /\ (best' = best \/ best' = <<t>>)
  BY DEF Logged
<1>2. t.met \in log' /\ log \subseteq log'
  BY <1>1
<1>3. HeldIn(<<t>>, log') /\ <<t>> # << >>
  BY <1>2, NewlyHeld
<1>4. HeldIn(best, log') /\ HeldIn(track, log')
  BY <1>2, HeldOn
<1> QED
  BY <1>1, <1>3, <1>4, Zenon

LEMMA HeldInit == SearchInit => HeldOK
<1> SUFFICES ASSUME SearchInit PROVE HeldOK
  OBVIOUS
<1>1. val = << >> /\ best = << >> /\ track = << >> /\ stage = "split" /\ drawn = 0
  BY DEF SearchInit
<1>2. Range(val) \subseteq analysed
  BY <1>1 DEF Range
<1>3. Trials \in Nat
  BY SearchAssumption
<1> QED
  BY <1>1, <1>2, <1>3 DEF HeldOK, HeldIn

LEMMA AboveAllowAbove ==
  ASSUME NEW a \in Int, NEW b \in Int
  PROVE  AboveAllow(a, b) \in Int /\ AboveAllow(a, b) > a
BY SearchAssumption DEF AboveAllow

LEMMA RandomTrialHeld ==
  ASSUME IInv, HeldOK, NEW draw \in Samples, RandomTrial(draw)
  PROVE  HeldOK'
<1> DEFINE block == AboveAllow(draw.allow, draw.block)
           t == Trial(draw.weights, draw.allow, block, Head(gates))
<1>1. /\ stage = "random" /\ Logged(t) /\ drawn' = drawn + 1
      /\ track' = IF drawn = 0 \/ Better(t, track[1]) THEN <<t>> ELSE track
      /\ stage' = IF drawn' = Trials THEN "descend" ELSE "random"
      /\ analysed' = analysed /\ val' = val
  BY DEF RandomTrial
<1>2. t.allow \in Int /\ t.block \in Int /\ t.block > t.allow
  <2>1. draw.allow \in Int /\ draw.block \in Int
    BY WeightAssumption
  <2>2. block \in Int /\ block > draw.allow
    BY <2>1, AboveAllowAbove
  <2>3. t.allow = draw.allow /\ t.block = block
    BY DEF Trial
  <2> HIDE DEF t, block
  <2> QED
    BY <2>1, <2>2, <2>3
<1> HIDE DEF t
<1>3. HeldIn(best', log') /\ HeldIn(track, log') /\ HeldIn(<<t>>, log') /\ <<t>> # << >>
  BY <1>1, <1>2, LoggedHeld DEF HeldOK
<1>4. track' = <<t>> \/ (track' = track /\ drawn # 0)
  BY <1>1
<1>5. HeldIn(track', log')
  BY <1>3, <1>4
<1>6. track' # << >>
  <2>1. drawn # 0 => track # << >>
    BY <1>1 DEF HeldOK
  <2> QED
    BY <1>3, <1>4, <2>1
<1>7. drawn' <= Trials /\ (stage' = "random" => drawn' < Trials)
  <2>1. drawn \in Nat /\ drawn < Trials /\ Trials \in Nat
    BY <1>1, SearchAssumption DEF HeldOK, IInv, StageOK
  <2> QED
    BY <1>1, <2>1
<1> QED
  BY <1>1, <1>3, <1>5, <1>6, <1>7 DEF HeldOK

LEMMA BaselineTrialHeld ==
  ASSUME IInv, HeldOK, BaselineTrial
  PROVE  HeldOK'
<1> DEFINE t == buildBaselineSeed(Head(gates))
<1>1. /\ stage = "baseline" /\ Logged(t) /\ track' = <<t>> /\ stage' = "descend"
      /\ drawn' = drawn /\ analysed' = analysed /\ val' = val
  BY DEF BaselineTrial
<1>2. t.allow \in Int /\ t.block \in Int /\ t.block > t.allow
  <2>1. BaseAllow \in Int /\ BaseBlock \in Int
    BY SearchAssumption
  <2>2. t.allow = BaseAllow /\ t.block = AboveAllow(BaseAllow, BaseBlock)
    BY DEF buildBaselineSeed, Trial
  <2> HIDE DEF t
  <2> QED
    BY <2>1, <2>2, AboveAllowAbove
<1> HIDE DEF t
<1>3. HeldIn(best', log') /\ HeldIn(<<t>>, log') /\ <<t>> # << >>
  BY <1>1, <1>2, LoggedHeld DEF HeldOK
<1> QED
  BY <1>1, <1>3 DEF HeldOK

\* The move that is tried leaves the thresholds in order: a pair in the wrong one
\* is left out.
LEMMA MoveKeepsOrder ==
  ASSUME NEW m \in MoveSet, NEW held, ~LeftOut(m, held),
         track[1].allow \in Int, track[1].block \in Int, track[1].block > track[1].allow
  PROVE  /\ Moved(m).allow \in Int /\ Moved(m).block \in Int
         /\ Moved(m).block > Moved(m).allow
<1> DEFINE u == track[1]
<1>1. m.kind \in {"weight", "allow", "block"} /\ m.value \in Int
  BY Zenon DEF MoveSet
<1>2. CASE m.kind = "weight"
  <2>1. Moved(m).allow = u.allow /\ Moved(m).block = u.block
    BY <1>2 DEF Moved, Trial
  <2> HIDE DEF Moved
  <2> QED
    BY <2>1
<1>3. CASE m.kind = "allow"
  <2>1. Moved(m).allow = m.value /\ Moved(m).block = u.block
    BY <1>3 DEF Moved, Trial
  <2>2. ~(u.block <= m.value)
    BY <1>3 DEF LeftOut
  <2> QED
    BY <1>1, <2>1, <2>2
<1>4. CASE m.kind = "block"
  <2>1. Moved(m).allow = u.allow /\ Moved(m).block = m.value
    BY <1>4 DEF Moved, Trial
  <2>2. ~(m.value <= u.allow)
    BY <1>4 DEF LeftOut
  <2> QED
    BY <1>1, <2>1, <2>2
<1> QED
  BY <1>1, <1>2, <1>3, <1>4

LEMMA DescentTrialHeld ==
  ASSUME IInv, HeldOK, DescentTrial
  PROVE  HeldOK'
<1> DEFINE m == Moves[position]
           held == IF m.kind = "weight" /\ m.first THEN track[1].weights[m.key] ELSE current
<1>1. stage = "descend" /\ position \in 1..Len(Moves)
  BY MovesFacts DEF DescentTrial, Descending, IInv, StageOK
<1>2. UNCHANGED <<analysed, val, stage, drawn>>
  BY DEF DescentTrial
<1>3. \/ UNCHANGED <<track, log, best>>
      \/ /\ ~LeftOut(m, held) /\ Logged(Moved(m))
         /\ track' = IF Better(Moved(m), track[1]) THEN <<Moved(m)>> ELSE track
  BY DEF DescentTrial
<1>4. m \in MoveSet
  BY <1>1, MovesFacts, ElementOfSeq
<1> HIDE DEF m, held
<1>5. CASE UNCHANGED <<track, log, best>>
  BY <1>2, <1>5 DEF HeldOK
<1>6. CASE /\ ~LeftOut(m, held) /\ Logged(Moved(m))
           /\ track' = IF Better(Moved(m), track[1]) THEN <<Moved(m)>> ELSE track
  <2>1. HeldIn(track, log) /\ HeldIn(best, log) /\ track # << >>
    BY <1>1 DEF HeldOK
  <2>2. track[1].allow \in Int /\ track[1].block \in Int /\ track[1].block > track[1].allow
    BY <2>1, HeldFirst
  <2>3. ~LeftOut(m, held) /\ Logged(Moved(m))
    BY <1>6
  <2> DEFINE t == Moved(m)
  <2>4. t.allow \in Int /\ t.block \in Int /\ t.block > t.allow
    BY <1>4, <2>2, <2>3, MoveKeepsOrder
  <2>5. track' = <<t>> \/ track' = track
    BY <1>6
  <2>6. Logged(t)
    BY <2>3
  <2> HIDE DEF t
  <2>7. HeldIn(best', log') /\ HeldIn(track, log') /\ HeldIn(<<t>>, log') /\ <<t>> # << >>
    BY <2>1, <2>4, <2>6, LoggedHeld
  <2>8. HeldIn(track', log') /\ track' # << >>
    BY <2>1, <2>5, <2>7
  <2> QED
    BY <1>2, <2>7, <2>8 DEF HeldOK
<1> QED
  BY <1>3, <1>5, <1>6

LEMMA HeldStep ==
  ASSUME ShasDiffer, ShufflesPlaces, IInv, HeldOK, [SearchNext]_calibVars
  PROVE  HeldOK'
<1>1. ASSUME NEW order \in Orders, SplitRuns(order) PROVE HeldOK'
  <2>1. /\ val' = Split(order) /\ stage' = "random" /\ stage = "split" /\ analysed' = analysed
        /\ drawn' = drawn /\ best' = best /\ track' = track /\ log' = log
    BY <1>1 DEF SplitRuns, loops
  <2>2. drawn = 0 /\ Range(Split(order)) \subseteq analysed
    BY <2>1, SplitFromCorpus DEF IInv, SplitOK
  <2>3. 0 <= Trials /\ 0 < Trials
    BY SearchAssumption
  <2> QED
    BY <2>1, <2>2, <2>3 DEF HeldOK
<1>2. ASSUME NEW draw \in Samples, RandomTrial(draw) PROVE HeldOK'
  BY <1>2, RandomTrialHeld
<1>3. CASE BaselineTrial
  BY <1>3, BaselineTrialHeld
<1>4. CASE DescentTrial
  BY <1>4, DescentTrialHeld
<1>5. CASE NextPass
  BY <1>5 DEF NextPass, HeldOK
<1>6. CASE DescentEnds
  <2>1. UNCHANGED <<analysed, val, log, best>> /\ track' = << >>
    BY <1>6 DEF DescentEnds
  <2>2. \/ stage' = "baseline" /\ drawn' = drawn
        \/ stage' \in {"done", "random"} /\ drawn' = 0
    BY <1>6 DEF DescentEnds
  <2>3. 0 <= Trials /\ 0 < Trials
    BY SearchAssumption
  <2>4. HeldIn(track', log')
    BY <2>1 DEF HeldIn
  <2> QED
    BY <2>1, <2>2, <2>3, <2>4 DEF HeldOK
<1>7. CASE UNCHANGED calibVars
  BY <1>7 DEF calibVars, loops, HeldOK
<1> QED
  BY <1>1, <1>2, <1>3, <1>4, <1>5, <1>6, <1>7 DEF SearchNext

LEMMA SearchTypedByInv == ASSUME IInv, HeldOK PROVE SearchTypeOK
<1>1. analysed \in Corpora /\ Range(val) \subseteq analysed
  BY DEF IInv, SplitOK, HeldOK
<1>2. Range(gates) \subseteq Nat
  <2>1. Gates \subseteq Nat
    BY GatesAreNat
  <2>2. gates \in Seq(Gates)
    BY DEF IInv, GatesOK
  <2>3. \A i \in DOMAIN gates : gates[i] \in Gates
    BY <2>2
  <2> QED
    BY <2>1, <2>3 DEF Range
<1>3. /\ stage \in {"split", "random", "descend", "baseline", "done"}
      /\ origin \in {"random", "baseline"} /\ improved \in BOOLEAN
      /\ position \in 1..(Len(Moves) + 1)
  BY DEF IInv, StageOK
<1>4. drawn \in 0..Trials
  BY SearchAssumption DEF IInv, StageOK, HeldOK
<1>5. pass \in 1..(RefineSteps + 1)
  BY SearchAssumption DEF IInv, StageOK
<1>6. \A t \in Range(best \o track) : t.block > t.allow /\ t.met \in log
  <2>1. ASSUME NEW s, HeldIn(s, log)
        PROVE  /\ s = << >> \/ s = <<s[1]>>
               /\ \A t \in Range(s) : t.block > t.allow /\ t.met \in log
    <3>1. CASE s = << >>
      BY <3>1 DEF Range
    <3>2. CASE s # << >>
      <4>1. PICK t : s = <<t>>
        BY <2>1, <3>2 DEF HeldIn
      <4>2. s[1] = t /\ Range(s) = {t}
        BY <4>1 DEF Range
      <4>3. s[1].block > s[1].allow /\ s[1].met \in log
        BY <2>1, <3>2, HeldFirst
      <4> QED
        BY <4>1, <4>2, <4>3
    <3> QED
      BY <3>1, <3>2
  <2>2. HeldIn(best, log) /\ HeldIn(track, log)
    BY DEF HeldOK
  <2> DEFINE R == Range(best) \union Range(track)
  <2>3. best \in Seq(R) /\ track \in Seq(R)
    <3>1. ASSUME NEW s, s = << >> \/ s = <<s[1]>>, Range(s) \subseteq R PROVE s \in Seq(R)
      <4>1. CASE s = << >>
        <5> HIDE DEF R
        <5> QED
          BY <4>1
      <4>2. CASE s = <<s[1]>>
        <5>1. s[1] \in Range(s)
          BY <4>2 DEF Range
        <5>2. s[1] \in R
          BY <3>1, <5>1
        <5> DEFINE x == s[1]
        <5> HIDE DEF R, x
        <5>3. <<x>> \in Seq(R)
          BY <5>2 DEF x
        <5> QED
          BY <4>2, <5>3 DEF x
      <4> QED
        BY <3>1, <4>1, <4>2
    <3> QED
      BY <2>1, <2>2, <3>1
  <2>4. best \o track \in Seq(R)
    <3> HIDE DEF R
    <3> QED
      BY <2>3, ConcatProperties
  <2>5. Range(best \o track) \subseteq R
    <3> HIDE DEF R
    <3> QED
      BY <2>4 DEF Range
  <2> QED
    BY <2>1, <2>2, <2>5
<1> QED
  BY <1>1, <1>2, <1>3, <1>4, <1>5, <1>6 DEF SearchTypeOK

\* Every variable of the search stays in its type, for any corpus of different
\* tarballs: what the trials are judged by is part of the corpus, no more trials
\* are drawn than asked for, and every trial that is held has been logged and
\* blocks above where it allows, although the thresholds are drawn, and moved, one
\* by one (search.go Split, Search, refineCoordinateDescent).
THEOREM SearchTyped ==
  ASSUME ShasDiffer, ShufflesPlaces
  PROVE  SearchSpec => []SearchTypeOK
<1>1. SearchInit => IInv /\ HeldOK
  BY InitHolds, HeldInit
<1>2. IInv /\ HeldOK /\ [SearchNext]_calibVars => HeldOK'
  BY HeldStep
<1>3. IInv /\ HeldOK => SearchTypeOK
  BY SearchTypedByInv
<1> QED
  BY <1>1, <1>2, <1>3, Inductive, PTL DEF SearchSpec

-----------------------------------------------------------------------------
(* The policy engine, whose verdicts the search replays: more evidence never   *)
(* means a laxer verdict, for every threshold, gate and set of signals.        *)

AllCategories == {"combo", "typosquat", "metadata", "anomaly", "install",
                  "capability", "sink", "version_diff", "other"}

\* Categories of a set of rules: finitely many, and more rules have no fewer.
LEMMA CategoriesMonotone ==
  ASSUME NEW R1 \in SUBSET Rules, NEW R2 \in SUBSET Rules, R1 \subseteq R2
  PROVE  /\ Cardinality(Categories(R1)) \in Nat
         /\ Cardinality(Categories(R2)) \in Nat
         /\ Cardinality(Categories(R1)) <= Cardinality(Categories(R2))
<1>1. IsFiniteSet(AllCategories)
  <2> DEFINE A == {"combo", "typosquat", "metadata", "anomaly", "install"}
             B == {"capability", "sink", "version_diff", "other"}
  <2>1. IsFiniteSet({"combo"}) /\ IsFiniteSet({"typosquat"})
          /\ IsFiniteSet({"metadata"}) /\ IsFiniteSet({"anomaly"})
          /\ IsFiniteSet({"install"}) /\ IsFiniteSet({"capability"})
          /\ IsFiniteSet({"sink"}) /\ IsFiniteSet({"version_diff"})
          /\ IsFiniteSet({"other"})
    BY FS_Singleton
  <2>2. IsFiniteSet(({"combo"} \union {"typosquat"}) \union {"metadata"})
    BY <2>1, FS_Union
  <2>3. IsFiniteSet((({"combo"} \union {"typosquat"}) \union {"metadata"})
                      \union ({"anomaly"} \union {"install"}))
    BY <2>1, <2>2, FS_Union
  <2>4. IsFiniteSet(({"capability"} \union {"sink"})
                      \union ({"version_diff"} \union {"other"}))
    BY <2>1, FS_Union
  <2>5. AllCategories =
          ((({"combo"} \union {"typosquat"}) \union {"metadata"})
                      \union ({"anomaly"} \union {"install"}))
            \union (({"capability"} \union {"sink"})
                      \union ({"version_diff"} \union {"other"}))
    BY DEF AllCategories
  <2>6. QED
    BY <2>3, <2>4, <2>5, FS_Union
<1>2. \A rule \in Rules : ruleCategory(rule) \in AllCategories
  BY DEF ruleCategory, AllCategories
<1>3. Categories(R1) \subseteq AllCategories /\ Categories(R2) \subseteq AllCategories
  BY <1>2 DEF Categories
<1>4. IsFiniteSet(Categories(R1)) /\ IsFiniteSet(Categories(R2))
  BY <1>1, <1>3, FS_Subset
<1>5. Categories(R1) \subseteq Categories(R2)
  BY DEF Categories
<1>6. QED
  BY <1>4, <1>5, FS_Subset, FS_CardinalityType

\* One Result holds at least the evidence of another.
AtLeast(b, a) ==
  /\ a.veto => b.veto
  /\ a.sum <= b.sum
  /\ a.rules \subseteq b.rules

\* The policy engine is monotone in the evidence.
THEOREM DecideMonotone ==
  ASSUME NEW a \in Result, NEW b \in Result, AtLeast(b, a)
  PROVE  NoHarsher(Decide(a), Decide(b))
<1>1. /\ a.veto \in BOOLEAN /\ b.veto \in BOOLEAN
      /\ a.sum \in Nat /\ b.sum \in Nat
      /\ a.rules \in SUBSET Rules /\ b.rules \in SUBSET Rules
  BY DEF Result
<1>2. GatePasses(a.rules) => GatePasses(b.rules)
  BY <1>1, CategoriesMonotone, ThresholdAssumption DEF GatePasses, AtLeast
<1>3. TotalScore(a) \in Nat /\ TotalScore(b) \in Nat /\ TotalScore(a) <= TotalScore(b)
  BY <1>1 DEF TotalScore, AtLeast
<1>4. CASE b.veto
  BY <1>1, <1>4 DEF Decide, NoHarsher, Severity
<1>5. CASE ~b.veto
  <2>1. ~a.veto
    BY <1>5, <1>1 DEF AtLeast
  <2>2. QED
    BY <2>1, <1>5, <1>2, <1>3, ThresholdAssumption
       DEF Decide, NoHarsher, Severity
<1>6. QED
  BY <1>4, <1>5, <1>1

\* The engine answers with one of the three verdicts.
LEMMA DecideType == \A r \in Result : Decide(r) \in Verdicts
  BY DEF Decide, Verdicts

\* Appending a signal, and the combination pass, only add evidence.
LEMMA AddGrows ==
  ASSUME NEW r \in Result, NEW s \in Signal
  PROVE  Add(r, s) \in Result /\ AtLeast(Add(r, s), r)
  BY DEF Add, AtLeast, Result, Signal

LEMMA CombosGrow ==
  ASSUME NEW r \in Result
  PROVE  AddComboSignals(r) \in Result /\ AtLeast(AddComboSignals(r), r)
<1> DEFINE fired == CombosOf(r.rules)
<1>1. \A c \in Combos : ScoreOf(c, fired) \in Nat
  BY SignalAssumption DEF ScoreOf
<1>2. ComboSum(fired) \in Nat
  <2> HIDE DEF fired
  <2>1. QED
    BY <1>1 DEF ComboSum, Combos
<1>3. fired \subseteq Rules
  BY DEF CombosOf, Combos, Rules, InstallRules, TyposquatRules
<1> HIDE DEF fired
<1>4. AddComboSignals(r) = [veto |-> r.veto, sum |-> r.sum + ComboSum(fired),
                            rules |-> r.rules \union fired]
  BY DEF AddComboSignals, fired
<1>5. QED
  BY <1>2, <1>3, <1>4 DEF AtLeast, Result

LEMMA NoHarsherTransitive ==
  ASSUME NEW u \in Verdicts, NEW v \in Verdicts, NEW w \in Verdicts,
         NoHarsher(u, v), NoHarsher(v, w)
  PROVE  NoHarsher(u, w)
  BY DEF NoHarsher, Severity, Verdicts

PolicyInv == TypeOK /\ VerdictIsFloor

LEMMA PolicyInit == Init => PolicyInv
  BY DEF Init, PolicyInv, TypeOK, VerdictIsFloor, EmptyResult, Result

LEMMA PolicyNext == PolicyInv /\ [Next]_vars => PolicyInv'
<1> SUFFICES ASSUME PolicyInv, [Next]_vars PROVE PolicyInv'
  OBVIOUS
<1> USE DEF PolicyInv
<1>1. ASSUME NEW s \in Layer1Signals, Layer1Signal(s) PROVE PolicyInv'
  <2>1. s \in Signal
    BY SignalAssumption
  <2>2. /\ result' = Add(result, s) /\ phase = "layer1"
        /\ phase' = phase /\ verdict' = verdict
    BY <1>1 DEF Layer1Signal
  <2>3. result' \in Result
    BY <2>1, <2>2, AddGrows DEF TypeOK
  <2>4. QED
    BY <2>2, <2>3 DEF TypeOK, VerdictIsFloor
<1>2. CASE Layer1Decide
  <2>1. verdict' = Decide(result) /\ result' = result /\ phase' \in {"decided", "post"}
    BY <1>2 DEF Layer1Decide
  <2>2. Decide(result) \in Verdicts
    BY DecideType DEF TypeOK
  <2>3. NoHarsher(Decide(result), Decide(result))
    BY <2>2 DEF NoHarsher, Severity, Verdicts
  <2>4. QED
    BY <2>1, <2>2, <2>3 DEF TypeOK, VerdictIsFloor
<1>3. ASSUME NEW s \in PostSignals, PostSignal(s) PROVE PolicyInv'
  <2>1. s \in Signal
    BY SignalAssumption
  <2>2. /\ result' = Add(result, s) /\ phase = "post"
        /\ phase' = phase /\ verdict' = verdict
    BY <1>3 DEF PostSignal
  <2>3. result \in Result /\ result' \in Result /\ AtLeast(result', result)
    BY <2>1, <2>2, AddGrows DEF TypeOK
  <2>4. NoHarsher(Decide(result), Decide(result'))
    BY <2>3, DecideMonotone
  <2>5. NoHarsher(verdict, Decide(result'))
    BY <2>2, <2>3, <2>4, DecideType, NoHarsherTransitive DEF VerdictIsFloor
  <2>6. QED
    BY <2>2, <2>3, <2>5 DEF TypeOK, VerdictIsFloor
<1>4. CASE FinalDecide
  <2>1. result' \in Result
    BY <1>4, CombosGrow DEF FinalDecide, TypeOK
  <2>2. verdict' = Decide(result') /\ phase' = "decided" /\ verdict' \in Verdicts
    BY <1>4, <2>1, DecideType DEF FinalDecide
  <2>3. NoHarsher(verdict', Decide(result'))
    BY <2>2 DEF NoHarsher, Severity, Verdicts
  <2>4. QED
    BY <2>1, <2>2, <2>3 DEF TypeOK, VerdictIsFloor
<1>5. CASE UNCHANGED vars
  BY <1>5 DEF vars, TypeOK, VerdictIsFloor
<1>6. QED
  BY <1>1, <1>2, <1>3, <1>4, <1>5 DEF Next

\* Every variable stays in its type, and the last verdict is a floor under what
\* the engine would say of the signals collected since.
THEOREM TypeAndFloor == Spec => [](TypeOK /\ VerdictIsFloor)
<1>1. QED
  BY PolicyInit, PolicyNext, PTL DEF Spec, PolicyInv

\* What the handler decides at the end is never laxer than what it decided
\* after Layer 1.
THEOREM NeverDrops == Spec => VerdictNeverDrops
<1>1. PolicyInv /\ [Next]_vars => [verdict # "none" => NoHarsher(verdict, verdict')]_vars
  <2> SUFFICES ASSUME PolicyInv, Next, verdict # "none"
               PROVE  NoHarsher(verdict, verdict')
    OBVIOUS
  <2> USE DEF PolicyInv
  <2>1. verdict \in Verdicts
    BY DEF TypeOK
  <2>2. NoHarsher(verdict, verdict)
    BY <2>1 DEF NoHarsher, Severity, Verdicts
  <2>3. CASE verdict' = verdict
    BY <2>2, <2>3
  <2>4. CASE Layer1Decide
    BY <2>4 DEF Layer1Decide, VerdictIsFloor
  <2>5. CASE FinalDecide
    <3>1. /\ result \in Result /\ result' = AddComboSignals(result)
          /\ verdict' = Decide(result') /\ phase = "post"
      BY <2>5 DEF FinalDecide, TypeOK
    <3>2. result' \in Result /\ AtLeast(result', result)
      BY <3>1, CombosGrow
    <3>3. NoHarsher(Decide(result), Decide(result'))
      BY <3>1, <3>2, DecideMonotone
    <3>4. NoHarsher(verdict, Decide(result))
      BY <3>1 DEF VerdictIsFloor
    <3>5. QED
      BY <2>1, <3>1, <3>2, <3>3, <3>4, DecideType, NoHarsherTransitive
  <2>6. QED
    BY <2>3, <2>4, <2>5 DEF Next, Layer1Signal, PostSignal
<1>2. QED
  BY <1>1, PolicyInit, PolicyNext, PTL DEF Spec, VerdictNeverDrops

\* The combination pass is complete after one run.
THEOREM CombosComplete == Spec => []ComboFixpoint
<1>1. ASSUME NEW R
      PROVE  CombosOf(R \union CombosOf(R)) = {}
  <2>1. CombosOf(R) \subseteq Combos
    BY DEF CombosOf
  <2>2. QED
    BY DEF CombosOf, Fires, Combos, TyposquatRules, InstallRules, HookRules,
           ExecRules, NetworkRules, ObfuscationRules
<1>2. TypeOK => ComboFixpoint
  BY <1>1 DEF ComboFixpoint, AddComboSignals, TypeOK, Result
<1>3. QED
  BY <1>2, TypeAndFloor, PTL
=============================================================================
