-------------------------------- MODULE Search --------------------------------
(***************************************************************************)
(* internal/calibrate and tools/calibrate: the analysed corpus is split,   *)
(* and weights, thresholds and the category gate are searched for the      *)
(* configuration that catches most malicious packages within the caps on   *)
(* false positives.  A trial replays the recorded signals through the      *)
(* policy engine the proxy runs (Policy).  Rates are exact: multiples of   *)
(* 1/Unit.                                                                 *)
(***************************************************************************)
EXTENDS Integers, Sequences, SequencesExt, FiniteSets, FiniteSetsExt

CONSTANTS
  Corpora,         \* sets of runs [sha, label, signals] of an analysed corpus
  ValNum, ValDen,  \* valFraction
  Shuffle(_, _),   \* math/rand's permutation of n elements after some draws
  TunableRules,    \* the weights the search tunes, in order
  Base,            \* DefaultWeights: the configured weights, in hundredths
  Samples,         \* bound: [weights, allow, block] a random trial may draw
  Trials,          \* the flag -trials
  RefineSteps, StepSize, WeightMin, WeightMax, AllowRange, BlockRange,
  BaseAllow, BaseBlock,           \* the configured thresholds
  Candidates,                     \* the flag -min-categories
  BaseCategories,                 \* the configured min_categories
  MaxHardFPRate, MaxSoftFPRate,   \* the caps, in units
  Unit

ASSUME SearchAssumption ==
  /\ Trials \in Nat \ {0} /\ RefineSteps \in Nat \ {0} /\ StepSize \in Nat \ {0}
  /\ Unit \in Nat \ {0} /\ Unit % 100 = 0
  /\ BaseAllow \in 1..100 /\ BaseBlock \in 1..100
  /\ MaxHardFPRate \in Int /\ MaxSoftFPRate \in Int
  /\ Candidates \in Seq(Int) /\ BaseCategories \in Nat

\* Every tunable rule has a configured weight, and a trial weighs the same rules.
ASSUME WeightAssumption ==
  /\ Base \in [DOMAIN Base -> Int] /\ TunableRules \in Seq(DOMAIN Base)
  /\ \A draw \in Samples :
       draw.weights \in [DOMAIN Base -> Int] /\ draw.allow \in Int /\ draw.block \in Int
  /\ WeightMin \in Int /\ WeightMax \in Int
  /\ AllowRange \in Int \X Int /\ BlockRange \in Int \X Int

ASSUME CorpusAssumption ==
  /\ \A c \in Corpora : IsFiniteSet(c)
  /\ ValNum \in Nat /\ ValDen \in Nat \ {0} /\ ValNum <= ValDen

VARIABLES
  analysed,  \* the corpus
  val,       \* its validation part, a sequence of runs
  gates,     \* the values of min_categories not finished
  stage,     \* "split", "random", "descend", "baseline" or "done"
  drawn,     \* random trials made
  origin,    \* what the descent started from: "random" or "baseline"
  track,     \* the best trial of the random phase or of the descent
  pass, position,  \* the descent's pass, and its position in the pass
  current,   \* the weight a sweep found when it began
  improved,  \* this pass has found a better trial
  log,       \* the confusion matrices of all trials
  best,      \* the best trial of all, << >> before the first
  descents   \* history: where each coordinate descent ended

loops == <<drawn, origin, track, pass, position, current, improved>>
calibVars == <<analysed, val, gates, stage, loops, log, best, descents>>

Labels == {"benign", "malicious"}

-----------------------------------------------------------------------------
(* The split. *)

\* A set in ascending order of a key: the i-th member has i - 1 below it.
Sorted(S, key) ==
  [i \in 1..Cardinality(S) |-> CHOOSE x \in S : Cardinality({y \in S : key[y] < key[x]}) = i - 1]

OfLabel(l) == {r \in analysed : r.label = l}

\* Each label's runs are sorted and shuffled, and their first part is for
\* validation.  One generator serves both labels, in the order in which the map
\* of the groups is iterated: the second group's shuffle starts where the first
\* one's left it.
Split(order) ==
  LET group(l) == Sorted(OfLabel(l), [r \in OfLabel(l) |-> r.sha])
      spent(l) == IF l = order[1] THEN 0 ELSE Len(group(order[1]))
      shuffled(l) == [i \in DOMAIN group(l) |-> group(l)[Shuffle(spent(l), Len(group(l)))[i]]]
      part(l) == SubSeq(shuffled(l), 1, (Len(group(l)) * ValNum) \div ValDen)
  IN  part(order[1]) \o part(order[2])

Orders == {<<"benign", "malicious">>, <<"malicious", "benign">>}

-----------------------------------------------------------------------------
(* One trial. *)

\* The engine of a trial.  The combination signals are recorded ones here.
Policy(allow, block, categories) == INSTANCE Engine WITH
  AllowThreshold <- allow, BlockThreshold <- block, MinCategories <- categories,
  ComboScore <- << >>

WeightKey(rule) ==
  CASE rule = "anomaly_version_spike"            -> "anomaly_release_burst"
    [] rule = "license_patch_change"             -> "license_changed_in_patch"
    [] rule = "capability_exec"                  -> "cap_exec"
    [] rule = "obfuscation_high_entropy"         -> "entropy_obfuscation"
    [] rule = "version_diff_new_dependency"      -> "version_diff_new_deps_in_patch"
    [] rule = "install_script_child_process_"    -> "install_script_child_process"
    [] rule = "install_script_external_url_"     -> "install_script_external_url"
    [] OTHER                                     -> rule

Tuned(s, weights) ==
  IF WeightKey(s.rule) \in DOMAIN weights
    THEN [s EXCEPT !.score = weights[WeightKey(s.rule)]] ELSE s

ApplyWithMinCategories(run, weights, allow, block, categories) ==
  LET E(res, s) == Policy(allow, block, categories)!Add(res, Tuned(s, weights))
      replayed == FoldLeft(E, Policy(allow, block, categories)!EmptyResult, run.signals)
  IN  Policy(allow, block, categories)!Decide(replayed)

\* The confusion matrix of some runs.
Evaluate(runs, weights, allow, block, categories) ==
  LET decided == [i \in DOMAIN runs |->
                    ApplyWithMinCategories(runs[i], weights, allow, block, categories)]
  IN  [l \in Labels |-> [v \in {"allow", "warn", "block"} |->
         Cardinality({i \in DOMAIN runs : runs[i].label = l /\ decided[i] = v})]]

Trial(weights, allow, block, categories) ==
  [weights |-> weights, allow |-> allow, block |-> block, minCategories |-> categories,
   met |-> Evaluate(val, weights, allow, block, categories)]

Rate(part, met, l) ==
  LET all == met[l]["allow"] + met[l]["warn"] + met[l]["block"]
  IN  IF all = 0 THEN 0 ELSE (Unit * part) \div all

HardFPRate(met) == Rate(met["benign"]["block"], met, "benign")
SoftFPRate(met) == Rate(met["benign"]["warn"], met, "benign")
CatchRate(met) == Rate(met["malicious"]["warn"] + met["malicious"]["block"], met, "malicious")

respectsObjective(met) ==
  /\ HardFPRate(met) <= MaxHardFPRate
  /\ MaxSoftFPRate <= 0 \/ SoftFPRate(met) <= MaxSoftFPRate

\* Slip: only too many blocks take a trial out of the ranking by catch.
ScoreOneCap(met) ==
  IF HardFPRate(met) > MaxHardFPRate THEN 0 - Unit - HardFPRate(met) + CatchRate(met) \div 100
  ELSE CatchRate(met) - SoftFPRate(met) \div 10

Score(met) ==
  CASE HardFPRate(met) > MaxHardFPRate
         -> 0 - Unit - HardFPRate(met) + CatchRate(met) \div 100
    [] HardFPRate(met) <= MaxHardFPRate /\ ~respectsObjective(met)
         -> 0 - Unit \div 2 - SoftFPRate(met) + CatchRate(met) \div 100
    [] OTHER
         -> CatchRate(met) - SoftFPRate(met) \div 10

-----------------------------------------------------------------------------
(* The search. *)

Better(t, u) == Score(t.met) > Score(u.met)

\* Slip: without the 1e-9 the sum of the steps misses the upper end.
GridOpen(low, high) == [i \in 1..((high - low - 1) \div StepSize + 1) |-> low + (i - 1) * StepSize]

GridOf(low, high) == [i \in 1..((high - low) \div StepSize + 1) |-> low + (i - 1) * StepSize]

MovesOn(kind, key, grid) ==
  [i \in DOMAIN grid |-> [kind |-> kind, key |-> key, value |-> grid[i], first |-> i = 1]]

\* One pass of refineCoordinateDescent: every weight, then the thresholds.
Moves ==
  FlattenSeq([i \in DOMAIN TunableRules |->
                MovesOn("weight", TunableRules[i], GridOf(WeightMin, WeightMax))])
    \o MovesOn("allow", "", GridOf(AllowRange[1], AllowRange[2]))
    \o MovesOn("block", "", GridOf(BlockRange[1], BlockRange[2]))

\* A block threshold is always above the allow threshold.
AboveAllow(allow, block) == IF block <= allow THEN allow + StepSize ELSE block

normalizeMinCategories ==
  LET kept  == Range(Candidates) \intersect Nat
      given == IF kept = {} THEN {BaseCategories} ELSE kept
  IN  Sorted(given, [n \in given |-> n])

SearchInit ==
  /\ analysed \in Corpora
  /\ gates = normalizeMinCategories /\ stage = "split"
  /\ val = << >> /\ log = {} /\ best = << >> /\ descents = {}
  /\ drawn = 0 /\ origin = "random" /\ track = << >>
  /\ pass = 1 /\ position = 1 /\ current = 0 /\ improved = FALSE

\* Search keeps the first of the best trials of the whole log.
Logged(t) ==
  /\ log' = log \union {t.met}
  /\ best' = IF best = << >> \/ Better(t, best[1]) THEN <<t>> ELSE best

SplitRuns(order) ==
  /\ stage = "split"
  /\ val' = Split(order)
  /\ stage' = "random"
  /\ UNCHANGED <<analysed, gates, loops, log, best, descents>>

\* searchOneMinCategory, Phase A.
RandomTrial(draw) ==
  LET t == Trial(draw.weights, draw.allow, AboveAllow(draw.allow, draw.block), Head(gates)) IN
  /\ stage = "random"
  /\ Logged(t)
  /\ track' = IF drawn = 0 \/ Better(t, track[1]) THEN <<t>> ELSE track
  /\ drawn' = drawn + 1
  /\ stage' = IF drawn' = Trials THEN "descend" ELSE "random"
  /\ UNCHANGED <<analysed, val, gates, origin, pass, position, current, improved, descents>>

buildBaselineSeed(categories) ==
  Trial(Base, BaseAllow, AboveAllow(BaseAllow, BaseBlock), categories)

BaselineTrial ==
  /\ stage = "baseline"
  /\ Logged(buildBaselineSeed(Head(gates)))
  /\ track' = <<buildBaselineSeed(Head(gates))>>
  /\ origin' = "baseline" /\ stage' = "descend"
  /\ UNCHANGED <<analysed, val, gates, drawn, pass, position, current, improved, descents>>

Moved(move) ==
  LET u == track[1] IN
  CASE move.kind = "weight" -> Trial([u.weights EXCEPT ![move.key] = move.value],
                                     u.allow, u.block, u.minCategories)
    [] move.kind = "allow"  -> Trial(u.weights, move.value, u.block, u.minCategories)
    [] move.kind = "block"  -> Trial(u.weights, u.allow, move.value, u.minCategories)

\* The weight's own value is left out, and thresholds in the wrong order.
LeftOut(move, held) ==
  CASE move.kind = "weight" -> move.value = held
    [] move.kind = "allow"  -> track[1].block <= move.value
    [] move.kind = "block"  -> move.value <= track[1].allow

Descending == stage = "descend" /\ pass <= RefineSteps /\ position <= Len(Moves)

DescentTrial ==
  /\ Descending
  /\ LET move == Moves[position]
         held == IF move.kind = "weight" /\ move.first THEN track[1].weights[move.key]
                                                        ELSE current IN
     /\ current' = held
     /\ \/ /\ LeftOut(move, held)
           /\ UNCHANGED <<track, improved, log, best>>
        \/ /\ ~LeftOut(move, held)
           /\ Logged(Moved(move))
           /\ track' = IF Better(Moved(move), track[1]) THEN <<Moved(move)>> ELSE track
           /\ improved' = (improved \/ Better(Moved(move), track[1]))
  /\ position' = position + 1
  /\ UNCHANGED <<analysed, val, gates, stage, drawn, origin, pass, descents>>

\* Another pass, if this one has improved and one is left.
NextPass ==
  /\ stage = "descend" /\ ~Descending
  /\ improved /\ pass < RefineSteps
  /\ pass' = pass + 1 /\ position' = 1 /\ improved' = FALSE /\ current' = 0
  /\ UNCHANGED <<analysed, val, gates, stage, drawn, origin, track, log, best, descents>>

\* The descent ends: the baseline's turn, the next gate's, or the end.
DescentEnds ==
  /\ stage = "descend" /\ ~Descending
  /\ ~(improved /\ pass < RefineSteps)
  /\ descents' = descents \union {[trial |-> track[1], settled |-> ~improved]}
  /\ pass' = 1 /\ position' = 1 /\ improved' = FALSE /\ current' = 0
  /\ origin' = "random" /\ track' = << >>
  /\ \/ /\ origin = "random"
        /\ stage' = "baseline"
        /\ UNCHANGED <<gates, drawn>>
     \/ /\ origin = "baseline"
        /\ gates' = Tail(gates) /\ drawn' = 0
        /\ stage' = IF gates' = << >> THEN "done" ELSE "random"
  /\ UNCHANGED <<analysed, val, log, best>>

SearchNext ==
  \/ \E order \in Orders : SplitRuns(order)
  \/ \E draw \in Samples : RandomTrial(draw)
  \/ BaselineTrial
  \/ DescentTrial
  \/ NextPass
  \/ DescentEnds

SearchSpec == SearchInit /\ [][SearchNext]_calibVars

\* Slip: a trial is dominated by one that is only as good.
dominatesWeakly(a, b) ==
  /\ CatchRate(a) >= CatchRate(b)
  /\ HardFPRate(a) <= HardFPRate(b)
  /\ SoftFPRate(a) <= SoftFPRate(b)

dominatesTrial(a, b) ==
  /\ CatchRate(a) >= CatchRate(b)
  /\ HardFPRate(a) <= HardFPRate(b)
  /\ SoftFPRate(a) <= SoftFPRate(b)
  /\ \/ CatchRate(a) > CatchRate(b)
     \/ HardFPRate(a) < HardFPRate(b)
     \/ SoftFPRate(a) < SoftFPRate(b)

\* printParetoFrontier, before it is sorted and cut to what fits the table.
Frontier ==
  LET feasible == {met \in log : respectsObjective(met)}
  IN  {met \in feasible : \A other \in feasible : ~dominatesTrial(other, met)}

-----------------------------------------------------------------------------
(* Properties. *)

\* Every variable stays in its type.
SearchTypeOK ==
  /\ analysed \in Corpora /\ Range(val) \subseteq analysed
  /\ Range(gates) \subseteq Nat
  /\ stage \in {"split", "random", "descend", "baseline", "done"}
  /\ drawn \in 0..Trials /\ origin \in {"random", "baseline"}
  /\ pass \in 1..(RefineSteps + 1) /\ position \in 1..(Len(Moves) + 1)
  /\ improved \in BOOLEAN
  /\ \A t \in Range(best \o track) : t.block > t.allow /\ t.met \in log

\* What is written as the calibrated configuration keeps to both caps if any
\* trial does, no trial that keeps to them has a higher catch for as few
\* warnings, and it does not rank below the configuration the proxy has now, for
\* each gate that was tried (search.go Search, metrics.go Score).
BestTrialSound ==
  stage = "done" =>
    LET b == best[1].met IN
    /\ \A met \in log : respectsObjective(met) =>
         /\ respectsObjective(b)
         /\ SoftFPRate(met) <= SoftFPRate(b) => CatchRate(met) <= CatchRate(b)
    /\ \A categories \in Range(normalizeMinCategories) :
         Score(buildBaselineSeed(categories).met) <= Score(b)

\* The values of a grid between two bounds.
GridPoints(low, high) == {v \in low..high : (v - low) % StepSize = 0}

\* Changing one weight or one threshold of a trial does not raise its score.
LocalOptimum(t) ==
  LET atMost(w, allow, block) ==
        Score(Evaluate(val, w, allow, block, t.minCategories)) <= Score(t.met) IN
  /\ \A k \in Range(TunableRules), v \in GridPoints(WeightMin, WeightMax) :
       atMost([t.weights EXCEPT ![k] = v], t.allow, t.block)
  /\ \A v \in GridPoints(AllowRange[1], AllowRange[2]) :
       v < t.block => atMost(t.weights, v, t.block)
  /\ \A v \in GridPoints(BlockRange[1], BlockRange[2]) :
       v > t.allow => atMost(t.weights, t.allow, v)

\* A descent that did not run out of passes stands at a local optimum: no other
\* value of one weight or one threshold on the grid scores higher (search.go
\* refineCoordinateDescent).
DescentsSettle ==
  stage = "done" => \A d \in descents : d.settled => LocalOptimum(d.trial)

\* The table of trade-offs is complete: every trial within the caps is on it, by
\* its numbers, or something on it is at least as good on every axis and better
\* on one (main.go printParetoFrontier).
FrontierCovers ==
  stage = "done" =>
    \A met \in log : respectsObjective(met) =>
      \E f \in Frontier : f = met \/ dominatesTrial(f, met)

\* search.go:67: "deterministic hash so the same corpus always splits the same
\* way".  Another call on the same corpus would return the same validation part.
SplitRepeatable ==
  stage # "split" => \A order \in Orders : Range(Split(order)) = Range(val)
=============================================================================
