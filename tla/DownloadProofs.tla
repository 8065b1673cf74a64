--------------------------- MODULE DownloadProofs ---------------------------
(***************************************************************************)
(* A download and its analysis, for any packages and any limits: no        *)
(* tarball outgrows the limits (TreeWithinLimits), the detectors see whole *)
(* tarballs only (TreeIsPublished), the signals are those of the package,  *)
(* in whatever order its files are scanned (AnalysisOrderFree), and the    *)
(* deep check accuses nobody falsely (DeepSignalsJustified).  The second   *)
(* half is about what the detectors look at: of a source of any length,    *)
(* the comments and literals are scrubbed and nothing else (Scrubbed).     *)
(*                                                                         *)
(*   ExtractOK  what is left to read follows upon what is unpacked;        *)
(*   LimitsOK   the bytes counted are at least those kept, for a path that *)
(*              comes again is counted twice and kept once;                *)
(*   ScanOK     what is found and what is still to scan make the whole;    *)
(*   ResultOK   the signals so far are those of the steps so far.          *)
(*                                                                         *)
(* A sum over the files of a package is a fold, which the provers cannot   *)
(* take apart by induction.  The first section does it with a least        *)
(* counterexample instead: among finite sets one that is minimal exists.   *)
(***************************************************************************)
EXTENDS Download, JsLex, SequenceTheorems, Induction

--------------------------------------------------------------------------------
\* Sums over finite sets.

\* The member that MapThenSumSet's fold takes out of a set first, and the fold.
Pick(S) == CHOOSE x \in S : TRUE

IsSum(g, f, S) ==
    g = [s \in SUBSET S |-> IF s = {} THEN 0 ELSE f[Pick(s)] + g[s \ {Pick(s)}]]

\* SumOf by the function that its fold is (download limits and string counts).
LEMMA SumByFunction ==
    ASSUME NEW f, NEW S
    PROVE  SumOf(f, S) = (CHOOSE g : IsSum(g, f, S))[S]
BY DEF SumOf, MapThenSumSet, MapThenFoldSet, IsSum, Pick

\* Two folds agree on the sets that both know and on which their summands agree.
LEMMA SumUnique ==
    ASSUME NEW S, IsFiniteSet(S), NEW T, NEW f, NEW e, NEW g, NEW h,
           IsSum(g, f, S), IsSum(h, e, T), NEW W \in SUBSET S, W \subseteq T,
           \A x \in W : f[x] = e[x]
    PROVE  g[W] = h[W]
<1> DEFINE Bad == {U \in SUBSET W : g[U] # h[U]}
<1>1. IsFiniteSet(W)
  BY FS_Subset
<1>2. SUFFICES ASSUME Bad # {} PROVE FALSE
  OBVIOUS
<1>3. PICK U \in Bad : \A V \in Bad : V \subseteq U => V = U
  <2>1. Bad \in SUBSET SUBSET W
    OBVIOUS
  <2> HIDE DEF Bad
  <2> QED
    BY ONLY <2>1, <1>1, <1>2, MinimalSet
<1>4. U \in SUBSET S /\ U \in SUBSET T
  OBVIOUS
<1>5. /\ g[U] = IF U = {} THEN 0 ELSE f[Pick(U)] + g[U \ {Pick(U)}]
      /\ h[U] = IF U = {} THEN 0 ELSE e[Pick(U)] + h[U \ {Pick(U)}]
  BY <1>4 DEF IsSum
<1>6. U # {}
  BY <1>5
<1>7. Pick(U) \in U
  BY <1>6 DEF Pick
<1>8. g[U \ {Pick(U)}] = h[U \ {Pick(U)}]
  BY <1>3, <1>7
<1> QED
  BY <1>5, <1>6, <1>7, <1>8

\* The fold exists for every finite set.
LEMMA SumExists ==
    ASSUME NEW S, IsFiniteSet(S), NEW f
    PROVE  \E g : IsSum(g, f, S)
<1> DEFINE Bad == {U \in SUBSET S : ~ \E g : IsSum(g, f, U)}
<1>1. SUFFICES ASSUME Bad # {} PROVE FALSE
  OBVIOUS
<1>2. PICK U \in Bad : \A V \in Bad : V \subseteq U => V = U
  <2>1. Bad \in SUBSET SUBSET S
    OBVIOUS
  <2> HIDE DEF Bad
  <2> QED
    BY ONLY <2>1, <1>1, IsFiniteSet(S), MinimalSet
<1> DEFINE G(V) == CHOOSE g : IsSum(g, f, V)
           h == [s \in SUBSET U |-> IF s = {} THEN 0
                    ELSE f[Pick(s)] + G(s \ {Pick(s)})[s \ {Pick(s)}]]
<1>3. IsFiniteSet(U)
  BY FS_Subset
<1>4. \A V \in SUBSET U : V # U => IsSum(G(V), f, V)
  <2> SUFFICES ASSUME NEW V \in SUBSET U, V # U PROVE IsSum(G(V), f, V)
    OBVIOUS
  <2>1. \E g : IsSum(g, f, V)
    BY <1>2
  <2> HIDE DEF Bad
  <2> QED
    BY <2>1
<1>5. \A V \in SUBSET U : V # U => h[V] = G(V)[V]
  <2> SUFFICES ASSUME NEW V \in SUBSET U, V # U PROVE h[V] = G(V)[V]
    OBVIOUS
  <2>1. IsSum(G(V), f, V)
    BY <1>4
  <2>2. G(V)[V] = IF V = {} THEN 0 ELSE f[Pick(V)] + G(V)[V \ {Pick(V)}]
    <3> HIDE DEF G
    <3> QED
      BY <2>1 DEF IsSum
  <2>3. CASE V = {}
    BY <2>2, <2>3
  <2>4. CASE V # {}
    <3> DEFINE W == V \ {Pick(V)}
    <3>1. Pick(V) \in V
      BY <2>4 DEF Pick
    <3>2. W \in SUBSET U /\ W # U /\ W \subseteq V
      BY <3>1
    <3>3. IsSum(G(W), f, W)
      BY <3>2, <1>4
    <3>4. IsFiniteSet(V)
      BY <1>3, FS_Subset
    <3>5. G(V)[W] = G(W)[W]
      <4> HIDE DEF G, W, Bad, h
      <4> QED
        BY ONLY <3>2, <3>3, <3>4, <2>1, SumUnique
    <3>6. h[V] = f[Pick(V)] + G(W)[W]
      BY <2>4
    <3> QED
      BY <3>5, <3>6, <2>2, <2>4
  <2> QED
    BY <2>3, <2>4
<1>6. IsSum(h, f, U)
  <2>1. \A s \in SUBSET U : s # {} => G(s \ {Pick(s)})[s \ {Pick(s)}] = h[s \ {Pick(s)}]
    <3> SUFFICES ASSUME NEW s \in SUBSET U, s # {}
                 PROVE  G(s \ {Pick(s)})[s \ {Pick(s)}] = h[s \ {Pick(s)}]
      OBVIOUS
    <3>1. Pick(s) \in s
      BY DEF Pick
    <3>2. s \ {Pick(s)} \in SUBSET U /\ s \ {Pick(s)} # U
      BY <3>1
    <3> HIDE DEF G, h
    <3> QED
      BY <3>2, <1>5
  <2>2. h = [s \in SUBSET U |-> IF s = {} THEN 0 ELSE f[Pick(s)] + h[s \ {Pick(s)}]]
    <3>1. \A s \in SUBSET U :
             (IF s = {} THEN 0 ELSE f[Pick(s)] + G(s \ {Pick(s)})[s \ {Pick(s)}])
               = (IF s = {} THEN 0 ELSE f[Pick(s)] + h[s \ {Pick(s)}])
      <4> HIDE DEF h, G
      <4> QED
        BY <2>1
    <3> DEFINE A(s) == IF s = {} THEN 0 ELSE f[Pick(s)] + G(s \ {Pick(s)})[s \ {Pick(s)}]
               B(s) == IF s = {} THEN 0 ELSE f[Pick(s)] + h[s \ {Pick(s)}]
    <3>2. h = [s \in SUBSET U |-> A(s)]
      OBVIOUS
    <3>3. \A s \in SUBSET U : A(s) = B(s)
      BY <3>1
    <3> HIDE DEF A, B, h
    <3>4. [s \in SUBSET U |-> A(s)] = [s \in SUBSET U |-> B(s)]
      BY <3>3
    <3>5. h = [s \in SUBSET U |-> B(s)]
      BY <3>2, <3>4
    <3> QED
      BY <3>5 DEF B
  <2> HIDE DEF h
  <2> QED
    BY <2>2 DEF IsSum
<1> HIDE DEF h
<1> QED
  BY <1>6, <1>2

\* A sum is that of a member and of the rest.
LEMMA SumPick ==
    ASSUME NEW S, IsFiniteSet(S), NEW f
    PROVE  /\ SumOf(f, {}) = 0
           /\ S # {} => SumOf(f, S) = f[Pick(S)] + SumOf(f, S \ {Pick(S)})
<1> DEFINE G(V) == CHOOSE g : IsSum(g, f, V)
<1>1. \A V \in SUBSET S : IsSum(G(V), f, V) /\ SumOf(f, V) = G(V)[V]
  <2> SUFFICES ASSUME NEW V \in SUBSET S PROVE IsSum(G(V), f, V) /\ SumOf(f, V) = G(V)[V]
    OBVIOUS
  <2>1. IsFiniteSet(V)
    BY FS_Subset
  <2>2. \E g : IsSum(g, f, V)
    BY <2>1, SumExists
  <2> QED
    BY <2>2, SumByFunction
<1> HIDE DEF G
<1>2. SumOf(f, {}) = 0
  <2>1. IsSum(G({}), f, {}) /\ SumOf(f, {}) = G({})[{}]
    BY <1>1
  <2> QED
    BY <2>1 DEF IsSum
<1>3. ASSUME S # {} PROVE SumOf(f, S) = f[Pick(S)] + SumOf(f, S \ {Pick(S)})
  <2>1. G(S)[S] = f[Pick(S)] + G(S)[S \ {Pick(S)}]
    BY <1>3, <1>1 DEF IsSum
  <2>2. G(S)[S \ {Pick(S)}] = G(S \ {Pick(S)})[S \ {Pick(S)}]
    <3> DEFINE W == S \ {Pick(S)}
    <3>1. W \in SUBSET S /\ IsSum(G(W), f, W) /\ IsSum(G(S), f, S)
      BY <1>1
    <3> HIDE DEF W
    <3>2. G(S)[W] = G(W)[W]
      BY ONLY <3>1, IsFiniteSet(S), SumUnique
    <3> QED
      BY <3>2 DEF W
  <2> QED
    BY <2>1, <2>2, <1>1
<1> QED
  BY <1>2, <1>3

\* A sum depends on the summands of its set only.
LEMMA SumAgree ==
    ASSUME NEW S, IsFiniteSet(S), NEW f, NEW e, \A x \in S : f[x] = e[x]
    PROVE  SumOf(f, S) = SumOf(e, S)
<1>1. PICK g : g = (CHOOSE w : IsSum(w, f, S)) /\ IsSum(g, f, S)
  BY SumExists
<1>2. PICK h : h = (CHOOSE w : IsSum(w, e, S)) /\ IsSum(h, e, S)
  BY SumExists
<1>3. g[S] = h[S]
  BY <1>1, <1>2, SumUnique
<1> QED
  BY <1>1, <1>2, <1>3, SumByFunction

\* Sums of natural numbers are natural numbers.
LEMMA SumNat ==
    ASSUME NEW S, IsFiniteSet(S), NEW f, \A x \in S : f[x] \in Nat
    PROVE  SumOf(f, S) \in Nat
<1> DEFINE Bad == {U \in SUBSET S : SumOf(f, U) \notin Nat}
<1>1. SUFFICES ASSUME Bad # {} PROVE FALSE
  OBVIOUS
<1>2. PICK U \in Bad : \A V \in Bad : V \subseteq U => V = U
  <2>1. Bad \in SUBSET SUBSET S
    OBVIOUS
  <2> HIDE DEF Bad
  <2> QED
    BY ONLY <2>1, <1>1, IsFiniteSet(S), MinimalSet
<1>3. IsFiniteSet(U)
  BY FS_Subset
<1>4. U # {} /\ SumOf(f, U) = f[Pick(U)] + SumOf(f, U \ {Pick(U)})
  <2>1. SumOf(f, U) \notin Nat
    OBVIOUS
  <2> HIDE DEF Bad
  <2>2. SumOf(f, {}) = 0
    BY <1>3, SumPick
  <2>3. U # {}
    BY <2>1, <2>2
  <2>4. SumOf(f, U) = f[Pick(U)] + SumOf(f, U \ {Pick(U)})
    BY <1>3, <2>3, SumPick
  <2> QED
    BY <2>3, <2>4
<1>5. Pick(U) \in U
  BY <1>4 DEF Pick
<1>6. SumOf(f, U \ {Pick(U)}) \in Nat
  BY <1>2, <1>5
<1> QED
  BY <1>4, <1>5, <1>6

\* Any member may be taken out of a sum first: what lets the maps yield their
\* files in any order.
LEMMA SumTake ==
    ASSUME NEW S, IsFiniteSet(S), NEW f, \A x \in S : f[x] \in Nat, NEW x \in S
    PROVE  SumOf(f, S) = f[x] + SumOf(f, S \ {x})
<1> DEFINE Bad == {U \in SUBSET S : \E y \in U : SumOf(f, U) # f[y] + SumOf(f, U \ {y})}
<1>1. SUFFICES ASSUME Bad # {} PROVE FALSE
  OBVIOUS
<1>2. PICK U \in Bad : \A V \in Bad : V \subseteq U => V = U
  <2>1. Bad \in SUBSET SUBSET S
    OBVIOUS
  <2> HIDE DEF Bad
  <2> QED
    BY ONLY <2>1, <1>1, IsFiniteSet(S), MinimalSet
<1>3. PICK y \in U : SumOf(f, U) # f[y] + SumOf(f, U \ {y})
  OBVIOUS
<1> DEFINE z == Pick(U)
<1>4. z \in U
  BY <1>3 DEF Pick
<1>5. \A V \in SUBSET U : IsFiniteSet(V) /\ SumOf(f, V) \in Nat
  <2> SUFFICES ASSUME NEW V \in SUBSET U PROVE IsFiniteSet(V) /\ SumOf(f, V) \in Nat
    OBVIOUS
  <2>1. IsFiniteSet(V) /\ \A v \in V : f[v] \in Nat
    BY FS_Subset
  <2> QED
    BY <2>1, SumNat
<1>6. SumOf(f, U) = f[z] + SumOf(f, U \ {z})
  <2>1. IsFiniteSet(U) /\ U # {}
    BY <1>5
  <2> HIDE DEF Bad
  <2> QED
    BY <2>1, SumPick
<1>7. z # y
  BY <1>3, <1>6
<1>8. \A V \in SUBSET U : V # U => \A v \in V : SumOf(f, V) = f[v] + SumOf(f, V \ {v})
  BY <1>2
<1> HIDE DEF z, Bad
<1>9. SumOf(f, U \ {z}) = f[y] + SumOf(f, (U \ {z}) \ {y})
  BY <1>8, <1>4, <1>7
<1>10. SumOf(f, U \ {y}) = f[z] + SumOf(f, (U \ {y}) \ {z})
  BY <1>8, <1>4, <1>7
<1>11. (U \ {z}) \ {y} = (U \ {y}) \ {z}
  OBVIOUS
<1>12. f[y] \in Nat /\ f[z] \in Nat /\ SumOf(f, (U \ {z}) \ {y}) \in Nat
  <2>1. U \in SUBSET S
    BY DEF Bad
  <2> QED
    BY <2>1, <1>4, <1>5
<1> QED
  BY <1>3, <1>6, <1>9, <1>10, <1>11, <1>12

--------------------------------------------------------------------------------
\* The inductive invariant.

USE DEF downloadVars, fetching, unpacked, scanned

IsTarballOfCases(t) == IsTarball(t) /\ Range(t.entries) \subseteq Entries

CaseOK ==
    /\ IsTarballOfCases(case.tarball)
    /\ \A v \in DOMAIN case.versions : IsTarballOfCases(case.versions[v].tarball)

\* A map of paths to files.
IsFiles(files) ==
    /\ files = [p \in DOMAIN files |-> files[p]]
    /\ IsFiniteSet(DOMAIN files)
    /\ \A p \in DOMAIN files : files[p] \in Entries

TypesOK ==
    /\ DownloadTypeOK
    /\ archive \in Seq(Entries)
    /\ DOMAIN tree = Jobs /\ tree = [j \in Jobs |-> tree[j]]
    /\ \A j \in Jobs : IsFiles(tree[j])
    /\ totalBytes \in [Jobs -> Nat]
    /\ todo = [capabilities |-> todo.capabilities, entropy |-> todo.entropy]
    /\ strings \in Nat \X Nat

ControlOK ==
    /\ pc = "backoff" => attempt < MaxRetries
    /\ job = "previous" => Comparable
    /\ pc \in {"verify", "scripts", "scan", "sinks", "diff"} => job = "current"
    /\ pc = "capabilities" => job = "previous"
    /\ outcome # "none" => pc = "done"

\* files is what the first k entries unpack to.
Unpacked(entries, k, files) ==
    /\ DOMAIN files = {entries[i].path : i \in {j \in 1..k : entries[j].regular}}
    /\ \A p \in DOMAIN files : \E i \in 1..k :
          /\ entries[i].regular /\ entries[i].path = p /\ files[p] = entries[i]
          /\ \A j \in 1..k : entries[j].regular /\ entries[j].path = p => j <= i

\* What is left to read follows upon what is unpacked, and a tear shows.
ExtractOK ==
    pc \in {"verify", "unpack"} =>
        \E k \in 0..Len(Tarball.entries) :
            /\ k + Len(archive) <= Len(Tarball.entries)
            /\ ~body.torn => k + Len(archive) = Len(Tarball.entries)
            /\ \A i \in 1..Len(archive) : archive[i] = Tarball.entries[k + i]
            /\ Unpacked(Tarball.entries, k, tree[job])

TreesOK ==
    /\ pc \in AnalysisPhases \/ job = "previous" \/ outcome = "analysed"
         => tree["current"] = Published(case.tarball)
    /\ pc = "capabilities" => tree["previous"] = Published(PrevMeta.tarball)
    /\ pc \in {"request", "backoff", "verify"} => tree[job] = NoFiles
    /\ job = "current" => tree["previous"] = NoFiles

Sizes(files) == [p \in DOMAIN files |-> files[p].size]

WithinLimits(files, bytes) ==
    /\ Cardinality(DOMAIN files) <= MaxFiles
    /\ \A p \in DOMAIN files : ~Escapes(p) /\ files[p].size <= MaxFileBytes
    /\ SumOf(Sizes(files), DOMAIN files) <= bytes
    /\ bytes <= MaxTotalBytes

LimitsOK == \A j \in Jobs : WithinLimits(tree[j], totalBytes[j])

Strings(files, k) == [p \in DOMAIN files |-> scanFileEntropy(files[p].content)[k]]
CapabilitiesIn(files, S) == UNION {detectCapabilities(files[p].content) : p \in S}
Counts(files) == <<Counted(files, 1), Counted(files, 2)>>

Unscanned ==
    /\ caps = {} /\ strings = <<0, 0>> /\ result = {}
    /\ todo = [capabilities |-> {}, entropy |-> {}]

\* What the detectors have found and what they have not looked at make the whole.
ScanOK ==
    /\ job = "current" /\ pc \in {"request", "backoff", "verify", "unpack", "scripts"}
         => Unscanned
    /\ pc = "scan" =>
         /\ todo.capabilities \subseteq JSFiles(tree["current"])
         /\ todo.entropy \subseteq SourceFiles(tree["current"])
         /\ caps \union CapabilitiesIn(tree["current"], todo.capabilities)
               = CapabilitiesOf(tree["current"])
         /\ \A k \in {1, 2} :
               strings[k] + SumOf(Strings(tree["current"], k), todo.entropy)
                  = Counted(tree["current"], k)
    /\ pc \in {"sinks", "diff"} \/ job = "previous" =>
         /\ caps = CapabilitiesOf(tree["current"])
         /\ strings = Counts(tree["current"])

ScriptChoices(files) ==
    IF Manifests(files) = {} THEN {{}} ELSE {ScriptRules(m) : m \in Manifests(files)}

ScanRules(files) == CapabilityRules(CapabilitiesOf(files)) \union EntropyRules(Counts(files))
SinksOf(files) == SinkRules(files, Obfuscated(Counts(files)))

\* The signals so far are those of the steps so far, from the whole package.
ResultOK ==
    LET files == Published(case.tarball) IN
    /\ pc = "scan" => result \in ScriptChoices(files) /\ result \intersect VetoRules = {}
    /\ pc = "sinks" => \E s \in ScriptChoices(files) :
         /\ s \intersect VetoRules = {}
         /\ result = s \union ScanRules(files)
    /\ pc = "diff" => \E s \in ScriptChoices(files) :
         /\ s \intersect VetoRules = {}
         /\ result = s \union ScanRules(files) \union SinksOf(files)
    /\ pc = "finish" \/ job = "previous" \/ outcome = "analysed" =>
         \E s \in ScriptChoices(files) : result \ DeepRules = Expected(s)

IInv ==
    /\ CaseOK /\ TypesOK /\ ControlOK /\ ExtractOK /\ TreesOK /\ LimitsOK
    /\ ScanOK /\ ResultOK /\ DeepSignalsJustified

--------------------------------------------------------------------------------
\* What the tarballs of Cases and the maps unpacked from them are.

\* Every entry a registry publishes has the type that CaseAssumption gives it.
LEMMA EntriesTyped == \A e \in Entries : IsEntry(e)
BY CaseAssumption DEF Entries, IsTarball

\* The request's package is one of Cases.
LEMMA InitialCase == DownloadInit => CaseOK
<1> SUFFICES ASSUME DownloadInit PROVE CaseOK
  OBVIOUS
<1>1. PICK c \in Cases : \E v : case = [c EXCEPT !.prev = v]
  BY DEF DownloadInit
<1>2. case.tarball = c.tarball /\ case.versions = c.versions
  BY <1>1, CaseAssumption
<1>3. IsTarball(c.tarball) /\ \A v \in DOMAIN c.versions : IsTarball(c.versions[v].tarball)
  BY CaseAssumption
<1>4. /\ Range(c.tarball.entries) \subseteq Entries
      /\ \A v \in DOMAIN c.versions : Range(c.versions[v].tarball.entries) \subseteq Entries
  BY DEF Entries
<1> QED
  BY <1>2, <1>3, <1>4 DEF CaseOK, IsTarballOfCases

\* The tarball being read is one of Cases.
LEMMA TarballTyped ==
    ASSUME CaseOK, ControlOK, job \in Jobs
    PROVE  /\ IsTarballOfCases(Tarball)
           /\ Tarball.entries \in Seq(Entries)
<1>1. IsTarballOfCases(Tarball)
  BY DEF CaseOK, ControlOK, Tarball, PrevMeta, Comparable, Jobs
<1>2. \A S : Range(S) \subseteq Entries /\ S \in Seq(Range(S)) => S \in Seq(Entries)
  OBVIOUS
<1> QED
  BY <1>1, <1>2 DEF IsTarballOfCases, IsTarball

\* The map of no files is what no entries unpack to.
LEMMA NothingUnpacked ==
    ASSUME NEW entries
    PROVE  IsFiles(NoFiles) /\ Unpacked(entries, 0, NoFiles) /\ WithinLimits(NoFiles, 0)
<1>1. DOMAIN NoFiles = {} /\ NoFiles = [p \in DOMAIN NoFiles |-> NoFiles[p]]
  BY DEF NoFiles
<1>2. IsFiniteSet({}) /\ Cardinality({}) = 0
  BY FS_EmptySet
<1>3. SumOf(Sizes(NoFiles), {}) = 0
  BY <1>2, SumPick
<1>4. IsFiles(NoFiles)
  BY <1>1, <1>2 DEF IsFiles
<1>5. Unpacked(entries, 0, NoFiles)
  BY <1>1 DEF Unpacked
<1>6. WithinLimits(NoFiles, 0)
  BY <1>1, <1>2, <1>3, LimitsAssumption DEF WithinLimits
<1> QED
  BY <1>4, <1>5, <1>6

\* What all the entries of a tarball unpack to, one after the other, is what Published
\* says of them at once.
LEMMA UnpackedIsPublished ==
    ASSUME NEW t, IsTarballOfCases(t), NEW files, IsFiles(files),
           Unpacked(t.entries, Len(t.entries), files)
    PROVE  files = Published(t)
<1> DEFINE regular == {i \in DOMAIN t.entries : t.entries[i].regular}
           at(p) == {i \in regular : t.entries[i].path = p}
<1>1. DOMAIN t.entries = 1..Len(t.entries) /\ Len(t.entries) \in Nat
  BY DEF IsTarballOfCases, IsTarball
<1>2. DOMAIN files = {t.entries[i].path : i \in regular}
  BY <1>1 DEF Unpacked
<1>3. ASSUME NEW p \in DOMAIN files PROVE files[p] = t.entries[Max(at(p))]
  <2>1. PICK i \in 1..Len(t.entries) :
          /\ t.entries[i].regular /\ t.entries[i].path = p /\ files[p] = t.entries[i]
          /\ \A j \in 1..Len(t.entries) :
                t.entries[j].regular /\ t.entries[j].path = p => j <= i
    BY DEF Unpacked
  <2>2. i \in at(p) /\ \A j \in at(p) : i >= j
    BY <2>1, <1>1
  <2>3. at(p) \subseteq Int
    BY <1>1
  <2>4. Max(at(p)) \in at(p) /\ \A j \in at(p) : Max(at(p)) >= j
    <3> HIDE DEF at
    <3> QED
      BY <2>2 DEF Max
  <2>5. Max(at(p)) = i
    <3> HIDE DEF at
    <3> QED
      BY <2>2, <2>3, <2>4
  <2> QED
    BY <2>5, <2>1
<1>4. Published(t) = [p \in {t.entries[i].path : i \in regular} |-> t.entries[Max(at(p))]]
  BY DEF Published
<1>5. files = [p \in DOMAIN files |-> files[p]]
  BY DEF IsFiles
<1> HIDE DEF regular, at
<1>6. [p \in DOMAIN files |-> files[p]] = [p \in DOMAIN files |-> t.entries[Max(at(p))]]
  BY <1>3
<1> QED
  BY <1>2, <1>4, <1>5, <1>6

\* files with e stored at its path, as Store(e) makes it.
Stored(files, e) ==
    [p \in DOMAIN files \union {e.path} |-> IF p = e.path THEN e ELSE files[p]]

\* Storing the next entry unpacks one entry more, and a path that comes again keeps
\* the later entry only.
LEMMA StoreUnpacks ==
    ASSUME NEW entries \in Seq(Entries), NEW k \in Nat, k + 1 <= Len(entries),
           NEW files, IsFiles(files), Unpacked(entries, k, files),
           NEW e, e = entries[k + 1], e.regular
    PROVE  IsFiles(Stored(files, e)) /\ Unpacked(entries, k + 1, Stored(files, e))
<1> DEFINE stored == Stored(files, e)
<1> USE DEF Stored
<1>1. e \in Entries
  OBVIOUS
<1>2. IsFiles(stored)
  <2>1. IsFiniteSet(DOMAIN files \union {e.path})
    BY FS_AddElement DEF IsFiles
  <2> QED
    BY <1>1, <2>1 DEF IsFiles
<1>3. DOMAIN stored = {entries[i].path : i \in {j \in 1..(k + 1) : entries[j].regular}}
  <2>1. 1..(k + 1) = (1..k) \union {k + 1}
    OBVIOUS
  <2>2. DOMAIN files = {entries[i].path : i \in {j \in 1..k : entries[j].regular}}
    BY DEF Unpacked
  <2>3. DOMAIN stored = DOMAIN files \union {e.path}
    OBVIOUS
  <2> QED
    BY <2>1, <2>2, <2>3
<1>4. ASSUME NEW p \in DOMAIN stored
      PROVE  \E i \in 1..(k + 1) :
                /\ entries[i].regular /\ entries[i].path = p /\ stored[p] = entries[i]
                /\ \A j \in 1..(k + 1) : entries[j].regular /\ entries[j].path = p => j <= i
  <2>1. CASE p = e.path
    BY <2>1
  <2>2. CASE p # e.path
    <3>1. p \in DOMAIN files /\ stored[p] = files[p]
      BY <2>2
    <3>2. PICK i \in 1..k :
            /\ entries[i].regular /\ entries[i].path = p /\ files[p] = entries[i]
            /\ \A j \in 1..k : entries[j].regular /\ entries[j].path = p => j <= i
      BY <3>1 DEF Unpacked
    <3>3. \A j \in 1..(k + 1) : entries[j].regular /\ entries[j].path = p => j <= i
      BY <3>2, <2>2
    <3> QED
      BY <3>1, <3>2, <3>3
  <2> QED
    BY <2>1, <2>2
<1> QED
  BY <1>2, <1>3, <1>4 DEF Unpacked

\* An entry that is not a regular file is passed over.
LEMMA SkipUnpacks ==
    ASSUME NEW entries, NEW k \in Nat, NEW files, Unpacked(entries, k, files),
           ~entries[k + 1].regular
    PROVE  Unpacked(entries, k + 1, files)
<1>1. 1..(k + 1) = (1..k) \union {k + 1}
  OBVIOUS
<1>2. {j \in 1..k : entries[j].regular} = {j \in 1..(k + 1) : entries[j].regular}
  BY <1>1
<1>3. ASSUME NEW p \in DOMAIN files
      PROVE  \E i \in 1..(k + 1) :
                /\ entries[i].regular /\ entries[i].path = p /\ files[p] = entries[i]
                /\ \A j \in 1..(k + 1) : entries[j].regular /\ entries[j].path = p => j <= i
  BY <1>1 DEF Unpacked
<1> QED
  BY <1>2, <1>3 DEF Unpacked

\* Storing a file within the limits stays within them: the bytes counted are at least
\* those kept, for a path that comes again is counted twice and kept once.
LEMMA StoreWithinLimits ==
    ASSUME NEW files, IsFiles(files), NEW bytes \in Nat, WithinLimits(files, bytes),
           NEW e \in Entries, ~Escapes(e.path), e.size <= MaxFileBytes,
           Cardinality(DOMAIN files) < MaxFiles, bytes + e.size <= MaxTotalBytes
    PROVE  WithinLimits(Stored(files, e), bytes + e.size)
<1> DEFINE stored == Stored(files, e)
<1> USE DEF Stored
<1> DEFINE rest == DOMAIN files \ {e.path}
<1>1. IsFiniteSet(DOMAIN files) /\ IsFiniteSet(DOMAIN stored) /\ IsFiniteSet(rest)
  BY FS_AddElement, FS_Subset DEF IsFiles
<1>2. DOMAIN stored = DOMAIN files \union {e.path} /\ rest = DOMAIN stored \ {e.path}
  OBVIOUS
<1>3. e.size \in Nat /\ \A p \in DOMAIN files : files[p].size \in Nat
  BY EntriesTyped DEF IsFiles, IsEntry
<1>4. \A p \in DOMAIN stored : ~Escapes(p) /\ stored[p].size <= MaxFileBytes
  BY DEF WithinLimits
<1>5. Cardinality(DOMAIN stored) <= MaxFiles
  <2>1. Cardinality(DOMAIN files) \in Nat
    BY <1>1, FS_CardinalityType
  <2>2. Cardinality(DOMAIN files \union {e.path})
           \in {Cardinality(DOMAIN files), Cardinality(DOMAIN files) + 1}
    BY <1>1, <2>1, FS_AddElement
  <2> QED
    BY <1>2, <2>1, <2>2, LimitsAssumption
<1>6. SumOf(Sizes(stored), DOMAIN stored) = e.size + SumOf(Sizes(stored), rest)
  <2>1. \A p \in DOMAIN stored : Sizes(stored)[p] \in Nat
    BY <1>3 DEF Sizes
  <2>2. e.path \in DOMAIN stored /\ Sizes(stored)[e.path] = e.size
    BY DEF Sizes
  <2>3. SumOf(Sizes(stored), DOMAIN stored)
           = Sizes(stored)[e.path] + SumOf(Sizes(stored), DOMAIN stored \ {e.path})
    BY ONLY <2>1, <2>2, <1>1, SumTake
  <2> HIDE DEF rest
  <2> QED
    BY <2>2, <2>3, <1>2
<1>7. SumOf(Sizes(stored), rest) = SumOf(Sizes(files), rest)
  <2>1. \A p \in rest : Sizes(stored)[p] = Sizes(files)[p]
    BY DEF Sizes
  <2> HIDE DEF rest
  <2> QED
    BY <2>1, <1>1, SumAgree
<1>8. \A p \in DOMAIN files : Sizes(files)[p] \in Nat
  BY <1>3 DEF Sizes
<1>9. /\ SumOf(Sizes(files), rest) \in Nat
      /\ SumOf(Sizes(files), rest) <= SumOf(Sizes(files), DOMAIN files)
      /\ SumOf(Sizes(files), DOMAIN files) \in Nat
  <2>1. SumOf(Sizes(files), rest) \in Nat
    <3>1. \A p \in rest : Sizes(files)[p] \in Nat
      BY <1>8
    <3> HIDE DEF rest
    <3> QED
      BY <3>1, <1>1, SumNat
  <2>2. SumOf(Sizes(files), DOMAIN files) \in Nat
    BY <1>1, <1>8, SumNat
  <2>3. CASE e.path \in DOMAIN files
    <3>1. SumOf(Sizes(files), DOMAIN files) = Sizes(files)[e.path] + SumOf(Sizes(files), rest)
      BY <2>3, <1>1, <1>8, SumTake
    <3> QED
      BY <3>1, <2>1, <2>2, <1>8, <2>3
  <2>4. CASE e.path \notin DOMAIN files
    <3>1. rest = DOMAIN files
      BY <2>4
    <3> QED
      BY <3>1, <2>1
  <2> QED
    BY <2>1, <2>2, <2>3, <2>4
<1>10. SumOf(Sizes(stored), DOMAIN stored) <= bytes + e.size
  <2>1. SumOf(Sizes(files), DOMAIN files) <= bytes
    BY DEF WithinLimits
  <2> HIDE DEF rest
  <2> QED
    BY <2>1, <1>3, <1>6, <1>7, <1>9
<1> QED
  BY <1>4, <1>5, <1>10 DEF WithinLimits

--------------------------------------------------------------------------------
\* What the detectors find.

\* The JavaScript and the source files of a package are finitely many.
LEMMA FileSets ==
    ASSUME NEW files, IsFiles(files)
    PROVE  /\ JSFiles(files) \subseteq DOMAIN files /\ IsFiniteSet(JSFiles(files))
           /\ SourceFiles(files) \subseteq DOMAIN files /\ IsFiniteSet(SourceFiles(files))
BY FS_Subset DEF JSFiles, SourceFiles, IsFiles

\* What a file counts as, and what it is capable of.
LEMMA FileScans ==
    ASSUME NEW files, IsFiles(files), NEW p \in DOMAIN files
    PROVE  /\ Strings(files, 1)[p] \in Nat /\ Strings(files, 2)[p] \in 0..Strings(files, 1)[p]
           /\ detectCapabilities(files[p].content) \subseteq Capabilities
<1>1. IsEntry(files[p])
  BY EntriesTyped DEF IsFiles
<1> DEFINE c == files[p].content
<1>2. /\ c.long \in Nat /\ c.dense \in Nat /\ c.base64 \in Nat /\ c.hex \in Nat
      /\ c.dense <= c.long /\ c.imports \subseteq Capabilities
  BY <1>1 DEF IsEntry
<1>3. /\ Strings(files, 1)[p] = c.long + c.base64 + c.hex
      /\ Strings(files, 2)[p] = c.dense + c.base64 + c.hex
  BY DEF Strings, scanFileEntropy
<1>4. detectCapabilities(c) \subseteq Capabilities
  BY <1>2 DEF detectCapabilities, Capabilities
<1> HIDE DEF c
<1> QED
  BY <1>2, <1>3, <1>4 DEF c

\* Only the deep check accuses a patch release.
LEMMA OtherRules ==
    /\ \A files : \A s \in ScriptChoices(files) : s \intersect DeepRules = {}
    /\ \A files : ScanRules(files) \intersect DeepRules = {}
    /\ \A files : SinksOf(files) \intersect DeepRules = {}
    /\ (ScriptDiff \union DependencyDiff) \intersect DeepRules = {}
<1>1. \A m : ScriptRules(m) \intersect DeepRules = {}
  <2>1. \A h, patterns : RegexPass(h, patterns) \intersect DeepRules = {}
    BY DEF RegexPass, DeepRules
  <2>2. <<"install_script_present">> \notin DeepRules
    BY DEF DeepRules
  <2> QED
    BY <2>1, <2>2 DEF ScriptRules
<1>2. \A files : \A s \in ScriptChoices(files) : s \intersect DeepRules = {}
  BY <1>1 DEF ScriptChoices
<1>3. \A files : ScanRules(files) \intersect DeepRules = {}
  BY DEF ScanRules, CapabilityRules, EntropyRules, DeepRules
<1>4. \A files : SinksOf(files) \intersect DeepRules = {}
  BY DEF SinksOf, SinkRules, DeepRules
<1>5. ScriptDiff \intersect DeepRules = {}
  <2>1. \A a, b, c, d : <<a, b, c>> # <<"version_diff_new_in_patch", d>>
    OBVIOUS
  <2> QED
    BY <2>1 DEF ScriptDiff, DeepRules
<1>6. DependencyDiff \intersect DeepRules = {}
  BY DEF DependencyDiff, DeepRules
<1> QED
  BY <1>2, <1>3, <1>4, <1>5, <1>6

\* Expected holds none of the deep check's signals.
LEMMA ExpectedShallow ==
    \A s \in ScriptChoices(Published(case.tarball)) : Expected(s) \ DeepRules = Expected(s)
<1> SUFFICES ASSUME NEW s \in ScriptChoices(Published(case.tarball))
             PROVE  Expected(s) \intersect DeepRules = {}
  OBVIOUS
<1> DEFINE files == Published(case.tarball)
<1>1. Expected(s) = IF s \intersect VetoRules # {} THEN s
                    ELSE s \union ScanRules(files) \union SinksOf(files)
                           \union (IF Comparable THEN ScriptDiff \union DependencyDiff ELSE {})
  BY DEF Expected, ScanRules, SinksOf, Counts
<1>2. /\ s \intersect DeepRules = {} /\ ScanRules(files) \intersect DeepRules = {}
      /\ SinksOf(files) \intersect DeepRules = {}
      /\ (ScriptDiff \union DependencyDiff) \intersect DeepRules = {}
  BY OtherRules
<1> HIDE DEF files
<1> QED
  BY <1>1, <1>2

\* What hangs on the request alone stays with it.
LEMMA CaseStays ==
    ASSUME case' = case
    PROVE  /\ CaseOK <=> CaseOK'
           /\ Comparable <=> Comparable'
           /\ PrevMeta' = PrevMeta
           /\ \A s : Expected(s)' = Expected(s)
<1>1. CaseOK <=> CaseOK'
  BY DEF CaseOK
<1>2. PrevMeta' = PrevMeta /\ CurrentMeta' = CurrentMeta /\ (Comparable <=> Comparable')
  BY DEF PrevMeta, CurrentMeta, Comparable
<1>3. ChangedHooks' = ChangedHooks
  BY <1>2 DEF ChangedHooks
<1>4. ScriptDiff' = ScriptDiff /\ DependencyDiff' = DependencyDiff
  BY <1>2, <1>3 DEF ScriptDiff, DependencyDiff
<1>5. \A s : Expected(s)' = Expected(s)
  BY <1>2, <1>4 DEF Expected
<1> QED
  BY <1>1, <1>2, <1>5

--------------------------------------------------------------------------------
\* The steps: contexts, fetching and the integrity check.

\* Init => IInv.
LEMMA InitInv == DownloadInit => IInv
<1> SUFFICES ASSUME DownloadInit PROVE IInv
  OBVIOUS
<1>1. CaseOK
  BY InitialCase
<1>2. pc = "request" /\ Idle
  BY DEF DownloadInit
<1>3. IsFiles(NoFiles) /\ WithinLimits(NoFiles, 0) /\ DOMAIN NoFiles = {}
  BY NothingUnpacked DEF NoFiles
<1>4. \A j \in Jobs : tree[j] = NoFiles /\ totalBytes[j] = 0
  BY <1>2 DEF Idle
<1>5. TypesOK
  <2>1. \A j \in Jobs : Range(tree[j]) = {} /\ IsFiles(tree[j])
    BY <1>3, <1>4 DEF Range
  <2>2. Range(archive) = {} /\ archive \in Seq(Entries)
    BY <1>2 DEF Idle, Range
  <2>3. DownloadTypeOK
    BY <1>2, <1>4, <2>1, <2>2, LimitsAssumption DEF Idle, DownloadTypeOK, Jobs
  <2> QED
    BY <1>2, <2>1, <2>2, <2>3 DEF TypesOK, Idle, Jobs
<1>6. ControlOK
  BY <1>2 DEF ControlOK, Idle
<1>7. ExtractOK
  BY <1>2 DEF ExtractOK
<1>8. TreesOK
  BY <1>2, <1>4 DEF TreesOK, Idle, AnalysisPhases, Jobs
<1>9. LimitsOK
  BY <1>3, <1>4 DEF LimitsOK
<1>10. ScanOK
  BY <1>2 DEF ScanOK, Unscanned, Idle
<1>11. ResultOK /\ DeepSignalsJustified
  BY <1>2 DEF ResultOK, DeepSignalsJustified, Idle
<1> QED
  BY <1>1, <1>5, <1>6, <1>7, <1>8, <1>9, <1>10, <1>11 DEF IInv

\* A context that ends at any time disturbs nothing: only the loops look at it.
LEMMA EndedKeeps ==
    ASSUME IInv,
           UNCHANGED <<case, pc, job, fetching, unpacked, scanned, result, outcome>>,
           ended' \subseteq {"request", "analysis", "deep"}
    PROVE  IInv'
<1> USE DEF IInv
<1>1. /\ CaseOK' /\ (Comparable' <=> Comparable) /\ PrevMeta' = PrevMeta
      /\ \A s : Expected(s)' = Expected(s)
  BY CaseStays
<1>2. TypesOK'
  BY DEF TypesOK, DownloadTypeOK, AnalysisPhases, Jobs
<1>3. ControlOK'
  BY <1>1 DEF ControlOK
<1>4. Tarball' = Tarball
  BY <1>1 DEF Tarball
<1>5. ExtractOK'
  BY <1>4 DEF ExtractOK
<1>6. TreesOK'
  BY <1>1 DEF TreesOK, AnalysisPhases
<1>7. LimitsOK'
  BY DEF LimitsOK
<1>8. ScanOK'
  BY DEF ScanOK, Unscanned
<1>9. ResultOK'
  BY <1>1 DEF ResultOK
<1>10. DeepSignalsJustified'
  BY <1>1 DEF DeepSignalsJustified
<1> QED
  BY <1>1, <1>2, <1>3, <1>5, <1>6, <1>7, <1>8, <1>9, <1>10

\* An error answers the request, or ends the deep check; either way the detectors
\* never see what was being fetched.
LEMMA GiveUpKeeps ==
    ASSUME IInv, pc # "done",
           UNCHANGED <<case, job, fetching, unpacked, scanned, result, ended>>,
           NEW reason \in {"upstream_down", "integrity_mismatch", "resource_limit"},
           GiveUp(reason)
    PROVE  IInv'
<1> USE DEF IInv
<1>1. /\ CaseOK' /\ (Comparable' <=> Comparable) /\ PrevMeta' = PrevMeta
      /\ \A s : Expected(s)' = Expected(s)
  BY CaseStays
<1>2. \/ job = "current" /\ pc' = "done" /\ outcome' = reason
      \/ job = "previous" /\ pc' = "finish" /\ outcome' = "none"
  BY DEF GiveUp, ControlOK, TypesOK, DownloadTypeOK, Jobs
<1>3. TypesOK'
  <2>1. pc' \in {"done", "finish"} /\ outcome' \in {reason, "none"}
    BY <1>2
  <2> QED
    BY <2>1 DEF TypesOK, DownloadTypeOK, AnalysisPhases, Jobs
<1>4. ControlOK'
  BY <1>1, <1>2 DEF ControlOK
<1>5. ExtractOK'
  BY <1>2 DEF ExtractOK
<1>6. TreesOK'
  BY <1>1, <1>2 DEF TreesOK, AnalysisPhases
<1>7. LimitsOK'
  BY DEF LimitsOK
<1>8. ScanOK'
  BY <1>2 DEF ScanOK
<1>9. ResultOK'
  BY <1>1, <1>2 DEF ResultOK
<1>10. DeepSignalsJustified'
  BY <1>1 DEF DeepSignalsJustified
<1> QED
  BY <1>1, <1>3, <1>4, <1>5, <1>6, <1>7, <1>8, <1>9, <1>10

\* A response, cut or whole, of which nothing is unpacked yet.
LEMMA DoGetSucceedsKeeps ==
    ASSUME IInv, DoGetSucceeds
    PROVE  IInv'
<1> USE DEF IInv, DoGetSucceeds
<1>1. /\ CaseOK' /\ (Comparable' <=> Comparable) /\ PrevMeta' = PrevMeta
      /\ \A s : Expected(s)' = Expected(s)
  BY CaseStays
<1>2. /\ pc = "request" /\ outcome = "none" /\ job' = job /\ job \in {"current", "previous"}
      /\ job = "current" => pc' = "verify"
      /\ job = "previous" => pc' = "unpack"
  <2>1. job \in {"current", "previous"}
    BY DEF TypesOK, DownloadTypeOK, Jobs
  <2> QED
    BY <2>1 DEF ControlOK
<1> DEFINE T == Tarball.entries
<1>3. T \in Seq(Entries)
  BY TarballTyped DEF TypesOK, DownloadTypeOK
<1>4. /\ body'.entries \in Seq(Entries) /\ Len(body'.entries) <= Len(T)
      /\ ~body'.torn => Len(body'.entries) = Len(T)
      /\ \A i \in 1..Len(body'.entries) : body'.entries[i] = T[i]
  <2>1. CASE body' = [entries |-> T, torn |-> FALSE]
    BY <1>3, <2>1
  <2>2. CASE \E k \in 0..Len(T) : body' = [entries |-> SubSeq(T, 1, k), torn |-> TRUE]
    <3>1. PICK k \in 0..Len(T) : body' = [entries |-> SubSeq(T, 1, k), torn |-> TRUE]
      BY <2>2
    <3>2. SubSeq(T, 1, k) \in Seq(Entries) /\ Len(SubSeq(T, 1, k)) = k
          /\ \A i \in 1..k : SubSeq(T, 1, k)[i] = T[i]
      <4> HIDE DEF T
      <4> QED
        BY <1>3
    <3> QED
      BY <1>3, <3>1, <3>2
  <2> QED
    BY <2>1, <2>2 DEF Received
<1>5. TypesOK'
  <2>1. Range(archive') \subseteq Entries
    BY <1>4 DEF Range
  <2> QED
    BY <1>2, <1>4, <2>1 DEF TypesOK, DownloadTypeOK, AnalysisPhases, Jobs
<1>6. ControlOK'
  BY <1>1, <1>2 DEF ControlOK
<1>7. Tarball' = Tarball
  BY <1>1, <1>2 DEF Tarball
<1>8. ExtractOK'
  <2>1. tree'[job'] = NoFiles
    BY <1>2 DEF TreesOK
  <2>2. Unpacked(Tarball'.entries, 0, tree'[job'])
    BY <2>1, NothingUnpacked
  <2>3. /\ 0 \in 0..Len(Tarball'.entries) /\ 0 + Len(archive') <= Len(Tarball'.entries)
        /\ ~body'.torn => 0 + Len(archive') = Len(Tarball'.entries)
        /\ \A i \in 1..Len(archive') : archive'[i] = Tarball'.entries[0 + i]
    BY <1>3, <1>4, <1>7
  <2> QED
    BY <2>2, <2>3 DEF ExtractOK
<1>9. TreesOK'
  BY <1>1, <1>2 DEF TreesOK, AnalysisPhases
<1>10. LimitsOK'
  BY DEF LimitsOK
<1>11. ScanOK'
  BY <1>2 DEF ScanOK, Unscanned
<1>12. ResultOK'
  BY <1>1, <1>2 DEF ResultOK
<1>13. DeepSignalsJustified'
  BY <1>1 DEF DeepSignalsJustified
<1> QED
  BY <1>1, <1>5, <1>6, <1>8, <1>9, <1>10, <1>11, <1>12, <1>13

\* A step of the retry loop or of the integrity check that only moves on.
LEMMA MovesOn ==
    ASSUME IInv,
           UNCHANGED <<case, job, body, unpacked, scanned, result, ended, outcome>>,
           \/ pc = "request" /\ pc' = "backoff" /\ attempt < MaxRetries /\ attempt' = attempt
           \/ pc = "backoff" /\ pc' = "request" /\ attempt' = attempt + 1
    PROVE  IInv'
<1> USE DEF IInv
<1>1. /\ CaseOK' /\ (Comparable' <=> Comparable) /\ PrevMeta' = PrevMeta
      /\ \A s : Expected(s)' = Expected(s)
  BY CaseStays
<1>2. attempt' \in 0..MaxRetries
  BY LimitsAssumption DEF ControlOK, TypesOK, DownloadTypeOK
<1>3. pc' \in {"request", "backoff"} /\ pc \in {"request", "backoff"}
  OBVIOUS
<1>4. TypesOK'
  BY <1>2, <1>3 DEF TypesOK, DownloadTypeOK, AnalysisPhases, Jobs
<1>5. ControlOK'
  BY <1>1 DEF ControlOK
<1>6. ExtractOK'
  BY <1>3 DEF ExtractOK
<1>7. TreesOK'
  BY <1>1, <1>3 DEF TreesOK, AnalysisPhases
<1>8. LimitsOK'
  BY DEF LimitsOK
<1>9. ScanOK'
  BY <1>3 DEF ScanOK, Unscanned
<1>10. ResultOK'
  BY <1>1, <1>3 DEF ResultOK
<1>11. DeepSignalsJustified'
  BY <1>1 DEF DeepSignalsJustified
<1> QED
  BY <1>1, <1>4, <1>5, <1>6, <1>7, <1>8, <1>9, <1>10, <1>11

\* The retry loop.
LEMMA RetryKeeps ==
    ASSUME IInv, DoGetFails \/ BackoffTimer \/ BackoffCancelled
    PROVE  IInv'
<1>1. CASE DoGetFails /\ attempt < MaxRetries
  BY <1>1, MovesOn DEF DoGetFails
<1>2. CASE DoGetFails /\ ~(attempt < MaxRetries)
  <2>1. GiveUp("upstream_down") /\ pc # "done"
        /\ UNCHANGED <<case, job, fetching, unpacked, scanned, result, ended>>
    BY <1>2 DEF DoGetFails
  <2> QED
    BY <2>1, GiveUpKeeps
<1>3. CASE BackoffTimer
  BY <1>3, MovesOn DEF BackoffTimer
<1>4. CASE BackoffCancelled
  <2>1. GiveUp("upstream_down") /\ pc # "done"
        /\ UNCHANGED <<case, job, fetching, unpacked, scanned, result, ended>>
    BY <1>4 DEF BackoffCancelled
  <2> QED
    BY <2>1, GiveUpKeeps
<1> QED
  BY <1>1, <1>2, <1>3, <1>4

\* The integrity check, which only ever sees the current tarball.
LEMMA VerifyKeeps ==
    ASSUME IInv, Verify
    PROVE  IInv'
<1>1. CASE Verifies
  <2> USE DEF IInv
  <2>1. /\ CaseOK' /\ (Comparable' <=> Comparable) /\ PrevMeta' = PrevMeta
        /\ \A s : Expected(s)' = Expected(s)
    BY CaseStays DEF Verify
  <2>2. /\ pc = "verify" /\ pc' = "unpack" /\ outcome = "none" /\ job = "current"
        /\ UNCHANGED <<case, job, fetching, unpacked, scanned, result, ended, outcome>>
    BY <1>1 DEF Verify, ControlOK
  <2>3. TypesOK'
    BY <2>2 DEF TypesOK, DownloadTypeOK, AnalysisPhases, Jobs
  <2>4. ControlOK'
    BY <2>1, <2>2 DEF ControlOK
  <2>5. Tarball' = Tarball
    BY <2>1, <2>2 DEF Tarball
  <2>6. ExtractOK'
    BY <2>2, <2>5 DEF ExtractOK
  <2>7. TreesOK'
    BY <2>1, <2>2 DEF TreesOK, AnalysisPhases
  <2>8. LimitsOK'
    BY <2>2 DEF LimitsOK
  <2>9. ScanOK'
    BY <2>2 DEF ScanOK, Unscanned
  <2>10. ResultOK'
    BY <2>1, <2>2 DEF ResultOK
  <2>11. DeepSignalsJustified'
    BY <2>1, <2>2 DEF DeepSignalsJustified
  <2> QED
    BY <2>1, <2>3, <2>4, <2>6, <2>7, <2>8, <2>9, <2>10, <2>11
<1>2. CASE ~Verifies
  <2>1. GiveUp("integrity_mismatch") /\ pc # "done"
        /\ UNCHANGED <<case, job, fetching, unpacked, scanned, result, ended>>
    BY <1>2 DEF Verify
  <2> QED
    BY <2>1, GiveUpKeeps
<1> QED
  BY <1>1, <1>2

--------------------------------------------------------------------------------
\* The steps: extraction.

\* One header: a file is stored, anything else passed over, or the tarball refused.
LEMMA ExtractEntryKeeps ==
    ASSUME IInv, ExtractEntry
    PROVE  IInv'
<1> USE DEF IInv
<1> DEFINE T == Tarball.entries
           e == Head(archive)
<1>1. /\ pc = "unpack" /\ archive # << >>
      /\ UNCHANGED <<case, job, fetching, scanned, result, ended>>
  BY DEF ExtractEntry
<1>2. /\ CaseOK' /\ (Comparable' <=> Comparable) /\ PrevMeta' = PrevMeta
      /\ Tarball' = Tarball
      /\ \A s : Expected(s)' = Expected(s)
  <2>1. case' = case /\ job' = job
    BY <1>1
  <2> QED
    BY <2>1, CaseStays DEF Tarball
<1>3. /\ T \in Seq(Entries) /\ archive \in Seq(Entries) /\ e \in Entries
      /\ job \in Jobs /\ outcome = "none"
  BY <1>1, TarballTyped DEF TypesOK, DownloadTypeOK, ControlOK
<1>4. PICK k \in 0..Len(T) :
        /\ k + Len(archive) <= Len(T)
        /\ ~body.torn => k + Len(archive) = Len(T)
        /\ \A i \in 1..Len(archive) : archive[i] = T[k + i]
        /\ Unpacked(T, k, tree[job])
  BY <1>1 DEF ExtractOK
<1>5. e = T[k + 1] /\ k + 1 <= Len(T) /\ k \in Nat
  BY <1>1, <1>3, <1>4
<1>6. /\ Tail(archive) \in Seq(Entries) /\ Len(Tail(archive)) = Len(archive) - 1
      /\ \A i \in 1..Len(Tail(archive)) : Tail(archive)[i] = T[(k + 1) + i]
  BY <1>1, <1>3, <1>4
<1>7. CASE e.regular /\ ~Acceptable(e)
  <2>1. GiveUp("resource_limit") /\ UNCHANGED unpacked
    BY <1>7 DEF ExtractEntry
  <2> QED
    BY <2>1, <1>1, GiveUpKeeps
<1>8. ASSUME archive' = Tail(archive), pc' = pc, outcome' = outcome,
             DOMAIN tree' = Jobs, tree' = [j \in Jobs |-> tree'[j]],
             totalBytes' \in [Jobs -> Nat],
             \A j \in Jobs : j # job => tree'[j] = tree[j] /\ totalBytes'[j] = totalBytes[j],
             IsFiles(tree'[job]), Unpacked(T, k + 1, tree'[job]),
             WithinLimits(tree'[job], totalBytes'[job])
      PROVE  IInv'
  <2> HIDE DEF T, e
  <2>1. \A j \in Jobs : IsFiles(tree'[j])
    BY <1>8 DEF TypesOK
  <2>2. TypesOK'
    <3>1. \A j \in Jobs : Range(tree'[j]) \subseteq Entries
      BY <2>1 DEF IsFiles, Range
    <3>2. Range(archive') \subseteq Entries
      BY <1>6, <1>8 DEF Range
    <3>3. \/ todo = [capabilities |-> {}, entropy |-> {}]
          \/ job = "previous" /\ tree'["current"] = tree["current"]
      <4>1. CASE job = "current"
        BY <4>1, <1>1 DEF ScanOK, Unscanned
      <4>2. CASE job # "current"
        BY <4>2, <1>3, <1>8 DEF Jobs
      <4> QED
        BY <4>1, <4>2
    <3>4. todo'.capabilities \subseteq DOMAIN tree'["current"]
          /\ todo'.entropy \subseteq DOMAIN tree'["current"]
      <4>1. todo' = todo
        BY <1>1
      <4>2. CASE todo = [capabilities |-> {}, entropy |-> {}]
        BY <4>1, <4>2
      <4>3. CASE tree'["current"] = tree["current"]
        BY <4>1, <4>3 DEF TypesOK, DownloadTypeOK
      <4> QED
        BY <4>2, <4>3, <3>3
    <3>5. DownloadTypeOK'
      BY <1>1, <1>3, <1>8, <3>1, <3>2, <3>4 DEF TypesOK, DownloadTypeOK, AnalysisPhases, Jobs
    <3> QED
      BY <1>1, <1>6, <1>8, <2>1, <3>5 DEF TypesOK
  <2>3. ControlOK'
    BY <1>1, <1>2, <1>8 DEF ControlOK
  <2>4. ExtractOK'
    <3>1. k + 1 \in 0..Len(Tarball'.entries)
      BY <1>2, <1>3, <1>4, <1>5 DEF T
    <3>2. /\ (k + 1) + Len(archive') <= Len(Tarball'.entries)
          /\ ~body'.torn => (k + 1) + Len(archive') = Len(Tarball'.entries)
      <4>1. Len(archive') = Len(archive) - 1 /\ Len(archive) \in Nat /\ Len(T) \in Nat
            /\ body' = body
        BY <1>1, <1>3, <1>6, <1>8
      <4>2. Tarball'.entries = T
        BY <1>2 DEF T
      <4> QED
        BY <4>1, <4>2, <1>4
    <3>3. \A i \in 1..Len(archive') : archive'[i] = Tarball'.entries[(k + 1) + i]
      BY <1>2, <1>6, <1>8 DEF T
    <3>4. Unpacked(Tarball'.entries, k + 1, tree'[job'])
      BY <1>1, <1>2, <1>8 DEF T
    <3> QED
      BY <3>1, <3>2, <3>3, <3>4 DEF ExtractOK
  <2>5. TreesOK'
    <3>1. job = "previous" => tree'["current"] = tree["current"]
      BY <1>8 DEF Jobs
    <3>2. job = "current" => tree'["previous"] = tree["previous"]
      BY <1>8 DEF Jobs
    <3> QED
      BY <1>1, <1>2, <1>3, <1>8, <3>1, <3>2 DEF TreesOK, AnalysisPhases
  <2>6. LimitsOK'
    <3>1. ASSUME NEW j \in Jobs PROVE WithinLimits(tree'[j], totalBytes'[j])
      <4>1. CASE j = job
        BY <4>1, <1>8
      <4>2. CASE j # job
        BY <4>2, <1>8 DEF LimitsOK
      <4> QED
        BY <4>1, <4>2
    <3> QED
      BY <3>1 DEF LimitsOK
  <2>7. ScanOK'
    <3>1. job = "previous" => tree'["current"] = tree["current"]
      BY <1>8 DEF Jobs
    <3> QED
      BY <1>1, <1>8, <3>1 DEF ScanOK, Unscanned
  <2>8. ResultOK'
    BY <1>1, <1>2, <1>3, <1>8 DEF ResultOK
  <2>9. DeepSignalsJustified'
    BY <1>1, <1>2 DEF DeepSignalsJustified
  <2> QED
    BY <1>2, <2>2, <2>3, <2>4, <2>5, <2>6, <2>7, <2>8, <2>9
<1>9. IsFiles(tree[job]) /\ WithinLimits(tree[job], totalBytes[job]) /\ totalBytes[job] \in Nat
  BY <1>3 DEF TypesOK, LimitsOK
<1>10. CASE ~e.regular
  <2>1. archive' = Tail(archive) /\ UNCHANGED <<pc, tree, totalBytes, outcome>>
    BY <1>10 DEF ExtractEntry
  <2>2. Unpacked(T, k + 1, tree[job])
    <3> HIDE DEF T, e
    <3>1. ~T[k + 1].regular
      BY <1>5, <1>10
    <3> QED
      BY <3>1, <1>4, SkipUnpacks
  <2>3. DOMAIN tree = Jobs /\ tree = [j \in Jobs |-> tree[j]] /\ totalBytes \in [Jobs -> Nat]
    BY DEF TypesOK
  <2> HIDE DEF T, e
  <2> QED
    BY ONLY <2>1, <2>2, <2>3, <1>8, <1>9
<1>11. CASE e.regular /\ Acceptable(e)
  <2>1. /\ archive' = Tail(archive) /\ pc' = pc /\ outcome' = outcome
        /\ tree' = [tree EXCEPT ![job] = Store(e)]
        /\ totalBytes' = [totalBytes EXCEPT ![job] = @ + e.size]
    BY <1>11 DEF ExtractEntry
  <2>2. /\ DOMAIN tree = Jobs /\ tree = [j \in Jobs |-> tree[j]]
        /\ totalBytes \in [Jobs -> Nat] /\ e.size \in Nat
    BY <1>3, EntriesTyped DEF TypesOK, IsEntry
  <2>3. /\ tree'[job] = Store(e) /\ DOMAIN tree' = Jobs
        /\ tree' = [j \in Jobs |-> tree'[j]]
        /\ \A j \in Jobs : j # job => tree'[j] = tree[j]
    BY <2>1, <2>2, <1>3
  <2>4. /\ totalBytes'[job] = totalBytes[job] + e.size /\ totalBytes' \in [Jobs -> Nat]
        /\ \A j \in Jobs : j # job => totalBytes'[j] = totalBytes[j]
    BY <2>1, <2>2, <1>3
  <2>5. Store(e) = Stored(tree[job], e)
    BY DEF Store, Stored
  <2>6. /\ ~Escapes(e.path) /\ Cardinality(DOMAIN tree[job]) < MaxFiles
        /\ e.size <= MaxFileBytes /\ totalBytes[job] + e.size <= MaxTotalBytes
    BY <1>11 DEF Acceptable
  <2> HIDE DEF T, e
  <2>7. IsFiles(Store(e)) /\ Unpacked(T, k + 1, Store(e))
    <3>1. T \in Seq(Entries) /\ k \in Nat /\ k + 1 <= Len(T)
      BY <1>3, <1>5
    <3>2. IsFiles(tree[job]) /\ Unpacked(T, k, tree[job]) /\ e = T[k + 1] /\ e.regular
      BY <1>4, <1>5, <1>9, <1>11
    <3> QED
      BY ONLY <3>1, <3>2, <2>5, StoreUnpacks
  <2>8. WithinLimits(Store(e), totalBytes[job] + e.size)
    BY ONLY <1>3, <1>9, <2>5, <2>6, StoreWithinLimits
  <2> QED
    BY ONLY <2>1, <2>3, <2>4, <2>7, <2>8, <1>8
<1> QED
  BY <1>7, <1>10, <1>11

\* The end of the archive: whole, or torn and refused.
LEMMA ExtractEndKeeps ==
    ASSUME IInv, ExtractEnd
    PROVE  IInv'
<1> USE DEF IInv
<1>1. /\ pc = "unpack" /\ archive = << >>
      /\ UNCHANGED <<case, job, fetching, unpacked, scanned, result, ended>>
  BY DEF ExtractEnd
<1>2. CASE body.torn
  <2>1. GiveUp("resource_limit")
    BY <1>2 DEF ExtractEnd
  <2> QED
    BY <2>1, <1>1, GiveUpKeeps
<1>3. CASE ~body.torn
  <2>1. /\ CaseOK' /\ (Comparable' <=> Comparable) /\ PrevMeta' = PrevMeta
        /\ \A s : Expected(s)' = Expected(s)
    BY <1>1, CaseStays
  <2>2. /\ job \in {"current", "previous"} /\ outcome = "none" /\ outcome' = outcome
        /\ job = "current" => pc' = "scripts"
        /\ job = "previous" => pc' = "capabilities"
    <3>1. job \in {"current", "previous"}
      BY DEF TypesOK, DownloadTypeOK, Jobs
    <3> QED
      BY <3>1, <1>1, <1>3 DEF ControlOK, ExtractEnd
  <2>3. tree[job] = Published(Tarball)
    <3>1. IsTarballOfCases(Tarball) /\ Tarball.entries \in Seq(Entries) /\ IsFiles(tree[job])
      BY TarballTyped DEF TypesOK, DownloadTypeOK
    <3>2. PICK k \in 0..Len(Tarball.entries) :
            k + Len(archive) = Len(Tarball.entries) /\ Unpacked(Tarball.entries, k, tree[job])
      BY <1>1, <1>3 DEF ExtractOK
    <3>3. Len(archive) = 0 /\ Len(Tarball.entries) \in Nat
      BY <1>1, <3>1
    <3>4. k = Len(Tarball.entries)
      BY <3>2, <3>3
    <3>5. Unpacked(Tarball.entries, Len(Tarball.entries), tree[job])
      BY <3>2, <3>4
    <3> QED
      BY ONLY <3>1, <3>5, UnpackedIsPublished
  <2>4. TypesOK'
    BY <1>1, <2>2 DEF TypesOK, DownloadTypeOK, AnalysisPhases, Jobs
  <2>5. ControlOK'
    BY <1>1, <2>1, <2>2 DEF ControlOK
  <2>6. ExtractOK'
    BY <2>2 DEF ExtractOK
  <2>7. TreesOK'
    BY <1>1, <2>1, <2>2, <2>3 DEF TreesOK, AnalysisPhases, Tarball
  <2>8. LimitsOK'
    BY <1>1 DEF LimitsOK
  <2>9. ScanOK'
    BY <1>1, <2>2 DEF ScanOK, Unscanned
  <2>10. ResultOK'
    BY <1>1, <2>1, <2>2 DEF ResultOK
  <2>11. DeepSignalsJustified'
    BY <1>1, <2>1 DEF DeepSignalsJustified
  <2> QED
    BY <2>1, <2>4, <2>5, <2>6, <2>7, <2>8, <2>9, <2>10, <2>11
<1> QED
  BY <1>2, <1>3

--------------------------------------------------------------------------------
\* The steps: the detectors.

\* Steps of the analysis leave what was read alone.
LEMMA AnalysisStays ==
    ASSUME IInv, UNCHANGED <<case, job, fetching, unpacked, ended>>,
           pc \in {"scripts", "scan", "sinks"}, pc' \in {"scan", "sinks", "diff", "finish"},
           outcome' = outcome
    PROVE  /\ job = "current" /\ outcome = "none"
           /\ IsFiles(tree["current"]) /\ tree["current"] = Published(case.tarball)
           /\ CaseOK' /\ ControlOK' /\ ExtractOK' /\ TreesOK' /\ LimitsOK'
           /\ \A s : Expected(s)' = Expected(s)
<1> USE DEF IInv
<1>1. /\ CaseOK' /\ (Comparable' <=> Comparable) /\ PrevMeta' = PrevMeta
      /\ \A s : Expected(s)' = Expected(s)
  BY CaseStays
<1>2. job = "current" /\ outcome = "none"
  BY DEF ControlOK
<1>3. IsFiles(tree["current"]) /\ tree["current"] = Published(case.tarball)
  BY DEF TypesOK, Jobs, TreesOK, AnalysisPhases
<1>4. ControlOK'
  BY <1>1, <1>2 DEF ControlOK
<1>5. ExtractOK'
  BY DEF ExtractOK
<1>6. TreesOK'
  BY <1>1, <1>2, <1>3 DEF TreesOK
<1>7. LimitsOK'
  BY DEF LimitsOK
<1> QED
  BY <1>1, <1>2, <1>3, <1>4, <1>5, <1>6, <1>7

\* Of one of the manifests, whichever comes first: its scripts' signals, and then
\* either the veto or the scans of all files.
LEMMA InstallScriptsKeeps ==
    ASSUME IInv, InstallScripts
    PROVE  IInv'
<1> DEFINE F == tree["current"]
<1>1. /\ pc = "scripts" /\ pc' \in {"scan", "finish"} /\ outcome' = outcome
      /\ UNCHANGED <<case, job, fetching, unpacked, caps, strings, ended>>
  BY DEF InstallScripts
<1>2. /\ job = "current" /\ outcome = "none" /\ IsFiles(F) /\ F = Published(case.tarball)
      /\ CaseOK' /\ ControlOK' /\ ExtractOK' /\ TreesOK' /\ LimitsOK'
      /\ \A s : Expected(s)' = Expected(s)
  BY <1>1, AnalysisStays
<1>3. caps = {} /\ strings = <<0, 0>> /\ result = {} /\ todo = [capabilities |-> {}, entropy |-> {}]
  BY <1>1, <1>2 DEF IInv, ScanOK, Unscanned
<1>4. result' \in ScriptChoices(F)
  BY <1>3 DEF InstallScripts, ScriptChoices
<1>5. /\ JSFiles(F) \subseteq DOMAIN F /\ SourceFiles(F) \subseteq DOMAIN F
      /\ IsFiniteSet(SourceFiles(F))
  BY <1>2, FileSets
<1>6. /\ pc' = "scan" => /\ result' \intersect VetoRules = {}
                         /\ todo' = [capabilities |-> JSFiles(F), entropy |-> SourceFiles(F)]
      /\ pc' = "finish" => result' \intersect VetoRules # {} /\ todo' = todo
  BY DEF InstallScripts
<1>7. TypesOK'
  <2>1. /\ todo' = [capabilities |-> todo'.capabilities, entropy |-> todo'.entropy]
        /\ todo'.capabilities \subseteq DOMAIN F /\ todo'.entropy \subseteq DOMAIN F
    <3>1. CASE pc' = "scan"
      BY <3>1, <1>5, <1>6
    <3>2. CASE pc' = "finish"
      BY <3>2, <1>3, <1>6
    <3> QED
      BY <3>1, <3>2, <1>1
  <2>2. DownloadTypeOK'
    BY <1>1, <2>1 DEF IInv, TypesOK, DownloadTypeOK, AnalysisPhases, Jobs
  <2> QED
    BY <1>1, <2>1, <2>2 DEF IInv, TypesOK
<1>8. ScanOK'
  <2>1. ASSUME pc' = "scan"
        PROVE  /\ todo'.capabilities \subseteq JSFiles(tree'["current"])
               /\ todo'.entropy \subseteq SourceFiles(tree'["current"])
               /\ caps' \union CapabilitiesIn(tree'["current"], todo'.capabilities)
                     = CapabilitiesOf(tree'["current"])
               /\ \A k \in {1, 2} :
                     strings'[k] + SumOf(Strings(tree'["current"], k), todo'.entropy)
                        = Counted(tree'["current"], k)
    <3>1. /\ todo'.capabilities = JSFiles(F) /\ todo'.entropy = SourceFiles(F)
          /\ tree'["current"] = F /\ caps' = {} /\ strings' = <<0, 0>>
      BY <2>1, <1>1, <1>3, <1>6
    <3>2. CapabilitiesIn(F, JSFiles(F)) = CapabilitiesOf(F)
      BY DEF CapabilitiesIn, CapabilitiesOf
    <3>3. ASSUME NEW k \in {1, 2}
          PROVE  0 + SumOf(Strings(F, k), SourceFiles(F)) = Counted(F, k)
      <4>1. \A p \in SourceFiles(F) : Strings(F, k)[p] \in Nat
        BY <1>2, <1>5, FileScans
      <4>2. SumOf(Strings(F, k), SourceFiles(F)) \in Nat
        BY <4>1, <1>5, SumNat
      <4>3. SumOf(Strings(F, k), SourceFiles(F)) = Counted(F, k)
        BY DEF Counted, Strings
      <4> QED
        BY <4>2, <4>3
    <3>4. strings'[1] = 0 /\ strings'[2] = 0
      BY <3>1
    <3> HIDE DEF F
    <3> QED
      BY <3>1, <3>2, <3>3, <3>4
  <2> QED
    BY <2>1, <1>1, <1>2 DEF ScanOK
<1>9. ResultOK'
  <2>1. ASSUME pc' = "finish" PROVE result' \ DeepRules = Expected(result')
    <3>1. Expected(result') = result'
      BY <2>1, <1>6 DEF Expected
    <3>2. result' \intersect DeepRules = {}
      BY <1>4, OtherRules
    <3> QED
      BY <3>1, <3>2
  <2>2. \A s : Expected(s)' = Expected(s)
    BY <1>2
  <2>3. F = Published(case'.tarball)
    BY <1>1, <1>2
  <2> HIDE DEF F
  <2>4. pc' = "finish" => \E s \in ScriptChoices(Published(case'.tarball)) :
           result' \ DeepRules = Expected(s)'
    BY <2>1, <2>2, <2>3, <1>4
  <2>5. job' = "current" /\ outcome' = "none"
    BY <1>1, <1>2
  <2> QED
    BY <2>3, <2>4, <2>5, <1>1, <1>4, <1>6 DEF ResultOK
<1>10. DeepSignalsJustified'
  <2>1. \A c \in Capabilities : <<"version_diff_new_in_patch", c>> \notin result'
    BY <1>4, OtherRules DEF DeepRules
  <2> QED
    BY <2>1 DEF DeepSignalsJustified
<1> QED
  BY <1>2, <1>7, <1>8, <1>9, <1>10 DEF IInv

\* A file scanned for capabilities: what was still to do moves to what is found, and
\* once all capabilities are found the rest of the files can add none.
LEMMA ScanCapabilitiesKeeps ==
    ASSUME IInv, NEW p \in todo.capabilities, ScanCapabilities(p)
    PROVE  IInv'
<1> DEFINE F == tree["current"]
           found == detectCapabilities(F[p].content)
<1>1. /\ pc = "scan" /\ pc' = pc /\ outcome' = outcome
      /\ UNCHANGED <<case, job, fetching, unpacked, strings, result, ended>>
      /\ caps' = caps \union found
      /\ todo' = [todo EXCEPT !.capabilities = IF caps' = Capabilities THEN {} ELSE @ \ {p}]
  BY DEF ScanCapabilities
<1>2. /\ job = "current" /\ outcome = "none" /\ IsFiles(F) /\ F = Published(case.tarball)
      /\ CaseOK' /\ ControlOK' /\ ExtractOK' /\ TreesOK' /\ LimitsOK'
      /\ \A s : Expected(s)' = Expected(s)
  BY <1>1, AnalysisStays
<1>3. /\ todo.capabilities \subseteq JSFiles(F) /\ todo.entropy \subseteq SourceFiles(F)
      /\ caps \union CapabilitiesIn(F, todo.capabilities) = CapabilitiesOf(F)
      /\ \A k \in {1, 2} :
            strings[k] + SumOf(Strings(F, k), todo.entropy) = Counted(F, k)
  BY <1>1 DEF IInv, ScanOK
<1>4. /\ todo'.entropy = todo.entropy
      /\ todo'.capabilities = IF caps' = Capabilities THEN {} ELSE todo.capabilities \ {p}
      /\ todo' = [capabilities |-> todo'.capabilities, entropy |-> todo'.entropy]
  <2>1. todo = [capabilities |-> todo.capabilities, entropy |-> todo.entropy]
    BY DEF IInv, TypesOK
  <2> QED
    BY <1>1, <2>1
<1>5. JSFiles(F) \subseteq DOMAIN F /\ SourceFiles(F) \subseteq DOMAIN F
  BY <1>2, FileSets
<1>6. CapabilitiesOf(F) \subseteq Capabilities /\ found \subseteq Capabilities
  <2>1. \A q \in DOMAIN F : detectCapabilities(F[q].content) \subseteq Capabilities
    BY <1>2, FileScans
  <2> QED
    BY <2>1, <1>3, <1>5 DEF CapabilitiesOf
<1>7. caps' \union CapabilitiesIn(F, todo'.capabilities) = CapabilitiesOf(F)
  <2>1. CapabilitiesIn(F, todo.capabilities)
           = found \union CapabilitiesIn(F, todo.capabilities \ {p})
    BY DEF CapabilitiesIn
  <2>2. caps' \union CapabilitiesIn(F, todo.capabilities \ {p}) = CapabilitiesOf(F)
    BY <2>1, <1>1, <1>3
  <2>3. CASE caps' = Capabilities
    <3>1. todo'.capabilities = {} /\ CapabilitiesIn(F, {}) = {}
      BY <2>3, <1>4 DEF CapabilitiesIn
    <3> QED
      BY <3>1, <2>2, <2>3, <1>6
  <2>4. CASE caps' # Capabilities
    BY <2>2, <2>4, <1>4
  <2> QED
    BY <2>3, <2>4
<1>8. TypesOK'
  <2>1. caps' \subseteq Capabilities
    BY <1>1, <1>6 DEF IInv, TypesOK, DownloadTypeOK
  <2>2. todo'.capabilities \subseteq DOMAIN F /\ todo'.entropy \subseteq DOMAIN F
    BY <1>3, <1>4, <1>5
  <2>3. DownloadTypeOK'
    BY <1>1, <2>1, <2>2 DEF IInv, TypesOK, DownloadTypeOK, AnalysisPhases, Jobs
  <2> QED
    BY <1>1, <1>4, <2>3 DEF IInv, TypesOK
<1>9. ScanOK'
  <2>1. /\ todo'.capabilities \subseteq JSFiles(F) /\ todo'.entropy \subseteq SourceFiles(F)
        /\ tree'["current"] = F /\ strings' = strings
    BY <1>1, <1>3, <1>4
  <2>2. job' = "current" /\ pc' = "scan"
    BY <1>1, <1>2
  <2> HIDE DEF F, found
  <2> QED
    BY <2>1, <2>2, <1>3, <1>4, <1>7 DEF ScanOK
<1>10. ResultOK'
  BY <1>1, <1>2 DEF IInv, ResultOK
<1>11. DeepSignalsJustified'
  BY <1>1, CaseStays DEF IInv, DeepSignalsJustified
<1> QED
  BY <1>2, <1>8, <1>9, <1>10, <1>11 DEF IInv

\* A file scanned for entropy: its strings move from the sum still to come to the
\* totals.
LEMMA ScanEntropyKeeps ==
    ASSUME IInv, NEW p \in todo.entropy, ScanEntropy(p)
    PROVE  IInv'
<1> DEFINE F == tree["current"]
           n == scanFileEntropy(F[p].content)
<1>1. /\ pc = "scan" /\ pc' = pc /\ outcome' = outcome
      /\ UNCHANGED <<case, job, fetching, unpacked, caps, result, ended>>
      /\ strings' = <<strings[1] + n[1], strings[2] + n[2]>>
      /\ todo' = [todo EXCEPT !.entropy = @ \ {p}]
  BY DEF ScanEntropy
<1>2. /\ job = "current" /\ outcome = "none" /\ IsFiles(F) /\ F = Published(case.tarball)
      /\ CaseOK' /\ ControlOK' /\ ExtractOK' /\ TreesOK' /\ LimitsOK'
      /\ \A s : Expected(s)' = Expected(s)
  BY <1>1, AnalysisStays
<1>3. /\ todo.capabilities \subseteq JSFiles(F) /\ todo.entropy \subseteq SourceFiles(F)
      /\ caps \union CapabilitiesIn(F, todo.capabilities) = CapabilitiesOf(F)
      /\ \A k \in {1, 2} :
            strings[k] + SumOf(Strings(F, k), todo.entropy) = Counted(F, k)
  BY <1>1 DEF IInv, ScanOK
<1>4. /\ todo'.capabilities = todo.capabilities /\ todo'.entropy = todo.entropy \ {p}
      /\ todo' = [capabilities |-> todo'.capabilities, entropy |-> todo'.entropy]
  <2>1. todo = [capabilities |-> todo.capabilities, entropy |-> todo.entropy]
    BY DEF IInv, TypesOK
  <2> QED
    BY <1>1, <2>1
<1>5. /\ JSFiles(F) \subseteq DOMAIN F /\ SourceFiles(F) \subseteq DOMAIN F
      /\ IsFiniteSet(todo.entropy) /\ IsFiniteSet(todo.entropy \ {p})
  BY <1>2, <1>3, FileSets, FS_Subset
<1>6. \A k \in {1, 2} : \A q \in DOMAIN F : Strings(F, k)[q] \in Nat
  BY <1>2, FileScans
<1>7. n[1] = Strings(F, 1)[p] /\ n[2] = Strings(F, 2)[p] /\ n[1] \in Nat /\ n[2] \in 0..n[1]
  <2>1. p \in DOMAIN F
    BY <1>3, <1>5
  <2>2. n[1] = Strings(F, 1)[p] /\ n[2] = Strings(F, 2)[p]
    BY <2>1 DEF Strings
  <2> HIDE DEF n
  <2> QED
    BY <2>1, <2>2, <1>2, FileScans
<1> HIDE DEF n
<1>8. strings[1] \in Nat /\ strings[2] \in 0..strings[1]
  BY DEF IInv, TypesOK, DownloadTypeOK
<1>9. /\ strings'[1] = strings[1] + Strings(F, 1)[p]
      /\ strings'[2] = strings[2] + Strings(F, 2)[p]
      /\ strings' \in Nat \X Nat /\ strings'[2] \in 0..strings'[1]
  BY <1>1, <1>7, <1>8
<1>10. ASSUME NEW k \in {1, 2}
       PROVE  strings'[k] + SumOf(Strings(F, k), todo.entropy \ {p}) = Counted(F, k)
  <2>1. \A q \in todo.entropy : Strings(F, k)[q] \in Nat
    BY <1>3, <1>5, <1>6
  <2>2. SumOf(Strings(F, k), todo.entropy)
           = Strings(F, k)[p] + SumOf(Strings(F, k), todo.entropy \ {p})
    BY <2>1, <1>5, SumTake
  <2>3. SumOf(Strings(F, k), todo.entropy \ {p}) \in Nat
    BY <2>1, <1>5, SumNat
  <2>4. strings'[k] = strings[k] + Strings(F, k)[p] /\ strings[k] \in Nat
        /\ Strings(F, k)[p] \in Nat
    BY <1>8, <1>9, <2>1
  <2> HIDE DEF F
  <2> QED
    BY <2>2, <2>3, <2>4, <1>3
<1>11. TypesOK'
  <2>1. todo'.capabilities \subseteq DOMAIN F /\ todo'.entropy \subseteq DOMAIN F
    BY <1>3, <1>4, <1>5
  <2>2. DownloadTypeOK'
    BY <1>1, <1>9, <2>1 DEF IInv, TypesOK, DownloadTypeOK, AnalysisPhases, Jobs
  <2> QED
    BY <1>1, <1>4, <1>9, <2>2 DEF IInv, TypesOK
<1>12. ScanOK'
  <2>1. /\ todo'.capabilities \subseteq JSFiles(F) /\ todo'.entropy \subseteq SourceFiles(F)
        /\ tree'["current"] = F /\ caps' = caps
    BY <1>1, <1>3, <1>4
  <2>2. job' = "current" /\ pc' = "scan"
    BY <1>1, <1>2
  <2> HIDE DEF F
  <2> QED
    BY <2>1, <2>2, <1>3, <1>4, <1>10 DEF ScanOK
<1>13. ResultOK'
  BY <1>1, <1>2 DEF IInv, ResultOK
<1>14. DeepSignalsJustified'
  BY <1>1, CaseStays DEF IInv, DeepSignalsJustified
<1> QED
  BY <1>2, <1>11, <1>12, <1>13, <1>14 DEF IInv

\* Both goroutines are done: nothing is left to do, so what is found is the whole.
LEMMA ScansJoinKeeps ==
    ASSUME IInv, ScansJoin
    PROVE  IInv'
<1> DEFINE F == tree["current"]
<1>1. /\ pc = "scan" /\ pc' = "sinks" /\ outcome' = outcome
      /\ todo = [capabilities |-> {}, entropy |-> {}]
      /\ UNCHANGED <<case, job, fetching, unpacked, scanned, ended>>
      /\ result' = result \union CapabilityRules(caps) \union EntropyRules(strings)
  BY DEF ScansJoin
<1>2. /\ job = "current" /\ outcome = "none" /\ IsFiles(F) /\ F = Published(case.tarball)
      /\ CaseOK' /\ ControlOK' /\ ExtractOK' /\ TreesOK' /\ LimitsOK'
      /\ \A s : Expected(s)' = Expected(s)
  BY <1>1, AnalysisStays
<1>3. caps = CapabilitiesOf(F) /\ strings = Counts(F)
  <2>1. /\ caps \union CapabilitiesIn(F, todo.capabilities) = CapabilitiesOf(F)
        /\ \A k \in {1, 2} :
              strings[k] + SumOf(Strings(F, k), todo.entropy) = Counted(F, k)
    BY <1>1 DEF IInv, ScanOK
  <2>2. todo.capabilities = {} /\ todo.entropy = {}
    BY <1>1
  <2>3. CapabilitiesIn(F, {}) = {}
    BY DEF CapabilitiesIn
  <2>4. SumOf(Strings(F, 1), {}) = 0 /\ SumOf(Strings(F, 2), {}) = 0
    BY FS_EmptySet, SumPick
  <2>5. strings \in Nat \X Nat
    BY DEF IInv, TypesOK
  <2> HIDE DEF F
  <2>6. strings[1] = Counted(F, 1) /\ strings[2] = Counted(F, 2)
    BY <2>1, <2>2, <2>4, <2>5
  <2> QED
    BY <2>1, <2>2, <2>3, <2>5, <2>6 DEF Counts
<1>4. TypesOK'
  BY <1>1 DEF IInv, TypesOK, DownloadTypeOK, AnalysisPhases, Jobs
<1>5. ScanOK'
  <2>1. tree'["current"] = F /\ caps' = caps /\ strings' = strings
    BY <1>1
  <2> HIDE DEF F
  <2> QED
    BY <2>1, <1>1, <1>2, <1>3 DEF ScanOK
<1>6. ResultOK'
  <2>1. result \in ScriptChoices(F) /\ result \intersect VetoRules = {}
    BY <1>1, <1>2 DEF IInv, ResultOK
  <2>2. result' = result \union ScanRules(F)
    BY <1>1, <1>3 DEF ScanRules
  <2>3. Published(case'.tarball) = F
    BY <1>1, <1>2
  <2> HIDE DEF F
  <2> QED
    BY <2>1, <2>2, <2>3, <1>1, <1>2 DEF ResultOK
<1>7. DeepSignalsJustified'
  <2>1. result \in ScriptChoices(F)
    BY <1>1, <1>2 DEF IInv, ResultOK
  <2>2. result' = result \union ScanRules(F)
    BY <1>1, <1>3 DEF ScanRules
  <2>3. \A c \in Capabilities : <<"version_diff_new_in_patch", c>> \notin result'
    BY <2>1, <2>2, OtherRules DEF DeepRules
  <2> QED
    BY <2>3 DEF DeepSignalsJustified
<1> QED
  BY <1>2, <1>4, <1>5, <1>6, <1>7 DEF IInv

\* The sinks see the final counts.
LEMMA SinkScanKeeps ==
    ASSUME IInv, SinkScan
    PROVE  IInv'
<1> DEFINE F == tree["current"]
<1>1. /\ pc = "sinks" /\ pc' = "diff" /\ outcome' = outcome
      /\ UNCHANGED <<case, job, fetching, unpacked, scanned, ended>>
      /\ result' = result \union SinkRules(F, Obfuscated(strings))
  BY DEF SinkScan
<1>2. /\ job = "current" /\ outcome = "none" /\ IsFiles(F) /\ F = Published(case.tarball)
      /\ CaseOK' /\ ControlOK' /\ ExtractOK' /\ TreesOK' /\ LimitsOK'
      /\ \A s : Expected(s)' = Expected(s)
  BY <1>1, AnalysisStays
<1>3. caps = CapabilitiesOf(F) /\ strings = Counts(F)
  BY <1>1 DEF IInv, ScanOK
<1>4. PICK s \in ScriptChoices(F) : s \intersect VetoRules = {} /\ result = s \union ScanRules(F)
  BY <1>1, <1>2 DEF IInv, ResultOK
<1>5. result' = s \union ScanRules(F) \union SinksOf(F)
  BY <1>1, <1>3, <1>4 DEF SinksOf
<1>6. TypesOK'
  BY <1>1 DEF IInv, TypesOK, DownloadTypeOK, AnalysisPhases, Jobs
<1>7. ScanOK'
  <2>1. tree'["current"] = F /\ caps' = caps /\ strings' = strings
    BY <1>1
  <2> HIDE DEF F
  <2> QED
    BY <2>1, <1>1, <1>2, <1>3 DEF ScanOK
<1>8. ResultOK'
  <2>1. Published(case'.tarball) = F
    BY <1>1, <1>2
  <2> HIDE DEF F
  <2> QED
    BY <2>1, <1>1, <1>2, <1>4, <1>5 DEF ResultOK
<1>9. DeepSignalsJustified'
  <2>1. \A c \in Capabilities : <<"version_diff_new_in_patch", c>> \notin result'
    BY <1>4, <1>5, OtherRules DEF DeepRules
  <2> QED
    BY <2>1 DEF DeepSignalsJustified
<1> QED
  BY <1>2, <1>6, <1>7, <1>8, <1>9 DEF IInv

\* The metadata of two versions compared; the result is complete but for what the
\* previous tarball may tell.
LEMMA VersionDiffKeeps ==
    ASSUME IInv, VersionDiff
    PROVE  IInv'
<1> DEFINE F == tree["current"]
<1>1. /\ pc = "diff" /\ outcome' = outcome
      /\ UNCHANGED <<case, unpacked, scanned, ended>>
      /\ result' = IF Comparable THEN result \union ScriptDiff \union DependencyDiff ELSE result
  BY DEF VersionDiff
<1>2. /\ job = "current" /\ outcome = "none" /\ F = Published(case.tarball)
      /\ tree["previous"] = NoFiles
  BY <1>1 DEF IInv, ControlOK, TreesOK, AnalysisPhases
<1>3. \/ /\ Comparable /\ pc' = "request" /\ job' = "previous" /\ attempt' = 0
      \/ pc' = "finish" /\ job' = "current" /\ attempt' = attempt
  BY <1>1, <1>2 DEF VersionDiff
<1>4. /\ CaseOK' /\ (Comparable' <=> Comparable) /\ PrevMeta' = PrevMeta
      /\ \A s : Expected(s)' = Expected(s)
  BY <1>1, CaseStays DEF IInv
<1>5. PICK s \in ScriptChoices(F) :
        s \intersect VetoRules = {} /\ result = s \union ScanRules(F) \union SinksOf(F)
  BY <1>1, <1>2 DEF IInv, ResultOK
<1>6. result' = Expected(s)
  <2>1. Expected(s) = s \union ScanRules(F) \union SinksOf(F)
                        \union (IF Comparable THEN ScriptDiff \union DependencyDiff ELSE {})
    BY <1>2, <1>5 DEF Expected, ScanRules, SinksOf, Counts
  <2>2. CASE Comparable
    BY <2>1, <2>2, <1>1, <1>5
  <2>3. CASE ~Comparable
    BY <2>1, <2>3, <1>1, <1>5
  <2> QED
    BY <2>2, <2>3
<1>7. result' \ DeepRules = Expected(s) /\ result' \intersect DeepRules = {}
  BY <1>2, <1>5, <1>6, ExpectedShallow
<1>8. TypesOK'
  <2>1. pc' \in {"request", "finish"} /\ job' \in {"current", "previous"}
        /\ attempt' \in 0..MaxRetries
    BY <1>3, LimitsAssumption DEF IInv, TypesOK, DownloadTypeOK
  <2> QED
    BY <2>1, <1>1 DEF IInv, TypesOK, DownloadTypeOK, AnalysisPhases, Jobs
<1>9. ControlOK'
  BY <1>1, <1>2, <1>3, <1>4 DEF ControlOK
<1>10. ExtractOK'
  BY <1>3 DEF ExtractOK
<1>11. TreesOK'
  <2>1. tree'["current"] = Published(case'.tarball) /\ tree'["previous"] = NoFiles
    BY <1>1, <1>2
  <2> HIDE DEF F
  <2> QED
    BY <2>1, <1>3 DEF TreesOK
<1>12. LimitsOK'
  BY <1>1 DEF IInv, LimitsOK
<1>13. ScanOK'
  <2>1. caps' = CapabilitiesOf(tree'["current"]) /\ strings' = Counts(tree'["current"])
    BY <1>1 DEF IInv, ScanOK
  <2> QED
    BY <2>1, <1>3 DEF ScanOK
<1>14. ResultOK'
  <2>1. result' \ DeepRules = Expected(s)' /\ s \in ScriptChoices(Published(case'.tarball))
    BY <1>1, <1>2, <1>4, <1>5, <1>7
  <2> QED
    BY <2>1, <1>3 DEF ResultOK
<1>15. DeepSignalsJustified'
  <2>1. \A c \in Capabilities : <<"version_diff_new_in_patch", c>> \notin result'
    BY <1>7 DEF DeepRules
  <2> QED
    BY <2>1 DEF DeepSignalsJustified
<1> QED
  BY <1>4, <1>8, <1>9, <1>10, <1>11, <1>12, <1>13, <1>14, <1>15 DEF IInv

\* The deep check: both tarballs are whole, so what it accuses is there and was not.
LEMMA PrevCapabilitiesKeeps ==
    ASSUME IInv, PrevCapabilities
    PROVE  IInv'
<1> DEFINE before == CapabilitiesOf(tree["previous"])
<1>1. /\ pc = "capabilities" /\ pc' = "finish"
      /\ UNCHANGED <<case, job, fetching, unpacked, scanned, ended, outcome>>
      /\ result' = IF before = {} THEN result ELSE result \union CapabilityDiff(before, caps)
  BY DEF PrevCapabilities
<1>2. /\ CaseOK' /\ (Comparable' <=> Comparable) /\ PrevMeta' = PrevMeta
      /\ \A s : Expected(s)' = Expected(s)
  BY <1>1, CaseStays DEF IInv
<1>3. job = "previous" /\ outcome = "none" /\ Comparable
  BY <1>1 DEF IInv, ControlOK
<1>4. /\ tree["current"] = Published(case.tarball)
      /\ tree["previous"] = Published(PrevMeta.tarball)
      /\ caps = CapabilitiesOf(tree["current"])
  BY <1>1, <1>3 DEF IInv, TreesOK, ScanOK
<1>5. CapabilityDiff(before, caps)
         = {<<"version_diff_new_in_patch", c>> : c \in (caps \ before) \intersect {"exec", "net_access"}}
  BY DEF CapabilityDiff
<1>6. result' \ DeepRules = result \ DeepRules
  <2>1. CapabilityDiff(before, caps) \subseteq DeepRules
    BY <1>5 DEF DeepRules, Capabilities
  <2> HIDE DEF before
  <2> QED
    BY <2>1, <1>1
<1>7. TypesOK'
  BY <1>1 DEF IInv, TypesOK, DownloadTypeOK, AnalysisPhases, Jobs
<1>8. ControlOK'
  BY <1>1, <1>2, <1>3 DEF IInv, ControlOK
<1>9. ExtractOK'
  BY <1>1 DEF ExtractOK
<1>10. TreesOK'
  <2>1. tree'["current"] = Published(case'.tarball) /\ job' = "previous"
    BY <1>1, <1>3, <1>4
  <2> QED
    BY <2>1, <1>1 DEF TreesOK
<1>11. LimitsOK'
  BY <1>1 DEF IInv, LimitsOK
<1>12. ScanOK'
  BY <1>1, <1>3 DEF IInv, ScanOK
<1>13. ResultOK'
  <2>1. PICK s \in ScriptChoices(Published(case.tarball)) : result \ DeepRules = Expected(s)
    BY <1>3 DEF IInv, ResultOK
  <2>2. result' \ DeepRules = Expected(s)' /\ s \in ScriptChoices(Published(case'.tarball))
    BY <2>1, <1>1, <1>2, <1>6
  <2> QED
    BY <2>2, <1>1 DEF ResultOK
<1>14. DeepSignalsJustified'
  <2>1. ASSUME NEW c \in Capabilities, <<"version_diff_new_in_patch", c>> \in result'
        PROVE  /\ IsPatchBump(case.prev, case.version)
               /\ c \in CapabilitiesOf(Published(case.tarball))
               /\ c \notin CapabilitiesOf(Published(PrevMeta.tarball))
    <3>1. CASE <<"version_diff_new_in_patch", c>> \in result
      BY <3>1 DEF IInv, DeepSignalsJustified
    <3>2. CASE <<"version_diff_new_in_patch", c>> \notin result
      <4>1. <<"version_diff_new_in_patch", c>> \in CapabilityDiff(before, caps)
        <5> HIDE DEF before
        <5> QED
          BY <2>1, <3>2, <1>1
      <4>2. c \in caps \ before
        <5> HIDE DEF before
        <5> QED
          BY <4>1, <1>5
      <4> QED
        BY <4>2, <1>3, <1>4 DEF Comparable
    <3> QED
      BY <3>1, <3>2
  <2> QED
    BY <2>1, <1>1, <1>2 DEF DeepSignalsJustified
<1> QED
  BY <1>2, <1>7, <1>8, <1>9, <1>10, <1>11, <1>12, <1>13, <1>14 DEF IInv

\* The answer, by the deadline or past it.
LEMMA FinishKeeps ==
    ASSUME IInv, Finish
    PROVE  IInv'
<1>1. /\ pc = "finish" /\ pc' = "done" /\ outcome' \in {"analysis_timeout", "analysed"}
      /\ UNCHANGED <<case, job, fetching, unpacked, scanned, result, ended>>
  BY DEF Finish
<1>2. /\ CaseOK' /\ (Comparable' <=> Comparable) /\ PrevMeta' = PrevMeta
      /\ \A s : Expected(s)' = Expected(s)
  BY <1>1, CaseStays DEF IInv
<1>3. TypesOK'
  BY <1>1 DEF IInv, TypesOK, DownloadTypeOK, AnalysisPhases, Jobs
<1>4. ControlOK'
  BY <1>1, <1>2 DEF IInv, ControlOK
<1>5. ExtractOK'
  BY <1>1 DEF ExtractOK
<1>6. TreesOK'
  <2>1. tree'["current"] = Published(case'.tarball)
    BY <1>1 DEF IInv, TreesOK, AnalysisPhases
  <2> QED
    BY <2>1, <1>1 DEF IInv, TreesOK, AnalysisPhases
<1>7. LimitsOK'
  BY <1>1 DEF IInv, LimitsOK
<1>8. ScanOK'
  BY <1>1 DEF IInv, ScanOK
<1>9. ResultOK'
  <2>1. PICK s \in ScriptChoices(Published(case.tarball)) : result \ DeepRules = Expected(s)
    BY <1>1 DEF IInv, ResultOK
  <2>2. result' \ DeepRules = Expected(s)' /\ s \in ScriptChoices(Published(case'.tarball))
    BY <2>1, <1>1, <1>2
  <2> QED
    BY <2>2, <1>1 DEF ResultOK
<1>10. DeepSignalsJustified'
  BY <1>1, <1>2 DEF IInv, DeepSignalsJustified
<1> QED
  BY <1>2, <1>3, <1>4, <1>5, <1>6, <1>7, <1>8, <1>9, <1>10 DEF IInv

--------------------------------------------------------------------------------
\* The theorems.

\* IInv is inductive, so it holds of every run of a download (tarball.go, engine.go).
THEOREM Inductive == DownloadSpec => []IInv
<1>1. ASSUME IInv, [DownloadNext]_downloadVars PROVE IInv'
  <2> USE <1>1
  <2>1. CASE DoGetSucceeds
    BY <2>1, DoGetSucceedsKeeps
  <2>2. CASE DoGetFails \/ BackoffTimer \/ BackoffCancelled
    BY <2>2, RetryKeeps
  <2>3. CASE Verify
    BY <2>3, VerifyKeeps
  <2>4. CASE ExtractEntry
    BY <2>4, ExtractEntryKeeps
  <2>5. CASE ExtractEnd
    BY <2>5, ExtractEndKeeps
  <2>6. CASE InstallScripts
    BY <2>6, InstallScriptsKeeps
  <2>7. CASE \E p \in todo.capabilities : ScanCapabilities(p)
    BY <2>7, ScanCapabilitiesKeeps
  <2>8. CASE \E p \in todo.entropy : ScanEntropy(p)
    BY <2>8, ScanEntropyKeeps
  <2>9. CASE ScansJoin
    BY <2>9, ScansJoinKeeps
  <2>10. CASE SinkScan
    BY <2>10, SinkScanKeeps
  <2>11. CASE VersionDiff
    BY <2>11, VersionDiffKeeps
  <2>12. CASE PrevCapabilities
    BY <2>12, PrevCapabilitiesKeeps
  <2>13. CASE Finish
    BY <2>13, FinishKeeps
  <2>14. CASE ClientGoes \/ AnalysisTimeout \/ DeepCheckTimeout
    <3>1. /\ UNCHANGED <<case, pc, job, fetching, unpacked, scanned, result, outcome>>
          /\ ended' \subseteq {"request", "analysis", "deep"}
      BY <2>14 DEF ClientGoes, AnalysisTimeout, DeepCheckTimeout, IInv, TypesOK, DownloadTypeOK
    <3> QED
      BY <3>1, EndedKeeps
  <2>15. CASE Done \/ UNCHANGED downloadVars
    <3>1. /\ UNCHANGED <<case, pc, job, fetching, unpacked, scanned, result, outcome>>
          /\ ended' \subseteq {"request", "analysis", "deep"}
      BY <2>15 DEF Done, IInv, TypesOK, DownloadTypeOK
    <3> QED
      BY <3>1, EndedKeeps
  <2> QED
    BY <2>1, <2>2, <2>3, <2>4, <2>5, <2>6, <2>7, <2>8, <2>9, <2>10, <2>11, <2>12, <2>13,
       <2>14, <2>15 DEF DownloadNext, AnalysisStep
<1> QED
  BY <1>1, InitInv, PTL DEF DownloadSpec

\* Every variable of a download stays in its type.
THEOREM TypeCorrect == DownloadSpec => []DownloadTypeOK
<1>1. IInv => DownloadTypeOK
  BY DEF IInv, TypesOK
<1> QED
  BY <1>1, Inductive, PTL

\* The detectors only ever see whole tarballs, whatever the body was cut to, however
\* often it was fetched (client.go getBytes, tarball.go Extract).
THEOREM WholeTarballs == DownloadSpec => []TreeIsPublished
<1>1. IInv => TreeIsPublished
  BY DEF IInv, TreesOK, TreeIsPublished
<1> QED
  BY <1>1, Inductive, PTL

\* No tarball takes more memory than the limits allow, at any point of its extraction
\* (tarball.go Extract).
THEOREM WithinTheLimits == DownloadSpec => []TreeWithinLimits
<1>1. ASSUME IInv PROVE TreeWithinLimits
  <2>1. ASSUME NEW j \in Jobs
        PROVE  /\ Cardinality(DOMAIN tree[j]) <= MaxFiles
               /\ \A p \in DOMAIN tree[j] : ~Escapes(p) /\ Sizes(tree[j])[p] <= MaxFileBytes
               /\ SumOf(Sizes(tree[j]), DOMAIN tree[j]) <= MaxTotalBytes
    <3>1. WithinLimits(tree[j], totalBytes[j]) /\ totalBytes[j] \in Nat /\ IsFiles(tree[j])
      BY <1>1 DEF IInv, LimitsOK, TypesOK
    <3>2. \A p \in DOMAIN tree[j] : Sizes(tree[j])[p] = tree[j][p].size
                                    /\ tree[j][p].size \in Nat
      BY <3>1, EntriesTyped DEF Sizes, IsFiles, IsEntry
    <3>3. SumOf(Sizes(tree[j]), DOMAIN tree[j]) \in Nat
      BY <3>1, <3>2, SumNat DEF IsFiles
    <3> QED
      BY <3>1, <3>2, <3>3, LimitsAssumption DEF WithinLimits
  <2> QED
    BY <2>1 DEF TreeWithinLimits, Sizes
<1> QED
  BY <1>1, Inductive, PTL

\* The signals do not hang on the order in which the maps yield their files, nor on
\* the goroutines' interleaving: they are those of the package as a whole (engine.go
\* Analyze, capabilities.go, entropy.go, sinks.go).
THEOREM OrderFree == DownloadSpec => []AnalysisOrderFree
<1>1. ASSUME IInv PROVE AnalysisOrderFree
  BY <1>1 DEF IInv, ResultOK, AnalysisOrderFree, ScriptChoices
<1> QED
  BY <1>1, Inductive, PTL

\* The deep check accuses a patch release only of what its whole tarball has and the
\* whole previous tarball has not (engine.go fetchPrevCapabilities).
THEOREM DeepJustified == DownloadSpec => []DeepSignalsJustified
<1>1. IInv => DeepSignalsJustified
  BY DEF IInv
<1> QED
  BY <1>1, Inductive, PTL

-----------------------------------------------------------------------------
(* The scrubbing of a source.  Both passes write a piece per turn: a result *)
(* Fits when each place shows what it may.  The passes have lexers of their *)
(* own, so each is compared with the modes of the source: at the positions  *)
(* where a turn can begin, Stops for the first pass and Places for the      *)
(* second, the source is where the pass takes it to be, and a turn leads    *)
(* from one such position to the next (WrittenFits).  The loops within a    *)
(* literal are followed from the end of the source (BackwardInductionOn).   *)

\* The characters of a scrubbed source.
Glyphs == Chars \union {Space}

\* What stands at the places from i up to j, exclusive, and may stand there.
Fits(out, i, j, R) ==
  /\ out \in Seq(Glyphs) /\ Len(out) = j - i
  /\ \A k \in i..(j - 1) : out[k - i + 1] \in R[k]

\* One stretch behind another.
LEMMA FitsJoin ==
  ASSUME NEW i \in Nat, NEW e \in Nat, NEW j \in Nat, NEW a, NEW b, NEW R,
         Fits(a, i, e, R), Fits(b, e, j, R)
  PROVE  Fits(a \o b, i, j, R)
<1>1. /\ a \in Seq(Glyphs) /\ b \in Seq(Glyphs) /\ Len(a) = e - i /\ Len(b) = j - e
      /\ Len(a) \in Nat /\ Len(b) \in Nat
  BY DEF Fits
<1>2. /\ a \o b \in Seq(Glyphs) /\ Len(a \o b) = Len(a) + Len(b)
      /\ \A k \in 1..(Len(a) + Len(b)) : (a \o b)[k] = IF k <= Len(a) THEN a[k] ELSE b[k - Len(a)]
  BY <1>1, ConcatProperties
<1>3. ASSUME NEW k \in i..(j - 1) PROVE (a \o b)[k - i + 1] \in R[k]
  <2>1. (a \o b)[k - i + 1] = IF k - i + 1 <= e - i THEN a[k - i + 1] ELSE b[k - i + 1 - (e - i)]
    BY <1>1, <1>2
  <2>2. CASE k < e
    BY <2>1, <2>2 DEF Fits
  <2>3. CASE k >= e
    <3>1. b[k - e + 1] \in R[k]
      BY <2>3 DEF Fits
    <3>2. k - i + 1 - (e - i) = k - e + 1
      OBVIOUS
    <3> QED
      BY <2>1, <2>3, <3>1, <3>2
  <2>4. k < e \/ k >= e
    OBVIOUS
  <2> QED
    BY <2>2, <2>3, <2>4, Zenon
<1> QED
  BY <1>1, <1>2, <1>3 DEF Fits

\* A single glyph.
LEMMA FitsOne ==
  ASSUME NEW i \in Nat, NEW c \in Glyphs, NEW R, c \in R[i]
  PROVE  Fits(<<c>>, i, i + 1, R)
<1>1. <<c>> \in Seq(Glyphs) /\ Len(<<c>>) = (i + 1) - i
  OBVIOUS
<1>2. ASSUME NEW k \in i..((i + 1) - 1) PROVE <<c>>[k - i + 1] \in R[k]
  <2>1. k = i /\ k - i + 1 = 1
    OBVIOUS
  <2>2. <<c>>[1] = c
    OBVIOUS
  <2> QED
    BY <2>1, <2>2
<1> QED
  BY <1>1, <1>2, Zenon DEF Fits

\* No glyph.
LEMMA FitsNone ==
  ASSUME NEW i \in Nat, NEW R
  PROVE  Fits(<< >>, i, i, R)
  BY DEF Fits

-----------------------------------------------------------------------------
(* The outer loop, for both passes. *)

IsWritten(from, s, turn) ==
  from = [i \in 1..(Len(s) + 1) |->
            IF i > Len(s) THEN << >>
            ELSE LET piece == turn[i] IN piece \o from[i + Len(piece)]]

\* A turn writes something and stays within the source.
Turns(s, turn) ==
  \A i \in 1..Len(s) : /\ turn[i] \in Seq(Glyphs) /\ Len(turn[i]) # 0
                       /\ i + Len(turn[i]) \in 1..(Len(s) + 1)

\* The outer loop is the function its recursion describes.
LEMMA WrittenExists ==
  ASSUME NEW s \in Seq(Glyphs), NEW turn, Turns(s, turn)
  PROVE  \E from : IsWritten(from, s, turn)
<1> DEFINE n == Len(s)
           V == Seq(Glyphs)
           W == [1..(n + 1) -> V]
           G == [i \in 1..n |-> [f \in W |-> turn[i] \o f[i + Len(turn[i])]]]
<1>1. n \in Nat /\ << >> \in V
  OBVIOUS
<1>2. G \in [1..n -> [W -> V]]
  <2>1. ASSUME NEW i \in 1..n, NEW f \in W PROVE turn[i] \o f[i + Len(turn[i])] \in V
    <3>1. turn[i] \in V /\ f[i + Len(turn[i])] \in V
      BY DEF Turns
    <3> QED
      BY <3>1
  <2> HIDE DEF n, V, W
  <2> QED
    BY <2>1
<1>3. LooksBehind(G, n, V)
  <2> SUFFICES ASSUME NEW i \in 1..n, NEW f \in W, NEW g \in W,
                      \A j \in (i + 1)..(n + 1) : f[j] = g[j]
               PROVE  G[i][f] = G[i][g]
    BY DEF LooksBehind
  <2>1. Len(turn[i]) \in Nat /\ i + Len(turn[i]) \in (i + 1)..(n + 1)
    BY DEF Turns
  <2>2. f[i + Len(turn[i])] = g[i + Len(turn[i])]
    BY <2>1
  <2> HIDE DEF n, V, W
  <2> QED
    BY <2>2
<1>4. PICK r \in W : IsBackward(r, n, << >>, G)
  <2> HIDE DEF n, V, G
  <2> QED
    BY <1>1, <1>2, <1>3, BackwardRecursionExists
<1>5. ASSUME NEW i \in 1..(n + 1)
      PROVE  r[i] = IF i > n THEN << >> ELSE LET piece == turn[i] IN piece \o r[i + Len(piece)]
  <2> HIDE DEF n, V, W, G
  <2>1. CASE i = n + 1
    <3>1. i > n /\ r[i] = << >>
      BY <1>1, <1>4, <2>1 DEF IsBackward
    <3> QED
      BY <3>1, Zenon
  <2>2. CASE i # n + 1
    <3>1. i \in 1..n /\ ~(i > n) /\ r[i] = G[i][r]
      BY <1>1, <1>4, <2>2 DEF IsBackward
    <3>2. G[i][r] = turn[i] \o r[i + Len(turn[i])]
      BY <1>4, <3>1 DEF G
    <3> QED
      BY <3>1, <3>2
  <2> QED
    BY <2>1, <2>2
<1>6. r = [i \in 1..(n + 1) |-> r[i]]
  BY <1>4
<1> HIDE DEF G
<1>7. IsWritten(r, s, turn)
  BY <1>5, <1>6 DEF IsWritten
<1> QED
  BY <1>7

\* If each turn that comes up writes what fits and leads to such a place again,
\* the whole fits.
LEMMA WrittenFits ==
  ASSUME NEW s \in Seq(Glyphs), NEW turn, Turns(s, turn), NEW R,
         NEW Stops, 1 \in Stops,
         \A i \in 1..Len(s) : i \in Stops =>
            /\ Fits(turn[i], i, i + Len(turn[i]), R)
            /\ i + Len(turn[i]) \in Stops
  PROVE  Fits(Written(s, turn), 1, Len(s) + 1, R)
<1> DEFINE n == Len(s)
           from == CHOOSE from : IsWritten(from, s, turn)
           Good == {m \in Nat : m <= n =>
                      (n + 1 - m \in Stops => Fits(from[n + 1 - m], n + 1 - m, n + 1, R))}
<1>1. IsWritten(from, s, turn)
  BY WrittenExists, Zenon
<1>2. Written(s, turn) = from[1]
  BY DEF Written, IsWritten
<1> HIDE DEF from
<1>3. ASSUME NEW m \in Nat, \A l \in Nat : l < m => l \in Good
      PROVE  m \in Good
  <2> DEFINE i == n + 1 - m
  <2> SUFFICES ASSUME m <= n, i \in Stops PROVE Fits(from[i], i, n + 1, R)
    OBVIOUS
  <2>1. from[i] = IF i > n THEN << >> ELSE LET piece == turn[i] IN piece \o from[i + Len(piece)]
    <3>1. i \in 1..(n + 1)
      OBVIOUS
    <3> HIDE DEF i
    <3> QED
      BY <1>1, <3>1 DEF IsWritten
  <2>0. n \in Nat /\ i \in Nat /\ i + m = n + 1 /\ i <= n + 1
    OBVIOUS
  <2>2. CASE m = 0
    <3> HIDE DEF i, n
    <3>1. from[i] = << >> /\ i = n + 1
      BY <2>0, <2>1, <2>2
    <3> QED
      BY <2>0, <3>1, FitsNone
  <2>3. CASE m # 0
    <3> DEFINE e == i + Len(turn[i])
    <3>1. i \in 1..n
      BY <2>3
    <3> HIDE DEF i, n
    <3>2. Len(turn[i]) \in Nat /\ e \in (i + 1)..(n + 1)
      <4>1. turn[i] \in Seq(Glyphs) /\ Len(turn[i]) # 0 /\ e \in 1..(n + 1)
        BY <3>1 DEF Turns, n
      <4>2. Len(turn[i]) \in Nat
        BY <4>1
      <4> QED
        BY <2>0, <4>1, <4>2
    <3>3. Fits(turn[i], i, e, R) /\ e \in Stops
      BY <3>1 DEF i, n
    <3>4. from[i] = turn[i] \o from[e]
      <4>1. ~(i > n)
        BY <2>0, <3>1
      <4> QED
        BY <2>1, <4>1, Zenon
    <3>5. Fits(from[e], e, n + 1, R)
      <4>1. n + 1 - e \in Nat /\ n + 1 - e < m /\ n + 1 - e <= n /\ n + 1 - (n + 1 - e) = e
        <5> HIDE DEF e
        <5> QED
          BY <2>0, <3>1, <3>2
      <4> HIDE DEF e
      <4>2. n + 1 - e \in Good
        BY <1>3, <4>1
      <4> QED
        BY <3>3, <4>1, <4>2 DEF n
    <3> HIDE DEF e
    <3> QED
      BY <2>0, <3>2, <3>3, <3>4, <3>5, FitsJoin
  <2> QED
    BY <2>2, <2>3
<1>4. \A m \in Nat : m \in Good
  <2> HIDE DEF Good
  <2> QED
    BY <1>3, InductionOn
<1>5. n \in Good /\ n + 1 - n = 1
  BY <1>4
<1> QED
  BY <1>2, <1>5

-----------------------------------------------------------------------------
(* The inner loops. *)

\* The least of a set of numbers.
LEMMA LeastOf ==
  ASSUME NEW S \in SUBSET Nat, S # {}
  PROVE  Min(S) \in S /\ \A m \in S : Min(S) <= m
  BY LeastNumber DEF Min

\* A line comment reaches up to its newline, exclusive, or to the end.
LEMMA LineEndFacts ==
  ASSUME NEW s \in Seq(Glyphs), NEW i \in 1..(Len(s) + 1)
  PROVE  /\ LineEnd(s, i) \in i..(Len(s) + 1)
         /\ \A j \in i..(LineEnd(s, i) - 1) : s[j] # Newline
         /\ LineEnd(s, i) # Len(s) + 1 => s[LineEnd(s, i)] = Newline
<1> DEFINE n == Len(s)
           S == {j \in i..n : s[j] = Newline} \union {n + 1}
           e == Min(S)
<1>1. n \in Nat /\ LineEnd(s, i) = e
  BY DEF LineEnd
<1> HIDE DEF n
<1>2. S \in SUBSET Nat /\ S # {} /\ i \in 1..(n + 1)
  BY <1>1 DEF n
<1>3. e \in S /\ \A m \in S : e <= m
  <2> HIDE DEF S
  <2> QED
    BY <1>2, LeastOf
<1> HIDE DEF e
<1>4. e \in i..(n + 1) /\ (e # n + 1 => s[e] = Newline)
  BY <1>1, <1>2, <1>3
<1>5. ASSUME NEW j \in i..(e - 1), s[j] = Newline PROVE FALSE
  <2>1. j \in i..n /\ j < e
    BY <1>1, <1>2, <1>4
  <2>2. j \in S
    BY <1>5, <2>1
  <2> QED
    BY <1>1, <1>2, <1>3, <1>4, <2>1, <2>2
<1> QED
  BY <1>1, <1>4, <1>5 DEF n

\* A block comment reaches behind the first star and slash, or to the end.
LEMMA BlockEndFacts ==
  ASSUME NEW s \in Seq(Glyphs), NEW i \in 1..(Len(s) + 1)
  PROVE  \/ /\ BlockEnd(s, i) = Len(s) + 1
            /\ \A j \in i..Len(s) : ~Pair(s, j, "star", "slash")
         \/ \E c \in i..Len(s) : /\ BlockEnd(s, i) = c + 2 /\ c < Len(s)
                                 /\ Pair(s, c, "star", "slash")
                                 /\ \A j \in i..(c - 1) : ~Pair(s, j, "star", "slash")
<1> DEFINE n == Len(s)
           closes == {j \in i..n : Pair(s, j, "star", "slash")}
<1>1. BlockEnd(s, i) = IF closes = {} THEN n + 1 ELSE Min(closes) + 2
  BY DEF BlockEnd
<1>2. n \in Nat /\ closes \in SUBSET Nat
  OBVIOUS
<1>3. CASE closes = {}
  BY <1>1, <1>3
<1>4. CASE closes # {}
  <2> DEFINE c == Min(closes)
  <2>1. c \in closes /\ \A m \in closes : c <= m
    <3> HIDE DEF closes
    <3> QED
      BY <1>2, <1>4, LeastOf
  <2> HIDE DEF c
  <2>2. c \in i..n /\ Pair(s, c, "star", "slash")
    BY <2>1
  <2>3. c < n
    BY <2>2 DEF Pair
  <2>4. ASSUME NEW j \in i..(c - 1), Pair(s, j, "star", "slash") PROVE FALSE
    <3>1. j \in closes /\ j < c
      BY <1>2, <2>2, <2>4
    <3> HIDE DEF closes
    <3> QED
      BY <1>2, <2>1, <2>2, <3>1
  <2>5. BlockEnd(s, i) = c + 2
    BY <1>1, <1>4 DEF c
  <2> QED
    BY <2>2, <2>3, <2>4, <2>5
<1> QED
  BY <1>3, <1>4

EndRule(end, s, quote, i) ==
  IF i > Len(s) THEN i
  ELSE IF s[i] = Escape /\ i < Len(s) THEN end[i + 2]
  ELSE IF s[i] = quote THEN i + 1
  ELSE IF s[i] = Newline /\ quote # Backtick THEN i
  ELSE end[i + 1]

IsEnd(end, s, quote) == end = [i \in 1..(Len(s) + 1) |-> EndRule(end, s, quote, i)]

\* The end of a literal, which refers to positions behind only, is defined.
LEMMA EndExists ==
  ASSUME NEW s \in Seq(Glyphs), NEW quote
  PROVE  \E end : IsEnd(end, s, quote)
<1> DEFINE n == Len(s)
           W == [1..(n + 1) -> Nat]
           G == [i \in 1..n |-> [f \in W |-> EndRule(f, s, quote, i)]]
<1>1. n \in Nat /\ n + 1 \in Nat
  OBVIOUS
<1>2. G \in [1..n -> [W -> Nat]]
  <2>1. ASSUME NEW i \in 1..n, NEW f \in W PROVE EndRule(f, s, quote, i) \in Nat
    <3>1. f[i + 1] \in Nat /\ (i < n => f[i + 2] \in Nat)
      OBVIOUS
    <3> QED
      BY <3>1 DEF EndRule
  <2> HIDE DEF n, W
  <2> QED
    BY <2>1
<1>3. LooksBehind(G, n, Nat)
  <2> SUFFICES ASSUME NEW i \in 1..n, NEW f \in W, NEW g \in W,
                      \A j \in (i + 1)..(n + 1) : f[j] = g[j]
               PROVE  G[i][f] = G[i][g]
    BY DEF LooksBehind
  <2>1. f[i + 1] = g[i + 1] /\ (i < n => f[i + 2] = g[i + 2])
    BY <1>1
  <2>2. EndRule(f, s, quote, i) = EndRule(g, s, quote, i)
    BY <2>1 DEF EndRule
  <2> HIDE DEF n, W
  <2> QED
    BY <2>2
<1>4. PICK r \in W : IsBackward(r, n, n + 1, G)
  <2> HIDE DEF n, G
  <2> QED
    BY <1>1, <1>2, <1>3, BackwardRecursionExists
<1>5. ASSUME NEW i \in 1..(n + 1) PROVE r[i] = EndRule(r, s, quote, i)
  <2> HIDE DEF W, G
  <2>1. CASE i = n + 1
    BY <1>1, <1>4, <2>1 DEF IsBackward, EndRule
  <2>2. CASE i # n + 1
    <3>1. i \in 1..n /\ r[i] = G[i][r]
      <4> HIDE DEF n
      <4> QED
        BY <1>1, <1>4, <2>2 DEF IsBackward
    <3> HIDE DEF n
    <3>2. G[i][r] = EndRule(r, s, quote, i)
      BY <1>4, <3>1 DEF G
    <3> QED
      BY <3>1, <3>2
  <2> QED
    BY <2>1, <2>2
<1>6. r = [i \in 1..(n + 1) |-> r[i]]
  BY <1>4
<1> HIDE DEF G
<1>7. IsEnd(r, s, quote)
  BY <1>5, <1>6 DEF IsEnd
<1> QED
  BY <1>7

\* The end of a literal obeys its rule and lies within the source.
LEMMA EndFacts ==
  ASSUME NEW s \in Seq(Glyphs), NEW quote, NEW i \in 1..(Len(s) + 1)
  PROVE  /\ QuotedEnd(s, quote)[i] = EndRule(QuotedEnd(s, quote), s, quote, i)
         /\ QuotedEnd(s, quote)[i] \in i..(Len(s) + 1)
<1> DEFINE n == Len(s)
           end == QuotedEnd(s, quote)
           S == {j \in 1..(n + 1) : end[j] \in j..(n + 1)}
<1>1. n \in Nat
  OBVIOUS
<1>2. end = CHOOSE e : IsEnd(e, s, quote)
  BY DEF QuotedEnd, IsEnd, EndRule
<1>3. IsEnd(end, s, quote)
  <2> HIDE DEF end
  <2> QED
    BY <1>2, EndExists, Zenon
<1> HIDE DEF end
<1>4. \A j \in 1..(n + 1) : end[j] = EndRule(end, s, quote, j)
  BY <1>3 DEF IsEnd
<1>5. ASSUME NEW j \in 1..(n + 1), \A k \in (j + 1)..(n + 1) : k \in S
      PROVE  j \in S
  <2>1. j # n + 1 => end[j + 1] \in (j + 1)..(n + 1)
    BY <1>5
  <2>2. j < n => end[j + 2] \in (j + 2)..(n + 1)
    BY <1>5
  <2>3. end[j] = EndRule(end, s, quote, j)
    BY <1>4
  <2> HIDE DEF n
  <2>4. end[j] \in j..(n + 1)
    BY <1>1, <2>1, <2>2, <2>3 DEF EndRule, n
  <2> QED
    BY <2>4
<1>6. \A j \in 1..(n + 1) : j \in S
  <2> HIDE DEF S, n
  <2> QED
    BY <1>1, <1>5, BackwardInductionOn
<1> QED
  BY <1>4, <1>6 DEF end

\* A run of blanks.
LEMMA SpacesFacts ==
  ASSUME NEW n \in Nat
  PROVE  /\ Spaces(n) \in Seq(Glyphs) /\ Len(Spaces(n)) = n
         /\ \A k \in 1..n : Spaces(n)[k] = Space
  BY DEF Spaces, Glyphs

BodyRule(blanked, s, quote, i) ==
  IF i > Len(s) THEN << >>
  ELSE IF s[i] = quote THEN <<quote>>
  ELSE IF s[i] = Escape /\ i < Len(s) THEN Spaces(2) \o blanked[i + 2]
  ELSE IF s[i] # Newline THEN Spaces(1) \o blanked[i + 1]
  ELSE IF quote = Backtick THEN <<Newline>> \o blanked[i + 1] ELSE << >>

IsBody(blanked, s, quote) == blanked = [i \in 1..(Len(s) + 1) |-> BodyRule(blanked, s, quote, i)]

\* What is behind decides how long it gets.
LEMMA BodyRuleFacts ==
  ASSUME NEW s \in Seq(Glyphs), NEW quote \in Glyphs, NEW i \in 1..Len(s), NEW blanked,
         blanked[i + 1] \in Seq(Glyphs), i < Len(s) => blanked[i + 2] \in Seq(Glyphs)
  PROVE  /\ BodyRule(blanked, s, quote, i) \in Seq(Glyphs)
         /\ \/ Len(BodyRule(blanked, s, quote, i)) \in {0, 1}
            \/ i < Len(s) /\ Len(BodyRule(blanked, s, quote, i)) = 2 + Len(blanked[i + 2])
            \/ Len(BodyRule(blanked, s, quote, i)) = 1 + Len(blanked[i + 1])
<1> DEFINE b == BodyRule(blanked, s, quote, i)
<1>0. Len(s) \in Nat /\ ~(i > Len(s))
  OBVIOUS
<1>1. Newline \in Glyphs /\ <<Newline>> \in Seq(Glyphs) /\ <<quote>> \in Seq(Glyphs)
  BY DEF Glyphs, Chars
<1>2. CASE s[i] = quote
  <2>1. b = <<quote>>
    BY <1>0, <1>2, Zenon DEF BodyRule
  <2> QED
    BY <1>1, <2>1
<1>3. CASE s[i] # quote /\ s[i] = Escape /\ i < Len(s)
  <2>1. b = Spaces(2) \o blanked[i + 2]
    BY <1>0, <1>3, Zenon DEF BodyRule
  <2>2. b \in Seq(Glyphs) /\ Len(b) = Len(Spaces(2)) + Len(blanked[i + 2])
    <3> HIDE DEF b
    <3> QED
      BY <1>3, <2>1, SpacesFacts, ConcatProperties
  <2> QED
    BY <1>3, <2>2, SpacesFacts
<1>4. CASE s[i] # quote /\ ~(s[i] = Escape /\ i < Len(s)) /\ s[i] # Newline
  <2>1. b = Spaces(1) \o blanked[i + 1]
    BY <1>0, <1>4, Zenon DEF BodyRule
  <2>2. b \in Seq(Glyphs) /\ Len(b) = Len(Spaces(1)) + Len(blanked[i + 1])
    <3> HIDE DEF b
    <3> QED
      BY <2>1, SpacesFacts, ConcatProperties
  <2> QED
    BY <2>2, SpacesFacts
<1>5. CASE s[i] # quote /\ ~(s[i] = Escape /\ i < Len(s)) /\ s[i] = Newline /\ quote = Backtick
  <2>1. b = <<Newline>> \o blanked[i + 1]
    BY <1>0, <1>5, Zenon DEF BodyRule
  <2>2. b \in Seq(Glyphs) /\ Len(b) = Len(<<Newline>>) + Len(blanked[i + 1])
    <3> HIDE DEF b
    <3> QED
      BY <1>1, <2>1, ConcatProperties
  <2> QED
    BY <2>2
<1>6. CASE s[i] # quote /\ ~(s[i] = Escape /\ i < Len(s)) /\ s[i] = Newline /\ quote # Backtick
  <2>1. b = << >>
    BY <1>0, <1>6, Zenon DEF BodyRule
  <2> QED
    BY <2>1
<1> HIDE DEF b
<1>7. b \in Seq(Glyphs)
      /\ (Len(b) \in {0, 1} \/ (i < Len(s) /\ Len(b) = 2 + Len(blanked[i + 2])) \/ Len(b) = 1 + Len(blanked[i + 1]))
  BY <1>2, <1>3, <1>4, <1>5, <1>6, Zenon DEF b
<1> QED
  BY <1>7 DEF b

\* So is the blanked body of a literal.
LEMMA BodyExists ==
  ASSUME NEW s \in Seq(Glyphs), NEW quote \in Glyphs
  PROVE  \E blanked \in [1..(Len(s) + 1) -> Seq(Glyphs)] : IsBody(blanked, s, quote)
<1> DEFINE n == Len(s)
           V == Seq(Glyphs)
           W == [1..(n + 1) -> V]
           G == [i \in 1..n |-> [f \in W |-> BodyRule(f, s, quote, i)]]
<1>1. n \in Nat /\ << >> \in V
  OBVIOUS
<1>2. G \in [1..n -> [W -> V]]
  <2>1. ASSUME NEW i \in 1..n, NEW f \in W PROVE BodyRule(f, s, quote, i) \in V
    <3>1. f[i + 1] \in V /\ (i < n => f[i + 2] \in V)
      <4> HIDE DEF n, V
      <4> QED
        BY <1>1
    <3> QED
      BY <3>1, BodyRuleFacts
  <2> HIDE DEF n, V, W
  <2> QED
    BY <2>1
<1>3. LooksBehind(G, n, V)
  <2> SUFFICES ASSUME NEW i \in 1..n, NEW f \in W, NEW g \in W,
                      \A j \in (i + 1)..(n + 1) : f[j] = g[j]
               PROVE  G[i][f] = G[i][g]
    BY DEF LooksBehind
  <2>1. f[i + 1] = g[i + 1] /\ (i < n => f[i + 2] = g[i + 2])
    BY <1>1
  <2>2. BodyRule(f, s, quote, i) = BodyRule(g, s, quote, i)
    <3> HIDE DEF V
    <3> QED
      BY <2>1, Zenon DEF BodyRule
  <2> HIDE DEF n, V, W
  <2> QED
    BY <2>2
<1>4. PICK r \in W : IsBackward(r, n, << >>, G)
  <2> HIDE DEF n, V, G
  <2> QED
    BY <1>1, <1>2, <1>3, BackwardRecursionExists
<1>5. ASSUME NEW i \in 1..(n + 1) PROVE r[i] = BodyRule(r, s, quote, i)
  <2> HIDE DEF V, W, G
  <2>1. CASE i = n + 1
    <3>1. r[i] = << >> /\ i > Len(s)
      <4> HIDE DEF n
      <4>1. r[i] = << >> /\ i > n
        BY <1>1, <1>4, <2>1 DEF IsBackward
      <4> QED
        BY <4>1 DEF n
    <3> QED
      BY <3>1, Zenon DEF BodyRule
  <2>2. CASE i # n + 1
    <3> HIDE DEF n
    <3>1. i \in 1..n /\ r[i] = G[i][r]
      BY <1>1, <1>4, <2>2 DEF IsBackward
    <3>2. G[i][r] = BodyRule(r, s, quote, i)
      BY <1>4, <3>1, Zenon DEF G
    <3> QED
      BY <3>1, <3>2
  <2> QED
    BY <2>1, <2>2
<1>6. r = [i \in 1..(n + 1) |-> r[i]]
  BY <1>4
<1> HIDE DEF G
<1>7. IsBody(r, s, quote)
  BY <1>5, <1>6, Zenon DEF IsBody
<1> QED
  BY <1>4, <1>7

\* The blanked body of a literal obeys its rule and stays within the source.
LEMMA BodyFacts ==
  ASSUME NEW s \in Seq(Glyphs), NEW quote \in Glyphs, NEW i \in 1..(Len(s) + 1)
  PROVE  /\ BlankBody(s, quote)[i] = BodyRule(BlankBody(s, quote), s, quote, i)
         /\ BlankBody(s, quote)[i] \in Seq(Glyphs)
         /\ i + Len(BlankBody(s, quote)[i]) \in i..(Len(s) + 1)
<1> DEFINE n == Len(s)
           blanked == BlankBody(s, quote)
           S == {j \in 1..(n + 1) : blanked[j] \in Seq(Glyphs) /\ j + Len(blanked[j]) \in j..(n + 1)}
<1>1. n \in Nat
  OBVIOUS
<1>2. blanked = CHOOSE b : IsBody(b, s, quote)
  BY DEF BlankBody, IsBody, BodyRule
<1>3. IsBody(blanked, s, quote)
  <2> HIDE DEF blanked
  <2> QED
    BY <1>2, BodyExists, Zenon
<1> HIDE DEF blanked
<1>4. \A j \in 1..(n + 1) : blanked[j] = BodyRule(blanked, s, quote, j)
  BY <1>3, Zenon DEF IsBody
<1>5. ASSUME NEW j \in 1..(n + 1), \A k \in (j + 1)..(n + 1) : k \in S
      PROVE  j \in S
  <2> HIDE DEF n
  <2>1. CASE j = n + 1
    <3>1. blanked[j] = << >>
      <4>1. j > n
        BY <1>1, <2>1
      <4> QED
        BY <1>4, <4>1, Zenon DEF BodyRule, n
    <3>2. blanked[j] \in Seq(Glyphs) /\ Len(blanked[j]) = 0
      BY <3>1
    <3>3. j + Len(blanked[j]) \in j..(n + 1)
      BY <1>1, <2>1, <3>2
    <3> QED
      BY <3>2, <3>3
  <2>2. CASE j # n + 1
    <3>1. j \in 1..n /\ j + 1 \in (j + 1)..(n + 1) /\ (j < n => j + 2 \in (j + 1)..(n + 1))
      BY <1>1, <2>2
    <3>2. /\ blanked[j + 1] \in Seq(Glyphs) /\ j + 1 + Len(blanked[j + 1]) \in (j + 1)..(n + 1)
          /\ j < n => blanked[j + 2] \in Seq(Glyphs) /\ j + 2 + Len(blanked[j + 2]) \in (j + 2)..(n + 1)
      BY <1>5, <3>1
    <3>3. /\ blanked[j] \in Seq(Glyphs)
          /\ \/ Len(blanked[j]) \in {0, 1}
             \/ j < n /\ Len(blanked[j]) = 2 + Len(blanked[j + 2])
             \/ Len(blanked[j]) = 1 + Len(blanked[j + 1])
      <4> DEFINE rule == BodyRule(blanked, s, quote, j)
      <4>1. /\ rule \in Seq(Glyphs)
            /\ \/ Len(rule) \in {0, 1}
               \/ j < n /\ Len(rule) = 2 + Len(blanked[j + 2])
               \/ Len(rule) = 1 + Len(blanked[j + 1])
        BY <3>1, <3>2, BodyRuleFacts DEF n
      <4>2. blanked[j] = rule
        BY <1>4
      <4> HIDE DEF rule
      <4> QED
        BY <4>1, <4>2
    <3>4. j + Len(blanked[j]) \in j..(n + 1)
      <4>1. Len(blanked[j]) \in Nat /\ Len(blanked[j + 1]) \in Nat /\ (j < n => Len(blanked[j + 2]) \in Nat)
        BY <3>2, <3>3, LenProperties
      <4>2. \A a, b, c \in Nat :
              /\ j + 1 + b \in (j + 1)..(n + 1)
              /\ a \in {0, 1} \/ a = 1 + b
              => j + a \in j..(n + 1)
        BY <1>1, <3>1
      <4>3. \A a, c \in Nat :
              /\ j < n /\ j + 2 + c \in (j + 2)..(n + 1) /\ a = 2 + c
              => j + a \in j..(n + 1)
        BY <1>1, <3>1
      <4> QED
        BY <3>2, <3>3, <4>1, <4>2, <4>3, Zenon
    <3> QED
      BY <3>3, <3>4
  <2> QED
    BY <2>1, <2>2
<1>6. \A j \in 1..(n + 1) : j \in S
  <2> HIDE DEF S, n
  <2> QED
    BY <1>1, <1>5, BackwardInductionOn
<1> QED
  BY <1>4, <1>6 DEF blanked

-----------------------------------------------------------------------------
(* The modes. *)

Kinds == {"code", "line", "block", "closing"} \union Quotes \union {Backtick}

\* Code is looked at character by character.
Modes == {m \in [kind : Kinds, skip : BOOLEAN] : m.skip => m.kind \notin {"code", "closing"}}

To(kind, skip) == [kind |-> kind, skip |-> skip]

\* After, kind by kind.
LEMMA AfterRules ==
  ASSUME NEW m \in Modes, NEW i
  PROVE  /\ m.kind = "code" => After(m, i) =
               IF Pair(src, i, "slash", "slash") THEN To("line", TRUE)
               ELSE IF Pair(src, i, "slash", "star") THEN To("block", TRUE)
               ELSE IF IsQuote(src[i]) THEN To(src[i], FALSE) ELSE To("code", FALSE)
         /\ m.kind = "line" => After(m, i) = To(IF src[i] = Newline THEN "code" ELSE "line", FALSE)
         /\ m.kind = "block" =>
               After(m, i) = To(IF Pair(src, i, "star", "slash") THEN "closing" ELSE "block", FALSE)
         /\ m.kind = "closing" => After(m, i) = To("code", FALSE)
         /\ IsQuote(m.kind) => After(m, i) =
               IF src[i] = Escape /\ i < Len(src) THEN To(m.kind, TRUE)
               ELSE IF src[i] = m.kind \/ (src[i] = Newline /\ m.kind # Backtick)
               THEN To("code", FALSE) ELSE m
<1>1. CASE m.kind = "code"
  <2>1. After(m, i) =
          CASE Pair(src, i, "slash", "slash") -> To("line", TRUE)
            [] Pair(src, i, "slash", "star") -> To("block", TRUE)
            [] IsQuote(src[i]) -> To(src[i], FALSE)
            [] OTHER -> To("code", FALSE)
    BY <1>1 DEF After, To
  <2>2. /\ Pair(src, i, "slash", "slash") => src[i] = "slash" /\ src[i + 1] = "slash"
        /\ Pair(src, i, "slash", "star") => src[i] = "slash" /\ src[i + 1] = "star"
        /\ IsQuote(src[i]) => src[i] # "slash"
    BY DEF Pair, IsQuote, Quotes, Backtick
  <2>3. After(m, i) =
               IF Pair(src, i, "slash", "slash") THEN To("line", TRUE)
               ELSE IF Pair(src, i, "slash", "star") THEN To("block", TRUE)
               ELSE IF IsQuote(src[i]) THEN To(src[i], FALSE) ELSE To("code", FALSE)
    BY <2>1, <2>2
  <2> QED
    BY <1>1, <2>3 DEF IsQuote, Quotes, Backtick
<1>2. CASE m.kind \in {"line", "block", "closing"}
  BY <1>2 DEF After, To, IsQuote, Quotes, Backtick
<1>3. CASE IsQuote(m.kind)
  BY <1>3 DEF After, To, IsQuote, Quotes, Backtick
<1> QED
  BY <1>1, <1>2, <1>3 DEF Modes, Kinds, IsQuote

\* A mode leads to a mode.
LEMMA AfterTyped ==
  ASSUME src \in Seq(Chars), NEW m \in Modes, NEW i \in 1..Len(src)
  PROVE  After(m, i) \in Modes
<1>1. /\ \A k \in Kinds : To(k, FALSE) \in Modes
      /\ To("line", TRUE) \in Modes /\ To("block", TRUE) \in Modes
      /\ IsQuote(m.kind) => To(m.kind, TRUE) \in Modes
  BY DEF To, Modes, Kinds, IsQuote, Quotes, Backtick
<1>2. m.kind \in Kinds
  BY DEF Modes
<1>3. IsQuote(src[i]) => src[i] \in Kinds
  BY DEF IsQuote, Kinds
<1>4. {"code", "line", "block", "closing"} \subseteq Kinds
  BY DEF Kinds
<1>5. m.kind \in {"code", "line", "block", "closing"} \/ IsQuote(m.kind)
  BY <1>2 DEF Kinds, IsQuote
<1> HIDE DEF Modes, To, Kinds
<1>6. CASE m.kind = "code"
  <2>1. After(m, i) = IF Pair(src, i, "slash", "slash") THEN To("line", TRUE)
                      ELSE IF Pair(src, i, "slash", "star") THEN To("block", TRUE)
                      ELSE IF IsQuote(src[i]) THEN To(src[i], FALSE) ELSE To("code", FALSE)
    BY <1>6, AfterRules
  <2> QED
    BY <1>1, <1>3, <1>4, <2>1
<1>7. CASE m.kind = "line"
  <2>1. After(m, i) = To(IF src[i] = Newline THEN "code" ELSE "line", FALSE)
    BY <1>7, AfterRules
  <2> QED
    BY <1>1, <1>4, <2>1
<1>8. CASE m.kind = "block"
  <2>1. After(m, i) = To(IF Pair(src, i, "star", "slash") THEN "closing" ELSE "block", FALSE)
    BY <1>8, AfterRules
  <2> QED
    BY <1>1, <1>4, <2>1
<1>9. CASE m.kind = "closing"
  <2>1. After(m, i) = To("code", FALSE)
    BY <1>9, AfterRules
  <2> QED
    BY <1>1, <1>4, <2>1
<1>10. CASE IsQuote(m.kind)
  <2>1. After(m, i) = IF src[i] = Escape /\ i < Len(src) THEN To(m.kind, TRUE)
                      ELSE IF src[i] = m.kind \/ (src[i] = Newline /\ m.kind # Backtick)
                      THEN To("code", FALSE) ELSE m
    BY <1>10, AfterRules
  <2> QED
    BY <1>1, <1>4, <1>10, <2>1
<1> QED
  BY <1>5, <1>6, <1>7, <1>8, <1>9, <1>10

IsMode(mode) ==
  mode = [i \in 0..Len(src) |->
            IF i = 0 THEN [kind |-> "code", skip |-> FALSE]
            ELSE IF mode[i - 1].skip THEN [kind |-> mode[i - 1].kind, skip |-> FALSE]
            ELSE After(mode[i - 1], i)]

\* The modes of a source, which refer to the position before only, are defined.
LEMMA ModeExists ==
  ASSUME src \in Seq(Chars)
  PROVE  \E mode \in [0..Len(src) -> Modes] : IsMode(mode)
<1> DEFINE n == Len(src)
           Next(m, i) == IF m.skip THEN [kind |-> m.kind, skip |-> FALSE] ELSE After(m, i)
           G == [i \in 1..n |-> [m \in Modes |-> Next(m, i)]]
           z == [kind |-> "code", skip |-> FALSE]
<1>1. n \in Nat /\ z \in Modes
  BY DEF Modes, Kinds
<1>2. G \in [1..n -> [Modes -> Modes]]
  <2>1. ASSUME NEW i \in 1..n, NEW m \in Modes PROVE Next(m, i) \in Modes
    <3>1. [kind |-> m.kind, skip |-> FALSE] \in Modes
      BY DEF Modes
    <3> QED
      BY <3>1, AfterTyped
  <2> HIDE DEF Next, n
  <2> QED
    BY <2>1
<1>3. PICK r \in [0..n -> Modes] : IsRecursion(r, n, z, G)
  <2> HIDE DEF G, n, z
  <2> QED
    BY <1>1, <1>2, RecursionExists
<1>4. ASSUME NEW i \in 0..n PROVE r[i] = IF i = 0 THEN z ELSE Next(r[i - 1], i)
  <2>1. r[i] = IF i = 0 THEN z ELSE G[i][r[i - 1]]
    <3> HIDE DEF G, z
    <3> QED
      BY <1>3 DEF IsRecursion
  <2>2. i # 0 => G[i][r[i - 1]] = Next(r[i - 1], i)
    <3> HIDE DEF n, Next
    <3>1. i # 0 => i \in 1..n /\ r[i - 1] \in Modes
      BY <1>1, <1>3
    <3> QED
      BY <3>1
  <2> HIDE DEF Next, z, G
  <2> QED
    BY <2>1, <2>2
<1>5. r = [i \in 0..n |-> r[i]]
  BY <1>3
<1> HIDE DEF G
<1>6. IsMode(r)
  BY <1>4, <1>5, Zenon DEF IsMode
<1> QED
  BY <1>3, <1>6

\* The modes of a source: the first is code, and each follows from the one before.
LEMMA ModeFacts ==
  ASSUME src \in Seq(Chars)
  PROVE  /\ Mode \in [0..Len(src) -> Modes]
         /\ Mode[0] = To("code", FALSE)
         /\ \A i \in 1..Len(src) :
               Mode[i] = IF Mode[i - 1].skip THEN To(Mode[i - 1].kind, FALSE)
                         ELSE After(Mode[i - 1], i)
<1>1. Mode = CHOOSE mode : IsMode(mode)
  BY DEF Mode, IsMode
<1>2. IsMode(Mode)
  BY <1>1, ModeExists, Zenon
<1>3. ASSUME NEW i \in 0..Len(src)
      PROVE  Mode[i] = IF i = 0 THEN [kind |-> "code", skip |-> FALSE]
                       ELSE IF Mode[i - 1].skip THEN [kind |-> Mode[i - 1].kind, skip |-> FALSE]
                       ELSE After(Mode[i - 1], i)
  BY <1>2, <1>3, Zenon DEF IsMode
<1>4. 0 \in 0..Len(src) /\ \A i \in 1..Len(src) : i \in 0..Len(src) /\ i # 0 /\ i - 1 \in 0..Len(src)
  OBVIOUS
<1>5. \A k \in Kinds : To(k, FALSE) \in Modes
  BY DEF To, Modes
<1>6. Mode[0] = To("code", FALSE)
  BY <1>3, <1>4, Zenon DEF To
<1>7. ASSUME NEW i \in 1..Len(src), Mode[i - 1] \in Modes
      PROVE  /\ Mode[i] = IF Mode[i - 1].skip THEN To(Mode[i - 1].kind, FALSE)
                          ELSE After(Mode[i - 1], i)
             /\ Mode[i] \in Modes
  <2>1. Mode[i] = IF Mode[i - 1].skip THEN [kind |-> Mode[i - 1].kind, skip |-> FALSE]
                  ELSE After(Mode[i - 1], i)
    BY <1>3, <1>4, Zenon
  <2>2. Mode[i - 1].kind \in Kinds
    BY <1>7 DEF Modes
  <2> QED
    BY <1>5, <1>7, <2>1, <2>2, AfterTyped, Zenon DEF To
<1>8. \A i \in 0..Len(src) : Mode[i] \in Modes
  <2> DEFINE n == Len(src)
             S == {i \in Nat : i <= n => Mode[i] \in Modes}
  <2>1. n \in Nat
    OBVIOUS
  <2>2. ASSUME NEW i \in Nat, \A j \in Nat : j < i => j \in S
        PROVE  i \in S
    <3> SUFFICES ASSUME i <= n PROVE Mode[i] \in Modes
      OBVIOUS
    <3>1. CASE i = 0
      <4>1. "code" \in Kinds
        BY DEF Kinds
      <4> QED
        BY <1>5, <1>6, <3>1, <4>1, Zenon
    <3>2. CASE i # 0
      <4>1. i \in 1..Len(src) /\ i - 1 \in Nat /\ i - 1 < i /\ i - 1 <= n
        BY <3>2
      <4>2. Mode[i - 1] \in Modes
        BY <2>2, <4>1
      <4> QED
        BY <1>7, <4>1, <4>2, Zenon
    <3> QED
      BY <3>1, <3>2
  <2>3. \A i \in Nat : i \in S
    <3> HIDE DEF S
    <3> QED
      BY <2>2, InductionOn
  <2> QED
    BY <2>3
<1>9. Mode = [i \in 0..Len(src) |-> Mode[i]]
  BY <1>2, Zenon DEF IsMode
<1>10. Mode \in [0..Len(src) -> Modes]
  BY <1>8, <1>9
<1> QED
  BY <1>4, <1>6, <1>7, <1>8, <1>10

\* A mode and its parts.
LEMMA ToFacts ==
  /\ \A k, b : To(k, b).kind = k /\ To(k, b).skip = b
  /\ \A m \in Modes : /\ m = To(m.kind, m.skip) /\ m.kind \in Kinds /\ m.skip \in BOOLEAN
                      /\ m.kind \in {"code", "closing"} => m = To(m.kind, FALSE)
  BY DEF To, Modes

\* From one mode to the next, kind by kind.
LEMMA ModeRules ==
  ASSUME src \in Seq(Chars), NEW i \in 1..Len(src)
  PROVE  /\ Mode[i - 1] \in Modes /\ Mode[i] \in Modes
         /\ Mode[i - 1].skip => Mode[i] = To(Mode[i - 1].kind, FALSE)
         /\ Mode[i - 1] = To("code", FALSE) => Mode[i] =
               IF Pair(src, i, "slash", "slash") THEN To("line", TRUE)
               ELSE IF Pair(src, i, "slash", "star") THEN To("block", TRUE)
               ELSE IF IsQuote(src[i]) THEN To(src[i], FALSE) ELSE To("code", FALSE)
         /\ Mode[i - 1] = To("line", FALSE) =>
               Mode[i] = To(IF src[i] = Newline THEN "code" ELSE "line", FALSE)
         /\ Mode[i - 1] = To("block", FALSE) =>
               Mode[i] = To(IF Pair(src, i, "star", "slash") THEN "closing" ELSE "block", FALSE)
         /\ Mode[i - 1] = To("closing", FALSE) => Mode[i] = To("code", FALSE)
         /\ \A q : IsQuote(q) /\ Mode[i - 1] = To(q, FALSE) => Mode[i] =
               IF src[i] = Escape /\ i < Len(src) THEN To(q, TRUE)
               ELSE IF src[i] = q \/ (src[i] = Newline /\ q # Backtick)
               THEN To("code", FALSE) ELSE To(q, FALSE)
<1>1. i - 1 \in 0..Len(src) /\ i \in 0..Len(src)
  OBVIOUS
<1>2. Mode[i - 1] \in Modes /\ Mode[i] \in Modes
  BY <1>1, ModeFacts
<1>3. Mode[i] = IF Mode[i - 1].skip THEN To(Mode[i - 1].kind, FALSE) ELSE After(Mode[i - 1], i)
  BY ModeFacts
<1>4. ASSUME NEW k, Mode[i - 1] = To(k, FALSE)
      PROVE  Mode[i - 1].kind = k /\ Mode[i] = After(Mode[i - 1], i)
  <2>1. Mode[i - 1].kind = k /\ Mode[i - 1].skip = FALSE
    BY <1>4 DEF To
  <2>2. ~Mode[i - 1].skip
    BY <2>1
  <2> QED
    BY <1>3, <2>1, <2>2, Zenon
<1>5. Mode[i - 1].skip => Mode[i] = To(Mode[i - 1].kind, FALSE)
  BY <1>3
<1>6. ASSUME Mode[i - 1] = To("code", FALSE)
      PROVE  Mode[i] = IF Pair(src, i, "slash", "slash") THEN To("line", TRUE)
                       ELSE IF Pair(src, i, "slash", "star") THEN To("block", TRUE)
                       ELSE IF IsQuote(src[i]) THEN To(src[i], FALSE) ELSE To("code", FALSE)
  <2>1. Mode[i - 1].kind = "code" /\ Mode[i] = After(Mode[i - 1], i)
    BY <1>4, <1>6
  <2> QED
    BY <1>2, <2>1, AfterRules
<1>7. ASSUME Mode[i - 1] = To("line", FALSE)
      PROVE  Mode[i] = To(IF src[i] = Newline THEN "code" ELSE "line", FALSE)
  <2>1. Mode[i - 1].kind = "line" /\ Mode[i] = After(Mode[i - 1], i)
    BY <1>4, <1>7
  <2> QED
    BY <1>2, <2>1, AfterRules
<1>8. ASSUME Mode[i - 1] = To("block", FALSE)
      PROVE  Mode[i] = To(IF Pair(src, i, "star", "slash") THEN "closing" ELSE "block", FALSE)
  <2>1. Mode[i - 1].kind = "block" /\ Mode[i] = After(Mode[i - 1], i)
    BY <1>4, <1>8
  <2> QED
    BY <1>2, <2>1, AfterRules
<1>9. ASSUME Mode[i - 1] = To("closing", FALSE)
      PROVE  Mode[i] = To("code", FALSE)
  <2>1. Mode[i - 1].kind = "closing" /\ Mode[i] = After(Mode[i - 1], i)
    BY <1>4, <1>9
  <2> QED
    BY <1>2, <2>1, AfterRules
<1>10. ASSUME NEW q, IsQuote(q), Mode[i - 1] = To(q, FALSE)
      PROVE  Mode[i] = IF src[i] = Escape /\ i < Len(src) THEN To(q, TRUE)
                       ELSE IF src[i] = q \/ (src[i] = Newline /\ q # Backtick)
                       THEN To("code", FALSE) ELSE To(q, FALSE)
  <2>1. Mode[i - 1].kind = q /\ Mode[i] = After(Mode[i - 1], i)
    BY <1>4, <1>10
  <2>2. After(Mode[i - 1], i) = IF src[i] = Escape /\ i < Len(src) THEN To(Mode[i - 1].kind, TRUE)
                       ELSE IF src[i] = Mode[i - 1].kind \/ (src[i] = Newline /\ Mode[i - 1].kind # Backtick)
                       THEN To("code", FALSE) ELSE Mode[i - 1]
    BY <1>2, <1>10, <2>1, AfterRules, Zenon
  <2> QED
    BY <1>10, <2>1, <2>2, Zenon
<1> QED
  BY <1>2, <1>5, <1>6, <1>7, <1>8, <1>9, <1>10, Zenon

\* The kinds and the characters that are told apart.
LEMMA KindsDiffer ==
  /\ \A q : IsQuote(q) => /\ q \notin {"code", "line", "block", "closing", Newline, Escape, Space, "slash", "star"}
                          /\ q \in Glyphs
  /\ Newline \notin {Escape, Space, "slash", "star"} /\ Escape \notin {Space, "slash", "star"}
  /\ ~IsQuote(Newline) /\ ~IsQuote(Escape) /\ ~IsQuote(Space)
  /\ \A k \in {"code", "line", "block", "closing"} : ~IsQuote(k)
  /\ Newline \in Glyphs /\ Space \in Glyphs
  /\ \A q : IsQuote(q) /\ q # Backtick => q \in Quotes
  /\ \A q \in Quotes : IsQuote(q) /\ q # Backtick
  BY DEF IsQuote, Quotes, Backtick, Newline, Escape, Space, Glyphs, Chars

\* A source is made of glyphs.
LEMMA SourceGlyphs ==
  ASSUME src \in Seq(Chars)
  PROVE  /\ src \in Seq(Glyphs) /\ Len(src) \in Nat /\ DOMAIN src = 1..Len(src)
         /\ \A i \in 1..Len(src) : src[i] \in Glyphs
  BY DEF Glyphs

-----------------------------------------------------------------------------
(* What each place may show, and the literals in both passes. *)

CommentGlyphs ==
  [j \in 1..Len(src) |-> IF InComment(Mode, j) /\ src[j] # Newline THEN {Space} ELSE {src[j]}]

CodeGlyphs ==
  [j \in 1..Len(src) |->
     IF InComment(Mode, j) \/ InLiteral(Mode, j)
     THEN {Space} \union ({src[j]} \intersect {Newline}) ELSE {src[j]}]

\* A literal has been left: behind its closing quote, or before the newline that
\* gives it up, or with the source.
Left(i) ==
  \/ i = Len(src) + 1
  \/ Mode[i - 1] = To("code", FALSE)
  \/ src[i] = Newline /\ \E q \in Quotes : Mode[i - 1] = To(q, FALSE)

\* A place within a literal, its closing quote included.
Within(q, j) == Mode[j - 1].kind = q /\ Mode[j].kind \in {q, "code"}

\* Within a literal, from one character to the next.
LEMMA LiteralStep ==
  ASSUME src \in Seq(Chars), NEW q, IsQuote(q), NEW i \in 1..Len(src), Mode[i - 1] = To(q, FALSE)
  PROVE  /\ Within(q, i)
         /\ src[i] = Escape /\ i < Len(src) =>
               Mode[i].kind = q /\ Mode[i + 1] = To(q, FALSE) /\ Within(q, i + 1)
         /\ src[i] = q => Mode[i] = To("code", FALSE)
         /\ ~(src[i] = Escape /\ i < Len(src)) /\ src[i] # q /\ (src[i] # Newline \/ q = Backtick)
               => Mode[i] = To(q, FALSE)
<1>1. Mode[i] = IF src[i] = Escape /\ i < Len(src) THEN To(q, TRUE)
                ELSE IF src[i] = q \/ (src[i] = Newline /\ q # Backtick)
                THEN To("code", FALSE) ELSE To(q, FALSE)
  BY ModeRules, Zenon
<1>2. q # Escape
  BY KindsDiffer
<1>3. Within(q, i)
  <2>1. Mode[i - 1].kind = q
    BY DEF To
  <2>2. Mode[i] \in {To(q, TRUE), To("code", FALSE), To(q, FALSE)}
    BY <1>1
  <2>3. Mode[i].kind \in {q, "code"}
    BY <2>2 DEF To
  <2> QED
    BY <2>1, <2>3 DEF Within
<1>4. ASSUME src[i] = Escape, i < Len(src)
      PROVE  Mode[i].kind = q /\ Mode[i + 1] = To(q, FALSE) /\ Within(q, i + 1)
  <2>1. Mode[i] = To(q, TRUE)
    BY <1>1, <1>4
  <2>2. Mode[i].skip /\ Mode[i].kind = q
    BY <2>1, ToFacts, Zenon
  <2>3. i + 1 \in 1..Len(src) /\ (i + 1) - 1 = i
    BY <1>4
  <2>4. Mode[i + 1] = To(q, FALSE)
    <3>1. Mode[(i + 1) - 1].skip => Mode[i + 1] = To(Mode[(i + 1) - 1].kind, FALSE)
      BY <2>3, ModeRules, Zenon
    <3> QED
      BY <2>2, <2>3, <3>1
  <2>5. Mode[i + 1].kind = q
    BY <2>4 DEF To
  <2>6. Within(q, i + 1)
    BY <2>2, <2>3, <2>5 DEF Within
  <2> QED
    BY <2>2, <2>4, <2>6
<1> QED
  BY <1>1, <1>2, <1>3, <1>4

\* A place within a literal is in no comment.
LEMMA WithinFacts ==
  ASSUME NEW q, IsQuote(q), NEW j, Within(q, j)
  PROVE  /\ ~InComment(Mode, j)
         /\ Mode[j].kind = q => InLiteral(Mode, j)
         /\ Mode[j].kind # q => ~InLiteral(Mode, j)
  BY KindsDiffer DEF Within, InComment, InLiteral

\* The first pass copies a literal up to where it is left.
LEMMA LiteralCopied ==
  ASSUME src \in Seq(Chars), NEW q, IsQuote(q), NEW i \in 1..(Len(src) + 1),
         Mode[i - 1] = To(q, FALSE)
  PROVE  /\ Left(QuotedEnd(src, q)[i])
         /\ \A j \in i..(QuotedEnd(src, q)[i] - 1) : Within(q, j)
<1> DEFINE n == Len(src)
           end == QuotedEnd(src, q)
           Good(k) == Mode[k - 1] = To(q, FALSE) => Left(end[k]) /\ \A j \in k..(end[k] - 1) : Within(q, j)
           S == {k \in 1..(n + 1) : Good(k)}
<1>1. n \in Nat
  OBVIOUS
<1>2. \A k \in 1..(n + 1) : end[k] = EndRule(end, src, q, k) /\ end[k] \in k..(n + 1)
  BY SourceGlyphs, EndFacts
<1> HIDE DEF end
<1>3. ASSUME NEW k \in 1..(n + 1), \A l \in (k + 1)..(n + 1) : l \in S
      PROVE  k \in S
  <2> SUFFICES ASSUME Mode[k - 1] = To(q, FALSE)
               PROVE  Left(end[k]) /\ \A j \in k..(end[k] - 1) : Within(q, j)
    OBVIOUS
  <2> DEFINE rule == EndRule(end, src, q, k)
  <2>0. end[k] = rule
    BY <1>2
  <2>1. CASE k = n + 1
    <3>1. end[k] = n + 1
      BY <1>1, <1>2, <2>1
    <3> QED
      BY <1>1, <2>1, <3>1 DEF Left
  <2>2. CASE k # n + 1
    <3>1. k \in 1..n /\ ~(k > n) /\ k + 1 \in (k + 1)..(n + 1) /\ (k + 1) - 1 = k /\ (k + 2) - 1 = k + 1
      BY <1>1, <2>2
    <3>2. /\ Within(q, k)
          /\ src[k] = Escape /\ k < n => Mode[k].kind = q /\ Mode[k + 1] = To(q, FALSE) /\ Within(q, k + 1)
          /\ src[k] = q => Mode[k] = To("code", FALSE)
          /\ ~(src[k] = Escape /\ k < n) /\ src[k] # q /\ (src[k] # Newline \/ q = Backtick)
                => Mode[k] = To(q, FALSE)
      BY <3>1, LiteralStep
    <3>3. CASE src[k] = Escape /\ k < n
      <4>1. k + 2 \in (k + 1)..(n + 1) /\ end[k] = end[k + 2]
        <5>1. k + 2 \in (k + 1)..(n + 1)
          BY <1>1, <3>1, <3>3
        <5>2. end[k] = end[k + 2]
          BY <2>0, <3>1, <3>3 DEF EndRule
        <5> QED
          BY <5>1, <5>2
      <4>2. Good(k + 2)
        BY <1>3, <4>1
      <4>3. Left(end[k + 2]) /\ \A j \in (k + 2)..(end[k + 2] - 1) : Within(q, j)
        <5>1. Mode[(k + 2) - 1] = To(q, FALSE)
          BY <3>1, <3>2, <3>3, Zenon
        <5> QED
          BY <4>2, <5>1, Zenon
      <4>4. \A j \in k..(end[k + 2] - 1) : j = k \/ j = k + 1 \/ j \in (k + 2)..(end[k + 2] - 1)
        OBVIOUS
      <4> QED
        BY <3>2, <3>3, <4>1, <4>3, <4>4, Zenon
    <3>4. CASE ~(src[k] = Escape /\ k < n) /\ src[k] = q
      <4>1. end[k] = k + 1
        BY <2>0, <3>1, <3>4 DEF EndRule
      <4>2. Left(k + 1)
        <5>1. Mode[(k + 1) - 1] = To("code", FALSE)
          BY <3>1, <3>2, <3>4, Zenon
        <5> QED
          BY <5>1, Zenon DEF Left
      <4>3. ASSUME NEW j \in k..(end[k] - 1) PROVE Within(q, j)
        <5>1. j = k
          BY <3>1, <4>1
        <5> QED
          BY <3>2, <5>1, Zenon
      <4> QED
        BY <4>1, <4>2, <4>3, Zenon
    <3>5. CASE ~(src[k] = Escape /\ k < n) /\ src[k] # q /\ src[k] = Newline /\ q # Backtick
      <4>1. end[k] = k
        BY <2>0, <3>1, <3>5 DEF EndRule
      <4>2. Left(k)
        BY <3>5, KindsDiffer DEF Left
      <4>3. k..(k - 1) = {}
        BY <3>1
      <4> QED
        BY <4>1, <4>2, <4>3
    <3>6. CASE ~(src[k] = Escape /\ k < n) /\ src[k] # q /\ ~(src[k] = Newline /\ q # Backtick)
      <4>1. end[k] = end[k + 1]
        BY <2>0, <3>1, <3>6 DEF EndRule
      <4>2. Good(k + 1)
        BY <1>3, <3>1
      <4>3. Left(end[k + 1]) /\ \A j \in (k + 1)..(end[k + 1] - 1) : Within(q, j)
        <5>1. Mode[(k + 1) - 1] = To(q, FALSE)
          BY <3>1, <3>2, <3>6, Zenon
        <5> QED
          BY <4>2, <5>1, Zenon
      <4>4. \A j \in k..(end[k + 1] - 1) : j = k \/ j \in (k + 1)..(end[k + 1] - 1)
        OBVIOUS
      <4> QED
        BY <3>2, <4>1, <4>3, <4>4, Zenon
    <3> QED
      BY <3>3, <3>4, <3>5, <3>6, Zenon
  <2> QED
    BY <2>1, <2>2
<1>4. \A k \in 1..(n + 1) : k \in S
  <2> HIDE DEF S, n
  <2> QED
    BY <1>1, <1>3, BackwardInductionOn
<1>5. Good(i)
  BY <1>4
<1> QED
  BY <1>5 DEF end

\* The source with its comments blanked, which the second pass is given.
IsClean(t) ==
  /\ t \in Seq(Glyphs) /\ Len(t) = Len(src)
  /\ \A j \in 1..Len(src) :
        t[j] = IF InComment(Mode, j) /\ src[j] # Newline THEN Space ELSE src[j]

\* The second pass blanks a literal up to the same place.
LEMMA LiteralBlanked ==
  ASSUME src \in Seq(Chars), NEW t, IsClean(t), NEW q, IsQuote(q), NEW i \in 1..(Len(src) + 1),
         Mode[i - 1] = To(q, FALSE)
  PROVE  /\ Left(i + Len(BlankBody(t, q)[i]))
         /\ Fits(BlankBody(t, q)[i], i, i + Len(BlankBody(t, q)[i]), CodeGlyphs)
<1> DEFINE n == Len(src)
           blanked == BlankBody(t, q)
           Good(k) == Mode[k - 1] = To(q, FALSE) =>
                        Left(k + Len(blanked[k])) /\ Fits(blanked[k], k, k + Len(blanked[k]), CodeGlyphs)
           S == {k \in 1..(n + 1) : Good(k)}
<1>1. n \in Nat /\ n = Len(t) /\ t \in Seq(Glyphs) /\ q \in Glyphs
  BY SourceGlyphs, KindsDiffer DEF IsClean
<1>2. \A k \in 1..(n + 1) : /\ blanked[k] = BodyRule(blanked, t, q, k) /\ blanked[k] \in Seq(Glyphs)
                            /\ k + Len(blanked[k]) \in k..(n + 1)
  BY <1>1, BodyFacts
<1> HIDE DEF blanked
<1>3. ASSUME NEW k \in 1..n, Within(q, k)
      PROVE  /\ t[k] = src[k] /\ (Mode[k].kind # q => src[k] \in CodeGlyphs[k])
             /\ Mode[k].kind = q => Space \in CodeGlyphs[k] /\ (src[k] = Newline => Newline \in CodeGlyphs[k])
  <2>1. /\ ~InComment(Mode, k)
        /\ Mode[k].kind = q => InLiteral(Mode, k)
        /\ Mode[k].kind # q => ~InLiteral(Mode, k)
    BY <1>3, WithinFacts
  <2> QED
    BY <2>1 DEF IsClean, CodeGlyphs
<1>4. ASSUME NEW k \in 1..(n + 1), \A l \in (k + 1)..(n + 1) : l \in S
      PROVE  k \in S
  <2> SUFFICES ASSUME Mode[k - 1] = To(q, FALSE)
               PROVE  Left(k + Len(blanked[k])) /\ Fits(blanked[k], k, k + Len(blanked[k]), CodeGlyphs)
    OBVIOUS
  <2>0. blanked[k] = BodyRule(blanked, t, q, k)
    BY <1>2
  <2>1. ASSUME blanked[k] = << >>, Left(k)
        PROVE  Left(k + Len(blanked[k])) /\ Fits(blanked[k], k, k + Len(blanked[k]), CodeGlyphs)
    <3>1. k + Len(<< >>) = k
      BY <1>1
    <3> QED
      BY <1>1, <2>1, <3>1, FitsNone
  <2>2. CASE k = n + 1
    <3>1. k > Len(t)
      BY <1>1, <2>2
    <3>2. blanked[k] = << >>
      BY <2>0, <3>1, Zenon DEF BodyRule
    <3> QED
      BY <2>1, <2>2, <3>2 DEF Left
  <2>3. CASE k # n + 1
    <3>1. /\ k \in 1..n /\ ~(k > Len(t)) /\ k + 1 \in (k + 1)..(n + 1) /\ (k + 1) - 1 = k
          /\ (k + 2) - 1 = k + 1 /\ k + 1 \in 1..(n + 1)
      BY <1>1, <2>3
    <3>2. /\ Within(q, k)
          /\ src[k] = Escape /\ k < n => Mode[k].kind = q /\ Mode[k + 1] = To(q, FALSE) /\ Within(q, k + 1)
          /\ src[k] = q => Mode[k] = To("code", FALSE)
          /\ ~(src[k] = Escape /\ k < n) /\ src[k] # q /\ (src[k] # Newline \/ q = Backtick)
                => Mode[k] = To(q, FALSE)
      BY <3>1, LiteralStep
    <3>3. t[k] = src[k] /\ (k < Len(t) <=> k < n)
      BY <1>1, <1>3, <3>1, <3>2
    <3>4. q # Escape /\ q # Newline /\ Space \in Glyphs /\ Newline \in Glyphs
      BY KindsDiffer
    <3>5. CASE src[k] = q
      <4>1. blanked[k] = <<q>>
        BY <2>0, <3>1, <3>3, <3>5, Zenon DEF BodyRule
      <4>2. Mode[k] = To("code", FALSE) /\ Mode[k].kind # q
        <5>1. Mode[k] = To("code", FALSE)
          BY <3>2, <3>5
        <5> QED
          BY <5>1, KindsDiffer DEF To
      <4>3. q \in CodeGlyphs[k]
        BY <1>3, <3>1, <3>2, <3>5, <4>2
      <4>4. Fits(<<q>>, k, k + 1, CodeGlyphs)
        BY <1>1, <3>1, <4>3, FitsOne
      <4>5. Left(k + 1)
        BY <3>1, <4>2, Zenon DEF Left
      <4>6. k + Len(<<q>>) = k + 1
        OBVIOUS
      <4> QED
        BY <4>1, <4>4, <4>5, <4>6, Zenon
    <3>6. ASSUME NEW e \in (k + 1)..(n + 1), NEW piece, blanked[k] = piece \o blanked[e],
                 Fits(piece, k, e, CodeGlyphs), Mode[e - 1] = To(q, FALSE)
          PROVE  Left(k + Len(blanked[k])) /\ Fits(blanked[k], k, k + Len(blanked[k]), CodeGlyphs)
      <4> DEFINE b == blanked[e]
      <4>1. e \in S
        BY <1>4
      <4>2. Left(e + Len(b)) /\ Fits(b, e, e + Len(b), CodeGlyphs)
        BY <3>6, <4>1
      <4>3. b \in Seq(Glyphs) /\ Len(b) \in Nat /\ e \in Nat /\ k \in Nat /\ e + Len(b) \in Nat
        <5>1. e \in 1..(n + 1)
          BY <1>1, <3>1
        <5>2. b \in Seq(Glyphs)
          BY <1>2, <5>1
        <5>3. Len(b) \in Nat
          BY <5>2
        <5> QED
          BY <3>1, <5>1, <5>2, <5>3
      <4> HIDE DEF b
      <4>4. Fits(piece \o b, k, e + Len(b), CodeGlyphs)
        BY <3>6, <4>2, <4>3, FitsJoin
      <4>5. Len(piece \o b) = (e + Len(b)) - k
        BY <4>4 DEF Fits
      <4>6. k + Len(piece \o b) = e + Len(b)
        BY <4>3, <4>5
      <4>7. blanked[k] = piece \o b
        BY <3>6 DEF b
      <4> QED
        BY <4>2, <4>4, <4>6, <4>7, Zenon
    <3>7. CASE src[k] # q /\ src[k] = Escape /\ k < n
      <4>1. blanked[k] = Spaces(2) \o blanked[k + 2]
        BY <2>0, <3>1, <3>3, <3>7, Zenon DEF BodyRule
      <4>2. k + 2 \in (k + 1)..(n + 1) /\ k + 1 \in 1..n
        BY <1>1, <3>1, <3>7
      <4>3. Mode[(k + 2) - 1] = To(q, FALSE)
        BY <3>1, <3>2, <3>7, Zenon
      <4>4. Mode[k].kind = q /\ Mode[k + 1].kind = q
        BY <3>2, <3>7 DEF To
      <4>5. Space \in CodeGlyphs[k] /\ Space \in CodeGlyphs[k + 1]
        BY <1>3, <3>1, <3>2, <3>7, <4>2, <4>4
      <4>6. Fits(Spaces(2), k, k + 2, CodeGlyphs)
        <5>1. \A l \in k..((k + 2) - 1) : (l = k \/ l = k + 1) /\ l - k + 1 \in 1..2
          BY <3>1
        <5>2. 2 = (k + 2) - k
          BY <3>1
        <5>3. /\ Spaces(2) \in Seq(Glyphs) /\ Len(Spaces(2)) = 2
              /\ \A l \in 1..2 : Spaces(2)[l] = Space
          BY SpacesFacts
        <5> QED
          BY <4>5, <5>1, <5>2, <5>3 DEF Fits
      <4> QED
        BY <3>6, <4>1, <4>2, <4>3, <4>6
    <3>8. CASE src[k] # q /\ ~(src[k] = Escape /\ k < n) /\ src[k] # Newline
      <4>1. blanked[k] = Spaces(1) \o blanked[k + 1]
        BY <2>0, <3>1, <3>3, <3>8, Zenon DEF BodyRule
      <4>2. Mode[(k + 1) - 1] = To(q, FALSE) /\ Mode[k].kind = q
        BY <3>1, <3>2, <3>8 DEF To
      <4>3. Space \in CodeGlyphs[k]
        BY <1>3, <3>1, <3>2, <4>2
      <4>4. Fits(Spaces(1), k, k + 1, CodeGlyphs)
        <5>1. \A l \in k..((k + 1) - 1) : l = k /\ l - k + 1 \in 1..1
          BY <3>1
        <5>2. 1 = (k + 1) - k
          BY <3>1
        <5>3. /\ Spaces(1) \in Seq(Glyphs) /\ Len(Spaces(1)) = 1
              /\ \A l \in 1..1 : Spaces(1)[l] = Space
          BY SpacesFacts
        <5> QED
          BY <4>3, <5>1, <5>2, <5>3 DEF Fits
      <4> QED
        BY <3>1, <3>6, <4>1, <4>2, <4>4
    <3>9. CASE src[k] # q /\ ~(src[k] = Escape /\ k < n) /\ src[k] = Newline /\ q = Backtick
      <4>1. blanked[k] = <<Newline>> \o blanked[k + 1]
        BY <2>0, <3>1, <3>3, <3>9, Zenon DEF BodyRule
      <4>2. Mode[(k + 1) - 1] = To(q, FALSE) /\ Mode[k].kind = q
        BY <3>1, <3>2, <3>9 DEF To
      <4>3. Newline \in CodeGlyphs[k]
        BY <1>3, <3>1, <3>2, <3>9, <4>2
      <4>4. Fits(<<Newline>>, k, k + 1, CodeGlyphs)
        BY <3>1, <3>4, <4>3, FitsOne
      <4> QED
        BY <3>1, <3>6, <4>1, <4>2, <4>4
    <3>10. CASE src[k] # q /\ ~(src[k] = Escape /\ k < n) /\ src[k] = Newline /\ q # Backtick
      <4>1. blanked[k] = << >>
        BY <2>0, <3>1, <3>3, <3>10, Zenon DEF BodyRule
      <4>2. Left(k)
        BY <3>10, KindsDiffer DEF Left
      <4> QED
        BY <2>1, <4>1, <4>2
    <3> QED
      BY <3>5, <3>7, <3>8, <3>9, <3>10, Zenon
  <2> QED
    BY <2>2, <2>3
<1>5. \A k \in 1..(n + 1) : k \in S
  <2> HIDE DEF S, n
  <2> QED
    BY <1>1, <1>4, BackwardInductionOn
<1>6. Good(i)
  BY <1>5
<1> QED
  BY <1>6 DEF blanked

-----------------------------------------------------------------------------
(* The first pass. *)

\* A mode that each place hands on holds up to the end.
LEMMA StaysIn ==
  ASSUME NEW k, NEW i \in Nat, NEW e \in Nat, Mode[i] = To(k, FALSE),
         \A j \in (i + 1)..(e - 1) : Mode[j - 1] = To(k, FALSE) => Mode[j] = To(k, FALSE)
  PROVE  \A j \in i..(e - 1) : Mode[j] = To(k, FALSE)
<1> DEFINE S == {j \in Nat : j \in i..(e - 1) => Mode[j] = To(k, FALSE)}
<1>1. ASSUME NEW j \in Nat, \A l \in Nat : l < j => l \in S
      PROVE  j \in S
  <2> SUFFICES ASSUME j \in i..(e - 1) PROVE Mode[j] = To(k, FALSE)
    OBVIOUS
  <2>1. CASE j = i
    BY <2>1
  <2>2. CASE j # i
    <3>1. j \in (i + 1)..(e - 1) /\ j - 1 \in Nat /\ j - 1 < j /\ j - 1 \in i..(e - 1)
      BY <2>2
    <3>2. Mode[j - 1] = To(k, FALSE)
      BY <1>1, <3>1
    <3> QED
      BY <3>1, <3>2
  <2> QED
    BY <2>1, <2>2
<1>2. \A j \in Nat : j \in S
  <2> HIDE DEF S
  <2> QED
    BY <1>1, InductionOn
<1>3. \A j \in i..(e - 1) : j \in Nat
  OBVIOUS
<1> QED
  BY <1>2, <1>3

\* Behind the two characters that open a comment.
LEMMA Opened ==
  ASSUME src \in Seq(Chars), NEW i \in 1..Len(src), NEW k, NEW c,
         Pair(src, i, "slash", c), Mode[i] = To(k, TRUE)
  PROVE  /\ i < Len(src) /\ i + 1 \in 1..Len(src) /\ i + 2 \in 1..(Len(src) + 1)
         /\ Mode[i].kind = k /\ Mode[i + 1] = To(k, FALSE)
<1>1. i < Len(src) /\ i + 1 \in 1..Len(src) /\ i + 2 \in 1..(Len(src) + 1) /\ (i + 1) - 1 = i
  BY DEF Pair
<1>2. Mode[i].skip /\ Mode[i].kind = k
  BY DEF To
<1>3. Mode[(i + 1) - 1].skip => Mode[i + 1] = To(Mode[(i + 1) - 1].kind, FALSE)
  BY <1>1, ModeRules, Zenon
<1> QED
  BY <1>1, <1>2, <1>3

\* The modes of a line comment, up to its end.
LEMMA LineModes ==
  ASSUME src \in Seq(Chars), NEW i \in 1..Len(src),
         Pair(src, i, "slash", "slash"), Mode[i] = To("line", TRUE)
  PROVE  LET e == LineEnd(src, i + 2)
         IN  /\ e \in (i + 2)..(Len(src) + 1)
             /\ \A j \in i..(e - 1) : Mode[j].kind = "line"
             /\ e # Len(src) + 1 => src[e] = Newline /\ Mode[e - 1] = To("line", FALSE)
<1> DEFINE n == Len(src)
           e == LineEnd(src, i + 2)
<1>1. i + 1 \in 1..n /\ i + 2 \in 1..(n + 1) /\ Mode[i].kind = "line" /\ Mode[i + 1] = To("line", FALSE)
  BY Opened
<1>2. /\ e \in (i + 2)..(n + 1)
      /\ \A j \in (i + 2)..(e - 1) : src[j] # Newline
      /\ e # n + 1 => src[e] = Newline
  BY <1>1, LineEndFacts, SourceGlyphs
<1> HIDE DEF e
<1>3. n \in Nat /\ e \in Nat /\ i + 1 \in Nat
  BY <1>1, <1>2
<1>4. ASSUME NEW j \in ((i + 1) + 1)..(e - 1), Mode[j - 1] = To("line", FALSE)
      PROVE  Mode[j] = To("line", FALSE)
  <2>1. j \in 1..n /\ j \in (i + 2)..(e - 1)
    BY <1>2, <1>3
  <2>2. src[j] # Newline
    BY <1>2, <2>1
  <2>3. Mode[j] = To(IF src[j] = Newline THEN "code" ELSE "line", FALSE)
    BY <1>4, <2>1, ModeRules, Zenon
  <2> QED
    BY <2>2, <2>3
<1>5. \A j \in (i + 1)..(e - 1) : Mode[j] = To("line", FALSE)
  BY <1>1, <1>3, <1>4, StaysIn
<1>6. ASSUME NEW j \in i..(e - 1) PROVE Mode[j].kind = "line"
  <2>1. j = i \/ j \in (i + 1)..(e - 1)
    OBVIOUS
  <2> QED
    BY <1>1, <1>5, <2>1 DEF To
<1>7. e - 1 \in (i + 1)..(e - 1)
  BY <1>2
<1> QED
  BY <1>2, <1>5, <1>6, <1>7 DEF e

\* The modes of a block comment, up to its end.
LEMMA BlockModes ==
  ASSUME src \in Seq(Chars), NEW i \in 1..Len(src),
         Pair(src, i, "slash", "star"), Mode[i] = To("block", TRUE)
  PROVE  LET e == BlockEnd(src, i + 2)
         IN  /\ e \in (i + 2)..(Len(src) + 1)
             /\ \A j \in i..(e - 1) : InComment(Mode, j)
             /\ e # Len(src) + 1 => Mode[e - 1] = To("code", FALSE)
<1> DEFINE n == Len(src)
           e == BlockEnd(src, i + 2)
<1>1. i + 1 \in 1..n /\ i + 2 \in 1..(n + 1) /\ Mode[i].kind = "block" /\ Mode[i + 1] = To("block", FALSE)
  BY Opened
<1>2. \/ e = n + 1 /\ \A j \in (i + 2)..n : ~Pair(src, j, "star", "slash")
      \/ \E c \in (i + 2)..n : /\ e = c + 2 /\ c < n /\ Pair(src, c, "star", "slash")
                               /\ \A j \in (i + 2)..(c - 1) : ~Pair(src, j, "star", "slash")
  BY <1>1, BlockEndFacts, SourceGlyphs
<1> HIDE DEF e
<1>3. n \in Nat /\ i + 1 \in Nat
  BY <1>1
<1>4. ASSUME NEW d \in (i + 2)..(n + 1), \A j \in (i + 2)..(d - 1) : ~Pair(src, j, "star", "slash")
      PROVE  \A j \in (i + 1)..(d - 1) : Mode[j] = To("block", FALSE)
  <2>1. ASSUME NEW j \in ((i + 1) + 1)..(d - 1), Mode[j - 1] = To("block", FALSE)
        PROVE  Mode[j] = To("block", FALSE)
    <3>1. j \in 1..n /\ j \in (i + 2)..(d - 1)
      BY <1>3
    <3>2. ~Pair(src, j, "star", "slash")
      BY <1>4, <3>1
    <3>3. Mode[j] = To(IF Pair(src, j, "star", "slash") THEN "closing" ELSE "block", FALSE)
      BY <2>1, <3>1, ModeRules, Zenon
    <3> QED
      BY <3>2, <3>3
  <2>2. d \in Nat
    BY <1>3
  <2> QED
    BY <1>1, <1>3, <2>1, <2>2, StaysIn
<1>5. ASSUME NEW d \in (i + 2)..(n + 1), \A j \in (i + 1)..(d - 1) : Mode[j] = To("block", FALSE)
      PROVE  \A j \in i..(d - 1) : InComment(Mode, j)
  <2> SUFFICES ASSUME NEW j \in i..(d - 1) PROVE InComment(Mode, j)
    OBVIOUS
  <2>1. j = i \/ j \in (i + 1)..(d - 1)
    OBVIOUS
  <2>2. Mode[j].kind = "block"
    BY <1>1, <1>5, <2>1 DEF To
  <2> QED
    BY <2>2 DEF InComment
<1>6. CASE e = n + 1 /\ \A j \in (i + 2)..n : ~Pair(src, j, "star", "slash")
  <2>1. n + 1 \in (i + 2)..(n + 1) /\ (n + 1) - 1 = n
    BY <1>1, <1>3
  <2>2. \A j \in (i + 1)..((n + 1) - 1) : Mode[j] = To("block", FALSE)
    BY <1>4, <1>6, <2>1
  <2> QED
    BY <1>5, <1>6, <2>1, <2>2 DEF e
<1>7. ASSUME NEW c \in (i + 2)..n, e = c + 2, c < n, Pair(src, c, "star", "slash"),
             \A j \in (i + 2)..(c - 1) : ~Pair(src, j, "star", "slash")
      PROVE  /\ e \in (i + 2)..(Len(src) + 1)
             /\ \A j \in i..(e - 1) : InComment(Mode, j)
             /\ e # Len(src) + 1 => Mode[e - 1] = To("code", FALSE)
  <2>1. /\ c \in (i + 2)..(n + 1) /\ c \in 1..n /\ c + 1 \in 1..n /\ (c + 1) - 1 = c
        /\ c - 1 \in (i + 1)..(c - 1) /\ e - 1 = c + 1 /\ e \in (i + 2)..(n + 1)
    BY <1>3, <1>7
  <2>2. \A j \in (i + 1)..(c - 1) : Mode[j] = To("block", FALSE)
    BY <1>4, <1>7, <2>1
  <2>3. Mode[c] = To("closing", FALSE)
    <3>1. Mode[c - 1] = To("block", FALSE)
      BY <2>1, <2>2
    <3>2. Mode[c] = To(IF Pair(src, c, "star", "slash") THEN "closing" ELSE "block", FALSE)
      BY <2>1, <3>1, ModeRules, Zenon
    <3> QED
      BY <1>7, <3>2
  <2>4. Mode[c + 1] = To("code", FALSE)
    <3>1. Mode[(c + 1) - 1] = To("closing", FALSE)
      BY <2>1, <2>3, Zenon
    <3> QED
      BY <2>1, <3>1, ModeRules, Zenon
  <2>5. \A j \in i..(c - 1) : InComment(Mode, j)
    BY <1>5, <2>1, <2>2
  <2>6. InComment(Mode, c) /\ InComment(Mode, c + 1)
    <3>1. Mode[c].kind = "closing" /\ Mode[(c + 1) - 1].kind = "closing"
      BY <2>1, <2>3 DEF To
    <3> QED
      BY <3>1 DEF InComment
  <2>7. ASSUME NEW j \in i..(e - 1) PROVE InComment(Mode, j)
    <3>1. j \in i..(c - 1) \/ j = c \/ j = c + 1
      BY <2>1
    <3> QED
      BY <2>5, <2>6, <3>1, Zenon
  <2> QED
    BY <2>1, <2>4, <2>7
<1> QED
  BY <1>2, <1>6, <1>7 DEF e

\* Whatever a turn of the first pass writes stands for the places up to an end.
LEMMA CommentTurnShape ==
  ASSUME NEW s \in Seq(Glyphs), NEW i \in 1..Len(s)
  PROVE  /\ CommentTurn(s, i) \in Seq(Glyphs)
         /\ \E e \in (i + 1)..(Len(s) + 1) : Len(CommentTurn(s, i)) = e - i
         /\ Pair(s, i, "slash", "slash") => CommentTurn(s, i) = Spaces(LineEnd(s, i + 2) - i)
         /\ Pair(s, i, "slash", "star") => CommentTurn(s, i) = BlankBlock(s, i, BlockEnd(s, i + 2))
         /\ IsQuote(s[i]) => CommentTurn(s, i) = SubSeq(s, i, QuotedEnd(s, s[i])[i + 1] - 1)
         /\ ~Pair(s, i, "slash", "slash") /\ ~Pair(s, i, "slash", "star") /\ ~IsQuote(s[i])
               => CommentTurn(s, i) = <<s[i]>>
<1> DEFINE n == Len(s)
           turn == CommentTurn(s, i)
           Shaped == turn \in Seq(Glyphs) /\ \E e \in (i + 1)..(n + 1) : Len(turn) = e - i
<1>1. n \in Nat /\ s[i] \in Glyphs /\ \A j \in 1..n : s[j] \in Glyphs
  OBVIOUS
<1>2. \A c, d : Pair(s, i, c, d) => i < n /\ s[i] = c /\ s[i + 1] = d
  BY DEF Pair
<1>3. /\ Pair(s, i, "slash", "slash") => turn = Spaces(LineEnd(s, i + 2) - i)
      /\ Pair(s, i, "slash", "star") => turn = BlankBlock(s, i, BlockEnd(s, i + 2))
      /\ IsQuote(s[i]) => turn = SubSeq(s, i, QuotedEnd(s, s[i])[i + 1] - 1)
      /\ ~Pair(s, i, "slash", "slash") /\ ~Pair(s, i, "slash", "star") /\ ~IsQuote(s[i])
            => turn = <<s[i]>>
  <2>1. Pair(s, i, "slash", "star") => ~Pair(s, i, "slash", "slash")
    BY DEF Pair
  <2>2. IsQuote(s[i]) => ~Pair(s, i, "slash", "slash") /\ ~Pair(s, i, "slash", "star")
    BY <1>2, KindsDiffer
  <2> QED
    BY <2>1, <2>2, Zenon DEF CommentTurn
<1> SUFFICES Shaped
  BY <1>3, Zenon
<1> HIDE DEF turn
<1>4. CASE Pair(s, i, "slash", "slash")
  <2> DEFINE e == LineEnd(s, i + 2)
  <2>1. i + 2 \in 1..(n + 1)
    BY <1>2, <1>4
  <2>2. e \in (i + 2)..(n + 1)
    BY <2>1, LineEndFacts
  <2> HIDE DEF e
  <2>3. e - i \in Nat /\ e \in (i + 1)..(n + 1)
    BY <1>1, <2>2
  <2>4. turn = Spaces(e - i)
    BY <1>3, <1>4 DEF e
  <2> QED
    BY <2>3, <2>4, SpacesFacts
<1>5. CASE Pair(s, i, "slash", "star")
  <2> DEFINE e == BlockEnd(s, i + 2)
  <2>1. i + 2 \in 1..(n + 1)
    BY <1>2, <1>5
  <2>2. e \in (i + 2)..(n + 1)
    <3>1. \/ e = n + 1
          \/ \E c \in (i + 2)..n : e = c + 2 /\ c < n
      BY <2>1, BlockEndFacts
    <3> HIDE DEF e
    <3> QED
      BY <1>1, <2>1, <3>1
  <2> HIDE DEF e
  <2>3. e - i \in Nat /\ e \in (i + 1)..(n + 1)
    BY <1>1, <2>2
  <2>4. turn = BlankBlock(s, i, e)
    BY <1>3, <1>5 DEF e
  <2>5. Newline \in Glyphs /\ Space \in Glyphs
    BY KindsDiffer
  <2>6. BlankBlock(s, i, e) \in Seq(Glyphs) /\ Len(BlankBlock(s, i, e)) = e - i
    BY <2>3, <2>5 DEF BlankBlock
  <2> QED
    BY <2>3, <2>4, <2>6
<1>6. CASE IsQuote(s[i])
  <2> DEFINE e == QuotedEnd(s, s[i])[i + 1]
  <2>1. i + 1 \in 1..(n + 1)
    BY <1>1
  <2>2. e \in (i + 1)..(n + 1)
    BY <2>1, EndFacts
  <2> HIDE DEF e
  <2>3. turn = SubSeq(s, i, e - 1)
    BY <1>3, <1>6 DEF e
  <2>4. SubSeq(s, i, e - 1) \in Seq(Glyphs) /\ Len(SubSeq(s, i, e - 1)) = e - i
    BY <1>1, <2>2
  <2> QED
    BY <2>2, <2>3, <2>4
<1>7. CASE ~Pair(s, i, "slash", "slash") /\ ~Pair(s, i, "slash", "star") /\ ~IsQuote(s[i])
  <2>1. turn = <<s[i]>>
    BY <1>3, <1>7, Zenon
  <2>2. i + 1 \in (i + 1)..(n + 1) /\ <<s[i]>> \in Seq(Glyphs) /\ Len(<<s[i]>>) = (i + 1) - i
    BY <1>1
  <2> QED
    BY <2>1, <2>2
<1> QED
  BY <1>4, <1>5, <1>6, <1>7, Zenon

\* Where the first pass can stand: behind a comment, a literal or in code.
Stops ==
  {i \in 1..(Len(src) + 1) : Left(i) \/ (src[i] = Newline /\ Mode[i - 1] = To("line", FALSE))}

\* A turn of the first pass writes what fits and leads to where a turn can begin.
LEMMA CommentTurnFits ==
  ASSUME src \in Seq(Chars), NEW i \in 1..Len(src), i \in Stops
  PROVE  /\ Fits(CommentTurn(src, i), i, i + Len(CommentTurn(src, i)), CommentGlyphs)
         /\ i + Len(CommentTurn(src, i)) \in Stops
<1> DEFINE n == Len(src)
           turn == CommentTurn(src, i)
           Right == Fits(turn, i, i + Len(turn), CommentGlyphs) /\ i + Len(turn) \in Stops
<1>1. /\ n \in Nat /\ src \in Seq(Glyphs) /\ \A j \in 1..n : src[j] \in Glyphs
      /\ i \in Nat /\ i + 1 \in 1..(n + 1) /\ (i + 1) - 1 = i
  BY SourceGlyphs
<1>2. turn \in Seq(Glyphs)
  BY <1>1, CommentTurnShape
<1>3. /\ Pair(src, i, "slash", "slash") => turn = Spaces(LineEnd(src, i + 2) - i)
      /\ Pair(src, i, "slash", "star") => turn = BlankBlock(src, i, BlockEnd(src, i + 2))
      /\ IsQuote(src[i]) => turn = SubSeq(src, i, QuotedEnd(src, src[i])[i + 1] - 1)
      /\ ~Pair(src, i, "slash", "slash") /\ ~Pair(src, i, "slash", "star") /\ ~IsQuote(src[i])
            => turn = <<src[i]>>
  BY <1>1, CommentTurnShape
<1> SUFFICES Right
  OBVIOUS
<1> HIDE DEF turn
<1>0. /\ \A e \in 1..(n + 1) : Left(e) => e \in Stops
      /\ \A e \in 1..(n + 1) : src[e] = Newline /\ Mode[e - 1] = To("line", FALSE) => e \in Stops
  BY DEF Stops
<1>4. ASSUME NEW e \in (i + 1)..(n + 1), Len(turn) = e - i,
             \A k \in i..(e - 1) : turn[k - i + 1] \in CommentGlyphs[k], e \in Stops
      PROVE  Right
  <2>1. i + Len(turn) = e
    BY <1>1, <1>4
  <2> QED
    BY <1>2, <1>4, <2>1 DEF Fits
<1>5. ASSUME turn = <<src[i]>>, i + 1 \in Stops, ~InComment(Mode, i) \/ src[i] = Newline
      PROVE  Right
  <2>1. src[i] \in CommentGlyphs[i]
    BY <1>5 DEF CommentGlyphs
  <2>2. Fits(<<src[i]>>, i, i + 1, CommentGlyphs)
    BY <1>1, <2>1, FitsOne
  <2>3. i + Len(<<src[i]>>) = i + 1
    OBVIOUS
  <2> QED
    BY <1>5, <2>2, <2>3, Zenon
<1>6. CASE /\ src[i] = Newline
           /\ Mode[i - 1] = To("line", FALSE) \/ \E q \in Quotes : Mode[i - 1] = To(q, FALSE)
  <2>1. ~Pair(src, i, "slash", "slash") /\ ~Pair(src, i, "slash", "star") /\ ~IsQuote(src[i])
    BY <1>6, KindsDiffer DEF Pair
  <2>2. Mode[i] = To("code", FALSE)
    <3>1. CASE Mode[i - 1] = To("line", FALSE)
      <4>1. Mode[i] = To(IF src[i] = Newline THEN "code" ELSE "line", FALSE)
        BY <3>1, ModeRules, Zenon
      <4> QED
        BY <1>6, <4>1
    <3>2. ASSUME NEW q \in Quotes, Mode[i - 1] = To(q, FALSE) PROVE Mode[i] = To("code", FALSE)
      <4>1. IsQuote(q) /\ q # Backtick /\ src[i] # Escape
        BY <1>6, KindsDiffer
      <4>2. Mode[i] = IF src[i] = Escape /\ i < Len(src) THEN To(q, TRUE)
                      ELSE IF src[i] = q \/ (src[i] = Newline /\ q # Backtick)
                      THEN To("code", FALSE) ELSE To(q, FALSE)
        BY <3>2, <4>1, ModeRules, Zenon
      <4> QED
        BY <1>6, <4>1, <4>2
    <3> QED
      BY <1>6, <3>1, <3>2
  <2>3. i + 1 \in Stops
    BY <1>1, <2>2 DEF Stops, Left
  <2> QED
    BY <1>3, <1>5, <1>6, <2>1, <2>3
<1>7. CASE Mode[i - 1] = To("code", FALSE)
  <2>0. Mode[i - 1].kind = "code"
    BY <1>7 DEF To
  <2>1. Mode[i] = IF Pair(src, i, "slash", "slash") THEN To("line", TRUE)
                  ELSE IF Pair(src, i, "slash", "star") THEN To("block", TRUE)
                  ELSE IF IsQuote(src[i]) THEN To(src[i], FALSE) ELSE To("code", FALSE)
    BY <1>7, ModeRules, Zenon
  <2>2. CASE Pair(src, i, "slash", "slash")
    <3> DEFINE e == LineEnd(src, i + 2)
    <3>1. Mode[i] = To("line", TRUE)
      BY <2>1, <2>2
    <3>2. /\ e \in (i + 2)..(n + 1)
          /\ \A j \in i..(e - 1) : Mode[j].kind = "line"
          /\ e # n + 1 => src[e] = Newline /\ Mode[e - 1] = To("line", FALSE)
      BY <2>2, <3>1, LineModes
    <3>3. \A j \in i..(LineEnd(src, i + 2) - 1) : j \in 1..n => src[j] # Newline
      <4>1. i + 2 \in 1..(n + 1) /\ src[i] = "slash" /\ src[i + 1] = "slash"
        BY <2>2 DEF Pair
      <4>2. \A j \in (i + 2)..(e - 1) : src[j] # Newline
        BY <1>1, <4>1, LineEndFacts
      <4>3. \A j \in i..(e - 1) : j = i \/ j = i + 1 \/ j \in (i + 2)..(e - 1)
        OBVIOUS
      <4> QED
        BY <4>1, <4>2, <4>3, KindsDiffer
    <3>4. turn = Spaces(e - i)
      BY <1>3, <2>2
    <3> HIDE DEF e
    <3>5. e - i \in Nat /\ e \in (i + 1)..(n + 1) /\ Len(turn) = e - i
      <4>1. e - i \in Nat /\ e \in (i + 1)..(n + 1)
        BY <1>1, <3>2
      <4> QED
        BY <3>4, <4>1, SpacesFacts
    <3>6. ASSUME NEW k \in i..(e - 1) PROVE turn[k - i + 1] \in CommentGlyphs[k]
      <4>1. k - i + 1 \in 1..(e - i) /\ k \in 1..n
        BY <1>1, <3>2
      <4>2. turn[k - i + 1] = Space
        BY <3>4, <3>5, <4>1, SpacesFacts
      <4>3. InComment(Mode, k)
        BY <3>2 DEF InComment
      <4>4. src[k] # Newline
        BY <3>3, <4>1 DEF e
      <4> QED
        BY <4>1, <4>2, <4>3, <4>4 DEF CommentGlyphs
    <3>7. e \in Stops
      <4>1. e \in 1..(n + 1)
        BY <1>1, <3>2
      <4> QED
        BY <1>0, <3>2, <4>1 DEF Left
    <3> QED
      BY <1>4, <3>5, <3>6, <3>7
  <2>3. CASE Pair(src, i, "slash", "star")
    <3> DEFINE e == BlockEnd(src, i + 2)
    <3>0. ~Pair(src, i, "slash", "slash")
      BY <2>3 DEF Pair
    <3>1. Mode[i] = To("block", TRUE)
      BY <2>1, <2>3, <3>0
    <3>2. /\ e \in (i + 2)..(n + 1)
          /\ \A j \in i..(e - 1) : InComment(Mode, j)
          /\ e # n + 1 => Mode[e - 1] = To("code", FALSE)
      BY <2>3, <3>1, BlockModes
    <3>4. turn = BlankBlock(src, i, e)
      BY <1>3, <2>3
    <3> HIDE DEF e
    <3>5. e - i \in Nat /\ e \in (i + 1)..(n + 1)
      BY <1>1, <3>2
    <3>6. Len(turn) = e - i
      BY <3>4, <3>5 DEF BlankBlock
    <3>7. ASSUME NEW k \in i..(e - 1) PROVE turn[k - i + 1] \in CommentGlyphs[k]
      <4>1. k - i + 1 \in 1..(e - i) /\ k \in 1..n /\ i + (k - i + 1) - 1 = k
        BY <1>1, <3>2
      <4>2. turn[k - i + 1] = IF src[k] = Newline THEN Newline ELSE Space
        BY <3>4, <4>1 DEF BlankBlock
      <4>3. InComment(Mode, k)
        BY <3>2
      <4> QED
        BY <4>1, <4>2, <4>3 DEF CommentGlyphs
    <3>8. e \in Stops
      <4>1. e \in 1..(n + 1)
        BY <1>1, <3>2
      <4> QED
        BY <1>0, <3>2, <4>1 DEF Left
    <3> QED
      BY <1>4, <3>5, <3>6, <3>7, <3>8
  <2>4. CASE IsQuote(src[i])
    <3> DEFINE q == src[i]
               e == QuotedEnd(src, q)[i + 1]
    <3>1. Mode[i] = To(q, FALSE)
      <4>1. ~Pair(src, i, "slash", "slash") /\ ~Pair(src, i, "slash", "star")
        BY <2>4, KindsDiffer DEF Pair
      <4> QED
        BY <2>1, <2>4, <4>1
    <3>2. e \in (i + 1)..(n + 1)
      BY <1>1, EndFacts
    <3>3. Left(e) /\ \A j \in (i + 1)..(e - 1) : Within(q, j)
      <4>1. Mode[(i + 1) - 1] = To(q, FALSE)
        BY <1>1, <3>1, Zenon
      <4> HIDE DEF q
      <4> QED
        BY <1>1, <2>4, <4>1, LiteralCopied DEF q
    <3>4. turn = SubSeq(src, i, e - 1)
      BY <1>3, <2>4
    <3> HIDE DEF e
    <3>5. Len(turn) = e - i /\ \A k \in i..(e - 1) : turn[k - i + 1] = src[k]
      BY <1>1, <3>2, <3>4
    <3>6. ASSUME NEW k \in i..(e - 1) PROVE turn[k - i + 1] \in CommentGlyphs[k]
      <4>1. k \in 1..n /\ (k = i \/ k \in (i + 1)..(e - 1))
        BY <1>1, <3>2
      <4>2. ~InComment(Mode, i)
        <5>1. Mode[i].kind = q
          BY <3>1 DEF To
        <5> QED
          BY <2>0, <2>4, <5>1, KindsDiffer DEF InComment
      <4>3. ~InComment(Mode, k)
        <5> HIDE DEF q
        <5> QED
          BY <2>4, <3>3, <4>1, <4>2, WithinFacts DEF q
      <4> QED
        BY <3>5, <4>1, <4>3 DEF CommentGlyphs
    <3>7. e \in Stops
      <4>1. e \in 1..(n + 1)
        BY <1>1, <3>2
      <4> QED
        BY <1>0, <3>3, <4>1
    <3> QED
      BY <1>4, <3>2, <3>5, <3>6, <3>7
  <2>5. CASE ~Pair(src, i, "slash", "slash") /\ ~Pair(src, i, "slash", "star") /\ ~IsQuote(src[i])
    <3>1. Mode[i] = To("code", FALSE)
      BY <2>1, <2>5
    <3>2. i + 1 \in Stops
      BY <1>1, <3>1 DEF Stops, Left
    <3>3. ~InComment(Mode, i)
      <4>1. Mode[i].kind = "code"
        BY <3>1 DEF To
      <4> QED
        BY <2>0, <4>1 DEF InComment
    <3> QED
      BY <1>3, <1>5, <2>5, <3>2, <3>3
  <2> QED
    BY <2>2, <2>3, <2>4, <2>5
<1>8. i # n + 1
  BY <1>1
<1>9. Left(i) \/ (src[i] = Newline /\ Mode[i - 1] = To("line", FALSE))
  BY DEF Stops
<1> QED
  BY <1>6, <1>7, <1>8, <1>9, Zenon DEF Left

\* The first pass blanks the comments and nothing else.
LEMMA CommentsBlanked ==
  ASSUME src \in Seq(Chars)
  PROVE  /\ Fits(stripComments(src), 1, Len(src) + 1, CommentGlyphs)
         /\ IsClean(stripComments(src)) /\ CommentsScrubbed
<1> DEFINE n == Len(src)
           turn == [i \in DOMAIN src |-> CommentTurn(src, i)]
           t == stripComments(src)
<1>1. n \in Nat /\ src \in Seq(Glyphs) /\ DOMAIN src = 1..n
  BY SourceGlyphs
<1>2. \A i \in 1..n : turn[i] = CommentTurn(src, i)
  BY <1>1
<1>3. t = Written(src, turn)
  BY DEF stripComments
<1> HIDE DEF turn, t
<1>4. Turns(src, turn)
  <2> SUFFICES ASSUME NEW i \in 1..n
               PROVE  /\ turn[i] \in Seq(Glyphs) /\ Len(turn[i]) # 0
                      /\ i + Len(turn[i]) \in 1..(n + 1)
    BY DEF Turns
  <2> DEFINE piece == CommentTurn(src, i)
  <2>1. piece \in Seq(Glyphs) /\ \E e \in (i + 1)..(n + 1) : Len(piece) = e - i
    BY <1>1, CommentTurnShape
  <2> HIDE DEF piece
  <2>2. Len(piece) # 0 /\ i + Len(piece) \in 1..(n + 1)
    BY <1>1, <2>1
  <2>3. turn[i] = piece
    BY <1>2 DEF piece
  <2> QED
    BY <2>1, <2>2, <2>3
<1>5. 1 \in Stops
  <2>1. 1 \in 1..(n + 1) /\ 1 - 1 = 0
    BY <1>1
  <2>2. Left(1)
    BY <2>1, ModeFacts DEF Left
  <2> QED
    BY <2>1, <2>2 DEF Stops
<1>6. \A i \in 1..n : i \in Stops =>
         /\ Fits(turn[i], i, i + Len(turn[i]), CommentGlyphs)
         /\ i + Len(turn[i]) \in Stops
  BY <1>2, CommentTurnFits
<1>7. Fits(t, 1, n + 1, CommentGlyphs)
  BY <1>1, <1>3, <1>4, <1>5, <1>6, WrittenFits
<1>8. t \in Seq(Glyphs) /\ Len(t) = n /\ \A k \in 1..n : t[k] \in CommentGlyphs[k]
  <2>1. \A k \in 1..n : k \in 1..((n + 1) - 1) /\ k - 1 + 1 = k
    BY <1>1
  <2>2. (n + 1) - 1 = n
    BY <1>1
  <2>3. t \in Seq(Glyphs) /\ Len(t) = (n + 1) - 1 /\ \A k \in 1..((n + 1) - 1) : t[k - 1 + 1] \in CommentGlyphs[k]
    BY <1>7 DEF Fits
  <2> QED
    BY <2>1, <2>2, <2>3
<1>9. \A k \in 1..n : t[k] = IF InComment(Mode, k) /\ src[k] # Newline THEN Space ELSE src[k]
  BY <1>8 DEF CommentGlyphs
<1>10. IsClean(t)
  BY <1>8, <1>9 DEF IsClean
<1>11. CommentsScrubbed
  BY <1>1, <1>8, <1>9 DEF CommentsScrubbed, t
<1> QED
  BY <1>7, <1>10, <1>11 DEF t

-----------------------------------------------------------------------------
(* The second pass, which may also stand in a comment: it is blank by now. *)

CommentKinds == {"line", "block", "closing"}

Places == {i \in 1..(Len(src) + 1) : Left(i) \/ Mode[i - 1].kind \in CommentKinds}

\* What a place leads to, by its mode.
LEMMA PlaceStep ==
  ASSUME src \in Seq(Chars), NEW i \in 1..Len(src), i \in Places
  PROVE  /\ ~InLiteral(Mode, i)
         /\ \/ Mode[i].kind \in CommentKinds
            \/ Mode[i] = To("code", FALSE) /\ (IsQuote(src[i]) => InComment(Mode, i))
            \/ IsQuote(src[i]) /\ Mode[i] = To(src[i], FALSE) /\ ~InComment(Mode, i)
<1> DEFINE p == Mode[i - 1]
           Goal == /\ ~InLiteral(Mode, i)
                   /\ \/ Mode[i].kind \in CommentKinds
                      \/ Mode[i] = To("code", FALSE) /\ (IsQuote(src[i]) => InComment(Mode, i))
                      \/ IsQuote(src[i]) /\ Mode[i] = To(src[i], FALSE) /\ ~InComment(Mode, i)
<1>0. p \in Modes /\ Mode[i] \in Modes
  BY ModeRules, Zenon
<1>n. i # Len(src) + 1
  <2>1. Len(src) \in Nat
    OBVIOUS
  <2> QED
    BY <2>1
<1>1. ASSUME Mode[i].kind \in CommentKinds PROVE Goal
  BY <1>1, KindsDiffer DEF CommentKinds, InLiteral
<1>2. ASSUME Mode[i] = To("code", FALSE), IsQuote(src[i]) => InComment(Mode, i) PROVE Goal
  <2>1. Mode[i].kind = "code"
    BY <1>2 DEF To
  <2> QED
    BY <1>2, <2>1, KindsDiffer DEF InLiteral
<1> SUFFICES Goal
  OBVIOUS
<1>3. CASE p = To("code", FALSE)
  <2>1. Mode[i] = IF Pair(src, i, "slash", "slash") THEN To("line", TRUE)
                  ELSE IF Pair(src, i, "slash", "star") THEN To("block", TRUE)
                  ELSE IF IsQuote(src[i]) THEN To(src[i], FALSE) ELSE To("code", FALSE)
    BY <1>3, ModeRules, Zenon
  <2>2. CASE Mode[i] \in {To("line", TRUE), To("block", TRUE)}
    <3>1. Mode[i].kind \in CommentKinds
      BY <2>2 DEF To, CommentKinds
    <3> QED
      BY <1>1, <3>1
  <2>3. CASE IsQuote(src[i]) /\ Mode[i] = To(src[i], FALSE)
    <3>1. p.kind = "code" /\ Mode[i].kind = src[i]
      BY <1>3, <2>3 DEF To
    <3>2. ~InLiteral(Mode, i)
      BY <3>1, KindsDiffer DEF InLiteral
    <3>3. ~InComment(Mode, i)
      BY <2>3, <3>1, KindsDiffer DEF InComment
    <3> QED
      BY <2>3, <3>2, <3>3
  <2>4. CASE ~IsQuote(src[i]) /\ Mode[i] = To("code", FALSE)
    BY <1>2, <2>4
  <2> QED
    BY <2>1, <2>2, <2>3, <2>4
<1>4. ASSUME src[i] = Newline, NEW q \in Quotes, p = To(q, FALSE) PROVE Goal
  <2>1. IsQuote(q) /\ q # Backtick /\ src[i] # Escape /\ ~IsQuote(src[i])
    BY <1>4, KindsDiffer
  <2>2. Mode[i] = IF src[i] = Escape /\ i < Len(src) THEN To(q, TRUE)
                  ELSE IF src[i] = q \/ (src[i] = Newline /\ q # Backtick)
                  THEN To("code", FALSE) ELSE To(q, FALSE)
    BY <1>4, <2>1, ModeRules, Zenon
  <2> QED
    BY <1>2, <1>4, <2>1, <2>2
<1>5. CASE p.kind \in CommentKinds
  <2>1. CASE p.skip
    <3>1. Mode[i] = To(p.kind, FALSE)
      BY <2>1, ModeRules
    <3>2. Mode[i].kind = p.kind
      BY <3>1 DEF To
    <3> QED
      BY <1>1, <1>5, <3>2, Zenon
  <2>2. CASE ~p.skip
    <3>1. p = To(p.kind, p.skip) /\ p.skip \in BOOLEAN
      BY <1>0, ToFacts, Zenon
    <3>2. p = To(p.kind, FALSE)
      BY <2>2, <3>1
    <3>3. CASE p.kind = "line"
      <4>1. Mode[i] = To(IF src[i] = Newline THEN "code" ELSE "line", FALSE)
        BY <3>2, <3>3, ModeRules, Zenon
      <4>2. CASE src[i] = Newline
        <5>1. Mode[i] = To("code", FALSE)
          BY <4>1, <4>2
        <5> QED
          BY <1>2, <4>2, <5>1, KindsDiffer
      <4>3. CASE src[i] # Newline
        <5>1. Mode[i] = To("line", FALSE)
          BY <4>1, <4>3
        <5>2. Mode[i].kind \in CommentKinds
          BY <5>1 DEF To, CommentKinds
        <5> QED
          BY <1>1, <5>2
      <4> QED
        BY <4>2, <4>3
    <3>4. CASE p.kind = "block"
      <4>1. Mode[i] = To(IF Pair(src, i, "star", "slash") THEN "closing" ELSE "block", FALSE)
        BY <3>2, <3>4, ModeRules, Zenon
      <4>2. Mode[i].kind \in CommentKinds
        BY <4>1 DEF To, CommentKinds
      <4> QED
        BY <1>1, <4>2
    <3>5. CASE p.kind = "closing"
      <4>1. Mode[i] = To("code", FALSE)
        BY <3>2, <3>5, ModeRules, Zenon
      <4>2. InComment(Mode, i)
        BY <3>5 DEF InComment
      <4> QED
        BY <1>2, <4>1, <4>2
    <3> QED
      BY <1>5, <3>3, <3>4, <3>5 DEF CommentKinds
  <2> QED
    BY <2>1, <2>2
<1>6. Left(i) \/ p.kind \in CommentKinds
  BY DEF Places
<1> QED
  BY <1>n, <1>3, <1>4, <1>5, <1>6, Zenon DEF Left

\* A turn of the second pass writes something and stays within the source.
LEMMA StringTurnShape ==
  ASSUME NEW s \in Seq(Glyphs), NEW i \in 1..Len(s)
  PROVE  /\ StringTurn(s, i) \in Seq(Glyphs) /\ Len(StringTurn(s, i)) # 0
         /\ i + Len(StringTurn(s, i)) \in 1..(Len(s) + 1)
<1> DEFINE turn == StringTurn(s, i)
           c == <<s[i]>>
           Shaped == turn \in Seq(Glyphs) /\ Len(turn) # 0 /\ i + Len(turn) \in 1..(Len(s) + 1)
<1>1. Len(s) \in Nat /\ s[i] \in Glyphs /\ c \in Seq(Glyphs) /\ Len(c) = 1 /\ i + 1 \in 1..(Len(s) + 1)
  OBVIOUS
<1> SUFFICES Shaped
  OBVIOUS
<1>2. turn = IF IsQuote(s[i]) THEN c \o BlankBody(s, s[i])[i + 1] ELSE c
  BY DEF StringTurn
<1> HIDE DEF turn, c
<1>3. CASE IsQuote(s[i])
  <2> DEFINE b == BlankBody(s, s[i])[i + 1]
  <2>1. b \in Seq(Glyphs) /\ i + 1 + Len(b) \in (i + 1)..(Len(s) + 1)
    BY <1>1, BodyFacts
  <2>2. turn = c \o b
    BY <1>2, <1>3
  <2> HIDE DEF b
  <2>3. Len(b) \in Nat
    BY <2>1
  <2>4. c \o b \in Seq(Glyphs) /\ Len(c \o b) = Len(c) + Len(b)
    BY <1>1, <2>1, ConcatProperties
  <2>5. turn \in Seq(Glyphs) /\ Len(turn) = 1 + Len(b)
    BY <1>1, <2>2, <2>4
  <2> QED
    BY <1>1, <2>1, <2>3, <2>5
<1>4. CASE ~IsQuote(s[i])
  <2>1. turn = c
    BY <1>2, <1>4, Zenon
  <2>2. turn \in Seq(Glyphs) /\ Len(turn) = 1
    BY <1>1, <2>1, Zenon
  <2>3. Len(turn) # 0
    BY <2>2
  <2>4. i + Len(turn) \in 1..(Len(s) + 1)
    BY <1>1, <2>2, Zenon
  <2> QED
    BY <2>2, <2>3, <2>4, Zenon
<1> QED
  BY <1>3, <1>4

\* A turn of the second pass writes what fits and leads to where a turn can begin.
LEMMA StringTurnFits ==
  ASSUME src \in Seq(Chars), NEW t, IsClean(t), NEW i \in 1..Len(src), i \in Places
  PROVE  /\ Fits(StringTurn(t, i), i, i + Len(StringTurn(t, i)), CodeGlyphs)
         /\ i + Len(StringTurn(t, i)) \in Places
<1> DEFINE n == Len(src)
           turn == StringTurn(t, i)
           c == t[i]
           Right == Fits(turn, i, i + Len(turn), CodeGlyphs) /\ i + Len(turn) \in Places
<1>1. /\ n \in Nat /\ t \in Seq(Glyphs) /\ Len(t) = n /\ c \in Glyphs
      /\ i \in Nat /\ i + 1 \in 1..(n + 1) /\ (i + 1) - 1 = i
  BY SourceGlyphs DEF IsClean
<1> SUFFICES Right
  OBVIOUS
<1>2. turn = IF IsQuote(c) THEN <<c>> \o BlankBody(t, c)[i + 1] ELSE <<c>>
  BY DEF StringTurn
<1>3. c = IF InComment(Mode, i) /\ src[i] # Newline THEN Space ELSE src[i]
  BY DEF IsClean
<1> HIDE DEF turn, c
<1>4. /\ \A e \in 1..(n + 1) : Left(e) => e \in Places
      /\ \A e \in 1..(n + 1) : Mode[e - 1].kind \in CommentKinds => e \in Places
  BY DEF Places
<1>5. /\ Mode[i].kind \in CommentKinds => InComment(Mode, i)
      /\ Mode[i].kind \in CommentKinds => i + 1 \in Places
      /\ Mode[i] = To("code", FALSE) => i + 1 \in Places
  <2>1. Mode[i].kind \in CommentKinds => i + 1 \in Places
    BY <1>1, <1>4
  <2>2. Mode[i] = To("code", FALSE) => i + 1 \in Places
    <3>1. Mode[i] = To("code", FALSE) => Left(i + 1)
      BY <1>1, Zenon DEF Left
    <3> QED
      BY <1>1, <1>4, <3>1
  <2> QED
    BY <2>1, <2>2 DEF InComment, CommentKinds
<1>6. /\ ~InLiteral(Mode, i)
      /\ \/ Mode[i].kind \in CommentKinds
         \/ Mode[i] = To("code", FALSE) /\ (IsQuote(src[i]) => InComment(Mode, i))
         \/ IsQuote(src[i]) /\ Mode[i] = To(src[i], FALSE) /\ ~InComment(Mode, i)
  BY PlaceStep
<1>7. ~InLiteral(Mode, i)
  BY <1>6
<1>8. c \in CodeGlyphs[i]
  BY <1>3, <1>7 DEF CodeGlyphs
<1>9. Fits(<<c>>, i, i + 1, CodeGlyphs)
  BY <1>1, <1>8, FitsOne
<1>10. CASE IsQuote(src[i]) /\ Mode[i] = To(src[i], FALSE) /\ ~InComment(Mode, i)
  <2> DEFINE b == BlankBody(t, c)[i + 1]
  <2>1. c = src[i] /\ IsQuote(c)
    BY <1>3, <1>10
  <2>2. Mode[(i + 1) - 1] = To(c, FALSE)
    BY <1>1, <1>10, <2>1, Zenon
  <2>3. Left(i + 1 + Len(b)) /\ Fits(b, i + 1, i + 1 + Len(b), CodeGlyphs)
    BY <1>1, <2>1, <2>2, LiteralBlanked
  <2>4. b \in Seq(Glyphs) /\ i + 1 + Len(b) \in (i + 1)..(n + 1)
    BY <1>1, BodyFacts
  <2>5. turn = <<c>> \o b
    BY <1>2, <2>1
  <2> HIDE DEF b
  <2>6. Len(b) \in Nat /\ i + 1 + Len(b) \in 1..(n + 1) /\ i + 1 + Len(b) \in Nat /\ i + 1 \in Nat
    BY <1>1, <2>4
  <2>7. Fits(turn, i, i + 1 + Len(b), CodeGlyphs)
    BY <1>1, <1>9, <2>3, <2>5, <2>6, FitsJoin
  <2>8. i + Len(turn) = i + 1 + Len(b)
    <3>1. Len(turn) = (i + 1 + Len(b)) - i
      BY <2>7 DEF Fits
    <3> QED
      BY <1>1, <2>6, <3>1
  <2>9. i + 1 + Len(b) \in Places
    BY <1>4, <2>3, <2>6
  <2> QED
    BY <2>7, <2>8, <2>9, Zenon
<1>11. CASE /\ Mode[i].kind \in CommentKinds \/ Mode[i] = To("code", FALSE)
            /\ ~IsQuote(c)
  <2>1. turn = <<c>> /\ i + 1 \in Places
    BY <1>2, <1>5, <1>11
  <2>2. i + Len(<<c>>) = i + 1
    OBVIOUS
  <2> QED
    BY <1>9, <2>1, <2>2, Zenon
<1>12. CASE Mode[i].kind \in CommentKinds /\ IsQuote(c)
  BY <1>3, <1>5, <1>12, KindsDiffer
<1>13. CASE /\ Mode[i] = To("code", FALSE) /\ (IsQuote(src[i]) => InComment(Mode, i))
            /\ IsQuote(c)
  <2>1. IsQuote(src[i]) /\ ~InComment(Mode, i)
    BY <1>3, <1>13, KindsDiffer
  <2> QED
    BY <1>13, <2>1
<1> QED
  BY <1>6, <1>10, <1>11, <1>12, <1>13, Zenon

\* The second pass blanks the literals and leaves the rest of the code.
LEMMA LiteralsBlanked ==
  ASSUME src \in Seq(Chars)
  PROVE  OnlyCodeLeft
<1> DEFINE n == Len(src)
           t == stripComments(src)
           turn == [i \in DOMAIN t |-> StringTurn(t, i)]
           u == stripStringContents(t)
<1>1. n \in Nat /\ DOMAIN src = 1..n
  BY SourceGlyphs
<1>2. IsClean(t)
  BY CommentsBlanked
<1>3. u = Written(t, turn)
  BY DEF stripStringContents
<1> HIDE DEF t, u
<1>4. t \in Seq(Glyphs) /\ Len(t) = n /\ DOMAIN t = 1..n
  BY <1>2 DEF IsClean
<1>5. \A i \in 1..n : turn[i] = StringTurn(t, i)
  BY <1>4
<1> HIDE DEF turn
<1>6. Turns(t, turn)
  <2> SUFFICES ASSUME NEW i \in 1..n
               PROVE  /\ turn[i] \in Seq(Glyphs) /\ Len(turn[i]) # 0
                      /\ i + Len(turn[i]) \in 1..(n + 1)
    BY <1>4 DEF Turns
  <2>1. i \in 1..Len(t)
    BY <1>4
  <2>2. /\ StringTurn(t, i) \in Seq(Glyphs) /\ Len(StringTurn(t, i)) # 0
        /\ i + Len(StringTurn(t, i)) \in 1..(n + 1)
    BY <1>4, <2>1, StringTurnShape
  <2> QED
    BY <1>5, <2>2
<1>7. 1 \in Places
  <2>1. 1 \in 1..(n + 1) /\ 1 - 1 = 0
    BY <1>1
  <2>2. Left(1)
    BY <2>1, ModeFacts DEF Left
  <2> QED
    BY <2>1, <2>2 DEF Places
<1>8. \A i \in 1..n : i \in Places =>
         /\ Fits(turn[i], i, i + Len(turn[i]), CodeGlyphs)
         /\ i + Len(turn[i]) \in Places
  BY <1>2, <1>5, StringTurnFits
<1>9. Fits(u, 1, n + 1, CodeGlyphs)
  BY <1>3, <1>4, <1>6, <1>7, <1>8, WrittenFits
<1>10. Len(u) = n /\ \A k \in 1..n : u[k] \in CodeGlyphs[k]
  <2>1. \A k \in 1..n : k \in 1..((n + 1) - 1) /\ k - 1 + 1 = k
    BY <1>1
  <2>2. (n + 1) - 1 = n
    BY <1>1
  <2>3. Len(u) = (n + 1) - 1 /\ \A k \in 1..((n + 1) - 1) : u[k - 1 + 1] \in CodeGlyphs[k]
    BY <1>9 DEF Fits
  <2> QED
    BY <2>1, <2>2, <2>3
<1>11. \A k \in 1..n : IF InComment(Mode, k) \/ InLiteral(Mode, k)
                       THEN u[k] \in {Space} \union ({src[k]} \intersect {Newline})
                       ELSE u[k] = src[k]
  BY <1>10 DEF CodeGlyphs
<1>12. u = stripStringContents(stripComments(src))
  BY DEF u, t
<1> QED
  BY <1>1, <1>10, <1>11, <1>12, Zenon DEF OnlyCodeLeft

\* Whatever the source, stripComments blanks its comments and nothing else, and
\* stripStringContents after it blanks its literals and nothing else.
THEOREM Scrubbed == LexSpec => []SourceScrubbed
<1> DEFINE Inv == src \in Seq(Chars)
<1>1. LexInit => Inv
  BY DEF LexInit
<1>2. Inv /\ [LexNext]_src => Inv'
  BY DEF LexNext
<1>3. Inv => SourceScrubbed
  BY CommentsBlanked, LiteralsBlanked DEF SourceScrubbed
<1> QED
  BY <1>1, <1>2, <1>3, PTL DEF LexSpec
=============================================================================
