------------------------------ MODULE Download ------------------------------
(* From the request for a tarball to the signals of Layers 2 and 3: the       *)
(* registry client's retries, the integrity check, the extraction under its   *)
(* limits, PostDownloadEngine.Analyze with its two goroutines, and the        *)
(* on-demand fetch of the previous version.  Proxy has all this as three      *)
(* steps (FetchTarball, GetVerdict's miss, Analyze).                          *)
EXTENDS Semver, Sequences, FiniteSets, FiniteSetsExt, Functions

CONSTANTS
    Cases,            \* what the registry publishes and the request asks for
    MaxRetries,       \* proxy.max_retries
    MaxTarballBytes,  \* proxy.max_tarball_bytes
    MaxFiles, MaxFileBytes, MaxTotalBytes,      \* extractor limits
    RatioNum, RatioDen                          \* entropy_ratio_threshold

ASSUME LimitsAssumption ==
    /\ {MaxRetries, MaxTarballBytes, MaxFiles, MaxFileBytes, MaxTotalBytes} \subseteq Nat
    /\ RatioNum \in Nat /\ RatioDen \in Nat \ {0}

\* A cleaned path: its directories, and the file's name, inner suffix and extension,
\* as in <<"package", "dist">>, "index", "min", "js".
isJSFile(p) == p.ext \in {"js", "mjs", "cjs", "ts"}

OutputDirs == {"dist", "build", "out", "lib"}
isLikelyBundle(p) ==
    \/ \E i \in 1..2 : /\ i \in DOMAIN p.dirs /\ p.dirs[i] \in OutputDirs
                       /\ i = 2 => p.dirs[1] = "package"
    \/ p.ext = "js" /\ p.inner \in {"min", "bundle", "prod", "umd", "cjs", "esm", "iife"}

IsManifest(p) ==
    /\ p.name = "package" /\ p.inner = "" /\ p.ext = "json"
    /\ p.dirs = << >> \/ p.dirs[Len(p.dirs)] = "package"

\* What sanitizePath refuses: ".." stands for any component that contains it, a
\* leading "" for the root of an absolute path.
Escapes(p) == ".." \in Range(p.dirs) \/ p.name = ".." \/ (p.dirs # << >> /\ p.dirs[1] = "")

Hooks == {"preinstall", "install", "postinstall", "preuninstall", "prepare"}
VetoPatterns == {"curl_pipe", "wget_pipe"}
Capabilities == {"net_access", "exec", "dynamic_eval", "env_read"}
NoBody == [entries |-> << >>, torn |-> FALSE]

\* An entry of a tarball; of its long literals some are dense.
IsEntry(e) ==
    /\ e.regular \in BOOLEAN /\ e.size \in Nat
    /\ e.content.imports \subseteq Capabilities
    /\ {e.content.long, e.content.dense, e.content.base64, e.content.hex} \subseteq Nat
    /\ e.content.dense <= e.content.long

IsTarball(t) ==
    /\ t.bytes \in Nat /\ t.entries \in Seq(Range(t.entries))
    /\ \A e \in Range(t.entries) : IsEntry(e)

ASSUME CaseAssumption ==
    \A c \in Cases :
        /\ DOMAIN c = {"version", "prev", "shasum", "sri", "tarball", "versions"}
        /\ IsTarball(c.tarball)
        /\ \A v \in DOMAIN c.versions : IsTarball(c.versions[v].tarball)

VARIABLES
    case,       \* the member of Cases this request meets
    pc,         \* where the handler's goroutine stands
    job,        \* whose tarball is fetched: "current" or "previous"
    attempt,    \* getBytes's loop variable
    body,       \* the bytes received: entries up to a cut, and whether the cut shows
    archive,    \* what tar.Reader has not read yet
    tree,       \* per job, path -> the entry last extracted to it
    totalBytes, \* per job
    todo,       \* per detector of the errgroup, the files it has not scanned
    caps,       \* the capability detector's set
    strings,    \* <<totalStrings, highEntropyCount>>
    result,     \* the rules of the signals in the Result
    ended,      \* the contexts that are cancelled or past their deadline
    outcome     \* what the handler makes of it

fetching == <<attempt, body>>
unpacked == <<archive, tree, totalBytes>>
scanned == <<todo, caps, strings>>
downloadVars == <<case, pc, job, fetching, unpacked, scanned, result, ended, outcome>>

Jobs == {"current", "previous"}
AnalysisPhases == {"scripts", "scan", "sinks", "diff", "capabilities", "finish"}

\* prev: the version Analyze compares with, its tarball included.
CurrentMeta == case.versions[case.version]
PrevMeta == case.versions[case.prev]
Tarball == IF job = "current" THEN case.tarball ELSE PrevMeta.tarball

--------------------------------------------------------------------------------
\* Contexts: the deep check's is a child of the analysis's, a child of the request's.

Ctx == IF job = "current" THEN "request" ELSE "deep"

ClientGoes ==
    /\ pc # "done"
    /\ ended' = {"request", "analysis", "deep"}
    /\ UNCHANGED <<case, pc, job, fetching, unpacked, scanned, result, outcome>>

AnalysisTimeout ==
    /\ pc \in AnalysisPhases \/ job = "previous"
    /\ pc # "done"
    /\ ended' = ended \union {"analysis", "deep"}
    /\ UNCHANGED <<case, pc, job, fetching, unpacked, scanned, result, outcome>>

DeepCheckTimeout ==
    /\ job = "previous" /\ pc \notin {"finish", "done"}
    /\ ended' = ended \union {"deep"}
    /\ UNCHANGED <<case, pc, job, fetching, unpacked, scanned, result, outcome>>

--------------------------------------------------------------------------------
\* registry.Client.getBytes and integrity.Verify.

\* Slip: the deep check goes on with what it has.
GiveUpAnyway(reason) ==
    IF job = "current"
    THEN pc' = "done" /\ outcome' = reason
    ELSE pc' = "capabilities" /\ UNCHANGED outcome

\* The handler answers with an error; or the deep check comes to nothing.
GiveUp(reason) ==
    IF job = "current"
    THEN pc' = "done" /\ outcome' = reason
    ELSE pc' = "finish" /\ UNCHANGED outcome

\* What io.LimitReader leaves of a tarball: all of it, or a part.  A cut shows
\* when the archive is read, unless it took nothing but the trailing blocks.
Received(tarball) ==
    LET n == Len(tarball.entries) IN
    IF tarball.bytes <= MaxTarballBytes
    THEN {[entries |-> tarball.entries, torn |-> FALSE]}
    ELSE {[entries |-> SubSeq(tarball.entries, 1, k), torn |-> TRUE] : k \in 0..n}
         \union {[entries |-> tarball.entries, torn |-> FALSE]}

DoGetSucceeds ==
    /\ pc = "request" /\ Ctx \notin ended
    /\ body' \in Received(Tarball)
    /\ archive' = body'.entries
    /\ pc' = IF job = "current" THEN "verify" ELSE "unpack"
    /\ UNCHANGED <<case, job, attempt, tree, totalBytes, scanned, result, ended, outcome>>

DoGetFails ==
    /\ pc = "request"
    /\ IF attempt < MaxRetries
       THEN pc' = "backoff" /\ UNCHANGED outcome
       ELSE GiveUp("upstream_down")
    /\ UNCHANGED <<case, job, fetching, unpacked, scanned, result, ended>>

\* Slip: the attempts are not counted.
BackoffTimerUncounted ==
    /\ pc = "backoff"
    /\ pc' = "request"
    /\ UNCHANGED <<case, job, fetching, unpacked, scanned, result, ended, outcome>>

\* The select of the loop: a timer that fires may be taken although ctx is done.
BackoffTimer ==
    /\ pc = "backoff"
    /\ pc' = "request"
    /\ attempt' = attempt + 1
    /\ UNCHANGED <<case, job, body, unpacked, scanned, result, ended, outcome>>

BackoffCancelled ==
    /\ pc = "backoff" /\ Ctx \in ended
    /\ GiveUp("upstream_down")
    /\ UNCHANGED <<case, job, fetching, unpacked, scanned, result, ended>>

\* Each digest is of the whole body.  An SRI of another algorithm is not looked at.
Verifies ==
    LET whole == case.tarball.bytes <= MaxTarballBytes IN
    /\ case.shasum = "none" \/ (case.shasum = "right" /\ whole)
    /\ case.sri \in {"none", "other"} \/ (case.sri = "right" /\ whole)

Verify ==
    /\ pc = "verify"
    /\ IF Verifies
       THEN pc' = "unpack" /\ UNCHANGED outcome
       ELSE GiveUp("integrity_mismatch")
    /\ UNCHANGED <<case, job, fetching, unpacked, scanned, result, ended>>

--------------------------------------------------------------------------------
\* extractor.Extract: one header per step; the first error rejects the tarball.

\* Slip: the file that reaches the limit is let in.
AcceptableOneMore(e) ==
    /\ ~Escapes(e.path)
    /\ Cardinality(DOMAIN tree[job]) <= MaxFiles
    /\ e.size <= MaxFileBytes
    /\ totalBytes[job] + e.size <= MaxTotalBytes

Acceptable(e) ==
    /\ ~Escapes(e.path)
    /\ Cardinality(DOMAIN tree[job]) < MaxFiles
    /\ e.size <= MaxFileBytes
    /\ totalBytes[job] + e.size <= MaxTotalBytes

Store(e) ==
    [p \in DOMAIN tree[job] \union {e.path} |->
        IF p = e.path THEN e ELSE tree[job][p]]

ExtractEntry ==
    /\ pc = "unpack" /\ archive # << >>
    /\ LET e == Head(archive) IN
       \/ /\ ~e.regular
          /\ archive' = Tail(archive)
          /\ UNCHANGED <<pc, tree, totalBytes, outcome>>
       \/ /\ e.regular /\ Acceptable(e)
          /\ archive' = Tail(archive)
          /\ tree' = [tree EXCEPT ![job] = Store(e)]
          /\ totalBytes' = [totalBytes EXCEPT ![job] = @ + e.size]
          /\ UNCHANGED <<pc, outcome>>
       \/ /\ e.regular /\ ~Acceptable(e)
          /\ GiveUp("resource_limit")
          /\ UNCHANGED unpacked
    /\ UNCHANGED <<case, job, fetching, scanned, result, ended>>

\* Slip: any error of tar.Reader ends the archive.
ExtractEndOnError ==
    /\ pc = "unpack" /\ archive = << >>
    /\ pc' = IF job = "current" THEN "scripts" ELSE "capabilities"
    /\ UNCHANGED <<case, job, fetching, unpacked, scanned, result, ended, outcome>>

ExtractEnd ==
    /\ pc = "unpack" /\ archive = << >>
    /\ IF body.torn
       THEN GiveUp("resource_limit")
       ELSE /\ pc' = IF job = "current" THEN "scripts" ELSE "capabilities"
            /\ UNCHANGED outcome
    /\ UNCHANGED <<case, job, fetching, unpacked, scanned, result, ended>>

--------------------------------------------------------------------------------
\* Layer 2: install scripts.

JSFiles(files) == {p \in DOMAIN files : isJSFile(p)}
SourceFiles(files) == {p \in JSFiles(files) : ~isLikelyBundle(p)}

\* findPackageJSON takes whichever manifest the map yields first; content.scripts
\* is empty, or holds the hooks' patterns if the file parses as a manifest.
Manifests(files) == UNION {files[p].content.scripts : p \in {q \in DOMAIN files : IsManifest(q)}}

RegexPass(hook, patterns) ==
    IF "curl_pipe" \in patterns THEN {<<"install_script", "curl_pipe", hook>>}
    ELSE IF "wget_pipe" \in patterns THEN {<<"install_script", "wget_pipe", hook>>}
    ELSE {<<"install_script", p, hook>> : p \in patterns}

ScriptRules(scripts) ==
    LET matched == UNION {RegexPass(h, scripts[h]) : h \in DOMAIN scripts}
    IN  IF matched = {} /\ DOMAIN scripts # {}
        THEN {<<"install_script_present">>} ELSE matched

VetoRules == {<<"install_script", p, h>> : p \in VetoPatterns, h \in Hooks}

InstallScripts ==
    /\ pc = "scripts"
    /\ LET found == Manifests(tree["current"]) IN
       \/ found = {} /\ UNCHANGED result
       \/ \E scripts \in found : result' = ScriptRules(scripts)
    /\ IF result' \intersect VetoRules # {}
       THEN pc' = "finish" /\ UNCHANGED todo
       ELSE /\ pc' = "scan"
            /\ todo' = [capabilities |-> JSFiles(tree["current"]),
                        entropy |-> SourceFiles(tree["current"])]
    /\ UNCHANGED <<case, job, fetching, unpacked, caps, strings, ended, outcome>>

--------------------------------------------------------------------------------
\* Layer 3: the errgroup's two goroutines, file by file, then the sinks.

\* content.imports and content.calls: which patterns match in the scrubbed source.
EvalCalls == {"sink_eval", "sink_new_function", "sink_vm_run_this_context", "sink_vm_run_new_context"}

detectCapabilities(c) ==
    c.imports
    \union (IF c.calls \intersect EvalCalls # {} THEN {"dynamic_eval"} ELSE {})
    \union (IF "process_env" \in c.calls THEN {"env_read"} ELSE {})

ScanCapabilities(p) ==
    /\ pc = "scan" /\ p \in todo.capabilities
    /\ caps' = caps \union detectCapabilities(tree["current"][p].content)
    /\ todo' = [todo EXCEPT !.capabilities = IF caps' = Capabilities THEN {} ELSE @ \ {p}]
    /\ UNCHANGED <<case, pc, job, fetching, unpacked, strings, result, ended, outcome>>

\* Long literals, of which some are dense and some decode as base64, and runs of
\* hex digits: total and high.  A base64 literal counts once more, as high.
scanFileEntropy(c) ==
    <<c.long + c.base64 + c.hex, c.dense + c.base64 + c.hex>>

ScanEntropy(p) ==
    /\ pc = "scan" /\ p \in todo.entropy
    /\ LET n == scanFileEntropy(tree["current"][p].content)
       IN  strings' = <<strings[1] + n[1], strings[2] + n[2]>>
    /\ todo' = [todo EXCEPT !.entropy = @ \ {p}]
    /\ UNCHANGED <<case, pc, job, fetching, unpacked, caps, result, ended, outcome>>

CapabilityRules(set) == {<<"capability", c>> : c \in set \ {"net_access"}}

Obfuscated(counts) == counts[1] # 0 /\ counts[2] * RatioDen >= counts[1] * RatioNum

EntropyRules(counts) ==
    IF Obfuscated(counts) THEN {<<"obfuscation_high_entropy">>} ELSE {}

\* Slip: the sinks do not wait for the entropy scan.
ScansJoinEarly ==
    /\ pc = "scan" /\ todo.capabilities = {}
    /\ result' = result \union CapabilityRules(caps) \union EntropyRules(strings)
    /\ pc' = "sinks"
    /\ UNCHANGED <<case, job, fetching, unpacked, scanned, ended, outcome>>

ScansJoin ==
    /\ pc = "scan" /\ todo = [capabilities |-> {}, entropy |-> {}]
    /\ result' = result \union CapabilityRules(caps) \union EntropyRules(strings)
    /\ pc' = "sinks"
    /\ UNCHANGED <<case, job, fetching, unpacked, scanned, ended, outcome>>

\* appendIfNotPresent keeps one signal per rule.
SinkRules(files, obfuscated) ==
    LET hits == UNION {files[p].content.calls : p \in JSFiles(files)} \ {"process_env"}
    IN  IF obfuscated /\ hits # {} THEN {<<"sink_with_obfuscation">>}
        ELSE {<<s>> : s \in hits}

SinkScan ==
    /\ pc = "sinks"
    /\ result' = result \union SinkRules(tree["current"], Obfuscated(strings))
    /\ pc' = "diff"
    /\ UNCHANGED <<case, job, fetching, unpacked, scanned, ended, outcome>>

--------------------------------------------------------------------------------
\* Version diff: scripts and dependencies from the metadata, capabilities from
\* the previous tarball.

Comparable ==
    /\ IsPatchBump(case.prev, case.version)
    /\ {case.prev, case.version} \subseteq DOMAIN case.versions

ChangedHooks == {h \in Hooks : PrevMeta.scripts[h] # CurrentMeta.scripts[h]}

ScriptDiff ==
    LET kind(h) == IF PrevMeta.scripts[h] = "" THEN "new" ELSE "changed"
    IN  {<<"version_diff_script", kind(h), h>> :
            h \in {g \in ChangedHooks : CurrentMeta.scripts[g] # ""}}

DependencyDiff ==
    IF CurrentMeta.deps \subseteq PrevMeta.deps THEN {}
    ELSE {<<"version_diff_new_dependency">>}

VersionDiff ==
    /\ pc = "diff"
    /\ result' = IF Comparable THEN result \union ScriptDiff \union DependencyDiff ELSE result
    /\ IF Comparable /\ ChangedHooks # {} /\ PrevMeta.url
       THEN pc' = "request" /\ job' = "previous" /\ attempt' = 0 /\ body' = NoBody
       ELSE pc' = "finish" /\ UNCHANGED <<job, fetching>>
    /\ UNCHANGED <<case, unpacked, scanned, ended, outcome>>

CapabilitiesOf(files) == UNION {detectCapabilities(files[p].content) : p \in JSFiles(files)}

CapabilityDiff(prevCaps, currentCaps) ==
    {<<"version_diff_new_in_patch", c>> :
        c \in (currentCaps \ prevCaps) \intersect {"exec", "net_access"}}

\* A previous version without any capability yields a nil list, which Analyze
\* takes for a failed fetch.
PrevCapabilities ==
    /\ pc = "capabilities"
    /\ LET prevCaps == CapabilitiesOf(tree["previous"])
       IN  result' = IF prevCaps = {} THEN result
                     ELSE result \union CapabilityDiff(prevCaps, caps)
    /\ pc' = "finish"
    /\ UNCHANGED <<case, job, fetching, unpacked, scanned, ended, outcome>>

\* The handler looks at the analysis's deadline once Analyze has returned.
Finish ==
    /\ pc = "finish"
    /\ pc' = "done"
    /\ outcome' = IF "analysis" \in ended THEN "analysis_timeout" ELSE "analysed"
    /\ UNCHANGED <<case, job, fetching, unpacked, scanned, result, ended>>

--------------------------------------------------------------------------------
NoFiles == [p \in {} |-> p]

Idle ==
    /\ job = "current" /\ attempt = 0
    /\ body = NoBody /\ archive = << >>
    /\ tree = [j \in Jobs |-> NoFiles]
    /\ totalBytes = [j \in Jobs |-> 0]
    /\ todo = [capabilities |-> {}, entropy |-> {}]
    /\ caps = {} /\ strings = <<0, 0>>
    /\ result = {} /\ ended = {} /\ outcome = "none"

DownloadInit ==
    /\ case \in UNION {{[c EXCEPT !.prev = v] : v \in PreviousVersions(DOMAIN c.versions, c.version)}
                          : c \in Cases}
    /\ pc = "request" /\ Idle

AnalysisStep ==
    \/ DoGetSucceeds \/ DoGetFails \/ BackoffTimer \/ BackoffCancelled
    \/ Verify \/ ExtractEntry \/ ExtractEnd
    \/ InstallScripts
    \/ \E p \in todo.capabilities : ScanCapabilities(p)
    \/ \E p \in todo.entropy : ScanEntropy(p)
    \/ ScansJoin \/ SinkScan \/ VersionDiff \/ PrevCapabilities \/ Finish

Done == pc = "done" /\ UNCHANGED downloadVars

DownloadNext == AnalysisStep \/ ClientGoes \/ AnalysisTimeout \/ DeepCheckTimeout \/ Done

DownloadSpec == DownloadInit /\ [][DownloadNext]_downloadVars

\* Each attempt ends, as http.Client has a Timeout, and the scans are loops over
\* finite maps; no deadline is needed to come to an end.
DownloadFairSpec == DownloadSpec /\ WF_downloadVars(AnalysisStep)

--------------------------------------------------------------------------------
\* Properties.

Entries == UNION {Range(t.entries) : t \in UNION {{c.tarball} \union
              {c.versions[v].tarball : v \in DOMAIN c.versions} : c \in Cases}}

DownloadTypeOK ==
    /\ pc \in {"request", "backoff", "verify", "unpack", "done"} \union AnalysisPhases
    /\ job \in Jobs
    /\ attempt \in 0..MaxRetries
    /\ \A j \in Jobs : /\ totalBytes[j] \in Nat
                       /\ Range(tree[j]) \subseteq Entries
    /\ Range(archive) \subseteq Entries
    /\ todo.capabilities \subseteq DOMAIN tree["current"]
    /\ todo.entropy \subseteq DOMAIN tree["current"]
    /\ caps \subseteq Capabilities
    /\ strings[1] \in Nat /\ strings[2] \in 0..strings[1]
    /\ ended \subseteq {"request", "analysis", "deep"}
    /\ outcome \in {"none", "upstream_down", "integrity_mismatch", "resource_limit",
                    "analysis_timeout", "analysed"}

\* What an unpacked tarball holds: of each path the last regular entry.
Published(tarball) ==
    LET regular == {i \in DOMAIN tarball.entries : tarball.entries[i].regular}
        path(i) == tarball.entries[i].path
    IN  [p \in {path(i) : i \in regular} |->
            tarball.entries[Max({i \in regular : path(i) = p})]]

\* The detectors only ever see whole tarballs.  A body cut at max_tarball_bytes,
\* or one read after failed attempts, never passes for a smaller package, even
\* where the metadata names no digest (client.go getBytes, tarball.go Extract).
TreeIsPublished ==
    /\ pc \in AnalysisPhases => tree["current"] = Published(case.tarball)
    /\ pc = "capabilities" => tree["previous"] = Published(PrevMeta.tarball)

SumOf(f, S) == MapThenSumSet(LAMBDA x : f[x], S)

\* Neither tarball, the current or the previous one, ever takes more memory than
\* the limits allow, at any point of the extraction (tarball.go Extract).
TreeWithinLimits ==
    \A j \in Jobs :
        LET size == [p \in DOMAIN tree[j] |-> tree[j][p].size] IN
        /\ Cardinality(DOMAIN tree[j]) <= MaxFiles
        /\ \A p \in DOMAIN tree[j] : ~Escapes(p) /\ size[p] <= MaxFileBytes
        /\ SumOf(size, DOMAIN tree[j]) <= MaxTotalBytes

DeepRules == {<<"version_diff_new_in_patch", c>> : c \in Capabilities}

\* The strings of all source files: k = 1 for all of them, k = 2 for the suspicious.
Counted(files, k) ==
    SumOf([p \in DOMAIN files |-> scanFileEntropy(files[p].content)[k]], SourceFiles(files))

\* The signals of a tarball, from the published files as a whole.
Expected(scripts) ==
    LET files  == Published(case.tarball)
        counts == <<Counted(files, 1), Counted(files, 2)>>
    IN  IF scripts \intersect VetoRules # {} THEN scripts
        ELSE UNION {scripts, CapabilityRules(CapabilitiesOf(files)), EntropyRules(counts),
                    SinkRules(files, Obfuscated(counts)),
                    IF Comparable THEN ScriptDiff \union DependencyDiff ELSE {}}

\* The order in which the maps yield their files, the early exit of the capability
\* scan and the two goroutines' interleaving do not show in the signals: they are
\* those of the whole package, with the scripts of one of its manifests, which one
\* being all that the map decides.  The verdict is cached under the digest, so it
\* must not hang on more than that (engine.go Analyze, capabilities.go, entropy.go, sinks.go).
AnalysisOrderFree ==
    outcome = "analysed" =>
        LET found == Manifests(Published(case.tarball)) IN
        result \ DeepRules \in
            IF found = {} THEN {Expected({})} ELSE {Expected(ScriptRules(m)) : m \in found}

\* The deep check accuses a patch release of a capability only if its tarball has
\* it and the whole previous tarball has not: a fetch that failed, was cut or hit
\* a limit accuses nobody (engine.go fetchPrevCapabilities, version_diff.go
\* CapabilityDiff).
DeepSignalsJustified ==
    \A c \in Capabilities : <<"version_diff_new_in_patch", c>> \in result =>
        /\ IsPatchBump(case.prev, case.version)
        /\ c \in CapabilitiesOf(Published(case.tarball))
        /\ c \notin CapabilitiesOf(Published(PrevMeta.tarball))

\* Every request for a tarball comes to an end although retries, the previous
\* version and its retries are on the way, without a deadline having to pass
\* (client.go getBytes, engine.go Analyze).
AnalysisEnds == <>(pc = "done")

\* The deep check has read the previous tarball to its end.
PreviousRead == job = "previous" /\ body # NoBody /\ archive = << >> /\ ~body.torn

\* README: version_diff_new_exec_in_patch is "the appearance of child_process in a
\* patch release".  Once both tarballs are read it must be reported
\* (engine.go Analyze, version_diff.go CapabilityDiff).
NewCapabilityFlagged ==
    outcome = "analysed" /\ PreviousRead =>
        ("exec" \in caps \ CapabilitiesOf(tree["previous"])
            => <<"version_diff_new_in_patch", "exec">> \in result)
=============================================================================
