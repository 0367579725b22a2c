------------------------------- MODULE Advice -------------------------------
(***************************************************************************)
(* Advice on updates: reading the official version data                    *)
(* (internal/versiondata), judging the machine by it (internal/assessment) *)
(* and what may become a Plan (internal/plan, Build).                      *)
(*                                                                         *)
(* Four goroutines read one source each, from a cache or from the network, *)
(* while time passes and the sources change; then the report is made.      *)
(* Instants are numbers.  What a source publishes at which instant is a    *)
(* constant.  The cache is only read; the client takes one as a parameter, *)
(* and the report passes none.  Findings are pairs of a runtime and a      *)
(* code.  The findings that projects and build tools add are left out.     *)
(***************************************************************************)
EXTENDS Versions

CONSTANTS Published,    \* source -> instant -> document
          Ttl,          \* source -> how long a document is fresh
          Start,        \* the instant the command is called
          MaxTime,      \* bound on the time
          Caches,       \* the caches: source -> entry
          Machines,     \* the installations that were scanned
          Policies      \* the policies

Sources == {"node-releases", "node-schedule", "java-releases", "temurin-support"}

ASSUME TimeAssumption == Start \in Nat /\ MaxTime \in Nat /\ Start <= MaxTime
ASSUME SourcesAssumption ==
    /\ DOMAIN Published = Sources /\ Ttl \in [Sources -> Nat \ {0}]
    /\ \A s \in Sources : DOMAIN Published[s] = 0..MaxTime

\* Lines are positive numbers and end; the clock of a cache's writer was right,
\* behind, or far ahead.
ASSUME LinesAssumption ==
    \A t \in 0..MaxTime :
       /\ \A m \in DOMAIN Published["node-schedule"][t] :
             /\ Published["node-schedule"][t][m].start \in Nat
             /\ Published["node-schedule"][t][m].end \in Nat
       /\ 0 \notin DOMAIN Published["temurin-support"][t]
       /\ \A m \in DOMAIN Published["temurin-support"][t] :
             Published["temurin-support"][t][m].end \in Nat
ASSUME CachesAssumption ==
    \A c \in Caches : \A s \in Sources :
       c[s].kind = "entry" =>
          /\ c[s].at \in 0..Start /\ c[s].claimed \in Nat
          /\ c[s].claimed <= c[s].at \/ c[s].claimed > MaxTime

\* Only a comparable version has a record, in the index as in a scan or a pin.
Readable == SemVers \cup {None}
ASSUME ReleasesAssumption ==
    \A t \in 0..MaxTime : Published["node-releases"][t] \in
        Seq([version : Readable, lts : BOOLEAN])
ASSUME VersionsAssumption ==
    /\ \A m \in Machines : \A i \in m.node : i.version \in Readable
    /\ \A p \in Policies : p.node.pin \in Readable

VARIABLES
    now,      \* the clock
    cache,    \* the cache
    reads,    \* source -> what its goroutine has read so far, or None
    advice    \* the report and what can be planned from it, or None

vars == <<now, cache, reads, advice>>

Init ==
    /\ now = Start /\ cache \in Caches
    /\ reads = [s \in Sources |-> None]
    /\ advice = None

Tick ==
    /\ now < MaxTime
    /\ now' = now + 1
    /\ UNCHANGED <<cache, reads, advice>>

-----------------------------------------------------------------------------
(* Reading.  An entry holds what was published at an instant, and the      *)
(* instant its writer claims.  A cache that is missing, unreadable or      *)
(* corrupt is one without an entry: only the reported issues differ.      *)
(* A read that is done has a freshness and the instant of its document.    *)

\* Fault: an entry of the future is fresh.
IsFreshBefore(s, entry) == now < entry.claimed + Ttl[s]

IsFresh(s, entry) == entry.claimed <= now /\ now < entry.claimed + Ttl[s]

Done(started, freshness, at) ==
    [state |-> "done", started |-> started, freshness |-> freshness, at |-> at]

ReadCache(s) ==
    /\ reads[s] = None
    /\ reads' = [reads EXCEPT ![s] =
         IF cache[s].kind = "entry" /\ IsFresh(s, cache[s])
         THEN Done(now, "fresh", cache[s].at)
         ELSE [state |-> "fetching", started |-> now]]
    /\ UNCHANGED <<now, cache, advice>>

\* The answer is what was published when the server sent it.
Fetch(s) ==
    /\ reads[s] # None /\ reads[s].state = "fetching"
    /\ \E at \in reads[s].started..now :
         reads' = [reads EXCEPT ![s] = Done(@.started, "fresh", at)]
    /\ UNCHANGED <<now, cache, advice>>

\* No answer, a timeout or an answer that is not valid.
FetchFails(s) ==
    /\ reads[s] # None /\ reads[s].state = "fetching"
    /\ reads' = [reads EXCEPT ![s] =
         IF cache[s].kind = "entry" THEN Done(@.started, "stale", cache[s].at)
         ELSE Done(@.started, "unavailable", 0)]
    /\ UNCHANGED <<now, cache, advice>>

-----------------------------------------------------------------------------
(* What the documents say.                                                 *)

Fresh(s) == reads[s].freshness = "fresh"
Document(s) == Published[s][reads[s].at]

IsOfChannel(release, channel) == channel = "stable" \/ release.lts

\* The loop over the release index: the greatest comparable version of the
\* channel, the first of equals.
Better(release, best, channel) ==
    /\ release.version # None /\ IsOfChannel(release, channel)
    /\ best = None \/ CompareSemVer(release.version, best) = "greater"

LatestNode(channel) ==
    LET releases == Document("node-releases")
        best[n \in 0..Len(releases)] ==
           IF n = 0 THEN None
           ELSE IF Better(releases[n], best[n - 1], channel) THEN releases[n].version
           ELSE best[n - 1]
    IN  best[Len(releases)]

\* The state of a line of Node.js at an instant.
NodeState(line, t) ==
    CASE t >= line.end -> "eol"
      [] t < line.end /\ t < line.start -> "unknown"
      [] t < line.end /\ t >= line.start ->
            IF line.lts # None /\ t >= line.lts THEN "lts" ELSE "stable"

\* Fault: an end that is only a lower bound is an end.
TemurinStateAtTheLatest(line, t) ==
    IF t >= line.end THEN "eol" ELSE IF line.lts THEN "lts" ELSE "stable"

\* "At least" some month: after it nothing is known.
TemurinState(line, t) ==
    CASE t >= line.end -> IF line.atLeast THEN "unknown" ELSE "eol"
      [] t < line.end -> IF line.lts THEN "lts" ELSE "stable"

NodeLifecycle(major) ==
    IF Fresh("node-schedule") /\ major \in DOMAIN Document("node-schedule")
    THEN NodeState(Document("node-schedule")[major], now) ELSE "unknown"

LifecycleForVendor(major, vendor) ==
    IF /\ vendor = "temurin" /\ Fresh("temurin-support")
       /\ major \in DOMAIN Document("temurin-support")
    THEN TemurinState(Document("temurin-support")[major], now) ELSE "unknown"

HasFreshRelease(version) ==
    /\ Fresh("node-releases")
    /\ \E i \in DOMAIN Document("node-releases") :
          Document("node-releases")[i].version = version

-----------------------------------------------------------------------------
(* The targets: a pin, or what a fresh source says of the channel.         *)

Channel(rule) == IF rule.channel = "" THEN "lts" ELSE rule.channel

NodeTarget(rule) ==
    IF rule.pin # None THEN rule.pin
    ELSE IF Fresh("node-releases") THEN LatestNode(Channel(rule)) ELSE None

FeatureLine(document, channel) ==
    IF channel = "stable" THEN document.feature ELSE document.lts

JavaTarget(rule) ==
    IF rule.pin # None THEN rule.pin
    ELSE IF Fresh("java-releases")
    THEN Java(<<FeatureLine(Document("java-releases"), Channel(rule))>>, FALSE, None, FALSE)
    ELSE None

-----------------------------------------------------------------------------
(* The assessment.                                                         *)

Effective(installations) == {i \in installations : i.active}
HasEffective(installations) == Cardinality(Effective(installations)) = 1
EffectiveOne(installations) == CHOOSE i \in Effective(installations) : TRUE

Verdict(relation, ignore) ==
    CASE relation = "less" -> IF ignore THEN "UPDATE_IGNORED" ELSE "UPDATE_AVAILABLE"
      [] relation = "equal" -> "VERSION_RECOMMENDED"
      [] relation = "greater" -> "CHANNEL_MISMATCH"
      [] OTHER -> "VERSION_UNKNOWN"

Recommendation(target, relation, rule) ==
    IF target = None THEN "RECOMMENDATION_UNKNOWN" ELSE Verdict(relation, rule.ignore)

EndOfLife(state) == IF state = "eol" THEN {"VERSION_EOL"} ELSE {}

NodeAssessment(installations, rule) ==
    IF installations = {} THEN {}
    ELSE IF ~HasEffective(installations) THEN {"VERSION_UNKNOWN"}
    ELSE LET current == EffectiveOne(installations).version
             target == NodeTarget(rule)
         IN  EndOfLife(NodeLifecycle(SemVerMajor(current)))
             \cup {Recommendation(target, CompareSemVer(current, target), rule)}

JavaAssessment(installations, rule) ==
    IF installations = {} THEN {}
    ELSE IF ~HasEffective(installations) THEN {"VERSION_UNKNOWN"}
    ELSE LET current == EffectiveOne(installations)
             target == JavaTarget(rule)
         IN  EndOfLife(LifecycleForVendor(JavaMajor(current.version), current.vendor))
             \cup {Recommendation(target, CompareJava(current.version, target), rule)}

\* Several managers; no effective version, or one that is not the default.
ConflictAssessment(installations) ==
    LET defaults == {i \in installations : i.default} IN
    (IF Cardinality({i.manager : i \in installations}) > 1
     THEN {"MULTIPLE_SOURCES_CONFLICT"} ELSE {})
    \cup
    (IF installations # {} /\ (\/ ~HasEffective(installations)
                               \/ Cardinality(defaults) > 1
                               \/ defaults # {} /\ defaults # Effective(installations))
     THEN {"DEFAULT_VERSION_CONFLICT"} ELSE {})

Findings(machine, policy) ==
    {<<"node", code>> : code \in NodeAssessment(machine.node, policy.node)
                                 \cup ConflictAssessment(machine.node)}
    \cup {<<"java", code>> : code \in JavaAssessment(machine.java, policy.java)}

\* Fault: an update that is ignored stays a candidate.
CandidateIgnoredOrNot(installations, rule) ==
    IF /\ HasEffective(installations)
       /\ CompareSemVer(EffectiveOne(installations).version, NodeTarget(rule)) = "less"
    THEN NodeTarget(rule) ELSE None

\* The version that may be installed.
NodeUpdateCandidate(installations, rule) ==
    IF /\ ~rule.ignore /\ HasEffective(installations)
       /\ CompareSemVer(EffectiveOne(installations).version, NodeTarget(rule)) = "less"
    THEN NodeTarget(rule) ELSE None

\* Fault: a pin is taken at its word.
BuildUnverified(installations, rule) == NodeUpdateCandidate(installations, rule)

\* What Build makes a Plan for; an explicit pin has to be in the index.
Build(installations, rule) ==
    LET candidate == NodeUpdateCandidate(installations, rule) IN
    IF rule.pin = None \/ HasFreshRelease(candidate) THEN candidate ELSE None

\* The join: lifecycles are judged by the clock of now.
Evaluate ==
    /\ advice = None
    /\ \A s \in Sources : reads[s] # None /\ reads[s].state = "done"
    /\ \E machine \in Machines, policy \in Policies :
         advice' = [machine |-> machine, policy |-> policy, at |-> now,
                    findings |-> Findings(machine, policy),
                    candidate |-> NodeUpdateCandidate(machine.node, policy.node),
                    planned |-> Build(machine.node, policy.node)]
    /\ UNCHANGED <<now, cache, reads>>

Next ==
    \/ Tick
    \/ \E s \in Sources : ReadCache(s) \/ Fetch(s) \/ FetchFails(s)
    \/ Evaluate

Spec == Init /\ [][Next]_vars

-----------------------------------------------------------------------------
(* Properties.                                                             *)

Codes(runtime) == {f[2] : f \in {g \in advice.findings : g[1] = runtime}}

\* The instants whose documents count as fresh for a report.
Recent(s) == {t \in 0..advice.at : t > reads[s].started - Ttl[s]}

\* The greatest of the versions of a channel, by SemVer's own definition.
IsNewest(version, releases, channel) ==
    LET listed == {releases[i].version :
                     i \in {j \in DOMAIN releases : /\ releases[j].version # None
                                                    /\ IsOfChannel(releases[j], channel)}} IN
    version \in listed /\ \A v \in listed : ~Precedes(version, v)

\* An update of Node.js goes to what was the newest version of its channel a
\* short while ago, in whatever order the index lists the releases and whatever
\* entries that are dated rightly, too early or far ahead the cache held, and
\* never back (D-022: only fresh official data or a
\* pin gives a definite comparison).
CandidateIsTheNewest ==
    advice # None /\ advice.candidate # None =>
        LET rule == advice.policy.node IN
        /\ Precedes(EffectiveOne(advice.machine.node).version, advice.candidate)
        /\ rule.pin = None =>
              \E t \in Recent("node-releases") :
                 IsNewest(advice.candidate, Published["node-releases"][t], Channel(rule))

\* No Plan installs a version that the official index did not list a short
\* while ago, a pin included.
PlannedVersionIsPublished ==
    advice # None /\ advice.planned # None =>
        \E t \in Recent("node-releases") :
           \E i \in DOMAIN Published["node-releases"][t] :
              Published["node-releases"][t][i].version = advice.planned

\* A line is called end-of-life only if a recent schedule says that it had
\* ended when the report was made, a lower bound never being an end, and
\* always when all recent schedules say so and one was read, whatever the
\* policy ignores (D-022: ignore_updates hides no end of life).
EndOfLifeIsCertain ==
    advice # None =>
        LET Ended(s, major, t) ==
                /\ major \in DOMAIN Published[s][t]
                /\ Published[s][t][major].end <= advice.at
            Flagged(runtime) == "VERSION_EOL" \in Codes(runtime)
            node == EffectiveOne(advice.machine.node)
            java == EffectiveOne(advice.machine.java)
        IN  /\ Flagged("node") =>
                 \E t \in Recent("node-schedule") :
                    Ended("node-schedule", SemVerMajor(node.version), t)
            /\ Flagged("java") =>
                 /\ java.vendor = "temurin"
                 /\ \E t \in Recent("temurin-support") :
                       LET major == java.version.components[1] IN
                       /\ Ended("temurin-support", major, t)
                       /\ ~Published["temurin-support"][t][major].atLeast
            /\ HasEffective(advice.machine.node) /\ reads["node-schedule"].freshness = "fresh" =>
                 ((\A t \in Recent("node-schedule") :
                      Ended("node-schedule", SemVerMajor(node.version), t)) => Flagged("node"))

Verdicts == {"UPDATE_IGNORED", "UPDATE_AVAILABLE", "VERSION_RECOMMENDED", "CHANNEL_MISMATCH",
             "VERSION_UNKNOWN", "RECOMMENDATION_UNKNOWN"}

\* The report and the candidate come from two walks over the same facts, and
\* agree: one verdict for every runtime, an available update exactly when
\* there is a candidate, and an unclear selection is a conflict as well.
VerdictsAgree ==
    advice # None =>
        /\ \A runtime \in {"node", "java"} :
              Cardinality(Codes(runtime) \cap Verdicts) =
                 (IF advice.machine[runtime] = {} THEN 0 ELSE 1)
        /\ advice.candidate # None <=> "UPDATE_AVAILABLE" \in Codes("node")
        /\ "VERSION_UNKNOWN" \in Codes("node") =>
              \/ "DEFAULT_VERSION_CONFLICT" \in Codes("node")
              \/ EffectiveOne(advice.machine.node).version = None

\* A mismatch says "The effective Java feature line is newer than the selected
\* channel target" (evaluate.go).
NewerLineIsNewer ==
    advice # None /\ advice.policy.java.pin = None /\ "CHANNEL_MISMATCH" \in Codes("java") =>
        \E t \in Recent("java-releases") :
            EffectiveOne(advice.machine.java).version.components[1] >
                FeatureLine(Published["java-releases"][t], Channel(advice.policy.java))
=============================================================================
