------------------------------ MODULE Versions ------------------------------
(***************************************************************************)
(* Versions and their comparison: internal/version (semver.go, java.go,    *)
(* model.go).  A version is what the parser makes of a text: None if it    *)
(* cannot be compared, else a record.  An identifier of a SemVer           *)
(* prerelease is a number, or a text that stands for its rank among the    *)
(* texts.  Build metadata and vendor tags take no part in a comparison;    *)
(* that a Java version has such a suffix decides what its text looks like. *)
(***************************************************************************)
EXTENDS Integers, Sequences, FiniteSetsExt

CONSTANT None    \* a version that cannot be compared

Numeric(n) == [numeric |-> TRUE, value |-> n]
Text(rank) == [numeric |-> FALSE, value |-> rank]

SemVer(major, minor, patch, prerelease) ==
    [core |-> <<major, minor, patch>>, prerelease |-> prerelease]

SemVers == [core : [1..3 -> Nat],
            prerelease : Seq([numeric : BOOLEAN, value : Nat])]

ASSUME NoneAssumption == None \notin SemVers

\* The components, whether it is an early-access build, the number of the
\* build or None, and whether a vendor tag follows.
Java(components, early, build, tagged) ==
    [components |-> components, early |-> early, build |-> build, tagged |-> tagged]

-----------------------------------------------------------------------------

CompareNumeric(l, r) == IF l < r THEN "less" ELSE IF l > r THEN "greater" ELSE "equal"

\* The first relation that decides.
Decisive(relations) ==
    LET deciding == {i \in DOMAIN relations : relations[i] # "equal"} IN
    IF deciding = {} THEN "equal" ELSE relations[Min(deciding)]

CompareIdentifiers(l, r) ==
    CASE l.numeric = r.numeric -> CompareNumeric(l.value, r.value)
      [] l.numeric /\ ~r.numeric -> "less"
      [] ~l.numeric /\ r.numeric -> "greater"

\* Without a prerelease a version is the greater one; a longer prerelease is.
ComparePrerelease(l, r) ==
    CASE l = <<>> /\ r = <<>> -> "equal"
      [] l = <<>> /\ r # <<>> -> "greater"
      [] l # <<>> /\ r = <<>> -> "less"
      [] OTHER -> Decisive([i \in 1..Min({Len(l), Len(r)}) |-> CompareIdentifiers(l[i], r[i])]
                           \o <<CompareNumeric(Len(l), Len(r))>>)

CompareSemVer(l, r) ==
    IF None \in {l, r} THEN "unknown"
    ELSE Decisive([i \in 1..3 |-> CompareNumeric(l.core[i], r.core[i])]
                  \o <<ComparePrerelease(l.prerelease, r.prerelease)>>)

\* Missing components are zeros; only the builds of early-access versions
\* are compared, and only if both are known.
Component(version, i) ==
    IF i \in DOMAIN version.components THEN version.components[i] ELSE 0

CompareJava(l, r) ==
    IF None \in {l, r} THEN "unknown"
    ELSE LET length == Max({Len(l.components), Len(r.components)})
             numbers == [i \in 1..length |-> CompareNumeric(Component(l, i), Component(r, i))]
             early == CASE l.early = r.early -> "equal"
                        [] l.early /\ ~r.early -> "less"
                        [] ~l.early /\ r.early -> "greater"
             builds == IF l.early /\ r.early /\ None \notin {l.build, r.build}
                       THEN CompareNumeric(l.build, r.build) ELSE "equal"
         IN  Decisive(numbers \o <<early, builds>>)

-----------------------------------------------------------------------------
(* The major line, as the assessment reads it from the normalized text     *)
(* (evaluate.go): up to the first dot, and 0 if that is not a number.      *)

SemVerMajor(version) == IF version = None THEN 0 ELSE version.core[1]

HasSuffix(version) == version.early \/ version.build # None \/ version.tagged

JavaMajor(version) ==
    IF version = None \/ (Len(version.components) = 1 /\ HasSuffix(version)) THEN 0
    ELSE version.components[1]

-----------------------------------------------------------------------------
(* The order SemVer 2.0.0 defines, stated on keys: identifiers and their   *)
(* end as pairs, compared lexicographically.  It models no code.           *)

Key(version) ==
    [i \in 1..3 |-> <<1, version.core[i]>>]
    \o (IF version.prerelease = <<>> THEN <<<<3, 0>>>>
        ELSE [i \in DOMAIN version.prerelease |->
                <<IF version.prerelease[i].numeric THEN 1 ELSE 2,
                  version.prerelease[i].value>>] \o <<<<0, 0>>>>)

Precedes(l, r) ==
    LET k == Key(l)
        m == Key(r) IN
    \E i \in DOMAIN k \cap DOMAIN m :
        /\ \A j \in 1..(i - 1) : k[j] = m[j]
        /\ \/ k[i][1] < m[i][1]
           \/ k[i][1] = m[i][1] /\ k[i][2] < m[i][2]
=============================================================================
