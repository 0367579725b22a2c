----------------------------- MODULE MC_Advice ------------------------------
(* An instance of Advice for TLC: three instants before the command and    *)
(* two while it runs.  A release appears, a line becomes LTS, a schedule   *)
(* is extended, and the listing has a prerelease and an unreadable entry.  *)
EXTENDS Advice

Release(version, lts) == [version |-> version, lts |-> lts]

V20 == SemVer(20, 9, 0, <<>>)
V22 == SemVer(22, 1, 0, <<>>)
V22rc1 == SemVer(22, 1, 0, <<Text(1), Numeric(1)>>)
V22rc2 == SemVer(22, 1, 0, <<Text(1), Numeric(2)>>)
V22rc == SemVer(22, 1, 0, <<Text(1)>>)
V23rc(suffix) == SemVer(23, 0, 0, <<Text(1)>> \o suffix)
V24 == SemVer(24, 0, 0, <<>>)

MCReleases == [t \in 0..4 |->
    CASE t = 0 -> <<Release(V20, TRUE), Release(V22rc2, FALSE), Release(V22rc, FALSE),
                    Release(V22rc1, FALSE), Release(None, TRUE)>>
      [] t \in 1..2 -> <<Release(V20, TRUE), Release(None, TRUE), Release(V22, FALSE),
                         Release(V22rc1, FALSE)>>
      [] t = 3 -> <<Release(V20, TRUE), Release(V22, TRUE), Release(V22rc2, TRUE),
                    Release(V23rc(<<Numeric(1)>>), FALSE), Release(V23rc(<<Numeric(2)>>), FALSE),
                    Release(V23rc(<<>>), FALSE)>>
      [] t = 4 -> <<Release(V24, FALSE), Release(V22, TRUE), Release(V20, TRUE)>>]

Line(start, lts, end) == [start |-> start, lts |-> lts, end |-> end]

\* The end of 20 is postponed at 1.
MCSchedule == [t \in 0..4 |->
    [major \in {20, 22, 24} |->
        CASE major = 20 -> Line(0, 0, IF t = 0 THEN 3 ELSE 4)
          [] major = 22 -> Line(1, 3, 9)
          [] major = 24 -> Line(4, None, 9)]]

MCJava == [t \in 0..4 |-> [feature |-> IF t < 3 THEN 24 ELSE 25, lts |-> 21]]

MCTemurin == [t \in 0..4 |->
    [major \in {17, 21, 24} |->
        CASE major = 17 -> [lts |-> TRUE, end |-> 4, atLeast |-> TRUE]
          [] major = 21 -> [lts |-> TRUE, end |-> 9, atLeast |-> TRUE]
          [] major = 24 -> [lts |-> FALSE, end |-> 4, atLeast |-> FALSE]]]

MCPublished ==
    [s \in Sources |-> CASE s = "node-releases" -> MCReleases
                         [] s = "node-schedule" -> MCSchedule
                         [] s = "java-releases" -> MCJava
                         [] s = "temurin-support" -> MCTemurin]

MCTtl == [s \in Sources |-> IF s \in {"node-releases", "java-releases"} THEN 1 ELSE 2]

Entry(at, claimed) == [kind |-> "entry", at |-> at, claimed |-> claimed]
Missing == [kind |-> "miss", at |-> 0, claimed |-> 0]

\* One source is cached: as it was, or by a clock that was far ahead.
MCCaches ==
    {[s \in Sources |-> IF s = cached THEN entry ELSE Missing] :
        cached \in Sources,
        entry \in {Missing} \cup {Entry(t, t) : t \in 0..3} \cup {Entry(t, 99) : t \in {0, 2}}}

Node(id, version, manager, active, default) ==
    [id |-> id, version |-> version, manager |-> manager, active |-> active, default |-> default]

Jdk(version, vendor, active) == [version |-> version, vendor |-> vendor, active |-> active]

Machine(node, java) == [node |-> node, java |-> java]

MCMachines ==
    {Machine({}, {}),
     Machine({Node(1, V20, "nvm", TRUE, TRUE), Node(2, V22, "nvm", FALSE, FALSE)},
             {Jdk(Java(<<17, 0, 14>>, FALSE, 7, TRUE), "temurin", TRUE)}),
     Machine({Node(1, V22rc2, "homebrew", TRUE, FALSE), Node(2, V20, "nvm", FALSE, TRUE)},
             {Jdk(Java(<<24, 0, 1>>, FALSE, None, FALSE), "temurin", TRUE),
              Jdk(Java(<<8, 0, 361>>, FALSE, None, FALSE), "oracle", FALSE)}),
     Machine({Node(1, V24, "nvm", FALSE, TRUE)},
             {Jdk(Java(<<24>>, FALSE, 36, FALSE), "zulu", TRUE)}),
     Machine({Node(1, None, "nvm", TRUE, TRUE)},
             {Jdk(Java(<<21, 0, 3>>, FALSE, None, FALSE), "temurin", TRUE)})}

Rule(channel, pin, ignore) == [channel |-> channel, pin |-> pin, ignore |-> ignore]

MCPolicies ==
    {[node |-> Rule("", None, FALSE), java |-> Rule("lts", None, FALSE)],
     [node |-> Rule("stable", None, FALSE), java |-> Rule("stable", None, TRUE)],
     [node |-> Rule("lts", None, TRUE), java |-> Rule("lts", Java(<<25>>, TRUE, 5, FALSE), FALSE)],
     [node |-> Rule("stable", V24, FALSE), java |-> Rule("", None, FALSE)],
     [node |-> Rule("lts", SemVer(23, 5, 0, <<>>), FALSE), java |-> Rule("stable", None, FALSE)]}
=============================================================================
