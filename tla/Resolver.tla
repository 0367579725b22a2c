------------------------------ MODULE Resolver ------------------------------
(***************************************************************************)
(* From a Profile to a Lock: internal/profile (Normalize),                 *)
(* internal/profileresolver (Resolve) and internal/lockfile (Build,        *)
(* Validate, DeriveState).  Everything is computed from explicit           *)
(* snapshots, so these are operators; the module BaseInstall uses them.    *)
(*                                                                         *)
(* Versions are numbers.  A version written with a leading "v" and an      *)
(* installation without a readable version are left out.  Instants and     *)
(* identifiers derived from content are left out: a Lock is its content.   *)
(***************************************************************************)
EXTENDS Naturals, FiniteSets, Sequences

BaseOptions == {"build_tools", "terminal_configuration"}
FrontendOptions == {"corepack", "pnpm", "browser_testing"}
OptionsOf(id) == IF id = "base" THEN BaseOptions ELSE FrontendOptions

\* A module as a Profile writes it.  What is not written is "" or 0, and the
\* options are a partial function.
AcceptablePolicy(policy) ==
    IF policy.strategy = "exact" THEN policy.pin # 0
    ELSE policy.strategy \in {"", "lts", "stable"} /\ policy.pin = 0

Acceptable(module) ==
    /\ module.id \in {"base", "frontend_node"}
    /\ module.variant \in {"", "minimal", "standard"}
    /\ DOMAIN module.options \subseteq OptionsOf(module.id)
    /\ AcceptablePolicy(module.policy)
    /\ module.id = "base" => module.policy.strategy = ""

\* Normalize: one or two modules, none of them twice, with every default
\* written out.  The canonical order of the modules is left out.
AcceptableProfile(profile) ==
    /\ Len(profile) \in 1..2
    /\ \A i \in DOMAIN profile : Acceptable(profile[i])
    /\ \A i, j \in DOMAIN profile : i # j => profile[i].id # profile[j].id

NormalModule(module) ==
    LET standard == module.variant # "minimal" IN
    [id |-> module.id,
     standard |-> standard,
     policy |-> IF module.id = "frontend_node" /\ module.policy.strategy = ""
                THEN [strategy |-> "lts", pin |-> 0] ELSE module.policy,
     options |-> [o \in OptionsOf(module.id) |->
                    IF o \in DOMAIN module.options THEN module.options[o]
                    ELSE standard]]

Normalize(profile) == {NormalModule(profile[i]) : i \in DOMAIN profile}

-----------------------------------------------------------------------------
(* What a Profile asks for: the module of each capability and the option   *)
(* that adds it.                                                           *)

Capability(module, option) == [module |-> module, option |-> option]

Capabilities ==
    [c \in {"base.git", "base.ssh", "base.cmake", "base.terminal",
            "frontend.node", "frontend.npm", "frontend.corepack",
            "frontend.pnpm", "frontend.browser_testing"} |->
        CASE c \in {"base.git", "base.ssh"} -> Capability("base", "")
          [] c = "base.cmake" -> Capability("base", "build_tools")
          [] c = "base.terminal" -> Capability("base", "terminal_configuration")
          [] c = "frontend.corepack" -> Capability("frontend_node", "corepack")
          [] c = "frontend.pnpm" -> Capability("frontend_node", "pnpm")
          [] c = "frontend.browser_testing" ->
                Capability("frontend_node", "browser_testing")
          [] OTHER -> Capability("frontend_node", "")]

Desired(modules) ==
    {c \in DOMAIN Capabilities : \E m \in modules :
        /\ m.id = Capabilities[c].module
        /\ Capabilities[c].option # "" => m.options[Capabilities[c].option]}

\* The catalog entries for a capability on this target: Node.js follows the
\* policy of its module, everything else the stable channel.
Follows(entry, c, modules) ==
    IF c = "frontend.node"
    THEN \E m \in modules : /\ m.id = "frontend_node"
                            /\ IF m.policy.strategy = "exact"
                               THEN entry.version = m.policy.pin
                               ELSE entry.channel = m.policy.strategy
    ELSE entry.channel = "stable"

Candidates(c, modules, target, entries) ==
    {e \in entries : /\ e.capability = c
                     /\ target.architecture \in e.architectures
                     /\ Follows(e, c, modules)}

-----------------------------------------------------------------------------
(* One item of the Lock.                                                   *)

NoImplementation == [tool |-> "", manager |-> "", version |-> 0, source |-> 0]

Implementation(entry) ==
    [tool |-> entry.tool, manager |-> entry.manager,
     version |-> entry.version, source |-> entry.source]

Observed(installations, tool) ==
    {[manager |-> i.manager, version |-> i.version] :
        i \in {j \in installations : j.tool = tool}}

\* An installation of another architecture is observed but matches nothing.
\* One that matches outweighs any other observation.
MatchingInstallation(installations, impl, target) ==
    \E i \in installations :
        /\ i.tool = impl.tool /\ i.manager = impl.manager
        /\ i.version = impl.version
        /\ i.architecture \in {"unknown", target.architecture}

Unresolved(reason) ==
    [state |-> "unresolved", reason |-> reason, observed |-> {},
     implementation |-> NoImplementation]

ResolvedTo(impl, installations, target) ==
    LET seen == Observed(installations, impl.tool)
        state == CASE MatchingInstallation(installations, impl, target) -> "satisfied"
                   [] seen = {} -> "install_required"
                   [] OTHER -> "conflict"
    IN  [state |-> state,
         reason |-> CASE state = "satisfied" -> "compatible_installation"
                      [] state = "conflict" -> "conflicting_installation"
                      [] OTHER -> "installation_required",
         observed |-> seen, implementation |-> impl]

ResolveCapability(c, modules, target, entries, installations) ==
    LET found == Candidates(c, modules, target, entries) IN
    CASE target.os # "macos" -> Unresolved("unsupported_platform")
      [] target.os = "macos" /\ target.architecture \notin {"arm64", "amd64"} ->
            Unresolved("unsupported_architecture")
      [] OTHER ->
            IF c \in {"base.terminal", "frontend.browser_testing"}
            THEN Unresolved("unsupported_capability")
            ELSE IF Cardinality(found) # 1
            THEN Unresolved("version_source_unavailable")
            ELSE ResolvedTo(Implementation(CHOOSE e \in found : TRUE),
                            installations, target)

-----------------------------------------------------------------------------
(* Locks.                                                                  *)

ValidItem(item) ==
    LET impl == item.implementation
        same == [manager |-> impl.manager, version |-> impl.version] IN
    CASE item.state = "unresolved" -> impl = NoImplementation
      [] item.state = "satisfied" ->
            same \in item.observed /\ item.reason = "compatible_installation"
      [] item.state = "install_required" ->
            item.observed = {} /\ item.reason = "installation_required"
      [] OTHER ->
            item.observed # {} /\ item.reason = "conflicting_installation"

ValidLock(lock) ==
    /\ DOMAIN lock.items # {}
    /\ \A c \in DOMAIN lock.items :
        /\ ValidItem(lock.items[c])
        /\ lock.items[c].state # "unresolved" =>
                lock.items[c].implementation.source \in lock.sources

\* Resolve, for a Profile that is acceptable.
Resolve(profile, target, sources, entries, installations) ==
    LET modules == Normalize(profile) IN
    [profile |-> modules, target |-> target, sources |-> sources,
     items |-> [c \in Desired(modules) |->
                    ResolveCapability(c, modules, target, entries, installations)]]

Resolvable(profile, target, sources, entries, installations) ==
    /\ AcceptableProfile(profile)
    /\ \A e \in entries : e.capability \in DOMAIN Capabilities /\ e.source \in sources
    /\ ValidLock(Resolve(profile, target, sources, entries, installations))

\* DeriveState replaces the evidence of some items and nothing else of them.
WithEvidence(item, evidence) ==
    [item EXCEPT !.state = evidence.state, !.reason = evidence.reason,
                 !.observed = evidence.observed]

Updated(items, updates) ==
    [c \in DOMAIN items |->
        IF c \in DOMAIN updates THEN WithEvidence(items[c], updates[c]) ELSE items[c]]

DeriveState(lock, updates) == [lock EXCEPT !.items = Updated(lock.items, updates)]

Derivable(lock, updates) ==
    /\ DOMAIN updates # {} /\ DOMAIN updates \subseteq DOMAIN lock.items
    /\ DeriveState(lock, updates) # lock
    /\ ValidLock(DeriveState(lock, updates))
=============================================================================
