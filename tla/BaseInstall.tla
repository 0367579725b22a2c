---------------------------- MODULE BaseInstall ----------------------------
(***************************************************************************)
(* Installing the Base formulae with Homebrew: the Base Plan               *)
(* (internal/plan, base.go), the Transaction Review                        *)
(* (internal/baseinstall), the operation (internal/baseapply, with its     *)
(* adapter internal/adapter/homebrewinstall) and the final Lock            *)
(* (baseapply, outcome.go; lockfile, derive.go).                           *)
(*                                                                         *)
(* Every call takes explicit snapshots of the machine.  A snapshot is one  *)
(* scan here; other programs act between the scan and its use, and between *)
(* any two steps of the operation.  The executor is the one of the module  *)
(* Executor, without its log: that a save fails, a timeout and a           *)
(* cancellation are modelled there.  Instants are left out, but for the    *)
(* order of a scan and of the call it is passed to.                        *)
(***************************************************************************)
EXTENDS Resolver

CONSTANTS None,           \* no snapshot, Lock, Plan, Review or record
          Catalogs,       \* what Homebrew publishes, one catalog after the other
          Machines,       \* the systems the program is started on
          Homebrews,      \* the states of the Homebrew installation
          Profiles,       \* the Profiles that are resolved
          MaxEvents       \* bound on the operations and what other programs do

ASSUME BoundAssumption == MaxEvents \in Nat
\* The formulae that can be asked for, in the order of the Plan's actions, and
\* the capability that each of them is.
Roots == <<"cmake", "git">>
RootSet == {"cmake", "git"}
BaseCapability == [f \in RootSet |-> IF f = "git" THEN "base.git" ELSE "base.cmake"]

Formulae == DOMAIN Catalogs[1]
Versions == UNION {{Catalogs[i][f].version : f \in Formulae} : i \in DOMAIN Catalogs}

ASSUME CatalogsAssumption ==
    /\ Len(Catalogs) \in Nat \ {0} /\ DOMAIN Catalogs = 1..Len(Catalogs)
    /\ \A i \in DOMAIN Catalogs : DOMAIN Catalogs[i] = Formulae
    /\ RootSet \subseteq Formulae

\* A snapshot of an action is not the absence of one.
ASSUME NoneAssumption == \A S \in SUBSET Formulae : None \notin [S -> SUBSET Versions]

VARIABLES
    target,      \* operating system and architecture
    kegs,        \* formula -> its installed versions
    homebrew,    \* identity and configuration of Homebrew
    published,   \* the last catalog that was published
    scan,        \* the last snapshot of the machine, or None
    lock,        \* the Lock, or None
    plan,        \* the candidate Plan, or None
    prepared,    \* candidate and Review, which the final Plan binds, or None
    confirmed,   \* whether the user confirmed this Review and final Plan
    record,      \* the Operation Record, or None
    phase,       \* what the executor does next, or "idle"
    final,       \* the outcome: final Lock, its Plan and its scan, or None
    blame,       \* who interfered with the operation
    events       \* operations and disturbances so far

machine == <<target, kegs, homebrew, published>>
review == <<scan, lock, plan, prepared, confirmed>>
operation == <<record, phase>>
vars == <<machine, review, operation, final, blame, events>>

-----------------------------------------------------------------------------
(* Homebrew's configuration: four layers, each of which may set the        *)
(* controls; the last one that does is in effect.                          *)

Effective(layers) ==
    LET written == {i \in 1..4 : layers[i] # "unset"} IN
    IF written = {} THEN "unset"
    ELSE layers[CHOOSE i \in written : \A j \in written : j <= i]

ConfigurationIsSafe(brew) == Effective(brew.layers) = "safe"

-----------------------------------------------------------------------------
(* Catalogs.                                                               *)

BottleTag(system) == system.architecture

\* A variation for the bottle replaces the dependencies.
Dependencies(catalog, f, tag) ==
    IF tag \in DOMAIN catalog[f].variations THEN catalog[f].variations[tag]
    ELSE catalog[f].dependencies

DependenciesOf(catalog, set, tag) == UNION {Dependencies(catalog, f, tag) : f \in set}

\* The least set that holds the root and what its members depend on, as far as
\* the catalog has it.
Closure(catalog, root, tag) ==
    {f \in Formulae : \A set \in SUBSET Formulae :
        /\ root \in set
        /\ DependenciesOf(catalog, set, tag) \cap Formulae \subseteq set
        => f \in set}

\* No formula of the closure is disabled, none is missing, and none depends
\* on itself.
Supported(catalog, root, tag) ==
    \A f \in Closure(catalog, root, tag) :
        /\ ~catalog[f].disabled
        /\ Dependencies(catalog, f, tag) \subseteq Formulae
        /\ \A d \in Dependencies(catalog, f, tag) : f \notin Closure(catalog, d, tag)

\* What the resolver is given for a catalog of Homebrew: its two formulae,
\* and two lines of Node.js.
Entry(capability, channel, tool, manager, version, source) ==
    [capability |-> capability, channel |-> channel, tool |-> tool,
     manager |-> manager, version |-> version, source |-> source,
     architectures |-> {"arm64", "amd64"}]

Entries(i) ==
    {Entry(BaseCapability[f], "stable", f, "homebrew", Catalogs[i][f].version, i) : f \in RootSet}
    \cup {Entry("frontend.node", "lts", "node", "nvm", 22, 0),
          Entry("frontend.node", "stable", "node", "nvm", 24, 0)}

Installations(seen) ==
    UNION {{[tool |-> f, manager |-> "homebrew", version |-> v,
             architecture |-> seen.target.architecture] : v \in seen.kegs[f]} : f \in Formulae}

-----------------------------------------------------------------------------
(* The Base Plan: what the Lock says is missing, and nothing else.         *)

BaseItems(l) == {f \in RootSet : BaseCapability[f] \in DOMAIN l.items}
ItemOf(l, f) == l.items[BaseCapability[f]]

BaseActions(l) == {f \in BaseItems(l) : ItemOf(l, f).state = "install_required"}

\* Conflicts and unresolved formulae stop the Plan, other items do not.
Plannable(l) ==
    /\ l.target.os = "macos" /\ "git" \in BaseItems(l)
    /\ \A f \in BaseItems(l) : ItemOf(l, f).state \in {"satisfied", "install_required"}
    /\ BaseActions(l) # {}

HasOneHomebrew(seen) == seen.homebrew.active = 1

\* All actions install from one source.
PlanFor(l, seen) ==
    [lock |-> l, actions |-> BaseActions(l), homebrew |-> seen.homebrew.identity,
     source |-> ItemOf(l, CHOOSE f \in BaseActions(l) : TRUE).implementation.source]

-----------------------------------------------------------------------------
(* The Transaction Review.                                                 *)

\* Fault: what is installed is never one of the published versions.
InventoryStatusOrConflict(installed, f, version) ==
    IF installed[f] = {} THEN "absent" ELSE "conflict"

\* formulaInventoryStatus: one exact version is enough.
InventoryStatus(installed, f, version) ==
    CASE version \in installed[f] -> "exact"
      [] installed[f] = {} -> "absent"
      [] OTHER -> "conflict"

PreviewState(seen, catalog, f) ==
    IF InventoryStatus(seen.kegs, f, catalog[f].version) = "exact"
    THEN "satisfied" ELSE "install_required"

Preview(seen, catalog, root) ==
    [f \in Closure(catalog, root, BottleTag(seen.target)) |->
        [version |-> catalog[f].version,
         state |-> IF f = root THEN "install_required" ELSE PreviewState(seen, catalog, f)]]

Collectable(p, seen) ==
    LET catalog == Catalogs[p.source] IN
    /\ seen.target = p.lock.target
    /\ HasOneHomebrew(seen) /\ seen.homebrew.identity = p.homebrew
    /\ ConfigurationIsSafe(seen.homebrew)
    /\ \A root \in p.actions :
        /\ Supported(catalog, root, BottleTag(seen.target))
        /\ catalog[root].version = ItemOf(p.lock, root).implementation.version
        /\ \A f \in Closure(catalog, root, BottleTag(seen.target)) :
             InventoryStatus(seen.kegs, f, catalog[f].version)
                \in (IF f = root THEN {"absent"} ELSE {"absent", "exact"})

Previews(p, seen) == [root \in p.actions |-> Preview(seen, Catalogs[p.source], root)]

\* The same formula is described alike by every action.
Consistent(previews) ==
    \A r, s \in DOMAIN previews : \A f \in DOMAIN previews[r] \cap DOMAIN previews[s] :
        previews[r][f] = previews[s][f]

ReviewOf(p, seen) == [previews |-> Previews(p, seen), homebrew |-> seen.homebrew]

Reviewable(p, seen) == Collectable(p, seen) /\ Consistent(Previews(p, seen))

-----------------------------------------------------------------------------
(* The adapter: it reads the kegs, and demands exactly one of each.        *)

\* Fault: one exact version is enough for the adapter too.
StatusOfAnyKeg(installed, f, version) ==
    CASE version \in installed[f] -> "exact"
      [] installed[f] = {} -> "absent"
      [] OTHER -> "conflict"

Status(installed, f, version) ==
    CASE installed[f] = {} -> "absent"
      [] installed[f] = {version} -> "exact"
      [] OTHER -> "conflict"

\* Fault: the preflight demands what the Review saw.
PreflightSeesTheReview(preview, root, installed) ==
    \A f \in DOMAIN preview :
        Status(installed, f, preview[f].version) =
            (IF preview[f].state = "satisfied" THEN "exact" ELSE "absent")

\* A dependency that an earlier action installed may be there by now.
PreflightPasses(preview, root, installed) ==
    \A f \in DOMAIN preview :
        LET status == Status(installed, f, preview[f].version) IN
        /\ status # "conflict"
        /\ f # root /\ preview[f].state = "satisfied" => status = "exact"

ClosureIsExact(preview, installed) ==
    \A f \in DOMAIN preview : Status(installed, f, preview[f].version) = "exact"

\* The facts of a snapshot: the versions of every formula of the closure.
FactsOf(preview, installed) == [f \in DOMAIN preview |-> installed[f]]

-----------------------------------------------------------------------------
(* Preparing.                                                              *)

Init ==
    /\ target \in Machines
    /\ kegs = [f \in Formulae |-> {}] /\ homebrew \in Homebrews /\ published = 1
    /\ scan = None /\ lock = None /\ plan = None /\ prepared = None /\ confirmed = FALSE
    /\ record = None /\ phase = "idle" /\ final = None /\ blame = {}
    /\ events = 0

Seen == [target |-> target, kegs |-> kegs, homebrew |-> homebrew]

\* A snapshot that is taken while an operation runs is of no use: Execute
\* refuses one older than the call, Finalize one older than the record's end.
Scan ==
    /\ phase = "idle"
    /\ events < MaxEvents \/ record # None
    /\ scan' = Seen
    /\ scan' # scan
    /\ UNCHANGED <<machine, lock, plan, prepared, confirmed, operation, final, blame, events>>

\* The caller resolves a Profile against the newest catalog.
ResolveProfile(profile) ==
    /\ phase = "idle" /\ scan # None /\ events < MaxEvents
    /\ Resolvable(profile, scan.target, {0, published}, Entries(published), Installations(scan))
    /\ lock' = Resolve(profile, scan.target, {0, published}, Entries(published),
                       Installations(scan))
    /\ plan' = None /\ prepared' = None /\ confirmed' = FALSE /\ record' = None /\ final' = None
    /\ UNCHANGED <<machine, scan, phase, blame, events>>

\* The scan that the Plan was built from is too old for its Review.
BuildBaseInstall ==
    /\ phase = "idle" /\ plan = None /\ lock # None /\ scan # None
    /\ Plannable(lock) /\ scan.target = lock.target /\ HasOneHomebrew(scan)
    /\ plan' = PlanFor(lock, scan)
    /\ scan' = None
    /\ UNCHANGED <<machine, lock, prepared, confirmed, operation, final, blame, events>>

\* CollectTransactionFacts, PrepareTransactionReview and Prepare.  The user
\* confirms one Review and the final Plan that binds it: a new one needs a new
\* confirmation.
PrepareReview ==
    /\ phase = "idle" /\ plan # None /\ scan # None
    /\ Reviewable(plan, scan)
    /\ prepared' = [plan |-> plan, review |-> ReviewOf(plan, scan)]
    /\ confirmed' = FALSE /\ record' = None /\ final' = None
    /\ scan' = None
    /\ UNCHANGED <<machine, lock, plan, phase, blame, events>>

Confirm ==
    /\ phase = "idle" /\ prepared # None
    /\ ~confirmed
    /\ confirmed' = TRUE
    /\ UNCHANGED <<machine, scan, lock, plan, prepared, operation, final, blame, events>>

-----------------------------------------------------------------------------
(* The operation.                                                          *)

NewStep == [skipped |-> FALSE, before |-> None, after |-> None]

\* Execute collects the facts again, from a fresh scan, and compares them.
StartExecute ==
    /\ phase = "idle" /\ prepared # None /\ scan # None /\ events < MaxEvents
    /\ confirmed
    /\ Reviewable(prepared.plan, scan)
    /\ ReviewOf(prepared.plan, scan) = prepared.review
    /\ record' = [state |-> "running", current |-> 1, exit |-> 0,
                  steps |-> [r \in prepared.plan.actions |-> NewStep]]
    /\ phase' = "preflight"
    /\ scan' = None /\ final' = None
    /\ blame' = (IF scan.kegs # kegs THEN {"other"} ELSE {}) \cup
                (IF \E f \in Formulae : \E v, w \in kegs[f] : v # w THEN {"kegs"} ELSE {})
    /\ events' = events + 1
    /\ UNCHANGED <<machine, lock, plan, prepared, confirmed>>

Queue ==
    CASE prepared.plan.actions = {"cmake"} -> <<"cmake">>
      [] prepared.plan.actions = {"git"} -> <<"git">>
      [] OTHER -> Roots
Root == Queue[record.current]
CurrentPreview == prepared.review.previews[Root]

InOperation == UNCHANGED <<machine, review, final, blame, events>>

Fails ==
    /\ record' = [record EXCEPT !.state = "failed"]
    /\ phase' = "idle"

Preflight ==
    /\ phase = "preflight"
    /\ IF PreflightPasses(CurrentPreview, Root, kegs)
       THEN phase' = "capture" /\ UNCHANGED record
       ELSE Fails
    /\ InOperation

Capture ==
    /\ phase = "capture"
    /\ record' = [record EXCEPT !.steps[Root].before = FactsOf(CurrentPreview, kegs)]
    /\ phase' = "check"
    /\ InOperation

\* The idempotency check; a write that is not needed counts as exit code 0.
Check ==
    /\ phase = "check"
    /\ LET satisfied == ClosureIsExact(CurrentPreview, kegs) IN
       /\ record' = [record EXCEPT !.steps[Root].skipped = satisfied, !.exit = 0]
       /\ phase' = IF satisfied THEN "after" ELSE "install"
    /\ InOperation

\* brew install: it installs what is missing of the closure in its own
\* index, dependencies first, upgrades nothing, and may stop anywhere.
Installable(index, added) ==
    LET tag == BottleTag(target)
        present == {f \in Formulae : kegs[f] # {}} IN
    /\ added \subseteq Closure(Catalogs[index], Root, tag) \ present
    /\ DependenciesOf(Catalogs[index], added, tag) \subseteq added \cup present

BrewInstalls ==
    /\ phase = "install"
    /\ \E index \in 1..published, added \in SUBSET Formulae, code \in {0, 1} :
        /\ Installable(index, added)
        /\ code = 0 => Closure(Catalogs[index], Root, BottleTag(target))
                          \subseteq added \cup {f \in Formulae : kegs[f] # {}}
        /\ kegs' = [f \in Formulae |->
                      IF f \in added THEN {Catalogs[index][f].version} ELSE kegs[f]]
        /\ record' = [record EXCEPT !.exit = code]
        /\ blame' = blame \cup (IF code # 0 THEN {"process"} ELSE {})
                          \cup (IF index # prepared.plan.source THEN {"index"} ELSE {})
    /\ phase' = "after"
    /\ UNCHANGED <<target, homebrew, published, review, final, events>>

\* The after snapshot is taken of a failed write too.
CaptureAfter ==
    /\ phase = "after"
    /\ LET captured == [record EXCEPT !.steps[Root].after = FactsOf(CurrentPreview, kegs)] IN
       IF record.exit = 0
       THEN record' = captured /\ phase' = "verify"
       ELSE record' = [captured EXCEPT !.state = "failed"] /\ phase' = "idle"
    /\ InOperation

\* Fault: the loop over the actions runs once too often.
VerifyPastTheEnd ==
    /\ phase = "verify"
    /\ IF ~ClosureIsExact(CurrentPreview, kegs) THEN Fails
       ELSE IF record.current <= Len(Queue)
       THEN record' = [record EXCEPT !.current = @ + 1] /\ phase' = "preflight"
       ELSE record' = [record EXCEPT !.state = "completed"] /\ phase' = "idle"
    /\ InOperation

Verify ==
    /\ phase = "verify"
    /\ IF ~ClosureIsExact(CurrentPreview, kegs) THEN Fails
       ELSE IF record.current < Len(Queue)
       THEN record' = [record EXCEPT !.current = @ + 1] /\ phase' = "preflight"
       ELSE record' = [record EXCEPT !.state = "completed"] /\ phase' = "idle"
    /\ InOperation

\* One of the two "brew list" probes fails.  Behind a failed write it is
\* ignored, and the after snapshot is missing.
ProbeFails ==
    /\ phase \in {"preflight", "capture", "check", "after", "verify"}
    /\ Fails
    /\ blame' = blame \cup {"probe"}
    /\ UNCHANGED <<machine, review, final, events>>

\* The record stays active until the next run reviews it as interrupted.
Crash ==
    /\ phase # "idle"
    /\ record' = [record EXCEPT !.state = "interrupted"]
    /\ phase' = "idle"
    /\ InOperation

-----------------------------------------------------------------------------
(* The final Lock.                                                         *)

\* Fault: the before snapshot is compared with the Review's state.
BeforeIsAsReviewed(preview, facts) ==
    \A f \in DOMAIN preview :
        facts[f] = (IF preview[f].state = "satisfied" THEN {preview[f].version} ELSE {})

BeforeIsReviewed(preview, facts) ==
    \A f \in DOMAIN preview :
        \/ facts[f] = {preview[f].version}
        \/ preview[f].state = "install_required" /\ facts[f] = {}

AfterIsExact(preview, facts) == \A f \in DOMAIN preview : facts[f] = {preview[f].version}

StepIsReviewed(step, preview) ==
    /\ step.before # None /\ step.after # None
    /\ BeforeIsReviewed(preview, step.before)
    /\ AfterIsExact(preview, step.after)

HomebrewIsTheSame(seen) == HasOneHomebrew(seen) /\ seen.homebrew.identity = prepared.plan.homebrew

StateUpdates ==
    [c \in {BaseCapability[r] : r \in prepared.plan.actions} |->
        [state |-> "satisfied", reason |-> "compatible_installation",
         observed |-> {[manager |-> "homebrew",
                        version |-> prepared.plan.lock.items[c].implementation.version]}]]

Finalizable(seen) ==
    /\ record.state = "completed"
    /\ seen.target = prepared.plan.lock.target
    /\ HomebrewIsTheSame(seen)
    /\ \A r \in prepared.plan.actions :
        LET preview == prepared.review.previews[r] IN
        /\ ClosureIsExact(preview, seen.kegs)
        /\ StepIsReviewed(record.steps[r], preview)
    /\ Derivable(prepared.plan.lock, StateUpdates)

Finalize ==
    /\ phase = "idle" /\ record # None /\ scan # None /\ final = None
    /\ Finalizable(scan)
    /\ final' = [lock |-> DeriveState(prepared.plan.lock, StateUpdates), scan |-> scan,
                 actions |-> prepared.plan.actions]
    /\ scan' = None
    /\ UNCHANGED <<machine, lock, plan, prepared, confirmed, operation, blame, events>>

-----------------------------------------------------------------------------
(* Other programs.                                                         *)

Disturb(installed, brew, catalog) ==
    /\ events < MaxEvents
    /\ events' = events + 1
    /\ kegs' = installed /\ homebrew' = brew /\ published' = catalog
    /\ blame' = IF installed # kegs THEN blame \cup {"other"} ELSE blame
    /\ UNCHANGED <<target, review, operation, final>>

OtherInstalls(f, v) ==
    v \notin kegs[f] /\ Disturb([kegs EXCEPT ![f] = @ \cup {v}], homebrew, published)

OtherRemoves(f) == kegs[f] # {} /\ Disturb([kegs EXCEPT ![f] = {}], homebrew, published)

HomebrewChanges(brew) == brew # homebrew /\ Disturb(kegs, brew, published)

Publish == published < Len(Catalogs) /\ Disturb(kegs, homebrew, published + 1)

Next ==
    \/ Scan
    \/ \E profile \in Profiles : ResolveProfile(profile)
    \/ BuildBaseInstall
    \/ PrepareReview
    \/ Confirm
    \/ StartExecute
    \/ Preflight
    \/ Capture
    \/ Check
    \/ BrewInstalls
    \/ CaptureAfter
    \/ Verify
    \/ ProbeFails
    \/ Crash
    \/ Finalize
    \/ \E f \in Formulae, v \in Versions : OtherInstalls(f, v)
    \/ \E f \in Formulae : OtherRemoves(f)
    \/ \E brew \in Homebrews : HomebrewChanges(brew)
    \/ Publish

Spec == Init /\ [][Next]_vars

-----------------------------------------------------------------------------
(* Properties.                                                             *)

ItemStates == {"satisfied", "install_required", "conflict", "unresolved"}

\* Every variable keeps its type.
TypeOK ==
    /\ target \in Machines /\ homebrew \in Homebrews /\ published \in DOMAIN Catalogs
    /\ kegs \in [Formulae -> SUBSET Versions]
    /\ lock # None => \A c \in DOMAIN lock.items : lock.items[c].state \in ItemStates
    /\ plan # None => plan.actions # {} /\ plan.actions \subseteq RootSet
    /\ prepared # None => DOMAIN prepared.review.previews = prepared.plan.actions
    /\ phase \in {"idle", "preflight", "capture", "check", "install", "after", "verify"}
    /\ record # None => /\ prepared # None
                        /\ record.state \in {"running", "failed", "interrupted", "completed"}
                        /\ phase = "idle" <=> record.state # "running"
                        /\ record.current \in DOMAIN Queue
    /\ blame \subseteq {"probe", "process", "index", "other", "kegs"}
    /\ confirmed \in BOOLEAN /\ events \in 0..MaxEvents

\* What resolving a snapshot again says of the items of a Lock.
Refreshed(l, seen) ==
    LET newest == CHOOSE i \in l.sources : \A j \in l.sources : j <= i IN
    [c \in DOMAIN l.items |->
        ResolveCapability(c, l.profile, seen.target, Entries(newest), Installations(seen))]

\* The final Lock says of every formula that was installed what resolving the
\* scan behind it again says, and a second Plan would have nothing to do.
FinalLockIsTrue ==
    final # None =>
        /\ BaseActions(final.lock) = {}
        /\ \A r \in final.actions :
              ItemOf(final.lock, r) = Refreshed(final.lock, final.scan)[BaseCapability[r]]

HasBase(profile) == \E i \in DOMAIN profile : profile[i].id = "base"

\* Whatever an operation left behind, a new Lock, Plan and Review can go on
\* from there: as long as each formula is absent or at its published version
\* and Homebrew is safe, nothing is missing or the Review is accepted and the
\* first action passes its preflight.
PartialInstallCanGoOn ==
    LET catalog == Catalogs[published]
        usable ==
            /\ target.os = "macos" /\ HasOneHomebrew(Seen) /\ ConfigurationIsSafe(homebrew)
            /\ \A r \in RootSet : Supported(catalog, r, BottleTag(target))
            /\ \A f \in Formulae : kegs[f] \in {{}, {catalog[f].version}}
        Goes(profile) ==
            LET l == Resolve(profile, target, {0, published}, Entries(published),
                             Installations(Seen))
                p == PlanFor(l, Seen)
            IN  BaseActions(l) # {} =>
                    /\ Plannable(l) /\ Reviewable(p, Seen)
                    /\ \A r \in p.actions : PreflightPasses(Previews(p, Seen)[r], r, kegs)
    IN  usable => \A profile \in {q \in Profiles : AcceptableProfile(q) /\ HasBase(q)} :
                      Goes(profile)

\* An operation that no other program disturbed fails only with a process: a
\* dependency that an earlier action installed is no drift for a later one.
UndisturbedOperationCompletes ==
    record # None /\ record.state = "failed" => blame # {}

\* A completed operation that nobody disturbed can be turned into a final
\* Lock, whatever it found already installed and skipped.
CompletedOperationCanBeFinalized ==
    /\ record # None /\ record.state = "completed" /\ "other" \notin blame
    /\ HomebrewIsTheSame(Seen)
    => Finalizable(Seen)

\* Another version on the target architecture stops the Review as a conflict
\* (D-059, docs/PROJECT_DECISIONS.md), so none is prepared over one.
OtherVersionsStopTheReview ==
    [][PrepareReview =>
        \A r \in plan.actions :
            LET preview == prepared'.review.previews[r] IN
            \A f \in DOMAIN preview : scan.kegs[f] \subseteq {preview[f].version}]_vars
=============================================================================
