------------------------- MODULE BaseInstall_proofs -------------------------
(***************************************************************************)
(* The safety of the Base installation for every sequence of catalogs,     *)
(* every system, Homebrew and Profile, and any number of operations and    *)
(* disturbances.  The inductive invariant follows a formula from the       *)
(* catalog that a Lock was resolved from, over the Plan and its Review, to *)
(* the snapshots of the record and to what is installed.                   *)
(***************************************************************************)
EXTENDS BaseInstall, FiniteSetTheorems, TLAPS

Snapshots ==
    [target : {target}, kegs : [Formulae -> SUBSET Versions], homebrew : Homebrews]

-----------------------------------------------------------------------------
(* The inductive invariant: what is prepared.                              *)

MachineInv ==
    /\ target \in Machines /\ homebrew \in Homebrews /\ published \in DOMAIN Catalogs
    /\ kegs \in [Formulae -> SUBSET Versions]
    /\ phase \in {"idle", "preflight", "capture", "check", "install", "after", "verify"}
    /\ blame \subseteq {"probe", "process", "index", "other", "kegs"}
    /\ confirmed \in BOOLEAN /\ events \in 0..MaxEvents

ScanInv == scan # None => scan \in Snapshots

\* What the catalog i offers for a formula, and the systems it is offered on.
Offer(f, i) == [tool |-> f, manager |-> "homebrew", version |-> Catalogs[i][f].version,
                source |-> i]
Offered(system) == system.os = "macos" /\ system.architecture \in {"arm64", "amd64"}

IsItem(item) ==
    /\ item = [state |-> item.state, reason |-> item.reason,
               observed |-> item.observed, implementation |-> item.implementation]
    /\ item.state \in ItemStates

\* A Lock that was resolved from the catalog i for this machine.
LockFrom(l, i) ==
    /\ l = [profile |-> l.profile, target |-> target, sources |-> {0, i}, items |-> l.items]
    /\ l.items = [c \in DOMAIN l.items |-> l.items[c]] /\ ValidLock(l)
    /\ \A c \in DOMAIN l.items : IsItem(l.items[c])
    /\ \A f \in BaseItems(l) :
         ItemOf(l, f).state # "unresolved" =>
             Offered(target) /\ ItemOf(l, f).implementation = Offer(f, i)

LockInv == lock # None => \E i \in DOMAIN Catalogs : LockFrom(lock, i)

GoodPlan(p) ==
    /\ p.source \in DOMAIN Catalogs /\ LockFrom(p.lock, p.source)
    /\ Plannable(p.lock) /\ p.actions = BaseActions(p.lock)

PlanInv == plan # None => GoodPlan(plan)

\* What a Review says of the formulae of each action.
Reviewed(p, previews) ==
    \A r \in p.actions :
        /\ DOMAIN previews[r] = Closure(Catalogs[p.source], r, BottleTag(target))
        /\ previews[r][r].state = "install_required"
        /\ \A f \in DOMAIN previews[r] :
             /\ previews[r][f].version = Catalogs[p.source][f].version
             /\ previews[r][f].state \in {"satisfied", "install_required"}

PreparedInv ==
    prepared # None =>
        /\ GoodPlan(prepared.plan)
        /\ DOMAIN prepared.review.previews = prepared.plan.actions
        /\ Reviewed(prepared.plan, prepared.review.previews)

-----------------------------------------------------------------------------
(* The inductive invariant: the operation.                                 *)

Operated == record # None \/ phase # "idle"

Facts == {None} \cup UNION {[S -> SUBSET Versions] : S \in SUBSET Formulae}
Steps == [skipped : BOOLEAN, before : Facts, after : Facts]
IsRecord(rec, queue, actions) ==
    rec \in [state : {"running", "failed", "interrupted", "completed"},
             current : DOMAIN queue, exit : {0, 1}, steps : [actions -> Steps]]

RecordInv ==
    Operated =>
        /\ prepared # None
        /\ IsRecord(record, Queue, prepared.plan.actions)
        /\ phase = "idle" <=> record.state # "running"

\* The work of an action is done and photographed.
Worked(step, preview, installed) ==
    ClosureIsExact(preview, installed) /\ StepIsReviewed(step, preview)

\* What a record and the statement of the executor say of what is installed.
Work(queue, previews, rec, ph, installed) ==
    LET root == queue[rec.current] IN
    /\ \A k \in DOMAIN queue :
         k < rec.current \/ rec.state = "completed" =>
             Worked(rec.steps[queue[k]], previews[queue[k]], installed)
    /\ ph = "capture" => PreflightPasses(previews[root], root, installed)
    /\ ph \in {"check", "install", "after", "verify"} =>
         /\ rec.steps[root].before # None
         /\ BeforeIsReviewed(previews[root], rec.steps[root].before)
    /\ ph = "verify" => rec.steps[root].after = FactsOf(previews[root], installed)

\* As long as no other program interferes, what has been read is still so.
WorkInv ==
    "other" \notin blame /\ Operated =>
        Work(Queue, prepared.review.previews, record, phase, kegs)

\* The formulae of a Review are as it says, or installed by now.
AsReviewed(preview, r, installed) ==
    \A f \in DOMAIN preview :
        /\ installed[f] \in {{}, {preview[f].version}}
        /\ f # r /\ preview[f].state = "satisfied" => installed[f] = {preview[f].version}

\* When nothing at all goes wrong, each step leads to the next one.
Clean(queue, previews, rec, ph, installed) ==
    /\ \A k \in DOMAIN queue : AsReviewed(previews[queue[k]], queue[k], installed)
    /\ ph \in {"after", "verify"} =>
         /\ rec.exit = 0
         /\ ClosureIsExact(previews[queue[rec.current]], installed)

CleanInv ==
    blame = {} /\ phase # "idle" =>
        Clean(Queue, prepared.review.previews, record, phase, kegs)

IInv ==
    /\ MachineInv /\ ScanInv /\ LockInv /\ PlanInv /\ PreparedInv
    /\ RecordInv /\ WorkInv /\ CleanInv
    /\ UndisturbedOperationCompletes /\ FinalLockIsTrue

-----------------------------------------------------------------------------
(* Formulae, versions and the queue.                                       *)

\* What the constants are.
LEMMA Basics ==
    /\ BaseCapability["git"] = "base.git" /\ BaseCapability["cmake"] = "base.cmake"
    /\ RootSet \subseteq Formulae /\ RootSet = {"git", "cmake"}
    /\ \A f, g \in RootSet : BaseCapability[f] = BaseCapability[g] => f = g
    /\ \A i \in DOMAIN Catalogs : /\ i \in Nat \ {0} /\ DOMAIN Catalogs[i] = Formulae
                                  /\ \A f \in Formulae : Catalogs[i][f].version \in Versions
    /\ 1 \in DOMAIN Catalogs
<1>1. BaseCapability["git"] = "base.git" /\ BaseCapability["cmake"] = "base.cmake"
  BY DEF BaseCapability, RootSet
<1>2. DOMAIN Catalogs \subseteq Nat \ {0} /\ 1 \in DOMAIN Catalogs
  BY CatalogsAssumption
<1>3. \A i \in DOMAIN Catalogs, f \in Formulae : Catalogs[i][f].version \in Versions
  BY DEF Versions
<1>4. QED
  BY <1>1, <1>2, <1>3, CatalogsAssumption DEF RootSet

\* What the adapter's comparison means.
LEMMA StatusMeans ==
    ASSUME NEW installed, NEW f, NEW version
    PROVE  /\ Status(installed, f, version) = "exact" <=> installed[f] = {version}
           /\ Status(installed, f, version) = "conflict" <=>
                installed[f] \notin {{}, {version}}
BY DEF Status

\* A closure holds its root, and only formulae.
LEMMA ClosureHolds ==
    ASSUME NEW catalog, NEW root \in Formulae, NEW tag
    PROVE  /\ root \in Closure(catalog, root, tag)
           /\ Closure(catalog, root, tag) \subseteq Formulae
BY DEF Closure

\* The queue lists the actions of the Plan.
LEMMA QueueLists ==
    ASSUME prepared.plan.actions \subseteq RootSet, prepared.plan.actions # {}
    PROVE  /\ Len(Queue) \in 1..2 /\ DOMAIN Queue = 1..Len(Queue)
           /\ \A k \in DOMAIN Queue : Queue[k] \in prepared.plan.actions
           /\ \A r \in prepared.plan.actions : \E k \in DOMAIN Queue : Queue[k] = r
<1> DEFINE A == prepared.plan.actions
<1>1. CASE A = {"cmake"}
  <2>1. Queue = <<"cmake">>
    BY <1>1 DEF Queue
  <2>2. Len(Queue) = 1 /\ DOMAIN Queue = 1..1 /\ Queue[1] = "cmake"
    BY <2>1
  <2>3. QED
    BY <1>1, <2>2
<1>2. CASE A = {"git"}
  <2>1. Queue = <<"git">>
    BY <1>2 DEF Queue
  <2>2. Len(Queue) = 1 /\ DOMAIN Queue = 1..1 /\ Queue[1] = "git"
    BY <2>1
  <2>3. QED
    BY <1>2, <2>2
<1>3. CASE A = {"cmake", "git"}
  <2>1. Queue = <<"cmake", "git">>
    BY <1>3 DEF Queue, Roots
  <2>2. Len(Queue) = 2 /\ DOMAIN Queue = 1..2 /\ Queue[1] = "cmake" /\ Queue[2] = "git"
    BY <2>1
  <2>3. QED
    BY <1>3, <2>2
<1>4. QED
  BY <1>1, <1>2, <1>3 DEF RootSet

-----------------------------------------------------------------------------
(* What the resolver says of a formula.                                    *)

\* The catalog has one entry for a formula.
LEMMA OneCandidate ==
    ASSUME NEW i \in DOMAIN Catalogs, NEW f \in RootSet, NEW modules, NEW system,
           system.architecture \in {"arm64", "amd64"}
    PROVE  Candidates(BaseCapability[f], modules, system, Entries(i)) =
             {Entry(BaseCapability[f], "stable", f, "homebrew", Catalogs[i][f].version, i)}
<1> DEFINE c == BaseCapability[f]
           E == Entry(c, "stable", f, "homebrew", Catalogs[i][f].version, i)
<1>1. c # "frontend.node" /\ c = IF f = "git" THEN "base.git" ELSE "base.cmake"
  BY Basics
<1>2. /\ E.capability = c /\ E.channel = "stable"
      /\ E.architectures = {"arm64", "amd64"}
  BY DEF Entry
<1>3. E \in Entries(i)
  BY DEF Entries
<1>4. E \in Candidates(c, modules, system, Entries(i))
  BY <1>1, <1>2, <1>3 DEF Candidates, Follows
<1>5. ASSUME NEW e \in Candidates(c, modules, system, Entries(i)) PROVE e = E
  <2>1. e \in Entries(i) /\ e.capability = c
    BY DEF Candidates
  <2>2. \/ \E g \in RootSet : e = Entry(BaseCapability[g], "stable", g, "homebrew",
                                        Catalogs[i][g].version, i)
        \/ e.capability = "frontend.node"
    BY <2>1 DEF Entries, Entry
  <2>3. PICK g \in RootSet : e = Entry(BaseCapability[g], "stable", g, "homebrew",
                                       Catalogs[i][g].version, i)
    BY <1>1, <2>1, <2>2
  <2>4. BaseCapability[g] = c
    BY <2>1, <2>3 DEF Entry
  <2>5. g = f
    BY <2>4, Basics
  <2>6. QED
    BY <2>3, <2>5
<1>6. QED
  BY <1>4, <1>5

\* So the resolver compares what is installed with what the catalog offers.
LEMMA FormulaResolves ==
    ASSUME NEW i \in DOMAIN Catalogs, NEW f \in RootSet, NEW modules, NEW system,
           NEW installations
    PROVE  LET item == ResolveCapability(BaseCapability[f], modules, system, Entries(i),
                                         installations)
           IN  item = IF Offered(system) THEN ResolvedTo(Offer(f, i), installations, system)
                      ELSE Unresolved(item.reason)
<1> DEFINE c == BaseCapability[f]
           found == Candidates(c, modules, system, Entries(i))
           item == ResolveCapability(c, modules, system, Entries(i), installations)
<1>1. CASE ~Offered(system)
  <2>1. \/ item = Unresolved("unsupported_platform")
        \/ item = Unresolved("unsupported_architecture")
    BY <1>1 DEF ResolveCapability, Offered
  <2>2. QED
    BY <1>1, <2>1 DEF Unresolved
<1>2. CASE Offered(system)
  <2> DEFINE E == Entry(c, "stable", f, "homebrew", Catalogs[i][f].version, i)
  <2>1. found = {E}
    BY <1>2, OneCandidate DEF Offered
  <2>2. Cardinality(found) = 1 /\ (CHOOSE e \in found : TRUE) = E
    BY <2>1, FS_Singleton
  <2>3. Implementation(E) = Offer(f, i)
    BY DEF Implementation, Entry, Offer
  <2>4. c \notin {"base.terminal", "frontend.browser_testing"}
    BY Basics
  <2> HIDE DEF found, E, c
  <2>5. item = ResolvedTo(Implementation(E), installations, system)
    BY <1>2, <2>2, <2>4 DEF ResolveCapability, Offered, found
  <2>6. QED
    BY <1>2, <2>3, <2>5 DEF c
<1>3. QED
  BY <1>1, <1>2

\* What a scan shows of a formula.
LEMMA ObservedFormula ==
    ASSUME NEW seen, seen.kegs \in [Formulae -> SUBSET Versions], NEW f \in Formulae
    PROVE  Observed(Installations(seen), f) =
             {[manager |-> "homebrew", version |-> v] : v \in seen.kegs[f]}
<1> DEFINE I == Installations(seen)
           Keg(g, v) == [tool |-> g, manager |-> "homebrew", version |-> v,
                         architecture |-> seen.target.architecture]
           O == {[manager |-> "homebrew", version |-> v] : v \in seen.kegs[f]}
<1>1. \A i : i \in I <=> \E g \in Formulae : \E v \in seen.kegs[g] : i = Keg(g, v)
  BY DEF Installations
<1> HIDE DEF I
<1>2. \A g, v : /\ Keg(g, v).tool = g /\ Keg(g, v).manager = "homebrew"
                /\ Keg(g, v).version = v
  OBVIOUS
<1> HIDE DEF Keg
<1>3. ASSUME NEW o \in Observed(I, f) PROVE o \in O
  <2>1. PICK i \in I : i.tool = f /\ o = [manager |-> i.manager, version |-> i.version]
    BY DEF Observed
  <2>2. PICK g, v : g \in Formulae /\ v \in seen.kegs[g] /\ i = Keg(g, v)
    BY <1>1, <2>1
  <2>3. g = f /\ i.manager = "homebrew" /\ i.version = v
    BY <1>2, <2>1, <2>2
  <2>4. QED
    BY <2>1, <2>2, <2>3
<1>4. ASSUME NEW v \in seen.kegs[f]
      PROVE  [manager |-> "homebrew", version |-> v] \in Observed(I, f)
  <2>1. Keg(f, v) \in {j \in I : j.tool = f}
    BY <1>1, <1>2
  <2>2. [manager |-> "homebrew", version |-> v] =
          [manager |-> Keg(f, v).manager, version |-> Keg(f, v).version]
    BY <1>2
  <2>3. QED
    BY <2>1, <2>2 DEF Observed
<1>5. QED
  BY <1>3, <1>4 DEF I

\* An installation on this machine matches what is offered if it has its version.
LEMMA MatchingFormula ==
    ASSUME NEW seen, seen.kegs \in [Formulae -> SUBSET Versions], NEW f \in Formulae, NEW i
    PROVE  MatchingInstallation(Installations(seen), Offer(f, i), seen.target) <=>
             Catalogs[i][f].version \in seen.kegs[f]
<1> DEFINE I == Installations(seen)
           Keg(g, v) == [tool |-> g, manager |-> "homebrew", version |-> v,
                         architecture |-> seen.target.architecture]
<1>1. \A x : x \in I <=> \E g \in Formulae : \E v \in seen.kegs[g] : x = Keg(g, v)
  BY DEF Installations
<1> HIDE DEF I
<1>2. \A g, v : /\ Keg(g, v).tool = g /\ Keg(g, v).manager = "homebrew"
                /\ Keg(g, v).version = v
                /\ Keg(g, v).architecture = seen.target.architecture
  OBVIOUS
<1> HIDE DEF Keg
<1>3. /\ Offer(f, i).tool = f /\ Offer(f, i).manager = "homebrew"
      /\ Offer(f, i).version = Catalogs[i][f].version
  BY DEF Offer
<1>4. MatchingInstallation(I, Offer(f, i), seen.target) =>
        Catalogs[i][f].version \in seen.kegs[f]
  <2> SUFFICES ASSUME NEW x \in I, x.tool = f, x.version = Catalogs[i][f].version
               PROVE  Catalogs[i][f].version \in seen.kegs[f]
    BY <1>3 DEF MatchingInstallation
  <2>1. PICK g, v : g \in Formulae /\ v \in seen.kegs[g] /\ x = Keg(g, v)
    BY <1>1
  <2>2. g = f /\ v = Catalogs[i][f].version
    BY <1>2, <2>1
  <2>3. QED
    BY <2>1, <2>2
<1>5. Catalogs[i][f].version \in seen.kegs[f] =>
        MatchingInstallation(I, Offer(f, i), seen.target)
  <2> SUFFICES ASSUME Catalogs[i][f].version \in seen.kegs[f]
               PROVE  MatchingInstallation(I, Offer(f, i), seen.target)
    OBVIOUS
  <2> DEFINE x == Keg(f, Catalogs[i][f].version)
  <2>1. x \in I
    BY <1>1
  <2>2. /\ x.tool = f /\ x.manager = "homebrew" /\ x.version = Catalogs[i][f].version
        /\ x.architecture = seen.target.architecture
    BY <1>2
  <2> HIDE DEF x
  <2>3. QED
    BY <1>3, <2>1, <2>2 DEF MatchingInstallation
<1>6. QED
  BY <1>4, <1>5 DEF I

\* A resolved item is an item, and is satisfied, required or in conflict.
LEMMA ResolvedItem ==
    ASSUME NEW impl, NEW installations, NEW system
    PROVE  LET item == ResolvedTo(impl, installations, system)
           IN  /\ IsItem(item) /\ item.implementation = impl
               /\ item.state \in {"satisfied", "install_required", "conflict"}
               /\ item.observed = Observed(installations, impl.tool)
               /\ item.state = "satisfied" <=>
                    MatchingInstallation(installations, impl, system)
               /\ item.state = "install_required" =>
                    Observed(installations, impl.tool) = {}
               /\ item.state = "conflict" =>
                    Observed(installations, impl.tool) # {}
               /\ item.state = "satisfied" => item.reason = "compatible_installation"
<1> DEFINE seen == Observed(installations, impl.tool)
           matching == MatchingInstallation(installations, impl, system)
           state == CASE matching -> "satisfied"
                      [] seen = {} -> "install_required"
                      [] OTHER -> "conflict"
           reason == CASE state = "satisfied" -> "compatible_installation"
                       [] state = "conflict" -> "conflicting_installation"
                       [] OTHER -> "installation_required"
           item == ResolvedTo(impl, installations, system)
<1>1. item = [state |-> state, reason |-> reason, observed |-> seen,
              implementation |-> impl]
  BY DEF ResolvedTo
<1>2. matching => seen # {}
  BY DEF MatchingInstallation, Observed
<1> HIDE DEF seen, matching, item
<1>3. /\ state \in {"satisfied", "install_required", "conflict"}
      /\ state = "satisfied" <=> matching
      /\ state = "install_required" => seen = {}
      /\ state = "conflict" => seen # {}
      /\ state = "satisfied" => reason = "compatible_installation"
  BY <1>2
<1> HIDE DEF state, reason
<1>4. /\ item.state = state /\ item.reason = reason /\ item.observed = seen
      /\ item.implementation = impl
      /\ item = [state |-> item.state, reason |-> item.reason,
                 observed |-> item.observed, implementation |-> item.implementation]
  BY <1>1
<1>5. IsItem(item)
  BY <1>3, <1>4 DEF IsItem, ItemStates
<1>6. QED
  BY <1>3, <1>4, <1>5 DEF item, seen, matching

\* Everything the resolver says of a capability is an item.
LEMMA EveryItem ==
    ASSUME NEW c, NEW modules, NEW system, NEW entries, NEW installations
    PROVE  IsItem(ResolveCapability(c, modules, system, entries, installations))
<1> DEFINE found == Candidates(c, modules, system, entries)
           impl == Implementation(CHOOSE e \in found : TRUE)
           item == ResolveCapability(c, modules, system, entries, installations)
<1>1. \A reason : IsItem(Unresolved(reason))
  BY DEF IsItem, Unresolved, ItemStates
<1>2. IsItem(ResolvedTo(impl, installations, system))
  BY ResolvedItem
<1>3. \/ item = Unresolved("unsupported_platform")
      \/ item = Unresolved("unsupported_architecture")
      \/ item = Unresolved("unsupported_capability")
      \/ item = Unresolved("version_source_unavailable")
      \/ item = ResolvedTo(impl, installations, system)
  BY DEF ResolveCapability
<1> HIDE DEF impl, item
<1>4. QED
  BY <1>1, <1>2, <1>3 DEF item

\* Resolving a Profile gives a Lock from the catalog.
LEMMA ResolveGives ==
    ASSUME NEW i \in DOMAIN Catalogs, NEW profile, NEW installations,
           LET l == Resolve(profile, target, {0, i}, Entries(i), installations)
           IN  ValidLock(l)
    PROVE  LockFrom(Resolve(profile, target, {0, i}, Entries(i), installations), i)
<1> DEFINE modules == Normalize(profile)
           l == Resolve(profile, target, {0, i}, Entries(i), installations)
           Item(c) == ResolveCapability(c, modules, target, Entries(i), installations)
           items == [c \in Desired(modules) |-> Item(c)]
<1>1. l = [profile |-> modules, target |-> target, sources |-> {0, i}, items |-> items]
  BY DEF Resolve
<1>2. \A c \in Desired(modules) : items[c] = Item(c) /\ IsItem(items[c])
  BY EveryItem
<1>3. DOMAIN items = Desired(modules) /\ items = [c \in DOMAIN items |-> items[c]]
  OBVIOUS
<1> HIDE DEF items, Item
<1>4. /\ l.profile = modules /\ l.items = items
      /\ l = [profile |-> l.profile, target |-> target, sources |-> {0, i}, items |-> l.items]
  BY <1>1
<1>5. ValidLock(l)
  OBVIOUS
<1> HIDE DEF l
<1>6. ASSUME NEW f \in BaseItems(l), ItemOf(l, f).state # "unresolved"
      PROVE  Offered(target) /\ ItemOf(l, f).implementation = Offer(f, i)
  <2>1. f \in RootSet /\ BaseCapability[f] \in Desired(modules)
    BY <1>3, <1>4 DEF BaseItems
  <2>2. ItemOf(l, f) = ResolveCapability(BaseCapability[f], modules, target, Entries(i),
                                         installations)
    BY <1>2, <1>4, <2>1 DEF ItemOf, Item
  <2>3. ItemOf(l, f) = IF Offered(target)
                       THEN ResolvedTo(Offer(f, i), installations, target)
                       ELSE Unresolved(ItemOf(l, f).reason)
    BY <2>1, <2>2, FormulaResolves
  <2>4. Offered(target)
    BY <1>6, <2>3 DEF Unresolved
  <2>5. QED
    BY <2>3, <2>4, ResolvedItem
<1>7. LockFrom(l, i)
  BY <1>2, <1>3, <1>4, <1>5, <1>6 DEF LockFrom
<1>8. QED
  BY <1>7 DEF l

-----------------------------------------------------------------------------
(* Plans and Reviews.                                                      *)

\* The actions of a good Plan.
LEMMA GoodPlanActions ==
    ASSUME NEW p, GoodPlan(p)
    PROVE  /\ p.actions \subseteq RootSet /\ p.actions # {} /\ p.actions \subseteq Formulae
           /\ p.source \in DOMAIN Catalogs
           /\ \A r \in p.actions :
                /\ r \in BaseItems(p.lock) /\ Offered(target)
                /\ ItemOf(p.lock, r).state = "install_required"
                /\ ItemOf(p.lock, r).implementation = Offer(r, p.source)
                /\ IsItem(ItemOf(p.lock, r)) /\ BaseCapability[r] \in DOMAIN p.lock.items
<1>1. p.actions = BaseActions(p.lock) /\ p.actions # {} /\ LockFrom(p.lock, p.source)
  BY DEF GoodPlan, Plannable
<1>2. p.actions \subseteq RootSet
  BY <1>1 DEF BaseActions, BaseItems
<1>3. ASSUME NEW r \in p.actions
      PROVE  /\ r \in BaseItems(p.lock) /\ Offered(target)
             /\ ItemOf(p.lock, r).state = "install_required"
             /\ ItemOf(p.lock, r).implementation = Offer(r, p.source)
             /\ IsItem(ItemOf(p.lock, r)) /\ BaseCapability[r] \in DOMAIN p.lock.items
  <2>1. r \in BaseItems(p.lock) /\ ItemOf(p.lock, r).state = "install_required"
    BY <1>1 DEF BaseActions
  <2>2. BaseCapability[r] \in DOMAIN p.lock.items
    BY <2>1 DEF BaseItems
  <2>3. QED
    BY <1>1, <2>1, <2>2 DEF LockFrom, ItemOf
<1>4. QED
  BY <1>1, <1>2, <1>3, Basics DEF GoodPlan

\* A Plan for a Lock is good.
LEMMA PlanIsGood ==
    ASSUME NEW l, NEW i \in DOMAIN Catalogs, LockFrom(l, i), Plannable(l), NEW seen
    PROVE  GoodPlan(PlanFor(l, seen))
<1> DEFINE p == PlanFor(l, seen)
           first == CHOOSE f \in BaseActions(l) : TRUE
<1>1. first \in BaseActions(l)
  BY DEF Plannable
<1> HIDE DEF first
<1>2. first \in BaseItems(l) /\ ItemOf(l, first).state = "install_required"
  BY <1>1 DEF BaseActions
<1>3. ItemOf(l, first).implementation.source = i
  <2>1. ItemOf(l, first).implementation = Offer(first, i)
    BY <1>2 DEF LockFrom
  <2>2. QED
    BY <2>1 DEF Offer
<1>4. p.lock = l /\ p.actions = BaseActions(l) /\ p.source = i
  BY <1>3 DEF PlanFor, first
<1>5. QED
  BY <1>4 DEF GoodPlan

\* The previews of a Review of this machine.
LEMMA ReviewIsGood ==
    ASSUME NEW p, NEW seen, GoodPlan(p), seen.target = target
    PROVE  DOMAIN Previews(p, seen) = p.actions /\ Reviewed(p, Previews(p, seen))
<1> DEFINE catalog == Catalogs[p.source]
           C(r) == Closure(catalog, r, BottleTag(seen.target))
           Entry1(r, f) == [version |-> catalog[f].version,
                            state |-> IF f = r THEN "install_required"
                                      ELSE PreviewState(seen, catalog, f)]
<1>1. \A r \in p.actions : Previews(p, seen)[r] = [f \in C(r) |-> Entry1(r, f)]
  BY DEF Previews, Preview
<1>2. DOMAIN Previews(p, seen) = p.actions
  BY DEF Previews
<1>3. \A r, f : /\ Entry1(r, f).version = catalog[f].version
                /\ Entry1(r, r).state = "install_required"
                /\ Entry1(r, f).state \in {"satisfied", "install_required"}
  BY DEF PreviewState
<1>4. ASSUME NEW r \in p.actions
      PROVE  LET preview == Previews(p, seen)[r]
             IN  /\ DOMAIN preview = Closure(Catalogs[p.source], r, BottleTag(target))
                 /\ preview[r].state = "install_required"
                 /\ \A f \in DOMAIN preview :
                      /\ preview[f].version = Catalogs[p.source][f].version
                      /\ preview[f].state \in {"satisfied", "install_required"}
  <2>1. r \in C(r)
    BY GoodPlanActions, ClosureHolds
  <2> HIDE DEF Entry1
  <2>2. /\ DOMAIN Previews(p, seen)[r] = C(r)
        /\ \A f \in C(r) : Previews(p, seen)[r][f] = Entry1(r, f)
    BY <1>1
  <2>3. QED
    BY <1>3, <2>1, <2>2
<1> HIDE DEF Entry1
<1>5. QED
  BY <1>2, <1>4 DEF Reviewed

-----------------------------------------------------------------------------
(* The operation under way.                                                *)

\* What a step of the executor works with.
LEMMA Operating ==
    ASSUME IInv, Operated
    PROVE  LET previews == prepared.review.previews
               actions == prepared.plan.actions
           IN  /\ prepared # None /\ GoodPlan(prepared.plan)
               /\ actions \subseteq RootSet /\ actions \subseteq Formulae /\ actions # {}
               /\ DOMAIN Queue = 1..Len(Queue) /\ Len(Queue) \in 1..2
               /\ \A k \in DOMAIN Queue : Queue[k] \in actions
               /\ \A r \in actions : \E k \in DOMAIN Queue : Queue[k] = r
               /\ \A r \in actions :
                    /\ r \in DOMAIN previews[r] /\ DOMAIN previews[r] \subseteq Formulae
                    /\ previews[r][r].state = "install_required"
                    /\ DOMAIN previews[r] =
                         Closure(Catalogs[prepared.plan.source], r, BottleTag(target))
                    /\ \A f \in DOMAIN previews[r] :
                         /\ previews[r][f].version = Catalogs[prepared.plan.source][f].version
                         /\ previews[r][f].state \in {"satisfied", "install_required"}
               /\ IsRecord(record, Queue, actions)
               /\ record.current \in DOMAIN Queue /\ record.current \in 1..2
               /\ record.exit \in {0, 1} /\ record.steps \in [actions -> Steps]
               /\ record.state \in {"running", "failed", "interrupted", "completed"}
               /\ Root = Queue[record.current] /\ Root \in actions
               /\ CurrentPreview = previews[Root]
               /\ phase = "idle" <=> record.state # "running"
<1> DEFINE previews == prepared.review.previews
           actions == prepared.plan.actions
<1>1. /\ prepared # None /\ GoodPlan(prepared.plan) /\ Reviewed(prepared.plan, previews)
      /\ IsRecord(record, Queue, actions)
      /\ phase = "idle" <=> record.state # "running"
  BY DEF IInv, RecordInv, PreparedInv
<1>2. /\ actions \subseteq RootSet /\ actions # {} /\ actions \subseteq Formulae
  BY <1>1, GoodPlanActions
<1>3. /\ DOMAIN Queue = 1..Len(Queue) /\ Len(Queue) \in 1..2
      /\ \A k \in DOMAIN Queue : Queue[k] \in actions
      /\ \A r \in actions : \E k \in DOMAIN Queue : Queue[k] = r
  BY <1>2, QueueLists
<1>4. /\ record.current \in DOMAIN Queue
      /\ record.exit \in {0, 1} /\ record.steps \in [actions -> Steps]
      /\ record.state \in {"running", "failed", "interrupted", "completed"}
  BY <1>1 DEF IsRecord
<1>5. record.current \in 1..2
  BY <1>3, <1>4
<1>6. Root = Queue[record.current] /\ Root \in actions /\ CurrentPreview = previews[Root]
  BY <1>3, <1>4 DEF Root, CurrentPreview
<1>7. ASSUME NEW r \in actions
      PROVE  /\ r \in DOMAIN previews[r] /\ DOMAIN previews[r] \subseteq Formulae
             /\ previews[r][r].state = "install_required"
             /\ DOMAIN previews[r] =
                  Closure(Catalogs[prepared.plan.source], r, BottleTag(target))
             /\ \A f \in DOMAIN previews[r] :
                  /\ previews[r][f].version = Catalogs[prepared.plan.source][f].version
                  /\ previews[r][f].state \in {"satisfied", "install_required"}
  BY <1>1, <1>2, ClosureHolds DEF Reviewed
<1>8. QED
  BY <1>1, <1>2, <1>3, <1>4, <1>5, <1>6, <1>7

\* What is under review does not depend on what is installed.
LEMMA LockStays == ASSUME LockInv, UNCHANGED <<target, lock>> PROVE LockInv'
BY DEF LockInv, LockFrom

LEMMA PlanStays == ASSUME PlanInv, UNCHANGED <<target, plan>> PROVE PlanInv'
BY DEF PlanInv, GoodPlan, LockFrom

LEMMA PreparedStays == ASSUME PreparedInv, UNCHANGED <<target, prepared>> PROVE PreparedInv'
BY DEF PreparedInv, GoodPlan, LockFrom, Reviewed

LEMMA ReviewKept ==
    ASSUME IInv, UNCHANGED <<target, scan, lock, plan, prepared>>
    PROVE  ScanInv' /\ LockInv' /\ PlanInv' /\ PreparedInv'
<1>1. ScanInv'
  BY DEF IInv, ScanInv, Snapshots
<1>2. QED
  BY <1>1, LockStays, PlanStays, PreparedStays DEF IInv

\* A step of the operation keeps the invariant if it leaves the record, what is
\* installed and the next statement in accord.
LEMMA StepKeeps ==
    ASSUME IInv, phase # "idle",
           UNCHANGED <<target, homebrew, published, review, final, events>>,
           kegs' \in [Formulae -> SUBSET Versions],
           phase' \in {"idle", "preflight", "capture", "check", "install", "after", "verify"},
           blame' \subseteq {"probe", "process", "index", "other", "kegs"},
           IsRecord(record', Queue, prepared.plan.actions),
           phase' = "idle" <=> record'.state # "running",
           "other" \notin blame' =>
               Work(Queue, prepared.review.previews, record', phase', kegs'),
           blame' = {} /\ phase' # "idle" =>
               Clean(Queue, prepared.review.previews, record', phase', kegs'),
           record'.state = "failed" => blame' # {}
    PROVE  IInv'
<1>1. prepared # None /\ prepared' = prepared /\ Queue' = Queue
  BY Operating DEF review, Queue, Operated
<1>2. MachineInv'
  BY DEF IInv, MachineInv, review
<1>3. ScanInv' /\ LockInv' /\ PlanInv' /\ PreparedInv'
  BY ReviewKept DEF review
<1>4. RecordInv'
  BY <1>1 DEF RecordInv
<1>5. WorkInv' /\ CleanInv'
  BY <1>1 DEF WorkInv, CleanInv
<1>6. UndisturbedOperationCompletes'
  BY DEF UndisturbedOperationCompletes
<1>7. FinalLockIsTrue'
  BY DEF IInv, FinalLockIsTrue
<1>8. QED
  BY <1>2, <1>3, <1>4, <1>5, <1>6, <1>7 DEF IInv

-----------------------------------------------------------------------------
(* The steps of the operation.                                             *)

\* The statements of an operation that works.
LEMMA Working ==
    ASSUME IInv, phase # "idle"
    PROVE  /\ Operated /\ record.state = "running"
           /\ "other" \notin blame =>
                Work(Queue, prepared.review.previews, record, phase, kegs)
           /\ blame = {} => Clean(Queue, prepared.review.previews, record, phase, kegs)
<1>1. Operated
  BY DEF Operated
<1>2. record.state = "running"
  BY <1>1, Operating
<1>3. QED
  BY <1>1, <1>2 DEF IInv, WorkInv, CleanInv

\* An operation that ends early keeps what it has worked.
LEMMA EndKeeps ==
    ASSUME IInv, phase # "idle",
           UNCHANGED <<target, kegs, homebrew, published, review, final, events>>,
           blame' \subseteq {"probe", "process", "index", "other", "kegs"},
           blame \subseteq blame', phase' = "idle",
           NEW state \in {"failed", "interrupted"},
           record' = [record EXCEPT !.state = state],
           state = "failed" => blame' # {}
    PROVE  IInv'
<1>1. /\ IsRecord(record, Queue, prepared.plan.actions) /\ record.state = "running"
      /\ "other" \notin blame =>
           Work(Queue, prepared.review.previews, record, phase, kegs)
  BY Operating, Working
<1>2. /\ IsRecord(record', Queue, prepared.plan.actions) /\ record'.state = state
      /\ record'.current = record.current /\ record'.steps = record.steps
  BY <1>1 DEF IsRecord
<1>3. "other" \notin blame' =>
        Work(Queue, prepared.review.previews, record', phase', kegs')
  BY <1>1, <1>2 DEF Work
<1>4. kegs' \in [Formulae -> SUBSET Versions]
  BY DEF IInv, MachineInv
<1>5. QED
  BY <1>2, <1>3, <1>4, StepKeeps

LEMMA ProbeFailsKeeps == ASSUME IInv, ProbeFails PROVE IInv'
<1>1. /\ phase # "idle" /\ record' = [record EXCEPT !.state = "failed"] /\ phase' = "idle"
      /\ UNCHANGED <<target, kegs, homebrew, published, review, final, events>>
      /\ blame' = blame \cup {"probe"}
  BY DEF ProbeFails, Fails, machine
<1>2. blame' \subseteq {"probe", "process", "index", "other", "kegs"}
  BY <1>1 DEF IInv, MachineInv
<1>3. QED
  BY <1>1, <1>2, EndKeeps

LEMMA CrashKeeps == ASSUME IInv, Crash PROVE IInv'
<1>1. /\ phase # "idle" /\ record' = [record EXCEPT !.state = "interrupted"]
      /\ phase' = "idle" /\ blame' = blame
      /\ UNCHANGED <<target, kegs, homebrew, published, review, final, events>>
  BY DEF Crash, InOperation, machine
<1>2. blame' \subseteq {"probe", "process", "index", "other", "kegs"}
  BY <1>1 DEF IInv, MachineInv
<1>3. QED
  BY <1>1, <1>2, EndKeeps

\* What is reviewed and undisturbed passes the preflight.
LEMMA ReviewedPasses ==
    ASSUME NEW preview, NEW r, NEW installed, AsReviewed(preview, r, installed)
    PROVE  PreflightPasses(preview, r, installed)
BY StatusMeans DEF AsReviewed, PreflightPasses

\* What passes the preflight may be photographed.
LEMMA PassedIsReviewed ==
    ASSUME NEW preview, NEW r, NEW installed, PreflightPasses(preview, r, installed),
           r \in DOMAIN preview, preview[r].state = "install_required",
           \A f \in DOMAIN preview :
               preview[f].state \in {"satisfied", "install_required"}
    PROVE  BeforeIsReviewed(preview, FactsOf(preview, installed))
<1>1. ASSUME NEW f \in DOMAIN preview
      PROVE  \/ FactsOf(preview, installed)[f] = {preview[f].version}
             \/ preview[f].state = "install_required" /\ FactsOf(preview, installed)[f] = {}
  <2>1. FactsOf(preview, installed)[f] = installed[f]
    BY DEF FactsOf
  <2>2. /\ installed[f] \in {{}, {preview[f].version}}
        /\ f # r /\ preview[f].state = "satisfied" => installed[f] = {preview[f].version}
    BY StatusMeans DEF PreflightPasses
  <2>3. QED
    BY <2>1, <2>2
<1>2. QED
  BY <1>1 DEF BeforeIsReviewed

LEMMA PreflightKeeps == ASSUME IInv, Preflight PROVE IInv'
<1> DEFINE previews == prepared.review.previews
<1>1. /\ phase = "preflight"
      /\ UNCHANGED <<target, kegs, homebrew, published, review, final, events, blame>>
      /\ Root = Queue[record.current] /\ CurrentPreview = previews[Root]
      /\ record.current \in DOMAIN Queue /\ Queue[record.current] \in prepared.plan.actions
      /\ IsRecord(record, Queue, prepared.plan.actions)
  BY Working, Operating DEF Preflight, InOperation, machine
<1>2. kegs' \in [Formulae -> SUBSET Versions] /\
      blame' \subseteq {"probe", "process", "index", "other", "kegs"}
  BY <1>1 DEF IInv, MachineInv
<1>3. CASE PreflightPasses(CurrentPreview, Root, kegs)
  <2>1. record' = record /\ phase' = "capture" /\ record.state = "running"
    BY <1>1, <1>3, Working DEF Preflight
  <2>2. "other" \notin blame' => Work(Queue, previews, record', phase', kegs')
    <3>1. "other" \notin blame' => Work(Queue, previews, record, phase, kegs)
      BY <1>1, Working
    <3> HIDE DEF previews
    <3>2. QED
      BY <1>1, <1>3, <2>1, <3>1 DEF Work
  <2>3. blame' = {} => Clean(Queue, previews, record', phase', kegs')
    <3>1. blame' = {} => Clean(Queue, previews, record, phase, kegs)
      BY <1>1, Working
    <3> HIDE DEF previews
    <3>2. QED
      BY <1>1, <2>1, <3>1 DEF Clean
  <2>4. QED
    BY <1>1, <1>2, <2>1, <2>2, <2>3, StepKeeps
<1>4. CASE ~PreflightPasses(CurrentPreview, Root, kegs)
  <2>1. record' = [record EXCEPT !.state = "failed"] /\ phase' = "idle"
    BY <1>4 DEF Preflight, Fails
  <2>2. blame # {}
    <3> SUFFICES ASSUME blame = {} PROVE FALSE
      OBVIOUS
    <3>1. AsReviewed(CurrentPreview, Root, kegs)
      BY <1>1, Working DEF Clean
    <3>2. QED
      BY <1>4, <3>1, ReviewedPasses
  <2>3. QED
    BY <1>1, <1>2, <2>1, <2>2, EndKeeps
<1>5. QED
  BY <1>3, <1>4

\* A photograph is one, of a set of formulae.
LEMMA FactsAreFacts ==
    ASSUME NEW preview, DOMAIN preview \subseteq Formulae, NEW installed,
           installed \in [Formulae -> SUBSET Versions]
    PROVE  FactsOf(preview, installed) \in Facts \ {None}
<1>1. FactsOf(preview, installed) \in [DOMAIN preview -> SUBSET Versions]
  BY DEF FactsOf
<1>2. FactsOf(preview, installed) # None
  BY <1>1, NoneAssumption
<1>3. FactsOf(preview, installed) \in UNION {[S -> SUBSET Versions] : S \in SUBSET Formulae}
  BY <1>1
<1>4. QED
  BY <1>2, <1>3 DEF Facts

\* The next actions have not been worked: no action is there twice.
LEMMA QueueIsDistinct ==
    ASSUME IInv, Operated, NEW j \in DOMAIN Queue, NEW k \in DOMAIN Queue, j # k
    PROVE  Queue[j] # Queue[k]
<1>1. prepared.plan.actions \subseteq {"cmake", "git"}
  BY Operating DEF RootSet
<1>2. \/ Queue = <<"cmake">> \/ Queue = <<"git">> \/ Queue = <<"cmake", "git">>
  BY <1>1 DEF Queue, Roots
<1>3. CASE Queue = <<"cmake">>
  BY <1>3
<1>4. CASE Queue = <<"git">>
  BY <1>4
<1>5. CASE Queue = <<"cmake", "git">>
  BY <1>5
<1>6. QED
  BY <1>2, <1>3, <1>4, <1>5

\* A step whose record is rewritten at the action under way only.
LEMMA SameBefore ==
    ASSUME IInv, phase # "idle", "other" \notin blame,
           record'.current = record.current, record'.state = "running",
           \A r \in prepared.plan.actions : r # Root => record'.steps[r] = record.steps[r]
    PROVE  \A k \in DOMAIN Queue :
             k < record'.current \/ record'.state = "completed" =>
                 Worked(record'.steps[Queue[k]], prepared.review.previews[Queue[k]], kegs)
<1> SUFFICES ASSUME NEW k \in DOMAIN Queue, k < record'.current
             PROVE  Worked(record'.steps[Queue[k]], prepared.review.previews[Queue[k]], kegs)
  OBVIOUS
<1>1. /\ k < record.current /\ record.current \in DOMAIN Queue /\ Operated
      /\ Work(Queue, prepared.review.previews, record, phase, kegs)
      /\ Root = Queue[record.current] /\ Queue[k] \in prepared.plan.actions
      /\ DOMAIN Queue = 1..Len(Queue) /\ Len(Queue) \in 1..2
  BY Working, Operating
<1>2. Worked(record.steps[Queue[k]], prepared.review.previews[Queue[k]], kegs)
  BY <1>1 DEF Work
<1>3. k # record.current
  BY <1>1
<1>4. Queue[k] # Root
  BY <1>1, <1>3, QueueIsDistinct
<1>5. QED
  BY <1>1, <1>2, <1>4

LEMMA CaptureKeeps == ASSUME IInv, Capture PROVE IInv'
<1> DEFINE previews == prepared.review.previews
           facts == FactsOf(CurrentPreview, kegs)
<1>1. /\ phase = "capture" /\ phase' = "check"
      /\ UNCHANGED <<target, kegs, homebrew, published, review, final, events, blame>>
      /\ record' = [record EXCEPT !.steps[Root].before = facts]
  BY DEF Capture, InOperation, machine
<1>2. /\ Operated /\ record.state = "running" /\ IsRecord(record, Queue, prepared.plan.actions)
      /\ Root \in prepared.plan.actions /\ Root = Queue[record.current]
      /\ CurrentPreview = previews[Root] /\ record.current \in DOMAIN Queue
      /\ Root \in DOMAIN CurrentPreview /\ DOMAIN CurrentPreview \subseteq Formulae
      /\ CurrentPreview[Root].state = "install_required"
      /\ \A f \in DOMAIN CurrentPreview :
           CurrentPreview[f].state \in {"satisfied", "install_required"}
      /\ record.steps \in [prepared.plan.actions -> Steps]
  BY <1>1, Working, Operating
<1>3. kegs \in [Formulae -> SUBSET Versions] /\
      blame' \subseteq {"probe", "process", "index", "other", "kegs"}
  BY <1>1 DEF IInv, MachineInv
<1>4. facts \in Facts \ {None}
  BY <1>2, <1>3, FactsAreFacts
<1> HIDE DEF facts
<1>5. /\ IsRecord(record', Queue, prepared.plan.actions) /\ record'.state = "running"
      /\ record'.current = record.current
      /\ record'.steps[Root].before = facts
      /\ \A r \in prepared.plan.actions : r # Root => record'.steps[r] = record.steps[r]
  BY <1>1, <1>2, <1>4 DEF IsRecord, Steps
<1>6. "other" \notin blame' => Work(Queue, previews, record', phase', kegs')
  <2> SUFFICES ASSUME "other" \notin blame PROVE Work(Queue, previews, record', phase', kegs')
    BY <1>1
  <2>1. PreflightPasses(CurrentPreview, Root, kegs)
    BY <1>1, <1>2, Working DEF Work
  <2>2. BeforeIsReviewed(CurrentPreview, facts)
    BY <1>2, <2>1, PassedIsReviewed DEF facts
  <2>3. \A k \in DOMAIN Queue :
          k < record'.current \/ record'.state = "completed" =>
              Worked(record'.steps[Queue[k]], previews[Queue[k]], kegs)
    BY <1>1, <1>5, SameBefore
  <2> HIDE DEF previews
  <2>4. QED
    BY <1>1, <1>2, <1>4, <1>5, <2>2, <2>3 DEF Work
<1>7. blame' = {} => Clean(Queue, previews, record', phase', kegs')
  BY <1>1, <1>2, <1>5, Working DEF Clean
<1>8. QED
  BY <1>1, <1>3, <1>5, <1>6, <1>7, StepKeeps

LEMMA CheckKeeps == ASSUME IInv, Check PROVE IInv'
<1> DEFINE previews == prepared.review.previews
           satisfied == ClosureIsExact(CurrentPreview, kegs)
<1>1. /\ phase = "check" /\ phase' = IF satisfied THEN "after" ELSE "install"
      /\ UNCHANGED <<target, kegs, homebrew, published, review, final, events, blame>>
      /\ record' = [record EXCEPT !.steps[Root].skipped = satisfied, !.exit = 0]
  BY DEF Check, InOperation, machine
<1>2. /\ Operated /\ record.state = "running" /\ IsRecord(record, Queue, prepared.plan.actions)
      /\ Root \in prepared.plan.actions /\ Root = Queue[record.current]
      /\ CurrentPreview = previews[Root] /\ record.current \in DOMAIN Queue
      /\ record.steps \in [prepared.plan.actions -> Steps]
  BY <1>1, Working, Operating
<1>3. kegs \in [Formulae -> SUBSET Versions] /\
      blame' \subseteq {"probe", "process", "index", "other", "kegs"}
  BY <1>1 DEF IInv, MachineInv
<1>4. satisfied \in BOOLEAN
  BY DEF ClosureIsExact
<1>5. /\ IsRecord(record', Queue, prepared.plan.actions) /\ record'.state = "running"
      /\ record'.current = record.current /\ record'.exit = 0
      /\ record'.steps[Root].before = record.steps[Root].before
      /\ \A r \in prepared.plan.actions : r # Root => record'.steps[r] = record.steps[r]
  <2> HIDE DEF satisfied
  <2> DEFINE step == [record.steps[Root] EXCEPT !.skipped = satisfied]
             steps == [record.steps EXCEPT ![Root] = step]
  <2>1. step \in Steps /\ step.before = record.steps[Root].before
    BY <1>2, <1>4 DEF Steps
  <2>2. record' = [record EXCEPT !.steps = steps, !.exit = 0]
    BY <1>1
  <2> HIDE DEF step
  <2>3. /\ steps \in [prepared.plan.actions -> Steps] /\ steps[Root] = step
        /\ \A r \in prepared.plan.actions : r # Root => steps[r] = record.steps[r]
    BY <1>2, <2>1
  <2> HIDE DEF steps
  <2>4. /\ IsRecord(record', Queue, prepared.plan.actions)
        /\ record'.steps = steps /\ record'.exit = 0
        /\ record'.state = record.state /\ record'.current = record.current
    BY <1>2, <2>2, <2>3 DEF IsRecord
  <2>5. QED
    BY <1>2, <2>1, <2>3, <2>4
<1>6. "other" \notin blame' => Work(Queue, previews, record', phase', kegs')
  <2> SUFFICES ASSUME "other" \notin blame PROVE Work(Queue, previews, record', phase', kegs')
    BY <1>1
  <2>1. /\ record.steps[Root].before # None
        /\ BeforeIsReviewed(CurrentPreview, record.steps[Root].before)
    BY <1>1, <1>2, Working DEF Work
  <2>2. \A k \in DOMAIN Queue :
          k < record'.current \/ record'.state = "completed" =>
              Worked(record'.steps[Queue[k]], previews[Queue[k]], kegs)
    BY <1>1, <1>5, SameBefore
  <2> HIDE DEF previews, satisfied
  <2>3. QED
    BY <1>1, <1>2, <1>5, <2>1, <2>2 DEF Work
<1>7. blame' = {} => Clean(Queue, previews, record', phase', kegs')
  <2> SUFFICES ASSUME blame = {} PROVE Clean(Queue, previews, record', phase', kegs')
    BY <1>1
  <2>1. Clean(Queue, previews, record, phase, kegs)
    BY <1>1, Working
  <2> HIDE DEF previews
  <2>2. QED
    BY <1>1, <1>2, <1>5, <2>1 DEF Clean
<1>8. phase' \in {"idle", "preflight", "capture", "check", "install", "after", "verify"} /\
      phase' # "idle"
  BY <1>1
<1>9. QED
  BY <1>1, <1>3, <1>5, <1>6, <1>7, <1>8, StepKeeps

\* What is installed and right stays so when only what is absent is installed.
LEMMA ExactStays ==
    ASSUME NEW preview, NEW m, NEW n, ClosureIsExact(preview, m),
           \A f \in DOMAIN preview : m[f] # {} => n[f] = m[f]
    PROVE  ClosureIsExact(preview, n)
<1>1. ASSUME NEW f \in DOMAIN preview PROVE n[f] = {preview[f].version}
  <2>1. m[f] = {preview[f].version}
    BY StatusMeans DEF ClosureIsExact
  <2>2. QED
    BY <2>1
<1>2. QED
  BY <1>1, StatusMeans DEF ClosureIsExact

\* What brew does to the machine.
LEMMA BrewMoves ==
    ASSUME IInv, phase = "install", NEW index \in 1..published, NEW added \in SUBSET Formulae,
           Installable(index, added),
           kegs' = [f \in Formulae |->
                      IF f \in added THEN {Catalogs[index][f].version} ELSE kegs[f]]
    PROVE  /\ index \in DOMAIN Catalogs /\ kegs' \in [Formulae -> SUBSET Versions]
           /\ \A f \in Formulae : /\ kegs[f] # {} => kegs'[f] = kegs[f] /\ f \notin added
                                  /\ f \notin added => kegs'[f] = kegs[f]
                                  /\ f \in added => kegs'[f] = {Catalogs[index][f].version}
<1>1. published \in DOMAIN Catalogs /\ kegs \in [Formulae -> SUBSET Versions]
  BY DEF IInv, MachineInv
<1>2. index \in DOMAIN Catalogs
  BY <1>1, CatalogsAssumption
<1>3. \A f \in Formulae : Catalogs[index][f].version \in Versions
  BY <1>2, Basics
<1>4. kegs' \in [Formulae -> SUBSET Versions]
  BY <1>1, <1>3
<1>5. \A f \in added : kegs[f] = {}
  BY DEF Installable
<1>6. QED
  BY <1>2, <1>4, <1>5

LEMMA BrewInstallsKeeps == ASSUME IInv, BrewInstalls PROVE IInv'
<1> DEFINE previews == prepared.review.previews
<1>1. /\ phase = "install" /\ phase' = "after"
      /\ UNCHANGED <<target, homebrew, published, review, final, events>>
  BY DEF BrewInstalls
<1>2. PICK index \in 1..published, added \in SUBSET Formulae, code \in {0, 1} :
        /\ Installable(index, added)
        /\ code = 0 => Closure(Catalogs[index], Root, BottleTag(target))
                          \subseteq added \cup {f \in Formulae : kegs[f] # {}}
        /\ kegs' = [f \in Formulae |->
                      IF f \in added THEN {Catalogs[index][f].version} ELSE kegs[f]]
        /\ record' = [record EXCEPT !.exit = code]
        /\ blame' = blame \cup (IF code # 0 THEN {"process"} ELSE {})
                          \cup (IF index # prepared.plan.source THEN {"index"} ELSE {})
  BY DEF BrewInstalls
<1>3. /\ Operated /\ record.state = "running" /\ IsRecord(record, Queue, prepared.plan.actions)
      /\ Root \in prepared.plan.actions /\ Root = Queue[record.current]
      /\ record.current \in DOMAIN Queue
      /\ \A k \in DOMAIN Queue : Queue[k] \in prepared.plan.actions
      /\ \A r \in prepared.plan.actions :
           /\ DOMAIN previews[r] \subseteq Formulae
           /\ DOMAIN previews[r] =
                Closure(Catalogs[prepared.plan.source], r, BottleTag(target))
           /\ \A f \in DOMAIN previews[r] :
                previews[r][f].version = Catalogs[prepared.plan.source][f].version
  BY <1>1, Working, Operating
<1>4. /\ kegs' \in [Formulae -> SUBSET Versions]
      /\ \A f \in Formulae : /\ kegs[f] # {} => kegs'[f] = kegs[f] /\ f \notin added
                             /\ f \notin added => kegs'[f] = kegs[f]
                             /\ f \in added => kegs'[f] = {Catalogs[index][f].version}
  BY <1>1, <1>2, BrewMoves
<1>5. /\ IsRecord(record', Queue, prepared.plan.actions) /\ record'.state = "running"
      /\ record'.current = record.current /\ record'.steps = record.steps
      /\ record'.exit = code
  BY <1>2, <1>3 DEF IsRecord
<1>6. blame' \subseteq {"probe", "process", "index", "other", "kegs"}
  <2>1. blame \subseteq {"probe", "process", "index", "other", "kegs"}
    BY DEF IInv, MachineInv
  <2>2. QED
    BY <1>2, <2>1
<1>7. "other" \notin blame' => Work(Queue, previews, record', phase', kegs')
  <2> SUFFICES ASSUME "other" \notin blame PROVE Work(Queue, previews, record', phase', kegs')
    BY <1>2
  <2>1. Work(Queue, previews, record, phase, kegs)
    BY <1>1, Working
  <2>2. ASSUME NEW k \in DOMAIN Queue, k < record.current
        PROVE  Worked(record.steps[Queue[k]], previews[Queue[k]], kegs')
    <3>1. Worked(record.steps[Queue[k]], previews[Queue[k]], kegs)
      BY <2>1, <2>2 DEF Work
    <3>2. DOMAIN previews[Queue[k]] \subseteq Formulae
      BY <1>3
    <3> HIDE DEF previews
    <3>3. \A f \in DOMAIN previews[Queue[k]] : kegs[f] # {} => kegs'[f] = kegs[f]
      BY <1>4, <3>2
    <3>4. ClosureIsExact(previews[Queue[k]], kegs')
      BY <3>1, <3>3, ExactStays DEF Worked
    <3>5. QED
      BY <3>1, <3>4 DEF Worked
  <2> HIDE DEF previews
  <2>3. QED
    BY <1>1, <1>3, <1>5, <2>1, <2>2 DEF Work
<1>8. blame' = {} => Clean(Queue, previews, record', phase', kegs')
  <2> SUFFICES ASSUME blame' = {} PROVE Clean(Queue, previews, record', phase', kegs')
    OBVIOUS
  <2>1. blame = {} /\ code = 0 /\ index = prepared.plan.source
    BY <1>2
  <2>2. Clean(Queue, previews, record, phase, kegs)
    BY <1>1, <2>1, Working
  <2>3. ASSUME NEW k \in DOMAIN Queue
        PROVE  AsReviewed(previews[Queue[k]], Queue[k], kegs')
    <3> DEFINE preview == previews[Queue[k]]
    <3>1. AsReviewed(preview, Queue[k], kegs)
      BY <2>2 DEF Clean
    <3>2. /\ DOMAIN preview \subseteq Formulae
          /\ \A f \in DOMAIN preview : preview[f].version = Catalogs[index][f].version
      BY <1>3, <2>1
    <3> HIDE DEF preview
    <3>3. ASSUME NEW f \in DOMAIN preview
          PROVE  /\ kegs'[f] \in {{}, {preview[f].version}}
                 /\ f # Queue[k] /\ preview[f].state = "satisfied" =>
                      kegs'[f] = {preview[f].version}
      <4>1. /\ kegs[f] \in {{}, {preview[f].version}}
            /\ f # Queue[k] /\ preview[f].state = "satisfied" =>
                 kegs[f] = {preview[f].version}
        BY <3>1 DEF AsReviewed
      <4>2. CASE f \in added
        BY <1>4, <3>2, <4>2
      <4>3. CASE f \notin added
        BY <1>4, <3>2, <4>1, <4>3
      <4>4. QED
        BY <4>2, <4>3
    <3>4. AsReviewed(preview, Queue[k], kegs')
      BY <3>3 DEF AsReviewed
    <3>5. QED
      BY <3>4 DEF preview
  <2>4. ClosureIsExact(previews[Queue[record.current]], kegs')
    <3> DEFINE preview == previews[Root]
    <3>1. AsReviewed(preview, Root, kegs') /\ Root = Queue[record.current]
      BY <1>3, <2>3
    <3>2. /\ DOMAIN preview = Closure(Catalogs[index], Root, BottleTag(target))
          /\ DOMAIN preview \subseteq Formulae
      BY <1>3, <2>1
    <3> HIDE DEF preview
    <3>3. ASSUME NEW f \in DOMAIN preview PROVE kegs'[f] = {preview[f].version}
      <4>1. f \in added \/ kegs[f] # {}
        BY <1>2, <2>1, <3>2
      <4>2. kegs'[f] # {}
        BY <1>4, <3>2, <4>1
      <4>3. QED
        BY <3>1, <4>2 DEF AsReviewed
    <3>4. ClosureIsExact(preview, kegs')
      BY <3>3, StatusMeans DEF ClosureIsExact
    <3>5. QED
      BY <3>1, <3>4 DEF preview
  <2> HIDE DEF previews
  <2>5. QED
    BY <1>5, <2>1, <2>3, <2>4 DEF Clean
<1>9. phase # "idle" /\ phase' # "idle" /\
      phase' \in {"idle", "preflight", "capture", "check", "install", "after", "verify"}
  BY <1>1
<1>10. QED
  BY <1>1, <1>4, <1>5, <1>6, <1>7, <1>8, <1>9, StepKeeps

LEMMA CaptureAfterKeeps == ASSUME IInv, CaptureAfter PROVE IInv'
<1> DEFINE previews == prepared.review.previews
           facts == FactsOf(CurrentPreview, kegs)
           captured == [record EXCEPT !.steps[Root].after = facts]
<1>1. /\ phase = "after"
      /\ UNCHANGED <<target, kegs, homebrew, published, review, final, events, blame>>
      /\ IF record.exit = 0 THEN record' = captured /\ phase' = "verify"
         ELSE record' = [captured EXCEPT !.state = "failed"] /\ phase' = "idle"
  BY DEF CaptureAfter, InOperation, machine
<1>2. /\ Operated /\ record.state = "running" /\ IsRecord(record, Queue, prepared.plan.actions)
      /\ Root \in prepared.plan.actions /\ Root = Queue[record.current]
      /\ CurrentPreview = previews[Root] /\ record.current \in DOMAIN Queue
      /\ DOMAIN CurrentPreview \subseteq Formulae
      /\ record.steps \in [prepared.plan.actions -> Steps]
      /\ \A k \in DOMAIN Queue : Queue[k] \in prepared.plan.actions
      /\ DOMAIN Queue = 1..Len(Queue) /\ Len(Queue) \in 1..2
  BY <1>1, Working, Operating
<1>3. kegs \in [Formulae -> SUBSET Versions] /\
      blame' \subseteq {"probe", "process", "index", "other", "kegs"}
  BY <1>1 DEF IInv, MachineInv
<1>4. facts \in Facts \ {None}
  BY <1>2, <1>3, FactsAreFacts
<1> HIDE DEF facts
<1>5. /\ IsRecord(captured, Queue, prepared.plan.actions) /\ captured.state = "running"
      /\ captured.current = record.current /\ captured.exit = record.exit
      /\ captured.steps[Root].before = record.steps[Root].before
      /\ captured.steps[Root].after = facts
      /\ \A r \in prepared.plan.actions : r # Root => captured.steps[r] = record.steps[r]
  <2> DEFINE step == [record.steps[Root] EXCEPT !.after = facts]
             steps == [record.steps EXCEPT ![Root] = step]
  <2>1. step \in Steps /\ step.before = record.steps[Root].before /\ step.after = facts
    BY <1>2, <1>4 DEF Steps
  <2>2. captured = [record EXCEPT !.steps = steps]
    OBVIOUS
  <2> HIDE DEF step
  <2>3. /\ steps \in [prepared.plan.actions -> Steps] /\ steps[Root] = step
        /\ \A r \in prepared.plan.actions : r # Root => steps[r] = record.steps[r]
    BY <1>2, <2>1
  <2> HIDE DEF steps, captured
  <2>4. /\ IsRecord(captured, Queue, prepared.plan.actions)
        /\ captured.steps = steps /\ captured.exit = record.exit
        /\ captured.state = record.state /\ captured.current = record.current
    BY <1>2, <2>2, <2>3 DEF IsRecord
  <2>5. QED
    BY <1>2, <2>1, <2>3, <2>4
<1> HIDE DEF captured
<1>6. CASE record.exit = 0
  <2>1. record' = captured /\ phase' = "verify"
    BY <1>1, <1>6
  <2>2. "other" \notin blame' => Work(Queue, previews, record', phase', kegs')
    <3> SUFFICES ASSUME "other" \notin blame PROVE Work(Queue, previews, record', phase', kegs')
      BY <1>1
    <3>1. /\ record.steps[Root].before # None
          /\ BeforeIsReviewed(CurrentPreview, record.steps[Root].before)
      BY <1>1, <1>2, Working DEF Work
    <3>2. \A k \in DOMAIN Queue :
            k < record'.current \/ record'.state = "completed" =>
                Worked(record'.steps[Queue[k]], previews[Queue[k]], kegs)
      BY <1>1, <1>5, <2>1, SameBefore
    <3> HIDE DEF previews
    <3>3. QED
      BY <1>1, <1>2, <1>5, <2>1, <3>1, <3>2 DEF Work, facts
  <2>3. blame' = {} => Clean(Queue, previews, record', phase', kegs')
    <3> SUFFICES ASSUME blame = {} PROVE Clean(Queue, previews, record', phase', kegs')
      BY <1>1
    <3>1. Clean(Queue, previews, record, phase, kegs)
      BY <1>1, Working
    <3> HIDE DEF previews
    <3>2. QED
      BY <1>1, <1>2, <1>5, <2>1, <3>1 DEF Clean
  <2>4. phase # "idle" /\ phase' # "idle" /\
        phase' \in {"idle", "preflight", "capture", "check", "install", "after", "verify"}
    BY <1>1, <2>1
  <2>5. kegs' = kegs
    BY <1>1
  <2>6. QED
    BY <1>1, <1>3, <1>5, <2>1, <2>2, <2>3, <2>4, <2>5, StepKeeps
<1>7. CASE record.exit # 0
  <2>1. record' = [captured EXCEPT !.state = "failed"] /\ phase' = "idle"
    BY <1>1, <1>7
  <2>2. /\ IsRecord(record', Queue, prepared.plan.actions) /\ record'.state = "failed"
        /\ record'.current = record.current /\ record'.steps = captured.steps
    BY <1>5, <2>1 DEF IsRecord
  <2>3. "other" \notin blame' => Work(Queue, previews, record', phase', kegs')
    <3> SUFFICES ASSUME "other" \notin blame PROVE Work(Queue, previews, record', phase', kegs')
      BY <1>1
    <3>1. Work(Queue, previews, record, phase, kegs)
      BY <1>1, Working
    <3>2. ASSUME NEW k \in DOMAIN Queue, k < record.current
          PROVE  Worked(captured.steps[Queue[k]], previews[Queue[k]], kegs)
      <4>1. Worked(record.steps[Queue[k]], previews[Queue[k]], kegs)
        BY <3>1, <3>2 DEF Work
      <4>2. k # record.current
        BY <1>2, <3>2
      <4>3. Queue[k] # Root
        BY <1>2, <4>2, QueueIsDistinct
      <4>4. QED
        BY <1>2, <1>5, <4>1, <4>3
    <3> HIDE DEF previews
    <3>3. QED
      BY <1>1, <2>1, <2>2, <3>2 DEF Work
  <2>4. blame' # {}
    BY <1>1, <1>7, Working DEF Clean
  <2>5. phase # "idle" /\
        phase' \in {"idle", "preflight", "capture", "check", "install", "after", "verify"}
    BY <1>1, <2>1
  <2>6. QED
    BY <1>1, <1>3, <2>1, <2>2, <2>3, <2>4, <2>5, StepKeeps
<1>8. QED
  BY <1>6, <1>7

\* What has been verified is worked.
LEMMA VerifiedIsWorked ==
    ASSUME IInv, phase = "verify", "other" \notin blame, ClosureIsExact(CurrentPreview, kegs)
    PROVE  Worked(record.steps[Root], prepared.review.previews[Root], kegs)
<1> DEFINE preview == prepared.review.previews[Root]
           step == record.steps[Root]
<1>1. /\ Operated /\ CurrentPreview = preview /\ DOMAIN preview \subseteq Formulae
      /\ Root = Queue[record.current]
  BY Working, Operating
<1>2. /\ step.before # None /\ BeforeIsReviewed(preview, step.before)
      /\ step.after = FactsOf(preview, kegs)
  BY <1>1, Working DEF Work
<1>3. kegs \in [Formulae -> SUBSET Versions] /\ ClosureIsExact(preview, kegs)
  BY <1>1 DEF IInv, MachineInv
<1> HIDE DEF preview, step
<1>4. step.after # None
  BY <1>1, <1>2, <1>3, FactsAreFacts
<1>5. ASSUME NEW f \in DOMAIN preview PROVE step.after[f] = {preview[f].version}
  <2>1. kegs[f] = {preview[f].version}
    BY <1>3, StatusMeans DEF ClosureIsExact
  <2>2. step.after[f] = kegs[f]
    BY <1>2 DEF FactsOf
  <2>3. QED
    BY <2>1, <2>2
<1>6. StepIsReviewed(step, preview)
  BY <1>2, <1>4, <1>5 DEF StepIsReviewed, AfterIsExact
<1>7. QED
  BY <1>3, <1>6 DEF Worked, step, preview

LEMMA VerifyKeeps == ASSUME IInv, Verify PROVE IInv'
<1> DEFINE previews == prepared.review.previews
<1>1. /\ phase = "verify"
      /\ UNCHANGED <<target, kegs, homebrew, published, review, final, events, blame>>
  BY DEF Verify, InOperation, machine
<1>2. /\ Operated /\ record.state = "running" /\ IsRecord(record, Queue, prepared.plan.actions)
      /\ Root \in prepared.plan.actions /\ Root = Queue[record.current]
      /\ CurrentPreview = previews[Root] /\ record.current \in DOMAIN Queue
      /\ \A k \in DOMAIN Queue : Queue[k] \in prepared.plan.actions
      /\ DOMAIN Queue = 1..Len(Queue) /\ Len(Queue) \in 1..2 /\ record.current \in 1..2
  BY <1>1, Working, Operating
<1>3. kegs' \in [Formulae -> SUBSET Versions] /\
      blame' \subseteq {"probe", "process", "index", "other", "kegs"}
  BY <1>1 DEF IInv, MachineInv
<1>4. CASE ~ClosureIsExact(CurrentPreview, kegs)
  <2>1. record' = [record EXCEPT !.state = "failed"] /\ phase' = "idle"
    BY <1>4 DEF Verify, Fails
  <2>2. blame # {}
    BY <1>1, <1>2, <1>4, Working DEF Clean
  <2>3. QED
    BY <1>1, <1>3, <2>1, <2>2, EndKeeps
<1>5. ASSUME ClosureIsExact(CurrentPreview, kegs), "other" \notin blame,
             NEW k \in DOMAIN Queue, k <= record.current
      PROVE  Worked(record.steps[Queue[k]], previews[Queue[k]], kegs)
  <2>1. CASE k = record.current
    BY <1>1, <1>2, <1>5, <2>1, VerifiedIsWorked
  <2>2. CASE k # record.current
    <3>1. k < record.current
      BY <1>2, <1>5, <2>2
    <3>2. Work(Queue, previews, record, phase, kegs)
      BY <1>1, <1>5, Working
    <3> HIDE DEF previews
    <3>3. QED
      BY <3>1, <3>2 DEF Work
  <2>3. QED
    BY <2>1, <2>2
<1>6. CASE ClosureIsExact(CurrentPreview, kegs) /\ record.current < Len(Queue)
  <2>1. record' = [record EXCEPT !.current = record.current + 1] /\ phase' = "preflight"
    BY <1>6 DEF Verify
  <2>2. record.current + 1 \in DOMAIN Queue
    BY <1>2, <1>6
  <2>3. /\ IsRecord(record', Queue, prepared.plan.actions) /\ record'.state = "running"
        /\ record'.current = record.current + 1 /\ record'.steps = record.steps
    BY <1>2, <2>1, <2>2 DEF IsRecord
  <2>4. "other" \notin blame' => Work(Queue, previews, record', phase', kegs')
    <3> SUFFICES ASSUME "other" \notin blame PROVE Work(Queue, previews, record', phase', kegs')
      BY <1>1
    <3>1. ASSUME NEW k \in DOMAIN Queue, k < record'.current
          PROVE  Worked(record'.steps[Queue[k]], previews[Queue[k]], kegs)
      <4>1. k <= record.current
        BY <1>2, <2>3, <3>1
      <4>2. QED
        BY <1>5, <1>6, <2>3, <4>1
    <3> HIDE DEF previews
    <3>2. QED
      BY <1>1, <2>1, <2>3, <3>1 DEF Work
  <2>5. blame' = {} => Clean(Queue, previews, record', phase', kegs')
    BY <1>1, <2>1, Working DEF Clean
  <2>6. phase # "idle" /\ phase' # "idle" /\
        phase' \in {"idle", "preflight", "capture", "check", "install", "after", "verify"}
    BY <1>1, <2>1
  <2>7. QED
    BY <1>1, <1>3, <2>3, <2>4, <2>5, <2>6, StepKeeps
<1>7. CASE ClosureIsExact(CurrentPreview, kegs) /\ ~(record.current < Len(Queue))
  <2>1. record' = [record EXCEPT !.state = "completed"] /\ phase' = "idle"
    BY <1>7 DEF Verify
  <2>2. /\ IsRecord(record', Queue, prepared.plan.actions) /\ record'.state = "completed"
        /\ record'.steps = record.steps
    BY <1>2, <2>1 DEF IsRecord
  <2>3. "other" \notin blame' => Work(Queue, previews, record', phase', kegs')
    <3> SUFFICES ASSUME "other" \notin blame PROVE Work(Queue, previews, record', phase', kegs')
      BY <1>1
    <3>1. ASSUME NEW k \in DOMAIN Queue
          PROVE  Worked(record'.steps[Queue[k]], previews[Queue[k]], kegs)
      <4>1. k <= record.current
        BY <1>2, <1>7, <3>1
      <4>2. QED
        BY <1>5, <1>7, <2>2, <4>1
    <3> HIDE DEF previews
    <3>2. QED
      BY <1>1, <2>1, <3>1 DEF Work
  <2>4. phase # "idle" /\
        phase' \in {"idle", "preflight", "capture", "check", "install", "after", "verify"}
    BY <1>1, <2>1
  <2>5. QED
    BY <1>1, <1>3, <2>1, <2>2, <2>3, <2>4, StepKeeps
<1>8. QED
  BY <1>4, <1>6, <1>7

-----------------------------------------------------------------------------
(* Preparing, confirming and finishing.                                    *)

\* A call that leaves the machine, the operation and the outcome alone.
LEMMA CallKeeps ==
    ASSUME IInv, UNCHANGED <<machine, phase, blame, events>>, confirmed' \in BOOLEAN,
           ScanInv', LockInv', PlanInv', PreparedInv', FinalLockIsTrue',
           \/ record' = record /\ prepared' = prepared
           \/ record' = None /\ phase = "idle"
    PROVE  IInv'
<1>1. MachineInv'
  BY DEF IInv, MachineInv, machine
<1>2. CASE record' = record /\ prepared' = prepared
  <2>1. Queue' = Queue /\ (Operated' <=> Operated) /\ kegs' = kegs
    BY <1>2 DEF Queue, Operated, machine
  <2>2. RecordInv' /\ WorkInv' /\ CleanInv'
    BY <1>2, <2>1 DEF IInv, RecordInv, WorkInv, CleanInv
  <2>3. UndisturbedOperationCompletes'
    BY <1>2 DEF IInv, UndisturbedOperationCompletes
  <2>4. QED
    BY <1>1, <2>2, <2>3 DEF IInv
<1>3. CASE record' = None /\ phase = "idle"
  <2>1. ~Operated'
    BY <1>3 DEF Operated
  <2>2. RecordInv' /\ WorkInv' /\ CleanInv' /\ UndisturbedOperationCompletes'
    BY <1>3, <2>1 DEF RecordInv, WorkInv, CleanInv, UndisturbedOperationCompletes
  <2>3. QED
    BY <1>1, <2>2 DEF IInv
<1>4. QED
  BY <1>2, <1>3

LEMMA ScanKeeps == ASSUME IInv, Scan PROVE IInv'
<1>1. /\ scan' = Seen
      /\ UNCHANGED <<machine, target, lock, plan, prepared, confirmed, record, phase, final,
                     blame, events>>
  BY DEF Scan, machine, operation
<1>2. ScanInv'
  BY <1>1 DEF IInv, ScanInv, MachineInv, Snapshots, Seen
<1>3. LockInv' /\ PlanInv' /\ PreparedInv'
  BY <1>1, LockStays, PlanStays, PreparedStays DEF IInv
<1>4. FinalLockIsTrue' /\ confirmed' \in BOOLEAN
  BY <1>1 DEF IInv, MachineInv, FinalLockIsTrue
<1>5. QED
  BY <1>1, <1>2, <1>3, <1>4, CallKeeps

LEMMA ConfirmKeeps == ASSUME IInv, Confirm PROVE IInv'
<1>1. /\ confirmed' = TRUE
      /\ UNCHANGED <<machine, target, scan, lock, plan, prepared, record, phase, final,
                     blame, events>>
  BY DEF Confirm, machine, operation
<1>2. ScanInv' /\ LockInv' /\ PlanInv' /\ PreparedInv'
  BY <1>1, ReviewKept
<1>3. FinalLockIsTrue' /\ confirmed' \in BOOLEAN
  BY <1>1 DEF IInv, FinalLockIsTrue
<1>4. QED
  BY <1>1, <1>2, <1>3, CallKeeps

LEMMA ResolveProfileKeeps ==
    ASSUME IInv, NEW profile \in Profiles, ResolveProfile(profile) PROVE IInv'
<1> DEFINE l == Resolve(profile, scan.target, {0, published}, Entries(published),
                        Installations(scan))
<1>1. /\ phase = "idle" /\ scan # None /\ lock' = l /\ ValidLock(l)
      /\ plan' = None /\ prepared' = None /\ confirmed' = FALSE /\ record' = None
      /\ final' = None
      /\ UNCHANGED <<machine, target, scan, phase, blame, events>>
  BY DEF ResolveProfile, Resolvable, machine
<1>2. scan.target = target /\ published \in DOMAIN Catalogs
  BY <1>1 DEF IInv, ScanInv, Snapshots, MachineInv
<1>3. LockFrom(l, published)
  BY <1>1, <1>2, ResolveGives
<1> HIDE DEF l
<1>4. LockInv'
  <2>1. LockFrom(lock, published)'
    BY <1>1, <1>3 DEF LockFrom, machine
  <2>2. (published \in DOMAIN Catalogs)'
    BY <1>1, <1>2 DEF machine
  <2>3. QED
    BY <2>1, <2>2 DEF LockInv
<1>5. ScanInv' /\ PlanInv' /\ PreparedInv' /\ FinalLockIsTrue'
  BY <1>1 DEF IInv, ScanInv, Snapshots, PlanInv, PreparedInv, FinalLockIsTrue
<1>6. QED
  BY <1>1, <1>4, <1>5, CallKeeps

LEMMA BuildKeeps == ASSUME IInv, BuildBaseInstall PROVE IInv'
<1>1. /\ phase = "idle" /\ lock # None /\ Plannable(lock)
      /\ plan' = PlanFor(lock, scan) /\ scan' = None
      /\ UNCHANGED <<machine, target, lock, prepared, confirmed, record, phase, final,
                     blame, events>>
  BY DEF BuildBaseInstall, machine, operation
<1>2. PICK i \in DOMAIN Catalogs : LockFrom(lock, i)
  BY <1>1 DEF IInv, LockInv
<1>3. GoodPlan(PlanFor(lock, scan))
  BY <1>1, <1>2, PlanIsGood
<1>4. PlanInv'
  <2> DEFINE p == PlanFor(lock, scan)
  <2> HIDE DEF p
  <2>1. GoodPlan(p) /\ plan' = p
    BY <1>1, <1>3 DEF p
  <2>2. GoodPlan(plan)'
    BY <1>1, <2>1 DEF GoodPlan, LockFrom
  <2>3. QED
    BY <2>2 DEF PlanInv
<1>5. ScanInv' /\ LockInv' /\ PreparedInv' /\ FinalLockIsTrue' /\ confirmed' \in BOOLEAN
  BY <1>1, LockStays, PreparedStays DEF IInv, ScanInv, FinalLockIsTrue, MachineInv
<1>6. QED
  BY <1>1, <1>4, <1>5, CallKeeps

LEMMA PrepareReviewKeeps == ASSUME IInv, PrepareReview PROVE IInv'
<1> DEFINE previews == Previews(plan, scan)
<1>1. /\ phase = "idle" /\ plan # None /\ scan # None
      /\ prepared' = [plan |-> plan, review |-> ReviewOf(plan, scan)]
      /\ confirmed' = FALSE /\ record' = None /\ final' = None /\ scan' = None
      /\ UNCHANGED <<machine, target, lock, plan, phase, blame, events>>
  BY DEF PrepareReview, machine
<1>2. GoodPlan(plan) /\ scan.target = target
  BY <1>1 DEF IInv, PlanInv, ScanInv, Snapshots
<1>3. DOMAIN previews = plan.actions /\ Reviewed(plan, previews)
  BY <1>2, ReviewIsGood
<1>4. prepared'.plan = plan /\ prepared'.review.previews = previews
  BY <1>1 DEF ReviewOf
<1> HIDE DEF previews
<1>5. PreparedInv'
  <2>1. GoodPlan(prepared.plan)'
    BY <1>1, <1>2, <1>4 DEF GoodPlan, LockFrom
  <2>2. Reviewed(prepared.plan, prepared.review.previews)'
    BY <1>1, <1>3, <1>4 DEF Reviewed
  <2>3. QED
    BY <1>3, <1>4, <2>1, <2>2 DEF PreparedInv
<1>6. ScanInv' /\ LockInv' /\ PlanInv' /\ FinalLockIsTrue' /\ confirmed' \in BOOLEAN
  BY <1>1, LockStays, PlanStays DEF IInv, ScanInv, FinalLockIsTrue
<1>7. QED
  BY <1>1, <1>5, <1>6, CallKeeps

-----------------------------------------------------------------------------
(* Starting an operation.                                                  *)

\* What can be collected, from a machine with one version of each formula, is
\* installed as the Review says.
LEMMA CollectedIsReviewed ==
    ASSUME NEW p, NEW seen, GoodPlan(p), seen.target = target, Collectable(p, seen),
           \A f \in Formulae : \A v, w \in seen.kegs[f] : v = w, NEW r \in p.actions
    PROVE  AsReviewed(Previews(p, seen)[r], r, seen.kegs)
<1> DEFINE catalog == Catalogs[p.source]
           closure == Closure(catalog, r, BottleTag(seen.target))
           preview == Previews(p, seen)[r]
<1>1. preview = [f \in closure |-> [version |-> catalog[f].version,
                                    state |-> IF f = r THEN "install_required"
                                              ELSE PreviewState(seen, catalog, f)]]
  BY DEF Previews, Preview
<1>2. closure \subseteq Formulae
  BY GoodPlanActions, ClosureHolds
<1>3. \A f \in closure :
        InventoryStatus(seen.kegs, f, catalog[f].version)
            \in (IF f = r THEN {"absent"} ELSE {"absent", "exact"})
  BY DEF Collectable
<1> HIDE DEF closure, preview
<1>4. ASSUME NEW f \in DOMAIN preview
      PROVE  /\ seen.kegs[f] \in {{}, {preview[f].version}}
             /\ f # r /\ preview[f].state = "satisfied" =>
                  seen.kegs[f] = {preview[f].version}
  <2>1. /\ f \in closure /\ f \in Formulae /\ preview[f].version = catalog[f].version
        /\ f # r => preview[f].state = PreviewState(seen, catalog, f)
    BY <1>1, <1>2
  <2>2. seen.kegs[f] = {} \/ catalog[f].version \in seen.kegs[f]
    BY <1>3, <2>1 DEF InventoryStatus
  <2>3. \A v \in seen.kegs[f] : seen.kegs[f] = {v}
    BY <2>1
  <2>4. PreviewState(seen, catalog, f) = "satisfied" => catalog[f].version \in seen.kegs[f]
    BY DEF PreviewState, InventoryStatus
  <2>5. QED
    BY <2>1, <2>2, <2>3, <2>4
<1>5. QED
  BY <1>4 DEF AsReviewed, preview

LEMMA StartExecuteKeeps == ASSUME IInv, StartExecute PROVE IInv'
<1> DEFINE previews == prepared.review.previews
           actions == prepared.plan.actions
           steps == [r \in actions |-> NewStep]
<1>1. /\ phase = "idle" /\ prepared # None /\ scan # None /\ events < MaxEvents
      /\ Collectable(prepared.plan, scan)
      /\ ReviewOf(prepared.plan, scan) = prepared.review
      /\ record' = [state |-> "running", current |-> 1, exit |-> 0, steps |-> steps]
      /\ phase' = "preflight" /\ scan' = None /\ final' = None
      /\ blame' = (IF scan.kegs # kegs THEN {"other"} ELSE {}) \cup
                  (IF \E f \in Formulae : \E v, w \in kegs[f] : v # w THEN {"kegs"} ELSE {})
      /\ events' = events + 1
      /\ UNCHANGED <<target, kegs, homebrew, published, lock, plan, prepared, confirmed>>
  BY DEF StartExecute, Reviewable, machine
<1>2. /\ GoodPlan(prepared.plan) /\ scan.target = target
      /\ MachineInv /\ LockInv /\ PlanInv /\ PreparedInv
  BY <1>1 DEF IInv, PreparedInv, ScanInv, Snapshots
<1>3. /\ DOMAIN Queue = 1..Len(Queue) /\ Len(Queue) \in 1..2 /\ Queue' = Queue
      /\ \A k \in DOMAIN Queue : Queue[k] \in actions
  BY <1>1, <1>2, GoodPlanActions, QueueLists DEF Queue
<1>4. Previews(prepared.plan, scan) = previews
  <2>1. prepared.review = [previews |-> Previews(prepared.plan, scan),
                           homebrew |-> scan.homebrew]
    BY <1>1 DEF ReviewOf
  <2>2. QED
    BY <2>1
<1>5. steps \in [actions -> Steps]
  BY DEF NewStep, Steps, Facts
<1> HIDE DEF steps
<1>6. IsRecord(record', Queue, actions) /\ record'.state = "running" /\ record'.current = 1
  BY <1>1, <1>3, <1>5 DEF IsRecord
<1>7. MachineInv'
  <2>1. events' \in 0..MaxEvents
    BY <1>1, <1>2, BoundAssumption DEF MachineInv
  <2>2. blame' \subseteq {"probe", "process", "index", "other", "kegs"}
    BY <1>1
  <2>3. QED
    BY <1>1, <1>2, <2>1, <2>2 DEF MachineInv
<1>8. ScanInv' /\ LockInv' /\ PlanInv' /\ PreparedInv'
  <2>1. ScanInv'
    BY <1>1 DEF ScanInv
  <2>2. QED
    BY <1>1, <1>2, <2>1, LockStays, PlanStays, PreparedStays
<1>9. RecordInv'
  BY <1>1, <1>3, <1>6 DEF RecordInv
<1>10. WorkInv'
  <2>1. Work(Queue, previews, record', phase', kegs')
    <3>1. \A k \in DOMAIN Queue : ~(k < record'.current \/ record'.state = "completed")
      BY <1>3, <1>6
    <3> HIDE DEF previews
    <3>2. QED
      BY <1>1, <3>1 DEF Work
  <2>2. QED
    BY <1>1, <1>3, <2>1 DEF WorkInv
<1>11. CleanInv'
  <2> SUFFICES ASSUME blame' = {} PROVE Clean(Queue, previews, record', phase', kegs')
    BY <1>1, <1>3 DEF CleanInv
  <2>1. scan.kegs = kegs /\ \A f \in Formulae : \A v, w \in kegs[f] : v = w
    BY <1>1
  <2>2. ASSUME NEW k \in DOMAIN Queue PROVE AsReviewed(previews[Queue[k]], Queue[k], kegs)
    <3> HIDE DEF previews
    <3>1. QED
      BY <1>1, <1>2, <1>3, <1>4, <2>1, CollectedIsReviewed
  <2> HIDE DEF previews
  <2>3. QED
    BY <1>1, <2>2 DEF Clean
<1>12. UndisturbedOperationCompletes' /\ FinalLockIsTrue'
  BY <1>1, <1>6 DEF UndisturbedOperationCompletes, FinalLockIsTrue
<1>13. QED
  BY <1>7, <1>8, <1>9, <1>10, <1>11, <1>12 DEF IInv

-----------------------------------------------------------------------------
(* The final Lock.                                                         *)

\* Evidence replaces everything of an item but its implementation.
LEMMA NewEvidence ==
    ASSUME NEW item, IsItem(item), NEW state, NEW reason, NEW observed
    PROVE  WithEvidence(item, [state |-> state, reason |-> reason, observed |-> observed]) =
             [state |-> state, reason |-> reason, observed |-> observed,
              implementation |-> item.implementation]
<1>1. WithEvidence(item, [state |-> state, reason |-> reason, observed |-> observed]) =
        [item EXCEPT !.state = state, !.reason = reason, !.observed = observed]
  BY DEF WithEvidence
<1> DEFINE s == item.state
           w == item.reason
           o == item.observed
           impl == item.implementation
<1>2. item = [state |-> s, reason |-> w, observed |-> o, implementation |-> impl]
  BY DEF IsItem
<1> HIDE DEF s, w, o, impl
<1>3. QED
  BY <1>1, <1>2 DEF impl

\* What the operation learned of the Plan's items, and nothing else.
LEMMA DerivedLock ==
    ASSUME NEW p, GoodPlan(p), p = prepared.plan
    PROVE  LET l == DeriveState(p.lock, StateUpdates)
           IN  /\ l.profile = p.lock.profile /\ l.sources = {0, p.source}
               /\ DOMAIN l.items = DOMAIN p.lock.items
               /\ BaseItems(l) = BaseItems(p.lock)
               /\ \A r \in p.actions :
                    ItemOf(l, r) =
                      [state |-> "satisfied", reason |-> "compatible_installation",
                       observed |-> {[manager |-> "homebrew",
                                      version |-> Catalogs[p.source][r].version]},
                       implementation |-> Offer(r, p.source)]
               /\ \A f \in BaseItems(l) \ p.actions : ItemOf(l, f) = ItemOf(p.lock, f)
               /\ \A c \in DOMAIN l.items :
                    c \notin {BaseCapability[r] : r \in p.actions} =>
                        l.items[c] = p.lock.items[c]
<1> DEFINE U == StateUpdates
           items == Updated(p.lock.items, U)
           l == DeriveState(p.lock, U)
<1>1. /\ l.profile = p.lock.profile /\ l.sources = {0, p.source} /\ l.items = items
  <2>1. p.lock = [profile |-> p.lock.profile, target |-> target,
                  sources |-> {0, p.source}, items |-> p.lock.items]
    BY DEF GoodPlan, LockFrom
  <2> DEFINE new == items
  <2>2. l = [p.lock EXCEPT !.items = new]
    BY DEF DeriveState
  <2> HIDE DEF new, l
  <2>3. l.profile = p.lock.profile /\ l.sources = {0, p.source} /\ l.items = new
    BY <2>1, <2>2
  <2>4. QED
    BY <2>3 DEF new
<1>2. /\ DOMAIN items = DOMAIN p.lock.items
      /\ \A c \in DOMAIN items :
           items[c] = IF c \in DOMAIN U THEN WithEvidence(p.lock.items[c], U[c])
                      ELSE p.lock.items[c]
  BY DEF Updated
<1>3. DOMAIN U = {BaseCapability[r] : r \in p.actions}
  BY DEF StateUpdates
<1>4. \A r \in p.actions :
        U[BaseCapability[r]] =
          [state |-> "satisfied", reason |-> "compatible_installation",
           observed |-> {[manager |-> "homebrew",
                          version |-> ItemOf(p.lock, r).implementation.version]}]
  BY DEF StateUpdates, ItemOf
<1> HIDE DEF U, items, l
<1>5. BaseItems(l) = BaseItems(p.lock)
  BY <1>1, <1>2 DEF BaseItems
<1>6. ASSUME NEW r \in p.actions
      PROVE  ItemOf(l, r) =
               [state |-> "satisfied", reason |-> "compatible_installation",
                observed |-> {[manager |-> "homebrew",
                               version |-> Catalogs[p.source][r].version]},
                implementation |-> Offer(r, p.source)]
  <2> DEFINE c == BaseCapability[r]
             item == ItemOf(p.lock, r)
  <2>1. /\ c \in DOMAIN p.lock.items /\ IsItem(item)
        /\ item.implementation = Offer(r, p.source)
    BY GoodPlanActions
  <2>2. item.implementation.version = Catalogs[p.source][r].version
    BY <2>1 DEF Offer
  <2>3. ItemOf(l, r) = WithEvidence(item, U[c])
    BY <1>1, <1>2, <1>3, <2>1 DEF ItemOf
  <2>4. U[c] = [state |-> "satisfied", reason |-> "compatible_installation",
                observed |-> {[manager |-> "homebrew",
                               version |-> item.implementation.version]}]
    BY <1>4
  <2> HIDE DEF item, c
  <2> DEFINE observed == {[manager |-> "homebrew", version |-> item.implementation.version]}
  <2>5. observed = {[manager |-> "homebrew", version |-> Catalogs[p.source][r].version]}
    BY <2>2
  <2> HIDE DEF observed
  <2>6. WithEvidence(item, [state |-> "satisfied", reason |-> "compatible_installation",
                            observed |-> observed]) =
          [state |-> "satisfied", reason |-> "compatible_installation",
           observed |-> observed, implementation |-> item.implementation]
    BY <2>1, NewEvidence
  <2>7. ItemOf(l, r) = [state |-> "satisfied", reason |-> "compatible_installation",
                        observed |-> observed, implementation |-> Offer(r, p.source)]
    BY <2>1, <2>3, <2>4, <2>6 DEF observed
  <2>8. QED
    BY <2>5, <2>7
<1>7. ASSUME NEW f \in BaseItems(l) \ p.actions PROVE ItemOf(l, f) = ItemOf(p.lock, f)
  <2>1. f \in RootSet /\ BaseCapability[f] \in DOMAIN items
    BY <1>1 DEF BaseItems
  <2>2. BaseCapability[f] \notin DOMAIN U
    <3>1. \A r \in p.actions : r \in RootSet
      BY GoodPlanActions
    <3>2. \A r \in p.actions : BaseCapability[f] # BaseCapability[r]
      BY <1>7, <2>1, <3>1, Basics
    <3>3. QED
      BY <1>3, <3>2
  <2>3. QED
    BY <1>1, <1>2, <2>1, <2>2 DEF ItemOf
<1>8. \A c \in DOMAIN l.items :
        c \notin {BaseCapability[r] : r \in p.actions} => l.items[c] = p.lock.items[c]
  BY <1>1, <1>2, <1>3
<1>9. QED
  BY <1>1, <1>2, <1>5, <1>6, <1>7, <1>8 DEF l, U

\* What resolving again says of a formula whose published version is the one
\* that is installed.
LEMMA ResolvedAgain ==
    ASSUME NEW i \in DOMAIN Catalogs, NEW r \in RootSet, NEW modules, NEW seen,
           seen.kegs \in [Formulae -> SUBSET Versions], Offered(seen.target),
           seen.kegs[r] = {Catalogs[i][r].version}
    PROVE  ResolveCapability(BaseCapability[r], modules, seen.target, Entries(i),
                             Installations(seen)) =
             [state |-> "satisfied", reason |-> "compatible_installation",
              observed |-> {[manager |-> "homebrew", version |-> Catalogs[i][r].version]},
              implementation |-> Offer(r, i)]
<1> DEFINE item == ResolvedTo(Offer(r, i), Installations(seen), seen.target)
           same == {[manager |-> "homebrew", version |-> Catalogs[i][r].version]}
<1>1. ResolveCapability(BaseCapability[r], modules, seen.target, Entries(i),
                        Installations(seen)) = item
  BY FormulaResolves
<1>2. r \in Formulae
  BY Basics
<1>3. MatchingInstallation(Installations(seen), Offer(r, i), seen.target)
  BY <1>2, MatchingFormula
<1>4. Observed(Installations(seen), Offer(r, i).tool) = same
  <2>1. Offer(r, i).tool = r
    BY DEF Offer
  <2>2. Observed(Installations(seen), r) =
          {[manager |-> "homebrew", version |-> v] : v \in seen.kegs[r]}
    BY <1>2, ObservedFormula
  <2>3. QED
    BY <2>1, <2>2
<1>5. /\ item.state = "satisfied" /\ item.reason = "compatible_installation"
      /\ item.observed = same /\ item.implementation = Offer(r, i) /\ IsItem(item)
  BY <1>3, <1>4, ResolvedItem
<1> HIDE DEF item, same
<1>6. item = [state |-> "satisfied", reason |-> "compatible_installation",
              observed |-> same, implementation |-> Offer(r, i)]
  BY <1>5 DEF IsItem
<1>7. QED
  BY <1>1, <1>6 DEF same

LEMMA FinalizeKeeps == ASSUME IInv, Finalize PROVE IInv'
<1> DEFINE p == prepared.plan
           i == prepared.plan.source
           l == DeriveState(prepared.plan.lock, StateUpdates)
<1>1. /\ phase = "idle" /\ record # None /\ scan # None /\ Finalizable(scan)
      /\ final' = [lock |-> l, scan |-> scan, actions |-> p.actions]
      /\ scan' = None
      /\ UNCHANGED <<machine, target, lock, plan, prepared, confirmed, record, phase,
                     blame, events>>
  BY DEF Finalize, machine, operation
<1>2. /\ Operated /\ GoodPlan(p) /\ i \in DOMAIN Catalogs /\ p.actions = BaseActions(p.lock)
      /\ p.actions \subseteq RootSet
      /\ scan \in Snapshots /\ scan.target = target
      /\ scan.kegs \in [Formulae -> SUBSET Versions]
  BY <1>1, Operating, GoodPlanActions DEF Operated, IInv, ScanInv, Snapshots, GoodPlan
<1>3. /\ l.profile = p.lock.profile /\ l.sources = {0, i}
      /\ DOMAIN l.items = DOMAIN p.lock.items /\ BaseItems(l) = BaseItems(p.lock)
      /\ \A r \in p.actions :
           ItemOf(l, r) =
             [state |-> "satisfied", reason |-> "compatible_installation",
              observed |-> {[manager |-> "homebrew", version |-> Catalogs[i][r].version]},
              implementation |-> Offer(r, i)]
      /\ \A f \in BaseItems(l) \ p.actions : ItemOf(l, f) = ItemOf(p.lock, f)
  BY <1>2, DerivedLock
<1>4. ASSUME NEW r \in p.actions PROVE scan.kegs[r] = {Catalogs[i][r].version}
  <2> DEFINE preview == prepared.review.previews[r]
  <2>1. ClosureIsExact(preview, scan.kegs)
    BY <1>1 DEF Finalizable
  <2>2. r \in DOMAIN preview /\ preview[r].version = Catalogs[i][r].version
    BY <1>2, Operating
  <2> HIDE DEF preview
  <2>3. QED
    BY <2>1, <2>2, StatusMeans DEF ClosureIsExact
<1>5. \A r \in p.actions : Offered(target) /\ BaseCapability[r] \in DOMAIN p.lock.items
  BY <1>2, GoodPlanActions
<1> HIDE DEF l, p, i
<1>6. BaseActions(l) = {}
  <2>1. ASSUME NEW f \in BaseActions(l) PROVE FALSE
    <3>1. f \in BaseItems(l) /\ ItemOf(l, f).state = "install_required"
      BY <2>1 DEF BaseActions
    <3>2. f \notin p.actions
      BY <1>3, <3>1
    <3>3. ItemOf(p.lock, f).state = "install_required" /\ f \in BaseItems(p.lock)
      BY <1>3, <3>1, <3>2
    <3>4. QED
      BY <1>2, <3>2, <3>3 DEF BaseActions
  <2>2. QED
    BY <2>1
<1>7. (CHOOSE n \in l.sources : \A j \in l.sources : j <= n) = i
  <2>1. i \in Nat \ {0}
    BY <1>2, Basics
  <2>2. \A n \in {0, i} : (\A j \in {0, i} : j <= n) <=> n = i
    BY <2>1
  <2>3. QED
    BY <1>3, <2>1, <2>2
<1>8. ASSUME NEW r \in p.actions
      PROVE  ItemOf(l, r) = Refreshed(l, scan)[BaseCapability[r]]
  <2>1. Refreshed(l, scan)[BaseCapability[r]] =
          ResolveCapability(BaseCapability[r], l.profile, scan.target, Entries(i),
                            Installations(scan))
    BY <1>3, <1>5, <1>7 DEF Refreshed
  <2>2. ResolveCapability(BaseCapability[r], l.profile, scan.target, Entries(i),
                          Installations(scan)) = ItemOf(l, r)
    BY <1>2, <1>3, <1>4, <1>5, ResolvedAgain
  <2>3. QED
    BY <2>1, <2>2
<1>9. FinalLockIsTrue'
  <2>1. final'.lock = l /\ final'.scan = scan /\ final'.actions = p.actions
    BY <1>1
  <2>2. BaseActions(final'.lock) = {}
    BY <1>6, <2>1
  <2>3. \A r \in final'.actions :
          ItemOf(final'.lock, r) = Refreshed(final'.lock, final'.scan)[BaseCapability[r]]
    BY <1>8, <2>1
  <2>4. QED
    BY <2>2, <2>3 DEF FinalLockIsTrue
<1>10. ScanInv' /\ LockInv' /\ PlanInv' /\ PreparedInv' /\ confirmed' \in BOOLEAN
  BY <1>1, LockStays, PlanStays, PreparedStays DEF IInv, ScanInv, MachineInv
<1>11. QED
  BY <1>1, <1>9, <1>10, CallKeeps

-----------------------------------------------------------------------------
(* Other programs, and the theorems.                                       *)

LEMMA DisturbKeeps ==
    ASSUME IInv, NEW installed \in [Formulae -> SUBSET Versions], NEW brew \in Homebrews,
           NEW catalog \in DOMAIN Catalogs, Disturb(installed, brew, catalog)
    PROVE  IInv'
<1>1. /\ events < MaxEvents /\ events' = events + 1
      /\ kegs' = installed /\ homebrew' = brew /\ published' = catalog
      /\ blame' = IF installed # kegs THEN blame \cup {"other"} ELSE blame
      /\ UNCHANGED <<target, scan, lock, plan, prepared, confirmed, record, phase, final>>
  BY DEF Disturb, review, operation
<1>2. MachineInv'
  <2>1. events' \in 0..MaxEvents /\ blame' \subseteq {"probe", "process", "index", "other", "kegs"}
    BY <1>1, BoundAssumption DEF IInv, MachineInv
  <2>2. QED
    BY <1>1, <2>1 DEF IInv, MachineInv
<1>3. ScanInv' /\ LockInv' /\ PlanInv' /\ PreparedInv'
  BY <1>1, ReviewKept
<1>4. Queue' = Queue /\ (Operated' <=> Operated)
  BY <1>1 DEF Queue, Operated
<1>5. RecordInv'
  BY <1>1, <1>4 DEF IInv, RecordInv
<1>6. kegs' = kegs \/ "other" \in blame'
  BY <1>1
<1>7. blame \subseteq blame'
  BY <1>1
<1>8. WorkInv'
  BY <1>1, <1>4, <1>6, <1>7 DEF IInv, WorkInv
<1>9. CleanInv'
  BY <1>1, <1>4, <1>6, <1>7 DEF IInv, CleanInv
<1>10. UndisturbedOperationCompletes' /\ FinalLockIsTrue'
  BY <1>1, <1>7 DEF IInv, UndisturbedOperationCompletes, FinalLockIsTrue
<1>11. QED
  BY <1>2, <1>3, <1>5, <1>8, <1>9, <1>10 DEF IInv

LEMMA InitEstablishes == Init => IInv
<1> SUFFICES ASSUME Init PROVE IInv
  OBVIOUS
<1>1. MachineInv
  <2>1. kegs \in [Formulae -> SUBSET Versions]
    BY DEF Init
  <2>2. /\ target \in Machines /\ homebrew \in Homebrews /\ published = 1 /\ events = 0
        /\ phase = "idle" /\ blame = {} /\ confirmed = FALSE
    BY DEF Init
  <2>3. 1 \in DOMAIN Catalogs /\ 0 \in 0..MaxEvents
    BY BoundAssumption, Basics
  <2>4. QED
    BY <2>1, <2>2, <2>3 DEF MachineInv
<1>2. ScanInv /\ LockInv /\ PlanInv /\ PreparedInv
  BY DEF Init, ScanInv, LockInv, PlanInv, PreparedInv
<1>3. ~Operated /\ record = None /\ final = None /\ phase = "idle"
  BY DEF Init, Operated
<1>4. RecordInv /\ WorkInv /\ CleanInv
  BY <1>3 DEF RecordInv, WorkInv, CleanInv
<1>5. UndisturbedOperationCompletes /\ FinalLockIsTrue
  BY <1>3 DEF UndisturbedOperationCompletes, FinalLockIsTrue
<1>6. QED
  BY <1>1, <1>2, <1>4, <1>5 DEF IInv

LEMMA StutterKeeps == ASSUME IInv, UNCHANGED vars PROVE IInv'
<1>1. UNCHANGED <<machine, target, scan, lock, plan, prepared, confirmed, record, phase,
                  final, blame, events>>
  BY DEF vars, machine, review, operation
<1>2. ScanInv' /\ LockInv' /\ PlanInv' /\ PreparedInv'
  BY <1>1, ReviewKept
<1>3. FinalLockIsTrue' /\ confirmed' \in BOOLEAN
  BY <1>1 DEF IInv, MachineInv, FinalLockIsTrue
<1>4. QED
  BY <1>1, <1>2, <1>3, CallKeeps

LEMMA NextKeeps == ASSUME IInv, [Next]_vars PROVE IInv'
<1>1. /\ homebrew \in Homebrews /\ published \in DOMAIN Catalogs
      /\ kegs \in [Formulae -> SUBSET Versions]
  BY DEF IInv, MachineInv
<1>2. CASE Scan
  BY <1>2, ScanKeeps
<1>3. ASSUME NEW profile \in Profiles, ResolveProfile(profile) PROVE IInv'
  BY <1>3, ResolveProfileKeeps
<1>4. CASE BuildBaseInstall
  BY <1>4, BuildKeeps
<1>5. CASE PrepareReview
  BY <1>5, PrepareReviewKeeps
<1>6. CASE Confirm
  BY <1>6, ConfirmKeeps
<1>7. CASE StartExecute
  BY <1>7, StartExecuteKeeps
<1>8. CASE Preflight
  BY <1>8, PreflightKeeps
<1>9. CASE Capture
  BY <1>9, CaptureKeeps
<1>10. CASE Check
  BY <1>10, CheckKeeps
<1>11. CASE BrewInstalls
  BY <1>11, BrewInstallsKeeps
<1>12. CASE CaptureAfter
  BY <1>12, CaptureAfterKeeps
<1>13. CASE Verify
  BY <1>13, VerifyKeeps
<1>14. CASE ProbeFails
  BY <1>14, ProbeFailsKeeps
<1>15. CASE Crash
  BY <1>15, CrashKeeps
<1>16. CASE Finalize
  BY <1>16, FinalizeKeeps
<1>17. ASSUME NEW f \in Formulae, NEW v \in Versions, OtherInstalls(f, v) PROVE IInv'
  <2> DEFINE installed == [kegs EXCEPT ![f] = @ \cup {v}]
  <2>1. installed \in [Formulae -> SUBSET Versions]
    BY <1>1
  <2>2. Disturb(installed, homebrew, published)
    BY <1>17 DEF OtherInstalls
  <2> HIDE DEF installed
  <2>3. QED
    BY <1>1, <2>1, <2>2, DisturbKeeps
<1>18. ASSUME NEW f \in Formulae, OtherRemoves(f) PROVE IInv'
  <2> DEFINE installed == [kegs EXCEPT ![f] = {}]
  <2>1. installed \in [Formulae -> SUBSET Versions]
    BY <1>1
  <2>2. Disturb(installed, homebrew, published)
    BY <1>18 DEF OtherRemoves
  <2> HIDE DEF installed
  <2>3. QED
    BY <1>1, <2>1, <2>2, DisturbKeeps
<1>19. ASSUME NEW brew \in Homebrews, HomebrewChanges(brew) PROVE IInv'
  BY <1>1, <1>19, DisturbKeeps DEF HomebrewChanges
<1>20. CASE Publish
  <2>1. published < Len(Catalogs) /\ Disturb(kegs, homebrew, published + 1)
    BY <1>20 DEF Publish
  <2>2. published + 1 \in DOMAIN Catalogs
    BY <1>1, <2>1, CatalogsAssumption
  <2>3. QED
    BY <1>1, <2>1, <2>2, DisturbKeeps
<1>21. CASE UNCHANGED vars
  BY <1>21, StutterKeeps
<1>22. QED
  BY <1>2, <1>3, <1>4, <1>5, <1>6, <1>7, <1>8, <1>9, <1>10, <1>11, <1>12, <1>13, <1>14,
     <1>15, <1>16, <1>17, <1>18, <1>19, <1>20, <1>21 DEF Next

\* Whatever the machine, the catalogs and the other programs do, what is
\* prepared, recorded and installed stays in accord.
THEOREM Inductive == Spec => []IInv
BY InitEstablishes, NextKeeps, PTL DEF Spec

\* Every variable keeps its type: in particular a record is there only with the
\* Review it was started from, and its current action is one of the Plan's.
THEOREM TypeCorrect == Spec => []TypeOK
<1>1. IInv => TypeOK
  <2> SUFFICES ASSUME IInv PROVE TypeOK
    OBVIOUS
  <2>1. ASSUME lock # None, NEW c \in DOMAIN lock.items
        PROVE  lock.items[c].state \in ItemStates
    BY <2>1 DEF IInv, LockInv, LockFrom, IsItem
  <2>2. plan # None => plan.actions # {} /\ plan.actions \subseteq RootSet
    BY GoodPlanActions DEF IInv, PlanInv
  <2>3. prepared # None => DOMAIN prepared.review.previews = prepared.plan.actions
    BY DEF IInv, PreparedInv
  <2>4. record # None =>
          /\ prepared # None
          /\ record.state \in {"running", "failed", "interrupted", "completed"}
          /\ phase = "idle" <=> record.state # "running"
          /\ record.current \in DOMAIN Queue
    BY Operating DEF Operated
  <2>5. MachineInv
    BY DEF IInv
  <2>6. QED
    BY <2>1, <2>2, <2>3, <2>4, <2>5 DEF TypeOK, MachineInv
<1>2. QED
  BY <1>1, Inductive, PTL

\* The final Lock of a completed operation (outcome.go) agrees with what
\* resolving the scan behind it again would say of every formula that was
\* installed, and a second Plan would find nothing to do.
THEOREM FinalLocksAreTrue == Spec => []FinalLockIsTrue
<1>1. IInv => FinalLockIsTrue
  BY DEF IInv
<1>2. QED
  BY <1>1, Inductive, PTL

\* The executor of baseapply refuses nothing that it caused itself: an operation
\* that fails was disturbed, or one of its processes failed.
THEOREM UndisturbedCompletes == Spec => []UndisturbedOperationCompletes
<1>1. IInv => UndisturbedOperationCompletes
  BY DEF IInv
<1>2. QED
  BY <1>1, Inductive, PTL

\* The Lock of a good Plan can be brought up to date after its operation.
LEMMA PlanIsDerivable ==
    ASSUME NEW p, GoodPlan(p), p = prepared.plan
    PROVE  Derivable(p.lock, StateUpdates)
<1> DEFINE l == DeriveState(p.lock, StateUpdates)
           i == p.source
           changed == {BaseCapability[r] : r \in p.actions}
           New(r) == [state |-> "satisfied", reason |-> "compatible_installation",
                      observed |-> {[manager |-> "homebrew", version |-> Catalogs[i][r].version]},
                      implementation |-> Offer(r, i)]
<1>1. /\ ValidLock(p.lock) /\ p.lock.sources = {0, i}
      /\ p.lock.items = [c \in DOMAIN p.lock.items |-> p.lock.items[c]]
  <2>1. LockFrom(p.lock, i)
    BY DEF GoodPlan
  <2>2. p.lock.sources = {0, i}
    BY <2>1 DEF LockFrom
  <2>3. QED
    BY <2>1, <2>2 DEF LockFrom
<1>2. /\ l.sources = {0, i} /\ DOMAIN l.items = DOMAIN p.lock.items
      /\ \A r \in p.actions : ItemOf(l, r) = New(r)
      /\ \A c \in DOMAIN l.items : c \notin changed => l.items[c] = p.lock.items[c]
  BY DerivedLock
<1>3. /\ p.actions # {} /\ p.actions \subseteq RootSet
      /\ \A r \in p.actions : /\ BaseCapability[r] \in DOMAIN p.lock.items
                              /\ ItemOf(p.lock, r).state = "install_required"
  BY GoodPlanActions
<1>4. DOMAIN StateUpdates = changed
  BY DEF StateUpdates
<1> HIDE DEF l
<1>5. changed # {} /\ changed \subseteq DOMAIN p.lock.items
  BY <1>3
<1>6. l # p.lock
  <2>1. PICK r \in p.actions : TRUE
    BY <1>3
  <2>2. ItemOf(l, r).state = "satisfied" /\ ItemOf(p.lock, r).state = "install_required"
    BY <1>2, <1>3
  <2>3. QED
    BY <2>2
<1>7. ValidLock(l)
  <2>1. DOMAIN l.items # {}
    BY <1>1, <1>2 DEF ValidLock
  <2>2. ASSUME NEW r \in p.actions
        PROVE  ValidItem(New(r)) /\ New(r).implementation.source \in l.sources
    <3> DEFINE item == New(r)
               same == [manager |-> "homebrew", version |-> Catalogs[i][r].version]
    <3>1. /\ item.state = "satisfied" /\ item.reason = "compatible_installation"
          /\ item.observed = {same} /\ item.implementation = Offer(r, i)
      OBVIOUS
    <3>2. /\ [manager |-> Offer(r, i).manager, version |-> Offer(r, i).version] = same
          /\ Offer(r, i).source = i
      BY DEF Offer
    <3> HIDE DEF item, same
    <3>3. ValidItem(item) /\ item.implementation.source \in l.sources
      BY <1>2, <3>1, <3>2 DEF ValidItem
    <3>4. QED
      BY <3>3 DEF item
  <2>3. ASSUME NEW c \in DOMAIN l.items
        PROVE  /\ ValidItem(l.items[c])
               /\ l.items[c].state # "unresolved" =>
                    l.items[c].implementation.source \in l.sources
    <3>1. CASE c \in changed
      <4>1. PICK r \in p.actions : c = BaseCapability[r]
        BY <3>1
      <4>2. l.items[c] = New(r)
        BY <1>2, <4>1 DEF ItemOf
      <4> HIDE DEF New
      <4>3. QED
        BY <2>2, <4>2
    <3>2. CASE c \notin changed
      BY <1>1, <1>2, <3>2 DEF ValidLock
    <3>3. QED
      BY <3>1, <3>2
  <2>4. QED
    BY <2>1, <2>3 DEF ValidLock
<1>8. QED
  BY <1>4, <1>5, <1>6, <1>7 DEF Derivable, l

\* What the record says of a completed operation is enough for Finalize, as long
\* as nobody disturbed it: whatever it skipped, and whatever an earlier action
\* installed for a later one.
THEOREM CompletionsCanBeFinalized == Spec => []CompletedOperationCanBeFinalized
<1>1. IInv => CompletedOperationCanBeFinalized
  <2> SUFFICES ASSUME IInv, record # None, record.state = "completed", "other" \notin blame,
                      HomebrewIsTheSame(Seen)
               PROVE  Finalizable(Seen)
    BY DEF CompletedOperationCanBeFinalized
  <2> DEFINE previews == prepared.review.previews
  <2>1. /\ Operated /\ GoodPlan(prepared.plan)
        /\ \A r \in prepared.plan.actions : \E k \in DOMAIN Queue : Queue[k] = r
    BY Operating DEF Operated
  <2>2. Seen.target = prepared.plan.lock.target /\ Seen.kegs = kegs
    <3>1. LockFrom(prepared.plan.lock, prepared.plan.source)
      BY <2>1 DEF GoodPlan
    <3>2. prepared.plan.lock.target = target
      BY <3>1 DEF LockFrom
    <3>3. QED
      BY <3>2 DEF Seen
  <2>3. Work(Queue, previews, record, phase, kegs)
    BY <2>1 DEF IInv, WorkInv
  <2>4. ASSUME NEW r \in prepared.plan.actions
        PROVE  ClosureIsExact(previews[r], kegs) /\ StepIsReviewed(record.steps[r], previews[r])
    <3>1. PICK k \in DOMAIN Queue : Queue[k] = r
      BY <2>1
    <3> HIDE DEF previews
    <3>2. Worked(record.steps[r], previews[r], kegs)
      BY <2>3, <3>1 DEF Work
    <3>3. QED
      BY <3>2 DEF Worked
  <2>5. Derivable(prepared.plan.lock, StateUpdates)
    BY <2>1, PlanIsDerivable
  <2>6. QED
    BY <2>2, <2>4, <2>5 DEF Finalizable
<1>2. QED
  BY <1>1, Inductive, PTL

\* A machine on which every formula is absent or at the version that the catalog
\* offers, what its Lock says of a formula, and the Plan for such a Lock.
CleanMachine(seen, i) ==
    /\ seen.kegs \in [Formulae -> SUBSET Versions] /\ seen.target.os = "macos"
    /\ \A f \in Formulae : seen.kegs[f] \in {{}, {Catalogs[i][f].version}}

CleanItem(item, seen, f, i) ==
    /\ item.state = IF seen.kegs[f] = {} THEN "install_required" ELSE "satisfied"
    /\ item.implementation = Offer(f, i)

CleanPlan(l, p, seen, i) ==
    /\ Plannable(l) /\ p.lock = l /\ l.target = seen.target
    /\ p.actions \subseteq RootSet /\ p.source = i /\ p.homebrew = seen.homebrew.identity
    /\ \A r \in p.actions : /\ seen.kegs[r] = {}
                            /\ ItemOf(l, r).implementation = Offer(r, i)

LEMMA CleanFormula ==
    ASSUME NEW i \in DOMAIN Catalogs, NEW seen, CleanMachine(seen, i), Offered(seen.target),
           NEW f \in RootSet, NEW modules
    PROVE  CleanItem(ResolveCapability(BaseCapability[f], modules, seen.target, Entries(i),
                                       Installations(seen)), seen, f, i)
<1> DEFINE item == ResolvedTo(Offer(f, i), Installations(seen), seen.target)
<1>1. ResolveCapability(BaseCapability[f], modules, seen.target, Entries(i),
                        Installations(seen)) = item
  BY FormulaResolves
<1>2. /\ f \in Formulae /\ Offer(f, i).tool = f
      /\ seen.kegs \in [Formulae -> SUBSET Versions]
      /\ seen.kegs[f] \in {{}, {Catalogs[i][f].version}}
  BY Basics DEF Offer, CleanMachine
<1>3. MatchingInstallation(Installations(seen), Offer(f, i), seen.target) <=>
        seen.kegs[f] # {}
  BY <1>2, MatchingFormula
<1>4. Observed(Installations(seen), f) = {} <=> seen.kegs[f] = {}
  <2>1. Observed(Installations(seen), f) =
          {[manager |-> "homebrew", version |-> v] : v \in seen.kegs[f]}
    BY <1>2, ObservedFormula
  <2>2. \A v \in seen.kegs[f] :
          [manager |-> "homebrew", version |-> v] \in Observed(Installations(seen), f)
    BY <2>1
  <2>3. \A o \in Observed(Installations(seen), f) : \E v \in seen.kegs[f] : TRUE
    BY <2>1
  <2>4. QED
    BY <2>2, <2>3
<1>5. /\ item.implementation = Offer(f, i)
      /\ item.state \in {"satisfied", "install_required", "conflict"}
      /\ item.state = "satisfied" <=> seen.kegs[f] # {}
      /\ item.state = "conflict" => seen.kegs[f] # {}
  BY <1>2, <1>3, <1>4, ResolvedItem
<1> HIDE DEF item
<1>6. QED
  BY <1>1, <1>5 DEF CleanItem

\* The Lock of a clean machine can be planned, if it has anything to install.
LEMMA CleanIsPlannable ==
    ASSUME NEW i \in DOMAIN Catalogs, NEW seen, CleanMachine(seen, i),
           NEW profile, HasBase(profile),
           BaseActions(Resolve(profile, seen.target, {0, i}, Entries(i), Installations(seen)))
               # {}
    PROVE  LET l == Resolve(profile, seen.target, {0, i}, Entries(i), Installations(seen))
           IN  CleanPlan(l, PlanFor(l, seen), seen, i)
<1> DEFINE modules == Normalize(profile)
           Item(c) == ResolveCapability(c, modules, seen.target, Entries(i),
                                        Installations(seen))
           l == Resolve(profile, seen.target, {0, i}, Entries(i), Installations(seen))
           p == PlanFor(l, seen)
           first == CHOOSE f \in BaseActions(l) : TRUE
<1>1. /\ l.target = seen.target /\ DOMAIN l.items = Desired(modules)
      /\ \A c \in Desired(modules) : l.items[c] = Item(c)
  BY DEF Resolve
<1>2. "base.git" \in Desired(modules)
  <2>1. PICK j \in DOMAIN profile : profile[j].id = "base"
    BY DEF HasBase
  <2>2. NormalModule(profile[j]) \in modules /\ NormalModule(profile[j]).id = "base"
    BY <2>1 DEF Normalize, NormalModule
  <2>3. /\ "base.git" \in DOMAIN Capabilities
        /\ Capabilities["base.git"].module = "base" /\ Capabilities["base.git"].option = ""
    BY DEF Capabilities, Capability
  <2> HIDE DEF modules
  <2>4. QED
    BY <2>2, <2>3 DEF Desired
<1> HIDE DEF l, Item, modules
<1>3. \A f \in BaseItems(l) : /\ f \in RootSet
                              /\ ItemOf(l, f) = Item(BaseCapability[f])
  BY <1>1 DEF BaseItems, ItemOf
<1>4. Offered(seen.target)
  <2> SUFFICES ASSUME ~Offered(seen.target) PROVE FALSE
    OBVIOUS
  <2>1. PICK f \in BaseActions(l) : TRUE
    BY DEF l
  <2>2. f \in BaseItems(l) /\ ItemOf(l, f).state = "install_required"
    BY <2>1 DEF BaseActions
  <2>3. Item(BaseCapability[f]) = Unresolved(Item(BaseCapability[f]).reason)
    BY <1>3, <2>2, FormulaResolves DEF Item
  <2>4. QED
    BY <1>3, <2>2, <2>3 DEF Unresolved
<1>5. ASSUME NEW f \in BaseItems(l) PROVE CleanItem(ItemOf(l, f), seen, f, i)
  BY <1>3, <1>4, CleanFormula DEF Item
<1>6. "git" \in BaseItems(l)
  BY <1>1, <1>2, Basics DEF BaseItems
<1>7. BaseActions(l) # {}
  BY DEF l
<1>8. Plannable(l)
  BY <1>1, <1>5, <1>6, <1>7 DEF Plannable, CleanItem, CleanMachine
<1>9. p.lock = l /\ p.actions = BaseActions(l) /\ p.homebrew = seen.homebrew.identity
      /\ p.source = i
  <2>1. first \in BaseActions(l)
    BY <1>7
  <2> HIDE DEF first
  <2>2. first \in BaseItems(l)
    BY <2>1 DEF BaseActions
  <2>3. ItemOf(l, first).implementation = Offer(first, i)
    BY <1>5, <2>2 DEF CleanItem
  <2>4. ItemOf(l, first).implementation.source = i
    BY <2>3 DEF Offer
  <2>5. QED
    BY <2>4 DEF PlanFor, first
<1>10. \A r \in BaseActions(l) : r \in BaseItems(l) /\ ItemOf(l, r).state = "install_required"
  BY DEF BaseActions
<1>11. \A r \in p.actions : /\ r \in RootSet /\ seen.kegs[r] = {}
                            /\ ItemOf(l, r).implementation = Offer(r, i)
  BY <1>3, <1>5, <1>9, <1>10 DEF CleanItem
<1> HIDE DEF p
<1>12. CleanPlan(l, p, seen, i)
  BY <1>1, <1>8, <1>9, <1>11 DEF CleanPlan
<1>13. QED
  BY <1>12 DEF l, p

\* A Plan of a clean machine is accepted by the Review, and by the preflight of
\* each of its actions.
LEMMA CleanIsReviewable ==
    ASSUME NEW p, NEW seen, p.source \in DOMAIN Catalogs, p.actions \subseteq RootSet,
           seen.target = p.lock.target, HasOneHomebrew(seen),
           seen.homebrew.identity = p.homebrew, ConfigurationIsSafe(seen.homebrew),
           \A r \in RootSet : Supported(Catalogs[p.source], r, BottleTag(seen.target)),
           \A f \in Formulae : seen.kegs[f] \in {{}, {Catalogs[p.source][f].version}},
           \A r \in p.actions : /\ seen.kegs[r] = {}
                                /\ ItemOf(p.lock, r).implementation = Offer(r, p.source)
    PROVE  /\ Reviewable(p, seen)
           /\ \A r \in p.actions : PreflightPasses(Previews(p, seen)[r], r, seen.kegs)
<1> DEFINE catalog == Catalogs[p.source]
           closure(r) == Closure(catalog, r, BottleTag(seen.target))
           previews == Previews(p, seen)
           Listed(r, f) == [version |-> catalog[f].version,
                            state |-> IF f = r THEN "install_required"
                                      ELSE PreviewState(seen, catalog, f)]
<1>1. \A r \in p.actions : r \in RootSet /\ r \in Formulae /\ closure(r) \subseteq Formulae
  BY Basics, ClosureHolds
<1>2. /\ DOMAIN previews = p.actions
      /\ \A r \in p.actions : previews[r] = [f \in closure(r) |-> Listed(r, f)]
  BY DEF Previews, Preview
<1>3. \A f \in Formulae :
        InventoryStatus(seen.kegs, f, catalog[f].version) =
            IF seen.kegs[f] = {} THEN "absent" ELSE "exact"
  BY DEF InventoryStatus
<1>4. \A f \in Formulae :
        PreviewState(seen, catalog, f) = IF seen.kegs[f] = {} THEN "install_required"
                                         ELSE "satisfied"
  BY <1>3 DEF PreviewState
<1>5. \A r \in p.actions, f \in Formulae :
        Listed(r, f) = [version |-> catalog[f].version,
                        state |-> IF seen.kegs[f] = {} THEN "install_required"
                                  ELSE "satisfied"]
  BY <1>4
<1>6. ASSUME NEW r \in p.actions
      PROVE  catalog[r].version = ItemOf(p.lock, r).implementation.version
  <2>1. ItemOf(p.lock, r).implementation = Offer(r, p.source)
    OBVIOUS
  <2>2. Offer(r, p.source).version = catalog[r].version
    BY DEF Offer
  <2>3. QED
    BY <2>1, <2>2
<1> HIDE DEF previews, Listed, catalog
<1>7. Collectable(p, seen)
  <2>1. ASSUME NEW root \in p.actions
        PROVE  /\ Supported(catalog, root, BottleTag(seen.target))
               /\ catalog[root].version = ItemOf(p.lock, root).implementation.version
               /\ \A f \in closure(root) :
                    InventoryStatus(seen.kegs, f, catalog[f].version)
                        \in (IF f = root THEN {"absent"} ELSE {"absent", "exact"})
    <3>1. Supported(catalog, root, BottleTag(seen.target))
      BY DEF catalog
    <3>2. ASSUME NEW f \in closure(root)
          PROVE  InventoryStatus(seen.kegs, f, catalog[f].version)
                     \in (IF f = root THEN {"absent"} ELSE {"absent", "exact"})
      BY <1>1, <1>3
    <3>3. QED
      BY <1>6, <3>1, <3>2
  <2>2. QED
    BY <2>1 DEF Collectable, catalog
<1>8. Consistent(previews)
  <2>1. ASSUME NEW r \in DOMAIN previews, NEW s \in DOMAIN previews,
               NEW f \in DOMAIN previews[r] \cap DOMAIN previews[s]
        PROVE  previews[r][f] = previews[s][f]
    <3>1. r \in p.actions /\ s \in p.actions
      BY <1>2
    <3>2. /\ previews[r] = [g \in closure(r) |-> Listed(r, g)]
          /\ previews[s] = [g \in closure(s) |-> Listed(s, g)]
      BY <1>2, <3>1
    <3>3. f \in closure(r) /\ f \in closure(s)
      BY <2>1, <3>2
    <3>4. previews[r][f] = Listed(r, f) /\ previews[s][f] = Listed(s, f) /\ f \in Formulae
      BY <1>1, <3>1, <3>2, <3>3
    <3>5. QED
      BY <1>5, <3>1, <3>4
  <2>2. QED
    BY <2>1 DEF Consistent
<1>9. ASSUME NEW r \in p.actions PROVE PreflightPasses(previews[r], r, seen.kegs)
  <2> DEFINE preview == previews[r]
  <2>1. ASSUME NEW f \in DOMAIN preview
        PROVE  LET status == Status(seen.kegs, f, preview[f].version)
               IN  /\ status # "conflict"
                   /\ f # r /\ preview[f].state = "satisfied" => status = "exact"
    <3>1. preview[f] = Listed(r, f) /\ f \in Formulae
      <4>1. preview = [g \in closure(r) |-> Listed(r, g)] /\ closure(r) \subseteq Formulae
        BY <1>1, <1>2
      <4> HIDE DEF preview, closure
      <4>2. QED
        BY <4>1
    <3>2. /\ preview[f].version = catalog[f].version
          /\ preview[f].state = IF seen.kegs[f] = {} THEN "install_required" ELSE "satisfied"
      BY <1>5, <3>1
    <3>3. seen.kegs[f] \in {{}, {catalog[f].version}}
      BY <3>1 DEF catalog
    <3> HIDE DEF preview
    <3>4. QED
      BY <3>2, <3>3, StatusMeans
  <2>2. QED
    BY <2>1 DEF PreflightPasses
<1>10. QED
  BY <1>7, <1>8, <1>9 DEF Reviewable, previews

\* Wherever an operation was left, by a failure, a crash or another program: if
\* each formula is absent or at its published version and Homebrew is safe, a new
\* Lock can be planned, reviewed and started, or has nothing left to install.
THEOREM PartialInstallsCanGoOn == Spec => []PartialInstallCanGoOn
<1>1. IInv => PartialInstallCanGoOn
  <2> SUFFICES ASSUME IInv, target.os = "macos", HasOneHomebrew(Seen),
                      ConfigurationIsSafe(homebrew),
                      \A r \in RootSet : Supported(Catalogs[published], r, BottleTag(target)),
                      \A f \in Formulae : kegs[f] \in {{}, {Catalogs[published][f].version}},
                      NEW profile \in Profiles, HasBase(profile),
                      BaseActions(Resolve(profile, target, {0, published}, Entries(published),
                                          Installations(Seen))) # {}
               PROVE  LET l == Resolve(profile, target, {0, published}, Entries(published),
                                       Installations(Seen))
                          p == PlanFor(l, Seen)
                      IN  /\ Plannable(l) /\ Reviewable(p, Seen)
                          /\ \A r \in p.actions : PreflightPasses(Previews(p, Seen)[r], r, kegs)
    BY DEF PartialInstallCanGoOn
  <2> DEFINE seen == Seen
             l == Resolve(profile, target, {0, published}, Entries(published),
                          Installations(seen))
             p == PlanFor(l, seen)
  <2>1. published \in DOMAIN Catalogs /\ kegs \in [Formulae -> SUBSET Versions]
    BY DEF IInv, MachineInv
  <2>2. seen.target = target /\ seen.kegs = kegs /\ seen.homebrew = homebrew
    BY DEF Seen
  <2> HIDE DEF seen
  <2>3. CleanPlan(l, p, seen, published)
    <3>1. BaseActions(Resolve(profile, seen.target, {0, published}, Entries(published),
                              Installations(seen))) # {}
      BY <2>2 DEF seen
    <3>2. CleanMachine(seen, published)
      BY <2>1, <2>2 DEF CleanMachine
    <3>3. QED
      BY <2>1, <2>2, <3>1, <3>2, CleanIsPlannable
  <2> HIDE DEF p, l
  <2>4. HasOneHomebrew(seen) /\ ConfigurationIsSafe(seen.homebrew)
    BY <2>2 DEF seen
  <2>5. /\ Reviewable(p, seen)
        /\ \A r \in p.actions : PreflightPasses(Previews(p, seen)[r], r, seen.kegs)
    BY <2>1, <2>2, <2>3, <2>4, CleanIsReviewable DEF CleanPlan
  <2>6. QED
    BY <2>2, <2>3, <2>5 DEF CleanPlan, p, l, seen
<1>2. QED
  BY <1>1, Inductive, PTL
=============================================================================
