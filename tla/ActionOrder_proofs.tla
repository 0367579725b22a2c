------------------------- MODULE ActionOrder_proofs -------------------------
(***************************************************************************)
(* The walk of orderedActions for every Plan: what it returns is an order, *)
(* its verdict is right, and a Plan that lists its actions dependencies    *)
(* first keeps its order.  That the walk ends is left to TLC.              *)
(***************************************************************************)
EXTENDS ActionOrder, FiniteSetTheorems, SequenceTheorems, WellFoundedInduction, TLAPS

-----------------------------------------------------------------------------
(* Lists and stacks.                                                       *)

IDs == UNION {Elements(g[a]) : g \in AllGraphs, a \in Actions}
Frames == [action : Actions, rest : Seq(IDs)]
Injective(s) == \A j, k \in 1..Len(s) : s[j] = s[k] => j = k

\* The stack when the innermost frame has looked at one more dependency.
Advanced(s) == <<[Head(s) EXCEPT !.rest = Tail(@)]>> \o Tail(s)

LEMMA ElementsOfAppend ==
    ASSUME NEW S, NEW s \in Seq(S), NEW e \in S
    PROVE  Elements(Append(s, e)) = Elements(s) \cup {e}
  <1>1. /\ Len(Append(s, e)) = Len(s) + 1 /\ Len(s) \in Nat
        /\ \A k \in 1..Len(s) : Append(s, e)[k] = s[k]
        /\ Append(s, e)[Len(s) + 1] = e
        BY AppendProperties, LenProperties
  <1>2. QED
        BY <1>1 DEF Elements

LEMMA ElementsOfTail ==
    ASSUME NEW S, NEW s \in Seq(S), s # <<>>
    PROVE  /\ Elements(s) = {Head(s)} \cup Elements(Tail(s))
           /\ Head(s) \in S /\ Tail(s) \in Seq(S)
  <1>1. /\ Tail(s) \in Seq(S) /\ Len(Tail(s)) = Len(s) - 1 /\ Head(s) \in S
        /\ \A k \in 1..Len(Tail(s)) : Tail(s)[k] = s[k + 1]
        BY HeadTailProperties
  <1>2. Len(s) \in Nat \ {0} /\ Head(s) = s[1]
        BY EmptySeq
  <1>3. ASSUME NEW k \in 1..Len(s) PROVE s[k] \in {Head(s)} \cup Elements(Tail(s))
    <2>1. CASE k = 1
          BY <2>1, <1>2
    <2>2. CASE k # 1
      <3>1. k - 1 \in 1..Len(Tail(s)) /\ Tail(s)[k - 1] = s[k]
            BY <2>2, <1>1, <1>2
      <3>2. QED
            BY <3>1 DEF Elements
    <2>3. QED
          BY <2>1, <2>2
  <1>4. \A k \in 1..Len(Tail(s)) : k + 1 \in 1..Len(s)
        BY <1>1, <1>2
  <1>5. 1 \in 1..Len(s)
        BY <1>2
  <1>6. Elements(Tail(s)) \subseteq Elements(s) /\ Head(s) \in Elements(s)
        BY <1>1, <1>2, <1>4, <1>5 DEF Elements
  <1>7. Elements(s) \subseteq {Head(s)} \cup Elements(Tail(s))
        BY <1>3 DEF Elements
  <1>8. QED
        BY <1>1, <1>6, <1>7

LEMMA PushProperties ==
    ASSUME NEW s \in Seq(Frames), NEW f \in Frames
    PROVE  /\ <<f>> \o s \in Seq(Frames)
           /\ Len(<<f>> \o s) = Len(s) + 1
           /\ (<<f>> \o s)[1] = f
           /\ \A k \in 2..(Len(s) + 1) : (<<f>> \o s)[k] = s[k - 1]
  <1>1. <<f>> \in Seq(Frames) /\ Len(<<f>>) = 1 /\ <<f>>[1] = f /\ Len(s) \in Nat
        BY LenProperties
  <1>2. /\ <<f>> \o s \in Seq(Frames)
        /\ Len(<<f>> \o s) = 1 + Len(s)
        /\ \A i \in 1..(1 + Len(s)) :
              (<<f>> \o s)[i] = IF i <= 1 THEN <<f>>[i] ELSE s[i - 1]
        BY <1>1, ConcatProperties
  <1>3. QED
        BY <1>1, <1>2

LEMMA AdvanceProperties ==
    ASSUME NEW s \in Seq(Frames), s # <<>>, Head(s).rest # <<>>
    PROVE  /\ Advanced(s) \in Seq(Frames)
           /\ Len(Advanced(s)) = Len(s) /\ Len(s) \in Nat \ {0}
           /\ \A k \in 1..Len(s) : Advanced(s)[k].action = s[k].action
           /\ Advanced(s)[1].rest = Tail(s[1].rest)
           /\ \A k \in 2..Len(s) : Advanced(s)[k].rest = s[k].rest
           /\ s[1].rest \in Seq(IDs) /\ s[1].rest # <<>> /\ Head(s) = s[1]
  <1> DEFINE f == [Head(s) EXCEPT !.rest = Tail(@)]
  <1>1. /\ Head(s) \in Frames /\ Tail(s) \in Seq(Frames) /\ Len(Tail(s)) = Len(s) - 1
        /\ \A k \in 1..Len(Tail(s)) : Tail(s)[k] = s[k + 1]
        BY HeadTailProperties
  <1>2. Len(s) \in Nat \ {0} /\ Head(s) = s[1]
        BY EmptySeq
  <1>3. Head(s).rest \in Seq(IDs) /\ Tail(Head(s).rest) \in Seq(IDs)
        BY <1>1, HeadTailProperties DEF Frames
  <1>4. f \in Frames /\ f.action = Head(s).action /\ f.rest = Tail(Head(s).rest)
        BY <1>1, <1>3 DEF Frames
  <1>5. Advanced(s) = <<f>> \o Tail(s)
        BY DEF Advanced
  <1> HIDE DEF f
  <1>6. /\ Advanced(s) \in Seq(Frames) /\ Len(Advanced(s)) = Len(s) - 1 + 1
        /\ Advanced(s)[1] = f
        /\ \A k \in 2..(Len(s) - 1 + 1) : Advanced(s)[k] = Tail(s)[k - 1]
        BY <1>1, <1>4, <1>5, PushProperties
  <1>7. \A k \in 2..Len(s) : Advanced(s)[k] = s[k]
        BY <1>1, <1>2, <1>6
  <1>8. QED
        BY <1>2, <1>3, <1>4, <1>6, <1>7

\* A list without repetitions is as long as the set of its elements is large.
LEMMA LengthOfInjective ==
    ASSUME NEW S, NEW s \in Seq(S), Injective(s)
    PROVE  IsFiniteSet(Elements(s)) /\ Cardinality(Elements(s)) = Len(s)
  <1>1. Len(s) \in Nat /\ s \in [1..Len(s) -> Elements(s)]
        BY LenProperties DEF Elements
  <1>2. s \in Bijection(1..Len(s), Elements(s))
        BY <1>1 DEF Injective, Elements, Bijection, Injection, Surjection, IsInjective
  <1>3. ExistsBijection(1..Len(s), Elements(s))
        BY <1>2 DEF ExistsBijection
  <1>4. IsFiniteSet(1..Len(s))
        BY <1>1, FS_Interval
  <1>5. QED
        BY <1>1, <1>3, <1>4, FS_CountingElements, FS_Bijection

\* A set of positions has a first one.
LEMMA FirstPosition ==
    ASSUME NEW T, T \subseteq Nat, T # {}
    PROVE  \E m \in T : \A k \in T : m <= k
  <1>1. PICK m \in T : \A k \in T : <<k, m>> \notin OpToRel(<, Nat)
        BY WFMin, NatLessThanWellFounded
  <1>2. \A k \in Nat, n \in Nat : k < n => <<k, n>> \in OpToRel(<, Nat)
        BY DEF OpToRel
  <1>3. ASSUME NEW k \in T PROVE m <= k
    <2>1. k \in Nat /\ m \in Nat
          OBVIOUS
    <2>2. ~(k < m)
          BY <1>1, <1>2, <2>1
    <2>3. QED
          BY <2>1, <2>2
  <1>4. QED
        BY <1>3

-----------------------------------------------------------------------------
(* The inductive invariant.                                                *)

OrderType ==
    /\ dependencies \in AllGraphs
    /\ mark \in [Actions -> {"new", "entered", "left"}]
    /\ stack \in Seq(Frames) /\ listing \in Seq(Actions) /\ ordered \in Seq(Actions)
    /\ outcome \in {"walking", "ordered", "cycle", "unknown"}

\* The frames are the entered actions, each a dependency of the one below.
StackInv ==
    /\ \A a \in Actions : mark[a] = "entered" <=> \E k \in 1..Len(stack) : stack[k].action = a
    /\ \A j, k \in 1..Len(stack) : stack[j].action = stack[k].action => j = k
    /\ \A k \in 1..Len(stack) : Elements(stack[k].rest) \subseteq DependenciesOf(stack[k].action)
    /\ \A k \in 2..Len(stack) : stack[k - 1].action \in DependenciesOf(stack[k].action)

\* A dependency of an open frame is done, or still to be looked at, or what
\* the frame waits for.
Waiting(k) == IF k = 1 THEN {} ELSE {stack[k - 1].action}

DutyInv ==
    \A k \in 1..Len(stack) :
        DependenciesOf(stack[k].action)
            \subseteq Elements(ordered) \cup Elements(stack[k].rest) \cup Waiting(k)

OrderedInv ==
    /\ \A a \in Actions : mark[a] = "left" <=> a \in Elements(ordered)
    /\ Injective(ordered)
    /\ DependencyFirst(ordered)

ListingInv ==
    /\ \A a \in Actions : mark[a] = "new" => a \in Elements(listing)
    /\ outcome = "ordered" => stack = <<>> /\ listing = <<>>

RefusalInv ==
    /\ outcome = "cycle" => ~Acyclic
    /\ outcome = "unknown" => ~Closed

IInv == OrderType /\ StackInv /\ DutyInv /\ OrderedInv /\ ListingInv /\ RefusalInv

LEMMA InitInv == Init => IInv
  <1> SUFFICES ASSUME Init PROVE IInv
      OBVIOUS
  <1>1. \A s : s = <<>> => Len(s) = 0 /\ Elements(s) = {} /\ s \in Seq(Frames) /\ s \in Seq(Actions)
        BY EmptySeq DEF Elements
  <1>2. OrderType
        BY <1>1, ListedAssumption DEF Init, OrderType
  <1>3. StackInv /\ DutyInv
        BY <1>1 DEF Init, StackInv, DutyInv
  <1>4. OrderedInv
        BY <1>1 DEF Init, OrderedInv, Injective, DependencyFirst
  <1>5. ListingInv /\ RefusalInv
        BY DEF Init, ListingInv, RefusalInv, Actions
  <1>6. QED
        BY <1>2, <1>3, <1>4, <1>5 DEF IInv

\* A new frame has all its dependencies before it.
LEMMA FrameProperties ==
    ASSUME OrderType, NEW a \in Actions
    PROVE  /\ Frame(a) \in Frames /\ Frame(a).action = a
           /\ Elements(Frame(a).rest) = DependenciesOf(a)
  <1>1. dependencies[a] \in Seq(Elements(dependencies[a]))
        BY GraphsAssumption DEF OrderType
  <1>2. Elements(dependencies[a]) \subseteq IDs
        BY DEF OrderType, IDs
  <1>3. dependencies[a] \in Seq(IDs)
    <2>1. Len(dependencies[a]) \in Nat
          /\ dependencies[a] \in [1..Len(dependencies[a]) -> Elements(dependencies[a])]
          BY <1>1, LenProperties
    <2>2. dependencies[a] \in [1..Len(dependencies[a]) -> IDs]
          BY <2>1, <1>2
    <2>3. QED
          BY <2>1, <2>2
  <1>4. QED
        BY <1>3 DEF Frame, Frames, DependenciesOf

-----------------------------------------------------------------------------
(* The steps.                                                              *)

LEMMA OrderUnchanged ==
    ASSUME Injective(ordered), DependencyFirst(ordered), UNCHANGED <<dependencies, ordered>>
    PROVE  Injective(ordered)' /\ DependencyFirst(ordered)'
  BY DEF Injective, DependencyFirst, DependenciesOf

LEMMA OrderedUnchanged ==
    ASSUME OrderedInv, UNCHANGED <<dependencies, mark, ordered>>
    PROVE  OrderedInv'
  BY OrderUnchanged DEF OrderedInv

\* The loop of orderedActions.
LEMMA ListedInv == IInv /\ VisitListed => IInv'
  <1> SUFFICES ASSUME IInv, VisitListed PROVE IInv'
      OBVIOUS
  <1> DEFINE a == Head(listing)
  <1>1. a \in Actions /\ Tail(listing) \in Seq(Actions)
        /\ Elements(listing) = {a} \cup Elements(Tail(listing))
        BY ElementsOfTail DEF IInv, OrderType, VisitListed
  <1>2. stack = <<>> /\ Len(stack) = 0 /\ outcome = "walking" /\ listing' = Tail(listing)
        /\ UNCHANGED <<dependencies, ordered>> /\ Visit(a, <<>>)
        BY EmptySeq DEF VisitListed
  <1>3. mark[a] # "entered"
        BY <1>1, <1>2 DEF IInv, StackInv
  <1>4. CASE mark[a] = "left"
    <2>1. UNCHANGED <<mark, stack, outcome>>
          BY <1>1, <1>2, <1>4 DEF Visit
    <2>2. OrderType' /\ StackInv' /\ DutyInv'
          BY <1>1, <1>2, <2>1 DEF IInv, OrderType, StackInv, DutyInv
    <2>3. OrderedInv'
          BY <1>2, <2>1, OrderedUnchanged DEF IInv
    <2>4. ListingInv' /\ RefusalInv'
          BY <1>1, <1>2, <1>4, <2>1 DEF IInv, ListingInv, RefusalInv
    <2>5. QED
          BY <2>2, <2>3, <2>4 DEF IInv
  <1>5. CASE mark[a] = "new"
    <2>1. /\ mark' = [mark EXCEPT ![a] = "entered"] /\ stack' = <<Frame(a)>> \o <<>>
          /\ UNCHANGED outcome
          BY <1>1, <1>2, <1>5 DEF Visit
    <2>2. Frame(a) \in Frames /\ Frame(a).action = a /\ Elements(Frame(a).rest) = DependenciesOf(a)
          BY <1>1, FrameProperties DEF IInv
    <2>3. <<>> \in Seq(Frames) /\ Len(<<>>) = 0
          BY EmptySeq
    <2>4. stack' \in Seq(Frames) /\ Len(stack') = 1 /\ stack'[1] = Frame(a)
          BY <2>1, <2>2, <2>3, PushProperties
    <2>5. OrderType'
          BY <1>1, <1>2, <2>1, <2>4 DEF IInv, OrderType
    <2>6. \A b \in Actions : mark'[b] = (IF b = a THEN "entered" ELSE mark[b])
          BY <1>1, <2>1 DEF IInv, OrderType
    <2>7. StackInv'
          BY <1>1, <1>2, <2>2, <2>4, <2>6 DEF IInv, StackInv, DependenciesOf
    <2>8. DutyInv'
          BY <1>2, <2>2, <2>4 DEF DutyInv, DependenciesOf, Waiting
    <2>9. OrderedInv'
      <3>1. \A b \in Actions : mark'[b] = "left" <=> b \in Elements(ordered')
            BY <1>2, <1>5, <2>6 DEF IInv, OrderedInv
      <3>2. Injective(ordered)' /\ DependencyFirst(ordered)'
            BY <1>2, OrderUnchanged DEF IInv, OrderedInv
      <3>3. QED
            BY <3>1, <3>2 DEF OrderedInv
    <2>10. ListingInv' /\ RefusalInv'
          BY <1>1, <1>2, <2>1, <2>6 DEF IInv, ListingInv, RefusalInv
    <2>11. QED
          BY <2>5, <2>7, <2>8, <2>9, <2>10 DEF IInv
  <1>6. QED
        BY <1>1, <1>3, <1>4, <1>5 DEF IInv, OrderType

LEMMA FrameActions ==
    ASSUME OrderType
    PROVE  Len(stack) \in Nat /\ \A k \in 1..Len(stack) : stack[k].action \in Actions
  <1>1. stack \in Seq(Frames)
        BY DEF OrderType
  <1>2. Len(stack) \in Nat /\ \A k \in 1..Len(stack) : stack[k] \in Frames
        BY <1>1, LenProperties
  <1>3. QED
        BY <1>2 DEF Frames

\* A dependency that is entered is a frame that waits for itself.
LEMMA CycleIsReal ==
    ASSUME IInv, stack # <<>>, NEW id \in Actions, mark[id] = "entered",
           id \in DependenciesOf(stack[1].action)
    PROVE  ~Acyclic
  <1>1. PICK n \in 1..Len(stack) : stack[n].action = id
        BY DEF IInv, StackInv
  <1>2. Len(stack) \in Nat /\ \A k \in 1..Len(stack) : stack[k].action \in Actions
        BY FrameActions DEF IInv
  <1> DEFINE S == {stack[k].action : k \in 1..n}
  <1>3. S \in SUBSET Actions /\ S # {}
        BY <1>1, <1>2
  <1>4. ASSUME NEW k \in 1..n PROVE DependenciesOf(stack[k].action) \cap S # {}
    <2>1. CASE k = 1
          BY <2>1, <1>1
    <2>2. CASE k # 1
      <3>1. k \in 2..Len(stack) /\ k - 1 \in 1..n
            BY <2>2, <1>1, <1>2
      <3>2. stack[k - 1].action \in DependenciesOf(stack[k].action)
            BY <3>1 DEF IInv, StackInv
      <3>3. QED
            BY <3>1, <3>2
    <2>3. QED
          BY <2>1, <2>2
  <1>5. \A a \in S : DependenciesOf(a) \cap S # {}
        BY <1>4
  <1> HIDE DEF S
  <1>6. QED
        BY <1>3, <1>5 DEF Acyclic

\* The frames after a dependency was looked at that is left.
LEMMA AdvanceInv ==
    ASSUME IInv, stack # <<>>, Head(stack).rest # <<>>,
           NEW id, id = Head(Head(stack).rest), id \in Actions, mark[id] = "left",
           stack' = Advanced(stack), outcome = "walking",
           UNCHANGED <<dependencies, mark, listing, ordered, outcome>>
    PROVE  IInv'
  <1>1. stack \in Seq(Frames)
        BY DEF IInv, OrderType
  <1>2. /\ stack' \in Seq(Frames) /\ Len(stack') = Len(stack) /\ Len(stack) \in Nat \ {0}
        /\ \A k \in 1..Len(stack) : stack'[k].action = stack[k].action
        /\ stack'[1].rest = Tail(stack[1].rest)
        /\ \A k \in 2..Len(stack) : stack'[k].rest = stack[k].rest
        /\ stack[1].rest \in Seq(IDs) /\ stack[1].rest # <<>> /\ Head(stack) = stack[1]
        BY <1>1, AdvanceProperties
  <1>3. Elements(stack[1].rest) = {id} \cup Elements(stack'[1].rest)
        BY <1>2, ElementsOfTail
  <1>4. OrderType'
        BY <1>2 DEF IInv, OrderType
  <1>5. \A k \in 1..Len(stack) : Elements(stack'[k].rest) \subseteq Elements(stack[k].rest)
        BY <1>2, <1>3
  <1>6. StackInv'
    <2>1. \A a \in Actions :
             mark'[a] = "entered" <=> \E k \in 1..Len(stack') : stack'[k].action = a
          BY <1>2 DEF IInv, StackInv
    <2>2. \A j, k \in 1..Len(stack') : stack'[j].action = stack'[k].action => j = k
          BY <1>2 DEF IInv, StackInv
    <2>3. ASSUME NEW k \in 1..Len(stack')
          PROVE Elements(stack'[k].rest) \subseteq Elements(dependencies'[stack'[k].action])
      <3>1. k \in 1..Len(stack) /\ stack'[k].action = stack[k].action
            BY <1>2
      <3>2. Elements(stack[k].rest) \subseteq Elements(dependencies[stack[k].action])
            BY <3>1 DEF IInv, StackInv, DependenciesOf
      <3>3. QED
            BY <3>1, <3>2, <1>5
    <2>4. ASSUME NEW k \in 2..Len(stack')
          PROVE stack'[k - 1].action \in Elements(dependencies'[stack'[k].action])
      <3>1. k \in 2..Len(stack) /\ k \in 1..Len(stack) /\ k - 1 \in 1..Len(stack)
            BY <1>2
      <3>2. stack[k - 1].action \in Elements(dependencies[stack[k].action])
            BY <3>1 DEF IInv, StackInv, DependenciesOf
      <3>3. QED
            BY <1>2, <3>1, <3>2
    <2>5. QED
          BY <2>1, <2>2, <2>3, <2>4 DEF StackInv, DependenciesOf
  <1>7. id \in Elements(ordered)
        BY DEF IInv, OrderedInv
  <1>8. DutyInv'
    <2> SUFFICES ASSUME NEW k \in 1..Len(stack)
                 PROVE DependenciesOf(stack[k].action)
                          \subseteq Elements(ordered) \cup Elements(stack'[k].rest) \cup Waiting(k)'
        BY <1>2 DEF DutyInv, DependenciesOf
    <2>1. DependenciesOf(stack[k].action)
             \subseteq Elements(ordered) \cup Elements(stack[k].rest) \cup Waiting(k)
          BY DEF IInv, DutyInv
    <2>2. Waiting(k)' = Waiting(k)
      <3>1. CASE k = 1
            BY <3>1 DEF Waiting
      <3>2. CASE k # 1
        <4>1. k - 1 \in 1..Len(stack)
              BY <1>2, <3>2
        <4>2. stack'[k - 1].action = stack[k - 1].action
              BY <1>2, <4>1
        <4>3. QED
              BY <4>2 DEF Waiting
      <3>3. QED
            BY <3>1, <3>2
    <2>3. Elements(stack[k].rest) \subseteq {id} \cup Elements(stack'[k].rest)
          BY <1>2, <1>3
    <2>4. QED
          BY <1>7, <2>1, <2>2, <2>3
  <1>9. OrderedInv' /\ ListingInv' /\ RefusalInv'
        BY OrderedUnchanged DEF IInv, ListingInv, RefusalInv
  <1>10. QED
        BY <1>4, <1>6, <1>8, <1>9 DEF IInv

\* The frames after a dependency was looked at that is new.
LEMMA DescendInv ==
    ASSUME IInv, stack # <<>>, Head(stack).rest # <<>>, outcome = "walking",
           NEW id, id = Head(Head(stack).rest), id \in Actions, mark[id] = "new",
           mark' = [mark EXCEPT ![id] = "entered"],
           stack' = <<Frame(id)>> \o Advanced(stack),
           UNCHANGED <<dependencies, listing, ordered, outcome>>
    PROVE  IInv'
  <1> DEFINE s == Advanced(stack)
  <1>1. stack \in Seq(Frames)
        BY DEF IInv, OrderType
  <1>2. /\ s \in Seq(Frames) /\ Len(s) = Len(stack) /\ Len(stack) \in Nat \ {0}
        /\ \A k \in 1..Len(stack) : s[k].action = stack[k].action
        /\ s[1].rest = Tail(stack[1].rest)
        /\ \A k \in 2..Len(stack) : s[k].rest = stack[k].rest
        /\ stack[1].rest \in Seq(IDs) /\ stack[1].rest # <<>> /\ Head(stack) = stack[1]
        BY <1>1, AdvanceProperties
  <1>3. Frame(id) \in Frames /\ Frame(id).action = id /\ Elements(Frame(id).rest) = DependenciesOf(id)
        BY FrameProperties DEF IInv
  <1> HIDE DEF s
  <1>4. /\ stack' \in Seq(Frames) /\ Len(stack') = Len(stack) + 1 /\ stack'[1] = Frame(id)
        /\ \A k \in 2..(Len(stack) + 1) : stack'[k] = s[k - 1]
        BY <1>2, <1>3, PushProperties DEF s
  <1>5. Elements(stack[1].rest) = {id} \cup Elements(s[1].rest)
        BY <1>2, ElementsOfTail
  <1>6. \A k \in 1..Len(stack) : Elements(s[k].rest) \subseteq Elements(stack[k].rest)
        BY <1>2, <1>5
  <1>7. OrderType'
        BY <1>4 DEF IInv, OrderType
  <1>8. \A b \in Actions : mark'[b] = (IF b = id THEN "entered" ELSE mark[b])
        BY DEF IInv, OrderType
  \* The frame that the one at k was.
  <1>9. ASSUME NEW k \in 2..Len(stack')
        PROVE  /\ k - 1 \in 1..Len(stack) /\ stack'[k].action = stack[k - 1].action
               /\ stack'[k].rest = s[k - 1].rest
    <2>1. k - 1 \in 1..Len(stack) /\ stack'[k] = s[k - 1]
          BY <1>2, <1>4
    <2>2. QED
          BY <1>2, <2>1
  <1>10. ASSUME NEW k \in 1..Len(stack)
         PROVE  k + 1 \in 2..Len(stack') /\ stack'[k + 1].action = stack[k].action
    <2>1. k + 1 \in 2..Len(stack') /\ (k + 1) - 1 = k
          BY <1>2, <1>4
    <2>2. QED
          BY <1>9, <2>1
  <1>11. \A k \in 1..Len(stack) : stack[k].action # id
        BY DEF IInv, StackInv
  <1>12. \A k \in 1..Len(stack') : k = 1 \/ k \in 2..Len(stack')
        BY <1>2, <1>4
  <1>13. 1 \in 1..Len(stack') /\ stack'[1].action = id
        BY <1>2, <1>3, <1>4
  <1>14. StackInv'
    <2>1. ASSUME NEW b \in Actions
          PROVE mark'[b] = "entered" <=> \E k \in 1..Len(stack') : stack'[k].action = b
      <3>1. CASE b = id
            BY <3>1, <1>8, <1>13
      <3>2. CASE b # id
        <4>1. mark'[b] = "entered" <=> \E k \in 1..Len(stack) : stack[k].action = b
              BY <3>2, <1>8 DEF IInv, StackInv
        <4>2. ASSUME NEW k \in 1..Len(stack), stack[k].action = b
              PROVE \E j \in 1..Len(stack') : stack'[j].action = b
          <5>1. k + 1 \in 1..Len(stack')
                BY <1>10
          <5>2. QED
                BY <5>1, <4>2, <1>10
        <4>3. ASSUME NEW k \in 1..Len(stack'), stack'[k].action = b
              PROVE \E j \in 1..Len(stack) : stack[j].action = b
          <5>1. k \in 2..Len(stack')
                BY <4>3, <3>2, <1>12, <1>13
          <5>2. QED
                BY <5>1, <4>3, <1>9
        <4>4. QED
              BY <4>1, <4>2, <4>3
      <3>3. QED
            BY <3>1, <3>2
    <2>2. ASSUME NEW j \in 1..Len(stack'), NEW k \in 1..Len(stack'),
                 stack'[j].action = stack'[k].action
          PROVE j = k
      <3>1. CASE j = 1 \/ k = 1
            BY <3>1, <2>2, <1>9, <1>11, <1>12, <1>13
      <3>2. CASE j # 1 /\ k # 1
        <4>1. j \in 2..Len(stack') /\ k \in 2..Len(stack')
              BY <3>2, <1>12
        <4>2. j - 1 \in 1..Len(stack) /\ k - 1 \in 1..Len(stack)
              /\ stack[j - 1].action = stack[k - 1].action
              BY <4>1, <2>2, <1>9
        <4>3. j - 1 = k - 1
              BY <4>2 DEF IInv, StackInv
        <4>4. QED
              BY <4>1, <4>3
      <3>3. QED
            BY <3>1, <3>2
    <2>3. ASSUME NEW k \in 1..Len(stack')
          PROVE Elements(stack'[k].rest) \subseteq Elements(dependencies'[stack'[k].action])
      <3>1. CASE k = 1
            BY <3>1, <1>3, <1>4 DEF DependenciesOf
      <3>2. CASE k # 1
        <4>1. k \in 2..Len(stack')
              BY <3>2, <1>12
        <4>2. Elements(stack[k - 1].rest) \subseteq Elements(dependencies[stack[k - 1].action])
              BY <4>1, <1>9 DEF IInv, StackInv, DependenciesOf
        <4>3. QED
              BY <4>1, <4>2, <1>6, <1>9
      <3>3. QED
            BY <3>1, <3>2
    <2>4. ASSUME NEW k \in 2..Len(stack')
          PROVE stack'[k - 1].action \in Elements(dependencies'[stack'[k].action])
      <3>1. CASE k = 2
        <4>1. stack'[k].action = stack[1].action /\ stack'[k - 1].action = id
              BY <3>1, <1>9, <1>13
        <4>2. id \in Elements(dependencies[stack[1].action])
          <5>1. 1 \in 1..Len(stack) /\ id \in Elements(stack[1].rest)
                BY <1>2, <1>5
          <5>2. QED
                BY <5>1 DEF IInv, StackInv, DependenciesOf
        <4>3. QED
              BY <4>1, <4>2
      <3>2. CASE k # 2
        <4>1. k - 1 \in 2..Len(stack') /\ k - 1 \in 2..Len(stack)
              BY <3>2, <1>2, <1>4
        <4>2. stack[(k - 1) - 1].action \in Elements(dependencies[stack[k - 1].action])
              BY <4>1 DEF IInv, StackInv, DependenciesOf
        <4>3. stack'[k - 1].action = stack[(k - 1) - 1].action
              BY <4>1, <1>9
        <4>4. QED
              BY <4>2, <4>3, <1>9
      <3>3. QED
            BY <3>1, <3>2
    <2>5. QED
          BY <2>1, <2>2, <2>3, <2>4 DEF StackInv, DependenciesOf
  <1>15. DutyInv'
    <2> SUFFICES ASSUME NEW k \in 1..Len(stack')
                 PROVE Elements(dependencies[stack'[k].action])
                          \subseteq Elements(ordered) \cup Elements(stack'[k].rest)
                                    \cup (IF k = 1 THEN {} ELSE {stack'[k - 1].action})
        BY DEF DutyInv, DependenciesOf, Waiting
    <2>1. CASE k = 1
          BY <2>1, <1>3, <1>4 DEF DependenciesOf
    <2>2. CASE k = 2
      <3>1. stack'[k].action = stack[1].action /\ stack'[k].rest = s[1].rest
            /\ stack'[k - 1].action = id
            BY <2>2, <1>9, <1>13
      <3>2. Elements(dependencies[stack[1].action]) \subseteq Elements(ordered) \cup Elements(stack[1].rest)
            BY <1>2 DEF IInv, DutyInv, DependenciesOf, Waiting
      <3>3. QED
            BY <2>2, <3>1, <3>2, <1>5
    <2>3. CASE k # 1 /\ k # 2
      <3>1. k \in 2..Len(stack') /\ k - 1 \in 2..Len(stack') /\ k - 1 \in 2..Len(stack)
            /\ k - 1 \in 1..Len(stack) /\ k - 1 # 1
            BY <2>3, <1>2, <1>4
      <3>2. stack'[k].action = stack[k - 1].action /\ stack'[k].rest = stack[k - 1].rest
            /\ stack'[k - 1].action = stack[(k - 1) - 1].action
            BY <3>1, <1>2, <1>9
      <3>3. Elements(dependencies[stack[k - 1].action])
               \subseteq Elements(ordered) \cup Elements(stack[k - 1].rest)
                         \cup {stack[(k - 1) - 1].action}
            BY <3>1 DEF IInv, DutyInv, DependenciesOf, Waiting
      <3>4. QED
            BY <2>3, <3>2, <3>3
    <2>4. QED
          BY <2>1, <2>2, <2>3
  <1>16. OrderedInv'
    <2>1. \A b \in Actions : mark'[b] = "left" <=> b \in Elements(ordered')
          BY <1>8 DEF IInv, OrderedInv
    <2>2. Injective(ordered)' /\ DependencyFirst(ordered)'
          BY OrderUnchanged DEF IInv, OrderedInv
    <2>3. QED
          BY <2>1, <2>2 DEF OrderedInv
  <1>17. ListingInv' /\ RefusalInv'
        BY <1>8 DEF IInv, ListingInv, RefusalInv
  <1>18. QED
        BY <1>7, <1>14, <1>15, <1>16, <1>17 DEF IInv

\* The loop of visit.
LEMMA DependencyInv == IInv /\ VisitDependency => IInv'
  <1> SUFFICES ASSUME IInv, VisitDependency PROVE IInv'
      OBVIOUS
  <1> DEFINE id == Head(Head(stack).rest)
  <1>1. /\ outcome = "walking" /\ stack # <<>> /\ Head(stack).rest # <<>>
        /\ Visit(id, Advanced(stack))
        /\ UNCHANGED <<dependencies, listing, ordered>>
        BY DEF VisitDependency, Advanced
  <1>2. stack \in Seq(Frames)
        BY DEF IInv, OrderType
  <1>3. /\ Len(stack) \in Nat \ {0} /\ Head(stack) = stack[1]
        /\ stack[1].rest \in Seq(IDs) /\ stack[1].rest # <<>>
        BY <1>1, <1>2, AdvanceProperties
  <1>4. id \in Elements(stack[1].rest)
        BY <1>3, ElementsOfTail
  <1>5. id \in DependenciesOf(stack[1].action) /\ stack[1].action \in Actions
    <2>1. 1 \in 1..Len(stack)
          BY <1>3
    <2>2. stack[1] \in Frames
          BY <1>2, <2>1, ElementOfSeq
    <2>3. QED
          BY <1>4, <2>1, <2>2 DEF IInv, StackInv, Frames
  <1> HIDE DEF id
  <1>6. CASE id \notin Actions
    <2>1. outcome' = "unknown" /\ UNCHANGED <<mark, stack>>
          BY <1>1, <1>6 DEF Visit
    <2>2. ~Closed'
          BY <1>1, <1>5, <1>6 DEF Closed, DependenciesOf
    <2>3. QED
          BY <1>1, <2>1, <2>2, OrderedUnchanged
          DEF IInv, OrderType, StackInv, DutyInv, DependenciesOf, Waiting, ListingInv, RefusalInv
  <1>7. CASE id \in Actions /\ mark[id] = "entered"
    <2>1. outcome' = "cycle" /\ UNCHANGED <<mark, stack>>
          BY <1>1, <1>7 DEF Visit
    <2>2. ~Acyclic
          BY <1>1, <1>5, <1>7, CycleIsReal
    <2>3. ~Acyclic'
          BY <1>1, <2>2 DEF Acyclic, DependenciesOf
    <2>4. QED
          BY <1>1, <2>1, <2>3, OrderedUnchanged
          DEF IInv, OrderType, StackInv, DutyInv, DependenciesOf, Waiting, ListingInv, RefusalInv
  <1>8. CASE id \in Actions /\ mark[id] = "left"
    <2>1. stack' = Advanced(stack) /\ UNCHANGED <<mark, outcome>>
          BY <1>1, <1>8 DEF Visit
    <2>2. QED
          BY <1>1, <1>8, <2>1, AdvanceInv DEF id
  <1>9. CASE id \in Actions /\ mark[id] = "new"
    <2>1. /\ mark' = [mark EXCEPT ![id] = "entered"]
          /\ stack' = <<Frame(id)>> \o Advanced(stack) /\ UNCHANGED outcome
          BY <1>1, <1>9 DEF Visit
    <2>2. QED
          BY <1>1, <1>9, <2>1, DescendInv DEF id
  <1>10. QED
        BY <1>6, <1>7, <1>8, <1>9 DEF IInv, OrderType

\* The last lines of visit.
LEMMA LeaveInv == IInv /\ Leave => IInv'
  <1> SUFFICES ASSUME IInv, Leave PROVE IInv'
      OBVIOUS
  <1> DEFINE a == Head(stack).action
  <1>1. /\ outcome = "walking" /\ stack # <<>> /\ Head(stack).rest = <<>>
        /\ mark' = [mark EXCEPT ![a] = "left"]
        /\ ordered' = Append(ordered, a) /\ stack' = Tail(stack)
        /\ UNCHANGED <<dependencies, listing, outcome>>
        BY DEF Leave
  <1>2. /\ Len(stack) \in Nat \ {0} /\ Head(stack) = stack[1] /\ Head(stack) \in Frames
        /\ stack' \in Seq(Frames) /\ Len(stack') = Len(stack) - 1
        /\ \A k \in 1..Len(stack') : stack'[k] = stack[k + 1]
        BY <1>1, HeadTailProperties, EmptySeq DEF IInv, OrderType
  <1>3. a \in Actions /\ a = stack[1].action /\ 1 \in 1..Len(stack) /\ Elements(stack[1].rest) = {}
    <2>1. Len(<<>>) = 0
          BY EmptySeq
    <2>2. QED
          BY <1>1, <1>2, <2>1 DEF Frames, Elements
  <1> HIDE DEF a
  <1>4. /\ ordered' \in Seq(Actions) /\ Len(ordered') = Len(ordered) + 1 /\ Len(ordered) \in Nat
        /\ \A k \in 1..Len(ordered) : ordered'[k] = ordered[k]
        /\ ordered'[Len(ordered) + 1] = a
        BY <1>1, <1>3, AppendProperties, LenProperties DEF IInv, OrderType
  <1>5. Elements(ordered') = Elements(ordered) \cup {a}
        BY <1>1, <1>3, ElementsOfAppend DEF IInv, OrderType
  <1>6. mark[a] = "entered" /\ a \notin Elements(ordered)
    <2>1. mark[a] = "entered"
          BY <1>3 DEF IInv, StackInv
    <2>2. QED
          BY <1>3, <2>1 DEF IInv, OrderedInv
  <1>7. \A b \in Actions : mark'[b] = (IF b = a THEN "left" ELSE mark[b])
        BY <1>1, <1>3 DEF IInv, OrderType
  <1>8. OrderType'
        BY <1>1, <1>2, <1>4, <1>3 DEF IInv, OrderType
  \* A frame that is left is the one above.
  <1>9. ASSUME NEW k \in 1..Len(stack')
        PROVE  k + 1 \in 2..Len(stack) /\ k + 1 \in 1..Len(stack) /\ stack'[k] = stack[k + 1]
               /\ stack[k + 1].action # a
    <2>1. k + 1 \in 2..Len(stack) /\ k + 1 \in 1..Len(stack) /\ stack'[k] = stack[k + 1] /\ k + 1 # 1
          BY <1>2
    <2>2. stack[k + 1].action # a
          BY <1>3, <2>1 DEF IInv, StackInv
    <2>3. QED
          BY <2>1, <2>2
  <1>10. ASSUME NEW k \in 1..Len(stack), k # 1
         PROVE  k - 1 \in 1..Len(stack') /\ stack'[k - 1] = stack[k]
    <2>1. k - 1 \in 1..Len(stack') /\ (k - 1) + 1 = k
          BY <1>2, <1>10
    <2>2. QED
          BY <1>9, <2>1
  <1>11. StackInv'
    <2>1. ASSUME NEW b \in Actions
          PROVE mark'[b] = "entered" <=> \E k \in 1..Len(stack') : stack'[k].action = b
      <3>1. mark'[b] = "entered" <=> b # a /\ \E k \in 1..Len(stack) : stack[k].action = b
            BY <1>7 DEF IInv, StackInv
      <3>2. ASSUME NEW k \in 1..Len(stack), stack[k].action = b, b # a
            PROVE \E j \in 1..Len(stack') : stack'[j].action = b
        <4>1. k # 1
              BY <1>3, <3>2
        <4>2. k - 1 \in 1..Len(stack') /\ stack'[k - 1].action = b
              BY <1>10, <3>2, <4>1
        <4>3. QED
              BY <4>2
      <3>3. ASSUME NEW k \in 1..Len(stack'), stack'[k].action = b
            PROVE b # a /\ \E j \in 1..Len(stack) : stack[j].action = b
            BY <1>9, <3>3
      <3>4. QED
            BY <3>1, <3>2, <3>3
    <2>2. ASSUME NEW j \in 1..Len(stack'), NEW k \in 1..Len(stack'),
                 stack'[j].action = stack'[k].action
          PROVE j = k
      <3>1. j + 1 \in 1..Len(stack) /\ k + 1 \in 1..Len(stack)
            /\ stack[j + 1].action = stack[k + 1].action
            BY <1>9, <2>2
      <3>2. j + 1 = k + 1
            BY <3>1 DEF IInv, StackInv
      <3>3. QED
            BY <3>2
    <2>3. ASSUME NEW k \in 1..Len(stack')
          PROVE Elements(stack'[k].rest) \subseteq Elements(dependencies'[stack'[k].action])
      <3>1. k + 1 \in 1..Len(stack) /\ stack'[k] = stack[k + 1]
            BY <1>9
      <3>2. Elements(stack[k + 1].rest) \subseteq Elements(dependencies[stack[k + 1].action])
            BY <3>1 DEF IInv, StackInv, DependenciesOf
      <3>3. QED
            BY <1>1, <3>1, <3>2
    <2>4. ASSUME NEW k \in 2..Len(stack')
          PROVE stack'[k - 1].action \in Elements(dependencies'[stack'[k].action])
      <3>1. k \in 1..Len(stack') /\ k - 1 \in 1..Len(stack') /\ k + 1 \in 2..Len(stack)
            /\ (k - 1) + 1 = k /\ (k + 1) - 1 = k
            BY <1>2
      <3>2. stack'[k] = stack[k + 1] /\ stack'[k - 1] = stack[k]
            BY <1>9, <3>1
      <3>3. stack[k].action \in Elements(dependencies[stack[k + 1].action])
            BY <3>1 DEF IInv, StackInv, DependenciesOf
      <3>4. QED
            BY <1>1, <3>2, <3>3
    <2>5. QED
          BY <2>1, <2>2, <2>3, <2>4 DEF StackInv, DependenciesOf
  <1>12. DutyInv'
    <2> SUFFICES ASSUME NEW k \in 1..Len(stack')
                 PROVE Elements(dependencies[stack'[k].action])
                          \subseteq Elements(ordered') \cup Elements(stack'[k].rest)
                                    \cup (IF k = 1 THEN {} ELSE {stack'[k - 1].action})
        BY <1>1 DEF DutyInv, DependenciesOf, Waiting
    <2>1. k + 1 \in 1..Len(stack) /\ k + 1 # 1 /\ (k + 1) - 1 = k /\ stack'[k] = stack[k + 1]
          BY <1>2, <1>9
    <2>2. Elements(dependencies[stack[k + 1].action])
             \subseteq Elements(ordered) \cup Elements(stack[k + 1].rest) \cup {stack[k].action}
          BY <2>1 DEF IInv, DutyInv, DependenciesOf, Waiting
    <2>3. CASE k = 1
          BY <2>1, <2>2, <2>3, <1>3, <1>5
    <2>4. CASE k # 1
      <3>1. k - 1 \in 1..Len(stack') /\ k \in 1..Len(stack)
            BY <2>4, <1>2
      <3>2. stack'[k - 1] = stack[k]
            BY <2>4, <3>1, <1>10
      <3>3. QED
            BY <2>1, <2>2, <2>4, <3>2, <1>5
    <2>5. QED
          BY <2>3, <2>4
  <1>13. OrderedInv'
    <2>1. \A b \in Actions : mark'[b] = "left" <=> b \in Elements(ordered')
          BY <1>5, <1>7 DEF IInv, OrderedInv
    <2>2. \A k \in 1..Len(ordered) : ordered[k] # a
          BY <1>6 DEF Elements
    <2>3. Injective(ordered')
          BY <1>4, <2>2 DEF IInv, OrderedInv, Injective
    <2>4. Elements(dependencies[a]) \subseteq Elements(ordered)
          BY <1>3 DEF IInv, DutyInv, DependenciesOf, Waiting
    <2>5. ASSUME NEW k \in 1..Len(ordered')
          PROVE Elements(dependencies[ordered'[k]]) \subseteq {ordered'[j] : j \in 1..(k - 1)}
      <3>1. CASE k = Len(ordered) + 1
        <4>1. ordered'[k] = a /\ \A j \in 1..Len(ordered) : j \in 1..(k - 1) /\ ordered'[j] = ordered[j]
              BY <3>1, <1>4
        <4>2. Elements(ordered) \subseteq {ordered'[j] : j \in 1..(k - 1)}
              BY <4>1 DEF Elements
        <4>3. QED
              BY <4>1, <4>2, <2>4
      <3>2. CASE k # Len(ordered) + 1
        <4>1. k \in 1..Len(ordered) /\ \A j \in 1..(k - 1) : ordered'[j] = ordered[j]
              BY <3>2, <1>4
        <4>2. Elements(dependencies[ordered[k]]) \subseteq {ordered[j] : j \in 1..(k - 1)}
              BY <4>1 DEF IInv, OrderedInv, DependencyFirst, DependenciesOf
        <4>3. {ordered[j] : j \in 1..(k - 1)} \subseteq {ordered'[j] : j \in 1..(k - 1)}
              BY <4>1
        <4>4. QED
              BY <4>1, <4>2, <4>3, <1>4
      <3>3. QED
            BY <3>1, <3>2
    <2>6. DependencyFirst(ordered)'
          BY <1>1, <2>5 DEF DependencyFirst, DependenciesOf
    <2>7. QED
          BY <2>1, <2>3, <2>6 DEF OrderedInv
  <1>14. ListingInv' /\ RefusalInv'
        BY <1>1, <1>7 DEF IInv, ListingInv, RefusalInv
  <1>15. QED
        BY <1>8, <1>11, <1>12, <1>13, <1>14 DEF IInv

LEMMA NextInv == IInv /\ [Next]_vars => IInv'
  <1> SUFFICES ASSUME IInv, [Next]_vars PROVE IInv'
      OBVIOUS
  <1>1. CASE VisitListed
        BY <1>1, ListedInv
  <1>2. CASE VisitDependency
        BY <1>2, DependencyInv
  <1>3. CASE Leave
        BY <1>3, LeaveInv
  <1>4. CASE Finish
    <2>1. /\ UNCHANGED <<dependencies, mark, stack, listing, ordered>>
          /\ stack = <<>> /\ listing = <<>> /\ outcome' = "ordered"
          BY <1>4 DEF Finish
    <2>2. QED
      <3>1. OrderType' /\ StackInv'
            BY <2>1 DEF IInv, OrderType, StackInv, DependenciesOf
      <3>2. DutyInv'
            BY <2>1 DEF IInv, DutyInv, DependenciesOf, Waiting
      <3>3. OrderedInv'
            BY <2>1, OrderedUnchanged DEF IInv
      <3>4. ListingInv' /\ RefusalInv'
            BY <2>1 DEF IInv, ListingInv, RefusalInv
      <3>5. QED
            BY <3>1, <3>2, <3>3, <3>4 DEF IInv
  <1>5. CASE UNCHANGED vars
    <2>1. UNCHANGED <<dependencies, mark, stack, listing, ordered, outcome>>
          BY <1>5 DEF vars
    <2>2. OrderType' /\ StackInv'
          BY <2>1 DEF IInv, OrderType, StackInv, DependenciesOf
    <2>3. DutyInv'
          BY <2>1 DEF IInv, DutyInv, DependenciesOf, Waiting
    <2>4. OrderedInv'
          BY <2>1, OrderedUnchanged DEF IInv
    <2>5. ListingInv' /\ RefusalInv'
          BY <2>1 DEF IInv, ListingInv, RefusalInv, Acyclic, Closed, DependenciesOf
    <2>6. QED
          BY <2>2, <2>3, <2>4, <2>5 DEF IInv
  <1>6. QED
        BY <1>1, <1>2, <1>3, <1>4, <1>5 DEF Next

\* The invariant holds on every walk.
THEOREM Inductive == Spec => []IInv
  BY InitInv, NextInv, PTL DEF Spec

-----------------------------------------------------------------------------
(* What follows from it.                                                   *)

\* An order that is returned has every action, once.
LEMMA Complete ==
    ASSUME IInv, outcome = "ordered"
    PROVE  Elements(ordered) = Actions /\ Len(ordered) = Len(Listed)
  <1>1. Len(stack) = 0 /\ Elements(listing) = {}
        BY EmptySeq DEF IInv, ListingInv, Elements
  <1>2. \A a \in Actions : mark[a] = "left"
        BY <1>1 DEF IInv, OrderType, StackInv, ListingInv
  <1>3. Elements(ordered) \subseteq Actions
        BY LenProperties DEF IInv, OrderType, Elements
  <1>4. Elements(ordered) = Actions
        BY <1>2, <1>3 DEF IInv, OrderedInv
  <1>5. Cardinality(Elements(ordered)) = Len(ordered)
        BY LengthOfInjective DEF IInv, OrderType, OrderedInv
  <1>6. Cardinality(Elements(Listed)) = Len(Listed)
        BY LengthOfInjective, ListedAssumption DEF Injective
  <1>7. QED
        BY <1>4, <1>5, <1>6 DEF Actions

\* The walk keeps its frames, its marks and its order within the Plan.
THEOREM TypeCorrect == Spec => []TypeOK
  <1>1. IInv => TypeOK
    <2> SUFFICES ASSUME IInv PROVE TypeOK
        OBVIOUS
    <2>1. \A k \in 1..Len(stack) : stack[k].action \in Actions
          BY FrameActions DEF IInv
    <2>2. Elements(ordered) \subseteq Actions
          BY LenProperties DEF IInv, OrderType, Elements
    <2>3. IsFiniteSet(Actions) /\ Cardinality(Actions) = Len(Listed)
          BY LengthOfInjective, ListedAssumption DEF Injective, Actions
    <2>4. Cardinality(Elements(ordered)) = Len(ordered)
          BY LengthOfInjective DEF IInv, OrderType, OrderedInv
    <2>5. Len(ordered) <= Len(Listed)
          BY <2>2, <2>3, <2>4, FS_Subset
    <2>6. QED
          BY <2>1, <2>2, <2>5 DEF TypeOK, IInv, OrderType
  <1>2. QED
        BY <1>1, Inductive, PTL

\* What orderedActions returns is an order of all actions, dependencies first.
THEOREM OrdersAreTopological == Spec => []OrderIsTopological
  <1>1. IInv => OrderIsTopological
        BY Complete DEF OrderIsTopological, IInv, OrderedInv
  <1>2. QED
        BY <1>1, Inductive, PTL

\* It succeeds only for closed and acyclic Plans, and refuses with the reason.
THEOREM VerdictsAreRight == Spec => []VerdictIsRight
  <1>1. ASSUME IInv, outcome = "ordered" PROVE Closed
    <2> SUFFICES ASSUME NEW a \in Actions PROVE DependenciesOf(a) \subseteq Actions
        BY DEF Closed
    <2>1. PICK k \in 1..Len(ordered) : ordered[k] = a
          BY <1>1, Complete DEF Elements
    <2>2. DependenciesOf(a) \subseteq {ordered[j] : j \in 1..(k - 1)}
          BY <1>1, <2>1 DEF IInv, OrderedInv, DependencyFirst
    <2>3. Len(ordered) \in Nat /\ \A j \in 1..Len(ordered) : ordered[j] \in Actions
          BY <1>1, LenProperties DEF IInv, OrderType
    <2>4. \A j \in 1..(k - 1) : ordered[j] \in Actions
          BY <2>3
    <2>5. QED
          BY <2>2, <2>4
  <1>2. ASSUME IInv, outcome = "ordered" PROVE Acyclic
    <2> SUFFICES ASSUME NEW S \in SUBSET Actions, S # {}
                 PROVE \E a \in S : DependenciesOf(a) \cap S = {}
        BY DEF Acyclic
    <2> DEFINE T == {k \in 1..Len(ordered) : ordered[k] \in S}
    <2>1. PICK b \in S : TRUE
          OBVIOUS
    <2>2. \E k \in 1..Len(ordered) : ordered[k] = b
          BY <1>2, Complete DEF Elements
    <2>3. T # {} /\ T \subseteq Nat
          BY <2>2
    <2>4. PICK m \in T : \A k \in T : m <= k
          BY <2>3, FirstPosition
    <2>5. m \in 1..Len(ordered) /\ ordered[m] \in S /\ Len(ordered) \in Nat
          BY <1>2, LenProperties DEF IInv, OrderType
    <2>6. DependenciesOf(ordered[m]) \subseteq {ordered[j] : j \in 1..(m - 1)}
          BY <1>2, <2>5 DEF IInv, OrderedInv, DependencyFirst
    <2>7. ASSUME NEW j \in 1..(m - 1) PROVE ordered[j] \notin S
      <3>1. j \in 1..Len(ordered) /\ ~(m <= j)
            BY <2>5
      <3>2. j \notin T
            BY <2>4, <3>1
      <3>3. QED
            BY <3>1, <3>2
    <2>8. DependenciesOf(ordered[m]) \cap S = {}
          BY <2>6, <2>7
    <2>9. QED
          BY <2>5, <2>8
  <1>3. IInv => VerdictIsRight
        BY <1>1, <1>2 DEF VerdictIsRight, IInv, RefusalInv
  <1>4. QED
        BY <1>3, Inductive, PTL

-----------------------------------------------------------------------------
(* The order of the listing.  While no dependency of a listed action comes *)
(* after it, the walk never goes deeper than one frame: what was ordered,  *)
(* the open action and what is still listed make up the listing.           *)

KeptInv ==
    DependencyFirst(Listed) /\ outcome \in {"walking", "ordered"} =>
        /\ Len(stack) <= 1
        /\ Len(ordered) + Len(stack) + Len(listing) = Len(Listed)
        /\ \A k \in 1..Len(ordered) : ordered[k] = Listed[k]
        /\ stack # <<>> => stack[1].action = Listed[Len(ordered) + 1]
        /\ \A k \in 1..Len(listing) : listing[k] = Listed[Len(ordered) + Len(stack) + k]

LEMMA InitKept == Init => KeptInv
  <1>1. Len(<<>>) = 0 /\ Len(Listed) \in Nat
        BY EmptySeq, ListedAssumption, LenProperties
  <1>2. QED
        BY <1>1 DEF Init, KeptInv

LEMMA Lengths ==
    ASSUME IInv
    PROVE  /\ Len(stack) \in Nat /\ Len(listing) \in Nat /\ Len(ordered) \in Nat
           /\ Len(Listed) \in Nat /\ (Len(stack) = 0 <=> stack = <<>>)
  BY LenProperties, EmptySeq, ListedAssumption DEF IInv, OrderType

LEMMA ListedKept == IInv /\ KeptInv /\ VisitListed => KeptInv'
  <1> SUFFICES ASSUME IInv, KeptInv, VisitListed,
                      DependencyFirst(Listed)', outcome' \in {"walking", "ordered"}
               PROVE KeptInv'
      BY DEF KeptInv
  <1>1. /\ stack = <<>> /\ outcome = "walking" /\ listing # <<>> /\ listing' = Tail(listing)
        /\ UNCHANGED <<dependencies, ordered>> /\ Visit(Head(listing), <<>>)
        BY DEF VisitListed
  <1>2. DependencyFirst(Listed)
        BY <1>1 DEF DependencyFirst, DependenciesOf
  <1>3. /\ Head(listing) = listing[1] /\ Len(listing') = Len(listing) - 1
        /\ Head(listing) \in Actions
        /\ \A k \in 1..Len(listing') : listing'[k] = listing[k + 1]
        BY <1>1, HeadTailProperties, EmptySeq DEF IInv, OrderType
  <1>4. /\ Len(ordered) \in Nat /\ Len(listing) \in Nat \ {0} /\ Len(stack) = 0
        /\ Len(ordered) + Len(listing) = Len(Listed) /\ Len(Listed) \in Nat
        /\ \A k \in 1..Len(ordered) : ordered[k] = Listed[k]
        /\ \A k \in 1..Len(listing) : listing[k] = Listed[Len(ordered) + k]
        BY <1>1, <1>2, Lengths, EmptySeq DEF KeptInv, IInv, OrderType
  <1>5. Head(listing) = Listed[Len(ordered) + 1] /\ Len(ordered) + 1 \in 1..Len(Listed)
        BY <1>3, <1>4
  <1>6. Head(listing) \notin Elements(ordered)
    <2> SUFFICES ASSUME NEW k \in 1..Len(ordered), ordered[k] = Head(listing) PROVE FALSE
        BY DEF Elements
    <2>1. Listed[k] = Listed[Len(ordered) + 1] /\ k \in 1..Len(Listed)
          BY <1>4, <1>5
    <2>2. QED
          BY <1>4, <1>5, <2>1, ListedAssumption
  <1>7. mark[Head(listing)] \notin {"left", "entered"}
        BY <1>1, <1>3, <1>4, <1>6 DEF IInv, OrderedInv, StackInv
  <1>8. stack' = <<Frame(Head(listing))>> \o <<>>
        BY <1>3, <1>7 DEF IInv, OrderType, Visit, VisitListed
  <1>9. Len(stack') = 1 /\ stack'[1].action = Head(listing)
    <2>1. Frame(Head(listing)) \in Frames /\ Frame(Head(listing)).action = Head(listing)
          BY <1>3, FrameProperties DEF IInv
    <2>2. <<>> \in Seq(Frames) /\ Len(<<>>) = 0
          BY EmptySeq
    <2>3. QED
          BY <1>8, <2>1, <2>2, PushProperties
  <1>10. ASSUME NEW k \in 1..Len(listing')
         PROVE listing'[k] = Listed[Len(ordered) + 1 + k]
    <2>1. k + 1 \in 1..Len(listing) /\ Len(ordered) + (k + 1) = Len(ordered) + 1 + k
          BY <1>3, <1>4
    <2>2. QED
          BY <1>3, <1>4, <2>1
  <1>11. \A k \in 1..Len(ordered') : ordered'[k] = Listed[k]
        BY <1>1, <1>4
  <1>12. Len(ordered') + Len(stack') + Len(listing') = Len(Listed)
    <2>1. ordered' = ordered /\ Len(stack') = 1 /\ Len(listing') = Len(listing) - 1
          BY <1>1, <1>3, <1>9
    <2>2. /\ Len(ordered) \in Nat /\ Len(listing) \in Nat \ {0}
          /\ Len(ordered) + Len(listing) = Len(Listed)
          BY <1>4
    <2>3. QED
          BY <2>1, <2>2
  <1>13. /\ Len(stack') <= 1 /\ stack'[1].action = Listed[Len(ordered') + 1]
         /\ \A k \in 1..Len(listing') : listing'[k] = Listed[Len(ordered') + Len(stack') + k]
    <2>1. ordered' = ordered /\ Len(stack') = 1
          BY <1>1, <1>9
    <2>2. stack'[1].action = Listed[Len(ordered) + 1]
          BY <1>5, <1>9
    <2>3. QED
          BY <1>10, <2>1, <2>2
  <1>14. QED
        BY <1>11, <1>12, <1>13 DEF KeptInv

LEMMA DependencyKept == IInv /\ KeptInv /\ VisitDependency => KeptInv'
  <1> SUFFICES ASSUME IInv, KeptInv, VisitDependency,
                      DependencyFirst(Listed)', outcome' \in {"walking", "ordered"}
               PROVE KeptInv'
      BY DEF KeptInv
  <1> DEFINE id == Head(Head(stack).rest)
  <1>1. /\ outcome = "walking" /\ stack # <<>> /\ Head(stack).rest # <<>>
        /\ Visit(id, Advanced(stack))
        /\ UNCHANGED <<dependencies, listing, ordered>>
        BY DEF VisitDependency, Advanced
  <1>2. DependencyFirst(Listed)
        BY <1>1 DEF DependencyFirst, DependenciesOf
  <1>3. /\ stack \in Seq(Frames) /\ Head(stack) = stack[1]
        /\ stack[1].rest \in Seq(IDs) /\ stack[1].rest # <<>> /\ Len(stack) \in Nat \ {0}
        /\ Len(Advanced(stack)) = Len(stack) /\ Advanced(stack)[1].action = stack[1].action
        BY <1>1, AdvanceProperties DEF IInv, OrderType
  <1>4. /\ Len(stack) = 1 /\ stack[1].action = Listed[Len(ordered) + 1]
        /\ Len(ordered) \in Nat /\ Len(Listed) \in Nat /\ Len(ordered) + 1 \in 1..Len(Listed)
        /\ \A k \in 1..Len(ordered) : ordered[k] = Listed[k]
        BY <1>1, <1>2, <1>3, Lengths DEF KeptInv
  <1>5. id \in DependenciesOf(stack[1].action)
    <2>1. id \in Elements(stack[1].rest)
          BY <1>3, ElementsOfTail
    <2>2. QED
          BY <1>4, <2>1 DEF IInv, StackInv
  <1>6. id \in {Listed[j] : j \in 1..(Len(ordered) + 1 - 1)}
    <2> DEFINE n == Len(ordered) + 1
    <2>1. n \in 1..Len(Listed) /\ stack[1].action = Listed[n]
          BY <1>4
    <2>2. DependenciesOf(Listed[n]) \subseteq {Listed[j] : j \in 1..(n - 1)}
          BY <1>2, <2>1 DEF DependencyFirst
    <2>3. QED
          BY <1>5, <2>1, <2>2
  <1>7. id \in Elements(ordered)
    <2>1. PICK j \in 1..(Len(ordered) + 1 - 1) : id = Listed[j]
          BY <1>6
    <2>2. j \in 1..Len(ordered)
          BY <1>4, <2>1
    <2>3. QED
          BY <1>4, <2>1, <2>2 DEF Elements
  <1>8. id \in Actions /\ mark[id] = "left"
    <2>1. Elements(ordered) \subseteq Actions
          BY LenProperties DEF IInv, OrderType, Elements
    <2>2. QED
          BY <1>7, <2>1 DEF IInv, OrderedInv
  <1> HIDE DEF id
  <1>9. stack' = Advanced(stack) /\ UNCHANGED outcome
        BY <1>1, <1>8 DEF Visit
  <1>10. QED
        BY <1>1, <1>2, <1>3, <1>4, <1>9, EmptySeq DEF KeptInv

\* A step of arithmetic that is lost among quantified facts.
LEMMA AtMostOne == \A n \in Nat : n # 0 /\ n <= 1 => n = 1
  OBVIOUS

LEMMA LeaveKept == IInv /\ KeptInv /\ Leave => KeptInv'
  <1> SUFFICES ASSUME IInv, KeptInv, Leave,
                      DependencyFirst(Listed)', outcome' \in {"walking", "ordered"}
               PROVE KeptInv'
      BY DEF KeptInv
  <1>1. /\ outcome = "walking" /\ stack # <<>>
        /\ ordered' = Append(ordered, Head(stack).action) /\ stack' = Tail(stack)
        /\ UNCHANGED <<dependencies, listing, outcome>>
        BY DEF Leave
  <1>2. DependencyFirst(Listed)
        BY <1>1 DEF DependencyFirst, DependenciesOf
  <1>3. /\ Head(stack) = stack[1] /\ Len(stack') = Len(stack) - 1 /\ stack' \in Seq(Frames)
        /\ Head(stack).action \in Actions
    <2>1. stack \in Seq(Frames)
          BY DEF IInv, OrderType
    <2>2. /\ Head(stack) = stack[1] /\ Head(stack) \in Frames
          /\ Len(stack') = Len(stack) - 1 /\ stack' \in Seq(Frames)
          BY <1>1, <2>1, HeadTailProperties, EmptySeq
    <2>3. QED
          BY <2>2 DEF Frames
  <1>4. /\ Len(ordered') = Len(ordered) + 1
        /\ \A k \in 1..Len(ordered) : ordered'[k] = ordered[k]
        /\ ordered'[Len(ordered) + 1] = Head(stack).action
        BY <1>1, <1>3, AppendProperties DEF IInv, OrderType
  <1>5. /\ Len(stack) = 1 /\ stack[1].action = Listed[Len(ordered) + 1]
        /\ Len(ordered) \in Nat /\ Len(listing) \in Nat /\ Len(Listed) \in Nat
        /\ Len(ordered) + 1 + Len(listing) = Len(Listed)
        /\ \A k \in 1..Len(ordered) : ordered[k] = Listed[k]
        /\ \A k \in 1..Len(listing) : listing[k] = Listed[Len(ordered) + 1 + k]
    <2>1. Len(stack) \in Nat /\ Len(ordered) \in Nat /\ Len(listing) \in Nat /\ Len(Listed) \in Nat
          /\ Len(stack) # 0
          BY <1>1, Lengths
    <2>2. /\ Len(stack) <= 1 /\ stack[1].action = Listed[Len(ordered) + 1]
          /\ Len(ordered) + Len(stack) + Len(listing) = Len(Listed)
          /\ \A k \in 1..Len(ordered) : ordered[k] = Listed[k]
          /\ \A k \in 1..Len(listing) : listing[k] = Listed[Len(ordered) + Len(stack) + k]
          BY <1>1, <1>2 DEF KeptInv
    <2>3. Len(stack) = 1
      <3>1. Len(stack) <= 1
            BY <2>2
      <3>2. QED
            BY <2>1, <3>1, AtMostOne
    <2>4. Len(ordered) + 1 + Len(listing) = Len(Listed)
      <3>1. Len(ordered) + Len(stack) + Len(listing) = Len(Listed)
            BY <2>2
      <3>2. QED
            BY <2>1, <2>3, <3>1
    <2>5. ASSUME NEW k \in 1..Len(listing) PROVE listing[k] = Listed[Len(ordered) + 1 + k]
      <3>1. Len(ordered) + Len(stack) + k = Len(ordered) + 1 + k
            BY <2>3
      <3>2. QED
            BY <2>2, <3>1
    <2>6. QED
          BY <2>1, <2>2, <2>3, <2>4, <2>5
  <1>6. Len(stack') = 0 /\ stack' = <<>>
    <2>1. Len(stack') = 0 /\ stack' \in Seq(Frames)
          BY <1>3, <1>5
    <2>2. QED
          BY <2>1, EmptySeq
  <1>7. \A k \in 1..Len(ordered') : ordered'[k] = Listed[k]
        BY <1>3, <1>4, <1>5
  <1>8. /\ Len(stack') <= 1 /\ Len(ordered') + Len(stack') + Len(listing') = Len(Listed)
        /\ Len(ordered') + Len(stack') = Len(ordered) + 1
    <2>1. Len(listing') = Len(listing)
          BY <1>1
    <2>2. Len(stack') = 0
          BY <1>6
    <2>3. Len(ordered') = Len(ordered) + 1
          BY <1>4
    <2>4. /\ Len(ordered) \in Nat /\ Len(listing) \in Nat /\ Len(Listed) \in Nat
          /\ Len(ordered) + 1 + Len(listing) = Len(Listed)
          BY <1>5
    <2>5. QED
          BY <2>1, <2>2, <2>3, <2>4
  <1>9. \A k \in 1..Len(listing') : listing'[k] = Listed[Len(ordered') + Len(stack') + k]
        BY <1>1, <1>5, <1>8
  <1>10. QED
        BY <1>6, <1>7, <1>8, <1>9 DEF KeptInv

\* A Plan listed dependencies first is run as it is listed.
THEOREM ListedOrdersAreKept == Spec => []ListedOrderIsKept
  <1>1. IInv /\ KeptInv /\ [Next]_vars => KeptInv'
    <2> SUFFICES ASSUME IInv, KeptInv, [Next]_vars PROVE KeptInv'
        OBVIOUS
    <2>1. CASE Finish
          BY <2>1 DEF Finish, KeptInv, DependencyFirst, DependenciesOf
    <2>2. CASE UNCHANGED vars
          BY <2>2 DEF vars, KeptInv, DependencyFirst, DependenciesOf
    <2>3. QED
          BY <2>1, <2>2, ListedKept, DependencyKept, LeaveKept DEF Next
  <1>2. ASSUME IInv, KeptInv PROVE ListedOrderIsKept
    <2> SUFFICES ASSUME outcome = "ordered", DependencyFirst(Listed) PROVE ordered = Listed
        BY DEF ListedOrderIsKept
    <2>1. Len(ordered) = Len(Listed) /\ \A k \in 1..Len(ordered) : ordered[k] = Listed[k]
          BY <1>2, Complete DEF KeptInv
    <2>2. ordered \in Seq(Actions) /\ Listed \in Seq(Actions)
          BY <1>2, ListedAssumption DEF IInv, OrderType
    <2>3. QED
          BY <2>1, <2>2, SeqEqual
  <1>3. QED
        BY <1>1, <1>2, InitKept, Inductive, PTL DEF Spec
=============================================================================
