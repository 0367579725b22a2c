----------------------------- MODULE Advice_proofs -----------------------------
(***************************************************************************)
(* Advice for every history of the sources, every time to live, cache,     *)
(* machine and policy: the comparison of versions is SemVer's order, what  *)
(* counts as fresh is recent, a candidate is the newest version, a planned *)
(* version is published, an end of life is certain, and verdicts agree.    *)
(***************************************************************************)
EXTENDS Advice, FiniteSetTheorems, SequenceTheorems, TLAPS

\* A set of numbers that is not empty has a least one.
LEMMA Least ==
    ASSUME NEW S \in SUBSET Nat, S # {}
    PROVE  \E k \in S : \A j \in S : k <= j
  <1> DEFINE R == OpToRel(<, Nat)
  <1>1. IsWellFoundedOn(R, Nat)
        BY NatLessThanWellFounded
  <1>2. \A x, y \in Nat : x < y => <<x, y>> \in R
        BY DEF OpToRel
  <1> HIDE DEF R
  <1>3. PICK k \in S : \A y \in S : ~(<<y, k>> \in R)
        BY <1>1, WFMin
  <1>4. \A j \in S : ~(j < k) /\ j \in Nat /\ k \in Nat
        BY <1>2, <1>3
  <1>5. QED
        BY <1>4

-----------------------------------------------------------------------------
(* The comparison of versions is the order of SemVer.                      *)

Relations == {"less", "equal", "greater"}

\* The relation of a list is that of the first entry that is not equal.
LEMMA FirstDecides ==
    ASSUME NEW rs \in Seq(Relations), NEW last \in Relations,
           NEW d, d = Decisive(rs \o <<last>>)
    PROVE  /\ d \in Relations
           /\ d # "equal" =>
                 \/ \E i \in 1..Len(rs) : rs[i] = d /\ \A j \in 1..(i - 1) : rs[j] = "equal"
                 \/ last = d /\ \A j \in 1..Len(rs) : rs[j] = "equal"
           /\ d = "equal" => last = "equal" /\ \A j \in 1..Len(rs) : rs[j] = "equal"
  <1> DEFINE all == rs \o <<last>>
             deciding == {i \in DOMAIN all : all[i] # "equal"}
  <1>1. /\ DOMAIN all = 1..(Len(rs) + 1) /\ Len(rs) \in Nat
        /\ \A i \in 1..Len(rs) : all[i] = rs[i] /\ rs[i] \in Relations
        /\ all[Len(rs) + 1] = last
        OBVIOUS
  <1>2. d = IF deciding = {} THEN "equal" ELSE all[Min(deciding)]
        BY DEF Decisive
  <1> HIDE DEF all
  <1>3. CASE deciding = {}
    <2>1. \A i \in 1..(Len(rs) + 1) : all[i] = "equal"
          BY <1>1, <1>3
    <2>2. QED
          BY <1>1, <1>2, <1>3, <2>1 DEF Relations
  <1>4. CASE deciding # {}
    <2> DEFINE first == Min(deciding)
    <2>1. first \in deciding /\ \A j \in deciding : first <= j
      <3>1. deciding \in SUBSET Nat
            BY <1>1
      <3> HIDE DEF deciding
      <3>2. \E k \in deciding : \A j \in deciding : k <= j
            BY <1>4, <3>1, Least
      <3>3. QED
            BY <3>2 DEF Min
    <2>2. d = all[first]
          BY <1>2, <1>4
    <2> HIDE DEF first
    <2>3. /\ first \in 1..(Len(rs) + 1) /\ all[first] # "equal"
          /\ \A j \in 1..(first - 1) : all[j] = "equal"
          BY <1>1, <2>1
    <2>4. CASE first \in 1..Len(rs)
      <3>1. rs[first] = d /\ \A j \in 1..(first - 1) : rs[j] = "equal"
            BY <1>1, <2>2, <2>3, <2>4
      <3>2. QED
            BY <1>1, <2>2, <2>3, <2>4, <3>1
    <2>5. CASE first = Len(rs) + 1
      <3>1. last = d /\ \A j \in 1..Len(rs) : rs[j] = "equal"
            BY <1>1, <2>2, <2>3, <2>5
      <3>2. QED
            BY <2>2, <2>3, <3>1
    <2>6. QED
          BY <1>1, <2>3, <2>4, <2>5
  <1>5. QED
        BY <1>3, <1>4

\* Where the entries of two lists are in their concatenation.
LEMMA Joined ==
    ASSUME NEW S, NEW s \in Seq(S), NEW t \in Seq(S), NEW u, u = s \o t
    PROVE  /\ u \in Seq(S) /\ DOMAIN u = 1..(Len(s) + Len(t))
           /\ \A i \in 1..Len(s) : i \in DOMAIN u /\ u[i] = s[i]
           /\ \A i \in 1..Len(t) : Len(s) + i \in DOMAIN u /\ u[Len(s) + i] = t[i]
  <1>1. /\ u \in Seq(S) /\ Len(u) = Len(s) + Len(t)
        /\ \A i \in 1..(Len(s) + Len(t)) :
              u[i] = IF i <= Len(s) THEN s[i] ELSE t[i - Len(s)]
        BY ConcatProperties
  <1>2. Len(s) \in Nat /\ Len(t) \in Nat
        OBVIOUS
  <1>3. DOMAIN u = 1..(Len(s) + Len(t))
        BY <1>1
  <1>4. \A i \in 1..Len(s) : i \in DOMAIN u /\ u[i] = s[i]
        BY <1>1, <1>2, <1>3
  <1>5. ASSUME NEW i \in 1..Len(t)
        PROVE  Len(s) + i \in DOMAIN u /\ u[Len(s) + i] = t[i]
    <2>1. /\ Len(s) + i \in 1..(Len(s) + Len(t)) /\ ~(Len(s) + i <= Len(s))
          /\ (Len(s) + i) - Len(s) = i
          BY <1>2
    <2>2. u[Len(s) + i] = t[(Len(s) + i) - Len(s)]
          BY <1>1, <2>1
    <2>3. QED
          BY <1>3, <2>1, <2>2
  <1>6. QED
        BY <1>1, <1>3, <1>4, <1>5

\* An identifier of a prerelease, and its place in a key.
Identifiers == [numeric : BOOLEAN, value : Nat]
IdPair(id) == <<IF id.numeric THEN 1 ELSE 2, id.value>>

\* The parts of a version.
LEMMA Parts ==
    ASSUME NEW v \in SemVers
    PROVE  /\ v.core \in [1..3 -> Nat] /\ v.prerelease \in Seq(Identifiers)
           /\ \A id \in Identifiers : id.numeric \in BOOLEAN /\ id.value \in Nat
  BY DEF SemVers, Identifiers

\* A key is a list of pairs of numbers.
LEMMA KeyOf ==
    ASSUME NEW v \in SemVers, NEW n, n = Len(v.prerelease)
    PROVE  /\ Key(v) \in Seq(Int \X Int)
           /\ \A i \in 1..3 : i \in DOMAIN Key(v) /\ Key(v)[i] = <<1, v.core[i]>>
           /\ v.prerelease = <<>> => 4 \in DOMAIN Key(v) /\ Key(v)[4] = <<3, 0>>
           /\ v.prerelease # <<>> =>
                 /\ \A i \in 1..n :
                       3 + i \in DOMAIN Key(v) /\ Key(v)[3 + i] = IdPair(v.prerelease[i])
                 /\ 4 + n \in DOMAIN Key(v) /\ Key(v)[4 + n] = <<0, 0>>
  <1> DEFINE P == Int \X Int
             head == [i \in 1..3 |-> <<1, v.core[i]>>]
             ids == [i \in DOMAIN v.prerelease |-> IdPair(v.prerelease[i])]
             full == <<<<3, 0>>>>
             end == <<<<0, 0>>>>
  <1>1. /\ n \in Nat /\ DOMAIN v.prerelease = 1..n
        /\ \A i \in 1..n : v.prerelease[i] \in Identifiers
    <2>1. v.prerelease \in Seq(Identifiers)
          BY Parts
    <2>2. QED
          BY <2>1
  <1>2. Key(v) = head \o (IF v.prerelease = <<>> THEN full ELSE ids \o end)
        BY DEF Key, IdPair
  <1>3. head \in Seq(P) /\ \A i \in 1..3 : head[i] = <<1, v.core[i]>>
        BY Parts
  <1>4. Len(head) = 3
        OBVIOUS
  <1>5. ids \in Seq(P) /\ \A i \in 1..n : ids[i] = IdPair(v.prerelease[i])
    <2>1. \A i \in 1..n : IdPair(v.prerelease[i]) \in P
          BY <1>1, Parts DEF IdPair
    <2> HIDE DEF P
    <2>2. QED
          BY <1>1, <2>1
  <1>6. full \in Seq(P) /\ end \in Seq(P)
        OBVIOUS
  <1>7. /\ Len(full) = 1 /\ full[1] = <<3, 0>> /\ Len(end) = 1 /\ end[1] = <<0, 0>>
        /\ Len(ids) = n
        BY <1>1
  <1> HIDE DEF P, head, ids, full, end
  <1>8. CASE v.prerelease = <<>>
    <2>1. Key(v) = head \o full
          BY <1>2, <1>8
    <2>2. /\ Key(v) \in Seq(P)
          /\ \A i \in 1..Len(head) : i \in DOMAIN Key(v) /\ Key(v)[i] = head[i]
          /\ \A i \in 1..Len(full) :
                Len(head) + i \in DOMAIN Key(v) /\ Key(v)[Len(head) + i] = full[i]
          BY <1>3, <1>6, <2>1, Joined
    <2>3. 4 \in DOMAIN Key(v) /\ Key(v)[4] = <<3, 0>>
      <3>1. 1 \in 1..Len(full) /\ Len(head) + 1 = 4
            BY <1>4, <1>7
      <3>2. QED
            BY <1>7, <2>2, <3>1
    <2>4. \A i \in 1..3 : i \in DOMAIN Key(v) /\ Key(v)[i] = <<1, v.core[i]>>
          BY <1>3, <1>4, <2>2
    <2>5. QED
          BY <1>8, <2>2, <2>3, <2>4 DEF P
  <1>9. CASE v.prerelease # <<>>
    <2> DEFINE tail == ids \o end
    <2>0. tail = ids \o end
          OBVIOUS
    <2>1. /\ tail \in Seq(P) /\ DOMAIN tail = 1..(Len(ids) + Len(end))
          /\ \A i \in 1..Len(ids) : tail[i] = ids[i]
          /\ \A i \in 1..Len(end) : tail[Len(ids) + i] = end[i]
      <3> HIDE DEF tail
      <3>1. QED
            BY <1>5, <1>6, <2>0, Joined
    <2>2. Key(v) = head \o tail
          BY <1>2, <1>9
    <2> HIDE DEF tail
    <2>3. /\ Len(tail) = n + 1 /\ tail[n + 1] = <<0, 0>>
          /\ \A i \in 1..n : tail[i] = IdPair(v.prerelease[i])
      <3>1. Len(ids) = n /\ Len(end) = 1 /\ 1 \in 1..Len(end)
            BY <1>7
      <3>2. tail[n + 1] = end[1]
            BY <2>1, <3>1
      <3>3. QED
            BY <1>1, <1>5, <1>7, <2>1, <3>1, <3>2
    <2>4. /\ Key(v) \in Seq(P)
          /\ \A i \in 1..Len(head) : i \in DOMAIN Key(v) /\ Key(v)[i] = head[i]
          /\ \A i \in 1..Len(tail) :
                Len(head) + i \in DOMAIN Key(v) /\ Key(v)[Len(head) + i] = tail[i]
          BY <1>3, <2>1, <2>2, Joined
    <2>5. \A i \in 1..3 : i \in DOMAIN Key(v) /\ Key(v)[i] = <<1, v.core[i]>>
          BY <1>3, <1>4, <2>4
    <2>6. \A i \in 1..(n + 1) : 3 + i \in DOMAIN Key(v) /\ Key(v)[3 + i] = tail[i]
          BY <1>4, <2>3, <2>4
    <2>7. \A i \in 1..n : 3 + i \in DOMAIN Key(v) /\ Key(v)[3 + i] = IdPair(v.prerelease[i])
          BY <1>1, <2>3, <2>6
    <2>8. 4 + n \in DOMAIN Key(v) /\ Key(v)[4 + n] = <<0, 0>>
      <3>1. n + 1 \in 1..(n + 1) /\ 3 + (n + 1) = 4 + n
            BY <1>1
      <3>2. QED
            BY <2>3, <2>6, <3>1
    <2>9. QED
          BY <1>9, <2>4, <2>5, <2>7, <2>8 DEF P
  <1>10. QED
         BY <1>8, <1>9

\* The same, entry by entry.
LEMMA KeyPairs ==
    ASSUME NEW v \in SemVers
    PROVE  /\ DOMAIN Key(v) = 1..Len(Key(v)) /\ Len(Key(v)) \in Nat
           /\ \A i \in DOMAIN Key(v) : Key(v)[i][1] \in Int /\ Key(v)[i][2] \in Int
  <1>1. Key(v) \in Seq(Int \X Int)
        BY KeyOf
  <1>2. \A p \in Int \X Int : p[1] \in Int /\ p[2] \in Int
        OBVIOUS
  <1>3. DOMAIN Key(v) = 1..Len(Key(v)) /\ Len(Key(v)) \in Nat
        BY <1>1
  <1>4. \A i \in DOMAIN Key(v) : Key(v)[i] \in Int \X Int
        BY <1>1
  <1>5. QED
        BY <1>2, <1>3, <1>4

\* The order of the pairs of a key.
Below(p, q) == p[1] < q[1] \/ (p[1] = q[1] /\ p[2] < q[2])

\* The order is strict.
LEMMA NoVersionPrecedesItself ==
    ASSUME NEW v \in SemVers PROVE ~Precedes(v, v)
  <1>1. \A i \in DOMAIN Key(v) : Key(v)[i][1] \in Int /\ Key(v)[i][2] \in Int
        BY KeyPairs
  <1>2. QED
        BY <1>1 DEF Precedes

\* The order is transitive.
LEMMA PrecedesIsTransitive ==
    ASSUME NEW u \in SemVers, NEW v \in SemVers, NEW w \in SemVers,
           Precedes(u, v), Precedes(v, w)
    PROVE  Precedes(u, w)
  <1> DEFINE k == Key(u)
             l == Key(v)
             m == Key(w)
  <1>1. PICK i \in DOMAIN k \cap DOMAIN l :
           (\A h \in 1..(i - 1) : k[h] = l[h]) /\ Below(k[i], l[i])
        BY DEF Precedes, Below
  <1>2. PICK j \in DOMAIN l \cap DOMAIN m :
           (\A h \in 1..(j - 1) : l[h] = m[h]) /\ Below(l[j], m[j])
        BY DEF Precedes, Below
  <1>3. /\ DOMAIN k = 1..Len(k) /\ DOMAIN l = 1..Len(l) /\ DOMAIN m = 1..Len(m)
        /\ Len(k) \in Nat /\ Len(l) \in Nat /\ Len(m) \in Nat
        /\ \A h \in DOMAIN k : k[h][1] \in Int /\ k[h][2] \in Int
        /\ \A h \in DOMAIN l : l[h][1] \in Int /\ l[h][2] \in Int
        /\ \A h \in DOMAIN m : m[h][1] \in Int /\ m[h][2] \in Int
        BY KeyPairs
  <1> SUFFICES \E h \in DOMAIN k \cap DOMAIN m :
                  (\A g \in 1..(h - 1) : k[g] = m[g]) /\ Below(k[h], m[h])
      BY DEF Precedes, Below
  <1> HIDE DEF k, l, m
  <1>4. CASE i < j
    <2>1. l[i] = m[i] /\ i \in DOMAIN m
          BY <1>1, <1>2, <1>3, <1>4
    <2>2. \A g \in 1..(i - 1) : k[g] = m[g]
          BY <1>1, <1>2, <1>3, <1>4
    <2>3. QED
          BY <1>1, <2>1, <2>2
  <1>5. CASE j < i
    <2>1. k[j] = l[j] /\ j \in DOMAIN k
          BY <1>1, <1>2, <1>3, <1>5
    <2>2. \A g \in 1..(j - 1) : k[g] = m[g]
          BY <1>1, <1>2, <1>3, <1>5
    <2>3. QED
          BY <1>2, <2>1, <2>2
  <1>6. CASE i = j
    <2>1. \A g \in 1..(i - 1) : k[g] = m[g]
          BY <1>1, <1>2, <1>3, <1>6
    <2>2. Below(k[i], m[i])
          BY <1>1, <1>2, <1>3, <1>6 DEF Below
    <2>3. QED
          BY <1>1, <1>2, <1>6, <2>1, <2>2
  <1>7. QED
        BY <1>1, <1>2, <1>3, <1>4, <1>5, <1>6

\* Which of two versions a relation says is the lower one.
Lower(d, l, r) == IF d = "less" THEN l ELSE r
Upper(d, l, r) == IF d = "less" THEN r ELSE l

\* The relation of two numbers is their order.
LEMMA NumbersCompare ==
    ASSUME NEW l \in Int, NEW r \in Int
    PROVE  /\ CompareNumeric(l, r) \in Relations
           /\ CompareNumeric(l, r) = "equal" => l = r
           /\ \A d \in {"less", "greater"} :
                 CompareNumeric(l, r) = d => Lower(d, l, r) < Upper(d, l, r)
  BY DEF CompareNumeric, Relations, Lower, Upper

\* The relation of two identifiers is the order of their pairs.
LEMMA IdentifiersCompare ==
    ASSUME NEW l \in Identifiers, NEW r \in Identifiers
    PROVE  /\ CompareIdentifiers(l, r) \in Relations
           /\ CompareIdentifiers(l, r) = "equal" => l = r
           /\ \A d \in {"less", "greater"} :
                 CompareIdentifiers(l, r) = d =>
                    Below(IdPair(Lower(d, l, r)), IdPair(Upper(d, l, r)))
  <1>1. /\ l.numeric \in BOOLEAN /\ r.numeric \in BOOLEAN /\ l.value \in Int /\ r.value \in Int
        /\ l.numeric = r.numeric /\ l.value = r.value => l = r
        BY DEF Identifiers
  <1>2. CASE l.numeric = r.numeric
    <2>1. CompareIdentifiers(l, r) = CompareNumeric(l.value, r.value)
          BY <1>1, <1>2 DEF CompareIdentifiers
    <2>2. QED
          BY <1>1, <1>2, <2>1, NumbersCompare DEF Below, IdPair, Lower, Upper
  <1>3. CASE l.numeric /\ ~r.numeric
    <2>1. CompareIdentifiers(l, r) = "less"
          BY <1>3 DEF CompareIdentifiers
    <2>2. Below(IdPair(l), IdPair(r))
          BY <1>3 DEF Below, IdPair
    <2>3. QED
          BY <2>1, <2>2 DEF Lower, Upper, Relations
  <1>4. CASE ~l.numeric /\ r.numeric
    <2>1. CompareIdentifiers(l, r) = "greater"
          BY <1>4 DEF CompareIdentifiers
    <2>2. Below(IdPair(r), IdPair(l))
          BY <1>4 DEF Below, IdPair
    <2>3. QED
          BY <2>1, <2>2 DEF Lower, Upper, Relations
  <1>5. QED
        BY <1>1, <1>2, <1>3, <1>4

\* Two keys first differ at a place.
FirstDiffer(l, r, i) ==
    /\ i \in DOMAIN Key(l) \cap DOMAIN Key(r)
    /\ \A j \in 1..(i - 1) : Key(l)[j] = Key(r)[j]

\* A relation is that of the keys, where they first differ.
IsKeyRelation(d, l, r) ==
    /\ d \in Relations
    /\ d # "equal" =>
          \E i \in Nat \ {0} : /\ FirstDiffer(l, r, i)
                               /\ Below(Key(Lower(d, l, r))[i], Key(Upper(d, l, r))[i])

\* The relation of two prereleases is that of the keys of versions that have them
\* and are equal otherwise.
LEMMA PrereleasesCompare ==
    ASSUME NEW l \in SemVers, NEW r \in SemVers, l.core = r.core,
           NEW d, d = ComparePrerelease(l.prerelease, r.prerelease)
    PROVE  IsKeyRelation(d, l, r) /\ (d = "equal" => l = r)
  <1> DEFINE p == l.prerelease
             q == r.prerelease
  <1>1. \A j \in 1..3 : /\ j \in DOMAIN Key(l) \cap DOMAIN Key(r)
                        /\ Key(l)[j] = Key(r)[j]
        BY KeyOf
  <1>2. p = q => l = r
        BY DEF SemVers
  <1>3. CASE p = <<>> /\ q = <<>>
    <2>1. d = "equal"
          BY <1>3 DEF ComparePrerelease
    <2>2. QED
          BY <1>2, <1>3, <2>1 DEF IsKeyRelation, Relations
  <1>4. CASE p = <<>> /\ q # <<>>
    <2>1. d = "greater"
          BY <1>4 DEF ComparePrerelease
    <2>2. q \in Seq(Identifiers) /\ Len(q) \in Nat \ {0} /\ q[1] \in Identifiers
      <3>1. q \in Seq(Identifiers)
            BY Parts
      <3>2. QED
            BY <1>4, <3>1
    <2>3. 4 \in DOMAIN Key(l) /\ Key(l)[4] = <<3, 0>>
          BY <1>4, KeyOf
    <2>4. 4 \in DOMAIN Key(r) /\ Key(r)[4] = IdPair(q[1])
      <3>1. \A i \in 1..Len(q) : 3 + i \in DOMAIN Key(r) /\ Key(r)[3 + i] = IdPair(q[i])
            BY <1>4, KeyOf
      <3>2. 1 \in 1..Len(q) /\ 3 + 1 = 4
            BY <2>2
      <3>3. QED
            BY <3>1, <3>2
    <2>5. FirstDiffer(l, r, 4) /\ Below(Key(r)[4], Key(l)[4])
          BY <1>1, <2>3, <2>4 DEF FirstDiffer, Below, IdPair
    <2>6. QED
          BY <2>1, <2>5 DEF IsKeyRelation, Relations, Lower, Upper
  <1>5. CASE p # <<>> /\ q = <<>>
    <2>1. d = "less"
          BY <1>5 DEF ComparePrerelease
    <2>2. p \in Seq(Identifiers) /\ Len(p) \in Nat \ {0} /\ p[1] \in Identifiers
      <3>1. p \in Seq(Identifiers)
            BY Parts
      <3>2. QED
            BY <1>5, <3>1
    <2>3. 4 \in DOMAIN Key(r) /\ Key(r)[4] = <<3, 0>>
          BY <1>5, KeyOf
    <2>4. 4 \in DOMAIN Key(l) /\ Key(l)[4] = IdPair(p[1])
      <3>1. \A i \in 1..Len(p) : 3 + i \in DOMAIN Key(l) /\ Key(l)[3 + i] = IdPair(p[i])
            BY <1>5, KeyOf
      <3>2. 1 \in 1..Len(p) /\ 3 + 1 = 4
            BY <2>2
      <3>3. QED
            BY <3>1, <3>2
    <2>5. FirstDiffer(l, r, 4) /\ Below(Key(l)[4], Key(r)[4])
          BY <1>1, <2>3, <2>4 DEF FirstDiffer, Below, IdPair
    <2>6. QED
          BY <2>1, <2>5 DEF IsKeyRelation, Relations, Lower, Upper
  <1>6. CASE p # <<>> /\ q # <<>>
    <2> DEFINE n == Min({Len(p), Len(q)})
               rs == [i \in 1..n |-> CompareIdentifiers(p[i], q[i])]
               last == CompareNumeric(Len(p), Len(q))
    <2>1. /\ p \in Seq(Identifiers) /\ q \in Seq(Identifiers)
          /\ Len(p) \in Nat /\ Len(q) \in Nat
          BY Parts
    <2>2. /\ n \in Nat /\ n <= Len(p) /\ n <= Len(q)
          /\ n = Len(p) \/ n = Len(q)
      <3>1. \E k \in {Len(p), Len(q)} : \A j \in {Len(p), Len(q)} : k <= j
            BY <2>1
      <3>2. n \in {Len(p), Len(q)} /\ \A j \in {Len(p), Len(q)} : n <= j
            BY <3>1 DEF Min
      <3> HIDE DEF n
      <3>3. QED
            BY <2>1, <3>2
    <2>3. d = Decisive(rs \o <<last>>)
      <3>1. d = CASE FALSE -> "equal" [] FALSE -> "greater" [] FALSE -> "less"
                  [] OTHER -> Decisive(rs \o <<last>>)
            BY <1>6 DEF ComparePrerelease
      <3> HIDE DEF rs, last
      <3>2. QED
            BY <3>1
    <2> HIDE DEF n
    <2>4. \A i \in 1..n : /\ p[i] \in Identifiers /\ q[i] \in Identifiers
                          /\ rs[i] = CompareIdentifiers(p[i], q[i]) /\ rs[i] \in Relations
          BY <2>1, <2>2, IdentifiersCompare
    <2>5. rs \in Seq(Relations) /\ Len(rs) = n
      <3> HIDE DEF p, q
      <3>1. QED
            BY <2>2, <2>4
    <2>6. last \in Relations
          BY <2>1, NumbersCompare
    <2>7. /\ \A i \in 1..Len(p) : 3 + i \in DOMAIN Key(l) /\ Key(l)[3 + i] = IdPair(p[i])
          /\ 4 + Len(p) \in DOMAIN Key(l) /\ Key(l)[4 + Len(p)] = <<0, 0>>
          BY <1>6, KeyOf
    <2>8. /\ \A i \in 1..Len(q) : 3 + i \in DOMAIN Key(r) /\ Key(r)[3 + i] = IdPair(q[i])
          /\ 4 + Len(q) \in DOMAIN Key(r) /\ Key(r)[4 + Len(q)] = <<0, 0>>
          BY <1>6, KeyOf
    <2> HIDE DEF rs, last
    <2>9. /\ d \in Relations
          /\ d # "equal" =>
                \/ \E i \in 1..n : rs[i] = d /\ \A j \in 1..(i - 1) : rs[j] = "equal"
                \/ last = d /\ \A j \in 1..n : rs[j] = "equal"
          /\ d = "equal" => last = "equal" /\ \A j \in 1..n : rs[j] = "equal"
          BY <2>3, <2>5, <2>6, FirstDecides
    <2>10. \A j \in 1..n : rs[j] = "equal" => p[j] = q[j]
           BY <2>4, IdentifiersCompare
    <2>11. ASSUME NEW m \in 1..(n + 1), \A j \in 1..(m - 1) : rs[j] = "equal"
           PROVE  \A j \in 1..(3 + m - 1) : Key(l)[j] = Key(r)[j]
      <3> TAKE j \in 1..(3 + m - 1)
      <3>1. CASE j \in 1..3
            BY <1>1, <3>1
      <3>2. CASE j > 3
        <4> DEFINE i == j - 3
        <4>1. i \in 1..(m - 1) /\ i \in 1..n /\ i \in 1..Len(p) /\ i \in 1..Len(q) /\ 3 + i = j
              BY <2>1, <2>2, <2>11, <3>2
        <4> HIDE DEF i
        <4>2. p[i] = q[i]
              BY <2>10, <2>11, <4>1
        <4>3. Key(l)[3 + i] = IdPair(p[i]) /\ Key(r)[3 + i] = IdPair(q[i])
              BY <2>7, <2>8, <4>1
        <4>4. QED
              BY <4>1, <4>2, <4>3
      <3>3. QED
            BY <2>2, <3>1, <3>2
    <2>12. CASE d = "equal"
      <3>1. last = "equal" /\ Len(p) = Len(q)
            BY <2>1, <2>9, <2>12, NumbersCompare DEF last
      <3>2. \A j \in 1..Len(p) : p[j] = q[j]
            BY <2>1, <2>2, <2>9, <2>10, <2>12, <3>1
      <3> HIDE DEF p, q
      <3>3. p = q
            BY <2>1, <3>1, <3>2
      <3>4. QED
            BY <1>2, <2>12, <3>3 DEF IsKeyRelation, Relations
    <2>13. CASE d # "equal" /\ \E i \in 1..n : rs[i] = d /\ \A j \in 1..(i - 1) : rs[j] = "equal"
      <3>1. PICK i \in 1..n : rs[i] = d /\ \A j \in 1..(i - 1) : rs[j] = "equal"
            BY <2>13
      <3>2. /\ 3 + i \in DOMAIN Key(l) /\ Key(l)[3 + i] = IdPair(p[i])
            /\ 3 + i \in DOMAIN Key(r) /\ Key(r)[3 + i] = IdPair(q[i])
        <4>1. i \in 1..Len(p) /\ i \in 1..Len(q)
              BY <2>1, <2>2
        <4>2. QED
              BY <2>7, <2>8, <4>1
      <3>3. \A j \in 1..(3 + i - 1) : Key(l)[j] = Key(r)[j]
            BY <2>2, <2>11, <3>1
      <3>4. d \in {"less", "greater"} /\ CompareIdentifiers(p[i], q[i]) = d
            BY <2>4, <2>9, <2>13, <3>1 DEF Relations
      <3>5. Below(IdPair(Lower(d, p[i], q[i])), IdPair(Upper(d, p[i], q[i])))
            BY <2>4, <3>4, IdentifiersCompare
      <3>6. Below(Key(Lower(d, l, r))[3 + i], Key(Upper(d, l, r))[3 + i])
            BY <3>2, <3>4, <3>5 DEF Lower, Upper
      <3>7. 3 + i \in Nat \ {0} /\ FirstDiffer(l, r, 3 + i)
            BY <2>2, <3>2, <3>3 DEF FirstDiffer
      <3>8. QED
            BY <2>9, <2>13, <3>6, <3>7 DEF IsKeyRelation
    <2>14. CASE d # "equal" /\ last = d /\ \A j \in 1..n : rs[j] = "equal"
      <3>1. \A j \in 1..(4 + n - 1) : Key(l)[j] = Key(r)[j]
        <4>1. n + 1 \in 1..(n + 1) /\ (n + 1) - 1 = n /\ 3 + (n + 1) - 1 = 4 + n - 1
              BY <2>2
        <4>2. QED
              BY <2>11, <2>14, <4>1
      <3>2. d \in {"less", "greater"} /\ Lower(d, Len(p), Len(q)) < Upper(d, Len(p), Len(q))
            BY <2>1, <2>9, <2>14, NumbersCompare DEF last, Relations
      <3>3. CASE d = "less"
        <4>1. Len(p) < Len(q) /\ n = Len(p) /\ n + 1 \in 1..Len(q) /\ 3 + (n + 1) = 4 + n
              BY <2>1, <2>2, <3>2, <3>3 DEF Lower, Upper
        <4>2. /\ 4 + n \in DOMAIN Key(l) /\ Key(l)[4 + n] = <<0, 0>>
              /\ 4 + n \in DOMAIN Key(r) /\ Key(r)[4 + n] = IdPair(q[n + 1])
              BY <2>7, <2>8, <4>1
        <4>3. Below(Key(l)[4 + n], Key(r)[4 + n])
              BY <4>2 DEF Below, IdPair
        <4>4. 4 + n \in Nat \ {0} /\ FirstDiffer(l, r, 4 + n)
              BY <2>2, <3>1, <4>2 DEF FirstDiffer
        <4>5. QED
              BY <3>3, <4>3, <4>4 DEF IsKeyRelation, Lower, Upper, Relations
      <3>4. CASE d = "greater"
        <4>1. Len(q) < Len(p) /\ n = Len(q) /\ n + 1 \in 1..Len(p) /\ 3 + (n + 1) = 4 + n
              BY <2>1, <2>2, <3>2, <3>4 DEF Lower, Upper
        <4>2. /\ 4 + n \in DOMAIN Key(r) /\ Key(r)[4 + n] = <<0, 0>>
              /\ 4 + n \in DOMAIN Key(l) /\ Key(l)[4 + n] = IdPair(p[n + 1])
              BY <2>7, <2>8, <4>1
        <4>3. Below(Key(r)[4 + n], Key(l)[4 + n])
              BY <4>2 DEF Below, IdPair
        <4>4. 4 + n \in Nat \ {0} /\ FirstDiffer(l, r, 4 + n)
              BY <2>2, <3>1, <4>2 DEF FirstDiffer
        <4>5. QED
              BY <3>4, <4>3, <4>4 DEF IsKeyRelation, Lower, Upper, Relations
      <3>5. QED
            BY <3>2, <3>3, <3>4
    <2>15. QED
           BY <2>9, <2>12, <2>13, <2>14
  <1>7. QED
        BY <1>3, <1>4, <1>5, <1>6

\* Versions that can be compared have a relation, and it is that of their keys.
LEMMA VersionsCompare ==
    ASSUME NEW l \in SemVers, NEW r \in SemVers, NEW d, d = CompareSemVer(l, r)
    PROVE  /\ d \in Relations
           /\ d = "less" => Precedes(l, r)
           /\ d = "greater" => Precedes(r, l)
           /\ d = "equal" => l = r
  <1> DEFINE rs == [i \in 1..3 |-> CompareNumeric(l.core[i], r.core[i])]
             last == ComparePrerelease(l.prerelease, r.prerelease)
  <1>1. d = Decisive(rs \o <<last>>)
        BY NoneAssumption DEF CompareSemVer
  <1>2. \A i \in 1..3 : l.core[i] \in Int /\ r.core[i] \in Int
        BY Parts
  <1>3. \A i \in 1..3 : rs[i] = CompareNumeric(l.core[i], r.core[i]) /\ rs[i] \in Relations
        BY <1>2, NumbersCompare
  <1>4. rs \in Seq(Relations) /\ Len(rs) = 3
        BY <1>3
  <1> HIDE DEF rs, last
  <1>5. (\A i \in 1..3 : rs[i] = "equal") => l.core = r.core
    <2>1. ASSUME \A i \in 1..3 : rs[i] = "equal" PROVE \A i \in 1..3 : l.core[i] = r.core[i]
          BY <1>2, <1>3, <2>1, NumbersCompare
    <2>2. l.core \in [1..3 -> Nat] /\ r.core \in [1..3 -> Nat]
          BY Parts
    <2>3. QED
          BY <2>1, <2>2
  <1>6. \A i \in 1..3 : /\ i \in DOMAIN Key(l) /\ i \in DOMAIN Key(r)
                        /\ Key(l)[i] = <<1, l.core[i]>> /\ Key(r)[i] = <<1, r.core[i]>>
        BY KeyOf
  <1>7. last \in Relations
    <2> DEFINE c == [core |-> l.core, prerelease |-> r.prerelease]
    <2>1. c \in SemVers /\ c.core = l.core /\ c.prerelease = r.prerelease
          BY DEF SemVers
    <2> HIDE DEF c
    <2>2. last = ComparePrerelease(l.prerelease, c.prerelease)
          BY <2>1 DEF last
    <2>3. QED
          BY <2>1, <2>2, PrereleasesCompare DEF IsKeyRelation
  <1>8. /\ d \in Relations
        /\ d # "equal" =>
              \/ \E i \in 1..3 : rs[i] = d /\ \A j \in 1..(i - 1) : rs[j] = "equal"
              \/ last = d /\ \A j \in 1..3 : rs[j] = "equal"
        /\ d = "equal" => last = "equal" /\ \A j \in 1..3 : rs[j] = "equal"
        BY <1>1, <1>4, <1>7, FirstDecides
  <1>9. CASE last = d /\ \A j \in 1..3 : rs[j] = "equal"
    <2>1. IsKeyRelation(d, l, r) /\ (d = "equal" => l = r)
          BY <1>5, <1>9, PrereleasesCompare DEF last
    <2>2. QED
          BY <1>8, <2>1 DEF IsKeyRelation, FirstDiffer, Below, Precedes, Lower, Upper
  <1>10. CASE d # "equal" /\ \E i \in 1..3 : rs[i] = d /\ \A j \in 1..(i - 1) : rs[j] = "equal"
    <2>1. PICK i \in 1..3 : rs[i] = d /\ \A j \in 1..(i - 1) : rs[j] = "equal"
          BY <1>10
    <2>2. \A j \in 1..(i - 1) : Key(l)[j] = Key(r)[j]
      <3> TAKE j \in 1..(i - 1)
      <3>1. j \in 1..3 /\ rs[j] = "equal"
            BY <2>1
      <3>2. l.core[j] = r.core[j]
            BY <1>2, <1>3, <3>1, NumbersCompare
      <3>3. QED
            BY <1>6, <3>1, <3>2
    <2>3. d \in {"less", "greater"} /\ Lower(d, l.core[i], r.core[i]) < Upper(d, l.core[i], r.core[i])
          BY <1>2, <1>3, <1>8, <1>10, <2>1, NumbersCompare DEF Relations
    <2>4. CASE d = "less"
      <3>1. Below(Key(l)[i], Key(r)[i])
            BY <1>6, <2>3, <2>4 DEF Below, Lower, Upper
      <3>2. Precedes(l, r)
            BY <1>6, <2>2, <3>1 DEF Precedes, Below
      <3>3. QED
            BY <1>8, <2>4, <3>2
    <2>5. CASE d = "greater"
      <3>1. Below(Key(r)[i], Key(l)[i])
            BY <1>6, <2>3, <2>5 DEF Below, Lower, Upper
      <3>2. Precedes(r, l)
            BY <1>6, <2>2, <3>1 DEF Precedes, Below
      <3>3. QED
            BY <1>8, <2>5, <3>2
    <2>6. QED
          BY <2>3, <2>4, <2>5
  <1>11. QED
         BY <1>8, <1>9, <1>10

\* The comparison of the code is the order that SemVer 2.0.0 defines (D-020).
THEOREM ComparisonIsSemVers ==
    \A l, r \in SemVers :
       /\ CompareSemVer(l, r) = "less" <=> Precedes(l, r)
       /\ CompareSemVer(l, r) = "greater" <=> Precedes(r, l)
       /\ CompareSemVer(l, r) = "equal" <=> l = r
  <1> SUFFICES ASSUME NEW l \in SemVers, NEW r \in SemVers
               PROVE  /\ CompareSemVer(l, r) = "less" <=> Precedes(l, r)
                      /\ CompareSemVer(l, r) = "greater" <=> Precedes(r, l)
                      /\ CompareSemVer(l, r) = "equal" <=> l = r
      OBVIOUS
  <1>1. ~(Precedes(l, r) /\ Precedes(r, l))
        BY PrecedesIsTransitive, NoVersionPrecedesItself
  <1>2. l = r => ~Precedes(l, r) /\ ~Precedes(r, l)
        BY NoVersionPrecedesItself
  <1>3. /\ CompareSemVer(l, r) \in Relations
        /\ CompareSemVer(l, r) = "less" => Precedes(l, r)
        /\ CompareSemVer(l, r) = "greater" => Precedes(r, l)
        /\ CompareSemVer(l, r) = "equal" => l = r
        BY VersionsCompare
  <1>4. QED
        BY <1>1, <1>2, <1>3 DEF Relations

-----------------------------------------------------------------------------
(* The inductive invariant.                                                *)

AllRead == \A s \in Sources : reads[s] # None /\ reads[s].state = "done"

\* An instant whose document counts as fresh for a read that ends by t.
IsRecent(s, at, t) == at \in 0..t /\ at > reads[s].started - Ttl[s]

ClockInv == now \in Start..MaxTime /\ cache \in Caches

\* A read that is fresh has a recent document.
ReadsInv ==
    /\ DOMAIN reads = Sources
    /\ \A s \in Sources : reads[s] # None =>
          /\ reads[s].started \in 0..now
          /\ reads[s].state = "done" /\ reads[s].freshness = "fresh" =>
                IsRecent(s, reads[s].at, now)

\* The report is made of what was read, and nothing is read after it.
JoinInv == advice # None => AllRead

IInv == ClockInv /\ ReadsInv /\ JoinInv

\* The invariant holds before anything is read.
LEMMA InitInv == Init => IInv
  BY TimeAssumption DEF Init, IInv, ClockInv, ReadsInv, JoinInv, Sources

\* A read that ends with the record d leaves the others alone.
LEMMA ReadInv ==
    ASSUME IInv, UNCHANGED <<now, cache, advice>>, NEW s \in Sources, NEW d,
           reads[s] = None \/ reads[s].state # "done",
           reads' = [reads EXCEPT ![s] = d],
           d.started \in 0..now,
           d.state = "done" /\ d.freshness = "fresh" =>
              d.at \in 0..now /\ d.at > d.started - Ttl[s]
    PROVE  IInv'
  <1>1. DOMAIN reads' = Sources
        BY DEF IInv, ReadsInv
  <1>2. reads'[s] = d /\ \A r \in Sources \ {s} : reads'[r] = reads[r]
        BY DEF IInv, ReadsInv
  <1>3. ASSUME NEW r \in Sources, reads'[r] # None
        PROVE  /\ reads'[r].started \in 0..now
               /\ reads'[r].state = "done" /\ reads'[r].freshness = "fresh" =>
                     reads'[r].at \in 0..now /\ reads'[r].at > reads'[r].started - Ttl[r]
    <2>1. CASE r = s
          BY <2>1, <1>2
    <2>2. CASE r # s
          BY <2>2, <1>2, <1>3 DEF IInv, ReadsInv, IsRecent
    <2>3. QED
          BY <2>1, <2>2
  <1>4. ReadsInv'
        BY <1>1, <1>3 DEF ReadsInv, IsRecent
  <1>5. JoinInv'
        BY DEF IInv, JoinInv, AllRead
  <1>6. ClockInv'
        BY DEF IInv, ClockInv
  <1>7. QED
        BY <1>4, <1>5, <1>6 DEF IInv

\* Each step keeps it.
LEMMA NextInv == IInv /\ [Next]_vars => IInv'
  <1> SUFFICES ASSUME IInv, [Next]_vars PROVE IInv'
      OBVIOUS
  <1> USE TimeAssumption, SourcesAssumption
  <1>0. now \in Nat /\ now <= MaxTime /\ Start <= now /\ cache \in Caches
        BY DEF IInv, ClockInv
  <1>1. CASE Tick
    <2>1. now' = now + 1 /\ now' <= MaxTime /\ UNCHANGED <<cache, reads, advice>>
          BY <1>0, <1>1 DEF Tick
    <2>2. ClockInv'
          BY <1>0, <2>1 DEF ClockInv
    <2>3. ReadsInv'
          BY <1>0, <2>1 DEF IInv, ReadsInv, IsRecent
    <2>4. QED
          BY <2>1, <2>2, <2>3 DEF IInv, JoinInv, AllRead
  <1>2. ASSUME NEW s \in Sources, ReadCache(s) PROVE IInv'
    <2>1. CASE cache[s].kind = "entry" /\ IsFresh(s, cache[s])
      <3>1. /\ cache[s].at \in 0..Start /\ cache[s].claimed \in Nat
            /\ cache[s].claimed <= cache[s].at \/ cache[s].claimed > MaxTime
            BY <1>0, <2>1, CachesAssumption
      <3>2. cache[s].claimed <= now /\ now < cache[s].claimed + Ttl[s] /\ Ttl[s] \in Nat
            BY <2>1 DEF IsFresh
      <3>3. cache[s].at \in 0..now /\ cache[s].at > now - Ttl[s]
            BY <1>0, <3>1, <3>2
      <3> DEFINE d == Done(now, "fresh", cache[s].at)
      <3>4. /\ d.started \in 0..now /\ d.at \in 0..now
            /\ d.at > d.started - Ttl[s]
            BY <1>0, <3>3 DEF Done
      <3>5. /\ reads[s] = None /\ reads' = [reads EXCEPT ![s] = d]
            /\ UNCHANGED <<now, cache, advice>>
            BY <1>2, <2>1 DEF ReadCache
      <3> HIDE DEF d
      <3>6. QED
            BY <3>4, <3>5, ReadInv
    <2>2. CASE ~(cache[s].kind = "entry" /\ IsFresh(s, cache[s]))
      <3> DEFINE d == [state |-> "fetching", started |-> now]
      <3>1. /\ reads[s] = None /\ reads' = [reads EXCEPT ![s] = d]
            /\ UNCHANGED <<now, cache, advice>>
            BY <1>2, <2>2 DEF ReadCache
      <3>2. d.started \in 0..now /\ d.state # "done"
            BY <1>0
      <3> HIDE DEF d
      <3>3. QED
            BY <3>1, <3>2, ReadInv
    <2>3. QED
          BY <2>1, <2>2
  <1>3. ASSUME NEW s \in Sources, Fetch(s) PROVE IInv'
    <2>1. reads[s] # None /\ reads[s].state = "fetching" /\ UNCHANGED <<now, cache, advice>>
          BY <1>3 DEF Fetch
    <2>2. PICK at \in reads[s].started..now :
             reads' = [reads EXCEPT ![s] = Done(@.started, "fresh", at)]
          BY <1>3 DEF Fetch
    <2> DEFINE d == Done(reads[s].started, "fresh", at)
    <2>3. reads' = [reads EXCEPT ![s] = d]
          BY <2>2
    <2>4. d.started = reads[s].started /\ d.at = at
          BY DEF Done
    <2> HIDE DEF d
    <2>5. reads[s].started \in 0..now /\ Ttl[s] \in Nat \ {0}
          BY <2>1 DEF IInv, ReadsInv
    <2>6. at \in 0..now /\ at > reads[s].started - Ttl[s]
          BY <1>0, <2>5
    <2>7. QED
          BY <2>1, <2>3, <2>4, <2>5, <2>6, ReadInv
  <1>4. ASSUME NEW s \in Sources, FetchFails(s) PROVE IInv'
    <2>1. reads[s] # None /\ reads[s].state = "fetching" /\ UNCHANGED <<now, cache, advice>>
          BY <1>4 DEF FetchFails
    <2>2. PICK d \in {Done(reads[s].started, "stale", cache[s].at),
                      Done(reads[s].started, "unavailable", 0)} :
             reads' = [reads EXCEPT ![s] = d]
          BY <1>4 DEF FetchFails
    <2>3. d.started = reads[s].started /\ d.freshness # "fresh"
          BY DEF Done
    <2>4. reads[s].started \in 0..now
          BY <2>1 DEF IInv, ReadsInv
    <2>5. QED
          BY <2>1, <2>2, <2>3, <2>4, ReadInv
  <1>5. CASE Evaluate
    <2>1. AllRead /\ UNCHANGED <<now, cache, reads>>
          BY <1>5 DEF Evaluate, AllRead
    <2>2. QED
          BY <2>1 DEF IInv, ClockInv, ReadsInv, JoinInv, AllRead, IsRecent
  <1>6. CASE UNCHANGED vars
        BY <1>6 DEF vars, IInv, ClockInv, ReadsInv, JoinInv, AllRead, IsRecent
  <1>7. QED
        BY <1>1, <1>2, <1>3, <1>4, <1>5, <1>6 DEF Next

\* The invariant holds whatever the sources publish and whoever answers when.
THEOREM Inductive == Spec => []IInv
  BY InitInv, NextInv, PTL DEF Spec

\* What a report is made of stays.
LEMMA ReportStays ==
    IInv /\ [Next]_vars /\ ~Evaluate =>
       UNCHANGED advice /\ (advice # None => UNCHANGED reads)
  <1> SUFFICES ASSUME IInv, [Next]_vars, ~Evaluate
               PROVE  UNCHANGED advice /\ (advice # None => UNCHANGED reads)
      OBVIOUS
  <1>1. UNCHANGED advice
        BY DEF Next, vars, Tick, ReadCache, Fetch, FetchFails
  <1>2. ASSUME advice # None PROVE UNCHANGED reads
    <2>1. AllRead
          BY <1>2 DEF IInv, JoinInv
    <2>2. QED
          BY <2>1 DEF AllRead, Next, vars, Tick, ReadCache, Fetch, FetchFails
  <1>3. QED
        BY <1>1, <1>2

\* What the report is made of.
LEMMA ReportIsMade ==
    ASSUME IInv, Evaluate
    PROVE  /\ AllRead /\ UNCHANGED <<now, cache, reads>>
           /\ \E machine \in Machines, policy \in Policies :
                 /\ advice'.machine = machine /\ advice'.policy = policy /\ advice'.at = now
                 /\ advice'.findings = Findings(machine, policy)
                 /\ advice'.candidate = NodeUpdateCandidate(machine.node, policy.node)
                 /\ advice'.planned = Build(machine.node, policy.node)
  <1>1. AllRead /\ UNCHANGED <<now, cache, reads>>
        BY DEF Evaluate, AllRead
  <1>2. PICK machine \in Machines, policy \in Policies :
           advice' = [machine |-> machine, policy |-> policy, at |-> now,
                      findings |-> Findings(machine, policy),
                      candidate |-> NodeUpdateCandidate(machine.node, policy.node),
                      planned |-> Build(machine.node, policy.node)]
        BY DEF Evaluate
  <1> DEFINE found == Findings(machine, policy)
             candidate == NodeUpdateCandidate(machine.node, policy.node)
             planned == Build(machine.node, policy.node)
  <1> HIDE DEF found, candidate, planned
  <1>3. /\ advice'.machine = machine /\ advice'.policy = policy /\ advice'.at = now
        /\ advice'.findings = found /\ advice'.candidate = candidate /\ advice'.planned = planned
        BY <1>2 DEF found, candidate, planned
  <1>4. QED
        BY <1>1, <1>3 DEF found, candidate, planned

\* A fresh document is recent.
LEMMA FreshIsRecent ==
    ASSUME IInv, AllRead, NEW s \in Sources, Fresh(s)
    PROVE  IsRecent(s, reads[s].at, now) /\ reads[s].at \in 0..MaxTime /\ now \in Nat
  <1>1. IsRecent(s, reads[s].at, now)
        BY DEF IInv, ReadsInv, AllRead, Fresh
  <1>2. now \in Nat /\ now <= MaxTime
        BY TimeAssumption DEF IInv, ClockInv
  <1>3. QED
        BY <1>1, <1>2, TimeAssumption DEF IsRecent

-----------------------------------------------------------------------------
(* The newest release.                                                     *)

\* The function that LatestNode is defined with, up to a position.
IsBest(best, releases, channel, last) ==
    best = [n \in 0..last |->
              IF n = 0 THEN None
              ELSE IF Better(releases[n], best[n - 1], channel) THEN releases[n].version
              ELSE best[n - 1]]

\* Its values.
LEMMA BestValues ==
    ASSUME NEW best, NEW releases, NEW channel, NEW last \in Nat,
           IsBest(best, releases, channel, last)
    PROVE  /\ best[0] = None
           /\ \A n \in 1..last :
                 best[n] = IF Better(releases[n], best[n - 1], channel)
                           THEN releases[n].version ELSE best[n - 1]
  <1> DEFINE V(n) == IF n = 0 THEN None
                     ELSE IF Better(releases[n], best[n - 1], channel) THEN releases[n].version
                     ELSE best[n - 1]
  <1>1. best = [n \in 0..last |-> V(n)]
        BY DEF IsBest
  <1> HIDE DEF V
  <1>2. \A n \in 0..last : best[n] = V(n)
        BY <1>1
  <1>3. 0 \in 0..last /\ \A n \in 1..last : n \in 0..last /\ n # 0
        OBVIOUS
  <1>4. QED
        BY <1>2, <1>3 DEF V

\* There is one.
LEMMA BestExists ==
    ASSUME NEW releases, NEW channel, NEW last \in Nat
    PROVE  \E best : IsBest(best, releases, channel, last)
  <1> DEFINE S == {n \in Nat : ~\E best : IsBest(best, releases, channel, n)}
  <1>1. ASSUME S # {} PROVE FALSE
    <2>1. S \in SUBSET Nat
          OBVIOUS
    <2> HIDE DEF S
    <2>2. PICK n \in S : \A j \in S : n <= j
          BY <1>1, <2>1, Least
    <2>3. n \in Nat /\ ~\E best : IsBest(best, releases, channel, n)
          BY <2>2 DEF S
    <2>4. CASE n = 0
      <3> DEFINE f == [m \in 0..0 |-> None]
      <3>1. f = [m \in 0..n |-> IF m = 0 THEN None
                                ELSE IF Better(releases[m], f[m - 1], channel)
                                THEN releases[m].version ELSE f[m - 1]]
            BY <2>4
      <3> HIDE DEF f
      <3>2. IsBest(f, releases, channel, n)
            BY <3>1 DEF IsBest
      <3>3. QED
            BY <2>3, <3>2
    <2>5. CASE n # 0
      <3>1. n - 1 \in Nat /\ n - 1 \notin S
            BY <2>2, <2>3, <2>5
      <3>2. PICK g : IsBest(g, releases, channel, n - 1)
            BY <3>1 DEF S
      <3>3. /\ g[0] = None
            /\ \A m \in 1..(n - 1) :
                  g[m] = IF Better(releases[m], g[m - 1], channel)
                         THEN releases[m].version ELSE g[m - 1]
            BY <3>1, <3>2, BestValues
      <3> DEFINE top == IF Better(releases[n], g[n - 1], channel)
                        THEN releases[n].version ELSE g[n - 1]
                 f == [m \in 0..n |-> IF m = n THEN top ELSE g[m]]
      <3> HIDE DEF top
      <3>4. /\ \A m \in 0..(n - 1) : f[m] = g[m]
            /\ f[n] = top
            /\ f = [m \in 0..n |-> f[m]]
            BY <2>3, <3>1
      <3> HIDE DEF f
      <3> DEFINE V(m) == IF m = 0 THEN None
                         ELSE IF Better(releases[m], f[m - 1], channel)
                         THEN releases[m].version ELSE f[m - 1]
      <3>5. ASSUME NEW m \in 0..n PROVE f[m] = V(m)
        <4>1. CASE m = 0
          <5>1. m \in 0..(n - 1)
                BY <3>1, <4>1
          <5>2. f[0] = g[0]
                BY <3>4, <4>1, <5>1
          <5>3. QED
                BY <3>3, <4>1, <5>2
        <4>2. CASE m \in 1..(n - 1)
          <5>1. m \in 0..(n - 1) /\ m - 1 \in 0..(n - 1) /\ m # 0
                BY <3>1, <4>2
          <5>2. f[m] = g[m] /\ f[m - 1] = g[m - 1]
                BY <3>4, <5>1
          <5>3. g[m] = IF Better(releases[m], g[m - 1], channel)
                       THEN releases[m].version ELSE g[m - 1]
                BY <3>3, <4>2
          <5>4. QED
                BY <5>1, <5>2, <5>3
        <4>3. CASE m = n
          <5>1. n - 1 \in 0..(n - 1) /\ f[n - 1] = g[n - 1] /\ f[n] = top
                BY <2>3, <3>1, <3>4
          <5>2. f[n - 1] = g[n - 1]
                BY <3>4, <5>1
          <5>3. QED
                BY <2>5, <4>3, <5>1, <5>2 DEF top
        <4>4. m = 0 \/ m \in 1..(n - 1) \/ m = n
              BY <2>3
        <4>5. QED
              BY <4>1, <4>2, <4>3, <4>4
      <3>6. f = [m \in 0..n |-> V(m)]
        <4> HIDE DEF V
        <4>1. QED
              BY <3>4, <3>5
      <3>7. QED
            BY <2>3, <3>6 DEF IsBest
    <2>6. QED
          BY <2>4, <2>5
  <1>2. last \notin S
        BY <1>1
  <1>3. QED
        BY <1>2

\* So LatestNode is what the loop has at the end.
LEMMA LatestIsBest ==
    ASSUME NEW channel, NEW releases, releases = Document("node-releases"),
           Len(releases) \in Nat
    PROVE  \E best : /\ IsBest(best, releases, channel, Len(releases))
                     /\ LatestNode(channel) = best[Len(releases)]
  <1> DEFINE best == CHOOSE f : IsBest(f, releases, channel, Len(releases))
  <1>1. IsBest(best, releases, channel, Len(releases))
        BY BestExists
  <1>2. LatestNode(channel) = best[Len(releases)]
        BY DEF LatestNode, IsBest
  <1>3. QED
        BY <1>1, <1>2

\* The releases of a channel up to a position.
Listed(releases, channel, n) ==
    {j \in 1..n : releases[j].version # None /\ IsOfChannel(releases[j], channel)}

\* What the loop knows at a position.
IsGreatest(v, releases, channel, n) ==
    IF v = None THEN Listed(releases, channel, n) = {}
    ELSE /\ \E j \in Listed(releases, channel, n) : v = releases[j].version
         /\ \A j \in Listed(releases, channel, n) : ~Precedes(v, releases[j].version)

\* One turn of the loop.
LEMMA BetterIsGreatest ==
    ASSUME NEW releases, NEW channel, NEW n \in Nat \ {0},
           \A j \in 1..n : releases[j].version \in Readable,
           NEW v \in Readable, IsGreatest(v, releases, channel, n - 1),
           NEW w, w = IF Better(releases[n], v, channel) THEN releases[n].version ELSE v
    PROVE  w \in Readable /\ IsGreatest(w, releases, channel, n)
  <1> DEFINE new == releases[n].version
             earlier == Listed(releases, channel, n - 1)
             all == Listed(releases, channel, n)
  <1>1. /\ \A j \in earlier : j \in all /\ j \in 1..n /\ releases[j].version \in SemVers
        /\ \A j \in all : j \in earlier \/ j = n
        /\ n \in all <=> new # None /\ IsOfChannel(releases[n], channel)
        BY DEF Listed, Readable
  <1>2. new \in Readable /\ (new # None => new \in SemVers) /\ (v # None => v \in SemVers)
        BY DEF Readable
  <1>3. Better(releases[n], v, channel) <=>
           n \in all /\ (v = None \/ CompareSemVer(new, v) = "greater")
        BY <1>1 DEF Better
  <1> HIDE DEF earlier, all, new
  <1>4. IsGreatest(v, releases, channel, n - 1) <=>
           IF v = None THEN earlier = {}
           ELSE /\ \E j \in earlier : v = releases[j].version
                /\ \A j \in earlier : ~Precedes(v, releases[j].version)
        BY DEF IsGreatest, earlier
  <1>5. w \in Readable
        BY <1>2 DEF new
  <1>6. CASE Better(releases[n], v, channel)
    <2>1. w = new /\ new \in SemVers /\ n \in all /\ releases[n].version = new
          BY <1>1, <1>2, <1>3, <1>6 DEF new
    <2>2. ~Precedes(new, new)
          BY <2>1, NoVersionPrecedesItself
    <2>3. ASSUME NEW j \in earlier PROVE ~Precedes(new, releases[j].version)
      <3>1. v # None /\ v \in SemVers /\ ~Precedes(v, releases[j].version)
            BY <1>2, <1>4, <2>3
      <3>2. Precedes(v, new)
            BY <1>3, <1>6, <2>1, <3>1, ComparisonIsSemVers
      <3>3. releases[j].version \in SemVers
            BY <1>1
      <3>4. QED
            BY <2>1, <3>1, <3>2, <3>3, PrecedesIsTransitive
    <2>4. \A j \in all : ~Precedes(w, releases[j].version)
          BY <1>1, <2>1, <2>2, <2>3
    <2>5. w # None
          BY <2>1, NoneAssumption
    <2>6. QED
          BY <1>5, <2>1, <2>4, <2>5 DEF IsGreatest, all
  <1>7. CASE ~Better(releases[n], v, channel)
    <2>1. w = v
          BY <1>7
    <2>2. CASE v = None
      <3>1. n \notin all /\ earlier = {}
            BY <1>3, <1>4, <1>7, <2>2
      <3>2. all = {}
            BY <1>1, <3>1
      <3>3. QED
            BY <1>5, <2>1, <2>2, <3>2 DEF IsGreatest, all
    <2>3. CASE v # None
      <3>1. n \in all => ~Precedes(v, new)
        <4>1. ASSUME n \in all PROVE ~Precedes(v, new)
          <5>1. v \in SemVers /\ new \in SemVers /\ CompareSemVer(new, v) # "greater"
                BY <1>1, <1>2, <1>3, <1>7, <2>3, <4>1
          <5>2. QED
                BY <5>1, ComparisonIsSemVers
        <4>2. QED
              BY <4>1
      <3>2. \A j \in all : ~Precedes(v, releases[j].version)
            BY <1>1, <1>4, <2>3, <3>1 DEF new
      <3>3. \E j \in all : v = releases[j].version
            BY <1>1, <1>4, <2>3
      <3>4. QED
            BY <1>5, <2>1, <2>3, <3>2, <3>3 DEF IsGreatest, all
    <2>4. QED
          BY <2>2, <2>3
  <1>8. QED
        BY <1>6, <1>7

\* So the loop ends with the greatest.
LEMMA LatestIsNewest ==
    ASSUME NEW channel, NEW releases, releases = Document("node-releases"),
           releases \in Seq([version : Readable, lts : BOOLEAN])
    PROVE  /\ LatestNode(channel) \in Readable
           /\ LatestNode(channel) # None => IsNewest(LatestNode(channel), releases, channel)
  <1> DEFINE last == Len(releases)
  <1>1. last \in Nat /\ DOMAIN releases = 1..last
        /\ \A j \in 1..last : releases[j].version \in Readable
    <2> DEFINE Release == [version : Readable, lts : BOOLEAN]
    <2>1. \A r \in Release : r.version \in Readable
          OBVIOUS
    <2>2. releases \in Seq(Release)
          OBVIOUS
    <2> HIDE DEF Release
    <2>3. QED
          BY <2>1, <2>2
  <1> HIDE DEF last
  <1>2. PICK best : IsBest(best, releases, channel, last) /\ LatestNode(channel) = best[last]
        BY <1>1, LatestIsBest DEF last
  <1>3. /\ best[0] = None
        /\ \A n \in 1..last :
              best[n] = IF Better(releases[n], best[n - 1], channel)
                        THEN releases[n].version ELSE best[n - 1]
        BY <1>1, <1>2, BestValues
  <1> DEFINE S == {n \in 0..last : ~(best[n] \in Readable /\ IsGreatest(best[n], releases, channel, n))}
  <1>4. ASSUME S # {} PROVE FALSE
    <2>1. S \in SUBSET Nat
          BY <1>1
    <2> HIDE DEF S
    <2>2. PICK n \in S : \A j \in S : n <= j
          BY <1>4, <2>1, Least
    <2>3. n \in 0..last /\ ~(best[n] \in Readable /\ IsGreatest(best[n], releases, channel, n))
          BY <2>2 DEF S
    <2>4. CASE n = 0
          BY <1>3, <2>3, <2>4 DEF IsGreatest, Listed, Readable
    <2>5. CASE n # 0
      <3>1. n \in 1..last /\ n \in Nat \ {0} /\ n - 1 \in 0..last /\ n - 1 \notin S
            BY <1>1, <2>2, <2>3, <2>5
      <3>2. best[n - 1] \in Readable /\ IsGreatest(best[n - 1], releases, channel, n - 1)
            BY <3>1 DEF S
      <3>3. \A j \in 1..n : releases[j].version \in Readable
            BY <1>1, <3>1
      <3>4. QED
            BY <1>3, <2>3, <3>1, <3>2, <3>3, BetterIsGreatest
    <2>6. QED
          BY <2>4, <2>5
  <1>5. best[last] \in Readable /\ IsGreatest(best[last], releases, channel, last)
        BY <1>1, <1>4
  <1>6. LatestNode(channel) # None =>
           /\ \E j \in Listed(releases, channel, last) : LatestNode(channel) = releases[j].version
           /\ \A j \in Listed(releases, channel, last) :
                 ~Precedes(LatestNode(channel), releases[j].version)
        BY <1>2, <1>5 DEF IsGreatest
  <1>7. Listed(releases, channel, last) =
           {j \in DOMAIN releases : releases[j].version # None /\ IsOfChannel(releases[j], channel)}
        BY <1>1 DEF Listed
  <1>8. QED
        BY <1>2, <1>5, <1>6, <1>7 DEF IsNewest

-----------------------------------------------------------------------------
(* Candidates and plans.                                                   *)

\* A machine with an effective version has an installation.
LEMMA EffectiveIsInstalled ==
    ASSUME NEW installations, HasEffective(installations)
    PROVE  installations # {}
  BY FS_EmptySet DEF HasEffective, Effective

\* Its effective version is one of its installations.
LEMMA EffectiveIsOne ==
    ASSUME NEW installations, HasEffective(installations)
    PROVE  EffectiveOne(installations) \in installations
  <1>1. Effective(installations) # {}
        BY FS_EmptySet DEF HasEffective
  <1>2. EffectiveOne(installations) \in Effective(installations)
        BY <1>1 DEF EffectiveOne
  <1>3. QED
        BY <1>2 DEF Effective

\* What a rule asks for: a pin, or the newest of a recent index.
LEMMA TargetIsRight ==
    ASSUME IInv, AllRead, NEW policy \in Policies, NEW rule, rule = policy.node
    PROVE  /\ NodeTarget(rule) \in Readable
           /\ rule.pin = None /\ NodeTarget(rule) # None =>
                 \E t \in 0..now : /\ IsRecent("node-releases", t, now)
                                   /\ IsNewest(NodeTarget(rule), Published["node-releases"][t], Channel(rule))
  <1> DEFINE at == reads["node-releases"].at
             target == NodeTarget(rule)
  <1>1. CASE rule.pin # None
        BY <1>1, VersionsAssumption DEF NodeTarget
  <1>2. CASE rule.pin = None /\ ~Fresh("node-releases")
        BY <1>2 DEF NodeTarget, Readable
  <1>3. CASE rule.pin = None /\ Fresh("node-releases")
    <2>1. target = LatestNode(Channel(rule))
          BY <1>3 DEF NodeTarget
    <2>2. /\ IsRecent("node-releases", at, now) /\ at \in 0..MaxTime /\ at \in 0..now
      <3>1. "node-releases" \in Sources
            BY DEF Sources
      <3>2. QED
            BY <1>3, <3>1, FreshIsRecent DEF IsRecent
    <2>3. /\ Published["node-releases"][at] = Document("node-releases")
          /\ Published["node-releases"][at] \in Seq([version : Readable, lts : BOOLEAN])
          BY <2>2, ReleasesAssumption DEF Document
    <2>4. /\ target \in Readable
          /\ target # None => IsNewest(target, Published["node-releases"][at], Channel(rule))
          BY <2>1, <2>3, LatestIsNewest
    <2>5. QED
          BY <2>2, <2>4
  <1>4. QED
        BY <1>1, <1>2, <1>3

\* A candidate is an update to what the rule asks for.
LEMMA CandidateIsUpdate ==
    ASSUME NEW installations, NEW rule, NEW c, c = NodeUpdateCandidate(installations, rule), c # None
    PROVE  /\ c = NodeTarget(rule) /\ HasEffective(installations) /\ ~rule.ignore
           /\ CompareSemVer(EffectiveOne(installations).version, c) = "less"
           /\ EffectiveOne(installations).version # None
  BY DEF NodeUpdateCandidate, CompareSemVer

\* The candidate of a report is the newest when the report is made.
LEMMA CandidateIsNewestWhenMade == IInv /\ Evaluate => CandidateIsTheNewest'
  <1> SUFFICES ASSUME IInv, Evaluate, advice'.candidate # None
               PROVE  LET rule == advice'.policy.node IN
                      /\ Precedes(EffectiveOne(advice'.machine.node).version, advice'.candidate)
                      /\ rule.pin = None =>
                            \E t \in Recent("node-releases")' :
                               IsNewest(advice'.candidate, Published["node-releases"][t], Channel(rule))
      BY DEF CandidateIsTheNewest
  <1>1. PICK machine \in Machines, policy \in Policies :
           /\ advice'.machine = machine /\ advice'.policy = policy /\ advice'.at = now
           /\ advice'.candidate = NodeUpdateCandidate(machine.node, policy.node)
        BY ReportIsMade
  <1> DEFINE c == advice'.candidate
             rule == policy.node
             current == EffectiveOne(machine.node).version
  <1>2. /\ c = NodeTarget(rule) /\ HasEffective(machine.node)
        /\ CompareSemVer(current, c) = "less" /\ current # None
        BY <1>1, CandidateIsUpdate
  <1>3. AllRead /\ UNCHANGED <<now, reads>>
        BY ReportIsMade
  <1>4. /\ c \in Readable
        /\ rule.pin = None =>
              \E t \in 0..now : /\ IsRecent("node-releases", t, now)
                                /\ IsNewest(c, Published["node-releases"][t], Channel(rule))
        BY <1>2, <1>3, TargetIsRight
  <1>5. Recent("node-releases")' = {t \in 0..now : IsRecent("node-releases", t, now)}
        BY <1>1, <1>3 DEF Recent, IsRecent
  <1>6. Precedes(current, c)
    <2>1. current \in SemVers
          BY <1>2, EffectiveIsOne, VersionsAssumption DEF Readable
    <2>2. c \in SemVers
          BY <1>4 DEF Readable
    <2>3. QED
          BY <1>2, <2>1, <2>2, ComparisonIsSemVers
  <1> HIDE DEF c
  <1>7. rule.pin = None => \E t \in Recent("node-releases")' :
                              IsNewest(c, Published["node-releases"][t], Channel(rule))
        BY <1>4, <1>5
  <1>8. QED
        BY <1>1, <1>6, <1>7 DEF c

\* An update of Node.js goes to the newest version of its channel in a recent
\* index, whatever entries that are dated rightly, too early or far ahead the
\* cache held, however the index is sorted, and never back.
THEOREM CandidatesAreTheNewest == Spec => []CandidateIsTheNewest
  <1>1. Init => CandidateIsTheNewest
        BY DEF Init, CandidateIsTheNewest
  <1>2. IInv /\ CandidateIsTheNewest /\ [Next]_vars => CandidateIsTheNewest'
    <2> SUFFICES ASSUME IInv, CandidateIsTheNewest, [Next]_vars PROVE CandidateIsTheNewest'
        OBVIOUS
    <2>1. CASE Evaluate
          BY <2>1, CandidateIsNewestWhenMade
    <2>2. CASE ~Evaluate
          BY <2>2, ReportStays DEF CandidateIsTheNewest, Recent
    <2>3. QED
          BY <2>1, <2>2
  <1>3. QED
        BY <1>1, <1>2, Inductive, PTL DEF Spec

\* What is planned is published when the report is made.
LEMMA PlannedWhenMade == IInv /\ Evaluate => PlannedVersionIsPublished'
  <1> SUFFICES ASSUME IInv, Evaluate, advice'.planned # None
               PROVE  \E t \in Recent("node-releases")' :
                         \E i \in DOMAIN Published["node-releases"][t] :
                            Published["node-releases"][t][i].version = advice'.planned
      BY DEF PlannedVersionIsPublished
  <1>1. PICK machine \in Machines, policy \in Policies :
           /\ advice'.machine = machine /\ advice'.policy = policy /\ advice'.at = now
           /\ advice'.planned = Build(machine.node, policy.node)
        BY ReportIsMade
  <1> DEFINE c == NodeUpdateCandidate(machine.node, policy.node)
             rule == policy.node
             p == advice'.planned
             IsListed(t) == \E i \in DOMAIN Published["node-releases"][t] :
                               Published["node-releases"][t][i].version = p
  <1>2. p = c /\ (rule.pin = None \/ HasFreshRelease(c))
        BY <1>1 DEF Build
  <1>3. AllRead /\ UNCHANGED <<now, reads>>
        BY ReportIsMade
  <1>4. Recent("node-releases")' = {t \in 0..now : IsRecent("node-releases", t, now)}
        BY <1>1, <1>3 DEF Recent, IsRecent
  <1> HIDE DEF c, p
  <1>5. CASE HasFreshRelease(c)
    <2> DEFINE at == reads["node-releases"].at
    <2>1. IsRecent("node-releases", at, now) /\ at \in 0..now
      <3>1. "node-releases" \in Sources /\ Fresh("node-releases")
            BY <1>5 DEF Sources, HasFreshRelease
      <3>2. QED
            BY <1>3, <3>1, FreshIsRecent DEF IsRecent
    <2>2. IsListed(at)
          BY <1>2, <1>5 DEF HasFreshRelease, Document
    <2>3. QED
          BY <1>4, <2>1, <2>2 DEF p
  <1>6. CASE rule.pin = None
    <2>1. c = NodeTarget(rule) /\ c # None
          BY <1>2, CandidateIsUpdate DEF c, p
    <2>2. PICK t \in 0..now : /\ IsRecent("node-releases", t, now)
                              /\ IsNewest(c, Published["node-releases"][t], Channel(rule))
          BY <1>3, <1>6, <2>1, TargetIsRight
    <2>3. IsListed(t)
          BY <1>2, <2>2 DEF IsNewest
    <2>4. QED
          BY <1>4, <2>2, <2>3 DEF p
  <1>7. QED
        BY <1>2, <1>5, <1>6

\* No Plan installs a version that no recent index lists, a pin included.
THEOREM PlannedVersionsArePublished == Spec => []PlannedVersionIsPublished
  <1>1. Init => PlannedVersionIsPublished
        BY DEF Init, PlannedVersionIsPublished
  <1>2. IInv /\ PlannedVersionIsPublished /\ [Next]_vars => PlannedVersionIsPublished'
    <2> SUFFICES ASSUME IInv, PlannedVersionIsPublished, [Next]_vars
                 PROVE  PlannedVersionIsPublished'
        OBVIOUS
    <2>1. CASE Evaluate
          BY <2>1, PlannedWhenMade
    <2>2. CASE ~Evaluate
          BY <2>2, ReportStays DEF PlannedVersionIsPublished, Recent
    <2>3. QED
          BY <2>1, <2>2
  <1>3. QED
        BY <1>1, <1>2, Inductive, PTL DEF Spec

-----------------------------------------------------------------------------
(* The codes of a report.                                                  *)

\* The codes of a report are those of the assessments.
LEMMA CodesOf ==
    ASSUME NEW machine, NEW policy, NEW found, found = Findings(machine, policy)
    PROVE  /\ {f[2] : f \in {g \in found : g[1] = "node"}} =
                 NodeAssessment(machine.node, policy.node) \cup ConflictAssessment(machine.node)
           /\ {f[2] : f \in {g \in found : g[1] = "java"}} =
                 JavaAssessment(machine.java, policy.java)
  <1> DEFINE nodes == NodeAssessment(machine.node, policy.node)
             javas == JavaAssessment(machine.java, policy.java)
             conflicts == ConflictAssessment(machine.node)
  <1>1. found = {<<"node", c>> : c \in nodes \cup conflicts} \cup {<<"java", c>> : c \in javas}
        BY DEF Findings
  <1> HIDE DEF nodes, javas, conflicts
  <1>2. \A c : <<"node", c>> \in found <=> c \in nodes \cup conflicts
        BY <1>1
  <1>3. \A c : <<"java", c>> \in found <=> c \in javas
        BY <1>1
  <1>4. \A f \in found : \E c : f = <<"node", c>> \/ f = <<"java", c>>
        BY <1>1
  <1>5. \A c : c \in {f[2] : f \in {g \in found : g[1] = "node"}} <=> <<"node", c>> \in found
        BY <1>4
  <1>6. \A c : c \in {f[2] : f \in {g \in found : g[1] = "java"}} <=> <<"java", c>> \in found
        BY <1>4
  <1>7. QED
        BY <1>2, <1>3, <1>5, <1>6 DEF nodes, javas, conflicts

\* A comparison of versions gives a verdict.
LEMMA RecommendationIsVerdict ==
    ASSUME NEW target, NEW relation, NEW rule
    PROVE  Recommendation(target, relation, rule) \in Verdicts
  <1>1. CASE relation \in {"less", "equal", "greater"}
        BY <1>1 DEF Recommendation, Verdict, Verdicts
  <1>2. CASE relation \notin {"less", "equal", "greater"}
        BY <1>2 DEF Recommendation, Verdict, Verdicts
  <1>3. QED
        BY <1>1, <1>2

-----------------------------------------------------------------------------
(* Ends of life.                                                           *)

Ended(s, major, t) == major \in DOMAIN Published[s][t] /\ Published[s][t][major].end <= now

\* What the schedules say of a line of Node.js.
LEMMA NodeEnd ==
    ASSUME IInv, AllRead, NEW major
    PROVE  /\ NodeLifecycle(major) = "eol" =>
                \E t \in 0..now : IsRecent("node-schedule", t, now) /\ Ended("node-schedule", major, t)
           /\ Fresh("node-schedule") /\ Ended("node-schedule", major, reads["node-schedule"].at) =>
                NodeLifecycle(major) = "eol"
  <1> DEFINE at == reads["node-schedule"].at
             line == Published["node-schedule"][at][major]
  <1>1. "node-schedule" \in Sources
        BY DEF Sources
  <1>2. Fresh("node-schedule") => /\ IsRecent("node-schedule", at, now) /\ at \in 0..MaxTime
                                  /\ at \in 0..now /\ now \in Nat
        BY <1>1, FreshIsRecent DEF IsRecent
  <1>3. Fresh("node-schedule") /\ major \in DOMAIN Published["node-schedule"][at] =>
           line.start \in Nat /\ line.end \in Nat
        BY <1>2, LinesAssumption
  <1>4. ASSUME NodeLifecycle(major) = "eol"
        PROVE  Fresh("node-schedule") /\ Ended("node-schedule", major, at)
    <2>1. /\ Fresh("node-schedule") /\ major \in DOMAIN Published["node-schedule"][at]
          /\ NodeState(line, now) = "eol"
          BY <1>4 DEF NodeLifecycle, Document
    <2>2. now >= line.end
      <3> SUFFICES ASSUME ~(now >= line.end) PROVE FALSE
          OBVIOUS
      <3>1. now < line.end
            BY <1>2, <1>3, <2>1
      <3>2. now < line.start \/ now >= line.start
            BY <1>2, <1>3, <2>1
      <3> HIDE DEF line
      <3>3. QED
            BY <2>1, <3>1, <3>2 DEF NodeState
    <2>3. QED
          BY <1>2, <1>3, <2>1, <2>2 DEF Ended
  <1>5. ASSUME Fresh("node-schedule"), Ended("node-schedule", major, at)
        PROVE  NodeLifecycle(major) = "eol"
    <2>1. /\ major \in DOMAIN Published["node-schedule"][at]
          /\ now >= line.end /\ ~(now < line.end)
          BY <1>2, <1>3, <1>5 DEF Ended
    <2>2. NodeState(line, now) = "eol"
      <3> HIDE DEF line
      <3>1. QED
            BY <2>1 DEF NodeState
    <2>3. QED
          BY <1>5, <2>1, <2>2 DEF NodeLifecycle, Document
  <1>6. QED
        BY <1>2, <1>4, <1>5

\* What the support dates say of a line of Temurin.
LEMMA JavaEnd ==
    ASSUME IInv, AllRead, NEW major, NEW vendor, LifecycleForVendor(major, vendor) = "eol"
    PROVE  /\ vendor = "temurin" /\ major # 0
           /\ \E t \in 0..now : /\ IsRecent("temurin-support", t, now)
                               /\ Ended("temurin-support", major, t)
                               /\ ~Published["temurin-support"][t][major].atLeast
  <1> DEFINE at == reads["temurin-support"].at
             line == Published["temurin-support"][at][major]
  <1>1. "temurin-support" \in Sources
        BY DEF Sources
  <1>2. /\ vendor = "temurin" /\ Fresh("temurin-support")
        /\ major \in DOMAIN Published["temurin-support"][at]
        /\ TemurinState(line, now) = "eol"
        BY DEF LifecycleForVendor, Document
  <1>3. /\ IsRecent("temurin-support", at, now) /\ at \in 0..MaxTime
        /\ at \in 0..now /\ now \in Nat
        BY <1>1, <1>2, FreshIsRecent DEF IsRecent
  <1>4. line.end \in Nat /\ major # 0
        BY <1>2, <1>3, LinesAssumption
  <1>5. now >= line.end \/ now < line.end
        BY <1>3, <1>4
  <1>6. now >= line.end /\ ~line.atLeast
    <2> HIDE DEF line
    <2>1. ~(now < line.end /\ now >= line.end)
          BY <1>3, <1>4
    <2>2. QED
          BY <1>2, <1>5, <2>1 DEF TemurinState
  <1>7. Ended("temurin-support", major, at)
        BY <1>2, <1>3, <1>4, <1>6 DEF Ended
  <1>8. QED
        BY <1>2, <1>3, <1>4, <1>6, <1>7

\* An assessment has an end of life exactly when the line of the effective
\* version has ended.
LEMMA NodeCode ==
    ASSUME NEW installations, NEW rule
    PROVE  "VERSION_EOL" \in NodeAssessment(installations, rule) <=>
              /\ installations # {} /\ HasEffective(installations)
              /\ NodeLifecycle(SemVerMajor(EffectiveOne(installations).version)) = "eol"
  <1> DEFINE state == NodeLifecycle(SemVerMajor(EffectiveOne(installations).version))
             current == EffectiveOne(installations).version
             code == Recommendation(NodeTarget(rule), CompareSemVer(current, NodeTarget(rule)), rule)
  <1>1. code # "VERSION_EOL"
        BY RecommendationIsVerdict DEF Verdicts
  <1>2. NodeAssessment(installations, rule) =
           IF installations = {} THEN {}
           ELSE IF ~HasEffective(installations) THEN {"VERSION_UNKNOWN"}
           ELSE EndOfLife(state) \cup {code}
        BY DEF NodeAssessment
  <1> HIDE DEF code, state
  <1>3. QED
        BY <1>1, <1>2 DEF EndOfLife, state

\* For Java one direction is enough.
LEMMA JavaCode ==
    ASSUME NEW installations, NEW rule, "VERSION_EOL" \in JavaAssessment(installations, rule)
    PROVE  LifecycleForVendor(JavaMajor(EffectiveOne(installations).version),
                              EffectiveOne(installations).vendor) = "eol"
  <1> DEFINE current == EffectiveOne(installations)
             state == LifecycleForVendor(JavaMajor(current.version), current.vendor)
             code == Recommendation(JavaTarget(rule),
                                    CompareJava(current.version, JavaTarget(rule)), rule)
  <1>1. code # "VERSION_EOL"
        BY RecommendationIsVerdict DEF Verdicts
  <1>2. JavaAssessment(installations, rule) =
           IF installations = {} THEN {}
           ELSE IF ~HasEffective(installations) THEN {"VERSION_UNKNOWN"}
           ELSE EndOfLife(state) \cup {code}
        BY DEF JavaAssessment
  <1> HIDE DEF code, state
  <1>3. QED
        BY <1>1, <1>2 DEF EndOfLife, state

\* The report is certain when it is made.
LEMMA EvaluateIsCertain == IInv /\ Evaluate => EndOfLifeIsCertain'
  <1> SUFFICES ASSUME IInv, Evaluate PROVE EndOfLifeIsCertain'
      OBVIOUS
  <1>1. AllRead /\ UNCHANGED <<now, cache, reads>>
        BY ReportIsMade
  <1>2. PICK machine \in Machines, policy \in Policies :
           /\ advice'.machine = machine /\ advice'.at = now
           /\ advice'.findings = Findings(machine, policy)
        BY ReportIsMade
  <1> DEFINE node == EffectiveOne(machine.node)
             java == EffectiveOne(machine.java)
             nodeFlag == "VERSION_EOL" \in {f[2] : f \in {g \in advice'.findings : g[1] = "node"}}
             javaFlag == "VERSION_EOL" \in {f[2] : f \in {g \in advice'.findings : g[1] = "java"}}
             Recents(s) == {t \in 0..now : t > reads[s].started - Ttl[s]}
  <1>3. /\ nodeFlag <=> "VERSION_EOL" \in NodeAssessment(machine.node, policy.node)
        /\ javaFlag <=> "VERSION_EOL" \in JavaAssessment(machine.java, policy.java)
    <2>1. "VERSION_EOL" \notin ConflictAssessment(machine.node)
          BY DEF ConflictAssessment
    <2>2. {f[2] : f \in {g \in advice'.findings : g[1] = "node"}} =
             NodeAssessment(machine.node, policy.node) \cup ConflictAssessment(machine.node)
          BY <1>2, CodesOf
    <2>3. {f[2] : f \in {g \in advice'.findings : g[1] = "java"}} =
             JavaAssessment(machine.java, policy.java)
          BY <1>2, CodesOf
    <2>4. QED
          BY <2>1, <2>2, <2>3
  <1>4. ASSUME nodeFlag
        PROVE  \E t \in Recents("node-schedule") : Ended("node-schedule", SemVerMajor(node.version), t)
    <2>1. NodeLifecycle(SemVerMajor(node.version)) = "eol"
          BY <1>3, <1>4, NodeCode
    <2>2. PICK t \in 0..now : /\ IsRecent("node-schedule", t, now)
                              /\ Ended("node-schedule", SemVerMajor(node.version), t)
          BY <1>1, <2>1, NodeEnd
    <2>3. QED
          BY <2>2 DEF IsRecent
  <1>5. ASSUME javaFlag
        PROVE  /\ java.vendor = "temurin"
               /\ \E t \in Recents("temurin-support") :
                     /\ Ended("temurin-support", java.version.components[1], t)
                     /\ ~Published["temurin-support"][t][java.version.components[1]].atLeast
    <2>1. LifecycleForVendor(JavaMajor(java.version), java.vendor) = "eol"
          BY <1>3, <1>5, JavaCode
    <2>2. java.vendor = "temurin" /\ JavaMajor(java.version) # 0
          BY <1>1, <2>1, JavaEnd
    <2>3. PICK t \in 0..now :
             /\ IsRecent("temurin-support", t, now)
             /\ Ended("temurin-support", JavaMajor(java.version), t)
             /\ ~Published["temurin-support"][t][JavaMajor(java.version)].atLeast
          BY <1>1, <2>1, JavaEnd
    <2>4. JavaMajor(java.version) = java.version.components[1]
          BY <2>2 DEF JavaMajor
    <2>5. QED
          BY <2>2, <2>3, <2>4 DEF IsRecent
  <1>6. ASSUME HasEffective(machine.node), reads["node-schedule"].freshness = "fresh",
               \A t \in Recents("node-schedule") :
                  Ended("node-schedule", SemVerMajor(node.version), t)
        PROVE  nodeFlag
    <2>1. "node-schedule" \in Sources /\ Fresh("node-schedule")
          BY <1>6 DEF Sources, Fresh
    <2>2. reads["node-schedule"].at \in Recents("node-schedule")
          BY <1>1, <2>1, FreshIsRecent DEF IsRecent
    <2>3. NodeLifecycle(SemVerMajor(node.version)) = "eol"
          BY <1>1, <1>6, <2>1, <2>2, NodeEnd
    <2>4. QED
          BY <1>3, <1>6, <2>3, NodeCode, EffectiveIsInstalled
  <1>7. \A s : Recent(s)' = Recents(s)
        BY <1>1, <1>2 DEF Recent
  <1> HIDE DEF nodeFlag, javaFlag, Recents
  <1>8. QED
        BY <1>1, <1>2, <1>4, <1>5, <1>6, <1>7
        DEF EndOfLifeIsCertain, Codes, Ended, nodeFlag, javaFlag

\* A runtime is called end-of-life only when a recent document says so for
\* certain, and Node.js always when all recent ones do (D-022).
THEOREM EndsOfLifeAreCertain == Spec => []EndOfLifeIsCertain
  <1>1. Init => EndOfLifeIsCertain
        BY DEF Init, EndOfLifeIsCertain
  <1>2. IInv /\ EndOfLifeIsCertain /\ [Next]_vars => EndOfLifeIsCertain'
    <2> SUFFICES ASSUME IInv, EndOfLifeIsCertain, [Next]_vars PROVE EndOfLifeIsCertain'
        OBVIOUS
    <2>1. CASE Evaluate
          BY <2>1, EvaluateIsCertain
    <2>2. CASE ~Evaluate
          BY <2>2, ReportStays DEF EndOfLifeIsCertain, Recent, Codes
    <2>3. QED
          BY <2>1, <2>2
  <1>3. QED
        BY <1>1, <1>2, Inductive, PTL DEF Spec

-----------------------------------------------------------------------------
(* The verdicts.                                                           *)

\* Of an assessment's codes exactly one is a verdict.
LEMMA OneVerdict ==
    ASSUME NEW installations, NEW codes, NEW state, NEW code \in Verdicts,
           codes = IF installations = {} THEN {}
                   ELSE IF ~HasEffective(installations) THEN {"VERSION_UNKNOWN"}
                   ELSE EndOfLife(state) \cup {code},
           NEW others, others \cap Verdicts = {}
    PROVE  Cardinality((codes \cup others) \cap Verdicts) = IF installations = {} THEN 0 ELSE 1
  <1>1. "VERSION_UNKNOWN" \in Verdicts /\ EndOfLife(state) \cap Verdicts = {}
        BY DEF Verdicts, EndOfLife
  <1>2. CASE installations = {}
    <2>1. (codes \cup others) \cap Verdicts = {}
          BY <1>2
    <2>2. QED
          BY <1>2, <2>1, FS_EmptySet
  <1>3. CASE installations # {}
    <2>1. \E v : (codes \cup others) \cap Verdicts = {v}
      <3>1. CASE HasEffective(installations)
        <4>1. (codes \cup others) \cap Verdicts = {code}
              BY <1>1, <1>3, <3>1
        <4>2. QED
              BY <4>1
      <3>2. CASE ~HasEffective(installations)
        <4>1. (codes \cup others) \cap Verdicts = {"VERSION_UNKNOWN"}
              BY <1>1, <1>3, <3>2
        <4>2. QED
              BY <4>1
      <3>3. QED
            BY <3>1, <3>2
    <2>2. QED
          BY <1>3, <2>1, FS_Singleton
  <1>4. QED
        BY <1>2, <1>3

\* Codes of conflicts are no verdicts.
LEMMA ConflictsAreNoVerdicts ==
    ASSUME NEW installations
    PROVE  ConflictAssessment(installations) \cap Verdicts = {}
  BY DEF ConflictAssessment, Verdicts

\* There is one verdict on Node.js if it is installed, and none otherwise.
LEMMA NodeVerdict ==
    ASSUME NEW installations, NEW rule
    PROVE  Cardinality((NodeAssessment(installations, rule) \cup ConflictAssessment(installations))
                       \cap Verdicts) = IF installations = {} THEN 0 ELSE 1
  <1> DEFINE current == EffectiveOne(installations).version
             state == NodeLifecycle(SemVerMajor(current))
             code == Recommendation(NodeTarget(rule), CompareSemVer(current, NodeTarget(rule)), rule)
             codes == NodeAssessment(installations, rule)
             others == ConflictAssessment(installations)
  <1>1. code \in Verdicts
        BY RecommendationIsVerdict
  <1>2. codes = IF installations = {} THEN {}
                ELSE IF ~HasEffective(installations) THEN {"VERSION_UNKNOWN"}
                ELSE EndOfLife(state) \cup {code}
        BY DEF NodeAssessment
  <1>3. others \cap Verdicts = {}
        BY ConflictsAreNoVerdicts
  <1> HIDE DEF state, code, codes, others
  <1>4. Cardinality((codes \cup others) \cap Verdicts) = IF installations = {} THEN 0 ELSE 1
        BY <1>1, <1>2, <1>3, OneVerdict
  <1>5. QED
        BY <1>4 DEF codes, others

\* The same for Java.
LEMMA JavaVerdict ==
    ASSUME NEW installations, NEW rule
    PROVE  Cardinality(JavaAssessment(installations, rule) \cap Verdicts) =
              IF installations = {} THEN 0 ELSE 1
  <1> DEFINE current == EffectiveOne(installations)
             state == LifecycleForVendor(JavaMajor(current.version), current.vendor)
             code == Recommendation(JavaTarget(rule),
                                    CompareJava(current.version, JavaTarget(rule)), rule)
             codes == JavaAssessment(installations, rule)
             others == {}
  <1>1. code \in Verdicts
        BY RecommendationIsVerdict
  <1>2. codes = IF installations = {} THEN {}
                ELSE IF ~HasEffective(installations) THEN {"VERSION_UNKNOWN"}
                ELSE EndOfLife(state) \cup {code}
        BY DEF JavaAssessment
  <1>3. others \cap Verdicts = {} /\ codes = codes \cup others
        OBVIOUS
  <1> HIDE DEF state, code, codes, others
  <1>4. Cardinality((codes \cup others) \cap Verdicts) = IF installations = {} THEN 0 ELSE 1
        BY <1>1, <1>2, <1>3, OneVerdict
  <1>5. QED
        BY <1>3, <1>4 DEF codes

\* An update is available exactly when there is a candidate.
LEMMA AvailableIsCandidate ==
    ASSUME IInv, AllRead, NEW policy \in Policies, NEW rule, rule = policy.node, NEW installations
    PROVE  NodeUpdateCandidate(installations, rule) # None <=>
              "UPDATE_AVAILABLE" \in NodeAssessment(installations, rule)
                                     \cup ConflictAssessment(installations)
  <1> DEFINE current == EffectiveOne(installations).version
             target == NodeTarget(rule)
             relation == CompareSemVer(current, target)
             state == NodeLifecycle(SemVerMajor(current))
             code == Recommendation(target, relation, rule)
  <1>1. code = "UPDATE_AVAILABLE" <=> target # None /\ relation = "less" /\ ~rule.ignore
    <2>1. CASE relation \in {"less", "equal", "greater"}
          BY <2>1 DEF Recommendation, Verdict
    <2>2. CASE relation \notin {"less", "equal", "greater"}
          BY <2>2 DEF Recommendation, Verdict
    <2>3. QED
          BY <2>1, <2>2
  <1>2. relation = "less" => target # None
        BY DEF CompareSemVer
  <1>3. NodeUpdateCandidate(installations, rule) =
           IF ~rule.ignore /\ HasEffective(installations) /\ relation = "less"
           THEN target ELSE None
        BY DEF NodeUpdateCandidate
  <1>4. NodeAssessment(installations, rule) =
           IF installations = {} THEN {}
           ELSE IF ~HasEffective(installations) THEN {"VERSION_UNKNOWN"}
           ELSE EndOfLife(state) \cup {code}
        BY DEF NodeAssessment
  <1>5. HasEffective(installations) => installations # {}
        BY EffectiveIsInstalled
  <1>6. "UPDATE_AVAILABLE" \notin ConflictAssessment(installations)
        BY DEF ConflictAssessment
  <1> HIDE DEF target, relation, state, code
  <1>7. QED
        BY <1>1, <1>2, <1>3, <1>4, <1>5, <1>6 DEF EndOfLife

\* A version is unknown if none is effective, or if it cannot be read.
LEMMA UnknownIsUnclear ==
    ASSUME IInv, AllRead, NEW machine \in Machines, NEW policy \in Policies,
           NEW installations, installations = machine.node, NEW rule, rule = policy.node,
           "VERSION_UNKNOWN" \in NodeAssessment(installations, rule)
                                 \cup ConflictAssessment(installations)
    PROVE  \/ "DEFAULT_VERSION_CONFLICT" \in ConflictAssessment(installations)
           \/ EffectiveOne(installations).version = None
  <1> DEFINE current == EffectiveOne(installations).version
             target == NodeTarget(rule)
             relation == CompareSemVer(current, target)
             state == NodeLifecycle(SemVerMajor(current))
             code == Recommendation(target, relation, rule)
  <1>1. NodeAssessment(installations, rule) =
           IF installations = {} THEN {}
           ELSE IF ~HasEffective(installations) THEN {"VERSION_UNKNOWN"}
           ELSE EndOfLife(state) \cup {code}
        BY DEF NodeAssessment
  <1>2. "VERSION_UNKNOWN" \notin ConflictAssessment(installations)
        BY DEF ConflictAssessment
  <1>3. installations # {}
        BY <1>1, <1>2
  <1>4. CASE ~HasEffective(installations)
        BY <1>3, <1>4 DEF ConflictAssessment
  <1>5. CASE HasEffective(installations)
    <2>1. code = "VERSION_UNKNOWN"
      <3> HIDE DEF code, state
      <3>1. QED
            BY <1>1, <1>2, <1>3, <1>5 DEF EndOfLife
    <2>2. target # None /\ relation \notin {"less", "equal", "greater"}
          BY <2>1 DEF Recommendation, Verdict
    <2>3. target \in SemVers
          BY <2>2, TargetIsRight DEF Readable
    <2>4. current \in Readable
          BY <1>5, EffectiveIsOne, VersionsAssumption
    <2>5. current \in SemVers => relation \in Relations
          BY <2>3, VersionsCompare
    <2>6. current = None
          BY <2>2, <2>4, <2>5 DEF Relations, Readable
    <2>7. QED
          BY <2>6
  <1>6. QED
        BY <1>4, <1>5

\* The verdicts agree when the report is made.
LEMMA VerdictsAgreeWhenMade == IInv /\ Evaluate => VerdictsAgree'
  <1> SUFFICES ASSUME IInv, Evaluate PROVE VerdictsAgree'
      OBVIOUS
  <1>1. PICK machine \in Machines, policy \in Policies :
           /\ advice'.machine = machine /\ advice'.findings = Findings(machine, policy)
           /\ advice'.candidate = NodeUpdateCandidate(machine.node, policy.node)
        BY ReportIsMade
  <1> DEFINE nodes == NodeAssessment(machine.node, policy.node) \cup ConflictAssessment(machine.node)
             javas == JavaAssessment(machine.java, policy.java)
             candidate == NodeUpdateCandidate(machine.node, policy.node)
  <1>2. Codes("node")' = nodes /\ Codes("java")' = javas
        BY <1>1, CodesOf DEF Codes
  <1>3. AllRead
        BY ReportIsMade
  <1>4. /\ Cardinality(nodes \cap Verdicts) = IF machine["node"] = {} THEN 0 ELSE 1
        /\ Cardinality(javas \cap Verdicts) = IF machine["java"] = {} THEN 0 ELSE 1
        BY NodeVerdict, JavaVerdict
  <1>5. candidate # None <=> "UPDATE_AVAILABLE" \in nodes
        BY <1>3, AvailableIsCandidate
  <1>6. "VERSION_UNKNOWN" \in nodes =>
           \/ "DEFAULT_VERSION_CONFLICT" \in nodes
           \/ EffectiveOne(machine.node).version = None
        BY <1>3, UnknownIsUnclear
  <1> HIDE DEF nodes, javas, candidate
  <1>7. \A runtime \in {"node", "java"} :
           Cardinality(Codes(runtime)' \cap Verdicts) = IF machine[runtime] = {} THEN 0 ELSE 1
        BY <1>2, <1>4
  <1>8. advice'.candidate = candidate
        BY <1>1 DEF candidate
  <1>9. QED
        BY <1>1, <1>2, <1>5, <1>6, <1>7, <1>8 DEF VerdictsAgree

\* The report and the candidate agree on every machine and under every policy.
THEOREM VerdictsAlwaysAgree == Spec => []VerdictsAgree
  <1>1. Init => VerdictsAgree
        BY DEF Init, VerdictsAgree
  <1>2. IInv /\ VerdictsAgree /\ [Next]_vars => VerdictsAgree'
    <2> SUFFICES ASSUME IInv, VerdictsAgree, [Next]_vars PROVE VerdictsAgree'
        OBVIOUS
    <2>1. CASE Evaluate
          BY <2>1, VerdictsAgreeWhenMade
    <2>2. CASE ~Evaluate
          BY <2>2, ReportStays DEF VerdictsAgree, Codes
    <2>3. QED
          BY <2>1, <2>2
  <1>3. QED
        BY <1>1, <1>2, Inductive, PTL DEF Spec
=============================================================================
