------------------------------ MODULE CallProofs ------------------------------
(***************************************************************************)
(* Proofs about the calls a command makes: EchoCall, HardwareLookup,       *)
(* BannerGrab, Sweep, PortScan, StaticNeighbour and PathMtu, one section   *)
(* each.  They share no state; CommandLineProofs puts them together.       *)
(***************************************************************************)
EXTENDS EchoCall, StaticNeighbour, HardwareLookup, PortScan, BannerGrab, PathMtu, Sweep,
        FiniteSetTheorems, WellFoundedInduction, TLAPS

-----------------------------------------------------------------------------
(***************************************************************************)
(* What the sections share: induction, said of sets of numbers, and the folds*)
(* of sequences that Resolve and Sweep are written with.                   *)
(***************************************************************************)

\* A set of numbers has a least one.
LEMMA LeastNumber ==
  ASSUME NEW T, T \subseteq Nat, T # {}
  PROVE  \E x \in T : \A y \in T : x <= y
  <1> DEFINE R == OpToRel(<, Nat)
  <1>1. IsWellFoundedOn(R, Nat)
    BY ONLY NatLessThanWellFounded, Zenon
  <1>2. \A x, y \in Nat : x < y => <<x, y>> \in R
    BY Zenon DEF OpToRel
  <1> HIDE DEF R
  <1>3. PICK x \in T : \A y \in T : ~ (<<y, x>> \in R)
    BY ONLY <1>1, T \subseteq Nat, T # {}, WFMin
  <1>4. \A y \in T : ~ (y < x)
    BY <1>2, <1>3
  <1> QED
    BY <1>3, <1>4

\* Induction, said of a set: it holds zero and the successor of each of its
\* numbers, so it holds every number.
LEMMA NatSetInduction ==
  ASSUME NEW S, 0 \in S, \A n \in Nat : n \in S => n + 1 \in S
  PROVE  \A n \in Nat : n \in S
  <1> DEFINE T == {n \in Nat : n \notin S}
  <1> SUFFICES ASSUME T # {} PROVE FALSE
    OBVIOUS
  <1>1. PICK x \in T : \A y \in T : x <= y
    <2>1. T \subseteq Nat
      OBVIOUS
    <2> HIDE DEF T
    <2> QED
      BY ONLY T # {}, <2>1, LeastNumber
  <1>2. x \in Nat /\ x # 0 /\ x \notin S
    BY <1>1
  <1>3. x - 1 \in Nat /\ x = (x - 1) + 1 /\ ~ (x <= x - 1)
    BY <1>2
  <1>4. x - 1 \in S
    BY <1>1, <1>3
  <1> QED
    BY <1>2, <1>3, <1>4

\* The greatest of a set that has one.
LEMMA MaxIs ==
  ASSUME NEW T, NEW x \in T, T \subseteq Nat, \A y \in T : y <= x
  PROVE  Max(T) = x
  <1>1. \A y \in T : x >= y
    OBVIOUS
  <1>2. Max(T) \in T /\ \A y \in T : Max(T) >= y
    BY ONLY <1>1, x \in T, Zenon DEF Max
  <1>3. Max(T) >= x /\ x >= Max(T) /\ Max(T) \in Nat /\ x \in Nat
    BY <1>1, <1>2
  <1> HIDE DEF Max
  <1> QED
    BY ONLY <1>3

\* The elements of a sequence are its values at its places.
LEMMA RangeUpTo ==
  ASSUME NEW k \in Nat, k > 0
  PROVE  1..k # {} /\ Max(1..k) = k /\ (1..k) \ {k} = 1..(k - 1)
  <1>1. k \in 1..k /\ 1..k \subseteq Nat /\ \A y \in 1..k : y <= k
    OBVIOUS
  <1>2. Max(1..k) = k
    BY ONLY <1>1, MaxIs
  <1>3. (1..k) \ {k} = 1..(k - 1)
    OBVIOUS
  <1> QED
    BY <1>1, <1>2, <1>3

\* f is the fold of base and what law makes of a number and what was folded
\* before it, over every set of the numbers up to n, the greatest one last.
IsFold(f, n, base, law) ==
  /\ f[{}] = base
  /\ \A s \in SUBSET (1..n) : s # {} =>
       Max(s) \in s /\ f[s] = law[<<Max(s), f[s \ {Max(s)}]>>]

\* A fold over the numbers up to n, the greatest last: the function FoldLeft
\* chooses exists, whatever is folded.
LEMMA FoldExists ==
  ASSUME NEW D, NEW base \in D, NEW n \in Nat, NEW law \in [(1..n) \X D -> D]
  PROVE  \E f \in [SUBSET (1..n) -> D] : IsFold(f, n, base, law)
  <1> USE DEF IsFold
  <1> DEFINE Folds(f, k) == f \in [SUBSET (1..k) -> D] /\ IsFold(f, k, base, law)
             S == {k \in Nat : k <= n => \E f : Folds(f, k)}
  <1>1. 0 \in S
    <2>1. SUBSET (1..0) = {{}}
      OBVIOUS
    <2>2. Folds([s \in {{}} |-> base], 0)
      BY <2>1
    <2> HIDE DEF Folds
    <2> QED
      BY <2>2
  <1>2. ASSUME NEW k \in Nat, k \in S PROVE k + 1 \in S
    <2> HIDE DEF Folds
    <2> SUFFICES ASSUME k + 1 <= n PROVE \E f : Folds(f, k + 1)
      OBVIOUS
    <2>0. k <= n
      OBVIOUS
    <2>1. PICK f : Folds(f, k)
      BY <1>2, <2>0
    <2> USE DEF Folds
    <2> DEFINE g == [s \in SUBSET (1..(k + 1)) |->
                       IF k + 1 \in s THEN law[<<k + 1, f[s \ {k + 1}]>>] ELSE f[s]]
    <2>2. \A s \in SUBSET (1..(k + 1)) : s \ {k + 1} \in SUBSET (1..k)
      OBVIOUS
    <2>3. \A s \in SUBSET (1..(k + 1)) : k + 1 \notin s => s \in SUBSET (1..k)
      OBVIOUS
    <2>4. k + 1 \in 1..n
      OBVIOUS
    <2>5. g \in [SUBSET (1..(k + 1)) -> D]
      <3>1. ASSUME NEW s \in SUBSET (1..(k + 1)) PROVE g[s] \in D
        <4>1. CASE k + 1 \in s
          <5>1. f[s \ {k + 1}] \in D
            BY <2>1, <2>2
          <5>2. <<k + 1, f[s \ {k + 1}]>> \in (1..n) \X D
            BY <2>4, <5>1
          <5> QED
            BY <4>1, <5>2
        <4>2. CASE k + 1 \notin s
          BY <2>1, <2>3, <4>2
        <4> QED
          BY <4>1, <4>2
      <3> QED
        BY <3>1
    <2>6. \A s \in SUBSET (1..k) : g[s] = f[s]
      OBVIOUS
    <2>7. g[{}] = base
      BY <2>1, <2>6
    <2>8. ASSUME NEW s \in SUBSET (1..(k + 1)), s # {}
          PROVE  Max(s) \in s /\ g[s] = law[<<Max(s), g[s \ {Max(s)}]>>]
      <3>1. CASE k + 1 \in s
        <4>1. Max(s) = k + 1
          <5>1. s \subseteq Nat /\ \A y \in s : y <= k + 1
            OBVIOUS
          <5> QED
            BY <3>1, <5>1, MaxIs
        <4>2. g[s \ {k + 1}] = f[s \ {k + 1}]
          BY <2>2, <2>6
        <4> QED
          BY <3>1, <4>1, <4>2
      <3>2. CASE k + 1 \notin s
        <4>1. s \in SUBSET (1..k)
          BY <2>3, <3>2
        <4>2. Max(s) \in s /\ f[s] = law[<<Max(s), f[s \ {Max(s)}]>>]
          BY <2>1, <2>8, <4>1
        <4>3. g[s] = f[s]
          BY <2>6, <4>1
        <4>4. g[s \ {Max(s)}] = f[s \ {Max(s)}]
          <5>1. s \ {Max(s)} \in SUBSET (1..k)
            BY <4>1
          <5> QED
            BY <2>6, <5>1
        <4> QED
          BY <4>2, <4>3, <4>4
      <3> QED
        BY <3>1, <3>2
    <2>9. Folds(g, k + 1)
      BY <2>5, <2>7, <2>8
    <2> HIDE DEF Folds
    <2> QED
      BY <2>9
  <1>3. n \in S
    <2> HIDE DEF S
    <2> QED
      BY <1>1, <1>2, NatSetInduction
  <1>4. PICK f : Folds(f, n)
    <2> HIDE DEF Folds
    <2> QED
      BY <1>3
  <1> QED
    BY <1>4

\* A property of the numbers up to n that zero has and each passes on.
LEMMA InductionUpTo ==
  ASSUME NEW n \in Nat, NEW S, 0 \in S,
         \A k \in 0..(n - 1) : k \in S => k + 1 \in S
  PROVE  \A k \in 0..n : k \in S
  <1> DEFINE T == {k \in Nat : k <= n => k \in S}
  <1>1. 0 \in T
    OBVIOUS
  <1>2. ASSUME NEW k \in Nat, k \in T PROVE k + 1 \in T
    <2> SUFFICES ASSUME k + 1 <= n PROVE k + 1 \in S
      OBVIOUS
    <2>1. k \in 0..(n - 1) /\ k \in S
      BY <1>2
    <2> QED
      BY <2>1
  <1>3. \A k \in Nat : k \in T
    <2> HIDE DEF T
    <2> QED
      BY ONLY <1>1, <1>2, NatSetInduction
  <1> QED
    BY <1>3

\* The elements up to one place more are those before and one more.
LEMMA OneMoreElement ==
  ASSUME NEW T, NEW s \in Seq(T), NEW e \in T
  PROVE  Append(s, e) \in Seq(T) /\ ToSet(Append(s, e)) = ToSet(s) \cup {e}
  <1>1. /\ Append(s, e) \in Seq(T)
        /\ DOMAIN Append(s, e) = DOMAIN s \cup {Len(s) + 1}
        /\ \A i \in DOMAIN s : Append(s, e)[i] = s[i]
        /\ Append(s, e)[Len(s) + 1] = e
    OBVIOUS
  <1> QED
    BY <1>1 DEF ToSet

-----------------------------------------------------------------------------
(***************************************************************************)
(* Proofs about EchoCall: for any targets, whatever the resolver returns,  *)
(* every probe goes to the one address of the one lookup, and the answer of*)
(* ping and of is_reachable is what the probes met.                        *)
(***************************************************************************)

\* The address a call resolves its target to.

\* What one more result of the resolver does to the addresses kept.
Resolved(kept, info, zone) ==
  IF info.family \in Families THEN Dedupe(kept, WithZone(info, zone)) ELSE kept

\* g holds the addresses kept after each result of a lookup.
KeptAlong(g, target, family, infos) ==
  /\ g[0] = <<>>
  /\ \A k \in 1..Len(infos) : g[k] = Resolved(g[k - 1], infos[k], target.zone)
  /\ Addresses(target, family, infos) = g[Len(infos)]
  /\ \A k \in 0..Len(infos) : g[k] \in Seq({WithZone(infos[i], target.zone) : i \in 1..Len(infos)})

\* The addresses ResolveOne folds, result by result.
LEMMA AddressSteps ==
  ASSUME NEW target, NEW family, NEW infos, infos \in Seq(ToSet(infos)),
         ~RefusedUnasked(target, family)
  PROVE  \E g : KeptAlong(g, target, family, infos)
  <1> DEFINE n == Len(infos)
             A == {WithZone(infos[i], target.zone) : i \in 1..n}
             D == Seq(A)
             Op(d, i) == Resolved(d, infos[i], target.zone)
             F(f) == [s \in SUBSET DOMAIN infos |->
                        IF s = {} THEN <<>> ELSE Op(f[s \ {Max(s)}], Max(s))]
             iter == CHOOSE f : f = F(f)
             law == [p \in (1..n) \X D |-> Op(p[2], p[1])]
  <1>1. n \in Nat /\ DOMAIN infos = 1..n
    OBVIOUS
  <1>2. Addresses(target, family, infos) = iter[1..n]
    BY <1>1 DEF Addresses, FoldLeft, MapThenFoldSet, Resolved, Refused
  <1>3. /\ <<>> \in D
        /\ \A i \in 1..n, d \in D : Op(d, i) \in D
    <2>1. ASSUME NEW i \in 1..n, NEW d \in D PROVE Op(d, i) \in D
      <3> DEFINE a == WithZone(infos[i], target.zone)
      <3>1. a \in A
        OBVIOUS
      <3>2. Op(d, i) \in {d, Append(d, a)}
        BY DEF Resolved, Dedupe
      <3> HIDE DEF a, A, Op
      <3> QED
        BY ONLY <3>1, <3>2, d \in D
    <2>2. <<>> \in D
      OBVIOUS
    <2> HIDE DEF D, Op
    <2> QED
      BY ONLY <2>1, <2>2
  <1> HIDE DEF Op
  <1>4. law \in [(1..n) \X D -> D] /\ \A i \in 1..n, d \in D : law[<<i, d>>] = Op(d, i)
    BY <1>3
  <1> HIDE DEF law
  <1>5. PICK f \in [SUBSET (1..n) -> D] : IsFold(f, n, <<>>, law)
    <2> HIDE DEF n, D
    <2> QED
      BY ONLY <1>1, <1>3, <1>4, FoldExists
  <1> HIDE DEF D
  <1>6. f = F(f)
    BY <1>1, <1>4, <1>5 DEF IsFold
  <1>7. iter = F(iter)
    BY ONLY <1>6
  <1> HIDE DEF iter
  <1> DEFINE g == [k \in 0..n |-> iter[1..k]]
  <1>8. g[0] = <<>>
    BY <1>1, <1>7
  <1>9. ASSUME NEW k \in 1..n PROVE g[k] = Op(g[k - 1], k)
    <2>1. k \in Nat /\ k > 0 /\ 1..k \in SUBSET DOMAIN infos
      BY <1>1
    <2>2. 1..k # {} /\ Max(1..k) = k /\ (1..k) \ {k} = 1..(k - 1)
      BY ONLY <2>1, RangeUpTo
    <2>3. iter[1..k] = Op(iter[1..(k - 1)], k)
      BY <1>7, <2>1, <2>2
    <2> QED
      BY <1>1, <2>3
  <1>10. Addresses(target, family, infos) = g[n]
    BY <1>1, <1>2
  <1> HIDE DEF g
  <1>11. \A k \in 0..n : g[k] \in D
    <2> DEFINE S == {k \in Nat : g[k] \in D}
    <2>1. 0 \in S
      BY <1>3, <1>8
    <2>2. ASSUME NEW k \in 0..(n - 1), k \in S PROVE k + 1 \in S
      <3>1. k + 1 \in 1..n /\ (k + 1) - 1 = k /\ k + 1 \in Nat
        BY <1>1
      <3>2. g[k + 1] = Op(g[k], k + 1)
        BY <1>9, <3>1
      <3> QED
        BY <1>3, <2>2, <3>1, <3>2
    <2> HIDE DEF S
    <2>3. \A k \in 0..n : k \in S
      BY ONLY <1>1, <2>1, <2>2, InductionUpTo
    <2> QED
      BY <2>3 DEF S
  <1> QED
    BY <1>8, <1>9, <1>10, <1>11 DEF Op, D, KeptAlong

\* The result of the resolver a call goes by: the first of a known family.
FirstKnown(infos, j) ==
  /\ j \in DOMAIN infos /\ infos[j].family \in Families
  /\ \A k \in 1..(j - 1) : infos[k].family \notin Families

\* The first address kept is that of the first result of a known family.
LEMMA FirstAddress ==
  ASSUME NEW target, NEW family, NEW infos, infos \in Seq(ToSet(infos)),
         ~RefusedUnasked(target, family), Addresses(target, family, infos) # <<>>
  PROVE  \E j \in DOMAIN infos :
           /\ FirstKnown(infos, j)
           /\ Addresses(target, family, infos)[1] = WithZone(infos[j], target.zone)
  <1> DEFINE n == Len(infos)
             A == {WithZone(infos[i], target.zone) : i \in 1..n}
  <1>1. n \in Nat /\ DOMAIN infos = 1..n
    OBVIOUS
  <1>2. PICK g : /\ g[0] = <<>>
                 /\ \A k \in 1..n : g[k] = Resolved(g[k - 1], infos[k], target.zone)
                 /\ Addresses(target, family, infos) = g[n]
                 /\ \A k \in 0..n : g[k] \in Seq(A)
    <2>1. PICK g : KeptAlong(g, target, family, infos)
      BY AddressSteps
    <2> QED
      BY ONLY <2>1, Zenon DEF KeptAlong
  <1> HIDE DEF n, A
  <1> DEFINE Known(k) ==
               IF g[k] = <<>> THEN \A i \in 1..k : infos[i].family \notin Families
               ELSE \E j \in DOMAIN infos : FirstKnown(infos, j) /\ g[k][1] = WithZone(infos[j], target.zone)
             S == {k \in Nat : Known(k)}
  <1>3. 0 \in S
    BY <1>2
  <1>4. ASSUME NEW k \in 0..(n - 1), k \in S PROVE k + 1 \in S
    <2> DEFINE before == g[k]
               after == g[k + 1]
               a == WithZone(infos[k + 1], target.zone)
    <2>1. k + 1 \in 1..n /\ (k + 1) - 1 = k /\ k + 1 \in Nat /\ k \in 0..n /\ k \in Nat
      BY <1>1
    <2>2. after = Resolved(before, infos[k + 1], target.zone) /\ before \in Seq(A) /\ Known(k)
      BY <1>2, <1>4, <2>1
    <2>3. CASE after = before /\ (before # <<>> \/ infos[k + 1].family \notin Families)
      <3>1. 1..(k + 1) = (1..k) \cup {k + 1}
        BY <2>1
      <3>2. CASE before = <<>>
        BY <2>1, <2>2, <2>3, <3>1, <3>2
      <3>3. CASE before # <<>>
        BY <2>1, <2>2, <2>3, <3>3
      <3> QED
        BY <3>2, <3>3
    <2>4. CASE before = <<>> /\ after = Append(before, a) /\ infos[k + 1].family \in Families
      <3>1. after = <<a>> /\ after # <<>> /\ after[1] = a
        BY <2>4
      <3>2. k + 1 \in DOMAIN infos /\ FirstKnown(infos, k + 1)
        BY <1>1, <2>1, <2>2, <2>4 DEF FirstKnown
      <3> HIDE DEF after, a
      <3>3. \E j \in DOMAIN infos : FirstKnown(infos, j) /\ after[1] = WithZone(infos[j], target.zone)
        BY ONLY <3>1, <3>2 DEF a
      <3>4. Known(k + 1)
        BY <3>1, <3>3 DEF after
      <3> HIDE DEF Known
      <3> QED
        BY <2>1, <3>4
    <2>5. CASE before # <<>> /\ after = Append(before, a) /\ infos[k + 1].family \in Families
      <3>1. Len(before) > 0 /\ 1 \in DOMAIN before
        BY <2>2, <2>5
      <3>2. after # <<>> /\ after[1] = before[1]
        BY <2>2, <2>5, <3>1
      <3>3. Known(k + 1)
        BY <2>2, <2>5, <3>2
      <3> HIDE DEF Known
      <3> QED
        BY <2>1, <3>3
    <2>6. \/ after = before /\ (before # <<>> \/ infos[k + 1].family \notin Families)
          \/ after = Append(before, a) /\ infos[k + 1].family \in Families
      <3>1. before = <<>> => ~ \E i \in DOMAIN before : before[i].host = a.host /\ before[i].zone = a.zone
        OBVIOUS
      <3> HIDE DEF a
      <3>2. \/ infos[k + 1].family \notin Families /\ after = before
            \/ infos[k + 1].family \in Families /\ after = Dedupe(before, a)
        BY <2>2 DEF Resolved, a
      <3> HIDE DEF after, before
      <3> QED
        BY <3>1, <3>2 DEF Dedupe
    <2> QED
      BY <2>3, <2>4, <2>5, <2>6
  <1>5. \A k \in 0..n : k \in S
    <2> HIDE DEF S
    <2> QED
      BY ONLY <1>1, <1>3, <1>4, InductionUpTo
  <1>6. n \in 0..n
    BY <1>1
  <1> QED
    BY <1>2, <1>5, <1>6

\* What a call may hold about the address it sends to.
RightAddress(to, target, family, infos) ==
  /\ to.family \in Families /\ family \in {"any", to.family}
  /\ to.linkLocal /\ to.family = "ipv6" => to.zone \in Links
  /\ \E j \in DOMAIN infos :
       /\ infos[j].host = to.host /\ infos[j].family = to.family
       /\ \A k \in 1..(j - 1) : infos[k].family \notin Families
  /\ target.form = "literal" => to.host = target.host /\ to.zone = target.zone

\* What the resolver returns is a sequence of results of the families asked for.
LEMMA InfosAre ==
  ASSUME NEW target \in Targets, NEW family, NEW infos \in Infos(target, family), infos # Refused
  PROVE  /\ infos \in Seq(ToSet(infos))
         /\ \A i \in DOMAIN infos : infos[i].scope \in Links \cup {"none"}
         /\ IF target.form = "literal"
              THEN infos = <<Info(target.family, target.host, target.linkLocal, "none")>>
              ELSE \A i \in DOMAIN infos : infos[i].family \in Families => family \in {"any", infos[i].family}
  <1>1. CASE target.form = "literal"
    <2> DEFINE info == Info(target.family, target.host, target.linkLocal, "none")
    <2>1. infos = <<info>>
      BY <1>1 DEF Infos
    <2>2. info.scope = "none"
      BY DEF Info
    <2> HIDE DEF info
    <2>3. DOMAIN infos = {1} /\ infos[1] = info /\ infos \in Seq({info}) /\ ToSet(infos) = {info}
      BY <2>1 DEF ToSet
    <2> QED
      BY <1>1, <2>1, <2>2, <2>3 DEF info
  <1>2. CASE target.form # "literal"
    BY <1>2, EchoAssumption DEF Infos
  <1> QED
    BY <1>1, <1>2

\* What ResolveOne yields is an address the target names, with its zone, or none.
LEMMA ResolvedIsRight ==
  ASSUME NEW target \in Targets, NEW family, NEW infos \in Infos(target, family),
         ResolveOne(target, family, infos) # NoAddress
  PROVE  RightAddress(ResolveOne(target, family, infos), target, family, infos)
  <1> DEFINE kept == Addresses(target, family, infos)
             to == ResolveOne(target, family, infos)
  <1>1. kept # <<>> /\ to = kept[1] /\ ~NeedsZone(to)
    BY DEF ResolveOne, Refused
  <1>2. ~RefusedUnasked(target, family)
    BY <1>1 DEF Addresses, Refused
  <1>3. infos # Refused
    <2> SUFFICES ASSUME infos = <<>> PROVE FALSE
      BY DEF Refused
    <2>1. infos \in Seq(ToSet(infos)) /\ DOMAIN infos = {}
      OBVIOUS
    <2> QED
      BY <1>1, <1>2, <2>1, FirstAddress
  <1> HIDE DEF kept
  <1>4. infos \in Seq(ToSet(infos))
    BY <1>3, InfosAre
  <1>5. PICK j \in DOMAIN infos : FirstKnown(infos, j) /\ kept[1] = WithZone(infos[j], target.zone)
    BY <1>1, <1>2, <1>4, FirstAddress DEF kept
  <1> DEFINE info == infos[j]
  <1>6. to = WithZone(info, target.zone) /\ info.family \in Families
    BY <1>1, <1>5 DEF FirstKnown
  <1>7. /\ info.scope \in Links \cup {"none"}
        /\ target.form # "literal" => family \in {"any", info.family}
    BY <1>3, <1>6, InfosAre
  <1>8. target.form = "literal" => info = Info(target.family, target.host, target.linkLocal, "none")
    <2> SUFFICES ASSUME target.form = "literal" PROVE info = Info(target.family, target.host, target.linkLocal, "none")
      OBVIOUS
    <2> DEFINE written == Info(target.family, target.host, target.linkLocal, "none")
    <2>1. infos = <<written>>
      BY <1>3, InfosAre
    <2> HIDE DEF written
    <2>2. DOMAIN infos = {1} /\ infos[1] = written
      BY <2>1
    <2> QED
      BY <2>2 DEF written
  <1> HIDE DEF to, info
  <1>9. to.host = info.host /\ to.family = info.family /\ to.linkLocal = info.linkLocal
        /\ to.zone = IF target.zone # "none" THEN target.zone ELSE info.scope
    BY <1>6 DEF WithZone
  <1>10. target.zone \in Links \cup {"none"}
    BY <1>2, EchoAssumption DEF RefusedUnasked, MalformedZone, Zoned
  <1>11. /\ to.family \in Families /\ to.zone \in Links \cup {"none"}
         /\ to.linkLocal /\ to.family = "ipv6" => to.zone # "none"
    BY <1>1, <1>6, <1>7, <1>9, <1>10 DEF NeedsZone
  <1>12. target.form = "literal" =>
           /\ info.family = target.family /\ info.host = target.host /\ info.scope = "none"
    BY <1>8 DEF Info
  <1>13. target.form = "literal" => family \in {"any", target.family}
    <2>1. target.form = "literal" => target.family \in Families
      BY EchoAssumption
    <2>2. target.form = "literal" => FamilyOf(target) = target.family
      BY <1>2, <2>1, LinksAssumption DEF RefusedUnasked, MalformedZone, FamilyOf, Zoned, Families, BadZones
    <2> QED
      BY <1>2, <2>1, <2>2 DEF RefusedUnasked, Families
  <1>14. \E i \in DOMAIN infos :
           /\ infos[i].host = to.host /\ infos[i].family = to.family
           /\ \A k \in 1..(i - 1) : infos[k].family \notin Families
    BY <1>5, <1>9 DEF FirstKnown, info
  <1> QED
    BY <1>7, <1>9, <1>11, <1>12, <1>13, <1>14 DEF RightAddress, to

-----------------------------------------------------------------------------
\* The invariant of a call of ping or is_reachable.

Probes(to) == [method : {"icmp", "tcp"}, address : {to}, outcome : {"reply", "expired", "nothing"}]
Running == {"probe", "wait", "pause", "close"}
Untimed(last) == \A i \in 1..last : ~Timed(sent[i].outcome)
Before == Len(sent) - Len(outcomes)
AddressFits == asked # {} /\ \A infos \in asked : RightAddress(address, call.target, call.family, infos)

EchoTypeInv ==
  /\ call \in Calls /\ (call.kind = "reachable" => ~call.fallback /\ ~call.raising)
  /\ step \in {"resolve", "check", "choose", "open", "done"} \cup Running
  /\ method \in {"none", "icmp", "tcp"}
  /\ transport \in {"none", "open", "closed"}
  /\ outcomes \in Seq({"reply", "expired", "nothing"})
  /\ worker \in {"idle", "queued", "calling"}
  /\ sent \in Seq(Probes(address))

\* A transport is open from its opening to the end of its run, and only a wait
\* or an abandoned call keeps the pool's thread busy.
EchoStepInv ==
  /\ step = "done" <=> answer.kind # "none"
  /\ transport = "open" <=> step \in Running
  /\ worker # "idle" => step \in {"wait", "done"}
  /\ worker = "queued" => step = "wait"
  /\ worker # "idle" /\ step = "wait" => method = "icmp"

\* The lookup is made first, and what it found is what every probe goes to.
AddressInv ==
  /\ step \in {"resolve", "check", "choose"} => sent = <<>>
  /\ step = "resolve" => asked = {}
  /\ step \notin {"resolve", "done"} \/ sent # <<>> => AddressFits

\* What is left to try: TCP where it is allowed, and last.
LegsInv ==
  /\ step = "choose" => call.kind = "ping"
  /\ step \in {"open"} \cup Running =>
       /\ IF call.kind = "ping"
            THEN legs \in {<<"icmp">>, <<"tcp">>} /\ (legs = <<"tcp">> => call.fallback)
            ELSE legs \in {<<"icmp">>, <<"tcp">>, <<"icmp", "tcp">>} /\ (call.bad = "port" => legs = <<"icmp">>)
       /\ step # "open" => method = Head(legs)

\* The transport's own probes are the last of the call's, and those before them
\* were not timed.
RunInv ==
  /\ step = "open" => Untimed(Len(sent)) /\ (call.kind = "ping" => sent = <<>>)
  /\ step \in Running =>
       /\ Before \in Nat /\ (call.kind = "ping" => Before = 0)
       /\ Untimed(Before)
       /\ \A k \in 1..Len(outcomes) : sent[Before + k].outcome = outcomes[k] /\ sent[Before + k].method = method
       /\ IF step = "close" THEN Len(outcomes) = EchoesWanted ELSE Len(outcomes) < EchoesWanted

EchoAnswerInv ==
  /\ PingTellsWhatCameBack /\ ReachableTellsWhetherAnyTryAnswered /\ OnlyTcpSocketsEscape
  /\ answer.kind # "none" /\ call.mode = "sync" /\ call.kind = "reachable" => answer.kind = "reachability"

EchoInv ==
  /\ EchoTypeInv /\ EchoStepInv /\ AddressInv /\ LegsInv /\ RunInv
  /\ TcpIsTheLastResort /\ EchoAnswerInv

\* A call begins with nothing asked and nothing sent.
LEMMA EchoInitially == EchoInit => EchoInv
  <1> SUFFICES ASSUME EchoInit PROVE EchoInv
    OBVIOUS
  <1>1. /\ call \in Calls /\ (call.kind = "reachable" => ~call.fallback /\ ~call.raising)
        /\ step = "resolve" /\ method = "none" /\ transport = "none" /\ outcomes = <<>>
        /\ worker = "idle" /\ asked = {} /\ sent = <<>> /\ answer.kind = "none"
    BY DEF EchoInit, EchoFresh, NoAnswer
  <1>2. sent \in Seq(Probes(address)) /\ outcomes \in Seq({"reply", "expired", "nothing"}) /\ DOMAIN sent = {}
    <2>1. \A S : <<>> \in Seq(S)
      OBVIOUS
    <2> QED
      BY <1>1, <2>1
  <1>3. EchoTypeInv /\ EchoStepInv /\ AddressInv
    BY <1>1, <1>2 DEF EchoTypeInv, EchoStepInv, AddressInv, Running
  <1>4. LegsInv /\ RunInv
    BY <1>1 DEF LegsInv, RunInv, Running
  <1>5. TcpIsTheLastResort /\ EchoAnswerInv
    BY <1>1, <1>2 DEF TcpIsTheLastResort, EchoAnswerInv, OnlyTcpSocketsEscape, PingTellsWhatCameBack, ReachableTellsWhetherAnyTryAnswered
  <1> QED
    BY <1>3, <1>4, <1>5 DEF EchoInv

\* The answers a call may end with.
LEMMA EndedIs ==
  /\ \A kind : Ended(kind).kind = kind /\ Ended(kind).yes = FALSE
  /\ [Ended("reachability") EXCEPT !.yes = TRUE].kind = "reachability"
  /\ [Ended("reachability") EXCEPT !.yes = TRUE].yes = TRUE
  BY DEF Ended, NoAnswer

\* What a refused call answers says nothing of probes.
LEMMA RefusalIs ==
  ASSUME EchoTypeInv
  PROVE  /\ ~Refusal.yes
         /\ Refusal.kind = IF call.kind = "reachable" THEN "reachability"
                           ELSE IF call.raising THEN "raised" ELSE "suppressed"
  <1> DEFINE kind == CASE call.kind = "reachable" -> "reachability"
                       [] call.raising            -> "raised"
                       [] OTHER                   -> "suppressed"
  <1>1. kind = IF call.kind = "reachable" THEN "reachability" ELSE IF call.raising THEN "raised" ELSE "suppressed"
    BY DEF EchoTypeInv, Calls
  <1>2. Refusal = Ended(kind)
    BY DEF Refusal
  <1> HIDE DEF kind
  <1> QED
    BY <1>1, <1>2, EndedIs

\* Nothing timed among the probes of a call of is_reachable: it answers no.
LEMMA NoneTimed ==
  ASSUME EchoTypeInv, Untimed(Len(sent))
  PROVE  ~TimedOver("icmp") /\ ~TimedOver("tcp")
  <1>1. DOMAIN sent = 1..Len(sent)
    BY DEF EchoTypeInv
  <1> QED
    BY <1>1 DEF TimedOver, Untimed

\* An end of the call is one that its answer describes.
LEMMA EndKeeps ==
  ASSUME EchoInv, UNCHANGED <<call, address, asked, sent>>, step' = "done", EchoTypeInv',
         answer'.kind # "none", transport' # "open", worker' # "queued", EchoAnswerInv'
  PROVE  EchoInv'
  <1>1. EchoStepInv'
    BY DEF EchoStepInv, Running
  <1>2. AddressInv'
    <2>1. AddressFits' = AddressFits
      BY DEF AddressFits
    <2>2. sent # <<>> => AddressFits
      BY DEF EchoInv, AddressInv
    <2> QED
      BY <2>1, <2>2 DEF AddressInv
  <1>3. LegsInv' /\ RunInv'
    BY DEF LegsInv, RunInv, Running
  <1>4. TcpIsTheLastResort'
    BY DEF EchoInv, TcpIsTheLastResort
  <1> QED
    BY <1>1, <1>2, <1>3, <1>4 DEF EchoInv

\* Ending with something that is neither a result nor about reachability, when
\* nobody waits for a reachability.
LEMMA EndWithout ==
  ASSUME NEW kind \in {"escaped", "cancelled"}, answer' = Ended(kind), UNCHANGED <<call, sent>>,
         EchoTypeInv, call.kind = "ping" \/ call.mode # "sync",
         kind = "escaped" => call.kind = "ping" /\ method' = "tcp"
  PROVE  EchoAnswerInv'
  <1>1. answer'.kind = kind /\ kind \notin {"result", "raised", "suppressed", "reachability"}
    BY EndedIs
  <1> QED
    BY <1>1 DEF EchoAnswerInv, OnlyTcpSocketsEscape, PingTellsWhatCameBack, ReachableTellsWhetherAnyTryAnswered, EchoTypeInv

\* Ending with a refusal, or with a no, when no probe was timed.
LEMMA EndRefused ==
  ASSUME EchoTypeInv, UNCHANGED <<call, sent>>, Untimed(Len(sent)),
         answer' = Refusal \/ (call.kind = "reachable" /\ answer' = Ended("reachability")),
         call.kind = "ping" => sent = <<>>
  PROVE  EchoAnswerInv' /\ answer'.kind # "none"
  <1>1. /\ ~answer'.yes
        /\ answer'.kind = IF call.kind = "reachable" THEN "reachability"
                          ELSE IF call.raising THEN "raised" ELSE "suppressed"
    BY EndedIs, RefusalIs
  <1>2. call.kind \in {"ping", "reachable"} /\ call.raising \in BOOLEAN /\ answer'.yes = FALSE
    BY <1>1, EndedIs, RefusalIs DEF EchoTypeInv, Calls, Refusal, Ended, NoAnswer
  <1>3. TimedOver("icmp")' = FALSE /\ TimedOver("tcp")' = FALSE
    BY NoneTimed DEF TimedOver
  <1>4. PingTellsWhatCameBack'
    BY <1>1, <1>2 DEF PingTellsWhatCameBack
  <1>5. ReachableTellsWhetherAnyTryAnswered'
    BY <1>1, <1>2, <1>3 DEF ReachableTellsWhetherAnyTryAnswered
  <1> QED
    BY <1>1, <1>2, <1>4, <1>5 DEF EchoAnswerInv, OnlyTcpSocketsEscape

\* What the next leg is, or the end.
LEMMA LegFailsIs ==
  ASSUME EchoInv, step \in {"open"} \cup Running, NEW failure, LegFails(failure)
  PROVE  \/ /\ step' = "open" /\ answer' = answer /\ call.kind = "reachable" /\ call.bad # "port"
            /\ legs' = <<"tcp">>
         \/ step' = "done" /\ answer' = failure
  <1>1. legs \in {<<"icmp">>, <<"tcp">>, <<"icmp", "tcp">>}
        /\ (legs = <<"icmp", "tcp">> => call.kind # "ping" /\ call.bad # "port")
    BY DEF EchoInv, LegsInv
  <1>2. call.kind \in {"ping", "reachable"}
    BY DEF EchoInv, EchoTypeInv, Calls
  <1>3. CASE legs = <<"icmp", "tcp">>
    <2>1. Len(legs) > 1 /\ Tail(legs) = <<"tcp">>
      BY <1>3
    <2> QED
      BY <1>1, <1>2, <1>3, <2>1 DEF LegFails
  <1>4. ASSUME NEW leg, legs = <<leg>> PROVE step' = "done" /\ answer' = failure
    <2>1. Len(<<leg>>) = 1
      OBVIOUS
    <2>2. Len(legs) = 1
      BY ONLY <1>4, <2>1, Zenon
    <2>3. ~(Len(legs) > 1)
      BY ONLY <2>2
    <2> QED
      BY <2>3 DEF LegFails, End
  <1> QED
    BY <1>1, <1>3, <1>4

\* The next leg of is_reachable: nothing was timed so far.
LEMMA NextLegKeeps ==
  ASSUME EchoInv, UNCHANGED <<call, address, asked, sent>>, EchoTypeInv', step \in {"open"} \cup Running,
         step' = "open", answer' = answer, call.kind = "reachable", call.bad # "port", legs' = <<"tcp">>,
         transport' # "open", worker' = "idle", Untimed(Len(sent))
  PROVE  EchoInv'
  <1>1. step # "done" /\ step # "resolve" /\ answer.kind = "none"
    BY DEF EchoInv, EchoStepInv, Running
  <1>2. EchoStepInv'
    BY <1>1 DEF EchoStepInv, Running
  <1>3. AddressInv'
    <2>1. AddressFits' = AddressFits /\ AddressFits
      BY <1>1 DEF AddressFits, EchoInv, AddressInv
    <2> QED
      BY <2>1 DEF AddressInv
  <1>4. LegsInv' /\ RunInv'
    BY DEF LegsInv, RunInv, Running, Untimed
  <1>5. TcpIsTheLastResort' /\ EchoAnswerInv'
    BY <1>1 DEF EchoInv, TcpIsTheLastResort, EchoAnswerInv, OnlyTcpSocketsEscape, PingTellsWhatCameBack,
                ReachableTellsWhetherAnyTryAnswered, TimedOver
  <1> QED
    BY <1>2, <1>3, <1>4, <1>5 DEF EchoInv

\* The lookup is the only one, and its address the one that fits.
LEMMA ResolveKeeps == EchoInv /\ Resolve => EchoInv'
  <1> SUFFICES ASSUME EchoInv, Resolve PROVE EchoInv'
    OBVIOUS
  <1>1. PICK infos \in Infos(call.target, call.family) :
          /\ asked' = asked \cup {infos}
          /\ address' = ResolveOne(call.target, call.family, infos)
          /\ IF address' = NoAddress THEN End(Refusal) ELSE step' = "check" /\ UNCHANGED answer
    BY Zenon DEF Resolve
  <1>2. UNCHANGED <<call, legs, method, transport, outcomes, worker, sent>> /\ step = "resolve"
    BY DEF Resolve
  <1>3. sent = <<>> /\ asked = {} /\ answer.kind = "none" /\ transport # "open" /\ worker = "idle"
    BY <1>2 DEF EchoInv, AddressInv, EchoStepInv, Running, EchoTypeInv
  <1>4. step' \in {"check", "done"}
    BY <1>1 DEF End
  <1>5. EchoTypeInv'
    <2>1. sent' \in Seq(Probes(address'))
      BY <1>2, <1>3
    <2> QED
      BY <1>2, <1>4, <2>1 DEF EchoInv, EchoTypeInv, Probes
  <1>6. EchoTypeInv
    BY DEF EchoInv
  <1>7. TcpIsTheLastResort'
    BY <1>2 DEF EchoInv, TcpIsTheLastResort
  <1>8. LegsInv' /\ RunInv'
    BY <1>4 DEF LegsInv, RunInv, Running
  <1>9. CASE address' = NoAddress
    <2>1. step' = "done" /\ answer' = Refusal
      BY <1>1, <1>9 DEF End
    <2>2. Untimed(Len(sent))
      BY <1>3 DEF Untimed
    <2>3. EchoAnswerInv' /\ answer'.kind # "none"
      BY <1>2, <1>3, <1>6, <2>1, <2>2, EndRefused
    <2>4. EchoStepInv' /\ AddressInv'
      BY <1>2, <1>3, <2>1, <2>3 DEF EchoStepInv, AddressInv, Running
    <2> QED
      BY <1>5, <1>7, <1>8, <2>3, <2>4 DEF EchoInv
  <1>10. CASE address' # NoAddress
    <2>1. step' = "check" /\ answer' = answer
      BY <1>1, <1>10
    <2>2. call.target \in Targets
      BY <1>6 DEF EchoTypeInv, Calls
    <2>3. RightAddress(address', call.target, call.family, infos)
      BY <1>1, <1>10, <2>2, ResolvedIsRight
    <2>4. AddressFits'
      <3>1. asked' = {infos} /\ call' = call
        BY <1>1, <1>2, <1>3
      <3>2. RightAddress(address', call'.target, call'.family, infos)
        BY ONLY <2>3, <3>1
      <3>3. RightAddress(address, call.target, call.family, infos)'
        BY ONLY <3>2 DEF RightAddress
      <3>4. \A i \in asked' : i = infos
        BY <3>1
      <3>5. asked' # {}
        BY <3>1
      <3>6. \A i \in asked' : RightAddress(address', call'.target, call'.family, i)
        BY ONLY <3>2, <3>4
      <3> QED
        BY ONLY <3>5, <3>6 DEF AddressFits, RightAddress
    <2>5. EchoStepInv' /\ AddressInv'
      BY <1>2, <1>3, <2>1, <2>4 DEF EchoStepInv, AddressInv, Running
    <2>6. EchoAnswerInv'
      BY <1>2, <1>3, <2>1 DEF EchoAnswerInv, OnlyTcpSocketsEscape, PingTellsWhatCameBack, ReachableTellsWhetherAnyTryAnswered
    <2> QED
      BY <1>5, <1>7, <1>8, <2>5, <2>6 DEF EchoInv
  <1> QED
    BY <1>9, <1>10

\* The request is refused, or the legs of the call are laid out.
LEMMA CheckKeeps == EchoInv /\ Check => EchoInv'
  <1> SUFFICES ASSUME EchoInv, Check PROVE EchoInv'
    OBVIOUS
  <1>1. UNCHANGED <<call, address, method, transport, outcomes, worker, asked, sent>> /\ step = "check"
    BY DEF Check
  <1>2. /\ sent = <<>> /\ AddressFits /\ answer.kind = "none" /\ transport # "open" /\ worker = "idle"
        /\ Untimed(Len(sent)) /\ EchoTypeInv
    BY <1>1 DEF EchoInv, AddressInv, EchoStepInv, Running, EchoTypeInv, Untimed
  <1>3. step' \in {"done", "choose", "open"}
    BY DEF Check, End
  <1>4. EchoTypeInv'
    BY <1>1, <1>2, <1>3 DEF EchoTypeInv
  <1>5. CASE ~ArgumentsFit
    <2>1. step' = "done" /\ answer' = Refusal
      BY <1>5 DEF Check, End
    <2>2. EchoAnswerInv' /\ answer'.kind # "none"
      BY <1>1, <1>2, <2>1, EndRefused
    <2> QED
      BY <1>1, <1>2, <1>4, <2>1, <2>2, EndKeeps
  <1>6. CASE ArgumentsFit
    <2>1. /\ step' = IF call.kind = "ping" THEN "choose" ELSE "open"
          /\ legs' = IF call.kind = "ping" THEN <<>> ELSE ReachabilityLegs
          /\ answer' = answer
      BY <1>6 DEF Check
    <2>2. EchoStepInv'
      BY <1>1, <1>2, <2>1 DEF EchoStepInv, Running
    <2>3. AddressInv'
      BY <1>1, <1>2, <2>1 DEF AddressInv, AddressFits
    <2>4. LegsInv'
      BY <1>1, <2>1 DEF LegsInv, Running, ReachabilityLegs
    <2>5. RunInv'
      <3>1. Untimed(Len(sent))' /\ sent' = <<>> /\ step' \notin Running
        BY <1>1, <1>2, <2>1 DEF Untimed, Running
      <3> QED
        BY <3>1 DEF RunInv
    <2>6. TcpIsTheLastResort'
      BY <1>1 DEF EchoInv, TcpIsTheLastResort
    <2>7. EchoAnswerInv'
      BY <1>1, <1>2, <2>1 DEF EchoAnswerInv, OnlyTcpSocketsEscape, PingTellsWhatCameBack, ReachableTellsWhetherAnyTryAnswered
    <2> QED
      BY <1>4, <2>2, <2>3, <2>4, <2>5, <2>6, <2>7 DEF EchoInv
  <1> QED
    BY <1>5, <1>6

\* ping tries ICMP, or TCP alone where it may and ICMP is not to be had.
LEMMA ChooseKeeps == EchoInv /\ Choose => EchoInv'
  <1> SUFFICES ASSUME EchoInv, Choose PROVE EchoInv'
    OBVIOUS
  <1>1. /\ UNCHANGED <<call, address, method, transport, outcomes, worker, asked, sent, answer>>
        /\ step = "choose" /\ step' = "open"
    BY DEF Choose
  <1>2. /\ sent = <<>> /\ AddressFits /\ answer.kind = "none" /\ transport # "open" /\ worker = "idle"
        /\ EchoTypeInv
    BY <1>1 DEF EchoInv, AddressInv, EchoStepInv, Running, EchoTypeInv
  <1>3. EchoTypeInv'
    BY <1>1, <1>2 DEF EchoTypeInv
  <1>4. EchoStepInv' /\ AddressInv'
    BY <1>1, <1>2 DEF EchoStepInv, Running, AddressInv, AddressFits
  <1>5. LegsInv'
    <2>1. legs' = <<"icmp">> \/ (legs' = <<"tcp">> /\ call.fallback)
      BY DEF Choose
    <2>2. call.kind = "ping"
      BY <1>1 DEF EchoInv, LegsInv
    <2> QED
      BY <1>1, <2>1, <2>2 DEF LegsInv, Running
  <1>6. RunInv'
    <2>1. Untimed(Len(sent))' /\ sent' = <<>> /\ step' \notin Running
      BY <1>1, <1>2 DEF Untimed, Running
    <2> QED
      BY <2>1 DEF RunInv
  <1>7. TcpIsTheLastResort' /\ EchoAnswerInv'
    BY <1>1, <1>2 DEF EchoInv, TcpIsTheLastResort, EchoAnswerInv, OnlyTcpSocketsEscape, PingTellsWhatCameBack,
                      ReachableTellsWhetherAnyTryAnswered
  <1> QED
    BY <1>3, <1>4, <1>5, <1>6, <1>7 DEF EchoInv

\* A transport is opened over which nothing was sent yet.
LEMMA OpenKeeps == EchoInv /\ Open => EchoInv'
  <1> SUFFICES ASSUME EchoInv, Open PROVE EchoInv'
    OBVIOUS
  <1>1. /\ UNCHANGED <<call, address, legs, worker, asked, sent, answer>>
        /\ step = "open" /\ step' = "probe" /\ method' = Head(legs) /\ transport' = "open" /\ outcomes' = <<>>
    BY DEF Open
  <1>2. /\ AddressFits /\ answer.kind = "none" /\ worker = "idle" /\ EchoTypeInv
        /\ Untimed(Len(sent)) /\ (call.kind = "ping" => sent = <<>>)
    BY <1>1 DEF EchoInv, AddressInv, EchoStepInv, Running, EchoTypeInv, RunInv
  <1>3. Head(legs) \in {"icmp", "tcp"}
    BY <1>1 DEF EchoInv, LegsInv
  <1>4. EchoTypeInv'
    BY <1>1, <1>2, <1>3 DEF EchoTypeInv, Running
  <1>5. EchoStepInv' /\ AddressInv'
    BY <1>1, <1>2 DEF EchoStepInv, Running, AddressInv, AddressFits
  <1>6. LegsInv'
    BY <1>1 DEF EchoInv, LegsInv, Running
  <1>7. RunInv'
    <2>1. Len(sent) \in Nat /\ Len(outcomes') = 0
      BY <1>1, <1>2 DEF EchoTypeInv
    <2>2. Before' = Len(sent)
      BY <1>1, <2>1 DEF Before
    <2>3. EchoesWanted' \in Nat /\ EchoesWanted' > 0
      BY EchoAssumption DEF EchoesWanted
    <2>4. Untimed(Before)'
      BY <1>1, <1>2, <2>2 DEF Untimed
    <2>5. call'.kind = "ping" => Before' = 0
      BY <1>1, <1>2, <2>2
    <2> QED
      BY <1>1, <2>1, <2>2, <2>3, <2>4, <2>5 DEF RunInv, Running
  <1>8. TcpIsTheLastResort' /\ EchoAnswerInv'
    BY <1>1, <1>2 DEF EchoInv, TcpIsTheLastResort, EchoAnswerInv, OnlyTcpSocketsEscape, PingTellsWhatCameBack,
                      ReachableTellsWhetherAnyTryAnswered
  <1> QED
    BY <1>4, <1>5, <1>6, <1>7, <1>8 DEF EchoInv

\* A transport refused ends the call or leads to the next leg.
LEMMA OpenRefusedKeeps == EchoInv /\ OpenRefused => EchoInv'
  <1> SUFFICES ASSUME EchoInv, OpenRefused PROVE EchoInv'
    OBVIOUS
  <1>1. /\ UNCHANGED <<call, address, method, transport, outcomes, worker, asked, sent>>
        /\ step = "open" /\ LegFails(Refusal)
    BY DEF OpenRefused
  <1>2. /\ transport # "open" /\ worker = "idle" /\ EchoTypeInv
        /\ Untimed(Len(sent)) /\ (call.kind = "ping" => sent = <<>>)
    BY <1>1 DEF EchoInv, EchoStepInv, Running, EchoTypeInv, RunInv
  <1>3. \/ /\ step' = "open" /\ answer' = answer /\ call.kind = "reachable" /\ call.bad # "port"
           /\ legs' = <<"tcp">>
        \/ step' = "done" /\ answer' = Refusal
    BY <1>1, LegFailsIs
  <1>4. EchoTypeInv'
    BY <1>1, <1>2, <1>3 DEF EchoTypeInv
  <1>5. CASE step' = "open" /\ answer' = answer /\ call.kind = "reachable" /\ call.bad # "port" /\ legs' = <<"tcp">>
    BY <1>1, <1>2, <1>4, <1>5, NextLegKeeps
  <1>6. CASE step' = "done" /\ answer' = Refusal
    <2>1. EchoAnswerInv' /\ answer'.kind # "none"
      BY <1>1, <1>2, <1>6, EndRefused
    <2> QED
      BY <1>1, <1>2, <1>4, <1>6, <2>1, EndKeeps
  <1> QED
    BY <1>3, <1>5, <1>6

\* Steps that change only where the run and the pool's thread are.
LEMMA RunStepKeeps ==
  ASSUME EchoInv, \/ Probe \/ Pause \/ WorkerStarts \/ WorkerReturnsAlone \/ UNCHANGED echoVars
  PROVE  EchoInv'
  <1>1. /\ UNCHANGED <<call, address, legs, method, transport, outcomes, asked, sent, answer>>
        /\ \/ step = "probe" /\ step' = "wait" /\ (worker' = worker \/ (worker' = "queued" /\ method = "icmp"))
           \/ step = "pause" /\ step' = "probe" /\ worker' = worker
           \/ step' = step /\ worker = "queued" /\ worker' = "calling"
           \/ step' = step /\ worker' = "idle"
           \/ step' = step /\ worker' = worker
    BY DEF Probe, Pause, WorkerStarts, WorkerReturnsAlone, OnWindows, echoVars
  <1>2. EchoTypeInv'
    BY <1>1 DEF EchoInv, EchoTypeInv, Running
  <1>3. EchoStepInv'
    BY <1>1 DEF EchoInv, EchoTypeInv, EchoStepInv, Running
  <1>4. AddressInv'
    <2>1. AddressFits' = AddressFits
      BY <1>1 DEF AddressFits
    <2> QED
      BY <1>1, <2>1 DEF EchoInv, AddressInv
  <1>5. LegsInv'
    BY <1>1 DEF EchoInv, LegsInv, Running
  <1>6. RunInv'
    <2>1. Before' = Before /\ EchoesWanted' = EchoesWanted
      BY <1>1 DEF Before, EchoesWanted
    <2>2. RunInv
      BY DEF EchoInv
    <2> QED
      BY <1>1, <2>1, <2>2 DEF RunInv, Running, Untimed
  <1>7. TcpIsTheLastResort' /\ EchoAnswerInv'
    BY <1>1 DEF EchoInv, TcpIsTheLastResort, EchoAnswerInv, OnlyTcpSocketsEscape, PingTellsWhatCameBack,
                ReachableTellsWhetherAnyTryAnswered, TimedOver
  <1> QED
    BY <1>2, <1>3, <1>4, <1>5, <1>6, <1>7 DEF EchoInv

\* One more probe, to the address of the lookup, and its outcome.
LEMMA OutcomeKeeps == EchoInv /\ Outcome => EchoInv'
  <1> SUFFICES ASSUME EchoInv, Outcome PROVE EchoInv'
    OBVIOUS
  <1>1. PICK outcome \in Outcomes :
          /\ outcomes' = Append(outcomes, outcome)
          /\ sent' = Append(sent, [method |-> method, address |-> address, outcome |-> outcome])
    BY DEF Outcome
  <1> DEFINE sentNow == [method |-> method, address |-> address, outcome |-> outcome]
             n == Len(sent)
             m == Len(outcomes)
  <1>2. /\ UNCHANGED <<call, address, legs, method, transport, asked, answer>>
        /\ step = "wait" /\ worker' = "idle"
        /\ step' = IF Len(outcomes') < EchoesWanted THEN "pause" ELSE "close"
    BY DEF Outcome
  <1>3. EchoTypeInv /\ method \in {"icmp", "tcp"} /\ outcome \in {"reply", "expired", "nothing"}
    <2>1. method \in {"icmp", "tcp"}
      BY <1>2 DEF EchoInv, LegsInv, Running
    <2> QED
      BY <2>1 DEF EchoInv, Outcomes, ConnectOutcomes, WindowsOutcomes, PosixOutcomes
  <1>4. sentNow \in Probes(address) /\ sentNow.method = method /\ sentNow.outcome = outcome
    BY <1>3 DEF Probes
  <1> HIDE DEF sentNow
  <1>5. /\ n \in Nat /\ m \in Nat /\ sent \in Seq(Probes(address))
        /\ outcomes \in Seq({"reply", "expired", "nothing"})
    BY <1>3 DEF EchoTypeInv
  <1>6. /\ sent' \in Seq(Probes(address)) /\ Len(sent') = n + 1 /\ sent'[n + 1] = sentNow
        /\ \A i \in 1..n : sent'[i] = sent[i]
        /\ DOMAIN sent' = 1..(n + 1)
    <2>1. sent' = Append(sent, sentNow)
      BY <1>1 DEF sentNow
    <2> QED
      BY <1>4, <1>5, <2>1
  <1>7. /\ outcomes' \in Seq({"reply", "expired", "nothing"}) /\ Len(outcomes') = m + 1
        /\ outcomes'[m + 1] = outcome /\ \A k \in 1..m : outcomes'[k] = outcomes[k]
    BY <1>1, <1>3, <1>5
  <1>8. /\ RunInv /\ LegsInv /\ AddressFits
    BY <1>2 DEF EchoInv, AddressInv
  <1> HIDE DEF n, m
  <1>9. EchoTypeInv'
    BY <1>2, <1>3, <1>6, <1>7 DEF EchoTypeInv, Running
  <1>10. EchoStepInv'
    BY <1>2 DEF EchoInv, EchoStepInv, Running
  <1>11. AddressInv'
    <2>1. AddressFits'
      BY <1>2, <1>8 DEF AddressFits
    <2> QED
      BY <1>2, <2>1 DEF AddressInv
  <1>12. LegsInv'
    BY <1>2, <1>8 DEF LegsInv, Running
  <1>13. RunInv'
    <2>1. /\ Before \in Nat /\ (call.kind = "ping" => Before = 0) /\ Untimed(Before)
          /\ \A k \in 1..m : sent[Before + k].outcome = outcomes[k] /\ sent[Before + k].method = method
          /\ m < EchoesWanted /\ Before = n - m
      BY <1>2, <1>8 DEF RunInv, Running, Before, n, m
    <2>2. Before' = Before
      BY <1>5, <1>6, <1>7, <2>1 DEF Before, n, m
    <2>3. EchoesWanted' = EchoesWanted /\ EchoesWanted \in Nat
      BY <1>2, EchoAssumption DEF EchoesWanted
    <2>4. Untimed(Before)'
      BY <1>5, <1>6, <2>1, <2>2 DEF Untimed
    <2>5. ASSUME NEW k \in 1..(m + 1)
          PROVE  sent'[Before + k].outcome = outcomes'[k] /\ sent'[Before + k].method = method
      <3>1. CASE k = m + 1
        <4>1. Before + k = n + 1
          BY <1>5, <2>1, <3>1
        <4> QED
          BY <1>4, <1>6, <1>7, <3>1, <4>1
      <3>2. CASE k \in 1..m
        <4>1. Before + k \in 1..n
          BY <1>5, <2>1, <3>2
        <4> QED
          BY <1>6, <1>7, <2>1, <3>2, <4>1
      <3> QED
        BY <1>5, <3>1, <3>2
    <2>6. IF step' = "close" THEN m + 1 = EchoesWanted ELSE m + 1 < EchoesWanted
      BY <1>2, <1>5, <1>7, <2>1, <2>3
    <2>7. step' # "open"
      BY <1>2
    <2> QED
      BY <1>2, <1>7, <2>1, <2>2, <2>3, <2>4, <2>5, <2>6, <2>7 DEF RunInv
  <1>14. TcpIsTheLastResort'
    <2> SUFFICES ASSUME NEW i \in 1..(n + 1), sent'[i].method = "tcp"
                 PROVE  IF call.kind = "ping" THEN call.fallback
                        ELSE call.bad # "port" /\ \A j \in 1..(i - 1) : ~Timed(sent'[j].outcome)
      BY <1>2, <1>6 DEF TcpIsTheLastResort
    <2>1. CASE i \in 1..n
      <3>1. IF call.kind = "ping" THEN call.fallback
            ELSE call.bad # "port" /\ \A j \in 1..(i - 1) : ~Timed(sent[j].outcome)
        <4>1. i \in DOMAIN sent /\ sent[i].method = "tcp"
          BY <1>5, <1>6, <2>1 DEF n
        <4> QED
          BY <4>1 DEF EchoInv, TcpIsTheLastResort
      <3>2. \A j \in 1..(i - 1) : sent'[j] = sent[j]
        BY <1>5, <1>6, <2>1
      <3> QED
        BY <3>1, <3>2
    <2>2. CASE i = n + 1
      <3>1. method = "tcp" /\ legs \in {<<"icmp">>, <<"tcp">>, <<"icmp", "tcp">>} /\ Head(legs) = "tcp"
        BY <1>2, <1>4, <1>6, <1>8, <2>2 DEF LegsInv, Running
      <3>2. legs = <<"tcp">>
        BY <3>1
      <3>3. CASE call.kind = "ping"
        BY <1>2, <1>8, <3>2, <3>3 DEF LegsInv, Running
      <3>4. CASE call.kind # "ping"
        <4>1. call.bad # "port"
          BY <1>2, <1>8, <3>2, <3>4 DEF LegsInv, Running
        <4>2. m < 1 /\ Before = n - m /\ Untimed(Before)
          BY <1>2, <1>8, <3>4 DEF RunInv, Running, Before, EchoesWanted, n, m
        <4>3. Untimed(n)
          <5>1. Before = n
            BY <1>5, <4>2
          <5> QED
            BY <4>2, <5>1
        <4>4. 1..(i - 1) = 1..n
          BY <1>5, <2>2
        <4>5. \A j \in 1..n : ~Timed(sent'[j].outcome)
          BY <1>6, <4>3 DEF Untimed
        <4> QED
          BY <3>4, <4>1, <4>4, <4>5
      <3> QED
        BY <3>3, <3>4
    <2> QED
      BY <1>5, <2>1, <2>2
  <1>15. EchoAnswerInv'
    <2>1. answer.kind = "none"
      BY <1>2 DEF EchoInv, EchoStepInv
    <2> QED
      BY <1>2, <2>1 DEF EchoAnswerInv, OnlyTcpSocketsEscape, PingTellsWhatCameBack, ReachableTellsWhetherAnyTryAnswered
  <1> QED
    BY <1>9, <1>10, <1>11, <1>12, <1>13, <1>14, <1>15 DEF EchoInv

\* A probe that raises ends its leg with the transport closed.
LEMMA ProbeRaisesKeeps == EchoInv /\ ProbeRaises => EchoInv'
  <1> SUFFICES ASSUME EchoInv, ProbeRaises PROVE EchoInv'
    OBVIOUS
  <1>1. /\ UNCHANGED <<call, address, method, outcomes, worker, asked, sent>>
        /\ step = "wait" /\ method = "tcp" /\ transport' = "closed"
    BY DEF ProbeRaises
  <1>2. worker = "idle" /\ EchoTypeInv /\ call.kind \in {"ping", "reachable"}
    BY <1>1 DEF EchoInv, EchoStepInv, EchoTypeInv, Calls
  <1>3. CASE call.kind = "ping"
    <2>1. step' = "done" /\ answer' = Ended("escaped") /\ legs' = legs
      BY <1>3 DEF ProbeRaises, End
    <2>2. EchoTypeInv'
      BY <1>1, <1>2, <2>1 DEF EchoTypeInv
    <2>3. EchoAnswerInv'
      BY <1>1, <1>2, <1>3, <2>1, EndWithout
    <2>4. answer'.kind # "none"
      BY <2>1, EndedIs
    <2> QED
      BY <1>1, <1>2, <2>1, <2>2, <2>3, <2>4, EndKeeps
  <1>4. CASE call.kind = "reachable"
    <2>1. LegFails(Ended("reachability"))
      BY <1>4 DEF ProbeRaises
    <2>2. \/ /\ step' = "open" /\ answer' = answer /\ call.kind = "reachable" /\ call.bad # "port"
             /\ legs' = <<"tcp">>
          \/ step' = "done" /\ answer' = Ended("reachability")
      BY <1>1, <2>1, LegFailsIs DEF Running
    <2>3. EchoTypeInv'
      BY <1>1, <1>2, <2>2 DEF EchoTypeInv
    <2>4. Untimed(Len(sent))
      <3>1. Len(outcomes) < 1 /\ Untimed(Before) /\ Len(outcomes) \in Nat /\ Len(sent) \in Nat
        BY <1>1, <1>2, <1>4 DEF EchoInv, RunInv, Running, EchoesWanted, EchoTypeInv
      <3>2. Before = Len(sent)
        BY <3>1 DEF Before
      <3> QED
        BY <3>1, <3>2
    <2>5. CASE step' = "open" /\ answer' = answer /\ call.bad # "port" /\ legs' = <<"tcp">>
      BY <1>1, <1>2, <1>4, <2>3, <2>4, <2>5, NextLegKeeps DEF Running
    <2>6. CASE step' = "done" /\ answer' = Ended("reachability")
      <3>1. EchoAnswerInv' /\ answer'.kind # "none"
        BY <1>1, <1>2, <1>4, <2>4, <2>6, EndRefused
      <3> QED
        BY <1>1, <1>2, <2>3, <2>6, <3>1, EndKeeps
    <2> QED
      BY <2>2, <2>5, <2>6
  <1> QED
    BY <1>2, <1>3, <1>4

\* A cancelled call leaves no transport open and answers nothing.
LEMMA CancelKeeps == EchoInv /\ Cancel => EchoInv'
  <1> SUFFICES ASSUME EchoInv, Cancel PROVE EchoInv'
    OBVIOUS
  <1>1. /\ UNCHANGED <<call, address, legs, method, outcomes, asked, sent>>
        /\ step' = "done" /\ answer' = Ended("cancelled") /\ call.mode = "async"
        /\ transport' = IF transport = "open" THEN "closed" ELSE transport
        /\ worker' = IF worker = "queued" THEN "idle" ELSE worker
    BY DEF Cancel, End
  <1>2. EchoTypeInv' /\ transport' # "open" /\ worker' # "queued" /\ EchoTypeInv
    BY <1>1 DEF EchoInv, EchoTypeInv
  <1>3. answer'.kind # "none" /\ EchoAnswerInv'
    BY <1>1, <1>2, EndedIs, EndWithout
  <1> QED
    BY <1>1, <1>2, <1>3, EndKeeps

\* How many of the first probes were timed, and whether any was.
LEMMA TimedCount ==
  ASSUME NEW n \in Nat, NEW T \in SUBSET (1..n)
  PROVE  Cardinality(T) \in Nat /\ (Cardinality(T) > 0 <=> T # {})
  <1>1. IsFiniteSet(1..n)
    BY FS_Interval
  <1>2. IsFiniteSet(T)
    BY <1>1, FS_Subset
  <1>3. Cardinality(T) \in Nat /\ (Cardinality(T) = 0 <=> T = {})
    BY <1>2, FS_CardinalityType, FS_EmptySet
  <1> DEFINE size == Cardinality(T)
  <1> HIDE DEF size
  <1>4. size \in Nat /\ (size = 0 <=> T = {})
    BY <1>3 DEF size
  <1>5. size > 0 <=> size # 0
    BY ONLY <1>4
  <1> QED
    BY ONLY <1>4, <1>5, Zenon DEF size

\* The answer of a ping counts the outcomes over its transport.
LEMMA PingResultIs ==
  /\ PingResult.kind = "result" /\ PingResult.yes = (Received > 0) /\ PingResult.sent = Len(outcomes)
  /\ PingResult.received = Received /\ PingResult.method = method
  BY DEF PingResult

\* The run ends: its outcomes are the answer, or the next leg is tried.
LEMMA CloseKeeps == EchoInv /\ Close => EchoInv'
  <1> SUFFICES ASSUME EchoInv, Close PROVE EchoInv'
    OBVIOUS
  <1>1. /\ UNCHANGED <<call, address, method, outcomes, worker, asked, sent>>
        /\ step = "close" /\ transport' = "closed" /\ TellOutcome
    BY DEF Close
  <1>2. worker = "idle" /\ EchoTypeInv /\ call.kind \in {"ping", "reachable"} /\ method \in {"icmp", "tcp"}
    <2>1. method \in {"icmp", "tcp"}
      BY <1>1 DEF EchoInv, LegsInv, Running
    <2> QED
      BY <1>1, <2>1 DEF EchoInv, EchoStepInv, EchoTypeInv, Calls
  <1> DEFINE n == Len(sent)
             m == Len(outcomes)
             timed == {i \in DOMAIN outcomes : Timed(outcomes[i])}
  <1>3. /\ n \in Nat /\ m \in Nat /\ DOMAIN sent = 1..n /\ DOMAIN outcomes = 1..m
    BY <1>2 DEF EchoTypeInv
  <1>4. /\ Before \in Nat /\ (call.kind = "ping" => Before = 0) /\ Untimed(Before)
        /\ \A k \in 1..m : sent[Before + k].outcome = outcomes[k] /\ sent[Before + k].method = method
        /\ m = EchoesWanted /\ Before = n - m
    BY <1>1 DEF EchoInv, RunInv, Running, Before
  <1>5. Received \in Nat /\ (Received > 0 <=> timed # {})
    <2>1. timed \in SUBSET (1..m)
      BY <1>3
    <2> HIDE DEF timed, m
    <2>2. Cardinality(timed) \in Nat /\ (Cardinality(timed) > 0 <=> timed # {})
      BY ONLY <1>3, <2>1, TimedCount
    <2> QED
      BY <2>2 DEF Received, timed
  <1>6. timed # {} => TimedOver(method)
    <2> SUFFICES ASSUME NEW k \in 1..m, Timed(outcomes[k]) PROVE TimedOver(method)
      BY <1>3
    <2>1. Before + k \in 1..n
      BY <1>3, <1>4
    <2> QED
      BY <1>3, <1>4, <2>1 DEF TimedOver
  <1>7. timed = {} => Untimed(n)
    <2> SUFFICES ASSUME timed = {}, NEW i \in 1..n PROVE ~Timed(sent[i].outcome)
      BY DEF Untimed
    <2>1. CASE i \in 1..Before
      BY <1>4, <2>1 DEF Untimed
    <2>2. CASE i \notin 1..Before
      <3>1. i - Before \in 1..m /\ Before + (i - Before) = i
        BY <1>3, <1>4, <2>2
      <3>2. ~Timed(outcomes[i - Before])
        BY <1>3, <3>1
      <3> QED
        BY <1>4, <3>1, <3>2
    <2> QED
      BY <2>1, <2>2
  <1>8. CASE call.kind = "ping"
    <2>1. step' = "done" /\ answer' = PingResult /\ legs' = legs
      BY <1>1, <1>8 DEF TellOutcome, End
    <2>2. EchoTypeInv'
      BY <1>1, <1>2, <2>1 DEF EchoTypeInv
    <2>3. n = m /\ m = Times /\ Before = 0
      BY <1>3, <1>4, <1>8 DEF EchoesWanted
    <2>4. \A k \in 1..m : sent[k].outcome = outcomes[k] /\ sent[k].method = method
      BY <1>3, <1>4, <2>3
    <2>5. timed = {i \in DOMAIN sent : Timed(sent[i].outcome)}
      BY <1>3, <2>3, <2>4
    <2>6. (timed # {}) = TimedOver(method)
      <3>1. TimedOver(method) => timed # {}
        BY <2>5 DEF TimedOver
      <3> QED
        BY <1>6, <3>1 DEF TimedOver
    <2>7. /\ answer'.kind = "result" /\ answer'.yes = (Received > 0) /\ answer'.sent = m
          /\ answer'.received = Cardinality(timed) /\ answer'.method = method
      BY <2>1, PingResultIs DEF Received
    <2> HIDE DEF timed
    <2>8. (Received > 0) = TimedOver(method)
      <3>1. CASE Received > 0
        <4>1. TimedOver(method) = TRUE
          BY <1>5, <1>6, <3>1 DEF TimedOver
        <4>2. (Received > 0) = TRUE
          BY <3>1
        <4> QED
          BY ONLY <4>1, <4>2, Zenon
      <3>2. CASE ~(Received > 0)
        <4>1. TimedOver(method) = FALSE
          BY <1>5, <2>6, <3>2 DEF TimedOver
        <4>2. (Received > 0) = FALSE
          BY <3>2
        <4> QED
          BY ONLY <4>1, <4>2, Zenon
      <3> QED
        BY ONLY <3>1, <3>2, Zenon
    <2>9. PingTellsWhatCameBack'
      <3>1. answer'.sent = Times /\ Len(sent') = Times
        BY <1>1, <2>3, <2>7
      <3>2. answer'.received = Cardinality({i \in DOMAIN sent' : Timed(sent'[i].outcome)})
        BY <1>1, <2>5, <2>7
      <3>3. answer'.yes = TimedOver(answer.method)'
        <4>1. answer'.yes = TimedOver(method)
          BY <2>7, <2>8
        <4> QED
          BY <1>1, <2>7, <4>1 DEF TimedOver
      <3>4. \A i \in DOMAIN sent' : sent'[i].method = answer'.method
        BY <1>1, <1>3, <2>3, <2>4, <2>7
      <3> QED
        BY <2>7, <3>1, <3>2, <3>3, <3>4 DEF PingTellsWhatCameBack
    <2>10. EchoAnswerInv' /\ answer'.kind # "none"
      BY <1>1, <1>8, <2>7, <2>9 DEF EchoAnswerInv, OnlyTcpSocketsEscape, ReachableTellsWhetherAnyTryAnswered
    <2> QED
      BY <1>1, <1>2, <2>1, <2>2, <2>10, EndKeeps
  <1>9. CASE call.kind = "reachable" /\ Received > 0
    <2>1. step' = "done" /\ answer' = [Ended("reachability") EXCEPT !.yes = TRUE] /\ legs' = legs
      BY <1>1, <1>9 DEF TellOutcome, End
    <2>2. EchoTypeInv'
      BY <1>1, <1>2, <2>1 DEF EchoTypeInv
    <2>3. answer'.kind = "reachability" /\ answer'.yes = TRUE
      BY <2>1, EndedIs
    <2>4. TimedOver("icmp") \/ TimedOver("tcp")
      BY <1>2, <1>5, <1>6, <1>9
    <2>5. EchoAnswerInv'
      BY <1>1, <2>3, <2>4 DEF EchoAnswerInv, OnlyTcpSocketsEscape, ReachableTellsWhetherAnyTryAnswered, PingTellsWhatCameBack, TimedOver
    <2> QED
      BY <1>1, <1>2, <2>1, <2>2, <2>3, <2>5, EndKeeps
  <1>10. CASE call.kind = "reachable" /\ ~(Received > 0)
    <2>1. LegFails(Ended("reachability")) /\ Untimed(n)
      BY <1>1, <1>5, <1>7, <1>10 DEF TellOutcome
    <2>2. \/ /\ step' = "open" /\ answer' = answer /\ call.kind = "reachable" /\ call.bad # "port"
             /\ legs' = <<"tcp">>
          \/ step' = "done" /\ answer' = Ended("reachability")
      BY <1>1, <2>1, LegFailsIs DEF Running
    <2>3. EchoTypeInv'
      BY <1>1, <1>2, <2>2 DEF EchoTypeInv
    <2>4. CASE step' = "open" /\ answer' = answer /\ call.bad # "port" /\ legs' = <<"tcp">>
      BY <1>1, <1>2, <1>10, <2>1, <2>3, <2>4, NextLegKeeps DEF Running
    <2>5. CASE step' = "done" /\ answer' = Ended("reachability")
      <3>1. EchoAnswerInv' /\ answer'.kind # "none"
        BY <1>1, <1>2, <1>10, <2>1, <2>5, EndRefused
      <3> QED
        BY <1>1, <1>2, <2>3, <2>5, <3>1, EndKeeps
    <2> QED
      BY <2>2, <2>4, <2>5
  <1> QED
    BY <1>2, <1>8, <1>9, <1>10

\* Every step of a call keeps the invariant.
LEMMA EchoKept == EchoInv /\ [EchoNext]_echoVars => EchoInv'
  BY ResolveKeeps, CheckKeeps, ChooseKeeps, OpenKeeps, OpenRefusedKeeps, RunStepKeeps, OutcomeKeeps,
     ProbeRaisesKeeps, CancelKeeps, CloseKeeps DEF EchoNext

\* Every probe went to the address that fits.
LEMMA ProbesFit == EchoInv => ProbesGoWhereAsked
  <1> SUFFICES ASSUME EchoInv PROVE ProbesGoWhereAsked
    OBVIOUS
  <1> SUFFICES ASSUME NEW i \in DOMAIN sent
               PROVE  \A infos \in asked : RightAddress(sent[i].address, call.target, call.family, infos)
    <2>1. ASSUME NEW i \in DOMAIN sent
          PROVE  asked # {}
      <3>1. sent # <<>>
        BY <2>1
      <3>2. AddressFits
        BY <3>1 DEF EchoInv, AddressInv
      <3> QED
        BY <3>2 DEF AddressFits
    <2> QED
      BY <2>1, Zenon DEF ProbesGoWhereAsked, RightAddress
  <1>1. sent[i].address = address /\ sent # <<>>
    <2>1. sent \in Seq(Probes(address)) /\ \A p \in Probes(address) : p.address = address
      BY DEF EchoInv, EchoTypeInv, Probes
    <2> HIDE DEF Probes
    <2> QED
      BY <2>1
  <1> QED
    BY <1>1 DEF EchoInv, AddressInv, AddressFits

\* The invariant holds what an answer promises.
LEMMA AnswersFit == EchoInv => EchoAnswersAreTrue
  BY DEF EchoInv, EchoAnswerInv, EchoStepInv, Running, EchoAnswersAreTrue

\* The invariant of ping and is_reachable holds of every run.
THEOREM EchoInvariance == EchoSpec => []EchoInv
  BY EchoInitially, EchoKept, PTL DEF EchoSpec

\* EchoCall.ProbesGoWhereAsked: whatever the resolver returns, every probe of a
\* call goes to the first address of the family asked for, with its zone.
THEOREM ProbesFollowTheTarget == EchoSpec => []ProbesGoWhereAsked
  BY EchoInvariance, ProbesFit, PTL

\* EchoCall.EchoAnswersAreTrue: ping and is_reachable answer what their probes
\* met, and leave no transport open.
THEOREM EchoAnswersAreProved == EchoSpec => []EchoAnswersAreTrue
  BY EchoInvariance, AnswersFit, PTL

-----------------------------------------------------------------------------
(***************************************************************************)
(* Proofs about HardwareLookup: for any stations and routers on any links, *)
(* and whatever the kernel's cache lists, an answer is the address of the  *)
(* one its scope names, and comes from where its method says.              *)
(***************************************************************************)

\* Whom a request names, and why the cache is read, are settled before the
\* answer; nothing is heard or found until it is given.
LookInv ==
  /\ lookup \in Lookups
  /\ lookStep \in {"route", "ask", "listen", "cache", "done"}
  /\ lookStep # "done" => found = NotFound /\ heard = NoMac
  /\ lookStep \in {"ask", "listen"} => lookup.active
  /\ lookStep = "listen" => asking.station = Asked.ip /\ asking.link \in AskingLinks
  /\ lookStep = "cache" /\ lookup.active => lookup.fallback /\ couldNotAsk # "no"
  /\ LookupTellsWhoseAddress

\* An answer is given as it was found, less an address a strict caller refuses.
LEMMA AnswerGiven ==
  ASSUME NEW where, NEW mac, NEW interface, NEW how,
         Conclude(MacLookup(where, mac, interface, how))
  PROVE  /\ lookStep' = "done" /\ found'.kind = "answer"
         /\ found'.scope = where /\ found'.method = how
         /\ found'.mac = IF lookup.strict /\ where # "direct" THEN NoMac ELSE mac
  BY DEF Conclude, MacLookup

\* A call that raises or answers nothing finds no address.
LEMMA ErrorGiven ==
  ASSUME NEW error, Conclude(Raised(error))
  PROVE  lookStep' = "done" /\ found'.kind = error /\ found'.mac = NoMac
  BY DEF Conclude, Raised, NotFound

\* An error says nothing about addresses.
LEMMA ErrorIsTrue ==
  ASSUME LookInv, NEW error, error # "answer", Conclude(Raised(error)), UNCHANGED lookup
  PROVE  LookInv'
  <1>1. lookStep' = "done" /\ found'.kind # "answer" /\ found'.mac = NoMac
    BY ErrorGiven
  <1>2. LookupTellsWhoseAddress'
    BY <1>1 DEF LookupTellsWhoseAddress, ScopeIsRight, MethodIsRight, ZoneIsKept, NoMac
  <1> QED
    BY <1>1, <1>2 DEF LookInv

\* Nothing is claimed until something is found.
LEMMA NothingFoundIsTrue ==
  ASSUME found = NotFound
  PROVE  LookupTellsWhoseAddress
  BY DEF NotFound, LookupTellsWhoseAddress, ScopeIsRight, MethodIsRight, ZoneIsKept

\* A lookup begins with nothing known.
LEMMA LookInitially == LookupInit => LookInv
  BY NothingFoundIsTrue DEF LookupInit, LookupFresh, LookInv

\* The route settles whom to ask for, or that the cache is to be read.
LEMMA QueryRouteStep == LookInv /\ QueryRoute => LookInv'
  <1> SUFFICES ASSUME LookInv, QueryRoute PROVE LookInv'
    OBVIOUS
  <1>1. CASE Conclude(Raised("refused")) \/ Conclude(Raised("unresolved"))
    BY <1>1, ErrorIsTrue DEF QueryRoute
  <1>2. CASE ~(Conclude(Raised("refused")) \/ Conclude(Raised("unresolved")))
    <2>1. /\ lookStep' = IF lookup.active THEN "ask" ELSE "cache"
          /\ UNCHANGED <<lookup, found, heard>> /\ found = NotFound /\ heard = NoMac
      BY <1>2 DEF QueryRoute, LookInv
    <2>2. LookupTellsWhoseAddress'
      BY <2>1, NothingFoundIsTrue DEF NotFound, LookupTellsWhoseAddress, ScopeIsRight, MethodIsRight, ZoneIsKept
    <2> QED
      BY <2>1, <2>2 DEF LookInv
  <1> QED
    BY <1>1, <1>2

\* A request names the one the route settled.
LEMMA SendRequestStep == LookInv /\ SendRequest => LookInv'
  <1> SUFFICES ASSUME LookInv, SendRequest PROVE LookInv'
    OBVIOUS
  <1>1. /\ lookStep' = "listen" /\ UNCHANGED <<lookup, route, heard, found>>
        /\ found = NotFound /\ heard = NoMac /\ lookup.active
        /\ asking'.station = Asked.ip /\ asking'.link \in AskingLinks
    BY DEF SendRequest, LookInv
  <1>2. LookupTellsWhoseAddress'
    BY <1>1 DEF NotFound, LookupTellsWhoseAddress, ScopeIsRight, MethodIsRight, ZoneIsKept
  <1>3. Asked' = Asked /\ AskingLinks' = AskingLinks
    BY <1>1 DEF Asked, AskingLinks, ZoneGiven, LinksTowards
  <1> QED
    BY <1>1, <1>2, <1>3 DEF LookInv

\* Without a request the cache is read, or the lookup ends.
LEMMA CannotAskStep == LookInv /\ CannotAsk => LookInv'
  <1> SUFFICES ASSUME LookInv, CannotAsk PROVE LookInv'
    OBVIOUS
  <1>1. PICK why \in {"permission", "unsupported"} :
          /\ couldNotAsk' = why
          /\ IF lookup.fallback THEN lookStep' = "cache" /\ UNCHANGED found
                                ELSE Conclude(Raised(why))
    BY DEF CannotAsk
  <1>2. CASE lookup.fallback
    <2>1. /\ lookStep' = "cache" /\ UNCHANGED <<lookup, found, heard>>
          /\ found = NotFound /\ heard = NoMac /\ couldNotAsk' # "no"
      BY <1>1, <1>2 DEF CannotAsk, LookInv
    <2>2. LookupTellsWhoseAddress'
      BY <2>1 DEF NotFound, LookupTellsWhoseAddress, ScopeIsRight, MethodIsRight, ZoneIsKept
    <2> QED
      BY <1>2, <2>1, <2>2 DEF LookInv
  <1>3. CASE ~lookup.fallback
    BY <1>1, <1>3, ErrorIsTrue DEF CannotAsk
  <1> QED
    BY <1>2, <1>3

\* A request was answered, or was not: what is said is about whom it named.
LEMMA AskedStep ==
  ASSUME LookInv, lookStep = "listen", NEW mac, Conclude(AskedAnswer(mac)),
         mac = NoMac \/ (heard' = mac /\ mac.station = asking.station),
         UNCHANGED <<lookup, route, asking>>
  PROVE  LookInv'
  <1>1. /\ lookStep' = "done" /\ found'.kind = "answer" /\ found'.method = "active"
        /\ found'.scope = IF Routed(route) THEN "nextHop" ELSE IF mac = NoMac THEN "unknown" ELSE "direct"
        /\ found'.mac = IF lookup.strict /\ found'.scope # "direct" THEN NoMac ELSE mac
    <2>1. CASE Routed(route)
      BY <2>1, AnswerGiven DEF AskedAnswer
    <2>2. CASE ~Routed(route)
      BY <2>2, AnswerGiven DEF AskedAnswer
    <2> QED
      BY <2>1, <2>2
  <1>2. asking.station = Asked.ip /\ asking.link \in AskingLinks /\ lookup.active
    BY DEF LookInv
  <1>3. ScopeIsRight'
    BY <1>1, <1>2 DEF ScopeIsRight, Asked
  <1>4. MethodIsRight'
    BY <1>1, <1>2 DEF MethodIsRight
  <1>5. ZoneIsKept'
    BY <1>1, <1>2 DEF ZoneIsKept, AskingLinks, ZoneGiven
  <1> QED
    BY <1>1, <1>3, <1>4, <1>5 DEF LookInv, LookupTellsWhoseAddress

\* An answer is heard: it is of whoever holds the address on that link.
LEMMA HearAnswerStep == LookInv /\ HearAnswer => LookInv'
  <1> SUFFICES ASSUME LookInv, HearAnswer PROVE LookInv'
    OBVIOUS
  <1>1. PICK link \in HeardOn : heard' = Mac(link, asking.station) /\ Conclude(AskedAnswer(heard'))
    BY DEF HearAnswer
  <1>2. heard'.station = asking.station
    BY <1>1 DEF Mac
  <1> QED
    BY <1>1, <1>2, AskedStep DEF HearAnswer

\* Nobody answers: the cache is read, or nothing is found.
LEMMA NobodyAnswersStep == LookInv /\ NobodyAnswers => LookInv'
  BY AskedStep DEF NobodyAnswers

\* What is taken from the cache is an entry about the station, on the link if
\* there is one on it.
LEMMA EntryIsAbout ==
  ASSUME NEW station, NEW interface, NEW listed, NEW entry \in EntriesFor(station, interface, listed)
  PROVE  /\ entry = NoMac \/ (entry \in listed /\ entry.station = station)
         /\ Mac(interface, station) \in listed => entry.link = interface
  <1> DEFINE matches == {e \in listed : e.station = station}
             onLink  == {e \in matches : e.link = interface}
  <1>1. Mac(interface, station) \in listed => Mac(interface, station) \in onLink
    BY DEF Mac
  <1>2. CASE onLink # {}
    BY <1>2 DEF EntriesFor
  <1>3. CASE onLink = {}
    BY <1>1, <1>3 DEF EntriesFor
  <1> QED
    BY <1>2, <1>3

\* The cache is read for the one asked for, and says where it is from.
LEMMA ReadCacheStep == LookInv /\ ReadCache => LookInv'
  <1> SUFFICES ASSUME LookInv, ReadCache PROVE LookInv'
    OBVIOUS
  <1>1. /\ lookStep = "cache" /\ UNCHANGED <<lookup, route, asking, couldNotAsk, heard>>
        /\ lookup.active => lookup.fallback /\ couldNotAsk # "no"
    BY DEF ReadCache, LookInv
  <1>2. CASE Routed(route)
    <2>1. PICK hop \in EntriesFor(route.gateway.ip, route.interface, cacheRead') :
            Conclude(MacLookup("nextHop", hop, IF hop = NoMac THEN route.interface ELSE hop.link, "cache"))
      BY <1>2 DEF ReadCache
    <2>2. /\ lookStep' = "done" /\ found'.kind = "answer"
          /\ found'.scope = "nextHop" /\ found'.method = "cache"
          /\ found'.mac = IF lookup.strict THEN NoMac ELSE hop
      BY <2>1, AnswerGiven
    <2>3. hop = NoMac \/ (hop \in cacheRead' /\ hop.station = route.gateway.ip)
      BY <2>1, EntryIsAbout
    <2>4. ScopeIsRight' /\ MethodIsRight' /\ ZoneIsKept'
      BY <1>1, <1>2, <2>2, <2>3 DEF ScopeIsRight, MethodIsRight, ZoneIsKept
    <2> QED
      BY <1>1, <2>2, <2>4 DEF LookInv, LookupTellsWhoseAddress
  <1>3. CASE ~Routed(route)
    <2>1. PICK entry \in EntriesFor(lookup.target.ip, OnInterface, cacheRead') :
            Conclude(IF entry = NoMac THEN MacLookup("unknown", NoMac, OnInterface, "cache")
                                      ELSE MacLookup("direct", entry, entry.link, "cache"))
      BY <1>3 DEF ReadCache
    <2>2. /\ lookStep' = "done" /\ found'.kind = "answer" /\ found'.method = "cache"
          /\ found'.scope = IF entry = NoMac THEN "unknown" ELSE "direct"
          /\ found'.mac = entry
      <3>1. CASE entry = NoMac
        BY <2>1, <3>1, AnswerGiven
      <3>2. CASE entry # NoMac
        BY <2>1, <3>2, AnswerGiven
      <3> QED
        BY <3>1, <3>2
    <2>3. /\ entry = NoMac \/ (entry \in cacheRead' /\ entry.station = lookup.target.ip)
          /\ Mac(OnInterface, lookup.target.ip) \in cacheRead' => entry.link = OnInterface
      BY <2>1, EntryIsAbout
    <2>4. ScopeIsRight' /\ MethodIsRight'
      BY <1>1, <1>3, <2>2, <2>3 DEF ScopeIsRight, MethodIsRight
    <2>5. ZoneIsKept'
      BY <1>1, <2>2, <2>3 DEF ZoneIsKept, ZoneGiven, OnInterface
    <2> QED
      BY <1>1, <2>2, <2>4, <2>5 DEF LookInv, LookupTellsWhoseAddress
  <1> QED
    BY <1>2, <1>3

\* Every step of a lookup keeps the invariant.
LEMMA LookKept == LookInv /\ [LookupNext]_lookVars => LookInv'
  <1> SUFFICES ASSUME LookInv, [LookupNext]_lookVars PROVE LookInv'
    OBVIOUS
  <1>1. CASE QueryRoute \/ SendRequest \/ CannotAsk
    BY <1>1, QueryRouteStep, SendRequestStep, CannotAskStep
  <1>2. CASE HearAnswer \/ NobodyAnswers \/ ReadCache
    BY <1>2, HearAnswerStep, NobodyAnswersStep, ReadCacheStep
  <1>3. CASE UNCHANGED lookVars
    <2>1. UNCHANGED <<lookup, lookStep, route, asking, couldNotAsk, heard, cacheRead, found>>
      BY <1>3 DEF lookVars
    <2> QED
      BY <2>1 DEF LookInv, LookupTellsWhoseAddress, ScopeIsRight, MethodIsRight, ZoneIsKept,
         ZoneGiven, Asked, AskingLinks, LinksTowards
  <1> QED
    BY <1>1, <1>2, <1>3 DEF LookupNext

\* The inductive invariant holds in every reachable state.
THEOREM LookInvariance == LookupSpec => []LookInv
  BY LookInitially, LookKept, PTL DEF LookupSpec

\* On any links and with any routers, lookup_mac never passes a router's address
\* for the host's nor a cached one for an answer, and keeps to the caller's zone
\* (_active_lookup, _cached_lookup, ask_or_read_cache).
THEOREM LookupsTellWhoseAddress == LookupSpec => []LookupTellsWhoseAddress
  BY LookInvariance, PTL DEF LookInv

-----------------------------------------------------------------------------
(***************************************************************************)
(* Proofs about BannerGrab: for any cap, any timeout and whatever the peer *)
(* sends, the greeting kept is the first line of it.                       *)
(***************************************************************************)

\* What is kept is what was sent, from its first byte on, less what is held.
KeptInv ==
  /\ Len(line) <= Cap /\ Len(line) <= Len(stream)
  /\ \A i \in 1..Len(line) : line[i] = stream[i] /\ line[i] # Newline
  /\ grabStep = "read" =>
       /\ Len(stream) = Len(line) + Len(pending)
       /\ \A i \in 1..Len(pending) : pending[i] = stream[Len(line) + i]

\* Why nothing more is read.
LineIsOver ==
  \/ Len(line) < Len(stream) /\ stream[Len(line) + 1] = Newline
  \/ Len(line) = Cap
  \/ ~BeforeDeadline
  \/ peer = "reset"
  \/ peer = "closed" /\ Len(line) = Len(stream)

GrabTypeInv ==
  /\ stream \in Seq(Byte) /\ pending \in Seq(Byte) /\ line \in Seq(Byte)
  /\ clock \in Nat
  /\ grabStep \in {"lookup", "connect", "read", "ended", "done"}

GrabStepInv ==
  /\ grabStep \in {"lookup", "connect"} =>
       peer = "none" /\ stream = <<>> /\ pending = <<>> /\ line = <<>>
  /\ banner \in {"silent", "greeted"} => grabStep = "done" /\ LineIsOver
  /\ grabStep = "ended" => LineIsOver
  /\ saidGoodbye => line # <<>>

GrabInv == GrabTypeInv /\ KeptInv /\ GrabStepInv

\* The bytes up to the newline, or all of them.
LEMMA UpToNewlineIs ==
  ASSUME NEW bytes \in Seq(Byte)
  PROVE  /\ UpToNewline(bytes) \in Seq(Byte)
         /\ Len(UpToNewline(bytes)) <= Len(bytes)
         /\ \A i \in 1..Len(UpToNewline(bytes)) :
              UpToNewline(bytes)[i] = bytes[i] /\ bytes[i] # Newline
         /\ Newline \in ToSet(bytes) =>
              Len(UpToNewline(bytes)) < Len(bytes) /\ bytes[Len(UpToNewline(bytes)) + 1] = Newline
         /\ Newline \notin ToSet(bytes) => UpToNewline(bytes) = bytes
  <1>1. CASE Newline \in ToSet(bytes)
    <2> DEFINE I == {i \in 1..Len(bytes) : bytes[i] = Newline}
               p == SelectInSeq(bytes, LAMBDA b : b = Newline)
    <2>1. I # {} /\ I \subseteq Nat
      BY <1>1 DEF ToSet
    <2>2. p = Min(I)
      BY <2>1 DEF SelectInSeq
    <2>3. p \in I /\ \A i \in I : p <= i
      <3> HIDE DEF I
      <3>1. \E x \in I : \A y \in I : x <= y
        BY ONLY <2>1, LeastNumber
      <3> QED
        BY ONLY <3>1, <2>2 DEF Min
    <2> HIDE DEF p
    <2>4. UpToNewline(bytes) = SubSeq(bytes, 1, p - 1)
      BY <1>1 DEF UpToNewline, p
    <2>5. p \in 1..Len(bytes) /\ bytes[p] = Newline /\ \A i \in 1..(p - 1) : bytes[i] # Newline
      BY <2>3
    <2>6. /\ SubSeq(bytes, 1, p - 1) \in Seq(Byte)
          /\ Len(SubSeq(bytes, 1, p - 1)) = p - 1
          /\ \A i \in 1..(p - 1) : SubSeq(bytes, 1, p - 1)[i] = bytes[i]
      BY <2>5
    <2> QED
      BY <1>1, <2>4, <2>5, <2>6
  <1>2. CASE Newline \notin ToSet(bytes)
    <2>1. UpToNewline(bytes) = bytes
      BY <1>2 DEF UpToNewline
    <2>2. \A i \in 1..Len(bytes) : bytes[i] # Newline
      BY <1>2 DEF ToSet
    <2> QED
      BY <1>2, <2>1, <2>2
  <1> QED
    BY <1>1, <1>2

\* A chunk is the beginning of what is held, and fits.
LEMMA ChunkFits ==
  ASSUME GrabTypeInv, KeptInv
  PROVE  /\ Chunk \in Seq(Byte)
         /\ Len(Chunk) <= Len(pending) /\ Len(Chunk) <= Cap - Len(line)
         /\ \A i \in 1..Len(Chunk) : Chunk[i] = pending[i]
  BY GrabAssumption DEF Chunk, GrabTypeInv, KeptInv

\* A grab begins with nothing sent and nothing kept.
LEMMA GrabInitially == GrabInit => GrabInv
  BY GrabAssumption DEF GrabInit, GrabFresh, GrabInv, GrabTypeInv, KeptInv, GrabStepInv

\* What ends a line stays true.
LEMMA OverStaysOver ==
  ASSUME GrabTypeInv, clock' \in Nat, clock <= clock', UNCHANGED <<stream, line>>,
         peer' = peer \/ (peer = "open" /\ peer' \in {"closed", "reset"})
  PROVE  LineIsOver => LineIsOver'
  BY GrabAssumption DEF GrabTypeInv, LineIsOver, BeforeDeadline

\* Steps that change neither what was sent nor what was kept.
LEMMA GrabOtherSteps ==
  ASSUME GrabInv,
         GrabTicks \/ LookupAnswers \/ Connects \/ IsRefused \/ NotReachable \/ PeerLeaves
  PROVE  GrabInv'
  <1>1. /\ UNCHANGED <<stream, pending, line, saidGoodbye>>
        /\ clock' \in Nat /\ clock <= clock'
        /\ grabStep' \in {"lookup", "connect", "read", "ended", "done"}
    BY DEF GrabInv, GrabTypeInv, GrabTicks, LookupAnswers, Connects, IsRefused, NotReachable,
       PeerLeaves, NotConnected
  <1>2. GrabTypeInv'
    BY <1>1 DEF GrabInv, GrabTypeInv
  <1>3. KeptInv'
    <2>1. grabStep' = "read" => grabStep = "read" \/ (stream = <<>> /\ pending = <<>> /\ line = <<>>)
      BY DEF GrabInv, GrabStepInv, GrabTicks, LookupAnswers, Connects, IsRefused, NotReachable,
         PeerLeaves, NotConnected
    <2> QED
      BY <1>1, <2>1 DEF GrabInv, KeptInv
  <1>4. GrabStepInv'
    <2>1. peer' = peer \/ (peer = "open" /\ peer' \in {"closed", "reset"})
             \/ (peer = "none" /\ peer' = "open" /\ grabStep' = "read")
      BY DEF GrabInv, GrabStepInv, GrabTicks, LookupAnswers, Connects, IsRefused, NotReachable,
         PeerLeaves, NotConnected
    <2>2. /\ grabStep' \in {"lookup", "connect"} => grabStep \in {"lookup", "connect"} /\ UNCHANGED peer
          /\ grabStep' = "ended" => grabStep = "ended"
          /\ banner' \in {"silent", "greeted"} => UNCHANGED <<banner, grabStep>>
      BY DEF GrabInv, GrabStepInv, GrabTicks, LookupAnswers, Connects, IsRefused, NotReachable,
         PeerLeaves, NotConnected
    <2>3. LineIsOver /\ grabStep' # "read" => LineIsOver'
      BY <1>1, <2>1, OverStaysOver DEF GrabInv
    <2> QED
      BY <1>1, <2>2, <2>3 DEF GrabInv, GrabStepInv
  <1> QED
    BY <1>2, <1>3, <1>4 DEF GrabInv

\* Bytes that arrive are held until they are read.
LEMMA PeerSendsStep == GrabInv /\ PeerSends => GrabInv'
  <1> SUFFICES ASSUME GrabInv, PeerSends PROVE GrabInv'
    OBVIOUS
  <1>1. PICK byte \in Byte : stream' = Append(stream, byte) /\ pending' = Append(pending, byte)
    BY DEF PeerSends
  <1>2. /\ peer = "open" /\ grabStep \notin {"lookup", "connect", "done"}
        /\ UNCHANGED <<grabStep, clock, peer, line, saidGoodbye, banner>>
    BY DEF PeerSends, GrabInv, GrabStepInv
  <1>3. /\ stream' \in Seq(Byte) /\ pending' \in Seq(Byte)
        /\ Len(stream') = Len(stream) + 1 /\ Len(pending') = Len(pending) + 1
        /\ \A i \in 1..Len(stream) : stream'[i] = stream[i]
        /\ \A i \in 1..Len(pending) : pending'[i] = pending[i]
        /\ stream'[Len(stream) + 1] = byte /\ pending'[Len(pending) + 1] = byte
    BY <1>1 DEF GrabInv, GrabTypeInv
  <1>4. Len(stream) \in Nat /\ Len(pending) \in Nat /\ Len(line) \in Nat
    BY DEF GrabInv, GrabTypeInv
  <1>5. GrabTypeInv'
    BY <1>2, <1>3 DEF GrabInv, GrabTypeInv
  <1>6. KeptInv'
    <2>1. Len(line') <= Cap /\ Len(line') <= Len(stream')
      BY <1>2, <1>3, <1>4 DEF GrabInv, KeptInv
    <2>2. \A i \in 1..Len(line') : line'[i] = stream'[i] /\ line'[i] # Newline
      BY <1>2, <1>3, <1>4 DEF GrabInv, KeptInv
    <2>3. ASSUME grabStep' = "read"
          PROVE  /\ Len(stream') = Len(line') + Len(pending')
                 /\ \A i \in 1..Len(pending') : pending'[i] = stream'[Len(line') + i]
      <3>1. /\ Len(stream) = Len(line) + Len(pending)
            /\ \A i \in 1..Len(pending) : pending[i] = stream[Len(line) + i]
        BY <1>2, <2>3 DEF GrabInv, KeptInv
      <3>2. Len(stream') = Len(line') + Len(pending')
        BY <1>2, <1>3, <1>4, <3>1
      <3>3. ASSUME NEW i \in 1..Len(pending') PROVE pending'[i] = stream'[Len(line') + i]
        <4>1. CASE i \in 1..Len(pending)
          <5>1. Len(line) + i \in 1..Len(stream)
            BY <1>4, <3>1, <4>1
          <5> QED
            BY <1>2, <1>3, <3>1, <4>1, <5>1
        <4>2. CASE i = Len(pending) + 1
          <5>1. Len(line) + i = Len(stream) + 1
            BY <1>4, <3>1, <4>2
          <5> QED
            BY <1>2, <1>3, <4>2, <5>1
        <4> QED
          BY <1>3, <1>4, <4>1, <4>2
      <3> QED
        BY <3>2, <3>3
    <2> QED
      BY <2>1, <2>2, <2>3 DEF KeptInv
  <1>7. GrabStepInv'
    <2>1. LineIsOver => LineIsOver'
      <3>1. Len(line) < Len(stream) => Len(line) + 1 \in 1..Len(stream) /\ Len(line) < Len(stream) + 1
        BY <1>4
      <3>2. Len(line) < Len(stream) => stream'[Len(line) + 1] = stream[Len(line) + 1]
        BY <1>3, <3>1
      <3>3. UNCHANGED <<line, clock, peer>> /\ peer # "closed" /\ Len(stream') = Len(stream) + 1
        BY <1>2, <1>3
      <3> QED
        BY <3>1, <3>2, <3>3 DEF LineIsOver, BeforeDeadline
    <2> QED
      BY <1>2, <2>1 DEF GrabInv, GrabStepInv
  <1> QED
    BY <1>5, <1>6, <1>7 DEF GrabInv

\* A read takes a chunk, and of it what comes before the newline.
LEMMA ReadStep == GrabInv /\ Read => GrabInv'
  <1> SUFFICES ASSUME GrabInv, Read PROVE GrabInv'
    OBVIOUS
  <1> DEFINE chunk == Chunk
             taken == UpToNewline(chunk)
  <1>1. /\ grabStep = "read" /\ UNCHANGED <<clock, peer, stream, saidGoodbye, banner>>
        /\ line' = line \o taken
        /\ pending' = SubSeq(pending, Len(chunk) + 1, Len(pending))
        /\ grabStep' = IF Newline \in ToSet(chunk) THEN "ended" ELSE "read"
    BY DEF Read, Reading, LineEnds
  <1>2. /\ chunk \in Seq(Byte)
        /\ Len(chunk) <= Len(pending) /\ Len(chunk) <= Cap - Len(line)
        /\ \A i \in 1..Len(chunk) : chunk[i] = pending[i]
    BY ChunkFits DEF GrabInv
  <1> HIDE DEF chunk
  <1>3. /\ taken \in Seq(Byte) /\ Len(taken) <= Len(chunk)
        /\ \A i \in 1..Len(taken) : taken[i] = chunk[i] /\ chunk[i] # Newline
        /\ Newline \in ToSet(chunk) => Len(taken) < Len(chunk) /\ chunk[Len(taken) + 1] = Newline
        /\ Newline \notin ToSet(chunk) => taken = chunk
    BY <1>2, UpToNewlineIs
  <1> HIDE DEF taken
  <1>4. /\ Len(stream) = Len(line) + Len(pending)
        /\ \A i \in 1..Len(pending) : pending[i] = stream[Len(line) + i]
        /\ \A i \in 1..Len(line) : line[i] = stream[i] /\ line[i] # Newline
        /\ Len(line) <= Cap
    BY <1>1 DEF GrabInv, KeptInv
  <1>5. Len(line) \in Nat /\ Len(pending) \in Nat /\ Len(taken) \in Nat /\ Len(chunk) \in Nat /\ Cap \in Nat
    BY <1>2, <1>3, GrabAssumption DEF GrabInv, GrabTypeInv
  <1>6. /\ line' \in Seq(Byte) /\ Len(line') = Len(line) + Len(taken)
        /\ \A i \in 1..Len(line) : line'[i] = line[i]
        /\ \A i \in 1..Len(taken) : line'[Len(line) + i] = taken[i]
    BY <1>1, <1>3 DEF GrabInv, GrabTypeInv
  <1>7. /\ pending' \in Seq(Byte) /\ Len(pending') = Len(pending) - Len(chunk)
        /\ \A i \in 1..Len(pending') : pending'[i] = pending[Len(chunk) + i]
    BY <1>1, <1>2, <1>5 DEF GrabInv, GrabTypeInv
  <1>8. GrabTypeInv'
    BY <1>1, <1>6, <1>7 DEF GrabInv, GrabTypeInv
  <1>9. KeptInv'
    <2>1. Len(line') <= Cap /\ Len(line') <= Len(stream')
      BY <1>1, <1>2, <1>3, <1>4, <1>5, <1>6
    <2>2. ASSUME NEW i \in 1..Len(line') PROVE line'[i] = stream'[i] /\ line'[i] # Newline
      <3>1. CASE i \in 1..Len(line)
        BY <1>1, <1>4, <1>6, <3>1
      <3>2. CASE i \notin 1..Len(line)
        <4> DEFINE k == i - Len(line)
        <4>1. k \in 1..Len(taken) /\ i = Len(line) + k
          BY <1>5, <1>6, <3>2
        <4>2. k \in 1..Len(chunk) /\ k \in 1..Len(pending)
          BY <1>2, <1>3, <1>5, <4>1
        <4>3. line'[i] = taken[k] /\ taken[k] = chunk[k] /\ chunk[k] # Newline
          BY <1>3, <1>6, <4>1
        <4>4. chunk[k] = pending[k] /\ pending[k] = stream[Len(line) + k]
          BY <1>2, <1>4, <4>2
        <4> QED
          BY <1>1, <4>1, <4>3, <4>4
      <3> QED
        BY <3>1, <3>2
    <2>3. ASSUME grabStep' = "read"
          PROVE  /\ Len(stream') = Len(line') + Len(pending')
                 /\ \A i \in 1..Len(pending') : pending'[i] = stream'[Len(line') + i]
      <3>1. Len(taken) = Len(chunk)
        BY <1>1, <1>3, <2>3
      <3>2. Len(stream') = Len(line') + Len(pending')
        <4>1. Len(stream') = Len(line) + Len(pending)
          BY <1>1, <1>4
        <4>2. Len(line') = Len(line) + Len(chunk) /\ Len(pending') = Len(pending) - Len(chunk)
          BY <1>6, <1>7, <3>1
        <4> QED
          BY ONLY <1>5, <4>1, <4>2
      <3>3. ASSUME NEW i \in 1..Len(pending') PROVE pending'[i] = stream'[Len(line') + i]
        <4>1. Len(chunk) + i \in 1..Len(pending) /\ Len(line) + (Len(chunk) + i) = Len(line') + i
          BY <1>5, <1>6, <1>7, <3>1
        <4> QED
          BY <1>1, <1>4, <1>7, <4>1
      <3> QED
        BY <3>2, <3>3
    <2> QED
      BY <2>1, <2>2, <2>3 DEF KeptInv
  <1>10. GrabStepInv'
    <2>1. CASE Newline \in ToSet(chunk)
      <3>1. Len(taken) + 1 \in 1..Len(chunk) /\ Len(taken) + 1 \in 1..Len(pending)
        BY <1>2, <1>3, <1>5, <2>1
      <3>2. stream[Len(line) + (Len(taken) + 1)] = Newline
        BY <1>2, <1>3, <1>4, <2>1, <3>1
      <3>3. Len(line) + (Len(taken) + 1) = Len(line') + 1 /\ Len(line') < Len(stream)
        BY <1>4, <1>5, <1>6, <3>1
      <3>4. LineIsOver'
        BY <1>1, <3>2, <3>3 DEF LineIsOver
      <3> QED
        BY <1>1, <1>5, <1>6, <2>1, <3>4 DEF GrabInv, GrabStepInv, GrabTypeInv
    <2>2. CASE Newline \notin ToSet(chunk)
      BY <1>1, <1>5, <1>6, <2>2 DEF GrabInv, GrabStepInv, GrabTypeInv
    <2> QED
      BY <2>1, <2>2
  <1> QED
    BY <1>8, <1>9, <1>10 DEF GrabInv

\* Reading stops for one of the reasons a line is over.
LEMMA StopReadingStep == GrabInv /\ StopReading => GrabInv'
  <1> SUFFICES ASSUME GrabInv, StopReading PROVE GrabInv'
    OBVIOUS
  <1>1. /\ grabStep = "read" /\ grabStep' = "ended"
        /\ UNCHANGED <<clock, peer, stream, pending, line, saidGoodbye, banner>>
    BY DEF StopReading, LineEnds
  <1>2. LineIsOver
    BY <1>1, GrabAssumption DEF StopReading, LineIsOver, GrabInv, GrabTypeInv, KeptInv
  <1>3. GrabTypeInv' /\ KeptInv'
    BY <1>1 DEF GrabInv, GrabTypeInv, KeptInv
  <1>4. GrabStepInv'
    BY <1>1, <1>2 DEF GrabInv, GrabStepInv, LineIsOver, BeforeDeadline
  <1> QED
    BY <1>3, <1>4 DEF GrabInv

\* What is kept when reading stops is what the answer says.
LEMMA ConverseStep == GrabInv /\ Converse => GrabInv'
  <1> SUFFICES ASSUME GrabInv, Converse PROVE GrabInv'
    OBVIOUS
  <1>1. /\ grabStep = "ended" /\ grabStep' = "done"
        /\ UNCHANGED <<clock, peer, stream, pending, line>>
    BY DEF Converse
  <1>2. saidGoodbye' => line # <<>>
    BY DEF Converse
  <1>3. GrabTypeInv' /\ KeptInv'
    BY <1>1 DEF GrabInv, GrabTypeInv, KeptInv
  <1>4. GrabStepInv'
    BY <1>1, <1>2 DEF GrabInv, GrabStepInv, LineIsOver, BeforeDeadline
  <1> QED
    BY <1>3, <1>4 DEF GrabInv

\* Every step of a grab keeps the invariant.
LEMMA GrabKept == GrabInv /\ [GrabNext]_grabVars => GrabInv'
  <1> SUFFICES ASSUME GrabInv, [GrabNext]_grabVars PROVE GrabInv'
    OBVIOUS
  <1>1. CASE GrabTicks \/ LookupAnswers \/ Connects \/ IsRefused \/ NotReachable \/ PeerLeaves
    BY <1>1, GrabOtherSteps
  <1>2. CASE PeerSends \/ Read \/ StopReading \/ Converse
    BY <1>2, PeerSendsStep, ReadStep, StopReadingStep, ConverseStep
  <1>3. CASE UNCHANGED grabVars
    BY <1>3 DEF grabVars, GrabInv, GrabTypeInv, KeptInv, GrabStepInv, LineIsOver, BeforeDeadline
  <1> QED
    BY <1>1, <1>2, <1>3 DEF GrabNext

\* What is kept is what of the first line fits, unless it was cut short.
LEMMA KeptIsTheFirstLine == GrabInv => GreetingIsTheFirstLine
  <1> SUFFICES ASSUME GrabInv, banner \in {"silent", "greeted"}
               PROVE  /\ IsPrefix(line, Kept)
                      /\ line = Kept \/ ~BeforeDeadline \/ peer = "reset"
                      /\ saidGoodbye => stream # <<>>
    BY DEF GreetingIsTheFirstLine
  <1> DEFINE n == Len(line)
             m == Len(FirstLine)
             k == IF m < Cap THEN m ELSE Cap
  <1>1. /\ n \in Nat /\ Cap \in Nat /\ n <= Cap /\ n <= Len(stream) /\ Len(stream) \in Nat
        /\ \A i \in 1..n : line[i] = stream[i] /\ line[i] # Newline
    BY GrabAssumption DEF GrabInv, GrabTypeInv, KeptInv
  <1>2. /\ FirstLine \in Seq(Byte) /\ m \in Nat /\ m <= Len(stream)
        /\ \A i \in 1..m : FirstLine[i] = stream[i] /\ stream[i] # Newline
        /\ m < Len(stream) => stream[m + 1] = Newline
    BY UpToNewlineIs DEF GrabInv, GrabTypeInv, FirstLine
  <1>3. n <= m
    <2>1. CASE m < n
      <3>1. m + 1 \in 1..n /\ m < Len(stream)
        BY <1>1, <1>2, <2>1
      <3> QED
        BY <1>1, <1>2, <3>1
    <2> QED
      BY <1>1, <1>2, <2>1
  <1>4. /\ Kept \in Seq(Byte) /\ Len(Kept) = k
        /\ \A i \in 1..k : Kept[i] = FirstLine[i]
    BY <1>1, <1>2 DEF Kept
  <1>5. n <= k /\ k \in Nat /\ k <= m /\ k <= Cap
    BY <1>1, <1>2, <1>3
  <1>6. \A i \in 1..n : line[i] = Kept[i]
    BY <1>1, <1>2, <1>4, <1>5
  <1>7. IsPrefix(line, Kept)
    <2>1. line \in Seq(Byte)
      BY DEF GrabInv, GrabTypeInv
    <2>2. SubSeq(line, 1, n) = SubSeq(Kept, 1, n)
      BY <1>1, <1>4, <1>5, <1>6, <2>1
    <2> QED
      BY <1>4, <1>5, <2>2 DEF IsPrefix
  <1>8. line = Kept \/ ~BeforeDeadline \/ peer = "reset"
    <2> SUFFICES ASSUME BeforeDeadline, peer # "reset" PROVE line = Kept
      OBVIOUS
    <2>1. \/ n < Len(stream) /\ stream[n + 1] = Newline
          \/ n = Cap
          \/ n = Len(stream)
      BY DEF GrabInv, GrabStepInv, LineIsOver
    <2>2. n = k
      <3>1. CASE n < Len(stream) /\ stream[n + 1] = Newline
        <4>1. ~(n < m)
          BY <1>1, <1>2, <3>1
        <4> QED
          BY <1>1, <1>2, <1>3, <4>1
      <3>2. CASE n = Cap \/ n = Len(stream)
        BY <1>1, <1>2, <1>3, <3>2
      <3> QED
        BY <2>1, <3>1, <3>2
    <2>3. line \in Seq(Byte)
      BY DEF GrabInv, GrabTypeInv
    <2> QED
      BY <1>4, <1>6, <2>2, <2>3
  <1>9. saidGoodbye => stream # <<>>
    BY <1>1 DEF GrabInv, GrabStepInv, GrabTypeInv
  <1> QED
    BY <1>7, <1>8, <1>9

\* The inductive invariant holds in every reachable state.
THEOREM GrabInvariance == GrabSpec => []GrabInv
  BY GrabInitially, GrabKept, PTL DEF GrabSpec

\* For any cap and deadline and however the bytes come, a greeting is the
\* beginning of the first line and nothing else (_read_line, _converse).
THEOREM GreetingsAreFirstLines == GrabSpec => []GreetingIsTheFirstLine
  BY GrabInvariance, KeptIsTheFirstLine, PTL

-----------------------------------------------------------------------------
(***************************************************************************)
(* Proofs about Sweep: for any networks, any budget and whatever the host is*)
(* attached to, a sweep fits its budget, and a miss of find_ip_by_mac is   *)
(* answered only once the whole ground was probed.                         *)
(***************************************************************************)

\* What the folds of a sweep do with one more network, and one more interface.
Placed(split, n) ==
  IF Covering(split.networks) + n.addresses <= Budget
    THEN [split EXCEPT !.networks = Append(@, n)]
    ELSE [split EXCEPT !.skipped = Append(@, n)]
Joined(listed, i) ==
  IF i.loopback \/ PointToPoint(i.network) \/ i.network \in ToSet(listed) THEN listed
  ELSE Append(listed, i.network)

Splits == [networks : Seq(Networks), skipped : Seq(Networks)]

\* A network placed goes among those to sweep or those skipped.
LEMMA PlacedIs ==
  ASSUME NEW split \in Splits, NEW n \in Networks
  PROVE  /\ Placed(split, n) \in Splits
         /\ IF Covering(split.networks) + n.addresses <= Budget
              THEN /\ Placed(split, n).networks = Append(split.networks, n)
                   /\ Placed(split, n).skipped = split.skipped
              ELSE /\ Placed(split, n).networks = split.networks
                   /\ Placed(split, n).skipped = Append(split.skipped, n)
  <1> DEFINE more == Append(split.networks, n)
             less == Append(split.skipped, n)
             fits == Covering(split.networks) + n.addresses <= Budget
             first  == [split EXCEPT !.networks = more]
             second == [split EXCEPT !.skipped = less]
  <1>1. more \in Seq(Networks) /\ less \in Seq(Networks)
    BY DEF Splits
  <1>2. Placed(split, n) = IF fits THEN first ELSE second
    BY DEF Placed
  <1> HIDE DEF more, less, fits
  <1>3. first \in Splits /\ first.networks = more /\ first.skipped = split.skipped
    BY <1>1 DEF Splits
  <1>4. second \in Splits /\ second.networks = split.networks /\ second.skipped = less
    BY <1>1 DEF Splits
  <1> HIDE DEF first, second
  <1>5. CASE fits
    BY <1>2, <1>3, <1>5 DEF more, less, fits
  <1>6. CASE ~fits
    BY <1>2, <1>4, <1>6 DEF more, less, fits
  <1> QED
    BY <1>5, <1>6

\* What one more network adds to those covered before.
LEMMA CoveringSteps ==
  ASSUME NEW networks \in Seq(Networks)
  PROVE  \E g : /\ g[0] = 0
                /\ \A k \in 1..Len(networks) : g[k] = g[k - 1] + networks[k].addresses
                /\ Covering(networks) = g[Len(networks)]
  <1> DEFINE n == Len(networks)
             D == Nat
             Op(d, i) == d + networks[i].addresses
             F(f) == [s \in SUBSET DOMAIN networks |->
                        IF s = {} THEN 0 ELSE Op(f[s \ {Max(s)}], Max(s))]
             iter == CHOOSE f : f = F(f)
             law == [p \in (1..n) \X D |-> Op(p[2], p[1])]
  <1>1. n \in Nat /\ DOMAIN networks = 1..n
    OBVIOUS
  <1>2. Covering(networks) = iter[1..n]
    BY <1>1 DEF Covering, FoldLeft, MapThenFoldSet
  <1>3. /\ 0 \in D
        /\ \A i \in 1..n, d \in D : Op(d, i) \in D
    BY SweepAssumption
  <1> HIDE DEF Op
  <1>4. law \in [(1..n) \X D -> D] /\ \A i \in 1..n, d \in D : law[<<i, d>>] = Op(d, i)
    BY <1>3
  <1> HIDE DEF law
  <1>5. PICK f \in [SUBSET (1..n) -> D] : IsFold(f, n, 0, law)
    <2> HIDE DEF n, D
    <2> QED
      BY ONLY <1>1, <1>3, <1>4, FoldExists
  <1> HIDE DEF D
  <1>6. f = F(f)
    BY <1>1, <1>4, <1>5 DEF IsFold
  <1>7. iter = F(iter)
    BY ONLY <1>6
  <1> HIDE DEF iter
  <1> DEFINE g == [k \in 0..n |-> iter[1..k]]
  <1>8. g[0] = 0
    BY <1>1, <1>7
  <1>9. ASSUME NEW k \in 1..n PROVE g[k] = Op(g[k - 1], k)
    <2>1. k \in Nat /\ k > 0 /\ 1..k \in SUBSET DOMAIN networks
      BY <1>1
    <2>2. 1..k # {} /\ Max(1..k) = k /\ (1..k) \ {k} = 1..(k - 1)
      BY ONLY <2>1, RangeUpTo
    <2>3. iter[1..k] = Op(iter[1..(k - 1)], k)
      BY <1>7, <2>1, <2>2
    <2> QED
      BY <1>1, <2>3
  <1>10. Covering(networks) = g[n]
    BY <1>1, <1>2
  <1> HIDE DEF g
  <1> QED
    BY <1>8, <1>9, <1>10 DEF Op

\* One more network goes where the budget says.
LEMMA SplitSteps ==
  ASSUME NEW networks \in Seq(Networks)
  PROVE  \E g : /\ g[0] = NoScope
                /\ \A k \in 1..Len(networks) : g[k] = Placed(g[k - 1], networks[k])
                /\ FromNetworks(networks) = g[Len(networks)]
  <1> DEFINE n == Len(networks)
             D == Splits
             Op(d, i) == Placed(d, networks[i])
             F(f) == [s \in SUBSET DOMAIN networks |->
                        IF s = {} THEN NoScope ELSE Op(f[s \ {Max(s)}], Max(s))]
             iter == CHOOSE f : f = F(f)
             law == [p \in (1..n) \X D |-> Op(p[2], p[1])]
  <1>1. n \in Nat /\ DOMAIN networks = 1..n
    OBVIOUS
  <1>2. FromNetworks(networks) = iter[1..n]
    BY <1>1 DEF FromNetworks, FoldLeft, MapThenFoldSet, Placed
  <1>3. /\ NoScope \in D
        /\ \A i \in 1..n, d \in D : Op(d, i) \in D
    <2>1. \A d \in D, network \in Networks : Placed(d, network) \in D
      BY PlacedIs
    <2> QED
      BY <2>1 DEF NoScope, Splits
  <1> HIDE DEF Op
  <1>4. law \in [(1..n) \X D -> D] /\ \A i \in 1..n, d \in D : law[<<i, d>>] = Op(d, i)
    BY <1>3
  <1> HIDE DEF law
  <1>5. PICK f \in [SUBSET (1..n) -> D] : IsFold(f, n, NoScope, law)
    <2> HIDE DEF n, D
    <2> QED
      BY ONLY <1>1, <1>3, <1>4, FoldExists
  <1> HIDE DEF D
  <1>6. f = F(f)
    BY <1>1, <1>4, <1>5 DEF IsFold
  <1>7. iter = F(iter)
    BY ONLY <1>6
  <1> HIDE DEF iter
  <1> DEFINE g == [k \in 0..n |-> iter[1..k]]
  <1>8. g[0] = NoScope
    BY <1>1, <1>7
  <1>9. ASSUME NEW k \in 1..n PROVE g[k] = Op(g[k - 1], k)
    <2>1. k \in Nat /\ k > 0 /\ 1..k \in SUBSET DOMAIN networks
      BY <1>1
    <2>2. 1..k # {} /\ Max(1..k) = k /\ (1..k) \ {k} = 1..(k - 1)
      BY ONLY <2>1, RangeUpTo
    <2>3. iter[1..k] = Op(iter[1..(k - 1)], k)
      BY <1>7, <2>1, <2>2
    <2> QED
      BY <1>1, <2>3
  <1>10. FromNetworks(networks) = g[n]
    BY <1>1, <1>2
  <1> HIDE DEF g
  <1> QED
    BY <1>8, <1>9, <1>10 DEF Op

\* One more interface adds its network if it is to be swept.
LEMMA ListingSteps ==
  ASSUME NEW interfaces \in AttachedLists
  PROVE  \E g : /\ g[0] = <<>>
                /\ \A k \in 1..Len(interfaces) : g[k] = Joined(g[k - 1], interfaces[k])
                /\ LocalNetworks(interfaces) = g[Len(interfaces)]
  <1> DEFINE n == Len(interfaces)
             D == Seq(Networks)
             Op(d, i) == Joined(d, interfaces[i])
             F(f) == [s \in SUBSET DOMAIN interfaces |->
                        IF s = {} THEN <<>> ELSE Op(f[s \ {Max(s)}], Max(s))]
             iter == CHOOSE f : f = F(f)
             law == [p \in (1..n) \X D |-> Op(p[2], p[1])]
  <1>1. n \in Nat /\ DOMAIN interfaces = 1..n
    BY SweepAssumption
  <1>2. LocalNetworks(interfaces) = iter[1..n]
    BY <1>1 DEF LocalNetworks, FoldLeft, MapThenFoldSet, Joined
  <1>3. /\ <<>> \in D
        /\ \A i \in 1..n, d \in D : Op(d, i) \in D
    <2>1. \A i \in 1..n : interfaces[i].network \in Networks
      <3> DEFINE attached == [loopback : BOOLEAN, network : Networks]
      <3>1. interfaces \in Seq(attached)
        BY SweepAssumption
      <3>2. \A a \in attached : a.network \in Networks
        OBVIOUS
      <3> HIDE DEF attached
      <3>3. \A i \in 1..n : interfaces[i] \in attached
        BY ONLY <3>1
      <3> QED
        BY ONLY <3>2, <3>3
    <2>2. ASSUME NEW i \in 1..n, NEW d \in D PROVE Op(d, i) \in D
      BY <2>1 DEF Joined
    <2> QED
      BY <2>2
  <1> HIDE DEF Op
  <1>4. law \in [(1..n) \X D -> D] /\ \A i \in 1..n, d \in D : law[<<i, d>>] = Op(d, i)
    BY <1>3
  <1> HIDE DEF law
  <1>5. PICK f \in [SUBSET (1..n) -> D] : IsFold(f, n, <<>>, law)
    <2> HIDE DEF n, D
    <2> QED
      BY ONLY <1>1, <1>3, <1>4, FoldExists
  <1> HIDE DEF D
  <1>6. f = F(f)
    BY <1>1, <1>4, <1>5 DEF IsFold
  <1>7. iter = F(iter)
    BY ONLY <1>6
  <1> HIDE DEF iter
  <1> DEFINE g == [k \in 0..n |-> iter[1..k]]
  <1>8. g[0] = <<>>
    BY <1>1, <1>7
  <1>9. ASSUME NEW k \in 1..n PROVE g[k] = Op(g[k - 1], k)
    <2>1. k \in Nat /\ k > 0 /\ 1..k \in SUBSET DOMAIN interfaces
      BY <1>1
    <2>2. 1..k # {} /\ Max(1..k) = k /\ (1..k) \ {k} = 1..(k - 1)
      BY ONLY <2>1, RangeUpTo
    <2>3. iter[1..k] = Op(iter[1..(k - 1)], k)
      BY <1>7, <2>1, <2>2
    <2> QED
      BY <1>1, <2>3
  <1>10. LocalNetworks(interfaces) = g[n]
    BY <1>1, <1>2
  <1> HIDE DEF g
  <1> QED
    BY <1>8, <1>9, <1>10 DEF Op

-----------------------------------------------------------------------------
\* What some networks cover is a number, and grows with each of them.
LEMMA CoveringIs ==
  /\ Covering(<<>>) = 0
  /\ \A s \in Seq(Networks) : Covering(s) \in Nat
  /\ \A s \in Seq(Networks), n \in Networks : Covering(Append(s, n)) = Covering(s) + n.addresses
  <1>1. Covering(<<>>) = 0
    <2>1. <<>> \in Seq(Networks) /\ Len(<<>>) = 0
      OBVIOUS
    <2> QED
      BY <2>1, CoveringSteps
  <1>2. ASSUME NEW s \in Seq(Networks), NEW n \in Networks
        PROVE  Covering(s) \in Nat /\ Covering(Append(s, n)) = Covering(s) + n.addresses
    <2> DEFINE m == Len(s)
               more == Append(s, n)
    <2>1. /\ more \in Seq(Networks) /\ Len(more) = m + 1 /\ m \in Nat
          /\ \A i \in 1..m : more[i] = s[i]
          /\ more[m + 1] = n
      OBVIOUS
    <2>2. PICK g : /\ g[0] = 0
                   /\ \A k \in 1..m : g[k] = g[k - 1] + s[k].addresses
                   /\ Covering(s) = g[m]
      BY CoveringSteps
    <2> HIDE DEF more
    <2>3. PICK h : /\ h[0] = 0
                   /\ \A k \in 1..(m + 1) : h[k] = h[k - 1] + more[k].addresses
                   /\ Covering(more) = h[m + 1]
      BY <2>1, CoveringSteps
    <2>4. \A i \in 1..m : s[i].addresses \in Nat
      BY SweepAssumption
    <2> HIDE DEF m
    <2> DEFINE S == {k \in Nat : g[k] \in Nat /\ g[k] = h[k]}
    <2>5. 0 \in S
      BY <2>2, <2>3
    <2>6. ASSUME NEW k \in 0..(m - 1), k \in S PROVE k + 1 \in S
      <3>1. k + 1 \in 1..m /\ k + 1 \in 1..(m + 1) /\ (k + 1) - 1 = k /\ k + 1 \in Nat
        BY <2>1
      <3>2. /\ g[k + 1] = g[k] + s[k + 1].addresses
            /\ h[k + 1] = h[k] + s[k + 1].addresses
            /\ s[k + 1].addresses \in Nat
        BY <2>1, <2>2, <2>3, <2>4, <3>1
      <3> QED
        BY <2>6, <3>1, <3>2
    <2>7. \A k \in 0..m : k \in S
      <3> HIDE DEF S
      <3> QED
        BY ONLY <2>1, <2>5, <2>6, InductionUpTo
    <2>8. g[m] \in Nat /\ g[m] = h[m]
      BY <2>1, <2>7
    <2>9. h[m + 1] = h[m] + n.addresses
      <3>1. m + 1 \in 1..(m + 1) /\ (m + 1) - 1 = m
        BY <2>1
      <3> QED
        BY <2>1, <2>3, <3>1
    <2> QED
      BY <2>2, <2>3, <2>8, <2>9 DEF more
  <1>3. ASSUME NEW s \in Seq(Networks) PROVE Covering(s) \in Nat
    <2>1. CASE Networks = {}
      <3>1. s = <<>>
        BY <2>1
      <3> QED
        BY <1>1, <3>1
    <2>2. CASE Networks # {}
      BY <1>2, <2>2
    <2> QED
      BY <2>1, <2>2
  <1> QED
    BY <1>1, <1>2, <1>3

\* The networks of a sequence hold together no more addresses than it covers.
LEMMA AddressesCovered ==
  ASSUME NEW s \in Seq(Networks)
  PROVE  /\ IsFiniteSet(AddressesOf(ToSet(s)))
         /\ Cardinality(AddressesOf(ToSet(s))) <= Covering(s)
  <1> DEFINE Small(t) == /\ IsFiniteSet(AddressesOf(ToSet(t)))
                        /\ Cardinality(AddressesOf(ToSet(t))) <= Covering(t)
             S == {k \in Nat : \A t \in Seq(Networks) : Len(t) = k => Small(t)}
  <1>1. 0 \in S
    <2>1. AddressesOf(ToSet(<<>>)) = {}
      BY DEF AddressesOf, ToSet
    <2>2. IsFiniteSet({}) /\ Cardinality({}) = 0 /\ Covering(<<>>) = 0
      BY FS_EmptySet, CoveringIs
    <2>4. Small(<<>>)
      <3>1. IsFiniteSet(AddressesOf(ToSet(<<>>))) /\ Cardinality(AddressesOf(ToSet(<<>>))) = 0
        BY ONLY <2>1, <2>2, Zenon
      <3> DEFINE size == Cardinality(AddressesOf(ToSet(<<>>)))
                 covering == Covering(<<>>)
      <3> HIDE DEF size, covering
      <3>2. size = 0 /\ covering = 0
        BY ONLY <2>2, <3>1, Zenon DEF size, covering
      <3>3. size <= covering
        BY ONLY <3>2
      <3> QED
        BY ONLY <3>1, <3>3, Zenon DEF size, covering
    <2>3. \A t \in Seq(Networks) : Len(t) = 0 => t = <<>>
      OBVIOUS
    <2> HIDE DEF Small
    <2> QED
      BY <2>3, <2>4
  <1>2. ASSUME NEW k \in Nat, k \in S PROVE k + 1 \in S
    <2> HIDE DEF Small
    <2> SUFFICES ASSUME NEW t \in Seq(Networks), Len(t) = k + 1 PROVE Small(t)
      OBVIOUS
    <2> DEFINE front == SubSeq(t, 1, k)
               last == t[k + 1]
    <2>1. front \in Seq(Networks) /\ Len(front) = k /\ last \in Networks /\ t = Append(front, last)
      OBVIOUS
    <2> HIDE DEF front, last
    <2>2. Small(front)
      BY <1>2, <2>1
    <2> DEFINE new == {last} \X (1..last.addresses)
               old == AddressesOf(ToSet(front))
    <2>3. AddressesOf(ToSet(t)) = old \cup new
      <3>1. ToSet(t) = ToSet(front) \cup {last}
        BY <2>1, OneMoreElement
      <3> QED
        BY <3>1 DEF AddressesOf
    <2>4. last.addresses \in Nat
      BY <2>1, SweepAssumption
    <2>5. IsFiniteSet(new) /\ Cardinality(new) = last.addresses
      <3>1. IsFiniteSet({last}) /\ Cardinality({last}) = 1
        BY FS_Singleton
      <3>2. IsFiniteSet(1..last.addresses) /\ Cardinality(1..last.addresses) = last.addresses
        <4>1. 1 \in Int /\ last.addresses \in Int
          BY <2>4
        <4>2. /\ IsFiniteSet(1..last.addresses)
              /\ Cardinality(1..last.addresses) = IF 1 > last.addresses THEN 0 ELSE last.addresses - 1 + 1
          BY ONLY <4>1, FS_Interval
        <4> QED
          BY ONLY <2>4, <4>2
      <3>3. IsFiniteSet(new) /\ Cardinality(new) = Cardinality({last}) * Cardinality(1..last.addresses)
        BY ONLY <3>1, <3>2, FS_Product, Zenon
      <3> QED
        BY ONLY <2>4, <3>1, <3>2, <3>3
    <2>6. /\ IsFiniteSet(old) /\ Cardinality(old) \in Nat
          /\ Cardinality(old) <= Covering(front) /\ Covering(front) \in Nat
      BY <2>1, <2>2, FS_CardinalityType, CoveringIs DEF Small
    <2> HIDE DEF old, new
    <2>7. IsFiniteSet(old \cup new) /\ Cardinality(old \cup new) <= Cardinality(old) + last.addresses
      <3>1. /\ IsFiniteSet(old \cup new)
            /\ Cardinality(old \cup new) = Cardinality(old) + Cardinality(new) - Cardinality(old \cap new)
        BY <2>5, <2>6, FS_Union
      <3>2. IsFiniteSet(old \cap new)
        BY <2>6, FS_Intersection
      <3>3. Cardinality(old \cap new) \in Nat
        BY <3>2, FS_CardinalityType
      <3> QED
        BY <2>4, <2>5, <2>6, <3>1, <3>3
    <2>8. Covering(t) = Covering(front) + last.addresses
      BY <2>1, CoveringIs
    <2>9. Cardinality(old \cup new) \in Nat
      BY <2>7, FS_CardinalityType
    <2> QED
      BY <2>3, <2>4, <2>6, <2>7, <2>8, <2>9 DEF Small
  <1>3. \A k \in Nat : k \in S
    <2> HIDE DEF S
    <2> QED
      BY ONLY <1>1, <1>2, NatSetInduction
  <1>4. Len(s) \in Nat
    OBVIOUS
  <1> QED
    BY <1>3, <1>4

\* The networks an interface list yields are networks.
LEMMA ListingIs ==
  ASSUME NEW interfaces \in AttachedLists
  PROVE  LocalNetworks(interfaces) \in Seq(Networks)
  <1> DEFINE attached == [loopback : BOOLEAN, network : Networks]
             n == Len(interfaces)
  <1>1. interfaces \in Seq(attached)
    BY SweepAssumption
  <1>2. \A a \in attached : a.network \in Networks
    OBVIOUS
  <1> HIDE DEF attached
  <1>3. n \in Nat /\ \A i \in 1..n : interfaces[i].network \in Networks
    BY ONLY <1>1, <1>2
  <1>4. PICK g : /\ g[0] = <<>>
                 /\ \A k \in 1..n : g[k] = Joined(g[k - 1], interfaces[k])
                 /\ LocalNetworks(interfaces) = g[n]
    BY ListingSteps
  <1> HIDE DEF n
  <1> DEFINE S == {k \in Nat : g[k] \in Seq(Networks)}
  <1>5. 0 \in S
    <2>1. g[0] = <<>>
      BY <1>4
    <2>2. <<>> \in Seq(Networks) /\ 0 \in Nat
      OBVIOUS
    <2> QED
      BY ONLY <2>1, <2>2, Zenon DEF S
  <1>6. ASSUME NEW k \in 0..(n - 1), k \in S PROVE k + 1 \in S
    <2>1. k + 1 \in 1..n /\ (k + 1) - 1 = k /\ k + 1 \in Nat
      BY <1>3
    <2>2. g[k + 1] = Joined(g[k], interfaces[k + 1]) /\ interfaces[k + 1].network \in Networks
      BY <1>3, <1>4, <2>1
    <2> DEFINE new == interfaces[k + 1].network
               before == g[k]
    <2>3. before \in Seq(Networks) /\ new \in Networks
      BY <1>6, <2>2
    <2>4. g[k + 1] = before \/ g[k + 1] = Append(before, new)
      BY <2>2 DEF Joined
    <2> HIDE DEF before, new
    <2>5. g[k + 1] \in Seq(Networks)
      <3>1. Append(before, new) \in Seq(Networks)
        BY ONLY <2>3
      <3> QED
        BY ONLY <2>3, <2>4, <3>1, Zenon
    <2>6. k + 1 \in Nat
      BY <2>1
    <2> QED
      BY ONLY <2>5, <2>6
  <1>7. \A k \in 0..n : k \in S
    <2> HIDE DEF S
    <2> QED
      BY ONLY <1>3, <1>5, <1>6, InductionUpTo
  <1> QED
    BY <1>3, <1>4, <1>7

\* What a scope made of some networks is.
IsScopeOf(split, networks) ==
  /\ split \in Splits
  /\ Covering(split.networks) <= Budget
  /\ ToSet(split.networks) \subseteq ToSet(networks)
  /\ split.skipped = <<>> => ToSet(networks) \subseteq ToSet(split.networks)
  /\ split.skipped # <<>> => Covering(networks) > Budget

\* The networks within the budget and those left out make up the whole list.
LEMMA SplitIs ==
  ASSUME NEW networks \in Seq(Networks)
  PROVE  IsScopeOf(FromNetworks(networks), networks)
  <1> DEFINE n == Len(networks)
             First(k) == {networks[i] : i \in 1..k}
  <1>1. n \in Nat /\ ToSet(networks) = First(n) /\ \A i \in 1..n : networks[i] \in Networks
    BY DEF ToSet
  <1>2. PICK g : /\ g[0] = NoScope
                 /\ \A k \in 1..n : g[k] = Placed(g[k - 1], networks[k])
                 /\ FromNetworks(networks) = g[n]
    BY SplitSteps
  <1>3. PICK c : /\ c[0] = 0
                 /\ \A k \in 1..n : c[k] = c[k - 1] + networks[k].addresses
                 /\ Covering(networks) = c[n]
    BY CoveringSteps
  <1> HIDE DEF n
  <1> DEFINE Split(k) ==
               /\ g[k] \in Splits /\ c[k] \in Nat
               /\ Covering(g[k].networks) <= Budget /\ Covering(g[k].networks) <= c[k]
               /\ ToSet(g[k].networks) \subseteq First(k)
               /\ g[k].skipped = <<>> => First(k) \subseteq ToSet(g[k].networks)
               /\ g[k].skipped # <<>> => c[k] > Budget
             S == {k \in Nat : Split(k)}
  <1>4. 0 \in S
    <2>1. NoScope \in Splits /\ NoScope.networks = <<>> /\ NoScope.skipped = <<>>
      BY DEF NoScope, Splits
    <2>2. Covering(<<>>) = 0 /\ Budget \in Nat
      BY CoveringIs, SweepAssumption
    <2>3. First(0) = {} /\ ToSet(<<>>) = {}
      BY DEF ToSet
    <2> HIDE DEF First
    <2>4. Split(0)
      BY <1>2, <1>3, <2>1, <2>2, <2>3
    <2> QED
      BY <2>4
  <1>5. ASSUME NEW k \in 0..(n - 1), k \in S PROVE k + 1 \in S
    <2> DEFINE new == networks[k + 1]
               before == g[k]
               after == g[k + 1]
    <2>1. k + 1 \in 1..n /\ (k + 1) - 1 = k /\ k + 1 \in Nat /\ new \in Networks
      BY <1>1
    <2>2. after = Placed(before, new) /\ c[k + 1] = c[k] + new.addresses /\ new.addresses \in Nat
      BY <1>2, <1>3, <2>1, SweepAssumption
    <2>3. First(k + 1) = First(k) \cup {new}
      <3>1. 1..(k + 1) = (1..k) \cup {k + 1}
        BY <2>1
      <3> QED
        BY <3>1
    <2>4. Split(k)
      BY <1>5
    <2> HIDE DEF First, new
    <2>5. /\ before.networks \in Seq(Networks) /\ before.skipped \in Seq(Networks)
          /\ before \in Splits /\ after \in Splits
      BY <2>1, <2>2, <2>4, PlacedIs DEF Splits
    <2>6. Covering(before.networks) \in Nat /\ Budget \in Nat
      BY <2>5, CoveringIs, SweepAssumption
    <2>7. CASE Covering(before.networks) + new.addresses <= Budget
      <3>1. after.networks = Append(before.networks, new) /\ after.skipped = before.skipped
        BY <2>1, <2>2, <2>5, <2>7, PlacedIs
      <3>2. Covering(after.networks) = Covering(before.networks) + new.addresses
        BY <2>1, <2>5, <3>1, CoveringIs
      <3>3. ToSet(after.networks) = ToSet(before.networks) \cup {new}
        BY <2>1, <2>5, <3>1, OneMoreElement
      <3>4. c[k + 1] \in Nat /\ Covering(after.networks) <= Budget /\ Covering(after.networks) <= c[k + 1]
        BY <2>2, <2>4, <2>6, <2>7, <3>2
      <3>5. after.skipped # <<>> => c[k + 1] > Budget
        BY <2>2, <2>4, <2>6, <3>1
      <3>6. Split(k + 1)
        BY <2>3, <2>4, <2>5, <3>1, <3>3, <3>4, <3>5
      <3> HIDE DEF Split
      <3> QED
        BY <2>1, <3>6
    <2>8. CASE ~(Covering(before.networks) + new.addresses <= Budget)
      <3>1. after.networks = before.networks /\ after.skipped = Append(before.skipped, new)
        BY <2>1, <2>2, <2>5, <2>8, PlacedIs
      <3>2. after.skipped # <<>>
        <4>1. \A T : \A s \in Seq(T), e \in T : Append(s, e) # <<>>
          OBVIOUS
        <4>2. Append(before.skipped, new) # <<>>
          BY ONLY <2>1, <2>5, <4>1, Zenon
        <4> QED
          BY ONLY <3>1, <4>2, Zenon
      <3>3. c[k + 1] \in Nat /\ c[k + 1] > Budget /\ Covering(after.networks) <= c[k + 1]
        BY <2>2, <2>4, <2>6, <2>8, <3>1
      <3>4. Split(k + 1)
        BY <2>3, <2>4, <2>5, <3>1, <3>2, <3>3
      <3> HIDE DEF Split
      <3> QED
        BY <2>1, <3>4
    <2> QED
      BY <2>7, <2>8
  <1>6. \A k \in 0..n : k \in S
    <2> HIDE DEF S
    <2> QED
      BY ONLY <1>1, <1>4, <1>5, InductionUpTo
  <1>7. Split(n)
    <2>1. n \in 0..n
      BY <1>1
    <2> HIDE DEF Split
    <2> QED
      BY <1>6, <2>1
  <1> QED
    BY <1>1, <1>2, <1>3, <1>7 DEF IsScopeOf

-----------------------------------------------------------------------------
\* The invariant of a sweep.

\* An answer lists the entries it read, where it looked; and a miss of
\* find_ip_by_mac is answered only where nothing was left out.
SweepAnswerInv ==
  sweepAnswer.kind = "answer" =>
    /\ sweepStep = "done"
    /\ sweepAnswer.addresses = {a \in (IF sweep.scan THEN Covered ELSE Grounds) :
                                  entries[a] \in (IF sweep.op = "find" THEN {"wanted"} ELSE Owners)}
    /\ sweep.op = "find" /\ sweepAnswer.addresses = {} => scope.skipped = <<>>

SweepInv ==
  /\ candidates \in Seq(Networks)
  /\ IsScopeOf(scope, candidates)
  /\ pinged \subseteq Covered /\ (pinged # {} => sweep.scan)
  /\ sweepStep \in {"plan", "probe"} => sweep.scan
  /\ sweepStep \in {"check", "plan"} => pinged = {}
  /\ sweep.scan /\ (sweepStep = "read" \/ sweepAnswer.kind = "answer") => pinged = Covered
  /\ sweepStep # "done" => sweepAnswer.kind = "none"
  /\ SweepAnswerInv

\* No networks make an empty scope.
LEMMA EmptyScopeIs == IsScopeOf(NoScope, <<>>)
  <1>1. NoScope \in Splits /\ NoScope.networks = <<>> /\ NoScope.skipped = <<>>
    BY DEF NoScope, Splits
  <1>2. Covering(<<>>) = 0 /\ 0 <= Budget
    BY CoveringIs, SweepAssumption
  <1> HIDE DEF NoScope
  <1> QED
    BY <1>1, <1>2 DEF IsScopeOf

\* A sweep begins with no scope and no host probed.
LEMMA SweepInitially == SweepInit => SweepInv
  <1> SUFFICES ASSUME SweepInit PROVE SweepInv
    OBVIOUS
  <1>1. candidates = <<>> /\ scope = NoScope /\ pinged = {} /\ sweepStep = "check"
        /\ sweepAnswer.kind = "none"
    BY DEF SweepInit, NoSweepAnswer
  <1>2. IsScopeOf(scope, candidates)
    BY <1>1, EmptyScopeIs
  <1> QED
    BY <1>1, <1>2 DEF SweepInv, SweepAnswerInv

\* A call refused has no answer.
LEMMA RefusedHasNoAnswer == SweepRefused => sweepStep' = "done" /\ sweepAnswer'.kind = "raised"
  BY DEF SweepRefused, SweepEnds

\* A request is refused, or goes on to the plan.
LEMMA CheckSweepKeeps == SweepInv /\ CheckSweep => SweepInv'
  <1> SUFFICES ASSUME SweepInv, CheckSweep PROVE SweepInv'
    OBVIOUS
  <1>1. UNCHANGED <<sweep, candidates, scope, pinged, entries>> /\ Covered' = Covered /\ pinged = {}
    BY DEF CheckSweep, SweepInv, Covered
  <1>2. IsScopeOf(scope, candidates)'
    BY <1>1 DEF SweepInv, IsScopeOf
  <1>3. \/ sweepStep' = "done" /\ sweepAnswer'.kind = "raised"
        \/ /\ sweepStep' = (IF sweep.scan THEN "plan" ELSE "read")
           /\ sweepAnswer' = sweepAnswer /\ sweepAnswer.kind = "none"
    BY RefusedHasNoAnswer DEF CheckSweep, SweepInv
  <1> QED
    BY <1>1, <1>2, <1>3 DEF SweepInv, SweepAnswerInv

\* The plan is a scope of the networks named or of those attached.
LEMMA PlanSweepKeeps == SweepInv /\ PlanSweep => SweepInv'
  <1> SUFFICES ASSUME SweepInv, PlanSweep PROVE SweepInv'
    OBVIOUS
  <1>1. candidates' \in Seq(Networks)
    <2>1. \A n \in Networks : <<n>> \in Seq(Networks)
      OBVIOUS
    <2> QED
      BY <2>1, ListingIs DEF PlanSweep
  <1>2. IsScopeOf(scope', candidates')
    BY <1>1, SplitIs DEF PlanSweep
  <1>3. sweep' = sweep /\ sweep.scan /\ pinged' = {} /\ entries' = entries
    BY DEF PlanSweep, SweepInv
  <1>4. \/ sweepStep' = "done" /\ sweepAnswer'.kind = "raised"
        \/ sweepStep' = "probe" /\ sweepAnswer' = sweepAnswer /\ sweepAnswer.kind = "none"
    BY RefusedHasNoAnswer DEF PlanSweep, SweepInv
  <1>5. IsScopeOf(scope, candidates)'
    BY <1>2 DEF IsScopeOf
  <1> QED
    BY <1>1, <1>3, <1>4, <1>5 DEF SweepInv, SweepAnswerInv

\* A probe goes to a host of the scope.
LEMMA PingHostKeeps ==
  ASSUME NEW a \in Grounds, SweepInv, PingHost(a)
  PROVE  SweepInv'
  <1>1. /\ UNCHANGED <<sweep, sweepStep, candidates, scope, entries, sweepAnswer>>
        /\ sweepStep = "probe" /\ Covered' = Covered
    BY DEF PingHost, Covered
  <1>2. pinged' \subseteq Covered
    BY DEF PingHost, SweepInv
  <1>3. IsScopeOf(scope, candidates)'
    BY <1>1 DEF SweepInv, IsScopeOf
  <1> QED
    BY <1>1, <1>2, <1>3 DEF SweepInv, SweepAnswerInv

\* The cache is read over the whole scope, once everything was probed.
LEMMA ReadEntriesKeeps == SweepInv /\ ReadEntries => SweepInv'
  <1> SUFFICES ASSUME SweepInv, ReadEntries PROVE SweepInv'
    OBVIOUS
  <1>1. /\ UNCHANGED <<sweep, candidates, scope, pinged>> /\ sweepStep = "read"
        /\ entries' = cache /\ Covered' = Covered /\ sweepStep' = "done"
    BY DEF ReadEntries, Covered, Conclusion, SweepRefused, SweepEnds
  <1>2. IsScopeOf(scope, candidates)'
    BY <1>1 DEF SweepInv, IsScopeOf
  <1>3. SweepAnswerInv'
    <2>1. CASE SweepRefused
      BY <2>1, RefusedHasNoAnswer DEF SweepAnswerInv
    <2>2. CASE Conclusion(Holding(IF sweep.op = "find" THEN {"wanted"} ELSE Owners,
                                  IF sweep.scan THEN Covered ELSE Grounds))
      <3> DEFINE shown == Holding(IF sweep.op = "find" THEN {"wanted"} ELSE Owners,
                                  IF sweep.scan THEN Covered ELSE Grounds)
      <3>1. shown = {a \in (IF sweep.scan THEN Covered ELSE Grounds) :
                       entries'[a] \in (IF sweep.op = "find" THEN {"wanted"} ELSE Owners)}
        BY <1>1 DEF Holding
      <3> HIDE DEF shown
      <3>2. \/ sweepAnswer'.kind = "raised"
            \/ /\ sweepAnswer'.addresses = shown
               /\ sweep.op = "find" /\ shown = {} => scope.skipped = <<>>
        BY <2>2, RefusedHasNoAnswer DEF Conclusion, SweepEnds, shown
      <3> QED
        BY <1>1, <3>1, <3>2 DEF SweepAnswerInv
    <2> QED
      BY <2>1, <2>2 DEF ReadEntries
  <1> QED
    BY <1>1, <1>2, <1>3 DEF SweepInv

\* Every step of a sweep keeps the invariant.
LEMMA SweepKept == SweepInv /\ [SweepNext]_sweepVars => SweepInv'
  <1> SUFFICES ASSUME SweepInv, [SweepNext]_sweepVars PROVE SweepInv'
    OBVIOUS
  <1>1. CASE CacheChanges \/ UNCHANGED sweepVars
    <2>1. /\ UNCHANGED <<sweep, sweepStep, candidates, scope, pinged, entries, sweepAnswer>>
          /\ Covered' = Covered
      BY <1>1 DEF CacheChanges, sweepVars, Covered
    <2> QED
      BY <2>1 DEF SweepInv, IsScopeOf, SweepAnswerInv
  <1>2. CASE CheckSweep
    BY <1>2, CheckSweepKeeps
  <1>3. CASE PlanSweep
    BY <1>3, PlanSweepKeeps
  <1>4. CASE \E a \in Grounds : PingHost(a)
    BY <1>4, PingHostKeeps
  <1>5. CASE AllPinged
    <2>1. /\ UNCHANGED <<sweep, candidates, scope, pinged, entries, sweepAnswer>>
          /\ Covered' = Covered /\ pinged = Covered /\ sweepStep' = "read" /\ sweepStep = "probe"
      BY <1>5 DEF AllPinged, Covered
    <2> QED
      BY <2>1 DEF SweepInv, IsScopeOf, SweepAnswerInv
  <1>6. CASE ReadEntries
    BY <1>6, ReadEntriesKeeps
  <1> QED
    BY <1>1, <1>2, <1>3, <1>4, <1>5, <1>6 DEF SweepNext

\* What a scope covers fits the budget.
LEMMA SweepIsBounded == SweepInv => SweepStaysInBudget
  <1> SUFFICES ASSUME SweepInv PROVE SweepStaysInBudget
    OBVIOUS
  <1> DEFINE probed == ToSet(scope.networks)
             size == Cardinality(AddressesOf(probed))
             covering == Covering(scope.networks)
  <1>1. /\ scope.networks \in Seq(Networks) /\ covering <= Budget
        /\ probed \subseteq ToSet(candidates)
        /\ scope.skipped # <<>> => Covering(candidates) > Budget
    BY DEF SweepInv, IsScopeOf, Splits
  <1>2. size \in Nat /\ covering \in Nat /\ size <= covering /\ Budget \in Nat
    BY <1>1, AddressesCovered, CoveringIs, FS_CardinalityType, SweepAssumption
  <1>3. pinged \subseteq UNION {n.hosts : n \in probed} /\ (pinged # {} => sweep.scan)
    BY DEF SweepInv, Covered
  <1> HIDE DEF probed, size, covering
  <1>4. size <= Budget
    BY ONLY <1>1, <1>2
  <1>5. Cardinality(AddressesOf(probed)) <= Budget
    BY <1>4 DEF size
  <1>6. probed \in SUBSET ToSet(candidates)
    BY <1>1
  <1> QED
    BY ONLY <1>1, <1>3, <1>5, <1>6, Zenon DEF SweepStaysInBudget

\* A miss is answered of a whole scope only.
LEMMA MissLookedEverywhere == SweepInv => NotFoundMeansLookedEverywhere
  <1> SUFFICES ASSUME SweepInv, sweepAnswer.kind = "answer", sweep.scan, sweep.op = "find"
               PROVE  /\ sweepAnswer.addresses = {} =>
                           \A n \in ToSet(candidates) : \A a \in n.hosts : a \in pinged /\ entries[a] # "wanted"
                      /\ \A a \in sweepAnswer.addresses : entries[a] = "wanted" /\ a \in pinged
    BY DEF NotFoundMeansLookedEverywhere
  <1>1. pinged = Covered /\ sweepAnswer.addresses = {a \in Covered : entries[a] \in {"wanted"}}
    BY DEF SweepInv, SweepAnswerInv
  <1>2. ASSUME sweepAnswer.addresses = {}, NEW n \in ToSet(candidates), NEW a \in n.hosts
        PROVE  a \in pinged /\ entries[a] # "wanted"
    <2>1. scope.skipped = <<>>
      BY <1>2 DEF SweepInv, SweepAnswerInv
    <2>2. n \in ToSet(scope.networks)
      BY <2>1 DEF SweepInv, IsScopeOf
    <2>3. a \in Covered
      BY <2>2 DEF Covered
    <2> QED
      BY <1>1, <1>2, <2>3
  <1> QED
    BY <1>1, <1>2

\* The invariant of a sweep holds of every run.
THEOREM SweepInvariance == SweepSpec => []SweepInv
  BY SweepInitially, SweepKept, PTL DEF SweepSpec

\* Sweep.SweepStaysInBudget: however many networks a host is attached to, what
\* arp_scan and find_ip_by_mac probe fits MAX_SWEEP_HOSTS.
THEOREM SweepsAreBounded == SweepSpec => []SweepStaysInBudget
  BY SweepInvariance, SweepIsBounded, PTL

\* Sweep.NotFoundMeansLookedEverywhere: find_ip_by_mac answers a miss only after
\* the whole ground was probed.
THEOREM MissesLookedEverywhere == SweepSpec => []NotFoundMeansLookedEverywhere
  BY SweepInvariance, MissLookedEverywhere, PTL

-----------------------------------------------------------------------------
(***************************************************************************)
(* Proofs about PortScan: for any ports, any number of packets and any     *)
(* limit on the connects in flight, a scan reports what the target said    *)
(* first about each port.                                                  *)
(***************************************************************************)

Said == {"open", "closed"}

PortsInv ==
  /\ ports \in [AskedPorts -> Said \cup {"filtered"}]
  /\ met \in [AskedPorts -> Seq(Said)]
  /\ outstanding \subseteq AskedPorts
  /\ inFlight \subseteq outstanding

\* A port is outstanding until the target says something of it, and in a SYN
\* scan no longer than that: a second answer finds the first one recorded.
ScanAnswersInv ==
  /\ \A p \in outstanding : met[p] = <<>>
  /\ scanStep \in {"start", "open", "send", "listen"} =>
       \A p \in AskedPorts \ outstanding : met[p] # <<>>
  /\ \A p \in AskedPorts : ports[p] = FirstSaid(p)

ScanStepInv ==
  /\ scanStep \in {"start", "open", "send", "listen", "connect", "done"}
  /\ scanStep \in {"start", "connect"} => sockets = {}
  /\ inFlight # {} => scanStep = "connect"
  /\ scanAnswer = "states" => scanStep = "done" /\ sockets = {}

ScanInv == PortsInv /\ ScanAnswersInv /\ ScanStepInv

-----------------------------------------------------------------------------
\* One more thing said of a port: it counts if it is the first.
LEMMA AppendKeepsFirst ==
  ASSUME NEW s \in Seq(Said), NEW state \in Said
  PROVE  /\ Append(s, state) \in Seq(Said) /\ Append(s, state) # <<>>
         /\ s = <<>> => Head(Append(s, state)) = state
         /\ s # <<>> => Head(Append(s, state)) = Head(s)
  OBVIOUS

\* A scan begins with every port outstanding and nothing met.
LEMMA ScanInitially == ScanInit => ScanInv
  <1> SUFFICES ASSUME ScanInit PROVE ScanInv
    OBVIOUS
  <1>1. PortsInv
    BY DEF ScanInit, ScanFresh, PortsInv
  <1>2. ScanAnswersInv
    BY DEF ScanInit, ScanFresh, ScanAnswersInv, FirstSaid
  <1>3. ScanStepInv
    BY DEF ScanInit, ScanFresh, ScanStepInv
  <1> QED
    BY <1>1, <1>2, <1>3 DEF ScanInv

\* Steps that change neither the ports nor what is known of them.
LEMMA ScanOtherSteps ==
  ASSUME ScanInv, Start \/ OpenSender \/ SendSyns \/ ListenEnds \/ ConnectedToAll
  PROVE  ScanInv'
  <1>1. UNCHANGED <<ports, met, outstanding, inFlight>>
    BY DEF Start, OpenSender, SendSyns, ListenEnds, ConnectedToAll
  <1>2. PortsInv'
    BY <1>1 DEF ScanInv, PortsInv
  <1>3. ScanAnswersInv'
    <2>1. scanStep' \in {"start", "open", "send", "listen"} =>
            scanStep \in {"start", "open", "send", "listen"}
      BY DEF Start, OpenSender, SendSyns, ListenEnds, ConnectedToAll, ScanEnds
    <2> QED
      BY <1>1, <2>1 DEF ScanInv, ScanAnswersInv, FirstSaid
  <1>4. ScanStepInv'
    <2>1. inFlight' = {}
      BY <1>1 DEF ScanInv, ScanStepInv, PortsInv, Start, OpenSender, SendSyns, ListenEnds, ConnectedToAll
    <2> QED
      BY <2>1 DEF ScanInv, ScanStepInv, Start, OpenSender, SendSyns, ListenEnds, ConnectedToAll, ScanEnds
  <1> QED
    BY <1>2, <1>3, <1>4 DEF ScanInv

\* A packet: one that says something of an outstanding port settles it, one
\* about a settled port finds it answered, any other changes nothing.
LEMMA ReceiveStep ==
  ASSUME ScanInv, Receive
  PROVE  ScanInv'
  <1>1. PICK packet \in Packets :
          /\ Noted(packet)
          /\ IF Says(packet) /\ packet.port \in outstanding
               THEN /\ ports' = [ports EXCEPT ![packet.port] = StateOf(packet)]
                    /\ outstanding' = outstanding \ {packet.port}
               ELSE UNCHANGED <<ports, outstanding>>
    BY DEF Receive
  <1>2. /\ scanStep = "listen" /\ UNCHANGED <<scanStep, sockets, inFlight, scanAnswer>>
        /\ inFlight = {}
    BY DEF Receive, Listening, ScanInv, ScanStepInv
  <1>3. StateOf(packet) \in Said
    BY DEF StateOf, Said
  <1>4. ScanStepInv'
    BY <1>2 DEF ScanInv, ScanStepInv
  <1>5. CASE ~(Says(packet) /\ packet.port \in AskedPorts)
    <2>1. UNCHANGED <<ports, outstanding, met>>
      BY <1>1, <1>5 DEF Noted, ScanInv, PortsInv
    <2> QED
      BY <1>2, <1>4, <2>1 DEF ScanInv, PortsInv, ScanAnswersInv, FirstSaid
  <1>6. CASE Says(packet) /\ packet.port \in AskedPorts
    <2> DEFINE port == packet.port
    <2>1. met' = [met EXCEPT ![port] = Append(@, StateOf(packet))]
      BY <1>1, <1>6 DEF Noted
    <2>2. /\ met' \in [AskedPorts -> Seq(Said)]
          /\ met'[port] # <<>>
          /\ met[port] = <<>> => Head(met'[port]) = StateOf(packet)
          /\ met[port] # <<>> => Head(met'[port]) = Head(met[port])
      BY <1>3, <1>6, <2>1, AppendKeepsFirst DEF ScanInv, PortsInv
    <2>3. \A p \in AskedPorts : p # port => met'[p] = met[p]
      BY <1>6, <2>1 DEF ScanInv, PortsInv
    <2>4. CASE port \in outstanding
      <3>1. /\ ports' = [ports EXCEPT ![port] = StateOf(packet)]
            /\ outstanding' = outstanding \ {port}
        BY <1>1, <1>6, <2>4
      <3>2. PortsInv'
        BY <1>2, <1>3, <2>2, <3>1 DEF ScanInv, PortsInv
      <3>3. met[port] = <<>> /\ ports'[port] = StateOf(packet)
        BY <1>6, <2>4, <3>1 DEF ScanInv, PortsInv, ScanAnswersInv
      <3>4. \A p \in AskedPorts : p # port => ports'[p] = ports[p]
        BY <3>1 DEF ScanInv, PortsInv
      <3>5. ScanAnswersInv'
        BY <1>2, <2>2, <2>3, <3>1, <3>3, <3>4 DEF ScanInv, ScanAnswersInv, PortsInv, FirstSaid
      <3> QED
        BY <1>4, <3>2, <3>5 DEF ScanInv
    <2>5. CASE port \notin outstanding
      <3>1. UNCHANGED <<ports, outstanding>>
        BY <1>1, <2>5
      <3>2. met[port] # <<>>
        BY <1>2, <1>6, <2>5 DEF ScanInv, ScanAnswersInv
      <3>3. PortsInv'
        BY <1>2, <2>2, <3>1 DEF ScanInv, PortsInv
      <3>4. ScanAnswersInv'
        BY <1>2, <2>2, <2>3, <2>5, <3>1, <3>2 DEF ScanInv, ScanAnswersInv, PortsInv, FirstSaid
      <3> QED
        BY <1>4, <3>3, <3>4 DEF ScanInv
    <2> QED
      BY <2>4, <2>5
  <1> QED
    BY <1>5, <1>6

\* A connect begins on a port of which nothing was said.
LEMMA ConnectStep ==
  ASSUME ScanInv, NEW port \in AskedPorts, Connect(port)
  PROVE  ScanInv'
  BY DEF ScanInv, Connect, PortsInv, ScanAnswersInv, ScanStepInv, FirstSaid

\* A connect ends once, and what it met is all that is said of its port.
LEMMA ConnectEndsStep ==
  ASSUME ScanInv, NEW port \in AskedPorts, ConnectEnds(port)
  PROVE  ScanInv'
  <1>1. PICK outcome \in {"open", "closed", "filtered"} :
          /\ ports' = [ports EXCEPT ![port] = outcome]
          /\ met' = IF outcome = "filtered" THEN met ELSE [met EXCEPT ![port] = Append(@, outcome)]
    BY DEF ConnectEnds
  <1>2. /\ scanStep = "connect" /\ UNCHANGED <<scanStep, sockets, scanAnswer>>
        /\ port \in inFlight /\ met[port] = <<>>
        /\ inFlight' = inFlight \ {port} /\ outstanding' = outstanding \ {port}
    BY DEF ConnectEnds, ScanInv, ScanStepInv, PortsInv, ScanAnswersInv
  <1>3. ScanStepInv'
    BY <1>2 DEF ScanInv, ScanStepInv
  <1>4. \A p \in AskedPorts : p # port => met'[p] = met[p] /\ ports'[p] = ports[p]
    BY <1>1 DEF ScanInv, PortsInv
  <1>5. ports'[port] = outcome
    BY <1>1 DEF ScanInv, PortsInv
  <1>6. CASE outcome = "filtered"
    <2>1. met' = met
      BY <1>1, <1>6
    <2>2. PortsInv'
      BY <1>1, <1>2, <2>1 DEF ScanInv, PortsInv
    <2>3. ScanAnswersInv'
      BY <1>2, <1>4, <1>5, <1>6, <2>1 DEF ScanInv, ScanAnswersInv, FirstSaid, PortsInv
    <2> QED
      BY <1>3, <2>2, <2>3 DEF ScanInv
  <1>7. CASE outcome # "filtered"
    <2>1. outcome \in Said
      BY <1>7 DEF Said
    <2>2. met' = [met EXCEPT ![port] = Append(@, outcome)]
      BY <1>1, <1>7
    <2>3. /\ met' \in [AskedPorts -> Seq(Said)]
          /\ met'[port] # <<>> /\ Head(met'[port]) = outcome
      BY <1>2, <2>1, <2>2, AppendKeepsFirst DEF ScanInv, PortsInv
    <2>4. PortsInv'
      BY <1>1, <1>2, <2>1, <2>3 DEF ScanInv, PortsInv
    <2>5. ScanAnswersInv'
      BY <1>2, <1>4, <1>5, <2>3 DEF ScanInv, ScanAnswersInv, FirstSaid, PortsInv
    <2> QED
      BY <1>3, <2>4, <2>5 DEF ScanInv
  <1> QED
    BY <1>6, <1>7

\* Every step of a scan keeps the invariant.
LEMMA ScanKept == ScanInv /\ [ScanNext]_scanVars => ScanInv'
  <1> SUFFICES ASSUME ScanInv, [ScanNext]_scanVars PROVE ScanInv'
    OBVIOUS
  <1>1. CASE Start \/ OpenSender \/ SendSyns \/ ListenEnds \/ ConnectedToAll
    BY <1>1, ScanOtherSteps
  <1>2. CASE Receive
    BY <1>2, ReceiveStep
  <1>3. CASE \E port \in AskedPorts : Connect(port) \/ ConnectEnds(port)
    BY <1>3, ConnectStep, ConnectEndsStep
  <1>4. CASE UNCHANGED scanVars
    BY <1>4 DEF scanVars, ScanInv, PortsInv, ScanAnswersInv, ScanStepInv, FirstSaid
  <1> QED
    BY <1>1, <1>2, <1>3, <1>4 DEF ScanNext

\* The inductive invariant holds in every reachable state.
THEOREM ScanInvariance == ScanSpec => []ScanInv
  BY ScanInitially, ScanKept, PTL DEF ScanSpec

\* A scan reports what the target said first about each port, FILTERED for
\* those it said nothing of, and leaves no socket or connect behind
\* (_syn_exchange, _connect_scan).
THEOREM FirstAnswersAreKept == ScanSpec => []ScanKeepsFirstAnswers
  <1>1. ScanInv => ScanKeepsFirstAnswers
    BY DEF ScanInv, ScanAnswersInv, ScanStepInv, ScanKeepsFirstAnswers
  <1> QED
    BY <1>1, ScanInvariance, PTL

-----------------------------------------------------------------------------
(***************************************************************************)
(* Proofs about StaticNeighbour: on any number of interfaces, with any     *)
(* table and however often others change it between two messages, what     *)
(* set_neighbour and remove_neighbour answer is true.                      *)
(***************************************************************************)

AskedLinks == IF write.interface = "any" THEN Links ELSE {write.interface}

WriteTypeInv ==
  /\ write \in Writes
  /\ rows \in [Links -> Rows]
  /\ toDelete \subseteq Links
  /\ removed \in BOOLEAN /\ short \in BOOLEAN /\ held \in BOOLEAN
  /\ deletions \in Nat
  /\ writeStep # "done" => writeAnswer = "none"

\* An interface without an entry now has been seen without one.
BareInv == Links \ Listed(rows) \subseteq bare

\* The interface a message is about is one of this host's, and for a write the
\* one asked for.
AimInv ==
  /\ writeStep \in {"create", "look", "displace", "again", "confirm"} =>
       write.op = "set" /\ aim \in Links /\ write.interface \in {"any", aim}
  /\ writeStep = "deleteByAddress" => aim \in Links
  /\ writeStep = "list" => write.interface = "any"

\* What has been done so far is what will be answered: an entry that stands while
\* it is confirmed is remembered, removed counts the deletions, and an interface
\* is left behind only once it has been seen without an entry.
WriteDoneInv ==
  /\ writeStep = "confirm" /\ rows[aim] = NewMac => held
  /\ writeStep \in {"validate", "list"} => deletions = 0 /\ ~removed
  /\ writeStep \in {"delete", "deleteByAddress"} =>
       /\ removed <=> deletions > 0
       /\ short \/ AskedLinks \ toDelete \subseteq bare

WriteInv == WriteTypeInv /\ BareInv /\ AimInv /\ WriteDoneInv /\ SetMeansHeld /\ RemovalIsTruthful

-----------------------------------------------------------------------------
\* A change of the table: what was seen stays seen, and what it leaves without
\* an entry is seen.
LEMMA RowsChange ==
  ASSUME WriteTypeInv, BareInv, NEW table \in [Links -> Rows], NEW own \in BOOLEAN, Becomes(table, own)
  PROVE  /\ rows' = table /\ rows' \in [Links -> Rows]
         /\ held' \in BOOLEAN /\ (held => held')
         /\ (own \/ writeStep = "confirm") /\ table[aim] = NewMac => held'
         /\ bare \subseteq bare' /\ BareInv'
         /\ \A link \in Links : table[link] = "none" => link \in bare'
  <1>1. rows' = table /\ bare' = bare \cup (Links \ Listed(table))
    BY DEF Becomes
  <1>2. BareInv'
    BY <1>1 DEF BareInv, Listed
  <1>3. \A link \in Links : table[link] = "none" => link \notin Listed(table)
    BY StationAssumption DEF Listed
  <1> QED
    BY <1>1, <1>2, <1>3 DEF Becomes, WriteTypeInv

\* The tables a message may leave are tables.
LEMMA TablesStay ==
  ASSUME WriteTypeInv, NEW link \in Links, NEW row \in Rows
  PROVE  /\ [rows EXCEPT ![link] = row] \in [Links -> Rows]
         /\ [rows EXCEPT ![link] = row][link] = row
  BY DEF WriteTypeInv

\* What an entry of the table may be.
LEMMA RowValues == NewMac \in Rows /\ "none" \in Rows
  BY StationAssumption DEF Rows

\* A table without entries is a table.
LEMMA EmptyTable == [l \in Links |-> "none"] \in [Links -> Rows]
  BY RowValues

\* A dump lists entries there are, all of them unless it is cut short.
LEMMA DumpTells ==
  ASSUME WriteTypeInv, BareInv, NEW dumped, Dump(dumped)
  PROVE  /\ dumped \subseteq Links /\ short' \in BOOLEAN /\ (short => short')
         /\ short' \/ Links \ dumped \subseteq bare
  BY DEF Dump, WriteTypeInv, BareInv, Listed

-----------------------------------------------------------------------------
\* A write begins with what the table holds and nothing deleted.
LEMMA WriteInitially == WriteInit => WriteInv
  <1> SUFFICES ASSUME WriteInit PROVE WriteInv
    OBVIOUS
  <1>1. /\ rows \in [Links -> Rows] /\ write \in Writes /\ writeStep = "validate"
        /\ toDelete = {} /\ removed = FALSE /\ deletions = 0 /\ short = FALSE
        /\ bare = Links \ Listed(rows) /\ held = FALSE /\ writeAnswer = "none"
    BY DEF WriteInit, WriteFresh, Tables
  <1> QED
    BY <1>1 DEF WriteInv, WriteTypeInv, BareInv, AimInv, WriteDoneInv, SetMeansHeld, RemovalIsTruthful

\* Others change the table between any two messages.
LEMMA OtherWritesStep == WriteInv /\ OtherWrites => WriteInv'
  <1> SUFFICES ASSUME WriteInv, OtherWrites PROVE WriteInv'
    OBVIOUS
  <1>1. PICK table \in [Links -> Rows] : Becomes(table, FALSE)
    BY DEF OtherWrites, WriteInv, WriteTypeInv, Rows
  <1>2. /\ rows' \in [Links -> Rows] /\ held' \in BOOLEAN /\ (held => held')
        /\ writeStep = "confirm" /\ rows'[aim] = NewMac => held'
        /\ bare \subseteq bare' /\ BareInv'
    BY <1>1, RowsChange DEF WriteInv
  <1>3. UNCHANGED <<write, writeStep, aim, toDelete, removed, deletions, short, writeAnswer>>
    BY DEF OtherWrites
  <1> QED
    BY <1>2, <1>3 DEF WriteInv, WriteTypeInv, AimInv, WriteDoneInv, SetMeansHeld, RemovalIsTruthful, AskedLinks

\* The interface is found and the call set on its way, or refused.
LEMMA ValidateStep == WriteInv /\ Validate => WriteInv'
  <1> SUFFICES ASSUME WriteInv, Validate PROVE WriteInv'
    OBVIOUS
  <1>1. /\ writeStep = "validate" /\ UNCHANGED <<rows, bare, held, write, removed, deletions, short>>
        /\ deletions = 0 /\ ~removed /\ writeAnswer = "none"
    BY DEF Validate, Keep, WriteInv, WriteDoneInv, WriteTypeInv
  <1>2. write.interface \in Links \cup {"any"} /\ "any" \notin Links
    BY LinksAssumption DEF WriteInv, WriteTypeInv, Writes
  <1>3. toDelete' \subseteq Links
    BY <1>2 DEF Validate
  <1>4. BareInv'
    BY <1>1 DEF WriteInv, BareInv, Listed
  <1>5. CASE Answer("raised")
    BY <1>1, <1>3, <1>4, <1>5 DEF WriteInv, WriteTypeInv, AimInv, WriteDoneInv, SetMeansHeld, RemovalIsTruthful, Answer
  <1>6. CASE write.valid /\ write.op = "remove"
    <2>1. /\ UNCHANGED writeAnswer
          /\ writeStep' = (IF write.interface = "any" THEN "list" ELSE "delete")
          /\ toDelete' = (IF write.interface # "any" THEN {write.interface} ELSE {})
      BY <1>6 DEF Validate, GoOn
    <2>2. WriteTypeInv'
      BY <1>1, <1>3, <2>1 DEF WriteInv, WriteTypeInv
    <2>3. AimInv'
      BY <1>1, <2>1 DEF AimInv
    <2>4. WriteDoneInv'
      BY <1>1, <2>1 DEF WriteDoneInv, AskedLinks
    <2>5. SetMeansHeld' /\ RemovalIsTruthful'
      BY <1>1, <2>1 DEF SetMeansHeld, RemovalIsTruthful
    <2> QED
      BY <1>4, <2>2, <2>3, <2>4, <2>5 DEF WriteInv
  <1>7. CASE write.valid /\ write.op # "remove" /\ ~Answer("raised")
    <2>1. PICK holding \in (IF write.interface = "any" THEN SUBSET Links ELSE {{write.interface}}) :
            /\ aim' \in holding
            /\ GoOn(IF write.platform = "macos" THEN "look" ELSE "create")
      BY <1>7 DEF Validate
    <2>2. aim' \in Links /\ write.op = "set" /\ write.interface \in {"any", aim'}
      BY <1>2, <1>7, <2>1 DEF WriteInv, WriteTypeInv, Writes
    <2>3. writeStep' \in {"look", "create"} /\ UNCHANGED writeAnswer
      BY <2>1 DEF GoOn
    <2> QED
      BY <1>1, <1>3, <1>4, <2>2, <2>3 DEF WriteInv, WriteTypeInv, AimInv, WriteDoneInv, SetMeansHeld, RemovalIsTruthful
  <1> QED
    BY <1>5, <1>6, <1>7 DEF Validate

\* Steps that end the call with an error.
LEMMA RaisedStep ==
  ASSUME WriteInv, KernelRefuses \/ Unacknowledged
  PROVE  WriteInv'
  <1>1. /\ writeStep' = "done" /\ writeAnswer' = "raised"
        /\ UNCHANGED <<write, aim, toDelete, removed, deletions, short>>
    BY DEF KernelRefuses, Unacknowledged, Answer
  <1>2. rows' \in [Links -> Rows] /\ held' \in BOOLEAN /\ BareInv'
    <2>1. CASE KernelRefuses
      BY <2>1 DEF KernelRefuses, Keep, WriteInv, WriteTypeInv, BareInv, Listed
    <2>2. CASE Unacknowledged
      <3>1. PICK link \in Links, row \in Rows, done \in BOOLEAN :
              Becomes(IF done THEN [rows EXCEPT ![link] = row] ELSE rows, FALSE)
        BY <2>2, RowValues DEF Unacknowledged, WriteInv, WriteTypeInv, AimInv
      <3>2. (IF done THEN [rows EXCEPT ![link] = row] ELSE rows) \in [Links -> Rows]
        BY TablesStay DEF WriteInv, WriteTypeInv
      <3> QED
        BY <3>1, <3>2, RowsChange DEF WriteInv
    <2> QED
      BY <2>1, <2>2
  <1> QED
    BY <1>1, <1>2 DEF WriteInv, WriteTypeInv, AimInv, WriteDoneInv, SetMeansHeld, RemovalIsTruthful

\* The entry is acknowledged, and remembered if the table has it; or one is in the
\* way.
LEMMA EntryWrittenStep ==
  ASSUME WriteInv, Replace \/ Create
  PROVE  WriteInv'
  <1>1. /\ aim \in Links /\ writeStep \in {"create", "again"} /\ writeAnswer = "none"
        /\ UNCHANGED <<write, aim, toDelete, removed, deletions, short>>
    BY DEF Replace, Create, WriteInv, AimInv, WriteTypeInv
  <1>2. CASE Accepted
    <2>0. PICK table \in [Links -> Rows] : Becomes(table, TRUE)
      BY <1>1, <1>2, TablesStay, RowValues DEF Accepted, WriteInv, WriteTypeInv
    <2>1. /\ rows' \in [Links -> Rows] /\ held' \in BOOLEAN /\ BareInv'
          /\ rows'[aim] = NewMac => held'
          /\ GoOn("confirm")
      BY <1>2, <2>0, RowsChange DEF Accepted, WriteInv
    <2> QED
      BY <1>1, <1>2, <2>1 DEF WriteInv, WriteTypeInv, AimInv, WriteDoneInv, SetMeansHeld, RemovalIsTruthful, GoOn
  <1>3. CASE Keep /\ (GoOn("displace") \/ Answer("raised"))
    <2>1. BareInv'
      BY <1>3 DEF WriteInv, BareInv, Listed, Keep
    <2> QED
      BY <1>1, <1>3, <2>1 DEF WriteInv, WriteTypeInv, AimInv, WriteDoneInv, SetMeansHeld, RemovalIsTruthful, Keep, GoOn, Answer
  <1> QED
    BY <1>2, <1>3 DEF Replace, Create

\* The entry in the way is deleted, and the write tried again.
LEMMA DisplaceStep == WriteInv /\ Displace => WriteInv'
  <1> SUFFICES ASSUME WriteInv, Displace PROVE WriteInv'
    OBVIOUS
  <1>1. /\ write.op = "set" /\ aim \in Links /\ write.interface \in {"any", aim}
        /\ writeStep' = "again" /\ writeAnswer' = "none"
        /\ UNCHANGED <<write, aim, toDelete, removed, short>> /\ deletions' \in Nat
    BY DEF Displace, WriteInv, AimInv, WriteTypeInv, GoOn
  <1>2. PICK table \in [Links -> Rows] : Becomes(table, FALSE)
    BY <1>1, TablesStay, RowValues, EmptyTable DEF Displace, WriteInv
  <1>3. /\ rows' \in [Links -> Rows] /\ held' \in BOOLEAN /\ BareInv'
    BY <1>2, RowsChange DEF WriteInv
  <1> QED
    BY <1>1, <1>3 DEF WriteInv, WriteTypeInv, AimInv, WriteDoneInv, SetMeansHeld, RemovalIsTruthful

\* The dump before a write, and the one that confirms it.
LEMMA LookForEntryStep ==
  ASSUME WriteInv, Look \/ Confirm
  PROVE  WriteInv'
  <1>1. PICK dumped : Dump(dumped)
    BY DEF Look, Confirm
  <1>2. short' \in BOOLEAN
    BY <1>1, DumpTells DEF WriteInv
  <1>3. /\ UNCHANGED <<rows, bare, held, write, aim, toDelete, removed, deletions>> /\ BareInv'
    BY DEF Look, Confirm, Keep, WriteInv, BareInv, Listed
  <1>4. CASE Look
    <2>1. /\ write.op = "set" /\ aim \in Links /\ write.interface \in {"any", aim}
          /\ writeStep' \in {"displace", "again"} /\ writeAnswer' = "none"
      BY <1>4 DEF Look, GoOn, WriteInv, AimInv, WriteTypeInv
    <2> QED
      BY <1>2, <1>3, <2>1 DEF WriteInv, WriteTypeInv, AimInv, WriteDoneInv, SetMeansHeld, RemovalIsTruthful
  <1>5. CASE Confirm
    <2>1. /\ writeStep' = "done" /\ writeAnswer' \in {"set", "raised"}
          /\ writeAnswer' = "set" => held
          /\ write.op = "set" /\ aim \in Links /\ write.interface \in {"any", aim}
      BY <1>5 DEF Confirm, Confirmed, Answer, WriteInv, WriteDoneInv, AimInv
    <2> QED
      BY <1>2, <1>3, <2>1 DEF WriteInv, WriteTypeInv, AimInv, WriteDoneInv, SetMeansHeld, RemovalIsTruthful
  <1> QED
    BY <1>4, <1>5

-----------------------------------------------------------------------------
\* The dump before a removal tells which links to delete on.
LEMMA ListStep == WriteInv /\ List => WriteInv'
  <1> SUFFICES ASSUME WriteInv, List PROVE WriteInv'
    OBVIOUS
  <1>1. PICK dumped : Dump(dumped) /\ toDelete' = dumped
    BY DEF List
  <1>2. /\ dumped \subseteq Links /\ short' \in BOOLEAN
        /\ short' \/ Links \ dumped \subseteq bare
    BY <1>1, DumpTells DEF WriteInv
  <1>3. /\ UNCHANGED <<rows, bare, held, write, aim, removed, deletions>> /\ BareInv'
    BY DEF List, Keep, WriteInv, BareInv, Listed
  <1>4. /\ writeStep' = "delete" /\ writeAnswer' = "none"
        /\ write.interface = "any" /\ deletions = 0 /\ ~removed
    BY DEF List, GoOn, WriteInv, WriteTypeInv, AimInv, WriteDoneInv
  <1>5. WriteDoneInv'
    BY <1>1, <1>2, <1>3, <1>4 DEF WriteDoneInv, AskedLinks
  <1> QED
    BY <1>1, <1>2, <1>3, <1>4, <1>5 DEF WriteInv, WriteTypeInv, AimInv, SetMeansHeld, RemovalIsTruthful

\* A deletion on one link is counted, or the link had no entry.
LEMMA DeleteOnStep ==
  ASSUME WriteInv, NEW link \in Links, DeleteOn(link)
  PROVE  WriteInv'
  <1>1. Becomes([rows EXCEPT ![link] = "none"], FALSE)
    BY DEF DeleteOn
  <1>2. /\ rows' \in [Links -> Rows] /\ held' \in BOOLEAN /\ BareInv'
        /\ bare \subseteq bare' /\ link \in bare'
    BY <1>1, RowsChange, TablesStay, RowValues DEF WriteInv
  <1>3. /\ writeStep = "delete" /\ writeAnswer = "none"
        /\ UNCHANGED <<write, writeStep, aim, short, writeAnswer>>
        /\ toDelete' = toDelete \ {link}
    BY DEF DeleteOn, WriteInv, WriteTypeInv
  <1>4. /\ deletions' \in Nat /\ removed' \in BOOLEAN
        /\ removed' <=> deletions' > 0
    <2>1. HasEntry(link) \in BOOLEAN
      BY DEF HasEntry
    <2>2. removed <=> deletions > 0
      BY <1>3 DEF WriteInv, WriteDoneInv
    <2> QED
      BY <2>1, <2>2 DEF DeleteOn, Reported, WriteInv, WriteTypeInv
  <1>5. short \/ AskedLinks \ toDelete' \subseteq bare'
    BY <1>2, <1>3 DEF WriteInv, WriteDoneInv
  <1>6. WriteDoneInv'
    BY <1>3, <1>4, <1>5 DEF WriteDoneInv, AskedLinks
  <1> QED
    BY <1>2, <1>3, <1>4, <1>6 DEF WriteInv, WriteTypeInv, AimInv, SetMeansHeld, RemovalIsTruthful

\* A link is looked at: it has an entry, or was bare at that moment.
LEMMA LookOnStep ==
  ASSUME WriteInv, NEW link \in Links, LookOn(link)
  PROVE  WriteInv'
  <1>1. PICK dumped :
          /\ Dump(dumped)
          /\ IF link \in dumped
               THEN GoOn("deleteByAddress") /\ UNCHANGED <<toDelete, removed>>
               ELSE toDelete' = toDelete \ {link} /\ Reported(FALSE) /\ UNCHANGED <<writeStep, writeAnswer>>
    BY DEF LookOn
  <1>2. /\ short' \in BOOLEAN /\ (short => short')
        /\ short' \/ Links \ dumped \subseteq bare
    BY <1>1, DumpTells DEF WriteInv
  <1>3. /\ UNCHANGED <<rows, bare, held, write, deletions>> /\ aim' = link /\ BareInv'
        /\ writeStep = "delete" /\ writeAnswer = "none"
    BY DEF LookOn, Keep, WriteInv, BareInv, Listed, WriteTypeInv
  <1>4. /\ writeStep' \in {"delete", "deleteByAddress"} /\ writeAnswer' = "none"
        /\ toDelete' \subseteq Links /\ removed' \in BOOLEAN /\ removed' = removed
    BY <1>1, <1>3 DEF GoOn, Reported, WriteInv, WriteTypeInv
  <1>5. short' \/ AskedLinks \ toDelete' \subseteq bare
    BY <1>1, <1>2, <1>3 DEF WriteInv, WriteDoneInv
  <1>6. WriteDoneInv'
    BY <1>3, <1>4, <1>5 DEF WriteDoneInv, AskedLinks, WriteInv
  <1> QED
    BY <1>2, <1>3, <1>4, <1>6 DEF WriteInv, WriteTypeInv, AimInv, SetMeansHeld, RemovalIsTruthful

\* A deletion by address takes the entry whatever link it is on, and counts it.
LEMMA DeleteByAddressStep == WriteInv /\ DeleteByAddress => WriteInv'
  <1> SUFFICES ASSUME WriteInv, DeleteByAddress PROVE WriteInv'
    OBVIOUS
  <1>1. Becomes([l \in Links |-> "none"], FALSE)
    BY DEF DeleteByAddress
  <1>2. /\ rows' \in [Links -> Rows] /\ held' \in BOOLEAN /\ BareInv'
        /\ bare \subseteq bare' /\ Links \subseteq bare'
    BY <1>1, RowsChange, EmptyTable DEF WriteInv
  <1>3. /\ writeStep' = "delete" /\ writeAnswer' = "none" /\ aim \in Links
        /\ UNCHANGED <<write, aim, short>> /\ toDelete' = toDelete \ {aim}
    BY DEF DeleteByAddress, GoOn, WriteInv, WriteTypeInv, AimInv
  <1>4. /\ deletions' \in Nat /\ removed' \in BOOLEAN
        /\ removed' <=> deletions' > 0
    <2>1. InTheWay \in BOOLEAN
      BY DEF InTheWay
    <2>2. removed <=> deletions > 0
      BY DEF DeleteByAddress, WriteInv, WriteDoneInv
    <2> QED
      BY <2>1, <2>2 DEF DeleteByAddress, Reported, WriteInv, WriteTypeInv
  <1>5. short \/ AskedLinks \ toDelete' \subseteq bare'
    BY <1>2, <1>3 DEF WriteInv, WriteDoneInv, DeleteByAddress
  <1>6. WriteDoneInv'
    BY <1>3, <1>4, <1>5 DEF WriteDoneInv, AskedLinks
  <1> QED
    BY <1>2, <1>3, <1>4, <1>6 DEF WriteInv, WriteTypeInv, AimInv, SetMeansHeld, RemovalIsTruthful

\* A removal ends with whether anything was deleted.
LEMMA RemovedStep == WriteInv /\ Removed => WriteInv'
  <1> SUFFICES ASSUME WriteInv, Removed PROVE WriteInv'
    OBVIOUS
  <1>1. /\ UNCHANGED <<rows, bare, held, write, aim, toDelete, removed, deletions, short>> /\ BareInv'
        /\ writeStep' = "done" /\ writeAnswer' = IF removed THEN "removed" ELSE "nothing"
    BY DEF Removed, Keep, Answer, WriteInv, BareInv, Listed
  <1>2. /\ removed <=> deletions > 0
        /\ short \/ AskedLinks \subseteq bare
    BY DEF Removed, WriteInv, WriteDoneInv
  <1>3. SetMeansHeld' /\ RemovalIsTruthful'
    BY <1>1, <1>2 DEF SetMeansHeld, RemovalIsTruthful, AskedLinks, WriteInv, WriteTypeInv
  <1> QED
    BY <1>1, <1>3 DEF WriteInv, WriteTypeInv, AimInv, WriteDoneInv

\* Every step of a write keeps the invariant.
LEMMA WriteKept == WriteInv /\ [WriteNext]_writeVars => WriteInv'
  <1> SUFFICES ASSUME WriteInv, [WriteNext]_writeVars PROVE WriteInv'
    OBVIOUS
  <1>1. CASE OtherWrites \/ Validate \/ KernelRefuses \/ Unacknowledged
    BY <1>1, OtherWritesStep, ValidateStep, RaisedStep
  <1>2. CASE Replace \/ Create \/ Look \/ Displace \/ Confirm
    BY <1>2, EntryWrittenStep, LookForEntryStep, DisplaceStep
  <1>3. CASE List \/ (\E link \in Links : DeleteOn(link) \/ LookOn(link)) \/ DeleteByAddress \/ Removed
    BY <1>3, ListStep, DeleteOnStep, LookOnStep, DeleteByAddressStep, RemovedStep
  <1>4. CASE UNCHANGED writeVars
    BY <1>4 DEF writeVars, WriteInv, WriteTypeInv, BareInv, AimInv, WriteDoneInv, SetMeansHeld, RemovalIsTruthful, AskedLinks, Listed
  <1> QED
    BY <1>1, <1>2, <1>3, <1>4 DEF WriteNext

\* The inductive invariant holds in every reachable state.
THEOREM WriteInvariance == WriteSpec => []WriteInv
  BY WriteInitially, WriteKept, PTL DEF WriteSpec

\* What set_neighbour returns was held by the kernel after it acknowledged it, on
\* the interface asked for, on any number of interfaces and whatever others write
\* meanwhile or the kernel drops (_confirmed).
THEOREM EntriesSetWereHeld == WriteSpec => []SetMeansHeld
  BY WriteInvariance, PTL DEF WriteInv

\* What remove_neighbour answers of the kernel's table is true on any number of
\* interfaces and whatever others write meanwhile
\* (removed = _delete(...) or removed).
THEOREM RemovalsAreTruthful == WriteSpec => []RemovalIsTruthful
  BY WriteInvariance, PTL DEF WriteInv

-----------------------------------------------------------------------------
(***************************************************************************)
(* Proofs about PathMtu: between any two sizes and over a path that        *)
(* changes however often, the bisection asks no size twice and answers     *)
(* where what it was told says the path ends.                              *)
(***************************************************************************)

AskedSize == [size : Nat, fits : BOOLEAN]
Tried(size, fitting) == \E i \in DOMAIN tried : tried[i] = [size |-> size, fits |-> fitting]

MtuTypeInv ==
  /\ mtu \in MtuCalls
  /\ limit \in Nat /\ limits \subseteq Nat /\ limit \in limits
  /\ low \in Nat /\ high \in Nat
  /\ tried \in Seq(AskedSize)
  /\ mtuStep # "done" => mtuAnswer.kind # "size"
  /\ mtuStep \in {"floor", "search"} => mtu.platform # "linux"

\* Nothing is asked before the search; then its bounds close in on each other.
BoundsInv ==
  /\ mtuStep \in {"start", "floor"} => tried = <<>> /\ low = Smallest /\ high = Largest
  /\ low <= high /\ high <= Largest
  /\ mtuStep = "search" =>
       Tried(low, TRUE) /\ (high = Largest \/ Tried(high + 1, FALSE))

\* While the search goes on every size asked lies outside its bounds, on the side
\* its judgement says, so that the next one, between them, is new.
SidesInv ==
  /\ mtuStep = "search" =>
       \A i \in DOMAIN tried :
         IF tried[i].fits THEN tried[i].size <= low ELSE tried[i].size > high
  /\ \A i, j \in DOMAIN tried : tried[i].size = tried[j].size => i = j

\* What a judgement tells of the path, in the direction the platform does not err.
JudgedInv ==
  \A i \in DOMAIN tried :
    /\ mtu.platform = "bsd" /\ tried[i].fits => \E l \in limits : tried[i].size <= l
    /\ mtu.platform = "windows" /\ ~tried[i].fits => \E l \in limits : l < tried[i].size

MtuInv == MtuTypeInv /\ BoundsInv /\ SidesInv /\ JudgedInv /\ MtuIsWhereThePathEnds

-----------------------------------------------------------------------------
\* The middle of two sizes lies above the lower one and not above the higher.
LEMMA MiddleIsBetween ==
  ASSUME low \in Nat, high \in Nat, low < high
  PROVE  Middle \in Nat /\ low < Middle /\ Middle <= high
  BY DEF Middle

\* Asking one more size leaves those asked before as they were.
LEMMA OneMore ==
  ASSUME tried \in Seq(AskedSize), NEW size \in Nat, NEW fitting \in BOOLEAN,
         tried' = Append(tried, [size |-> size, fits |-> fitting])
  PROVE  /\ tried' \in Seq(AskedSize)
         /\ DOMAIN tried' = DOMAIN tried \cup {Len(tried) + 1}
         /\ Len(tried) + 1 \notin DOMAIN tried
         /\ \A i \in DOMAIN tried : tried'[i] = tried[i]
         /\ tried'[Len(tried) + 1] = [size |-> size, fits |-> fitting]
  BY DEF AskedSize

\* A judgement is made of the limit the path has at that moment.
LEMMA TryJudges ==
  ASSUME MtuTypeInv, JudgedInv, NEW size \in Nat, NEW fitting \in BOOLEAN,
         Try(size, fitting), UNCHANGED <<mtu, limit, limits>>
  PROVE  JudgedInv'
  <1>1. tried' = Append(tried, [size |-> size, fits |-> fitting])
    BY DEF Try
  <1>2. /\ DOMAIN tried' = DOMAIN tried \cup {Len(tried) + 1}
        /\ \A i \in DOMAIN tried : tried'[i] = tried[i]
        /\ tried'[Len(tried) + 1] = [size |-> size, fits |-> fitting]
    BY <1>1, OneMore DEF MtuTypeInv
  <1>3. /\ mtu.platform = "bsd" /\ fitting => size <= limit
        /\ mtu.platform = "windows" /\ ~fitting => limit < size
    BY DEF Try, Fits, MtuTypeInv
  <1>4. limit \in limits
    BY DEF MtuTypeInv
  <1> QED
    BY <1>2, <1>3, <1>4 DEF JudgedInv

\* A new size, on the side of the bounds its judgement puts it.
LEMMA TryKeepsSides ==
  ASSUME MtuTypeInv, SidesInv, NEW size \in Nat, NEW fitting \in BOOLEAN,
         tried' = Append(tried, [size |-> size, fits |-> fitting]),
         mtuStep' = "search" => mtuStep = "search" \/ tried = <<>>,
         low' \in Nat, high' \in Nat, low <= low', high' <= high,
         \A i \in DOMAIN tried : tried[i].size # size,
         mtuStep' = "search" => IF fitting THEN size <= low' ELSE size > high'
  PROVE  SidesInv'
  <1>1. /\ DOMAIN tried' = DOMAIN tried \cup {Len(tried) + 1}
        /\ Len(tried) + 1 \notin DOMAIN tried
        /\ \A i \in DOMAIN tried : tried'[i] = tried[i]
        /\ tried'[Len(tried) + 1] = [size |-> size, fits |-> fitting]
    BY OneMore DEF MtuTypeInv
  <1>2. \A i \in DOMAIN tried : tried[i] \in AskedSize
    BY DEF MtuTypeInv
  <1>3. mtuStep' = "search" =>
          \A i \in DOMAIN tried :
            IF tried[i].fits THEN tried[i].size <= low' ELSE tried[i].size > high'
    BY <1>2 DEF SidesInv, MtuTypeInv, AskedSize
  <1> QED
    BY <1>1, <1>3 DEF SidesInv

-----------------------------------------------------------------------------
\* A search begins with no size asked.
LEMMA MtuInitially == MtuInit => MtuInv
  <1> SUFFICES ASSUME MtuInit PROVE MtuInv
    OBVIOUS
  <1>1. MtuTypeInv
    BY MtuAssumption DEF MtuInit, MtuFresh, MtuTypeInv, Limits, NoSize, AskedSize
  <1>2. BoundsInv
    BY MtuAssumption DEF MtuInit, MtuFresh, BoundsInv
  <1>3. SidesInv /\ JudgedInv
    BY DEF MtuInit, MtuFresh, SidesInv, JudgedInv
  <1>4. MtuIsWhereThePathEnds
    BY DEF MtuInit, MtuFresh, MtuIsWhereThePathEnds, NoSize
  <1> QED
    BY <1>1, <1>2, <1>3, <1>4 DEF MtuInv

\* The path changes: what was true of some limit it had still is.
LEMMA PathChangesStep == MtuInv /\ PathChanges => MtuInv'
  <1> SUFFICES ASSUME MtuInv, PathChanges PROVE MtuInv'
    OBVIOUS
  <1>1. /\ limit' \in Nat /\ limits' = limits \cup {limit'}
        /\ UNCHANGED <<mtu, mtuStep, low, high, tried, mtuAnswer>>
        /\ mtuAnswer.kind # "size"
    BY MtuAssumption DEF PathChanges, Limits, MtuInv, MtuTypeInv
  <1>2. MtuTypeInv'
    BY <1>1 DEF MtuInv, MtuTypeInv
  <1>3. BoundsInv' /\ SidesInv'
    BY <1>1 DEF MtuInv, BoundsInv, SidesInv, Tried
  <1>4. JudgedInv'
    BY <1>1 DEF MtuInv, JudgedInv
  <1>5. MtuIsWhereThePathEnds'
    BY <1>1, <1>3 DEF MtuIsWhereThePathEnds, SidesInv
  <1> QED
    BY <1>2, <1>3, <1>4, <1>5 DEF MtuInv

\* The steps before the search: nothing has been asked.
LEMMA MtuStartStep ==
  ASSUME MtuInv, MtuRefused \/ AskKernel \/ CannotProbe \/ StartProbing
  PROVE  MtuInv'
  <1>1. /\ UNCHANGED <<mtu, limit, limits, low, high, tried>>
        /\ mtuStep = "start" /\ tried = <<>> /\ low = Smallest /\ high = Largest
    BY DEF MtuRefused, AskKernel, CannotProbe, StartProbing, MtuInv, BoundsInv
  <1>2. /\ mtuStep' \in {"done", "floor"}
        /\ mtuStep' = "floor" => mtu.platform # "linux" /\ mtuAnswer'.kind # "size"
        /\ mtuAnswer'.kind = "size" => mtu.platform = "linux" /\ mtuAnswer'.size = limit
    BY DEF MtuRefused, AskKernel, CannotProbe, StartProbing, MtuEnds, NoSize, Unavailable, Size, MtuInv, MtuTypeInv
  <1>3. MtuTypeInv'
    BY <1>1, <1>2 DEF MtuInv, MtuTypeInv
  <1>4. BoundsInv' /\ SidesInv' /\ JudgedInv'
    BY <1>1, <1>2 DEF MtuInv, BoundsInv, SidesInv, JudgedInv
  <1>5. MtuIsWhereThePathEnds'
    BY <1>1, <1>2 DEF MtuInv, MtuTypeInv, MtuIsWhereThePathEnds
  <1> QED
    BY <1>3, <1>4, <1>5 DEF MtuInv

\* The smallest size: the search goes on above it, or there is no answer.
LEMMA TryFloorStep == MtuInv /\ TryFloor => MtuInv'
  <1> SUFFICES ASSUME MtuInv, TryFloor PROVE MtuInv'
    OBVIOUS
  <1>1. PICK fitting \in BOOLEAN :
          /\ Try(low, fitting)
          /\ IF fitting THEN mtuStep' = "search" /\ UNCHANGED mtuAnswer ELSE MtuEnds(Unavailable)
    BY DEF TryFloor
  <1>2. /\ UNCHANGED <<mtu, limit, limits, low, high>> /\ mtuStep = "floor"
        /\ tried = <<>> /\ low = Smallest /\ high = Largest /\ low \in Nat /\ low <= high
        /\ mtu.platform # "linux" /\ mtuAnswer.kind # "size"
        /\ tried' = Append(tried, [size |-> low, fits |-> fitting])
    BY <1>1 DEF TryFloor, Try, MtuInv, BoundsInv, MtuTypeInv
  <1>3. /\ mtuStep' \in {"search", "done"} /\ mtuAnswer'.kind # "size"
        /\ mtuStep' = "search" => fitting
    BY <1>1, <1>2 DEF MtuEnds, Unavailable
  <1>4. MtuTypeInv'
    BY <1>2, <1>3, OneMore DEF MtuInv, MtuTypeInv
  <1>5. BoundsInv'
    <2>1. /\ DOMAIN tried' = DOMAIN tried \cup {Len(tried) + 1}
          /\ tried'[Len(tried) + 1] = [size |-> low, fits |-> fitting]
      BY <1>2, OneMore DEF MtuInv, MtuTypeInv
    <2>2. fitting => Tried(low, TRUE)'
      BY <1>2, <2>1 DEF Tried
    <2>3. low' <= high' /\ high' <= Largest /\ high' = Largest
      BY <1>2, MtuAssumption
    <2> QED
      BY <1>3, <2>2, <2>3 DEF BoundsInv
  <1>6. SidesInv'
    <2>1. \A i \in DOMAIN tried : tried[i].size # low
      BY <1>2
    <2>2. mtuStep' = "search" => IF fitting THEN low <= low' ELSE low > high'
      BY <1>2, <1>3
    <2>3. MtuTypeInv /\ SidesInv /\ low' \in Nat /\ high' \in Nat /\ low <= low' /\ high' <= high
      BY <1>2 DEF MtuInv, MtuTypeInv
    <2> QED
      BY <1>2, <2>1, <2>2, <2>3, TryKeepsSides
  <1>7. JudgedInv'
    BY <1>1, <1>2, TryJudges DEF MtuInv
  <1>8. MtuIsWhereThePathEnds'
    BY <1>3, <1>6 DEF MtuIsWhereThePathEnds, SidesInv
  <1> QED
    BY <1>4, <1>5, <1>6, <1>7, <1>8 DEF MtuInv

\* A size between the bounds: one of them moves to it.
LEMMA TryMiddleStep == MtuInv /\ TryMiddle => MtuInv'
  <1> SUFFICES ASSUME MtuInv, TryMiddle PROVE MtuInv'
    OBVIOUS
  <1>1. PICK fitting \in BOOLEAN :
          /\ Try(Middle, fitting)
          /\ low' = IF fitting THEN Middle ELSE low
          /\ high' = IF fitting THEN high ELSE Middle - 1
    BY DEF TryMiddle
  <1>2. /\ UNCHANGED <<mtu, mtuStep, limit, limits, mtuAnswer>> /\ mtuStep = "search"
        /\ low \in Nat /\ high \in Nat /\ low < high /\ high <= Largest
        /\ mtuAnswer.kind # "size"
        /\ tried' = Append(tried, [size |-> Middle, fits |-> fitting])
    BY <1>1 DEF TryMiddle, Try, MtuInv, BoundsInv, MtuTypeInv
  <1>3. Middle \in Nat /\ low < Middle /\ Middle <= high
    BY <1>2, MiddleIsBetween
  <1>4. /\ low' \in Nat /\ high' \in Nat /\ low <= low' /\ high' <= high /\ low' <= high'
        /\ IF fitting THEN Middle <= low' ELSE Middle > high'
    BY <1>1, <1>2, <1>3
  <1>5. \A i \in DOMAIN tried : tried[i].size # Middle
    <2>1. \A i \in DOMAIN tried : tried[i] \in AskedSize
      BY DEF MtuInv, MtuTypeInv
    <2>2. \A i \in DOMAIN tried : tried[i].size \in Nat
      BY <2>1 DEF AskedSize
    <2> QED
      BY <1>2, <1>3, <2>2 DEF MtuInv, SidesInv
  <1>6. /\ DOMAIN tried' = DOMAIN tried \cup {Len(tried) + 1}
        /\ \A i \in DOMAIN tried : tried'[i] = tried[i]
        /\ tried'[Len(tried) + 1] = [size |-> Middle, fits |-> fitting]
        /\ tried' \in Seq(AskedSize)
    BY <1>2, <1>3, OneMore DEF MtuInv, MtuTypeInv
  <1>7. MtuTypeInv'
    BY <1>2, <1>4, <1>6 DEF MtuInv, MtuTypeInv
  <1>8. BoundsInv'
    <2>1. CASE fitting
      <3>1. low' = Middle /\ high' = high
        BY <1>1, <2>1
      <3>2. Tried(low, TRUE)' /\ (high = Largest \/ Tried(high + 1, FALSE)')
        BY <1>2, <1>6, <2>1, <3>1 DEF MtuInv, BoundsInv, Tried
      <3>3. high' = Largest \/ Tried(high + 1, FALSE)'
        BY <3>1, <3>2 DEF Tried
      <3>4. low' <= high' /\ high' <= Largest /\ mtuStep' = "search"
        BY <1>2, <1>4, <3>1
      <3> QED
        BY <3>2, <3>3, <3>4 DEF BoundsInv
    <2>2. CASE ~fitting
      <3>1. low' = low /\ high' + 1 = Middle
        BY <1>1, <1>3, <2>2
      <3>2. Tried(low, TRUE)'
        BY <1>2, <1>6, <3>1 DEF MtuInv, BoundsInv, Tried
      <3>3. Tried(high + 1, FALSE)'
        BY <1>6, <2>2, <3>1 DEF Tried
      <3>4. low' <= high' /\ high' <= Largest /\ mtuStep' = "search"
        BY <1>2, <1>4, MtuAssumption
      <3> QED
        BY <3>2, <3>3, <3>4 DEF BoundsInv
    <2> QED
      BY <2>1, <2>2
  <1>9. SidesInv'
    BY <1>2, <1>3, <1>4, <1>5, TryKeepsSides DEF MtuInv
  <1>10. JudgedInv'
    BY <1>1, <1>2, <1>3, TryJudges DEF MtuInv
  <1>11. MtuIsWhereThePathEnds'
    BY <1>2, <1>9 DEF MtuIsWhereThePathEnds, SidesInv
  <1> QED
    BY <1>7, <1>8, <1>9, <1>10, <1>11 DEF MtuInv

\* The bounds met: that size was taken for a fit, and the next one was not.
LEMMA SearchEndsStep == MtuInv /\ SearchEnds => MtuInv'
  <1> SUFFICES ASSUME MtuInv, SearchEnds PROVE MtuInv'
    OBVIOUS
  <1>1. /\ UNCHANGED <<mtu, limit, limits, low, high, tried>>
        /\ mtuStep = "search" /\ mtuStep' = "done"
        /\ mtuAnswer' = [kind |-> "size", size |-> low]
        /\ low = high /\ low \in Nat /\ mtu.platform \in {"windows", "bsd"}
    BY DEF SearchEnds, MtuEnds, Size, MtuInv, MtuTypeInv, BoundsInv, MtuCalls
  <1>2. MtuTypeInv' /\ BoundsInv' /\ SidesInv' /\ JudgedInv'
    BY <1>1 DEF MtuInv, MtuTypeInv, BoundsInv, SidesInv, JudgedInv
  <1>3. Tried(low, TRUE) /\ (low = Largest \/ Tried(low + 1, FALSE))
    BY <1>1 DEF MtuInv, BoundsInv
  <1>4. /\ [size |-> low, fits |-> TRUE] \in ToSet(tried)
        /\ low = Largest \/ [size |-> low + 1, fits |-> FALSE] \in ToSet(tried)
    BY <1>3 DEF Tried, ToSet
  <1>5. CASE mtu.platform = "bsd"
    <2>1. \E l \in limits : low <= l
      BY <1>3, <1>5 DEF MtuInv, JudgedInv, Tried
    <2> QED
      BY <1>1, <1>2, <1>4, <1>5, <2>1 DEF MtuInv, MtuIsWhereThePathEnds, SidesInv
  <1>6. CASE mtu.platform = "windows"
    <2>1. low = Largest \/ \E l \in limits : l <= low
      <3>1. low = Largest \/ \E l \in limits : l < low + 1
        BY <1>3, <1>6 DEF MtuInv, JudgedInv, Tried
      <3> QED
        BY <1>1, <3>1 DEF MtuInv, MtuTypeInv
    <2> QED
      BY <1>1, <1>2, <1>4, <1>6, <2>1 DEF MtuInv, MtuIsWhereThePathEnds, SidesInv
  <1> QED
    BY <1>1, <1>5, <1>6

\* Every step of a search keeps the invariant.
LEMMA MtuKept == MtuInv /\ [MtuNext]_mtuVars => MtuInv'
  <1> SUFFICES ASSUME MtuInv, [MtuNext]_mtuVars PROVE MtuInv'
    OBVIOUS
  <1>1. CASE PathChanges
    BY <1>1, PathChangesStep
  <1>2. CASE MtuRefused \/ AskKernel \/ CannotProbe \/ StartProbing
    BY <1>2, MtuStartStep
  <1>3. CASE TryFloor \/ TryMiddle \/ SearchEnds
    BY <1>3, TryFloorStep, TryMiddleStep, SearchEndsStep
  <1>4. CASE UNCHANGED mtuVars
    BY <1>4 DEF mtuVars, MtuInv, MtuTypeInv, BoundsInv, SidesInv, JudgedInv, MtuIsWhereThePathEnds, Tried
  <1> QED
    BY <1>1, <1>2, <1>3, <1>4 DEF MtuNext

\* The inductive invariant holds in every reachable state.
THEOREM MtuInvariance == MtuSpec => []MtuInv
  BY MtuInitially, MtuKept, PTL DEF MtuSpec

\* Between any two sizes the bisection asks no size twice, answers one taken for
\* a fit next to one refused, and errs to one side only, however often the path
\* changes (_bsd_mtu, _windows_mtu, _linux_mtu).
THEOREM MtuIsFound == MtuSpec => []MtuIsWhereThePathEnds
  BY MtuInvariance, PTL DEF MtuInv

=============================================================================
