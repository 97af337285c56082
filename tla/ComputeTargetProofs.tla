------------------------ MODULE ComputeTargetProofs ------------------------
(***************************************************************************)
(* Proofs about ComputeTarget: for any grid points, any spacing of the     *)
(* samples, any profiles and any answers of the solvers, and any number of *)
(* kills.                                                                  *)
(***************************************************************************)
EXTENDS ComputeTargetInv, SequenceTheorems, FiniteSetTheorems, WellFoundedInduction, NaturalsInduction, TLAPS

(* The samples. *)

\* A set of numbers that is not empty has a least one
LEMMA LeastOf ==
    ASSUME NEW T, T \subseteq Nat, T # {}
    PROVE  \E x \in T : \A y \in T : ~(y < x)
<1> DEFINE R == {ss \in Nat \X Nat : ss[1] < ss[2]}
<1>1. IsWellFoundedOn(R, Nat)
  BY NatLessThanWellFounded DEF OpToRel
<1> HIDE DEF R
<1>2. PICK x \in T : \A y \in T : ~(<<y, x>> \in R)
  BY <1>1, WFMin
<1> QED BY <1>2 DEF R

\* The shared grid lies between 0 and N_total, but for the last point, which may be
\* the float above N_total
LEMMA SampleRange ==
    ASSUME NEW t \in Tasks
    PROVE  /\ BuildNSample(t) \in Seq(Nat) /\ Len(BuildNSample(t)) >= 1
           /\ N_total(t) \in Nat
           /\ BuildNSample(t)[1] <= N_total(t)
           /\ \A i \in 1 .. Len(BuildNSample(t)) - 1 : BuildNSample(t)[i] <= N_total(t)
           /\ Clear(t) => BuildNSample(t)[Len(BuildNSample(t))] = N_total(t)
<1> USE ConstantsAssumption
<1> DEFINE N == N_total(t)
           q == N \div Step
           s == SharedPoints(t)
<1>1. N \in Nat \ {0} /\ t.up \in {0, 1}
  BY DEF N_total
<1> HIDE DEF N
<1>2. q \in Nat /\ q * Step <= N /\ N < (q + 1) * Step
  BY <1>1
<1>3. \A i \in 0 .. q : i * Step \in Nat /\ i * Step <= q * Step
  BY <1>2
<1>4. \A i \in 0 .. q : i # q => i * Step < N
  <2> SUFFICES ASSUME NEW i \in 0 .. q, i # q PROVE i * Step < N
    OBVIOUS
  <2>1. i + 1 \in 0 .. q
    BY <1>2
  <2>2. (i + 1) * Step = i * Step + Step
    BY <1>2
  <2>3. (i + 1) * Step <= q * Step /\ i * Step \in Nat /\ q * Step \in Nat
    BY <1>2, <1>3, <2>1
  <2> HIDE DEF q
  <2> QED BY <1>1, <1>2, <2>2, <2>3
<1> HIDE DEF q
<1>5. \A i \in 0 .. q : /\ Multiple(t, i) \in Nat
                        /\ i # q => Multiple(t, i) <= N
                        /\ Multiple(t, i) > N => Multiple(t, i) = N + 1
                        /\ i = 0 => Multiple(t, i) <= N
  BY <1>1, <1>2, <1>3, <1>4 DEF Multiple, N
<1>6. s = [k \in 1 .. q + 1 |-> Multiple(t, k - 1)]
  BY DEF SharedPoints, q, N
<1>7. s \in Seq(Nat) /\ Len(s) = q + 1 /\ \A k \in 1 .. q + 1 : s[k] = Multiple(t, k - 1)
  <2>1. s \in [1 .. q + 1 -> Nat]
    BY <1>2, <1>5, <1>6
  <2>2. s \in Seq(Nat)
    BY <1>2, <2>1, SeqDef
  <2> QED BY <1>2, <1>6, <2>2, LenProperties
<1> HIDE DEF s
<1>8. \/ BuildNSample(t) = s /\ (Clear(t) => Multiple(t, q) = N)
      \/ (Multiple(t, q) <= N) /\ (BuildNSample(t) = s \o <<N>>)
  <2> DEFINE last == Multiple(t, q)
             off == IF last > N THEN last - N ELSE N - last
  <2>1. BuildNSample(t) = s \o (IF off > 1 THEN <<N>> ELSE <<>>)
    BY DEF BuildNSample, s, q, N
  <2>2. last \in Nat /\ (last > N => last = N + 1)
    BY <1>2, <1>5
  <2> HIDE DEF last
  <2>3. CASE off > 1
    BY <1>1, <2>1, <2>2, <2>3 DEF last
  <2>4. CASE ~(off > 1)
    <3>1. s \o <<>> = s
      BY <1>7, ConcatEmptySeq
    <3> DEFINE rest == IF off > 1 THEN <<N>> ELSE <<>>
    <3>2. rest = <<>>
      BY <2>4
    <3>3. BuildNSample(t) = s \o rest
      BY <2>1
    <3> HIDE DEF rest
    <3>4. BuildNSample(t) = s
      BY <3>1, <3>2, <3>3, Zenon
    <3>5. Clear(t) => last = N
      <4>1. Clear(t) => last = N \/ N - last > 1
        BY DEF Clear, last, q, N
      <4>2. ~(N - last > 1)
        BY <1>1, <2>2, <2>4 DEF off
      <4> QED BY <4>1, <4>2
    <3> QED BY <3>4, <3>5 DEF last
  <2> QED BY <2>3, <2>4
<1>9. CASE BuildNSample(t) = s /\ (Clear(t) => Multiple(t, q) = N)
  <2>1. /\ s \in Seq(Nat) /\ Len(s) >= 1 /\ N \in Nat
        /\ s[1] <= N /\ \A i \in 1 .. Len(s) - 1 : s[i] <= N
        /\ Clear(t) => s[Len(s)] = N
    <3>1. s[1] = Multiple(t, 0) /\ Multiple(t, 0) <= N
      <4>1. 1 \in 1 .. q + 1 /\ 1 - 1 = 0 /\ 0 \in 0 .. q
        BY <1>2
      <4>2. s[1] = Multiple(t, 0)
        BY <1>7, <4>1
      <4> QED BY <1>5, <4>1, <4>2
    <3>2. ASSUME NEW i \in 1 .. Len(s) - 1 PROVE s[i] <= N
      <4>1. i - 1 \in 0 .. q /\ i - 1 # q /\ s[i] = Multiple(t, i - 1)
        BY <1>2, <1>7
      <4> QED BY <1>5, <4>1
    <3>3. s[Len(s)] = Multiple(t, q)
      <4>1. Len(s) \in 1 .. q + 1 /\ Len(s) - 1 = q
        BY <1>2, <1>7
      <4> QED BY <1>7, <4>1
    <3> QED BY <1>1, <1>2, <1>7, <1>9, <3>1, <3>2, <3>3
  <2> QED BY <1>9, <2>1 DEF N
<1>10. CASE (Multiple(t, q) <= N) /\ (BuildNSample(t) = s \o <<N>>)
  <2>1. \A i \in 1 .. Len(s) : s[i] \in Nat /\ s[i] <= N
    <3> SUFFICES ASSUME NEW i \in 1 .. Len(s) PROVE s[i] \in Nat /\ s[i] <= N
      OBVIOUS
    <3>1. i - 1 \in 0 .. q /\ s[i] = Multiple(t, i - 1)
      BY <1>2, <1>7
    <3> QED BY <1>5, <1>10, <3>1
  <2>2. <<N>> \in Seq(Nat) /\ Len(<<N>>) = 1 /\ <<N>>[1] = N
    BY <1>1
  <2>3. /\ s \o <<N>> \in Seq(Nat) /\ Len(s \o <<N>>) = q + 2
        /\ \A i \in 1 .. q + 2 : (s \o <<N>>)[i] = IF i <= q + 1 THEN s[i] ELSE <<N>>[i - (q + 1)]
    BY <1>2, <1>7, <2>2, ConcatProperties
  <2>4. /\ Len(s \o <<N>>) >= 1 /\ (s \o <<N>>)[1] <= N
        /\ \A i \in 1 .. Len(s \o <<N>>) - 1 : (s \o <<N>>)[i] <= N
        /\ (s \o <<N>>)[Len(s \o <<N>>)] = N
    BY <1>2, <1>7, <2>1, <2>2, <2>3
  <2> QED BY <1>1, <1>10, <2>3, <2>4 DEF N
<1> QED BY <1>8, <1>9, <1>10

\* What the filter gives of the first k points is determined by the recursion
Filters(f, s, total) ==
    f = [k \in 0 .. Len(s) |->
           IF k = 0 THEN <<>>
           ELSE IF 0 <= s[k] /\ s[k] <= total THEN Append(f[k - 1], s[k])
           ELSE f[k - 1]]

LEMMA WithinFilters ==
    ASSUME NEW s, NEW total, NEW G, Filters(G, s, total)
    PROVE  Filters(Within(s, total), s, total)
<1> DEFINE H == CHOOSE f : Filters(f, s, total)
<1>1. Filters(H, s, total)
  OBVIOUS
<1>2. Within(s, total) = H
  BY DEF Within, Filters
<1> HIDE DEF H
<1> QED BY <1>1, <1>2

LEMMA FilterStep ==
    ASSUME NEW f, NEW s, NEW total, Filters(f, s, total), NEW k \in 0 .. Len(s), k # 0
    PROVE  f[k] = IF 0 <= s[k] /\ s[k] <= total THEN Append(f[k - 1], s[k]) ELSE f[k - 1]
<1> DEFINE e(i) == IF i = 0 THEN <<>>
                   ELSE IF 0 <= s[i] /\ s[i] <= total THEN Append(f[i - 1], s[i])
                   ELSE f[i - 1]
<1>1. f = [i \in 0 .. Len(s) |-> e(i)]
  BY DEF Filters
<1> HIDE DEF e
<1>2. f[k] = e(k)
  BY <1>1
<1> QED BY <1>2 DEF e

\* The worker keeps the points up to the last one that is not past the end
LEMMA OutputIsPrefix ==
    ASSUME NEW s \in Seq(Nat), NEW total \in Nat, Len(s) >= 1, s[1] <= total,
           \A i \in 1 .. Len(s) - 1 : s[i] <= total
    PROVE  /\ Output(s, total) \in Seq(Nat) /\ Len(Output(s, total)) \in 1 .. Len(s)
           /\ \A i \in 1 .. Len(Output(s, total)) : Output(s, total)[i] = s[i]
           /\ s[Len(s)] <= total => Len(Output(s, total)) = Len(s)
<1> DEFINE n == Len(s)
           m == IF s[n] <= total THEN n ELSE n - 1
           W == Within(s, total)
           G == [k \in 0 .. n |-> SubSeq(s, 1, IF k <= m THEN k ELSE m)]
<1>1. n \in Nat \ {0} /\ \A i \in 1 .. n : s[i] \in Nat
  BY LenProperties, ElementOfSeq
<1>2. m \in 1 .. n /\ \A k \in 1 .. n : (0 <= s[k] /\ s[k] <= total) <=> k <= m
  BY <1>1
<1> HIDE DEF m
<1>3. \A k \in 0 .. m : /\ SubSeq(s, 1, k) \in Seq(Nat) /\ Len(SubSeq(s, 1, k)) = k
                        /\ \A i \in 1 .. k : SubSeq(s, 1, k)[i] = s[i]
  BY <1>1, <1>2, SubSeqProperties
<1>4. \A k \in 1 .. m : SubSeq(s, 1, k) = Append(SubSeq(s, 1, k - 1), s[k])
  <2> SUFFICES ASSUME NEW k \in 1 .. m PROVE SubSeq(s, 1, k) = Append(SubSeq(s, 1, k - 1), s[k])
    OBVIOUS
  <2> DEFINE a == SubSeq(s, 1, k)
             b == SubSeq(s, 1, k - 1)
  <2>1. k \in 0 .. m /\ k - 1 \in 0 .. m /\ s[k] \in Nat
    BY <1>1, <1>2
  <2>2. /\ a \in Seq(Nat) /\ Len(a) = k /\ \A i \in 1 .. k : a[i] = s[i]
        /\ b \in Seq(Nat) /\ Len(b) = k - 1 /\ \A i \in 1 .. k - 1 : b[i] = s[i]
    BY <1>3, <2>1
  <2> HIDE DEF a, b
  <2>3. /\ Append(b, s[k]) \in Seq(Nat) /\ Len(Append(b, s[k])) = k
        /\ \A i \in 1 .. k - 1 : Append(b, s[k])[i] = b[i]
        /\ Append(b, s[k])[k] = s[k]
    BY <2>1, <2>2, AppendProperties
  <2>4. ASSUME NEW i \in 1 .. k PROVE a[i] = Append(b, s[k])[i]
    <3>1. CASE i = k
      BY <2>2, <2>3, <3>1
    <3>2. CASE i # k
      <4>1. i \in 1 .. k - 1
        BY <3>2
      <4> QED BY <2>2, <2>3, <4>1
    <3> QED BY <3>1, <3>2
  <2>5. a = Append(b, s[k])
    BY <2>2, <2>3, <2>4, SeqEqual
  <2> QED BY <2>5 DEF a, b
<1>5. SubSeq(s, 1, 0) = <<>>
  BY <1>1, <1>2, <1>3, EmptySeq
<1>6. Filters(G, s, total)
  <2>1. ASSUME NEW k \in 0 .. n
        PROVE  G[k] = IF k = 0 THEN <<>>
                      ELSE IF 0 <= s[k] /\ s[k] <= total THEN Append(G[k - 1], s[k])
                      ELSE G[k - 1]
    <3>1. CASE k = 0
      BY <1>1, <1>2, <1>5, <3>1
    <3>2. CASE k \in 1 .. m
      <4>1. k - 1 \in 0 .. n /\ k - 1 <= m /\ k <= m /\ k \in 1 .. n
        BY <1>1, <1>2, <3>2
      <4>2. G[k] = SubSeq(s, 1, k) /\ G[k - 1] = SubSeq(s, 1, k - 1)
        BY <4>1
      <4> HIDE DEF G
      <4> QED BY <1>2, <1>4, <3>2, <4>1, <4>2
    <3>3. CASE k > m
      <4>1. k - 1 \in 0 .. n /\ k \in 1 .. n /\ ~(k <= m)
        BY <1>1, <1>2, <3>3
      <4>2. G[k] = SubSeq(s, 1, m) /\ G[k - 1] = SubSeq(s, 1, m)
        <5>1. CASE k - 1 = m
          BY <4>1, <5>1
        <5>2. CASE k - 1 # m
          BY <1>1, <1>2, <4>1, <5>2
        <5> QED BY <5>1, <5>2
      <4> HIDE DEF G
      <4> QED BY <1>2, <4>1, <4>2
    <3> QED BY <1>2, <3>1, <3>2, <3>3
  <2>2. G = [k \in 0 .. n |-> G[k]]
    OBVIOUS
  <2> HIDE DEF G
  <2> QED BY <2>1, <2>2 DEF Filters
<1>7. Filters(W, s, total)
  BY <1>6, WithinFilters
<1> HIDE DEF W, G
<1>8. \A k \in 0 .. n : W[k] = G[k]
  <2> DEFINE T == {k \in 0 .. n : W[k] # G[k]}
  <2> SUFFICES ASSUME T # {} PROVE FALSE
    OBVIOUS
  <2>0. T \subseteq Nat
    BY <1>1
  <2>1. PICK k \in T : \A y \in T : ~(y < k)
    <3> HIDE DEF T
    <3> QED BY <2>0, LeastOf
  <2>2. k # 0
    BY <1>1, <1>6, <1>7 DEF Filters
  <2>3. k \in 1 .. n /\ k - 1 \in 0 .. n
    BY <1>1, <2>1, <2>2
  <2>4. W[k - 1] = G[k - 1]
    <3>1. k - 1 \notin T
      BY <2>0, <2>1, <2>3
    <3> QED BY <2>3, <3>1
  <2>5. /\ G[k] = IF 0 <= s[k] /\ s[k] <= total THEN Append(G[k - 1], s[k]) ELSE G[k - 1]
        /\ W[k] = IF 0 <= s[k] /\ s[k] <= total THEN Append(W[k - 1], s[k]) ELSE W[k - 1]
    BY <1>1, <1>6, <1>7, <2>2, <2>3, FilterStep
  <2>6. W[k] = G[k]
    BY <2>4, <2>5
  <2> QED BY <2>1, <2>6
<1>9. W[n] = SubSeq(s, 1, m)
  BY <1>1, <1>2, <1>8 DEF G
<1>10. SubSeq(s, 1, m) # <<>>
  BY <1>2, <1>3, EmptySeq
<1>11. Output(s, total) = SubSeq(s, 1, m)
  BY <1>9, <1>10 DEF Output, W
<1>12. s[n] <= total => m = n
  BY DEF m
<1> QED BY <1>2, <1>3, <1>11, <1>12

-----------------------------------------------------------------------------
(* The kinds, and results in general. *)

LEMMA KindFacts ==
    /\ KindSet = {FI, SRI, CF, GCI}
    /\ FI # SRI /\ FI # CF /\ FI # GCI /\ SRI # CF /\ SRI # GCI /\ CF # GCI
    /\ Kinds[1] = FI /\ Kinds[2] = SRI /\ Kinds[3] = CF /\ Kinds[4] = GCI
    /\ \A i \in 1 .. 4 : Kinds[i] \in KindSet /\ \A j \in 1 .. 4 : Kinds[i] = Kinds[j] => i = j
<1>1. Kinds = <<FI, SRI, CF, GCI>> /\ DOMAIN Kinds = 1 .. 4
  BY DEF Kinds, FI, SRI, CF, GCI
<1>2. KindSet = {Kinds[i] : i \in 1 .. 4}
  BY <1>1 DEF KindSet, ToSet
<1>3. \A i \in 1 .. 4 : i = 1 \/ i = 2 \/ i = 3 \/ i = 4
  OBVIOUS
<1>4. FI # SRI /\ FI # CF /\ FI # GCI /\ SRI # CF /\ SRI # GCI /\ CF # GCI
  BY DEF FI, SRI, CF, GCI
<1>5. Kinds[1] = FI /\ Kinds[2] = SRI /\ Kinds[3] = CF /\ Kinds[4] = GCI
  BY <1>1
<1>6. KindSet = {FI, SRI, CF, GCI}
  BY <1>2, <1>3, <1>5
<1> QED BY <1>3, <1>4, <1>5, <1>6

\* More kinds that are solved do no harm
LEMMA SoundGrows ==
    ASSUME NEW D, NEW E, D \subseteq E, NEW k, NEW obj
    PROVE  /\ Sound(k, obj, D) => Sound(k, obj, E)
           /\ RowSound(k, obj, D) => RowSound(k, obj, E)
BY DEF Sound, RowSound, Founded

LEMMA ObjectFields ==
    ASSUME NEW result, NEW full, NEW query
    PROVE  LET obj == Object(result, full, query)
           IN  /\ obj.failure = result.failure /\ obj.scalars = result.scalars
               /\ obj.values = result.values /\ obj.profile = result.profile
               /\ obj.diagnostics = result.diagnostics
               /\ obj.full = full /\ obj.query = query
               /\ obj = Object(obj, full, query)
BY DEF Object

LEMMA FailureSound ==
    ASSUME NEW D, NEW k \in KindSet, NEW d, NEW full, NEW query,
           k = GCI => (d.seeded => FI \in D)
    PROVE  Sound(k, Object(FailureResult(d), full, query), D)
<1> DEFINE obj == Object(FailureResult(d), full, query)
<1>1. obj.failure = TRUE /\ obj.values = <<>> /\ obj.profile = <<>> /\ obj.diagnostics = d
  BY DEF Object, FailureResult
<1>2. InPlace(<<>>)
  BY DEF InPlace
<1> HIDE DEF obj
<1>3. Sound(k, obj, D)
  BY <1>1, <1>2 DEF Sound
<1> QED BY <1>3 DEF obj

\* The values of an instanton are where they were computed
LEMMA SamplesInPlace ==
    ASSUME NEW t \in Tasks
    PROVE  LET s == BuildNSample(t)
               out == Output(s, N_total(t))
           IN  InPlace(PairedValues(s, out)) /\ InPlace(KeyedValues(s, out))
<1> DEFINE s == BuildNSample(t)
           out == Output(s, N_total(t))
<1>1. /\ s \in Seq(Nat) /\ out \in Seq(Nat) /\ Len(out) \in 1 .. Len(s)
      /\ \A i \in 1 .. Len(out) : out[i] = s[i]
  BY SampleRange, OutputIsPrefix
<1> HIDE DEF s, out
<1>2. DOMAIN s = 1 .. Len(s) /\ DOMAIN out = 1 .. Len(out) /\ Len(s) \in Nat /\ Len(out) \in Nat
  BY <1>1, LenProperties
<1>3. InPlace(PairedValues(s, out))
  <2>1. PairedValues(s, out) = [i \in 1 .. Len(out) |-> [N |-> s[i], at |-> out[i]]]
    <3>1. \A a, b \in Nat : a <= b => (IF a < b THEN a ELSE b) = a
      OBVIOUS
    <3>2. Len(out) <= Len(s)
      BY <1>1, <1>2
    <3>3. (IF Len(out) < Len(s) THEN Len(out) ELSE Len(s)) = Len(out)
      BY <1>2, <3>1, <3>2, Zenon
    <3> QED BY <3>3, Zenon DEF PairedValues
  <2>2. \A i \in 1 .. Len(out) : s[i] \in Int /\ out[i] \in Int /\ s[i] = out[i]
    BY <1>1, <1>2, ElementOfSeq
  <2>3. [i \in 1 .. Len(out) |-> [N |-> s[i], at |-> out[i]]] \in Seq([N : Int, at : Int])
    BY <1>2, <2>2, SeqDef
  <2> QED BY <2>1, <2>2, <2>3 DEF InPlace
<1>4. InPlace(KeyedValues(s, out))
  <2>1. ASSUME NEW i \in DOMAIN out PROVE s[CHOOSE k \in DOMAIN s : s[k] = out[i]] = out[i]
    <3>1. i \in DOMAIN s /\ s[i] = out[i]
      BY <1>1, <1>2
    <3> QED BY <3>1
  <2>2. \A i \in 1 .. Len(out) : out[i] \in Int
    BY <1>1, <1>2, ElementOfSeq
  <2>3. KeyedValues(s, out) = [i \in 1 .. Len(out) |-> [N |-> out[i], at |-> out[i]]]
    BY <1>2, <2>1 DEF KeyedValues
  <2>4. [i \in 1 .. Len(out) |-> [N |-> out[i], at |-> out[i]]] \in Seq([N : Int, at : Int])
    BY <1>2, <2>2, SeqDef
  <2> QED BY <2>3, <2>4 DEF InPlace
<1> QED BY <1>3, <1>4 DEF s, out

-----------------------------------------------------------------------------
(* The full solve. *)

LEMMA MaximumOf ==
    ASSUME NEW s \in SweepCounts, NEW i \in DOMAIN s, s[i] = MaxInner
    PROVE  s # <<>> /\ Maximum(s) = MaxInner
<1>1. ToSet(s) \subseteq 1 .. MaxInner /\ MaxInner \in ToSet(s) /\ s # <<>>
  <2>1. \A j \in DOMAIN s : s[j] \in 1 .. MaxInner
    BY LenProperties, ElementOfSeq DEF SweepCounts
  <2>2. s # <<>>
    BY DOMAIN <<>> = {}
  <2> QED BY <2>1, <2>2 DEF ToSet
<1>2. \A x \in ToSet(s) : (\A y \in ToSet(s) : x >= y) => x = MaxInner
  BY <1>1, ConstantsAssumption
<1>3. \A y \in ToSet(s) : MaxInner >= y
  BY <1>1, ConstantsAssumption
<1> QED BY <1>1, <1>2, <1>3 DEF Maximum, Max

LEMMA FullResultSound ==
    ASSUME Typed, SolveInv, fs.at \in {"solved", "failed"}, NEW D, NEW full, NEW query
    PROVE  Sound(FI, Object(FullResult, full, query), D)
<1>1. CASE fs.at = "failed"
  BY <1>1, KindFacts, FailureSound DEF FullResult
<1>2. CASE fs.at = "solved"
  <2> DEFINE t == task.point
             s == BuildNSample(t)
             obj == Object(FullResult, full, query)
  <2>1. t \in Tasks
    BY DEF Typed
  <2>2. Sincere(fs.committed, fs.iterations) /\ fs.iterations \in SweepCounts
    BY <1>2 DEF SolveInv
  <2>3. Earned(FullDiagnostics)
    <3>1. FullDiagnostics.converged /\ FullDiagnostics.genuine
      BY <1>2, <2>2 DEF FullDiagnostics, Sincere
    <3>2. ASSUME ~FullDiagnostics.settled PROVE FullDiagnostics.max_picard_iterations = MaxInner
      <4>1. PICK i \in DOMAIN fs.iterations : fs.iterations[i] = MaxInner
        BY <1>2, <2>2, <3>2 DEF FullDiagnostics, Sincere
      <4>2. fs.iterations # <<>> /\ Maximum(fs.iterations) = MaxInner
        BY <2>2, <4>1, MaximumOf
      <4> QED BY <4>2 DEF FullDiagnostics
    <3> QED BY <3>1, <3>2 DEF Earned
  <2>4. /\ obj.failure = FALSE /\ obj.scalars = InstantonScalars(t) /\ obj.profile = <<>>
        /\ obj.values = PairedValues(s, Output(s, N_total(t)))
        /\ obj.diagnostics = FullDiagnostics
    BY <1>2 DEF Object, FullResult
  <2>5. InPlace(obj.values) /\ obj.scalars # NULL
    BY <2>1, <2>4, SamplesInPlace, NullIsNoScalars
  <2> HIDE DEF obj
  <2>6. Sound(FI, obj, D)
    BY <2>3, <2>4, <2>5, KindFacts DEF Sound
  <2> QED BY <2>6 DEF obj
<1> QED BY <1>1, <1>2

-----------------------------------------------------------------------------
(* The scales of a path. *)

\* What comes no later than i when the members of V are put in the order of R
UpTo(V, R, i) == {j \in V : R[j] < R[i] \/ (R[j] = R[i] /\ j <= i)}

\* The order is linear
LEMMA UpToIsLinear ==
    ASSUME NEW V \in SUBSET Int, NEW R \in [V -> Int], NEW i \in V, NEW j \in V
    PROVE  /\ i \in UpTo(V, R, i) /\ UpTo(V, R, i) \subseteq V
           /\ i \in UpTo(V, R, j) \/ j \in UpTo(V, R, i)
           /\ i \in UpTo(V, R, j) => UpTo(V, R, i) \subseteq UpTo(V, R, j)
           /\ i \in UpTo(V, R, j) /\ j \in UpTo(V, R, i) => i = j
           /\ i \in UpTo(V, R, j) => R[i] <= R[j]
<1>1. R[i] \in Int /\ R[j] \in Int /\ i \in Int /\ j \in Int
  OBVIOUS
<1>2. ASSUME i \in UpTo(V, R, j), NEW k \in UpTo(V, R, i) PROVE k \in UpTo(V, R, j)
  <2>1. k \in V /\ R[k] \in Int /\ k \in Int
    BY <1>2 DEF UpTo
  <2> QED BY <1>1, <1>2, <2>1 DEF UpTo
<1>3. i \in UpTo(V, R, i) /\ UpTo(V, R, i) \subseteq V
  BY <1>1 DEF UpTo
<1>4. (i \in UpTo(V, R, j) => R[i] <= R[j]) /\ (i \in UpTo(V, R, j) \/ j \in UpTo(V, R, i))
  BY <1>1 DEF UpTo
<1>5. i \in UpTo(V, R, j) /\ j \in UpTo(V, R, i) => i = j
  BY <1>1 DEF UpTo
<1> QED BY <1>2, <1>3, <1>4, <1>5

\* A place for each member, and a member for each place
LEMMA EveryPlaceIsTaken ==
    ASSUME NEW V \in SUBSET Int, IsFiniteSet(V), NEW R \in [V -> Int]
    PROVE  /\ \A k \in 1 .. Cardinality(V) : \E i \in V : Cardinality(UpTo(V, R, i)) = k
           /\ \A i, j \in V : Cardinality(UpTo(V, R, i)) <= Cardinality(UpTo(V, R, j)) => R[i] <= R[j]
<1> DEFINE place(i) == Cardinality(UpTo(V, R, i))
           m == Cardinality(V)
           F == [i \in V |-> place(i)]
<1>1. m \in Nat
  BY FS_CardinalityType
<1>2. \A i \in V : IsFiniteSet(UpTo(V, R, i)) /\ place(i) \in 1 .. m
  <2> TAKE i \in V
  <2> DEFINE U == UpTo(V, R, i)
  <2>1. U \in SUBSET V /\ i \in U
    BY UpToIsLinear
  <2> HIDE DEF U
  <2>2. IsFiniteSet(U) /\ Cardinality(U) <= m /\ Cardinality(U) \in Nat
    BY <2>1, FS_Subset, FS_CardinalityType
  <2>3. Cardinality(U) # 0
    BY <2>1, <2>2, FS_EmptySet
  <2> QED BY <1>1, <2>2, <2>3 DEF U
<1>3. \A i, j \in V : i \in UpTo(V, R, j) =>
          place(i) <= place(j) /\ (place(i) = place(j) => i = j)
  <2> SUFFICES ASSUME NEW i \in V, NEW j \in V, i \in UpTo(V, R, j)
               PROVE  place(i) <= place(j) /\ (place(i) = place(j) => i = j)
    OBVIOUS
  <2> DEFINE A == UpTo(V, R, i)
             B == UpTo(V, R, j)
  <2>1. A \in SUBSET B /\ j \in B /\ IsFiniteSet(B)
    BY <1>2, UpToIsLinear
  <2>2. j \in A => i = j
    BY UpToIsLinear
  <2> HIDE DEF A, B
  <2>3. Cardinality(A) <= Cardinality(B) /\ (Cardinality(A) = Cardinality(B) => A = B)
    BY <2>1, FS_Subset
  <2> QED BY <2>1, <2>2, <2>3 DEF A, B
<1> HIDE DEF place, m
<1>4. \A i, j \in V : i \in UpTo(V, R, j) \/ j \in UpTo(V, R, i)
  BY UpToIsLinear
<1>5. \A i, j \in V : place(i) = place(j) => i = j
  BY <1>2, <1>3, <1>4
<1>6. \A i, j \in V : place(i) <= place(j) => R[i] <= R[j]
  <2> SUFFICES ASSUME NEW i \in V, NEW j \in V, place(i) <= place(j) PROVE R[i] <= R[j]
    OBVIOUS
  <2>1. place(i) \in Int /\ place(j) \in Int
    BY <1>2
  <2>2. CASE i \in UpTo(V, R, j)
    BY <2>2, UpToIsLinear
  <2>3. CASE j \in UpTo(V, R, i)
    <3>1. i = j
      BY <1>3, <1>5, <2>1, <2>3
    <3> QED BY <3>1
  <2> QED BY <1>4, <2>2, <2>3
<1>7. F \in Injection(V, 1 .. m)
  BY <1>2, <1>5 DEF Injection, IsInjective
<1>8. F \in Surjection(V, 1 .. m)
  <2>1. IsFiniteSet(1 .. m) /\ Cardinality(1 .. m) = m
    BY <1>1, FS_Interval
  <2> HIDE DEF F
  <2> QED BY <1>7, <2>1, FS_Injection DEF m
<1>9. \A k \in 1 .. m : \E i \in V : place(i) = k
  BY <1>8 DEF Surjection
<1> QED BY <1>6, <1>9 DEF place, m

\* The radii of a path ascend
LEMMA ScalesAscend ==
    ASSUME NEW values, NEW n \in Nat, DOMAIN values = 1 .. n, NEW N_init \in Int,
           \A i \in 1 .. n : values[i].N \in Int
    PROVE  LET r == ScaledSamples(values, N_init)
           IN  /\ r \in Seq(Int)
               /\ \A k, l \in DOMAIN r : k <= l => r[k] <= r[l]
<1> DEFINE V == {i \in DOMAIN values : values[i].matched}
           R == [i \in V |-> PhysicalScale(N_init - values[i].N)]
           at(k) == CHOOSE i \in V : Cardinality(UpTo(V, R, i)) = k
           m == Cardinality(V)
           r == ScaledSamples(values, N_init)
<1>1. V \in SUBSET Int /\ IsFiniteSet(V) /\ R \in [V -> Int]
  BY FS_Interval, FS_Subset DEF PhysicalScale
<1>2. m \in Nat
  BY <1>1, FS_CardinalityType
<1>3. r = [k \in 1 .. m |-> R[at(k)]]
  BY DEF ScaledSamples, UpTo
<1>4. /\ \A k \in 1 .. m : at(k) \in V /\ Cardinality(UpTo(V, R, at(k))) = k
      /\ \A i, j \in V : Cardinality(UpTo(V, R, i)) <= Cardinality(UpTo(V, R, j)) => R[i] <= R[j]
  BY <1>1, EveryPlaceIsTaken
<1> HIDE DEF at, V, R, r, m
<1>5. \A k \in 1 .. m : R[at(k)] \in Int
  BY <1>1, <1>4
<1>6. DOMAIN r = 1 .. m /\ r \in Seq(Int)
  BY <1>2, <1>3, <1>5, SeqDef
<1>7. \A k, l \in 1 .. m : k <= l => r[k] <= r[l]
  BY <1>3, <1>4
<1> QED BY <1>6, <1>7 DEF r
\* A finite set of numbers that is not empty has a least and a greatest one
LEMMA Extremes ==
    ASSUME NEW V \in SUBSET Int, IsFiniteSet(V), V # {}
    PROVE  /\ Max(V) \in V /\ \A x \in V : x <= Max(V)
           /\ Min(V) \in V /\ \A x \in V : Min(V) <= x
<1> DEFINE R == [i \in V |-> i]
           m == Cardinality(V)
           place(i) == Cardinality(UpTo(V, R, i))
<1>1. m \in Nat /\ m # 0
  BY FS_CardinalityType, FS_EmptySet
<1>2. /\ \A k \in 1 .. m : \E i \in V : place(i) = k
      /\ \A i, j \in V : place(i) <= place(j) => i <= j
  <2>1. R \in [V -> Int] /\ \A i \in V : R[i] = i
    OBVIOUS
  <2> HIDE DEF R
  <2>2. /\ \A k \in 1 .. m : \E i \in V : place(i) = k
        /\ \A i, j \in V : place(i) <= place(j) => R[i] <= R[j]
    BY <2>1, EveryPlaceIsTaken
  <2> QED BY <2>1, <2>2
<1>3. \A i \in V : place(i) \in 1 .. m
  <2> TAKE i \in V
  <2> DEFINE U == UpTo(V, R, i)
  <2>1. U \in SUBSET V /\ i \in U
    BY UpToIsLinear
  <2> HIDE DEF U
  <2>2. IsFiniteSet(U) /\ Cardinality(U) <= m /\ Cardinality(U) \in Nat
    BY <2>1, FS_Subset, FS_CardinalityType
  <2>3. Cardinality(U) # 0
    BY <2>1, <2>2, FS_EmptySet
  <2> QED BY <1>1, <2>2, <2>3 DEF U
<1> HIDE DEF place, m
<1>4. PICK hi \in V : place(hi) = m
  BY <1>1, <1>2
<1>5. PICK lo \in V : place(lo) = 1
  BY <1>1, <1>2
<1>6. \A x \in V : x <= hi /\ lo <= x
  BY <1>1, <1>2, <1>3, <1>4, <1>5
<1>7. \E x \in V : \A y \in V : x >= y
  BY <1>6
<1>8. \E x \in V : \A y \in V : x <= y
  BY <1>6
<1>9. Max(V) \in V /\ \A y \in V : Max(V) >= y
  BY <1>7 DEF Max
<1>10. Min(V) \in V /\ \A y \in V : Min(V) <= y
  BY <1>8 DEF Min
<1>11. Max(V) \in Int
  BY <1>9
<1> QED BY <1>9, <1>10, <1>11

\* A peak over the threshold is not outside of the outermost radius over it
LEMMA RadiiFollow ==
    ASSUME NEW n \in Nat \ {0}, NEW r \in [1 .. n -> Int], NEW C \in [1 .. n -> Int],
           \A k, l \in 1 .. n : k <= l => r[k] <= r[l]
    PROVE  LET radii == ClassifyRadii(r, C, C_threshold)
               C_max == Maximum(C)
               M_max == PbhMass(C_max, radii.r_max, C_threshold)
               M_peak == PbhMass(C_max, radii.r_peak, C_threshold)
           IN  /\ (radii.r_max = NULL) <=> (M_max = NULL)
               /\ M_peak # NULL => M_max # NULL /\ radii.r_peak <= radii.r_max /\ M_peak <= M_max
<1> DEFINE over == {i \in DOMAIN C : C[i] >= C_threshold}
           top == {i \in DOMAIN C : C[i] = Maximum(C)}
           C_max == Maximum(C)
           radii == ClassifyRadii(r, C, C_threshold)
           M_max == PbhMass(C_max, radii.r_max, C_threshold)
           M_peak == PbhMass(C_max, radii.r_peak, C_threshold)
<1>0. C_threshold \in Int /\ NULL \notin Int
  BY ConstantsAssumption
<1>1. C_max \in Int /\ top # {} /\ \A i \in 1 .. n : C[i] <= C_max
  <2>1. C \in Surjection(1 .. n, ToSet(C))
    BY DEF Surjection, ToSet
  <2>2. IsFiniteSet(1 .. n)
    BY FS_Interval
  <2>3. IsFiniteSet(ToSet(C))
    BY <2>1, <2>2, FS_Surjection
  <2>4. ToSet(C) \in SUBSET Int /\ ToSet(C) # {}
    BY DEF ToSet
  <2>5. C_max \in ToSet(C) /\ \A x \in ToSet(C) : x <= C_max
    BY <2>3, <2>4, Extremes DEF Maximum
  <2> HIDE DEF C_max
  <2> QED BY <2>4, <2>5 DEF ToSet, top, C_max
<1>2. IsFiniteSet(over) /\ IsFiniteSet(top) /\ over \in SUBSET (1 .. n) /\ top \in SUBSET (1 .. n)
  <2>1. over \in SUBSET (1 .. n) /\ top \in SUBSET (1 .. n) /\ IsFiniteSet(1 .. n)
    BY FS_Interval
  <2> HIDE DEF over, top
  <2> QED BY <2>1, FS_Subset
<1>3. radii.r_max = (IF over = {} THEN NULL ELSE r[Max(over)]) /\ radii.r_peak = r[Min(top)]
  BY DEF ClassifyRadii
<1>4. Min(top) \in top
  <2> HIDE DEF top
  <2> QED BY <1>1, <1>2, Extremes
<1>5. over # {} => Max(over) \in over /\ \A x \in over : x <= Max(over)
  <2> HIDE DEF over
  <2> QED BY <1>2, Extremes
<1>6. C_max >= C_threshold <=> over # {}
  <2>1. PICK i \in 1 .. n : C[i] = C_max
    BY <1>1
  <2> QED BY <1>0, <1>1, <2>1
<1>7. over # {} => Min(top) \in over
  BY <1>4, <1>6
<1> HIDE DEF over, top, C_max, radii
<1>8. radii.r_max \in Int <=> over # {}
  BY <1>0, <1>2, <1>3, <1>5
<1>9. radii.r_peak \in Int
  BY <1>2, <1>3, <1>4
<1>10. CASE over = {}
  <2>1. M_max = NULL /\ M_peak = NULL /\ radii.r_max = NULL
    BY <1>0, <1>1, <1>3, <1>6, <1>10 DEF PbhMass
  <2> QED BY <2>1 DEF radii, C_max
<1>11. CASE over # {}
  <2>1. radii.r_max \in Int /\ radii.r_peak <= radii.r_max
    BY <1>2, <1>3, <1>4, <1>5, <1>7, <1>11
  <2>2. M_max = C_max + 2 * radii.r_max /\ M_peak = C_max + 2 * radii.r_peak
    BY <1>0, <1>1, <1>6, <1>9, <1>11, <2>1 DEF PbhMass
  <2>3. M_max \in Int /\ M_peak <= M_max
    BY <1>1, <1>9, <2>1, <2>2
  <2> HIDE DEF M_max, M_peak
  <2>4. M_max # NULL /\ radii.r_max # NULL
    BY <1>0, <2>1, <2>3
  <2>5. /\ (radii.r_max = NULL) <=> (M_max = NULL)
        /\ M_peak # NULL => M_max # NULL /\ radii.r_peak <= radii.r_max /\ M_peak <= M_max
    BY <2>1, <2>3, <2>4
  <2> QED BY <2>5 DEF M_max, M_peak, radii, C_max
<1> QED BY <1>10, <1>11

LEMMA PathFollows ==
    ASSUME NEW values, NEW n \in Nat, DOMAIN values = 1 .. n, NEW N_init \in Int,
           \A i \in 1 .. n : values[i].N \in Int, NEW downflow, NEW shape \in Shapes
    PROVE  LET p == InstantonPath(values, N_init, downflow, shape)
           IN  ~p.failure => Follows(PathScalars(p))
<1> DEFINE p == InstantonPath(values, N_init, downflow, shape)
           r == ScaledSamples(values, N_init)
           C == [i \in DOMAIN r |-> shape[Min({i, Len(shape)})]]
<1> SUFFICES ASSUME ~p.failure PROVE Follows(PathScalars(p))
  OBVIOUS
<1>1. r # <<>> /\ p = [failure |-> FALSE, r |-> r, C |-> C, n_valid |-> Len(r)]
  BY DEF InstantonPath, Failed
<1>2. r \in Seq(Int) /\ \A k, l \in DOMAIN r : k <= l => r[k] <= r[l]
  BY ScalesAscend
<1> HIDE DEF r
<1>3. Len(r) \in Nat \ {0} /\ DOMAIN r = 1 .. Len(r) /\ r \in [1 .. Len(r) -> Int]
  <2>1. Len(r) \in Nat /\ DOMAIN r = 1 .. Len(r) /\ r \in [1 .. Len(r) -> Int]
    BY <1>2, LenProperties
  <2>2. Len(r) # 0
    BY <1>1, <1>2, EmptySeq
  <2> QED BY <2>1, <2>2
<1>4. C \in [1 .. Len(r) -> Int]
  <2>1. shape \in Seq(Int) /\ Len(shape) \in Nat \ {0}
    <3>1. shape \in Seq(Int) /\ Len(shape) >= 2 * Nodes - 1 /\ Nodes \in Nat \ {0, 1}
      BY ConstantsAssumption
    <3>2. Len(shape) \in Nat
      BY <3>1, LenProperties
    <3> QED BY <3>1, <3>2
  <2>2. \A i \in 1 .. Len(r) : Min({i, Len(shape)}) \in 1 .. Len(shape)
    <3> TAKE i \in 1 .. Len(r)
    <3> DEFINE V == {i, Len(shape)}
    <3>1. V \in SUBSET Int /\ V # {} /\ \A x \in V : 1 <= x
      BY <1>3, <2>1
    <3>2. IsFiniteSet(V)
      <4>1. IsFiniteSet({i}) /\ IsFiniteSet({i} \cup {Len(shape)})
        BY FS_Singleton, FS_AddElement
      <4>2. V = {i} \cup {Len(shape)}
        OBVIOUS
      <4> QED BY <4>1, <4>2
    <3>3. Len(shape) \in V
      OBVIOUS
    <3> HIDE DEF V
    <3>4. Min(V) \in V /\ Min(V) <= Len(shape)
      BY <3>1, <3>2, <3>3, Extremes
    <3> QED BY <2>1, <3>1, <3>4 DEF V
  <2>3. \A j \in 1 .. Len(shape) : shape[j] \in Int
    BY <2>1, ElementOfSeq
  <2> QED BY <1>3, <2>2, <2>3
<1> HIDE DEF C
<1> DEFINE q == PathScalars(p)
<1>5. /\ q.r_max = ClassifyRadii(r, C, C_threshold).r_max
      /\ q.r_peak = ClassifyRadii(r, C, C_threshold).r_peak
      /\ q.M_max = PbhMass(Maximum(C), ClassifyRadii(r, C, C_threshold).r_max, C_threshold)
      /\ q.M_peak = PbhMass(Maximum(C), ClassifyRadii(r, C, C_threshold).r_peak, C_threshold)
  <2>1. p.r = r /\ p.C = C
    BY <1>1
  <2> HIDE DEF p
  <2> QED BY <2>1 DEF PathScalars
<1>6. /\ (q.r_max = NULL) <=> (q.M_max = NULL)
      /\ q.M_peak # NULL => q.M_max # NULL /\ q.r_peak <= q.r_max /\ q.M_peak <= q.M_max
  <2> HIDE DEF q
  <2>1. \A k, l \in 1 .. Len(r) : k <= l => r[k] <= r[l]
    BY <1>2, <1>3
  <2> QED BY <1>3, <1>4, <1>5, <2>1, RadiiFollow
<1> QED BY <1>6 DEF Follows, q, p

-----------------------------------------------------------------------------
(* The results of the other kinds. *)

LEMMA SlowRollResultSound ==
    ASSUME Typed, NEW D, NEW full, NEW query
    PROVE  Sound(SRI, Object(SlowRollResult, full, query), D)
<1>1. CASE sr.at = "failed"
  BY <1>1, KindFacts, FailureSound DEF SlowRollResult
<1>2. CASE sr.at # "failed"
  <2> DEFINE t == task.point
             s == BuildNSample(t)
             obj == Object(SlowRollResult, full, query)
  <2>1. t \in Tasks
    BY DEF Typed
  <2>2. /\ obj.failure = FALSE /\ obj.scalars = InstantonScalars(t) /\ obj.profile = <<>>
        /\ obj.values = PairedValues(s, Output(s, N_total(t)))
    BY <1>2 DEF Object, SlowRollResult
  <2>3. InPlace(obj.values) /\ obj.scalars # NULL
    BY <2>1, <2>2, SamplesInPlace, NullIsNoScalars
  <2> HIDE DEF obj
  <2>4. Sound(SRI, obj, D)
    BY <2>2, <2>3, KindFacts DEF Sound
  <2> QED BY <2>4 DEF obj
<1> QED BY <1>1, <1>2

\* A path that does not fail has samples of a proxy
LEMMA PathNeedsSamples ==
    ASSUME NEW v, NEW N, NEW downflow \in BOOLEAN, NEW shape
    PROVE  LET p == IF v = NULL THEN NULL ELSE InstantonPath(v, N, downflow, shape)
           IN  PathFailed(p) \in BOOLEAN /\ (~PathFailed(p) => v # NULL /\ v # <<>>)
<1>1. \A reason : Failed(reason).failure = TRUE
  BY DEF Failed
<1> DEFINE q == InstantonPath(v, N, downflow, shape)
<1>2. q.failure \in BOOLEAN /\ (v = <<>> => q.failure)
  BY <1>1 DEF InstantonPath
<1> HIDE DEF q
<1>3. PathFailed(NULL) = TRUE /\ (q # NULL => PathFailed(q) = q.failure)
  BY DEF PathFailed
<1>4. CASE v = NULL
  BY <1>3, <1>4
<1>5. CASE v # NULL
  <2>1. CASE q = NULL
    BY <1>3, <1>5, <2>1 DEF q
  <2>2. CASE q # NULL
    BY <1>2, <1>3, <1>5, <2>2 DEF q
  <2> QED BY <2>1, <2>2
<1> QED BY <1>4, <1>5

\* Samples at whole numbers of e-folds
Numbered(values) == \E n \in Nat : DOMAIN values = 1 .. n /\ \A i \in 1 .. n : values[i].N \in Int

LEMMA CompactionResultSound ==
    ASSUME NEW a, NEW b, NEW N, NEW downflow \in Downflows, NEW shape, NEW D, NEW full, NEW query,
           a # NULL /\ a # <<>> => FI \in D,
           b # NULL /\ b # <<>> => SRI \in D,
           a # NULL => Numbered(a), b # NULL => Numbered(b), N \in Int, shape \in Shapes
    PROVE  Sound(CF, Object(CompactionResult(CompactionPaths(a, b, N, downflow, shape)), full, query), D)
<1> DEFINE paths == CompactionPaths(a, b, N, downflow, shape)
           f == paths.full
           g == paths.slow_roll
           result == CompactionResult(paths)
           obj == Object(result, full, query)
<1>1. /\ PathFailed(f) \in BOOLEAN /\ (~PathFailed(f) => FI \in D)
      /\ PathFailed(g) \in BOOLEAN /\ (~PathFailed(g) => SRI \in D)
      /\ ~PathFailed(f) => Follows(PathScalars(f))
      /\ ~PathFailed(g) => Follows(PathScalars(g))
  <2>1. /\ f = IF a = NULL THEN NULL ELSE InstantonPath(a, N, downflow.full, shape)
        /\ g = IF b = NULL THEN NULL ELSE InstantonPath(b, N, downflow.slow_roll, shape)
    BY DEF CompactionPaths
  <2>5. downflow.full \in BOOLEAN /\ downflow.slow_roll \in BOOLEAN
    BY DEF Downflows
  <2> HIDE DEF f, g, paths
  <2>2. /\ PathFailed(f) \in BOOLEAN /\ (~PathFailed(f) => a # NULL /\ a # <<>>)
        /\ PathFailed(g) \in BOOLEAN /\ (~PathFailed(g) => b # NULL /\ b # <<>>)
    BY <2>1, <2>5, PathNeedsSamples
  <2>3. ASSUME ~PathFailed(f) PROVE Follows(PathScalars(f))
    <3>1. a # NULL /\ f = InstantonPath(a, N, downflow.full, shape)
      BY <2>1, <2>2, <2>3
    <3>2. ~f.failure
      BY <2>3 DEF PathFailed
    <3> QED BY <2>5, <3>1, <3>2, PathFollows DEF Numbered
  <2>4. ASSUME ~PathFailed(g) PROVE Follows(PathScalars(g))
    <3>1. b # NULL /\ g = InstantonPath(b, N, downflow.slow_roll, shape)
      BY <2>1, <2>2, <2>4
    <3>2. ~g.failure
      BY <2>4 DEF PathFailed
    <3> QED BY <2>5, <3>1, <3>2, PathFollows DEF Numbered
  <2> QED BY <2>2, <2>3, <2>4
<1> HIDE DEF paths
<1>2. CASE PathFailed(f) /\ PathFailed(g)
  <2>1. PICK d : result = FailureResult(d)
    BY <1>2 DEF CompactionResult
  <2> HIDE DEF result
  <2> QED BY <2>1, FailureSound, KindFacts DEF result, paths
<1>3. CASE ~(PathFailed(f) /\ PathFailed(g))
  <2> DEFINE scalars(p) == IF PathFailed(p) THEN NoPath ELSE PathScalars(p)
  <2>1. /\ obj.failure = FALSE /\ obj.profile = <<>>
        /\ obj.scalars.full = scalars(f) /\ obj.scalars.slow_roll = scalars(g)
    BY <1>3 DEF CompactionResult, Object
  <2>2. \A p : PathFailed(p) => scalars(p).failure = TRUE
    BY DEF NoPath, Failed
  <2>3. \A p : ~PathFailed(p) => scalars(p).failure = FALSE
    BY DEF PathScalars
  <2>4. Follows(scalars(f)) /\ Follows(scalars(g))
    <3>1. \A p : p.failure = TRUE => Follows(p)
      BY DEF Follows
    <3>2. \A p : ~PathFailed(p) => scalars(p) = PathScalars(p)
      OBVIOUS
    <3> HIDE DEF scalars
    <3> QED BY <1>1, <2>2, <3>1, <3>2
  <2> HIDE DEF scalars, obj
  <2>5. BothFollow(obj.scalars)
    BY <2>1, <2>4 DEF BothFollow
  <2>6. OnePath(obj.scalars) /\ Founded(obj.scalars, D)
    BY <1>1, <1>3, <2>1, <2>2, <2>3 DEF OnePath, Founded
  <2>7. Sound(CF, obj, D)
    BY <2>1, <2>6, <2>5, KindFacts DEF Sound
  <2> QED BY <2>7 DEF obj, paths
<1> QED BY <1>2, <1>3

LEMMA DensitiesNeedSamples ==
    ASSUME NEW proxy, NEW unmatched, Densities(proxy, unmatched) # NULL,
           Densities(proxy, unmatched) # <<>>
    PROVE  proxy # NULL /\ proxy.values # <<>>
<1>1. proxy # NULL
  BY DEF Densities
<1>2. ASSUME proxy.values = <<>> PROVE FALSE
  <2> DEFINE w == [i \in DOMAIN proxy.values |-> [N |-> proxy.values[i].N, matched |-> i \notin unmatched]]
  <2>1. DOMAIN proxy.values = {}
    BY <1>2
  <2>2. w = <<>>
    BY <2>1
  <2>3. Densities(proxy, unmatched) = w
    BY <1>1 DEF Densities
  <2> QED BY <2>2, <2>3
<1> QED BY <1>1, <1>2

LEMMA DensitiesNumbered ==
    ASSUME NEW proxy, proxy # NULL, InPlace(proxy.values), NEW unmatched
    PROVE  Numbered(Densities(proxy, unmatched))
<1>1. /\ Len(proxy.values) \in Nat /\ DOMAIN proxy.values = 1 .. Len(proxy.values)
      /\ \A i \in 1 .. Len(proxy.values) : proxy.values[i].N \in Int
  <2> DEFINE v == proxy.values
             Sample == [N : Int, at : Int]
  <2>1. v \in Seq(Sample)
    BY DEF InPlace
  <2>2. \A x \in Sample : x.N \in Int
    OBVIOUS
  <2> HIDE DEF v, Sample
  <2>3. Len(v) \in Nat /\ DOMAIN v = 1 .. Len(v) /\ \A i \in 1 .. Len(v) : v[i] \in Sample
    BY <2>1, LenProperties, ElementOfSeq
  <2> QED BY <2>2, <2>3 DEF v
<1>2. Densities(proxy, unmatched) =
          [i \in DOMAIN proxy.values |-> [N |-> proxy.values[i].N, matched |-> i \notin unmatched]]
  BY DEF Densities
<1> QED BY <1>1, <1>2 DEF Numbered

LEMMA GradientResultSound ==
    ASSUME Typed, Handed, NEW solved \in BOOLEAN, NEW matched, NEW raw, NEW dense, NEW full, NEW query
    PROVE  Sound(GCI, Object(GradientResult(solved, matched, raw, dense), full, query), Done)
<1> DEFINE scales == AssignScales(ExtractZeta(matched), raw, dense)
           d == [seeded |-> Seeded(proxies["FullInstanton"]), scaled |-> solved /\ ~scales.failure]
           t == task.point
           s == BuildNSample(t)
           result == GradientResult(solved, matched, raw, dense)
           obj == Object(result, full, query)
<1>1. d.seeded => FI \in Done
  BY DEF Handed, Seeded, FI
<1>2. CASE ~solved \/ scales.failure
  <2>1. result = FailureResult(d)
    BY <1>2 DEF GradientResult
  <2> HIDE DEF result, d
  <2> QED BY <1>1, <2>1, FailureSound, KindFacts DEF result
<1>3. CASE ~(~solved \/ scales.failure)
  <2>1. /\ obj.failure = FALSE /\ obj.diagnostics = d
        /\ obj.values = IF target.full THEN KeyedValues(s, Output(s, N_total(t))) ELSE <<>>
    BY <1>3 DEF GradientResult, Object
  <2>2. InPlace(obj.values)
    BY <2>1, SamplesInPlace DEF Typed, InPlace
  <2> HIDE DEF obj, d
  <2>3. Sound(GCI, obj, Done)
    BY <1>1, <2>1, <2>2, KindFacts DEF Sound
  <2> QED BY <2>3 DEF obj
<1> QED BY <1>2, <1>3

-----------------------------------------------------------------------------
(* The row of an object, its validation and what a fetch makes of it. *)

\* The object that row is made of, when it has been validated or not
RowOf(row, k, obj) ==
    /\ row.diagnostics = obj.diagnostics
    /\ row.marked <=> ~obj.failure /\ ~obj.full
    /\ row.values = IF obj.full /\ ~obj.failure THEN obj.values ELSE <<>>
    /\ row.profile = IF k = GCI /\ ~obj.failure THEN obj.profile ELSE <<>>
    /\ k # CF => row.scalars = IF obj.failure THEN NULL ELSE obj.scalars
    /\ k = CF => /\ BothFollow(row.scalars)
                 /\ row.scalars.full.failure <=> (obj.failure \/ obj.scalars.full.failure)
                 /\ row.scalars.slow_roll.failure <=> (obj.failure \/ obj.scalars.slow_roll.failure)

Columns(row) ==
    row = [scalars |-> row.scalars, marked |-> row.marked, diagnostics |-> row.diagnostics,
           values |-> row.values, profile |-> row.profile, validated |-> row.validated]

LEMMA PathColumnsFailure ==
    ASSUME NEW path
    PROVE  /\ PathColumns(path).failure <=> path.failure
           /\ path.failure \/ Follows(path) => Follows(PathColumns(path))
<1>1. PathColumns(path).failure <=> path.failure
  BY DEF PathColumns
<1>2. path.failure \/ PathColumns(path) = path
  BY DEF PathColumns
<1> QED BY <1>1, <1>2 DEF Follows

Cells(k, obj, c, v, p) ==
    /\ v = IF obj.full /\ ~obj.failure THEN obj.values ELSE <<>>
    /\ p = IF k = GCI /\ ~obj.failure THEN obj.profile ELSE <<>>
    /\ k # CF => c = IF obj.failure THEN NULL ELSE obj.scalars
    /\ k = CF => /\ BothFollow(c)
                 /\ c.full.failure <=> (obj.failure \/ obj.scalars.full.failure)
                 /\ c.slow_roll.failure <=> (obj.failure \/ obj.scalars.slow_roll.failure)

LEMMA RowOfCells ==
    ASSUME NEW D, NEW k, NEW obj, Sound(k, obj, D), NEW c, NEW v, NEW p, Cells(k, obj, c, v, p)
    PROVE  /\ RowOf(Row(obj, c, v, p), k, obj)
           /\ Columns(Row(obj, c, v, p)) /\ ~Row(obj, c, v, p).validated
<1> DEFINE row == Row(obj, c, v, p)
<1>1. /\ row.scalars = c /\ row.values = v /\ row.profile = p
      /\ row.diagnostics = obj.diagnostics /\ ~row.validated
      /\ row.marked <=> ~obj.failure /\ ~obj.full
  BY DEF Row, Marker, Sound
<1>2. Columns(row)
  BY DEF Row, Columns
<1> HIDE DEF row
<1>3. RowOf(row, k, obj)
  BY <1>1 DEF RowOf, Cells
<1> QED BY <1>1, <1>2, <1>3 DEF row

LEMMA StoredRow ==
    ASSUME NEW D, NEW k \in KindSet, NEW obj, Sound(k, obj, D)
    PROVE  /\ RowOf(Stored(k, obj), k, obj)
           /\ Columns(Stored(k, obj)) /\ ~Stored(k, obj).validated
<1> USE KindFacts
<1>0. obj.failure \in BOOLEAN
  BY DEF Sound
<1>5. \A c, v, p : Cells(k, obj, c, v, p) =>
          /\ RowOf(Row(obj, c, v, p), k, obj)
          /\ Columns(Row(obj, c, v, p)) /\ ~Row(obj, c, v, p).validated
  BY RowOfCells
<1>6. \A path : /\ PathColumns(path).failure <=> path.failure
                /\ path.failure \/ Follows(path) => Follows(PathColumns(path))
  BY PathColumnsFailure
<1> DEFINE one == IF obj.failure THEN NULL ELSE obj.scalars
<1>1. CASE k = FI
  <2>1. Stored(k, obj) = Row(obj, one, FullValueRows(obj), <<>>)
    BY <1>1 DEF Stored, FullStored, FI
  <2>2. Cells(k, obj, one, FullValueRows(obj), <<>>)
    BY <1>0, <1>1 DEF Cells, FullValueRows
  <2> HIDE DEF one
  <2> QED BY <1>0, <2>1, <2>2, <1>5
<1>2. CASE k = SRI
  <2>1. Stored(k, obj) = Row(obj, one, SlowRollValueRows(obj), <<>>)
    BY <1>2 DEF Stored, SlowRollStored, SRI
  <2>2. Cells(k, obj, one, SlowRollValueRows(obj), <<>>)
    BY <1>0, <1>2 DEF Cells, SlowRollValueRows
  <2> HIDE DEF one
  <2> QED BY <1>0, <2>1, <2>2, <1>5
<1>3. CASE k = GCI
  <2>1. Stored(k, obj) = Row(obj, one, GradientValueRows(obj), GradientProfileRows(obj))
    BY <1>3 DEF Stored, GradientStored, GCI
  <2>2. Cells(k, obj, one, GradientValueRows(obj), GradientProfileRows(obj))
    BY <1>0, <1>3 DEF Cells, GradientValueRows, GradientProfileRows
  <2> HIDE DEF one
  <2> QED BY <1>0, <2>1, <2>2, <1>5
<1>4. CASE k = CF
  <2> DEFINE paths == IF obj.failure THEN [full |-> NoPath, slow_roll |-> NoPath] ELSE obj.scalars
             f == PathColumns(paths.full)
             g == PathColumns(paths.slow_roll)
             c == [full |-> f, slow_roll |-> g]
  <2>1. Stored(k, obj) = Row(obj, c, CompactionSampleRows(obj), <<>>)
    BY <1>4 DEF Stored, CompactionStored, CF
  <2>2. NoPath.failure = TRUE
    BY DEF NoPath, Failed
  <2>3. /\ paths.full.failure <=> (obj.failure \/ obj.scalars.full.failure)
        /\ paths.slow_roll.failure <=> (obj.failure \/ obj.scalars.slow_roll.failure)
    <3>1. CASE obj.failure
      BY <2>2, <3>1
    <3>2. CASE ~obj.failure
      BY <1>4, <3>2 DEF Sound, OnePath
    <3> QED BY <3>1, <3>2
  <2>4. (paths.full.failure \/ Follows(paths.full)) /\ (paths.slow_roll.failure \/ Follows(paths.slow_roll))
    <3>1. CASE obj.failure
      BY <2>2, <3>1
    <3>2. CASE ~obj.failure
      BY <1>4, <3>2 DEF Sound, BothFollow
    <3> QED BY <3>1, <3>2
  <2> HIDE DEF paths
  <2>5. BothFollow(c)
    <3>1. Follows(f) /\ Follows(g)
      BY <1>6, <2>4
    <3>2. c.full = f /\ c.slow_roll = g
      OBVIOUS
    <3> QED BY <3>1, <3>2 DEF BothFollow
  <2>6. (f.failure <=> paths.full.failure) /\ (g.failure <=> paths.slow_roll.failure)
    BY <1>6
  <2> HIDE DEF f, g
  <2>7. /\ c.full.failure <=> (obj.failure \/ obj.scalars.full.failure)
        /\ c.slow_roll.failure <=> (obj.failure \/ obj.scalars.slow_roll.failure)
    BY <2>3, <2>6
  <2> HIDE DEF c
  <2>8. Cells(k, obj, c, CompactionSampleRows(obj), <<>>)
    BY <1>0, <1>4, <2>7, <2>5 DEF Cells, CompactionSampleRows
  <2> QED BY <1>0, <2>1, <2>8, <1>5
<1> QED BY <1>1, <1>2, <1>3, <1>4

\* All children have been written when they are counted
LEMMA ValidatedRow ==
    ASSUME NEW D, NEW k \in KindSet, NEW obj, Sound(k, obj, D)
    PROVE  LET row == Validated(k, obj, Stored(k, obj)) IN
           /\ RowOf(row, k, obj) /\ row.validated
           /\ row.scalars = Stored(k, obj).scalars
<1> DEFINE s == Stored(k, obj)
           v == Validated(k, obj, s)
<1>1. RowOf(s, k, obj) /\ Columns(s)
  BY StoredRow
<1>2. obj.failure \in BOOLEAN
  BY DEF Sound
<1> HIDE DEF s
<1>3. obj.failure \/ Counted(obj, s)
  BY <1>1, <1>2 DEF RowOf, Counted
<1>4. obj.failure \/ Len(s.profile) = Len(obj.profile)
  BY <1>1, <1>2 DEF RowOf, Sound
<1>5. \A c, m, d, x, p, f, g :
         [[scalars |-> c, marked |-> m, diagnostics |-> d, values |-> x, profile |-> p, validated |-> f]
             EXCEPT !.validated = g]
            = [scalars |-> c, marked |-> m, diagnostics |-> d, values |-> x, profile |-> p, validated |-> g]
  OBVIOUS
<1>6. PICK g : v = [s EXCEPT !.validated = g] /\ g = TRUE
  <2> DEFINE g == CASE k = "FullInstanton" -> FullCounted(obj, s)
                    [] k = "SlowRollInstanton" -> SlowRollCounted(obj, s)
                    [] k = "CompactionFunction" -> CompactionCounted(obj, s)
                    [] k = "GradientCoupledInstanton" -> GradientCounted(obj, s)
  <2>1. v = [s EXCEPT !.validated = g]
    BY DEF Validated
  <2>2. g = TRUE
    BY <1>3, <1>4, KindFacts DEF FI, SRI, CF, GCI, FullCounted, SlowRollCounted, CompactionCounted,
                                 GradientCounted
  <2> HIDE DEF g, v
  <2> QED BY <2>1, <2>2
<1>7. v = [scalars |-> s.scalars, marked |-> s.marked, diagnostics |-> s.diagnostics,
           values |-> s.values, profile |-> s.profile, validated |-> g]
  BY <1>1, <1>5, <1>6 DEF Columns
<1> HIDE DEF v
<1>8. /\ v.scalars = s.scalars /\ v.marked = s.marked /\ v.diagnostics = s.diagnostics
      /\ v.values = s.values /\ v.profile = s.profile /\ v.validated
  BY <1>6, <1>7
<1>9. RowOf(v, k, obj)
  BY <1>1, <1>8 DEF RowOf
<1> QED BY <1>8, <1>9 DEF s, v

LEMMA RowOfSound ==
    ASSUME NEW D, NEW k \in KindSet, NEW obj, Sound(k, obj, D), NEW row, RowOf(row, k, obj)
    PROVE  RowSound(k, row, D)
<1>1. InPlace(<<>>)
  BY DEF InPlace
<1>2. k # CF => InPlace(row.values)
  BY <1>1 DEF RowOf, Sound
<1>3. k = FI => (row.scalars # NULL => Earned(row.diagnostics))
  BY KindFacts DEF RowOf, Sound
<1>4. k = CF => Founded(row.scalars, D) /\ BothFollow(row.scalars)
  BY KindFacts DEF RowOf, Sound, Founded, OnePath
<1>5. k = GCI => (row.diagnostics.seeded => FI \in D)
  BY DEF RowOf, Sound
<1> QED BY <1>2, <1>3, <1>4, <1>5 DEF RowSound

\* Samples come back if there are any, and in mode "full" all that the row has
Returned(F, k, row) ==
    /\ F.values = row.values /\ F.scalars = row.scalars
    /\ F.profile = IF k = GCI THEN row.profile ELSE <<>>
    /\ k = CF => F.failure = (row.scalars.full.failure /\ row.scalars.slow_roll.failure)

LEMMA RestoredFields ==
    ASSUME NEW row, NEW failure, NEW v, NEW p
    PROVE  LET obj == Restored(row, failure)
               filled == [obj EXCEPT !.values = v]
               whole == [filled EXCEPT !.profile = p]
           IN  /\ obj.values = <<>> /\ obj.profile = <<>> /\ obj.scalars = row.scalars
               /\ [obj EXCEPT !.profile = p].values = <<>>
               /\ filled.values = v /\ filled.profile = <<>> /\ filled.scalars = row.scalars
               /\ filled.failure = failure
               /\ whole.values = v /\ whole.profile = p /\ whole.scalars = row.scalars
BY DEF Restored

LEMMA FetchedFacts ==
    ASSUME NEW k \in KindSet, NEW table, NEW row \in table, row.validated,
           \A r \in table : r.validated => r = row,
           NEW mode \in Modes(k)
    PROVE  LET F == Fetched(k, table, mode) IN
           /\ F = NULL \/ F.values = <<>> \/ F.values = row.values
           /\ mode = "full" => F = NULL \/ (~row.marked /\ Returned(F, k, row))
<1> USE KindFacts
<1>1. (CHOOSE r \in table : r.validated) = row
  OBVIOUS
<1> DEFINE F == Fetched(k, table, mode)
           both == row.scalars.full.failure /\ row.scalars.slow_roll.failure
<1>2. mode \in {"scalars", "full"} \/ (k = GCI /\ mode = "profile")
  BY DEF Modes, GCI
<1>3. CASE k = FI
  <2>1. F = FullFetched(row, mode)
    BY <1>1, <1>3 DEF Fetched, FI
  <2>2. CASE mode = "scalars"
    BY <1>3, <2>1, <2>2, RestoredFields DEF FullFetched
  <2>3. CASE mode = "full"
    <3>1. F = IF row.marked THEN NULL ELSE [Restored(row, NULL) EXCEPT !.values = row.values]
      BY <2>1, <2>3 DEF FullFetched, FullPopulated
    <3> HIDE DEF F
    <3>2. F = NULL \/ (~row.marked /\ Returned(F, k, row))
      BY <1>3, <3>1, RestoredFields DEF Returned
    <3>3. F = NULL \/ F.values = row.values
      BY <3>2 DEF Returned
    <3> QED BY <3>2, <3>3 DEF F
  <2> QED BY <1>2, <1>3, <2>2, <2>3
<1>4. CASE k = SRI
  <2>1. F = SlowRollFetched(row, mode)
    BY <1>1, <1>4 DEF Fetched, SRI
  <2>2. CASE mode = "scalars"
    BY <1>4, <2>1, <2>2, RestoredFields DEF SlowRollFetched
  <2>3. CASE mode = "full"
    <3>1. F = IF row.marked THEN NULL ELSE [Restored(row, NULL) EXCEPT !.values = row.values]
      BY <2>1, <2>3 DEF SlowRollFetched, SlowRollPopulated
    <3> HIDE DEF F
    <3>2. F = NULL \/ (~row.marked /\ Returned(F, k, row))
      BY <1>4, <3>1, RestoredFields DEF Returned
    <3>3. F = NULL \/ F.values = row.values
      BY <3>2 DEF Returned
    <3> QED BY <3>2, <3>3 DEF F
  <2> QED BY <1>2, <1>4, <2>2, <2>3
<1>5. CASE k = CF
  <2>1. F = CompactionFetched(row, mode)
    BY <1>1, <1>5 DEF Fetched, CF
  <2>2. CASE mode = "scalars"
    <3>1. F = Restored(row, both)
      BY <2>1, <2>2 DEF CompactionFetched
    <3> HIDE DEF both
    <3> QED BY <2>2, <3>1, RestoredFields
  <2>3. CASE mode = "full"
    <3>1. F = IF row.marked THEN NULL ELSE [Restored(row, both) EXCEPT !.values = row.values]
      BY <2>1, <2>3 DEF CompactionFetched, CompactionPopulated
    <3>2. /\ F = NULL \/ ~row.marked
          /\ F = NULL \/ (F.values = row.values /\ F.scalars = row.scalars /\ F.profile = <<>>)
          /\ F = NULL \/ F.failure = both
      <4> HIDE DEF F, both
      <4> QED BY <3>1, RestoredFields
    <3> HIDE DEF F
    <3>3. F = NULL \/ (~row.marked /\ Returned(F, k, row))
      BY <1>5, <3>2 DEF Returned
    <3> QED BY <3>2, <3>3 DEF F
  <2> QED BY <1>2, <1>5, <2>2, <2>3
<1>6. CASE k = GCI
  <2>1. F = GradientFetched(row, mode)
    BY <1>1, <1>6 DEF Fetched, GCI
  <2>2. CASE mode = "scalars"
    BY <1>6, <2>1, <2>2, RestoredFields DEF GradientFetched
  <2>3. CASE mode = "profile"
    <3>1. F = [Restored(row, NULL) EXCEPT !.profile = row.profile]
      BY <2>1, <2>3 DEF GradientFetched, ProfilePopulated
    <3> HIDE DEF F
    <3>2. F.values = <<>>
      BY <3>1, RestoredFields
    <3> QED BY <2>3, <3>2 DEF F
  <2>4. CASE mode = "full"
    <3>1. F = IF row.marked THEN NULL
              ELSE [[Restored(row, NULL) EXCEPT !.values = row.values] EXCEPT !.profile = row.profile]
      BY <2>1, <2>4 DEF GradientFetched, GradientPopulated, ProfilePopulated
    <3> HIDE DEF F
    <3>2. F = NULL \/ (~row.marked /\ Returned(F, k, row))
      BY <1>6, <3>1, RestoredFields DEF Returned
    <3>3. F = NULL \/ F.values = row.values
      BY <3>2 DEF Returned
    <3> QED BY <3>2, <3>3 DEF F
  <2> QED BY <1>2, <1>6, <2>2, <2>3, <2>4
<1> QED BY <1>3, <1>4, <1>5, <1>6

-----------------------------------------------------------------------------
(* The steps. *)

\* The row of the object at work is the only validated one of its kind
LEMMA OwnRow ==
    ASSUME Inv, phase = "validated"
    PROVE  LET row == Validated(kind, target, Stored(kind, target)) IN
           /\ kind \in KindSet /\ row \in rows[kind] /\ row.validated /\ RowOf(row, kind, target)
           /\ \A r \in rows[kind] : r.validated => r = row
           /\ Sound(kind, target, Done) /\ target.full = task.full /\ task.full \in BOOLEAN
           /\ row.scalars = Stored(kind, target).scalars
<1>1. phase \in Working /\ phase \in Known
  BY DEF Inv, Working, Known
<1>2. turn \in 1 .. 4 /\ kind \in KindSet
  BY <1>1, KindFacts DEF Inv, OnTurn, kind
<1>3. Sound(kind, target, Done)
  BY <1>1 DEF Inv, TargetSound
<1>4. target.full = task.full /\ task.full \in BOOLEAN
  <2>1. target = Object(target, task.full, target.query)
    BY DEF Inv, TargetSound
  <2>2. Object(target, task.full, target.query).full = task.full
    BY DEF Object
  <2> QED BY <2>1, <2>2 DEF Inv, Typed
<1> DEFINE row == Validated(kind, target, Stored(kind, target))
<1>5. row \in rows[kind] /\ \A r \in rows[kind] : r.validated => r = row
  <2>1. ~(turn < turn)
    BY <1>2
  <2> HIDE DEF row
  <2>2. /\ \A i \in 1 .. 4 : \A r \in rows[Kinds[i]] :
              r.validated => i < turn \/ r = row
        /\ row \in rows[kind]
    BY <1>1 DEF Inv, OnTurn, row
  <2> QED BY <1>2, <2>1, <2>2 DEF kind
<1>6. RowOf(row, kind, target) /\ row.validated /\ row.scalars = Stored(kind, target).scalars
  BY <1>2, <1>3, ValidatedRow
<1> QED BY <1>2, <1>3, <1>4, <1>5, <1>6

LEMMA FetchAgrees ==
    ASSUME Inv
    PROVE  FetchGivesTheResult
<1> SUFFICES ASSUME phase = "validated", Fetched(kind, rows[kind], "full") # NULL
    PROVE  LET obj == Fetched(kind, rows[kind], "full") IN
           /\ obj.values = target.values /\ obj.profile = target.profile
           /\ IsInstanton(kind) /\ ~target.failure => obj.scalars = target.scalars
           /\ ~IsInstanton(kind) => obj.failure = target.failure
  BY DEF FetchGivesTheResult
<1> DEFINE row == Validated(kind, target, Stored(kind, target))
           obj == Fetched(kind, rows[kind], "full")
           k == kind
<1>1. /\ k \in KindSet /\ row \in rows[k] /\ row.validated /\ RowOf(row, k, target)
      /\ \A r \in rows[k] : r.validated => r = row
      /\ Sound(k, target, Done)
  BY OwnRow
<1>2. ~row.marked /\ Returned(obj, k, row)
  <2>1. "full" \in Modes(k)
    BY DEF Modes
  <2> HIDE DEF row, k
  <2>2. \/ Fetched(k, rows[k], "full") = NULL
        \/ ~row.marked /\ Returned(Fetched(k, rows[k], "full"), k, row)
    BY <1>1, <2>1, FetchedFacts
  <2> QED BY <2>2 DEF k
<1>3. IsInstanton(k) <=> k # CF
  BY DEF IsInstanton, CF
<1> HIDE DEF row, obj, k
<1>4. target.failure \in BOOLEAN /\ (target.failure \/ target.full)
  BY <1>1, <1>2 DEF RowOf, Sound
<1>5. obj.values = target.values
  BY <1>1, <1>2, <1>4 DEF RowOf, Sound, Returned
<1>6. obj.profile = target.profile
  BY <1>1, <1>2, <1>4 DEF RowOf, Sound, Returned
<1>7. k # CF /\ ~target.failure => obj.scalars = target.scalars
  BY <1>1, <1>2 DEF RowOf, Returned
<1>8. k = CF => obj.failure = target.failure
  <2> SUFFICES ASSUME k = CF PROVE obj.failure = target.failure
    OBVIOUS
  <2>1. obj.failure = (row.scalars.full.failure /\ row.scalars.slow_roll.failure)
    BY <1>2 DEF Returned
  <2>2. CASE target.failure
    BY <1>1, <1>4, <2>1, <2>2 DEF RowOf
  <2>3. CASE ~target.failure
    BY <1>1, <1>4, <2>1, <2>3 DEF RowOf, Sound, OnePath
  <2> QED BY <2>2, <2>3
<1> QED BY <1>3, <1>5, <1>6, <1>7, <1>8 DEF obj, k

\* What a step must keep that writes no row and hands nothing on
LEMMA QuietStep ==
    ASSUME Inv, UNCHANGED <<task, rows, proxies>>, SolveInv',
           target' = Object(target', task.full, target'.query),
           phase' \in Known => Sound(kind', target', Done),
           phase' \in Working => /\ phase' # "validated" /\ phase \in Working /\ phase # "validated"
                                 /\ turn' = turn
    PROVE  Inv'
<1>1. Typed'
  BY DEF Inv, Typed
<1>2. Done' = Done
  BY DEF Done
<1>3. TargetSound'
  BY <1>2 DEF TargetSound
<1>4. RowsSound'
  BY <1>2 DEF Inv, RowsSound
<1>5. Handed'
  BY <1>2 DEF Inv, Handed
<1>6. OnTurn'
  BY DEF Inv, OnTurn
<1> QED BY <1>1, <1>3, <1>4, <1>5, <1>6 DEF Inv

LEMMA RowsChange ==
    ASSUME Inv,
           \A k \in KindSet : \A row \in rows[k] : row.validated => row \in rows'[k],
           \A k \in KindSet : \A row \in rows'[k] : row \in rows[k] \/ RowSound(k, row, Done)
    PROVE  Done \subseteq Done' /\ RowsSound'
<1>1. Done \subseteq Done'
  BY DEF Done
<1>2. ASSUME NEW k \in KindSet, NEW row \in rows'[k] PROVE RowSound(k, row, Done')
  <2>1. RowSound(k, row, Done)
    BY DEF Inv, RowsSound
  <2> QED BY <1>1, <2>1, SoundGrows
<1> QED BY <1>1, <1>2 DEF RowsSound

LEMMA NoExceptQuery ==
    \A r, f, g, q : [Object(r, f, g) EXCEPT !.query = q] = Object(r, f, q)
BY DEF Object

LEMMA AskFirstKeeps ==
    ASSUME Inv, AskFirst PROVE Inv'
<1>1. target' = [target EXCEPT !.query = TRUE] /\ phase = "built"
  BY DEF AskFirst
<1>2. PICK q : q = TRUE
  OBVIOUS
<1>3. target' = Object(target, task.full, q)
  <2>1. target = Object(target, task.full, target.query)
    BY DEF Inv, TargetSound
  <2>2. target' = [target EXCEPT !.query = q]
    BY <1>1, <1>2
  <2> QED BY <2>1, <2>2, NoExceptQuery
<1>4. target' = Object(target', task.full, target'.query)
  BY <1>3, ObjectFields
<1>5. UNCHANGED <<task, rows, proxies, phase, turn, fs>>
  BY DEF AskFirst
<1>6. SolveInv'
  BY <1>5 DEF Inv, SolveInv
<1>7. phase' \notin Known /\ phase' \in Working /\ phase' # "validated" /\ phase \in Working
  BY <1>1, <1>5 DEF Known, Working
<1> QED BY <1>4, <1>5, <1>6, <1>7, QuietStep

LEMMA StartKeeps ==
    ASSUME StartFS
    PROVE  SolveInv'
<1>1. \/ fs' = Ended("failed", <<>>, Field(FALSE, FALSE, FALSE))
      \/ fs' = Inner(<<>>, Field(FALSE, FALSE, TRUE))
  BY DEF StartFS
<1>2. CASE fs' = Ended("failed", <<>>, Field(FALSE, FALSE, FALSE))
  BY <1>2 DEF Ended, SolveInv
<1>3. CASE fs' = Inner(<<>>, Field(FALSE, FALSE, TRUE))
  <2> DEFINE c == Field(FALSE, FALSE, TRUE)
  <2>1. fs' = [at |-> "inner", sweeps |-> 0, iterations |-> <<>>, committed |-> c]
    BY <1>3 DEF Inner
  <2> HIDE DEF c
  <2>2. 0 \in 0 .. MaxInner - 1 /\ <<>> \in SweepCounts
    BY ConstantsAssumption DEF SweepCounts
  <2> QED BY <2>1, <2>2 DEF SolveInv
<1> QED BY <1>1, <1>2, <1>3

\* The evaluation that a sweep may end
LEMMA SweepKeeps ==
    ASSUME SolveInv, SweepOnce
    PROVE  SolveInv'
<1> DEFINE n == fs.sweeps + 1
<1>1. /\ fs = [at |-> "inner", sweeps |-> fs.sweeps, iterations |-> fs.iterations,
               committed |-> fs.committed]
      /\ fs.sweeps \in 0 .. MaxInner - 1 /\ fs.iterations \in SweepCounts
  BY DEF SolveInv, SweepOnce
<1>2. n \in 1 .. MaxInner
  BY <1>1, ConstantsAssumption
<1>3. /\ Append(fs.iterations, n) \in SweepCounts
      /\ \E i \in DOMAIN Append(fs.iterations, n) : Append(fs.iterations, n)[i] = n
  <2>1. fs.iterations \in Seq(1 .. MaxInner)
    BY <1>1 DEF SweepCounts
  <2> DEFINE s == fs.iterations
             a == Append(s, n)
  <2> HIDE DEF n, s
  <2>2. s \in Seq(1 .. MaxInner)
    BY <2>1 DEF s
  <2>3. /\ a \in Seq(1 .. MaxInner) /\ Len(a) = Len(s) + 1 /\ a[Len(s) + 1] = n
        /\ Len(s) \in Nat /\ DOMAIN a = 1 .. Len(a)
    BY <1>2, <2>2, AppendProperties, LenProperties
  <2> HIDE DEF a
  <2>4. Len(s) + 1 \in DOMAIN a
    BY <2>3
  <2> QED BY <2>3, <2>4 DEF a, s, SweepCounts
<1> HIDE DEF n
<1>4. \/ fs' = Judged(fs, n, FALSE, fs.committed)
      \/ \E met \in BOOLEAN : fs' = Judged(fs, n, TRUE, Field(met, TRUE, TRUE))
      \/ n < MaxInner /\ fs' = [fs EXCEPT !.sweeps = n]
      \/ n = MaxInner /\ \E met \in BOOLEAN : fs' = Judged(fs, n, TRUE, Field(met, FALSE, TRUE))
  <2> DEFINE settled == {Judged(fs, n, TRUE, Field(met, TRUE, TRUE)) : met \in BOOLEAN}
             unsettled == {Judged(fs, n, TRUE, Field(met, FALSE, TRUE)) : met \in BOOLEAN}
  <2>1. fs' \in {Judged(fs, n, FALSE, fs.committed)} \union settled
                  \union IF n < MaxInner THEN {[fs EXCEPT !.sweeps = n]} ELSE unsettled
    BY DEF SweepOnce, Sweep, n
  <2>2. n < MaxInner \/ (~(n < MaxInner) /\ n = MaxInner)
    BY <1>2, ConstantsAssumption
  <2>3. fs' \in settled => \E met \in BOOLEAN : fs' = Judged(fs, n, TRUE, Field(met, TRUE, TRUE))
    BY Zenon
  <2>4. fs' \in unsettled => \E met \in BOOLEAN : fs' = Judged(fs, n, TRUE, Field(met, FALSE, TRUE))
    BY Zenon
  <2>5. \/ fs' = Judged(fs, n, FALSE, fs.committed)
        \/ fs' \in settled
        \/ n < MaxInner /\ fs' = [fs EXCEPT !.sweeps = n]
        \/ n = MaxInner /\ fs' \in unsettled
    <3> HIDE DEF settled, unsettled
    <3> QED BY <2>1, <2>2, Zenon
  <2> HIDE DEF settled, unsettled
  <2> QED BY <2>3, <2>4, <2>5, Zenon
<1>5. \A ok, f : fs' = Judged(fs, n, ok, f) /\ (ok => Sincere(f, Append(fs.iterations, n))) => SolveInv'
  BY <1>3 DEF Judged, SolveInv
<1>6. CASE fs' = Judged(fs, n, FALSE, fs.committed)
  BY <1>5, <1>6
<1>7. ASSUME NEW met \in BOOLEAN, fs' = Judged(fs, n, TRUE, Field(met, TRUE, TRUE)) PROVE SolveInv'
  <2>1. Sincere(Field(met, TRUE, TRUE), Append(fs.iterations, n))
    BY DEF Field, Sincere
  <2> QED BY <1>5, <1>7, <2>1
<1>8. CASE n < MaxInner /\ fs' = [fs EXCEPT !.sweeps = n]
  <2>1. fs' = [at |-> "inner", sweeps |-> n, iterations |-> fs.iterations, committed |-> fs.committed]
    BY <1>1, <1>8
  <2>2. n \in 0 .. MaxInner - 1
    BY <1>2, <1>8, ConstantsAssumption
  <2> QED BY <1>1, <2>1, <2>2 DEF SolveInv
<1>9. ASSUME n = MaxInner, NEW met \in BOOLEAN, fs' = Judged(fs, n, TRUE, Field(met, FALSE, TRUE))
      PROVE  SolveInv'
  <2>1. Sincere(Field(met, FALSE, TRUE), Append(fs.iterations, n))
    BY <1>3, <1>9 DEF Field, Sincere
  <2> QED BY <1>5, <1>9, <2>1
<1> QED BY <1>4, <1>6, <1>7, <1>8, <1>9

LEMMA JudgeKeeps ==
    ASSUME SolveInv, Judge
    PROVE  SolveInv'
<1>1. /\ fs.iterations \in SweepCounts /\ fs.at = "judge"
      /\ fs.ok => Sincere(fs.field, fs.iterations)
  BY DEF SolveInv, Judge
<1>2. \/ fs.ok /\ fs' = Ended("solved", fs.iterations, fs.field)
      \/ fs' = Ended("failed", fs.iterations, fs.committed)
      \/ \E c : fs' = Inner(fs.iterations, c)
  BY DEF Judge
<1>3. CASE fs.ok /\ fs' = Ended("solved", fs.iterations, fs.field)
  BY <1>1, <1>3 DEF Ended, SolveInv
<1>4. CASE fs' = Ended("failed", fs.iterations, fs.committed)
  BY <1>4 DEF Ended, SolveInv
<1>5. ASSUME NEW c, fs' = Inner(fs.iterations, c) PROVE SolveInv'
  <2>1. 0 \in 0 .. MaxInner - 1
    BY ConstantsAssumption
  <2> QED BY <1>1, <1>5, <2>1 DEF Inner, SolveInv
<1> QED BY <1>2, <1>3, <1>4, <1>5

LEMMA TargetForm ==
    ASSUME Inv
    PROVE  /\ target = Object(target, task.full, target.query)
           /\ target.full = task.full /\ task.full \in BOOLEAN
<1>1. target = Object(target, task.full, target.query)
  BY DEF Inv, TargetSound
<1>2. Object(target, task.full, target.query).full = task.full
  BY DEF Object
<1> QED BY <1>1, <1>2 DEF Inv, Typed

LEMMA ComputeKeeps ==
    ASSUME Inv, Compute PROVE Inv'
<1>1. /\ UNCHANGED <<task, turn, target, rows, proxies>>
      /\ phase = "built" /\ phase' \in {"raised", "computing"}
      /\ fs' = fs \/ StartFS
  <2>1. phase = "built" /\ UNCHANGED <<task, turn, target, rows, proxies>>
    BY DEF Compute
  <2>2. kind \in {FI, SRI, CF, GCI}
    BY <2>1, KindFacts DEF Inv, OnTurn, Working, kind
  <2>3. CASE phase' = "raised" /\ UNCHANGED fs
    BY <2>1, <2>3
  <2>4. CASE phase' = "computing" /\ (kind = FI => FullCompute) /\ (kind = SRI => SlowRollCompute)
             /\ (kind = CF => CompactionCompute) /\ (kind = GCI => GradientCompute)
    BY <2>1, <2>2, <2>4 DEF FullCompute, SlowRollCompute, CompactionCompute, GradientCompute
  <2> QED BY <2>2, <2>3, <2>4, KindFacts DEF Compute, FI, SRI, CF, GCI
<1>2. SolveInv'
  <2>1. CASE fs' = fs
    BY <2>1 DEF Inv, SolveInv
  <2>2. CASE StartFS
    BY <2>2, StartKeeps
  <2> QED BY <1>1, <2>1, <2>2
<1>3. /\ phase' \notin Known
      /\ phase' \in Working => phase' # "validated" /\ phase \in Working /\ phase # "validated"
  BY <1>1 DEF Known, Working
<1>4. target' = Object(target', task.full, target'.query)
  BY <1>1, TargetForm
<1> QED BY <1>1, <1>2, <1>3, <1>4, QuietStep

LEMMA SolverStepKeeps ==
    ASSUME Inv, SolverStep PROVE Inv'
<1>1. /\ UNCHANGED <<task, turn, target, rows, proxies, phase>>
      /\ phase = "computing" /\ (fs' = fs \/ SweepOnce \/ Judge)
  BY DEF SolverStep, NextFS
<1>2. SolveInv'
  <2>1. CASE fs' = fs
    BY <2>1 DEF Inv, SolveInv
  <2>2. CASE SweepOnce
    BY <2>2, SweepKeeps DEF Inv
  <2>3. CASE Judge
    BY <2>3, JudgeKeeps DEF Inv
  <2> QED BY <1>1, <2>1, <2>2, <2>3
<1>3. /\ phase' \notin Known /\ phase' # "validated" /\ phase \in Working /\ phase # "validated"
  BY <1>1 DEF Known, Working
<1>4. target' = Object(target', task.full, target'.query)
  BY <1>1, TargetForm
<1> QED BY <1>1, <1>2, <1>3, <1>4, QuietStep

\* What a worker computed may be stored
LEMMA TakeOverSound ==
    ASSUME Inv, Store
    PROVE  \/ phase' = "raised" /\ target' = target
           \/ /\ phase' = "populated"
              /\ \E result : target' = Object(result, target.full, target.query)
              /\ Sound(kind, target', Done)
<1> DEFINE f == target.full
           q == target.query
<1>0. Typed /\ SolveInv /\ Handed /\ KindSet = {FI, SRI, CF, GCI} /\ kind \in KindSet
  <2>1. phase \in Working
    BY DEF Store, Working
  <2>2. turn \in 1 .. 4
    BY <2>1 DEF Inv, OnTurn
  <2> QED BY <2>2, KindFacts DEF Inv, kind
<1>1. CASE kind = FI
  <2>1. /\ fs.at \in {"solved", "failed"} /\ phase' = "populated"
        /\ target' = Object(FullResult, f, q)
    BY <1>1 DEF Store, FI, FullTakeOver, TakeOver
  <2>2. Sound(FI, Object(FullResult, f, q), Done)
    BY <1>0, <2>1, FullResultSound
  <2> QED BY <1>1, <2>1, <2>2
<1>2. CASE kind = SRI
  <2>1. \/ phase' = "populated" /\ target' = Object(SlowRollResult, f, q)
        \/ phase' = "raised" /\ target' = target
    BY <1>2 DEF Store, SRI, SlowRollTakeOver, TakeOver
  <2>2. Sound(SRI, Object(SlowRollResult, f, q), Done)
    BY <1>0, SlowRollResultSound
  <2> QED BY <1>2, <2>1, <2>2
<1>3. CASE kind = CF
  <2>1. PICK downflow \in Downflows, shape \in Shapes,
             unmatched \in {{}, {1}, 1 .. Len(BuildNSample(task.point)) - 1} :
           TakeOver(CompactionResult(CompactionPaths(Densities(proxies["FullInstanton"], unmatched),
                       Densities(proxies["SlowRollInstanton"], unmatched), task.point.N_init, downflow, shape)))
    BY <1>3 DEF Store, CF, CompactionTakeOver
  <2> DEFINE a == Densities(proxies["FullInstanton"], unmatched)
             b == Densities(proxies["SlowRollInstanton"], unmatched)
             result == CompactionResult(CompactionPaths(a, b, task.point.N_init, downflow, shape))
  <2>2. phase' = "populated" /\ target' = Object(result, f, q)
    BY <2>1 DEF TakeOver
  <2>3. a # NULL /\ a # <<>> => FI \in Done
    <3>1. a # NULL /\ a # <<>> => proxies[FI] # NULL /\ proxies[FI].values # <<>>
      BY DensitiesNeedSamples DEF FI
    <3> QED BY <1>0, <3>1 DEF Handed
  <2>4. b # NULL /\ b # <<>> => SRI \in Done
    <3>1. b # NULL /\ b # <<>> => proxies[SRI] # NULL /\ proxies[SRI].values # <<>>
      BY DensitiesNeedSamples DEF SRI
    <3> QED BY <1>0, <3>1 DEF Handed
  <2>5. (a # NULL => Numbered(a)) /\ (b # NULL => Numbered(b))
    <3>1. ASSUME NEW k \in {FI, SRI}, Densities(proxies[k], unmatched) # NULL
          PROVE  Numbered(Densities(proxies[k], unmatched))
      <4>1. proxies[k] # NULL
        BY <3>1 DEF Densities
      <4> QED BY <1>0, <4>1, DensitiesNumbered DEF Handed
    <3> QED BY <3>1 DEF FI, SRI
  <2>6. task.point.N_init \in Int
    BY <1>0, ConstantsAssumption DEF Typed
  <2>7. Sound(CF, Object(result, f, q), Done)
    <3> DEFINE N == task.point.N_init
    <3> HIDE DEF a, b, N
    <3> QED BY <2>3, <2>4, <2>5, <2>6, CompactionResultSound DEF N
  <2> HIDE DEF result
  <2> QED BY <1>3, <2>2, <2>7
<1>4. CASE kind = GCI
  <2>1. PICK solved \in BOOLEAN, lost \in {{}, {1}}, raw \in Shapes, dense \in Shapes :
           TakeOver(GradientResult(solved, [j \in 1 .. Nodes |-> j \notin lost], raw, dense))
    BY <1>4 DEF Store, GCI, GradientTakeOver
  <2> DEFINE result == GradientResult(solved, [j \in 1 .. Nodes |-> j \notin lost], raw, dense)
  <2>2. phase' = "populated" /\ target' = Object(result, f, q)
    BY <2>1 DEF TakeOver
  <2>3. Sound(GCI, Object(result, f, q), Done)
    BY <1>0, GradientResultSound
  <2> HIDE DEF result
  <2> QED BY <1>4, <2>2, <2>3
<1> QED BY <1>0, <1>1, <1>2, <1>3, <1>4

LEMMA StoreKeeps ==
    ASSUME Inv, Store PROVE Inv'
<1>1. UNCHANGED <<task, turn, rows, proxies>> /\ phase = "computing" /\ fs'.at = "idle" /\ kind' = kind
  BY DEF Store, IdleFS, kind
<1>2. SolveInv'
  BY <1>1 DEF SolveInv
<1>3. target' = Object(target', task.full, target'.query)
  BY TakeOverSound, TargetForm, ObjectFields
<1>4. phase' \in Known => Sound(kind', target', Done)
  BY <1>1, TakeOverSound DEF Known
<1>5. phase' # "validated" /\ phase \in Working /\ phase # "validated"
  BY <1>1, TakeOverSound DEF Working
<1> QED BY <1>1, <1>2, <1>3, <1>4, <1>5, QuietStep

LEMMA AtTimeKeeps ==
    ASSUME Inv, NEW n, AtTime(n) PROVE Inv'
<1>1. UNCHANGED <<task, turn, target, rows, proxies, fs>> /\ phase' \in {"raised", "done"}
  BY DEF AtTime
<1>2. SolveInv'
  BY <1>1 DEF Inv, SolveInv
<1>3. phase' \notin Known /\ phase' \notin Working
  BY <1>1 DEF Known, Working
<1>4. target' = Object(target', task.full, target'.query)
  BY <1>1, TargetForm
<1> QED BY <1>1, <1>2, <1>3, <1>4, QuietStep

LEMMA StutterKeeps ==
    ASSUME Inv, UNCHANGED vars PROVE Inv'
BY DEF vars, Inv, Typed, SolveInv, TargetSound, RowsSound, Handed, OnTurn, Done, kind

\* Writing the row of the object at work keeps the rows sound
LEMMA PersistKeeps ==
    ASSUME Inv, Persist PROVE Inv'
<1> DEFINE row == Stored(kind, target)
<1>1. /\ phase = "populated" /\ phase' = "stored" /\ rows' = [rows EXCEPT ![kind] = @ \union {row}]
      /\ UNCHANGED <<task, turn, target, proxies, fs>> /\ kind' = kind
  BY DEF Persist, kind
<1>2. turn \in 1 .. 4 /\ kind \in KindSet
  BY <1>1, KindFacts DEF Inv, OnTurn, Working, kind
<1>3. Sound(kind, target, Done)
  BY <1>1 DEF Inv, TargetSound, Known
<1>4. ~row.validated /\ RowSound(kind, row, Done)
  BY <1>2, <1>3, StoredRow, RowOfSound
<1> HIDE DEF row
<1>5. \A k \in KindSet : rows'[k] = IF k = kind THEN rows[k] \union {row} ELSE rows[k]
  BY <1>1 DEF Inv, Typed
<1>6. Done \subseteq Done' /\ RowsSound'
  <2>1. \A k \in KindSet : \A r \in rows[k] : r.validated => r \in rows'[k]
    BY <1>5
  <2>2. \A k \in KindSet : \A r \in rows'[k] : r \in rows[k] \/ RowSound(k, r, Done)
    BY <1>4, <1>5
  <2> QED BY <2>1, <2>2, RowsChange
<1>7. Typed'
  BY <1>1 DEF Inv, Typed
<1>8. SolveInv'
  BY <1>1 DEF Inv, SolveInv
<1>9. TargetSound'
  <2>1. Sound(kind', target', Done')
    BY <1>1, <1>3, <1>6, SoundGrows
  <2>2. target' = Object(target', task'.full, target'.query)
    BY <1>1, TargetForm
  <2> QED BY <2>1, <2>2 DEF TargetSound
<1>10. Handed'
  BY <1>1, <1>6 DEF Inv, Handed
<1>11. OnTurn'
  <2>1. ASSUME NEW i \in 1 .. 4, NEW r \in rows'[Kinds[i]], r.validated PROVE i < turn
    <3>1. Kinds[i] \in KindSet
      BY KindFacts
    <3>2. r \in rows[Kinds[i]]
      BY <1>4, <1>5, <2>1, <3>1
    <3> QED BY <1>1, <2>1, <3>2 DEF Inv, OnTurn, Working
  <2> QED BY <1>1, <1>2, <2>1 DEF OnTurn
<1> QED BY <1>7, <1>8, <1>9, <1>6, <1>10, <1>11 DEF Inv

LEMMA ValidateKeeps ==
    ASSUME Inv, Validate PROVE Inv'
<1> DEFINE row == Stored(kind, target)
           valid == Validated(kind, target, row)
<1>1. /\ phase = "stored" /\ phase' = "validated"
      /\ rows' = [rows EXCEPT ![kind] = (@ \ {row}) \union {valid}]
      /\ UNCHANGED <<task, turn, target, proxies, fs>> /\ kind' = kind
  BY DEF Validate, kind
<1>2. turn \in 1 .. 4 /\ kind \in KindSet /\ kind = Kinds[turn]
  BY <1>1, KindFacts DEF Inv, OnTurn, Working, kind
<1>3. Sound(kind, target, Done)
  BY <1>1 DEF Inv, TargetSound, Known
<1>4. ~row.validated /\ RowSound(kind, valid, Done)
  BY <1>2, <1>3, StoredRow, ValidatedRow, RowOfSound
<1>5. valid = Validated(kind', target', Stored(kind', target'))
  BY <1>1
<1> HIDE DEF row, valid
<1>6. \A k \in KindSet : rows'[k] = IF k = kind THEN (rows[k] \ {row}) \union {valid} ELSE rows[k]
  BY <1>1 DEF Inv, Typed
<1>7. Done \subseteq Done' /\ RowsSound'
  <2>1. \A k \in KindSet : \A r \in rows[k] : r.validated => r \in rows'[k]
    BY <1>4, <1>6
  <2>2. \A k \in KindSet : \A r \in rows'[k] : r \in rows[k] \/ RowSound(k, r, Done)
    BY <1>4, <1>6
  <2> QED BY <2>1, <2>2, RowsChange
<1>8. Typed'
  BY <1>1 DEF Inv, Typed
<1>9. SolveInv'
  BY <1>1 DEF Inv, SolveInv
<1>10. TargetSound'
  <2>1. Sound(kind', target', Done')
    BY <1>1, <1>3, <1>7, SoundGrows
  <2>2. target' = Object(target', task'.full, target'.query)
    BY <1>1, TargetForm
  <2> QED BY <2>1, <2>2 DEF TargetSound
<1>11. Handed'
  BY <1>1, <1>7 DEF Inv, Handed
<1>12. OnTurn'
  <2>1. ASSUME NEW i \in 1 .. 4, NEW r \in rows'[Kinds[i]], r.validated
        PROVE  i < turn \/ (i = turn /\ r = valid)
    <3>1. Kinds[i] \in KindSet /\ (Kinds[i] = kind => i = turn)
      BY <1>2, KindFacts
    <3>2. r \in rows[Kinds[i]] \/ (i = turn /\ r = valid)
      BY <1>6, <2>1, <3>1
    <3> QED BY <1>1, <2>1, <3>2 DEF Inv, OnTurn, Working
  <2>2. valid \in rows'[kind']
    BY <1>1, <1>2, <1>6
  <2> QED BY <1>1, <1>2, <1>5, <2>1, <2>2 DEF OnTurn
<1> QED BY <1>7, <1>8, <1>9, <1>10, <1>11, <1>12 DEF Inv

LEMMA FreshForm ==
    \A full : Fresh(full) = Object(Fresh(full), full, Fresh(full).query)
BY DEF Fresh, Object

\* Samples that are handed on are those of an object that is stored as a success
LEMMA HandedIsSolved ==
    ASSUME Inv, phase = "validated", kind \in {FI, SRI},
           NEW handed \in {target} \union {Fetched(kind, rows[kind], mode) : mode \in Modes(kind)},
           handed # NULL
    PROVE  InPlace(handed.values) /\ (handed.values # <<>> => kind \in Done)
<1> DEFINE k == kind
           row == Validated(k, target, Stored(k, target))
<1>1. /\ k \in KindSet /\ row \in rows[k] /\ row.validated /\ RowOf(row, k, target)
      /\ \A r \in rows[k] : r.validated => r = row
      /\ Sound(k, target, Done)
  BY OwnRow
<1> HIDE DEF row, k
<1>2. handed.values = target.values \/ handed.values = <<>>
  <2>1. CASE handed = target
    BY <2>1
  <2>2. ASSUME NEW mode \in Modes(k), handed = Fetched(k, rows[k], mode)
        PROVE  handed.values = target.values \/ handed.values = <<>>
    <3>1. handed.values = row.values \/ handed.values = <<>>
      BY <1>1, <2>2, FetchedFacts
    <3>2. row.values = target.values \/ row.values = <<>>
      BY <1>1 DEF RowOf
    <3> QED BY <3>1, <3>2
  <2> QED BY <2>1, <2>2 DEF k
<1>3. InPlace(handed.values)
  <2>1. InPlace(target.values)
    BY <1>1, KindFacts DEF Sound, k
  <2>2. InPlace(<<>>)
    BY DEF InPlace
  <2> QED BY <1>2, <2>1, <2>2
<1> SUFFICES ASSUME handed.values # <<>> PROVE k \in Done
  BY <1>3 DEF k
<1>4. ~target.failure
  BY <1>1, <1>2 DEF Sound
<1>5. row.scalars # NULL
  BY <1>1, <1>4, KindFacts DEF RowOf, Sound, k
<1> QED BY <1>1, <1>5 DEF Done, k

LEMMA HandOnKeeps ==
    ASSUME Inv, HandOn PROVE Inv'
<1>1. PICK handed \in {target} \union {Fetched(kind, rows[kind], mode) : mode \in Modes(kind)} :
          IF handed = NULL THEN phase' = "raised" /\ UNCHANGED <<turn, target, proxies>>
          ELSE /\ proxies' = [proxies EXCEPT ![kind] = Object(handed, task.full, FALSE)]
               /\ turn' = turn + 1 /\ target' = Fresh(task.full)
               /\ phase' = IF turn = Len(Kinds) THEN "done" ELSE "built"
  BY DEF HandOn
<1>2. phase = "validated" /\ UNCHANGED <<task, rows, fs>>
  BY DEF HandOn
<1>3. SolveInv'
  BY <1>2 DEF Inv, SolveInv
<1>4. CASE handed = NULL
  <2>1. phase' = "raised" /\ UNCHANGED <<turn, target, proxies>>
    BY <1>1, <1>4
  <2>2. target' = Object(target', task.full, target'.query)
    BY <2>1, TargetForm
  <2>3. phase' \notin Known /\ phase' \notin Working
    BY <2>1 DEF Known, Working
  <2> QED BY <1>2, <1>3, <2>1, <2>2, <2>3, QuietStep
<1>5. CASE handed # NULL
  <2> DEFINE proxy == Object(handed, task.full, FALSE)
  <2>1. /\ proxies' = [proxies EXCEPT ![kind] = proxy]
        /\ turn' = turn + 1 /\ target' = Fresh(task.full)
        /\ phase' = IF turn = Len(Kinds) THEN "done" ELSE "built"
    BY <1>1, <1>5
  <2>2. proxy.values = handed.values
    BY DEF Object
  <2> HIDE DEF proxy
  <2>3. Done' = Done
    BY <1>2 DEF Done
  <2>4. turn \in 1 .. 4 /\ kind = Kinds[turn] /\ Len(Kinds) = 4
    BY <1>2 DEF Inv, OnTurn, Working, kind, Kinds
  <2>5. Typed'
    BY <1>2, <2>1 DEF Inv, Typed
  <2>6. TargetSound'
    <3>1. phase' \notin Known
      BY <2>1 DEF Known
    <3> QED BY <1>2, <2>1, <3>1, FreshForm DEF TargetSound
  <2>7. RowsSound'
    BY <1>2, <2>3 DEF Inv, RowsSound
  <2>8. Handed'
    <3> SUFFICES ASSUME NEW k \in {FI, SRI}, proxies'[k] # NULL
                 PROVE  InPlace(proxies'[k].values) /\ (proxies'[k].values # <<>> => k \in Done)
      BY <2>3 DEF Handed
    <3>1. k \in KindSet
      BY KindFacts
    <3>2. CASE k = kind
      <4>1. proxies'[k] = proxy
        BY <2>1, <3>1, <3>2 DEF Inv, Typed
      <4>2. proxies'[k].values = handed.values
        BY <2>2, <4>1
      <4> QED BY <1>2, <1>5, <3>2, <4>2, HandedIsSolved
    <3>3. CASE k # kind
      <4>1. proxies'[k] = proxies[k]
        BY <2>1, <3>1, <3>3 DEF Inv, Typed
      <4> QED BY <4>1 DEF Inv, Handed
    <3> QED BY <3>2, <3>3
  <2>9. OnTurn'
    <3>1. ASSUME NEW i \in 1 .. 4, NEW r \in rows[Kinds[i]], r.validated PROVE i < turn + 1
      <4>1. i < turn \/ i = turn
        BY <1>2, <3>1 DEF Inv, OnTurn, Working
      <4> QED BY <2>4, <4>1
    <3>2. phase' = "done" \/ (phase' = "built" /\ turn + 1 \in 1 .. 4)
      BY <2>1, <2>4
    <3> QED BY <1>2, <2>1, <3>1, <3>2 DEF OnTurn, Working
  <2> QED BY <1>3, <2>5, <2>6, <2>7, <2>8, <2>9 DEF Inv
<1> QED BY <1>4, <1>5

LEMMA RestartKeeps ==
    ASSUME Inv, Restart PROVE Inv'
<1>1. /\ phase \in {"computing", "populated", "stored"} /\ phase' = "built" /\ rows' \in {rows, Pruned(rows)}
      /\ target' = Fresh(task.full) /\ fs'.at = "idle" /\ UNCHANGED <<task, turn, proxies>>
  BY DEF Restart, IdleFS
<1>2. /\ \A k \in KindSet : /\ rows'[k] \subseteq rows[k]
                            /\ \A r \in rows[k] : r.validated => r \in rows'[k]
      /\ rows' = [k \in KindSet |-> rows'[k]]
  <2>1. CASE rows' = rows
    BY <2>1 DEF Inv, Typed
  <2>2. CASE rows' = Pruned(rows)
    <3>1. \A k \in KindSet : rows'[k] = {r \in rows[k] : r.validated}
      BY <2>2, KindFacts DEF Pruned, FullPruned, SlowRollPruned, CompactionPruned, GradientPruned,
                             FI, SRI, CF, GCI
    <3>2. DOMAIN rows' = KindSet
      BY <2>2, KindFacts DEF Pruned, FI, SRI, CF, GCI
    <3>3. rows' = [k \in DOMAIN rows' |-> rows'[k]]
      BY <2>2 DEF Pruned
    <3> QED BY <3>1, <3>2, <3>3
  <2> QED BY <1>1, <2>1, <2>2
<1>3. Done \subseteq Done' /\ RowsSound'
  BY <1>2, RowsChange
<1>4. Typed'
  BY <1>1, <1>2 DEF Inv, Typed
<1>5. SolveInv'
  BY <1>1 DEF SolveInv
<1>6. TargetSound'
  BY <1>1, FreshForm DEF TargetSound, Known
<1>7. Handed'
  BY <1>1, <1>3 DEF Inv, Handed
<1>8. OnTurn'
  <2>1. phase \in Working /\ phase # "validated"
    BY <1>1 DEF Working
  <2>2. ASSUME NEW i \in 1 .. 4, NEW r \in rows'[Kinds[i]], r.validated PROVE i < turn
    <3>1. r \in rows[Kinds[i]]
      BY <1>2, KindFacts
    <3> QED BY <2>1, <2>2, <3>1 DEF Inv, OnTurn
  <2> QED BY <1>1, <2>1, <2>2 DEF Inv, OnTurn
<1> QED BY <1>3, <1>4, <1>5, <1>6, <1>7, <1>8 DEF Inv

LEMMA InvAlways == Spec => []Inv
<1>1. Init => Inv
  <2> SUFFICES ASSUME Init PROVE Inv
    OBVIOUS
  <2>1. /\ task \in [point : Tasks, full : BOOLEAN] /\ turn = 1 /\ phase = "built"
        /\ target = Fresh(task.full) /\ fs.at = "idle"
        /\ rows = [k \in KindSet |-> {}] /\ proxies = [k \in KindSet |-> NULL]
    BY DEF Init, IdleFS
  <2>2. Typed
    BY <2>1 DEF Typed
  <2>3. SolveInv
    BY <2>1 DEF SolveInv
  <2>4. TargetSound
    BY <2>1, FreshForm DEF TargetSound, Known
  <2>5. RowsSound
    BY <2>1 DEF RowsSound
  <2>6. Handed
    BY <2>1, KindFacts DEF Handed
  <2>7. OnTurn
    BY <2>1, KindFacts DEF OnTurn
  <2> QED BY <2>2, <2>3, <2>4, <2>5, <2>6, <2>7 DEF Inv
<1>2. ASSUME Inv, [Next]_vars PROVE Inv'
  <2>1. CASE AskFirst
    BY <1>2, <2>1, AskFirstKeeps
  <2>2. CASE Compute
    BY <1>2, <2>2, ComputeKeeps
  <2>3. CASE SolverStep
    BY <1>2, <2>3, SolverStepKeeps
  <2>4. CASE Store
    BY <1>2, <2>4, StoreKeeps
  <2>5. CASE Persist
    BY <1>2, <2>5, PersistKeeps
  <2>6. CASE Validate
    BY <1>2, <2>6, ValidateKeeps
  <2>7. CASE HandOn
    BY <1>2, <2>7, HandOnKeeps
  <2>8. CASE Restart
    BY <1>2, <2>8, RestartKeeps
  <2>9. CASE \E n \in {0, N_total(task.point)} : AtTime(n)
    BY <1>2, <2>9, AtTimeKeeps
  <2>10. CASE UNCHANGED vars
    BY <1>2, <2>10, StutterKeeps
  <2> QED BY <1>2, <2>1, <2>2, <2>3, <2>4, <2>5, <2>6, <2>7, <2>8, <2>9, <2>10 DEF Next, Finished
<1> QED BY <1>1, <1>2, PTL DEF Spec

-----------------------------------------------------------------------------
(***************************************************************************)
(* The samples of a stored instanton are at the e-folds they were computed *)
(* at, for any grid: the worker leaves out no point but the last, so that  *)
(* pairing by position goes wrong for none.                                *)
(***************************************************************************)
THEOREM ValuesAlwaysWhereComputed == Spec => []ValuesWhereComputed
<1>1. ASSUME Inv PROVE ValuesWhereComputed
  <2> SUFFICES ASSUME NEW row \in InstantonRows PROVE InPlace(row.values)
    BY DEF ValuesWhereComputed, InPlace
  <2>1. \E k \in {FI, SRI, GCI} : row \in rows[k]
    BY DEF InstantonRows, FI, SRI, GCI
  <2> QED BY <1>1, <2>1, KindFacts DEF Inv, RowsSound, RowSound
<1> QED BY <1>1, InvAlways, PTL

(***************************************************************************)
(* What is fetched with its samples is what was stored, whatever was       *)
(* killed and pruned before: a row that lacks samples raises.              *)
(***************************************************************************)
THEOREM FetchAlwaysGivesTheResult == Spec => []FetchGivesTheResult
<1> QED BY InvAlways, FetchAgrees, PTL

(***************************************************************************)
(* A success rests on successes: a full instanton on sweeps that all came  *)
(* through, a path of a compaction function and the seed of a gradient-    *)
(* coupled instanton on an instanton that is stored as a success.          *)
(***************************************************************************)
THEOREM SuccessAlwaysOnSuccess == Spec => []SuccessOnSuccess
<1>1. ASSUME Inv PROVE SuccessOnSuccess
  <2> DEFINE solved(k) == \E row \in rows[k] : row.validated /\ row.scalars # NULL
  <2>1. \A k \in Done : solved(k)
    BY DEF Done
  <2>2. \A k \in KindSet : \A row \in rows[k] : RowSound(k, row, Done)
    BY <1>1 DEF Inv, RowsSound
  <2> HIDE DEF solved
  <2>3. \A row \in rows[FI] : row.scalars # NULL => Earned(row.diagnostics)
    BY <2>2, KindFacts DEF RowSound
  <2>4. \A row \in rows[CF] : /\ ~row.scalars.full.failure => solved(FI)
                              /\ ~row.scalars.slow_roll.failure => solved(SRI)
    BY <2>1, <2>2, KindFacts DEF RowSound, Founded
  <2>5. \A row \in rows[GCI] : row.diagnostics.seeded => solved(FI)
    BY <2>1, <2>2, KindFacts DEF RowSound
  <2> QED BY <2>3, <2>4, <2>5 DEF SuccessOnSuccess, Earned, solved, FI, SRI, CF, GCI
<1> QED BY <1>1, InvAlways, PTL

(***************************************************************************)
(* The masses of a path follow its radii, on any profile: the samples are  *)
(* sorted by radius, so that the peak, which is over the threshold if      *)
(* anything is, does not lie outside of the outermost radius that is.      *)
(***************************************************************************)
THEOREM MassesAlwaysFollowRadii == Spec => []MassesFollowRadii
<1>1. ASSUME Inv PROVE MassesFollowRadii
  <2>1. \A row \in rows[CF] : Follows(row.scalars.full) /\ Follows(row.scalars.slow_roll)
    BY <1>1, KindFacts DEF Inv, RowsSound, RowSound, BothFollow
  <2> QED BY <2>1 DEF MassesFollowRadii, Follows, CF
<1> QED BY <1>1, InvAlways, PTL

-----------------------------------------------------------------------------
(* The end of the samples. *)

\* All samples have what comes last at N_total
LEMMA SamplesReach ==
    ASSUME NEW t \in Tasks, Clear(t)
    PROVE  LET s == BuildNSample(t)
               out == Output(s, N_total(t))
           IN  /\ Last(PairedValues(s, out)).N = N_total(t)
               /\ Last(KeyedValues(s, out)).N = N_total(t)
<1> DEFINE s == BuildNSample(t)
           out == Output(s, N_total(t))
<1>1. /\ s \in Seq(Nat) /\ out \in Seq(Nat) /\ Len(out) = Len(s) /\ Len(s) >= 1
      /\ \A i \in 1 .. Len(out) : out[i] = s[i]
      /\ s[Len(s)] = N_total(t) /\ N_total(t) \in Nat
  BY SampleRange, OutputIsPrefix
<1> HIDE DEF s, out
<1>2. DOMAIN s = 1 .. Len(s) /\ DOMAIN out = 1 .. Len(s) /\ Len(s) \in Nat
  BY <1>1, LenProperties
<1>3. PairedValues(s, out) = [i \in 1 .. Len(s) |-> [N |-> s[i], at |-> out[i]]]
  BY <1>1, <1>2 DEF PairedValues
<1>4. KeyedValues(s, out) = [i \in 1 .. Len(s) |-> [N |-> out[i], at |-> out[i]]]
  <2>1. ASSUME NEW i \in DOMAIN out PROVE s[CHOOSE k \in DOMAIN s : s[k] = out[i]] = out[i]
    <3>1. i \in DOMAIN s /\ s[i] = out[i]
      BY <1>1, <1>2
    <3> QED BY <3>1
  <2> QED BY <1>2, <2>1 DEF KeyedValues
<1>5. ASSUME NEW f, DOMAIN f = 1 .. Len(s) PROVE Last(f) = f[Len(s)]
  <2>1. Len(f) = Len(s)
    BY <1>2, <1>5
  <2> QED BY <2>1 DEF Last
<1>6. Last(PairedValues(s, out)).N = s[Len(s)]
  <2>1. Last(PairedValues(s, out)) = PairedValues(s, out)[Len(s)]
    BY <1>3, <1>5
  <2> QED BY <1>1, <1>2, <1>3, <2>1
<1>7. Last(KeyedValues(s, out)).N = s[Len(s)]
  <2>1. Last(KeyedValues(s, out)) = KeyedValues(s, out)[Len(s)]
    BY <1>4, <1>5
  <2> QED BY <1>1, <1>2, <1>4, <2>1
<1> QED BY <1>1, <1>6, <1>7 DEF s, out

\* The objects of a clear grid point
LEMMA TakeOverReaches ==
    ASSUME Inv, Store, Clear(task.point), phase' \in Known, kind # CF
    PROVE  Reaches(target'.values)
<1> DEFINE t == task.point
           s == BuildNSample(t)
           out == Output(s, N_total(t))
           Reached(v) == v = <<>> \/ v = PairedValues(s, out) \/ v = KeyedValues(s, out)
<1>1. t \in Tasks /\ kind \in {FI, SRI, GCI}
  <2>1. turn \in 1 .. 4
    BY DEF Inv, OnTurn, Store, Working
  <2> QED BY <2>1, KindFacts DEF Inv, Typed, kind
<1>2. \A v : Reached(v) => Reaches(v)
  BY <1>1, SampleRange, SamplesReach DEF Reaches
<1> HIDE DEF s, out
<1>3. \A d : FailureResult(d).values = <<>>
  BY DEF FailureResult
<1>4. CASE kind = FI
  <2>1. target' = Object(FullResult, target.full, target.query)
    BY <1>4 DEF Store, FI, FullTakeOver, TakeOver
  <2>2. Reached(FullResult.values)
    BY <1>3 DEF FullResult, s, out
  <2> QED BY <1>2, <2>1, <2>2, ObjectFields
<1>5. CASE kind = SRI
  <2>1. target' = Object(SlowRollResult, target.full, target.query)
    BY <1>5 DEF Store, SRI, SlowRollTakeOver, TakeOver, Known
  <2>2. Reached(SlowRollResult.values)
    BY <1>3 DEF SlowRollResult, s, out
  <2> QED BY <1>2, <2>1, <2>2, ObjectFields
<1>6. CASE kind = GCI
  <2>1. PICK solved \in BOOLEAN, lost \in {{}, {1}}, raw \in Shapes, dense \in Shapes :
           target' = Object(GradientResult(solved, [j \in 1 .. Nodes |-> j \notin lost], raw, dense),
                            target.full, target.query)
    BY <1>6 DEF Store, GCI, GradientTakeOver, TakeOver
  <2>2. Reached(GradientResult(solved, [j \in 1 .. Nodes |-> j \notin lost], raw, dense).values)
    BY <1>3 DEF GradientResult, s, out
  <2> QED BY <1>2, <2>1, <2>2, ObjectFields
<1> QED BY <1>1, <1>4, <1>5, <1>6

LEMMA RowsReach ==
    EndpointKept <=> \A k \in {FI, SRI, GCI} : \A row \in rows[k] : Reaches(row.values)
BY DEF EndpointKept, InstantonRows, Reaches, FI, SRI, GCI

\* A row has the samples of its object, or none
LEMMA OwnRowReaches ==
    ASSUME NEW row, NEW k, NEW obj, RowOf(row, k, obj), Reaches(obj.values)
    PROVE  Reaches(row.values)
BY DEF RowOf, Reaches

LEMMA EndInvKept ==
    ASSUME Inv, Clear(task.point), EndInv, [Next]_vars
    PROVE  EndInv'
<1>1. task' = task
  BY DEF Next, vars, AskFirst, Compute, SolverStep, Store, Persist, Validate, HandOn, Restart, AtTime,
         Finished
<1>2. \A v : Reaches(v)' <=> Reaches(v)
  BY <1>1 DEF Reaches, N_total
<1>3. \A k \in {FI, SRI, GCI} : \A row \in rows[k] : Reaches(row.values)
  BY RowsReach DEF EndInv
<1>4. ASSUME \A k \in {FI, SRI, GCI} : \A row \in rows'[k] : row \in rows[k] \/ Reaches(row.values)
      PROVE  EndpointKept'
  <2>1. \A k \in {FI, SRI, GCI} : \A row \in rows'[k] : Reaches(row.values)
    BY <1>3, <1>4
  <2>2. (\A k \in {FI, SRI, GCI} : \A row \in rows[k] : Reaches(row.values))'
    BY <1>2, <2>1
  <2> QED BY <2>2, RowsReach, PTL
<1>5. CASE \/ AskFirst \/ Compute \/ SolverStep \/ HandOn \/ UNCHANGED vars
           \/ \E n \in {0, N_total(task.point)} : AtTime(n)
  <2>1. rows' = rows
    BY <1>5 DEF AskFirst, Compute, SolverStep, HandOn, AtTime, vars
  <2>2. phase' \in Known => phase' = phase /\ target' = target /\ turn' = turn
    BY <1>5 DEF AskFirst, Compute, SolverStep, HandOn, AtTime, vars, Known
  <2>3. EndpointKept'
    BY <1>4, <2>1
  <2> QED BY <1>2, <2>2, <2>3 DEF EndInv, kind
<1>6. CASE Store
  <2>1. UNCHANGED <<rows, turn>>
    BY <1>6 DEF Store
  <2>2. phase' \in Known /\ kind # CF => Reaches(target'.values)
    BY <1>6, TakeOverReaches
  <2>3. EndpointKept'
    BY <1>4, <2>1
  <2> QED BY <1>2, <2>1, <2>2, <2>3 DEF EndInv, kind
<1>7. CASE Persist \/ Validate
  <2>1. /\ phase \in Known /\ phase \in Working /\ UNCHANGED <<turn, target>>
    BY <1>7 DEF Persist, Validate, Known, Working
  <2>2. turn \in 1 .. 4 /\ kind \in KindSet /\ Sound(kind, target, Done)
    BY <2>1, KindFacts DEF Inv, OnTurn, TargetSound, kind
  <2>3. /\ RowOf(Stored(kind, target), kind, target)
        /\ RowOf(Validated(kind, target, Stored(kind, target)), kind, target)
    BY <2>2, StoredRow, ValidatedRow
  <2>4. kind # CF => Reaches(target.values)
    BY <2>1 DEF EndInv
  <2>5. kind # CF => /\ Reaches(Stored(kind, target).values)
                     /\ Reaches(Validated(kind, target, Stored(kind, target)).values)
    BY <2>3, <2>4, OwnRowReaches
  <2>6. \A k \in KindSet : \A row \in rows'[k] :
            \/ row \in rows[k]
            \/ k = kind /\ (\/ row = Stored(kind, target)
                            \/ row = Validated(kind, target, Stored(kind, target)))
    BY <1>7 DEF Persist, Validate, Inv, Typed
  <2>7. EndpointKept'
    BY <1>4, <2>5, <2>6, KindFacts
  <2> QED BY <1>2, <2>1, <2>4, <2>7 DEF EndInv, kind
<1>8. CASE Restart
  <2>1. rows' \in {rows, Pruned(rows)} /\ phase' \notin Known
    BY <1>8 DEF Restart, Known
  <2>2. \A k \in KindSet : rows'[k] \subseteq rows[k]
    <3>1. CASE rows' = Pruned(rows)
      BY <3>1, KindFacts DEF Pruned, FullPruned, SlowRollPruned, CompactionPruned, GradientPruned,
                             FI, SRI, CF, GCI
    <3> QED BY <2>1, <3>1
  <2>3. EndpointKept'
    BY <1>4, <2>2, KindFacts
  <2> QED BY <2>1, <2>3 DEF EndInv
<1> QED BY <1>5, <1>6, <1>7, <1>8 DEF Next, Finished

(***************************************************************************)
(* What _build_N_sample says of the samples holds at every grid point at   *)
(* which no multiple of the step agrees with N_total up to rounding        *)
(* without being N_total: the last sample is the end of the transition.    *)
(***************************************************************************)
THEOREM EndpointsAreKeptIfClear ==
    ASSUME \A t \in Tasks : Clear(t)
    PROVE  Spec => []EndpointKept
<1>1. Init => EndInv
  <2> SUFFICES ASSUME Init PROVE EndInv
    OBVIOUS
  <2>1. phase = "built" /\ rows = [k \in KindSet |-> {}]
    BY DEF Init
  <2>2. EndpointKept
    BY <2>1, RowsReach, KindFacts
  <2> QED BY <2>1, <2>2 DEF EndInv, Known
<1>2. Inv => Clear(task.point)
  BY DEF Inv, Typed
<1>3. Inv /\ EndInv /\ [Next]_vars => EndInv'
  BY <1>2, EndInvKept
<1>4. EndInv => EndpointKept
  BY DEF EndInv
<1> QED BY <1>1, <1>3, <1>4, InvAlways, PTL DEF Spec

=============================================================================
