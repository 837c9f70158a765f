--------------------------- MODULE LibraryProofs ----------------------------
(***************************************************************************)
(* What the operators of the community modules do that the specifications  *)
(* are built from, and that are defined by recursion: FlattenSeq and       *)
(* FoldLeft. The induction is that of a smallest counterexample. And what  *)
(* those of Maps do.                                                       *)
(***************************************************************************)
EXTENDS Maps, Integers, Sequences, SequencesExt, FiniteSetTheorems, SequenceTheorems, WellFoundedInduction, TLAPS

\* Of a set of numbers there is a least, and of finite sets a smallest.
LEMMA LeastNumber ==
  ASSUME NEW T, T \subseteq Nat, T # {}
  PROVE  \E n \in T : \A m \in T : n <= m
<1>1. \E n \in T : \A m \in T : ~ (<<m, n>> \in OpToRel(<, Nat))
  BY NatLessThanWellFounded, WFMin
<1>2. \A m, n \in T : m < n => <<m, n>> \in OpToRel(<, Nat)
  BY DEF OpToRel
<1>3. \A m, n \in T : ~ (m < n) => n <= m
  OBVIOUS
<1> QED BY <1>1, <1>2, <1>3

LEMMA SmallestSet ==
  ASSUME NEW S, IsFiniteSet(S), NEW T, T \subseteq SUBSET S, T # {}
  PROVE  \E s \in T : \A r \in T : r \subseteq s => r = s
<1>1. T \subseteq FiniteSubsetsOf(S)
  BY FS_Subset DEF FiniteSubsetsOf
<1>2. \E s \in T : \A r \in T : ~ (<<r, s>> \in StrictSubsetOrdering(S))
  BY <1>1, FS_StrictSubsetOrderingWellFounded, WFMin
<1>3. \A r, s \in T : r \subseteq s /\ r # s => <<r, s>> \in StrictSubsetOrdering(S)
  BY DEF StrictSubsetOrdering
<1> QED BY <1>2, <1>3

\* What holds for 0, and for i + 1 when it holds for i, holds up to n.
LEMMA Upwards ==
  ASSUME NEW n \in Nat, NEW T \in SUBSET (0..n), 0 \in T,
         \A i \in 0..n : i < n /\ i \in T => i + 1 \in T
  PROVE  T = 0..n
<1> DEFINE M == (0..n) \ T
<1>1. ASSUME M # {} PROVE FALSE
  <2>1. M \subseteq Nat
    OBVIOUS
  <2>2. PICK m \in M : \A k \in M : m <= k
    <3> HIDE DEF M
    <3> QED BY <1>1, <2>1, LeastNumber
  <2>3. m # 0 /\ m \in Nat /\ m <= n
    BY <2>2
  <2>4. m - 1 \in 0..n /\ m - 1 < n /\ m - 1 \notin M
    BY <2>2, <2>3
  <2> QED BY <2>2, <2>3, <2>4
<1> QED BY <1>1

\* The greatest of some positions.
LEMMA MaxIs ==
  ASSUME NEW n \in Nat, NEW r, r \subseteq 1..n, r # {}
  PROVE  Max(r) \in r /\ \A i \in r : i <= Max(r)
<1> DEFINE T == {n - i : i \in r}
<1>0. \A i \in r : i \in Int /\ i >= 1 /\ i <= n
  OBVIOUS
<1>1. T \subseteq Nat /\ T # {}
  <2>1. \A i \in r : n - i \in Nat
    BY <1>0
  <2> QED BY <2>1
<1>2. PICK k \in T : \A j \in T : k <= j
  <2> HIDE DEF T
  <2> QED BY <1>1, LeastNumber
<1>3. PICK x \in r : k = n - x
  BY <1>2
<1>4. \A i \in r : x >= i
  <2> TAKE i \in r
  <2>1. n - i \in T
    OBVIOUS
  <2>2. k <= n - i
    BY <1>2, <2>1
  <2> HIDE DEF T
  <2> QED BY <1>0, <1>3, <2>2
<1>5. \E y \in r : \A i \in r : y >= i
  BY <1>3, <1>4
<1>6. Max(r) \in r /\ \A i \in r : Max(r) >= i
  BY <1>5 DEF Max
<1> QED BY <1>6

-----------------------------------------------------------------------------
(* FlattenSeq. *)

\* The sequences s[1], s[1] \o s[2], ... up to the n-th.
Joined(f, s, n) == f = [i \in 1..n |-> IF i = 1 THEN s[i] ELSE f[i - 1] \o s[i]]

LEMMA JoinedExists ==
  ASSUME NEW s, NEW n \in Nat
  PROVE  \E f : Joined(f, s, n)
<1> DEFINE T == {m \in Nat : ~ \E f : Joined(f, s, m)}
<1>1. CASE n \in T
  <2>1. PICK m \in T : \A k \in T : m <= k
    BY <1>1, LeastNumber
  <2>2. m # 0
    <3> DEFINE g == [i \in 1..0 |-> s[i]]
    <3>1. g = [i \in 1..0 |-> IF i = 1 THEN s[i] ELSE g[i - 1] \o s[i]]
      OBVIOUS
    <3>2. Joined(g, s, 0)
      BY <3>1 DEF Joined
    <3> QED BY <3>2
  <2>3. m - 1 \in Nat /\ ~ (m - 1 \in T)
    BY <2>1, <2>2
  <2>4. PICK f : Joined(f, s, m - 1)
    BY <2>3
  <2> DEFINE g == [i \in 1..m |-> IF i = m THEN IF m = 1 THEN s[m] ELSE f[m - 1] \o s[m] ELSE f[i]]
  <2>5. \A i \in 1..(m - 1) : f[i] = IF i = 1 THEN s[i] ELSE f[i - 1] \o s[i]
    BY <2>3, <2>4 DEF Joined
  <2>6. ASSUME NEW i \in 1..m PROVE g[i] = IF i = 1 THEN s[i] ELSE g[i - 1] \o s[i]
    <3>1. CASE i = m
      BY <3>1, <2>2
    <3>2. CASE i # m
      <4>1. i \in 1..(m - 1) /\ g[i] = f[i]
        BY <3>2
      <4>2. CASE i = 1
        BY <4>1, <4>2, <2>5
      <4>3. CASE i # 1
        <5>1. i - 1 \in 1..m /\ i - 1 # m
          BY <4>1, <4>3
        <5>2. g[i - 1] = f[i - 1]
          BY <5>1
        <5> QED BY <4>1, <4>3, <5>2, <2>5
      <4> QED BY <4>2, <4>3
    <3> QED BY <3>1, <3>2
  <2>7. g = [i \in 1..m |-> g[i]]
    OBVIOUS
  <2> HIDE DEF g
  <2>8. g = [i \in 1..m |-> IF i = 1 THEN s[i] ELSE g[i - 1] \o s[i]]
    BY <2>6, <2>7
  <2>9. Joined(g, s, m)
    BY <2>8 DEF Joined
  <2> QED BY <2>1, <2>9
<1>2. CASE n \notin T
  BY <1>2
<1> QED BY <1>1, <1>2

LEMMA JoinedIn ==
  ASSUME NEW S, NEW n \in Nat, NEW s, \A i \in 1..n : s[i] \in Seq(S),
         NEW f, Joined(f, s, n)
  PROVE  \A i \in 1..n : f[i] \in Seq(S)
<1> DEFINE T == {i \in 1..n : f[i] \notin Seq(S)}
<1>1. ASSUME T # {} PROVE FALSE
  <2>0. T \subseteq Nat
    OBVIOUS
  <2>1. PICK m \in T : \A k \in T : m <= k
    <3> HIDE DEF T
    <3> QED BY <1>1, <2>0, LeastNumber
  <2>2. f[m] = IF m = 1 THEN s[m] ELSE f[m - 1] \o s[m]
    BY <2>1 DEF Joined
  <2>3. CASE m = 1
    BY <2>2, <2>3
  <2>4. CASE m # 1
    <3>1. m - 1 \in 1..n /\ ~ (m - 1 \in T)
      BY <2>1, <2>4
    <3>2. f[m - 1] \in Seq(S) /\ s[m] \in Seq(S)
      BY <3>1
    <3>3. f[m - 1] \o s[m] \in Seq(S)
      BY <3>2, ConcatProperties
    <3> QED BY <3>3, <2>1, <2>2, <2>4
  <2> QED BY <2>3, <2>4
<1> QED BY <1>1

\* A sequence of sequences over S is flattened to a sequence over S.
LEMMA FlattenIn ==
  ASSUME NEW S, NEW n \in Nat, NEW s, s = [i \in 1..n |-> s[i]], \A i \in 1..n : s[i] \in Seq(S)
  PROVE  FlattenSeq(s) \in Seq(S)
<1>1. s \in Seq(Seq(S)) /\ Len(s) = n
  <2>1. s \in [1..n -> Seq(S)]
    OBVIOUS
  <2> QED BY <2>1
<1>2. CASE n = 0
  <2>1. s = << >>
    BY <1>1, <1>2
  <2>2. FlattenSeq(s) = s
    BY <1>1, <1>2 DEF FlattenSeq
  <2>3. s \in Seq(S)
    BY <2>1
  <2> QED BY <2>2, <2>3
<1>3. CASE n # 0
  <2> DEFINE f == CHOOSE f : f = [i \in 1..Len(s) |-> IF i = 1 THEN s[i] ELSE f[i - 1] \o s[i]]
  <2>1. FlattenSeq(s) = f[n]
    BY <1>1, <1>3 DEF FlattenSeq
  <2>2. \E g : g = [i \in 1..Len(s) |-> IF i = 1 THEN s[i] ELSE g[i - 1] \o s[i]]
    BY <1>1, JoinedExists DEF Joined
  <2>3. f = [i \in 1..Len(s) |-> IF i = 1 THEN s[i] ELSE f[i - 1] \o s[i]]
    BY <2>2
  <2> HIDE DEF f
  <2>4. Joined(f, s, n)
    BY <1>1, <2>3 DEF Joined
  <2>5. f[n] \in Seq(S)
    BY <1>3, <2>4, JoinedIn
  <2> QED BY <2>1, <2>5
<1> QED BY <1>2, <1>3

-----------------------------------------------------------------------------
(* FoldLeft. F[<<b, m>>] is what a step makes of b with m, for b in U and m *)
(* in M. Folds says of g that g[r] is the base after the elements of s at  *)
(* the positions r.                                                        *)

StepOf(g, F, base, s, r) == IF r = {} THEN base ELSE F[<<g[r \ {Max(r)}], s[Max(r)]>>]
Folds(g, F, base, s) == g = [r \in SUBSET DOMAIN s |-> StepOf(g, F, base, s, r)]

LEMMA FoldsAt ==
  ASSUME NEW g, NEW F, NEW base, NEW s, Folds(g, F, base, s), NEW r \in SUBSET DOMAIN s
  PROVE  g[r] = StepOf(g, F, base, s, r)
<1>1. g[r] = [q \in SUBSET DOMAIN s |-> StepOf(g, F, base, s, q)][r]
  BY Zenon DEF Folds
<1> QED BY <1>1, Zenon

\* What comes out depends on the elements only, and stays in U.
SameAt(s, t, q) == q \subseteq DOMAIN s /\ q \subseteq DOMAIN t /\ \A i \in q : s[i] = t[i]

LEMMA FoldsAgree ==
  ASSUME NEW F, NEW base, NEW S, NEW s \in Seq(S), NEW t \in Seq(S),
         NEW f, NEW g, Folds(f, F, base, s), Folds(g, F, base, t),
         NEW q, SameAt(s, t, q)
  PROVE  f[q] = g[q]
<1> USE DEF SameAt
<1> DEFINE T == {r \in SUBSET q : f[r] # g[r]}
<1>0. q \in SUBSET q /\ IsFiniteSet(q) /\ q \subseteq 1..Len(s) /\ Len(s) \in Nat
  <2>1. Len(s) \in Nat /\ DOMAIN s = 1..Len(s)
    OBVIOUS
  <2>2. IsFiniteSet(1..Len(s))
    BY <2>1, FS_Interval
  <2> QED BY <2>1, <2>2, FS_Subset
<1>1. ASSUME T # {} PROVE FALSE
  <2>1. PICK r \in T : \A p \in T : p \subseteq r => p = r
    <3>1. T \subseteq SUBSET q
      OBVIOUS
    <3> HIDE DEF T
    <3> QED BY <1>0, <1>1, <3>1, SmallestSet
  <2>2. r \in SUBSET q /\ f[r] # g[r] /\ r \in SUBSET DOMAIN s /\ r \in SUBSET DOMAIN t
    BY <2>1
  <2>3. f[r] = IF r = {} THEN base ELSE F[<<f[r \ {Max(r)}], s[Max(r)]>>]
    <3>1. f[r] = StepOf(f, F, base, s, r)
      BY <2>2, FoldsAt, Zenon
    <3> QED BY <3>1 DEF StepOf
  <2>4. g[r] = IF r = {} THEN base ELSE F[<<g[r \ {Max(r)}], t[Max(r)]>>]
    <3>1. g[r] = StepOf(g, F, base, t, r)
      BY <2>2, FoldsAt, Zenon
    <3> QED BY <3>1 DEF StepOf
  <2>5. CASE r # {}
    <3>1. Max(r) \in r
      BY <1>0, <2>2, <2>5, MaxIs
    <3>2. r \ {Max(r)} \notin T
      BY <2>1, <3>1
    <3>3. f[r \ {Max(r)}] = g[r \ {Max(r)}]
      BY <2>2, <3>2
    <3>4. s[Max(r)] = t[Max(r)]
      BY <2>2, <3>1
    <3> QED BY <2>2, <2>3, <2>4, <2>5, <3>3, <3>4
  <2> QED BY <2>2, <2>3, <2>4, <2>5
<1> QED BY <1>0, <1>1

LEMMA FoldsIn ==
  ASSUME NEW U, NEW S, NEW F \in [U \X S -> U], NEW base \in U, NEW s \in Seq(S),
         NEW f, Folds(f, F, base, s), NEW q \in SUBSET DOMAIN s
  PROVE  f[q] \in U
<1> DEFINE T == {r \in SUBSET q : f[r] \notin U}
<1>0. q \in SUBSET q /\ IsFiniteSet(q) /\ q \subseteq 1..Len(s) /\ Len(s) \in Nat
  <2>1. Len(s) \in Nat /\ DOMAIN s = 1..Len(s)
    OBVIOUS
  <2>2. IsFiniteSet(1..Len(s))
    BY <2>1, FS_Interval
  <2> QED BY <2>1, <2>2, FS_Subset
<1>1. ASSUME T # {} PROVE FALSE
  <2>1. PICK r \in T : \A p \in T : p \subseteq r => p = r
    <3>1. T \subseteq SUBSET q
      OBVIOUS
    <3> HIDE DEF T
    <3> QED BY <1>0, <1>1, <3>1, SmallestSet
  <2>2. r \in SUBSET q /\ f[r] \notin U /\ r \in SUBSET DOMAIN s
    BY <2>1
  <2>3. f[r] = IF r = {} THEN base ELSE F[<<f[r \ {Max(r)}], s[Max(r)]>>]
    <3>1. f[r] = StepOf(f, F, base, s, r)
      BY <2>2, FoldsAt, Zenon
    <3> QED BY <3>1 DEF StepOf
  <2>4. CASE r # {}
    <3>1. Max(r) \in r
      BY <1>0, <2>2, <2>4, MaxIs
    <3>2. r \ {Max(r)} \notin T
      BY <2>1, <3>1
    <3>3. f[r \ {Max(r)}] \in U
      BY <2>2, <3>2
    <3>4. s[Max(r)] \in S
      BY <2>2, <3>1
    <3>5. F[<<f[r \ {Max(r)}], s[Max(r)]>>] \in U
      <4> HIDE DEF T
      <4> DEFINE a == f[r \ {Max(r)}]
                 b == s[Max(r)]
      <4>1. a \in U /\ b \in S
        BY <3>3, <3>4
      <4> HIDE DEF a, b
      <4>2. F[<<a, b>>] \in U
        BY <4>1
      <4> QED BY <4>2 DEF a, b
    <3> QED BY <2>2, <2>3, <2>4, <3>5
  <2> QED BY <2>2, <2>3, <2>4
<1> QED BY <1>0, <1>1

LEMMA FoldsExist ==
  ASSUME NEW F, NEW base, NEW S, NEW s \in Seq(S)
  PROVE  \E g : Folds(g, F, base, s)
<1> DEFINE Is(g, q) == \A p \in SUBSET q : g[p] = StepOf(g, F, base, s, p)
           T == {q \in SUBSET DOMAIN s : ~ \E g : Is(g, q)}
           G(q) == CHOOSE g : Is(g, q)
           Rest(q) == q \ {Max(q)}
<1>0. IsFiniteSet(DOMAIN s) /\ DOMAIN s = 1..Len(s) /\ Len(s) \in Nat
  <2>1. Len(s) \in Nat /\ DOMAIN s = 1..Len(s)
    OBVIOUS
  <2> QED BY <2>1, FS_Interval
<1>1. ASSUME NEW q \in SUBSET DOMAIN s, q # {} PROVE Max(q) \in q
  BY <1>0, <1>1, MaxIs
<1>2. ASSUME NEW a \in SUBSET DOMAIN s, NEW b \in SUBSET DOMAIN s, NEW f, NEW g, Is(f, a), Is(g, b)
      PROVE  \A p \in SUBSET (a \cap b) : f[p] = g[p]
  <2> DEFINE D == {p \in SUBSET (a \cap b) : f[p] # g[p]}
  <2>1. ASSUME D # {} PROVE FALSE
    <3>1. IsFiniteSet(a \cap b)
      BY <1>0, FS_Subset
    <3>2. PICK p \in D : \A o \in D : o \subseteq p => o = p
      <4>1. D \subseteq SUBSET (a \cap b)
        OBVIOUS
      <4> HIDE DEF D
      <4> QED BY <2>1, <3>1, <4>1, SmallestSet
    <3>3. f[p] = StepOf(f, F, base, s, p) /\ g[p] = StepOf(g, F, base, s, p) /\ f[p] # g[p]
          /\ p \in SUBSET DOMAIN s
      BY <1>2, <3>2
    <3>4. CASE p # {}
      <4>1. Rest(p) \notin D /\ Rest(p) \in SUBSET (a \cap b)
        BY <1>1, <3>2, <3>3, <3>4
      <4>2. f[Rest(p)] = g[Rest(p)]
        BY <4>1
      <4> QED BY <3>3, <4>2 DEF StepOf
    <3> QED BY <3>3, <3>4 DEF StepOf
  <2> QED BY <2>1
<1>3. ASSUME T # {} PROVE FALSE
  <2>1. PICK r \in T : \A q \in T : q \subseteq r => q = r
    <3>1. T \subseteq SUBSET DOMAIN s
      OBVIOUS
    <3> HIDE DEF T
    <3> QED BY <1>0, <1>3, <3>1, SmallestSet
  <2>2. r \in SUBSET DOMAIN s /\ ~ \E g : Is(g, r)
    BY <2>1
  <2>3. ASSUME NEW q \in SUBSET r, q # r PROVE Is(G(q), q)
    <3>1. \E g : Is(g, q)
      BY <2>1, <2>2, <2>3
    <3> HIDE DEF Is
    <3> QED BY <3>1
  <2> DEFINE H(p) == StepOf(G(Rest(p)), F, base, s, p)
             h == [p \in SUBSET r |-> H(p)]
  <2>4. ASSUME NEW p \in SUBSET r PROVE h[p] = StepOf(h, F, base, s, p)
    <3>1. h[p] = H(p)
      OBVIOUS
    <3>2. CASE p = {}
      BY <3>1, <3>2 DEF StepOf
    <3>3. CASE p # {}
      <4>1. Max(p) \in p /\ Rest(p) \in SUBSET r /\ Rest(p) # r /\ Rest(p) # p
        BY <1>1, <2>2, <3>3
      <4>2. Is(G(Rest(p)), Rest(p))
        BY <2>3, <4>1
      <4>3. h[Rest(p)] = G(Rest(p))[Rest(p)]
        <5>1. h[Rest(p)] = H(Rest(p))
          BY <4>1
        <5>2. G(Rest(p))[Rest(p)] = StepOf(G(Rest(p)), F, base, s, Rest(p))
          BY <4>2
        <5>3. CASE Rest(p) = {}
          BY <5>1, <5>2, <5>3 DEF StepOf
        <5>4. CASE Rest(p) # {}
          <6> DEFINE q == Rest(p)
                     z == Rest(q)
          <6>1. q \in SUBSET r /\ q # {} /\ q \in SUBSET DOMAIN s
            BY <2>2, <4>1, <5>4
          <6>2. Max(q) \in q
            BY <1>1, <6>1
          <6>3. z \in SUBSET q /\ z \in SUBSET r /\ z # r /\ z \in SUBSET DOMAIN s
            BY <6>1, <6>2
          <6>4. Is(G(z), z)
            BY <2>3, <6>3
          <6>5. G(q)[z] = G(z)[z]
            <7>1. Is(G(q), q)
              BY <4>2
            <7>2. z \in SUBSET (q \cap z)
              BY <6>3
            <7> HIDE DEF G, Is, q, z, T, h
            <7> QED BY <1>2, <6>1, <6>3, <6>4, <7>1, <7>2
          <6> HIDE DEF G, Is, T, h
          <6> QED BY <5>1, <5>2, <5>4, <6>5 DEF StepOf
        <5> QED BY <5>3, <5>4
      <4> HIDE DEF h, G, Is, T
      <4> QED BY <3>1, <3>3, <4>3 DEF StepOf
    <3> QED BY <3>2, <3>3
  <2>5. Is(h, r)
    BY <2>4
  <2> HIDE DEF Is, h
  <2> QED BY <2>2, <2>5
<1>4. PICK g : Is(g, DOMAIN s)
  <2>1. DOMAIN s \in SUBSET DOMAIN s
    OBVIOUS
  <2> HIDE DEF Is
  <2> QED BY <1>3, <2>1
<1> DEFINE h == [p \in SUBSET DOMAIN s |-> g[p]]
<1>5. ASSUME NEW p \in SUBSET DOMAIN s PROVE h[p] = StepOf(h, F, base, s, p)
  <2>1. h[p] = g[p] /\ g[p] = StepOf(g, F, base, s, p)
    BY <1>4
  <2>2. h[Rest(p)] = g[Rest(p)]
    OBVIOUS
  <2> HIDE DEF h
  <2> QED BY <2>1, <2>2 DEF StepOf
<1>6. h = [p \in SUBSET DOMAIN s |-> h[p]]
  OBVIOUS
<1> HIDE DEF h
<1>7. [p \in SUBSET DOMAIN s |-> h[p]] = [p \in SUBSET DOMAIN s |-> StepOf(h, F, base, s, p)]
  BY <1>5
<1> QED BY <1>6, <1>7 DEF Folds

Fold(F, base, s) == (CHOOSE g : Folds(g, F, base, s))[DOMAIN s]

LEMMA FoldOf ==
  ASSUME NEW F, NEW base, NEW S, NEW s \in Seq(S)
  PROVE  \E g : Folds(g, F, base, s) /\ Fold(F, base, s) = g[DOMAIN s]
<1>1. Folds(CHOOSE g : Folds(g, F, base, s), F, base, s)
  BY FoldsExist, Zenon
<1> QED BY <1>1 DEF Fold

\* Nothing is done for no elements; and then it is one after the other.
LEMMA FoldNothing ==
  ASSUME NEW F, NEW base
  PROVE  Fold(F, base, << >>) = base
<1> DEFINE e == << >>
<1>1. e \in Seq({}) /\ DOMAIN e \in SUBSET DOMAIN e /\ DOMAIN e = {}
  OBVIOUS
<1> HIDE DEF e
<1>2. PICK g : Folds(g, F, base, e) /\ Fold(F, base, e) = g[DOMAIN e]
  BY <1>1, FoldOf
<1>3. g[DOMAIN e] = StepOf(g, F, base, e, DOMAIN e)
  <2>1. Folds(g, F, base, e)
    BY <1>2
  <2>2. DOMAIN e \in SUBSET DOMAIN e
    OBVIOUS
  <2> QED BY <2>1, <2>2, FoldsAt, Zenon
<1>4. Fold(F, base, e) = base
  BY <1>1, <1>2, <1>3 DEF StepOf
<1> QED BY <1>4 DEF e

LEMMA FoldNext ==
  ASSUME NEW F, NEW base, NEW S, NEW s \in Seq(S), NEW m \in S
  PROVE  Fold(F, base, Append(s, m)) = F[<<Fold(F, base, s), m>>]
<1> DEFINE t == Append(s, m)
           n == Len(s)
<1>1. n \in Nat /\ t \in Seq(S) /\ DOMAIN s = 1..n /\ DOMAIN t = 1..(n + 1) /\ t[n + 1] = m
      /\ \A i \in 1..n : t[i] = s[i]
  OBVIOUS
<1> HIDE DEF t, n
<1>2. PICK f : Folds(f, F, base, s) /\ Fold(F, base, s) = f[DOMAIN s]
  BY FoldOf
<1>3. PICK g : Folds(g, F, base, t) /\ Fold(F, base, t) = g[DOMAIN t]
  BY <1>1, FoldOf
<1>4. g[DOMAIN t] = StepOf(g, F, base, t, DOMAIN t)
  <2>1. DOMAIN t \in SUBSET DOMAIN t
    OBVIOUS
  <2> QED BY <1>3, <2>1, FoldsAt, Zenon
<1>5. DOMAIN t # {} /\ Max(DOMAIN t) = n + 1
  <2>1. Max(1..(n + 1)) \in 1..(n + 1) /\ \A i \in 1..(n + 1) : i <= Max(1..(n + 1))
    BY <1>1, MaxIs
  <2>2. n + 1 \in 1..(n + 1)
    BY <1>1
  <2> QED BY <1>1, <2>1, <2>2
<1>6. DOMAIN t \ {Max(DOMAIN t)} = DOMAIN s
  BY <1>1, <1>5
<1>7. f[DOMAIN s] = g[DOMAIN s]
  <2>1. DOMAIN s \subseteq DOMAIN t /\ DOMAIN s \subseteq DOMAIN s /\ \A i \in DOMAIN s : s[i] = t[i]
    BY <1>1
  <2>2. t \in Seq(S) /\ Folds(f, F, base, s) /\ Folds(g, F, base, t)
    BY <1>1, <1>2, <1>3
  <2>3. SameAt(s, t, DOMAIN s)
    BY <2>1 DEF SameAt
  <2> HIDE DEF SameAt
  <2> QED BY <2>2, <2>3, FoldsAgree
<1>8. g[DOMAIN t] = F[<<g[DOMAIN s], m>>]
  BY <1>1, <1>4, <1>5, <1>6 DEF StepOf
<1> QED BY <1>2, <1>3, <1>7, <1>8 DEF t

LEMMA FoldIn ==
  ASSUME NEW U, NEW S, NEW F \in [U \X S -> U], NEW base \in U, NEW s \in Seq(S)
  PROVE  Fold(F, base, s) \in U
<1>1. PICK f : Folds(f, F, base, s) /\ Fold(F, base, s) = f[DOMAIN s]
  BY FoldOf
<1>2. DOMAIN s \in SUBSET DOMAIN s
  OBVIOUS
<1>3. Folds(f, F, base, s)
  BY <1>1
<1> DEFINE q == DOMAIN s
<1>4. q \in SUBSET DOMAIN s
  OBVIOUS
<1> HIDE DEF q
<1>5. f[q] \in U
  BY <1>3, <1>4, FoldsIn, Zenon
<1> QED BY <1>1, <1>5 DEF q

\* Two that agree before the last position agree there.
LEMMA SameFolds ==
  ASSUME NEW S, NEW s \in Seq(S), NEW f, NEW g, f[{}] = g[{}],
         \A r \in SUBSET DOMAIN s : r # {} /\ f[r \ {Max(r)}] = g[r \ {Max(r)}] => f[r] = g[r]
  PROVE  f[DOMAIN s] = g[DOMAIN s]
<1> DEFINE T == {r \in SUBSET DOMAIN s : f[r] # g[r]}
<1>1. Len(s) \in Nat /\ DOMAIN s = 1..Len(s)
  OBVIOUS
<1>2. IsFiniteSet(DOMAIN s)
  BY <1>1, FS_Interval
<1>3. ASSUME T # {} PROVE FALSE
  <2>1. PICK r \in T : \A p \in T : p \subseteq r => p = r
    <3>1. T \subseteq SUBSET DOMAIN s
      OBVIOUS
    <3> HIDE DEF T
    <3> QED BY <1>2, <1>3, <3>1, SmallestSet
  <2>2. r \in SUBSET DOMAIN s /\ f[r] # g[r] /\ r # {}
    BY <2>1
  <2>3. Max(r) \in r
    BY <1>1, <2>2, MaxIs
  <2>4. r \ {Max(r)} \notin T /\ r \ {Max(r)} \in SUBSET DOMAIN s
    BY <2>1, <2>2, <2>3
  <2> QED BY <2>2, <2>4
<1> QED BY <1>3

\* Where r is a set of positions, the last of them is one.
LEMMA LastPosition ==
  ASSUME NEW S, NEW s \in Seq(S), NEW r \in SUBSET DOMAIN s, r # {}
  PROVE  Max(r) \in r /\ s[Max(r)] \in S /\ r \ {Max(r)} \in SUBSET DOMAIN s
<1>1. Len(s) \in Nat /\ DOMAIN s = 1..Len(s)
  OBVIOUS
<1>2. Max(r) \in r
  BY <1>1, MaxIs
<1> QED BY <1>2

-----------------------------------------------------------------------------
(* FlattenSeq, of two sequences at once.                                   *)

LEMMA FunctionIsSeq ==
  ASSUME NEW n \in Nat, NEW S, NEW s \in [1..n -> S]
  PROVE  s \in Seq(S) /\ Len(s) = n
OBVIOUS

LEMMA Behind ==
  ASSUME NEW S, NEW a \in Seq(S), NEW b \in Seq(S), NEW p \in 1..Len(a \o b)
  PROVE  /\ Len(a \o b) = Len(a) + Len(b)
         /\ p <= Len(a) => p \in 1..Len(a) /\ (a \o b)[p] = a[p]
         /\ p > Len(a) => p - Len(a) \in 1..Len(b) /\ (a \o b)[p] = b[p - Len(a)]
<1>1. Len(a) \in Nat /\ Len(b) \in Nat /\ Len(a \o b) = Len(a) + Len(b)
  OBVIOUS
<1>2. (a \o b)[p] = IF p <= Len(a) THEN a[p] ELSE b[p - Len(a)]
  BY <1>1, ConcatProperties
<1> QED BY <1>1, <1>2

BuiltBehind(u, v, a, b, c, d) ==
  /\ Len(u) = Len(v)
  /\ Len(a) \in Nat
  /\ \A p \in 1..Len(u) :
       \/ p \in 1..Len(a) /\ u[p] = a[p] /\ v[p] = c[p]
       \/ \E j \in 1..Len(b) : p = Len(a) + j /\ u[p] = b[j] /\ v[p] = d[j]

LEMMA BothBehind ==
  ASSUME NEW S, NEW T, NEW a \in Seq(S), NEW b \in Seq(S), NEW c \in Seq(T), NEW d \in Seq(T),
         Len(a) = Len(c), Len(b) = Len(d)
  PROVE  BuiltBehind(a \o b, c \o d, a, b, c, d)
<1>1. /\ Len(a) \in Nat /\ Len(b) \in Nat
      /\ Len(a \o b) = Len(a) + Len(b) /\ Len(c \o d) = Len(c) + Len(d)
  <2>1. Len(a) \in Nat /\ Len(b) \in Nat
    BY LenProperties
  <2>2. Len(a \o b) = Len(a) + Len(b)
    BY ConcatProperties
  <2>3. Len(c \o d) = Len(c) + Len(d)
    BY ConcatProperties
  <2> QED BY <2>1, <2>2, <2>3
<1>2. ASSUME NEW p \in 1..Len(a \o b)
      PROVE  \/ p \in 1..Len(a) /\ (a \o b)[p] = a[p] /\ (c \o d)[p] = c[p]
             \/ \E j \in 1..Len(b) : p = Len(a) + j /\ (a \o b)[p] = b[j] /\ (c \o d)[p] = d[j]
  <2>1. p \in 1..Len(c \o d) /\ p \in Nat /\ (p <= Len(a) \/ p > Len(a))
    BY <1>1
  <2>2. CASE p <= Len(a)
    <3>1. p \in 1..Len(a) /\ (a \o b)[p] = a[p]
      BY <1>1, <2>2, Behind
    <3>2. (c \o d)[p] = c[p]
      BY <2>1, <2>2, Behind
    <3> QED BY <3>1, <3>2
  <2>3. CASE p > Len(a)
    <3>1. p - Len(a) \in 1..Len(b) /\ (a \o b)[p] = b[p - Len(a)]
      BY <2>3, Behind
    <3>2. (c \o d)[p] = d[p - Len(a)]
      BY <2>1, <2>3, Behind
    <3>3. p = Len(a) + (p - Len(a))
      BY <1>1
    <3> QED BY <3>1, <3>2, <3>3
  <2> QED BY <2>1, <2>2, <2>3, Zenon
<1>3. Len(a \o b) = Len(c \o d)
  BY <1>1
<1> QED BY <1>1, <1>2, <1>3, Zenon DEF BuiltBehind

\* Two lists of sequences of the same lengths are joined alike: an element is
\* at the same place of both.
BuiltAlike(f, g, s, t, i) ==
  /\ Len(f[i]) = Len(g[i])
  /\ \A p \in 1..Len(f[i]) : \E b \in 1..i : \E j \in 1..Len(s[b]) :
       p = (IF b = 1 THEN 0 ELSE Len(f[b - 1])) + j /\ f[i][p] = s[b][j] /\ g[i][p] = t[b][j]

LEMMA JoinedAlike ==
  ASSUME NEW n \in Nat, NEW S, NEW T, NEW s \in [1..n -> Seq(S)], NEW t \in [1..n -> Seq(T)],
         \A i \in 1..n : Len(s[i]) = Len(t[i]),
         NEW f, NEW g, Joined(f, s, n), Joined(g, t, n)
  PROVE  \A i \in 1..n : BuiltAlike(f, g, s, t, i)
<1> DEFINE From(b) == IF b = 1 THEN 0 ELSE Len(f[b - 1])
           At(i, p) == \E b \in 1..i : \E j \in 1..Len(s[b]) : p = From(b) + j /\ f[i][p] = s[b][j] /\ g[i][p] = t[b][j]
           Right(i) == Len(f[i]) = Len(g[i]) /\ \A p \in 1..Len(f[i]) : At(i, p)
           M == {i \in 1..n : ~Right(i)}
<1>1. \A i \in 1..n : f[i] \in Seq(S) /\ g[i] \in Seq(T)
  BY JoinedIn
<1>2. \A i \in 1..n : /\ f[i] = IF i = 1 THEN s[i] ELSE f[i - 1] \o s[i]
                      /\ g[i] = IF i = 1 THEN t[i] ELSE g[i - 1] \o t[i]
  BY DEF Joined
<1>3. ASSUME M # {} PROVE FALSE
  <2>1. M \subseteq Nat
    OBVIOUS
  <2>2. PICK m \in M : \A k \in M : m <= k
    <3> HIDE DEF M
    <3> QED BY <1>3, <2>1, LeastNumber
  <2>3. m \in 1..n /\ ~Right(m)
    BY <2>2
  <2>4. CASE m = 1
    <3>1. f[m] = s[m] /\ g[m] = t[m]
      BY <1>2, <2>3, <2>4
    <3>2. ASSUME NEW p \in 1..Len(f[m]) PROVE At(m, p)
      <4>1. m \in 1..m /\ p \in 1..Len(s[m])
        BY <2>4, <3>1
      <4>2. From(m) = 0
        BY <2>4
      <4>3. Len(f[m]) \in Nat
        BY <1>1, <2>3
      <4>4. p = From(m) + p
        <5> HIDE DEF From
        <5> QED BY <4>2, <4>3
      <4> QED BY <3>1, <4>1, <4>4
    <3> QED BY <2>3, <3>1, <3>2
  <2>5. CASE m # 1
    <3>1. m - 1 \in 1..n /\ Right(m - 1)
      <4>1. m - 1 \in 1..n /\ m - 1 < m
        BY <2>3, <2>5
      <4>2. m - 1 \notin M
        <5> HIDE DEF M
        <5>1. m \in Nat
          BY <2>1, <2>2
        <5> QED BY <2>2, <4>1, <5>1
      <4> QED BY <4>1, <4>2
    <3>2. f[m] = f[m - 1] \o s[m] /\ g[m] = g[m - 1] \o t[m]
      BY <1>2, <2>3, <2>5
    <3>3. f[m - 1] \in Seq(S) /\ g[m - 1] \in Seq(T) /\ s[m] \in Seq(S) /\ t[m] \in Seq(T) /\ Len(s[m]) = Len(t[m])
      BY <1>1, <2>3, <3>1
    <3>4. Len(f[m - 1]) = Len(g[m - 1])
      BY <3>1
    <3> HIDE DEF M, Right, At
    <3>5. /\ Len(f[m]) = Len(g[m])
          /\ Len(f[m - 1]) \in Nat
          /\ \A p \in 1..Len(f[m]) :
               \/ p \in 1..Len(f[m - 1]) /\ f[m][p] = f[m - 1][p] /\ g[m][p] = g[m - 1][p]
               \/ \E j \in 1..Len(s[m]) : p = Len(f[m - 1]) + j /\ f[m][p] = s[m][j] /\ g[m][p] = t[m][j]
      <4>1. f[m - 1] \in Seq(S) /\ s[m] \in Seq(S)
        BY <3>3
      <4>2. g[m - 1] \in Seq(T) /\ t[m] \in Seq(T)
        BY <3>3
      <4>3. Len(f[m - 1]) = Len(g[m - 1]) /\ Len(s[m]) = Len(t[m])
        BY <3>3, <3>4
      <4> DEFINE a == f[m - 1]  b == s[m]  c == g[m - 1]  d == t[m]
      <4>4. a \in Seq(S) /\ b \in Seq(S) /\ c \in Seq(T) /\ d \in Seq(T) /\ Len(a) = Len(c) /\ Len(b) = Len(d)
        BY <4>1, <4>2, <4>3
      <4>5. f[m] = a \o b /\ g[m] = c \o d
        BY <3>2
      <4> HIDE DEF a, b, c, d
      <4>6. BuiltBehind(a \o b, c \o d, a, b, c, d)
        BY <4>4, BothBehind
      <4> QED BY <4>5, <4>6, Zenon DEF a, b, c, d, BuiltBehind
    <3>6. ASSUME NEW p \in 1..Len(f[m]) PROVE At(m, p)
      <4>1. CASE p \in 1..Len(f[m - 1]) /\ f[m][p] = f[m - 1][p] /\ g[m][p] = g[m - 1][p]
        <5>1. At(m - 1, p)
          BY <3>1, <4>1 DEF Right
        <5>2. 1..(m - 1) \subseteq 1..m
          BY <2>3
        <5> QED BY <4>1, <5>1, <5>2 DEF At
      <4>2. CASE \E j \in 1..Len(s[m]) : p = Len(f[m - 1]) + j /\ f[m][p] = s[m][j] /\ g[m][p] = t[m][j]
        <5>1. m \in 1..m /\ From(m) = Len(f[m - 1])
          BY <2>3, <2>5
        <5> QED BY <4>2, <5>1 DEF At
      <4> QED BY <3>5, <4>1, <4>2
    <3>7. Len(f[m]) = Len(g[m])
      BY <3>5
    <3>8. Right(m)
      BY <3>6, <3>7 DEF Right
    <3> QED BY <2>3, <3>8
  <2> QED BY <2>4, <2>5
<1>4. \A i \in 1..n : Right(i)
  BY <1>3
<1> QED BY <1>4 DEF BuiltAlike

Agree(f, g, k) == \A i \in 1..k : f[i] = g[i]

LEMMA JoinedSame ==
  ASSUME NEW n \in Nat, NEW k \in 0..n, NEW s, NEW r, Agree(r, s, k),
         NEW f, NEW g, Joined(f, s, n), Joined(g, r, k)
  PROVE  Agree(f, g, k)
<1> DEFINE M == {i \in 1..k : f[i] # g[i]}
<1>1. ASSUME M # {} PROVE FALSE
  <2>1. M \subseteq Nat
    OBVIOUS
  <2>2. PICK m \in M : \A i \in M : m <= i
    <3> HIDE DEF M
    <3> QED BY <1>1, <2>1, LeastNumber
  <2>3. m \in 1..k /\ m \in 1..n /\ f[m] # g[m]
    BY <2>2
  <2>4. /\ f[m] = IF m = 1 THEN s[m] ELSE f[m - 1] \o s[m]
        /\ g[m] = IF m = 1 THEN r[m] ELSE g[m - 1] \o r[m]
    BY <2>3 DEF Joined
  <2>5. m # 1
    <3>1. r[m] = s[m]
      BY <2>3 DEF Agree
    <3> QED BY <2>3, <2>4, <3>1
  <2>6. m - 1 \in 1..k /\ m - 1 < m
    BY <2>3, <2>5
  <2>7. m - 1 \notin M
    <3> HIDE DEF M
    <3>1. m \in Nat
      BY <2>1, <2>2
    <3> QED BY <2>2, <2>6, <3>1
  <2>8. r[m] = s[m]
    BY <2>3 DEF Agree
  <2> QED BY <2>3, <2>4, <2>5, <2>6, <2>7, <2>8
<1> QED BY <1>1 DEF Agree

LEMMA FlattenIs ==
  ASSUME NEW n \in Nat, n # 0, NEW S, NEW s \in [1..n -> S]
  PROVE  \E f : Joined(f, s, n) /\ FlattenSeq(s) = f[n]
<1>1. Len(s) = n
  OBVIOUS
<1> DEFINE f == CHOOSE f : f = [i \in 1..Len(s) |-> IF i = 1 THEN s[i] ELSE f[i - 1] \o s[i]]
<1>2. FlattenSeq(s) = f[n]
  BY <1>1 DEF FlattenSeq
<1>3. \E g : g = [i \in 1..Len(s) |-> IF i = 1 THEN s[i] ELSE g[i - 1] \o s[i]]
  BY <1>1, JoinedExists DEF Joined
<1>4. f = [i \in 1..Len(s) |-> IF i = 1 THEN s[i] ELSE f[i - 1] \o s[i]]
  BY <1>3
<1> HIDE DEF f
<1>5. Joined(f, s, n)
  BY <1>1, <1>4 DEF Joined
<1> QED BY <1>2, <1>5

\* The element j of the sequence b is behind all sequences before b.
FlattenedAlike(s, t, n) ==
  /\ Len(FlattenSeq(s)) = Len(FlattenSeq(t))
  /\ \A p \in 1..Len(FlattenSeq(s)) : \E b \in 1..n : \E j \in 1..Len(s[b]) :
       /\ p = Len(FlattenSeq(SubSeq(s, 1, b - 1))) + j
       /\ FlattenSeq(s)[p] = s[b][j] /\ FlattenSeq(t)[p] = t[b][j]

LEMMA FlattenAlike ==
  ASSUME NEW n \in Nat, NEW S, NEW T, NEW s \in [1..n -> Seq(S)], NEW t \in [1..n -> Seq(T)],
         \A i \in 1..n : Len(s[i]) = Len(t[i])
  PROVE  FlattenedAlike(s, t, n)
<1>1. s \in Seq(Seq(S)) /\ Len(s) = n /\ t \in Seq(Seq(T)) /\ Len(t) = n
  <2>1. s \in Seq(Seq(S)) /\ Len(s) = n
    BY FunctionIsSeq
  <2>2. t \in Seq(Seq(T)) /\ Len(t) = n
    BY FunctionIsSeq
  <2> QED BY <2>1, <2>2
<1>2. CASE n = 0
  <2>1. FlattenSeq(s) = << >> /\ FlattenSeq(t) = << >>
    BY <1>1, <1>2 DEF FlattenSeq
  <2>2. Len(FlattenSeq(s)) = 0 /\ Len(FlattenSeq(t)) = 0
    BY <2>1
  <2> QED BY <2>2 DEF FlattenedAlike
<1>3. CASE n # 0
  <2>1. PICK f : Joined(f, s, n) /\ FlattenSeq(s) = f[n]
    BY <1>3, FlattenIs
  <2>2. PICK g : Joined(g, t, n) /\ FlattenSeq(t) = g[n]
    BY <1>3, FlattenIs
  <2>3. n \in 1..n
    BY <1>3
  <2>4. ASSUME NEW b \in 1..n PROVE Len(FlattenSeq(SubSeq(s, 1, b - 1))) = IF b = 1 THEN 0 ELSE Len(f[b - 1])
    <3> DEFINE k == b - 1  r == SubSeq(s, 1, k)
    <3>1. k \in 0..n /\ k \in Nat
      OBVIOUS
    <3>2. r = [i \in 1..k |-> s[i]]
      BY <1>1, <3>1 DEF SubSeq
    <3>3. r \in [1..k -> Seq(S)] /\ \A i \in 1..k : r[i] = s[i]
      <4> HIDE DEF r, k
      <4> QED BY <3>1, <3>2
    <3>4. r \in Seq(Seq(S)) /\ Len(r) = k
      <4> HIDE DEF r, k
      <4> QED BY <3>1, <3>3, FunctionIsSeq
    <3> HIDE DEF r
    <3>5. CASE k = 0
      <4>1. r = << >>
        BY <3>4, <3>5
      <4>2. FlattenSeq(r) = << >>
        BY <4>1, <3>4, <3>5 DEF FlattenSeq
      <4> QED BY <3>5, <4>1, <4>2 DEF r
    <3>6. CASE k # 0
      <4>1. PICK h : Joined(h, r, k) /\ FlattenSeq(r) = h[k]
        <5> HIDE DEF k
        <5> QED BY <3>1, <3>3, <3>6, FlattenIs
      <4>2. \A i \in 1..k : f[i] = h[i]
        <5> HIDE DEF k
        <5>1. Joined(f, s, n) /\ Joined(h, r, k) /\ k \in 0..n /\ Agree(r, s, k)
          BY <2>1, <3>1, <3>3, <4>1 DEF Agree
        <5>2. Agree(f, h, k)
          BY <5>1, JoinedSame
        <5> QED BY <5>2 DEF Agree
      <4>3. FlattenSeq(r) = f[k]
        <5> HIDE DEF k
        <5>1. k \in 1..k
          BY <3>1, <3>6
        <5> QED BY <4>1, <4>2, <5>1 DEF Agree
      <4> QED BY <3>6, <4>3 DEF r
    <3> QED BY <3>5, <3>6
  <2>5. BuiltAlike(f, g, s, t, n)
    <3>1. Joined(f, s, n) /\ Joined(g, t, n)
      BY <2>1, <2>2
    <3> QED BY <2>3, <3>1, JoinedAlike
  <2>6. ASSUME NEW p \in 1..Len(FlattenSeq(s))
        PROVE  \E b \in 1..n : \E j \in 1..Len(s[b]) :
                 /\ p = Len(FlattenSeq(SubSeq(s, 1, b - 1))) + j
                 /\ FlattenSeq(s)[p] = s[b][j] /\ FlattenSeq(t)[p] = t[b][j]
    <3>1. p \in 1..Len(f[n])
      BY <2>1
    <3>2. PICK b \in 1..n : \E j \in 1..Len(s[b]) :
            p = (IF b = 1 THEN 0 ELSE Len(f[b - 1])) + j /\ f[n][p] = s[b][j] /\ g[n][p] = t[b][j]
      BY <2>5, <3>1 DEF BuiltAlike
    <3>3. PICK j \in 1..Len(s[b]) :
            p = (IF b = 1 THEN 0 ELSE Len(f[b - 1])) + j /\ f[n][p] = s[b][j] /\ g[n][p] = t[b][j]
      BY <3>2
    <3>4. Len(FlattenSeq(SubSeq(s, 1, b - 1))) = IF b = 1 THEN 0 ELSE Len(f[b - 1])
      BY <2>4
    <3>5. p = Len(FlattenSeq(SubSeq(s, 1, b - 1))) + j
      BY <3>3, <3>4, Zenon
    <3>6. FlattenSeq(s)[p] = s[b][j] /\ FlattenSeq(t)[p] = t[b][j]
      BY <2>1, <2>2, <3>3, Zenon
    <3> QED BY <3>5, <3>6, Zenon
  <2>7. Len(FlattenSeq(s)) = Len(FlattenSeq(t))
    BY <2>1, <2>2, <2>5 DEF BuiltAlike
  <2> QED BY <2>6, <2>7, Zenon DEF FlattenedAlike
<1> QED BY <1>2, <1>3

LEMMA FlattenTyped ==
  ASSUME NEW S, NEW s \in Seq(Seq(S))
  PROVE  FlattenSeq(s) \in Seq(S)
<1> DEFINE n == Len(s)
<1>1. n \in Nat /\ s = [i \in 1..n |-> s[i]] /\ \A i \in 1..n : s[i] \in Seq(S)
  OBVIOUS
<1> HIDE DEF n
<1> QED BY <1>1, FlattenIn

-----------------------------------------------------------------------------
(* The elements of a sequence at some positions: f[m] are those of the     *)
(* first m.                                                                *)

Selecting(f, s, chosen, n) ==
  f = [m \in 0..n |-> IF m = 0 THEN << >> ELSE IF m \in chosen THEN Append(f[m - 1], s[m]) ELSE f[m - 1]]

LEMMA SelectingExists ==
  ASSUME NEW s, NEW chosen, NEW n \in Nat
  PROVE  \E f : Selecting(f, s, chosen, n)
<1> DEFINE T == {m \in 0..n : \E f : Selecting(f, s, chosen, m)}
           Then(r, m) == IF m \in chosen THEN Append(r, s[m]) ELSE r
<1>0. \A f, m : Selecting(f, s, chosen, m) <=> f = [l \in 0..m |-> IF l = 0 THEN << >> ELSE Then(f[l - 1], l)]
  BY DEF Selecting
<1> HIDE DEF Then
<1>1. 0 \in T
  <2> DEFINE g == [l \in 0..0 |-> << >>]
  <2>1. g = [l \in 0..0 |-> IF l = 0 THEN << >> ELSE Then(g[l - 1], l)]
    OBVIOUS
  <2> HIDE DEF g
  <2>2. Selecting(g, s, chosen, 0)
    BY <1>0, <2>1
  <2> QED BY <2>2
<1>2. ASSUME NEW m \in 0..n, m < n, m \in T PROVE m + 1 \in T
  <2>1. PICK f : Selecting(f, s, chosen, m)
    BY <1>2
  <2>2. f = [l \in 0..m |-> IF l = 0 THEN << >> ELSE Then(f[l - 1], l)]
    BY <1>0, <2>1
  <2> DEFINE g == [l \in 0..m + 1 |-> IF l = m + 1 THEN Then(f[m], m + 1) ELSE f[l]]
  <2>3. \A l \in 0..m : f[l] = IF l = 0 THEN << >> ELSE Then(f[l - 1], l)
    BY <2>2
  <2>4. ASSUME NEW l \in 0..m + 1 PROVE g[l] = IF l = 0 THEN << >> ELSE Then(g[l - 1], l)
    <3>1. CASE l = m + 1
      <4>1. g[l] = Then(f[m], m + 1) /\ g[l - 1] = f[m] /\ l # 0
        BY <3>1
      <4> QED BY <3>1, <4>1
    <3>2. CASE l # m + 1
      <4>1. l \in 0..m /\ g[l] = f[l] /\ (l # 0 => g[l - 1] = f[l - 1])
        BY <3>2
      <4> QED BY <2>3, <4>1
    <3> QED BY <3>1, <3>2
  <2>5. g = [l \in 0..m + 1 |-> g[l]]
    OBVIOUS
  <2> HIDE DEF g
  <2>6. g = [l \in 0..m + 1 |-> IF l = 0 THEN << >> ELSE Then(g[l - 1], l)]
    BY <2>4, <2>5
  <2>7. Selecting(g, s, chosen, m + 1)
    <3> HIDE DEF T
    <3> QED BY <1>0, <2>6, Zenon
  <2>8. m + 1 \in 0..n
    BY <1>2
  <2> QED BY <2>7, <2>8
<1>3. T \in SUBSET (0..n)
  OBVIOUS
<1>4. n \in T
  <2> HIDE DEF T
  <2>1. T = 0..n
    BY <1>1, <1>2, <1>3, Upwards
  <2> QED BY <2>1
<1> QED BY <1>4

\* As long as none is left out, the elements stay where they are.
LEMMA SelectingKeeps ==
  ASSUME NEW S, NEW n \in Nat, NEW s, \A i \in 1..n : s[i] \in S, NEW chosen, NEW f, Selecting(f, s, chosen, n)
  PROVE  /\ f[n] \in Seq(S)
         /\ \A p \in 0..n : 1..p \subseteq chosen => p <= Len(f[n]) /\ \A i \in 1..p : f[n][i] = s[i]
         /\ Len(f[n]) <= n
<1> DEFINE Right(m) == /\ f[m] \in Seq(S) /\ Len(f[m]) <= m
                       /\ \A p \in 0..m : 1..p \subseteq chosen => p <= Len(f[m]) /\ \A i \in 1..p : f[m][i] = s[i]
           T == {m \in 0..n : Right(m)}
<1>1. \A m \in 0..n : f[m] = IF m = 0 THEN << >> ELSE IF m \in chosen THEN Append(f[m - 1], s[m]) ELSE f[m - 1]
  BY DEF Selecting
<1>2. 0 \in T
  <2>1. f[0] = << >>
    BY <1>1
  <2>2. f[0] \in Seq(S) /\ Len(f[0]) = 0
    BY <2>1
  <2>3. \A p \in 0..0 : p = 0 /\ 1..p = {}
    OBVIOUS
  <2>4. Right(0)
    BY <2>2, <2>3
  <2>5. 0 \in 0..n
    OBVIOUS
  <2> HIDE DEF Right
  <2> QED BY <2>4, <2>5
<1>3. ASSUME NEW m \in 0..n, m < n, m \in T PROVE m + 1 \in T
  <2>1. Right(m)
    BY <1>3
  <2>2. m + 1 \in 0..n /\ m + 1 \in 1..n /\ m + 1 # 0 /\ (m + 1) - 1 = m /\ m \in Nat
    BY <1>3
  <2>3. f[m + 1] = IF m + 1 \in chosen THEN Append(f[m], s[m + 1]) ELSE f[m]
    BY <1>1, <2>2
  <2>4. f[m] \in Seq(S) /\ s[m + 1] \in S /\ Len(f[m]) \in Nat /\ Len(f[m]) <= m
    BY <2>1, <2>2
  <2>5. CASE m + 1 \in chosen
    <3>1. f[m + 1] \in Seq(S) /\ Len(f[m + 1]) = Len(f[m]) + 1 /\ f[m + 1][Len(f[m]) + 1] = s[m + 1]
          /\ \A i \in 1..Len(f[m]) : f[m + 1][i] = f[m][i]
      BY <2>3, <2>4, <2>5
    <3>2. ASSUME NEW p \in 0..m + 1, 1..p \subseteq chosen
          PROVE  p <= Len(f[m + 1]) /\ \A i \in 1..p : f[m + 1][i] = s[i]
      <4>1. CASE p <= m
        <5>1. p \in 0..m
          BY <2>2, <4>1
        <5>2. p <= Len(f[m]) /\ \A i \in 1..p : f[m][i] = s[i]
          BY <2>1, <3>2, <5>1
        <5>3. \A i \in 1..p : i \in 1..Len(f[m])
          BY <2>4, <5>1, <5>2
        <5> QED BY <2>4, <3>1, <5>1, <5>2, <5>3
      <4>2. CASE p = m + 1
        <5>1. m \in 0..m /\ 1..m \subseteq chosen
          BY <2>2, <3>2, <4>2
        <5>2. m <= Len(f[m]) /\ \A i \in 1..m : f[m][i] = s[i]
          BY <2>1, <5>1
        <5>3. Len(f[m]) = m
          BY <2>2, <2>4, <5>2
        <5>4. \A i \in 1..p : i \in 1..m \/ i = m + 1
          BY <2>2, <4>2
        <5> QED BY <2>2, <3>1, <4>2, <5>2, <5>3, <5>4
      <4> QED BY <2>2, <4>1, <4>2
    <3>3. Len(f[m + 1]) <= m + 1
      BY <2>2, <2>4, <3>1
    <3> QED BY <2>2, <3>1, <3>2, <3>3
  <2>6. CASE m + 1 \notin chosen
    <3>1. f[m + 1] = f[m]
      BY <2>3, <2>6
    <3>2. ASSUME NEW p \in 0..m + 1, 1..p \subseteq chosen
          PROVE  p <= Len(f[m + 1]) /\ \A i \in 1..p : f[m + 1][i] = s[i]
      <4>1. p \in 0..m
        BY <2>2, <2>6, <3>2
      <4> QED BY <2>1, <3>1, <3>2, <4>1
    <3>3. f[m + 1] \in Seq(S) /\ Len(f[m + 1]) <= m + 1
      BY <2>2, <2>4, <3>1
    <3> QED BY <2>2, <3>2, <3>3
  <2> QED BY <2>5, <2>6
<1>4. T \in SUBSET (0..n)
  OBVIOUS
<1>5. n \in T
  <2> HIDE DEF T
  <2>1. T = 0..n
    BY <1>2, <1>3, <1>4, Upwards
  <2> QED BY <2>1
<1> QED BY <1>5

-----------------------------------------------------------------------------
(* Maps.                                                                   *)

\* The tables of the destinations are put together with ++ and Same. What they
\* have for a type follows from these; with the definitions themselves the
\* number of cases doubles with every part of a table.
LEMMA OverIn ==
  ASSUME NEW m, NEW n, NEW x
  PROVE  x \in DOMAIN (m ++ n) <=> x \in DOMAIN m \/ x \in DOMAIN n
BY DEF ++

LEMMA OverAt ==
  ASSUME NEW m, NEW n, NEW x
  PROVE  (x \in DOMAIN m => (m ++ n)[x] = m[x]) /\ (x \notin DOMAIN m /\ x \in DOMAIN n => (m ++ n)[x] = n[x])
BY DEF ++

LEMMA SameIn ==
  ASSUME NEW rows, NEW v, NEW x
  PROVE  x \in DOMAIN Same(rows, v) <=> x \in rows
BY DEF Same

LEMMA SameHas ==
  ASSUME NEW rows, NEW v, NEW x \in rows
  PROVE  Same(rows, v)[x] = v
BY DEF Same
=============================================================================
