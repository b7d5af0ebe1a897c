----------------------------- MODULE EvidenceProofs -----------------------------
(***************************************************************************)
(* Proofs about the engine and its checks, for any evidence, any trace and  *)
(* any chain: each loop of the code is shown, by induction over what it has *)
(* gone through, to compute what the article or the reader of the trace     *)
(* says of the whole.                                                       *)
(***************************************************************************)
EXTENDS Engine, FiniteSetTheorems, SequenceTheorems, WellFoundedInduction,
        TLAPS

-------------------------------------------------------------------------------
(* Induction.  A set of numbers that is not empty has a least member... *)
LEMMA LeastMember ==
    ASSUME NEW T, T \subseteq Nat, T # {}
    PROVE  \E n \in T : \A m \in T : n <= m
  <1>1. PICK k \in T : TRUE
    OBVIOUS
  <1> DEFINE U == 0 .. k
             F == {0 .. j : j \in {i \in T : i <= k}}
  <1>2. IsWellFoundedOn(StrictSubsetOrdering(U), SUBSET U)
    <2>1. IsFiniteSet(U)
      BY <1>1, FS_Interval
    <2>2. FiniteSubsetsOf(U) = SUBSET U
      BY <2>1, FS_FiniteSubsetsOfFinite
    <2>3. IsWellFoundedOn(StrictSubsetOrdering(U), FiniteSubsetsOf(U))
      BY FS_StrictSubsetOrderingWellFounded
    <2> QED
      BY <2>2, <2>3
  <1>3. F \subseteq SUBSET U /\ F # {}
    BY <1>1
  <1>4. PICK x \in F : \A y \in F : <<y, x>> \notin StrictSubsetOrdering(U)
    BY <1>2, <1>3, WFMin
  <1>5. PICK n \in T : n <= k /\ x = 0 .. n
    BY <1>4
  <1>6. ASSUME NEW m \in T, m < n PROVE FALSE
    <2>1. 0 .. m \in F /\ 0 .. m \subseteq 0 .. n /\ n \in 0 .. n /\ n \notin 0 .. m
      BY <1>1, <1>5, <1>6
    <2>2. <<0 .. m, x>> \in StrictSubsetOrdering(U)
      BY <1>3, <1>4, <1>5, <2>1 DEF StrictSubsetOrdering
    <2> QED
      BY <1>4, <2>1, <2>2
  <1> QED
    BY <1>1, <1>5, <1>6

(* ...so that what holds at 0 and goes from one number to the next holds up *)
(* to n.                                                                    *)
LEMMA UpTo ==
    ASSUME NEW n \in Nat, NEW S, 0 \in S, \A i \in 0 .. n - 1 : i \in S => i + 1 \in S
    PROVE  0 .. n \subseteq S
  <1> SUFFICES ASSUME NEW k \in 0 .. n, k \notin S PROVE FALSE
    OBVIOUS
  <1> DEFINE T == {i \in 0 .. n : i \notin S}
  <1>1. PICK m \in T : \A i \in T : m <= i
    <2>1. T \subseteq Nat /\ T # {}
      OBVIOUS
    <2> HIDE DEF T
    <2> QED
      BY <2>1, LeastMember
  <1>2. m - 1 \in 0 .. n - 1 /\ m - 1 \in S
    BY <1>1
  <1> QED
    BY <1>1, <1>2

(* A finite set has more than one element when two of its elements differ.  *)
LEMMA MoreThanOne ==
    ASSUME NEW S, IsFiniteSet(S)
    PROVE  Cardinality(S) > 1 <=> \E x, y \in S : x # y
  <1>1. Cardinality(S) \in Nat
    BY FS_CardinalityType
  <1>2. Cardinality(S) = 0 <=> S = {}
    BY FS_EmptySet
  <1>3. Cardinality(S) = 1 <=> \E x : S = {x}
    BY FS_Singleton
  <1>4. (S = {} \/ \E x : S = {x}) <=> ~\E x, y \in S : x # y
    OBVIOUS
  <1> QED
    BY <1>1, <1>2, <1>3, <1>4

(* The responses, and the backing states, of finitely many answers.         *)
LEMMA FiniteColumns ==
    ASSUME NEW S, IsFiniteSet(S)
    PROVE  IsFiniteSet({d.response : d \in S}) /\ IsFiniteSet({d.backing : d \in S})
  <1> DEFINE response == [d \in S |-> d.response]
             backing == [d \in S |-> d.backing]
  <1>1. response \in Surjection(S, {d.response : d \in S})
    BY DEF Surjection
  <1>2. backing \in Surjection(S, {d.backing : d \in S})
    BY DEF Surjection
  <1> QED
    BY <1>1, <1>2, FS_Surjection

-------------------------------------------------------------------------------
(* parse_trace goes through the lines one at a time. *)
Reads(trace, n, read) ==
    read = [i \in 0 .. n |-> IF i = 0 THEN Nothing ELSE ReadLine(read[i - 1], trace[i], i)]

LEMMA ReadsExists ==
    ASSUME NEW trace, NEW n \in Nat
    PROVE  \E read : Reads(trace, n, read)
  <1> DEFINE S == {i \in 0 .. n : \E read : Reads(trace, i, read)}
  <1>1. 0 \in S
    <2> DEFINE read == [i \in 0 .. 0 |-> Nothing]
    <2>1. Reads(trace, 0, read)
      BY DEF Reads
    <2> QED
      BY <2>1
  <1>2. ASSUME NEW i \in 0 .. n - 1, i \in S PROVE i + 1 \in S
    <2>1. PICK read : Reads(trace, i, read)
      BY <1>2
    <2> DEFINE next == [k \in 0 .. i + 1 |->
                           IF k = i + 1 THEN ReadLine(read[i], trace[i + 1], i + 1) ELSE read[k]]
    <2>2. next = [k \in 0 .. i + 1 |->
                     IF k = 0 THEN Nothing ELSE ReadLine(next[k - 1], trace[k], k)]
      <3> SUFFICES ASSUME NEW k \in 0 .. i + 1
                   PROVE  next[k] = IF k = 0 THEN Nothing ELSE ReadLine(next[k - 1], trace[k], k)
        OBVIOUS
      <3>1. CASE k = i + 1
        BY <3>1
      <3>2. CASE k # i + 1
        <4>1. k \in 0 .. i /\ next[k] = read[k]
          BY <3>2
        <4>2. read[k] = IF k = 0 THEN Nothing ELSE ReadLine(read[k - 1], trace[k], k)
          BY <2>1, <4>1 DEF Reads
        <4>3. k # 0 => next[k - 1] = read[k - 1]
          BY <4>1
        <4> QED
          BY <4>1, <4>2, <4>3
      <3> QED
        BY <3>1, <3>2
    <2>3. Reads(trace, i + 1, next)
      BY <2>2 DEF Reads
    <2> QED
      BY <2>3
  <1> HIDE DEF S
  <1>3. 0 .. n \subseteq S
    BY <1>1, <1>2, UpTo
  <1>4. n \in S
    BY <1>3
  <1> QED
    BY <1>4 DEF S

LEMMA CollectedReads ==
    ASSUME NEW trace, Len(trace) \in Nat
    PROVE  \E read : Reads(trace, Len(trace), read) /\ Collected(trace) = read[Len(trace)]
  <1> DEFINE read == CHOOSE f : Reads(trace, Len(trace), f)
  <1>1. Collected(trace) = read[Len(trace)]
    BY DEF Collected, Reads
  <1>2. Reads(trace, Len(trace), read)
    BY ReadsExists
  <1> QED
    BY <1>1, <1>2

LEMMA CollectedEmpty == Collected(<< >>) = Nothing
  <1>1. Len(<< >>) = 0
    OBVIOUS
  <1>2. PICK read : Reads(<< >>, 0, read) /\ Collected(<< >>) = read[0]
    BY <1>1, CollectedReads
  <1> QED
    BY <1>2 DEF Reads

LEMMA CollectedAppend ==
    ASSUME NEW S, NEW tr \in Seq(S), NEW e \in S
    PROVE  Collected(Append(tr, e)) = ReadLine(Collected(tr), e, Len(tr) + 1)
  <1> DEFINE new == Append(tr, e)
             n == Len(tr)
  <1>1. n \in Nat /\ Len(new) = n + 1 /\ new[n + 1] = e /\ \A i \in 1 .. n : new[i] = tr[i]
    OBVIOUS
  <1> HIDE DEF new, n
  <1>2. PICK f : Reads(tr, n, f) /\ Collected(tr) = f[n]
    BY <1>1, CollectedReads DEF n
  <1>3. PICK g : Reads(new, n + 1, g) /\ Collected(new) = g[n + 1]
    BY <1>1, CollectedReads DEF n
  <1> DEFINE Same == {i \in 0 .. n : f[i] = g[i]}
  <1>4. 0 \in Same
    BY <1>1, <1>2, <1>3 DEF Reads
  <1>5. ASSUME NEW i \in 0 .. n - 1, i \in Same PROVE i + 1 \in Same
    <2>1. f[i + 1] = ReadLine(f[i], tr[i + 1], i + 1)
      BY <1>1, <1>2 DEF Reads
    <2>2. g[i + 1] = ReadLine(g[i], new[i + 1], i + 1)
      BY <1>1, <1>3 DEF Reads
    <2> QED
      BY <1>1, <1>5, <2>1, <2>2
  <1>6. 0 .. n \subseteq Same
    <2> HIDE DEF Same
    <2> QED
      BY <1>1, <1>4, <1>5, UpTo
  <1>7. g[n + 1] = ReadLine(g[n], new[n + 1], n + 1)
    BY <1>1, <1>3 DEF Reads
  <1>8. n \in Same
    BY <1>1, <1>6
  <1> QED
    BY <1>1, <1>2, <1>3, <1>7, <1>8 DEF new, n

-------------------------------------------------------------------------------
(* Along a path no capability, and no fact, comes from nowhere. *)
LEMMA NothingGained ==
    ASSUME NEW given, NEW g \in given.graph, NEW p \in Paths(g)
    PROVE  /\ Status(given)["I"] = "pass" =>
                 /\ g.state[p[Len(p)].dst].capabilities
                        \subseteq g.state[p[1].src].capabilities
                                  \cup UNION {t.authorized_grant : t \in Range(p)}
                 /\ g.state[p[Len(p)].dst].capabilities \cap given.forbidden
                        \subseteq UNION {t.authorized_grant : t \in Range(p)}
           /\ Status(given)["III"] = "pass" =>
                 g.state[p[Len(p)].dst].knowledge
                     \subseteq g.state[p[1].src].knowledge
                               \cup UNION {t.disclosed_grant : t \in Range(p)}
  <1>1. PICK n \in 1 .. MaxPath : p \in [1 .. n -> g.transitions]
    BY DEF Paths
  <1> USE EngineAssumption
  <1>2. Len(p) = n /\ \A i \in 2 .. n : p[i].src = p[i - 1].dst
    <2>1. Len(p) = n
      BY <1>1
    <2> QED
      BY <2>1 DEF Paths
  <1>3. \A i \in 1 .. n : p[i] \in g.transitions /\ p[i] \in Range(p)
    BY <1>1 DEF Range
  <1> DEFINE granted == UNION {t.authorized_grant : t \in Range(p)}
             disclosed == UNION {t.disclosed_grant : t \in Range(p)}
  <1>4. ASSUME Status(given)["I"] = "pass"
        PROVE  /\ g.state[p[n].dst].capabilities \subseteq g.state[p[1].src].capabilities \cup granted
               /\ g.state[p[n].dst].capabilities \cap given.forbidden \subseteq granted
    <2>1. "I" \notin Violated(given)
      BY <1>4 DEF Status, Article
    <2>2. \A t \in g.transitions :
              Ungranted(g.state[t.src], g.state[t.dst], t, given.forbidden) = {}
      BY <2>1 DEF Violated, Article, AuthorityViolations
    <2>3. \A i \in 1 .. n :
              /\ g.state[p[i].dst].capabilities \subseteq g.state[p[i].src].capabilities \cup granted
              /\ g.state[p[i].dst].capabilities \cap given.forbidden \subseteq granted
      BY <1>3, <2>2 DEF Ungranted
    <2> DEFINE S == {i \in 0 .. n : i = 0 \/
                        g.state[p[i].dst].capabilities
                            \subseteq g.state[p[1].src].capabilities \cup granted}
    <2>4. ASSUME NEW i \in 0 .. n - 1, i \in S PROVE i + 1 \in S
      <3>1. CASE i = 0
        BY <1>1, <2>3, <3>1
      <3>2. CASE i # 0
        <4>1. p[i + 1].src = p[i].dst
          BY <1>2, <3>2
        <4>2. g.state[p[i + 1].dst].capabilities \subseteq g.state[p[i + 1].src].capabilities \cup granted
          <5>1. i + 1 \in 1 .. n
            BY <1>1
          <5> HIDE DEF granted
          <5> QED
            BY <2>3, <5>1
        <4> QED
          BY <2>4, <3>2, <4>1, <4>2
      <3> QED
        BY <3>1, <3>2
    <2>5. 0 .. n \subseteq S
      <3>1. 0 \in S
        OBVIOUS
      <3> HIDE DEF S
      <3> QED
        BY <2>4, <3>1, UpTo
    <2> QED
      BY <1>1, <2>3, <2>5
  <1>5. ASSUME Status(given)["III"] = "pass"
        PROVE  g.state[p[n].dst].knowledge \subseteq g.state[p[1].src].knowledge \cup disclosed
    <2>1. "III" \notin Violated(given)
      BY <1>5 DEF Status, Article
    <2>2. \A t \in g.transitions : Leaked(g.state[t.src], g.state[t.dst], t) = {}
      BY <2>1 DEF Violated, Article, ConfidentialityViolations
    <2>3. \A i \in 1 .. n :
              g.state[p[i].dst].knowledge \subseteq g.state[p[i].src].knowledge \cup disclosed
      BY <1>3, <2>2 DEF Leaked
    <2> DEFINE S == {i \in 0 .. n : i = 0 \/
                        g.state[p[i].dst].knowledge
                            \subseteq g.state[p[1].src].knowledge \cup disclosed}
    <2>4. ASSUME NEW i \in 0 .. n - 1, i \in S PROVE i + 1 \in S
      <3>1. CASE i = 0
        BY <1>1, <2>3, <3>1
      <3>2. CASE i # 0
        <4>1. p[i + 1].src = p[i].dst
          BY <1>2, <3>2
        <4>2. g.state[p[i + 1].dst].knowledge \subseteq g.state[p[i + 1].src].knowledge \cup disclosed
          BY <2>3
        <4> QED
          BY <2>4, <3>2, <4>1, <4>2
      <3> QED
        BY <3>1, <3>2
    <2>5. 0 .. n \subseteq S
      <3>1. 0 \in S
        OBVIOUS
      <3> HIDE DEF S
      <3> QED
        BY <2>4, <3>1, UpTo
    <2> QED
      BY <1>1, <2>5
  <1> QED
    BY <1>2, <1>4, <1>5

(* Whatever a trace holds, Articles I and III pass its graph only if every  *)
(* path through it explains what is there at its end.                       *)
THEOREM GraphsExplained == EngineSpec => []PathsExplained
  <1>1. PathsExplained
    BY NothingGained DEF PathsExplained
  <1> QED
    BY <1>1, PTL

-------------------------------------------------------------------------------
(* Ranks.  The members of a finite set of numbers have different ranks,     *)
(* below its cardinality...                                                 *)
LEMMA RanksDiffer ==
    ASSUME NEW S, S \subseteq Nat, IsFiniteSet(S)
    PROVE  /\ Cardinality(S) \in Nat
           /\ \A i \in S : Rank(S, i) \in 0 .. Cardinality(S) - 1
           /\ \A i, j \in S : i < j => Rank(S, i) < Rank(S, j)
  <1> DEFINE Below(i) == {j \in S : j < i}
  <1>1. \A i \in S : IsFiniteSet(Below(i)) /\ Rank(S, i) = Cardinality(Below(i))
    BY FS_Subset DEF Rank
  <1>2. Cardinality(S) \in Nat /\ \A i \in S : Cardinality(Below(i)) \in Nat
    BY <1>1, FS_CardinalityType
  <1>3. ASSUME NEW i \in S PROVE Cardinality(Below(i)) < Cardinality(S)
    <2>1. Below(i) \subseteq S /\ i \in S /\ i \notin Below(i)
      OBVIOUS
    <2> HIDE DEF Below
    <2>2. Cardinality(Below(i)) <= Cardinality(S) /\
          (Cardinality(Below(i)) = Cardinality(S) => Below(i) = S)
      BY <1>1, <2>1, FS_Subset
    <2> QED
      BY <1>2, <2>1, <2>2
  <1>4. ASSUME NEW i \in S, NEW j \in S, i < j PROVE Cardinality(Below(i)) < Cardinality(Below(j))
    <2>1. Below(i) \subseteq Below(j) /\ i \in Below(j) /\ i \notin Below(i)
      <3>1. \A k \in S : k \in Nat
        OBVIOUS
      <3>2. \A k \in S : k < i => k < j
        BY <1>4, <3>1
      <3>3. ~(i < i)
        BY <3>1
      <3> QED
        BY <1>4, <3>2, <3>3
    <2> HIDE DEF Below
    <2>2. Cardinality(Below(i)) <= Cardinality(Below(j)) /\
          (Cardinality(Below(i)) = Cardinality(Below(j)) => Below(i) = Below(j))
      BY <1>1, <2>1, FS_Subset
    <2> QED
      BY <1>2, <2>1, <2>2
  <1> HIDE DEF Below
  <1> QED
    BY <1>1, <1>2, <1>3, <1>4

(* ...and every rank below the cardinality is that of a member. *)
LEMMA RanksExist ==
    ASSUME NEW S, S \subseteq Nat, IsFiniteSet(S)
    PROVE  \A n \in 1 .. Cardinality(S) : \E i \in S : Rank(S, i) = n - 1
  <1> DEFINE c == Cardinality(S)
             Found == {n \in 0 .. c : n = 0 \/ \E i \in S : Rank(S, i) = n - 1}
  <1>1. c \in Nat
    BY FS_CardinalityType
  <1>2. ASSUME NEW n \in 0 .. c - 1, n \in Found PROVE n + 1 \in Found
    <2>1. PICK low \in SUBSET S : Cardinality(low) = n /\ IsFiniteSet(low)
                                  /\ \A i \in low : \A j \in S : j < i => j \in low
      <3>1. CASE n = 0
        <4>1. Cardinality({}) = 0 /\ IsFiniteSet({})
          BY FS_EmptySet
        <4> QED
          BY <3>1, <4>1
      <3>2. CASE n # 0
        <4>1. PICK i \in S : Rank(S, i) = n - 1
          BY <1>2, <3>2
        <4> DEFINE Below == {j \in S : j < i}
        <4>2. IsFiniteSet(Below) /\ Cardinality(Below) = n - 1 /\ i \notin Below
          BY <4>1, FS_Subset DEF Rank
        <4>3. Cardinality(Below \cup {i}) = n /\ IsFiniteSet(Below \cup {i})
          <5> HIDE DEF Below
          <5>1. Cardinality(Below \cup {i}) = Cardinality(Below) + 1 /\ IsFiniteSet(Below \cup {i})
            BY <4>2, FS_AddElement
          <5>2. n \in Int
            BY <1>1
          <5> QED
            BY <4>2, <5>1, <5>2
        <4>4. Below \cup {i} \subseteq S
          OBVIOUS
        <4>5. \A k \in Below \cup {i} : \A j \in S : j < k => j \in Below \cup {i}
          OBVIOUS
        <4> QED
          BY <4>3, <4>4, <4>5
      <3> QED
        BY <3>1, <3>2
    <2>2. S \ low # {} /\ S \ low \subseteq Nat
      <3>1. low # S
        BY <1>1, <2>1
      <3> QED
        BY <3>1
    <2>3. PICK m \in S \ low : \A j \in S \ low : m <= j
      BY <2>2, LeastMember
    <2>4. {j \in S : j < m} = low
      <3>1. \A j \in S : j \in Nat
        OBVIOUS
      <3>2. \A j \in low : j < m
        BY <2>1, <2>3, <3>1
      <3>3. \A j \in S : j < m => j \in low
        BY <2>3, <3>1
      <3> QED
        BY <2>1, <3>2, <3>3
    <2>5. Rank(S, m) = n
      BY <2>1, <2>4 DEF Rank
    <2> QED
      BY <1>1, <2>3, <2>5
  <1>3. 0 .. c \subseteq Found
    <2>1. 0 \in Found
      BY <1>1
    <2> HIDE DEF Found, c
    <2> QED
      BY <1>1, <1>2, <2>1, UpTo
  <1> QED
    BY <1>1, <1>3

LEMMA RankUnique ==
    ASSUME NEW S, S \subseteq Nat, IsFiniteSet(S), NEW i \in S, NEW j \in S, Rank(S, i) = Rank(S, j)
    PROVE  i = j
  <1>1. /\ Cardinality(S) \in Nat
        /\ \A k \in S : Rank(S, k) \in 0 .. Cardinality(S) - 1
        /\ \A k, l \in S : k < l => Rank(S, k) < Rank(S, l)
    BY RanksDiffer
  <1>2. Rank(S, i) \in Int /\ i \in Nat /\ j \in Nat
    BY <1>1
  <1>3. ~(i < j) /\ ~(j < i)
    BY <1>1, <1>2
  <1> QED
    BY <1>2, <1>3

LEMMA AscendingEnumerates ==
    ASSUME NEW S, S \subseteq Nat, IsFiniteSet(S)
    PROVE  /\ Cardinality(S) \in Nat
           /\ Ascending(S) \in [1 .. Cardinality(S) -> S]
           /\ \A n, m \in 1 .. Cardinality(S) : n < m => Ascending(S)[n] < Ascending(S)[m]
           /\ \A i \in S : \E n \in 1 .. Cardinality(S) : Ascending(S)[n] = i
           /\ \A n \in 1 .. Cardinality(S) : Rank(S, Ascending(S)[n]) = n - 1
  <1> DEFINE c == Cardinality(S)
             asc == Ascending(S)
  <1>1. c \in Nat /\ \A i \in S : Rank(S, i) \in 0 .. c - 1
    BY RanksDiffer
  <1>2. \A n \in 1 .. c : asc[n] \in S /\ Rank(S, asc[n]) = n - 1
    BY RanksExist DEF Ascending
  <1>3. asc \in [1 .. c -> S]
    BY <1>2 DEF Ascending
  <1>4. ASSUME NEW n \in 1 .. c, NEW m \in 1 .. c, n < m PROVE asc[n] < asc[m]
    <2>1. asc[n] \in S /\ asc[m] \in S /\ Rank(S, asc[n]) < Rank(S, asc[m])
      BY <1>1, <1>2, <1>4
    <2>2. ~(asc[m] < asc[n]) /\ asc[m] # asc[n]
      <3>1. Rank(S, asc[n]) \in Int /\ Rank(S, asc[m]) \in Int
        BY <1>1, <1>2
      <3>2. asc[m] < asc[n] => Rank(S, asc[m]) < Rank(S, asc[n])
        BY <2>1, RanksDiffer
      <3> HIDE DEF asc
      <3> QED
        BY <2>1, <3>1, <3>2
    <2>3. asc[n] \in Nat /\ asc[m] \in Nat
      BY <2>1
    <2> HIDE DEF asc
    <2> QED
      BY <2>2, <2>3
  <1>5. ASSUME NEW i \in S PROVE \E n \in 1 .. c : asc[n] = i
    <2>1. Rank(S, i) + 1 \in 1 .. c
      BY <1>1
    <2>2. asc[Rank(S, i) + 1] \in S /\ Rank(S, asc[Rank(S, i) + 1]) = Rank(S, i)
      BY <1>1, <1>2, <2>1
    <2>3. asc[Rank(S, i) + 1] = i
      BY <2>2, RankUnique
    <2> QED
      BY <2>1, <2>3
  <1> QED
    BY <1>1, <1>2, <1>3, <1>4, <1>5

(* A member above all others comes last. *)
LEMMA AscendingAdd ==
    ASSUME NEW S, S \subseteq Nat, IsFiniteSet(S), NEW x \in Nat, \A i \in S : i < x
    PROVE  Ascending(S \cup {x}) = Append(Ascending(S), x)
  <1> DEFINE c == Cardinality(S)
             T == S \cup {x}
  <1>1. x \notin S /\ T \subseteq Nat
    OBVIOUS
  <1>2. c \in Nat /\ IsFiniteSet(T) /\ Cardinality(T) = c + 1
    BY <1>1, FS_CardinalityType, FS_AddElement
  <1>3. \A i \in S : Rank(T, i) = Rank(S, i)
    <2> SUFFICES ASSUME NEW i \in S PROVE {j \in T : j < i} = {j \in S : j < i}
      BY DEF Rank
    <2> QED
      OBVIOUS
  <1>4. Rank(T, x) = c
    <2>1. {j \in T : j < x} = S
      <3>1. ~(x < x)
        OBVIOUS
      <3> QED
        BY <3>1
    <2> QED
      BY <2>1 DEF Rank
  <1> HIDE DEF T
  <1>5. /\ Ascending(T) \in [1 .. c + 1 -> T]
        /\ \A n \in 1 .. c + 1 : Rank(T, Ascending(T)[n]) = n - 1
    BY <1>1, <1>2, AscendingEnumerates
  <1>6. /\ Ascending(S) \in [1 .. c -> S]
        /\ \A n \in 1 .. c : Rank(S, Ascending(S)[n]) = n - 1
    BY AscendingEnumerates
  <1>7. ASSUME NEW n \in 1 .. c PROVE Ascending(T)[n] = Ascending(S)[n]
    <2>1. Ascending(S)[n] \in T /\ Rank(T, Ascending(S)[n]) = n - 1
      BY <1>3, <1>6 DEF T
    <2>2. Ascending(T)[n] \in T /\ Rank(T, Ascending(T)[n]) = n - 1
      BY <1>2, <1>5
    <2> QED
      BY <1>1, <1>2, <2>1, <2>2, RankUnique
  <1>8. Ascending(T)[c + 1] = x
    <2>1. x \in T /\ Rank(T, x) = c
      BY <1>4 DEF T
    <2>2. Ascending(T)[c + 1] \in T /\ Rank(T, Ascending(T)[c + 1]) = c
      BY <1>2, <1>5
    <2> QED
      BY <1>1, <1>2, <2>1, <2>2, RankUnique
  <1>9. Append(Ascending(S), x) = [n \in 1 .. c + 1 |-> IF n = c + 1 THEN x ELSE Ascending(S)[n]]
    <2> DEFINE asc == Ascending(S)
    <2>1. asc \in Seq(S) /\ Len(asc) = c
      BY <1>2, <1>6
    <2> HIDE DEF asc
    <2>2. Append(asc, x) \in Seq(T) /\ Len(Append(asc, x)) = c + 1 /\ Append(asc, x)[c + 1] = x
          /\ \A n \in 1 .. c : Append(asc, x)[n] = asc[n]
      <3>1. asc \in Seq(T) /\ x \in T
        BY <2>1 DEF T
      <3> QED
        BY <1>2, <2>1, <3>1
    <2>3. Append(asc, x) = [n \in 1 .. c + 1 |-> Append(asc, x)[n]]
      <3>1. Append(asc, x) \in [1 .. c + 1 -> T]
        BY <2>2, LenProperties
      <3> QED
        BY <3>1
    <2> QED
      BY <1>2, <2>2, <2>3 DEF asc
  <1>10. Ascending(T) = [n \in 1 .. c + 1 |-> IF n = c + 1 THEN x ELSE Ascending(S)[n]]
    BY <1>2, <1>5, <1>7, <1>8
  <1> QED
    BY <1>9, <1>10 DEF T

-------------------------------------------------------------------------------
(* One more line.  Where the events of a kind are, and which they are: *)
LEMMA OneMoreLine ==
    ASSUME NEW S, NEW tr \in Seq(S), NEW e \in S
    PROVE  /\ Append(tr, e) \in Seq(S) /\ Len(Append(tr, e)) = Len(tr) + 1 /\ Len(tr) \in Nat
           /\ DOMAIN tr = 1 .. Len(tr) /\ DOMAIN Append(tr, e) = 1 .. Len(tr) + 1
           /\ \A i \in 1 .. Len(tr) : Append(tr, e)[i] = tr[i]
           /\ Append(tr, e)[Len(tr) + 1] = e
           /\ \A type : /\ At(tr, type) \subseteq 1 .. Len(tr)
                        /\ At(Append(tr, e), type) =
                               At(tr, type) \cup (IF e.type = type THEN {Len(tr) + 1} ELSE {})
                        /\ Of(Append(tr, e), type) =
                               Of(tr, type) \cup (IF e.type = type THEN {e} ELSE {})
  <1> DEFINE new == Append(tr, e)
             n == Len(tr)
  <1>1. /\ new \in Seq(S) /\ Len(new) = n + 1 /\ n \in Nat
        /\ DOMAIN tr = 1 .. n /\ DOMAIN new = 1 .. n + 1
        /\ \A i \in 1 .. n : new[i] = tr[i]
        /\ new[n + 1] = e
    OBVIOUS
  <1> HIDE DEF new, n
  <1>2. \A type : At(tr, type) \subseteq 1 .. n
    BY <1>1 DEF At
  <1>3. \A type : At(new, type) = At(tr, type) \cup (IF e.type = type THEN {n + 1} ELSE {})
    BY <1>1 DEF At
  <1>4. ASSUME NEW type
        PROVE  Of(new, type) = Of(tr, type) \cup (IF e.type = type THEN {e} ELSE {})
    <2>1. \A i \in At(tr, type) : new[i] = tr[i]
      BY <1>1, <1>2
    <2>2. Of(new, type) = {new[i] : i \in At(tr, type)} \cup (IF e.type = type THEN {e} ELSE {})
      <3>1. CASE e.type = type
        <4>1. At(new, type) = At(tr, type) \cup {n + 1}
          BY <1>3, <3>1
        <4> QED
          BY <1>1, <3>1, <4>1 DEF Of
      <3>2. CASE e.type # type
        <4>1. At(new, type) = At(tr, type)
          BY <1>3, <3>2
        <4> QED
          BY <3>2, <4>1 DEF Of
      <3> QED
        BY <3>1, <3>2
    <2>3. {new[i] : i \in At(tr, type)} = {tr[i] : i \in At(tr, type)}
      BY <2>1
    <2> QED
      BY <2>2, <2>3 DEF Of
  <1> QED
    BY <1>1, <1>2, <1>3, <1>4 DEF new, n

LEMMA FiniteAt ==
    ASSUME NEW S, NEW tr \in Seq(S)
    PROVE  \A type : IsFiniteSet(At(tr, type)) /\ At(tr, type) \subseteq Nat
  <1>1. Len(tr) \in Nat /\ DOMAIN tr = 1 .. Len(tr)
    OBVIOUS
  <1>2. IsFiniteSet(1 .. Len(tr))
    BY <1>1, FS_Interval
  <1>3. \A type : At(tr, type) \subseteq 1 .. Len(tr)
    BY <1>1 DEF At
  <1> QED
    BY <1>1, <1>2, <1>3, FS_Subset

(* ...and the numbers of accesses. *)
LEMMA NumberedLineShape ==
    ASSUME NEW e \in Line, NEW n \in Nat
    PROVE  /\ NumberedLine(e, n).type = e.type
           /\ e.type # "resource_access" => NumberedLine(e, n) = e
           /\ e.type = "resource_access" =>
                 LET seq == IF e.seq = NoSeq THEN n ELSE e.seq IN
                 /\ seq \in Nat
                 /\ NumberedLine(e, n) = [e EXCEPT !.seq = seq]
                 /\ NumberedLine(e, n).seq = seq
  <1>1. CASE e.type # "resource_access"
    BY <1>1 DEF NumberedLine
  <1>2. CASE e.type = "resource_access"
    <2>1. e = AccessEvent(e.seq, e.agent, e.resource, e.op) /\ e.seq \in Nat \cup {NoSeq}
      BY <1>2, EngineAssumption
    <2>2. CASE e.seq = NoSeq
      BY <1>2, <2>1, <2>2 DEF NumberedLine, AccessEvent
    <2>3. CASE e.seq # NoSeq
      <3>1. [e EXCEPT !.seq = e.seq] = e
        BY <2>1 DEF AccessEvent
      <3> QED
        BY <1>2, <2>1, <2>3, <3>1 DEF NumberedLine
    <2> QED
      BY <2>2, <2>3
  <1> QED
    BY <1>1, <1>2

LEMMA NumberedAppend ==
    ASSUME NEW tr \in Seq(Line), NEW e \in Line
    PROVE  LET num == Numbered(tr)
               next == Numbered(Append(tr, e))
               last == NumberedLine(e, Len(tr) + 1)
           IN /\ \A i \in 1 .. Len(tr) : next[i] = num[i] /\ num[i].type = tr[i].type
              /\ next[Len(tr) + 1] = last
              /\ \A type : At(num, type) = At(tr, type) /\ At(next, type) = At(Append(tr, e), type)
              /\ Accesses(next) =
                     Accesses(num) \cup (IF e.type = "resource_access" THEN {last} ELSE {})
  <1> DEFINE new == Append(tr, e)
             n == Len(tr)
             num == Numbered(tr)
             next == Numbered(new)
             last == NumberedLine(e, n + 1)
  <1>1. /\ new \in Seq(Line) /\ n \in Nat
        /\ DOMAIN tr = 1 .. n /\ DOMAIN new = 1 .. n + 1
        /\ \A i \in 1 .. n : new[i] = tr[i] /\ tr[i] \in Line
        /\ new[n + 1] = e
    OBVIOUS
  <1> HIDE DEF new, n
  <1>2. /\ DOMAIN num = 1 .. n /\ DOMAIN next = 1 .. n + 1
        /\ \A i \in 1 .. n : num[i] = NumberedLine(tr[i], i) /\ next[i] = num[i]
        /\ next[n + 1] = last
    BY <1>1 DEF Numbered
  <1>3. \A i \in 1 .. n : num[i].type = tr[i].type /\ next[i].type = new[i].type
    <2> SUFFICES ASSUME NEW i \in 1 .. n
                 PROVE  NumberedLine(tr[i], i).type = tr[i].type
      BY <1>1, <1>2
    <2>1. i \in Nat /\ tr[i] \in Line
      BY <1>1
    <2> QED
      BY <2>1, NumberedLineShape
  <1>4. last.type = e.type
    BY <1>1, NumberedLineShape
  <1> HIDE DEF num, next, last
  <1>5. \A type : At(num, type) = At(tr, type) /\ At(next, type) = At(new, type)
    BY <1>1, <1>2, <1>3, <1>4 DEF At
  <1>6. Accesses(next) = Accesses(num) \cup (IF e.type = "resource_access" THEN {last} ELSE {})
    <2> DEFINE A == At(tr, "resource_access")
               B == At(new, "resource_access")
    <2>1. A \subseteq 1 .. n /\ B = A \cup (IF e.type = "resource_access" THEN {n + 1} ELSE {})
      BY OneMoreLine DEF new, n
    <2>2. Accesses(next) = {next[i] : i \in B} /\ Accesses(num) = {num[i] : i \in A}
      BY <1>5 DEF Accesses, Of
    <2>3. \A i \in A : next[i] = num[i]
      BY <1>2, <2>1
    <2> HIDE DEF A, B
    <2>4. CASE e.type = "resource_access"
      <3>1. B = A \cup {n + 1}
        BY <2>1, <2>4
      <3> QED
        BY <1>2, <2>2, <2>3, <2>4, <3>1
    <2>5. CASE e.type # "resource_access"
      <3>1. B = A
        BY <2>1, <2>5
      <3> QED
        BY <2>2, <2>3, <2>5, <3>1
    <2> QED
      BY <2>4, <2>5
  <1> QED
    BY <1>2, <1>3, <1>5, <1>6 DEF new, n, num, next, last

LEMMA ChainOfLines ==
    ASSUME NEW tr \in Seq(Line)
    PROVE  LET A == At(tr, "delegation") IN
           /\ Ascending(A) \in [1 .. Cardinality(A) -> A] /\ Cardinality(A) \in Nat
           /\ DelegationChain(tr) = [k \in 1 .. Cardinality(A) |-> tr[Ascending(A)[k]]]
           /\ DelegationChain(tr) \in Seq(Line) /\ Len(DelegationChain(tr)) = Cardinality(A)
           /\ DelegationChain(tr) = << >> <=> A = {}
  <1> DEFINE n == Len(tr)
             A == At(tr, "delegation")
             asc == Ascending(A)
             c == Cardinality(A)
  <1>1. n \in Nat /\ DOMAIN tr = 1 .. n /\ \A i \in 1 .. n : tr[i] \in Line
    OBVIOUS
  <1>2. IsFiniteSet(A) /\ A \subseteq Nat /\ A \subseteq 1 .. n
    BY <1>1, FiniteAt DEF At
  <1>3. c \in Nat /\ asc \in [1 .. c -> A]
    BY <1>2, AscendingEnumerates
  <1> HIDE DEF n, A, asc, c
  <1>4. DelegationChain(tr) = [k \in 1 .. c |-> tr[asc[k]]]
    BY <1>3 DEF DelegationChain, A, asc, c
  <1>5. DelegationChain(tr) \in [1 .. c -> Line]
    BY <1>1, <1>2, <1>3, <1>4
  <1>6. DelegationChain(tr) \in Seq(Line) /\ Len(DelegationChain(tr)) = c
    BY <1>3, <1>5
  <1>7. DelegationChain(tr) = << >> <=> A = {}
    <2>1. DelegationChain(tr) = << >> <=> c = 0
      BY <1>6, EmptySeq
    <2>2. c = 0 <=> A = {}
      BY <1>2, FS_EmptySet DEF c
    <2> QED
      BY <2>1, <2>2
  <1> QED
    BY <1>3, <1>4, <1>6, <1>7 DEF A, asc, c

LEMMA ChainAppend ==
    ASSUME NEW tr \in Seq(Line), NEW e \in Line
    PROVE  /\ e.type = "delegation" =>
                 DelegationChain(Append(tr, e)) = Append(DelegationChain(tr), e)
           /\ e.type # "delegation" => DelegationChain(Append(tr, e)) = DelegationChain(tr)
  <1> DEFINE new == Append(tr, e)
             n == Len(tr)
             A == At(tr, "delegation")
             B == At(new, "delegation")
             asc == Ascending(A)
             c == Cardinality(A)
  <1>1. /\ new \in Seq(Line) /\ n \in Nat
        /\ DOMAIN tr = 1 .. n /\ \A i \in 1 .. n : new[i] = tr[i] /\ tr[i] \in Line
        /\ new[n + 1] = e
        /\ A \subseteq 1 .. n /\ B = A \cup (IF e.type = "delegation" THEN {n + 1} ELSE {})
    BY OneMoreLine
  <1>2. IsFiniteSet(A) /\ A \subseteq Nat
    BY FiniteAt
  <1>3. c \in Nat /\ asc \in [1 .. c -> A]
    BY ChainOfLines
  <1>4. DelegationChain(tr) = [k \in 1 .. c |-> tr[asc[k]]]
    BY ChainOfLines
  <1>6. DelegationChain(tr) \in Seq(Line) /\ Len(DelegationChain(tr)) = c
    BY ChainOfLines
  <1> HIDE DEF new, n, A, B, asc, c
  <1>5. ASSUME e.type # "delegation" PROVE DelegationChain(new) = DelegationChain(tr)
    <2>1. B = A
      BY <1>1, <1>5
    <2>2. DelegationChain(new) = [k \in 1 .. c |-> new[asc[k]]]
      BY <1>3, <2>1 DEF DelegationChain, A, B, asc, c
    <2>3. \A k \in 1 .. c : new[asc[k]] = tr[asc[k]]
      BY <1>1, <1>3
    <2> QED
      BY <1>4, <2>2, <2>3
  <1>7. ASSUME e.type = "delegation" PROVE DelegationChain(new) = Append(DelegationChain(tr), e)
    <2>1. B = A \cup {n + 1}
      BY <1>1, <1>7
    <2>2. Ascending(B) = Append(asc, n + 1)
      <3>1. \A i \in A : i < n + 1
        BY <1>1
      <3>2. n + 1 \in Nat
        BY <1>1
      <3>3. Ascending(A \cup {n + 1}) = Append(Ascending(A), n + 1)
        BY <1>2, <3>1, <3>2, AscendingAdd
      <3> QED
        BY <2>1, <3>3 DEF asc
    <2>3. asc \in Seq(A) /\ Len(asc) = c
      BY <1>3
    <2>4. /\ DOMAIN Append(asc, n + 1) = 1 .. c + 1
          /\ Append(asc, n + 1)[c + 1] = n + 1
          /\ \A k \in 1 .. c : Append(asc, n + 1)[k] = asc[k]
      <3>1. asc \in Seq(B) /\ n + 1 \in B
        BY <1>3, <2>1, <2>3
      <3> QED
        BY <1>3, <2>3, <3>1, AppendProperties
    <2>5. DelegationChain(new) = [k \in 1 .. c + 1 |-> IF k = c + 1 THEN e ELSE tr[asc[k]]]
      <3>1. DelegationChain(new) = [k \in 1 .. c + 1 |-> new[Append(asc, n + 1)[k]]]
        BY <2>2, <2>4 DEF DelegationChain, B
      <3>2. ASSUME NEW k \in 1 .. c + 1
            PROVE  new[Append(asc, n + 1)[k]] = IF k = c + 1 THEN e ELSE tr[asc[k]]
        <4>1. CASE k = c + 1
          BY <1>1, <2>4, <4>1
        <4>2. CASE k # c + 1
          <5>1. k \in 1 .. c
            BY <1>3, <4>2
          <5>2. asc[k] \in A
            BY <1>3, <5>1
          <5>3. asc[k] \in 1 .. n
            BY <1>1, <5>2
          <5>4. Append(asc, n + 1)[k] = asc[k]
            BY <2>4, <5>1
          <5>5. new[asc[k]] = tr[asc[k]]
            BY <1>1, <5>3
          <5> QED
            BY <4>2, <5>4, <5>5
        <4> QED
          BY <4>1, <4>2
      <3> QED
        BY <3>1, <3>2
    <2>6. Append(DelegationChain(tr), e) \in [1 .. c + 1 -> Line]
      BY <1>6, AppendProperties, LenProperties
    <2>7. /\ Append(DelegationChain(tr), e)[c + 1] = e
          /\ \A k \in 1 .. c : Append(DelegationChain(tr), e)[k] = DelegationChain(tr)[k]
      BY <1>6, AppendProperties
    <2> QED
      BY <1>3, <1>4, <2>5, <2>6, <2>7
  <1> QED
    BY <1>5, <1>7 DEF new

-------------------------------------------------------------------------------
(* What one more line does to each of the conditions of Accepted.           *)
LEMMA SingleAppend ==
    ASSUME NEW tr \in Seq(Line), NEW e \in Line
    PROVE  SingleEvents(Append(tr, e)) <=>
               /\ SingleEvents(tr)
               /\ e.type \in {"init", "root_authority"} => At(tr, e.type) = {}
  <1> DEFINE new == Append(tr, e)
             n == Len(tr)
  <1>1. ASSUME NEW type
        PROVE  /\ Cardinality(At(tr, type)) \in Nat
               /\ e.type # type => At(new, type) = At(tr, type)
               /\ e.type = type => (Cardinality(At(new, type)) <= 1 <=> At(tr, type) = {})
               /\ At(tr, type) = {} => Cardinality(At(tr, type)) <= 1
    <2> DEFINE A == At(tr, type)
               B == At(new, type)
    <2>1. IsFiniteSet(A) /\ A \subseteq 1 .. n /\ n \in Nat
          /\ B = A \cup (IF e.type = type THEN {n + 1} ELSE {})
      BY FiniteAt, OneMoreLine
    <2> HIDE DEF A, B, n
    <2>2. Cardinality(A) \in Nat /\ (Cardinality(A) = 0 <=> A = {})
      BY <2>1, FS_CardinalityType, FS_EmptySet
    <2>3. n + 1 \notin A
      BY <2>1
    <2>4. Cardinality(A \cup {n + 1}) = Cardinality(A) + 1
      BY <2>1, <2>3, FS_AddElement
    <2>5. e.type = type => B = A \cup {n + 1}
      BY <2>1
    <2>6. e.type # type => B = A
      BY <2>1
    <2>7. ASSUME e.type = type PROVE Cardinality(B) <= 1 <=> A = {}
      <3>1. Cardinality(B) = Cardinality(A) + 1
        BY <2>4, <2>5, <2>7
      <3>2. Cardinality(A) + 1 <= 1 <=> Cardinality(A) = 0
        BY <2>2
      <3> QED
        BY <2>2, <3>1, <3>2
    <2> QED
      BY <2>2, <2>6, <2>7 DEF A, B
  <1> HIDE DEF new
  <1>2. CASE e.type \in {"init", "root_authority"}
    <2>1. PICK other \in {"init", "root_authority"} :
              other # e.type /\ {"init", "root_authority"} = {e.type, other}
      <3>1. CASE e.type = "init"
        BY <3>1
      <3>2. CASE e.type = "root_authority"
        BY <3>2
      <3> QED
        BY <1>2, <3>1, <3>2
    <2>2. SingleEvents(new) <=>
              Cardinality(At(new, e.type)) <= 1 /\ Cardinality(At(new, other)) <= 1
      BY <2>1 DEF SingleEvents
    <2>3. SingleEvents(tr) <=>
              Cardinality(At(tr, e.type)) <= 1 /\ Cardinality(At(tr, other)) <= 1
      BY <2>1 DEF SingleEvents
    <2>4. At(new, other) = At(tr, other)
      BY <1>1, <2>1
    <2>5. Cardinality(At(new, e.type)) <= 1 <=> At(tr, e.type) = {}
      BY <1>1
    <2>6. At(tr, e.type) = {} => Cardinality(At(tr, e.type)) <= 1
      BY <1>1
    <2> QED
      BY <1>2, <2>2, <2>3, <2>4, <2>5, <2>6 DEF new
  <1>3. CASE e.type \notin {"init", "root_authority"}
    <2>1. \A type \in {"init", "root_authority"} : At(new, type) = At(tr, type)
      BY <1>1, <1>3
    <2>2. SingleEvents(new) <=> SingleEvents(tr)
      BY <2>1 DEF SingleEvents
    <2> QED
      BY <1>3, <2>2 DEF new
  <1> QED
    BY <1>2, <1>3

LEMMA UniqueAppend ==
    ASSUME NEW tr \in Seq(Line), NEW e \in Line
    PROVE  /\ UniqueStateIds(Append(tr, e)) <=>
                  UniqueStateIds(tr) /\ (e.type = "state" => \A s \in States(tr) : s.id # e.id)
           /\ UniqueEvidenceIds(Append(tr, e)) <=>
                  /\ UniqueEvidenceIds(tr)
                  /\ e.type = "evidence" => \A r \in EvidenceRecords(tr) : r.id # e.id
  <1> DEFINE new == Append(tr, e)
             n == Len(tr)
  <1>1. ASSUME NEW type
        PROVE  (\A i, j \in At(new, type) : new[i].id = new[j].id => i = j) <=>
                   /\ \A i, j \in At(tr, type) : tr[i].id = tr[j].id => i = j
                   /\ e.type = type => \A s \in Of(tr, type) : s.id # e.id
    <2> DEFINE A == At(tr, type)
               B == At(new, type)
    <2>1. /\ n \in Nat /\ new[n + 1] = e /\ \A i \in 1 .. n : new[i] = tr[i]
          /\ A \subseteq 1 .. n /\ B = A \cup (IF e.type = type THEN {n + 1} ELSE {})
      BY OneMoreLine
    <2>2. Of(tr, type) = {tr[i] : i \in A}
      BY DEF Of
    <2> HIDE DEF A, B, n, new
    <2>3. \A i \in A : new[i] = tr[i] /\ i # n + 1
      BY <2>1
    <2>4. CASE e.type = type
      <3>1. B = A \cup {n + 1}
        BY <2>1, <2>4
      <3>2. (\A s \in Of(tr, type) : s.id # e.id) <=> \A i \in A : tr[i].id # e.id
        BY <2>2
      <3>3. (\A i, j \in B : new[i].id = new[j].id => i = j) <=>
                /\ \A i, j \in A : tr[i].id = tr[j].id => i = j
                /\ \A i \in A : tr[i].id # e.id
        BY <2>1, <2>3, <3>1
      <3> QED
        BY <2>4, <3>2, <3>3 DEF A, B
    <2>5. CASE e.type # type
      <3>1. B = A
        BY <2>1, <2>5
      <3>2. (\A i, j \in B : new[i].id = new[j].id => i = j) <=>
                \A i, j \in A : tr[i].id = tr[j].id => i = j
        BY <2>3, <3>1
      <3> QED
        BY <2>5, <3>2 DEF A, B
    <2> QED
      BY <2>4, <2>5
  <1> HIDE DEF new
  <1>2. UniqueStateIds(new) <=>
            UniqueStateIds(tr) /\ (e.type = "state" => \A s \in States(tr) : s.id # e.id)
    BY <1>1 DEF UniqueStateIds, States
  <1>3. UniqueEvidenceIds(new) <=>
            /\ UniqueEvidenceIds(tr)
            /\ e.type = "evidence" => \A r \in EvidenceRecords(tr) : r.id # e.id
    BY <1>1 DEF UniqueEvidenceIds, EvidenceRecords
  <1> QED
    BY <1>2, <1>3 DEF new

LEMMA SeqsAppend ==
    ASSUME NEW tr \in Seq(Line), NEW e \in Line
    PROVE  ResourceSeqIncreases(Numbered(Append(tr, e))) <=>
               /\ ResourceSeqIncreases(Numbered(tr))
               /\ e.type = "resource_access" =>
                     \A a \in Accesses(Numbered(tr)) : a.seq < NumberedLine(e, Len(tr) + 1).seq
  <1> DEFINE new == Append(tr, e)
             n == Len(tr)
             num == Numbered(tr)
             next == Numbered(new)
             last == NumberedLine(e, n + 1)
             A == At(num, "resource_access")
             B == At(next, "resource_access")
  <1>1. /\ n \in Nat /\ next[n + 1] = last /\ \A i \in 1 .. n : next[i] = num[i]
        /\ A \subseteq 1 .. n /\ B = A \cup (IF e.type = "resource_access" THEN {n + 1} ELSE {})
    BY OneMoreLine, NumberedAppend
  <1>2. Accesses(num) = {num[i] : i \in A}
    BY DEF Accesses, Of
  <1>3. ResourceSeqIncreases(num) <=> \A i, j \in A : i < j => num[i].seq < num[j].seq
    BY DEF ResourceSeqIncreases
  <1>4. ResourceSeqIncreases(next) <=> \A i, j \in B : i < j => next[i].seq < next[j].seq
    BY DEF ResourceSeqIncreases
  <1> HIDE DEF new, n, num, next, last, A, B
  <1>5. \A i \in A : next[i] = num[i] /\ i < n + 1 /\ ~(n + 1 < i)
    BY <1>1
  <1>6. CASE e.type = "resource_access"
    <2>1. B = A \cup {n + 1}
      BY <1>1, <1>6
    <2>2. (\A a \in Accesses(num) : a.seq < last.seq) <=> \A i \in A : num[i].seq < last.seq
      BY <1>2
    <2>3. ~(n + 1 < n + 1)
      BY <1>1
    <2>4. (\A i, j \in B : i < j => next[i].seq < next[j].seq) <=>
              /\ \A i, j \in A : i < j => num[i].seq < num[j].seq
              /\ \A i \in A : num[i].seq < last.seq
      BY <1>1, <1>5, <2>1, <2>3
    <2> QED
      BY <1>3, <1>4, <1>6, <2>2, <2>4 DEF new, n, num, next, last
  <1>7. CASE e.type # "resource_access"
    <2>1. B = A
      BY <1>1, <1>7
    <2>2. (\A i, j \in B : i < j => next[i].seq < next[j].seq) <=>
              \A i, j \in A : i < j => num[i].seq < num[j].seq
      BY <1>5, <2>1
    <2> QED
      BY <1>3, <1>4, <1>7, <2>2 DEF new, n, num, next, last
  <1> QED
    BY <1>6, <1>7

LEMMA ListsAppend ==
    ASSUME NEW tr \in Seq(Line), NEW e \in Line
    PROVE  DistinctListValues(Append(tr, e)) <=>
               /\ DistinctListValues(tr)
               /\ e.type = "delegation" => NoDuplicate(e.authority)
               /\ e.type = "declared_relationship" => NoDuplicate(e.agents)
  <1> DEFINE new == Append(tr, e)
  <1>1. \A type : Of(new, type) = Of(tr, type) \cup (IF e.type = type THEN {e} ELSE {})
    BY OneMoreLine
  <1>2. Of(new, "delegation") = Of(tr, "delegation") \cup (IF e.type = "delegation" THEN {e} ELSE {})
    BY <1>1
  <1>3. Of(new, "declared_relationship") =
            Of(tr, "declared_relationship") \cup (IF e.type = "declared_relationship" THEN {e} ELSE {})
    BY <1>1
  <1> HIDE DEF new
  <1>4. (\A d \in Of(new, "delegation") : NoDuplicate(d.authority)) <=>
            /\ \A d \in Of(tr, "delegation") : NoDuplicate(d.authority)
            /\ e.type = "delegation" => NoDuplicate(e.authority)
    BY <1>2
  <1>5. (\A d \in Of(new, "declared_relationship") : NoDuplicate(d.agents)) <=>
            /\ \A d \in Of(tr, "declared_relationship") : NoDuplicate(d.agents)
            /\ e.type = "declared_relationship" => NoDuplicate(e.agents)
    BY <1>3
  <1> QED
    BY <1>4, <1>5 DEF DistinctListValues, new

(* The lines of a trace that parse_trace goes through without refusing one, *)
(* and the line that has it refuse.                                         *)
LinesPass(trace) ==
    /\ At(trace, "malformed") = {}
    /\ SingleEvents(trace)
    /\ UniqueStateIds(trace)
    /\ UniqueEvidenceIds(trace)
    /\ ResourceSeqIncreases(Numbered(trace))
    /\ DistinctListValues(trace)

LinePasses(trace, e) ==
    /\ e.type # "malformed"
    /\ e.type \in {"init", "root_authority"} => At(trace, e.type) = {}
    /\ e.type = "state" => \A s \in States(trace) : s.id # e.id
    /\ e.type = "evidence" => \A r \in EvidenceRecords(trace) : r.id # e.id
    /\ e.type = "resource_access" =>
          \A a \in Accesses(Numbered(trace)) : a.seq < NumberedLine(e, Len(trace) + 1).seq
    /\ e.type = "delegation" => NoDuplicate(e.authority)
    /\ e.type = "declared_relationship" => NoDuplicate(e.agents)

LEMMA PassAppend ==
    ASSUME NEW tr \in Seq(Line), NEW e \in Line
    PROVE  LinesPass(Append(tr, e)) <=> LinesPass(tr) /\ LinePasses(tr, e)
  <1>1. At(Append(tr, e), "malformed") = {} <=> At(tr, "malformed") = {} /\ e.type # "malformed"
    <2>1. At(Append(tr, e), "malformed") =
              At(tr, "malformed") \cup (IF e.type = "malformed" THEN {Len(tr) + 1} ELSE {})
      BY OneMoreLine
    <2> QED
      BY <2>1
  <1> QED
    BY <1>1, SingleAppend, UniqueAppend, SeqsAppend, ListsAppend DEF LinesPass, LinePasses

LEMMA EmptyPasses ==
    /\ \A type : At(<< >>, type) = {} /\ Of(<< >>, type) = {}
    /\ LinesPass(<< >>) /\ Accesses(Numbered(<< >>)) = {} /\ DelegationChain(<< >>) = << >>
  <1>1. \A type : At(<< >>, type) = {}
    BY DEF At
  <1>2. \A type : Of(<< >>, type) = {}
    BY <1>1 DEF Of
  <1>3. \A type : At(Numbered(<< >>), type) = {}
    BY DEF At, Numbered
  <1>4. Accesses(Numbered(<< >>)) = {}
    BY <1>3 DEF Accesses, Of
  <1>5. Cardinality({}) = 0
    BY FS_EmptySet
  <1>6. LinesPass(<< >>)
    <2>1. SingleEvents(<< >>)
      BY <1>1, <1>5 DEF SingleEvents
    <2>2. UniqueStateIds(<< >>) /\ UniqueEvidenceIds(<< >>) /\ ResourceSeqIncreases(Numbered(<< >>))
      BY <1>1, <1>3 DEF UniqueStateIds, UniqueEvidenceIds, ResourceSeqIncreases
    <2>3. DistinctListValues(<< >>)
      BY <1>2 DEF DistinctListValues
    <2> QED
      BY <1>1, <2>1, <2>2, <2>3 DEF LinesPass
  <1>7. DelegationChain(<< >>) = << >>
    <2>1. << >> \in Seq(Line)
      OBVIOUS
    <2> QED
      BY <1>1, <2>1, ChainOfLines
  <1> QED
    BY <1>1, <1>2, <1>4, <1>6, <1>7

-------------------------------------------------------------------------------
(* What the loop has after the lines of a trace: they were refused, or it   *)
(* holds what AuditTrace reads off them, and the last number it has seen.   *)
InitIds(trace) == {e.state_id : e \in Of(trace, "init")}
Roots(trace) == {e.capabilities : e \in Of(trace, "root_authority")}

Holds(bundle, trace, last) ==
    /\ DOMAIN bundle = DOMAIN Nothing
    /\ bundle.refused = FALSE
    /\ bundle.init = InitIds(trace) /\ bundle.states = States(trace)
    /\ bundle.transitions = Transitions(trace) /\ bundle.lastSeq = last
    /\ bundle.accesses = Accesses(Numbered(trace)) /\ bundle.records = EvidenceRecords(trace)
    /\ bundle.chain = DelegationChain(trace) /\ bundle.queries = Queries(trace)
    /\ bundle.declared = DeclaredPairs(trace) /\ bundle.facts = DisclosedFacts(trace)
    /\ bundle.forbidden = ForbiddenSet(trace) /\ bundle.root = Roots(trace)

LastSeen(seen, last) ==
    /\ \A a \in seen : a.seq \in Nat /\ a.seq <= last
    /\ \/ seen = {} /\ last = -1
       \/ \E a \in seen : a.seq = last

Refusal(bundle) == DOMAIN bundle = DOMAIN Nothing /\ bundle.refused = TRUE

ReadRight(trace) ==
    IF LinesPass(trace)
    THEN \E last \in Int : /\ Holds(Collected(trace), trace, last)
                           /\ LastSeen(Accesses(Numbered(trace)), last)
    ELSE Refusal(Collected(trace))

(* The sets a line leaves alone, and the one it adds to. *)
LEMMA BundleAppend ==
    ASSUME NEW tr \in Seq(Line), NEW e \in Line
    PROVE  LET new == Append(tr, e) IN
           /\ InitIds(new) = IF e.type = "init" THEN InitIds(tr) \cup {e.state_id} ELSE InitIds(tr)
           /\ States(new) = IF e.type = "state" THEN States(tr) \cup {e} ELSE States(tr)
           /\ Transitions(new) = IF e.type = "transition" THEN Transitions(tr) \cup {e} ELSE Transitions(tr)
           /\ EvidenceRecords(new) = IF e.type = "evidence" THEN EvidenceRecords(tr) \cup {e} ELSE EvidenceRecords(tr)
           /\ Queries(new) = IF e.type = "differential_query" THEN Queries(tr) \cup {e} ELSE Queries(tr)
           /\ DeclaredPairs(new) = IF e.type = "declared_relationship" THEN DeclaredPairs(tr) \cup {{e.agents[1], e.agents[2]}} ELSE DeclaredPairs(tr)
           /\ DisclosedFacts(new) = IF e.type = "disclosed_fact" THEN DisclosedFacts(tr) \cup {e.fact} ELSE DisclosedFacts(tr)
           /\ ForbiddenSet(new) = IF e.type = "unauthorized_capability" THEN ForbiddenSet(tr) \cup {e.capability} ELSE ForbiddenSet(tr)
           /\ Roots(new) = IF e.type = "root_authority" THEN Roots(tr) \cup {e.capabilities} ELSE Roots(tr)
           /\ InitIds(tr) = {} <=> At(tr, "init") = {}
           /\ Roots(tr) = {} <=> At(tr, "root_authority") = {}
           /\ e.type # "resource_access" => Accesses(Numbered(new)) = Accesses(Numbered(tr))
           /\ e.type # "delegation" => DelegationChain(new) = DelegationChain(tr)
           /\ e.type = "delegation" => DelegationChain(new) = Append(DelegationChain(tr), e)
  <1> DEFINE new == Append(tr, e)
  <1>1. \A type : /\ e.type = type => Of(new, type) = Of(tr, type) \cup {e}
                  /\ e.type # type => Of(new, type) = Of(tr, type)
    <2>1. \A type : Of(new, type) = Of(tr, type) \cup (IF e.type = type THEN {e} ELSE {})
      BY OneMoreLine
    <2> QED
      BY <2>1
  <1>2. InitIds(tr) = {} <=> At(tr, "init") = {}
    BY DEF InitIds, Of
  <1>3. Roots(tr) = {} <=> At(tr, "root_authority") = {}
    BY DEF Roots, Of
  <1>4. e.type # "resource_access" => Accesses(Numbered(new)) = Accesses(Numbered(tr))
    <2>1. Accesses(Numbered(new)) = Accesses(Numbered(tr))
              \cup (IF e.type = "resource_access" THEN {NumberedLine(e, Len(tr) + 1)} ELSE {})
      BY NumberedAppend
    <2> QED
      BY <2>1
  <1>5. /\ e.type # "delegation" => DelegationChain(new) = DelegationChain(tr)
        /\ e.type = "delegation" => DelegationChain(new) = Append(DelegationChain(tr), e)
    BY ChainAppend
  <1> HIDE DEF new
  <1>6. InitIds(new) = IF e.type = "init" THEN InitIds(tr) \cup {e.state_id} ELSE InitIds(tr)
    <2>1. CASE e.type = "init"
      <3>1. Of(new, "init") = Of(tr, "init") \cup {e}
        BY <1>1, <2>1
      <3> QED
        BY <2>1, <3>1 DEF InitIds
    <2>2. CASE e.type # "init"
      <3>1. Of(new, "init") = Of(tr, "init")
        BY <1>1, <2>2
      <3> QED
        BY <2>2, <3>1 DEF InitIds
    <2> QED
      BY <2>1, <2>2
  <1>7. States(new) = IF e.type = "state" THEN States(tr) \cup {e} ELSE States(tr)
    BY <1>1 DEF States
  <1>8. Transitions(new) = IF e.type = "transition" THEN Transitions(tr) \cup {e} ELSE Transitions(tr)
    BY <1>1 DEF Transitions
  <1>9. EvidenceRecords(new) = IF e.type = "evidence" THEN EvidenceRecords(tr) \cup {e} ELSE EvidenceRecords(tr)
    BY <1>1 DEF EvidenceRecords
  <1>10. Queries(new) = IF e.type = "differential_query" THEN Queries(tr) \cup {e} ELSE Queries(tr)
    BY <1>1 DEF Queries
  <1>11. DeclaredPairs(new) = IF e.type = "declared_relationship" THEN DeclaredPairs(tr) \cup {{e.agents[1], e.agents[2]}} ELSE DeclaredPairs(tr)
    <2>1. CASE e.type = "declared_relationship"
      <3>1. Of(new, "declared_relationship") = Of(tr, "declared_relationship") \cup {e}
        BY <1>1, <2>1
      <3> QED
        BY <2>1, <3>1 DEF DeclaredPairs
    <2>2. CASE e.type # "declared_relationship"
      <3>1. Of(new, "declared_relationship") = Of(tr, "declared_relationship")
        BY <1>1, <2>2
      <3> QED
        BY <2>2, <3>1 DEF DeclaredPairs
    <2> QED
      BY <2>1, <2>2
  <1>12. DisclosedFacts(new) = IF e.type = "disclosed_fact" THEN DisclosedFacts(tr) \cup {e.fact} ELSE DisclosedFacts(tr)
    <2>1. CASE e.type = "disclosed_fact"
      <3>1. Of(new, "disclosed_fact") = Of(tr, "disclosed_fact") \cup {e}
        BY <1>1, <2>1
      <3> QED
        BY <2>1, <3>1 DEF DisclosedFacts
    <2>2. CASE e.type # "disclosed_fact"
      <3>1. Of(new, "disclosed_fact") = Of(tr, "disclosed_fact")
        BY <1>1, <2>2
      <3> QED
        BY <2>2, <3>1 DEF DisclosedFacts
    <2> QED
      BY <2>1, <2>2
  <1>13. ForbiddenSet(new) = IF e.type = "unauthorized_capability" THEN ForbiddenSet(tr) \cup {e.capability} ELSE ForbiddenSet(tr)
    <2>1. CASE e.type = "unauthorized_capability"
      <3>1. Of(new, "unauthorized_capability") = Of(tr, "unauthorized_capability") \cup {e}
        BY <1>1, <2>1
      <3> QED
        BY <2>1, <3>1 DEF ForbiddenSet
    <2>2. CASE e.type # "unauthorized_capability"
      <3>1. Of(new, "unauthorized_capability") = Of(tr, "unauthorized_capability")
        BY <1>1, <2>2
      <3> QED
        BY <2>2, <3>1 DEF ForbiddenSet
    <2> QED
      BY <2>1, <2>2
  <1>14. Roots(new) = IF e.type = "root_authority" THEN Roots(tr) \cup {e.capabilities} ELSE Roots(tr)
    <2>1. CASE e.type = "root_authority"
      <3>1. Of(new, "root_authority") = Of(tr, "root_authority") \cup {e}
        BY <1>1, <2>1
      <3> QED
        BY <2>1, <3>1 DEF Roots
    <2>2. CASE e.type # "root_authority"
      <3>1. Of(new, "root_authority") = Of(tr, "root_authority")
        BY <1>1, <2>2
      <3> QED
        BY <2>2, <3>1 DEF Roots
    <2> QED
      BY <2>1, <2>2
  <1> QED
    BY <1>2, <1>3, <1>4, <1>5, <1>6, <1>7, <1>8, <1>9, <1>10, <1>11, <1>12, <1>13, <1>14 DEF new

LEMMA PairNamed ==
    ASSUME NEW e \in Line, e.type = "declared_relationship"
    PROVE  Range(e.agents) = {e.agents[1], e.agents[2]}
  <1>1. e.agents = <<e.agents[1], e.agents[2]>>
    <2>1. e = DeclaredEvent(e.agents[1], e.agents[2])
      BY EngineAssumption
    <2>2. DeclaredEvent(e.agents[1], e.agents[2]).agents = <<e.agents[1], e.agents[2]>>
      BY DEF DeclaredEvent
    <2> QED
      BY <2>1, <2>2
  <1> DEFINE a == e.agents[1]
             b == e.agents[2]
  <1>2. e.agents = <<a, b>>
    BY <1>1
  <1> HIDE DEF a, b
  <1>3. Range(<<a, b>>) = {a, b}
    <2>1. DOMAIN <<a, b>> = 1 .. 2
      OBVIOUS
    <2> QED
      BY <2>1 DEF Range
  <1> QED
    BY <1>2, <1>3 DEF a, b

(* Each kind of line: it is refused, or the bundle is that of the longer    *)
(* trace.                                                                   *)
LEMMA LineRead ==
    ASSUME NEW tr \in Seq(Line), NEW e \in Line, NEW last \in Int, NEW b,
           Holds(b, tr, last), LastSeen(Accesses(Numbered(tr)), last)
    PROVE  LET read == ReadLine(b, e, Len(tr) + 1)
               new == Append(tr, e)
           IN IF LinePasses(tr, e)
              THEN \E next \in Int : /\ Holds(read, new, next)
                                     /\ LastSeen(Accesses(Numbered(new)), next)
              ELSE Refusal(read)
  <1> DEFINE new == Append(tr, e)
             n == Len(tr)
             read == ReadLine(b, e, n + 1)
             line == NumberedLine(e, n + 1)
             Goal == IF LinePasses(tr, e)
                     THEN \E next \in Int : Holds(read, new, next)
                                            /\ LastSeen(Accesses(Numbered(new)), next)
                     ELSE Refusal(read)
  <1> SUFFICES Goal
    OBVIOUS
  <1>1. Refusal(Refuse(b)) /\ b.refused = FALSE
    BY DEF Refuse, Refusal, Holds, Nothing
  <1>2. e.type \in LineType
    BY EngineAssumption
  <1>3. LastSeen(Accesses(Numbered(tr)), last) /\ last \in Int
    OBVIOUS
  <1> HIDE DEF Goal, new
  <1>4. ASSUME e.type # "resource_access"
        PROVE  Accesses(Numbered(new)) = Accesses(Numbered(tr))
    BY <1>4, BundleAppend DEF new
  <1>5. ASSUME e.type # "resource_access", LinePasses(tr, e), Holds(read, new, last) PROVE Goal
    <2> HIDE DEF read
    <2> QED
      BY <1>3, <1>4, <1>5 DEF Goal
  <1>6. ASSUME ~LinePasses(tr, e), read = Refuse(b) PROVE Goal
    <2> HIDE DEF read
    <2> QED
      BY <1>1, <1>6 DEF Goal
  <1>7. CASE e.type = "blank"
    <2>1. read = b
      BY <1>1, <1>7 DEF ReadLine
    <2>2. LinePasses(tr, e)
      BY <1>7 DEF LinePasses
    <2>3. Holds(b, new, last)
      BY <1>7, BundleAppend DEF Holds, Nothing, new
    <2> HIDE DEF read
    <2> QED
      BY <1>5, <1>7, <2>1, <2>2, <2>3
  <1>8. CASE e.type = "operation_denied"
    <2>1. read = b
      BY <1>1, <1>8 DEF ReadLine
    <2>2. LinePasses(tr, e)
      BY <1>8 DEF LinePasses
    <2>3. Holds(b, new, last)
      BY <1>8, BundleAppend DEF Holds, Nothing, new
    <2> HIDE DEF read
    <2> QED
      BY <1>5, <1>8, <2>1, <2>2, <2>3
  <1>9. CASE e.type = "malformed"
    <2>1. read = Refuse(b)
      BY <1>1, <1>9 DEF ReadLine
    <2>2. ~LinePasses(tr, e)
      BY <1>9 DEF LinePasses
    <2> HIDE DEF read
    <2> QED
      BY <1>6, <2>1, <2>2
  <1>10. CASE e.type = "init"
    <2>1. read = ReadInit(b, e)
      BY <1>1, <1>10 DEF ReadLine
    <2>2. LinePasses(tr, e) <=> b.init = {}
      BY <1>10, BundleAppend DEF LinePasses, Holds
    <2>3. read = IF b.init = {} THEN [b EXCEPT !.init = {e.state_id}] ELSE Refuse(b)
      BY <2>1 DEF Holds, ReadInit, Refuse
    <2>4. b.init = {} => Holds([b EXCEPT !.init = {e.state_id}], new, last)
      BY <1>10, BundleAppend DEF Holds, Nothing, new
    <2> HIDE DEF read
    <2> QED
      BY <1>5, <1>6, <1>10, <2>2, <2>3, <2>4
  <1>11. CASE e.type = "state"
    <2>1. read = ReadState(b, e)
      BY <1>1, <1>11 DEF ReadLine
    <2>2. LinePasses(tr, e) <=> (\A s \in b.states : s.id # e.id)
      BY <1>11, BundleAppend DEF LinePasses, Holds
    <2>3. read = IF (\A s \in b.states : s.id # e.id) THEN [b EXCEPT !.states = @ \cup {e}] ELSE Refuse(b)
      BY <2>1 DEF Holds, ReadState, Refuse
    <2>4. (\A s \in b.states : s.id # e.id) => Holds([b EXCEPT !.states = @ \cup {e}], new, last)
      BY <1>11, BundleAppend DEF Holds, Nothing, new
    <2> HIDE DEF read
    <2> QED
      BY <1>5, <1>6, <1>11, <2>2, <2>3, <2>4
  <1>12. CASE e.type = "transition"
    <2>1. read = [b EXCEPT !.transitions = @ \cup {e}]
      BY <1>1, <1>12 DEF ReadLine
    <2>2. LinePasses(tr, e)
      BY <1>12 DEF LinePasses
    <2>3. Holds([b EXCEPT !.transitions = @ \cup {e}], new, last)
      BY <1>12, BundleAppend DEF Holds, Nothing, new
    <2> HIDE DEF read
    <2> QED
      BY <1>5, <1>12, <2>1, <2>2, <2>3
  <1>13. CASE e.type = "evidence"
    <2>1. read = ReadEvidence(b, e)
      BY <1>1, <1>13 DEF ReadLine
    <2>2. LinePasses(tr, e) <=> (\A r \in b.records : r.id # e.id)
      BY <1>13, BundleAppend DEF LinePasses, Holds
    <2>3. read = IF (\A r \in b.records : r.id # e.id) THEN [b EXCEPT !.records = @ \cup {e}] ELSE Refuse(b)
      BY <2>1 DEF Holds, ReadEvidence, Refuse
    <2>4. (\A r \in b.records : r.id # e.id) => Holds([b EXCEPT !.records = @ \cup {e}], new, last)
      BY <1>13, BundleAppend DEF Holds, Nothing, new
    <2> HIDE DEF read
    <2> QED
      BY <1>5, <1>6, <1>13, <2>2, <2>3, <2>4
  <1>14. CASE e.type = "delegation"
    <2>1. read = ReadDelegation(b, e)
      BY <1>1, <1>14 DEF ReadLine
    <2>2. LinePasses(tr, e) <=> NoDuplicate(e.authority)
      BY <1>14, BundleAppend DEF LinePasses, Holds
    <2>3. read = IF NoDuplicate(e.authority) THEN [b EXCEPT !.chain = Append(@, e)] ELSE Refuse(b)
      BY <2>1 DEF Holds, ReadDelegation, Refuse
    <2>4. NoDuplicate(e.authority) => Holds([b EXCEPT !.chain = Append(@, e)], new, last)
      BY <1>14, BundleAppend DEF Holds, Nothing, new
    <2> HIDE DEF read
    <2> QED
      BY <1>5, <1>6, <1>14, <2>2, <2>3, <2>4
  <1>15. CASE e.type = "differential_query"
    <2>1. read = [b EXCEPT !.queries = @ \cup {e}]
      BY <1>1, <1>15 DEF ReadLine
    <2>2. LinePasses(tr, e)
      BY <1>15 DEF LinePasses
    <2>3. Holds([b EXCEPT !.queries = @ \cup {e}], new, last)
      BY <1>15, BundleAppend DEF Holds, Nothing, new
    <2> HIDE DEF read
    <2> QED
      BY <1>5, <1>15, <2>1, <2>2, <2>3
  <1>16. CASE e.type = "declared_relationship"
    <2>1. read = ReadDeclared(b, e)
      BY <1>1, <1>16 DEF ReadLine
    <2>2. LinePasses(tr, e) <=> NoDuplicate(e.agents)
      BY <1>16, BundleAppend DEF LinePasses, Holds
    <2>3. read = IF NoDuplicate(e.agents) THEN [b EXCEPT !.declared = @ \cup {Range(e.agents)}] ELSE Refuse(b)
      BY <2>1 DEF Holds, ReadDeclared, Refuse
    <2>4. NoDuplicate(e.agents) => Holds([b EXCEPT !.declared = @ \cup {Range(e.agents)}], new, last)
      BY <1>16, BundleAppend, PairNamed DEF Holds, Nothing, new
    <2> HIDE DEF read
    <2> QED
      BY <1>5, <1>6, <1>16, <2>2, <2>3, <2>4
  <1>17. CASE e.type = "disclosed_fact"
    <2>1. read = [b EXCEPT !.facts = @ \cup {e.fact}]
      BY <1>1, <1>17 DEF ReadLine
    <2>2. LinePasses(tr, e)
      BY <1>17 DEF LinePasses
    <2>3. Holds([b EXCEPT !.facts = @ \cup {e.fact}], new, last)
      BY <1>17, BundleAppend DEF Holds, Nothing, new
    <2> HIDE DEF read
    <2> QED
      BY <1>5, <1>17, <2>1, <2>2, <2>3
  <1>18. CASE e.type = "unauthorized_capability"
    <2>1. read = [b EXCEPT !.forbidden = @ \cup {e.capability}]
      BY <1>1, <1>18 DEF ReadLine
    <2>2. LinePasses(tr, e)
      BY <1>18 DEF LinePasses
    <2>3. Holds([b EXCEPT !.forbidden = @ \cup {e.capability}], new, last)
      BY <1>18, BundleAppend DEF Holds, Nothing, new
    <2> HIDE DEF read
    <2> QED
      BY <1>5, <1>18, <2>1, <2>2, <2>3
  <1>19. CASE e.type = "root_authority"
    <2>1. read = ReadRoot(b, e)
      BY <1>1, <1>19 DEF ReadLine
    <2>2. LinePasses(tr, e) <=> b.root = {}
      BY <1>19, BundleAppend DEF LinePasses, Holds
    <2>3. read = IF b.root = {} THEN [b EXCEPT !.root = {e.capabilities}] ELSE Refuse(b)
      BY <2>1 DEF Holds, ReadRoot, Refuse
    <2>4. b.root = {} => Holds([b EXCEPT !.root = {e.capabilities}], new, last)
      BY <1>19, BundleAppend DEF Holds, Nothing, new
    <2> HIDE DEF read
    <2> QED
      BY <1>5, <1>6, <1>19, <2>2, <2>3, <2>4
  <1>20. CASE e.type = "resource_access"
    <2> DEFINE seen == Accesses(Numbered(tr))
               seq == line.seq
    <2>1. /\ seq = (IF e.seq = NoSeq THEN n + 1 ELSE e.seq)
          /\ seq \in Nat /\ line = [e EXCEPT !.seq = seq]
      BY <1>20, NumberedLineShape
    <2>2. Accesses(Numbered(new)) = seen \cup {line}
      BY <1>20, NumberedAppend DEF new
    <2>3. LinePasses(tr, e) <=> \A a \in seen : a.seq < seq
      BY <1>20 DEF LinePasses
    <2>4. (\A a \in seen : a.seq < seq) <=> ~(seq <= last)
      <3> HIDE DEF seen, seq, line
      <3> QED
        BY <2>1 DEF LastSeen, seen
    <2>5. read = ReadAccess(b, e, n + 1)
      BY <1>1, <1>20 DEF ReadLine
    <2> HIDE DEF line
    <2>6. read = IF seq <= last THEN Refuse(b)
                 ELSE [b EXCEPT !.lastSeq = seq, !.accesses = @ \cup {line}]
      <3>1. b.lastSeq = last
        BY DEF Holds
      <3> HIDE DEF read
      <3> QED
        BY <2>1, <2>5, <3>1 DEF ReadAccess
    <2>7. Holds([b EXCEPT !.lastSeq = seq, !.accesses = @ \cup {line}], new, seq)
      BY <1>20, <2>2, BundleAppend DEF Holds, Nothing, new
    <2>8. ~(seq <= last) => LastSeen(seen \cup {line}, seq)
      BY <2>1, <2>4 DEF LastSeen
    <2>9. seq \in Int
      BY <2>1
    <2> HIDE DEF read, seen, seq
    <2>10. CASE seq <= last
      BY <1>6, <2>3, <2>4, <2>6, <2>10
    <2>11. CASE ~(seq <= last)
      <3>1. Holds(read, new, seq) /\ LastSeen(Accesses(Numbered(new)), seq) /\ LinePasses(tr, e)
        BY <2>2, <2>3, <2>4, <2>6, <2>7, <2>8, <2>11
      <3> QED
        BY <2>9, <3>1 DEF Goal
    <2> QED
      BY <2>10, <2>11
  <1> QED
    BY <1>2, <1>7, <1>8, <1>9, <1>10, <1>11, <1>12, <1>13, <1>14, <1>15, <1>16, <1>17, <1>18, <1>19, <1>20 DEF LineType

(* So the loop reads every trace right. *)
LEMMA EmptyReadRight == ReadRight(<< >>)
  <1>1. Collected(<< >>) = Nothing
    BY CollectedEmpty
  <1>2. Holds(Nothing, << >>, -1)
    <2>1. \A type : At(<< >>, type) = {} /\ Of(<< >>, type) = {}
      BY EmptyPasses
    <2>2. /\ InitIds(<< >>) = {} /\ States(<< >>) = {} /\ Transitions(<< >>) = {}
          /\ EvidenceRecords(<< >>) = {} /\ Queries(<< >>) = {} /\ DeclaredPairs(<< >>) = {}
          /\ DisclosedFacts(<< >>) = {} /\ ForbiddenSet(<< >>) = {} /\ Roots(<< >>) = {}
      BY <2>1 DEF InitIds, States, Transitions, EvidenceRecords, Queries, DeclaredPairs,
                  DisclosedFacts, ForbiddenSet, Roots
    <2>3. Accesses(Numbered(<< >>)) = {} /\ DelegationChain(<< >>) = << >>
      BY EmptyPasses
    <2> QED
      BY <2>2, <2>3 DEF Holds, Nothing
  <1>3. LastSeen(Accesses(Numbered(<< >>)), -1)
    BY EmptyPasses DEF LastSeen
  <1> QED
    BY <1>1, <1>2, <1>3, EmptyPasses DEF ReadRight

LEMMA ReadRightAppend ==
    ASSUME NEW tr \in Seq(Line), NEW e \in Line, ReadRight(tr)
    PROVE  ReadRight(Append(tr, e))
  <1> DEFINE new == Append(tr, e)
             b == Collected(tr)
  <1>1. Collected(new) = ReadLine(b, e, Len(tr) + 1)
    BY CollectedAppend
  <1>2. LinesPass(new) <=> LinesPass(tr) /\ LinePasses(tr, e)
    BY PassAppend
  <1> HIDE DEF new, b
  <1>3. CASE LinesPass(tr)
    <2>1. PICK last \in Int : Holds(b, tr, last) /\ LastSeen(Accesses(Numbered(tr)), last)
      BY <1>3 DEF ReadRight, b
    <2>2. IF LinePasses(tr, e)
          THEN \E next \in Int : /\ Holds(ReadLine(b, e, Len(tr) + 1), new, next)
                                 /\ LastSeen(Accesses(Numbered(new)), next)
          ELSE Refusal(ReadLine(b, e, Len(tr) + 1))
      BY <2>1, LineRead DEF new
    <2> QED
      BY <1>1, <1>2, <1>3, <2>2 DEF ReadRight, new
  <1>4. CASE ~LinesPass(tr)
    <2>1. Refusal(b) /\ b.refused = TRUE
      BY <1>4 DEF ReadRight, Refusal, b
    <2>2. ReadLine(b, e, Len(tr) + 1) = b
      BY <2>1 DEF ReadLine
    <2> QED
      BY <1>1, <1>2, <1>4, <2>1, <2>2 DEF ReadRight, new
  <1> QED
    BY <1>3, <1>4

(* Lines added to a trace leave its beginnings alone. *)
LEMMA BeginningsKept ==
    ASSUME NEW tr \in Seq(Line), NEW e \in Line, NEW n \in 0 .. Len(tr)
    PROVE  SubSeq(Append(tr, e), 1, n) = SubSeq(tr, 1, n)
  <1> DEFINE new == Append(tr, e)
  <1>1. /\ new \in Seq(Line) /\ Len(tr) \in Nat /\ Len(new) = Len(tr) + 1
        /\ \A i \in 1 .. Len(tr) : new[i] = tr[i]
    BY AppendProperties
  <1> HIDE DEF new
  <1>2. /\ SubSeq(new, 1, n) = [i \in 1 .. n |-> new[i]]
        /\ SubSeq(tr, 1, n) = [i \in 1 .. n |-> tr[i]]
    BY <1>1
  <1> QED
    BY <1>1, <1>2 DEF new

(* A trace as it is written, and the loop's invariant: it has read every    *)
(* beginning of the trace rightly.                                          *)
TraceInv ==
    /\ lines \in Seq(Line) /\ ReadRight(lines)
    /\ \A n \in 0 .. Len(lines) : ReadRight(SubSeq(lines, 1, n))

LEMMA TraceInvHolds == EngineSpec => []TraceInv
  <1>1. EngineInit => TraceInv
    <2> SUFFICES ASSUME EngineInit PROVE TraceInv
      OBVIOUS
    <2>1. lines = << >> /\ lines \in Seq(Line) /\ Len(lines) = 0
      BY DEF EngineInit
    <2>2. SubSeq(lines, 1, 0) = << >>
      BY <2>1
    <2>3. \A n \in 0 .. Len(lines) : SubSeq(lines, 1, n) = << >>
      BY <2>1, <2>2
    <2>4. lines \in Seq(Line) /\ ReadRight(lines)
      BY <2>1, EmptyReadRight
    <2> QED
      BY <2>3, <2>4, EmptyReadRight DEF TraceInv
  <1>2. ASSUME TraceInv, [EngineNext]_engineVars PROVE TraceInv'
    <2>1. CASE UNCHANGED lines
      BY <1>2, <2>1 DEF TraceInv
    <2>2. ASSUME NEW line \in Line, WriteLine(line) PROVE TraceInv'
      <3>1. lines' = Append(lines, line) /\ lines \in Seq(Line)
        BY <1>2, <2>2 DEF WriteLine, TraceInv
      <3>2. lines' \in Seq(Line) /\ Len(lines) \in Nat /\ Len(lines') = Len(lines) + 1
        BY <3>1, AppendProperties
      <3>3. ReadRight(lines')
        BY <1>2, <3>1, ReadRightAppend DEF TraceInv
      <3>4. ASSUME NEW n \in 0 .. Len(lines') PROVE ReadRight(SubSeq(lines', 1, n))
        <4>1. CASE n \in 0 .. Len(lines)
          <5>1. SubSeq(lines', 1, n) = SubSeq(lines, 1, n)
            BY <3>1, <4>1, BeginningsKept
          <5> QED
            BY <1>2, <4>1, <5>1 DEF TraceInv
        <4>2. CASE n = Len(lines')
          <5>1. SubSeq(lines', 1, n) = lines'
            BY <3>2, <4>2, SubSeqFull
          <5> QED
            BY <3>3, <5>1
        <4> QED
          BY <3>2, <3>4, <4>1, <4>2
      <3> QED
        BY <3>2, <3>3, <3>4 DEF TraceInv
    <2> QED
      BY <1>2, <2>1, <2>2 DEF EngineNext, HandOver, engineVars
  <1> QED
    BY <1>1, <1>2, PTL DEF EngineSpec

-------------------------------------------------------------------------------
(* parse_trace and AuditTrace: what AuditTrace says of a trace in which the *)
(* missing numbers are filled in, it says of the trace.                     *)
LEMMA NumberedSame ==
    ASSUME NEW tr \in Seq(Line)
    PROVE  /\ \A type : At(Numbered(tr), type) = At(tr, type)
           /\ \A type : type # "resource_access" =>
                 /\ Of(Numbered(tr), type) = Of(tr, type)
                 /\ \A i \in At(tr, type) : Numbered(tr)[i] = tr[i]
  <1> DEFINE n == Len(tr)
             num == Numbered(tr)
  <1>1. n \in Nat /\ DOMAIN tr = 1 .. n /\ \A i \in 1 .. n : tr[i] \in Line
    OBVIOUS
  <1>2. DOMAIN num = 1 .. n /\ \A i \in 1 .. n : num[i] = NumberedLine(tr[i], i)
    BY <1>1 DEF Numbered
  <1>3. ASSUME NEW i \in 1 .. n
        PROVE  /\ num[i].type = tr[i].type
               /\ tr[i].type # "resource_access" => num[i] = tr[i]
    <2>1. i \in Nat /\ tr[i] \in Line /\ num[i] = NumberedLine(tr[i], i)
      BY <1>1, <1>2
    <2> HIDE DEF num
    <2> QED
      BY <2>1, NumberedLineShape
  <1> HIDE DEF num
  <1>4. \A type : At(num, type) = At(tr, type) /\ At(tr, type) \subseteq 1 .. n
    BY <1>1, <1>2, <1>3 DEF At
  <1>5. ASSUME NEW type, type # "resource_access"
        PROVE  Of(num, type) = Of(tr, type) /\ \A i \in At(tr, type) : num[i] = tr[i]
    <2>1. \A i \in At(tr, type) : num[i] = tr[i]
      BY <1>1, <1>3, <1>5 DEF At
    <2> QED
      BY <1>4, <2>1 DEF Of
  <1> QED
    BY <1>4, <1>5 DEF num

LEMMA AcceptedNumbered ==
    ASSUME NEW tr \in Seq(Line)
    PROVE  At(tr, "malformed") = {} /\ Accepted(Numbered(tr)) <=> LinesPass(tr) /\ GraphResolves(tr)
  <1> DEFINE num == Numbered(tr)
  <1>1. /\ \A type : At(num, type) = At(tr, type)
        /\ \A type : type # "resource_access" =>
              Of(num, type) = Of(tr, type) /\ \A i \in At(tr, type) : num[i] = tr[i]
    BY NumberedSame
  <1> HIDE DEF num
  <1>2. SingleEvents(num) <=> SingleEvents(tr)
    BY <1>1 DEF SingleEvents
  <1>3. UniqueStateIds(num) <=> UniqueStateIds(tr)
    BY <1>1 DEF UniqueStateIds
  <1>4. UniqueEvidenceIds(num) <=> UniqueEvidenceIds(tr)
    BY <1>1 DEF UniqueEvidenceIds
  <1>5. DistinctListValues(num) <=> DistinctListValues(tr)
    BY <1>1 DEF DistinctListValues
  <1>6. GraphResolves(num) <=> GraphResolves(tr)
    BY <1>1 DEF GraphResolves, States, Transitions
  <1> QED
    BY <1>2, <1>3, <1>4, <1>5, <1>6 DEF Accepted, Coherent, LinesPass, num

LEMMA GraphIsBuilt ==
    ASSUME NEW tr \in Seq(Line), NEW last, NEW b, LinesPass(tr), Holds(b, tr, last)
    PROVE  /\ Unresolved(b) <=> ~GraphResolves(tr)
           /\ HasGraph(b) /\ ~Unresolved(b) => At(tr, "init") # {}
           /\ At(tr, "init") # {} => HasGraph(b)
  <1>1. /\ b.init = {} <=> At(tr, "init") = {}
        /\ b.states = {} <=> At(tr, "state") = {}
        /\ b.transitions = {} <=> At(tr, "transition") = {}
    <2>1. b.init = {} <=> At(tr, "init") = {}
      <3>1. b.init = InitIds(tr)
        BY DEF Holds
      <3>2. InitIds(tr) = {} <=> At(tr, "init") = {}
        BY DEF InitIds, Of
      <3> QED
        BY <3>1, <3>2
    <2>2. b.states = {} <=> At(tr, "state") = {}
      BY DEF Holds, States, Of
    <2>3. b.transitions = {} <=> At(tr, "transition") = {}
      BY DEF Holds, Transitions, Of
    <2> QED
      BY <2>1, <2>2, <2>3
  <1>2. HasGraph(b) <=> At(tr, "init") \cup At(tr, "state") \cup At(tr, "transition") # {}
    BY <1>1 DEF HasGraph
  <1>3. \A d, e \in Of(tr, "init") : d = e
    <2> DEFINE A == At(tr, "init")
    <2>1. IsFiniteSet(A) /\ Cardinality(A) <= 1
      BY FiniteAt DEF LinesPass, SingleEvents
    <2> HIDE DEF A
    <2>2. \A i, j \in A : i = j
      BY <2>1, MoreThanOne, FS_CardinalityType
    <2> QED
      BY <2>2 DEF A, Of
  <1>4. b.init # {} =>
            (b.init \subseteq Ids(b.states) <=>
                \E e \in Of(tr, "init") : e.state_id \in {s.id : s \in States(tr)})
    <2>1. SUFFICES ASSUME b.init # {}
                   PROVE  b.init \subseteq Ids(b.states) <=>
                              \E e \in Of(tr, "init") : e.state_id \in {s.id : s \in States(tr)}
      OBVIOUS
    <2> DEFINE inits == Of(tr, "init")
               ids == {s.id : s \in States(tr)}
    <2>2. b.init = {e.state_id : e \in inits} /\ Ids(b.states) = ids
      BY DEF Holds, InitIds, Ids
    <2> HIDE DEF inits, ids
    <2>3. PICK d \in inits : \A e \in inits : e = d
      BY <1>3, <2>1, <2>2 DEF inits
    <2>4. b.init = {d.state_id}
      BY <2>2, <2>3
    <2>5. b.init \subseteq Ids(b.states) <=> \E e \in inits : e.state_id \in ids
      BY <2>2, <2>3, <2>4
    <2> QED
      BY <2>5 DEF inits, ids
  <1>5. b.init = {} => Of(tr, "init") = {}
    BY <1>1 DEF Of
  <1>6. (\E t \in b.transitions : ~({t.src, t.dst} \subseteq Ids(b.states))) <=>
            ~\A t \in Transitions(tr) : {t.src, t.dst} \subseteq {s.id : s \in States(tr)}
    BY DEF Holds, Ids
  <1>7. Unresolved(b) <=> ~GraphResolves(tr)
    BY <1>2, <1>4, <1>5, <1>6 DEF Unresolved, GraphResolves
  <1>8. HasGraph(b) /\ ~Unresolved(b) => At(tr, "init") # {}
    BY <1>1 DEF Unresolved
  <1> QED
    BY <1>1, <1>7, <1>8 DEF HasGraph

(* What parse_trace returns. *)
LEMMA Parsed ==
    ASSUME NEW tr \in Seq(Line), ReadRight(tr)
    PROVE  LET bundle == ParseTrace(tr) IN
           /\ bundle.refused \in BOOLEAN
           /\ bundle.refused <=> ~(LinesPass(tr) /\ GraphResolves(tr))
           /\ ~bundle.refused =>
                 /\ bundle = Collected(tr) /\ ~Unresolved(bundle)
                 /\ \E last \in Int : /\ Holds(bundle, tr, last)
                                      /\ LastSeen(Accesses(Numbered(tr)), last)
  <1> DEFINE b == Collected(tr)
  <1>1. CASE ~LinesPass(tr)
    <2>1. Refusal(b)
      BY <1>1 DEF ReadRight
    <2>2. Refuse(b).refused = TRUE /\ b.refused = TRUE
      BY <2>1 DEF Refuse, Refusal, Nothing
    <2> HIDE DEF b
    <2>3. Finish(b).refused = TRUE
      BY <2>2 DEF Finish
    <2> QED
      BY <1>1, <2>3 DEF ParseTrace, b
  <1>2. CASE LinesPass(tr)
    <2>1. PICK last \in Int : Holds(b, tr, last) /\ LastSeen(Accesses(Numbered(tr)), last)
      BY <1>2 DEF ReadRight
    <2>2. Refuse(b).refused = TRUE /\ b.refused = FALSE
      BY <2>1 DEF Refuse, Holds, Nothing
    <2>3. Unresolved(b) <=> ~GraphResolves(tr)
      BY <1>2, <2>1, GraphIsBuilt
    <2> HIDE DEF b
    <2>4. CASE Unresolved(b)
      <3>1. ParseTrace(tr) = Refuse(b)
        BY <2>4 DEF ParseTrace, Finish, b
      <3> QED
        BY <2>2, <2>3, <2>4, <3>1
    <2>5. CASE ~Unresolved(b)
      <3>1. ParseTrace(tr) = b
        BY <2>5 DEF ParseTrace, Finish, b
      <3> QED
        BY <1>2, <2>1, <2>2, <2>3, <2>5, <3>1 DEF b
    <2> QED
      BY <2>4, <2>5
  <1> QED
    BY <1>1, <1>2

(* The loop of parse_trace accepts exactly the traces AuditTrace accepts,   *)
(* and what it collects is what AuditTrace reads off them: for every trace, *)
(* of any length, that holds events with the fields the parser asks for.    *)
THEOREM ParserIsExact == EngineSpec => []ParseExact
  <1>1. TraceInv => ParseExact
    <2> SUFFICES ASSUME TraceInv PROVE ParseExact
      OBVIOUS
    <2>1. lines \in Seq(Line) /\ ReadRight(lines)
      BY DEF TraceInv
    <2> DEFINE bundle == ParseTrace(lines)
    <2>2. /\ bundle.refused \in BOOLEAN
          /\ bundle.refused <=> ~(LinesPass(lines) /\ GraphResolves(lines))
          /\ ~bundle.refused => \E last \in Int : Holds(bundle, lines, last)
      BY <2>1, Parsed
    <2>3. bundle.refused <=> At(lines, "malformed") # {} \/ ~Accepted(Numbered(lines))
      BY <2>1, <2>2, AcceptedNumbered
    <2>4. UNION Roots(lines) = RootAuthority(lines)
      BY DEF Roots, RootAuthority
    <2> HIDE DEF bundle
    <2>5. ASSUME NEW last \in Int, Holds(bundle, lines, last)
          PROVE  /\ bundle.states = States(lines) /\ bundle.transitions = Transitions(lines)
                 /\ bundle.accesses = Accesses(Numbered(lines))
                 /\ bundle.records = EvidenceRecords(lines)
                 /\ bundle.chain = DelegationChain(lines) /\ bundle.queries = Queries(lines)
                 /\ bundle.declared = DeclaredPairs(lines)
                 /\ UNION bundle.root = RootAuthority(lines)
                 /\ bundle.facts = DisclosedFacts(lines)
                 /\ bundle.forbidden = ForbiddenSet(lines)
      BY <2>4, <2>5 DEF Holds
    <2> QED
      BY <2>2, <2>3, <2>5 DEF ParseExact, bundle
  <1> QED
    BY <1>1, TraceInvHolds, PTL

-------------------------------------------------------------------------------
(* The report.  An article is evaluated before it can be violated. *)
LEMMA ViolatedEvaluated ==
    ASSUME NEW given
    PROVE  /\ Violated(given) \subseteq Evaluated(given) /\ Evaluated(given) \subseteq Article
           /\ DOMAIN Status(given) = Article
           /\ \A a \in Article : /\ Status(given)[a] # "none" <=> a \in Evaluated(given)
                                 /\ Status(given)[a] = "fail" <=> a \in Violated(given)
  <1>1. Violated(given) \subseteq Evaluated(given)
    BY DEF Violated, Evaluated
  <1>2. Evaluated(given) \subseteq Article
    BY DEF Evaluated, Article
  <1>3. \A a \in Article : /\ Status(given)[a] # "none" <=> a \in Evaluated(given)
                           /\ Status(given)[a] = "fail" <=> a \in Violated(given)
    BY <1>1 DEF Status
  <1> QED
    BY <1>1, <1>2, <1>3 DEF Status

(* What the engine is given of each kind, and whether the trace has any. *)
LEMMA GivenOfTrace ==
    ASSUME NEW tr \in Seq(Line), ReadRight(tr), ~ParseTrace(tr).refused
    PROVE  LET given == FromBundle(ParseTrace(tr)) IN
           /\ given.graph # {} <=> At(tr, "init") # {}
           /\ given.weave = {}
           /\ given.queries # {} <=> At(tr, "differential_query") # {}
           /\ given.records # {} <=> At(tr, "evidence") # {}
           /\ given.accesses # {} <=> At(tr, "resource_access") # {}
           /\ given.chain # {} <=> At(tr, "delegation") # {}
  <1> DEFINE b == ParseTrace(tr)
             given == FromBundle(b)
  <1>1. LinesPass(tr) /\ ~Unresolved(b) /\ \E last : Holds(b, tr, last)
    BY Parsed
  <1> HIDE DEF b
  <1>2. PICK last : Holds(b, tr, last)
    BY <1>1
  <1>3. HasGraph(b) <=> At(tr, "init") # {}
    BY <1>1, <1>2, GraphIsBuilt
  <1>4. b.queries = {} <=> At(tr, "differential_query") = {}
    <2>1. b.queries = Of(tr, "differential_query")
      BY <1>2 DEF Holds, Queries
    <2> QED
      BY <2>1 DEF Of
  <1>5. b.records = {} <=> At(tr, "evidence") = {}
    <2>1. b.records = Of(tr, "evidence")
      BY <1>2 DEF Holds, EvidenceRecords
    <2> QED
      BY <2>1 DEF Of
  <1>6. b.accesses = {} <=> At(tr, "resource_access") = {}
    <2>1. b.accesses = Of(Numbered(tr), "resource_access")
      BY <1>2 DEF Holds, Accesses
    <2>2. At(Numbered(tr), "resource_access") = At(tr, "resource_access")
      BY NumberedSame
    <2> QED
      BY <2>1, <2>2 DEF Of
  <1>7. b.chain = << >> <=> At(tr, "delegation") = {}
    <2>1. b.chain = DelegationChain(tr)
      BY <1>2 DEF Holds
    <2> QED
      BY <2>1, ChainOfLines
  <1>8. /\ given.graph = (IF HasGraph(b) THEN {GraphOf(b)} ELSE {}) /\ given.weave = {}
        /\ given.queries = Given(b.queries, {}) /\ given.records = Given(b.records, {})
        /\ given.accesses = Given(b.accesses, {}) /\ given.chain = Given(b.chain, << >>)
    BY DEF FromBundle
  <1> HIDE DEF given
  <1> QED
    BY <1>3, <1>4, <1>5, <1>6, <1>7, <1>8 DEF Given, given, b

(* No omitted check is reported as green, for any trace. *)
THEOREM OmissionsShow == EngineSpec => []NothingOmittedIsGreen
  <1>1. TraceInv => NothingOmittedIsGreen
    <2> SUFFICES ASSUME TraceInv, ~ParseTrace(lines).refused PROVE NothingOmittedIsGreen
      BY DEF NothingOmittedIsGreen
    <2> DEFINE given == FromBundle(ParseTrace(lines))
    <2>1. lines \in Seq(Line) /\ ReadRight(lines)
      BY DEF TraceInv
    <2>2. /\ given.graph # {} <=> At(lines, "init") # {}
          /\ given.weave = {}
          /\ given.queries # {} <=> At(lines, "differential_query") # {}
          /\ given.records # {} <=> At(lines, "evidence") # {}
          /\ given.accesses # {} <=> At(lines, "resource_access") # {}
          /\ given.chain # {} <=> At(lines, "delegation") # {}
      BY <2>1, GivenOfTrace
    <2>3. \A a \in Article : /\ Status(given)[a] # "none" <=> a \in Evaluated(given)
                             /\ Status(given)[a] = "fail" <=> a \in Violated(given)
      BY ViolatedEvaluated
    <2> HIDE DEF given
    <2>4. \A type : At(lines, type) # {} <=> \E i \in DOMAIN lines : lines[i].type = type
      BY DEF At
    <2>5. \A a \in Article :
              a \in Evaluated(given) <=> \E i \in DOMAIN lines : lines[i].type \in EvidenceOf(a)
      <3>1. "I" \in Evaluated(given) <=> At(lines, "init") # {}
        BY <2>2 DEF Evaluated
      <3>2. "II" \notin Evaluated(given)
        BY <2>2 DEF Evaluated
      <3>3. "III" \in Evaluated(given) <=>
                At(lines, "init") # {} \/ At(lines, "differential_query") # {}
        BY <2>2 DEF Evaluated
      <3>4. "IV" \in Evaluated(given) <=> At(lines, "evidence") # {}
        BY <2>2 DEF Evaluated
      <3>5. "V" \in Evaluated(given) <=> At(lines, "resource_access") # {}
        BY <2>2 DEF Evaluated
      <3>6. "VI" \in Evaluated(given) <=> At(lines, "delegation") # {}
        BY <2>2 DEF Evaluated
      <3>7. /\ EvidenceOf("I") = {"init"} /\ EvidenceOf("II") = {}
            /\ EvidenceOf("III") = {"init", "differential_query"}
            /\ EvidenceOf("IV") = {"evidence"} /\ EvidenceOf("V") = {"resource_access"}
            /\ EvidenceOf("VI") = {"delegation"}
        BY DEF EvidenceOf
      <3> QED
        BY <2>4, <3>1, <3>2, <3>3, <3>4, <3>5, <3>6, <3>7 DEF Article
    <2>6. ~Passed(given)
      <3>1. "II" \in Article /\ "II" \notin Evaluated(given)
        BY <2>2 DEF Article, Evaluated
      <3>2. Status(given)["II"] = "none"
        BY <2>3, <3>1
      <3> QED
        BY <3>1, <3>2 DEF Passed
    <2>7. EvaluatedChecksPassed(given) => Overall(given) = "INCOMPLETE"
      BY <2>6 DEF EvaluatedChecksPassed, Overall
    <2>8. Main(lines) # 0
      BY <2>6 DEF Main, given
    <2> QED
      BY <2>3, <2>5, <2>7, <2>8 DEF NothingOmittedIsGreen, given
  <1> QED
    BY <1>1, TraceInvHolds, PTL

-------------------------------------------------------------------------------
(* The walk of Article VI goes through the hops one at a time. *)
Start(hops, root) == [held |-> [a \in {hops[1].from} |-> root], bad |-> << >>]

Walks(hops, root, n, walk) ==
    walk = [k \in 0 .. n |-> IF k = 0 THEN Start(hops, root) ELSE Hop(walk[k - 1], hops[k])]

LEMMA WalksExists ==
    ASSUME NEW hops, NEW root, NEW n \in Nat
    PROVE  \E walk : Walks(hops, root, n, walk)
  <1> DEFINE S == {i \in 0 .. n : \E walk : Walks(hops, root, i, walk)}
  <1>1. 0 \in S
    <2> DEFINE walk == [i \in 0 .. 0 |-> Start(hops, root)]
    <2>1. Walks(hops, root, 0, walk)
      BY DEF Walks
    <2> QED
      BY <2>1
  <1>2. ASSUME NEW i \in 0 .. n - 1, i \in S PROVE i + 1 \in S
    <2>1. PICK walk : Walks(hops, root, i, walk)
      BY <1>2
    <2> DEFINE next == [k \in 0 .. i + 1 |->
                           IF k = i + 1 THEN Hop(walk[i], hops[i + 1]) ELSE walk[k]]
    <2>2. next = [k \in 0 .. i + 1 |->
                     IF k = 0 THEN Start(hops, root) ELSE Hop(next[k - 1], hops[k])]
      <3> SUFFICES ASSUME NEW k \in 0 .. i + 1
                   PROVE  next[k] = IF k = 0 THEN Start(hops, root) ELSE Hop(next[k - 1], hops[k])
        OBVIOUS
      <3>1. CASE k = i + 1
        BY <3>1
      <3>2. CASE k # i + 1
        <4>1. k \in 0 .. i /\ next[k] = walk[k]
          BY <3>2
        <4>2. walk[k] = IF k = 0 THEN Start(hops, root) ELSE Hop(walk[k - 1], hops[k])
          BY <2>1, <4>1 DEF Walks
        <4>3. k # 0 => next[k - 1] = walk[k - 1]
          BY <4>1
        <4> QED
          BY <4>1, <4>2, <4>3
      <3> QED
        BY <3>1, <3>2
    <2>3. Walks(hops, root, i + 1, next)
      BY <2>2 DEF Walks
    <2> QED
      BY <2>3
  <1> HIDE DEF S
  <1>3. 0 .. n \subseteq S
    BY <1>1, <1>2, UpTo
  <1>4. n \in S
    BY <1>3
  <1> QED
    BY <1>4 DEF S

LEMMA ExpandingWalks ==
    ASSUME NEW hops, NEW root, Len(hops) \in Nat, hops # << >>
    PROVE  \E walk : /\ Walks(hops, root, Len(hops), walk)
                     /\ ExpandingDelegations(hops, root) = walk[Len(hops)].bad
  <1> DEFINE walk == CHOOSE f : Walks(hops, root, Len(hops), f)
  <1>1. ExpandingDelegations(hops, root) = walk[Len(hops)].bad
    BY DEF ExpandingDelegations, Walks, Start
  <1>2. Walks(hops, root, Len(hops), walk)
    BY WalksExists
  <1> QED
    BY <1>1, <1>2

(* What a hop does to what is held. *)
LEMMA HopHeld ==
    ASSUME NEW walk, NEW edge, NEW agent
    PROVE  HeldBy(Hop(walk, edge).held, agent) =
               HeldBy(walk.held, agent)
               \cup (IF agent = edge.to
                     THEN Range(edge.authority) \cap HeldBy(walk.held, edge.from) ELSE {})
  <1> DEFINE delegated == Range(edge.authority)
             received == HeldBy(walk.held, edge.to)
                         \cup (delegated \ (delegated \ HeldBy(walk.held, edge.from)))
             after == [a \in DOMAIN walk.held \cup {edge.to} |->
                          IF a = edge.to THEN received ELSE walk.held[a]]
  <1>1. Hop(walk, edge).held = after
    BY DEF Hop
  <1>2. received = HeldBy(walk.held, edge.to) \cup (delegated \cap HeldBy(walk.held, edge.from))
    OBVIOUS
  <1>3. CASE agent = edge.to
    <2>1. HeldBy(after, agent) = received
      BY <1>3 DEF HeldBy
    <2> QED
      BY <1>1, <1>2, <1>3, <2>1
  <1>4. CASE agent # edge.to
    <2>1. HeldBy(after, agent) = HeldBy(walk.held, agent)
      BY <1>4 DEF HeldBy
    <2> QED
      BY <1>1, <1>4, <2>1
  <1> QED
    BY <1>3, <1>4

(* A path that carries something on has increasing hops, so that it is no   *)
(* longer than they allow.                                                  *)
LEMMA PathShort ==
    ASSUME NEW m \in Nat, NEW k \in Nat, NEW path \in [1 .. m -> 1 .. k],
           \A i, j \in 1 .. m : i < j => path[i] < path[j]
    PROVE  m <= k /\ Len(path) = m /\ DOMAIN path = 1 .. m /\ (path = << >> <=> m = 0)
  <1>1. path \in Seq(1 .. k) /\ Len(path) = m /\ DOMAIN path = 1 .. m
    OBVIOUS
  <1>2. path = << >> <=> m = 0
    BY <1>1, EmptySeq
  <1> DEFINE S == {i \in 0 .. m : i = 0 \/ i <= path[i]}
  <1>3. ASSUME NEW i \in 0 .. m - 1, i \in S PROVE i + 1 \in S
    <2>1. i + 1 \in 1 .. m /\ path[i + 1] \in 1 .. k
      OBVIOUS
    <2>2. CASE i = 0
      BY <2>1, <2>2
    <2>3. CASE i # 0
      <3>1. i \in 1 .. m /\ i <= path[i] /\ path[i] \in 1 .. k
        BY <1>3, <2>3
      <3>2. path[i] < path[i + 1]
        BY <2>1, <3>1
      <3> QED
        BY <2>1, <3>1, <3>2
    <2> QED
      BY <2>2, <2>3
  <1>4. 0 .. m \subseteq S
    <2>1. 0 \in S
      OBVIOUS
    <2> HIDE DEF S
    <2> QED
      BY <1>3, <2>1, UpTo
  <1>5. CASE m # 0
    <2>1. m \in S /\ m \in 1 .. m
      BY <1>4, <1>5
    <2>2. m <= path[m] /\ path[m] <= k /\ path[m] \in Int
      BY <1>5, <2>1
    <2> QED
      BY <1>1, <1>2, <2>2
  <1> QED
    BY <1>1, <1>2, <1>5

(* TracesBack, with the path spelled out. *)
Path(m, k, path, c, agent) ==
    /\ path \in [1 .. m -> 1 .. k]
    /\ \A i, j \in 1 .. m : i < j => path[i] < path[j]
    /\ \A i \in 1 .. m : c \in Range(chain[path[i]].authority)
    /\ \A i \in 2 .. m : chain[path[i]].from = chain[path[i - 1]].to
    /\ m = 0 => agent = chain[1].from
    /\ m # 0 => chain[path[1]].from = chain[1].from /\ chain[path[m]].to = agent

LEMMA TracesPath ==
    ASSUME NEW k \in Nat, NEW c, NEW agent
    PROVE  TracesBack(agent, c, k + 1) <=> c \in Root /\ \E m \in Nat : \E path : Path(m, k, path, c, agent)
  <1>1. k + 1 - 1 = k
    OBVIOUS
  <1>2. ASSUME NEW m \in 0 .. k, NEW path \in [1 .. m -> 1 .. k], Carries(path, c, agent)
        PROVE  Path(m, k, path, c, agent)
    <2>1. path \in Seq(1 .. k) /\ Len(path) = m /\ DOMAIN path = 1 .. m /\ m \in Nat
      OBVIOUS
    <2>2. path = << >> <=> m = 0
      BY <2>1, EmptySeq
    <2> QED
      BY <1>2, <2>1, <2>2 DEF Carries, Path
  <1>3. ASSUME NEW m \in Nat, NEW path, Path(m, k, path, c, agent)
        PROVE  m \in 0 .. k /\ path \in [1 .. m -> 1 .. k] /\ Carries(path, c, agent)
    <2>1. path \in [1 .. m -> 1 .. k] /\ \A i, j \in 1 .. m : i < j => path[i] < path[j]
      BY <1>3 DEF Path
    <2>2. m <= k /\ Len(path) = m /\ DOMAIN path = 1 .. m /\ (path = << >> <=> m = 0)
      BY <2>1, PathShort
    <2>3. Carries(path, c, agent)
      BY <1>3, <2>2 DEF Carries, Path
    <2> QED
      BY <2>1, <2>2, <2>3
  <1>4. TracesBack(agent, c, k + 1) <=>
            c \in Root /\ \E m \in 0 .. k : \E path \in [1 .. m -> 1 .. k] : Carries(path, c, agent)
    BY <1>1 DEF TracesBack
  <1> QED
    BY <1>2, <1>3, <1>4

(* What one more hop lets trace back to the root. *)
LEMMA OneMoreHop ==
    ASSUME NEW k \in Nat, NEW c, NEW agent
    PROVE  TracesBack(agent, c, k + 2) <=>
               \/ TracesBack(agent, c, k + 1)
               \/ /\ agent = chain[k + 1].to
                  /\ c \in Range(chain[k + 1].authority)
                  /\ TracesBack(chain[k + 1].from, c, k + 1)
  <1> DEFINE hop == chain[k + 1]
  <1>1. k + 2 = (k + 1) + 1 /\ k + 1 \in Nat
    OBVIOUS
  <1>2. TracesBack(agent, c, k + 2) <=>
            c \in Root /\ \E m \in Nat : \E path : Path(m, k + 1, path, c, agent)
    BY <1>1, TracesPath
  <1>3. ASSUME NEW m \in Nat, NEW path, Path(m, k, path, c, agent)
        PROVE  Path(m, k + 1, path, c, agent)
    BY <1>3 DEF Path
  <1>4. ASSUME NEW m \in Nat, NEW path, Path(m, k, path, c, hop.from),
               agent = hop.to, c \in Range(hop.authority)
        PROVE  \E p : Path(m + 1, k + 1, p, c, agent)
    <2> DEFINE p == [i \in 1 .. m + 1 |-> IF i = m + 1 THEN k + 1 ELSE path[i]]
    <2>1. /\ path \in [1 .. m -> 1 .. k]
          /\ \A i, j \in 1 .. m : i < j => path[i] < path[j]
          /\ \A i \in 1 .. m : c \in Range(chain[path[i]].authority)
          /\ \A i \in 2 .. m : chain[path[i]].from = chain[path[i - 1]].to
          /\ m = 0 => hop.from = chain[1].from
          /\ m # 0 => chain[path[1]].from = chain[1].from /\ chain[path[m]].to = hop.from
      BY <1>4 DEF Path
    <2>2. /\ \A i \in 1 .. m : p[i] = path[i] /\ path[i] \in 1 .. k
          /\ p[m + 1] = k + 1 /\ p \in [1 .. m + 1 -> 1 .. k + 1]
      BY <2>1
    <2> HIDE DEF p
    <2>3. \A i, j \in 1 .. m + 1 : i < j => p[i] < p[j]
      <3> SUFFICES ASSUME NEW i \in 1 .. m + 1, NEW j \in 1 .. m + 1, i < j PROVE p[i] < p[j]
        OBVIOUS
      <3>1. i \in 1 .. m /\ p[i] = path[i] /\ path[i] \in 1 .. k
        BY <2>2
      <3>2. CASE j = m + 1
        BY <2>2, <3>1, <3>2
      <3>3. CASE j # m + 1
        <4>1. j \in 1 .. m
          BY <3>3
        <4> QED
          BY <2>1, <2>2, <3>1, <4>1
      <3> QED
        BY <3>2, <3>3
    <2>4. \A i \in 1 .. m + 1 : c \in Range(chain[p[i]].authority)
      <3> SUFFICES ASSUME NEW i \in 1 .. m + 1 PROVE c \in Range(chain[p[i]].authority)
        OBVIOUS
      <3>1. CASE i = m + 1
        BY <1>4, <2>2, <3>1
      <3>2. CASE i # m + 1
        <4>1. i \in 1 .. m
          BY <3>2
        <4> QED
          BY <2>1, <2>2, <4>1
      <3> QED
        BY <3>1, <3>2
    <2>5. \A i \in 2 .. m + 1 : chain[p[i]].from = chain[p[i - 1]].to
      <3> SUFFICES ASSUME NEW i \in 2 .. m + 1 PROVE chain[p[i]].from = chain[p[i - 1]].to
        OBVIOUS
      <3>1. i - 1 \in 1 .. m /\ p[i - 1] = path[i - 1]
        BY <2>2
      <3>2. CASE i = m + 1
        <4>1. i - 1 = m /\ m # 0
          BY <3>1, <3>2
        <4> QED
          BY <2>1, <2>2, <3>1, <3>2, <4>1
      <3>3. CASE i # m + 1
        <4>1. i \in 2 .. m /\ i \in 1 .. m
          BY <3>3
        <4> QED
          BY <2>1, <2>2, <3>1, <4>1
      <3> QED
        BY <3>2, <3>3
    <2>6. chain[p[1]].from = chain[1].from /\ chain[p[m + 1]].to = agent
      <3>1. CASE m = 0
        BY <1>4, <2>1, <2>2, <3>1
      <3>2. CASE m # 0
        <4>1. 1 \in 1 .. m
          BY <3>2
        <4> QED
          BY <1>4, <2>1, <2>2, <3>2, <4>1
      <3> QED
        BY <3>1, <3>2
    <2>7. Path(m + 1, k + 1, p, c, agent)
      <3>1. m + 1 # 0
        OBVIOUS
      <3> QED
        BY <2>2, <2>3, <2>4, <2>5, <2>6, <3>1 DEF Path
    <2> QED
      BY <2>7
  <1>5. ASSUME NEW m \in Nat, NEW path, Path(m, k + 1, path, c, agent)
        PROVE  \/ Path(m, k, path, c, agent)
               \/ /\ agent = hop.to /\ c \in Range(hop.authority)
                  /\ \E n \in Nat : \E p : Path(n, k, p, c, hop.from)
    <2>1. /\ path \in [1 .. m -> 1 .. k + 1]
          /\ \A i, j \in 1 .. m : i < j => path[i] < path[j]
          /\ \A i \in 1 .. m : c \in Range(chain[path[i]].authority)
          /\ \A i \in 2 .. m : chain[path[i]].from = chain[path[i - 1]].to
          /\ m = 0 => agent = chain[1].from
          /\ m # 0 => chain[path[1]].from = chain[1].from /\ chain[path[m]].to = agent
      BY <1>5 DEF Path
    <2>2. CASE m = 0
      <3>1. path \in [1 .. m -> 1 .. k]
        BY <2>1, <2>2
      <3> QED
        BY <2>1, <3>1 DEF Path
    <2>3. CASE m # 0 /\ path[m] # k + 1
      <3>1. \A i \in 1 .. m : path[i] \in 1 .. k
        <4> SUFFICES ASSUME NEW i \in 1 .. m PROVE path[i] \in 1 .. k
          OBVIOUS
        <4>1. m \in 1 .. m /\ path[m] \in 1 .. k + 1 /\ path[i] \in 1 .. k + 1
          BY <2>1, <2>3
        <4>2. i = m \/ path[i] < path[m]
          BY <2>1, <4>1
        <4> QED
          BY <2>3, <4>1, <4>2
      <3>2. path \in [1 .. m -> 1 .. k]
        BY <2>1, <3>1
      <3> QED
        BY <2>1, <3>2 DEF Path
    <2>4. CASE m # 0 /\ path[m] = k + 1
      <3> DEFINE n == m - 1
                 p == [i \in 1 .. n |-> path[i]]
      <3>1. n \in Nat /\ m \in 1 .. m /\ m = n + 1
        BY <2>4
      <3> HIDE DEF n
      <3>2. \A i \in 1 .. n : i \in 1 .. m /\ i < m /\ p[i] = path[i] /\ path[i] \in 1 .. k
        <4> SUFFICES ASSUME NEW i \in 1 .. n
                     PROVE  i \in 1 .. m /\ i < m /\ path[i] \in 1 .. k
          OBVIOUS
        <4>1. i \in 1 .. m /\ i < m
          BY <3>1
        <4>2. path[i] < path[m] /\ path[i] \in 1 .. k + 1
          BY <2>1, <3>1, <4>1
        <4> QED
          BY <2>4, <4>1, <4>2
      <3>3. p \in [1 .. n -> 1 .. k]
        BY <3>2
      <3> HIDE DEF p
      <3>4. /\ \A i, j \in 1 .. n : i < j => p[i] < p[j]
            /\ \A i \in 1 .. n : c \in Range(chain[p[i]].authority)
        BY <2>1, <3>2
      <3>5. \A i \in 2 .. n : chain[p[i]].from = chain[p[i - 1]].to
        <4> SUFFICES ASSUME NEW i \in 2 .. n PROVE chain[p[i]].from = chain[p[i - 1]].to
          OBVIOUS
        <4>1. i \in 1 .. n /\ i - 1 \in 1 .. n /\ i \in 2 .. m
          BY <3>1
        <4> QED
          BY <2>1, <3>2, <4>1
      <3>6. n = 0 => hop.from = chain[1].from
        BY <2>1, <2>4, <3>1
      <3>7. ASSUME n # 0
            PROVE  chain[p[1]].from = chain[1].from /\ chain[p[n]].to = hop.from
        <4>1. 1 \in 1 .. n /\ n \in 1 .. n /\ m \in 2 .. m /\ m - 1 = n
          BY <3>1, <3>7
        <4>2. p[1] = path[1] /\ p[n] = path[n] /\ chain[path[m]].from = chain[path[n]].to
          BY <2>1, <3>2, <4>1
        <4> QED
          BY <2>1, <2>4, <4>2
      <3>8. Path(n, k, p, c, hop.from)
        BY <3>3, <3>4, <3>5, <3>6, <3>7 DEF Path
      <3> QED
        BY <2>1, <2>4, <3>1, <3>8
    <2> QED
      BY <2>2, <2>3, <2>4
  <1>6. TracesBack(agent, c, k + 1) <=> c \in Root /\ \E m \in Nat : \E path : Path(m, k, path, c, agent)
    BY TracesPath
  <1>7. TracesBack(hop.from, c, k + 1) <=>
            c \in Root /\ \E m \in Nat : \E path : Path(m, k, path, c, hop.from)
    BY TracesPath
  <1>8. TracesBack(agent, c, k + 2) =>
            \/ TracesBack(agent, c, k + 1)
            \/ agent = hop.to /\ c \in Range(hop.authority) /\ TracesBack(hop.from, c, k + 1)
    BY <1>2, <1>5, <1>6, <1>7
  <1>9. TracesBack(agent, c, k + 1) => TracesBack(agent, c, k + 2)
    BY <1>2, <1>3, <1>6
  <1>10. agent = hop.to /\ c \in Range(hop.authority) /\ TracesBack(hop.from, c, k + 1)
             => TracesBack(agent, c, k + 2)
    <2> SUFFICES ASSUME agent = hop.to, c \in Range(hop.authority), TracesBack(hop.from, c, k + 1)
                 PROVE  TracesBack(agent, c, k + 2)
      OBVIOUS
    <2>0. PICK m \in Nat : \E path : Path(m, k, path, c, hop.from)
      BY <1>7
    <2>1. PICK path : Path(m, k, path, c, hop.from)
      BY <2>0
    <2>2. \E p : Path(m + 1, k + 1, p, c, agent)
      BY <1>4, <2>1
    <2>3. m + 1 \in Nat
      OBVIOUS
    <2> QED
      BY <1>2, <1>7, <2>2, <2>3
  <1> QED
    BY <1>8, <1>9, <1>10

(* A function applied to a sequence, and to one more of its arguments. *)
LEMMA ApplyAppend ==
    ASSUME NEW A, NEW B, NEW f, NEW s \in Seq(A), NEW x \in A, \A a \in A : f[a] \in B
    PROVE  /\ [n \in DOMAIN s |-> f[s[n]]] \in Seq(B)
           /\ [n \in DOMAIN Append(s, x) |-> f[Append(s, x)[n]]] =
                  Append([n \in DOMAIN s |-> f[s[n]]], f[x])
  <1> DEFINE c == Len(s)
             t == Append(s, x)
             fs == [n \in DOMAIN s |-> f[s[n]]]
             ft == [n \in DOMAIN t |-> f[t[n]]]
  <1>1. c \in Nat /\ DOMAIN s = 1 .. c /\ \A n \in 1 .. c : s[n] \in A
    OBVIOUS
  <1>2. /\ DOMAIN t = 1 .. c + 1 /\ t[c + 1] = x /\ \A n \in 1 .. c : t[n] = s[n]
    BY <1>1, AppendProperties
  <1> HIDE DEF c, t
  <1>3. fs \in [1 .. c -> B] /\ \A n \in 1 .. c : fs[n] = f[s[n]]
    BY <1>1
  <1>4. fs \in Seq(B) /\ Len(fs) = c
    BY <1>1, <1>3
  <1>5. /\ DOMAIN ft = 1 .. c + 1 /\ ft = [n \in 1 .. c + 1 |-> ft[n]]
        /\ ft[c + 1] = f[x] /\ \A n \in 1 .. c : ft[n] = f[s[n]]
    BY <1>1, <1>2
  <1> HIDE DEF fs, ft
  <1>6. Append(fs, f[x]) \in Seq(B) /\ Len(Append(fs, f[x])) = c + 1
        /\ Append(fs, f[x])[c + 1] = f[x] /\ \A n \in 1 .. c : Append(fs, f[x])[n] = fs[n]
    BY <1>4, AppendProperties
  <1>7. Append(fs, f[x]) \in [1 .. c + 1 -> B]
    BY <1>6, LenProperties
  <1>8. ft = Append(fs, f[x])
    <2> DEFINE more == Append(fs, f[x])
    <2>1. ASSUME NEW n \in 1 .. c + 1 PROVE ft[n] = more[n]
      <3>1. n = c + 1 \/ n \in 1 .. c
        BY <1>1
      <3> QED
        BY <1>3, <1>5, <1>6, <3>1
    <2>2. more = [n \in 1 .. c + 1 |-> more[n]]
      BY <1>7
    <2> HIDE DEF more
    <2>3. ft = more
      BY <1>5, <2>1, <2>2
    <2> QED
      BY <2>3 DEF more
  <1> QED
    BY <1>4, <1>8 DEF fs, ft, t

(* What the walk has after k hops: of each agent what traces back to the    *)
(* root, and the reports of the hops that handed on more.                   *)
Reported(k) == {j \in 1 .. k : Excess(j) # {}}

ReportOf(k) ==
    [i \in DOMAIN Ascending(Reported(k)) |->
        [edge |-> chain[Ascending(Reported(k))[i]], expanded |-> Excess(Ascending(Reported(k))[i])]]

WalkRight(walk, k) ==
    /\ \A agent, c : c \in HeldBy(walk.held, agent) <=> TracesBack(agent, c, k + 1)
    /\ walk.bad = ReportOf(k)

LEMMA EmptyReport == ReportOf(0) = << >>
  <1>1. Ascending(Reported(0)) = << >>
    <2>1. Reported(0) = {}
      BY DEF Reported
    <2> DEFINE none == Ascending({})
    <2>2. none \in [1 .. 0 -> {}]
      BY FS_EmptySet, AscendingEnumerates
    <2> HIDE DEF none
    <2>3. none \in Seq({}) /\ Len(none) = 0
      BY <2>2
    <2>4. none = << >>
      BY <2>3, EmptySeq
    <2> QED
      BY <2>1, <2>4 DEF none
  <1>2. DOMAIN << >> = 1 .. 0
    OBVIOUS
  <1> QED
    BY <1>1, <1>2 DEF ReportOf

LEMMA StartRight == chain # << >> => WalkRight(Start(chain, Root), 0)
  <1> SUFFICES ASSUME chain # << >> PROVE WalkRight(Start(chain, Root), 0)
    OBVIOUS
  <1> DEFINE start == Start(chain, Root)
  <1>1. ASSUME NEW agent, NEW c
        PROVE  c \in HeldBy(start.held, agent) <=> TracesBack(agent, c, 0 + 1)
    <2>1. c \in HeldBy(start.held, agent) <=> c \in Root /\ agent = chain[1].from
      BY DEF Start, HeldBy
    <2>2. TracesBack(agent, c, 0 + 1) <=>
              c \in Root /\ \E m \in Nat : \E path : Path(m, 0, path, c, agent)
      BY TracesPath
    <2>3. ASSUME agent = chain[1].from PROVE Path(0, 0, << >>, c, agent)
      BY <2>3 DEF Path
    <2>4. ASSUME NEW m \in Nat, NEW path, Path(m, 0, path, c, agent)
          PROVE  agent = chain[1].from
      <3>1. path \in [1 .. m -> 1 .. 0] /\ (m = 0 => agent = chain[1].from)
        BY <2>4 DEF Path
      <3>2. m # 0 => 1 \in 1 .. m
        OBVIOUS
      <3> QED
        BY <3>1, <3>2
    <2> QED
      BY <2>1, <2>2, <2>3, <2>4
  <1>2. start.bad = << >>
    BY DEF Start
  <1> QED
    BY <1>1, <1>2, EmptyReport DEF WalkRight

LEMMA HopRight ==
    ASSUME NEW k \in Nat, NEW walk, WalkRight(walk, k)
    PROVE  WalkRight(Hop(walk, chain[k + 1]), k + 1)
  <1> DEFINE edge == chain[k + 1]
             next == Hop(walk, edge)
             held == HeldBy(walk.held, edge.from)
             expanded == Range(edge.authority) \ held
  <1>1. /\ \A agent, c : c \in HeldBy(walk.held, agent) <=> TracesBack(agent, c, k + 1)
        /\ walk.bad = ReportOf(k)
    BY DEF WalkRight
  <1>2. ASSUME NEW agent, NEW c
        PROVE  c \in HeldBy(next.held, agent) <=> TracesBack(agent, c, (k + 1) + 1)
    <2>1. (k + 1) + 1 = k + 2
      OBVIOUS
    <2>2. c \in HeldBy(next.held, agent) <=>
              \/ c \in HeldBy(walk.held, agent)
              \/ agent = edge.to /\ c \in Range(edge.authority) /\ c \in held
      <3>1. HeldBy(next.held, agent) =
                HeldBy(walk.held, agent)
                \cup (IF agent = edge.to THEN Range(edge.authority) \cap held ELSE {})
        BY HopHeld
      <3> HIDE DEF next, held, edge
      <3> QED
        BY <3>1
    <2>3. TracesBack(agent, c, k + 2) <=>
              \/ TracesBack(agent, c, k + 1)
              \/ agent = edge.to /\ c \in Range(edge.authority) /\ TracesBack(edge.from, c, k + 1)
      BY OneMoreHop
    <2> HIDE DEF next, edge
    <2> QED
      BY <1>1, <2>1, <2>2, <2>3
  <1>3. expanded = Excess(k + 1)
    BY <1>1 DEF Excess
  <1>4. next.bad = IF expanded = {} THEN walk.bad
                   ELSE Append(walk.bad, [edge |-> edge, expanded |-> expanded])
    BY DEF Hop
  <1>5. Reported(k + 1) = Reported(k) \cup (IF Excess(k + 1) = {} THEN {} ELSE {k + 1})
    BY DEF Reported
  <1>6. CASE Excess(k + 1) = {}
    <2>1. Reported(k + 1) = Reported(k)
      BY <1>5, <1>6
    <2>2. ReportOf(k + 1) = ReportOf(k)
      BY <2>1 DEF ReportOf
    <2>3. next.bad = walk.bad
      BY <1>3, <1>4, <1>6
    <2> HIDE DEF next
    <2> QED
      BY <1>1, <1>2, <2>2, <2>3 DEF WalkRight, next
  <1>7. CASE Excess(k + 1) # {}
    <2> DEFINE R == Reported(k)
               A == 1 .. k + 1
               f == [j \in A |-> [edge |-> chain[j], expanded |-> Excess(j)]]
               B == {f[j] : j \in A}
               asc == Ascending(R)
    <2>1. R \subseteq 1 .. k /\ R \subseteq Nat /\ IsFiniteSet(R)
      <3>1. R \subseteq 1 .. k /\ IsFiniteSet(1 .. k)
        BY FS_Interval DEF Reported
      <3> QED
        BY <3>1, FS_Subset
    <2>2. asc \in Seq(A)
      <3>1. Cardinality(R) \in Nat /\ asc \in [1 .. Cardinality(R) -> R]
        BY <2>1, AscendingEnumerates
      <3>2. asc \in [1 .. Cardinality(R) -> A]
        BY <2>1, <3>1
      <3> HIDE DEF asc, R
      <3> QED
        BY <3>1, <3>2
    <2>3. Reported(k + 1) = R \cup {k + 1} /\ k + 1 \in A /\ k + 1 \in Nat
      BY <1>5, <1>7
    <2>4. Ascending(Reported(k + 1)) = Append(asc, k + 1)
      <3>1. \A i \in R : i < k + 1
        BY <2>1
      <3>2. Ascending(R \cup {k + 1}) = Append(Ascending(R), k + 1)
        BY <2>1, <2>3, <3>1, AscendingAdd
      <3> QED
        BY <2>3, <3>2
    <2>5. \A j \in A : f[j] \in B /\ f[j] = [edge |-> chain[j], expanded |-> Excess(j)]
      OBVIOUS
    <2>6. ReportOf(k) = [i \in DOMAIN asc |-> f[asc[i]]]
      <3>1. \A i \in DOMAIN asc : asc[i] \in A
        BY <2>2
      <3>2. \A i \in DOMAIN asc : f[asc[i]] = [edge |-> chain[asc[i]], expanded |-> Excess(asc[i])]
        BY <2>5, <3>1
      <3>3. ReportOf(k) = [i \in DOMAIN asc |-> [edge |-> chain[asc[i]], expanded |-> Excess(asc[i])]]
        BY DEF ReportOf
      <3> HIDE DEF f, asc
      <3> QED
        BY <3>2, <3>3
    <2>7. ReportOf(k + 1) = [i \in DOMAIN Append(asc, k + 1) |-> f[Append(asc, k + 1)[i]]]
      <3> DEFINE more == Append(asc, k + 1)
      <3>1. more \in Seq(A)
        BY <2>2, <2>3, AppendProperties
      <3>2. \A i \in DOMAIN more : more[i] \in A
        <4> HIDE DEF more
        <4> QED
          BY <3>1
      <3>3. \A i \in DOMAIN more : f[more[i]] = [edge |-> chain[more[i]], expanded |-> Excess(more[i])]
        BY <2>5, <3>2
      <3>4. ReportOf(k + 1) =
                [i \in DOMAIN more |-> [edge |-> chain[more[i]], expanded |-> Excess(more[i])]]
        BY <2>4 DEF ReportOf
      <3> HIDE DEF f, more
      <3>5. ReportOf(k + 1) = [i \in DOMAIN more |-> f[more[i]]]
        BY <3>3, <3>4
      <3> QED
        BY <3>5 DEF more
    <2>8. ReportOf(k + 1) = Append(ReportOf(k), f[k + 1])
      <3> HIDE DEF f, A, B, asc
      <3>1. [i \in DOMAIN Append(asc, k + 1) |-> f[Append(asc, k + 1)[i]]] =
                Append([i \in DOMAIN asc |-> f[asc[i]]], f[k + 1])
        BY <2>2, <2>3, <2>5, ApplyAppend
      <3> QED
        BY <2>6, <2>7, <3>1
    <2>9. next.bad = Append(ReportOf(k), f[k + 1])
      <3>1. f[k + 1] = [edge |-> edge, expanded |-> expanded]
        BY <1>3, <2>3, <2>5
      <3>2. next.bad = Append(walk.bad, [edge |-> edge, expanded |-> expanded])
        BY <1>3, <1>4, <1>7
      <3> HIDE DEF f, next, edge, expanded
      <3> QED
        BY <1>1, <3>1, <3>2
    <2> HIDE DEF next, f
    <2> QED
      BY <1>2, <2>8, <2>9 DEF WalkRight, next
  <1> QED
    BY <1>6, <1>7

(* Whatever the chain and the root, the walk reports, in order, exactly the *)
(* hops that hand on something their delegator does not trace back to the   *)
(* root, and exactly that.                                                  *)
THEOREM WalkReportsExcess == Spec => []WalkIsExact
  <1> DEFINE Chained == chain \in Seq(Edge)
  <1>1. Init => Chained
    BY DEF Init
  <1>2. Chained /\ [Next]_vars => Chained'
    BY DEF Next, vars, RecordAccess, Declare, Delegate, Answer
  <1>3. Chained => WalkIsExact
    <2> SUFFICES ASSUME Chained
                 PROVE  ExpandingDelegations(chain, Root) = ReportOf(Len(chain))
      <3>1. Chained => {k \in DOMAIN chain : Excess(k) # {}} = Reported(Len(chain))
        BY DEF Reported
      <3> HIDE DEF Chained
      <3> QED
        BY <3>1 DEF WalkIsExact, ReportOf
    <2>1. Len(chain) \in Nat
      OBVIOUS
    <2>2. CASE chain = << >>
      <3>1. ExpandingDelegations(chain, Root) = << >>
        BY <2>2 DEF ExpandingDelegations
      <3>2. Len(chain) = 0
        BY <2>2
      <3> QED
        BY <3>1, <3>2, EmptyReport
    <2>3. CASE chain # << >>
      <3> DEFINE n == Len(chain)
      <3>1. PICK walk : /\ Walks(chain, Root, n, walk)
                        /\ ExpandingDelegations(chain, Root) = walk[n].bad
        BY <2>1, <2>3, ExpandingWalks
      <3> HIDE DEF n
      <3>2. n \in Nat
        BY <2>1 DEF n
      <3> DEFINE S == {k \in 0 .. n : WalkRight(walk[k], k)}
      <3>3. 0 \in S
        <4>1. walk[0] = Start(chain, Root)
          BY <3>1, <3>2 DEF Walks
        <4> QED
          BY <2>3, <3>2, <4>1, StartRight
      <3>4. ASSUME NEW k \in 0 .. n - 1, k \in S PROVE k + 1 \in S
        <4>1. walk[k + 1] = Hop(walk[k], chain[k + 1])
          <5>1. k + 1 \in 0 .. n /\ k + 1 # 0 /\ k + 1 - 1 = k
            BY <3>2
          <5>2. \A j \in 0 .. n :
                    walk[j] = IF j = 0 THEN Start(chain, Root) ELSE Hop(walk[j - 1], chain[j])
            BY <3>1 DEF Walks
          <5>3. walk[k + 1] = IF k + 1 = 0 THEN Start(chain, Root) ELSE Hop(walk[k + 1 - 1], chain[k + 1])
            BY <5>1, <5>2
          <5> QED
            BY <5>1, <5>3
        <4>2. WalkRight(Hop(walk[k], chain[k + 1]), k + 1)
          BY <3>4, HopRight
        <4> QED
          BY <3>2, <4>1, <4>2
      <3>5. 0 .. n \subseteq S
        <4> HIDE DEF S
        <4> QED
          BY <3>2, <3>3, <3>4, UpTo
      <3>6. WalkRight(walk[n], n)
        BY <3>2, <3>5
      <3> QED
        BY <3>1, <3>6 DEF WalkRight, n
    <2> QED
      BY <2>2, <2>3
  <1> HIDE DEF Chained
  <1> QED
    BY <1>1, <1>2, <1>3, PTL DEF Spec

-------------------------------------------------------------------------------
(* More evidence of a kind takes back nothing that was found in less. *)
LEMMA ExpansionStays ==
    ASSUME NEW S, NEW hops \in Seq(S), hops # << >>, NEW e \in S, NEW root,
           ExpandingDelegations(hops, root) # << >>
    PROVE  ExpandingDelegations(Append(hops, e), root) # << >>
  <1> DEFINE more == Append(hops, e)
             n == Len(hops)
             U == UNION {Range(d.authority) : d \in S}
             X == [edge: S, expanded: SUBSET U]
  <1>1. /\ n \in Nat /\ n # 0 /\ Len(more) = n + 1 /\ more # << >>
        /\ more[n + 1] = e /\ \A i \in 1 .. n : more[i] = hops[i] /\ hops[i] \in S
    BY EmptySeq, AppendProperties
  <1> HIDE DEF more, n
  <1>2. PICK f : Walks(hops, root, n, f) /\ ExpandingDelegations(hops, root) = f[n].bad
    BY <1>1, ExpandingWalks DEF n
  <1>3. PICK g : Walks(more, root, n + 1, g) /\ ExpandingDelegations(more, root) = g[n + 1].bad
    BY <1>1, ExpandingWalks
  <1>4. \A k \in 0 .. n : f[k] = IF k = 0 THEN Start(hops, root) ELSE Hop(f[k - 1], hops[k])
    BY <1>2 DEF Walks
  <1>5. \A k \in 0 .. n + 1 : g[k] = IF k = 0 THEN Start(more, root) ELSE Hop(g[k - 1], more[k])
    BY <1>3 DEF Walks
  <1> DEFINE Same == {k \in 0 .. n : f[k] = g[k] /\ f[k].bad \in Seq(X)}
  <1>6. 0 \in Same
    <2>1. f[0] = Start(hops, root) /\ g[0] = Start(more, root)
      BY <1>1, <1>4, <1>5
    <2>2. more[1] = hops[1]
      BY <1>1
    <2>3. Start(hops, root) = Start(more, root)
      BY <2>2 DEF Start
    <2>4. Start(hops, root).bad = << >>
      BY DEF Start
    <2>5. << >> \in Seq(X)
      OBVIOUS
    <2> HIDE DEF X
    <2>6. f[0] = g[0] /\ f[0].bad \in Seq(X)
      BY <2>1, <2>3, <2>4, <2>5
    <2> QED
      BY <1>1, <2>6
  <1>7. ASSUME NEW k \in 0 .. n - 1, k \in Same PROVE k + 1 \in Same
    <2>1. k + 1 \in 1 .. n /\ k + 1 \in 0 .. n /\ k + 1 \in 0 .. n + 1 /\ k + 1 # 0 /\ k + 1 - 1 = k
      BY <1>1
    <2>2. f[k + 1] = Hop(f[k], hops[k + 1])
      <3>1. f[k + 1] = IF k + 1 = 0 THEN Start(hops, root) ELSE Hop(f[k + 1 - 1], hops[k + 1])
        BY <1>4, <2>1
      <3> QED
        BY <2>1, <3>1
    <2>3. g[k + 1] = Hop(g[k], more[k + 1])
      <3>1. g[k + 1] = IF k + 1 = 0 THEN Start(more, root) ELSE Hop(g[k + 1 - 1], more[k + 1])
        BY <1>5, <2>1
      <3> QED
        BY <2>1, <3>1
    <2>4. more[k + 1] = hops[k + 1] /\ hops[k + 1] \in S
      BY <1>1, <2>1
    <2>5. Hop(f[k], hops[k + 1]).bad \in Seq(X)
      <3> DEFINE edge == hops[k + 1]
                 expanded == Range(edge.authority) \ HeldBy(f[k].held, edge.from)
                 x == [edge |-> edge, expanded |-> expanded]
      <3>1. Hop(f[k], edge).bad = IF expanded = {} THEN f[k].bad ELSE Append(f[k].bad, x)
        BY DEF Hop
      <3>2. x \in X
        BY <2>4
      <3>3. f[k].bad \in Seq(X)
        BY <1>7
      <3> HIDE DEF X, x, expanded, edge
      <3>4. Append(f[k].bad, x) \in Seq(X)
        BY <3>2, <3>3, AppendProperties
      <3>5. Hop(f[k], edge).bad \in Seq(X)
        BY <3>1, <3>3, <3>4
      <3> QED
        BY <3>5 DEF edge
    <2> HIDE DEF X
    <2> QED
      BY <1>7, <2>1, <2>2, <2>3, <2>4, <2>5
  <1>8. 0 .. n \subseteq Same
    <2> HIDE DEF Same
    <2> QED
      BY <1>1, <1>6, <1>7, UpTo
  <1>9. f[n] = g[n] /\ f[n].bad \in Seq(X) /\ f[n].bad # << >>
    <2>1. n \in Same
      <3> HIDE DEF Same
      <3> QED
        BY <1>1, <1>8
    <2>2. f[n].bad # << >>
      BY <1>2
    <2> HIDE DEF X
    <2> QED
      BY <2>1, <2>2
  <1>10. g[n + 1] = Hop(g[n], e)
    <2>1. n + 1 \in 0 .. n + 1 /\ n + 1 # 0 /\ n + 1 - 1 = n
      BY <1>1
    <2> HIDE DEF Same
    <2>2. g[n + 1] = Hop(g[n + 1 - 1], more[n + 1])
      BY <1>1, <1>5, <2>1
    <2> QED
      BY <1>1, <2>1, <2>2
  <1>11. Hop(g[n], e).bad # << >>
    <2> DEFINE expanded == Range(e.authority) \ HeldBy(g[n].held, e.from)
               x == [edge |-> e, expanded |-> expanded]
    <2>1. Hop(g[n], e).bad = IF expanded = {} THEN g[n].bad ELSE Append(g[n].bad, x)
      BY DEF Hop
    <2>2. x \in X
      OBVIOUS
    <2> HIDE DEF X, x, expanded
    <2>3. Append(g[n].bad, x) \in Seq(X) /\ Len(Append(g[n].bad, x)) # 0
      BY <1>9, <2>2, AppendProperties, LenProperties
    <2>4. Append(g[n].bad, x) # << >>
      BY <2>3, EmptySeq
    <2> QED
      BY <1>9, <2>1, <2>4
  <1> QED
    BY <1>3, <1>10, <1>11 DEF more

LEMMA LeaksStay ==
    ASSUME NEW few, NEW many, few \subseteq many, IsFiniteSet(many), NEW disclosed
    PROVE  DifferentialLeaks(few, disclosed) \subseteq DifferentialLeaks(many, disclosed)
  <1> SUFFICES ASSUME NEW q \in DifferentialLeaks(few, disclosed)
               PROVE  q \in DifferentialLeaks(many, disclosed)
    OBVIOUS
  <1> DEFINE asked == {d \in few : d.query = q}
             again == {d \in many : d.query = q}
  <1>1. /\ q \in {d.query : d \in few} \ disclosed
        /\ Cardinality({d.response : d \in asked}) > 1 /\ Cardinality({d.backing : d \in asked}) > 1
    BY DEF DifferentialLeaks
  <1>2. IsFiniteSet(again) /\ asked \subseteq again
    BY FS_Subset
  <1> HIDE DEF asked, again
  <1>3. IsFiniteSet({d.response : d \in again}) /\ IsFiniteSet({d.backing : d \in again})
    BY <1>2, FiniteColumns
  <1>4. {d.response : d \in asked} \subseteq {d.response : d \in again}
        /\ {d.backing : d \in asked} \subseteq {d.backing : d \in again}
    BY <1>2
  <1>5. Cardinality({d.response : d \in again}) > 1 /\ Cardinality({d.backing : d \in again}) > 1
    <2>1. /\ Cardinality({d.response : d \in asked}) <= Cardinality({d.response : d \in again})
          /\ Cardinality({d.backing : d \in asked}) <= Cardinality({d.backing : d \in again})
          /\ IsFiniteSet({d.response : d \in asked}) /\ IsFiniteSet({d.backing : d \in asked})
      BY <1>3, <1>4, FS_Subset
    <2>2. /\ Cardinality({d.response : d \in asked}) \in Nat
          /\ Cardinality({d.backing : d \in asked}) \in Nat
          /\ Cardinality({d.response : d \in again}) \in Nat
          /\ Cardinality({d.backing : d \in again}) \in Nat
      BY <1>3, <2>1, FS_CardinalityType
    <2> QED
      BY <1>1, <2>1, <2>2
  <1>6. q \in {d.query : d \in many} \ disclosed
    BY <1>1
  <1> QED
    BY <1>5, <1>6 DEF DifferentialLeaks, again

LEMMA ChannelsStay ==
    ASSUME NEW few, NEW many, NEW pairs, few \subseteq many,
           \A a \in many : a.seq \in Int,
           \A a \in many \ few, b \in few : b.seq < a.seq
    PROVE  /\ \A w, r \in few : Exchange(few, w, r, pairs) => Exchange(many, w, r, pairs)
           /\ EmergentChannels(few, pairs) \subseteq EmergentChannels(many, pairs)
  <1>1. ASSUME NEW w \in few, NEW r \in few, Exchange(few, w, r, pairs)
        PROVE  Exchange(many, w, r, pairs)
    <2>1. /\ r.op = "read" /\ LastWrite(few, w, r)
          /\ w.agent # r.agent /\ {w.agent, r.agent} \notin pairs
      BY <1>1 DEF Exchange
    <2>2. \A v \in many : v.seq < r.seq => v \in few
      <3> SUFFICES ASSUME NEW v \in many, v.seq < r.seq, v \notin few PROVE FALSE
        OBVIOUS
      <3>1. r.seq < v.seq /\ r.seq \in Int /\ v.seq \in Int
        OBVIOUS
      <3> QED
        BY <3>1
    <2>3. LastWrite(many, w, r)
      BY <2>1, <2>2 DEF LastWrite
    <2> QED
      BY <2>1, <2>3 DEF Exchange
  <1>2. EmergentChannels(few, pairs) \subseteq EmergentChannels(many, pairs)
    <2> SUFFICES ASSUME NEW p \in few \X few, Exchange(few, p[1], p[2], pairs)
                 PROVE  p \in many \X many /\ Exchange(many, p[1], p[2], pairs)
      BY DEF EmergentChannels
    <2> QED
      BY <1>1
  <1> QED
    BY <1>1, <1>2

LEMMA FiniteOf ==
    ASSUME NEW tr \in Seq(Line), NEW type
    PROVE  IsFiniteSet(Of(tr, type))
  <1> DEFINE A == At(tr, type)
             f == [i \in A |-> tr[i]]
  <1>1. IsFiniteSet(A)
    BY FiniteAt
  <1>2. f \in Surjection(A, Of(tr, type))
    BY DEF Surjection, Of
  <1> QED
    BY <1>1, <1>2, FS_Surjection

(* The state an identifier stands for, when no two states share one. *)
LEMMA StateFound ==
    ASSUME NEW few, NEW many, few \subseteq many,
           \A s, t \in many : s.id = t.id => s = t, NEW id \in Ids(few)
    PROVE  (CHOOSE s \in few : s.id = id) = (CHOOSE s \in many : s.id = id)
  <1>1. PICK s \in few : s.id = id
    BY DEF Ids
  <1>2. (CHOOSE t \in few : t.id = id) = s
    BY <1>1
  <1>3. (CHOOSE t \in many : t.id = id) = s
    BY <1>1
  <1> QED
    BY <1>2, <1>3

(* The beginning of a trace, and what its other lines add. *)
LEMMA Beginning ==
    ASSUME NEW new \in Seq(Line), NEW n \in 0 .. Len(new)
    PROVE  LET tr == SubSeq(new, 1, n) IN
           /\ tr \in Seq(Line) /\ DOMAIN tr = 1 .. n /\ \A i \in 1 .. n : tr[i] = new[i]
           /\ \A type : Of(tr, type) \subseteq Of(new, type)
           /\ \A type : (\A i \in n + 1 .. Len(new) : new[i].type # type) => Of(tr, type) = Of(new, type)
  <1> DEFINE tr == SubSeq(new, 1, n)
  <1>1. Len(new) \in Nat /\ DOMAIN new = 1 .. Len(new) /\ \A i \in 1 .. n : new[i] \in Line
    OBVIOUS
  <1>2. tr = [i \in 1 .. n |-> new[i]]
    BY <1>1
  <1>3. tr \in Seq(Line) /\ DOMAIN tr = 1 .. n /\ \A i \in 1 .. n : tr[i] = new[i]
    BY <1>1, <1>2
  <1> HIDE DEF tr
  <1>4. \A type : At(tr, type) = {i \in At(new, type) : i \in 1 .. n}
    BY <1>1, <1>3 DEF At
  <1>5. ASSUME NEW type PROVE Of(tr, type) \subseteq Of(new, type)
    BY <1>3, <1>4 DEF Of
  <1>6. ASSUME NEW type, \A i \in n + 1 .. Len(new) : new[i].type # type
        PROVE  Of(tr, type) = Of(new, type)
    <2>1. At(new, type) \subseteq 1 .. n
      BY <1>1, <1>6 DEF At
    <2>2. At(tr, type) = At(new, type)
      BY <1>4, <2>1
    <2> QED
      BY <1>3, <2>1, <2>2 DEF Of
  <1> QED
    BY <1>3, <1>5, <1>6 DEF tr

(* Accesses that come later have the greater numbers. *)
LEMMA LaterAccesses ==
    ASSUME NEW new \in Seq(Line), NEW n \in 0 .. Len(new), LinesPass(new)
    PROVE  LET few == Accesses(Numbered(SubSeq(new, 1, n)))
               many == Accesses(Numbered(new))
           IN few \subseteq many /\ \A a \in many \ few, b \in few : b.seq < a.seq
  <1> DEFINE tr == SubSeq(new, 1, n)
             num == Numbered(tr)
             next == Numbered(new)
             type == "resource_access"
  <1>1. tr \in Seq(Line) /\ DOMAIN tr = 1 .. n /\ \A i \in 1 .. n : tr[i] = new[i]
    BY Beginning
  <1> HIDE DEF tr
  <1>2. Len(new) \in Nat /\ DOMAIN new = 1 .. Len(new)
    OBVIOUS
  <1>3. DOMAIN num = 1 .. n /\ DOMAIN next = 1 .. Len(new) /\ \A i \in 1 .. n : num[i] = next[i]
    BY <1>1, <1>2 DEF Numbered
  <1>4. ResourceSeqIncreases(next)
    BY DEF LinesPass
  <1> HIDE DEF num, next
  <1>5. At(num, type) = {i \in At(next, type) : i \in 1 .. n} /\ At(next, type) \subseteq 1 .. Len(new)
    BY <1>2, <1>3 DEF At
  <1>6. Accesses(num) \subseteq Accesses(next)
    BY <1>3, <1>5 DEF Accesses, Of
  <1>7. ASSUME NEW a \in Accesses(next) \ Accesses(num), NEW b \in Accesses(num)
        PROVE  b.seq < a.seq
    <2>1. PICK i \in At(next, type) : a = next[i]
      BY DEF Accesses, Of
    <2>2. PICK j \in At(num, type) : b = num[j]
      BY DEF Accesses, Of
    <2>3. i \notin 1 .. n
      <3> SUFFICES ASSUME i \in 1 .. n PROVE FALSE
        OBVIOUS
      <3>1. i \in At(num, type) /\ a = num[i]
        BY <1>3, <1>5, <2>1
      <3> QED
        BY <3>1 DEF Accesses, Of
    <2>4. j \in At(next, type) /\ b = next[j] /\ j < i
      BY <1>2, <1>3, <1>5, <2>2, <2>3
    <2> QED
      BY <1>4, <2>1, <2>4 DEF ResourceSeqIncreases
  <1> QED
    BY <1>6, <1>7 DEF tr, num, next

(* A chain that expands goes on to, whatever lines are added. *)
Expands(tr, root) ==
    DelegationChain(tr) # << >> /\ ExpandingDelegations(DelegationChain(tr), root) # << >>

LEMMA ExpandsAppend ==
    ASSUME NEW tr \in Seq(Line), NEW e \in Line, NEW root, Expands(tr, root)
    PROVE  Expands(Append(tr, e), root)
  <1> DEFINE hops == DelegationChain(tr)
             more == DelegationChain(Append(tr, e))
  <1>1. hops \in Seq(Line)
    BY ChainOfLines
  <1>2. hops # << >> /\ ExpandingDelegations(hops, root) # << >>
    BY DEF Expands
  <1>3. /\ e.type = "delegation" => more = Append(hops, e)
        /\ e.type # "delegation" => more = hops
    BY ChainAppend
  <1> HIDE DEF hops, more
  <1>4. CASE e.type = "delegation"
    <2>1. more = Append(hops, e)
      BY <1>3, <1>4
    <2>2. Append(hops, e) # << >>
      <3>1. Len(Append(hops, e)) = Len(hops) + 1 /\ Len(hops) \in Nat
        BY <1>1, AppendProperties, LenProperties
      <3>2. Len(Append(hops, e)) # 0
        BY <3>1
      <3> QED
        BY <3>2, EmptySeq
    <2>3. ExpandingDelegations(Append(hops, e), root) # << >>
      BY <1>1, <1>2, ExpansionStays
    <2> QED
      BY <2>1, <2>2, <2>3 DEF Expands, more
  <1>5. CASE e.type # "delegation"
    BY <1>2, <1>3, <1>5 DEF Expands, more
  <1> QED
    BY <1>4, <1>5

ExpansionsStand ==
    \A root : \A n \in 0 .. Len(lines) : Expands(SubSeq(lines, 1, n), root) => Expands(lines, root)

LEMMA ExpansionsHold == EngineSpec => [](TraceInv /\ ExpansionsStand)
  <1>1. EngineInit => ExpansionsStand
    <2> SUFFICES ASSUME EngineInit, NEW root, NEW n \in 0 .. Len(lines),
                        Expands(SubSeq(lines, 1, n), root)
                 PROVE  Expands(lines, root)
      BY DEF ExpansionsStand
    <2>1. lines = << >> /\ n = 0
      BY DEF EngineInit
    <2>2. SubSeq(lines, 1, n) = lines
      BY <2>1
    <2> QED
      BY <2>2
  <1>2. ASSUME TraceInv, ExpansionsStand, [EngineNext]_engineVars PROVE ExpansionsStand'
    <2>1. CASE UNCHANGED lines
      BY <1>2, <2>1 DEF ExpansionsStand
    <2>2. ASSUME NEW line \in Line, WriteLine(line) PROVE ExpansionsStand'
      <3>1. lines' = Append(lines, line) /\ lines \in Seq(Line)
        BY <1>2, <2>2 DEF WriteLine, TraceInv
      <3>2. lines' \in Seq(Line) /\ Len(lines) \in Nat /\ Len(lines') = Len(lines) + 1
        BY <3>1, AppendProperties
      <3>3. ASSUME NEW root, NEW n \in 0 .. Len(lines'), Expands(SubSeq(lines', 1, n), root)
            PROVE  Expands(lines', root)
        <4>1. CASE n \in 0 .. Len(lines)
          <5>1. Expands(SubSeq(lines, 1, n), root)
            BY <3>1, <3>3, <4>1, BeginningsKept
          <5>2. Expands(lines, root)
            BY <1>2, <4>1, <5>1 DEF ExpansionsStand
          <5> QED
            BY <3>1, <5>2, ExpandsAppend
        <4>2. CASE n = Len(lines')
          BY <3>2, <3>3, <4>2, SubSeqFull
        <4> QED
          BY <3>2, <3>3, <4>1, <4>2
      <3> QED
        BY <3>3 DEF ExpansionsStand
    <2> QED
      BY <1>2, <2>1, <2>2 DEF EngineNext, HandOver, engineVars
  <1> QED
    BY <1>1, <1>2, TraceInvHolds, PTL DEF EngineSpec

(* Lines of kinds that excuse nothing add to what is reported. *)
Excuses == {"declared_relationship", "disclosed_fact", "root_authority"}

LEMMA VerdictGrows ==
    ASSUME NEW new \in Seq(Line), NEW n \in 0 .. Len(new),
           ReadRight(SubSeq(new, 1, n)), ReadRight(new),
           ~ParseTrace(SubSeq(new, 1, n)).refused, ~ParseTrace(new).refused,
           \A i \in n + 1 .. Len(new) : new[i].type \notin Excuses,
           \A root : Expands(SubSeq(new, 1, n), root) => Expands(new, root)
    PROVE  Violated(FromBundle(ParseTrace(SubSeq(new, 1, n)))) \subseteq Violated(FromBundle(ParseTrace(new)))
  <1> DEFINE tr == SubSeq(new, 1, n)
             b == ParseTrace(tr)
             c == ParseTrace(new)
             before == FromBundle(b)
             after == FromBundle(c)
  <1>1. /\ tr \in Seq(Line)
        /\ \A type : Of(tr, type) \subseteq Of(new, type)
        /\ \A type : (\A i \in n + 1 .. Len(new) : new[i].type # type) => Of(tr, type) = Of(new, type)
    BY Beginning
  <1>2. /\ LinesPass(tr) /\ ~Unresolved(b)
        /\ \E last \in Int : Holds(b, tr, last) /\ LastSeen(Accesses(Numbered(tr)), last)
    BY <1>1, Parsed
  <1>3. LinesPass(new) /\ \E last \in Int : Holds(c, new, last) /\ LastSeen(Accesses(Numbered(new)), last)
    BY Parsed
  <1>4. /\ Accesses(Numbered(tr)) \subseteq Accesses(Numbered(new))
        /\ \A a \in Accesses(Numbered(new)) \ Accesses(Numbered(tr)), d \in Accesses(Numbered(tr)) :
              d.seq < a.seq
    BY <1>3, LaterAccesses
  <1>20. \A root : Expands(tr, root) => Expands(new, root)
    OBVIOUS
  <1> HIDE DEF b, c, tr
  <1>5. PICK last \in Int : Holds(b, tr, last) /\ LastSeen(Accesses(Numbered(tr)), last)
    BY <1>2
  <1>6. PICK next \in Int : Holds(c, new, next) /\ LastSeen(Accesses(Numbered(new)), next)
    BY <1>3
  <1>7. /\ b.init \subseteq c.init /\ b.states \subseteq c.states /\ b.transitions \subseteq c.transitions
        /\ b.records \subseteq c.records /\ b.queries \subseteq c.queries
        /\ b.declared = c.declared /\ b.facts = c.facts /\ b.root = c.root
        /\ b.forbidden \subseteq c.forbidden
    <2>1. /\ InitIds(tr) \subseteq InitIds(new) /\ States(tr) \subseteq States(new)
          /\ Transitions(tr) \subseteq Transitions(new) /\ Queries(tr) \subseteq Queries(new)
          /\ EvidenceRecords(tr) \subseteq EvidenceRecords(new)
          /\ ForbiddenSet(tr) \subseteq ForbiddenSet(new)
      BY <1>1 DEF InitIds, States, Transitions, Queries, EvidenceRecords, ForbiddenSet
    <2>2. \A type \in Excuses : Of(tr, type) = Of(new, type)
      BY <1>1
    <2>3. /\ DeclaredPairs(tr) = DeclaredPairs(new) /\ DisclosedFacts(tr) = DisclosedFacts(new)
          /\ Roots(tr) = Roots(new)
      BY <2>2 DEF Excuses, DeclaredPairs, DisclosedFacts, Roots
    <2> QED
      BY <1>5, <1>6, <2>1, <2>3 DEF Holds
  <1>8. /\ before.graph = (IF HasGraph(b) THEN {GraphOf(b)} ELSE {})
        /\ before.forbidden = b.forbidden /\ before.facts = b.facts /\ before.declared = b.declared
        /\ before.root = UNION b.root /\ before.weave = {}
        /\ before.queries = Given(b.queries, {}) /\ before.records = Given(b.records, {})
        /\ before.accesses = Given(b.accesses, {}) /\ before.chain = Given(b.chain, << >>)
    BY DEF FromBundle
  <1>9. /\ after.graph = (IF HasGraph(c) THEN {GraphOf(c)} ELSE {})
        /\ after.forbidden = c.forbidden /\ after.facts = c.facts /\ after.declared = c.declared
        /\ after.root = UNION c.root /\ after.weave = {}
        /\ after.queries = Given(c.queries, {}) /\ after.records = Given(c.records, {})
        /\ after.accesses = Given(c.accesses, {}) /\ after.chain = Given(c.chain, << >>)
    BY DEF FromBundle
  <1> HIDE DEF before, after
  <1>10. ASSUME HasGraph(b)
         PROVE  /\ HasGraph(c) /\ \A t \in b.transitions : t \in c.transitions
                /\ \A t \in b.transitions : /\ GraphOf(c).state[t.src] = GraphOf(b).state[t.src]
                                            /\ GraphOf(c).state[t.dst] = GraphOf(b).state[t.dst]
    <2>1. HasGraph(c)
      BY <1>7, <1>10 DEF HasGraph
    <2>2. \A t \in b.transitions : t.src \in Ids(b.states) /\ t.dst \in Ids(b.states)
      BY <1>2, <1>10 DEF Unresolved
    <2>3. \A s, t \in c.states : s.id = t.id => s = t
      <3>1. UniqueStateIds(new) /\ c.states = Of(new, "state")
        BY <1>3, <1>6 DEF LinesPass, Holds, States
      <3> QED
        BY <3>1 DEF UniqueStateIds, Of
    <2>4. ASSUME NEW id \in Ids(b.states) PROVE GraphOf(c).state[id] = GraphOf(b).state[id]
      <3>1. id \in Ids(c.states)
        BY <1>7 DEF Ids
      <3>2. /\ GraphOf(b).state[id] = (CHOOSE s \in b.states : s.id = id)
            /\ GraphOf(c).state[id] = (CHOOSE s \in c.states : s.id = id)
        BY <3>1 DEF GraphOf
      <3> QED
        BY <1>7, <2>3, <3>2, StateFound
    <2> QED
      BY <1>7, <2>1, <2>2, <2>4
  <1>11. GraphOf(b).transitions = b.transitions /\ GraphOf(c).transitions = c.transitions
    BY DEF GraphOf
  <1>12. "I" \in Violated(before) => "I" \in Violated(after)
    <2> SUFFICES ASSUME "I" \in Violated(before) PROVE "I" \in Violated(after)
      OBVIOUS
    <2>1. PICK g \in before.graph : AuthorityViolations(g.transitions, g.state, before.forbidden) # {}
      BY DEF Violated
    <2>2. HasGraph(b) /\ g = GraphOf(b)
      BY <1>8, <2>1
    <2>3. PICK t \in b.transitions :
              Ungranted(g.state[t.src], g.state[t.dst], t, b.forbidden) # {}
      BY <1>8, <1>11, <2>1, <2>2 DEF AuthorityViolations
    <2> DEFINE h == GraphOf(c)
    <2>4. h \in after.graph /\ t \in h.transitions
          /\ h.state[t.src] = g.state[t.src] /\ h.state[t.dst] = g.state[t.dst]
      BY <1>9, <1>10, <1>11, <2>2, <2>3
    <2> HIDE DEF h
    <2>5. Ungranted(h.state[t.src], h.state[t.dst], t, c.forbidden) # {}
      BY <1>7, <2>3, <2>4 DEF Ungranted
    <2>6. AuthorityViolations(h.transitions, h.state, after.forbidden) # {}
      BY <1>9, <2>4, <2>5 DEF AuthorityViolations
    <2> QED
      BY <2>4, <2>6 DEF Violated, Article
  <1>13. "III" \in Violated(before) => "III" \in Violated(after)
    <2>1. ASSUME NEW g \in before.graph, ConfidentialityViolations(g.transitions, g.state) # {}
          PROVE  "III" \in Violated(after)
      <3>1. HasGraph(b) /\ g = GraphOf(b)
        BY <1>8, <2>1
      <3>2. PICK t \in b.transitions : Leaked(g.state[t.src], g.state[t.dst], t) # {}
        BY <1>11, <2>1, <3>1 DEF ConfidentialityViolations
      <3> DEFINE h == GraphOf(c)
      <3>3. h \in after.graph /\ t \in h.transitions
            /\ h.state[t.src] = g.state[t.src] /\ h.state[t.dst] = g.state[t.dst]
        BY <1>9, <1>10, <1>11, <3>1, <3>2
      <3> HIDE DEF h
      <3>4. ConfidentialityViolations(h.transitions, h.state) # {}
        BY <3>2, <3>3 DEF ConfidentialityViolations
      <3> QED
        BY <3>3, <3>4 DEF Violated, Article
    <2>2. ASSUME NEW asked \in before.queries, DifferentialLeaks(asked, before.facts) # {}
          PROVE  "III" \in Violated(after)
      <3>1. asked = b.queries /\ b.queries # {}
        BY <1>8, <2>2 DEF Given
      <3>2. c.queries \in after.queries /\ after.facts = before.facts
        BY <1>7, <1>8, <1>9, <3>1 DEF Given
      <3>3. IsFiniteSet(c.queries)
        <4>1. c.queries = Of(new, "differential_query")
          BY <1>6 DEF Holds, Queries
        <4> QED
          BY <1>1, <4>1, FiniteOf
      <3>4. DifferentialLeaks(c.queries, after.facts) # {}
        BY <1>7, <2>2, <3>1, <3>2, <3>3, LeaksStay
      <3> QED
        BY <3>2, <3>4 DEF Violated, Article
    <2> QED
      BY <2>1, <2>2 DEF Violated
  <1>14. "IV" \in Violated(before) => "IV" \in Violated(after)
    <2> SUFFICES ASSUME "IV" \in Violated(before) PROVE "IV" \in Violated(after)
      OBVIOUS
    <2>1. PICK records \in before.records :
              Misattributed(records) \cup Gamed(records, MetricThreshold) # {}
      BY DEF Violated
    <2>2. records = b.records /\ b.records # {}
      BY <1>8, <2>1 DEF Given
    <2>3. c.records \in after.records
      BY <1>7, <1>9, <2>2 DEF Given
    <2>4. Misattributed(c.records) \cup Gamed(c.records, MetricThreshold) # {}
      <3>1. Misattributed(b.records) \subseteq Misattributed(c.records)
        BY <1>7 DEF Misattributed
      <3>2. Gamed(b.records, MetricThreshold) \subseteq Gamed(c.records, MetricThreshold)
        BY <1>7 DEF Gamed
      <3> QED
        BY <2>1, <2>2, <3>1, <3>2
    <2> QED
      BY <2>3, <2>4 DEF Violated, Article
  <1>15. "V" \in Violated(before) => "V" \in Violated(after)
    <2> SUFFICES ASSUME "V" \in Violated(before) PROVE "V" \in Violated(after)
      OBVIOUS
    <2>1. PICK seen \in before.accesses : EmergentChannels(seen, before.declared) # {}
      BY DEF Violated
    <2>2. seen = b.accesses /\ b.accesses # {}
      BY <1>8, <2>1 DEF Given
    <2>3. \A a \in c.accesses : a.seq \in Int
      BY <1>6 DEF LastSeen, Holds
    <2>4. /\ b.accesses \subseteq c.accesses
          /\ \A a \in c.accesses \ b.accesses, d \in b.accesses : d.seq < a.seq
      BY <1>4, <1>5, <1>6 DEF Holds
    <2>7. EmergentChannels(b.accesses, b.declared) \subseteq EmergentChannels(c.accesses, b.declared)
      BY <2>3, <2>4, ChannelsStay
    <2>8. c.accesses \in after.accesses /\ after.declared = b.declared /\ before.declared = b.declared
      BY <1>7, <1>8, <1>9, <2>2, <2>4 DEF Given
    <2>9. EmergentChannels(c.accesses, after.declared) # {}
      BY <2>1, <2>2, <2>7, <2>8
    <2> QED
      BY <2>8, <2>9 DEF Violated, Article
  <1>16. "VI" \in Violated(before) => "VI" \in Violated(after)
    <2> SUFFICES ASSUME "VI" \in Violated(before) PROVE "VI" \in Violated(after)
      OBVIOUS
    <2>1. PICK hops \in before.chain : ExpandingDelegations(hops, before.root) # << >>
      BY DEF Violated
    <2>2. hops = b.chain /\ b.chain # << >> /\ b.chain = DelegationChain(tr)
      BY <1>5, <1>8, <2>1 DEF Given, Holds
    <2>3. c.chain = DelegationChain(new) /\ after.root = before.root
      BY <1>6, <1>7, <1>8, <1>9 DEF Holds
    <2>5. c.chain # << >> /\ ExpandingDelegations(c.chain, before.root) # << >>
      BY <1>20, <2>1, <2>2, <2>3 DEF Expands
    <2>6. c.chain \in after.chain
      BY <1>9, <2>5 DEF Given
    <2> QED
      BY <2>3, <2>5, <2>6 DEF Violated, Article
  <1>17. Violated(before) \subseteq {"I", "III", "IV", "V", "VI"}
    BY DEF Violated
  <1>18. Violated(before) \subseteq Violated(after)
    BY <1>12, <1>13, <1>14, <1>15, <1>16, <1>17
  <1> QED
    BY <1>18 DEF before, after, b, c, tr

(* engine.py, trace.py: a trace that goes on takes no accusation back, over *)
(* any number of lines and whether or not the traces in between parse.      *)
THEOREM AccusationsStand == EngineSpec => []VerdictStands
  <1>1. TraceInv /\ ExpansionsStand => VerdictStands
    <2> SUFFICES ASSUME TraceInv, ExpansionsStand, ~ParseTrace(lines).refused,
                        NEW n \in 0 .. Len(lines), ~ParseTrace(SubSeq(lines, 1, n)).refused,
                        \A i \in n + 1 .. Len(lines) : lines[i].type \notin Excuses
                 PROVE  Violated(FromBundle(ParseTrace(SubSeq(lines, 1, n))))
                            \subseteq Violated(FromBundle(ParseTrace(lines)))
      BY DEF VerdictStands, Excuses
    <2>1. lines \in Seq(Line) /\ ReadRight(lines) /\ ReadRight(SubSeq(lines, 1, n))
      BY DEF TraceInv
    <2>2. \A root : Expands(SubSeq(lines, 1, n), root) => Expands(lines, root)
      BY DEF ExpansionsStand
    <2> QED
      BY <2>1, <2>2, VerdictGrows
  <1> QED
    BY <1>1, ExpansionsHold, PTL


-------------------------------------------------------------------------------
(* If two answers differ in their response and two in their backing state,  *)
(* some two differ in both.                                                 *)
LEMMA VariesTogether ==
    ASSUME NEW S, NEW d1 \in S, NEW d2 \in S, NEW e1 \in S, NEW e2 \in S,
           d1.response # d2.response, e1.backing # e2.backing
    PROVE  \E d, e \in S : d.backing # e.backing /\ d.response # e.response
  <1>1. CASE d1.backing # d2.backing
    BY <1>1
  <1>2. CASE d1.backing = d2.backing
    <2>1. PICK e \in {e1, e2} : e.backing # d1.backing
      OBVIOUS
    <2>2. d1.response # e.response \/ d2.response # e.response
      OBVIOUS
    <2> QED
      BY <1>2, <2>1, <2>2
  <1> QED
    BY <1>1, <1>2

(* The evidence is a finite set of answers. *)
FiniteAnswers == queries \subseteq Answered /\ IsFiniteSet(queries)

LEMMA AnswersFinite == Spec => []FiniteAnswers
  <1>1. Init => FiniteAnswers
    BY FS_EmptySet DEF Init, FiniteAnswers
  <1>2. FiniteAnswers /\ [Next]_vars => FiniteAnswers'
    BY FS_AddElement DEF FiniteAnswers, Next, vars, RecordAccess, Declare, Delegate, Answer
  <1> QED
    BY <1>1, <1>2, PTL DEF Spec

LEMMA CountingIsExact == FiniteAnswers => LeakIsVariance
  <1> SUFFICES ASSUME FiniteAnswers, NEW q \in Query \ Disclosed
               PROVE  q \in DifferentialLeaks(queries, Disclosed) <=>
                          \E d, e \in queries :
                              /\ d.query = q /\ e.query = q
                              /\ d.backing # e.backing /\ d.response # e.response
    BY DEF LeakIsVariance, DifferentialLeaks, FiniteAnswers, Answered
  <1> DEFINE asked == {d \in queries : d.query = q}
             responses == {d.response : d \in asked}
             backings == {d.backing : d \in asked}
  <1>1. IsFiniteSet(asked)
    BY FS_Subset DEF FiniteAnswers
  <1>2. IsFiniteSet(responses) /\ IsFiniteSet(backings)
    BY <1>1, FiniteColumns
  <1>3. q \in DifferentialLeaks(queries, Disclosed) <=>
            Cardinality(responses) > 1 /\ Cardinality(backings) > 1 /\ asked # {}
    BY DEF DifferentialLeaks
  <1>4. Cardinality(responses) > 1 <=> \E d, e \in asked : d.response # e.response
    BY <1>2, MoreThanOne
  <1>5. Cardinality(backings) > 1 <=> \E d, e \in asked : d.backing # e.backing
    BY <1>2, MoreThanOne
  <1>6. q \in DifferentialLeaks(queries, Disclosed) <=>
            \E d, e \in asked : d.backing # e.backing /\ d.response # e.response
    BY <1>3, <1>4, <1>5, VariesTogether
  <1> QED
    BY <1>6

(* The check reports a query exactly when two of its answers differ both in *)
(* backing state and in response, and the variance is not disclosed.        *)
THEOREM VarianceReported == Spec => []LeakIsVariance
  BY AnswersFinite, CountingIsExact, PTL

-------------------------------------------------------------------------------
(* The type of the evidence, and that there is finitely much of it. *)
Kept == TypeOK /\ IsFiniteSet(accesses)

LEMMA EvidenceKept == Spec => []Kept
  <1>1. Init => Kept
    BY FS_EmptySet DEF Init, Kept, TypeOK
  <1>2. Kept /\ [Next]_vars => Kept'
    <2> SUFFICES ASSUME Kept, [Next]_vars PROVE Kept'
      OBVIOUS
    <2> USE DEF Kept, TypeOK
    <2>1. ASSUME NEW access \in Access, RecordAccess(access) PROVE Kept'
      <3>1. IsFiniteSet(accesses')
        BY <2>1, FS_AddElement DEF RecordAccess
      <3>2. \A a, b \in accesses' : a.seq = b.seq => a = b
        BY <2>1 DEF RecordAccess
      <3> QED
        BY <2>1, <3>1, <3>2 DEF RecordAccess
    <2>2. ASSUME NEW a \in Agent, NEW b \in Agent, Declare({a, b}) PROVE Kept'
      BY <2>2 DEF Declare
    <2>3. ASSUME NEW edge \in Edge, Delegate(edge) PROVE Kept'
      BY <2>3 DEF Delegate
    <2>4. ASSUME NEW answer \in Answered, Answer(answer) PROVE Kept'
      BY <2>4 DEF Answer
    <2>5. CASE UNCHANGED vars
      BY <2>5 DEF vars
    <2> QED
      BY <2>1, <2>2, <2>3, <2>4, <2>5 DEF Next
  <1> QED
    BY <1>1, <1>2, PTL DEF Spec

(* The accesses to a resource are gone through by seq, each of them once.   *)
LEMMA InOrderLists ==
    ASSUME Kept, NEW resource
    PROVE  LET ord == InOrder(resource)
               n == Len(ord)
           IN /\ n \in Nat
              /\ \A i \in 1 .. n : ord[i] \in Listed(resource)
              /\ \A i, j \in 1 .. n : i < j => ord[i].seq < ord[j].seq
              /\ \A a \in Listed(resource) : \E i \in 1 .. n : ord[i] = a
  <1> DEFINE L == Listed(resource)
             S == {a.seq : a \in L}
             at == Ascending(S)
             c == Cardinality(S)
             ord == InOrder(resource)
  <1>1. L \subseteq accesses /\ L \subseteq Access /\ IsFiniteSet(L)
        /\ \A a, b \in L : a.seq = b.seq => a = b
    BY FS_Subset DEF Kept, TypeOK, Listed
  <1>2. S \subseteq Nat /\ IsFiniteSet(S)
    <2>1. \A a \in L : a.seq \in Nat
      BY <1>1, EvidenceAssumption DEF Access
    <2> DEFINE f == [a \in L |-> a.seq]
    <2>2. f \in Surjection(L, S)
      BY DEF Surjection
    <2> HIDE DEF L
    <2>3. IsFiniteSet(S)
      BY <1>1, <2>2, FS_Surjection
    <2> QED
      BY <2>1, <2>3
  <1>3. /\ c \in Nat /\ at \in [1 .. c -> S]
        /\ \A n, m \in 1 .. c : n < m => at[n] < at[m]
        /\ \A i \in S : \E n \in 1 .. c : at[n] = i
    <2> HIDE DEF S
    <2> QED
      BY <1>2, AscendingEnumerates
  <1>4. ord = [i \in 1 .. c |-> CHOOSE a \in L : a.seq = at[i]]
    BY <1>3 DEF InOrder
  <1> HIDE DEF L, at, c
  <1>5. \A i \in 1 .. c : ord[i] \in L /\ ord[i].seq = at[i]
    <2> SUFFICES ASSUME NEW i \in 1 .. c PROVE ord[i] \in L /\ ord[i].seq = at[i]
      OBVIOUS
    <2>1. \E a \in L : a.seq = at[i]
      BY <1>3
    <2>2. ord[i] = CHOOSE a \in L : a.seq = at[i]
      BY <1>4
    <2> HIDE DEF ord
    <2> QED
      BY <2>1, <2>2
  <1>6. Len(ord) = c
    BY <1>3, <1>4
  <1> HIDE DEF ord
  <1>7. \A i, j \in 1 .. c : i < j => ord[i].seq < ord[j].seq
    BY <1>3, <1>5
  <1>8. ASSUME NEW a \in L PROVE \E i \in 1 .. c : ord[i] = a
    <2>1. PICK i \in 1 .. c : at[i] = a.seq
      BY <1>3
    <2>2. ord[i] = a
      BY <1>1, <1>5, <2>1
    <2> QED
      BY <2>2
  <1> QED
    BY <1>3, <1>5, <1>6, <1>7, <1>8 DEF ord, L

Unread == [last |-> NoWriter, counts |-> << >>]

Scans(ord, n, scan) ==
    scan = [i \in 0 .. n |-> IF i = 0 THEN Unread ELSE Visit(scan[i - 1], ord[i])]

LEMMA ScansExists ==
    ASSUME NEW ord, NEW n \in Nat
    PROVE  \E scan : Scans(ord, n, scan)
  <1> DEFINE S == {i \in 0 .. n : \E scan : Scans(ord, i, scan)}
  <1>1. 0 \in S
    <2> DEFINE scan == [i \in 0 .. 0 |-> Unread]
    <2>1. Scans(ord, 0, scan)
      BY DEF Scans
    <2> QED
      BY <2>1
  <1>2. ASSUME NEW i \in 0 .. n - 1, i \in S PROVE i + 1 \in S
    <2>1. PICK scan : Scans(ord, i, scan)
      BY <1>2
    <2> DEFINE next == [k \in 0 .. i + 1 |->
                           IF k = i + 1 THEN Visit(scan[i], ord[i + 1]) ELSE scan[k]]
    <2>2. next = [k \in 0 .. i + 1 |-> IF k = 0 THEN Unread ELSE Visit(next[k - 1], ord[k])]
      <3> SUFFICES ASSUME NEW k \in 0 .. i + 1
                   PROVE  next[k] = IF k = 0 THEN Unread ELSE Visit(next[k - 1], ord[k])
        OBVIOUS
      <3>1. CASE k = i + 1
        BY <3>1
      <3>2. CASE k # i + 1
        <4>1. k \in 0 .. i /\ next[k] = scan[k]
          BY <3>2
        <4>2. scan[k] = IF k = 0 THEN Unread ELSE Visit(scan[k - 1], ord[k])
          BY <2>1, <4>1 DEF Scans
        <4>3. k # 0 => next[k - 1] = scan[k - 1]
          BY <4>1
        <4> QED
          BY <4>1, <4>2, <4>3
      <3> QED
        BY <3>1, <3>2
    <2>3. Scans(ord, i + 1, next)
      BY <2>2 DEF Scans
    <2> QED
      BY <2>3
  <1> HIDE DEF S
  <1>3. 0 .. n \subseteq S
    BY <1>1, <1>2, UpTo
  <1>4. n \in S
    BY <1>3
  <1> QED
    BY <1>4 DEF S

LEMMA CountsScans ==
    ASSUME NEW resource, Len(InOrder(resource)) \in Nat
    PROVE  \E scan : /\ Scans(InOrder(resource), Len(InOrder(resource)), scan)
                     /\ Counts(resource) = scan[Len(InOrder(resource))].counts
  <1> DEFINE ord == InOrder(resource)
             scan == CHOOSE f : Scans(ord, Len(ord), f)
  <1>1. Counts(resource) = scan[Len(ord)].counts
    BY DEF Counts, Scans, Unread
  <1>2. Scans(ord, Len(ord), scan)
    BY ScansExists
  <1> QED
    BY <1>1, <1>2

(* The access the loop is at carries a message when the last write among    *)
(* those it has gone through is another agent's, not declared.              *)
WroteLast(ord, j, i) == ord[j].op = "write" /\ \A k \in j + 1 .. i : ord[k].op # "write"

CarriesTo(a, ord, i, channel) ==
    /\ a.op = "read"
    /\ \E j \in 1 .. i :
          /\ WroteLast(ord, j, i)
          /\ ord[j].agent # a.agent
          /\ {ord[j].agent, a.agent} \notin declared
          /\ channel = <<a.resource, {ord[j].agent, a.agent}>>

LEMMA MessageIs ==
    ASSUME Kept, NEW resource, NEW i \in 0 .. Len(InOrder(resource)) - 1, NEW channel
    PROVE  LET ord == InOrder(resource)
               a == ord[i + 1]
           IN a \in Carried(channel) <=> CarriesTo(a, ord, i, channel)
  <1> DEFINE ord == InOrder(resource)
             n == Len(ord)
             a == ord[i + 1]
  <1>1. /\ n \in Nat /\ i + 1 \in 1 .. n /\ i \in Nat
        /\ \A j \in 1 .. n : ord[j] \in Listed(resource)
        /\ \A j, k \in 1 .. n : j < k => ord[j].seq < ord[k].seq
        /\ \A b \in Listed(resource) : \E j \in 1 .. n : ord[j] = b
    BY InOrderLists
  <1> HIDE DEF ord, n
  <1>2. /\ \A j \in 1 .. n : ord[j] \in accesses /\ ord[j].resource = resource /\ ord[j].seq \in Nat
        /\ \A b \in accesses : b.resource = resource => \E j \in 1 .. n : ord[j] = b
    <2>1. \A b \in accesses : b.seq \in Nat
      BY EvidenceAssumption DEF Kept, TypeOK, Access
    <2> QED
      BY <1>1, <2>1 DEF Listed
  <1>3. \A j, k \in 1 .. n : ord[j].seq < ord[k].seq => j < k
    <2> SUFFICES ASSUME NEW j \in 1 .. n, NEW k \in 1 .. n, ord[j].seq < ord[k].seq, ~(j < k)
                 PROVE  FALSE
      OBVIOUS
    <2>1. j = k \/ k < j
      BY <1>1
    <2>2. ord[j].seq = ord[k].seq \/ ord[k].seq < ord[j].seq
      BY <1>1, <2>1
    <2>3. ord[j].seq \in Nat /\ ord[k].seq \in Nat
      BY <1>2
    <2> QED
      BY <2>2, <2>3
  <1>4. ASSUME NEW w \in accesses, Exchange(accesses, w, a, declared),
               channel = <<a.resource, {w.agent, a.agent}>>
        PROVE  \E j \in 1 .. i :
                       /\ WroteLast(ord, j, i)
                       /\ ord[j].agent # a.agent
                       /\ {ord[j].agent, a.agent} \notin declared
                       /\ channel = <<resource, {ord[j].agent, a.agent}>>
    <2>1. /\ w.op = "write" /\ w.resource = resource /\ w.seq < a.seq /\ a.resource = resource
          /\ ~\E v \in accesses :
                v.op = "write" /\ v.resource = resource /\ w.seq < v.seq /\ v.seq < a.seq
          /\ w.agent # a.agent /\ {w.agent, a.agent} \notin declared
      BY <1>1, <1>2, <1>4 DEF Exchange, LastWrite
    <2>2. PICK j \in 1 .. n : ord[j] = w
      BY <1>2, <2>1
    <2>3. j \in 1 .. i
      <3>1. j < i + 1
        BY <1>1, <1>3, <2>1, <2>2
      <3> QED
        BY <1>1, <3>1
    <2>4. ASSUME NEW k \in j + 1 .. i PROVE ord[k].op # "write"
      <3>1. k \in 1 .. n /\ j < k /\ k < i + 1
        BY <1>1, <2>3
      <3>2. ord[j].seq < ord[k].seq /\ ord[k].seq < a.seq
        BY <1>1, <3>1
      <3>3. ord[k] \in accesses /\ ord[k].resource = resource
        BY <1>2, <3>1
      <3> QED
        BY <2>1, <2>2, <3>2, <3>3
    <2> QED
      BY <1>4, <2>1, <2>2, <2>3, <2>4 DEF WroteLast
  <1>5. ASSUME a.op = "read", NEW j \in 1 .. i, WroteLast(ord, j, i), ord[j].agent # a.agent,
               {ord[j].agent, a.agent} \notin declared
        PROVE  Exchange(accesses, ord[j], a, declared)
    <2>1. /\ j \in 1 .. n /\ j < i + 1 /\ ord[j] \in accesses /\ a \in accesses
          /\ ord[j].resource = resource /\ a.resource = resource
      BY <1>1, <1>2
    <2>2. ord[j].seq < a.seq
      BY <1>1, <2>1
    <2>3. ASSUME NEW v \in accesses, v.op = "write", v.resource = resource,
                 ord[j].seq < v.seq, v.seq < a.seq
          PROVE  FALSE
      <3>1. PICK k \in 1 .. n : ord[k] = v
        BY <1>2, <2>3
      <3>2. j < k /\ k < i + 1
        BY <1>1, <1>3, <2>1, <2>3, <3>1
      <3>3. k \in j + 1 .. i
        BY <1>1, <3>2
      <3> QED
        BY <1>5, <2>3, <3>1, <3>3 DEF WroteLast
    <2>4. LastWrite(accesses, ord[j], a)
      BY <1>5, <2>1, <2>2, <2>3 DEF LastWrite, WroteLast
    <2> QED
      BY <1>5, <2>4 DEF Exchange
  <1>6. a \in accesses /\ a.resource = resource
    BY <1>1, <1>2
  <1>7. a \in Carried(channel) <=>
            \E w \in accesses : /\ Exchange(accesses, w, a, declared)
                                /\ channel = <<a.resource, {w.agent, a.agent}>>
    BY <1>6 DEF Carried
  <1>8. \A j \in 1 .. i : ord[j] \in accesses
    BY <1>1, <1>2
  <1>9. \A w : Exchange(accesses, w, a, declared) => a.op = "read"
    BY DEF Exchange
  <1> HIDE DEF a
  <1>10. a \in Carried(channel) <=>
                 /\ a.op = "read"
                 /\ \E j \in 1 .. i :
                       /\ WroteLast(ord, j, i)
                       /\ ord[j].agent # a.agent
                       /\ {ord[j].agent, a.agent} \notin declared
                       /\ channel = <<resource, {ord[j].agent, a.agent}>>
    BY <1>4, <1>5, <1>6, <1>7, <1>8, <1>9
  <1> QED
    BY <1>6, <1>10 DEF CarriesTo, a, ord

(* What the loop has delivered after i accesses, and what it then keeps.    *)
Delivered(ord, i, channel) == Carried(channel) \cap {ord[j] : j \in 1 .. i}

ScanRight(scan, ord, i) ==
    /\ scan = [last |-> scan.last, counts |-> scan.counts]
    /\ \/ scan.last = NoWriter /\ \A j \in 1 .. i : ord[j].op # "write"
       \/ \E j \in 1 .. i : WroteLast(ord, j, i) /\ scan.last = ord[j].agent
    /\ \A channel : /\ channel \in DOMAIN scan.counts <=> Delivered(ord, i, channel) # {}
                    /\ Count(scan.counts, channel) = Cardinality(Delivered(ord, i, channel))

LEMMA UnreadRight == ASSUME NEW ord PROVE ScanRight(Unread, ord, 0)
  <1>1. \A channel : Delivered(ord, 0, channel) = {}
    BY DEF Delivered
  <1>2. Cardinality({}) = 0
    BY FS_EmptySet
  <1>3. DOMAIN << >> = {}
    OBVIOUS
  <1>4. \A channel : Count(<< >>, channel) = 0
    BY <1>3 DEF Count
  <1>5. Unread.counts = << >> /\ Unread.last = NoWriter
    BY DEF Unread
  <1>6. Unread = [last |-> Unread.last, counts |-> Unread.counts]
    BY DEF Unread
  <1>7. \A j \in 1 .. 0 : ord[j].op # "write"
    OBVIOUS
  <1> QED
    BY <1>1, <1>2, <1>3, <1>4, <1>5, <1>6, <1>7 DEF ScanRight

LEMMA IncrementIs ==
    ASSUME NEW counts, NEW key
    PROVE  /\ DOMAIN Increment(counts, key) = DOMAIN counts \cup {key}
           /\ \A k : k # key => Count(Increment(counts, key), k) = Count(counts, k) + 0
           /\ Count(Increment(counts, key), key) = Count(counts, key) + 1
  <1>1. DOMAIN Increment(counts, key) = DOMAIN counts \cup {key}
    BY DEF Increment
  <1>2. \A k \in DOMAIN counts \cup {key} :
            Increment(counts, key)[k] = Count(counts, k) + (IF k = key THEN 1 ELSE 0)
    BY DEF Increment
  <1>3. Count(Increment(counts, key), key) = Count(counts, key) + 1
    BY <1>1, <1>2 DEF Count
  <1>4. ASSUME NEW k, k # key PROVE Count(Increment(counts, key), k) = Count(counts, k) + 0
    <2>1. CASE k \in DOMAIN counts
      BY <1>1, <1>2, <1>4, <2>1 DEF Count
    <2>2. CASE k \notin DOMAIN counts
      <3>1. Count(Increment(counts, key), k) = 0 /\ Count(counts, k) = 0
        BY <1>1, <1>4, <2>2 DEF Count
      <3> QED
        BY <3>1
    <2> QED
      BY <2>1, <2>2
  <1> QED
    BY <1>1, <1>3, <1>4

LEMMA VisitRight ==
    ASSUME Kept, NEW resource, NEW i \in 0 .. Len(InOrder(resource)) - 1,
           NEW scan, ScanRight(scan, InOrder(resource), i)
    PROVE  ScanRight(Visit(scan, InOrder(resource)[i + 1]), InOrder(resource), i + 1)
  <1> DEFINE ord == InOrder(resource)
             n == Len(ord)
             a == ord[i + 1]
             next == Visit(scan, a)
             key == <<a.resource, {scan.last, a.agent}>>
  <1>1. /\ n \in Nat /\ i + 1 \in 1 .. n /\ i \in Nat
        /\ \A j \in 1 .. n : ord[j] \in Listed(resource)
        /\ \A j, k \in 1 .. n : j < k => ord[j].seq < ord[k].seq
    BY InOrderLists
  <1>2. \A channel : a \in Carried(channel) <=> CarriesTo(a, ord, i, channel)
    BY MessageIs
  <1>3. ScanRight(scan, ord, i)
    OBVIOUS
  <1> HIDE DEF ord, n
  <1>4. /\ \A j \in 1 .. n : ord[j] \in accesses /\ ord[j].agent \in Agent
        /\ a.resource = resource /\ a.op \in {"read", "write"}
        /\ a \notin {ord[j] : j \in 1 .. i}
    <2>1. \A j \in 1 .. n : /\ ord[j] \in accesses /\ ord[j].agent \in Agent /\ ord[j].seq \in Nat
                            /\ ord[j].resource = resource /\ ord[j].op \in {"read", "write"}
      BY <1>1, EvidenceAssumption DEF Kept, TypeOK, Access, Listed
    <2>2. ASSUME NEW j \in 1 .. i, ord[j] = a PROVE FALSE
      <3>1. ord[j].seq < a.seq /\ j \in 1 .. n
        BY <1>1
      <3> QED
        BY <2>1, <2>2, <3>1
    <2> QED
      BY <1>1, <2>1, <2>2
  <1>5. IsFiniteSet(accesses)
    BY DEF Kept
  <1>6. \A channel : /\ IsFiniteSet(Delivered(ord, i, channel))
                     /\ a \notin Delivered(ord, i, channel)
                     /\ Delivered(ord, i + 1, channel) =
                            Delivered(ord, i, channel)
                                \cup (IF a \in Carried(channel) THEN {a} ELSE {})
    <2> SUFFICES ASSUME NEW channel
                 PROVE /\ IsFiniteSet(Delivered(ord, i, channel))
                       /\ a \notin Delivered(ord, i, channel)
                       /\ Delivered(ord, i + 1, channel) =
                            Delivered(ord, i, channel)
                                \cup (IF a \in Carried(channel) THEN {a} ELSE {})
      OBVIOUS
    <2>1. Delivered(ord, i, channel) \subseteq accesses
      BY DEF Delivered, Carried
    <2>2. {ord[j] : j \in 1 .. i + 1} = {ord[j] : j \in 1 .. i} \cup {a}
      <3>1. 1 .. i + 1 = (1 .. i) \cup {i + 1}
        BY <1>1
      <3> QED
        BY <3>1
    <2>3. IsFiniteSet(Delivered(ord, i, channel))
      BY <1>5, <2>1, FS_Subset
    <2> HIDE DEF a
    <2> QED
      BY <1>4, <2>2, <2>3 DEF Delivered
  <1>7. \A j \in 1 .. i : j \in 1 .. n /\ ord[j].agent \in Agent /\ ord[j].agent # NoWriter
    BY <1>1, <1>4, EvidenceAssumption
  <1>8. \A j, k \in 1 .. i : WroteLast(ord, j, i) /\ WroteLast(ord, k, i) => j = k
    <2> SUFFICES ASSUME NEW j \in 1 .. i, NEW k \in 1 .. i, WroteLast(ord, j, i), WroteLast(ord, k, i),
                        j < k \/ k < j
                 PROVE  FALSE
      BY <1>1
    <2>1. j \in k + 1 .. i \/ k \in j + 1 .. i
      BY <1>1
    <2> QED
      BY <2>1 DEF WroteLast
  (* The message of this access, if there is one, is the one the loop counts. *)
  <1> DEFINE Counted == /\ a.op = "read" /\ scan.last # NoWriter /\ scan.last # a.agent
                        /\ {scan.last, a.agent} \notin declared
  <1>9. \A channel : a \in Carried(channel) <=> Counted /\ channel = key
    <2>1. CASE scan.last = NoWriter /\ \A j \in 1 .. i : ord[j].op # "write"
      <3>1. \A j \in 1 .. i : ~WroteLast(ord, j, i)
        BY <2>1 DEF WroteLast
      <3> QED
        BY <1>2, <2>1, <3>1 DEF CarriesTo
    <2>2. CASE \E j \in 1 .. i : WroteLast(ord, j, i) /\ scan.last = ord[j].agent
      <3>1. PICK j \in 1 .. i : WroteLast(ord, j, i) /\ scan.last = ord[j].agent
        BY <2>2
      <3>2. scan.last # NoWriter
        BY <1>7, <3>1
      <3>3. \A k \in 1 .. i : WroteLast(ord, k, i) <=> k = j
        BY <1>8, <3>1
      <3> HIDE DEF a
      <3>4. \A channel : a \in Carried(channel) <=>
                 /\ a.op = "read" /\ ord[j].agent # a.agent
                 /\ {ord[j].agent, a.agent} \notin declared
                 /\ channel = <<resource, {ord[j].agent, a.agent}>>
        BY <1>2, <1>4, <3>3 DEF CarriesTo
      <3> QED
        BY <1>4, <3>1, <3>2, <3>4
    <2> QED
      BY <1>3, <2>1, <2>2 DEF ScanRight
  <1>10. /\ scan = [last |-> scan.last, counts |-> scan.counts]
         /\ \A channel : /\ channel \in DOMAIN scan.counts <=> Delivered(ord, i, channel) # {}
                         /\ Count(scan.counts, channel) = Cardinality(Delivered(ord, i, channel))
    BY <1>3 DEF ScanRight
  <1>11. next.last = IF a.op = "write" THEN a.agent ELSE scan.last
    BY <1>10 DEF Visit
  <1>12. next.counts = IF Counted THEN Increment(scan.counts, key) ELSE scan.counts
    BY <1>4, <1>10 DEF Visit
  <1>13. next = [last |-> next.last, counts |-> next.counts]
    BY <1>10 DEF Visit
  <1> HIDE DEF next, Counted, key
  <1>14. \/ next.last = NoWriter /\ \A j \in 1 .. i + 1 : ord[j].op # "write"
         \/ \E j \in 1 .. i + 1 : WroteLast(ord, j, i + 1) /\ next.last = ord[j].agent
    <2>1. CASE a.op = "write"
      <3>1. WroteLast(ord, i + 1, i + 1)
        BY <1>1, <2>1 DEF WroteLast
      <3> QED
        BY <1>1, <1>11, <2>1, <3>1
    <2>2. CASE a.op # "write"
      <3>1. \A j \in 1 .. i : WroteLast(ord, j, i) => WroteLast(ord, j, i + 1)
        BY <1>1, <2>2 DEF WroteLast
      <3>2. (\A j \in 1 .. i : ord[j].op # "write") => \A j \in 1 .. i + 1 : ord[j].op # "write"
        BY <1>1, <2>2
      <3> QED
        BY <1>1, <1>3, <1>11, <2>2, <3>1, <3>2 DEF ScanRight
    <2> QED
      BY <2>1, <2>2
  <1>15. ASSUME NEW channel
         PROVE  /\ channel \in DOMAIN next.counts <=> Delivered(ord, i + 1, channel) # {}
                /\ Count(next.counts, channel) = Cardinality(Delivered(ord, i + 1, channel))
    <2> HIDE DEF a
    <2>1. CASE Counted /\ channel = key
      <3>1. Delivered(ord, i + 1, channel) = Delivered(ord, i, channel) \cup {a}
        BY <1>6, <1>9, <2>1
      <3>2. Cardinality(Delivered(ord, i + 1, channel)) = Cardinality(Delivered(ord, i, channel)) + 1
        BY <1>6, <3>1, FS_AddElement
      <3>3. next.counts = Increment(scan.counts, channel)
        BY <1>12, <2>1
      <3>4. channel \in DOMAIN next.counts /\ Count(next.counts, channel) = Count(scan.counts, channel) + 1
        <4>1. /\ channel \in DOMAIN Increment(scan.counts, channel)
              /\ Count(Increment(scan.counts, channel), channel) = Count(scan.counts, channel) + 1
          BY IncrementIs
        <4> QED
          BY <3>3, <4>1
      <3> QED
        BY <1>10, <3>1, <3>2, <3>4
    <2>2. CASE ~(Counted /\ channel = key)
      <3>1. Delivered(ord, i + 1, channel) = Delivered(ord, i, channel)
        BY <1>6, <1>9, <2>2
      <3>2. /\ channel \in DOMAIN next.counts <=> channel \in DOMAIN scan.counts
            /\ Count(next.counts, channel) = Count(scan.counts, channel)
        <4>1. CASE ~Counted
          BY <1>12, <4>1
        <4>2. CASE Counted /\ channel # key
          <5>1. next.counts = Increment(scan.counts, key)
            BY <1>12, <4>2
          <5>2. Count(next.counts, channel) = Count(scan.counts, channel) + 0
            <6>1. Count(Increment(scan.counts, key), channel) = Count(scan.counts, channel) + 0
              BY <4>2, IncrementIs
            <6> QED
              BY <5>1, <6>1
          <5>3. Count(scan.counts, channel) \in Nat
            BY <1>6, <1>10, FS_CardinalityType
          <5>4. Count(next.counts, channel) = Count(scan.counts, channel)
            BY <5>2, <5>3
          <5>5. DOMAIN Increment(scan.counts, key) = DOMAIN scan.counts \cup {key}
            BY IncrementIs
          <5> QED
            BY <4>2, <5>1, <5>4, <5>5
        <4> QED
          BY <2>2, <4>1, <4>2
      <3> QED
        BY <1>10, <3>1, <3>2
    <2> QED
      BY <2>1, <2>2
  <1> QED
    BY <1>13, <1>14, <1>15 DEF ScanRight, next, a, ord

(* At the end of the loop every read of the resource has been gone through. *)
OfResource(resource, channel) == {a \in Carried(channel) : a.resource = resource}

LEMMA CountsRight ==
    ASSUME Kept, NEW resource, NEW channel
    PROVE  /\ channel \in DOMAIN Counts(resource) <=> OfResource(resource, channel) # {}
           /\ Count(Counts(resource), channel) = Cardinality(OfResource(resource, channel))
  <1> DEFINE ord == InOrder(resource)
             n == Len(ord)
  <1>1. /\ n \in Nat
        /\ \A i \in 1 .. n : ord[i] \in Listed(resource)
        /\ \A a \in Listed(resource) : \E i \in 1 .. n : ord[i] = a
    BY InOrderLists
  <1>2. PICK scan : Scans(ord, n, scan) /\ Counts(resource) = scan[n].counts
    BY <1>1, CountsScans
  <1>3. ASSUME NEW i \in 0 .. n - 1, NEW s, ScanRight(s, ord, i)
        PROVE  ScanRight(Visit(s, ord[i + 1]), ord, i + 1)
    BY <1>3, VisitRight
  <1> HIDE DEF ord, n
  <1> DEFINE S == {i \in 0 .. n : ScanRight(scan[i], ord, i)}
  <1>4. \A i \in 0 .. n : scan[i] = IF i = 0 THEN Unread ELSE Visit(scan[i - 1], ord[i])
    BY <1>2 DEF Scans
  <1>5. 0 \in S
    BY <1>1, <1>4, UnreadRight
  <1>6. ASSUME NEW i \in 0 .. n - 1, i \in S PROVE i + 1 \in S
    <2>1. i + 1 \in 0 .. n /\ i + 1 # 0 /\ i + 1 - 1 = i
      BY <1>1
    <2>2. scan[i + 1] = IF i + 1 = 0 THEN Unread ELSE Visit(scan[i + 1 - 1], ord[i + 1])
      BY <1>4, <2>1
    <2>3. scan[i + 1] = Visit(scan[i], ord[i + 1])
      BY <2>1, <2>2
    <2>4. ScanRight(Visit(scan[i], ord[i + 1]), ord, i + 1)
      BY <1>3, <1>6
    <2> QED
      BY <2>1, <2>3, <2>4
  <1>7. 0 .. n \subseteq S
    <2> HIDE DEF S
    <2> QED
      BY <1>1, <1>5, <1>6, UpTo
  <1>8. ScanRight(scan[n], ord, n)
    BY <1>1, <1>7
  <1>9. Delivered(ord, n, channel) = OfResource(resource, channel)
    <2>1. Carried(channel) \subseteq accesses
      BY DEF Carried
    <2>2. \A a \in Carried(channel) : a.resource = resource <=> \E i \in 1 .. n : ord[i] = a
      BY <1>1, <2>1 DEF Listed
    <2> QED
      BY <2>2 DEF Delivered, OfResource
  <1> QED
    BY <1>2, <1>8, <1>9 DEF ScanRight

LEMMA ScanExact == Kept => ScanIsExact
  <1> SUFFICES ASSUME Kept PROVE ScanIsExact
    OBVIOUS
  <1> DEFINE D == UNION {DOMAIN Counts(r) : r \in Resource}
  <1>1. \A channel : \A a \in Carried(channel) : a \in accesses /\ a.resource \in Resource /\ channel[1] = a.resource
    BY DEF Carried, Kept, TypeOK, Access
  <1>2. \A channel : channel \in D <=> Carried(channel) # {}
    <2>1. \A channel : channel \in D <=> \E r \in Resource : OfResource(r, channel) # {}
      BY CountsRight
    <2> QED
      BY <1>1, <2>1 DEF OfResource
  <1>3. \A channel : channel \in EmergentChannels(accesses, declared) <=> Carried(channel) # {}
    <2> SUFFICES ASSUME NEW channel
                 PROVE  channel \in EmergentChannels(accesses, declared) <=> Carried(channel) # {}
      OBVIOUS
    <2>1. channel \in EmergentChannels(accesses, declared) <=>
            \E p \in accesses \X accesses :
                /\ Exchange(accesses, p[1], p[2], declared)
                /\ channel = <<p[2].resource, {p[1].agent, p[2].agent}>>
      BY DEF EmergentChannels
    <2>2. Carried(channel) # {} <=>
            \E r \in accesses : \E w \in accesses :
                Exchange(accesses, w, r, declared) /\ channel = <<r.resource, {w.agent, r.agent}>>
      BY DEF Carried
    <2>3. ASSUME NEW w \in accesses, NEW r \in accesses,
                 Exchange(accesses, w, r, declared), channel = <<r.resource, {w.agent, r.agent}>>
          PROVE  \E p \in accesses \X accesses :
                    /\ Exchange(accesses, p[1], p[2], declared)
                    /\ channel = <<p[2].resource, {p[1].agent, p[2].agent}>>
      <3> DEFINE p == <<w, r>>
      <3>1. p \in accesses \X accesses /\ p[1] = w /\ p[2] = r
        OBVIOUS
      <3> HIDE DEF p
      <3> QED
        BY <2>3, <3>1
    <2> QED
      BY <2>1, <2>2, <2>3
  <1>4. D = EmergentChannels(accesses, declared)
    BY <1>2, <1>3
  <1>5. ASSUME NEW channel \in D PROVE Count(Counts(channel[1]), channel) = Cardinality(Carried(channel))
    <2>1. OfResource(channel[1], channel) = Carried(channel)
      BY <1>1 DEF OfResource
    <2> QED
      BY <2>1, CountsRight
  <1>6. Messages = [channel \in D |-> Count(Counts(channel[1]), channel)]
    BY DEF Messages
  <1>7. Messages = [channel \in D |-> Cardinality(Carried(channel))]
    BY <1>5, <1>6
  <1> QED
    BY <1>4, <1>7 DEF ScanIsExact

(* However the accesses are listed, the loop over each resource reports a   *)
(* pair exactly when one of them read there what the other had written      *)
(* last without a declared relationship, and counts those reads.            *)
THEOREM ScanCountsMessages == Spec => []ScanIsExact
  BY EvidenceKept, ScanExact, PTL

(* Later evidence adds messages and a declaration silences its pair alone.  *)
LEMMA AlarmStands ==
    ASSUME Kept, Kept', ScanIsExact, ScanIsExact', [Next]_vars, NEW m \in DOMAIN Messages
    PROVE  /\ Later /\ declared' = declared => Messages[m] <= Count(Messages', m)
           /\ accesses' = accesses => m[2] \in declared' \/ Messages[m] = Count(Messages', m)
  <1> DEFINE Heard(all, pairs) ==
                 {r \in all : \E w \in all :
                     Exchange(all, w, r, pairs) /\ m = <<r.resource, {w.agent, r.agent}>>}
             now == Heard(accesses, declared)
             then == Heard(accesses', declared')
  <1>1. now \subseteq accesses /\ IsFiniteSet(now) /\ then \subseteq accesses' /\ IsFiniteSet(then)
    BY FS_Subset DEF Kept
  <1>2. Messages[m] = Cardinality(now)
    BY DEF ScanIsExact, Carried
  <1>3. then # {} <=> m \in EmergentChannels(accesses', declared')
    <2>1. m \in EmergentChannels(accesses', declared') <=>
            \E p \in accesses' \X accesses' :
                /\ Exchange(accesses', p[1], p[2], declared')
                /\ m = <<p[2].resource, {p[1].agent, p[2].agent}>>
      BY DEF EmergentChannels
    <2>2. ASSUME NEW w \in accesses', NEW r \in accesses',
                 Exchange(accesses', w, r, declared'), m = <<r.resource, {w.agent, r.agent}>>
          PROVE  \E p \in accesses' \X accesses' :
                    /\ Exchange(accesses', p[1], p[2], declared')
                    /\ m = <<p[2].resource, {p[1].agent, p[2].agent}>>
      <3> DEFINE p == <<w, r>>
      <3>1. p \in accesses' \X accesses' /\ p[1] = w /\ p[2] = r
        OBVIOUS
      <3> HIDE DEF p
      <3> QED
        BY <2>2, <3>1
    <2> QED
      BY <2>1, <2>2
  <1>4. Count(Messages', m) = Cardinality(then)
    <2>1. Messages' = [channel \in EmergentChannels(accesses', declared') |-> Cardinality(Carried(channel)')]
      BY DEF ScanIsExact
    <2>2. Carried(m)' = then
      BY DEF Carried
    <2>3. CASE m \in EmergentChannels(accesses', declared')
      BY <2>1, <2>2, <2>3 DEF Count
    <2>4. CASE m \notin EmergentChannels(accesses', declared')
      BY <1>3, <2>1, <2>4, FS_EmptySet DEF Count
    <2> QED
      BY <2>3, <2>4
  <1>5. accesses \subseteq accesses' /\ declared \subseteq declared'
    BY DEF Next, vars, RecordAccess, Declare, Delegate, Answer
  <1>6. ASSUME Later, declared' = declared PROVE now \subseteq then
    <2>1. /\ \A a \in accesses' : a.seq \in Int
          /\ \A a \in accesses' \ accesses, b \in accesses : b.seq < a.seq
      BY <1>6, EvidenceAssumption DEF Later, Kept, TypeOK, Access
    <2>2. \A w, r \in accesses :
              Exchange(accesses, w, r, declared) => Exchange(accesses', w, r, declared)
      BY <1>5, <2>1, ChannelsStay
    <2> QED
      BY <1>5, <1>6, <2>2
  <1>7. ASSUME accesses' = accesses, m[2] \notin declared' PROVE now = then
    <2>1. ASSUME NEW w, NEW r, m = <<r.resource, {w.agent, r.agent}>>
          PROVE  Exchange(accesses, w, r, declared) <=> Exchange(accesses, w, r, declared')
      BY <1>5, <1>7, <2>1 DEF Exchange
    <2> QED
      BY <1>7, <2>1
  <1> HIDE DEF now, then
  <1> QED
    BY <1>1, <1>2, <1>4, <1>6, <1>7, FS_Subset

(* More evidence withdraws no alarm: accesses that happened later only add  *)
(* messages, and declaring a relationship silences that pair alone.         *)
THEOREM AlarmsAreKept == Spec => AlarmsStand
  <1>1. Kept /\ Kept' /\ ScanIsExact /\ ScanIsExact' /\ [Next]_vars =>
            [LET after == Messages' IN
             \A m \in DOMAIN Messages :
                /\ Later /\ declared' = declared => Messages[m] <= Count(after, m)
                /\ accesses' = accesses => m[2] \in declared' \/ Messages[m] = Count(after, m)]_vars
    BY AlarmStands
  <1> QED
    BY <1>1, EvidenceKept, ScanExact, PTL DEF Spec, AlarmsStand
===============================================================================
