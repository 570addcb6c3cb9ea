--------------------- MODULE HistoryAndDashboardProofs ---------------------
(***************************************************************************)
(* Theorems about the two parts that explain an event to its reader.       *)
(*                                                                         *)
(* ProcessHistory, for any pids, periods, limits and durations: each       *)
(* process is charged with its own transfers, an event's evidence is the   *)
(* highest ranked processes of its time, and a full table keeps the newest.*)
(*                                                                         *)
(* Dashboard, for any requests, slots, presets and windows: no query slot  *)
(* is lost or handed out twice, and the tab shows what is chosen whenever  *)
(* its badge says "healthy".                                               *)
(***************************************************************************)
EXTENDS ProcessHistory, Dashboard, FiniteSetTheorems, TLAPS

----------------------------------------------------------------------------
(* Ranks: the number of elements that come before one in a total order. *)

\* before[a] is what comes before a.
Total(S, before) ==
    /\ before \in [S -> SUBSET S]
    /\ \A a \in S : a \notin before[a]
    /\ \A a, b \in S : a \in before[b] => before[a] \subseteq before[b]
    /\ \A a, b \in S : a # b => a \in before[b] \/ b \in before[a]

LEMMA BelowType ==
    ASSUME NEW S, IsFiniteSet(S), NEW before, NEW a \in S, Total(S, before)
    PROVE  /\ IsFiniteSet(before[a]) /\ Cardinality(before[a]) \in Nat
           /\ Cardinality(before[a]) < Cardinality(S) /\ Cardinality(S) \in Nat
<1>1. before[a] \in SUBSET S /\ a \notin before[a]
  BY DEF Total
<1>2. IsFiniteSet(before[a]) /\ Cardinality(before[a]) <= Cardinality(S)
      /\ Cardinality(S) # Cardinality(before[a])
  BY <1>1, FS_Subset
<1> QED BY <1>2, FS_CardinalityType

LEMMA BelowMonotone ==
    ASSUME NEW S, IsFiniteSet(S), NEW before, Total(S, before),
           NEW a \in S, NEW b \in S, a \in before[b]
    PROVE  Cardinality(before[a]) < Cardinality(before[b])
<1>1. before[a] \in SUBSET before[b]
  BY DEF Total
<1>2. a \in before[b] /\ a \notin before[a]
  BY DEF Total
<1>3. /\ IsFiniteSet(before[b]) /\ Cardinality(before[b]) \in Nat
      /\ Cardinality(before[a]) \in Nat
  BY BelowType
<1>4. Cardinality(before[a]) <= Cardinality(before[b])
      /\ Cardinality(before[a]) # Cardinality(before[b])
  BY <1>1, <1>2, <1>3, FS_Subset
<1> QED BY <1>3, <1>4

LEMMA BelowInjective ==
    ASSUME NEW S, IsFiniteSet(S), NEW before, Total(S, before), NEW a \in S, NEW b \in S,
           Cardinality(before[a]) = Cardinality(before[b])
    PROVE  a = b
<1> SUFFICES ASSUME a # b PROVE FALSE
  OBVIOUS
<1>1. Cardinality(before[a]) \in Nat /\ Cardinality(before[b]) \in Nat
  BY BelowType
<1>2. a \in before[b] \/ b \in before[a]
  BY DEF Total
<1> QED BY <1>1, <1>2, BelowMonotone

\* At most n elements have a rank below n.
LEMMA FewBelow ==
    ASSUME NEW S, IsFiniteSet(S), NEW before, Total(S, before), NEW n \in Nat
    PROVE  /\ IsFiniteSet({s \in S : Cardinality(before[s]) < n})
           /\ Cardinality({s \in S : Cardinality(before[s]) < n}) <= n
<1> DEFINE F == {s \in S : Cardinality(before[s]) < n}
           f == [s \in F |-> Cardinality(before[s])]
<1>1. f \in Injection(F, 0 .. n - 1)
  <2>1. \A s \in F : f[s] \in 0 .. n - 1
    BY BelowType
  <2>2. \A s, t \in F : f[s] = f[t] => s = t
    BY BelowInjective
  <2>3. f \in [F -> 0 .. n - 1]
    BY <2>1
  <2> HIDE DEF f, F
  <2>4. DOMAIN f = F
    BY <2>3
  <2> QED BY <2>2, <2>3, <2>4 DEF Injection, IsInjective
<1>2. IsFiniteSet(0 .. n - 1) /\ Cardinality(0 .. n - 1) = n
  BY FS_Interval
<1> HIDE DEF f, F
<1>3. IsFiniteSet(F) /\ Cardinality(F) <= n
  BY <1>1, <1>2, FS_Injection
<1> QED BY <1>3 DEF F

\* And every rank is taken.
LEMMA EveryRank ==
    ASSUME NEW S, IsFiniteSet(S), NEW before, Total(S, before)
    PROVE  \A n \in 1 .. Cardinality(S) : \E s \in S : 1 + Cardinality(before[s]) = n
<1> DEFINE N == Cardinality(S)
           f == [s \in S |-> 1 + Cardinality(before[s])]
<1>0. N \in Nat
  BY FS_CardinalityType
<1>1. f \in Injection(S, 1 .. N)
  <2>1. \A s \in S : Cardinality(before[s]) \in Nat /\ f[s] \in 1 .. N
    BY BelowType
  <2>2. \A s, t \in S : f[s] = f[t] => s = t
    <3> SUFFICES ASSUME NEW s \in S, NEW t \in S, f[s] = f[t] PROVE s = t
      OBVIOUS
    <3>1. Cardinality(before[s]) = Cardinality(before[t])
      BY <2>1
    <3> QED BY <3>1, BelowInjective
  <2>3. f \in [S -> 1 .. N]
    BY <2>1
  <2> HIDE DEF f, N
  <2>4. DOMAIN f = S
    BY <2>3
  <2> QED BY <2>2, <2>3, <2>4 DEF Injection, IsInjective
<1>2. IsFiniteSet(1 .. N) /\ Cardinality(1 .. N) = N
  BY <1>0, FS_Interval
<1> HIDE DEF f
<1>3. f \in Surjection(S, 1 .. N)
  BY <1>1, <1>2, FS_Injection
<1>4. \A n \in 1 .. N : \E s \in S : f[s] = n
  BY <1>3 DEF Surjection
<1> QED BY <1>4 DEF f

\* A set whose elements are told apart by a number in 1 .. n.
LEMMA FewNumbered ==
    ASSUME NEW S, NEW n \in Nat, NEW f \in [S -> 1 .. n],
           \A s, t \in S : f[s] = f[t] => s = t
    PROVE  IsFiniteSet(S) /\ Cardinality(S) <= n
<1>1. f \in Injection(S, 1 .. n)
  <2>1. DOMAIN f = S
    OBVIOUS
  <2> QED BY <2>1 DEF Injection, IsInjective
<1>2. IsFiniteSet(1 .. n) /\ Cardinality(1 .. n) = n
  BY FS_Interval
<1> QED BY <1>1, <1>2, FS_Injection

\* What is taken from a finite set by a function is finite, and no larger.
LEMMA FiniteImage ==
    ASSUME NEW S, IsFiniteSet(S), NEW T, NEW f \in [S -> T], \A t \in T : \E s \in S : f[s] = t
    PROVE  IsFiniteSet(T) /\ Cardinality(T) <= Cardinality(S)
<1>1. f \in Surjection(S, T)
  BY DEF Surjection
<1> QED BY <1>1, FS_Surjection

----------------------------------------------------------------------------
(* The rankings of a collection. *)

\* The processes that rank_by puts before p.
ByValue(value) ==
    [p \in DOMAIN value |->
        {q \in DOMAIN value : value[q] > value[p] \/ (value[q] = value[p] /\ q < p)}]

\* Each process has a rank of its own, and every rank up to their number is taken.
LEMMA RankByType ==
    ASSUME NEW D \in SUBSET Pids, NEW value \in [D -> Nat]
    PROVE  /\ \A p \in D : RankBy(value, p) \in Nat \ {0}
           /\ \A p, q \in D : RankBy(value, p) = RankBy(value, q) => p = q
           /\ \A n \in 1 .. Cardinality(D) : \E p \in D : RankBy(value, p) = n
<1> DEFINE before == ByValue(value)
<1>1. IsFiniteSet(D) /\ D \subseteq Nat /\ DOMAIN value = D
  BY CollectorAssumption, FS_Subset
<1>2. before = [p \in D |-> {q \in D : value[q] > value[p] \/ (value[q] = value[p] /\ q < p)}]
  BY <1>1 DEF ByValue
<1> HIDE DEF before
<1>3. Total(D, before)
  <2>1. \A p \in D : p \in Nat /\ value[p] \in Nat
    BY <1>1
  <2>2. \A a, b \in D : a \in before[b] <=> value[a] > value[b] \/ (value[a] = value[b] /\ a < b)
    BY <1>2
  <2>3. before \in [D -> SUBSET D]
    BY <1>2
  <2>4. \A a, b \in D : a \in before[b] => before[a] \subseteq before[b]
    <3> SUFFICES ASSUME NEW a \in D, NEW b \in D, a \in before[b], NEW c \in before[a]
                 PROVE  c \in before[b]
      OBVIOUS
    <3>1. c \in D
      BY <2>3
    <3> QED BY <2>1, <2>2, <3>1
  <2>5. \A a \in D : a \notin before[a]
    BY <2>1, <2>2
  <2>6. \A a, b \in D : a # b => a \in before[b] \/ b \in before[a]
    BY <2>1, <2>2
  <2> QED BY <2>3, <2>4, <2>5, <2>6 DEF Total
<1>4. \A p \in D : RankBy(value, p) = 1 + Cardinality(before[p])
  BY <1>1, <1>2 DEF RankBy
<1>5. \A p \in D : Cardinality(before[p]) \in Nat
  BY <1>1, <1>3, BelowType
<1>6. \A p, q \in D : RankBy(value, p) = RankBy(value, q) => p = q
  <2> SUFFICES ASSUME NEW p \in D, NEW q \in D, RankBy(value, p) = RankBy(value, q)
               PROVE  p = q
    OBVIOUS
  <2>1. Cardinality(before[p]) = Cardinality(before[q])
    BY <1>4, <1>5
  <2> QED BY <1>1, <1>3, <2>1, BelowInjective
<1>7. \A n \in 1 .. Cardinality(D) : \E p \in D : RankBy(value, p) = n
  <2>1. \A n \in 1 .. Cardinality(D) : \E p \in D : 1 + Cardinality(before[p]) = n
    <3>1. IsFiniteSet(D)
      BY <1>1
    <3> HIDE DEF before
    <3> QED BY <1>3, <3>1, EveryRank
  <2> QED BY <1>4, <2>1
<1> QED BY <1>4, <1>5, <1>6, <1>7

LEMMA RankType ==
    ASSUME NEW D \in SUBSET Pids, NEW value \in [D -> Nat], NEW limit \in Nat
    PROVE  /\ \A p \in Pids : Rank(value, p, limit) \in 0 .. limit
           /\ \A p, q \in Pids :
                 Rank(value, p, limit) = Rank(value, q, limit) /\ Rank(value, p, limit) # 0 => p = q
           /\ \A n \in 1 .. limit : n <= Cardinality(D) => \E p \in D : Rank(value, p, limit) = n
<1>1. /\ \A p \in D : RankBy(value, p) \in Nat \ {0}
      /\ \A p, q \in D : RankBy(value, p) = RankBy(value, q) => p = q
      /\ \A n \in 1 .. Cardinality(D) : \E p \in D : RankBy(value, p) = n
  BY RankByType
<1>2. \A p \in Pids : Rank(value, p, limit) =
          IF p \in D /\ RankBy(value, p) <= limit THEN RankBy(value, p) ELSE 0
  BY DEF Rank
<1>3. \A p \in Pids : Rank(value, p, limit) \in 0 .. limit
  BY <1>1, <1>2
<1>4. \A p, q \in Pids :
          Rank(value, p, limit) = Rank(value, q, limit) /\ Rank(value, p, limit) # 0 => p = q
  BY <1>1, <1>2
<1>5. ASSUME NEW n \in 1 .. limit, n <= Cardinality(D)
      PROVE  \E p \in D : Rank(value, p, limit) = n
  <2>1. Cardinality(D) \in Nat
    BY CollectorAssumption, FS_Subset, FS_CardinalityType
  <2>2. PICK p \in D : RankBy(value, p) = n
    BY <1>1, <1>5, <2>1
  <2> QED BY <1>2, <2>2
<1> QED BY <1>3, <1>4, <1>5

LEMMA OneRankEach ==
    ASSUME NEW D \in SUBSET Pids, NEW value \in [D -> Nat], NEW limit \in Nat,
           NEW p \in Pids, NEW q \in Pids,
           Rank(value, p, limit) = Rank(value, q, limit), Rank(value, p, limit) # 0
    PROVE  p = q
BY RankType

\* Two samples are of the same process, or share a rank.
SamePlace(r, s) ==
    \/ r.pid = s.pid
    \/ r.cpu = s.cpu /\ s.cpu # 0
    \/ r.network = s.network /\ s.network # 0

\* What a collection ranks: each process at most once, each rank at most once, and every rank
\* by the CPU that there are processes for.
LEMMA RankedType ==
    ASSUME NEW t \in Times, NEW cpu \in [Pids -> Nat], candidates \in [Pids -> 0 .. MaxStarts],
           NEW D \in SUBSET Pids, NEW network \in [D -> Nat]
    PROVE  /\ IsFiniteSet(Ranked(t, cpu, network))
           /\ \A s \in Ranked(t, cpu, network) :
                 /\ s \in [time : Times, pid : Pids, start : 0 .. MaxStarts,
                           cpu : 0 .. TopCpu, network : 0 .. TopNetwork]
                 /\ s.time = t
                 /\ s.cpu # 0 \/ s.network # 0
           /\ \A r, s \in Ranked(t, cpu, network) :
                 SamePlace(r, s) => r = s
           /\ \A n \in 1 .. TopCpu : n <= Cardinality(Pids) =>
                 \E s \in Ranked(t, cpu, network) : s.cpu = n
<1> DEFINE S(p) == Sample(t, p, cpu, network)
           U == Ranked(t, cpu, network)
<1>1. /\ \A p \in Pids : Rank(cpu, p, TopCpu) \in 0 .. TopCpu
      /\ \A p, q \in Pids :
            Rank(cpu, p, TopCpu) = Rank(cpu, q, TopCpu) /\ Rank(cpu, p, TopCpu) # 0 => p = q
      /\ \A n \in 1 .. TopCpu : n <= Cardinality(Pids) => \E p \in Pids : Rank(cpu, p, TopCpu) = n
  BY CollectorAssumption, RankType
<1>2. /\ \A p \in Pids : Rank(network, p, TopNetwork) \in 0 .. TopNetwork
      /\ \A p, q \in Pids :
            (/\ Rank(network, p, TopNetwork) = Rank(network, q, TopNetwork)
             /\ Rank(network, p, TopNetwork) # 0) => p = q
  <2>1. TopNetwork \in Nat
    BY CollectorAssumption
  <2>2. \A p \in Pids : Rank(network, p, TopNetwork) \in 0 .. TopNetwork
    BY <2>1, RankType
  <2>3. ASSUME NEW p \in Pids, NEW q \in Pids,
               Rank(network, p, TopNetwork) = Rank(network, q, TopNetwork),
               Rank(network, p, TopNetwork) # 0
        PROVE  p = q
    BY <2>1, <2>3, OneRankEach
  <2> QED BY <2>2, <2>3
<1>3. \A p \in Pids :
          /\ S(p) \in [time : Times, pid : Pids, start : 0 .. MaxStarts,
                       cpu : 0 .. TopCpu, network : 0 .. TopNetwork]
          /\ S(p).time = t /\ S(p).pid = p
          /\ S(p).cpu = Rank(cpu, p, TopCpu) /\ S(p).network = Rank(network, p, TopNetwork)
  BY <1>1, <1>2 DEF Sample
<1>4. U = {s \in {S(p) : p \in Pids} : s.cpu # 0 \/ s.network # 0}
  BY DEF Ranked
<1> HIDE DEF S, U
<1>5. \A s \in U : \E p \in Pids : s = S(p)
  BY <1>4
<1>6. IsFiniteSet(U)
  <2> DEFINE T == {S(p) : p \in Pids}
             f == [p \in Pids |-> S(p)]
  <2>1. f \in [Pids -> T] /\ \A x \in T : \E p \in Pids : f[p] = x
    OBVIOUS
  <2> HIDE DEF f
  <2>2. IsFiniteSet(T)
    BY <2>1, CollectorAssumption, FiniteImage
  <2> QED BY <1>4, <2>2, FS_Subset
<1>7. \A s \in U : /\ s \in [time : Times, pid : Pids, start : 0 .. MaxStarts,
                             cpu : 0 .. TopCpu, network : 0 .. TopNetwork]
                   /\ s.time = t
                   /\ s.cpu # 0 \/ s.network # 0
  BY <1>3, <1>4
<1>8. \A r, s \in U : SamePlace(r, s) => r = s
  <2> SUFFICES ASSUME NEW r \in U, NEW s \in U, SamePlace(r, s)
               PROVE  r = s
    OBVIOUS
  <2>1. PICK p \in Pids : r = S(p)
    BY <1>5
  <2>2. PICK q \in Pids : s = S(q)
    BY <1>5
  <2>3. p = q
    BY <1>1, <1>2, <1>3, <2>1, <2>2 DEF SamePlace
  <2> QED BY <2>1, <2>2, <2>3
<1>9. ASSUME NEW n \in 1 .. TopCpu, n <= Cardinality(Pids)
      PROVE  \E s \in U : s.cpu = n
  <2>1. PICK p \in Pids : Rank(cpu, p, TopCpu) = n
    BY <1>1, <1>9
  <2>2. S(p) \in U /\ S(p).cpu = n
    BY <1>3, <1>4, <2>1
  <2> QED BY <2>2
<1> QED BY <1>6, <1>7, <1>8, <1>9 DEF U

\* What a snapshot is, for any table that holds it.
SampleType == [time : Times, pid : Pids, start : 0 .. MaxStarts,
               cpu : 0 .. TopCpu, network : 0 .. TopNetwork]

InTopN(s, n) == s.cpu \in 1 .. n \/ s.network \in 1 .. n

\* What comes before a sample where the union of the rankings is cut: a total order.
LEMMA CutIsTotal ==
    ASSUME NEW U, U \subseteq SampleType, \A r, s \in U : SamePlace(r, s) => r = s,
           \A r \in U : r.cpu # 0 \/ r.network # 0
    PROVE  /\ Total(U, [s \in U |-> {r \in U : Before(r, s)}])
           /\ \A r \in U : /\ r.cpu \in Nat /\ r.network \in Nat /\ r.pid \in Nat
                           /\ BestRank(r) \in Nat \ {0}
                           /\ BestRank(r) = r.cpu \/ BestRank(r) = r.network
<1> DEFINE before == [s \in U |-> {r \in U : Before(r, s)}]
<1>1. TopCpu \in Nat /\ TopNetwork \in Nat /\ Pids \subseteq Nat
  BY CollectorAssumption
<1>2. ASSUME NEW r \in U
      PROVE  r.cpu \in Nat /\ r.network \in Nat /\ r.pid \in Nat
  <2>1. r.cpu \in 0 .. TopCpu /\ r.network \in 0 .. TopNetwork /\ r.pid \in Pids
    BY DEF SampleType
  <2>2. r.cpu \in Nat
    BY <1>1, <2>1
  <2>3. r.network \in Nat
    BY <1>1, <2>1
  <2>4. r.pid \in Nat
    BY <1>1, <2>1
  <2> QED BY <2>2, <2>3, <2>4
<1>3. ASSUME NEW r \in U
      PROVE  BestRank(r) \in Nat \ {0} /\ (BestRank(r) = r.cpu \/ BestRank(r) = r.network)
  BY <1>2 DEF BestRank
<1>4. \A r, s \in U : r.pid = s.pid => r = s
  BY DEF SamePlace
<1>5. \A s \in U : before[s] = {r \in U : Before(r, s)}
  OBVIOUS
<1>6. before \in [U -> SUBSET U]
  OBVIOUS
<1> HIDE DEF before
<1>7. \A a \in U : a \notin before[a]
  BY <1>2, <1>3, <1>5 DEF Before
<1>8. ASSUME NEW a \in U, NEW b \in U, a \in before[b]
      PROVE  before[a] \subseteq before[b]
  <2> SUFFICES ASSUME NEW c \in U, Before(c, a) PROVE Before(c, b)
    BY <1>5
  <2>1. Before(a, b)
    BY <1>5, <1>8
  <2> QED BY <1>2, <1>3, <2>1 DEF Before
<1>9. ASSUME NEW a \in U, NEW b \in U, a # b
      PROVE  a \in before[b] \/ b \in before[a]
  <2>1. a.pid # b.pid
    BY <1>4, <1>9
  <2> QED BY <1>2, <1>3, <1>5, <2>1 DEF Before
<1>10. Total(U, before)
  BY <1>6, <1>7, <1>8, <1>9 DEF Total
<1> QED BY <1>2, <1>3, <1>10 DEF before

\* The cut leaves something of every union that is not empty.
LEMMA CutLeavesTheFirst ==
    ASSUME NEW U, IsFiniteSet(U), U # {}, U \subseteq SampleType,
           \A r, s \in U : SamePlace(r, s) => r = s,
           \A r \in U : r.cpu # 0 \/ r.network # 0
    PROVE  \E s \in U : Cardinality({r \in U : Before(r, s)}) < MaxSnapshot
<1> DEFINE before == [s \in U |-> {r \in U : Before(r, s)}]
<1>1. Total(U, before)
  BY CutIsTotal
<1>2. Cardinality(U) \in Nat /\ Cardinality(U) # 0
  BY FS_CardinalityType, FS_EmptySet
<1>3. \A s \in U : before[s] = {r \in U : Before(r, s)}
  OBVIOUS
<1> HIDE DEF before
<1>4. 1 \in 1 .. Cardinality(U)
  BY <1>2
<1>5. PICK s \in U : 1 + Cardinality(before[s]) = 1
  BY <1>1, <1>4, EveryRank
<1>6. Cardinality(before[s]) \in Nat
  BY <1>1, BelowType
<1>7. Cardinality(before[s]) = 0 /\ MaxSnapshot \in Nat \ {0}
  BY <1>5, <1>6, CollectorAssumption
<1>8. Cardinality(before[s]) < MaxSnapshot
  BY <1>7
<1> QED BY <1>3, <1>8

\* The cut of the snapshot spares every rank that Spared promises.
LEMMA CutSparesTopN ==
    ASSUME NEW U, IsFiniteSet(U), U \subseteq SampleType,
           \A r, s \in U : SamePlace(r, s) => r = s,
           \A r \in U : r.cpu # 0 \/ r.network # 0,
           NEW n \in Nat, Spared(n), NEW s \in U, InTopN(s, n)
    PROVE  Cardinality({r \in U : Before(r, s)}) < MaxSnapshot
<1> DEFINE C == {r \in U : r.cpu \in 1 .. n}
           N == {r \in U : r.network \in 1 .. n}
           B == {r \in U : Before(r, s)}
<1>0. MaxSnapshot \in Nat
  BY CollectorAssumption
<1>1. IsFiniteSet(C) /\ Cardinality(C) <= n /\ Cardinality(C) \in Nat
  <2> DEFINE f == [r \in C |-> r.cpu]
  <2>1. f \in [C -> 1 .. n] /\ \A r, t \in C : f[r] = f[t] => r = t
    BY DEF SamePlace
  <2> HIDE DEF f
  <2> QED BY <2>1, FewNumbered, FS_CardinalityType
<1>2. IsFiniteSet(N) /\ Cardinality(N) <= n /\ Cardinality(N) \in Nat
  <2> DEFINE f == [r \in N |-> r.network]
  <2>1. f \in [N -> 1 .. n] /\ \A r, t \in N : f[r] = f[t] => r = t
    BY DEF SamePlace
  <2> HIDE DEF f
  <2> QED BY <2>1, FewNumbered, FS_CardinalityType
<1>3. \A r \in U : /\ r.cpu \in Nat /\ r.network \in Nat /\ r.pid \in Nat
                   /\ BestRank(r) \in Nat \ {0}
                   /\ BestRank(r) = r.cpu \/ BestRank(r) = r.network
  BY CutIsTotal
<1>4. BestRank(s) <= n /\ BestRank(s) \in Nat
  BY <1>3 DEF BestRank, InTopN
<1>5. s \in C \cup N /\ s \notin B
  BY <1>3, <1>4 DEF InTopN, Before
<1>6. B \subseteq (C \cup N) \ {s}
  <2> SUFFICES ASSUME NEW r \in B PROVE r \in C \cup N
    BY <1>5
  <2>1. r \in U /\ Before(r, s)
    OBVIOUS
  <2>2. BestRank(r) \in Nat \ {0} /\ (BestRank(r) = r.cpu \/ BestRank(r) = r.network)
    BY <1>3, <2>1
  <2>3. BestRank(r) <= n
    BY <1>4, <2>1, <2>2 DEF Before
  <2>4. r.cpu \in 1 .. n \/ r.network \in 1 .. n
    BY <2>2, <2>3
  <2> QED BY <2>1, <2>4
<1>7. n + n <= MaxSnapshot
  <2>1. Cardinality(Dimensions) = 2
    <3>1. Dimensions = {"cpu"} \cup {"network"} /\ "network" \notin {"cpu"}
      BY DEF Dimensions
    <3>2. IsFiniteSet({"cpu"}) /\ Cardinality({"cpu"}) = 1
      BY FS_Singleton
    <3>3. Cardinality({"cpu"} \cup {"network"}) = Cardinality({"cpu"}) + 1
      BY <3>1, <3>2, FS_AddElement
    <3> QED BY <3>1, <3>2, <3>3
  <2> QED BY <1>0, <2>1 DEF Spared
<1> HIDE DEF C, N, B
<1>8. IsFiniteSet(C \cup N) /\ Cardinality(C \cup N) <= n + n
  <2>1. IsFiniteSet(C \cup N)
        /\ Cardinality(C \cup N) = Cardinality(C) + Cardinality(N) - Cardinality(C \cap N)
    BY <1>1, <1>2, FS_Union
  <2>2. Cardinality(C \cap N) \in Nat
    BY <1>1, FS_Subset, FS_CardinalityType
  <2> QED BY <1>1, <1>2, <2>1, <2>2
<1>9. IsFiniteSet((C \cup N) \ {s})
      /\ Cardinality((C \cup N) \ {s}) = Cardinality(C \cup N) - 1
  BY <1>5, <1>8, FS_RemoveElement
<1>10. IsFiniteSet(B) /\ Cardinality(B) <= Cardinality((C \cup N) \ {s}) /\ Cardinality(B) \in Nat
       /\ Cardinality(C \cup N) \in Nat
  BY <1>6, <1>8, <1>9, FS_Subset, FS_CardinalityType
<1>11. Cardinality(B) < MaxSnapshot
  BY <1>0, <1>7, <1>8, <1>9, <1>10
<1> QED BY <1>11 DEF B

\* What the storage relies on in a set of samples that were taken at t.
SnapshotAt(new, t) ==
    /\ IsFiniteSet(new) /\ new \subseteq SampleType
    /\ \A s \in new : s.time = t
    /\ \A r, s \in new : SamePlace(r, s) => r = s
    /\ \A n \in 1 .. EventTopN :
          Spared(n) /\ n <= Cardinality(Pids) => \E s \in new : s.cpu = n

LEMMA SnapshotIsComplete ==
    ASSUME NEW t \in Times, NEW cpu \in [Pids -> Nat], candidates \in [Pids -> 0 .. MaxStarts],
           NEW D \in SUBSET Pids, NEW network \in [D -> Nat]
    PROVE  /\ SnapshotAt(RankCandidates(t, cpu, network), t)
           /\ RankCandidates(t, cpu, network) # {}
<1> DEFINE U == Ranked(t, cpu, network)
           new == RankCandidates(t, cpu, network)
<1>1. /\ IsFiniteSet(U) /\ U \subseteq SampleType
      /\ \A s \in U : s.time = t /\ (s.cpu # 0 \/ s.network # 0)
      /\ \A r, s \in U : SamePlace(r, s) => r = s
      /\ \A n \in 1 .. TopCpu : n <= Cardinality(Pids) => \E s \in U : s.cpu = n
  BY RankedType DEF SampleType
<1>2. new = {s \in U : Cardinality({r \in U : Before(r, s)}) < MaxSnapshot}
  BY DEF RankCandidates
<1> HIDE DEF U, new
<1>3. new \in SUBSET U /\ IsFiniteSet(new)
  BY <1>1, <1>2, FS_Subset
<1>4. ASSUME NEW n \in 1 .. EventTopN, Spared(n), n <= Cardinality(Pids)
      PROVE  \E s \in new : s.cpu = n
  <2>1. n \in 1 .. TopCpu /\ n \in Nat
    BY CollectorAssumption, EvidenceAssumption, HistoryAssumption
  <2>2. PICK s \in U : s.cpu = n
    BY <1>1, <1>4, <2>1
  <2>3. InTopN(s, n)
    BY <2>1, <2>2 DEF InTopN
  <2>4. Cardinality({r \in U : Before(r, s)}) < MaxSnapshot
    BY <1>1, <1>4, <2>1, <2>3, CutSparesTopN
  <2> QED BY <1>2, <2>2, <2>4
<1>5. SnapshotAt(new, t)
  BY <1>1, <1>3, <1>4 DEF SnapshotAt
<1>6. U # {}
  <2>1. Cardinality(Pids) \in Nat /\ Cardinality(Pids) # 0
    BY CollectorAssumption, FS_CardinalityType, FS_EmptySet
  <2>2. 1 \in 1 .. TopCpu /\ 1 <= Cardinality(Pids)
    BY <2>1, CollectorAssumption
  <2> QED BY <1>1, <2>2
<1>7. new # {}
  <2>1. \E s \in U : Cardinality({r \in U : Before(r, s)}) < MaxSnapshot
    BY <1>1, <1>6, CutLeavesTheFirst
  <2> QED BY <1>2, <2>1
<1> QED BY <1>5, <1>7 DEF new

\* The next tick lies beyond the cycle that it is aligned by.
LEMMA NextTick ==
    ASSUME NEW t \in Nat
    PROVE  (t \div Period + 1) * Period \in Nat /\ t < (t \div Period + 1) * Period
<1>1. Period \in Nat \ {0}
  BY CollectorAssumption
<1> DEFINE q == t \div Period
           m == t % Period
<1>2. q \in Nat /\ m \in 0 .. Period - 1 /\ t = Period * q + m
  BY <1>1
<1>3. (q + 1) * Period = Period * q + Period
  BY <1>1, <1>2
<1>4. Period * q \in Nat
  BY <1>1, <1>2
<1> QED BY <1>1, <1>2, <1>3, <1>4

----------------------------------------------------------------------------
(* Copying samples to the evidence. *)

\* A table of samples that a process, or a rank, has one of at a time.
Table(rows) ==
    /\ IsFiniteSet(rows) /\ rows \subseteq SampleType
    /\ \A r, s \in rows : r.time = s.time /\ SamePlace(r, s) => r = s

LEMMA SubTable ==
    ASSUME NEW rows, Table(rows), NEW part, part \subseteq rows
    PROVE  Table(part)
<1>1. IsFiniteSet(part)
  BY FS_Subset DEF Table
<1> QED BY <1>1 DEF Table

LEMMA SampleFields ==
    ASSUME NEW s \in SampleType
    PROVE  /\ s.time \in Nat /\ s.pid \in Nat
           /\ s.cpu \in Nat /\ s.network \in Nat
           /\ \A d \in Dimensions : s[d] \in Nat
<1>1. TopCpu \in Nat /\ TopNetwork \in Nat /\ MaxTime + MaxDuration \in Nat
  BY CollectorAssumption
<1>2. /\ s.time \in 0 .. MaxTime + MaxDuration
      /\ s.cpu \in 0 .. TopCpu /\ s.network \in 0 .. TopNetwork
      /\ s.pid \in Pids
  BY DEF SampleType, Times
<1>3. s.time \in Nat
  BY <1>1, <1>2
<1>4. s.cpu \in Nat
  BY <1>1, <1>2
<1>5. s.network \in Nat
  BY <1>1, <1>2
<1>6. s.pid \in Nat
  BY <1>2, CollectorAssumption
<1>7. \A d \in Dimensions : s[d] \in Nat
  BY <1>4, <1>5 DEF Dimensions
<1> QED BY <1>3, <1>4, <1>5, <1>6, <1>7

\* Two samples of a time and of a rank in a dimension are one.
LEMMA OneOfARank ==
    ASSUME NEW rows, Table(rows), NEW d \in Dimensions, NEW r \in rows, NEW s \in rows,
           r.time = s.time, r[d] = s[d], s[d] # 0
    PROVE  r = s
<1>1. SamePlace(r, s)
  BY DEF SamePlace, Dimensions
<1> QED BY <1>1 DEF Table

ByRank(rows, d) ==
    [s \in rows |-> {r \in rows :
        \/ r.time > s.time
        \/ r.time = s.time /\ r[d] < s[d]
        \/ r.time = s.time /\ r[d] = s[d] /\ r.pid < s.pid}]

LEMMA ByRankIsTotal ==
    ASSUME NEW rows, Table(rows), NEW d \in Dimensions
    PROVE  Total(rows, ByRank(rows, d))
<1> DEFINE before == ByRank(rows, d)
<1>1. \A s \in rows : s.time \in Nat /\ s.pid \in Nat /\ s[d] \in Nat
  BY SampleFields DEF Table
<1>2. before \in [rows -> SUBSET rows]
  BY DEF ByRank
<1>3. \A r, s \in rows : r \in before[s] <=>
          \/ r.time > s.time
          \/ r.time = s.time /\ r[d] < s[d]
          \/ r.time = s.time /\ r[d] = s[d] /\ r.pid < s.pid
  BY DEF ByRank
<1> HIDE DEF before
<1>4. \A s \in rows : s \notin before[s]
  BY <1>1, <1>3
<1>5. ASSUME NEW a \in rows, NEW b \in rows, a \in before[b]
      PROVE  before[a] \subseteq before[b]
  <2> SUFFICES ASSUME NEW c \in before[a] PROVE c \in before[b]
    OBVIOUS
  <2>1. c \in rows
    BY <1>2
  <2>2. /\ a.time \in Nat /\ a.pid \in Nat /\ a[d] \in Nat
        /\ b.time \in Nat /\ b.pid \in Nat /\ b[d] \in Nat
        /\ c.time \in Nat /\ c.pid \in Nat /\ c[d] \in Nat
    BY <1>1, <2>1
  <2>3. \/ a.time > b.time
        \/ a.time = b.time /\ a[d] < b[d]
        \/ a.time = b.time /\ a[d] = b[d] /\ a.pid < b.pid
    BY <1>3, <1>5
  <2>4. \/ c.time > a.time
        \/ c.time = a.time /\ c[d] < a[d]
        \/ c.time = a.time /\ c[d] = a[d] /\ c.pid < a.pid
    BY <1>3, <2>1
  <2>5. \/ c.time > b.time
        \/ c.time = b.time /\ c[d] < b[d]
        \/ c.time = b.time /\ c[d] = b[d] /\ c.pid < b.pid
    BY <2>2, <2>3, <2>4
  <2> QED BY <1>3, <2>1, <2>5
<1>6. ASSUME NEW a \in rows, NEW b \in rows, a # b
      PROVE  a \in before[b] \/ b \in before[a]
  <2>1. a.time # b.time \/ a.pid # b.pid
    BY <1>6 DEF Table, SamePlace
  <2>2. /\ a.time \in Nat /\ a.pid \in Nat /\ a[d] \in Nat
        /\ b.time \in Nat /\ b.pid \in Nat /\ b[d] \in Nat
    BY <1>1
  <2> QED BY <1>3, <2>1, <2>2
<1>7. Total(rows, before)
  BY <1>2, <1>4, <1>5, <1>6 DEF Total
<1> QED BY <1>7 DEF before

\* A query with LIMIT n: at most n rows, and with one row also the newer ones.
LEMMA FirstType ==
    ASSUME NEW rows, Table(rows), NEW d \in Dimensions, NEW n \in Nat
    PROVE  /\ First(rows, d, n) \subseteq rows
           /\ IsFiniteSet(First(rows, d, n)) /\ Cardinality(First(rows, d, n)) <= n
           /\ Cardinality(First(rows, d, n)) \in Nat
           /\ \A s \in First(rows, d, n), r \in rows : s.time < r.time => r \in First(rows, d, n)
<1> DEFINE before == ByRank(rows, d)
           F == First(rows, d, n)
<1>1. Total(rows, before) /\ IsFiniteSet(rows)
  BY ByRankIsTotal DEF Table
<1>2. F = {s \in rows : Cardinality(before[s]) < n}
  BY DEF First, ByRank
<1>3. \A r, s \in rows : s.time < r.time => r \in before[s]
  <2> SUFFICES ASSUME NEW r \in rows, NEW s \in rows, s.time < r.time PROVE r \in before[s]
    OBVIOUS
  <2>1. r.time > s.time
    BY SampleFields DEF Table
  <2> QED BY <2>1 DEF ByRank
<1> HIDE DEF before, F
<1>4. IsFiniteSet(F) /\ Cardinality(F) <= n /\ Cardinality(F) \in Nat
  BY <1>1, <1>2, FewBelow, FS_CardinalityType
<1>5. ASSUME NEW s \in F, NEW r \in rows, s.time < r.time
      PROVE  r \in F
  <2>1. s \in rows /\ Cardinality(before[s]) < n /\ r \in before[s]
    BY <1>2, <1>3, <1>5
  <2>2. Cardinality(before[r]) < Cardinality(before[s])
    BY <1>1, <2>1, BelowMonotone
  <2>3. Cardinality(before[r]) \in Nat /\ Cardinality(before[s]) \in Nat
    BY <1>1, <2>1, BelowType
  <2> QED BY <1>2, <2>1, <2>2, <2>3
<1>6. F \subseteq rows
  BY <1>2
<1>7. /\ F \subseteq rows /\ IsFiniteSet(F) /\ Cardinality(F) <= n /\ Cardinality(F) \in Nat
      /\ \A s \in F, r \in rows : s.time < r.time => r \in F
  BY <1>4, <1>5, <1>6
<1> QED BY <1>7 DEF F

\* Of the rows of one snapshot, those up to rank EventTopN are among the first EventTopN.
LEMMA FirstOfASnapshot ==
    ASSUME NEW rows, Table(rows), NEW d \in Dimensions,
           \A r \in rows : RanksIn(d, r), \A r, s \in rows : r.time = s.time
    PROVE  First(rows, d, EventTopN) = rows
<1> DEFINE Ahead(s) == {r \in rows : \/ r.time > s.time
                                     \/ r.time = s.time /\ r[d] < s[d]
                                     \/ r.time = s.time /\ r[d] = s[d] /\ r.pid < s.pid}
<1>1. \A s \in rows : s.time \in Nat /\ s.pid \in Nat /\ s[d] \in Nat
  BY SampleFields DEF Table
<1>2. ASSUME NEW s \in rows
      PROVE  Cardinality(Ahead(s)) < EventTopN
  <2> DEFINE A == Ahead(s)
             f == [r \in A |-> r[d]]
  <2>0. EventTopN \in Nat /\ s[d] \in 1 .. EventTopN
    BY <1>1, EvidenceAssumption DEF RanksIn
  <2>1. \A r \in A : r \in rows /\ r[d] \in 1 .. s[d] - 1
    <3> SUFFICES ASSUME NEW r \in A PROVE r[d] \in 1 .. s[d] - 1
      OBVIOUS
    <3>1. r \in rows /\ r.time = s.time
      OBVIOUS
    <3>2. r[d] < s[d] \/ (r[d] = s[d] /\ r.pid < s.pid)
      BY <1>1, <3>1
    <3>3. CASE r[d] = s[d] /\ r.pid < s.pid
      <4>1. r = s
        BY <3>1, <3>3, <2>0, OneOfARank
      <4> QED BY <1>1, <3>3, <4>1
    <3>4. r[d] \in Nat /\ r[d] # 0
      BY <1>1, <3>1 DEF RanksIn
    <3> QED BY <1>1, <3>2, <3>3, <3>4
  <2> HIDE DEF A
  <2>2. f \in [A -> 1 .. s[d] - 1]
    BY <2>1
  <2>3. \A r, t \in A : f[r] = f[t] => r = t
    <3> SUFFICES ASSUME NEW r \in A, NEW t \in A, f[r] = f[t] PROVE r = t
      OBVIOUS
    <3>1. r[d] = t[d] /\ t[d] # 0 /\ r \in rows /\ t \in rows
      BY <2>0, <2>1
    <3> QED BY <3>1, OneOfARank
  <2> HIDE DEF f
  <2>4. IsFiniteSet(A) /\ Cardinality(A) <= s[d] - 1 /\ s[d] - 1 \in Nat
    BY <2>0, <2>2, <2>3, FewNumbered
  <2>5. Cardinality(A) \in Nat
    BY <2>4, FS_CardinalityType
  <2>6. Cardinality(A) < EventTopN
    BY <2>0, <2>4, <2>5
  <2> QED BY <2>6 DEF A
<1> QED BY <1>2 DEF First

\* INSERT OR IGNORE: nothing is lost, and no more is added than is copied.
LEMMA CopiedType ==
    ASSUME NEW rows, IsFiniteSet(rows), NEW kind, NEW new, IsFiniteSet(new)
    PROVE  /\ IsFiniteSet(Copied(rows, kind, new))
           /\ Cardinality(Copied(rows, kind, new)) <= Cardinality(rows) + Cardinality(new)
           /\ Cardinality(Copied(rows, kind, new)) \in Nat
           /\ rows \subseteq Copied(rows, kind, new)
           /\ \A r \in Copied(rows, kind, new) :
                 \/ r \in rows
                 \/ r.kind = kind /\ r.sample \in new /\ r = [kind |-> kind, sample |-> r.sample]
           /\ \A s \in new :
                 (\A r \in rows : <<r.sample.time, r.sample.pid, r.sample.start>>
                                  # <<s.time, s.pid, s.start>>)
                 => [kind |-> kind, sample |-> s] \in Copied(rows, kind, new)
<1> DEFINE fresh == {n \in new : \A r \in rows : <<r.sample.time, r.sample.pid, r.sample.start>>
                                                 # <<n.time, n.pid, n.start>>}
           added == {[kind |-> kind, sample |-> s] : s \in fresh}
<1>1. Copied(rows, kind, new) = rows \cup added
  BY DEF Copied
<1>2. IsFiniteSet(fresh) /\ Cardinality(fresh) <= Cardinality(new) /\ Cardinality(fresh) \in Nat
      /\ Cardinality(new) \in Nat
  BY FS_Subset, FS_CardinalityType
<1>3. \A s \in new :
          (\A r \in rows : <<r.sample.time, r.sample.pid, r.sample.start>>
                           # <<s.time, s.pid, s.start>>) => s \in fresh
  OBVIOUS
<1>4. fresh \subseteq new
  OBVIOUS
<1> HIDE DEF fresh
<1>5. IsFiniteSet(added) /\ Cardinality(added) <= Cardinality(fresh)
  <2> DEFINE f == [s \in fresh |-> [kind |-> kind, sample |-> s]]
  <2>1. f \in [fresh -> added] /\ \A r \in added : \E s \in fresh : f[s] = r
    OBVIOUS
  <2> HIDE DEF f, added
  <2> QED BY <1>2, <2>1, FiniteImage
<1>6. \A r \in added : r.kind = kind /\ r.sample \in new /\ r = [kind |-> kind, sample |-> r.sample]
  BY <1>4
<1>7. \A s \in fresh : [kind |-> kind, sample |-> s] \in added
  OBVIOUS
<1> HIDE DEF added
<1>8. IsFiniteSet(rows \cup added)
      /\ Cardinality(rows \cup added)
            = Cardinality(rows) + Cardinality(added) - Cardinality(rows \cap added)
  BY <1>5, FS_Union
<1>9. /\ Cardinality(rows \cap added) \in Nat
      /\ Cardinality(rows) \in Nat /\ Cardinality(added) \in Nat
      /\ Cardinality(rows \cup added) \in Nat
  BY <1>5, <1>8, FS_Subset, FS_CardinalityType
<1>10. Cardinality(rows \cup added) <= Cardinality(rows) + Cardinality(new)
  BY <1>2, <1>5, <1>8, <1>9
<1> QED BY <1>1, <1>3, <1>6, <1>7, <1>8, <1>9, <1>10

LEMMA RemainingType ==
    ASSUME NEW rows, IsFiniteSet(rows), Cardinality(rows) <= MaxRows
    PROVE  /\ Remaining(rows) \in Nat
           /\ Cardinality(rows) + Remaining(rows) <= MaxRows
BY FS_CardinalityType, EvidenceAssumption DEF Remaining

LEMMA WithSnapshotType ==
    ASSUME NEW table, Table(table), NEW rows, IsFiniteSet(rows), Cardinality(rows) <= MaxRows,
           NEW d \in Dimensions, NEW time, NEW kind
    PROVE  LET W == WithSnapshot(table, rows, d, time, kind)
           IN  /\ IsFiniteSet(W) /\ Cardinality(W) <= MaxRows /\ rows \subseteq W
               /\ \A r \in W : r \in rows \/ /\ r.kind = kind
                                             /\ r.sample \in table /\ r.sample.time = time
<1> DEFINE limit == IF Remaining(rows) < EventTopN THEN Remaining(rows) ELSE EventTopN
           ranked == {s \in table : s.time = time /\ RanksIn(d, s)}
           F == First(ranked, d, limit)
           W == Copied(rows, kind, F)
<1>1. limit \in Nat /\ limit <= Remaining(rows) /\ Remaining(rows) \in Nat
      /\ Cardinality(rows) + Remaining(rows) <= MaxRows
  BY RemainingType, EvidenceAssumption
<1>2. Table(ranked) /\ ranked \subseteq table /\ \A s \in ranked : s.time = time
  BY SubTable
<1>3. WithSnapshot(table, rows, d, time, kind) = W
  BY DEF WithSnapshot
<1> HIDE DEF limit, ranked
<1>4. F \subseteq ranked /\ IsFiniteSet(F) /\ Cardinality(F) <= limit /\ Cardinality(F) \in Nat
  BY <1>1, <1>2, FirstType
<1> HIDE DEF F
<1>5. /\ IsFiniteSet(W) /\ Cardinality(W) <= Cardinality(rows) + Cardinality(F) /\ rows \subseteq W
      /\ \A r \in W : r \in rows \/ (r.kind = kind /\ r.sample \in F)
      /\ Cardinality(W) \in Nat
  BY <1>4, CopiedType
<1>6. Cardinality(rows) \in Nat /\ MaxRows \in Nat
  BY FS_CardinalityType, EvidenceAssumption
<1>7. Cardinality(W) <= MaxRows
  BY <1>1, <1>4, <1>5, <1>6
<1>8. \A r \in W : r \in rows \/ (r.kind = kind /\ r.sample \in table /\ r.sample.time = time)
  BY <1>2, <1>4, <1>5
<1> HIDE DEF W
<1> QED BY <1>3, <1>5, <1>7, <1>8

\* The trigger's snapshot is copied whole, as far as it ranks.
LEMMA TriggerRows ==
    ASSUME NEW table, Table(table), NEW d \in Dimensions, NEW time, NEW s \in table,
           s.time = time, RanksIn(d, s)
    PROVE  [kind |-> "trigger", sample |-> s] \in WithSnapshot(table, {}, d, time, "trigger")
<1> DEFINE limit == IF Remaining({}) < EventTopN THEN Remaining({}) ELSE EventTopN
           ranked == {r \in table : r.time = time /\ RanksIn(d, r)}
<1>1. limit = EventTopN
  BY FS_EmptySet, EvidenceAssumption DEF Remaining
<1>2. WithSnapshot(table, {}, d, time, "trigger") = Copied({}, "trigger", First(ranked, d, limit))
  BY DEF WithSnapshot
<1>3. s \in ranked /\ Table(ranked)
  BY SubTable
<1>4. /\ \A r \in ranked : RanksIn(d, r)
      /\ \A r, t \in ranked : r.time = t.time
  OBVIOUS
<1> HIDE DEF limit, ranked
<1>5. First(ranked, d, EventTopN) = ranked
  BY <1>3, <1>4, FirstOfASnapshot
<1>6. IsFiniteSet({}) /\ IsFiniteSet(ranked)
  BY <1>3, FS_EmptySet DEF Table
<1>7. [kind |-> "trigger", sample |-> s] \in Copied({}, "trigger", ranked)
  BY <1>3, <1>6, CopiedType
<1> QED BY <1>1, <1>2, <1>5, <1>7

LEMMA WithPreludeType ==
    ASSUME NEW table, Table(table), NEW rows, IsFiniteSet(rows), Cardinality(rows) <= MaxRows,
           NEW d \in Dimensions, NEW detected \in Nat, NEW trigger \in Nat,
           \A r \in rows : r.kind # "prelude" /\ r.sample.time = trigger
    PROVE  LET W == WithPrelude(table, rows, d, detected, trigger)
           IN  /\ IsFiniteSet(W) /\ Cardinality(W) <= MaxRows /\ rows \subseteq W
               /\ \A r \in W : r \in rows \/ (r.kind = "prelude" /\ r.sample \in table)
               /\ \A r \in W : r.kind = "prelude" =>
                     \A s \in table :
                        r.sample.time < s.time /\ s.time < trigger /\ RanksIn(d, s) =>
                            [kind |-> "prelude", sample |-> s] \in W
<1> DEFINE ranked == {s \in table : /\ detected - Prelude <= s.time /\ s.time < trigger
                                    /\ RanksIn(d, s)}
           F == First(ranked, d, Remaining(rows))
           W == Copied(rows, "prelude", F)
<1>0. \A s \in table : s.time \in Nat
  BY SampleFields DEF Table
<1>1. Remaining(rows) \in Nat /\ Cardinality(rows) + Remaining(rows) <= MaxRows
  BY RemainingType
<1>2. Table(ranked) /\ ranked \subseteq table
  BY SubTable
<1>3. \A s \in table : s \in ranked <=>
          detected - Prelude <= s.time /\ s.time < trigger /\ RanksIn(d, s)
  OBVIOUS
<1>4. WithPrelude(table, rows, d, detected, trigger) = W
  BY DEF WithPrelude
<1> HIDE DEF ranked
<1>5. /\ F \subseteq ranked /\ IsFiniteSet(F) /\ Cardinality(F) <= Remaining(rows)
      /\ Cardinality(F) \in Nat
      /\ \A s \in F, r \in ranked : s.time < r.time => r \in F
  BY <1>1, <1>2, FirstType
<1> HIDE DEF F
<1>6. /\ IsFiniteSet(W) /\ Cardinality(W) <= Cardinality(rows) + Cardinality(F) /\ rows \subseteq W
      /\ Cardinality(W) \in Nat
      /\ \A r \in W : r \in rows \/ (r.kind = "prelude" /\ r.sample \in F)
      /\ \A s \in F :
            (\A r \in rows : <<r.sample.time, r.sample.pid, r.sample.start>>
                             # <<s.time, s.pid, s.start>>)
            => [kind |-> "prelude", sample |-> s] \in W
  BY <1>5, CopiedType
<1> HIDE DEF W
<1>7. Cardinality(W) <= MaxRows
  <2>1. Cardinality(rows) \in Nat /\ MaxRows \in Nat
    BY FS_CardinalityType, EvidenceAssumption
  <2> QED BY <1>1, <1>5, <1>6, <2>1
<1>8. ASSUME NEW r \in W, r.kind = "prelude", NEW s \in table,
             r.sample.time < s.time, s.time < trigger, RanksIn(d, s)
      PROVE  [kind |-> "prelude", sample |-> s] \in W
  <2>1. r.sample \in F /\ r.sample \in ranked /\ r.sample \in table
    BY <1>2, <1>5, <1>6, <1>8
  <2>2. detected - Prelude <= r.sample.time
    BY <1>3, <2>1
  <2>3. s \in ranked
    <3>1. r.sample.time \in Nat /\ s.time \in Nat /\ Prelude \in Nat
      BY <1>0, <2>1, EvidenceAssumption
    <3>2. detected - Prelude <= s.time
      BY <2>2, <3>1, <1>8
    <3> QED BY <1>3, <1>8, <3>2
  <2>4. s \in F
    BY <1>5, <1>8, <2>1, <2>3
  <2>5. \A q \in rows : <<q.sample.time, q.sample.pid, q.sample.start>>
                        # <<s.time, s.pid, s.start>>
    <3> SUFFICES ASSUME NEW q \in rows PROVE q.sample.time # s.time
      OBVIOUS
    <3> QED BY <1>0, <1>8
  <2> QED BY <1>6, <2>4, <2>5
<1>9. \A r \in W : r \in rows \/ (r.kind = "prelude" /\ r.sample \in table)
  BY <1>2, <1>5, <1>6
<1> QED BY <1>4, <1>6, <1>7, <1>8, <1>9

\* The newest time of a table, where there is one.
LEMMA LatestIs ==
    ASSUME NEW table, table \subseteq SampleType, NEW t \in Nat, NEW s \in Upto(table, t),
           \A r \in Upto(table, t) : r.time <= s.time
    PROVE  LatestSnapshot(table, t) = s.time
<1> DEFINE T == {r.time : r \in Upto(table, t)}
           Latest(time) == \A r \in Upto(table, t) : r.time <= time
<1>1. Upto(table, t) \subseteq table
  BY DEF Upto
<1>2. \A time \in T : time \in Nat
  BY <1>1, SampleFields
<1>3. s.time \in T /\ Latest(s.time)
  OBVIOUS
<1>4. \A time \in T : Latest(time) => time = s.time
  <2> SUFFICES ASSUME NEW time \in T, Latest(time) PROVE time = s.time
    OBVIOUS
  <2>1. PICK r \in Upto(table, t) : r.time = time
    OBVIOUS
  <2>2. time <= s.time /\ s.time <= time
    BY <2>1
  <2> QED BY <1>2, <1>3, <2>2
<1>5. LatestSnapshot(table, t) = CHOOSE time \in T : Latest(time)
  BY DEF LatestSnapshot
<1> HIDE DEF T, Latest
<1> QED BY <1>3, <1>4, <1>5

----------------------------------------------------------------------------
(* The storage: what a batch leaves of its invariant. *)

SampleInv ==
    /\ Table(samples)
    /\ \A s \in samples, n \in 1 .. EventTopN :
          Spared(n) /\ n <= Cardinality(Pids) =>
              \E r \in samples : r.time = s.time /\ r.cpu = n

EventType ==
    /\ event \in [dimension : Dimensions, detected : Times] \cup {NoEvent}
    /\ \A r \in evidence : r.kind \in {"trigger", "prelude", "checkpoint"} /\ r.sample \in samples

\* The trigger is a snapshot, if there is one so early; without it there is no prelude.
TriggerInv ==
    /\ event = NoEvent => evidence = {}
    /\ event # NoEvent /\ Upto(samples, event.detected) # {} =>
          \E s \in Upto(samples, event.detected) : s.time = Trigger
    /\ \A r \in evidence : r.kind = "prelude" => Upto(samples, event.detected) # {}

EvidenceInv ==
    /\ EventType
    /\ TriggerInv
    /\ IsFiniteSet(evidence)
    /\ NewestEvidenceIsKept
    /\ EventsAreExplained

\* What a batch of t brings: everything stored is older, and it is a snapshot, or nothing.
BatchOf(t, new) ==
    /\ t \in Times
    /\ new = {} \/ SnapshotAt(new, t)
    /\ \A s \in samples : s.time < t
    /\ event # NoEvent => event.detected < t
    /\ failed \subseteq failed' /\ slow \subseteq slow'

\* At t the newest snapshot is fresh, or a refresh has failed after it, or it took too long.
FreshOrFailed(table, t) ==
    table # {} => \E s \in table : /\ \A r \in table : r.time <= s.time
                                   /\ s.time <= t
                                   /\ \/ t - s.time <= FreshFor
                                      \/ s.time < t /\ t \in failed'
                                      \/ s.time \in slow'

LEMMA TimesAreNatural == Times \subseteq Nat
BY CollectorAssumption DEF Times

LEMMA SamplesKept ==
    ASSUME SampleInv, NEW t, NEW new, BatchOf(t, new), samples' = samples \cup new
    PROVE  SampleInv'
<1>1. /\ IsFiniteSet(new) /\ new \subseteq SampleType
      /\ \A s \in new : s.time = t
      /\ \A r, s \in new : SamePlace(r, s) => r = s
  BY FS_EmptySet DEF BatchOf, SnapshotAt
<1>2. Table(samples) /\ IsFiniteSet(samples) /\ samples \subseteq SampleType
  BY DEF SampleInv, Table
<1>3. \A s \in samples : s.time < t /\ s.time \in Nat
  BY <1>2, SampleFields DEF BatchOf
<1>4. Table(samples')
  <2>1. IsFiniteSet(samples')
    BY <1>1, <1>2, FS_Union
  <2>2. samples' \subseteq SampleType
    BY <1>1, <1>2
  <2>3. ASSUME NEW r \in samples', NEW s \in samples', r.time = s.time, SamePlace(r, s)
        PROVE  r = s
    <3>1. CASE r \in samples /\ s \in samples
      BY <1>2, <2>3, <3>1 DEF Table
    <3>2. CASE r \in new /\ s \in new
      BY <1>1, <2>3, <3>2
    <3>3. CASE (r \in samples /\ s \in new) \/ (r \in new /\ s \in samples)
      <4>1. t \in Nat
        BY TimesAreNatural DEF BatchOf
      <4> QED BY <1>1, <1>3, <2>3, <3>3, <4>1
    <3> QED BY <3>1, <3>2, <3>3
  <2> QED BY <2>1, <2>2, <2>3 DEF Table
<1>5. ASSUME NEW s \in samples', NEW n \in 1 .. EventTopN, Spared(n), n <= Cardinality(Pids)
      PROVE  \E r \in samples' : r.time = s.time /\ r.cpu = n
  <2>1. CASE s \in samples
    BY <1>5, <2>1 DEF SampleInv
  <2>2. CASE s \in new
    <3>1. SnapshotAt(new, t)
      BY <2>2 DEF BatchOf
    <3>2. PICK r \in new : r.cpu = n
      BY <1>5, <3>1 DEF SnapshotAt
    <3> QED BY <1>1, <2>2, <3>2
  <2> QED BY <2>1, <2>2
<1>6. (Table(samples))'
  BY <1>4 DEF Table, SampleType, SamePlace, Times
<1>7. (\A s \in samples, n \in 1 .. EventTopN :
          Spared(n) /\ n <= Cardinality(Pids) =>
              \E r \in samples : r.time = s.time /\ r.cpu = n)'
  BY <1>5 DEF Spared, Dimensions
<1> QED BY <1>6, <1>7 DEF SampleInv

\* Later samples change nothing about an event.
LEMMA TriggerStays ==
    ASSUME NEW table, table \subseteq SampleType, NEW new, NEW t \in Nat, NEW detected \in Int,
           detected < t, \A s \in new : s.time = t
    PROVE  /\ Upto(table \cup new, detected) = Upto(table, detected)
           /\ LatestSnapshot(table \cup new, detected) = LatestSnapshot(table, detected)
<1>1. Upto(table \cup new, detected) = Upto(table, detected)
  BY DEF Upto
<1> QED BY <1>1 DEF LatestSnapshot

\* A checkpoint, a batch without an evaluation, and a step that stores nothing.
LEMMA EvidenceGrows ==
    ASSUME SampleInv, EvidenceInv, event # NoEvent,
           NEW t \in Nat, NEW new, samples' = samples \cup new, \A s \in new : s.time = t,
           event.detected < t, event' = event, failed \subseteq failed', slow \subseteq slow',
           IsFiniteSet(evidence'), Cardinality(evidence') <= MaxRows, evidence \subseteq evidence',
           \A r \in evidence' : r \in evidence \/ (r.kind = "checkpoint" /\ r.sample \in samples')
    PROVE  EvidenceInv'
<1> DEFINE detected == event.detected
           dimension == event.dimension
<1>1. event \in [dimension : Dimensions, detected : Times] /\ detected \in Nat
  BY TimesAreNatural DEF EvidenceInv, EventType
<1>2. samples \subseteq SampleType
  BY DEF SampleInv, Table
<1>3. Upto(samples', detected) = Upto(samples, detected)
      /\ LatestSnapshot(samples', detected) = LatestSnapshot(samples, detected)
  <2>1. detected \in Int /\ detected < t
    BY <1>1
  <2> HIDE DEF detected
  <2>2. /\ Upto(samples \cup new, detected) = Upto(samples, detected)
        /\ LatestSnapshot(samples \cup new, detected) = LatestSnapshot(samples, detected)
    BY <1>2, <2>1, TriggerStays
  <2> QED BY <2>2
<1>4. Trigger' = Trigger
  BY <1>3 DEF Trigger
<1>5. Upto(samples', detected) # {} =>
          /\ Trigger \in Nat /\ Trigger <= detected
          /\ \E s \in Upto(samples, detected) : s.time = Trigger
  <2> SUFFICES ASSUME Upto(samples', detected) # {}
               PROVE  Trigger \in Nat /\ Trigger <= detected
                      /\ \E s \in Upto(samples, detected) : s.time = Trigger
    OBVIOUS
  <2>1. PICK s \in Upto(samples, detected) : s.time = Trigger
    BY <1>3 DEF EvidenceInv, TriggerInv
  <2>2. s \in samples /\ s.time <= detected
    BY DEF Upto
  <2>3. s.time \in Nat
    BY <1>2, <2>2, SampleFields
  <2> QED BY <2>1, <2>2, <2>3
<1>6. EventType'
  BY DEF EventType, EvidenceInv
<1>7. TriggerInv'
  <2>1. Upto(samples', event'.detected) # {} =>
            \E s \in Upto(samples', event'.detected) : s.time = Trigger'
    BY <1>3, <1>4, <1>5
  <2>2. \A r \in evidence' : r.kind = "prelude" => Upto(samples', event'.detected) # {}
    BY <1>3 DEF EvidenceInv, TriggerInv
  <2> QED BY <2>1, <2>2 DEF TriggerInv
<1>8. NewestEvidenceIsKept'
  <2>1. ASSUME NEW r \in evidence', r.kind = "prelude", NEW s \in samples',
               r.sample.time < s.time, s.time < Trigger', RanksIn(dimension, s)
        PROVE  [kind |-> "prelude", sample |-> s] \in evidence'
    <3>1. r \in evidence
      BY <2>1
    <3>2. Trigger \in Nat /\ Trigger <= detected
      BY <1>3, <1>5, <2>1, <3>1 DEF EvidenceInv, TriggerInv
    <3>3. s \in samples
      BY <1>1, <1>4, <2>1, <3>2
    <3>4. [kind |-> "prelude", sample |-> s] \in evidence
      BY <1>4, <2>1, <3>1, <3>3 DEF EvidenceInv, NewestEvidenceIsKept
    <3> QED BY <3>4
  <2> QED BY <2>1 DEF NewestEvidenceIsKept, RanksIn
<1>9. EventsAreExplained'
  <2> SUFFICES ASSUME Upto(samples, detected) # {},
                      ~ (/\ detected - Trigger > FreshFor
                         /\ \/ Trigger \in slow'
                            \/ \E q \in failed' : Trigger < q /\ q <= detected)
               PROVE  /\ \A s \in samples' : s.time = Trigger /\ RanksIn(dimension, s) =>
                                             [kind |-> "trigger", sample |-> s] \in evidence'
                      /\ dimension = "cpu" =>
                            \A n \in 1 .. EventTopN : Spared(n) /\ n <= Cardinality(Pids) =>
                                \E s \in samples' :
                                    s.cpu = n /\ [kind |-> "trigger", sample |-> s] \in evidence'
    BY <1>3, <1>4 DEF EventsAreExplained, ExplainedBy, RanksIn, Spared, Dimensions
  <2>1. /\ \A s \in samples : s.time = Trigger /\ RanksIn(dimension, s) =>
                              [kind |-> "trigger", sample |-> s] \in evidence
        /\ dimension = "cpu" =>
              \A n \in 1 .. EventTopN : Spared(n) /\ n <= Cardinality(Pids) =>
                  \E s \in samples :
                      s.cpu = n /\ [kind |-> "trigger", sample |-> s] \in evidence
    <3>1. ~ (/\ detected - Trigger > FreshFor
             /\ Trigger \in slow \/ \E q \in failed : Trigger < q /\ q <= detected)
      OBVIOUS
    <3>2. EventsAreExplained /\ event # NoEvent
      BY DEF EvidenceInv
    <3> QED BY <3>1, <3>2 DEF EventsAreExplained, ExplainedBy
  <2>2. ASSUME NEW s \in samples', s.time = Trigger
        PROVE  s \in samples
    <3>1. Trigger \in Nat /\ Trigger < t
      <4>1. Upto(samples', detected) # {}
        BY <1>3
      <4>2. Trigger \in Nat /\ Trigger <= detected
        BY <1>5, <4>1
      <4> QED BY <1>1, <4>2
    <3>2. s \notin new
      BY <2>2, <3>1
    <3> QED BY <3>2
  <2>3. \A s \in samples' : s.time = Trigger /\ RanksIn(dimension, s) =>
                            [kind |-> "trigger", sample |-> s] \in evidence'
    BY <2>1, <2>2
  <2>4. ASSUME dimension = "cpu", NEW n \in 1 .. EventTopN, Spared(n), n <= Cardinality(Pids)
        PROVE  \E s \in samples' : s.cpu = n /\ [kind |-> "trigger", sample |-> s] \in evidence'
    <3>1. PICK s \in samples : s.cpu = n /\ [kind |-> "trigger", sample |-> s] \in evidence
      BY <2>1, <2>4
    <3> QED BY <3>1
  <2> QED BY <2>3, <2>4
<1> QED BY <1>6, <1>7, <1>8, <1>9 DEF EvidenceInv

\* An event opens: its trigger is the newest snapshot, copied whole unless it has grown stale.
LEMMA EventOpens ==
    ASSUME NEW t \in Times, NEW d \in Dimensions,
           Table(samples'),
           \A s \in samples', n \in 1 .. EventTopN :
              Spared(n) /\ n <= Cardinality(Pids) =>
                  \E r \in samples' : r.time = s.time /\ r.cpu = n,
           \A s \in samples' : s.time <= t, FreshOrFailed(samples', t),
           event' = [dimension |-> d, detected |-> t],
           evidence' = CaptureOpenEvent(samples', d, t)
    PROVE  EvidenceInv'
<1>0. /\ event'.dimension = d /\ event'.detected = t /\ t \in Nat
      /\ event' \in [dimension : Dimensions, detected : Times]
      /\ event' # NoEvent
  <2>1. d # "none"
    BY DEF Dimensions
  <2> QED BY <2>1, TimesAreNatural DEF NoEvent
<1>1. Upto(samples', t) = samples'
  BY DEF Upto
<1>2. Trigger' = LatestSnapshot(samples', t)
  BY <1>0 DEF Trigger
<1>3. MaxRows \in Nat
  BY EvidenceAssumption
<1>4. CASE samples' = {}
  <2>1. evidence' = {}
    BY <1>1, <1>4 DEF CaptureOpenEvent, Fresh
  <2>2. IsFiniteSet(evidence') /\ Cardinality(evidence') <= MaxRows
    BY <1>3, <2>1, FS_EmptySet
  <2>3. EventType' /\ TriggerInv'
    BY <1>0, <1>1, <1>4, <2>1 DEF EventType, TriggerInv
  <2>4. NewestEvidenceIsKept' /\ EventsAreExplained'
    BY <1>0, <1>1, <1>4, <2>1, <2>2 DEF NewestEvidenceIsKept, EventsAreExplained
  <2> QED BY <2>2, <2>3, <2>4 DEF EvidenceInv
<1>5. CASE samples' # {}
  <2>1. PICK newest \in samples' :
            /\ \A r \in samples' : r.time <= newest.time
            /\ newest.time <= t
            /\ \/ t - newest.time <= FreshFor
               \/ newest.time < t /\ t \in failed'
               \/ newest.time \in slow'
    BY <1>5 DEF FreshOrFailed
  <2> DEFINE T == newest.time
  <2>2. LatestSnapshot(samples', t) = T
    BY <1>0, <1>1, <2>1, LatestIs DEF Table
  <2>3. T \in Nat /\ Trigger' = T
    BY <1>2, <2>2, SampleFields DEF Table
  <2> HIDE DEF T
  <2>4. \E s \in Upto(samples', event'.detected) : s.time = Trigger'
    BY <1>0, <1>1, <2>3 DEF T
  <2>5. CASE ~ Fresh(samples', t)
    <3>1. evidence' = {}
      BY <2>5 DEF CaptureOpenEvent
    <3>2. t - T > FreshFor /\ (T \in slow' \/ (T < t /\ t \in failed'))
      <4>1. ~ (t - T <= FreshFor)
        BY <1>1, <1>5, <2>2, <2>5 DEF Fresh
      <4>2. t - T <= FreshFor \/ (T < t /\ t \in failed') \/ T \in slow'
        BY <2>1 DEF T
      <4> QED BY <1>0, <2>3, <4>1, <4>2, EvidenceAssumption
    <3>3. IsFiniteSet(evidence') /\ Cardinality(evidence') <= MaxRows
      BY <1>3, <3>1, FS_EmptySet
    <3>4. EventType' /\ TriggerInv'
      BY <1>0, <2>4, <3>1 DEF EventType, TriggerInv
    <3>5. NewestEvidenceIsKept'
      BY <3>1, <3>3 DEF NewestEvidenceIsKept
    <3>6. EventsAreExplained'
      <4>1. event'.detected - Trigger' > FreshFor /\ t <= event'.detected
        BY <1>0, <2>3, <3>2
      <4>2. Trigger' \in slow' \/ (Trigger' < t /\ t \in failed')
        BY <2>3, <3>2
      <4> QED BY <4>1, <4>2 DEF EventsAreExplained
    <3> QED BY <3>3, <3>4, <3>5, <3>6 DEF EvidenceInv
  <2>6. CASE Fresh(samples', t)
    <3> DEFINE W == WithSnapshot(samples', {}, d, T, "trigger")
               P == WithPrelude(samples', W, d, t, T)
    <3>1. evidence' = P
      BY <2>2, <2>6 DEF CaptureOpenEvent
    <3>2. IsFiniteSet({}) /\ Cardinality({}) <= MaxRows
      BY <1>3, FS_EmptySet
    <3>3. /\ IsFiniteSet(W) /\ Cardinality(W) <= MaxRows
          /\ \A r \in W : r.kind = "trigger" /\ r.sample \in samples' /\ r.sample.time = T
      BY <3>2, WithSnapshotType
    <3>4. \A s \in samples' : s.time = T /\ RanksIn(d, s) =>
                              [kind |-> "trigger", sample |-> s] \in W
      BY TriggerRows
    <3> HIDE DEF W
    <3>5. \A r \in W : r.kind # "prelude" /\ r.sample.time = T
      BY <3>3
    <3>6. /\ IsFiniteSet(P) /\ Cardinality(P) <= MaxRows /\ W \subseteq P
          /\ \A r \in P : r \in W \/ (r.kind = "prelude" /\ r.sample \in samples')
          /\ \A r \in P : r.kind = "prelude" =>
                \A s \in samples' :
                    r.sample.time < s.time /\ s.time < T /\ RanksIn(d, s) =>
                        [kind |-> "prelude", sample |-> s] \in P
      BY <1>0, <2>3, <3>3, <3>5, WithPreludeType
    <3> HIDE DEF P
    <3>7. EventType'
      BY <1>0, <3>1, <3>3, <3>6 DEF EventType
    <3>8. TriggerInv'
      BY <1>0, <1>1, <1>5, <2>4 DEF TriggerInv
    <3>9. NewestEvidenceIsKept'
      BY <1>0, <2>3, <3>1, <3>6 DEF NewestEvidenceIsKept, RanksIn
    <3>10. EventsAreExplained'
      <4>1. \A s \in samples' : s.time = Trigger' /\ RanksIn(d, s) =>
                                [kind |-> "trigger", sample |-> s] \in evidence'
        BY <2>3, <3>1, <3>4, <3>6
      <4>2. ASSUME d = "cpu", NEW n \in 1 .. EventTopN, Spared(n), n <= Cardinality(Pids)
            PROVE  \E s \in samples' : s.cpu = n /\ [kind |-> "trigger", sample |-> s] \in evidence'
        <5>1. PICK s \in samples' : s.time = T /\ s.cpu = n
          BY <4>2 DEF T
        <5>2. RanksIn("cpu", s)
          BY <5>1, EvidenceAssumption DEF RanksIn
        <5> QED BY <2>3, <4>1, <4>2, <5>1, <5>2
      <4> QED BY <1>0, <4>1, <4>2 DEF EventsAreExplained, ExplainedBy, RanksIn, Spared,
                                      Dimensions
    <3> QED BY <3>1, <3>6, <3>7, <3>8, <3>9, <3>10 DEF EvidenceInv
  <2> QED BY <2>5, <2>6
<1> QED BY <1>4, <1>5

LEMMA BatchIsStored ==
    ASSUME SampleInv, EvidenceInv, NEW t, NEW new, BatchOf(t, new), StoreBatch(t, new),
           FreshOrFailed(samples', t)
    PROVE  SampleInv' /\ EvidenceInv'
<1>1. samples' = samples \cup new
  BY DEF StoreBatch, Commit
<1>2. SampleInv'
  BY <1>1, SamplesKept
<1>3. t \in Nat /\ t \in Times /\ \A s \in new : s.time = t
  BY TimesAreNatural DEF BatchOf, SnapshotAt
<1>4. /\ Table(samples')
      /\ \A s \in samples', n \in 1 .. EventTopN :
            Spared(n) /\ n <= Cardinality(Pids) =>
                \E r \in samples' : r.time = s.time /\ r.cpu = n
  BY <1>2 DEF SampleInv, Table, SampleType, SamePlace, Times, Spared, Dimensions
<1>5. /\ IsFiniteSet(evidence) /\ Cardinality(evidence) <= MaxRows
      /\ failed \subseteq failed' /\ slow \subseteq slow'
  BY DEF EvidenceInv, NewestEvidenceIsKept, BatchOf
<1> DEFINE Grown ==
        /\ IsFiniteSet(evidence') /\ Cardinality(evidence') <= MaxRows
        /\ evidence \subseteq evidence'
        /\ \A r \in evidence' : r \in evidence \/ (r.kind = "checkpoint" /\ r.sample \in samples')
<1>6. ASSUME event # NoEvent, event' = event, Grown
      PROVE  EvidenceInv'
  <2>1. event.detected < t
    BY <1>6 DEF BatchOf
  <2> QED BY <1>1, <1>3, <1>5, <1>6, <2>1, EvidenceGrows
<1>7. CASE NoEvidence
  <2>1. CASE event # NoEvent
    <3>1. event' = event /\ Grown
      BY <1>5, <1>7 DEF NoEvidence
    <3> HIDE DEF Grown
    <3> QED BY <1>2, <1>6, <2>1, <3>1
  <2>2. CASE event = NoEvent
    <3>1. event' = NoEvent /\ evidence' = {}
      BY <1>7, <2>2 DEF NoEvidence, EvidenceInv, TriggerInv
    <3>2. IsFiniteSet(evidence') /\ Cardinality(evidence') <= MaxRows
      BY <1>5, <1>7 DEF NoEvidence
    <3>3. EventType' /\ TriggerInv'
      BY <3>1 DEF EventType, TriggerInv
    <3>4. NewestEvidenceIsKept' /\ EventsAreExplained'
      BY <3>1, <3>2 DEF NewestEvidenceIsKept, EventsAreExplained
    <3> QED BY <1>2, <3>2, <3>3, <3>4 DEF EvidenceInv
  <2> QED BY <2>1, <2>2
<1>8. ASSUME NEW d \in Dimensions, OpenEvent(t, d)
      PROVE  EvidenceInv'
  <2>1. \A s \in samples' : s.time <= t
    <3>1. \A s \in samples : s.time < t /\ s.time \in Nat
      BY SampleFields DEF BatchOf, SampleInv, Table
    <3> QED BY <1>1, <1>3, <3>1
  <2> QED BY <1>3, <1>4, <1>8, <2>1, EventOpens DEF OpenEvent
<1>9. CASE Checkpoint(t)
  <2>1. event # NoEvent /\ event' = event /\ evidence' = CaptureCheckpoint(samples', t)
    BY <1>9 DEF Checkpoint
  <2>2. event.dimension \in Dimensions
    BY <2>1 DEF EvidenceInv, EventType
  <2>3. Grown
    <3>1. CASE ~ Fresh(samples', t)
      BY <1>5, <2>1, <3>1 DEF CaptureCheckpoint
    <3>2. CASE Fresh(samples', t)
      <4> DEFINE T == LatestSnapshot(samples', t)
      <4>1. evidence' = WithSnapshot(samples', evidence, event.dimension, T, "checkpoint")
        BY <2>1, <3>2 DEF CaptureCheckpoint
      <4> HIDE DEF T
      <4> QED BY <1>4, <1>5, <2>2, <4>1, WithSnapshotType
    <3> QED BY <3>1, <3>2
  <2> HIDE DEF Grown
  <2> QED BY <1>2, <1>6, <2>1, <2>3
<1> QED BY <1>2, <1>7, <1>8, <1>9 DEF StoreBatch

LEMMA NothingIsStored ==
    ASSUME SampleInv, EvidenceInv, UNCHANGED storage, failed' = failed, slow' = slow
    PROVE  SampleInv' /\ EvidenceInv'
<1>1. UNCHANGED <<samples, event, evidence>>
  BY DEF storage
<1>2. SampleInv'
  BY <1>1 DEF SampleInv, Table, SampleType, SamePlace, Times
<1>3. Trigger' = Trigger
  BY <1>1 DEF Trigger
<1>4. EvidenceInv'
  BY <1>1, <1>3 DEF EvidenceInv, EventType, TriggerInv, NewestEvidenceIsKept, EventsAreExplained,
                    ExplainedBy
<1> QED BY <1>2, <1>4

----------------------------------------------------------------------------
(* The collector: what it has recorded, and when it acts. *)

\* What is on record of a pid belongs to its present process exactly if that process has been
\* charged since; then its counter is the recorded total and what it has transferred since.
DeltaInv ==
    \A p \in Pids :
        /\ candidates[p] <= start[p]
        /\ p \in DOMAIN previous => previous[p].start <= start[p]
        /\ moved[p] = Never /\ p \in DOMAIN previous => previous[p].start # start[p]
        /\ moved[p] # Never =>
              /\ p \in DOMAIN previous /\ previous[p].start = start[p]
              /\ counter[p] = previous[p].total + moved[p]

ChargeInv ==
    /\ CollectorTypeOK
    /\ \E D \in SUBSET Pids : deltas \in [D -> 0 .. MaxBytes]
    /\ moved \in [Pids -> 0 .. MaxBytes \cup {Never}]
    /\ DeltaInv

\* What is stored is older than the tick to come and than the collection under way, and the
\* newest snapshot is at most an interval older than the end of the last collection, or slow.
TimeInv ==
    /\ collecting => now <= MaxTime /\ now < due
    /\ \A s \in samples : s.time < due /\ (collecting => s.time < now)
    /\ event # NoEvent => event.detected < due /\ (collecting => event.detected < now)
    /\ samples # {} => warmed_up
    /\ warmed_up => last # None
    /\ samples # {} => \E s \in samples : /\ \A r \in samples : r.time <= s.time
                                          /\ last <= s.time + Interval \/ s.time \in slow

HistoryInv == ChargeInv /\ TimeInv /\ SampleInv /\ EvidenceInv

LEMMA TypeFollows == HistoryInv => HistoryTypeOK
<1> SUFFICES ASSUME HistoryInv PROVE HistoryTypeOK
  OBVIOUS
<1>1. \A s \in samples : s \in [time : Times, pid : Pids, start : 0 .. MaxStarts,
                                cpu : 0 .. TopCpu, network : 0 .. TopNetwork]
  BY DEF HistoryInv, SampleInv, Table, SampleType
<1>2. EventType
  BY DEF HistoryInv, EvidenceInv
<1>3. DOMAIN deltas \subseteq Pids /\ \A p \in DOMAIN deltas : deltas[p] \in 0 .. MaxBytes
  BY DEF HistoryInv, ChargeInv
<1> QED BY <1>1, <1>2, <1>3 DEF HistoryInv, ChargeInv, HistoryTypeOK, EventType

LEMMA HistoryInitially == HistoryInit => HistoryInv
<1> SUFFICES ASSUME HistoryInit PROVE HistoryInv
  OBVIOUS
<1> USE DEF HistoryInit, CollectorInit, EvidenceInit
<1>0. 0 \in Times /\ 0 \in 0 .. MaxStarts /\ 0 \in 0 .. MaxBytes
  BY CollectorAssumption DEF Times
<1>1. CollectorTypeOK
  BY <1>0 DEF CollectorTypeOK, NoCandidates
<1>2. deltas \in [{} -> 0 .. MaxBytes] /\ moved \in [Pids -> 0 .. MaxBytes \cup {Never}]
  BY DEF NoDeltas
<1>3. DeltaInv
  BY DEF DeltaInv, NoCandidates, Never
<1>4. ChargeInv
  BY <1>1, <1>2, <1>3 DEF ChargeInv
<1>5. TimeInv
  BY DEF TimeInv
<1>6. SampleInv
  BY FS_EmptySet DEF SampleInv, Table
<1>7. IsFiniteSet(evidence) /\ Cardinality(evidence) <= MaxRows
  BY FS_EmptySet, EvidenceAssumption
<1>8. EvidenceInv
  BY <1>7 DEF EvidenceInv, EventType, TriggerInv, NewestEvidenceIsKept, EventsAreExplained
<1> QED BY <1>4, <1>5, <1>6, <1>8 DEF HistoryInv

\* A cycle begins after everything that is stored.
LEMMA CycleTimes ==
    ASSUME HistoryInv, ~ collecting, TickAt(CycleStart)
    PROVE  /\ CycleStart \in Times /\ CycleStart <= MaxTime /\ CycleStart >= due
           /\ due' \in Nat /\ CycleStart < due'
           /\ \A s \in samples : s.time < CycleStart /\ s.time \in Nat
           /\ event # NoEvent => event.detected < CycleStart /\ event.detected \in Nat
<1> DEFINE t == CycleStart
<1>1. now \in Nat /\ due \in Nat /\ MaxTime \in Nat /\ MaxDuration \in Nat
  BY TimesAreNatural, CollectorAssumption DEF HistoryInv, ChargeInv, CollectorTypeOK
<1>2. t \in Nat /\ t >= due
  BY <1>1 DEF CycleStart, Later
<1>3. t <= MaxTime /\ due' = (t \div Period + 1) * Period
  BY DEF TickAt
<1> HIDE DEF t
<1>4. due' \in Nat /\ t < due' /\ t \in Times
  BY <1>1, <1>2, <1>3, NextTick DEF Times
<1>5. \A s \in samples : s.time < t /\ s.time \in Nat
  <2>1. \A s \in samples : s.time \in Nat /\ s.time < due
    BY SampleFields DEF HistoryInv, SampleInv, Table, TimeInv
  <2> QED BY <1>1, <1>2, <2>1
<1>6. event # NoEvent => event.detected < t /\ event.detected \in Nat
  <2>1. event # NoEvent => event.detected \in Nat /\ event.detected < due
    BY TimesAreNatural DEF HistoryInv, EvidenceInv, EventType, TimeInv
  <2> QED BY <1>1, <1>2, <2>1
<1> QED BY <1>2, <1>3, <1>4, <1>5, <1>6 DEF t

----------------------------------------------------------------------------
(* The steps. *)

LEMMA MachineStepKeeps ==
    ASSUME HistoryInv, NEW p \in Active, MachineStep(p)
    PROVE  HistoryInv'
<1> USE DEF HistoryInv
<1>1. /\ UNCHANGED <<now, due, samples, event, evidence, deltas>>
      /\ UNCHANGED <<collecting, candidates, last, warmed_up, previous, network_io, failed, slow>>
  BY DEF MachineStep, clock, collector, storage
<1>2. SampleInv' /\ EvidenceInv'
  BY <1>1, NothingIsStored DEF storage
<1>3. TimeInv'
  BY <1>1 DEF TimeInv
<1>4. p \in Pids /\ MaxStarts \in Nat /\ MaxBytes \in Nat
  BY CollectorAssumption
<1>5. /\ start \in [Pids -> 0 .. MaxStarts] /\ counter \in [Pids -> 0 .. MaxBytes]
      /\ moved \in [Pids -> 0 .. MaxBytes \cup {Never}]
      /\ candidates \in [Pids -> 0 .. MaxStarts]
      /\ \A q \in DOMAIN previous : previous[q] \in [start : 0 .. MaxStarts, total : 0 .. MaxBytes]
  BY DEF ChargeInv, CollectorTypeOK
<1>6. CASE Transfer(p) /\ moved' = [moved EXCEPT ![p] = IF @ = Never THEN @ ELSE @ + 1]
  <2>1. counter[p] < MaxBytes /\ counter' = [counter EXCEPT ![p] = @ + 1] /\ start' = start
    BY <1>6 DEF Transfer
  <2>2. moved[p] # Never => moved[p] \in Nat /\ moved[p] <= counter[p]
    <3> SUFFICES ASSUME moved[p] # Never PROVE moved[p] \in Nat /\ moved[p] <= counter[p]
      OBVIOUS
    <3>1. moved[p] \in Nat
      BY <1>4, <1>5
    <3>2. p \in DOMAIN previous /\ counter[p] = previous[p].total + moved[p]
      BY <1>4 DEF ChargeInv, DeltaInv
    <3>3. previous[p].total \in Nat
      BY <1>4, <1>5, <3>2
    <3> QED BY <3>1, <3>2, <3>3
  <2>3. counter' \in [Pids -> 0 .. MaxBytes]
    BY <1>4, <1>5, <2>1
  <2>4. moved' \in [Pids -> 0 .. MaxBytes \cup {Never}]
    <3>1. (IF moved[p] = Never THEN moved[p] ELSE moved[p] + 1) \in 0 .. MaxBytes \cup {Never}
      BY <1>4, <1>5, <2>1, <2>2
    <3> QED BY <1>5, <1>6, <3>1
  <2>5. DeltaInv'
    <3>1. ASSUME NEW q \in Pids, moved'[q] # Never
          PROVE  /\ q \in DOMAIN previous /\ previous[q].start = start[q]
                 /\ counter'[q] = previous[q].total + moved'[q]
      <4>1. moved[q] # Never
        BY <1>4, <1>5, <1>6, <3>1
      <4>2. /\ q \in DOMAIN previous /\ previous[q].start = start[q]
            /\ counter[q] = previous[q].total + moved[q]
        BY <4>1 DEF ChargeInv, DeltaInv
      <4>3. previous[q].total \in Nat
        BY <1>4, <1>5, <4>2
      <4>4. moved[q] \in Nat
        BY <1>4, <1>5, <4>1
      <4>5. counter'[q] - counter[q] = moved'[q] - moved[q]
        BY <1>4, <1>5, <1>6, <2>1, <4>1, <4>4
      <4>6. counter'[q] \in Int /\ moved'[q] \in Int
        BY <2>3, <2>4, <1>4 DEF Never
      <4> QED BY <4>2, <4>3, <4>4, <4>5, <4>6, <1>5
    <3>2. ASSUME NEW q \in Pids, moved'[q] = Never
          PROVE  moved[q] = Never
      BY <1>4, <1>5, <1>6, <2>2, <3>2 DEF Never
    <3> QED BY <1>1, <2>1, <3>1, <3>2 DEF ChargeInv, DeltaInv
  <2>6. CollectorTypeOK'
    BY <1>1, <2>1, <2>3 DEF ChargeInv, CollectorTypeOK
  <2> QED BY <1>1, <1>2, <1>3, <2>4, <2>5, <2>6 DEF ChargeInv
<1>7. CASE ReusePid(p) /\ moved' = [moved EXCEPT ![p] = Never]
  <2>1. start[p] < MaxStarts /\ start' = [start EXCEPT ![p] = @ + 1]
        /\ counter' = [counter EXCEPT ![p] = 0]
    BY <1>7 DEF ReusePid
  <2>2. start' \in [Pids -> 0 .. MaxStarts] /\ counter' \in [Pids -> 0 .. MaxBytes]
        /\ moved' \in [Pids -> 0 .. MaxBytes \cup {Never}]
    BY <1>4, <1>5, <1>7, <2>1
  <2>3. DeltaInv'
    <3>1. ASSUME NEW q \in Pids, q # p
          PROVE  start'[q] = start[q] /\ counter'[q] = counter[q] /\ moved'[q] = moved[q]
      BY <1>5, <1>7, <2>1, <3>1
    <3>2. start'[p] = start[p] + 1 /\ moved'[p] = Never /\ start[p] \in Nat
      BY <1>4, <1>5, <1>7, <2>1
    <3>3. candidates[p] \in Nat /\ candidates[p] <= start[p]
          /\ (p \in DOMAIN previous => previous[p].start \in Nat /\ previous[p].start <= start[p])
      BY <1>4, <1>5 DEF ChargeInv, DeltaInv
    <3>4. /\ candidates[p] <= start'[p]
          /\ p \in DOMAIN previous =>
                previous[p].start <= start'[p] /\ previous[p].start # start'[p]
      BY <3>2, <3>3
    <3> QED BY <1>1, <3>1, <3>2, <3>4 DEF ChargeInv, DeltaInv
  <2>4. CollectorTypeOK'
    BY <1>1, <2>2 DEF ChargeInv, CollectorTypeOK
  <2> QED BY <1>1, <1>2, <1>3, <2>2, <2>3, <2>4 DEF ChargeInv
<1> QED BY <1>6, <1>7 DEF MachineStep

LEMMA MetricsOnlyKeeps ==
    ASSUME HistoryInv, MetricsOnly
    PROVE  HistoryInv'
<1> DEFINE t == CycleStart
<1>1. /\ ~ collecting /\ TickAt(t) /\ now' = t
      /\ UNCHANGED <<collecting, candidates, last, warmed_up, previous, network_io>>
      /\ UNCHANGED <<start, counter, deltas, moved>>
      /\ slow' = slow
      /\ failed' = failed \/ (failed' = failed \cup {t} /\ RefreshFails(t))
      /\ failed' = failed => ~ IsDue(t) \/ t \in failed
  BY DEF MetricsOnly, MetricsCycle, RefreshFails, collector, machine
<1>2. /\ t \in Times /\ t <= MaxTime /\ t >= due /\ due' \in Nat /\ t < due'
      /\ \A s \in samples : s.time < t /\ s.time \in Nat
      /\ event # NoEvent => event.detected < t /\ event.detected \in Nat
  BY <1>1, CycleTimes
<1>3. StoreBatch(t, {}) /\ samples' = samples
  BY <1>1 DEF MetricsOnly, StoreBatch, Commit
<1>4. t \in Nat /\ Interval \in Nat /\ FreshFor = 2 * Interval
  BY <1>2, TimesAreNatural, CollectorAssumption, HistoryAssumption
<1>5. /\ failed \subseteq failed' /\ failed' \subseteq Times /\ (IsDue(t) => t \in failed')
      /\ slow \subseteq slow'
  BY <1>1, <1>2 DEF HistoryInv, ChargeInv, CollectorTypeOK
<1> HIDE DEF t
<1>6. BatchOf(t, {})
  BY <1>2, <1>5 DEF BatchOf
<1>7. FreshOrFailed(samples', t)
  <2> SUFFICES ASSUME samples # {} PROVE FreshOrFailed(samples, t)
    BY <1>3 DEF FreshOrFailed
  <2>1. PICK s \in samples : /\ \A r \in samples : r.time <= s.time
                             /\ last <= s.time + Interval \/ s.time \in slow
    BY DEF HistoryInv, TimeInv
  <2>2. s.time < t /\ s.time \in Nat
    BY <1>2
  <2>3. CASE IsDue(t)
    BY <1>4, <1>5, <2>1, <2>2, <2>3 DEF FreshOrFailed
  <2>4. CASE ~ IsDue(t)
    <3>1. last \in Nat /\ t - last < Interval
      <4>1. last # None /\ ~ (t - last >= Interval)
        BY <2>4 DEF IsDue
      <4>2. last \in Times
        BY <4>1 DEF HistoryInv, ChargeInv, CollectorTypeOK
      <4>3. last \in Nat
        BY <4>2, TimesAreNatural
      <4> QED BY <1>4, <4>1, <4>3
    <3>2. t - s.time <= FreshFor \/ s.time \in slow'
      BY <1>1, <1>4, <2>1, <2>2, <3>1
    <3>3. s.time <= t
      BY <1>4, <2>2
    <3> QED BY <2>1, <3>2, <3>3 DEF FreshOrFailed
  <2> QED BY <2>3, <2>4
<1>8. SampleInv' /\ EvidenceInv'
  BY <1>3, <1>6, <1>7, BatchIsStored DEF HistoryInv
<1>9. TimeInv'
  <2>1. \A s \in samples' : s.time < due'
    BY <1>2, <1>3, <1>4
  <2>2. event' # NoEvent => event'.detected < due'
    <3>1. event' = event \/ \E d \in Dimensions : event' = [dimension |-> d, detected |-> t]
      BY <1>3 DEF StoreBatch, NoEvidence, OpenEvent, Checkpoint
    <3>2. CASE event' = event
      BY <1>2, <1>4, <3>2
    <3>3. CASE \E d \in Dimensions : event' = [dimension |-> d, detected |-> t]
      BY <1>2, <3>3
    <3> QED BY <3>1, <3>2, <3>3
  <2> QED BY <1>1, <1>3, <2>1, <2>2 DEF TimeInv, HistoryInv
<1>10. ChargeInv'
  <2>1. CollectorTypeOK'
    BY <1>1, <1>2, <1>5 DEF HistoryInv, ChargeInv, CollectorTypeOK, t
  <2>2. DeltaInv'
    BY <1>1 DEF HistoryInv, ChargeInv, DeltaInv
  <2> QED BY <1>1, <2>1, <2>2 DEF HistoryInv, ChargeInv
<1> QED BY <1>8, <1>9, <1>10 DEF HistoryInv

LEMMA BeginCollectionKeeps ==
    ASSUME HistoryInv, BeginCollection
    PROVE  HistoryInv'
<1>1. /\ ~ collecting /\ TickAt(CycleStart) /\ now' = CycleStart /\ collecting' = TRUE
      /\ candidates' = start /\ deltas' = NoDeltas
      /\ UNCHANGED <<last, warmed_up, previous, network_io, failed, slow, start, counter, moved>>
      /\ UNCHANGED <<samples, event, evidence>>
  BY DEF BeginCollection, RefreshProcesses, machine, storage
<1>2. /\ CycleStart \in Times /\ CycleStart <= MaxTime /\ CycleStart >= due
      /\ due' \in Nat /\ CycleStart < due'
      /\ \A s \in samples : s.time < CycleStart /\ s.time \in Nat
      /\ event # NoEvent => event.detected < CycleStart /\ event.detected \in Nat
  BY <1>1, CycleTimes
<1>3. SampleInv' /\ EvidenceInv'
  BY <1>1, NothingIsStored DEF HistoryInv, storage
<1>4. TimeInv'
  <2>1. CycleStart \in Nat
    BY <1>2, TimesAreNatural
  <2>2. \A s \in samples : s.time < due' /\ s.time < CycleStart
    BY <1>2, <2>1
  <2>3. event # NoEvent => event.detected < due' /\ event.detected < CycleStart
    BY <1>2, <2>1
  <2> QED BY <1>1, <1>2, <2>2, <2>3 DEF TimeInv, HistoryInv
<1>5. CollectorTypeOK'
  BY <1>1, <1>2 DEF HistoryInv, ChargeInv, CollectorTypeOK
<1>6. DeltaInv'
  <2>1. \A p \in Pids : start[p] <= start[p]
    BY CollectorAssumption DEF HistoryInv, ChargeInv, CollectorTypeOK
  <2> QED BY <1>1, <2>1 DEF HistoryInv, ChargeInv, DeltaInv
<1>7. deltas' \in [{} -> 0 .. MaxBytes]
  BY <1>1 DEF NoDeltas
<1>8. ChargeInv'
  BY <1>1, <1>5, <1>6, <1>7 DEF HistoryInv, ChargeInv
<1> QED BY <1>3, <1>4, <1>8 DEF HistoryInv

\* The batch of a collection, whatever deltas its snapshot is ranked by.
LEMMA CollectionIsStored ==
    ASSUME HistoryInv, NEW duration \in Durations, FinishCollection(duration),
           NEW cpu \in Usages, NEW D \in SUBSET Pids, NEW network \in [D -> Nat],
           StoreBatch(now, Snapshot(cpu, network))
    PROVE  /\ SampleInv' /\ EvidenceInv' /\ TimeInv'
           /\ now' \in Times /\ last' \in Times /\ slow' \subseteq Times
<1> DEFINE new == Snapshot(cpu, network)
<1>1. /\ collecting /\ collecting' = FALSE /\ now' = now + duration /\ last' = now'
      /\ warmed_up' = TRUE /\ UNCHANGED <<due, failed>>
      /\ slow' = IF duration > Interval THEN slow \cup {now} ELSE slow
  BY DEF FinishCollection
<1>2. /\ now \in Times /\ now \in Nat /\ now <= MaxTime /\ now < due /\ due \in Nat
      /\ candidates \in [Pids -> 0 .. MaxStarts]
      /\ duration \in Nat /\ duration <= MaxDuration /\ MaxDuration \in Nat /\ MaxTime \in Nat
      /\ Interval \in Nat /\ slow \subseteq Times
  BY <1>1, CollectorAssumption, TimesAreNatural DEF HistoryInv, ChargeInv, CollectorTypeOK, TimeInv
<1>3. new = {} \/ SnapshotAt(new, now)
  <2>1. cpu \in [Pids -> Nat]
    BY DEF Usages
  <2> QED BY <1>2, <2>1, SnapshotIsComplete DEF Snapshot
<1>4. new # {} <=> warmed_up
  <2>1. CASE warmed_up
    <3>1. cpu \in [Pids -> Nat]
      BY DEF Usages
    <3>2. new # {}
      BY <1>2, <2>1, <3>1, SnapshotIsComplete DEF Snapshot
    <3> QED BY <2>1, <3>2
  <2>2. CASE ~ warmed_up
    BY <2>2 DEF Snapshot
  <2> QED BY <2>1, <2>2
<1> HIDE DEF new
<1>5. \A s \in new : s.time = now
  BY <1>3 DEF SnapshotAt
<1>6. StoreBatch(now, new) /\ samples' = samples \cup new
  BY DEF new, StoreBatch, Commit
<1>7. /\ \A s \in samples : s.time < now /\ s.time \in Nat
      /\ samples # {} => warmed_up
  BY <1>1, SampleFields DEF HistoryInv, TimeInv, SampleInv, Table
<1>8. \A s \in samples' : s.time <= now
  BY <1>2, <1>5, <1>6, <1>7
<1>9. samples' # {} => \E s \in samples' : s.time = now
  BY <1>4, <1>5, <1>6, <1>7
<1>10. BatchOf(now, new)
  BY <1>1, <1>2, <1>3, <1>7 DEF BatchOf, HistoryInv, TimeInv
<1>11. FreshOrFailed(samples', now)
  <2> SUFFICES ASSUME NEW s \in samples', s.time = now PROVE FreshOrFailed(samples', now)
    BY <1>9 DEF FreshOrFailed
  <2>1. s.time <= now /\ now - s.time <= FreshFor
    BY <1>2, EvidenceAssumption
  <2> QED BY <1>8, <2>1 DEF FreshOrFailed
<1>12. SampleInv' /\ EvidenceInv'
  BY <1>6, <1>10, <1>11, BatchIsStored DEF HistoryInv
<1>13. now' \in Times /\ last' \in Times /\ last' # None /\ slow' \subseteq Times
  BY <1>1, <1>2 DEF Times, None
<1>14. TimeInv'
  <2>1. \A s \in samples' : s.time < due'
    <3>1. \A s \in samples' : s.time \in Nat
      BY <1>2, <1>5, <1>6, <1>7
    <3> QED BY <1>1, <1>2, <1>8, <3>1
  <2>2. event' # NoEvent => event'.detected < due'
    <3>1. event' = event \/ \E d \in Dimensions : event' = [dimension |-> d, detected |-> now]
      BY <1>6 DEF StoreBatch, NoEvidence, OpenEvent, Checkpoint
    <3>2. CASE event' = event
      BY <1>1, <3>2 DEF HistoryInv, TimeInv
    <3>3. CASE \E d \in Dimensions : event' = [dimension |-> d, detected |-> now]
      BY <1>1, <1>2, <3>3
    <3> QED BY <3>1, <3>2, <3>3
  <2>3. ASSUME NEW s \in samples', s.time = now
        PROVE  /\ \A r \in samples' : r.time <= s.time
               /\ last' <= s.time + Interval \/ s.time \in slow'
    BY <1>1, <1>2, <1>8, <2>3
  <2>4. samples' # {} => \E s \in samples' : /\ \A r \in samples' : r.time <= s.time
                                             /\ last' <= s.time + Interval \/ s.time \in slow'
    BY <1>9, <2>3
  <2> QED BY <1>1, <1>13, <2>1, <2>2, <2>4 DEF TimeInv
<1> QED BY <1>12, <1>13, <1>14

\* The deltas of a collection are numbers of transfers, for some of the processes.
LEMMA DeltasType ==
    ASSUME HistoryInv, NEW listed \in SUBSET Pids
    PROVE  \E D \in SUBSET Pids : NetworkDeltas(Totals(listed)) \in [D -> 0 .. MaxBytes]
<1> DEFINE D == {q \in listed : Recorded(q)}
<1>1. D \in SUBSET Pids
  OBVIOUS
<1>2. NetworkDeltas(Totals(listed)) = [p \in D |-> Less(counter[p], previous[p].total)]
  BY DEF NetworkDeltas, Totals
<1>3. ASSUME NEW p \in D
      PROVE  Less(counter[p], previous[p].total) \in 0 .. MaxBytes
  <2>1. p \in Pids /\ p \in DOMAIN previous
    BY DEF Recorded
  <2>2. counter[p] \in 0 .. MaxBytes /\ previous[p].total \in 0 .. MaxBytes
    BY <2>1 DEF HistoryInv, ChargeInv, CollectorTypeOK
  <2>3. MaxBytes \in Nat
    BY CollectorAssumption
  <2> QED BY <2>2, <2>3 DEF Less
<1> HIDE DEF D
<1>4. NetworkDeltas(Totals(listed)) \in [D -> 0 .. MaxBytes]
  BY <1>2, <1>3
<1> QED BY <1>1, <1>4

LEMMA CollectsWithNetworkKeeps ==
    ASSUME HistoryInv, NEW duration \in Durations, NEW cpu \in Usages,
           NEW listed \in SUBSET Pids, CollectsWithNetwork(duration, cpu, listed)
    PROVE  HistoryInv'
<1>1. /\ FinishCollection(duration)
      /\ previous' = NextPrevious(Totals(listed)) /\ network_io' = "available"
      /\ deltas' = NetworkDeltas(Totals(listed))
      /\ moved' = [p \in Pids |-> IF p \in listed /\ candidates[p] = start[p] THEN 0 ELSE Never]
      /\ StoreBatch(now, Snapshot(cpu, NetworkDeltas(Totals(listed))))
  BY DEF CollectsWithNetwork, NettopAnswers
<1>2. /\ candidates' = NoCandidates /\ UNCHANGED <<due, failed, start, counter>>
      /\ collecting' = FALSE /\ warmed_up' = TRUE
  BY <1>1 DEF FinishCollection, machine
<1>3. PICK D \in SUBSET Pids : NetworkDeltas(Totals(listed)) \in [D -> 0 .. MaxBytes]
  BY DeltasType
<1>4. NetworkDeltas(Totals(listed)) \in [D -> Nat]
  <2>1. 0 .. MaxBytes \subseteq Nat
    BY CollectorAssumption
  <2> QED BY <1>3, <2>1
<1>5. SampleInv' /\ EvidenceInv' /\ TimeInv' /\ now' \in Times /\ last' \in Times
      /\ slow' \subseteq Times
  BY <1>1, <1>4, CollectionIsStored
<1>6. MaxStarts \in Nat /\ MaxBytes \in Nat
      /\ candidates \in [Pids -> 0 .. MaxStarts] /\ start \in [Pids -> 0 .. MaxStarts]
      /\ counter \in [Pids -> 0 .. MaxBytes]
  BY CollectorAssumption DEF HistoryInv, ChargeInv, CollectorTypeOK
<1>7. /\ DOMAIN previous' = listed
      /\ \A p \in listed : previous'[p] = [start |-> candidates[p], total |-> counter[p]]
  BY <1>1 DEF NextPrevious, Totals
<1>8. CollectorTypeOK'
  <2>1. NoCandidates \in [Pids -> 0 .. MaxStarts]
    BY <1>6 DEF NoCandidates
  <2>2. \A p \in listed : previous'[p] \in [start : 0 .. MaxStarts, total : 0 .. MaxBytes]
    BY <1>6, <1>7
  <2> QED BY <1>1, <1>2, <1>5, <1>7, <2>1, <2>2 DEF CollectorTypeOK, HistoryInv, ChargeInv
<1>9. moved' \in [Pids -> 0 .. MaxBytes \cup {Never}]
  BY <1>1, <1>6
<1>10. DeltaInv'
  <2> SUFFICES ASSUME NEW p \in Pids
               PROVE  /\ candidates'[p] <= start'[p]
                      /\ p \in DOMAIN previous' => previous'[p].start <= start'[p]
                      /\ moved'[p] = Never /\ p \in DOMAIN previous' =>
                            previous'[p].start # start'[p]
                      /\ moved'[p] # Never =>
                            /\ p \in DOMAIN previous' /\ previous'[p].start = start'[p]
                            /\ counter'[p] = previous'[p].total + moved'[p]
    BY DEF DeltaInv
  <2>1. candidates'[p] = 0 /\ start[p] \in Nat /\ counter[p] \in Nat /\ candidates[p] <= start[p]
    BY <1>2, <1>6 DEF NoCandidates, HistoryInv, ChargeInv, DeltaInv
  <2>2. moved'[p] = IF p \in listed /\ candidates[p] = start[p] THEN 0 ELSE Never
    BY <1>1
  <2> QED BY <1>2, <1>7, <2>1, <2>2 DEF Never
<1>11. ChargeInv'
  BY <1>1, <1>3, <1>8, <1>9, <1>10 DEF ChargeInv
<1> QED BY <1>5, <1>11 DEF HistoryInv

LEMMA CollectsWithoutNetworkKeeps ==
    ASSUME HistoryInv, NEW duration \in Durations, NEW cpu \in Usages,
           CollectsWithoutNetwork(duration, cpu)
    PROVE  HistoryInv'
<1>1. /\ FinishCollection(duration)
      /\ previous' = previous /\ network_io' = "degraded"
      /\ deltas' = NoDeltas /\ moved' = moved
      /\ StoreBatch(now, Snapshot(cpu, NoDeltas))
  BY DEF CollectsWithoutNetwork, NettopFails
<1>2. /\ candidates' = NoCandidates /\ UNCHANGED <<due, failed, start, counter>>
      /\ collecting' = FALSE /\ warmed_up' = TRUE
  BY <1>1 DEF FinishCollection, machine
<1>3. NoDeltas \in [{} -> Nat] /\ NoDeltas \in [{} -> 0 .. MaxBytes]
  BY DEF NoDeltas
<1>4. SampleInv' /\ EvidenceInv' /\ TimeInv' /\ now' \in Times /\ last' \in Times
      /\ slow' \subseteq Times
  BY <1>1, <1>3, CollectionIsStored
<1>5. MaxStarts \in Nat /\ start \in [Pids -> 0 .. MaxStarts]
  BY CollectorAssumption DEF HistoryInv, ChargeInv, CollectorTypeOK
<1>6. CollectorTypeOK'
  <2>1. NoCandidates \in [Pids -> 0 .. MaxStarts]
    BY <1>5 DEF NoCandidates
  <2> QED BY <1>1, <1>2, <1>4, <2>1 DEF CollectorTypeOK, HistoryInv, ChargeInv
<1>7. DeltaInv'
  <2>1. \A p \in Pids : candidates'[p] = 0 /\ 0 <= start[p]
    BY <1>2, <1>5 DEF NoCandidates
  <2> QED BY <1>1, <1>2, <2>1 DEF HistoryInv, ChargeInv, DeltaInv
<1>8. ChargeInv'
  BY <1>1, <1>3, <1>6, <1>7 DEF HistoryInv, ChargeInv
<1> QED BY <1>4, <1>8 DEF HistoryInv

LEMMA HistoryStep == HistoryInv /\ [HistoryNext]_historyVars => HistoryInv'
<1> SUFFICES ASSUME HistoryInv, [HistoryNext]_historyVars PROVE HistoryInv'
  OBVIOUS
<1>1. ASSUME NEW p \in Active, MachineStep(p) PROVE HistoryInv'
  BY <1>1, MachineStepKeeps
<1>2. CASE MetricsOnly
  BY <1>2, MetricsOnlyKeeps
<1>3. CASE BeginCollection
  BY <1>3, BeginCollectionKeeps
<1>4. ASSUME NEW duration \in Durations, NEW cpu \in Usages,
             NEW listed \in SUBSET Pids, CollectsWithNetwork(duration, cpu, listed)
      PROVE  HistoryInv'
  BY <1>4, CollectsWithNetworkKeeps
<1>5. ASSUME NEW duration \in Durations, NEW cpu \in Usages,
             CollectsWithoutNetwork(duration, cpu)
      PROVE  HistoryInv'
  BY <1>5, CollectsWithoutNetworkKeeps
<1>6. CASE UNCHANGED historyVars
  <2>1. /\ UNCHANGED <<samples, event, evidence>> /\ UNCHANGED <<now, due, start, counter>>
        /\ UNCHANGED <<collecting, candidates, last, warmed_up, previous, network_io, failed, slow>>
        /\ UNCHANGED <<deltas, moved>>
    BY <1>6 DEF historyVars, storage, clock, machine, collector
  <2>2. SampleInv' /\ EvidenceInv'
    BY <2>1, NothingIsStored DEF HistoryInv, storage
  <2>3. TimeInv'
    BY <2>1 DEF HistoryInv, TimeInv
  <2>4. ChargeInv'
    BY <2>1 DEF HistoryInv, ChargeInv, CollectorTypeOK, DeltaInv
  <2> QED BY <2>2, <2>3, <2>4 DEF HistoryInv
<1> QED BY <1>1, <1>2, <1>3, <1>4, <1>5, <1>6 DEF HistoryNext

----------------------------------------------------------------------------
\* A collection charges a process with what it has transferred since it was last charged.
LEMMA ChargeStep ==
    HistoryInv /\ [HistoryNext]_historyVars => [\A p \in Pids : ChargedForItself(p)]_historyVars
<1> SUFFICES ASSUME HistoryInv, HistoryNext, NEW p \in Pids, collecting, ~ collecting',
                    candidates[p] = start[p]
             PROVE  IF p \in DOMAIN deltas' THEN deltas'[p] = moved[p]
                    ELSE moved[p] # Never /\ network_io' = "available" => p \notin DOMAIN previous'
  BY DEF ChargedForItself
<1>1. \/ \E duration \in Durations, cpu \in Usages, listed \in SUBSET Pids :
            CollectsWithNetwork(duration, cpu, listed)
      \/ \E duration \in Durations, cpu \in Usages : CollectsWithoutNetwork(duration, cpu)
  BY DEF HistoryNext, MachineStep, collector, MetricsOnly, MetricsCycle, RefreshFails,
         BeginCollection, RefreshProcesses
<1>2. /\ moved[p] = Never /\ p \in DOMAIN previous => previous[p].start # start[p]
      /\ moved[p] # Never => /\ p \in DOMAIN previous /\ previous[p].start = start[p]
                             /\ counter[p] = previous[p].total + moved[p]
  BY DEF HistoryInv, ChargeInv, DeltaInv
<1>3. ASSUME NEW listed \in SUBSET Pids, deltas' = NetworkDeltas(Totals(listed)),
             previous' = NextPrevious(Totals(listed))
      PROVE  IF p \in DOMAIN deltas' THEN deltas'[p] = moved[p]
             ELSE moved[p] # Never => p \notin DOMAIN previous'
  <2>1. deltas' = [q \in {r \in listed : Recorded(r)} |-> Less(counter[q], previous[q].total)]
    BY <1>3 DEF NetworkDeltas, Totals
  <2>2. DOMAIN previous' = listed
    BY <1>3 DEF NextPrevious, Totals
  <2>3. CASE p \in listed /\ Recorded(p)
    <3>1. p \in DOMAIN previous /\ moved[p] # Never
      BY <1>2, <2>3 DEF Recorded
    <3>2. counter[p] = previous[p].total + moved[p]
      BY <1>2, <3>1
    <3>3. previous[p].total \in Nat /\ moved[p] \in Nat
      <4>1. previous[p].total \in 0 .. MaxBytes /\ moved[p] \in 0 .. MaxBytes
        BY <3>1 DEF HistoryInv, ChargeInv, CollectorTypeOK
      <4> QED BY <4>1, CollectorAssumption
    <3>4. Less(counter[p], previous[p].total) = moved[p]
      BY <3>2, <3>3 DEF Less
    <3> QED BY <2>1, <2>3, <3>4
  <2>4. CASE ~ (p \in listed /\ Recorded(p))
    <3>1. p \notin DOMAIN deltas'
      BY <2>1, <2>4
    <3>2. moved[p] # Never => p \notin listed
      BY <1>2, <2>4 DEF Recorded
    <3> QED BY <2>2, <3>1, <3>2
  <2> QED BY <2>3, <2>4
<1>4. CASE \E duration \in Durations, cpu \in Usages, listed \in SUBSET Pids :
              CollectsWithNetwork(duration, cpu, listed)
  <2>1. PICK listed \in SUBSET Pids : deltas' = NetworkDeltas(Totals(listed))
                                      /\ previous' = NextPrevious(Totals(listed))
    BY <1>4 DEF CollectsWithNetwork, NettopAnswers
  <2> QED BY <1>3, <2>1
<1>5. CASE \E duration \in Durations, cpu \in Usages : CollectsWithoutNetwork(duration, cpu)
  <2>1. deltas' = NoDeltas /\ network_io' = "degraded"
    BY <1>5 DEF CollectsWithoutNetwork, NettopFails
  <2> QED BY <2>1 DEF NoDeltas
<1> QED BY <1>1, <1>4, <1>5

\* Type correctness of the collector and of what is stored of it; in particular no rank exceeds
\* its list's limit, and the evidence of an event is made of stored samples only.
THEOREM HistoryTypeCorrect == HistorySpec => []HistoryTypeOK
<1> QED BY HistoryInitially, HistoryStep, TypeFollows, PTL DEF HistorySpec

\* Nobody is charged with what another process with the same pid has transferred, and a process
\* is charged whenever nettop has listed it twice, for any number of pids, reuses and transfers.
THEOREM DeltasAreTheirOwn == HistorySpec => DeltasBelongToTheirProcess
<1> QED BY HistoryInitially, HistoryStep, ChargeStep, PTL
        DEF HistorySpec, DeltasBelongToTheirProcess

\* The evidence never exceeds its cap, and what the cap leaves out of the prelude is the oldest.
THEOREM NewestEvidence == HistorySpec => []NewestEvidenceIsKept
<1>1. HistoryInv => NewestEvidenceIsKept
  BY DEF HistoryInv, EvidenceInv
<1> QED BY <1>1, HistoryInitially, HistoryStep, PTL DEF HistorySpec

\* An event is explained by the highest ranked processes of its time, unless their snapshot had
\* grown stale, which takes a failed refresh or a collection longer than an interval.  The
\* periods, durations, limits and caps are arbitrary, but for what config.rs validates.
THEOREM EventsExplained == HistorySpec => []EventsAreExplained
<1>1. HistoryInv => EventsAreExplained
  BY DEF HistoryInv, EvidenceInv
<1> QED BY <1>1, HistoryInitially, HistoryStep, PTL DEF HistorySpec

----------------------------------------------------------------------------
(* The dashboard: its invariant. *)

Querying == {q \in Requests : handler[q] = "querying"}

ServerInv == ServerTypeOK /\ SlotsAreAccountedFor

\* A refresh in flight was started for the chosen range, unless the range has changed since:
\* then another one is queued, or the slider's timer is running.
InFlightIsChosen == refreshing /\ ~queued /\ ~navTimer => asked = range

ClientInv ==
    /\ ClientTypeOK
    /\ InFlightIsChosen
    /\ HealthyViewIsTheChosenOne
    /\ AutoRefreshFollowsTheView

IInv == ServerInv /\ ClientInv /\ TypeOK

----------------------------------------------------------------------------
(* The server: how the number of querying handlers changes. *)

LEMMA QueryingFinite == IsFiniteSet(Querying) /\ Cardinality(Querying) \in Nat
<1>1. Querying \subseteq Requests
  BY DEF Querying
<1>2. IsFiniteSet(Querying)
  BY <1>1, ServerAssumption, FS_Subset
<1> QED BY <1>2, FS_CardinalityType

LEMMA HandlerStarts ==
    ASSUME ServerTypeOK, NEW q \in Requests, handler[q] = "none",
           handler' = [handler EXCEPT ![q] = "querying"]
    PROVE  Cardinality(Querying') = Cardinality(Querying) + 1
<1>1. Querying' = Querying \cup {q} /\ q \notin Querying
  BY DEF Querying, ServerTypeOK
<1> QED BY <1>1, QueryingFinite, FS_AddElement

LEMMA HandlerEnds ==
    ASSUME ServerTypeOK, NEW q \in Requests, handler[q] = "querying",
           handler' = [handler EXCEPT ![q] = "none"]
    PROVE  Cardinality(Querying') = Cardinality(Querying) - 1
<1>1. Querying' = Querying \ {q} /\ q \in Querying
  BY DEF Querying, ServerTypeOK
<1> QED BY <1>1, QueryingFinite, FS_RemoveElement

LEMMA ServerInitial == ServerInit => ServerInv
<1> SUFFICES ASSUME ServerInit PROVE ServerInv
  OBVIOUS
<1>1. ServerTypeOK
  BY ServerAssumption DEF ServerInit, ServerTypeOK
<1>2. {q \in Requests : handler[q] = "querying"} = {}
  BY DEF ServerInit
<1>3. SlotsAreAccountedFor
  BY <1>2, FS_EmptySet, ServerAssumption DEF SlotsAreAccountedFor, ServerInit
<1> QED BY <1>1, <1>3 DEF ServerInv

\* A step of the server, whoever causes it.
ServerStep ==
    \/ \E q \in Requests : Admit(q) \/ FinishQuery(q) \/ Respond(q) \/ Disconnect(q)
    \/ Signal \/ Stop \/ UNCHANGED serverVars

LEMMA ServerStepKeepsInv == ServerInv /\ ServerStep => ServerInv'
<1> SUFFICES ASSUME ServerInv, ServerStep PROVE ServerInv'
  OBVIOUS
<1>0. ServerTypeOK /\ permits + Cardinality(Querying) = Slots
  BY DEF ServerInv, SlotsAreAccountedFor, Querying
<1> DEFINE Accounted == permits' + Cardinality(Querying') = Slots
<1>1. ASSUME NEW q \in Requests, Admit(q)
      PROVE  ServerTypeOK' /\ Accounted
  <2>1. Cardinality(Querying') = Cardinality(Querying) + 1
    BY <1>0, <1>1, HandlerStarts DEF Admit, Free
  <2>2. permits' = permits - 1 /\ permits \in 1 .. Slots
    BY <1>0, <1>1, ServerAssumption DEF Admit, Busy, ServerTypeOK
  <2>3. Accounted
    BY <1>0, <2>1, <2>2, QueryingFinite, ServerAssumption DEF ServerTypeOK
  <2>4. ServerTypeOK'
    BY <1>0, <1>1, <2>2, ServerAssumption DEF Admit, ServerTypeOK
  <2> QED BY <2>3, <2>4
<1>2. ASSUME NEW q \in Requests, Respond(q) \/ Disconnect(q)
      PROVE  ServerTypeOK' /\ Accounted
  <2>1. Cardinality(Querying') = Cardinality(Querying) - 1
    BY <1>0, <1>2, HandlerEnds DEF Respond, Disconnect
  <2>2. Cardinality(Querying') \in Nat /\ permits' = permits + 1
    BY <1>2, QueryingFinite, FS_Subset, FS_CardinalityType, ServerAssumption
       DEF Respond, Disconnect, Querying
  <2>3. Accounted /\ permits' \in 0 .. Slots
    BY <1>0, <2>1, <2>2, QueryingFinite, ServerAssumption DEF ServerTypeOK
  <2>4. ServerTypeOK'
    BY <1>0, <1>2, <2>3 DEF Respond, Disconnect, ServerTypeOK
  <2> QED BY <2>3, <2>4
<1>3. ASSUME NEW q \in Requests, FinishQuery(q)
      PROVE  ServerTypeOK' /\ Accounted
  BY <1>0, <1>3 DEF FinishQuery, ServerTypeOK, Querying
<1>4. CASE Signal \/ Stop \/ UNCHANGED serverVars
  BY <1>0, <1>4 DEF Signal, Stop, serverVars, ServerTypeOK, Querying, ServerInv,
                    SlotsAreAccountedFor
<1>5. ServerTypeOK' /\ Accounted => ServerInv'
  BY DEF ServerInv, SlotsAreAccountedFor, Querying
<1> QED BY <1>1, <1>2, <1>3, <1>4, <1>5 DEF ServerStep

----------------------------------------------------------------------------
(* The client. *)

LEMMA ClientInitial == ClientInit => ClientInv
BY ClientAssumption
   DEF ClientInit, ClientInv, ClientTypeOK, InFlightIsChosen, HealthyViewIsTheChosenOne,
       AutoRefreshFollowsTheView, Parts, Ranges

LEMMA UserStepKeepsInv == ClientInv /\ UserStep => ClientInv'
<1> SUFFICES ASSUME ClientInv, UserStep PROVE ClientInv'
  OBVIOUS
<1> USE ClientAssumption
    DEF ClientInv, ClientTypeOK, InFlightIsChosen, HealthyViewIsTheChosenOne,
        AutoRefreshFollowsTheView, Parts, Ranges, Refresh, BeginRefresh, chosen, timers,
        shown, refreshVars
<1>1. CASE ClickRefresh
  BY <1>1 DEF ClickRefresh
<1>2. ASSUME NEW preset \in Presets, SetPreset(preset) PROVE ClientInv'
  BY <1>2 DEF SetPreset
<1>3. CASE GoLive
  BY <1>3 DEF GoLive
<1>4. ASSUME NEW window \in Windows, ApplyCustomRange(window) PROVE ClientInv'
  BY <1>4 DEF ApplyCustomRange
<1>5. ASSUME NEW window \in Windows, Navigate(window) PROVE ClientInv'
  BY <1>5 DEF Navigate, NavigateToStart
<1>6. ASSUME NEW window \in Windows, Slide(window) PROVE ClientInv'
  BY <1>6 DEF Slide, NavigateToStart
<1>7. CASE ToggleAutoRefresh
  BY <1>7 DEF ToggleAutoRefresh
<1> HIDE DEF ClientInv
<1> QED BY <1>1, <1>2, <1>3, <1>4, <1>5, <1>6, <1>7 DEF UserStep

LEMMA TimerStepKeepsInv == ClientInv /\ TimerStep => ClientInv'
<1> SUFFICES ASSUME ClientInv, TimerStep PROVE ClientInv'
  OBVIOUS
<1> USE ClientAssumption
    DEF ClientInv, ClientTypeOK, InFlightIsChosen, HealthyViewIsTheChosenOne,
        AutoRefreshFollowsTheView, Parts, Ranges, Refresh, BeginRefresh, chosen, shown
<1>1. CASE NavTimerFires
  BY <1>1 DEF NavTimerFires
<1>2. CASE TimerFires
  BY <1>2 DEF TimerFires
<1> HIDE DEF ClientInv
<1> QED BY <1>1, <1>2 DEF TimerStep

\* A truth value is stored in a variable: both halves of what the invariant needs of it.
LEMMA LiveButton ==
    ASSUME liveDisabled' = (range \in Presets), range' = range
    PROVE  liveDisabled' \in BOOLEAN /\ (liveDisabled' <=> range' \in Presets)
<1>1. CASE range \in Presets
  <2>1. liveDisabled' = TRUE
    BY <1>1, Zenon
  <2> QED BY <1>1, <2>1
<1>2. CASE range \notin Presets
  <2>1. (range \in Presets) = FALSE
    BY <1>2
  <2>2. liveDisabled' = FALSE
    BY <2>1
  <2> QED BY <1>2, <2>2
<1> QED BY <1>1, <1>2

LEMMA AnswerKeepsInv ==
    ASSUME ClientInv, NEW part \in Parts,
           FirstAnswer(part) \/ LastAnswer(part) \/ FailedAnswer(part)
    PROVE  ClientInv'
<1> USE DEF EndRefresh, BeginRefresh, ScheduleRefresh, chosen, timers, shown
<1>1. CASE FirstAnswer(part)
  BY <1>1 DEF FirstAnswer, ClientInv, ClientTypeOK, InFlightIsChosen, HealthyViewIsTheChosenOne,
              AutoRefreshFollowsTheView, Parts, Ranges
<1>2. CASE LastAnswer(part)
  <2>1. UNCHANGED <<range, liveRange, auto, navTimer>> /\ snapshot' = asked /\ queued' = FALSE
    BY <1>2 DEF LastAnswer
  <2>2. liveDisabled' \in BOOLEAN /\ (liveDisabled' <=> range' \in Presets)
    BY <1>2, LiveButton DEF LastAnswer
  <2>3. CASE queued
    <3>1. /\ refreshing' = TRUE /\ asked' = range /\ awaiting' = Parts
          /\ badge' = "loading" /\ timer' = timer
      BY <1>2, <2>3 DEF LastAnswer
    <3> QED
      BY <2>1, <2>2, <3>1
         DEF ClientInv, ClientTypeOK, InFlightIsChosen, HealthyViewIsTheChosenOne,
             AutoRefreshFollowsTheView, Parts
  <2>4. CASE ~queued
    <3>1. /\ refreshing' = FALSE /\ awaiting' = {} /\ badge' = "healthy"
          /\ timer' = auto /\ asked' = asked
      BY <1>2, <2>4 DEF LastAnswer
    <3>2. refreshing
      BY <1>2 DEF LastAnswer, ClientInv, ClientTypeOK
    <3> QED
      BY <2>1, <2>2, <2>4, <3>1, <3>2
         DEF ClientInv, ClientTypeOK, InFlightIsChosen, HealthyViewIsTheChosenOne,
             AutoRefreshFollowsTheView
  <2> QED BY <2>3, <2>4
<1>3. CASE FailedAnswer(part)
  BY <1>3 DEF FailedAnswer, ClientInv, ClientTypeOK, InFlightIsChosen, HealthyViewIsTheChosenOne,
              AutoRefreshFollowsTheView, Parts, Ranges
<1> QED BY <1>1, <1>2, <1>3

LEMMA ClientUnchanged == ClientInv /\ UNCHANGED clientVars => ClientInv'
BY DEF clientVars, chosen, timers, shown, refreshVars, ClientInv, ClientTypeOK, InFlightIsChosen,
       HealthyViewIsTheChosenOne, AutoRefreshFollowsTheView

----------------------------------------------------------------------------
(* The dashboard. *)

LEMMA InitInvariant == Init => IInv
BY ServerInitial, ClientInitial DEF Init, IInv, TypeOK, ServerInv, ClientInv

LEMMA NextInvariant == IInv /\ [Next]_vars => IInv'
<1> SUFFICES ASSUME IInv, [Next]_vars PROVE IInv'
  OBVIOUS
<1>1. ServerInv /\ ClientInv /\ purpose \in [Requests -> Parts \cup {Other}]
  BY DEF IInv, TypeOK
<1>2. ServerStep
  BY DEF Next, vars, ServerStep, ClientSteps, Reaches, IsRefused, Succeeds, Fails, QueryEnds,
         OtherReaches, OtherIsAnswered, OtherGoesAway, ServerStops
<1>3. \/ UserStep \/ TimerStep \/ UNCHANGED clientVars
      \/ \E part \in Parts : FirstAnswer(part) \/ LastAnswer(part) \/ FailedAnswer(part)
  BY DEF Next, vars, ClientSteps, Reaches, IsRefused, Succeeds, Fails, QueryEnds, OtherReaches,
         OtherIsAnswered, OtherGoesAway, ServerStops
<1>4. purpose' \in [Requests -> Parts \cup {Other}]
  BY <1>1 DEF Next, vars, ClientSteps, Reaches, IsRefused, Succeeds, Fails, QueryEnds,
              OtherReaches, OtherIsAnswered, OtherGoesAway, ServerStops, Abandon
<1>5. ServerInv'
  BY <1>1, <1>2, ServerStepKeepsInv
<1>6. ClientInv'
  BY <1>1, <1>3, UserStepKeepsInv, TimerStepKeepsInv, AnswerKeepsInv, ClientUnchanged
<1> QED BY <1>4, <1>5, <1>6 DEF IInv, TypeOK, ServerInv, ClientInv

\* Type correctness of the server and the client; in particular a refresh is in flight exactly
\* while one of its requests is unanswered, and nothing is queued without one.
THEOREM TypeCorrect == Spec => []TypeOK
<1>1. IInv => TypeOK
  BY DEF IInv
<1> QED BY <1>1, InitInvariant, NextInvariant, PTL DEF Spec

\* No slot is lost or handed out twice, for any number of slots and of requests that come, are
\* answered, fail or are given up.
THEOREM SlotsAccounted == Spec => []SlotsAreAccountedFor
<1>1. IInv => SlotsAreAccountedFor
  BY DEF IInv, ServerInv
<1> QED BY <1>1, InitInvariant, NextInvariant, PTL DEF Spec

\* Whatever refreshes, navigation, timers and answers overlap, a healthy badge stands over the
\* chosen range, for all sets of ranges.
THEOREM HealthyView == Spec => []HealthyViewIsTheChosenOne
<1>1. IInv => HealthyViewIsTheChosenOne
  BY DEF IInv, ClientInv
<1> QED BY <1>1, InitInvariant, NextInvariant, PTL DEF Spec

\* The automatic refresh neither disturbs a historical view nor falls asleep in a live one.
THEOREM AutoRefresh == Spec => []AutoRefreshFollowsTheView
<1>1. IInv => AutoRefreshFollowsTheView
  BY DEF IInv, ClientInv
<1> QED BY <1>1, InitInvariant, NextInvariant, PTL DEF Spec
=============================================================================
