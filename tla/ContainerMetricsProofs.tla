----------------------- MODULE ContainerMetricsProofs -----------------------
(***************************************************************************)
(* Theorems about ContainerMetrics, for any containers, sizes and units.   *)
(***************************************************************************)
EXTENDS ContainerMetrics, FiniteSetTheorems, TLAPS

-----------------------------------------------------------------------------
(* Sums.  Induction by hand: of the sets for which a fact about sums fails *)
(* none is smallest, and so there are none.                                *)

\* Every non-empty set of natural numbers has a least member.
LEMMA LeastNumber ==
    ASSUME NEW T \in SUBSET Nat, T # {}
    PROVE  \E n \in T : \A m \in T : n <= m
<1> DEFINE R == OpToRel(<, Nat)
<1>1. \E n \in T : \A m \in T : <<m, n>> \notin R
    BY NatLessThanWellFounded, WFMin, Zenon
<1>2. \A m, n \in Nat : <<m, n>> \notin R => n <= m
    BY DEF OpToRel
<1>3. QED
    BY <1>1, <1>2

\* Among sets of elements of a finite set there is a smallest one.
LEMMA SmallestSet ==
    ASSUME NEW S, IsFiniteSet(S), NEW T \in SUBSET SUBSET S, T # {}
    PROVE  \E U \in T : \A V \in T : V \subseteq U => V = U
<1>1. IsWellFoundedOn(StrictSubsetOrdering(S), SUBSET S)
    BY FS_StrictSubsetOrderingWellFounded, FS_FiniteSubsetsOfFinite
<1>2. PICK U \in T : \A V \in T : <<V, U>> \notin StrictSubsetOrdering(S)
    BY <1>1, WFMin, Zenon
<1>3. \A V \in T : V \subseteq U => V = U
    BY <1>2 DEF StrictSubsetOrdering
<1>4. QED
    BY <1>3

-----------------------------------------------------------------------------

One(s) == CHOOSE x \in s : TRUE

AddsUp(sums, f, family) ==
    sums = [s \in family |-> IF s = {} THEN 0 ELSE f[One(s)] + sums[s \ {One(s)}]]

Sums(f, S) == CHOOSE sums : AddsUp(sums, f, SUBSET S)

LEMMA SumsExist ==
    ASSUME NEW f, NEW S, IsFiniteSet(S)
    PROVE  AddsUp(Sums(f, S), f, SUBSET S)
<1> DEFINE UpTo(n) == {s \in SUBSET S : Cardinality(s) <= n}
           Failing == {n \in Nat : ~ \E sums : AddsUp(sums, f, UpTo(n))}
<1>1. \A s \in SUBSET S : IsFiniteSet(s) /\ Cardinality(s) \in Nat
    BY FS_Subset, FS_CardinalityType
<1>2. ASSUME NEW s \in SUBSET S, s # {}
      PROVE  /\ s \ {One(s)} \in SUBSET S
             /\ Cardinality(s \ {One(s)}) = Cardinality(s) - 1
    <2>1. One(s) \in s
        BY <1>2 DEF One
    <2>2. QED
        BY <1>1, <2>1, FS_RemoveElement
<1>3. ASSUME Failing # {} PROVE FALSE
    <2>1. PICK n \in Failing : \A m \in Failing : n <= m
        BY <1>3, LeastNumber
    <2>2. CASE n = 0
        <3>1. \A s \in UpTo(0) : s = {}
            BY <1>1, FS_EmptySet
        <3>2. AddsUp([s \in UpTo(0) |-> 0], f, UpTo(0))
            BY <3>1 DEF AddsUp
        <3>3. QED
            BY <2>1, <2>2, <3>2
    <2>3. CASE n # 0
        <3>0. n \in Nat /\ \A m \in Failing : n <= m
            BY <2>1, Zenon
        <3>1. n \in Nat /\ n - 1 \in Nat /\ n - 1 \notin Failing
            <4> HIDE DEF Failing
            <4> QED
                BY <2>3, <3>0
        <3>2. PICK g : AddsUp(g, f, UpTo(n - 1))
            BY <3>1
        <3> DEFINE h == [s \in UpTo(n) |->
                            IF s = {} THEN 0 ELSE f[One(s)] + g[s \ {One(s)}]]
        <3>3. ASSUME NEW s \in UpTo(n), s # {} PROVE s \ {One(s)} \in UpTo(n - 1)
            BY <1>1, <1>2, <3>1, <3>3
        <3>4. ASSUME NEW s \in UpTo(n - 1) PROVE s \in UpTo(n) /\ h[s] = g[s]
            <4>1. s \in UpTo(n)
                BY <1>1, <3>1
            <4>2. g[s] = IF s = {} THEN 0 ELSE f[One(s)] + g[s \ {One(s)}]
                BY <3>2, Zenon DEF AddsUp
            <4>3. QED
                BY <4>1, <4>2
        <3>5. AddsUp(h, f, UpTo(n))
            BY <3>3, <3>4 DEF AddsUp
        <3>6. QED
            BY <2>1, <3>5
    <2>4. QED
        BY <2>2, <2>3
<1>4. UpTo(Cardinality(S)) = SUBSET S
    BY FS_Subset
<1>5. \E sums : AddsUp(sums, f, UpTo(Cardinality(S)))
    BY <1>3, FS_CardinalityType
<1>6. QED
    BY <1>4, <1>5 DEF Sums

-----------------------------------------------------------------------------

\* The sum of f over U, a set of elements of S.
Total(f, S, U) == Sums(f, S)[U]

LEMMA SumIsTotal ==
    ASSUME NEW f, NEW S, DOMAIN f = S PROVE SumFunction(f) = Total(f, S, S)
    BY DEF SumFunction, SumFunctionOnSet, FoldFunctionOnSet, MapThenFoldSet, Total,
           Sums, AddsUp, One

LEMMA TotalUnfolds ==
    ASSUME NEW f, NEW S, IsFiniteSet(S)
    PROVE  /\ Total(f, S, {}) = 0
           /\ \A U \in SUBSET S : U # {} =>
                 /\ One(U) \in U
                 /\ Total(f, S, U) = f[One(U)] + Total(f, S, U \ {One(U)})
<1> DEFINE sums == Sums(f, S)
<1>0. AddsUp(sums, f, SUBSET S)
    BY SumsExist
<1> HIDE DEF sums
<1>1. sums = [s \in SUBSET S |-> IF s = {} THEN 0 ELSE f[One(s)] + sums[s \ {One(s)}]]
    BY <1>0, Zenon DEF AddsUp
<1>2. \A U \in SUBSET S :
         sums[U] = IF U = {} THEN 0 ELSE f[One(U)] + sums[U \ {One(U)}]
    BY <1>1, Zenon
<1>3. \A U : U # {} => One(U) \in U
    BY DEF One
<1>4. QED
    BY <1>2, <1>3 DEF Total, sums

LEMMA TotalIsNat ==
    ASSUME NEW S, IsFiniteSet(S), NEW f \in [S -> Nat], NEW U \in SUBSET S
    PROVE  Total(f, S, U) \in Nat
<1> DEFINE Failing == {V \in SUBSET S : Total(f, S, V) \notin Nat}
<1>1. ASSUME Failing # {} PROVE FALSE
    <2>0. Failing \in SUBSET SUBSET S
        OBVIOUS
    <2>1. PICK V \in Failing : \A W \in Failing : W \subseteq V => W = V
        <3> HIDE DEF Failing
        <3> QED
            BY <1>1, <2>0, SmallestSet
    <2>2. V # {}
        <3>1. Total(f, S, V) \notin Nat /\ 0 \in Nat
            BY <2>1
        <3>2. Total(f, S, {}) = 0
            BY TotalUnfolds
        <3>3. QED
            BY <3>1, <3>2, Zenon
    <2>3. /\ One(V) \in V
          /\ Total(f, S, V) = f[One(V)] + Total(f, S, V \ {One(V)})
        BY <2>1, <2>2, TotalUnfolds
    <2>4. Total(f, S, V \ {One(V)}) \in Nat
        BY <2>1, <2>3
    <2>5. f[One(V)] \in Nat
        BY <2>1, <2>3
    <2>6. Total(f, S, V) \in Nat
        BY <2>3, <2>4, <2>5
    <2>7. QED
        BY <2>1, <2>6
<1>2. QED
    BY <1>1

\* The order of addition does not matter.
LEMMA TotalTakesAny ==
    ASSUME NEW S, IsFiniteSet(S), NEW f \in [S -> Nat],
           NEW U \in SUBSET S, NEW x \in U
    PROVE  Total(f, S, U) = f[x] + Total(f, S, U \ {x})
<1> DEFINE Failing == {V \in SUBSET S : \E y \in V :
                          Total(f, S, V) # f[y] + Total(f, S, V \ {y})}
<1>1. ASSUME Failing # {} PROVE FALSE
    <2>0. Failing \in SUBSET SUBSET S
        OBVIOUS
    <2>1. PICK V \in Failing : \A W \in Failing : W \subseteq V => W = V
        <3> HIDE DEF Failing
        <3> QED
            BY <1>1, <2>0, SmallestSet
    <2>2. PICK y \in V : Total(f, S, V) # f[y] + Total(f, S, V \ {y})
        BY <2>1
    <2> DEFINE z == One(V)
    <2>3. V # {} /\ z \in V /\ Total(f, S, V) = f[z] + Total(f, S, V \ {z})
        BY <2>1, <2>2, TotalUnfolds
    <2> HIDE DEF z
    <2>4. y # z
        BY <2>2, <2>3
    <2>5. V \ {z} \in SUBSET S /\ V \ {y} \in SUBSET S /\ y \in V \ {z} /\ z \in V \ {y}
          /\ V \ {z} \notin Failing /\ V \ {y} \notin Failing
        BY <2>1, <2>2, <2>3, <2>4
    <2>6. /\ Total(f, S, V \ {z}) = f[y] + Total(f, S, (V \ {z}) \ {y})
          /\ Total(f, S, V \ {y}) = f[z] + Total(f, S, (V \ {y}) \ {z})
        BY <2>5, Zenon
    <2>7. (V \ {z}) \ {y} = (V \ {y}) \ {z} /\ (V \ {z}) \ {y} \in SUBSET S
        BY <2>5
    <2>8. f[y] \in Nat /\ f[z] \in Nat /\ Total(f, S, (V \ {y}) \ {z}) \in Nat
        BY <2>5, <2>7, TotalIsNat
    <2>9. \A k, l, m \in Nat : k + (l + m) = l + (k + m)
        OBVIOUS
    <2> DEFINE rest == Total(f, S, (V \ {y}) \ {z})
    <2>10. f[z] + (f[y] + rest) = f[y] + (f[z] + rest)
        BY <2>8, <2>9, Zenon
    <2>11. Total(f, S, V) = f[z] + (f[y] + rest)
        BY <2>3, <2>6, <2>7, Zenon
    <2>12. QED
        BY <2>2, <2>6, <2>10, <2>11, Zenon
<1>2. QED
    BY <1>1

\* Larger terms, and more of them, make a larger sum.
LEMMA TotalGrows ==
    ASSUME NEW S, IsFiniteSet(S), NEW f \in [S -> Nat], NEW g \in [S -> Nat],
           NEW U \in SUBSET S, NEW V \in SUBSET S,
           \A x \in U : IF x \in V THEN f[x] <= g[x] ELSE f[x] = 0
    PROVE  Total(f, S, U) <= Total(g, S, V)
<1> DEFINE Covers(W, X) == \A x \in W : IF x \in X THEN f[x] <= g[x] ELSE f[x] = 0
           Failing == {W \in SUBSET S : \E X \in SUBSET S :
                          Covers(W, X) /\ ~(Total(f, S, W) <= Total(g, S, X))}
<1>1. ASSUME Failing # {} PROVE FALSE
    <2>0. Failing \in SUBSET SUBSET S
        OBVIOUS
    <2>1. PICK W \in Failing : \A Y \in Failing : Y \subseteq W => Y = W
        <3> HIDE DEF Failing
        <3> QED
            BY <1>1, <2>0, SmallestSet
    <2>2. PICK X \in SUBSET S : Covers(W, X) /\ ~(Total(f, S, W) <= Total(g, S, X))
        BY <2>1
    <2>3. Total(f, S, {}) = 0 /\ Total(g, S, X) \in Nat
        BY TotalUnfolds, TotalIsNat
    <2>4. W # {}
        BY <2>2, <2>3
    <2>5. PICK x \in W : TRUE
        BY <2>4
    <2>6. /\ W \ {x} \in SUBSET S /\ X \ {x} \in SUBSET S /\ W \ {x} \notin Failing
          /\ f[x] \in Nat /\ g[x] \in Nat
          /\ Covers(W \ {x}, X) /\ Covers(W \ {x}, X \ {x})
        BY <2>1, <2>2, <2>5
    <2>7. /\ Total(f, S, W \ {x}) <= Total(g, S, X)
          /\ Total(f, S, W \ {x}) <= Total(g, S, X \ {x})
        BY <2>6
    <2>8. Total(f, S, W) = f[x] + Total(f, S, W \ {x}) /\ Total(f, S, W \ {x}) \in Nat
          /\ Total(g, S, X \ {x}) \in Nat
        BY <2>1, <2>5, <2>6, TotalTakesAny, TotalIsNat
    <2>9. CASE x \in X
        <3>1. Total(g, S, X) = g[x] + Total(g, S, X \ {x}) /\ f[x] <= g[x]
            BY <2>2, <2>5, <2>9, TotalTakesAny
        <3>2. QED
            BY <2>2, <2>6, <2>7, <2>8, <3>1
    <2>10. CASE x \notin X
        <3>1. f[x] = 0
            BY <2>2, <2>5, <2>10
        <3>2. QED
            BY <2>2, <2>7, <2>8, <3>1
    <2>11. QED
        BY <2>9, <2>10
<1>2. QED
    BY <1>1

-----------------------------------------------------------------------------

USE UnitsAssumption, SizesAssumption, PollsAssumption

LEMMA ProductIsNat == ASSUME NEW x \in Nat, NEW y \in Nat PROVE x * y \in Nat
    BY Z3

LEMMA LargerIsNat ==
    ASSUME NEW x \in Nat, NEW y \in Nat
    PROVE  Larger(x, y) \in Nat /\ Larger(x, y) >= x /\ Larger(x, y) >= y
    BY DEF Larger

LEMMA FactorIsNat ==
    /\ DOMAIN Factor = {"B", "kB", "MB", "GB", "KiB", "MiB", "GiB"}
    /\ \A suffix \in DOMAIN Factor : Factor[suffix] \in Nat
<1>1. /\ Decimal \in Nat /\ Binary \in Nat
      /\ Decimal * Decimal \in Nat /\ Binary * Binary \in Nat
    BY ProductIsNat
<1>2. Decimal * Decimal * Decimal \in Nat /\ Binary * Binary * Binary \in Nat
    BY <1>1, ProductIsNat
<1>3. QED
    BY <1>1, <1>2 DEF Factor

Printed == MemSizes \cup IOSizes

\* What the sampler reads and what it stands for are natural numbers.
\* Cutting off what is not a whole byte leaves less than there was, by at most
\* a byte.
LEMMA TruncatedIsClose ==
    ASSUME NEW amount \in Nat, NEW short \in BOOLEAN
    PROVE  /\ Truncated(amount, short) \in Nat
           /\ Truncated(amount, short) <= amount
           /\ amount <= Truncated(amount, short) + Fine
<1>1. amount % Fine \in Nat /\ amount % Fine <= amount /\ amount % Fine <= Fine
    <2>1. Fine \in Nat \ {0}
        OBVIOUS
    <2>2. amount % Fine \in 0..Fine - 1
        BY <2>1
    <2>3. amount = Fine * (amount \div Fine) + (amount % Fine) /\ amount \div Fine \in Nat
        BY <2>1
    <2>4. Fine * (amount \div Fine) \in Nat
        BY <2>1, <2>3, ProductIsNat
    <2>5. QED
        BY <2>1, <2>2, <2>3, <2>4
<1>2. CASE short /\ amount % Fine = 0
    BY <1>1, <1>2 DEF Truncated, Larger
<1>3. CASE ~(short /\ amount % Fine = 0)
    BY <1>1, <1>3 DEF Truncated
<1>4. QED
    BY <1>2, <1>3

\* What the sampler reads and what it stands for are natural numbers.
LEMMA ParsedIsNat == ASSUME NEW size \in Printed PROVE ParseHumanBytes(size) \in Nat
<1>1. size.num \in Nat /\ size.short \in BOOLEAN
    BY DEF Printed
<1>2. CASE size.suffix \in DOMAIN Factor
    <2>1. size.num * Factor[size.suffix] \in Nat
        BY <1>1, <1>2, FactorIsNat, ProductIsNat
    <2>2. QED
        BY <1>1, <1>2, <2>1, TruncatedIsClose DEF ParseHumanBytes
<1>3. CASE size.suffix \notin DOMAIN Factor
    BY <1>3 DEF ParseHumanBytes
<1>4. QED
    BY <1>2, <1>3

LEMMA BytesIsNat == ASSUME NEW size \in Printed PROVE Bytes(size) \in Nat
<1>1. size.num \in Nat /\ (size.suffix = "TB" \/ size.suffix \in DOMAIN Factor)
    BY FactorIsNat DEF Printed
<1>2. Factor.GB \in Nat /\ Decimal * Factor.GB \in Nat
    BY FactorIsNat, ProductIsNat
<1>3. CASE size.suffix = "TB"
    BY <1>1, <1>2, <1>3, ProductIsNat DEF Bytes
<1>4. CASE size.suffix # "TB"
    <2>1. Factor[size.suffix] \in Nat
        BY <1>1, <1>4, FactorIsNat
    <2>2. QED
        BY <1>1, <1>4, <2>1, ProductIsNat DEF Bytes
<1>5. QED
    BY <1>3, <1>4

-----------------------------------------------------------------------------

\* While update adds entries, those still to be added are in the sample.
Typed == TypeOK /\ (phase = "update" => pending \subseteq DOMAIN sample)

LEMMA TypedIsInvariant == Spec => []Typed
<1>1. Init => Typed
    BY DEF Init, Typed, TypeOK, Nothing, Zero
<1>2. ASSUME Typed, [Next]_vars PROVE Typed'
    <2> USE DEF TypeOK, Typed
    <2>1. ASSUME NEW c \in Containers, Start(c) PROVE Typed'
        BY <1>2, <2>1 DEF Start, metrics
    <2>2. ASSUME NEW c \in Containers, Work(c) PROVE Typed'
        <3>1. PICK m \in MemSizes, n \in IOSizes :
                 /\ mem' = [mem EXCEPT ![c] = m]
                 /\ io' = [io EXCEPT ![c] = n]
                 /\ highest' = [highest EXCEPT ![c] = Larger(@, Bytes(m))]
            BY <2>2 DEF Work
        <3>2. Bytes(m) \in Nat
            BY BytesIsNat DEF Printed
        <3>3. Larger(highest[c], Bytes(m)) \in Nat
            BY <1>2, <3>2, LargerIsNat
        <3>4. highest' \in [Containers -> Nat]
            BY <1>2, <3>1, <3>3
        <3>5. QED
            BY <1>2, <2>2, <3>1, <3>4 DEF Work, metrics
    <2>3. ASSUME NEW c \in Containers, End(c) PROVE Typed'
        BY <1>2, <2>3 DEF End, metrics
    <2>4. ASSUME NEW c \in Containers, Read(c) PROVE Typed'
        BY <1>2, <2>4 DEF Read, engine, metrics, Entry
    <2>5. ASSUME NEW c \in Containers, AddEntry(c) PROVE Typed'
        <3> DEFINE used == ParseHumanBytes(sample[c].mem)
                   moved == ParseHumanBytes(sample[c].io)
        <3>1. used \in Nat /\ moved \in Nat
            BY <1>2, <2>5, ParsedIsNat DEF Printed, AddEntry
        <3>2. Larger(peakMem[c], used) \in Nat
            BY <1>2, <3>1, LargerIsNat
        <3>3. peakMem' \in [Containers -> Nat]
            BY <1>2, <2>5, <3>2 DEF AddEntry
        <3>4. current' \in [mem : Nat, io : Nat]
            BY <1>2, <2>5, <3>1 DEF AddEntry
        <3>5. DOMAIN known' \subseteq Containers
            BY <1>2, <2>5 DEF AddEntry, Metadata
        <3>6. QED
            BY <1>2, <2>5, <3>3, <3>4, <3>5 DEF AddEntry, engine
    <2>6. CASE Tick
        BY <1>2, <2>6 DEF Tick, engine, metrics, Up, Nothing
    <2>7. CASE PollFails
        BY <1>2, <2>7 DEF PollFails, engine, metrics, Nothing
    <2>8. CASE PollEnds
        BY <1>2, <2>8 DEF PollEnds, engine, metrics
    <2>9. CASE UpdateEnds
        <3>1. peakTotal' \in Nat /\ latestIO' \in Nat
            BY <1>2, <2>9, LargerIsNat DEF UpdateEnds
        <3>2. QED
            BY <1>2, <2>9, <3>1 DEF UpdateEnds, engine, Zero
    <2>10. CASE SamplerStops
        BY <1>2, <2>10 DEF SamplerStops, engine, metrics, Nothing
    <2>11. CASE PrintReport
        BY <1>2, <2>11 DEF PrintReport, engine, metrics
    <2>12. CASE UNCHANGED vars
        BY <1>2, <2>12 DEF vars, engine, metrics
    <2>13. QED
        BY <1>2, <2>1, <2>2, <2>3, <2>4, <2>5, <2>6, <2>7, <2>8, <2>9, <2>10,
           <2>11, <2>12 DEF Next, Reported
<1>3. QED
    BY <1>1, <1>2, PTL DEF Spec

\* Type correctness of ContainerMetrics: in particular no peak and no total is
\* ever anything but a natural number (update, main.go:138-227).
THEOREM MetricTypes == Spec => []TypeOK
<1>1. Typed => TypeOK
    BY DEF Typed
<1>2. QED
    BY <1>1, TypedIsInvariant, PTL

-----------------------------------------------------------------------------

\* While entries are added, what bounds the peaks is not the peak of the total
\* but what it is about to become.
Bounded ==
    \A c \in Containers :
        peakMem[c] <= IF phase = "update" THEN Larger(peakTotal, current.mem) ELSE peakTotal

\* Between two polls current is empty again.
Emptied == phase # "update" => current = Zero

LEMMA BoundedIsPreserved ==
    ASSUME Typed, Emptied, Bounded, [Next]_vars PROVE Emptied' /\ Bounded'
<1> USE DEF Bounded, Emptied
<1>1. ASSUME NEW c \in Containers, Start(c) \/ Work(c) \/ End(c) \/ Read(c)
      PROVE Emptied' /\ Bounded'
    BY <1>1 DEF Start, Work, End, Read, engine, metrics
<1>2. ASSUME NEW c \in Containers, AddEntry(c) PROVE Emptied' /\ Bounded'
    <2> DEFINE used == ParseHumanBytes(sample[c].mem)
    <2>1. used \in Nat
        BY <1>2, ParsedIsNat DEF Printed, AddEntry, Typed, TypeOK
    <2>2. phase = "update" /\ phase' = "update" /\ peakTotal' = peakTotal
          /\ peakMem' = [peakMem EXCEPT ![c] = Larger(@, used)]
          /\ current'.mem = current.mem + used
        BY <1>2 DEF AddEntry
    <2>3. current.mem \in Nat /\ peakTotal \in Nat /\ peakMem \in [Containers -> Nat]
        BY DEF Typed, TypeOK
    <2>4. ASSUME NEW d \in Containers
          PROVE peakMem'[d] <= Larger(peakTotal, current.mem + used)
        <3>1. peakMem[d] <= Larger(peakTotal, current.mem) /\ peakMem[d] \in Nat
            BY <2>2, <2>3
        <3>2. QED
            BY <2>1, <2>2, <2>3, <3>1 DEF Larger
    <2>5. QED
        BY <2>2, <2>4
<1>3. CASE UpdateEnds
    BY <1>3 DEF UpdateEnds
<1>4. CASE PollEnds
    <2>1. peakTotal \in Nat /\ Larger(peakTotal, 0) = peakTotal
        BY DEF Typed, TypeOK, Larger
    <2>2. QED
        BY <1>4, <2>1 DEF PollEnds, metrics, Zero
<1>5. CASE Tick \/ PollFails \/ SamplerStops \/ PrintReport \/ UNCHANGED vars
    BY <1>5 DEF Tick, PollFails, SamplerStops, PrintReport, vars, engine, metrics
<1>6. QED
    BY <1>1, <1>2, <1>3, <1>4, <1>5 DEF Next, Reported

\* The report never shows a container that used more than all of them: the
\* peak of every container is at most the peak of the total whenever update
\* does not hold mu (main.go:172-177, 206-208).
THEOREM PeaksStayWithinTotal == Spec => []PeaksWithinTotal
<1>1. Init => Emptied /\ Bounded
    BY DEF Init, Emptied, Bounded
<1>2. Bounded => PeaksWithinTotal
    BY DEF Bounded, PeaksWithinTotal
<1>3. Typed /\ Emptied /\ Bounded /\ [Next]_vars => Emptied' /\ Bounded'
    BY BoundedIsPreserved
<1>4. QED
    BY <1>1, <1>2, <1>3, TypedIsInvariant, PTL DEF Spec

\* No step lowers a peak or a total or changes what is known of a container
\* (main.go:148-226).
THEOREM MeasuresGrow == Spec => MeasuresOnlyGrow
<1> DEFINE Grow == /\ \A c \in Containers : peakMem'[c] >= peakMem[c]
                   /\ peakTotal' >= peakTotal /\ latestIO' >= latestIO
                   /\ \A c \in DOMAIN known : c \in DOMAIN known' /\ known'[c] = known[c]
<1>1. ASSUME Typed, [Next]_vars PROVE Grow
    <2>0. /\ peakMem \in [Containers -> Nat] /\ peakTotal \in Nat /\ latestIO \in Nat
          /\ current \in [mem : Nat, io : Nat]
        BY <1>1 DEF Typed, TypeOK
    <2>1. CASE UNCHANGED metrics
        BY <2>0, <2>1 DEF metrics
    <2>2. ASSUME NEW c \in Containers, AddEntry(c) PROVE Grow
        <3>1. ParseHumanBytes(sample[c].mem) \in Nat
            BY <1>1, <2>2, ParsedIsNat DEF Printed, AddEntry, Typed, TypeOK
        <3>2. \A d \in Containers : peakMem'[d] >= peakMem[d]
            BY <2>0, <2>2, <3>1 DEF AddEntry, Larger
        <3>3. \A d \in DOMAIN known : d \in DOMAIN known' /\ known'[d] = known[d]
            BY <2>2 DEF AddEntry, Metadata
        <3>4. QED
            BY <2>0, <2>2, <3>2, <3>3 DEF AddEntry
    <2>3. CASE UpdateEnds
        <3>1. peakTotal' >= peakTotal /\ latestIO' >= latestIO
            BY <2>0, <2>3, LargerIsNat DEF UpdateEnds
        <3>2. QED
            BY <2>0, <2>3, <3>1 DEF UpdateEnds
    <2>4. QED
        BY <1>1, <2>1, <2>2, <2>3 DEF Next, Start, Work, End, Read, Tick, PollFails,
           PollEnds, SamplerStops, PrintReport, Reported, vars
<1>2. QED
    BY <1>1, TypedIsInvariant, PTL DEF Spec, MeasuresOnlyGrow

-----------------------------------------------------------------------------
(* Display names *)

\* In any order of the containers, of two that are alike and have no role the
\* one that comes first has the smaller number.
LEMMA NumbersDiffer ==
    ASSUME DOMAIN known \subseteq Containers,
           NEW order \in Bijection(1..Cardinality(DOMAIN known), DOMAIN known),
           NEW i \in DOMAIN order, NEW j \in DOMAIN order, i < j,
           Alike(order[i]) = Alike(order[j]),
           order[j] \in Alike(order[j]), ~HasRole(order[j])
    PROVE  Number(order[i], order) # Number(order[j], order)
<1> DEFINE n == Cardinality(DOMAIN known)
           Before(k) == {l \in 1..n : order[l] \in Alike(order[j])
                                      /\ ~HasRole(order[l]) /\ l <= k}
<1>1. IsFiniteSet(DOMAIN known)
    BY ContainersAssumption, FS_Subset
<1>2. n \in Nat
    BY <1>1, FS_CardinalityType
<1>3. /\ order \in [1..n -> DOMAIN known]
      /\ \A k, l \in 1..n : order[k] = order[l] => k = l
    BY DEF Bijection, Injection, IsInjective
<1>4. Number(order[i], order) = Cardinality(Before(i))
    BY <1>2, <1>3 DEF Number
<1>5. Number(order[j], order) = Cardinality(Before(j))
    BY <1>2, <1>3 DEF Number
<1>6. IsFiniteSet(1..n)
    BY <1>2, FS_Interval
<1>7. IsFiniteSet(Before(j)) /\ Before(i) \subseteq Before(j)
    <2>1. Before(j) \subseteq 1..n /\ i \in 1..n /\ j \in 1..n
        BY <1>3
    <2>2. QED
        BY <1>2, <1>6, <2>1, FS_Subset
<1>8. j \in Before(j) /\ j \notin Before(i)
    BY <1>2, <1>3
<1>9. Cardinality(Before(i)) # Cardinality(Before(j))
    BY <1>7, <1>8, FS_Subset, FS_CardinalityType
<1>10. QED
    BY <1>4, <1>5, <1>9

\* Two containers that get the same display name in one walk of the map.
LEMMA EqualNamesEqualServices ==
    ASSUME DOMAIN known \subseteq Containers,
           NEW order \in Bijection(1..Cardinality(DOMAIN known), DOMAIN known),
           NEW c \in DOMAIN known, NEW d \in DOMAIN known, c # d,
           DisplayName(c, order) = DisplayName(d, order)
    PROVE  known[c].service # "" /\ known[c].service = known[d].service
<1>1. known[c].short = known[d].short
    BY DEF DisplayName
<1>2. Alike(c) = Alike(d) /\ c \in Alike(c) /\ d \in Alike(c)
    BY <1>1 DEF Alike
<1>3. Cardinality(Alike(c)) > 1
    <2>1. IsFiniteSet(Alike(c)) /\ IsFiniteSet({c, d})
        BY ContainersAssumption, FS_Subset, FS_EmptySet, FS_AddElement DEF Alike
    <2>2. Cardinality({c, d}) = 2
        <3>1. IsFiniteSet({c}) /\ Cardinality({c}) = 1 /\ {c, d} = {c} \cup {d}
            BY FS_Singleton
        <3>2. Cardinality({c} \cup {d}) = 1 + 1
            BY <3>1, FS_AddElement
        <3>3. 1 + 1 = 2
            OBVIOUS
        <3>4. QED
            BY <3>1, <3>2, <3>3, Zenon
    <2>3. QED
        BY <1>2, <2>1, <2>2, FS_Subset, FS_CardinalityType
<1>4. CASE HasRole(c) \/ HasRole(d)
    BY <1>2, <1>3, <1>4 DEF DisplayName, HasRole
<1>5. CASE ~HasRole(c) /\ ~HasRole(d)
    <2>1. Number(c, order) = Number(d, order)
        BY <1>2, <1>3, <1>5 DEF DisplayName
    <2>2. PICK i \in DOMAIN order, j \in DOMAIN order : order[i] = c /\ order[j] = d
        BY DEF Bijection, Surjection
    <2>3. i < j \/ j < i
        BY <2>2 DEF Bijection, Injection
    <2>4. CASE i < j
        BY <1>2, <1>5, <2>1, <2>2, <2>4, NumbersDiffer
    <2>5. CASE j < i
        BY <1>2, <1>5, <2>1, <2>2, <2>5, NumbersDiffer
    <2>6. QED
        BY <2>3, <2>4, <2>5
<1>6. QED
    BY <1>4, <1>5

\* There are no names before the report, and nothing is learnt after it.
Unreported == phase # "reported" => names = Nothing

\* The report calls two containers the same only if they run the same service
\* (main.go:617-644), for any number of containers, failed inspections and any
\* order of the map.
THEOREM NamesTellRoles == Spec => []NamesIdentifyRoles
<1>1. Init => Unreported /\ NamesIdentifyRoles
    BY DEF Init, Unreported, NamesIdentifyRoles, Nothing
<1>2. ASSUME Typed, Unreported, NamesIdentifyRoles, [Next]_vars
      PROVE  Unreported' /\ NamesIdentifyRoles'
    <2>1. CASE PrintReport
        <3>1. PICK order \in Bijection(1..Cardinality(DOMAIN known), DOMAIN known) :
                 names' = [c \in DOMAIN known |-> DisplayName(c, order)]
            BY <2>1 DEF PrintReport
        <3>2. known' = known /\ phase' = "reported" /\ DOMAIN known \subseteq Containers
            BY <1>2, <2>1 DEF PrintReport, metrics, Typed, TypeOK
        <3>3. ASSUME NEW c \in DOMAIN known, NEW d \in DOMAIN known, c # d,
                     names'[c] = names'[d]
              PROVE  known[c].service # "" /\ known[c].service = known[d].service
            BY <3>1, <3>2, <3>3, EqualNamesEqualServices
        <3>4. DOMAIN names' = DOMAIN known
            BY <3>1
        <3>5. NamesIdentifyRoles'
            <4>1. known' = known
                BY <3>2
            <4>2. QED
                BY <3>3, <3>4, <4>1, Zenon DEF NamesIdentifyRoles
        <3>6. Unreported'
            BY <3>2, Zenon DEF Unreported
        <3>7. QED
            BY <3>5, <3>6
    <2>2. ASSUME NEW c \in Containers, AddEntry(c)
          PROVE  Unreported' /\ NamesIdentifyRoles'
        BY <1>2, <2>2 DEF AddEntry, Unreported, NamesIdentifyRoles, Nothing
    <2>3. CASE UNCHANGED <<known, names>> /\ (phase' = "reported" <=> phase = "reported")
        BY <1>2, <2>3 DEF Unreported, NamesIdentifyRoles
    <2>4. QED
        BY <1>2, <2>1, <2>2, <2>3 DEF Next, Start, Work, End, Read, Tick, PollFails,
           PollEnds, UpdateEnds, SamplerStops, Reported, vars, metrics
<1>3. QED
    BY <1>1, <1>2, TypedIsInvariant, PTL DEF Spec
-----------------------------------------------------------------------------
(* What the totals are made of *)

\* Nothing that is read reads more than it is.
LEMMA ParsedIsAtMostBytes ==
    ASSUME NEW size \in Printed
    PROVE  /\ ParseHumanBytes(size) <= Bytes(size)
           /\ size.suffix # "TB" => Bytes(size) <= ParseHumanBytes(size) + Fine
<1>1. size.suffix = "TB" \/ size.suffix \in DOMAIN Factor
    BY FactorIsNat DEF Printed
<1>2. CASE size.suffix = "TB"
    <2>1. ParseHumanBytes(size) = 0
        BY <1>2, FactorIsNat DEF ParseHumanBytes
    <2>2. Bytes(size) \in Nat
        BY BytesIsNat
    <2>3. \A b \in Nat : 0 <= b
        OBVIOUS
    <2>4. QED
        BY <1>2, <2>1, <2>2, <2>3, Zenon
<1>3. CASE size.suffix # "TB"
    <2>1. /\ Bytes(size) = size.num * Factor[size.suffix]
          /\ ParseHumanBytes(size) = Truncated(Bytes(size), size.short)
        BY <1>1, <1>3 DEF ParseHumanBytes, Bytes
    <2>2. Bytes(size) \in Nat /\ size.short \in BOOLEAN
        BY BytesIsNat DEF Printed
    <2>3. QED
        BY <2>1, <2>2, TruncatedIsClose
<1>4. QED
    BY <1>2, <1>3

IOBytes == [c \in Containers |-> Bytes(io[c])]

\* What update reads of each entry of the sample.
SampledMem == [c \in Containers |-> Reading(c).mem]
SampledIO == [c \in Containers |-> Reading(c).io]

LEMMA SampledReads ==
    \A c \in Containers :
        /\ SampledMem[c] = IF c \in DOMAIN sample THEN ParseHumanBytes(sample[c].mem) ELSE 0
        /\ SampledIO[c] = IF c \in DOMAIN sample THEN ParseHumanBytes(sample[c].io) ELSE 0
    BY DEF SampledMem, SampledIO, Reading, Zero

Added == DOMAIN sample \ pending

TotalOf(f, U) == Total(f, Containers, U)

\* No entry of the sample and no peak is above what its container has used;
\* what has not started has done nothing.
Measured ==
    /\ \A c \in Containers : Bytes(mem[c]) <= highest[c] /\ peakMem[c] <= highest[c]
    /\ \A c \in Containers : status[c] = "new" => Bytes(io[c]) = 0
    /\ \A c \in DOMAIN sample :
          Bytes(sample[c].mem) <= highest[c] /\ Bytes(sample[c].io) <= Bytes(io[c])

\* During update current is the sum of the entries added so far; afterwards
\* the I/O total is at least that of the last sample.
Accounted ==
    /\ phase = "update" => /\ current.mem = TotalOf(SampledMem, Added)
                           /\ current.io = TotalOf(SampledIO, Added)
    /\ phase = "select" => TotalOf(SampledIO, DOMAIN sample) <= latestIO
    /\ peakTotal <= TotalOf(highest, Containers)
    /\ latestIO <= TotalOf(IOBytes, Containers)

Measures == Measured /\ Accounted

LEMMA TermsAreNat ==
    ASSUME TypeOK
    PROVE  /\ IOBytes \in [Containers -> Nat] /\ highest \in [Containers -> Nat]
           /\ SampledMem \in [Containers -> Nat] /\ SampledIO \in [Containers -> Nat]
<1>1. \A c \in Containers : Bytes(io[c]) \in Nat
    BY BytesIsNat DEF TypeOK, Printed
<1>2. \A c \in DOMAIN sample :
         ParseHumanBytes(sample[c].mem) \in Nat /\ ParseHumanBytes(sample[c].io) \in Nat
    BY ParsedIsNat DEF TypeOK, Printed
<1>3. 0 \in Nat
    OBVIOUS
<1>4. IOBytes \in [Containers -> Nat]
    BY <1>1 DEF IOBytes
<1>5. highest \in [Containers -> Nat]
    BY DEF TypeOK
<1>6. \A c \in Containers : SampledMem[c] \in Nat /\ SampledIO[c] \in Nat
    BY <1>2, <1>3, SampledReads, Zenon
<1>7. /\ SampledMem = [c \in Containers |-> SampledMem[c]]
      /\ SampledIO = [c \in Containers |-> SampledIO[c]]
    BY DEF SampledMem, SampledIO
<1>8. QED
    BY <1>4, <1>5, <1>6, <1>7

\* The sums of a sample are at most what its containers have used and done.
LEMMA SampledIsAtMostDone ==
    ASSUME TypeOK, Measured, NEW U \in SUBSET Containers
    PROVE  /\ TotalOf(SampledMem, U) <= TotalOf(highest, Containers)
           /\ TotalOf(SampledIO, U) <= TotalOf(IOBytes, Containers)
<1>1. ASSUME NEW c \in Containers
      PROVE  SampledMem[c] <= highest[c] /\ SampledIO[c] <= IOBytes[c]
    <2>1. highest[c] \in Nat /\ Bytes(io[c]) \in Nat /\ IOBytes[c] = Bytes(io[c])
        BY BytesIsNat DEF TypeOK, Printed, IOBytes
    <2>2. CASE c \in DOMAIN sample
        <3>1. sample[c].mem \in Printed /\ sample[c].io \in Printed
            BY <2>2 DEF TypeOK, Printed
        <3>2. /\ ParseHumanBytes(sample[c].mem) <= Bytes(sample[c].mem)
              /\ ParseHumanBytes(sample[c].io) <= Bytes(sample[c].io)
              /\ Bytes(sample[c].mem) \in Nat /\ Bytes(sample[c].io) \in Nat
              /\ ParseHumanBytes(sample[c].mem) \in Nat
              /\ ParseHumanBytes(sample[c].io) \in Nat
            BY <3>1, ParsedIsAtMostBytes, BytesIsNat, ParsedIsNat
        <3>3. Bytes(sample[c].mem) <= highest[c] /\ Bytes(sample[c].io) <= Bytes(io[c])
            BY <2>2 DEF Measured
        <3>4. /\ SampledMem[c] = ParseHumanBytes(sample[c].mem)
              /\ SampledIO[c] = ParseHumanBytes(sample[c].io)
            BY <2>2, SampledReads
        <3>5. \A k, l, m \in Nat : k <= l /\ l <= m => k <= m
            OBVIOUS
        <3>6. QED
            BY <2>1, <3>2, <3>3, <3>4, <3>5, Zenon
    <2>3. CASE c \notin DOMAIN sample
        <3>1. SampledMem[c] = 0 /\ SampledIO[c] = 0
            BY <2>3, SampledReads
        <3>2. \A k \in Nat : 0 <= k
            OBVIOUS
        <3>3. QED
            BY <2>1, <3>1, <3>2, Zenon
    <2>4. QED
        BY <2>2, <2>3
<1>2. QED
    BY <1>1, TermsAreNat, TotalGrows, ContainersAssumption DEF TotalOf

LEMMA MeasuredAtStart == ASSUME Init, Typed PROVE Measures
<1>1. PICK zero \in MemSizes \cap IOSizes :
         /\ Bytes(zero) = 0
         /\ mem = [c \in Containers |-> zero] /\ io = [c \in Containers |-> zero]
    BY DEF Init
<1>2. /\ highest = [c \in Containers |-> 0] /\ peakMem = [c \in Containers |-> 0]
      /\ DOMAIN sample = {} /\ phase = "select" /\ peakTotal = 0 /\ latestIO = 0
    BY DEF Init, Nothing
<1>3. Measured
    <2>1. 0 <= 0
        OBVIOUS
    <2>2. ASSUME NEW c \in Containers
          PROVE  mem[c] = zero /\ io[c] = zero /\ highest[c] = 0 /\ peakMem[c] = 0
        BY <1>1, <1>2
    <2>3. ASSUME NEW c \in Containers
          PROVE  /\ Bytes(mem[c]) <= highest[c] /\ peakMem[c] <= highest[c]
                 /\ Bytes(io[c]) = 0
        BY <1>1, <2>1, <2>2, Zenon
    <2>4. QED
        BY <1>2, <2>3 DEF Measured
<1>4. Total(SampledIO, Containers, {}) = 0
    BY TotalUnfolds, ContainersAssumption
<1>5. TotalOf(highest, Containers) \in Nat /\ TotalOf(IOBytes, Containers) \in Nat
    BY TermsAreNat, TotalIsNat, ContainersAssumption DEF TotalOf, Typed
<1>6. \A k \in Nat : 0 <= k
    OBVIOUS
<1>7. 0 \in Nat
    OBVIOUS
<1>8. Accounted
    BY <1>2, <1>4, <1>5, <1>6, <1>7, Zenon DEF Accounted, TotalOf
<1>9. QED
    BY <1>3, <1>8 DEF Measures

\* What a container has used and done never becomes less.
EngineGrew ==
    \A c \in Containers :
        /\ highest[c] <= highest'[c] /\ Bytes(io[c]) <= Bytes(io'[c])
        /\ Bytes(mem'[c]) <= highest'[c]
        /\ status'[c] = "new" => status[c] = "new" /\ io'[c] = io[c]

LEMMA EngineGrows ==
    ASSUME Typed, Measured, [Next]_vars PROVE EngineGrew
<1>1. /\ status \in [Containers -> {"new", "up", "gone"}]
      /\ mem \in [Containers -> MemSizes] /\ io \in [Containers -> IOSizes]
      /\ highest \in [Containers -> Nat]
    BY DEF Typed, TypeOK
<1>2. ASSUME NEW c \in Containers
      PROVE  /\ highest[c] \in Nat /\ Bytes(io[c]) \in Nat
             /\ Bytes(mem[c]) <= highest[c]
    BY <1>1, BytesIsNat DEF Measured, Printed
<1>3. \A k \in Nat : k <= k
    OBVIOUS
<1>4. ASSUME \/ UNCHANGED engine
             \/ /\ UNCHANGED <<mem, io, highest>>
                /\ \E c \in Containers, s \in {"up", "gone"} : status' = [status EXCEPT ![c] = s]
      PROVE  EngineGrew
    <2>1. mem' = mem /\ io' = io /\ highest' = highest
        BY <1>4 DEF engine
    <2>2. \A c \in Containers : status'[c] = "new" => status[c] = "new"
        BY <1>1, <1>4 DEF engine
    <2>3. QED
        BY <1>2, <1>3, <2>1, <2>2, Zenon DEF EngineGrew
<1>5. ASSUME NEW c \in Containers, Work(c) PROVE EngineGrew
    <2>1. PICK m \in MemSizes, n \in IOSizes :
             /\ Bytes(io[c]) <= Bytes(n)
             /\ mem' = [mem EXCEPT ![c] = m] /\ io' = [io EXCEPT ![c] = n]
             /\ highest' = [highest EXCEPT ![c] = Larger(@, Bytes(m))]
        <3>1. PICK m \in MemSizes, n \in {s \in IOSizes : Bytes(s) >= Bytes(io[c])} :
                 /\ mem' = [mem EXCEPT ![c] = m] /\ io' = [io EXCEPT ![c] = n]
                 /\ highest' = [highest EXCEPT ![c] = Larger(@, Bytes(m))]
            BY <1>5 DEF Work
        <3>2. n \in IOSizes /\ Bytes(n) >= Bytes(io[c])
            BY <3>1
        <3>3. Bytes(n) \in Nat /\ Bytes(io[c]) \in Nat
            BY <3>2, <1>2, BytesIsNat DEF Printed
        <3>4. \A k, l \in Nat : k >= l => l <= k
            OBVIOUS
        <3>5. Bytes(io[c]) <= Bytes(n)
            BY <3>2, <3>3, <3>4, Zenon
        <3>6. QED
            BY <3>1, <3>2, <3>5, Zenon
    <2>2. status' = status /\ status[c] = "up"
        BY <1>5 DEF Work
    <2>3. Bytes(m) \in Nat
        BY BytesIsNat DEF Printed
    <2>4. /\ highest[c] <= Larger(highest[c], Bytes(m))
          /\ Bytes(m) <= Larger(highest[c], Bytes(m))
        BY <1>2, <2>3 DEF Larger
    <2>5. ASSUME NEW d \in Containers
          PROVE  /\ mem'[d] = IF d = c THEN m ELSE mem[d]
                 /\ io'[d] = IF d = c THEN n ELSE io[d]
                 /\ highest'[d] = IF d = c THEN Larger(highest[c], Bytes(m)) ELSE highest[d]
        BY <1>1, <2>1
    <2>6. ASSUME NEW d \in Containers
          PROVE  /\ highest[d] <= highest'[d] /\ Bytes(io[d]) <= Bytes(io'[d])
                 /\ Bytes(mem'[d]) <= highest'[d]
                 /\ status'[d] = "new" => status[d] = "new" /\ io'[d] = io[d]
        <3>1. CASE d = c
            <4>1. status'[d] # "new"
                BY <2>2, <3>1
            <4>2. QED
                BY <2>1, <2>4, <2>5, <3>1, <4>1, Zenon
        <3>2. CASE d # c
            BY <1>2, <1>3, <2>2, <2>5, <3>2, Zenon
        <3>3. QED
            BY <3>1, <3>2
    <2>7. QED
        BY <2>6 DEF EngineGrew
<1>6. QED
    BY <1>4, <1>5 DEF Next, Start, End, Read, AddEntry, Tick, PollFails, PollEnds,
       UpdateEnds, SamplerStops, PrintReport, Reported, vars

LEMMA MeasuredIsPreserved ==
    ASSUME Typed, Typed', Measured, [Next]_vars PROVE Measured'
<1>1. ASSUME NEW c \in Containers
      PROVE  /\ highest[c] \in Nat /\ highest'[c] \in Nat
             /\ Bytes(io[c]) \in Nat /\ Bytes(io'[c]) \in Nat
             /\ peakMem[c] \in Nat
    <2>1. io[c] \in Printed /\ io'[c] \in Printed
        BY DEF Typed, TypeOK, Printed
    <2>2. highest[c] \in Nat /\ highest'[c] \in Nat /\ peakMem[c] \in Nat
        BY DEF Typed, TypeOK
    <2>3. QED
        BY <2>1, <2>2, BytesIsNat
<1>2. EngineGrew
    BY EngineGrows
<1>3. \A k, l, m \in Nat : k <= l /\ l <= m => k <= m
    OBVIOUS
\* The entries that remain, and those just read.
<1>4. ASSUME NEW c \in DOMAIN sample',
             \/ c \in DOMAIN sample /\ sample'[c] = sample[c]
             \/ sample'[c] = Entry(c) /\ UNCHANGED engine
      PROVE  Bytes(sample'[c].mem) <= highest'[c] /\ Bytes(sample'[c].io) <= Bytes(io'[c])
    <2>1. CASE c \in DOMAIN sample /\ sample'[c] = sample[c]
        <3>1. /\ c \in Containers
              /\ Bytes(sample[c].mem) \in Nat /\ Bytes(sample[c].io) \in Nat
            <4>1. c \in Containers /\ sample[c].mem \in Printed /\ sample[c].io \in Printed
                BY <2>1 DEF Typed, TypeOK, Printed
            <4>2. QED
                BY <4>1, BytesIsNat
        <3>2. Bytes(sample[c].mem) <= highest[c] /\ Bytes(sample[c].io) <= Bytes(io[c])
            BY <2>1 DEF Measured
        <3>3. highest[c] <= highest'[c] /\ Bytes(io[c]) <= Bytes(io'[c])
            BY <1>2, <3>1 DEF EngineGrew
        <3>4. QED
            BY <1>1, <1>3, <2>1, <3>1, <3>2, <3>3, Zenon
    <2>2. CASE sample'[c] = Entry(c) /\ UNCHANGED engine
        <3>1. sample'[c].mem = mem[c] /\ sample'[c].io = io[c]
              /\ highest' = highest /\ io' = io
            BY <2>2 DEF Entry, engine
        <3>2. c \in Containers
            BY DEF Typed, TypeOK
        <3>3. Bytes(mem[c]) <= highest[c]
            BY <3>2 DEF Measured
        <3>4. \A k \in Nat : k <= k
            OBVIOUS
        <3>5. QED
            BY <1>1, <3>1, <3>2, <3>3, <3>4, Zenon
    <2>3. QED
        BY <1>4, <2>1, <2>2
<1>5. \A c \in DOMAIN sample' : \/ c \in DOMAIN sample /\ sample'[c] = sample[c]
                                \/ sample'[c] = Entry(c) /\ UNCHANGED engine
    <2>1. CASE UNCHANGED sample \/ sample' = Nothing
        BY <2>1 DEF Nothing
    <2>2. ASSUME NEW c \in Containers, Read(c)
          PROVE  \A d \in DOMAIN sample' : \/ d \in DOMAIN sample /\ sample'[d] = sample[d]
                                           \/ sample'[d] = Entry(d) /\ UNCHANGED engine
        BY <2>2 DEF Read
    <2>3. QED
        BY <2>1, <2>2 DEF Next, Start, Work, End, AddEntry, Tick, PollFails, PollEnds,
           UpdateEnds, SamplerStops, PrintReport, Reported, vars
\* The peaks.
<1>6. ASSUME NEW d \in Containers PROVE peakMem'[d] <= highest'[d]
    <2>1. peakMem[d] <= highest[d] /\ highest[d] <= highest'[d]
        BY <1>2 DEF Measured, EngineGrew
    <2>2. CASE peakMem'[d] = peakMem[d]
        BY <1>1, <1>3, <2>1, <2>2, Zenon
    <2>3. ASSUME NEW c \in Containers, AddEntry(c) PROVE peakMem'[d] <= highest'[d]
        <3> DEFINE used == ParseHumanBytes(sample[c].mem)
        <3>1. /\ c \in DOMAIN sample /\ highest' = highest
              /\ peakMem' = [peakMem EXCEPT ![c] = Larger(@, used)]
            BY <2>3 DEF AddEntry, Typed, engine
        <3>2. sample[c].mem \in Printed
            BY <3>1 DEF Typed, TypeOK, Printed
        <3>3. used <= Bytes(sample[c].mem) /\ used \in Nat /\ Bytes(sample[c].mem) \in Nat
            BY <3>2, ParsedIsAtMostBytes, ParsedIsNat, BytesIsNat
        <3>4. Bytes(sample[c].mem) <= highest[c]
            BY <3>1 DEF Measured
        <3>5. used <= highest[c]
            BY <1>1, <1>3, <3>3, <3>4, Zenon
        <3>6. peakMem'[d] = IF d = c THEN Larger(peakMem[c], used) ELSE peakMem[d]
            BY <3>1 DEF Typed, TypeOK
        <3>7. Larger(peakMem[c], used) = used \/ Larger(peakMem[c], used) = peakMem[c]
            BY DEF Larger
        <3>8. QED
            BY <2>1, <3>1, <3>5, <3>6, <3>7, Zenon
    <2>4. QED
        BY <2>2, <2>3 DEF Next, Start, Work, End, Read, Tick, PollFails, PollEnds,
           UpdateEnds, SamplerStops, PrintReport, Reported, vars, metrics
<1>7. ASSUME NEW c \in Containers, status'[c] = "new" PROVE Bytes(io'[c]) = 0
    <2>1. status[c] = "new" /\ io'[c] = io[c]
        BY <1>2, <1>7 DEF EngineGrew
    <2>2. QED
        BY <2>1 DEF Measured
<1>8. QED
    BY <1>2, <1>4, <1>5, <1>6, <1>7 DEF Measured, EngineGrew

\* The sums over all containers never become less.
LEMMA DoneGrows ==
    ASSUME Typed, Typed', EngineGrew
    PROVE  /\ TotalOf(highest, Containers) <= TotalOf(highest', Containers)
           /\ TotalOf(IOBytes, Containers) <= TotalOf(IOBytes', Containers)
<1>1. \A c \in Containers : highest[c] <= highest'[c] /\ IOBytes[c] <= IOBytes'[c]
    BY DEF EngineGrew, IOBytes
<1>2. IOBytes \in [Containers -> Nat] /\ highest \in [Containers -> Nat]
    BY TermsAreNat DEF Typed
<1>3. IOBytes' \in [Containers -> Nat] /\ highest' \in [Containers -> Nat]
    <2>1. \A c \in Containers : Bytes(io'[c]) \in Nat
        BY BytesIsNat DEF Typed, TypeOK, Printed
    <2>2. QED
        BY <2>1 DEF Typed, TypeOK, IOBytes
<1>4. QED
    BY <1>1, <1>2, <1>3, TotalGrows, ContainersAssumption DEF TotalOf

\* One more entry: the sums of the entries added grow by what it says.
LEMMA EntryIsAccounted ==
    ASSUME Typed, phase = "update", Accounted, NEW c \in Containers, AddEntry(c)
    PROVE  /\ current'.mem = TotalOf(SampledMem', Added')
           /\ current'.io = TotalOf(SampledIO', Added')
<1>1. /\ c \in pending /\ c \in DOMAIN sample /\ DOMAIN sample \subseteq Containers
      /\ sample' = sample /\ pending' = pending \ {c}
    BY DEF AddEntry, Typed, TypeOK
<1>2. /\ current'.mem = current.mem + ParseHumanBytes(sample[c].mem)
      /\ current'.io = current.io + ParseHumanBytes(sample[c].io)
    BY DEF AddEntry
<1>3. SampledMem' = SampledMem /\ SampledIO' = SampledIO
    BY <1>1 DEF SampledMem, SampledIO, Reading
<1>4. c \in Added' /\ Added' \in SUBSET Containers /\ Added' \ {c} = Added
    BY <1>1 DEF Added
<1>5. /\ SampledMem[c] = ParseHumanBytes(sample[c].mem)
      /\ SampledIO[c] = ParseHumanBytes(sample[c].io)
    BY <1>1, SampledReads
<1>6. /\ SampledMem \in [Containers -> Nat] /\ SampledIO \in [Containers -> Nat]
      /\ SampledMem[c] \in Nat /\ SampledIO[c] \in Nat
    BY TermsAreNat DEF Typed
<1>7. Added \in SUBSET Containers
    BY <1>4
<1>8. /\ TotalOf(SampledMem, Added') = SampledMem[c] + TotalOf(SampledMem, Added)
      /\ TotalOf(SampledIO, Added') = SampledIO[c] + TotalOf(SampledIO, Added)
      /\ TotalOf(SampledMem, Added) \in Nat /\ TotalOf(SampledIO, Added) \in Nat
    BY <1>4, <1>6, <1>7, TotalTakesAny, TotalIsNat, ContainersAssumption DEF TotalOf
<1>9. current.mem = TotalOf(SampledMem, Added) /\ current.io = TotalOf(SampledIO, Added)
    BY DEF Accounted
<1>10. \A k, l \in Nat : k + l = l + k
    OBVIOUS
<1>11. QED
    BY <1>2, <1>3, <1>5, <1>6, <1>8, <1>9, <1>10, Zenon

LEMMA AccountedIsPreserved ==
    ASSUME Typed, Typed', Emptied, Measured, Accounted, [Next]_vars PROVE Accounted'
<1>1. EngineGrew
    BY EngineGrows
<1>2. /\ TotalOf(highest, Containers) \in Nat /\ TotalOf(IOBytes, Containers) \in Nat
      /\ \A U \in SUBSET Containers :
            TotalOf(SampledIO, U) \in Nat /\ TotalOf(SampledMem, U) \in Nat
    BY TermsAreNat, TotalIsNat, ContainersAssumption DEF TotalOf, Typed
<1>3. TotalOf(highest', Containers) \in Nat /\ TotalOf(IOBytes', Containers) \in Nat
    <2>1. \A c \in Containers : Bytes(io'[c]) \in Nat
        BY BytesIsNat DEF Typed, TypeOK, Printed
    <2>2. IOBytes' \in [Containers -> Nat] /\ highest' \in [Containers -> Nat]
        BY <2>1 DEF Typed, TypeOK, IOBytes
    <2>3. QED
        BY <2>2, TotalIsNat, ContainersAssumption DEF TotalOf
<1>4. \A f : TotalOf(f, {}) = 0
    BY TotalUnfolds, ContainersAssumption DEF TotalOf
<1>5. /\ peakTotal \in Nat /\ latestIO \in Nat /\ current.mem \in Nat /\ current.io \in Nat
      /\ DOMAIN sample \in SUBSET Containers
    BY DEF Typed, TypeOK
<1>6. \A k, l, m \in Nat : k <= l /\ l <= m => k <= m
    OBVIOUS
\* The totals stay within what the containers have used and done.
<1>7. /\ peakTotal' <= TotalOf(highest', Containers)
      /\ latestIO' <= TotalOf(IOBytes', Containers)
    <2>1. /\ peakTotal' <= TotalOf(highest, Containers) /\ peakTotal' \in Nat
          /\ latestIO' <= TotalOf(IOBytes, Containers) /\ latestIO' \in Nat
        <3>1. CASE UpdateEnds
            <4>1. /\ current.mem <= TotalOf(highest, Containers)
                  /\ current.io <= TotalOf(IOBytes, Containers)
                <5>1. phase = "update" /\ pending = {}
                    BY <3>1 DEF UpdateEnds
                <5>2. /\ current.mem = TotalOf(SampledMem, DOMAIN sample)
                      /\ current.io = TotalOf(SampledIO, DOMAIN sample)
                    BY <5>1 DEF Accounted, Added
                <5>3. QED
                    BY <1>5, <5>2, SampledIsAtMostDone DEF Typed
            <4>2. /\ peakTotal <= TotalOf(highest, Containers)
                  /\ latestIO <= TotalOf(IOBytes, Containers)
                BY DEF Accounted
            <4>3. /\ peakTotal' \in {peakTotal, current.mem}
                  /\ latestIO' \in {latestIO, current.io}
                BY <3>1 DEF UpdateEnds, Larger
            <4>4. QED
                BY <1>5, <4>1, <4>2, <4>3, Zenon
        <3>2. CASE peakTotal' = peakTotal /\ latestIO' = latestIO
            BY <1>5, <3>2 DEF Accounted
        <3>3. QED
            BY <3>1, <3>2 DEF Next, Start, Work, End, Read, AddEntry, Tick, PollFails,
               PollEnds, SamplerStops, PrintReport, Reported, vars, metrics
    <2>2. /\ TotalOf(highest, Containers) <= TotalOf(highest', Containers)
          /\ TotalOf(IOBytes, Containers) <= TotalOf(IOBytes', Containers)
        BY <1>1, DoneGrows
    <2>3. QED
        BY <1>2, <1>3, <1>6, <2>1, <2>2, Zenon
\* During update current is the sum of the entries added.
<1>8. ASSUME phase' = "update"
      PROVE  /\ current'.mem = TotalOf(SampledMem', Added')
             /\ current'.io = TotalOf(SampledIO', Added')
    <2>1. CASE PollEnds
        <3>1. current' = Zero /\ Added' = {}
            BY <2>1 DEF PollEnds, Emptied, Added
        <3>2. current'.mem = 0 /\ current'.io = 0
            BY <3>1 DEF Zero
        <3>3. QED
            BY <1>4, <3>1, <3>2
    <2>2. ASSUME NEW c \in Containers, AddEntry(c)
          PROVE  /\ current'.mem = TotalOf(SampledMem', Added')
                 /\ current'.io = TotalOf(SampledIO', Added')
        <3>1. phase = "update"
            BY <2>2 DEF AddEntry
        <3>2. QED
            BY <2>2, <3>1, EntryIsAccounted
    <2>3. CASE phase = "update" /\ UNCHANGED <<current, sample, pending>>
        <3>1. SampledMem' = SampledMem /\ SampledIO' = SampledIO /\ Added' = Added
            BY <2>3 DEF SampledMem, SampledIO, Reading, Added
        <3>2. QED
            BY <2>3, <3>1 DEF Accounted
    <2>4. QED
        BY <1>8, <2>1, <2>2, <2>3 DEF Next, Start, Work, End, Read, Tick, PollFails,
           UpdateEnds, SamplerStops, PrintReport, Reported, vars
\* Afterwards the total is at least that of the sample.
<1>9. ASSUME phase' = "select"
      PROVE  TotalOf(SampledIO', (DOMAIN sample)') <= latestIO'
    <2>1. CASE UpdateEnds
        <3>1. phase = "update" /\ pending = {} /\ sample' = sample
              /\ latestIO' = Larger(latestIO, current.io)
            BY <2>1 DEF UpdateEnds
        <3>2. current.io = TotalOf(SampledIO, DOMAIN sample)
            BY <3>1 DEF Accounted, Added
        <3>3. SampledIO' = SampledIO /\ (DOMAIN sample)' = DOMAIN sample
            BY <3>1 DEF SampledIO, Reading
        <3>4. current.io <= latestIO'
            BY <1>5, <3>1 DEF Larger
        <3>5. QED
            BY <3>2, <3>3, <3>4, Zenon
    <2>2. CASE PollFails
        <3>1. (DOMAIN sample)' = {} /\ latestIO' \in Nat
            BY <2>2 DEF PollFails, Nothing, Typed, TypeOK
        <3>2. \A k \in Nat : 0 <= k
            OBVIOUS
        <3>3. QED
            BY <1>4, <3>1, <3>2, Zenon
    <2>3. CASE phase = "select" /\ UNCHANGED <<sample, latestIO>>
        <3>1. SampledIO' = SampledIO /\ (DOMAIN sample)' = DOMAIN sample
              /\ latestIO' = latestIO
            BY <2>3 DEF SampledIO, Reading
        <3>2. TotalOf(SampledIO, DOMAIN sample) <= latestIO
            BY <2>3 DEF Accounted
        <3>3. QED
            BY <3>1, <3>2, Zenon
    <2>4. QED
        BY <1>9, <2>1, <2>2, <2>3 DEF Next, Start, Work, End, Read, AddEntry, Tick,
           PollEnds, SamplerStops, PrintReport, Reported, vars, metrics
<1>10. QED
    BY <1>7, <1>8, <1>9 DEF Accounted

LEMMA MeasuresAreInvariant == Spec => [](Typed /\ Measures)
<1>1. Init /\ Typed => Emptied /\ Measures
    BY MeasuredAtStart DEF Init, Emptied
<1>2. Typed /\ Typed' /\ Emptied /\ Measures /\ [Next]_vars => Measures'
    BY MeasuredIsPreserved, AccountedIsPreserved DEF Measures
<1>3. Typed /\ Emptied /\ Bounded /\ [Next]_vars => Emptied' /\ Bounded'
    BY BoundedIsPreserved
<1>4. Init => Emptied /\ Bounded
    BY DEF Init, Emptied, Bounded
<1>5. QED
    BY <1>1, <1>2, <1>3, <1>4, TypedIsInvariant, PTL DEF Spec

\* Sum over the containers is the sum of the measures.
LEMMA SumsAreTotals ==
    /\ TypeOK => Sum(highest) = TotalOf(highest, Containers)
    /\ Sum([c \in Containers |-> Bytes(io[c])]) = TotalOf(IOBytes, Containers)
<1>1. TypeOK => DOMAIN highest = Containers
    BY DEF TypeOK
<1>2. DOMAIN IOBytes = Containers
    BY DEF IOBytes
<1>3. QED
    BY <1>1, <1>2, SumIsTotal, Zenon DEF Sum, TotalOf, IOBytes

\* The report never overstates what a container, or all of them, used or did,
\* whatever the engine does between and during the reads of a sample, for any
\* number of containers, of samples and of sizes (main.go:138-266).
THEOREM NothingIsOverstated == Spec => []NothingOverstated
<1>1. Typed /\ Measures => NothingOverstated
    BY SumsAreTotals DEF Measures, Measured, Accounted, NothingOverstated, Typed
<1>2. QED
    BY <1>1, MeasuresAreInvariant, PTL

LEMMA OneMore == ASSUME NEW x \in Nat, NEW y \in Nat PROVE x * (y + 1) = x * y + x
    BY Z3

\* A sum whose terms are all larger by the same amount.
LEMMA TotalPadded ==
    ASSUME NEW S, IsFiniteSet(S), NEW g \in [S -> Nat], NEW k \in Nat, NEW U \in SUBSET S
    PROVE  Total([x \in S |-> g[x] + k], S, U) = Total(g, S, U) + k * Cardinality(U)
<1> DEFINE h == [x \in S |-> g[x] + k]
           Failing == {V \in SUBSET S : Total(h, S, V) # Total(g, S, V) + k * Cardinality(V)}
<1>1. h \in [S -> Nat] /\ \A x \in S : h[x] = g[x] + k
    OBVIOUS
<1> HIDE DEF h
<1>2. ASSUME Failing # {} PROVE FALSE
    <2>0. Failing \in SUBSET SUBSET S
        OBVIOUS
    <2>1. PICK V \in Failing : \A W \in Failing : W \subseteq V => W = V
        <3> HIDE DEF Failing
        <3> QED
            BY <1>2, <2>0, SmallestSet
    <2>2. V # {}
        <3>1. Total(h, S, {}) = 0 /\ Total(g, S, {}) = 0 /\ Cardinality({}) = 0
            BY TotalUnfolds, FS_EmptySet
        <3>2. 0 = 0 + k * 0
            BY Z3
        <3>3. {} \notin Failing
            BY <3>1, <3>2, Zenon
        <3>4. QED
            BY <2>1, <3>3
    <2>3. PICK x \in V : TRUE
        BY <2>2
    <2>4. V \in SUBSET S /\ V \ {x} \in SUBSET S /\ V \ {x} \notin Failing /\ x \in S
        BY <2>1, <2>3
    <2>5. /\ Total(h, S, V) = h[x] + Total(h, S, V \ {x})
          /\ Total(g, S, V) = g[x] + Total(g, S, V \ {x})
          /\ Total(g, S, V \ {x}) \in Nat /\ g[x] \in Nat
        BY <1>1, <2>3, <2>4, TotalTakesAny, TotalIsNat
    <2>6. /\ Cardinality(V) \in Nat /\ Cardinality(V \ {x}) \in Nat
          /\ Cardinality(V) = Cardinality(V \ {x}) + 1
        <3>1. IsFiniteSet(V) /\ IsFiniteSet(V \ {x})
            BY <2>4, FS_Subset
        <3>2. Cardinality(V \ {x}) = Cardinality(V) - 1
            BY <2>3, <3>1, FS_RemoveElement
        <3>3. Cardinality(V) \in Nat /\ Cardinality(V \ {x}) \in Nat
            BY <3>1, FS_CardinalityType
        <3>4. \A m, n \in Nat : m = n - 1 => n = m + 1
            OBVIOUS
        <3>5. QED
            BY <3>2, <3>3, <3>4, Zenon
    <2>7. Total(h, S, V \ {x}) = Total(g, S, V \ {x}) + k * Cardinality(V \ {x})
        BY <2>4
    <2> DEFINE t == Total(g, S, V \ {x})
               n == Cardinality(V \ {x})
    <2>8. Total(h, S, V) = (g[x] + k) + (t + k * n)
        <3>1. h[x] = g[x] + k
            BY <1>1, <2>4
        <3>2. QED
            BY <2>5, <2>7, <3>1, Zenon
    <2>9. Total(g, S, V) + k * Cardinality(V) = (g[x] + t) + k * (n + 1)
        BY <2>5, <2>6, Zenon
    <2>10. (g[x] + k) + (t + k * n) = (g[x] + t) + k * (n + 1)
        <3>1. g[x] \in Nat /\ t \in Nat /\ n \in Nat
            BY <2>5, <2>6
        <3> HIDE DEF t, n
        <3>2. k * n \in Nat /\ k * (n + 1) = k * n + k
            BY <3>1, OneMore, ProductIsNat
        <3>3. QED
            BY <3>1, <3>2
    <2>11. Total(h, S, V) = Total(g, S, V) + k * Cardinality(V)
        BY <2>8, <2>9, <2>10, Zenon
    <2>12. QED
        BY <2>1, <2>11
<1>3. QED
    BY <1>2 DEF h

\* The I/O total lacks at most a byte per container as long as none has ended,
\* none did terabytes and the last sample is up to date (main.go:138-266):
\* what has not been started yet has done nothing, nothing else is missing in
\* the sample, and int64 cuts off no more than a byte of an entry.
THEOREM LittleIsLost == Spec => []IOTotalClose
<1>1. ASSUME Typed, Measures,
             phase = "select", DOMAIN sample = Up,
             \A c \in Containers : status[c] # "gone" /\ io[c].suffix # "TB",
             \A c \in Up : sample[c].io = io[c]
      PROVE  TotalOf(IOBytes, Containers) <= latestIO + Fine * Cardinality(Up)
    <2>1. /\ IOBytes \in [Containers -> Nat] /\ SampledIO \in [Containers -> Nat]
          /\ DOMAIN sample \in SUBSET Containers /\ latestIO \in Nat /\ Fine \in Nat
        BY <1>1, TermsAreNat DEF Typed, TypeOK
    <2> DEFINE padded == [c \in Containers |-> SampledIO[c] + Fine]
    <2>2. padded \in [Containers -> Nat]
        BY <2>1
    <2>3. ASSUME NEW c \in Containers
          PROVE  IF c \in DOMAIN sample THEN IOBytes[c] <= padded[c] ELSE IOBytes[c] = 0
        <3>1. IOBytes[c] = Bytes(io[c]) /\ padded[c] = SampledIO[c] + Fine
            BY DEF IOBytes
        <3>2. CASE c \in DOMAIN sample
            <4>1. io[c] \in Printed /\ io[c].suffix # "TB"
                BY <1>1 DEF Typed, TypeOK, Printed
            <4>2. SampledIO[c] = ParseHumanBytes(io[c])
                BY <1>1, <3>2, SampledReads
            <4>3. Bytes(io[c]) <= ParseHumanBytes(io[c]) + Fine
                BY <4>1, ParsedIsAtMostBytes
            <4>4. QED
                BY <3>1, <3>2, <4>2, <4>3, Zenon
        <3>3. CASE c \notin DOMAIN sample
            <4>1. status[c] = "new"
                BY <1>1, <3>3 DEF Up, Typed, TypeOK
            <4>2. Bytes(io[c]) = 0
                BY <1>1, <4>1 DEF Measures, Measured
            <4>3. QED
                BY <3>1, <3>3, <4>2, Zenon
        <3>4. QED
            BY <3>2, <3>3
    <2> HIDE DEF padded
    <2>4. TotalOf(IOBytes, Containers) <= TotalOf(padded, DOMAIN sample)
        BY <2>1, <2>2, <2>3, TotalGrows, ContainersAssumption DEF TotalOf
    <2>5. TotalOf(padded, DOMAIN sample)
             = TotalOf(SampledIO, DOMAIN sample) + Fine * Cardinality(DOMAIN sample)
        BY <2>1, TotalPadded, ContainersAssumption DEF TotalOf, padded
    <2>6. /\ TotalOf(IOBytes, Containers) \in Nat /\ TotalOf(SampledIO, DOMAIN sample) \in Nat
          /\ Fine * Cardinality(DOMAIN sample) \in Nat
        <3>1. Cardinality(DOMAIN sample) \in Nat
            BY <2>1, ContainersAssumption, FS_Subset, FS_CardinalityType
        <3>2. QED
            BY <2>1, <3>1, TotalIsNat, ProductIsNat, ContainersAssumption DEF TotalOf
    <2>7. TotalOf(SampledIO, DOMAIN sample) <= latestIO
        BY <1>1 DEF Measures, Accounted
    <2>8. \A x, s, l, m \in Nat : x <= s + m /\ s <= l => x <= l + m
        OBVIOUS
    <2>9. TotalOf(IOBytes, Containers) <= latestIO + Fine * Cardinality(DOMAIN sample)
        BY <2>1, <2>4, <2>5, <2>6, <2>7, <2>8, Zenon
    <2>10. QED
        BY <1>1, <2>9
<1>2. Typed /\ Measures => IOTotalClose
    BY <1>1, SumsAreTotals DEF IOTotalClose
<1>3. QED
    BY <1>2, MeasuresAreInvariant, PTL

-----------------------------------------------------------------------------
(* Update takes a sample as a whole *)

ShownPeak ==
    [c \in Containers |->
        IF Counting /\ c \in pending THEN Larger(peakMem[c], Reading(c).mem) ELSE peakMem[c]]
ShownTotal == IF Counting THEN Larger(peakTotal, Sum(SampledMem)) ELSE peakTotal
ShownIO == IF Counting THEN Larger(latestIO, Sum(SampledIO)) ELSE latestIO

\* The steps that are none of the gauge.
Unshown == ShownPeak' = ShownPeak /\ ShownTotal' = ShownTotal /\ ShownIO' = ShownIO

LEMMA UnshownIsStutter == Unshown => UNCHANGED Shown!vars
    BY DEF Unshown, Shown!vars, ShownPeak, ShownTotal, ShownIO, SampledMem, SampledIO

\* The sums over the entries of the sample are those over all containers.
LEMMA AllAdded ==
    ASSUME Typed
    PROVE  /\ Sum(SampledMem) = TotalOf(SampledMem, DOMAIN sample)
           /\ Sum(SampledIO) = TotalOf(SampledIO, DOMAIN sample)
<1>1. /\ SampledMem \in [Containers -> Nat] /\ SampledIO \in [Containers -> Nat]
      /\ DOMAIN sample \in SUBSET Containers /\ Containers \in SUBSET Containers
    BY TermsAreNat DEF Typed, TypeOK
<1>2. Sum(SampledMem) = TotalOf(SampledMem, Containers)
      /\ Sum(SampledIO) = TotalOf(SampledIO, Containers)
    BY <1>1, SumIsTotal DEF Sum, TotalOf
<1>3. ASSUME NEW f \in [Containers -> Nat], \A c \in Containers \ DOMAIN sample : f[c] = 0
      PROVE  TotalOf(f, Containers) = TotalOf(f, DOMAIN sample)
    <2>1. /\ \A c \in Containers : IF c \in DOMAIN sample THEN f[c] <= f[c] ELSE f[c] = 0
          /\ \A c \in DOMAIN sample : IF c \in Containers THEN f[c] <= f[c] ELSE f[c] = 0
        BY <1>1, <1>3
    <2>2. /\ TotalOf(f, Containers) <= TotalOf(f, DOMAIN sample)
          /\ TotalOf(f, DOMAIN sample) <= TotalOf(f, Containers)
        BY <1>1, <2>1, TotalGrows, ContainersAssumption DEF TotalOf
    <2>3. TotalOf(f, Containers) \in Nat /\ TotalOf(f, DOMAIN sample) \in Nat
        BY <1>1, TotalIsNat, ContainersAssumption DEF TotalOf
    <2>4. \A k, l \in Nat : k <= l /\ l <= k => k = l
        OBVIOUS
    <2>5. QED
        BY <2>2, <2>3, <2>4, Zenon
<1>4. \A c \in Containers \ DOMAIN sample : SampledMem[c] = 0 /\ SampledIO[c] = 0
    BY SampledReads
<1>5. QED
    BY <1>1, <1>2, <1>3, <1>4

LEMMA SameSum == \A f : Shown!SumFunction(f) = SumFunction(f)
    BY DEF SumFunction, SumFunctionOnSet, FoldFunctionOnSet, MapThenFoldSet,
       Shown!SumFunction, Shown!SumFunctionOnSet, Shown!FoldFunctionOnSet,
       Shown!MapThenFoldSet

LEMMA PollEndsIsTake == ASSUME Typed, PollEnds PROVE Shown!Next
<1> DEFINE taken == [c \in Containers |-> Reading(c)]
<1>1. /\ phase = "poll" /\ phase' = "update" /\ sample' = sample /\ pending' = DOMAIN sample
      /\ peakMem' = peakMem /\ peakTotal' = peakTotal /\ latestIO' = latestIO
    BY DEF PollEnds, metrics
<1>2. taken \in [Containers -> Readings]
    <2>1. ASSUME NEW c \in Containers PROVE Reading(c) \in Readings
        BY DEF Reading, Readings, Typed, TypeOK
    <2>2. QED
        BY <2>1
<1>3. ~Counting /\ Counting'
    BY <1>1 DEF Counting
<1>4. SampledMem' = SampledMem /\ SampledIO' = SampledIO
    BY <1>1 DEF SampledMem, SampledIO, Reading
<1>5. /\ ShownPeak = [c \in Containers |-> peakMem[c]]
      /\ ShownTotal = peakTotal /\ ShownIO = latestIO
    BY <1>3 DEF ShownPeak, ShownTotal, ShownIO
<1>6. /\ [c \in Containers |-> taken[c].mem] = SampledMem
      /\ [c \in Containers |-> taken[c].io] = SampledIO
    BY DEF SampledMem, SampledIO
<1>7. /\ ShownTotal' = Shown!Raise(ShownTotal, Sum(SampledMem))
      /\ ShownIO' = Shown!Raise(ShownIO, Sum(SampledIO))
    BY <1>1, <1>3, <1>4, <1>5 DEF ShownTotal, ShownIO, Larger, Shown!Raise
<1>8. ASSUME NEW c \in Containers
      PROVE  ShownPeak'[c] = Shown!Raise(ShownPeak[c], taken[c].mem)
    <2>1. ShownPeak'[c] = IF c \in DOMAIN sample THEN Larger(peakMem[c], Reading(c).mem)
                          ELSE peakMem[c]
        BY <1>1, <1>3 DEF ShownPeak, Reading
    <2>2. ShownPeak[c] = peakMem[c] /\ taken[c].mem = Reading(c).mem
        BY <1>5
    <2>3. CASE c \in DOMAIN sample
        BY <2>1, <2>2, <2>3 DEF Larger, Shown!Raise
    <2>4. CASE c \notin DOMAIN sample
        <3>1. Reading(c).mem = 0 /\ peakMem[c] \in Nat
            BY <2>4 DEF Reading, Zero, Typed, TypeOK
        <3>2. \A k \in Nat : ~(k < 0)
            OBVIOUS
        <3>3. QED
            BY <2>1, <2>2, <2>4, <3>1, <3>2, Zenon DEF Shown!Raise
    <2>5. QED
        BY <2>3, <2>4
<1>9. ShownPeak' = [c \in Containers |-> Shown!Raise(ShownPeak[c], taken[c].mem)]
    <2>1. ShownPeak' = [c \in Containers |-> ShownPeak'[c]]
        BY DEF ShownPeak
    <2>2. QED
        BY <1>8, <2>1, Zenon
<1> HIDE DEF taken
<1>10. /\ ShownTotal' = Shown!Raise(ShownTotal, Shown!SumFunction([c \in Containers |-> taken[c].mem]))
       /\ ShownIO' = Shown!Raise(ShownIO, Shown!SumFunction([c \in Containers |-> taken[c].io]))
    BY <1>6, <1>7, SameSum, Zenon DEF Sum
<1>11. \E s \in [Containers -> Readings] :
          /\ ShownPeak' = [c \in Containers |-> Shown!Raise(ShownPeak[c], s[c].mem)]
          /\ ShownTotal' = Shown!Raise(ShownTotal, Shown!SumFunction([c \in Containers |-> s[c].mem]))
          /\ ShownIO' = Shown!Raise(ShownIO, Shown!SumFunction([c \in Containers |-> s[c].io]))
    BY <1>2, <1>9, <1>10, Zenon
<1>12. QED
    BY <1>11, Zenon DEF Shown!Next, Shown!Take, ShownPeak, ShownTotal, ShownIO,
                        SampledMem, SampledIO

LEMMA EntriesAreUnshown ==
    ASSUME Typed, NEW c \in Containers, AddEntry(c) PROVE Unshown
<1>1. /\ Counting /\ Counting' /\ c \in pending /\ c \in DOMAIN sample
      /\ sample' = sample /\ pending' = pending \ {c}
      /\ peakMem' = [peakMem EXCEPT ![c] = Larger(@, ParseHumanBytes(sample[c].mem))]
      /\ peakTotal' = peakTotal /\ latestIO' = latestIO
    BY DEF AddEntry, Counting, Typed
<1>2. SampledMem' = SampledMem /\ SampledIO' = SampledIO
    BY <1>1 DEF SampledMem, SampledIO, Reading
<1>3. ASSUME NEW d \in Containers
      PROVE  (IF Counting' /\ d \in pending' THEN Larger(peakMem'[d], (Reading(d).mem)')
              ELSE peakMem'[d])
             = IF Counting /\ d \in pending THEN Larger(peakMem[d], Reading(d).mem)
               ELSE peakMem[d]
    <2>1. (Reading(d).mem)' = Reading(d).mem
        BY <1>1 DEF Reading
    <2>2. peakMem'[d] = IF d = c THEN Larger(peakMem[c], Reading(c).mem) ELSE peakMem[d]
        BY <1>1 DEF Reading, Typed, TypeOK
    <2>3. QED
        BY <1>1, <2>1, <2>2
<1>4. ShownPeak' = ShownPeak
    BY <1>3 DEF ShownPeak
<1>5. QED
    BY <1>1, <1>2, <1>4 DEF Unshown, ShownTotal, ShownIO

\* When the last entry is added, current is what the gauge took.
LEMMA EndOfUpdateIsUnshown ==
    ASSUME Typed, Accounted, UpdateEnds PROVE Unshown
<1>1. /\ Counting /\ ~Counting' /\ pending = {} /\ phase = "update"
      /\ peakMem' = peakMem
      /\ peakTotal' = Larger(peakTotal, current.mem)
      /\ latestIO' = Larger(latestIO, current.io)
    BY DEF UpdateEnds, Counting
<1>2. current.mem = Sum(SampledMem) /\ current.io = Sum(SampledIO)
    BY <1>1, AllAdded DEF Accounted, Added
<1>3. ShownPeak' = ShownPeak
    BY <1>1 DEF ShownPeak
<1>4. QED
    BY <1>1, <1>2, <1>3 DEF Unshown, ShownTotal, ShownIO

LEMMA StepImplementsGauge ==
    ASSUME Typed, Measures, [Next]_vars PROVE [Shown!Next]_(Shown!vars)
<1>1. CASE PollEnds
    BY <1>1, PollEndsIsTake
<1>2. ASSUME NEW c \in Containers, AddEntry(c) PROVE UNCHANGED Shown!vars
    BY <1>2, EntriesAreUnshown, UnshownIsStutter
<1>3. CASE UpdateEnds
    BY <1>3, EndOfUpdateIsUnshown, UnshownIsStutter DEF Measures
<1>4. ASSUME UNCHANGED <<peakMem, peakTotal, latestIO>>, Counting' = Counting,
             Counting => UNCHANGED <<sample, pending>>
      PROVE  UNCHANGED Shown!vars
    <2>1. CASE Counting
        <3>1. SampledMem' = SampledMem /\ SampledIO' = SampledIO
            BY <1>4, <2>1 DEF SampledMem, SampledIO, Reading
        <3>2. ShownPeak' = ShownPeak
            BY <1>4, <2>1 DEF ShownPeak, Reading
        <3>3. Unshown
            BY <1>4, <2>1, <3>1, <3>2 DEF Unshown, ShownTotal, ShownIO
        <3>4. QED
            BY <3>3, UnshownIsStutter
    <2>2. CASE ~Counting
        <3>1. Unshown
            BY <1>4, <2>2 DEF Unshown, ShownPeak, ShownTotal, ShownIO
        <3>2. QED
            BY <3>1, UnshownIsStutter
    <2>3. QED
        BY <2>1, <2>2
<1>5. ASSUME NEW c \in Containers, Start(c) \/ Work(c) \/ End(c) \/ Read(c)
      PROVE  UNCHANGED Shown!vars
    BY <1>4, <1>5 DEF Start, Work, End, Read, Counting, metrics
<1>6. CASE Tick \/ PollFails \/ SamplerStops \/ PrintReport \/ UNCHANGED vars
    BY <1>4, <1>6 DEF Tick, PollFails, SamplerStops, PrintReport, Counting, metrics, vars
<1>7. QED
    BY <1>1, <1>2, <1>3, <1>5, <1>6 DEF Next, Reported

\* Adding the entries of a sample one by one implements taking it as a whole:
\* readers of the metrics, who wait for mu, cannot tell the difference, in
\* whatever order update goes through the sample (main.go:138-227).
THEOREM UpdateIsAtomic == Spec => ImplementsGauge
<1>1. Init => Shown!Init
    <2>1. ASSUME Init PROVE /\ ShownPeak = [c \in Containers |-> 0]
                            /\ ShownTotal = 0 /\ ShownIO = 0
        BY <2>1 DEF Init, ShownPeak, ShownTotal, ShownIO, Counting
    <2>2. QED
        BY <2>1 DEF Shown!Init, ShownPeak, ShownTotal, ShownIO, SampledMem, SampledIO
<1>2. Typed /\ Measures /\ [Next]_vars => [Shown!Next]_(Shown!vars)
    BY StepImplementsGauge
<1>3. QED
    BY <1>1, <1>2, MeasuresAreInvariant, PTL DEF Spec, ImplementsGauge, Shown!Spec
=============================================================================
