-------------------------- MODULE DrbTopRefinement --------------------------
(***************************************************************************)
(* The proof that drb_top (module DrbTop) implements the enumeration       *)
(* promise (module DrbEnumeration): every pass is computed under the next *)
(* combination in mixed-radix order, and end-of-data comes exactly when   *)
(* every combination has been produced.  The safety part of the           *)
(* refinement is proved here; its liveness part stays with TLC.           *)
(***************************************************************************)
EXTENDS DrbTopProofs, FiniteSetTheorems, WellFoundedInduction

Before(c, d) == Enum!Before(c, d)
Seen == Enum!Seen

\* The combinations after d in mixed-radix order.
After(d) == {c \in Combos : Before(d, c)}

\* The inductive invariant of the refinement.  Before a pass the
\* combinations produced are exactly those before the digits; after it
\* the digits' combination is among them.  total_permutations - 1 counts
\* the combinations still to come after the current one, so the loop test
\* fails exactly at the last combination.
RInv ==
    /\ IInv
    /\ topPc \in {"run", "eof"} => tp = Cardinality(After(digit)) + 1
    /\ topPc = "run" => \A c \in Combos : c \in Seen <=> Before(c, digit)
    /\ topPc = "eof" => \A c \in Combos : c \in Seen <=> (Before(c, digit) \/ c = digit)
    /\ topPc = "done" => Seen = Combos
-----------------------------------------------------------------------------
(* Mixed-radix order.                                                      *)

USE NAssumption, MaxCandsAssumption

\* Before, written out over the operators of DrbTop.
LEMMA BeforeDef ==
    ASSUME NEW c, NEW d
    PROVE  Before(c, d) <=> \E j \in Exps : /\ c[j] < d[j]
                                           /\ \A i \in Exps : i > j => c[i] = d[i]
BY DEF Before, Enum!Before, Enum!Exps, Exps

\* No combination comes before itself.
LEMMA BeforeIrreflexive ==
    ASSUME NEW c \in Combos
    PROVE  ~Before(c, c)
<1>1. SUFFICES ASSUME NEW j \in Exps, c[j] < c[j] PROVE FALSE
    BY BeforeDef
<1>2. QED
    BY <1>1 DEF Combos, Digits, Exps

\* Of two combinations at most one comes before the other.
LEMMA BeforeAsymmetric ==
    ASSUME NEW c \in Combos, NEW d \in Combos, Before(c, d)
    PROVE  ~Before(d, c)
<1>1. PICK j \in Exps : c[j] < d[j] /\ \A i \in Exps : i > j => c[i] = d[i]
    BY BeforeDef
<1>2. SUFFICES ASSUME NEW k \in Exps, d[k] < c[k], \A i \in Exps : i > k => d[i] = c[i]
               PROVE  FALSE
    BY BeforeDef
<1>3. QED
    BY <1>1, <1>2 DEF Combos, Digits, Exps

\* The order is transitive.
LEMMA BeforeTransitive ==
    ASSUME NEW c \in Combos, NEW d \in Combos, NEW e \in Combos,
           Before(c, d), Before(d, e)
    PROVE  Before(c, e)
<1>1. PICK j \in Exps : c[j] < d[j] /\ \A i \in Exps : i > j => c[i] = d[i]
    BY BeforeDef
<1>2. PICK k \in Exps : d[k] < e[k] /\ \A i \in Exps : i > k => d[i] = e[i]
    BY BeforeDef
<1>3. CASE j >= k
    <2>1. c[j] < e[j] /\ \A i \in Exps : i > j => c[i] = e[i]
        BY <1>1, <1>2, <1>3 DEF Combos, Digits, Exps
    <2>2. QED
        BY <2>1, BeforeDef
<1>4. CASE j < k
    <2>1. c[k] < e[k] /\ \A i \in Exps : i > k => c[i] = e[i]
        BY <1>1, <1>2, <1>4 DEF Combos, Digits, Exps
    <2>2. QED
        BY <2>1, BeforeDef
<1>5. QED
    BY <1>3, <1>4 DEF Exps

\* A nonempty set of natural numbers has a least element (the natural
\* numbers are well-ordered).
LEMMA LeastNat ==
    ASSUME NEW T \in SUBSET Nat, T # {}
    PROVE  \E m \in T : \A y \in T : m <= y
<1>1. PICK m \in T : \A y \in T : ~(<<y, m>> \in OpToRel(<, Nat))
    BY WFMin, NatLessThanWellFounded
<1>2. ASSUME NEW y \in T PROVE m <= y
    <2>1. <<y, m>> \in Nat \X Nat
        OBVIOUS
    <2>2. ~(y < m)
        BY <1>1, <2>1 DEF OpToRel
    <2>3. QED
        BY <2>2
<1>3. QED
    BY <1>2

\* Two different combinations differ at a most significant operator.
LEMMA HighestDifference ==
    ASSUME NEW c \in Combos, NEW d \in Combos, c # d
    PROVE  \E j \in Exps : c[j] # d[j] /\ \A i \in Exps : i > j => c[i] = d[i]
<1> DEFINE T == {N - i : i \in {i \in Exps : c[i] # d[i]}}
<1>1. \E i \in Exps : c[i] # d[i]
    BY DEF Combos
<1>2. T \in SUBSET Nat /\ T # {}
    BY <1>1, NAssumption DEF Exps
<1>3. PICK m \in T : \A y \in T : m <= y
    BY <1>2, LeastNat
<1>4. PICK j \in Exps : c[j] # d[j] /\ m = N - j
    BY <1>3
<1>5. ASSUME NEW i \in Exps, i > j PROVE c[i] = d[i]
    <2>1. SUFFICES ASSUME c[i] # d[i] PROVE FALSE
        OBVIOUS
    <2>2. N - i \in T
        BY <2>1
    <2>3. QED
        BY <1>3, <1>4, <2>2, <1>5, NAssumption DEF Exps
<1>6. QED
    BY <1>4, <1>5

\* Of two different combinations one comes before the other.
LEMMA BeforeTotal ==
    ASSUME NEW c \in Combos, NEW d \in Combos, c # d
    PROVE  Before(c, d) \/ Before(d, c)
<1>1. PICK j \in Exps : c[j] # d[j] /\ \A i \in Exps : i > j => c[i] = d[i]
    BY HighestDifference
<1>2. c[j] < d[j] \/ d[j] < c[j]
    BY <1>1 DEF Combos, Digits, Exps
<1>3. QED
    BY <1>1, <1>2, BeforeDef
-----------------------------------------------------------------------------
(* The odometer step is the successor in mixed-radix order.               *)

\* The step resets the visited operators below j, the first operator not
\* at its maximum, increments j and leaves the operators above j alone.
LEMMA OdometerStepDigits ==
    ASSUME NEW d \in Combos, NEW j \in Exps, Visited(d, j), d[j] < MaxCands - 1
    PROVE  /\ \A i \in Exps : i < j => OdometerStep(d)[i] = 0
           /\ OdometerStep(d)[j] = d[j] + 1
           /\ \A i \in Exps : i > j => OdometerStep(d)[i] = d[i]
<1>1. ASSUME NEW i \in Exps, i < j PROVE OdometerStep(d)[i] = 0
    <2>1. Visited(d, i) /\ d[i] >= MaxCands - 1
        BY <1>1 DEF Visited, Exps
    <2>2. QED
        BY <2>1 DEF OdometerStep
<1>2. OdometerStep(d)[j] = d[j] + 1
    BY DEF OdometerStep, Combos, Digits, Exps
<1>3. ASSUME NEW i \in Exps, i > j PROVE OdometerStep(d)[i] = d[i]
    <2>1. ~Visited(d, i)
        BY <1>3 DEF Visited, Exps, Combos, Digits
    <2>2. QED
        BY <2>1 DEF OdometerStep
<1>4. QED
    BY <1>1, <1>2, <1>3

\* A combination with a successor has an operator below its maximum, and
\* the odometer's loop reaches the first one.
LEMMA FirstBelowMax ==
    ASSUME NEW d \in Combos, After(d) # {}
    PROVE  \E j \in Exps : Visited(d, j) /\ d[j] < MaxCands - 1
<1> DEFINE T == {i \in Exps : d[i] < MaxCands - 1}
<1>1. PICK c \in Combos : Before(d, c)
    BY DEF After
<1>2. PICK a \in Exps : d[a] < c[a]
    BY <1>1, BeforeDef
<1>3. a \in T
    BY <1>1, <1>2 DEF Combos, Digits, Exps
<1>4. PICK j \in T : \A y \in T : j <= y
    <2>1. T \in SUBSET Nat /\ T # {}
        BY <1>3 DEF Exps
    <2>2. QED
        BY <2>1, LeastNat, Zenon
<1>5. Visited(d, j)
    <2>1. ASSUME NEW i \in 1..(j - 1) PROVE d[i] >= MaxCands - 1
        <3>1. i \in Exps /\ i < j
            BY <1>4 DEF Exps
        <3>2. SUFFICES ASSUME d[i] < MaxCands - 1 PROVE FALSE
            BY DEF Combos, Digits, Exps
        <3>3. i \in T
            BY <3>1, <3>2
        <3>4. QED
            BY <1>4, <3>1, <3>3 DEF Exps
    <2>2. QED
        BY <2>1 DEF Visited
<1>6. QED
    BY <1>4, <1>5

\* The odometer step yields the next combination after d: no combination
\* lies between d and it.
LEMMA SuccessorStep ==
    ASSUME NEW d \in Combos, NEW j \in Exps, Visited(d, j), d[j] < MaxCands - 1
    PROVE  /\ OdometerStep(d) \in After(d)
           /\ After(OdometerStep(d)) = After(d) \ {OdometerStep(d)}
<1> DEFINE s == OdometerStep(d)
<1>1. s \in Combos
    BY OdometerStepType
<1>2. /\ \A i \in Exps : i < j => s[i] = 0
      /\ s[j] = d[j] + 1
      /\ \A i \in Exps : i > j => s[i] = d[i]
    BY OdometerStepDigits
<1>3. Before(d, s)
    <2>1. d[j] < s[j] /\ \A i \in Exps : i > j => d[i] = s[i]
        BY <1>2 DEF Combos, Digits, Exps
    <2>2. QED
        BY <2>1, BeforeDef
<1>4. ASSUME NEW c \in After(s) PROVE c \in After(d) /\ c # s
    <2>1. c \in Combos /\ Before(s, c)
        BY <1>4 DEF After
    <2>2. Before(d, c)
        BY <1>1, <1>3, <2>1, BeforeTransitive
    <2>3. c # s
        BY <1>1, <2>1, BeforeIrreflexive
    <2>4. QED
        BY <2>1, <2>2, <2>3 DEF After
<1>5. ASSUME NEW c \in After(d), c # s PROVE Before(s, c)
    <2>1. c \in Combos /\ Before(d, c)
        BY <1>5 DEF After
    <2>2. SUFFICES ASSUME Before(c, s) PROVE FALSE
        BY <1>1, <1>5, <2>1, BeforeTotal
    <2>3. PICK b \in Exps : c[b] < s[b] /\ \A i \in Exps : i > b => c[i] = s[i]
        BY <2>2, BeforeDef
    <2>4. ~Before(c, d)
        BY <2>1, BeforeAsymmetric
    <2>5. CASE b > j
        <3>1. c[b] < d[b] /\ \A i \in Exps : i > b => c[i] = d[i]
            BY <1>2, <2>3, <2>5 DEF Exps
        <3>2. QED
            BY <3>1, <2>4, BeforeDef
    <2>6. CASE b = j
        <3>0. c[j] \in Int /\ d[j] \in Int /\ c[j] < d[j] + 1
            BY <1>2, <2>1, <2>3, <2>6 DEF Combos, Digits
        <3>1. c[j] <= d[j] /\ \A i \in Exps : i > j => c[i] = d[i]
            <4>1. c[j] <= d[j]
                BY <3>0
            <4>2. \A i \in Exps : i > j => c[i] = d[i]
                BY <1>2, <2>3, <2>6
            <4>3. QED
                BY <4>1, <4>2
        <3>2. CASE c[j] < d[j]
            BY <3>1, <3>2, <2>4, BeforeDef
        <3>3. CASE c[j] = d[j]
            <4>1. PICK a \in Exps : d[a] < c[a] /\ \A i \in Exps : i > a => d[i] = c[i]
                BY <2>1, BeforeDef
            <4>2. a < j
                BY <3>1, <3>3, <4>1 DEF Combos, Digits, Exps
            <4>3. d[a] >= MaxCands - 1
                BY <4>2 DEF Visited, Exps
            <4>4. QED
                BY <4>1, <4>3, <2>1 DEF Combos, Digits, Exps
        <3>4. c[j] < d[j] \/ c[j] = d[j]
            BY <2>1, <3>1 DEF Combos, Digits, Exps
        <3>5. QED
            BY <3>2, <3>3, <3>4
    <2>7. CASE b < j
        BY <1>2, <2>3, <2>7, <2>1 DEF Combos, Digits, Exps
    <2>8. QED
        BY <2>5, <2>6, <2>7 DEF Exps
<1>6. QED
    BY <1>1, <1>3, <1>4, <1>5 DEF After
-----------------------------------------------------------------------------
(* Counting the combinations still to come.                                *)

\* The combinations after d form a finite set.
LEMMA AfterFinite ==
    ASSUME NEW d
    PROVE  IsFiniteSet(After(d)) /\ Cardinality(After(d)) \in Nat
<1>1. After(d) \in SUBSET Combos
    BY DEF After
<1>2. IsFiniteSet(After(d))
    BY <1>1, CombosCountAssumption, FS_Subset
<1>3. QED
    BY <1>2, FS_CardinalityType

\* When no combination comes after d, every combination is d or before it.
LEMMA NoneAfter ==
    ASSUME NEW d \in Combos, Cardinality(After(d)) = 0
    PROVE  \A c \in Combos : c = d \/ Before(c, d)
<1>1. After(d) = {}
    BY AfterFinite, FS_EmptySet
<1>2. QED
    BY <1>1, BeforeTotal DEF After

\* All digits 0: every other combination comes after it.
LEMMA AfterZero ==
    After([e \in Exps |-> 0]) = Combos \ {[e \in Exps |-> 0]}
<1> DEFINE z == [e \in Exps |-> 0]
<1>1. z \in Combos
    BY DEF Combos, Digits, Exps
<1>2. ASSUME NEW c \in Combos PROVE ~Before(c, z)
    <2>1. SUFFICES ASSUME NEW j \in Exps, c[j] < z[j] PROVE FALSE
        BY BeforeDef
    <2>2. QED
        BY <2>1 DEF Combos, Digits, Exps
<1>3. ASSUME NEW c \in Combos, c # z PROVE Before(z, c)
    BY <1>1, <1>2, <1>3, BeforeTotal
<1>4. QED
    BY <1>1, <1>3, BeforeIrreflexive DEF After

\* Producing one more combination adds it to those produced.
LEMMA SeenAppend ==
    ASSUME NEW x, emitted \in Seq(Combos), emitted' = Append(emitted, x)
    PROVE  Seen' = Seen \cup {x}
BY DEF Seen, Enum!Seen

\* The combinations produced are combinations.
LEMMA SeenType ==
    ASSUME emitted \in Seq(Combos)
    PROVE  Seen \subseteq Combos
BY DEF Seen, Enum!Seen
-----------------------------------------------------------------------------
(* The inductive invariant.                                                *)

LEMMA InitRInv == FitsInt /\ InitTop => RInv
<1> SUFFICES ASSUME FitsInt, InitTop PROVE RInv
    OBVIOUS
<1> DEFINE z == [e \in Exps |-> 0]
<1>1. IInv
    BY InitIInv
<1>2. digit = z /\ topPc = "run" /\ emitted = <<>>
    BY DEF InitTop
<1>3. tp = Budget
    BY BudgetAssumption DEF InitTop, ToInt, FitsInt
<1>4. z \in Combos
    BY DEF Combos, Digits, Exps
<1>5. Cardinality(After(z)) = Budget - 1
    BY <1>4, AfterZero, CombosCountAssumption, FS_RemoveElement
<1>6. Seen = {}
    BY <1>2 DEF Seen, Enum!Seen
<1>7. ASSUME NEW c \in Combos PROVE ~Before(c, z)
    <2>1. SUFFICES ASSUME NEW j \in Exps, c[j] < z[j] PROVE FALSE
        BY BeforeDef
    <2>2. QED
        BY <2>1 DEF Combos, Digits, Exps
<1>8. tp = Cardinality(After(digit)) + 1
    BY <1>2, <1>3, <1>5, BudgetAssumption
<1>9. \A c \in Combos : c \in Seen <=> Before(c, digit)
    BY <1>2, <1>6, <1>7
<1>10. QED
    BY <1>1, <1>2, <1>8, <1>9, Zenon DEF RInv

\* While the loop runs, tp - 1 combinations come after the current one.
LEMMA TpCounts ==
    ASSUME RInv, topPc \in {"run", "eof"}
    PROVE  /\ tp \in Nat /\ tp >= 1
           /\ Dec(tp) = tp - 1
           /\ Cardinality(After(digit)) = tp - 1
<1>1. tp = Cardinality(After(digit)) + 1
    BY DEF RInv
<1>2. Cardinality(After(digit)) \in Nat
    BY AfterFinite
<1>3. QED
    BY <1>1, <1>2, DecNoWrap

\* The loop test fails exactly when every combination has been produced.
LEMMA FinishAllSeen ==
    ASSUME RInv, TopFinish
    PROVE  Seen = Combos
<1>1. topPc = "eof" /\ ~(Dec(tp) > 0)
    BY DEF TopFinish
<1>2. Cardinality(After(digit)) = 0
    BY <1>1, TpCounts
<1>3. digit \in Combos /\ emitted \in Seq(Combos)
    BY DEF RInv, IInv, TypeOK
<1>4. \A c \in Combos : c = digit \/ Before(c, digit)
    BY <1>2, <1>3, NoneAfter
<1>5. \A c \in Combos : c \in Seen
    BY <1>1, <1>4 DEF RInv
<1>6. QED
    BY <1>3, <1>5, SeenType

LEMMA NextRInv == RInv /\ [TopNext]_topVars => RInv'
<1> SUFFICES ASSUME RInv, [TopNext]_topVars PROVE RInv'
    OBVIOUS
<1>0. IInv' /\ digit \in Combos /\ emitted \in Seq(Combos)
    BY NextIInv DEF RInv, IInv, TypeOK
<1>1. CASE TopPass
    <2>1. topPc = "run" /\ topPc' = "eof" /\ digit' = digit /\ tp' = tp
        BY <1>1 DEF TopPass
    <2>2. Seen' = Seen \cup {digit}
        BY <1>0, <1>1, SeenAppend DEF TopPass
    <2>3. tp' = Cardinality(After(digit')) + 1
        BY <2>1 DEF RInv
    <2>4. \A c \in Combos : c \in Seen' <=> (Before(c, digit') \/ c = digit')
        BY <2>1, <2>2 DEF RInv
    <2>5. QED
        BY <1>0, <2>1, <2>3, <2>4, Zenon DEF RInv
<1>2. CASE TopAdvance
    <2> DEFINE d == digit
    <2> DEFINE s == OdometerStep(d)
    <2>1. topPc = "eof" /\ topPc' = "run" /\ digit' = s /\ tp' = Dec(tp)
          /\ Dec(tp) > 0 /\ emitted' = emitted
        BY <1>2 DEF TopAdvance
    <2>2. Cardinality(After(d)) = tp - 1 /\ Dec(tp) = tp - 1 /\ tp \in Nat
        BY <2>1, TpCounts
    <2>3. After(d) # {}
        BY <2>1, <2>2, FS_EmptySet
    <2>4. PICK j \in Exps : Visited(d, j) /\ d[j] < MaxCands - 1
        BY <1>0, <2>3, FirstBelowMax
    <2>5. s \in After(d) /\ After(s) = After(d) \ {s}
        BY <1>0, <2>4, SuccessorStep
    <2>6. Cardinality(After(s)) = Cardinality(After(d)) - 1
        BY <2>5, AfterFinite, FS_RemoveElement
    <2>7. tp' = Cardinality(After(digit')) + 1
        BY <2>1, <2>2, <2>6
    <2>8. s \in Combos /\ Before(d, s)
        BY <2>5 DEF After
    <2>9. Seen' = Seen
        BY <2>1 DEF Seen, Enum!Seen
    <2>10. ASSUME NEW c \in Combos PROVE c \in Seen' <=> Before(c, digit')
        <3>1. c \in Seen <=> (Before(c, d) \/ c = d)
            BY <2>1 DEF RInv
        <3>2. (Before(c, d) \/ c = d) => Before(c, s)
            BY <1>0, <2>8, BeforeTransitive
        <3>3. ASSUME Before(c, s), c # d, ~Before(c, d) PROVE FALSE
            <4>1. Before(d, c)
                BY <1>0, <3>3, BeforeTotal
            <4>2. c # s
                BY <2>8, <3>3, BeforeIrreflexive
            <4>3. c \in After(s)
                BY <2>5, <4>1, <4>2 DEF After
            <4>4. Before(s, c)
                BY <4>3 DEF After
            <4>5. QED
                BY <2>8, <3>3, <4>4, BeforeAsymmetric
        <3>4. QED
            BY <2>1, <2>9, <3>1, <3>2, <3>3
    <2>11. QED
        BY <1>0, <2>1, <2>7, <2>10, Zenon DEF RInv
<1>3. CASE TopFinish
    <2>1. topPc' = "done" /\ emitted' = emitted
        BY <1>3 DEF TopFinish
    <2>2. Seen' = Combos
        BY <1>3, <2>1, FinishAllSeen DEF Seen, Enum!Seen
    <2>3. QED
        BY <1>0, <2>1, <2>2, Zenon DEF RInv
<1>4. CASE TopTerminated \/ UNCHANGED topVars
    <2>1. UNCHANGED topVars
        BY <1>4 DEF TopTerminated
    <2>2. Seen' = Seen /\ After(digit') = After(digit)
        BY <2>1 DEF topVars, Seen, Enum!Seen, After
    <2>3. QED
        BY <1>0, <2>1, <2>2 DEF RInv, topVars
<1>5. QED
    BY <1>1, <1>2, <1>3, <1>4 DEF TopNext
-----------------------------------------------------------------------------
(* The refinement.                                                         *)

\* Before a pass, the combination of the digits is the least one not
\* produced yet.
LEMMA DigitIsNextCombo ==
    ASSUME RInv, topPc = "run"
    PROVE  /\ digit \in Combos \ Seen
           /\ Enum!NextCombo = digit
<1> DEFINE P(c) == \A x \in Combos \ Seen : c = x \/ Before(c, x)
<1>1. digit \in Combos
    BY DEF RInv, IInv, TypeOK
<1>2. digit \notin Seen
    BY <1>1, BeforeIrreflexive DEF RInv
<1>3. P(digit)
    <2>1. ASSUME NEW x \in Combos \ Seen, x # digit PROVE Before(digit, x)
        <3>1. ~Before(x, digit)
            BY <2>1 DEF RInv
        <3>2. QED
            BY <1>1, <2>1, <3>1, BeforeTotal
    <2>2. QED
        BY <2>1
<1>4. ASSUME NEW c \in Combos \ Seen, P(c) PROVE c = digit
    <2>1. SUFFICES ASSUME c # digit PROVE FALSE
        OBVIOUS
    <2>2. Before(c, digit) /\ Before(digit, c)
        BY <1>1, <1>2, <1>3, <1>4, <2>1
    <2>3. QED
        BY <1>1, <1>4, <2>2, BeforeAsymmetric
<1>5. Enum!NextCombo = CHOOSE c \in Combos \ Seen : P(c)
    BY DEF Enum!NextCombo, Enum!Combos, Enum!Exps, Enum!Digits, Combos, Exps, Digits,
           Seen, Before
<1>6. QED
    BY <1>1, <1>2, <1>3, <1>4, <1>5

\* Every step of drb_top is a step of the enumeration or leaves what it
\* promises unchanged: a pass produces the next combination, the loop
\* test that fails signals end-of-data.
LEMMA StepRefined ==
    RInv /\ [TopNext]_topVars
        => [Enum!Produce \/ Enum!Close]_<<emitted, topPc = "done">>
<1> SUFFICES ASSUME RInv, [TopNext]_topVars
             PROVE  [Enum!Produce \/ Enum!Close]_<<emitted, topPc = "done">>
    OBVIOUS
<1>1. CASE TopPass
    <2>1. digit \in Combos \ Seen /\ Enum!NextCombo = digit
        BY <1>1, DigitIsNextCombo DEF TopPass
    <2>2. Enum!Seen # Enum!Combos
        BY <2>1 DEF Seen, Enum!Combos, Combos, Enum!Exps, Exps, Enum!Digits, Digits
    <2>3. ~(topPc = "done") /\ ~(topPc' = "done")
        BY <1>1 DEF TopPass
    <2>4. emitted' = Append(emitted, Enum!NextCombo)
        BY <1>1, <2>1 DEF TopPass
    <2>5. QED
        BY <2>2, <2>3, <2>4 DEF Enum!Produce
<1>2. CASE TopAdvance
    BY <1>2 DEF TopAdvance
<1>3. CASE TopFinish
    <2>1. Seen = Combos
        BY <1>3, FinishAllSeen
    <2>2. Enum!Seen = Enum!Combos
        BY <2>1 DEF Seen, Enum!Combos, Combos, Enum!Exps, Exps, Enum!Digits, Digits
    <2>3. QED
        BY <1>3, <2>2 DEF TopFinish, Enum!Close
<1>4. CASE TopTerminated \/ UNCHANGED topVars
    BY <1>4 DEF TopTerminated, topVars
<1>5. QED
    BY <1>1, <1>2, <1>3, <1>4 DEF TopNext

\* drb_top implements the safety part of the enumeration promise
\* (EnumerationRefined without its fairness): for every number of
\* operators and every drb_max_num_cands whose budget fits into an int,
\* the passes are computed under the combinations in mixed-radix order,
\* each once, and drb_top returns NULL only after the last of them.
THEOREM TopImplementsEnumeration ==
    ASSUME FitsInt
    PROVE  TopSpec => Enum!Spec
<1>1. TopSpec => []RInv
    BY InitRInv, NextRInv, PTL DEF TopSpec
<1>2. InitTop => Enum!Init
    BY DEF InitTop, Enum!Init
<1>3. QED
    BY <1>1, <1>2, StepRefined, PTL DEF TopSpec, Enum!Spec
=============================================================================
