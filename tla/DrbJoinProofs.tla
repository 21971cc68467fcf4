---------------------------- MODULE DrbJoinProofs ----------------------------
(***************************************************************************)
(* Proofs about one DrillBeyond join operator and its candidate cache      *)
(* (module DrbJoin), for every set of keys, every candidate cap and every  *)
(* number of rows and scans.  The lookup property holds only under the    *)
(* condition the run join_null_key shows to be necessary: no NULL join     *)
(* key.                                                                    *)
(***************************************************************************)
EXTENDS DrbJoin, TLAPS

\* No outer row has a NULL join column.
NullFree == Null \notin Keys

\* Every row sequence the outer plan can produce is a sequence of keys.
LEMMA RowSeqsAreSeqs ==
    ASSUME NEW s \in RowSeqs
    PROVE  s \in Seq(Keys)
<1>1. PICK n \in 0..MaxRows : s \in [1..n -> Keys]
    BY DEF RowSeqs
<1>2. QED
    BY <1>1, JoinAssumption

\* The part of the state the lookup argument needs: the rows are keys, and
\* once phase 1 has run every spooled row's entry is resolved.
LInv ==
    /\ rows \in Seq(Keys)
    /\ store \in Seq(Keys)
    /\ pos \in Nat
    /\ registered \subseteq Keys
    /\ requested \in [Keys -> BOOLEAN]
    /\ digit \in Digits
    /\ fetched => \A i \in 1..Len(store) : requested[store[i]]
    /\ attached # NoAttach =>
          /\ attached.key \in Keys
          /\ requested[attached.key]
          /\ attached.idx \in Digits

LEMMA InitLInv == JoinInit => LInv
BY RowSeqsAreSeqs, JoinAssumption DEF JoinInit, LInv, Digits

\* With no NULL key, a non-empty set of unrequested entries is always sent.
LEMMA RequestMade ==
    ASSUME NullFree, NEW unres \in SUBSET Keys, unres # {}
    PROVE  ReqNecessary(unres)
BY DEF NullFree, ReqNecessary

LEMMA NextLInv == NullFree /\ LInv /\ [JoinNext]_jvars => LInv'
<1> SUFFICES ASSUME NullFree, LInv, [JoinNext]_jvars PROVE LInv'
    OBVIOUS
<1>1. CASE Fetch
    <2> DEFINE reg == registered \cup KeysOf(rows)
               unres == ToResolve(reg, requested)
    <2>1. reg \subseteq Keys /\ unres \subseteq Keys
        BY DEF LInv, KeysOf, ToResolve
    <2>2. \A i \in 1..Len(rows) : rows[i] \in reg
        BY DEF KeysOf
    <2>3. \A k \in reg : requested'[k]
        <3>1. CASE unres # {}
            <4>1. ReqNecessary(unres)
                BY <3>1, <2>1, RequestMade
            <4>2. requested' = [k \in Keys |-> requested[k] \/ k \in unres]
                BY <1>1, <4>1 DEF Fetch
            <4>3. QED
                BY <4>2, <2>1 DEF ToResolve
        <3>2. CASE unres = {}
            <4>1. requested' = requested
                BY <1>1, <3>2 DEF Fetch, ReqNecessary
            <4>2. QED
                BY <4>1, <3>2, <2>1 DEF ToResolve
        <3>3. QED
            BY <3>1, <3>2
    <2>4. requested' \in [Keys -> BOOLEAN]
        <3>1. CASE ReqNecessary(unres)
            BY <1>1, <3>1 DEF Fetch, LInv
        <3>2. CASE ~ReqNecessary(unres)
            BY <1>1, <3>2 DEF Fetch, LInv
        <3>3. QED
            BY <3>1, <3>2
    <2>5. \A k \in Keys : requested[k] => requested'[k]
        <3>1. CASE ReqNecessary(unres)
            BY <1>1, <3>1 DEF Fetch, LInv
        <3>2. CASE ~ReqNecessary(unres)
            BY <1>1, <3>2 DEF Fetch
        <3>3. QED
            BY <3>1, <3>2
    <2>6. QED
        BY <1>1, <2>1, <2>2, <2>3, <2>4, <2>5 DEF Fetch, LInv
<1>2. CASE Emit
    <2>1. pos + 1 \in 1..Len(store)
        BY <1>2 DEF Emit, LInv
    <2>2. store[pos + 1] \in Keys /\ requested[store[pos + 1]]
        BY <1>2, <2>1 DEF Emit, LInv
    <2>3. QED
        BY <1>2, <2>2 DEF Emit, LInv
<1>3. CASE RescanReplay
    BY <1>3 DEF RescanReplay, LInv, NextDigits
<1>4. CASE RescanRefetch
    BY <1>4, RowSeqsAreSeqs DEF RescanRefetch, LInv, NextDigits
<1>5. CASE JoinDone
    BY <1>5 DEF JoinDone, LInv, jvars
<1>6. CASE Reoptimize
    <2>1. attached' # NoAttach =>
             /\ attached'.key \in Keys
             /\ requested[attached'.key]
             /\ attached'.idx \in Digits
        BY <1>6 DEF Reoptimize, FragmentRead, LInv
    <2>2. QED
        BY <1>6, <2>1, RowSeqsAreSeqs, JoinAssumption DEF Reoptimize, LInv, Digits
<1>7. CASE UNCHANGED jvars
    BY <1>7 DEF LInv, jvars
<1>8. QED
    BY <1>1, <1>2, <1>3, <1>4, <1>5, <1>6, <1>7 DEF JoinNext

\* ExecDrillBeyond never reads an entry the resolver has not filled
\* (LookupResolved, checked by the run join), for every set of keys and
\* every number of scans, as long as no join key is NULL.
THEOREM LookupResolvedHolds ==
    ASSUME NullFree
    PROVE  JoinSpec => []LookupResolved
<1>1. LInv => LookupResolved
    BY DEF LInv, LookupResolved
<1>2. QED
    BY <1>1, InitLInv, NextLInv, PTL DEF JoinSpec

----------------------------------------------------------------------------
(* Type correctness, with no assumption on the keys or the resolver.       *)

\* A row sequence of the outer plan is at most MaxRows keys long.
LEMMA RowSeqsBounded ==
    ASSUME NEW s \in RowSeqs
    PROVE  /\ Len(s) \in 0..MaxRows
           /\ \A i \in 1..Len(s) : s[i] \in Keys
<1>1. PICK n \in 0..MaxRows : s \in [1..n -> Keys]
    BY DEF RowSeqs
<1>2. QED
    BY <1>1, JoinAssumption

\* The empty tuplestore is a row sequence.
LEMMA EmptyRowSeq == <<>> \in RowSeqs
BY JoinAssumption DEF RowSeqs

LEMMA InitType == JoinInit => JoinTypeOK
<1> SUFFICES ASSUME JoinInit PROVE JoinTypeOK
    OBVIOUS
<1>1. numValues \in [Keys -> Nat]
    BY JoinAssumption DEF JoinInit
<1>2. store \in RowSeqs
    BY EmptyRowSeq DEF JoinInit
<1>3. attached \in [key : Keys \cup {Null}, idx : -1..MaxCands]
    BY JoinAssumption DEF JoinInit, NoAttach
<1>4. pos \in 0..MaxRows
    BY JoinAssumption DEF JoinInit
<1>5. /\ rows \in RowSeqs /\ fetched \in BOOLEAN /\ registered \subseteq Keys
      /\ requested \in [Keys -> BOOLEAN] /\ inUnion \in [Keys -> BOOLEAN]
    BY DEF JoinInit
<1>6. /\ numCands \in Nat /\ selLen \in Nat /\ digit \in Digits
      /\ scans \in 1..MaxScans /\ selRead \subseteq Nat /\ phase \in {"frag", "run"}
    BY JoinAssumption DEF JoinInit, Digits
<1>7. QED
    BY <1>1, <1>2, <1>3, <1>4, <1>5, <1>6, Zenon DEF JoinTypeOK

\* A value slot read from a spooled row: its key, under the current digit.
LEMMA AttachType ==
    ASSUME JoinTypeOK, NEW i \in 1..Len(store)
    PROVE  [key |-> store[i], idx |-> digit]
              \in [key : Keys \cup {Null}, idx : -1..MaxCands]
BY RowSeqsBounded, JoinAssumption DEF JoinTypeOK, Digits

LEMMA NextType == JoinTypeOK /\ [JoinNext]_jvars => JoinTypeOK'
<1> SUFFICES ASSUME JoinTypeOK, [JoinNext]_jvars PROVE JoinTypeOK'
    OBVIOUS
<1>1. CASE Fetch
    <2> DEFINE reg == registered \cup KeysOf(rows)
               unres == ToResolve(reg, requested)
    <2>1. reg \subseteq Keys /\ unres \subseteq Keys
        BY RowSeqsBounded DEF JoinTypeOK, KeysOf, ToResolve
    <2>2. /\ requested' \in [Keys -> BOOLEAN]
          /\ numValues' \in [Keys -> Nat]
          /\ inUnion' \in [Keys -> BOOLEAN]
          /\ numCands' \in Nat
          /\ selLen' \in Nat
        <3>1. CASE ReqNecessary(unres)
            <4>1. PICK c \in CandCounts, u \in [unres -> BOOLEAN] :
                     /\ requested' = [k \in Keys |-> requested[k] \/ k \in unres]
                     /\ numValues' = [k \in Keys |->
                                        IF k \in unres THEN EntryCands(c) ELSE numValues[k]]
                     /\ inUnion' = [k \in Keys |-> IF k \in unres THEN u[k] ELSE inUnion[k]]
                     /\ numCands' = EntryCands(c)
                     /\ selLen' = c
                BY <1>1, <3>1 DEF Fetch
            <4>2. c \in Nat /\ EntryCands(c) \in Nat
                BY JoinAssumption DEF EntryCands
            <4>3. QED
                BY <4>1, <4>2, <2>1 DEF JoinTypeOK
        <3>2. CASE ~ReqNecessary(unres)
            BY <1>1, <3>2 DEF Fetch, JoinTypeOK
        <3>3. QED
            BY <3>1, <3>2
    <2>3. selRead' \subseteq Nat
        BY <1>1, <2>2 DEF Fetch
    <2>4. store' \in RowSeqs /\ rows' \in RowSeqs
        BY <1>1 DEF Fetch, JoinTypeOK
    <2>5. pos' \in 0..MaxRows /\ registered' \subseteq Keys
        BY <1>1, <2>1, JoinAssumption DEF Fetch
    <2>6. UNCHANGED <<digit, scans, attached, phase>> /\ fetched' = TRUE
        BY <1>1 DEF Fetch
    <2>7. QED
        BY <2>2, <2>3, <2>4, <2>5, <2>6 DEF JoinTypeOK
<1>2. CASE Emit
    <2>1. pos + 1 \in 1..Len(store) /\ Len(store) \in 0..MaxRows
        BY <1>2, RowSeqsBounded DEF Emit, JoinTypeOK
    <2>2. attached' \in [key : Keys \cup {Null}, idx : -1..MaxCands]
        <3>1. CASE Returns(store[pos + 1])
            BY <1>2, <2>1, <3>1, AttachType DEF Emit
        <3>2. CASE ~Returns(store[pos + 1])
            BY <1>2, <3>2 DEF Emit, JoinTypeOK
        <3>3. QED
            BY <3>1, <3>2
    <2>3. UNCHANGED <<rows, store, fetched, registered, requested, numValues,
                      inUnion, numCands, selLen, digit, scans, selRead, phase>>
        BY <1>2 DEF Emit
    <2>4. pos' = pos + 1
        BY <1>2 DEF Emit
    <2>5. pos' \in 0..MaxRows
        BY <2>1, <2>4, JoinAssumption
    <2>6. QED
        BY <2>2, <2>3, <2>5, Zenon DEF JoinTypeOK
<1>3. CASE RescanReplay
    <2>1. UNCHANGED <<rows, store, fetched, registered, requested, numValues,
                      inUnion, numCands, selLen, attached, selRead, phase>>
        BY <1>3 DEF RescanReplay
    <2>2. pos' \in 0..MaxRows /\ digit' \in Digits /\ scans' \in 1..MaxScans
        BY <1>3, JoinAssumption DEF RescanReplay, JoinTypeOK, NextDigits
    <2>3. QED
        BY <2>1, <2>2, Zenon DEF JoinTypeOK
<1>4. CASE RescanRefetch
    <2>1. UNCHANGED <<registered, requested, numValues, inUnion, numCands, selLen,
                      attached, selRead, phase>>
        BY <1>4 DEF RescanRefetch
    <2>2. /\ pos' \in 0..MaxRows /\ scans' \in 1..MaxScans
        BY <1>4, JoinAssumption DEF RescanRefetch, JoinTypeOK
    <2>3. digit' \in Digits /\ fetched' \in BOOLEAN
        BY <1>4 DEF RescanRefetch, NextDigits
    <2>4. store' \in RowSeqs /\ rows' \in RowSeqs
        BY <1>4, EmptyRowSeq DEF RescanRefetch
    <2>5. QED
        BY <2>1, <2>2, <2>3, <2>4, Zenon DEF JoinTypeOK
<1>5. CASE JoinDone
    BY <1>5 DEF JoinDone, jvars, JoinTypeOK
<1>6. CASE Reoptimize
    <2>1. attached' \in [key : Keys \cup {Null}, idx : -1..MaxCands]
        <3>1. CASE \A i \in 1..Len(store) : ~Returns(store[i])
            <4>1. UNCHANGED attached
                BY <1>6, <3>1 DEF Reoptimize, FragmentRead
            <4>2. QED
                BY <4>1 DEF JoinTypeOK
        <3>2. CASE \E i \in 1..Len(store) : Returns(store[i])
            <4>1. PICK i \in 1..Len(store) : attached' = [key |-> store[i], idx |-> digit]
                BY <1>6, <3>2 DEF Reoptimize, FragmentRead
            <4>2. QED
                BY <4>1, AttachType
        <3>3. QED
            BY <3>1, <3>2
    <2>2. PICK tl \in NewTls, r \in RowSeqs :
             /\ fetched' = TlSubset(tl, OldTl)
             /\ store' = IF TlSubset(tl, OldTl) THEN store ELSE <<>>
             /\ rows' = r
        BY <1>6 DEF Reoptimize
    <2>3. store' \in RowSeqs /\ rows' \in RowSeqs /\ fetched' \in BOOLEAN
        BY <2>2, EmptyRowSeq DEF JoinTypeOK, TlSubset
    <2>4. /\ selRead' = IF HasExpand THEN 0..(numCands - 1) ELSE {}
          /\ pos' = 0 /\ digit' = 0 /\ phase' = "run"
        BY <1>6 DEF Reoptimize
    <2>5. /\ selRead' \subseteq Nat /\ pos' \in 0..MaxRows
          /\ digit' \in Digits /\ phase' \in {"frag", "run"}
        BY <2>4, JoinAssumption DEF JoinTypeOK, Digits
    <2>6. UNCHANGED <<registered, requested, numValues, inUnion, numCands, selLen, scans>>
        BY <1>6 DEF Reoptimize
    <2>7. QED
        BY <2>1, <2>3, <2>5, <2>6 DEF JoinTypeOK
<1>7. CASE UNCHANGED jvars
    BY <1>7 DEF JoinTypeOK, jvars
<1>8. QED
    BY <1>1, <1>2, <1>3, <1>4, <1>5, <1>6, <1>7 DEF JoinNext

\* The join operator keeps every variable in its type (the type invariant
\* of the run join): read positions within the spooled rows, value slots
\* read from spooled keys, scans within the bound, for every key set,
\* candidate cap and resolver answer.
THEOREM JoinTypeCorrect == JoinSpec => []JoinTypeOK
BY InitType, NextType, PTL DEF JoinSpec

=============================================================================
