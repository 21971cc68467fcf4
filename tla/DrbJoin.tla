------------------------------- MODULE DrbJoin -------------------------------
(***************************************************************************)
(* One DrillBeyond join operator and the candidate cache of its attribute: *)
(* ExecDrillBeyond and ExecReScanDrillBeyond (drillbeyond_operator.c),     *)
(* tup_to_json, drillbeyond_fill_msg and drillbeyond_request               *)
(* (drillbeyond_requests.c), drb_addToHashTable and                        *)
(* drb_retrieveFromHashTable (drillbeyond_hashtable.c).                    *)
(*                                                                         *)
(* A row is its join key.  The cache maps a registered key to its entry:   *)
(* requested, numValues and inUnion.  The hash table belongs to the        *)
(* expansion and outlives the scans of the operator; its entries keep      *)
(* their values across rescans.  The outer rows of a scan and the          *)
(* resolver's candidate count are chosen by the environment.               *)
(*                                                                         *)
(* With drb_enable_reoptimization the first call of drb_top runs the       *)
(* operator once as a fragment, replans the query and swaps the pipeline   *)
(* (switch_plans, drillbeyond_reoptimization.c): the operator of the new   *)
(* plan either takes over the old tuplestore or starts unfetched.          *)
(***************************************************************************)
EXTENDS Integers, Sequences

CONSTANTS
    Keys,       \* join-key values the outer plan can produce
    Null,       \* the key of a row whose join column is NULL (Datum 0)
    MaxCands,   \* drb_max_num_cands
    CandCounts, \* the numbers of candidates the resolver may return
    MaxRows,    \* the longest outer input of a scan
    MaxScans,   \* the number of scans (rescans + 1) explored
    HasExpand,  \* the operator has a drb_expandNode (big-omega plan)
    Preselect,  \* the GUC drb_enable_preselection
    Reopt,      \* the GUC drb_enable_reoptimization
    NonVars,    \* target-list entries whose expression is not a Var
    OldTl,      \* the target list of the operator in the original plan
    NewTls      \* the target lists the operator may have in the replanned query

ASSUME JoinAssumption ==
    /\ MaxCands \in Nat \ {0}
    /\ CandCounts \subseteq Nat
    /\ CandCounts # {}
    /\ MaxRows \in Nat
    /\ MaxScans \in Nat \ {0}
    /\ HasExpand \in BOOLEAN
    /\ Preselect \in BOOLEAN
    /\ Reopt \in BOOLEAN

VARIABLES
    rows,       \* what the outer plan returns in the current scan
    store,      \* tuplestorestate: the spooled outer rows
    pos,        \* the read position of the tuplestore
    fetched,    \* db_fetchedResult
    registered, \* the keys with an entry in results_hashtable
    requested,  \* entry->requested
    numValues,  \* entry->numValues
    inUnion,    \* entry->inUnion
    numCands,   \* db_num_cands
    selLen,     \* the length of the palloc'd expansion->selectivities
    digit,      \* db_current_origin, set by the combination driver
    scans,      \* scans of the operator so far
    attached,   \* the last value slot read in phase 2: [key, idx], or NoAttach
    selRead,    \* the indices reconsiderStrategy read in the last phase 1
    phase       \* "frag": drb_top has not run the fragments yet; "run"

jvars == <<rows, store, pos, fetched, registered, requested, numValues, inUnion,
           numCands, selLen, digit, scans, attached, selRead, phase>>

NoAttach == [key |-> Null, idx |-> -1]

Digits == 0..(MaxCands - 1)
RowSeqs == UNION {[1..n -> Keys] : n \in 0..MaxRows}
\* The spool loop stopping one row early (the last row is not registered).
KeysOfButLast(s) == {s[i] : i \in 1..(Len(s) - 1)}

\* The keys the spool loop of phase 1 registers (tup_to_json per row).
KeysOf(s) == {s[i] : i \in 1..Len(s)}

JoinTypeOK ==
    /\ rows \in RowSeqs
    /\ store \in RowSeqs
    /\ pos \in 0..MaxRows
    /\ fetched \in BOOLEAN
    /\ registered \subseteq Keys
    /\ requested \in [Keys -> BOOLEAN]
    /\ numValues \in [Keys -> Nat]
    /\ inUnion \in [Keys -> BOOLEAN]
    /\ numCands \in Nat
    /\ selLen \in Nat
    /\ digit \in Digits
    /\ scans \in 1..MaxScans
    /\ attached \in [key : Keys \cup {Null}, idx : -1..MaxCands]
    /\ selRead \subseteq Nat
    /\ phase \in {"frag", "run"}

----------------------------------------------------------------------------

\* ExecInitDrillBeyond: db_current_origin = 0, no tuplestore; the node is
\* palloc0'd, so db_num_cands is 0.  An entry created by HASH_ENTER is not
\* zeroed: requested is set, numValues and inUnion hold whatever the memory
\* held until the entry is resolved.
JoinInit ==
    /\ rows \in RowSeqs
    /\ store = <<>>
    /\ pos = 0
    /\ fetched = FALSE
    /\ registered = {}
    /\ requested = [k \in Keys |-> FALSE]
    /\ numValues \in [Keys -> 0..MaxCands]
    /\ inUnion \in [Keys -> BOOLEAN]
    /\ numCands = 0
    /\ selLen = 0
    /\ digit = 0
    /\ scans = 1
    /\ attached = NoAttach
    /\ selRead = {}
    /\ phase = IF Reopt THEN "frag" ELSE "run"

\* The entries drillbeyond_fill_msg puts into the request (and
\* drillbeyond_request resolves): the registered ones not yet requested.
ToResolve(reg, req) == {k \in reg : ~req[k]}

\* drillbeyond_fill_msg returns true only if some unrequested entry has a
\* non-NULL join value.
ReqNecessary(unres) == \E k \in unres : k # Null

\* numValues of a resolved entry: the response's candidate count, or the
\* one synthesized NULL candidate when the response has none.
EntryCands(c) == IF c = 0 THEN 1 ELSE c

\* Phase 1 of ExecDrillBeyond: spool the whole outer input into the
\* tuplestore, registering every key (tup_to_json), make one batched
\* request for the unrequested entries, rewind the tuplestore, and let
\* reconsiderStrategy read the selectivities.  In drillbeyond_request a
\* response with no candidates gives every entry one NULL candidate and
\* sets db_num_cands to 1, after selectivities was allocated with length 0.
Fetch ==
    /\ ~fetched
    /\ LET reg   == registered \cup KeysOf(rows)
           unres == ToResolve(reg, requested)
       IN  /\ registered' = reg
           /\ IF ReqNecessary(unres)
              THEN \E c \in CandCounts, u \in [unres -> BOOLEAN] :
                      /\ requested' = [k \in Keys |-> requested[k] \/ k \in unres]
                      /\ numValues' = [k \in Keys |->
                                         IF k \in unres THEN EntryCands(c) ELSE numValues[k]]
                      /\ inUnion' = [k \in Keys |-> IF k \in unres THEN u[k] ELSE inUnion[k]]
                      /\ numCands' = EntryCands(c)
                      /\ selLen' = c
              ELSE UNCHANGED <<requested, numValues, inUnion, numCands, selLen>>
    /\ store' = rows
    /\ pos' = 0
    /\ fetched' = TRUE
    /\ selRead' = IF HasExpand THEN 0..(numCands' - 1) ELSE {}
    /\ UNCHANGED <<rows, digit, scans, attached, phase>>

\* Phase 2 returns the row of key k: without preselection every row, with
\* it only a row whose entry is inUnion.
Returns(k) == ~Preselect \/ inUnion[k]

\* Phase 2 of ExecDrillBeyond, one outer row: look its entry up and attach
\* values[db_current_origin] (DRB_DEFAULT; under DRB_PLACEHOLDER the same
\* slot is read by drb_expand2).  With preselection a row whose entry is not
\* inUnion is skipped before the slot is read.
Emit ==
    /\ phase = "run"
    /\ fetched
    /\ pos < Len(store)
    /\ pos' = pos + 1
    /\ LET k == store[pos + 1]
       IN  attached' = IF Returns(k) THEN [key |-> k, idx |-> digit] ELSE attached
    /\ UNCHANGED <<rows, store, fetched, registered, requested, numValues,
                   inUnion, numCands, selLen, digit, scans, selRead, phase>>

\* The odometer with its reset test off by one (db_current_origin > max - 1).
NextDigitsOffByOne == 0..MaxCands

\* The candidate indices the driver's odometer can set (drb_top counts
\* every digit up to drb_max_num_cands - 1).
NextDigits == Digits

\* ExecReScanDrillBeyond with bit 128 and an unchanged outer plan: the
\* tuplestore is replayed under the next digit.
RescanReplay ==
    /\ phase = "run"
    /\ scans < MaxScans
    /\ fetched
    /\ pos' = 0
    /\ digit' \in NextDigits
    /\ scans' = scans + 1
    /\ UNCHANGED <<rows, store, fetched, registered, requested, numValues,
                   inUnion, numCands, selLen, attached, selRead, phase>>

\* ExecReScanDrillBeyond with bit 128 on the outer plan too, or a normal
\* rescan: the tuplestore is cleared and phase 1 runs again over the
\* outer plan's new rows.  The cache is kept.
RescanRefetch ==
    /\ phase = "run"
    /\ scans < MaxScans
    /\ store' = <<>>
    /\ pos' = 0
    /\ fetched' = FALSE
    /\ rows' \in RowSeqs
    /\ digit' \in NextDigits
    /\ scans' = scans + 1
    /\ UNCHANGED <<registered, requested, numValues, inUnion, numCands, selLen,
                   attached, selRead, phase>>

\* The scans explored are used up.
JoinDone ==
    /\ phase = "run"
    /\ scans = MaxScans
    /\ fetched
    /\ pos = Len(store)
    /\ UNCHANGED jvars

\* check_tl_subset: every Var of the new target list occurs in the old
\* one; entries that are not Vars are skipped.
TlSubset(tl, origTl) == \A c \in tl \ NonVars : c \in origTl

\* The fragment loop of drb_top calls ExecProcNode on the operator once:
\* after phase 1 (Fetch), phase 2 reads rows up to the first one it
\* returns, whose value slot is read; the row itself is dropped.
FragmentRead ==
    \/ /\ \A i \in 1..Len(store) : ~Returns(store[i])
       /\ UNCHANGED attached
    \/ \E i \in 1..Len(store) :
          /\ Returns(store[i])
          /\ \A j \in 1..(i - 1) : ~Returns(store[j])
          /\ attached' = [key |-> store[i], idx |-> digit]

\* The first call of drb_top with drb_enable_reoptimization: the fragment
\* read, then the manual rescan rewinds the tuplestore.  reoptimize
\* replans the query, and switch_plans starts the operator of the new
\* plan: db_current_origin 0, db_num_cands copied, and the old tuplestore
\* taken over (db_fetchedResult true) when check_tl_subset holds, else no
\* tuplestore; then reconsiderStrategy runs on it.  The new plan's outer
\* input is chosen by the environment.
Reoptimize ==
    /\ phase = "frag"
    /\ fetched
    /\ FragmentRead
    /\ \E tl \in NewTls, r \in RowSeqs :
          /\ fetched' = TlSubset(tl, OldTl)
          /\ store' = IF TlSubset(tl, OldTl) THEN store ELSE <<>>
          /\ rows' = r
    /\ pos' = 0
    /\ digit' = 0
    /\ selRead' = IF HasExpand THEN 0..(numCands - 1) ELSE {}
    /\ phase' = "run"
    /\ UNCHANGED <<registered, requested, numValues, inUnion, numCands, selLen, scans>>

JoinNext ==
    \/ Fetch
    \/ Emit
    \/ RescanReplay
    \/ RescanRefetch
    \/ JoinDone
    \/ Reoptimize

JoinSpec == JoinInit /\ [][JoinNext]_jvars

----------------------------------------------------------------------------
(* Properties.                                                             *)

\* Spec 7 (CacheInvariantViolation): a row is only ever looked up in an
\* entry the resolver has filled, so the value read is a candidate.
LookupResolved == attached # NoAttach => requested[attached.key]

\* Spec 4.2 and 9: the value read, values[db_current_origin], is one of the
\* entry's numValues candidates, whatever the resolver returned.
DigitInBounds == attached # NoAttach => attached.idx < numValues[attached.key]

\* reconsiderStrategy reads selectivities[0 .. db_num_cands - 1] only
\* inside the array drillbeyond_request allocated.
SelectivitiesInBounds == \A i \in selRead : i < selLen

\* Spec 4.4 and 4.6: what phase 2 replays from the tuplestore is the output
\* of the operator's outer plan in the pipeline that is running, so a
\* replay reproduces what a fresh scan would return.
StoreMatchesOuter == fetched => store = rows
=============================================================================
