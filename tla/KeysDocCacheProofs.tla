------------------------- MODULE KeysDocCacheProofs -------------------------
(***************************************************************************)
(* Proofs about fetch_keys_doc for any number of threads, workspaces,      *)
(* pins and TTLs, and without a bound on time.                             *)
(***************************************************************************)
EXTENDS KeysDocCache, TLAPS

\* The invariant holds of an empty cache.
LEMMA InitCacheInv == Init => CacheInv
BY DEF Init, CacheInv, TypeOK, FreshEnough, AnswersTheCall

\* A returned copy fits the call when the entry it was made from does.
LEMMA HandOutFits ==
  ASSUME NEW c \in Calls, NEW e \in Entries
  PROVE  /\ HandOut(c, e) \in Results
         /\ HandOut(c, e).doc = e.doc
         /\ HandOut(c, e).at = e.at
         /\ HandOut(c, e).object[1] = "copy"
BY DEF HandOut, Entries, Results, Objects

LEMMA NextCacheInv == CacheInv /\ [Next]_vars => CacheInv'
<1> SUFFICES ASSUME CacheInv, [Next]_vars PROVE CacheInv' OBVIOUS
<1> USE ConstantsAssumption DEF CacheInv
<1>1. ASSUME NEW c \in Calls, NEW k \in Keys, Fetch(c, k) PROVE CacheInv'
  BY <1>1 DEF Fetch, Goto, TypeOK, FreshEnough, AnswersTheCall, EntryFits
<1>2. ASSUME NEW c \in Calls, Lookup(c) PROVE CacheInv'
  BY <1>2 DEF Lookup, Goto, CacheKey, TypeOK, FreshEnough, AnswersTheCall, EntryFits
<1>3. ASSUME NEW c \in Calls, Hit(c) PROVE CacheInv'
  <2>1. cached[c] \in Entries /\ EntryFits(cached[c], key[c]) /\ key[c] \in Keys
    BY <1>3 DEF Hit, TypeOK
  <2>2. cached[c].at \in Nat /\ cached[c].exp \in Nat /\ key[c].ttl \in Nat
    BY <2>1 DEF Entries, Keys
  <2> DEFINE r == HandOut(c, cached[c])
  <2>3. r \in Results /\ r.doc = cached[c].doc /\ r.at = cached[c].at /\ r.object[1] = "copy"
    BY <2>1, HandOutFits
  <2>4. result' = [result EXCEPT ![c] = r] BY <1>3 DEF Hit, Return
  <2> HIDE DEF r
  <2>5. TypeOK' BY <1>3, <2>3, <2>4 DEF Hit, Return, Goto, TypeOK
  <2>6. FreshEnough'
    BY <1>3, <2>1, <2>2, <2>3, <2>4 DEF Hit, TypeOK, FreshEnough, EntryFits
  <2>7. AnswersTheCall' BY <1>3, <2>1, <2>3, <2>4 DEF Hit, TypeOK, AnswersTheCall, EntryFits
  <2> QED BY <1>3, <2>3, <2>4, <2>5, <2>6, <2>7 DEF Hit, Return, Goto, TypeOK
<1>4. ASSUME NEW c \in Calls, Miss(c) PROVE CacheInv'
  BY <1>4 DEF Miss, Goto, TypeOK, FreshEnough, AnswersTheCall, EntryFits
<1>5. ASSUME NEW c \in Calls, Store(c) PROVE CacheInv'
  <2>1. reply[c] \in Replies /\ now[c] <= reply[c].at /\ key[c] \in Keys
    BY <1>5 DEF Store
  <2>2. reply[c].at \in Nat /\ now[c] \in Nat /\ key[c].ttl \in Nat
    BY <2>1 DEF Replies, Keys, TypeOK
  <2> DEFINE e == Entry(c)
             r == HandOut(c, e)
  <2>3. e \in Entries /\ EntryFits(e, key[c]) /\ e.at = reply[c].at
    BY <1>5, <2>1, <2>2 DEF Store, Valid, Entry, EntryFits, Entries, Replies, Objects
  <2>4. r \in Results /\ r.doc = e.doc /\ r.at = e.at /\ r.object[1] = "copy"
    BY <2>3, HandOutFits
  <2>5. /\ cache' = [cache EXCEPT ![key[c]] = e]
        /\ result' = [result EXCEPT ![c] = r]
    BY <1>5 DEF Store, Return, CacheKey
  <2> HIDE DEF e, r
  <2>6. TypeOK'
    <3>1. cache' \in [Keys -> Entries \cup {NoEntry}] BY <2>1, <2>3, <2>5 DEF TypeOK
    <3>2. result' \in [Calls -> Results \cup {NoResult}] BY <2>4, <2>5 DEF TypeOK
    <3> QED BY <1>5, <3>1, <3>2 DEF Store, Return, Goto, TypeOK
  <2>7. FreshEnough' BY <1>5, <2>1, <2>2, <2>3, <2>4, <2>5 DEF Store, TypeOK, FreshEnough
  <2>8. AnswersTheCall' BY <1>5, <2>3, <2>4, <2>5 DEF Store, TypeOK, AnswersTheCall, EntryFits
  <2> QED BY <1>5, <2>1, <2>3, <2>4, <2>5, <2>6, <2>7, <2>8 DEF Store, Return, Goto, TypeOK
<1>6. ASSUME NEW c \in Calls, Raise(c) PROVE CacheInv'
  BY <1>6 DEF Raise, Goto, TypeOK, FreshEnough, AnswersTheCall, EntryFits
<1>7. ASSUME NEW c \in Calls, Edit(c) PROVE CacheInv'
  <2>1. result[c].object \in Objects /\ result[c].object[1] = "copy"
    BY <1>7 DEF Edit, TypeOK, Results
  <2> QED BY <1>7, <2>1 DEF Edit, TypeOK, FreshEnough, AnswersTheCall, EntryFits
<1>8. ASSUME NEW c \in Calls, NEW w \in Workspaces, Serve(c, w) PROVE CacheInv'
  <2>1. reply'[c] \in Replies /\ reply'[c].at = clock
    BY <1>8 DEF Serve, TypeOK, Replies, Docs
  <2> QED BY <1>8, <2>1 DEF Serve, Goto, TypeOK, FreshEnough, AnswersTheCall, EntryFits
<1>9. ASSUME Clear PROVE CacheInv'
  BY <1>9 DEF Clear, TypeOK, FreshEnough, AnswersTheCall, EntryFits
<1>10. ASSUME NEW w \in Workspaces, NEW v \in Versions, Publish(w, v) PROVE CacheInv'
  BY <1>10 DEF Publish, TypeOK, FreshEnough, AnswersTheCall, EntryFits
<1>11. ASSUME Tick PROVE CacheInv'
  BY <1>11 DEF Tick, TypeOK, FreshEnough, AnswersTheCall, EntryFits
<1>12. CASE UNCHANGED vars
  BY <1>12 DEF vars, TypeOK, FreshEnough, AnswersTheCall, EntryFits
<1> QED
  BY <1>1, <1>2, <1>3, <1>4, <1>5, <1>6, <1>7, <1>8, <1>9, <1>10, <1>11, <1>12 DEF Next

\* The invariant of the cache, in every reachable state of its threads.
THEOREM CacheInvariant == Spec => []CacheInv
BY InitCacheInv, NextCacheInv, PTL DEF Spec

\* fetch_keys_doc returns keys that were published within the caller's TTL,
\* whatever the threads sharing the cache do.
THEOREM CacheSafety == Spec => []FreshEnough
<1>1. CacheInv => FreshEnough BY DEF CacheInv
<1> QED BY CacheInvariant, <1>1, PTL

\* What a call gets names the workspace asked for and has the hash the caller
\* pinned, whichever thread fetched it.
THEOREM CacheAnswers == Spec => []AnswersTheCall
<1>1. CacheInv => AnswersTheCall BY DEF CacheInv
<1> QED BY CacheInvariant, <1>1, PTL

\* No caller of fetch_keys_doc can change a cached document.
THEOREM CacheIsolation == Spec => []CacheIsolated
<1>1. CacheInv => CacheIsolated BY DEF CacheInv, CacheIsolated, EntryFits
<1> QED BY CacheInvariant, <1>1, PTL
=============================================================================
