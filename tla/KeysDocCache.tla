---------------------------- MODULE KeysDocCache ----------------------------
(***************************************************************************)
(* The process-wide cache of workspace key documents in allowly/verify.py: *)
(* fetch_keys_doc called from any number of threads, without a lock, while *)
(* the workspace rotates its keys, callers change what they were handed    *)
(* and clear_keys_doc_cache runs.                                          *)
(*                                                                         *)
(* A document is told apart by its hash, which stands for its bytes, and   *)
(* names a workspace.  A call is a member of Calls and runs once.          *)
(* Time is the wall clock, assumed not to be set back.                     *)
(***************************************************************************)
EXTENDS Naturals

CONSTANTS
  Calls,       \* calls of fetch_keys_doc
  Workspaces,  \* stands for the URL, which names the workspace
  Versions,    \* editions of a workspace's document
  Pins,        \* values of expected_sha256: None or the hash of a document
  TTLs,        \* values of cache_ttl_seconds
  MaxTime,     \* bound on the clock
  None

Docs == [ws : Workspaces, version : Versions]

\* cache_key = (url, expected_sha256, cache_ttl_seconds)
Keys == [ws : Workspaces, pin : Pins, ttl : TTLs]

ASSUME ConstantsAssumption ==
  /\ TTLs \subseteq Nat
  /\ MaxTime \in Nat
  /\ Pins \subseteq Docs \cup {None}

VARIABLES
  clock,
  published,  \* the edition each workspace publishes
  cache,      \* _keys_doc_cache
  pc,
  key,        \* the call's cache key
  cached,     \* the entry it looked up
  now,        \* the time it read
  reply,      \* the document it received, and when that was the published one
  result,     \* the document it returned
  edited      \* the documents some caller has changed since

vars == <<clock, published, cache, pc, key, cached, now, reply, result, edited>>

\* A document in memory is the one a call parsed, or the copy it returned.
Objects == {"parsed", "copy"} \X Calls

Entries == [exp : Nat, doc : Docs, at : Nat, object : Objects]
Replies == [doc : Docs, at : Nat]
Results == [doc : Docs, at : Nat, object : Objects]

NoEntry  == [exp |-> None]
NoReply  == [doc |-> None]
NoResult == [doc |-> None]

Init ==
  /\ clock = 0
  /\ published \in [Workspaces -> Versions]
  /\ cache = [k \in Keys |-> NoEntry]
  /\ pc = [c \in Calls |-> "idle"]
  /\ key = [c \in Calls |-> None]
  /\ cached = [c \in Calls |-> NoEntry]
  /\ now = [c \in Calls |-> 0]
  /\ reply = [c \in Calls |-> NoReply]
  /\ result = [c \in Calls |-> NoResult]
  /\ edited = {}

Goto(c, step) == pc' = [pc EXCEPT ![c] = step]

\* Mutant: pinned and unpinned callers share an entry.
CacheKeyUnpinned(k) == [k EXCEPT !.pin = CHOOSE p \in Pins : TRUE]

CacheKey(k) == k

Fetch(c, k) ==
  /\ pc[c] = "idle"
  /\ key' = [key EXCEPT ![c] = k]
  /\ Goto(c, "lookup")
  /\ UNCHANGED <<clock, published, cache, cached, now, reply, result, edited>>

\* The entry is read before the clock.
Lookup(c) ==
  /\ pc[c] = "lookup"
  /\ cached' = [cached EXCEPT ![c] = cache[CacheKey(key[c])]]
  /\ Goto(c, "clock")
  /\ UNCHANGED <<clock, published, cache, key, now, reply, result, edited>>

\* Mutant: the document itself is handed out.
HandOutShared(c, entry) == [doc |-> entry.doc, at |-> entry.at, object |-> entry.object]

\* copy.deepcopy
HandOut(c, entry) == [doc |-> entry.doc, at |-> entry.at, object |-> <<"copy", c>>]

\* The call returns; its locals are gone.
Return(c, entry) ==
  /\ result' = [result EXCEPT ![c] = HandOut(c, entry)]
  /\ cached' = [cached EXCEPT ![c] = NoEntry]
  /\ reply' = [reply EXCEPT ![c] = NoReply]
  /\ Goto(c, "returned")

Hit(c) ==
  /\ pc[c] = "clock"
  /\ now' = [now EXCEPT ![c] = clock]
  /\ cached[c] # NoEntry
  /\ cached[c].exp > clock
  /\ Return(c, cached[c])
  /\ UNCHANGED <<clock, published, cache, key, edited>>

Miss(c) ==
  /\ pc[c] = "clock"
  /\ now' = [now EXCEPT ![c] = clock]
  /\ cached[c] # NoEntry => cached[c].exp <= clock
  /\ cached' = [cached EXCEPT ![c] = NoEntry]
  /\ Goto(c, "get")
  /\ UNCHANGED <<clock, published, cache, key, reply, result, edited>>

\* The server answers with a document, at worst with another workspace's.
Serve(c, w) ==
  /\ pc[c] = "get"
  /\ reply' = [reply EXCEPT ![c] = [doc |-> [ws |-> w, version |-> published[w]], at |-> clock]]
  /\ Goto(c, "check")
  /\ UNCHANGED <<clock, published, cache, key, cached, now, result, edited>>

\* Mutant: the pin is only looked at for cached documents.
ValidUnpinned(c) == reply[c].doc.ws = key[c].ws

\* The pin and the workspace of the body.
Valid(c) ==
  /\ key[c].pin # None => reply[c].doc = key[c].pin
  /\ reply[c].doc.ws = key[c].ws

\* Mutant: the life of an entry starts when it is stored.
EntryLate(c) ==
  [exp |-> clock + key[c].ttl, doc |-> reply[c].doc, at |-> reply[c].at, object |-> <<"parsed", c>>]

\* The life of an entry starts before the request, at the time read then.
Entry(c) ==
  [exp |-> now[c] + key[c].ttl, doc |-> reply[c].doc, at |-> reply[c].at, object |-> <<"parsed", c>>]

Store(c) ==
  /\ pc[c] = "check"
  /\ Valid(c)
  /\ cache' = [cache EXCEPT ![CacheKey(key[c])] = Entry(c)]
  /\ Return(c, Entry(c))
  /\ UNCHANGED <<clock, published, key, now, edited>>

\* VerificationError: no answer, another status or URL, a hash or workspace
\* that does not match, or a body that is no key document.
Raise(c) ==
  /\ pc[c] \in {"get", "check"}
  /\ Goto(c, "raised")
  /\ key' = [key EXCEPT ![c] = None]
  /\ now' = [now EXCEPT ![c] = 0]
  /\ reply' = [reply EXCEPT ![c] = NoReply]
  /\ UNCHANGED <<clock, published, cache, cached, result, edited>>

\* clear_keys_doc_cache
Clear ==
  /\ cache' = [k \in Keys |-> NoEntry]
  /\ UNCHANGED <<clock, published, pc, key, cached, now, reply, result, edited>>

\* A caller changes the document it was given.
Edit(c) ==
  /\ result[c] # NoResult
  /\ edited' = edited \cup {result[c].object}
  /\ UNCHANGED <<clock, published, cache, pc, key, cached, now, reply, result>>

Publish(w, v) ==
  /\ published' = [published EXCEPT ![w] = v]
  /\ UNCHANGED <<clock, cache, pc, key, cached, now, reply, result, edited>>

Tick ==
  /\ clock < MaxTime
  /\ clock' = clock + 1
  /\ UNCHANGED <<published, cache, pc, key, cached, now, reply, result, edited>>

Next ==
  \/ \E c \in Calls :
       \/ \E k \in Keys : Fetch(c, k)
       \/ Lookup(c) \/ Hit(c) \/ Miss(c) \/ Store(c) \/ Raise(c) \/ Edit(c)
       \/ \E w \in Workspaces : Serve(c, w)
  \/ Clear
  \/ \E w \in Workspaces, v \in Versions : Publish(w, v)
  \/ Tick

Spec == Init /\ [][Next]_vars

-----------------------------------------------------------------------------
\* Every variable keeps its type.
TypeOK ==
  /\ clock \in Nat
  /\ published \in [Workspaces -> Versions]
  /\ cache \in [Keys -> Entries \cup {NoEntry}]
  /\ pc \in [Calls -> {"idle", "lookup", "clock", "get", "check", "returned", "raised"}]
  /\ key \in [Calls -> Keys \cup {None}]
  /\ cached \in [Calls -> Entries \cup {NoEntry}]
  /\ now \in [Calls -> Nat]
  /\ reply \in [Calls -> Replies \cup {NoReply}]
  /\ result \in [Calls -> Results \cup {NoResult}]
  /\ edited \subseteq Objects

\* A revoked key is trusted for cache_ttl_seconds at most: what fetch_keys_doc
\* returns was the published document less than the caller's TTL before it read
\* the clock, or later, however slow the fetch was that filled the entry and
\* whoever overwrote it meanwhile.
FreshEnough ==
  \A c \in Calls : result[c] # NoResult =>
    result[c].at + key[c].ttl > now[c] \/ result[c].at >= now[c]

\* What fetch_keys_doc returns, cached or fetched by whichever thread, names the
\* workspace asked for and has the hash the caller pinned.
AnswersTheCall ==
  \A c \in Calls : result[c] # NoResult =>
    /\ result[c].doc.ws = key[c].ws
    /\ key[c].pin # None => result[c].doc = key[c].pin

\* No caller can change what another one will be handed: a document in the
\* cache, or on its way out of it, is never one that a caller holds.
CacheIsolated ==
  /\ \A k \in Keys : cache[k] # NoEntry => cache[k].object \notin edited
  /\ \A c \in Calls : cached[c] # NoEntry => cached[c].object \notin edited
-----------------------------------------------------------------------------
(* The inductive invariant behind these three.                             *)

\* An entry lives no longer than the TTL in its key, counted from a time before
\* its document was published, and its document fits the key.
EntryFits(e, k) ==
  /\ e.exp <= e.at + k.ttl
  /\ e.doc.ws = k.ws
  /\ k.pin # None => e.doc = k.pin
  /\ e.object[1] = "parsed"

\* Holds in every state of fetch_keys_doc's calls, and every step keeps it.
CacheInv ==
  /\ TypeOK
  /\ \A k \in Keys : cache[k] # NoEntry => EntryFits(cache[k], k)
  /\ \A c \in Calls :
       /\ pc[c] \notin {"idle", "raised"} => key[c] \in Keys
       /\ cached[c] # NoEntry => pc[c] = "clock" /\ EntryFits(cached[c], key[c])
       /\ pc[c] = "get" => now[c] <= clock
       /\ pc[c] = "check" => reply[c] \in Replies /\ now[c] <= reply[c].at
       /\ result[c] # NoResult => pc[c] = "returned" /\ result[c].object[1] = "copy"
  /\ \A o \in edited : o[1] = "copy"
  /\ FreshEnough
  /\ AnswersTheCall
=============================================================================
