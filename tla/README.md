# TLA+ models of the Allowly Python SDK

This directory specifies and checks the parts of `allowly/` whose correctness
depends on order, failure and concurrency. The core is `allowly/execution.py`:
approving an HTTP request remotely and sending it locally, **at most once**,
whatever crashes, retries or races happen around it.

## 1. The system

| Component | State it keeps | Operations | What makes it hard |
|---|---|---|---|
| Durable HTTP execution (`execution.py`) | one folder per operation id: `journal.json`, `approval.json`, `response.json`, `operation.lock`, `witness/` | `execute_http`, `continue_http_execution`, `flush_execution_outcome`, `complete_execution_evidence` | several processes, crashes between saves, lost API answers, a provider thread and a native child that outlive their call |
| Check and fallback (`client.py`) | `_fallback_by_action`, agent token or supplier | `check`, `check_by_agent` | timeouts racing late answers; fail-open must never cover a verified identity |
| Transport (`client.py`, `_request_with_headers`) | httpx pool | every API call | a GET is repeated once after a dropped connection, a POST never |
| Receipt polling and SEAL (`client.py`) | deadline of the poll | `receipts.get`, `receipts.fetch_signed`, `seal`, `seal_value` | deadline, `Retry-After`, lost and late answers, receipts of another record |
| Review prompts (`client.py`) | none; prompts and grants are the API's | `confirmations.approve`, `escalations.resolve`, `get_status`, `authorizations.revoke` | racing reviewers, retries, grants that are gone before anybody looks |
| Policies and grants (`policies.py`, `client.py`) | none | `get`, `list`, `preview`, `create`, `publish`, `archive`, `authorizations.create` | concurrent authors, edits between retries, answers about another edition |
| Reports (`observe.py`, `client.py`) | none | `observe.submit`, `observe.get`, `settle_budget`, `acknowledge_receipt`, `get_receipt_acknowledgment` | ids and keys used twice, late handling |
| Custom executables, instructions (`client.py`) | none | one request and one parser each | - |
| Receipt verification and the keys cache (`verify.py`) | `_keys_doc_cache`, process-wide | `fetch_keys_doc`, `clear_keys_doc_cache`, `verify_receipt`, ... | unlocked cache shared by threads, rotation, slow fetches |
| MCP middleware (`mcp.py`) | none besides the client | `on_call_tool` | awaits between identity, input, token, check and the tool |
| Resolution webhook (`resolution_webhook.py`) | the secret, kept by the caller | `verify_resolution_webhook`; `configure`, `rotate`, `disable`, `get`, `deliveries` | duplicates, delay, two clocks, rotation with lost answers |
| SEAL webhook (`seal_webhook.py`) | none | `send`, `get_delivery`, `get_receipt`, `get_keys` | retries that seal twice, answers about another delivery |
| Native agent credential (`agent_identity.py`) | the key | `token` | - |
| Identifiers, errors, types | none | validation and parsing | - |

Interactions: `execute_http` and `continue_http_execution` call the client's
`prepare_execution`, `continue_execution`, `claim_execution_dispatch`,
`get_execution_witness_token` and, through `flush_execution_outcome`,
`report_execution_outcome`. The folder is shared by every process that works on
the operation. `complete_execution_evidence` and `seal` use
`receipts.fetch_signed`. The MCP middleware calls `check` before each tool. A
resolution webhook, or a waiter on `get_status`, wakes `continue_http_execution`,
which `Execution` lets happen at any time and any number of times.

## 2. The modules

| Module | Role |
|---|---|
| `DurableDispatch` | what one operation promises, without calls, files or crashes |
| `Execution` | `execution.py` in full detail: the folder, the calls, the senders, the API as seen from outside |
| `ExecutionInvariant` | the inductive invariant `IInv`, in named parts |
| `ExecutionProofs` | the proof that `IInv` is inductive, and the theorems about `Execution` and `EvidencePackage` that rest on it |
| `MCExecution` | instance for TLC |
| `KeysDocCache`, `KeysDocCacheProofs`, `MCKeysDocCache` | the keys cache of `verify.py`, its theorems, its instance |
| `ReceiptPolling`, `ReceiptPollingProofs` | `fetch_signed` and `seal` |
| `CheckCall`, `CheckCallProofs` | `check`, `check_by_agent`, reads and the MCP gate |
| `EvidencePackage`, `MCEvidencePackage` | `complete_execution_evidence`, composed with `Execution` |
| `ResolutionWebhook`, `ResolutionProofs` | setup of the callback and verification of its deliveries |
| `PolicyEdition`, `PolicyEditionProofs`, `MCPolicyEdition` | `policies` and `authorizations.create` |
| `PromptReview`, `ReviewProofs` | confirmations and escalations, reviewers and waiters |
| `SealWebhook` | the SEAL webhook client with its loop |
| `Reports`, `MCReports` | observe, settlements, acknowledgments |
| `LedgerProofs` | theorems of `SealWebhook` and `Reports` |

### 2.1 `Execution`

One operation id. A member of `Calls` is one invocation of `execute_http`
(`Execute` ...), `continue_http_execution` (`Continue` ...) or
`flush_execution_outcome` (`Flush` ...), by any process; a retry is another call.
A step ends wherever another actor can look or interfere: at a saved file, at
the lock, at an await.

| Code | Model |
|---|---|
| `journal.json` | `journal`: phase, request hash, review binding of the last answer, continuation intent, outcome. Phase `"absent"`: no folder; `"empty"`: folder without journal |
| `state` of a call | `mem[c]`; `_save(journal, state)` is `SaveJournal` |
| `_operation_lock` | `lock`; taken in `LockPrepared` and `Continue`, released by `End` (return, exception or death of the process) |
| approval, `_validate_approval`, `_live` | `Approvals`, `Acceptable`, `Live`; time is the set `expired`, which grows at any moment |
| `claim()` | `Attempt` (save), `ClaimDispatch` (the API takes it), then `StartProviderSend` or `ReleaseGate` behind the second `_live` |
| `_provider_send` in a thread | `sender[c]` from `"connecting"`; `Send` has the `_live` test made after TLS |
| native child | `sender[c]` from `"starting"`; `NativeStart`, `NativeReady`, `NativeReleased` and the files of `witness/` |
| `wait_for(witnessed_run(), 150)` | `Limited` (what is under it), `TimeLimit` |
| `except Exception` / `finally` of the witnessed branch | `WitnessFailed`, `CollectWitness` |
| `flush_execution_outcome` | `FlushRead`, `FlushSave`, `FlushFailed`; the dispatcher's own flush runs under its lock, any other without one |
| crash, cancellation, failing save | `Stop`, at every step; a crash may orphan the child, a cancellation leaves the thread |

Data is reduced to what the properties tell apart. A request is its hash: two
are equal iff `hash_seal_value` agrees. An approval is its id, the request it
approves and its evidence mode. HTTP contents, timestamps in the journal and
the URL rules of `_request` are left out.

Outside `src/`, modelled from how the code uses it:

* the API: any answer the client distinguishes, at any time, or none. Claims are
  *not* assumed exclusive: at-most-once rests on the local journal alone. For
  outcome reports the first one recorded wins, as the constant idempotency key asks;
* the native binary: creates its output directory and gives up when it exists,
  writes `witness.ready.json`, sends only after `dispatch.approved.json` names its
  own approval (the stand-in binary of `tests/test_execution.py:197-204`);
* the file system: `mkdir` and `os.replace` are atomic and a file saved with
  `fsync` survives a crash; `flock` disappears with its process.

### 2.2 Properties

* `AtMostOneSend`, `SendBoundToRequest`, `NoSendAfterDeadClaim`: what may leave for the
  provider.
* `NoFalseObservation`, `CompleteMeansReported`, `AttemptNamesSavedApproval`: what the
  folder and the API may say afterwards.
* `ContinuationKeyStable`: a lost continuation can be repeated with the same
  idempotency key.
* `IInv`, the inductive invariant of section 5. Parts of it that say something by
  themselves are `AttemptOnRecord` (nothing is claimed or sent before the attempt is
  in the journal) and `ContinuationOnRecord` (nor a continuation before its intent).
* `NeverReopened`: an attempt stays on record, under the same approval, in spite of
  the unlocked write of `flush_execution_outcome`.
* `ImplementsDurableDispatch`: refinement, with `stage` computed from the journal.
* `CompleteMeansReported` compares approvals only: which of several reports the API kept,
  and which one the journal shows, may differ (section 4).
* `WitnessedRunEnds`: liveness of the part of a call that is under `wait_for(..., 150)`.
  Nothing of the kind holds of the whole locked region: `prepare`, `continue`, the
  admission token, a receipt-mode send and the report wait for the application's token
  supplier, or for a peer that only has to let a byte through before each time-out of httpx or
  of the socket, so a call may hold `operation.lock` for as long as they please.
* `OutcomeRetained` is *violated*, see section 4.

Each module has a `TypeOK`. It documents the variables and is used by the proofs (as
part of the inductive invariants); the runs are kept for properties that can fail for a
more interesting reason.

### 2.3 `KeysDocCache`

`fetch_keys_doc` called by any number of threads. Reading the entry (`Lookup`),
reading the clock (`Hit`, `Miss`), the request (`Serve`), and storing (`Store`) are
separate steps, since nothing locks `_keys_doc_cache`. `key[c]` is the tuple
`(url, expected_sha256, cache_ttl_seconds)`; the URL is its workspace, a hash is
the document itself. Objects in memory have an identity, so that a document handed
out can be told from the cached one; `Edit` is a caller changing what it got.

* `FreshEnough`: a document was published less than the caller's TTL ago, counting
  slow fetches and overwrites by slower threads.
* `AnswersTheCall`: it is of the workspace and hash asked for.
* `CacheIsolated`: no caller holds a cached document.
* `CacheInv`: the inductive invariant behind them.

### 2.4 `ReceiptPolling`

One call of `receipts.fetch_signed`, alone or from `seal`/`seal_value`, against
`loop.time()`. The clock moves only while the call awaits. `Lag` is how late the
event loop may resume it. A receipt is reduced to the fields the code compares;
`fixed` stands for those equal in every SEAL receipt. `notBefore` remembers when
the API, or the poll interval, allows the next request.

* `ReceiptAskedFor`, `EndsInTime`, `NoEarlyGiveUp`, `PollsOnSchedule`: safety.
* `PollingEnds`: liveness, also when every answer says `Retry-After: 0`.

`EndsInTime` allows for two lags past the deadline. TLC shows that one is not
enough: an answer may overtake a late cancellation by `wait_for`, and the
zero-length sleep that follows may be resumed late as well.

### 2.5 `CheckCall`

One call of `check`, `check_by_agent`, a read, or `on_call_tool` of the MCP
middleware. Neither the client nor the middleware has state that changes between
calls, so several calls interact only through the workspace's grants, which
change at any time (`Grant`, `Revoke`). The API may handle a request after the
caller gave up, and may lose the answer. An answer is true when it is given, but
may be about another authorization or other actions. `during` records
what was granted since the request was sent, so a grant withdrawn while the middleware
was still resolving identity, input or token does not count.

* `AllowIsEarned`: an allow is the workspace's word, or an explicit `fail_open` in
  an outage without agent identity.
* `ToolRunsOnlyIfGranted`: a gated tool never runs on a fallback.
* `WritesNeverReplayed`: README.md:597-598 of the SDK.
* `CheckEnds`: liveness of a check that was sent. Reads are under no `wait_for`, and
  httpx's limits are per operation, so nothing is claimed of their end (the polling loop of
  `ReceiptPolling`, which has a `wait_for` of its own, is another matter).

### 2.6 `EvidencePackage`

Extends `Execution` with calls of `complete_execution_evidence` (`Readers`), which read
`journal.json` (`ReadJournal`) and `approval.json` (`ReadApproval`) without the lock,
compare (`VerifyReceipt`) and save (`SavePackage`). `Execution` has no use for the
answer stored in the journal's `authorization`; here it is a variable, and `held`
is the copy in each call's `state`. The actions of `Execution` are reused as they
are: `Answered`, `Reread` and `Rewritten` say what those that touch the journal do to
`authorization`, `OtherStep` is every other action.

* `PackageIsOneAnswer`: the two files are never of two different answers.
* `AttemptCanBeEvidenced`: what was sent has approval and receipt in the folder, in
  spite of the journal copies an unlocked flush writes back, and a call that starts
  after the attempt is never refused.

A package saved before an attempt may be replaced by a slower call's older one:
each is true, which of them is on disk is not promised, and no property speaks of it.

### 2.7 `ResolutionWebhook`

Setup calls (`CallSetup`, `HandleSetup`, `SetupReturns`, `SetupRaises`): the request
may be handled after the caller gave up. A secret is its credential version.
Deliveries are signed per attempt; on the way they are lost, repeated, altered or
given another time (`Disturb`), and `Receive` is `verify_resolution_webhook` at a
receiver whose clock differs by `skew`.

* `SecretIsCurrent`: unless a call raised and nothing has settled it since, the
  receiver has the endpoint's secret. `doubt` is what remains after an error; only a
  configure or rotate that started with no older request under way removes it.
* `AcceptedIsGenuine`, `PromptDeliveryAccepted`: the two sides of the tolerance.

The reads `get` and `deliveries` change nothing and are left out.

### 2.8 `PolicyEdition`

Authors read a policy, preview a draft, publish it under one key with retries
(possibly edited in between: `PublishRaises` then `Preview`), and grant. Answers of
`get`, `preview` and `authorizations.create` may be true of another edition; the answer
of a publish is that of its key.

* `PublishedAsSubmitted`, `GrantedAsPreviewed`, `NoLostUpdate`; the last one for authors
  who name the edition they started from, since without a base publish compares nothing.

The digest of policy, action and context that `preview` compares with the answer's
`input_sha256` (`policies.py:171-180`) is left out: the evaluation itself is not in the model.

### 2.9 `PromptReview`

Reviewers call `confirmations.approve` or `escalations.resolve`, time out and retry;
prompts expire, grants are used, revoked and expire; one waiter per prompt polls
`get_status`. `ParsePrompt`, `ParseConfirmation` and `ParseEscalation` are the parsers,
with every combination they refuse.

* `ConclusionIsTrue`: what a waiter or a reviewer was told is what became of the prompt,
  so two reviewers who were both answered were told the same.
* `WaiterSettles` (liveness): no point of a prompt's life is refused by the parsers for
  ever, and the waiter learns the end of it. It leaves out the `Legacy` prompts, whose status
  may be `unknown` for good; for them the SDK's README asks for a bounded loop, and
  `ConclusionIsTrue` says that nothing false is concluded meanwhile.

### 2.10 `SealWebhook`

The README's `seal_event`: `Send`, then `GetDelivery` while the delivery is received
or signing, and all of it again after an error (`CallRaises`). `HandleSend` may come
late. `Answers` are what a read may be answered with: another delivery, an unknown
status, another workspace, another event's metadata or receipt.

* `SealedOnce` for events with an `idempotency_key`; the instance has one without, which
  is sealed twice in some behaviours, as the SDK's README warns.
* `AnswerIsOwn`: the outcome and the receipt a caller ends with are those of its own
  event. `EventSettles` (liveness): the loop ends.

The answer of `send` is not compared with anything, so it is assumed to belong to
its request.

### 2.11 `Reports`

`Report`, `Retry`, `HandleReport` and `ReportReturns` for the three kinds of report, with
what each compares of an answer: agent, action, policy and execution of an event; the
receipt id of an acknowledgment; nothing of a settlement. `sources` and `occurred_at` of an
event are not in the answer: events that differ in nothing else are one event here.

* `ObservedAsReported`, `AcknowledgmentIsOwn`, `SettledOnce`.

## 3. Runs and their bounds

| Run | Instance | Why it is enough |
|---|---|---|
| `exec` | 4 calls, one receipt and one witnessed request, 2 approvals, 2 reviews, both modes | an execute, two continuations and a concurrent flush, each of which may crash; an orphaned native child of one call beside the next call's; another request, approval and review to be confused with |
| `exec_live` | 3 calls, both modes, 1 approval per request and mode | a witnessed call with a hanging child beside an orphan's ready file and a flush; liveness and refinement, without symmetry; the refinement is also proved |
| `exec_retained` | 2 calls | a dispatcher and a flush; expected violation, section 4 |
| `keys` | 3 threads, 1 workspace, with and without pin, TTLs 1 and 2, two editions, time to 1 | a slow filler, a fast filler and a reader, under equal or different keys, while an entry of TTL 1 runs out and one of TTL 2 does not; several workspaces are covered by the theorem `CacheAnswers` |
| `polling` | timeout 5, interval 2, Retry-After 0, 1 or 9, lag 1 | Retry-After below and above what remains, and a deadline that is no multiple of the interval |
| `check_call` | 2 authorizations, 2 actions, one of them `fail_open` | answers about the other authorization, the other action, or a mixture |
| `evidence` | 3 calls, 1 request, 2 approvals, 1 review, 1 reader | an execute, a continuation with another approval and a flush around one reader; readers meet only in the file they write |
| `webhook` | 2 setup calls, 1 prompt, tolerance 2, skew 1, time to 4, 2 attempts | a lost or late call overtaken by another; an attempt before and one after a rotation, on either side of the tolerance with either clock ahead |
| `policy` | 2 authors, 2 policies, 2 definitions, 3 editions | the other author's edition, the other policy and an edited draft |
| `prompts` | 2 reviewers, 1 confirmation, 2 escalations, one of them legacy | a race on one prompt, and another prompt of the same kind to be confused with; safety and liveness |
| `seal_webhook` | 2 events, one with key and details, 2 sends each, a receiver that leaves out metadata | a retry, a late first request, and another delivery to be confused with |
| `reports` | 2 reporters, 2 subjects, contents and keys, 2 tries | two reporters under one id, two acknowledgments of one receipt |

Calls are symmetric and reduced in the runs that check
safety only. `exec_*` and `polling` may stop: their calls end.

**Fairness.** `exec_live`: a process that lives runs its own code between awaits
(`LocalStep`), and its event loop the one timer there is, `wait_for` around
`witnessed_run` (`TimeLimit`; that a cancelled await ends, the application's token supplier
included, is assumed). No await ends by itself: the API, the native child and the provider may
stay silent for ever. `polling`: the event
loop runs what is due and time passes; the API owes nothing. `check_call`: the
timer of `wait_for` fires, for checks; a read has none. `prompts`: a prompt has an
`expires_at`, and a waiter that keeps asking is answered with its prompt's status in the end,
unless the record is legacy; nothing is assumed of reviewers.
`seal_webhook`: the application repeats its calls as the README's loop does, the
receiver works off what it accepted, and calls fail finitely often (`MaxSends`);
strong fairness of the answer, since an error may come in between. 
Crashes are never fair, and no answer is but those two.

## 4. A disagreement between code and documentation

The SDK's README says (lines 419-420) of a result with `outcome_pending=True`:
"`result.response` contains the locally observed response and the journal retains
the report for upload." `flush_execution_outcome` takes no lock and saves, after its
await, the copy of the journal it read before. `exec_retained` finds:

1. a dispatcher records its attempt (`dispatch_attempted`, outcome unknown);
2. another process calls `flush_execution_outcome`, reads that, and reports unknown;
3. the dispatcher gets the provider's response, saves `outcome_pending` with the
   observed outcome, fails to report it, returns `outcome_pending=True`;
4. the flush gets its acknowledgment and saves its copy: phase `complete`, target
   state unknown. The observed report is gone from the journal.

Nothing is sent twice: `AtMostOneSend` and `NeverReopened` hold in the same runs.

## 5. Proofs

Proved with TLAPS, for every value of the constants: every safety invariant and every
action property that a run checks, and the refinement. Each proof has the same form: an
inductive invariant, lemmas that say what the longer actions write, one step per action, and
the properties as consequences.

**`ExecutionProofs`.** `Inductive`: `Spec => []IInv`. The safety properties are not
inductive: that nothing is sent twice depends on what calls hold in memory, on which of them
has the lock, and on orphaned senders. `IInv` adds: only the holder of the lock is between
reading and ending; its copy agrees with the journal until it has attempted; a sender beyond
its start implies an attempt on record under its approval; a report on the wire, or a file of
`witness/`, implies what it claims. Each part is a named definition in `ExecutionInvariant`,
with a lemma of its own. From it follow `TypeCorrect`, `SendSafety`, `SendsAsApproved`,
`DeadClaimSafety`, `ReportSafety`, `CompletionSafety`, `BindingsOnRecord`, the action
properties `JournalOneWay` and `ContinuationSafety`, and `Refinement`: `Execution` implements
`DurableDispatch` under the mapping of `Execution`.

Its last part is about evidence. A step of `EvidencePackage` is a step of `Execution` or leaves the
folder alone (`FolderStep`), so `IInv` is inherited. `EvidenceInv` adds what the answers in
memory are: a call past its answer holds the receipt of the very approval it acts on
(`HeldInv`); once an attempt is on record the journal's receipt is the attempt's, since a
flush, too, writes back only a copy made after the attempt (`AuthInv`); a reader that started
then has seen nothing else (`ReaderInv`). Hence `PackageSafety` and `EvidenceSafety`.

**`KeysDocCacheProofs`.** `CacheSafety`, `CacheAnswers`, `CacheIsolation`. `CacheInv` adds that an
entry's life is counted from a time before its document was published, and that cached
objects are parsed ones, never copies.

**`CheckCallProofs`.** `AllowSafety`, `ToolSafety`, `WriteSafety`. `CheckInv` adds that an answer on
the way says allow only of what was granted while the request was out, that nothing was sent or
heard before the request, and that a request other than a read was sent once: the second
transmission, on a fresh connection, exists for reads alone.

**`ReceiptPollingProofs`.** `ReceiptSafety`, `EndsInTimeAlways`, `NoEarlyTimeout`, `PollSchedule`, for
every timeout, interval, `Retry-After` and lag. `PollingInv` bounds the clock at each await
(one lag late after a request, two after the sleep that follows it) and says that a sleep ends
when the next request is allowed, or else with nothing left.

**`PolicyEditionProofs`.** `PublishSafety`, `GrantSafety`, `UpdateSafety`. `PolicyInv` ties an idempotency
key to one read of the policy (`KeyInv`): whatever is published or answered under it names the
edition that was read, also when it is handled after the author has edited the draft; and
editions only grow (`EditionsGrow`), so that a reference, once right, stays right.

**`ResolutionProofs`.** `SecretSafety`, `AcceptanceSafety`, `ToleranceSafety`. `WebhookInv` counts: every
rotation used up the request of one call, so an endpoint without open requests has a secret
that the caller was told, or `doubt` is set (`CountInv`, `SetupInv`); and what is signed is
what was recorded, at the time it was sent (`WireInv`).

**`ReviewProofs`.** `ReviewSafety`: `ConclusionIsTrue` is inductive with the types, because a choice
that is recorded is never replaced and a status that parses is its prompt's.

**`LedgerProofs`.** `SealSafety` and `AnswerSafety`. `SealInv` says that requests and deliveries carry the
key and the details of their event, so that a second delivery under a key would be known, and
that what a caller holds is its event's (`CallerInv`); `AnswerFacts` is the heart: an answer put
together from parts of several deliveries either does not parse or is the attempt's own, with
the signed details. The second half is about `Reports`, whose
specification has names of its own (`LedgerInit`, `LedgerNext`) so that the two can stand side by
side: `ObserveSafety`, `AcknowledgmentSafety` and `SettlementSafety`, from `LedgerInv`: one entry per key, and
only fitting entries in the reporters' hands.

Assumptions are the named `ASSUME`s of the modules: sets of modes, TTLs and
approvals have their types, bounds are positive, and `None` is none of the values.

Only model-checked: `WitnessedRunEnds`, `PollingEnds`, `CheckEnds`, `WaiterSettles` and
`EventSettles`, since liveness under fairness is beyond the prover. `OutcomeRetained` is
violated (section 4) and not provable.

## 6. Not modelled

* Cryptographic verification and canonical JSON (`verify_receipt`, `verify_seal_json`,
  ...): thin wrappers of an external package, pure functions.
* URL and header rules of `_request` and `_validate_webhook_url`, redaction, the grammar
  of policy definitions and ids, data classes: pure functions without order or
  failure between their steps.
* `policies.list`, `get_execution`, `get_keys`, custom executables and setup
  instructions: one request, one parser, nothing kept and no decision taken on it.
* The native agent credential: one signed token per call, a pure function of key and
  clock. Which token a call uses, and that an identity forbids fallbacks, is in
  `CheckCall`; whether 60 s are enough depends on the leeway of the API, which is not
  in this repository.
* Three known weak spots without a property: `execute_http` saves the first journal
  before it takes the lock (`execution.py:386`; `Execution` has the step, and its
  properties hold with it); the token supplier is awaited without a limit, outside the
  check's timeout and under `operation.lock` (`client.py:403`), so `CheckEnds` speaks of
  checks that were sent and `WitnessedRunEnds` of what `wait_for` covers; the answers
  of `approve`, `resolve`, `settle_budget` and of the SEAL webhook's `send` are compared
  with nothing, so they are assumed to belong to their requests.
* Parsers of answers beyond the fields that decide what happens next.
* Retention at the API (a SEAL delivery is kept 7 days) and the disabling of a SEAL
  URL: the client sees an API error, as in `CallRaises`.

## 7. Plan

1. What a caller sees of one review, from a setup call of `ResolutionWebhook` to a conclusion of
   `PromptReview`, as an abstract specification that both implement.
2. An abstract ledger (one entry per key, answers of their own report) which `SealWebhook` and
   `Reports` both refine, so that `SealedOnce` and `SettledOnce` are one theorem.
3. Action properties behind the invariants that only hold because something never changes:
   a recorded choice, an edition, a delivery's event and final status.
