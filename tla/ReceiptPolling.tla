--------------------------- MODULE ReceiptPolling ---------------------------
(***************************************************************************)
(* Waiting for a signed receipt: receipts.fetch_signed and the seal calls  *)
(* built on it (allowly/client.py).  One call against an API that answers, *)
(* fails, stays silent or hands out another receipt, and against a clock.  *)
(*                                                                         *)
(* Time passes only while the call awaits; the event loop may resume it up *)
(* to Lag late.  The signature of a receipt is not verified here, only its *)
(* claims are read (decode_receipt), so the API may answer anything.       *)
(***************************************************************************)
EXTENDS Integers

CONSTANTS
  ReceiptIds,
  Workspaces,
  Records,       \* hashes of sealed records
  Timeout,       \* timeout
  PollInterval,  \* poll_interval
  RetryAfters,   \* values of a Retry-After header
  Lag,           \* how late the event loop may be
  None

ASSUME ConstantsAssumption ==
  /\ Timeout \in Nat \ {0}
  /\ PollInterval \in Nat \ {0}
  /\ RetryAfters \subseteq Nat
  /\ Lag \in Nat
  /\ None \notin ReceiptIds

\* What the code reads of a receipt; "fixed" stands for the fields that have the
\* same value in every SEAL receipt (schema, action, decision, agent, user, profile).
Receipts == [id : ReceiptIds, ws : Workspaces, record : Records, fixed : BOOLEAN]
NoReceipt == [id |-> None]

VARIABLES
  pc,
  record,     \* the record to seal, None for a plain fetch_signed
  workspace,  \* workspace_id in the answer to POST /v1/seal
  want,       \* the receipt id polled for
  receipt,    \* the receipt returned
  clock,
  deadline,
  attempt,    \* first or second transmission of the GET
  wake,       \* end of the sleep
  notBefore   \* when the API allows the next request

vars == <<pc, record, workspace, want, receipt, clock, deadline, attempt, wake, notBefore>>
timing == <<clock, deadline, attempt, wake, notBefore>>
asked == <<record, workspace, want>>

Init ==
  /\ pc = "idle"
  /\ record = None
  /\ workspace = None
  /\ want = None
  /\ receipt = NoReceipt
  /\ clock = 0
  /\ deadline = 0
  /\ attempt = 1
  /\ wake = 0
  /\ notBefore = 0

\* fetch_signed is entered: deadline = loop.time() + timeout
StartPolling(id) ==
  /\ want' = id
  /\ deadline' = clock + Timeout
  /\ notBefore' = clock
  /\ pc' = "loop"
  /\ UNCHANGED <<clock, attempt, wake, receipt>>

FetchSigned(id) ==
  /\ pc = "idle"
  /\ StartPolling(id)
  /\ UNCHANGED <<record, workspace>>

\* seal, seal_value: the digest is computed and posted, once.
Seal(r) ==
  /\ pc = "idle"
  /\ record' = r
  /\ pc' = "post"
  /\ UNCHANGED <<workspace, want, receipt, timing>>

\* Mutant: the receipt of a SEAL is not looked at.
SealedUnseen(r, ws) == TRUE

\* _validate_seal_receipt, next to the id test
Sealed(r, ws) ==
  /\ r.fixed
  /\ r.ws = ws
  /\ r.record = record

\* The answer names the request and a workspace; its receipt is signed already,
\* or pending under an id.
SealAnswered(ws) ==
  /\ pc = "post"
  /\ workspace' = ws
  /\ UNCHANGED record
  /\ \/ \E id \in ReceiptIds : StartPolling(id)
     \/ \E r \in Receipts :
          /\ Sealed(r, ws)
          /\ receipt' = r
          /\ pc' = "returned"
          /\ UNCHANGED <<want, timing>>

\* No answer, an error, or one that does not echo the request: never repeated.
SealFailed ==
  /\ pc = "post"
  /\ pc' = "raised"
  /\ UNCHANGED <<asked, receipt, timing>>

\* Mutant: one more poll when nothing remains.
RemainingZero == deadline - clock >= 0

Remaining == deadline - clock > 0

Poll ==
  /\ pc = "loop"
  /\ Remaining
  /\ attempt' = 1
  /\ pc' = "get"
  /\ UNCHANGED <<asked, receipt, clock, deadline, wake, notBefore>>

\* Mutant: the request itself is not timed.
GiveUpBetween ==
  /\ pc = "loop" /\ ~Remaining
  /\ pc' = "timeout"
  /\ UNCHANGED <<asked, receipt, timing>>

\* TimeoutError, out of the loop's test or of wait_for.
GiveUp ==
  /\ \/ pc = "loop" /\ ~Remaining
     \/ pc = "get" /\ clock >= deadline
  /\ pc' = "timeout"
  /\ UNCHANGED <<asked, receipt, timing>>

\* Mutant: the delay the API asks for is slept in full.
SleepFull(delay) == delay

\* min(retry_delay, max(0, deadline - loop.time()))
SleepTime(delay) ==
  LET left == IF deadline > clock THEN deadline - clock ELSE 0
  IN  IF delay < left THEN delay ELSE left

SleepFor(delay) ==
  /\ wake' = clock + SleepTime(delay)
  /\ notBefore' = clock + delay
  /\ pc' = "sleep"
  /\ UNCHANGED <<asked, receipt, clock, deadline, attempt>>

\* The connection was closed without an answer: the read is sent again, once.
Reconnect ==
  /\ pc = "get"
  /\ attempt = 1
  /\ attempt' = attempt + 1
  /\ UNCHANGED <<pc, asked, receipt, clock, deadline, wake, notBefore>>

\* Mutant: a failing connection ends the wait.
GetFailedForGood ==
  /\ pc = "get"
  /\ pc' = "timeout"
  /\ UNCHANGED <<asked, receipt, timing>>

\* A transport error: an httpx time-out, or a second closed connection.
GetFailed ==
  /\ pc = "get"
  /\ SleepFor(PollInterval)

\* Not signed yet, or 408, 429, 5xx, with or without Retry-After.
TryLater ==
  /\ pc = "get"
  /\ \/ SleepFor(PollInterval)
     \/ \E delay \in RetryAfters : SleepFor(delay)

\* Another API error, or an answer that is no receipt envelope.
GetRefused ==
  /\ pc = "get"
  /\ pc' = "raised"
  /\ UNCHANGED <<asked, receipt, timing>>

\* Mutant: the id in the signed receipt is not compared.
RequestedAny(r) == TRUE

Requested(r) == r.id = want

\* A signed receipt: returned when it is the one asked for and, for a SEAL, binds
\* the record; refused otherwise.
GetSigned(r) ==
  /\ pc = "get"
  /\ IF Requested(r) /\ (record # None => Sealed(r, workspace))
       THEN receipt' = r /\ pc' = "returned"
       ELSE receipt' = receipt /\ pc' = "raised"
  /\ UNCHANGED <<asked, timing>>

Wake ==
  /\ pc = "sleep"
  /\ clock >= wake
  /\ pc' = "loop"
  /\ UNCHANGED <<asked, receipt, timing>>

Tick ==
  /\ \/ pc = "get" /\ clock < deadline + Lag
     \/ pc = "sleep" /\ clock < wake + Lag
  /\ clock' = clock + 1
  /\ UNCHANGED <<pc, asked, receipt, deadline, attempt, wake, notBefore>>

Step == Poll \/ GiveUp \/ Wake

Answer ==
  \/ \E ws \in Workspaces : SealAnswered(ws)
  \/ SealFailed \/ Reconnect \/ GetFailed \/ TryLater \/ GetRefused
  \/ \E r \in Receipts : GetSigned(r)

Next ==
  \/ \E id \in ReceiptIds : FetchSigned(id)
  \/ \E r \in Records : Seal(r)
  \/ Step
  \/ Answer
  \/ Tick

Spec == Init /\ [][Next]_vars

\* The event loop runs what is due, and time passes.  Nothing is assumed of the
\* API once polling has begun.
FairSpec == Spec /\ WF_vars(Step) /\ SF_vars(Tick)

-----------------------------------------------------------------------------
Polling == {"loop", "get", "sleep"}

\* Every variable keeps its type.
TypeOK ==
  /\ pc \in {"idle", "post", "returned", "raised", "timeout"} \cup Polling
  /\ record \in Records \cup {None}
  /\ workspace \in Workspaces \cup {None}
  /\ want \in ReceiptIds \cup {None}
  /\ receipt \in Receipts \cup {NoReceipt}
  /\ clock \in Nat /\ deadline \in Nat /\ wake \in Nat /\ notBefore \in Nat
  /\ attempt \in {1, 2}

\* The receipt fetch_signed and seal hand over is the one that was asked for: the
\* id polled for, and for a SEAL this record in the workspace that answered.
ReceiptAskedFor ==
  pc = "returned" =>
    /\ want # None => receipt.id = want
    /\ record # None => receipt.fixed /\ receipt.record = record /\ receipt.ws = workspace

\* "Raises TimeoutError if signing doesn't complete within timeout seconds": no
\* Retry-After, error or silence keeps the caller longer than that.  The two lags
\* are one answer that overtakes a late cancellation and one late wake after it.
EndsInTime == pc \in Polling => clock <= deadline + 2 * Lag

\* Failures of the transport or the API never make it give up early.
NoEarlyGiveUp == pc = "timeout" => clock >= deadline

\* Each GET is due: it is out no sooner than the API's last Retry-After, or the poll
\* interval, allows, and only if that moment was before the deadline.
PollsOnSchedule == pc = "get" => notBefore <= clock /\ notBefore < deadline

\* Polling ends, even against an API that always says "not yet, ask again now".
PollingEnds == (pc \in Polling) ~> (pc \notin Polling)
=============================================================================
