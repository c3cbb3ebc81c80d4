-------------------------- MODULE ResolutionWebhook --------------------------
(***************************************************************************)
(* resolution_webhook.py: the setup resource (configure, rotate, disable), *)
(* whose requests and answers may be late or lost, and                     *)
(* verify_resolution_webhook at a receiver whose clock is not the API's,   *)
(* fed with deliveries that are delayed, repeated, damaged, re-stamped or  *)
(* meant for another workspace.                                            *)
(*                                                                         *)
(* A secret is its credential version (0: none).  The API and the network  *)
(* are external; that a setup change cancels the queued deliveries of      *)
(* older versions is from README.md.                                       *)
(***************************************************************************)
EXTENDS Integers, FiniteSets

CONSTANTS
  Prompts,
  Tolerance,     \* the 300 seconds
  Skew,          \* how far the receiver's clock may be off
  Delay,         \* a delivery that takes no longer than this counts as prompt
  MaxTime, MaxCalls, MaxAttempts, MaxWire   \* bounds

ASSUME TimingAssumption ==
  /\ Tolerance \in Nat /\ Skew \in Nat /\ Delay \in Nat
  /\ MaxTime \in Nat /\ MaxCalls \in Nat /\ MaxAttempts \in Nat /\ MaxWire \in Nat
  /\ Skew + Delay <= Tolerance

VARIABLES
  clock,      \* the API's clock
  skew,       \* the receiver's clock minus the API's
  endpoint,   \* the callback at the API
  requests,   \* setup requests on the wire
  calls,      \* setup calls made so far
  setup,      \* the current one
  doubt,      \* a setup call raised, and no later one has settled the matter
  secret,     \* the secret the receiver has
  review,     \* the prompts at the API
  delivery,   \* the API's summary of each prompt's event
  wire,       \* delivery attempts; they stay, so that any may be repeated
  verdict     \* the verification made by the last step, if it was one

setupVars == <<endpoint, requests, calls, setup, doubt, secret>>
eventVars == <<review, delivery, wire>>
vars == <<clock, skew, endpoint, requests, calls, setup, doubt, secret,
          review, delivery, wire, verdict>>

Time     == 0..MaxTime
Versions == 0..MaxCalls
Choices  == {"approved", "rejected"}
Bodies   == [prompt : Prompts, choice : Choices, own : BOOLEAN, ts : Time]
\* What arrives, what the signature was made over, by which secret, and when
\* the API really sent it (which the receiver cannot see).
Messages == [body : Bodies, signed : Bodies, version : Versions, sent : Time]
Ops      == {"configure", "rotate", "disable"}
\* A call has one request on the wire, until the API gets to it.
Requests == [call : 1..MaxCalls, op : Ops, copy : {1}]
Setups   == [st : {"idle", "sent", "answered"}, op : Ops \cup {"none"},
             version : Versions, clean : BOOLEAN]
Statuses == {"none", "pending", "delivered", "failed", "cancelled"}
Deliveries == [status : Statuses, attempts : 0..MaxAttempts]

NoVerdict == [st |-> "none"]
Verdicts  == [st : {"accepted", "refused"}, msg : Messages, at : Time, secret : Versions]

Init ==
  /\ clock = 0
  /\ skew \in -Skew..Skew
  /\ endpoint = [version |-> 0, enabled |-> FALSE]
  /\ requests = {}
  /\ calls = 0
  /\ setup = [st |-> "idle", op |-> "none", version |-> 0, clean |-> TRUE]
  /\ doubt = FALSE
  /\ secret = 0
  /\ review = [p \in Prompts |-> "pending"]
  /\ delivery = [p \in Prompts |-> [status |-> "none", attempts |-> 0]]
  /\ wire = {}
  /\ verdict = NoVerdict

-----------------------------------------------------------------------------
(* The setup resource                                                      *)

\* Mutant: a setup request is sent again when its connection breaks.
CopiesRetried == {1, 2}

\* _request_with_headers repeats a GET on a broken connection, never a write.
Copies == {1}

CallSetup(op) ==
  /\ setup.st = "idle"
  /\ calls < MaxCalls
  /\ calls' = calls + 1
  /\ requests' = requests \cup {[call |-> calls', op |-> op, copy |-> i] : i \in Copies}
  /\ setup' = [st |-> "sent", op |-> op, version |-> 0, clean |-> requests = {}]
  /\ UNCHANGED <<clock, skew, endpoint, doubt, secret, eventVars>>

\* A new secret or a disabled endpoint cancels what is queued.
Changed(op) ==
  /\ endpoint' = IF op = "disable"
                   THEN [endpoint EXCEPT !.enabled = FALSE]
                   ELSE [version |-> endpoint.version + 1, enabled |-> TRUE]
  /\ delivery' = [p \in Prompts |-> IF delivery[p].status = "pending"
                                      THEN [delivery[p] EXCEPT !.status = "cancelled"]
                                      ELSE delivery[p]]

\* The API handles a request, perhaps long after its caller gave up, and the
\* answer reaches the caller if it still waits.
HandleSetup(r) ==
  /\ r \in requests
  /\ requests' = requests \ {r}
  /\ r.op = "rotate" => endpoint.version > 0
  /\ Changed(r.op)
  /\ \/ /\ setup.st = "sent" /\ r.call = calls
        /\ setup' = [setup EXCEPT !.st = "answered", !.version = endpoint'.version]
     \/ UNCHANGED setup
  /\ UNCHANGED <<clock, skew, calls, doubt, secret, review, wire>>

\* A configuration as the API answers it: a missing endpoint is all null.
ConfigAnswer(e) ==
  [endpoint_id |-> e.version > 0, url |-> e.version > 0, enabled |-> e.enabled,
   credential_version |-> e.version]

\* _parse_config: an endpoint has all its fields, a missing one has none.
ParseConfig(c) ==
  IF c.endpoint_id THEN c.url /\ c.credential_version >= 1
  ELSE ~c.enabled /\ ~c.url /\ c.credential_version = 0

\* _parse_secret: the answer carries a secret and a configured endpoint.
ParseSecret(c) == ParseConfig(c) /\ c.endpoint_id

\* The caller stores the secret for the receiver.
SetupReturns ==
  /\ setup.st = "answered"
  /\ IF setup.op = "disable"
       THEN UNCHANGED <<secret, doubt>>
       ELSE /\ ParseSecret(ConfigAnswer([version |-> setup.version, enabled |-> TRUE]))
            /\ secret' = setup.version
            /\ doubt' = (doubt /\ ~setup.clean)
  /\ setup' = [setup EXCEPT !.st = "idle"]
  /\ UNCHANGED <<clock, skew, endpoint, requests, calls, eventVars>>

\* A time-out, a broken connection, an error status, an unreadable answer.
SetupRaises ==
  /\ setup.st \in {"sent", "answered"}
  /\ setup' = [setup EXCEPT !.st = "idle"]
  /\ doubt' = TRUE
  /\ UNCHANGED <<clock, skew, endpoint, requests, calls, secret, eventVars>>

-----------------------------------------------------------------------------
(* Deliveries                                                              *)

Resolve(p, choice) ==
  /\ review[p] = "pending"
  /\ review' = [review EXCEPT ![p] = choice]
  /\ delivery' = [delivery EXCEPT ![p].status = IF endpoint.enabled THEN "pending" ELSE "none"]
  /\ UNCHANGED <<clock, skew, setupVars, wire>>

Body(p, choice, own) == [prompt |-> p, choice |-> choice, own |-> own, ts |-> clock]

Post(body) ==
  /\ Cardinality(wire) < MaxWire
  /\ wire' = wire \cup {[body |-> body, signed |-> body, version |-> endpoint.version, sent |-> clock]}

\* Each attempt is signed anew, with its own time.
AttemptDelivery(p) ==
  /\ delivery[p].status = "pending"
  /\ delivery[p].attempts < MaxAttempts
  /\ delivery' = [delivery EXCEPT ![p].attempts = @ + 1]
  /\ Post(Body(p, review[p], TRUE))
  /\ UNCHANGED <<clock, skew, setupVars, review>>

GiveUpDelivery(p) ==
  /\ delivery[p].status = "pending"
  /\ delivery[p].attempts = MaxAttempts
  /\ delivery' = [delivery EXCEPT ![p].status = "failed"]
  /\ UNCHANGED <<clock, skew, setupVars, review, wire>>

\* An event of another workspace comes out under this one's secret.
PostForeign(p, choice) ==
  /\ endpoint.enabled
  /\ Post(Body(p, choice, FALSE))
  /\ UNCHANGED <<clock, skew, setupVars, review, delivery>>

\* Something on the way loses the message, alters the body, or puts its own
\* time on it.
Disturb(m) ==
  /\ \/ wire' = wire \ {m}
     \/ \E ch \in Choices : wire' = (wire \ {m}) \cup {[m EXCEPT !.body.choice = ch]}
     \/ wire' = (wire \ {m}) \cup {[m EXCEPT !.body.ts = clock]}
  /\ UNCHANGED <<clock, skew, setupVars, review, delivery>>

-----------------------------------------------------------------------------
(* verify_resolution_webhook                                               *)

Now == clock + skew

\* Mutant: attempts from a clock ahead of the receiver's are refused.
InTolerancePast(ts) == Now - ts \in 0..Tolerance

\* Mutant: only attempts from the future are checked.
InToleranceFuture(ts) == ts - Now <= Tolerance

\* abs(current_time - int(timestamp)) > 300 is an error.
InTolerance(ts) == Now - ts <= Tolerance /\ ts - Now <= Tolerance

\* Mutant: the timestamp is left out of what is signed.
SignatureMatchesBody(m) ==
  /\ secret > 0 /\ m.version = secret
  /\ [m.signed EXCEPT !.ts = 0] = [m.body EXCEPT !.ts = 0]

\* The HMAC is over id, timestamp and raw body, under the secret held.
SignatureMatches(m) == secret > 0 /\ m.version = secret /\ m.signed = m.body

Verified(m) ==
  /\ InTolerance(m.body.ts)
  /\ SignatureMatches(m)
  /\ m.body.own

\* A message is verified, the first time or again; the API may or may not
\* hear that it was.
Receive(m) ==
  /\ verdict' = [st |-> IF Verified(m) THEN "accepted" ELSE "refused",
                 msg |-> m, at |-> clock, secret |-> secret]
  /\ \/ /\ Verified(m)
        /\ delivery[m.body.prompt].status = "pending"
        /\ delivery' = [delivery EXCEPT ![m.body.prompt].status = "delivered"]
     \/ UNCHANGED delivery
  /\ UNCHANGED <<clock, skew, setupVars, review, wire>>

Tick ==
  /\ clock < MaxTime
  /\ clock' = clock + 1
  /\ UNCHANGED <<skew, setupVars, eventVars>>

Step ==
  \/ \E op \in Ops : CallSetup(op)
  \/ \E r \in requests : HandleSetup(r)
  \/ SetupReturns
  \/ SetupRaises
  \/ \E p \in Prompts :
       \/ \E choice \in Choices : Resolve(p, choice) \/ PostForeign(p, choice)
       \/ AttemptDelivery(p)
       \/ GiveUpDelivery(p)
  \/ \E m \in wire : Disturb(m)
  \/ Tick

Next ==
  \/ Step /\ verdict' = NoVerdict
  \/ \E m \in wire : Receive(m)

Spec == Init /\ [][Next]_vars

-----------------------------------------------------------------------------
\* Every variable keeps its type.
TypeOK ==
  /\ clock \in Time /\ skew \in -Skew..Skew
  /\ endpoint \in [version : Versions, enabled : BOOLEAN]
  /\ requests \subseteq Requests
  /\ calls \in 0..MaxCalls
  /\ setup \in Setups
  /\ doubt \in BOOLEAN
  /\ secret \in Versions
  /\ review \in [Prompts -> Choices \cup {"pending"}]
  /\ delivery \in [Prompts -> Deliveries]
  /\ wire \subseteq Messages
  /\ verdict \in Verdicts \cup {NoVerdict}

\* "Authenticate exact UTF-8 bytes": whatever arrived before, and however late
\* or altered, an accepted event is a resolution this workspace recorded, as it
\* was recorded, and left the API no longer ago than tolerance and skew allow.
AcceptedIsGenuine ==
  verdict.st = "accepted" =>
    /\ verdict.msg.body.own
    /\ review[verdict.msg.body.prompt] = verdict.msg.body.choice
    /\ verdict.at - verdict.msg.sent <= Tolerance + Skew

\* The tolerance works both ways: an undamaged delivery under the secret the
\* receiver holds, verified within Delay of being sent, is never refused,
\* whichever of the two clocks is ahead.
PromptDeliveryAccepted ==
  verdict.st = "refused" =>
    LET m == verdict.msg IN
    \/ m.body # m.signed \/ ~m.body.own
    \/ m.version # verdict.secret \/ m.version = 0
    \/ verdict.at - m.sent > Delay

\* "Only configure/rotate return the signing secret" (README.md): between setup
\* calls the receiver has the API's current secret, unless a call raised and no
\* call started after its request was settled has returned since.
SecretIsCurrent == setup.st = "idle" /\ ~doubt => secret = endpoint.version
=============================================================================
