----------------------------- MODULE CheckCall -----------------------------
(***************************************************************************)
(* One call of the client (allowly/client.py) or of the tool gate          *)
(* (allowly/mcp.py) against the API, from the call to the decision the     *)
(* caller acts on:                                                         *)
(*   check   Allowly.check                                                 *)
(*   agent   Allowly.check_by_agent                                        *)
(*   tool    AllowlyMCPMiddleware.on_call_tool, which calls check          *)
(*   read    any GET of the client                                         *)
(* The client and the middleware keep no state that changes between calls, *)
(* so one call is all there is to model.  Around it, the workspace grants  *)
(* and revokes actions, and the API may handle a request the client has    *)
(* already given up on.  An answer is true when it is given but need not   *)
(* be about what was asked.                                                *)
(***************************************************************************)
EXTENDS Naturals

CONSTANTS
  Auths,     \* authorization ids
  Actions,
  FailOpen,  \* the actions that fallback_by_action maps to fail_open
  None

ASSUME CheckAssumption ==
  /\ FailOpen \subseteq Actions
  /\ None \notin Auths

Kinds == {"check", "agent", "tool", "read"}

\* "ask" stands for confirm and escalate.
Decisions == {"allow", "deny", "ask"}

Asked == SUBSET Actions \ {{}}

\* Answers by their status and error code; "garbled" is a body the parsers refuse.
Errors == {"408", "5xx", "4xx", "identity_verification_unavailable", "garbled"}
Outages == {"408", "5xx"}

Answers ==
  UNION {[tag : {"decision"}, auth : Auths, results : [acts -> Decisions]] : acts \in Asked}
NoAnswer == [tag |-> "none"]
Received == [tag |-> "received"]  \* the answer to a read

NoResult == [fallback |-> FALSE, auth |-> None, results |-> [a \in {} |-> "deny"]]

VARIABLES
  pc,
  kind,
  auth,      \* authorization_id of the request
  actions,
  token,     \* the request carries an agent token
  sent,      \* transmissions of the request
  handled,   \* how many of them the API has handled
  answer,    \* the answer under way to the client; when the call has ended, the one it read
  result,    \* the CheckResponse
  granted,   \* what the workspace grants now: pairs of authorization and action
  during     \* what it has granted at any time since the request was sent

vars == <<pc, kind, auth, actions, token, sent, handled, answer, result, granted, during>>
request == <<kind, auth, actions, token>>
wire == <<sent, handled, answer>>
workspace == <<granted, during>>

Init ==
  /\ pc = "idle"
  /\ kind = "read"
  /\ auth = None
  /\ actions = {}
  /\ token = FALSE
  /\ sent = 0
  /\ handled = 0
  /\ answer = NoAnswer
  /\ result = NoResult
  /\ granted \in SUBSET (Auths \X Actions)
  /\ during = granted

-----------------------------------------------------------------------------
\* Before the request.

Transmit ==
  /\ pc' = "wait"
  /\ sent' = 1
  /\ during' = granted
  /\ UNCHANGED <<handled, answer, result, granted>>

Raise ==
  /\ pc' = "raised"
  /\ UNCHANGED <<wire, result>>

Read ==
  /\ pc = "idle"
  /\ Transmit
  /\ UNCHANGED request

\* Refused for a client with an agent identity, or a context.agent_label.
CheckByAgent(acts, refused) ==
  /\ pc = "idle"
  /\ kind' = "agent"
  /\ actions' = acts
  /\ UNCHANGED <<auth, token>>
  /\ IF refused THEN Raise /\ UNCHANGED workspace ELSE Transmit

Check(a, acts) ==
  /\ pc = "idle"
  /\ kind' = "check"
  /\ auth' = a
  /\ actions' = acts
  /\ pc' = "identity"
  /\ UNCHANGED <<token, wire, result, workspace>>

OnCallTool ==
  /\ pc = "idle"
  /\ kind' = "tool"
  /\ pc' = "authorization"
  /\ UNCHANGED <<auth, actions, token, wire, result, workspace>>

\* user_id_fn and authorization_id_fn; without an authorization the call ends.
ResolveAuthorization(a) ==
  /\ pc = "authorization"
  /\ auth' = a
  /\ pc' = IF a = None THEN "raised" ELSE "input"
  /\ UNCHANGED <<kind, actions, token, wire, result, workspace>>

\* check_input_fn may replace the name of the tool as the action checked.
ResolveCheckInput(a) ==
  /\ pc = "input"
  /\ actions' = {a}
  /\ pc' = "identity"
  /\ UNCHANGED <<kind, auth, token, wire, result, workspace>>

\* agent_token_fn, or the token or token supplier of the client.
IdentityHeaders(present) ==
  /\ pc = "identity"
  /\ token' = present
  /\ Transmit
  /\ UNCHANGED <<kind, auth, actions>>

\* A callback raises, or what it returns is no action or no token.
ResolverFailed ==
  /\ pc \in {"authorization", "input", "identity"}
  /\ Raise
  /\ UNCHANGED <<request, workspace>>

-----------------------------------------------------------------------------
\* The API and the workspace.

\* A decision is true to what is granted when it is made.
Decided(r) ==
  \A a \in DOMAIN r.results : r.results[a] = "allow" <=> <<r.auth, a>> \in granted

\* The API handles a transmission, also one the client no longer waits for; its
\* answer is on the way, or lost.
Handle ==
  /\ handled < sent
  /\ handled' = handled + 1
  /\ \/ answer' = answer
     \/ /\ pc = "wait"
        /\ answer = NoAnswer
        /\ \/ answer' \in [tag : Errors]
           \/ kind = "read" /\ answer' = Received
           \/ kind # "read" /\ \E r \in Answers : Decided(r) /\ answer' = r
  /\ UNCHANGED <<pc, request, sent, result, workspace>>

Grant ==
  \E p \in (Auths \X Actions) \ granted :
    /\ granted' = granted \cup {p}
    /\ during' = during \cup {p}
    /\ UNCHANGED <<pc, request, wire, result>>

Revoke ==
  \E p \in granted :
    /\ granted' = granted \ {p}
    /\ UNCHANGED <<pc, request, wire, result, during>>

-----------------------------------------------------------------------------
\* The end of the call.

\* Mutant: the gate is built with the application's fallbacks.
FallbackByActionShared == FailOpen

\* fallback_by_action of the client at work: the middleware builds its own without.
FallbackByAction == IF kind = "tool" THEN {} ELSE FailOpen

\* Mutant: an agent token does not close the fallback.
FallbackModeUnforced(a) == IF a \in FallbackByAction THEN "fail_open" ELSE "fail_closed"

\* force_fail_closed is set when the request carries a token.
FallbackMode(a) ==
  IF ~token /\ a \in FallbackByAction THEN "fail_open" ELSE "fail_closed"

\* check returns: to its caller, or to the gate, which runs the tool or refuses.
Return(r) ==
  /\ result' = r
  /\ pc' = CASE kind # "tool" -> "returned"
             [] kind = "tool" /\ (\A a \in actions : r.results[a] = "allow") -> "run"
             [] OTHER -> "raised"

\* The API was not heard, or is out of order.
Unavailable ==
  IF kind \in {"check", "tool"}
    THEN Return([fallback |-> TRUE, auth |-> auth,
                 results |-> [a \in actions |->
                   IF FallbackMode(a) = "fail_open" THEN "allow" ELSE "deny"]])
    ELSE pc' = "raised" /\ UNCHANGED result

\* The call ends without an answer; one that is under way will not be read.
GiveUp ==
  /\ Unavailable
  /\ answer' = NoAnswer
  /\ UNCHANGED <<request, sent, handled, workspace>>

\* Mutant: only the connection attempt is timed.
TimedOutConnecting ==
  /\ pc = "wait"
  /\ handled = 0
  /\ GiveUp

\* wait_for around a check, or httpx, gives up, whatever is on the way.
TimedOut ==
  /\ pc = "wait"
  /\ GiveUp

\* Mutant: a request is sent again whatever its method.
RetriedAny == sent = 1

Retried == kind = "read" /\ sent = 1

\* httpx.RemoteProtocolError: the connection is closed before an answer, handled or not.
Disconnected ==
  /\ pc = "wait"
  /\ answer = NoAnswer
  /\ IF Retried
       THEN sent' = sent + 1 /\ UNCHANGED <<pc, result>>
       ELSE Unavailable /\ UNCHANGED sent
  /\ UNCHANGED <<request, handled, answer, workspace>>

\* Another transport error, or a body that does not decompress.
Unreachable ==
  /\ pc = "wait"
  /\ GiveUp

\* Mutant: any answer that has the actions asked for.
ExpectedAnyAuthorization(r) == DOMAIN r.results = actions

\* _parse_check_response; check_by_agent takes the authorization the API resolved.
Expected(r) ==
  /\ kind # "agent" => r.auth = auth
  /\ DOMAIN r.results = actions

ErrorAnswered ==
  /\ pc = "wait"
  /\ answer.tag \in Errors
  /\ IF answer.tag \in Outages THEN Unavailable ELSE pc' = "raised" /\ UNCHANGED result
  /\ UNCHANGED <<request, wire, workspace>>

ReadAnswered ==
  /\ pc = "wait"
  /\ answer = Received
  /\ pc' = "returned"
  /\ UNCHANGED <<request, wire, result, workspace>>

DecisionAnswered ==
  /\ pc = "wait"
  /\ answer.tag = "decision"
  /\ IF Expected(answer)
       THEN Return([fallback |-> FALSE, auth |-> answer.auth, results |-> answer.results])
       ELSE pc' = "raised" /\ UNCHANGED result
  /\ UNCHANGED <<request, wire, workspace>>

-----------------------------------------------------------------------------
Next ==
  \/ Read
  \/ \E acts \in Asked, refused \in BOOLEAN : CheckByAgent(acts, refused)
  \/ \E a \in Auths, acts \in Asked : Check(a, acts)
  \/ OnCallTool
  \/ \E a \in Auths \cup {None} : ResolveAuthorization(a)
  \/ \E a \in Actions : ResolveCheckInput(a)
  \/ \E present \in BOOLEAN : IdentityHeaders(present)
  \/ ResolverFailed
  \/ Handle \/ Grant \/ Revoke
  \/ TimedOut \/ Disconnected \/ Unreachable
  \/ ErrorAnswered \/ ReadAnswered \/ DecisionAnswered

Spec == Init /\ [][Next]_vars

\* The event loop runs the timer of wait_for, which all checks are under; a read
\* has no limit of its own.  Nothing is assumed of the API.
FairSpec == Spec /\ WF_vars(kind # "read" /\ TimedOut)

-----------------------------------------------------------------------------
\* Every variable keeps its type; a request is transmitted twice at most.
TypeOK ==
  /\ pc \in {"idle", "authorization", "input", "identity", "wait", "run", "returned", "raised"}
  /\ kind \in Kinds
  /\ auth \in Auths \cup {None}
  /\ actions \in SUBSET Actions
  /\ token \in BOOLEAN
  /\ sent \in 0..2
  /\ handled \in 0..sent
  /\ answer \in Answers \cup [tag : Errors] \cup {Received, NoAnswer}
  /\ result = NoResult \/
       /\ result.fallback \in BOOLEAN
       /\ result.auth \in Auths
       /\ result.results \in [actions -> Decisions]
  /\ granted \in SUBSET (Auths \X Actions)
  /\ during \in SUBSET (Auths \X Actions)

Allows(a) == a \in DOMAIN result.results /\ result.results[a] = "allow"

\* Only check_by_agent leaves the choice of the authorization to the API.
Earned(a) == <<IF kind = "agent" THEN result.auth ELSE auth, a>> \in during

\* An allow is the workspace's word, given while the request was out, or the caller's
\* own fail_open: then for a plain check without agent token that heard no decision
\* and no refusal.  (check, check_by_agent, _parse_check_response, the fallbacks)
AllowIsEarned ==
  \A a \in Actions : Allows(a) =>
    \/ Earned(a)
    \/ /\ result.fallback
       /\ a \in FailOpen
       /\ kind = "check"
       /\ ~token
       /\ answer.tag \in {"none", "408", "5xx"}

\* A tool runs only on a grant of the authorization resolved for the call that was
\* there after the last resolver had answered: no grant withdrawn earlier, outage,
\* answer to another request or agent token runs it.  (on_call_tool)
ToolRunsOnlyIfGranted == pc = "run" => \A a \in actions : <<auth, a>> \in during

\* "These GET retries never replay a Check or other write": the API handles a write
\* once at most, also when the connection breaks after it has.
WritesNeverReplayed == kind # "read" => handled <= 1

\* A check that has been sent ends, for its caller or its tool, whatever the API
\* does: silence, a late answer, an answer nobody reads.  (wait_for in check and
\* check_by_agent)
CheckEnds == (pc = "wait" /\ kind # "read") ~> (pc # "wait")
=============================================================================
