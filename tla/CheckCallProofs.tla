--------------------------- MODULE CheckCallProofs ---------------------------
(***************************************************************************)
(* Proofs about one check, gated tool call or read (client.py, mcp.py) for *)
(* any sets of authorizations and actions, and any API and network.        *)
(***************************************************************************)
EXTENDS CheckCall, TLAPS

Before == {"idle", "authorization", "input", "identity"}
Ended  == {"run", "returned", "raised"}

\* Nothing is sent or heard before the request.
NotYetAsked == pc \in Before => sent = 0 /\ handled = 0 /\ answer = NoAnswer

\* The gate resolves for a tool; an unused client counts as a read.
KindOfStep ==
  /\ pc = "idle" => kind = "read"
  /\ pc \in {"authorization", "input"} => kind = "tool"

NotYetEnded == pc \notin Ended => result = NoResult

\* A check, or a tool past its resolver, has an authorization.
Authorized ==
  kind = "check" \/ (kind = "tool" /\ pc \in {"input", "identity", "wait"}) => auth \in Auths

\* The answer on the way says allow only of what was granted while the request was out.
AnswerIsTrue ==
  /\ granted \subseteq during
  /\ answer.tag = "decision" =>
       \A a \in DOMAIN answer.results :
         answer.results[a] = "allow" => <<answer.auth, a>> \in during

\* A request is sent again only if it is a read.
SentOnce == kind # "read" => sent <= 1

\* The gate runs a tool on nothing but an allow for each action.
RunsOnAllow == pc = "run" => kind = "tool" /\ \A a \in actions : Allows(a)

\* What every step of a call keeps.
CheckInv ==
  /\ TypeOK
  /\ NotYetAsked /\ KindOfStep /\ NotYetEnded /\ Authorized
  /\ AnswerIsTrue /\ SentOnce /\ RunsOnAllow
  /\ AllowIsEarned

-----------------------------------------------------------------------------
\* Before a call has ended nothing is allowed.
LEMMA NoResultAllows == result = NoResult => \A a : ~Allows(a)
BY DEF NoResult, Allows

\* The invariant holds before the call.
LEMMA InitCheckInv == Init => CheckInv
<1> SUFFICES ASSUME Init PROVE CheckInv OBVIOUS
<1>1. TypeOK
  <2>1. pc \in {"idle"} BY DEF Init
  <2>2. kind \in Kinds /\ auth \in Auths \cup {None} /\ actions \in SUBSET Actions BY DEF Init, Kinds
  <2>3. sent \in 0..2 /\ handled \in 0..sent BY DEF Init
  <2>4. granted \in SUBSET (Auths \X Actions) /\ during \in SUBSET (Auths \X Actions) BY DEF Init
  <2>5. answer \in Answers \cup [tag : Errors] \cup {Received, NoAnswer} BY DEF Init
  <2> QED BY <2>1, <2>2, <2>3, <2>4, <2>5 DEF Init, TypeOK
<1>2. AllowIsEarned BY NoResultAllows DEF Init, AllowIsEarned
<1> QED
  BY <1>1, <1>2, CheckAssumption
     DEF Init, CheckInv, NotYetAsked, KindOfStep, NotYetEnded, Authorized, AnswerIsTrue, SentOnce,
         RunsOnAllow, NoAnswer, Before, Ended

\* One step per action.
LEMMA NextCheckInv == CheckInv /\ [Next]_vars => CheckInv'
<1> SUFFICES ASSUME CheckInv, [Next]_vars PROVE CheckInv' OBVIOUS
<1> USE CheckAssumption DEF CheckInv
<1> USE DEF TypeOK, NotYetAsked, KindOfStep, NotYetEnded, Authorized, AnswerIsTrue, SentOnce, RunsOnAllow,
            AllowIsEarned, Before, Ended, Kinds
<1>1. CASE Read
  <2>1. result' = NoResult /\ answer' = NoAnswer BY <1>1 DEF Read, Transmit
  <2>2. AllowIsEarned' BY <2>1, NoResultAllows DEF Allows, NoResult
  <2> QED BY <1>1, <2>1, <2>2 DEF Read, Transmit, request, NoAnswer
<1>2. ASSUME NEW acts \in Asked, NEW refused \in BOOLEAN, CheckByAgent(acts, refused) PROVE CheckInv'
  BY <1>2 DEF CheckByAgent, Transmit, Raise, wire, workspace, Asked, Allows, NoResult, Earned, NoAnswer
<1>3. ASSUME NEW a \in Auths, NEW acts \in Asked, Check(a, acts) PROVE CheckInv'
  BY <1>3 DEF Check, wire, workspace, Asked, Allows, NoResult, Earned, NoAnswer
<1>4. CASE OnCallTool
  BY <1>4 DEF OnCallTool, wire, workspace, Allows, NoResult, Earned, NoAnswer
<1>5. ASSUME NEW a \in Auths \cup {None}, ResolveAuthorization(a) PROVE CheckInv'
  <2>1. result' = NoResult /\ answer' = NoAnswer BY <1>5 DEF ResolveAuthorization, wire
  <2>2. AllowIsEarned' BY <2>1 DEF Allows, NoResult
  <2> QED BY <1>5, <2>1, <2>2 DEF ResolveAuthorization, wire, workspace, NoAnswer
<1>6. ASSUME NEW a \in Actions, ResolveCheckInput(a) PROVE CheckInv'
  BY <1>6 DEF ResolveCheckInput, wire, workspace, Allows, NoResult, Earned, NoAnswer
<1>7. ASSUME NEW present \in BOOLEAN, IdentityHeaders(present) PROVE CheckInv'
  BY <1>7 DEF IdentityHeaders, Transmit, Allows, NoResult, Earned, NoAnswer
<1>8. CASE ResolverFailed
  BY <1>8 DEF ResolverFailed, Raise, wire, request, workspace, Allows, NoResult, Earned, NoAnswer
<1>9. CASE Handle
  BY <1>9 DEF Handle, Decided, request, workspace, Allows, NoResult, Earned, NoAnswer, Answers, Errors, Received
<1>10. CASE Grant
  BY <1>10 DEF Grant, request, wire, Allows, Earned
<1>11. CASE Revoke
  BY <1>11 DEF Revoke, request, wire, Allows, Earned
\* What is returned when the API was not heard, or is out of order.
<1>12. ASSUME pc = "wait", Unavailable, UNCHANGED <<request, handled, workspace>>,
              sent' = sent, answer' \in {NoAnswer, answer},
              answer'.tag \in {"none", "408", "5xx"}
       PROVE  CheckInv'
  <2> DEFINE fallback == [a \in actions |-> IF FallbackMode(a) = "fail_open" THEN "allow" ELSE "deny"]
  <2>1. CASE kind \in {"check", "tool"}
    <3>1. /\ result' = [fallback |-> TRUE, auth |-> auth, results |-> fallback]
          /\ pc' \in Ended
          /\ pc' = "run" => kind = "tool" /\ \A a \in actions : fallback[a] = "allow"
      BY <1>12, <2>1 DEF Unavailable, Return
    <3>2. auth \in Auths BY <1>12, <2>1
    <3>3. fallback \in [actions -> Decisions] BY DEF Decisions
    <3>4. \A a \in Actions : Allows(a)' => a \in FailOpen /\ kind = "check" /\ ~token
      BY <2>1, <3>1 DEF Allows, FallbackMode, FallbackByAction
    <3>5. \A a \in actions : fallback[a] = "allow" => Allows(a)' BY <3>1 DEF Allows
    <3> HIDE DEF fallback
    <3>6. TypeOK' BY <1>12, <3>1, <3>2, <3>3 DEF request, workspace
    <3>7. AllowIsEarned' BY <1>12, <3>1, <3>4 DEF request
    <3>8. RunsOnAllow' BY <1>12, <3>1, <3>5 DEF request
    <3> QED BY <1>12, <3>1, <3>6, <3>7, <3>8 DEF request, workspace, NoAnswer
  <2>2. CASE kind \notin {"check", "tool"}
    BY <1>12, <2>2, NoResultAllows DEF Unavailable, request, workspace, Allows, NoResult, NoAnswer
  <2> QED BY <2>1, <2>2
<1>13. CASE TimedOut \/ Unreachable
  BY <1>12, <1>13 DEF TimedOut, Unreachable, GiveUp, NoAnswer
<1>14. CASE Disconnected
  <2>1. CASE Retried
    BY <1>14, <2>1 DEF Disconnected, Retried, request, workspace, Allows, NoResult, Earned, NoAnswer
  <2>2. CASE ~Retried
    BY <1>12, <1>14, <2>2 DEF Disconnected, NoAnswer
  <2> QED BY <2>1, <2>2
<1>15. CASE ErrorAnswered
  <2>1. CASE answer.tag \in Outages
    BY <1>12, <1>15, <2>1 DEF ErrorAnswered, Outages, wire
  <2>2. CASE answer.tag \notin Outages
    BY <1>15, <2>2, NoResultAllows DEF ErrorAnswered, request, wire, workspace, Allows, NoResult
  <2> QED BY <2>1, <2>2
<1>16. CASE ReadAnswered
  BY <1>16, NoResultAllows DEF ReadAnswered, request, wire, workspace, Allows, NoResult
<1>17. CASE DecisionAnswered
  <2>1. CASE Expected(answer)
    <3>1. /\ result' = [fallback |-> FALSE, auth |-> answer.auth, results |-> answer.results]
          /\ pc' \in Ended
          /\ pc' = "run" => kind = "tool" /\ \A a \in actions : answer.results[a] = "allow"
      BY <1>17, <2>1 DEF DecisionAnswered, Return
    <3>2. /\ answer.auth \in Auths /\ answer.results \in [actions -> Decisions]
          /\ kind # "agent" => answer.auth = auth
      BY <1>17, <2>1 DEF DecisionAnswered, Expected, Answers, Received, NoAnswer, Errors
    <3>3. TypeOK' BY <1>17, <3>1, <3>2 DEF DecisionAnswered, request, wire, workspace
    <3>4. AllowIsEarned'
      BY <1>17, <3>1, <3>2 DEF DecisionAnswered, request, wire, workspace, Allows, Earned
    <3>5. RunsOnAllow' BY <1>17, <3>1, <3>2 DEF DecisionAnswered, request, Allows
    <3> QED BY <1>17, <3>1, <3>3, <3>4, <3>5 DEF DecisionAnswered, request, wire, workspace
  <2>2. CASE ~Expected(answer)
    BY <1>17, <2>2, NoResultAllows DEF DecisionAnswered, request, wire, workspace, Allows, NoResult
  <2> QED BY <2>1, <2>2
<1>18. CASE UNCHANGED vars
  BY <1>18 DEF vars, Allows, Earned
<1> QED
  BY <1>1, <1>2, <1>3, <1>4, <1>5, <1>6, <1>7, <1>8, <1>9, <1>10, <1>11, <1>13, <1>14, <1>15,
     <1>16, <1>17, <1>18 DEF Next

\* The invariant of one call, for any API, network and workspace.
THEOREM CheckInvariant == Spec => []CheckInv
BY InitCheckInv, NextCheckInv, PTL DEF Spec

\* No outage, lost or late answer, or answer about something else makes an allow
\* that neither the workspace nor the caller's own fail_open gave.
THEOREM AllowSafety == Spec => []AllowIsEarned
<1>1. CheckInv => AllowIsEarned BY DEF CheckInv
<1> QED BY CheckInvariant, <1>1, PTL

\* on_call_tool runs a tool only if each action was granted after its resolvers had
\* answered.
THEOREM ToolSafety == Spec => []ToolRunsOnlyIfGranted
<1>1. ASSUME CheckInv PROVE ToolRunsOnlyIfGranted
  BY <1>1 DEF CheckInv, TypeOK, RunsOnAllow, AllowIsEarned, Earned, ToolRunsOnlyIfGranted
<1> QED BY CheckInvariant, <1>1, PTL

\* _request_with_headers never has a write handled twice.
THEOREM WriteSafety == Spec => []WritesNeverReplayed
<1>1. ASSUME CheckInv PROVE WritesNeverReplayed
  BY <1>1 DEF CheckInv, TypeOK, SentOnce, WritesNeverReplayed
<1> QED BY CheckInvariant, <1>1, PTL
=============================================================================
