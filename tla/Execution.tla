------------------------------ MODULE Execution ------------------------------
(***************************************************************************)
(* One durable operation of allowly/execution.py: the folder of one        *)
(* operation id, every call of execute_http, continue_http_execution and   *)
(* flush_execution_outcome made on it (by any number of processes, before  *)
(* and after crashes), the provider threads and native witness processes   *)
(* those calls start, and the Allowly API as the calls see it.             *)
(*                                                                         *)
(* A call is a member of Calls and runs once; a retry is another call.     *)
(* A step of a call ends where another actor can see or disturb it: at a   *)
(* saved file, at the lock, at an await.  The API and the native binary    *)
(* are external: every answer the client code distinguishes is possible,   *)
(* no answer is guaranteed, and claims are NOT assumed to be exclusive, so *)
(* what is shown about sending rests on the local journal alone.           *)
(***************************************************************************)
CONSTANTS
  Calls,              \* calls made on the operation folder
  Requests,           \* private requests a caller may present (equal iff same hash)
  WitnessedRequests,  \* those asking for evidence_mode = "witnessed"
  ApprovalIds,        \* what tells two approvals of one request apart
  Modes,              \* evidence modes the policy may answer with
  Reviews,            \* review bindings (review id, source receipt id)
  None

\* The content of an approval: its hash stands for the whole record.
Approvals == [id : ApprovalIds, req : Requests, mode : Modes]

ASSUME ConstantsAssumption ==
  /\ WitnessedRequests \subseteq Requests
  /\ Modes \subseteq {"receipt", "witnessed"}
  /\ None \notin Calls
  /\ None \notin Requests
  /\ None \notin Reviews
  /\ None \notin Approvals

VARIABLES
  \* the operation folder
  journal,       \* journal.json; phase "absent" = no folder, "empty" = no journal yet
  approvalFile,  \* approval.json
  responseFile,  \* whether response.json exists
  witness,       \* witness/: its creator, witness.ready.json, dispatch.approved.json, response.json
  lock,          \* operation.lock (flock, gone with the process that holds it)
  \* the calls
  pc,
  arg,           \* the request the caller presented
  mem,           \* the call's in-memory copy of the journal ("state")
  approval,      \* the approval it holds
  response,      \* what it knows of the provider's response
  sender,        \* its provider thread or native process, which may outlive it
  \* the outside world
  expired,       \* approvals past expires_at
  deadClaims,    \* approvals that had expired when the API took their claim
  net,           \* outcome reports on the wire, processed late or never
  srvOutcome,    \* the report the API recorded: the first one for the key
  sent           \* requests that reached the provider

disk  == <<journal, approvalFile, responseFile, witness>>
local == <<arg, mem, approval, response>>
world == <<expired, deadClaims, net, srvOutcome, sent>>
vars  == <<journal, approvalFile, responseFile, witness, lock, pc, arg, mem,
           approval, response, sender, expired, deadClaims, net, srvOutcome, sent>>

-----------------------------------------------------------------------------
OpenPhases == {"absent", "empty", "prepared", "waiting_for_review", "authorized", "continuing"}
Phases     == OpenPhases \cup {"dispatch_attempted", "outcome_pending", "complete"}

NoOutcome == [state |-> "none", approval |-> None]
Outcomes  == {NoOutcome} \cup [state : {"unknown", "observed", "attested"}, approval : Approvals]

Journals  == [phase : Phases, req : Requests \cup {None}, review : Reviews \cup {None},
              intent : Reviews \cup {None}, outcome : Outcomes]
NoJournal == [phase |-> "absent", req |-> None, review |-> None,
              intent |-> None, outcome |-> NoOutcome]

\* A sender is the provider thread (mode "receipt") or the native child (mode
\* "witnessed"); "dead" covers killed, exited and returned.
NoSender   == [st |-> "none", approval |-> None, req |-> None]
DeadSender == [st |-> "dead", approval |-> None, req |-> None]
SenderSteps == {"starting", "preparing", "gated", "connecting", "sent", "responded", "proved"}
Senders    == {NoSender, DeadSender} \cup [st : SenderSteps, approval : Approvals, req : Requests]

SendRecords == [call : Calls, approval : Approvals, req : Requests]

WitnessFiles == [dir : Calls \cup {None}, ready : Approvals \cup {None},
                 gate : Approvals \cup {None}, response : BOOLEAN]

\* Steps taken with the lock held, before and after the attempt is recorded.
BeforeAttempt == {"prepare", "continue", "validate", "admit", "await_ready", "claim"}
AfterAttempt  == {"claim_call", "claim_reply", "sending", "await_native", "collect",
                  "save_response", "save_outcome"}
LockedSteps   == {"cont_read"} \cup BeforeAttempt \cup AfterAttempt
FlushSteps    == {"flush_read", "flush_wait"}
ActiveSteps   == {"exec_save", "exec_lock"} \cup LockedSteps \cup FlushSteps
EndSteps      == {"returned", "pending", "stopped"}

Init ==
  /\ journal = NoJournal
  /\ approvalFile = None
  /\ responseFile = FALSE
  /\ witness = [dir |-> None, ready |-> None, gate |-> None, response |-> FALSE]
  /\ lock = None
  /\ pc = [c \in Calls |-> "idle"]
  /\ arg = [c \in Calls |-> None]
  /\ mem = [c \in Calls |-> NoJournal]
  /\ approval = [c \in Calls |-> None]
  /\ response = [c \in Calls |-> "none"]
  /\ sender = [c \in Calls |-> NoSender]
  /\ expired = {}
  /\ deadClaims = {}
  /\ net = {}
  /\ srvOutcome = NoOutcome
  /\ sent = {}

Goto(c, step) == pc' = [pc EXCEPT ![c] = step]

\* The call returns or raises: its locals are gone, its descriptor closed.
\* A caller told outcome_pending=True keeps the response it was handed.
End(c, how) ==
  /\ Goto(c, how)
  /\ lock' = IF lock = c THEN None ELSE lock
  /\ arg' = [arg EXCEPT ![c] = None]
  /\ mem' = [mem EXCEPT ![c] = NoJournal]
  /\ approval' = [approval EXCEPT ![c] = None]
  /\ response' = IF how = "pending" THEN response ELSE [response EXCEPT ![c] = "none"]

\* _save(journal, state): atomic replacement by the call's in-memory copy.
SaveJournal(c, state) ==
  /\ journal' = state
  /\ mem' = [mem EXCEPT ![c] = state]

\* _live
Live(a) == a \notin expired

-----------------------------------------------------------------------------
(* execute_http                                                            *)

\* folder.mkdir, which only one call ever wins.
Execute(c, r) ==
  /\ pc[c] = "idle"
  /\ journal.phase = "absent"
  /\ journal' = [journal EXCEPT !.phase = "empty"]
  /\ arg' = [arg EXCEPT ![c] = r]
  /\ Goto(c, "exec_save")
  /\ UNCHANGED <<approvalFile, responseFile, witness, lock, mem, approval, response, sender, world>>

\* The first journal is saved before the lock is taken.
SavePrepared(c) ==
  /\ pc[c] = "exec_save"
  /\ SaveJournal(c, [NoJournal EXCEPT !.phase = "prepared", !.req = arg[c]])
  /\ Goto(c, "exec_lock")
  /\ UNCHANGED <<approvalFile, responseFile, witness, lock, arg, approval, response, sender, world>>

LockPrepared(c) ==
  /\ pc[c] = "exec_lock"
  /\ lock = None
  /\ lock' = c
  /\ Goto(c, "prepare")
  /\ UNCHANGED <<disk, local, sender, world>>

\* The answer of prepare or continue is journalled before anything else.
Approved(c, phase) ==
  /\ \E a \in Approvals : approval' = [approval EXCEPT ![c] = a]
  /\ SaveJournal(c, [mem[c] EXCEPT !.phase = phase, !.review = None])
  /\ Goto(c, "validate")
  /\ UNCHANGED <<lock, arg, response>>

NotApproved(c) ==
  /\ \/ \E v \in Reviews :
          journal' = [mem[c] EXCEPT !.phase = "waiting_for_review", !.review = v]
     \/ journal' = [mem[c] EXCEPT !.phase = "complete", !.review = None]
  /\ End(c, "returned")

PrepareReplied(c) ==
  /\ pc[c] = "prepare"
  /\ Approved(c, "authorized") \/ NotApproved(c)
  /\ UNCHANGED <<approvalFile, responseFile, witness, sender, world>>

-----------------------------------------------------------------------------
(* continue_http_execution                                                 *)

\* Mutant: a continuation that does not wait for the lock.
ContinueUnlocked(c, r) ==
  /\ pc[c] = "idle"
  /\ journal.phase # "absent"
  /\ lock' = c
  /\ arg' = [arg EXCEPT ![c] = r]
  /\ Goto(c, "cont_read")
  /\ UNCHANGED <<disk, mem, approval, response, sender, world>>

Continue(c, r) ==
  /\ pc[c] = "idle"
  /\ journal.phase # "absent"
  /\ lock = None
  /\ lock' = c
  /\ arg' = [arg EXCEPT ![c] = r]
  /\ Goto(c, "cont_read")
  /\ UNCHANGED <<disk, mem, approval, response, sender, world>>

\* Mutant: an attempted operation is continued again.
ContinuableAttempted(c) ==
  /\ journal.phase \in {"waiting_for_review", "continuing", "dispatch_attempted"}
  /\ journal.req = arg[c]

Continuable(c) ==
  /\ journal.phase \in {"waiting_for_review", "continuing"}
  /\ journal.req = arg[c]

\* Mutant: the binding of the last answer, also on a retry.
IntentLatest == journal.review

\* Mutant: the binding is used but not saved.
IntentUnsaved == journal.intent

\* The continuation key is chosen once per review ...
Intent == IF journal.phase = "continuing" THEN journal.intent ELSE journal.review

\* ... and durable before its use.
ContinueSave(c) ==
  /\ pc[c] = "cont_read"
  /\ Continuable(c)
  /\ SaveJournal(c, [journal EXCEPT !.phase = "continuing", !.intent = Intent])
  /\ Goto(c, "continue")
  /\ UNCHANGED <<approvalFile, responseFile, witness, lock, arg, approval, response, sender, world>>

ContinueReplied(c) ==
  /\ pc[c] = "continue"
  /\ Approved(c, "continuing") \/ NotApproved(c)
  /\ UNCHANGED <<approvalFile, responseFile, witness, sender, world>>

-----------------------------------------------------------------------------
(* _dispatch_approved                                                      *)

\* Mutant: a witnessed request may be downgraded to a receipt.
AcceptableDowngrade(c) ==
  /\ approval[c].req = arg[c]
  /\ Live(approval[c])

\* _validate_approval: the approval is for this very request, its evidence
\* mode is no downgrade, and it is live.
Acceptable(c) ==
  /\ approval[c].req = arg[c]
  /\ arg[c] \in WitnessedRequests => approval[c].mode = "witnessed"
  /\ Live(approval[c])

Witnessed(c) == approval[c].mode = "witnessed"

\* Mutant: an approval.json that is already there is kept.
ValidateApprovalOnce(c) ==
  /\ pc[c] = "validate"
  /\ Acceptable(c)
  /\ approvalFile' = IF approvalFile = None THEN approval[c] ELSE approvalFile
  /\ Goto(c, IF Witnessed(c) THEN "admit" ELSE "claim")
  /\ UNCHANGED <<journal, responseFile, witness, lock, local, sender, world>>

ValidateApproval(c) ==
  /\ pc[c] = "validate"
  /\ Acceptable(c)
  /\ approvalFile' = approval[c]
  /\ Goto(c, IF Witnessed(c) THEN "admit" ELSE "claim")
  /\ UNCHANGED <<journal, responseFile, witness, lock, local, sender, world>>

\* The admission token arrives and the native child is started.
SpawnWitness(c) ==
  /\ pc[c] = "admit"
  /\ sender' = [sender EXCEPT ![c] = [st |-> "starting", approval |-> approval[c], req |-> arg[c]]]
  /\ Goto(c, "await_ready")
  /\ UNCHANGED <<disk, lock, local, world>>

\* Mutant: the ready file is awaited but not compared.
ReadyAny(c) == witness.ready # None

\* witness.ready.json exists, whichever child wrote it, and names the approval.
Ready(c) == witness.ready = approval[c]

WitnessReady(c) ==
  /\ pc[c] = "await_ready"
  /\ Ready(c)
  /\ Goto(c, "claim")
  /\ UNCHANGED <<disk, lock, local, sender, world>>

Attempted(c) ==
  [mem[c] EXCEPT !.phase = "dispatch_attempted",
                 !.outcome = [state |-> "unknown", approval |-> approval[c]]]

\* Mutant: the attempt is noted in memory and saved with the outcome only.
AttemptUnsaved(c) ==
  /\ pc[c] = "claim"
  /\ Live(approval[c])
  /\ mem' = [mem EXCEPT ![c] = Attempted(c)]
  /\ Goto(c, "claim_call")
  /\ UNCHANGED <<disk, lock, arg, approval, response, sender, world>>

\* claim(): the attempt is durable, as an unknown outcome, before the request.
Attempt(c) ==
  /\ pc[c] = "claim"
  /\ Live(approval[c])
  /\ SaveJournal(c, Attempted(c))
  /\ Goto(c, "claim_call")
  /\ UNCHANGED <<approvalFile, responseFile, witness, lock, arg, approval, response, sender, world>>

\* The API takes the claim; the lease may run out on the way.
ClaimDispatch(c) ==
  /\ pc[c] = "claim_call"
  /\ deadClaims' = IF Live(approval[c]) THEN deadClaims ELSE deadClaims \cup {approval[c]}
  /\ Goto(c, "claim_reply")
  /\ UNCHANGED <<disk, lock, local, sender, expired, net, srvOutcome, sent>>

\* asyncio.to_thread(_provider_send, ...)
StartProviderSend(c) ==
  /\ pc[c] = "claim_reply"
  /\ ~Witnessed(c)
  /\ Live(approval[c])
  /\ sender' = [sender EXCEPT ![c] = [st |-> "connecting", approval |-> approval[c], req |-> arg[c]]]
  /\ Goto(c, "sending")
  /\ UNCHANGED <<disk, lock, local, world>>

\* Mutant: the lease is not checked again after the claim.
ReleaseGateLate(c) ==
  /\ pc[c] = "claim_reply"
  /\ Witnessed(c)
  /\ witness' = [witness EXCEPT !.gate = approval[c]]
  /\ Goto(c, "await_native")
  /\ UNCHANGED <<journal, approvalFile, responseFile, lock, local, sender, world>>

\* _save(output / "dispatch.approved.json")
ReleaseGate(c) ==
  /\ pc[c] = "claim_reply"
  /\ Witnessed(c)
  /\ Live(approval[c])
  /\ witness' = [witness EXCEPT !.gate = approval[c]]
  /\ Goto(c, "await_native")
  /\ UNCHANGED <<journal, approvalFile, responseFile, lock, local, sender, world>>

Dead(s) == s.st \in {"dead", "none"}

\* Mutant: the outcome is journalled before the response is saved.
ProviderReturnedUnsaved(c) ==
  /\ pc[c] = "sending"
  /\ sender[c].st \in {"responded", "dead"}
  /\ response' = [response EXCEPT ![c] = IF sender[c].st = "dead" THEN "none" ELSE "observed"]
  /\ Goto(c, "save_outcome")
  /\ sender' = [sender EXCEPT ![c] = DeadSender]
  /\ UNCHANGED <<disk, lock, arg, mem, approval, world>>

\* The thread hands back a response, or failed with bytes perhaps sent; a
\* response that fails _observed_response is no response.
ProviderReturned(c) ==
  /\ pc[c] = "sending"
  /\ \/ /\ sender[c].st = "responded"
        /\ response' = [response EXCEPT ![c] = "observed"]
        /\ Goto(c, "save_response")
     \/ /\ sender[c].st \in {"responded", "dead"}
        /\ Goto(c, "save_outcome")
        /\ UNCHANGED response
  /\ sender' = [sender EXCEPT ![c] = DeadSender]
  /\ UNCHANGED <<disk, lock, arg, mem, approval, world>>

NativeReturned(c) ==
  /\ pc[c] = "await_native"
  /\ sender[c].st \in {"proved", "dead"}
  /\ Goto(c, "collect")
  /\ UNCHANGED <<disk, lock, local, sender, world>>

\* Mutant: only the wait for the ready file is limited.
LimitedReady(c) == pc[c] = "await_ready" /\ Witnessed(c)

\* Where the 150 s of wait_for(witnessed_run()) may run out: the ready file, the
\* claim, the end of the child.
Limited(c) ==
  /\ pc[c] \in {"await_ready", "claim_call", "claim_reply", "await_native"}
  /\ Witnessed(c)

\* Once the in-memory phase says dispatch_attempted, a failure (a refused or
\* lost claim, an expired lease, a failed save, the 150 s limit, which alone
\* ends the wait for a child that runs on) is swallowed and the child killed.
WitnessFailed(c) ==
  /\ \/ /\ \/ pc[c] \in {"claim_call", "claim_reply"}
           \/ pc[c] = "await_native" /\ Limited(c)
        /\ UNCHANGED mem
     \/ /\ pc[c] = "claim"
        /\ Live(approval[c])
        /\ mem' = [mem EXCEPT ![c] = Attempted(c)]
  /\ Witnessed(c)
  /\ sender' = [sender EXCEPT ![c] = DeadSender]
  /\ Goto(c, "collect")
  /\ UNCHANGED <<disk, lock, arg, approval, response, world>>

\* Mutant: the end of the child counts as an observation.
CollectAnyExit(c) ==
  /\ pc[c] = "collect"
  /\ response' = [response EXCEPT ![c] = "observed"]
  /\ Goto(c, "save_response")
  /\ sender' = [sender EXCEPT ![c] = DeadSender]
  /\ UNCHANGED <<disk, lock, arg, mem, approval, world>>

\* The artifacts are read only once the child is gone: a response file gives
\* an observation, a clean exit a proof, anything inconsistent neither.
CollectWitness(c) ==
  /\ pc[c] = "collect"
  /\ \/ /\ \/ sender[c].st = "proved" /\ response' = [response EXCEPT ![c] = "attested"]
           \/ sender[c].st # "proved" /\ response' = [response EXCEPT ![c] = "observed"]
        /\ witness.response
        /\ Goto(c, "save_response")
     \/ Goto(c, "save_outcome") /\ UNCHANGED response
  /\ sender' = [sender EXCEPT ![c] = DeadSender]
  /\ UNCHANGED <<disk, lock, arg, mem, approval, world>>

SaveResponse(c) ==
  /\ pc[c] = "save_response"
  /\ responseFile' = TRUE
  /\ Goto(c, "save_outcome")
  /\ UNCHANGED <<journal, approvalFile, witness, lock, local, sender, world>>

\* Mutant: a missing response is reported as such.
ReportedRaw(c) == response[c]

Reported(c) == IF response[c] = "none" THEN "unknown" ELSE response[c]

\* The dispatcher writes its own copy, whatever the file holds by now.
SaveOutcome(c) ==
  /\ pc[c] = "save_outcome"
  /\ SaveJournal(c, [mem[c] EXCEPT !.phase = "outcome_pending",
                       !.outcome = [state |-> Reported(c), approval |-> approval[c]]])
  /\ Goto(c, "flush_read")
  /\ UNCHANGED <<approvalFile, responseFile, witness, lock, arg, approval, response, sender, world>>

-----------------------------------------------------------------------------
(* flush_execution_outcome: called by the dispatcher, which holds the lock, *)
(* or by anyone else, who does not take it.                                 *)

Flush(c) ==
  /\ pc[c] = "idle"
  /\ journal.phase \notin {"absent", "empty"}
  /\ Goto(c, "flush_read")
  /\ UNCHANGED <<disk, lock, local, sender, world>>

\* The journal is read and its report posted.
FlushRead(c) ==
  /\ pc[c] = "flush_read"
  /\ journal.outcome # NoOutcome
  /\ mem' = [mem EXCEPT ![c] = journal]
  /\ net' = net \cup {journal.outcome}
  /\ Goto(c, "flush_wait")
  /\ UNCHANGED <<disk, lock, arg, approval, response, sender, expired, deadClaims, srvOutcome, sent>>

\* Mutant: the answer to a report is not looked at.
AcceptedUnseen(c) == mem[c].outcome # NoOutcome

\* The answer must name the approval that was reported.
Accepted(c) ==
  /\ srvOutcome # NoOutcome
  /\ srvOutcome.approval = mem[c].outcome.approval

Completed(c) == [mem[c] EXCEPT !.phase = "complete"]

\* The copy read before the request is what is written after it.
FlushSave(c) ==
  /\ pc[c] = "flush_wait"
  /\ Accepted(c)
  /\ journal' = Completed(c)
  /\ End(c, "returned")
  /\ UNCHANGED <<approvalFile, responseFile, witness, sender, world>>

\* Inside the dispatcher a failed flush is outcome_pending=True; the failure
\* may be the last save's, after the file was replaced.
FlushFailed(c) ==
  /\ pc[c] = "flush_wait"
  /\ lock = c
  /\ \/ UNCHANGED journal
     \/ Accepted(c) /\ journal' = Completed(c)
  /\ End(c, "pending")
  /\ UNCHANGED <<approvalFile, responseFile, witness, sender, world>>

-----------------------------------------------------------------------------
(* Errors and crashes                                                      *)

\* A call on a folder that is not there, or already there, or locked.
Refused(c) ==
  /\ pc[c] = "idle"
  /\ End(c, "stopped")
  /\ UNCHANGED <<disk, sender, world>>

\* _live, before and after the claim.
LeaseLost(c) ==
  \/ pc[c] = "claim" /\ ~Live(approval[c])
  \/ pc[c] = "claim_reply" /\ ~Live(approval[c]) /\ ~Witnessed(c)

\* The checks that raise.
MustRaise(c) ==
  \/ pc[c] = "exec_lock" /\ lock # None
  \/ pc[c] = "cont_read" /\ ~Continuable(c)
  \/ pc[c] = "validate" /\ ~Acceptable(c)
  \/ pc[c] = "await_ready" /\ witness.ready = None /\ Dead(sender[c])
  \/ pc[c] = "await_ready" /\ witness.ready # None /\ ~Ready(c)
  \/ LeaseLost(c)
  \/ pc[c] = "flush_read" /\ journal.outcome = NoOutcome

\* The awaits that may fail or time out.
MayRaise(c) ==
  \/ pc[c] \in {"prepare", "continue", "admit", "await_ready"}
  \/ pc[c] = "validate" /\ Witnessed(c)  \* _witness_files
  \/ pc[c] = "claim_call" /\ ~Witnessed(c)
  \/ pc[c] = "flush_wait" /\ lock # c

Raise(c) ==
  /\ MustRaise(c) \/ MayRaise(c)
  /\ sender' = [sender EXCEPT ![c] = IF @.st = "none" THEN @ ELSE DeadSender]
  /\ End(c, "stopped")
  /\ UNCHANGED <<disk, world>>

\* A crash, a cancellation, or a save that fails: possible at every step.  A
\* crash takes the provider thread along and may orphan the native child; a
\* cancellation kills the child and leaves the thread running.
Stop(c) ==
  /\ pc[c] \in ActiveSteps
  /\ \/ UNCHANGED sender
     \/ ~Dead(sender[c]) /\ sender' = [sender EXCEPT ![c] = DeadSender]
  /\ End(c, "stopped")
  /\ UNCHANGED <<disk, world>>

-----------------------------------------------------------------------------
(* Senders: _provider_send and the native witness process                  *)

SenderAt(c, st) == sender' = [sender EXCEPT ![c].st = st]

\* The child creates its output directory, or finds one and exits.
NativeStart(c) ==
  /\ sender[c].st = "starting"
  /\ \/ /\ witness.dir = None
        /\ witness' = [witness EXCEPT !.dir = c]
        /\ SenderAt(c, "preparing")
     \/ /\ witness.dir # None
        /\ sender' = [sender EXCEPT ![c] = DeadSender]
        /\ UNCHANGED witness
  /\ UNCHANGED <<journal, approvalFile, responseFile, lock, pc, local, world>>

NativeReady(c) ==
  /\ sender[c].st = "preparing"
  /\ witness' = [witness EXCEPT !.ready = sender[c].approval]
  /\ SenderAt(c, "gated")
  /\ UNCHANGED <<journal, approvalFile, responseFile, lock, pc, local, world>>

NativeReleased(c) ==
  /\ sender[c].st = "gated"
  /\ witness.gate = sender[c].approval
  /\ SenderAt(c, "connecting")
  /\ UNCHANGED <<disk, lock, pc, local, world>>

\* Bytes leave.  _provider_send checks the lease once more when TLS is up.
Send(c) ==
  /\ sender[c].st = "connecting"
  /\ sender[c].approval.mode = "receipt" => Live(sender[c].approval)
  /\ sent' = sent \cup {[call |-> c, approval |-> sender[c].approval, req |-> sender[c].req]}
  /\ SenderAt(c, "sent")
  /\ UNCHANGED <<disk, lock, pc, local, expired, deadClaims, net, srvOutcome>>

\* The response arrives; the child writes response.json.
ProviderResponds(c) ==
  /\ sender[c].st = "sent"
  /\ witness' = [witness EXCEPT !.response = @ \/ sender[c].approval.mode = "witnessed"]
  /\ SenderAt(c, "responded")
  /\ UNCHANGED <<journal, approvalFile, responseFile, lock, pc, local, world>>

NativeProves(c) ==
  /\ sender[c].st = "responded"
  /\ sender[c].approval.mode = "witnessed"
  /\ SenderAt(c, "proved")
  /\ UNCHANGED <<disk, lock, pc, local, world>>

\* An expired lease, a socket error or time-out, the death of the child.
SenderFails(c) ==
  /\ sender[c].st \in SenderSteps \ {"proved"}
  /\ sender' = [sender EXCEPT ![c] = DeadSender]
  /\ UNCHANGED <<disk, lock, pc, local, world>>

-----------------------------------------------------------------------------
(* The world                                                               *)

\* (An approval nobody holds may as well expire when it is next handed out.)
Expire(a) ==
  /\ a \notin expired
  /\ \E c \in Calls : a \in {approval[c], sender[c].approval}
  /\ expired' = expired \cup {a}
  /\ UNCHANGED <<disk, lock, pc, local, sender, deadClaims, net, srvOutcome, sent>>

\* The API records the first report of the operation it gets to see.
RecordOutcome(o) ==
  /\ o \in net
  /\ srvOutcome = NoOutcome
  /\ srvOutcome' = o
  /\ UNCHANGED <<disk, lock, pc, local, sender, expired, deadClaims, net, sent>>

\* What a call does on its own, errors the code raises included.
CallStep(c) ==
  \/ SavePrepared(c) \/ LockPrepared(c) \/ PrepareReplied(c)
  \/ ContinueSave(c) \/ ContinueReplied(c)
  \/ ValidateApproval(c) \/ SpawnWitness(c) \/ WitnessReady(c)
  \/ Attempt(c) \/ ClaimDispatch(c) \/ StartProviderSend(c) \/ ReleaseGate(c)
  \/ ProviderReturned(c) \/ NativeReturned(c) \/ WitnessFailed(c) \/ CollectWitness(c)
  \/ SaveResponse(c) \/ SaveOutcome(c)
  \/ FlushRead(c) \/ FlushSave(c) \/ FlushFailed(c)
  \/ Raise(c)

SenderStep(c) ==
  \/ NativeStart(c) \/ NativeReady(c) \/ NativeReleased(c)
  \/ Send(c) \/ ProviderResponds(c) \/ NativeProves(c) \/ SenderFails(c)

Next ==
  \/ \E c \in Calls :
       \/ \E r \in Requests : Execute(c, r) \/ Continue(c, r)
       \/ Flush(c)
       \/ Refused(c)
       \/ CallStep(c)
       \/ Stop(c)
       \/ SenderStep(c)
  \/ \E a \in Approvals : Expire(a)
  \/ \E o \in net : RecordOutcome(o)

Spec == Init /\ [][Next]_vars

\* Steps that wait for somebody else: the API, the application's token supplier,
\* the native child, the provider.
AwaitSteps == {"prepare", "continue", "admit", "await_ready", "claim_call", "claim_reply",
               "sending", "await_native", "flush_wait"}

LocalStep(c) == pc[c] \notin AwaitSteps /\ CallStep(c)

\* wait_for cancels witnessed_run: an error before the attempt, swallowed after it.
TimeLimit(c) == Limited(c) /\ (WitnessFailed(c) \/ Raise(c))

\* A process that lives runs its own code and its event loop's timers.  Nobody
\* else owes anything: no answer, no end of a child, no end of a send.
FairSpec == Spec /\ \A c \in Calls : WF_vars(LocalStep(c)) /\ WF_vars(TimeLimit(c))

-----------------------------------------------------------------------------
(* What a caller may rely on                                               *)

\* Every variable keeps its type.
TypeOK ==
  /\ journal \in Journals
  /\ approvalFile \in Approvals \cup {None}
  /\ responseFile \in BOOLEAN
  /\ witness \in WitnessFiles
  /\ lock \in Calls \cup {None}
  /\ pc \in [Calls -> {"idle"} \cup ActiveSteps \cup EndSteps]
  /\ arg \in [Calls -> Requests \cup {None}]
  /\ mem \in [Calls -> Journals]
  /\ approval \in [Calls -> Approvals \cup {None}]
  /\ response \in [Calls -> {"none", "observed", "attested"}]
  /\ sender \in [Calls -> Senders]
  /\ expired \subseteq Approvals
  /\ deadClaims \subseteq Approvals
  /\ net \subseteq Outcomes
  /\ srvOutcome \in Outcomes
  /\ sent \subseteq SendRecords

\* "Repeating this call never repeats an existing local run" (execute_http):
\* whatever is retried, cancelled, crashed or orphaned, the provider gets at
\* most one request of the operation.
AtMostOneSend == \A s, t \in sent : s = t

\* "An ambiguous API claim must never trigger a retry" (claim): a request that
\* left is always on record in the journal, under the approval it left with.
AttemptOnRecord ==
  \A s \in sent : journal.outcome.approval = s.approval

\* What left is the request whose hash the journal holds since execute_http,
\* exactly as approved, and a request for witnessed evidence left through the
\* native witness only (_validate_approval, continue_http_execution).
SendBoundToRequest ==
  \A s \in sent :
    /\ s.req = journal.req
    /\ s.approval.req = s.req
    /\ s.req \in WitnessedRequests => s.approval.mode = "witnessed"

\* The second _live of claim(): nothing is sent under an approval that had
\* expired by the time the API took the claim.
NoSendAfterDeadClaim == \A s \in sent : s.approval \notin deadClaims

\* A report of an observed or proved response, in the journal or at the API,
\* is never made up: a request did leave, under the approval it names, and in
\* the journal's case response.json is already saved.
NoFalseObservation ==
  \A o \in {journal.outcome, srvOutcome} :
    o.state \in {"observed", "attested"} =>
      /\ \E s \in sent : s.approval = o.approval
      /\ responseFile

\* approval.json, which complete_execution_evidence binds to the decision
\* receipt, holds the approval of the recorded attempt.
AttemptNamesSavedApproval ==
  journal.outcome # NoOutcome => approvalFile = journal.outcome.approval

\* A journal that says complete about an attempt: the API has recorded a report
\* under that attempt's approval, also when an unlocked flush_execution_outcome
\* wrote it.  (Which report is another matter: a stale flush may complete with an
\* older, unknown one than was saved in between, see OutcomeRetained.)
CompleteMeansReported ==
  journal.phase = "complete" /\ journal.outcome # NoOutcome =>
    srvOutcome.approval = journal.outcome.approval

\* A continuation in flight can be repeated after a crash with the same key:
\* the journal holds the binding it used.
ContinuationOnRecord ==
  \A c \in Calls : pc[c] = "continue" =>
    journal.phase = "continuing" /\ journal.intent # None /\ journal.intent = mem[c].intent

\* "An attempted send can only be reconciled": no step, not even a stale write
\* by an unlocked flush, takes the attempt out of the journal again or moves
\* it to another approval.
NeverReopened ==
  [][journal.outcome # NoOutcome =>
       journal'.outcome.approval = journal.outcome.approval]_vars

\* The continuation key changes only through a new review: while the journal
\* stays "continuing", every retry reuses the saved binding.
ContinuationKeyStable ==
  [][journal.phase = "continuing" /\ journal'.phase = "continuing" =>
       journal'.intent = journal.intent]_vars

\* "... the journal retains the report for upload" (README.md): a caller handed
\* a response and outcome_pending=True finds that observation in the journal.
OutcomeRetained ==
  \A c \in Calls : pc[c] = "pending" /\ response[c] # "none" =>
    journal.outcome.state = response[c]

\* A witnessed call that has started its native child gets to reporting an
\* outcome, or ends, though child, provider and API may keep it waiting for ever:
\* the limit set around witnessed_run covers the ready file, the claim made inside
\* and the child's end, and what follows waits for nobody.
WitnessedRunEnds ==
  \A c \in Calls : pc[c] = "await_ready" ~> pc[c] \in {"flush_read"} \cup EndSteps

\* The operation as its callers should think of it.
stage ==
  IF journal.outcome # NoOutcome THEN "attempted"
  ELSE IF journal.phase = "complete" THEN "closed" ELSE "open"

Abstract == INSTANCE DurableDispatch WITH
  Sends <- SendRecords, stage <- stage, sends <- sent, report <- srvOutcome.state

\* The operation, with all its calls, crashes and stale writes, is a one-way
\* gate: open, then closed or attempted, one send and one report after that.
ImplementsDurableDispatch == Abstract!Spec
=============================================================================
