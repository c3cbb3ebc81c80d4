------------------------- MODULE ExecutionInvariant -------------------------
(***************************************************************************)
(* The inductive invariant behind the safety properties of Execution, in   *)
(* named parts: who holds the lock, what the journal says while a call     *)
(* runs, and what a sender that may still send implies.                    *)
(***************************************************************************)
EXTENDS Execution

\* Only the calls past the lock hold it; a nested flush keeps it.
LockInv ==
  \A c \in Calls :
    /\ pc[c] \in LockedSteps => lock = c
    /\ lock = c => pc[c] \in LockedSteps \cup FlushSteps

\* The one call that made the folder, until the first answer is saved.
Preparing == {"exec_save", "exec_lock", "prepare"}

PrepareInv ==
  /\ \A c, d \in Calls : pc[c] \in Preparing /\ pc[d] \in Preparing => c = d
  /\ \A c \in Calls :
       /\ pc[c] \in Preparing => arg[c] \in Requests
       /\ pc[c] = "exec_save" => journal.phase = "empty"
       /\ pc[c] \in {"exec_lock", "prepare"} => journal.phase = "prepared"
       /\ pc[c] = "exec_lock" => mem[c] = journal /\ arg[c] = journal.req

\* An open journal has no attempt on record, and keeps its review bindings.
JournalInv ==
  /\ journal.phase \in OpenPhases => journal.outcome = NoOutcome
  /\ journal.phase \in {"absent", "empty"} => journal.req = None
  /\ journal.phase = "waiting_for_review" => journal.review # None
  /\ journal.phase = "continuing" => journal.intent # None

\* Until the attempt the lock holder's copy is the journal.
BeforeInv ==
  \A c \in Calls :
    /\ pc[c] \in BeforeAttempt =>
         /\ mem[c] = journal
         /\ journal.req = arg[c]
         /\ journal.phase \in OpenPhases
    /\ pc[c] \in {"cont_read"} \cup BeforeAttempt \cup AfterAttempt => arg[c] \in Requests
    /\ pc[c] = "continue" => journal.phase = "continuing"
    /\ pc[c] \in {"validate", "admit", "await_ready", "claim"} =>
         journal.phase \in {"authorized", "continuing"}

\* The call holds a validated approval, saved in approval.json.
ApprovalInv ==
  \A c \in Calls :
    /\ pc[c] \in {"validate", "admit", "await_ready", "claim"} \cup AfterAttempt =>
         approval[c] \in Approvals
    /\ pc[c] \in {"admit", "await_ready", "claim"} \cup AfterAttempt =>
         /\ approval[c].req = arg[c]
         /\ arg[c] \in WitnessedRequests => approval[c].mode = "witnessed"
         /\ approvalFile = approval[c]
    /\ pc[c] \in {"admit", "await_ready", "await_native", "collect"} =>
         approval[c].mode = "witnessed"
    /\ pc[c] = "sending" => approval[c].mode # "witnessed"
    /\ pc[c] \in {"claim", "claim_call", "claim_reply"} /\ approval[c].mode = "witnessed" =>
         witness.ready = approval[c]

\* From the claim request on the attempt is on record.  Only a witnessed call
\* whose own record of it failed to be saved goes on without.
AfterInv ==
  \A c \in Calls :
    /\ pc[c] \in AfterAttempt =>
         /\ mem[c].outcome = [state |-> "unknown", approval |-> approval[c]]
         /\ mem[c].req = journal.req
         /\ arg[c] = journal.req
         /\ \/ journal.outcome # NoOutcome /\ journal.outcome.approval = approval[c]
            \/ /\ pc[c] \in {"collect", "save_response", "save_outcome"}
               /\ journal.outcome = NoOutcome
               /\ journal.phase \in {"authorized", "continuing"}
    /\ pc[c] = "flush_wait" =>
         /\ mem[c].outcome # NoOutcome
         /\ journal.outcome # NoOutcome
         /\ mem[c].outcome.approval = journal.outcome.approval
         /\ mem[c].req = journal.req

Released == {"connecting", "sent", "responded", "proved"}

\* Nothing has been sent, and no sender is past its gate.
Unsent ==
  /\ sent = {}
  /\ witness.gate = None
  /\ \A d \in Calls : sender[d].st \notin Released

\* Nothing leaves before the attempt is on record, nor while the claim is open.
UnsentInv ==
  /\ journal.outcome = NoOutcome => Unsent
  /\ \A c \in Calls : pc[c] \in {"claim_call", "claim_reply"} => Unsent

\* A witness directory has one creator, whose approval is in the ready file;
\* the gate opens for the approval on record only.
WitnessInv ==
  /\ witness.dir = None => witness.ready = None
  /\ witness.gate # None => journal.outcome.approval = witness.gate
  /\ \A c \in Calls :
       /\ sender[c].st \in SenderSteps =>
            /\ sender[c].req = journal.req
            /\ sender[c].approval.req = sender[c].req
            /\ sender[c].req \in WitnessedRequests => sender[c].approval.mode = "witnessed"
       /\ sender[c].st \in {"starting", "preparing", "gated", "proved"} =>
            sender[c].approval.mode = "witnessed"
       /\ sender[c].st \in {"preparing", "gated"} => witness.dir = c
       /\ sender[c].st = "preparing" => witness.ready = None

\* A released sender is the only one, acts under the approval on record, and
\* nothing was sent before it.
ReleasedInv ==
  /\ \A c \in Calls : sender[c].st \in Released =>
       /\ journal.outcome.approval = sender[c].approval
       /\ IF sender[c].approval.mode = "witnessed"
            THEN witness.dir = c /\ witness.gate = sender[c].approval
            ELSE witness.gate = None
       /\ sender[c].st = "connecting" <=> sent = {}
  /\ \A c, d \in Calls : sender[c].st = "connecting" /\ sender[d].st = "connecting" => c = d

SentInv ==
  /\ \A s, t \in sent : s = t
  /\ \A s \in sent :
       /\ journal.outcome.approval = s.approval
       /\ s.req = journal.req
       /\ s.approval.req = s.req
       /\ s.req \in WitnessedRequests => s.approval.mode = "witnessed"
       /\ IF s.approval.mode = "witnessed"
            THEN witness.dir = s.call /\ sender[s.call].st \notin {"preparing", "gated"}
            ELSE witness.gate = None

\* Whoever knows of a response knows of a send.
Observed(o) == o.state \in {"observed", "attested"}

ResponseInv ==
  /\ witness.response => sent # {}
  /\ \A c \in Calls :
       /\ response[c] # "none" => pc[c] \in {"save_response", "save_outcome", "pending"} \cup FlushSteps
       /\ pc[c] \in {"save_response", "save_outcome"} /\ response[c] # "none" => sent # {}
       /\ pc[c] = "save_outcome" /\ response[c] # "none" => responseFile
       /\ pc[c] = "flush_wait" /\ Observed(mem[c].outcome) => sent # {} /\ responseFile
  /\ \A o \in net \cup {srvOutcome, journal.outcome} :
       Observed(o) => sent # {} /\ responseFile

\* Every report on the wire is about the approval on record.
ReportInv ==
  /\ \A o \in net :
       /\ o # NoOutcome
       /\ journal.outcome # NoOutcome /\ o.approval = journal.outcome.approval
  /\ srvOutcome # NoOutcome =>
       journal.outcome # NoOutcome /\ srvOutcome.approval = journal.outcome.approval
  /\ journal.phase = "complete" /\ journal.outcome # NoOutcome => srvOutcome # NoOutcome

\* An approval that was dead when claimed releases nothing.
ClaimInv ==
  /\ deadClaims \subseteq expired
  /\ \A c \in Calls : sender[c].st \in Released => sender[c].approval \notin deadClaims
  /\ witness.gate \notin deadClaims
  /\ \A s \in sent : s.approval \notin deadClaims

\* The inductive invariant: whatever state satisfies it, every step keeps it.
IInv ==
  /\ TypeOK /\ LockInv /\ PrepareInv /\ JournalInv /\ BeforeInv /\ ApprovalInv /\ AfterInv
  /\ UnsentInv /\ WitnessInv /\ ReleasedInv /\ SentInv /\ ResponseInv /\ ReportInv /\ ClaimInv
  /\ AttemptNamesSavedApproval
=============================================================================
