--------------------------- MODULE EvidencePackage ---------------------------
(***************************************************************************)
(* complete_execution_evidence on the folder of Execution: calls that read *)
(* journal.json and approval.json without the lock, wait for the signed    *)
(* decision receipt, compare and save evidence-package.json, while the     *)
(* operation goes on.                                                      *)
(*                                                                         *)
(* Execution leaves out journal.json's "authorization", the last answer    *)
(* with its decision receipt; it is added here, with the copies the calls  *)
(* hold of it.  A receipt is told apart by the approval whose hash it      *)
(* signs (None: a receipt that allows nothing, or no answer yet).          *)
(***************************************************************************)
EXTENDS Execution

CONSTANT Readers     \* calls of complete_execution_evidence

VARIABLES
  authorization,  \* the receipt of journal.json's "authorization"
  held,           \* the one in each call's in-memory copy of the journal
  rpc,            \* the steps of a reader
  since,          \* whether the reader started with an attempt on record
  receipt,        \* the receipt it read from the journal
  binding,        \* the approval it read from approval.json
  package         \* evidence-package.json

answer   == <<authorization, held>>
evidence == <<rpc, since, receipt, binding, package>>
allVars  == <<vars, authorization, held, rpc, since, receipt, binding, package>>

NoPackage == [approval |-> None, receipt |-> None]
Packages  == [approval : Approvals, receipt : Approvals]

ReaderSteps == {"idle", "approval", "receipt", "save", "returned", "refused", "failed"}

EvidenceInit ==
  /\ Init
  /\ authorization = None
  /\ held = [c \in Calls |-> None]
  /\ rpc = [e \in Readers |-> "idle"]
  /\ since = [e \in Readers |-> FALSE]
  /\ receipt = [e \in Readers |-> None]
  /\ binding = [e \in Readers |-> None]
  /\ package = NoPackage

-----------------------------------------------------------------------------
(* The authorization in the journal                                        *)

\* state.update(authorization=...) with the answer of prepare or continue.
Answered(c) ==
  /\ PrepareReplied(c) \/ ContinueReplied(c)
  /\ authorization' = approval'[c]
  /\ held' = [held EXCEPT ![c] = approval'[c]]

\* state = _read(journal): in continue_http_execution and in a flush.
Reread(c) ==
  /\ ContinueSave(c) \/ FlushRead(c)
  /\ held' = [held EXCEPT ![c] = authorization]
  /\ UNCHANGED authorization

\* Mutant: a save that keeps the authorization the file had at first.
RewrittenWithout(c) ==
  /\ Attempt(c) \/ SaveOutcome(c) \/ FlushSave(c) \/ FlushFailed(c)
  /\ authorization' = None
  /\ UNCHANGED held

\* _save(journal, state) of a copy, which may be old by now.
Rewritten(c) ==
  /\ Attempt(c) \/ SaveOutcome(c) \/ FlushSave(c) \/ FlushFailed(c)
  /\ authorization' = IF journal' = journal THEN authorization ELSE held[c]
  /\ UNCHANGED held

JournalStep(c) == Answered(c) \/ Reread(c) \/ Rewritten(c)

\* Every other step of Execution leaves the authorization alone.
OtherStep ==
  /\ Next
  /\ \A c \in Calls :
       /\ ~PrepareReplied(c) /\ ~ContinueReplied(c)
       /\ ~ContinueSave(c) /\ ~FlushRead(c)
       /\ ~Attempt(c) /\ ~SaveOutcome(c) /\ ~FlushSave(c) /\ ~FlushFailed(c)
  /\ UNCHANGED answer

-----------------------------------------------------------------------------
(* complete_execution_evidence                                             *)

ReaderGoto(e, step) == rpc' = [rpc EXCEPT ![e] = step]

ReadJournal(e) ==
  /\ rpc[e] = "idle"
  /\ journal.phase \notin {"absent", "empty"}
  /\ receipt' = [receipt EXCEPT ![e] = authorization]
  /\ since' = [since EXCEPT ![e] = journal.outcome # NoOutcome]
  /\ ReaderGoto(e, "approval")
  /\ UNCHANGED <<vars, answer, binding, package>>

\* Another process may have saved either file in between.
ReadApproval(e) ==
  /\ rpc[e] = "approval"
  /\ approvalFile # None
  /\ binding' = [binding EXCEPT ![e] = approvalFile]
  /\ ReaderGoto(e, "receipt")
  /\ UNCHANGED <<vars, answer, since, receipt, package>>

\* Mutant: any receipt that allows is good enough.
BindsAnyAllow(e) == receipt[e] # None

\* The signed claims allow, and name the hash of the approval that was read.
Binds(e) == receipt[e] # None /\ receipt[e] = binding[e]

\* The receipt, in the journal or fetched now, is verified and compared.
VerifyReceipt(e) ==
  /\ rpc[e] = "receipt"
  /\ ReaderGoto(e, IF Binds(e) THEN "save" ELSE "refused")
  /\ UNCHANGED <<vars, answer, since, receipt, binding, package>>

SavePackage(e) ==
  /\ rpc[e] = "save"
  /\ package' = [approval |-> binding[e], receipt |-> receipt[e]]
  /\ ReaderGoto(e, "returned")
  /\ UNCHANGED <<vars, answer, since, receipt, binding>>

\* No approval.json, a receipt that is not signed in time or fails to verify,
\* a save that fails, a crash.
ReaderFails(e) ==
  /\ rpc[e] \in {"approval", "receipt", "save"}
  /\ ReaderGoto(e, "failed")
  /\ UNCHANGED <<vars, answer, since, receipt, binding, package>>

ReaderStep(e) ==
  ReadJournal(e) \/ ReadApproval(e) \/ VerifyReceipt(e) \/ SavePackage(e) \/ ReaderFails(e)

EvidenceNext ==
  \/ (\E c \in Calls : JournalStep(c)) /\ UNCHANGED evidence
  \/ OtherStep /\ UNCHANGED evidence
  \/ \E e \in Readers : ReaderStep(e)

EvidenceSpec == EvidenceInit /\ [][EvidenceNext]_allVars

-----------------------------------------------------------------------------
\* Every variable keeps its type.
EvidenceTypeOK ==
  /\ TypeOK
  /\ authorization \in Approvals \cup {None}
  /\ held \in [Calls -> Approvals \cup {None}]
  /\ rpc \in [Readers -> ReaderSteps]
  /\ since \in [Readers -> BOOLEAN]
  /\ receipt \in [Readers -> Approvals \cup {None}]
  /\ binding \in [Readers -> Approvals \cup {None}]
  /\ package \in Packages \cup {NoPackage}

\* The two files are read one after the other without the lock: a package on
\* disk still pairs an approval with the receipt of that very answer, never
\* the receipt of one continuation with the approval of another.
PackageIsOneAnswer == package.receipt = package.approval

\* Once a send has been attempted its evidence can be completed: a call of
\* complete_execution_evidence that starts then never finds a receipt that
\* does not bind, whatever is flushed, crashed or continued around it, and
\* what it packages is the approval of the attempt.  What was sent has its
\* approval and the receipt of the answer that carried it in the folder.
AttemptCanBeEvidenced ==
  /\ \A e \in Readers : since[e] =>
       /\ rpc[e] # "refused"
       /\ rpc[e] \in {"save", "returned"} => binding[e] = journal.outcome.approval
  /\ \A s \in sent : authorization = s.approval /\ approvalFile = s.approval
=============================================================================
