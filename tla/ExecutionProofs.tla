-------------------------- MODULE ExecutionProofs --------------------------
(***************************************************************************)
(* IInv is an invariant of Execution: one lemma says what each writer      *)
(* leaves in the journal, and one lemma per part of the invariant says     *)
(* that every step keeps it.  Then what it gives a caller: the safety      *)
(* properties, the action properties of the journal, and the refinement of *)
(* DurableDispatch.                                                        *)
(*                                                                         *)
(* The last part is about EvidencePackage: a completed package is of one   *)
(* answer, and the evidence of an attempt can be completed.  Every step of *)
(* EvidencePackage is a step of Execution or leaves the folder alone, so   *)
(* IInv goes on holding.                                                   *)
(***************************************************************************)
EXTENDS EvidencePackage, ExecutionInvariant, TLAPS

\* The fields of the journal after a step, and what each writer leaves in them.
Fields(p, r, o) ==
  journal' \in Journals /\ journal'.phase = p /\ journal'.req = r /\ journal'.outcome = o

ExecuteEffect ==
  /\ Fields("empty", journal.req, NoOutcome)
  /\ journal.outcome = NoOutcome

PreparedEffect(c) ==
  /\ Fields("prepared", arg[c], NoOutcome)
  /\ mem' = [mem EXCEPT ![c] = journal']
  /\ journal.outcome = NoOutcome /\ journal.req = None

ApprovedEffect(c, p) ==
  /\ Fields(p, journal.req, NoOutcome)
  /\ mem' = [mem EXCEPT ![c] = journal']
  /\ journal.outcome = NoOutcome /\ journal'.intent = journal.intent

NotApprovedEffect(c) ==
  /\ journal' \in Journals /\ journal'.phase \in {"waiting_for_review", "complete"}
  /\ journal'.phase = "waiting_for_review" => journal'.review # None
  /\ journal'.req = journal.req
  /\ journal'.outcome = NoOutcome /\ journal.outcome = NoOutcome
  /\ End(c, "returned")

ContinueEffect(c) ==
  /\ Fields("continuing", journal.req, NoOutcome)
  /\ mem' = [mem EXCEPT ![c] = journal']
  /\ journal.outcome = NoOutcome /\ journal.req = arg[c]
  /\ journal.phase \in {"waiting_for_review", "continuing"}
  /\ journal'.intent # None
  /\ journal.phase = "continuing" => journal'.intent = journal.intent

AttemptEffect(c) ==
  /\ Fields("dispatch_attempted", journal.req, [state |-> "unknown", approval |-> approval[c]])
  /\ mem' = [mem EXCEPT ![c] = journal']
  /\ journal'.outcome # NoOutcome /\ journal'.outcome.approval = approval[c]
  /\ journal.outcome = NoOutcome

OutcomeEffect(c) ==
  /\ Fields("outcome_pending", journal.req, journal'.outcome)
  /\ mem' = [mem EXCEPT ![c] = journal']
  /\ approval[c] \in Approvals
  /\ journal'.outcome # NoOutcome /\ journal'.outcome.approval = approval[c]
  /\ journal.outcome = NoOutcome \/ journal.outcome.approval = approval[c]
  /\ journal'.outcome.state = IF response[c] = "none" THEN "unknown" ELSE response[c]

CompleteEffect(c) ==
  /\ Fields("complete", journal.req, mem[c].outcome)
  /\ mem[c].outcome # NoOutcome /\ journal.outcome # NoOutcome
  /\ mem[c].outcome.approval = journal.outcome.approval

\* The records the model starts from have the types it gives them.
LEMMA RecordTypes ==
  /\ NoOutcome \in Outcomes
  /\ NoJournal \in Journals
  /\ NoSender \in Senders
  /\ DeadSender \in Senders
  /\ \A a \in Approvals, s \in {"unknown", "observed", "attested"} :
       /\ [state |-> s, approval |-> a] \in Outcomes
       /\ [state |-> s, approval |-> a] # NoOutcome
  /\ \A a \in Approvals, r \in Requests, s \in SenderSteps :
       [st |-> s, approval |-> a, req |-> r] \in Senders
  /\ \A s \in Senders : s.st \in SenderSteps => s.approval \in Approvals /\ s.req \in Requests
  /\ \A o \in Outcomes : o # NoOutcome => o.approval \in Approvals
  /\ NoJournal.outcome = NoOutcome
  /\ NoOutcome.approval = None /\ NoOutcome.state = "none"
  /\ DeadSender.st = "dead" /\ NoSender.st = "none"
BY ConstantsAssumption
   DEF NoOutcome, Outcomes, NoJournal, Journals, Phases, OpenPhases, NoSender, DeadSender,
       Senders, SenderSteps

\* What each writer of journal.json leaves in it, given the invariant: first the
\* folder's creator, which finds it empty.
LEMMA SavePreparedWrites ==
  ASSUME IInv, NEW c \in Calls, SavePrepared(c)
  PROVE  PreparedEffect(c)
<1>1. arg[c] \in Requests /\ journal.outcome = NoOutcome /\ journal.req = None
  BY DEF IInv, PrepareInv, Preparing, JournalInv, OpenPhases, SavePrepared
<1>2. NoJournal \in Journals /\ "prepared" \in Phases /\ NoJournal.outcome = NoOutcome
  BY RecordTypes DEF Phases, OpenPhases
<1> QED BY <1>1, <1>2 DEF Journals, SavePrepared, SaveJournal, PreparedEffect, Fields

\* An approved answer keeps the request and the saved binding, and no attempt.
LEMMA ApprovedWrites ==
  ASSUME IInv, NEW c \in Calls, NEW p \in {"authorized", "continuing"},
         pc[c] \in {"prepare", "continue"}, Approved(c, p)
  PROVE  ApprovedEffect(c, p)
<1>1. mem[c] = journal /\ journal \in Journals /\ journal.outcome = NoOutcome
  BY DEF IInv, BeforeInv, BeforeAttempt, TypeOK, JournalInv
<1>2. p \in Phases BY DEF Phases, OpenPhases
<1> QED BY <1>1, <1>2 DEF Journals, Approved, SaveJournal, ApprovedEffect, Fields

\* Any other answer waits for a review or closes the operation, unattempted.
LEMMA NotApprovedWrites ==
  ASSUME IInv, NEW c \in Calls, pc[c] \in {"prepare", "continue"}, NotApproved(c)
  PROVE  NotApprovedEffect(c)
<1>1. mem[c] = journal /\ journal \in Journals /\ journal.outcome = NoOutcome
  BY DEF IInv, BeforeInv, BeforeAttempt, TypeOK, JournalInv
<1>2. {"waiting_for_review", "complete"} \subseteq Phases BY DEF Phases, OpenPhases
<1> QED BY <1>1, <1>2, ConstantsAssumption DEF Journals, NotApproved, NotApprovedEffect, Fields

\* A continuation finds the operation unattempted and keeps or takes its binding.
LEMMA ContinueSaveWrites ==
  ASSUME IInv, NEW c \in Calls, ContinueSave(c)
  PROVE  ContinueEffect(c)
<1>1. journal \in Journals /\ journal.review \in Reviews \cup {None} /\ journal.intent \in Reviews
      \cup {None}
  BY DEF IInv, TypeOK, Journals
<1>2. journal.phase \in {"waiting_for_review", "continuing"} /\ journal.req = arg[c]
  BY DEF ContinueSave, Continuable
<1>3. journal.outcome = NoOutcome /\ (journal.phase = "waiting_for_review" => journal.review # None)
      /\ (journal.phase = "continuing" => journal.intent # None)
  BY <1>2 DEF IInv, JournalInv, OpenPhases
<1>4. "continuing" \in Phases BY DEF Phases, OpenPhases
<1>5. journal' = [journal EXCEPT !.phase = "continuing",
                   !.intent = IF journal.phase = "continuing" THEN journal.intent ELSE
                      journal.review]
      /\ mem' = [mem EXCEPT ![c] = journal']
  BY <1>1 DEF ContinueSave, SaveJournal, Intent, Journals
<1> QED BY <1>1, <1>2, <1>3, <1>4, <1>5 DEF Journals, ContinueEffect, Fields

\* claim() replaces a journal without an attempt by one with an unknown outcome.
LEMMA AttemptWrites ==
  ASSUME IInv, NEW c \in Calls, Attempt(c)
  PROVE  AttemptEffect(c)
<1>1. mem[c] = journal /\ journal \in Journals /\ journal.outcome = NoOutcome /\ approval[c] \in
      Approvals
  BY DEF IInv, BeforeInv, BeforeAttempt, TypeOK, JournalInv, ApprovalInv, Attempt
<1>2. "dispatch_attempted" \in Phases BY DEF Phases
<1>3. [state |-> "unknown", approval |-> approval[c]] \in Outcomes
      /\ [state |-> "unknown", approval |-> approval[c]] # NoOutcome
  BY <1>1, RecordTypes
<1> QED BY <1>1, <1>2, <1>3 DEF Journals, Attempt, SaveJournal, Attempted, AttemptEffect, Fields

\* The dispatcher's outcome is about the approval already on record, if one is.
LEMMA SaveOutcomeWrites ==
  ASSUME IInv, NEW c \in Calls, SaveOutcome(c)
  PROVE  OutcomeEffect(c)
<1>1. mem[c] \in Journals /\ mem[c].req = journal.req /\ approval[c] \in Approvals
      /\ (journal.outcome = NoOutcome \/ journal.outcome.approval = approval[c])
  BY DEF IInv, AfterInv, AfterAttempt, TypeOK, ApprovalInv, SaveOutcome
<1>2. "outcome_pending" \in Phases BY DEF Phases
<1> DEFINE s == Reported(c)
<1>3. s \in {"unknown", "observed", "attested"} BY DEF IInv, TypeOK, Reported
<1>4. [state |-> s, approval |-> approval[c]] \in Outcomes
      /\ [state |-> s, approval |-> approval[c]] # NoOutcome
  BY <1>1, <1>3, RecordTypes
<1> QED BY <1>1, <1>2, <1>4 DEF Journals, SaveOutcome, SaveJournal, Reported, OutcomeEffect, Fields

\* A flush writes back a copy that is about the approval on record.
LEMMA CompletedWrites ==
  ASSUME IInv, NEW c \in Calls, pc[c] = "flush_wait", journal' = Completed(c)
  PROVE  CompleteEffect(c)
<1>1. mem[c] \in Journals /\ mem[c].req = journal.req /\ mem[c].outcome # NoOutcome
      /\ mem[c].outcome.approval = journal.outcome.approval
  BY DEF IInv, AfterInv, TypeOK
<1>3. journal.outcome # NoOutcome BY DEF IInv, AfterInv
<1>4. "complete" \in Phases BY DEF Phases
<1> QED BY <1>1, <1>3, <1>4 DEF Journals, Completed, CompleteEffect, Fields

\* The folder is created once, with nothing in it.
LEMMA ExecuteWrites ==
  ASSUME IInv, NEW c \in Calls, NEW r \in Requests, Execute(c, r)
  PROVE  ExecuteEffect
<1>1. journal \in Journals /\ journal.outcome = NoOutcome
  BY DEF IInv, TypeOK, JournalInv, OpenPhases, Execute
<1> QED BY <1>1 DEF Execute, Journals, Phases, OpenPhases, ExecuteEffect, Fields

\* A live sender moves on under the same approval and request.
LEMMA SenderMoves ==
  ASSUME TypeOK, NEW c \in Calls, NEW s \in SenderSteps,
         sender[c].st \in SenderSteps, SenderAt(c, s)
  PROVE  /\ sender' \in [Calls -> Senders]
         /\ sender'[c].st = s
         /\ sender'[c].approval = sender[c].approval
         /\ sender'[c].req = sender[c].req
         /\ \A d \in Calls \ {c} : sender'[d] = sender[d]
<1>1. sender[c] \in [st : SenderSteps, approval : Approvals, req : Requests]
  BY DEF TypeOK, Senders, NoSender, DeadSender, SenderSteps
<1>2. [sender[c] EXCEPT !.st = s] \in Senders BY <1>1 DEF Senders
<1> QED BY <1>1, <1>2 DEF TypeOK, SenderAt

\* Every variable keeps its type; the approvals and requests that calls hold make
\* TypeOK inductive only together with BeforeInv and ApprovalInv.
LEMMA TypeOKStep == IInv /\ [Next]_vars => TypeOK'
<1> SUFFICES ASSUME IInv, [Next]_vars PROVE TypeOK' OBVIOUS
<1>0. TypeOK /\ BeforeInv /\ ApprovalInv BY DEF IInv
<1>1. NoJournal \in Journals /\ DeadSender \in Senders BY RecordTypes
<1> USE <1>0, <1>1, ConstantsAssumption DEF TypeOK, ActiveSteps, EndSteps, LockedSteps,
     BeforeAttempt, AfterAttempt, FlushSteps
<1>2. ASSUME NEW c \in Calls, NEW r \in Requests, Execute(c, r) PROVE TypeOK'
  <2>1. journal' \in Journals BY <1>2, ExecuteWrites
    DEF ExecuteEffect, Fields
  <2> QED BY <1>2, <2>1 DEF Execute, Goto, world
<1>3. ASSUME NEW c \in Calls, NEW r \in Requests, Continue(c, r) PROVE TypeOK'
  BY <1>3 DEF Continue, Goto, disk, world
<1>4. ASSUME NEW c \in Calls, Flush(c) \/ LockPrepared(c) \/ WitnessReady(c) \/ NativeReturned(c)
      PROVE  TypeOK'
  BY <1>4 DEF Flush, LockPrepared, WitnessReady, NativeReturned, Goto, disk, local, world
<1>5. ASSUME NEW c \in Calls, Refused(c) \/ Raise(c) PROVE TypeOK'
  BY <1>5 DEF Refused, Raise, End, Goto, disk, world
<1>6. ASSUME NEW c \in Calls, Stop(c) PROVE TypeOK'
  <2>1. sender' \in [Calls -> Senders] BY <1>6 DEF Stop
  <2> QED BY <1>6, <2>1 DEF Stop, End, Goto, disk, world
<1>7. ASSUME NEW c \in Calls, SavePrepared(c) PROVE TypeOK'
  <2>1. journal' \in Journals /\ mem' = [mem EXCEPT ![c] = journal'] BY <1>7, SavePreparedWrites
    DEF PreparedEffect, Fields
  <2> QED BY <1>7, <2>1 DEF SavePrepared, Goto, world
<1>8. ASSUME NEW c \in Calls, NEW p \in {"authorized", "continuing"},
             pc[c] \in {"prepare", "continue"}, Approved(c, p),
             UNCHANGED <<approvalFile, responseFile, witness, sender, world>>
      PROVE  TypeOK'
  <2>1. journal' \in Journals /\ mem' = [mem EXCEPT ![c] = journal'] BY <1>8, ApprovedWrites
    DEF ApprovedEffect, Fields
  <2> QED BY <1>8, <2>1 DEF Approved, Goto, world
<1>9. ASSUME NEW c \in Calls, pc[c] \in {"prepare", "continue"}, NotApproved(c),
             UNCHANGED <<approvalFile, responseFile, witness, sender, world>>
      PROVE  TypeOK'
  <2>1. journal' \in Journals /\ End(c, "returned") BY <1>9, NotApprovedWrites
    DEF NotApprovedEffect, Fields
  <2> QED BY <1>9, <2>1 DEF End, Goto, world
<1>10. ASSUME NEW c \in Calls, PrepareReplied(c) \/ ContinueReplied(c) PROVE TypeOK'
  BY <1>8, <1>9, <1>10 DEF PrepareReplied, ContinueReplied
<1>11. ASSUME NEW c \in Calls, ContinueSave(c) PROVE TypeOK'
  <2>1. journal' \in Journals /\ mem' = [mem EXCEPT ![c] = journal'] BY <1>11, ContinueSaveWrites
    DEF ContinueEffect, Fields
  <2> QED BY <1>11, <2>1 DEF ContinueSave, Goto, world
<1>12. ASSUME NEW c \in Calls, ValidateApproval(c) PROVE TypeOK'
  BY <1>12 DEF ValidateApproval, Goto, local, world
<1>13. ASSUME NEW c \in Calls, SpawnWitness(c) PROVE TypeOK'
  <2>1. [st |-> "starting", approval |-> approval[c], req |-> arg[c]] \in Senders
    BY <1>13, RecordTypes DEF SpawnWitness, BeforeInv, ApprovalInv, SenderSteps
  <2> QED BY <1>13, <2>1 DEF SpawnWitness, Goto, disk, local, world
<1>14. ASSUME NEW c \in Calls, StartProviderSend(c) PROVE TypeOK'
  <2>1. [st |-> "connecting", approval |-> approval[c], req |-> arg[c]] \in Senders
    BY <1>14, RecordTypes DEF StartProviderSend, BeforeInv, ApprovalInv, SenderSteps
  <2> QED BY <1>14, <2>1 DEF StartProviderSend, Goto, disk, local, world
<1>15. ASSUME NEW c \in Calls, Attempt(c) PROVE TypeOK'
  <2>1. journal' \in Journals /\ mem' = [mem EXCEPT ![c] = journal'] BY <1>15, AttemptWrites
    DEF AttemptEffect, Fields
  <2> QED BY <1>15, <2>1 DEF Attempt, Goto, world
<1>16. ASSUME NEW c \in Calls, ClaimDispatch(c) PROVE TypeOK'
  <2>1. approval[c] \in Approvals BY <1>16 DEF ClaimDispatch, ApprovalInv
  <2> QED BY <1>16, <2>1 DEF ClaimDispatch, Goto, disk, local
<1>17. ASSUME NEW c \in Calls, ReleaseGate(c) PROVE TypeOK'
  <2>1. approval[c] \in Approvals BY <1>17 DEF ReleaseGate, ApprovalInv
  <2>2. witness' \in WitnessFiles BY <1>17, <2>1 DEF ReleaseGate, WitnessFiles
  <2> QED BY <1>17, <2>2 DEF ReleaseGate, Goto, local, world
<1>18. ASSUME NEW c \in Calls, ProviderReturned(c) \/ CollectWitness(c) PROVE TypeOK'
  <2>1. response' \in [Calls -> {"none", "observed", "attested"}]
        /\ pc' \in [Calls -> {"idle"} \cup ActiveSteps \cup EndSteps]
    BY <1>18 DEF ProviderReturned, CollectWitness, Goto
  <2> QED BY <1>18, <2>1 DEF ProviderReturned, CollectWitness, disk, world
<1>19. ASSUME NEW c \in Calls, WitnessFailed(c) PROVE TypeOK'
  <2>1. approval[c] \in Approvals BY <1>19 DEF WitnessFailed, ApprovalInv
  <2>2. [state |-> "unknown", approval |-> approval[c]] \in Outcomes BY <2>1, RecordTypes
  <2>3. Attempted(c) \in Journals
    <3>1. mem[c] \in Journals BY DEF TypeOK
    <3>2. "dispatch_attempted" \in Phases BY DEF Phases
    <3> HIDE DEF IInv, TypeOK
    <3> QED BY <2>2, <3>1, <3>2 DEF Attempted, Journals
  <2>4. mem' \in [Calls -> Journals] BY <1>19, <2>3 DEF WitnessFailed
  <2> QED BY <1>19, <2>4 DEF WitnessFailed, Goto, disk, world
<1>20. ASSUME NEW c \in Calls, SaveResponse(c) PROVE TypeOK'
  BY <1>20 DEF SaveResponse, Goto, local, world
<1>21. ASSUME NEW c \in Calls, SaveOutcome(c) PROVE TypeOK'
  <2>1. journal' \in Journals /\ mem' = [mem EXCEPT ![c] = journal'] BY <1>21, SaveOutcomeWrites
    DEF OutcomeEffect, Fields
  <2> QED BY <1>21, <2>1 DEF SaveOutcome, Goto, world
<1>22. ASSUME NEW c \in Calls, FlushRead(c) PROVE TypeOK'
  <2>1. journal.outcome \in Outcomes BY DEF Journals
  <2> QED BY <1>22, <2>1 DEF FlushRead, Goto, disk
<1>23. ASSUME NEW c \in Calls, FlushSave(c) \/ FlushFailed(c) PROVE TypeOK'
  <2>1. journal' \in Journals 
    BY <1>23, CompletedWrites DEF FlushSave, FlushFailed, CompleteEffect, Fields
  <2> QED BY <1>23, <2>1 DEF FlushSave, FlushFailed, End, Goto, world
<1>24. ASSUME NEW c \in Calls, NEW s \in SenderSteps, sender[c].st \in SenderSteps, SenderAt(c, s)
       PROVE  sender' \in [Calls -> Senders] /\ sender[c].approval \in Approvals
              /\ sender[c].req \in Requests
  BY <1>24, SenderMoves, RecordTypes
<1>25. ASSUME NEW c \in Calls, NativeStart(c) PROVE TypeOK'
  <2>1. CASE witness.dir = None
    <3>1. witness' \in WitnessFiles BY <1>25, <2>1 DEF NativeStart, WitnessFiles
    <3>2. sender' \in [Calls -> Senders] BY <1>24, <1>25, <2>1 DEF NativeStart, SenderSteps
    <3> QED BY <1>25, <3>1, <3>2 DEF NativeStart, local, world
  <2>2. CASE witness.dir # None
    BY <1>25, <2>2 DEF NativeStart, local, world
  <2> QED BY <2>1, <2>2
<1>26. ASSUME NEW c \in Calls, NativeReady(c) PROVE TypeOK'
  <2>1. sender' \in [Calls -> Senders] /\ sender[c].approval \in Approvals
    BY <1>24, <1>26 DEF NativeReady, SenderSteps
  <2>2. witness' \in WitnessFiles BY <1>26, <2>1 DEF NativeReady, WitnessFiles
  <2> QED BY <1>26, <2>1, <2>2 DEF NativeReady, local, world
<1>27. ASSUME NEW c \in Calls, NativeReleased(c) \/ NativeProves(c) PROVE TypeOK'
  <2>1. sender' \in [Calls -> Senders] BY <1>24, <1>27 DEF NativeReleased, NativeProves, SenderSteps
  <2> QED BY <1>27, <2>1 DEF NativeReleased, NativeProves, disk, local, world
<1>28. ASSUME NEW c \in Calls, Send(c) PROVE TypeOK'
  <2>1. sender' \in [Calls -> Senders] /\ sender[c].approval \in Approvals /\ sender[c].req \in
        Requests
    BY <1>24, <1>28 DEF Send, SenderSteps
  <2>2. sent' \subseteq SendRecords BY <1>28, <2>1 DEF Send, SendRecords
  <2> QED BY <1>28, <2>1, <2>2 DEF Send, disk, local
<1>29. ASSUME NEW c \in Calls, ProviderResponds(c) PROVE TypeOK'
  <2>1. sender' \in [Calls -> Senders] BY <1>24, <1>29 DEF ProviderResponds, SenderSteps
  <2>2. witness' \in WitnessFiles BY <1>29 DEF ProviderResponds, WitnessFiles
  <2> QED BY <1>29, <2>1, <2>2 DEF ProviderResponds, local, world
<1>30. ASSUME NEW c \in Calls, SenderFails(c) PROVE TypeOK'
  BY <1>30 DEF SenderFails, disk, local, world
<1>31. ASSUME NEW a \in Approvals, Expire(a) PROVE TypeOK'
  BY <1>31 DEF Expire, disk, local
<1>32. ASSUME NEW o \in net, RecordOutcome(o) PROVE TypeOK'
  BY <1>32 DEF RecordOutcome, disk, local
<1>33. CASE UNCHANGED vars BY <1>33 DEF vars
<1> QED
  BY <1>2, <1>3, <1>4, <1>5, <1>6, <1>7, <1>10, <1>11, <1>12, <1>13, <1>14, <1>15, <1>16, <1>17,
     <1>18, <1>19, <1>20, <1>21, <1>22, <1>23, <1>25, <1>26, <1>27, <1>28, <1>29, <1>30, <1>31,
     <1>32, <1>33 DEF Next, CallStep, SenderStep

\* The lock has one holder; every end of a call gives it back.
LEMMA LockInvStep == IInv /\ [Next]_vars => LockInv'
<1> SUFFICES ASSUME IInv, [Next]_vars PROVE LockInv' OBVIOUS
<1>0. TypeOK /\ LockInv BY DEF IInv
<1> USE <1>0, ConstantsAssumption DEF TypeOK, LockInv, ActiveSteps, EndSteps, LockedSteps,
   BeforeAttempt, AfterAttempt, FlushSteps
<1>1. ASSUME NEW c \in Calls, NEW r \in Requests, Execute(c, r) PROVE LockInv'
  <2>1. ExecuteEffect BY <1>1, ExecuteWrites
  <2> QED BY <1>1, <2>1 DEF Execute, Goto, world, ExecuteEffect, Fields
<1>2. ASSUME NEW c \in Calls, NEW r \in Requests, Continue(c, r) PROVE LockInv'
  BY <1>2 DEF Continue, Goto, disk, local, world
<1>3. ASSUME NEW c \in Calls,
             Flush(c) \/ LockPrepared(c) \/ ValidateApproval(c) \/ WitnessReady(c) \/
             ClaimDispatch(c) \/ NativeReturned(c) \/ SaveResponse(c) \/ FlushRead(c)
      PROVE  LockInv'
  BY <1>3 DEF Flush, Goto, LockPrepared, ValidateApproval, Witnessed, Acceptable, Live,
     WitnessReady, Ready, ClaimDispatch, NativeReturned, SaveResponse, FlushRead, disk, local,
     world
<1>4. ASSUME NEW c \in Calls, Refused(c) \/ Raise(c) \/ Stop(c) PROVE LockInv'
  BY <1>4 DEF Refused, End, Goto, Raise, Stop, Dead, disk, local, world
<1>5. ASSUME NEW c \in Calls,
             SavePrepared(c) \/ ContinueSave(c) \/ Attempt(c) \/ SaveOutcome(c)
      PROVE  LockInv'
  BY <1>5 DEF SavePrepared, Goto, ContinueSave, Attempt, SaveOutcome, disk, local, world
<1>6. ASSUME NEW c \in Calls, PrepareReplied(c) \/ ContinueReplied(c) PROVE LockInv'
  <2>0. pc[c] \in {"prepare", "continue"} /\ UNCHANGED <<approvalFile, responseFile, witness,
        sender, world>>
    BY <1>6 DEF PrepareReplied, ContinueReplied
  <2>1. ASSUME NEW p \in {"authorized", "continuing"}, Approved(c, p),
               p = "continuing" => pc[c] = "continue"
        PROVE  LockInv'
    <3>1. ApprovedEffect(c, p) BY <2>0, <2>1, ApprovedWrites
    <3> QED BY <2>0, <2>1, <3>1 DEF Approved, Goto, world, ApprovedEffect, Fields
  <2>2. CASE NotApproved(c)
    <3>1. NotApprovedEffect(c) BY <2>0, <2>2, NotApprovedWrites
    <3> QED BY <2>0, <3>1 DEF End, Goto, world, NotApprovedEffect
  <2> QED BY <1>6, <2>1, <2>2 DEF PrepareReplied, ContinueReplied
<1>7. ASSUME NEW c \in Calls,
             SpawnWitness(c) \/ StartProviderSend(c) \/ WitnessFailed(c) \/ ProviderReturned(c)
             \/ CollectWitness(c)
      PROVE  LockInv'
  BY <1>7 DEF SpawnWitness, Goto, StartProviderSend, Witnessed, Live, WitnessFailed, Limited, Attempted,
     ProviderReturned, CollectWitness, disk, local, world
<1>8. ASSUME NEW c \in Calls, ReleaseGate(c) PROVE LockInv'
  BY <1>8 DEF ReleaseGate, Goto, Witnessed, Live, disk, local, world
<1>9. ASSUME NEW c \in Calls, FlushSave(c) \/ FlushFailed(c) PROVE LockInv'
  <2>0. /\ pc[c] = "flush_wait" /\ (End(c, "returned") \/ End(c, "pending"))
        /\ UNCHANGED <<approvalFile, responseFile, witness, sender, world>>
    BY <1>9 DEF FlushSave, FlushFailed
  <2>1. CASE UNCHANGED journal
    BY <2>0, <2>1 DEF End, Goto, world
  <2>2. CASE Accepted(c) /\ journal' = Completed(c)
    <3>1. CompleteEffect(c) BY <2>0, <2>2, CompletedWrites
    <3> QED BY <2>0, <2>2, <3>1 DEF End, Goto, world, CompleteEffect, Fields, Accepted
  <2> QED BY <1>9, <2>1, <2>2 DEF FlushSave, FlushFailed
<1>10. ASSUME NEW c \in Calls,
             NativeStart(c) \/ NativeReady(c) \/ NativeReleased(c) \/ Send(c) \/
             ProviderResponds(c) \/ NativeProves(c) \/ SenderFails(c)
      PROVE  LockInv'
  BY <1>10 DEF NativeStart, SenderAt, NativeReady, NativeReleased, Send, Live, ProviderResponds,
     NativeProves, SenderFails, disk, local, world
<1>11. ASSUME NEW a \in Approvals, Expire(a) PROVE LockInv'
  BY <1>11 DEF Expire, disk, local
<1>12. ASSUME NEW o \in net, RecordOutcome(o) PROVE LockInv'
  BY <1>12 DEF RecordOutcome, disk, local
<1>13. CASE UNCHANGED vars BY <1>13 DEF vars
<1> QED BY <1>1, <1>2, <1>3, <1>4, <1>5, <1>6, <1>7, <1>8, <1>9, <1>10, <1>11, <1>12, <1>13 DEF
   Next, CallStep, SenderStep

\* Only one call prepares, and the journal waits for it.
LEMMA PrepareInvStep == IInv /\ [Next]_vars => PrepareInv'
<1> SUFFICES ASSUME IInv, [Next]_vars PROVE PrepareInv' OBVIOUS
<1>0. TypeOK /\ LockInv /\ PrepareInv /\ JournalInv /\ BeforeInv /\ ApprovalInv /\ AfterInv BY DEF
      IInv
<1> USE <1>0, ConstantsAssumption DEF TypeOK, LockInv, PrepareInv, JournalInv, BeforeInv,
   ApprovalInv, AfterInv, ActiveSteps, EndSteps, LockedSteps, BeforeAttempt, AfterAttempt,
   FlushSteps, Preparing, OpenPhases, NoJournal
<1>1. ASSUME NEW c \in Calls, NEW r \in Requests, Execute(c, r) PROVE PrepareInv'
  <2>1. ExecuteEffect BY <1>1, ExecuteWrites
  <2> QED BY <1>1, <2>1 DEF Execute, Goto, world, ExecuteEffect, Fields
<1>2. ASSUME NEW c \in Calls, NEW r \in Requests, Continue(c, r) PROVE PrepareInv'
  BY <1>2 DEF Continue, Goto, disk, local, world
<1>3. ASSUME NEW c \in Calls,
             Flush(c) \/ LockPrepared(c) \/ ValidateApproval(c) \/ WitnessReady(c) \/
             ClaimDispatch(c) \/ NativeReturned(c) \/ SaveResponse(c) \/ FlushRead(c)
      PROVE  PrepareInv'
  BY <1>3 DEF Flush, Goto, LockPrepared, ValidateApproval, Witnessed, Acceptable, Live,
     WitnessReady, Ready, ClaimDispatch, NativeReturned, SaveResponse, FlushRead, disk, local,
     world
<1>4. ASSUME NEW c \in Calls, Refused(c) \/ Raise(c) \/ Stop(c) PROVE PrepareInv'
  BY <1>4 DEF Refused, End, Goto, Raise, Stop, Dead, disk, local, world
<1>5. ASSUME NEW c \in Calls, SavePrepared(c) PROVE PrepareInv'
  <2>1. PreparedEffect(c) BY <1>5, SavePreparedWrites
  <2> QED BY <1>5, <2>1 DEF SavePrepared, Goto, world, PreparedEffect, Fields
<1>6. ASSUME NEW c \in Calls, PrepareReplied(c) \/ ContinueReplied(c) PROVE PrepareInv'
  <2>0. pc[c] \in {"prepare", "continue"} /\ UNCHANGED <<approvalFile, responseFile, witness,
        sender, world>>
    BY <1>6 DEF PrepareReplied, ContinueReplied
  <2>1. ASSUME NEW p \in {"authorized", "continuing"}, Approved(c, p),
               p = "continuing" => pc[c] = "continue"
        PROVE  PrepareInv'
    <3>1. ApprovedEffect(c, p) BY <2>0, <2>1, ApprovedWrites
    <3> QED BY <2>0, <2>1, <3>1 DEF Approved, Goto, world, ApprovedEffect, Fields
  <2>2. CASE NotApproved(c)
    <3>1. NotApprovedEffect(c) BY <2>0, <2>2, NotApprovedWrites
    <3> QED BY <2>0, <3>1 DEF End, Goto, world, NotApprovedEffect
  <2> QED BY <1>6, <2>1, <2>2 DEF PrepareReplied, ContinueReplied
<1>7. ASSUME NEW c \in Calls, ContinueSave(c) PROVE PrepareInv'
  <2>1. ContinueEffect(c) BY <1>7, ContinueSaveWrites
  <2> QED BY <1>7, <2>1 DEF ContinueSave, Goto, world, ContinueEffect, Fields
<1>8. ASSUME NEW c \in Calls,
             SpawnWitness(c) \/ StartProviderSend(c) \/ WitnessFailed(c) \/ ProviderReturned(c)
             \/ CollectWitness(c)
      PROVE  PrepareInv'
  BY <1>8 DEF SpawnWitness, Goto, StartProviderSend, Witnessed, Live, WitnessFailed, Limited, Attempted,
     ProviderReturned, CollectWitness, disk, local, world
<1>9. ASSUME NEW c \in Calls, Attempt(c) PROVE PrepareInv'
  <2>1. AttemptEffect(c) BY <1>9, AttemptWrites
  <2> QED BY <1>9, <2>1 DEF Attempt, Goto, world, Live, AttemptEffect, Fields
<1>10. ASSUME NEW c \in Calls, ReleaseGate(c) PROVE PrepareInv'
  BY <1>10 DEF ReleaseGate, Goto, Witnessed, Live, disk, local, world
<1>11. ASSUME NEW c \in Calls, SaveOutcome(c) PROVE PrepareInv'
  <2>1. journal.phase \notin {"empty", "prepared"} BY <1>11 DEF SaveOutcome
  <2>2. \A d \in Calls : pc[d] \notin Preparing BY <2>1
  <2>3. pc' = [pc EXCEPT ![c] = "flush_read"] BY <1>11 DEF SaveOutcome, Goto
  <2> QED BY <2>2, <2>3
<1>12. ASSUME NEW c \in Calls, FlushSave(c) \/ FlushFailed(c) PROVE PrepareInv'
  <2>0. /\ pc[c] = "flush_wait" /\ (End(c, "returned") \/ End(c, "pending"))
        /\ UNCHANGED <<approvalFile, responseFile, witness, sender, world>>
    BY <1>12 DEF FlushSave, FlushFailed
  <2>1. CASE UNCHANGED journal
    BY <2>0, <2>1 DEF End, Goto, world
  <2>2. CASE Accepted(c) /\ journal' = Completed(c)
    <3>1. CompleteEffect(c) BY <2>0, <2>2, CompletedWrites
    <3> QED BY <2>0, <2>2, <3>1 DEF End, Goto, world, CompleteEffect, Fields, Accepted
  <2> QED BY <1>12, <2>1, <2>2 DEF FlushSave, FlushFailed
<1>13. ASSUME NEW c \in Calls,
             NativeStart(c) \/ NativeReady(c) \/ NativeReleased(c) \/ Send(c) \/
             ProviderResponds(c) \/ NativeProves(c) \/ SenderFails(c)
      PROVE  PrepareInv'
  BY <1>13 DEF NativeStart, SenderAt, NativeReady, NativeReleased, Send, Live, ProviderResponds,
     NativeProves, SenderFails, disk, local, world
<1>14. ASSUME NEW a \in Approvals, Expire(a) PROVE PrepareInv'
  BY <1>14 DEF Expire, disk, local
<1>15. ASSUME NEW o \in net, RecordOutcome(o) PROVE PrepareInv'
  BY <1>15 DEF RecordOutcome, disk, local
<1>16. CASE UNCHANGED vars BY <1>16 DEF vars
<1> QED BY <1>1, <1>2, <1>3, <1>4, <1>5, <1>6, <1>7, <1>8, <1>9, <1>10, <1>11, <1>12, <1>13,
   <1>14, <1>15, <1>16 DEF Next, CallStep, SenderStep

\* An open journal has no attempt in it, a waiting one its review.
LEMMA JournalInvStep == IInv /\ [Next]_vars => JournalInv'
<1> SUFFICES ASSUME IInv, [Next]_vars PROVE JournalInv' OBVIOUS
<1>0. TypeOK /\ JournalInv /\ PrepareInv /\ BeforeInv /\ AfterInv BY DEF IInv
<1> USE <1>0, ConstantsAssumption DEF TypeOK, JournalInv, PrepareInv, BeforeInv, AfterInv,
   ActiveSteps, EndSteps, LockedSteps, BeforeAttempt, AfterAttempt, FlushSteps, OpenPhases,
   NoJournal
<1>1. ASSUME NEW c \in Calls, NEW r \in Requests, Execute(c, r) PROVE JournalInv'
  <2>1. ExecuteEffect BY <1>1, ExecuteWrites
  <2> QED BY <1>1, <2>1 DEF Execute, Goto, world, ExecuteEffect, Fields
<1>2. ASSUME NEW c \in Calls, NEW r \in Requests, Continue(c, r) PROVE JournalInv'
  BY <1>2 DEF Continue, Goto, disk, local, world
<1>3. ASSUME NEW c \in Calls,
             Flush(c) \/ LockPrepared(c) \/ ValidateApproval(c) \/ WitnessReady(c) \/
             ClaimDispatch(c) \/ NativeReturned(c) \/ SaveResponse(c) \/ FlushRead(c)
      PROVE  JournalInv'
  BY <1>3 DEF Flush, Goto, LockPrepared, ValidateApproval, Witnessed, Acceptable, Live,
     WitnessReady, Ready, ClaimDispatch, NativeReturned, SaveResponse, FlushRead, disk, local,
     world
<1>4. ASSUME NEW c \in Calls, Refused(c) \/ Raise(c) \/ Stop(c) PROVE JournalInv'
  BY <1>4 DEF Refused, End, Goto, Raise, Stop, Dead, disk, local, world
<1>5. ASSUME NEW c \in Calls, SavePrepared(c) PROVE JournalInv'
  <2>1. PreparedEffect(c) BY <1>5, SavePreparedWrites
  <2> QED BY <1>5, <2>1 DEF SavePrepared, Goto, world, PreparedEffect, Fields
<1>6. ASSUME NEW c \in Calls, PrepareReplied(c) \/ ContinueReplied(c) PROVE JournalInv'
  <2>0. pc[c] \in {"prepare", "continue"} /\ UNCHANGED <<approvalFile, responseFile, witness,
        sender, world>>
    BY <1>6 DEF PrepareReplied, ContinueReplied
  <2>1. ASSUME NEW p \in {"authorized", "continuing"}, Approved(c, p),
               p = "continuing" => pc[c] = "continue"
        PROVE  JournalInv'
    <3>1. ApprovedEffect(c, p) BY <2>0, <2>1, ApprovedWrites
    <3> QED BY <2>0, <2>1, <3>1 DEF Approved, Goto, world, ApprovedEffect, Fields
  <2>2. CASE NotApproved(c)
    <3>1. NotApprovedEffect(c) BY <2>0, <2>2, NotApprovedWrites
    <3> QED BY <2>0, <3>1 DEF End, Goto, world, NotApprovedEffect
  <2> QED BY <1>6, <2>1, <2>2 DEF PrepareReplied, ContinueReplied
<1>7. ASSUME NEW c \in Calls, ContinueSave(c) PROVE JournalInv'
  <2>1. ContinueEffect(c) BY <1>7, ContinueSaveWrites
  <2> QED BY <1>7, <2>1 DEF ContinueSave, Goto, world, ContinueEffect, Fields
<1>8. ASSUME NEW c \in Calls,
             SpawnWitness(c) \/ StartProviderSend(c) \/ WitnessFailed(c) \/ ProviderReturned(c)
             \/ CollectWitness(c)
      PROVE  JournalInv'
  BY <1>8 DEF SpawnWitness, Goto, StartProviderSend, Witnessed, Live, WitnessFailed, Limited, Attempted,
     ProviderReturned, CollectWitness, disk, local, world
<1>9. ASSUME NEW c \in Calls, Attempt(c) PROVE JournalInv'
  <2>1. AttemptEffect(c) BY <1>9, AttemptWrites
  <2> QED BY <1>9, <2>1 DEF Attempt, Goto, world, Live, AttemptEffect, Fields
<1>10. ASSUME NEW c \in Calls, ReleaseGate(c) PROVE JournalInv'
  BY <1>10 DEF ReleaseGate, Goto, Witnessed, Live, disk, local, world
<1>11. ASSUME NEW c \in Calls, SaveOutcome(c) PROVE JournalInv'
  <2>1. OutcomeEffect(c) BY <1>11, SaveOutcomeWrites
  <2> QED BY <1>11, <2>1 DEF SaveOutcome, Goto, world, OutcomeEffect, Fields
<1>12. ASSUME NEW c \in Calls, FlushSave(c) \/ FlushFailed(c) PROVE JournalInv'
  <2>0. /\ pc[c] = "flush_wait" /\ (End(c, "returned") \/ End(c, "pending"))
        /\ UNCHANGED <<approvalFile, responseFile, witness, sender, world>>
    BY <1>12 DEF FlushSave, FlushFailed
  <2>1. CASE UNCHANGED journal
    BY <2>0, <2>1 DEF End, Goto, world
  <2>2. CASE Accepted(c) /\ journal' = Completed(c)
    <3>1. CompleteEffect(c) BY <2>0, <2>2, CompletedWrites
    <3> QED BY <2>0, <2>2, <3>1 DEF End, Goto, world, CompleteEffect, Fields, Accepted
  <2> QED BY <1>12, <2>1, <2>2 DEF FlushSave, FlushFailed
<1>13. ASSUME NEW c \in Calls,
             NativeStart(c) \/ NativeReady(c) \/ NativeReleased(c) \/ Send(c) \/
             ProviderResponds(c) \/ NativeProves(c) \/ SenderFails(c)
      PROVE  JournalInv'
  BY <1>13 DEF NativeStart, SenderAt, NativeReady, NativeReleased, Send, Live, ProviderResponds,
     NativeProves, SenderFails, disk, local, world
<1>14. ASSUME NEW a \in Approvals, Expire(a) PROVE JournalInv'
  BY <1>14 DEF Expire, disk, local
<1>15. ASSUME NEW o \in net, RecordOutcome(o) PROVE JournalInv'
  BY <1>15 DEF RecordOutcome, disk, local
<1>16. CASE UNCHANGED vars BY <1>16 DEF vars
<1> QED BY <1>1, <1>2, <1>3, <1>4, <1>5, <1>6, <1>7, <1>8, <1>9, <1>10, <1>11, <1>12, <1>13,
   <1>14, <1>15, <1>16 DEF Next, CallStep, SenderStep

\* Until the attempt nobody but the lock holder writes the journal.
LEMMA BeforeInvStep == IInv /\ [Next]_vars => BeforeInv'
<1> SUFFICES ASSUME IInv, [Next]_vars PROVE BeforeInv' OBVIOUS
<1>0. TypeOK /\ LockInv /\ PrepareInv /\ JournalInv /\ BeforeInv /\ ApprovalInv /\ AfterInv BY DEF
      IInv
<1> USE <1>0, ConstantsAssumption DEF TypeOK, LockInv, PrepareInv, JournalInv, BeforeInv,
   ApprovalInv, AfterInv, ActiveSteps, EndSteps, LockedSteps, BeforeAttempt, AfterAttempt,
   FlushSteps, Preparing, OpenPhases, NoJournal
<1>1. ASSUME NEW c \in Calls, NEW r \in Requests, Execute(c, r) PROVE BeforeInv'
  <2>1. ExecuteEffect BY <1>1, ExecuteWrites
  <2> QED BY <1>1, <2>1 DEF Execute, Goto, world, ExecuteEffect, Fields
<1>2. ASSUME NEW c \in Calls, NEW r \in Requests, Continue(c, r) PROVE BeforeInv'
  BY <1>2 DEF Continue, Goto, disk, local, world
<1>3. ASSUME NEW c \in Calls,
             Flush(c) \/ LockPrepared(c) \/ ValidateApproval(c) \/ WitnessReady(c) \/
             ClaimDispatch(c) \/ NativeReturned(c) \/ SaveResponse(c) \/ FlushRead(c)
      PROVE  BeforeInv'
  BY <1>3 DEF Flush, Goto, LockPrepared, ValidateApproval, Witnessed, Acceptable, Live,
     WitnessReady, Ready, ClaimDispatch, NativeReturned, SaveResponse, FlushRead, disk, local,
     world
<1>4. ASSUME NEW c \in Calls, Refused(c) \/ Raise(c) \/ Stop(c) PROVE BeforeInv'
  BY <1>4 DEF Refused, End, Goto, Raise, Stop, Dead, disk, local, world
<1>5. ASSUME NEW c \in Calls, SavePrepared(c) PROVE BeforeInv'
  <2>1. PreparedEffect(c) BY <1>5, SavePreparedWrites
  <2> QED BY <1>5, <2>1 DEF SavePrepared, Goto, world, PreparedEffect, Fields
<1>6. ASSUME NEW c \in Calls, PrepareReplied(c) \/ ContinueReplied(c) PROVE BeforeInv'
  <2>0. pc[c] \in {"prepare", "continue"} /\ UNCHANGED <<approvalFile, responseFile, witness,
        sender, world>>
    BY <1>6 DEF PrepareReplied, ContinueReplied
  <2>1. ASSUME NEW p \in {"authorized", "continuing"}, Approved(c, p),
               p = "continuing" => pc[c] = "continue"
        PROVE  BeforeInv'
    <3>1. ApprovedEffect(c, p) BY <2>0, <2>1, ApprovedWrites
    <3> QED BY <2>0, <2>1, <3>1 DEF Approved, Goto, world, ApprovedEffect, Fields
  <2>2. CASE NotApproved(c)
    <3>1. NotApprovedEffect(c) BY <2>0, <2>2, NotApprovedWrites
    <3> QED BY <2>0, <3>1 DEF End, Goto, world, NotApprovedEffect
  <2> QED BY <1>6, <2>1, <2>2 DEF PrepareReplied, ContinueReplied
<1>7. ASSUME NEW c \in Calls, ContinueSave(c) PROVE BeforeInv'
  <2>1. ContinueEffect(c) BY <1>7, ContinueSaveWrites
  <2> QED BY <1>7, <2>1 DEF ContinueSave, Goto, world, ContinueEffect, Fields
<1>8. ASSUME NEW c \in Calls,
             SpawnWitness(c) \/ StartProviderSend(c) \/ WitnessFailed(c) \/ ProviderReturned(c)
             \/ CollectWitness(c)
      PROVE  BeforeInv'
  BY <1>8 DEF SpawnWitness, Goto, StartProviderSend, Witnessed, Live, WitnessFailed, Limited, Attempted,
     ProviderReturned, CollectWitness, disk, local, world
<1>9. ASSUME NEW c \in Calls, Attempt(c) PROVE BeforeInv'
  <2>1. AttemptEffect(c) BY <1>9, AttemptWrites
  <2> QED BY <1>9, <2>1 DEF Attempt, Goto, world, Live, AttemptEffect, Fields
<1>10. ASSUME NEW c \in Calls, ReleaseGate(c) PROVE BeforeInv'
  BY <1>10 DEF ReleaseGate, Goto, Witnessed, Live, disk, local, world
<1>11. ASSUME NEW c \in Calls, SaveOutcome(c) PROVE BeforeInv'
  <2>1. OutcomeEffect(c) BY <1>11, SaveOutcomeWrites
  <2> QED BY <1>11, <2>1 DEF SaveOutcome, Goto, world, OutcomeEffect, Fields
<1>12. ASSUME NEW c \in Calls, FlushSave(c) \/ FlushFailed(c) PROVE BeforeInv'
  <2>0. /\ pc[c] = "flush_wait" /\ (End(c, "returned") \/ End(c, "pending"))
        /\ UNCHANGED <<approvalFile, responseFile, witness, sender, world>>
    BY <1>12 DEF FlushSave, FlushFailed
  <2>1. CASE UNCHANGED journal
    BY <2>0, <2>1 DEF End, Goto, world
  <2>2. CASE Accepted(c) /\ journal' = Completed(c)
    <3>1. CompleteEffect(c) BY <2>0, <2>2, CompletedWrites
    <3> QED BY <2>0, <2>2, <3>1 DEF End, Goto, world, CompleteEffect, Fields, Accepted
  <2> QED BY <1>12, <2>1, <2>2 DEF FlushSave, FlushFailed
<1>13. ASSUME NEW c \in Calls,
             NativeStart(c) \/ NativeReady(c) \/ NativeReleased(c) \/ Send(c) \/
             ProviderResponds(c) \/ NativeProves(c) \/ SenderFails(c)
      PROVE  BeforeInv'
  BY <1>13 DEF NativeStart, SenderAt, NativeReady, NativeReleased, Send, Live, ProviderResponds,
     NativeProves, SenderFails, disk, local, world
<1>14. ASSUME NEW a \in Approvals, Expire(a) PROVE BeforeInv'
  BY <1>14 DEF Expire, disk, local
<1>15. ASSUME NEW o \in net, RecordOutcome(o) PROVE BeforeInv'
  BY <1>15 DEF RecordOutcome, disk, local
<1>16. CASE UNCHANGED vars BY <1>16 DEF vars
<1> QED BY <1>1, <1>2, <1>3, <1>4, <1>5, <1>6, <1>7, <1>8, <1>9, <1>10, <1>11, <1>12, <1>13,
   <1>14, <1>15, <1>16 DEF Next, CallStep, SenderStep

\* The approval acted on is the validated, saved one.
LEMMA ApprovalInvStep == IInv /\ [Next]_vars => ApprovalInv'
<1> SUFFICES ASSUME IInv, [Next]_vars PROVE ApprovalInv' OBVIOUS
<1>0. TypeOK /\ LockInv /\ ApprovalInv /\ WitnessInv BY DEF IInv
<1> USE <1>0, ConstantsAssumption DEF TypeOK, LockInv, ApprovalInv, WitnessInv, ActiveSteps,
   EndSteps, LockedSteps, BeforeAttempt, AfterAttempt, FlushSteps, WitnessFiles
<1>1. ASSUME NEW c \in Calls, NEW r \in Requests, Execute(c, r) PROVE ApprovalInv'
  <2>1. ExecuteEffect BY <1>1, ExecuteWrites
  <2> QED BY <1>1, <2>1 DEF Execute, Goto, world, ExecuteEffect, Fields
<1>2. ASSUME NEW c \in Calls, NEW r \in Requests, Continue(c, r) PROVE ApprovalInv'
  BY <1>2 DEF Continue, Goto, disk, local, world
<1>3. ASSUME NEW c \in Calls,
             Flush(c) \/ LockPrepared(c) \/ ValidateApproval(c) \/ WitnessReady(c) \/
             ClaimDispatch(c) \/ NativeReturned(c) \/ SaveResponse(c) \/ FlushRead(c)
      PROVE  ApprovalInv'
  BY <1>3 DEF Flush, Goto, LockPrepared, ValidateApproval, Witnessed, Acceptable, Live,
     WitnessReady, Ready, ClaimDispatch, NativeReturned, SaveResponse, FlushRead, disk, local,
     world
<1>4. ASSUME NEW c \in Calls, Refused(c) \/ Raise(c) \/ Stop(c) PROVE ApprovalInv'
  BY <1>4 DEF Refused, End, Goto, Raise, Stop, Dead, disk, local, world
<1>5. ASSUME NEW c \in Calls,
             SavePrepared(c) \/ ContinueSave(c) \/ Attempt(c) \/ SaveOutcome(c)
      PROVE  ApprovalInv'
  BY <1>5 DEF SavePrepared, Goto, ContinueSave, Attempt, SaveOutcome, disk, local, world
<1>6. ASSUME NEW c \in Calls, PrepareReplied(c) \/ ContinueReplied(c) PROVE ApprovalInv'
  <2>0. pc[c] \in {"prepare", "continue"} /\ UNCHANGED <<approvalFile, responseFile, witness,
        sender, world>>
    BY <1>6 DEF PrepareReplied, ContinueReplied
  <2>1. ASSUME NEW p \in {"authorized", "continuing"}, Approved(c, p),
               p = "continuing" => pc[c] = "continue"
        PROVE  ApprovalInv'
    <3>1. ApprovedEffect(c, p) BY <2>0, <2>1, ApprovedWrites
    <3> QED BY <2>0, <2>1, <3>1 DEF Approved, Goto, world, ApprovedEffect, Fields
  <2>2. CASE NotApproved(c)
    <3>1. NotApprovedEffect(c) BY <2>0, <2>2, NotApprovedWrites
    <3> QED BY <2>0, <3>1 DEF End, Goto, world, NotApprovedEffect
  <2> QED BY <1>6, <2>1, <2>2 DEF PrepareReplied, ContinueReplied
<1>7. ASSUME NEW c \in Calls,
             SpawnWitness(c) \/ StartProviderSend(c) \/ WitnessFailed(c) \/ ProviderReturned(c)
             \/ CollectWitness(c)
      PROVE  ApprovalInv'
  BY <1>7 DEF SpawnWitness, Goto, StartProviderSend, Witnessed, Live, WitnessFailed, Limited, Attempted,
     ProviderReturned, CollectWitness, disk, local, world
<1>8. ASSUME NEW c \in Calls, ReleaseGate(c) PROVE ApprovalInv'
  BY <1>8 DEF ReleaseGate, Goto, Witnessed, Live, disk, local, world
<1>9. ASSUME NEW c \in Calls, FlushSave(c) \/ FlushFailed(c) PROVE ApprovalInv'
  <2>0. /\ pc[c] = "flush_wait" /\ (End(c, "returned") \/ End(c, "pending"))
        /\ UNCHANGED <<approvalFile, responseFile, witness, sender, world>>
    BY <1>9 DEF FlushSave, FlushFailed
  <2>1. CASE UNCHANGED journal
    BY <2>0, <2>1 DEF End, Goto, world
  <2>2. CASE Accepted(c) /\ journal' = Completed(c)
    <3>1. CompleteEffect(c) BY <2>0, <2>2, CompletedWrites
    <3> QED BY <2>0, <2>2, <3>1 DEF End, Goto, world, CompleteEffect, Fields, Accepted
  <2> QED BY <1>9, <2>1, <2>2 DEF FlushSave, FlushFailed
<1>10. ASSUME NEW c \in Calls,
             NativeStart(c) \/ NativeReady(c) \/ NativeReleased(c) \/ Send(c) \/
             ProviderResponds(c) \/ NativeProves(c) \/ SenderFails(c)
      PROVE  ApprovalInv'
  BY <1>10 DEF NativeStart, SenderAt, NativeReady, NativeReleased, Send, Live, ProviderResponds,
     NativeProves, SenderFails, disk, local, world
<1>11. ASSUME NEW a \in Approvals, Expire(a) PROVE ApprovalInv'
  BY <1>11 DEF Expire, disk, local
<1>12. ASSUME NEW o \in net, RecordOutcome(o) PROVE ApprovalInv'
  BY <1>12 DEF RecordOutcome, disk, local
<1>13. CASE UNCHANGED vars BY <1>13 DEF vars
<1> QED BY <1>1, <1>2, <1>3, <1>4, <1>5, <1>6, <1>7, <1>8, <1>9, <1>10, <1>11, <1>12, <1>13 DEF
   Next, CallStep, SenderStep

\* After the attempt every writer agrees on the approval.
LEMMA AfterInvStep == IInv /\ [Next]_vars => AfterInv'
<1> SUFFICES ASSUME IInv, [Next]_vars PROVE AfterInv' OBVIOUS
<1>0. TypeOK /\ LockInv /\ PrepareInv /\ JournalInv /\ BeforeInv /\ ApprovalInv /\ AfterInv BY DEF
      IInv
<1> USE <1>0, ConstantsAssumption DEF TypeOK, LockInv, PrepareInv, JournalInv, BeforeInv,
   ApprovalInv, AfterInv, ActiveSteps, EndSteps, LockedSteps, BeforeAttempt, AfterAttempt,
   FlushSteps, OpenPhases, Preparing, NoOutcome, NoJournal, Journals
<1>1. ASSUME NEW c \in Calls, NEW r \in Requests, Execute(c, r) PROVE AfterInv'
  <2>1. ExecuteEffect BY <1>1, ExecuteWrites
  <2> QED BY <1>1, <2>1 DEF Execute, Goto, world, ExecuteEffect, Fields
<1>2. ASSUME NEW c \in Calls, NEW r \in Requests, Continue(c, r) PROVE AfterInv'
  BY <1>2 DEF Continue, Goto, disk, local, world
<1>3. ASSUME NEW c \in Calls,
             Flush(c) \/ LockPrepared(c) \/ ValidateApproval(c) \/ WitnessReady(c) \/
             ClaimDispatch(c) \/ NativeReturned(c) \/ SaveResponse(c) \/ FlushRead(c)
      PROVE  AfterInv'
  BY <1>3 DEF Flush, Goto, LockPrepared, ValidateApproval, Witnessed, Acceptable, Live,
     WitnessReady, Ready, ClaimDispatch, NativeReturned, SaveResponse, FlushRead, disk, local,
     world
<1>4. ASSUME NEW c \in Calls, Refused(c) \/ Raise(c) \/ Stop(c) PROVE AfterInv'
  BY <1>4 DEF Refused, End, Goto, Raise, Stop, Dead, disk, local, world
<1>5. ASSUME NEW c \in Calls, SavePrepared(c) PROVE AfterInv'
  <2>1. journal'.outcome = NoOutcome /\ journal.outcome = NoOutcome
    BY <1>5, SavePreparedWrites DEF PreparedEffect, Fields
  <2>2. journal.phase = "empty" /\ pc' = [pc EXCEPT ![c] = "exec_lock"] BY <1>5 DEF SavePrepared,
        Goto
  <2>3. \A d \in Calls : pc[d] \notin AfterAttempt \cup {"flush_wait"} BY <2>1, <2>2
  <2> QED BY <2>2, <2>3
<1>6. ASSUME NEW c \in Calls, PrepareReplied(c) \/ ContinueReplied(c) PROVE AfterInv'
  <2>0. pc[c] \in {"prepare", "continue"} /\ UNCHANGED <<approvalFile, responseFile, witness,
        sender, world>>
    BY <1>6 DEF PrepareReplied, ContinueReplied
  <2>1. ASSUME NEW p \in {"authorized", "continuing"}, Approved(c, p),
               p = "continuing" => pc[c] = "continue"
        PROVE  AfterInv'
    <3>1. ApprovedEffect(c, p) BY <2>0, <2>1, ApprovedWrites
    <3> QED BY <2>0, <2>1, <3>1 DEF Approved, Goto, world, ApprovedEffect, Fields
  <2>2. CASE NotApproved(c)
    <3>1. NotApprovedEffect(c) BY <2>0, <2>2, NotApprovedWrites
    <3> QED BY <2>0, <3>1 DEF End, Goto, world, NotApprovedEffect
  <2> QED BY <1>6, <2>1, <2>2 DEF PrepareReplied, ContinueReplied
<1>7. ASSUME NEW c \in Calls, ContinueSave(c) PROVE AfterInv'
  <2>1. ContinueEffect(c) BY <1>7, ContinueSaveWrites
  <2> QED BY <1>7, <2>1 DEF ContinueSave, Goto, world, ContinueEffect, Fields
<1>8. ASSUME NEW c \in Calls, SpawnWitness(c) PROVE AfterInv'
  BY <1>8 DEF SpawnWitness, Goto, disk, local, world
<1>9. ASSUME NEW c \in Calls, Attempt(c) PROVE AfterInv'
  <2>1. AttemptEffect(c) BY <1>9, AttemptWrites
  <2> QED BY <1>9, <2>1 DEF Attempt, Goto, world, Live, AttemptEffect, Fields
<1>10. ASSUME NEW c \in Calls, StartProviderSend(c) PROVE AfterInv'
  BY <1>10 DEF StartProviderSend, Goto, Witnessed, Live, disk, local, world
<1>11. ASSUME NEW c \in Calls, ReleaseGate(c) PROVE AfterInv'
  BY <1>11 DEF ReleaseGate, Goto, Witnessed, Live, disk, local, world
<1>12. ASSUME NEW c \in Calls, ProviderReturned(c) PROVE AfterInv'
  <2>1. CASE pc' = [pc EXCEPT ![c] = "save_response"]
    BY <1>12, <2>1 DEF ProviderReturned, Goto, disk, local, world
  <2>2. CASE pc' = [pc EXCEPT ![c] = "save_outcome"] /\ UNCHANGED response
    BY <1>12, <2>2 DEF ProviderReturned, Goto, disk, local, world
  <2> QED BY <1>12, <2>1, <2>2 DEF ProviderReturned, Goto
<1>13. ASSUME NEW c \in Calls, WitnessFailed(c) PROVE AfterInv'
  <2>1. CASE UNCHANGED mem /\ pc[c] \in {"claim_call", "claim_reply", "await_native"}
    BY <1>13, <2>1 DEF WitnessFailed, Goto, disk
  <2>2. CASE pc[c] = "claim" /\ mem' = [mem EXCEPT ![c] = Attempted(c)]
    <3>1. mem'[c].outcome = [state |-> "unknown", approval |-> approval[c]] /\ mem'[c].req =
          mem[c].req
      BY <2>2 DEF Attempted
    <3>2. journal.phase \in {"authorized", "continuing"} /\ journal.outcome = NoOutcome /\ mem[c] =
          journal /\ journal.req = arg[c]
      BY <2>2
    <3> QED BY <1>13, <2>2, <3>1, <3>2 DEF WitnessFailed, Goto, disk
  <2> QED BY <1>13, <2>1, <2>2 DEF WitnessFailed
<1>14. ASSUME NEW c \in Calls, CollectWitness(c) PROVE AfterInv'
  <2>1. CASE pc' = [pc EXCEPT ![c] = "save_response"]
    BY <1>14, <2>1 DEF CollectWitness, Goto, disk, local, world
  <2>2. CASE pc' = [pc EXCEPT ![c] = "save_outcome"] /\ UNCHANGED response
    BY <1>14, <2>2 DEF CollectWitness, Goto, disk, local, world
  <2> QED BY <1>14, <2>1, <2>2 DEF CollectWitness, Goto
<1>15. ASSUME NEW c \in Calls, SaveOutcome(c) PROVE AfterInv'
  <2>1. OutcomeEffect(c) BY <1>15, SaveOutcomeWrites
  <2> QED BY <1>15, <2>1 DEF SaveOutcome, Goto, world, OutcomeEffect, Fields
<1>16. ASSUME NEW c \in Calls, FlushSave(c) \/ FlushFailed(c) PROVE AfterInv'
  <2>0. /\ pc[c] = "flush_wait" /\ (End(c, "returned") \/ End(c, "pending"))
        /\ UNCHANGED <<approvalFile, responseFile, witness, sender, world>>
    BY <1>16 DEF FlushSave, FlushFailed
  <2>1. CASE UNCHANGED journal
    BY <2>0, <2>1 DEF End, Goto, world
  <2>2. CASE Accepted(c) /\ journal' = Completed(c)
    <3>1. CompleteEffect(c) BY <2>0, <2>2, CompletedWrites
    <3> QED BY <2>0, <2>2, <3>1 DEF End, Goto, world, CompleteEffect, Fields, Accepted
  <2> QED BY <1>16, <2>1, <2>2 DEF FlushSave, FlushFailed
<1>17. ASSUME NEW c \in Calls,
             NativeStart(c) \/ NativeReady(c) \/ NativeReleased(c) \/ Send(c) \/
             ProviderResponds(c) \/ NativeProves(c) \/ SenderFails(c)
      PROVE  AfterInv'
  BY <1>17 DEF NativeStart, SenderAt, NativeReady, NativeReleased, Send, Live, ProviderResponds,
     NativeProves, SenderFails, disk, local, world
<1>18. ASSUME NEW a \in Approvals, Expire(a) PROVE AfterInv'
  BY <1>18 DEF Expire, disk, local
<1>19. ASSUME NEW o \in net, RecordOutcome(o) PROVE AfterInv'
  BY <1>19 DEF RecordOutcome, disk, local
<1>20. CASE UNCHANGED vars BY <1>20 DEF vars
<1> QED BY <1>1, <1>2, <1>3, <1>4, <1>5, <1>6, <1>7, <1>8, <1>9, <1>10, <1>11, <1>12, <1>13,
   <1>14, <1>15, <1>16, <1>17, <1>18, <1>19, <1>20 DEF Next, CallStep, SenderStep

\* No sender is released before the attempt is saved and the claim answered.
LEMMA UnsentInvStep == IInv /\ [Next]_vars => UnsentInv'
<1> SUFFICES ASSUME IInv, [Next]_vars PROVE UnsentInv' OBVIOUS
<1>0. TypeOK /\ LockInv /\ PrepareInv /\ BeforeInv /\ ApprovalInv /\ AfterInv /\ UnsentInv /\
      WitnessInv /\ ReleasedInv BY DEF IInv
<1> USE <1>0, ConstantsAssumption DEF TypeOK, LockInv, PrepareInv, BeforeInv, ApprovalInv,
   AfterInv, UnsentInv, WitnessInv, ReleasedInv, ActiveSteps, EndSteps, LockedSteps,
   BeforeAttempt, AfterAttempt, FlushSteps, Released, Unsent, NoSender, DeadSender,
   WitnessFiles, Senders, SenderSteps
<1>1. ASSUME NEW c \in Calls, NEW r \in Requests, Execute(c, r) PROVE UnsentInv'
  <2>1. ExecuteEffect BY <1>1, ExecuteWrites
  <2> QED BY <1>1, <2>1 DEF Execute, Goto, world, ExecuteEffect, Fields
<1>2. ASSUME NEW c \in Calls, NEW r \in Requests, Continue(c, r) PROVE UnsentInv'
  BY <1>2 DEF Continue, Goto, disk, local, world
<1>3. ASSUME NEW c \in Calls,
             Flush(c) \/ LockPrepared(c) \/ ValidateApproval(c) \/ WitnessReady(c) \/
             ClaimDispatch(c) \/ NativeReturned(c) \/ SaveResponse(c) \/ FlushRead(c)
      PROVE  UnsentInv'
  BY <1>3 DEF Flush, Goto, LockPrepared, ValidateApproval, Witnessed, Acceptable, Live,
     WitnessReady, Ready, ClaimDispatch, NativeReturned, SaveResponse, FlushRead, disk, local,
     world
<1>4. ASSUME NEW c \in Calls, Refused(c) PROVE UnsentInv'
  BY <1>4 DEF Refused, End, Goto, disk, local, world
<1>5. ASSUME NEW c \in Calls, SavePrepared(c) PROVE UnsentInv'
  <2>1. PreparedEffect(c) BY <1>5, SavePreparedWrites
  <2> QED BY <1>5, <2>1 DEF SavePrepared, Goto, world, PreparedEffect, Fields
<1>6. ASSUME NEW c \in Calls, PrepareReplied(c) \/ ContinueReplied(c) PROVE UnsentInv'
  <2>0. pc[c] \in {"prepare", "continue"} /\ UNCHANGED <<approvalFile, responseFile, witness,
        sender, world>>
    BY <1>6 DEF PrepareReplied, ContinueReplied
  <2>1. ASSUME NEW p \in {"authorized", "continuing"}, Approved(c, p),
               p = "continuing" => pc[c] = "continue"
        PROVE  UnsentInv'
    <3>1. ApprovedEffect(c, p) BY <2>0, <2>1, ApprovedWrites
    <3> QED BY <2>0, <2>1, <3>1 DEF Approved, Goto, world, ApprovedEffect, Fields
  <2>2. CASE NotApproved(c)
    <3>1. NotApprovedEffect(c) BY <2>0, <2>2, NotApprovedWrites
    <3> QED BY <2>0, <3>1 DEF End, Goto, world, NotApprovedEffect
  <2> QED BY <1>6, <2>1, <2>2 DEF PrepareReplied, ContinueReplied
<1>7. ASSUME NEW c \in Calls, ContinueSave(c) PROVE UnsentInv'
  <2>1. ContinueEffect(c) BY <1>7, ContinueSaveWrites
  <2> QED BY <1>7, <2>1 DEF ContinueSave, Goto, world, ContinueEffect, Fields
<1>8. ASSUME NEW c \in Calls, SpawnWitness(c) PROVE UnsentInv'
  BY <1>8 DEF SpawnWitness, Goto, disk, local, world
<1>9. ASSUME NEW c \in Calls, Attempt(c) PROVE UnsentInv'
  <2>1. AttemptEffect(c) BY <1>9, AttemptWrites
  <2> QED BY <1>9, <2>1 DEF Attempt, Goto, world, Live, AttemptEffect, Fields
<1>10. ASSUME NEW c \in Calls, StartProviderSend(c) PROVE UnsentInv'
  <2>1. journal.outcome # NoOutcome /\ UNCHANGED journal BY <1>10 DEF StartProviderSend, disk
  <2>2. \A d \in Calls : pc'[d] \notin {"claim_call", "claim_reply"} BY <1>10 DEF StartProviderSend,
        Goto
  <2> QED BY <2>1, <2>2
<1>11. ASSUME NEW c \in Calls, ReleaseGate(c) PROVE UnsentInv'
  <2>1. journal.outcome # NoOutcome /\ UNCHANGED journal BY <1>11 DEF ReleaseGate
  <2>2. \A d \in Calls : pc'[d] \notin {"claim_call", "claim_reply"} BY <1>11 DEF ReleaseGate, Goto
  <2> QED BY <2>1, <2>2
<1>12. ASSUME NEW c \in Calls, ProviderReturned(c) PROVE UnsentInv'
  <2>1. CASE pc' = [pc EXCEPT ![c] = "save_response"]
    BY <1>12, <2>1 DEF ProviderReturned, Goto, disk, local, world
  <2>2. CASE pc' = [pc EXCEPT ![c] = "save_outcome"] /\ UNCHANGED response
    BY <1>12, <2>2 DEF ProviderReturned, Goto, disk, local, world
  <2> QED BY <1>12, <2>1, <2>2 DEF ProviderReturned, Goto
<1>13. ASSUME NEW c \in Calls, WitnessFailed(c) PROVE UnsentInv'
  BY <1>13 DEF WitnessFailed, Attempted, Goto, Witnessed, disk, local, world
<1>14. ASSUME NEW c \in Calls, CollectWitness(c) PROVE UnsentInv'
  <2>1. CASE pc' = [pc EXCEPT ![c] = "save_response"]
    BY <1>14, <2>1 DEF CollectWitness, Goto, disk, local, world
  <2>2. CASE pc' = [pc EXCEPT ![c] = "save_outcome"] /\ UNCHANGED response
    BY <1>14, <2>2 DEF CollectWitness, Goto, disk, local, world
  <2> QED BY <1>14, <2>1, <2>2 DEF CollectWitness, Goto
<1>15. ASSUME NEW c \in Calls, SaveOutcome(c) PROVE UnsentInv'
  <2>1. OutcomeEffect(c) BY <1>15, SaveOutcomeWrites
  <2> QED BY <1>15, <2>1 DEF SaveOutcome, Goto, world, OutcomeEffect, Fields
<1>16. ASSUME NEW c \in Calls, FlushSave(c) \/ FlushFailed(c) PROVE UnsentInv'
  <2>0. /\ pc[c] = "flush_wait" /\ (End(c, "returned") \/ End(c, "pending"))
        /\ UNCHANGED <<approvalFile, responseFile, witness, sender, world>>
    BY <1>16 DEF FlushSave, FlushFailed
  <2>1. CASE UNCHANGED journal
    BY <2>0, <2>1 DEF End, Goto, world
  <2>2. CASE Accepted(c) /\ journal' = Completed(c)
    <3>1. CompleteEffect(c) BY <2>0, <2>2, CompletedWrites
    <3> QED BY <2>0, <2>2, <3>1 DEF End, Goto, world, CompleteEffect, Fields, Accepted
  <2> QED BY <1>16, <2>1, <2>2 DEF FlushSave, FlushFailed
<1>17. ASSUME NEW c \in Calls, Raise(c) PROVE UnsentInv'
  BY <1>17 DEF Raise, End, Goto, disk, local, world
<1>18. ASSUME NEW c \in Calls, Stop(c) PROVE UnsentInv'
  <2>1. CASE UNCHANGED sender
    BY <1>18, <2>1 DEF Stop, End, Goto, disk, world
  <2>2. CASE sender' = [sender EXCEPT ![c] = DeadSender]
    BY <1>18, <2>2 DEF Stop, End, Goto, disk, world
  <2> QED BY <1>18, <2>1, <2>2 DEF Stop
<1>19. ASSUME NEW c \in Calls,
             NativeStart(c) \/ NativeReady(c) \/ NativeReleased(c) \/ Send(c) \/
             ProviderResponds(c) \/ NativeProves(c) \/ SenderFails(c)
      PROVE  UnsentInv'
  BY <1>19 DEF NativeStart, SenderAt, NativeReady, NativeReleased, Send, Live, ProviderResponds,
     NativeProves, SenderFails, disk, local, world
<1>20. ASSUME NEW a \in Approvals, Expire(a) PROVE UnsentInv'
  BY <1>20 DEF Expire, disk, local
<1>21. ASSUME NEW o \in net, RecordOutcome(o) PROVE UnsentInv'
  BY <1>21 DEF RecordOutcome, disk, local
<1>22. CASE UNCHANGED vars BY <1>22 DEF vars
<1> QED BY <1>1, <1>2, <1>3, <1>4, <1>5, <1>6, <1>7, <1>8, <1>9, <1>10, <1>11, <1>12, <1>13,
   <1>14, <1>15, <1>16, <1>17, <1>18, <1>19, <1>20, <1>21, <1>22 DEF Next, CallStep, SenderStep

\* One child owns the witness directory, and the gate follows the record.
LEMMA WitnessInvStep == IInv /\ [Next]_vars => WitnessInv'
<1> SUFFICES ASSUME IInv, [Next]_vars PROVE WitnessInv' OBVIOUS
<1>0. TypeOK /\ LockInv /\ PrepareInv /\ BeforeInv /\ ApprovalInv /\ AfterInv /\ UnsentInv /\
      WitnessInv BY DEF IInv
<1> USE <1>0, ConstantsAssumption DEF TypeOK, LockInv, PrepareInv, BeforeInv, ApprovalInv,
   AfterInv, UnsentInv, WitnessInv, ActiveSteps, EndSteps, LockedSteps, BeforeAttempt,
   AfterAttempt, FlushSteps, Unsent, Released, NoSender, DeadSender, WitnessFiles, Senders,
   SenderSteps
<1>1. ASSUME NEW c \in Calls, NEW r \in Requests, Execute(c, r) PROVE WitnessInv'
  <2>1. ExecuteEffect BY <1>1, ExecuteWrites
  <2> QED BY <1>1, <2>1 DEF Execute, Goto, world, ExecuteEffect, Fields
<1>2. ASSUME NEW c \in Calls, NEW r \in Requests, Continue(c, r) PROVE WitnessInv'
  BY <1>2 DEF Continue, Goto, disk, local, world
<1>3. ASSUME NEW c \in Calls,
             Flush(c) \/ LockPrepared(c) \/ ValidateApproval(c) \/ WitnessReady(c) \/
             ClaimDispatch(c) \/ NativeReturned(c) \/ SaveResponse(c) \/ FlushRead(c)
      PROVE  WitnessInv'
  BY <1>3 DEF Flush, Goto, LockPrepared, ValidateApproval, Witnessed, Acceptable, Live,
     WitnessReady, Ready, ClaimDispatch, NativeReturned, SaveResponse, FlushRead, disk, local,
     world
<1>4. ASSUME NEW c \in Calls, Refused(c) \/ Raise(c) \/ Stop(c) PROVE WitnessInv'
  BY <1>4 DEF Refused, End, Goto, Raise, Stop, Dead, disk, local, world
<1>5. ASSUME NEW c \in Calls, SavePrepared(c) PROVE WitnessInv'
  <2>1. PreparedEffect(c) BY <1>5, SavePreparedWrites
  <2> QED BY <1>5, <2>1 DEF SavePrepared, Goto, world, PreparedEffect, Fields
<1>6. ASSUME NEW c \in Calls, PrepareReplied(c) \/ ContinueReplied(c) PROVE WitnessInv'
  <2>0. pc[c] \in {"prepare", "continue"} /\ UNCHANGED <<approvalFile, responseFile, witness,
        sender, world>>
    BY <1>6 DEF PrepareReplied, ContinueReplied
  <2>1. ASSUME NEW p \in {"authorized", "continuing"}, Approved(c, p),
               p = "continuing" => pc[c] = "continue"
        PROVE  WitnessInv'
    <3>1. ApprovedEffect(c, p) BY <2>0, <2>1, ApprovedWrites
    <3> QED BY <2>0, <2>1, <3>1 DEF Approved, Goto, world, ApprovedEffect, Fields
  <2>2. CASE NotApproved(c)
    <3>1. NotApprovedEffect(c) BY <2>0, <2>2, NotApprovedWrites
    <3> QED BY <2>0, <3>1 DEF End, Goto, world, NotApprovedEffect
  <2> QED BY <1>6, <2>1, <2>2 DEF PrepareReplied, ContinueReplied
<1>7. ASSUME NEW c \in Calls, ContinueSave(c) PROVE WitnessInv'
  <2>1. ContinueEffect(c) BY <1>7, ContinueSaveWrites
  <2> QED BY <1>7, <2>1 DEF ContinueSave, Goto, world, ContinueEffect, Fields
<1>8. ASSUME NEW c \in Calls, SpawnWitness(c) PROVE WitnessInv'
  BY <1>8 DEF SpawnWitness, Goto, disk, local, world
<1>9. ASSUME NEW c \in Calls, Attempt(c) PROVE WitnessInv'
  <2>1. AttemptEffect(c) BY <1>9, AttemptWrites
  <2> QED BY <1>9, <2>1 DEF Attempt, Goto, world, Live, AttemptEffect, Fields
<1>10. ASSUME NEW c \in Calls, StartProviderSend(c) PROVE WitnessInv'
  <2>1. /\ sender'[c] = [st |-> "connecting", approval |-> approval[c], req |-> arg[c]]
        /\ \A d \in Calls \ {c} : sender'[d] = sender[d]
        /\ UNCHANGED <<journal, witness>> /\ pc[c] = "claim_reply"
    BY <1>10 DEF StartProviderSend, disk
  <2>5. /\ arg[c] = journal.req /\ approval[c].req = arg[c]
        /\ arg[c] \in WitnessedRequests => approval[c].mode = "witnessed"
    BY <2>1
  <2>2. /\ sender'[c].st = "connecting" /\ sender'[c].req = arg[c]
        /\ sender'[c].approval = approval[c]
    BY <2>1
  <2> HIDE DEF Senders, WitnessFiles, NoSender, DeadSender
  <2>3. witness'.gate # None => journal'.outcome.approval = witness'.gate BY <2>1
  <2>4. witness'.dir = None => witness'.ready = None BY <2>1
  <2> QED BY <2>1, <2>2, <2>3, <2>4, <2>5
<1>11. ASSUME NEW c \in Calls, ReleaseGate(c) PROVE WitnessInv'
  BY <1>11 DEF ReleaseGate, Goto, Witnessed, Live, disk, local, world
<1>12. ASSUME NEW c \in Calls, ProviderReturned(c) PROVE WitnessInv'
  <2>1. CASE pc' = [pc EXCEPT ![c] = "save_response"]
    BY <1>12, <2>1 DEF ProviderReturned, Goto, disk, local, world
  <2>2. CASE pc' = [pc EXCEPT ![c] = "save_outcome"] /\ UNCHANGED response
    BY <1>12, <2>2 DEF ProviderReturned, Goto, disk, local, world
  <2> QED BY <1>12, <2>1, <2>2 DEF ProviderReturned, Goto
<1>13. ASSUME NEW c \in Calls, WitnessFailed(c) PROVE WitnessInv'
  BY <1>13 DEF WitnessFailed, Attempted, Goto, Witnessed, disk, local, world
<1>14. ASSUME NEW c \in Calls, CollectWitness(c) PROVE WitnessInv'
  <2>1. CASE pc' = [pc EXCEPT ![c] = "save_response"]
    BY <1>14, <2>1 DEF CollectWitness, Goto, disk, local, world
  <2>2. CASE pc' = [pc EXCEPT ![c] = "save_outcome"] /\ UNCHANGED response
    BY <1>14, <2>2 DEF CollectWitness, Goto, disk, local, world
  <2> QED BY <1>14, <2>1, <2>2 DEF CollectWitness, Goto
<1>15. ASSUME NEW c \in Calls, SaveOutcome(c) PROVE WitnessInv'
  <2>1. OutcomeEffect(c) BY <1>15, SaveOutcomeWrites
  <2> QED BY <1>15, <2>1 DEF SaveOutcome, Goto, world, OutcomeEffect, Fields
<1>16. ASSUME NEW c \in Calls, FlushSave(c) \/ FlushFailed(c) PROVE WitnessInv'
  <2>0. /\ pc[c] = "flush_wait" /\ (End(c, "returned") \/ End(c, "pending"))
        /\ UNCHANGED <<approvalFile, responseFile, witness, sender, world>>
    BY <1>16 DEF FlushSave, FlushFailed
  <2>1. CASE UNCHANGED journal
    BY <2>0, <2>1 DEF End, Goto, world
  <2>2. CASE Accepted(c) /\ journal' = Completed(c)
    <3>1. CompleteEffect(c) BY <2>0, <2>2, CompletedWrites
    <3> QED BY <2>0, <2>2, <3>1 DEF End, Goto, world, CompleteEffect, Fields, Accepted
  <2> QED BY <1>16, <2>1, <2>2 DEF FlushSave, FlushFailed
<1>17. ASSUME NEW c \in Calls,
             NativeStart(c) \/ NativeReady(c) \/ NativeReleased(c) \/ Send(c) \/
             ProviderResponds(c) \/ NativeProves(c) \/ SenderFails(c)
      PROVE  WitnessInv'
  BY <1>17 DEF NativeStart, SenderAt, NativeReady, NativeReleased, Send, Live, ProviderResponds,
     NativeProves, SenderFails, disk, local, world
<1>18. ASSUME NEW a \in Approvals, Expire(a) PROVE WitnessInv'
  BY <1>18 DEF Expire, disk, local
<1>19. ASSUME NEW o \in net, RecordOutcome(o) PROVE WitnessInv'
  BY <1>19 DEF RecordOutcome, disk, local
<1>20. CASE UNCHANGED vars BY <1>20 DEF vars
<1> QED BY <1>1, <1>2, <1>3, <1>4, <1>5, <1>6, <1>7, <1>8, <1>9, <1>10, <1>11, <1>12, <1>13,
   <1>14, <1>15, <1>16, <1>17, <1>18, <1>19, <1>20 DEF Next, CallStep, SenderStep

\* There is one released sender at a time, and none after a send.
LEMMA ReleasedInvStep == IInv /\ [Next]_vars => ReleasedInv'
<1> SUFFICES ASSUME IInv, [Next]_vars PROVE ReleasedInv' OBVIOUS
<1>0. TypeOK /\ LockInv /\ PrepareInv /\ BeforeInv /\ ApprovalInv /\ AfterInv /\ UnsentInv /\
      WitnessInv /\ ReleasedInv /\ SentInv BY DEF IInv
<1> USE <1>0, ConstantsAssumption DEF TypeOK, LockInv, PrepareInv, BeforeInv, ApprovalInv,
   AfterInv, UnsentInv, WitnessInv, ReleasedInv, SentInv, ActiveSteps, EndSteps, LockedSteps,
   BeforeAttempt, AfterAttempt, FlushSteps, Unsent, Released, NoSender, DeadSender,
   WitnessFiles, Senders, SenderSteps
<1>1. ASSUME NEW c \in Calls, NEW r \in Requests, Execute(c, r) PROVE ReleasedInv'
  <2>1. ExecuteEffect BY <1>1, ExecuteWrites
  <2> QED BY <1>1, <2>1 DEF Execute, Goto, world, ExecuteEffect, Fields
<1>2. ASSUME NEW c \in Calls, NEW r \in Requests, Continue(c, r) PROVE ReleasedInv'
  BY <1>2 DEF Continue, Goto, disk, local, world
<1>3. ASSUME NEW c \in Calls,
             Flush(c) \/ LockPrepared(c) \/ ValidateApproval(c) \/ WitnessReady(c) \/
             ClaimDispatch(c) \/ NativeReturned(c) \/ SaveResponse(c) \/ FlushRead(c)
      PROVE  ReleasedInv'
  BY <1>3 DEF Flush, Goto, LockPrepared, ValidateApproval, Witnessed, Acceptable, Live,
     WitnessReady, Ready, ClaimDispatch, NativeReturned, SaveResponse, FlushRead, disk, local,
     world
<1>4. ASSUME NEW c \in Calls, Refused(c) PROVE ReleasedInv'
  BY <1>4 DEF Refused, End, Goto, disk, local, world
<1>5. ASSUME NEW c \in Calls, SavePrepared(c) PROVE ReleasedInv'
  <2>1. PreparedEffect(c) BY <1>5, SavePreparedWrites
  <2> QED BY <1>5, <2>1 DEF SavePrepared, Goto, world, PreparedEffect, Fields
<1>6. ASSUME NEW c \in Calls, PrepareReplied(c) \/ ContinueReplied(c) PROVE ReleasedInv'
  <2>0. pc[c] \in {"prepare", "continue"} /\ UNCHANGED <<approvalFile, responseFile, witness,
        sender, world>>
    BY <1>6 DEF PrepareReplied, ContinueReplied
  <2>1. ASSUME NEW p \in {"authorized", "continuing"}, Approved(c, p),
               p = "continuing" => pc[c] = "continue"
        PROVE  ReleasedInv'
    <3>1. ApprovedEffect(c, p) BY <2>0, <2>1, ApprovedWrites
    <3> QED BY <2>0, <2>1, <3>1 DEF Approved, Goto, world, ApprovedEffect, Fields
  <2>2. CASE NotApproved(c)
    <3>1. NotApprovedEffect(c) BY <2>0, <2>2, NotApprovedWrites
    <3> QED BY <2>0, <3>1 DEF End, Goto, world, NotApprovedEffect
  <2> QED BY <1>6, <2>1, <2>2 DEF PrepareReplied, ContinueReplied
<1>7. ASSUME NEW c \in Calls, ContinueSave(c) PROVE ReleasedInv'
  <2>1. ContinueEffect(c) BY <1>7, ContinueSaveWrites
  <2> QED BY <1>7, <2>1 DEF ContinueSave, Goto, world, ContinueEffect, Fields
<1>8. ASSUME NEW c \in Calls, SpawnWitness(c) PROVE ReleasedInv'
  BY <1>8 DEF SpawnWitness, Goto, disk, local, world
<1>9. ASSUME NEW c \in Calls, Attempt(c) PROVE ReleasedInv'
  <2>1. AttemptEffect(c) BY <1>9, AttemptWrites
  <2> QED BY <1>9, <2>1 DEF Attempt, Goto, world, Live, AttemptEffect, Fields
<1>10. ASSUME NEW c \in Calls, StartProviderSend(c) PROVE ReleasedInv'
  <2>1. /\ sender'[c] = [st |-> "connecting", approval |-> approval[c], req |-> arg[c]]
        /\ \A d \in Calls \ {c} : sender'[d] = sender[d]
        /\ UNCHANGED <<journal, witness, sent>> /\ pc[c] = "claim_reply" /\ approval[c].mode #
           "witnessed"
    BY <1>10 DEF StartProviderSend, disk, world, Witnessed
  <2>2. Unsent /\ journal.outcome.approval = approval[c] BY <2>1
  <2>3. sender'[c].st = "connecting" /\ sender'[c].approval = approval[c] BY <2>1
  <2> HIDE DEF Senders, WitnessFiles, NoSender, DeadSender
  <2> QED BY <2>1, <2>2, <2>3
<1>11. ASSUME NEW c \in Calls, ReleaseGate(c) PROVE ReleasedInv'
  BY <1>11 DEF ReleaseGate, Goto, Witnessed, Live, disk, local, world
<1>12. ASSUME NEW c \in Calls, ProviderReturned(c) PROVE ReleasedInv'
  <2>1. CASE pc' = [pc EXCEPT ![c] = "save_response"]
    BY <1>12, <2>1 DEF ProviderReturned, Goto, disk, local, world
  <2>2. CASE pc' = [pc EXCEPT ![c] = "save_outcome"] /\ UNCHANGED response
    BY <1>12, <2>2 DEF ProviderReturned, Goto, disk, local, world
  <2> QED BY <1>12, <2>1, <2>2 DEF ProviderReturned, Goto
<1>13. ASSUME NEW c \in Calls, WitnessFailed(c) PROVE ReleasedInv'
  BY <1>13 DEF WitnessFailed, Attempted, Goto, Witnessed, disk, local, world
<1>14. ASSUME NEW c \in Calls, CollectWitness(c) PROVE ReleasedInv'
  <2>1. CASE pc' = [pc EXCEPT ![c] = "save_response"]
    BY <1>14, <2>1 DEF CollectWitness, Goto, disk, local, world
  <2>2. CASE pc' = [pc EXCEPT ![c] = "save_outcome"] /\ UNCHANGED response
    BY <1>14, <2>2 DEF CollectWitness, Goto, disk, local, world
  <2> QED BY <1>14, <2>1, <2>2 DEF CollectWitness, Goto
<1>15. ASSUME NEW c \in Calls, SaveOutcome(c) PROVE ReleasedInv'
  <2>1. OutcomeEffect(c) BY <1>15, SaveOutcomeWrites
  <2> QED BY <1>15, <2>1 DEF SaveOutcome, Goto, world, OutcomeEffect, Fields
<1>16. ASSUME NEW c \in Calls, FlushSave(c) \/ FlushFailed(c) PROVE ReleasedInv'
  <2>0. /\ pc[c] = "flush_wait" /\ (End(c, "returned") \/ End(c, "pending"))
        /\ UNCHANGED <<approvalFile, responseFile, witness, sender, world>>
    BY <1>16 DEF FlushSave, FlushFailed
  <2>1. CASE UNCHANGED journal
    BY <2>0, <2>1 DEF End, Goto, world
  <2>2. CASE Accepted(c) /\ journal' = Completed(c)
    <3>1. CompleteEffect(c) BY <2>0, <2>2, CompletedWrites
    <3> QED BY <2>0, <2>2, <3>1 DEF End, Goto, world, CompleteEffect, Fields, Accepted
  <2> QED BY <1>16, <2>1, <2>2 DEF FlushSave, FlushFailed
<1>17. ASSUME NEW c \in Calls, Raise(c) PROVE ReleasedInv'
  BY <1>17 DEF Raise, End, Goto, disk, local, world
<1>18. ASSUME NEW c \in Calls, Stop(c) PROVE ReleasedInv'
  <2>1. CASE UNCHANGED sender
    BY <1>18, <2>1 DEF Stop, End, Goto, disk, world
  <2>2. CASE sender' = [sender EXCEPT ![c] = DeadSender]
    BY <1>18, <2>2 DEF Stop, End, Goto, disk, world
  <2> QED BY <1>18, <2>1, <2>2 DEF Stop
<1>19. ASSUME NEW c \in Calls, NativeStart(c) PROVE ReleasedInv'
  <2>1. CASE witness.dir = None
    <3>1. SenderAt(c, "preparing") /\ sender[c].st = "starting" BY <1>19, <2>1 DEF NativeStart
    <3>2. /\ sender'[c].st = "preparing" /\ sender'[c].approval = sender[c].approval
          /\ sender'[c].req = sender[c].req
          /\ \A d \in Calls \ {c} : sender'[d] = sender[d]
      BY <3>1, SenderMoves DEF SenderSteps
    <3>3. /\ witness'.dir = c /\ witness'.ready = witness.ready
          /\ witness'.gate = witness.gate /\ witness'.response = witness.response
      BY <1>19, <2>1 DEF NativeStart, WitnessFiles
    <3>4. UNCHANGED <<journal, pc, sent, expired, deadClaims>> BY <1>19 DEF NativeStart, world
    <3> HIDE DEF Senders, WitnessFiles, NoSender, DeadSender
    <3> QED BY <2>1, <3>1, <3>2, <3>3, <3>4
  <2>2. CASE witness.dir # None
    BY <1>19, <2>2 DEF NativeStart, local, world
  <2> QED BY <2>1, <2>2
<1>20. ASSUME NEW c \in Calls, NativeReady(c) PROVE ReleasedInv'
  BY <1>20 DEF NativeReady, SenderAt, disk, local, world
<1>21. ASSUME NEW c \in Calls, NativeReleased(c) PROVE ReleasedInv'
  BY <1>21 DEF NativeReleased, SenderAt, disk, local, world
<1>22. ASSUME NEW c \in Calls, Send(c) PROVE ReleasedInv'
  <2>1. SenderAt(c, "sent") /\ sender[c].st = "connecting" /\ UNCHANGED <<journal, witness>> /\
        sent' # {}
    BY <1>22 DEF Send, disk
  <2>2. /\ sender'[c].st = "sent" /\ sender'[c].approval = sender[c].approval
        /\ \A d \in Calls \ {c} : sender'[d] = sender[d]
    BY <2>1, SenderMoves DEF SenderSteps
  <2>3. sent = {} BY <2>1
  <2>4. \A d \in Calls \ {c} : sender[d].st \notin Released BY <2>1, <2>3
  <2> HIDE DEF Senders, WitnessFiles, NoSender, DeadSender
  <2> QED BY <2>1, <2>2, <2>4
<1>23. ASSUME NEW c \in Calls, ProviderResponds(c) PROVE ReleasedInv'
  BY <1>23 DEF ProviderResponds, SenderAt, disk, local, world
<1>24. ASSUME NEW c \in Calls, NativeProves(c) PROVE ReleasedInv'
  BY <1>24 DEF NativeProves, SenderAt, disk, local, world
<1>25. ASSUME NEW c \in Calls, SenderFails(c) PROVE ReleasedInv'
  BY <1>25 DEF SenderFails, disk, local, world
<1>26. ASSUME NEW a \in Approvals, Expire(a) PROVE ReleasedInv'
  BY <1>26 DEF Expire, disk, local
<1>27. ASSUME NEW o \in net, RecordOutcome(o) PROVE ReleasedInv'
  BY <1>27 DEF RecordOutcome, disk, local
<1>28. CASE UNCHANGED vars BY <1>28 DEF vars
<1> QED BY <1>1, <1>2, <1>3, <1>4, <1>5, <1>6, <1>7, <1>8, <1>9, <1>10, <1>11, <1>12, <1>13,
   <1>14, <1>15, <1>16, <1>17, <1>18, <1>19, <1>20, <1>21, <1>22, <1>23, <1>24, <1>25, <1>26,
   <1>27, <1>28 DEF Next, CallStep, SenderStep

\* One request leaves, under the approval on record.
LEMMA SentInvStep == IInv /\ [Next]_vars => SentInv'
<1> SUFFICES ASSUME IInv, [Next]_vars PROVE SentInv' OBVIOUS
<1>0. TypeOK /\ LockInv /\ PrepareInv /\ BeforeInv /\ ApprovalInv /\ AfterInv /\ UnsentInv /\
      WitnessInv /\ ReleasedInv /\ SentInv BY DEF IInv
<1> USE <1>0, ConstantsAssumption DEF TypeOK, LockInv, PrepareInv, BeforeInv, ApprovalInv,
   AfterInv, UnsentInv, WitnessInv, ReleasedInv, SentInv, ActiveSteps, EndSteps, LockedSteps,
   BeforeAttempt, AfterAttempt, FlushSteps, Unsent, Released, NoSender, DeadSender,
   WitnessFiles, Senders, SenderSteps
<1>1. ASSUME NEW c \in Calls, NEW r \in Requests, Execute(c, r) PROVE SentInv'
  <2>1. ExecuteEffect BY <1>1, ExecuteWrites
  <2> QED BY <1>1, <2>1 DEF Execute, Goto, world, ExecuteEffect, Fields
<1>2. ASSUME NEW c \in Calls, NEW r \in Requests, Continue(c, r) PROVE SentInv'
  BY <1>2 DEF Continue, Goto, disk, local, world
<1>3. ASSUME NEW c \in Calls,
             Flush(c) \/ LockPrepared(c) \/ ValidateApproval(c) \/ WitnessReady(c) \/
             ClaimDispatch(c) \/ NativeReturned(c) \/ SaveResponse(c) \/ FlushRead(c)
      PROVE  SentInv'
  BY <1>3 DEF Flush, Goto, LockPrepared, ValidateApproval, Witnessed, Acceptable, Live,
     WitnessReady, Ready, ClaimDispatch, NativeReturned, SaveResponse, FlushRead, disk, local,
     world
<1>4. ASSUME NEW c \in Calls, Refused(c) PROVE SentInv'
  BY <1>4 DEF Refused, End, Goto, disk, local, world
<1>5. ASSUME NEW c \in Calls, SavePrepared(c) PROVE SentInv'
  <2>1. PreparedEffect(c) BY <1>5, SavePreparedWrites
  <2> QED BY <1>5, <2>1 DEF SavePrepared, Goto, world, PreparedEffect, Fields
<1>6. ASSUME NEW c \in Calls, PrepareReplied(c) \/ ContinueReplied(c) PROVE SentInv'
  <2>0. pc[c] \in {"prepare", "continue"} /\ UNCHANGED <<approvalFile, responseFile, witness,
        sender, world>>
    BY <1>6 DEF PrepareReplied, ContinueReplied
  <2>1. ASSUME NEW p \in {"authorized", "continuing"}, Approved(c, p),
               p = "continuing" => pc[c] = "continue"
        PROVE  SentInv'
    <3>1. ApprovedEffect(c, p) BY <2>0, <2>1, ApprovedWrites
    <3> QED BY <2>0, <2>1, <3>1 DEF Approved, Goto, world, ApprovedEffect, Fields
  <2>2. CASE NotApproved(c)
    <3>1. NotApprovedEffect(c) BY <2>0, <2>2, NotApprovedWrites
    <3> QED BY <2>0, <3>1 DEF End, Goto, world, NotApprovedEffect
  <2> QED BY <1>6, <2>1, <2>2 DEF PrepareReplied, ContinueReplied
<1>7. ASSUME NEW c \in Calls, ContinueSave(c) PROVE SentInv'
  <2>1. ContinueEffect(c) BY <1>7, ContinueSaveWrites
  <2> QED BY <1>7, <2>1 DEF ContinueSave, Goto, world, ContinueEffect, Fields
<1>8. ASSUME NEW c \in Calls, SpawnWitness(c) PROVE SentInv'
  BY <1>8 DEF SpawnWitness, Goto, disk, local, world
<1>9. ASSUME NEW c \in Calls, Attempt(c) PROVE SentInv'
  <2>1. AttemptEffect(c) BY <1>9, AttemptWrites
  <2> QED BY <1>9, <2>1 DEF Attempt, Goto, world, Live, AttemptEffect, Fields
<1>10. ASSUME NEW c \in Calls, StartProviderSend(c) PROVE SentInv'
  BY <1>10 DEF StartProviderSend, Goto, Witnessed, Live, disk, local, world
<1>11. ASSUME NEW c \in Calls, ReleaseGate(c) PROVE SentInv'
  BY <1>11 DEF ReleaseGate, Goto, Witnessed, Live, disk, local, world
<1>12. ASSUME NEW c \in Calls, ProviderReturned(c) PROVE SentInv'
  <2>1. CASE pc' = [pc EXCEPT ![c] = "save_response"]
    BY <1>12, <2>1 DEF ProviderReturned, Goto, disk, local, world
  <2>2. CASE pc' = [pc EXCEPT ![c] = "save_outcome"] /\ UNCHANGED response
    BY <1>12, <2>2 DEF ProviderReturned, Goto, disk, local, world
  <2> QED BY <1>12, <2>1, <2>2 DEF ProviderReturned, Goto
<1>13. ASSUME NEW c \in Calls, WitnessFailed(c) PROVE SentInv'
  BY <1>13 DEF WitnessFailed, Attempted, Goto, Witnessed, disk, local, world
<1>14. ASSUME NEW c \in Calls, CollectWitness(c) PROVE SentInv'
  <2>1. CASE pc' = [pc EXCEPT ![c] = "save_response"]
    BY <1>14, <2>1 DEF CollectWitness, Goto, disk, local, world
  <2>2. CASE pc' = [pc EXCEPT ![c] = "save_outcome"] /\ UNCHANGED response
    BY <1>14, <2>2 DEF CollectWitness, Goto, disk, local, world
  <2> QED BY <1>14, <2>1, <2>2 DEF CollectWitness, Goto
<1>15. ASSUME NEW c \in Calls, SaveOutcome(c) PROVE SentInv'
  <2>1. OutcomeEffect(c) BY <1>15, SaveOutcomeWrites
  <2> QED BY <1>15, <2>1 DEF SaveOutcome, Goto, world, OutcomeEffect, Fields
<1>16. ASSUME NEW c \in Calls, FlushSave(c) \/ FlushFailed(c) PROVE SentInv'
  <2>0. /\ pc[c] = "flush_wait" /\ (End(c, "returned") \/ End(c, "pending"))
        /\ UNCHANGED <<approvalFile, responseFile, witness, sender, world>>
    BY <1>16 DEF FlushSave, FlushFailed
  <2>1. CASE UNCHANGED journal
    BY <2>0, <2>1 DEF End, Goto, world
  <2>2. CASE Accepted(c) /\ journal' = Completed(c)
    <3>1. CompleteEffect(c) BY <2>0, <2>2, CompletedWrites
    <3> QED BY <2>0, <2>2, <3>1 DEF End, Goto, world, CompleteEffect, Fields, Accepted
  <2> QED BY <1>16, <2>1, <2>2 DEF FlushSave, FlushFailed
<1>17. ASSUME NEW c \in Calls, Raise(c) PROVE SentInv'
  BY <1>17 DEF Raise, End, Goto, disk, local, world
<1>18. ASSUME NEW c \in Calls, Stop(c) PROVE SentInv'
  <2>1. CASE UNCHANGED sender
    BY <1>18, <2>1 DEF Stop, End, Goto, disk, world
  <2>2. CASE sender' = [sender EXCEPT ![c] = DeadSender]
    BY <1>18, <2>2 DEF Stop, End, Goto, disk, world
  <2> QED BY <1>18, <2>1, <2>2 DEF Stop
<1>19. ASSUME NEW c \in Calls, NativeStart(c) PROVE SentInv'
  <2>1. CASE witness.dir = None
    <3>1. SenderAt(c, "preparing") /\ sender[c].st = "starting" BY <1>19, <2>1 DEF NativeStart
    <3>2. /\ sender'[c].st = "preparing" /\ sender'[c].approval = sender[c].approval
          /\ sender'[c].req = sender[c].req
          /\ \A d \in Calls \ {c} : sender'[d] = sender[d]
      BY <3>1, SenderMoves DEF SenderSteps
    <3>3. /\ witness'.dir = c /\ witness'.ready = witness.ready
          /\ witness'.gate = witness.gate /\ witness'.response = witness.response
      BY <1>19, <2>1 DEF NativeStart, WitnessFiles
    <3>4. UNCHANGED <<journal, pc, sent, expired, deadClaims>> BY <1>19 DEF NativeStart, world
    <3>5. \A s \in sent : s.approval.mode # "witnessed" BY <2>1 DEF SendRecords
    <3> HIDE DEF Senders, WitnessFiles, NoSender, DeadSender
    <3> QED BY <2>1, <3>1, <3>2, <3>3, <3>4, <3>5
  <2>2. CASE witness.dir # None
    BY <1>19, <2>2 DEF NativeStart, local, world
  <2> QED BY <2>1, <2>2
<1>20. ASSUME NEW c \in Calls, NativeReady(c) PROVE SentInv'
  BY <1>20 DEF NativeReady, SenderAt, disk, local, world
<1>21. ASSUME NEW c \in Calls, NativeReleased(c) PROVE SentInv'
  BY <1>21 DEF NativeReleased, SenderAt, disk, local, world
<1>22. ASSUME NEW c \in Calls, Send(c) PROVE SentInv'
  BY <1>22 DEF Send, SenderAt, Live, disk, local, world
<1>23. ASSUME NEW c \in Calls, ProviderResponds(c) PROVE SentInv'
  BY <1>23 DEF ProviderResponds, SenderAt, disk, local, world
<1>24. ASSUME NEW c \in Calls, NativeProves(c) PROVE SentInv'
  BY <1>24 DEF NativeProves, SenderAt, disk, local, world
<1>25. ASSUME NEW c \in Calls, SenderFails(c) PROVE SentInv'
  BY <1>25 DEF SenderFails, disk, local, world
<1>26. ASSUME NEW a \in Approvals, Expire(a) PROVE SentInv'
  BY <1>26 DEF Expire, disk, local
<1>27. ASSUME NEW o \in net, RecordOutcome(o) PROVE SentInv'
  BY <1>27 DEF RecordOutcome, disk, local
<1>28. CASE UNCHANGED vars BY <1>28 DEF vars
<1> QED BY <1>1, <1>2, <1>3, <1>4, <1>5, <1>6, <1>7, <1>8, <1>9, <1>10, <1>11, <1>12, <1>13,
   <1>14, <1>15, <1>16, <1>17, <1>18, <1>19, <1>20, <1>21, <1>22, <1>23, <1>24, <1>25, <1>26,
   <1>27, <1>28 DEF Next, CallStep, SenderStep

\* A response is known only after a send, and saved before it is reported.
LEMMA ResponseInvStep == IInv /\ [Next]_vars => ResponseInv'
<1> SUFFICES ASSUME IInv, [Next]_vars PROVE ResponseInv' OBVIOUS
<1>0. TypeOK /\ LockInv /\ BeforeInv /\ ApprovalInv /\ AfterInv /\ UnsentInv /\ ReleasedInv /\
      ResponseInv BY DEF IInv
<1> USE <1>0, ConstantsAssumption DEF TypeOK, LockInv, BeforeInv, ApprovalInv, AfterInv,
   UnsentInv, ReleasedInv, ResponseInv, ActiveSteps, EndSteps, LockedSteps, BeforeAttempt,
   AfterAttempt, FlushSteps, Observed, Released, Unsent, NoSender, DeadSender, WitnessFiles,
   Senders, SenderSteps, NoOutcome, NoJournal
<1>1. ASSUME NEW c \in Calls, NEW r \in Requests, Execute(c, r) PROVE ResponseInv'
  <2>1. ExecuteEffect BY <1>1, ExecuteWrites
  <2> QED BY <1>1, <2>1 DEF Execute, Goto, world, ExecuteEffect, Fields
<1>2. ASSUME NEW c \in Calls, NEW r \in Requests, Continue(c, r) PROVE ResponseInv'
  BY <1>2 DEF Continue, Goto, disk, local, world
<1>3. ASSUME NEW c \in Calls,
             Flush(c) \/ LockPrepared(c) \/ ValidateApproval(c) \/ WitnessReady(c) \/
             ClaimDispatch(c) \/ NativeReturned(c) \/ SaveResponse(c) \/ FlushRead(c)
      PROVE  ResponseInv'
  BY <1>3 DEF Flush, Goto, LockPrepared, ValidateApproval, Witnessed, Acceptable, Live,
     WitnessReady, Ready, ClaimDispatch, NativeReturned, SaveResponse, FlushRead, disk, local,
     world
<1>4. ASSUME NEW c \in Calls, Refused(c) \/ Raise(c) \/ Stop(c) PROVE ResponseInv'
  BY <1>4 DEF Refused, End, Goto, Raise, Stop, Dead, disk, local, world
<1>5. ASSUME NEW c \in Calls, SavePrepared(c) PROVE ResponseInv'
  <2>1. PreparedEffect(c) BY <1>5, SavePreparedWrites
  <2> QED BY <1>5, <2>1 DEF SavePrepared, Goto, world, PreparedEffect, Fields
<1>6. ASSUME NEW c \in Calls, PrepareReplied(c) \/ ContinueReplied(c) PROVE ResponseInv'
  <2>0. pc[c] \in {"prepare", "continue"} /\ UNCHANGED <<approvalFile, responseFile, witness,
        sender, world>>
    BY <1>6 DEF PrepareReplied, ContinueReplied
  <2>1. ASSUME NEW p \in {"authorized", "continuing"}, Approved(c, p),
               p = "continuing" => pc[c] = "continue"
        PROVE  ResponseInv'
    <3>1. ApprovedEffect(c, p) BY <2>0, <2>1, ApprovedWrites
    <3> QED BY <2>0, <2>1, <3>1 DEF Approved, Goto, world, ApprovedEffect, Fields
  <2>2. CASE NotApproved(c)
    <3>1. NotApprovedEffect(c) BY <2>0, <2>2, NotApprovedWrites
    <3> QED BY <2>0, <3>1 DEF End, Goto, world, NotApprovedEffect
  <2> QED BY <1>6, <2>1, <2>2 DEF PrepareReplied, ContinueReplied
<1>7. ASSUME NEW c \in Calls, ContinueSave(c) PROVE ResponseInv'
  <2>1. ContinueEffect(c) BY <1>7, ContinueSaveWrites
  <2> QED BY <1>7, <2>1 DEF ContinueSave, Goto, world, ContinueEffect, Fields
<1>8. ASSUME NEW c \in Calls, SpawnWitness(c) PROVE ResponseInv'
  BY <1>8 DEF SpawnWitness, Goto, disk, local, world
<1>9. ASSUME NEW c \in Calls, Attempt(c) PROVE ResponseInv'
  <2>1. AttemptEffect(c) BY <1>9, AttemptWrites
  <2> QED BY <1>9, <2>1 DEF Attempt, Goto, world, Live, AttemptEffect, Fields
<1>10. ASSUME NEW c \in Calls, StartProviderSend(c) PROVE ResponseInv'
  BY <1>10 DEF StartProviderSend, Goto, Witnessed, Live, disk, local, world
<1>11. ASSUME NEW c \in Calls, ReleaseGate(c) PROVE ResponseInv'
  BY <1>11 DEF ReleaseGate, Goto, Witnessed, Live, disk, local, world
<1>12. ASSUME NEW c \in Calls, ProviderReturned(c) PROVE ResponseInv'
  <2>1. CASE pc' = [pc EXCEPT ![c] = "save_response"]
    BY <1>12, <2>1 DEF ProviderReturned, Goto, disk, local, world
  <2>2. CASE pc' = [pc EXCEPT ![c] = "save_outcome"] /\ UNCHANGED response
    BY <1>12, <2>2 DEF ProviderReturned, Goto, disk, local, world
  <2> QED BY <1>12, <2>1, <2>2 DEF ProviderReturned, Goto
<1>13. ASSUME NEW c \in Calls, WitnessFailed(c) PROVE ResponseInv'
  BY <1>13 DEF WitnessFailed, Attempted, Goto, Witnessed, disk, local, world
<1>14. ASSUME NEW c \in Calls, CollectWitness(c) PROVE ResponseInv'
  <2>1. CASE pc' = [pc EXCEPT ![c] = "save_response"]
    BY <1>14, <2>1 DEF CollectWitness, Goto, disk, local, world
  <2>2. CASE pc' = [pc EXCEPT ![c] = "save_outcome"] /\ UNCHANGED response
    BY <1>14, <2>2 DEF CollectWitness, Goto, disk, local, world
  <2> QED BY <1>14, <2>1, <2>2 DEF CollectWitness, Goto
<1>15. ASSUME NEW c \in Calls, SaveOutcome(c) PROVE ResponseInv'
  <2>1. OutcomeEffect(c) BY <1>15, SaveOutcomeWrites
  <2> QED BY <1>15, <2>1 DEF SaveOutcome, Goto, world, OutcomeEffect, Fields
<1>16. ASSUME NEW c \in Calls, FlushSave(c) \/ FlushFailed(c) PROVE ResponseInv'
  <2>0. /\ pc[c] = "flush_wait" /\ (End(c, "returned") \/ End(c, "pending"))
        /\ UNCHANGED <<approvalFile, responseFile, witness, sender, world>>
    BY <1>16 DEF FlushSave, FlushFailed
  <2>1. CASE UNCHANGED journal
    BY <2>0, <2>1 DEF End, Goto, world
  <2>2. CASE Accepted(c) /\ journal' = Completed(c)
    <3>1. CompleteEffect(c) BY <2>0, <2>2, CompletedWrites
    <3> QED BY <2>0, <2>2, <3>1 DEF End, Goto, world, CompleteEffect, Fields, Accepted
  <2> QED BY <1>16, <2>1, <2>2 DEF FlushSave, FlushFailed
<1>17. ASSUME NEW c \in Calls,
             NativeStart(c) \/ NativeReady(c) \/ NativeReleased(c) \/ Send(c) \/
             ProviderResponds(c) \/ NativeProves(c) \/ SenderFails(c)
      PROVE  ResponseInv'
  BY <1>17 DEF NativeStart, SenderAt, NativeReady, NativeReleased, Send, Live, ProviderResponds,
     NativeProves, SenderFails, disk, local, world
<1>18. ASSUME NEW a \in Approvals, Expire(a) PROVE ResponseInv'
  BY <1>18 DEF Expire, disk, local
<1>19. ASSUME NEW o \in net, RecordOutcome(o) PROVE ResponseInv'
  BY <1>19 DEF RecordOutcome, disk, local
<1>20. CASE UNCHANGED vars BY <1>20 DEF vars
<1> QED BY <1>1, <1>2, <1>3, <1>4, <1>5, <1>6, <1>7, <1>8, <1>9, <1>10, <1>11, <1>12, <1>13,
   <1>14, <1>15, <1>16, <1>17, <1>18, <1>19, <1>20 DEF Next, CallStep, SenderStep

\* Every report, queued, recorded or acknowledged, is about that approval.
LEMMA ReportInvStep == IInv /\ [Next]_vars => ReportInv'
<1> SUFFICES ASSUME IInv, [Next]_vars PROVE ReportInv' OBVIOUS
<1>0. TypeOK /\ JournalInv /\ BeforeInv /\ ApprovalInv /\ AfterInv /\ ReportInv BY DEF IInv
<1> USE <1>0, ConstantsAssumption DEF TypeOK, JournalInv, BeforeInv, ApprovalInv, AfterInv,
   ReportInv, ActiveSteps, EndSteps, LockedSteps, BeforeAttempt, AfterAttempt, FlushSteps,
   OpenPhases, NoOutcome
<1>1. ASSUME NEW c \in Calls, NEW r \in Requests, Execute(c, r) PROVE ReportInv'
  <2>1. ExecuteEffect BY <1>1, ExecuteWrites
  <2> QED BY <1>1, <2>1 DEF Execute, Goto, world, ExecuteEffect, Fields
<1>2. ASSUME NEW c \in Calls, NEW r \in Requests, Continue(c, r) PROVE ReportInv'
  BY <1>2 DEF Continue, Goto, disk, local, world
<1>3. ASSUME NEW c \in Calls,
             Flush(c) \/ LockPrepared(c) \/ ValidateApproval(c) \/ WitnessReady(c) \/
             ClaimDispatch(c) \/ NativeReturned(c) \/ SaveResponse(c) \/ FlushRead(c)
      PROVE  ReportInv'
  BY <1>3 DEF Flush, Goto, LockPrepared, ValidateApproval, Witnessed, Acceptable, Live,
     WitnessReady, Ready, ClaimDispatch, NativeReturned, SaveResponse, FlushRead, disk, local,
     world
<1>4. ASSUME NEW c \in Calls, Refused(c) \/ Raise(c) \/ Stop(c) PROVE ReportInv'
  BY <1>4 DEF Refused, End, Goto, Raise, Stop, Dead, disk, local, world
<1>5. ASSUME NEW c \in Calls, SavePrepared(c) PROVE ReportInv'
  <2>1. PreparedEffect(c) BY <1>5, SavePreparedWrites
  <2> QED BY <1>5, <2>1 DEF SavePrepared, Goto, world, PreparedEffect, Fields
<1>6. ASSUME NEW c \in Calls, PrepareReplied(c) \/ ContinueReplied(c) PROVE ReportInv'
  <2>0. pc[c] \in {"prepare", "continue"} /\ UNCHANGED <<approvalFile, responseFile, witness,
        sender, world>>
    BY <1>6 DEF PrepareReplied, ContinueReplied
  <2>1. ASSUME NEW p \in {"authorized", "continuing"}, Approved(c, p),
               p = "continuing" => pc[c] = "continue"
        PROVE  ReportInv'
    <3>1. ApprovedEffect(c, p) BY <2>0, <2>1, ApprovedWrites
    <3> QED BY <2>0, <2>1, <3>1 DEF Approved, Goto, world, ApprovedEffect, Fields
  <2>2. CASE NotApproved(c)
    <3>1. NotApprovedEffect(c) BY <2>0, <2>2, NotApprovedWrites
    <3> QED BY <2>0, <3>1 DEF End, Goto, world, NotApprovedEffect
  <2> QED BY <1>6, <2>1, <2>2 DEF PrepareReplied, ContinueReplied
<1>7. ASSUME NEW c \in Calls, ContinueSave(c) PROVE ReportInv'
  <2>1. ContinueEffect(c) BY <1>7, ContinueSaveWrites
  <2> QED BY <1>7, <2>1 DEF ContinueSave, Goto, world, ContinueEffect, Fields
<1>8. ASSUME NEW c \in Calls,
             SpawnWitness(c) \/ StartProviderSend(c) \/ WitnessFailed(c) \/ ProviderReturned(c)
             \/ CollectWitness(c)
      PROVE  ReportInv'
  BY <1>8 DEF SpawnWitness, Goto, StartProviderSend, Witnessed, Live, WitnessFailed, Limited, Attempted,
     ProviderReturned, CollectWitness, disk, local, world
<1>9. ASSUME NEW c \in Calls, Attempt(c) PROVE ReportInv'
  <2>1. AttemptEffect(c) BY <1>9, AttemptWrites
  <2> QED BY <1>9, <2>1 DEF Attempt, Goto, world, Live, AttemptEffect, Fields
<1>10. ASSUME NEW c \in Calls, ReleaseGate(c) PROVE ReportInv'
  BY <1>10 DEF ReleaseGate, Goto, Witnessed, Live, disk, local, world
<1>11. ASSUME NEW c \in Calls, SaveOutcome(c) PROVE ReportInv'
  <2>1. OutcomeEffect(c) BY <1>11, SaveOutcomeWrites
  <2> QED BY <1>11, <2>1 DEF SaveOutcome, Goto, world, OutcomeEffect, Fields
<1>12. ASSUME NEW c \in Calls, FlushSave(c) \/ FlushFailed(c) PROVE ReportInv'
  <2>0. /\ pc[c] = "flush_wait" /\ (End(c, "returned") \/ End(c, "pending"))
        /\ UNCHANGED <<approvalFile, responseFile, witness, sender, world>>
    BY <1>12 DEF FlushSave, FlushFailed
  <2>1. CASE UNCHANGED journal
    BY <2>0, <2>1 DEF End, Goto, world
  <2>2. CASE Accepted(c) /\ journal' = Completed(c)
    <3>1. CompleteEffect(c) BY <2>0, <2>2, CompletedWrites
    <3> QED BY <2>0, <2>2, <3>1 DEF End, Goto, world, CompleteEffect, Fields, Accepted
  <2> QED BY <1>12, <2>1, <2>2 DEF FlushSave, FlushFailed
<1>13. ASSUME NEW c \in Calls,
             NativeStart(c) \/ NativeReady(c) \/ NativeReleased(c) \/ Send(c) \/
             ProviderResponds(c) \/ NativeProves(c) \/ SenderFails(c)
      PROVE  ReportInv'
  BY <1>13 DEF NativeStart, SenderAt, NativeReady, NativeReleased, Send, Live, ProviderResponds,
     NativeProves, SenderFails, disk, local, world
<1>14. ASSUME NEW a \in Approvals, Expire(a) PROVE ReportInv'
  BY <1>14 DEF Expire, disk, local
<1>15. ASSUME NEW o \in net, RecordOutcome(o) PROVE ReportInv'
  BY <1>15 DEF RecordOutcome, disk, local
<1>16. CASE UNCHANGED vars BY <1>16 DEF vars
<1> QED BY <1>1, <1>2, <1>3, <1>4, <1>5, <1>6, <1>7, <1>8, <1>9, <1>10, <1>11, <1>12, <1>13,
   <1>14, <1>15, <1>16 DEF Next, CallStep, SenderStep

\* approval.json is not replaced once an attempt is on record.
LEMMA AttemptNamesSavedApprovalStep == IInv /\ [Next]_vars => AttemptNamesSavedApproval'
<1> SUFFICES ASSUME IInv, [Next]_vars PROVE AttemptNamesSavedApproval' OBVIOUS
<1>0. TypeOK /\ JournalInv /\ BeforeInv /\ ApprovalInv /\ AfterInv /\ AttemptNamesSavedApproval BY
      DEF IInv
<1> USE <1>0, ConstantsAssumption DEF TypeOK, JournalInv, BeforeInv, ApprovalInv, AfterInv,
   AttemptNamesSavedApproval, ActiveSteps, EndSteps, LockedSteps, BeforeAttempt, AfterAttempt,
   FlushSteps, OpenPhases
<1>1. ASSUME NEW c \in Calls, NEW r \in Requests, Execute(c, r) PROVE AttemptNamesSavedApproval'
  <2>1. ExecuteEffect BY <1>1, ExecuteWrites
  <2> QED BY <1>1, <2>1 DEF Execute, Goto, world, ExecuteEffect, Fields
<1>2. ASSUME NEW c \in Calls, NEW r \in Requests, Continue(c, r) PROVE AttemptNamesSavedApproval'
  BY <1>2 DEF Continue, Goto, disk, local, world
<1>3. ASSUME NEW c \in Calls,
             Flush(c) \/ LockPrepared(c) \/ ValidateApproval(c) \/ WitnessReady(c) \/
             ClaimDispatch(c) \/ NativeReturned(c) \/ SaveResponse(c) \/ FlushRead(c)
      PROVE  AttemptNamesSavedApproval'
  BY <1>3 DEF Flush, Goto, LockPrepared, ValidateApproval, Witnessed, Acceptable, Live,
     WitnessReady, Ready, ClaimDispatch, NativeReturned, SaveResponse, FlushRead, disk, local,
     world
<1>4. ASSUME NEW c \in Calls, Refused(c) \/ Raise(c) \/ Stop(c) PROVE AttemptNamesSavedApproval'
  BY <1>4 DEF Refused, End, Goto, Raise, Stop, Dead, disk, local, world
<1>5. ASSUME NEW c \in Calls, SavePrepared(c) PROVE AttemptNamesSavedApproval'
  <2>1. PreparedEffect(c) BY <1>5, SavePreparedWrites
  <2> QED BY <1>5, <2>1 DEF SavePrepared, Goto, world, PreparedEffect, Fields
<1>6. ASSUME NEW c \in Calls, PrepareReplied(c) \/ ContinueReplied(c) PROVE
      AttemptNamesSavedApproval'
  <2>0. pc[c] \in {"prepare", "continue"} /\ UNCHANGED <<approvalFile, responseFile, witness,
        sender, world>>
    BY <1>6 DEF PrepareReplied, ContinueReplied
  <2>1. ASSUME NEW p \in {"authorized", "continuing"}, Approved(c, p),
               p = "continuing" => pc[c] = "continue"
        PROVE  AttemptNamesSavedApproval'
    <3>1. ApprovedEffect(c, p) BY <2>0, <2>1, ApprovedWrites
    <3> QED BY <2>0, <2>1, <3>1 DEF Approved, Goto, world, ApprovedEffect, Fields
  <2>2. CASE NotApproved(c)
    <3>1. NotApprovedEffect(c) BY <2>0, <2>2, NotApprovedWrites
    <3> QED BY <2>0, <3>1 DEF End, Goto, world, NotApprovedEffect
  <2> QED BY <1>6, <2>1, <2>2 DEF PrepareReplied, ContinueReplied
<1>7. ASSUME NEW c \in Calls, ContinueSave(c) PROVE AttemptNamesSavedApproval'
  <2>1. ContinueEffect(c) BY <1>7, ContinueSaveWrites
  <2> QED BY <1>7, <2>1 DEF ContinueSave, Goto, world, ContinueEffect, Fields
<1>8. ASSUME NEW c \in Calls,
             SpawnWitness(c) \/ StartProviderSend(c) \/ WitnessFailed(c) \/ ProviderReturned(c)
             \/ CollectWitness(c)
      PROVE  AttemptNamesSavedApproval'
  BY <1>8 DEF SpawnWitness, Goto, StartProviderSend, Witnessed, Live, WitnessFailed, Limited, Attempted,
     ProviderReturned, CollectWitness, disk, local, world
<1>9. ASSUME NEW c \in Calls, Attempt(c) PROVE AttemptNamesSavedApproval'
  <2>1. AttemptEffect(c) BY <1>9, AttemptWrites
  <2> QED BY <1>9, <2>1 DEF Attempt, Goto, world, Live, AttemptEffect, Fields
<1>10. ASSUME NEW c \in Calls, ReleaseGate(c) PROVE AttemptNamesSavedApproval'
  BY <1>10 DEF ReleaseGate, Goto, Witnessed, Live, disk, local, world
<1>11. ASSUME NEW c \in Calls, SaveOutcome(c) PROVE AttemptNamesSavedApproval'
  <2>1. OutcomeEffect(c) BY <1>11, SaveOutcomeWrites
  <2> QED BY <1>11, <2>1 DEF SaveOutcome, Goto, world, OutcomeEffect, Fields
<1>12. ASSUME NEW c \in Calls, FlushSave(c) \/ FlushFailed(c) PROVE AttemptNamesSavedApproval'
  <2>0. /\ pc[c] = "flush_wait" /\ (End(c, "returned") \/ End(c, "pending"))
        /\ UNCHANGED <<approvalFile, responseFile, witness, sender, world>>
    BY <1>12 DEF FlushSave, FlushFailed
  <2>1. CASE UNCHANGED journal
    BY <2>0, <2>1 DEF End, Goto, world
  <2>2. CASE Accepted(c) /\ journal' = Completed(c)
    <3>1. CompleteEffect(c) BY <2>0, <2>2, CompletedWrites
    <3> QED BY <2>0, <2>2, <3>1 DEF End, Goto, world, CompleteEffect, Fields, Accepted
  <2> QED BY <1>12, <2>1, <2>2 DEF FlushSave, FlushFailed
<1>13. ASSUME NEW c \in Calls,
             NativeStart(c) \/ NativeReady(c) \/ NativeReleased(c) \/ Send(c) \/
             ProviderResponds(c) \/ NativeProves(c) \/ SenderFails(c)
      PROVE  AttemptNamesSavedApproval'
  BY <1>13 DEF NativeStart, SenderAt, NativeReady, NativeReleased, Send, Live, ProviderResponds,
     NativeProves, SenderFails, disk, local, world
<1>14. ASSUME NEW a \in Approvals, Expire(a) PROVE AttemptNamesSavedApproval'
  BY <1>14 DEF Expire, disk, local
<1>15. ASSUME NEW o \in net, RecordOutcome(o) PROVE AttemptNamesSavedApproval'
  BY <1>15 DEF RecordOutcome, disk, local
<1>16. CASE UNCHANGED vars BY <1>16 DEF vars
<1> QED BY <1>1, <1>2, <1>3, <1>4, <1>5, <1>6, <1>7, <1>8, <1>9, <1>10, <1>11, <1>12, <1>13,
   <1>14, <1>15, <1>16 DEF Next, CallStep, SenderStep

\* A claim answered too late releases nobody.
LEMMA ClaimInvStep == IInv /\ [Next]_vars => ClaimInv'
<1> SUFFICES ASSUME IInv, [Next]_vars PROVE ClaimInv' OBVIOUS
<1>0. TypeOK /\ LockInv /\ ApprovalInv /\ AfterInv /\ UnsentInv /\ ReleasedInv /\ ClaimInv BY DEF
      IInv
<1> USE <1>0, ConstantsAssumption DEF TypeOK, LockInv, ApprovalInv, AfterInv, UnsentInv,
   ReleasedInv, ClaimInv, ActiveSteps, EndSteps, LockedSteps, BeforeAttempt, AfterAttempt,
   FlushSteps, Released, Unsent, NoSender, DeadSender, WitnessFiles, Senders, SenderSteps
<1>1. ASSUME NEW c \in Calls, NEW r \in Requests, Execute(c, r) PROVE ClaimInv'
  <2>1. ExecuteEffect BY <1>1, ExecuteWrites
  <2> QED BY <1>1, <2>1 DEF Execute, Goto, world, ExecuteEffect, Fields
<1>2. ASSUME NEW c \in Calls, NEW r \in Requests, Continue(c, r) PROVE ClaimInv'
  BY <1>2 DEF Continue, Goto, disk, local, world
<1>3. ASSUME NEW c \in Calls,
             Flush(c) \/ LockPrepared(c) \/ ValidateApproval(c) \/ WitnessReady(c) \/
             ClaimDispatch(c) \/ NativeReturned(c) \/ SaveResponse(c) \/ FlushRead(c)
      PROVE  ClaimInv'
  BY <1>3 DEF Flush, Goto, LockPrepared, ValidateApproval, Witnessed, Acceptable, Live,
     WitnessReady, Ready, ClaimDispatch, NativeReturned, SaveResponse, FlushRead, disk, local,
     world
<1>4. ASSUME NEW c \in Calls, Refused(c) \/ Raise(c) \/ Stop(c) PROVE ClaimInv'
  BY <1>4 DEF Refused, End, Goto, Raise, Stop, Dead, disk, local, world
<1>5. ASSUME NEW c \in Calls,
             SavePrepared(c) \/ PrepareReplied(c) \/ ContinueSave(c) \/ ContinueReplied(c) \/
             Attempt(c) \/ SaveOutcome(c) \/ FlushSave(c) \/ FlushFailed(c)
      PROVE  ClaimInv'
  BY <1>5 DEF SavePrepared, Goto, PrepareReplied, Approved, NotApproved, End, ContinueSave,
     ContinueReplied, Attempt, SaveOutcome, FlushSave, FlushFailed, disk, local, world
<1>6. ASSUME NEW c \in Calls,
             SpawnWitness(c) \/ StartProviderSend(c) \/ WitnessFailed(c) \/ ProviderReturned(c)
             \/ CollectWitness(c)
      PROVE  ClaimInv'
  BY <1>6 DEF SpawnWitness, Goto, StartProviderSend, Witnessed, Live, WitnessFailed, Limited, Attempted,
     ProviderReturned, CollectWitness, disk, local, world
<1>7. ASSUME NEW c \in Calls, ReleaseGate(c) PROVE ClaimInv'
  BY <1>7 DEF ReleaseGate, Goto, Witnessed, Live, disk, local, world
<1>8. ASSUME NEW c \in Calls,
             NativeStart(c) \/ NativeReady(c) \/ NativeReleased(c) \/ Send(c) \/
             ProviderResponds(c) \/ NativeProves(c) \/ SenderFails(c)
      PROVE  ClaimInv'
  BY <1>8 DEF NativeStart, SenderAt, NativeReady, NativeReleased, Send, Live, ProviderResponds,
     NativeProves, SenderFails, disk, local, world
<1>9. ASSUME NEW a \in Approvals, Expire(a) PROVE ClaimInv'
  BY <1>9 DEF Expire, disk, local
<1>10. ASSUME NEW o \in net, RecordOutcome(o) PROVE ClaimInv'
  BY <1>10 DEF RecordOutcome, disk, local
<1>11. CASE UNCHANGED vars BY <1>11 DEF vars
<1> QED BY <1>1, <1>2, <1>3, <1>4, <1>5, <1>6, <1>7, <1>8, <1>9, <1>10, <1>11 DEF Next,
   CallStep, SenderStep

\* A folder that does not exist yet satisfies the invariant.
LEMMA InitInv == Init => IInv
<1> SUFFICES ASSUME Init PROVE IInv OBVIOUS
<1> USE ConstantsAssumption DEF Init
<1>1. TypeOK
  <2>1. NoJournal \in Journals /\ NoSender \in Senders /\ NoOutcome \in Outcomes BY RecordTypes
  <2>2. witness \in WitnessFiles BY DEF WitnessFiles
  <2> QED BY <2>1, <2>2 DEF TypeOK
<1>2. LockInv /\ PrepareInv BY DEF LockInv, PrepareInv, LockedSteps, BeforeAttempt, AfterAttempt,
      Preparing
<1>3. JournalInv BY DEF JournalInv, NoJournal
<1>4. BeforeInv /\ ApprovalInv /\ AfterInv
  BY DEF BeforeInv, ApprovalInv, AfterInv, BeforeAttempt, AfterAttempt
<1>5. UnsentInv /\ WitnessInv /\ ReleasedInv /\ SentInv
  BY DEF UnsentInv, Unsent, Released, WitnessInv, ReleasedInv, SentInv, SenderSteps, NoSender
<1>6. ResponseInv /\ ReportInv /\ ClaimInv /\ AttemptNamesSavedApproval
  BY DEF ResponseInv, ReportInv, ClaimInv, AttemptNamesSavedApproval, Observed, NoJournal,
     NoOutcome, Released, NoSender
<1> QED BY <1>1, <1>2, <1>3, <1>4, <1>5, <1>6 DEF IInv

\* Every step of the operation keeps the inductive invariant.
LEMMA NextInv == IInv /\ [Next]_vars => IInv'
BY TypeOKStep, LockInvStep, PrepareInvStep, JournalInvStep, BeforeInvStep, ApprovalInvStep,
   AfterInvStep, UnsentInvStep, WitnessInvStep, ReleasedInvStep, SentInvStep, ResponseInvStep,
   ReportInvStep, ClaimInvStep, AttemptNamesSavedApprovalStep DEF IInv

\* The inductive invariant holds in every reachable state, for any number of
\* calls, requests, approvals and reviews.
THEOREM Inductive == Spec => []IInv
BY InitInv, NextInv, PTL DEF Spec

-----------------------------------------------------------------------------

\* Every variable of the operation keeps its type, in every behaviour.
THEOREM TypeCorrect == Spec => []TypeOK
<1>1. IInv => TypeOK BY DEF IInv
<1> QED BY Inductive, <1>1, PTL

\* Whatever is retried, cancelled, crashed or orphaned: the provider gets at most
\* one request, and the attempt is on record under the approval it left with.
THEOREM SendSafety == Spec => [](AtMostOneSend /\ AttemptOnRecord)
<1>1. IInv => AtMostOneSend BY DEF IInv, SentInv, AtMostOneSend
<1>2. IInv => AttemptOnRecord BY DEF IInv, SentInv, AttemptOnRecord
<1> QED BY Inductive, <1>1, <1>2, PTL

\* What left is the journalled request, exactly as it was approved, and by a
\* witness where the request asks for one.
THEOREM SendsAsApproved == Spec => []SendBoundToRequest
<1>1. IInv => SendBoundToRequest BY DEF IInv, SentInv, SendBoundToRequest
<1> QED BY Inductive, <1>1, PTL

\* An approval that was dead when the API took the claim releases no request,
\* however late the claim's answer comes and whoever still holds a sender.
THEOREM DeadClaimSafety == Spec => []NoSendAfterDeadClaim
<1>1. IInv => NoSendAfterDeadClaim BY DEF IInv, ClaimInv, NoSendAfterDeadClaim
<1> QED BY Inductive, <1>1, PTL

\* No observed or proved response is ever reported without a send and a saved
\* response.
THEOREM ReportSafety == Spec => []NoFalseObservation
<1>1. ASSUME IInv PROVE NoFalseObservation
  <2> SUFFICES ASSUME NEW o \in {journal.outcome, srvOutcome}, o.state \in {"observed", "attested"}
               PROVE  (\E s \in sent : s.approval = o.approval) /\ responseFile
    BY DEF NoFalseObservation
  <2>1. sent # {} /\ responseFile BY <1>1 DEF IInv, ResponseInv, Observed
  <2>2. o # NoOutcome BY DEF NoOutcome
  <2>3. o.approval = journal.outcome.approval BY <1>1, <2>2 DEF IInv, ReportInv
  <2>4. \A s \in sent : s.approval = journal.outcome.approval BY <1>1 DEF IInv, SentInv
  <2> QED BY <2>1, <2>3, <2>4
<1> QED BY Inductive, <1>1, PTL

\* A journal that says complete is about an approval the API has recorded a report
\* under, also after the stale write of a flush that did not hold the lock.  It need
\* not be the report that was saved last.
THEOREM CompletionSafety == Spec => []CompleteMeansReported
<1>1. IInv => CompleteMeansReported BY DEF IInv, ReportInv, CompleteMeansReported
<1> QED BY Inductive, <1>1, PTL

\* What any step may do to the journal: an attempt stays on record under its
\* approval, a closed operation stays closed, a continuation keeps its binding.
LEMMA JournalMoves ==
  ASSUME IInv, [Next]_vars
  PROVE  /\ journal.outcome # NoOutcome =>
              journal'.outcome # NoOutcome /\ journal'.outcome.approval = journal.outcome.approval
         /\ journal.phase = "complete" /\ journal.outcome = NoOutcome =>
              journal'.phase = "complete" /\ journal'.outcome = NoOutcome
         /\ journal.phase = "continuing" /\ journal'.phase = "continuing" =>
              journal'.intent = journal.intent
         /\ journal' # journal => UNCHANGED <<sent, srvOutcome>>
<1> DEFINE Moves == /\ journal.outcome # NoOutcome =>
                         journal'.outcome # NoOutcome
                         /\ journal'.outcome.approval = journal.outcome.approval
                    /\ journal.phase = "complete" /\ journal.outcome = NoOutcome =>
                         journal'.phase = "complete" /\ journal'.outcome = NoOutcome
                    /\ journal.phase = "continuing" /\ journal'.phase = "continuing" =>
                         journal'.intent = journal.intent
                    /\ journal' # journal => UNCHANGED <<sent, srvOutcome>>
<1>0. TypeOK /\ PrepareInv /\ JournalInv /\ BeforeInv /\ AfterInv BY DEF IInv
<1>1. CASE UNCHANGED journal BY <1>1
<1>2. ASSUME NEW c \in Calls, NEW r \in Requests, Execute(c, r) PROVE Moves
  <2>1. journal'.outcome = NoOutcome /\ journal.outcome = NoOutcome /\ journal'.phase = "empty"
    BY <1>2, ExecuteWrites DEF ExecuteEffect, Fields
  <2> QED BY <1>2, <2>1 DEF Execute, world
<1>3. ASSUME NEW c \in Calls, SavePrepared(c) PROVE Moves
  <2>1. journal'.outcome = NoOutcome /\ journal.outcome = NoOutcome /\ journal'.phase = "prepared"
    BY <1>3, SavePreparedWrites DEF PreparedEffect, Fields
  <2>2. journal.phase = "empty" BY <1>0, <1>3 DEF PrepareInv, SavePrepared
  <2> QED BY <1>3, <2>1, <2>2 DEF SavePrepared, world
<1>4. ASSUME NEW c \in Calls, NEW p \in {"authorized", "continuing"},
             pc[c] \in {"prepare", "continue"}, Approved(c, p), UNCHANGED world
      PROVE  Moves
  <2>1. journal'.outcome = NoOutcome /\ journal.outcome = NoOutcome
        /\ journal'.intent = journal.intent /\ journal'.phase = p
    BY <1>4, ApprovedWrites DEF ApprovedEffect, Fields
  <2>2. journal.phase # "complete" BY <1>0, <1>4 DEF BeforeInv, BeforeAttempt, OpenPhases
  <2> QED BY <1>4, <2>1, <2>2 DEF world
<1>5. ASSUME NEW c \in Calls, pc[c] \in {"prepare", "continue"}, NotApproved(c), UNCHANGED world
      PROVE  Moves
  <2>1. journal'.outcome = NoOutcome /\ journal.outcome = NoOutcome
        /\ journal'.phase \in {"waiting_for_review", "complete"}
    BY <1>5, NotApprovedWrites DEF NotApprovedEffect, Fields
  <2>2. journal.phase # "complete" BY <1>0, <1>5 DEF BeforeInv, BeforeAttempt, OpenPhases
  <2> QED BY <1>5, <2>1, <2>2 DEF world
<1>6. ASSUME NEW c \in Calls, PrepareReplied(c) \/ ContinueReplied(c) PROVE Moves
  BY <1>4, <1>5, <1>6 DEF PrepareReplied, ContinueReplied
<1>7. ASSUME NEW c \in Calls, ContinueSave(c) PROVE Moves
  <2>1. journal'.outcome = NoOutcome /\ journal.outcome = NoOutcome
        /\ (journal.phase = "continuing" => journal'.intent = journal.intent)
        /\ journal.phase \in {"waiting_for_review", "continuing"}
    BY <1>7, ContinueSaveWrites DEF ContinueEffect, Fields
  <2> QED BY <1>7, <2>1 DEF ContinueSave, world
<1>8. ASSUME NEW c \in Calls, Attempt(c) PROVE Moves
  <2>1. journal.outcome = NoOutcome /\ journal'.phase = "dispatch_attempted" BY <1>8, AttemptWrites DEF AttemptEffect, Fields
  <2>2. journal.phase # "complete" BY <1>0, <1>8 DEF BeforeInv, BeforeAttempt, OpenPhases, Attempt
  <2> QED BY <1>8, <2>1, <2>2 DEF Attempt, world
<1>9. ASSUME NEW c \in Calls, SaveOutcome(c) PROVE Moves
  <2>1. journal'.outcome # NoOutcome /\ journal'.outcome.approval = approval[c]
        /\ (journal.outcome = NoOutcome \/ journal.outcome.approval = approval[c])
        /\ journal'.phase = "outcome_pending"
    BY <1>9, SaveOutcomeWrites DEF OutcomeEffect, Fields
  <2>2. journal.outcome = NoOutcome => journal.phase # "complete"
    BY <1>0, <1>9 DEF AfterInv, AfterAttempt, SaveOutcome
  <2> QED BY <1>9, <2>1, <2>2 DEF SaveOutcome, world
<1>10. ASSUME NEW c \in Calls, FlushSave(c) \/ FlushFailed(c), journal' = Completed(c) PROVE Moves
  <2>1. pc[c] = "flush_wait" /\ UNCHANGED <<sent, srvOutcome>>
    BY <1>10 DEF FlushSave, FlushFailed, world
  <2>2. journal'.phase = "complete" /\ journal.outcome # NoOutcome /\ journal'.outcome # NoOutcome
        /\ journal'.outcome.approval = journal.outcome.approval
    BY <1>10, <2>1, CompletedWrites DEF CompleteEffect, Fields
  <2> QED BY <2>1, <2>2
<1>11. \/ UNCHANGED journal
       \/ \E c \in Calls :
            \/ \E r \in Requests : Execute(c, r)
            \/ SavePrepared(c) \/ PrepareReplied(c) \/ ContinueSave(c) \/ ContinueReplied(c)
            \/ Attempt(c) \/ SaveOutcome(c)
            \/ (FlushSave(c) \/ FlushFailed(c)) /\ journal' = Completed(c)
  BY DEF Next, CallStep, SenderStep, vars, disk, Continue, Flush, Refused, LockPrepared,
     ValidateApproval, SpawnWitness, WitnessReady, ClaimDispatch, StartProviderSend, ReleaseGate,
     ProviderReturned, NativeReturned, WitnessFailed, CollectWitness, SaveResponse, FlushRead,
     FlushSave, FlushFailed, Raise, Stop, NativeStart, NativeReady, NativeReleased, Send,
     ProviderResponds, NativeProves, SenderFails, Expire, RecordOutcome
<1> QED BY <1>1, <1>2, <1>3, <1>6, <1>7, <1>8, <1>9, <1>10, <1>11

\* No write to the journal, an unlocked flush's stale one included, takes back an
\* attempt or changes the approval it is on record under.
THEOREM JournalOneWay == Spec => NeverReopened
<1>1. IInv /\ [Next]_vars =>
        [journal.outcome # NoOutcome =>
           journal'.outcome.approval = journal.outcome.approval]_vars
  BY JournalMoves
<1> QED BY Inductive, <1>1, PTL DEF Spec, NeverReopened

\* A continuation that is retried keeps its binding, and with it the key under
\* which the API knows it.
THEOREM ContinuationSafety == Spec => ContinuationKeyStable
<1>1. IInv /\ [Next]_vars =>
        [journal.phase = "continuing" /\ journal'.phase = "continuing" =>
           journal'.intent = journal.intent]_vars
  BY JournalMoves
<1> QED BY Inductive, <1>1, PTL DEF Spec, ContinuationKeyStable

\* approval.json names the approval of the attempt, and a continuation in flight
\* can be repeated with the binding in the journal.
THEOREM BindingsOnRecord == Spec => [](AttemptNamesSavedApproval /\ ContinuationOnRecord)
<1>1. IInv => AttemptNamesSavedApproval BY DEF IInv
<1>2. IInv => ContinuationOnRecord
  BY DEF IInv, BeforeInv, JournalInv, ContinuationOnRecord, BeforeAttempt
<1> QED BY Inductive, <1>1, <1>2, PTL

\* The folder, its calls, crashes and stale writes implement the one-way gate of
\* DurableDispatch: sends only after the attempt, one of them, one report.
THEOREM Refinement == Spec => ImplementsDurableDispatch
<1>1. Init => Abstract!Init
  BY DEF Init, Abstract!Init, stage, NoJournal, NoOutcome
<1>2. ASSUME IInv, [Next]_vars PROVE [Abstract!Next]_<<stage, sent, srvOutcome.state>>
  <2>0. /\ journal.outcome # NoOutcome => journal'.outcome # NoOutcome
        /\ journal.phase = "complete" /\ journal.outcome = NoOutcome =>
              journal'.phase = "complete" /\ journal'.outcome = NoOutcome
        /\ journal' # journal => UNCHANGED <<sent, srvOutcome>>
    BY <1>2, JournalMoves
  <2>1. ASSUME NEW c \in Calls, Send(c) PROVE Abstract!Next
    <3> DEFINE s == [call |-> c, approval |-> sender[c].approval, req |-> sender[c].req]
    <3>1. sent = {} /\ journal.outcome # NoOutcome
      BY <1>2, <2>1 DEF IInv, ReleasedInv, UnsentInv, Unsent, Released, Send
    <3>2. sender[c].approval \in Approvals /\ sender[c].req \in Requests
      BY <1>2, <2>1, RecordTypes DEF IInv, TypeOK, Send, SenderSteps
    <3>3. s \in SendRecords BY <3>2 DEF SendRecords
    <3>4. sent' = {s} /\ UNCHANGED <<journal, srvOutcome>> BY <2>1, <3>1 DEF Send, disk
    <3>5. stage = "attempted" /\ UNCHANGED stage BY <3>1, <3>4 DEF stage
    <3>6. Abstract!Send(s) BY <3>1, <3>4, <3>5 DEF Abstract!Send
    <3> QED BY <3>3, <3>6 DEF Abstract!Next
  <2>2. ASSUME NEW o \in net, RecordOutcome(o) PROVE Abstract!Next
    <3>1. srvOutcome = NoOutcome /\ srvOutcome' = o /\ UNCHANGED <<journal, sent>>
      BY <2>2 DEF RecordOutcome, disk
    <3>2. o \in Outcomes /\ o # NoOutcome /\ journal.outcome # NoOutcome
      BY <1>2 DEF IInv, TypeOK, ReportInv
    <3>3. o.state \in {"unknown", "observed", "attested"} BY <3>2 DEF Outcomes
    <3>4. o.state = "unknown" \/ sent # {} BY <1>2, <3>3 DEF IInv, ResponseInv, Observed
    <3>5. stage = "attempted" /\ UNCHANGED stage BY <3>1, <3>2 DEF stage
    <3>6. Abstract!Report(o.state) BY <3>1, <3>4, <3>5 DEF Abstract!Report, NoOutcome
    <3> QED BY <3>3, <3>6 DEF Abstract!Next
  <2>3. CASE UNCHANGED <<sent, srvOutcome>>
    <3>1. CASE UNCHANGED stage BY <2>3, <3>1
    <3>2. CASE stage' # stage
      <4>1. stage = "open" /\ stage' \in {"closed", "attempted"} BY <2>0, <3>2 DEF stage
      <4> QED BY <2>3, <4>1 DEF Abstract!Next, Abstract!Close, Abstract!Attempt
    <3> QED BY <3>1, <3>2
  <2>4. ASSUME NEW c \in Calls, CallStep(c) PROVE UNCHANGED <<sent, srvOutcome>>
    BY <2>4 DEF CallStep, world, SavePrepared, LockPrepared, PrepareReplied, ContinueSave,
       ContinueReplied, ValidateApproval, SpawnWitness, WitnessReady, Attempt, ClaimDispatch,
       StartProviderSend, ReleaseGate, ProviderReturned, NativeReturned, WitnessFailed,
       CollectWitness, SaveResponse, SaveOutcome, FlushRead, FlushSave, FlushFailed, Raise
  <2>5. ASSUME NEW c \in Calls, SenderStep(c), ~Send(c) PROVE UNCHANGED <<sent, srvOutcome>>
    BY <2>5 DEF SenderStep, world, NativeStart, NativeReady, NativeReleased, ProviderResponds,
       NativeProves, SenderFails
  <2>6. ASSUME NEW c \in Calls, NEW r \in Requests,
               Execute(c, r) \/ Continue(c, r)
        PROVE  UNCHANGED <<sent, srvOutcome>>
    BY <2>6 DEF Execute, Continue, world
  <2>7. ASSUME NEW c \in Calls, Flush(c) \/ Refused(c) \/ Stop(c)
        PROVE  UNCHANGED <<sent, srvOutcome>>
    BY <2>7 DEF Flush, Refused, Stop, world
  <2>8. ASSUME NEW a \in Approvals, Expire(a) PROVE UNCHANGED <<sent, srvOutcome>>
    BY <2>8 DEF Expire
  <2>9. CASE UNCHANGED vars BY <2>3, <2>9 DEF vars
  <2> QED BY <1>2, <2>1, <2>2, <2>3, <2>4, <2>5, <2>6, <2>7, <2>8, <2>9 DEF Next
<1> QED BY Inductive, <1>1, <1>2, PTL DEF Spec, ImplementsDurableDispatch, Abstract!Spec

-----------------------------------------------------------------------------
(* The evidence of an attempt                                              *)

\* The call holds an approved answer that it has not dealt with yet.
Holding == {"validate", "admit", "await_ready", "claim"} \cup AfterAttempt

\* A copy of the journal holds the answer the call acts on, or the attempt's.
HeldInv ==
  \A c \in Calls :
    /\ pc[c] \in Holding => held[c] = approval[c]
    /\ pc[c] = "flush_wait" => held[c] = journal.outcome.approval

\* The authorization of an attempt stays in the journal.
AuthInv == journal.outcome # NoOutcome => authorization = journal.outcome.approval

\* What a reader holds: after the comparison one answer, and after a start
\* past the attempt the attempt's.
ReaderInv ==
  \A e \in Readers :
    /\ rpc[e] \in {"save", "returned"} => receipt[e] = binding[e] /\ receipt[e] # None
    /\ since[e] =>
         /\ journal.outcome # NoOutcome
         /\ receipt[e] = journal.outcome.approval
         /\ rpc[e] \notin {"idle", "refused"}
         /\ rpc[e] \in {"receipt", "save", "returned"} => binding[e] = journal.outcome.approval

EvidenceInv ==
  IInv /\ EvidenceTypeOK /\ HeldInv /\ AuthInv /\ ReaderInv /\ PackageIsOneAnswer

-----------------------------------------------------------------------------
\* A step with the journal's authorization is a step of the operation.
LEMMA JournalStepIsNext ==
  ASSUME NEW c \in Calls, JournalStep(c)
  PROVE  Next
BY DEF JournalStep, Answered, Reread, Rewritten, Next, CallStep

\* A step with evidence, or without, keeps the invariant of the operation.
LEMMA FolderStep == EvidenceNext \/ UNCHANGED allVars => [Next]_vars
BY JournalStepIsNext DEF EvidenceNext, OtherStep, allVars, vars, ReaderStep, ReadJournal,
   ReadApproval, VerifyReceipt, SavePackage, ReaderFails

\* A step with the authorization is one call's, and leaves the others where they are.
LEMMA OthersKeep ==
  ASSUME TypeOK, held \in [Calls -> Approvals \cup {None}],
         NEW c \in Calls, JournalStep(c), NEW d \in Calls, d # c
  PROVE  pc'[d] = pc[d] /\ approval'[d] = approval[d] /\ held'[d] = held[d]
<1>1. pc \in [Calls -> {"idle"} \cup ActiveSteps \cup EndSteps]
      /\ approval \in [Calls -> Approvals \cup {None}]
  BY DEF TypeOK
<1>2. held'[d] = held[d] BY DEF JournalStep, Answered, Reread, Rewritten
<1>3. pc'[d] = pc[d] /\ approval'[d] = approval[d]
  <2>1. ASSUME NEW p, Approved(c, p) PROVE <1>3!1 /\ <1>3!2
    BY <1>1, <2>1 DEF Approved, Goto
  <2>2. ASSUME NEW how, End(c, how) PROVE <1>3!1 /\ <1>3!2 BY <1>1, <2>2 DEF End, Goto
  <2>3. CASE PrepareReplied(c) \/ ContinueReplied(c)
    BY <2>1, <2>2, <2>3 DEF PrepareReplied, ContinueReplied, NotApproved
  <2>4. CASE FlushSave(c) \/ FlushFailed(c) BY <2>2, <2>4 DEF FlushSave, FlushFailed
  <2>5. CASE ContinueSave(c) \/ FlushRead(c) \/ Attempt(c) \/ SaveOutcome(c)
    BY <1>1, <2>5 DEF ContinueSave, FlushRead, Attempt, SaveOutcome, Goto
  <2> QED BY <2>3, <2>4, <2>5 DEF JournalStep, Answered, Reread, Rewritten
<1> QED BY <1>2, <1>3

\* Any other step of the operation brings no call to an answer or to a report it
\* did not hold before, and leaves the outcome on record.
LEMMA OtherStepKeeps ==
  ASSUME IInv, OtherStep
  PROVE  /\ journal'.outcome = journal.outcome
         /\ \A d \in Calls :
              /\ pc'[d] \in Holding => pc[d] \in Holding /\ approval'[d] = approval[d]
              /\ pc'[d] = "flush_wait" => pc[d] = "flush_wait"
<1> DEFINE Keeps == /\ journal'.outcome = journal.outcome
                    /\ \A d \in Calls :
                         /\ pc'[d] \in Holding => pc[d] \in Holding /\ approval'[d] = approval[d]
                         /\ pc'[d] = "flush_wait" => pc[d] = "flush_wait"
<1>0. TypeOK BY DEF IInv
<1>1. pc \in [Calls -> {"idle"} \cup ActiveSteps \cup EndSteps]
      /\ approval \in [Calls -> Approvals \cup {None}]
  BY <1>0 DEF TypeOK
<1> USE DEF Holding, AfterAttempt
<1>2. ASSUME NEW c \in Calls, NEW how \in EndSteps, End(c, how), UNCHANGED journal PROVE Keeps
  BY <1>1, <1>2 DEF End, Goto, EndSteps
<1>3. ASSUME UNCHANGED <<journal, pc, approval>> PROVE Keeps
  BY <1>3
<1>4. ASSUME NEW c \in Calls, NEW p, Goto(c, p), UNCHANGED <<journal, approval>>,
             p \in Holding => pc[c] \in Holding, p # "flush_wait"
      PROVE  Keeps
  BY <1>1, <1>4 DEF Goto
<1>5. ASSUME NEW c \in Calls, NEW r \in Requests, Execute(c, r) PROVE Keeps
  <2>1. journal'.outcome = journal.outcome BY <1>5, ExecuteWrites DEF ExecuteEffect, Fields
  <2> QED BY <1>1, <1>5, <2>1 DEF Execute, Goto
<1>6. ASSUME NEW c \in Calls, SavePrepared(c) PROVE Keeps
  <2>1. journal'.outcome = journal.outcome BY <1>6, SavePreparedWrites DEF PreparedEffect, Fields
  <2> QED BY <1>1, <1>6, <2>1 DEF SavePrepared, Goto
<1>7. ASSUME NEW c \in Calls, LockPrepared(c) PROVE Keeps
  BY <1>4, <1>7 DEF LockPrepared, disk, local
<1>8. ASSUME NEW c \in Calls, NEW r \in Requests, Continue(c, r) PROVE Keeps
  BY <1>4, <1>8 DEF Continue, disk
<1>9. ASSUME NEW c \in Calls, Flush(c) PROVE Keeps
  BY <1>4, <1>9 DEF Flush, disk, local
<1>10. ASSUME NEW c \in Calls, Refused(c) \/ Raise(c) \/ Stop(c) PROVE Keeps
  BY <1>2, <1>10 DEF Refused, Raise, Stop, disk, EndSteps
<1>11. ASSUME NEW c \in Calls,
              ValidateApproval(c) \/ SpawnWitness(c) \/ WitnessReady(c) \/ ClaimDispatch(c)
              \/ StartProviderSend(c) \/ ReleaseGate(c)
       PROVE  Keeps
  BY <1>1, <1>11 DEF ValidateApproval, SpawnWitness, WitnessReady, ClaimDispatch,
     StartProviderSend, ReleaseGate, Goto, disk, local
<1>12. ASSUME NEW c \in Calls,
              ProviderReturned(c) \/ NativeReturned(c) \/ WitnessFailed(c) \/ CollectWitness(c)
              \/ SaveResponse(c)
       PROVE  Keeps
  BY <1>1, <1>12 DEF ProviderReturned, NativeReturned, WitnessFailed, CollectWitness,
     SaveResponse, Goto, disk, local
<1>13. ASSUME NEW c \in Calls, SenderStep(c) PROVE Keeps
  BY <1>3, <1>13 DEF SenderStep, NativeStart, NativeReady, NativeReleased, Send,
     ProviderResponds, NativeProves, SenderFails, disk, local
<1>14. ASSUME (\E a \in Approvals : Expire(a)) \/ \E o \in net : RecordOutcome(o) PROVE Keeps
  BY <1>3, <1>14 DEF Expire, RecordOutcome, disk, local
<1>15. Keeps
  BY <1>5, <1>6, <1>7, <1>8, <1>9, <1>10, <1>11, <1>12, <1>13, <1>14
     DEF OtherStep, Next, CallStep
<1> QED BY <1>15

-----------------------------------------------------------------------------
\* Every variable keeps its type.
LEMMA EvidenceTypeStep ==
  EvidenceInv /\ (EvidenceNext \/ UNCHANGED allVars) => EvidenceTypeOK'
<1> SUFFICES ASSUME EvidenceInv, EvidenceNext \/ UNCHANGED allVars PROVE EvidenceTypeOK' OBVIOUS
<1>0. IInv /\ EvidenceTypeOK BY DEF EvidenceInv
<1>1. TypeOK' /\ [Next]_vars BY <1>0, FolderStep, TypeOKStep
<1>2. approvalFile \in Approvals \cup {None} /\ approval' \in [Calls -> Approvals \cup {None}]
  BY <1>0, <1>1 DEF EvidenceTypeOK, TypeOK
<1> USE <1>0, <1>1, <1>2 DEF EvidenceTypeOK
<1>3. CASE (\E c \in Calls : JournalStep(c)) /\ UNCHANGED evidence
  BY <1>3 DEF JournalStep, Answered, Reread, Rewritten, evidence
<1>4. CASE OtherStep /\ UNCHANGED evidence BY <1>4 DEF OtherStep, answer, evidence
<1>5. ASSUME NEW e \in Readers, ReaderStep(e) PROVE EvidenceTypeOK'
  <2> USE DEF ReaderSteps, ReaderGoto, answer
  <2>1. CASE ReadJournal(e) BY <2>1 DEF ReadJournal
  <2>2. CASE ReadApproval(e) BY <2>2 DEF ReadApproval
  <2>3. CASE VerifyReceipt(e) BY <2>3 DEF VerifyReceipt
  <2>4. CASE SavePackage(e)
    <3>1. receipt[e] = binding[e] /\ receipt[e] # None
      BY <2>4 DEF SavePackage, EvidenceInv, ReaderInv
    <3>2. package' \in Packages \cup {NoPackage}
      BY <2>4, <3>1 DEF SavePackage, Packages
    <3> QED BY <2>4, <3>2 DEF SavePackage
  <2>5. CASE ReaderFails(e) BY <2>5 DEF ReaderFails
  <2> QED BY <1>5, <2>1, <2>2, <2>3, <2>4, <2>5 DEF ReaderStep
<1>6. CASE UNCHANGED allVars BY <1>6 DEF allVars
<1> QED BY <1>3, <1>4, <1>5, <1>6 DEF EvidenceNext

\* A step of the operation keeps every copy of the authorization where it belongs.
LEMMA HeldStep ==
  ASSUME EvidenceInv, EvidenceNext \/ UNCHANGED allVars
  PROVE  HeldInv'
<1>0. IInv /\ TypeOK /\ HeldInv /\ AuthInv /\ AfterInv /\ held \in [Calls -> Approvals \cup {None}]
      /\ pc \in [Calls -> {"idle"} \cup ActiveSteps \cup EndSteps]
      /\ approval \in [Calls -> Approvals \cup {None}]
  BY DEF EvidenceInv, EvidenceTypeOK, TypeOK, IInv
<1>1. [Next]_vars BY FolderStep
<1>2. ASSUME NEW c \in Calls, JournalStep(c), NEW d \in Calls
      PROVE  /\ pc'[d] \in Holding => held'[d] = approval'[d]
             /\ pc'[d] = "flush_wait" => held'[d] = journal'.outcome.approval
  <2>1. CASE d # c
    <3>1. pc'[d] = pc[d] /\ approval'[d] = approval[d] /\ held'[d] = held[d]
      BY <1>0, <1>2, <2>1, OthersKeep
    <3>2. pc[d] = "flush_wait" => journal'.outcome.approval = journal.outcome.approval
      BY <1>0, <1>1, JournalMoves DEF AfterInv
    <3> QED BY <1>0, <3>1, <3>2 DEF HeldInv
  <2>2. CASE d = c
    <3> USE <1>0, <2>2
    <3>1. CASE Answered(c)
      <4>1. held'[c] = approval'[c] BY <3>1 DEF Answered
      <4>2. pc'[c] # "flush_wait"
        BY <3>1 DEF Answered, PrepareReplied, ContinueReplied, Approved, NotApproved, End, Goto
      <4> QED BY <4>1, <4>2
    <3>2. CASE Reread(c) /\ ContinueSave(c)
      <4>1. pc'[c] = "continue" BY <3>2 DEF ContinueSave, Goto
      <4> QED BY <4>1 DEF Holding, AfterAttempt
    <3>3. CASE Reread(c) /\ FlushRead(c)
      <4>1. pc'[c] = "flush_wait" /\ held'[c] = authorization /\ journal' = journal
            /\ journal.outcome # NoOutcome
        BY <3>3 DEF FlushRead, Goto, Reread, disk
      <4> QED BY <4>1 DEF Holding, AfterAttempt, AuthInv
    <3>4. CASE Rewritten(c) /\ Attempt(c)
      <4>1. pc[c] = "claim" /\ pc'[c] = "claim_call" /\ held' = held /\ approval' = approval
        BY <3>4 DEF Rewritten, Attempt, Goto
      <4> QED BY <4>1 DEF Holding, HeldInv
    <3>5. CASE Rewritten(c) /\ SaveOutcome(c)
      <4>1. pc'[c] = "flush_read" BY <3>5 DEF SaveOutcome, Goto
      <4> QED BY <4>1 DEF Holding, AfterAttempt
    <3>6. CASE Rewritten(c) /\ (FlushSave(c) \/ FlushFailed(c))
      <4>1. pc'[c] \in EndSteps BY <3>6 DEF FlushSave, FlushFailed, End, Goto, EndSteps
      <4> QED BY <4>1 DEF Holding, AfterAttempt, EndSteps
    <3> QED BY <1>2, <3>1, <3>2, <3>3, <3>4, <3>5, <3>6 DEF JournalStep, Reread, Rewritten
  <2> QED BY <2>1, <2>2
<1>3. CASE OtherStep BY <1>0, <1>3, OtherStepKeeps DEF OtherStep, answer, HeldInv
<1>4. CASE UNCHANGED <<vars, answer>>
  BY <1>0, <1>4 DEF vars, answer, HeldInv
<1>5. CASE \E e \in Readers : ReaderStep(e)
  BY <1>4, <1>5 DEF ReaderStep, ReadJournal, ReadApproval, VerifyReceipt, SavePackage, ReaderFails
<1>6. CASE UNCHANGED allVars BY <1>4, <1>6 DEF allVars, vars, answer
<1>7. CASE \E c \in Calls : JournalStep(c) BY <1>2, <1>7 DEF HeldInv
<1> QED BY <1>3, <1>5, <1>6, <1>7 DEF EvidenceNext

\* Whoever rewrites the journal after the attempt writes the attempt's authorization.
LEMMA AuthStep ==
  ASSUME EvidenceInv, EvidenceNext \/ UNCHANGED allVars
  PROVE  AuthInv'
<1>0. IInv /\ TypeOK /\ HeldInv /\ AuthInv BY DEF EvidenceInv, EvidenceTypeOK
<1>2. ASSUME NEW c \in Calls, JournalStep(c) PROVE AuthInv'
  <2>1. CASE Answered(c)
    <3>1. ASSUME NEW p \in {"authorized", "continuing"}, pc[c] \in {"prepare", "continue"},
                 Approved(c, p)
          PROVE  journal'.outcome = NoOutcome
      BY <1>0, <3>1, ApprovedWrites DEF ApprovedEffect, Fields
    <3>2. ASSUME pc[c] \in {"prepare", "continue"}, NotApproved(c)
          PROVE  journal'.outcome = NoOutcome
      BY <1>0, <3>2, NotApprovedWrites DEF NotApprovedEffect
    <3> QED BY <2>1, <3>1, <3>2 DEF Answered, PrepareReplied, ContinueReplied, AuthInv
  <2>2. CASE Reread(c) /\ ContinueSave(c)
    <3>1. journal'.outcome = NoOutcome
      BY <1>0, <2>2, ContinueSaveWrites DEF ContinueEffect, Fields
    <3> QED BY <3>1 DEF AuthInv
  <2>3. CASE Reread(c) /\ FlushRead(c)
    BY <1>0, <2>3 DEF FlushRead, Reread, disk, AuthInv
  <2>4. CASE Rewritten(c) /\ Attempt(c)
    <3>1. journal'.outcome # NoOutcome /\ journal'.outcome.approval = approval[c]
          /\ journal.outcome = NoOutcome
      BY <1>0, <2>4, AttemptWrites DEF AttemptEffect
    <3>2. held[c] = approval[c] BY <1>0, <2>4 DEF HeldInv, Holding, Attempt
    <3> QED BY <2>4, <3>1, <3>2 DEF Rewritten, AuthInv
  <2>5. CASE Rewritten(c) /\ SaveOutcome(c)
    <3>1. journal'.outcome.approval = approval[c]
      BY <1>0, <2>5, SaveOutcomeWrites DEF OutcomeEffect
    <3>2. held[c] = approval[c] BY <1>0, <2>5 DEF HeldInv, Holding, AfterAttempt, SaveOutcome
    <3> QED BY <1>0, <2>5, <3>1, <3>2 DEF Rewritten, AuthInv
  <2>6. CASE Rewritten(c) /\ (FlushSave(c) \/ FlushFailed(c)) /\ journal' # journal
    <3>1. pc[c] = "flush_wait" /\ journal' = Completed(c) BY <2>6 DEF FlushSave, FlushFailed
    <3>2. journal'.outcome.approval = journal.outcome.approval
      BY <1>0, <3>1, CompletedWrites DEF CompleteEffect, Fields
    <3>3. held[c] = journal.outcome.approval BY <1>0, <3>1 DEF HeldInv
    <3> QED BY <2>6, <3>2, <3>3 DEF Rewritten, AuthInv
  <2>7. CASE Rewritten(c) /\ journal' = journal BY <1>0, <2>7 DEF Rewritten, AuthInv
  <2> QED BY <1>2, <2>1, <2>2, <2>3, <2>4, <2>5, <2>6, <2>7 DEF JournalStep, Reread, Rewritten
<1>3. CASE OtherStep BY <1>0, <1>3, OtherStepKeeps DEF OtherStep, answer, AuthInv
<1>4. CASE UNCHANGED <<vars, answer>> BY <1>0, <1>4 DEF vars, answer, AuthInv
<1>5. CASE \E e \in Readers : ReaderStep(e)
  BY <1>4, <1>5 DEF ReaderStep, ReadJournal, ReadApproval, VerifyReceipt, SavePackage, ReaderFails
<1>6. CASE UNCHANGED allVars BY <1>4, <1>6 DEF allVars, vars, answer
<1> QED BY <1>2, <1>3, <1>5, <1>6 DEF EvidenceNext

\* A reader's copies stay of one answer while the operation goes on, and what it
\* reads after the attempt is the attempt's.
LEMMA ReaderInvStep ==
  ASSUME EvidenceInv, EvidenceNext \/ UNCHANGED allVars
  PROVE  (ReaderInv /\ PackageIsOneAnswer)'
<1>0. IInv /\ EvidenceTypeOK /\ AuthInv /\ ReaderInv /\ PackageIsOneAnswer BY DEF EvidenceInv
<1>1. [Next]_vars BY FolderStep
<1>2. journal.outcome # NoOutcome =>
        journal'.outcome # NoOutcome /\ journal'.outcome.approval = journal.outcome.approval
  BY <1>0, <1>1, JournalMoves
<1>3. CASE UNCHANGED evidence
  BY <1>0, <1>2, <1>3 DEF evidence, ReaderInv, PackageIsOneAnswer
<1>4. ASSUME NEW e \in Readers, ReaderStep(e) PROVE (ReaderInv /\ PackageIsOneAnswer)'
  <2>1. rpc \in [Readers -> ReaderSteps] /\ since \in [Readers -> BOOLEAN]
        /\ receipt \in [Readers -> Approvals \cup {None}]
        /\ binding \in [Readers -> Approvals \cup {None}]
    BY <1>0 DEF EvidenceTypeOK
  <2>2. journal' = journal BY <1>4 DEF vars, ReaderStep, ReadJournal, ReadApproval, VerifyReceipt,
        SavePackage, ReaderFails
  <2> USE <1>0, <2>1, <2>2 DEF ReaderGoto, ReaderInv, PackageIsOneAnswer
  <2>3. CASE ReadJournal(e) BY <2>3 DEF ReadJournal, AuthInv
  <2>4. CASE ReadApproval(e)
    <3>1. journal.outcome # NoOutcome => approvalFile = journal.outcome.approval
      BY DEF IInv, AttemptNamesSavedApproval
    <3> QED BY <2>4, <3>1 DEF ReadApproval
  <2>5. CASE VerifyReceipt(e)
    <3>1. since[e] => receipt[e] = binding[e] /\ receipt[e] # None
      <4>1. journal.outcome # NoOutcome => journal.outcome.approval \in Approvals
        BY RecordTypes DEF IInv, TypeOK, Journals
      <4> QED BY <2>5, <4>1, ConstantsAssumption DEF VerifyReceipt
    <3> QED BY <2>5, <3>1 DEF VerifyReceipt, Binds
  <2>6. CASE SavePackage(e) BY <2>6 DEF SavePackage
  <2>7. CASE ReaderFails(e) BY <2>7 DEF ReaderFails
  <2> QED BY <1>4, <2>3, <2>4, <2>5, <2>6, <2>7 DEF ReaderStep
<1>5. CASE UNCHANGED allVars BY <1>3, <1>5 DEF allVars, evidence
<1> QED BY <1>3, <1>4, <1>5 DEF EvidenceNext

\* The invariant of the evidence holds throughout, for any number of calls and
\* readers.
THEOREM EvidenceInvariant == EvidenceSpec => []EvidenceInv
<1>1. EvidenceInit => EvidenceInv
  <2> SUFFICES ASSUME EvidenceInit PROVE EvidenceInv OBVIOUS
  <2>1. IInv BY InitInv DEF EvidenceInit
  <2>2. EvidenceTypeOK
    BY <2>1, ConstantsAssumption DEF EvidenceInit, EvidenceTypeOK, IInv, ReaderSteps
  <2>3. HeldInv /\ AuthInv /\ ReaderInv /\ PackageIsOneAnswer
    BY DEF EvidenceInit, Init, HeldInv, AuthInv, ReaderInv, PackageIsOneAnswer, NoPackage,
       NoJournal, Holding, AfterAttempt
  <2> QED BY <2>1, <2>2, <2>3 DEF EvidenceInv
<1>2. EvidenceInv /\ [EvidenceNext]_allVars => EvidenceInv'
  <2> SUFFICES ASSUME EvidenceInv, EvidenceNext \/ UNCHANGED allVars PROVE EvidenceInv'
    OBVIOUS
  <2>1. IInv' BY FolderStep, NextInv DEF EvidenceInv
  <2> QED BY <2>1, EvidenceTypeStep, HeldStep, AuthStep, ReaderInvStep DEF EvidenceInv
<1> QED BY <1>1, <1>2, PTL DEF EvidenceSpec

\* An evidence package pairs an approval with the receipt of that very answer,
\* whatever is continued between the reads of the two files.
THEOREM PackageSafety == EvidenceSpec => []PackageIsOneAnswer
<1>1. EvidenceInv => PackageIsOneAnswer BY DEF EvidenceInv
<1> QED BY EvidenceInvariant, <1>1, PTL

\* The evidence of an attempt can be completed, and what was sent has its approval
\* and receipt in the folder.
THEOREM EvidenceSafety == EvidenceSpec => []AttemptCanBeEvidenced
<1>1. ASSUME EvidenceInv PROVE AttemptCanBeEvidenced
  <2>1. ASSUME NEW s \in sent
        PROVE  authorization = s.approval /\ approvalFile = s.approval
    <3>1. journal.outcome # NoOutcome /\ journal.outcome.approval = s.approval
      BY <1>1 DEF EvidenceInv, IInv, UnsentInv, Unsent, SentInv
    <3> QED BY <1>1, <3>1 DEF EvidenceInv, IInv, AuthInv, AttemptNamesSavedApproval
  <2> QED BY <1>1, <2>1 DEF EvidenceInv, ReaderInv, AttemptCanBeEvidenced
<1> QED BY EvidenceInvariant, <1>1, PTL
=============================================================================
