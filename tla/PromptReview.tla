---------------------------- MODULE PromptReview ----------------------------
(***************************************************************************)
(* Review prompts as client.py sees them: reviewers who resolve them with  *)
(* confirmations.approve or escalations.resolve, racing and retrying after *)
(* lost answers; authorizations.revoke; and one waiter per prompt polling  *)
(* get_status until the prompt is settled.                                 *)
(*                                                                         *)
(* The prompt and its grant live at the API, which is external; a status   *)
(* read may also answer "unknown" or with the status of another prompt.    *)
(***************************************************************************)
CONSTANTS
  Confirmations, Escalations,   \* prompts of the two kinds
  Legacy,                       \* prompts whose record need not show its choice
  Reviewers,
  None

ASSUME PromptsAssumption ==
  /\ Confirmations \cap Escalations = {}
  /\ Legacy \subseteq Confirmations \cup Escalations
  /\ None \notin Confirmations \cup Escalations

VARIABLES
  choice,     \* the recorded choice
  authority,  \* the grant an approval makes
  reviewer,   \* the call of each reviewer
  waiter      \* what the waiter of each prompt has concluded

vars == <<choice, authority, reviewer, waiter>>

Prompts == Confirmations \cup Escalations

PromptStatuses      == {"pending", "approved", "rejected", "expired", "unknown"}
AuthorityStatuses   == {"none", "available", "expired", "revoked", "consumed", "unknown"}
NoCall              == [prompt |-> None, wish |-> "none", st |-> "idle", told |-> "none"]
ReviewerCalls       == [prompt : Prompts, wish : {"approved", "rejected"},
                        st : {"sent", "handled", "returned", "raised"},
                        told : {"none", "approved", "rejected"}]
Conclusions         == {"polling", "approved", "lapsed", "rejected", "expired"}

Init ==
  /\ choice = [p \in Prompts |-> "pending"]
  /\ authority = [p \in Prompts |-> "none"]
  /\ reviewer = [r \in Reviewers |-> NoCall]
  /\ waiter = [p \in Prompts |-> "polling"]

-----------------------------------------------------------------------------
(* confirmations.approve, escalations.resolve/approve/reject               *)

Resolve(r, p, wish) ==
  /\ reviewer[r].st = "idle"
  /\ reviewer' = [reviewer EXCEPT ![r] =
       [prompt |-> p, wish |-> wish, st |-> "sent", told |-> "none"]]
  /\ UNCHANGED <<choice, authority, waiter>>

\* The first choice is recorded; a later one, and a retry, changes nothing.
HandleResolve(r) ==
  LET p == reviewer[r].prompt IN
  /\ reviewer[r].st \in {"sent", "raised"}
  /\ IF choice[p] = "pending" /\ authority[p] = "none"
       THEN /\ choice' = [choice EXCEPT ![p] = reviewer[r].wish]
            /\ authority' = [authority EXCEPT ![p] =
                 IF reviewer[r].wish = "approved" THEN "available" ELSE "none"]
       ELSE UNCHANGED <<choice, authority>>
  /\ reviewer' = [reviewer EXCEPT ![r].st = IF @ = "sent" THEN "handled" ELSE @]
  /\ UNCHANGED waiter

\* Mutant: the reviewer is told its own wish.
AnswerWished(r) == reviewer[r].wish

\* The choice in the answer, which is the recorded one.
Answer(r) == choice[reviewer[r].prompt]

\* Mutant: any answer will do.
ResolveReturnsAny(r) ==
  /\ reviewer[r].st = "handled"
  /\ reviewer' = [reviewer EXCEPT ![r].st = "returned", ![r].told = Answer(r)]
  /\ UNCHANGED <<choice, authority, waiter>>

\* Only a recorded choice is an answer: anything else is an error.
ResolveReturns(r) ==
  /\ reviewer[r].st = "handled"
  /\ choice[reviewer[r].prompt] \in {"approved", "rejected"}
  /\ reviewer' = [reviewer EXCEPT ![r].st = "returned", ![r].told = Answer(r)]
  /\ UNCHANGED <<choice, authority, waiter>>

\* A time-out or a lost answer, before or after the request is handled, or
\* the API refusing a prompt that can no longer be resolved.
ResolveRaises(r) ==
  /\ reviewer[r].st \in {"sent", "handled"}
  /\ reviewer' = [reviewer EXCEPT ![r].st = "raised"]
  /\ UNCHANGED <<choice, authority, waiter>>

RetryResolve(r) ==
  /\ reviewer[r].st = "raised"
  /\ reviewer' = [reviewer EXCEPT ![r].st = "sent"]
  /\ UNCHANGED <<choice, authority, waiter>>

-----------------------------------------------------------------------------
(* The rest of a prompt's life                                             *)

PromptExpires(p) ==
  /\ choice[p] = "pending"
  /\ choice' = [choice EXCEPT ![p] = "expired"]
  /\ UNCHANGED <<authority, reviewer, waiter>>

\* Time, a Check that uses up an escalation, or authorizations.revoke, which
\* also takes prompts that are still pending.
AuthorityEnds(p) ==
  /\ \/ /\ authority[p] = "available"
        /\ \E how \in {"expired", "revoked"} \cup (IF p \in Escalations THEN {"consumed"} ELSE {}) :
             authority' = [authority EXCEPT ![p] = how]
     \/ /\ choice[p] = "pending" /\ authority[p] = "none"
        /\ authority' = [authority EXCEPT ![p] = "revoked"]
  /\ UNCHANGED <<choice, reviewer, waiter>>

-----------------------------------------------------------------------------
(* get_status                                                              *)

\* What the API answers about a prompt: child and expiry are there from the
\* approval on, resolved_at with a recorded choice.
StatusOf(p) ==
  [id |-> p, status |-> choice[p], authority |-> authority[p],
   resolved |-> choice[p] \in {"approved", "rejected"},
   child |-> p \in Confirmations /\ choice[p] = "approved"]

\* Of a legacy record some fields may be unknown, now or for good.
Answers(p) ==
  {StatusOf(p)} \cup
  IF p \in Legacy THEN {[StatusOf(p) EXCEPT !.status = "unknown", !.authority = "unknown"]}
                  ELSE {}

\* _parse_prompt_status
ParsePrompt(s) ==
  /\ s.status \in PromptStatuses
  /\ s.status \in {"pending", "expired"} => ~s.resolved

\* Mutant: an approved confirmation is expected to have its grant still.
ParseConfirmationStrict(s, p) ==
  /\ s.id = p /\ ParsePrompt(s)
  /\ s.status = "approved" => s.authority = "available"

\* _parse_confirmation_status
ParseConfirmation(s, p) ==
  /\ s.id = p
  /\ ParsePrompt(s)
  /\ s.authority \in AuthorityStatuses \ {"consumed"}
  /\ s.authority = "available" => s.status = "approved" /\ s.child
  /\ s.status = "rejected" => s.authority = "none"

\* Mutant: the id in the answer is not compared.
ParseEscalationAnyId(s, p) ==
  /\ p \in Escalations /\ ParsePrompt(s)
  /\ s.authority = "available" => s.status = "approved"
  /\ s.status = "rejected" => s.authority = "none"

\* Mutant: a used grant is not one of the known states.
ParseEscalationUnused(s, p) ==
  /\ s.id = p /\ ParsePrompt(s)
  /\ s.authority \in AuthorityStatuses \ {"consumed"}

\* _parse_escalation_status
ParseEscalation(s, p) ==
  /\ s.id = p
  /\ ParsePrompt(s)
  /\ s.authority \in AuthorityStatuses
  /\ s.authority = "available" => s.status = "approved"
  /\ s.status = "rejected" => s.authority = "none"

Parses(s, p) == IF p \in Confirmations THEN ParseConfirmation(s, p) ELSE ParseEscalation(s, p)

SameKind(p) == IF p \in Confirmations THEN Confirmations ELSE Escalations

Concluded(s) ==
  IF s.status \in {"pending", "unknown"} THEN "polling"
  ELSE IF s.status = "approved" /\ s.authority # "available" THEN "lapsed"
  ELSE s.status

\* A status that parses is believed; one that does not is asked for again.
Poll(p, q) ==
  /\ waiter[p] = "polling"
  /\ q \in SameKind(p)
  /\ \E s \in Answers(q) :
       /\ Parses(s, p)
       /\ waiter' = [waiter EXCEPT ![p] = Concluded(s)]
  /\ UNCHANGED <<choice, authority, reviewer>>

Next ==
  \/ \E r \in Reviewers :
       \/ \E p \in Prompts, wish \in {"approved", "rejected"} : Resolve(r, p, wish)
       \/ HandleResolve(r) \/ ResolveReturns(r) \/ ResolveRaises(r) \/ RetryResolve(r)
  \/ \E p \in Prompts :
       \/ PromptExpires(p) \/ AuthorityEnds(p)
       \/ \E q \in Prompts : Poll(p, q)

Spec == Init /\ [][Next]_vars

\* Prompts have an expires_at, and a waiter that keeps asking is answered about its
\* prompt in the end; of legacy records and of reviewers nothing is assumed.
FairSpec ==
  Spec /\ \A p \in Prompts \ Legacy : WF_vars(PromptExpires(p)) /\ WF_vars(Poll(p, p))

-----------------------------------------------------------------------------
\* Every variable keeps its type.
TypeOK ==
  /\ choice \in [Prompts -> PromptStatuses \ {"unknown"}]
  /\ authority \in [Prompts -> AuthorityStatuses \ {"unknown"}]
  /\ reviewer \in [Reviewers -> ReviewerCalls \cup {NoCall}]
  /\ waiter \in [Prompts -> Conclusions]

\* What a waiter concludes and what a reviewer is told is true of the prompt
\* they asked about, and stays true: racing and retrying reviewers are told
\* the one choice that counts, and no other prompt's status is believed.
ConclusionIsTrue ==
  /\ \A p \in Prompts :
       /\ waiter[p] \in {"approved", "lapsed"} => choice[p] = "approved"
       /\ waiter[p] \in {"rejected", "expired"} => choice[p] = waiter[p]
  /\ \A r \in Reviewers :
       reviewer[r].told # "none" => reviewer[r].told = choice[reviewer[r].prompt]

\* Polling for a prompt the API has the record of ends: whoever resolves it or not,
\* and whatever is revoked, used up or expires before the first poll sees it, the
\* parsers accept what became of it.  (A legacy prompt may stay unknown, which is
\* why the application's loop has to be bounded.)
WaiterSettles == \A p \in Prompts \ Legacy : <>(waiter[p] # "polling")
=============================================================================
