---------------------------- MODULE ReviewProofs ----------------------------
(***************************************************************************)
(* The waiters and reviewers of PromptReview conclude only what is         *)
(* recorded.                                                               *)
(***************************************************************************)
EXTENDS PromptReview, TLAPS

ReviewInv == TypeOK /\ ConclusionIsTrue

\* The calls of reviewers, and what is left of them when they move on.
LEMMA ReviewerMoves ==
  ASSUME TypeOK, NEW r \in Reviewers, reviewer[r].st # "idle",
         NEW s \in {"sent", "handled", "returned", "raised"}
  PROVE  LET moved == [reviewer[r] EXCEPT !.st = s] IN
         /\ reviewer[r] \in ReviewerCalls
         /\ moved \in ReviewerCalls
         /\ moved.told = reviewer[r].told /\ moved.prompt = reviewer[r].prompt
BY DEF TypeOK, ReviewerCalls, NoCall

\* A status that parses for a prompt is of that prompt, as it is or unknown.
LEMMA StatusIsOwn ==
  ASSUME NEW p \in Prompts, NEW q \in Prompts, NEW s \in Answers(q),
         Parses(s, p)
  PROVE  s.id = p /\ p = q /\ s.status \in {choice[p], "unknown"}
<1>1. s.id = q /\ s.status \in {choice[q], "unknown"}
  <2> DEFINE t == StatusOf(q)
  <2>1. t.id = q /\ t.status = choice[q]
        /\ [t EXCEPT !.status = "unknown", !.authority = "unknown"].id = q
        /\ [t EXCEPT !.status = "unknown", !.authority = "unknown"].status = "unknown"
    BY DEF StatusOf
  <2>2. s = t \/ s = [t EXCEPT !.status = "unknown", !.authority = "unknown"]
    BY DEF Answers
  <2> HIDE DEF t
  <2> QED BY <2>1, <2>2
<1>2. s.id = p BY DEF Parses, ParseConfirmation, ParseEscalation
<1> QED BY <1>1, <1>2

\* A choice, once recorded, is the choice; whoever was told one was told it.
LEMMA ReviewStep == ReviewInv /\ [Next]_vars => ReviewInv'
<1> SUFFICES ASSUME ReviewInv, [Next]_vars PROVE ReviewInv' OBVIOUS
<1>0. /\ TypeOK /\ ConclusionIsTrue
      /\ choice \in [Prompts -> {"pending", "approved", "rejected", "expired"}]
      /\ authority \in [Prompts -> AuthorityStatuses \ {"unknown"}]
      /\ reviewer \in [Reviewers -> ReviewerCalls \cup {NoCall}]
      /\ waiter \in [Prompts -> Conclusions]
  BY DEF ReviewInv, TypeOK, PromptStatuses
<1>1. ASSUME NEW r \in Reviewers, NEW c \in ReviewerCalls,
             reviewer' = [reviewer EXCEPT ![r] = c],
             c.told # "none" => c.told = choice[c.prompt],
             UNCHANGED <<choice, authority, waiter>>
      PROVE  ReviewInv'
  <2>1. TypeOK' BY <1>0, <1>1 DEF TypeOK
  <2>2. ConclusionIsTrue' BY <1>0, <1>1 DEF ConclusionIsTrue
  <2> QED BY <2>1, <2>2 DEF ReviewInv
<1>2. ASSUME NEW r \in Reviewers, NEW p \in Prompts, NEW wish \in {"approved", "rejected"},
             Resolve(r, p, wish)
      PROVE  ReviewInv'
  <2> DEFINE c == [prompt |-> p, wish |-> wish, st |-> "sent", told |-> "none"]
  <2>1. c \in ReviewerCalls /\ c.told = "none" BY DEF ReviewerCalls
  <2>2. reviewer' = [reviewer EXCEPT ![r] = c] /\ UNCHANGED <<choice, authority, waiter>>
    BY <1>2 DEF Resolve
  <2> HIDE DEF c
  <2> QED BY <1>1, <2>1, <2>2
<1>3. ASSUME NEW p \in Prompts, NEW w \in {"approved", "rejected", "expired"},
             choice[p] = "pending", choice' = [choice EXCEPT ![p] = w],
             authority' \in [Prompts -> AuthorityStatuses \ {"unknown"}],
             reviewer' \in [Reviewers -> ReviewerCalls \cup {NoCall}],
             \A r \in Reviewers : reviewer'[r].told = reviewer[r].told
                                  /\ reviewer'[r].prompt = reviewer[r].prompt,
             waiter' = waiter
      PROVE  ReviewInv'
  <2>1. TypeOK' BY <1>0, <1>3 DEF TypeOK, PromptStatuses
  <2>2. \A q \in Prompts :
          /\ waiter'[q] \in {"approved", "lapsed"} => choice'[q] = "approved"
          /\ waiter'[q] \in {"rejected", "expired"} => choice'[q] = waiter'[q]
    BY <1>0, <1>3 DEF ConclusionIsTrue
  <2>3. ASSUME NEW r \in Reviewers, reviewer'[r].told # "none"
        PROVE  reviewer'[r].told = choice'[reviewer'[r].prompt]
    <3>1. reviewer[r].told = choice[reviewer[r].prompt] /\ reviewer[r].told # "none"
      BY <1>0, <1>3, <2>3 DEF ConclusionIsTrue
    <3>2. reviewer[r].told \in {"approved", "rejected"} /\ reviewer[r].prompt \in Prompts
      BY <1>0, <3>1 DEF ReviewerCalls, NoCall
    <3> QED BY <1>0, <1>3, <3>1, <3>2
  <2>4. ConclusionIsTrue' BY <2>2, <2>3 DEF ConclusionIsTrue
  <2> QED BY <2>1, <2>4 DEF ReviewInv
<1>4. ASSUME NEW r \in Reviewers, HandleResolve(r) PROVE ReviewInv'
  <2> DEFINE p == reviewer[r].prompt
             s == IF reviewer[r].st = "sent" THEN "handled" ELSE reviewer[r].st
             moved == [reviewer[r] EXCEPT !.st = s]
  <2>1. reviewer[r].st \in {"sent", "raised"} BY <1>4 DEF HandleResolve
  <2>2. /\ reviewer[r] \in ReviewerCalls /\ moved \in ReviewerCalls
        /\ moved.told = reviewer[r].told /\ moved.prompt = reviewer[r].prompt
    BY <1>0, <2>1, ReviewerMoves
  <2>3. reviewer' = [reviewer EXCEPT ![r] = moved] /\ waiter' = waiter
    BY <1>0, <1>4 DEF HandleResolve
  <2>4. p \in Prompts /\ reviewer[r].wish \in {"approved", "rejected"}
    BY <2>2 DEF ReviewerCalls
  <2> HIDE DEF moved, p
  <2>5. CASE UNCHANGED <<choice, authority>>
    <3>1. moved.told # "none" => moved.told = choice[moved.prompt]
      BY <1>0, <2>2 DEF ConclusionIsTrue
    <3> QED BY <1>1, <2>2, <2>3, <2>5, <3>1
  <2>6. CASE choice[p] = "pending"
             /\ choice' = [choice EXCEPT ![p] = reviewer[r].wish]
             /\ authority' = [authority EXCEPT ![p] =
                  IF reviewer[r].wish = "approved" THEN "available" ELSE "none"]
    <3>1. authority' \in [Prompts -> AuthorityStatuses \ {"unknown"}]
      BY <1>0, <2>4, <2>6 DEF AuthorityStatuses
    <3>2. reviewer' \in [Reviewers -> ReviewerCalls \cup {NoCall}]
          /\ \A t \in Reviewers : reviewer'[t].told = reviewer[t].told
                                  /\ reviewer'[t].prompt = reviewer[t].prompt
      BY <1>0, <2>2, <2>3
    <3> QED BY <1>3, <2>3, <2>4, <2>6, <3>1, <3>2
  <2> QED BY <1>4, <2>5, <2>6 DEF HandleResolve, p
<1>5. ASSUME NEW r \in Reviewers, ResolveReturns(r) PROVE ReviewInv'
  <2> DEFINE c == [reviewer[r] EXCEPT !.st = "returned", !.told = choice[reviewer[r].prompt]]
  <2>1. reviewer[r].st = "handled" /\ choice[reviewer[r].prompt] \in {"approved", "rejected"}
    BY <1>5 DEF ResolveReturns
  <2>2. reviewer[r] \in ReviewerCalls BY <1>0, <2>1, ReviewerMoves
  <2>3. c \in ReviewerCalls /\ c.told = choice[c.prompt]
    BY <2>1, <2>2 DEF ReviewerCalls
  <2>4. reviewer' = [reviewer EXCEPT ![r] = c] /\ UNCHANGED <<choice, authority, waiter>>
    BY <1>0, <1>5 DEF ResolveReturns, Answer
  <2> HIDE DEF c
  <2> QED BY <1>1, <2>3, <2>4
<1>6. ASSUME NEW r \in Reviewers, ResolveRaises(r) \/ RetryResolve(r) PROVE ReviewInv'
  <2>1. PICK s \in {"sent", "raised"} :
          /\ reviewer[r].st # "idle" /\ reviewer' = [reviewer EXCEPT ![r].st = s]
          /\ UNCHANGED <<choice, authority, waiter>>
    BY <1>6 DEF ResolveRaises, RetryResolve
  <2> DEFINE moved == [reviewer[r] EXCEPT !.st = s]
  <2>2. moved \in ReviewerCalls /\ moved.told = reviewer[r].told
        /\ moved.prompt = reviewer[r].prompt
    BY <1>0, <2>1, ReviewerMoves
  <2>3. reviewer' = [reviewer EXCEPT ![r] = moved] BY <1>0, <2>1
  <2> HIDE DEF moved
  <2>4. moved.told # "none" => moved.told = choice[moved.prompt]
    BY <1>0, <2>2 DEF ConclusionIsTrue
  <2> QED BY <1>1, <2>1, <2>2, <2>3, <2>4
<1>7. ASSUME NEW p \in Prompts, PromptExpires(p) PROVE ReviewInv'
  BY <1>0, <1>3, <1>7 DEF PromptExpires
<1>8. ASSUME NEW p \in Prompts, AuthorityEnds(p) PROVE ReviewInv'
  <2>1. authority' \in [Prompts -> AuthorityStatuses \ {"unknown"}]
    BY <1>0, <1>8 DEF AuthorityEnds, AuthorityStatuses
  <2>2. UNCHANGED <<choice, reviewer, waiter>> BY <1>8 DEF AuthorityEnds
  <2> QED BY <1>0, <2>1, <2>2 DEF ReviewInv, TypeOK, ConclusionIsTrue
<1>9. ASSUME NEW p \in Prompts, NEW q \in Prompts, Poll(p, q) PROVE ReviewInv'
  <2>1. PICK s \in Answers(q) :
          Parses(s, p) /\ waiter' = [waiter EXCEPT ![p] = Concluded(s)]
    BY <1>9 DEF Poll
  <2>2. s.status \in {choice[p], "unknown"} BY <2>1, StatusIsOwn
  <2>3. UNCHANGED <<choice, authority, reviewer>> BY <1>9 DEF Poll
  <2>4. Concluded(s) \in Conclusions
        /\ (Concluded(s) \in {"approved", "lapsed"} => choice[p] = "approved")
        /\ (Concluded(s) \in {"rejected", "expired"} =>
              choice[p] = Concluded(s))
    BY <1>0, <2>2 DEF Concluded, Conclusions
  <2>5. TypeOK' BY <1>0, <2>1, <2>3, <2>4 DEF TypeOK
  <2>6. ConclusionIsTrue' BY <1>0, <2>1, <2>3, <2>4 DEF ConclusionIsTrue
  <2> QED BY <2>5, <2>6 DEF ReviewInv
<1>10. CASE UNCHANGED vars
  BY <1>10 DEF vars, ReviewInv, TypeOK, ConclusionIsTrue
<1> QED BY <1>2, <1>4, <1>5, <1>6, <1>7, <1>8, <1>9, <1>10 DEF Next

\* What waiters conclude and reviewers are told is the recorded choice, for any
\* number of them, in PromptReview.
THEOREM ReviewSafety == Spec => []ConclusionIsTrue
<1>1. Init => ReviewInv
  BY DEF Init, ReviewInv, TypeOK, ConclusionIsTrue, PromptStatuses,
     AuthorityStatuses, Conclusions, NoCall
<1>2. ReviewInv => ConclusionIsTrue BY DEF ReviewInv
<1> QED BY <1>1, <1>2, ReviewStep, PTL DEF Spec
=============================================================================
