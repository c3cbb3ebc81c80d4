------------------------------- MODULE Reports -------------------------------
(***************************************************************************)
(* What an application reports afterwards: observe.submit, settle_budget   *)
(* and acknowledge_receipt, with the reads observe.get and                 *)
(* get_receipt_acknowledgment.  Reporters race, retry after errors, and a  *)
(* request may be handled after its caller gave up.                        *)
(*                                                                         *)
(* The ledger is the API's, which is external: one entry for a key, and a  *)
(* second report under a key is answered with the first.  Answers may      *)
(* belong to other reports, except to settle_budget, which compares none.  *)
(***************************************************************************)
EXTENDS Naturals, Sequences

CONSTANTS
  Reporters,
  Subjects,   \* event ids, receipt ids
  Contents,   \* an event's agent, action, policy and reported execution (its
              \* time and sources are in no answer), an amount, a receipt hash
  Keys,       \* idempotency keys
  MaxTries,   \* bound: transmissions of one report
  Nil

ASSUME ReportsAssumption == MaxTries \in Nat \ {0} /\ Nil \notin Keys \cup Subjects

VARIABLES
  ledger,    \* the API's entries, by entry id
  posts,     \* POSTs on their way
  call       \* the call of each reporter

ledgerVars == <<ledger, posts, call>>

\* Mutant: the Idempotency-Key header of a settlement is forgotten.
KeyUnsent(rep) == IF rep.kind = "settle" THEN Nil ELSE rep.key

\* What identifies a repetition: an observed event's id, or the header.
Key(rep) == IF rep.kind = "observe" THEN rep.subject ELSE rep.key

\* A key is required of an acknowledgment and optional for a settlement.
ReportSet ==
  [kind : {"observe"}, subject : Subjects, content : Contents, key : {Nil}]
    \cup [kind : {"ack"}, subject : Subjects, content : Contents, key : Keys]
    \cup [kind : {"settle"}, subject : Subjects, content : Contents, key : Keys \cup {Nil}]

Entries  == 1..Len(ledger)
NoReport == [rep |-> Nil, st |-> "idle", tries |-> 0, made |-> 0, got |-> 0, read |-> 0]

LedgerInit ==
  /\ ledger = <<>>
  /\ posts = {}
  /\ call = [r \in Reporters |-> NoReport]

-----------------------------------------------------------------------------
Transmit(r, rep) ==
  LET n == call[r].tries + 1 IN
  /\ n <= MaxTries
  /\ posts' = posts \cup {[by |-> r, n |-> n, rep |-> rep]}
  /\ call' = [call EXCEPT ![r] = [NoReport EXCEPT !.rep = rep, !.st = "sent", !.tries = n]]
  /\ UNCHANGED ledger

Report(r) == call[r].st = "idle" /\ \E rep \in ReportSet : Transmit(r, rep)

Retry(r) == call[r].st = "raised" /\ Transmit(r, call[r].rep)

HandleReport(q) ==
  LET known == {a \in Entries : /\ ledger[a].kind = q.rep.kind
                                /\ Key(q.rep) # Nil /\ Key(ledger[a]) = Key(q.rep)}
      a == IF known # {} THEN CHOOSE b \in known : TRUE ELSE Len(ledger) + 1
      c == call[q.by]
  IN
  /\ ledger' = IF known # {} THEN ledger ELSE Append(ledger, q.rep)
  /\ posts' = posts \ {q}
  /\ call' = IF c.st = "sent" /\ c.tries = q.n THEN [call EXCEPT ![q.by].made = a] ELSE call

\* Mutant: only the event's id is compared.
StatusMatchesId(rep, a) == ledger[a].subject = rep.subject

\* Observe _status, for an event just submitted.
StatusMatches(rep, a) ==
  ledger[a].subject = rep.subject /\ ledger[a].content = rep.content

\* Mutant: an acknowledgment of any receipt is taken.
AcknowledgmentMatchesAny(rep, a) == ledger[a].kind = "ack"

\* acknowledge_receipt: the hash in the answer is not compared.
AcknowledgmentMatches(rep, a) == ledger[a].subject = rep.subject

Accepts(r, a) ==
  CASE call[r].rep.kind = "observe" -> StatusMatches(call[r].rep, a)
    [] call[r].rep.kind = "ack"     -> AcknowledgmentMatches(call[r].rep, a)
    [] OTHER                        -> a = call[r].made

ReportReturns(r, a) ==
  /\ call[r].st = "sent" /\ call[r].made # 0
  /\ ledger[a].kind = call[r].rep.kind
  /\ Accepts(r, a)
  /\ call' = [call EXCEPT ![r].st = "returned", ![r].got = a]
  /\ UNCHANGED <<ledger, posts>>

\* A time-out, a lost answer, or an answer that is refused.
ReportRaises(r) ==
  /\ call[r].st = "sent"
  /\ call' = [call EXCEPT ![r].st = "raised"]
  /\ UNCHANGED <<ledger, posts>>

\* observe.get
GetStatus(r, a) ==
  /\ call[r].st = "returned" /\ call[r].rep.kind = "observe"
  /\ ledger[a].kind = "observe" /\ ledger[a].subject = call[r].rep.subject
  /\ call' = [call EXCEPT ![r].read = a]
  /\ UNCHANGED <<ledger, posts>>

\* Mutant: the acknowledgment_id is not compared.
GetAcknowledgmentAny(r, a) ==
  /\ call[r].st = "returned" /\ call[r].rep.kind = "ack"
  /\ ledger[a].kind = "ack" /\ ledger[a].subject = call[r].rep.subject
  /\ call' = [call EXCEPT ![r].read = a]
  /\ UNCHANGED <<ledger, posts>>

GetAcknowledgment(r, a) ==
  /\ call[r].st = "returned" /\ call[r].rep.kind = "ack"
  /\ ledger[a].kind = "ack" /\ ledger[a].subject = call[r].rep.subject /\ a = call[r].got
  /\ call' = [call EXCEPT ![r].read = a]
  /\ UNCHANGED <<ledger, posts>>

LedgerNext ==
  \/ \E q \in posts : HandleReport(q)
  \/ \E r \in Reporters :
       \/ Report(r) \/ Retry(r) \/ ReportRaises(r)
       \/ \E a \in Entries : ReportReturns(r, a) \/ GetStatus(r, a) \/ GetAcknowledgment(r, a)

LedgerSpec == LedgerInit /\ [][LedgerNext]_ledgerVars

-----------------------------------------------------------------------------
Returned(r, kind) == call[r].st = "returned" /\ call[r].rep.kind = kind

\* Every variable keeps its type.
LedgerTypeOK ==
  /\ ledger \in Seq(ReportSet)
  /\ posts \subseteq [by : Reporters, n : 1..MaxTries, rep : ReportSet]
  /\ call \in [Reporters ->
       {NoReport} \cup [rep : ReportSet, st : {"sent", "returned", "raised"}, tries : 1..MaxTries,
                    made : Entries \cup {0}, got : Entries \cup {0}, read : Entries \cup {0}]]

\* observe.submit returns only if the event is on record as it was reported:
\* reporters that use one event id for different events cannot both believe
\* that theirs is, and a later observe.get shows the event that was reported.
ObservedAsReported ==
  \A r \in Reporters :
    Returned(r, "observe") =>
      /\ \A a \in {call[r].got, call[r].read} \ {0} :
           ledger[a].subject = call[r].rep.subject /\ ledger[a].content = call[r].rep.content
      /\ \A t \in Reporters :
           Returned(t, "observe") /\ call[t].rep.subject = call[r].rep.subject =>
             call[t].rep.content = call[r].rep.content

\* An acknowledgment handed out is one of the receipt it was asked for, and
\* reading it again gives the same hash and time, whoever else acknowledges.
AcknowledgmentIsOwn ==
  \A r \in Reporters :
    Returned(r, "ack") =>
      \A a \in {call[r].got, call[r].read} \ {0} :
        /\ ledger[a].subject = call[r].rep.subject
        /\ ledger[a].content = ledger[call[r].got].content

\* A settlement with a key is booked once, however often it is sent.
SettledOnce ==
  \A a, b \in Entries :
    /\ a # b
    /\ ledger[a].kind = "settle" /\ ledger[b].kind = "settle"
    /\ ledger[a].key # Nil
    => ledger[a].key # ledger[b].key
=============================================================================
