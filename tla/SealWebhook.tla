----------------------------- MODULE SealWebhook -----------------------------
(***************************************************************************)
(* seal_webhook.py: applications that seal events through a private URL    *)
(* with the loop of the README: send, then get_delivery until the delivery *)
(* is settled, and all of it again after an error.  Requests may be        *)
(* handled after their caller gave up; reads may be answered with another  *)
(* delivery, and an answer may join what does not belong together.         *)
(*                                                                         *)
(* The record of an event is the event itself, and so are the details sent *)
(* with it in the Allowly-Seal-* headers.  The receiver is external.       *)
(***************************************************************************)
EXTENDS Naturals, Sequences, FiniteSets

CONSTANTS
  Events,
  Keyed,       \* events sent with an idempotency_key
  Detailed,    \* events sent with type, reference or statement
  OldRuntime,  \* the receiver leaves metadata out of its answers
  MaxSends,    \* bound: calls of send for one event
  None

ASSUME SealAssumption ==
  /\ Keyed \subseteq Events /\ Detailed \subseteq Events
  /\ OldRuntime \in BOOLEAN
  /\ MaxSends \in Nat \ {0}
  /\ None \notin Events

VARIABLES
  deliveries,  \* what the receiver has accepted, by attempt_id
  requests,    \* POSTs on their way to the receiver
  sender,      \* the application's call for each event
  audit        \* what get_receipt returned for each event

vars == <<deliveries, requests, sender, audit>>

Workspaces  == {"ours", "other"}
Moving      == {"received", "signing"}
Statuses    == Moving \cup {"sealed", "rejected", "failed"}
Attempts    == 1..Len(deliveries)
Idle(n)     == [st |-> "idle", sends |-> n, made |-> 0, got |-> None]

Init ==
  /\ deliveries = <<>>
  /\ requests = {}
  /\ sender = [e \in Events |-> Idle(0)]
  /\ audit = [e \in Events |-> None]

-----------------------------------------------------------------------------
(* The receiver                                                            *)

\* Mutant: the Idempotency-Key header is forgotten.
HeadersUnkeyed(e, n) == [event |-> e, n |-> n, key |-> None, meta |-> IF e \in Detailed THEN e ELSE None]

\* What a send transmits.
Headers(e, n) ==
  [event |-> e, n |-> n, key |-> IF e \in Keyed THEN e ELSE None,
   meta |-> IF e \in Detailed THEN e ELSE None]

\* The delivery a request stands for: a known key's, or a new one.
AttemptOf(r) ==
  LET known == {a \in Attempts : deliveries[a].key = r.key /\ r.key # None}
  IN  IF known # {} THEN CHOOSE a \in known : TRUE ELSE Len(deliveries) + 1

HandleSend(r) ==
  LET a == AttemptOf(r)
      e == r.event
  IN
  /\ deliveries' = IF a \in Attempts THEN deliveries
                   ELSE Append(deliveries, [event |-> e, key |-> r.key, meta |-> r.meta, status |-> "received"])
  /\ requests' = requests \ {r}
  /\ sender' = IF sender[e].st = "sending" /\ sender[e].sends = r.n
               THEN [sender EXCEPT ![e].made = a] ELSE sender
  /\ UNCHANGED audit

DeliveryMoves(a) ==
  /\ deliveries[a].status \in Moving
  /\ \E s \in IF deliveries[a].status = "received" THEN {"signing", "rejected"} ELSE {"sealed", "failed"} :
       deliveries' = [deliveries EXCEPT ![a].status = s]
  /\ UNCHANGED <<requests, sender, audit>>

\* The signed receipt of attempt a, whose receipt_id is the attempt's number.
Receipt(a) == [id |-> a, ws |-> "ours", event |-> deliveries[a].event, meta |-> deliveries[a].meta]

\* The answer about attempt a as it should be.
Row(a) ==
  LET sealed == deliveries[a].status = "sealed" IN
  [attempt |-> a, ws |-> "ours", status |-> deliveries[a].status,
   meta |-> IF OldRuntime THEN None ELSE deliveries[a].meta,
   rid |-> IF sealed THEN a ELSE 0, receipt |-> IF sealed THEN Receipt(a) ELSE None]

\* The answers that can come: also in the name of another workspace, with a
\* status this client does not know, without the receipt, or with the
\* metadata or the receipt of another event.
Answers(a) ==
  LET others == {b \in Attempts : deliveries[b].status = "sealed"} IN
  {Row(a), [Row(a) EXCEPT !.ws = "other"], [Row(a) EXCEPT !.status = "unheard of"]}
    \cup IF deliveries[a].status # "sealed" THEN {}
         ELSE {[Row(a) EXCEPT !.receipt = None]}
              \cup {[Row(a) EXCEPT !.meta = deliveries[b].meta] : b \in others}
              \cup {[Row(a) EXCEPT !.receipt = Receipt(b)] : b \in others}

-----------------------------------------------------------------------------
(* _parse_delivery                                                         *)

\* Mutant: the receipt_id of the receipt is not compared.
BoundAnyReceipt(d) ==
  d.receipt.ws = d.ws /\ d.meta \in {None, d.receipt.meta}

\* Mutant: metadata is compared also where there is none.
BoundStrict(d) ==
  d.receipt.id = d.rid /\ d.receipt.ws = d.ws /\ d.meta = d.receipt.meta

\* A receipt is that of the delivery it comes with.
Bound(d) ==
  /\ d.receipt.id = d.rid
  /\ d.receipt.ws = d.ws
  /\ d.meta \in {None, d.receipt.meta}

\* Mutant: any status is taken.
ParsesAnyStatus(d) == d.receipt # None => Bound(d)

Parses(d) == d.status \in Statuses /\ (d.receipt # None => Bound(d))

\* Mutant: the metadata next to the receipt is kept.
ParsedUnsigned(d) == d

\* What the caller gets: the signed metadata, once there is a receipt.
Parsed(d) == IF d.receipt = None THEN d ELSE [d EXCEPT !.meta = d.receipt.meta]

-----------------------------------------------------------------------------
(* The application                                                         *)

Send(e) ==
  LET n == sender[e].sends + 1 IN
  /\ sender[e].st = "idle"
  /\ n <= MaxSends
  /\ requests' = requests \cup {Headers(e, n)}
  /\ sender' = [sender EXCEPT ![e].st = "sending", ![e].sends = n]
  /\ UNCHANGED <<deliveries, audit>>

\* The delivery d is in the caller's hands: the loop goes on or ends.
Hold(e, d) ==
  /\ sender' = [sender EXCEPT ![e].st = IF d.status \in Moving THEN "polling" ELSE "settled",
                              ![e].got = Parsed(d)]
  /\ UNCHANGED <<deliveries, requests, audit>>

\* The answer of a send is not compared with the record: it is the request's.
SendReturns(e, d) ==
  /\ sender[e].st = "sending" /\ sender[e].made # 0
  /\ d \in Answers(sender[e].made)
  /\ Parses(d)
  /\ Hold(e, d)

\* Mutant: the attempt_id of the answer is not compared.
GetDeliveryAny(e, d) ==
  /\ sender[e].st = "polling"
  /\ Parses(d)
  /\ Hold(e, d)

GetDelivery(e, d) ==
  /\ sender[e].st = "polling"
  /\ Parses(d)
  /\ d.attempt = sender[e].got.attempt
  /\ Hold(e, d)

\* A lost connection, an error of the API or an answer that is refused: the
\* application starts again with send.
CallRaises(e) ==
  /\ sender[e].st \in {"sending", "polling"}
  /\ sender[e].sends < MaxSends
  /\ sender' = [sender EXCEPT ![e] = Idle(sender[e].sends)]
  /\ UNCHANGED <<deliveries, requests, audit>>

\* Mutant: the receipt_id of the answer is not compared.
GetReceiptAny(e, d) ==
  /\ sender[e].st = "settled" /\ sender[e].got.rid # 0
  /\ Parses(d)
  /\ audit' = [audit EXCEPT ![e] = Parsed(d)]
  /\ UNCHANGED <<deliveries, requests, sender>>

GetReceipt(e, d) ==
  /\ sender[e].st = "settled" /\ sender[e].got.rid # 0
  /\ Parses(d)
  /\ d.rid = sender[e].got.rid
  /\ audit' = [audit EXCEPT ![e] = Parsed(d)]
  /\ UNCHANGED <<deliveries, requests, sender>>

Next ==
  \/ \E r \in requests : HandleSend(r)
  \/ \E a \in Attempts : DeliveryMoves(a)
  \/ \E e \in Events :
       \/ Send(e)
       \/ CallRaises(e)
       \/ \E a \in Attempts : \E d \in Answers(a) :
            SendReturns(e, d) \/ GetDelivery(e, d) \/ GetReceipt(e, d)

Spec == Init /\ [][Next]_vars

\* The call answered as it should be.
Answered(e) ==
  \/ sender[e].made # 0 /\ SendReturns(e, Row(sender[e].made))
  \/ sender[e].got # None /\ GetDelivery(e, Row(sender[e].got.attempt))

\* The application repeats send and get_delivery until the loop ends, the
\* receiver works off what it has, and calls fail MaxSends - 1 times at most.
\* A send refused at first may be answered later: strong fairness.
FairSpec ==
  /\ Spec
  /\ WF_vars(\E r \in requests : HandleSend(r))
  /\ \A a \in 1..(MaxSends * Cardinality(Events)) : WF_vars(a \in Attempts /\ DeliveryMoves(a))
  /\ \A e \in Events : WF_vars(Send(e)) /\ SF_vars(Answered(e))

-----------------------------------------------------------------------------
Deliveries ==
  [attempt : Nat, ws : Workspaces, status : Statuses, meta : Events \cup {None}, rid : Nat,
   receipt : {None} \cup [id : Nat, ws : Workspaces, event : Events, meta : Events \cup {None}]]

\* Every variable keeps its type.
TypeOK ==
  /\ deliveries \in Seq(
       [event : Events, key : Events \cup {None}, meta : Events \cup {None}, status : Statuses])
  /\ requests \subseteq [event : Events, n : 1..MaxSends, key : Events \cup {None}, meta : Events \cup {None}]
  /\ sender \in [Events -> [st : {"idle", "sending", "polling", "settled"}, sends : 0..MaxSends,
                            made : {0} \cup Attempts, got : {None} \cup Deliveries]]
  /\ audit \in [Events -> {None} \cup Deliveries]

\* However often send is repeated, and however late its requests are handled,
\* an event with an idempotency_key is sealed once.
SealedOnce ==
  \A a, b \in Attempts :
    a # b /\ deliveries[a].event = deliveries[b].event => deliveries[a].event \notin Keyed

\* What send, get_delivery and get_receipt say of an event is about that
\* event: the outcome the caller acts on is its delivery's and final, and a
\* receipt is its own, in the workspace and with the details that are signed,
\* whatever else was in the answer.
AnswerIsOwn ==
  \A e \in Events : \A d \in {sender[e].got, audit[e]} \ {None} :
    /\ deliveries[d.attempt].event = e
    /\ d.status \notin Moving => d.status = deliveries[d.attempt].status
    /\ d.receipt # None =>
         /\ d.receipt.event = e
         /\ d.receipt.id = d.attempt /\ d.rid = d.attempt
         /\ d.ws = "ours"
         /\ d.meta = IF e \in Detailed THEN e ELSE None

\* The loop of an event ends, also with a receiver that leaves out metadata.
EventSettles == \A e \in Events : <>(sender[e].st = "settled")
=============================================================================
