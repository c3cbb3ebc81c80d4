---------------------------- MODULE LedgerProofs ----------------------------
(***************************************************************************)
(* What is sent again and again is on record once, and an answer is about  *)
(* what was sent: the deliveries of SealWebhook and the ledger of Reports. *)
(***************************************************************************)
EXTENDS SealWebhook, Reports, TLAPS

DeliveryRecords ==
  [event : Events, key : Events \cup {None}, meta : Events \cup {None}, status : Statuses]

\* What the headers of a send say of its event.
KeyOf(e)     == IF e \in Keyed THEN e ELSE None
DetailsOf(e) == IF e \in Detailed THEN e ELSE None

\* Requests and deliveries carry the key and the details of their event.
HeaderInv ==
  /\ \A r \in requests : r.key = KeyOf(r.event) /\ r.meta = DetailsOf(r.event)
  /\ \A a \in Attempts :
       deliveries[a].key = KeyOf(deliveries[a].event)
       /\ deliveries[a].meta = DetailsOf(deliveries[a].event)

\* The delivery d, as a caller holds it, is that of the event e.
Own(e, d) ==
  /\ d.attempt \in Attempts /\ deliveries[d.attempt].event = e
  /\ d.rid \in {0, d.attempt}
  /\ d.status \notin Moving => d.status = deliveries[d.attempt].status
  /\ d.receipt # None =>
       /\ d.receipt.event = e
       /\ d.receipt.id = d.attempt /\ d.rid = d.attempt
       /\ d.ws = "ours"
       /\ d.meta = DetailsOf(e)

\* A send stands for a delivery of its event, and so does what a caller holds.
CallerInv ==
  \A e \in Events :
    /\ sender[e].made # 0 => deliveries[sender[e].made].event = e
    /\ sender[e].st \in {"idle", "sending"} => sender[e].got = None
    /\ sender[e].st \in {"polling", "settled"} => Own(e, sender[e].got)
    /\ audit[e] # None => Own(e, audit[e])

SealInv == TypeOK /\ HeaderInv /\ SealedOnce /\ CallerInv

-----------------------------------------------------------------------------
\* The deliveries there are keep their event, key and details, and their final status.
Grows ==
  /\ deliveries' \in Seq(DeliveryRecords)
  /\ Len(deliveries) <= Len(deliveries')
  /\ \A a \in Attempts :
       /\ deliveries'[a].event = deliveries[a].event
       /\ deliveries'[a].key = deliveries[a].key
       /\ deliveries'[a].meta = deliveries[a].meta
       /\ deliveries[a].status \notin Moving => deliveries'[a].status = deliveries[a].status

\* The deliveries, one by one.
LEMMA DeliveryTypes ==
  ASSUME TypeOK
  PROVE  /\ deliveries \in Seq(DeliveryRecords) /\ Len(deliveries) \in Nat
         /\ \A a \in Attempts : deliveries[a] \in DeliveryRecords
<1>1. deliveries \in Seq(DeliveryRecords) BY DEF TypeOK, DeliveryRecords
<1> QED BY <1>1 DEF Attempts

\* The receiver adds a delivery only for a request whose key it does not know.
LEMMA HandleSendWrites ==
  ASSUME TypeOK, HeaderInv, NEW r \in requests, HandleSend(r)
  PROVE  LET a == AttemptOf(r) IN
         /\ Grows
         /\ a \in 1..Len(deliveries') /\ deliveries'[a].event = r.event
         /\ \/ deliveries' = deliveries
            \/ /\ a = Len(deliveries) + 1 /\ Len(deliveries') = a
               /\ deliveries'[a].key = r.key /\ deliveries'[a].meta = r.meta
               /\ r.key # None => \A b \in Attempts : deliveries[b].key # r.key
<1> DEFINE a == AttemptOf(r)
           known == {b \in Attempts : deliveries[b].key = r.key /\ r.key # None}
           new == [event |-> r.event, key |-> r.key, meta |-> r.meta, status |-> "received"]
<1>0. /\ deliveries \in Seq(DeliveryRecords) /\ Len(deliveries) \in Nat
      /\ \A b \in Attempts : deliveries[b] \in DeliveryRecords
      /\ r.event \in Events /\ new \in DeliveryRecords
  BY DeliveryTypes DEF TypeOK, DeliveryRecords, Statuses, Moving
<1>1. CASE known # {}
  <2>1. a \in known BY <1>1 DEF AttemptOf
  <2>2. deliveries' = deliveries BY <2>1 DEF HandleSend
  <2>3. deliveries[a].key = r.key /\ r.key # None /\ a \in Attempts BY <2>1
  <2>4. deliveries[a].event = r.event BY <2>3 DEF HeaderInv, KeyOf
  <2> HIDE DEF a
  <2>5. Grows BY <1>0, <2>2 DEF Grows
  <2> QED BY <2>2, <2>3, <2>4, <2>5 DEF a, Attempts
<1>2. CASE known = {}
  <2>1. a = Len(deliveries) + 1 BY <1>2 DEF AttemptOf
  <2>2. deliveries' = Append(deliveries, new) BY <1>0, <2>1 DEF HandleSend, Attempts
  <2> HIDE DEF a, new
  <2>3. /\ deliveries' \in Seq(DeliveryRecords) /\ Len(deliveries') = Len(deliveries) + 1
        /\ deliveries'[Len(deliveries) + 1] = new
        /\ \A b \in Attempts : deliveries'[b] = deliveries[b]
    BY <1>0, <2>2 DEF Attempts
  <2>4. Grows BY <1>0, <2>3 DEF Grows
  <2>5. r.key # None => \A b \in Attempts : deliveries[b].key # r.key BY <1>2
  <2> QED BY <1>0, <2>1, <2>3, <2>4, <2>5 DEF a, new
<1> QED BY <1>1, <1>2

\* A delivery moves towards its end.
LEMMA DeliveryMovesWrites ==
  ASSUME TypeOK, NEW a \in Attempts, DeliveryMoves(a)
  PROVE  Grows /\ Len(deliveries') = Len(deliveries)
<1>1. deliveries \in Seq(DeliveryRecords) /\ deliveries[a] \in DeliveryRecords
      /\ deliveries[a].status \in Moving
  BY DeliveryTypes DEF DeliveryMoves
<1>2. PICK s \in Statuses : deliveries' = [deliveries EXCEPT ![a].status = s]
  BY DEF DeliveryMoves, Statuses, Moving
<1> DEFINE moved == [deliveries[a] EXCEPT !.status = s]
<1>3. moved \in DeliveryRecords /\ moved.event = deliveries[a].event
      /\ moved.key = deliveries[a].key /\ moved.meta = deliveries[a].meta
  BY <1>1 DEF DeliveryRecords
<1>4. deliveries' = [deliveries EXCEPT ![a] = moved] BY <1>2
<1> HIDE DEF moved
<1>5. deliveries' \in Seq(DeliveryRecords) /\ Len(deliveries') = Len(deliveries)
      /\ deliveries'[a] = moved /\ \A b \in Attempts : b # a => deliveries'[b] = deliveries[b]
  BY <1>1, <1>3, <1>4 DEF Attempts
<1> QED BY <1>1, <1>3, <1>5 DEF Grows, Attempts

\* What a caller holds stays its event's.
LEMMA OwnStays ==
  ASSUME TypeOK, Grows, NEW e, NEW d, Own(e, d)
  PROVE  Own(e, d)'
<1>1. d.attempt \in Attempts' BY DEF Own, Grows, Attempts, TypeOK
<1> QED BY <1>1 DEF Own, Grows

\* Whatever an answer is made of: if the client takes it, it is of its attempt,
\* and a receipt with it is that attempt's, with the details that are signed.
LEMMA AnswerFacts ==
  ASSUME TypeOK, HeaderInv, NEW a \in Attempts, NEW d \in Answers(a), Parses(d)
  PROVE  /\ d.attempt = a /\ d.rid \in {0, a}
         /\ Parsed(d) \in Deliveries
         /\ Parsed(d).attempt = a /\ Parsed(d).rid = d.rid /\ Parsed(d).status = d.status
         /\ Own(deliveries[a].event, Parsed(d))
<1> DEFINE x == deliveries[a]
           e == x.event
           sealed == x.status = "sealed"
           row == Row(a)
           others == {b \in Attempts : deliveries[b].status = "sealed"}
<1>0. /\ x \in DeliveryRecords /\ e \in Events /\ x.meta = DetailsOf(e) /\ a \in Nat \ {0}
      /\ \A b \in Attempts : deliveries[b] \in DeliveryRecords /\ b \in Nat
      /\ "ours" \in Workspaces
  BY DeliveryTypes DEF HeaderInv, DeliveryRecords, Attempts, Workspaces
<1>1. row = [attempt |-> a, ws |-> "ours", status |-> x.status,
             meta |-> IF OldRuntime THEN None ELSE x.meta,
             rid |-> IF sealed THEN a ELSE 0, receipt |-> IF sealed THEN Receipt(a) ELSE None]
  BY DEF Row
<1>2. \A b \in Attempts :
        /\ Receipt(b).id = b /\ Receipt(b).ws = "ours"
        /\ Receipt(b).event = deliveries[b].event /\ Receipt(b).meta = deliveries[b].meta
        /\ Receipt(b) \in [id : Nat, ws : Workspaces, event : Events, meta : Events \cup {None}]
  BY <1>0 DEF Receipt, DeliveryRecords
<1> HIDE DEF row, x
<1>3. \/ d = row \/ d = [row EXCEPT !.ws = "other"]
      \/ sealed /\ d = [row EXCEPT !.receipt = None]
      \/ sealed /\ \E b \in others : d = [row EXCEPT !.meta = deliveries[b].meta]
      \/ sealed /\ \E b \in others : d = [row EXCEPT !.receipt = Receipt(b)]
  <2>1. \/ d \in {row, [row EXCEPT !.ws = "other"], [row EXCEPT !.status = "unheard of"]}
        \/ sealed /\ d \in {[row EXCEPT !.receipt = None]}
                           \cup {[row EXCEPT !.meta = deliveries[b].meta] : b \in others}
                           \cup {[row EXCEPT !.receipt = Receipt(b)] : b \in others}
    BY DEF Answers, row, x
  <2>2. d # [row EXCEPT !.status = "unheard of"] BY <1>1 DEF Parses, Statuses, Moving
  <2> QED BY <2>1, <2>2
<1>4. /\ d = [attempt |-> d.attempt, ws |-> d.ws, status |-> d.status, meta |-> d.meta,
              rid |-> d.rid, receipt |-> d.receipt]
      /\ d.attempt = a /\ d.status = x.status /\ d.rid = (IF sealed THEN a ELSE 0)
      /\ d.ws \in Workspaces /\ d.meta \in Events \cup {None}
      /\ d.receipt # None => sealed /\ \E b \in Attempts : d.receipt = Receipt(b)
  <2>1. \A b \in others : b \in Attempts /\ deliveries[b].meta \in Events \cup {None}
    BY <1>0 DEF DeliveryRecords
  <2>2. row.meta \in Events \cup {None} BY <1>0, <1>1 DEF DeliveryRecords
  <2>3. CASE d = row \/ d = [row EXCEPT !.ws = "other"]
    BY <1>0, <1>1, <2>2, <2>3 DEF Workspaces
  <2>4. CASE sealed /\ d = [row EXCEPT !.receipt = None]
    BY <1>0, <1>1, <2>2, <2>4
  <2>5. ASSUME sealed, NEW b \in others, d = [row EXCEPT !.meta = deliveries[b].meta] PROVE <1>4!:
    BY <1>0, <1>1, <2>1, <2>5
  <2>6. ASSUME sealed, NEW b \in others, d = [row EXCEPT !.receipt = Receipt(b)] PROVE <1>4!:
    BY <1>0, <1>1, <2>1, <2>2, <2>6
  <2> QED BY <1>3, <2>3, <2>4, <2>5, <2>6
<1>5. CASE d.receipt = None
  <2>1. Parsed(d) = d BY <1>5 DEF Parsed
  <2>2. d \in Deliveries BY <1>0, <1>4, <1>5 DEF Deliveries, Parses
  <2>3. Own(e, d) BY <1>0, <1>4, <1>5 DEF Own, x
  <2> QED BY <1>4, <2>1, <2>2, <2>3 DEF x
<1>6. CASE d.receipt # None
  <2>1. PICK b \in Attempts : d.receipt = Receipt(b) BY <1>4, <1>6
  <2>2. Bound(d) /\ d.status \in Statuses BY <1>6 DEF Parses
  <2>3. b = a /\ d.ws = "ours" BY <1>2, <1>4, <1>6, <2>1, <2>2 DEF Bound
  <2>4. d.receipt.event = e /\ d.receipt.meta = DetailsOf(e) /\ d.receipt.id = a /\ d.rid = a
    BY <1>0, <1>2, <1>4, <1>6, <2>1, <2>3 DEF x
  <2> DEFINE p == [d EXCEPT !.meta = d.receipt.meta]
  <2>5. Parsed(d) = p BY <1>6 DEF Parsed
  <2>6. p = [attempt |-> a, ws |-> "ours", status |-> x.status, meta |-> DetailsOf(e),
             rid |-> a, receipt |-> Receipt(a)]
    BY <1>4, <2>1, <2>3, <2>4
  <2> HIDE DEF p
  <2>7. p \in Deliveries
    BY <1>0, <1>2, <1>4, <2>2, <2>6 DEF Deliveries, DetailsOf
  <2>8. Own(e, p) BY <1>0, <1>2, <2>1, <2>3, <2>4, <2>6 DEF Own, x
  <2> QED BY <1>4, <2>4, <2>5, <2>6, <2>7, <2>8 DEF x
<1> QED BY <1>5, <1>6

-----------------------------------------------------------------------------
Calls ==
  [st : {"idle", "sending", "polling", "settled"}, sends : 0..MaxSends,
   made : {0} \cup Attempts, got : {None} \cup Deliveries]

\* The attempts there are stay, so the calls keep their type.
LEMMA CallsStay ==
  ASSUME TypeOK, Grows
  PROVE  Attempts \subseteq Attempts' /\ Calls \subseteq Calls'
<1>1. Attempts \subseteq Attempts' BY DeliveryTypes DEF Grows, Attempts
<1> QED BY <1>1 DEF Calls, Deliveries

\* A call is one of Calls, field by field.
LEMMA CallTypes ==
  ASSUME TypeOK
  PROVE  /\ sender \in [Events -> Calls] /\ audit \in [Events -> {None} \cup Deliveries]
         /\ \A e \in Events :
              /\ sender[e] \in Calls /\ sender[e].sends \in 0..MaxSends
              /\ sender[e].made \in {0} \cup Attempts /\ sender[e].got \in {None} \cup Deliveries
<1>1. sender \in [Events -> Calls] /\ audit \in [Events -> {None} \cup Deliveries]
  BY DEF TypeOK, Calls
<1> QED BY <1>1 DEF Calls

\* A request that is handled answers its own call at most.
LEMMA HandleSendInv ==
  ASSUME SealInv, NEW r \in requests, HandleSend(r)
  PROVE  SealInv'
<1> DEFINE a == AttemptOf(r)
           e == r.event
<1>0. TypeOK /\ HeaderInv /\ SealedOnce /\ CallerInv BY DEF SealInv
<1>1. /\ Grows /\ a \in 1..Len(deliveries') /\ deliveries'[a].event = e
      /\ \/ deliveries' = deliveries
         \/ /\ a = Len(deliveries) + 1 /\ Len(deliveries') = a
            /\ deliveries'[a].key = r.key /\ deliveries'[a].meta = r.meta
            /\ r.key # None => \A b \in Attempts : deliveries[b].key # r.key
  BY <1>0, HandleSendWrites
<1>2. /\ requests' = requests \ {r} /\ audit' = audit
      /\ sender' = IF sender[e].st = "sending" /\ sender[e].sends = r.n
                   THEN [sender EXCEPT ![e].made = a] ELSE sender
      /\ e \in Events /\ r.key = KeyOf(e) /\ r.meta = DetailsOf(e)
  BY <1>0 DEF HandleSend, TypeOK, HeaderInv
<1> HIDE DEF a, e
<1>3. Len(deliveries) \in Nat /\ Len(deliveries') \in Nat /\ a \in Attempts'
      /\ \A b \in Attempts' : b \in Attempts \/ b = a
  BY <1>0, <1>1, DeliveryTypes DEF Grows, Attempts
<1>4. TypeOK'
  <2>1. Attempts \subseteq Attempts' /\ Calls \subseteq Calls' BY <1>0, <1>1, CallsStay
  <2>2. sender \in [Events -> Calls] BY <1>0, CallTypes
  <2>3. [sender[e] EXCEPT !.made = a] \in Calls'
    <3>1. sender[e] \in Calls' BY <1>2, <2>1, <2>2
    <3> QED BY <1>3, <3>1 DEF Calls
  <2>4. sender' \in [Events -> Calls'] BY <1>2, <2>1, <2>2, <2>3
  <2>5. deliveries' \in Seq(DeliveryRecords) BY <1>1 DEF Grows
  <2> QED BY <1>0, <1>2, <2>4, <2>5 DEF TypeOK, Calls, DeliveryRecords, Deliveries
<1>5. HeaderInv'
  <2>1. \A b \in Attempts' : deliveries'[b].key = KeyOf(deliveries'[b].event)
                             /\ deliveries'[b].meta = DetailsOf(deliveries'[b].event)
    <3>1. ASSUME NEW b \in Attempts PROVE deliveries'[b].key = KeyOf(deliveries'[b].event)
                                          /\ deliveries'[b].meta = DetailsOf(deliveries'[b].event)
      BY <1>0, <1>1, <3>1 DEF Grows, HeaderInv
    <3>2. CASE deliveries' = deliveries BY <3>1, <3>2 DEF Attempts
    <3>3. CASE deliveries'[a].key = r.key /\ deliveries'[a].meta = r.meta
      BY <1>1, <1>2, <1>3, <3>1, <3>3
    <3> QED BY <1>1, <3>2, <3>3
  <2> QED BY <1>0, <1>2, <2>1 DEF HeaderInv, KeyOf, DetailsOf
<1>6. SealedOnce'
  <2>1. CASE deliveries' = deliveries BY <1>0, <2>1 DEF SealedOnce, Attempts
  <2>2. CASE a = Len(deliveries) + 1 /\ (r.key # None => \A b \in Attempts : deliveries[b].key # r.key)
    <3>1. ASSUME NEW b \in Attempts, deliveries[b].event = e PROVE e \notin Keyed
      <4>1. deliveries[b].key = KeyOf(e) BY <1>0, <3>1 DEF HeaderInv
      <4>2. r.key = None BY <1>2, <2>2, <4>1
      <4> QED BY <1>2, <4>2, SealAssumption DEF KeyOf
    <3>2. \A b \in Attempts : deliveries'[b].event = deliveries[b].event BY <1>1 DEF Grows
    <3> QED BY <1>0, <1>1, <1>3, <3>1, <3>2 DEF SealedOnce
  <2> QED BY <1>1, <2>1, <2>2
<1>7. CallerInv'
  <2> SUFFICES ASSUME NEW f \in Events
               PROVE  /\ sender'[f].made # 0 => deliveries'[sender'[f].made].event = f
                      /\ sender'[f].st \in {"idle", "sending"} => sender'[f].got = None
                      /\ sender'[f].st \in {"polling", "settled"} => Own(f, sender[f].got)'
                      /\ audit'[f] # None => Own(f, audit[f])'
    BY DEF CallerInv
  <2>1. \A d : Own(f, d) => Own(f, d)' BY <1>0, <1>1, OwnStays
  <2>2. audit'[f] # None => Own(f, audit[f])'
    <3>1. audit[f] # None => Own(f, audit[f]) BY <1>0 DEF CallerInv
    <3> QED BY <1>2, <2>1, <3>1 DEF Own
  <2>3. /\ sender'[f].st = sender[f].st /\ sender'[f].got = sender[f].got
        /\ sender'[f].made = sender[f].made \/ (f = e /\ sender'[f].made = a)
    <3>1. sender \in [Events -> Calls] BY <1>0, CallTypes
    <3>2. sender[e] \in Calls BY <1>2, <3>1
    <3> DEFINE c == [sender[e] EXCEPT !.made = a]
    <3>3. c.st = sender[e].st /\ c.got = sender[e].got /\ c.made = a BY <3>2 DEF Calls
    <3>4. CASE sender' = sender BY <3>4
    <3>5. CASE sender' = [sender EXCEPT ![e] = c]
      <4> HIDE DEF c
      <4> QED BY <1>2, <3>1, <3>3, <3>5
    <3> QED BY <1>2, <3>4, <3>5
  <2>4. sender'[f].st \in {"polling", "settled"} => Own(f, sender[f].got)'
    <3>1. sender[f].st \in {"polling", "settled"} => Own(f, sender[f].got) BY <1>0 DEF CallerInv
    <3> QED BY <2>1, <2>3, <3>1 DEF Own
  <2>5. sender'[f].made # 0 => deliveries'[sender'[f].made].event = f
    <3>1. /\ sender[f].made \in {0} \cup Attempts
          /\ sender[f].made # 0 => deliveries[sender[f].made].event = f
      BY <1>0, CallTypes DEF CallerInv
    <3> QED BY <1>1, <2>3, <3>1 DEF Grows
  <2> QED BY <1>0, <2>2, <2>3, <2>4, <2>5 DEF CallerInv
<1> QED BY <1>4, <1>5, <1>6, <1>7 DEF SealInv

\* A delivery that moves is the same delivery.
LEMMA DeliveryMovesInv ==
  ASSUME SealInv, NEW a \in Attempts, DeliveryMoves(a)
  PROVE  SealInv'
<1>0. TypeOK /\ HeaderInv /\ SealedOnce /\ CallerInv BY DEF SealInv
<1>1. Grows /\ Len(deliveries') = Len(deliveries) BY <1>0, DeliveryMovesWrites
<1>2. Attempts' = Attempts BY <1>1 DEF Attempts
<1>3. UNCHANGED <<requests, sender, audit>> BY DEF DeliveryMoves
<1>4. TypeOK'
  BY <1>0, <1>1, <1>2, <1>3 DEF TypeOK, Grows, DeliveryRecords, Deliveries
<1>5. HeaderInv' BY <1>0, <1>1, <1>2, <1>3 DEF HeaderInv, Grows
<1>6. SealedOnce' BY <1>0, <1>1, <1>2 DEF SealedOnce, Grows
<1>7. CallerInv'
  <2> SUFFICES ASSUME NEW f \in Events
               PROVE  /\ sender'[f].made # 0 => deliveries'[sender'[f].made].event = f
                      /\ sender'[f].st \in {"idle", "sending"} => sender'[f].got = None
                      /\ sender'[f].st \in {"polling", "settled"} => Own(f, sender[f].got)'
                      /\ audit'[f] # None => Own(f, audit[f])'
    BY DEF CallerInv
  <2>1. \A d : Own(f, d) => Own(f, d)' BY <1>0, <1>1, OwnStays
  <2>2. audit'[f] # None => Own(f, audit[f])'
    <3>1. audit[f] # None => Own(f, audit[f]) BY <1>0 DEF CallerInv
    <3> QED BY <1>3, <2>1, <3>1 DEF Own
  <2>3. sender'[f].st \in {"polling", "settled"} => Own(f, sender[f].got)'
    <3>1. sender[f].st \in {"polling", "settled"} => Own(f, sender[f].got) BY <1>0 DEF CallerInv
    <3> QED BY <1>3, <2>1, <3>1 DEF Own
  <2>4. sender'[f].made # 0 => deliveries'[sender'[f].made].event = f
    <3>1. /\ sender[f].made \in {0} \cup Attempts
          /\ sender[f].made # 0 => deliveries[sender[f].made].event = f
      BY <1>0, CallTypes DEF CallerInv
    <3> QED BY <1>1, <1>3, <3>1 DEF Grows
  <2> QED BY <1>0, <1>3, <2>2, <2>3, <2>4 DEF CallerInv
<1> QED BY <1>4, <1>5, <1>6, <1>7 DEF SealInv

\* The application's own steps leave the receiver alone: what is left to show
\* is that the calls keep their type and hold what is theirs.
LEMMA CallerSteps ==
  ASSUME SealInv, UNCHANGED deliveries, NEW e \in Events,
         \A r \in requests' \ requests : \E n \in 1..MaxSends : r = Headers(e, n),
         NEW c \in Calls, sender' = [sender EXCEPT ![e] = c],
         NEW b \in {None} \cup Deliveries, audit' = [audit EXCEPT ![e] = b],
         c.made # 0 => deliveries[c.made].event = e,
         c.st \in {"idle", "sending"} => c.got = None,
         c.st \in {"polling", "settled"} => Own(e, c.got),
         b # None => Own(e, b)
  PROVE  SealInv'
<1>0. TypeOK /\ HeaderInv /\ SealedOnce /\ CallerInv BY DEF SealInv
<1>1. sender \in [Events -> Calls] /\ audit \in [Events -> {None} \cup Deliveries]
  BY <1>0, CallTypes
<1>2. Attempts' = Attempts BY DEF Attempts
<1>3. sender' \in [Events -> Calls] /\ audit' \in [Events -> {None} \cup Deliveries] BY <1>1
<1>4. \A r \in requests' \ requests :
        /\ r.key = KeyOf(r.event) /\ r.meta = DetailsOf(r.event)
        /\ r \in [event : Events, n : 1..MaxSends, key : Events \cup {None}, meta : Events \cup {None}]
  BY DEF Headers, KeyOf, DetailsOf
<1>5. TypeOK' BY <1>0, <1>2, <1>3, <1>4 DEF TypeOK, Calls, Deliveries
<1>6. HeaderInv' BY <1>0, <1>2, <1>4 DEF HeaderInv
<1>7. SealedOnce' BY <1>0, <1>2 DEF SealedOnce
<1>8. CallerInv'
  <2>1. \A f, d : Own(f, d)' <=> Own(f, d) BY <1>2 DEF Own
  <2> SUFFICES ASSUME NEW f \in Events
               PROVE  /\ sender'[f].made # 0 => deliveries[sender'[f].made].event = f
                      /\ sender'[f].st \in {"idle", "sending"} => sender'[f].got = None
                      /\ sender'[f].st \in {"polling", "settled"} => Own(f, sender'[f].got)
                      /\ audit'[f] # None => Own(f, audit'[f])
    BY <1>2 DEF CallerInv, Own
  <2>2. CASE f = e BY <1>1, <2>2
  <2>3. CASE f # e
    <3>1. sender'[f] = sender[f] /\ audit'[f] = audit[f] BY <1>1, <2>3
    <3> QED BY <1>0, <3>1 DEF CallerInv
  <2> QED BY <2>2, <2>3
<1> QED BY <1>5, <1>6, <1>7, <1>8 DEF SealInv

-----------------------------------------------------------------------------
LEMMA SealInitInv == Init => SealInv
<1> SUFFICES ASSUME Init PROVE SealInv OBVIOUS
<1>1. deliveries = <<>> /\ requests = {} /\ Attempts = {} BY DEF Init, Attempts
<1>2. 0 \in 0..MaxSends BY SealAssumption
<1>3. Idle(0) \in Calls BY <1>2 DEF Idle, Calls
<1>4. sender = [e \in Events |-> Idle(0)] /\ audit = [e \in Events |-> None] BY DEF Init
<1>5. TypeOK BY <1>1, <1>3, <1>4 DEF TypeOK, Calls
<1>6. CallerInv BY <1>4 DEF CallerInv, Idle
<1> QED BY <1>1, <1>5, <1>6 DEF SealInv, HeaderInv, SealedOnce

LEMMA SealNextInv == SealInv /\ [Next]_vars => SealInv'
<1> SUFFICES ASSUME SealInv, [Next]_vars PROVE SealInv' OBVIOUS
<1>0. TypeOK /\ HeaderInv /\ CallerInv BY DEF SealInv
<1>1. ASSUME NEW r \in requests, HandleSend(r) PROVE SealInv' BY <1>1, HandleSendInv
<1>2. ASSUME NEW a \in Attempts, DeliveryMoves(a) PROVE SealInv' BY <1>2, DeliveryMovesInv
<1>a. /\ sender \in [Events -> Calls] /\ audit \in [Events -> {None} \cup Deliveries]
      /\ \A e \in Events : sender = [sender EXCEPT ![e] = sender[e]]
                           /\ audit = [audit EXCEPT ![e] = audit[e]]
      /\ \A e \in Events : audit[e] \in {None} \cup Deliveries
      /\ \A e \in Events :
           /\ sender[e].made # 0 => deliveries[sender[e].made].event = e
           /\ sender[e].st \in {"idle", "sending"} => sender[e].got = None
           /\ sender[e].st \in {"polling", "settled"} => Own(e, sender[e].got)
           /\ audit[e] # None => Own(e, audit[e])
  BY <1>0, CallTypes DEF CallerInv
<1>3. ASSUME NEW e \in Events, Send(e) PROVE SealInv'
  <2> DEFINE n == sender[e].sends + 1
             c == [sender[e] EXCEPT !.st = "sending", !.sends = n]
  <2>1. sender[e] \in Calls /\ sender[e].st = "idle" /\ n \in 1..MaxSends
    BY <1>0, <1>3, CallTypes, SealAssumption DEF Send
  <2>2. c \in Calls /\ c.st = "sending" /\ c.got = sender[e].got /\ c.made = sender[e].made
    <3>1. n \in 0..MaxSends BY <2>1, SealAssumption
    <3> HIDE DEF n
    <3> QED BY <2>1, <3>1 DEF Calls
  <2>3. sender' = [sender EXCEPT ![e] = c]
    BY <1>3, <1>a DEF Send
  <2> HIDE DEF c
  <2>4. /\ UNCHANGED <<deliveries, audit>> /\ requests' = requests \cup {Headers(e, n)}
    BY <1>3 DEF Send
  <2> HIDE DEF n
  <2>5. \A r \in requests' \ requests : \E m \in 1..MaxSends : r = Headers(e, m) BY <2>1, <2>4
  <2>6. audit' = [audit EXCEPT ![e] = audit[e]] BY <1>a, <2>4
  <2>7. c.got = None /\ (c.made # 0 => deliveries[c.made].event = e) /\ c.st \notin {"polling", "settled"}
    BY <1>a, <2>1, <2>2
  <2>8. audit[e] \in {None} \cup Deliveries /\ (audit[e] # None => Own(e, audit[e])) BY <1>a
  <2> QED BY <2>2, <2>3, <2>4, <2>5, <2>6, <2>7, <2>8, CallerSteps
<1>4. ASSUME NEW e \in Events, CallRaises(e) PROVE SealInv'
  <2> DEFINE c == Idle(sender[e].sends)
  <2>1. c \in Calls /\ c.st = "idle" /\ c.got = None /\ c.made = 0
    BY <1>0, CallTypes DEF Calls, Idle
  <2>2. sender' = [sender EXCEPT ![e] = c] /\ UNCHANGED <<deliveries, requests, audit>>
    BY <1>4 DEF CallRaises
  <2> HIDE DEF c
  <2>3. audit' = [audit EXCEPT ![e] = audit[e]] BY <1>a, <2>2
  <2> QED BY <1>a, <2>1, <2>2, <2>3, CallerSteps
<1>5. ASSUME NEW e \in Events, NEW d, Parsed(d) \in Deliveries, Own(e, Parsed(d)),
             Parsed(d).status = d.status, Hold(e, d)
      PROVE  SealInv'
  <2> DEFINE c == [sender[e] EXCEPT !.st = IF d.status \in Moving THEN "polling" ELSE "settled",
                                    !.got = Parsed(d)]
  <2>1. sender[e] \in Calls BY <1>0, CallTypes
  <2>2. c \in Calls /\ c.st \in {"polling", "settled"} /\ c.got = Parsed(d) /\ c.made = sender[e].made
    BY <1>5, <2>1 DEF Calls
  <2>3. sender' = [sender EXCEPT ![e] = c] /\ UNCHANGED <<deliveries, requests, audit>>
    BY <1>5, <1>a DEF Hold
  <2> HIDE DEF c
  <2>4. audit' = [audit EXCEPT ![e] = audit[e]] BY <1>a, <2>3
  <2>5. (c.made # 0 => deliveries[c.made].event = e) /\ c.st \notin {"idle", "sending"} /\ Own(e, c.got)
    BY <1>5, <1>a, <2>2
  <2>6. audit[e] \in {None} \cup Deliveries /\ (audit[e] # None => Own(e, audit[e])) BY <1>a
  <2>7. requests' \ requests = {} BY <2>3
  <2> QED BY <2>2, <2>3, <2>4, <2>5, <2>6, <2>7, CallerSteps
<1>6. ASSUME NEW e \in Events, NEW a \in Attempts, NEW d \in Answers(a),
             SendReturns(e, d) \/ GetDelivery(e, d) \/ GetReceipt(e, d)
      PROVE  SealInv'
  <2>1. Parses(d) BY <1>6 DEF SendReturns, GetDelivery, GetReceipt
  <2>2. /\ d.attempt = a /\ d.rid \in {0, a}
        /\ Parsed(d) \in Deliveries /\ Parsed(d).status = d.status
        /\ Own(deliveries[a].event, Parsed(d))
    BY <1>0, <2>1, AnswerFacts
  <2>3. CASE SendReturns(e, d)
    <3>1. /\ sender[e].made # 0 /\ d \in Answers(sender[e].made) /\ Hold(e, d)
          /\ sender[e].made \in {0} \cup Attempts
      BY <1>0, <2>3, CallTypes DEF SendReturns
    <3>2. d.attempt = sender[e].made BY <1>0, <2>1, <3>1, AnswerFacts
    <3>3. Own(e, Parsed(d)) BY <1>a, <2>2, <3>1, <3>2
    <3> QED BY <1>5, <2>2, <3>1, <3>3
  <2>4. CASE GetDelivery(e, d)
    <3>1. sender[e].st = "polling" /\ d.attempt = sender[e].got.attempt /\ Hold(e, d)
      BY <2>4 DEF GetDelivery
    <3>2. deliveries[a].event = e BY <1>a, <2>2, <3>1 DEF Own
    <3> QED BY <1>5, <2>2, <3>1, <3>2
  <2>5. CASE GetReceipt(e, d)
    <3>1. /\ sender[e].st = "settled" /\ sender[e].got.rid # 0 /\ d.rid = sender[e].got.rid
          /\ audit' = [audit EXCEPT ![e] = Parsed(d)] /\ UNCHANGED <<deliveries, requests, sender>>
      BY <2>5 DEF GetReceipt
    <3>2. deliveries[a].event = e BY <1>a, <2>2, <3>1 DEF Own
    <3>3. sender' = [sender EXCEPT ![e] = sender[e]] BY <1>a, <3>1
    <3>4. sender[e] \in Calls BY <1>0, CallTypes
    <3>5. Own(e, Parsed(d)) BY <2>2, <3>2
    <3>6. Parsed(d) # None => Own(e, Parsed(d)) BY <3>5
    <3>7. Parsed(d) \in {None} \cup Deliveries BY <2>2
    <3> QED BY <1>a, <3>1, <3>3, <3>4, <3>6, <3>7, CallerSteps
  <2> QED BY <1>6, <2>3, <2>4, <2>5
<1>7. CASE UNCHANGED vars
  BY <1>7 DEF vars, SealInv, TypeOK, HeaderInv, SealedOnce, CallerInv, Own, Attempts, Deliveries
<1> QED BY <1>1, <1>2, <1>3, <1>4, <1>6, <1>7 DEF Next

\* What holds of the deliveries and of what the callers hold, in every state.
THEOREM SealInvariant == Spec => []SealInv
BY SealInitInv, SealNextInv, PTL DEF Spec

\* However often send is repeated, and however late its requests are handled,
\* an event with an idempotency_key is sealed once.
THEOREM SealSafety == Spec => []SealedOnce
<1>1. SealInv => SealedOnce BY DEF SealInv
<1> QED BY <1>1, SealInvariant, PTL

\* What send, get_delivery and get_receipt say of an event is about that event.
THEOREM AnswerSafety == Spec => []AnswerIsOwn
<1>1. SealInv => AnswerIsOwn
  <2> SUFFICES ASSUME SealInv, NEW e \in Events, NEW d \in {sender[e].got, audit[e]} \ {None}
               PROVE  Own(e, d)
    BY DEF AnswerIsOwn, Own, DetailsOf
  <2>1. /\ sender[e].st \in {"idle", "sending"} => sender[e].got = None
        /\ sender[e].st \in {"polling", "settled"} => Own(e, sender[e].got)
        /\ audit[e] # None => Own(e, audit[e])
    BY DEF SealInv, CallerInv
  <2>2. sender[e].st \in {"idle", "sending", "polling", "settled"} BY CallTypes DEF SealInv, Calls
  <2> QED BY <2>1, <2>2
<1> QED BY <1>1, SealInvariant, PTL

-----------------------------------------------------------------------------
(* The ledger of reports                                                   *)

\* One entry for an observed event, an acknowledgment's key, a settlement's key.
KeyedOnce ==
  \A a, b \in Entries :
    a # b /\ ledger[a].kind = ledger[b].kind /\ Key(ledger[a]) # Nil =>
      Key(ledger[a]) # Key(ledger[b])

\* The entries that the call c was shown are of its report.
Shown(c) ==
  /\ c.st # "returned" => c.read = 0
  /\ c.st = "returned" =>
       /\ c.got \in Entries /\ ledger[c.got].kind = c.rep.kind
       /\ c.rep.kind \in {"observe", "ack"} => ledger[c.got].subject = c.rep.subject
       /\ c.rep.kind = "observe" => ledger[c.got].content = c.rep.content
  /\ c.st = "returned" /\ c.read # 0 =>
       /\ c.read \in Entries
       /\ c.rep.kind = "observe" =>
            ledger[c.read].kind = "observe" /\ ledger[c.read].subject = c.rep.subject
       /\ c.rep.kind = "ack" => c.read = c.got

ShownInv == \A r \in Reporters : Shown(call[r])

LedgerInv == LedgerTypeOK /\ KeyedOnce /\ ShownInv

ReporterCalls ==
  [rep : ReportSet, st : {"sent", "returned", "raised"}, tries : 1..MaxTries,
   made : Entries \cup {0}, got : Entries \cup {0}, read : Entries \cup {0}]

\* The entries and the calls, one by one.
LEMMA LedgerTypes ==
  ASSUME LedgerTypeOK
  PROVE  /\ ledger \in Seq(ReportSet) /\ Len(ledger) \in Nat
         /\ \A a \in Entries : ledger[a] \in ReportSet
         /\ call \in [Reporters -> {NoReport} \cup ReporterCalls]
         /\ \A r \in Reporters : call[r].st # "idle" => call[r] \in ReporterCalls
         /\ \A q \in posts : q.rep \in ReportSet /\ q.by \in Reporters
<1>1. ledger \in Seq(ReportSet) /\ call \in [Reporters -> {NoReport} \cup ReporterCalls]
  BY DEF LedgerTypeOK, ReporterCalls
<1>2. NoReport.st = "idle" BY DEF NoReport
<1>3. \A q \in posts : q.rep \in ReportSet /\ q.by \in Reporters BY DEF LedgerTypeOK
<1> QED BY <1>1, <1>2, <1>3 DEF Entries

\* A report is booked unless one of its kind and key is; what is booked stays.
LEMMA HandleReportWrites ==
  ASSUME LedgerTypeOK, KeyedOnce, NEW q \in posts, HandleReport(q)
  PROVE  /\ ledger' \in Seq(ReportSet) /\ Len(ledger) <= Len(ledger')
         /\ \A a \in Entries : ledger'[a] = ledger[a]
         /\ KeyedOnce'
         /\ \E a \in 1..Len(ledger') :
              call' = IF call[q.by].st = "sent" /\ call[q.by].tries = q.n
                      THEN [call EXCEPT ![q.by].made = a] ELSE call
         /\ posts' \subseteq posts
<1> DEFINE rep == q.rep
           known == {a \in Entries :
                       /\ ledger[a].kind = rep.kind
                       /\ Key(rep) # Nil /\ Key(ledger[a]) = Key(rep)}
<1>0. /\ ledger \in Seq(ReportSet) /\ Len(ledger) \in Nat /\ rep \in ReportSet
  BY LedgerTypes
<1>1. CASE known # {}
  <2>1. ledger' = ledger /\ posts' \subseteq posts BY <1>1 DEF HandleReport
  <2> DEFINE a == CHOOSE b \in known : TRUE
  <2>2. call' = IF call[q.by].st = "sent" /\ call[q.by].tries = q.n
                THEN [call EXCEPT ![q.by].made = a] ELSE call
    BY <1>1 DEF HandleReport
  <2>3. a \in Entries BY <1>1
  <2> HIDE DEF a, known
  <2>4. KeyedOnce' BY <2>1 DEF KeyedOnce, Entries, Key
  <2> QED BY <1>0, <2>1, <2>2, <2>3, <2>4 DEF Entries
<1>2. CASE known = {}
  <2>1. ledger' = Append(ledger, rep) /\ posts' \subseteq posts BY <1>2 DEF HandleReport
  <2>2. call' = IF call[q.by].st = "sent" /\ call[q.by].tries = q.n
                THEN [call EXCEPT ![q.by].made = Len(ledger) + 1] ELSE call
    BY <1>2 DEF HandleReport
  <2>3. \A b \in Entries :
          ledger[b].kind = rep.kind /\ Key(rep) # Nil => Key(ledger[b]) # Key(rep)
    BY <1>2
  <2> HIDE DEF known, rep
  <2>4. /\ ledger' \in Seq(ReportSet) /\ Len(ledger') = Len(ledger) + 1
        /\ ledger'[Len(ledger) + 1] = rep
        /\ \A b \in Entries : ledger'[b] = ledger[b]
    BY <1>0, <2>1 DEF Entries
  <2>5. KeyedOnce'
    <3> SUFFICES ASSUME NEW a \in 1..Len(ledger'), NEW b \in 1..Len(ledger'), a # b,
                        ledger'[a].kind = ledger'[b].kind, Key(ledger'[a]) # Nil
                 PROVE  Key(ledger'[a]) # Key(ledger'[b])
      BY DEF KeyedOnce, Entries, Key
    <3>1. (a \in Entries \/ a = Len(ledger) + 1) /\ (b \in Entries \/ b = Len(ledger) + 1)
      BY <1>0, <2>4 DEF Entries
    <3>2. CASE a \in Entries /\ b \in Entries BY <2>4, <3>2 DEF KeyedOnce
    <3>3. CASE a = Len(ledger) + 1 BY <2>3, <2>4, <3>1, <3>3
    <3>4. CASE b = Len(ledger) + 1 BY <2>3, <2>4, <3>1, <3>4
    <3> QED BY <3>1, <3>2, <3>3, <3>4
  <2>6. Len(ledger) + 1 \in 1..Len(ledger') /\ Len(ledger) <= Len(ledger') BY <1>0, <2>4
  <2> HIDE DEF KeyedOnce
  <2> QED BY <2>1, <2>2, <2>4, <2>5, <2>6
<1> QED BY <1>1, <1>2

\* A report that is handled shows nothing to anybody yet.
LEMMA HandleReportInv ==
  ASSUME LedgerInv, NEW q \in posts, HandleReport(q)
  PROVE  LedgerInv'
<1>0. LedgerTypeOK /\ KeyedOnce /\ ShownInv BY DEF LedgerInv
<1>1. /\ ledger' \in Seq(ReportSet) /\ Len(ledger) <= Len(ledger')
      /\ \A a \in Entries : ledger'[a] = ledger[a]
      /\ KeyedOnce' /\ posts' \subseteq posts
  BY <1>0, HandleReportWrites
<1>2. PICK a \in 1..Len(ledger') :
        call' = IF call[q.by].st = "sent" /\ call[q.by].tries = q.n
                THEN [call EXCEPT ![q.by].made = a] ELSE call
  BY <1>0, HandleReportWrites
<1> DEFINE r == q.by
<1> PICK c : c = [call[r] EXCEPT !.made = a] OBVIOUS
<1>3. /\ call \in [Reporters -> {NoReport} \cup ReporterCalls] /\ r \in Reporters
      /\ call[r].st = "sent" => call[r] \in ReporterCalls
      /\ Len(ledger) \in Nat
  BY <1>0, LedgerTypes
<1>4. Len(ledger') \in Nat /\ Entries \subseteq Entries'
  BY <1>1, <1>3 DEF Entries
<1>5. ReporterCalls \subseteq ReporterCalls' BY <1>4 DEF ReporterCalls
<1>6. \A d : Shown(d) => Shown(d)' BY <1>1, <1>4 DEF Shown
<1>7. call[r].st = "sent" => c \in ReporterCalls' /\ Shown(c)'
  <2> SUFFICES ASSUME call[r].st = "sent" PROVE c \in ReporterCalls' /\ Shown(c)' OBVIOUS
  <2>1. call[r] \in ReporterCalls' /\ call[r] \in ReporterCalls BY <1>3, <1>5
  <2>2. a \in Entries' BY <1>2 DEF Entries
  <2>3. c \in ReporterCalls' /\ c.st = "sent" /\ c.read = call[r].read
    BY <2>1, <2>2 DEF ReporterCalls
  <2>4. call[r].read = 0 BY <1>0, <1>3 DEF ShownInv, Shown
  <2> QED BY <2>3, <2>4 DEF Shown
<1>8. call' = call \/ (call[r].st = "sent" /\ call' = [call EXCEPT ![r] = c])
  BY <1>2, <1>3
<1> HIDE DEF r
<1>9. call' \in [Reporters -> {NoReport} \cup ReporterCalls'] BY <1>3, <1>5, <1>7, <1>8
<1>10. LedgerTypeOK'
  BY <1>0, <1>1, <1>9 DEF LedgerTypeOK, ReporterCalls, ReportSet, NoReport
<1>11. ShownInv'
  <2> SUFFICES ASSUME NEW t \in Reporters, NEW d, d = call'[t] PROVE Shown(d)'
    BY DEF ShownInv, Shown
  <2>1. Shown(call[t]) BY <1>0 DEF ShownInv
  <2>2. d = call[t] \/ (call[r].st = "sent" /\ d = c) BY <1>3, <1>8
  <2> QED BY <1>6, <1>7, <2>1, <2>2
<1> QED BY <1>1, <1>10, <1>11 DEF LedgerInv

\* A reporter's own step leaves the ledger alone: what is left to show is that
\* its call keeps its type and was shown what is of its report.
LEMMA ReporterStep ==
  ASSUME LedgerInv, UNCHANGED ledger, NEW r \in Reporters,
         posts' \subseteq posts \cup [by : Reporters, n : 1..MaxTries, rep : ReportSet],
         NEW c \in ReporterCalls, Shown(c), call' = [call EXCEPT ![r] = c]
  PROVE  LedgerInv'
<1>0. LedgerTypeOK /\ KeyedOnce /\ ShownInv BY DEF LedgerInv
<1>1. call \in [Reporters -> {NoReport} \cup ReporterCalls] BY <1>0, LedgerTypes
<1>2. Entries' = Entries BY DEF Entries
<1>3. call' \in [Reporters -> {NoReport} \cup ReporterCalls] BY <1>1
<1>4. posts' \subseteq [by : Reporters, n : 1..MaxTries, rep : ReportSet]
  BY <1>0 DEF LedgerTypeOK
<1>5. LedgerTypeOK'
  BY <1>0, <1>2, <1>3, <1>4 DEF LedgerTypeOK, ReporterCalls, ReportSet, NoReport
<1>6. KeyedOnce' BY <1>0, <1>2 DEF KeyedOnce, Key
<1>7. ShownInv'
  <2> SUFFICES ASSUME NEW t \in Reporters, NEW d, d = call'[t] PROVE Shown(d)'
    BY DEF ShownInv, Shown
  <2>1. \A e : Shown(e) => Shown(e)' BY <1>2 DEF Shown
  <2>2. d = call[t] \/ d = c BY <1>1
  <2> QED BY <1>0, <2>1, <2>2 DEF ShownInv
<1> QED BY <1>5, <1>6, <1>7 DEF LedgerInv

\* A report that is sent, for the first time or again.
LEMMA TransmitInv ==
  ASSUME LedgerInv, NEW r \in Reporters, NEW rep \in ReportSet,
         Transmit(r, rep)
  PROVE  LedgerInv'
<1> DEFINE n == call[r].tries + 1
<1>1. n \in 1..MaxTries
  <2>1. call[r] \in {NoReport} \cup ReporterCalls BY LedgerTypes DEF LedgerInv
  <2>2. call[r].tries \in Nat BY <2>1 DEF NoReport, ReporterCalls
  <2> QED BY <2>2, ReportsAssumption DEF Transmit
<1>c. PICK c : c = [NoReport EXCEPT !.rep = rep, !.st = "sent", !.tries = n] OBVIOUS
<1>2. /\ call' = [call EXCEPT ![r] = c] /\ UNCHANGED ledger
      /\ posts' = posts \cup {[by |-> r, n |-> n, rep |-> rep]}
  BY <1>c DEF Transmit
<1> HIDE DEF n
<1>3. c = [rep |-> rep, st |-> "sent", tries |-> n, made |-> 0, got |-> 0, read |-> 0]
  BY <1>c DEF NoReport
<1>4. c \in ReporterCalls /\ Shown(c)
  <2>1. rep \in ReportSet /\ n \in 1..MaxTries /\ 0 \in Entries \cup {0} BY <1>1
  <2>2. c \in ReporterCalls BY <1>3, <2>1 DEF ReporterCalls
  <2>3. c.st = "sent" /\ c.read = 0 BY <1>3
  <2> QED BY <2>2, <2>3 DEF Shown
<1>5. posts' \subseteq posts \cup [by : Reporters, n : 1..MaxTries, rep : ReportSet]
  BY <1>1, <1>2
<1> QED BY <1>2, <1>4, <1>5, ReporterStep

LEMMA LedgerNextInv == LedgerInv /\ [LedgerNext]_ledgerVars => LedgerInv'
<1> SUFFICES ASSUME LedgerInv, [LedgerNext]_ledgerVars PROVE LedgerInv' OBVIOUS
<1>0. LedgerTypeOK /\ KeyedOnce /\ ShownInv BY DEF LedgerInv
<1>a. \A r \in Reporters :
        /\ Shown(call[r])
        /\ call[r].st # "idle" => call[r] \in ReporterCalls /\ call[r].rep \in ReportSet
  BY <1>0, LedgerTypes DEF ShownInv, ReporterCalls
<1>1. ASSUME NEW q \in posts, HandleReport(q) PROVE LedgerInv' BY <1>1, HandleReportInv
<1>2. ASSUME NEW r \in Reporters, Report(r) PROVE LedgerInv'
  BY <1>2, TransmitInv DEF Report
<1>3. ASSUME NEW r \in Reporters, Retry(r) PROVE LedgerInv'
  <2>1. call[r].rep \in ReportSet /\ Transmit(r, call[r].rep)
    BY <1>3, <1>a DEF Retry
  <2> QED BY <2>1, TransmitInv
<1>4. ASSUME NEW r \in Reporters, ReportRaises(r) PROVE LedgerInv'
  <2> PICK c : c = [call[r] EXCEPT !.st = "raised"] OBVIOUS
  <2>1. call[r] \in ReporterCalls /\ call[r].st = "sent" /\ Shown(call[r])
    BY <1>4, <1>a DEF ReportRaises
  <2>2. c \in ReporterCalls /\ c.st = "raised" /\ c.read = call[r].read BY <2>1 DEF ReporterCalls
  <2>3. Shown(c) BY <2>1, <2>2 DEF Shown
  <2>4. call' = [call EXCEPT ![r] = c] /\ UNCHANGED <<ledger, posts>> BY <1>4 DEF ReportRaises
  <2> QED BY <2>2, <2>3, <2>4, ReporterStep
<1>5. ASSUME NEW r \in Reporters, NEW a \in Entries, ReportReturns(r, a)
      PROVE  LedgerInv'
  <2> PICK c : c = [call[r] EXCEPT !.st = "returned", !.got = a] OBVIOUS
  <2>1. /\ call[r] \in ReporterCalls /\ call[r].st = "sent" /\ Shown(call[r])
        /\ ledger[a].kind = call[r].rep.kind /\ Accepts(r, a)
    BY <1>5, <1>a DEF ReportReturns
  <2>2. /\ c \in ReporterCalls /\ c.st = "returned" /\ c.got = a /\ c.read = call[r].read
        /\ c.rep = call[r].rep
    BY <2>1 DEF ReporterCalls
  <2>3. c.read = 0 BY <2>1, <2>2 DEF Shown
  <2>4. /\ c.rep.kind = "observe" => ledger[a].subject = c.rep.subject /\ ledger[a].content = c.rep.content
        /\ c.rep.kind = "ack" => ledger[a].subject = c.rep.subject
    BY <2>1, <2>2 DEF Accepts, StatusMatches, AcknowledgmentMatches
  <2>5. Shown(c) BY <2>1, <2>2, <2>3, <2>4 DEF Shown
  <2>6. call' = [call EXCEPT ![r] = c] /\ UNCHANGED <<ledger, posts>> BY <1>5 DEF ReportReturns
  <2> QED BY <2>2, <2>5, <2>6, ReporterStep
<1>6. ASSUME NEW r \in Reporters, NEW a \in Entries,
             GetStatus(r, a) \/ GetAcknowledgment(r, a)
      PROVE  LedgerInv'
  <2> PICK c : c = [call[r] EXCEPT !.read = a] OBVIOUS
  <2>1. /\ call[r] \in ReporterCalls /\ call[r].st = "returned" /\ Shown(call[r])
        /\ \/ /\ call[r].rep.kind = "observe"
              /\ ledger[a].kind = "observe" /\ ledger[a].subject = call[r].rep.subject
           \/ call[r].rep.kind = "ack" /\ a = call[r].got
    BY <1>6, <1>a DEF GetStatus, GetAcknowledgment
  <2>2. /\ c \in ReporterCalls /\ c.st = "returned" /\ c.got = call[r].got /\ c.read = a
        /\ c.rep = call[r].rep
    BY <2>1 DEF ReporterCalls
  <2>3. Shown(c) BY <2>1, <2>2 DEF Shown
  <2>4. call' = [call EXCEPT ![r] = c] /\ UNCHANGED <<ledger, posts>>
    BY <1>6 DEF GetStatus, GetAcknowledgment
  <2> QED BY <2>2, <2>3, <2>4, ReporterStep
<1>7. CASE UNCHANGED ledgerVars
  BY <1>7 DEF ledgerVars, LedgerInv, LedgerTypeOK, KeyedOnce, ShownInv, Shown, Entries, Key,
       ReportSet, NoReport
<1> QED BY <1>1, <1>2, <1>3, <1>4, <1>5, <1>6, <1>7 DEF LedgerNext

LEMMA LedgerInitInv == LedgerInit => LedgerInv
<1> SUFFICES ASSUME LedgerInit PROVE LedgerInv OBVIOUS
<1>1. ledger = <<>> /\ posts = {} /\ call = [r \in Reporters |-> NoReport] BY DEF LedgerInit
<1>2. LedgerTypeOK BY <1>1 DEF LedgerTypeOK
<1>3. KeyedOnce BY <1>1 DEF KeyedOnce, Entries
<1>4. ShownInv BY <1>1 DEF ShownInv, Shown, NoReport
<1> QED BY <1>2, <1>3, <1>4 DEF LedgerInv

\* What holds of the ledger and of what the reporters were shown, in every state,
\* for any number of reporters, subjects, contents and keys.
THEOREM LedgerInvariant == LedgerSpec => []LedgerInv
BY LedgerInitInv, LedgerNextInv, PTL DEF LedgerSpec

\* observe.submit returns only if the event is on record as it was reported, and
\* reporters that use one event id for different events cannot both be told so.
THEOREM ObserveSafety == LedgerSpec => []ObservedAsReported
<1>1. LedgerInv => ObservedAsReported
  <2> SUFFICES ASSUME LedgerInv, NEW r \in Reporters, Returned(r, "observe")
               PROVE  /\ \A a \in {call[r].got, call[r].read} \ {0} :
                           /\ ledger[a].subject = call[r].rep.subject
                           /\ ledger[a].content = call[r].rep.content
                      /\ \A t \in Reporters :
                           Returned(t, "observe") /\ call[t].rep.subject = call[r].rep.subject =>
                             call[t].rep.content = call[r].rep.content
    BY DEF ObservedAsReported
  <2>1. \A t \in Reporters : Returned(t, "observe") =>
          LET c == call[t] IN
          /\ c.got \in Entries /\ ledger[c.got].kind = "observe"
          /\ ledger[c.got].subject = c.rep.subject /\ ledger[c.got].content = c.rep.content
          /\ c.rep \in ReportSet
          /\ c.read # 0 => c.read \in Entries /\ ledger[c.read].kind = "observe"
                           /\ ledger[c.read].subject = c.rep.subject
    BY LedgerTypes DEF LedgerInv, ShownInv, Shown, Returned, ReporterCalls
  <2>2. \A a, b \in Entries :
          /\ ledger[a].kind = "observe" /\ ledger[b].kind = "observe"
          /\ ledger[a].subject = ledger[b].subject
          => a = b
    <3> SUFFICES ASSUME NEW a \in Entries, NEW b \in Entries,
                        ledger[a].kind = "observe", ledger[b].kind = "observe",
                        ledger[a].subject = ledger[b].subject
                 PROVE  a = b
      OBVIOUS
    <3>1. ledger[a] \in ReportSet BY LedgerTypes DEF LedgerInv
    <3>2. ledger[a].subject # Nil BY <3>1, ReportsAssumption DEF ReportSet
    <3> QED BY <3>2 DEF LedgerInv, KeyedOnce, Key
  <2> QED BY <2>1, <2>2
<1> QED BY <1>1, LedgerInvariant, PTL

\* An acknowledgment handed out is one of the receipt it was asked for, and reading
\* it again shows the same entry, whoever else acknowledges.
THEOREM AcknowledgmentSafety == LedgerSpec => []AcknowledgmentIsOwn
<1>1. LedgerInv => AcknowledgmentIsOwn
  BY DEF LedgerInv, ShownInv, Shown, AcknowledgmentIsOwn, Returned
<1> QED BY <1>1, LedgerInvariant, PTL

\* A settlement with a key is booked once, however often and however late it comes.
THEOREM SettlementSafety == LedgerSpec => []SettledOnce
<1>1. LedgerInv => SettledOnce
  BY DEF LedgerInv, KeyedOnce, SettledOnce, Key
<1> QED BY <1>1, LedgerInvariant, PTL
=============================================================================
