-------------------------- MODULE ResolutionProofs --------------------------
(***************************************************************************)
(* The receiver of ResolutionWebhook holds the current secret and accepts  *)
(* an event only if it is a resolution as recorded, and a recent one.      *)
(***************************************************************************)
EXTENDS ResolutionWebhook, FiniteSetTheorems, TLAPS

\* Every change of the endpoint used up the request of one call.
CountInv ==
  /\ IsFiniteSet(requests)
  /\ \A r \in requests : r.call <= calls
  /\ endpoint.version + Cardinality(requests) <= calls

\* The caller knows what the API has: without doubt nothing is on its way but
\* the request of the current call.
SetupInv ==
  /\ setup.st = "idle" /\ ~doubt => requests = {} /\ secret = endpoint.version
  /\ setup.st # "idle" /\ ~doubt => setup.clean
  /\ setup.st = "sent" /\ setup.clean =>
       requests \subseteq {[call |-> calls, op |-> setup.op, copy |-> 1]}
  /\ setup.st = "sent" /\ requests # {} /\ ~doubt => secret = endpoint.version
  /\ setup.st = "answered" /\ setup.clean =>
       /\ requests = {}
       /\ setup.op # "disable" => setup.version = endpoint.version
  /\ setup.st = "answered" /\ setup.op = "disable" /\ ~doubt => secret = endpoint.version

\* What was signed is what was recorded, at the time it was sent.
WireInv ==
  /\ \A p \in Prompts : delivery[p].status = "pending" => review[p] # "pending"
  /\ \A m \in wire :
       /\ m.signed.own => review[m.signed.prompt] = m.signed.choice
       /\ m.signed.ts = m.sent
       /\ m.sent <= clock

WebhookInv ==
  TypeOK /\ CountInv /\ SetupInv /\ WireInv /\ AcceptedIsGenuine /\ PromptDeliveryAccepted

-----------------------------------------------------------------------------
\* The API's work on a setup request.
LEMMA HandleSetupWrites ==
  ASSUME TypeOK, CountInv, NEW r \in requests, HandleSetup(r)
  PROVE  /\ requests' = requests \ {r} /\ IsFiniteSet(requests')
         /\ Cardinality(requests') = Cardinality(requests) - 1
         /\ endpoint' \in [version : Versions, enabled : BOOLEAN]
         /\ endpoint'.version \in {endpoint.version, endpoint.version + 1}
         /\ r.op = "disable" => endpoint'.version = endpoint.version
         /\ delivery' \in [Prompts -> Deliveries]
         /\ \A p \in Prompts : delivery'[p].status = "pending" => delivery[p].status = "pending"
<1>1. requests' = requests \ {r} BY DEF HandleSetup
<1>2. IsFiniteSet(requests') /\ Cardinality(requests') = Cardinality(requests) - 1
      /\ Cardinality(requests) \in Nat /\ Cardinality(requests') \in Nat
  BY <1>1, FS_RemoveElement, FS_CardinalityType DEF CountInv
<1>3. endpoint.version \in Nat /\ calls \in 0..MaxCalls
      /\ endpoint \in [version : Versions, enabled : BOOLEAN]
  BY TimingAssumption DEF TypeOK, Versions
<1>4. endpoint.version + 1 \in Versions
  BY <1>2, <1>3, TimingAssumption DEF CountInv, Versions
<1>5. endpoint' = IF r.op = "disable" THEN [endpoint EXCEPT !.enabled = FALSE]
                  ELSE [version |-> endpoint.version + 1, enabled |-> TRUE]
  BY DEF HandleSetup, Changed
<1>6. endpoint' \in [version : Versions, enabled : BOOLEAN]
      /\ endpoint'.version \in {endpoint.version, endpoint.version + 1}
      /\ (r.op = "disable" => endpoint'.version = endpoint.version)
  BY <1>3, <1>4, <1>5
<1>7. /\ delivery' \in [Prompts -> Deliveries]
      /\ \A p \in Prompts : delivery'[p].status = "pending" => delivery[p].status = "pending"
  <2>1. delivery' = [p \in Prompts |-> IF delivery[p].status = "pending"
                                         THEN [delivery[p] EXCEPT !.status = "cancelled"]
                                         ELSE delivery[p]]
    BY DEF HandleSetup, Changed
  <2>2. \A p \in Prompts : delivery[p] \in Deliveries BY DEF TypeOK
  <2>3. \A p \in Prompts : [delivery[p] EXCEPT !.status = "cancelled"] \in Deliveries
                           /\ [delivery[p] EXCEPT !.status = "cancelled"].status = "cancelled"
    BY <2>2 DEF Deliveries, Statuses
  <2> QED BY <2>1, <2>2, <2>3
<1> QED BY <1>1, <1>2, <1>6, <1>7

\* A call puts one request of its own on the wire.
LEMMA CallSetupWrites ==
  ASSUME TypeOK, CountInv, NEW op \in Ops, CallSetup(op)
  PROVE  /\ calls' = calls + 1 /\ calls' \in 1..MaxCalls
         /\ requests' = requests \cup {[call |-> calls', op |-> op, copy |-> 1]}
         /\ requests' \subseteq Requests /\ IsFiniteSet(requests')
         /\ Cardinality(requests') = Cardinality(requests) + 1
<1>1. calls' = calls + 1 /\ calls' \in 1..MaxCalls /\ calls \in Nat
  BY TimingAssumption DEF CallSetup, TypeOK
<1> DEFINE new == [call |-> calls', op |-> op, copy |-> 1]
<1>2. requests' = requests \cup {new} BY DEF CallSetup, Copies
<1>3. new \in Requests BY <1>1 DEF Requests
<1>4. new \notin requests
  <2>1. \A r \in requests : r.call <= calls /\ r.call \in Nat
    BY TimingAssumption DEF CountInv, TypeOK, Requests
  <2> QED BY <1>1, <2>1
<1>5. IsFiniteSet(requests') /\ Cardinality(requests') = Cardinality(requests) + 1
  BY <1>2, <1>4, FS_AddElement DEF CountInv
<1> QED BY <1>1, <1>2, <1>3, <1>5 DEF TypeOK

\* A message of the API is signed as it is, now.
LEMMA PostWrites ==
  ASSUME TypeOK, NEW p \in Prompts, NEW choice \in Choices, NEW own \in BOOLEAN,
         Post(Body(p, choice, own))
  PROVE  LET b == [prompt |-> p, choice |-> choice, own |-> own, ts |-> clock]
             m == [body |-> b, signed |-> b, version |-> endpoint.version, sent |-> clock]
         IN  m \in Messages /\ wire' = wire \cup {m}
BY DEF TypeOK, Post, Body, Messages, Bodies

\* Whatever happens to a message on its way, it is signed for what it was.
LEMMA DisturbWrites ==
  ASSUME TypeOK, NEW m \in wire, Disturb(m), NEW n \in wire'
  PROVE  /\ n \in Messages
         /\ \E o \in wire : n.signed = o.signed /\ n.sent = o.sent
<1>1. m \in Messages /\ clock \in Time /\ m.body \in Bodies BY DEF TypeOK, Messages
<1>2. CASE n \in wire BY <1>2 DEF TypeOK
<1>3. ASSUME NEW ch \in Choices, n = [m EXCEPT !.body.choice = ch]
      PROVE  n \in Messages /\ n.signed = m.signed /\ n.sent = m.sent
  BY <1>1, <1>3 DEF Messages, Bodies
<1>4. ASSUME n = [m EXCEPT !.body.ts = clock]
      PROVE  n \in Messages /\ n.signed = m.signed /\ n.sent = m.sent
  BY <1>1, <1>4 DEF Messages, Bodies
<1> QED BY <1>2, <1>3, <1>4 DEF Disturb

\* Every variable keeps its type, and the credential version its bound.
LEMMA TypeStep == TypeOK /\ CountInv /\ WireInv /\ [Next]_vars => TypeOK' /\ CountInv'
<1> SUFFICES ASSUME TypeOK, CountInv, WireInv, [Next]_vars PROVE TypeOK' /\ CountInv' OBVIOUS
<1>0. /\ clock \in Time /\ skew \in -Skew..Skew /\ requests \subseteq Requests
      /\ calls \in 0..MaxCalls /\ calls \in Nat /\ setup \in Setups
      /\ endpoint \in [version : Versions, enabled : BOOLEAN] /\ endpoint.version \in Nat
      /\ doubt \in BOOLEAN /\ secret \in Versions
      /\ review \in [Prompts -> Choices \cup {"pending"}]
      /\ delivery \in [Prompts -> Deliveries] /\ wire \subseteq Messages
      /\ verdict \in Verdicts \cup {NoVerdict}
      /\ IsFiniteSet(requests) /\ Cardinality(requests) \in Nat
  BY FS_CardinalityType, TimingAssumption DEF TypeOK, CountInv, Versions
<1> USE DEF setupVars, eventVars
<1>1. ASSUME NEW op \in Ops, CallSetup(op), verdict' = NoVerdict PROVE TypeOK' /\ CountInv'
  <2>1. setup' \in Setups
    BY <1>0, <1>1, TimingAssumption DEF CallSetup, Setups, Versions
  <2>2. TypeOK'
    BY <1>0, <1>1, <2>1, CallSetupWrites, TimingAssumption DEF CallSetup, TypeOK
  <2>3. \A r \in requests : r.call <= calls /\ r.call \in Nat
    BY <1>0, TimingAssumption DEF CountInv, Requests
  <2>4. UNCHANGED endpoint BY <1>1 DEF CallSetup
  <2>5. \A r \in requests' : r.call <= calls' BY <1>0, <1>1, <2>3, CallSetupWrites
  <2>6. calls' = calls + 1 /\ IsFiniteSet(requests')
        /\ Cardinality(requests') = Cardinality(requests) + 1
    BY <1>1, CallSetupWrites
  <2>7. endpoint'.version + Cardinality(requests') <= calls'
    BY <1>0, <2>4, <2>6 DEF CountInv
  <2>8. CountInv' BY <2>5, <2>6, <2>7 DEF CountInv
  <2> QED BY <2>2, <2>8
<1>2. ASSUME NEW r \in requests, HandleSetup(r), verdict' = NoVerdict PROVE TypeOK' /\ CountInv'
  <2>1. setup' \in Setups
    <3>1. endpoint'.version \in Versions BY <1>2, HandleSetupWrites
    <3> QED BY <1>0, <1>2, <3>1 DEF HandleSetup, Setups
  <2>2. TypeOK' BY <1>0, <1>2, <2>1, HandleSetupWrites DEF HandleSetup, TypeOK
  <2>3. /\ requests' \subseteq requests /\ IsFiniteSet(requests') /\ calls' = calls
        /\ Cardinality(requests') = Cardinality(requests) - 1
        /\ endpoint'.version \in {endpoint.version, endpoint.version + 1}
    BY <1>2, HandleSetupWrites DEF HandleSetup
  <2>4. endpoint'.version + Cardinality(requests') <= calls' BY <1>0, <2>3 DEF CountInv
  <2>5. CountInv' BY <2>3, <2>4 DEF CountInv
  <2> QED BY <2>2, <2>5
<1>3. ASSUME SetupReturns, verdict' = NoVerdict PROVE TypeOK' /\ CountInv'
  <2>1. setup' \in Setups BY <1>0, <1>3 DEF SetupReturns, Setups
  <2>2. secret' \in Versions /\ doubt' \in BOOLEAN BY <1>0, <1>3 DEF SetupReturns, Setups
  <2> QED BY <1>0, <1>3, <2>1, <2>2 DEF SetupReturns, TypeOK, CountInv
<1>4. ASSUME SetupRaises, verdict' = NoVerdict PROVE TypeOK' /\ CountInv'
  <2>1. setup' \in Setups BY <1>0, <1>4 DEF SetupRaises, Setups
  <2> QED BY <1>0, <1>4, <2>1 DEF SetupRaises, TypeOK, CountInv
<1>5. ASSUME UNCHANGED <<clock, skew, setupVars>>, review' \in [Prompts -> Choices \cup {"pending"}],
             delivery' \in [Prompts -> Deliveries], wire' \subseteq Messages,
             verdict' \in Verdicts \cup {NoVerdict}
      PROVE  TypeOK' /\ CountInv'
  BY <1>0, <1>5 DEF TypeOK, CountInv
<1>6. ASSUME NEW p \in Prompts, NEW choice \in Choices, Resolve(p, choice), verdict' = NoVerdict
      PROVE  TypeOK' /\ CountInv'
  <2>1. \A s \in {"pending", "none"} : [delivery[p] EXCEPT !.status = s] \in Deliveries
    BY <1>0 DEF Deliveries, Statuses
  <2>2. delivery' \in [Prompts -> Deliveries] BY <1>0, <1>6, <2>1 DEF Resolve
  <2> QED BY <1>0, <1>5, <1>6, <2>2 DEF Resolve
<1>7. ASSUME NEW p \in Prompts, NEW choice \in Choices, PostForeign(p, choice), verdict' = NoVerdict
      PROVE  TypeOK' /\ CountInv'
  <2>1. wire' \subseteq Messages BY <1>0, <1>7, PostWrites DEF PostForeign
  <2> QED BY <1>0, <1>5, <1>7, <2>1 DEF PostForeign
<1>8. ASSUME NEW p \in Prompts, AttemptDelivery(p), verdict' = NoVerdict
      PROVE  TypeOK' /\ CountInv'
  <2>1. wire' \subseteq Messages
    <3>1. Post(Body(p, review[p], TRUE)) BY <1>8 DEF AttemptDelivery
    <3>2. review[p] \in Choices BY <1>0, <1>8 DEF AttemptDelivery, WireInv
    <3>3. ASSUME NEW choice \in Choices, Post(Body(p, choice, TRUE)) PROVE wire' \subseteq Messages
      BY <1>0, <3>3, PostWrites
    <3> QED BY <3>1, <3>2, <3>3
  <2>2. [delivery[p] EXCEPT !.attempts = @ + 1] \in Deliveries
    BY <1>0, <1>8, TimingAssumption DEF AttemptDelivery, Deliveries
  <2>3. delivery' \in [Prompts -> Deliveries] BY <1>0, <1>8, <2>2 DEF AttemptDelivery
  <2> QED BY <1>0, <1>5, <1>8, <2>1, <2>3 DEF AttemptDelivery
<1>9. ASSUME NEW p \in Prompts, GiveUpDelivery(p), verdict' = NoVerdict PROVE TypeOK' /\ CountInv'
  <2>1. [delivery[p] EXCEPT !.status = "failed"] \in Deliveries BY <1>0 DEF Deliveries, Statuses
  <2>2. delivery' \in [Prompts -> Deliveries] BY <1>0, <1>9, <2>1 DEF GiveUpDelivery
  <2> QED BY <1>0, <1>5, <1>9, <2>2 DEF GiveUpDelivery
<1>10. ASSUME NEW m \in wire, Disturb(m), verdict' = NoVerdict PROVE TypeOK' /\ CountInv'
  <2>1. wire' \subseteq Messages BY <1>10, DisturbWrites
  <2> QED BY <1>0, <1>5, <1>10, <2>1 DEF Disturb
<1>11. ASSUME NEW m \in wire, Receive(m) PROVE TypeOK' /\ CountInv'
  <2>1. [delivery[m.body.prompt] EXCEPT !.status = "delivered"] \in Deliveries
    BY <1>0 DEF Deliveries, Statuses, Messages, Bodies
  <2>2. delivery' \in [Prompts -> Deliveries] BY <1>0, <1>11, <2>1 DEF Receive
  <2>3. verdict' \in Verdicts BY <1>0, <1>11 DEF Receive, Verdicts
  <2> QED BY <1>0, <1>5, <1>11, <2>2, <2>3 DEF Receive
<1>12. ASSUME Tick, verdict' = NoVerdict PROVE TypeOK' /\ CountInv'
  <2>1. clock' \in Time BY <1>0, <1>12, TimingAssumption DEF Tick, Time
  <2> QED BY <1>0, <1>12, <2>1 DEF Tick, TypeOK, CountInv
<1>13. CASE UNCHANGED vars BY <1>0, <1>13 DEF vars, TypeOK, CountInv
<1> QED BY <1>1, <1>2, <1>3, <1>4, <1>6, <1>7, <1>8, <1>9, <1>10, <1>11, <1>12, <1>13 DEF Next, Step

\* The caller's knowledge of the secret, call by call.
LEMMA SetupStep == TypeOK /\ CountInv /\ SetupInv /\ [Next]_vars => SetupInv'
<1> SUFFICES ASSUME TypeOK, CountInv, SetupInv, [Next]_vars PROVE SetupInv' OBVIOUS
<1>0. setup \in Setups /\ requests \subseteq Requests /\ calls \in Nat
  BY TimingAssumption DEF TypeOK
<1>1. ASSUME NEW op \in Ops, CallSetup(op) PROVE SetupInv'
  <2>1. setup' = [st |-> "sent", op |-> op, version |-> 0, clean |-> requests = {}]
        /\ setup.st = "idle" /\ UNCHANGED <<endpoint, doubt, secret>>
    BY <1>1 DEF CallSetup
  <2>2. requests' = requests \cup {[call |-> calls', op |-> op, copy |-> 1]}
    BY <1>1, CallSetupWrites
  <2> QED BY <2>1, <2>2 DEF SetupInv
<1>2. ASSUME NEW r \in requests, HandleSetup(r) PROVE SetupInv'
  <2>1. /\ requests' = requests \ {r}
        /\ endpoint'.version \in {endpoint.version, endpoint.version + 1}
        /\ r.op = "disable" => endpoint'.version = endpoint.version
    BY <1>2, HandleSetupWrites
  <2>2. UNCHANGED <<calls, doubt, secret>> BY <1>2 DEF HandleSetup
  <2>3. CASE setup.st = "sent" /\ setup.clean
    <3>1. r = [call |-> calls, op |-> setup.op, copy |-> 1] /\ requests' = {}
      BY <2>1, <2>3 DEF SetupInv
    <3>2. CASE setup' = setup BY <2>1, <2>2, <2>3, <3>1, <3>2 DEF SetupInv
    <3>3. CASE setup' = [setup EXCEPT !.st = "answered", !.version = endpoint'.version]
      <4>1. setup'.st = "answered" /\ setup'.version = endpoint'.version /\ setup'.op = setup.op
            /\ setup'.clean = setup.clean
        BY <1>0, <3>3 DEF Setups
      <4>2. ~doubt /\ setup.op = "disable" => secret = endpoint'.version
        BY <2>1, <2>3, <3>1 DEF SetupInv
      <4> QED BY <2>2, <2>3, <3>1, <4>1, <4>2 DEF SetupInv
    <3> QED BY <1>2, <3>2, <3>3 DEF HandleSetup
  <2>4. CASE setup.st = "sent" /\ ~setup.clean
    <3>1. doubt BY <2>4 DEF SetupInv
    <3>2. setup'.st \in {"sent", "answered"} /\ setup'.clean = setup.clean
      BY <1>0, <1>2, <2>4 DEF HandleSetup, Setups
    <3> QED BY <2>2, <2>4, <3>1, <3>2 DEF SetupInv
  <2>5. CASE setup.st = "answered"
    <3>1. ~setup.clean /\ doubt BY <2>5 DEF SetupInv
    <3>2. setup' = setup BY <1>2, <2>5 DEF HandleSetup
    <3> QED BY <2>2, <2>5, <3>1, <3>2 DEF SetupInv
  <2>6. CASE setup.st = "idle"
    <3>1. doubt /\ setup' = setup BY <1>2, <2>6 DEF SetupInv, HandleSetup
    <3> QED BY <2>2, <2>6, <3>1 DEF SetupInv
  <2> QED BY <1>0, <2>3, <2>4, <2>5, <2>6 DEF Setups
<1>3. ASSUME SetupReturns PROVE SetupInv'
  <2>1. setup.st = "answered" /\ setup'.st = "idle" /\ UNCHANGED <<endpoint, requests, calls>>
    BY <1>0, <1>3 DEF SetupReturns, Setups
  <2>2. CASE setup.op = "disable"
    <3>1. secret' = secret /\ doubt' = doubt BY <1>3, <2>2 DEF SetupReturns
    <3> QED BY <2>1, <2>2, <3>1 DEF SetupInv
  <2>3. CASE setup.op # "disable"
    <3>1. secret' = setup.version /\ doubt' = (doubt /\ ~setup.clean)
      BY <1>3, <2>3 DEF SetupReturns
    <3>2. ~doubt' => setup.clean BY <2>1, <3>1 DEF SetupInv
    <3> QED BY <2>1, <2>3, <3>1, <3>2 DEF SetupInv
  <2> QED BY <2>2, <2>3
<1>4. ASSUME SetupRaises PROVE SetupInv'
  <2>1. setup'.st = "idle" /\ doubt' BY <1>0, <1>4 DEF SetupRaises, Setups
  <2> QED BY <2>1 DEF SetupInv
<1>5. CASE UNCHANGED setupVars BY <1>5 DEF setupVars, SetupInv
<1> QED BY <1>1, <1>2, <1>3, <1>4, <1>5
  DEF Next, Step, Resolve, PostForeign, AttemptDelivery, GiveUpDelivery, Disturb, Receive, Tick, vars, setupVars

\* What was signed stays true of the review, which is settled once.
LEMMA WireStep == TypeOK /\ CountInv /\ WireInv /\ [Next]_vars => WireInv'
<1> SUFFICES ASSUME TypeOK, CountInv, WireInv, [Next]_vars PROVE WireInv' OBVIOUS
<1>0. /\ clock \in Nat /\ review \in [Prompts -> Choices \cup {"pending"}]
      /\ delivery \in [Prompts -> Deliveries] /\ wire \subseteq Messages
      /\ \A m \in wire : m.signed.prompt \in Prompts /\ m.signed.choice \in Choices
                         /\ m.body.prompt \in Prompts /\ m.sent \in Nat
  BY TimingAssumption DEF TypeOK, Time, Messages, Bodies
<1> USE DEF setupVars, eventVars
<1>1. ASSUME UNCHANGED <<clock, review>>,
             \A m \in wire' : \E o \in wire : m.signed = o.signed /\ m.sent = o.sent,
             \A p \in Prompts : delivery'[p].status = "pending" => delivery[p].status = "pending"
      PROVE  WireInv'
  BY <1>1 DEF WireInv
<1>2. ASSUME NEW op \in Ops, CallSetup(op) PROVE WireInv'
  BY <1>1, <1>2 DEF CallSetup
<1>3. ASSUME NEW r \in requests, HandleSetup(r) PROVE WireInv'
  BY <1>1, <1>3, HandleSetupWrites DEF HandleSetup
<1>4. ASSUME SetupReturns \/ SetupRaises PROVE WireInv'
  BY <1>1, <1>4 DEF SetupReturns, SetupRaises
<1>5. ASSUME NEW p \in Prompts, NEW choice \in Choices, Resolve(p, choice) PROVE WireInv'
  <2>1. review[p] = "pending" /\ review' = [review EXCEPT ![p] = choice] /\ choice # "pending"
        /\ wire' = wire /\ clock' = clock
    BY <1>5 DEF Resolve, Choices
  <2>2. \A q \in Prompts : q # p => delivery'[q] = delivery[q] BY <1>0, <1>5 DEF Resolve
  <2>3. \A m \in wire : m.signed.own => m.signed.prompt # p
    BY <1>0, <2>1 DEF WireInv, Choices
  <2> QED BY <1>0, <2>1, <2>2, <2>3 DEF WireInv
<1>6. ASSUME NEW p \in Prompts, NEW choice \in Choices, NEW own \in BOOLEAN,
             Post(Body(p, choice, own)), own => choice = review[p], UNCHANGED <<clock, review>>,
             \A q \in Prompts : delivery'[q].status = "pending" => delivery[q].status = "pending"
      PROVE  WireInv'
  <2> DEFINE b == [prompt |-> p, choice |-> choice, own |-> own, ts |-> clock]
             new == [body |-> b, signed |-> b, version |-> endpoint.version, sent |-> clock]
  <2>1. wire' = wire \cup {new} BY <1>6, PostWrites
  <2>2. (new.signed.own => review[new.signed.prompt] = new.signed.choice)
        /\ new.signed.ts = new.sent /\ new.sent <= clock
    BY <1>0, <1>6
  <2> HIDE DEF new
  <2> QED BY <1>6, <2>1, <2>2 DEF WireInv
<1>7. ASSUME NEW p \in Prompts, NEW choice \in Choices, PostForeign(p, choice) PROVE WireInv'
  <2>1. Post(Body(p, choice, FALSE)) /\ UNCHANGED <<clock, review, delivery>>
    BY <1>7 DEF PostForeign
  <2> QED BY <1>6, <2>1
<1>8. ASSUME NEW p \in Prompts, AttemptDelivery(p) PROVE WireInv'
  <2>1. Post(Body(p, review[p], TRUE)) /\ UNCHANGED <<clock, review>> BY <1>8 DEF AttemptDelivery
  <2>2. review[p] \in Choices BY <1>0, <1>8 DEF AttemptDelivery, WireInv
  <2>3. \A q \in Prompts : delivery'[q].status = delivery[q].status
    BY <1>0, <1>8 DEF AttemptDelivery, Deliveries
  <2> QED BY <1>6, <2>1, <2>2, <2>3
<1>9. ASSUME NEW p \in Prompts, GiveUpDelivery(p) PROVE WireInv'
  <2>1. \A q \in Prompts : delivery'[q].status = "pending" => delivery[q].status = "pending"
    BY <1>0, <1>9 DEF GiveUpDelivery, Deliveries
  <2> QED BY <1>1, <1>9, <2>1 DEF GiveUpDelivery
<1>10. ASSUME NEW m \in wire, Disturb(m) PROVE WireInv'
  <2>1. \A n \in wire' : \E o \in wire : n.signed = o.signed /\ n.sent = o.sent
    BY <1>10, DisturbWrites
  <2> QED BY <1>1, <1>10, <2>1 DEF Disturb
<1>11. ASSUME NEW m \in wire, Receive(m) PROVE WireInv'
  <2>1. \A q \in Prompts : delivery'[q].status = "pending" => delivery[q].status = "pending"
    BY <1>0, <1>11 DEF Receive, Deliveries
  <2> QED BY <1>1, <1>11, <2>1 DEF Receive
<1>12. ASSUME Tick PROVE WireInv'
  <2>1. clock' = clock + 1 /\ UNCHANGED <<review, delivery, wire>> BY <1>12 DEF Tick
  <2> QED BY <1>0, <2>1 DEF WireInv
<1>13. CASE UNCHANGED vars BY <1>1, <1>13 DEF vars
<1> QED BY <1>2, <1>3, <1>4, <1>5, <1>7, <1>8, <1>9, <1>10, <1>11, <1>12, <1>13 DEF Next, Step

\* A message is judged by the step that receives it, and the judgment then holds
\* until the next step.
LEMMA VerdictStep ==
  /\ TypeOK /\ WireInv /\ AcceptedIsGenuine /\ PromptDeliveryAccepted
  /\ [Next]_vars
  => AcceptedIsGenuine' /\ PromptDeliveryAccepted'
<1> SUFFICES ASSUME TypeOK, WireInv, AcceptedIsGenuine, PromptDeliveryAccepted, [Next]_vars
             PROVE  AcceptedIsGenuine' /\ PromptDeliveryAccepted'
  OBVIOUS
<1>1. CASE verdict' = NoVerdict
  BY <1>1 DEF NoVerdict, AcceptedIsGenuine, PromptDeliveryAccepted
<1>2. ASSUME NEW m \in wire, Receive(m)
      PROVE  AcceptedIsGenuine' /\ PromptDeliveryAccepted'
  <2>0. /\ m \in Messages /\ clock \in Int /\ m.sent \in Int /\ m.sent <= clock /\ secret \in Nat
        /\ skew \in Int /\ -Skew <= skew /\ skew <= Skew
    BY <1>2, TimingAssumption DEF TypeOK, Messages, Time, Versions, WireInv
  <2>1. verdict' = [st |-> IF Verified(m) THEN "accepted" ELSE "refused",
                    msg |-> m, at |-> clock, secret |-> secret] /\ review' = review
    BY <1>2 DEF Receive, eventVars
  <2>2. ASSUME Verified(m)
        PROVE  m.body.own /\ review[m.body.prompt] = m.body.choice
               /\ clock - m.sent <= Tolerance + Skew
    <3>1. m.body = m.signed /\ m.body.own /\ Now - m.body.ts <= Tolerance
      BY <2>2 DEF Verified, SignatureMatches, InTolerance
    <3>2. m.body.ts = m.sent BY <3>1 DEF WireInv
    <3>3. clock - m.sent <= Tolerance + Skew
      BY <2>0, <3>1, <3>2, TimingAssumption DEF Now
    <3> QED BY <3>1, <3>3 DEF WireInv
  <2>3. ASSUME m.body = m.signed, m.body.own, m.version = secret, m.version # 0,
               clock - m.sent <= Delay
        PROVE  Verified(m)
    <3>1. m.body.ts = m.sent BY <2>3 DEF WireInv
    <3>2. Now - m.sent <= Tolerance /\ m.sent - Now <= Tolerance
      BY <2>0, <2>3, TimingAssumption DEF Now
    <3>3. InTolerance(m.body.ts) BY <3>1, <3>2 DEF InTolerance
    <3>4. SignatureMatches(m) BY <2>0, <2>3 DEF SignatureMatches
    <3> QED BY <2>3, <3>3, <3>4 DEF Verified
  <2>4. CASE Verified(m)
    <3>1. verdict'.st = "accepted" /\ verdict'.msg = m /\ verdict'.at = clock BY <2>1, <2>4
    <3> QED BY <2>1, <2>2, <2>4, <3>1 DEF AcceptedIsGenuine, PromptDeliveryAccepted
  <2>5. CASE ~Verified(m)
    <3>1. verdict'.st = "refused" /\ verdict'.msg = m /\ verdict'.at = clock
          /\ verdict'.secret = secret
      BY <2>1, <2>5
    <3>2. m.body # m.signed \/ ~m.body.own \/ m.version # secret \/ m.version = 0
          \/ clock - m.sent > Delay
      BY <2>0, <2>3, <2>5, TimingAssumption
    <3> QED BY <3>1, <3>2 DEF AcceptedIsGenuine, PromptDeliveryAccepted
  <2> QED BY <2>4, <2>5
<1>3. CASE UNCHANGED vars
  BY <1>3 DEF vars, AcceptedIsGenuine, PromptDeliveryAccepted
<1> QED BY <1>1, <1>2, <1>3 DEF Next

\* The invariant holds throughout, for any number of prompts and messages, any
\* bounds, and any clocks within the skew.
THEOREM WebhookInvariant == Spec => []WebhookInv
<1>1. Init => WebhookInv
  <2> SUFFICES ASSUME Init PROVE WebhookInv OBVIOUS
  <2>1. TypeOK
    <3>1. 0 \in Versions /\ 0 \in Time /\ endpoint \in [version : Versions, enabled : BOOLEAN]
      BY TimingAssumption DEF Init, Versions, Time
    <3>2. setup \in Setups /\ delivery \in [Prompts -> Deliveries] /\ calls \in 0..MaxCalls
      BY <3>1, TimingAssumption DEF Init, Setups, Deliveries, Statuses
    <3> QED BY <3>1, <3>2 DEF Init, TypeOK
  <2>2. CountInv BY FS_EmptySet DEF Init, CountInv
  <2>3. SetupInv /\ WireInv BY DEF Init, SetupInv, WireInv
  <2>4. AcceptedIsGenuine /\ PromptDeliveryAccepted
    BY DEF Init, NoVerdict, AcceptedIsGenuine, PromptDeliveryAccepted
  <2> QED BY <2>1, <2>2, <2>3, <2>4 DEF WebhookInv
<1>2. WebhookInv /\ [Next]_vars => WebhookInv'
  BY TypeStep, SetupStep, WireStep, VerdictStep DEF WebhookInv
<1> QED BY <1>1, <1>2, PTL DEF Spec

\* Between setup calls that did not fail the receiver has the API's secret.
THEOREM SecretSafety == Spec => []SecretIsCurrent
<1>1. WebhookInv => SecretIsCurrent BY DEF WebhookInv, SetupInv, SecretIsCurrent
<1> QED BY WebhookInvariant, <1>1, PTL

\* What is accepted is a resolution as recorded, and not too old.
THEOREM AcceptanceSafety == Spec => []AcceptedIsGenuine
<1>1. WebhookInv => AcceptedIsGenuine BY DEF WebhookInv
<1> QED BY WebhookInvariant, <1>1, PTL

\* What is undamaged and prompt is accepted.
THEOREM ToleranceSafety == Spec => []PromptDeliveryAccepted
<1>1. WebhookInv => PromptDeliveryAccepted BY DEF WebhookInv
<1> QED BY WebhookInvariant, <1>1, PTL
=============================================================================
