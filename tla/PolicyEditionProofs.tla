------------------------- MODULE PolicyEditionProofs -------------------------
(***************************************************************************)
(* What an author grants is what it saw evaluated, and its edition follows *)
(* the one it was based on.  Both rest on the idempotency key, which ties  *)
(* an answer to one read of the policy, and on editions that only grow.    *)
(***************************************************************************)
EXTENDS PolicyEdition, TLAPS

\* A recorded answer names an edition there is, by its definition.
AnswerInv ==
  \A k \in Keys : replay[k] # None =>
    /\ replay[k].version <= Len(editions[replay[k].id])
    /\ editions[replay[k].id][replay[k].version] = replay[k].digest

\* A key is of a read the author has made; requests under the key of the
\* latest one name the edition it was based on, and so does their answer.
KeyInv ==
  /\ \A q \in requests :
       LET a == q.key[1] IN
       /\ q.id = author[a].id
       /\ q.key[2] <= author[a].reads
       /\ q.key[2] = author[a].reads => q.previous = author[a].base
  /\ \A a \in Authors :
       /\ \A n \in 0..MaxReads : n > author[a].reads => replay[<<a, n>>] = None
       /\ LET answer == replay[<<a, author[a].reads>>] IN
          answer # None /\ author[a].base # None => answer.version = author[a].base.version + 1

\* What the author submits is what it saw evaluated, and what it holds in the
\* end is the edition of it.
AuthorInv ==
  \A a \in Authors :
    /\ author[a].previewed = author[a].draft
    /\ author[a].st \in {"published", "granted"} =>
         /\ author[a].ref \in Refs
         /\ author[a].ref.id = author[a].id
         /\ author[a].ref.version <= Len(editions[author[a].id])
         /\ editions[author[a].id][author[a].ref.version] = author[a].draft

PolicyInv == TypeOK /\ AnswerInv /\ KeyInv /\ AuthorInv /\ NoLostUpdate

-----------------------------------------------------------------------------
\* An edition is appended; the ones there were stay as they are.
LEMMA EditionsGrow ==
  ASSUME TypeOK, NEW q \in requests, HandlePublish(q), NEW id \in PolicyIds, NEW v \in Versions,
         v <= Len(editions[id])
  PROVE  v <= Len(editions'[id]) /\ editions'[id][v] = editions[id][v]
<1>1. editions[id] \in Seq(Definitions) /\ Len(editions[id]) \in Nat /\ v \in 1..Len(editions[id])
  BY PolicyAssumption DEF TypeOK, Versions
<1>2. q.definition \in Definitions BY DEF TypeOK, PublishRequests
<1>3. CASE editions' = [editions EXCEPT ![q.id] = Append(@, q.definition)]
  <2>1. CASE id = q.id
    <3>1. editions'[id] = Append(editions[id], q.definition) BY <1>3, <2>1 DEF TypeOK
    <3> QED BY <1>1, <1>2, <3>1
  <2>2. CASE id # q.id BY <1>3, <2>2 DEF TypeOK
  <2> QED BY <2>1, <2>2
<1> QED BY <1>3 DEF HandlePublish

\* A fresh read starts the author over, under a new key.
LEMMA GetPolicyWrites ==
  ASSUME TypeOK, NEW a \in Authors, GetPolicy(a)
  PROVE  /\ author' \in [Authors -> AuthorStates]
         /\ \A b \in Authors : b # a => author'[b] = author[b]
         /\ author'[a].st = "based" /\ author'[a].id = author[a].id
         /\ author'[a].reads = author[a].reads + 1
         /\ author'[a].draft = None /\ author'[a].previewed = None
<1>1. author[a] \in AuthorStates /\ author \in [Authors -> AuthorStates] BY DEF TypeOK
<1>2. PICK base \in Refs \cup {None} :
        author' = [author EXCEPT ![a] =
          [author[a] EXCEPT !.st = "based", !.reads = author[a].reads + 1, !.base = base,
                            !.draft = None, !.previewed = None, !.ref = None]]
  BY <1>1 DEF GetPolicy, Published, Update, AuthorStates
<1>3. author[a].reads + 1 \in 0..MaxReads
  BY <1>1, PolicyAssumption DEF GetPolicy, AuthorStates
<1> DEFINE s == [author[a] EXCEPT !.st = "based", !.reads = author[a].reads + 1, !.base = base,
                                  !.draft = None, !.previewed = None, !.ref = None]
<1>4. s \in AuthorStates /\ s.st = "based" /\ s.id = author[a].id /\ s.reads = author[a].reads + 1
      /\ s.draft = None /\ s.previewed = None
  BY <1>1, <1>3 DEF AuthorStates, Steps
<1> HIDE DEF s
<1>5. author' = [author EXCEPT ![a] = s] BY <1>2 DEF s
<1> QED BY <1>1, <1>4, <1>5

\* Every variable keeps its type.
LEMMA TypeStep == TypeOK /\ [Next]_vars => TypeOK'
<1> SUFFICES ASSUME TypeOK, [Next]_vars PROVE TypeOK' OBVIOUS
<1>0. /\ editions \in [PolicyIds -> Seq(Definitions)]
      /\ \A id \in PolicyIds : Len(editions[id]) <= MaxVersion /\ Len(editions[id]) \in Nat
      /\ archived \subseteq PolicyIds /\ replay \in [Keys -> Refs \cup {None}]
      /\ requests \subseteq PublishRequests /\ author \in [Authors -> AuthorStates]
  BY DEF TypeOK
<1>1. ASSUME NEW a \in Authors, NEW s \in AuthorStates, Update(a, s),
             UNCHANGED <<editions, archived, replay, requests>>
      PROVE  TypeOK'
  BY <1>0, <1>1 DEF Update, TypeOK
<1>2. ASSUME NEW a \in Authors, GetPolicy(a) PROVE TypeOK'
  <2>1. author' \in [Authors -> AuthorStates] BY <1>0, <1>2, GetPolicyWrites
  <2> QED BY <1>0, <1>2, <2>1 DEF GetPolicy, TypeOK
<1>3. ASSUME NEW a \in Authors, NEW d \in Definitions, Preview(a, d) PROVE TypeOK'
  <2>1. PICK digest \in Definitions :
          Update(a, [author[a] EXCEPT !.st = "previewed", !.draft = d, !.previewed = digest])
    BY <1>3 DEF Preview
  <2>2. [author[a] EXCEPT !.st = "previewed", !.draft = d, !.previewed = digest] \in AuthorStates
    BY <1>0 DEF AuthorStates, Steps
  <2> QED BY <1>1, <1>3, <2>1, <2>2 DEF Preview
<1>4. ASSUME NEW a \in Authors, Publish(a) PROVE TypeOK'
  <2>1. author[a] \in AuthorStates /\ author[a].draft \in Definitions
    BY <1>0, <1>4 DEF Publish, ValidDefinition
  <2>2. [author[a] EXCEPT !.st = "publishing"] \in AuthorStates BY <2>1 DEF AuthorStates, Steps
  <2>3. requests' = requests \cup
          {[id |-> author[a].id, definition |-> author[a].draft, previous |-> author[a].base,
            key |-> <<a, author[a].reads>>]}
    BY <1>4 DEF Publish, Body
  <2>4. requests' \subseteq PublishRequests
    BY <1>0, <2>1, <2>3 DEF AuthorStates, PublishRequests, Keys
  <2> QED BY <1>0, <1>4, <2>2, <2>4 DEF Publish, Update, TypeOK
<1>5. ASSUME NEW q \in requests, HandlePublish(q) PROVE TypeOK'
  <2>1. q \in PublishRequests /\ q.definition \in Definitions /\ q.id \in PolicyIds /\ q.key \in Keys
    BY <1>0 DEF PublishRequests
  <2>2. CASE UNCHANGED <<editions, replay>>
    BY <1>0, <1>5, <2>2 DEF HandlePublish, TypeOK
  <2>3. CASE Len(editions[q.id]) < MaxVersion
             /\ editions' = [editions EXCEPT ![q.id] = Append(@, q.definition)]
             /\ replay' = [replay EXCEPT ![q.key] =
                  [id |-> q.id, version |-> Len(editions[q.id]) + 1, digest |-> q.definition]]
    <3>1. [id |-> q.id, version |-> Len(editions[q.id]) + 1, digest |-> q.definition] \in Refs
      BY <1>0, <2>1, <2>3, PolicyAssumption DEF Refs, Versions
    <3>2. Append(editions[q.id], q.definition) \in Seq(Definitions)
          /\ Len(Append(editions[q.id], q.definition)) <= MaxVersion
      BY <1>0, <2>1, <2>3, PolicyAssumption
    <3>3. editions' \in [PolicyIds -> Seq(Definitions)]
          /\ \A id \in PolicyIds : Len(editions'[id]) <= MaxVersion
      BY <1>0, <2>1, <2>3, <3>2
    <3> QED BY <1>0, <1>5, <2>1, <2>3, <3>1, <3>3 DEF HandlePublish, TypeOK
  <2> QED BY <1>5, <2>2, <2>3 DEF HandlePublish
<1>6. ASSUME NEW a \in Authors, PublishReturns(a) PROVE TypeOK'
  <2> DEFINE ref == replay[<<a, author[a].reads>>]
  <2>1. author[a] \in AuthorStates /\ <<a, author[a].reads>> \in Keys
    BY <1>0 DEF AuthorStates, Keys
  <2>2. ref \in Refs \cup {None} BY <1>0, <2>1
  <2>3. [author[a] EXCEPT !.st = "published", !.ref = ref] \in AuthorStates
    BY <2>1, <2>2 DEF AuthorStates, Steps
  <2> QED BY <1>1, <1>6, <2>3 DEF PublishReturns
<1>7. ASSUME NEW a \in Authors, PublishRaises(a) PROVE TypeOK'
  <2>1. [author[a] EXCEPT !.st = "previewed"] \in AuthorStates BY <1>0 DEF AuthorStates, Steps
  <2> QED BY <1>1, <1>7, <2>1 DEF PublishRaises
<1>8. ASSUME NEW a \in Authors, Grant(a) PROVE TypeOK'
  <2>1. PICK ref \in Refs : Update(a, [author[a] EXCEPT !.st = "granted", !.ref = ref])
    BY <1>8 DEF Grant, Published
  <2>2. [author[a] EXCEPT !.st = "granted", !.ref = ref] \in AuthorStates
    BY <1>0 DEF AuthorStates, Steps
  <2> QED BY <1>1, <1>8, <2>1, <2>2 DEF Grant
<1>9. ASSUME NEW id \in PolicyIds, Archive(id) PROVE TypeOK'
  BY <1>0, <1>9 DEF Archive, TypeOK
<1>10. CASE UNCHANGED vars BY <1>0, <1>10 DEF vars, TypeOK
<1> QED BY <1>2, <1>3, <1>4, <1>5, <1>6, <1>7, <1>8, <1>9, <1>10 DEF Next

\* What is published is true of an edition, and stays so.
LEMMA AnswerStep == TypeOK /\ AnswerInv /\ [Next]_vars => AnswerInv'
<1> SUFFICES ASSUME TypeOK, AnswerInv, [Next]_vars PROVE AnswerInv' OBVIOUS
<1>1. ASSUME NEW q \in requests, HandlePublish(q) PROVE AnswerInv'
  <2>0. /\ editions \in [PolicyIds -> Seq(Definitions)] /\ replay \in [Keys -> Refs \cup {None}]
        /\ q.id \in PolicyIds /\ q.definition \in Definitions /\ q.key \in Keys
    BY DEF TypeOK, PublishRequests
  <2> SUFFICES ASSUME NEW k \in Keys, replay'[k] # None
               PROVE  /\ replay'[k].version <= Len(editions'[replay'[k].id])
                      /\ editions'[replay'[k].id][replay'[k].version] = replay'[k].digest
    BY DEF AnswerInv
  <2>1. CASE replay'[k] = replay[k]
    <3>1. replay[k] \in Refs BY <2>0, <2>1
    <3>2. replay[k].id \in PolicyIds /\ replay[k].version \in Versions BY <3>1 DEF Refs
    <3>3. replay[k].version <= Len(editions[replay[k].id])
          /\ editions[replay[k].id][replay[k].version] = replay[k].digest
      BY <2>1 DEF AnswerInv
    <3> QED BY <1>1, <2>1, <3>2, <3>3, EditionsGrow
  <2>2. CASE replay'[k] # replay[k]
    <3>1. replay'[k] = [id |-> q.id, version |-> Len(editions[q.id]) + 1, digest |-> q.definition]
          /\ editions'[q.id] = Append(editions[q.id], q.definition)
      BY <1>1, <2>0, <2>2 DEF HandlePublish
    <3>2. editions[q.id] \in Seq(Definitions) BY <2>0
    <3> QED BY <2>0, <3>1, <3>2
  <2> QED BY <2>1, <2>2
<1>2. CASE UNCHANGED <<editions, replay>> BY <1>2 DEF AnswerInv
<1> QED BY <1>1, <1>2 DEF Next, vars, GetPolicy, Preview, Publish, PublishReturns, PublishRaises,
        Grant, Archive

\* A new read is a new key; until then the key stays with its base.
LEMMA KeyStep == TypeOK /\ KeyInv /\ [Next]_vars => KeyInv'
<1> SUFFICES ASSUME TypeOK, KeyInv, [Next]_vars PROVE KeyInv' OBVIOUS
<1>0. /\ replay \in [Keys -> Refs \cup {None}]
      /\ requests \subseteq PublishRequests /\ author \in [Authors -> AuthorStates]
      /\ \A a \in Authors : author[a].reads \in 0..MaxReads
      /\ \A q \in requests : q.key \in Keys /\ q.key[1] \in Authors /\ q.key[2] \in 0..MaxReads
                             /\ q.key = <<q.key[1], q.key[2]>>
  BY DEF TypeOK, AuthorStates, PublishRequests, Keys
<1>1. ASSUME \A a \in Authors : /\ author'[a].id = author[a].id
                                /\ author'[a].reads = author[a].reads
                                /\ author'[a].base = author[a].base,
             requests' \subseteq requests, UNCHANGED replay
      PROVE  KeyInv'
  BY <1>0, <1>1 DEF KeyInv
<1>2. ASSUME NEW a \in Authors, GetPolicy(a) PROVE KeyInv'
  <2>1. /\ author'[a].id = author[a].id /\ author'[a].reads = author[a].reads + 1
        /\ \A b \in Authors : b # a => author'[b] = author[b]
    BY <1>2, GetPolicyWrites
  <2>2. UNCHANGED <<requests, replay>> BY <1>2 DEF GetPolicy
  <2>3. ASSUME NEW q \in requests'
        PROVE  /\ q.id = author'[q.key[1]].id
               /\ q.key[2] <= author'[q.key[1]].reads
               /\ q.key[2] = author'[q.key[1]].reads => q.previous = author'[q.key[1]].base
    BY <1>0, <2>1, <2>2 DEF KeyInv
  <2>4. author'[a].reads \in 0..MaxReads
    BY <1>0, <1>2, <2>1, PolicyAssumption DEF GetPolicy
  <2>5. ASSUME NEW b \in Authors
        PROVE  /\ \A n \in 0..MaxReads : n > author'[b].reads => replay'[<<b, n>>] = None
               /\ LET answer == replay'[<<b, author'[b].reads>>] IN
                  answer # None /\ author'[b].base # None =>
                    answer.version = author'[b].base.version + 1
    <3>1. CASE b = a
      <4>1. \A n \in 0..MaxReads : n > author[a].reads => replay[<<a, n>>] = None BY DEF KeyInv
      <4>2. author'[a].reads > author[a].reads BY <1>0, <2>1
      <4>3. \A n \in 0..MaxReads : n > author'[a].reads => n > author[a].reads BY <1>0, <2>1, <2>4
      <4> QED BY <2>2, <2>4, <3>1, <4>1, <4>2, <4>3
    <3>2. CASE b # a BY <2>1, <2>2, <3>2 DEF KeyInv
    <3> QED BY <3>1, <3>2
  <2> QED BY <2>3, <2>5 DEF KeyInv
<1>3. ASSUME NEW a \in Authors, Publish(a) PROVE KeyInv'
  <2> DEFINE new == [id |-> author[a].id, definition |-> author[a].draft,
                     previous |-> author[a].base, key |-> <<a, author[a].reads>>]
  <2>1. requests' = requests \cup {new} /\ UNCHANGED replay BY <1>3 DEF Publish, Body
  <2>2. \A b \in Authors : /\ author'[b].id = author[b].id
                           /\ author'[b].reads = author[b].reads
                           /\ author'[b].base = author[b].base
    BY <1>0, <1>3 DEF Publish, Update, AuthorStates
  <2>3. ASSUME NEW q \in requests'
        PROVE  /\ q.id = author'[q.key[1]].id
               /\ q.key[2] <= author'[q.key[1]].reads
               /\ q.key[2] = author'[q.key[1]].reads => q.previous = author'[q.key[1]].base
    <3>1. CASE q = new BY <1>0, <2>2, <3>1
    <3>2. CASE q \in requests BY <1>0, <2>2, <3>2 DEF KeyInv
    <3> QED BY <2>1, <3>1, <3>2
  <2> QED BY <2>1, <2>2, <2>3 DEF KeyInv
<1>4. ASSUME NEW q \in requests, HandlePublish(q) PROVE KeyInv'
  <2>1. requests' \subseteq requests /\ author' = author BY <1>4 DEF HandlePublish
  <2>2. CASE UNCHANGED replay BY <1>1, <2>1, <2>2
  <2>3. CASE q.previous \in {None, Latest(q.id)}
             /\ replay' = [replay EXCEPT ![q.key] =
                  [id |-> q.id, version |-> Len(editions[q.id]) + 1, digest |-> q.definition]]
    <3> DEFINE b == q.key[1]
               m == q.key[2]
    <3>1. b \in Authors /\ m \in 0..MaxReads /\ q.key = <<b, m>> /\ q.key \in Keys
          /\ q.id = author[b].id /\ m <= author[b].reads
          /\ (m = author[b].reads => q.previous = author[b].base)
      BY <1>0 DEF KeyInv
    <3>2. \A k \in Keys : k # q.key => replay'[k] = replay[k] BY <1>0, <2>3
    <3>3. replay'[q.key].version = Len(editions[q.id]) + 1 BY <1>0, <2>3, <3>1
    <3>4. ASSUME NEW a \in Authors, NEW n \in 0..MaxReads, n > author[a].reads
          PROVE  replay'[<<a, n>>] = None
      <4>1. <<a, n>> \in Keys BY DEF Keys
      <4>2. <<a, n>> # q.key BY <1>0, <3>1, <3>4
      <4> QED BY <3>2, <3>4, <4>1, <4>2 DEF KeyInv
    <3>5. ASSUME NEW a \in Authors, replay'[<<a, author[a].reads>>] # None, author[a].base # None
          PROVE  replay'[<<a, author[a].reads>>].version = author[a].base.version + 1
      <4>1. <<a, author[a].reads>> \in Keys BY <1>0 DEF Keys
      <4>2. CASE <<a, author[a].reads>> = q.key
        <5>1. a = b /\ author[a].reads = m BY <3>1, <4>2
        <5>2. author[a].base = Latest(author[a].id) BY <2>3, <3>1, <3>5, <5>1
        <5>3. author[a].base.version = Len(editions[author[a].id])
          BY <3>5, <5>2 DEF Latest, Ref
        <5> QED BY <3>1, <3>3, <4>2, <5>1, <5>3
      <4>3. CASE <<a, author[a].reads>> # q.key BY <3>2, <3>5, <4>1, <4>3 DEF KeyInv
      <4> QED BY <4>2, <4>3
    <3>6. ASSUME NEW p \in requests'
          PROVE  /\ p.id = author'[p.key[1]].id
                 /\ p.key[2] <= author'[p.key[1]].reads
                 /\ p.key[2] = author'[p.key[1]].reads => p.previous = author'[p.key[1]].base
      BY <2>1 DEF KeyInv
    <3> QED BY <2>1, <3>4, <3>5, <3>6 DEF KeyInv
  <2> QED BY <1>4, <2>2, <2>3 DEF HandlePublish
<1>5. ASSUME NEW a \in Authors,
             (\E d \in Definitions : Preview(a, d)) \/ PublishReturns(a) \/ PublishRaises(a)
               \/ Grant(a)
      PROVE  KeyInv'
  <2>1. UNCHANGED <<requests, replay>>
    BY <1>5 DEF Preview, PublishReturns, PublishRaises, Grant
  <2>2. \A b \in Authors : /\ author'[b].id = author[b].id
                           /\ author'[b].reads = author[b].reads
                           /\ author'[b].base = author[b].base
    <3>1. PICK s : Update(a, s) /\ s.id = author[a].id /\ s.reads = author[a].reads
                     /\ s.base = author[a].base
      <4> DEFINE Same(s) == s.id = author[a].id /\ s.reads = author[a].reads
                            /\ s.base = author[a].base
      <4>0. author[a] \in AuthorStates BY <1>0
      <4>1. CASE \E d \in Definitions : Preview(a, d)
        <5>1. PICK d \in Definitions, digest \in Definitions :
                Update(a, [author[a] EXCEPT !.st = "previewed", !.draft = d, !.previewed = digest])
          BY <4>1 DEF Preview
        <5>2. Same([author[a] EXCEPT !.st = "previewed", !.draft = d, !.previewed = digest])
          BY <4>0 DEF AuthorStates
        <5> QED BY <5>1, <5>2
      <4>2. CASE PublishReturns(a)
        <5> DEFINE k == <<a, author[a].reads>>
        <5>1. Update(a, [author[a] EXCEPT !.st = "published", !.ref = replay[k]])
          BY <4>2 DEF PublishReturns
        <5>2. Same([author[a] EXCEPT !.st = "published", !.ref = replay[k]])
          BY <4>0 DEF AuthorStates
        <5> QED BY <5>1, <5>2
      <4>3. CASE PublishRaises(a) BY <4>0, <4>3 DEF PublishRaises, AuthorStates
      <4>4. CASE Grant(a)
        <5>1. PICK ref \in Published : Update(a, [author[a] EXCEPT !.st = "granted", !.ref = ref])
          BY <4>4 DEF Grant
        <5>2. Same([author[a] EXCEPT !.st = "granted", !.ref = ref]) BY <4>0 DEF AuthorStates
        <5> QED BY <5>1, <5>2
      <4> QED BY <1>5, <4>1, <4>2, <4>3, <4>4
    <3> QED BY <1>0, <3>1 DEF Update
  <2> QED BY <1>1, <2>1, <2>2
<1>6. ASSUME NEW id \in PolicyIds, Archive(id) PROVE KeyInv'
  BY <1>1, <1>6 DEF Archive
<1>7. CASE UNCHANGED vars BY <1>1, <1>7 DEF vars
<1> QED BY <1>2, <1>3, <1>4, <1>5, <1>6, <1>7 DEF Next

\* What an author ends up with is the edition of what it saw evaluated.
LEMMA AuthorStep ==
  TypeOK /\ AnswerInv /\ AuthorInv /\ [Next]_vars => AuthorInv'
<1> SUFFICES ASSUME TypeOK, AnswerInv, AuthorInv, [Next]_vars PROVE AuthorInv' OBVIOUS
<1>0. /\ editions \in [PolicyIds -> Seq(Definitions)]
      /\ replay \in [Keys -> Refs \cup {None}] /\ author \in [Authors -> AuthorStates]
      /\ \A a \in Authors : author[a] \in AuthorStates /\ author[a].id \in PolicyIds
  BY DEF TypeOK, AuthorStates
<1> DEFINE Good(a, s) ==
             /\ s.previewed = s.draft
             /\ s.st \in {"published", "granted"} =>
                  /\ s.ref \in Refs
                  /\ s.ref.id = s.id
                  /\ s.ref.version <= Len(editions[s.id])
                  /\ editions[s.id][s.ref.version] = s.draft
<1>1. ASSUME NEW a \in Authors, NEW s, Update(a, s), Good(a, s), UNCHANGED editions
      PROVE  AuthorInv'
  BY <1>0, <1>1 DEF Update, AuthorInv
<1>2. ASSUME NEW a \in Authors, GetPolicy(a) PROVE AuthorInv'
  <2>1. /\ author'[a].previewed = author'[a].draft /\ author'[a].st = "based"
        /\ \A b \in Authors : b # a => author'[b] = author[b]
    BY <1>2, GetPolicyWrites
  <2> QED BY <1>2, <2>1 DEF GetPolicy, AuthorInv
<1>3. ASSUME NEW a \in Authors, NEW d \in Definitions, Preview(a, d) PROVE AuthorInv'
  <2>1. Update(a, [author[a] EXCEPT !.st = "previewed", !.draft = d, !.previewed = d])
    BY <1>3 DEF Preview, PreviewAccepted
  <2> DEFINE s == [author[a] EXCEPT !.st = "previewed", !.draft = d, !.previewed = d]
  <2>2. Good(a, s) BY <1>0 DEF AuthorStates
  <2> HIDE DEF s
  <2> QED BY <1>1, <1>3, <2>1, <2>2 DEF Preview, s
<1>4. ASSUME NEW a \in Authors, NEW p \in {"publishing", "previewed"},
             Update(a, [author[a] EXCEPT !.st = p]), UNCHANGED editions
      PROVE  AuthorInv'
  <2> DEFINE s == [author[a] EXCEPT !.st = p]
  <2>1. Good(a, s) BY <1>0 DEF AuthorStates, AuthorInv
  <2> HIDE DEF s
  <2> QED BY <1>1, <1>4, <2>1 DEF s
<1>5. ASSUME NEW a \in Authors, Publish(a) \/ PublishRaises(a) PROVE AuthorInv'
  BY <1>4, <1>5 DEF Publish, PublishRaises
<1>6. ASSUME NEW a \in Authors, PublishReturns(a) PROVE AuthorInv'
  <2> DEFINE k == <<a, author[a].reads>>
             s == [author[a] EXCEPT !.st = "published", !.ref = replay[k]]
  <2>1. k \in Keys BY <1>0 DEF AuthorStates, Keys
  <2>2. Update(a, s) /\ replay[k] # None /\ replay[k].id = author[a].id
        /\ replay[k].digest = author[a].draft
    BY <1>6 DEF PublishReturns, Matches
  <2>3. replay[k] \in Refs BY <1>0, <2>1, <2>2
  <2>4. replay[k].version <= Len(editions[author[a].id])
        /\ editions[author[a].id][replay[k].version] = author[a].draft
    BY <2>1, <2>2 DEF AnswerInv
  <2>5. s.previewed = author[a].previewed /\ s.draft = author[a].draft /\ s.ref = replay[k]
        /\ s.id = author[a].id
    BY <1>0 DEF AuthorStates
  <2>6. author[a].previewed = author[a].draft BY DEF AuthorInv
  <2> HIDE DEF s, k
  <2>7. Good(a, s) BY <2>2, <2>3, <2>4, <2>5, <2>6
  <2> QED BY <1>1, <1>6, <2>2, <2>7 DEF PublishReturns
<1>7. ASSUME NEW a \in Authors, Grant(a) PROVE AuthorInv'
  <2>1. PICK ref \in Published :
          /\ ref.id = author[a].ref.id /\ ref.version = author[a].ref.version
          /\ Update(a, [author[a] EXCEPT !.st = "granted", !.ref = ref])
    BY <1>7 DEF Grant, GrantMatches
  <2> DEFINE s == [author[a] EXCEPT !.st = "granted", !.ref = ref]
  <2>2. s.previewed = author[a].previewed /\ s.draft = author[a].draft /\ s.ref = ref
        /\ s.id = author[a].id
    BY <1>0 DEF AuthorStates
  <2>3. author[a].st = "published" BY <1>7 DEF Grant
  <2>4. ref \in Refs BY DEF Published
  <2> HIDE DEF s
  <2>5. Good(a, s) BY <2>1, <2>2, <2>3, <2>4 DEF AuthorInv
  <2> QED BY <1>1, <1>7, <2>1, <2>5 DEF Grant, s
<1>8. ASSUME NEW q \in requests, HandlePublish(q) PROVE AuthorInv'
  <2>1. author' = author BY <1>8 DEF HandlePublish
  <2>2. ASSUME NEW a \in Authors, author[a].st \in {"published", "granted"}
        PROVE  /\ author[a].ref.version <= Len(editions'[author[a].id])
               /\ editions'[author[a].id][author[a].ref.version] = author[a].draft
    <3>1. author[a].ref.version \in Versions /\ author[a].ref.version <= Len(editions[author[a].id])
          /\ editions[author[a].id][author[a].ref.version] = author[a].draft
      BY <2>2 DEF AuthorInv, Refs
    <3> QED BY <1>0, <1>8, <3>1, EditionsGrow
  <2> QED BY <2>1, <2>2 DEF AuthorInv
<1>9. CASE UNCHANGED <<editions, author>> BY <1>9 DEF AuthorInv
<1> QED BY <1>2, <1>3, <1>5, <1>6, <1>7, <1>8, <1>9 DEF Next, Archive, vars

\* An answer is believed only under the key of the read it is based on.
LEMMA NoLostUpdateStep ==
  TypeOK /\ KeyInv /\ AuthorInv /\ NoLostUpdate /\ [Next]_vars => NoLostUpdate'
<1> SUFFICES ASSUME TypeOK, KeyInv, AuthorInv, NoLostUpdate, [Next]_vars PROVE NoLostUpdate' OBVIOUS
<1>0. author \in [Authors -> AuthorStates] BY DEF TypeOK
<1>1. ASSUME NEW a \in Authors, GetPolicy(a) PROVE NoLostUpdate'
  <2>1. author'[a].st = "based" /\ \A b \in Authors : b # a => author'[b] = author[b]
    BY <1>1, GetPolicyWrites
  <2> QED BY <2>1 DEF NoLostUpdate
<1>2. ASSUME NEW a \in Authors,
             (\E d \in Definitions : Preview(a, d)) \/ Publish(a) \/ PublishRaises(a)
      PROVE  NoLostUpdate'
  <2>1. author'[a].st \in {"previewed", "publishing"}
        /\ \A b \in Authors : b # a => author'[b] = author[b]
    BY <1>0, <1>2 DEF Preview, Publish, PublishRaises, Update, AuthorStates
  <2> QED BY <2>1 DEF NoLostUpdate
<1>3. ASSUME NEW a \in Authors, PublishReturns(a) PROVE NoLostUpdate'
  <2>1. /\ author'[a].ref = replay[<<a, author[a].reads>>]
        /\ author'[a].base = author[a].base /\ replay[<<a, author[a].reads>>] # None
        /\ \A b \in Authors : b # a => author'[b] = author[b]
    BY <1>0, <1>3 DEF PublishReturns, Update, AuthorStates
  <2> QED BY <2>1 DEF NoLostUpdate, KeyInv
<1>4. ASSUME NEW a \in Authors, Grant(a) PROVE NoLostUpdate'
  <2>1. /\ author'[a].ref.version = author[a].ref.version /\ author'[a].base = author[a].base
        /\ author[a].st = "published"
        /\ \A b \in Authors : b # a => author'[b] = author[b]
    BY <1>0, <1>4 DEF Grant, GrantMatches, Update, AuthorStates
  <2> QED BY <2>1 DEF NoLostUpdate
<1>5. CASE UNCHANGED author BY <1>5 DEF NoLostUpdate
<1> QED BY <1>1, <1>2, <1>3, <1>4, <1>5 DEF Next, HandlePublish, Archive, vars

\* The invariant holds throughout, for any number of authors, policies,
\* definitions and editions.
THEOREM PolicyInvariant == Spec => []PolicyInv
<1>1. Init => PolicyInv
  <2> SUFFICES ASSUME Init PROVE PolicyInv OBVIOUS
  <2>1. editions \in [PolicyIds -> Seq(Definitions)]
        /\ \A id \in PolicyIds : Len(editions[id]) <= MaxVersion
    <3>1. \A id \in PolicyIds : editions[id] = <<>> \/ \E d \in Definitions : editions[id] = <<d>>
      BY DEF Init
    <3>2. \A id \in PolicyIds : editions[id] \in Seq(Definitions) /\ Len(editions[id]) <= 1
      <4> SUFFICES ASSUME NEW id \in PolicyIds
                   PROVE  editions[id] \in Seq(Definitions) /\ Len(editions[id]) <= 1
        OBVIOUS
      <4>1. CASE editions[id] = <<>> BY <4>1
      <4>2. CASE \E d \in Definitions : editions[id] = <<d>> BY <4>2
      <4> QED BY <3>1, <4>1, <4>2
    <3>3. editions \in [PolicyIds -> {<<>>} \cup {<<d>> : d \in Definitions}] BY DEF Init
    <3>4. \A id \in PolicyIds : Len(editions[id]) <= MaxVersion
      <4> SUFFICES ASSUME NEW id \in PolicyIds PROVE Len(editions[id]) <= MaxVersion OBVIOUS
      <4>1. Len(editions[id]) \in Nat /\ Len(editions[id]) <= 1 BY <3>2
      <4> HIDE DEF Init
      <4> QED BY <4>1, PolicyAssumption
    <3> QED BY <3>2, <3>3, <3>4
  <2>2. author \in [Authors -> AuthorStates] BY PolicyAssumption DEF Init, AuthorStates, Steps
  <2>3. TypeOK BY <2>1, <2>2 DEF Init, TypeOK
  <2>4. AnswerInv /\ KeyInv
    <3>1. \A k \in Keys : replay[k] = None BY DEF Init
    <3>2. \A a \in Authors : author[a].reads = 0 BY DEF Init
    <3>3. \A a \in Authors : \A n \in 0..MaxReads : <<a, n>> \in Keys BY DEF Keys
    <3> QED BY <3>1, <3>2, <3>3, PolicyAssumption DEF Init, AnswerInv, KeyInv
  <2>5. AuthorInv /\ NoLostUpdate BY DEF Init, AuthorInv, NoLostUpdate
  <2> QED BY <2>3, <2>4, <2>5 DEF PolicyInv
<1>2. PolicyInv /\ [Next]_vars => PolicyInv'
  BY TypeStep, AnswerStep, KeyStep, AuthorStep, NoLostUpdateStep DEF PolicyInv
<1> QED BY <1>1, <1>2, PTL DEF Spec

\* What publish returns is the edition of what was submitted.
THEOREM PublishSafety == Spec => []PublishedAsSubmitted
<1>1. PolicyInv => PublishedAsSubmitted BY DEF PolicyInv, AuthorInv, PublishedAsSubmitted
<1> QED BY PolicyInvariant, <1>1, PTL

\* What is granted is what the author saw evaluated.
THEOREM GrantSafety == Spec => []GrantedAsPreviewed
<1>1. PolicyInv => GrantedAsPreviewed BY DEF PolicyInv, AuthorInv, GrantedAsPreviewed
<1> QED BY PolicyInvariant, <1>1, PTL

\* An author with a base overwrites no edition unseen.
THEOREM UpdateSafety == Spec => []NoLostUpdate
<1>1. PolicyInv => NoLostUpdate BY DEF PolicyInv
<1> QED BY PolicyInvariant, <1>1, PTL
=============================================================================
