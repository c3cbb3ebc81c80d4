---------------------------- MODULE PolicyEdition ----------------------------
(***************************************************************************)
(* policies.py and authorizations.create: authors who read a policy,       *)
(* preview a definition, publish it over the edition they read and grant   *)
(* from the edition they got, at the same time and with retries, while     *)
(* requests are handled late and answers are lost or belong elsewhere.     *)
(*                                                                         *)
(* The API is external: editions are immutable and numbered from 1, a      *)
(* request under a key already used gets the first answer again, and a     *)
(* previous_policy_ref that is no longer the latest edition is refused.    *)
(* Every answer is true of some edition, not always of the one asked for.  *)
(* A definition stands for its canonical bytes and its digest alike.       *)
(***************************************************************************)
EXTENDS Naturals, Sequences, FiniteSets

CONSTANTS
  Authors, PolicyIds, Definitions,
  MaxVersion,   \* editions of a policy
  MaxReads,     \* how often an author starts over from a fresh read
  None

ASSUME PolicyAssumption == MaxVersion \in Nat \ {0} /\ MaxReads \in Nat

VARIABLES
  editions,   \* the definitions of each policy, by version
  archived,   \* policies archived
  replay,     \* answers by idempotency key
  requests,   \* publish requests on the wire
  author      \* what each author knows and does

vars == <<editions, archived, replay, requests, author>>

Versions == 1..MaxVersion
\* A policy reference: policy_id, policy_version, definition_sha256.
Refs     == [id : PolicyIds, version : Versions, digest : Definitions]
\* An author uses one key from one read of the policy to the next.
Keys     == Authors \X (0..MaxReads)
PublishRequests == [id : PolicyIds, definition : Definitions,
                    previous : Refs \cup {None}, key : Keys]
Steps    == {"idle", "based", "previewed", "publishing", "published", "granted"}
AuthorStates ==
  [st : Steps, id : PolicyIds, reads : 0..MaxReads, base : Refs \cup {None},
   draft : Definitions \cup {None},      \* what will be submitted
   previewed : Definitions \cup {None},  \* what the evaluation seen was made for
   ref : Refs \cup {None}]

\* References to the editions there are.
Ref(id, v) == [id |-> id, version |-> v, digest |-> editions[id][v]]
Published  == {r \in Refs : r.version <= Len(editions[r.id]) /\ r = Ref(r.id, r.version)}
Latest(id) == IF editions[id] = <<>> THEN None ELSE Ref(id, Len(editions[id]))

Init ==
  /\ editions \in [PolicyIds -> {<<>>} \cup {<<d>> : d \in Definitions}]
  /\ archived = {}
  /\ replay = [k \in Keys |-> None]
  /\ requests = {}
  /\ author \in [Authors ->
       [st : {"idle"}, id : PolicyIds, reads : {0}, base : {None}, draft : {None},
        previewed : {None}, ref : {None}]]

Update(a, new) == author' = [author EXCEPT ![a] = new]

-----------------------------------------------------------------------------
(* get, preview                                                            *)

\* get(policy_id): refused unless it is the policy asked for.
GetPolicy(a) ==
  /\ author[a].st # "publishing"
  /\ author[a].reads < MaxReads
  /\ \E base \in (Published \cup {None}) :
       /\ base = None => editions[author[a].id] = <<>>
       /\ base # None => base.id = author[a].id
       /\ Update(a, [author[a] EXCEPT !.st = "based", !.reads = @ + 1, !.base = base,
                                      !.draft = None, !.previewed = None, !.ref = None])
  /\ UNCHANGED <<editions, archived, replay, requests>>

\* Mutant: the evaluation is taken for that of the submitted definition.
PreviewAcceptedAny(draft, digest) == draft \in Definitions /\ digest \in Definitions

\* The answer names the digest of the definition submitted.
PreviewAccepted(draft, digest) == digest = draft

\* preview(definition): the evaluation answered may be another one's.
Preview(a, draft) ==
  /\ author[a].st \in {"based", "previewed"}
  /\ \E digest \in Definitions :
       /\ PreviewAccepted(draft, digest)
       /\ Update(a, [author[a] EXCEPT !.st = "previewed", !.draft = draft, !.previewed = digest])
  /\ UNCHANGED <<editions, archived, replay, requests>>

-----------------------------------------------------------------------------
(* create, publish                                                         *)

\* Mutant: the body leaves out the edition it was based on.
BodyUnbased(s) == [id |-> s.id, definition |-> s.draft, previous |-> None]

\* _body
Body(s) == [id |-> s.id, definition |-> s.draft, previous |-> s.base]

\* validate_policy_definition, before anything is sent.
ValidDefinition(d) == d \in Definitions

Publish(a) ==
  /\ author[a].st \in {"based", "previewed"}
  /\ ValidDefinition(author[a].draft)
  /\ LET b == Body(author[a]) IN
     requests' = requests \cup {[id |-> b.id, definition |-> b.definition, previous |-> b.previous,
                                 key |-> <<a, author[a].reads>>]}
  /\ Update(a, [author[a] EXCEPT !.st = "publishing"])
  /\ UNCHANGED <<editions, archived, replay>>

\* A key seen before changes nothing; a request over an old edition is refused.
HandlePublish(q) ==
  /\ q \in requests
  /\ requests' = requests \ {q}
  /\ IF /\ replay[q.key] = None
        /\ q.id \notin archived
        /\ q.previous \in {None, Latest(q.id)}
        /\ Len(editions[q.id]) < MaxVersion
       THEN /\ editions' = [editions EXCEPT ![q.id] = Append(@, q.definition)]
            /\ replay' = [replay EXCEPT ![q.key] =
                 [id |-> q.id, version |-> Len(editions[q.id]) + 1, digest |-> q.definition]]
       ELSE UNCHANGED <<editions, replay>>
  /\ UNCHANGED <<archived, author>>

\* Mutant: the digest of the answer is not compared.
MatchesIdOnly(s, ref) == ref.id = s.id

\* The answer is about this policy and the submitted definition.
Matches(s, ref) == ref.id = s.id /\ ref.digest = s.draft

\* The answer is the one for the key, of this try or of an earlier one.
PublishReturns(a) ==
  /\ author[a].st = "publishing"
  /\ LET ref == replay[<<a, author[a].reads>>] IN
     /\ ref # None
     /\ Matches(author[a], ref)
     /\ Update(a, [author[a] EXCEPT !.st = "published", !.ref = ref])
  /\ UNCHANGED <<editions, archived, replay, requests>>

\* A time-out, an error status, an answer that does not match: the author may
\* try again, with the same key, the definition as it is or edited.
PublishRaises(a) ==
  /\ author[a].st = "publishing"
  /\ Update(a, [author[a] EXCEPT !.st = "previewed"])
  /\ UNCHANGED <<editions, archived, replay, requests>>

-----------------------------------------------------------------------------
(* archive, authorizations.create                                          *)

Archive(id) ==
  /\ id \notin archived
  /\ editions[id] # <<>>
  /\ archived' = archived \cup {id}
  /\ UNCHANGED <<editions, replay, requests, author>>

\* Mutant: the version of the granted edition is not compared.
GrantMatchesAnyVersion(asked, ref) == ref.id = asked.id

\* "one exact immutable policy edition": policy and version are compared.
GrantMatches(asked, ref) == ref.id = asked.id /\ ref.version = asked.version

\* authorizations.create(policy_id, policy_version)
Grant(a) ==
  /\ author[a].st = "published"
  /\ \E ref \in Published :
       /\ GrantMatches(author[a].ref, ref)
       /\ Update(a, [author[a] EXCEPT !.st = "granted", !.ref = ref])
  /\ UNCHANGED <<editions, archived, replay, requests>>

Next ==
  \/ \E a \in Authors :
       \/ GetPolicy(a)
       \/ \E d \in Definitions : Preview(a, d)
       \/ Publish(a) \/ PublishReturns(a) \/ PublishRaises(a)
       \/ Grant(a)
  \/ \E q \in requests : HandlePublish(q)
  \/ \E id \in PolicyIds : Archive(id)

Spec == Init /\ [][Next]_vars

-----------------------------------------------------------------------------
\* Every variable keeps its type.
TypeOK ==
  /\ editions \in [PolicyIds -> Seq(Definitions)]
  /\ \A id \in PolicyIds : Len(editions[id]) <= MaxVersion
  /\ archived \subseteq PolicyIds
  /\ replay \in [Keys -> Refs \cup {None}]
  /\ requests \subseteq PublishRequests
  /\ author \in [Authors -> AuthorStates]

\* An author whose publish returned holds a reference to what it submitted:
\* also when the definition was edited between two tries with one key, and
\* whoever else published in between.
PublishedAsSubmitted ==
  \A a \in Authors : author[a].st = "published" =>
    LET s == author[a] IN
    s.ref.version <= Len(editions[s.id]) /\ editions[s.id][s.ref.version] = s.draft

\* What is granted in the end is what the author saw evaluated: the edition
\* the grant names holds the very definition of the preview, through retries,
\* other authors' editions and answers that belong elsewhere.
GrantedAsPreviewed ==
  \A a \in Authors : author[a].st = "granted" =>
    LET s == author[a] IN editions[s.ref.id][s.ref.version] = s.previewed

\* previous_policy_ref: the edition of an author who names a base directly follows
\* it, so that such an author overwrites nobody's edition unseen.  (Without a base
\* publish claims nothing about what it follows.)
NoLostUpdate ==
  \A a \in Authors : author[a].st \in {"published", "granted"} /\ author[a].base # None =>
    author[a].ref.version = author[a].base.version + 1
=============================================================================
