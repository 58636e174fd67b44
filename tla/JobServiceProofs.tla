------------------------- MODULE JobServiceProofs --------------------------
(***************************************************************************)
(* Proofs about JobService for any sets of requests, keys and run ids.     *)
(* Neither property is inductive by itself.                                *)
(*  - DeleteAnswerTruthful: a later submit_run could create a run with the *)
(*    deleted run_id again; DeletedIdsRetired says that run_ids below      *)
(*    nextId are never handed out again, and a deleted run's id is below.  *)
(*  - SubmittedRunHasSecrets: a submit needs what the request has stored *)
(*    so far in its put_secret loop (SecretsSoFar); and a put by another   *)
(*    request must not overwrite it, which holds when run names are        *)
(*    distinct, as create_job's docstring asks ("each run_name should be   *)
(*    unique").                                                            *)
(***************************************************************************)
EXTENDS JobService, TLAPS

(* Every run_id a 200-answered DELETE removed is retired.                 *)
DeletedIdsRetired ==
  \A r \in DeleteReqs :
    resp[r] = "Deleted" => TargetOf[r] < nextId /\ TargetOf[r] \notin DOMAIN dbRuns

DInv == TypeOK /\ DeletedIdsRetired

(* Distinct POSTs carry distinct run names.                               *)
DistinctRunNames ==
  \A r1, r2 \in PostReqs : RunNameOf[r1] = RunNameOf[r2] => r1 = r2

(* Request r's write of key k is in the secret store.                   *)
StoredBy(r, k) ==
  /\ <<RunNameOf[r], k>> \in DOMAIN secretStore
  /\ secretStore[<<RunNameOf[r], k>>] = r

(* In a request's put_secret loop the keys still to visit are keys of its *)
(* notebook_spec_secrets, and every key already visited that has a value   *)
(* is stored by it.                                                         *)
(* Every non-None secret of request r is stored by it.                  *)
RunStored(r) == \A k \in SecretKeys(r) : StoredBy(r, k)

(* Request r has a run on Databricks.                                     *)
Submitted(r) == \E i \in DOMAIN dbRuns : dbRuns[i].req = r

SoFar(r) ==
  /\ pc[r] \in {"listScopes", "createScope"}
       => todo[r] = DOMAIN payload[r].secrets
  /\ pc[r] = "secrets" =>
       /\ todo[r] \subseteq DOMAIN payload[r].secrets
       /\ \A k \in SecretKeys(r) \ todo[r] : StoredBy(r, k)

SecretsSoFar == \A r \in PostReqs : SoFar(r)

SInv == TypeOK /\ SecretsSoFar /\ SubmittedRunHasSecrets

-----------------------------------------------------------------------------
(* The keys of a payload's notebook_spec_secrets are among Keys.          *)
LEMMA PayloadKeys ==
  ASSUME NEW p \in Payloads, p # None
  PROVE  DOMAIN p.secrets \subseteq Keys
<1>1. p.secrets \in SecretSpecs
  BY DEF Payloads
<1>2. PICK D \in SUBSET Keys : p.secrets \in [D -> {"Value", None}]
  BY <1>1 DEF SecretSpecs
<1>3. QED
  BY <1>2

PCs == {"start", "listScopes", "createScope", "secrets", "cancel", "delete", "done"}
Answers == PostAnswers \cup DeleteAnswers \cup {"Pending"}

(* Every step keeps the types.                                            *)
LEMMA TypeStep == TypeOK /\ [Next]_vars => TypeOK'
<1> SUFFICES ASSUME TypeOK, [Next]_vars PROVE TypeOK'
  OBVIOUS
<1> USE JobServiceAssumption DEF TypeOK
<1>1. ASSUME NEW r \in PostReqs, PostStart(r) PROVE TypeOK'
  <2>1. payload[r] # None => DOMAIN payload[r].secrets \subseteq Keys
    BY PayloadKeys
  <2>2. todo' \in [PostReqs -> SUBSET Keys]
    BY <1>1, <2>1 DEF PostStart
  <2>3. pc' \in [Reqs -> PCs] /\ resp' \in [Reqs -> Answers]
    BY <1>1 DEF PostStart, PCs, Answers, PostAnswers, Reqs
  <2>4. QED
    BY <1>1, <2>2, <2>3 DEF PostStart, PCs, Answers
<1>2. ASSUME NEW r \in PostReqs, ListScopes(r) PROVE TypeOK'
  BY <1>2 DEF ListScopes, GoTo, AfterList, Reqs
<1>3. ASSUME NEW r \in PostReqs, CreateScope(r) PROVE TypeOK'
  BY <1>3 DEF CreateScope, GoTo, Reqs, RunNames, Name
<1>4. ASSUME NEW r \in PostReqs, PutSecret(r) PROVE TypeOK'
  <2>1. PICK k \in todo[r] :
          /\ todo' = [todo EXCEPT ![r] = @ \ {k}]
          /\ IF k \notin SecretKeys(r)
               THEN UNCHANGED <<pc, resp, secretStore>>
               ELSE \E out \in PutOutcomes(r) :
                      /\ secretStore' =
                           IF Acted(out)
                             THEN [s \in DOMAIN secretStore \cup {<<Name(r), k>>} |->
                                     IF s = <<Name(r), k>> THEN r
                                     ELSE secretStore[s]]
                             ELSE secretStore
                      /\ GoTo(r, AfterPut(out))
                      /\ Answer(r, IF out = "Ok" THEN resp[r] ELSE "NoResult")
    BY <1>4 DEF PutSecret
  <2>2. <<Name(r), k>> \in RunNames \X Keys
    BY <2>1 DEF Name, RunNames
  <2>3. CASE k \notin SecretKeys(r)
    BY <1>4, <2>1, <2>3 DEF PutSecret
  <2>4. CASE k \in SecretKeys(r)
    <3>1. PICK out \in PutOutcomes(r) :
            /\ secretStore' =
                 IF Acted(out)
                   THEN [s \in DOMAIN secretStore \cup {<<Name(r), k>>} |->
                           IF s = <<Name(r), k>> THEN r ELSE secretStore[s]]
                   ELSE secretStore
            /\ GoTo(r, AfterPut(out))
            /\ Answer(r, IF out = "Ok" THEN resp[r] ELSE "NoResult")
      BY <2>1, <2>4
    <3>2. DOMAIN secretStore' \subseteq RunNames \X Keys
          /\ \A s \in DOMAIN secretStore' : secretStore'[s] \in PostReqs
      BY <3>1, <2>2
    <3>3. pc' \in [Reqs -> PCs] /\ resp' \in [Reqs -> Answers]
      BY <3>1 DEF GoTo, Answer, AfterPut, PCs, Answers, PostAnswers, Reqs
    <3>4. QED
      BY <1>4, <2>1, <3>2, <3>3 DEF PutSecret, PCs, Answers
  <2>5. QED
    BY <2>3, <2>4
<1>5. ASSUME NEW r \in PostReqs, SubmitRun(r) PROVE TypeOK'
  <2>1. PICK out \in Outcomes :
          /\ IF Acted(out)
               THEN /\ dbRuns' = [i \in DOMAIN dbRuns \cup {nextId} |->
                                    IF i = nextId
                                      THEN [name |-> Name(r), state |-> "Active", req |-> r]
                                      ELSE dbRuns[i]]
                    /\ nextId' = nextId + 1
               ELSE UNCHANGED <<dbRuns, nextId>>
          /\ Answer(r, IF out = "Ok" THEN "Submitted" ELSE "NoResult")
    BY <1>5 DEF SubmitRun
  <2>2. [name |-> Name(r), state |-> "Active", req |-> r]
          \in [name : RunNames, state : RunStates, req : PostReqs]
    BY DEF Name, RunNames, RunStates
  <2>3. /\ nextId' \in Nat \ {0}
        /\ DOMAIN dbRuns' \subseteq 1..(nextId' - 1)
        /\ \A i \in DOMAIN dbRuns' :
             dbRuns'[i] \in [name : RunNames, state : RunStates, req : PostReqs]
    BY <2>1, <2>2
  <2>4. resp' \in [Reqs -> Answers]
    BY <2>1 DEF Answer, Answers, PostAnswers, Reqs
  <2>5. QED
    BY <1>5, <2>3, <2>4 DEF SubmitRun, GoTo, PCs, Answers, Reqs
<1>6. ASSUME NEW r \in DeleteReqs, CancelRun(r) PROVE TypeOK'
  BY <1>6 DEF CancelRun, GoTo, Answer, Reqs, Answers, DeleteAnswers, RunStates
<1>7. ASSUME NEW r \in DeleteReqs, DeleteRun(r) PROVE TypeOK'
  BY <1>7 DEF DeleteRun, GoTo, Answer, Reqs, Answers, DeleteAnswers, DeleteAnswer
<1>8. ASSUME NEW i \in DOMAIN dbRuns, RunEnds(i) PROVE TypeOK'
  BY <1>8 DEF RunEnds, RunStates
<1>9. CASE UNCHANGED vars
  BY <1>9 DEF vars
<1>10. QED
  BY <1>1, <1>2, <1>3, <1>4, <1>5, <1>6, <1>7, <1>8, <1>9 DEF Next

(* The initial state satisfies both strengthenings.                      *)
LEMMA InitDInv == Init => DInv
BY JobServiceAssumption
   DEF Init, DInv, TypeOK, DeletedIdsRetired, Reqs, PostAnswers, DeleteAnswers

(* Every step keeps DInv.  Only a DELETE that deletes makes an answer     *)
(* Deleted, and it removes its target; a submit takes the id nextId,       *)
(* which no answered DELETE targets.                                       *)
LEMMA DInvStep == DInv /\ [Next]_vars => DInv'
<1> SUFFICES ASSUME DInv, [Next]_vars PROVE DInv'
  OBVIOUS
<1> USE JobServiceAssumption
<1>0. TypeOK'
  BY TypeStep DEF DInv
<1> DEFINE Retired(r) == TargetOf[r] < nextId' /\ TargetOf[r] \notin DOMAIN dbRuns'
<1>1. ASSUME NEW r \in PostReqs,
             PostStart(r) \/ ListScopes(r) \/ CreateScope(r) \/ PutSecret(r)
      PROVE  DeletedIdsRetired'
  <2>1. UNCHANGED <<dbRuns, nextId>>
    BY <1>1 DEF PostStart, ListScopes, CreateScope, PutSecret
  <2>2. \A d \in DeleteReqs : resp'[d] = resp[d]
    <3>1. CASE PostStart(r)
      BY <3>1 DEF PostStart, DInv, TypeOK, Reqs
    <3>2. CASE ListScopes(r) \/ CreateScope(r)
      BY <3>2 DEF ListScopes, CreateScope
    <3>3. CASE PutSecret(r)
      <4>1. PICK k \in todo[r] :
              IF k \notin SecretKeys(r) THEN UNCHANGED resp
              ELSE \E out \in PutOutcomes(r) :
                     Answer(r, IF out = "Ok" THEN resp[r] ELSE "NoResult")
        BY <3>3 DEF PutSecret
      <4>2. QED
        BY <4>1 DEF Answer, DInv, TypeOK, Reqs
    <3>4. QED
      BY <1>1, <3>1, <3>2, <3>3
  <2>3. QED
    BY <2>1, <2>2 DEF DInv, DeletedIdsRetired
<1>2. ASSUME NEW r \in PostReqs, SubmitRun(r) PROVE DeletedIdsRetired'
  <2>1. \A d \in DeleteReqs : resp'[d] = resp[d]
    BY <1>2 DEF SubmitRun, Answer, DInv, TypeOK, Reqs
  <2>2. /\ nextId <= nextId'
        /\ DOMAIN dbRuns' \subseteq DOMAIN dbRuns \cup {nextId}
    BY <1>2 DEF SubmitRun, DInv, TypeOK
  <2>3. ASSUME NEW d \in DeleteReqs, resp'[d] = "Deleted" PROVE Retired(d)
    <3>1. TargetOf[d] < nextId /\ TargetOf[d] \notin DOMAIN dbRuns
      BY <2>1, <2>3 DEF DInv, DeletedIdsRetired
    <3>2. QED
      BY <1>0, <2>2, <3>1 DEF DInv, TypeOK
  <2>4. QED
    BY <2>3 DEF DeletedIdsRetired
<1>3. ASSUME NEW r \in DeleteReqs, CancelRun(r) PROVE DeletedIdsRetired'
  <2>1. \A d \in DeleteReqs : resp'[d] = "Deleted" => resp[d] = "Deleted"
    BY <1>3 DEF CancelRun, Answer, GoTo, DInv, TypeOK, Reqs
  <2>2. nextId' = nextId /\ DOMAIN dbRuns' = DOMAIN dbRuns
    BY <1>3 DEF CancelRun, CancelOutcomes, Acted
  <2>3. QED
    BY <2>1, <2>2 DEF DInv, DeletedIdsRetired
<1>4. ASSUME NEW r \in DeleteReqs, DeleteRun(r) PROVE DeletedIdsRetired'
  <2>1. PICK out \in DeleteOutcomes(TargetOf[r]) :
          /\ dbRuns' = IF Acted(out)
                         THEN [j \in DOMAIN dbRuns \ {TargetOf[r]} |-> dbRuns[j]]
                         ELSE dbRuns
          /\ Answer(r, DeleteAnswer(out))
    BY <1>4 DEF DeleteRun
  <2>2. DOMAIN dbRuns' \subseteq DOMAIN dbRuns /\ nextId' = nextId
    BY <1>4, <2>1 DEF DeleteRun
  <2>3. ASSUME NEW d \in DeleteReqs, resp'[d] = "Deleted" PROVE Retired(d)
    <3>1. CASE d = r
      <4>1. out = "Ok"
        BY <2>1, <2>3, <3>1 DEF Answer, DeleteAnswer, DInv, TypeOK, Reqs
      <4>2. TargetOf[r] \in DOMAIN dbRuns
        BY <2>1, <4>1 DEF DeleteOutcomes, Outcomes
      <4>3. QED
        BY <2>1, <2>2, <3>1, <4>1, <4>2 DEF Acted, DInv, TypeOK
    <3>2. CASE d # r
      BY <2>1, <2>2, <2>3, <3>2 DEF Answer, DInv, TypeOK, Reqs, DeletedIdsRetired
    <3>3. QED
      BY <3>1, <3>2
  <2>4. QED
    BY <2>3 DEF DeletedIdsRetired
<1>5. ASSUME NEW i \in DOMAIN dbRuns, RunEnds(i) PROVE DeletedIdsRetired'
  BY <1>5 DEF RunEnds, DInv, DeletedIdsRetired
<1>6. CASE UNCHANGED vars
  BY <1>0, <1>6 DEF vars, DInv, DeletedIdsRetired
<1>7. QED
  BY <1>0, <1>1, <1>2, <1>3, <1>4, <1>5, <1>6 DEF Next, DInv

-----------------------------------------------------------------------------
(* With distinct run names no step removes or overwrites a secret a       *)
(* request has stored: secrets are only ever added, and a put by request   *)
(* r writes into r's own scope.                                            *)
LEMMA StoreKept ==
  ASSUME DistinctRunNames, TypeOK, [Next]_vars,
         NEW q \in PostReqs, NEW k, StoredBy(q, k)
  PROVE  StoredBy(q, k)'
<1> USE DEF TypeOK
<1>1. CASE \E r \in PostReqs : PutSecret(r)
  <2>1. PICK r \in PostReqs : PutSecret(r)
    BY <1>1
  <2>2. PICK j \in todo[r] :
          \/ UNCHANGED secretStore
          \/ secretStore' =
               [s \in DOMAIN secretStore \cup {<<Name(r), j>>} |->
                  IF s = <<Name(r), j>> THEN r ELSE secretStore[s]]
    BY <2>1 DEF PutSecret
  <2>3. <<RunNameOf[q], k>> = <<Name(r), j>> => q = r
    BY DEF DistinctRunNames, Name
  <2>4. QED
    BY <2>2, <2>3 DEF StoredBy
<1>2. CASE ~\E r \in PostReqs : PutSecret(r)
  <2>1. UNCHANGED secretStore
    BY <1>2 DEF Next, vars, PostStart, ListScopes, CreateScope, SubmitRun,
                CancelRun, DeleteRun, RunEnds
  <2>2. QED
    BY <2>1 DEF StoredBy
<1>3. QED
  BY <1>1, <1>2

(* The initial state satisfies SInv.                                      *)
LEMMA InitSInv == Init => SInv
BY JobServiceAssumption
   DEF Init, SInv, TypeOK, SecretsSoFar, SoFar, SubmittedRunHasSecrets, Reqs

(* No step changes a payload, hence the secrets a request has to store.  *)
LEMMA PayloadConstant == [Next]_vars => payload' = payload
BY DEF Next, vars, PostStart, ListScopes, CreateScope, PutSecret, SubmitRun,
       CancelRun, DeleteRun, RunEnds

(* Runs on Databricks keep the request that submitted them, and only a    *)
(* submit adds one.                                                        *)
LEMMA RunsKept ==
  ASSUME TypeOK, [Next]_vars, ~\E r \in PostReqs : SubmitRun(r)
  PROVE  /\ DOMAIN dbRuns' \subseteq DOMAIN dbRuns
         /\ \A i \in DOMAIN dbRuns' : dbRuns'[i].req = dbRuns[i].req
<1> USE DEF TypeOK
<1>1. CASE \E r \in DeleteReqs : CancelRun(r)
  <2>1. PICK r \in DeleteReqs : CancelRun(r)
    BY <1>1
  <2>2. PICK out \in CancelOutcomes(TargetOf[r]) :
          dbRuns' = IF Acted(out) /\ dbRuns[TargetOf[r]].state = "Active"
                      THEN [dbRuns EXCEPT ![TargetOf[r]].state = "Cancelling"]
                      ELSE dbRuns
    BY <2>1 DEF CancelRun
  <2>3. QED
    BY <2>2
<1>2. CASE \E r \in DeleteReqs : DeleteRun(r)
  BY <1>2 DEF DeleteRun
<1>3. CASE \E i \in DOMAIN dbRuns : RunEnds(i)
  BY <1>3 DEF RunEnds
<1>4. CASE \E r \in PostReqs :
             PostStart(r) \/ ListScopes(r) \/ CreateScope(r) \/ PutSecret(r)
  BY <1>4 DEF PostStart, ListScopes, CreateScope, PutSecret
<1>5. CASE UNCHANGED vars
  BY <1>5 DEF vars
<1>6. QED
  BY <1>1, <1>2, <1>3, <1>4, <1>5 DEF Next

(* A POST's control point and the keys it has still to visit change only *)
(* by its own steps.                                                        *)
LEMMA OwnSteps ==
  ASSUME JobServiceAssumption, TypeOK, [Next]_vars, NEW q \in PostReqs,
         ~(PostStart(q) \/ ListScopes(q) \/ CreateScope(q) \/ PutSecret(q)
           \/ SubmitRun(q))
  PROVE  pc'[q] = pc[q] /\ todo'[q] = todo[q]
<1> USE DEF TypeOK
<1>1. CASE \E r \in PostReqs \ {q} :
             PostStart(r) \/ ListScopes(r) \/ CreateScope(r) \/ PutSecret(r)
             \/ SubmitRun(r)
  <2>1. PICK r \in PostReqs \ {q} :
          PostStart(r) \/ ListScopes(r) \/ CreateScope(r) \/ PutSecret(r)
          \/ SubmitRun(r)
    BY <1>1
  <2>2. \E l : pc' = pc \/ pc' = [pc EXCEPT ![r] = l]
    <3>1. CASE PutSecret(r)
      <4>1. PICK j \in todo[r] :
              IF j \notin SecretKeys(r) THEN UNCHANGED pc
              ELSE \E out \in PutOutcomes(r) : GoTo(r, AfterPut(out))
        BY <3>1 DEF PutSecret
      <4>2. QED
        BY <4>1 DEF GoTo
    <3>2. QED
      BY <2>1, <3>1 DEF PostStart, ListScopes, CreateScope, SubmitRun, GoTo
  <2>3. \E t : todo' = todo \/ todo' = [todo EXCEPT ![r] = t]
    BY <2>1 DEF PostStart, ListScopes, CreateScope, PutSecret, SubmitRun
  <2>4. QED
    BY <2>2, <2>3 DEF Reqs
<1>2. CASE \E r \in DeleteReqs : CancelRun(r) \/ DeleteRun(r)
  <2>1. q \notin DeleteReqs
    OBVIOUS
  <2>2. QED
    BY <1>2, <2>1 DEF CancelRun, DeleteRun, GoTo, Reqs
<1>3. CASE \E i \in DOMAIN dbRuns : RunEnds(i)
  BY <1>3 DEF RunEnds
<1>4. CASE UNCHANGED vars
  BY <1>4 DEF vars
<1>5. QED
  BY <1>1, <1>2, <1>3, <1>4 DEF Next

(* With distinct run names every step keeps SInv.                       *)
LEMMA SInvStep == DistinctRunNames /\ SInv /\ [Next]_vars => SInv'
<1> SUFFICES ASSUME DistinctRunNames, SInv, [Next]_vars PROVE SInv'
  OBVIOUS
<1> USE JobServiceAssumption
<1>0. TypeOK'
  BY TypeStep DEF SInv
<1>1. \A q \in PostReqs : \A k : StoredBy(q, k) => StoredBy(q, k)'
  BY StoreKept DEF SInv
<1>2. payload' = payload
  BY PayloadConstant
<1>3. \A q \in PostReqs : SecretKeys(q)' = SecretKeys(q)
  BY <1>2 DEF SecretKeys
<1>4. \A q \in PostReqs : RunStored(q) => RunStored(q)'
  BY <1>1, <1>3 DEF RunStored
<1>5. SubmittedRunHasSecrets'
  <2>1. SUFFICES ASSUME NEW q \in PostReqs, Submitted(q)' PROVE RunStored(q)'
    BY <1>0 DEF SubmittedRunHasSecrets, Submitted, RunStored, StoredBy, TypeOK
  <2>2. CASE Submitted(q)
    BY <1>4, <2>2 DEF SInv, SubmittedRunHasSecrets, Submitted, RunStored, StoredBy
  <2>3. CASE ~Submitted(q)
    <3>1. PICK r \in PostReqs : SubmitRun(r)
      BY <2>1, <2>3, RunsKept DEF SInv, Submitted
    <3>2. r = q
      BY <2>1, <2>3, <3>1 DEF SubmitRun, Submitted, SInv, TypeOK
    <3>3. pc[q] = "secrets" /\ todo[q] = {}
      BY <3>1, <3>2 DEF SubmitRun
    <3>4. RunStored(q)
      BY <3>3 DEF SInv, SecretsSoFar, SoFar, RunStored
    <3>5. QED
      BY <1>4, <3>4
  <2>4. QED
    BY <2>2, <2>3
<1>6. SecretsSoFar'
  <2>1. SUFFICES ASSUME NEW q \in PostReqs PROVE SoFar(q)'
    BY DEF SecretsSoFar
  <2>2. CASE PostStart(q)
    BY <1>2, <2>2 DEF PostStart, SoFar, SInv, TypeOK
  <2>3. CASE ListScopes(q) \/ CreateScope(q)
    <3>1. pc[q] \in {"listScopes", "createScope"} /\ todo' = todo
      BY <2>3 DEF ListScopes, CreateScope
    <3>2. todo[q] = DOMAIN payload[q].secrets
      BY <3>1 DEF SInv, SecretsSoFar, SoFar
    <3>3. SecretKeys(q) \ todo[q] = {}
      BY <3>2 DEF SecretKeys
    <3>4. QED
      BY <1>2, <1>3, <3>1, <3>2, <3>3 DEF SoFar
  <2>4. CASE PutSecret(q)
    <3>1. PICK j \in todo[q] :
            /\ todo' = [todo EXCEPT ![q] = @ \ {j}]
            /\ IF j \notin SecretKeys(q)
                 THEN UNCHANGED <<pc, resp, secretStore>>
                 ELSE \E out \in PutOutcomes(q) :
                        /\ secretStore' =
                             IF Acted(out)
                               THEN [s \in DOMAIN secretStore \cup {<<Name(q), j>>} |->
                                       IF s = <<Name(q), j>> THEN q
                                       ELSE secretStore[s]]
                               ELSE secretStore
                        /\ GoTo(q, AfterPut(out))
      BY <2>4 DEF PutSecret
    <3>2. pc[q] = "secrets" /\ todo'[q] = todo[q] \ {j}
      BY <2>4, <3>1 DEF PutSecret, SInv, TypeOK
    <3>3. /\ todo[q] \subseteq DOMAIN payload[q].secrets
          /\ \A k \in SecretKeys(q) \ todo[q] : StoredBy(q, k)
      BY <3>2 DEF SInv, SecretsSoFar, SoFar
    <3>4. \A k \in SecretKeys(q) \ todo[q] : StoredBy(q, k)'
      BY <1>1, <3>3
    <3>5. pc'[q] \in {"secrets", "done"}
      BY <3>1, <3>2 DEF GoTo, AfterPut, SInv, TypeOK
    <3>6. pc'[q] = "secrets" /\ j \in SecretKeys(q) => StoredBy(q, j)'
      <4> SUFFICES ASSUME pc'[q] = "secrets", j \in SecretKeys(q)
                   PROVE  StoredBy(q, j)'
        OBVIOUS
      <4>1. PICK out \in PutOutcomes(q) :
              /\ secretStore' =
                   IF Acted(out)
                     THEN [s \in DOMAIN secretStore \cup {<<Name(q), j>>} |->
                             IF s = <<Name(q), j>> THEN q ELSE secretStore[s]]
                     ELSE secretStore
              /\ GoTo(q, AfterPut(out))
        BY <3>1
      <4>2. out = "Ok"
        BY <4>1 DEF GoTo, AfterPut, SInv, TypeOK, Reqs
      <4>3. QED
        BY <4>1, <4>2 DEF Acted, StoredBy, Name
    <3>7. todo'[q] \subseteq DOMAIN payload'[q].secrets
      BY <1>2, <3>2, <3>3
    <3>8. \A k \in SecretKeys(q)' \ todo'[q] :
            pc'[q] = "secrets" => StoredBy(q, k)'
      BY <1>3, <3>2, <3>4, <3>6
    <3>9. QED
      BY <3>5, <3>7, <3>8 DEF SoFar
  <2>5. CASE SubmitRun(q)
    BY <2>5 DEF SubmitRun, GoTo, SoFar, SInv, TypeOK, Reqs
  <2>6. CASE ~(PostStart(q) \/ ListScopes(q) \/ CreateScope(q) \/ PutSecret(q)
               \/ SubmitRun(q))
    <3>1. pc'[q] = pc[q] /\ todo'[q] = todo[q]
      BY <2>6, OwnSteps DEF SInv
    <3>2. SoFar(q)
      BY DEF SInv, SecretsSoFar
    <3>3. \A k \in SecretKeys(q) : StoredBy(q, k) => StoredBy(q, k)'
      BY <1>1
    <3>4. QED
      BY <1>2, <1>3, <3>1, <3>2, <3>3 DEF SoFar
  <2>7. QED
    BY <2>2, <2>3, <2>4, <2>5, <2>6
<1>7. QED
  BY <1>0, <1>5, <1>6 DEF SInv

-----------------------------------------------------------------------------
(* For any requests and run ids, a DELETE answered 200 has removed its    *)
(* run from Databricks, however the other POSTs and DELETEs interleave     *)
(* with it on the threaded server (Run.delete, cancel_and_delete_run).     *)
THEOREM DeleteAnswerTruthfulInvariant == Spec => []DeleteAnswerTruthful
<1>1. DInv => DeleteAnswerTruthful
  BY DEF DInv, DeletedIdsRetired, DeleteAnswerTruthful
<1>2. QED
  BY <1>1, InitDInv, DInvStep, PTL DEF Spec

(* For any requests and secret keys whose run names are distinct, every   *)
(* run a POST submitted to Databricks finds each non-None secret of its    *)
(* request stored in its scope with its request's value (create_job:       *)
(* the put_secret loop before submit_run).                                 *)
THEOREM SecretsBeforeSubmit ==
  DistinctRunNames => (Spec => []SubmittedRunHasSecrets)
<1> SUFFICES ASSUME DistinctRunNames PROVE Spec => []SubmittedRunHasSecrets
  OBVIOUS
<1>1. SInv /\ [Next]_vars => SInv'
  BY SInvStep
<1>2. QED
  BY <1>1, InitSInv, PTL DEF Spec, SInv

=============================================================================
