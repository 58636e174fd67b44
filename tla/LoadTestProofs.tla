-------------------------- MODULE LoadTestProofs ---------------------------
(***************************************************************************)
(* Proofs about LoadTest for any set of users and any bounds.  The         *)
(* invariant NamedRunExists is not inductive by itself: a delete by one    *)
(* user removes a Run object, and nothing in NamedRunExists says it is not *)
(* the one another user is about to poll.  The strengthening NamesOwned    *)
(* says it cannot be: the name a user holds is one of its own (uuid4 gives *)
(* every create call a name of its own), and only its holder deletes it.  *)
(* LeaksAreReported counts orphans with Cardinality; its strengthening     *)
(* OrphansCounted bounds, per user, the runs it created and no longer      *)
(* holds.  One step adds at most one of them, and only a step that fires a *)
(* failure adds one (Grows); the cardinality lemmas of FiniteSetTheorems   *)
(* turn that into the bound.                                               *)
(***************************************************************************)
EXTENDS LoadTest, FiniteSetTheorems, TLAPS

(* The run name a user holds was made by one of its own create calls.     *)
NamesOwned == \A u \in Users : runName[u] # None => runName[u][1] = u

IInv == TypeOK /\ NamesOwned /\ NamedRunExists

-----------------------------------------------------------------------------
(* The name user u holds for its poll or delete task, if any.             *)
Held(u) ==
  IF pc[u] \in {"poll", "delete"} /\ runName[u] # None THEN {runName[u]} ELSE {}

(* The Run objects u created that no task of u will delete any more.      *)
OwnOrphans(u) == {n \in runs : n[1] = u} \ Held(u)

(* Each of them is matched by a request_failure event of u.               *)
OrphansCounted == \A u \in Users : Cardinality(OwnOrphans(u)) <= failures[u]

LInv == IInv /\ OrphansCounted

-----------------------------------------------------------------------------
(* Every action of a user keeps the types.                                *)
LEMMA TypeStep == TypeOK /\ [Next]_vars => TypeOK'
<1> SUFFICES ASSUME TypeOK, [Next]_vars PROVE TypeOK'
  OBVIOUS
<1> USE LoadTestAssumption
<1>1. ASSUME NEW u \in Users, CreateRun(u) PROVE TypeOK'
  <2>1. PICK out \in CallOutcomes :
          /\ runs' = IF Committed(out) THEN runs \cup {<<u, cycle[u] + 1>>}
                     ELSE runs
          /\ runName' = IF Interrupts(out) THEN runName
                        ELSE [runName EXCEPT ![u] =
                                TaskRunName(u, out, <<u, cycle[u] + 1>>)]
          /\ failures' = [failures EXCEPT ![u] = @ + Recorded(out)]
          /\ pc' = [pc EXCEPT ![u] = NextTask(out, "poll")]
    BY <1>1 DEF CreateRun
  <2>2. <<u, cycle[u] + 1>> \in Names
    BY <1>1 DEF CreateRun, TypeOK, Names
  <2>3. TaskRunName(u, out, <<u, cycle[u] + 1>>) \in Names \cup {None}
    BY <2>2 DEF TaskRunName
  <2>4. NextTask(out, "poll") \in Tasks /\ Recorded(out) \in Nat
    BY DEF NextTask, Recorded, Tasks
  <2>5. cycle' \in [Users -> 0..MaxCycles] /\ attempts' \in [Users -> 0..MaxAttempts]
    BY <1>1 DEF CreateRun, TypeOK
  <2>6. runs' \subseteq Names
    BY <2>1, <2>2 DEF TypeOK
  <2>7. runName' \in [Users -> Names \cup {None}]
    BY <2>1, <2>3 DEF TypeOK
  <2>8. pc' \in [Users -> Tasks] /\ failures' \in [Users -> Nat]
    BY <2>1, <2>4 DEF TypeOK
  <2>9. QED
    BY <2>5, <2>6, <2>7, <2>8 DEF TypeOK
<1>2. ASSUME NEW u \in Users, PollAttempt(u) PROVE TypeOK'
  <2>1. PICK o \in PollViews(u) :
          /\ attempts' = [attempts EXCEPT ![u] = @ + 1]
          /\ failures' = [failures EXCEPT ![u] = @ + PollFailures(o, AttemptResult(o))]
          /\ pc' = [pc EXCEPT ![u] = AfterPoll(AttemptResult(o))]
    BY <1>2 DEF PollAttempt
  <2>2. attempts[u] < MaxAttempts
    BY <1>2 DEF PollAttempt, Polling
  <2>3. PollFailures(o, AttemptResult(o)) \in Nat
    BY DEF PollFailures
  <2>4. AfterPoll(AttemptResult(o)) \in Tasks
    BY DEF AfterPoll, Tasks
  <2>5. QED
    BY <1>2, <2>1, <2>2, <2>3, <2>4 DEF PollAttempt, TypeOK
<1>3. ASSUME NEW u \in Users, PollTimeout(u) PROVE TypeOK'
  BY <1>3 DEF PollTimeout, TypeOK, Tasks
<1>4. ASSUME NEW u \in Users, DeleteRun(u) PROVE TypeOK'
  <2>1. PICK out \in DeleteOutcomes(u) :
          /\ runs' = IF Committed(out) THEN runs \ {runName[u]} ELSE runs
          /\ failures' = [failures EXCEPT ![u] = @ + Recorded(out)]
          /\ pc' = [pc EXCEPT ![u] = NextTask(out, "create")]
    BY <1>4 DEF DeleteRun
  <2>2. NextTask(out, "create") \in Tasks /\ Recorded(out) \in Nat
    BY DEF NextTask, Recorded, Tasks
  <2>3. QED
    BY <1>4, <2>1, <2>2 DEF DeleteRun, TypeOK
<1>5. CASE UNCHANGED vars
  BY <1>5 DEF vars, TypeOK
<1>6. QED
  BY <1>1, <1>2, <1>3, <1>4, <1>5 DEF Next, UserStep

(* The initial state satisfies the inductive invariant.                   *)
LEMMA InitIInv == Init => IInv
BY LoadTestAssumption DEF Init, IInv, TypeOK, NamesOwned, NamedRunExists, Tasks

(* Every step keeps the inductive invariant.                              *)
LEMMA IInvStep == IInv /\ [Next]_vars => IInv'
<1> SUFFICES ASSUME IInv, [Next]_vars PROVE IInv'
  OBVIOUS
<1> USE LoadTestAssumption
<1>0. TypeOK'
  BY TypeStep DEF IInv
<1>1. ASSUME NEW v \in Users, CreateRun(v) PROVE NamesOwned' /\ NamedRunExists'
  <2> DEFINE n == <<v, cycle[v] + 1>>
  <2>1. PICK out \in CallOutcomes :
          /\ runs' = IF Committed(out) THEN runs \cup {n} ELSE runs
          /\ runName' = IF Interrupts(out) THEN runName
                        ELSE [runName EXCEPT ![v] = TaskRunName(v, out, n)]
          /\ pc' = [pc EXCEPT ![v] = NextTask(out, "poll")]
    BY <1>1 DEF CreateRun
  <2>2. n # None
    BY <1>1 DEF CreateRun, IInv, TypeOK
  <2>3. runs \subseteq runs'
    BY <2>1
  <2>4. NamesOwned'
    BY <2>1, <2>2 DEF IInv, TypeOK, NamesOwned, TaskRunName
  <2>5. ASSUME NEW w \in Users, pc'[w] \in {"poll", "delete"}, runName'[w] # None
        PROVE  runName'[w] \in runs'
    <3>1. CASE w = v
      <4>1. ~Interrupts(out)
        BY <2>1, <2>5, <3>1 DEF IInv, TypeOK, NextTask
      <4>2. runName'[v] = TaskRunName(v, out, n)
        BY <2>1, <4>1 DEF IInv, TypeOK
      <4>3. out = "Ok"
        BY <2>5, <3>1, <4>2 DEF TaskRunName
      <4>4. QED
        BY <2>1, <3>1, <4>2, <4>3 DEF TaskRunName, Committed
    <3>2. CASE w # v
      <4>1. pc'[w] = pc[w] /\ runName'[w] = runName[w]
        BY <2>1, <3>2 DEF IInv, TypeOK
      <4>2. QED
        BY <2>3, <2>5, <4>1 DEF IInv, NamedRunExists
    <3>3. QED
      BY <3>1, <3>2
  <2>6. QED
    BY <2>4, <2>5 DEF NamedRunExists
<1>2. ASSUME NEW v \in Users, PollAttempt(v) PROVE NamesOwned' /\ NamedRunExists'
  <2>1. PICK o \in PollViews(v) : pc' = [pc EXCEPT ![v] = AfterPoll(AttemptResult(o))]
    BY <1>2 DEF PollAttempt
  <2>2. \A w \in Users : pc'[w] \in {"poll", "delete"} => pc[w] \in {"poll", "delete"}
    BY <1>2, <2>1 DEF PollAttempt, Polling, IInv, TypeOK
  <2>3. QED
    BY <1>2, <2>2 DEF PollAttempt, IInv, NamesOwned, NamedRunExists
<1>3. ASSUME NEW v \in Users, PollTimeout(v) PROVE NamesOwned' /\ NamedRunExists'
  <2>1. \A w \in Users : pc'[w] \in {"poll", "delete"} => pc[w] \in {"poll", "delete"}
    BY <1>3 DEF PollTimeout, Exhausted, IInv, TypeOK
  <2>2. QED
    BY <1>3, <2>1 DEF PollTimeout, IInv, NamesOwned, NamedRunExists
<1>4. ASSUME NEW v \in Users, DeleteRun(v) PROVE NamesOwned' /\ NamedRunExists'
  <2>1. PICK out \in DeleteOutcomes(v) :
          /\ runs' = IF Committed(out) THEN runs \ {runName[v]} ELSE runs
          /\ pc' = [pc EXCEPT ![v] = NextTask(out, "create")]
    BY <1>4 DEF DeleteRun
  <2>2. Committed(out) => runName[v] # None
    BY <2>1 DEF DeleteOutcomes, Committed
  <2>3. ASSUME NEW w \in Users, pc'[w] \in {"poll", "delete"}, runName'[w] # None
        PROVE  runName'[w] \in runs'
    <3>1. w # v
      BY <2>1, <2>3 DEF IInv, TypeOK, NextTask
    <3>2. pc'[w] = pc[w] /\ runName'[w] = runName[w]
      BY <1>4, <2>1, <3>1 DEF DeleteRun, IInv, TypeOK
    <3>3. runName[w] \in runs
      BY <2>3, <3>2 DEF IInv, NamedRunExists
    <3>4. Committed(out) => runName[w] # runName[v]
      BY <2>2, <2>3, <3>1, <3>2 DEF IInv, NamesOwned
    <3>5. QED
      BY <2>1, <3>2, <3>3, <3>4
  <2>4. QED
    BY <1>4, <2>3 DEF DeleteRun, IInv, NamesOwned, NamedRunExists
<1>5. CASE UNCHANGED vars
  BY <1>0, <1>5 DEF vars, IInv, NamesOwned, NamedRunExists
<1>6. CASE Next
  <2>1. PICK v \in Users : UserStep(v)
    BY <1>6 DEF Next
  <2>2. NamesOwned' /\ NamedRunExists'
    BY <1>1, <1>2, <1>3, <1>4, <2>1 DEF UserStep
  <2>3. QED
    BY <1>0, <2>2 DEF IInv
<1>7. QED
  BY <1>0, <1>5, <1>6 DEF IInv

-----------------------------------------------------------------------------
(* For any users and bounds, every variable of the load test keeps its    *)
(* type: cycles and poll attempts stay within their bounds and run names   *)
(* are names of create calls.                                              *)
THEOREM LoadTestTypeCorrect == Spec => []TypeOK
<1>1. Init => TypeOK
  BY InitIInv DEF IInv
<1>2. QED
  BY <1>1, TypeStep, PTL DEF Spec

(* For any users and bounds, a user about to poll or delete by a name      *)
(* finds that Run object on the server: self.run_name is never stale       *)
(* across the task sequence's cycles, and no user deletes another's run.   *)
THEOREM RunNameNeverStale == Spec => []NamedRunExists
<1>1. IInv => NamedRunExists
  BY DEF IInv
<1>2. QED
  BY <1>1, InitIInv, IInvStep, PTL DEF Spec

-----------------------------------------------------------------------------
(* The runs one user created are finitely many: at most one per cycle.    *)
LEMMA OwnRunsFinite ==
  ASSUME TypeOK, NEW u \in Users
  PROVE  IsFiniteSet(OwnOrphans(u))
<1>1. IsFiniteSet({u} \X (1..MaxCycles))
  <2>1. IsFiniteSet({u})
    BY FS_Singleton
  <2>2. IsFiniteSet(1..MaxCycles)
    BY LoadTestAssumption, FS_Interval
  <2>3. QED
    BY <2>1, <2>2, FS_Product
<1>2. OwnOrphans(u) \subseteq {u} \X (1..MaxCycles)
  BY DEF TypeOK, OwnOrphans, Names
<1>3. QED
  BY <1>1, <1>2, FS_Subset

(* A finite set that grows by at most one element while a bound on it    *)
(* grows by at least one, or does not grow while the bound does not        *)
(* shrink, stays within the bound.                                         *)
LEMMA BoundKept ==
  ASSUME NEW S, IsFiniteSet(S), NEW T, NEW a \in Nat, NEW b \in Nat,
         Cardinality(S) <= a,
         \/ T \subseteq S /\ a <= b
         \/ \E x : T \subseteq S \cup {x} /\ a + 1 <= b
  PROVE  Cardinality(T) <= b
<1>0. Cardinality(S) \in Nat
  BY FS_CardinalityType
<1>1. CASE T \subseteq S /\ a <= b
  <2>1. IsFiniteSet(T) /\ Cardinality(T) <= Cardinality(S)
    BY <1>1, FS_Subset
  <2>2. Cardinality(T) \in Nat
    BY <2>1, FS_CardinalityType
  <2>3. QED
    BY <1>0, <1>1, <2>1, <2>2
<1>2. CASE \E x : T \subseteq S \cup {x} /\ a + 1 <= b
  <2>1. PICK x : T \subseteq S \cup {x} /\ a + 1 <= b
    BY <1>2
  <2>2. IsFiniteSet(S \cup {x}) /\ Cardinality(S \cup {x}) <= Cardinality(S) + 1
    BY <1>0, FS_AddElement
  <2>3. IsFiniteSet(T) /\ Cardinality(T) <= Cardinality(S \cup {x})
    BY <2>1, <2>2, FS_Subset
  <2>4. Cardinality(T) \in Nat /\ Cardinality(S \cup {x}) \in Nat
    BY <2>2, <2>3, FS_CardinalityType
  <2>5. QED
    BY <1>0, <2>1, <2>2, <2>3, <2>4
<1>3. QED
  BY <1>1, <1>2

(* How one step may change a user's orphaned runs: not at all while its   *)
(* failure count does not drop, or by one run while the count goes up.     *)
Grows(u) ==
  \/ OwnOrphans(u)' \subseteq OwnOrphans(u) /\ failures[u] <= failures'[u]
  \/ \E x : OwnOrphans(u)' \subseteq OwnOrphans(u) \cup {x}
            /\ failures[u] + 1 <= failures'[u]

(* A step of another user leaves u's orphaned runs and failures alone:    *)
(* it creates and deletes only names of its own.                           *)
LEMMA OthersLeaveOrphans ==
  ASSUME IInv, NEW u \in Users, NEW v \in Users, v # u, UserStep(v)
  PROVE  OwnOrphans(u)' = OwnOrphans(u) /\ failures'[u] = failures[u]
<1> USE DEF IInv, TypeOK
<1>1. pc'[u] = pc[u] /\ runName'[u] = runName[u] /\ failures'[u] = failures[u]
  BY DEF UserStep, CreateRun, PollAttempt, PollTimeout, DeleteRun
<1>2. Held(u)' = Held(u)
  BY <1>1 DEF Held
<1>3. {n \in runs' : n[1] = u} = {n \in runs : n[1] = u}
  <2>1. CASE CreateRun(v)
    <3>1. runs' = runs \/ runs' = runs \cup {<<v, cycle[v] + 1>>}
      BY <2>1 DEF CreateRun
    <3>2. QED
      BY <3>1
  <2>2. CASE DeleteRun(v)
    <3>1. PICK out \in DeleteOutcomes(v) :
            runs' = IF Committed(out) THEN runs \ {runName[v]} ELSE runs
      BY <2>2 DEF DeleteRun
    <3>2. Committed(out) => runName[v] # None
      BY <3>1 DEF DeleteOutcomes, Committed
    <3>3. Committed(out) => runName[v][1] = v
      BY <3>2 DEF NamesOwned
    <3>4. QED
      BY <3>1, <3>3
  <2>3. CASE PollAttempt(v) \/ PollTimeout(v)
    BY <2>3 DEF PollAttempt, PollTimeout
  <2>4. QED
    BY <2>1, <2>2, <2>3 DEF UserStep
<1>4. QED
  BY <1>1, <1>2, <1>3 DEF OwnOrphans

(* A user's own step changes its orphaned runs as Grows says.             *)
LEMMA OwnStepGrows ==
  ASSUME IInv, NEW u \in Users, UserStep(u)
  PROVE  Grows(u)
<1> USE LoadTestAssumption DEF IInv, TypeOK
<1>0. OwnOrphans(u)' \subseteq {n \in runs' : n[1] = u}
  BY DEF OwnOrphans
<1>1. CASE CreateRun(u)
  <2> DEFINE n == <<u, cycle[u] + 1>>
  <2>1. PICK out \in CallOutcomes :
          /\ runs' = IF Committed(out) THEN runs \cup {n} ELSE runs
          /\ runName' = IF Interrupts(out) THEN runName
                        ELSE [runName EXCEPT ![u] = TaskRunName(u, out, n)]
          /\ failures' = [failures EXCEPT ![u] = @ + Recorded(out)]
          /\ pc' = [pc EXCEPT ![u] = NextTask(out, "poll")]
    BY <1>1 DEF CreateRun
  <2>2. OwnOrphans(u) = {m \in runs : m[1] = u}
    BY <1>1 DEF CreateRun, OwnOrphans, Held
  <2>3. CASE out = "Ok"
    <3>1. n # None
      BY <1>1 DEF CreateRun
    <3>2. Held(u)' = {n} /\ runs' = runs \cup {n}
      BY <2>1, <2>3, <3>1 DEF Held, Interrupts, TaskRunName, NextTask, Committed
    <3>3. failures'[u] = failures[u]
      BY <2>1, <2>3 DEF Recorded
    <3>4. QED
      BY <2>2, <3>2, <3>3 DEF Grows, OwnOrphans
  <2>4. CASE out # "Ok"
    <3>1. OwnOrphans(u)' \subseteq OwnOrphans(u) \cup {n}
      BY <1>0, <2>1, <2>2
    <3>2. failures'[u] = failures[u] + 1
      BY <2>1, <2>4 DEF Recorded
    <3>3. QED
      BY <3>1, <3>2 DEF Grows
  <2>5. QED
    BY <2>3, <2>4
<1>2. CASE PollAttempt(u)
  <2>1. PICK o \in PollViews(u) :
          /\ failures' = [failures EXCEPT ![u] = @ + PollFailures(o, AttemptResult(o))]
          /\ pc' = [pc EXCEPT ![u] = AfterPoll(AttemptResult(o))]
    BY <1>2 DEF PollAttempt
  <2>2. runs' = runs /\ runName' = runName /\ pc[u] = "poll"
    BY <1>2 DEF PollAttempt, Polling
  <2>3. CASE AttemptResult(o) = "Interrupt"
    <3>1. OwnOrphans(u)' \subseteq OwnOrphans(u) \cup {runName[u]}
      BY <1>0, <2>2 DEF OwnOrphans, Held
    <3>2. failures[u] + 1 <= failures'[u]
      BY <2>1, <2>3 DEF PollFailures
    <3>3. QED
      BY <3>1, <3>2 DEF Grows
  <2>4. CASE AttemptResult(o) # "Interrupt"
    <3>1. pc'[u] \in {"poll", "delete"}
      BY <2>1, <2>4 DEF AfterPoll
    <3>2. Held(u)' = Held(u)
      BY <2>2, <3>1 DEF Held
    <3>3. failures[u] <= failures'[u]
      BY <2>1 DEF PollFailures
    <3>4. QED
      BY <2>2, <3>2, <3>3 DEF Grows, OwnOrphans
  <2>5. QED
    BY <2>3, <2>4
<1>3. CASE PollTimeout(u)
  <2>1. Held(u)' = Held(u) /\ runs' = runs
    BY <1>3 DEF PollTimeout, Exhausted, Held
  <2>2. failures[u] <= failures'[u]
    BY <1>3 DEF PollTimeout
  <2>3. QED
    BY <2>1, <2>2 DEF Grows, OwnOrphans
<1>4. CASE DeleteRun(u)
  <2>1. PICK out \in DeleteOutcomes(u) :
          /\ runs' = IF Committed(out) THEN runs \ {runName[u]} ELSE runs
          /\ failures' = [failures EXCEPT ![u] = @ + Recorded(out)]
    BY <1>4 DEF DeleteRun
  <2>2. pc[u] = "delete"
    BY <1>4 DEF DeleteRun
  <2>3. CASE Committed(out)
    <3>1. runName[u] # None
      BY <2>1, <2>3 DEF DeleteOutcomes, Committed
    <3>2. OwnOrphans(u) = {m \in runs : m[1] = u} \ {runName[u]}
      BY <2>2, <3>1 DEF OwnOrphans, Held
    <3>3. OwnOrphans(u)' \subseteq OwnOrphans(u)
      BY <1>0, <2>1, <2>3, <3>2
    <3>4. failures[u] <= failures'[u]
      BY <2>1 DEF Recorded
    <3>5. QED
      BY <3>3, <3>4 DEF Grows
  <2>4. CASE ~Committed(out)
    <3>1. OwnOrphans(u)' \subseteq OwnOrphans(u) \cup {runName[u]}
      BY <1>0, <2>1, <2>4 DEF OwnOrphans, Held
    <3>2. failures[u] + 1 <= failures'[u]
      BY <2>1, <2>4 DEF Recorded, Committed
    <3>3. QED
      BY <3>1, <3>2 DEF Grows
  <2>5. QED
    BY <2>3, <2>4
<1>5. QED
  BY <1>1, <1>2, <1>3, <1>4 DEF UserStep

(* The initial state satisfies LInv: no runs, no failures.               *)
LEMMA InitLInv == Init => LInv
<1> SUFFICES ASSUME Init PROVE LInv
  OBVIOUS
<1>1. IInv
  BY InitIInv
<1>2. \A u \in Users : OwnOrphans(u) = {} /\ failures[u] = 0
  BY DEF Init, OwnOrphans
<1>3. QED
  BY <1>1, <1>2, FS_EmptySet DEF LInv, OrphansCounted

(* Every step changes each user's orphaned runs as Grows says.           *)
LEMMA GrowsStep ==
  ASSUME IInv, [Next]_vars, NEW u \in Users
  PROVE  Grows(u)
<1>1. CASE UNCHANGED vars
  <2>1. OwnOrphans(u)' = OwnOrphans(u) /\ failures'[u] = failures[u]
    BY <1>1 DEF vars, OwnOrphans, Held
  <2>2. QED
    BY <2>1 DEF Grows, IInv, TypeOK
<1>2. CASE Next
  <2>1. PICK v \in Users : UserStep(v)
    BY <1>2 DEF Next
  <2>2. CASE v = u
    BY <2>1, <2>2, OwnStepGrows
  <2>3. CASE v # u
    <3>1. OwnOrphans(u)' = OwnOrphans(u) /\ failures'[u] = failures[u]
      BY <2>1, <2>3, OthersLeaveOrphans
    <3>2. QED
      BY <3>1 DEF Grows, IInv, TypeOK
  <2>4. QED
    BY <2>2, <2>3
<1>3. QED
  BY <1>1, <1>2

(* Every step keeps LInv.                                                 *)
LEMMA LInvStep == LInv /\ [Next]_vars => LInv'
<1> SUFFICES ASSUME LInv, [Next]_vars PROVE LInv'
  OBVIOUS
<1>1. IInv'
  BY IInvStep DEF LInv
<1>2. ASSUME NEW u \in Users PROVE Cardinality(OwnOrphans(u)') <= failures'[u]
  <2>1. Grows(u)
    BY GrowsStep DEF LInv
  <2>2. IsFiniteSet(OwnOrphans(u)) /\ Cardinality(OwnOrphans(u)) <= failures[u]
    BY OwnRunsFinite DEF LInv, IInv, OrphansCounted
  <2>3. failures[u] \in Nat /\ failures'[u] \in Nat
    BY <1>1 DEF LInv, IInv, TypeOK
  <2>4. QED
    BY <2>1, <2>2, <2>3, BoundKept DEF Grows
<1>3. QED
  BY <1>1, <1>2 DEF LInv, OrphansCounted

(* LInv bounds the orphans of LeaksAreReported: an orphan of u is a run   *)
(* of u that u does not hold.                                              *)
LEMMA LInvLeaks == LInv => LeaksAreReported
<1> SUFFICES ASSUME LInv, NEW u \in Users
             PROVE  Cardinality({n \in Orphans : n[1] = u}) <= failures[u]
  BY DEF LeaksAreReported
<1>1. {n \in Orphans : n[1] = u} \subseteq OwnOrphans(u)
  BY DEF Orphans, OwnOrphans, Held
<1>2. IsFiniteSet(OwnOrphans(u))
  BY OwnRunsFinite DEF LInv, IInv
<1>3. Cardinality({n \in Orphans : n[1] = u}) <= Cardinality(OwnOrphans(u))
      /\ IsFiniteSet({n \in Orphans : n[1] = u})
  BY <1>1, <1>2, FS_Subset
<1>4. Cardinality({n \in Orphans : n[1] = u}) \in Nat
      /\ Cardinality(OwnOrphans(u)) \in Nat
  BY <1>2, <1>3, FS_CardinalityType
<1>5. QED
  BY <1>3, <1>4 DEF LInv, OrphansCounted, IInv, TypeOK

(* For any users and bounds, every Run object the load test leaves behind *)
(* shows in locust's statistics: a user has fired at least as many         *)
(* request_failure events (locust_client_function) as it has runs that no  *)
(* task of it will delete any more.                                        *)
THEOREM LeaksReported == Spec => []LeaksAreReported
<1>1. QED
  BY InitLInv, LInvStep, LInvLeaks, PTL DEF Spec

(* Under NamesOwned the orphans of u are exactly the runs of u that u    *)
(* does not hold: no other user can hold a name of u.                      *)
LEMMA OrphansOfUser ==
  ASSUME TypeOK, NamesOwned, NEW u \in Users
  PROVE  {n \in Orphans : n[1] = u} = OwnOrphans(u)
<1>1. None \notin runs
  BY LoadTestAssumption DEF TypeOK, Names
<1>2. ASSUME NEW n \in runs, n[1] = u, NEW w \in Users, runName[w] = n
      PROVE  w = u
  BY <1>1, <1>2 DEF NamesOwned
<1>3. QED
  BY <1>1, <1>2 DEF Orphans, OwnOrphans, Held

(* For any users and bounds, no step strands a Run object silently: the   *)
(* step that leaves a run of u with no task to delete it also fires a      *)
(* request_failure event for u (locust_client_function).                   *)
THEOREM LeakStepsReported == Spec => LeakStepReported
<1>1. ASSUME IInv, IInv', [Next]_vars PROVE LeakStep
  <2>1. ASSUME NEW x \in Users
        PROVE  {n \in Orphans : n[1] = x} = OwnOrphans(x)
    BY <1>1, OrphansOfUser DEF IInv
  <2>2. ASSUME NEW x \in Users
        PROVE  {n \in Orphans' : n[1] = x} = OwnOrphans(x)'
    <3>1. None \notin runs'
      BY <1>1, LoadTestAssumption DEF IInv, TypeOK, Names
    <3>2. ASSUME NEW n \in runs', n[1] = x, NEW w \in Users, runName'[w] = n
          PROVE  w = x
      BY <1>1, <3>1, <3>2 DEF IInv, NamesOwned
    <3>3. QED
      BY <3>1, <3>2 DEF Orphans, OwnOrphans, Held
  <2>3. SUFFICES ASSUME NEW u \in Users, OwnOrphans(u)' \ OwnOrphans(u) # {}
                 PROVE  failures'[u] > failures[u]
    BY <2>1, <2>2 DEF LeakStep
  <2>4. Grows(u)
    BY <1>1, GrowsStep
  <2>5. failures[u] \in Nat /\ failures'[u] \in Nat
    BY <1>1 DEF IInv, TypeOK
  <2>6. QED
    BY <2>3, <2>4, <2>5 DEF Grows
<1>2. QED
  BY <1>1, InitIInv, IInvStep, PTL DEF Spec, LeakStepReported

=============================================================================
