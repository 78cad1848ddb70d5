-------------------------- MODULE SpawnRuns_proofs --------------------------
(* Proofs about SpawnRuns, for any number of parents, children, workers and *)
(* faults.                                                                  *)
EXTENDS SpawnRuns, FiniteSetTheorems, TLAPS

\* The children of p that are being submitted or waited for, or that exist.
Begun(p) == {x \in Of(p) : \/ call[x] \in Calling
                           \/ runsKv[x] # "absent"
                           \/ job[x] # "none"}

\* Every child that was begun was counted, and counting stops at the limit.
Counted ==
    \A p \in Parents :
        /\ Cardinality(Begun(p)) <= orchestrator[p].spawn_count
        /\ MaxChildRuns[p] > 0 => orchestrator[p].spawn_count <= MaxChildRuns[p]

\* A call gets on only after what it has stored so far is there.
Submitted ==
    \A x \in Children :
        /\ call[x] \in {"relate", "publish", "register", "wait"} => runsKv[x] # "absent"
        /\ call[x] \in {"publish", "register", "wait"} => x \in relations
        /\ call[x] \in {"register", "wait"} => job[x] # "none"

ActiveWaits ==
    \A p \in Parents : flow[p] # "dead" =>
        orchestrator[p].active = {x \in Of(p) : call[x] = "wait"}

\* What a call that has come back, or a flow that has completed, has seen.
Joined ==
    /\ \A x \in Children :
        /\ call[x] \in {"wait", "returned"} => x \in orchestrator[x[1]].child_run_ids
        /\ call[x] = "returned" => x \in reached
        /\ runsKv[x] = "terminal" => x \in reached
        /\ call[x] = "dead" => flow[x[1]] = "dead"
    /\ \A p \in Parents : flow[p] = "COMPLETED" =>
            \A x \in Of(p) : call[x] \in {"idle", "returned"}

Inv == TypeOK /\ Counted /\ Submitted /\ ActiveWaits /\ Joined

-----------------------------------------------------------------------------
(* Types *)

LEMMA ChargeType ==
    ASSUME faultsLeft \in 0..MaxFaults, NEW ok \in BOOLEAN, Charge(ok)
    PROVE  faultsLeft' \in 0..MaxFaults
BY SpawnAssumption DEF Charge

Orchestrator == [spawn_count : Nat, active : SUBSET Children, child_run_ids : SUBSET Children]

LEMMA OrchestratorType ==
    ASSUME TypeOK, NEW p \in Parents, NEW n \in Nat,
           NEW A \in SUBSET Children, NEW C \in SUBSET Children
    PROVE  /\ [orchestrator EXCEPT ![p].spawn_count = n] \in [Parents -> Orchestrator]
           /\ [orchestrator EXCEPT ![p].active = A] \in [Parents -> Orchestrator]
           /\ [orchestrator EXCEPT ![p].active = A, ![p].child_run_ids = C]
                \in [Parents -> Orchestrator]
<1>1. ASSUME NEW orch \in Orchestrator
      PROVE  /\ [orch EXCEPT !.spawn_count = n] \in Orchestrator
             /\ [orch EXCEPT !.active = A] \in Orchestrator
             /\ [orch EXCEPT !.active = A, !.child_run_ids = C] \in Orchestrator
  BY DEF Orchestrator
<1>2. orchestrator \in [Parents -> Orchestrator] /\ orchestrator[p] \in Orchestrator
  BY DEF TypeOK, Orchestrator
<1> HIDE DEF Orchestrator
<1> QED BY <1>1, <1>2

LEMMA TypesKept == TypeOK /\ [Next]_vars => TypeOK'
<1> SUFFICES ASSUME TypeOK, [Next]_vars PROVE TypeOK'
  OBVIOUS
<1>1. ASSUME NEW p \in Parents, NEW x \in Of(p), Refuse(p, x) PROVE TypeOK'
  BY <1>1 DEF TypeOK, Refuse, Goto, Of, Calling
<1>2. ASSUME NEW p \in Parents, NEW x \in Of(p), Spawn(p, x) PROVE TypeOK'
  <2>1. orchestrator[p].spawn_count + 1 \in Nat
    BY DEF TypeOK
  <2>2. orchestrator' \in [Parents -> Orchestrator]
    BY <1>2, <2>1, OrchestratorType DEF Spawn
  <2> QED BY <1>2, <2>2 DEF TypeOK, Orchestrator, Spawn, Goto, Of, Calling
<1>3. ASSUME NEW x \in Children,
             PutSnapshot(x) \/ PutRelation(x) \/ PublishJob(x)
                \/ UndoSnapshot(x) \/ UndoRelation(x)
      PROVE TypeOK'
  <2>1. faultsLeft' \in 0..MaxFaults
    BY <1>3, ChargeType DEF TypeOK, PutSnapshot, PutRelation, PublishJob, UndoSnapshot, UndoRelation
  <2> QED BY <1>3, <2>1 DEF TypeOK, PutSnapshot, PutRelation, PublishJob, UndoSnapshot,
                            UndoRelation, AfterPublish, Goto, Calling
<1>4. ASSUME NEW p \in Parents, NEW x \in Of(p), Register(p, x) PROVE TypeOK'
  <2>1. /\ orchestrator[p].active \cup {x} \in SUBSET Children
        /\ orchestrator[p].child_run_ids \cup {x} \in SUBSET Children
    BY DEF TypeOK, Of
  <2>2. orchestrator' \in [Parents -> Orchestrator]
    BY <1>4, <2>1, OrchestratorType DEF Register
  <2> QED BY <1>4, <2>2 DEF TypeOK, Orchestrator, Register, Goto, Of, Calling
<1>5. ASSUME NEW p \in Parents, NEW x \in Of(p), NEW pc \in {"returned", "failed"},
             StopWaiting(p, x, pc), faultsLeft' \in 0..MaxFaults
      PROVE TypeOK'
  <2>1. orchestrator[p].active \ {x} \in SUBSET Children
    BY DEF TypeOK
  <2>2. orchestrator' \in [Parents -> Orchestrator]
    BY <1>5, <2>1, OrchestratorType DEF StopWaiting
  <2> QED BY <1>5, <2>2 DEF TypeOK, Orchestrator, StopWaiting, Goto, Of, Calling
<1>6. ASSUME NEW p \in Parents, NEW x \in Of(p),
             ChildEnded(p, x) \/ ParentCancelled(p, x) \/ WaitTimeout(p, x) \/ ReadRaises(p, x)
      PROVE TypeOK'
  <2>1. faultsLeft' \in 0..MaxFaults
    BY <1>6, ChargeType DEF TypeOK, ChildEnded, ParentCancelled, WaitTimeout, ReadRaises
  <2> QED BY <1>5, <1>6, <2>1 DEF ChildEnded, ParentCancelled, WaitTimeout, ReadRaises
<1>7. ASSUME NEW p \in Parents, EngineEnd(p) \/ EngineCancel(p) \/ TakeParent(p) PROVE TypeOK'
  BY <1>7 DEF TypeOK, EngineEnd, EngineCancel, TakeParent, Outcome
<1>8. ASSUME NEW p \in Parents, ParentCrash(p) PROVE TypeOK'
  <2>1. faultsLeft' \in 0..MaxFaults
    BY <1>8, ChargeType DEF TypeOK, ParentCrash
  <2> QED BY <1>8, <2>1 DEF TypeOK, ParentCrash
<1>9. ASSUME NEW x \in Children, TakeChild(x) \/ FinishChild(x) \/ AckChild(x) PROVE TypeOK'
  BY <1>9 DEF TypeOK, TakeChild, FinishChild, AckChild
<1>10. ASSUME NEW x \in Children, ChildCrash(x) PROVE TypeOK'
  <2>1. faultsLeft' \in 0..MaxFaults
    BY <1>10, ChargeType DEF TypeOK, ChildCrash
  <2> QED BY <1>10, <2>1 DEF TypeOK, ChildCrash
<1>11. CASE UNCHANGED vars
  BY <1>11 DEF TypeOK, vars
<1> QED BY <1>1, <1>2, <1>3, <1>4, <1>6, <1>7, <1>8, <1>9, <1>10, <1>11
           DEF Next, ParentStep, CallStep, Of

-----------------------------------------------------------------------------
(* The limit on children *)

LEMMA BegunFinite == \A p \in Parents : IsFiniteSet(Begun(p)) /\ IsFiniteSet(Begun(p)')
<1> SUFFICES ASSUME NEW p \in Parents PROVE IsFiniteSet(Begun(p)) /\ IsFiniteSet(Begun(p)')
  OBVIOUS
<1>1. Begun(p) \subseteq Children /\ Begun(p)' \subseteq Children
  BY DEF Begun, Of
<1> QED BY <1>1, FS_Subset, SpawnAssumption

\* A step that begins no child and counts none.
LEMMA NothingBegun ==
    ASSUME Counted, TypeOK,
           \A p \in Parents : /\ Begun(p)' \subseteq Begun(p)
                              /\ orchestrator'[p].spawn_count = orchestrator[p].spawn_count
    PROVE  Counted'
<1> SUFFICES ASSUME NEW p \in Parents
             PROVE  /\ Cardinality(Begun(p)') <= orchestrator'[p].spawn_count
                    /\ MaxChildRuns[p] > 0 => orchestrator'[p].spawn_count <= MaxChildRuns[p]
  BY DEF Counted
<1>1. Cardinality(Begun(p)') <= Cardinality(Begun(p))
  BY BegunFinite, FS_Subset
<1>2. Cardinality(Begun(p)) \in Nat /\ Cardinality(Begun(p)') \in Nat
  BY BegunFinite, FS_CardinalityType
<1>3. orchestrator[p].spawn_count \in Nat
  BY DEF TypeOK
<1> QED BY <1>1, <1>2, <1>3 DEF Counted

LEMMA CountKept == TypeOK /\ Counted /\ [Next]_vars => Counted'
<1> SUFFICES ASSUME TypeOK, Counted, [Next]_vars PROVE Counted'
  OBVIOUS
<1> DEFINE Same == \A p \in Parents :
            /\ Begun(p)' \subseteq Begun(p)
            /\ orchestrator'[p].spawn_count = orchestrator[p].spawn_count
<1>1. ASSUME NEW p \in Parents, NEW x \in Of(p), Refuse(p, x) PROVE Same
  BY <1>1 DEF Refuse, Goto, Begun, Calling, Of, TypeOK
<1>2. ASSUME NEW p \in Parents, NEW x \in Of(p), Spawn(p, x) PROVE Counted'
  <2>1. SUFFICES ASSUME NEW q \in Parents
                 PROVE  /\ Cardinality(Begun(q)') <= orchestrator'[q].spawn_count
                        /\ MaxChildRuns[q] > 0 => orchestrator'[q].spawn_count <= MaxChildRuns[q]
    BY DEF Counted
  <2>2. /\ orchestrator[q].spawn_count \in Nat /\ MaxChildRuns[q] \in Nat
        /\ Cardinality(Begun(q)) \in Nat /\ Cardinality(Begun(q)') \in Nat
        /\ Cardinality(Begun(q)) <= orchestrator[q].spawn_count
        /\ MaxChildRuns[q] > 0 => orchestrator[q].spawn_count <= MaxChildRuns[q]
    BY BegunFinite, FS_CardinalityType, SpawnAssumption DEF TypeOK, Counted
  <2>3. CASE q = p
    <3>1. Begun(p)' \subseteq Begun(p) \cup {x}
      BY <1>2 DEF Spawn, Goto, Begun, Calling, Of, TypeOK
    <3>2. IsFiniteSet(Begun(p) \cup {x}) /\ Cardinality(Begun(p) \cup {x}) <= Cardinality(Begun(p)) + 1
      <4>1. CASE x \in Begun(p)
        <5>1. Begun(p) \cup {x} = Begun(p)
          BY <4>1
        <5> QED BY <5>1, <2>2, <2>3, BegunFinite
      <4>2. CASE x \notin Begun(p)
        <5>1. IsFiniteSet(Begun(p))
          BY BegunFinite
        <5>2. /\ IsFiniteSet(Begun(p) \cup {x})
              /\ Cardinality(Begun(p) \cup {x}) = Cardinality(Begun(p)) + 1
          BY <4>2, <5>1, FS_AddElement
        <5>3. Cardinality(Begun(p)) \in Nat
          BY <2>2, <2>3
        <5> QED BY <5>2, <5>3
      <4> QED BY <4>1, <4>2
    <3>3. Cardinality(Begun(p)') <= Cardinality(Begun(p) \cup {x})
      BY <3>1, <3>2, FS_Subset
    <3>4. Cardinality(Begun(p) \cup {x}) \in Nat
      BY <3>2, FS_CardinalityType
    <3>5. orchestrator'[p].spawn_count = orchestrator[p].spawn_count + 1
      BY <1>2 DEF Spawn, TypeOK
    <3>6. MaxChildRuns[p] > 0 => orchestrator[p].spawn_count < MaxChildRuns[p]
      BY <1>2, <2>2, <2>3 DEF Spawn, OverLimit
    <3> QED BY <2>2, <2>3, <3>2, <3>3, <3>4, <3>5, <3>6
  <2>4. CASE q # p
    <3>1. Begun(q)' \subseteq Begun(q) /\ orchestrator'[q].spawn_count = orchestrator[q].spawn_count
      BY <1>2, <2>4 DEF Spawn, Goto, Begun, Calling, Of, TypeOK
    <3>2. Cardinality(Begun(q)') <= Cardinality(Begun(q))
      BY <3>1, BegunFinite, FS_Subset
    <3> QED BY <2>2, <3>1, <3>2
  <2> QED BY <2>3, <2>4
<1>3. ASSUME NEW x \in Children,
             PutSnapshot(x) \/ PutRelation(x) \/ PublishJob(x)
                \/ UndoSnapshot(x) \/ UndoRelation(x)
      PROVE Same
  BY <1>3 DEF PutSnapshot, PutRelation, PublishJob, UndoSnapshot, UndoRelation, AfterPublish,
              Goto, Begun, Calling, Of, TypeOK
<1>4. ASSUME NEW p \in Parents, NEW x \in Of(p), Register(p, x) PROVE Same
  <2>1. \A q \in Parents : Begun(q)' \subseteq Begun(q)
    BY <1>4 DEF Register, Goto, Begun, Calling, Of, TypeOK
  <2>2. \A q \in Parents : orchestrator'[q].spawn_count = orchestrator[q].spawn_count
    BY <1>4 DEF Register, TypeOK
  <2> QED BY <2>1, <2>2
<1>5. ASSUME NEW p \in Parents, NEW x \in Of(p), NEW pc \in {"returned", "failed"},
             call[x] = "wait", StopWaiting(p, x, pc)
      PROVE Same
  <2>1. \A q \in Parents : Begun(q)' \subseteq Begun(q)
    BY <1>5 DEF StopWaiting, Goto, Begun, Calling, Of, TypeOK
  <2>2. \A q \in Parents : orchestrator'[q].spawn_count = orchestrator[q].spawn_count
    BY <1>5 DEF StopWaiting, TypeOK
  <2> QED BY <2>1, <2>2
<1>6. ASSUME NEW p \in Parents, NEW x \in Of(p),
             ChildEnded(p, x) \/ ParentCancelled(p, x) \/ WaitTimeout(p, x) \/ ReadRaises(p, x)
      PROVE Same
  BY <1>5, <1>6 DEF ChildEnded, ParentCancelled, WaitTimeout, ReadRaises
<1>7. ASSUME NEW p \in Parents,
             EngineEnd(p) \/ EngineCancel(p) \/ TakeParent(p) \/ ParentCrash(p)
      PROVE Same
  <2>1. orchestrator' = orchestrator /\ runsKv' = runsKv /\ job' = job
    BY <1>7 DEF EngineEnd, EngineCancel, TakeParent, ParentCrash
  <2>2. \A x \in Children : call'[x] \in Calling => call[x] \in Calling
    BY <1>7 DEF EngineEnd, EngineCancel, TakeParent, ParentCrash, Calling
  <2> QED BY <2>1, <2>2 DEF Begun, Of
<1>8. ASSUME NEW x \in Children,
             TakeChild(x) \/ FinishChild(x) \/ AckChild(x) \/ ChildCrash(x)
      PROVE Same
  BY <1>8 DEF TakeChild, FinishChild, AckChild, ChildCrash, Taken, Begun, Of, TypeOK
<1>9. CASE UNCHANGED vars
  BY <1>9 DEF vars, Counted, Begun, Of
<1>10. Same => Counted'
  BY NothingBegun
<1> QED BY <1>1, <1>2, <1>3, <1>4, <1>6, <1>7, <1>8, <1>9, <1>10
           DEF Next, ParentStep, CallStep, Of

-----------------------------------------------------------------------------
(* What a call that gets on has stored, and which children are active *)

LEMMA SubmittedKept == TypeOK /\ Submitted /\ [Next]_vars => Submitted'
<1> SUFFICES ASSUME TypeOK, Submitted, [Next]_vars PROVE Submitted'
  OBVIOUS
<1>1. ASSUME NEW p \in Parents, NEW x \in Of(p), Refuse(p, x) \/ Spawn(p, x) PROVE Submitted'
  BY <1>1 DEF Refuse, Spawn, Goto, Submitted, Of, TypeOK
<1>2. ASSUME NEW x \in Children, PutSnapshot(x) \/ PutRelation(x) PROVE Submitted'
  BY <1>2 DEF PutSnapshot, PutRelation, Applied, Goto, Submitted, TypeOK
<1>3. ASSUME NEW x \in Children, PublishJob(x) PROVE Submitted'
  BY <1>3 DEF PublishJob, AfterPublish, Applied, Goto, Submitted, TypeOK
<1>4. ASSUME NEW x \in Children, UndoSnapshot(x) \/ UndoRelation(x) PROVE Submitted'
  BY <1>4 DEF UndoSnapshot, UndoRelation, Goto, Submitted, TypeOK
<1>5. ASSUME NEW p \in Parents, NEW x \in Of(p), Register(p, x) PROVE Submitted'
  BY <1>5 DEF Register, Goto, Submitted, Of, TypeOK
<1>6. ASSUME NEW p \in Parents, NEW x \in Of(p),
             ChildEnded(p, x) \/ ParentCancelled(p, x) \/ WaitTimeout(p, x) \/ ReadRaises(p, x)
      PROVE Submitted'
  BY <1>6 DEF ChildEnded, ParentCancelled, WaitTimeout, ReadRaises, StopWaiting, Goto,
              Submitted, Of, TypeOK
<1>7. ASSUME NEW p \in Parents,
             EngineEnd(p) \/ EngineCancel(p) \/ TakeParent(p) \/ ParentCrash(p)
      PROVE Submitted'
  <2>1. runsKv' = runsKv /\ relations' = relations /\ job' = job
    BY <1>7 DEF EngineEnd, EngineCancel, TakeParent, ParentCrash
  <2>2. \A x \in Children : call'[x] = call[x] \/ call'[x] = "dead"
    BY <1>7 DEF EngineEnd, EngineCancel, TakeParent, ParentCrash
  <2> QED BY <2>1, <2>2 DEF Submitted
<1>8. ASSUME NEW x \in Children,
             TakeChild(x) \/ FinishChild(x) \/ AckChild(x) \/ ChildCrash(x)
      PROVE Submitted'
  <2>1. call' = call /\ relations' = relations
    BY <1>8 DEF TakeChild, FinishChild, AckChild, ChildCrash
  <2>2. \A y \in Children : runsKv[y] # "absent" => runsKv'[y] # "absent"
    BY <1>8 DEF TakeChild, FinishChild, AckChild, ChildCrash, TypeOK
  <2>3. \A y \in Children : job[y] # "none" => job'[y] # "none"
    BY <1>8 DEF TakeChild, FinishChild, AckChild, ChildCrash, TypeOK
  <2> QED BY <2>1, <2>2, <2>3 DEF Submitted
<1>9. CASE UNCHANGED vars
  BY <1>9 DEF vars, Submitted
<1> QED BY <1>1, <1>2, <1>3, <1>4, <1>5, <1>6, <1>7, <1>8, <1>9
           DEF Next, ParentStep, CallStep, Of

\* A step that neither starts nor ends a wait.
LEMMA SameWaits ==
    ASSUME ActiveWaits,
           \A x \in Children : call'[x] = "wait" <=> call[x] = "wait",
           \A p \in Parents : /\ orchestrator'[p].active = orchestrator[p].active
                              /\ flow[p] = "dead" => flow'[p] = "dead"
    PROVE  ActiveWaits'
BY DEF ActiveWaits, Of

LEMMA ActiveKept == TypeOK /\ ActiveWaits /\ [Next]_vars => ActiveWaits'
<1> SUFFICES ASSUME TypeOK, ActiveWaits, [Next]_vars PROVE ActiveWaits'
  OBVIOUS
<1>1. ASSUME NEW p \in Parents, NEW x \in Of(p), Refuse(p, x) \/ Spawn(p, x) PROVE ActiveWaits'
  <2>1. \A q \in Parents : orchestrator'[q].active = orchestrator[q].active
    BY <1>1 DEF Refuse, Spawn, TypeOK
  <2>2. \A y \in Children : call'[y] = "wait" <=> call[y] = "wait"
    BY <1>1 DEF Refuse, Spawn, Goto, TypeOK
  <2> QED BY <1>1, <2>1, <2>2, SameWaits DEF Refuse, Spawn
<1>2. ASSUME NEW x \in Children,
             PutSnapshot(x) \/ PutRelation(x) \/ PublishJob(x)
                \/ UndoSnapshot(x) \/ UndoRelation(x)
      PROVE ActiveWaits'
  <2>1. orchestrator' = orchestrator /\ flow' = flow
    BY <1>2 DEF PutSnapshot, PutRelation, PublishJob, UndoSnapshot, UndoRelation
  <2>2. \A y \in Children : call'[y] = "wait" <=> call[y] = "wait"
    BY <1>2 DEF PutSnapshot, PutRelation, PublishJob, UndoSnapshot, UndoRelation,
                AfterPublish, Goto, TypeOK
  <2> QED BY <2>1, <2>2, SameWaits
<1>3. ASSUME NEW p \in Parents, NEW x \in Of(p), Register(p, x) PROVE ActiveWaits'
  <2>1. /\ orchestrator'[p].active = orchestrator[p].active \cup {x}
        /\ \A q \in Parents \ {p} : orchestrator'[q] = orchestrator[q]
    BY <1>3 DEF Register, TypeOK
  <2>2. call' = [call EXCEPT ![x] = "wait"] /\ flow' = flow
    BY <1>3 DEF Register, Goto
  <2> QED BY <2>1, <2>2 DEF ActiveWaits, Of, TypeOK
<1>4. ASSUME NEW p \in Parents, NEW x \in Of(p), NEW pc \in {"returned", "failed"},
             StopWaiting(p, x, pc)
      PROVE ActiveWaits'
  <2>1. /\ orchestrator'[p].active = orchestrator[p].active \ {x}
        /\ \A q \in Parents \ {p} : orchestrator'[q] = orchestrator[q]
    BY <1>4 DEF StopWaiting, TypeOK
  <2>2. call' = [call EXCEPT ![x] = pc] /\ flow' = flow
    BY <1>4 DEF StopWaiting, Goto
  <2> QED BY <2>1, <2>2 DEF ActiveWaits, Of, TypeOK
<1>5. ASSUME NEW p \in Parents, NEW x \in Of(p),
             ChildEnded(p, x) \/ ParentCancelled(p, x) \/ WaitTimeout(p, x) \/ ReadRaises(p, x)
      PROVE ActiveWaits'
  BY <1>4, <1>5 DEF ChildEnded, ParentCancelled, WaitTimeout, ReadRaises
<1>6. ASSUME NEW p \in Parents, EngineEnd(p) \/ EngineCancel(p) \/ TakeParent(p)
      PROVE ActiveWaits'
  <2>1. orchestrator' = orchestrator /\ call' = call
    BY <1>6 DEF EngineEnd, EngineCancel, TakeParent
  <2>2. \A q \in Parents : flow[q] = "dead" => flow'[q] = "dead"
    BY <1>6 DEF EngineEnd, EngineCancel, TakeParent, Executing, TypeOK
  <2> QED BY <2>1, <2>2, SameWaits
<1>7. ASSUME NEW p \in Parents, ParentCrash(p) PROVE ActiveWaits'
  BY <1>7 DEF ParentCrash, ActiveWaits, Of, TypeOK
<1>8. ASSUME NEW x \in Children,
             TakeChild(x) \/ FinishChild(x) \/ AckChild(x) \/ ChildCrash(x)
      PROVE ActiveWaits'
  <2>1. UNCHANGED <<flow, call, orchestrator>>
    BY <1>8 DEF TakeChild, FinishChild, AckChild, ChildCrash
  <2> QED BY <2>1, SameWaits
<1>9. CASE UNCHANGED vars
  BY <1>9, SameWaits DEF vars
<1> QED BY <1>1, <1>2, <1>3, <1>5, <1>6, <1>7, <1>8, <1>9
           DEF Next, ParentStep, CallStep, Of

-----------------------------------------------------------------------------
(* What a call that has come back has seen *)

\* A step that takes no call back and leaves what was seen.
LEMMA NothingJoined ==
    ASSUME Joined,
           \A x \in Children :
                /\ call'[x] \in {"wait", "returned", "dead"} => call'[x] = call[x]
                /\ x[1] \in Parents
                /\ call[x] \in {"idle", "returned"} /\ flow'[x[1]] = "COMPLETED"
                        => call'[x] \in {"idle", "returned"}
                /\ runsKv'[x] = "terminal" => x \in reached',
           reached \subseteq reached',
           \A p \in Parents :
                /\ orchestrator'[p].child_run_ids = orchestrator[p].child_run_ids
                /\ flow[p] = "dead" => flow'[p] = "dead"
                /\ flow'[p] = "COMPLETED" => flow[p] = "COMPLETED"
    PROVE  Joined'
BY DEF Joined, Of

LEMMA JoinedKept == TypeOK /\ Joined /\ [Next]_vars => Joined'
<1> SUFFICES ASSUME TypeOK, Joined, [Next]_vars PROVE Joined'
  OBVIOUS
<1> USE SpawnAssumption
<1>1. ASSUME NEW p \in Parents, NEW x \in Of(p), Refuse(p, x) \/ Spawn(p, x) PROVE Joined'
  <2>1. \A q \in Parents : orchestrator'[q].child_run_ids = orchestrator[q].child_run_ids
    BY <1>1 DEF Refuse, Spawn, TypeOK
  <2>2. /\ flow' = flow /\ runsKv' = runsKv /\ reached' = reached
        /\ Executing(p) /\ call[x] = "idle" /\ x[1] = p
    BY <1>1 DEF Refuse, Spawn, Of
  <2>3. \A y \in Children : call'[y] = call[y] \/ (y = x /\ call'[y] \in {"failed", "put"})
    BY <1>1 DEF Refuse, Spawn, Goto, TypeOK
  <2>4. \A y \in Children : runsKv'[y] = "terminal" => y \in reached'
    BY <2>2 DEF Joined
  <2> QED BY <2>1, <2>2, <2>3, <2>4, NothingJoined DEF Executing
<1>2. ASSUME NEW x \in Children,
             PutSnapshot(x) \/ PutRelation(x) \/ PublishJob(x)
                \/ UndoSnapshot(x) \/ UndoRelation(x)
      PROVE Joined'
  <2>1. UNCHANGED <<flow, orchestrator, reached>>
    BY <1>2 DEF PutSnapshot, PutRelation, PublishJob, UndoSnapshot, UndoRelation
  <2>2. /\ call[x] \in Calling
        /\ \A y \in Children : call'[y] = call[y]
                \/ (y = x /\ call'[y] \in (Calling \ {"wait"}) \cup {"failed"})
    BY <1>2 DEF PutSnapshot, PutRelation, PublishJob, UndoSnapshot, UndoRelation,
                AfterPublish, Goto, Calling, TypeOK
  <2>3. \A y \in Children : runsKv'[y] = "terminal" => runsKv[y] = "terminal"
    BY <1>2 DEF PutSnapshot, PutRelation, PublishJob, UndoSnapshot, UndoRelation, TypeOK
  <2> QED BY <2>1, <2>2, <2>3, NothingJoined DEF Joined, Calling
<1>3. ASSUME NEW p \in Parents, NEW x \in Of(p), Register(p, x) PROVE Joined'
  <2>1. /\ orchestrator'[p].child_run_ids = orchestrator[p].child_run_ids \cup {x}
        /\ \A q \in Parents \ {p} : orchestrator'[q] = orchestrator[q]
    BY <1>3 DEF Register, TypeOK
  <2>2. /\ call' = [call EXCEPT ![x] = "wait"] /\ call[x] = "register"
        /\ UNCHANGED <<flow, runsKv, reached>>
    BY <1>3 DEF Register, Goto
  <2> QED BY <2>1, <2>2 DEF Joined, Of, TypeOK
<1>4. ASSUME NEW p \in Parents, NEW x \in Of(p), NEW pc \in {"returned", "failed"},
             call[x] = "wait", pc = "returned" => runsKv[x] = "terminal",
             StopWaiting(p, x, pc)
      PROVE Joined'
  <2>1. \A q \in Parents : orchestrator'[q].child_run_ids = orchestrator[q].child_run_ids
    BY <1>4 DEF StopWaiting, TypeOK
  <2>2. call' = [call EXCEPT ![x] = pc] /\ UNCHANGED <<flow, runsKv, reached>>
    BY <1>4 DEF StopWaiting, Goto
  <2> QED BY <1>4, <2>1, <2>2 DEF Joined, Of, TypeOK
<1>5. ASSUME NEW p \in Parents, NEW x \in Of(p),
             ChildEnded(p, x) \/ ParentCancelled(p, x) \/ WaitTimeout(p, x) \/ ReadRaises(p, x)
      PROVE Joined'
  BY <1>4, <1>5 DEF ChildEnded, HasResult, ParentCancelled, WaitTimeout, ReadRaises
<1>6. ASSUME NEW p \in Parents, EngineEnd(p) PROVE Joined'
  <2>1. UNCHANGED <<call, orchestrator, runsKv, reached>>
    BY <1>6 DEF EngineEnd
  <2>2. \A q \in Parents : flow'[q] = IF q = p THEN Outcome(p) ELSE flow[q]
    BY <1>6 DEF EngineEnd, TypeOK
  <2>3. flow[p] # "dead"
    BY <1>6 DEF EngineEnd, Executing
  <2>4. Outcome(p) = "COMPLETED" => \A x \in Of(p) : call[x] \in {"idle", "returned"}
    BY <1>6, <2>3 DEF EngineEnd, Outcome, Idle, Joined, Of, TypeOK
  <2> QED BY <2>1, <2>2, <2>3, <2>4 DEF Joined
<1>7. ASSUME NEW p \in Parents, EngineCancel(p) \/ TakeParent(p) PROVE Joined'
  <2>1. UNCHANGED <<call, orchestrator, runsKv, reached>>
    BY <1>7 DEF EngineCancel, TakeParent
  <2>2. \A q \in Parents : /\ flow[q] = "dead" => flow'[q] = "dead"
                           /\ flow'[q] = "COMPLETED" => flow[q] = "COMPLETED"
    BY <1>7 DEF EngineCancel, TakeParent, TypeOK
  <2> QED BY <2>1, <2>2, NothingJoined DEF Joined
<1>8. ASSUME NEW p \in Parents, ParentCrash(p) PROVE Joined'
  <2>1. UNCHANGED <<orchestrator, runsKv, reached>>
    BY <1>8 DEF ParentCrash
  <2>2. \A q \in Parents : flow'[q] = IF q = p THEN "dead" ELSE flow[q]
    BY <1>8 DEF ParentCrash, TypeOK
  <2>3. \A x \in Children : call'[x] = IF x[1] = p THEN "dead" ELSE call[x]
    BY <1>8 DEF ParentCrash, Of
  <2> QED BY <2>1, <2>2, <2>3 DEF Joined, Of
<1>9. ASSUME NEW x \in Children,
             TakeChild(x) \/ FinishChild(x) \/ AckChild(x) \/ ChildCrash(x)
      PROVE Joined'
  <2>1. UNCHANGED <<flow, call, orchestrator>>
    BY <1>9 DEF TakeChild, FinishChild, AckChild, ChildCrash
  <2>2. reached \subseteq reached'
    BY <1>9 DEF TakeChild, FinishChild, AckChild, ChildCrash
  <2>3. \A y \in Children : runsKv[y] = "terminal" => y \in reached
    BY DEF Joined
  <2>4. \/ reached' = reached \cup {x} /\ runsKv' = [runsKv EXCEPT ![x] = "terminal"]
        \/ reached' = reached /\ runsKv' = [runsKv EXCEPT ![x] = "RUNNING"]
        \/ UNCHANGED <<reached, runsKv>>
    BY <1>9 DEF TakeChild, FinishChild, AckChild, ChildCrash
  <2>5. \A y \in Children : runsKv'[y] = "terminal" => y \in reached'
    BY <2>3, <2>4 DEF TypeOK
  <2> QED BY <2>1, <2>2, <2>5, NothingJoined
<1>10. CASE UNCHANGED vars
  BY <1>10 DEF vars, Joined, Of
<1> QED BY <1>1, <1>2, <1>3, <1>5, <1>6, <1>7, <1>8, <1>9, <1>10
           DEF Next, ParentStep, CallStep, Of

-----------------------------------------------------------------------------
(* The theorems *)

LEMMA InvInitially == Init => Inv
<1> SUFFICES ASSUME Init PROVE Inv
  OBVIOUS
<1>1. TypeOK
  BY SpawnAssumption DEF Init, TypeOK, Calling
<1>2. Counted
  <2>1. \A p \in Parents : Begun(p) = {}
    BY DEF Init, Begun, Of, Calling
  <2>2. \A p \in Parents : Cardinality(Begun(p)) = 0
    BY <2>1, FS_EmptySet
  <2>3. \A p \in Parents : orchestrator[p].spawn_count = 0 /\ MaxChildRuns[p] \in Nat
    BY SpawnAssumption DEF Init
  <2> QED BY <2>2, <2>3 DEF Counted
<1>3. Submitted /\ ActiveWaits /\ Joined
  BY SpawnAssumption DEF Init, Submitted, ActiveWaits, Joined, Of
<1> QED BY <1>1, <1>2, <1>3 DEF Inv

LEMMA InvAlways == Spec => []Inv
<1>1. Inv /\ [Next]_vars => Inv'
  BY TypesKept, CountKept, SubmittedKept, ActiveKept, JoinedKept DEF Inv
<1> QED BY InvInitially, <1>1, PTL DEF Spec

\* Flows, calls, orchestrators, snapshots, relation records and messages keep
\* their types.
THEOREM SpawnTypes == Spec => []TypeOK
BY InvAlways, PTL DEF Inv

\* SpawnOrchestrator.spawn checks and counts under one lock, before it submits:
\* an execution never brings more than spawn_max_child_runs children into being,
\* in whatever order its threads run and whichever submissions fail.
THEOREM ChildrenAreLimited == Spec => []ChildLimit
<1>1. Inv => ChildLimit
  <2> SUFFICES ASSUME Inv, NEW p \in Parents, MaxChildRuns[p] > 0
               PROVE  Cardinality(Spawned(p)) <= MaxChildRuns[p]
    BY DEF ChildLimit
  <2>1. Spawned(p) \subseteq Begun(p)
    BY DEF Spawned, Begun
  <2>2. /\ IsFiniteSet(Spawned(p)) /\ Cardinality(Spawned(p)) <= Cardinality(Begun(p))
    BY <2>1, BegunFinite, FS_Subset
  <2>3. /\ Cardinality(Spawned(p)) \in Nat /\ Cardinality(Begun(p)) \in Nat
        /\ orchestrator[p].spawn_count \in Nat /\ MaxChildRuns[p] \in Nat
    BY <2>2, BegunFinite, FS_CardinalityType, SpawnAssumption DEF Inv, TypeOK
  <2>4. /\ Cardinality(Begun(p)) <= orchestrator[p].spawn_count
        /\ orchestrator[p].spawn_count <= MaxChildRuns[p]
    BY DEF Inv, Counted
  <2> QED BY <2>2, <2>3, <2>4
<1> QED BY InvAlways, <1>1, PTL

\* A parent waits only for a child whose job, snapshot and relation record
\* exist.
THEOREM WaitsAreForRealChildren == Spec => []AwaitedChildIsQueued
<1>1. Inv => AwaitedChildIsQueued
  BY DEF Inv, Submitted, AwaitedChildIsQueued
<1> QED BY InvAlways, <1>1, PTL

\* An execution counts exactly the children it waits for as active, whichever of
\* its threads register and leave in between.
THEOREM ActiveChildrenAreAwaited == Spec => []ActiveIsWaiting
<1>1. Inv => ActiveIsWaiting
  BY DEF Inv, ActiveWaits, ActiveIsWaiting, Executing
<1> QED BY InvAlways, <1>1, PTL

\* A spawn task gives its result only once the child has ended: a flow that
\* completed did so after all its children, and lists them.
THEOREM ParentsCompleteLast == Spec => []CompletedAfterChildren
<1>1. Inv => CompletedAfterChildren
  BY DEF Inv, Joined, CompletedAfterChildren, Of
<1> QED BY InvAlways, <1>1, PTL

=============================================================================
