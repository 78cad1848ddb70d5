----------------------- MODULE WorkerRegistry_proofs ------------------------
(* Proofs about WorkerRegistry, for every timeout and any number of patches *)
(* and faults.                                                              *)
EXTENDS WorkerRegistry, TLAPS

USE DEF Ages

(***************************************************************************)
(* Records and requests                                                    *)
(***************************************************************************)

\* The records the actions build are records.
LEMMA NewRecords ==
    /\ \A hidden \in BOOLEAN : NewRecord(hidden) \in Record
    /\ \A rec \in Record : Aged(rec) \in Record
    /\ NoRecord \notin Record
<1>1. \A hidden \in BOOLEAN : NewRecord(hidden) \in Record
  BY RegistryAssumption, SMT DEF NewRecord, Record, States
<1>2. NoRecord \notin Record
  BY SMT DEF Record, States, NoRecord
<1>3. ASSUME NEW rec \in Record
      PROVE  Aged(rec) \in Record
  <2>1. rec # NoRecord /\ rec.age \in Ages
    BY <1>2, <1>3, SMT DEF Record
  <2>2. Older(rec.age) \in Ages
    BY <2>1, RegistryAssumption, SMT DEF Older
  <2> HIDE DEF Ages
  <2>3. [rec EXCEPT !.age = Older(rec.age)] \in Record
    BY <1>3, <2>2, SMT DEF Record
  <2> QED
    BY <2>1, <2>3 DEF Aged
<1> QED
  BY <1>1, <1>2, <1>3

\* Every record has a flag, and so has no record.
LEMMA FlagType == \A rec \in Record \cup {NoRecord} : rec.hidden \in BOOLEAN
<1>1. \A rec \in Record : rec.hidden \in BOOLEAN
  BY SMT DEF Record
<1>2. NoRecord.hidden = FALSE
  BY SMT DEF NoRecord
<1> QED
  BY <1>1, <1>2

\* So is a record with another state and another age.
LEMMA ChangedRecord ==
    ASSUME NEW rec \in Record, NEW state \in States, NEW age \in Ages
    PROVE  [rec EXCEPT !.state = state, !.age = age] \in Record
<1> HIDE DEF Ages
<1> DEFINE restated == [rec EXCEPT !.state = state]
<1>1. restated \in Record
  BY SMT DEF Record
<1>2. [rec EXCEPT !.state = state, !.age = age] = [restated EXCEPT !.age = age]
  OBVIOUS
<1> HIDE DEF restated
<1>3. [restated EXCEPT !.age = age] \in Record
  BY <1>1, SMT DEF Record
<1> QED
  BY <1>2, <1>3

\* Time does not make a record younger, and keeps its flag.
LEMMA AgedFacts ==
    ASSUME NEW rec \in Record, NEW s \in Ages, rec.age >= s
    PROVE  /\ Aged(rec).hidden = rec.hidden
           /\ Aged(rec).age >= s
           /\ Aged(rec).age >= Older(s)
           /\ Older(s) \in Ages
<1>1. rec # NoRecord /\ rec.age \in Ages
  BY NewRecords, SMT DEF Record
<1>2. Older(rec.age) \in Ages /\ Older(s) \in Ages /\ Older(rec.age) >= Older(s)
      /\ Older(s) >= s
  BY <1>1, RegistryAssumption, SMT DEF Older
<1>3. Aged(rec) = [rec EXCEPT !.age = Older(rec.age)]
  BY <1>1 DEF Aged
<1>4. Aged(rec).hidden = rec.hidden /\ Aged(rec).age = Older(rec.age)
  BY <1>3, SMT DEF Record
<1> QED
  BY <1>2, <1>4, RegistryAssumption, SMT

\* A request has its fields' types.
LEMMA RequestType ==
    ASSUME NEW task \in Tasks \cup {"nobody"}, NEW op \in {"get", "put"}, NEW rec \in Record
    PROVE  Request(task, op, rec) \in RequestRecord
BY SMT DEF Request, RequestRecord

\* Killing tasks only changes who waits for a request.
LEMMA OrphanedFacts ==
    ASSUME NEW requests \in Seq(RequestRecord), NEW tasks
    PROVE  /\ Orphaned(requests, tasks) \in Seq(RequestRecord)
           /\ Len(Orphaned(requests, tasks)) = Len(requests)
           /\ \A i \in DOMAIN requests :
                /\ Orphaned(requests, tasks)[i].rec = requests[i].rec
                /\ Orphaned(requests, tasks)[i].op = requests[i].op
<1> DEFINE O(i) == IF requests[i].task \in tasks
                   THEN [requests[i] EXCEPT !.task = "nobody"] ELSE requests[i]
<1>1. \A i \in DOMAIN requests : O(i) \in RequestRecord /\ O(i).rec = requests[i].rec
                                    /\ O(i).op = requests[i].op
  <2>1. \A i \in DOMAIN requests : requests[i] \in RequestRecord
    BY SMT
  <2> QED
    BY <2>1, SMT DEF RequestRecord
<1>2. Orphaned(requests, tasks) = [i \in DOMAIN requests |-> O(i)]
  BY DEF Orphaned
<1> HIDE DEF O
<1>3. DOMAIN requests = 1..Len(requests) /\ Len(requests) \in Nat
  BY SMT
<1> QED
  BY <1>1, <1>2, <1>3, SMT

\* So does giving up one of them.
LEMMA MarkedFacts ==
    ASSUME NEW requests \in Seq(RequestRecord), NEW i \in DOMAIN requests
    PROVE  LET rest == [requests EXCEPT ![i].task = "nobody"] IN
           /\ rest \in Seq(RequestRecord)
           /\ Len(rest) = Len(requests)
           /\ \A j \in DOMAIN requests :
                rest[j].rec = requests[j].rec /\ rest[j].op = requests[j].op
<1>1. requests[i] \in RequestRecord
  BY SMT
<1>2. [requests[i] EXCEPT !.task = "nobody"] \in RequestRecord
  BY <1>1, SMT DEF RequestRecord
<1>3. /\ [requests[i] EXCEPT !.task = "nobody"].rec = requests[i].rec
      /\ [requests[i] EXCEPT !.task = "nobody"].op = requests[i].op
  BY <1>1, SMT DEF RequestRecord
<1> DEFINE marked == [requests[i] EXCEPT !.task = "nobody"]
<1>4. [requests EXCEPT ![i].task = "nobody"] = [requests EXCEPT ![i] = marked]
  OBVIOUS
<1> HIDE DEF marked
<1>5. marked \in RequestRecord /\ marked.rec = requests[i].rec /\ marked.op = requests[i].op
  BY <1>2, <1>3 DEF marked
<1> QED
  BY <1>4, <1>5, SMT

\* Time passes for the requests on the wire too.
LEMMA AgedWire ==
    ASSUME NEW requests \in Seq(RequestRecord)
    PROVE  LET older == [i \in DOMAIN requests |-> [requests[i] EXCEPT !.rec = Aged(@)]] IN
           /\ older \in Seq(RequestRecord)
           /\ Len(older) = Len(requests)
           /\ \A i \in DOMAIN requests :
                older[i].rec = Aged(requests[i].rec) /\ older[i].op = requests[i].op
<1> DEFINE Old(i) == [requests[i] EXCEPT !.rec = Aged(@)]
<1>1. \A i \in DOMAIN requests : requests[i] \in RequestRecord
  BY SMT
<1>2. \A i \in DOMAIN requests :
        Old(i) \in RequestRecord /\ Old(i).rec = Aged(requests[i].rec) /\ Old(i).op = requests[i].op
  BY <1>1, NewRecords, SMT DEF RequestRecord
<1>3. [i \in DOMAIN requests |-> [requests[i] EXCEPT !.rec = Aged(@)]]
        = [i \in DOMAIN requests |-> Old(i)]
  OBVIOUS
<1> HIDE DEF Old
<1>4. DOMAIN requests = 1..Len(requests) /\ Len(requests) \in Nat
  BY SMT
<1> QED
  BY <1>2, <1>3, <1>4, SMT

-----------------------------------------------------------------------------
(***************************************************************************)
(* Types                                                                   *)
(***************************************************************************)

\* An empty wire, and one that grows or shrinks by a request.
LEMMA WireType ==
    ASSUME NEW requests \in Seq(RequestRecord)
    PROVE  /\ <<>> \in Seq(RequestRecord)
           /\ \A req \in RequestRecord : <<req>> \in Seq(RequestRecord)
           /\ \A req \in RequestRecord : Append(requests, req) \in Seq(RequestRecord)
           /\ requests # <<>> => Head(requests) \in RequestRecord
           /\ requests # <<>> => Tail(requests) \in Seq(RequestRecord)
           /\ \A i \in DOMAIN requests : requests[i] \in RequestRecord
BY SMT

\* What a call costs.
LEMMA ChargeType ==
    ASSUME TypeOK, NEW ok \in BOOLEAN, Charge(ok)
    PROVE  faultsLeft' \in 0..MaxFaults
BY RegistryAssumption, SMT DEF Charge, TypeOK

\* What is put is new.
LEMMA StoredType ==
    ASSUME NEW rec, Stores(rec)
    PROVE  workersKv' = rec /\ kept' \in 0..Lifetime
BY RegistryAssumption, SMT DEF Stores

\* _set_worker_registry keeps the types.
LEMMA SetRegistryType ==
    ASSUME TypeOK, NEW task \in Tasks, NEW state \in States, NEW touch \in BOOLEAN,
           SetRegistry(task, state, touch)
    PROVE  registry' \in Record /\ wire' \in Seq(RequestRecord)
<1> DEFINE age == IF touch THEN 0 ELSE registry.age
           rec == [registry EXCEPT !.state = state, !.age = age]
<1>1. registry \in Record /\ registry.age \in Ages
  BY SMT DEF TypeOK, Record
<1>2. age \in Ages
  BY <1>1, RegistryAssumption, SMT
<1> HIDE DEF age, Ages
<1>3. rec \in Record
  BY <1>1, <1>2, ChangedRecord
<1>4. Write(task, rec) \in RequestRecord
  BY <1>3, RequestType DEF Write
<1>5. registry' = rec /\ wire' = Append(wire, Write(task, rec))
  BY DEF SetRegistry, MemoryNow, age
<1> HIDE DEF rec
<1> QED
  BY <1>3, <1>4, <1>5, WireType DEF TypeOK

\* What a put that returns or raises does keeps the types.
LEMMA WriteReturnsType ==
    ASSUME TypeOK, NEW task, NEW ok \in BOOLEAN, NEW rec \in Record,
           NEW rest \in Seq(RequestRecord), WriteReturns(task, ok, rec, rest)
    PROVE  /\ phase' \in Off \cup {"starting", "up", "closing"}
           /\ registry' \in Record /\ running' \in BOOLEAN /\ beat' \in {"due", "asleep"}
           /\ wire' \in Seq(RequestRecord)
<1>1. CASE task = "main" /\ phase = "starting" /\ ok
  BY <1>1, SMT DEF TypeOK, WriteReturns
<1>2. CASE task = "main" /\ ((phase = "starting" /\ ~ok) \/ phase = "closing")
  <2>1. PICK as \in {"dead", "stopped"} : Ends(as, rest)
    BY <1>2 DEF WriteReturns
  <2>2. NewRecord(FALSE) \in Record
    BY NewRecords
  <2> QED
    BY <2>1, <2>2, OrphanedFacts DEF Ends, Off
<1>3. CASE ~(task = "main" /\ phase \in {"starting", "closing"})
  <2>1. /\ registry' = (IF ok THEN rec ELSE registry)
        /\ wire' = rest
        /\ beat' = (IF task = "beat" THEN AfterBeat(ok) ELSE beat)
        /\ UNCHANGED <<phase, running>>
    BY <1>3 DEF WriteReturns
  <2> QED
    BY <2>1 DEF TypeOK, AfterBeat
<1> QED
  BY <1>1, <1>2, <1>3

\* The type invariant (`TypeOK` of the run): whatever order requests are served,
\* given up or orphaned in, what is stored has a state and an age it can have.
THEOREM RegistryTypes == Spec => []TypeOK
<1>1. Init => TypeOK
  <2> SUFFICES ASSUME Init PROVE TypeOK
    OBVIOUS
  <2>1. registry \in Record
    BY NewRecords DEF Init
  <2>2. patch \in [pc : {"idle", "got"}, rec : Record \cup {NoRecord}]
    BY SMT DEF Init, NoPatch
  <2>3. wire \in Seq(RequestRecord)
    BY SMT DEF Init
  <2>4. silent \in Ages /\ kept \in 0..Lifetime
    BY RegistryAssumption, SMT DEF Init
  <2>5. patchesLeft \in 0..MaxPatches /\ faultsLeft \in 0..MaxFaults
    BY RegistryAssumption, SMT DEF Init
  <2> QED
    BY <2>1, <2>2, <2>3, <2>4, <2>5 DEF Init, TypeOK, Off
<1>2. TypeOK /\ [Next]_vars => TypeOK'
  <2> SUFFICES ASSUME TypeOK, [Next]_vars PROVE TypeOK'
    OBVIOUS
  <2> USE DEF bucket, worker, http
  <2>1. CASE StartWorker
    <3>1. PICK ok \in BOOLEAN :
            /\ Charge(ok)
            /\ registry' = NewRecord(ok /\ workersKv.hidden)
            /\ wire' = <<Write("main", registry')>>
      BY <2>1 DEF StartWorker
    <3>2. (ok /\ workersKv.hidden) \in BOOLEAN
      BY Zenon DEF TypeOK, Record, NoRecord
    <3>3. registry' \in Record
      BY <3>1, <3>2, NewRecords
    <3>4. wire' \in Seq(RequestRecord)
      BY <3>1, <3>3, RequestType, WireType DEF Write, Tasks, TypeOK
    <3>5. faultsLeft' \in 0..MaxFaults
      BY <3>1, ChargeType
    <3> QED
      BY <2>1, <3>3, <3>4, <3>5, RegistryAssumption, SMT DEF StartWorker, TypeOK
  <2>2. CASE StartJob \/ FinishJob \/ WriteWheelStatus \/ Beat
    <3>1. PICK task \in Tasks, state \in States, touch \in BOOLEAN :
            SetRegistry(task, state, touch)
      <4>1. registry.state \in States /\ "IDLE" \in States /\ "RUNNING" \in States
            /\ "main" \in Tasks /\ "beat" \in Tasks
        BY SMT DEF TypeOK, Record, States, Tasks
      <4> QED
        BY <2>2, <4>1, Zenon DEF StartJob, FinishJob, WriteWheelStatus, Beat
    <3>2. registry' \in Record /\ wire' \in Seq(RequestRecord)
      BY <3>1, SetRegistryType
    <3>3. running' \in BOOLEAN
      BY <2>2 DEF StartJob, FinishJob, WriteWheelStatus, Beat, TypeOK
    <3>4. UNCHANGED <<bucket, phase, beat, silent, http, faultsLeft>>
      BY <2>2 DEF StartJob, FinishJob, WriteWheelStatus, Beat
    <3> QED
      BY <3>2, <3>3, <3>4 DEF TypeOK
  <2>3. CASE AbandonJob
    <3>1. faultsLeft' \in 0..MaxFaults
      BY <2>3, ChargeType DEF AbandonJob
    <3> QED
      BY <2>3, <3>1 DEF AbandonJob, TypeOK
  <2>4. CASE Close
    <3> DEFINE rec == [registry EXCEPT !.state = "STOPPED_GRACEFUL", !.age = 0]
    <3>1. rec \in Record
      <4>1. 0 \in Ages /\ "STOPPED_GRACEFUL" \in States
        BY RegistryAssumption, SMT DEF States
      <4> QED
        BY <4>1, ChangedRecord DEF TypeOK
    <3>2. /\ registry' = rec
          /\ wire' = Append(Orphaned(wire, {"main"}), Write("main", rec))
      BY <2>4 DEF Close, MemoryNow
    <3> HIDE DEF rec
    <3>3. wire' \in Seq(RequestRecord)
      <4>1. Write("main", rec) \in RequestRecord
        BY <3>1, RequestType DEF Write, Tasks
      <4>2. Orphaned(wire, {"main"}) \in Seq(RequestRecord)
        BY OrphanedFacts DEF TypeOK
      <4> QED
        BY <3>2, <4>1, <4>2, WireType
    <3> QED
      BY <2>4, <3>1, <3>2, <3>3 DEF Close, TypeOK
  <2>5. CASE Crash
    <3>1. Ends("dead", wire)
      BY <2>5 DEF Crash
    <3>2. registry' \in Record
      BY <3>1, NewRecords DEF Ends
    <3>3. wire' \in Seq(RequestRecord)
      BY <3>1, OrphanedFacts DEF Ends, TypeOK
    <3>4. faultsLeft' \in 0..MaxFaults
      BY <2>5, ChargeType DEF Crash
    <3> QED
      BY <2>5, <3>1, <3>2, <3>3, <3>4 DEF Crash, Ends, TypeOK, Off
  <2>6. CASE ServeGet
    <3>1. Head(wire) \in RequestRecord /\ Tail(wire) \in Seq(RequestRecord)
      BY <2>6, WireType DEF ServeGet, TypeOK
    <3>2. PreservedHidden(Head(wire).rec) \in Record
      <4>1. Head(wire).rec \in Record
        BY <3>1, SMT DEF RequestRecord
      <4>2. workersKv # NoRecord => workersKv.hidden \in BOOLEAN
        BY DEF TypeOK, Record
      <4>3. \A rec \in Record, hidden \in BOOLEAN : [rec EXCEPT !.hidden = hidden] \in Record
        BY DEF Record
      <4> QED
        BY <4>1, <4>2, <4>3 DEF PreservedHidden
    <3>3. Head(wire).task \in Tasks \cup {"nobody"}
      BY <3>1, SMT DEF RequestRecord
    <3>4. wire' \in Seq(RequestRecord)
      BY <2>6, <3>1, <3>2, <3>3, RequestType, WireType DEF ServeGet
    <3> QED
      BY <2>6, <3>4 DEF ServeGet, TypeOK
  <2>7. CASE ServePut
    <3>1. Head(wire) \in RequestRecord /\ Tail(wire) \in Seq(RequestRecord)
      BY <2>7, WireType DEF ServePut, TypeOK
    <3>2. Head(wire).rec \in Record
      BY <3>1, SMT DEF RequestRecord
    <3>3. WriteReturns(Head(wire).task, TRUE, Head(wire).rec, Tail(wire))
      BY <2>7 DEF ServePut
    <3>4. workersKv' \in Record /\ kept' \in 0..Lifetime
      BY <2>7, <3>2, StoredType DEF ServePut
    <3> QED
      BY <2>7, <3>1, <3>2, <3>3, <3>4, WriteReturnsType DEF ServePut, TypeOK
  <2>8. CASE ServeOrphan
    <3>1. Head(wire) \in RequestRecord /\ Tail(wire) \in Seq(RequestRecord)
      BY <2>8, WireType DEF ServeOrphan, TypeOK
    <3>2. Head(wire).rec \in Record
      BY <3>1, SMT DEF RequestRecord
    <3>3. workersKv' \in Record \cup {NoRecord} /\ kept' \in 0..Lifetime
      BY <2>8, <3>2, StoredType DEF ServeOrphan, TypeOK
    <3> QED
      BY <2>8, <3>1, <3>3 DEF ServeOrphan, TypeOK
  <2>9. CASE GiveUp
    <3>1. faultsLeft' \in 0..MaxFaults
      BY <2>9, ChargeType DEF GiveUp
    <3>2. PICK i \in DOMAIN wire : GivesUp(i)
      BY <2>9 DEF GiveUp
    <3>3. wire[i] \in RequestRecord /\ [wire EXCEPT ![i].task = "nobody"] \in Seq(RequestRecord)
      BY WireType, MarkedFacts DEF TypeOK
    <3>4. wire[i].rec \in Record /\ wire[i].task \in Tasks \cup {"nobody"}
      BY <3>3, SMT DEF RequestRecord
    <3>5. UNCHANGED <<bucket, silent, patch, asked, lapsed, patchesLeft>>
      BY <2>9 DEF GiveUp
    <3>6. CASE wire[i].op = "get"
      <4>1. Request(wire[i].task, "put", wire[i].rec) \in RequestRecord
        BY <3>4, RequestType
      <4>2. wire' \in Seq(RequestRecord)
        BY <3>2, <3>3, <3>6, <4>1, WireType DEF GivesUp
      <4>3. raced' \in BOOLEAN /\ UNCHANGED worker
        BY <3>2, <3>6 DEF GivesUp, TypeOK
      <4> QED
        BY <3>1, <3>5, <4>2, <4>3 DEF TypeOK
    <3>7. CASE wire[i].op # "get"
      <4>1. UNCHANGED raced
            /\ WriteReturns(wire[i].task, FALSE, wire[i].rec, [wire EXCEPT ![i].task = "nobody"])
        BY <3>2, <3>7 DEF GivesUp
      <4> QED
        BY <3>1, <3>3, <3>4, <3>5, <4>1, WriteReturnsType DEF TypeOK
    <3> QED
      BY <3>6, <3>7
  <2>10. CASE PatchGet
    <3>1. PICK hidden \in BOOLEAN : patch' = [pc |-> "got", rec |-> Patched(workersKv, hidden)]
      BY <2>10 DEF PatchGet
    <3>2. workersKv \in Record
      BY <2>10 DEF PatchGet, TypeOK
    <3>3. Patched(workersKv, hidden) \in Record
      BY <3>2, SMT DEF Patched, Record
    <3>4. patchesLeft' \in 0..MaxPatches
      BY <2>10, RegistryAssumption, SMT DEF PatchGet, TypeOK
    <3> QED
      BY <2>10, <3>1, <3>3, <3>4 DEF PatchGet, TypeOK
  <2>11. CASE PatchPut
    <3>1. PICK ok \in BOOLEAN, applied \in BOOLEAN :
            /\ Charge(ok)
            /\ IF applied
               THEN /\ Stores(patch.rec)
                    /\ asked' = patch.rec.hidden /\ lapsed' = FALSE
                    /\ raced' = \E i \in DOMAIN wire : wire[i].op = "put"
               ELSE UNCHANGED <<bucket, asked, raced, lapsed>>
      BY <2>11 DEF PatchPut
    <3>2. patch.rec \in Record \cup {NoRecord} /\ patch.rec.hidden \in BOOLEAN
      <4>1. patch.rec \in Record \cup {NoRecord}
        BY SMT DEF TypeOK
      <4> QED
        BY <4>1, FlagType
    <3>3. /\ workersKv' \in Record \cup {NoRecord} /\ kept' \in 0..Lifetime
          /\ asked' \in BOOLEAN /\ raced' \in BOOLEAN /\ lapsed' \in BOOLEAN
      BY <3>1, <3>2, StoredType DEF TypeOK
    <3>4. NoPatch \in [pc : {"idle", "got"}, rec : Record \cup {NoRecord}]
      BY SMT DEF NoPatch
    <3>5. faultsLeft' \in 0..MaxFaults
      BY <3>1, ChargeType
    <3> QED
      BY <2>11, <3>3, <3>4, <3>5 DEF PatchPut, TypeOK
  <2>12. CASE Tick
    <3>1. workersKv' \in Record \cup {NoRecord} /\ kept' \in 0..Lifetime
      <4>1. workersKv' \in Record \cup {NoRecord}
        BY <2>12, NewRecords DEF Tick, TypeOK, Aged
      <4>2. kept' \in 0..Lifetime
        BY <2>12, RegistryAssumption, SMT DEF Tick, TypeOK
      <4> QED
        BY <4>1, <4>2
    <3>2. registry' \in Record
      BY <2>12, NewRecords DEF Tick, TypeOK
    <3>3. wire' \in Seq(RequestRecord)
      BY <2>12, AgedWire DEF Tick, TypeOK
    <3>4. Aged(patch.rec) \in Record \cup {NoRecord} /\ patch.pc \in {"idle", "got"}
      BY NewRecords DEF TypeOK, Aged
    <3>5. patch' \in [pc : {"idle", "got"}, rec : Record \cup {NoRecord}]
      <4>1. patch' = [patch EXCEPT !.rec = Aged(patch.rec)]
        BY <2>12 DEF Tick
      <4> QED
        BY <3>4, <4>1, SMT DEF TypeOK
    <3>6. silent' \in Ages
      BY <2>12, RegistryAssumption, SMT DEF Tick, TypeOK, Older
    <3>7. faultsLeft' \in 0..MaxFaults
      <4>1. OnTime \in BOOLEAN /\ Charge(OnTime)
        BY <2>12 DEF Tick, OnTime
      <4> QED
        BY <4>1, ChargeType
    <3>8. /\ beat' \in {"due", "asleep"}
          /\ UNCHANGED <<phase, running, asked, raced, lapsed, patchesLeft>>
      BY <2>12 DEF Tick, TypeOK
    <3> QED
      BY <3>1, <3>2, <3>3, <3>5, <3>6, <3>7, <3>8 DEF TypeOK
  <2>13. CASE Expire
    <3>1. lapsed' \in BOOLEAN
      BY <2>13 DEF Expire, TypeOK, Renewed
    <3>2. workersKv' = NoRecord /\ kept' \in 0..Lifetime
      BY <2>13, StoredType DEF Expire
    <3> QED
      BY <2>13, <3>1, <3>2 DEF Expire, TypeOK
  <2>14. CASE UNCHANGED vars
    BY <2>14 DEF vars, TypeOK
  <2> QED
    BY <2>1, <2>2, <2>3, <2>4, <2>5, <2>6, <2>7, <2>8, <2>9, <2>10, <2>11, <2>12, <2>13, <2>14
       DEF Next
<1> QED
  BY <1>1, <1>2, PTL DEF Spec

-----------------------------------------------------------------------------
(***************************************************************************)
(* Heartbeats renew the record                                             *)
(***************************************************************************)

\* Without a fault the record of a worker that is up was put after the last tick
\* but one, and after the last one if the heartbeat for it is done.
KeptInv ==
    faultsLeft = MaxFaults =>
        /\ phase \in {"up", "closing"} => kept <= 1
        /\ phase = "up" /\ beat = "asleep" => kept = 0

\* As long as nothing failed, no call was charged.
LEMMA NotCharged ==
    ASSUME TypeOK, NEW ok \in BOOLEAN, Charge(ok), faultsLeft' = MaxFaults
    PROVE  ok /\ faultsLeft = MaxFaults
BY RegistryAssumption, SMT DEF TypeOK, Charge

LEMMA KeptStep ==
    ASSUME TypeOK, KeptInv, [Next]_vars
    PROVE  KeptInv'
<1> SUFFICES ASSUME faultsLeft' = MaxFaults
             PROVE  KeptInv'
  BY DEF KeptInv
<1> USE DEF bucket, worker, http
<1>1. CASE kept' = 0
  BY <1>1, SMT DEF KeptInv
<1>2. CASE UNCHANGED <<kept, phase, beat, faultsLeft>>
  BY <1>2 DEF KeptInv
<1>3. CASE StartWorker
  BY <1>3 DEF StartWorker, KeptInv
<1>4. CASE StartJob \/ FinishJob \/ WriteWheelStatus \/ Beat
  BY <1>2, <1>4 DEF StartJob, FinishJob, WriteWheelStatus, Beat
<1>5. CASE Close
  BY <1>5 DEF Close, KeptInv
<1>6. CASE AbandonJob \/ Crash \/ GiveUp
  <2>1. Charge(FALSE)
    BY <1>6 DEF AbandonJob, Crash, GiveUp
  <2> QED
    BY <2>1, NotCharged
<1>7. CASE ServeGet \/ ServeOrphan \/ PatchGet \/ UNCHANGED vars
  <2>1. UNCHANGED <<phase, beat, faultsLeft>> /\ (UNCHANGED kept \/ kept' = 0)
    BY <1>7 DEF ServeGet, ServeOrphan, PatchGet, Stores, vars
  <2> QED
    BY <1>1, <1>2, <2>1
<1>8. CASE ServePut \/ Expire
  <2>1. kept' = 0
    BY <1>8 DEF ServePut, Expire, Stores
  <2> QED
    BY <1>1, <2>1
<1>9. CASE PatchPut
  <2>1. PICK ok \in BOOLEAN : Charge(ok)
    BY <1>9 DEF PatchPut
  <2>2. faultsLeft = MaxFaults
    BY <2>1, NotCharged
  <2>3. UNCHANGED <<phase, beat>> /\ (UNCHANGED kept \/ kept' = 0)
    BY <1>9 DEF PatchPut, Stores
  <2> QED
    BY <1>1, <1>2, <2>2, <2>3
<1>10. CASE Tick
  <2>1. /\ Charge(OnTime) /\ UNCHANGED phase
        /\ beat' = (IF beat = "asleep" THEN "due" ELSE beat)
        /\ kept' = (IF workersKv # NoRecord /\ kept < Lifetime THEN kept + 1 ELSE kept)
    BY <1>10 DEF Tick
  <2>2. OnTime /\ faultsLeft = MaxFaults
    BY <2>1, NotCharged DEF OnTime
  <2>3. CASE phase \in Off
    BY <2>1, <2>3 DEF KeptInv, Off
  <2>4. CASE phase = "up" /\ beat = "asleep"
    <3>1. kept = 0
      BY <2>2, <2>4 DEF KeptInv
    <3>2. kept' <= 1 /\ beat' = "due"
      BY <2>1, <2>4, <3>1, SMT
    <3> QED
      BY <3>2 DEF KeptInv
  <2> QED
    BY <2>2, <2>3, <2>4 DEF OnTime
<1> QED
  BY <1>3, <1>4, <1>5, <1>6, <1>7, <1>8, <1>9, <1>10 DEF Next

LEMMA KeptInvariant == Spec => []KeptInv
<1>1. Init => KeptInv
  BY DEF Init, KeptInv
<1>2. TypeOK /\ KeptInv /\ [Next]_vars => KeptInv'
  BY KeptStep
<1> QED
  BY <1>1, <1>2, RegistryTypes, PTL DEF Spec

\* So an expiry is never that of a record which heartbeats were to renew.
LEMMA ExpiryLapses ==
    ASSUME TypeOK, KeptInv, Expire
    PROVE  workersKv' = NoRecord /\ lapsed' = TRUE
<1>1. ~Renewed
  <2>1. kept >= Lifetime /\ kept \in 0..Lifetime
    BY DEF Expire, TypeOK
  <2> QED
    BY <2>1, RegistryAssumption, SMT DEF Renewed, KeptInv
<1> QED
  BY <1>1 DEF Expire, Stores

-----------------------------------------------------------------------------
(***************************************************************************)
(* Where the requests on the wire come from                                *)
(***************************************************************************)

\* A request to be found in `requests`, whoever waits for it.
IsIn(requests, req) ==
    \E i \in DOMAIN requests : req.rec = requests[i].rec /\ req.op = requests[i].op

\* Every request of one wire is in another.
ComesFrom(later, earlier) == \A j \in DOMAIN later : IsIn(earlier, later[j])

LEMMA AppendComesFrom ==
    ASSUME NEW requests \in Seq(RequestRecord), NEW req \in RequestRecord
    PROVE  \A j \in DOMAIN Append(requests, req) :
                Append(requests, req)[j] = req \/ IsIn(requests, Append(requests, req)[j])
<1>1. \A j \in DOMAIN Append(requests, req) :
            \/ Append(requests, req)[j] = req
            \/ j \in DOMAIN requests /\ Append(requests, req)[j] = requests[j]
  BY SMT
<1> QED
  BY <1>1 DEF IsIn

LEMMA TailComesFrom ==
    ASSUME NEW requests \in Seq(RequestRecord), requests # <<>>
    PROVE  ComesFrom(Tail(requests), requests) /\ IsIn(requests, Head(requests))
<1>1. \A j \in DOMAIN Tail(requests) :
            j + 1 \in DOMAIN requests /\ Tail(requests)[j] = requests[j + 1]
  BY SMT
<1>2. 1 \in DOMAIN requests /\ Head(requests) = requests[1]
  BY SMT
<1> QED
  BY <1>1, <1>2 DEF IsIn, ComesFrom

LEMMA OrphanedComesFrom ==
    ASSUME NEW requests \in Seq(RequestRecord), NEW tasks
    PROVE  ComesFrom(Orphaned(requests, tasks), requests)
<1>1. DOMAIN Orphaned(requests, tasks) = DOMAIN requests
  BY DEF Orphaned
<1> QED
  BY <1>1, OrphanedFacts DEF IsIn, ComesFrom

LEMMA MarkedComesFrom ==
    ASSUME NEW requests \in Seq(RequestRecord), NEW i \in DOMAIN requests
    PROVE  ComesFrom([requests EXCEPT ![i].task = "nobody"], requests)
<1>1. DOMAIN [requests EXCEPT ![i].task = "nobody"] = DOMAIN requests
  OBVIOUS
<1> QED
  BY <1>1, MarkedFacts DEF IsIn, ComesFrom

LEMMA ComesFromTransitive ==
    ASSUME NEW one, NEW two, NEW three, ComesFrom(one, two), ComesFrom(two, three)
    PROVE  ComesFrom(one, three)
BY DEF ComesFrom, IsIn

-----------------------------------------------------------------------------
(***************************************************************************)
(* The invariant.  Nothing on its way to the bucket is younger than the    *)
(* time the process has been gone, and every put on its way carries the    *)
(* flag the last PATCH stored, unless a write missed it or the record      *)
(* expired.                                                                *)
(***************************************************************************)

WireInv ==
    \A i \in DOMAIN wire :
        /\ wire[i].rec.age >= silent
        /\ ~raced /\ ~lapsed /\ wire[i].op = "put" => wire[i].rec.hidden = asked
        /\ workersKv = NoRecord /\ ~lapsed => ~wire[i].rec.hidden

StoredInv ==
    /\ phase \notin Off => silent = 0
    /\ workersKv # NoRecord => workersKv.age >= silent
    /\ patch.pc = "got" => patch.rec \in Record /\ patch.rec.age >= silent
    /\ ~raced /\ ~lapsed => workersKv.hidden = asked
    /\ workersKv = NoRecord /\ ~lapsed => ~registry.hidden

RegistryInv == TypeOK /\ KeptInv /\ WireInv /\ StoredInv

\* What WireInv says of a request that may come onto the wire.
Fits(req) ==
    /\ req.rec.age >= silent'
    /\ ~raced' /\ ~lapsed' /\ req.op = "put" => req.rec.hidden = asked'
    /\ workersKv' = NoRecord /\ ~lapsed' => ~req.rec.hidden

\* Requests that were there fit as long as the flags are left alone.
LEMMA OldFits ==
    ASSUME WireInv, silent' = silent, UNCHANGED <<raced, asked, lapsed>>,
           workersKv' = NoRecord => workersKv = NoRecord,
           NEW req, IsIn(wire, req)
    PROVE  Fits(req)
BY DEF WireInv, Fits, IsIn

LEMMA WireFits ==
    ASSUME \A i \in DOMAIN wire' : Fits(wire'[i])
    PROVE  WireInv'
BY DEF WireInv, Fits

\* A wire that only lost requests.
LEMMA ShorterWire ==
    ASSUME WireInv, silent' = silent, UNCHANGED <<raced, asked, lapsed>>,
           workersKv' = NoRecord => workersKv = NoRecord,
           ComesFrom(wire', wire)
    PROVE  WireInv'
<1>1. \A i \in DOMAIN wire' : Fits(wire'[i])
  BY OldFits DEF ComesFrom
<1> QED
  BY <1>1, WireFits

\* A wire that got one more request.
LEMMA LongerWire ==
    ASSUME WireInv, silent' = silent, UNCHANGED <<raced, asked, lapsed>>,
           workersKv' = NoRecord => workersKv = NoRecord,
           NEW rest \in Seq(RequestRecord), ComesFrom(rest, wire),
           NEW req \in RequestRecord, Fits(req), wire' = Append(rest, req)
    PROVE  WireInv'
<1>1. \A i \in DOMAIN wire' : wire'[i] = req \/ IsIn(rest, wire'[i])
  BY AppendComesFrom
<1>2. \A i \in DOMAIN wire' : wire'[i] = req \/ IsIn(wire, wire'[i])
  BY <1>1 DEF ComesFrom, IsIn
<1>3. \A i \in DOMAIN wire' : Fits(wire'[i])
  BY <1>2, OldFits
<1> QED
  BY <1>3, WireFits

\* What the end of a put does to the wire and to the process.
LEMMA WriteReturnsKeeps ==
    ASSUME TypeOK, NEW task, NEW ok \in BOOLEAN, NEW rec,
           NEW rest \in Seq(RequestRecord), WriteReturns(task, ok, rec, rest)
    PROVE  /\ ComesFrom(wire', rest)
           /\ phase \in Off /\ task # "main" => phase' = phase
           /\ registry' \in {registry, rec, NewRecord(FALSE)}
           /\ phase' \notin Off => phase \notin Off
<1>1. ComesFrom(rest, rest)
  BY DEF ComesFrom, IsIn
<1>2. CASE task = "main" /\ phase = "starting" /\ ok
  BY <1>1, <1>2 DEF WriteReturns, Off
<1>3. CASE task = "main" /\ ((phase = "starting" /\ ~ok) \/ phase = "closing")
  <2>1. PICK as \in {"dead", "stopped"} : Ends(as, rest)
    BY <1>3 DEF WriteReturns
  <2> QED
    BY <1>3, <2>1, OrphanedComesFrom DEF Ends, Off
<1>4. CASE ~(task = "main" /\ phase \in {"starting", "closing"})
  BY <1>1, <1>4 DEF WriteReturns
<1> QED
  BY <1>2, <1>3, <1>4

\* Every step keeps what is on the wire, and what is stored, in line.
LEMMA RegistryStep == RegistryInv /\ TypeOK' /\ KeptInv' /\ [Next]_vars => RegistryInv'
<1> SUFFICES ASSUME RegistryInv, TypeOK', KeptInv', [Next]_vars PROVE WireInv' /\ StoredInv'
  BY DEF RegistryInv
<1> USE DEF bucket, worker, http
<1>a. TypeOK /\ KeptInv /\ WireInv /\ StoredInv
  BY DEF RegistryInv
<1>b. wire \in Seq(RequestRecord) /\ silent \in Ages /\ workersKv \in Record \cup {NoRecord}
  BY <1>a DEF TypeOK
<1>c. /\ \A req \in RequestRecord : req.rec \in Record /\ req.rec \in Record \cup {NoRecord}
      /\ \A rec \in Record : rec.age \in Ages
      /\ \A n \in Ages : n \in Int /\ n >= 0
  BY RegistryAssumption, SMT DEF RequestRecord, Record
<1>1. CASE StartWorker
  <2>1. PICK ok \in BOOLEAN :
          /\ registry' = NewRecord(ok /\ workersKv.hidden)
          /\ wire' = <<Write("main", registry')>>
    BY <1>1 DEF StartWorker
  <2>2. registry'.age = 0 /\ registry'.hidden = (ok /\ workersKv.hidden)
    BY <2>1 DEF NewRecord
  <2>3. workersKv = NoRecord => ~registry'.hidden
    <3>1. NoRecord.hidden = FALSE
      BY DEF NoRecord
    <3>2. workersKv = NoRecord => workersKv.hidden = FALSE
      BY <3>1
    <3> QED
      BY <2>2, <3>2
  <2>4. UNCHANGED <<workersKv, http>> /\ silent' = 0 /\ phase' = "starting"
    BY <1>1 DEF StartWorker
  <2>5. /\ Write("main", registry').op = "get"
        /\ Write("main", registry').rec = registry'
    BY DEF Write, Request
  <2>6. Fits(Write("main", registry'))
    BY <2>2, <2>3, <2>4, <2>5 DEF Fits
  <2>7. \A i \in DOMAIN wire' : wire'[i] = Write("main", registry')
    BY <2>1
  <2>8. WireInv'
    BY <2>6, <2>7, WireFits
  <2>9. StoredInv'
    <3>1. workersKv # NoRecord => workersKv.age >= 0
      BY <1>b, <1>c
    <3>2. patch.pc = "got" => patch.rec \in Record /\ patch.rec.age >= 0
      BY <1>a, <1>c DEF StoredInv
    <3> QED
      BY <1>a, <2>3, <2>4, <3>1, <3>2 DEF StoredInv, Off
  <2> QED
    BY <2>8, <2>9
<1>2. CASE StartJob \/ FinishJob \/ WriteWheelStatus \/ Beat
  <2>1. PICK task \in Tasks, state \in States, touch \in BOOLEAN :
          SetRegistry(task, state, touch)
    <3>1. registry.state \in States /\ "IDLE" \in States /\ "RUNNING" \in States
          /\ "main" \in Tasks /\ "beat" \in Tasks
      BY <1>a, SMT DEF TypeOK, Record, States, Tasks
    <3> QED
      BY <1>2, <3>1, Zenon DEF StartJob, FinishJob, WriteWheelStatus, Beat
  <2>2. UNCHANGED <<workersKv, phase, silent, http>> /\ phase = "up"
    BY <1>2 DEF StartJob, FinishJob, WriteWheelStatus, Beat, MainIsFree
  <2>3. registry' \in Record
    BY <1>a, <2>1, SetRegistryType
  <2>4. registry'.hidden = registry.hidden /\ wire' = Append(wire, Write(task, registry'))
    <3>1. registry \in Record
      BY <1>a DEF TypeOK
    <3> DEFINE age == IF touch THEN 0 ELSE registry.age
    <3>2. registry' = [registry EXCEPT !.state = state, !.age = age]
      BY <2>1 DEF SetRegistry, MemoryNow
    <3> HIDE DEF age
    <3>3. registry'.hidden = registry.hidden
      BY <3>1, <3>2, SMT DEF Record
    <3> QED
      BY <2>1, <3>3 DEF SetRegistry, MemoryNow
  <2>5. silent = 0
    BY <1>a, <2>2 DEF StoredInv, Off
  <2>6. Write(task, registry') \in RequestRecord /\ Write(task, registry').op = "get"
        /\ Write(task, registry').rec = registry'
    BY <2>3, RequestType DEF Write, Request
  <2>7. Fits(Write(task, registry'))
    <3>1. registry'.age >= 0
      BY <2>3, <1>c
    <3> QED
      BY <1>a, <2>2, <2>4, <2>5, <2>6, <3>1 DEF Fits, StoredInv
  <2>8. ComesFrom(wire, wire)
    BY DEF ComesFrom, IsIn
  <2>9. WireInv'
    BY <1>a, <1>b, <2>2, <2>4, <2>6, <2>7, <2>8, LongerWire
  <2>10. StoredInv'
    BY <1>a, <2>2, <2>4 DEF StoredInv
  <2> QED
    BY <2>9, <2>10
<1>3. CASE AbandonJob
  BY <1>3, <1>a DEF AbandonJob, WireInv, StoredInv
<1>4. CASE Close
  <2> DEFINE rec == [registry EXCEPT !.state = "STOPPED_GRACEFUL", !.age = 0]
             rest == Orphaned(wire, {"main"})
  <2>1. /\ registry' = rec
        /\ wire' = Append(rest, Write("main", rec))
        /\ UNCHANGED <<workersKv, silent, http>>
        /\ phase = "up" /\ phase' = "closing"
    BY <1>4 DEF Close, MemoryNow
  <2>2. rec.hidden = registry.hidden /\ rec.age = 0
    BY <1>a, SMT DEF TypeOK, Record
  <2>3. rec \in Record
    BY <2>1, <1>a DEF TypeOK
  <2> HIDE DEF rec
  <2>4. /\ Write("main", rec).op = "get"
        /\ Write("main", rec).rec = rec
        /\ Write("main", rec) \in RequestRecord
    BY <2>3, RequestType DEF Write, Request, Tasks
  <2>5. silent = 0
    BY <1>a, <2>1 DEF StoredInv, Off
  <2>6. Fits(Write("main", rec))
    BY <1>a, <2>1, <2>2, <2>4, <2>5 DEF Fits, StoredInv
  <2>7. rest \in Seq(RequestRecord) /\ ComesFrom(rest, wire)
    BY <1>b, OrphanedFacts, OrphanedComesFrom
  <2> HIDE DEF rest
  <2>8. WireInv'
    BY <1>a, <2>1, <2>4, <2>6, <2>7, LongerWire
  <2>9. StoredInv'
    BY <1>a, <2>1, <2>2, <2>5 DEF StoredInv
  <2> QED
    BY <2>8, <2>9
<1>5. CASE Crash
  <2>1. /\ wire' = Orphaned(wire, Tasks) /\ registry' = NewRecord(FALSE)
        /\ UNCHANGED <<workersKv, silent, http>> /\ phase' \in Off
    BY <1>5 DEF Crash, Ends, Off
  <2>2. WireInv'
    BY <1>a, <1>b, <2>1, OrphanedComesFrom, ShorterWire
  <2>3. StoredInv'
    BY <1>a, <2>1 DEF StoredInv, NewRecord
  <2> QED
    BY <2>2, <2>3
<1>6. CASE ServeGet
  <2> DEFINE rec == PreservedHidden(Head(wire).rec)
             req == Request(Head(wire).task, "put", rec)
  <2>1. /\ wire # <<>> /\ wire' = Append(Tail(wire), req)
        /\ UNCHANGED <<workersKv, worker, silent, http>>
    BY <1>6 DEF ServeGet
  <2>2. Head(wire) \in RequestRecord /\ Tail(wire) \in Seq(RequestRecord)
    BY <1>b, <2>1, WireType
  <2>3. Head(wire).rec \in Record /\ Head(wire).task \in Tasks \cup {"nobody"}
    BY <2>2, SMT DEF RequestRecord
  <2>4. rec \in Record /\ rec.age = Head(wire).rec.age
        /\ (workersKv # NoRecord => rec.hidden = workersKv.hidden)
        /\ (workersKv = NoRecord => rec.hidden = Head(wire).rec.hidden)
    <3>1. workersKv.hidden \in BOOLEAN
      BY <1>b, FlagType
    <3> QED
      BY <2>3, <3>1, SMT DEF PreservedHidden, Record
  <2>5. IsIn(wire, Head(wire)) /\ ComesFrom(Tail(wire), wire)
    BY <1>b, <2>1, TailComesFrom
  <2>6. Head(wire).rec.age >= silent /\ (workersKv = NoRecord /\ ~lapsed => ~Head(wire).rec.hidden)
    BY <1>a, <2>5 DEF IsIn, WireInv
  <2> HIDE DEF rec
  <2>7. req \in RequestRecord /\ req.op = "put" /\ req.rec = rec
    BY <2>3, <2>4, RequestType DEF Request
  <2> HIDE DEF req
  <2>8. Fits(req)
    <3>1. workersKv = NoRecord => ~workersKv.hidden
      BY DEF NoRecord
    <3>2. rec.hidden \in BOOLEAN /\ workersKv.hidden \in BOOLEAN
      BY <1>b, <2>4, FlagType
    <3> QED
      BY <1>a, <2>1, <2>4, <2>6, <2>7, <3>1, <3>2 DEF Fits, StoredInv
  <2>9. WireInv'
    BY <1>a, <2>1, <2>2, <2>5, <2>7, <2>8, LongerWire
  <2>10. StoredInv'
    BY <1>a, <2>1 DEF StoredInv
  <2> QED
    BY <2>9, <2>10
<1>7. CASE ServePut
  <2> DEFINE rec == Head(wire).rec
  <2>1. /\ wire # <<>> /\ Head(wire).op = "put" /\ workersKv' = rec
        /\ WriteReturns(Head(wire).task, TRUE, rec, Tail(wire))
        /\ UNCHANGED <<silent, http>>
    BY <1>7 DEF ServePut, Stores
  <2>2. Tail(wire) \in Seq(RequestRecord) /\ rec \in Record
    BY <1>b, <1>c, <2>1, WireType
  <2>3. IsIn(wire, Head(wire)) /\ ComesFrom(Tail(wire), wire)
    BY <1>b, <2>1, TailComesFrom
  <2>4. ComesFrom(wire', Tail(wire)) /\ (phase' \notin Off => phase \notin Off)
    BY <1>a, <2>1, <2>2, WriteReturnsKeeps
  <2>5. workersKv' # NoRecord
    BY <2>1, <2>2, NewRecords
  <2>6. WireInv'
    BY <1>a, <2>1, <2>3, <2>4, <2>5, ComesFromTransitive, ShorterWire
  <2>7. rec.age >= silent /\ (~raced /\ ~lapsed => rec.hidden = asked)
    BY <1>a, <2>1, <2>3 DEF IsIn, WireInv
  <2>8. StoredInv'
    BY <1>a, <2>1, <2>4, <2>5, <2>7 DEF StoredInv
  <2> QED
    BY <2>6, <2>8
<1>8. CASE ServeOrphan
  <2> DEFINE rec == Head(wire).rec
  <2>1. /\ wire # <<>> /\ wire' = Tail(wire)
        /\ workersKv' = workersKv \/ (Head(wire).op = "put" /\ workersKv' = rec)
        /\ UNCHANGED <<worker, silent, http>>
    BY <1>8 DEF ServeOrphan, Stores
  <2>2. Tail(wire) \in Seq(RequestRecord) /\ rec \in Record
    BY <1>b, <1>c, <2>1, WireType
  <2>3. IsIn(wire, Head(wire)) /\ ComesFrom(Tail(wire), wire)
    BY <1>b, <2>1, TailComesFrom
  <2>4. workersKv' = NoRecord => workersKv = NoRecord
    BY <2>1, <2>2, NewRecords
  <2>5. WireInv'
    BY <1>a, <2>1, <2>3, <2>4, ShorterWire
  <2>6. rec.age >= silent
        /\ (~raced /\ ~lapsed /\ Head(wire).op = "put" => rec.hidden = asked)
    BY <1>a, <2>3 DEF IsIn, WireInv
  <2>7. StoredInv'
    BY <1>a, <2>1, <2>4, <2>6 DEF StoredInv
  <2> QED
    BY <2>5, <2>7
<1>9. CASE GiveUp
  <2>1. PICK i \in DOMAIN wire : GivesUp(i)
    BY <1>9 DEF GiveUp
  <2> DEFINE rest == [wire EXCEPT ![i].task = "nobody"]
             rec == wire[i].rec
  <2>2. UNCHANGED <<workersKv, silent, patch, asked, lapsed, patchesLeft>>
    BY <1>9 DEF GiveUp
  <2>3. wire[i] \in RequestRecord /\ rest \in Seq(RequestRecord) /\ ComesFrom(rest, wire)
    BY <1>b, WireType, MarkedFacts, MarkedComesFrom
  <2>4. rec \in Record /\ wire[i].task \in Tasks \cup {"nobody"}
    BY <2>3, SMT DEF RequestRecord
  <2>5. rec.age >= silent /\ (workersKv = NoRecord /\ ~lapsed => ~rec.hidden)
    BY <1>a DEF WireInv
  <2>6. CASE wire[i].op = "get"
    <3> DEFINE req == Request(wire[i].task, "put", rec)
    <3>1. /\ raced' = (raced \/ rec.hidden # workersKv.hidden)
          /\ wire' = Append(rest, req)
          /\ UNCHANGED worker
      BY <2>1, <2>6 DEF GivesUp
    <3>2. req \in RequestRecord /\ req.op = "put" /\ req.rec = rec
      BY <2>4, RequestType DEF Request
    <3> HIDE DEF req, rest
    <3>3. \A j \in DOMAIN wire' : wire'[j] = req \/ IsIn(wire, wire'[j])
      <4>1. \A j \in DOMAIN wire' : wire'[j] = req \/ IsIn(rest, wire'[j])
        BY <2>3, <3>1, <3>2, AppendComesFrom
      <4> QED
        BY <2>3, <4>1 DEF ComesFrom, IsIn
    <3>4. Fits(req)
      BY <1>a, <2>2, <2>5, <3>1, <3>2 DEF Fits, StoredInv
    <3>5. \A old : IsIn(wire, old) => Fits(old)
      BY <1>a, <2>2, <3>1 DEF Fits, WireInv, IsIn
    <3>6. WireInv'
      BY <3>3, <3>4, <3>5, WireFits
    <3>7. StoredInv'
      BY <1>a, <2>2, <3>1 DEF StoredInv
    <3> QED
      BY <3>6, <3>7
  <2>7. CASE wire[i].op # "get"
    <3>1. WriteReturns(wire[i].task, FALSE, rec, rest) /\ UNCHANGED raced
      BY <2>1, <2>7 DEF GivesUp
    <3> HIDE DEF rest
    <3>2. /\ ComesFrom(wire', rest)
          /\ registry' \in {registry, rec, NewRecord(FALSE)}
          /\ phase' \notin Off => phase \notin Off
      BY <1>a, <2>3, <3>1, WriteReturnsKeeps
    <3>3. WireInv'
      BY <1>a, <2>2, <2>3, <3>1, <3>2, ComesFromTransitive, ShorterWire
    <3>4. workersKv = NoRecord /\ ~lapsed => ~registry'.hidden
      BY <1>a, <2>5, <3>2 DEF StoredInv, NewRecord
    <3>5. StoredInv'
      BY <1>a, <2>2, <3>1, <3>2, <3>4 DEF StoredInv
    <3> QED
      BY <3>3, <3>5
  <2> QED
    BY <2>6, <2>7
<1>10. CASE PatchGet
  <2>1. PICK hidden \in BOOLEAN : patch' = [pc |-> "got", rec |-> Patched(workersKv, hidden)]
    BY <1>10 DEF PatchGet
  <2>2. UNCHANGED <<workersKv, worker, wire, silent, asked, raced, lapsed>>
        /\ workersKv # NoRecord
    BY <1>10 DEF PatchGet
  <2>3. Patched(workersKv, hidden) \in Record /\ Patched(workersKv, hidden).age = workersKv.age
    BY <1>b, <2>2, SMT DEF Patched, Record
  <2>4. patch'.rec \in Record /\ patch'.rec.age >= silent
    BY <1>a, <2>1, <2>2, <2>3 DEF StoredInv
  <2> QED
    BY <1>a, <2>2, <2>4 DEF WireInv, StoredInv
<1>11. CASE PatchPut
  <2>1. patch.pc = "got" /\ patch' = NoPatch /\ UNCHANGED <<worker, wire, silent>>
    BY <1>11 DEF PatchPut
  <2>2. patch.rec \in Record /\ patch.rec.age >= silent /\ patch'.pc # "got"
    BY <1>a, <2>1 DEF StoredInv, NoPatch
  <2>3. CASE UNCHANGED <<workersKv, asked, raced, lapsed>>
    BY <1>a, <2>1, <2>2, <2>3 DEF WireInv, StoredInv
  <2>4. CASE /\ workersKv' = patch.rec
             /\ asked' = patch.rec.hidden /\ lapsed' = FALSE
             /\ raced' = \E i \in DOMAIN wire : wire[i].op = "put"
    <3>1. workersKv' # NoRecord
      BY <2>2, <2>4, NewRecords
    <3> QED
      BY <1>a, <2>1, <2>2, <2>4, <3>1 DEF WireInv, StoredInv
  <2> QED
    BY <1>11, <2>3, <2>4 DEF PatchPut, Stores
<1>12. CASE Tick
  <2>1. /\ workersKv' = Aged(workersKv)
        /\ registry' = (IF phase \in Off THEN registry ELSE Aged(registry))
        /\ wire' = [i \in DOMAIN wire |-> [wire[i] EXCEPT !.rec = Aged(@)]]
        /\ patch' = [patch EXCEPT !.rec = Aged(@)]
        /\ silent' = (IF phase \in {"dead", "stopped"} THEN Older(silent) ELSE silent)
        /\ UNCHANGED <<phase, running, asked, raced, lapsed, patchesLeft>>
    BY <1>12 DEF Tick
  <2>2. \A rec \in Record : rec.age >= silent => Aged(rec).age >= silent'
    BY <1>b, <2>1, AgedFacts
  <2>3. \A rec \in Record : Aged(rec).hidden = rec.hidden
    <3>1. 0 \in Ages
      BY RegistryAssumption
    <3>2. \A rec \in Record : rec.age >= 0
      BY <1>c
    <3> QED
      BY <3>1, <3>2, AgedFacts
  <2>4. /\ Aged(NoRecord) = NoRecord
        /\ \A rec \in Record : Aged(rec) # NoRecord
    BY NewRecords DEF Aged
  <2>5. \A i \in DOMAIN wire' :
            /\ i \in DOMAIN wire /\ wire[i].rec \in Record
            /\ wire'[i].rec = Aged(wire[i].rec) /\ wire'[i].op = wire[i].op
    <3>1. DOMAIN wire' = DOMAIN wire
      BY <2>1
    <3>2. \A i \in DOMAIN wire : wire[i].rec \in Record
      BY <1>b, <1>c, WireType
    <3> QED
      BY <1>b, <2>1, <3>1, <3>2, AgedWire
  <2>6. WireInv'
    <3>1. \A i \in DOMAIN wire' : wire'[i].rec.age >= silent'
      BY <1>a, <2>2, <2>5 DEF WireInv
    <3>2. \A i \in DOMAIN wire' : wire'[i].rec.hidden = wire[i].rec.hidden
      BY <2>3, <2>5
    <3>3. workersKv' = NoRecord => workersKv = NoRecord
      BY <1>b, <2>1, <2>4
    <3>4. \A i \in DOMAIN wire' :
            /\ ~raced' /\ ~lapsed' /\ wire'[i].op = "put" => wire'[i].rec.hidden = asked'
            /\ workersKv' = NoRecord /\ ~lapsed' => ~wire'[i].rec.hidden
      <4>1. \A i \in DOMAIN wire :
              /\ ~raced /\ ~lapsed /\ wire[i].op = "put" => wire[i].rec.hidden = asked
              /\ workersKv = NoRecord /\ ~lapsed => ~wire[i].rec.hidden
        BY <1>a DEF WireInv
      <4>2. raced' = raced /\ asked' = asked /\ lapsed' = lapsed
        BY <2>1
      <4> QED
        BY <2>5, <3>2, <3>3, <4>1, <4>2
    <3> QED
      BY <3>1, <3>4 DEF WireInv
  <2>7. patch'.pc = patch.pc /\ patch'.rec = Aged(patch.rec)
    BY <1>a, <2>1, SMT DEF TypeOK
  <2>8. phase' \notin Off => silent' = 0
    BY <1>a, <2>1 DEF StoredInv, Off
  <2>9. workersKv' # NoRecord => workersKv'.age >= silent'
    BY <1>a, <1>b, <2>1, <2>2, <2>4 DEF StoredInv
  <2>10. patch'.pc = "got" => patch'.rec \in Record /\ patch'.rec.age >= silent'
    BY <1>a, <2>2, <2>7, NewRecords DEF StoredInv
  <2>11. workersKv'.hidden = workersKv.hidden
    BY <1>b, <2>1, <2>3, <2>4
  <2>12. workersKv' = NoRecord /\ ~lapsed' => ~registry'.hidden
    <3>1. registry'.hidden = registry.hidden
      BY <1>a, <2>1, <2>3 DEF TypeOK
    <3> QED
      BY <1>a, <1>b, <2>1, <2>4, <3>1 DEF StoredInv
  <2> QED
    BY <1>a, <2>1, <2>6, <2>8, <2>9, <2>10, <2>11, <2>12 DEF StoredInv
<1>13. CASE Expire
  <2>1. workersKv' = NoRecord /\ lapsed' = TRUE
    BY <1>a, <1>13, ExpiryLapses
  <2>2. UNCHANGED <<worker, wire, silent, patch>>
    BY <1>13 DEF Expire
  <2> QED
    BY <1>a, <2>1, <2>2 DEF WireInv, StoredInv
<1>14. CASE UNCHANGED vars
  BY <1>a, <1>14 DEF vars, WireInv, StoredInv
<1> QED
  BY <1>1, <1>2, <1>3, <1>4, <1>5, <1>6, <1>7, <1>8, <1>9, <1>10, <1>11, <1>12, <1>13, <1>14
     DEF Next

\* The invariant holds in every reachable state.
LEMMA RegistryInvariant == Spec => []RegistryInv
<1>1. Init /\ TypeOK /\ KeptInv => RegistryInv
  <2> SUFFICES ASSUME Init, TypeOK, KeptInv PROVE WireInv /\ StoredInv
    BY DEF RegistryInv
  <2>1. WireInv
    BY DEF Init, WireInv
  <2>2. workersKv = NoRecord /\ NoRecord.hidden = FALSE /\ NewRecord(FALSE).hidden = FALSE
        /\ NoPatch.pc = "idle"
    BY DEF Init, NoRecord, NewRecord, NoPatch
  <2>3. StoredInv
    BY <2>2, Zenon DEF Init, StoredInv, Off
  <2> QED
    BY <2>1, <2>3
<1>2. RegistryInv /\ TypeOK' /\ KeptInv' /\ [Next]_vars => RegistryInv'
  BY RegistryStep
<1> QED
  BY <1>1, <1>2, RegistryTypes, KeptInvariant, PTL DEF Spec

\* A worker whose process ended longer than the timeout ago is in no default
\* listing (`DeadIsNotActive` of the run).
THEOREM DeadWorkersAreNotListed == Spec => []DeadIsNotActive
<1>1. RegistryInv => DeadIsNotActive
  <2> SUFFICES ASSUME RegistryInv, phase \in Off, silent > Timeout, Listed(workersKv)
               PROVE  FALSE
    BY DEF DeadIsNotActive
  <2>1. workersKv \in Record \cup {NoRecord} /\ silent \in Ages
    BY DEF RegistryInv, TypeOK
  <2>2. workersKv # NoRecord
    BY DEF Listed, EffectiveState, NoRecord
  <2>3. workersKv.age >= silent /\ workersKv.age \in Ages
    BY <2>1, <2>2, SMT DEF RegistryInv, StoredInv, Record
  <2>4. workersKv.age > Timeout
    BY <2>1, <2>3, RegistryAssumption, SMT
  <2> QED
    BY <2>4 DEF Listed, EffectiveState
<1> QED
  BY <1>1, RegistryInvariant, PTL

\* The flag the last PATCH stored stays, unless the worker missed it, or the record
\* outlived its TTL with no worker there to renew it (`HideIsKept` of the run).
\* That the heartbeats of a worker that is up do renew it is `KeptInv`.
THEOREM HiddenFlagIsKept == Spec => []HideIsKept
<1>1. RegistryInv => HideIsKept
  BY DEF RegistryInv, StoredInv, HideIsKept
<1> QED
  BY <1>1, RegistryInvariant, PTL

-----------------------------------------------------------------------------
(***************************************************************************)
(* Without faults: the copy in memory, and the end of a closed worker      *)
(***************************************************************************)

\* Of two requests under way the first has its put served first: a get that is
\* served goes to the end of the wire as a put.
Before(one, two) ==
    \/ wire[one].op = "put" /\ wire[two].op = "get"
    \/ wire[one].op = wire[two].op /\ one < two

\* The state the main task last wanted to be recorded.
Intent ==
    IF phase = "closing" THEN "STOPPED_GRACEFUL" ELSE IF running THEN "RUNNING" ELSE "IDLE"

\* A task waits for one request at a time.
OneRequestEach ==
    \A i, j \in DOMAIN wire :
        wire[i].task = wire[j].task /\ wire[i].task # "nobody" => i = j

\* Nothing is under way before the start and after the end, and the first and
\* the last write are the main task's.
WireFollowsPhase ==
    /\ phase \in Off => wire = <<>>
    /\ phase \in Off \cup {"starting"} => ~running
    /\ phase = "starting" => \A i \in DOMAIN wire : wire[i].task = "main"
    /\ phase \in {"starting", "closing"} => Waiting("main")

\* The main task's request carries its intent, and a request that does not has
\* its put served before; so has any other one when the worker closes.
MainComesLast ==
    \A i \in DOMAIN wire : wire[i].task = "main" =>
        /\ wire[i].rec.state = Intent
        /\ \A j \in DOMAIN wire :
            j # i /\ (phase = "closing" \/ wire[j].rec.state # Intent) => Before(j, i)

\* A heartbeat that starts now, or a main task that is free, finds its intent
\* in memory.
MemoryFollows ==
    phase = "up" =>
        /\ ~Waiting("main") \/ (beat = "due" /\ ~Waiting("beat")) => registry.state = Intent
        /\ ~Waiting("main") => \A j \in DOMAIN wire : wire[j].rec.state = Intent

Orderly == OneRequestEach /\ WireFollowsPhase /\ MainComesLast /\ MemoryFollows

OrderlyInv == faultsLeft = MaxFaults => Orderly

\* A wire one request longer, and one request shorter.
LEMMA LongerFacts ==
    ASSUME NEW requests \in Seq(RequestRecord), NEW req
    PROVE  /\ Len(requests) \in Nat /\ DOMAIN requests = 1..Len(requests)
           /\ DOMAIN Append(requests, req) = 1..Len(requests) + 1
           /\ \A i \in DOMAIN requests : Append(requests, req)[i] = requests[i]
           /\ Append(requests, req)[Len(requests) + 1] = req
BY SMT

LEMMA ShorterFacts ==
    ASSUME NEW requests \in Seq(RequestRecord), requests # <<>>
    PROVE  /\ Len(requests) \in Nat \ {0} /\ DOMAIN requests = 1..Len(requests)
           /\ Len(Tail(requests)) = Len(requests) - 1
           /\ DOMAIN Tail(requests) = 1..Len(requests) - 1
           /\ \A i \in DOMAIN Tail(requests) : Tail(requests)[i] = requests[i + 1]
           /\ Head(requests) = requests[1]
BY SMT

\* What is on a wire gets or puts.
LEMMA WireOps ==
    ASSUME NEW requests \in Seq(RequestRecord)
    PROVE  \A i \in DOMAIN requests : requests[i].op \in {"get", "put"}
<1>1. \A i \in DOMAIN requests : requests[i] \in RequestRecord
  BY WireType
<1>2. \A req \in RequestRecord : req.op \in {"get", "put"}
  BY SMT DEF RequestRecord
<1> QED
  BY <1>1, <1>2

\* Neither the flag nor the age says anything about the state.
LEMMA StateKept ==
    /\ \A rec \in Record : Aged(rec).state = rec.state
    /\ TypeOK => \A rec \in Record : PreservedHidden(rec).state = rec.state
<1>1. ASSUME NEW rec \in Record PROVE Aged(rec).state = rec.state
  BY NewRecords, SMT DEF Aged, Record
<1>2. ASSUME TypeOK, NEW rec \in Record PROVE PreservedHidden(rec).state = rec.state
  BY SMT DEF PreservedHidden, Record
<1> QED
  BY <1>1, <1>2

\* What _set_worker_registry does to the memory and to the wire.
LEMMA SetRegistryFacts ==
    ASSUME TypeOK, NEW task \in Tasks, NEW state \in States, NEW touch \in BOOLEAN,
           SetRegistry(task, state, touch)
    PROVE  /\ registry'.state = state
           /\ wire' = Append(wire, Request(task, "get", registry'))
<1> DEFINE age == IF touch THEN 0 ELSE registry.age
<1>1. registry \in Record
  BY DEF TypeOK
<1>2. registry' = [registry EXCEPT !.state = state, !.age = age]
      /\ wire' = Append(wire, Request(task, "get", registry'))
  BY DEF SetRegistry, MemoryNow, Write
<1> HIDE DEF age
<1>3. registry'.state = state
  BY <1>1, <1>2, SMT DEF Record
<1> QED
  BY <1>2, <1>3

\* The main task starts a write: its request is the last on the wire.
LEMMA MainWrites ==
    ASSUME wire \in Seq(RequestRecord), Orderly, phase = "up", ~Waiting("main"), phase' = "up",
           registry'.state = Intent', wire' = Append(wire, Request("main", "get", registry'))
    PROVE  Orderly'
<1>0. PICK last : last = Len(wire) + 1
  OBVIOUS
<1>1. /\ Len(wire) \in Nat /\ last = Len(wire) + 1
      /\ DOMAIN wire = 1..Len(wire) /\ DOMAIN wire' = 1..last
      /\ \A i \in DOMAIN wire : wire'[i] = wire[i] /\ wire[i].task # "main"
      /\ wire'[last].task = "main" /\ wire'[last].op = "get" /\ wire'[last].rec = registry'
  BY <1>0, LongerFacts DEF Waiting, Request
<1>2. \A i \in DOMAIN wire : wire[i].op \in {"get", "put"}
  BY WireOps
<1>3. OneRequestEach'
  BY <1>1, SMT DEF Orderly, OneRequestEach
<1>4. WireFollowsPhase' /\ Waiting("main")'
  <2>1. last \in DOMAIN wire'
    BY <1>1, SMT
  <2> QED
    BY <1>1, <2>1 DEF WireFollowsPhase, Off, Waiting
<1>5. ASSUME NEW j \in DOMAIN wire', j # last
      PROVE  Before(j, last)'
  <2>1. j \in DOMAIN wire /\ j < last
    BY <1>1, <1>5, SMT
  <2>2. wire'[j].op \in {"get", "put"}
    BY <1>1, <1>2, <2>1
  <2> QED
    BY <1>1, <2>1, <2>2 DEF Before
<1>6. \A i \in DOMAIN wire' : wire'[i].task = "main" => i = last
  BY <1>1, SMT
<1>7. MainComesLast'
  <2> SUFFICES ASSUME NEW i \in DOMAIN wire', wire'[i].task = "main"
               PROVE  /\ wire'[i].rec.state = Intent'
                      /\ \A j \in DOMAIN wire' : j # i => Before(j, i)'
    BY DEF MainComesLast
  <2>1. i = last
    BY <1>6
  <2> QED
    BY <1>1, <1>5, <2>1
<1>8. MemoryFollows'
  BY <1>4 DEF MemoryFollows
<1> QED
  BY <1>3, <1>4, <1>7, <1>8 DEF Orderly

\* The heartbeat task does, with the main task's intent.
LEMMA HeartbeatWrites ==
    ASSUME wire \in Seq(RequestRecord), Orderly, phase = "up", ~Waiting("beat"),
           UNCHANGED <<phase, running>>,
           registry'.state = Intent, wire' = Append(wire, Request("beat", "get", registry'))
    PROVE  Orderly'
<1>0. PICK last : last = Len(wire) + 1
  OBVIOUS
<1>1. /\ Len(wire) \in Nat /\ last = Len(wire) + 1
      /\ DOMAIN wire = 1..Len(wire) /\ DOMAIN wire' = 1..last
      /\ \A i \in DOMAIN wire : wire'[i] = wire[i] /\ wire[i].task # "beat"
      /\ wire'[last].task = "beat" /\ wire'[last].op = "get" /\ wire'[last].rec = registry'
  BY <1>0, LongerFacts DEF Waiting, Request
<1>2. Intent' = Intent
  BY DEF Intent
<1>3. OneRequestEach'
  BY <1>1, SMT DEF Orderly, OneRequestEach
<1>4. WireFollowsPhase'
  BY DEF WireFollowsPhase, Off
<1>5. \A i \in DOMAIN wire' : wire'[i].task = "main" => i \in DOMAIN wire
  BY <1>1, SMT
<1>6. \A j \in DOMAIN wire' : j = last \/ j \in DOMAIN wire
  BY <1>1, SMT
<1>7. MainComesLast'
  <2> SUFFICES ASSUME NEW i \in DOMAIN wire', wire'[i].task = "main"
               PROVE  /\ wire'[i].rec.state = Intent'
                      /\ \A j \in DOMAIN wire' :
                            j # i /\ wire'[j].rec.state # Intent' => Before(j, i)'
    BY DEF MainComesLast
  <2>1. i \in DOMAIN wire /\ wire'[i] = wire[i]
    BY <1>1, <1>5
  <2>2. wire[i].rec.state = Intent
        /\ \A j \in DOMAIN wire : j # i /\ wire[j].rec.state # Intent => Before(j, i)
    BY <2>1 DEF Orderly, MainComesLast
  <2>3. ASSUME NEW j \in DOMAIN wire', j # i, wire'[j].rec.state # Intent'
        PROVE  Before(j, i)'
    <3>1. j \in DOMAIN wire /\ wire'[j] = wire[j]
      BY <1>1, <1>2, <1>6, <2>3
    <3> QED
      BY <1>2, <2>1, <2>2, <2>3, <3>1 DEF Before
  <2> QED
    BY <1>2, <2>1, <2>2, <2>3
<1>8. MemoryFollows'
  <2>1. Waiting("beat")'
    <3>1. last \in DOMAIN wire'
      BY <1>1, SMT
    <3> QED
      BY <1>1, <3>1 DEF Waiting
  <2>2. ASSUME ~Waiting("main")', NEW j \in DOMAIN wire'
        PROVE  wire'[j].rec.state = Intent'
    <3>1. ~Waiting("main")
      <4>1. \A i \in DOMAIN wire : i \in DOMAIN wire'
        BY <1>1, SMT
      <4> QED
        BY <1>1, <2>2, <4>1 DEF Waiting
    <3> QED
      BY <1>1, <1>2, <1>6, <2>2, <3>1 DEF Orderly, MemoryFollows
  <2> QED
    BY <1>2, <2>1, <2>2 DEF MemoryFollows
<1> QED
  BY <1>3, <1>4, <1>7, <1>8 DEF Orderly

\* The close is the last write, behind everything that is under way.
LEMMA CloseWrites ==
    ASSUME wire \in Seq(RequestRecord), Orderly, phase' = "closing",
           registry'.state = "STOPPED_GRACEFUL",
           wire' = Append(Orphaned(wire, {"main"}), Request("main", "get", registry'))
    PROVE  Orderly'
<1> DEFINE rest == Orphaned(wire, {"main"})
<1>0. PICK last : last = Len(wire) + 1
  OBVIOUS
<1>1. rest \in Seq(RequestRecord) /\ Len(rest) = Len(wire) /\ DOMAIN rest = DOMAIN wire
  BY OrphanedFacts DEF Orphaned
<1>2. \A i \in DOMAIN wire :
        /\ rest[i].task = "nobody" \/ (rest[i] = wire[i] /\ wire[i].task # "main")
        /\ rest[i].op \in {"get", "put"}
  <2>1. \A i \in DOMAIN wire : rest[i].op \in {"get", "put"}
    BY <1>1, WireOps
  <2>2. \A i \in DOMAIN wire :
            rest[i].task = "nobody" \/ (rest[i] = wire[i] /\ wire[i].task # "main")
    <3>1. \A i \in DOMAIN wire : wire[i] \in RequestRecord
      BY WireType
    <3> QED
      BY <3>1, SMT DEF Orphaned, RequestRecord
  <2> QED
    BY <2>1, <2>2
<1> HIDE DEF rest
<1>3. /\ Len(wire) \in Nat /\ last = Len(wire) + 1
      /\ DOMAIN wire = 1..Len(wire) /\ DOMAIN wire' = 1..last
      /\ \A i \in DOMAIN wire : wire'[i] = rest[i]
      /\ wire'[last].task = "main" /\ wire'[last].op = "get" /\ wire'[last].rec = registry'
  BY <1>0, <1>1, LongerFacts DEF Request, rest
<1>4. OneRequestEach'
  BY <1>2, <1>3, SMT DEF Orderly, OneRequestEach
<1>5. WireFollowsPhase'
  <2>1. last \in DOMAIN wire'
    BY <1>3, SMT
  <2> QED
    BY <1>3, <2>1 DEF WireFollowsPhase, Off, Waiting
<1>6. \A i \in DOMAIN wire' : wire'[i].task = "main" => i = last
  BY <1>2, <1>3, SMT
<1>7. MainComesLast'
  <2> SUFFICES ASSUME NEW i \in DOMAIN wire', wire'[i].task = "main"
               PROVE  /\ wire'[i].rec.state = Intent'
                      /\ \A j \in DOMAIN wire' : j # i => Before(j, i)'
    BY DEF MainComesLast
  <2>1. i = last
    BY <1>6
  <2>2. ASSUME NEW j \in DOMAIN wire', j # last
        PROVE  Before(j, i)'
    <3>1. j \in DOMAIN wire /\ j < last
      BY <1>3, <2>2, SMT
    <3>2. wire'[j].op \in {"get", "put"}
      BY <1>2, <1>3, <3>1
    <3> QED
      BY <1>3, <2>1, <3>1, <3>2 DEF Before
  <2> QED
    BY <1>3, <2>1, <2>2 DEF Intent
<1>8. MemoryFollows'
  BY DEF MemoryFollows
<1> QED
  BY <1>4, <1>5, <1>7, <1>8 DEF Orderly

\* The order of the puts stays when requests only move or leave.
LEMMA Rearranged ==
    ASSUME OneRequestEach, MainComesLast,
           NEW old \in [DOMAIN wire' -> DOMAIN wire],
           \A i, j \in DOMAIN wire' : old[i] = old[j] => i = j,
           \A j \in DOMAIN wire' :
                wire'[j].task = wire[old[j]].task /\ wire'[j].rec.state = wire[old[j]].rec.state,
           \A i, j \in DOMAIN wire' : j # i /\ Before(old[j], old[i]) => Before(j, i)',
           UNCHANGED <<phase, running>>
    PROVE  OneRequestEach' /\ MainComesLast'
<1>1. Intent' = Intent
  BY DEF Intent
<1>2. \A j \in DOMAIN wire' : old[j] \in DOMAIN wire
  OBVIOUS
<1>3. OneRequestEach'
  BY <1>2 DEF OneRequestEach
<1>4. MainComesLast'
  <2> SUFFICES ASSUME NEW i \in DOMAIN wire', wire'[i].task = "main"
               PROVE  /\ wire'[i].rec.state = Intent'
                      /\ \A j \in DOMAIN wire' :
                            j # i /\ (phase' = "closing" \/ wire'[j].rec.state # Intent')
                                => Before(j, i)'
    BY DEF MainComesLast
  <2>1. /\ wire[old[i]].rec.state = Intent
        /\ \A k \in DOMAIN wire :
            k # old[i] /\ (phase = "closing" \/ wire[k].rec.state # Intent) => Before(k, old[i])
    BY <1>2 DEF MainComesLast
  <2>2. ASSUME NEW j \in DOMAIN wire', j # i,
               phase' = "closing" \/ wire'[j].rec.state # Intent'
        PROVE  Before(j, i)'
    <3>1. old[j] # old[i] /\ (phase = "closing" \/ wire[old[j]].rec.state # Intent)
      BY <1>1, <2>2
    <3>2. Before(old[j], old[i])
      BY <1>2, <2>1, <3>1
    <3> QED
      BY <2>2, <3>2
  <2> QED
    BY <1>1, <2>1, <2>2
<1> QED
  BY <1>3, <1>4

\* The oldest request leaves the wire.
LEMMA HeadLeaves ==
    ASSUME wire \in Seq(RequestRecord), wire # <<>>, wire' = Tail(wire),
           OneRequestEach, MainComesLast, UNCHANGED <<phase, running>>
    PROVE  OneRequestEach' /\ MainComesLast'
<1> DEFINE old == [j \in DOMAIN wire' |-> j + 1]
<1>1. /\ Len(wire) \in Nat \ {0} /\ DOMAIN wire = 1..Len(wire)
      /\ DOMAIN wire' = 1..Len(wire) - 1
      /\ \A j \in DOMAIN wire' : wire'[j] = wire[j + 1]
  BY ShorterFacts
<1>2. old \in [DOMAIN wire' -> DOMAIN wire] /\ \A j \in DOMAIN wire' : old[j] = j + 1
  BY <1>1, SMT
<1>3. \A i, j \in DOMAIN wire' : old[i] = old[j] => i = j
  BY <1>1, <1>2, SMT
<1>4. \A j \in DOMAIN wire' :
        wire'[j].task = wire[old[j]].task /\ wire'[j].rec.state = wire[old[j]].rec.state
  BY <1>1, <1>2
<1>5. \A i, j \in DOMAIN wire' : old[j] < old[i] => j < i
  BY <1>1, <1>2, SMT
<1> HIDE DEF old
<1>6. \A i, j \in DOMAIN wire' : j # i /\ Before(old[j], old[i]) => Before(j, i)'
  <2>1. \A j \in DOMAIN wire' : wire'[j] = wire[old[j]]
    BY <1>1, <1>2
  <2> QED
    BY <1>5, <2>1 DEF Before
<1> QED
  BY <1>2, <1>3, <1>4, <1>6, Rearranged

\* The oldest request is a get: it goes to the end as a put.
LEMMA GetServed ==
    ASSUME TypeOK, Orderly, ServeGet
    PROVE  Orderly'
<1>a. wire \in Seq(RequestRecord) /\ wire # <<>> /\ UNCHANGED <<phase, running, registry, beat>>
  BY DEF TypeOK, ServeGet, worker
<1> DEFINE rec == PreservedHidden(wire[1].rec)
           old == [j \in DOMAIN wire' |-> IF j = Len(wire) THEN 1 ELSE j + 1]
<1>1. /\ Len(wire) \in Nat \ {0} /\ DOMAIN wire = 1..Len(wire) /\ Head(wire) = wire[1]
      /\ Len(Tail(wire)) = Len(wire) - 1 /\ Tail(wire) \in Seq(RequestRecord)
      /\ DOMAIN Tail(wire) = 1..Len(wire) - 1
      /\ \A i \in DOMAIN Tail(wire) : Tail(wire)[i] = wire[i + 1]
  BY <1>a, ShorterFacts, WireType
<1>2. wire[1].op = "get" /\ wire' = Append(Tail(wire), Request(wire[1].task, "put", rec))
  BY <1>1 DEF ServeGet
<1>3. rec.state = wire[1].rec.state
  <2>1. wire[1] \in RequestRecord
    BY <1>a, <1>1, WireType
  <2>2. wire[1].rec \in Record
    BY <2>1, SMT DEF RequestRecord
  <2> QED
    BY <2>2, StateKept
<1> HIDE DEF rec
<1>4. /\ Len(wire) - 1 + 1 = Len(wire)
      /\ DOMAIN wire' = 1..Len(Tail(wire)) + 1
      /\ \A i \in DOMAIN Tail(wire) : wire'[i] = Tail(wire)[i]
      /\ wire'[Len(Tail(wire)) + 1] = Request(wire[1].task, "put", rec)
  BY <1>1, <1>2, LongerFacts, SMT
<1>5. /\ DOMAIN wire' = 1..Len(wire)
      /\ wire'[Len(wire)].task = wire[1].task /\ wire'[Len(wire)].op = "put"
      /\ wire'[Len(wire)].rec.state = wire[1].rec.state
  BY <1>1, <1>3, <1>4 DEF Request
<1>6. \A j \in DOMAIN wire' : j # Len(wire) => wire'[j] = wire[j + 1]
  <2>1. \A j \in DOMAIN wire' : j # Len(wire) => j \in DOMAIN Tail(wire)
    BY <1>1, <1>5, SMT
  <2> QED
    BY <1>1, <1>4, <2>1
<1>7. /\ old \in [DOMAIN wire' -> DOMAIN wire]
      /\ \A j \in DOMAIN wire' : old[j] = IF j = Len(wire) THEN 1 ELSE j + 1
  BY <1>1, <1>5, SMT
<1>8. \A i, j \in DOMAIN wire' : old[i] = old[j] => i = j
  BY <1>1, <1>5, <1>7, SMT
<1> HIDE DEF old
<1>9. \A j \in DOMAIN wire' :
        wire'[j].task = wire[old[j]].task /\ wire'[j].rec.state = wire[old[j]].rec.state
  BY <1>5, <1>6, <1>7
<1>10. ASSUME NEW i \in DOMAIN wire', NEW j \in DOMAIN wire', j # i, Before(old[j], old[i])
       PROVE  Before(j, i)'
  <2>1. \A k \in DOMAIN wire' : wire[old[k]].op \in {"get", "put"} /\ old[k] \in Int /\ old[k] >= 1
                                  /\ k \in Int /\ k <= Len(wire)
    BY <1>a, <1>1, <1>5, <1>7, WireOps, SMT
  <2>2. CASE j = Len(wire)
    <3>1. wire[old[i]].op = "get" /\ wire'[i].op = wire[old[i]].op
      BY <1>2, <1>6, <1>7, <1>10, <2>2 DEF Before
    <3> QED
      BY <1>5, <2>2, <3>1 DEF Before
  <2>3. CASE i = Len(wire)
    <3>1. old[i] = 1
      BY <1>7, <2>3
    <3>2. ~(old[j] < 1)
      BY <2>1, SMT
    <3>3. wire[old[j]].op = "put" /\ wire'[j].op = wire[old[j]].op
      BY <1>6, <1>7, <1>10, <2>3, <3>1, <3>2 DEF Before
    <3>4. j < i
      BY <1>10, <2>1, <2>3, SMT
    <3> QED
      BY <1>5, <2>3, <3>3, <3>4 DEF Before
  <2>4. CASE j # Len(wire) /\ i # Len(wire)
    <3>1. wire'[j] = wire[old[j]] /\ wire'[i] = wire[old[i]]
      BY <1>6, <1>7, <2>4
    <3>2. old[j] < old[i] => j < i
      BY <1>7, <2>1, <2>4, SMT
    <3> QED
      BY <1>10, <3>1, <3>2 DEF Before
  <2> QED
    BY <2>2, <2>3, <2>4
<1>11. OneRequestEach' /\ MainComesLast'
  <2>1. \A i, j \in DOMAIN wire' : j # i /\ Before(old[j], old[i]) => Before(j, i)'
    BY <1>10
  <2> QED
    BY <1>a, <1>7, <1>8, <1>9, <2>1, Rearranged DEF Orderly
<1>12. \A k \in DOMAIN wire : \E j \in DOMAIN wire' : old[j] = k
  <2> SUFFICES ASSUME NEW k \in DOMAIN wire PROVE \E j \in DOMAIN wire' : old[j] = k
    OBVIOUS
  <2>1. k = 1 => Len(wire) \in DOMAIN wire' /\ old[Len(wire)] = k
    BY <1>1, <1>5, <1>7, SMT
  <2>2. k # 1 => k - 1 \in DOMAIN wire' /\ old[k - 1] = k
    BY <1>1, <1>5, <1>7, SMT
  <2> QED
    BY <2>1, <2>2
<1>13. \A task : Waiting(task)' <=> Waiting(task)
  BY <1>7, <1>9, <1>12 DEF Waiting
<1>14. WireFollowsPhase'
  <2>1. phase \notin Off
    BY <1>a DEF Orderly, WireFollowsPhase
  <2> QED
    BY <1>a, <1>7, <1>9, <1>13, <2>1 DEF Orderly, WireFollowsPhase
<1>15. MemoryFollows'
  BY <1>a, <1>7, <1>9, <1>13 DEF Orderly, MemoryFollows, Intent
<1> QED
  BY <1>11, <1>14, <1>15 DEF Orderly

\* An empty wire is in order.
LEMMA EmptyWire ==
    ASSUME wire' = <<>>, phase' \in Off \cup {"up"},
           phase' \in Off => ~running', phase' = "up" => registry'.state = Intent'
    PROVE  Orderly'
<1>1. DOMAIN wire' = {}
  OBVIOUS
<1>2. OneRequestEach' /\ MainComesLast'
  BY <1>1 DEF OneRequestEach, MainComesLast
<1>3. WireFollowsPhase' /\ MemoryFollows'
  BY <1>1 DEF WireFollowsPhase, MemoryFollows, Off
<1> QED
  BY <1>2, <1>3 DEF Orderly

\* The oldest request is a put: its task goes on.
LEMMA PutServed ==
    ASSUME TypeOK, Orderly, ServePut
    PROVE  Orderly'
<1> DEFINE rec == wire[1].rec
<1>a. wire \in Seq(RequestRecord) /\ wire # <<>>
  BY DEF TypeOK, ServePut
<1>1. /\ Len(wire) \in Nat \ {0} /\ DOMAIN wire = 1..Len(wire) /\ Head(wire) = wire[1]
      /\ Len(Tail(wire)) = Len(wire) - 1 /\ Tail(wire) \in Seq(RequestRecord)
      /\ DOMAIN Tail(wire) = 1..Len(wire) - 1
      /\ \A i \in DOMAIN Tail(wire) : Tail(wire)[i] = wire[i + 1]
  BY <1>a, ShorterFacts, WireType
<1>b. 1 \in DOMAIN wire /\ wire[1].op = "put" /\ wire[1].task # "nobody"
  BY <1>1, SMT DEF ServePut
<1>2. WriteReturns(wire[1].task, TRUE, rec, Tail(wire))
  BY <1>1 DEF ServePut
<1>3. \A j \in DOMAIN wire : ~Before(j, 1)
  BY <1>1, <1>b, SMT DEF Before
<1>4. Len(wire) = 1 => Tail(wire) = <<>>
  BY <1>1, SMT
<1>c. phase \notin Off
  BY <1>a DEF Orderly, WireFollowsPhase
<1>5. CASE wire[1].task = "main" /\ phase = "starting"
  <2>1. \A j \in DOMAIN wire : wire[j].task = "main"
    BY <1>5 DEF Orderly, WireFollowsPhase
  <2>2. \A j \in DOMAIN wire : j = 1
    BY <1>b, <2>1 DEF Orderly, OneRequestEach
  <2>3. Len(wire) = 1
    BY <1>1, <2>2, SMT
  <2>4. phase' = "up" /\ registry' = rec /\ wire' = <<>> /\ running' = running
    BY <1>2, <1>4, <1>5, <2>3 DEF WriteReturns
  <2>5. rec.state = Intent
    BY <1>5, <1>b DEF Orderly, MainComesLast
  <2> QED
    BY <1>5, <2>4, <2>5, EmptyWire DEF Intent, Off
<1>6. CASE wire[1].task = "main" /\ phase = "closing"
  <2>1. \A j \in DOMAIN wire : j = 1
    BY <1>3, <1>6, <1>b DEF Orderly, MainComesLast
  <2>2. Len(wire) = 1
    BY <1>1, <2>1, SMT
  <2>3. Ends("stopped", <<>>)
    BY <1>2, <1>4, <1>6, <2>2 DEF WriteReturns
  <2>4. phase' = "stopped" /\ running' = FALSE /\ wire' = Orphaned(<<>>, Tasks)
    BY <2>3 DEF Ends
  <2>5. Orphaned(<<>>, Tasks) = <<>>
    <3>1. <<>> \in Seq(RequestRecord)
      BY WireType, <1>a
    <3>2. Orphaned(<<>>, Tasks) \in Seq(RequestRecord) /\ Len(Orphaned(<<>>, Tasks)) = 0
      BY <3>1, OrphanedFacts
    <3> QED
      BY <3>2, SMT
  <2> QED
    BY <2>4, <2>5, EmptyWire DEF Off
<1>7. CASE ~(wire[1].task = "main" /\ phase \in {"starting", "closing"})
  <2>1. /\ registry' = rec /\ wire' = Tail(wire) /\ UNCHANGED <<phase, running>>
        /\ beat' = (IF wire[1].task = "beat" THEN "asleep" ELSE beat)
    BY <1>2, <1>7 DEF WriteReturns, AfterBeat
  <2>2. OneRequestEach' /\ MainComesLast'
    BY <1>a, <2>1, HeadLeaves DEF Orderly
  <2>3. phase # "starting" /\ Intent' = Intent
    <3>1. phase = "starting" => wire[1].task = "main"
      BY <1>b DEF Orderly, WireFollowsPhase
    <3> QED
      BY <1>7, <2>1, <3>1 DEF Intent
  <2>4. \A j \in DOMAIN wire' : j + 1 \in DOMAIN wire /\ j + 1 # 1 /\ wire'[j] = wire[j + 1]
    BY <1>1, <2>1, SMT
  <2>5. \A i \in DOMAIN wire : i # 1 => \E j \in DOMAIN wire' : i = j + 1
    <3> SUFFICES ASSUME NEW i \in DOMAIN wire, i # 1
                 PROVE  i - 1 \in DOMAIN wire' /\ i = (i - 1) + 1
      OBVIOUS
    <3> QED
      BY <1>1, <2>1, SMT
  <2>6. \A task : task # wire[1].task => (Waiting(task)' <=> Waiting(task))
    BY <2>4, <2>5 DEF Waiting
  <2>7. WireFollowsPhase'
    <3>1. phase = "closing" => wire[1].task # "main"
      BY <1>7
    <3> QED
      BY <1>c, <2>1, <2>3, <2>6, <3>1 DEF Orderly, WireFollowsPhase
  <2>8. CASE wire[1].task = "main"
    <3>1. rec.state = Intent /\ \A j \in DOMAIN wire : j # 1 => wire[j].rec.state = Intent
      BY <1>3, <1>b, <2>8 DEF Orderly, MainComesLast
    <3>2. MemoryFollows'
      BY <2>1, <2>3, <2>4, <3>1 DEF MemoryFollows
    <3> QED
      BY <2>2, <2>7, <3>2 DEF Orderly
  <2>9. CASE wire[1].task # "main"
    <3>1. wire[1].task = "beat"
      <4>1. wire[1] \in RequestRecord
        BY <1>a, <1>b, WireType
      <4>2. wire[1].task \in {"main", "beat", "nobody"}
        BY <4>1, SMT DEF RequestRecord, Tasks
      <4> QED
        BY <1>b, <2>9, <4>2
    <3>2. beat' = "asleep" /\ (Waiting("main")' <=> Waiting("main"))
      BY <2>1, <2>6, <3>1
    <3>3. MemoryFollows'
      BY <1>b, <2>1, <2>3, <2>4, <3>2 DEF Orderly, MemoryFollows
    <3> QED
      BY <2>2, <2>7, <3>3 DEF Orderly
  <2> QED
    BY <2>8, <2>9
<1> QED
  BY <1>5, <1>6, <1>7

\* The oldest request is nobody's.
LEMMA OrphanServed ==
    ASSUME TypeOK, Orderly, ServeOrphan
    PROVE  Orderly'
<1>a. wire \in Seq(RequestRecord) /\ wire # <<>> /\ UNCHANGED <<phase, running, registry, beat>>
      /\ wire' = Tail(wire)
  BY DEF TypeOK, ServeOrphan, worker
<1>1. /\ Len(wire) \in Nat \ {0} /\ DOMAIN wire = 1..Len(wire) /\ Head(wire) = wire[1]
      /\ DOMAIN wire' = 1..Len(wire) - 1
      /\ \A j \in DOMAIN wire' : wire'[j] = wire[j + 1]
  BY <1>a, ShorterFacts
<1>2. wire[1].task = "nobody"
  BY <1>1 DEF ServeOrphan
<1>3. OneRequestEach' /\ MainComesLast'
  BY <1>a, HeadLeaves DEF Orderly
<1>4. \A j \in DOMAIN wire' : j + 1 \in DOMAIN wire /\ wire'[j] = wire[j + 1]
  BY <1>1, SMT
<1>5. \A i \in DOMAIN wire : i # 1 => \E j \in DOMAIN wire' : i = j + 1
  <2> SUFFICES ASSUME NEW i \in DOMAIN wire, i # 1
               PROVE  i - 1 \in DOMAIN wire' /\ i = (i - 1) + 1
    OBVIOUS
  <2> QED
    BY <1>1, SMT
<1>6. \A task \in {"main", "beat"} : Waiting(task)' <=> Waiting(task)
  BY <1>2, <1>4, <1>5 DEF Waiting
<1>7. WireFollowsPhase' /\ MemoryFollows'
  <2>1. phase \notin Off /\ Intent' = Intent
    BY <1>a DEF Orderly, WireFollowsPhase, Intent
  <2> QED
    BY <1>a, <1>4, <1>6, <2>1 DEF Orderly, WireFollowsPhase, MemoryFollows
<1> QED
  BY <1>3, <1>7 DEF Orderly

\* Every step without a fault keeps the order.
LEMMA OrderlyStep ==
    ASSUME TypeOK, OrderlyInv, [Next]_vars
    PROVE  OrderlyInv'
<1> SUFFICES ASSUME faultsLeft' = MaxFaults
             PROVE  Orderly'
  BY DEF OrderlyInv
<1> USE DEF bucket, worker, http
<1>a. wire \in Seq(RequestRecord) /\ registry \in Record /\ registry.state \in States
  BY SMT DEF TypeOK, Record
<1>b. faultsLeft = MaxFaults => Orderly
  BY DEF OrderlyInv
<1>1. CASE StartWorker
  <2>1. PICK ok \in BOOLEAN :
          /\ Charge(ok)
          /\ registry' = NewRecord(ok /\ workersKv.hidden)
          /\ wire' = <<Write("main", registry')>>
    BY <1>1 DEF StartWorker
  <2>2. Orderly
    BY <1>b, <2>1, NotCharged
  <2>3. phase' = "starting" /\ running' = running /\ ~running
    BY <1>1, <2>2 DEF StartWorker, Orderly, WireFollowsPhase
  <2>4. DOMAIN wire' = {1} /\ wire'[1].task = "main" /\ wire'[1].rec = registry'
    BY <2>1 DEF Write, Request
  <2>5. registry'.state = Intent'
    BY <2>1, <2>3 DEF NewRecord, Intent
  <2> QED
    BY <2>3, <2>4, <2>5
       DEF Orderly, OneRequestEach, WireFollowsPhase, MainComesLast, MemoryFollows, Waiting, Off
<1>2. CASE StartJob \/ FinishJob \/ WriteWheelStatus
  <2>1. /\ MainIsFree /\ UNCHANGED <<phase, faultsLeft>>
        /\ \/ SetRegistry("main", "RUNNING", TRUE) /\ running' = TRUE
           \/ SetRegistry("main", "IDLE", TRUE) /\ running' = FALSE
           \/ SetRegistry("main", registry.state, FALSE) /\ running' = running
    BY <1>2 DEF StartJob, FinishJob, WriteWheelStatus
  <2>2. Orderly /\ phase = "up" /\ ~Waiting("main")
    BY <1>b, <2>1 DEF MainIsFree
  <2>3. registry.state = Intent
    BY <2>2 DEF Orderly, MemoryFollows
  <2>4. /\ registry'.state = Intent'
        /\ wire' = Append(wire, Request("main", "get", registry'))
    <3>1. "main" \in Tasks /\ "RUNNING" \in States /\ "IDLE" \in States
      BY DEF Tasks, States
    <3>2. PICK state \in States, touch \in BOOLEAN :
            SetRegistry("main", state, touch) /\ state = Intent'
      <4>1. CASE SetRegistry("main", "RUNNING", TRUE) /\ running' = TRUE
        <5>1. Intent' = "RUNNING"
          BY <2>1, <2>2, <4>1 DEF Intent
        <5> QED
          BY <3>1, <4>1, <5>1
      <4>2. CASE SetRegistry("main", "IDLE", TRUE) /\ running' = FALSE
        <5>1. Intent' = "IDLE"
          BY <2>1, <2>2, <4>2 DEF Intent
        <5> QED
          BY <3>1, <4>2, <5>1
      <4>3. CASE SetRegistry("main", registry.state, FALSE) /\ running' = running
        <5>1. Intent' = Intent
          BY <2>1, <4>3 DEF Intent
        <5> QED
          BY <1>a, <2>3, <4>3, <5>1
      <4> QED
        BY <2>1, <4>1, <4>2, <4>3
    <3> QED
      BY <3>1, <3>2, SetRegistryFacts
  <2> QED
    BY <1>a, <2>1, <2>2, <2>4, MainWrites
<1>3. CASE Beat
  <2>1. /\ phase = "up" /\ beat = "due" /\ ~Waiting("beat")
        /\ SetRegistry("beat", registry.state, TRUE)
        /\ UNCHANGED <<phase, running, faultsLeft>>
    BY <1>3 DEF Beat, BeatIsDue
  <2>2. Orderly
    BY <1>b, <2>1
  <2>3. registry.state = Intent
    BY <2>1, <2>2 DEF Orderly, MemoryFollows
  <2>4. /\ registry'.state = Intent
        /\ wire' = Append(wire, Request("beat", "get", registry'))
    BY <1>a, <2>1, <2>3, SetRegistryFacts DEF Tasks
  <2> QED
    BY <1>a, <2>1, <2>2, <2>4, HeartbeatWrites
<1>4. CASE Close
  <2>1. /\ phase' = "closing" /\ faultsLeft' = faultsLeft
        /\ registry' = [registry EXCEPT !.state = "STOPPED_GRACEFUL", !.age = 0]
        /\ wire' = Append(Orphaned(wire, {"main"}), Request("main", "get", registry'))
    BY <1>4 DEF Close, MemoryNow, Write
  <2>2. Orderly /\ registry'.state = "STOPPED_GRACEFUL"
    BY <1>a, <1>b, <2>1, SMT DEF Record
  <2> QED
    BY <1>a, <2>1, <2>2, CloseWrites
<1>5. CASE AbandonJob \/ Crash \/ GiveUp
  <2>1. Charge(FALSE)
    BY <1>5 DEF AbandonJob, Crash, GiveUp
  <2> QED
    BY <2>1, NotCharged
<1>6. CASE ServeGet \/ ServePut \/ ServeOrphan
  <2>1. Orderly
    BY <1>b, <1>6 DEF ServeGet, ServePut, ServeOrphan
  <2> QED
    BY <1>6, <2>1, GetServed, PutServed, OrphanServed
<1>7. CASE PatchGet \/ PatchPut \/ Expire \/ UNCHANGED vars
  <2>1. UNCHANGED <<worker, wire>>
    BY <1>7 DEF PatchGet, PatchPut, Expire, vars
  <2>2. faultsLeft = MaxFaults
    <3>1. CASE PatchPut
      BY <3>1, NotCharged DEF PatchPut
    <3> QED
      BY <1>7, <3>1 DEF PatchGet, Expire, vars
  <2>3. Orderly
    BY <1>b, <2>2
  <2> QED
    BY <2>1, <2>3 DEF Orderly, OneRequestEach, WireFollowsPhase, MainComesLast, MemoryFollows,
                      Waiting, Before, Intent
<1>8. CASE Tick
  <2>1. /\ Charge(OnTime)
        /\ wire' = [i \in DOMAIN wire |-> [wire[i] EXCEPT !.rec = Aged(@)]]
        /\ registry' = (IF phase \in Off THEN registry ELSE Aged(registry))
        /\ UNCHANGED <<phase, running>>
    BY <1>8 DEF Tick
  <2>2. OnTime /\ Orderly
    <3>1. OnTime \in BOOLEAN
      BY DEF OnTime
    <3> QED
      BY <1>b, <2>1, <3>1, NotCharged
  <2>3. wire = <<>> /\ phase \in Off \cup {"up"}
    BY <2>2 DEF OnTime, Orderly, WireFollowsPhase
  <2>4. wire' = <<>>
    BY <2>1, <2>3
  <2>5. phase = "up" => registry.state = Intent
    <3>1. ~Waiting("main")
      BY <2>3 DEF Waiting
    <3> QED
      BY <2>2, <3>1 DEF Orderly, MemoryFollows
  <2>6. registry'.state = registry.state /\ Intent' = Intent
    BY <1>a, <2>1, StateKept DEF Intent
  <2>7. phase' \in Off => ~running'
    BY <2>1, <2>2 DEF Orderly, WireFollowsPhase
  <2> QED
    BY <2>1, <2>3, <2>4, <2>5, <2>6, <2>7, EmptyWire
<1> QED
  BY <1>1, <1>2, <1>3, <1>4, <1>5, <1>6, <1>7, <1>8 DEF Next

LEMMA OrderlyInvariant == Spec => []OrderlyInv
<1>1. Init => OrderlyInv
  BY DEF Init, OrderlyInv, Orderly, OneRequestEach, WireFollowsPhase, MainComesLast,
         MemoryFollows, Off
<1>2. TypeOK /\ OrderlyInv /\ [Next]_vars => OrderlyInv'
  BY OrderlyStep
<1> QED
  BY <1>1, <1>2, RegistryTypes, PTL DEF Spec

\* Without a fault the copy in memory is right whenever the main task is between
\* two writes, whatever the heartbeat task writes back (`MemoryIsRight` of the run).
THEOREM MemoryStaysRight == Spec => []MemoryIsRight
<1>1. OrderlyInv => MemoryIsRight
  BY DEF OrderlyInv, Orderly, MemoryFollows, MemoryIsRight, MainIsFree, Intent
<1> QED
  BY <1>1, OrderlyInvariant, PTL

\* Without a fault what a closed worker left in the bucket is changed by nothing
\* but a PATCH in progress, and dropped by nothing but the TTL of the bucket
\* (`StoppedIsKept` of the run): the wire is empty by then.
THEOREM StoppedWorkersStayStopped == Spec => StoppedIsKept
<1> DEFINE Expires == workersKv' = NoRecord /\ Lifetime > 0 /\ kept >= Lifetime
           Keeps ==
        faultsLeft = MaxFaults /\ phase = "stopped"
            /\ workersKv.state = "STOPPED_GRACEFUL" /\ workersKv'.state # "STOPPED_GRACEFUL"
            => patch.pc = "got" \/ Expires
<1>1. TypeOK /\ OrderlyInv /\ [Next]_vars => [Keeps]_vars
  <2> SUFFICES ASSUME TypeOK, OrderlyInv, [Next]_vars, faultsLeft = MaxFaults,
                      phase = "stopped", workersKv.state = "STOPPED_GRACEFUL",
                      workersKv'.state # "STOPPED_GRACEFUL"
               PROVE  patch.pc = "got" \/ Expires
    OBVIOUS
  <2>1. wire = <<>>
    BY DEF OrderlyInv, Orderly, WireFollowsPhase, Off
  <2>2. ~ServePut /\ ~ServeOrphan
    BY <2>1 DEF ServePut, ServeOrphan
  <2>3. ~Tick
    <3>1. Tick => workersKv' = Aged(workersKv)
      BY DEF Tick
    <3>2. workersKv \in Record
      BY DEF TypeOK, NoRecord
    <3> QED
      BY <3>1, <3>2, StateKept
  <2>4. PatchPut => patch.pc = "got"
    BY DEF PatchPut
  <2>5. Expire => Expires
    BY DEF Expire, Stores
  <2>6. StartWorker \/ StartJob \/ FinishJob \/ AbandonJob \/ WriteWheelStatus \/ Close
          \/ Crash \/ Beat \/ ServeGet \/ GiveUp \/ PatchGet \/ UNCHANGED vars
            => UNCHANGED workersKv
    BY DEF StartWorker, StartJob, FinishJob, AbandonJob, WriteWheelStatus, Close, Crash, Beat,
           ServeGet, GiveUp, PatchGet, vars, bucket
  <2> QED
    BY <2>2, <2>3, <2>4, <2>5, <2>6 DEF Next
<1>2. Spec => [][Keeps]_vars
  BY <1>1, RegistryTypes, OrderlyInvariant, PTL DEF Spec
<1> QED
  BY <1>2, PTL DEF StoppedIsKept

=============================================================================
