-------------------------- MODULE WheelSync_proofs --------------------------
(***************************************************************************)
(* Theorems about WheelSync.  The types need to know that what a           *)
(* synchronisation has in memory was uploaded and may be installed, and    *)
(* that uploads under way still fit the bound.  That a recorded wheel is   *)
(* the one in its file rests on nuids being fresh: an object that is in    *)
(* the store now was there ever since its nuid was first seen.             *)
(***************************************************************************)
EXTENDS WheelSync, FiniteSetTheorems, TLAPS

-----------------------------------------------------------------------------
(* The inductive invariant of the types *)

Putting == {r \in Requests : request[r].pc = "put"}

\* An upload that has passed its checks can still be put.
UploadsFit == uploads + Cardinality(Putting) <= MaxUploads

Types ==
    /\ store \in NuidOrNone /\ uploads \in Nat
    /\ request \in [Requests -> [pc : {"idle", "put", "delete"}, wheel : Wheels]]
    /\ files \in NuidOrNone /\ manifest \in NuidOrNone
    /\ sync \in SyncRecord
    /\ unsaved \in 0..2 /\ faultsLeft \in 0..MaxFaults

AtMost(of, n) == \A w \in Wheels : of[w] <= n

\* No nuid is known before it was given out.
NuidsAreGivenOut ==
    /\ AtMost(store, uploads) /\ AtMost(files, uploads) /\ AtMost(manifest, uploads)
    /\ AtMost(sync.selected, uploads) /\ AtMost(sync.recorded, uploads)

OnlySelectable ==
    /\ Present(files) \subseteq Selectable /\ Present(manifest) \subseteq Selectable
    /\ Present(sync.selected) \subseteq Selectable
    /\ Present(sync.recorded) \subseteq Selectable
    /\ sync.todo \subseteq Present(sync.selected)

Outside ==
    /\ installed \in [Packages -> [wheel : Wheels, content : 0..uploads]]
    /\ status \in [result : {"idle", "ok", "error"}, selected : SUBSET Selectable]

IInv == Types /\ UploadsFit /\ NuidsAreGivenOut /\ OnlySelectable /\ Outside

-----------------------------------------------------------------------------
(* Lemmas about the operators *)

LEMMA IdleFacts == Idle.pc = "idle" /\ Idle.wheel \in Wheels
BY WheelAssumption DEF Idle

LEMMA NothingFacts ==
    /\ Nothing \in NuidOrNone /\ Present(Nothing) = {}
    /\ \A w \in Wheels : Nothing[w] = None
    /\ \A n \in Nat : AtMost(Nothing, n)
BY DEF Nothing, NuidOrNone, Present, None, AtMost

LEMMA NoSyncFacts ==
    /\ NoSync \in SyncRecord /\ NoSync.pc = "idle"
    /\ NoSync.selected = Nothing /\ NoSync.recorded = Nothing /\ NoSync.todo = {}
BY NothingFacts DEF NoSync, SyncRecord

LEMMA OnlyFacts ==
    ASSUME NEW of \in NuidOrNone, NEW wheels
    PROVE  /\ Only(of, wheels) \in NuidOrNone
           /\ Present(Only(of, wheels)) \subseteq Present(of)
           /\ \A w \in Wheels : Only(of, wheels)[w] \in {of[w], None}
           /\ \A n \in Nat : AtMost(of, n) => AtMost(Only(of, wheels), n)
BY DEF Only, NuidOrNone, Present, None, AtMost, Nuids

\* Of each package at most one wheel is selected.
LEMMA LatestFacts ==
    ASSUME NEW of \in NuidOrNone
    PROVE  /\ Latest(of) \in NuidOrNone
           /\ Present(Latest(of)) \subseteq Selectable
           /\ \A w \in Wheels : Latest(of)[w] \in {of[w], None}
           /\ \A n \in Nat : AtMost(of, n) => AtMost(Latest(of), n)
           /\ \A v, w \in Present(Latest(of)) : v[1] = w[1] => v = w
<1>1. /\ Latest(of) \in NuidOrNone
      /\ \A w \in Wheels : Latest(of)[w] \in {of[w], None}
  BY DEF Latest, NuidOrNone, None, Nuids
<1>2. Present(Latest(of)) \subseteq Selectable
  BY DEF Latest, Present
<1>3. \A n \in Nat : AtMost(of, n) => AtMost(Latest(of), n)
  BY <1>1 DEF AtMost, None
<1>4. \A v, w \in Present(Latest(of)) : v[1] = w[1] => v = w
  <2> SUFFICES ASSUME NEW v \in Present(Latest(of)), NEW w \in Present(Latest(of)), v[1] = w[1]
               PROVE  v = w
    OBVIOUS
  <2>1. v \in Wheels /\ w \in Wheels /\ Latest(of)[v] # None /\ Latest(of)[w] # None
    BY DEF Present
  <2>2. v \in Selectable \cap Present(of) /\ w \in Selectable \cap Present(of)
    BY <2>1, <1>1, <1>2 DEF Present
  <2>3. v[2] <= w[2] /\ w[2] <= v[2]
    BY <2>1, <2>2 DEF Latest
  <2>4. v \in Nat \X Nat /\ w \in Nat \X Nat
    BY <2>1, WheelAssumption
  <2> QED BY <2>3, <2>4
<1> QED BY <1>1, <1>2, <1>3, <1>4

LEMMA ChargeType ==
    ASSUME faultsLeft \in 0..MaxFaults, NEW ok \in BOOLEAN, Charge(ok)
    PROVE  faultsLeft' \in 0..MaxFaults
BY WheelAssumption DEF Charge

LEMMA PutsShrink ==
    ASSUME Types, UploadsFit, NEW r \in Requests, request[r].pc = "put",
           request' = [request EXCEPT ![r] = Idle]
    PROVE  Cardinality(Putting') = Cardinality(Putting) - 1 /\ Cardinality(Putting) \in Nat
<1>1. IsFiniteSet(Putting)
  BY WheelAssumption, FS_Subset DEF Putting
<1>2. Putting' = Putting \ {r}
  BY IdleFacts DEF Putting, Types
<1>3. r \in Putting
  BY DEF Putting
<1> QED BY <1>1, <1>2, <1>3, FS_RemoveElement, FS_CardinalityType

LEMMA PutsGrow ==
    ASSUME Types, UploadsFit, NEW r \in Requests, request[r].pc = "idle",
           uploads + Cardinality(Putting) < MaxUploads,
           NEW w \in Wheels, Goto(r, "put", w)
    PROVE  uploads + Cardinality(Putting') <= MaxUploads
<1>1. IsFiniteSet(Putting)
  BY WheelAssumption, FS_Subset DEF Putting
<1>2. Putting' = Putting \cup {r}
  BY DEF Putting, Types, Goto
<1>3. r \notin Putting
  BY DEF Putting
<1>4. Cardinality(Putting') = Cardinality(Putting) + 1 /\ Cardinality(Putting) \in Nat
  BY <1>1, <1>2, <1>3, FS_AddElement, FS_CardinalityType
<1> QED BY <1>4, WheelAssumption DEF Types

LEMMA PutsSame ==
    ASSUME Types, NEW r \in Requests, request[r].pc # "put",
           NEW rec, rec.pc # "put", request' = [request EXCEPT ![r] = rec]
    PROVE  Putting' = Putting
BY DEF Putting, Types

LEMMA RequestType ==
    ASSUME Types, NEW r \in Requests, NEW pc \in {"idle", "put", "delete"}, NEW w \in Wheels,
           request' = [request EXCEPT ![r] = [pc |-> pc, wheel |-> w]]
    PROVE  request' \in [Requests -> [pc : {"idle", "put", "delete"}, wheel : Wheels]]
BY DEF Types

LEMMA IdleType ==
    ASSUME Types, NEW r \in Requests, request' = [request EXCEPT ![r] = Idle]
    PROVE  request' \in [Requests -> [pc : {"idle", "put", "delete"}, wheel : Wheels]]
BY RequestType, WheelAssumption DEF Idle

LEMMA ResultType ==
    ASSUME Outside, NEW result \in {"idle", "ok", "error"}, Result(result)
    PROVE  status' \in [result : {"idle", "ok", "error"}, selected : SUBSET Selectable]
BY DEF Outside, Result

-----------------------------------------------------------------------------
(* The steps of the API preserve the invariant *)

\* What a step that leaves the worker alone does to its part.
LEMMA WorkerAlone ==
    ASSUME IInv, UNCHANGED workerVars, uploads' \in Nat, uploads <= uploads',
           store' \in NuidOrNone, AtMost(store', uploads')
    PROVE  /\ files' \in NuidOrNone /\ manifest' \in NuidOrNone
           /\ sync' \in SyncRecord /\ unsaved' \in 0..2
           /\ NuidsAreGivenOut' /\ OnlySelectable' /\ Outside'
<1>1. /\ files' \in NuidOrNone /\ manifest' \in NuidOrNone
      /\ sync' \in SyncRecord /\ unsaved' \in 0..2
  BY DEF IInv, Types, workerVars
<1>2. OnlySelectable'
  BY DEF IInv, OnlySelectable, workerVars, Present
<1>3. NuidsAreGivenOut'
  BY DEF IInv, NuidsAreGivenOut, workerVars, AtMost, Types, NuidOrNone, Nuids, None, SyncRecord
<1>4. Outside'
  BY DEF IInv, Outside, workerVars, Types
<1> QED BY <1>1, <1>2, <1>3, <1>4

LEMMA UploadListTypes ==
    ASSUME IInv, NEW r \in Requests, NEW w \in Wheels, UploadList(r, w)
    PROVE  IInv'
<1>1. request' \in [Requests -> [pc : {"idle", "put", "delete"}, wheel : Wheels]]
  BY RequestType DEF UploadList, Goto, IInv
<1>2. faultsLeft' \in 0..MaxFaults
  BY ChargeType DEF UploadList, IInv, Types
<1>3. UploadsFit'
  <2>1. uploads + Cardinality(Putting') <= MaxUploads
    BY PutsGrow DEF UploadList, IInv, Putting
  <2> QED BY <2>1 DEF UploadList, UploadsFit
<1>4. store' = store /\ uploads' = uploads /\ UNCHANGED workerVars
  BY DEF UploadList
<1>5. uploads \in Nat /\ store \in NuidOrNone /\ AtMost(store, uploads)
  BY DEF IInv, Types, NuidsAreGivenOut
<1>6. uploads' \in Nat /\ uploads <= uploads' /\ store' \in NuidOrNone /\ AtMost(store', uploads')
  BY <1>4, <1>5
<1>7. /\ files' \in NuidOrNone /\ manifest' \in NuidOrNone
      /\ sync' \in SyncRecord /\ unsaved' \in 0..2
      /\ NuidsAreGivenOut' /\ OnlySelectable' /\ Outside'
  BY <1>4, <1>6, WorkerAlone
<1> QED BY <1>1, <1>2, <1>3, <1>6, <1>7 DEF IInv, Types

LEMMA UploadRefusedTypes ==
    ASSUME IInv, NEW r \in Requests, UploadRefused(r)
    PROVE  IInv'
<1>1. request' \in [Requests -> [pc : {"idle", "put", "delete"}, wheel : Wheels]]
  BY IdleType DEF UploadRefused, IInv
<1>2. faultsLeft' \in 0..MaxFaults
  BY DEF UploadRefused, IInv, Types
<1>4. store' = store /\ uploads' = uploads /\ UNCHANGED workerVars
  BY DEF UploadRefused
<1>5. uploads \in Nat /\ store \in NuidOrNone /\ AtMost(store, uploads)
  BY DEF IInv, Types, NuidsAreGivenOut
<1>3. UploadsFit'
  <2>1. Cardinality(Putting') = Cardinality(Putting) - 1 /\ Cardinality(Putting) \in Nat
    BY PutsShrink DEF UploadRefused, IInv
  <2>2. uploads + Cardinality(Putting) <= MaxUploads
    BY DEF IInv, UploadsFit
  <2> QED BY <2>1, <2>2, <1>4, <1>5, WheelAssumption DEF UploadsFit
<1>6. uploads' \in Nat /\ uploads <= uploads' /\ store' \in NuidOrNone /\ AtMost(store', uploads')
  BY <1>4, <1>5
<1>7. /\ files' \in NuidOrNone /\ manifest' \in NuidOrNone
      /\ sync' \in SyncRecord /\ unsaved' \in 0..2
      /\ NuidsAreGivenOut' /\ OnlySelectable' /\ Outside'
  BY <1>4, <1>6, WorkerAlone
<1> QED BY <1>1, <1>2, <1>3, <1>6, <1>7 DEF IInv, Types

LEMMA UploadPutTypes ==
    ASSUME IInv, NEW r \in Requests, UploadPut(r)
    PROVE  IInv'
<1>1. request' \in [Requests -> [pc : {"idle", "put", "delete"}, wheel : Wheels]]
  BY IdleType DEF UploadPut, IInv
<1>2. faultsLeft' \in 0..MaxFaults
  BY ChargeType DEF UploadPut, IInv, Types
<1>4. uploads' = uploads + 1 /\ UNCHANGED workerVars
  BY DEF UploadPut
<1>5. uploads \in Nat /\ store \in NuidOrNone /\ AtMost(store, uploads)
  BY DEF IInv, Types, NuidsAreGivenOut
<1>3. UploadsFit' /\ uploads + 1 <= MaxUploads
  <2>1. Cardinality(Putting') = Cardinality(Putting) - 1 /\ Cardinality(Putting) \in Nat
    BY PutsShrink DEF UploadPut, IInv
  <2>2. uploads + Cardinality(Putting) <= MaxUploads
    BY DEF IInv, UploadsFit
  <2>3. Cardinality(Putting) # 0
    <3>1. r \in Putting
      BY DEF UploadPut, Putting
    <3>2. IsFiniteSet(Putting)
      BY WheelAssumption, FS_Subset DEF Putting
    <3> QED BY <3>1, <3>2, FS_EmptySet
  <2> QED BY <2>1, <2>2, <2>3, <1>4, <1>5, WheelAssumption DEF UploadsFit
<1>6. uploads' \in Nat /\ uploads <= uploads' /\ store' \in NuidOrNone /\ AtMost(store', uploads')
  <2>1. uploads' \in Nuids
    BY <1>3, <1>4, <1>5, WheelAssumption DEF Nuids
  <2>2. store' = store \/ store' = [store EXCEPT ![request[r].wheel] = uploads']
    BY DEF UploadPut
  <2> QED BY <2>1, <2>2, <1>4, <1>5 DEF NuidOrNone, AtMost, Nuids, None
<1>7. /\ files' \in NuidOrNone /\ manifest' \in NuidOrNone
      /\ sync' \in SyncRecord /\ unsaved' \in 0..2
      /\ NuidsAreGivenOut' /\ OnlySelectable' /\ Outside'
  BY <1>4, <1>6, WorkerAlone
<1> QED BY <1>1, <1>2, <1>3, <1>6, <1>7 DEF IInv, Types

LEMMA DeleteInfoTypes ==
    ASSUME IInv, NEW r \in Requests, NEW w \in Wheels, DeleteInfo(r, w)
    PROVE  IInv'
<1>1. request' \in [Requests -> [pc : {"idle", "put", "delete"}, wheel : Wheels]]
  BY RequestType DEF DeleteInfo, Goto, IInv
<1>2. faultsLeft' \in 0..MaxFaults
  BY DEF DeleteInfo, IInv, Types
<1>4. store' = store /\ uploads' = uploads /\ UNCHANGED workerVars
  BY DEF DeleteInfo
<1>3. UploadsFit'
  <2>1. Putting' = Putting
    BY PutsSame DEF DeleteInfo, Goto, IInv
  <2> QED BY <2>1, <1>4 DEF UploadsFit, IInv
<1>5. uploads \in Nat /\ store \in NuidOrNone /\ AtMost(store, uploads)
  BY DEF IInv, Types, NuidsAreGivenOut
<1>6. uploads' \in Nat /\ uploads <= uploads' /\ store' \in NuidOrNone /\ AtMost(store', uploads')
  BY <1>4, <1>5
<1>7. /\ files' \in NuidOrNone /\ manifest' \in NuidOrNone
      /\ sync' \in SyncRecord /\ unsaved' \in 0..2
      /\ NuidsAreGivenOut' /\ OnlySelectable' /\ Outside'
  BY <1>4, <1>6, WorkerAlone
<1> QED BY <1>1, <1>2, <1>3, <1>6, <1>7 DEF IInv, Types

LEMMA DeleteTypes ==
    ASSUME IInv, NEW r \in Requests, Delete(r)
    PROVE  IInv'
<1>1. request' \in [Requests -> [pc : {"idle", "put", "delete"}, wheel : Wheels]]
  BY IdleType DEF Delete, IInv
<1>2. faultsLeft' \in 0..MaxFaults
  BY ChargeType DEF Delete, IInv, Types
<1>4. uploads' = uploads /\ UNCHANGED workerVars
  BY DEF Delete
<1>3. UploadsFit'
  <2>1. Putting' = Putting
    BY PutsSame, IdleFacts DEF Delete, IInv
  <2> QED BY <2>1, <1>4 DEF UploadsFit, IInv
<1>5. uploads \in Nat /\ store \in NuidOrNone /\ AtMost(store, uploads)
  BY DEF IInv, Types, NuidsAreGivenOut
<1>6. uploads' \in Nat /\ uploads <= uploads' /\ store' \in NuidOrNone /\ AtMost(store', uploads')
  <2>1. store' = store \/ store' = [store EXCEPT ![request[r].wheel] = None]
    BY DEF Delete
  <2> QED BY <2>1, <1>4, <1>5 DEF NuidOrNone, AtMost, None
<1>7. /\ files' \in NuidOrNone /\ manifest' \in NuidOrNone
      /\ sync' \in SyncRecord /\ unsaved' \in 0..2
      /\ NuidsAreGivenOut' /\ OnlySelectable' /\ Outside'
  BY <1>4, <1>6, WorkerAlone
<1> QED BY <1>1, <1>2, <1>3, <1>6, <1>7 DEF IInv, Types

-----------------------------------------------------------------------------
(* The worker's steps preserve the invariant *)

\* What a step that leaves the registry alone does to the API's part.
LEMMA RegistryAlone ==
    ASSUME IInv, UNCHANGED registryVars
    PROVE  /\ store' \in NuidOrNone /\ uploads' \in Nat
           /\ request' \in [Requests -> [pc : {"idle", "put", "delete"}, wheel : Wheels]]
           /\ UploadsFit' /\ AtMost(store', uploads')
           /\ store' = store /\ uploads' = uploads
BY DEF IInv, Types, UploadsFit, Putting, registryVars, NuidsAreGivenOut

LEMMA RaisesTypes ==
    ASSUME IInv, Raises
    PROVE  /\ sync' \in SyncRecord /\ unsaved' \in 0..2
           /\ sync' = NoSync
           /\ status' \in [result : {"idle", "ok", "error"}, selected : SUBSET Selectable]
<1>1. status' \in [result : {"idle", "ok", "error"}, selected : SUBSET Selectable]
  BY ResultType DEF IInv, Raises
<1>2. unsaved' \in 0..2
  BY DEF Raises, IInv, Types
<1> QED BY <1>1, <1>2, NoSyncFacts DEF Raises

\* The rest of the invariant once a synchronisation is over.
LEMMA NoSyncTypes ==
    ASSUME uploads' \in Nat, sync' = NoSync
    PROVE  /\ AtMost(sync.selected', uploads') /\ AtMost(sync.recorded', uploads')
           /\ Present(sync.selected') \subseteq Selectable
           /\ Present(sync.recorded') \subseteq Selectable
           /\ sync.todo' \subseteq Present(sync.selected')
BY NoSyncFacts, NothingFacts

LEMMA SyncListTypes ==
    ASSUME IInv, SyncList
    PROVE  IInv'
<1> DEFINE selected == Latest(store)
           recorded == Only(manifest, Present(selected))
           todo == {w \in Wheels : NeedsInstall(w, selected, recorded)}
<1>1. UNCHANGED registryVars /\ UNCHANGED <<manifest, installed, status, unsaved, faultsLeft>>
  BY DEF SyncList
<1>2. /\ store \in NuidOrNone /\ files \in NuidOrNone /\ manifest \in NuidOrNone /\ uploads \in Nat
      /\ AtMost(store, uploads) /\ AtMost(files, uploads) /\ AtMost(manifest, uploads)
      /\ Present(files) \subseteq Selectable /\ Present(manifest) \subseteq Selectable
  BY DEF IInv, Types, NuidsAreGivenOut, OnlySelectable
<1>3. /\ selected \in NuidOrNone /\ Present(selected) \subseteq Selectable
      /\ AtMost(selected, uploads)
  BY <1>2, LatestFacts
<1>4. /\ recorded \in NuidOrNone /\ Present(recorded) \subseteq Selectable
      /\ AtMost(recorded, uploads)
  BY <1>2, OnlyFacts
<1>5. todo \subseteq Present(selected) /\ todo \subseteq Wheels
  BY DEF NeedsInstall, Present
<1>6. sync' = [pc |-> "sync", selected |-> selected, recorded |-> recorded, todo |-> todo]
  BY DEF SyncList
<1>7. sync' \in SyncRecord
  BY <1>3, <1>4, <1>5, <1>6 DEF SyncRecord
<1>8. files' \in NuidOrNone /\ Present(files') \subseteq Selectable /\ AtMost(files', uploads)
  <2>1. files' = Only(files, Wheels \ (Present(manifest) \ Present(selected)))
    BY DEF SyncList
  <2> QED BY <2>1, <1>2, OnlyFacts
<1>9. Types' /\ UploadsFit'
  BY <1>1, <1>7, <1>8, RegistryAlone DEF IInv, Types
<1>10. NuidsAreGivenOut'
  BY <1>1, <1>2, <1>3, <1>4, <1>6, <1>8, RegistryAlone DEF NuidsAreGivenOut
<1>11. OnlySelectable'
  BY <1>1, <1>2, <1>3, <1>4, <1>5, <1>6, <1>8 DEF OnlySelectable
<1>12. Outside'
  BY <1>1, RegistryAlone DEF IInv, Outside
<1> QED BY <1>9, <1>10, <1>11, <1>12 DEF IInv

LEMMA SyncListRaisesTypes ==
    ASSUME IInv, SyncListRaises
    PROVE  IInv'
<1>1. UNCHANGED registryVars /\ UNCHANGED <<files, manifest, installed, sync, unsaved>>
  BY DEF SyncListRaises
<1>2. faultsLeft' \in 0..MaxFaults
  BY ChargeType DEF SyncListRaises, IInv, Types
<1>3. status' \in [result : {"idle", "ok", "error"}, selected : SUBSET Selectable]
  BY ResultType DEF SyncListRaises, IInv
<1>4. Types' /\ UploadsFit'
  BY <1>1, <1>2, RegistryAlone DEF IInv, Types
<1>5. NuidsAreGivenOut' /\ OnlySelectable'
  BY <1>1, RegistryAlone DEF IInv, NuidsAreGivenOut, OnlySelectable
<1>6. Outside'
  BY <1>1, <1>3, RegistryAlone DEF IInv, Outside
<1> QED BY <1>4, <1>5, <1>6 DEF IInv

\* A step that ends in an exception and keeps the files: it may have changed the
\* manifest or what is installed.
LEMMA RaisingTypes ==
    ASSUME IInv, Raises, UNCHANGED registryVars, UNCHANGED files,
           faultsLeft' \in 0..MaxFaults,
           manifest' \in {manifest, Nothing},
           installed' \in [Packages -> [wheel : Wheels, content : 0..uploads]]
    PROVE  IInv'
<1>1. /\ manifest' \in NuidOrNone /\ AtMost(manifest', uploads)
      /\ Present(manifest') \subseteq Selectable
  BY NothingFacts DEF IInv, Types, NuidsAreGivenOut, OnlySelectable
<1>2. Types' /\ UploadsFit'
  BY <1>1, RaisesTypes, RegistryAlone DEF IInv, Types
<1>3. NuidsAreGivenOut'
  <2>1. AtMost(sync.selected', uploads') /\ AtMost(sync.recorded', uploads')
    BY RaisesTypes, RegistryAlone, NoSyncTypes
  <2> QED BY <2>1, <1>1, RegistryAlone DEF IInv, NuidsAreGivenOut
<1>4. OnlySelectable'
  <2>1. /\ Present(sync.selected') \subseteq Selectable
        /\ Present(sync.recorded') \subseteq Selectable
        /\ sync.todo' \subseteq Present(sync.selected')
    BY RaisesTypes, RegistryAlone, NoSyncTypes
  <2> QED BY <2>1, <1>1 DEF IInv, OnlySelectable
<1>5. Outside'
  BY RaisesTypes, RegistryAlone DEF IInv, Outside
<1> QED BY <1>2, <1>3, <1>4, <1>5 DEF IInv

LEMMA SyncGetTypes ==
    ASSUME IInv, NEW w \in Wheels, SyncGet(w)
    PROVE  IInv'
<1>1. UNCHANGED registryVars /\ UNCHANGED <<manifest, installed>>
  BY DEF SyncGet
<1>2. CASE /\ store[w] # None
           /\ files' = [files EXCEPT ![w] = store[w]]
           /\ sync' = [sync EXCEPT !.pc = "install"]
           /\ UNCHANGED <<status, unsaved, faultsLeft>>
  <2>1. w \in Selectable
    BY DEF SyncGet, IsNext, IInv, OnlySelectable
  <2>2. /\ files' \in NuidOrNone /\ Present(files') \subseteq Selectable
        /\ AtMost(files', uploads)
    BY <1>2, <2>1 DEF IInv, Types, NuidOrNone, OnlySelectable, Present, NuidsAreGivenOut, AtMost
  <2>3. /\ sync' \in SyncRecord /\ sync'.selected = sync.selected
        /\ sync'.recorded = sync.recorded /\ sync'.todo = sync.todo
    BY <1>2 DEF IInv, Types, SyncRecord
  <2>4. Types' /\ UploadsFit'
    BY <1>1, <1>2, <2>2, <2>3, RegistryAlone DEF IInv, Types
  <2>5. NuidsAreGivenOut'
    BY <1>1, <2>2, <2>3, RegistryAlone DEF IInv, NuidsAreGivenOut
  <2>6. OnlySelectable'
    BY <1>1, <2>2, <2>3 DEF IInv, OnlySelectable
  <2>7. Outside'
    BY <1>1, <1>2, RegistryAlone DEF IInv, Outside
  <2> QED BY <2>4, <2>5, <2>6, <2>7 DEF IInv
<1>3. CASE Charge(store[w] = None) /\ Raises /\ UNCHANGED files
  <2>1. faultsLeft' \in 0..MaxFaults
    BY <1>3, ChargeType DEF IInv, Types
  <2> QED BY <1>1, <1>3, <2>1, RaisingTypes DEF IInv, Outside
<1> QED BY <1>2, <1>3 DEF SyncGet

LEMMA PipTypes ==
    ASSUME IInv, NEW w \in Wheels,
           \/ installed' = [installed EXCEPT ![w[1]] = [wheel |-> w, content |-> files[w]]]
           \/ installed' = installed
    PROVE  installed' \in [Packages -> [wheel : Wheels, content : 0..uploads]]
<1>1. w[1] \in Packages /\ files[w] \in 0..uploads
  BY DEF IInv, Types, NuidOrNone, NuidsAreGivenOut, AtMost, Nuids, None, Packages
<1> QED BY <1>1 DEF IInv, Outside

LEMMA SyncInstallTypes ==
    ASSUME IInv, NEW w \in Wheels, SyncInstall(w)
    PROVE  IInv'
<1>1. UNCHANGED registryVars /\ UNCHANGED <<files, manifest>>
  BY DEF SyncInstall
<1>2. CASE /\ installed' = [installed EXCEPT ![w[1]] = [wheel |-> w, content |-> files[w]]]
           /\ sync' = [sync EXCEPT !.pc = "sync", !.recorded[w] = RecordedNuid(w),
                                   !.todo = @ \ {w}]
           /\ UNCHANGED <<status, unsaved, faultsLeft>>
  <2>1. w \in Present(sync.selected) /\ w \in Selectable
    BY DEF SyncInstall, IsNext, IInv, OnlySelectable
  <2>2. /\ sync' \in SyncRecord /\ sync'.selected = sync.selected
        /\ sync'.recorded = [sync.recorded EXCEPT ![w] = sync.selected[w]]
        /\ sync'.todo = sync.todo \ {w}
    <3>1. sync.selected[w] \in Nuids \cup {None}
      BY DEF IInv, Types, SyncRecord, NuidOrNone
    <3> QED BY <1>2, <3>1 DEF IInv, Types, SyncRecord, NuidOrNone, RecordedNuid
  <2>3. Present(sync'.recorded) \subseteq Selectable /\ AtMost(sync'.recorded, uploads)
    BY <2>1, <2>2 DEF IInv, OnlySelectable, Present, NuidsAreGivenOut, AtMost, Types,
                      SyncRecord, NuidOrNone
  <2>4. Types' /\ UploadsFit'
    BY <1>1, <1>2, <2>2, RegistryAlone DEF IInv, Types
  <2>5. NuidsAreGivenOut'
    BY <1>1, <2>2, <2>3, RegistryAlone DEF IInv, NuidsAreGivenOut
  <2>6. OnlySelectable'
    BY <1>1, <2>2, <2>3 DEF IInv, OnlySelectable
  <2>7. Outside'
    BY <1>1, <1>2, PipTypes, RegistryAlone DEF IInv, Outside
  <2> QED BY <2>4, <2>5, <2>6, <2>7 DEF IInv
<1>3. CASE /\ Charge(FALSE) /\ Raises
           /\ \/ installed' = [installed EXCEPT ![w[1]] = [wheel |-> w, content |-> files[w]]]
              \/ UNCHANGED installed
  <2>1. faultsLeft' \in 0..MaxFaults
    BY <1>3, ChargeType DEF IInv, Types
  <2>2. installed' \in [Packages -> [wheel : Wheels, content : 0..uploads]]
    BY <1>3, PipTypes
  <2> QED BY <1>1, <1>3, <2>1, <2>2, RaisingTypes
<1> QED BY <1>2, <1>3 DEF SyncInstall

LEMMA SyncSaveTypes ==
    ASSUME IInv, SyncSave
    PROVE  IInv'
<1>1. UNCHANGED registryVars /\ UNCHANGED <<files, installed>>
  BY DEF SyncSave
<1>2. CASE /\ manifest' = sync.recorded
           /\ status' = [result |-> "ok", selected |-> Present(sync.selected)]
           /\ sync' = NoSync
           /\ UNCHANGED <<unsaved, faultsLeft>>
  <2>1. /\ manifest' \in NuidOrNone /\ AtMost(manifest', uploads)
        /\ Present(manifest') \subseteq Selectable
    BY <1>2 DEF IInv, Types, SyncRecord, NuidsAreGivenOut, OnlySelectable
  <2>2. /\ AtMost(sync.selected', uploads') /\ AtMost(sync.recorded', uploads')
        /\ Present(sync.selected') \subseteq Selectable
        /\ Present(sync.recorded') \subseteq Selectable
        /\ sync.todo' \subseteq Present(sync.selected')
    BY <1>1, <1>2, RegistryAlone, NoSyncTypes
  <2>3. Types' /\ UploadsFit'
    BY <1>1, <1>2, <2>1, RegistryAlone, NoSyncFacts DEF IInv, Types
  <2>4. NuidsAreGivenOut'
    BY <1>1, <2>1, <2>2, RegistryAlone DEF IInv, NuidsAreGivenOut
  <2>5. OnlySelectable'
    BY <1>1, <2>1, <2>2 DEF IInv, OnlySelectable
  <2>6. Outside'
    <3>1. status' \in [result : {"idle", "ok", "error"}, selected : SUBSET Selectable]
      BY <1>2 DEF IInv, OnlySelectable
    <3> QED BY <3>1, <1>1, RegistryAlone DEF IInv, Outside
  <2> QED BY <2>3, <2>4, <2>5, <2>6 DEF IInv
<1>3. CASE Charge(FALSE) /\ Raises /\ manifest' \in {manifest, Nothing}
  <2>1. faultsLeft' \in 0..MaxFaults
    BY <1>3, ChargeType DEF IInv, Types
  <2> QED BY <1>1, <1>3, <2>1, RaisingTypes DEF IInv, Outside
<1> QED BY <1>2, <1>3 DEF SyncSave

LEMMA CrashTypes ==
    ASSUME IInv, Crash
    PROVE  IInv'
<1>1. faultsLeft' \in 0..MaxFaults
  BY ChargeType DEF Crash, IInv, Types
<1> QED BY <1>1, RaisingTypes DEF Crash, IInv, Outside

LEMMA StuttersTypes == IInv /\ UNCHANGED vars => IInv'
<1> SUFFICES ASSUME IInv, UNCHANGED vars PROVE IInv'
  OBVIOUS
<1>1. Types' /\ UploadsFit'
  BY RegistryAlone DEF vars, workerVars, IInv, Types
<1>2. NuidsAreGivenOut' /\ OnlySelectable' /\ Outside'
  BY RegistryAlone DEF vars, workerVars, IInv, NuidsAreGivenOut, OnlySelectable, Outside
<1> QED BY <1>1, <1>2 DEF IInv

LEMMA InitTypes == Init => IInv
<1> SUFFICES ASSUME Init PROVE IInv
  OBVIOUS
<1>1. Types
  <2>1. request \in [Requests -> [pc : {"idle", "put", "delete"}, wheel : Wheels]]
    BY WheelAssumption DEF Init, Idle
  <2> QED BY <2>1, NothingFacts, NoSyncFacts, WheelAssumption DEF Init, Types
<1>2. UploadsFit
  <2>1. Putting = {}
    BY IdleFacts DEF Init, Putting
  <2> QED BY <2>1, FS_EmptySet, WheelAssumption DEF Init, UploadsFit
<1>3. NuidsAreGivenOut
  BY NothingFacts, NoSyncFacts DEF Init, NuidsAreGivenOut
<1>4. OnlySelectable
  BY NothingFacts, NoSyncFacts DEF Init, OnlySelectable
<1>5. Outside
  BY IdleFacts DEF Init, Outside, None
<1> QED BY <1>1, <1>2, <1>3, <1>4, <1>5 DEF IInv

LEMMA StepTypes == IInv /\ [Next]_vars => IInv'
<1> SUFFICES ASSUME IInv, [Next]_vars PROVE IInv'
  OBVIOUS
<1>1. CASE ApiStep
  BY <1>1, UploadListTypes, UploadRefusedTypes, UploadPutTypes, DeleteInfoTypes, DeleteTypes
     DEF ApiStep
<1>2. CASE SyncStep
  BY <1>2, SyncListTypes, SyncListRaisesTypes, SyncGetTypes, SyncInstallTypes, SyncSaveTypes
     DEF SyncStep
<1>3. CASE Crash
  BY <1>3, CrashTypes
<1>4. CASE UNCHANGED vars
  BY <1>4, StuttersTypes
<1> QED BY <1>1, <1>2, <1>3, <1>4 DEF Next

LEMMA IInvHolds == Spec => []IInv
BY InitTypes, StepTypes, PTL DEF Spec

\* The registry, the requests, the sync directory, the manifest and the running
\* synchronisation keep their types, and never name a wheel that was not
\* uploaded or may not be installed on this worker (upload_wheel, delete_wheel,
\* _sync_wheels_once).
THEOREM WheelTypes == Spec => []TypeOK
<1>1. IInv => TypeOK
  <2> SUFFICES ASSUME IInv PROVE TypeOK
    OBVIOUS
  <2>1. uploads \in 0..MaxUploads
    <3>1. Cardinality(Putting) \in Nat
      BY WheelAssumption, FS_Subset, FS_CardinalityType DEF Putting
    <3> QED BY <3>1, WheelAssumption DEF IInv, Types, UploadsFit
  <2> QED BY <2>1 DEF IInv, Types, OnlySelectable, Outside, TypeOK
<1> QED BY <1>1, IInvHolds, PTL

-----------------------------------------------------------------------------
(* What is recorded is in the file *)

Agrees(of) == \A w \in Wheels : of[w] # None /\ of[w] = store[w] /\ files[w] # None
                                    => files[w] = store[w]

\* Also of what the synchronisation has in memory, and of the file it has
\* fetched and is about to record with the nuid of the listing.
FileInv ==
    /\ Agrees(manifest) /\ Agrees(sync.recorded)
    /\ sync.pc = "install" => \A w \in Wheels :
            /\ IsNext(w) /\ sync.selected[w] # None
            /\ sync.selected[w] = store[w] /\ files[w] # None
            => files[w] = store[w]
    /\ \A v, w \in sync.todo : v[1] = w[1] => v = w

\* A store that lost objects, or got one with a nuid nobody knows yet.
LEMMA StoreChanges ==
    ASSUME IInv, FileInv, UNCHANGED workerVars,
           \A w \in Wheels : store'[w] \in {store[w], None} \/ store'[w] > uploads
    PROVE  FileInv'
<1>1. \A w \in Wheels :
        /\ manifest[w] <= uploads /\ sync.recorded[w] <= uploads /\ sync.selected[w] <= uploads
        /\ manifest[w] \in Nat /\ sync.recorded[w] \in Nat /\ sync.selected[w] \in Nat
        /\ uploads \in Nat
  BY DEF IInv, NuidsAreGivenOut, AtMost, Types, SyncRecord, NuidOrNone, Nuids, None
<1>2. UNCHANGED <<manifest, files, sync>>
  BY DEF workerVars
<1>3. Agrees(manifest)' /\ Agrees(sync.recorded)'
  BY <1>1, <1>2 DEF FileInv, Agrees, None
<1>4. ASSUME sync'.pc = "install", NEW w \in Wheels, IsNext(w)', sync'.selected[w] # None,
             sync'.selected[w] = store'[w], files'[w] # None
      PROVE  files'[w] = store'[w]
  <2>1. IsNext(w)
    BY <1>2, <1>4 DEF IsNext
  <2>2. store'[w] = store[w]
    BY <1>1, <1>2, <1>4 DEF None
  <2> QED BY <1>2, <1>4, <2>1, <2>2 DEF FileInv
<1> QED BY <1>2, <1>3, <1>4 DEF FileInv

\* A synchronisation that is not running says nothing.
LEMMA NoSyncFiles ==
    ASSUME sync' = NoSync, Agrees(manifest)'
    PROVE  FileInv'
<1>1. Agrees(sync.recorded)'
  BY NoSyncFacts, NothingFacts DEF Agrees
<1> QED BY <1>1, NoSyncFacts DEF FileInv

LEMMA ApiFiles ==
    ASSUME IInv, FileInv, ApiStep
    PROVE  FileInv'
<1>1. PICK r \in Requests :
        \/ \E w \in Wheels : UploadList(r, w) \/ DeleteInfo(r, w)
        \/ UploadRefused(r) \/ UploadPut(r) \/ Delete(r)
  BY DEF ApiStep
<1>2. UNCHANGED workerVars
  BY <1>1 DEF UploadList, DeleteInfo, UploadRefused, UploadPut, Delete
<1>3. \/ store' = store
      \/ store' = [store EXCEPT ![request[r].wheel] = uploads + 1]
      \/ store' = [store EXCEPT ![request[r].wheel] = None]
  BY <1>1 DEF UploadList, DeleteInfo, UploadRefused, UploadPut, Delete
<1>4. \A w \in Wheels : store'[w] \in {store[w], None} \/ store'[w] > uploads
  BY <1>3 DEF IInv, Types, NuidOrNone
<1> QED BY <1>2, <1>4, StoreChanges

LEMMA SyncListFiles ==
    ASSUME IInv, FileInv, SyncList
    PROVE  FileInv'
<1> DEFINE selected == Latest(store)
           recorded == Only(manifest, Present(selected))
           todo == {w \in Wheels : NeedsInstall(w, selected, recorded)}
<1>1. store' = store /\ manifest' = manifest
  BY DEF SyncList, registryVars
<1>2. store \in NuidOrNone /\ files \in NuidOrNone /\ manifest \in NuidOrNone
  BY DEF IInv, Types
<1>3. sync' = [pc |-> "sync", selected |-> selected, recorded |-> recorded, todo |-> todo]
  BY DEF SyncList
<1>4. \A w \in Wheels : files'[w] \in {files[w], None} /\ recorded[w] \in {manifest[w], None}
  BY <1>2, OnlyFacts DEF SyncList
<1>5. Agrees(manifest)' /\ Agrees(sync.recorded)'
  BY <1>1, <1>3, <1>4 DEF FileInv, Agrees
<1>6. \A v, w \in todo : v[1] = w[1] => v = w
  <2>1. todo \subseteq Present(selected)
    BY DEF NeedsInstall, Present
  <2> QED BY <2>1, <1>2, LatestFacts
<1> QED BY <1>3, <1>5, <1>6 DEF FileInv

LEMMA SyncGetFiles ==
    ASSUME IInv, FileInv, NEW w \in Wheels, SyncGet(w)
    PROVE  FileInv'
<1>1. store' = store /\ manifest' = manifest
  BY DEF SyncGet, registryVars
<1>2. CASE /\ files' = [files EXCEPT ![w] = store[w]]
           /\ sync' = [sync EXCEPT !.pc = "install"]
  <2>1. /\ sync'.selected = sync.selected /\ sync'.recorded = sync.recorded
        /\ sync'.todo = sync.todo
    BY <1>2 DEF IInv, Types, SyncRecord
  <2>2. files'[w] = store[w] /\ \A v \in Wheels : v # w => files'[v] = files[v]
    BY <1>2 DEF IInv, Types, NuidOrNone
  <2>3. Agrees(manifest)' /\ Agrees(sync.recorded)'
    BY <1>1, <2>1, <2>2 DEF FileInv, Agrees
  <2>4. ASSUME NEW v \in Wheels, IsNext(v)'
        PROVE  v = w
    <3>1. IsNext(w) /\ IsNext(v)
      BY <2>1, <2>4 DEF SyncGet, IsNext
    <3>2. v[1] \in Nat /\ w[1] \in Nat
      BY WheelAssumption
    <3>3. v[1] = w[1]
      BY <3>1, <3>2 DEF IsNext
    <3> QED BY <3>1, <3>3 DEF IsNext, FileInv
  <2> QED BY <1>1, <2>1, <2>2, <2>3, <2>4 DEF FileInv
<1>3. CASE Raises /\ UNCHANGED files
  <2>1. Agrees(manifest)'
    BY <1>1, <1>3 DEF Agrees, FileInv
  <2> QED BY <1>3, <2>1, NoSyncFiles DEF Raises
<1> QED BY <1>2, <1>3 DEF SyncGet

LEMMA SyncInstallFiles ==
    ASSUME IInv, FileInv, NEW w \in Wheels, SyncInstall(w)
    PROVE  FileInv'
<1>1. store' = store /\ manifest' = manifest /\ files' = files
  BY DEF SyncInstall, registryVars
<1>2. Agrees(manifest)'
  BY <1>1 DEF Agrees, FileInv
<1>3. CASE sync' = [sync EXCEPT !.pc = "sync", !.recorded[w] = RecordedNuid(w), !.todo = @ \ {w}]
  <2>1. /\ sync'.recorded = [sync.recorded EXCEPT ![w] = sync.selected[w]]
        /\ sync'.todo = sync.todo \ {w} /\ sync'.pc = "sync"
    BY <1>3 DEF IInv, Types, SyncRecord, RecordedNuid
  <2>2. sync.pc = "install" /\ IsNext(w)
    BY DEF SyncInstall
  <2>3. sync.selected[w] # None /\ sync.selected[w] = store[w] /\ files[w] # None
            => files[w] = store[w]
    BY <2>2 DEF FileInv
  <2>4. /\ sync'.recorded[w] = sync.selected[w]
        /\ \A v \in Wheels : v # w => sync'.recorded[v] = sync.recorded[v]
    BY <2>1 DEF IInv, Types, SyncRecord, NuidOrNone
  <2>5. Agrees(sync.recorded)'
    BY <1>1, <2>3, <2>4 DEF FileInv, Agrees
  <2> QED BY <1>2, <2>1, <2>5 DEF FileInv
<1>4. CASE Raises
  BY <1>2, <1>4, NoSyncFiles DEF Raises
<1> QED BY <1>3, <1>4 DEF SyncInstall

LEMMA SyncSaveFiles ==
    ASSUME IInv, FileInv, SyncSave
    PROVE  FileInv'
<1>1. store' = store /\ files' = files /\ sync' = NoSync
  BY DEF SyncSave, registryVars, Raises
<1>2. manifest' = sync.recorded \/ manifest' = manifest \/ manifest' = Nothing
  BY DEF SyncSave
<1>3. Agrees(manifest)'
  BY <1>1, <1>2, NothingFacts DEF Agrees, FileInv
<1> QED BY <1>1, <1>3, NoSyncFiles

LEMMA StepFiles == IInv /\ FileInv /\ [Next]_vars => FileInv'
<1> SUFFICES ASSUME IInv, FileInv, [Next]_vars PROVE FileInv'
  OBVIOUS
<1>1. CASE ApiStep
  BY <1>1, ApiFiles
<1>2. CASE SyncList
  BY <1>2, SyncListFiles
<1>3. CASE SyncListRaises \/ UNCHANGED vars
  <2>1. UNCHANGED <<store, manifest, files, sync>>
    BY <1>3 DEF SyncListRaises, vars, registryVars, workerVars
  <2> QED BY <2>1 DEF FileInv, Agrees, IsNext
<1>4. CASE \E w \in Wheels : SyncGet(w) \/ SyncInstall(w)
  BY <1>4, SyncGetFiles, SyncInstallFiles
<1>5. CASE SyncSave
  BY <1>5, SyncSaveFiles
<1>6. CASE Crash
  <2>1. UNCHANGED <<store, manifest, files>> /\ sync' = NoSync
    BY <1>6 DEF Crash, Raises, registryVars
  <2> QED BY <2>1, NoSyncFiles DEF FileInv, Agrees
<1> QED BY <1>1, <1>2, <1>3, <1>4, <1>5, <1>6 DEF Next, SyncStep

\* For any wheels, requests and faults: a wheel whose record in .installed.json
\* names the object that is in the store now has that object in its file, so
\* that skipping it is right (_sync_wheels_once skips on the nuid and the file).
THEOREM RecordedWheelsAreFiles == Spec => []RecordedIsFile
<1>1. Init => FileInv
  BY NothingFacts, NoSyncFacts DEF Init, FileInv, Agrees
<1>2. FileInv => RecordedIsFile
  BY DEF FileInv, Agrees, RecordedIsFile, Present
<1> QED BY <1>1, <1>2, StepFiles, IInvHolds, PTL DEF Spec

-----------------------------------------------------------------------------
(* "ok" means installed *)

Has(w) == installed[w[1]].wheel = w

\* Between synchronisations: what is recorded is installed; after one that was
\* cut off, only if its file was not dropped by that one.
AtRest ==
    /\ unsaved = 0 => \A w \in Present(manifest) : Has(w)
    /\ unsaved = 1 => \A w \in Present(manifest) \cap Present(files) : Has(w)
    /\ status.result = "ok" /\ unsaved < 2 => \A w \in status.selected : Has(w)

\* During one: no package has two wheels selected, the files of those that are
\* recorded and not selected are gone, and what needs no install any more is
\* recorded and installed.
UnderWay ==
    /\ Present(sync.recorded) \subseteq Present(sync.selected)
    /\ \A v, w \in Present(sync.selected) : v[1] = w[1] => v = w
    /\ \A w \in Present(manifest) \ Present(sync.selected) : files[w] = None
    /\ unsaved = 0 => \A w \in Present(manifest) \cap Present(sync.selected) : Has(w)
    /\ unsaved < 2 => \A w \in Present(sync.selected) \ sync.todo :
                        w \in Present(sync.recorded) /\ Has(w)

InstalledInv == IF sync.pc = "idle" THEN AtRest ELSE UnderWay

LEMMA SyncListInstalled ==
    ASSUME IInv, InstalledInv, SyncList
    PROVE  InstalledInv'
<1> DEFINE selected == Latest(store)
           recorded == Only(manifest, Present(selected))
           todo == {w \in Wheels : NeedsInstall(w, selected, recorded)}
<1>1. UNCHANGED <<manifest, installed, status, unsaved>> /\ sync.pc = "idle"
  BY DEF SyncList
<1>2. /\ store \in NuidOrNone /\ files \in NuidOrNone /\ manifest \in NuidOrNone
      /\ unsaved \in 0..2
  BY DEF IInv, Types
<1>3. sync' = [pc |-> "sync", selected |-> selected, recorded |-> recorded, todo |-> todo]
  BY DEF SyncList
<1>4. \A v, w \in Present(selected) : v[1] = w[1] => v = w
  BY <1>2, LatestFacts
<1>5. Present(recorded) \subseteq Present(selected)
  BY DEF Only, Present
<1>6. \A w \in Present(manifest) \ Present(selected) : files'[w] = None
  BY DEF SyncList, Only, Present
<1>7. unsaved = 0 => \A w \in Present(manifest) \cap Present(selected) : Has(w)
  BY <1>1 DEF InstalledInv, AtRest
<1>8. unsaved < 2 => \A w \in Present(selected) \ todo : w \in Present(recorded) /\ Has(w)
  <2> SUFFICES ASSUME unsaved < 2, NEW w \in Present(selected), w \notin todo
               PROVE  w \in Present(recorded) /\ Has(w)
    OBVIOUS
  <2>1. w \in Wheels /\ selected[w] # None
    BY DEF Present
  <2>2. recorded[w] = selected[w] /\ files[w] # None
    BY <2>1 DEF NeedsInstall
  <2>3. w \in Present(recorded) /\ w \in Present(files)
    BY <2>1, <2>2 DEF Present
  <2>4. w \in Present(manifest)
    BY <2>3, <1>2, OnlyFacts
  <2>5. unsaved = 0 \/ unsaved = 1
    BY <1>2
  <2> QED BY <1>1, <2>3, <2>4, <2>5 DEF InstalledInv, AtRest
<1>9. UnderWay'
  <2>1. \A w : Has(w)' <=> Has(w)
    BY <1>1 DEF Has
  <2>2. sync'.selected = selected /\ sync'.recorded = recorded /\ sync'.todo = todo
    BY <1>3
  <2>3. Present(manifest)' = Present(manifest)
    BY <1>1
  <2> HIDE DEF selected, recorded, todo
  <2> QED BY <1>1, <1>4, <1>5, <1>6, <1>7, <1>8, <2>1, <2>2, <2>3 DEF UnderWay
<1> QED BY <1>3, <1>9 DEF InstalledInv

LEMMA SyncGetInstalled ==
    ASSUME IInv, InstalledInv, NEW w \in Wheels, SyncGet(w),
           files' = [files EXCEPT ![w] = store[w]],
           sync' = [sync EXCEPT !.pc = "install"], UNCHANGED unsaved
    PROVE  InstalledInv'
<1>1. UNCHANGED <<manifest, installed>> /\ sync.pc = "sync" /\ w \in sync.todo
  BY DEF SyncGet, IsNext
<1>2. /\ sync'.selected = sync.selected /\ sync'.recorded = sync.recorded
      /\ sync'.todo = sync.todo /\ sync'.pc = "install"
  BY DEF IInv, Types, SyncRecord
<1>3. UnderWay
  BY <1>1 DEF InstalledInv
<1>4. \A v \in Present(manifest) \ Present(sync.selected) : files'[v] = None
  <2>1. w \in Present(sync.selected)
    BY <1>1 DEF IInv, OnlySelectable
  <2> QED BY <1>3, <2>1 DEF UnderWay, IInv, Types, NuidOrNone, Present
<1>5. \A v : Has(v)' <=> Has(v)
  BY <1>1 DEF Has
<1>6. UnderWay'
  BY <1>1, <1>2, <1>3, <1>4, <1>5 DEF UnderWay, Present
<1> QED BY <1>2, <1>6 DEF InstalledInv

\* pip touches one package, whose only selected wheel is the one it was given.
LEMMA PipInstalls ==
    ASSUME IInv, UnderWay, NEW w \in Present(sync.selected),
           \/ installed' = [installed EXCEPT ![w[1]] = [wheel |-> w, content |-> files[w]]]
           \/ installed' = installed
    PROVE  \A v \in Present(sync.selected) : Has(v) => Has(v)'
<1> SUFFICES ASSUME NEW v \in Present(sync.selected), Has(v) PROVE Has(v)'
  OBVIOUS
<1>1. w \in Wheels /\ w[1] \in Packages
  BY DEF Present, Packages
<1>2. CASE v[1] = w[1]
  <2>1. v = w
    BY <1>2 DEF UnderWay
  <2> QED BY <1>1, <2>1 DEF Has, IInv, Outside
<1>3. CASE v[1] # w[1]
  <2>1. v[1] \in Packages
    BY DEF Present, Packages
  <2>2. installed'[v[1]] = installed[v[1]]
    BY <1>1, <1>3, <2>1 DEF IInv, Outside
  <2> QED BY <2>2 DEF Has
<1> QED BY <1>2, <1>3

\* Cut off, a synchronisation leaves what is recorded and has a file installed.
LEMMA RaisesInstalled ==
    ASSUME IInv, UnderWay, Raises, UNCHANGED files, manifest' \in {manifest, Nothing},
           \A v \in Present(sync.selected) : Has(v) => Has(v)'
    PROVE  InstalledInv'
<1>1. sync'.pc = "idle" /\ status'.result = "error"
  <2>1. status' = [status EXCEPT !.result = "error"]
    BY DEF Raises, Result
  <2>2. status \in [result : {"idle", "ok", "error"}, selected : SUBSET Selectable]
    BY DEF IInv, Outside
  <2> QED BY <2>1, <2>2, NoSyncFacts DEF Raises
<1>2. unsaved' # 0 /\ (unsaved' = 1 => unsaved = 0)
  BY DEF Raises, IInv, Types
<1>3. ASSUME unsaved' = 1, NEW v \in Present(manifest') \cap Present(files')
      PROVE  Has(v)'
  <2>1. v \in Present(manifest) /\ files[v] # None
    BY <1>3, NothingFacts DEF Present
  <2>2. v \in Present(sync.selected)
    BY <2>1 DEF UnderWay
  <2> QED BY <1>2, <1>3, <2>1, <2>2 DEF UnderWay
<1>4. AtRest'
  BY <1>1, <1>2, <1>3 DEF AtRest
<1> QED BY <1>1, <1>4 DEF InstalledInv

LEMMA SyncInstallInstalled ==
    ASSUME IInv, InstalledInv, NEW w \in Wheels, SyncInstall(w)
    PROVE  InstalledInv'
<1>1. UNCHANGED <<files, manifest>> /\ sync.pc = "install" /\ w \in sync.todo
  BY DEF SyncInstall, IsNext
<1>2. UnderWay /\ w \in Present(sync.selected)
  BY <1>1 DEF InstalledInv, IInv, OnlySelectable
<1>3. \A v \in Present(sync.selected) : Has(v) => Has(v)'
  BY <1>2, PipInstalls DEF SyncInstall
<1>4. CASE /\ installed' = [installed EXCEPT ![w[1]] = [wheel |-> w, content |-> files[w]]]
           /\ sync' = [sync EXCEPT !.pc = "sync", !.recorded[w] = RecordedNuid(w),
                                   !.todo = @ \ {w}]
           /\ UNCHANGED <<status, unsaved, faultsLeft>>
  <2>1. /\ sync'.recorded = [sync.recorded EXCEPT ![w] = sync.selected[w]]
        /\ sync'.selected = sync.selected
        /\ sync'.todo = sync.todo \ {w} /\ sync'.pc = "sync"
    BY <1>4 DEF IInv, Types, SyncRecord, RecordedNuid
  <2>2. Has(w)'
    <3>1. w[1] \in Packages
      BY DEF Packages
    <3> QED BY <1>4, <3>1 DEF Has, IInv, Outside
  <2>3. sync.selected[w] # None
    BY <1>2 DEF Present
  <2>4. Present(sync'.recorded) = Present(sync.recorded) \cup {w}
    BY <2>1, <2>3 DEF Present, IInv, Types, SyncRecord, NuidOrNone
  <2>5. UnderWay'
    <3>1. Present(sync'.recorded) \subseteq Present(sync'.selected)
      BY <1>2, <2>1, <2>4 DEF UnderWay
    <3>2. \A u, v \in Present(sync'.selected) : u[1] = v[1] => u = v
      BY <1>2, <2>1 DEF UnderWay
    <3>3. \A v \in Present(manifest') \ Present(sync'.selected) : files'[v] = None
      BY <1>1, <1>2, <2>1 DEF UnderWay
    <3>4. unsaved' = 0 => \A v \in Present(manifest') \cap Present(sync'.selected) : Has(v)'
      BY <1>1, <1>2, <1>3, <1>4, <2>1 DEF UnderWay
    <3>5. unsaved' < 2 => \A v \in Present(sync'.selected) \ sync'.todo :
                            v \in Present(sync'.recorded) /\ Has(v)'
      BY <1>2, <1>3, <1>4, <2>1, <2>2, <2>4 DEF UnderWay
    <3> QED BY <3>1, <3>2, <3>3, <3>4, <3>5 DEF UnderWay
  <2> QED BY <2>1, <2>5 DEF InstalledInv
<1>5. CASE Raises
  BY <1>1, <1>2, <1>3, <1>5, RaisesInstalled
<1> QED BY <1>4, <1>5 DEF SyncInstall

LEMMA SyncSaveInstalled ==
    ASSUME IInv, InstalledInv, SyncSave
    PROVE  InstalledInv'
<1>1. UNCHANGED <<files, installed>> /\ sync.pc = "sync" /\ sync.todo = {}
  BY DEF SyncSave
<1>2. UnderWay
  BY <1>1 DEF InstalledInv
<1>3. \A v : Has(v)' <=> Has(v)
  BY <1>1 DEF Has
<1>4. CASE /\ manifest' = sync.recorded
           /\ status' = [result |-> "ok", selected |-> Present(sync.selected)]
           /\ sync' = NoSync
           /\ UNCHANGED <<unsaved, faultsLeft>>
  <2>1. unsaved < 2 => \A v \in Present(sync.selected) : Has(v)
    BY <1>1, <1>2 DEF UnderWay
  <2>2. Present(manifest') \subseteq Present(sync.selected)
    BY <1>2, <1>4 DEF UnderWay
  <2>3. AtRest'
    BY <1>3, <1>4, <2>1, <2>2 DEF AtRest
  <2> QED BY <1>4, <2>3, NoSyncFacts DEF InstalledInv
<1>5. CASE Raises /\ manifest' \in {manifest, Nothing}
  BY <1>1, <1>2, <1>3, <1>5, RaisesInstalled
<1> QED BY <1>4, <1>5 DEF SyncSave

\* A step that leaves the worker's part alone.
LEMMA InstalledAlone ==
    ASSUME InstalledInv, UNCHANGED workerVars
    PROVE  InstalledInv'
<1>1. UNCHANGED <<manifest, files, installed, sync, status, unsaved>>
  BY DEF workerVars
<1>2. \A v : Has(v)' <=> Has(v)
  BY <1>1 DEF Has
<1>3. AtRest => AtRest'
  BY <1>1, <1>2 DEF AtRest
<1>4. UnderWay => UnderWay'
  BY <1>1, <1>2 DEF UnderWay
<1> QED BY <1>1, <1>3, <1>4 DEF InstalledInv

LEMMA StepInstalled == IInv /\ InstalledInv /\ [Next]_vars => InstalledInv'
<1> SUFFICES ASSUME IInv, InstalledInv, [Next]_vars PROVE InstalledInv'
  OBVIOUS
<1>1. CASE ApiStep \/ UNCHANGED vars
  BY <1>1, InstalledAlone
     DEF ApiStep, UploadList, DeleteInfo, UploadRefused, UploadPut, Delete, vars
<1>2. CASE SyncList
  BY <1>2, SyncListInstalled
<1>3. CASE SyncListRaises
  <2>1. UNCHANGED <<manifest, files, installed, sync, unsaved>> /\ sync.pc = "idle"
    BY <1>3 DEF SyncListRaises
  <2>2. status' = [status EXCEPT !.result = "error"]
    BY <1>3 DEF SyncListRaises, Result
  <2>3. status'.result = "error"
    BY <2>2 DEF IInv, Outside
  <2>4. \A v : Has(v)' <=> Has(v)
    BY <2>1 DEF Has
  <2> QED BY <2>1, <2>3, <2>4 DEF InstalledInv, AtRest
<1>4. ASSUME NEW w \in Wheels, SyncGet(w)
      PROVE  InstalledInv'
  <2>1. CASE /\ files' = [files EXCEPT ![w] = store[w]]
             /\ sync' = [sync EXCEPT !.pc = "install"]
             /\ UNCHANGED unsaved
    BY <1>4, <2>1, SyncGetInstalled
  <2>2. CASE Raises /\ UNCHANGED files
    <3>1. UnderWay /\ UNCHANGED <<manifest, installed>>
      BY <1>4 DEF SyncGet, InstalledInv
    <3> QED BY <2>2, <3>1, RaisesInstalled DEF Has
  <2> QED BY <1>4, <2>1, <2>2 DEF SyncGet
<1>5. ASSUME NEW w \in Wheels, SyncInstall(w)
      PROVE  InstalledInv'
  BY <1>5, SyncInstallInstalled
<1>6. CASE SyncSave
  BY <1>6, SyncSaveInstalled
<1>7. CASE Crash
  <2>1. UnderWay /\ UNCHANGED <<manifest, installed, files>> /\ Raises
    BY <1>7 DEF Crash, InstalledInv
  <2> QED BY <2>1, RaisesInstalled DEF Has
<1> QED BY <1>1, <1>2, <1>3, <1>4, <1>5, <1>6, <1>7 DEF Next, SyncStep

\* For any wheels, requests and faults: when a synchronisation says "ok", every
\* package it selected is installed in the selected version, also when the
\* synchronisation before it was cut off at any point after its listing
\* (_sync_wheels_once: the manifest is saved once, after the last install).
THEOREM OkWheelsAreInstalled == Spec => []OkMeansInstalled
<1>1. Init => InstalledInv
  <2> SUFFICES ASSUME Init PROVE InstalledInv
    OBVIOUS
  <2>1. sync.pc = "idle" /\ Present(manifest) = {} /\ status.result # "ok"
    BY NothingFacts, NoSyncFacts DEF Init
  <2> QED BY <2>1 DEF InstalledInv, AtRest
<1>2. InstalledInv => OkMeansInstalled
  BY DEF InstalledInv, AtRest, OkMeansInstalled, Has
<1> QED BY <1>1, <1>2, StepInstalled, IInvHolds, PTL DEF Spec

=============================================================================
