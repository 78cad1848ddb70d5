----------------------------- MODULE WheelSync ------------------------------
(***************************************************************************)
(* The wheel registry, an object store the API uploads to and deletes      *)
(* from, and the worker that brings its installed packages in line with    *)
(* it: list the store, keep the latest wheel of each package, drop files   *)
(* that are no longer wanted, fetch and install what changed, and record   *)
(* it in a manifest file that is saved once, at the end.                   *)
(*                                                                         *)
(* A wheel is <<package, version>>; an upload gives its object a new nuid, *)
(* which here also stands for the content.  Wheels outside Selectable have *)
(* tags that the worker or its platform does not match.                    *)
(*                                                                         *)
(* External: listing a store without objects raises NotFoundError, which   *)
(* the API's handlers turn into an empty list.                             *)
(***************************************************************************)
EXTENDS Integers, FiniteSets

CONSTANTS
    Wheels,         \* the file names: <<package, version>>
    Selectable,     \* those the worker may install
    Requests,       \* API requests in progress at a time
    MaxUploads,     \* bound: uploads
    MaxFaults       \* bound: calls that fail, crashes

ASSUME WheelAssumption ==
    /\ Wheels \subseteq (Nat \X (Nat \ {0})) /\ IsFiniteSet(Wheels) /\ Wheels # {}
    /\ Selectable \subseteq Wheels
    /\ IsFiniteSet(Requests)
    /\ MaxUploads \in Nat
    /\ MaxFaults \in Nat

VARIABLES
    store,          \* wheel -> nuid of its object, or None
    uploads,        \* nuids given out
    request,        \* API request -> where it stands
    files,          \* the sync directory: wheel -> content, or None
    manifest,       \* .installed.json: wheel -> nuid, or None
    installed,      \* package -> wheel and content pip installed last
    sync,           \* the synchronisation in progress
    status,         \* wheel_sync in the worker's record: its result, the wheels selected
    unsaved,        \* history: synchronisations cut off after the listing (up to 2)
    faultsLeft

registryVars == <<store, uploads, request>>
workerVars == <<files, manifest, installed, sync, status, unsaved>>
vars == <<registryVars, workerVars, faultsLeft>>

None == 0
Nuids == 1..MaxUploads
Packages == {w[1] : w \in Wheels}
NuidOrNone == [Wheels -> Nuids \cup {None}]
Nothing == [w \in Wheels |-> None]
Present(of) == {w \in Wheels : of[w] # None}

Charge(ok) ==
    /\ ok \/ faultsLeft > 0
    /\ faultsLeft' = IF ok THEN faultsLeft ELSE faultsLeft - 1

-----------------------------------------------------------------------------
(* The API *)

Idle == [pc |-> "idle", wheel |-> CHOOSE w \in Wheels : TRUE]
Goto(r, pc, w) == request' = [request EXCEPT ![r] = [pc |-> pc, wheel |-> w]]

\* Refused (409) unless it is newer than every wheel of its package.
IsNewer(w) == \A other \in Present(store) : other[1] = w[1] => other[2] < w[2]

\* upload_wheel, up to its listing; one that raises anything but a NatsError
\* counts as empty.
UploadList(r, w) ==
    /\ request[r].pc = "idle"
    /\ uploads + Cardinality({q \in Requests : request[q].pc = "put"}) < MaxUploads
    /\ \E listed \in BOOLEAN : Charge(listed) /\ (listed => IsNewer(w))
    /\ Goto(r, "put", w)
    /\ UNCHANGED <<store, uploads, workerVars>>

\* With replace=false the name is looked up once more: 409 when it is there now.
UploadRefused(r) ==
    /\ request[r].pc = "put"
    /\ store[request[r].wheel] # None
    /\ request' = [request EXCEPT ![r] = Idle]
    /\ UNCHANGED <<store, uploads, workerVars, faultsLeft>>

\* The put is unconditional, and may raise although it was applied.
UploadPut(r) ==
    LET w == request[r].wheel IN
    /\ request[r].pc = "put"
    /\ \E ok, applied \in BOOLEAN :
        /\ ok => applied
        /\ Charge(ok)
        /\ uploads' = uploads + 1
        /\ store' = IF applied THEN [store EXCEPT ![w] = uploads'] ELSE store
    /\ request' = [request EXCEPT ![r] = Idle]
    /\ UNCHANGED workerVars

\* delete_wheel: get_info (404), then the delete of whatever object is there.
DeleteInfo(r, w) ==
    /\ request[r].pc = "idle"
    /\ store[w] # None
    /\ Goto(r, "delete", w)
    /\ UNCHANGED <<store, uploads, workerVars, faultsLeft>>

Delete(r) ==
    LET w == request[r].wheel IN
    /\ request[r].pc = "delete"
    /\ \E ok, applied \in BOOLEAN :
        /\ ok => applied
        /\ Charge(ok)
        /\ store' = IF applied THEN [store EXCEPT ![w] = None] ELSE store
    /\ request' = [request EXCEPT ![r] = Idle]
    /\ UNCHANGED <<uploads, workerVars>>

-----------------------------------------------------------------------------
(* The worker's synchronisation *)

\* "selected" is what the listing showed of the wheels to have, "recorded" the
\* manifest in memory, "todo" the wheels that are still to be installed.
SyncRecord ==
    [pc : {"idle", "sync", "install"},
     selected : NuidOrNone, recorded : NuidOrNone, todo : SUBSET Wheels]

NoSync == [pc |-> "idle", selected |-> Nothing, recorded |-> Nothing, todo |-> {}]

Result(result) == status' = [status EXCEPT !.result = result]

\* The synchronisation raised: the manifest in memory is lost.
Raises ==
    /\ sync' = NoSync
    /\ unsaved' = IF unsaved < 2 THEN unsaved + 1 ELSE unsaved
    /\ Result("error")

\* (The latest wheel of each package, whatever its tags.)
LatestOfAll(of) ==
    [w \in Wheels |-> IF \A v \in Present(of) : v[1] = w[1] => v[2] <= w[2] THEN of[w] ELSE None]

\* The latest wheel of each package.
Latest(of) ==
    [w \in Wheels |->
        IF w \in Selectable /\ \A v \in Selectable \cap Present(of) : v[1] = w[1] => v[2] <= w[2]
        THEN of[w] ELSE None]

Only(of, wheels) == [w \in Wheels |-> IF w \in wheels THEN of[w] ELSE None]

\* (A wheel is installed when its name is not recorded.)
IsUnrecorded(w, selected, recorded) ==
    selected[w] # None /\ (recorded[w] = None \/ files[w] = None)

\* (A wheel is installed when the manifest does not name its object.)
IsNotInManifest(w, selected, recorded) == selected[w] # None /\ recorded[w] # selected[w]

\* A wheel is installed unless its object is recorded and its file is there.
NeedsInstall(w, selected, recorded) ==
    /\ selected[w] # None
    /\ recorded[w] # selected[w] \/ files[w] = None

\* The manifest is read and the store listed; files of recorded wheels that are
\* not selected any more are removed, and forgotten.
SyncList ==
    LET selected == Latest(store)
        recorded == Only(manifest, Present(selected))
    IN
    /\ sync.pc = "idle"
    /\ Present(store) # {}
    /\ sync' = [pc |-> "sync", selected |-> selected, recorded |-> recorded,
                todo |-> {w \in Wheels : NeedsInstall(w, selected, recorded)}]
    /\ files' = Only(files, Wheels \ (Present(manifest) \ Present(selected)))
    /\ UNCHANGED <<registryVars, manifest, installed, status, unsaved, faultsLeft>>

\* The listing raises, as it does when the store is empty.
SyncListRaises ==
    /\ sync.pc = "idle"
    /\ Charge(Present(store) = {})
    /\ Result("error")
    /\ UNCHANGED <<registryVars, files, manifest, installed, sync, unsaved>>

\* Sorted by name: there is one wheel of each package.
IsNext(w) == w \in sync.todo /\ \A v \in sync.todo : w[1] <= v[1]

\* The object may be gone by now, or be another one than the listing showed.
SyncGet(w) ==
    /\ sync.pc = "sync" /\ IsNext(w)
    /\ \/ /\ store[w] # None
          /\ files' = [files EXCEPT ![w] = store[w]]
          /\ sync' = [sync EXCEPT !.pc = "install"]
          /\ UNCHANGED <<status, unsaved, faultsLeft>>
       \/ /\ Charge(store[w] = None)
          /\ Raises
          /\ UNCHANGED files
    /\ UNCHANGED <<registryVars, manifest, installed>>

\* (What is recorded is the object the store has now.)
CurrentNuid(w) == store[w]

\* The nuid that is recorded is the one of the listing.
RecordedNuid(w) == sync.selected[w]

\* pip install; when it fails or times out it may have done its work.
SyncInstall(w) ==
    LET Pip == installed' = [installed EXCEPT ![w[1]] = [wheel |-> w, content |-> files[w]]] IN
    /\ sync.pc = "install" /\ IsNext(w)
    /\ \/ /\ Pip
          /\ sync' = [sync EXCEPT !.pc = "sync", !.recorded[w] = RecordedNuid(w),
                                  !.todo = @ \ {w}]
          /\ UNCHANGED <<status, unsaved, faultsLeft>>
       \/ /\ Charge(FALSE)
          /\ Raises
          /\ Pip \/ UNCHANGED installed
    /\ UNCHANGED <<registryVars, files, manifest>>

\* The manifest is written when it changed; one that cannot be read counts as
\* an empty one.
SyncSave ==
    /\ sync.pc = "sync" /\ sync.todo = {}
    /\ \/ /\ manifest' = sync.recorded
          /\ status' = [result |-> "ok", selected |-> Present(sync.selected)]
          /\ sync' = NoSync
          /\ UNCHANGED <<unsaved, faultsLeft>>
       \/ /\ manifest # sync.recorded
          /\ Charge(FALSE)
          /\ Raises
          /\ manifest' \in {manifest, Nothing}
    /\ UNCHANGED <<registryVars, files, installed>>

\* The worker dies in the middle of a synchronisation and is started again.
Crash ==
    /\ sync.pc # "idle"
    /\ Charge(FALSE)
    /\ Raises
    /\ UNCHANGED <<registryVars, files, manifest, installed>>

-----------------------------------------------------------------------------
(* The specification *)

Init ==
    /\ store = Nothing /\ uploads = 0
    /\ request = [r \in Requests |-> Idle]
    /\ files = Nothing /\ manifest = Nothing
    /\ installed = [p \in Packages |-> [wheel |-> Idle.wheel, content |-> None]]
    /\ sync = NoSync
    /\ status = [result |-> "idle", selected |-> {}]
    /\ unsaved = 0
    /\ faultsLeft = MaxFaults

ApiStep ==
    \E r \in Requests :
        \/ \E w \in Wheels : UploadList(r, w) \/ DeleteInfo(r, w)
        \/ UploadRefused(r) \/ UploadPut(r) \/ Delete(r)

SyncStep ==
    \/ SyncList \/ SyncListRaises
    \/ \E w \in Wheels : SyncGet(w) \/ SyncInstall(w)
    \/ SyncSave

Next == ApiStep \/ SyncStep \/ Crash

Spec == Init /\ [][Next]_vars

\* The worker synchronises again and again; the API's users do what they like.
FairSpec == Spec /\ WF_vars(SyncStep)

-----------------------------------------------------------------------------
(* Properties *)

\* The variables have their types: no wheel is recorded, kept or installed that
\* was never uploaded or may not be installed.
TypeOK ==
    /\ store \in NuidOrNone /\ uploads \in 0..MaxUploads
    /\ request \in [Requests -> [pc : {"idle", "put", "delete"}, wheel : Wheels]]
    /\ files \in NuidOrNone /\ manifest \in NuidOrNone
    /\ Present(files) \cup Present(manifest) \subseteq Selectable
    /\ installed \in [Packages -> [wheel : Wheels, content : 0..uploads]]
    /\ sync \in SyncRecord
    /\ status \in [result : {"idle", "ok", "error"}, selected : SUBSET Selectable]
    /\ unsaved \in 0..2 /\ faultsLeft \in 0..MaxFaults

\* A wheel the manifest records with the object that is in the store now has
\* that object's content in its file, if it has a file, although uploads and
\* deletes come between listing, fetching, installing and saving.
RecordedIsFile ==
    \A w \in Present(manifest) :
        manifest[w] = store[w] /\ files[w] # None => files[w] = store[w]

\* A synchronisation that says "ok" leaves the latest version of every package
\* it selected installed, also when one before it was cut off between the first
\* install and the manifest's save.  (Two that were can hide a failed install.)
OkMeansInstalled ==
    status.result = "ok" /\ sync.pc = "idle" /\ unsaved < 2 =>
        \A w \in status.selected : installed[w[1]].wheel = w

InLine ==
    /\ status = [result |-> "ok", selected |-> Present(Latest(store))]
    /\ manifest = Latest(store)
    /\ \A w \in status.selected : installed[w[1]] = [wheel |-> w, content |-> store[w]]

\* Once the store is left alone with some wheel in it, the worker gets to the
\* latest uploads of all packages, forgets every other wheel and reports "ok",
\* after any failure of one synchronisation.
SyncConverges ==
    <>[](Present(store) # {} /\ unsaved < 2) => <>[](sync.pc = "idle" => InLine)

\* What the documentation says of a deleted wheel: the worker removes its file.
\* The last wheel of the store is never removed.
DeletedIsRemoved ==
    \A w \in Wheels : <>[](store[w] = None /\ unsaved = 0) => <>[](manifest[w] = None)

=============================================================================
