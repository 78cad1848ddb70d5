----------------------------- MODULE RunGateway -----------------------------
(***************************************************************************)
(* The HTTP gateway's handlers that write a run: submit (a flow by name,   *)
(* inline YAML, or a bundle), approve, reject and cancel, and the direct   *)
(* NATS client's submit.  A request is one call of a handler; each of its  *)
(* awaited NATS calls is a step, so requests interleave with each other    *)
(* and with the workers exactly at the awaits.                             *)
(***************************************************************************)
EXTENDS RunStore

CONSTANTS
    Requests,       \* the API calls made in a behaviour (each at most once)
    ReqKind,        \* what each call is
    ReqRun          \* the run it is about

\* "submit" is POST /runs and POST /runs/yaml, "bundle" a bundle without
\* reachable spawn tasks, "spawnBundle" one with, "client" the direct client.
SubmitKinds == {"submit", "bundle", "spawnBundle", "client"}
Kinds == SubmitKinds \cup {"approve", "reject", "cancel"}

ASSUME GatewayAssumption ==
    /\ ReqKind \in [Requests -> Kinds]
    /\ ReqRun \in [Requests -> Runs]
    \* run ids are fresh uuids: one submit per run
    /\ \A p, q \in Requests :
        ReqKind[p] \in SubmitKinds /\ ReqKind[q] \in SubmitKinds /\ ReqRun[p] = ReqRun[q]
            => p = q

VARIABLE request    \* request -> [pc, seen, answer]

RequestRecord ==
    [pc : {"new", "relate", "put", "publish", "undo", "done"},
     seen : Snapshot,                               \* what its kv.get returned
     answer : {"none", "accepted", "refused", "failed"}]  \* 200, 4xx, 5xx

GatewayTypeOK == request \in [Requests -> RequestRecord]

GatewayInit ==
    request = [q \in Requests |-> [pc |-> "new", seen |-> Absent, answer |-> "none"]]

Goto(q, pc) == request' = [request EXCEPT ![q].pc = pc]
Answer(q, answer) ==
    request' = [request EXCEPT ![q].pc = "done", ![q].answer = answer]

At(q, pc, kinds) == request[q].pc = pc /\ ReqKind[q] \in kinds

-----------------------------------------------------------------------------
(* Submitting *)

InitialSnapshot(kind) ==
    CASE kind = "spawnBundle" -> Snap("PENDING_APPROVAL", FALSE, "pending")
      [] kind \in {"submit", "bundle", "client"} -> Snap("PENDING", FALSE, "none")

\* The first write.  POST /runs cleans up after a nats error here; a bundle
\* submit and the client do not (the put is outside create_run_record's try).
SubmitPut(q) ==
    /\ At(q, "new", SubmitKinds)
    /\ \E applied \in BOOLEAN, err \in Errors :
        /\ Remote(applied, err)
        /\ PutRun(ReqRun[q], InitialSnapshot(ReqKind[q]), applied)
        /\ \/ /\ err = "none"
              /\ Goto(q, IF ReqKind[q] \in {"bundle", "spawnBundle"} THEN "relate" ELSE "publish")
           \/ err = "NatsError" /\ ReqKind[q] = "submit" /\ Goto(q, "undo")
           \/ err # "none" /\ (err = "NatsError" => ReqKind[q] # "submit") /\ Answer(q, "failed")
    /\ UNCHANGED workStream

\* create_run_record: the parent/child relation record, then the publish if
\* the run needs no approval; any exception from either undoes the snapshot.
RelatePut(q) ==
    /\ At(q, "relate", {"bundle", "spawnBundle"})
    /\ \E applied \in BOOLEAN, err \in Errors :
        /\ Remote(applied, err)
        /\ \/ err # "none" /\ Goto(q, "undo")
           \/ err = "none" /\ ReqKind[q] = "bundle" /\ Goto(q, "publish")
           \/ err = "none" /\ ReqKind[q] = "spawnBundle" /\ Answer(q, "accepted")
    /\ UNCHANGED <<runsKv, reached, workStream>>

\* What a failed publish leads to, by the except clause that catches it.
CleansUpAfter(kind, err) ==
    \/ kind = "bundle"
    \/ kind \in {"submit", "approve"} /\ err = "NatsError"

PublishJob(q) ==
    /\ At(q, "publish", {"submit", "bundle", "client", "approve"})
    /\ \E applied \in BOOLEAN, err \in Errors :
        /\ Remote(applied, err)
        /\ PublishRun(ReqRun[q], applied)
        /\ \/ err = "none" /\ Answer(q, "accepted")
           \/ err # "none" /\ CleansUpAfter(ReqKind[q], err) /\ Goto(q, "undo")
           \/ err # "none" /\ ~CleansUpAfter(ReqKind[q], err) /\ Answer(q, "failed")
    /\ UNCHANGED <<runsKv, reached>>

\* Best effort: delete the new snapshot, or put back the one approve read.
Undo(q) ==
    /\ request[q].pc = "undo"
    /\ \E applied \in BOOLEAN, err \in Errors :
        /\ Remote(applied, err)
        /\ PutRun(ReqRun[q], IF ReqKind[q] = "approve" THEN request[q].seen ELSE Absent, applied)
    /\ Answer(q, "failed")
    /\ UNCHANGED workStream

-----------------------------------------------------------------------------
(* Approve, reject, cancel: read, decide on what was read, write blindly *)

\* The write a decision makes on the snapshot it read.
Decided(kind, seen) ==
    CASE kind = "approve" -> Snap("PENDING", seen.cancel, "approved")
      [] kind = "reject" -> Snap("CANCELLED", seen.cancel, "rejected")
      [] kind = "cancel" /\ seen.status = "PENDING_APPROVAL" ->
            Snap("CANCELLED", seen.cancel, seen.approval)
      [] kind = "cancel" /\ seen.status # "PENDING_APPROVAL" ->
            Snap("CANCELLING", TRUE, seen.approval)

\* (Approve and reject accepted on any run that is found.)
DecidableIfFound(kind, seen) ==
    seen.status \notin IF kind = "cancel" THEN Terminal \cup {"absent"} ELSE {"absent"}

\* The status check: approve and reject want a waiting run, cancel one that can
\* still be stopped.
Decidable(kind, seen) ==
    IF kind = "cancel" THEN seen.status \notin Terminal \cup {"absent"}
                       ELSE seen.status = "PENDING_APPROVAL"

\* kv.get and the check; approve also loads the stored bundle, whose failure
\* ends the request as a failed kv.get does.  Cancelling a terminal run is
\* accepted and writes nothing.
ReadRun(q) ==
    /\ At(q, "new", {"approve", "reject", "cancel"})
    /\ \E err \in Errors :
        LET seen == runsKv[ReqRun[q]] IN
        /\ Remote(TRUE, err)
        /\ \/ err # "none" /\ Answer(q, "failed")
           \/ /\ err = "none"
              /\ Decidable(ReqKind[q], seen)
              /\ request' = [request EXCEPT ![q] =
                    [pc |-> "put", seen |-> seen, answer |-> "none"]]
           \/ /\ err = "none"
              /\ ~Decidable(ReqKind[q], seen)
              /\ request' = [request EXCEPT ![q] =
                    [pc |-> "done", seen |-> seen,
                     answer |-> IF ReqKind[q] = "cancel" /\ seen.status # "absent"
                                THEN "accepted" ELSE "refused"]]
    /\ UNCHANGED <<runsKv, reached, workStream>>

DecisionPut(q) ==
    /\ At(q, "put", {"approve", "reject", "cancel"})
    /\ \E applied \in BOOLEAN, err \in Errors :
        /\ Remote(applied, err)
        /\ PutRun(ReqRun[q], Decided(ReqKind[q], request[q].seen), applied)
        /\ \/ err = "none" /\ ReqKind[q] = "approve" /\ Goto(q, "publish")
           \/ err = "none" /\ ReqKind[q] # "approve" /\ Answer(q, "accepted")
           \/ err = "NatsError" /\ ReqKind[q] = "approve" /\ Goto(q, "undo")
           \/ err # "none" /\ (err = "NatsError" => ReqKind[q] # "approve") /\ Answer(q, "failed")
    /\ UNCHANGED workStream

-----------------------------------------------------------------------------
\* The gateway process dies between two awaits: the request ends where it is.
GatewayCrash(q) ==
    /\ request[q].pc \notin {"new", "done"}
    /\ faultsLeft > 0
    /\ faultsLeft' = faultsLeft - 1
    /\ Answer(q, "failed")
    /\ UNCHANGED <<runsKv, reached, workStream>>

RequestStep(q) ==
    SubmitPut(q) \/ RelatePut(q) \/ PublishJob(q) \/ Undo(q) \/ ReadRun(q) \/ DecisionPut(q)

GatewayNext == \E q \in Requests : RequestStep(q) \/ GatewayCrash(q)

=============================================================================
