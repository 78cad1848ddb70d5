----------------------------- MODULE RunListing -----------------------------
(***************************************************************************)
(* How a client follows the runs bucket: GET /runs, page by page along     *)
(* next_cursor, and GET /runs/{run_id}/watch, a stream of snapshots, while *)
(* gateways and workers go on writing.  Nothing is locked: a page is put   *)
(* together key by key, and a snapshot carries the time its writer read    *)
(* before the put, so puts need not land in the order of their times.      *)
(*                                                                         *)
(* A snapshot is its updated_at and the bucket's revision of its put.  The *)
(* filters by status, flow, tag, schedule and tenant are left out: what    *)
(* they keep of the runs nobody writes to is a smaller bucket.             *)
(*                                                                         *)
(* External: the clients.  The handlers only read, so one client at a time *)
(* is enough.                                                              *)
(***************************************************************************)
EXTENDS Integers, FiniteSets

CONSTANTS
    Runs,           \* run ids, as numbers in the order of the uuid strings
    PageSizes,      \* values of limit
    WatchTime,      \* timeout_sec
    MaxTime,        \* bound: the clock
    MaxPuts,        \* bound: puts
    MaxFaults       \* bound: reads that fail

ASSUME ListingAssumption ==
    /\ Runs \subseteq Nat \ {0} /\ IsFiniteSet(Runs)
    /\ PageSizes \subseteq Nat \ {0}
    /\ WatchTime \in Nat \ {0}
    /\ MaxTime \in Nat \ {0} /\ MaxPuts \in Nat /\ MaxFaults \in Nat

VARIABLES
    clock,
    runsKv,         \* run -> snapshot
    revision,       \* of the bucket: its last put
    stamped,        \* puts under way: run and updated_at
    client,         \* "lists" or "watches"
    walk,           \* the client's walk along the pages
    listed,         \* run -> times it appeared in the walk
    touched,        \* history: runs put since the walk began
    backdated,      \* history: those whose updated_at went back
    watch,          \* the stream of GET /runs/{run_id}/watch
    shown,          \* the last event the client received
    faultsLeft

bucketVars == <<clock, runsKv, revision, stamped>>
walkVars == <<walk, listed, touched, backdated>>
watchVars == <<watch, shown>>
vars == <<bucketVars, client, walkVars, watchVars, faultsLeft>>

Times == 1..MaxTime
None == -1          \* a query without updated_after or since
Revisions == 0..MaxPuts
Snapshot == [rev : Revisions, stamp : Times \cup {None}]
Absent == [rev |-> 0, stamp |-> None]
\* (A read that finds no key taken for a snapshot.)
StoredOrNot == Runs
Stored == {r \in Runs : runsKv[r].rev > 0}

Charge ==
    /\ faultsLeft > 0
    /\ faultsLeft' = faultsLeft - 1

-----------------------------------------------------------------------------
(* The writers *)

Tick ==
    /\ clock < MaxTime
    /\ clock' = clock + 1
    /\ UNCHANGED <<runsKv, revision, stamped, client, walkVars, watchVars, faultsLeft>>

\* A writer builds a snapshot: updated_at = time.time().
Stamp(r) ==
    /\ revision + Cardinality(stamped) < MaxPuts
    /\ stamped' = stamped \cup {<<r, clock>>}
    /\ UNCHANGED <<clock, runsKv, revision, client, walkVars, watchVars, faultsLeft>>

\* ... and its put reaches the bucket.
Put(r, stamp) ==
    /\ <<r, stamp>> \in stamped
    /\ stamped' = stamped \ {<<r, stamp>>}
    /\ revision' = revision + 1
    /\ runsKv' = [runsKv EXCEPT ![r] = [rev |-> revision', stamp |-> stamp]]
    /\ IF walk.pc = "idle" THEN UNCHANGED <<touched, backdated>>
       ELSE /\ touched' = touched \cup {r}
            /\ backdated' = IF stamp < runsKv[r].stamp THEN backdated \cup {r} ELSE backdated
    /\ UNCHANGED <<clock, client, walk, listed, watchVars, faultsLeft>>

-----------------------------------------------------------------------------
(* GET /runs *)

\* The order of the listing, newest first: by updated_at, then run id.
SortKey(r, stamp) == <<stamp, r>>
Below(a, b) == a[1] < b[1] \/ (a[1] = b[1] /\ a[2] < b[2])
NoCursor == <<MaxTime + 1, 0>>      \* above every key

\* The first `limit` of a set of keys.
Page(keys, limit) == {k \in keys : Cardinality({other \in keys : Below(k, other)}) < limit}
Last(page) == CHOOSE k \in page : \A other \in page : other = k \/ Below(k, other)

Idle == [pc |-> "idle", limit |-> 1, after |-> None,
         cursor |-> NoCursor, keys |-> {}, found |-> {}, cut |-> FALSE]
Walking == walk.pc \in {"keys", "read"}
\* Asked with updated_after or a cursor: the answer says whether there is more.
Pages(w) == w.after # None \/ w.cursor # NoCursor

\* The first request of a walk, with updated_after and limit.
StartWalk(limit, after) ==
    /\ client = "lists" /\ walk.pc = "idle"
    /\ walk' = [Idle EXCEPT !.pc = "keys", !.limit = limit, !.after = after]
    /\ UNCHANGED <<bucketVars, client, listed, touched, backdated, watchVars, faultsLeft>>

\* The keys of the bucket.  Listing an empty one raises (NoKeysError, which is a
\* NatsError): 503.
ListKeys ==
    /\ walk.pc = "keys"
    /\ walk' = IF Stored = {}
               THEN [walk EXCEPT !.pc = "failed"]
               ELSE [walk EXCEPT !.pc = "read", !.keys = Stored, !.found = {}]
    /\ UNCHANGED <<bucketVars, client, listed, touched, backdated, watchVars, faultsLeft>>

\* An error that is not a NatsError counts as an empty bucket, and the answer
\* has no next_cursor.
ListKeysSwallowed ==
    /\ walk.pc = "keys"
    /\ Charge
    /\ walk' = [walk EXCEPT !.pc = "done", !.cut = TRUE]
    /\ UNCHANGED <<bucketVars, client, listed, touched, backdated, watchVars>>

\* 503, or 500 out of a snapshot's read: the client has no answer.
ListFails ==
    /\ Walking
    /\ Charge
    /\ walk' = [walk EXCEPT !.pc = "failed"]
    /\ UNCHANGED <<bucketVars, client, listed, touched, backdated, watchVars>>

\* One snapshot of the listing is read.
ReadSnapshot(r) ==
    /\ walk.pc = "read"
    /\ r \in walk.keys
    /\ walk' = [walk EXCEPT !.keys = @ \ {r},
                            !.found = @ \cup {SortKey(r, runsKv[r].stamp)}]
    /\ UNCHANGED <<bucketVars, client, listed, touched, backdated, watchVars, faultsLeft>>

\* (A cursor of the time alone: ties are skipped, or repeated.)
PastTime(k, cursor) == k[1] < cursor[1]
FromTime(k, cursor) == k[1] <= cursor[1]
PastCursor(k, cursor) == cursor = NoCursor \/ Below(k, cursor)

\* What is left of the snapshots for this page and the next ones.
Remaining(w) ==
    {k \in w.found : (w.after = None \/ k[1] > w.after) /\ PastCursor(k, w.cursor)}

\* The page is answered; a client that gets a next_cursor asks with it again.
AnswerPage ==
    /\ walk.pc = "read" /\ walk.keys = {}
    /\ LET page == Page(Remaining(walk), walk.limit)
           more == Pages(walk) /\ Cardinality(Remaining(walk)) > walk.limit
       IN  /\ listed' = [r \in Runs |->
                    listed[r] + Cardinality({k \in page : k[2] = r})]
           /\ walk' = IF more
                      THEN [walk EXCEPT !.pc = "keys", !.cursor = Last(page), !.found = {}]
                      ELSE [walk EXCEPT !.pc = "done", !.found = {}]
    /\ UNCHANGED <<bucketVars, client, touched, backdated, watchVars, faultsLeft>>

-----------------------------------------------------------------------------
(* GET /runs/{run_id}/watch *)

NoWatch == [pc |-> "off", run |-> 0, since |-> None, rev |-> 0, deadline |-> 0]
NothingShown == [run |-> 0, rev |-> 0, stamp |-> None]

\* (Only what is newer than the last event.)
PassesIfNewer(snap, since) == since = None \/ snap.stamp > since
Passes(snap, since) == since = None \/ snap.stamp >= since
Event(r, snap) == [run |-> r, rev |-> snap.rev, stamp |-> snap.stamp]

\* The first read; 404 without a snapshot.  A client that comes back asks for
\* what is not older than its last event.
OpenWatch(r) ==
    /\ client = "watches" /\ watch.pc = "off"
    /\ r \in Stored
    /\ shown.run \in {0, r}
    /\ LET since == shown.stamp
       IN  /\ watch' = [pc |-> "sleep", run |-> r, since |-> since,
                        rev |-> runsKv[r].rev, deadline |-> clock + WatchTime]
           /\ shown' = IF Passes(runsKv[r], since) THEN Event(r, runsKv[r]) ELSE shown
    /\ UNCHANGED <<bucketVars, client, walkVars, faultsLeft>>

\* After half a second: a new revision is sent, unless it is older than since,
\* and the loop goes on before the deadline.  (Heartbeat events say nothing.)
PollWatch ==
    /\ watch.pc = "sleep"
    /\ LET snap == runsKv[watch.run]
       IN  /\ watch' = IF clock < watch.deadline THEN [watch EXCEPT !.rev = snap.rev]
                       ELSE NoWatch
           /\ shown' = IF snap.rev # watch.rev /\ Passes(snap, watch.since)
                       THEN Event(watch.run, snap) ELSE shown
    /\ UNCHANGED <<bucketVars, client, walkVars, faultsLeft>>

\* A read fails and the stream ends without a word, or its client has left.
WatchFails ==
    /\ watch.pc = "sleep"
    /\ Charge
    /\ watch' = NoWatch
    /\ UNCHANGED <<bucketVars, client, walkVars, shown>>
ClientLeaves ==
    /\ watch.pc = "sleep"
    /\ watch' = NoWatch
    /\ UNCHANGED <<bucketVars, client, walkVars, shown, faultsLeft>>

-----------------------------------------------------------------------------
(* The specification *)

Walks == [pc : {"idle", "keys", "read", "done", "failed"}, limit : Nat \ {0},
          after : 0..MaxTime \cup {None}, cursor : Times \X Runs \cup {NoCursor},
          keys : SUBSET Runs, found : SUBSET (Times \X Runs), cut : BOOLEAN]
Watches == [pc : {"off", "sleep"}, run : Runs \cup {0}, since : Times \cup {None},
            rev : Revisions, deadline : Nat]
Events == [run : Runs \cup {0}, rev : Revisions, stamp : Times \cup {None}]

TypeOK ==
    /\ clock \in Times
    /\ runsKv \in [Runs -> Snapshot]
    /\ revision \in Revisions
    /\ stamped \subseteq Runs \X Times
    /\ client \in {"lists", "watches"}
    /\ walk \in Walks
    /\ listed \in [Runs -> Nat]
    /\ touched \subseteq Runs /\ backdated \subseteq touched
    /\ watch \in Watches
    /\ shown \in Events
    /\ faultsLeft \in 0..MaxFaults

Init ==
    /\ clock = 1
    /\ runsKv = [r \in Runs |-> Absent]
    /\ revision = 0
    /\ stamped = {}
    /\ client \in {"lists", "watches"}
    /\ walk = Idle
    /\ listed = [r \in Runs |-> 0]
    /\ touched = {} /\ backdated = {}
    /\ watch = NoWatch
    /\ shown = NothingShown
    /\ faultsLeft = MaxFaults

Write ==
    \/ Tick
    \/ \E r \in Runs : Stamp(r)
    \/ \E put \in stamped : Put(put[1], put[2])

List ==
    \/ \E limit \in PageSizes, after \in 0..MaxTime \cup {None} : StartWalk(limit, after)
    \/ ListKeys \/ ListKeysSwallowed \/ ListFails
    \/ \E r \in Runs : ReadSnapshot(r)
    \/ AnswerPage

Watch == (\E r \in Runs : OpenWatch(r)) \/ PollWatch \/ WatchFails \/ ClientLeaves

Next == Write \/ List \/ Watch

Spec == Init /\ [][Next]_vars

\* The stream goes on polling, and its client opens it again when it ends.
FairSpec == Spec /\ WF_vars(PollWatch) /\ WF_vars(\E r \in Runs : OpenWatch(r))

-----------------------------------------------------------------------------
(* Properties *)

\* What a client gets that follows next_cursor to the end: a run nobody wrote
\* to meanwhile, and that matches, is listed once, wherever the page ends fall
\* and whatever happens to the other runs; a run that does not match is not.
\* (Without updated_after there is one page, and a run may be off it.)  Only a
\* listing of the keys that failed unnoticed cuts the walk short.
WalkIsExact ==
    walk.pc = "done" /\ ~walk.cut =>
        \A r \in Stored \ touched :
            LET matches == runsKv[r].stamp > walk.after
                full == Cardinality({x \in Runs : listed[x] > 0}) = walk.limit
            IN  \/ listed[r] = (IF matches THEN 1 ELSE 0)
                \/ matches /\ listed[r] = 0 /\ full /\ ~Pages(walk)

\* A run that is updated while the client pages moves up, out of the way: it is
\* listed twice only if a put with an older updated_at replaced a newer one.
TwiceOnlyIfBackdated == \A r \in Runs : listed[r] > 1 => r \in backdated

\* A client that watches a run, and opens the stream again with since = its last
\* event whenever it ends, comes to see the newest snapshot, even one that was
\* stored between two streams or has the same updated_at; unless a snapshot
\* with an older updated_at replaced the one it saw, which since leaves out.
WatcherCatchesUp ==
    <>[](shown.run \in Runs =>
            \/ shown.rev = runsKv[shown.run].rev
            \/ runsKv[shown.run].stamp < shown.stamp)

=============================================================================
