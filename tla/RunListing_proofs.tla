------------------------- MODULE RunListing_proofs --------------------------
(***************************************************************************)
(* Theorems about RunListing, for every number of runs, page sizes, puts,  *)
(* times and faults: a walk along next_cursor is exact for the runs nobody *)
(* writes to, and repeats a run only if its updated_at went back.          *)
(***************************************************************************)
EXTENDS RunListing, FiniteSetTheorems, TLAPS

USE ListingAssumption

-----------------------------------------------------------------------------
(* The order of the listing *)

SortKeys == Int \X Int
Above(S, k) == {other \in S : Below(k, other)}

LEMMA BelowOrder ==
    ASSUME NEW a \in SortKeys, NEW b \in SortKeys, NEW c \in SortKeys
    PROVE  /\ ~Below(a, a)
           /\ Below(a, b) /\ Below(b, c) => Below(a, c)
           /\ a = b \/ Below(a, b) \/ Below(b, a)
           /\ ~(Below(a, b) /\ Below(b, a))
BY DEF SortKeys, Below

\* The higher a key, the fewer are above it.
LEMMA AboveShrinks ==
    ASSUME NEW S, S \subseteq SortKeys, NEW k \in S, NEW other \in S, Below(k, other)
    PROVE  /\ Above(S, other) \subseteq Above(S, k)
           /\ other \in Above(S, k) /\ other \notin Above(S, other)
<1>1. k \in SortKeys /\ other \in SortKeys
  OBVIOUS
<1>2. ASSUME NEW x \in Above(S, other)
      PROVE  x \in Above(S, k)
  <2>1. x \in S /\ x \in SortKeys /\ Below(other, x)
    BY <1>2 DEF Above
  <2>2. QED
    BY <1>1, <2>1, BelowOrder DEF Above
<1>3. QED
  BY <1>1, <1>2, BelowOrder DEF Above

\* A set of sets of which none is infinite has a minimal one.
LEMMA MinimalSet ==
    ASSUME NEW S, IsFiniteSet(S), NEW F, F \subseteq SUBSET S, F # {}
    PROVE  \E T \in F : \A U \in F : ~(U \subseteq T /\ U # T)
<1>1. IsWellFoundedOn(StrictSubsetOrdering(S), FiniteSubsetsOf(S))
  BY FS_StrictSubsetOrderingWellFounded
<1>2. F \subseteq FiniteSubsetsOf(S)
  BY FS_FiniteSubsetsOfFinite
<1>3. PICK T \in F : \A U \in F : ~(<<U, T>> \in StrictSubsetOrdering(S))
  BY <1>1, <1>2, WFMin
<1>4. ASSUME NEW U \in F, U \subseteq T, U # T
      PROVE  FALSE
  BY <1>3, <1>4 DEF StrictSubsetOrdering
<1>5. QED
  BY <1>4

\* A finite set of keys has a highest one.
LEMMA HighestExists ==
    ASSUME NEW S, S \subseteq SortKeys, IsFiniteSet(S), S # {}
    PROVE  \E k \in S : Above(S, k) = {}
<1> DEFINE F == {Above(S, k) : k \in S}
<1>1. F \subseteq SUBSET S /\ F # {}
  BY DEF Above
<1> HIDE DEF F
<1>2. PICK T \in F : \A U \in F : ~(U \subseteq T /\ U # T)
  BY <1>1, MinimalSet
<1>3. PICK k \in S : T = Above(S, k)
  BY <1>2 DEF F
<1>4. ASSUME NEW other \in Above(S, k)
      PROVE  FALSE
  <2>1. other \in S /\ Below(k, other)
    BY <1>4 DEF Above
  <2>2. Above(S, other) \subseteq T /\ Above(S, other) # T
    BY <1>3, <2>1, AboveShrinks
  <2>3. Above(S, other) \in F
    BY <2>1 DEF F
  <2>4. QED
    BY <1>2, <2>2, <2>3
<1>5. QED
  BY <1>4

\* ... and a lowest one, which Last picks.
LEMMA LastIsLowest ==
    ASSUME NEW S, S \subseteq SortKeys, IsFiniteSet(S), S # {}
    PROVE  /\ Last(S) \in S
           /\ \A other \in S : other = Last(S) \/ Below(Last(S), other)
<1> DEFINE Under(k) == {other \in S : Below(other, k)}
           F == {Under(k) : k \in S}
<1>1. F \subseteq SUBSET S /\ F # {}
  OBVIOUS
<1> HIDE DEF F
<1>2. PICK T \in F : \A U \in F : ~(U \subseteq T /\ U # T)
  BY <1>1, MinimalSet
<1>3. PICK k \in S : T = Under(k)
  BY <1>2 DEF F
<1>4. ASSUME NEW other \in Under(k)
      PROVE  FALSE
  <2>1. other \in S /\ Below(other, k) /\ other \in SortKeys /\ k \in SortKeys
    BY <1>4
  <2>2. ASSUME NEW x \in Under(other)
        PROVE  x \in Under(k)
    BY <2>1, <2>2, BelowOrder
  <2>3. other \notin Under(other)
    BY <2>1, BelowOrder
  <2>4. Under(other) \in F
    BY <2>1 DEF F
  <2>5. QED
    BY <1>2, <1>3, <1>4, <2>2, <2>3, <2>4
<1>5. \A other \in S : other = k \/ Below(k, other)
  <2>1. TAKE other \in S
  <2>2. ~Below(other, k)
    BY <1>4
  <2>3. QED
    BY <2>2, BelowOrder
<1>6. QED
  BY <1>5 DEF Last

-----------------------------------------------------------------------------
(* Pages *)

LEMMA PageDef ==
    ASSUME NEW S, NEW n
    PROVE  Page(S, n) = {k \in S : Cardinality(Above(S, k)) < n}
BY DEF Page, Above

LEMMA AboveFinite ==
    ASSUME NEW S, IsFiniteSet(S), NEW k
    PROVE  /\ IsFiniteSet(Above(S, k))
           /\ Cardinality(Above(S, k)) \in Nat
BY FS_Subset, FS_CardinalityType DEF Above

\* With a key, a page holds every higher one.
LEMMA PageIsUpward ==
    ASSUME NEW S, S \subseteq SortKeys, IsFiniteSet(S), NEW n \in Nat,
           NEW k \in Page(S, n), NEW other \in S, Below(k, other)
    PROVE  other \in Page(S, n)
<1>1. k \in S /\ Cardinality(Above(S, k)) < n
  BY PageDef
<1>2. Above(S, other) \in SUBSET Above(S, k)
  BY <1>1, AboveShrinks
<1>3. Cardinality(Above(S, other)) <= Cardinality(Above(S, k))
  BY <1>2, AboveFinite, FS_Subset
<1>4. QED
  BY <1>1, <1>3, AboveFinite, PageDef

\* What is not on a page is below all that is.
LEMMA OffThePage ==
    ASSUME NEW S, S \subseteq SortKeys, IsFiniteSet(S), NEW n \in Nat,
           NEW k \in Page(S, n), NEW other \in S, other \notin Page(S, n)
    PROVE  Below(other, k)
<1>1. k \in S /\ k \in SortKeys /\ other \in SortKeys
  BY PageDef
<1>2. ~Below(k, other)
  BY PageIsUpward
<1>3. QED
  BY <1>1, <1>2, BelowOrder

\* A set that fits on a page is the page.
LEMMA PageHoldsAll ==
    ASSUME NEW S, S \subseteq SortKeys, IsFiniteSet(S), NEW n \in Nat, Cardinality(S) <= n
    PROVE  Page(S, n) = S
<1>1. ASSUME NEW k \in S
      PROVE  Cardinality(Above(S, k)) < n
  <2>1. k \notin Above(S, k) /\ Above(S, k) \in SUBSET S
    BY BelowOrder DEF Above
  <2>2. Cardinality(Above(S, k)) <= Cardinality(S) /\ Cardinality(Above(S, k)) # Cardinality(S)
    BY <2>1, FS_Subset
  <2>3. QED
    BY <2>2, AboveFinite, FS_CardinalityType
<1>2. QED
  BY <1>1, PageDef

\* A set that does not fit fills it.
LEMMA PageIsFull ==
    ASSUME NEW S, S \subseteq SortKeys, IsFiniteSet(S), NEW n \in Nat \ {0}, Cardinality(S) > n
    PROVE  Cardinality(Page(S, n)) = n
<1> DEFINE P == Page(S, n)
<1>1. P \in SUBSET S /\ P \subseteq SortKeys
  BY PageDef
<1>2. IsFiniteSet(P) /\ Cardinality(P) \in Nat /\ Cardinality(S) \in Nat
  BY <1>1, FS_Subset, FS_CardinalityType
<1> HIDE DEF P
<1>3. ~(Cardinality(P) < n)
  <2>1. SUFFICES ASSUME Cardinality(P) < n PROVE FALSE
    OBVIOUS
  <2> DEFINE Rest == S \ P
  <2>2. Rest # {}
    BY <1>1, <1>2, <2>1
  <2>3. Rest \subseteq SortKeys /\ IsFiniteSet(Rest)
    BY FS_Subset
  <2>4. PICK q \in Rest : Above(Rest, q) = {}
    BY <2>2, <2>3, HighestExists
  <2>5. Above(S, q) \in SUBSET P
    BY <2>4 DEF Above
  <2>6. Cardinality(Above(S, q)) <= Cardinality(P)
    BY <1>2, <2>5, FS_Subset
  <2>7. Cardinality(Above(S, q)) < n
    BY <1>2, <2>1, <2>6, AboveFinite
  <2>8. QED
    BY <2>4, <2>7, PageDef DEF P
<1>4. P # {}
  BY <1>2, <1>3, FS_EmptySet
<1>5. Last(P) \in P /\ \A other \in P : other = Last(P) \/ Below(Last(P), other)
  BY <1>1, <1>2, <1>4, LastIsLowest
<1>6. Above(S, Last(P)) = P \ {Last(P)}
  <2>1. ASSUME NEW other \in Above(S, Last(P))
        PROVE  other \in P /\ other # Last(P)
    <3>1. other \in S /\ Below(Last(P), other) /\ Last(P) \in SortKeys
      BY <1>1, <1>5, <2>1 DEF Above
    <3>2. other \in P
      BY <1>5, <3>1, PageIsUpward DEF P
    <3>3. QED
      BY <3>1, <3>2, BelowOrder
  <2>2. QED
    BY <1>1, <1>5, <2>1 DEF Above
<1>7. Cardinality(Above(S, Last(P))) = Cardinality(P) - 1
  BY <1>2, <1>5, <1>6, FS_RemoveElement
<1>8. Cardinality(Above(S, Last(P))) < n
  BY <1>5, PageDef DEF P
<1>9. Cardinality(P) = n
  BY <1>2, <1>3, <1>7, <1>8
<1>10. QED
  BY <1>9 DEF P

-----------------------------------------------------------------------------
(* Types.  Beside TypeOK: the puts under way still fit the bound, a stored *)
(* snapshot has a time, and what is read or watched is stored.             *)

Bounded ==
    /\ IsFiniteSet(stamped) /\ revision + Cardinality(stamped) <= MaxPuts
    /\ \A r \in Stored : runsKv[r].stamp \in Times
    /\ walk.keys \subseteq Stored
    /\ watch.pc = "sleep" => watch.run \in Runs

Typed == TypeOK /\ Bounded

LEMMA InitTyped == Init => Typed
<1>2. ASSUME Init PROVE TypeOK
  BY <1>2 DEF Init, TypeOK, Times, Snapshot, Revisions, Absent, Walks, Watches, Events,
              Idle, NoWatch, NothingShown, None, NoCursor
<1>3. ASSUME Init PROVE Bounded
  <2>1. IsFiniteSet(stamped) /\ Cardinality(stamped) = 0
    BY <1>3, FS_EmptySet DEF Init
  <2>2. Stored = {}
    BY <1>3 DEF Init, Stored, Absent
  <2>3. QED
    BY <1>3, <2>1, <2>2 DEF Init, Bounded, Idle, NoWatch
<1>4. QED
  BY <1>2, <1>3 DEF Typed

\* Every key that was found is one of finitely many pairs.
LEMMA FoundFinite ==
    ASSUME NEW w \in Walks
    PROVE  /\ IsFiniteSet(w.found) /\ w.found \subseteq SortKeys
           /\ IsFiniteSet(Remaining(w)) /\ Remaining(w) \subseteq w.found
<1>1. IsFiniteSet(Times \X Runs)
  <2>1. 1 \in Int /\ MaxTime \in Int
    OBVIOUS
  <2>2. IsFiniteSet(1..MaxTime)
    BY <2>1, FS_Interval
  <2>3. QED
    BY <2>2, FS_Product DEF Times
<1>2. w.found \in SUBSET (Times \X Runs)
  BY DEF Walks
<1>3. IsFiniteSet(w.found)
  BY <1>1, <1>2, FS_Subset
<1>4. Remaining(w) \in SUBSET w.found
  BY DEF Remaining
<1>5. w.found \subseteq SortKeys
  <2>1. Times \subseteq Int /\ Runs \subseteq Int
    BY DEF Times
  <2>2. QED
    BY <1>2, <2>1 DEF SortKeys
<1>6. QED
  BY <1>3, <1>4, <1>5, FS_Subset

\* A page of what is left, and where it ends.
LEMMA PageOfWalk ==
    ASSUME NEW w \in Walks
    PROVE  LET page == Page(Remaining(w), w.limit)
           IN  /\ page \subseteq Remaining(w) /\ IsFiniteSet(page) /\ page \subseteq SortKeys
               /\ Cardinality(Remaining(w)) > w.limit =>
                    /\ Cardinality(page) = w.limit
                    /\ Last(page) \in page
                    /\ \A other \in page : other = Last(page) \/ Below(Last(page), other)
<1> DEFINE page == Page(Remaining(w), w.limit)
<1>1. page \in SUBSET Remaining(w)
  BY PageDef
<1>2. IsFiniteSet(page) /\ page \subseteq SortKeys
  BY <1>1, FoundFinite, FS_Subset
<1>3. w.limit \in Nat \ {0}
  BY DEF Walks
<1>4. ASSUME Cardinality(Remaining(w)) > w.limit
      PROVE  /\ Cardinality(page) = w.limit
             /\ Last(page) \in page
             /\ \A other \in page : other = Last(page) \/ Below(Last(page), other)
  <2>1. Cardinality(page) = w.limit
    BY <1>3, <1>4, FoundFinite, PageIsFull
  <2>2. page # {}
    BY <1>3, <2>1, FS_EmptySet
  <2> HIDE DEF page
  <2>3. QED
    BY <1>2, <2>1, <2>2, LastIsLowest
<1>5. QED
  BY <1>1, <1>2, <1>4

\* Runs stay stored.
LEMMA StoredGrows ==
    ASSUME Typed, [Next]_vars
    PROVE  Stored \subseteq Stored'
<1>1. ASSUME NEW r \in Runs, NEW stamp, Put(r, stamp)
      PROVE  Stored \subseteq Stored'
  <2>1. revision + 1 > 0 /\ runsKv \in [Runs -> Snapshot]
    BY DEF Typed, TypeOK, Revisions
  <2>2. \A x \in Runs : runsKv'[x].rev = runsKv[x].rev \/ runsKv'[x].rev = revision + 1
    BY <1>1, <2>1 DEF Put
  <2>3. QED
    BY <2>1, <2>2 DEF Stored
<1>2. ASSUME runsKv' = runsKv
      PROVE  Stored \subseteq Stored'
  BY <1>2 DEF Stored
<1>3. \A put \in stamped : put[1] \in Runs
  BY DEF Typed, TypeOK
<1>4. QED
  BY <1>1, <1>2, <1>3 DEF Next, Write, List, Watch, vars, bucketVars, walkVars, watchVars,
     Tick, Stamp, StartWalk, ListKeys, ListKeysSwallowed, ListFails, ReadSnapshot,
     AnswerPage, OpenWatch, PollWatch, WatchFails, ClientLeaves

\* A failed read leaves a number of faults that is in range.
LEMMA ChargeTyped ==
    ASSUME Typed, Charge
    PROVE  faultsLeft' \in 0..MaxFaults
BY DEF Typed, TypeOK, Charge

LEMMA StampTyped ==
    ASSUME Typed, NEW r \in Runs, Stamp(r)
    PROVE  Typed'
<1>1. <<r, clock>> \in Runs \X Times
  BY DEF Typed, TypeOK
<1>2. TypeOK'
  BY <1>1 DEF Stamp, Typed, TypeOK, walkVars, watchVars
<1>3. IsFiniteSet(stamped) /\ Cardinality(stamped) \in Nat /\ revision \in Nat
  BY FS_CardinalityType DEF Typed, TypeOK, Bounded, Revisions
<1>4. IsFiniteSet(stamped') /\ Cardinality(stamped') <= Cardinality(stamped) + 1
      /\ Cardinality(stamped') \in Nat
  <2>1. stamped' = stamped \cup {<<r, clock>>}
    BY DEF Stamp
  <2>2. IsFiniteSet(stamped')
        /\ (Cardinality(stamped') = Cardinality(stamped)
            \/ Cardinality(stamped') = Cardinality(stamped) + 1)
    BY <1>3, <2>1, FS_AddElement
  <2>3. QED
    BY <1>3, <2>2
<1>5. revision' = revision /\ revision + Cardinality(stamped) < MaxPuts
  BY DEF Stamp
<1>6. Stored' = Stored
  BY DEF Stamp, Stored
<1>7. Bounded'
  BY <1>3, <1>4, <1>5, <1>6 DEF Stamp, Typed, Bounded, walkVars, watchVars
<1>8. QED
  BY <1>2, <1>7 DEF Typed

LEMMA PutTyped ==
    ASSUME Typed, NEW r \in Runs, NEW stamp, Put(r, stamp)
    PROVE  Typed'
<1>1. IsFiniteSet(stamped) /\ Cardinality(stamped) \in Nat /\ revision \in Nat
      /\ revision + Cardinality(stamped) <= MaxPuts
  BY FS_CardinalityType DEF Typed, TypeOK, Bounded, Revisions
<1>2. <<r, stamp>> \in stamped /\ stamped' = stamped \ {<<r, stamp>>} /\ stamp \in Times
  BY DEF Put, Typed, TypeOK
<1>3. IsFiniteSet(stamped') /\ Cardinality(stamped') = Cardinality(stamped) - 1
  BY <1>1, <1>2, FS_RemoveElement
<1>4. Cardinality(stamped') \in Nat
  BY <1>3, FS_CardinalityType
<1>5. revision' = revision + 1 /\ revision' \in Revisions
      /\ revision' + Cardinality(stamped') <= MaxPuts
  BY <1>1, <1>3, <1>4 DEF Put, Revisions
<1>6. runsKv' \in [Runs -> Snapshot]
  <2>1. [rev |-> revision', stamp |-> stamp] \in Snapshot
    BY <1>2, <1>5 DEF Snapshot
  <2>2. QED
    BY <2>1 DEF Put, Typed, TypeOK
<1>7. touched' \subseteq Runs /\ backdated' \subseteq touched'
  BY DEF Put, Typed, TypeOK
<1>8. TypeOK'
  BY <1>2, <1>5, <1>6, <1>7 DEF Put, Typed, TypeOK, watchVars
<1>9. Stored \subseteq Stored'
  BY StoredGrows DEF Next, Write, Put, Typed, TypeOK
<1>10. \A x \in Stored' : runsKv'[x].stamp \in Times
  <2>1. TAKE x \in Stored'
  <2>2. CASE x = r
    BY <1>2, <2>2 DEF Put, Typed, TypeOK
  <2>3. CASE x # r
    <3>1. runsKv'[x] = runsKv[x] /\ x \in Runs
      BY <2>3 DEF Put, Typed, TypeOK, Stored
    <3>2. x \in Stored
      BY <3>1 DEF Stored
    <3>3. QED
      BY <3>1, <3>2 DEF Typed, Bounded
  <2>4. QED
    BY <2>2, <2>3
<1>11. Bounded'
  BY <1>3, <1>5, <1>9, <1>10 DEF Put, Typed, Bounded, watchVars
<1>12. QED
  BY <1>8, <1>11 DEF Typed

\* Steps of a walk or a stream change nothing in the bucket.
LEMMA BucketSame ==
    ASSUME UNCHANGED bucketVars
    PROVE  Stored' = Stored
BY DEF bucketVars, Stored

LEMMA WalkTyped ==
    ASSUME Typed, List
    PROVE  Typed'
<1>1. UNCHANGED <<bucketVars, client, touched, backdated, watchVars>>
  BY DEF List, StartWalk, ListKeys, ListKeysSwallowed, ListFails, ReadSnapshot, AnswerPage
<1>2. SUFFICES /\ walk' \in Walks /\ walk'.keys \subseteq Stored
               /\ listed' \in [Runs -> Nat] /\ faultsLeft' \in 0..MaxFaults
  BY <1>1, BucketSame DEF Typed, TypeOK, Bounded, bucketVars, watchVars
<1>3. walk \in Walks /\ listed \in [Runs -> Nat] /\ faultsLeft \in 0..MaxFaults
      /\ walk.keys \subseteq Stored /\ Stored \subseteq Runs
  BY DEF Typed, TypeOK, Bounded, Stored
<1>4. ASSUME NEW limit \in PageSizes, NEW after \in 0..MaxTime \cup {None},
             StartWalk(limit, after)
      PROVE  walk' \in Walks /\ walk'.keys \subseteq Stored
  BY <1>4 DEF StartWalk, Idle, Walks
<1>5. ASSUME ListKeys
      PROVE  walk' \in Walks /\ walk'.keys \subseteq Stored
  BY <1>3, <1>5 DEF ListKeys, Walks
<1>6. ASSUME ListKeysSwallowed \/ ListFails
      PROVE  walk' \in Walks /\ walk'.keys \subseteq Stored
  BY <1>3, <1>6 DEF ListKeysSwallowed, ListFails, Walks
<1>7. ASSUME NEW r \in Runs, ReadSnapshot(r)
      PROVE  walk' \in Walks /\ walk'.keys \subseteq Stored
  <2>1. SortKey(r, runsKv[r].stamp) \in Times \X Runs
    BY <1>3, <1>7 DEF ReadSnapshot, SortKey, Typed, Bounded
  <2>2. QED
    BY <1>3, <1>7, <2>1 DEF ReadSnapshot, Walks
<1>8. ASSUME AnswerPage
      PROVE  walk' \in Walks /\ walk'.keys \subseteq Stored /\ listed' \in [Runs -> Nat]
  <2> DEFINE page == Page(Remaining(walk), walk.limit)
  <2>1. page \subseteq Remaining(walk) /\ IsFiniteSet(page)
        /\ (Cardinality(Remaining(walk)) > walk.limit => Last(page) \in page)
    BY <1>3, PageOfWalk
  <2>2. page \subseteq Times \X Runs
    BY <1>3, <2>1 DEF Remaining, Walks
  <2>3. \A r \in Runs : Cardinality({k \in page : k[2] = r}) \in Nat
    <3>1. TAKE r \in Runs
    <3> HIDE DEF page
    <3>2. {k \in page : k[2] = r} \in SUBSET page
      OBVIOUS
    <3>3. QED
      BY <2>1, <3>2, FS_Subset, FS_CardinalityType
  <2>4. listed' \in [Runs -> Nat]
    <3> DEFINE count == [r \in Runs |-> Cardinality({k \in page : k[2] = r})]
    <3>1. listed' = [r \in Runs |-> listed[r] + count[r]]
      BY <1>8 DEF AnswerPage
    <3>2. count \in [Runs -> Nat]
      BY <2>3
    <3> HIDE DEF count
    <3>3. QED
      BY <1>3, <3>1, <3>2
  <2>5. \/ /\ Cardinality(Remaining(walk)) > walk.limit
           /\ walk' = [walk EXCEPT !.pc = "keys", !.cursor = Last(page), !.found = {}]
        \/ walk' = [walk EXCEPT !.pc = "done", !.found = {}]
    BY <1>8 DEF AnswerPage
  <2> HIDE DEF page
  <2>6. walk' \in Walks /\ walk'.keys \subseteq Stored
    BY <1>3, <2>1, <2>2, <2>5 DEF Walks
  <2>7. QED
    BY <2>4, <2>6
<1>9. faultsLeft' \in 0..MaxFaults
  BY <1>3, ChargeTyped DEF List, StartWalk, ListKeys, ListKeysSwallowed, ListFails,
     ReadSnapshot, AnswerPage
<1>10. AnswerPage \/ listed' = listed
  BY DEF List, StartWalk, ListKeys, ListKeysSwallowed, ListFails, ReadSnapshot
<1>11. QED
  BY <1>3, <1>4, <1>5, <1>6, <1>7, <1>8, <1>9, <1>10 DEF List

LEMMA WatchTyped ==
    ASSUME Typed, Watch
    PROVE  Typed'
<1>1. UNCHANGED <<bucketVars, client, walkVars>>
  BY DEF Watch, OpenWatch, PollWatch, WatchFails, ClientLeaves
<1>2. SUFFICES /\ watch' \in Watches /\ (watch'.pc = "sleep" => watch'.run \in Runs)
               /\ shown' \in Events /\ faultsLeft' \in 0..MaxFaults
  BY <1>1, BucketSame DEF Typed, TypeOK, Bounded, bucketVars, walkVars
<1>3. /\ watch \in Watches /\ (watch.pc = "sleep" => watch.run \in Runs)
      /\ shown \in Events /\ faultsLeft \in 0..MaxFaults /\ clock \in Nat
      /\ runsKv \in [Runs -> Snapshot]
  BY DEF Typed, TypeOK, Bounded, Times
<1>4. NoWatch \in Watches /\ NoWatch.pc = "off"
  BY DEF NoWatch, Watches, Revisions
<1>5. ASSUME NEW r \in Runs
      PROVE  Event(r, runsKv[r]) \in Events /\ runsKv[r].rev \in Revisions
  BY <1>3 DEF Event, Events, Snapshot
<1>6. ASSUME NEW r \in Runs, OpenWatch(r)
      PROVE  watch' \in Watches /\ watch'.run \in Runs /\ shown' \in Events
  <2>1. shown.stamp \in Times \cup {None}
    BY <1>3 DEF Events
  <2>2. QED
    BY <1>3, <1>5, <1>6, <2>1 DEF OpenWatch, Watches
<1>7. ASSUME PollWatch
      PROVE  watch' \in Watches /\ (watch'.pc = "sleep" => watch'.run \in Runs)
             /\ shown' \in Events
  <2>1. watch.run \in Runs
    BY <1>3, <1>7 DEF PollWatch
  <2>2. QED
    BY <1>3, <1>4, <1>5, <1>7, <2>1 DEF PollWatch, Watches
<1>8. ASSUME WatchFails \/ ClientLeaves
      PROVE  watch' = NoWatch /\ shown' = shown
  BY <1>8 DEF WatchFails, ClientLeaves
<1>9. faultsLeft' \in 0..MaxFaults
  BY <1>3, ChargeTyped DEF Watch, OpenWatch, PollWatch, WatchFails, ClientLeaves
<1>10. QED
  BY <1>3, <1>4, <1>6, <1>7, <1>8, <1>9 DEF Watch

LEMMA NextTyped ==
    ASSUME Typed, [Next]_vars
    PROVE  Typed'
<1>1. ASSUME Tick
      PROVE  Typed'
  <2>1. clock' \in Times
    BY <1>1 DEF Tick, Typed, TypeOK, Times
  <2>2. Stored' = Stored
    BY <1>1 DEF Tick, Stored
  <2>3. QED
    BY <1>1, <2>1, <2>2 DEF Tick, Typed, TypeOK, Bounded, walkVars, watchVars
<1>2. ASSUME UNCHANGED vars
      PROVE  Typed'
  <2>1. Stored' = Stored
    BY <1>2 DEF vars, bucketVars, Stored
  <2>2. QED
    BY <1>2, <2>1 DEF vars, bucketVars, walkVars, watchVars, Typed, TypeOK, Bounded
<1>3. \A put \in stamped : put[1] \in Runs
  BY DEF Typed, TypeOK
<1>4. QED
  BY <1>1, <1>2, <1>3, StampTyped, PutTyped, WalkTyped, WatchTyped DEF Next, Write

LEMMA TypedAlways == Spec => []Typed
<1>1. Typed /\ [Next]_vars => Typed'
  BY NextTyped
<1>2. QED
  BY <1>1, InitTyped, PTL DEF Spec

\* Types are kept: in particular a page that has more after it is never empty,
\* so that it has a last key for the cursor.
THEOREM ListingTypes == Spec => []TypeOK
<1>1. Typed => TypeOK
  BY DEF Typed
<1>2. QED
  BY <1>1, TypedAlways, PTL

-----------------------------------------------------------------------------
(* The inductive invariant *)

\* A run's key now, and whether the cursor has passed it.
Key(r) == SortKey(r, runsKv[r].stamp)
Passed(k) == walk.cursor # NoCursor /\ ~Below(k, walk.cursor)
Untouched == Stored \ touched
Steady == Runs \ backdated

\* A request finds at most one key of a run, and none before reading it.
FoundOnce ==
    walk.pc = "read" =>
        /\ \A k \in walk.found : k[2] \notin walk.keys
        /\ \A k, l \in walk.found : k[2] = l[2] => k = l

\* Before the first page is answered nothing is listed.
FirstPage ==
    walk.pc = "idle" \/ (Walking /\ walk.cursor = NoCursor) => \A r \in Runs : listed[r] = 0

\* Between the pages, the matching runs nobody writes to are listed exactly if
\* the cursor has passed them; a request finds them as they are.
ListedSoFar ==
    /\ Walking =>
        \A r \in Untouched :
            listed[r] = IF runsKv[r].stamp > walk.after /\ Passed(Key(r)) THEN 1 ELSE 0
    /\ walk.pc = "read" =>
        \A r \in Untouched :
            /\ r \in walk.keys \/ Key(r) \in walk.found
            /\ \A k \in walk.found : k[2] = r => k = Key(r)

\* A run whose updated_at never went back is listed at most once; then the
\* cursor has passed it, and whatever key of it a request finds.
ListedOnce ==
    /\ \A r \in Steady : listed[r] <= 1
    /\ Walking => \A r \in Steady : listed[r] = 1 => Passed(Key(r))
    /\ walk.pc = "read" =>
        \A k \in walk.found : k[2] \in Steady =>
            /\ ~Below(Key(k[2]), k)
            /\ listed[k[2]] = 1 => Passed(k)

WalkInv == FoundOnce /\ FirstPage /\ ListedSoFar /\ ListedOnce /\ WalkIsExact

\* The invariant reads nothing but the bucket, the walk and its history.
LEMMA WalkInvSame ==
    ASSUME WalkInv, UNCHANGED <<runsKv, walkVars>>
    PROVE  WalkInv'
BY DEF WalkInv, FoundOnce, FirstPage, ListedSoFar, ListedOnce, WalkIsExact, Untouched,
   Steady, Stored, Key, Passed, Walking, Pages, walkVars

\* What is compared are pairs of numbers.
LEMMA KeyTypes ==
    ASSUME Typed
    PROVE  /\ \A r \in Runs : Key(r) \in SortKeys /\ Key(r)[1] = runsKv[r].stamp
                              /\ Key(r)[2] = r /\ runsKv[r].stamp \in Int
           /\ \A r \in Stored : runsKv[r].stamp \in Times
           /\ \A k \in walk.found : k \in Times \X Runs /\ k \in SortKeys
           /\ walk.cursor \in SortKeys /\ NoCursor \in SortKeys
           /\ walk.after \in Int /\ listed \in [Runs -> Nat]
<1>1. Times \subseteq Int /\ Runs \subseteq Int /\ None \in Int /\ MaxTime + 1 \in Int
  BY DEF Times, None
<1>2. \A r \in Runs : runsKv[r].stamp \in Int
  BY <1>1 DEF Typed, TypeOK, Snapshot
<1>3. \A r \in Runs : Key(r) \in SortKeys /\ Key(r)[1] = runsKv[r].stamp /\ Key(r)[2] = r
  BY <1>1, <1>2 DEF Key, SortKey, SortKeys
<1>4. walk \in Walks /\ listed \in [Runs -> Nat]
  BY DEF Typed, TypeOK
<1>5. \A k \in walk.found : k \in Times \X Runs /\ k \in SortKeys
  BY <1>1, <1>4 DEF Walks, SortKeys
<1>6. walk.cursor \in SortKeys /\ NoCursor \in SortKeys /\ walk.after \in Int
  <2>1. NoCursor \in SortKeys
    BY <1>1 DEF NoCursor, SortKeys
  <2>2. walk.cursor \in (Times \X Runs) \cup {NoCursor} /\ walk.after \in (0..MaxTime) \cup {None}
    BY <1>4 DEF Walks
  <2>3. Times \X Runs \subseteq SortKeys
    BY <1>1 DEF SortKeys
  <2>4. QED
    BY <1>1, <2>1, <2>2, <2>3
<1>7. \A r \in Stored : runsKv[r].stamp \in Times
  BY DEF Typed, Bounded
<1>8. QED
  BY <1>2, <1>3, <1>4, <1>5, <1>6, <1>7

\* A put leaves the other runs alone, and a run whose updated_at does not go
\* back moves up.
LEMMA PutInv ==
    ASSUME Typed, WalkInv, NEW r \in Runs, NEW stamp \in Times, Put(r, stamp)
    PROVE  WalkInv'
<1>1. walk' = walk /\ listed' = listed /\ stamp \in Int
      /\ runsKv' = [runsKv EXCEPT ![r] = [rev |-> revision + 1, stamp |-> stamp]]
  BY DEF Put, Times
<1>2. \A x \in Runs \ {r} : runsKv'[x] = runsKv[x]
  BY <1>1 DEF Typed, TypeOK
<1>3. runsKv'[r].stamp = stamp
  BY <1>1 DEF Typed, TypeOK
<1>4. CASE walk.pc = "idle"
  <2>1. \A x \in Runs : listed[x] = 0
    BY <1>4 DEF WalkInv, FirstPage
  <2>2. QED
    BY <1>1, <1>4, <2>1 DEF WalkInv, FoundOnce, FirstPage, ListedSoFar, ListedOnce,
       WalkIsExact, Walking, Steady
<1>5. CASE walk.pc # "idle"
  <2>1. touched' = touched \cup {r} /\ Steady' \subseteq Steady
        /\ (r \in Steady' => ~(stamp < runsKv[r].stamp))
    BY <1>5 DEF Put, Steady
  <2>2. Untouched' \subseteq Untouched /\ r \notin Untouched' /\ Untouched' \subseteq Runs
    BY <1>2, <2>1 DEF Untouched, Stored
  <2>3. FoundOnce' /\ FirstPage'
    BY <1>1 DEF WalkInv, FoundOnce, FirstPage, Walking
  <2>4. \A x \in Untouched' : runsKv'[x] = runsKv[x] /\ Key(x)' = Key(x)
    BY <1>2, <2>2 DEF Key
  <2>5. ListedSoFar'
    <3>1. /\ Walking' = Walking /\ walk'.pc = walk.pc /\ walk'.keys = walk.keys
          /\ walk'.found = walk.found /\ walk'.after = walk.after
          /\ \A x \in Untouched' : Passed(Key(x))' = Passed(Key(x))
      BY <1>1, <2>4 DEF Walking, Passed
    <3>2. Walking' =>
            \A x \in Untouched' :
                listed'[x] = IF runsKv'[x].stamp > walk'.after /\ Passed(Key(x))' THEN 1 ELSE 0
      <4>1. SUFFICES ASSUME Walking', NEW x \in Untouched'
                     PROVE  listed'[x] = IF runsKv'[x].stamp > walk'.after /\ Passed(Key(x))'
                                         THEN 1 ELSE 0
        OBVIOUS
      <4>2. listed[x] = IF runsKv[x].stamp > walk.after /\ Passed(Key(x)) THEN 1 ELSE 0
        BY <2>2, <3>1, <4>1 DEF WalkInv, ListedSoFar
      <4>3. QED
        BY <1>1, <2>4, <3>1, <4>2
    <3>3. walk'.pc = "read" =>
            \A x \in Untouched' :
                /\ x \in walk'.keys \/ Key(x)' \in walk'.found
                /\ \A k \in walk'.found : k[2] = x => k = Key(x)'
      BY <2>2, <2>4, <3>1 DEF WalkInv, ListedSoFar
    <3>4. QED
      BY <3>2, <3>3 DEF ListedSoFar
  <2>6. WalkIsExact'
    BY <1>1, <2>2, <2>4 DEF WalkInv, WalkIsExact, Pages, Untouched
  <2>7. \A x \in Steady' : Key(x)' \in SortKeys /\ ~Below(Key(x)', Key(x))
    <3>1. TAKE x \in Steady'
    <3>2. x \in Runs /\ x \in Int
      BY DEF Steady
    <3>3. CASE x # r
      <4>1. Key(x)' = Key(x)
        BY <1>2, <3>2, <3>3 DEF Key
      <4>2. QED
        BY <3>2, <4>1, KeyTypes, BelowOrder
    <3>4. CASE x = r
      <4>1. Key(x)' = <<stamp, r>> /\ Key(x) = <<runsKv[r].stamp, r>>
        BY <1>3, <3>4 DEF Key, SortKey
      <4>2. runsKv[r].stamp \in Int /\ ~(stamp < runsKv[r].stamp)
        BY <2>1, <3>2, <3>4, KeyTypes
      <4>3. QED
        BY <1>1, <3>2, <3>4, <4>1, <4>2 DEF Below, SortKeys
    <3>5. QED
      BY <3>3, <3>4
  <2>8. ASSUME NEW x \in Steady', NEW b \in SortKeys, ~Below(Key(x), b)
        PROVE  ~Below(Key(x)', b)
    <3>1. x \in Runs
      BY DEF Steady
    <3>2. Key(x) \in SortKeys /\ Key(x)' \in SortKeys /\ ~Below(Key(x)', Key(x))
      BY <2>7, <3>1, KeyTypes
    <3> HIDE DEF Key
    <3>3. QED
      BY <2>8, <3>2, BelowOrder
  <2>9. ListedOnce'
    <3>1. \A x \in Steady' : listed'[x] <= 1
      BY <1>1, <2>1 DEF WalkInv, ListedOnce
    <3>2. Walking' => \A x \in Steady' : listed'[x] = 1 => Passed(Key(x))'
      BY <1>1, <2>1, <2>8, KeyTypes DEF WalkInv, ListedOnce, Walking, Passed
    <3>3. walk'.pc = "read" =>
            \A k \in walk'.found : k[2] \in Steady' =>
                /\ ~Below(Key(k[2])', k)
                /\ listed'[k[2]] = 1 => Passed(k)'
      BY <1>1, <2>1, <2>8, KeyTypes DEF WalkInv, ListedOnce, Passed
    <3>4. QED
      BY <3>1, <3>2, <3>3 DEF ListedOnce
  <2>10. QED
    BY <2>3, <2>5, <2>6, <2>9 DEF WalkInv
<1>6. QED
  BY <1>4, <1>5

-----------------------------------------------------------------------------
(* The steps of a walk before its page is answered *)

LEMMA StartWalkInv ==
    ASSUME Typed, WalkInv, NEW limit \in PageSizes, NEW after \in 0..MaxTime \cup {None},
           StartWalk(limit, after)
    PROVE  WalkInv'
<1>1. walk.pc = "idle" /\ walk'.pc = "keys" /\ walk'.cursor = NoCursor /\ listed' = listed
      /\ runsKv' = runsKv /\ touched' = touched /\ backdated' = backdated
  BY DEF StartWalk, Idle, bucketVars
<1>2. \A r \in Runs : listed[r] = 0
  BY <1>1 DEF WalkInv, FirstPage
<1>3. Untouched' \subseteq Runs /\ Steady' \subseteq Runs
  BY DEF Untouched, Steady, Stored
<1>4. FoundOnce' /\ FirstPage' /\ WalkIsExact'
  BY <1>1, <1>2 DEF FoundOnce, FirstPage, WalkIsExact
<1>5. ListedSoFar' /\ ListedOnce'
  BY <1>1, <1>2, <1>3 DEF ListedSoFar, ListedOnce, Passed
<1>6. QED
  BY <1>4, <1>5 DEF WalkInv

LEMMA ListKeysInv ==
    ASSUME Typed, WalkInv, ListKeys
    PROVE  WalkInv'
<1>1. UNCHANGED <<runsKv, listed, touched, backdated>> /\ walk.pc = "keys" /\ walk \in Walks
  BY DEF ListKeys, bucketVars, Typed, TypeOK
<1>2. Stored' = Stored /\ Untouched' = Untouched /\ Steady' = Steady
      /\ Untouched \subseteq Stored
  BY <1>1 DEF Stored, Untouched, Steady
<1>3. CASE Stored = {}
  <2>1. walk'.pc = "failed"
    BY <1>1, <1>3 DEF ListKeys, Walks
  <2>2. QED
    BY <1>1, <1>2, <1>3, <2>1 DEF WalkInv, FoundOnce, FirstPage, ListedSoFar, ListedOnce,
       WalkIsExact, Walking
<1>4. CASE Stored # {}
  <2>1. walk'.pc = "read" /\ walk'.keys = Stored /\ walk'.found = {}
        /\ walk'.cursor = walk.cursor /\ walk'.after = walk.after
    BY <1>1, <1>4 DEF ListKeys, Walks
  <2>2. FoundOnce' /\ FirstPage' /\ WalkIsExact'
    BY <1>1, <2>1 DEF WalkInv, FoundOnce, FirstPage, WalkIsExact, Walking
  <2>3. ListedSoFar'
    BY <1>1, <1>2, <2>1 DEF WalkInv, ListedSoFar, Walking, Passed, Key
  <2>4. ListedOnce'
    BY <1>1, <1>2, <2>1 DEF WalkInv, ListedOnce, Walking, Passed, Key
  <2>5. QED
    BY <2>2, <2>3, <2>4 DEF WalkInv
<1>5. QED
  BY <1>3, <1>4

LEMMA ListFailsInv ==
    ASSUME Typed, WalkInv, ListKeysSwallowed \/ ListFails
    PROVE  WalkInv'
<1>1. UNCHANGED <<runsKv, listed, touched, backdated>> /\ walk \in Walks
  BY DEF ListKeysSwallowed, ListFails, bucketVars, Typed, TypeOK
<1>2. walk'.pc = "failed" \/ (walk'.pc = "done" /\ walk'.cut)
  BY <1>1 DEF ListKeysSwallowed, ListFails, Walks
<1>3. QED
  BY <1>1, <1>2 DEF WalkInv, FoundOnce, FirstPage, ListedSoFar, ListedOnce, WalkIsExact,
     Walking, Steady

LEMMA ReadSnapshotInv ==
    ASSUME Typed, WalkInv, NEW r \in Runs, ReadSnapshot(r)
    PROVE  WalkInv'
<1>1. UNCHANGED <<runsKv, listed, touched, backdated>> /\ walk.pc = "read" /\ walk \in Walks
      /\ r \in walk.keys
  BY DEF ReadSnapshot, bucketVars, Typed, TypeOK
<1>2. /\ walk'.pc = "read" /\ walk'.keys = walk.keys \ {r}
      /\ walk'.found = walk.found \cup {Key(r)}
      /\ walk'.cursor = walk.cursor /\ walk'.after = walk.after
  BY <1>1 DEF ReadSnapshot, Walks, Key
<1>3. Untouched' = Untouched /\ Steady' = Steady /\ Untouched \subseteq Runs
      /\ Steady \subseteq Runs
  BY <1>1 DEF Stored, Untouched, Steady
<1>4. \A x \in Runs : Key(x)' = Key(x)
  BY <1>1 DEF Key
<1>5. Key(r) \in SortKeys /\ Key(r)[2] = r
  BY KeyTypes
<1>6. \A k : Passed(k)' = Passed(k)
  BY <1>2 DEF Passed
<1> HIDE DEF Key, Passed
<1>7. FoundOnce'
  BY <1>1, <1>2, <1>5 DEF WalkInv, FoundOnce
<1>8. FirstPage' /\ WalkIsExact'
  BY <1>1, <1>2 DEF WalkInv, FirstPage, WalkIsExact, Walking
<1>9. ListedSoFar'
  <2>1. \A x \in Untouched : runsKv'[x] = runsKv[x] /\ listed'[x] = listed[x]
    BY <1>1
  <2>2. QED
    BY <1>1, <1>2, <1>3, <1>4, <1>5, <1>6, <2>1 DEF WalkInv, ListedSoFar, Walking
<1>10. ListedOnce'
  <2>1. ~Below(Key(r), Key(r))
    BY <1>5, BelowOrder
  <2>2. ListedOnce
    BY DEF WalkInv
  <2>3. \A x \in Steady : Key(x)' = Key(x) /\ listed'[x] = listed[x]
    BY <1>1, <1>3, <1>4
  <2>4. \A x \in Steady : listed'[x] <= 1 /\ (listed'[x] = 1 => Passed(Key(x))')
    BY <1>1, <1>3, <1>6, <2>2, <2>3 DEF ListedOnce, Walking
  <2>5. ASSUME NEW k \in walk'.found, k[2] \in Steady
        PROVE  ~Below(Key(k[2])', k) /\ (listed'[k[2]] = 1 => Passed(k)')
    <3>1. CASE k \in walk.found
      <4>1. ~Below(Key(k[2]), k) /\ (listed[k[2]] = 1 => Passed(k))
        BY <1>1, <2>2, <2>5, <3>1 DEF ListedOnce
      <4>2. QED
        BY <1>6, <2>3, <2>5, <4>1
    <3>2. CASE k = Key(r)
      <4>1. k[2] = r /\ Key(r)' = Key(r)
        BY <1>4, <1>5, <3>2
      <4>2. QED
        BY <2>1, <2>4, <2>5, <3>2, <4>1
    <3>3. QED
      BY <1>2, <3>1, <3>2
  <2>6. QED
    BY <1>2, <1>3, <2>4, <2>5 DEF ListedOnce
<1>11. QED
  BY <1>7, <1>8, <1>9, <1>10 DEF WalkInv

-----------------------------------------------------------------------------
(* The step that answers a page *)

ThePage == Page(Remaining(walk), walk.limit)
On(r) == {k \in ThePage : k[2] = r}
count == [r \in Runs |-> Cardinality(On(r))]

\* A run is on a page at most once.
LEMMA OnThePage ==
    ASSUME Typed, FoundOnce, walk.pc = "read", NEW r \in Runs
    PROVE  \/ On(r) = {} /\ Cardinality(On(r)) = 0
           \/ \E k \in ThePage : k[2] = r /\ On(r) = {k} /\ Cardinality(On(r)) = 1
<1>1. ThePage \subseteq walk.found
  BY PageDef DEF ThePage, Remaining
<1>2. CASE On(r) = {}
  BY <1>2, FS_EmptySet
<1>3. CASE On(r) # {}
  <2>1. PICK k \in ThePage : k[2] = r
    BY <1>3 DEF On
  <2>2. On(r) = {k}
    BY <1>1, <2>1 DEF On, FoundOnce
  <2>3. Cardinality({k}) = 1
    BY FS_Singleton
  <2>4. QED
    BY <2>1, <2>2, <2>3
<1>4. QED
  BY <1>2, <1>3

\* What the answer changes, in terms of the page.
LEMMA AnswerDef ==
    ASSUME Typed, WalkInv, AnswerPage
    PROVE  /\ walk.pc = "read" /\ walk.keys = {} /\ walk \in Walks
           /\ UNCHANGED <<runsKv, touched, backdated>>
           /\ Stored' = Stored /\ Untouched' = Untouched /\ Steady' = Steady
           /\ Untouched \subseteq Stored /\ Untouched \subseteq Runs /\ Steady \subseteq Runs
           /\ \A r \in Runs : Key(r)' = Key(r)
           /\ \A r \in Runs : listed'[r] = listed[r] + count[r]
           /\ listed' \in [Runs -> Nat] /\ count \in [Runs -> 0..1]
           /\ walk'.found = {} /\ walk'.after = walk.after /\ walk'.limit = walk.limit
           /\ IF Pages(walk) /\ Cardinality(Remaining(walk)) > walk.limit
              THEN walk'.pc = "keys" /\ walk'.cursor = Last(ThePage)
              ELSE walk'.pc = "done" /\ walk'.cursor = walk.cursor
<1>1. walk \in Walks /\ listed \in [Runs -> Nat]
  BY DEF Typed, TypeOK
<1>2. walk.pc = "read" /\ walk.keys = {} /\ UNCHANGED <<runsKv, touched, backdated>>
  BY DEF AnswerPage, bucketVars
<1>3. /\ Stored' = Stored /\ Untouched' = Untouched /\ Steady' = Steady
      /\ Untouched \subseteq Stored /\ Untouched \subseteq Runs /\ Steady \subseteq Runs
      /\ \A r \in Runs : Key(r)' = Key(r)
  BY <1>2 DEF Stored, Untouched, Steady, Key
<1>4. \A r \in Runs : count[r] \in 0..1
  BY <1>2, OnThePage DEF WalkInv, count
<1>5. count \in [Runs -> 0..1]
  BY <1>4 DEF count
<1>6. listed' = [r \in Runs |-> listed[r] + count[r]]
  BY DEF AnswerPage, count, On, ThePage
<1>7. listed' \in [Runs -> Nat] /\ \A r \in Runs : listed'[r] = listed[r] + count[r]
  BY <1>1, <1>5, <1>6
<1>8. walk' = IF Pages(walk) /\ Cardinality(Remaining(walk)) > walk.limit
              THEN [walk EXCEPT !.pc = "keys", !.cursor = Last(ThePage), !.found = {}]
              ELSE [walk EXCEPT !.pc = "done", !.found = {}]
  BY DEF AnswerPage, ThePage
<1>9. /\ walk'.found = {} /\ walk'.after = walk.after /\ walk'.limit = walk.limit
      /\ IF Pages(walk) /\ Cardinality(Remaining(walk)) > walk.limit
         THEN walk'.pc = "keys" /\ walk'.cursor = Last(ThePage)
         ELSE walk'.pc = "done" /\ walk'.cursor = walk.cursor
  BY <1>1, <1>8 DEF Walks
<1>10. QED
  BY <1>1, <1>2, <1>3, <1>5, <1>7, <1>9

\* What is on the page was found, matches, and the cursor has not passed it.
LEMMA OfThePage ==
    ASSUME Typed
    PROVE  /\ ThePage \subseteq Remaining(walk) /\ ThePage \subseteq SortKeys
           /\ IsFiniteSet(ThePage) /\ Remaining(walk) \subseteq walk.found
           /\ \A k \in Remaining(walk) : ~Passed(k)
           /\ Cardinality(Remaining(walk)) > walk.limit =>
                /\ Cardinality(ThePage) = walk.limit
                /\ Last(ThePage) \in ThePage
                /\ \A other \in ThePage : other = Last(ThePage) \/ Below(Last(ThePage), other)
<1>1. walk \in Walks
  BY DEF Typed, TypeOK
<1>2. Remaining(walk) \subseteq walk.found /\ \A k \in Remaining(walk) : ~Passed(k)
  BY DEF Remaining, Passed, PastCursor
<1>3. QED
  BY <1>1, <1>2, PageOfWalk DEF ThePage

\* The step for a run nobody writes to: it is counted if it matches, has not
\* been passed and is on the page.
LEMMA UntouchedCount ==
    ASSUME Typed, WalkInv, AnswerPage, NEW r \in Untouched
    PROVE  /\ Key(r) \in Remaining(walk) <=> runsKv[r].stamp > walk.after /\ ~Passed(Key(r))
           /\ count[r] = IF Key(r) \in ThePage THEN 1 ELSE 0
           /\ listed[r] = IF runsKv[r].stamp > walk.after /\ Passed(Key(r)) THEN 1 ELSE 0
<1>1. r \in Runs /\ r \in Stored /\ walk.pc = "read" /\ walk.keys = {} /\ FoundOnce
  BY AnswerDef DEF WalkInv
<1>2. Key(r) \in walk.found /\ \A k \in walk.found : k[2] = r => k = Key(r)
  BY <1>1 DEF WalkInv, ListedSoFar
<1>3. Key(r)[1] = runsKv[r].stamp /\ Key(r)[2] = r /\ runsKv[r].stamp \in Times
  BY <1>1, KeyTypes
<1>4. walk.after = None => runsKv[r].stamp > walk.after
  BY <1>3 DEF None, Times
<1> HIDE DEF Key
<1>5. Key(r) \in Remaining(walk) <=> runsKv[r].stamp > walk.after /\ ~Passed(Key(r))
  BY <1>2, <1>3, <1>4 DEF Remaining, Passed, PastCursor
<1>6. count[r] = IF Key(r) \in ThePage THEN 1 ELSE 0
  <2>1. ThePage \subseteq walk.found /\ count[r] = Cardinality(On(r))
    BY <1>1, OfThePage DEF count
  <2>2. On(r) = {} <=> Key(r) \notin ThePage
    BY <1>2, <1>3, <2>1 DEF On
  <2>3. QED
    BY <1>1, <2>1, <2>2, OnThePage
<1>7. listed[r] = IF runsKv[r].stamp > walk.after /\ Passed(Key(r)) THEN 1 ELSE 0
  BY <1>1 DEF WalkInv, ListedSoFar, Walking
<1>8. QED
  BY <1>5, <1>6, <1>7

\* A run whose updated_at never went back is not counted a second time.
LEMMA SteadyCount ==
    ASSUME Typed, WalkInv, AnswerPage, NEW r \in Steady
    PROVE  /\ listed[r] + count[r] <= 1
           /\ count[r] = 1 => \E k \in ThePage : ~Below(Key(r), k)
           /\ listed[r] = 1 => Passed(Key(r))
<1>1. r \in Runs /\ walk.pc = "read" /\ FoundOnce
  BY AnswerDef DEF WalkInv
<1>2. listed[r] <= 1 /\ listed[r] \in Nat /\ count[r] \in 0..1
      /\ (listed[r] = 1 => Passed(Key(r)))
  BY <1>1, AnswerDef, KeyTypes DEF WalkInv, ListedOnce, Walking
<1>3. ASSUME count[r] = 1
      PROVE  \E k \in ThePage : ~Below(Key(r), k) /\ (listed[r] = 1 => Passed(k)) /\ ~Passed(k)
  <2>1. count[r] = Cardinality(On(r))
    BY <1>1 DEF count
  <2>2. PICK k \in ThePage : k[2] = r
    BY <1>1, <1>3, <2>1, OnThePage
  <2>3. k \in walk.found /\ ~Passed(k)
    BY OfThePage
  <2>4. QED
    BY <1>1, <2>2, <2>3 DEF WalkInv, ListedOnce
<1>4. QED
  BY <1>2, <1>3

\* There are more pages: the cursor moves down to the last key of this one.
LEMMA MorePagesInv ==
    ASSUME Typed, WalkInv, AnswerPage, Cardinality(Remaining(walk)) > walk.limit, Pages(walk)
    PROVE  WalkInv'
<1> DEFINE last == Last(ThePage)
<1>1. walk'.pc = "keys" /\ walk'.cursor = last /\ walk'.after = walk.after
  BY AnswerDef
<1>2. last \in ThePage /\ last \in walk.found /\ last \in SortKeys /\ ~Passed(last)
      /\ \A other \in ThePage : other = last \/ Below(last, other)
  BY OfThePage
<1>3. last # NoCursor
  <2>1. last[1] \in Times
    BY <1>2, KeyTypes
  <2>2. QED
    BY <2>1 DEF Times, NoCursor
<1> HIDE DEF last
<1>4. \A k : Passed(k)' <=> ~Below(k, last)
  BY <1>1, <1>3 DEF Passed
<1>5. ASSUME NEW k \in SortKeys, Passed(k)
      PROVE  ~Below(k, last)
  <2>1. Below(last, walk.cursor) /\ ~Below(k, walk.cursor) /\ walk.cursor \in SortKeys
    BY <1>2, <1>5, KeyTypes DEF Passed
  <2>2. QED
    BY <1>2, <2>1, BelowOrder
<1>6. FoundOnce' /\ FirstPage' /\ WalkIsExact'
  BY <1>1, <1>3 DEF FoundOnce, FirstPage, WalkIsExact, Walking
<1>7. ASSUME NEW r \in Untouched
      PROVE  listed'[r] = IF runsKv[r].stamp > walk.after /\ ~Below(Key(r), last) THEN 1 ELSE 0
  <2>1. r \in Runs /\ Key(r) \in SortKeys /\ listed'[r] = listed[r] + count[r]
    BY AnswerDef, KeyTypes
  <2>2. CASE Passed(Key(r))
    <3>1. Key(r) \notin ThePage
      BY <2>2, OfThePage
    <3>2. ~Below(Key(r), last)
      BY <1>5, <2>1, <2>2
    <3>3. QED
      BY <2>1, <2>2, <3>1, <3>2, UntouchedCount
  <2>3. CASE ~Passed(Key(r)) /\ runsKv[r].stamp > walk.after
    <3>1. Key(r) \in Remaining(walk) /\ listed[r] = 0
      BY <2>3, UntouchedCount
    <3>2. Key(r) \in ThePage <=> ~Below(Key(r), last)
      <4>1. ASSUME Key(r) \in ThePage
            PROVE  ~Below(Key(r), last)
        BY <1>2, <2>1, <4>1, BelowOrder
      <4>2. ASSUME Key(r) \notin ThePage
            PROVE  Below(Key(r), last)
        <5>1. walk \in Walks /\ walk.limit \in Nat
          BY DEF Typed, TypeOK, Walks
        <5>2. QED
          BY <1>2, <3>1, <4>2, <5>1, FoundFinite, OffThePage DEF ThePage
      <4>3. QED
        BY <4>1, <4>2
    <3>3. QED
      BY <2>1, <2>3, <3>1, <3>2, UntouchedCount
  <2>4. CASE ~(runsKv[r].stamp > walk.after)
    <3>1. Key(r) \notin ThePage
      BY <2>4, UntouchedCount, OfThePage
    <3>2. QED
      BY <2>1, <2>4, <3>1, UntouchedCount
  <2>5. QED
    BY <2>2, <2>3, <2>4
<1>8. ListedSoFar'
  <2>1. ASSUME NEW r \in Untouched'
        PROVE  listed'[r] = IF runsKv'[r].stamp > walk'.after /\ ~Below(Key(r)', last) THEN 1 ELSE 0
    <3>1. r \in Untouched /\ runsKv' = runsKv /\ Key(r)' = Key(r) /\ walk'.after = walk.after
      BY AnswerDef
    <3>2. QED
      BY <1>7, <3>1
  <2> HIDE DEF Key
  <2>2. QED
    BY <1>1, <1>4, <2>1 DEF ListedSoFar
<1>9. ASSUME NEW r \in Steady
      PROVE  listed'[r] <= 1 /\ (listed'[r] = 1 => ~Below(Key(r), last))
  <2>1. r \in Runs /\ Key(r) \in SortKeys /\ listed'[r] = listed[r] + count[r]
        /\ listed[r] \in Nat /\ count[r] \in 0..1
    BY AnswerDef, KeyTypes
  <2>2. ASSUME count[r] = 1
        PROVE  ~Below(Key(r), last)
    <3>1. PICK k \in ThePage : ~Below(Key(r), k)
      BY <2>2, SteadyCount
    <3>2. k \in SortKeys /\ (k = last \/ Below(last, k))
      BY <1>2, OfThePage
    <3> HIDE DEF Key
    <3>3. QED
      BY <1>2, <2>1, <3>1, <3>2, BelowOrder
  <2>3. ASSUME listed[r] = 1
        PROVE  ~Below(Key(r), last)
    BY <1>5, <2>1, <2>3, SteadyCount
  <2>4. QED
    BY <2>1, <2>2, <2>3, SteadyCount
<1>10. ListedOnce'
  <2>1. ASSUME NEW r \in Steady'
        PROVE  listed'[r] <= 1 /\ (listed'[r] = 1 => ~Below(Key(r)', last))
    <3>1. r \in Steady /\ Key(r)' = Key(r)
      BY AnswerDef
    <3>2. QED
      BY <1>9, <3>1
  <2> HIDE DEF Key
  <2>2. QED
    BY <1>1, <1>4, <2>1 DEF ListedOnce
<1>11. QED
  BY <1>6, <1>8, <1>10 DEF WalkInv

\* Without updated_after and cursor there is one page; if it leaves out a run
\* that matches, as many runs as the limit are on it.
LEMMA OnePageIsFull ==
    ASSUME Typed, WalkInv, AnswerPage, ~Pages(walk), Cardinality(Remaining(walk)) > walk.limit
    PROVE  Cardinality({x \in Runs : listed'[x] > 0}) = walk.limit
<1> DEFINE T == {x \in Runs : listed'[x] > 0}
           f == [k \in ThePage |-> k[2]]
<1>1. walk.pc = "read" /\ FoundOnce /\ \A x \in Runs : listed'[x] = count[x] /\ count[x] \in 0..1
  <2>1. \A x \in Runs : listed[x] = 0
    BY AnswerDef DEF WalkInv, FirstPage, Walking, Pages
  <2>2. QED
    BY <2>1, AnswerDef DEF WalkInv
<1>2. ThePage \subseteq walk.found
  BY OfThePage
<1>3. \A k \in ThePage : k[2] \in T
  <2>1. TAKE k \in ThePage
  <2>2. k[2] \in Runs /\ k \in On(k[2])
    BY <1>2, KeyTypes DEF On
  <2>3. Cardinality(On(k[2])) = 1
    BY <1>1, <2>2, OnThePage
  <2>4. count[k[2]] = 1
    BY <2>2, <2>3 DEF count
  <2>5. listed'[k[2]] = 1
    BY <1>1, <2>2, <2>4
  <2>6. QED
    BY <2>2, <2>5
<1>4. \A x \in T : \E k \in ThePage : k[2] = x
  <2>1. TAKE x \in T
  <2>2. Cardinality(On(x)) # 0
    BY <1>1 DEF count
  <2>3. QED
    BY <1>1, <2>2, OnThePage
<1>5. f \in Bijection(ThePage, T)
  <2>1. f \in [ThePage -> T]
    BY <1>3
  <2>2. \A a, b \in ThePage : f[a] = f[b] => a = b
    BY <1>1, <1>2 DEF FoundOnce
  <2>3. \A x \in T : \E k \in ThePage : f[k] = x
    BY <1>4
  <2> HIDE DEF f, T
  <2>4. QED
    BY <2>1, <2>2, <2>3 DEF Bijection, Injection, Surjection, IsInjective
<1>6. IsFiniteSet(ThePage) /\ Cardinality(ThePage) = walk.limit
  BY OfThePage
<1> HIDE DEF f, T
<1>7. Cardinality(T) = Cardinality(ThePage)
  BY <1>5, <1>6, FS_Bijection DEF ExistsBijection
<1>8. QED
  BY <1>6, <1>7 DEF T

\* It was the last page: the walk is over.
LEMMA LastPageInv ==
    ASSUME Typed, WalkInv, AnswerPage,
           ~(Pages(walk) /\ Cardinality(Remaining(walk)) > walk.limit)
    PROVE  WalkInv'
<1>1. walk'.pc = "done" /\ walk'.cursor = walk.cursor /\ walk'.after = walk.after
      /\ walk'.limit = walk.limit
  BY AnswerDef
<1>2. FoundOnce' /\ FirstPage' /\ ListedSoFar'
  BY <1>1 DEF FoundOnce, FirstPage, ListedSoFar, Walking
<1>3. ListedOnce'
  <2>1. ASSUME NEW r \in Steady'
        PROVE  listed'[r] <= 1
    <3>1. r \in Steady /\ listed'[r] = listed[r] + count[r]
      BY AnswerDef
    <3>2. QED
      BY <3>1, SteadyCount
  <2>2. QED
    BY <1>1, <2>1 DEF ListedOnce, Walking
<1>4. ASSUME NEW r \in Untouched
      PROVE  \/ listed'[r] = (IF runsKv[r].stamp > walk.after THEN 1 ELSE 0)
             \/ /\ runsKv[r].stamp > walk.after /\ listed'[r] = 0
                /\ Cardinality({x \in Runs : listed'[x] > 0}) = walk.limit /\ ~Pages(walk)
  <2>1. r \in Runs /\ listed'[r] = listed[r] + count[r]
    BY AnswerDef
  <2>2. CASE Key(r) \in Remaining(walk) => Key(r) \in ThePage
    <3>1. Key(r) \in ThePage => Key(r) \in Remaining(walk)
      BY OfThePage
    <3>2. QED
      BY <2>1, <2>2, <3>1, UntouchedCount
  <2>3. CASE Key(r) \in Remaining(walk) /\ Key(r) \notin ThePage
    <3>1. runsKv[r].stamp > walk.after /\ listed'[r] = 0
      BY <2>1, <2>3, UntouchedCount
    <3>2. Cardinality(Remaining(walk)) > walk.limit
      <4>1. walk \in Walks /\ walk.limit \in Nat
        BY DEF Typed, TypeOK, Walks
      <4>2. Remaining(walk) \subseteq SortKeys /\ IsFiniteSet(Remaining(walk))
        BY <4>1, FoundFinite
      <4>3. Cardinality(Remaining(walk)) \in Nat
        BY <4>2, FS_CardinalityType
      <4>4. ~(Cardinality(Remaining(walk)) <= walk.limit)
        BY <2>3, <4>1, <4>2, PageHoldsAll DEF ThePage
      <4>5. QED
        BY <4>1, <4>3, <4>4
    <3>3. QED
      BY <3>1, <3>2, OnePageIsFull
  <2>4. QED
    BY <2>2, <2>3
<1>5. WalkIsExact'
  <2>1. Pages(walk)' = Pages(walk) /\ Stored' \ touched' = Untouched
    BY <1>1, AnswerDef DEF Pages, Untouched
  <2>2. runsKv' = runsKv
    BY AnswerDef
  <2>3. QED
    BY <1>1, <1>4, <2>1, <2>2 DEF WalkIsExact
<1>6. QED
  BY <1>2, <1>3, <1>5 DEF WalkInv

-----------------------------------------------------------------------------
(* The theorems *)

LEMMA InitWalkInv == Init => WalkInv
BY DEF Init, Idle, WalkInv, FoundOnce, FirstPage, ListedSoFar, ListedOnce, WalkIsExact, Walking,
   Steady

LEMMA NextWalkInv ==
    ASSUME Typed, WalkInv, [Next]_vars
    PROVE  WalkInv'
<1>1. CASE UNCHANGED vars \/ Tick \/ (\E r \in Runs : Stamp(r)) \/ Watch
  <2>1. UNCHANGED <<runsKv, walkVars>>
    BY <1>1 DEF vars, bucketVars, Tick, Stamp, Watch, OpenWatch, PollWatch, WatchFails,
       ClientLeaves
  <2>2. QED
    BY <2>1, WalkInvSame
<1>2. CASE \E put \in stamped : Put(put[1], put[2])
  <2>1. \A put \in stamped : put[1] \in Runs /\ put[2] \in Times
    BY DEF Typed, TypeOK
  <2>2. QED
    BY <1>2, <2>1, PutInv
<1>3. CASE List
  BY <1>3, StartWalkInv, ListKeysInv, ListFailsInv, ReadSnapshotInv, MorePagesInv, LastPageInv
     DEF List
<1>4. QED
  BY <1>1, <1>2, <1>3 DEF Next, Write

LEMMA WalkInvAlways == Spec => []WalkInv
<1>1. Typed /\ WalkInv /\ [Next]_vars => WalkInv'
  BY NextWalkInv
<1>2. QED
  BY <1>1, InitWalkInv, TypedAlways, PTL DEF Spec

\* A client that follows next_cursor to the end has every run that matches and
\* that nobody wrote to once, and no other of them, however the other runs move
\* while it pages.
THEOREM WalksAreExact == Spec => []WalkIsExact
<1>1. WalkInv => WalkIsExact
  BY DEF WalkInv
<1>2. QED
  BY <1>1, WalkInvAlways, PTL

\* A run is listed a second time only if its updated_at went back during the
\* walk.
THEOREM RunsAreListedOnce == Spec => []TwiceOnlyIfBackdated
<1>1. Typed /\ WalkInv => TwiceOnlyIfBackdated
  <2>1. ASSUME Typed, WalkInv, NEW r \in Runs, listed[r] > 1, r \notin backdated
        PROVE  FALSE
    <3>1. r \in Steady /\ listed[r] \in Nat
      BY <2>1, KeyTypes DEF Steady
    <3>2. \A x \in Steady : listed[x] <= 1
      BY <2>1 DEF WalkInv, ListedOnce
    <3>3. listed[r] <= 1
      BY <3>1, <3>2
    <3>4. QED
      BY <2>1, <3>1, <3>3
  <2>2. QED
    BY <2>1 DEF TwiceOnlyIfBackdated
<1>2. QED
  BY <1>1, TypedAlways, WalkInvAlways, PTL

=============================================================================
