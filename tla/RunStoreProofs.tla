--------------------------- MODULE RunStoreProofs ---------------------------
(***************************************************************************)
(* Proofs about the run registry, for any set of run ids and any MAX_RUNS: *)
(* the bound on its size, what an entry says, what a reset and an eviction *)
(* do.  First what the operators do to a registry, then one step per       *)
(* action.                                                                 *)
(***************************************************************************)
EXTENDS RunStore, FiniteSetTheorems, SequenceTheorems, TLAPS

\* Registries without a run that is entered twice.
Stores == {s \in Seq(Entries) : \A i, j \in DOMAIN s : s[i].run = s[j].run => i = j}

\* The entries of a registry, whatever their order.
Held(store) == {store[k] : k \in DOMAIN store}

\* The runs of a registry are those of its entries.
LEMMA ListedHeld ==
  ASSUME NEW store
  PROVE  Listed(store) = {e.run : e \in Held(store)}
  BY DEF Listed, Held

\* Marking changes the status of one run's entry and nothing else.
LEMMA MarkedStore ==
  ASSUME NEW store \in Stores, NEW r \in Ids, NEW status \in Statuses
  PROVE  /\ Marked(store, r, status) \in Stores
         /\ Len(Marked(store, r, status)) = Len(store)
         /\ DOMAIN Marked(store, r, status) = DOMAIN store
         /\ \A k \in DOMAIN store : Marked(store, r, status)[k].run = store[k].run
         /\ Listed(Marked(store, r, status)) = Listed(store)
         /\ \A e \in Held(Marked(store, r, status)) :
               IF e.run = r THEN e.status = status ELSE e \in Held(store)
  <1> DEFINE marked == Marked(store, r, status)
  <1>1. marked = [k \in 1 .. Len(store) |->
                     IF store[k].run = r THEN [store[k] EXCEPT !.status = status] ELSE store[k]]
    BY DEF Marked, Stores
  <1>2. \A k \in 1 .. Len(store) : store[k] \in Entries
    BY DEF Stores
  <1>3. \A k \in 1 .. Len(store) : marked[k] \in Entries /\ marked[k].run = store[k].run
    BY <1>1, <1>2 DEF Entries
  <1>4. marked \in Seq(Entries) /\ Len(marked) = Len(store) /\ DOMAIN marked = DOMAIN store
    BY <1>1, <1>3 DEF Stores
  <1>5. DOMAIN store = 1 .. Len(store)
    BY DEF Stores
  <1>6. marked \in Stores
    BY <1>3, <1>4, <1>5 DEF Stores
  <1>7. Listed(marked) = Listed(store)
    BY <1>3, <1>4, <1>5 DEF Listed
  <1>8. \A k \in 1 .. Len(store) :
           IF marked[k].run = r THEN marked[k].status = status ELSE marked[k] \in Held(store)
    BY <1>1, <1>2, <1>5 DEF Entries, Held
  <1> QED  BY <1>3, <1>4, <1>5, <1>6, <1>7, <1>8 DEF Held

\* A run that is not in the registry can be appended to it.
LEMMA AppendStore ==
  ASSUME NEW store \in Stores, NEW e \in Entries, e.run \notin Listed(store)
  PROVE  /\ Append(store, e) \in Stores
         /\ Len(Append(store, e)) = Len(store) + 1
         /\ \A k \in DOMAIN store : Append(store, e)[k] = store[k]
         /\ Held(Append(store, e)) = Held(store) \union {e}
         /\ Listed(Append(store, e)) = Listed(store) \union {e.run}
  <1> DEFINE longer == Append(store, e)
  <1>1. /\ longer \in Seq(Entries) /\ Len(longer) = Len(store) + 1
        /\ DOMAIN longer = 1 .. (Len(store) + 1) /\ DOMAIN store = 1 .. Len(store)
        /\ Len(store) \in Nat
        /\ \A k \in 1 .. Len(store) : longer[k] = store[k]
        /\ longer[Len(store) + 1] = e
    BY DEF Stores
  <1>2. \A k \in 1 .. Len(store) : store[k].run # e.run
    BY <1>1 DEF Listed
  <1>3. longer \in Stores
    <2> SUFFICES ASSUME NEW i \in 1 .. (Len(store) + 1), NEW j \in 1 .. (Len(store) + 1),
                        longer[i].run = longer[j].run
                 PROVE  i = j
      BY <1>1 DEF Stores
    <2>1. CASE i \in 1 .. Len(store) /\ j \in 1 .. Len(store)
      <3>1. store[i].run = store[j].run /\ i \in DOMAIN store /\ j \in DOMAIN store
        BY <1>1, <2>1
      <3> QED  BY <3>1 DEF Stores
    <2>2. CASE i = Len(store) + 1 \/ j = Len(store) + 1
      BY <1>1, <1>2, <2>2
    <2> QED  BY <1>1, <2>1, <2>2
  <1>4. Held(longer) = Held(store) \union {e}
    BY <1>1 DEF Held
  <1> QED  BY <1>1, <1>3, <1>4, ListedHeld

\* Trimming drops at most the first entry, and only one that is too many.
LEMMA TrimStore ==
  ASSUME NEW store \in Stores
  PROVE  /\ Trim(store) \in Stores
         /\ Len(Trim(store)) = IF Len(store) > MaxRuns THEN Len(store) - 1 ELSE Len(store)
         /\ Held(Trim(store)) \subseteq Held(store)
         /\ Listed(Trim(store)) \subseteq Listed(store)
         /\ \A r \in Listed(store) \ Listed(Trim(store)) :
               r = store[1].run /\ Len(Trim(store)) >= MaxRuns
  <1> USE StoreAssumption
  <1>1. CASE Len(store) <= MaxRuns
    <2>1. Trim(store) = store
      BY <1>1 DEF Trim, Stores
    <2> QED  BY <1>1, <2>1 DEF Stores
  <1>2. CASE Len(store) > MaxRuns
    <2> DEFINE rest == Tail(store)
    <2>1. Trim(store) = rest
      BY <1>2 DEF Trim
    <2>2. store # <<>> /\ store \in Seq(Entries) /\ Len(store) \in Nat /\ DOMAIN store = 1 .. Len(store)
      BY <1>2 DEF Stores
    <2>3. /\ rest \in Seq(Entries) /\ Len(rest) = Len(store) - 1
          /\ DOMAIN rest = 1 .. (Len(store) - 1)
          /\ \A k \in 1 .. (Len(store) - 1) : rest[k] = store[k + 1]
      BY <2>2
    <2>4. rest \in Stores
      <3> SUFFICES ASSUME NEW i \in DOMAIN rest, NEW j \in DOMAIN rest, rest[i].run = rest[j].run
                   PROVE  i = j
        BY <2>3 DEF Stores
      <3>1. store[i + 1].run = store[j + 1].run /\ i + 1 \in DOMAIN store /\ j + 1 \in DOMAIN store
        BY <2>2, <2>3
      <3>2. i + 1 = j + 1
        BY <3>1 DEF Stores
      <3> QED  BY <2>2, <2>3, <3>2
    <2>5. Held(rest) \subseteq Held(store)
      BY <2>2, <2>3 DEF Held
    <2>6. \A k \in 2 .. Len(store) : store[k] = rest[k - 1] /\ k - 1 \in DOMAIN rest
      BY <2>2, <2>3
    <2>7. \A r \in Listed(store) \ Listed(rest) : r = store[1].run
      <3> SUFFICES ASSUME NEW i \in 1 .. Len(store), store[i].run \notin Listed(rest)
                   PROVE  store[i].run = store[1].run
        BY <2>2 DEF Listed
      <3>1. i \in 2 .. Len(store) => store[i].run \in Listed(rest)
        BY <2>6 DEF Listed
      <3> QED  BY <2>2, <3>1
    <2> QED  BY <1>2, <2>1, <2>2, <2>3, <2>4, <2>5, <2>7, ListedHeld
  <1> QED  BY <1>1, <1>2 DEF Stores

\* Removing one entry keeps the others.
LEMMA RemoveStore ==
  ASSUME NEW store \in Stores, NEW k \in DOMAIN store
  PROVE  /\ RemoveAt(store, k) \in Stores
         /\ Len(RemoveAt(store, k)) = Len(store) - 1
         /\ Held(RemoveAt(store, k)) \subseteq Held(store)
         /\ Listed(RemoveAt(store, k)) = Listed(store) \ {store[k].run}
  <1> DEFINE n == Len(store)
             less == RemoveAt(store, k)
  <1>1. store \in Seq(Entries) /\ n \in Nat /\ DOMAIN store = 1 .. n /\ k \in 1 .. n
    BY DEF Stores
  <1> DEFINE front == SubSeq(store, 1, k - 1)
             back == SubSeq(store, k + 1, n)
  <1>a. /\ front \in Seq(Entries) /\ Len(front) = k - 1
        /\ \A i \in 1 .. (k - 1) : front[i] = store[i]
    BY <1>1, SubSeqProperties
  <1>b. /\ back \in Seq(Entries) /\ Len(back) = n - k
        /\ \A i \in 1 .. (n - k) : back[i] = store[k + i]
    BY <1>1, SubSeqProperties
  <1>c. /\ less \in Seq(Entries) /\ Len(less) = n - 1
        /\ \A i \in 1 .. (n - 1) : less[i] = IF i <= k - 1 THEN front[i] ELSE back[i - (k - 1)]
    <2>1. less = front \o back
      BY DEF RemoveAt
    <2> HIDE DEF front, back, less
    <2>2. /\ front \o back \in Seq(Entries) /\ Len(front \o back) = Len(front) + Len(back)
          /\ \A i \in 1 .. Len(front) + Len(back) :
                (front \o back)[i] = IF i <= Len(front) THEN front[i] ELSE back[i - Len(front)]
      BY <1>a, <1>b, ConcatProperties
    <2>3. Len(front) + Len(back) = n - 1
      BY <1>1, <1>a, <1>b
    <2> QED  BY <1>a, <2>1, <2>2, <2>3
  <1>2. /\ less \in Seq(Entries) /\ Len(less) = n - 1 /\ DOMAIN less = 1 .. (n - 1)
        /\ \A i \in 1 .. (n - 1) : less[i] = IF i < k THEN store[i] ELSE store[i + 1]
    <2> HIDE DEF front, back, less
    <2>1. DOMAIN less = 1 .. (n - 1)
      BY <1>c, <1>1
    <2>2. ASSUME NEW i \in 1 .. (n - 1), i < k  PROVE less[i] = store[i]
      BY <1>1, <1>a, <1>c, <2>2
    <2>3. ASSUME NEW i \in 1 .. (n - 1), ~(i < k)  PROVE less[i] = store[i + 1]
      <3>1. ~(i <= k - 1) /\ i - (k - 1) \in 1 .. (n - k) /\ k + (i - (k - 1)) = i + 1
        BY <1>1, <2>3
      <3> QED  BY <1>b, <1>c, <3>1
    <2> QED  BY <1>c, <2>1, <2>2, <2>3
  <1> HIDE DEF less
  <1>3. less \in Stores
    <2> SUFFICES ASSUME NEW i \in 1 .. (n - 1), NEW j \in 1 .. (n - 1), less[i].run = less[j].run
                 PROVE  i = j
      BY <1>2 DEF Stores
    <2> DEFINE at(m) == IF m < k THEN m ELSE m + 1
    <2>1. /\ at(i) \in DOMAIN store /\ at(j) \in DOMAIN store
          /\ store[at(i)].run = store[at(j)].run
      BY <1>1, <1>2
    <2>2. at(i) = at(j)
      BY <2>1 DEF Stores
    <2> QED  BY <1>1, <2>2
  <1>4. Held(less) \subseteq Held(store)
    BY <1>1, <1>2 DEF Held
  <1>5. \A i \in 1 .. n : i # k => store[i] \in Held(less)
    <2>1. \A i \in 1 .. n : i < k => store[i] = less[i] /\ i \in DOMAIN less
      BY <1>1, <1>2
    <2>2. \A i \in 1 .. n : i > k => store[i] = less[i - 1] /\ i - 1 \in DOMAIN less
      BY <1>1, <1>2
    <2> QED  BY <1>1, <2>1, <2>2 DEF Held
  <1>6. Listed(less) \subseteq Listed(store)
    BY <1>4, ListedHeld
  <1>7. store[k].run \notin Listed(less)
    <2>1. \A i \in 1 .. n : i # k => store[i].run # store[k].run
      BY <1>1 DEF Stores
    <2>2. \A i \in 1 .. (n - 1) : less[i].run # store[k].run
      BY <1>1, <1>2, <2>1
    <2> QED  BY <1>2, <2>2 DEF Listed
  <1>8. Listed(store) \ {store[k].run} \subseteq Listed(less)
    <2> SUFFICES ASSUME NEW i \in 1 .. n, store[i].run # store[k].run
                 PROVE  store[i].run \in Listed(less)
      BY <1>1 DEF Listed
    <2> QED  BY <1>5, ListedHeld
  <1> QED  BY <1>2, <1>3, <1>4, <1>6, <1>7, <1>8 DEF less
-----------------------------------------------------------------------------
\* What the calls of the API write: the entry of one run, old or new, and no
\* other; nothing is evicted that is not the first and too much.

\* An answer ends.
LEMMA AnsweredStore ==
  ASSUME NEW store \in Stores, NEW r \in Ids, NEW status \in Statuses
  PROVE  LET new == Answered(store, r, status)
         IN  /\ new \in Stores
             /\ Len(new) <= Len(store) \/ Len(new) <= MaxRuns
             /\ Listed(new) \subseteq Listed(store) \union {r}
             /\ \A e \in Held(new) : IF e.run = r THEN e.status = status ELSE e \in Held(store)
             /\ \A x \in Listed(store) \ Listed(new) : x = store[1].run /\ Len(new) >= MaxRuns
  <1> USE StoreAssumption
  <1>0. Len(store) \in Nat
    BY DEF Stores
  <1>1. CASE r \in Listed(store)
    BY <1>0, <1>1, MarkedStore DEF Answered
  <1>2. CASE r \notin Listed(store)
    <2> DEFINE e == [run |-> r, status |-> status]
               longer == Append(store, e)
    <2>1. e \in Entries /\ e.run = r /\ e.status = status
      BY DEF Entries
    <2> HIDE DEF e
    <2>2. /\ longer \in Stores /\ Len(longer) = Len(store) + 1
          /\ \A k \in DOMAIN store : longer[k] = store[k]
          /\ Held(longer) = Held(store) \union {e}
          /\ Listed(longer) = Listed(store) \union {r}
      BY <1>2, <2>1, AppendStore
    <2> HIDE DEF longer
    <2>3. Answered(store, r, status) = Trim(longer)
      BY <1>2 DEF Answered, longer, e
    <2>4. \A f \in Held(store) : f.run # r
      BY <1>2, ListedHeld
    <2>5. \A x \in Listed(store) \ Listed(Trim(longer)) :
             x = store[1].run /\ Len(Trim(longer)) >= MaxRuns
      <3> SUFFICES ASSUME NEW x \in Listed(store), x \notin Listed(Trim(longer))
                   PROVE  x = store[1].run /\ Len(Trim(longer)) >= MaxRuns
        OBVIOUS
      <3>1. x = longer[1].run /\ Len(Trim(longer)) >= MaxRuns
        BY <2>2, TrimStore
      <3>2. 1 \in DOMAIN store
        BY <1>0 DEF Listed, Stores
      <3> QED  BY <2>2, <3>1, <3>2
    <2> QED  BY <1>0, <2>1, <2>2, <2>3, <2>4, <2>5, TrimStore
  <1> QED  BY <1>1, <1>2

\* A webhook or demo run ends, of a run that is not registered.
LEMMA DirectStore ==
  ASSUME NEW store \in Stores, NEW r \in Ids, NEW status \in Statuses, r \notin Listed(store)
  PROVE  Returned("direct", store, r, status) = Answered(store, r, status)
  BY DEF Returned, Answered

\* A background run ends: it makes up for its own insertion, and an entry
\* that is gone stays gone.
LEMMA FinishedStore ==
  ASSUME NEW store \in Stores, NEW r \in Ids, NEW status \in Statuses
  PROVE  LET new == Finished(store, r, status)
         IN  /\ new \in Stores
             /\ Len(new) <= Len(store) - 1 \/ Len(new) <= MaxRuns
             /\ Listed(new) \subseteq Listed(store)
             /\ \A e \in Held(new) : IF e.run = r THEN e.status = status ELSE e \in Held(store)
             /\ \A x \in Listed(store) \ Listed(new) : x = store[1].run /\ Len(new) >= MaxRuns
  <1> USE StoreAssumption
  <1> DEFINE marked == Marked(store, r, status)
  <1>1. /\ marked \in Stores /\ Len(marked) = Len(store) /\ Listed(marked) = Listed(store)
        /\ DOMAIN marked = DOMAIN store
        /\ \A k \in DOMAIN store : marked[k].run = store[k].run
        /\ \A e \in Held(marked) : IF e.run = r THEN e.status = status ELSE e \in Held(store)
    BY MarkedStore
  <1>2. Finished(store, r, status) = Trim(marked)
    BY DEF Finished
  <1> HIDE DEF marked
  <1>3. Len(store) \in Nat /\ DOMAIN store = 1 .. Len(store)
    BY DEF Stores
  <1>4. Listed(store) # {} => marked[1].run = store[1].run
    BY <1>1, <1>3 DEF Listed
  <1> QED  BY <1>1, <1>2, <1>3, <1>4, TrimStore

\* Any call ends.
LEMMA ReturnedStore ==
  ASSUME NEW store \in Stores, NEW r \in Ids, NEW status \in Statuses,
         NEW kind \in Calls \ {"none"}, kind = "direct" => r \notin Listed(store)
  PROVE  LET new == Returned(kind, store, r, status)
         IN  /\ new \in Stores
             /\ \/ Len(new) <= MaxRuns
                \/ Len(new) <= Len(store) - (IF kind = "background" THEN 1 ELSE 0)
             /\ Listed(new) \subseteq Listed(store) \union {r}
             /\ kind = "background" => Listed(new) \subseteq Listed(store)
             /\ \A e \in Held(new) : IF e.run = r THEN e.status = status ELSE e \in Held(store)
             /\ \A x \in Listed(store) \ Listed(new) : x = store[1].run /\ Len(new) >= MaxRuns
  <1>0. Len(store) \in Nat /\ MaxRuns \in Nat
    BY StoreAssumption DEF Stores
  <1>1. CASE kind = "answer"
    <2>1. Returned(kind, store, r, status) = Answered(store, r, status)
      BY <1>1, Zenon DEF Returned
    <2>2. Len(Answered(store, r, status)) \in Nat
      BY AnsweredStore DEF Stores
    <2> QED  BY <1>0, <1>1, <2>1, <2>2, AnsweredStore
  <1>2. CASE kind = "background"
    <2>1. Returned(kind, store, r, status) = Finished(store, r, status)
      <3>1. "background" # "answer"
        OBVIOUS
      <3> QED  BY <1>2, <3>1, Zenon DEF Returned
    <2> QED  BY <1>0, <1>2, <2>1, FinishedStore
  <1>3. CASE kind = "direct"
    <2>1. Returned(kind, store, r, status) = Answered(store, r, status)
      BY <1>3, DirectStore
    <2>2. Len(Answered(store, r, status)) \in Nat
      BY AnsweredStore DEF Stores
    <2> QED  BY <1>0, <1>3, <2>1, <2>2, AnsweredStore
  <1> QED  BY <1>1, <1>2, <1>3 DEF Calls
-----------------------------------------------------------------------------
\* A run that is in the registry, or was reset, has a past: no call will draw
\* its id again, and none that holds it inserts it blindly.
KnownOnce ==
    /\ \A r \in Listed(runs) \union reset : call[r] # "direct" /\ ~Fresh(r)
    /\ Listed(runs) \cap reset = {}

\* A background run is counted in RegistryBounded while it is under way or
\* once it failed, never as both; and the counts are finite.
CountedOnce ==
    /\ \A r \in lost : call[r] # "background" /\ ~Fresh(r)
    /\ IsFiniteSet(Backgrounds) /\ IsFiniteSet(lost)

\* RegistryBounded and ReportIsCurrent are not inductive alone: a run drawn
\* twice would be entered twice, or counted in both sets.
IInv == TypeOK /\ KnownOnce /\ CountedOnce /\ RegistryBounded /\ ReportIsCurrent

\* What an entry may say of its run.
Current(e) ==
    call[e.run] = "none" /\ e.run \notin cut =>
        e.status \in {Report(thread[e.run]), thread[e.run]} \ {"waiting"}

\* ReportIsCurrent speaks of the entries, not of their order; before a step
\* and after it.
LEMMA CurrentHeld ==
  /\ ReportIsCurrent <=> \A e \in Held(runs) : Current(e)
  /\ ReportIsCurrent' <=> \A e \in Held(runs') : Current(e)'
  BY Zenon DEF ReportIsCurrent, Current, Held

\* The registry of a well-typed state is a store.
LEMMA TypeStore ==
  TypeOK <=> /\ runs \in Stores
             /\ thread \in [Ids -> Snapshots] /\ call \in [Ids -> Calls]
             /\ reset \subseteq Ids /\ cut \subseteq Ids /\ lost \subseteq Ids
  BY DEF TypeOK, Stores

\* So is the next one.
LEMMA NextTypeStore ==
  ASSUME runs' \in Stores, thread' \in [Ids -> Snapshots], call' \in [Ids -> Calls],
         reset' \subseteq Ids, cut' \subseteq Ids, lost' \subseteq Ids
  PROVE  TypeOK'
  BY DEF TypeOK, Stores

\* Its runs have ids.
LEMMA ListedIds ==
  ASSUME NEW store \in Stores
  PROVE  Listed(store) \subseteq Ids /\ \A e \in Held(store) : e \in Entries /\ e.run \in Listed(store)
  <1>1. \A k \in DOMAIN store : store[k] \in Entries
    BY DEF Stores
  <1> QED  BY <1>1 DEF Entries, Listed, Held

\* Reports and refusals are statuses an entry may have.
LEMMA ReportType ==
  /\ \A snapshot : Report(snapshot) \in Statuses /\ Report(snapshot) # "waiting"
  /\ \A snapshot \in Interrupted \union {"halted"} :
        /\ StatusOf(snapshot) \in Statuses
        /\ StatusOf(snapshot) \in {Report(snapshot), snapshot} \ {"waiting"}
  BY DEF Report, StatusOf, Statuses, Interrupted

\* The registry starts empty.
LEMMA InitIInv == Init => IInv
  <1> SUFFICES ASSUME Init PROVE IInv
    OBVIOUS
  <1>1. runs \in Stores /\ Len(runs) = 0 /\ Held(runs) = {} /\ Listed(runs) = {}
    BY DEF Init, Stores, Held, Listed
  <1>2. TypeOK
    BY <1>1, TypeStore DEF Init, Snapshots, Calls
  <1>3. Backgrounds = {} /\ lost = {}
    BY DEF Init, Backgrounds
  <1>4. KnownOnce
    BY <1>1 DEF Init, KnownOnce
  <1>5. CountedOnce
    BY <1>3, FS_EmptySet DEF CountedOnce
  <1>6. RegistryBounded
    <2>1. Cardinality(Backgrounds) = 0 /\ Cardinality(lost) = 0
      BY <1>3, FS_EmptySet
    <2> QED  BY <1>1, <2>1, StoreAssumption DEF RegistryBounded
  <1>7. ReportIsCurrent
    BY <1>1, CurrentHeld
  <1> QED  BY <1>2, <1>4, <1>5, <1>6, <1>7 DEF IInv

\* The counts are natural numbers.
LEMMA Counts ==
  ASSUME IInv
  PROVE  Cardinality(Backgrounds) \in Nat /\ Cardinality(lost) \in Nat
         /\ Len(runs) \in Nat /\ MaxRuns \in Nat
  <1>1. runs \in Stores
    BY TypeStore DEF IInv
  <1> QED  BY <1>1, FS_CardinalityType, StoreAssumption DEF IInv, CountedOnce, Stores

\* A step that starts or ends no background run keeps the bound if the
\* registry does not grow beyond it.
LEMMA SameCounts ==
  ASSUME IInv, Backgrounds' = Backgrounds, lost' = lost,
         Len(runs') \in Nat, Len(runs') <= Len(runs) \/ Len(runs') <= MaxRuns
  PROVE  RegistryBounded'
  BY Counts DEF IInv, RegistryBounded

\* Starting a webhook or demo run.
LEMMA StartDirectKeeps ==
  ASSUME IInv, NEW r \in Ids, StartDirect(r)
  PROVE  IInv'
  <1> USE DEF IInv
  <1>1. Fresh(r) /\ call' = [call EXCEPT ![r] = "direct"]
        /\ runs' = runs /\ thread' = thread /\ reset' = reset /\ cut' = cut /\ lost' = lost
    BY DEF StartDirect
  <1>2. call \in [Ids -> Calls] /\ runs \in Stores
    BY TypeStore
  <1>3. TypeOK'
    BY <1>1, TypeStore, NextTypeStore DEF Calls
  <1>4. KnownOnce'
    BY <1>1, <1>2 DEF KnownOnce, Fresh
  <1>5. Backgrounds' = Backgrounds
    BY <1>1, <1>2 DEF Backgrounds, Fresh
  <1>6. CountedOnce'
    BY <1>1, <1>2, <1>5 DEF CountedOnce, Fresh
  <1>7. RegistryBounded'
    BY <1>1, <1>5, SameCounts, Counts
  <1>8. ReportIsCurrent'
    BY <1>1, <1>2 DEF ReportIsCurrent
  <1> QED  BY <1>3, <1>4, <1>6, <1>7, <1>8

\* Starting a background run: it enters the registry, and the count.
LEMMA StartBackgroundKeeps ==
  ASSUME IInv, NEW r \in Ids, StartBackground(r)
  PROVE  IInv'
  <1> USE DEF IInv
  <1> DEFINE e == [run |-> r, status |-> "running"]
  <1>1. Fresh(r) /\ call' = [call EXCEPT ![r] = "background"] /\ runs' = Append(runs, e)
        /\ reset' = reset \ Listed(runs') /\ thread' = thread /\ cut' = cut /\ lost' = lost
    BY DEF StartBackground, Become
  <1>2. /\ call \in [Ids -> Calls] /\ runs \in Stores /\ reset \subseteq Ids
        /\ e \in Entries /\ e.run = r
    BY TypeStore DEF Entries, Statuses
  <1>3. r \notin Listed(runs) /\ r \notin reset
    BY <1>1 DEF KnownOnce
  <1> HIDE DEF e
  <1>4. /\ runs' \in Stores /\ Len(runs') = Len(runs) + 1
        /\ Held(runs') = Held(runs) \union {e} /\ Listed(runs') = Listed(runs) \union {r}
    BY <1>1, <1>2, <1>3, AppendStore
  <1>5. TypeOK'
    BY <1>1, <1>2, <1>4, TypeStore, NextTypeStore DEF Calls
  <1>6. KnownOnce'
    BY <1>1, <1>2, <1>3, <1>4 DEF KnownOnce, Fresh
  <1>7. Backgrounds' = Backgrounds \union {r} /\ r \notin Backgrounds
    BY <1>1, <1>2 DEF Backgrounds, Fresh
  <1>8. /\ IsFiniteSet(Backgrounds')
        /\ Cardinality(Backgrounds') = Cardinality(Backgrounds) + 1
    BY <1>7, FS_AddElement DEF CountedOnce
  <1>9. CountedOnce'
    BY <1>1, <1>2, <1>8 DEF CountedOnce, Fresh
  <1>10. RegistryBounded'
    BY <1>1, <1>4, <1>8, Counts DEF RegistryBounded
  <1>11. ReportIsCurrent'
    <2> SUFFICES ASSUME NEW f \in Held(runs') PROVE Current(f)'
      BY CurrentHeld
    <2>1. CASE f = e
      BY <1>1, <1>2, <2>1 DEF Current
    <2>2. CASE f \in Held(runs)
      <3>1. f.run \in Listed(runs) /\ Current(f)
        BY <1>2, <2>2, ListedIds, CurrentHeld
      <3>2. f.run # r
        BY <1>3, <3>1
      <3> QED  BY <1>1, <1>2, <3>1, <3>2 DEF Current
    <2> QED  BY <1>4, <2>1, <2>2
  <1> QED  BY <1>5, <1>6, <1>9, <1>10, <1>11

\* An answer is accepted.
LEMMA AnswerKeeps ==
  ASSUME IInv, NEW r \in Ids, Answer(r)
  PROVE  IInv'
  <1> USE DEF IInv
  <1>1. call[r] = "none" /\ thread[r] # "none" /\ call' = [call EXCEPT ![r] = "answer"]
        /\ runs' = runs /\ thread' = thread /\ reset' = reset /\ cut' = cut /\ lost' = lost
    BY DEF Answer
  <1>2. call \in [Ids -> Calls] /\ runs \in Stores
    BY TypeStore
  <1>3. TypeOK'
    BY <1>1, TypeStore, NextTypeStore DEF Calls
  <1>4. KnownOnce'
    BY <1>1, <1>2 DEF KnownOnce, Fresh
  <1>5. Backgrounds' = Backgrounds
    BY <1>1, <1>2 DEF Backgrounds
  <1>6. CountedOnce'
    BY <1>1, <1>2, <1>5 DEF CountedOnce, Fresh
  <1>7. RegistryBounded'
    BY <1>1, <1>5, SameCounts, Counts
  <1>8. ReportIsCurrent'
    BY <1>1, <1>2 DEF ReportIsCurrent
  <1> QED  BY <1>3, <1>4, <1>6, <1>7, <1>8

\* An answer is refused, and the entry says why.
LEMMA RefuseKeeps ==
  ASSUME IInv, NEW r \in Ids, Refuse(r)
  PROVE  IInv'
  <1> USE DEF IInv
  <1> DEFINE status == StatusOf(thread[r])
  <1>1. /\ thread[r] \in Interrupted \union {"halted"} /\ runs' = Marked(runs, r, status)
        /\ call' = call /\ thread' = thread /\ reset' = reset /\ cut' = cut /\ lost' = lost
    BY DEF Refuse
  <1>2. runs \in Stores
    BY TypeStore
  <1>3. status \in Statuses /\ status \in {Report(thread[r]), thread[r]} \ {"waiting"}
    BY <1>1, ReportType
  <1> HIDE DEF status
  <1>4. /\ runs' \in Stores /\ Len(runs') = Len(runs) /\ Listed(runs') = Listed(runs)
        /\ \A e \in Held(runs') : IF e.run = r THEN e.status = status ELSE e \in Held(runs)
    BY <1>1, <1>2, <1>3, MarkedStore
  <1>5. TypeOK'
    BY <1>1, <1>4, TypeStore, NextTypeStore
  <1>6. KnownOnce'
    BY <1>1, <1>4 DEF KnownOnce, Fresh
  <1>7. Backgrounds' = Backgrounds
    BY <1>1 DEF Backgrounds
  <1>8. CountedOnce'
    BY <1>1, <1>7 DEF CountedOnce, Fresh
  <1>9. RegistryBounded'
    BY <1>1, <1>4, <1>7, SameCounts, Counts
  <1>10. ReportIsCurrent'
    BY <1>1, <1>3, <1>4, CurrentHeld DEF Current
  <1> QED  BY <1>5, <1>6, <1>8, <1>9, <1>10

\* A checkpoint is written: only of a run that has a call under way.
LEMMA SaveKeeps ==
  ASSUME IInv, NEW r \in Ids, Save(r)
  PROVE  IInv'
  <1> USE DEF IInv
  <1>1. /\ call[r] # "none" /\ call' = call
        /\ runs' = runs /\ reset' = reset /\ cut' = cut /\ lost' = lost
    BY DEF Save
  <1>2. PICK snapshot \in Snapshots \ {"none"} : thread' = [thread EXCEPT ![r] = snapshot]
    BY DEF Save
  <1>3. thread \in [Ids -> Snapshots] /\ runs \in Stores /\ reset \subseteq Ids /\ lost \subseteq Ids
    BY TypeStore
  <1>4. TypeOK'
    BY <1>1, <1>2, TypeStore, NextTypeStore
  <1>5. \A x \in Ids : Fresh(x)' => Fresh(x)
    BY <1>1, <1>2, <1>3 DEF Fresh
  <1>6. KnownOnce'
    BY <1>1, <1>3, <1>5, ListedIds DEF KnownOnce
  <1>7. Backgrounds' = Backgrounds
    BY <1>1 DEF Backgrounds
  <1>8. CountedOnce'
    BY <1>1, <1>3, <1>5, <1>7 DEF CountedOnce
  <1>9. RegistryBounded'
    BY <1>1, <1>7, SameCounts, Counts
  <1>10. ReportIsCurrent'
    <2> SUFFICES ASSUME NEW e \in Held(runs) PROVE Current(e)'
      BY <1>1, CurrentHeld
    <2>1. Current(e) /\ e.run \in Ids
      BY <1>3, CurrentHeld, ListedIds
    <2> QED  BY <1>1, <1>2, <1>3, <2>1 DEF Current
  <1> QED  BY <1>4, <1>6, <1>8, <1>9, <1>10

\* What Return does, as far as every proof about it needs.
LEMMA ReturnEffect ==
  ASSUME IInv, NEW r \in Ids, Return(r)
  PROVE  /\ runs' \in Stores
         /\ \/ Len(runs') <= MaxRuns
            \/ Len(runs') <= Len(runs) - (IF call[r] = "background" THEN 1 ELSE 0)
         /\ Listed(runs') \subseteq Listed(runs) \union {r}
         /\ call[r] = "background" => Listed(runs') \subseteq Listed(runs)
         /\ \A e \in Held(runs') :
               IF e.run = r THEN e.status = Report(thread[r]) ELSE e \in Held(runs)
         /\ \A x \in Listed(runs) \ Listed(runs') : x = runs[1].run /\ Len(runs') >= MaxRuns
  <1> DEFINE status == Report(thread[r])
  <1>1. call[r] \in Calls \ {"none"} /\ runs' = Returned(call[r], runs, r, status)
    BY TypeStore DEF IInv, Return, Become
  <1>2. runs \in Stores /\ status \in Statuses
    BY TypeStore, ReportType DEF IInv
  <1>3. call[r] = "direct" => r \notin Listed(runs)
    BY DEF IInv, KnownOnce
  <1> HIDE DEF status
  <1> QED  BY <1>1, <1>2, <1>3, ReturnedStore DEF status

\* A call ends with a report.
LEMMA ReturnKeeps ==
  ASSUME IInv, NEW r \in Ids, Return(r)
  PROVE  IInv'
  <1> USE DEF IInv
  <1>1. /\ call[r] # "none" /\ thread[r] # "none" /\ call' = [call EXCEPT ![r] = "none"]
        /\ reset' = reset \ Listed(runs') /\ cut' = cut \ {r}
        /\ thread' = thread /\ lost' = lost
    BY DEF Return, Become, Interrupted
  <1>2. call \in [Ids -> Calls] /\ runs \in Stores /\ runs' \in Stores
    BY TypeStore, ReturnEffect
  <1>3. TypeOK'
    BY <1>1, <1>2, TypeStore, NextTypeStore DEF Calls
  <1>4. KnownOnce'
    <2>1. Listed(runs') \subseteq Listed(runs) \union {r}
      BY ReturnEffect
    <2> QED  BY <1>1, <1>2, <2>1 DEF KnownOnce, Fresh
  <1>5. Backgrounds' = Backgrounds \ {r}
    BY <1>1, <1>2 DEF Backgrounds
  <1>6. CountedOnce'
    BY <1>1, <1>2, <1>5, FS_RemoveElement DEF CountedOnce, Fresh
  <1>7. RegistryBounded'
    <2>1. Len(runs') \in Nat
      BY <1>2 DEF Stores
    <2>2. CASE call[r] = "background"
      <3>1. r \in Backgrounds
        BY <2>2 DEF Backgrounds
      <3>2. Cardinality(Backgrounds') = Cardinality(Backgrounds) - 1
        BY <1>5, <3>1, FS_RemoveElement DEF CountedOnce
      <3>3. Cardinality(Backgrounds') \in Nat
        BY <1>6, FS_CardinalityType DEF CountedOnce
      <3>4. Len(runs') <= MaxRuns \/ Len(runs') <= Len(runs) - 1
        BY <2>2, ReturnEffect
      <3> QED  BY <1>1, <2>1, <3>2, <3>3, <3>4, Counts DEF RegistryBounded
    <2>3. CASE call[r] # "background"
      <3>1. Backgrounds' = Backgrounds
        BY <1>5, <2>3 DEF Backgrounds
      <3>2. Len(runs') <= MaxRuns \/ Len(runs') <= Len(runs)
        BY <2>3, ReturnEffect, Counts
      <3> QED  BY <1>1, <2>1, <3>1, <3>2, SameCounts
    <2> QED  BY <2>2, <2>3
  <1>8. ReportIsCurrent'
    <2> SUFFICES ASSUME NEW e \in Held(runs') PROVE Current(e)'
      BY CurrentHeld
    <2>1. CASE e.run = r
      BY <1>1, <2>1, ReturnEffect, ReportType DEF Current
    <2>2. CASE e.run # r
      <3>1. Current(e) /\ e.run \in Ids
        BY <1>2, <2>2, ReturnEffect, CurrentHeld, ListedIds
      <3> QED  BY <1>1, <1>2, <2>2, <3>1 DEF Current
    <2> QED  BY <2>1, <2>2
  <1> QED  BY <1>3, <1>4, <1>6, <1>7, <1>8

\* A call ends with an exception; a background run is counted as lost.
LEMMA RaiseKeeps ==
  ASSUME IInv, NEW r \in Ids, Raise(r)
  PROVE  IInv'
  <1> USE DEF IInv
  <1>1. /\ call[r] # "none" /\ call' = [call EXCEPT ![r] = "none"] /\ cut' = cut \union {r}
        /\ lost' = IF call[r] = "background" THEN lost \union {r} ELSE lost
        /\ runs' = runs /\ thread' = thread /\ reset' = reset
    BY DEF Raise
  <1>2. call \in [Ids -> Calls] /\ runs \in Stores
    BY TypeStore
  <1>3. TypeOK'
    BY <1>1, <1>2, TypeStore, NextTypeStore DEF Calls
  <1>4. KnownOnce'
    BY <1>1, <1>2 DEF KnownOnce, Fresh
  <1>5. Backgrounds' = Backgrounds \ {r}
    BY <1>1, <1>2 DEF Backgrounds
  <1>6. CountedOnce'
    BY <1>1, <1>2, <1>5, FS_RemoveElement, FS_AddElement DEF CountedOnce, Fresh
  <1>7. RegistryBounded'
    <2>1. CASE call[r] = "background"
      <3>1. r \in Backgrounds /\ r \notin lost
        BY <2>1 DEF Backgrounds, CountedOnce
      <3>2. /\ Cardinality(Backgrounds') = Cardinality(Backgrounds) - 1
            /\ Cardinality(lost') = Cardinality(lost) + 1
        BY <1>1, <1>5, <2>1, <3>1, FS_RemoveElement, FS_AddElement DEF CountedOnce
      <3> QED  BY <1>1, <3>2, Counts DEF RegistryBounded
    <2>2. CASE call[r] # "background"
      <3>1. Backgrounds' = Backgrounds /\ lost' = lost
        BY <1>1, <1>5, <2>2 DEF Backgrounds
      <3> QED  BY <1>1, <3>1, SameCounts, Counts
    <2> QED  BY <2>1, <2>2
  <1>8. ReportIsCurrent'
    <2> SUFFICES ASSUME NEW e \in Held(runs) PROVE Current(e)'
      BY <1>1, CurrentHeld
    <2>1. Current(e) /\ e.run \in Ids
      BY <1>2, CurrentHeld, ListedIds
    <2> QED  BY <1>1, <1>2, <2>1 DEF Current
  <1> QED  BY <1>3, <1>4, <1>6, <1>7, <1>8

\* Fewer entries, all of them old, and the reset runs remembered.
LEMMA ShrinkKeeps ==
  ASSUME IInv, runs' \in Stores, Len(runs') <= Len(runs), Held(runs') \subseteq Held(runs),
         Listed(runs') \cap reset' = {}, reset' \subseteq reset \union Listed(runs),
         UNCHANGED <<thread, call, cut, lost>>
  PROVE  IInv'
  <1> USE DEF IInv
  <1>1. runs \in Stores /\ reset \subseteq Ids /\ Listed(runs) \subseteq Ids
    BY TypeStore, ListedIds
  <1>2. Listed(runs') \subseteq Listed(runs)
    BY ListedHeld
  <1>3. TypeOK'
    BY <1>1, TypeStore, NextTypeStore
  <1>4. KnownOnce'
    BY <1>2 DEF KnownOnce, Fresh
  <1>5. Backgrounds' = Backgrounds
    BY DEF Backgrounds
  <1>6. CountedOnce'
    BY <1>5 DEF CountedOnce, Fresh
  <1>7. RegistryBounded'
    <2>1. Len(runs') \in Nat
      BY DEF Stores
    <2> QED  BY <1>5, <2>1, SameCounts
  <1>8. ReportIsCurrent'
    BY CurrentHeld DEF Current
  <1> QED  BY <1>3, <1>4, <1>6, <1>7, <1>8

\* One run is reset.
LEMMA ResetRunKeeps ==
  ASSUME IInv, NEW r \in Ids, ResetRun(r)
  PROVE  IInv'
  <1>1. PICK k \in DOMAIN runs : runs[k].run = r /\ runs' = RemoveAt(runs, k)
    BY DEF ResetRun
  <1>2. reset' = reset \union {r} /\ UNCHANGED <<thread, call, cut, lost>>
    BY DEF ResetRun
  <1>3. runs \in Stores
    BY TypeStore DEF IInv
  <1>4. /\ runs' \in Stores /\ Len(runs') = Len(runs) - 1
        /\ Held(runs') \subseteq Held(runs) /\ Listed(runs') = Listed(runs) \ {r}
    BY <1>1, <1>3, RemoveStore
  <1>5. r \in Listed(runs) /\ Listed(runs) \cap reset = {}
    BY <1>1 DEF Listed, IInv, KnownOnce
  <1>6. Listed(runs') \cap reset' = {}
    BY <1>2, <1>4, <1>5
  <1>7. Len(runs') <= Len(runs)
    BY <1>4, Counts
  <1> QED  BY <1>2, <1>4, <1>5, <1>6, <1>7, ShrinkKeeps

\* All runs are reset.
LEMMA ResetAllKeeps ==
  ASSUME IInv, ResetAll
  PROVE  IInv'
  <1>1. runs' = <<>> /\ reset' = reset \union Listed(runs) /\ UNCHANGED <<thread, call, cut, lost>>
    BY DEF ResetAll
  <1>2. runs' \in Stores /\ Len(runs') = 0 /\ Held(runs') = {} /\ Listed(runs') = {}
    BY <1>1 DEF Stores, Held, Listed
  <1>3. Len(runs') <= Len(runs)
    BY <1>2, Counts
  <1> QED  BY <1>1, <1>2, <1>3, ShrinkKeeps

\* Every step keeps the invariant.
LEMMA StepIInv == IInv /\ [Next]_vars => IInv'
  <1> SUFFICES ASSUME IInv, [Next]_vars PROVE IInv'
    OBVIOUS
  <1>1. ASSUME NEW r \in Ids, StartDirect(r) PROVE IInv'
    BY <1>1, StartDirectKeeps
  <1>2. ASSUME NEW r \in Ids, StartBackground(r) PROVE IInv'
    BY <1>2, StartBackgroundKeeps
  <1>3. ASSUME NEW r \in Ids, Answer(r) PROVE IInv'
    BY <1>3, AnswerKeeps
  <1>4. ASSUME NEW r \in Ids, Refuse(r) PROVE IInv'
    BY <1>4, RefuseKeeps
  <1>5. ASSUME NEW r \in Ids, Save(r) PROVE IInv'
    BY <1>5, SaveKeeps
  <1>6. ASSUME NEW r \in Ids, Return(r) PROVE IInv'
    BY <1>6, ReturnKeeps
  <1>7. ASSUME NEW r \in Ids, Raise(r) PROVE IInv'
    BY <1>7, RaiseKeeps
  <1>8. ASSUME NEW r \in Ids, ResetRun(r) PROVE IInv'
    BY <1>8, ResetRunKeeps
  <1>9. CASE ResetAll
    BY <1>9, ResetAllKeeps
  <1>10. CASE UNCHANGED vars
    BY <1>10 DEF vars, IInv, TypeOK, KnownOnce, CountedOnce, RegistryBounded, ReportIsCurrent,
                 Backgrounds, Fresh
  <1> QED  BY <1>1, <1>2, <1>3, <1>4, <1>5, <1>6, <1>7, <1>8, <1>9, <1>10 DEF Next

\* The invariant of the registry.
THEOREM Invariant == Spec => []IInv
  BY InitIInv, StepIInv, PTL DEF Spec

\* No run is entered twice, and every field keeps its range (main.py runs).
THEOREM TypeCorrect == Spec => []TypeOK
  <1>1. IInv => TypeOK
    BY DEF IInv
  <1> QED  BY <1>1, Invariant, PTL

\* The registry exceeds MAX_RUNS by no more than the background runs under
\* way or failed (main.py:240, 357, 592, 831: one eviction per insertion).
THEOREM RegistryStaysBounded == Spec => []RegistryBounded
  <1>1. IInv => RegistryBounded
    BY DEF IInv
  <1> QED  BY <1>1, Invariant, PTL

\* An entry says what the checkpoint says once no call of its run is under
\* way or failed (run_agent, resume_agent and hitl_respond write it).
THEOREM ReportsAreCurrent == Spec => []ReportIsCurrent
  <1>1. IInv => ReportIsCurrent
    BY DEF IInv
  <1> QED  BY <1>1, Invariant, PTL

\* What a step leaves of the runs it finds: those it drops were reset or
\* evicted as the first, and those it brings back were answered.
LEMMA StepListed ==
  ASSUME IInv, [Next]_vars
  PROVE  /\ \A r \in reset : r \in Listed(runs') => call[r] = "answer" /\ Return(r)
         /\ \A r \in Listed(runs) \ Listed(runs') :
               r \in reset' \/ (r = runs[1].run /\ Len(runs') >= MaxRuns)
  <1>1. runs \in Stores /\ call \in [Ids -> Calls]
    BY TypeStore DEF IInv
  <1>2. \A r \in reset : r \notin Listed(runs) /\ call[r] # "direct" /\ ~Fresh(r)
    BY DEF IInv, KnownOnce
  <1>3. CASE runs' = runs
    BY <1>2, <1>3
  <1>4. ASSUME NEW x \in Ids, StartBackground(x)
        PROVE  Listed(runs') = Listed(runs) \union {x} /\ Fresh(x)
    <2> DEFINE e == [run |-> x, status |-> "running"]
    <2>1. e \in Entries /\ e.run = x /\ Fresh(x) /\ x \notin Listed(runs) /\ runs' = Append(runs, e)
      BY <1>4 DEF Entries, Statuses, StartBackground, Become, IInv, KnownOnce
    <2> HIDE DEF e
    <2> QED  BY <1>1, <2>1, AppendStore
  <1>5. ASSUME NEW x \in Ids, Refuse(x)
        PROVE  Listed(runs') = Listed(runs)
    BY <1>1, <1>5, ReportType, MarkedStore DEF Refuse
  <1>6. ASSUME NEW x \in Ids, Return(x)
        PROVE  /\ \A r \in reset : r \in Listed(runs') => r = x /\ call[x] = "answer"
               /\ \A r \in Listed(runs) \ Listed(runs') : r = runs[1].run /\ Len(runs') >= MaxRuns
    <2>1. call[x] \in {"direct", "background", "answer"}
      BY <1>1, <1>6 DEF Return, Calls
    <2> QED  BY <1>2, <1>6, <2>1, ReturnEffect
  <1>7. ASSUME NEW x \in Ids, ResetRun(x)
        PROVE  Listed(runs') = Listed(runs) \ {x} /\ x \in reset'
    <2>1. PICK k \in DOMAIN runs : runs[k].run = x /\ runs' = RemoveAt(runs, k)
      BY <1>7 DEF ResetRun
    <2> QED  BY <1>1, <1>7, <2>1, RemoveStore DEF ResetRun
  <1>8. ASSUME ResetAll
        PROVE  Listed(runs') = {} /\ Listed(runs) \subseteq reset'
    BY <1>8 DEF ResetAll, Listed
  <1>9. ASSUME NEW x \in Ids, StartDirect(x) \/ Answer(x) \/ Save(x) \/ Raise(x)
        PROVE  runs' = runs
    BY <1>9 DEF StartDirect, Answer, Save, Raise
  <1>10. UNCHANGED vars => runs' = runs
    BY DEF vars
  <1>11. CASE \E x \in Ids : StartBackground(x) \/ Refuse(x) \/ ResetRun(x)
    BY <1>2, <1>4, <1>5, <1>7, <1>11
  <1>12. CASE \E x \in Ids : Return(x)
    BY <1>6, <1>12
  <1>13. CASE ResetAll
    BY <1>8, <1>13
  <1> QED  BY <1>3, <1>9, <1>10, <1>11, <1>12, <1>13 DEF Next

\* A run that was reset comes back only by an answer to it (main.py:823 asks
\* whether the run is registered before it writes).
THEOREM ResetStaysFinal == Spec => ResetIsFinal
  <1>1. IInv /\ [Next]_vars =>
          [\A r \in reset : r \in Listed(runs') => call[r] = "answer" /\ Return(r)]_vars
    BY StepListed
  <1> QED  BY <1>1, Invariant, PTL DEF Spec, ResetIsFinal

\* Only the oldest entry is evicted, and only from a registry that stays full
\* (main.py popitem(last=False)).
THEOREM OldestIsEvicted == Spec => EvictsOldest
  <1>1. IInv /\ [Next]_vars =>
          [\A r \in Listed(runs) \ Listed(runs') :
              r \in reset' \/ (r = runs[1].run /\ Len(runs') >= MaxRuns)]_vars
    BY StepListed
  <1> QED  BY <1>1, Invariant, PTL DEF Spec, EvictsOldest
=============================================================================
