------------------------- MODULE LeaseAndCallProofs -------------------------
(***************************************************************************)
(* Proofs about what surrounds a task on its way.  About the two sides of  *)
(* is_worker_online, which queue_client runs together: about WorkerLease,  *)
(* for every number of processes, every length of the lease and every      *)
(* delay of the calls; and about QueueClient, for every batch of specs     *)
(* whose dependencies come first and every number of rows.  About the paid *)
(* call of ProviderCall, for any set of tasks, any number of attempts and  *)
(* compression steps, and any number of crashes: what is paid is known to  *)
(* the rows, what succeeded is kept and billed, and a provider behind      *)
(* submit_post has one job of a task at most.                              *)
(***************************************************************************)
EXTENDS WorkerLease, QueueClient, ProviderCall, FiniteSetTheorems, TLAPS

-----------------------------------------------------------------------------
(* WorkerLease and QueueClient *)

LEMMA LeaseTypeStep ==
    ASSUME WorkerLeaseAssumption, LeaseTypeOK, [LeaseNext]_leaseVars
    PROVE  LeaseTypeOK'
<1> USE DEF WorkerLeaseAssumption, LeaseTypeOK
<1>1. CASE Tick
  <2>1. \A w \in Worker : loop[w] = "ask" => age[w] + 1 \in 0..MaxAge
    BY <1>1 DEF Tick
  <2>2. \A n \in -MaxAge..Ttl : Later(n) \in -MaxAge..Ttl
    BY DEF Later
  <2> QED
    BY <1>1, <2>1, <2>2 DEF Tick
<1>2. ASSUME NEW w \in Worker, AcquireOrRenew(w)
      PROVE  LeaseTypeOK'
  <2>1. Ttl - age[w] \in -MaxAge..Ttl
    OBVIOUS
  <2>2. MayTake(w) \in BOOLEAN
    BY DEF MayTake
  <2>3. CASE MayTake(w)
    BY <1>2, <2>1, <2>2, <2>3 DEF AcquireOrRenew
  <2>4. CASE ~MayTake(w)
    BY <1>2, <2>2, <2>4 DEF AcquireOrRenew
  <2> QED
    BY <2>3, <2>4
<1>3. ASSUME NEW w \in Worker, Boot(w) \/ ReadClock(w) \/ EndCycle(w) \/ Stop(w)
      PROVE  LeaseTypeOK'
  BY <1>3 DEF Boot, ReadClock, EndCycle, Stop
<1>5. ASSUME NEW w \in Worker, Release(w)
      PROVE  LeaseTypeOK'
  BY <1>5 DEF Release
<1>6. ASSUME NEW w \in Worker, Crash(w)
      PROVE  LeaseTypeOK'
  BY <1>6 DEF Crash
<1>4. CASE UNCHANGED leaseVars
  BY <1>4 DEF leaseVars
<1> QED
  BY <1>1, <1>2, <1>3, <1>4, <1>5, <1>6 DEF LeaseNext, LeaseStep

\* The delay of a call can only make its lease shorter, and whoever takes a
\* lease over saw it run out, by a clock that is not ahead of the present.
LEMMA FreshOwnerStep ==
    ASSUME WorkerLeaseAssumption, LeaseTypeOK, FreshOwnerAlone, [LeaseNext]_leaseVars
    PROVE  FreshOwnerAlone'
<1> SUFFICES ASSUME NEW x \in Worker, owns'[x], mine'[x] > 0
             PROVE  owner' = x /\ left' = mine'[x]
  BY DEF FreshOwnerAlone
<1> USE DEF WorkerLeaseAssumption, LeaseTypeOK, FreshOwnerAlone
<1>1. CASE Tick
  BY <1>1 DEF Tick, Later
<1>2. ASSUME NEW w \in Worker, AcquireOrRenew(w)
      PROVE  owner' = x /\ left' = mine'[x]
  <2>1. CASE x = w
    BY <1>2, <2>1 DEF AcquireOrRenew
  <2>2. CASE x # w
    <3>1. owner = x /\ left = mine[x] /\ mine[x] > 0
      BY <1>2, <2>2 DEF AcquireOrRenew
    <3>2. ~MayTake(w)
      BY <3>1, <2>2 DEF MayTake
    <3> QED
      BY <1>2, <2>2, <3>1, <3>2 DEF AcquireOrRenew
  <2> QED
    BY <2>1, <2>2
<1>3. ASSUME NEW w \in Worker, Release(w) \/ Crash(w)
      PROVE  owner' = x /\ left' = mine'[x]
  <2>1. x # w /\ owns[x] /\ mine[x] > 0
    BY <1>3 DEF Release, Crash
  <2> QED
    BY <1>3, <2>1 DEF Release, Crash
<1>4. ASSUME NEW w \in Worker, Boot(w) \/ ReadClock(w) \/ EndCycle(w) \/ Stop(w)
      PROVE  owner' = x /\ left' = mine'[x]
  BY <1>4 DEF Boot, ReadClock, EndCycle, Stop
<1>5. CASE UNCHANGED leaseVars
  BY <1>5 DEF leaseVars
<1> QED
  BY <1>1, <1>2, <1>3, <1>4, <1>5 DEF LeaseNext, LeaseStep

\* The lease and the clocks keep their ranges.
THEOREM LeaseTypeCorrect == LeaseSpec => []LeaseTypeOK
<1>1. LeaseInit => LeaseTypeOK
  BY WorkerLeaseAssumption DEF WorkerLeaseAssumption, LeaseInit, LeaseTypeOK
<1>2. LeaseTypeOK /\ [LeaseNext]_leaseVars => LeaseTypeOK'
  BY LeaseTypeStep, WorkerLeaseAssumption
<1> QED
  BY <1>1, <1>2, PTL DEF LeaseSpec

\* A worker that renewed less than the ttl ago has the lease, and has it alone.
THEOREM FreshOwnersAreAlone == LeaseSpec => []FreshOwnerAlone
<1>1. LeaseInit => FreshOwnerAlone
  BY DEF LeaseInit, FreshOwnerAlone
<1>2. LeaseTypeOK /\ FreshOwnerAlone /\ [LeaseNext]_leaseVars => FreshOwnerAlone'
  BY FreshOwnerStep, WorkerLeaseAssumption
<1> QED
  BY <1>1, <1>2, LeaseTypeCorrect, PTL DEF LeaseSpec

------------------------------------------------------------------------------
(* The batch, QueueClient. *)

RowState == {"absent", "queued", "running", "cancelling", "succeeded", "failed", "cancelled"}
Started == {"running", "cancelling", "succeeded"}

\* The rows and what the batch knows of them.
RowRanges ==
    /\ state \in [Task -> RowState]
    /\ ids \in [Spec_ -> Task \cup {NULL}] /\ ours \subseteq Spec_

\* The specs are enqueued in their order, and waited for when all are.
Enqueued ==
    /\ \E n \in 0..Len(Specs) : \A i \in Spec_ : ids[i] # NULL <=> i <= n
    /\ batch = "wait" => \A i \in Spec_ : ids[i] # NULL

\* A row of our own needs the row of the spec it depends on, and started after
\* that had succeeded; a result that names a state is the state the row has.
RowsOfOurs ==
    \A i \in ours :
        /\ ids[i] # NULL
        /\ Specs[i].after # 0 =>
              /\ need[ids[i]] = ids[Specs[i].after]
              /\ state[ids[i]] \in Started => state[ids[Specs[i].after]] = "succeeded"
ResultsTrue ==
    \A i \in Spec_ : result[i] \in Finished => ids[i] # NULL /\ state[ids[i]] = result[i]

BatchInd == QueueTypeOK /\ RowRanges /\ Enqueued /\ RowsOfOurs /\ ResultsTrue

LEMMA SpecsKnown ==
    /\ Len(Specs) \in Nat /\ Spec_ = 1..Len(Specs) /\ NULL \notin Task
    /\ \A i \in Spec_ : /\ Specs[i].key \in Key
                        /\ Specs[i].after \in 0..(i - 1)
                        /\ Specs[i].after # 0 => Specs[i].after \in Spec_
<1>1. Specs \in Seq([key : Key, after : Nat])
  BY QueueClientAssumption DEF QueueClientAssumption
<1>2. Len(Specs) \in Nat /\ Spec_ = 1..Len(Specs)
  <2>1. \A S : \A q \in Seq(S) : Len(q) \in Nat /\ DOMAIN q = 1..Len(q)
    OBVIOUS
  <2> QED
    BY <1>1, <2>1 DEF Spec_
<1>3. \A i \in Spec_ : Specs[i].key \in Key /\ Specs[i].after \in Nat /\ Specs[i].after < i
  <2>1. \A S : \A q \in Seq(S) : \A i \in 1..Len(q) : q[i] \in S
    OBVIOUS
  <2>2. \A i \in Spec_ : Specs[i] \in [key : Key, after : Nat]
    BY <1>1, <1>2, <2>1
  <2>3. \A i \in Spec_ : Specs[i].after < i
    BY QueueClientAssumption DEF QueueClientAssumption, Spec_
  <2> QED
    BY <2>2, <2>3
<1> QED
  BY <1>2, <1>3, QueueClientAssumption DEF QueueClientAssumption

LEMMA AfterEnqueued ==
    ASSUME BatchInd, NEW i \in Spec_, ids[i] # NULL, Specs[i].after # 0
    PROVE  ids[Specs[i].after] # NULL
<1>1. PICK n \in 0..Len(Specs) : \A j \in Spec_ : ids[j] # NULL <=> j <= n
  BY DEF BatchInd, Enqueued
<1>2. i <= n /\ i \in Nat /\ Specs[i].after \in Spec_ /\ Specs[i].after \in 0..(i - 1)
  BY <1>1, SpecsKnown
<1> QED
  BY <1>1, <1>2

\* What any step of the table leaves of a row.
Onward ==
    /\ state' \in [Task -> RowState]
    /\ need' \in [Task -> Task \cup {NULL}] /\ slot' \in [Task -> Key \cup {NULL}]
    /\ \A x \in Task :
          /\ state[x] # "absent" => state'[x] # "absent" /\ need'[x] = need[x]
          /\ state[x] \in Finished => state'[x] = state[x]
          /\ state'[x] \in Started => \/ state[x] \in Started
                                      \/ need[x] # NULL => state[need[x]] = "succeeded"

LEMMA SubmitOnward ==
    ASSUME QueueTypeOK, RowRanges, NEW t \in Task, NEW n \in Task \cup {NULL}, NEW k \in Key,
           Rows!Submit(t, n, k)
    PROVE  Onward /\ state[t] = "absent" /\ state'[t] = "queued" /\ need'[t] = n
BY DEF QueueTypeOK, RowRanges, Onward, Rows!Submit, Rows!Becomes, RowState, Started, Finished

LEMMA RowsMoveOnward ==
    ASSUME QueueTypeOK, RowRanges, RowsMove
    PROVE  Onward
<1> USE DEF QueueTypeOK, RowRanges, Onward, RowState, Started, Finished, Rows!Becomes
<1>1. ASSUME NEW t \in Task, Rows!Start(t) \/ Rows!Succeed(t) \/ Rows!AskToStop(t)
      PROVE  Onward
  BY <1>1 DEF Rows!Start, Rows!Succeed, Rows!AskToStop
<1>2. ASSUME NEW t \in Task, Rows!Fail(t)
      PROVE  Onward
  BY <1>2 DEF Rows!Fail, Rows!In
<1>3. CASE Rows!Cancel
  BY <1>3 DEF Rows!Cancel, Rows!In, Rows!Held
<1>4. CASE Rows!SendBack
  BY <1>4 DEF Rows!SendBack, Rows!In
<1> QED
  BY <1>1, <1>2, <1>3, <1>4 DEF RowsMove

\* What the batch knows stays true whatever its rows do.
LEMMA BatchKnows ==
    ASSUME BatchInd, Onward, UNCHANGED <<batch, ids, ours, result>>,
           online' \in BOOLEAN, offline' \in [Spec_ -> -1..Grace], waited' \in 0..Timeout
    PROVE  BatchInd'
<1>1. \A i \in Spec_ : ids[i] # NULL => ids[i] \in Task /\ state[ids[i]] # "absent"
  BY DEF BatchInd, QueueTypeOK, RowRanges
<1>2. QueueTypeOK' /\ RowRanges'
  BY <1>1 DEF BatchInd, QueueTypeOK, RowRanges, Onward
<1>3. Enqueued'
  BY DEF BatchInd, Enqueued
<1>4. ResultsTrue'
  BY <1>1 DEF BatchInd, ResultsTrue, Onward
<1>5. RowsOfOurs'
  <2> SUFFICES ASSUME NEW i \in ours
               PROVE  /\ ids[i] # NULL
                      /\ Specs[i].after # 0 =>
                           /\ need'[ids[i]] = ids[Specs[i].after]
                           /\ state'[ids[i]] \in Started => state'[ids[Specs[i].after]] = "succeeded"
    BY DEF RowsOfOurs
  <2>1. /\ i \in Spec_ /\ ids[i] # NULL /\ ids[i] \in Task /\ state[ids[i]] # "absent"
        /\ Specs[i].after # 0 =>
              /\ Specs[i].after \in Spec_
              /\ need[ids[i]] = ids[Specs[i].after]
              /\ state[ids[i]] \in Started => state[ids[Specs[i].after]] = "succeeded"
    BY <1>1, SpecsKnown DEF BatchInd, RowsOfOurs, RowRanges
  <2>2. Specs[i].after # 0 => ids[Specs[i].after] \in Task
    BY <1>1, <2>1, AfterEnqueued
  <2>3. ASSUME Specs[i].after # 0, state'[ids[i]] \in Started
        PROVE  state'[ids[Specs[i].after]] = "succeeded"
    <3>1. state[ids[Specs[i].after]] = "succeeded"
      BY <2>1, <2>2, <2>3, SpecsKnown DEF Onward
    <3> QED
      BY <2>2, <2>3, <3>1 DEF Onward, Finished
  <2> QED
    BY <2>1, <2>3 DEF Onward
<1> QED
  BY <1>2, <1>3, <1>4, <1>5 DEF BatchInd

LEMMA EnqueueKeeps ==
    ASSUME BatchInd, EnqueueSpec
    PROVE  BatchInd'
<1>1. PICK n \in 0..Len(Specs) : \A j \in Spec_ : ids[j] # NULL <=> j <= n
  BY DEF BatchInd, Enqueued
<1>2. Next_ = n + 1
  <2>1. {j \in Spec_ : ids[j] # NULL} = 1..n
    BY <1>1, SpecsKnown
  <2> QED
    <3>1. n \in Nat
      BY SpecsKnown
    <3>2. Cardinality(1..n) = n
      BY <3>1, FS_Interval
    <3> QED
      BY <2>1, <3>2 DEF Next_
<1> DEFINE i == n + 1
<1>3. /\ i \in Spec_ /\ ids[i] = NULL
      /\ \A j \in Spec_ : ids[j] # NULL => j < i
      /\ \/ \E t \in Task :
              /\ Rows!Submit(t, Dependency(i), Specs[i].key)
              /\ ids' = [ids EXCEPT ![i] = t] /\ ours' = ours \cup {i}
         \/ \E t \in Task :
              /\ state[t] \in Rows!Held /\ ids' = [ids EXCEPT ![i] = t] /\ UNCHANGED <<rowVars, ours>>
      /\ batch' = IF \A j \in Spec_ : ids'[j] # NULL THEN "wait" ELSE "next"
      /\ UNCHANGED <<online, waited, offline, result, others>>
  <2>1. Current = IF i \in Spec_ THEN {i} ELSE {}
    BY <1>2 DEF Current
  <2>2. i \in Spec_
    BY <2>1 DEF EnqueueSpec
  <2> QED
    BY <1>1, <2>1, <2>2, SpecsKnown DEF EnqueueSpec
<1>4. /\ QueueTypeOK /\ RowRanges /\ i \notin ours
      /\ \A j \in Spec_ : ids[j] # NULL => ids[j] \in Task /\ state[ids[j]] # "absent"
  BY <1>3 DEF BatchInd, QueueTypeOK, RowRanges, RowsOfOurs
<1>5. PICK t \in Task :
        /\ ids' = [ids EXCEPT ![i] = t]
        /\ \/ /\ Rows!Submit(t, Dependency(i), Specs[i].key)
              /\ ours' = ours \cup {i}
           \/ /\ state[t] \in Rows!Held /\ UNCHANGED <<state, need, slot, ours>>
  BY <1>3 DEF rowVars
<1>6. Dependency(i) \in Task \cup {NULL} /\ Specs[i].key \in Key
  BY <1>3, <1>4, SpecsKnown DEF Dependency, RowRanges
<1>7. /\ Onward /\ state'[t] # "absent"
      /\ \/ /\ ours' = ours \cup {i} /\ state'[t] = "queued" /\ need'[t] = Dependency(i)
         \/ ours' = ours
  <2>1. CASE Rows!Submit(t, Dependency(i), Specs[i].key) /\ ours' = ours \cup {i}
    BY <1>4, <1>6, <2>1, SubmitOnward
  <2>2. CASE state[t] \in Rows!Held /\ UNCHANGED <<state, need, slot, ours>>
    BY <1>4, <2>2 DEF Onward, QueueTypeOK, RowRanges, Rows!Held
  <2> QED
    BY <1>5, <2>1, <2>2
<1>8. /\ ids' \in [Spec_ -> Task \cup {NULL}] /\ ids'[i] = t
      /\ \A j \in Spec_ \ {i} : ids'[j] = ids[j]
      /\ t # NULL
  BY <1>3, <1>4, <1>5, SpecsKnown DEF RowRanges
<1> HIDE DEF i
<1>9. QueueTypeOK' /\ RowRanges'
  <2>1. \A j \in Spec_ : ids'[j] # NULL => state'[ids'[j]] # "absent"
    BY <1>4, <1>7, <1>8 DEF Onward
  <2>2. ours' \subseteq Spec_
    BY <1>3, <1>4, <1>7 DEF RowRanges
  <2> QED
    BY <1>3, <1>4, <1>7, <1>8, <2>1, <2>2 DEF QueueTypeOK, RowRanges, Onward
<1>10. Enqueued'
  <2>1. i \in 0..Len(Specs) /\ \A j \in Spec_ : ids'[j] # NULL <=> j <= i
    BY <1>1, <1>3, <1>8, SpecsKnown DEF i
  <2> QED
    BY <1>3, <2>1 DEF Enqueued
<1>11. ResultsTrue'
  BY <1>3, <1>4, <1>7, <1>8 DEF BatchInd, ResultsTrue, Onward
<1>12. RowsOfOurs'
  <2> SUFFICES ASSUME NEW j \in ours'
               PROVE  /\ ids'[j] # NULL
                      /\ Specs[j].after # 0 =>
                           /\ need'[ids'[j]] = ids'[Specs[j].after]
                           /\ state'[ids'[j]] \in Started => state'[ids'[Specs[j].after]] = "succeeded"
    BY DEF RowsOfOurs
  <2>1. CASE j = i
    <3>1. state'[t] = "queued" /\ need'[t] = Dependency(i)
      BY <1>4, <1>7, <2>1
    <3>2. Specs[i].after # 0 => Specs[i].after \in Spec_ /\ Specs[i].after # i
      BY <1>3, SpecsKnown
    <3> QED
      BY <1>8, <2>1, <3>1, <3>2 DEF Dependency, Started
  <2>2. CASE j # i
    <3>1. /\ j \in ours /\ j \in Spec_ /\ ids[j] # NULL /\ ids'[j] = ids[j]
          /\ Specs[j].after # 0 =>
                /\ need[ids[j]] = ids[Specs[j].after]
                /\ state[ids[j]] \in Started => state[ids[Specs[j].after]] = "succeeded"
      BY <1>4, <1>7, <1>8, <2>2 DEF BatchInd, RowsOfOurs, RowRanges
    <3>2. ASSUME Specs[j].after # 0
          PROVE  /\ Specs[j].after \in Spec_ \ {i} /\ ids[Specs[j].after] \in Task
                 /\ ids[Specs[j].after] # NULL
      BY <1>3, <1>4, <3>1, <3>2, AfterEnqueued, SpecsKnown
    <3>3. ASSUME Specs[j].after # 0, state'[ids[j]] \in Started
          PROVE  state'[ids[Specs[j].after]] = "succeeded"
      <4>1. state[ids[Specs[j].after]] = "succeeded"
        BY <1>4, <1>7, <3>1, <3>2, <3>3 DEF Onward
      <4> QED
        BY <1>7, <3>2, <3>3, <4>1 DEF Onward, Finished
    <3> QED
      BY <1>4, <1>7, <1>8, <3>1, <3>2, <3>3 DEF Onward
  <2> QED
    BY <2>1, <2>2
<1> QED
  BY <1>9, <1>10, <1>11, <1>12 DEF BatchInd

LEMMA PollKeeps ==
    ASSUME BatchInd, NEW i \in Spec_, Poll(i)
    PROVE  BatchInd'
<1>1. /\ batch = "wait" /\ UNCHANGED <<online, state, need, slot, batch, ids, ours, waited>>
      /\ \/ result' = result
         \/ \E r \in {"timeout", "offline"} : result' = [result EXCEPT ![i] = r]
         \/ state[ids[i]] \in Finished /\ result' = [result EXCEPT ![i] = state[ids[i]]]
      /\ \/ offline' = offline
         \/ \E d \in {-1, 0, offline[i]} : offline' = [offline EXCEPT ![i] = d]
  BY DEF Poll, rowVars
<1>2. ids[i] # NULL
  BY <1>1 DEF BatchInd, Enqueued
<1>3. offline' \in [Spec_ -> -1..Grace]
  <2>1. offline \in [Spec_ -> -1..Grace] /\ -1 \in -1..Grace /\ 0 \in -1..Grace
    BY QueueClientAssumption DEF BatchInd, QueueTypeOK, QueueClientAssumption
  <2>2. ASSUME NEW d \in {-1, 0, offline[i]}, offline' = [offline EXCEPT ![i] = d]
        PROVE  offline' \in [Spec_ -> -1..Grace]
    <3>1. d \in -1..Grace
      BY <2>1
    <3> QED
      BY <2>1, <2>2, <3>1
  <2> QED
    BY <1>1, <2>1, <2>2
<1>4. result' \in [Spec_ -> {"none", "succeeded", "failed", "cancelled", "timeout", "offline"}]
  BY <1>1 DEF BatchInd, QueueTypeOK, Finished
<1>5. QueueTypeOK' /\ RowRanges' /\ Enqueued' /\ RowsOfOurs'
  BY <1>1, <1>3, <1>4 DEF BatchInd, QueueTypeOK, RowRanges, Enqueued, RowsOfOurs
<1>6. ResultsTrue'
  BY <1>1, <1>2 DEF BatchInd, QueueTypeOK, ResultsTrue, Finished
<1> QED
  BY <1>5, <1>6 DEF BatchInd

LEMMA BatchStep == BatchInd /\ [QueueNext]_queueVars => BatchInd'
<1> SUFFICES ASSUME BatchInd, [QueueNext]_queueVars PROVE BatchInd'
  OBVIOUS
<1>1. QueueTypeOK /\ RowRanges
  BY DEF BatchInd
<1>2. UNCHANGED rowVars => Onward
  BY <1>1 DEF rowVars, Onward, QueueTypeOK, RowRanges
<1>3. CASE UNCHANGED queueVars
  BY <1>1, <1>2, <1>3, BatchKnows DEF queueVars, clientVars, QueueTypeOK
<1>4. CASE Time
  <2>1. waited' \in 0..Timeout
    BY <1>1, <1>4, QueueClientAssumption DEF Time, QueueTypeOK, QueueClientAssumption
  <2>2. offline' \in [Spec_ -> -1..Grace]
    BY <1>1, <1>4, QueueClientAssumption DEF Time, QueueTypeOK, QueueClientAssumption
  <2> QED
    BY <1>1, <1>2, <1>4, <2>1, <2>2, BatchKnows DEF Time, QueueTypeOK
<1>5. CASE LeaseChanges
  BY <1>1, <1>2, <1>5, BatchKnows DEF LeaseChanges, clientVars, QueueTypeOK
<1>6. CASE RowsMove
  BY <1>1, <1>6, RowsMoveOnward, BatchKnows DEF RowsMove, clientVars, QueueTypeOK
<1>7. CASE OtherEnqueue
  <2>1. PICK t \in Task, k \in Key : Rows!Submit(t, NULL, k)
    BY <1>7 DEF OtherEnqueue
  <2>2. Onward
    BY <1>1, <2>1, SubmitOnward
  <2> QED
    BY <1>1, <1>7, <2>2, BatchKnows DEF OtherEnqueue, clientVars, QueueTypeOK
<1>8. CASE AskOnline
  <2>1. batch' \in {"enqueue", "raised"} /\ UNCHANGED <<online, state, need, slot, ids, ours, waited, offline, result>>
    BY <1>8 DEF AskOnline, rowVars
  <2> QED
    BY <2>1 DEF BatchInd, QueueTypeOK, RowRanges, Enqueued, RowsOfOurs, ResultsTrue
<1> QED
  BY <1>3, <1>4, <1>5, <1>6, <1>7, <1>8, EnqueueKeeps, PollKeeps DEF QueueNext

LEMMA BatchStart == QueueInit => BatchInd
<1> SUFFICES ASSUME QueueInit PROVE BatchInd
  OBVIOUS
<1>1. QueueTypeOK /\ RowRanges
  <2>1. online \in BOOLEAN
    BY Zenon DEF QueueInit
  <2>2. Grace \in Nat /\ Timeout \in Nat
    BY QueueClientAssumption DEF QueueClientAssumption
  <2>3. /\ state \in [Task -> RowState] /\ ids \in [Spec_ -> Task \cup {NULL}]
        /\ need \in [Task -> Task \cup {NULL}] /\ slot \in [Task -> Key \cup {NULL}]
        /\ offline \in [Spec_ -> -1..Grace]
    BY <2>2 DEF QueueInit, Rows!Init, RowState
  <2>4. \A i \in Spec_ : ids[i] = NULL /\ result[i] = "none"
    BY DEF QueueInit
  <2> QED
    BY <2>1, <2>2, <2>3, <2>4 DEF QueueInit, QueueTypeOK, RowRanges
<1>2. Enqueued
  <2>1. \A j \in Spec_ : ids[j] # NULL <=> j <= 0
    BY SpecsKnown DEF QueueInit
  <2> QED
    BY <2>1, SpecsKnown DEF QueueInit, Enqueued
<1>3. RowsOfOurs /\ ResultsTrue
  BY DEF QueueInit, RowsOfOurs, ResultsTrue, Finished
<1> QED
  BY <1>1, <1>2, <1>3 DEF BatchInd

\* batch_enqueue_and_wait: a dependent is never reported as a success beside a
\* dependency that failed or was cancelled, for any batch, any other callers
\* and whatever the workers do.
THEOREM BatchInOrder == QueueSpec => []BatchInv
<1>1. BatchInd => BatchInv
  <2> SUFFICES ASSUME BatchInd PROVE SuccessesInOrder
    BY DEF BatchInd, BatchInv
  <2> SUFFICES ASSUME NEW i \in ours, Specs[i].after # 0
               PROVE  /\ state[ids[i]] \in Started => state[ids[Specs[i].after]] = "succeeded"
                      /\ result[i] = "succeeded" => result[Specs[i].after] \notin {"failed", "cancelled"}
    BY DEF SuccessesInOrder, Started
  <2>1. i \in Spec_ /\ Specs[i].after \in Spec_
    BY SpecsKnown DEF BatchInd, RowRanges
  <2> QED
    BY <2>1 DEF BatchInd, RowsOfOurs, ResultsTrue, Finished, Started
<1> QED
  BY <1>1, BatchStart, BatchStep, PTL DEF QueueSpec

-----------------------------------------------------------------------------
(* ProviderCall *)

Guarded == VideoTask \ (Unguarded \cup LateTooLarge)
Bracketed == Generating \ {"opening"}

\* What holds of the task in work, by the place where its coroutine stands.
\* The ledger row is pending while the bracket is open; a guarded task has no
\* job when its create call begins; what is downloaded was finished.
InWork ==
    /\ at = "opening" => call[cur] = "none"
    /\ at \in {"opening", "anchoring"} => jobs[cur] = 0
    /\ at \in Bracketed => call[cur] = "pending"
    /\ at \in {"creating", "persisting", "polling", "downloading", "settling"} => cur \in anchored
    /\ at = "creating" /\ cur \in Guarded => jobs[cur] = 0
    /\ at \in {"downloading", "rDownloading", "settling", "rSettling"} => job[cur] \in {"done", "expired"}
    /\ at \in {"recorded", "finishing"} /\ crashes = 0 => call[cur] = "success"
    /\ at = "finishing" => cur \in versions
    /\ at \in Resuming => crashes > 0

\* Of the tasks that are not in work.
AtRest ==
    /\ \A t \in VideoTask : task[t] = "queued" => jobs[t] = 0 /\ call[t] = "none" /\ t \notin anchored
    /\ \A t \in VideoTask : task[t] = "running" /\ cur # t => crashes > 0

CallInd == CallInv /\ OneJob /\ AtRest /\ (cur # NoTask => InWork)

LEMMA CallTypeStep ==
    ASSUME CallTypeOK, [Next]_vars
    PROVE  CallTypeOK'
<1> USE CallAssumption DEF CallTypeOK
<1> USE DEF taskVars, providerVars, coVars, assetVars, At, Goto, Leave, Phase, Generating, Resuming, Ended
<1>1. CASE UNCHANGED vars
  BY <1>1 DEF vars
<1>2. CASE ProcessDies
  BY <1>2 DEF ProcessDies
<1>3. ASSUME NEW t \in VideoTask, Begin(t)
      PROVE  CallTypeOK'
  BY <1>3 DEF Begin, Tracked
<1>4. ASSUME NEW t \in VideoTask, Open(t) \/ Anchor(t)
      PROVE  CallTypeOK'
  BY <1>4 DEF Open, Anchor
<1>5. ASSUME NEW t \in VideoTask, Created(t)
      PROVE  CallTypeOK'
  BY <1>5 DEF Created, JobCreated
<1>6. ASSUME NEW t \in VideoTask, AnswerLost(t)
      PROVE  CallTypeOK'
  BY <1>6 DEF AnswerLost, JobCreated, Retry
<1>7. ASSUME NEW t \in VideoTask, CreateRefused(t) \/ CreateFails(t)
      PROVE  CallTypeOK'
  BY <1>7 DEF CreateRefused, CreateFails, Retry
<1>8. ASSUME NEW t \in VideoTask, TooLarge(t) \/ DownloadTooLarge(t)
      PROVE  CallTypeOK'
  BY <1>8 DEF TooLarge, DownloadTooLarge, OneStepDown
<1>9. ASSUME NEW t \in VideoTask, PersistJobId(t) \/ PollJob(t) \/ Download(t)
      PROVE  CallTypeOK'
  BY <1>9 DEF PersistJobId, PollJob, Download
<1>10. ASSUME NEW t \in VideoTask, Settle(t) \/ Close(t) \/ ResumeSettle(t) \/ ResumeClose(t)
       PROVE  CallTypeOK'
  BY <1>10 DEF Settle, Close, ResumeSettle, ResumeClose, SetCall, Finalize
<1>11. ASSUME NEW t \in VideoTask, AddVersion(t)
       PROVE  CallTypeOK'
  BY <1>11 DEF AddVersion
<1>12. ASSUME NEW t \in VideoTask, Finish(t) \/ Fail(t)
       PROVE  CallTypeOK'
  BY <1>12 DEF Finish, Fail, EndRow
<1>13. ASSUME NEW t \in VideoTask, Recover(t) \/ Cancel(t)
       PROVE  CallTypeOK'
  BY <1>13 DEF Recover, Cancel, EndRow
<1>14. ASSUME NEW t \in VideoTask, JobEnds(t) \/ JobExpires(t)
       PROVE  CallTypeOK'
  BY <1>14 DEF JobEnds, JobExpires
<1> QED
  BY <1>1, <1>2, <1>3, <1>4, <1>5, <1>6, <1>7, <1>8, <1>9, <1>10, <1>11, <1>12, <1>13, <1>14
     DEF Next, Work

LEMMA CallIndStep ==
    ASSUME CallInd, [Next]_vars
    PROVE  CallInd'
<1> USE CallAssumption
<1> USE DEF taskVars, providerVars, coVars, assetVars, At, Goto, Leave, CallInv, PaidIsAnchored,
            SucceededIsKept, BilledAsDelivered, OneJob, AtRest, InWork, Guarded, Bracketed,
            Generating, Resuming
<1>0. CallTypeOK /\ CallTypeOK'
  BY CallTypeStep DEF CallInd
<1>1. CASE UNCHANGED vars
  BY <1>0, <1>1 DEF vars, CallInd
<1>2. CASE ProcessDies
  BY <1>0, <1>2 DEF ProcessDies, CallInd, CallTypeOK
<1>3. ASSUME NEW t \in VideoTask, Begin(t)
      PROVE  CallInd'
  BY <1>0, <1>3 DEF Begin, Tracked, CallInd, CallTypeOK
<1>4. ASSUME NEW t \in VideoTask, Open(t)
      PROVE  CallInd'
  BY <1>0, <1>4 DEF Open, CallInd, CallTypeOK
<1>5. ASSUME NEW t \in VideoTask, Anchor(t)
      PROVE  CallInd'
  BY <1>0, <1>5 DEF Anchor, CallInd, CallTypeOK
<1>6. ASSUME NEW t \in VideoTask, Created(t)
      PROVE  CallInd'
  BY <1>0, <1>6 DEF Created, JobCreated, CallInd, CallTypeOK
<1>7. ASSUME NEW t \in VideoTask, AnswerLost(t)
      PROVE  CallInd'
  BY <1>0, <1>7 DEF AnswerLost, JobCreated, Retry, CallInd, CallTypeOK
<1>8. ASSUME NEW t \in VideoTask, CreateRefused(t) \/ CreateFails(t)
      PROVE  CallInd'
  BY <1>0, <1>8 DEF CreateRefused, CreateFails, Retry, CallInd, CallTypeOK
<1>9. ASSUME NEW t \in VideoTask, TooLarge(t) \/ DownloadTooLarge(t)
      PROVE  CallInd'
  BY <1>0, <1>9 DEF TooLarge, DownloadTooLarge, OneStepDown, CallInd, CallTypeOK
<1>10. ASSUME NEW t \in VideoTask, PersistJobId(t)
      PROVE  CallInd'
  BY <1>0, <1>10 DEF PersistJobId, CallInd, CallTypeOK
<1>11. ASSUME NEW t \in VideoTask, PollJob(t)
      PROVE  CallInd'
  BY <1>0, <1>11 DEF PollJob, CallInd, CallTypeOK
<1>12. ASSUME NEW t \in VideoTask, Download(t)
      PROVE  CallInd'
  BY <1>0, <1>12 DEF Download, CallInd, CallTypeOK
<1>13. ASSUME NEW t \in VideoTask, Settle(t) \/ Close(t)
       PROVE  CallInd'
  BY <1>0, <1>13 DEF Settle, Close, SetCall, CallInd, CallTypeOK
<1>14. ASSUME NEW t \in VideoTask, ResumeSettle(t) \/ ResumeClose(t)
       PROVE  CallInd'
  BY <1>0, <1>14 DEF ResumeSettle, ResumeClose, SetCall, Finalize, CallInd, CallTypeOK
<1>15. ASSUME NEW t \in VideoTask, AddVersion(t)
       PROVE  CallInd'
  BY <1>0, <1>15 DEF AddVersion, CallInd, CallTypeOK
<1>16. ASSUME NEW t \in VideoTask, Finish(t) \/ Fail(t)
       PROVE  CallInd'
  BY <1>0, <1>16 DEF Finish, Fail, EndRow, CallInd, CallTypeOK
<1>17. ASSUME NEW t \in VideoTask, Recover(t)
       PROVE  CallInd'
  BY <1>0, <1>17 DEF Recover, EndRow, CallInd, CallTypeOK
<1>18. ASSUME NEW t \in VideoTask, Cancel(t)
       PROVE  CallInd'
  BY <1>0, <1>18 DEF Cancel, EndRow, CallInd, CallTypeOK
<1>19. ASSUME NEW t \in VideoTask, JobEnds(t) \/ JobExpires(t)
       PROVE  CallInd'
  BY <1>0, <1>19 DEF JobEnds, JobExpires, CallInd, CallTypeOK
<1> QED
  BY <1>1, <1>2, <1>3, <1>4, <1>5, <1>6, <1>7, <1>8, <1>9, <1>10, <1>11, <1>12, <1>13, <1>14,
     <1>15, <1>16, <1>17, <1>18, <1>19 DEF Next, Work

LEMMA CallIndHolds == Spec => []CallInd
<1>1. Init => CallInd
  BY CallAssumption DEF Init, CallInd, CallInv, CallTypeOK, PaidIsAnchored, SucceededIsKept,
     BilledAsDelivered, OneJob, AtRest, Phase
<1> QED
  BY <1>1, CallIndStep, PTL DEF Spec

\* The records of a call agree whatever is lost, retried, cancelled or crashed:
\* a charged job belongs to a row that names its ledger row, a task that
\* succeeded has its version, and the ledger shows a success only for what was
\* finished, and for all of it if nothing crashed.
THEOREM CallRecordsAgree == Spec => []CallInv
<1>1. CallInd => CallInv
  BY DEF CallInd
<1> QED
  BY <1>1, CallIndHolds, PTL

\* One charged job per task behind submit_post, for any number of retries,
\* compression steps, crashes and resumes.
THEOREM OneJobPerTask == Spec => []OneJob
<1>1. CallInd => OneJob
  BY DEF CallInd
<1> QED
  BY <1>1, CallIndHolds, PTL

\* A settled ledger row is never changed again, by no resume and no late error
\* (the half of CallsSettle that is about steps).
THEOREM LedgerSettlesOnce == Spec => SettledStays
<1> DEFINE Stays == \A t \in VideoTask : call[t] \in {"success", "failed"} => call'[t] = call[t]
<1>1. CallInd /\ [Next]_vars => [Stays]_vars
  <2> SUFFICES ASSUME CallInd, Next  PROVE Stays
    OBVIOUS
  <2> USE DEF taskVars, providerVars, coVars, assetVars, At, CallInd, CallInv, CallTypeOK, InWork,
              Bracketed, Generating
  <2>1. ASSUME NEW t \in VideoTask, Open(t) \/ Settle(t) \/ Close(t)
        PROVE  Stays
    BY <2>1, CallAssumption DEF Open, Settle, Close, SetCall
  <2>2. ASSUME NEW t \in VideoTask, ResumeSettle(t) \/ ResumeClose(t)
        PROVE  Stays
    BY <2>2, CallAssumption DEF ResumeSettle, ResumeClose, Finalize, SetCall
  <2>3. ASSUME NEW t \in VideoTask, Begin(t) \/ Anchor(t) \/ Created(t) \/ AnswerLost(t) \/ CreateRefused(t)
                                \/ CreateFails(t) \/ TooLarge(t) \/ PersistJobId(t) \/ PollJob(t)
        PROVE  Stays
    BY <2>3 DEF Begin, Anchor, Created, AnswerLost, CreateRefused, CreateFails, TooLarge,
                PersistJobId, PollJob
  <2>4. ASSUME NEW t \in VideoTask, Download(t) \/ DownloadTooLarge(t) \/ AddVersion(t) \/ Finish(t)
                                \/ Fail(t) \/ Recover(t) \/ Cancel(t) \/ JobEnds(t) \/ JobExpires(t)
        PROVE  Stays
    BY <2>4 DEF Download, DownloadTooLarge, AddVersion, Finish, Fail, Recover, Cancel, EndRow,
                JobEnds, JobExpires
  <2>5. CASE ProcessDies
    BY <2>5 DEF ProcessDies
  <2> QED
    BY <2>1, <2>2, <2>3, <2>4, <2>5 DEF Next, Work
<1> QED
  BY <1>1, CallIndHolds, PTL DEF Spec, SettledStays

=============================================================================
