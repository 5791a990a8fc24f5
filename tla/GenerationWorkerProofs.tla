----------------------- MODULE GenerationWorkerProofs -----------------------
(***************************************************************************)
(* Proofs about TaskStore, for every set of tasks and keys: the type       *)
(* invariant, the invariants that run task_store checks on three tasks,    *)
(* and the two action properties.  Then proofs about GenerationWorker, for *)
(* every set of rows, every capacity and any number of crashes and lost    *)
(* leases: the worker touches the table only through its transactions (so  *)
(* that what is proved of TaskStore holds of it), no row is ever paid for  *)
(* twice or worked on by two coroutines, no running row is left to nobody, *)
(* and no provider pool sees more calls than it has room for.              *)
(***************************************************************************)
EXTENDS GenerationWorker, FiniteSetTheorems, TLAPS

-----------------------------------------------------------------------------
(* The cascade: what the least set QueuedBelow(t) contains *)

LEMMA QueuedBelowSubset ==
    ASSUME NEW t \in Task
    PROVE  QueuedBelow(t) \subseteq Task
BY DEF QueuedBelow

\* Only queued rows are in it: the set of all queued rows is closed.
LEMMA QueuedBelowQueued ==
    ASSUME NEW t \in Task, NEW d \in QueuedBelow(t)
    PROVE  d \in Task /\ status[d] = "queued"
<1> DEFINE S == {e \in Task : status[e] = "queued"}
<1>1. S \in SUBSET Task
  OBVIOUS
<1>2. \A e \in Task : status[e] = "queued" /\ dep[e] \in S \cup {t} => e \in S
  OBVIOUS
<1>3. d \in S
  BY <1>1, <1>2 DEF QueuedBelow
<1> QED
  BY <1>3

\* It is itself closed: a queued row below a member is a member.
LEMMA QueuedBelowClosed ==
    ASSUME NEW t \in Task, NEW e \in Task,
           status[e] = "queued", dep[e] \in QueuedBelow(t) \cup {t}
    PROVE  e \in QueuedBelow(t)
<1> SUFFICES ASSUME NEW S \in SUBSET Task,
                    \A f \in Task : status[f] = "queued" /\ dep[f] \in S \cup {t} => f \in S
             PROVE  e \in S
  BY DEF QueuedBelow
<1>1. QueuedBelow(t) \subseteq S
  BY DEF QueuedBelow
<1> QED
  BY <1>1

\* And it is the least one: every member hangs below t or another member.
LEMMA QueuedBelowParent ==
    ASSUME NEW t \in Task, NEW d \in QueuedBelow(t)
    PROVE  dep[d] \in QueuedBelow(t) \cup {t}
<1> DEFINE S == {e \in QueuedBelow(t) : dep[e] \in QueuedBelow(t) \cup {t}}
<1>1. S \in SUBSET Task
  BY QueuedBelowSubset
<1>2. ASSUME NEW e \in Task, status[e] = "queued", dep[e] \in S \cup {t}
      PROVE  e \in S
  <2>1. dep[e] \in QueuedBelow(t) \cup {t}
    BY <1>2
  <2>2. e \in QueuedBelow(t)
    BY <1>2, <2>1, QueuedBelowClosed
  <2> QED
    BY <2>1, <2>2
<1>3. d \in S
  BY <1>1, <1>2 DEF QueuedBelow
<1> QED
  BY <1>3

-----------------------------------------------------------------------------
(* Type correctness *)

LEMMA RankType ==
    ASSUME TaskStoreAssumption
    PROVE  Cardinality(Rows) + 1 \in Nat
<1>1. IsFiniteSet(Rows)
  BY FS_Subset DEF TaskStoreAssumption, Rows
<1> QED
  BY <1>1, FS_CardinalityType

LEMMA CancelWithCascadeType ==
    ASSUME StoreTypeOK, NEW t \in Task, CancelWithCascade(t, "user")
    PROVE  /\ status' \in [Task -> Status \cup {"absent"}]
           /\ cancelledBy' \in [Task -> {"none", "user", "cascade"}]
           /\ lastEvent' \in [Task -> Status \cup {"none"}]
           /\ signals' \in SUBSET Task
BY DEF CancelWithCascade, Coalesce, StoreTypeOK, Status, Active, Terminal

LEMMA TypeInit == StoreInit => StoreTypeOK
BY DEF StoreInit, StoreTypeOK

LEMMA TypeStep ==
    ASSUME TaskStoreAssumption, StoreTypeOK, [StoreNext]_storeVars
    PROVE  StoreTypeOK'
<1> USE DEF StoreTypeOK, Status, Active, Terminal, SetStatus, sessionVars
<1>1. ASSUME NEW t \in Task, NEW d \in Task \cup {NULL}, NEW k \in Key, Enqueue(t, d, k)
      PROVE  StoreTypeOK'
  BY <1>1, RankType DEF Enqueue
<1>2. ASSUME NEW lane \in SUBSET Task, ClaimSelect(lane)
      PROVE  StoreTypeOK'
  BY <1>2 DEF ClaimSelect, Claimable, rowVars
<1>3. ASSUME ClaimUpdate
      PROVE  StoreTypeOK'
  BY <1>3 DEF ClaimUpdate
<1>4. ASSUME CancelAllSelect
      PROVE  StoreTypeOK'
  BY <1>4 DEF CancelAllSelect, rowVars
<1>5. ASSUME CancelAllUpdate
      PROVE  StoreTypeOK'
  BY <1>5 DEF CancelAllUpdate
<1>6. ASSUME RequeueRunning
      PROVE  StoreTypeOK'
  BY <1>6 DEF RequeueRunning
<1>7. ASSUME SessionsLost
      PROVE  StoreTypeOK'
  BY <1>7 DEF SessionsLost, rowVars
<1>8. ASSUME NEW t \in Task, MarkSucceeded(t) \/ MarkFailed(t) \/ RequeueSingle(t)
      PROVE  StoreTypeOK'
  BY <1>8 DEF MarkSucceeded, MarkFailed, RequeueSingle
<1>9. ASSUME NEW t \in Task, FinalizeCancelled(t)
      PROVE  StoreTypeOK'
  BY <1>9, CancelWithCascadeType DEF FinalizeCancelled
<1>10. ASSUME NEW t \in Task, CancelSelect(t)
       PROVE  StoreTypeOK'
  BY <1>10 DEF CancelSelect, rowVars
<1>11. ASSUME NEW t \in Task, CancelQueuedUpdate(t)
       PROVE  StoreTypeOK'
  BY <1>11, CancelWithCascadeType DEF CancelQueuedUpdate
<1>12. ASSUME NEW t \in Task, CancelRunningUpdate(t)
       PROVE  StoreTypeOK'
  BY <1>12 DEF CancelRunningUpdate
<1>13. ASSUME NEW t \in Task, SignalSent(t)
       PROVE  StoreTypeOK'
  BY <1>13 DEF SignalSent, rowVars
<1>14. ASSUME UNCHANGED storeVars
       PROVE  StoreTypeOK'
  BY <1>14 DEF storeVars, rowVars
<1> QED
  BY <1>1, <1>2, <1>3, <1>4, <1>5, <1>6, <1>7, <1>8, <1>9, <1>10, <1>11, <1>12,
     <1>13, <1>14 DEF StoreNext

\* Every column and every open session always holds a value of its type.
THEOREM TypeCorrect == StoreSpec => []StoreTypeOK
<1>1. StoreTypeOK /\ [StoreNext]_storeVars => StoreTypeOK'
  BY TypeStep, TaskStoreAssumption
<1> QED
  BY <1>1, TypeInit, PTL DEF StoreSpec

-----------------------------------------------------------------------------
(* The state machine of one row.  Only an INSERT makes a row or sets its   *)
(* dependency and its key; every other step moves rows along NextStatus.   *)

NextStatus(s) ==
    CASE s = "queued"     -> {"queued", "running", "failed", "cancelled"}
      [] s = "running"    -> {"running", "queued", "cancelling"} \cup Terminal
      [] s = "cancelling" -> {"cancelling", "cancelled"}
      [] OTHER            -> {s}

RowsMove == \A t \in Task : status'[t] \in NextStatus(status[t])
Inserts == \E t \in Task, d \in Task \cup {NULL}, k \in Key : Enqueue(t, d, k)

LEMMA CascadeMoves ==
    ASSUME StoreTypeOK, NEW t \in Task, status[t] \in Active, CancelWithCascade(t, "user")
    PROVE  RowsMove
<1> SUFFICES ASSUME NEW x \in Task
             PROVE  status'[x] \in NextStatus(status[x])
  BY DEF RowsMove
<1>1. CASE x = t
  BY <1>1 DEF CancelWithCascade, NextStatus, Active, Terminal
<1>2. CASE x \in QueuedBelow(t)
  <2>1. status[x] = "queued"
    BY <1>2, QueuedBelowQueued
  <2> QED
    BY <1>2, <2>1 DEF CancelWithCascade, NextStatus
<1>3. CASE x \notin QueuedBelow(t) \cup {t}
  BY <1>3 DEF CancelWithCascade, NextStatus, StoreTypeOK, Status, Active, Terminal
<1> QED
  BY <1>1, <1>2, <1>3

LEMMA StepMovesRows ==
    ASSUME StoreTypeOK, [StoreNext]_storeVars, ~Inserts
    PROVE  RowsMove
<1> USE DEF RowsMove, NextStatus, StoreTypeOK, Status, Active, Terminal, SetStatus
<1>1. CASE ClaimUpdate
  BY <1>1 DEF ClaimUpdate
<1>2. CASE CancelAllUpdate
  BY <1>2 DEF CancelAllUpdate
<1>3. CASE RequeueRunning
  BY <1>3 DEF RequeueRunning
<1>4. ASSUME NEW t \in Task, MarkSucceeded(t) \/ RequeueSingle(t)
      PROVE  RowsMove
  BY <1>4 DEF MarkSucceeded, RequeueSingle
<1>5. ASSUME NEW t \in Task, MarkFailed(t)
      PROVE  RowsMove
  <2>1. \A x \in QueuedBelow(t) : status[x] = "queued"
    BY QueuedBelowQueued
  <2> QED
    BY <1>5, <2>1 DEF MarkFailed
<1>6. ASSUME NEW t \in Task, FinalizeCancelled(t) \/ CancelQueuedUpdate(t)
      PROVE  RowsMove
  <2>1. CASE status[t] \in Active /\ CancelWithCascade(t, "user")
    BY <2>1, CascadeMoves
  <2>2. CASE UNCHANGED status
    BY <2>2
  <2> QED
    BY <1>6, <2>1, <2>2 DEF FinalizeCancelled, CancelQueuedUpdate
<1>7. ASSUME NEW t \in Task, CancelRunningUpdate(t)
      PROVE  RowsMove
  BY <1>7 DEF CancelRunningUpdate
<1>8. CASE UNCHANGED rowVars
  BY <1>8 DEF rowVars
<1>9. CASE UNCHANGED storeVars
  BY <1>9 DEF storeVars, rowVars
<1> QED
  BY <1>1, <1>2, <1>3, <1>4, <1>5, <1>6, <1>7, <1>8, <1>9
  DEF StoreNext, Inserts, ClaimSelect, CancelAllSelect, SessionsLost, CancelSelect, SignalSent

LEMMA StepKeepsColumns ==
    ASSUME [StoreNext]_storeVars, ~Inserts
    PROVE  UNCHANGED <<dep, key, queuedAt>>
BY DEF StoreNext, Inserts, ClaimSelect, ClaimUpdate, CancelAllSelect, CancelAllUpdate,
       RequeueRunning, SessionsLost, MarkSucceeded, MarkFailed, FinalizeCancelled, CancelSelect,
       CancelQueuedUpdate, CancelRunningUpdate, RequeueSingle, SignalSent, storeVars, rowVars

LEMMA InsertedRow ==
    ASSUME StoreTypeOK, Inserts
    PROVE  \E t \in Task :
              /\ status[t] = "absent" /\ status'[t] = "queued"
              /\ dep'[t] \in Rows \cup {NULL}
              /\ \A x \in Task : status[x] \in Active => key[x] # key'[t]
              /\ \A x \in Task \ {t} : /\ status'[x] = status[x]
                                       /\ dep'[x] = dep[x] /\ key'[x] = key[x]
              /\ UNCHANGED <<cancelledBy, sessionVars>>
<1> PICK t \in Task, d \in Task \cup {NULL}, k \in Key : Enqueue(t, d, k)
  BY DEF Inserts
<1> WITNESS t \in Task
<1> QED
  BY DEF Enqueue, SetStatus, StoreTypeOK

\* A terminal row is final and a cancelling row can only become cancelled.
THEOREM StatesAreOneWay == StoreSpec => OneWayStates
<1>1. StoreTypeOK /\ [StoreNext]_storeVars
         => [\A t \in Task :
               /\ status[t] \in Terminal => status'[t] = status[t]
               /\ status[t] = "cancelling" => status'[t] \in {"cancelling", "cancelled"}]_storeVars
  <2> SUFFICES ASSUME StoreTypeOK, [StoreNext]_storeVars, NEW t \in Task
               PROVE  /\ status[t] \in Terminal => status'[t] = status[t]
                      /\ status[t] = "cancelling" => status'[t] \in {"cancelling", "cancelled"}
    OBVIOUS
  <2>1. CASE Inserts
    BY <2>1, InsertedRow DEF Terminal
  <2>2. CASE ~Inserts
    BY <2>2, StepMovesRows DEF RowsMove, NextStatus, Terminal
  <2> QED
    BY <2>1, <2>2
<1> QED
  BY <1>1, TypeCorrect, PTL DEF StoreSpec, OneWayStates

-----------------------------------------------------------------------------
(* The dedupe key *)

LEMMA KeyStep ==
    ASSUME StoreTypeOK, UniqueActiveKey, [StoreNext]_storeVars
    PROVE  UniqueActiveKey'
<1> SUFFICES ASSUME NEW t \in Task, NEW x \in Task,
                    status'[t] \in Active, status'[x] \in Active, key'[t] = key'[x]
             PROVE  t = x
  BY DEF UniqueActiveKey
<1>1. CASE Inserts
  BY <1>1, InsertedRow DEF UniqueActiveKey, Active
<1>2. CASE ~Inserts
  <2>1. status[t] \in Active /\ status[x] \in Active
    BY <1>2, StepMovesRows DEF RowsMove, NextStatus, Active, Terminal, StoreTypeOK, Status
  <2>2. key[t] = key[x]
    BY <1>2, StepKeepsColumns
  <2> QED
    BY <2>1, <2>2 DEF UniqueActiveKey
<1> QED
  BY <1>1, <1>2

\* No two rows that hold or await a slot share a dedupe key.
THEOREM KeysAreUnique == StoreSpec => []UniqueActiveKey
<1>1. StoreInit => UniqueActiveKey
  BY DEF StoreInit, UniqueActiveKey, Active
<1>2. StoreTypeOK /\ UniqueActiveKey /\ [StoreNext]_storeVars => UniqueActiveKey'
  BY KeyStep
<1> QED
  BY <1>1, <1>2, TypeCorrect, PTL DEF StoreSpec
-----------------------------------------------------------------------------
(* Dependencies *)

\* RunsAfterDependency is not inductive: between the SELECT and the UPDATE of
\* claim_next nothing re-checks the dependency.  What carries it is that the
\* selected row had a succeeded dependency, and that success is final.
DependencyOK(t) == dep[t] # NULL => status[dep[t]] = "succeeded"
DependencyInv ==
    /\ RunsAfterDependency
    /\ claimRead # NULL => status[claimRead] # "absent" /\ DependencyOK(claimRead)

LEMMA DependencyOKStable ==
    ASSUME StoreTypeOK, [StoreNext]_storeVars, NEW t \in Task,
           status[t] # "absent", DependencyOK(t)
    PROVE  DependencyOK(t)'
<1>1. CASE Inserts
  BY <1>1, InsertedRow DEF DependencyOK, StoreTypeOK
<1>2. CASE ~Inserts
  <2>1. \A x \in Task : status[x] = "succeeded" => status'[x] = "succeeded"
    BY <1>2, StepMovesRows DEF RowsMove, NextStatus
  <2>2. dep' = dep
    BY <1>2, StepKeepsColumns
  <2> QED
    BY <2>1, <2>2 DEF DependencyOK, StoreTypeOK
<1> QED
  BY <1>1, <1>2

\* A row is running for the first time only by ClaimUpdate.
LEMMA OnlyClaimsStart ==
    ASSUME StoreTypeOK, [StoreNext]_storeVars, NEW t \in Task,
           status[t] \notin {"running", "cancelling", "succeeded"},
           status'[t] \in {"running", "cancelling", "succeeded"}
    PROVE  claimRead = t
<1>1. CASE ClaimUpdate
  BY <1>1 DEF ClaimUpdate, SetStatus, StoreTypeOK
<1>2. CASE Inserts
  BY <1>2, InsertedRow
<1>3. CASE CancelAllUpdate
  BY <1>3 DEF CancelAllUpdate, StoreTypeOK
<1>4. CASE RequeueRunning
  BY <1>4 DEF RequeueRunning, SetStatus, StoreTypeOK
<1>5. ASSUME NEW x \in Task, MarkSucceeded(x) \/ MarkFailed(x) \/ RequeueSingle(x)
      PROVE  FALSE
  BY <1>5 DEF MarkSucceeded, MarkFailed, RequeueSingle, SetStatus, StoreTypeOK
<1>6. ASSUME NEW x \in Task, FinalizeCancelled(x) \/ CancelQueuedUpdate(x)
      PROVE  FALSE
  BY <1>6 DEF FinalizeCancelled, CancelQueuedUpdate, CancelWithCascade, StoreTypeOK
<1>7. ASSUME NEW x \in Task, CancelRunningUpdate(x)
      PROVE  FALSE
  BY <1>7 DEF CancelRunningUpdate, SetStatus, StoreTypeOK
<1>8. CASE UNCHANGED rowVars
  BY <1>8 DEF rowVars
<1>9. CASE UNCHANGED storeVars
  BY <1>9 DEF storeVars, rowVars
<1> QED
  BY <1>1, <1>2, <1>3, <1>4, <1>5, <1>6, <1>7, <1>8, <1>9
  DEF StoreNext, Inserts, ClaimSelect, CancelAllSelect, SessionsLost, CancelSelect, SignalSent

LEMMA ClaimReadStep ==
    ASSUME StoreTypeOK, [StoreNext]_storeVars, claimRead' # NULL, claimRead' # claimRead
    PROVE  /\ claimRead' \in Task /\ status[claimRead'] = "queued"
           /\ DependencyOK(claimRead')
           /\ UNCHANGED rowVars
BY DEF StoreNext, Enqueue, ClaimSelect, Claimable, ClaimUpdate, CancelAllSelect, CancelAllUpdate,
       RequeueRunning, SessionsLost, MarkSucceeded, MarkFailed, FinalizeCancelled, CancelSelect,
       CancelQueuedUpdate, CancelRunningUpdate, RequeueSingle, SignalSent, storeVars,
       sessionVars, DependencyOK

LEMMA DependencyStep ==
    ASSUME StoreTypeOK, DependencyInv, [StoreNext]_storeVars
    PROVE  DependencyInv'
<1>1. RunsAfterDependency'
  <2> SUFFICES ASSUME NEW t \in Task,
                      status'[t] \in {"running", "cancelling", "succeeded"}
               PROVE  DependencyOK(t)'
    BY DEF RunsAfterDependency, DependencyOK
  <2>1. CASE status[t] \in {"running", "cancelling", "succeeded"}
    BY <2>1, DependencyOKStable DEF DependencyInv, RunsAfterDependency, DependencyOK
  <2>2. CASE status[t] \notin {"running", "cancelling", "succeeded"}
    <3>1. claimRead = t
      BY <2>2, OnlyClaimsStart
    <3>2. t # NULL
      BY TaskStoreAssumption DEF TaskStoreAssumption
    <3> QED
      BY <3>1, <3>2, DependencyOKStable DEF DependencyInv
  <2> QED
    BY <2>1, <2>2
<1>2. claimRead' # NULL => status'[claimRead'] # "absent" /\ DependencyOK(claimRead)'
  <2> SUFFICES ASSUME claimRead' # NULL
               PROVE  status'[claimRead'] # "absent" /\ DependencyOK(claimRead)'
    OBVIOUS
  <2>1. CASE claimRead' = claimRead
    <3>1. claimRead \in Task /\ status[claimRead] # "absent" /\ DependencyOK(claimRead)
      BY <2>1 DEF DependencyInv, StoreTypeOK
    <3>2. status'[claimRead] # "absent"
      <4>1. CASE Inserts
        BY <4>1, <3>1, InsertedRow
      <4>2. CASE ~Inserts
        BY <4>2, <3>1, StepMovesRows DEF RowsMove, NextStatus, Terminal
      <4> QED
        BY <4>1, <4>2
    <3>3. \A t \in Task : status[t] # "absent" /\ DependencyOK(t) => DependencyOK(t)'
      BY DependencyOKStable
    <3> QED
      BY <2>1, <3>1, <3>2, <3>3 DEF DependencyOK
  <2>2. CASE claimRead' # claimRead
    BY <2>2, ClaimReadStep DEF DependencyOK, rowVars
  <2> QED
    BY <2>1, <2>2
<1> QED
  BY <1>1, <1>2 DEF DependencyInv

\* No row runs, is being cancelled or has succeeded before its dependency.
THEOREM DependenciesFirst == StoreSpec => []RunsAfterDependency
<1>1. StoreInit => DependencyInv
  BY DEF StoreInit, DependencyInv, RunsAfterDependency
<1>2. StoreTypeOK /\ DependencyInv /\ [StoreNext]_storeVars => DependencyInv'
  BY DependencyStep
<1>3. DependencyInv => RunsAfterDependency
  BY DEF DependencyInv
<1> QED
  BY <1>1, <1>2, <1>3, TypeCorrect, PTL DEF StoreSpec
-----------------------------------------------------------------------------
(* Cascades *)

LEMMA LostInputStep ==
    ASSUME StoreTypeOK, [StoreNext]_storeVars, NEW t \in Task, NEW d \in Task,
           status[t] \in Active, status'[t] \in {"failed", "cancelled"}, dep[d] = t
    PROVE  status'[d] # "queued"
<1> USE DEF StoreTypeOK, Status, Active, Terminal, SetStatus
<1>1. ASSUME NEW x \in Task, MarkFailed(x)
      PROVE  status'[d] # "queued"
  <2>1. t \in QueuedBelow(x) \cup {x}
    BY <1>1 DEF MarkFailed
  <2>2. status[d] = "queued" => d \in QueuedBelow(x)
    BY <2>1, QueuedBelowClosed
  <2> QED
    BY <1>1, <2>2 DEF MarkFailed
<1>2. ASSUME NEW x \in Task, CancelWithCascade(x, "user")
      PROVE  status'[d] # "queued"
  <2>1. t \in QueuedBelow(x) \cup {x}
    BY <1>2 DEF CancelWithCascade
  <2>2. status[d] = "queued" => d \in QueuedBelow(x)
    BY <2>1, QueuedBelowClosed
  <2> QED
    BY <1>2, <2>2 DEF CancelWithCascade
<1>3. CASE CancelAllUpdate
  BY <1>3 DEF CancelAllUpdate
<1>4. CASE Inserts
  BY <1>4, InsertedRow
<1>5. CASE ClaimUpdate
  BY <1>5 DEF ClaimUpdate
<1>6. CASE RequeueRunning
  BY <1>6 DEF RequeueRunning
<1>7. ASSUME NEW x \in Task, MarkSucceeded(x) \/ RequeueSingle(x)
      PROVE  FALSE
  BY <1>7 DEF MarkSucceeded, RequeueSingle
<1>8. ASSUME NEW x \in Task, FinalizeCancelled(x) \/ CancelQueuedUpdate(x)
      PROVE  status'[d] # "queued"
  BY <1>2, <1>8 DEF FinalizeCancelled, CancelQueuedUpdate
<1>9. ASSUME NEW x \in Task, CancelRunningUpdate(x)
      PROVE  FALSE
  BY <1>9 DEF CancelRunningUpdate
<1>10. CASE UNCHANGED rowVars
  BY <1>10 DEF rowVars
<1>11. CASE UNCHANGED storeVars
  BY <1>11 DEF storeVars, rowVars
<1> QED
  BY <1>1, <1>3, <1>4, <1>5, <1>6, <1>7, <1>8, <1>9, <1>10, <1>11
  DEF StoreNext, Inserts, ClaimSelect, CancelAllSelect, SessionsLost, CancelSelect, SignalSent

\* The step that fails or cancels a row leaves no row queued behind it.
THEOREM CascadesAreComplete == StoreSpec => NoDependentLeftBehind
<1>1. StoreTypeOK /\ [StoreNext]_storeVars
         => [\A t, d \in Task :
               /\ status[t] \in Active
               /\ status'[t] \in {"failed", "cancelled"}
               /\ dep[d] = t
               => status'[d] # "queued"]_storeVars
  BY LostInputStep
<1> QED
  BY <1>1, TypeCorrect, PTL DEF StoreSpec, NoDependentLeftBehind

LEMMA CascadeAttribution ==
    ASSUME StoreTypeOK, CancelAttribution, NEW t \in Task, status[t] \in Active,
           CancelWithCascade(t, "user"), dep' = dep
    PROVE  CancelAttribution'
<1> DEFINE gone == QueuedBelow(t) \cup {t}
<1>1. \A x \in gone : status'[x] = "cancelled"
  BY QueuedBelowSubset DEF CancelWithCascade
<1>2. \A x \in Task : status[x] = "cancelled" => status'[x] = "cancelled"
  BY CascadeMoves DEF RowsMove, NextStatus
<1> SUFFICES ASSUME NEW x \in Task
             PROVE  /\ cancelledBy'[x] # "none" <=> status'[x] \in {"cancelling", "cancelled"}
                    /\ cancelledBy'[x] = "cascade"
                          => dep[x] # NULL /\ status'[dep[x]] = "cancelled"
  BY DEF CancelAttribution
<1>3. CASE x = t
  <2>1. cancelledBy'[x] = IF cancelledBy[x] = "none" THEN "user" ELSE cancelledBy[x]
    BY <1>3 DEF CancelWithCascade, Coalesce
  <2>2. cancelledBy'[x] = "cascade" => cancelledBy[x] = "cascade"
    BY <2>1
  <2>3. cancelledBy'[x] # "none"
    BY <2>1
  <2>4. cancelledBy[x] = "cascade" => dep[x] \in Task /\ status'[dep[x]] = "cancelled"
    BY <1>2 DEF CancelAttribution, StoreTypeOK
  <2> QED
    BY <1>1, <1>3, <2>2, <2>3, <2>4, TaskStoreAssumption DEF TaskStoreAssumption
<1>4. CASE x \in QueuedBelow(t) /\ x # t
  <2>1. cancelledBy[x] = "none"
    BY <1>4, QueuedBelowQueued DEF CancelAttribution
  <2>2. cancelledBy'[x] = "cascade"
    BY <1>4, <2>1 DEF CancelWithCascade, Coalesce
  <2>3. dep[x] \in gone
    BY <1>4, QueuedBelowParent
  <2> QED
    BY <1>1, <1>4, <2>2, <2>3, QueuedBelowSubset, TaskStoreAssumption DEF TaskStoreAssumption
<1>5. CASE x \notin gone /\ status[x] = "running" /\ dep[x] \in gone
  <2>1. cancelledBy'[x] = "cascade" /\ status'[x] = "cancelling"
    BY <1>5 DEF CancelWithCascade
  <2> QED
    BY <1>1, <1>5, <2>1, QueuedBelowSubset, TaskStoreAssumption DEF TaskStoreAssumption
<1>6. CASE x \notin gone /\ ~(status[x] = "running" /\ dep[x] \in gone)
  <2>1. cancelledBy'[x] = cancelledBy[x] /\ status'[x] = status[x]
    BY <1>6 DEF CancelWithCascade, StoreTypeOK
  <2> QED
    BY <1>2, <2>1 DEF CancelAttribution, StoreTypeOK
<1> QED
  BY <1>3, <1>4, <1>5, <1>6

LEMMA AttributionStep ==
    ASSUME StoreTypeOK, CancelAttribution, [StoreNext]_storeVars
    PROVE  CancelAttribution'
<1> USE DEF StoreTypeOK, Status, Active, Terminal, SetStatus, CancelAttribution
<1>0. ASSUME UNCHANGED <<dep, cancelledBy>>,
             \A x \in Task : \/ status'[x] = status[x]
                             \/ {status[x], status'[x]} \cap {"cancelling", "cancelled"} = {}
      PROVE  CancelAttribution'
  BY <1>0
<1>1. CASE Inserts
  BY <1>1, InsertedRow
<1>2. CASE ClaimUpdate
  BY <1>0, <1>2 DEF ClaimUpdate
<1>3. CASE CancelAllUpdate
  BY <1>3 DEF CancelAllUpdate
<1>4. CASE RequeueRunning
  BY <1>0, <1>4 DEF RequeueRunning
<1>5. ASSUME NEW t \in Task, MarkSucceeded(t) \/ RequeueSingle(t)
      PROVE  CancelAttribution'
  BY <1>0, <1>5 DEF MarkSucceeded, RequeueSingle
<1>6. ASSUME NEW t \in Task, MarkFailed(t)
      PROVE  CancelAttribution'
  BY <1>0, <1>6, QueuedBelowQueued DEF MarkFailed
<1>7. ASSUME NEW t \in Task, FinalizeCancelled(t) \/ CancelQueuedUpdate(t)
      PROVE  CancelAttribution'
  BY <1>0, <1>7, CascadeAttribution DEF FinalizeCancelled, CancelQueuedUpdate
<1>8. ASSUME NEW t \in Task, CancelRunningUpdate(t)
      PROVE  CancelAttribution'
  BY <1>8 DEF CancelRunningUpdate
<1>9. CASE UNCHANGED rowVars
  BY <1>9 DEF rowVars
<1>10. CASE UNCHANGED storeVars
  BY <1>10 DEF storeVars, rowVars
<1> QED
  BY <1>1, <1>2, <1>3, <1>4, <1>5, <1>6, <1>7, <1>8, <1>9, <1>10
  DEF StoreNext, Inserts, ClaimSelect, CancelAllSelect, SessionsLost, CancelSelect, SignalSent

\* cancelled_by is set exactly on the rows being or been cancelled, and a row
\* marked 'cascade' really hangs below a cancelled one.
THEOREM AttributionIsTrue == StoreSpec => []CancelAttribution
<1>1. StoreInit => CancelAttribution
  BY DEF StoreInit, CancelAttribution
<1>2. StoreTypeOK /\ CancelAttribution /\ [StoreNext]_storeVars => CancelAttribution'
  BY AttributionStep
<1> QED
  BY <1>1, <1>2, TypeCorrect, PTL DEF StoreSpec

-----------------------------------------------------------------------------
(* The event log *)

LEMMA EventsStep ==
    ASSUME StoreTypeOK, EventsNeverLie, [StoreNext]_storeVars
    PROVE  EventsNeverLie'
<1> USE DEF StoreTypeOK, Status, Active, Terminal, SetStatus, EventsNeverLie
<1>0. ASSUME \A x \in Task : \/ lastEvent'[x] = status'[x]
                             \/ lastEvent'[x] = lastEvent[x] /\ status'[x] = status[x]
      PROVE  EventsNeverLie'
  BY <1>0
<1>1. ASSUME NEW t \in Task, NEW d \in Task \cup {NULL}, NEW k \in Key, Enqueue(t, d, k)
      PROVE  EventsNeverLie'
  BY <1>0, <1>1 DEF Enqueue
<1>2. CASE ClaimUpdate
  BY <1>0, <1>2 DEF ClaimUpdate
<1>3. CASE CancelAllUpdate
  BY <1>3 DEF CancelAllUpdate
<1>4. CASE RequeueRunning
  BY <1>0, <1>4 DEF RequeueRunning
<1>5. ASSUME NEW t \in Task, MarkSucceeded(t) \/ MarkFailed(t)
      PROVE  EventsNeverLie'
  BY <1>0, <1>5 DEF MarkSucceeded, MarkFailed
<1>6. ASSUME NEW t \in Task, RequeueSingle(t)
      PROVE  EventsNeverLie'
  BY <1>6 DEF RequeueSingle
<1>7. ASSUME NEW t \in Task, CancelWithCascade(t, "user")
      PROVE  EventsNeverLie'
  BY <1>0, <1>7 DEF CancelWithCascade
<1>8. ASSUME NEW t \in Task, FinalizeCancelled(t) \/ CancelQueuedUpdate(t)
      PROVE  EventsNeverLie'
  BY <1>0, <1>7, <1>8 DEF FinalizeCancelled, CancelQueuedUpdate
<1>9. ASSUME NEW t \in Task, CancelRunningUpdate(t)
      PROVE  EventsNeverLie'
  BY <1>0, <1>9 DEF CancelRunningUpdate
<1>10. CASE UNCHANGED rowVars
  BY <1>10 DEF rowVars
<1>11. CASE UNCHANGED storeVars
  BY <1>11 DEF storeVars, rowVars
<1> QED
  BY <1>1, <1>2, <1>3, <1>4, <1>5, <1>6, <1>8, <1>9, <1>10, <1>11
  DEF StoreNext, ClaimSelect, CancelAllSelect, SessionsLost, CancelSelect, SignalSent

\* The newest event of a task is never wrong about how it ended.
THEOREM EventsAreTrue == StoreSpec => []EventsNeverLie
<1>1. StoreInit => EventsNeverLie
  BY DEF StoreInit, EventsNeverLie
<1>2. StoreTypeOK /\ EventsNeverLie /\ [StoreNext]_storeVars => EventsNeverLie'
  BY EventsStep
<1> QED
  BY <1>1, <1>2, TypeCorrect, PTL DEF StoreSpec

-----------------------------------------------------------------------------
(* The lifecycle.  DependencyInv is what makes the split claim one step and *)
(* leaves a cascade without a running row to stop.                          *)

\* What a cascade touches is closed, active, and needed by no running row.
LEMMA CascadeIsCancel ==
    ASSUME StoreTypeOK, DependencyInv, NEW t \in Task, status[t] \in Active,
           CancelWithCascade(t, "user"), UNCHANGED <<dep, key>>
    PROVE  Lifecycle!Cancel
<1> DEFINE S == (QueuedBelow(t) \ {t}) \cup {t}
<1>1. \A d \in S : d \in Task /\ status[d] \in Active
  BY QueuedBelowQueued DEF Active
<1>2. \A d \in Task : status[d] = "queued" /\ dep[d] \in S => d \in S
  BY QueuedBelowClosed
<1>3. \A d \in Task : ~(status[d] = "running" /\ dep[d] \in S)
  <2> SUFFICES ASSUME NEW d \in Task, status[d] = "running", dep[d] \in S
               PROVE  FALSE
    OBVIOUS
  <2>1. dep[d] \in Task /\ dep[d] # NULL
    BY <1>1, TaskStoreAssumption DEF TaskStoreAssumption
  <2>2. status[dep[d]] = "succeeded"
    BY <2>1 DEF DependencyInv, RunsAfterDependency
  <2> QED
    BY <2>2, <1>1 DEF Active
<1>4. status' = [d \in Task |-> IF d \in S THEN "cancelled" ELSE status[d]]
  BY <1>3 DEF CancelWithCascade
<1>5. S \in SUBSET Lifecycle!In(Lifecycle!Held)
  BY <1>1 DEF Lifecycle!In, Lifecycle!Held, Active
<1>6. Lifecycle!Closed(S) /\ Lifecycle!Becomes(S, "cancelled")
  BY <1>2, <1>4 DEF Lifecycle!Closed, Lifecycle!Becomes
<1> HIDE DEF S
<1> QED
  BY <1>5, <1>6 DEF Lifecycle!Cancel

LEMMA LifecycleStep ==
    ASSUME StoreTypeOK, DependencyInv, [StoreNext]_storeVars
    PROVE  [Lifecycle!Next]_(Lifecycle!lifecycleVars)
<1> USE DEF Lifecycle!lifecycleVars
<1>1. ASSUME NEW t \in Task, NEW d \in Task \cup {NULL}, NEW k \in Key, Enqueue(t, d, k)
      PROVE  Lifecycle!Next
  <2>1. Lifecycle!Submit(t, d, k)
    BY <1>1, TaskStoreAssumption
    DEF Enqueue, SetStatus, Rows, Active, TaskStoreAssumption, Lifecycle!Submit, Lifecycle!Held, Lifecycle!Becomes
  <2> QED
    BY <2>1 DEF Lifecycle!Next
<1>2. CASE ClaimUpdate /\ status[claimRead] = "queued"
  <2>1. Lifecycle!Start(claimRead)
    BY <1>2 DEF ClaimUpdate, SetStatus, DependencyInv, DependencyOK, Lifecycle!Start, Lifecycle!Becomes
  <2>2. claimRead \in Task
    BY <1>2 DEF ClaimUpdate, StoreTypeOK
  <2> QED
    BY <2>1, <2>2 DEF Lifecycle!Next
<1>3. ASSUME NEW t \in Task, MarkSucceeded(t)
      PROVE  Lifecycle!Next
  BY <1>3 DEF MarkSucceeded, SetStatus, Lifecycle!Next, Lifecycle!Succeed, Lifecycle!Becomes
<1>4. ASSUME NEW t \in Task, MarkFailed(t)
      PROVE  Lifecycle!Next
  <2>1. QueuedBelow(t) \in SUBSET Lifecycle!In({"queued"})
    BY QueuedBelowQueued DEF Lifecycle!In
  <2>2. Lifecycle!Closed(QueuedBelow(t) \cup {t})
    BY QueuedBelowClosed DEF Lifecycle!Closed
  <2>3. Lifecycle!Becomes(QueuedBelow(t) \cup {t}, "failed")
    BY <1>4 DEF MarkFailed, SetStatus, Lifecycle!Becomes
  <2>4. Lifecycle!Fail(t)
    BY <1>4, <2>1, <2>2, <2>3 DEF MarkFailed, Lifecycle!Fail
  <2> QED
    BY <2>4 DEF Lifecycle!Next
<1>5. ASSUME NEW t \in Task, FinalizeCancelled(t) \/ CancelQueuedUpdate(t), status[t] \in Active
      PROVE  Lifecycle!Next
  BY <1>5, CascadeIsCancel DEF FinalizeCancelled, CancelQueuedUpdate, Lifecycle!Next
<1>6. CASE CancelAllUpdate
  <2> DEFINE S == {t \in Task : status[t] = "queued"}
  <2>1. Lifecycle!Closed(S) /\ Lifecycle!Becomes(S, "cancelled") /\ UNCHANGED <<dep, key>>
    BY <1>6 DEF CancelAllUpdate, Lifecycle!Closed, Lifecycle!Becomes
  <2>2. S \in SUBSET Lifecycle!In(Lifecycle!Held)
    BY DEF Lifecycle!In, Lifecycle!Held
  <2> HIDE DEF S
  <2> QED
    BY <2>1, <2>2 DEF Lifecycle!Cancel, Lifecycle!Next
<1>7. ASSUME NEW t \in Task, CancelRunningUpdate(t), status[t] = "running"
      PROVE  Lifecycle!Next
  BY <1>7 DEF CancelRunningUpdate, SetStatus, Lifecycle!Next, Lifecycle!AskToStop, Lifecycle!Becomes
<1>8. ASSUME NEW t \in Task, RequeueSingle(t)
      PROVE  Lifecycle!Next
  <2>1. {t} \in SUBSET Lifecycle!In({"running"})
    BY <1>8 DEF RequeueSingle, Lifecycle!In
  <2>2. Lifecycle!Becomes({t}, "queued")
    BY <1>8 DEF RequeueSingle, Lifecycle!Becomes, StoreTypeOK
  <2> QED
    BY <1>8, <2>1, <2>2 DEF RequeueSingle, Lifecycle!SendBack, Lifecycle!Next
<1>9. CASE RequeueRunning
  <2>1. PICK S \in SUBSET {t \in Task : status[t] = "running"} :
            S # {} /\ SetStatus(S, "queued") /\ UNCHANGED <<dep, key>>
    BY <1>9 DEF RequeueRunning
  <2>2. S \in SUBSET Lifecycle!In({"running"})
    BY DEF Lifecycle!In
  <2>3. Lifecycle!Becomes(S, "queued")
    BY <2>1 DEF SetStatus, Lifecycle!Becomes
  <2> QED
    BY <2>1, <2>2, <2>3 DEF Lifecycle!SendBack, Lifecycle!Next
<1>10. CASE UNCHANGED <<status, dep, key>>
  BY <1>10
<1>11. ASSUME NEW t \in Task, CancelQueuedUpdate(t), status[t] \notin Active
       PROVE  UNCHANGED <<status, dep, key>>
  BY <1>11 DEF CancelQueuedUpdate
<1>12. ASSUME NEW t \in Task, CancelRunningUpdate(t), status[t] # "running"
       PROVE  UNCHANGED <<status, dep, key>>
  BY <1>12 DEF CancelRunningUpdate
<1>13. ASSUME NEW t \in Task, FinalizeCancelled(t)
       PROVE  status[t] \in Active
  BY <1>13 DEF FinalizeCancelled
<1>14. CASE ClaimUpdate /\ status[claimRead] # "queued"
  BY <1>10, <1>14 DEF ClaimUpdate
<1> QED
  BY <1>1, <1>2, <1>3, <1>4, <1>5, <1>6, <1>7, <1>8, <1>9, <1>10, <1>11, <1>12, <1>13, <1>14
  DEF StoreNext, ClaimSelect, CancelAllSelect, SessionsLost, CancelSelect, SignalSent,
      storeVars, rowVars

\* The store, with its split transactions, implements the lifecycle of a task.
THEOREM StoreImplementsLifecycle == StoreSpec => ImplementsLifecycle
<1>1. StoreInit => Lifecycle!Init
  BY DEF StoreInit, Lifecycle!Init
<1>2. StoreInit => DependencyInv
  BY DEF StoreInit, DependencyInv, RunsAfterDependency
<1>3. StoreTypeOK /\ DependencyInv /\ [StoreNext]_storeVars => DependencyInv'
  BY DependencyStep
<1>4. StoreTypeOK /\ DependencyInv /\ [StoreNext]_storeVars => [Lifecycle!Next]_(Lifecycle!lifecycleVars)
  BY LifecycleStep
<1> QED
  BY <1>1, <1>2, <1>3, <1>4, TypeCorrect, PTL DEF StoreSpec, ImplementsLifecycle, Lifecycle!Spec

-----------------------------------------------------------------------------
(* The worker is one user of the table *)

LEMMA AsyncTaskIsStoreStep ==
    ASSUME NEW t \in Task, AsyncTask(t)
    PROVE  [StoreNext]_storeVars
<1> USE DEF StoreNext, TrySucceed, TryFail, TryCancel, FailOrCancel
<1>1. CASE Begin(t) \/ Submit(t) \/ PersistJobId(t) \/ Return(t) \/ Fail(t) \/ Interrupt(t)
  BY <1>1 DEF Begin, Submit, PersistJobId, Return, Fail, Interrupt
<1>2. CASE SettleOk(t) \/ SettleErr(t) \/ SettleCancelled(t)
  BY <1>2 DEF SettleOk, SettleErr, SettleCancelled
<1>3. CASE ResumeDispatch(t) \/ ResumeStart(t) \/ ResumeAdmit(t) \/ ResumeResult(t)
           \/ ResumeInterrupt(t)
  BY <1>3 DEF ResumeDispatch, ResumeStart, ResumeAdmit, ResumeResult, ResumeInterrupt
<1>4. CASE ResumeUnsupported(t) \/ ResumeSettle(t) \/ ResumeCancelled(t)
  BY <1>4 DEF ResumeUnsupported, ResumeSettle, ResumeCancelled
<1>5. ASSUME NEW w \in Outcome, ShieldedWrite(t, w)
      PROVE  [StoreNext]_storeVars
  <2>1. TrySucceed(t) \/ TryFail(t) \/ TryCancel(t)
    BY <1>5 DEF ShieldedWrite, Outcome
  <2> QED
    BY <2>1
<1> QED
  BY <1>1, <1>2, <1>3, <1>4, <1>5 DEF AsyncTask

LEMMA StepIsStoreStep ==
    ASSUME WorkerTypeOK, [Next]_vars
    PROVE  [StoreNext]_storeVars
<1> USE DEF StoreNext, TrySucceed, TryFail, TryCancel, FailOrCancel
<1>1. CASE Client
  BY <1>1 DEF Client
<1>2. CASE Drain \/ EndDrain \/ ListOrphans \/ SkipOwnTasks \/ EndOrphans \/ NothingToClaim
           \/ Dispatch \/ LeaseRegained \/ Stop
  BY <1>2 DEF Drain, EndDrain, ListOrphans, SkipOwnTasks, EndOrphans, NothingToClaim, Dispatch,
              LeaseRegained, Stop
<1>3. CASE ClaimNext
  BY <1>3, WorkerAssumption DEF ClaimNext, WorkerAssumption
<1>4. CASE Claim
  BY <1>4 DEF Claim
<1>5. CASE ClaimedUnsupported \/ ClaimedNoRoom
  <2>1. cur \in Task
    BY <1>5 DEF ClaimedUnsupported, ClaimedNoRoom, WorkerTypeOK
  <2> QED
    BY <1>5, <2>1 DEF ClaimedUnsupported, ClaimedNoRoom
<1>6. ASSUME NEW t \in Task, DrainCancelled(t) \/ HandleOrphan(t) \/ RequestCancel(t)
      PROVE  [StoreNext]_storeVars
  BY <1>6 DEF DrainCancelled, HandleOrphan, RequestCancel
<1>7. CASE Crash \/ Shutdown
  BY <1>7 DEF Crash, Shutdown, Reboot
<1>8. ASSUME NEW t \in Task, AsyncTask(t)
      PROVE  [StoreNext]_storeVars
  BY <1>8, AsyncTaskIsStoreStep
<1>9. CASE UNCHANGED vars
  BY <1>9 DEF vars
<1> QED
  BY <1>1, <1>2, <1>3, <1>4, <1>5, <1>6, <1>7, <1>8, <1>9 DEF Next, Loop

-----------------------------------------------------------------------------
(* Type correctness *)

LEMMA WorkerTypeLoop ==
    ASSUME StoreTypeOK, WorkerTypeOK,
           Client \/ Loop \/ LeaseRegained \/ Stop \/ Crash \/ Shutdown
    PROVE  WorkerTypeOK'
<1> USE WorkerAssumption, TaskStoreAssumption
    DEF WorkerTypeOK, loopVars, taskVars, orphanVars, envVars, Outcome
<1>1. CASE Client
  BY <1>1 DEF Client, workerVars
<1>2. CASE Drain
  BY <1>2 DEF Drain, Phase
<1>3. CASE EndDrain \/ ListOrphans \/ SkipOwnTasks \/ NothingToClaim
  BY <1>3 DEF EndDrain, ListOrphans, SkipOwnTasks, NothingToClaim
<1>11. CASE EndOrphans
  BY <1>11 DEF EndOrphans
<1>12. CASE LeaseRegained
  <2>1. handled' \in BOOLEAN
    BY <1>12, Zenon DEF LeaseRegained
  <2>2. flaps' \in Nat
    BY <1>12 DEF LeaseRegained
  <2> QED
    BY <1>12, <2>1, <2>2 DEF LeaseRegained
<1>13. CASE Stop
  BY <1>13 DEF Stop
<1>4. CASE ClaimNext
  BY <1>4 DEF ClaimNext, workerVars
<1>5. CASE Claim
  BY <1>5 DEF Claim, ClaimUpdate, StoreTypeOK
<1>6. CASE ClaimedUnsupported \/ ClaimedNoRoom
  BY <1>6 DEF ClaimedUnsupported, ClaimedNoRoom
<1>7. CASE Dispatch
  BY <1>7 DEF Dispatch, Go, Phase
<1>8. ASSUME NEW t \in Task, DrainCancelled(t)
      PROVE  WorkerTypeOK'
  BY <1>8 DEF DrainCancelled
<1>9. ASSUME NEW t \in Task, HandleOrphan(t)
      PROVE  WorkerTypeOK'
  BY <1>9 DEF HandleOrphan
<1>10. CASE Crash \/ Shutdown
  <2>1. Reboot
    BY <1>10 DEF Crash, Shutdown
  <2>2. handled' \in BOOLEAN /\ stopping' \in BOOLEAN
    BY <2>1, Zenon DEF Reboot
  <2>3. restarts' \in Nat
    BY <2>1 DEF Reboot
  <2> QED
    BY <2>1, <2>2, <2>3 DEF Reboot, Phase
<1> QED
  BY <1>11, <1>12, <1>13, <1>1, <1>2, <1>3, <1>4, <1>5, <1>6, <1>7, <1>8, <1>9, <1>10 DEF Loop

LEMMA WorkerTypeAsync ==
    ASSUME WorkerTypeOK, NEW t \in Task, AsyncTask(t) \/ RequestCancel(t)
    PROVE  WorkerTypeOK'
<1> USE DEF WorkerTypeOK, loopVars, taskVars, orphanVars, envVars, Outcome, Go, Phase, Working,
            Settling, Done, Resuming, Admitted
<1>1. CASE RequestCancel(t)
  BY <1>1 DEF RequestCancel
<1>2. CASE Begin(t) \/ Submit(t) \/ PersistJobId(t) \/ Return(t) \/ Fail(t)
  BY <1>2 DEF Begin, Submit, PersistJobId, Return, Fail
<1>3. CASE SettleOk(t) \/ SettleErr(t) \/ SettleCancelled(t)
  BY <1>3 DEF SettleOk, SettleErr, SettleCancelled
<1>4. CASE Interrupt(t) \/ ResumeInterrupt(t)
  <2>1. OwnWrite(exec[t]) \in SUBSET Outcome
    BY DEF OwnWrite
  <2> QED
    BY <1>4, <2>1 DEF Interrupt, ResumeInterrupt, LeaveSlot
<1>5. CASE ResumeDispatch(t) \/ ResumeUnsupported(t)
  BY <1>5 DEF ResumeDispatch, ResumeUnsupported
<1>6. CASE ResumeStart(t) \/ ResumeAdmit(t) \/ ResumeResult(t)
  BY <1>6 DEF ResumeStart, ResumeAdmit, ResumeResult, LeaveSlot
<1>7. CASE ResumeSettle(t) \/ ResumeCancelled(t)
  BY <1>7 DEF ResumeSettle, ResumeCancelled, LeaveSlot
<1>8. ASSUME NEW w \in Outcome, ShieldedWrite(t, w)
      PROVE  WorkerTypeOK'
  BY <1>8 DEF ShieldedWrite
<1> QED
  BY <1>1, <1>2, <1>3, <1>4, <1>5, <1>6, <1>7, <1>8 DEF AsyncTask

TypeInv == StoreTypeOK /\ WorkerTypeOK

LEMMA TypeInvInit == Init => TypeInv
<1>1. Init => StoreTypeOK
  BY TypeInit DEF Init
<1>2. Init => handled \in BOOLEAN /\ stopping \in BOOLEAN
  BY Zenon DEF Init, WorkerInit
<1>3. Init => WorkerTypeOK
  BY <1>2, TaskStoreAssumption
  DEF Init, WorkerInit, WorkerTypeOK, Phase, TaskStoreAssumption
<1> QED
  BY <1>1, <1>3 DEF TypeInv

LEMMA TypeInvStep ==
    ASSUME TypeInv, [Next]_vars
    PROVE  TypeInv'
<1>1. StoreTypeOK'
  BY StepIsStoreStep, TypeStep, TaskStoreAssumption DEF TypeInv
<1>2. CASE UNCHANGED vars
  <2>1. handled' \in BOOLEAN /\ stopping' \in BOOLEAN
    BY <1>2, Zenon DEF vars, workerVars, loopVars, TypeInv, WorkerTypeOK
  <2> QED
    BY <1>1, <1>2, <2>1
    DEF vars, workerVars, loopVars, taskVars, orphanVars, envVars, TypeInv, WorkerTypeOK
<1>3. CASE Client \/ Loop \/ LeaseRegained \/ Stop \/ Crash \/ Shutdown
  BY <1>1, <1>3, WorkerTypeLoop DEF TypeInv
<1>4. ASSUME NEW t \in Task, RequestCancel(t) \/ AsyncTask(t)
      PROVE  TypeInv'
  BY <1>1, <1>4, WorkerTypeAsync DEF TypeInv
<1> QED
  BY <1>2, <1>3, <1>4 DEF Next

\* The variables of the worker and of the table always have their types.
THEOREM WorkerTypeCorrect == Spec => []TypeInv
<1> QED
  BY TypeInvInit, TypeInvStep, PTL DEF Spec

\* Every behaviour of the worker, its clients and its crashes is a behaviour
\* of the task table alone.
THEOREM WorkerUsesTransactions == Spec => StoreSpec
<1>1. TypeInv /\ [Next]_vars => [StoreNext]_storeVars
  BY StepIsStoreStep DEF TypeInv
<1>2. Init => StoreInit
  BY DEF Init
<1> QED
  BY <1>1, <1>2, WorkerTypeCorrect, PTL DEF Spec, StoreSpec

\* With the worker at work the dedupe key stays unique and no row runs before
\* its dependency has succeeded.
THEOREM WorkerKeepsTheTable == Spec => []UniqueActiveKey /\ []RunsAfterDependency
<1> QED
  BY WorkerUsesTransactions, KeysAreUnique, DependenciesFirst, PTL

-----------------------------------------------------------------------------
(* Paid once *)

\* AtMostOneSubmission is not inductive: a submission adds one, so what must be
\* carried is who may still submit.  A row outside the store or in the queue,
\* and the row just claimed, have not been submitted and no coroutine of theirs
\* is about to; a coroutine before its submission works on an unpaid row; and
\* whatever can lead to success (a job id, a resume, a write under way) belongs
\* to a row submitted once.
HasResult(t) ==
    \/ exec[t] \in {"submitted", "polling", "settleOk"} \cup Resuming
    \/ "succeeded" \in shielded[t]
    \/ t \in jobId \/ t \in resumeQ
    \/ status[t] = "succeeded"

PaidInv ==
    \A t \in Task :
        /\ submits[t] \in {0, 1}
        /\ status[t] \in {"absent", "queued"} \/ cur = t
              => submits[t] = 0 /\ exec[t] \notin Before
        /\ exec[t] \in Before => submits[t] = 0
        /\ cur = t => status[t] \notin {"absent", "queued"}
        /\ HasResult(t) => submits[t] = 1

\* Most steps neither put a row (back) into the queue nor make one succeed.
Quiet == \A x \in Task :
            /\ status'[x] \in {"absent", "queued"} => status[x] \in {"absent", "queued"}
            /\ status'[x] = "succeeded" => status[x] = "succeeded"

LEMMA QuietCascade ==
    ASSUME TypeInv, NEW t \in Task, CancelWithCascade(t, "user")
    PROVE  Quiet
BY DEF Quiet, CancelWithCascade, TypeInv, StoreTypeOK

LEMMA QuietWrites ==
    ASSUME TypeInv, NEW t \in Task, TryFail(t) \/ TryCancel(t) \/ FailOrCancel(t)
    PROVE  Quiet
<1>1. CASE MarkFailed(t)
  BY <1>1 DEF MarkFailed, SetStatus, Quiet, TypeInv, StoreTypeOK
<1>2. CASE FinalizeCancelled(t)
  BY <1>2, QuietCascade DEF FinalizeCancelled
<1>3. CASE UNCHANGED storeVars
  BY <1>3 DEF storeVars, rowVars, Quiet
<1> QED
  BY <1>1, <1>2, <1>3 DEF TryFail, TryCancel, FailOrCancel

LEMMA QuietClient ==
    ASSUME TypeInv, Client
    PROVE  Quiet
<1> USE DEF Quiet, TypeInv, StoreTypeOK
<1>1. ASSUME NEW t \in Task, NEW d \in Task \cup {NULL}, NEW k \in Key, Enqueue(t, d, k)
      PROVE  Quiet
  BY <1>1 DEF Enqueue, SetStatus
<1>2. ASSUME NEW t \in Task, CancelQueuedUpdate(t)
      PROVE  Quiet
  BY <1>2, QuietCascade DEF CancelQueuedUpdate
<1>3. ASSUME NEW t \in Task, CancelRunningUpdate(t)
      PROVE  Quiet
  BY <1>3 DEF CancelRunningUpdate, SetStatus
<1>4. CASE CancelAllUpdate
  BY <1>4 DEF CancelAllUpdate
<1>5. CASE UNCHANGED rowVars
  BY <1>5 DEF rowVars
<1> QED
  BY <1>1, <1>2, <1>3, <1>4, <1>5 DEF Client, CancelSelect, CancelAllSelect

LEMMA SucceedsOnly ==
    ASSUME TypeInv, NEW t \in Task, TrySucceed(t)
    PROVE  \A x \in Task :
              /\ status'[x] \in {"absent", "queued"} => status[x] \in {"absent", "queued"}
              /\ status'[x] = "succeeded" => status[x] = "succeeded" \/ x = t
BY DEF TrySucceed, MarkSucceeded, SetStatus, TypeInv, StoreTypeOK, storeVars, rowVars

\* Steps that change no coroutine, no claim, no job and no submission.
LEMMA PaidUndisturbed ==
    ASSUME PaidInv, Quiet, UNCHANGED <<exec, shielded, jobId, submits>>,
           resumeQ' \subseteq resumeQ \cup jobId, cur' \in {cur, NULL}
    PROVE  PaidInv'
BY TaskStoreAssumption DEF PaidInv, HasResult, Quiet, TaskStoreAssumption

LEMMA PaidLoop ==
    ASSUME TypeInv, PaidInv, Client \/ Loop \/ LeaseRegained \/ Stop \/ Crash \/ Shutdown
    PROVE  PaidInv'
<1> USE DEF taskVars, orphanVars, envVars, loopVars, workerVars
<1>1. CASE Client
  BY <1>1, QuietClient, PaidUndisturbed DEF Client
<1>2. CASE Drain
  BY <1>2 DEF Drain, PaidInv, HasResult, Before, Resuming, Admitted, TypeInv, WorkerTypeOK,
              storeVars, rowVars
<1>3. CASE EndDrain \/ ListOrphans \/ SkipOwnTasks \/ EndOrphans \/ NothingToClaim
           \/ LeaseRegained \/ Stop \/ ClaimNext
  <2>1. UNCHANGED rowVars
    BY <1>3 DEF EndDrain, ListOrphans, SkipOwnTasks, EndOrphans, NothingToClaim, LeaseRegained,
                Stop, ClaimNext, ClaimSelect, storeVars
  <2>2. UNCHANGED <<exec, shielded, jobId, submits, resumeQ, cur>>
    BY <1>3 DEF EndDrain, ListOrphans, SkipOwnTasks, EndOrphans, NothingToClaim, LeaseRegained,
                Stop, ClaimNext
  <2> QED
    BY <2>1, <2>2, PaidUndisturbed DEF Quiet, rowVars
<1>4. CASE Claim
  <2>1. cur = NULL
    BY <1>4 DEF Claim, TypeInv, WorkerTypeOK
  <2>2. Quiet
    BY <1>4 DEF Claim, ClaimUpdate, SetStatus, Quiet, TypeInv, StoreTypeOK
  <2>3. CASE status[claimRead] = "queued"
    <3>1. claimRead \in Task /\ cur' = claimRead
      BY <1>4, <2>3 DEF Claim, ClaimUpdate, TypeInv, StoreTypeOK
    <3>2. UNCHANGED <<exec, shielded, jobId, submits, resumeQ>>
      BY <1>4 DEF Claim
    <3>3. status'[claimRead] = "running"
      BY <1>4, <2>3, <3>1 DEF Claim, ClaimUpdate, SetStatus
    <3> QED
      BY <2>2, <2>3, <3>1, <3>2, <3>3 DEF PaidInv, HasResult, Quiet
  <2>4. CASE status[claimRead] # "queued"
    BY <1>4, <2>2, <2>4, PaidUndisturbed DEF Claim
  <2> QED
    BY <2>3, <2>4
<1>5. CASE ClaimedUnsupported
  <2>1. cur \in Task
    BY <1>5 DEF ClaimedUnsupported, TypeInv, WorkerTypeOK
  <2> QED
    BY <1>5, <2>1, QuietWrites, PaidUndisturbed DEF ClaimedUnsupported
<1>6. CASE ClaimedNoRoom
  <2>1. cur \in Task
    BY <1>6 DEF ClaimedNoRoom, TypeInv, WorkerTypeOK
  <2>2. \A x \in Task : status'[x] = status[x] \/ (x = cur /\ status'[x] = "queued")
    <3>1. CASE RequeueSingle(cur)
      BY <2>1, <3>1 DEF RequeueSingle, TypeInv, StoreTypeOK
    <3>2. CASE UNCHANGED storeVars
      BY <3>2 DEF storeVars, rowVars
    <3> QED
      BY <1>6, <3>1, <3>2 DEF ClaimedNoRoom
  <2>3. cur' = NULL /\ UNCHANGED <<exec, shielded, jobId, submits, resumeQ>>
    BY <1>6 DEF ClaimedNoRoom
  <2> QED
    BY <2>1, <2>2, <2>3, TaskStoreAssumption DEF PaidInv, HasResult, TaskStoreAssumption
<1>7. CASE Dispatch
  <2>1. cur \in Task
    BY <1>7 DEF Dispatch, TypeInv, WorkerTypeOK
  <2>2. status[cur] \notin {"absent", "queued"}
    BY <2>1 DEF PaidInv
  <2> QED
    BY <1>7, <2>1, <2>2, TaskStoreAssumption
    DEF Dispatch, Go, PaidInv, HasResult, Before, Resuming, Admitted, TypeInv, WorkerTypeOK,
        storeVars, rowVars, TaskStoreAssumption
<1>8. ASSUME NEW t \in Task, DrainCancelled(t)
      PROVE  PaidInv'
  BY <1>8, QuietWrites, PaidUndisturbed DEF DrainCancelled
<1>9. ASSUME NEW t \in Task, HandleOrphan(t)
      PROVE  PaidInv'
  <2>1. Quiet
    <3>1. UNCHANGED storeVars => Quiet
      BY DEF storeVars, rowVars, Quiet
    <3> QED
      BY <1>9, <3>1, QuietWrites DEF HandleOrphan
  <2>2. resumeQ' \subseteq resumeQ \cup jobId
    BY <1>9 DEF HandleOrphan
  <2> QED
    BY <1>9, <2>1, <2>2, PaidUndisturbed DEF HandleOrphan
<1>10. CASE Crash \/ Shutdown
  <2>1. Reboot
    BY <1>10 DEF Crash, Shutdown
  <2> QED
    BY <2>1, TaskStoreAssumption
    DEF Reboot, SessionsLost, rowVars, PaidInv, HasResult, Before, Resuming, Admitted,
        TaskStoreAssumption
<1> QED
  BY <1>1, <1>2, <1>3, <1>4, <1>5, <1>6, <1>7, <1>8, <1>9, <1>10 DEF Loop

LEMMA PaidProcess ==
    ASSUME TypeInv, PaidInv, NEW t \in Task,
           \/ Begin(t) \/ Submit(t) \/ PersistJobId(t) \/ Return(t) \/ Fail(t)
           \/ SettleOk(t) \/ SettleErr(t) \/ SettleCancelled(t) \/ Interrupt(t)
    PROVE  PaidInv'
<1> USE DEF PaidInv, HasResult, Before, Working, Settling, Resuming, Admitted, Go,
            orphanVars, envVars, loopVars
<1>1. exec \in [Task -> Phase] /\ submits \in [Task -> Nat] /\ shielded \in [Task -> SUBSET Outcome]
  BY DEF TypeInv, WorkerTypeOK
<1>2. CASE Begin(t) \/ Return(t) \/ Fail(t)
  <2>1. UNCHANGED <<status, cur, shielded, jobId, resumeQ, submits>>
    BY <1>2 DEF Begin, Return, Fail, storeVars, rowVars
  <2>2. /\ exec[t] \in {"created"} => exec'[t] = "executing"
        /\ exec'[t] \in Before => exec[t] \in Before
        /\ exec'[t] = "settleOk" => exec[t] = "polling"
        /\ exec'[t] \in {"executing", "settleOk", "settleErr"}
        /\ \A x \in Task \ {t} : exec'[x] = exec[x]
        /\ exec[t] # "none"
    BY <1>1, <1>2 DEF Begin, Return, Fail
  <2> QED
    BY <2>1, <2>2
<1>3. CASE Submit(t)
  <2>1. UNCHANGED <<status, cur, shielded, jobId, resumeQ>>
    BY <1>3 DEF Submit, storeVars, rowVars
  <2>2. /\ submits[t] = 0 /\ submits'[t] = 1 /\ exec[t] = "executing"
        /\ exec'[t] \in {"submitted", "polling"}
        /\ \A x \in Task \ {t} : exec'[x] = exec[x] /\ submits'[x] = submits[x]
    BY <1>1, <1>3 DEF Submit
  <2> QED
    BY <2>1, <2>2
<1>4. CASE PersistJobId(t)
  <2>1. UNCHANGED <<status, cur, shielded, resumeQ, submits>>
    BY <1>4 DEF PersistJobId, storeVars, rowVars
  <2>2. /\ exec[t] = "submitted" /\ exec'[t] = "polling" /\ jobId' = jobId \cup {t}
        /\ \A x \in Task \ {t} : exec'[x] = exec[x]
    BY <1>1, <1>4 DEF PersistJobId
  <2> QED
    BY <2>1, <2>2
<1>5. CASE SettleOk(t) \/ SettleErr(t) \/ SettleCancelled(t)
  <2>1. UNCHANGED <<cur, shielded, jobId, resumeQ, submits>>
    BY <1>5 DEF SettleOk, SettleErr, SettleCancelled
  <2>2. /\ exec'[t] \in {"doneOk", "doneCancelled", "settleZero"}
        /\ \A x \in Task \ {t} : exec'[x] = exec[x]
    BY <1>1, <1>5 DEF SettleOk, SettleErr, SettleCancelled
  <2>3. \A x \in Task :
           /\ status'[x] \in {"absent", "queued"} => status[x] \in {"absent", "queued"}
           /\ status'[x] = "succeeded" => submits[x] = 1
    BY <1>5, SucceedsOnly, QuietWrites DEF SettleOk, SettleErr, SettleCancelled, Quiet
  <2> QED
    BY <2>1, <2>2, <2>3
<1>6. CASE Interrupt(t)
  <2>1. UNCHANGED <<status, cur, jobId, resumeQ, submits>>
    BY <1>6 DEF Interrupt, storeVars, rowVars
  <2>2. /\ exec'[t] \in {"settleCancel", "doneCancelled"}
        /\ \A x \in Task \ {t} : exec'[x] = exec[x] /\ shielded'[x] = shielded[x]
        /\ shielded'[t] = shielded[t] \cup OwnWrite(exec[t])
        /\ exec[t] \in {"created"} \cup Working \cup Settling
    BY <1>1, <1>6 DEF Interrupt
  <2>3. "succeeded" \in OwnWrite(exec[t]) => exec[t] = "settleOk"
    BY <2>2 DEF OwnWrite
  <2> QED
    BY <2>1, <2>2, <2>3
<1> QED
  BY <1>2, <1>3, <1>4, <1>5, <1>6

LEMMA PaidResume ==
    ASSUME TypeInv, PaidInv, NEW t \in Task,
           \/ ResumeDispatch(t) \/ ResumeUnsupported(t) \/ ResumeStart(t) \/ ResumeAdmit(t)
           \/ ResumeResult(t) \/ ResumeSettle(t) \/ ResumeCancelled(t) \/ ResumeInterrupt(t)
    PROVE  PaidInv'
<1> USE DEF PaidInv, HasResult, Before, Resuming, Admitted, Go, LeaveSlot, envVars, loopVars,
            orphanVars
<1>1. exec \in [Task -> Phase] /\ submits \in [Task -> Nat] /\ shielded \in [Task -> SUBSET Outcome]
  BY DEF TypeInv, WorkerTypeOK
<1>2. CASE ResumeDispatch(t) \/ ResumeStart(t) \/ ResumeAdmit(t) \/ ResumeResult(t)
  <2>1. UNCHANGED <<status, cur, shielded, jobId, submits>> /\ resumeQ' \subseteq resumeQ
    BY <1>2 DEF ResumeDispatch, ResumeStart, ResumeAdmit, ResumeResult, storeVars, rowVars
  <2>2. /\ HasResult(t)
        /\ exec'[t] = exec[t] \/ exec'[t] \in Resuming \cup {"none"}
        /\ \A x \in Task \ {t} : exec'[x] = exec[x]
    BY <1>1, <1>2 DEF ResumeDispatch, ResumeStart, ResumeAdmit, ResumeResult
  <2> QED
    BY <2>1, <2>2
<1>3. CASE ResumeUnsupported(t)
  BY <1>3, QuietWrites DEF ResumeUnsupported, Quiet
<1>4. CASE ResumeSettle(t) \/ ResumeCancelled(t)
  <2>1. UNCHANGED <<cur, shielded, jobId, resumeQ, submits>>
    BY <1>4 DEF ResumeSettle, ResumeCancelled
  <2>2. /\ HasResult(t)
        /\ exec'[t] \in {"none", "rZero"}
        /\ \A x \in Task \ {t} : exec'[x] = exec[x]
    BY <1>1, <1>4 DEF ResumeSettle, ResumeCancelled
  <2>3. \A x \in Task :
           /\ status'[x] \in {"absent", "queued"} => status[x] \in {"absent", "queued"}
           /\ status'[x] = "succeeded" => submits[x] = 1
    BY <1>4, SucceedsOnly, QuietWrites DEF ResumeSettle, ResumeCancelled, Quiet
  <2> QED
    BY <2>1, <2>2, <2>3
<1>5. CASE ResumeInterrupt(t)
  <2>1. UNCHANGED <<status, cur, jobId, resumeQ, submits>>
    BY <1>5 DEF ResumeInterrupt, storeVars, rowVars
  <2>2. /\ HasResult(t)
        /\ exec'[t] \in {"rDead", "rQuit", "rExit", "none"}
        /\ \A x \in Task \ {t} : exec'[x] = exec[x] /\ shielded'[x] = shielded[x]
    BY <1>1, <1>5 DEF ResumeInterrupt
  <2> QED
    BY <2>1, <2>2
<1> QED
  BY <1>2, <1>3, <1>4, <1>5

LEMMA PaidShielded ==
    ASSUME TypeInv, PaidInv, NEW t \in Task, NEW w \in Outcome, ShieldedWrite(t, w)
    PROVE  PaidInv'
<1>1. UNCHANGED <<exec, cur, jobId, resumeQ, submits>>
  BY DEF ShieldedWrite, loopVars, orphanVars, envVars
<1>2. \A x \in Task : shielded'[x] \subseteq shielded[x]
  BY DEF ShieldedWrite, TypeInv, WorkerTypeOK
<1>3. \A x \in Task :
         /\ status'[x] \in {"absent", "queued"} => status[x] \in {"absent", "queued"}
         /\ status'[x] = "succeeded" => submits[x] = 1
  <2>1. CASE w = "succeeded"
    BY <2>1, SucceedsOnly DEF ShieldedWrite, PaidInv, HasResult
  <2>2. CASE w # "succeeded"
    BY <2>2, QuietWrites DEF ShieldedWrite, PaidInv, HasResult, Outcome, Quiet
  <2> QED
    BY <2>1, <2>2
<1> QED
  BY <1>1, <1>2, <1>3 DEF PaidInv, HasResult

LEMMA PaidStep ==
    ASSUME TypeInv, PaidInv, [Next]_vars
    PROVE  PaidInv'
<1>1. CASE Client \/ Loop \/ LeaseRegained \/ Stop \/ Crash \/ Shutdown
  BY <1>1, PaidLoop
<1>2. ASSUME NEW t \in Task, RequestCancel(t)
      PROVE  PaidInv'
  BY <1>2, PaidUndisturbed
  DEF RequestCancel, SignalSent, rowVars, Quiet, loopVars, orphanVars, envVars
<1>3. ASSUME NEW t \in Task, AsyncTask(t)
      PROVE  PaidInv'
  BY <1>3, PaidProcess, PaidResume, PaidShielded DEF AsyncTask
<1>4. CASE UNCHANGED vars
  BY <1>4, PaidUndisturbed
  DEF vars, storeVars, rowVars, workerVars, loopVars, taskVars, orphanVars, envVars, Quiet
<1> QED
  BY <1>1, <1>2, <1>3, <1>4 DEF Next

\* No row is submitted to its provider twice (ADR 0007), whatever crashes, lost
\* leases, cancels and requeues happen; what is queued is unpaid and what
\* succeeded was paid for.
THEOREM PaidOnce == Spec => []AtMostOneSubmission /\ []PaidIffExecuted
<1>1. Init => PaidInv
  BY TaskStoreAssumption
  DEF Init, StoreInit, WorkerInit, PaidInv, HasResult, Before, Resuming, Admitted,
      TaskStoreAssumption
<1>2. TypeInv /\ PaidInv /\ [Next]_vars => PaidInv'
  BY PaidStep
<1>3. PaidInv => AtMostOneSubmission /\ PaidIffExecuted
  BY DEF PaidInv, HasResult, AtMostOneSubmission, PaidIffExecuted
<1> QED
  BY <1>1, <1>2, <1>3, WorkerTypeCorrect, PTL DEF Spec

-----------------------------------------------------------------------------
(* One coroutine per row, and an owner for every running row *)

\* What SoleExecutor and RunningHasOwner rest on is one discipline of hand-overs:
\* a row is in at most one of the queue (or not in the table), the claim, the
\* orphan list, the resume queue and the SlotTable, and it is in the SlotTable
\* exactly while it has a coroutine.  That this survives a second orphan scan
\* depends on where the loop stands: no resume is pending when a scan reads, and
\* SkipOwnTasks strikes out whatever the SlotTable holds.
Unstarted(s) == s \in {"absent", "queued"}
Ended(s) == s \notin {"absent", "queued", "running"}

OnePlace(t) ==
    /\ exec[t] = "none" <=> t \notin slots
    /\ Unstarted(status[t]) => t \notin slots \cup resumeQ /\ orphanRead[t] = "none"
    /\ cur = t => t \notin slots \cup resumeQ
    /\ t \in resumeQ => t \notin slots
    /\ loop = "orphans" /\ orphanRead[t] # "none" => t \notin slots \cup resumeQ
    /\ loop \notin {"filter", "orphans"} => orphanRead[t] = "none"

ScanPhases ==
    /\ loop \in {"scan", "filter"} => resumeQ = {}
    /\ ~handled /\ loop \in {"top", "drain"} => resumeQ = {}
    /\ loop \in {"scan", "filter", "orphans"} => ~handled
    /\ loop \in {"claim", "claimed"} => handled

SoleInv == ScanPhases /\ \A t \in Task : OnePlace(t)

\* A cancel signal, pending or on its way, is for a row that has left the
\* running state, and so is a coroutine that ended; a running row is with a live
\* coroutine, the claim, the resume queue or an orphan scan.
OwnerInv ==
    \A t \in Task :
        /\ t \in signals \cup sig => Ended(status[t])
        /\ exec[t] \in Done \cup {"rDead"} => Ended(status[t])
        /\ status[t] = "running" =>
              \/ exec[t] \in Live \/ cur = t \/ t \in resumeQ
              \/ orphanRead[t] = "running" \/ stopping
              \/ ~handled /\ loop \notin {"filter", "orphans"}

\* Every step but the claim and the requeue only moves rows on, and asks for
\* the cancellation of none but rows that have left the running state.
Forward ==
    \A x \in Task :
        /\ Unstarted(status'[x]) => Unstarted(status[x])
        /\ status'[x] = "running" => status[x] = "running"
        /\ x \in signals' => x \in signals \/ Ended(status'[x])

LEMMA ForwardCascade ==
    ASSUME TypeInv, NEW t \in Task, CancelWithCascade(t, "user")
    PROVE  Forward
BY DEF Forward, Unstarted, Ended, CancelWithCascade, TypeInv, StoreTypeOK

LEMMA ForwardWrites ==
    ASSUME TypeInv, NEW t \in Task,
           TrySucceed(t) \/ TryFail(t) \/ TryCancel(t) \/ FailOrCancel(t)
    PROVE  Forward
<1>1. CASE MarkFailed(t)
  BY <1>1 DEF MarkFailed, SetStatus, sessionVars, Forward, Unstarted, Ended, TypeInv, StoreTypeOK
<1>2. CASE MarkSucceeded(t)
  BY <1>2 DEF MarkSucceeded, SetStatus, sessionVars, Forward, Unstarted, Ended, TypeInv,
              StoreTypeOK
<1>3. CASE FinalizeCancelled(t)
  BY <1>3, ForwardCascade DEF FinalizeCancelled
<1>4. CASE UNCHANGED storeVars
  BY <1>4 DEF storeVars, rowVars, sessionVars, Forward
<1> QED
  BY <1>1, <1>2, <1>3, <1>4 DEF TrySucceed, TryFail, TryCancel, FailOrCancel

LEMMA ForwardClient ==
    ASSUME TypeInv, Client
    PROVE  Forward
<1> USE DEF Forward, Unstarted, Ended, TypeInv, StoreTypeOK
<1>1. ASSUME NEW t \in Task, NEW d \in Task \cup {NULL}, NEW k \in Key, Enqueue(t, d, k)
      PROVE  Forward
  BY <1>1 DEF Enqueue, SetStatus, sessionVars
<1>2. ASSUME NEW t \in Task, CancelQueuedUpdate(t)
      PROVE  Forward
  BY <1>2, ForwardCascade DEF CancelQueuedUpdate
<1>3. ASSUME NEW t \in Task, CancelRunningUpdate(t)
      PROVE  Forward
  BY <1>3 DEF CancelRunningUpdate, SetStatus
<1>4. CASE CancelAllUpdate
  BY <1>4 DEF CancelAllUpdate
<1>5. CASE UNCHANGED <<rowVars, signals>>
  BY <1>5 DEF rowVars
<1> QED
  BY <1>1, <1>2, <1>3, <1>4, <1>5 DEF Client, CancelSelect, CancelAllSelect

LEMMA ForwardAsync ==
    ASSUME TypeInv, NEW t \in Task, AsyncTask(t)
    PROVE  Forward
<1>1. UNCHANGED storeVars => Forward
  BY DEF storeVars, rowVars, sessionVars, Forward
<1>2. CASE Begin(t) \/ Submit(t) \/ PersistJobId(t) \/ Return(t) \/ Fail(t) \/ Interrupt(t)
  BY <1>1, <1>2 DEF Begin, Submit, PersistJobId, Return, Fail, Interrupt
<1>3. CASE SettleOk(t) \/ SettleErr(t) \/ SettleCancelled(t)
  BY <1>3, ForwardWrites DEF SettleOk, SettleErr, SettleCancelled
<1>4. CASE ResumeDispatch(t) \/ ResumeStart(t) \/ ResumeAdmit(t) \/ ResumeResult(t)
           \/ ResumeInterrupt(t)
  BY <1>1, <1>4 DEF ResumeDispatch, ResumeStart, ResumeAdmit, ResumeResult, ResumeInterrupt
<1>5. CASE ResumeUnsupported(t) \/ ResumeSettle(t) \/ ResumeCancelled(t)
  BY <1>5, ForwardWrites DEF ResumeUnsupported, ResumeSettle, ResumeCancelled
<1>6. ASSUME NEW w \in Outcome, ShieldedWrite(t, w)
      PROVE  Forward
  BY <1>6, ForwardWrites DEF ShieldedWrite, Outcome
<1> QED
  BY <1>2, <1>3, <1>4, <1>5, <1>6 DEF AsyncTask

\* What a step of one coroutine (or of the dispatcher, for one row) may change.
Local(t) ==
    /\ UNCHANGED loopVars
    /\ resumeQ' \subseteq resumeQ
    /\ sig' \subseteq sig
    /\ \A x \in Task \ {t} :
          exec'[x] = exec[x] /\ (x \in slots' <=> x \in slots) /\ (x \in resumeQ' <=> x \in resumeQ)
    /\ exec'[t] = "none" <=> t \notin slots'
    /\ t \in slots' => t \in slots \/ (t \in resumeQ \ resumeQ' /\ loop # "orphans")

\* And how it hands its row over: a coroutine ends only with its row out of the
\* running state, unless the worker is stopping.
HandsOver(t) ==
    /\ exec'[t] \in Done \cup {"rDead"} => exec'[t] = exec[t] \/ Ended(status'[t])
    /\ status'[t] = "running" /\ exec[t] \in Live => exec'[t] \in Live \/ stopping
    /\ status'[t] = "running" /\ t \in resumeQ => t \in resumeQ' \/ exec'[t] \in Live \/ stopping

\* The final writes leave no running row.
LEMMA WritesSettle ==
    ASSUME TypeInv, NEW t \in Task,
           \/ TrySucceed(t) \/ TryFail(t) \/ TryCancel(t) \/ FailOrCancel(t)
    PROVE  /\ status'[t] # "running"
           /\ ~Unstarted(status[t]) => Ended(status'[t])
<1> USE DEF TypeInv, StoreTypeOK, Status, Active, Terminal, Unstarted, Ended
<1>1. CASE MarkFailed(t)
  BY <1>1 DEF MarkFailed, SetStatus
<1>2. CASE MarkSucceeded(t)
  BY <1>2 DEF MarkSucceeded, SetStatus
<1>3. CASE FinalizeCancelled(t)
  BY <1>3 DEF FinalizeCancelled, CancelWithCascade
<1>4. CASE status[t] # "running" /\ UNCHANGED storeVars
  BY <1>4 DEF storeVars, rowVars
<1> QED
  BY <1>1, <1>2, <1>3, <1>4 DEF TrySucceed, TryFail, TryCancel, FailOrCancel

LEMMA ProcessIsLocal ==
    ASSUME TypeInv, SoleInv, OwnerInv, NEW t \in Task,
           \/ Begin(t) \/ Submit(t) \/ PersistJobId(t) \/ Return(t) \/ Fail(t)
           \/ SettleOk(t) \/ SettleErr(t) \/ SettleCancelled(t) \/ Interrupt(t)
    PROVE  Local(t) /\ HandsOver(t)
<1>1. /\ exec \in [Task -> Phase]
      /\ exec[t] = "none" <=> t \notin slots
      /\ t \in slots => ~Unstarted(status[t]) /\ t \notin resumeQ
      /\ t \in sig => Ended(status[t])
  BY DEF TypeInv, WorkerTypeOK, SoleInv, OnePlace, OwnerInv
<1>2. UNCHANGED loopVars /\ UNCHANGED <<slots, resumeQ>> /\ sig' \subseteq sig
  BY DEF Begin, Submit, PersistJobId, Return, Fail, SettleOk, SettleErr, SettleCancelled,
         Interrupt, orphanVars
<1>3. /\ exec[t] # "none"
      /\ exec'[t] \in {"executing", "submitted", "polling"} \cup Settling \cup Done
      /\ \A x \in Task \ {t} : exec'[x] = exec[x]
  BY <1>1 DEF Begin, Submit, PersistJobId, Return, Fail, SettleOk, SettleErr, SettleCancelled,
              Interrupt, Go, Working, Settling, Done
<1>4. Local(t)
  BY <1>1, <1>2, <1>3 DEF Local, Settling, Done
<1>5. exec'[t] \in Done => Ended(status'[t])
  <2>1. CASE Begin(t) \/ Submit(t) \/ PersistJobId(t) \/ Return(t) \/ Fail(t)
    BY <1>1, <2>1 DEF Begin, Submit, PersistJobId, Return, Fail, Go, Done
  <2>2. CASE SettleOk(t) \/ SettleErr(t) \/ SettleCancelled(t)
    <3>1. t \in slots
      BY <1>1, <1>3
    <3> QED
      BY <1>1, <2>2, <3>1, WritesSettle DEF SettleOk, SettleErr, SettleCancelled
  <2>3. CASE Interrupt(t)
    BY <1>1, <2>3 DEF Interrupt, storeVars, rowVars
  <2> QED
    BY <2>1, <2>2, <2>3
<1>6. HandsOver(t)
  BY <1>1, <1>3, <1>5 DEF HandsOver, Live, Working, Settling, Done, Ended
<1> QED
  BY <1>4, <1>6

LEMMA ResumeIsLocal ==
    ASSUME TypeInv, SoleInv, OwnerInv, NEW t \in Task,
           \/ ResumeDispatch(t) \/ ResumeUnsupported(t) \/ ResumeStart(t) \/ ResumeAdmit(t)
           \/ ResumeResult(t) \/ ResumeSettle(t) \/ ResumeCancelled(t) \/ ResumeInterrupt(t)
    PROVE  Local(t) /\ HandsOver(t)
<1> USE DEF Go, LeaveSlot
<1>1. /\ exec \in [Task -> Phase] /\ slots \subseteq Task /\ resumeQ \subseteq Task
      /\ exec[t] = "none" <=> t \notin slots
      /\ t \in slots => ~Unstarted(status[t])
      /\ t \in resumeQ => t \notin slots
      /\ t \in sig => Ended(status[t])
      /\ exec[t] \in Done \cup {"rDead"} => Ended(status[t])
  BY DEF TypeInv, WorkerTypeOK, SoleInv, OnePlace, OwnerInv
<1>2. UNCHANGED loopVars /\ sig' \subseteq sig
  BY DEF ResumeDispatch, ResumeUnsupported, ResumeStart, ResumeAdmit, ResumeResult, ResumeSettle,
         ResumeCancelled, ResumeInterrupt
<1>3. stopping' = stopping /\ loop' = loop
  BY <1>2, Zenon DEF loopVars
<1>4. CASE ResumeDispatch(t)
  <2>1. /\ t \in resumeQ /\ loop # "orphans" /\ resumeQ' = resumeQ \ {t}
        /\ \/ stopping /\ exec' = exec /\ slots' = slots
           \/ exec' = [exec EXCEPT ![t] = "rNew"] /\ slots' = slots \cup {t}
    BY <1>4 DEF ResumeDispatch
  <2> QED
    BY <1>1, <1>2, <2>1 DEF Local, HandsOver, Live, Resuming, Done
<1>5. CASE ResumeUnsupported(t)
  <2>1. resumeQ' = resumeQ \ {t} /\ exec' = exec /\ slots' = slots /\ FailOrCancel(t)
    BY <1>5 DEF ResumeUnsupported
  <2>2. status'[t] # "running" /\ (~Unstarted(status[t]) => Ended(status'[t]))
    BY <2>1, WritesSettle
  <2> QED
    BY <1>1, <1>2, <2>1, <2>2 DEF Local, HandsOver
<1>6. CASE ResumeStart(t) \/ ResumeAdmit(t) \/ ResumeResult(t) \/ ResumeSettle(t)
           \/ ResumeCancelled(t) \/ ResumeInterrupt(t)
  <2>1. resumeQ' = resumeQ /\ exec[t] # "none"
    BY <1>6 DEF ResumeStart, ResumeAdmit, ResumeResult, ResumeSettle, ResumeCancelled,
                ResumeInterrupt, orphanVars, Resuming, Admitted
  <2>2. \/ exec' = [exec EXCEPT ![t] = "none"] /\ slots' = slots \ {t}
        \/ \E p \in Resuming \cup {"rDead"} : exec' = [exec EXCEPT ![t] = p] /\ slots' = slots
    BY <1>6 DEF ResumeStart, ResumeAdmit, ResumeResult, ResumeSettle, ResumeCancelled,
                ResumeInterrupt, Resuming, Admitted
  <2>3. Local(t)
    BY <1>1, <1>2, <2>1, <2>2 DEF Local, Resuming, Admitted
  <2>4. /\ exec'[t] = "none" => stopping \/ Ended(status'[t])
        /\ exec'[t] = "rDead" => Ended(status'[t])
    <3>1. CASE ResumeStart(t) \/ ResumeAdmit(t) \/ ResumeResult(t)
      BY <1>1, <3>1 DEF ResumeStart, ResumeAdmit, ResumeResult
    <3>2. CASE ResumeSettle(t) \/ ResumeCancelled(t)
      <4>1. ~Unstarted(status[t])
        BY <1>1, <2>1
      <4> QED
        BY <3>2, <4>1, WritesSettle DEF ResumeSettle, ResumeCancelled
    <3>3. CASE ResumeInterrupt(t)
      BY <1>1, <3>3 DEF ResumeInterrupt, storeVars, rowVars
    <3> QED
      BY <1>6, <3>1, <3>2, <3>3
  <2>5. exec'[t] \in {"none", "rDead"} \cup Resuming
    BY <1>1, <2>2
  <2>6. HandsOver(t)
    BY <1>1, <2>1, <2>4, <2>5 DEF HandsOver, Live, Resuming, Admitted, Done, Ended
  <2> QED
    BY <2>3, <2>6
<1> QED
  BY <1>4, <1>5, <1>6

LEMMA AsyncIsLocal ==
    ASSUME TypeInv, SoleInv, OwnerInv, NEW t \in Task, AsyncTask(t)
    PROVE  Local(t) /\ HandsOver(t)
<1>1. ASSUME NEW w \in Outcome, ShieldedWrite(t, w)
      PROVE  Local(t) /\ HandsOver(t)
  <2>1. UNCHANGED <<loopVars, exec, slots, sig, resumeQ>>
    BY <1>1 DEF ShieldedWrite, orphanVars
  <2> QED
    BY <2>1 DEF Local, HandsOver, SoleInv, OnePlace
<1> QED
  BY <1>1, ProcessIsLocal, ResumeIsLocal DEF AsyncTask

LEMMA SoleAsync ==
    ASSUME TypeInv, SoleInv, Forward, NEW t \in Task, Local(t)
    PROVE  SoleInv'
<1>1. ScanPhases'
  BY DEF SoleInv, ScanPhases, Local, loopVars
<1>2. ASSUME NEW x \in Task
      PROVE  OnePlace(x)'
  <2>1. OnePlace(x) /\ OnePlace(t)
    BY DEF SoleInv
  <2>2. UNCHANGED <<loop, cur, orphanRead>> /\ (Unstarted(status'[x]) => Unstarted(status[x]))
    BY DEF Local, loopVars, Forward
  <2>3. CASE x # t
    BY <2>1, <2>2, <2>3 DEF OnePlace, Local
  <2>4. CASE x = t
    BY <2>1, <2>2, <2>4 DEF OnePlace, Local
  <2> QED
    BY <2>3, <2>4
<1> QED
  BY <1>1, <1>2 DEF SoleInv

LEMMA OwnerAsync ==
    ASSUME TypeInv, OwnerInv, Forward, NEW t \in Task, Local(t), HandsOver(t)
    PROVE  OwnerInv'
<1> SUFFICES ASSUME NEW x \in Task
             PROVE  /\ x \in signals' \cup sig' => Ended(status'[x])
                    /\ exec'[x] \in Done \cup {"rDead"} => Ended(status'[x])
                    /\ status'[x] = "running" =>
                          \/ exec'[x] \in Live \/ cur' = x \/ x \in resumeQ'
                          \/ orphanRead'[x] = "running" \/ stopping'
                          \/ ~handled' /\ loop' \notin {"filter", "orphans"}
  BY DEF OwnerInv
<1>1. UNCHANGED <<loop, cur, orphanRead, handled, stopping>> /\ sig' \subseteq sig
  BY DEF Local, loopVars
<1>2. Ended(status[x]) => Ended(status'[x])
  BY DEF Forward, Unstarted, Ended
<1>3. x \in signals' \cup sig' => Ended(status'[x])
  BY <1>1, <1>2 DEF OwnerInv, Forward
<1>4. exec'[x] \in Done \cup {"rDead"} => Ended(status'[x])
  BY <1>2 DEF OwnerInv, Local, HandsOver
<1>5. status'[x] = "running" =>
          \/ exec'[x] \in Live \/ cur' = x \/ x \in resumeQ'
          \/ orphanRead'[x] = "running" \/ stopping'
          \/ ~handled' /\ loop' \notin {"filter", "orphans"}
  BY <1>1 DEF OwnerInv, Forward, Local, HandsOver
<1> QED
  BY <1>3, <1>4, <1>5

\* Steps that change no hand-over: the clients and the settling of drained rows.
LEMMA OwnersUndisturbed ==
    ASSUME TypeInv, SoleInv, OwnerInv, Forward,
           UNCHANGED <<loop, cur, orphanRead, handled, stopping, exec, slots, resumeQ>>,
           \A x \in sig' : x \in sig \/ Ended(status'[x])
    PROVE  SoleInv' /\ OwnerInv'
<1>1. SoleInv'
  BY DEF SoleInv, ScanPhases, OnePlace, Forward
<1>2. \A x \in Task : Ended(status[x]) => Ended(status'[x])
  BY DEF Forward, Unstarted, Ended
<1>3. OwnerInv'
  BY <1>2 DEF OwnerInv, Forward
<1> QED
  BY <1>1, <1>3

LEMMA RowsKept ==
    ASSUME UNCHANGED rowVars, signals' \subseteq signals
    PROVE  Forward /\ status' = status
BY DEF rowVars, Forward

LEMMA OwnersScan ==
    ASSUME TypeInv, SoleInv, OwnerInv,
           Drain \/ EndDrain \/ ListOrphans \/ SkipOwnTasks \/ EndOrphans \/ NothingToClaim
           \/ LeaseRegained \/ ClaimNext \/ Stop
    PROVE  SoleInv' /\ OwnerInv'
<1>1. status' = status /\ signals' = signals
  BY DEF Drain, EndDrain, ListOrphans, SkipOwnTasks, EndOrphans, NothingToClaim, LeaseRegained,
         ClaimNext, ClaimSelect, Stop, storeVars, rowVars, sessionVars
<1>2. resumeQ' = resumeQ /\ cur' = cur /\ sig' = sig
  BY DEF Drain, EndDrain, ListOrphans, SkipOwnTasks, EndOrphans, NothingToClaim, LeaseRegained,
         ClaimNext, Stop, workerVars, taskVars, orphanVars, loopVars
<1>3. /\ exec \in [Task -> Phase] /\ slots \subseteq Task
      /\ orphanRead \in [Task -> {"none", "running", "cancelling"}]
      /\ resumeQ \subseteq Task
      /\ loop \in {"top", "drain", "scan", "filter", "orphans", "claim", "claimed"}
  BY DEF TypeInv, WorkerTypeOK
<1>4. CASE Drain
  <2>1. /\ loop = "top" /\ loop' = "drain" /\ handled' = handled /\ stopping' = stopping
        /\ orphanRead' = orphanRead
    BY <1>4 DEF Drain
  <2>2. \A x \in Task : \/ exec'[x] = exec[x] /\ (x \in slots' <=> x \in slots)
                        \/ /\ exec[x] \in Done /\ x \in slots
                           /\ exec'[x] = "none" /\ x \notin slots'
    BY <1>4 DEF Drain
  <2>3. SoleInv'
    BY <1>1, <1>2, <2>1, <2>2 DEF SoleInv, ScanPhases, OnePlace
  <2>4. OwnerInv'
    BY <1>1, <1>2, <2>1, <2>2 DEF OwnerInv, Done, Ended
  <2> QED
    BY <2>3, <2>4
<1>5. CASE EndDrain \/ NothingToClaim
  <2>1. UNCHANGED <<exec, slots, orphanRead, handled, stopping>>
    BY <1>5 DEF EndDrain, NothingToClaim, taskVars
  <2>2. \/ loop = "drain" /\ loop' = "claim" /\ handled
        \/ loop = "drain" /\ loop' = "scan" /\ ~handled
        \/ loop = "claim" /\ loop' = "top"
    BY <1>5 DEF EndDrain, NothingToClaim
  <2>3. SoleInv'
    BY <1>1, <1>2, <2>1, <2>2 DEF SoleInv, ScanPhases, OnePlace
  <2>4. OwnerInv'
    BY <1>1, <1>2, <2>1, <2>2 DEF OwnerInv
  <2> QED
    BY <2>3, <2>4
<1>6. CASE ListOrphans
  <2>1. UNCHANGED <<exec, slots, handled, stopping>> /\ loop = "scan" /\ loop' = "filter"
    BY <1>6 DEF ListOrphans, taskVars
  <2>2. \A x \in Task : /\ orphanRead'[x] # "none" => ~Unstarted(status[x])
                        /\ status[x] = "running" => orphanRead'[x] = "running"
    BY <1>6 DEF ListOrphans, Unstarted
  <2>3. SoleInv'
    BY <1>1, <1>2, <2>1, <2>2 DEF SoleInv, ScanPhases, OnePlace
  <2>4. OwnerInv'
    BY <1>1, <1>2, <2>1, <2>2 DEF OwnerInv
  <2> QED
    BY <2>3, <2>4
<1>7. CASE SkipOwnTasks
  <2>1. UNCHANGED <<exec, slots, handled, stopping>> /\ loop = "filter" /\ loop' = "orphans"
    BY <1>7 DEF SkipOwnTasks, taskVars
  <2>2. \A x \in Task : orphanRead'[x] = IF x \in slots THEN "none" ELSE orphanRead[x]
    BY <1>7 DEF SkipOwnTasks
  <2>3. SoleInv'
    BY <1>1, <1>2, <2>1, <2>2 DEF SoleInv, ScanPhases, OnePlace
  <2>4. \A x \in slots : status[x] = "running" => exec[x] \in Live
    <3> SUFFICES ASSUME NEW x \in slots, status[x] = "running"
                 PROVE  exec[x] \in Live
      OBVIOUS
    <3>1. x \in Task /\ exec[x] \in Phase /\ exec[x] # "none" /\ exec[x] \notin Done \cup {"rDead"}
      BY <1>3 DEF SoleInv, OnePlace, OwnerInv, Ended
    <3> QED
      BY <3>1 DEF Phase, Live
  <2>5. OwnerInv'
    BY <1>1, <1>2, <2>1, <2>2, <2>4 DEF OwnerInv
  <2> QED
    BY <2>3, <2>5
<1>8. CASE EndOrphans
  <2>1. /\ UNCHANGED <<exec, slots, orphanRead, stopping>> /\ handled'
        /\ loop = "orphans" /\ loop' = "claim" /\ \A x \in Task : orphanRead[x] = "none"
    BY <1>8 DEF EndOrphans, taskVars
  <2>2. SoleInv'
    BY <1>1, <1>2, <2>1 DEF SoleInv, ScanPhases, OnePlace
  <2>3. OwnerInv'
    BY <1>1, <1>2, <2>1 DEF OwnerInv
  <2> QED
    BY <2>2, <2>3
<1>9. CASE LeaseRegained
  <2>1. /\ UNCHANGED <<exec, slots, orphanRead, stopping, loop>> /\ ~handled'
        /\ loop = "drain" /\ resumeQ = {}
    BY <1>9 DEF LeaseRegained, taskVars
  <2>2. SoleInv'
    BY <1>1, <1>2, <2>1 DEF SoleInv, ScanPhases, OnePlace
  <2>3. OwnerInv'
    BY <1>1, <1>2, <2>1 DEF OwnerInv
  <2> QED
    BY <2>2, <2>3
<1>10. CASE ClaimNext
  <2>1. UNCHANGED <<exec, slots, orphanRead, handled, stopping, loop>>
    BY <1>10 DEF ClaimNext, workerVars, taskVars, loopVars
  <2>2. SoleInv'
    BY <1>1, <1>2, <2>1 DEF SoleInv, ScanPhases, OnePlace
  <2>3. OwnerInv'
    BY <1>1, <1>2, <2>1 DEF OwnerInv
  <2> QED
    BY <2>2, <2>3
<1>11. CASE Stop
  <2>1. UNCHANGED <<exec, slots, orphanRead, handled, loop>> /\ stopping'
    BY <1>11 DEF Stop, taskVars
  <2>2. SoleInv'
    BY <1>1, <1>2, <2>1 DEF SoleInv, ScanPhases, OnePlace
  <2>3. OwnerInv'
    BY <1>1, <1>2, <2>1 DEF OwnerInv
  <2> QED
    BY <2>2, <2>3
<1> QED
  BY <1>4, <1>5, <1>6, <1>7, <1>8, <1>9, <1>10, <1>11

LEMMA OwnersClaim ==
    ASSUME TypeInv, PaidInv, SoleInv, OwnerInv,
           Claim \/ ClaimedUnsupported \/ ClaimedNoRoom \/ Dispatch
    PROVE  SoleInv' /\ OwnerInv'
<1>1. /\ exec \in [Task -> Phase] /\ slots \subseteq Task /\ resumeQ \subseteq Task
      /\ status \in [Task -> Status \cup {"absent"}]
      /\ NULL \notin Task
      /\ loop = "claimed" <=> cur # NULL
      /\ cur \in Task \cup {NULL}
      /\ cur \in Task => ~Unstarted(status[cur])
  BY TaskStoreAssumption
  DEF TypeInv, WorkerTypeOK, StoreTypeOK, PaidInv, Unstarted, TaskStoreAssumption
<1>2. resumeQ' = resumeQ /\ sig' = sig /\ orphanRead' = orphanRead
  BY DEF Claim, ClaimedUnsupported, ClaimedNoRoom, Dispatch, taskVars, orphanVars
<1>3. handled' = handled /\ stopping' = stopping /\ handled
  BY DEF Claim, ClaimedUnsupported, ClaimedNoRoom, Dispatch, SoleInv, ScanPhases
<1>4. CASE Claim
  <2>1. UNCHANGED <<exec, slots>> /\ loop = "claim" /\ cur = NULL /\ signals' = signals
    BY <1>1, <1>4 DEF Claim, ClaimUpdate, taskVars
  <2>2. CASE status[claimRead] = "queued"
    <3>1. /\ claimRead \in Task /\ cur' = claimRead /\ loop' = "claimed"
          /\ \A x \in Task : status'[x] = IF x = claimRead THEN "running" ELSE status[x]
      BY <1>4, <2>2 DEF Claim, ClaimUpdate, SetStatus, TypeInv, StoreTypeOK
    <3>2. SoleInv'
      BY <1>2, <1>3, <2>1, <2>2, <3>1 DEF SoleInv, ScanPhases, OnePlace, Unstarted
    <3>3. OwnerInv'
      BY <1>1, <1>2, <1>3, <2>1, <2>2, <3>1 DEF OwnerInv, Ended
    <3> QED
      BY <3>2, <3>3
  <2>3. CASE status[claimRead] # "queued"
    <3>1. cur' = cur /\ loop' = "top" /\ status' = status
      BY <1>4, <2>3 DEF Claim, ClaimUpdate
    <3>2. SoleInv'
      BY <1>2, <1>3, <2>1, <3>1 DEF SoleInv, ScanPhases, OnePlace
    <3>3. OwnerInv'
      BY <1>2, <1>3, <2>1, <3>1 DEF OwnerInv
    <3> QED
      BY <3>2, <3>3
  <2> QED
    BY <2>2, <2>3
<1>5. CASE ClaimedUnsupported
  <2>1. /\ UNCHANGED <<exec, slots>> /\ loop = "claimed" /\ loop' = "claim"
        /\ cur \in Task /\ cur' = NULL /\ TryFail(cur)
    BY <1>1, <1>5 DEF ClaimedUnsupported, taskVars
  <2>2. Forward /\ status'[cur] # "running"
    BY <2>1, ForwardWrites, WritesSettle
  <2>3. \A x \in Task : Ended(status[x]) => Ended(status'[x])
    BY <2>2 DEF Forward, Unstarted, Ended
  <2>4. SoleInv'
    BY <1>1, <1>2, <1>3, <2>1, <2>2 DEF SoleInv, ScanPhases, OnePlace, Forward
  <2>5. OwnerInv'
    BY <1>1, <1>2, <1>3, <2>1, <2>2, <2>3 DEF OwnerInv, Forward
  <2> QED
    BY <2>4, <2>5
<1>6. CASE ClaimedNoRoom
  <2>1. /\ UNCHANGED <<exec, slots>> /\ loop = "claimed" /\ loop' = "top"
        /\ cur \in Task /\ cur' = NULL
    BY <1>1, <1>6 DEF ClaimedNoRoom, taskVars
  <2>2. /\ signals' = signals
        /\ \/ status[cur] # "running" /\ status' = status
           \/ status[cur] = "running" /\ status' = [status EXCEPT ![cur] = "queued"]
    BY <1>6 DEF ClaimedNoRoom, RequeueSingle, storeVars, rowVars, sessionVars
  <2>3. SoleInv'
    BY <1>1, <1>2, <1>3, <2>1, <2>2 DEF SoleInv, ScanPhases, OnePlace, Unstarted
  <2>4. OwnerInv'
    BY <1>1, <1>2, <1>3, <2>1, <2>2 DEF OwnerInv, Ended, Done
  <2> QED
    BY <2>3, <2>4
<1>7. CASE Dispatch
  <2>1. /\ exec' = [exec EXCEPT ![cur] = "created"] /\ slots' = slots \cup {cur}
        /\ loop = "claimed" /\ loop' = "claim" /\ cur \in Task /\ cur' = NULL
        /\ status' = status /\ signals' = signals
    BY <1>1, <1>7 DEF Dispatch, Go, storeVars, rowVars, sessionVars
  <2>2. SoleInv'
    BY <1>1, <1>2, <1>3, <2>1 DEF SoleInv, ScanPhases, OnePlace
  <2>3. OwnerInv'
    BY <1>1, <1>2, <1>3, <2>1 DEF OwnerInv, Live, Done
  <2> QED
    BY <2>2, <2>3
<1> QED
  BY <1>4, <1>5, <1>6, <1>7

LEMMA OwnersOrphan ==
    ASSUME TypeInv, SoleInv, OwnerInv, NEW t \in Task, HandleOrphan(t)
    PROVE  SoleInv' /\ OwnerInv'
<1>1. /\ UNCHANGED <<exec, slots, sig, loop, cur, handled, stopping>>
      /\ loop = "orphans" /\ orphanRead[t] # "none"
      /\ cur = NULL /\ NULL \notin Task
  BY TaskStoreAssumption DEF HandleOrphan, TypeInv, WorkerTypeOK, TaskStoreAssumption
<1>2. \A x \in Task : orphanRead'[x] = IF x = t THEN "none" ELSE orphanRead[x]
  BY DEF HandleOrphan, TypeInv, WorkerTypeOK
<1>3. CASE resumeQ' = resumeQ /\ (TryCancel(t) \/ FailOrCancel(t))
  <2>1. Forward /\ status'[t] # "running"
    BY <1>3, ForwardWrites, WritesSettle
  <2>2. \A x \in Task : Ended(status[x]) => Ended(status'[x])
    BY <2>1 DEF Forward, Unstarted, Ended
  <2>3. SoleInv'
    BY <1>1, <1>2, <1>3, <2>1 DEF SoleInv, ScanPhases, OnePlace, Forward
  <2>4. OwnerInv'
    BY <1>1, <1>2, <1>3, <2>1, <2>2 DEF OwnerInv, Forward
  <2> QED
    BY <2>3, <2>4
<1>4. CASE resumeQ' = resumeQ \cup {t} /\ UNCHANGED storeVars
  <2>1. status' = status /\ signals' = signals
    BY <1>4 DEF storeVars, rowVars, sessionVars
  <2>2. SoleInv'
    BY <1>1, <1>2, <1>4, <2>1 DEF SoleInv, ScanPhases, OnePlace
  <2>3. OwnerInv'
    BY <1>1, <1>2, <1>4, <2>1 DEF OwnerInv
  <2> QED
    BY <2>2, <2>3
<1> QED
  BY <1>3, <1>4 DEF HandleOrphan, orphanVars

LEMMA OwnersReboot ==
    ASSUME SoleInv, OwnerInv, Crash \/ Shutdown
    PROVE  SoleInv' /\ OwnerInv'
<1>1. Reboot
  BY DEF Crash, Shutdown
<1>2. /\ loop' = "top" /\ cur' = NULL /\ slots' = {} /\ sig' = {} /\ resumeQ' = {}
      /\ ~handled' /\ signals' = {}
      /\ \A x \in Task : exec'[x] = "none" /\ orphanRead'[x] = "none"
      /\ NULL \notin Task
  BY <1>1, TaskStoreAssumption DEF Reboot, SessionsLost, TaskStoreAssumption
<1>3. SoleInv'
  BY <1>2 DEF SoleInv, ScanPhases, OnePlace
<1>4. OwnerInv'
  BY <1>2 DEF OwnerInv, Done
<1> QED
  BY <1>3, <1>4

LEMMA OwnersStep ==
    ASSUME TypeInv, PaidInv, SoleInv, OwnerInv, [Next]_vars
    PROVE  SoleInv' /\ OwnerInv'
<1>1. CASE Client
  BY <1>1, ForwardClient, OwnersUndisturbed DEF Client, workerVars, loopVars, taskVars, orphanVars
<1>2. CASE Drain \/ EndDrain \/ ListOrphans \/ SkipOwnTasks \/ EndOrphans \/ NothingToClaim
           \/ LeaseRegained \/ ClaimNext \/ Stop
  BY <1>2, OwnersScan
<1>3. CASE Claim \/ ClaimedUnsupported \/ ClaimedNoRoom \/ Dispatch
  BY <1>3, OwnersClaim
<1>4. ASSUME NEW t \in Task, DrainCancelled(t)
      PROVE  SoleInv' /\ OwnerInv'
  BY <1>4, ForwardWrites, OwnersUndisturbed DEF DrainCancelled, taskVars, orphanVars
<1>5. ASSUME NEW t \in Task, HandleOrphan(t)
      PROVE  SoleInv' /\ OwnerInv'
  BY <1>5, OwnersOrphan
<1>6. ASSUME NEW t \in Task, RequestCancel(t)
      PROVE  SoleInv' /\ OwnerInv'
  <2>1. Forward /\ status' = status
    BY <1>6, RowsKept DEF RequestCancel, SignalSent
  <2>2. \A x \in sig' : x \in sig \/ Ended(status'[x])
    BY <1>6, <2>1 DEF RequestCancel, SignalSent, OwnerInv
  <2> QED
    BY <1>6, <2>1, <2>2, OwnersUndisturbed DEF RequestCancel, loopVars, orphanVars
<1>7. ASSUME NEW t \in Task, AsyncTask(t)
      PROVE  SoleInv' /\ OwnerInv'
  BY <1>7, ForwardAsync, AsyncIsLocal, SoleAsync, OwnerAsync
<1>8. CASE Crash \/ Shutdown
  BY <1>8, OwnersReboot
<1>9. CASE UNCHANGED vars
  <2>1. UNCHANGED rowVars /\ UNCHANGED signals
    BY <1>9 DEF vars, storeVars, sessionVars
  <2>2. Forward
    BY <2>1, RowsKept
  <2> QED
    BY <1>9, <2>2, OwnersUndisturbed DEF vars, workerVars, loopVars, taskVars, orphanVars
<1> QED
  BY <1>1, <1>2, <1>3, <1>4, <1>5, <1>6, <1>7, <1>8, <1>9 DEF Next, Loop

LEMMA OwnersHold == Spec => [](TypeInv /\ PaidInv /\ SoleInv /\ OwnerInv)
<1>1. Init => PaidInv /\ SoleInv /\ OwnerInv
  BY TaskStoreAssumption
  DEF Init, StoreInit, WorkerInit, PaidInv, HasResult, Before, Resuming, Admitted, SoleInv,
      ScanPhases, OnePlace, OwnerInv, Done, TaskStoreAssumption
<1>2. TypeInv /\ PaidInv /\ SoleInv /\ OwnerInv /\ [Next]_vars => PaidInv' /\ SoleInv' /\ OwnerInv'
  BY PaidStep, OwnersStep
<1> QED
  BY <1>1, <1>2, WorkerTypeCorrect, PTL DEF Spec

\* A row about to get a coroutine, from the claim or from the resume queue, has
\* none and no slot: through crashes, lost leases and second orphan scans no two
\* coroutines of one process ever work on the same row.
THEOREM OneCoroutinePerRow == Spec => []SoleExecutor
<1>1. SoleInv => SoleExecutor
  BY DEF SoleInv, OnePlace, SoleExecutor
<1> QED
  BY <1>1, OwnersHold, PTL

\* A running row is never forgotten: whatever crashes, cancels and lost leases
\* happen, somebody is left who will settle it or a scan is still to come.
THEOREM RunningIsOwned == Spec => []RunningHasOwner
<1>1. OwnerInv => RunningHasOwner
  BY DEF OwnerInv, RunningHasOwner
<1> QED
  BY <1>1, OwnersHold, PTL

-----------------------------------------------------------------------------
(* The pools.  What bounds the provider's calls is not one count.  A claim     *)
(* dispatches only into a free slot, a resume takes one without a look, so     *)
(* either no more rows hold slots than the pool has, or all that do are        *)
(* resumed rows of one scan, behind its semaphore.  Two scans in one process   *)
(* would break this; the second resumes only rows that are settled by then,    *)
(* because a running row keeps its slot and a row is signalled only once.      *)

\* Phases of a coroutine of _process_task, and those into which only a cancel
\* signal leads.
Process == {"created"} \cup Working \cup Settling \cup Done
Told == {"settleCancel", "doneCancelled", "rQuit", "rExit", "rDead"}

\* A row is signalled once: an open cancel that has read it running is the only
\* one that can make it cancelling, and a signal that was thrown in is gone.
CancelReadInv == \A t \in Task : cancelRead[t] = "running" => status[t] # "cancelling"
SignalInv ==
    \A t \in Task : /\ t \in sig => t \notin signals
                    /\ exec[t] \in Told => t \notin signals \cup sig /\ Ended(status[t])

\* The rows that count against the pool of Resumable: those with a slot, or
\* about to get one, except resumed rows that were settled before.
Busy == {t \in Resumable : /\ t \in slots \/ (t \in resumeQ /\ ~stopping)
                           /\ status[t] \notin Terminal \/ exec[t] \in Process}
OneBatch(b) == \A x \in Busy : exec[x] \notin Process /\ batch[x] = b
BusyInv == Cardinality(Busy) <= Capacity \/ \E b \in Nat : OneBatch(b)

\* The semaphore of a batch, and the pool of the rows that cannot be resumed.
Polling(b) == {x \in Resumable : batch[x] = b /\ exec[x] \in Admitted}
SemaphoreInv == \A b \in Nat : Cardinality(Polling(b)) <= Capacity
OtherPoolInv ==
    /\ Cardinality(slots \ Resumable) <= Capacity
    /\ resumeQ \subseteq Resumable
    /\ \A t \in Task : exec[t] \in Resuming => t \in Resumable

\* A scan that finds an open row without a slot finds no slot taken at all (it is
\* the first of its process), so that all its rows share one semaphore.
StrayOrphan(t) == /\ t \notin slots \cup resumeQ
                  /\ orphanRead[t] = "running" /\ status[t] \notin Terminal
FreshScan ==
    loop \in {"filter", "orphans"} /\ ~stopping /\ (\E t \in Task : StrayOrphan(t))
        => slots = {} /\ \A x \in resumeQ : batch[x] = flaps
BeforeScan ==
    ~handled /\ loop \in {"top", "drain", "scan"} /\ ~stopping /\ slots # {}
        => \A t \in Task : status[t] = "running" => t \in slots
ClaimPhases ==
    /\ claimRead # NULL => loop = "claim" /\ resumeQ = {}
    /\ loop = "claimed" => resumeQ = {}

PoolInv == /\ CancelReadInv /\ SignalInv /\ BusyInv /\ SemaphoreInv /\ OtherPoolInv
           /\ FreshScan /\ BeforeScan /\ ClaimPhases

\* No cascade reaches a running row, whose dependency has succeeded.
LEMMA NoRowHit ==
    ASSUME StoreTypeOK, RunsAfterDependency, NEW t \in Task, status[t] \in Active,
           CancelWithCascade(t, "user")
    PROVE  signals' = signals /\ \A x \in Task : status'[x] = "cancelling" => status[x] = "cancelling"
<1> DEFINE below == QueuedBelow(t) \ {t}
           gone == below \cup {t}
           hit == {d \in Task \ gone : status[d] = "running" /\ dep[d] \in gone}
<1>1. \A d \in gone : status[d] # "succeeded" /\ d # NULL
  BY QueuedBelowQueued, TaskStoreAssumption DEF TaskStoreAssumption, Active
<1>2. \A d \in Task : status[d] = "running" => dep[d] \notin gone
  <2> HIDE DEF gone
  <2> QED
    BY <1>1 DEF RunsAfterDependency
<1>3. hit = {}
  BY <1>2
<1>4. signals' = signals \cup hit
  BY DEF CancelWithCascade
<1>5. \A x \in Task : x \notin hit /\ status'[x] = "cancelling" => status[x] = "cancelling"
  BY DEF CancelWithCascade
<1> QED
  BY <1>3, <1>4, <1>5

\* What a transaction does to the cancels: none is signalled but of a row that
\* was running.
SignalsOnce ==
    \A x \in Task : x \in signals' => x \in signals \/ ~Ended(status[x])

LEMMA CancelReadStep ==
    ASSUME StoreTypeOK, RunsAfterDependency, CancelReadInv, [StoreNext]_storeVars
    PROVE  CancelReadInv' /\ SignalsOnce
<1> USE DEF CancelReadInv, SignalsOnce, StoreTypeOK, Ended
<1>1. ASSUME NEW t \in Task, status[t] \in Active, CancelWithCascade(t, "user"),
             \A x \in Task : cancelRead'[x] = "running" => cancelRead[x] = "running"
      PROVE  CancelReadInv' /\ SignalsOnce
  BY <1>1, NoRowHit
<1>2. ASSUME NEW t \in Task, NEW d \in Task \cup {NULL}, NEW k \in Key, Enqueue(t, d, k)
      PROVE  CancelReadInv' /\ SignalsOnce
  BY <1>2 DEF Enqueue, SetStatus, sessionVars
<1>3. ASSUME NEW lane \in SUBSET Task, ClaimSelect(lane)
      PROVE  CancelReadInv' /\ SignalsOnce
  BY <1>3 DEF ClaimSelect, rowVars
<1>4. CASE ClaimUpdate
  BY <1>4 DEF ClaimUpdate, SetStatus
<1>5. CASE CancelAllSelect \/ SessionsLost
  BY <1>5 DEF CancelAllSelect, SessionsLost, rowVars
<1>6. CASE CancelAllUpdate
  BY <1>6 DEF CancelAllUpdate
<1>7. CASE RequeueRunning
  BY <1>7 DEF RequeueRunning, SetStatus, sessionVars
<1>8. ASSUME NEW t \in Task, MarkSucceeded(t) \/ MarkFailed(t) \/ RequeueSingle(t)
      PROVE  CancelReadInv' /\ SignalsOnce
  BY <1>8 DEF MarkSucceeded, MarkFailed, RequeueSingle, SetStatus, sessionVars
<1>9. ASSUME NEW t \in Task, FinalizeCancelled(t)
      PROVE  CancelReadInv' /\ SignalsOnce
  BY <1>1, <1>9 DEF FinalizeCancelled
<1>10. ASSUME NEW t \in Task, CancelSelect(t)
       PROVE  CancelReadInv' /\ SignalsOnce
  BY <1>10 DEF CancelSelect, rowVars
<1>11. ASSUME NEW t \in Task, CancelQueuedUpdate(t)
       PROVE  CancelReadInv' /\ SignalsOnce
  <2>1. \A x \in Task : cancelRead'[x] = "running" => cancelRead[x] = "running"
    BY <1>11 DEF CancelQueuedUpdate
  <2>2. CASE status[t] \in Active
    BY <1>1, <1>11, <2>1, <2>2 DEF CancelQueuedUpdate
  <2>3. CASE status[t] \notin Active
    BY <1>11, <2>1, <2>3 DEF CancelQueuedUpdate
  <2> QED
    BY <2>2, <2>3
<1>12. ASSUME NEW t \in Task, CancelRunningUpdate(t)
       PROVE  CancelReadInv' /\ SignalsOnce
  BY <1>12 DEF CancelRunningUpdate, SetStatus
<1>13. ASSUME NEW t \in Task, SignalSent(t)
       PROVE  CancelReadInv' /\ SignalsOnce
  BY <1>13 DEF SignalSent, rowVars
<1>14. CASE UNCHANGED storeVars
  BY <1>14 DEF storeVars, rowVars, sessionVars
<1> QED
  BY <1>2, <1>3, <1>4, <1>5, <1>6, <1>7, <1>8, <1>9, <1>10, <1>11, <1>12, <1>13, <1>14
  DEF StoreNext

\* A row that is settled stays so, and one that has ended does not come back.
TerminalStays == \A x \in Task : /\ status[x] \in Terminal => status'[x] \in Terminal
                                 /\ Ended(status[x]) => Ended(status'[x])

LEMMA TerminalStep ==
    ASSUME StoreTypeOK, [StoreNext]_storeVars
    PROVE  TerminalStays
<1>1. CASE Inserts
  BY <1>1 DEF Inserts, Enqueue, SetStatus, TerminalStays, Ended, StoreTypeOK, Terminal
<1>2. CASE ~Inserts
  <2>1. RowsMove
    BY <1>2, StepMovesRows
  <2> QED
    BY <2>1 DEF RowsMove, NextStatus, TerminalStays, Ended, Terminal
<1> QED
  BY <1>1, <1>2

\* What a step of one coroutine or of the dispatcher means to the pool: slots
\* are taken only for rows of the resume queue and left only for good, and a
\* signal that was thrown in is gone.
InPool(t) ==
    /\ exec'[t] \in Process => exec[t] \in Process
    /\ t \in slots' => t \in slots \/ (t \in resumeQ /\ ~stopping)
    /\ t \in slots \ slots' => stopping \/ status'[t] \in Terminal
    /\ exec'[t] \in Admitted => exec[t] \in Admitted \/ Cardinality(Polling(batch[t])) < Capacity
    /\ exec'[t] \in Resuming => exec[t] \in Resuming \/ t \in resumeQ
    /\ exec'[t] \in Told => exec[t] \in Told \/ (t \in sig \ sig')
    /\ batch' = batch /\ flaps' = flaps /\ claimRead' = claimRead

LEMMA ProcessInPool ==
    ASSUME TypeInv, SoleInv, OwnerInv, NEW t \in Task,
           \/ Begin(t) \/ Submit(t) \/ PersistJobId(t) \/ Return(t) \/ Fail(t)
           \/ SettleOk(t) \/ SettleErr(t) \/ SettleCancelled(t) \/ Interrupt(t)
    PROVE  InPool(t)
<1>1. exec \in [Task -> Phase] /\ (exec[t] = "none" <=> t \notin slots)
  BY DEF TypeInv, WorkerTypeOK, SoleInv, OnePlace
<1>2. slots' = slots /\ batch' = batch /\ flaps' = flaps
  BY DEF Begin, Submit, PersistJobId, Return, Fail, SettleOk, SettleErr, SettleCancelled,
         Interrupt, orphanVars, envVars
<1>3. /\ exec[t] \in Process
      /\ exec'[t] \in Process
  BY <1>1 DEF Begin, Submit, PersistJobId, Return, Fail, SettleOk, SettleErr, SettleCancelled,
              Interrupt, Go, Working, Settling, Done, Process
<1>4. exec'[t] \in Told => exec[t] \in Told \/ t \in sig \ sig'
  BY <1>1 DEF Begin, Submit, PersistJobId, Return, Fail, SettleOk, SettleErr, SettleCancelled,
              Interrupt, Go, Working, Settling, Done, Told
<1>5. claimRead' = claimRead
  BY DEF Begin, Submit, PersistJobId, Return, Fail, SettleOk, SettleErr, SettleCancelled, Interrupt,
         TrySucceed, TryFail, TryCancel, MarkSucceeded, MarkFailed, FinalizeCancelled,
         storeVars, sessionVars
<1> QED
  BY <1>2, <1>3, <1>4, <1>5 DEF InPool, Process, Working, Settling, Done, Resuming, Admitted

\* A write that finds its row open settles it, and a settled row stays settled.
LEMMA CancelSettles ==
    ASSUME TypeInv, NEW t \in Task, TryCancel(t), ~Unstarted(status[t])
    PROVE  status'[t] \in Terminal
<1> USE DEF TypeInv, StoreTypeOK, Status, Active, Terminal, Unstarted
<1>1. CASE FinalizeCancelled(t)
  BY <1>1 DEF FinalizeCancelled, CancelWithCascade
<1>2. CASE status[t] \notin Active /\ UNCHANGED storeVars
  BY <1>2 DEF storeVars, rowVars
<1> QED
  BY <1>1, <1>2 DEF TryCancel

LEMMA ResumeInPool ==
    ASSUME TypeInv, SoleInv, OwnerInv, SignalInv, OtherPoolInv, NEW t \in Task,
           \/ ResumeDispatch(t) \/ ResumeUnsupported(t) \/ ResumeStart(t) \/ ResumeAdmit(t)
           \/ ResumeResult(t) \/ ResumeSettle(t) \/ ResumeCancelled(t) \/ ResumeInterrupt(t)
    PROVE  InPool(t)
<1> USE DEF Go, LeaveSlot
<1>1. /\ exec \in [Task -> Phase] /\ slots \subseteq Task
      /\ exec[t] = "none" <=> t \notin slots
      /\ t \in slots => ~Unstarted(status[t])
      /\ exec[t] \in Told => t \notin sig
      /\ sig \subseteq Task
  BY DEF TypeInv, WorkerTypeOK, SoleInv, OnePlace, SignalInv
<1>2. batch' = batch /\ flaps' = flaps
  BY DEF ResumeDispatch, ResumeUnsupported, ResumeStart, ResumeAdmit, ResumeResult, ResumeSettle,
         ResumeCancelled, ResumeInterrupt, orphanVars, envVars
<1>3. claimRead' = claimRead
  BY DEF ResumeDispatch, ResumeUnsupported, ResumeStart, ResumeAdmit, ResumeResult, ResumeSettle,
         ResumeCancelled, ResumeInterrupt, FailOrCancel,
         TrySucceed, TryFail, TryCancel, MarkSucceeded, MarkFailed, FinalizeCancelled,
         storeVars, sessionVars
<1>4. CASE ResumeDispatch(t)
  <2>1. /\ t \in resumeQ
        /\ \/ stopping /\ exec' = exec /\ slots' = slots
           \/ ~stopping /\ exec' = [exec EXCEPT ![t] = "rNew"] /\ slots' = slots \cup {t}
    BY <1>4 DEF ResumeDispatch
  <2> QED
    BY <1>1, <1>2, <1>3, <2>1
    DEF InPool, Process, Working, Settling, Done, Resuming, Admitted, Told
<1>5. CASE ResumeUnsupported(t)
  <2>1. exec' = exec /\ slots' = slots
    BY <1>5 DEF ResumeUnsupported
  <2> QED
    BY <1>2, <1>3, <2>1 DEF InPool
<1>6. CASE ResumeStart(t) \/ ResumeResult(t)
  <2>1. /\ slots' = slots
        /\ \/ exec' = [exec EXCEPT ![t] = "rWait"]
           \/ exec[t] = "rPolling" /\ \E p \in {"rOk", "rErr"} : exec' = [exec EXCEPT ![t] = p]
        /\ exec[t] \in {"rNew", "rPolling"}
    BY <1>6 DEF ResumeStart, ResumeResult
  <2> QED
    BY <1>1, <1>2, <1>3, <2>1
    DEF InPool, Process, Working, Settling, Done, Resuming, Admitted, Told
<1>7. CASE ResumeAdmit(t)
  <2>1. /\ exec[t] = "rWait"
        /\ Cardinality(Polling(batch[t])) < Capacity
        /\ \/ stopping /\ exec' = [exec EXCEPT ![t] = "none"] /\ slots' = slots \ {t}
           \/ exec' = [exec EXCEPT ![t] = "rPolling"] /\ slots' = slots
    BY <1>7 DEF ResumeAdmit, Polling
  <2> QED
    BY <1>1, <1>2, <1>3, <2>1
    DEF InPool, Process, Working, Settling, Done, Resuming, Admitted, Told
<1>8. CASE ResumeSettle(t) \/ ResumeCancelled(t)
  <2>1. /\ exec[t] \in Resuming
        /\ \/ /\ exec' = [exec EXCEPT ![t] = "none"] /\ slots' = slots \ {t}
           \/ /\ exec' = [exec EXCEPT ![t] = "rZero"] /\ slots' = slots
              /\ exec[t] \in Admitted
    BY <1>8 DEF ResumeSettle, ResumeCancelled, Resuming, Admitted
  <2>2. t \in slots \ slots' => status'[t] \in Terminal
    <3>1. CASE ResumeCancelled(t)
      BY <1>1, <3>1, CancelSettles DEF ResumeCancelled
    <3>2. CASE ResumeSettle(t)
      BY <1>1, <3>2
      DEF ResumeSettle, TrySucceed, TryFail, MarkSucceeded, MarkFailed, SetStatus, Terminal, TypeInv,
          StoreTypeOK
    <3> QED
      BY <1>8, <3>1, <3>2
  <2> QED
    BY <1>1, <1>2, <1>3, <2>1, <2>2
    DEF InPool, Process, Working, Settling, Done, Resuming, Admitted, Told
<1>9. CASE ResumeInterrupt(t)
  <2>1. /\ t \in sig /\ t \notin sig' /\ exec[t] \in Resuming /\ exec[t] \notin Told
        /\ slots' = slots
        /\ \/ exec' = [exec EXCEPT ![t] = "rDead"]
           \/ exec' = [exec EXCEPT ![t] = "rQuit"]
           \/ exec' = [exec EXCEPT ![t] = "rExit"] /\ exec[t] \in Admitted
    BY <1>1, <1>9 DEF ResumeInterrupt, Told
  <2> QED
    BY <1>1, <1>2, <1>3, <2>1
    DEF InPool, Process, Working, Settling, Done, Resuming, Admitted, Told
<1> QED
  BY <1>4, <1>5, <1>6, <1>7, <1>8, <1>9

LEMMA AsyncInPool ==
    ASSUME TypeInv, SoleInv, OwnerInv, SignalInv, OtherPoolInv, NEW t \in Task, AsyncTask(t)
    PROVE  InPool(t)
<1>1. ASSUME NEW w \in Outcome, ShieldedWrite(t, w)
      PROVE  InPool(t)
  <2>1. UNCHANGED <<exec, slots, sig, batch, flaps>>
    BY <1>1 DEF ShieldedWrite, orphanVars, envVars
  <2>2. TrySucceed(t) \/ TryFail(t) \/ TryCancel(t)
    BY <1>1 DEF ShieldedWrite, Outcome
  <2>3. claimRead' = claimRead
    BY <2>2 DEF TrySucceed, TryFail, TryCancel, MarkSucceeded, MarkFailed, FinalizeCancelled,
                storeVars, sessionVars
  <2> QED
    BY <2>1, <2>3 DEF InPool
<1> QED
  BY <1>1, ProcessInPool, ResumeInPool DEF AsyncTask

LEMMA PoolsFinite ==
    ASSUME TypeInv
    PROVE  /\ IsFiniteSet(Task) /\ IsFiniteSet(Resumable) /\ IsFiniteSet(Busy)
           /\ IsFiniteSet(slots)
           /\ \A b : IsFiniteSet(Polling(b))
           /\ Resumable \subseteq Task /\ Capacity \in Nat \ {0}
<1>1. IsFiniteSet(Task) /\ Resumable \subseteq Task /\ Capacity \in Nat \ {0} /\ slots \subseteq Task
  BY TaskStoreAssumption, WorkerAssumption
  DEF TaskStoreAssumption, WorkerAssumption, TypeInv, WorkerTypeOK
<1>2. Busy \subseteq Resumable /\ \A b : Polling(b) \subseteq Resumable
  BY DEF Busy, Polling
<1>3. IsFiniteSet(Resumable)
  BY <1>1, FS_Subset
<1>4. IsFiniteSet(slots) /\ IsFiniteSet(Busy)
  BY <1>1, <1>2, <1>3, FS_Subset
<1>5. ASSUME NEW b
      PROVE  IsFiniteSet(Polling(b))
  BY <1>2, <1>3, FS_Subset
<1> QED
  BY <1>1, <1>3, <1>4, <1>5

LEMMA SubsetFits ==
    ASSUME NEW S, NEW T, IsFiniteSet(S), T \subseteq S, NEW n \in Nat, Cardinality(S) <= n
    PROVE  Cardinality(T) <= n
BY FS_Subset, FS_CardinalityType

\* Nothing joins the busy rows: the pool is as well off as before.
LEMMA BusyShrinks ==
    ASSUME TypeInv, BusyInv, Busy' \subseteq Busy,
           \A x \in Busy' : batch'[x] = batch[x] /\ (exec'[x] \in Process => exec[x] \in Process)
    PROVE  BusyInv'
<1>1. CASE Cardinality(Busy) <= Capacity
  <2>1. Cardinality(Busy') <= Capacity
    BY <1>1, PoolsFinite, SubsetFits
  <2> QED
    BY <2>1 DEF BusyInv
<1>2. CASE \E b \in Nat : OneBatch(b)
  <2>1. PICK b \in Nat : \A x \in Busy : exec[x] \notin Process /\ batch[x] = b
    BY <1>2 DEF OneBatch
  <2>2. \A x \in Busy' : exec'[x] \notin Process /\ batch'[x] = b
    BY <2>1
  <2> QED
    BY <2>1, <2>2 DEF BusyInv, OneBatch
<1> QED
  BY <1>1, <1>2 DEF BusyInv

\* The same for the semaphores and the other pool.
LEMMA PollingShrinks ==
    ASSUME TypeInv, SemaphoreInv, \A b \in Nat : Polling(b)' \subseteq Polling(b)
    PROVE  SemaphoreInv'
<1>1. ASSUME NEW b \in Nat
      PROVE  Cardinality(Polling(b)') <= Capacity
  BY PoolsFinite, SubsetFits DEF SemaphoreInv
<1> QED
  BY <1>1 DEF SemaphoreInv

\* Steps that only move rows along: slots and coroutines stay as they are.
LEMMA PoolUndisturbed ==
    ASSUME TypeInv, PoolInv, TerminalStays, CancelReadInv', SignalInv',
           UNCHANGED <<exec, slots, resumeQ, batch, flaps>>,
           stopping => stopping'
    PROVE  BusyInv' /\ SemaphoreInv' /\ OtherPoolInv'
<1>1. Busy' \subseteq Busy
  BY PoolsFinite DEF Busy, TerminalStays
<1>2. BusyInv'
  BY <1>1, BusyShrinks DEF PoolInv
<1>3. SemaphoreInv'
  BY PollingShrinks DEF PoolInv, Polling
<1>4. OtherPoolInv'
  BY DEF PoolInv, OtherPoolInv
<1> QED
  BY <1>2, <1>3, <1>4

\* The signals, across a step of the worker.
LEMMA SignalStep ==
    ASSUME TypeInv, SoleInv, OwnerInv, SignalInv, SignalsOnce, TerminalStays,
           \/ sig' \subseteq sig
           \/ \E t \in Task : t \in signals /\ t \notin signals' /\ sig' \subseteq sig \cup {t},
           \A x \in Task : exec'[x] \in Told => exec[x] \in Told \/ x \in sig \ sig'
    PROVE  SignalInv'
<1> SUFFICES ASSUME NEW x \in Task
             PROVE  /\ x \in sig' => x \notin signals'
                    /\ exec'[x] \in Told => x \notin signals' \cup sig' /\ Ended(status'[x])
  BY DEF SignalInv
<1>1. x \in sig => Ended(status[x])
  BY DEF OwnerInv
<1>2. x \in sig' => x \notin signals'
  BY <1>1 DEF SignalInv, SignalsOnce, OwnerInv
<1>3. exec[x] \in Told => Ended(status[x])
  BY DEF SignalInv
<1> QED
  BY <1>1, <1>2, <1>3 DEF SignalInv, SignalsOnce, OwnerInv, TerminalStays

LEMMA AddedFits ==
    ASSUME NEW S, NEW e, IsFiniteSet(S), NEW n \in Nat, Cardinality(S) < n
    PROVE  IsFiniteSet(S \cup {e}) /\ Cardinality(S \cup {e}) <= n
BY FS_AddElement, FS_CardinalityType

LEMMA PoolAsync ==
    ASSUME TypeInv, TypeInv', SoleInv, OwnerInv, PoolInv, Forward, TerminalStays, SignalsOnce,
           NEW t \in Task, Local(t), InPool(t)
    PROVE  /\ SignalInv' /\ BusyInv' /\ SemaphoreInv' /\ OtherPoolInv'
           /\ FreshScan' /\ BeforeScan' /\ ClaimPhases'
<1>1. /\ UNCHANGED <<loop, orphanRead, handled, stopping, batch, flaps, claimRead>>
      /\ resumeQ' \subseteq resumeQ /\ sig' \subseteq sig
      /\ \A x \in Task \ {t} :
            exec'[x] = exec[x] /\ (x \in slots' <=> x \in slots) /\ (x \in resumeQ' <=> x \in resumeQ)
      /\ t \in slots' => t \in slots \/ (t \in resumeQ \ resumeQ' /\ loop # "orphans" /\ ~stopping)
      /\ slots' \subseteq slots \cup {t}
  BY DEF Local, InPool, loopVars, TypeInv, WorkerTypeOK
<1>2. /\ slots \subseteq Task /\ resumeQ \subseteq Task /\ Resumable \subseteq Task
      /\ batch \in [Task -> Nat]
      /\ \A x \in Task : exec[x] = "none" <=> x \notin slots
      /\ \A x \in Task : x \in resumeQ => x \notin slots
  BY PoolsFinite DEF TypeInv, WorkerTypeOK, SoleInv, OnePlace
<1>3. SignalInv'
  <2>1. \A x \in Task : exec'[x] \in Told => exec[x] \in Told \/ x \in sig \ sig'
    BY <1>1 DEF InPool
  <2> QED
    BY <1>1, <2>1, SignalStep DEF PoolInv
<1>4. BusyInv'
  <2>1. \A x \in Task : exec'[x] \in Process => exec[x] \in Process
    BY <1>1 DEF InPool
  <2>2. Busy' \subseteq Busy
    BY <1>1, <1>2, <2>1 DEF Busy, TerminalStays
  <2>3. Busy' \subseteq Task
    BY <1>2 DEF Busy
  <2> QED
    BY <1>1, <2>1, <2>2, <2>3, BusyShrinks DEF PoolInv
<1>5. SemaphoreInv'
  <2> SUFFICES ASSUME NEW b \in Nat
               PROVE  Cardinality(Polling(b)') <= Capacity
    BY DEF SemaphoreInv
  <2>1. Cardinality(Polling(b)) <= Capacity
    BY DEF PoolInv, SemaphoreInv
  <2>2. CASE Polling(b)' \subseteq Polling(b)
    BY <2>1, <2>2, PoolsFinite, SubsetFits
  <2>3. CASE ~(Polling(b)' \subseteq Polling(b))
    <3>1. PICK x \in Polling(b)' : x \notin Polling(b)
      BY <2>3
    <3>2. x \in Task /\ batch[x] = b /\ exec'[x] \in Admitted /\ exec[x] \notin Admitted
      BY <1>1, <1>2, <3>1 DEF Polling
    <3>3. x = t
      BY <1>1, <3>2
    <3>4. Cardinality(Polling(b)) < Capacity
      BY <3>2, <3>3 DEF InPool
    <3>5. Polling(b)' \subseteq Polling(b) \cup {t}
      BY <1>1, <1>2 DEF Polling
    <3>6. IsFiniteSet(Polling(b)) /\ Capacity \in Nat
      BY PoolsFinite
    <3>7. IsFiniteSet(Polling(b) \cup {t}) /\ Cardinality(Polling(b) \cup {t}) <= Capacity
      BY <3>4, <3>6, AddedFits
    <3> QED
      BY <3>5, <3>6, <3>7, SubsetFits
  <2> QED
    BY <2>2, <2>3
<1>6. OtherPoolInv'
  <2>1. slots' \ Resumable \subseteq slots \ Resumable
    <3>1. slots' \subseteq slots \cup {t}
      BY <1>1 DEF Local
    <3> QED
      BY <1>1, <3>1 DEF PoolInv, OtherPoolInv
  <2>2. IsFiniteSet(slots \ Resumable)
    BY PoolsFinite, FS_Subset
  <2>3. Cardinality(slots' \ Resumable) <= Capacity
    BY <2>1, <2>2, PoolsFinite, SubsetFits DEF PoolInv, OtherPoolInv
  <2>4. \A x \in Task : exec'[x] \in Resuming => x \in Resumable
    BY <1>1 DEF InPool, PoolInv, OtherPoolInv
  <2> QED
    BY <1>1, <2>3, <2>4 DEF PoolInv, OtherPoolInv
<1>7. loop \in {"scan", "filter"} => resumeQ = {}
  BY DEF SoleInv, ScanPhases
<1>8. FreshScan'
  <2> SUFFICES ASSUME loop \in {"filter", "orphans"}, ~stopping, NEW x \in Task, StrayOrphan(x)'
               PROVE  slots' = {} /\ \A y \in resumeQ' : batch'[y] = flaps'
    BY <1>1 DEF FreshScan
  <2>1. x \notin slots' \cup resumeQ' /\ orphanRead[x] = "running" /\ status'[x] \notin Terminal
    BY <1>1 DEF StrayOrphan
  <2>2. status[x] \notin Terminal
    BY <2>1 DEF TerminalStays
  <2>3. x \notin slots
    <3>1. CASE x = t
      BY <2>1, <3>1 DEF InPool
    <3>2. CASE x # t
      BY <1>1, <2>1, <3>2
    <3> QED
      BY <3>1, <3>2
  <2>4. slots' \subseteq slots
    BY <1>1, <1>7 DEF Local
  <2>5. CASE x \notin resumeQ
    BY <1>1, <2>1, <2>2, <2>3, <2>4, <2>5 DEF PoolInv, FreshScan, StrayOrphan
  <2>6. CASE x \in resumeQ
    BY <1>7, <2>1, <2>6 DEF SoleInv, OnePlace
  <2> QED
    BY <2>5, <2>6
<1>9. BeforeScan'
  <2> SUFFICES ASSUME ~handled, loop \in {"top", "drain", "scan"}, ~stopping, slots' # {},
                      NEW x \in Task, status'[x] = "running"
               PROVE  x \in slots'
    BY <1>1 DEF BeforeScan
  <2>1. resumeQ = {}
    BY DEF SoleInv, ScanPhases
  <2>2. slots # {}
    BY <1>1, <2>1 DEF Local
  <2>3. x \in slots
    BY <2>2 DEF PoolInv, BeforeScan, Forward
  <2>4. status'[x] \notin Terminal
    BY DEF Terminal
  <2> QED
    BY <1>1, <2>3, <2>4 DEF InPool
<1>10. ClaimPhases'
  BY <1>1 DEF PoolInv, ClaimPhases
<1> QED
  BY <1>3, <1>4, <1>5, <1>6, <1>8, <1>9, <1>10

\* Steps of clients, of the settling of drained rows and of cancel signals.
LEMMA PoolQuiet ==
    ASSUME TypeInv, SoleInv, PoolInv, Forward, TerminalStays, CancelReadInv', SignalInv',
           UNCHANGED <<loop, exec, slots, resumeQ, batch, flaps, orphanRead, handled, claimRead,
                       stopping>>
    PROVE  PoolInv'
<1>1. BusyInv' /\ SemaphoreInv' /\ OtherPoolInv'
  BY PoolUndisturbed
<1>2. FreshScan'
  BY DEF PoolInv, FreshScan, StrayOrphan, TerminalStays
<1>3. BeforeScan'
  BY DEF PoolInv, BeforeScan, Forward
<1>4. ClaimPhases'
  BY DEF PoolInv, ClaimPhases
<1> QED
  BY <1>1, <1>2, <1>3, <1>4 DEF PoolInv

LEMMA PoolDrain ==
    ASSUME TypeInv, SoleInv, OwnerInv, PoolInv, SignalsOnce, Drain
    PROVE  PoolInv'
<1>1. /\ loop = "top" /\ loop' = "drain"
      /\ UNCHANGED <<handled, stopping, orphanRead, sig, resumeQ, batch, flaps, status, signals,
                     cancelRead, claimRead>>
      /\ slots' \subseteq slots
      /\ \A x \in Task : \/ exec'[x] = exec[x] /\ (x \in slots' <=> x \in slots)
                         \/ /\ exec[x] \in Done /\ x \in slots
                            /\ exec'[x] = "none" /\ x \notin slots'
  BY DEF Drain, orphanVars, envVars, storeVars, rowVars, sessionVars
<1>2. slots \subseteq Task /\ resumeQ \subseteq Task /\ Resumable \subseteq Task
  BY PoolsFinite DEF TypeInv, WorkerTypeOK
<1>3. "none" \notin Process \cup Told \cup Admitted \cup Resuming
  BY DEF Process, Told, Admitted, Resuming, Working, Settling, Done
<1>4. CancelReadInv' /\ SignalInv'
  BY <1>1, <1>3 DEF PoolInv, CancelReadInv, SignalInv
<1>5. BusyInv'
  <2>1. Busy' \subseteq Busy
    BY <1>1, <1>2, <1>3 DEF Busy
  <2>2. Busy' \subseteq Task
    BY <1>2 DEF Busy
  <2> QED
    BY <1>1, <1>3, <2>1, <2>2, BusyShrinks DEF PoolInv
<1>6. SemaphoreInv'
  <2>1. \A b \in Nat : Polling(b)' \subseteq Polling(b)
    BY <1>1, <1>2, <1>3 DEF Polling
  <2> QED
    BY <2>1, PollingShrinks DEF PoolInv
<1>7. OtherPoolInv'
  <2>1. slots' \ Resumable \subseteq slots \ Resumable
    BY <1>1
  <2>2. IsFiniteSet(slots \ Resumable)
    BY PoolsFinite, FS_Subset
  <2>3. Cardinality(slots' \ Resumable) <= Capacity
    BY <2>1, <2>2, PoolsFinite, SubsetFits DEF PoolInv, OtherPoolInv
  <2> QED
    BY <1>1, <1>3, <2>3 DEF PoolInv, OtherPoolInv
<1>8. FreshScan' /\ ClaimPhases'
  BY <1>1 DEF PoolInv, FreshScan, ClaimPhases
<1>9. BeforeScan'
  <2> SUFFICES ASSUME ~handled, ~stopping, slots' # {}, NEW x \in Task, status[x] = "running"
               PROVE  x \in slots'
    BY <1>1 DEF BeforeScan
  <2>1. x \in slots
    BY <1>1 DEF PoolInv, BeforeScan
  <2>2. exec[x] \notin Done
    BY DEF OwnerInv, Ended
  <2> QED
    BY <1>1, <2>1, <2>2
<1> QED
  BY <1>4, <1>5, <1>6, <1>7, <1>8, <1>9 DEF PoolInv

\* The steps of the main loop that start and end no coroutine.
LEMMA PoolLoop ==
    ASSUME TypeInv, SoleInv, OwnerInv, PoolInv, TerminalStays, CancelReadInv', SignalsOnce,
           \/ EndDrain \/ ListOrphans \/ SkipOwnTasks \/ EndOrphans \/ ClaimNext \/ Claim
           \/ NothingToClaim \/ ClaimedUnsupported \/ ClaimedNoRoom \/ LeaseRegained \/ Stop
    PROVE  PoolInv'
<1>1. /\ UNCHANGED <<exec, slots, sig, resumeQ, batch>>
      /\ stopping => stopping'
  BY DEF EndDrain, ListOrphans, SkipOwnTasks, EndOrphans, ClaimNext, Claim, NothingToClaim,
         ClaimedUnsupported, ClaimedNoRoom, LeaseRegained, Stop, workerVars, taskVars, orphanVars,
         loopVars
<1>2. SignalInv'
  BY <1>1, SignalStep DEF PoolInv
<1>3. SemaphoreInv' /\ OtherPoolInv'
  BY <1>1, PollingShrinks DEF PoolInv, OtherPoolInv, Polling
<1>4. BusyInv'
  <2>1. Busy' \subseteq Busy
    BY <1>1, PoolsFinite DEF Busy, TerminalStays
  <2> QED
    BY <1>1, <2>1, BusyShrinks DEF PoolInv
<1>5. SoleInv /\ (loop \in {"scan", "filter"} => resumeQ = {})
      /\ (loop \in {"scan", "filter", "orphans"} => ~handled)
      /\ (loop \in {"claim", "claimed"} => handled)
      /\ (loop = "claimed" <=> cur # NULL)
      /\ slots \subseteq Task
  BY DEF SoleInv, ScanPhases, TypeInv, WorkerTypeOK
<1>6. CASE EndDrain
  <2>1. /\ loop = "drain" /\ loop' = (IF handled THEN "claim" ELSE "scan")
        /\ UNCHANGED <<handled, stopping, status, claimRead>>
    BY <1>6 DEF EndDrain, storeVars, rowVars, sessionVars
  <2>2. FreshScan' /\ BeforeScan' /\ ClaimPhases'
    BY <1>1, <2>1 DEF PoolInv, FreshScan, BeforeScan, ClaimPhases
  <2> QED
    BY <1>2, <1>3, <1>4, <2>2 DEF PoolInv
<1>7. CASE ListOrphans
  <2>1. /\ loop = "scan" /\ loop' = "filter"
        /\ UNCHANGED <<handled, stopping, status, claimRead, flaps>>
        /\ \A x \in Task : orphanRead'[x] = "running" => status[x] = "running"
    BY <1>7 DEF ListOrphans, storeVars, rowVars, sessionVars, envVars
  <2>2. FreshScan'
    <3> SUFFICES ASSUME ~stopping, NEW x \in Task, StrayOrphan(x)'
                 PROVE  slots = {} /\ resumeQ = {}
      BY <1>1, <2>1 DEF FreshScan
    <3>1. x \notin slots /\ status[x] = "running"
      BY <1>1, <2>1 DEF StrayOrphan
    <3> QED
      BY <1>5, <2>1, <3>1 DEF PoolInv, BeforeScan
  <2>3. BeforeScan' /\ ClaimPhases'
    BY <1>1, <2>1 DEF PoolInv, BeforeScan, ClaimPhases
  <2> QED
    BY <1>2, <1>3, <1>4, <2>2, <2>3 DEF PoolInv
<1>8. CASE SkipOwnTasks
  <2>1. /\ loop = "filter" /\ loop' = "orphans"
        /\ UNCHANGED <<handled, stopping, status, claimRead, flaps>>
        /\ \A x \in Task : orphanRead'[x] = "running" => orphanRead[x] = "running"
    BY <1>8 DEF SkipOwnTasks, storeVars, rowVars, sessionVars, envVars
  <2>2. FreshScan'
    BY <1>1, <2>1 DEF PoolInv, FreshScan, StrayOrphan
  <2>3. BeforeScan' /\ ClaimPhases'
    BY <1>1, <2>1 DEF PoolInv, BeforeScan, ClaimPhases
  <2> QED
    BY <1>2, <1>3, <1>4, <2>2, <2>3 DEF PoolInv
<1>9. CASE EndOrphans
  <2>1. loop = "orphans" /\ loop' = "claim" /\ handled' /\ claimRead' = claimRead
    BY <1>9 DEF EndOrphans, storeVars, sessionVars
  <2>2. FreshScan' /\ BeforeScan' /\ ClaimPhases'
    BY <1>1, <2>1 DEF PoolInv, FreshScan, BeforeScan, ClaimPhases
  <2> QED
    BY <1>2, <1>3, <1>4, <2>2 DEF PoolInv
<1>10. CASE ClaimNext \/ Claim \/ NothingToClaim \/ ClaimedUnsupported \/ ClaimedNoRoom
  <2>1. loop' \in {"claim", "claimed", "top"} /\ handled' = handled /\ handled
    BY <1>5, <1>10
    DEF ClaimNext, Claim, NothingToClaim, ClaimedUnsupported, ClaimedNoRoom, workerVars, loopVars
  <2>2. FreshScan' /\ BeforeScan'
    BY <2>1 DEF FreshScan, BeforeScan
  <2>3. ClaimPhases'
    <3>1. CASE ClaimNext
      <4>1. loop = "claim" /\ resumeQ = {} /\ loop' = loop
        BY <3>1 DEF ClaimNext, workerVars, loopVars
      <4> QED
        BY <1>1, <4>1 DEF ClaimPhases
    <3>2. CASE Claim
      <4>1. claimRead # NULL /\ claimRead' = NULL
        BY <3>2 DEF Claim, ClaimUpdate
      <4> QED
        BY <1>1, <4>1 DEF PoolInv, ClaimPhases
    <3>3. CASE NothingToClaim
      <4>1. claimRead = NULL /\ claimRead' = claimRead /\ loop' = "top"
        BY <3>3 DEF NothingToClaim, storeVars, sessionVars
      <4> QED
        BY <4>1 DEF ClaimPhases
    <3>4. CASE ClaimedUnsupported \/ ClaimedNoRoom
      <4>1. loop = "claimed" /\ loop' \in {"claim", "top"} /\ claimRead' = claimRead
        BY <3>4 DEF ClaimedUnsupported, ClaimedNoRoom, TryFail, MarkFailed, RequeueSingle,
                    storeVars, sessionVars
      <4> QED
        BY <1>1, <4>1 DEF PoolInv, ClaimPhases
    <3> QED
      BY <1>10, <3>1, <3>2, <3>3, <3>4
  <2> QED
    BY <1>2, <1>3, <1>4, <2>2, <2>3 DEF PoolInv
<1>11. CASE LeaseRegained
  <2>1. /\ loop = "drain" /\ loop' = loop /\ resumeQ = {}
        /\ UNCHANGED <<stopping, status, claimRead, orphanRead>>
    BY <1>11 DEF LeaseRegained, storeVars, rowVars, sessionVars
  <2>2. BeforeScan'
    <3> SUFFICES ASSUME ~stopping, slots # {}, NEW x \in Task, status[x] = "running"
                 PROVE  x \in slots
      BY <1>1, <2>1 DEF BeforeScan
    <3>1. CASE ~handled
      BY <2>1, <3>1 DEF PoolInv, BeforeScan
    <3>2. CASE handled
      <4>1. cur # x /\ x \notin resumeQ /\ orphanRead[x] = "none"
        BY <1>5, <2>1, TaskStoreAssumption DEF SoleInv, OnePlace, TaskStoreAssumption
      <4>2. exec[x] \in Live
        BY <3>2, <4>1 DEF OwnerInv
      <4> QED
        BY <4>2 DEF SoleInv, OnePlace, Live, Working, Settling, Resuming, Admitted
    <3> QED
      BY <3>1, <3>2
  <2>3. FreshScan' /\ ClaimPhases'
    BY <1>1, <2>1 DEF PoolInv, FreshScan, ClaimPhases
  <2> QED
    BY <1>2, <1>3, <1>4, <2>2, <2>3 DEF PoolInv
<1>12. CASE Stop
  <2>1. stopping' /\ loop' = loop /\ claimRead' = claimRead
    BY <1>12 DEF Stop, storeVars, sessionVars
  <2>2. FreshScan' /\ BeforeScan' /\ ClaimPhases'
    BY <1>1, <2>1 DEF PoolInv, FreshScan, BeforeScan, ClaimPhases
  <2> QED
    BY <1>2, <1>3, <1>4, <2>2 DEF PoolInv
<1> QED
  BY <1>6, <1>7, <1>8, <1>9, <1>10, <1>11, <1>12

\* A dispatch fills a free slot, so that the busy rows are within the capacity.
LEMMA PoolDispatch ==
    ASSUME TypeInv, SoleInv, OwnerInv, PoolInv, CancelReadInv', SignalsOnce, Dispatch
    PROVE  PoolInv'
<1>1. /\ loop = "claimed" /\ loop' = "claim" /\ cur \in Task /\ HasRoom(cur)
      /\ exec' = [exec EXCEPT ![cur] = "created"] /\ slots' = slots \cup {cur}
      /\ UNCHANGED <<handled, stopping, orphanRead, sig, resumeQ, batch, flaps, status, signals,
                     cancelRead, claimRead>>
      /\ exec \in [Task -> Phase] /\ handled
      /\ slots \subseteq Task /\ resumeQ = {} /\ exec[cur] = "none"
  BY TaskStoreAssumption
  DEF Dispatch, Go, TypeInv, WorkerTypeOK, PoolInv, ClaimPhases, SoleInv, OnePlace, ScanPhases,
      orphanVars, envVars, storeVars, rowVars, sessionVars
<1>2. "created" \notin Told \cup Admitted \cup Resuming
  BY DEF Told, Admitted, Resuming
<1>3. SignalInv'
  BY <1>1, <1>2 DEF PoolInv, SignalInv
<1>4. SemaphoreInv'
  <2>1. \A b \in Nat : Polling(b)' \subseteq Polling(b)
    BY <1>1, <1>2, PoolsFinite DEF Polling
  <2> QED
    BY <2>1, PollingShrinks DEF PoolInv
<1>5. BusyInv' /\ OtherPoolInv'
  <2>1. \A x \in Task : exec'[x] \in Resuming => x \in Resumable
    BY <1>1, <1>2 DEF PoolInv, OtherPoolInv
  <2>2. resumeQ' \subseteq Resumable
    BY <1>1
  <2>3. CASE cur \in Resumable
    <3>1. Cardinality(slots \cap Resumable) < Capacity /\ IsFiniteSet(slots \cap Resumable)
      BY <1>1, <2>3, PoolsFinite, FS_Subset DEF HasRoom, Peers
    <3>2. /\ IsFiniteSet((slots \cap Resumable) \cup {cur})
          /\ Cardinality((slots \cap Resumable) \cup {cur}) <= Capacity
      BY <3>1, AddedFits, PoolsFinite
    <3>3. Busy' \subseteq (slots \cap Resumable) \cup {cur}
      BY <1>1 DEF Busy
    <3>4. Cardinality(Busy') <= Capacity
      BY <3>2, <3>3, SubsetFits, PoolsFinite
    <3>5. slots' \ Resumable = slots \ Resumable
      BY <1>1, <2>3
    <3>6. BusyInv'
      BY <3>4 DEF BusyInv
    <3> QED
      BY <2>1, <2>2, <3>5, <3>6 DEF PoolInv, OtherPoolInv
  <2>4. CASE cur \notin Resumable
    <3>1. Cardinality(slots \cap (Task \ Resumable)) < Capacity
      BY <1>1, <2>4 DEF HasRoom, Peers
    <3>2. slots \cap (Task \ Resumable) = slots \ Resumable
      BY <1>1
    <3>3. IsFiniteSet(slots \ Resumable)
      BY PoolsFinite, FS_Subset
    <3>4. Cardinality((slots \ Resumable) \cup {cur}) <= Capacity
      BY <3>1, <3>2, <3>3, AddedFits, PoolsFinite
    <3>5. slots' \ Resumable = (slots \ Resumable) \cup {cur}
      BY <1>1, <2>4
    <3>6. Busy' \subseteq Busy /\ cur \notin Busy'
      BY <1>1, <2>4 DEF Busy
    <3>7. BusyInv'
      BY <1>1, <3>6, BusyShrinks, PoolsFinite DEF PoolInv, Busy
    <3> QED
      BY <2>1, <2>2, <3>4, <3>5, <3>7 DEF PoolInv, OtherPoolInv
  <2> QED
    BY <2>3, <2>4
<1>6. FreshScan' /\ BeforeScan' /\ ClaimPhases'
  BY <1>1 DEF FreshScan, BeforeScan, PoolInv, ClaimPhases
<1> QED
  BY <1>3, <1>4, <1>5, <1>6 DEF PoolInv

LEMMA PoolOrphan ==
    ASSUME TypeInv, SoleInv, OwnerInv, PoolInv, TerminalStays, Forward, CancelReadInv', SignalsOnce,
           NEW t \in Task, HandleOrphan(t)
    PROVE  PoolInv'
<1>1. /\ UNCHANGED <<loop, handled, stopping, exec, slots, sig, flaps>>
      /\ loop = "orphans" /\ orphanRead[t] # "none"
      /\ \A x \in Task : orphanRead'[x] = IF x = t THEN "none" ELSE orphanRead[x]
  BY DEF HandleOrphan, TypeInv, WorkerTypeOK, envVars
<1>2. claimRead' = claimRead
  BY DEF HandleOrphan, FailOrCancel, TryCancel, MarkFailed, FinalizeCancelled, storeVars, sessionVars
<1>3. SignalInv'
  BY <1>1, SignalStep DEF PoolInv
<1>4. BeforeScan'
  BY <1>1 DEF BeforeScan
<1>5. /\ t \notin slots \cup resumeQ /\ exec[t] = "none" /\ slots \subseteq Task
      /\ resumeQ \subseteq Task /\ batch \in [Task -> Nat] /\ flaps \in Nat /\ Resumable \subseteq Task
      /\ "none" \notin Process \cup Admitted
  BY <1>1, PoolsFinite
  DEF SoleInv, OnePlace, TypeInv, WorkerTypeOK, Process, Admitted, Working, Settling, Done
<1>6. CASE UNCHANGED orphanVars
  <2>1. resumeQ' = resumeQ /\ batch' = batch
    BY <1>6 DEF orphanVars
  <2>2. BusyInv' /\ SemaphoreInv' /\ OtherPoolInv'
    BY <1>1, <1>3, <2>1, PoolUndisturbed
  <2>3. FreshScan'
    BY <1>1, <2>1 DEF PoolInv, FreshScan, StrayOrphan, TerminalStays
  <2>4. ClaimPhases'
    BY <1>1, <1>2, <2>1 DEF PoolInv, ClaimPhases
  <2> QED
    BY <1>3, <1>4, <2>2, <2>3, <2>4 DEF PoolInv
<1>7. CASE /\ orphanRead[t] = "running" /\ t \in Resumable
           /\ resumeQ' = resumeQ \cup {t} /\ batch' = [batch EXCEPT ![t] = flaps]
           /\ UNCHANGED storeVars
  <2>1. status' = status
    BY <1>7 DEF storeVars, rowVars
  <2>2. SemaphoreInv'
    <3>1. \A b \in Nat : Polling(b)' \subseteq Polling(b)
      BY <1>1, <1>5, <1>7 DEF Polling
    <3> QED
      BY <3>1, PollingShrinks DEF PoolInv
  <2>3. OtherPoolInv'
    BY <1>1, <1>7 DEF PoolInv, OtherPoolInv
  <2>4. BusyInv'
    <3>1. CASE stopping \/ status[t] \in Terminal
      <4>1. Busy' \subseteq Busy
        BY <1>1, <1>5, <1>7, <2>1, <3>1 DEF Busy
      <4>2. t \notin Busy' /\ Busy' \subseteq Task
        BY <1>1, <1>5, <1>7, <2>1, <3>1 DEF Busy
      <4> QED
        BY <1>1, <1>5, <1>7, <4>1, <4>2, BusyShrinks DEF PoolInv
    <3>2. CASE ~stopping /\ status[t] \notin Terminal
      <4>1. slots = {} /\ \A x \in resumeQ : batch[x] = flaps
        BY <1>1, <1>5, <1>7, <3>2 DEF PoolInv, FreshScan, StrayOrphan
      <4>2. \A x \in Busy' : x \in Task /\ x \in resumeQ \cup {t}
        BY <1>1, <1>5, <1>7, <4>1 DEF Busy
      <4>3. \A x \in Task : exec[x] = "none"
        BY <4>1 DEF SoleInv, OnePlace
      <4>4. \A x \in Busy' : exec'[x] \notin Process /\ batch'[x] = flaps
        BY <1>1, <1>5, <1>7, <4>1, <4>2, <4>3
      <4> QED
        BY <1>5, <4>4 DEF BusyInv, OneBatch
    <3> QED
      BY <3>1, <3>2
  <2>5. FreshScan'
    <3> SUFFICES ASSUME ~stopping, NEW x \in Task, StrayOrphan(x)'
                 PROVE  slots = {} /\ \A y \in resumeQ' : batch'[y] = flaps
      BY <1>1 DEF FreshScan
    <3>1. x # t /\ StrayOrphan(x)
      BY <1>1, <1>7, <2>1 DEF StrayOrphan
    <3>2. slots = {} /\ \A y \in resumeQ : batch[y] = flaps
      BY <1>1, <3>1 DEF PoolInv, FreshScan
    <3> QED
      BY <1>5, <1>7, <3>2
  <2>6. ClaimPhases'
    BY <1>1, <1>2 DEF PoolInv, ClaimPhases
  <2> QED
    BY <1>3, <1>4, <2>2, <2>3, <2>4, <2>5, <2>6 DEF PoolInv
<1> QED
  BY <1>6, <1>7 DEF HandleOrphan

\* A process that has just started has no coroutine and no open call.
NothingOpen ==
    /\ exec = [t \in Task |-> "none"] /\ slots = {} /\ sig = {} /\ resumeQ = {} /\ signals = {}
    /\ claimRead = NULL /\ loop = "top" /\ \A t \in Task : cancelRead[t] = "none"

LEMMA PoolEmpty == NothingOpen => PoolInv
<1> SUFFICES ASSUME NothingOpen
             PROVE  PoolInv
  OBVIOUS
<1> USE DEF NothingOpen
<1>1. "none" \notin Process \cup Told \cup Admitted \cup Resuming
  BY DEF Process, Told, Admitted, Resuming, Working, Settling, Done
<1>2. Busy = {} /\ \A b : Polling(b) = {}
  BY <1>1, WorkerAssumption DEF Busy, Polling, WorkerAssumption
<1>3. BusyInv /\ SemaphoreInv /\ OtherPoolInv
  BY <1>1, <1>2, FS_EmptySet, WorkerAssumption
  DEF BusyInv, SemaphoreInv, OtherPoolInv, WorkerAssumption
<1> QED
  BY <1>1, <1>3 DEF PoolInv, CancelReadInv, SignalInv, FreshScan, BeforeScan, ClaimPhases

LEMMA PoolReboot == Crash \/ Shutdown => PoolInv'
<1>1. Crash \/ Shutdown => NothingOpen'
  BY DEF Crash, Shutdown, Reboot, SessionsLost, NothingOpen
<1> QED
  BY <1>1, PoolEmpty, PTL

LEMMA PoolStep ==
    ASSUME TypeInv, TypeInv', SoleInv, OwnerInv, PoolInv, RunsAfterDependency, [Next]_vars
    PROVE  PoolInv'
<1>1. StoreTypeOK /\ [StoreNext]_storeVars
  BY StepIsStoreStep DEF TypeInv
<1>2. CancelReadInv' /\ SignalsOnce /\ TerminalStays
  BY <1>1, CancelReadStep, TerminalStep DEF PoolInv
<1>3. CASE Client
  <2>1. Forward
    BY <1>3, ForwardClient
  <2>2. UNCHANGED workerVars
    BY <1>3 DEF Client
  <2>3. UNCHANGED <<loop, exec, slots, resumeQ, batch, flaps, orphanRead, handled, stopping, sig>>
    BY <2>2 DEF workerVars, loopVars, taskVars, orphanVars, envVars
  <2>4. SignalInv'
    BY <1>2, <2>3, SignalStep DEF PoolInv
  <2>5. claimRead' = claimRead
    BY <1>3 DEF Client, Enqueue, CancelSelect, CancelQueuedUpdate, CancelRunningUpdate,
                CancelAllSelect, CancelAllUpdate, sessionVars
  <2>6. /\ loop' = loop /\ exec' = exec /\ slots' = slots /\ resumeQ' = resumeQ /\ batch' = batch
        /\ flaps' = flaps /\ orphanRead' = orphanRead /\ handled' = handled /\ stopping' = stopping
    BY <2>3
  <2>7. CancelReadInv'
    BY <1>2
  <2> QED
    BY <1>2, <2>1, <2>4, <2>5, <2>6, <2>7, PoolQuiet
<1>4. CASE Drain
  BY <1>2, <1>4, PoolDrain
<1>5. CASE \/ EndDrain \/ ListOrphans \/ SkipOwnTasks \/ EndOrphans \/ ClaimNext \/ Claim
           \/ NothingToClaim \/ ClaimedUnsupported \/ ClaimedNoRoom \/ LeaseRegained \/ Stop
  BY <1>2, <1>5, PoolLoop
<1>6. CASE Dispatch
  BY <1>2, <1>6, PoolDispatch
<1>7. ASSUME NEW t \in Task, DrainCancelled(t)
      PROVE  PoolInv'
  <2>1. Forward
    BY <1>7, ForwardWrites DEF DrainCancelled
  <2>2. UNCHANGED <<loop, exec, slots, resumeQ, batch, flaps, orphanRead, handled, stopping, sig>>
    BY <1>7 DEF DrainCancelled, taskVars, orphanVars, envVars
  <2>3. SignalInv'
    BY <1>2, <2>2, SignalStep DEF PoolInv
  <2>4. claimRead' = claimRead
    BY <1>7 DEF DrainCancelled, TryCancel, FinalizeCancelled, storeVars, sessionVars
  <2> QED
    BY <1>2, <2>1, <2>2, <2>3, <2>4, PoolQuiet
<1>8. ASSUME NEW t \in Task, HandleOrphan(t)
      PROVE  PoolInv'
  <2>1. Forward
    BY <1>8, ForwardWrites DEF HandleOrphan, storeVars, rowVars, sessionVars, Forward
  <2> QED
    BY <1>2, <1>8, <2>1, PoolOrphan
<1>9. ASSUME NEW t \in Task, RequestCancel(t)
      PROVE  PoolInv'
  <2>1. Forward
    BY <1>9, RowsKept DEF RequestCancel, SignalSent
  <2>2. /\ UNCHANGED <<loop, exec, slots, resumeQ, batch, flaps, orphanRead, handled, stopping>>
        /\ t \in signals /\ t \notin signals' /\ sig' \subseteq sig \cup {t}
        /\ claimRead' = claimRead
    BY <1>9 DEF RequestCancel, SignalSent, loopVars, orphanVars, envVars
  <2>3. SignalInv'
    BY <1>2, <2>2, SignalStep DEF PoolInv
  <2> QED
    BY <1>2, <2>1, <2>2, <2>3, PoolQuiet
<1>10. ASSUME NEW t \in Task, AsyncTask(t)
       PROVE  PoolInv'
  <2>1. Forward /\ Local(t)
    BY <1>10, ForwardAsync, AsyncIsLocal
  <2>2. InPool(t)
    BY <1>10, AsyncInPool DEF PoolInv
  <2>3. /\ SignalInv' /\ BusyInv' /\ SemaphoreInv' /\ OtherPoolInv'
        /\ FreshScan' /\ BeforeScan' /\ ClaimPhases'
    BY <1>2, <2>1, <2>2, PoolAsync
  <2> QED
    BY <1>2, <2>3 DEF PoolInv
<1>11. CASE Crash \/ Shutdown
  BY <1>11, PoolReboot
<1>12. CASE UNCHANGED vars
  <2>1. UNCHANGED <<loop, exec, slots, resumeQ, batch, flaps, orphanRead, handled, stopping, sig,
                    status, signals, claimRead>>
    BY <1>12 DEF vars, storeVars, rowVars, sessionVars, workerVars, loopVars, taskVars, orphanVars,
                 envVars
  <2>2. SignalInv'
    BY <1>2, <2>1, SignalStep DEF PoolInv
  <2>3. Forward
    BY <2>1 DEF Forward
  <2> QED
    BY <1>2, <2>1, <2>2, <2>3, PoolQuiet
<1> QED
  BY <1>3, <1>4, <1>5, <1>6, <1>7, <1>8, <1>9, <1>10, <1>11, <1>12 DEF Next, Loop

\* What is in progress and not settled before is busy, and what polls in one
\* batch is behind one semaphore.
LEMMA PoolInvBounds ==
    ASSUME TypeInv, SoleInv, PoolInv
    PROVE  PoolWithinCapacity
<1> SUFFICES ASSUME NEW t \in Task
             PROVE  Cardinality((InProgress \ Resettling) \cap Peers(t)) <= Capacity
  BY DEF PoolWithinCapacity
<1> DEFINE P == (InProgress \ Resettling) \cap Peers(t)
<1>1. \A x \in P : x \in Task /\ x \in slots /\ exec[x] \in Working \cup {"rPolling"}
  BY DEF SoleInv, OnePlace, InProgress, Working
<1>2. CASE t \notin Resumable
  <2>1. P \subseteq slots \ Resumable
    BY <1>1, <1>2 DEF Peers
  <2>2. IsFiniteSet(slots \ Resumable)
    BY PoolsFinite, FS_Subset
  <2> HIDE DEF P
  <2>3. Cardinality(P) <= Capacity
    BY <2>1, <2>2, PoolsFinite, SubsetFits DEF PoolInv, OtherPoolInv
  <2> QED
    BY <2>3 DEF P
<1>3. CASE t \in Resumable
  <2>1. P \subseteq Busy
    <3> SUFFICES ASSUME NEW x \in P
                 PROVE  x \in Resumable /\ (status[x] \notin Terminal \/ exec[x] \in Process)
      BY <1>1 DEF Busy
    <3>1. CASE exec[x] \in Working
      BY <1>3, <3>1 DEF Peers, Process
    <3>2. CASE exec[x] = "rPolling"
      BY <1>1, <1>3, <3>2 DEF Peers, Resettling
    <3> QED
      BY <1>1, <3>1, <3>2
  <2>2. CASE Cardinality(Busy) <= Capacity
    <3> HIDE DEF P
    <3>1. Cardinality(P) <= Capacity
      BY <2>1, <2>2, PoolsFinite, SubsetFits
    <3> QED
      BY <3>1 DEF P
  <2>3. CASE \E b \in Nat : OneBatch(b)
    <3>1. PICK b \in Nat : \A x \in Busy : exec[x] \notin Process /\ batch[x] = b
      BY <2>3 DEF OneBatch
    <3>2. \A x \in P : x \in Resumable
      BY <1>3 DEF Peers
    <3>3. P \subseteq Polling(b)
      <4> HIDE DEF P
      <4> QED
        BY <1>1, <2>1, <3>1, <3>2 DEF Polling, Process, Admitted
    <3> HIDE DEF P
    <3>4. Cardinality(P) <= Capacity
      BY <3>3, PoolsFinite, SubsetFits DEF PoolInv, SemaphoreInv
    <3> QED
      BY <3>4 DEF P
  <2> QED
    BY <2>2, <2>3 DEF PoolInv, BusyInv
<1> QED
  BY <1>2, <1>3

\* The whole state of the worker is in order, whatever crashes, cancels, lost
\* leases and second orphan scans happen: its types, the payments, the owner of
\* every running row, and no more calls of a provider pool at a time than it has
\* room for (rows that were resumed after they settled apart), although the slots
\* of resumed rows are taken without a look at it.
THEOREM WorkerInOrder == Spec => []WorkerInv
<1>1. Init => PoolInv
  <2>1. Init => NothingOpen
    BY DEF Init, StoreInit, WorkerInit, NothingOpen
  <2> QED
    BY <2>1, PoolEmpty
<1>2. /\ TypeInv /\ TypeInv' /\ PaidInv /\ SoleInv /\ OwnerInv /\ PoolInv /\ RunsAfterDependency
      /\ [Next]_vars
      => PoolInv'
  BY PoolStep
<1>3. TypeInv /\ SoleInv /\ PoolInv => PoolWithinCapacity
  BY PoolInvBounds
<1>4. TypeInv /\ PaidIffExecuted /\ RunningHasOwner /\ PoolWithinCapacity => WorkerInv
  BY DEF TypeInv, WorkerInv
<1> QED
  BY <1>1, <1>2, <1>3, <1>4, OwnersHold, WorkerKeepsTheTable, PaidOnce, RunningIsOwned, PTL DEF Spec

=============================================================================
