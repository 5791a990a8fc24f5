----------------------------- MODULE WorkerLease -----------------------------
(***************************************************************************)
(* The lease that makes one worker process the active one (task_repo.py,   *)
(* acquire_or_renew_lease, release_lease, is_worker_online) and the main   *)
(* loop of GenerationWorker around it.                                     *)
(*                                                                         *)
(* Time is relative: `left` is what remains of the lease, `age` how long   *)
(* ago a call read the clock, `mine` what remains of a worker's own last   *)
(* success.  Tick advances them all; a call takes at most MaxAge.          *)
(***************************************************************************)
EXTENDS Integers, FiniteSets

CONSTANTS Worker,
          NoOwner,  \* there is no row
          Gone,     \* the owner of the row is a process that died
          Ttl, MaxAge

ASSUME WorkerLeaseAssumption ==
    /\ NoOwner \notin Worker /\ Gone \notin Worker /\ NoOwner # Gone
    /\ Ttl \in Nat \ {0} /\ MaxAge \in Nat

VARIABLES owner, left,   \* the row: owner_id and lease_until
          loop,          \* where the main loop of a worker stands
          owns,          \* _owns_lease
          age, mine

leaseVars == <<owner, left, loop, owns, age, mine>>

LeaseInit ==
    /\ owner = NoOwner /\ left = 0
    /\ loop = [w \in Worker |-> "down"]
    /\ owns = [w \in Worker |-> FALSE]
    /\ age = [w \in Worker |-> 0]
    /\ mine = [w \in Worker |-> 0]

\* is_worker_online
Online == owner # NoOwner /\ left > 0

Boot(w) ==
    /\ loop[w] = "down"
    /\ loop' = [loop EXCEPT ![w] = "top"]
    /\ UNCHANGED <<owner, left, owns, age, mine>>

\* The clock is read before the statement waits for its turn.
ReadClock(w) ==
    /\ loop[w] = "top"
    /\ loop' = [loop EXCEPT ![w] = "ask"]
    /\ age' = [age EXCEPT ![w] = 0]
    /\ UNCHANGED <<owner, left, owns, mine>>

\* mutant: the lease is taken whoever has it
MayTakeAny(w) == TRUE
\* mutant: a lease that has run out is left to its owner
MayTakeOwn(w) == owner \in {NoOwner, w}

\* The row is ours, has run out, or does not exist.
MayTake(w) == owner \in {NoOwner, w} \/ left + age[w] <= 0

\* mutant: a renewal prolongs what is left
AcquireOrProlong(w) ==
    /\ loop[w] = "ask"
    /\ owns' = [owns EXCEPT ![w] = MayTake(w)]
    /\ IF MayTake(w)
         THEN /\ owner' = w /\ left' = left + Ttl
              /\ mine' = [mine EXCEPT ![w] = Ttl]
              /\ loop' = [loop EXCEPT ![w] = "work"]
         ELSE /\ loop' = [loop EXCEPT ![w] = "top"]
              /\ UNCHANGED <<owner, left, mine>>
    /\ age' = [age EXCEPT ![w] = 0]

AcquireOrRenew(w) ==
    /\ loop[w] = "ask"
    /\ owns' = [owns EXCEPT ![w] = MayTake(w)]
    /\ IF MayTake(w)
         THEN /\ owner' = w /\ left' = Ttl - age[w]
              /\ mine' = [mine EXCEPT ![w] = Ttl - age[w]]
              /\ loop' = [loop EXCEPT ![w] = "work"]
         ELSE /\ loop' = [loop EXCEPT ![w] = "top"]
              /\ UNCHANGED <<owner, left, mine>>
    /\ age' = [age EXCEPT ![w] = 0]

\* The claims of one cycle are done.
EndCycle(w) ==
    /\ loop[w] = "work"
    /\ loop' = [loop EXCEPT ![w] = "top"]
    /\ UNCHANGED <<owner, left, owns, age, mine>>

\* stop(): tasks in flight are waited for, without renewing ...
Stop(w) ==
    /\ loop[w] = "top"
    /\ loop' = [loop EXCEPT ![w] = "drain"]
    /\ UNCHANGED <<owner, left, owns, age, mine>>

\* ... then one's own row is deleted.
Release(w) ==
    /\ loop[w] = "drain"
    /\ loop' = [loop EXCEPT ![w] = "down"]
    /\ owner' = IF owns[w] /\ owner = w THEN NoOwner ELSE owner
    /\ owns' = [owns EXCEPT ![w] = FALSE]
    /\ UNCHANGED <<left, age, mine>>

\* A new process has a new owner_id.
Crash(w) ==
    /\ loop[w] # "down"
    /\ loop' = [loop EXCEPT ![w] = "down"]
    /\ owner' = IF owner = w THEN Gone ELSE owner
    /\ owns' = [owns EXCEPT ![w] = FALSE]
    /\ age' = [age EXCEPT ![w] = 0]
    /\ UNCHANGED <<left, mine>>

\* What lies below -MaxAge has run out for every clock that may have been read.
Later(n) == IF n > -MaxAge THEN n - 1 ELSE n
Tick ==
    /\ \A w \in Worker : loop[w] = "ask" => age[w] < MaxAge
    /\ left' = Later(left)
    /\ age' = [w \in Worker |-> IF loop[w] = "ask" THEN age[w] + 1 ELSE age[w]]
    /\ mine' = [w \in Worker |-> Later(mine[w])]
    /\ UNCHANGED <<owner, loop, owns>>

LeaseStep(w) == ReadClock(w) \/ AcquireOrRenew(w)
LeaseNext ==
    \/ Tick
    \/ \E w \in Worker : LeaseStep(w) \/ EndCycle(w) \/ Boot(w) \/ Stop(w) \/ Release(w) \/ Crash(w)

LeaseSpec == LeaseInit /\ [][LeaseNext]_leaseVars

\* Time passes, and a process that asks for the lease goes on asking.  Its cycle
\* of claims may hang, and its last tasks may never end.
LeaseFairSpec ==
    /\ LeaseSpec
    /\ WF_leaseVars(Tick)
    /\ \A w \in Worker : WF_leaseVars(LeaseStep(w))

-----------------------------------------------------------------------------
LeaseTypeOK ==
    /\ owner \in Worker \cup {NoOwner, Gone}
    /\ left \in -MaxAge..Ttl
    /\ loop \in [Worker -> {"down", "top", "ask", "work", "drain"}]
    /\ owns \in [Worker -> BOOLEAN]
    /\ age \in [Worker -> 0..MaxAge]
    /\ mine \in [Worker -> -MaxAge..Ttl]

\* A worker that renewed less than the ttl ago has the lease, so of two that
\* believe to own it at most one is that recent: whatever calls were slow.
\* The others find out at their next renewal.
FreshOwnerAlone ==
    \A w \in Worker : owns[w] /\ mine[w] > 0 =>
        owner = w /\ left = mine[w]

\* A worker that runs its loop and renewed not long ago; the lease of any other,
\* though it may still believe to own it, has run out for every clock.
Serves(w) == owns[w] /\ loop[w] # "drain" /\ mine[w] > -MaxAge

\* Nobody asks for the lease in vain for ever: when its owner has died, hangs in
\* its claims or waits for its last tasks, the lease runs out and is taken over,
\* unless somebody else serves.  What the old owner believes does not count.
LeaseFound == \A w \in Worker :
    []<>(loop[w] \in {"down", "drain", "work"} \/ \E x \in Worker : Serves(x))

\* generation_worker.py, _run_loop: "单 lease 互斥保证不会与另一个 worker 同时扫".
OneWorkerWorks == \A w, x \in Worker : loop[w] = "work" /\ loop[x] = "work" => w = x

=============================================================================
