--------------------------- MODULE MCQueueClient ---------------------------
(* TLC instance of the two sides of is_worker_online.  On the one side two   *)
(* worker processes, a lease of two time units, and calls that may take as   *)
(* long as the lease (WorkerLease); on the other a batch of two storyboards  *)
(* of which the second depends on the first, and one row of another caller   *)
(* (QueueClient).  A waiting client lets the answer of is_worker_online      *)
(* change at any time, which is more than workers can make of it, so a       *)
(* behaviour moves the one side or the other, chosen at its start.           *)
EXTENDS WorkerLease, QueueClient

CONSTANTS k1, k2
MCSpecs == <<[key |-> k1, after |-> 0], [key |-> k2, after |-> 1]>>

VARIABLE side
sides == <<side, leaseVars, queueVars>>

MCInit == side \in {"workers", "client"} /\ LeaseInit /\ QueueInit

Workers(A) == side = "workers" /\ A /\ UNCHANGED <<side, queueVars>>
Client(A) == side = "client" /\ A /\ UNCHANGED <<side, leaseVars>>

MCNext == Workers(LeaseNext) \/ Client(QueueNext)

\* LeaseFairSpec and QueueFairSpec, each for its side.
MCSpec ==
    /\ MCInit /\ [][MCNext]_sides
    /\ WF_sides(Workers(Tick))
    /\ \A w \in Worker : WF_sides(Workers(LeaseStep(w)))
    /\ WF_sides(Client(Time))
    /\ WF_sides(Client(AskOnline \/ EnqueueSpec))
    /\ \A i \in Spec_ : WF_sides(Client(Poll(i)))

=============================================================================
