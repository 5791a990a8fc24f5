---------------------------- MODULE TaskLifecycle ----------------------------
(***************************************************************************)
(* What the generation queue promises its callers, without sessions, reads *)
(* or events: a task waits for the task it needs, runs, may be sent back   *)
(* to wait, and ends once; a task that is lost takes everything that waits *)
(* for it along in the same step.  TaskStore is shown to implement it.     *)
(***************************************************************************)
EXTENDS FiniteSets

CONSTANTS Task, Key, NULL

VARIABLES state, need, slot

lifecycleVars == <<state, need, slot>>

Held == {"queued", "running", "cancelling"}

Init ==
    /\ state = [t \in Task |-> "absent"]
    /\ need = [t \in Task |-> NULL]
    /\ slot = [t \in Task |-> NULL]

In(states) == {t \in Task : state[t] \in states}

\* All that waits for a member is a member.
Closed(S) == \A d \in Task : state[d] = "queued" /\ need[d] \in S => d \in S

Becomes(S, s) == state' = [t \in Task |-> IF t \in S THEN s ELSE state[t]]

\* At most one task holds a slot.
Submit(t, n, k) ==
    /\ state[t] = "absent"
    /\ n # NULL => state[n] # "absent"
    /\ \A x \in Task : state[x] \in Held => slot[x] # k
    /\ Becomes({t}, "queued")
    /\ need' = [need EXCEPT ![t] = n]
    /\ slot' = [slot EXCEPT ![t] = k]

Start(t) ==
    /\ state[t] = "queued"
    /\ need[t] # NULL => state[need[t]] = "succeeded"
    /\ Becomes({t}, "running")
    /\ UNCHANGED <<need, slot>>

Succeed(t) ==
    /\ state[t] = "running"
    /\ Becomes({t}, "succeeded")
    /\ UNCHANGED <<need, slot>>

Fail(t) ==
    /\ state[t] = "running"
    /\ \E S \in SUBSET In({"queued"}) : Closed(S \cup {t}) /\ Becomes(S \cup {t}, "failed")
    /\ UNCHANGED <<need, slot>>

\* No running task needs a cancelled one, so a cascade stops none.
Cancel ==
    /\ \E S \in SUBSET In(Held) : Closed(S) /\ Becomes(S, "cancelled")
    /\ UNCHANGED <<need, slot>>

AskToStop(t) ==
    /\ state[t] = "running"
    /\ Becomes({t}, "cancelling")
    /\ UNCHANGED <<need, slot>>

SendBack ==
    /\ \E S \in SUBSET In({"running"}) : Becomes(S, "queued")
    /\ UNCHANGED <<need, slot>>

Next ==
    \/ \E t \in Task : \/ \E n \in Task \cup {NULL}, k \in Key : Submit(t, n, k)
                       \/ Start(t) \/ Succeed(t) \/ Fail(t) \/ AskToStop(t)
    \/ Cancel \/ SendBack

Spec == Init /\ [][Next]_lifecycleVars

=============================================================================
