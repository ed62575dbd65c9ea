------------------------------- MODULE Lease -------------------------------
(***************************************************************************)
(* What an environment is to the test that asks for one, whatever the      *)
(* engine, the other runs and the crashes do: a lease.  A run acquires     *)
(* resources one by one, offers them to its test only when it has all that *)
(* the test asked for, and keeps them until the test gives them up.  Only  *)
(* what an ended or dead run left behind may be reclaimed by others.       *)
(***************************************************************************)
CONSTANTS Runs, Resources, Required   \* Required is part of Resources

VARIABLES phase, held

vars == <<phase, held>>

Phases == {"idle", "provisioning", "available", "releasing", "ended", "dead"}

TypeOK ==
    /\ phase \in [Runs -> Phases]
    /\ held \in [Runs -> SUBSET Resources]

Init ==
    /\ phase = [r \in Runs |-> "idle"]
    /\ held = [r \in Runs |-> {}]

Become(r, to) ==
    /\ phase' = [phase EXCEPT ![r] = to]
    /\ UNCHANGED held

Gain(r) == \E x \in Resources : held' = [held EXCEPT ![r] = @ \cup {x}]
Lose(r) == \E x \in held[r] : held' = [held EXCEPT ![r] = @ \ {x}]

Open(r) == phase[r] = "idle" /\ Become(r, "provisioning")

Acquire(r) == phase[r] = "provisioning" /\ Gain(r) /\ UNCHANGED phase

\* A resource that only served to prepare another one is used up.  The step
\* that uses it up can also be the one that fails the provisioning.
Consume(r) ==
    /\ phase[r] = "provisioning"
    /\ \E x \in held[r] \ Required : held' = [held EXCEPT ![r] = @ \ {x}]
    /\ \/ UNCHANGED phase
       \/ phase' = [phase EXCEPT ![r] = "releasing"]

Offer(r) ==
    /\ phase[r] = "provisioning"
    /\ Required \subseteq held[r]
    /\ Become(r, "available")

Close(r) ==
    /\ phase[r] \in {"provisioning", "available"}
    /\ Become(r, "releasing")

GiveBack(r) == phase[r] = "releasing" /\ Lose(r) /\ UNCHANGED phase

End(r) ==
    /\ \/ phase[r] = "releasing"
       \/ phase[r] = "provisioning" /\ held[r] = {}
    /\ Become(r, "ended")

Die(r) ==
    /\ phase[r] \in {"provisioning", "available", "releasing"}
    /\ Become(r, "dead")

Reclaim(r) ==
    /\ phase[r] \in {"ended", "dead"}
    /\ Lose(r)
    /\ UNCHANGED phase

Next ==
    \E r \in Runs :
        \/ Open(r) \/ Acquire(r) \/ Consume(r) \/ Offer(r) \/ Close(r)
        \/ GiveBack(r) \/ End(r) \/ Die(r) \/ Reclaim(r)

Spec == Init /\ [][Next]_vars
=============================================================================
