----------------------------- MODULE JobPromise -----------------------------
(***************************************************************************)
(* What the outbox promises of every job that publishes through a claim:   *)
(* an accepted job stays pending until it is done or dead, it publishes    *)
(* its effect at most once and only while pending, it is done only with    *)
(* its effect published, and only an operator revives a dead one.  No      *)
(* workers, leases, tokens or retries appear at this level.                *)
(***************************************************************************)
EXTENDS Naturals

CONSTANT Promised  \* the jobs

VARIABLES
    phase,      \* phase[j]: absent, pending, done or dead
    published   \* published[j]: how often the effect of j was written

pvars == <<phase, published>>

PInit ==
    /\ phase = [j \in Promised |-> "absent"]
    /\ published = [j \in Promised |-> 0]

\* One command transaction may accept several jobs.
Accept ==
    \E S \in SUBSET Promised :
        /\ \A j \in S : phase[j] = "absent"
        /\ phase' = [j \in Promised |-> IF j \in S THEN "pending" ELSE phase[j]]
        /\ UNCHANGED published

Publish(j) ==
    /\ phase[j] = "pending"
    /\ published[j] = 0
    /\ published' = [published EXCEPT ![j] = 1]
    /\ UNCHANGED phase

Finish(j) ==
    /\ phase[j] = "pending"
    /\ published[j] > 0
    /\ phase' = [phase EXCEPT ![j] = "done"]
    /\ UNCHANGED published

\* One claim may give up on several jobs whose last lease expired.
GiveUp ==
    \E S \in SUBSET Promised :
        /\ \A j \in S : phase[j] = "pending"
        /\ phase' = [j \in Promised |-> IF j \in S THEN "dead" ELSE phase[j]]
        /\ UNCHANGED published

Revive(j) ==
    /\ phase[j] = "dead"
    /\ phase' = [phase EXCEPT ![j] = "pending"]
    /\ UNCHANGED published

PNext ==
    \/ Accept
    \/ GiveUp
    \/ \E j \in Promised : Publish(j) \/ Finish(j) \/ Revive(j)

PSpec == PInit /\ [][PNext]_pvars
=============================================================================
