--------------------------- MODULE VexDependency ---------------------------
(***************************************************************************)
(* The gate before a VEX document's decisions: vexDecisionDependencyError  *)
(* in src/cmd/evydence-worker/main.go.  A parse_vex job needs the          *)
(* projections of the release's vulnerability scans.  For each scan that   *)
(* its snapshot holds without a projection the handler asks the queue for  *)
(* an active parser job, loads the projections again, and asks once more:  *)
(* three reads in three statements, between which the scan's job may be    *)
(* replayed, run and acknowledged by another worker.  Outbox takes these   *)
(* reads as one step; here they are apart.                                 *)
(***************************************************************************)
EXTENDS Naturals, FiniteSetsExt

CONSTANTS
    Scans,        \* scans of the VEX document's release; numbers, in ID order
    MaxReplays    \* operator replays of scan jobs, a bound of the instance

VARIABLES
    job,          \* job[s]: status of the scan's outbox row, "none" before upload
    published,    \* published[s]: the scan's projection is durable
    replays,      \* operator replays so far
    pc,           \* the next statement of the VEX handler
    list,         \* pendingScanIDs that the loop has not finished
    waits,        \* pendingScanIDs as the first snapshot gave them
    snap          \* scans without a projection in the handler's *state

scanVars == <<job, published, replays>>
gateVars == <<pc, list, waits, snap>>
vars == <<scanVars, gateVars>>

Active == {"queued", "running"}
Verdicts == {"ready", "pending", "terminal", "error"}

Pending == {s \in Scans : job[s] # "none" /\ ~published[s]}
HasActiveJobDependency(s) == job[s] \in Active

Init ==
    /\ job = [s \in Scans |-> "none"] /\ published = [s \in Scans |-> FALSE]
    /\ replays = 0
    /\ pc = "load" /\ list = {} /\ waits = {} /\ snap = {}

-----------------------------------------------------------------------------
(* The scans' own jobs, run by other workers                                *)

\* An upload commits the scan's row and its parser job together.
Upload(s) ==
    /\ job[s] = "none"
    /\ job' = [job EXCEPT ![s] = "queued"]
    /\ UNCHANGED <<published, replays, gateVars>>

\* A claim; a deferred or failed attempt puts the job back.
Claim(s) ==
    /\ job[s] \in Active
    /\ job' = [job EXCEPT ![s] = IF @ = "queued" THEN "running" ELSE "queued"]
    /\ UNCHANGED <<published, replays, gateVars>>

\* The claim-fenced transaction that makes the projection durable.
Publish(s) ==
    /\ job[s] = "running" /\ ~published[s]
    /\ published' = [published EXCEPT ![s] = TRUE]
    /\ UNCHANGED <<job, replays, gateVars>>

CompleteJob(s) ==
    /\ job[s] = "running" /\ published[s]
    /\ job' = [job EXCEPT ![s] = "succeeded"]
    /\ UNCHANGED <<published, replays, gateVars>>

\* A permanent failure, a spent budget or an expired final lease.
DeadLetter(s) ==
    /\ job[s] = "running"
    /\ job' = [job EXCEPT ![s] = "dead_letter"]
    /\ UNCHANGED <<published, replays, gateVars>>

ReplayTerminalJob(s) ==
    /\ job[s] = "dead_letter" /\ replays < MaxReplays
    /\ job' = [job EXCEPT ![s] = "queued"] /\ replays' = replays + 1
    /\ UNCHANGED <<published, gateVars>>

-----------------------------------------------------------------------------
(* vexDecisionDependencyError                                               *)

Current == Min(list)

\* The rest of the handler's run is of no interest here: a verdict ends it and
\* a later claim of the VEX job, or an operator's replay, starts at the load.
Return(verdict) == pc' = verdict /\ list' = {} /\ waits' = {} /\ snap' = {}

\* The loop is over: a scan of the first snapshot still lacks its projection.
Conclude(state) == Return(IF waits \cap state # {} THEN "pending" ELSE "ready")

\* The loop skips the scans whose projection the latest snapshot holds.
Advance(todo, state) ==
    IF todo \cap state = {}
    THEN Conclude(state)
    ELSE pc' = "check" /\ list' = todo \cap state /\ snap' = state /\ UNCHANGED waits

Load ==
    /\ pc \in {"load"} \cup Verdicts
    /\ IF Pending = {}
       THEN Return("ready")
       ELSE pc' = "check" /\ list' = Pending /\ waits' = Pending /\ snap' = Pending
    /\ UNCHANGED scanVars

\* The first look at the queue: an active job leaves the scan pending.
CheckJob ==
    /\ pc = "check"
    /\ \/ HasActiveJobDependency(Current) /\ Advance(list \ {Current}, snap)
       \/ ~HasActiveJobDependency(Current) /\ pc' = "reload" /\ UNCHANGED <<list, waits, snap>>
       \/ Return("error")
    /\ UNCHANGED scanVars

\* The second snapshot replaces the first for the rest of the handler.
Reload ==
    /\ pc = "reload"
    /\ \/ Current \notin Pending /\ Advance(list \ {Current}, Pending)
       \/ Current \in Pending /\ pc' = "recheck" /\ snap' = Pending /\ UNCHANGED <<list, waits>>
       \/ Return("error")
    /\ UNCHANGED scanVars

\* The second look at the queue: no active job ends the import for good.
RecheckJob ==
    /\ pc = "recheck"
    /\ \/ HasActiveJobDependency(Current) /\ Advance(list \ {Current}, snap)
       \/ ~HasActiveJobDependency(Current) /\ Return("terminal")
       \/ Return("error")
    /\ UNCHANGED scanVars

Next ==
    \/ \E s \in Scans : \/ Upload(s) \/ Claim(s) \/ Publish(s) \/ CompleteJob(s)
                        \/ DeadLetter(s) \/ ReplayTerminalJob(s)
    \/ Load \/ CheckJob \/ Reload \/ RecheckJob

Spec == Init /\ [][Next]_vars

-----------------------------------------------------------------------------
\* A VEX import is failed as "dependency_failed" only for a scan whose
\* projection is still empty: the second look at the queue is there for a job
\* replayed since the first (vexDecisionDependencyError, the comment before it).
\* It misses one that has been replayed, and has published and succeeded after
\* the reload, when it looks.
TerminalMeansUnpublished ==
    [][pc = "recheck" /\ pc' = "terminal" => ~published[Current]]_vars

=============================================================================
