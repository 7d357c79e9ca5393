----------------------------- MODULE MCSsoLogin -----------------------------
(***************************************************************************)
(* Instances of SsoLogin for TLC.                                          *)
(***************************************************************************)
EXTENDS SsoLogin, TLC

CONSTANTS x1, x2, r1, r2, a1, none

\* Calls and login requests are interchangeable.
LoginSymmetry == Permutations(Calls) \cup Permutations(Requests)

\* The view leaves out what no later step and no property reads.

\* A session that can never be used again: its times do not matter.
SeenSession(s) ==
    IF Usable(s) THEN sessions[s]
    ELSE [sessions[s] EXCEPT !.created = 0, !.expires = 0, !.used = 0, !.groups = FALSE]

\* An exchange before its transaction that can only end without an effect: what
\* it read has changed or its login is over, neither of which is ever undone,
\* or it has no proof.  How far it is does not matter.
Doomed(x) ==
    LET e == xs[x] IN
    \/ /\ e.phase \in {"provider", "bound", "verified"}
       /\ e.seen.revision # dir.revision
    \/ /\ e.phase \in {"linked", "user", "decided"}
       /\ ~SnapshotCurrent(x)
    \/ /\ e.phase \in {"verified", "linked", "user", "decided"}
       /\ e.proof = 0 \/ ~PendingAt(requests[e.request], clock)

\* An exchange that issues no session: its times do not matter.
Sessionless(e) ==
    e.phase \in {"decided", "validated", "consumed", "recorded"} /\ ~e.issue

SeenExchange(x) ==
    CASE Doomed(x) -> Resting("provider")
      [] xs[x].phase = "committed" -> Resting("committed")
      [] Sessionless(xs[x]) /\ ~Doomed(x) ->
            [xs[x] EXCEPT !.now = 0, !.expires = 0, !.groups = FALSE]
      [] OTHER -> xs[x]

\* A consumed login request: only its expiry matters.
SeenRequest(q) ==
    IF q.state = "consumed" THEN [q EXCEPT !.print = <<0, 0>>, !.created = 0] ELSE q

Relevant ==
    <<protocol, clock, dir, [r \in Requests |-> SeenRequest(requests[r])], markers,
      [s \in Calls |-> SeenSession(s)], fence, [x \in Calls |-> SeenExchange(x)], auth>>
=============================================================================
