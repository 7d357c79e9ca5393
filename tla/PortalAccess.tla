---------------------------- MODULE PortalAccess ----------------------------
(***************************************************************************)
(* Customer portal access: a reviewer exchanges a package token for one    *)
(* customer security package.  A request first reserves a slot of its      *)
(* client's failure budget (internal/adapters/httpapi/failure_budget.go),  *)
(* looks its grant up by the token's prefix outside any transaction, and   *)
(* then judges the token in a transaction that holds the tenant's writer   *)
(* fence (internal/package/app/portal_token_commands.go).  The clock is    *)
(* read twice there, denials are committed, and the answer is given, and   *)
(* the slot returned, after the commit.  Operators issue and revoke grants *)
(* under the same fence.                                                   *)
(*                                                                         *)
(* One tenant, one package.  Tokens are pairs of a prefix, which several   *)
(* grants may share, and a secret; the secret of a grant is the grant, and *)
(* NoGrant is a secret that fits none.  The clock counts minutes, the      *)
(* budget's window, and may be set back.  The update of a grant compares   *)
(* every column it read, which repeats what its row lock ensures and is    *)
(* not modelled again.  A restart of the API process, which empties the    *)
(* budget, is not modelled.                                                *)
(***************************************************************************)
EXTENDS Integers, FiniteSets

CONSTANTS
    Requests, Clients, Grants, Prefixes,
    None,                       \* no request, client, grant or prefix
    Limit,                      \* EVYDENCE_AUTH_FAILURES_PER_MINUTE
    Capacity,                   \* client buckets the budget keeps
    PortalFailedAccessLimit,    \* wrong tokens that revoke a grant
    MaxClock                    \* bound of the instance

ASSUME PortalConstants ==
    /\ IsFiniteSet(Requests)
    /\ None \notin Requests \cup Clients \cup Grants \cup Prefixes
    /\ Limit \in Nat \ {0} /\ Capacity \in Nat \ {0}
    /\ PortalFailedAccessLimit \in Nat \ {0}
    /\ MaxClock \in Nat

VARIABLES
    clock,
    packageExpires,   \* expires_at of the package
    windowStart,      \* failureBudget: the minute its buckets belong to
    buckets,          \* failureBudget: failed and pending of each client
    grant,            \* customer_portal_access rows
    audit,            \* audit entries of the grants
    phase,            \* phase[r]: the next step of the request
    req,              \* req[r]: client, token and NDA flag of the request
    lease,            \* lease[r]: the minute its slot was reserved in
    found,            \* found[r]: the grant its lookup returned
    outcome,          \* outcome[r]: "served", or "refused" by a denial or an error
    fence,            \* the request whose transaction holds the tenant fence
    draft             \* that transaction's row, audit entries and outcome

budgetVars == <<windowStart, buckets>>
ledgerVars == <<packageExpires, grant, audit>>
requestVars == <<phase, req, lease, found, outcome>>
txVars == <<fence, draft>>
vars == <<clock, packageExpires, budgetVars, grant, audit, requestVars, txVars>>

Times == 0..MaxClock
Never == -1

\* A bucket is deleted when both counters are zero, so the map holds the others.
NoBucket == [failed |-> 0, pending |-> 0]
NoRow == [prefix |-> None, expires |-> 0, requireNDA |-> FALSE, nda |-> FALSE,
          revoked |-> FALSE, access |-> 0, failed |-> 0,
          lastAccess |-> Never, lastFailed |-> Never]
NoRequest == [client |-> None, prefix |-> None, secret |-> None, nda |-> FALSE]
NoDraft == [row |-> NoRow, entries |-> {}, outcome |-> "none"]

Issued == {g \in Grants : grant[g].prefix # None}

Init ==
    /\ clock = 0 /\ packageExpires \in 1..(MaxClock + 1)
    /\ windowStart = 0 /\ buckets = [c \in Clients |-> NoBucket]
    /\ grant = [g \in Grants |-> NoRow] /\ audit = {}
    /\ phase = [r \in Requests |-> "idle"]
    /\ req = [r \in Requests |-> NoRequest]
    /\ lease = [r \in Requests |-> Never]
    /\ found = [r \in Requests |-> None]
    /\ outcome = [r \in Requests |-> "none"]
    /\ fence = None /\ draft = NoDraft

-----------------------------------------------------------------------------
(* The failure budget                                                       *)

\* The minute and the buckets after reserve has looked at the clock.
Window == IF clock > windowStart THEN clock ELSE windowStart
Rolled == IF clock > windowStart THEN [c \in Clients |-> NoBucket] ELSE buckets

Admits(c) ==
    /\ clock >= windowStart
    /\ LET b == Rolled[c] IN
       /\ b # NoBucket \/ Cardinality({d \in Clients : Rolled[d] # NoBucket}) < Capacity
       /\ b.pending < Limit - b.failed

\* Mutant: a late completion is not compared with the current minute.
Finish_AnyWindow(r, failed) ==
    buckets' = [buckets EXCEPT ![req[r].client] =
                  [failed |-> @.failed + (IF failed THEN 1 ELSE 0),
                   pending |-> @.pending - 1]]

\* A lease of an earlier minute does nothing.  In its own minute its bucket is
\* still in the map, because its own slot keeps pending above zero.
Finish(r, failed) ==
    buckets' = IF lease[r] # windowStart THEN buckets
               ELSE [buckets EXCEPT ![req[r].client] =
                       [failed |-> @.failed + (IF failed THEN 1 ELSE 0),
                        pending |-> @.pending - 1]]

\* A request arrives with a token for some prefix and is admitted or refused
\* before anything else is done for it.
Arrive(r) ==
    /\ phase[r] = "idle"
    /\ windowStart' = Window
    /\ \E c \in Clients :
          \/ /\ Admits(c)
             /\ buckets' = [Rolled EXCEPT ![c].pending = @ + 1]
             /\ \E p \in Prefixes, s \in Issued \cup {None}, nda \in BOOLEAN :
                   /\ s # None => grant[s].prefix = p
                   /\ req' = [req EXCEPT ![r] = [client |-> c, prefix |-> p,
                                                secret |-> s, nda |-> nda]]
             /\ lease' = [lease EXCEPT ![r] = clock]
             /\ phase' = [phase EXCEPT ![r] = "lookup"] /\ UNCHANGED outcome
          \/ /\ ~Admits(c)
             /\ buckets' = Rolled
             /\ phase' = [phase EXCEPT ![r] = "done"]
             /\ outcome' = [outcome EXCEPT ![r] = "refused"] /\ UNCHANGED <<req, lease>>
    /\ UNCHANGED <<clock, ledgerVars, found, txVars>>

\* The handler's response is written, the slot returned or spent, and the token
\* forgotten.
Respond(r) ==
    /\ phase[r] = "respond"
    /\ Finish(r, outcome[r] # "served")
    /\ phase' = [phase EXCEPT ![r] = "done"]
    /\ req' = [req EXCEPT ![r] = [NoRequest EXCEPT !.client = req[r].client]]
    /\ UNCHANGED <<clock, windowStart, ledgerVars, lease, found, outcome, txVars>>

-----------------------------------------------------------------------------
(* AccessPortalPackage                                                      *)

Answer(r, result) ==
    /\ phase' = [phase EXCEPT ![r] = "respond"]
    /\ outcome' = [outcome EXCEPT ![r] = result]

\* LookupPortalAccess: a prefix that is not of exactly one grant fails closed.
Lookup(r) ==
    /\ phase[r] = "lookup"
    /\ LET matches == {g \in Issued : grant[g].prefix = req[r].prefix} IN
       IF Cardinality(matches) = 1
       THEN /\ found' = [found EXCEPT ![r] = CHOOSE g \in matches : TRUE]
            /\ phase' = [phase EXCEPT ![r] = "begin"] /\ UNCHANGED outcome
       ELSE Answer(r, "refused") /\ UNCHANGED found
    /\ UNCHANGED <<clock, budgetVars, ledgerVars, req, lease, txVars>>

Entry(kind, r) == [kind |-> kind, grant |-> found[r], by |-> r]

\* The transaction ends without an effect, by a denial that writes nothing or by
\* a rollback.
Refuse(r) == Answer(r, "refused") /\ fence' = None /\ draft' = NoDraft

\* ValidatePortalTokenTransition refuses an update whose time is before the
\* previous one of its kind: every effect is rolled back.
Propose(r, row, kinds, result) ==
    LET old == grant[found[r]] IN
    IF row.lastAccess < old.lastAccess \/ row.lastFailed < old.lastFailed
    THEN Refuse(r)
    ELSE /\ fence' = r
         /\ draft' = [row |-> row, entries |-> {Entry(k, r) : k \in kinds}, outcome |-> result]
         /\ phase' = [phase EXCEPT ![r] = "commit"] /\ UNCHANGED outcome

Live(row) == ~row.revoked /\ row.expires > clock

\* Mutant: the wrong token that reaches the limit does not revoke yet.
WrongToken_Late(row) ==
    [row EXCEPT !.failed = @ + 1, !.lastFailed = clock,
                !.revoked = row.failed + 1 > PortalFailedAccessLimit]

WrongToken(row) ==
    [row EXCEPT !.failed = @ + 1, !.lastFailed = clock,
                !.revoked = row.failed + 1 >= PortalFailedAccessLimit]

\* The transaction takes the tenant fence and the grant's row lock and reads the
\* clock: validity of the grant, then the secret.
Judge(r) ==
    /\ phase[r] = "begin" /\ fence = None
    /\ LET row == grant[found[r]]  wrong == WrongToken(row) IN
       CASE ~Live(row) -> Refuse(r)
         [] Live(row) /\ req[r].secret # found[r] ->
               Propose(r, wrong,
                       {"access_failed"} \cup (IF wrong.revoked THEN {"locked_out"} ELSE {}),
                       "refused")
         [] OTHER -> /\ fence' = r /\ phase' = [phase EXCEPT ![r] = "authorize"]
                     /\ UNCHANGED <<outcome, draft>>
    /\ UNCHANGED <<clock, budgetVars, ledgerVars, req, lease, found>>

Accessed(row) ==
    [row EXCEPT !.access = @ + 1, !.lastAccess = clock,
                !.nda = row.nda \/ row.requireNDA]

Admit(r, row) ==
    IF row.requireNDA /\ ~row.nda /\ ~req[r].nda
    THEN Propose(r, row, {"nda_required"}, "refused")
    ELSE Propose(r, Accessed(row),
                 {"accessed"} \cup (IF Accessed(row).nda # row.nda THEN {"nda_accepted"} ELSE {}),
                 "served")

\* Mutant: the second reading of the clock is not compared with the lifetimes.
Authorize_FirstClock(r) ==
    /\ phase[r] = "authorize"
    /\ Admit(r, grant[found[r]])
    /\ UNCHANGED <<clock, budgetVars, ledgerVars, req, lease, found>>

\* The second reading, after the package was read and locked.
Authorize(r) ==
    /\ phase[r] = "authorize"
    /\ IF Live(grant[found[r]]) /\ packageExpires > clock
       THEN Admit(r, grant[found[r]])
       ELSE Refuse(r)
    /\ UNCHANGED <<clock, budgetVars, ledgerVars, req, lease, found>>

\* Denials are committed like accesses.  An uncertain commit, a cancellation
\* seen after it, or a failing archive renderer withholds a durable result.
Commit(r) ==
    /\ phase[r] = "commit"
    /\ grant' = [grant EXCEPT ![found[r]] = draft.row]
    /\ audit' = audit \cup draft.entries
    /\ Answer(r, draft.outcome) \/ Answer(r, "refused")
    /\ fence' = None /\ draft' = NoDraft
    /\ UNCHANGED <<clock, packageExpires, budgetVars, req, lease, found>>

\* A storage error or a cancellation rolls the transaction back.
Fail(r) ==
    /\ phase[r] \in {"lookup", "begin", "authorize", "commit"}
    /\ Answer(r, "refused")
    /\ IF fence = r THEN fence' = None /\ draft' = NoDraft ELSE UNCHANGED txVars
    /\ UNCHANGED <<clock, budgetVars, ledgerVars, req, lease, found>>

-----------------------------------------------------------------------------
(* Operators and the clock                                                  *)

CreatePortalAccess(g) ==
    /\ fence = None /\ g \notin Issued
    /\ \E p \in Prefixes, t \in Times \cup {MaxClock + 1}, nda \in BOOLEAN :
          /\ t > clock
          /\ grant' = [grant EXCEPT ![g] =
                         [NoRow EXCEPT !.prefix = p, !.expires = t, !.requireNDA = nda]]
    /\ audit' = audit \cup {[kind |-> "created", grant |-> g, by |-> None]}
    /\ UNCHANGED <<clock, budgetVars, packageExpires, requestVars, txVars>>

\* Revoking a revoked grant returns it and writes nothing.
RevokePortalAccess(g) ==
    /\ fence = None /\ g \in Issued /\ ~grant[g].revoked
    /\ grant' = [grant EXCEPT ![g].revoked = TRUE]
    /\ audit' = audit \cup {[kind |-> "revoked", grant |-> g, by |-> None]}
    /\ UNCHANGED <<clock, budgetVars, packageExpires, requestVars, txVars>>

Tick ==
    /\ \E t \in Times : t # clock /\ clock' = t
    /\ UNCHANGED <<budgetVars, ledgerVars, requestVars, txVars>>

Next ==
    \/ \E r \in Requests :
          \/ Arrive(r) \/ Lookup(r) \/ Judge(r) \/ Authorize(r)
          \/ Commit(r) \/ Fail(r) \/ Respond(r)
    \/ \E g \in Grants : CreatePortalAccess(g) \/ RevokePortalAccess(g)
    \/ Tick

Spec == Init /\ [][Next]_vars

-----------------------------------------------------------------------------
(* Properties                                                               *)

\* The requests of a client that hold or have spent a slot of a minute.
Unfinished(c, w) ==
    {r \in Requests : req[r].client = c /\ lease[r] = w /\ phase[r] # "done"}
Failed(c, w) ==
    {r \in Requests : /\ req[r].client = c /\ lease[r] = w
                      /\ phase[r] = "done" /\ outcome[r] # "served"}

\* No client has more failed and unfinished requests of one minute than the
\* budget allows, and the counters of the current minute are exactly its own:
\* a completion that comes after the minute has rolled, or while the clock is
\* set back, neither frees nor spends a slot of another minute
\* (failureBudget.reserve and finish).
BudgetHolds ==
    \A c \in Clients :
        /\ \A w \in Times : Cardinality(Unfinished(c, w) \cup Failed(c, w)) <= Limit
        /\ buckets[c].pending = Cardinality(Unfinished(c, windowStart))
        /\ buckets[c].failed = Cardinality(Failed(c, windowStart))

EntriesOf(g, kind) == {e \in audit : e.grant = g /\ e.kind = kind}

\* The audit log explains every grant and every answer: the counters are the
\* numbers of recorded accesses and wrong tokens, the NDA was accepted and the
\* grant revoked exactly once if at all, no more wrong tokens are judged than
\* lock the grant, and a served package was recorded as accessed
\* (AccessPortalPackage, RevokePortalAccess).
AuditExplainsGrant ==
    /\ \A g \in Issued :
          /\ grant[g].access = Cardinality(EntriesOf(g, "accessed"))
          /\ grant[g].failed = Cardinality(EntriesOf(g, "access_failed"))
          /\ grant[g].failed <= PortalFailedAccessLimit
          /\ Cardinality(EntriesOf(g, "nda_accepted")) = IF grant[g].nda THEN 1 ELSE 0
          /\ Cardinality(EntriesOf(g, "revoked") \cup EntriesOf(g, "locked_out"))
               = IF grant[g].revoked THEN 1 ELSE 0
          /\ grant[g].failed = PortalFailedAccessLimit => grant[g].revoked
    /\ \A r \in Requests : outcome[r] = "served" => Entry("accessed", r) \in audit

\* A package is released only on a live grant: at the commit the grant is not
\* revoked, the token was its own, the NDA it requires is accepted, and at the
\* recorded time neither grant nor package had expired (AuthorizePortalPackage
\* after the second reading of the clock).
ServedOnLiveGrant ==
    [][\A e \in audit' \ audit : e.kind = "accessed" =>
          /\ ~grant[e.grant].revoked /\ req[e.by].secret = e.grant
          /\ grant'[e.grant].requireNDA => grant'[e.grant].nda
          /\ grant'[e.grant].lastAccess < grant[e.grant].expires
          /\ grant'[e.grant].lastAccess < packageExpires]_vars

=============================================================================
