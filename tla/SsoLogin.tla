------------------------------ MODULE SsoLogin ------------------------------
(***************************************************************************)
(* Single sign-on of one Evydence tenant: a login request is begun, a      *)
(* credential of the identity provider is exchanged for a session, and the *)
(* session authenticates API calls until it dies.                          *)
(*                                                                         *)
(* ExchangeSSOCredential                                                   *)
(* (internal/identity/app/sso_exchange_commands.go) samples its clock,     *)
(* then reads the provider, the login request, the identity link, the user *)
(* and the user's grants, EACH IN A TRANSACTION OF ITS OWN, and verifies   *)
(* the credential in between.  Only then does it open the transaction that *)
(* takes the tenant's fence, compares all it read with what is there now,  *)
(* consumes the login request and inserts the session.  Administration     *)
(* commands and other exchanges run between any two of these steps, and    *)
(* time passes.                                                            *)
(*                                                                         *)
(* One provider, one subject, one user.  The provider's trust material is  *)
(* a revision number, and the fingerprint of a login request is the        *)
(* revision it was begun under; for SAML it also covers the provider       *)
(* binding's.  A credential is what its verification yields: the time its  *)
(* proof expires and, for SAML, the assertion it came from.  Roles granted *)
(* to the user are counted; whether the credential's groups map to roles   *)
(* is one bit.  The audit entries of these commands are AuditChain's.      *)
(***************************************************************************)
EXTENDS Naturals, FiniteSets

CONSTANTS
    Calls,            \* calls that may issue a session; also the sessions
    Requests,         \* login requests
    Assertions,       \* SAML assertion identifiers
    NoOne,            \* no exchange, request, assertion or session
    MaxPending,       \* Maximum{OIDC,SAML}AuthenticationRequestsPerProvider
    RequestLifetime,  \* Maximum{OIDC,SAML}AuthenticationRequestLifetime
    SessionLifetime,  \* SessionPolicy.MaximumLifetime
    IdleTimeout,      \* SessionPolicy.IdleTimeout
    Lifetimes,        \* session lifetimes that are asked for
    SessionLimits,    \* session lifetimes a SAML assertion allows (SessionNotOnOrAfter)
    ProofLifetimes,   \* how long a verified proof stays valid
    GroupRoles,       \* whether the groups of a credential may map to roles
    MaxRevision,      \* bound: changes of trust material, binding and grants
    MaxClock          \* bound: the clock stops here

ASSUME SsoAssumption ==
    /\ NoOne \notin Calls \cup Requests \cup Assertions
    /\ {MaxPending, RequestLifetime, SessionLifetime, IdleTimeout} \subseteq Nat \ {0}
    /\ IdleTimeout <= SessionLifetime
    /\ Lifetimes \subseteq 1..SessionLifetime
    /\ SessionLimits \cup ProofLifetimes \subseteq Nat \ {0}
    /\ GroupRoles \subseteq BOOLEAN
    /\ {MaxRevision, MaxClock} \subseteq Nat

VARIABLES
    protocol,  \* the provider's type
    clock,     \* wall clock of the API processes
    dir,       \* committed provider, binding, link, user and role bindings
    requests,  \* oidc_authentication_requests or saml_authentication_requests
    markers,   \* saml_assertion_consumptions
    sessions,  \* sso_sessions
    fence,     \* exchange whose open transaction holds the tenant's fence
    xs,        \* the exchanges
    auth       \* one Authenticate call, between its reads and its validation

vars == <<protocol, clock, dir, requests, markers, sessions, fence, xs, auth>>

Directory == [revision: 0..MaxRevision, binding: 0..MaxRevision,
              linked: BOOLEAN, active: BOOLEAN, grants: 0..MaxRevision]

\* A login request: "unborn" until it is begun, "gone" once it is pruned.
\* Identifiers are random, so a request is never begun twice.
RequestRows == [state: {"unborn", "pending", "consumed", "gone"},
                print: (0..MaxRevision) \X (0..MaxRevision),
                created: Nat, expires: Nat]

Unborn == [state |-> "unborn", print |-> <<0, 0>>, created |-> 0, expires |-> 0]
Gone   == [Unborn EXCEPT !.state = "gone"]

Markers == [assertion: Assertions, request: Requests, expires: Nat]

\* A session, with the proof it was issued on (history, for the properties).
SessionRows == [state: {"none", "live", "revoked"}, groups: BOOLEAN,
                created: Nat, expires: Nat, used: Nat,
                request: Requests \cup {NoOne}, assertion: Assertions \cup {NoOne},
                consumed: Nat, proof: Nat]

NoSession == [state |-> "none", groups |-> FALSE, created |-> 0, expires |-> 0,
              used |-> 0, request |-> NoOne, assertion |-> NoOne,
              consumed |-> 0, proof |-> 0]

Phases == {"idle", "provider", "bound", "verified", "linked", "user",
           "decided", "validated", "consumed", "recorded", "committed", "done"}

\* SSOExchangeSnapshot and the locals of one exchange.  "loaded" says how many
\* of link, user and grants the snapshot holds.
ExchangeStates == [phase: Phases, now: Nat, expires: Nat, seen: Directory,
                   loaded: 0..3, request: Requests \cup {NoOne},
                   row: RequestRows, proof: Nat,
                   assertion: Assertions \cup {NoOne}, groups: BOOLEAN,
                   issue: BOOLEAN, consumed: Nat]

NoDirectory == [revision |-> 0, binding |-> 0, linked |-> FALSE,
                active |-> FALSE, grants |-> 0]

Resting(phase) ==
    [phase |-> phase, now |-> 0, expires |-> 0, seen |-> NoDirectory,
     loaded |-> 0, request |-> NoOne, row |-> Unborn, proof |-> 0,
     assertion |-> NoOne, groups |-> FALSE, issue |-> FALSE, consumed |-> 0]

NoAuth == [session |-> NoOne, grants |-> 0]

TypeOK ==
    /\ protocol \in {"oidc", "saml"}
    /\ clock \in 0..MaxClock
    /\ dir \in Directory
    /\ requests \in [Requests -> RequestRows]
    /\ markers \subseteq Markers
    /\ sessions \in [Calls -> SessionRows]
    /\ fence \in Calls \cup {NoOne}
    /\ xs \in [Calls -> ExchangeStates]
    /\ auth \in [session: Calls \cup {NoOne}, grants: 0..MaxRevision]

Init ==
    /\ protocol \in {"oidc", "saml"}
    /\ clock = 0
    /\ dir \in {d \in Directory : /\ d.revision = 0 /\ d.binding = 0
                                  /\ d.active /\ d.grants = 0}
    /\ requests = [r \in Requests |-> Unborn]
    /\ markers = {}
    /\ sessions = [s \in Calls |-> NoSession]
    /\ fence = NoOne
    /\ xs = [x \in Calls |-> Resting("idle")]
    /\ auth = NoAuth

-----------------------------------------------------------------------------
(* What the code decides with.                                             *)

\* OIDCProviderTrustFingerprint, SAMLProviderTrustFingerprint: what a login
\* request is bound to.
TrustFingerprint(d) ==
    <<d.revision, IF protocol = "saml" THEN d.binding ELSE 0>>

\* Mutant: a consumed request is still pending.
PendingAt_Consumed(row, now) == row.created <= now /\ now < row.expires

\* {OIDC,SAML}AuthenticationRequest.PendingAt
PendingAt(row, now) ==
    /\ row.state = "pending"
    /\ row.created <= now
    /\ now < row.expires

\* SSOSession.ActiveAt: exclusive expiry and idle bounds.
ActiveAt(session, now) ==
    /\ session.state = "live"
    /\ session.created <= now
    /\ now < session.expires
    /\ now < session.used + IdleTimeout

\* Effective scopes: roles bound to the user, or mapped from its groups.
HasCapabilities(grants, groups) == grants > 0 \/ groups

Rows == {r \in Requests : requests[r].state \in {"pending", "consumed"}}

\* A session an exchange has decided to issue.
SessionOf(x) ==
    [state |-> "live", groups |-> xs[x].groups, created |-> xs[x].now,
     expires |-> xs[x].expires, used |-> xs[x].now,
     request |-> xs[x].request, assertion |-> xs[x].assertion,
     consumed |-> xs[x].consumed, proof |-> xs[x].proof]

-----------------------------------------------------------------------------
(* Beginning a login.                                                      *)

\* The state InsertSAMLAuthenticationRequest and InsertOIDC... prune first.
\* An expired SAML request stays while an assertion marker refers to it.
KeptMarkers == {m \in markers : m.expires > clock}

\* Mutant: an expired request goes, referred to or not.
Prunable_Referenced(r) == requests[r].expires <= clock

Prunable(r) ==
    /\ requests[r].expires <= clock
    /\ \A m \in KeptMarkers : m.request # r

KeptRows == {r \in Rows : ~Prunable(r)}

\* Begin{OIDC,SAML}Authentication.  The provider it read before its
\* transaction is compared under the fence, so reading it here is the same.
\* A full table is ErrRateLimited, which also undoes the pruning.
BeginAuthentication(r) ==
    /\ fence = NoOne
    /\ requests[r].state = "unborn"
    /\ Cardinality(KeptRows) < MaxPending
    /\ markers' = KeptMarkers
    /\ requests' = [q \in Requests |->
           CASE q = r -> [state |-> "pending", print |-> TrustFingerprint(dir),
                          created |-> clock, expires |-> clock + RequestLifetime]
             [] q \in Rows \ KeptRows -> Gone
             [] OTHER -> requests[q]]
    /\ UNCHANGED <<protocol, clock, dir, sessions, fence, xs, auth>>

-----------------------------------------------------------------------------
(* The exchange: reading and verifying, before any lock is held.           *)

\* Record what exchange x has after a step that touches nothing else.
Goes(x, state) ==
    /\ xs' = [xs EXCEPT ![x] = state]
    /\ UNCHANGED <<protocol, clock, dir, requests, markers, sessions, fence, auth>>

\* Mutant: a phase that does not exist.
Refused_Misnamed == Resting("refused")

\* The exchange returns an error before its transaction.
Refused == Resting("done")

\* The start of ExchangeSSOCredential: now, the session's expiry, and the
\* provider (SSOProviderByID).
ReadProvider(x) ==
    /\ xs[x].phase = "idle"
    /\ \E r \in Requests, lifetime \in Lifetimes :
          /\ requests[r].state # "unborn"
          /\ Goes(x, [xs[x] EXCEPT !.phase = "provider", !.now = clock,
                                   !.expires = clock + lifetime, !.request = r,
                                   !.seen.revision = dir.revision])

\* boundOIDCRequest, boundSAMLRequest.  The SAML binding is read under the
\* fence and must be of the same trust revision as the provider.
BindRequest(x) ==
    LET row == requests[xs[x].request]
        print == TrustFingerprint([xs[x].seen EXCEPT !.binding = dir.binding])
    IN  /\ xs[x].phase = "provider"
        /\ protocol = "saml" => fence = NoOne
        /\ Goes(x, IF /\ PendingAt(row, xs[x].now)
                      /\ row.print = print
                      /\ protocol = "saml" => dir.revision = xs[x].seen.revision
                   THEN [xs[x] EXCEPT !.phase = "bound", !.row = row]
                   ELSE Refused)

\* The ends a session may get: the one asked for, or an earlier one that a SAML
\* assertion sets, which its proof never outlives.
SessionEnds(x, proof) ==
    {xs[x].expires} \cup
    {e \in {xs[x].now + l : l \in SessionLimits} :
        protocol = "saml" /\ proof <= e /\ e < xs[x].expires}

\* The verifier's answer.  A proof is valid after now; a credential that does
\* not verify leaves no proof and is denied later; one bound to another login
\* (nonce, InResponseTo) ends the exchange here.
VerifyCredential(x) ==
    /\ xs[x].phase = "bound"
    /\ \/ \E lifetime \in ProofLifetimes, groups \in GroupRoles,
             a \in IF protocol = "saml" THEN Assertions ELSE {NoOne} :
             \E end \in SessionEnds(x, xs[x].now + lifetime) :
                Goes(x, [xs[x] EXCEPT !.phase = "verified", !.proof = xs[x].now + lifetime,
                                      !.assertion = a, !.groups = groups, !.expires = end])
       \/ Goes(x, [xs[x] EXCEPT !.phase = "verified"])
       \/ Goes(x, Refused)

\* Deny: the verification is persisted as failed (persistDenied).
Denied(state) == [state EXCEPT !.phase = "decided", !.issue = FALSE]

\* Reader.IdentityLink and the credential's verdict.
ReadLink(x) ==
    LET s == [xs[x] EXCEPT !.seen.linked = dir.linked, !.loaded = 1]
    IN  /\ xs[x].phase = "verified"
        /\ Goes(x, IF s.proof = 0 \/ ~dir.linked THEN Denied(s)
                   ELSE [s EXCEPT !.phase = "linked"])

\* Reader.User: only an active user goes on.
ReadUser(x) ==
    LET s == [xs[x] EXCEPT !.seen.active = dir.active, !.loaded = 2]
    IN  /\ xs[x].phase = "linked"
        /\ Goes(x, IF ~dir.active THEN Denied(s) ELSE [s EXCEPT !.phase = "user"])

\* Reader.UserGrants and AuthorizeSSOExchange: no capability, no session.
ReadGrants(x) ==
    LET s == [xs[x] EXCEPT !.seen.grants = dir.grants, !.loaded = 3]
    IN  /\ xs[x].phase = "user"
        /\ Goes(x, IF HasCapabilities(dir.grants, s.groups)
                   THEN [s EXCEPT !.phase = "decided", !.issue = TRUE]
                   ELSE Denied(s))

-----------------------------------------------------------------------------
(* The exchange: its transaction.  What it writes is private until Commit. *)

\* The transaction of x is rolled back and the exchange returns an error.
RollsBack(x) ==
    /\ xs' = [xs EXCEPT ![x] = Refused]
    /\ fence' = NoOne
    /\ UNCHANGED <<protocol, clock, dir, requests, markers, sessions, auth>>

\* Mutant: the user is not compared.
SnapshotCurrent_NoUser(x) ==
    /\ xs[x].seen.revision = dir.revision
    /\ xs[x].seen.linked = dir.linked
    /\ xs[x].loaded >= 3 => xs[x].seen.grants = dir.grants

\* CompareSSOExchangeSnapshot: whatever was loaded is still so.
SnapshotCurrent(x) ==
    /\ xs[x].seen.revision = dir.revision
    /\ xs[x].seen.linked = dir.linked
    /\ xs[x].loaded >= 2 => xs[x].seen.active = dir.active
    /\ xs[x].loaded >= 3 => xs[x].seen.grants = dir.grants

\* ValidateSSOExchangeState: the fence, then the comparison, after which the
\* snapshot's facts are no longer looked at.
ValidateSSOExchangeState(x) ==
    /\ xs[x].phase = "decided"
    /\ fence = NoOne
    /\ IF SnapshotCurrent(x)
       THEN /\ xs' = [xs EXCEPT ![x].phase = "validated", ![x].seen = NoDirectory,
                                ![x].loaded = 0]
            /\ fence' = x
            /\ UNCHANGED <<protocol, clock, dir, requests, markers, sessions, auth>>
       ELSE RollsBack(x)

\* Mutant: the marker is overwritten instead of refused.
Consumable_NoMarker(x) ==
    LET row == requests[xs[x].request]
    IN  /\ row.print = TrustFingerprint(dir)
        /\ row.state # "gone"
        /\ PendingAt(row, clock)
        /\ clock < xs[x].proof

\* Consume{OIDC,SAML}AuthenticationRequest may consume the login of x now.
Consumable(x) ==
    LET row == requests[xs[x].request]
    IN  /\ row.print = TrustFingerprint(dir)
        /\ row.state # "gone"
        /\ PendingAt(row, clock)
        /\ clock < xs[x].proof
        /\ \A m \in markers : m.assertion # xs[x].assertion

\* A verified credential consumes its login request; the clock is sampled
\* under the locks.  Without a proof nothing is consumed.
Consume(x) ==
    /\ xs[x].phase = "validated"
    /\ IF xs[x].proof = 0
       THEN Goes(x, [xs[x] EXCEPT !.phase = "consumed"])
       ELSE IF Consumable(x)
       THEN Goes(x, [xs[x] EXCEPT !.phase = "consumed", !.consumed = clock])
       ELSE RollsBack(x)

\* The last look of execute at proof and login, after its callback.
StillFresh(x) ==
    xs[x].proof # 0 => clock < xs[x].proof /\ clock < xs[x].row.expires

\* The callback of execute, which writes the verification and the session and
\* checks the session's lifetime (CheckSSOExchangeSessionLifetime, ActiveAt),
\* and the last look.  All of them read a clock that only goes forward, so one
\* reading stands for theirs: what is valid then was valid before.
Record(x) ==
    /\ xs[x].phase = "consumed"
    /\ IF /\ xs[x].issue => clock < xs[x].expires /\ ActiveAt(SessionOf(x), clock)
          /\ StillFresh(x)
       THEN Goes(x, [xs[x] EXCEPT !.phase = "recorded"])
       ELSE RollsBack(x)

\* The database commits what was recorded, whatever has expired since.
Commit(x) ==
    /\ xs[x].phase = "recorded"
    /\ IF xs[x].proof # 0
       THEN requests' = [requests EXCEPT ![xs[x].request].state = "consumed"]
       ELSE UNCHANGED requests
    /\ IF xs[x].assertion # NoOne
       THEN markers' = markers \cup {[assertion |-> xs[x].assertion,
                                      request |-> xs[x].request,
                                      expires |-> xs[x].proof]}
       ELSE UNCHANGED markers
    /\ IF xs[x].issue
       THEN /\ sessions' = [sessions EXCEPT ![x] = SessionOf(x)]
            /\ xs' = [xs EXCEPT ![x].phase = "committed"]
       ELSE /\ UNCHANGED sessions
            /\ xs' = [xs EXCEPT ![x] = Refused]
    /\ fence' = NoOne
    /\ UNCHANGED <<protocol, clock, dir, auth>>

\* After the commit session, proof and login are looked at again: the secret
\* is returned, or withheld because one of them expired meanwhile.  The row
\* stays either way, and the model lets every committed session be presented.
Return(x) ==
    /\ xs[x].phase = "committed"
    /\ Goes(x, Refused)

\* The process stops, or the call's context is cancelled.
Abandon(x) ==
    /\ xs[x].phase \notin {"idle", "done"}
    /\ xs' = [xs EXCEPT ![x] = Refused]
    /\ fence' = IF fence = x THEN NoOne ELSE fence
    /\ UNCHANGED <<protocol, clock, dir, requests, markers, sessions, auth>>

-----------------------------------------------------------------------------
(* Administration.  Each command is one transaction under the fence        *)
(* (LockAPIKeyCreation) and appears at once.                               *)

Administers(d) ==
    /\ fence = NoOne
    /\ dir' = d
    /\ UNCHANGED <<protocol, clock, requests, markers, sessions, fence, xs, auth>>

DeactivateUser == dir.active /\ Administers([dir EXCEPT !.active = FALSE])

LinkSSOIdentity ==
    /\ ~dir.linked /\ dir.active
    /\ Administers([dir EXCEPT !.linked = TRUE])

CreateRoleBinding ==
    /\ dir.grants < MaxRevision /\ dir.active
    /\ Administers([dir EXCEPT !.grants = @ + 1])

UpdateSSOProviderTrustMaterial ==
    /\ dir.revision < MaxRevision
    /\ Administers([dir EXCEPT !.revision = @ + 1])

UpsertSAMLProviderBinding ==
    /\ protocol = "saml" /\ dir.binding < MaxRevision
    /\ Administers([dir EXCEPT !.binding = @ + 1])

\* CreateSSOSession: an administrator issues a session without groups.
CreateSSOSession(s) ==
    /\ fence = NoOne
    /\ xs[s].phase = "idle"
    /\ dir.active
    /\ xs' = [xs EXCEPT ![s] = Resting("done")]
    /\ \E lifetime \in Lifetimes :
          sessions' = [sessions EXCEPT ![s] =
              [NoSession EXCEPT !.state = "live", !.created = clock, !.used = clock,
                                !.expires = clock + lifetime]]
    /\ UNCHANGED <<protocol, clock, dir, requests, markers, fence, auth>>

\* RevokeSSOSession, RevokeCurrentSSOSession
RevokeSSOSession(s) ==
    /\ fence = NoOne
    /\ sessions[s].state = "live"
    /\ sessions' = [sessions EXCEPT ![s].state = "revoked"]
    /\ UNCHANGED <<protocol, clock, dir, requests, markers, fence, xs, auth>>

-----------------------------------------------------------------------------
(* Using a session.                                                        *)

\* Authenticate up to ValidateActiveSession: SessionsByPrefix, ActiveAt, and
\* SessionIdentity, one read-only snapshot of user and grants.
ReadIdentity(s) ==
    /\ auth = NoAuth
    /\ ActiveAt(sessions[s], clock)
    /\ dir.active
    /\ HasCapabilities(dir.grants, sessions[s].groups)
    /\ auth' = [session |-> s, grants |-> dir.grants]
    /\ UNCHANGED <<protocol, clock, dir, requests, markers, sessions, fence, xs>>

\* Mutant: the session's age is not looked at again.
Admissible_Aged(s) ==
    /\ dir.active
    /\ auth.grants = dir.grants
    /\ sessions[s].state = "live"

\* ValidateActiveSession admits the call: session, user and grants are read
\* again under row locks, and the clock after them.
Admissible(s) ==
    /\ dir.active
    /\ auth.grants = dir.grants
    /\ ActiveAt(sessions[s], clock)

\* The time an admitted call leaves in last_used_at.
Later(a, b) == IF a > b THEN a ELSE b

UsedAt(s) == Later(sessions[s].used, clock)

ValidateActiveSession ==
    /\ auth # NoAuth
    /\ LET s == auth.session
       IN  IF Admissible(s)
           THEN sessions' = [sessions EXCEPT ![s].used = UsedAt(s)]
           ELSE UNCHANGED sessions
    /\ auth' = NoAuth
    /\ UNCHANGED <<protocol, clock, dir, requests, markers, fence, xs>>

-----------------------------------------------------------------------------

Tick ==
    /\ clock < MaxClock
    /\ clock' = clock + 1
    /\ UNCHANGED <<protocol, dir, requests, markers, sessions, fence, xs, auth>>

ExchangeStep(x) ==
    \/ ReadProvider(x)
    \/ BindRequest(x)
    \/ VerifyCredential(x)
    \/ ReadLink(x)
    \/ ReadUser(x)
    \/ ReadGrants(x)
    \/ ValidateSSOExchangeState(x)
    \/ Consume(x)
    \/ Record(x)
    \/ Commit(x)
    \/ Return(x)

Administration ==
    \/ DeactivateUser
    \/ LinkSSOIdentity
    \/ CreateRoleBinding
    \/ UpdateSSOProviderTrustMaterial
    \/ UpsertSAMLProviderBinding
    \/ \E s \in Calls : CreateSSOSession(s)
    \/ \E s \in Calls : RevokeSSOSession(s)

Next ==
    \/ \E r \in Requests : BeginAuthentication(r)
    \/ \E x \in Calls : ExchangeStep(x) \/ Abandon(x)
    \/ Administration
    \/ \E s \in Calls : ReadIdentity(s)
    \/ ValidateActiveSession
    \/ Tick

Spec == Init /\ [][Next]_vars

-----------------------------------------------------------------------------
(* Properties.                                                             *)

\* A login request yields at most one session, whoever exchanges it and
\* however often, and the request stays consumed as long as its row is kept
\* ("consume server-owned authentication state exactly once").
OneSessionPerRequest ==
    \A s \in Calls : sessions[s].request # NoOne =>
        /\ requests[sessions[s].request].state \in {"consumed", "gone"}
        /\ \A t \in Calls \ {s} : sessions[t].request # sessions[s].request

\* No two sessions rest on one SAML assertion while its proof is valid: the
\* second was consumed only after the first proof had expired, although
\* markers and requests are pruned on different clocks.
OneSessionPerAssertion ==
    \A s, t \in Calls :
        s # t /\ sessions[s].assertion # NoOne
              /\ sessions[s].assertion = sessions[t].assertion =>
            \/ sessions[s].proof <= sessions[t].consumed
            \/ sessions[t].proof <= sessions[s].consumed

\* The login table is bounded, and no assertion marker outlives the request
\* it refers to (the foreign key of saml_assertion_consumptions).
LoginTableSound ==
    /\ Cardinality(Rows) <= MaxPending
    /\ \A m \in markers : requests[m.request].state = "consumed"

\* A session is committed only on the facts its decision was taken on, however
\* long ago: trust material, binding, link, user and grants are still those at
\* the commit.  Time may pass before the commit, so proof, login and session
\* are judged at the instant recorded as the login's consumption: the login was
\* pending, the proof valid and the session alive at that one instant.
IssuedOnCurrentFacts ==
    [][\A x \in Calls :
          sessions[x].request # sessions'[x].request =>
              /\ xs[x].row.print = TrustFingerprint(dir)
              /\ dir.linked /\ dir.active
              /\ HasCapabilities(dir.grants, sessions'[x].groups)
              /\ PendingAt(requests[sessions'[x].request], sessions'[x].consumed)
              /\ sessions'[x].consumed < sessions'[x].proof
              /\ ActiveAt(sessions'[x], sessions'[x].consumed)]_vars

Usable(s) == ActiveAt(sessions[s], clock) /\ dir.active

\* A session that is revoked, expired or idle, or whose user is deactivated,
\* never authenticates again: no call moves its last use, and no later step
\* makes it usable.
SessionDeathIsFinal ==
    [][\A s \in Calls : sessions[s].state # "none" /\ ~Usable(s) =>
          /\ sessions'[s].used = sessions[s].used
          /\ ~Usable(s)']_vars
=============================================================================
