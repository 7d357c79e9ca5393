--------------------------- MODULE SsoLoginProofs ---------------------------
(***************************************************************************)
(* Proofs about SsoLogin for any number of calls, login requests,          *)
(* assertions and sessions, and any lifetimes.                             *)
(*                                                                         *)
(* The invariants of the runs are not inductive: they say nothing of an    *)
(* exchange that has compared its snapshot and has not committed yet.      *)
(* ExchangeInv says what such an exchange may rely on.  The tenant's fence *)
(* has one holder, administration and other exchanges write only under it, *)
(* so from ValidateSSOExchangeState on the facts of the decision are those *)
(* of the directory, and from Consume on the login request is pending and  *)
(* no session rests on the assertion any more.  The checks of login, proof *)
(* and session read the clock at different times; Timely carries what each *)
(* of them says of the one time that is recorded.                          *)
(***************************************************************************)
EXTENDS SsoLogin, FiniteSetTheorems, TLAPS

\* The phases of an exchange that is inside its transaction, that has bound its
\* login request, and in which the request has been found consumable.
InTransaction == {"validated", "consumed", "recorded"}
Bound == {"bound", "verified", "linked", "user", "decided"} \cup InTransaction
Consuming == {"consumed", "recorded"}

\* The login request of an exchange e, as the exchange last saw it.
HoldsRequest(e) ==
    /\ e.phase \notin {"idle", "done"} =>
          e.request \in Requests /\ requests[e.request].state # "unborn"
    /\ e.phase \in Bound /\ requests[e.request].state # "gone" =>
          e.row.print = requests[e.request].print

\* What the decision to issue a session rests on: first the snapshot, then,
\* once it was compared under the fence, the directory itself.
Decided(e) ==
    /\ e.assertion # NoOne => e.proof # 0
    /\ e.issue => e.proof # 0 /\ e.phase \in {"decided", "committed"} \cup InTransaction
    /\ e.phase \in {"linked", "user"} => e.proof # 0 /\ e.seen.linked
    /\ e.phase = "user" => e.seen.active
    /\ e.phase = "decided" /\ e.issue =>
          /\ e.loaded = 3 /\ e.seen.linked /\ e.seen.active
          /\ HasCapabilities(e.seen.grants, e.groups)
    /\ e.phase \in InTransaction /\ e.issue =>
          /\ dir.linked /\ dir.active
          /\ HasCapabilities(dir.grants, e.groups)

\* What the transaction has found when it consumes the login.
Consumes(e) ==
    e.phase \in Consuming /\ e.proof # 0 =>
        /\ requests[e.request].state = "pending"
        /\ e.row.print = TrustFingerprint(dir)
        /\ e.assertion # NoOne =>
              \A s \in Calls : sessions[s].assertion = e.assertion =>
                  sessions[s].proof <= e.consumed

\* What held at the time the transaction recorded as the consumption: login and
\* proof were valid then, and the session, once it was looked at, alive.
Timely(e) ==
    e.phase \in Consuming /\ e.proof # 0 =>
        /\ PendingAt(requests[e.request], e.consumed)
        /\ e.now <= e.consumed /\ e.consumed <= clock /\ e.consumed < e.proof
        /\ e.phase = "recorded" /\ e.issue =>
              e.consumed < e.expires /\ e.consumed < e.now + IdleTimeout

Fits(e) ==
    e.now <= clock /\ HoldsRequest(e) /\ Decided(e) /\ Consumes(e) /\ Timely(e)

\* The fence is held by the exchange that is inside its transaction, and a call
\* has no session before it commits.
ExchangeInv ==
    \A x \in Calls :
        /\ fence = x => xs[x].phase \in InTransaction
        /\ xs[x].phase \in InTransaction => fence = x
        /\ xs[x].phase \notin {"committed", "done"} => sessions[x] = NoSession
        /\ Fits(xs[x])

\* A session is not from the future, and the marker of its assertion is kept
\* until its proof expires.
SessionInv ==
    \A s \in Calls :
        /\ sessions[s].created <= clock
        /\ sessions[s].assertion # NoOne =>
              \/ sessions[s].proof <= clock
              \/ \E m \in markers : /\ m.assertion = sessions[s].assertion
                                    /\ m.expires = sessions[s].proof

LoginInv ==
    /\ TypeOK /\ ExchangeInv /\ SessionInv
    /\ IsFiniteSet(Rows) /\ LoginTableSound
    /\ OneSessionPerRequest /\ OneSessionPerAssertion

LEMMA NoRecords ==
    /\ Unborn \in RequestRows /\ NoDirectory \in Directory
    /\ Resting("idle") \in ExchangeStates /\ Resting("done") \in ExchangeStates
    /\ NoSession \in SessionRows /\ NoAuth \in [session: Calls \cup {NoOne}, grants: 0..MaxRevision]
  <1>1. 0 \in 0..MaxRevision  BY SsoAssumption
  <1>2. Unborn \in RequestRows /\ NoDirectory \in Directory
    BY <1>1 DEF Unborn, RequestRows, NoDirectory, Directory
  <1>3. "idle" \in Phases /\ "done" \in Phases  BY DEF Phases
  <1>4. Resting("idle") \in ExchangeStates /\ Resting("done") \in ExchangeStates
    BY <1>2, <1>3 DEF Resting, ExchangeStates
  <1>5. NoSession \in SessionRows  BY DEF NoSession, SessionRows
  <1> QED  BY <1>1, <1>2, <1>4, <1>5 DEF NoAuth

\* An exchange that rests fits every state.
LEMMA RestingFits ==
    ASSUME clock \in Nat
    PROVE  Fits(Resting("idle")) /\ Fits(Resting("done"))
  BY DEF Fits, HoldsRequest, Decided, Consumes, Timely, Resting, Bound, InTransaction, Consuming

LEMMA InitLogin == Init => LoginInv
  <1> SUFFICES ASSUME Init PROVE LoginInv  OBVIOUS
  <1>1. clock \in Nat /\ 0 \in 0..MaxClock  BY SsoAssumption DEF Init
  <1>2. TypeOK  BY <1>1, NoRecords DEF Init, TypeOK
  <1>3. \A x \in Calls : Fits(xs[x])  BY <1>1, RestingFits DEF Init
  <1>4. ExchangeInv
    BY <1>3, SsoAssumption DEF Init, ExchangeInv, Resting, InTransaction
  <1>5. SessionInv  BY DEF Init, SessionInv, NoSession
  <1>6. Rows = {}  BY DEF Init, Rows, Unborn
  <1>7. IsFiniteSet(Rows) /\ Cardinality(Rows) = 0  BY <1>6, FS_EmptySet
  <1>8. LoginTableSound  BY <1>7, SsoAssumption DEF Init, LoginTableSound
  <1>9. OneSessionPerRequest /\ OneSessionPerAssertion
    BY DEF Init, OneSessionPerRequest, OneSessionPerAssertion, NoSession
  <1> QED  BY <1>2, <1>4, <1>5, <1>7, <1>8, <1>9 DEF LoginInv

\* The tables are as they were when neither they nor the sessions change.
LEMMA SameTables ==
    ASSUME LoginInv, UNCHANGED <<clock, requests, markers, sessions>>
    PROVE  /\ SessionInv' /\ IsFiniteSet(Rows)' /\ LoginTableSound'
           /\ OneSessionPerRequest' /\ OneSessionPerAssertion'
  <1>1. Rows' = Rows  BY DEF Rows
  <1>2. IsFiniteSet(Rows)' /\ LoginTableSound'
    BY <1>1 DEF LoginInv, LoginTableSound
  <1>3. SessionInv'  BY DEF LoginInv, SessionInv
  <1>4. OneSessionPerRequest' /\ OneSessionPerAssertion'
    BY DEF LoginInv, OneSessionPerRequest, OneSessionPerAssertion
  <1> QED  BY <1>2, <1>3, <1>4

\* A step of one exchange that writes no table.
LEMMA ExchangeMoves ==
    ASSUME LoginInv, NEW x \in Calls, NEW e \in ExchangeStates,
           xs' = [xs EXCEPT ![x] = e],
           UNCHANGED <<protocol, clock, dir, requests, markers, sessions, auth>>,
           fence' \in Calls \cup {NoOne},
           \A y \in Calls \ {x} : fence' = y => fence = y,
           \A y \in Calls \ {x} : fence = y => fence' = y,
           fence' = x => e.phase \in InTransaction,
           e.phase \in InTransaction => fence' = x,
           e.phase \notin {"committed", "done"} =>
               xs[x].phase \notin {"committed", "done"},
           Fits(e)
    PROVE  LoginInv'
  <1>1. TypeOK'  BY DEF LoginInv, TypeOK
  <1>2. xs'[x] = e /\ \A y \in Calls \ {x} : xs'[y] = xs[y]
    BY DEF LoginInv, TypeOK
  <1>3. ASSUME NEW y \in Calls, NEW f, xs'[y] = f, Fits(f) PROVE Fits(xs[y])'
    BY <1>3 DEF Fits, HoldsRequest, Decided, Consumes, Timely, TrustFingerprint, PendingAt
  <1>4. ASSUME NEW y \in Calls PROVE Fits(xs[y])'
    <2>1. CASE y = x  BY <1>2, <1>3, <2>1
    <2>2. CASE y # x  BY <1>2, <1>3, <2>2 DEF LoginInv, ExchangeInv
    <2> QED  BY <2>1, <2>2
  <1>5. ExchangeInv'  BY <1>2, <1>4 DEF LoginInv, ExchangeInv
  <1> QED  BY <1>1, <1>5, SameTables DEF LoginInv

\* An exchange that gives up rests, and the fence is free if it was its own.
LEMMA RollbackStep ==
    ASSUME LoginInv, NEW x \in Calls, xs' = [xs EXCEPT ![x] = Refused],
           UNCHANGED <<protocol, clock, dir, requests, markers, sessions, auth>>,
           \/ fence \in {x, NoOne} /\ fence' = NoOne
           \/ fence # x /\ fence' = fence
    PROVE  LoginInv'
  <1>1. Refused \in ExchangeStates /\ Refused.phase = "done"
    BY NoRecords DEF Refused, Resting
  <1>2. Fits(Refused)
    BY RestingFits, SsoAssumption DEF LoginInv, TypeOK, Refused
  <1>3. fence' \in Calls \cup {NoOne}  BY DEF LoginInv, TypeOK
  <1> QED  BY <1>1, <1>2, <1>3, SsoAssumption, ExchangeMoves DEF InTransaction

\* A step that changes nothing but the exchange, inside or outside the transaction.
LEMMA GoesStep ==
    ASSUME LoginInv, NEW x \in Calls, NEW e \in ExchangeStates, Goes(x, e), Fits(e),
           xs[x].phase \in InTransaction => e.phase \in InTransaction,
           e.phase \in InTransaction => xs[x].phase \in InTransaction,
           e.phase \notin {"committed", "done"} => xs[x].phase \notin {"committed", "done"}
    PROVE  LoginInv'
  <1>1. fence' = fence /\ fence \in Calls \cup {NoOne}  BY DEF Goes, LoginInv, TypeOK
  <1>2. /\ fence = x => xs[x].phase \in InTransaction
        /\ xs[x].phase \in InTransaction => fence = x
    BY DEF LoginInv, ExchangeInv
  <1>3. /\ xs' = [xs EXCEPT ![x] = e]
        /\ UNCHANGED <<protocol, clock, dir, requests, markers, sessions, auth>>
    BY DEF Goes
  <1> QED  BY <1>1, <1>2, <1>3, ExchangeMoves

LEMMA RefusedStep ==
    ASSUME LoginInv, NEW x \in Calls, Goes(x, Refused), xs[x].phase \notin InTransaction
    PROVE  LoginInv'
  <1>1. /\ xs' = [xs EXCEPT ![x] = Refused] /\ fence' = fence
        /\ UNCHANGED <<protocol, clock, dir, requests, markers, sessions, auth>>
    BY DEF Goes
  <1>2. fence # x  BY DEF LoginInv, ExchangeInv
  <1> QED  BY <1>1, <1>2, RollbackStep

\* What is known of an exchange before its step.
LEMMA ExchangeKnown ==
    ASSUME LoginInv, NEW x \in Calls
    PROVE  /\ xs[x] \in ExchangeStates /\ Fits(xs[x]) /\ dir \in Directory
           /\ clock \in Nat /\ requests \in [Requests -> RequestRows]
  BY SsoAssumption DEF LoginInv, TypeOK, ExchangeInv

LEMMA ReadProviderStep ==
    ASSUME LoginInv, NEW x \in Calls, ReadProvider(x)
    PROVE  LoginInv'
  <1>1. PICK r \in Requests, lifetime \in Lifetimes :
          /\ requests[r].state # "unborn"
          /\ Goes(x, [xs[x] EXCEPT !.phase = "provider", !.now = clock,
                                   !.expires = clock + lifetime, !.request = r,
                                   !.seen.revision = dir.revision])
    BY DEF ReadProvider
  <1> DEFINE e == [xs[x] EXCEPT !.phase = "provider", !.now = clock,
                                !.expires = clock + lifetime, !.request = r,
                                !.seen.revision = dir.revision]
  <1>2. xs[x].phase = "idle"  BY DEF ReadProvider
  <1>3. clock + lifetime \in Nat
    <2>1. lifetime \in Nat  BY SsoAssumption
    <2> QED  BY <2>1, ExchangeKnown
  <1>4. e \in ExchangeStates
    <2>1. xs[x].seen \in Directory  BY ExchangeKnown DEF ExchangeStates
    <2>2. [xs[x].seen EXCEPT !.revision = dir.revision] \in Directory
      BY <2>1, ExchangeKnown DEF Directory
    <2>3. "provider" \in Phases  BY DEF Phases
    <2> QED  BY <1>3, <2>2, <2>3, ExchangeKnown DEF ExchangeStates
  <1>5. /\ e.phase = "provider" /\ e.now = clock /\ e.request = r
        /\ e.proof = xs[x].proof /\ e.issue = xs[x].issue /\ e.assertion = xs[x].assertion
    BY ExchangeKnown DEF ExchangeStates
  <1> HIDE DEF e
  <1>6. Fits(e)
    BY <1>1, <1>2, <1>5, ExchangeKnown
    DEF Fits, HoldsRequest, Decided, Consumes, Timely, Bound, InTransaction, Consuming
  <1>7. Goes(x, e)  BY <1>1 DEF e
  <1> QED  BY <1>2, <1>4, <1>5, <1>6, <1>7, GoesStep DEF InTransaction

LEMMA BindRequestStep ==
    ASSUME LoginInv, NEW x \in Calls, BindRequest(x)
    PROVE  LoginInv'
  <1> DEFINE row == requests[xs[x].request]
             e == [xs[x] EXCEPT !.phase = "bound", !.row = row]
  <1>1. /\ xs[x].phase = "provider"
        /\ Goes(x, Refused) \/ Goes(x, e)
    BY DEF BindRequest
  <1>2. CASE Goes(x, Refused)  BY <1>1, <1>2, RefusedStep DEF InTransaction
  <1>3. CASE Goes(x, e)
    <2>1. xs[x].request \in Requests /\ row.state # "unborn"
      BY <1>1, ExchangeKnown DEF Fits, HoldsRequest
    <2>2. row \in RequestRows  BY <2>1, ExchangeKnown
    <2>3. e \in ExchangeStates  BY ZenonT(60), <2>2, ExchangeKnown DEF ExchangeStates, Phases
    <2>4. /\ e.phase = "bound" /\ e.now = xs[x].now /\ e.request = xs[x].request
          /\ e.row = row /\ e.proof = xs[x].proof /\ e.issue = xs[x].issue
          /\ e.assertion = xs[x].assertion
      BY ExchangeKnown DEF ExchangeStates
    <2> HIDE DEF e
    <2>5. Fits(e)
      BY <1>1, <2>1, <2>4, ExchangeKnown
      DEF Fits, HoldsRequest, Decided, Consumes, Timely, Bound, InTransaction, Consuming
    <2> QED  BY <1>1, <1>3, <2>3, <2>4, <2>5, GoesStep DEF InTransaction
  <1> QED  BY <1>1, <1>2, <1>3

LEMMA VerifyCredentialStep ==
    ASSUME LoginInv, NEW x \in Calls, VerifyCredential(x)
    PROVE  LoginInv'
  <1>1. xs[x].phase = "bound"  BY DEF VerifyCredential
  <1>2. CASE Goes(x, Refused)  BY <1>1, <1>2, RefusedStep DEF InTransaction
  <1>3. CASE Goes(x, [xs[x] EXCEPT !.phase = "verified"])
    <2> DEFINE e == [xs[x] EXCEPT !.phase = "verified"]
    <2>1. e \in ExchangeStates  BY ExchangeKnown DEF ExchangeStates, Phases
    <2>2. /\ e.phase = "verified" /\ e.now = xs[x].now /\ e.request = xs[x].request
          /\ e.row = xs[x].row /\ e.proof = xs[x].proof /\ e.issue = xs[x].issue
          /\ e.assertion = xs[x].assertion
      BY ExchangeKnown DEF ExchangeStates
    <2>3. Goes(x, e)  BY <1>3
    <2> HIDE DEF e
    <2>4. Fits(e)
      BY <1>1, <2>2, ExchangeKnown
      DEF Fits, HoldsRequest, Decided, Consumes, Timely, Bound, InTransaction, Consuming
    <2> QED  BY <1>1, <2>1, <2>2, <2>3, <2>4, GoesStep DEF InTransaction
  <1>4. ASSUME NEW lifetime \in ProofLifetimes, NEW groups \in GroupRoles,
               NEW a \in IF protocol = "saml" THEN Assertions ELSE {NoOne},
               NEW end \in SessionEnds(x, xs[x].now + lifetime),
               Goes(x, [xs[x] EXCEPT !.phase = "verified", !.proof = xs[x].now + lifetime,
                                     !.assertion = a, !.groups = groups, !.expires = end])
        PROVE  LoginInv'
    <2> DEFINE p == xs[x].now + lifetime
               e == [xs[x] EXCEPT !.phase = "verified", !.proof = p,
                                  !.assertion = a, !.groups = groups, !.expires = end]
    <2>1. p \in Nat /\ p # 0
      <3>1. xs[x].now \in Nat /\ lifetime \in Nat \ {0}
        BY ExchangeKnown, SsoAssumption DEF ExchangeStates
      <3> QED  BY <3>1
    <2>2. a \in Assertions \cup {NoOne} /\ groups \in BOOLEAN  BY SsoAssumption
    <2>3. end \in Nat
      <3>1. xs[x].now \in Nat /\ xs[x].expires \in Nat /\ SessionLimits \subseteq Nat
        BY ExchangeKnown, SsoAssumption DEF ExchangeStates
      <3> QED  BY <3>1 DEF SessionEnds
    <2>4. Goes(x, e)  BY <1>4
    <2> HIDE DEF p
    <2>5. e \in ExchangeStates
      BY ZenonT(60), <2>1, <2>2, <2>3, ExchangeKnown DEF ExchangeStates, Phases
    <2>6. /\ e.phase = "verified" /\ e.now = xs[x].now /\ e.request = xs[x].request
          /\ e.row = xs[x].row /\ e.proof = p /\ e.issue = xs[x].issue
      BY ExchangeKnown DEF ExchangeStates
    <2> HIDE DEF e
    <2>7. Fits(e)
      BY <1>1, <2>1, <2>6, ExchangeKnown
      DEF Fits, HoldsRequest, Decided, Consumes, Timely, Bound, InTransaction, Consuming
    <2> QED  BY <1>1, <2>4, <2>5, <2>6, <2>7, GoesStep DEF InTransaction
  <1> QED  BY <1>2, <1>3, <1>4 DEF VerifyCredential

\* A denial keeps everything but the phase and the decision.
LEMMA DeniedStep ==
    ASSUME LoginInv, NEW x \in Calls, NEW s \in ExchangeStates, Goes(x, Denied(s)),
           xs[x].phase \in {"verified", "linked", "user"},
           s.now = xs[x].now, s.request = xs[x].request, s.row = xs[x].row,
           s.proof = xs[x].proof, s.assertion = xs[x].assertion
    PROVE  LoginInv'
  <1> DEFINE e == Denied(s)
  <1>1. e \in ExchangeStates  BY DEF ExchangeStates, Phases, Denied
  <1>2. /\ e.phase = "decided" /\ e.issue = FALSE /\ e.now = s.now
        /\ e.request = s.request /\ e.row = s.row /\ e.proof = s.proof
        /\ e.assertion = s.assertion
    BY DEF ExchangeStates, Denied
  <1> HIDE DEF e
  <1>3. Fits(e)
    BY <1>2, ExchangeKnown
    DEF Fits, HoldsRequest, Decided, Consumes, Timely, Bound, InTransaction, Consuming
  <1>4. Goes(x, e)  BY DEF e
  <1> QED  BY <1>1, <1>2, <1>3, <1>4, GoesStep DEF InTransaction

LEMMA ReadLinkStep ==
    ASSUME LoginInv, NEW x \in Calls, ReadLink(x)
    PROVE  LoginInv'
  <1> DEFINE s == [xs[x] EXCEPT !.seen.linked = dir.linked, !.loaded = 1]
             e == [s EXCEPT !.phase = "linked"]
  <1>1. /\ xs[x].phase = "verified"
        /\ Goes(x, Denied(s)) \/ (s.proof # 0 /\ dir.linked /\ Goes(x, e))
    <2>1. CASE s.proof = 0 \/ ~dir.linked  BY <2>1 DEF ReadLink
    <2>2. CASE ~(s.proof = 0 \/ ~dir.linked)  BY <2>2 DEF ReadLink
    <2> QED  BY <2>1, <2>2
  <1>2. xs[x].seen \in Directory  BY ExchangeKnown DEF ExchangeStates
  <1>3. /\ [xs[x].seen EXCEPT !.linked = dir.linked] \in Directory
        /\ [xs[x].seen EXCEPT !.linked = dir.linked].linked = dir.linked
    BY <1>2, ExchangeKnown DEF Directory
  <1>4. /\ s \in ExchangeStates /\ s.now = xs[x].now /\ s.request = xs[x].request
        /\ s.row = xs[x].row /\ s.proof = xs[x].proof /\ s.assertion = xs[x].assertion
        /\ s.issue = xs[x].issue
        /\ s.seen = [xs[x].seen EXCEPT !.linked = dir.linked]
    <2>1. 1 \in 0..3  OBVIOUS
    <2>2. s \in ExchangeStates  BY <1>3, <2>1, ExchangeKnown DEF ExchangeStates
    <2>3. s.seen = [xs[x].seen EXCEPT !.linked = dir.linked]
      BY ExchangeKnown DEF ExchangeStates
    <2>4. /\ s.now = xs[x].now /\ s.request = xs[x].request
          /\ s.row = xs[x].row /\ s.proof = xs[x].proof /\ s.assertion = xs[x].assertion
          /\ s.issue = xs[x].issue /\ s.loaded = 1
      BY ExchangeKnown DEF ExchangeStates
    <2> QED  BY <2>2, <2>3, <2>4
  <1> HIDE DEF s
  <1>5. CASE Goes(x, Denied(s))  BY <1>1, <1>4, <1>5, DeniedStep
  <1>6. CASE s.proof # 0 /\ dir.linked /\ Goes(x, e)
    <2>1. e \in ExchangeStates  BY <1>4 DEF ExchangeStates, Phases
    <2>2. /\ e.phase = "linked" /\ e.now = s.now /\ e.request = s.request
          /\ e.row = s.row /\ e.proof = s.proof /\ e.assertion = s.assertion
          /\ e.issue = s.issue /\ e.seen = s.seen
      BY <1>4 DEF ExchangeStates
    <2> HIDE DEF e
    <2>3. e.seen.linked  BY <1>3, <1>4, <1>6, <2>2
    <2>4. Fits(e)
      BY <1>1, <1>4, <1>6, <2>2, <2>3, ExchangeKnown
      DEF Fits, HoldsRequest, Decided, Consumes, Timely, Bound, InTransaction, Consuming
    <2> QED  BY <1>1, <1>6, <2>1, <2>2, <2>4, GoesStep DEF InTransaction
  <1> QED  BY <1>1, <1>5, <1>6

LEMMA ReadUserStep ==
    ASSUME LoginInv, NEW x \in Calls, ReadUser(x)
    PROVE  LoginInv'
  <1> DEFINE s == [xs[x] EXCEPT !.seen.active = dir.active, !.loaded = 2]
             e == [s EXCEPT !.phase = "user"]
  <1>1. /\ xs[x].phase = "linked"
        /\ Goes(x, Denied(s)) \/ (dir.active /\ Goes(x, e))
    <2>1. CASE dir.active  BY <2>1 DEF ReadUser
    <2>2. CASE ~dir.active  BY <2>2 DEF ReadUser
    <2> QED  BY <2>1, <2>2
  <1>2. xs[x].seen \in Directory  BY ExchangeKnown DEF ExchangeStates
  <1>3. /\ [xs[x].seen EXCEPT !.active = dir.active] \in Directory
        /\ [xs[x].seen EXCEPT !.active = dir.active].active = dir.active
        /\ [xs[x].seen EXCEPT !.active = dir.active].linked = xs[x].seen.linked
    BY <1>2, ExchangeKnown DEF Directory
  <1>4. /\ s \in ExchangeStates /\ s.now = xs[x].now /\ s.request = xs[x].request
        /\ s.row = xs[x].row /\ s.proof = xs[x].proof /\ s.assertion = xs[x].assertion
        /\ s.issue = xs[x].issue
        /\ s.seen = [xs[x].seen EXCEPT !.active = dir.active]
    <2>1. 2 \in 0..3  OBVIOUS
    <2>2. s \in ExchangeStates  BY <1>3, <2>1, ExchangeKnown DEF ExchangeStates
    <2>3. s.seen = [xs[x].seen EXCEPT !.active = dir.active]
      BY ExchangeKnown DEF ExchangeStates
    <2>4. /\ s.now = xs[x].now /\ s.request = xs[x].request
          /\ s.row = xs[x].row /\ s.proof = xs[x].proof /\ s.assertion = xs[x].assertion
          /\ s.issue = xs[x].issue /\ s.loaded = 2
      BY ExchangeKnown DEF ExchangeStates
    <2> QED  BY <2>2, <2>3, <2>4
  <1> HIDE DEF s
  <1>5. CASE Goes(x, Denied(s))  BY <1>1, <1>4, <1>5, DeniedStep
  <1>6. CASE dir.active /\ Goes(x, e)
    <2>1. e \in ExchangeStates  BY <1>4 DEF ExchangeStates, Phases
    <2>2. /\ e.phase = "user" /\ e.now = s.now /\ e.request = s.request
          /\ e.row = s.row /\ e.proof = s.proof /\ e.assertion = s.assertion
          /\ e.issue = s.issue /\ e.seen = s.seen
      BY <1>4 DEF ExchangeStates
    <2> HIDE DEF e
    <2>3. xs[x].seen.linked  BY <1>1, ExchangeKnown DEF Fits, Decided
    <2>4. e.seen.linked /\ e.seen.active  BY <1>3, <1>4, <1>6, <2>2, <2>3
    <2>5. Fits(e)
      BY <1>1, <1>4, <2>2, <2>4, ExchangeKnown
      DEF Fits, HoldsRequest, Decided, Consumes, Timely, Bound, InTransaction, Consuming
    <2> QED  BY <1>1, <1>6, <2>1, <2>2, <2>5, GoesStep DEF InTransaction
  <1> QED  BY <1>1, <1>5, <1>6

LEMMA ReadGrantsStep ==
    ASSUME LoginInv, NEW x \in Calls, ReadGrants(x)
    PROVE  LoginInv'
  <1> DEFINE s == [xs[x] EXCEPT !.seen.grants = dir.grants, !.loaded = 3]
             e == [s EXCEPT !.phase = "decided", !.issue = TRUE]
  <1>1. /\ xs[x].phase = "user"
        /\ Goes(x, Denied(s)) \/ (HasCapabilities(dir.grants, s.groups) /\ Goes(x, e))
    <2>1. CASE HasCapabilities(dir.grants, s.groups)  BY <2>1 DEF ReadGrants
    <2>2. CASE ~HasCapabilities(dir.grants, s.groups)  BY <2>2 DEF ReadGrants
    <2> QED  BY <2>1, <2>2
  <1>2. xs[x].seen \in Directory  BY ExchangeKnown DEF ExchangeStates
  <1>3. /\ [xs[x].seen EXCEPT !.grants = dir.grants] \in Directory
        /\ [xs[x].seen EXCEPT !.grants = dir.grants].grants = dir.grants
        /\ [xs[x].seen EXCEPT !.grants = dir.grants].linked = xs[x].seen.linked
        /\ [xs[x].seen EXCEPT !.grants = dir.grants].active = xs[x].seen.active
    BY <1>2, ExchangeKnown DEF Directory
  <1>4. /\ s \in ExchangeStates /\ s.now = xs[x].now /\ s.request = xs[x].request
        /\ s.row = xs[x].row /\ s.proof = xs[x].proof /\ s.assertion = xs[x].assertion
        /\ s.loaded = 3
        /\ s.seen = [xs[x].seen EXCEPT !.grants = dir.grants]
    <2>1. 3 \in 0..3  OBVIOUS
    <2>2. s \in ExchangeStates  BY <1>3, <2>1, ExchangeKnown DEF ExchangeStates
    <2>3. s.seen = [xs[x].seen EXCEPT !.grants = dir.grants]
      BY ExchangeKnown DEF ExchangeStates
    <2>4. /\ s.now = xs[x].now /\ s.request = xs[x].request
          /\ s.row = xs[x].row /\ s.proof = xs[x].proof /\ s.assertion = xs[x].assertion
          /\ s.issue = xs[x].issue /\ s.loaded = 3
      BY ExchangeKnown DEF ExchangeStates
    <2> QED  BY <2>2, <2>3, <2>4
  <1> HIDE DEF s
  <1>5. CASE Goes(x, Denied(s))  BY <1>1, <1>4, <1>5, DeniedStep
  <1>6. CASE HasCapabilities(dir.grants, s.groups) /\ Goes(x, e)
    <2>1. e \in ExchangeStates  BY <1>4 DEF ExchangeStates, Phases
    <2>2. /\ e.phase = "decided" /\ e.now = s.now /\ e.request = s.request
          /\ e.row = s.row /\ e.proof = s.proof /\ e.assertion = s.assertion
          /\ e.seen = s.seen /\ e.loaded = s.loaded /\ e.groups = s.groups
      BY <1>4 DEF ExchangeStates
    <2> HIDE DEF e
    <2>3. xs[x].proof # 0 /\ xs[x].seen.linked /\ xs[x].seen.active
      BY <1>1, ExchangeKnown DEF Fits, Decided
    <2>4. /\ e.seen.linked /\ e.seen.active /\ e.loaded = 3
          /\ HasCapabilities(e.seen.grants, e.groups)
      BY <1>3, <1>4, <1>6, <2>2, <2>3
    <2>5. Fits(e)
      BY <1>1, <1>4, <2>2, <2>3, <2>4, ExchangeKnown
      DEF Fits, HoldsRequest, Decided, Consumes, Timely, Bound, InTransaction, Consuming
    <2> QED  BY <1>1, <1>6, <2>1, <2>2, <2>5, GoesStep DEF InTransaction
  <1> QED  BY <1>1, <1>5, <1>6

\* From here on the facts of the decision are those of the directory.
LEMMA ValidateStep ==
    ASSUME LoginInv, NEW x \in Calls, ValidateSSOExchangeState(x)
    PROVE  LoginInv'
  <1> DEFINE e == [xs[x] EXCEPT !.phase = "validated", !.seen = NoDirectory, !.loaded = 0]
  <1>1. xs[x].phase = "decided" /\ fence = NoOne  BY DEF ValidateSSOExchangeState
  <1>2. CASE RollsBack(x)  BY <1>1, <1>2, RollbackStep DEF RollsBack
  <1>3. CASE /\ SnapshotCurrent(x)
             /\ xs' = [xs EXCEPT ![x].phase = "validated", ![x].seen = NoDirectory,
                                 ![x].loaded = 0]
             /\ fence' = x
             /\ UNCHANGED <<protocol, clock, dir, requests, markers, sessions, auth>>
    <2>0. xs \in [Calls -> ExchangeStates]  BY DEF LoginInv, TypeOK
    <2>1. xs' = [xs EXCEPT ![x] = e]  BY <1>3, <2>0
    <2>2. e \in ExchangeStates
      <3>1. "validated" \in Phases /\ 0 \in 0..3 /\ NoDirectory \in Directory
        BY NoRecords DEF Phases
      <3> QED  BY <3>1, ExchangeKnown DEF ExchangeStates
    <2>3. /\ e.phase = "validated" /\ e.now = xs[x].now /\ e.request = xs[x].request
          /\ e.row = xs[x].row /\ e.proof = xs[x].proof /\ e.issue = xs[x].issue
          /\ e.assertion = xs[x].assertion /\ e.groups = xs[x].groups
      BY ExchangeKnown DEF ExchangeStates
    <2> HIDE DEF e
    <2>4. ASSUME xs[x].issue
          PROVE  dir.linked /\ dir.active /\ HasCapabilities(dir.grants, xs[x].groups)
      BY <1>1, <1>3, <2>4, ExchangeKnown DEF Fits, Decided, SnapshotCurrent
    <2>5. Fits(e)
      BY <1>1, <2>3, <2>4, ExchangeKnown
      DEF Fits, HoldsRequest, Decided, Consumes, Timely, Bound, InTransaction, Consuming
    <2> QED
      BY <1>1, <1>3, <2>1, <2>2, <2>3, <2>5, ExchangeMoves, SsoAssumption
      DEF InTransaction
  <1> QED  BY <1>2, <1>3 DEF ValidateSSOExchangeState

\* No session rests on an assertion that has no marker, unless its proof has
\* expired.
LEMMA ConsumeStep ==
    ASSUME LoginInv, NEW x \in Calls, Consume(x)
    PROVE  LoginInv'
  <1>1. /\ xs[x].phase = "validated" /\ fence = x
    BY DEF Consume, LoginInv, ExchangeInv, InTransaction
  <1>2. CASE RollsBack(x)  BY <1>1, <1>2, RollbackStep DEF RollsBack
  <1>3. ASSUME NEW e, Goes(x, e), e \in ExchangeStates,
               e.phase = "consumed", e.now = xs[x].now, e.request = xs[x].request,
               e.row = xs[x].row, e.proof = xs[x].proof, e.issue = xs[x].issue,
               e.assertion = xs[x].assertion, e.groups = xs[x].groups, Consumes(e), Timely(e)
        PROVE  LoginInv'
    <2>1. Fits(e)
      BY <1>1, <1>3, ExchangeKnown
      DEF Fits, HoldsRequest, Decided, Bound, InTransaction
    <2> QED  BY <1>1, <1>3, <2>1, GoesStep DEF InTransaction
  <1>4. CASE xs[x].proof = 0 /\ Goes(x, [xs[x] EXCEPT !.phase = "consumed"])
    <2> DEFINE e == [xs[x] EXCEPT !.phase = "consumed"]
    <2>1. /\ e \in ExchangeStates
          /\ e.phase = "consumed" /\ e.now = xs[x].now /\ e.request = xs[x].request
          /\ e.row = xs[x].row /\ e.proof = xs[x].proof /\ e.issue = xs[x].issue
          /\ e.assertion = xs[x].assertion /\ e.groups = xs[x].groups
      BY ExchangeKnown DEF ExchangeStates, Phases
    <2>2. Goes(x, e)  BY <1>4
    <2> HIDE DEF e
    <2>3. Consumes(e) /\ Timely(e)  BY <1>4, <2>1 DEF Consumes, Timely
    <2> QED  BY <1>3, <2>1, <2>2, <2>3
  <1>5. CASE /\ xs[x].proof # 0 /\ Consumable(x)
             /\ Goes(x, [xs[x] EXCEPT !.phase = "consumed", !.consumed = clock])
    <2> DEFINE e == [xs[x] EXCEPT !.phase = "consumed", !.consumed = clock]
    <2>1. /\ e \in ExchangeStates
          /\ e.phase = "consumed" /\ e.now = xs[x].now /\ e.request = xs[x].request
          /\ e.row = xs[x].row /\ e.proof = xs[x].proof /\ e.issue = xs[x].issue
          /\ e.assertion = xs[x].assertion /\ e.groups = xs[x].groups
          /\ e.consumed = clock
      BY ExchangeKnown DEF ExchangeStates, Phases
    <2>2. Goes(x, e)  BY <1>5
    <2> HIDE DEF e
    <2>3. /\ requests[xs[x].request].state = "pending"
          /\ xs[x].row.print = TrustFingerprint(dir)
      BY <1>1, <1>5, ExchangeKnown
      DEF Consumable, PendingAt, Fits, HoldsRequest, Bound, InTransaction
    <2>4. ASSUME NEW s \in Calls, e.assertion # NoOne, sessions[s].assertion = e.assertion
          PROVE  sessions[s].proof <= clock
      BY <1>5, <2>1, <2>4 DEF LoginInv, SessionInv, Consumable
    <2>5. Consumes(e)  BY <2>1, <2>3, <2>4 DEF Consumes
    <2>6. Timely(e)
      <3>1. PendingAt(requests[xs[x].request], clock) /\ clock < xs[x].proof
        BY <1>5 DEF Consumable
      <3>2. xs[x].now <= clock /\ clock \in Nat  BY ExchangeKnown DEF Fits
      <3> QED  BY <2>1, <3>1, <3>2 DEF Timely
    <2> QED  BY <1>3, <2>1, <2>2, <2>5, <2>6
  <1> QED  BY <1>2, <1>4, <1>5 DEF Consume

LEMMA RecordStep ==
    ASSUME LoginInv, NEW x \in Calls, Record(x)
    PROVE  LoginInv'
  <1>1. xs[x].phase = "consumed" /\ fence = x
    BY DEF Record, LoginInv, ExchangeInv, InTransaction
  <1>2. CASE RollsBack(x)  BY <1>1, <1>2, RollbackStep DEF RollsBack
  <1>3. CASE /\ xs[x].issue => clock < xs[x].expires /\ ActiveAt(SessionOf(x), clock)
             /\ Goes(x, [xs[x] EXCEPT !.phase = "recorded"])
    <2> DEFINE e == [xs[x] EXCEPT !.phase = "recorded"]
    <2>1. /\ e \in ExchangeStates
          /\ e.phase = "recorded" /\ e.now = xs[x].now /\ e.request = xs[x].request
          /\ e.row = xs[x].row /\ e.proof = xs[x].proof /\ e.issue = xs[x].issue
          /\ e.assertion = xs[x].assertion /\ e.groups = xs[x].groups
          /\ e.consumed = xs[x].consumed /\ e.expires = xs[x].expires
      BY ExchangeKnown DEF ExchangeStates, Phases
    <2>2. Goes(x, e)  BY <1>3
    <2> HIDE DEF e
    <2>3. HoldsRequest(e) /\ Decided(e) /\ Consumes(e) /\ e.now <= clock
      BY <1>1, <2>1, ExchangeKnown
      DEF Fits, HoldsRequest, Decided, Consumes, Bound, InTransaction, Consuming
    <2>4. Timely(e)
      <3>1. ASSUME xs[x].proof # 0
            PROVE  /\ PendingAt(requests[xs[x].request], xs[x].consumed)
                   /\ xs[x].now <= xs[x].consumed /\ xs[x].consumed <= clock
                   /\ xs[x].consumed < xs[x].proof
        BY <1>1, <3>1, ExchangeKnown DEF Fits, Timely, Consuming
      <3>2. ASSUME xs[x].proof # 0, xs[x].issue
            PROVE  /\ xs[x].consumed < xs[x].expires
                   /\ xs[x].consumed < xs[x].now + IdleTimeout
        <4>1. clock < xs[x].expires /\ clock < xs[x].now + IdleTimeout
          BY <1>3, <3>2 DEF ActiveAt, SessionOf
        <4>2. /\ xs[x].now \in Nat /\ xs[x].expires \in Nat /\ xs[x].consumed \in Nat
              /\ clock \in Nat /\ IdleTimeout \in Nat
          BY ExchangeKnown, SsoAssumption DEF ExchangeStates
        <4> QED  BY <3>1, <3>2, <4>1, <4>2
      <3> QED  BY <2>1, <3>1, <3>2 DEF Timely
    <2> QED  BY <1>1, <2>1, <2>2, <2>3, <2>4, GoesStep DEF InTransaction, Fits
  <1> QED  BY <1>2, <1>3 DEF Record

\* An exchange outside its transaction relies on nothing but its login request,
\* which is never unborn again and never changes its fingerprint.
LEMMA OutsideFits ==
    ASSUME NEW y \in Calls, xs'[y] = xs[y], Fits(xs[y]), xs[y] \in ExchangeStates,
           xs[y].phase \notin InTransaction,
           clock \in Nat, clock' \in Nat, clock <= clock',
           \A r \in Requests : requests[r].state # "unborn" =>
               /\ requests'[r].state # "unborn"
               /\ requests'[r].state # "gone" =>
                     requests[r].state # "gone" /\ requests'[r].print = requests[r].print
    PROVE  Fits(xs[y])'
  <1>1. (xs[y].now <= clock)'
    <2>1. xs[y].now \in Nat /\ xs[y].now <= clock  BY DEF ExchangeStates, Fits
    <2>2. xs'[y].now \in Nat /\ xs'[y].now <= clock  BY <2>1
    <2> QED  BY <2>2
  <1>2. HoldsRequest(xs[y])'
    <2>1. xs[y].phase \in Bound => xs[y].phase \notin {"idle", "done"}
      BY DEF Bound, InTransaction
    <2> QED  BY <2>1 DEF Fits, HoldsRequest
  <1>3. Decided(xs[y])'  BY DEF Fits, Decided
  <1>4. Consumes(xs[y])' /\ Timely(xs[y])'
    BY DEF Consumes, Timely, Consuming, InTransaction
  <1> QED  BY <1>1, <1>2, <1>3, <1>4 DEF Fits

\* An exchange inside its transaction is not disturbed by what happens outside
\* the fence.
LEMMA UndisturbedFits ==
    ASSUME NEW y \in Calls, xs'[y] = xs[y], Fits(xs[y]), xs[y] \in ExchangeStates,
           clock \in Nat, clock' \in Nat, clock <= clock',
           UNCHANGED <<protocol, dir, requests>>,
           \A s \in Calls : /\ sessions'[s].assertion = sessions[s].assertion
                            /\ sessions'[s].proof = sessions[s].proof
    PROVE  Fits(xs[y])'
  <1>1. (xs[y].now <= clock)'
    <2>1. xs[y].now \in Nat /\ xs[y].now <= clock  BY DEF ExchangeStates, Fits
    <2>2. xs'[y].now \in Nat /\ xs'[y].now <= clock  BY <2>1
    <2> QED  BY <2>2
  <1>2. HoldsRequest(xs[y])'  BY DEF Fits, HoldsRequest
  <1>3. Decided(xs[y])'  BY DEF Fits, Decided
  <1>4. Consumes(xs[y])'  BY DEF Fits, Consumes, TrustFingerprint
  <1>5. Timely(xs[y])'
    <2>1. xs[y].consumed \in Nat  BY DEF ExchangeStates
    <2>2. xs[y].consumed <= clock => xs[y].consumed <= clock'  BY <2>1
    <2> QED  BY <2>2 DEF Fits, Timely, PendingAt
  <1> QED  BY <1>1, <1>2, <1>3, <1>4, <1>5 DEF Fits

\* While the fence is free nobody is inside a transaction.
LEMMA FenceFree ==
    ASSUME LoginInv, fence = NoOne
    PROVE  \A y \in Calls : xs[y].phase \notin InTransaction
  BY SsoAssumption DEF LoginInv, ExchangeInv

\* The commit: the login request goes from pending to consumed, its marker and
\* the session appear together.
LEMMA CommitStep ==
    ASSUME LoginInv, NEW x \in Calls, Commit(x)
    PROVE  LoginInv'
  <1> DEFINE g == xs[x]
             q == xs[x].request
             mark == [assertion |-> xs[x].assertion, request |-> xs[x].request,
                      expires |-> xs[x].proof]
  <1>1. g.phase = "recorded" /\ fence = x
    BY DEF Commit, LoginInv, ExchangeInv, InTransaction
  <1>2. CASE /\ \/ g.proof # 0 /\ requests' = [requests EXCEPT ![q].state = "consumed"]
                \/ g.proof = 0 /\ requests' = requests
             /\ \/ g.assertion # NoOne /\ markers' = markers \cup {mark}
                \/ g.assertion = NoOne /\ markers' = markers
             /\ \/ /\ g.issue /\ sessions' = [sessions EXCEPT ![x] = SessionOf(x)]
                   /\ xs' = [xs EXCEPT ![x].phase = "committed"]
                \/ ~g.issue /\ sessions' = sessions /\ xs' = [xs EXCEPT ![x] = Refused]
             /\ fence' = NoOne
             /\ UNCHANGED <<protocol, clock, dir, auth>>
    <2>1. /\ g \in ExchangeStates /\ Fits(g) /\ clock \in Nat
          /\ requests \in [Requests -> RequestRows] /\ sessions \in [Calls -> SessionRows]
          /\ xs \in [Calls -> ExchangeStates] /\ markers \subseteq Markers
      BY ExchangeKnown DEF LoginInv, TypeOK
    <2>2. /\ q \in Requests /\ requests[q].state # "unborn"
          /\ g.proof # 0 => requests[q].state = "pending"
      BY <1>1, <2>1 DEF Fits, HoldsRequest, Consumes, Consuming
    <2>3. /\ g.assertion # NoOne => g.proof # 0
          /\ g.issue => g.proof # 0
      BY <2>1 DEF Fits, Decided
    <2>4. ASSUME NEW r \in Requests
          PROVE  /\ r # q => requests'[r] = requests[r]
                 /\ requests'[r].print = requests[r].print
                 /\ g.proof = 0 => requests'[r] = requests[r]
                 /\ r = q /\ g.proof # 0 => requests'[r].state = "consumed"
      BY <1>2, <2>1, <2>2 DEF RequestRows
    <2>5. requests' \in [Requests -> RequestRows]
      BY <1>2, <2>1, <2>2 DEF RequestRows
    <2>6. markers' \subseteq Markers
      BY <1>2, <2>1, <2>2 DEF Markers, ExchangeStates
    <2>7. SessionOf(x) \in SessionRows
      BY <2>1 DEF SessionOf, SessionRows, ExchangeStates
    <2>8. /\ sessions' \in [Calls -> SessionRows]
          /\ \A s \in Calls : s # x => sessions'[s] = sessions[s]
          /\ g.issue => sessions'[x] = SessionOf(x)
          /\ ~g.issue => sessions'[x] = sessions[x]
      BY <1>2, <2>1, <2>7
    <2>9. /\ xs' \in [Calls -> ExchangeStates]
          /\ \A y \in Calls : y # x => xs'[y] = xs[y]
          /\ g.issue => xs'[x] = [g EXCEPT !.phase = "committed"]
          /\ ~g.issue => xs'[x] = Refused
      <3>1. "committed" \in Phases  BY DEF Phases
      <3>2. Refused \in ExchangeStates  BY NoRecords DEF Refused
      <3>3. [g EXCEPT !.phase = "committed"] \in ExchangeStates
        BY <2>1, <3>1 DEF ExchangeStates
      <3>4. CASE g.issue  BY <1>2, <2>1, <3>3, <3>4
      <3>5. CASE ~g.issue  BY <1>2, <2>1, <3>2, <3>5
      <3> QED  BY <3>4, <3>5
    <2>10. TypeOK'
      BY <1>2, <2>5, <2>6, <2>8, <2>9 DEF LoginInv, TypeOK
    <2>11. \A y \in Calls \ {x} : xs[y].phase \notin InTransaction
      BY <1>1 DEF LoginInv, ExchangeInv
    <2>12. ASSUME NEW y \in Calls PROVE Fits(xs[y])'
      <3>1. CASE y # x
        <4>1. xs[y] \in ExchangeStates /\ Fits(xs[y])  BY <3>1, ExchangeKnown
        <4>2. \A r \in Requests : requests[r].state # "unborn" =>
                /\ requests'[r].state # "unborn"
                /\ requests'[r].state # "gone" =>
                      requests[r].state # "gone" /\ requests'[r].print = requests[r].print
          BY <2>2, <2>4
        <4>3. clock' \in Nat /\ clock <= clock'  BY <1>2, <2>1
        <4> QED  BY <2>1, <2>9, <2>11, <3>1, <4>1, <4>2, <4>3, OutsideFits
      <3>2. CASE y = x /\ g.issue
        <4> DEFINE e == [g EXCEPT !.phase = "committed"]
        <4>1. /\ e.phase = "committed" /\ e.now = g.now /\ e.request = q
              /\ e.proof = g.proof /\ e.assertion = g.assertion
          BY <2>1 DEF ExchangeStates
        <4>2. xs'[y] = e  BY <2>9, <3>2
        <4> HIDE DEF e
        <4>3. xs'[y].now <= clock'  BY <1>2, <2>1, <4>1, <4>2 DEF Fits
        <4>4. requests'[q].state # "unborn"  BY <2>2, <2>4
        <4>5. HoldsRequest(xs[y])'
          BY <2>2, <4>1, <4>2, <4>4 DEF HoldsRequest, Bound, InTransaction
        <4>6. Decided(xs[y])'  BY <2>3, <3>2, <4>1, <4>2 DEF Decided, InTransaction
        <4>7. Consumes(xs[y])' /\ Timely(xs[y])'
          BY <4>1, <4>2 DEF Consumes, Timely, Consuming
        <4> QED  BY <4>3, <4>5, <4>6, <4>7 DEF Fits
      <3>3. CASE y = x /\ ~g.issue
        <4>1. xs'[y] = Resting("done") /\ clock' \in Nat
          BY <1>2, <2>1, <2>9, <3>3 DEF Refused
        <4> QED
          BY <4>1 DEF Fits, HoldsRequest, Decided, Consumes, Timely, Resting, Bound,
                      InTransaction, Consuming
      <3> QED  BY <3>1, <3>2, <3>3
    <2>13. ExchangeInv'
      <3>1. ASSUME NEW y \in Calls
            PROVE  /\ xs'[y].phase \notin InTransaction
                   /\ xs'[y].phase \notin {"committed", "done"} => sessions'[y] = NoSession
        <4>1. CASE y # x
          BY <2>8, <2>9, <2>11, <4>1 DEF LoginInv, ExchangeInv
        <4>2. CASE y = x
          <5>1. xs'[y].phase \in {"committed", "done"}
            BY <2>1, <2>9, <4>2 DEF Refused, Resting, ExchangeStates
          <5> QED  BY <5>1 DEF InTransaction
        <4> QED  BY <4>1, <4>2
      <3> QED  BY <1>2, <2>12, <3>1, SsoAssumption DEF ExchangeInv
    <2>14. /\ SessionOf(x).created = g.now /\ SessionOf(x).request = q
           /\ SessionOf(x).assertion = g.assertion /\ SessionOf(x).proof = g.proof
           /\ SessionOf(x).consumed = g.consumed
      BY DEF SessionOf
    <2>15. SessionInv'
      <3>1. ASSUME NEW s \in Calls
            PROVE  /\ sessions'[s].created <= clock'
                   /\ sessions'[s].assertion # NoOne =>
                        \/ sessions'[s].proof <= clock'
                        \/ \E m \in markers' : /\ m.assertion = sessions'[s].assertion
                                               /\ m.expires = sessions'[s].proof
        <4>1. CASE s = x /\ g.issue
          <5>1. sessions'[s].created <= clock'
            BY <1>2, <2>1, <2>8, <2>14, <4>1 DEF Fits
          <5>2. ASSUME g.assertion # NoOne
                PROVE  \E m \in markers' : m.assertion = g.assertion /\ m.expires = g.proof
            <6>1. mark \in markers' /\ mark.assertion = g.assertion /\ mark.expires = g.proof
              BY <1>2, <5>2
            <6> HIDE DEF mark
            <6> QED  BY <6>1
          <5> QED  BY <2>8, <2>14, <4>1, <5>1, <5>2
        <4>2. CASE ~(s = x /\ g.issue)
          <5>1. sessions'[s] = sessions[s] /\ markers \subseteq markers' /\ clock' = clock
            BY <1>2, <2>8, <4>2
          <5> QED  BY <5>1 DEF LoginInv, SessionInv
        <4> QED  BY <4>1, <4>2
      <3> QED  BY <3>1 DEF SessionInv
    <2>16. Rows' = Rows
      <3>1. ASSUME NEW r \in Requests
            PROVE  requests'[r].state \in {"pending", "consumed"}
                     <=> requests[r].state \in {"pending", "consumed"}
        BY <2>2, <2>4
      <3> QED  BY <3>1 DEF Rows
    <2>17. LoginTableSound'
      <3>1. ASSUME NEW m \in markers' PROVE requests'[m.request].state = "consumed"
        <4>1. CASE m \in markers
          <5>1. m.request \in Requests /\ requests[m.request].state = "consumed"
            BY <2>1, <4>1 DEF LoginInv, LoginTableSound, Markers
          <5> QED  BY <2>2, <2>4, <5>1
        <4>2. CASE m = mark /\ g.assertion # NoOne
          BY <2>2, <2>3, <2>4, <4>2
        <4> QED  BY <1>2, <4>1, <4>2
      <3> QED  BY <2>16, <3>1 DEF LoginInv, LoginTableSound
    <2>18. OneSessionPerRequest'
      <3>1. ASSUME NEW s \in Calls, sessions'[s].request # NoOne
            PROVE  /\ requests'[sessions'[s].request].state \in {"consumed", "gone"}
                   /\ \A t \in Calls \ {s} : sessions'[t].request # sessions'[s].request
        <4>1. ASSUME NEW t \in Calls, sessions[t].request # NoOne, g.proof # 0
              PROVE  sessions[t].request # q
          BY <2>2, <4>1 DEF LoginInv, OneSessionPerRequest
        <4>2. CASE s = x /\ g.issue
          <5>1. sessions'[s].request = q  BY <2>8, <2>14, <4>2
          <5>2. requests'[q].state = "consumed"  BY <2>2, <2>3, <2>4, <4>2
          <5>3. ASSUME NEW t \in Calls \ {s} PROVE sessions'[t].request # q
            <6>1. q # NoOne  BY <2>2, SsoAssumption
            <6> QED  BY <2>3, <2>8, <4>1, <4>2, <6>1
          <5> QED  BY <5>1, <5>2, <5>3
        <4>3. CASE ~(s = x /\ g.issue)
          <5>1. sessions'[s] = sessions[s]  BY <2>8, <4>3
          <5>2. sessions[s].request \in Requests
            BY <2>1, <3>1, <5>1 DEF SessionRows
          <5>3. requests'[sessions[s].request].state \in {"consumed", "gone"}
            BY <2>4, <3>1, <5>1, <5>2 DEF LoginInv, OneSessionPerRequest
          <5>4. ASSUME NEW t \in Calls \ {s}
                PROVE  sessions'[t].request # sessions[s].request
            <6>1. CASE t = x /\ g.issue
              BY <2>3, <2>8, <2>14, <3>1, <4>1, <5>1, <6>1
            <6>2. CASE ~(t = x /\ g.issue)
              <7>1. sessions'[t] = sessions[t]  BY <2>8, <6>2
              <7> QED  BY <3>1, <5>1, <7>1 DEF LoginInv, OneSessionPerRequest
            <6> QED  BY <6>1, <6>2
          <5> QED  BY <5>1, <5>3, <5>4
        <4> QED  BY <4>2, <4>3
      <3> QED  BY <3>1 DEF OneSessionPerRequest
    <2>19. OneSessionPerAssertion'
      <3>1. ASSUME NEW t \in Calls, g.assertion # NoOne, sessions[t].assertion = g.assertion
            PROVE  sessions[t].proof <= g.consumed
        BY <1>1, <2>1, <2>3, <3>1 DEF Fits, Consumes, Consuming
      <3>2. ASSUME NEW s \in Calls, NEW t \in Calls, s # t,
                   sessions'[s].assertion # NoOne,
                   sessions'[s].assertion = sessions'[t].assertion
            PROVE  \/ sessions'[s].proof <= sessions'[t].consumed
                   \/ sessions'[t].proof <= sessions'[s].consumed
        <4>1. CASE s = x /\ g.issue  BY <2>8, <2>14, <3>1, <3>2, <4>1
        <4>2. CASE t = x /\ g.issue  BY <2>8, <2>14, <3>1, <3>2, <4>2
        <4>3. CASE ~(s = x /\ g.issue) /\ ~(t = x /\ g.issue)
          <5>1. sessions'[s] = sessions[s] /\ sessions'[t] = sessions[t]  BY <2>8, <4>3
          <5> QED  BY <3>2, <5>1 DEF LoginInv, OneSessionPerAssertion
        <4> QED  BY <4>1, <4>2, <4>3
      <3> QED  BY <3>2 DEF OneSessionPerAssertion
    <2>20. IsFiniteSet(Rows)'  BY <2>16 DEF LoginInv
    <2> QED  BY <2>10, <2>13, <2>15, <2>17, <2>18, <2>19, <2>20 DEF LoginInv
  <1> QED  BY <1>2 DEF Commit

\* Steps that write neither tables nor sessions and find the fence free.
LEMMA AdministersStep ==
    ASSUME LoginInv, NEW d \in Directory, Administers(d)
    PROVE  LoginInv'
  <1>1. /\ fence = NoOne /\ dir' = d
        /\ UNCHANGED <<protocol, clock, requests, markers, sessions, fence, xs, auth>>
    BY DEF Administers
  <1>2. TypeOK'  BY <1>1 DEF LoginInv, TypeOK
  <1>3. ASSUME NEW y \in Calls PROVE Fits(xs[y])'
    <2>1. xs'[y] = xs[y] /\ clock' \in Nat /\ clock <= clock'  BY <1>1, ExchangeKnown
    <2>2. xs[y].phase \notin InTransaction  BY <1>1, FenceFree
    <2>3. requests' = requests  BY <1>1
    <2> QED  BY <2>1, <2>2, <2>3, ExchangeKnown, OutsideFits
  <1>4. ExchangeInv'  BY <1>1, <1>3 DEF LoginInv, ExchangeInv
  <1> QED  BY <1>1, <1>2, <1>4, SameTables DEF LoginInv

\* Pruning and inserting a login request: the rows that go have expired and no
\* kept marker refers to them.
LEMMA BeginStep ==
    ASSUME LoginInv, NEW r \in Requests, BeginAuthentication(r)
    PROVE  LoginInv'
  <1> DEFINE row == [state |-> "pending", print |-> TrustFingerprint(dir),
                     created |-> clock, expires |-> clock + RequestLifetime]
  <1>1. /\ fence = NoOne /\ requests[r].state = "unborn"
        /\ Cardinality(KeptRows) < MaxPending /\ markers' = KeptMarkers
        /\ UNCHANGED <<protocol, clock, dir, sessions, fence, xs, auth>>
    BY DEF BeginAuthentication
  <1>2. /\ clock \in Nat /\ dir \in Directory /\ requests \in [Requests -> RequestRows]
        /\ protocol \in {"oidc", "saml"} /\ markers \subseteq Markers
        /\ sessions \in [Calls -> SessionRows] /\ RequestLifetime \in Nat
        /\ MaxPending \in Nat
    BY SsoAssumption DEF LoginInv, TypeOK
  <1>3. row \in RequestRows /\ row.state = "pending"
    <2>1. clock + RequestLifetime \in Nat  BY <1>2
    <2>2. 0 \in 0..MaxRevision  BY SsoAssumption
    <2>3. TrustFingerprint(dir) \in (0..MaxRevision) \X (0..MaxRevision)
      BY <1>2, <2>2 DEF TrustFingerprint, Directory
    <2> QED  BY <1>2, <2>1, <2>3 DEF RequestRows
  <1>4. Gone \in RequestRows /\ Gone.state = "gone"
    BY NoRecords DEF Gone, Unborn, RequestRows
  <1>5. r \notin Rows /\ KeptRows \subseteq Rows  BY <1>1 DEF Rows, KeptRows
  <1>6. ASSUME NEW q \in Requests
        PROVE  /\ q = r => requests'[q] = row
               /\ q # r /\ q \in Rows \ KeptRows => requests'[q] = Gone
               /\ q # r /\ q \notin Rows \ KeptRows => requests'[q] = requests[q]
               /\ requests'[q] \in RequestRows
    <2>1. requests'[q] = CASE q = r -> row
                           [] q \in Rows \ KeptRows -> Gone
                           [] OTHER -> requests[q]
      BY DEF BeginAuthentication
    <2> HIDE DEF row
    <2>2. CASE q = r
      <3>1. q \notin Rows \ KeptRows  BY <1>5, <2>2
      <3>2. requests'[q] = row  BY <2>1, <2>2, <3>1
      <3> QED  BY <1>3, <2>2, <3>2
    <2>3. CASE q # r /\ q \in Rows \ KeptRows
      <3>1. requests'[q] = Gone  BY <2>1, <2>3
      <3> QED  BY <1>4, <2>3, <3>1
    <2>4. CASE q # r /\ q \notin Rows \ KeptRows
      <3>1. requests'[q] = requests[q]  BY <2>1, <2>4
      <3> QED  BY <1>2, <2>4, <3>1
    <2> QED  BY <2>2, <2>3, <2>4
  <1> HIDE DEF row
  <1>7. requests' \in [Requests -> RequestRows]
    <2>1. requests' = [q \in Requests |-> requests'[q]]  BY DEF BeginAuthentication
    <2> QED  BY <1>6, <2>1
  <1>8. markers' \subseteq markers  BY <1>1 DEF KeptMarkers
  <1>9. TypeOK'  BY <1>1, <1>7, <1>8 DEF LoginInv, TypeOK
  <1>10. ASSUME NEW q \in Requests, requests[q].state # "unborn"
         PROVE  /\ requests'[q].state # "unborn"
                /\ requests'[q].state # "gone" =>
                      requests[q].state # "gone" /\ requests'[q].print = requests[q].print
    BY <1>1, <1>4, <1>6, <1>10
  <1>11. ASSUME NEW y \in Calls PROVE Fits(xs[y])'
    <2>1. xs'[y] = xs[y] /\ clock' \in Nat /\ clock <= clock'  BY <1>1, <1>2
    <2>2. xs[y].phase \notin InTransaction  BY <1>1, FenceFree
    <2> QED  BY <1>10, <2>1, <2>2, ExchangeKnown, OutsideFits
  <1>12. ExchangeInv'  BY <1>1, <1>11 DEF LoginInv, ExchangeInv
  <1>13. SessionInv'
    <2>1. ASSUME NEW s \in Calls, sessions[s].assertion # NoOne
          PROVE  \/ sessions[s].proof <= clock
                 \/ \E m \in markers' : /\ m.assertion = sessions[s].assertion
                                        /\ m.expires = sessions[s].proof
      <3>1. CASE sessions[s].proof <= clock  BY <3>1
      <3>2. CASE ~(sessions[s].proof <= clock)
        <4>1. PICK m \in markers : /\ m.assertion = sessions[s].assertion
                                   /\ m.expires = sessions[s].proof
          BY <2>1, <3>2 DEF LoginInv, SessionInv
        <4>2. sessions[s].proof \in Nat  BY <1>2 DEF SessionRows
        <4>3. m.expires > clock  BY <1>2, <3>2, <4>1, <4>2
        <4>4. m \in markers'  BY <1>1, <4>3 DEF KeptMarkers
        <4> QED  BY <4>1, <4>4
      <3> QED  BY <3>1, <3>2
    <2> QED  BY <1>1, <2>1 DEF LoginInv, SessionInv
  <1>14. Rows' = KeptRows \cup {r}
    <2>1. ASSUME NEW q \in Requests
          PROVE  requests'[q].state \in {"pending", "consumed"} <=> q \in KeptRows \cup {r}
      <3>1. CASE q = r  BY <1>3, <1>6, <3>1
      <3>2. CASE q # r /\ q \in Rows \ KeptRows  BY <1>4, <1>6, <3>2
      <3>3. CASE q # r /\ q \notin Rows \ KeptRows
        BY <1>5, <1>6, <3>3 DEF Rows
      <3> QED  BY <3>1, <3>2, <3>3
    <2>2. KeptRows \subseteq Requests  BY DEF KeptRows, Rows
    <2> QED  BY <2>1, <2>2 DEF Rows
  <1>15. IsFiniteSet(KeptRows) /\ r \notin KeptRows
    BY <1>5, FS_Subset DEF LoginInv
  <1>16. IsFiniteSet(Rows') /\ Cardinality(Rows') <= MaxPending
    <2>1. /\ IsFiniteSet(KeptRows \cup {r})
          /\ Cardinality(KeptRows \cup {r}) = Cardinality(KeptRows) + 1
      BY <1>15, FS_AddElement
    <2>2. Cardinality(KeptRows) \in Nat  BY <1>15, FS_CardinalityType
    <2>3. Cardinality(KeptRows) + 1 <= MaxPending  BY <1>1, <1>2, <2>2
    <2> QED  BY <1>14, <2>1, <2>3
  <1>17. LoginTableSound'
    <2>1. ASSUME NEW m \in markers' PROVE requests'[m.request].state = "consumed"
      <3>1. m \in markers /\ m \in KeptMarkers  BY <1>1, <1>8
      <3>2. m.request \in Requests /\ requests[m.request].state = "consumed"
        BY <1>2, <3>1 DEF Markers, LoginInv, LoginTableSound
      <3>3. m.request \in KeptRows /\ m.request # r
        BY <1>1, <3>1, <3>2 DEF KeptRows, Rows, Prunable
      <3> QED  BY <1>6, <3>2, <3>3
    <2> QED  BY <1>16, <2>1 DEF LoginTableSound
  <1>18. OneSessionPerRequest'
    <2>1. ASSUME NEW s \in Calls, sessions[s].request # NoOne
          PROVE  requests'[sessions[s].request].state \in {"consumed", "gone"}
      <3> DEFINE q == sessions[s].request
      <3>1. q \in Requests /\ requests[q].state \in {"consumed", "gone"}
        BY <1>2, <2>1 DEF SessionRows, LoginInv, OneSessionPerRequest
      <3> HIDE DEF q
      <3>2. q # r  BY <1>1, <3>1
      <3>3. requests'[q].state \in {"consumed", "gone"}  BY <1>4, <1>6, <3>1, <3>2
      <3> QED  BY <3>3 DEF q
    <2> QED  BY <1>1, <2>1 DEF LoginInv, OneSessionPerRequest
  <1>19. OneSessionPerAssertion'  BY <1>1 DEF LoginInv, OneSessionPerAssertion
  <1> QED  BY <1>9, <1>12, <1>13, <1>16, <1>17, <1>18, <1>19 DEF LoginInv

\* Steps that replace one session by one of the same proof, or a missing one by
\* one without proof, and touch no exchange inside a transaction.
LEMMA SessionTables ==
    ASSUME LoginInv, NEW s \in Calls, NEW new \in SessionRows,
           sessions' = [sessions EXCEPT ![s] = new],
           new.created <= clock,
           \/ new.request = NoOne /\ new.assertion = NoOne
           \/ /\ new.request = sessions[s].request /\ new.assertion = sessions[s].assertion
              /\ new.proof = sessions[s].proof /\ new.consumed = sessions[s].consumed,
           UNCHANGED <<clock, requests, markers>>
    PROVE  /\ SessionInv' /\ IsFiniteSet(Rows)' /\ LoginTableSound'
           /\ OneSessionPerRequest' /\ OneSessionPerAssertion'
  <1>1. sessions \in [Calls -> SessionRows]  BY DEF LoginInv, TypeOK
  <1>2. sessions'[s] = new /\ \A t \in Calls \ {s} : sessions'[t] = sessions[t]
    BY <1>1
  <1>3. Rows' = Rows  BY DEF Rows
  <1>4. IsFiniteSet(Rows)' /\ LoginTableSound'  BY <1>3 DEF LoginInv, LoginTableSound
  <1>5. SessionInv'  BY <1>2 DEF LoginInv, SessionInv
  <1>6. OneSessionPerRequest'
    <2>1. ASSUME NEW t \in Calls
          PROVE  sessions'[t].request = NoOne \/ sessions'[t].request = sessions[t].request
      BY <1>2
    <2> QED  BY <2>1 DEF LoginInv, OneSessionPerRequest
  <1>7. OneSessionPerAssertion'
    <2>1. ASSUME NEW t \in Calls
          PROVE  \/ sessions'[t].assertion = NoOne
                 \/ /\ sessions'[t].assertion = sessions[t].assertion
                    /\ sessions'[t].proof = sessions[t].proof
                    /\ sessions'[t].consumed = sessions[t].consumed
      BY <1>2
    <2> QED  BY <2>1 DEF LoginInv, OneSessionPerAssertion
  <1> QED  BY <1>4, <1>5, <1>6, <1>7

LEMMA CreateSessionStep ==
    ASSUME LoginInv, NEW s \in Calls, CreateSSOSession(s)
    PROVE  LoginInv'
  <1>1. /\ fence = NoOne /\ xs' = [xs EXCEPT ![s] = Resting("done")]
        /\ UNCHANGED <<protocol, clock, dir, requests, markers, fence, auth>>
    BY DEF CreateSSOSession
  <1>2. PICK lifetime \in Lifetimes :
          sessions' = [sessions EXCEPT ![s] =
              [NoSession EXCEPT !.state = "live", !.created = clock, !.used = clock,
                                !.expires = clock + lifetime]]
    BY DEF CreateSSOSession
  <1> DEFINE new == [NoSession EXCEPT !.state = "live", !.created = clock, !.used = clock,
                                      !.expires = clock + lifetime]
  <1>3. clock \in Nat /\ clock + lifetime \in Nat
    <2>1. lifetime \in Nat  BY SsoAssumption
    <2> QED  BY <2>1, ExchangeKnown
  <1>4. /\ new \in SessionRows /\ new.created = clock
        /\ new.request = NoOne /\ new.assertion = NoOne
    <2>1. NoSession \in SessionRows /\ NoSession.request = NoOne /\ NoSession.assertion = NoOne
      BY NoRecords DEF NoSession
    <2> QED  BY <1>3, <2>1 DEF SessionRows
  <1>5. sessions' = [sessions EXCEPT ![s] = new]  BY <1>2
  <1> HIDE DEF new
  <1>6. TypeOK'
    BY <1>1, <1>4, <1>5, NoRecords DEF LoginInv, TypeOK
  <1>7. /\ xs'[s] = Resting("done") /\ \A y \in Calls \ {s} : xs'[y] = xs[y]
        /\ \A y \in Calls \ {s} : sessions'[y] = sessions[y]
    BY <1>1, <1>5 DEF LoginInv, TypeOK
  <1>8. ASSUME NEW y \in Calls PROVE Fits(xs[y])'
    <2>1. clock' \in Nat /\ clock <= clock' /\ requests' = requests  BY <1>1, <1>3
    <2>2. CASE y # s
      <3>1. xs[y].phase \notin InTransaction  BY <1>1, FenceFree
      <3> QED  BY <1>7, <2>1, <2>2, <3>1, ExchangeKnown, OutsideFits
    <2>3. CASE y = s
      BY <1>7, <2>1, <2>3
      DEF Fits, HoldsRequest, Decided, Consumes, Timely, Resting, Bound, InTransaction, Consuming
    <2> QED  BY <2>2, <2>3
  <1>9. Resting("done").phase = "done"  BY DEF Resting
  <1>10. ExchangeInv'
    <2>1. ASSUME NEW y \in Calls
          PROVE  /\ xs'[y].phase \notin InTransaction
                 /\ xs'[y].phase \notin {"committed", "done"} => sessions'[y] = NoSession
      <3>1. CASE y = s  BY <1>7, <1>9, <3>1 DEF InTransaction
      <3>2. CASE y # s
        <4>1. xs[y].phase \notin InTransaction  BY <1>1, FenceFree
        <4> QED  BY <1>7, <3>2, <4>1 DEF LoginInv, ExchangeInv
      <3> QED  BY <3>1, <3>2
    <2>2. fence' = NoOne  BY <1>1
    <2> QED  BY <1>8, <2>1, <2>2, SsoAssumption DEF ExchangeInv
  <1>11. new.created <= clock  BY <1>3, <1>4
  <1> QED  BY <1>1, <1>4, <1>5, <1>6, <1>10, <1>11, SessionTables DEF LoginInv

\* A session that is there changes its state or its last use only.
LEMMA TouchSession ==
    ASSUME LoginInv, NEW s \in Calls, NEW new \in SessionRows,
           sessions' = [sessions EXCEPT ![s] = new],
           new.request = sessions[s].request, new.assertion = sessions[s].assertion,
           new.proof = sessions[s].proof, new.consumed = sessions[s].consumed,
           new.created = sessions[s].created, sessions[s].state # "none",
           auth' \in [session: Calls \cup {NoOne}, grants: 0..MaxRevision],
           UNCHANGED <<protocol, clock, dir, requests, markers, fence, xs>>
    PROVE  LoginInv'
  <1>1. TypeOK'  BY DEF LoginInv, TypeOK
  <1>2. /\ sessions'[s] = new /\ \A t \in Calls \ {s} : sessions'[t] = sessions[t]
    BY DEF LoginInv, TypeOK
  <1>3. ASSUME NEW y \in Calls PROVE Fits(xs[y])'
    <2>1. clock' \in Nat /\ clock <= clock' /\ xs'[y] = xs[y]  BY ExchangeKnown
    <2>2. \A t \in Calls : /\ sessions'[t].assertion = sessions[t].assertion
                           /\ sessions'[t].proof = sessions[t].proof
      BY <1>2
    <2> QED  BY <2>1, <2>2, ExchangeKnown, UndisturbedFits
  <1>4. sessions[s] # NoSession  BY DEF NoSession
  <1>5. ExchangeInv'  BY <1>2, <1>3, <1>4 DEF LoginInv, ExchangeInv
  <1>6. new.created <= clock  BY DEF LoginInv, SessionInv
  <1> QED  BY <1>1, <1>5, <1>6, SessionTables DEF LoginInv

LEMMA RevokeStep ==
    ASSUME LoginInv, NEW s \in Calls, RevokeSSOSession(s)
    PROVE  LoginInv'
  <1> DEFINE new == [sessions[s] EXCEPT !.state = "revoked"]
  <1>1. sessions[s] \in SessionRows /\ sessions \in [Calls -> SessionRows]
    BY DEF LoginInv, TypeOK
  <1>2. /\ new \in SessionRows
        /\ new.request = sessions[s].request /\ new.assertion = sessions[s].assertion
        /\ new.proof = sessions[s].proof /\ new.consumed = sessions[s].consumed
        /\ new.created = sessions[s].created
    BY <1>1 DEF SessionRows
  <1>3. /\ sessions' = [sessions EXCEPT ![s] = new] /\ sessions[s].state # "none"
        /\ UNCHANGED <<protocol, clock, dir, requests, markers, fence, xs, auth>>
    BY <1>1 DEF RevokeSSOSession
  <1>4. auth' \in [session: Calls \cup {NoOne}, grants: 0..MaxRevision]
    BY <1>3 DEF LoginInv, TypeOK
  <1> HIDE DEF new
  <1> QED  BY <1>2, <1>3, <1>4, TouchSession

\* The clock and the authentication in progress may change at any time.
LEMMA OutsideStep ==
    ASSUME LoginInv, clock' \in 0..MaxClock, clock <= clock',
           auth' \in [session: Calls \cup {NoOne}, grants: 0..MaxRevision],
           UNCHANGED <<protocol, dir, requests, markers, sessions, fence, xs>>
    PROVE  LoginInv'
  <1>1. TypeOK'  BY DEF LoginInv, TypeOK
  <1>2. clock \in Nat /\ clock' \in Nat  BY SsoAssumption DEF LoginInv, TypeOK
  <1>3. ASSUME NEW y \in Calls PROVE Fits(xs[y])'
    BY <1>2, ExchangeKnown, UndisturbedFits
  <1>4. ExchangeInv'  BY <1>3 DEF LoginInv, ExchangeInv
  <1>5. SessionInv'
    <2>1. ASSUME NEW n \in Nat, n <= clock PROVE n <= clock'  BY <1>2, <2>1
    <2>2. \A s \in Calls : sessions[s].created \in Nat /\ sessions[s].proof \in Nat
      BY DEF LoginInv, TypeOK, SessionRows
    <2> QED  BY <2>1, <2>2 DEF LoginInv, SessionInv
  <1>6. Rows' = Rows  BY DEF Rows
  <1>7. IsFiniteSet(Rows)' /\ LoginTableSound'  BY <1>6 DEF LoginInv, LoginTableSound
  <1>8. OneSessionPerRequest' /\ OneSessionPerAssertion'
    BY DEF LoginInv, OneSessionPerRequest, OneSessionPerAssertion
  <1> QED  BY <1>1, <1>4, <1>5, <1>7, <1>8 DEF LoginInv

LEMMA AuthenticateStep ==
    ASSUME LoginInv, ValidateActiveSession
    PROVE  LoginInv'
  <1> DEFINE s == auth.session
             new == [sessions[s] EXCEPT !.used = UsedAt(s)]
  <1>1. /\ auth' = NoAuth /\ UNCHANGED <<protocol, clock, dir, requests, markers, fence, xs>>
        /\ \/ Admissible(s) /\ sessions' = [sessions EXCEPT ![s].used = UsedAt(s)]
           \/ UNCHANGED sessions
    BY DEF ValidateActiveSession
  <1>2. auth' \in [session: Calls \cup {NoOne}, grants: 0..MaxRevision]
    BY <1>1, NoRecords
  <1>3. /\ clock \in 0..MaxClock /\ clock \in Nat /\ sessions \in [Calls -> SessionRows]
        /\ s \in Calls \cup {NoOne}
    BY SsoAssumption DEF LoginInv, TypeOK
  <1>4. CASE UNCHANGED sessions
    <2>1. clock' \in 0..MaxClock /\ clock <= clock'  BY <1>1, <1>3
    <2> QED  BY <1>1, <1>2, <1>4, <2>1, OutsideStep
  <1>5. CASE s \in Calls /\ Admissible(s) /\ sessions' = [sessions EXCEPT ![s].used = UsedAt(s)]
    <2>1. sessions[s] \in SessionRows /\ sessions[s].state = "live"
      BY <1>3, <1>5 DEF Admissible, ActiveAt
    <2>2. UsedAt(s) \in Nat  BY <1>3, <2>1 DEF UsedAt, Later, SessionRows
    <2>3. /\ new \in SessionRows
          /\ new.request = sessions[s].request /\ new.assertion = sessions[s].assertion
          /\ new.proof = sessions[s].proof /\ new.consumed = sessions[s].consumed
          /\ new.created = sessions[s].created
      BY <2>1, <2>2 DEF SessionRows
    <2>4. sessions' = [sessions EXCEPT ![s] = new]  BY <1>3, <1>5
    <2> HIDE DEF new, s
    <2> QED  BY <1>1, <1>2, <1>5, <2>1, <2>3, <2>4, TouchSession
  <1>6. CASE s = NoOne /\ sessions' = [sessions EXCEPT ![s].used = UsedAt(s)]
    <2>1. s \notin Calls  BY <1>6, SsoAssumption
    <2>2. sessions' = sessions  BY <1>3, <1>6, <2>1
    <2> QED  BY <1>4, <2>2
  <1> QED  BY <1>1, <1>3, <1>4, <1>5, <1>6

LEMMA ExchangeSteps ==
    ASSUME LoginInv, NEW x \in Calls, ExchangeStep(x) \/ Abandon(x)
    PROVE  LoginInv'
  <1>1. CASE Return(x)
    BY <1>1, RefusedStep DEF Return, InTransaction
  <1>2. CASE Abandon(x)
    BY <1>2, RollbackStep DEF Abandon
  <1> QED
    BY <1>1, <1>2, ReadProviderStep, BindRequestStep, VerifyCredentialStep, ReadLinkStep,
       ReadUserStep, ReadGrantsStep, ValidateStep, ConsumeStep, RecordStep, CommitStep
    DEF ExchangeStep

LEMMA AdministrationSteps ==
    ASSUME LoginInv, Administration
    PROVE  LoginInv'
  <1>1. dir \in Directory /\ MaxRevision \in Nat  BY SsoAssumption DEF LoginInv, TypeOK
  <1>2. CASE DeactivateUser
    <2>1. [dir EXCEPT !.active = FALSE] \in Directory  BY <1>1 DEF Directory
    <2> QED  BY <1>2, <2>1, AdministersStep DEF DeactivateUser
  <1>3. CASE LinkSSOIdentity
    <2>1. [dir EXCEPT !.linked = TRUE] \in Directory  BY <1>1 DEF Directory
    <2> QED  BY <1>3, <2>1, AdministersStep DEF LinkSSOIdentity
  <1>4. CASE CreateRoleBinding
    <2>1. dir.grants + 1 \in 0..MaxRevision  BY <1>1, <1>4 DEF CreateRoleBinding, Directory
    <2>2. [dir EXCEPT !.grants = dir.grants + 1] \in Directory  BY <1>1, <2>1 DEF Directory
    <2> QED  BY <1>4, <2>2, AdministersStep DEF CreateRoleBinding
  <1>5. CASE UpdateSSOProviderTrustMaterial
    <2>1. dir.revision + 1 \in 0..MaxRevision
      BY <1>1, <1>5 DEF UpdateSSOProviderTrustMaterial, Directory
    <2>2. [dir EXCEPT !.revision = dir.revision + 1] \in Directory
      BY <1>1, <2>1 DEF Directory
    <2> QED  BY <1>5, <2>2, AdministersStep DEF UpdateSSOProviderTrustMaterial
  <1>6. CASE UpsertSAMLProviderBinding
    <2>1. dir.binding + 1 \in 0..MaxRevision
      BY <1>1, <1>6 DEF UpsertSAMLProviderBinding, Directory
    <2>2. [dir EXCEPT !.binding = dir.binding + 1] \in Directory
      BY <1>1, <2>1 DEF Directory
    <2> QED  BY <1>6, <2>2, AdministersStep DEF UpsertSAMLProviderBinding
  <1> QED
    BY <1>2, <1>3, <1>4, <1>5, <1>6, CreateSessionStep, RevokeStep DEF Administration

LEMMA NextLogin == LoginInv /\ [Next]_vars => LoginInv'
  <1> SUFFICES ASSUME LoginInv, [Next]_vars PROVE LoginInv'  OBVIOUS
  <1>1. /\ clock \in 0..MaxClock /\ clock \in Nat /\ MaxClock \in Nat
        /\ auth \in [session: Calls \cup {NoOne}, grants: 0..MaxRevision]
        /\ dir.grants \in 0..MaxRevision
    BY SsoAssumption DEF LoginInv, TypeOK, Directory
  <1>2. ASSUME NEW s \in Calls, ReadIdentity(s) PROVE LoginInv'
    <2>1. clock' \in 0..MaxClock /\ clock <= clock'  BY <1>1, <1>2 DEF ReadIdentity
    <2> QED  BY <1>1, <1>2, <2>1, OutsideStep DEF ReadIdentity
  <1>3. CASE Tick
    <2>1. clock' \in 0..MaxClock /\ clock <= clock'  BY <1>1, <1>3 DEF Tick
    <2> QED  BY <1>1, <1>3, <2>1, OutsideStep DEF Tick
  <1>4. CASE UNCHANGED vars
    <2>1. clock' \in 0..MaxClock /\ clock <= clock'  BY <1>1, <1>4 DEF vars
    <2> QED  BY <1>1, <1>4, <2>1, OutsideStep DEF vars
  <1> QED
    BY <1>2, <1>3, <1>4, BeginStep, ExchangeSteps, AdministrationSteps, AuthenticateStep
    DEF Next

LEMMA LoginInvariant == Spec => []LoginInv
  BY InitLogin, NextLogin, PTL DEF Spec

\* Rows, markers, sessions and snapshots keep their types
\* (internal/identity/domain, sso_exchange_commands.go).
THEOREM SsoTypes == Spec => []TypeOK
  <1>1. LoginInv => TypeOK  BY DEF LoginInv
  <1> QED  BY LoginInvariant, <1>1, PTL

\* For any number of exchanges of any number of login requests: a login request
\* yields one session at most (Consume{OIDC,SAML}AuthenticationRequest).
THEOREM LoginYieldsOneSession == Spec => []OneSessionPerRequest
  <1>1. LoginInv => OneSessionPerRequest  BY DEF LoginInv
  <1> QED  BY LoginInvariant, <1>1, PTL

\* For any lifetimes of requests, proofs and markers: two sessions never rest on
\* one assertion whose proof is valid (saml_assertion_consumptions).
THEOREM AssertionYieldsOneSession == Spec => []OneSessionPerAssertion
  <1>1. LoginInv => OneSessionPerAssertion  BY DEF LoginInv
  <1> QED  BY LoginInvariant, <1>1, PTL

\* The login table is bounded and no marker loses its request, for any bound and
\* any order of beginning, pruning and consuming
\* (Insert{OIDC,SAML}AuthenticationRequest).
THEOREM LoginTableIsSound == Spec => []LoginTableSound
  <1>1. LoginInv => LoginTableSound  BY DEF LoginInv
  <1> QED  BY LoginInvariant, <1>1, PTL

\* For any number of calls and administrators: a session is committed only on
\* facts that hold at the commit, although they were read one by one before the
\* transaction; and at the one instant recorded as the consumption of its login,
\* login, proof and session were all valid, whatever clock reading each of the
\* checks was made with (ExchangeSSOCredential, ValidateSSOExchangeState).
THEOREM IssuedOnFacts == Spec => IssuedOnCurrentFacts
  <1> DEFINE Current(x) ==
        /\ xs[x].row.print = TrustFingerprint(dir)
        /\ dir.linked /\ dir.active
        /\ HasCapabilities(dir.grants, sessions'[x].groups)
        /\ PendingAt(requests[sessions'[x].request], sessions'[x].consumed)
        /\ sessions'[x].consumed < sessions'[x].proof
        /\ ActiveAt(sessions'[x], sessions'[x].consumed)
  <1>1. ASSUME LoginInv, [Next]_vars, NEW x \in Calls,
               sessions[x].request # sessions'[x].request
        PROVE  Current(x)
    <2>0. sessions \in [Calls -> SessionRows]  BY <1>1 DEF LoginInv, TypeOK
    <2>1. sessions' # sessions  BY <1>1
    <2>2. ASSUME NEW y \in Calls, ExchangeStep(y) \/ Abandon(y), ~Commit(y)
          PROVE  FALSE
      BY <2>1, <2>2
      DEF ExchangeStep, Abandon, ReadProvider, BindRequest, VerifyCredential, ReadLink,
          ReadUser, ReadGrants, ValidateSSOExchangeState, RollsBack, Consume, Record,
          Return, Goes
    <2>3. ASSUME NEW r \in Requests, BeginAuthentication(r) PROVE FALSE
      BY <2>1, <2>3 DEF BeginAuthentication
    <2>4. ASSUME NEW s \in Calls, CreateSSOSession(s) PROVE FALSE
      <3>1. sessions[s] = NoSession
        BY <1>1, <2>4 DEF CreateSSOSession, LoginInv, ExchangeInv
      <3>2. PICK lifetime \in Lifetimes :
              sessions' = [sessions EXCEPT ![s] =
                  [NoSession EXCEPT !.state = "live", !.created = clock, !.used = clock,
                                    !.expires = clock + lifetime]]
        BY <2>4 DEF CreateSSOSession
      <3>3. \A t \in Calls \ {s} : sessions'[t] = sessions[t]  BY <2>0, <3>2
      <3>4. sessions'[s].request = NoOne /\ sessions[s].request = NoOne
        BY <2>0, <3>1, <3>2 DEF NoSession
      <3> QED  BY <1>1, <3>3, <3>4
    <2>5. ASSUME NEW s \in Calls, RevokeSSOSession(s) PROVE FALSE
      <3>1. \A t \in Calls \ {s} : sessions'[t] = sessions[t]
        BY <2>0, <2>5 DEF RevokeSSOSession
      <3>2. sessions'[s].request = sessions[s].request
        BY <2>0, <2>5 DEF RevokeSSOSession, SessionRows
      <3> QED  BY <1>1, <3>1, <3>2
    <2>6. ~ValidateActiveSession
      <3> SUFFICES ASSUME ValidateActiveSession PROVE FALSE  OBVIOUS
      <3>1. PICK s : sessions' = [sessions EXCEPT ![s].used = UsedAt(s)]
        BY <2>1 DEF ValidateActiveSession
      <3>2. CASE s = x
        <4>1. sessions'[x] = [sessions[x] EXCEPT !.used = UsedAt(s)]  BY <2>0, <3>1, <3>2
        <4>2. sessions'[x].request = sessions[x].request
          BY <2>0, <4>1 DEF SessionRows
        <4> QED  BY <1>1, <4>2
      <3>3. CASE s # x  BY <1>1, <2>0, <3>1, <3>3
      <3> QED  BY <3>2, <3>3
    <2>7. /\ \A s \in Calls : ~ReadIdentity(s)
          /\ ~Tick /\ ~(UNCHANGED vars)
      BY <2>1 DEF ReadIdentity, Tick, vars
    <2>8. ~(DeactivateUser \/ LinkSSOIdentity \/ CreateRoleBinding
              \/ UpdateSSOProviderTrustMaterial \/ UpsertSAMLProviderBinding)
      BY <2>1
      DEF DeactivateUser, LinkSSOIdentity, CreateRoleBinding,
          UpdateSSOProviderTrustMaterial, UpsertSAMLProviderBinding, Administers
    <2>9. PICK y \in Calls : Commit(y)
      BY <1>1, <2>2, <2>3, <2>4, <2>5, <2>6, <2>7, <2>8 DEF Next, Administration
    <2>10. /\ xs[y].phase = "recorded" /\ xs[y].issue
           /\ sessions' = [sessions EXCEPT ![y] = SessionOf(y)]
      BY <2>1, <2>9 DEF Commit
    <2>11. y = x
      <3>1. \A t \in Calls \ {y} : sessions'[t] = sessions[t]  BY <2>0, <2>10
      <3> QED  BY <1>1, <3>1
    <2>12. /\ sessions'[x] = SessionOf(x) /\ sessions'[x].groups = xs[x].groups
           /\ sessions'[x].request = xs[x].request /\ sessions'[x].proof = xs[x].proof
           /\ sessions'[x].consumed = xs[x].consumed
      BY <2>0, <2>10, <2>11 DEF SessionOf
    <2>13. Fits(xs[x])  BY <1>1 DEF LoginInv, ExchangeInv
    <2>14. /\ xs[x].proof # 0 /\ dir.linked /\ dir.active
           /\ HasCapabilities(dir.grants, xs[x].groups)
      BY <2>10, <2>11, <2>13 DEF Fits, Decided, InTransaction
    <2>15. xs[x].row.print = TrustFingerprint(dir)
      BY <2>10, <2>11, <2>13, <2>14 DEF Fits, Consumes, Consuming
    <2>16. /\ PendingAt(requests[xs[x].request], xs[x].consumed)
           /\ xs[x].now <= xs[x].consumed /\ xs[x].consumed < xs[x].proof
           /\ xs[x].consumed < xs[x].expires /\ xs[x].consumed < xs[x].now + IdleTimeout
      BY <2>10, <2>11, <2>13, <2>14 DEF Fits, Timely, Consuming
    <2>17. ActiveAt(SessionOf(x), xs[x].consumed)  BY <2>16 DEF ActiveAt, SessionOf
    <2> QED  BY <2>12, <2>14, <2>15, <2>16, <2>17
  <1>2. LoginInv /\ [Next]_vars =>
          [\A x \in Calls : sessions[x].request # sessions'[x].request => Current(x)]_vars
    BY <1>1
  <1> QED  BY LoginInvariant, <1>2, PTL DEF Spec, IssuedOnCurrentFacts

\* A session that was revoked, expired, left idle or lost its user never
\* authenticates again, for any timeouts and any number of overlapping calls
\* (ValidateActiveSession, SSOSession.ActiveAt).
THEOREM DeadSessionsStayDead == Spec => SessionDeathIsFinal
  <1> DEFINE Dead(s) == sessions[s].state # "none" /\ ~Usable(s)
             StaysDead(s) == sessions'[s].used = sessions[s].used /\ ~Usable(s)'
  <1>1. ASSUME LoginInv, [Next]_vars, NEW s \in Calls, Dead(s)
        PROVE  StaysDead(s)
    <2>0. /\ sessions \in [Calls -> SessionRows] /\ dir \in Directory
          /\ clock \in Nat /\ sessions[s].created <= clock
      BY <1>1, SsoAssumption DEF LoginInv, TypeOK, SessionInv
    <2>1. ASSUME sessions'[s] = sessions[s], dir'.active => dir.active,
                 clock' = clock \/ clock' = clock + 1
          PROVE  StaysDead(s)
      <3>1. /\ sessions[s].created \in Nat /\ sessions[s].expires \in Nat
            /\ sessions[s].used \in Nat /\ IdleTimeout \in Nat
        BY <2>0, SsoAssumption DEF SessionRows
      <3>2. ActiveAt(sessions[s], clock)' => ActiveAt(sessions[s], clock)
        BY <2>0, <2>1, <3>1 DEF ActiveAt
      <3> QED  BY <1>1, <2>1, <3>2 DEF Usable
    <2>2. ASSUME NEW y \in Calls, ExchangeStep(y) \/ Abandon(y) PROVE StaysDead(s)
      <3>1. CASE Commit(y)
        <4>1. sessions[y] = NoSession
          BY <1>1, <3>1 DEF Commit, LoginInv, ExchangeInv
        <4>2. y # s  BY <1>1, <4>1 DEF NoSession
        <4>3. /\ sessions' = sessions \/ sessions' = [sessions EXCEPT ![y] = SessionOf(y)]
              /\ UNCHANGED <<clock, dir>>
          BY <3>1 DEF Commit
        <4>4. sessions'[s] = sessions[s]  BY <2>0, <4>2, <4>3
        <4> QED  BY <2>1, <4>3, <4>4
      <3>2. CASE ~Commit(y)
        <4>1. UNCHANGED <<clock, dir, sessions>>
          BY <2>2, <3>2
          DEF ExchangeStep, Abandon, ReadProvider, BindRequest, VerifyCredential, ReadLink,
              ReadUser, ReadGrants, ValidateSSOExchangeState, RollsBack, Consume, Record,
              Return, Goes
        <4> QED  BY <2>1, <4>1
      <3> QED  BY <3>1, <3>2
    <2>3. ASSUME NEW r \in Requests, BeginAuthentication(r) PROVE StaysDead(s)
      BY <2>1, <2>3 DEF BeginAuthentication
    <2>4. ASSUME NEW t \in Calls, CreateSSOSession(t) PROVE StaysDead(s)
      <3>1. sessions[t] = NoSession
        BY <1>1, <2>4 DEF CreateSSOSession, LoginInv, ExchangeInv
      <3>2. t # s  BY <1>1, <3>1 DEF NoSession
      <3>3. sessions'[s] = sessions[s]  BY <2>0, <2>4, <3>2 DEF CreateSSOSession
      <3>4. UNCHANGED <<clock, dir>>  BY <2>4 DEF CreateSSOSession
      <3> QED  BY <2>1, <3>3, <3>4
    <2>5. ASSUME NEW t \in Calls, RevokeSSOSession(t) PROVE StaysDead(s)
      <3>1. UNCHANGED <<clock, dir>> /\ sessions' = [sessions EXCEPT ![t].state = "revoked"]
        BY <2>5 DEF RevokeSSOSession
      <3>2. CASE t # s
        <4>1. sessions'[s] = sessions[s]  BY <2>0, <3>1, <3>2
        <4> QED  BY <2>1, <3>1, <4>1
      <3>3. CASE t = s
        <4>1. sessions'[s].used = sessions[s].used /\ sessions'[s].state = "revoked"
          BY <2>0, <3>1, <3>3 DEF SessionRows
        <4> QED  BY <4>1 DEF Usable, ActiveAt
      <3> QED  BY <3>2, <3>3
    <2>6. ASSUME ValidateActiveSession PROVE StaysDead(s)
      <3> DEFINE a == auth.session
      <3>1. /\ UNCHANGED <<clock, dir>>
            /\ \/ Admissible(a) /\ sessions' = [sessions EXCEPT ![a].used = UsedAt(a)]
               \/ sessions' = sessions
        BY <2>6 DEF ValidateActiveSession
      <3>2. CASE sessions' = sessions  BY <2>1, <3>1, <3>2
      <3>3. CASE Admissible(a) /\ sessions' = [sessions EXCEPT ![a].used = UsedAt(a)]
        <4>1. a # s  BY <1>1, <3>3 DEF Admissible, Usable
        <4>2. sessions'[s] = sessions[s]  BY <2>0, <3>3, <4>1
        <4> QED  BY <2>1, <3>1, <4>2
      <3> QED  BY <3>1, <3>2, <3>3
    <2>7. ASSUME DeactivateUser \/ LinkSSOIdentity \/ CreateRoleBinding
                   \/ UpdateSSOProviderTrustMaterial \/ UpsertSAMLProviderBinding
          PROVE  StaysDead(s)
      <3>1. UNCHANGED <<clock, sessions>> /\ (dir'.active => dir.active)
        BY <2>0, <2>7
        DEF DeactivateUser, LinkSSOIdentity, CreateRoleBinding,
            UpdateSSOProviderTrustMaterial, UpsertSAMLProviderBinding, Administers, Directory
      <3> QED  BY <2>1, <3>1
    <2>8. ASSUME NEW t \in Calls, ReadIdentity(t) PROVE StaysDead(s)
      BY <2>1, <2>8 DEF ReadIdentity
    <2>9. CASE Tick  BY <2>1, <2>9 DEF Tick
    <2>10. CASE UNCHANGED vars  BY <2>1, <2>10 DEF vars
    <2> HIDE DEF Dead, StaysDead
    <2> QED
      BY <1>1, <2>2, <2>3, <2>4, <2>5, <2>6, <2>7, <2>8, <2>9, <2>10
      DEF Next, Administration
  <1>2. LoginInv /\ [Next]_vars =>
          [\A s \in Calls : sessions[s].state # "none" /\ ~Usable(s) =>
              /\ sessions'[s].used = sessions[s].used
              /\ ~Usable(s)']_vars
    BY <1>1
  <1> HIDE DEF Dead, StaysDead
  <1> QED  BY LoginInvariant, <1>2, PTL DEF Spec, SessionDeathIsFinal

=============================================================================
