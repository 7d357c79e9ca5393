------------------------- MODULE PortalAccessProofs -------------------------
(***************************************************************************)
(* Proofs that the failure budget of PortalAccess holds, that the audit    *)
(* log explains the grants and that packages are released on live grants,  *)
(* for any number of requests, clients, grants and minutes.                *)
(*                                                                         *)
(* The bound of the budget alone is not inductive.  BudgetInv adds that    *)
(* the counters of the current minute are the numbers of its unfinished    *)
(* and of its failed requests, and that no request holds a slot of a later *)
(* minute: a minute that begins is empty, and a completion that comes late *)
(* finds that the minute of its slot is over.                              *)
(*                                                                         *)
(* Nor do the counts of the audit log survive a step without knowing what  *)
(* an open transaction is about to commit.  GrantInv adds that the fence   *)
(* has one holder, so that nobody changes the grant after it was judged,   *)
(* that the draft differs from that grant by exactly the entries it will   *)
(* record, and that a request records in its one commit only.              *)
(***************************************************************************)
EXTENDS PortalAccess, FiniteSetTheorems, TLAPS

Phases == {"idle", "lookup", "begin", "authorize", "commit", "respond", "done"}

\* The part of the state that the budget depends on keeps its type.
BudgetType ==
    /\ clock \in Times /\ windowStart \in Times
    /\ buckets \in [Clients -> [failed : Int, pending : Int]]
    /\ phase \in [Requests -> Phases]
    /\ req \in [Requests -> [client : Clients \cup {None}, prefix : Prefixes \cup {None},
                             secret : Grants \cup {None}, nda : BOOLEAN]]
    /\ lease \in [Requests -> Times \cup {Never}]
    /\ outcome = [r \in Requests |-> outcome[r]]

\* A request that runs has a slot, of the current minute or an earlier one.
LeaseInv ==
    \A r \in Requests :
        /\ phase[r] = "idle" => lease[r] = Never
        /\ phase[r] \notin {"idle", "done"} => lease[r] # Never
        /\ lease[r] # Never => req[r].client \in Clients /\ lease[r] <= windowStart

BudgetInv == BudgetType /\ LeaseInv /\ BudgetHolds

\* What the steps of a request between its arrival and its answer have in
\* common.
Moves(r) ==
    \E p \in Phases \ {"idle", "done"} :
        /\ phase' = [phase EXCEPT ![r] = p]
        /\ UNCHANGED outcome \/ \E x : outcome' = [outcome EXCEPT ![r] = x]

\* Sets of requests are finite.
LEMMA SlotsFinite ==
    ASSUME NEW c, NEW w
    PROVE  /\ IsFiniteSet(Unfinished(c, w)) /\ IsFiniteSet(Failed(c, w))
           /\ IsFiniteSet(Unfinished(c, w) \cup Failed(c, w))
  <1>1. /\ Unfinished(c, w) \subseteq Requests /\ Failed(c, w) \subseteq Requests
        /\ Unfinished(c, w) \cup Failed(c, w) \subseteq Requests
    BY DEF Unfinished, Failed
  <1>2. IsFiniteSet(Requests)  BY PortalConstants
  <1> QED  BY <1>1, <1>2, FS_Subset

\* The same, after a step.
LEMMA SlotsFiniteNext ==
    ASSUME NEW c, NEW w
    PROVE  /\ IsFiniteSet(Unfinished(c, w)') /\ IsFiniteSet(Failed(c, w)')
           /\ IsFiniteSet(Unfinished(c, w)' \cup Failed(c, w)')
  <1>1. /\ Unfinished(c, w)' \subseteq Requests /\ Failed(c, w)' \subseteq Requests
        /\ Unfinished(c, w)' \cup Failed(c, w)' \subseteq Requests
    BY DEF Unfinished, Failed
  <1>2. IsFiniteSet(Requests)  BY PortalConstants
  <1> QED  BY <1>1, <1>2, FS_Subset

\* A step that leaves the slots and the current minute alone keeps the budget.
LEMMA SameSlots ==
    ASSUME BudgetHolds, UNCHANGED budgetVars,
           \A c \in Clients, w \in Times :
               Unfinished(c, w)' = Unfinished(c, w) /\ Failed(c, w)' = Failed(c, w),
           windowStart \in Times
    PROVE  BudgetHolds'
  BY DEF BudgetHolds, budgetVars

\* The steps of a request between its arrival and its answer leave clients,
\* slots and budget alone.
LEMMA MiddleStep ==
    ASSUME BudgetInv, NEW r \in Requests,
           phase[r] \notin {"idle", "done"}, Moves(r),
           UNCHANGED <<clock, budgetVars, req, lease>>
    PROVE  BudgetInv'
  <1> PICK p \in Phases \ {"idle", "done"} :
          /\ phase' = [phase EXCEPT ![r] = p]
          /\ UNCHANGED outcome \/ \E x : outcome' = [outcome EXCEPT ![r] = x]
    BY DEF Moves
  <1>1. BudgetType'  BY DEF BudgetInv, BudgetType, budgetVars, Times
  <1>2. LeaseInv'  BY DEF BudgetInv, BudgetType, LeaseInv, budgetVars
  <1>3. ASSUME NEW c \in Clients, NEW w \in Times
        PROVE  Unfinished(c, w)' = Unfinished(c, w) /\ Failed(c, w)' = Failed(c, w)
    <2>1. \A q \in Requests : /\ phase'[q] = "done" <=> phase[q] = "done"
                              /\ phase[q] = "done" => outcome'[q] = outcome[q]
      BY DEF BudgetInv, BudgetType
    <2> QED  BY <2>1 DEF Unfinished, Failed
  <1>4. BudgetHolds'  BY <1>3, SameSlots DEF BudgetInv, BudgetType, budgetVars
  <1> QED  BY <1>1, <1>2, <1>4 DEF BudgetInv

LEMMA InitBudget == Init => BudgetInv
  <1> SUFFICES ASSUME Init PROVE BudgetInv  OBVIOUS
  <1>0. MaxClock \in Nat /\ Limit \in Nat  BY PortalConstants
  <1>1. BudgetType
    BY <1>0 DEF Init, BudgetType, Times, Never, NoBucket, NoRequest, Phases
  <1>2. LeaseInv  BY DEF Init, LeaseInv
  <1>3. ASSUME NEW c \in Clients, NEW w \in Times
        PROVE  /\ Cardinality(Unfinished(c, w)) = 0 /\ Cardinality(Failed(c, w)) = 0
               /\ Cardinality(Unfinished(c, w) \cup Failed(c, w)) = 0
    <2>1. Unfinished(c, w) = {} /\ Failed(c, w) = {}
      BY <1>0 DEF Init, Unfinished, Failed, Never, Times
    <2>2. Unfinished(c, w) \cup Failed(c, w) = {}  BY <2>1
    <2> QED  BY <2>1, <2>2, FS_EmptySet
  <1>4. BudgetHolds
    <2>1. windowStart \in Times  BY <1>1 DEF BudgetType
    <2>3. \A c \in Clients : buckets[c].pending = 0 /\ buckets[c].failed = 0
      BY DEF Init, NoBucket
    <2>4. ASSUME NEW c \in Clients
          PROVE  /\ \A w \in Times : Cardinality(Unfinished(c, w) \cup Failed(c, w)) <= Limit
                 /\ buckets[c].pending = Cardinality(Unfinished(c, windowStart))
                 /\ buckets[c].failed = Cardinality(Failed(c, windowStart))
      <3>1. \A w \in Times : Cardinality(Unfinished(c, w) \cup Failed(c, w)) <= Limit
        BY <1>0, <1>3
      <3>2. /\ Cardinality(Unfinished(c, windowStart)) = 0
            /\ Cardinality(Failed(c, windowStart)) = 0
        BY <1>3, <2>1
      <3> QED  BY <2>3, <3>1, <3>2
    <2> QED  BY <2>4 DEF BudgetHolds
  <1> QED  BY <1>1, <1>2, <1>4 DEF BudgetInv

-----------------------------------------------------------------------------
(* Arrival                                                                  *)

\* What reserve finds: the counters of the minute it admits to are those of
\* the requests of that minute, and a minute that begins has none.
LEMMA RolledCounts ==
    ASSUME BudgetInv, NEW c \in Clients
    PROVE  /\ Window \in Times /\ windowStart <= Window
           /\ Rolled \in [Clients -> [failed : Int, pending : Int]]
           /\ Rolled[c].pending = Cardinality(Unfinished(c, Window))
           /\ Rolled[c].failed = Cardinality(Failed(c, Window))
  <1>0. MaxClock \in Nat /\ windowStart \in Times /\ clock \in Times
    BY PortalConstants DEF BudgetInv, BudgetType
  <1>1. CASE clock > windowStart
    <2>1. Window = clock /\ Rolled = [d \in Clients |-> NoBucket]
      BY <1>1 DEF Window, Rolled
    <2>2. Unfinished(c, clock) = {} /\ Failed(c, clock) = {}
      <3>1. \A r \in Requests : lease[r] # clock
        BY <1>0, <1>1 DEF BudgetInv, BudgetType, LeaseInv, Times, Never
      <3> QED  BY <3>1 DEF Unfinished, Failed
    <2>3. Cardinality(Unfinished(c, clock)) = 0 /\ Cardinality(Failed(c, clock)) = 0
      BY <2>2, FS_EmptySet
    <2> QED  BY <1>0, <1>1, <2>1, <2>3 DEF NoBucket, Times
  <1>2. CASE ~(clock > windowStart)
    <2>1. Window = windowStart /\ Rolled = buckets
      BY <1>2 DEF Window, Rolled
    <2>2. /\ buckets[c].pending = Cardinality(Unfinished(c, windowStart))
          /\ buckets[c].failed = Cardinality(Failed(c, windowStart))
      BY DEF BudgetInv, BudgetHolds
    <2> QED  BY <1>0, <2>1, <2>2 DEF BudgetInv, BudgetType, Times
  <1> QED  BY <1>1, <1>2

\* A request that is refused gets no slot.
LEMMA ArriveRefused ==
    ASSUME BudgetInv, NEW r \in Requests, phase[r] = "idle",
           windowStart' = Window, buckets' = Rolled,
           phase' = [phase EXCEPT ![r] = "done"],
           outcome' = [outcome EXCEPT ![r] = "refused"],
           UNCHANGED <<clock, req, lease>>
    PROVE  BudgetInv'
  <1>0. MaxClock \in Nat  BY PortalConstants
  <1>w. Window \in Times /\ windowStart <= Window /\ windowStart \in Times /\ clock \in Times
    BY <1>0 DEF Window, BudgetInv, BudgetType, Times
  <1>1. BudgetType'
    <2>1. Rolled \in [Clients -> [failed : Int, pending : Int]]
      BY DEF Rolled, NoBucket, BudgetInv, BudgetType
    <2> QED  BY <1>w, <2>1 DEF BudgetInv, BudgetType, Phases
  <1>2. LeaseInv'
    BY <1>0, <1>w DEF BudgetInv, BudgetType, LeaseInv, Times, Never
  <1>3. ASSUME NEW c \in Clients, NEW w \in Times
        PROVE  Unfinished(c, w)' = Unfinished(c, w) /\ Failed(c, w)' = Failed(c, w)
    <2>1. lease[r] # w
      BY <1>0 DEF BudgetInv, LeaseInv, Times, Never
    <2>2. \A q \in Requests \ {r} : phase'[q] = phase[q] /\ outcome'[q] = outcome[q]
      BY DEF BudgetInv, BudgetType
    <2> QED  BY <2>1, <2>2 DEF Unfinished, Failed
  <1>4. BudgetHolds'
    <2> SUFFICES ASSUME NEW c \in Clients
                 PROVE  /\ \A w \in Times : Cardinality(Unfinished(c, w)' \cup Failed(c, w)') <= Limit
                        /\ buckets'[c].pending = Cardinality(Unfinished(c, windowStart)')
                        /\ buckets'[c].failed = Cardinality(Failed(c, windowStart)')
      BY DEF BudgetHolds
    <2>1. \A w \in Times : Cardinality(Unfinished(c, w)' \cup Failed(c, w)') <= Limit
      BY <1>3 DEF BudgetInv, BudgetHolds
    <2>2. /\ Unfinished(c, windowStart)' = Unfinished(c, Window)
          /\ Failed(c, windowStart)' = Failed(c, Window)
      BY <1>3, <1>w DEF Unfinished, Failed
    <2> QED  BY <2>1, <2>2, RolledCounts
  <1> QED  BY <1>1, <1>2, <1>4 DEF BudgetInv

\* A request that is admitted takes a slot of the minute that the clock shows.
LEMMA ArriveAdmitted ==
    ASSUME BudgetInv, NEW r \in Requests, phase[r] = "idle",
           NEW d \in Clients, Admits(d),
           windowStart' = Window, buckets' = [Rolled EXCEPT ![d].pending = @ + 1],
           NEW p \in Prefixes, NEW s \in Grants \cup {None}, NEW nda \in BOOLEAN,
           req' = [req EXCEPT ![r] = [client |-> d, prefix |-> p, secret |-> s, nda |-> nda]],
           lease' = [lease EXCEPT ![r] = clock],
           phase' = [phase EXCEPT ![r] = "lookup"],
           UNCHANGED <<clock, outcome>>
    PROVE  BudgetInv'
  <1>0. MaxClock \in Nat /\ Limit \in Nat  BY PortalConstants
  <1>w. /\ Window = clock /\ clock \in Times /\ clock # Never
        /\ windowStart \in Times /\ windowStart <= clock
    <2>1. clock >= windowStart  BY DEF Admits
    <2>2. clock \in Times /\ windowStart \in Times  BY DEF BudgetInv, BudgetType
    <2>3. clock # Never /\ windowStart <= clock
      BY <1>0, <2>1, <2>2 DEF Times, Never
    <2>4. Window = clock
      <3>1. CASE clock > windowStart  BY <3>1 DEF Window
      <3>2. CASE ~(clock > windowStart)
        <4>1. clock = windowStart  BY <1>0, <2>1, <2>2, <3>2 DEF Times
        <4> QED  BY <4>1, <3>2 DEF Window
      <3> QED  BY <3>1, <3>2
    <2> QED  BY <2>2, <2>3, <2>4
  <1>r. /\ Rolled \in [Clients -> [failed : Int, pending : Int]]
        /\ \A c \in Clients : /\ Rolled[c].pending = Cardinality(Unfinished(c, clock))
                              /\ Rolled[c].failed = Cardinality(Failed(c, clock))
    <2>1. Rolled \in [Clients -> [failed : Int, pending : Int]]
      BY DEF Rolled, NoBucket, BudgetInv, BudgetType
    <2> QED  BY <2>1, <1>w, RolledCounts
  <1>1. BudgetType'
    BY <1>w, <1>r DEF BudgetInv, BudgetType, Phases
  <1>2. LeaseInv'
    BY <1>0, <1>w DEF BudgetInv, BudgetType, LeaseInv, Times, Never
  <1>f. /\ req'[r].client = d /\ lease'[r] = clock /\ phase'[r] = "lookup"
        /\ \A q \in Requests \ {r} : /\ phase'[q] = phase[q] /\ outcome'[q] = outcome[q]
                                     /\ lease'[q] = lease[q] /\ req'[q] = req[q]
    BY DEF BudgetInv, BudgetType
  <1>n. \A c \in Clients, w \in Times : r \notin Unfinished(c, w) /\ r \notin Failed(c, w)
    BY <1>0 DEF BudgetInv, LeaseInv, Unfinished, Failed, Times, Never
  <1>3. ASSUME NEW c \in Clients, NEW w \in Times
        PROVE  /\ Failed(c, w)' = Failed(c, w)
               /\ c = d /\ w = clock => Unfinished(c, w)' = Unfinished(c, w) \cup {r}
               /\ ~(c = d /\ w = clock) => Unfinished(c, w)' = Unfinished(c, w)
    <2>1. Failed(c, w)' = Failed(c, w)  BY <1>f, <1>n DEF Failed
    <2>2. ASSUME c = d, w = clock PROVE Unfinished(c, w)' = Unfinished(c, w) \cup {r}
      BY <1>f, <2>2 DEF Unfinished
    <2>3. ASSUME ~(c = d /\ w = clock) PROVE Unfinished(c, w)' = Unfinished(c, w)
      BY <1>f, <1>n, <2>3 DEF Unfinished
    <2> QED  BY <2>1, <2>2, <2>3
  <1>4. /\ Cardinality(Unfinished(d, clock) \cup {r}) = Cardinality(Unfinished(d, clock)) + 1
        /\ Cardinality((Unfinished(d, clock) \cup {r}) \cup Failed(d, clock)) <= Limit
    <2> DEFINE U == Unfinished(d, clock)  F == Failed(d, clock)
    <2>1. IsFiniteSet(U) /\ IsFiniteSet(F) /\ r \notin U /\ r \notin F
      BY SlotsFinite, <1>n, <1>w
    <2>2. IsFiniteSet(U \cup {r}) /\ Cardinality(U \cup {r}) = Cardinality(U) + 1
      BY <2>1, FS_AddElement
    <2>3. (U \cup {r}) \cap F = {}  BY <2>1 DEF Unfinished, Failed
    <2>4. Cardinality((U \cup {r}) \cup F)
            = Cardinality(U \cup {r}) + Cardinality(F) - Cardinality((U \cup {r}) \cap F)
      BY <2>1, <2>2, FS_Union
    <2>5. Cardinality((U \cup {r}) \cap F) = 0  BY <2>3, FS_EmptySet
    <2>6. Cardinality(U) \in Nat /\ Cardinality(F) \in Nat
      BY <2>1, FS_CardinalityType
    <2>7. Cardinality(U) < Limit - Cardinality(F)
      BY <1>r DEF Admits
    <2> QED  BY <1>0, <2>2, <2>4, <2>5, <2>6, <2>7
  <1>5. ASSUME NEW c \in Clients
        PROVE  /\ \A w \in Times : Cardinality(Unfinished(c, w)' \cup Failed(c, w)') <= Limit
               /\ buckets'[c].pending = Cardinality(Unfinished(c, windowStart)')
               /\ buckets'[c].failed = Cardinality(Failed(c, windowStart)')
    <2>1. ASSUME NEW w \in Times
          PROVE  Cardinality(Unfinished(c, w)' \cup Failed(c, w)') <= Limit
      <3>1. CASE c = d /\ w = clock  BY <3>1, <1>3, <1>4
      <3>2. CASE ~(c = d /\ w = clock)
        BY <3>2, <1>3 DEF BudgetInv, BudgetHolds
      <3> QED  BY <3>1, <3>2
    <2>2. /\ Unfinished(c, windowStart)' = Unfinished(c, clock)'
          /\ Failed(c, windowStart)' = Failed(c, clock)'
      BY <1>w DEF Unfinished, Failed
    <2>3. buckets'[c].failed = Rolled[c].failed
      BY <1>r
    <2>4. /\ c = d => buckets'[c].pending = Rolled[c].pending + 1
          /\ c # d => buckets'[c].pending = Rolled[c].pending
      BY <1>r
    <2>5. /\ c = d => Unfinished(c, clock)' = Unfinished(c, clock) \cup {r}
          /\ c # d => Unfinished(c, clock)' = Unfinished(c, clock)
          /\ Failed(c, clock)' = Failed(c, clock)
      BY <1>3, <1>w
    <2>6. CASE c = d  BY <2>1, <2>2, <2>3, <2>4, <2>5, <2>6, <1>4, <1>r
    <2>7. CASE c # d  BY <2>1, <2>2, <2>3, <2>4, <2>5, <2>7, <1>r
    <2> QED  BY <2>6, <2>7
  <1>6. BudgetHolds'  BY <1>5 DEF BudgetHolds
  <1> QED  BY <1>1, <1>2, <1>6 DEF BudgetInv

-----------------------------------------------------------------------------
(* The answer                                                               *)

\* The slot of an answered request is returned, or spent on its failure; if its
\* minute is over the counters stay as they are.
LEMMA RespondStep ==
    ASSUME BudgetInv, NEW r \in Requests, Respond(r)
    PROVE  BudgetInv'
  <1>0. MaxClock \in Nat /\ Limit \in Nat  BY PortalConstants
  <1> DEFINE d == req[r].client
             spent == outcome[r] # "served"
  <1>d. /\ d \in Clients /\ lease[r] \in Times /\ lease[r] <= windowStart
        /\ phase[r] = "respond"
    BY DEF Respond, BudgetInv, BudgetType, LeaseInv
  <1>f. /\ phase'[r] = "done" /\ req'[r].client = d /\ lease' = lease /\ outcome' = outcome
        /\ \A q \in Requests \ {r} : phase'[q] = phase[q] /\ req'[q] = req[q]
    BY DEF Respond, BudgetInv, BudgetType, NoRequest
  <1>w. windowStart' = windowStart /\ clock' = clock /\ windowStart \in Times
    BY DEF Respond, BudgetInv, BudgetType
  <1>b. \/ lease[r] # windowStart /\ buckets' = buckets
        \/ /\ lease[r] = windowStart
           /\ buckets' = [buckets EXCEPT ![d] =
                            [failed |-> @.failed + (IF spent THEN 1 ELSE 0),
                             pending |-> @.pending - 1]]
    BY DEF Respond, Finish
  <1>1. BudgetType'
    <2>1. buckets' \in [Clients -> [failed : Int, pending : Int]]
      BY <1>b, <1>d DEF BudgetInv, BudgetType
    <2>2. phase' \in [Requests -> Phases]
      BY DEF Respond, BudgetInv, BudgetType, Phases
    <2>3. req' \in [Requests -> [client : Clients \cup {None}, prefix : Prefixes \cup {None},
                                  secret : Grants \cup {None}, nda : BOOLEAN]]
      BY DEF Respond, BudgetInv, BudgetType, NoRequest
    <2> QED  BY <1>w, <1>f, <2>1, <2>2, <2>3 DEF BudgetInv, BudgetType
  <1>2. LeaseInv'
    BY <1>f, <1>w, <1>d DEF BudgetInv, LeaseInv
  <1>3. ASSUME NEW c \in Clients, NEW w \in Times
        PROVE  /\ Unfinished(c, w)' = Unfinished(c, w) \ {r}
               /\ c = d /\ w = lease[r] /\ spent => Failed(c, w)' = Failed(c, w) \cup {r}
               /\ ~(c = d /\ w = lease[r] /\ spent) => Failed(c, w)' = Failed(c, w)
               /\ r \in Unfinished(c, w) <=> c = d /\ w = lease[r]
               /\ r \notin Failed(c, w)
    <2>1. Unfinished(c, w)' = Unfinished(c, w) \ {r}
      BY <1>f DEF Unfinished
    <2>2. ASSUME c = d, w = lease[r], spent PROVE Failed(c, w)' = Failed(c, w) \cup {r}
      BY <1>f, <1>d, <2>2 DEF Failed
    <2>3. ASSUME ~(c = d /\ w = lease[r] /\ spent) PROVE Failed(c, w)' = Failed(c, w)
      BY <1>f, <1>d, <2>3 DEF Failed
    <2>4. /\ r \in Unfinished(c, w) <=> c = d /\ w = lease[r]
          /\ r \notin Failed(c, w)
      BY <1>d DEF Unfinished, Failed
    <2> QED  BY <2>1, <2>2, <2>3, <2>4
  <1>4. ASSUME NEW c \in Clients, NEW w \in Times
        PROVE  Cardinality(Unfinished(c, w)' \cup Failed(c, w)') <= Limit
    <2> DEFINE old == Unfinished(c, w) \cup Failed(c, w)
               new == Unfinished(c, w)' \cup Failed(c, w)'
    <2>1. new \subseteq old
      <3>1. CASE c = d /\ w = lease[r] /\ spent  BY <3>1, <1>3
      <3>2. CASE ~(c = d /\ w = lease[r] /\ spent)  BY <3>2, <1>3
      <3> QED  BY <3>1, <3>2
    <2>2. IsFiniteSet(old)  BY SlotsFinite
    <2>3. Cardinality(old) <= Limit  BY DEF BudgetInv, BudgetHolds
    <2>4. Cardinality(new) <= Cardinality(old) /\ IsFiniteSet(new)
      BY <2>1, <2>2, FS_Subset
    <2>5. Cardinality(new) \in Nat /\ Cardinality(old) \in Nat
      BY <2>2, <2>4, FS_CardinalityType
    <2> QED  BY <1>0, <2>3, <2>4, <2>5
  <1>5. ASSUME NEW c \in Clients
        PROVE  /\ buckets'[c].pending = Cardinality(Unfinished(c, windowStart)')
               /\ buckets'[c].failed = Cardinality(Failed(c, windowStart)')
    <2> DEFINE U == Unfinished(c, windowStart)  F == Failed(c, windowStart)
    <2>1. buckets[c].pending = Cardinality(U) /\ buckets[c].failed = Cardinality(F)
      BY DEF BudgetInv, BudgetHolds
    <2>2. IsFiniteSet(U) /\ IsFiniteSet(F)  BY SlotsFinite
    <2>3. /\ Unfinished(c, windowStart)' = U \ {r}
          /\ c = d /\ windowStart = lease[r] /\ spent => Failed(c, windowStart)' = F \cup {r}
          /\ ~(c = d /\ windowStart = lease[r] /\ spent) => Failed(c, windowStart)' = F
          /\ r \in U <=> c = d /\ windowStart = lease[r]
          /\ r \notin F
      <3>1. /\ Unfinished(c, windowStart)' = {q \in Requests : req'[q].client = c
                   /\ lease'[q] = windowStart /\ phase'[q] # "done"}
            /\ Failed(c, windowStart)' = {q \in Requests : req'[q].client = c
                   /\ lease'[q] = windowStart /\ phase'[q] = "done" /\ outcome'[q] # "served"}
        BY <1>w DEF Unfinished, Failed
      <3>2. ASSUME NEW w \in Times, w = windowStart
            PROVE  Unfinished(c, windowStart)' = Unfinished(c, w)' /\ Failed(c, windowStart)' = Failed(c, w)'
        BY <1>w, <3>2, <3>1 DEF Unfinished, Failed
      <3> QED  BY <1>3, <1>w, <3>2
    <2>4. CASE c = d /\ windowStart = lease[r]
      <3>1. r \in U  BY <2>3, <2>4
      <3>2. Cardinality(U \ {r}) = Cardinality(U) - 1  BY <2>2, <3>1, FS_RemoveElement
      <3>3. buckets'[c].pending = buckets[c].pending - 1
        BY <1>b, <1>d, <2>4 DEF BudgetInv, BudgetType
      <3>4. buckets'[c].failed = buckets[c].failed + (IF spent THEN 1 ELSE 0)
        BY <1>b, <1>d, <2>4 DEF BudgetInv, BudgetType
      <3>5. Cardinality(F \cup {r}) = Cardinality(F) + 1
        BY <2>2, <2>3, FS_AddElement
      <3>6. Cardinality(F) \in Nat  BY <2>2, FS_CardinalityType
      <3>7. buckets'[c].failed = Cardinality(Failed(c, windowStart)')
        <4>1. CASE spent  BY <4>1, <2>1, <2>3, <2>4, <3>4, <3>5
        <4>2. CASE ~spent  BY <4>2, <2>1, <2>3, <3>4, <3>6
        <4> QED  BY <4>1, <4>2
      <3> QED  BY <2>1, <2>3, <3>2, <3>3, <3>7
    <2>5. CASE ~(c = d /\ windowStart = lease[r])
      <3>1. U \ {r} = U  BY <2>3, <2>5
      <3>2. buckets'[c] = buckets[c]
        BY <1>b, <1>d, <2>5 DEF BudgetInv, BudgetType
      <3> QED  BY <2>1, <2>3, <2>5, <3>1, <3>2
    <2> QED  BY <2>4, <2>5
  <1>6. BudgetHolds'  BY <1>4, <1>5 DEF BudgetHolds
  <1> QED  BY <1>1, <1>2, <1>6 DEF BudgetInv

-----------------------------------------------------------------------------
(* Every step, and the theorem                                              *)

\* A transaction that proposes an update or refuses moves its request only.
LEMMA ProposeMoves ==
    ASSUME NEW r \in Requests, NEW row, NEW kinds, NEW result,
           Propose(r, row, kinds, result) \/ Refuse(r)
    PROVE  Moves(r)
  <1>1. CASE Refuse(r)  BY <1>1 DEF Refuse, Answer, Moves, Phases
  <1>2. CASE Propose(r, row, kinds, result)
    BY <1>2, <1>1 DEF Propose, Refuse, Answer, Moves, Phases
  <1> QED  BY <1>1, <1>2

LEMMA AdmitMoves ==
    ASSUME NEW r \in Requests, NEW row, Admit(r, row)
    PROVE  Moves(r)
  <1>1. \E new, kinds, result : Propose(r, new, kinds, result)  BY DEF Admit
  <1> QED  BY <1>1, ProposeMoves

LEMMA RequestMoves ==
    ASSUME NEW r \in Requests,
           Lookup(r) \/ Judge(r) \/ Authorize(r) \/ Commit(r) \/ Fail(r)
    PROVE  /\ phase[r] \notin {"idle", "done"} /\ Moves(r)
           /\ UNCHANGED <<clock, budgetVars, req, lease>>
  <1>1. CASE Lookup(r)  BY <1>1 DEF Lookup, Answer, Moves, Phases, budgetVars
  <1>2. CASE Judge(r)
    <2>1. \/ Refuse(r) \/ \E row, kinds, result : Propose(r, row, kinds, result)
          \/ phase' = [phase EXCEPT ![r] = "authorize"] /\ UNCHANGED outcome
      BY <1>2 DEF Judge
    <2>2. Moves(r)
      <3>1. CASE phase' = [phase EXCEPT ![r] = "authorize"] /\ UNCHANGED outcome
        BY <3>1 DEF Moves, Phases
      <3> QED  BY <2>1, <3>1, ProposeMoves
    <2> QED  BY <1>2, <2>2 DEF Judge, budgetVars
  <1>3. CASE Authorize(r)
    <2>1. Moves(r)  BY <1>3, AdmitMoves, ProposeMoves DEF Authorize
    <2> QED  BY <1>3, <2>1 DEF Authorize, budgetVars
  <1>4. CASE Commit(r)  BY <1>4 DEF Commit, Answer, Moves, Phases, budgetVars
  <1>5. CASE Fail(r)  BY <1>5 DEF Fail, Answer, Moves, Phases, budgetVars
  <1> QED  BY <1>1, <1>2, <1>3, <1>4, <1>5

\* Steps that leave requests and budget alone.
LEMMA OtherStep ==
    ASSUME BudgetInv, clock' \in Times, UNCHANGED <<budgetVars, phase, req, lease, outcome>>
    PROVE  BudgetInv'
  <1>1. BudgetType'  BY DEF BudgetInv, BudgetType, budgetVars
  <1>2. LeaseInv'  BY DEF BudgetInv, LeaseInv, budgetVars
  <1>3. BudgetHolds'
    BY ZenonT(60) DEF BudgetInv, BudgetHolds, budgetVars, Unfinished, Failed
  <1> QED  BY <1>1, <1>2, <1>3 DEF BudgetInv

LEMMA NextBudget == BudgetInv /\ [Next]_vars => BudgetInv'
  <1> SUFFICES ASSUME BudgetInv, [Next]_vars PROVE BudgetInv'  OBVIOUS
  <1>c. clock \in Times  BY DEF BudgetInv, BudgetType
  <1>1. ASSUME NEW r \in Requests, Arrive(r) PROVE BudgetInv'
    <2>1. /\ phase[r] = "idle" /\ windowStart' = Window /\ UNCHANGED clock
      BY <1>1 DEF Arrive
    <2>2. PICK c \in Clients :
            \/ /\ Admits(c)
               /\ buckets' = [Rolled EXCEPT ![c].pending = @ + 1]
               /\ \E p \in Prefixes, s \in Issued \cup {None}, nda \in BOOLEAN :
                     req' = [req EXCEPT ![r] = [client |-> c, prefix |-> p,
                                                secret |-> s, nda |-> nda]]
               /\ lease' = [lease EXCEPT ![r] = clock]
               /\ phase' = [phase EXCEPT ![r] = "lookup"] /\ UNCHANGED outcome
            \/ /\ buckets' = Rolled
               /\ phase' = [phase EXCEPT ![r] = "done"]
               /\ outcome' = [outcome EXCEPT ![r] = "refused"] /\ UNCHANGED <<req, lease>>
      BY <1>1 DEF Arrive
    <2>3. Issued \subseteq Grants  BY DEF Issued
    <2> QED  BY <2>1, <2>2, <2>3, ArriveAdmitted, ArriveRefused
  <1>2. ASSUME NEW r \in Requests,
               Lookup(r) \/ Judge(r) \/ Authorize(r) \/ Commit(r) \/ Fail(r)
        PROVE  BudgetInv'
    BY <1>2, RequestMoves, MiddleStep
  <1>3. ASSUME NEW r \in Requests, Respond(r) PROVE BudgetInv'
    BY <1>3, RespondStep
  <1>4. ASSUME NEW g \in Grants, CreatePortalAccess(g) \/ RevokePortalAccess(g)
        PROVE  BudgetInv'
    BY <1>4, <1>c, OtherStep DEF CreatePortalAccess, RevokePortalAccess, requestVars
  <1>5. CASE Tick  BY <1>5, OtherStep DEF Tick, requestVars
  <1>6. CASE UNCHANGED vars
    BY <1>6, <1>c, OtherStep DEF vars, requestVars
  <1> QED  BY <1>1, <1>2, <1>3, <1>4, <1>5, <1>6 DEF Next

\* For any number of overlapping requests and clients, any limit and any
\* capacity: the budget of a minute holds, and its counters are exact
\* (failureBudget.reserve and finish).
THEOREM BudgetIsKept == Spec => []BudgetHolds
  <1>1. BudgetInv => BudgetHolds  BY DEF BudgetInv
  <1> QED  BY InitBudget, NextBudget, <1>1, PTL DEF Spec

-----------------------------------------------------------------------------
(* Grants, transactions and the audit log                                   *)

TokenKinds == {"access_failed", "locked_out", "nda_required", "accessed", "nda_accepted"}
Kinds == TokenKinds \cup {"created", "revoked"}
Rows == [prefix : Prefixes \cup {None}, expires : Int, requireNDA : BOOLEAN, nda : BOOLEAN,
         revoked : BOOLEAN, access : Int, failed : Int, lastAccess : Int, lastFailed : Int]
Entries == [kind : Kinds, grant : Grants, by : Requests \cup {None}]

GrantType ==
    /\ packageExpires \in Int
    /\ grant \in [Grants -> Rows]
    /\ audit \in SUBSET Entries /\ IsFiniteSet(audit)
    /\ found \in [Requests -> Grants \cup {None}]
    /\ fence \in Requests \cup {None}
    /\ draft.row \in Rows /\ draft.entries \in SUBSET Entries

\* The fence is held by the request that is inside its transaction, which works
\* on an issued grant.
FenceInv ==
    \A r \in Requests :
        /\ phase[r] \in {"authorize", "commit"} => fence = r
        /\ fence = r => phase[r] \in {"authorize", "commit"}
        /\ phase[r] \in {"begin", "authorize", "commit"} => found[r] \in Issued

Drafted(k, r) == Entry(k, r) \in draft.entries

\* What the open transaction is about to commit differs from the grant that it
\* locked by exactly the entries it is about to record.
DraftFits(r) ==
    LET old == grant[found[r]]  new == draft.row IN
    /\ draft.entries \subseteq {Entry(k, r) : k \in TokenKinds}
    /\ ~old.revoked
    /\ new.prefix = old.prefix /\ new.expires = old.expires
    /\ new.requireNDA = old.requireNDA
    /\ new.access = old.access + (IF Drafted("accessed", r) THEN 1 ELSE 0)
    /\ new.failed = old.failed + (IF Drafted("access_failed", r) THEN 1 ELSE 0)
    /\ Drafted("access_failed", r) /\ new.failed >= PortalFailedAccessLimit => new.revoked
    /\ new.revoked => Drafted("locked_out", r)
    /\ Drafted("locked_out", r) => new.revoked
    /\ old.nda => new.nda /\ ~Drafted("nda_accepted", r)
    /\ Drafted("nda_accepted", r) => new.nda
    /\ new.nda /\ ~old.nda => Drafted("nda_accepted", r)
    /\ Drafted("accessed", r) =>
          /\ req[r].secret = found[r]
          /\ new.requireNDA => new.nda
          /\ new.lastAccess < old.expires /\ new.lastAccess < packageExpires
    /\ draft.outcome = "served" => Drafted("accessed", r)

TxInv ==
    \A r \in Requests :
        /\ phase[r] = "authorize" => ~grant[found[r]].revoked /\ req[r].secret = found[r]
        /\ phase[r] = "commit" => DraftFits(r)

\* Every request records its entries in the one commit it has, and on the grant
\* it found; nothing is recorded of a grant before it is issued.
AuditInv ==
    /\ \A e \in audit :
          /\ e.grant \in Issued
          /\ e.kind \in TokenKinds => e.by \in Requests
          /\ e.by \in Requests => phase[e.by] \in {"respond", "done"} /\ e.grant = found[e.by]
    /\ \A r \in Requests : outcome[r] = "served" => phase[r] \in {"respond", "done"}

GrantInv == GrantType /\ FenceInv /\ TxInv /\ AuditInv /\ AuditExplainsGrant


LEMMA InitGrant == Init => GrantInv
  <1> SUFFICES ASSUME Init PROVE GrantInv  OBVIOUS
  <1>1. GrantType
    <2>1. NoRow \in Rows  BY DEF NoRow, Rows, Never
    <2>2. packageExpires \in Int  BY PortalConstants DEF Init
    <2>3. IsFiniteSet(audit)  BY FS_EmptySet DEF Init
    <2> QED  BY <2>1, <2>2, <2>3 DEF Init, GrantType, NoDraft
  <1>2. Issued = {}  BY DEF Init, Issued, NoRow
  <1>3. FenceInv  BY PortalConstants DEF Init, FenceInv
  <1>4. TxInv  BY DEF Init, TxInv
  <1>5. AuditInv  BY DEF Init, AuditInv
  <1>6. AuditExplainsGrant  BY <1>2 DEF Init, AuditExplainsGrant
  <1> QED  BY <1>1, <1>3, <1>4, <1>5, <1>6 DEF GrantInv

\* With the grants and the audit log, the counts of AuditExplainsGrant stay.
LEMMA SameLedger ==
    ASSUME AuditExplainsGrant, UNCHANGED <<grant, audit>>,
           \A r \in Requests : outcome'[r] = "served" =>
                outcome[r] = "served" /\ found'[r] = found[r]
    PROVE  AuditExplainsGrant'
  <1>1. Issued' = Issued  BY DEF Issued
  <1>2. \A g, k : EntriesOf(g, k)' = EntriesOf(g, k)  BY DEF EntriesOf
  <1>3. \A r \in Requests : outcome'[r] = "served" => Entry("accessed", r)' \in audit'
    BY DEF AuditExplainsGrant, Entry
  <1> QED  BY <1>1, <1>2, <1>3 DEF AuditExplainsGrant

\* A step of one request that touches neither the ledger nor a transaction.
LEMMA QuietStep ==
    ASSUME GrantInv, BudgetType, NEW r \in Requests, NEW p \in Phases,
           UNCHANGED <<ledgerVars, txVars>>,
           phase' = [phase EXCEPT ![r] = p],
           phase[r] \notin {"authorize", "commit"}, p \notin {"authorize", "commit"},
           p = "begin" => found'[r] \in Issued,
           phase[r] \in {"respond", "done"} => p \in {"respond", "done"} /\ UNCHANGED found,
           found' \in [Requests -> Grants \cup {None}],
           \A q \in Requests \ {r} :
               found'[q] = found[q] /\ req'[q] = req[q] /\ outcome'[q] = outcome[q],
           outcome'[r] = "served" =>
               /\ outcome[r] = "served" /\ found'[r] = found[r] /\ p \in {"respond", "done"}
    PROVE  GrantInv'
  <1>1. GrantType'  BY DEF GrantInv, GrantType, ledgerVars, txVars
  <1>2. Issued' = Issued  BY DEF Issued, ledgerVars
  <1>3. /\ phase'[r] = p /\ \A q \in Requests \ {r} : phase'[q] = phase[q]
    BY DEF BudgetType
  <1>4. FenceInv'  BY <1>2, <1>3 DEF GrantInv, FenceInv, txVars
  <1>5. ASSUME NEW q \in Requests, q # r, DraftFits(q) PROVE DraftFits(q)'
    BY <1>5 DEF DraftFits, Drafted, Entry, ledgerVars, txVars
  <1>6. TxInv'  BY <1>3, <1>5 DEF GrantInv, TxInv, ledgerVars
  <1>7. AuditInv'  BY <1>2, <1>3 DEF GrantInv, AuditInv, ledgerVars
  <1>8. AuditExplainsGrant'  BY SameLedger DEF GrantInv, ledgerVars
  <1> QED  BY <1>1, <1>4, <1>6, <1>7, <1>8 DEF GrantInv

\* A transaction that ends without an effect.
LEMMA RefuseStep ==
    ASSUME GrantInv, BudgetType, NEW r \in Requests, Refuse(r), fence \in {None, r},
           phase[r] \notin {"respond", "done"}, UNCHANGED <<ledgerVars, req, found>>
    PROVE  GrantInv'
  <1>0. /\ phase' = [phase EXCEPT ![r] = "respond"]
        /\ outcome' = [outcome EXCEPT ![r] = "refused"] /\ fence' = None /\ draft' = NoDraft
    BY DEF Refuse, Answer
  <1>1. GrantType'
    <2>1. NoRow \in Rows  BY DEF NoRow, Rows, Never
    <2> QED  BY <1>0, <2>1 DEF GrantInv, GrantType, ledgerVars, NoDraft
  <1>2. Issued' = Issued  BY DEF Issued, ledgerVars
  <1>3. /\ phase'[r] = "respond" /\ \A q \in Requests \ {r} : phase'[q] = phase[q]
        /\ outcome'[r] = "refused" /\ \A q \in Requests \ {r} : outcome'[q] = outcome[q]
    BY <1>0 DEF BudgetType
  <1>4. \A q \in Requests : phase'[q] \notin {"authorize", "commit"}
    BY <1>3, PortalConstants DEF GrantInv, FenceInv
  <1>5. FenceInv'
    BY <1>0, <1>2, <1>3, <1>4, PortalConstants DEF GrantInv, FenceInv
  <1>6. TxInv'  BY <1>4 DEF TxInv
  <1>7. AuditInv'  BY <1>2, <1>3 DEF GrantInv, AuditInv, ledgerVars
  <1>8. AuditExplainsGrant'  BY <1>3, SameLedger DEF GrantInv, ledgerVars
  <1> QED  BY <1>1, <1>5, <1>6, <1>7, <1>8 DEF GrantInv

\* A proposal is refused, or becomes the draft of the request that then holds
\* the fence.
LEMMA ProposeStep ==
    ASSUME GrantInv, BudgetType, NEW r \in Requests, NEW row \in Rows,
           NEW kinds \in SUBSET TokenKinds, NEW result,
           Propose(r, row, kinds, result), fence \in {None, r},
           phase[r] \in {"begin", "authorize"}, UNCHANGED <<ledgerVars, req, found>>,
           draft' = [row |-> row, entries |-> {Entry(k, r) : k \in kinds}, outcome |-> result]
               => DraftFits(r)'
    PROVE  GrantInv'
  <1>1. CASE Refuse(r)  BY <1>1, RefuseStep
  <1>2. CASE /\ fence' = r
             /\ draft' = [row |-> row, entries |-> {Entry(k, r) : k \in kinds},
                          outcome |-> result]
             /\ phase' = [phase EXCEPT ![r] = "commit"] /\ UNCHANGED outcome
    <2>0. found[r] \in Grants /\ Issued' = Issued
      BY DEF GrantInv, FenceInv, Issued, ledgerVars
    <2>1. GrantType'
      <3>1. {Entry(k, r) : k \in kinds} \in SUBSET Entries
        BY <2>0 DEF Entries, Entry, Kinds
      <3> QED  BY <1>2, <3>1 DEF GrantInv, GrantType, ledgerVars
    <2>2. /\ phase'[r] = "commit" /\ \A q \in Requests \ {r} : phase'[q] = phase[q]
      BY <1>2 DEF BudgetType
    <2>3. \A q \in Requests \ {r} : phase'[q] \notin {"authorize", "commit"}
      BY <2>2, PortalConstants DEF GrantInv, FenceInv
    <2>4. FenceInv'  BY <1>2, <2>0, <2>2, <2>3 DEF GrantInv, FenceInv
    <2>5. TxInv'  BY <1>2, <2>2, <2>3 DEF TxInv
    <2>6. AuditInv'  BY <1>2, <2>0, <2>2 DEF GrantInv, AuditInv, ledgerVars
    <2>7. AuditExplainsGrant'  BY <1>2, SameLedger DEF GrantInv, ledgerVars
    <2> QED  BY <2>1, <2>4, <2>5, <2>6, <2>7 DEF GrantInv
  <1> QED  BY <1>1, <1>2 DEF Propose

\* The updated rows are rows.
LEMMA UpdatedRow ==
    ASSUME NEW row \in Rows, NEW n \in Int, NEW t \in Int, NEW b \in BOOLEAN
    PROVE  /\ [row EXCEPT !.failed = n, !.lastFailed = t, !.revoked = b] \in Rows
           /\ [row EXCEPT !.access = n, !.lastAccess = t, !.nda = b] \in Rows
  BY DEF Rows

LEMMA JudgeStep ==
    ASSUME GrantInv, BudgetType, NEW r \in Requests, Judge(r)
    PROVE  GrantInv'
  <1> DEFINE row == grant[found[r]]
             wrong == WrongToken(row)
             kinds == {"access_failed"} \cup (IF wrong.revoked THEN {"locked_out"} ELSE {})
  <1>0. /\ phase[r] = "begin" /\ fence = None /\ UNCHANGED <<ledgerVars, req, found>>
        /\ \/ ~Live(row) /\ Refuse(r)
           \/ Live(row) /\ req[r].secret # found[r] /\ Propose(r, wrong, kinds, "refused")
           \/ /\ Live(row) /\ req[r].secret = found[r]
              /\ fence' = r /\ phase' = [phase EXCEPT ![r] = "authorize"]
              /\ UNCHANGED <<outcome, draft>>
    BY DEF Judge
  <1>1. found[r] \in Issued /\ found[r] \in Grants /\ row \in Rows
    BY <1>0 DEF GrantInv, FenceInv, GrantType, Issued
  <1>2. CASE Refuse(r)  BY <1>0, <1>2, RefuseStep
  <1>3. CASE Live(row) /\ req[r].secret # found[r] /\ Propose(r, wrong, kinds, "refused")
    <2>1. wrong \in Rows
      <3>1. clock \in Int  BY DEF BudgetType, Times
      <3>3. row.failed + 1 \in Int  BY <1>1 DEF Rows
      <3>4. (row.failed + 1 >= PortalFailedAccessLimit) \in BOOLEAN  OBVIOUS
      <3> HIDE DEF row
      <3> QED  BY <1>1, <3>1, <3>3, <3>4, UpdatedRow DEF WrongToken
    <2>2. kinds \in SUBSET TokenKinds  BY DEF TokenKinds
    <2>3. ASSUME draft' = [row |-> wrong, entries |-> {Entry(k, r) : k \in kinds},
                           outcome |-> "refused"]
          PROVE  DraftFits(r)'
      <3>1. /\ wrong.prefix = row.prefix /\ wrong.expires = row.expires
            /\ wrong.requireNDA = row.requireNDA /\ wrong.nda = row.nda
            /\ wrong.access = row.access /\ wrong.failed = row.failed + 1
            /\ wrong.failed >= PortalFailedAccessLimit => wrong.revoked
        BY <1>1 DEF WrongToken, Rows
      <3>2. \A k : Drafted(k, r)' <=> k \in kinds
        BY <1>0, <2>3 DEF Drafted, Entry
      <3>3. /\ Drafted("access_failed", r)' /\ (Drafted("locked_out", r)' <=> wrong.revoked)
            /\ ~Drafted("accessed", r)' /\ ~Drafted("nda_accepted", r)'
        BY <3>2
      <3>4. draft'.entries \subseteq {Entry(k, r) : k \in TokenKinds}'
        BY <1>0, <2>2, <2>3 DEF Entry
      <3>5. ~row.revoked /\ row.access \in Int /\ row.failed \in Int
        BY <1>1, <1>3 DEF Live, Rows
      <3>6. draft'.row = wrong /\ draft'.outcome = "refused" /\ grant' = grant /\ found' = found
        BY <1>0, <2>3 DEF ledgerVars
      <3> HIDE DEF wrong, kinds
      <3> QED  BY <3>1, <3>3, <3>4, <3>5, <3>6 DEF DraftFits
    <2> HIDE DEF wrong, kinds
    <2> QED  BY <1>0, <1>3, <2>1, <2>2, <2>3, ProposeStep
  <1>4. CASE /\ Live(row) /\ req[r].secret = found[r]
             /\ fence' = r /\ phase' = [phase EXCEPT ![r] = "authorize"]
             /\ UNCHANGED <<outcome, draft>>
    <2>1. GrantType'  BY <1>0, <1>4 DEF GrantInv, GrantType, ledgerVars
    <2>2. /\ phase'[r] = "authorize" /\ \A q \in Requests \ {r} : phase'[q] = phase[q]
      BY <1>4 DEF BudgetType
    <2>3. \A q \in Requests \ {r} : phase'[q] \notin {"authorize", "commit"}
      BY <1>0, <2>2, PortalConstants DEF GrantInv, FenceInv
    <2>4. Issued' = Issued  BY <1>0 DEF Issued, ledgerVars
    <2>5. FenceInv'  BY <1>0, <1>4, <2>2, <2>3, <2>4 DEF GrantInv, FenceInv
    <2>6. TxInv'  BY <1>0, <1>4, <2>2, <2>3 DEF TxInv, Live, ledgerVars
    <2>7. AuditInv'  BY <1>0, <1>4, <2>4, <2>2 DEF GrantInv, AuditInv, ledgerVars
    <2>8. AuditExplainsGrant'  BY <1>0, <1>4, SameLedger DEF GrantInv, ledgerVars
    <2> QED  BY <2>1, <2>5, <2>6, <2>7, <2>8 DEF GrantInv
  <1> QED  BY <1>0, <1>2, <1>3, <1>4

LEMMA AuthorizeStep ==
    ASSUME GrantInv, BudgetType, NEW r \in Requests, Authorize(r)
    PROVE  GrantInv'
  <1> DEFINE row == grant[found[r]]
             new == Accessed(row)
             kinds == {"accessed"} \cup (IF new.nda # row.nda THEN {"nda_accepted"} ELSE {})
  <1>0. /\ phase[r] = "authorize" /\ UNCHANGED <<ledgerVars, req, found>>
        /\ \/ Live(row) /\ packageExpires > clock /\ Admit(r, row)
           \/ Refuse(r)
    BY DEF Authorize
  <1>1. /\ found[r] \in Issued /\ found[r] \in Grants /\ row \in Rows /\ fence = r
        /\ ~row.revoked /\ req[r].secret = found[r]
    BY <1>0 DEF GrantInv, FenceInv, GrantType, TxInv, Issued
  <1>2. CASE Refuse(r)  BY <1>0, <1>1, <1>2, RefuseStep
  <1>3. CASE Propose(r, row, {"nda_required"}, "refused")
    <2>1. {"nda_required"} \in SUBSET TokenKinds  BY DEF TokenKinds
    <2>2. ASSUME draft' = [row |-> row, entries |-> {Entry(k, r) : k \in {"nda_required"}},
                           outcome |-> "refused"]
          PROVE  DraftFits(r)'
      <3>2. \A k : Drafted(k, r)' <=> k = "nda_required"
        BY <1>0, <2>2 DEF Drafted, Entry
      <3>3. /\ ~Drafted("access_failed", r)' /\ ~Drafted("locked_out", r)'
            /\ ~Drafted("accessed", r)' /\ ~Drafted("nda_accepted", r)'
        BY <3>2
      <3>4. draft'.entries \subseteq {Entry(k, r) : k \in TokenKinds}'
        BY <1>0, <2>1, <2>2 DEF Entry
      <3>5. row.access \in Int /\ row.failed \in Int  BY <1>1 DEF Rows
      <3>6. draft'.row = row /\ draft'.outcome = "refused" /\ grant' = grant /\ found' = found
        BY <1>0, <2>2 DEF ledgerVars
      <3> QED  BY <1>1, <3>3, <3>4, <3>5, <3>6 DEF DraftFits
    <2> QED  BY <1>0, <1>1, <1>3, <2>1, <2>2, ProposeStep
  <1>4. CASE /\ Live(row) /\ packageExpires > clock
             /\ ~(row.requireNDA /\ ~row.nda /\ ~req[r].nda)
             /\ Propose(r, new, kinds, "served")
    <2>0. clock \in Int  BY DEF BudgetType, Times
    <2>1. new \in Rows
      <3>1. row.access + 1 \in Int  BY <1>1 DEF Rows
      <3>2. (row.nda \/ row.requireNDA) \in BOOLEAN  OBVIOUS
      <3> HIDE DEF row
      <3> QED  BY <1>1, <2>0, <3>1, <3>2, UpdatedRow DEF Accessed
    <2>2. kinds \in SUBSET TokenKinds  BY DEF TokenKinds
    <2>3. ASSUME draft' = [row |-> new, entries |-> {Entry(k, r) : k \in kinds},
                           outcome |-> "served"]
          PROVE  DraftFits(r)'
      <3>1. /\ new.prefix = row.prefix /\ new.expires = row.expires
            /\ new.requireNDA = row.requireNDA /\ new.nda = (row.nda \/ row.requireNDA)
            /\ new.access = row.access + 1 /\ new.failed = row.failed
            /\ new.revoked = row.revoked /\ new.lastAccess = clock
        BY <1>1 DEF Accessed, Rows
      <3>2. \A k : Drafted(k, r)' <=> k \in kinds
        BY <1>0, <2>3 DEF Drafted, Entry
      <3>3. /\ Drafted("accessed", r)' /\ (Drafted("nda_accepted", r)' <=> new.nda # row.nda)
            /\ ~Drafted("access_failed", r)' /\ ~Drafted("locked_out", r)'
        BY <3>2
      <3>4. draft'.entries \subseteq {Entry(k, r) : k \in TokenKinds}'
        BY <1>0, <2>2, <2>3 DEF Entry
      <3>5. /\ row.access \in Int /\ row.failed \in Int
            /\ row.nda \in BOOLEAN /\ row.requireNDA \in BOOLEAN /\ new.nda \in BOOLEAN
            /\ clock < row.expires /\ clock < packageExpires
        BY <1>1, <1>4, <2>0, <2>1 DEF Live, Rows, GrantInv, GrantType
      <3>6. /\ draft'.row = new /\ draft'.outcome = "served" /\ grant' = grant
            /\ found' = found /\ req' = req /\ packageExpires' = packageExpires
        BY <1>0, <2>3 DEF ledgerVars
      <3> HIDE DEF new, kinds
      <3> QED  BY <1>1, <3>1, <3>3, <3>4, <3>5, <3>6 DEF DraftFits
    <2> HIDE DEF new, kinds
    <2> QED  BY <1>0, <1>1, <1>4, <2>1, <2>2, <2>3, ProposeStep
  <1> QED  BY <1>0, <1>2, <1>3, <1>4 DEF Admit

\* Entries of a grant and a kind are finite in number.
LEMMA EntriesFinite ==
    ASSUME GrantType, NEW g, NEW k
    PROVE  IsFiniteSet(EntriesOf(g, k)) /\ Cardinality(EntriesOf(g, k)) \in Nat
  <1>1. EntriesOf(g, k) \subseteq audit  BY DEF EntriesOf
  <1>2. IsFiniteSet(audit)  BY DEF GrantType
  <1> QED  BY <1>1, <1>2, FS_Subset, FS_CardinalityType

\* A commit adds one entry to the entries of its grant and of each drafted kind,
\* and none to any other.
LEMMA CommitEntries ==
    ASSUME GrantInv, NEW r \in Requests, phase[r] = "commit",
           audit' = audit \cup draft.entries, UNCHANGED found, NEW g, NEW k
    PROVE  /\ g = found[r] /\ Drafted(k, r) =>
                /\ EntriesOf(g, k)' = EntriesOf(g, k) \cup {Entry(k, r)}
                /\ Cardinality(EntriesOf(g, k)') = Cardinality(EntriesOf(g, k)) + 1
           /\ g # found[r] \/ ~Drafted(k, r) => EntriesOf(g, k)' = EntriesOf(g, k)
           /\ \A j : Entry(j, r) \notin audit
  <1>1. \A j : Entry(j, r) \notin audit  BY DEF GrantInv, AuditInv, Entry
  <1>2. \A e \in draft.entries : e = Entry(e.kind, r) /\ e.grant = found[r]
    BY DEF GrantInv, TxInv, DraftFits, Entry
  <1>3. CASE g = found[r] /\ Drafted(k, r)
    <2>1. EntriesOf(g, k)' = EntriesOf(g, k) \cup {Entry(k, r)}
      <3>1. Entry(k, r).grant = g /\ Entry(k, r).kind = k  BY <1>3 DEF Entry
      <3>2. Entry(k, r) \in draft.entries  BY <1>3 DEF Drafted
      <3>3. ASSUME NEW e \in draft.entries, e.kind = k PROVE e = Entry(k, r)
        BY <1>2, <3>3
      <3> QED  BY <3>1, <3>2, <3>3 DEF EntriesOf
    <2>2. Entry(k, r) \notin EntriesOf(g, k)  BY <1>1 DEF EntriesOf
    <2>3. IsFiniteSet(EntriesOf(g, k))  BY EntriesFinite DEF GrantInv
    <2> QED  BY <1>1, <1>3, <2>1, <2>2, <2>3, FS_AddElement
  <1>4. CASE g # found[r] \/ ~Drafted(k, r)
    <2>1. EntriesOf(g, k)' = EntriesOf(g, k)
      BY <1>2, <1>4 DEF EntriesOf, Drafted
    <2> QED  BY <1>1, <1>4, <2>1
  <1> QED  BY <1>3, <1>4

LEMMA CommitExplained ==
    ASSUME GrantInv, BudgetType, NEW r \in Requests, Commit(r)
    PROVE  AuditExplainsGrant'
  <1> DEFINE g == found[r]
             old == grant[g]
             new == draft.row
  <1>0. /\ phase[r] = "commit" /\ grant' = [grant EXCEPT ![g] = new]
        /\ audit' = audit \cup draft.entries /\ UNCHANGED found
        /\ Answer(r, draft.outcome) \/ Answer(r, "refused")
    BY DEF Commit
  <1>1. g \in Issued /\ g \in Grants /\ old \in Rows /\ new \in Rows /\ DraftFits(r)
    BY <1>0 DEF GrantInv, FenceInv, TxInv, GrantType, Issued
  <1>2. /\ grant'[g] = new /\ \A h \in Grants \ {g} : grant'[h] = grant[h]
    BY <1>0, <1>1 DEF GrantInv, GrantType
  <1>3. Issued' = Issued
    <2>1. new.prefix = old.prefix  BY <1>1 DEF DraftFits
    <2> QED  BY <1>1, <1>2, <2>1 DEF Issued
  <1>4. /\ old.access = Cardinality(EntriesOf(g, "accessed"))
        /\ old.failed = Cardinality(EntriesOf(g, "access_failed"))
        /\ old.failed <= PortalFailedAccessLimit
        /\ Cardinality(EntriesOf(g, "nda_accepted")) = IF old.nda THEN 1 ELSE 0
        /\ Cardinality(EntriesOf(g, "revoked") \cup EntriesOf(g, "locked_out")) = 0
        /\ old.failed # PortalFailedAccessLimit
    <2>1. ~old.revoked  BY <1>1 DEF DraftFits
    <2> QED  BY <1>1, <2>1 DEF GrantInv, AuditExplainsGrant
  <1>5. /\ old.access \in Int /\ old.failed \in Int /\ PortalFailedAccessLimit \in Int
        /\ old.nda \in BOOLEAN /\ new.nda \in BOOLEAN /\ new.revoked \in BOOLEAN
    BY <1>1, PortalConstants DEF Rows
  <1>6. new.access = Cardinality(EntriesOf(g, "accessed")')
    <2>1. CASE Drafted("accessed", r)
      BY <1>0, <1>1, <1>4, <1>5, <2>1, CommitEntries DEF DraftFits
    <2>2. CASE ~Drafted("accessed", r)
      BY <1>0, <1>1, <1>4, <1>5, <2>2, CommitEntries DEF DraftFits
    <2> QED  BY <2>1, <2>2
  <1>7. /\ new.failed = Cardinality(EntriesOf(g, "access_failed")')
        /\ new.failed <= PortalFailedAccessLimit
        /\ new.failed = PortalFailedAccessLimit => new.revoked
    <2>1. CASE Drafted("access_failed", r)
      <3>1. /\ new.failed = old.failed + 1
            /\ new.failed >= PortalFailedAccessLimit => new.revoked
        BY <1>1, <2>1 DEF DraftFits
      <3>2. Cardinality(EntriesOf(g, "access_failed")')
              = Cardinality(EntriesOf(g, "access_failed")) + 1
        BY <1>0, <2>1, CommitEntries
      <3> QED  BY <1>4, <1>5, <3>1, <3>2
    <2>2. CASE ~Drafted("access_failed", r)
      BY <1>0, <1>1, <1>4, <1>5, <2>2, CommitEntries DEF DraftFits
    <2> QED  BY <2>1, <2>2
  <1>8. Cardinality(EntriesOf(g, "nda_accepted")') = IF new.nda THEN 1 ELSE 0
    <2>1. CASE Drafted("nda_accepted", r)
      <3>1. ~old.nda /\ new.nda  BY <1>1, <2>1 DEF DraftFits
      <3>2. Cardinality(EntriesOf(g, "nda_accepted")')
              = Cardinality(EntriesOf(g, "nda_accepted")) + 1
        BY <1>0, <2>1, CommitEntries
      <3> QED  BY <1>4, <3>1, <3>2
    <2>2. CASE ~Drafted("nda_accepted", r)
      <3>1. new.nda = old.nda  BY <1>1, <1>5, <2>2 DEF DraftFits
      <3> QED  BY <1>0, <1>4, <2>2, <3>1, CommitEntries
    <2> QED  BY <2>1, <2>2
  <1>9. Cardinality(EntriesOf(g, "revoked")' \cup EntriesOf(g, "locked_out")')
          = IF new.revoked THEN 1 ELSE 0
    <2> DEFINE R == EntriesOf(g, "revoked") \cup EntriesOf(g, "locked_out")
    <2>1. ~Drafted("revoked", r)
      BY <1>1 DEF DraftFits, Drafted, Entry, TokenKinds
    <2>2. EntriesOf(g, "revoked")' = EntriesOf(g, "revoked")
      BY <1>0, <2>1, CommitEntries
    <2>3. CASE Drafted("locked_out", r)
      <3>1. new.revoked  BY <1>1, <2>3 DEF DraftFits
      <3>2. /\ EntriesOf(g, "locked_out")' = EntriesOf(g, "locked_out") \cup {Entry("locked_out", r)}
            /\ Entry("locked_out", r) \notin audit
        BY <1>0, <2>3, CommitEntries
      <3>3. /\ EntriesOf(g, "revoked")' \cup EntriesOf(g, "locked_out")'
                 = R \cup {Entry("locked_out", r)}
            /\ Entry("locked_out", r) \notin R /\ R \subseteq audit
        BY <2>2, <3>2 DEF EntriesOf
      <3>4. IsFiniteSet(R)  BY <3>3, FS_Subset DEF GrantInv, GrantType
      <3>5. Cardinality(R) = 0  BY <1>4
      <3> HIDE DEF R
      <3>6. Cardinality(R \cup {Entry("locked_out", r)}) = Cardinality(R) + 1
        BY <3>3, <3>4, FS_AddElement
      <3>7. Cardinality(R \cup {Entry("locked_out", r)}) = 1  BY <3>5, <3>6
      <3> QED  BY <3>1, <3>3, <3>7
    <2>4. CASE ~Drafted("locked_out", r)
      <3>1. ~new.revoked  BY <1>1, <2>4 DEF DraftFits
      <3>2. EntriesOf(g, "locked_out")' = EntriesOf(g, "locked_out")
        BY <1>0, <2>4, CommitEntries
      <3> QED  BY <1>4, <2>2, <3>1, <3>2
    <2> QED  BY <2>3, <2>4
  <1>10. ASSUME NEW h \in Issued, h # g
         PROVE  grant'[h] = grant[h] /\ \A k : EntriesOf(h, k)' = EntriesOf(h, k)
    <2>1. h \in Grants  BY DEF Issued
    <2> QED  BY <1>0, <1>2, <1>10, <2>1, CommitEntries
  <1>11. \A q \in Requests : outcome'[q] = "served" => Entry("accessed", q)' \in audit'
    <2>1. ASSUME NEW q \in Requests, outcome'[q] = "served", q # r
          PROVE  Entry("accessed", q)' \in audit'
      <3>1. outcome[q] = "served"  BY <1>0, <2>1 DEF Answer, BudgetType
      <3> QED  BY <1>0, <3>1 DEF GrantInv, AuditExplainsGrant, Entry
    <2>2. ASSUME outcome'[r] = "served" PROVE Entry("accessed", r)' \in audit'
      <3>1. draft.outcome = "served"  BY <1>0, <2>2 DEF Answer, BudgetType
      <3> QED  BY <1>0, <1>1, <3>1 DEF DraftFits, Drafted, Entry
    <2> QED  BY <2>1, <2>2
  <1>12. ASSUME NEW h \in Issued'
         PROVE  /\ grant'[h].access = Cardinality(EntriesOf(h, "accessed")')
                /\ grant'[h].failed = Cardinality(EntriesOf(h, "access_failed")')
                /\ grant'[h].failed <= PortalFailedAccessLimit
                /\ Cardinality(EntriesOf(h, "nda_accepted")')
                     = IF grant'[h].nda THEN 1 ELSE 0
                /\ Cardinality(EntriesOf(h, "revoked")' \cup EntriesOf(h, "locked_out")')
                     = IF grant'[h].revoked THEN 1 ELSE 0
                /\ grant'[h].failed = PortalFailedAccessLimit => grant'[h].revoked
    <2>1. CASE h = g
      <3>1. \A k : EntriesOf(h, k)' = EntriesOf(g, k)'  BY <1>0, <2>1 DEF EntriesOf
      <3>2. grant'[h] = new  BY <1>2, <2>1
      <3> HIDE DEF g, old, new
      <3> QED  BY <1>6, <1>7, <1>8, <1>9, <3>1, <3>2
    <2>2. CASE h # g
      BY <1>3, <1>10, <2>2 DEF GrantInv, AuditExplainsGrant
    <2> QED  BY <2>1, <2>2
  <1> QED  BY <1>11, <1>12 DEF AuditExplainsGrant

LEMMA CommitStep ==
    ASSUME GrantInv, BudgetType, NEW r \in Requests, Commit(r)
    PROVE  GrantInv'
  <1>0. /\ phase[r] = "commit" /\ grant' = [grant EXCEPT ![found[r]] = draft.row]
        /\ audit' = audit \cup draft.entries /\ UNCHANGED <<packageExpires, req, found>>
        /\ phase' = [phase EXCEPT ![r] = "respond"]
        /\ \E x : outcome' = [outcome EXCEPT ![r] = x]
        /\ fence' = None /\ draft' = NoDraft
    BY DEF Commit, Answer
  <1>1. /\ found[r] \in Issued /\ found[r] \in Grants /\ DraftFits(r) /\ fence = r
    BY <1>0 DEF GrantInv, FenceInv, TxInv, Issued
  <1>2. Issued' = Issued
    <2>1. draft.row.prefix = grant[found[r]].prefix  BY <1>1 DEF DraftFits
    <2> QED  BY <1>0, <1>1, <2>1 DEF Issued, GrantInv, GrantType
  <1>3. GrantType'
    <2>1. NoRow \in Rows  BY DEF NoRow, Rows, Never
    <2>2. IsFiniteSet(audit')
      <3>1. draft.entries \subseteq {Entry(k, r) : k \in TokenKinds}
        BY <1>1 DEF DraftFits
      <3>2. IsFiniteSet({Entry(k, r) : k \in TokenKinds})
        <4>1. IsFiniteSet(TokenKinds)
          <5>1. TokenKinds = {"access_failed", "locked_out", "nda_required"}
                               \cup {"accessed", "nda_accepted"}
            BY DEF TokenKinds
          <5>2. IsFiniteSet({"access_failed"}) BY FS_Singleton
          <5>3. IsFiniteSet({"access_failed"} \cup {"locked_out"})  BY <5>2, FS_AddElement
          <5>4. IsFiniteSet(({"access_failed"} \cup {"locked_out"}) \cup {"nda_required"})
            BY <5>3, FS_AddElement
          <5>5. IsFiniteSet({"accessed"} \cup {"nda_accepted"})
            BY FS_Singleton, FS_AddElement
          <5>6. TokenKinds = (({"access_failed"} \cup {"locked_out"}) \cup {"nda_required"})
                               \cup ({"accessed"} \cup {"nda_accepted"})
            BY <5>1
          <5> QED  BY <5>4, <5>5, <5>6, FS_Union
        <4> DEFINE f == [k \in TokenKinds |-> Entry(k, r)]
                   E == {Entry(k, r) : k \in TokenKinds}
        <4>2. f \in Surjection(TokenKinds, E)  BY DEF Surjection
        <4> HIDE DEF f, E
        <4>3. IsFiniteSet(E)  BY <4>1, <4>2, FS_Surjection
        <4> QED  BY <4>3 DEF E
      <3>3. IsFiniteSet(draft.entries)  BY <3>1, <3>2, FS_Subset
      <3>4. IsFiniteSet(audit)  BY DEF GrantInv, GrantType
      <3> QED  BY <1>0, <3>3, <3>4, FS_Union
    <2> QED  BY <1>0, <1>1, <2>1, <2>2 DEF GrantInv, GrantType, NoDraft
  <1>4. /\ phase'[r] = "respond" /\ \A q \in Requests \ {r} : phase'[q] = phase[q]
        /\ \A q \in Requests \ {r} : outcome'[q] = outcome[q]
    BY <1>0 DEF BudgetType
  <1>5. \A q \in Requests : phase'[q] \notin {"authorize", "commit"}
    BY <1>1, <1>4 DEF GrantInv, FenceInv
  <1>6. FenceInv'
    BY <1>0, <1>2, <1>4, <1>5, PortalConstants DEF GrantInv, FenceInv
  <1>7. TxInv'  BY <1>5 DEF TxInv
  <1>8. AuditInv'
    <2>1. ASSUME NEW e \in draft.entries PROVE e.by = r /\ e.grant = found[r]
      BY <1>1 DEF DraftFits, Entry
    <2> QED  BY <1>0, <1>1, <1>2, <1>4, <2>1 DEF GrantInv, AuditInv
  <1>9. AuditExplainsGrant'  BY CommitExplained
  <1> QED  BY <1>3, <1>6, <1>7, <1>8, <1>9 DEF GrantInv

\* An issued grant has one more entry of one kind, and nothing else changes.
LEMMA CreateStep ==
    ASSUME GrantInv, BudgetType, NEW g \in Grants, CreatePortalAccess(g)
    PROVE  GrantInv'
  <1> DEFINE e == [kind |-> "created", grant |-> g, by |-> None]
  <1>0. /\ fence = None /\ g \notin Issued /\ audit' = audit \cup {e}
        /\ UNCHANGED <<packageExpires, requestVars, txVars>>
    BY DEF CreatePortalAccess
  <1>1. PICK p \in Prefixes, t \in Times \cup {MaxClock + 1}, nda \in BOOLEAN :
           grant' = [grant EXCEPT ![g] =
                       [NoRow EXCEPT !.prefix = p, !.expires = t, !.requireNDA = nda]]
    BY DEF CreatePortalAccess
  <1> DEFINE new == [NoRow EXCEPT !.prefix = p, !.expires = t, !.requireNDA = nda]
  <1>2. /\ new \in Rows /\ new.prefix # None /\ new.access = 0 /\ new.failed = 0
        /\ new.nda = FALSE /\ new.revoked = FALSE
    <2>1. t \in Int /\ p # None  BY PortalConstants DEF Times
    <2>2. new = [NoRow EXCEPT !.prefix = p, !.expires = t, !.requireNDA = nda]  OBVIOUS
    <2>3. /\ NoRow \in Rows /\ NoRow.access = 0 /\ NoRow.failed = 0
          /\ NoRow.nda = FALSE /\ NoRow.revoked = FALSE
      BY DEF NoRow, Rows, Never
    <2> HIDE DEF new
    <2>4. new \in Rows  BY <2>1, <2>2, <2>3 DEF Rows
    <2>5. new.prefix = p /\ new.access = 0 /\ new.failed = 0  BY <2>2, <2>3 DEF Rows
    <2>6. new.nda = FALSE  BY <2>2, <2>3 DEF Rows
    <2>7. new.revoked = FALSE  BY <2>2, <2>3 DEF Rows
    <2> QED  BY <2>1, <2>4, <2>5, <2>6, <2>7
  <1> HIDE DEF new
  <1>3. /\ grant'[g] = new /\ \A h \in Grants \ {g} : grant'[h] = grant[h]
        /\ grant' \in [Grants -> Rows]
    BY <1>1, <1>2 DEF GrantInv, GrantType, new
  <1>4. Issued' = Issued \cup {g}  BY <1>2, <1>3 DEF Issued
  <1>5. \A q \in Requests : phase[q] \notin {"authorize", "commit"}
    BY <1>0, PortalConstants DEF GrantInv, FenceInv
  <1>6. GrantType'
    <2>1. e \in Entries  BY DEF Entries, Kinds
    <2>2. IsFiniteSet(audit')  BY <1>0, FS_AddElement DEF GrantInv, GrantType
    <2> QED  BY <1>0, <1>3, <2>1, <2>2 DEF GrantInv, GrantType, requestVars, txVars
  <1>7. FenceInv'
    BY <1>0, <1>4, PortalConstants DEF GrantInv, FenceInv, requestVars, txVars
  <1>8. TxInv'  BY <1>0, <1>5 DEF TxInv, requestVars
  <1>9. AuditInv'
    BY <1>0, <1>4, PortalConstants DEF GrantInv, AuditInv, TokenKinds, requestVars
  <1>10. AuditExplainsGrant'
    <2>1. ASSUME NEW h, NEW k, k # "created" PROVE EntriesOf(h, k)' = EntriesOf(h, k)
      BY <1>0, <2>1 DEF EntriesOf
    <2>2. \A k : EntriesOf(g, k) = {}  BY <1>0 DEF GrantInv, AuditInv, EntriesOf
    <2>3. \A h : /\ EntriesOf(h, "accessed")' = EntriesOf(h, "accessed")
                 /\ EntriesOf(h, "access_failed")' = EntriesOf(h, "access_failed")
                 /\ EntriesOf(h, "nda_accepted")' = EntriesOf(h, "nda_accepted")
                 /\ EntriesOf(h, "revoked")' = EntriesOf(h, "revoked")
                 /\ EntriesOf(h, "locked_out")' = EntriesOf(h, "locked_out")
      BY <2>1
    <2>4. ASSUME NEW h \in Issued'
          PROVE  /\ grant'[h].access = Cardinality(EntriesOf(h, "accessed")')
                 /\ grant'[h].failed = Cardinality(EntriesOf(h, "access_failed")')
                 /\ grant'[h].failed <= PortalFailedAccessLimit
                 /\ Cardinality(EntriesOf(h, "nda_accepted")')
                      = IF grant'[h].nda THEN 1 ELSE 0
                 /\ Cardinality(EntriesOf(h, "revoked")' \cup EntriesOf(h, "locked_out")')
                      = IF grant'[h].revoked THEN 1 ELSE 0
                 /\ grant'[h].failed = PortalFailedAccessLimit => grant'[h].revoked
      <3>1. CASE h = g
        <4>1. Cardinality({}) = 0  BY FS_EmptySet
        <4>2. EntriesOf(h, "revoked")' \cup EntriesOf(h, "locked_out")' = {}
          BY <2>2, <2>3, <3>1
        <4>3. PortalFailedAccessLimit \in Nat \ {0}  BY PortalConstants
        <4> QED  BY <1>2, <1>3, <2>2, <2>3, <3>1, <4>1, <4>2, <4>3
      <3>2. CASE h # g
        <4>1. h \in Issued /\ grant'[h] = grant[h]  BY <1>3, <1>4, <3>2 DEF Issued
        <4> QED  BY <2>3, <4>1 DEF GrantInv, AuditExplainsGrant
      <3> QED  BY <3>1, <3>2
    <2>5. \A q \in Requests : outcome'[q] = "served" => Entry("accessed", q)' \in audit'
      BY <1>0 DEF GrantInv, AuditExplainsGrant, Entry, requestVars
    <2> QED  BY <2>4, <2>5 DEF AuditExplainsGrant
  <1> QED  BY <1>6, <1>7, <1>8, <1>9, <1>10 DEF GrantInv

\* The operator's revocation finds no open transaction and is the first.
LEMMA RevokeStep ==
    ASSUME GrantInv, BudgetType, NEW g \in Grants, RevokePortalAccess(g)
    PROVE  GrantInv'
  <1> DEFINE e == [kind |-> "revoked", grant |-> g, by |-> None]
  <1>0. /\ fence = None /\ g \in Issued /\ ~grant[g].revoked
        /\ grant' = [grant EXCEPT ![g].revoked = TRUE] /\ audit' = audit \cup {e}
        /\ UNCHANGED <<packageExpires, requestVars, txVars>>
    BY DEF RevokePortalAccess
  <1>2. grant[g] \in Rows  BY DEF GrantInv, GrantType
  <1>3. /\ grant'[g] = [grant[g] EXCEPT !.revoked = TRUE]
        /\ \A h \in Grants \ {g} : grant'[h] = grant[h]
        /\ grant' \in [Grants -> Rows]
    BY <1>0, <1>2 DEF GrantInv, GrantType, Rows
  <1>4. /\ grant'[g].prefix = grant[g].prefix /\ grant'[g].access = grant[g].access
        /\ grant'[g].failed = grant[g].failed /\ grant'[g].nda = grant[g].nda
        /\ grant'[g].revoked = TRUE
    BY <1>2, <1>3 DEF Rows
  <1>5. Issued' = Issued  BY <1>3, <1>4 DEF Issued
  <1>6. \A q \in Requests : phase[q] \notin {"authorize", "commit"}
    BY <1>0, PortalConstants DEF GrantInv, FenceInv
  <1>7. GrantType'
    <2>1. e \in Entries  BY DEF Entries, Kinds
    <2>2. IsFiniteSet(audit')  BY <1>0, FS_AddElement DEF GrantInv, GrantType
    <2> QED  BY <1>0, <1>3, <2>1, <2>2 DEF GrantInv, GrantType, requestVars, txVars
  <1>8. FenceInv'
    BY <1>0, <1>5, PortalConstants DEF GrantInv, FenceInv, requestVars, txVars
  <1>9. TxInv'  BY <1>0, <1>6 DEF TxInv, requestVars
  <1>10. AuditInv'
    BY <1>0, <1>5, PortalConstants DEF GrantInv, AuditInv, TokenKinds, requestVars
  <1>11. AuditExplainsGrant'
    <2>1. \A h : /\ EntriesOf(h, "accessed")' = EntriesOf(h, "accessed")
                 /\ EntriesOf(h, "access_failed")' = EntriesOf(h, "access_failed")
                 /\ EntriesOf(h, "nda_accepted")' = EntriesOf(h, "nda_accepted")
                 /\ EntriesOf(h, "locked_out")' = EntriesOf(h, "locked_out")
                 /\ h # g => EntriesOf(h, "revoked")' = EntriesOf(h, "revoked")
      BY <1>0 DEF EntriesOf
    <2> DEFINE R == EntriesOf(g, "revoked") \cup EntriesOf(g, "locked_out")
               R1 == EntriesOf(g, "revoked")' \cup EntriesOf(g, "locked_out")'
    <2>2. Cardinality(R1) = 1
      <3>1. R1 = R \cup {e}  BY <1>0 DEF EntriesOf
      <3>2. Cardinality(R) = 0  BY <1>0 DEF GrantInv, AuditExplainsGrant
      <3>3. IsFiniteSet(R) /\ R \subseteq audit
        BY FS_Subset DEF EntriesOf, GrantInv, GrantType
      <3>4. R = {}  BY <3>2, <3>3, FS_EmptySet
      <3> HIDE DEF R, R1, e
      <3> QED  BY <3>1, <3>4, FS_Singleton
    <2>4. ASSUME NEW h \in Issued'
          PROVE  /\ grant'[h].access = Cardinality(EntriesOf(h, "accessed")')
                 /\ grant'[h].failed = Cardinality(EntriesOf(h, "access_failed")')
                 /\ grant'[h].failed <= PortalFailedAccessLimit
                 /\ Cardinality(EntriesOf(h, "nda_accepted")')
                      = IF grant'[h].nda THEN 1 ELSE 0
                 /\ Cardinality(EntriesOf(h, "revoked")' \cup EntriesOf(h, "locked_out")')
                      = IF grant'[h].revoked THEN 1 ELSE 0
                 /\ grant'[h].failed = PortalFailedAccessLimit => grant'[h].revoked
      <3>1. CASE h = g
        BY <1>0, <1>4, <2>1, <2>2, <3>1 DEF GrantInv, AuditExplainsGrant
      <3>2. CASE h # g
        <4>1. h \in Issued /\ grant'[h] = grant[h]  BY <1>3, <1>5, <3>2 DEF Issued
        <4> QED  BY <2>1, <3>2, <4>1 DEF GrantInv, AuditExplainsGrant
      <3> QED  BY <3>1, <3>2
    <2>5. \A q \in Requests : outcome'[q] = "served" => Entry("accessed", q)' \in audit'
      BY <1>0 DEF GrantInv, AuditExplainsGrant, Entry, requestVars
    <2> QED  BY <2>4, <2>5 DEF AuditExplainsGrant
  <1> QED  BY <1>7, <1>8, <1>9, <1>10, <1>11 DEF GrantInv

LEMMA NextGrant == GrantInv /\ BudgetInv /\ [Next]_vars => GrantInv'
  <1> SUFFICES ASSUME GrantInv, BudgetInv, [Next]_vars PROVE GrantInv'  OBVIOUS
  <1>t. BudgetType /\ found \in [Requests -> Grants \cup {None}]
    BY DEF BudgetInv, GrantInv, GrantType
  <1>1. ASSUME NEW r \in Requests, Arrive(r) PROVE GrantInv'
    <2>1. /\ phase[r] = "idle" /\ UNCHANGED <<ledgerVars, found, txVars>>
          /\ \E p \in {"lookup", "done"} : phase' = [phase EXCEPT ![r] = p]
          /\ \A q \in Requests \ {r} : req'[q] = req[q] /\ outcome'[q] = outcome[q]
          /\ outcome' = outcome \/ outcome'[r] = "refused"
      BY <1>1, <1>t DEF Arrive, BudgetType
    <2>2. outcome[r] # "served"  BY <2>1 DEF GrantInv, AuditInv
    <2>3. PICK p \in {"lookup", "done"} : phase' = [phase EXCEPT ![r] = p]  BY <2>1
    <2>4. p \in Phases  BY DEF Phases
    <2> QED  BY <1>t, <2>1, <2>2, <2>3, <2>4, QuietStep
  <1>2. ASSUME NEW r \in Requests, Lookup(r) PROVE GrantInv'
    <2> DEFINE matches == {g \in Issued : grant[g].prefix = req[r].prefix}
    <2>1. /\ phase[r] = "lookup" /\ UNCHANGED <<ledgerVars, req, txVars>>
          /\ \/ /\ Cardinality(matches) = 1
                /\ found' = [found EXCEPT ![r] = CHOOSE g \in matches : TRUE]
                /\ phase' = [phase EXCEPT ![r] = "begin"] /\ UNCHANGED outcome
             \/ Answer(r, "refused") /\ UNCHANGED found
      BY <1>2 DEF Lookup
    <2>2. outcome[r] # "served"  BY <2>1 DEF GrantInv, AuditInv
    <2>3. CASE Answer(r, "refused") /\ UNCHANGED found
      <3>1. /\ phase' = [phase EXCEPT ![r] = "respond"]
            /\ outcome'[r] = "refused"
            /\ \A q \in Requests \ {r} : outcome'[q] = outcome[q]
        BY <1>t, <2>3 DEF Answer, BudgetType
      <3>2. "respond" \in Phases  BY DEF Phases
      <3> QED  BY <1>t, <2>1, <2>3, <3>1, <3>2, QuietStep
    <2>4. CASE /\ Cardinality(matches) = 1
               /\ found' = [found EXCEPT ![r] = CHOOSE g \in matches : TRUE]
               /\ phase' = [phase EXCEPT ![r] = "begin"] /\ UNCHANGED outcome
      <3>1. matches # {}
        <4> HIDE DEF matches
        <4>1. matches = {} => Cardinality(matches) = 0  BY FS_EmptySet
        <4> QED  BY <2>4, <4>1
      <3>2. PICK h : h = CHOOSE g \in matches : TRUE  OBVIOUS
      <3>3. h \in Issued /\ h \in Grants  BY <3>1, <3>2 DEF Issued
      <3>4. /\ found'[r] = h /\ \A q \in Requests \ {r} : found'[q] = found[q]
            /\ found' \in [Requests -> Grants \cup {None}]
        BY <1>t, <2>4, <3>2, <3>3
      <3>5. "begin" \in Phases  BY DEF Phases
      <3> HIDE DEF matches
      <3> QED  BY <1>t, <2>1, <2>2, <2>4, <3>3, <3>4, <3>5, QuietStep
    <2> QED  BY <2>1, <2>3, <2>4
  <1>3. ASSUME NEW r \in Requests, Judge(r) PROVE GrantInv'  BY <1>3, <1>t, JudgeStep
  <1>4. ASSUME NEW r \in Requests, Authorize(r) PROVE GrantInv'
    BY <1>4, <1>t, AuthorizeStep
  <1>5. ASSUME NEW r \in Requests, Commit(r) PROVE GrantInv'  BY <1>5, <1>t, CommitStep
  <1>6. ASSUME NEW r \in Requests, Fail(r) PROVE GrantInv'
    <2>1. /\ phase[r] \in {"lookup", "begin", "authorize", "commit"}
          /\ Answer(r, "refused") /\ UNCHANGED <<ledgerVars, req, found>>
          /\ \/ fence = r /\ fence' = None /\ draft' = NoDraft
             \/ fence # r /\ UNCHANGED txVars
      BY <1>6 DEF Fail
    <2>2. CASE fence = r /\ fence' = None /\ draft' = NoDraft
      <3>1. Refuse(r)  BY <2>1, <2>2 DEF Refuse
      <3> QED  BY <1>t, <2>1, <2>2, <3>1, RefuseStep
    <2>3. CASE fence # r /\ UNCHANGED txVars
      <3>1. phase[r] \in {"lookup", "begin"}  BY <2>1, <2>3 DEF GrantInv, FenceInv
      <3>2. /\ phase' = [phase EXCEPT ![r] = "respond"]
            /\ outcome'[r] = "refused"
            /\ \A q \in Requests \ {r} : outcome'[q] = outcome[q]
        BY <1>t, <2>1 DEF Answer, BudgetType
      <3>3. "respond" \in Phases  BY DEF Phases
      <3> QED  BY <1>t, <2>1, <2>3, <3>1, <3>2, <3>3, QuietStep
    <2> QED  BY <2>1, <2>2, <2>3
  <1>7. ASSUME NEW r \in Requests, Respond(r) PROVE GrantInv'
    <2>1. /\ phase[r] = "respond" /\ UNCHANGED <<ledgerVars, found, outcome, txVars>>
          /\ phase' = [phase EXCEPT ![r] = "done"]
          /\ \A q \in Requests \ {r} : req'[q] = req[q]
      BY <1>7, <1>t DEF Respond, BudgetType
    <2>2. "done" \in Phases  BY DEF Phases
    <2> QED  BY <1>t, <2>1, <2>2, QuietStep
  <1>8. ASSUME NEW g \in Grants, CreatePortalAccess(g) PROVE GrantInv'
    BY <1>8, <1>t, CreateStep
  <1>9. ASSUME NEW g \in Grants, RevokePortalAccess(g) PROVE GrantInv'
    BY <1>9, <1>t, RevokeStep
  <1>10. ASSUME UNCHANGED <<ledgerVars, requestVars, txVars>> PROVE GrantInv'
    <2>1. GrantType'  BY <1>10 DEF GrantInv, GrantType, ledgerVars, requestVars, txVars
    <2>2. Issued' = Issued  BY <1>10 DEF Issued, ledgerVars
    <2>3. FenceInv'  BY <1>10, <2>2 DEF GrantInv, FenceInv, requestVars, txVars
    <2>4. \A q \in Requests : DraftFits(q) => DraftFits(q)'
      BY <1>10 DEF DraftFits, Drafted, Entry, ledgerVars, requestVars, txVars
    <2>5. TxInv'  BY <1>10, <2>4 DEF GrantInv, TxInv, ledgerVars, requestVars
    <2>6. AuditInv'  BY <1>10, <2>2 DEF GrantInv, AuditInv, ledgerVars, requestVars
    <2>7. AuditExplainsGrant'
      BY <1>10, SameLedger DEF GrantInv, ledgerVars, requestVars
    <2> QED  BY <2>1, <2>3, <2>5, <2>6, <2>7 DEF GrantInv
  <1>11. CASE Tick  BY <1>10, <1>11 DEF Tick
  <1>12. CASE UNCHANGED vars  BY <1>10, <1>12 DEF vars, ledgerVars
  <1> QED
    BY <1>1, <1>2, <1>3, <1>4, <1>5, <1>6, <1>7, <1>8, <1>9, <1>11, <1>12 DEF Next

LEMMA PortalInvariants == Spec => [](BudgetInv /\ GrantInv)
  BY InitBudget, NextBudget, InitGrant, NextGrant, PTL DEF Spec

\* For any number of requests, grants and operators: the counters, the NDA, the
\* revocation and every served answer are explained by the audit log, and a grant
\* is revoked once, by the wrong token that reaches the limit or by the operator
\* (AccessPortalPackage, RevokePortalAccess).
THEOREM AuditLogExplains == Spec => []AuditExplainsGrant
  <1>1. GrantInv => AuditExplainsGrant  BY DEF GrantInv
  <1> QED  BY PortalInvariants, <1>1, PTL

\* For any number of requests, grants and operators: a package is released only
\* on a grant that is live when the access commits, whatever was revoked, expired
\* or judged between the lookup of the grant and the second reading of the clock
\* (AuthorizePortalPackage).
THEOREM ReleasedOnLiveGrant == Spec => ServedOnLiveGrant
  <1> DEFINE Released(e) ==
        /\ ~grant[e.grant].revoked /\ req[e.by].secret = e.grant
        /\ grant'[e.grant].requireNDA => grant'[e.grant].nda
        /\ grant'[e.grant].lastAccess < grant[e.grant].expires
        /\ grant'[e.grant].lastAccess < packageExpires
  <1>1. ASSUME GrantInv, Next, NEW e \in audit' \ audit, e.kind = "accessed"
        PROVE  Released(e)
    <2>1. PICK r \in Requests : Commit(r)
      <3>1. audit' # audit  BY <1>1
      <3>2. ASSUME NEW r \in Requests,
                   Arrive(r) \/ Lookup(r) \/ Judge(r) \/ Authorize(r) \/ Fail(r) \/ Respond(r)
            PROVE  audit' = audit
        BY <3>2 DEF Arrive, Lookup, Judge, Authorize, Fail, Respond, ledgerVars
      <3>3. ASSUME NEW g \in Grants, CreatePortalAccess(g) \/ RevokePortalAccess(g)
            PROVE  FALSE
        <4>1. PICK k \in {"created", "revoked"} :
                 audit' = audit \cup {[kind |-> k, grant |-> g, by |-> None]}
          BY <3>3 DEF CreatePortalAccess, RevokePortalAccess
        <4>2. e = [kind |-> k, grant |-> g, by |-> None]  BY <1>1, <4>1
        <4> QED  BY <1>1, <4>2
      <3>4. ~Tick  BY <3>1 DEF Tick, ledgerVars
      <3> QED  BY <1>1, <3>1, <3>2, <3>3, <3>4 DEF Next
    <2>2. /\ phase[r] = "commit" /\ grant' = [grant EXCEPT ![found[r]] = draft.row]
          /\ e \in draft.entries
      BY <1>1, <2>1 DEF Commit
    <2>3. DraftFits(r) /\ found[r] \in Grants
      BY <1>1, <2>2 DEF GrantInv, TxInv, FenceInv, Issued
    <2>4. e = Entry("accessed", r)  BY <1>1, <2>2, <2>3 DEF DraftFits, Entry
    <2>5. e.grant = found[r] /\ e.by = r /\ Drafted("accessed", r)
      BY <2>2, <2>4 DEF Entry, Drafted
    <2>6. grant'[found[r]] = draft.row  BY <1>1, <2>2, <2>3 DEF GrantInv, GrantType
    <2> QED  BY <2>3, <2>5, <2>6 DEF DraftFits
  <1>2. ASSUME GrantInv, [Next]_vars
        PROVE  [\A e \in audit' \ audit : e.kind = "accessed" => Released(e)]_vars
    BY <1>1, <1>2
  <1> QED  BY PortalInvariants, <1>2, PTL DEF Spec, ServedOnLiveGrant

=============================================================================
