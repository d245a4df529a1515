------------------------- MODULE EntitlementsProofs -------------------------
(***************************************************************************)
(* Proofs about the entitlement-grant repository for any events, any       *)
(* number of concurrent ingest_event calls and any campaign and            *)
(* authorization views.                                                    *)
(***************************************************************************)
EXTENDS Entitlements, TLAPS

(* What a call read is still in the table, belongs to the grant of its     *)
(* event, and the event parsed.                                            *)
ReadsStored ==
  \A t \in Tasks :
    task[t].pc = "insert" =>
      /\ task[t].nodes \subseteq rows
      /\ \A n \in task[t].nodes :
           SameGrant(n, Ev[task[t].event].recipient,
                     Ev[task[t].event].coord, Ev[task[t].event].grant)

(* The inductive invariant: OwnershipIsBacked is not inductive by itself,  *)
(* because which root an insert completes depends on what was read before. *)
IInv == TypeOK /\ ReadsStored /\ GrantStoredFirst /\ RootsValidated

(* resolve_entitlement_grant picks a granted root among its nodes, and it  *)
(* is the only one.                                                        *)
LEMMA RootIsUnique ==
  ASSUME NEW S, Resolves(S)
  PROVE  RootOf(S) \in S /\ Roots(S) = {RootOf(S)}
BY DEF Resolves, RootOf

(* The table only grows with the one event of the inserting call. *)
LEMMA InsertKeepsGrantFirst ==
  ASSUME IInv, NEW t \in Tasks, InsertEvent(t)
  PROVE  GrantStoredFirst'
<1> DEFINE k == task[t]
           e == k.event
           S == k.nodes \cup {e}
<1>1. k \in Pending
  BY DEF InsertEvent, IInv, TypeOK, Idle
<1>2. e \in Events /\ rows \subseteq rows' /\ rows' = rows \cup {e}
  BY <1>1 DEF InsertEvent, Pending
<1>3. RootOf(S) \in S /\ Roots(S) = {RootOf(S)}
  BY RootIsUnique DEF InsertEvent, Accepts
<1>4. S \subseteq Siblings(rows', e)
  BY <1>2 DEF IInv, ReadsStored, InsertEvent, Siblings, Stored, SameGrant
<1>5. Roots(Siblings(rows', e)) # {}
  BY <1>3, <1>4 DEF Roots
<1>6. ASSUME NEW x \in rows
      PROVE  Roots(Siblings(rows', x)) # {}
  <2>1. Roots(Siblings(rows, x)) # {}
    BY DEF IInv, GrantStoredFirst
  <2>2. Siblings(rows, x) \subseteq Siblings(rows', x)
    BY <1>2 DEF Siblings, Stored
  <2>. QED  BY <2>1, <2>2 DEF Roots
<1>. QED  BY <1>2, <1>5, <1>6 DEF GrantStoredFirst

(* A root that is inserted is the root of the chain that was validated. *)
LEMMA InsertKeepsRootsValidated ==
  ASSUME IInv, NEW t \in Tasks, InsertEvent(t)
  PROVE  RootsValidated'
<1> DEFINE k == task[t]
           e == k.event
           S == k.nodes \cup {e}
<1>1. k \in Pending
  BY DEF InsertEvent, IInv, TypeOK, Idle
<1>2. rows' = rows \cup {e}
  BY DEF InsertEvent
<1>3. SUFFICES ASSUME NEW r \in Roots(rows')
               PROVE  \E c \in Campaigns, a \in Auths \cup {NoEvent} :
                        ValidGrant(r, c, a)
  BY DEF RootsValidated, Roots, ValidGrant, MayIssue
<1>4. CASE r \in rows
  BY <1>4 DEF IInv, RootsValidated, Roots
<1>5. CASE r = e
  <2>1. r = RootOf(S)
    <3>1. r \in Roots(S)
      BY <1>5 DEF Roots
    <3>2. Roots(S) = {RootOf(S)}
      BY RootIsUnique DEF InsertEvent, Accepts
    <3>. QED  BY <3>1, <3>2
  <2>2. ValidGrant(RootOf(S), k.campaign, k.auth)
    BY DEF InsertEvent, Accepts
  <2>. QED  BY <1>1, <2>1, <2>2 DEF Pending
<1>. QED  BY <1>2, <1>4, <1>5 DEF Roots

LEMMA InductiveInit == Init => IInv
BY DEF Init, IInv, TypeOK, ReadsStored, GrantStoredFirst, RootsValidated,
       Roots, Idle

LEMMA InductiveStep == IInv /\ [Next]_vars => IInv'
<1> SUFFICES ASSUME IInv, [Next]_vars PROVE IInv'
  OBVIOUS
<1> USE DEF IInv
<1>1. ASSUME NEW t \in Tasks, NEW e \in Events, NEW c \in Campaigns,
             NEW a \in Auths \cup {NoEvent}, ReadChain(t, e, c, a)
      PROVE  IInv'
  <2> DEFINE k == [pc |-> "insert", event |-> e, campaign |-> c,
                   auth |-> a, nodes |-> Siblings(rows, e)]
  <2>1. rows' = rows /\ task' = [task EXCEPT ![t] = k]
    BY <1>1 DEF ReadChain
  <2>2. k \in Pending
    BY DEF Pending, TypeOK, Siblings, Stored
  <2>3. TypeOK'
    BY <2>1, <2>2 DEF TypeOK
  <2>4. ReadsStored'
    BY <2>1 DEF ReadsStored, TypeOK, Siblings, Stored, SameGrant
  <2>5. GrantStoredFirst'
    BY <2>1 DEF GrantStoredFirst, Siblings, Stored, SameGrant, Roots
  <2>6. RootsValidated'
    BY <2>1 DEF RootsValidated, Roots, ValidGrant, MayIssue
  <2>. QED  BY <2>3, <2>4, <2>5, <2>6
<1>2. ASSUME NEW t \in Tasks, InsertEvent(t)
      PROVE  IInv'
  <2>1. task[t] \in Pending
    BY <1>2 DEF InsertEvent, TypeOK, Idle
  <2>2. TypeOK'
    BY <1>2, <2>1 DEF InsertEvent, TypeOK, Pending
  <2>3. ReadsStored'
    BY <1>2 DEF InsertEvent, ReadsStored, TypeOK, Idle, SameGrant
  <2>. QED  BY <1>2, <2>2, <2>3, InsertKeepsGrantFirst,
               InsertKeepsRootsValidated
<1>3. ASSUME NEW t \in Tasks, EndIngest(t)
      PROVE  IInv'
  <2>1. TypeOK' /\ rows' = rows
    BY <1>3 DEF EndIngest, TypeOK
  <2>2. ReadsStored'
    BY <1>3 DEF EndIngest, ReadsStored, TypeOK, Idle, SameGrant
  <2>3. GrantStoredFirst'
    BY <2>1 DEF GrantStoredFirst, Siblings, Stored, SameGrant, Roots
  <2>4. RootsValidated'
    BY <2>1 DEF RootsValidated, Roots, ValidGrant, MayIssue
  <2>. QED  BY <2>1, <2>2, <2>3, <2>4
<1>4. CASE UNCHANGED vars
  BY <1>4 DEF vars, TypeOK, ReadsStored, GrantStoredFirst, RootsValidated,
              Siblings, Stored, SameGrant, Roots, ValidGrant, MayIssue
<1>. QED  BY <1>1, <1>2, <1>3, <1>4 DEF Next

(* The inductive invariant holds in every reachable state of the           *)
(* repository, under any interleaving of ingest_event calls.               *)
THEOREM Invariance == Spec => []IInv
BY InductiveInit, InductiveStep, PTL DEF Spec

(* The rows and the calls in progress are always well formed. *)
THEOREM TypeCorrect == Spec => []TypeOK
<1>1. IInv => TypeOK
  BY DEF IInv
<1>. QED  BY <1>1, Invariance, PTL

(* A revocation is never stored before its grant (ingest_event). *)
THEOREM GrantAlwaysFirst == Spec => []GrantStoredFirst
<1>1. IInv => GrantStoredFirst
  BY DEF IInv
<1>. QED  BY <1>1, Invariance, PTL

(* EntitlementsRepository::is_owned is true only for a validated grant     *)
(* that no stored publisher revocation ends.                               *)
THEOREM OwnershipBacked == Spec => []OwnershipIsBacked
<1>1. IInv => OwnershipIsBacked
  <2> SUFFICES ASSUME IInv, NEW b \in Recipients, NEW c \in Coords,
                      NEW g \in GrantIds,
                      GrantStatus(rows, b, c, g) = "granted"
               PROVE  \E r \in rows :
                 /\ Ev[r].recipient = b /\ Ev[r].coord = c
                 /\ \E cv \in Campaigns, av \in Auths \cup {NoEvent} :
                      ValidGrant(r, cv, av)
                 /\ ValidRevocations(rows, r) = {}
    BY DEF OwnershipIsBacked, IsOwned
  <2> DEFINE S == Stored(rows, b, c, g)
             r == RootOf(S)
  <2>1. Resolves(S) /\ ValidRevocations(S, r) = {}
    BY DEF GrantStatus, Status
  <2>2. r \in S /\ Roots(S) = {r}
    BY <2>1, RootIsUnique
  <2>3. r \in rows /\ Ev[r].recipient = b /\ Ev[r].coord = c /\ Ev[r].grant = g
    BY <2>2 DEF Stored, SameGrant
  <2>4. r \in Roots(rows)
    BY <2>2, <2>3 DEF Roots
  <2>5. \E cv \in Campaigns, av \in Auths \cup {NoEvent} : ValidGrant(r, cv, av)
    BY <2>4 DEF IInv, RootsValidated
  <2>6. ValidRevocations(rows, r) = {}
    <3>1. ValidRevocations(rows, r) \subseteq ValidRevocations(S, r)
      BY <2>3 DEF ValidRevocations, Stored, SameGrant
    <3>. QED  BY <2>1, <3>1
  <2>. QED  BY <2>3, <2>5, <2>6
<1>. QED  BY <1>1, Invariance, PTL

(* Adding rows to a grant that already has a root cannot turn a grant that *)
(* was not owned into an owned one: is_owned reads chains fail-closed.     *)
LEMMA MoreRowsNeverGrant ==
  ASSUME NEW S, NEW T, S \subseteq T, Roots(S) # {}, Status(T) = "granted"
  PROVE  Status(S) = "granted"
<1>1. Resolves(T) /\ ValidRevocations(T, RootOf(T)) = {}
  BY DEF Status
<1>2. Roots(T) = {RootOf(T)}
  BY <1>1, RootIsUnique
<1>3. Roots(S) = {RootOf(T)} /\ RootOf(T) \in S
  BY <1>2 DEF Roots
<1>4. ValidRevocations(S, RootOf(T)) = {}
  BY <1>1 DEF ValidRevocations
<1>5. Resolves(S)
  BY <1>1, <1>3, <1>4 DEF Resolves
<1>6. RootOf(S) = RootOf(T)
  BY <1>3, <1>5, RootIsUnique
<1>. QED  BY <1>4, <1>5, <1>6 DEF Status

(* A grant that was revoked, or closed by a fork or a second root, never   *)
(* confers ownership again (EntitlementsRepository::is_owned).             *)
THEOREM OwnershipDoesNotReturn == Spec => OwnershipNeverReturns
<1>1. IInv /\ [Next]_vars =>
        [\A b \in Recipients, c \in Coords, g \in GrantIds :
           /\ GrantStatus(rows, b, c, g) # "granted"
           /\ GrantStatus(rows', b, c, g) = "granted"
           => Stored(rows, b, c, g) = {}]_vars
  <2> SUFFICES ASSUME IInv, Next,
                      NEW b \in Recipients, NEW c \in Coords, NEW g \in GrantIds,
                      GrantStatus(rows', b, c, g) = "granted",
                      Stored(rows, b, c, g) # {}
               PROVE  GrantStatus(rows, b, c, g) = "granted"
    OBVIOUS
  <2>1. rows \subseteq rows'
    BY DEF Next, ReadChain, InsertEvent, EndIngest
  <2>2. Stored(rows, b, c, g) \subseteq Stored(rows', b, c, g)
    BY <2>1 DEF Stored
  <2>3. PICK e \in Stored(rows, b, c, g) : TRUE
    OBVIOUS
  <2>4. Siblings(rows, e) = Stored(rows, b, c, g) /\ e \in rows
    BY <2>3 DEF Siblings, Stored, SameGrant
  <2>5. Roots(Stored(rows, b, c, g)) # {}
    BY <2>4 DEF IInv, GrantStoredFirst
  <2>. QED  BY <2>2, <2>5, MoreRowsNeverGrant DEF GrantStatus
<1>. QED  BY <1>1, Invariance, PTL DEF Spec, OwnershipNeverReturns

(* The events of one source cannot hide a revocation of the grant they are *)
(* part of: a revocation that counts names the source of its root.         *)
LEMMA SourceKeepsRevocation ==
  ASSUME NEW S, NEW source, Status(S) = "revoked"
  PROVE  Status({e \in S : Ev[e].source = source}) # "granted"
<1> DEFINE H == {e \in S : Ev[e].source = source}
<1> SUFFICES ASSUME Status(H) = "granted" PROVE FALSE
  OBVIOUS
<1>1. Resolves(S) /\ ValidRevocations(S, RootOf(S)) # {}
  BY DEF Status
<1>2. Resolves(H) /\ ValidRevocations(H, RootOf(H)) = {}
  BY DEF Status
<1>3. RootOf(H) \in H /\ Roots(H) = {RootOf(H)} /\ Roots(S) = {RootOf(S)}
  BY <1>1, <1>2, RootIsUnique
<1>4. RootOf(H) = RootOf(S)
  BY <1>3 DEF Roots
<1>5. PICK v \in S : v \in ValidRevocations(S, RootOf(S))
  BY <1>1 DEF ValidRevocations
<1>6. v \in H
  BY <1>3, <1>4, <1>5 DEF ValidRevocations
<1>7. v \in ValidRevocations(H, RootOf(H))
  BY <1>4, <1>5, <1>6 DEF ValidRevocations
<1>. QED  BY <1>2, <1>7

(* history_for_buyer, which groups the rows by source as well, never shows *)
(* a grant as active that is_owned reads as revoked.                       *)
THEOREM HistoryAgrees == Spec => []HistoryHonoursRevocation
<1>1. HistoryHonoursRevocation
  BY SourceKeepsRevocation
  DEF HistoryHonoursRevocation, HistoryStatus, GrantStatus
<1>. QED  BY <1>1, PTL
=============================================================================
