------------------------------- MODULE Grants -------------------------------
(***************************************************************************)
(* Entitlement grants (kind 1030): parsing, chain resolution and ADP       *)
(* validation of core/src/entitlements.rs, and how the rows of the         *)
(* entitlement_events table are read back as ownership.                    *)
(*                                                                         *)
(* A signed event is an element of Events and its content is Ev[e]: ids    *)
(* are hashes of the content, so an id never names two contents.           *)
(***************************************************************************)
EXTENDS Naturals

CONSTANTS
  Events,       \* kind-1030 entitlement events that exist
  Ev,           \* Ev[e]: the signed content of e
  Recipients, Coords, GrantIds, Keys,
  Sources,      \* campaign roots an event may name as its source
  AuthRoots,    \* authorization roots an event may name
  PublisherOf,  \* PublisherOf[c]: the key inside the coordinate c
  NoEvent       \* an absent predecessor, authorization or view

GrantContent ==
  [ grant: GrantIds, recipient: Recipients, coord: Coords,
    source: Sources, auth: AuthRoots \cup {NoEvent},
    status: {"granted", "revoked"}, pred: Events \cup {NoEvent},
    signer: Keys, at: Nat ]

ASSUME EventsAssumption ==
  /\ Ev \in [Events -> GrantContent]
  /\ NoEvent \notin Events \cup AuthRoots

(* parse_entitlement_event: a granted event has no predecessor and a       *)
(* revoked one has exactly one.                                            *)
Parses(e) == (Ev[e].status = "granted") <=> (Ev[e].pred = NoEvent)

Roots(S) == {e \in S : Ev[e].pred = NoEvent /\ Ev[e].status = "granted"}

(* The filter of the walk in resolve_entitlement_grant.  A successor must  *)
(* be revoked and its predecessor must not be, so only the root has valid  *)
(* successors and the walk ends after at most one of them.                 *)
ValidRevocations(S, r) ==
  {e \in S :
     /\ Ev[e].pred = r
     /\ Ev[e].grant = Ev[r].grant
     /\ Ev[e].recipient = Ev[r].recipient
     /\ Ev[e].coord = Ev[r].coord
     /\ Ev[e].source = Ev[r].source
     /\ Ev[e].auth = Ev[r].auth
     /\ Ev[e].status = "revoked"
     /\ Ev[e].signer = PublisherOf[Ev[r].coord]
     /\ Ev[e].at > Ev[r].at}

(* resolve_entitlement_grant: Ok(chain) or one of its chain errors. *)
Resolves(S) ==
  /\ \A e \in S : Ev[e].pred # e
  /\ \E r \in S :
       /\ Roots(S) = {r}
       /\ \A x, y \in ValidRevocations(S, r) : x = y

RootOf(S) == CHOOSE r \in S : Roots(S) = {r}

(* ResolvedEntitlementGrant::status of the chain of S, or "error". *)
Status(S) ==
  IF ~Resolves(S) THEN "error"
  ELSE IF ValidRevocations(S, RootOf(S)) = {} THEN "granted" ELSE "revoked"

(* ResolvedAuthorization::authorizes with the issue_grant capability. *)
MayIssue(a, signer, coord, at) ==
  /\ signer = a.key
  /\ coord = a.coord
  /\ a.from <= at
  /\ \A x \in a.cancelledAt : at < x
  /\ a.issueGrant

(* validate_adp_entitlement on the chain whose root is r.  (Its check of   *)
(* the revokers' key is already part of ValidRevocations.)                 *)
ValidGrant(r, c, a) ==
  /\ c.root = Ev[r].source
  /\ c.publisher = PublisherOf[Ev[r].coord]
  /\ c.coord = Ev[r].coord
  /\ Ev[r].at \in c.claimable
  /\ IF Ev[r].signer = PublisherOf[Ev[r].coord]
     THEN Ev[r].auth = NoEvent
     ELSE /\ Ev[r].auth # NoEvent
          /\ a # NoEvent
          /\ a.root = Ev[r].auth
          /\ a.developer = PublisherOf[Ev[r].coord]
          /\ MayIssue(a, Ev[r].signer, Ev[r].coord, Ev[r].at)

SameGrant(e, b, c, g) ==
  Ev[e].recipient = b /\ Ev[e].coord = c /\ Ev[e].grant = g

(* parsed_events(buyer, coordinate, Some(grant_id)) over the rows R. *)
Stored(R, b, c, g) == {e \in R : SameGrant(e, b, c, g)}

(* The rows of e's own grant. *)
Siblings(R, e) == Stored(R, Ev[e].recipient, Ev[e].coord, Ev[e].grant)

(* chains_for + is_owned: some grant of the buyer resolves to granted. *)
GrantStatus(R, b, c, g) == Status(Stored(R, b, c, g))

IsOwned(R, b, c) == \E g \in GrantIds : GrantStatus(R, b, c, g) = "granted"
=============================================================================
