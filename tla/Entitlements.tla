---------------------------- MODULE Entitlements ----------------------------
(***************************************************************************)
(* The entitlement-grant repository: core/src/entitlements.rs (parsing,    *)
(* chain resolution, ADP validation) and core/src/entitlements_repository  *)
(* (the entitlement_events table).  ingest_event reads the stored rows of  *)
(* the grant, resolves and validates them together with the new event and  *)
(* only then inserts; the read and the insert are two awaits, so two calls *)
(* interleave between them.  Each call is a task.                          *)
(*                                                                         *)
(* What the caller discovered about the campaign and about the issuer's    *)
(* authorization is a "view": relays may have shown two callers different  *)
(* prefixes of a lifecycle, so each call brings its own.                   *)
(***************************************************************************)
EXTENDS Grants

CONSTANTS
  Campaigns,    \* resolved campaigns a caller may pass
  Auths,        \* resolved authorizations a caller may pass
  Tasks         \* concurrent ingest_event calls

VARIABLES
  rows,   \* entitlement_events: the ids stored
  task    \* task[t]: where call t of ingest_event stands

vars == <<rows, task>>

Idle == [pc |-> "idle"]

(***************************************************************************)
(* entitlements_repository.rs                                              *)
(***************************************************************************)

(* ingest_event up to its first await: parse, then read the stored chain. *)
ReadChain(t, e, c, a) ==
  /\ task[t].pc = "idle"
  /\ Parses(e)
  /\ task' = [task EXCEPT ![t] =
       [pc |-> "insert", event |-> e, campaign |-> c, auth |-> a,
        nodes |-> Siblings(rows, e)]]
  /\ UNCHANGED rows

(* Mutant: the event is stored without validate_adp_entitlement. *)
AcceptsUnvalidated(k) == Resolves(k.nodes \cup {k.event})

(* Everything ingest_event requires of the nodes it read plus the event. *)
Accepts(k) ==
  LET S == k.nodes \cup {k.event}
  IN  Resolves(S) /\ ValidGrant(RootOf(S), k.campaign, k.auth)

(* Mutant: INSERT OR REPLACE keyed by the grant instead of the event id. *)
ReplaceGrant(t) ==
  /\ task[t].pc = "insert"
  /\ Accepts(task[t])
  /\ rows' = (rows \ Siblings(rows, task[t].event)) \cup {task[t].event}
  /\ task' = [task EXCEPT ![t] = Idle]

(* The rest of ingest_event: resolve, validate, INSERT ... ON CONFLICT DO  *)
(* NOTHING.                                                                *)
InsertEvent(t) ==
  /\ task[t].pc = "insert"
  /\ Accepts(task[t])
  /\ rows' = rows \cup {task[t].event}
  /\ task' = [task EXCEPT ![t] = Idle]

(* Resolution or validation fails, the database refuses, or the process    *)
(* dies: the call ends without a row.                                      *)
EndIngest(t) ==
  /\ task[t].pc = "insert"
  /\ task' = [task EXCEPT ![t] = Idle]
  /\ UNCHANGED rows

(* Mutant: the history looks at the granted events only. *)
HistoryOfRoots(R, b, c, g, source) ==
  Status({e \in Stored(R, b, c, g) :
            Ev[e].source = source /\ Ev[e].status = "granted"})

(* history_for_buyer groups by campaign source as well as by grant id. *)
HistoryStatus(R, b, c, g, source) ==
  Status({e \in Stored(R, b, c, g) : Ev[e].source = source})

-----------------------------------------------------------------------------
Init ==
  /\ rows = {}
  /\ task = [t \in Tasks |-> Idle]

Next ==
  \E t \in Tasks :
    \/ \E e \in Events, c \in Campaigns, a \in Auths \cup {NoEvent} :
         ReadChain(t, e, c, a)
    \/ InsertEvent(t)
    \/ EndIngest(t)

Spec == Init /\ [][Next]_vars

-----------------------------------------------------------------------------
(***************************************************************************)
(* Properties                                                              *)
(***************************************************************************)

Pending ==
  [ pc: {"insert"}, event: Events, campaign: Campaigns,
    auth: Auths \cup {NoEvent}, nodes: SUBSET Events ]

(* The rows are known events and every call is idle or holds what it read. *)
TypeOK ==
  /\ rows \subseteq Events
  /\ task \in [Tasks -> {Idle} \cup Pending]

(* A revocation row never stands without its grant: ingest_event refuses a *)
(* revocation that arrives before the granted root.                        *)
GrantStoredFirst ==
  \A e \in rows : Roots(Siblings(rows, e)) # {}

(* Every granted root in the table was claimable when it was issued and    *)
(* was issued by the publisher or under an authorization then in force,    *)
(* according to what its ingest was shown.                                 *)
RootsValidated ==
  \A r \in Roots(rows) :
    \E c \in Campaigns, a \in Auths \cup {NoEvent} : ValidGrant(r, c, a)

(* is_owned answers true only for a buyer who holds a validated grant root *)
(* that no stored revocation by the publisher ends, whatever interleaving  *)
(* of ingest_event calls filled the table.                                 *)
OwnershipIsBacked ==
  \A b \in Recipients, c \in Coords :
    IsOwned(rows, b, c) =>
      \E r \in rows :
        /\ Ev[r].recipient = b /\ Ev[r].coord = c
        /\ \E cv \in Campaigns, av \in Auths \cup {NoEvent} :
             ValidGrant(r, cv, av)
        /\ ValidRevocations(rows, r) = {}

(* A grant that stopped being owned - revoked, or closed by a fork or a    *)
(* second root - is never owned again: only the first event stored for a   *)
(* grant id can make that grant confer ownership.                          *)
OwnershipNeverReturns ==
  [][\A b \in Recipients, c \in Coords, g \in GrantIds :
       /\ GrantStatus(rows, b, c, g) # "granted"
       /\ GrantStatus(rows', b, c, g) = "granted"
       => Stored(rows, b, c, g) = {}]_vars

(* A grant the publisher revoked is never shown as active in the purchase  *)
(* history, although the history groups the stored events differently from *)
(* is_owned: by grant id and campaign, against by grant id alone.          *)
HistoryHonoursRevocation ==
  \A b \in Recipients, c \in Coords, g \in GrantIds :
    GrantStatus(rows, b, c, g) = "revoked" =>
      \A e \in Stored(rows, b, c, g) :
        HistoryStatus(rows, b, c, g, Ev[e].source) # "granted"
=============================================================================
