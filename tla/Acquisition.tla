---------------------------- MODULE Acquisition -----------------------------
(***************************************************************************)
(* How the desktop application acquires a game: the Tauri commands         *)
(* confirm_purchase and claim_entitlement (desktop/src/adp_commands.rs)    *)
(* and ingest_receipt (desktop/src/main.rs), composed with the receipt     *)
(* rules (Receipts) and the grant rules (Grants) they store through, and   *)
(* with account switching.                                                 *)
(*                                                                         *)
(* Every command is a task of awaits: the ADP server and the relays answer *)
(* late, the active account may change meanwhile, and the receipt (or the  *)
(* grant) and the download token are stored by two writes.  A server may   *)
(* answer with any signed event; relays may show any lifecycle view.       *)
(***************************************************************************)
EXTENDS Receipts

CONSTANTS
  Events, Ev, GrantIds, Sources,   \* see Grants
  Campaigns,    \* views of campaigns that discovery can return
  AuthViews,    \* views of fulfillment authorizations that relays can show
  Servers,      \* ADP servers
  Payments,     \* paid invoices with their preimage
  Tasks         \* concurrent commands

G == INSTANCE Grants WITH Recipients <- Buyers

VARIABLES
  active,     \* AuthState: the account logged in, or NoEvent
  purchases,  \* purchases table: receipt ids
  rows,       \* entitlement_events table: event ids
  tokens,     \* download_tokens table: its keys
  task        \* task[t]: where command t stands

vars == <<active, purchases, rows, tokens, task>>

Idle == [pc |-> "idle"]

Token == [buyer: Buyers, coord: Coords, server: Servers]

(* auth_commands: log in, switch the account or log out, at any moment. *)
SwitchAccount(b) ==
  /\ active' = b
  /\ UNCHANGED <<purchases, rows, tokens, task>>

Become(t, k) ==
  /\ task' = [task EXCEPT ![t] = k]
  /\ UNCHANGED <<active, purchases, rows, tokens>>

(***************************************************************************)
(* confirm_purchase                                                        *)
(***************************************************************************)

(* Snapshot the signer, fetch the listing, POST /purchase/confirm. *)
BeginConfirm(t, c, s, p) ==
  /\ task[t].pc = "idle"
  /\ active # NoEvent
  /\ Become(t, [pc |-> "asked", kind |-> "confirm", buyer |-> active,
                coord |-> c, server |-> s, payment |-> p, view |-> NoEvent,
                auth |-> NoEvent, cred |-> NoEvent, nodes |-> {}])

(* Mutant: the authorization is looked up under the developer of the       *)
(* receipt instead of the developer of the listing.                        *)
AuthorizationOfReceipt(r, c, a) ==
  IF Rcpt[r].auth = NoEvent
  THEN a = NoEvent
  ELSE /\ a # NoEvent
       /\ a.root = Rcpt[r].auth
       /\ a.developer = PublisherOf[Rcpt[r].coord]

(* The authorization persist_purchase_confirmation brings to validation:   *)
(* none for a receipt of the listing's own key, otherwise one discovered   *)
(* under the developer of the listing that was asked for.                  *)
ConfirmAuthorization(r, c, a) ==
  IF Rcpt[r].signer = PublisherOf[c]
  THEN a = NoEvent
  ELSE /\ Rcpt[r].auth # NoEvent
       /\ a # NoEvent
       /\ a.root = Rcpt[r].auth
       /\ a.developer = PublisherOf[c]

ConfirmAnswered(t, r, a) ==
  /\ task[t].pc = "asked"
  /\ task[t].kind = "confirm"
  /\ ConfirmAuthorization(r, task[t].coord, a)
  /\ AcceptsConfirmed(r, task[t].buyer, a, task[t].payment)
  /\ Become(t, [task[t] EXCEPT !.pc = "accepted", !.cred = r, !.auth = a])

(***************************************************************************)
(* claim_entitlement                                                       *)
(***************************************************************************)

(* Discover the requested campaign of the listing, POST /entitlement/claim *)
BeginClaim(t, c, s, v) ==
  /\ task[t].pc = "idle"
  /\ active # NoEvent
  /\ v.publisher = PublisherOf[c]
  /\ v.coord = c
  /\ Become(t, [pc |-> "asked", kind |-> "claim", buyer |-> active,
                coord |-> c, server |-> s, payment |-> NoEvent, view |-> v,
                auth |-> NoEvent, cred |-> NoEvent, nodes |-> {}])

ClaimAnswered(t, e, a) ==
  /\ task[t].pc = "asked"
  /\ task[t].kind = "claim"
  /\ G!Parses(e)
  /\ Ev[e].recipient = task[t].buyer
  /\ Ev[e].coord = task[t].coord
  /\ Ev[e].source = task[t].view.root
  /\ G!Resolves({e})
  /\ IF Ev[e].auth # NoEvent
     THEN a # NoEvent /\ a.root = Ev[e].auth
                      /\ a.developer = PublisherOf[task[t].coord]
     ELSE a = NoEvent /\ Ev[e].signer = PublisherOf[task[t].coord]
  /\ G!ValidGrant(e, task[t].view, a)
  /\ Become(t, [task[t] EXCEPT !.pc = "accepted", !.cred = e, !.auth = a])

(***************************************************************************)
(* The common tail: the account must still be the one that asked, then the *)
(* credential is stored and after it the download token.                   *)
(***************************************************************************)
Commit(t) ==
  /\ task[t].pc = "accepted"
  /\ active = task[t].buyer
  /\ Become(t, [task[t] EXCEPT !.pc = "store"])

(* ingest_receipt: the active account is read once, before validation. *)
BeginIngest(t, r) ==
  /\ task[t].pc = "idle"
  /\ active # NoEvent
  /\ AcceptsDirect(r, active)
  /\ Become(t, [pc |-> "store", kind |-> "ingest", buyer |-> active,
                coord |-> Rcpt[r].coord, server |-> NoEvent,
                payment |-> NoEvent, view |-> NoEvent, auth |-> NoEvent,
                cred |-> r, nodes |-> {}])

(* upsert_receipt.  ingest_receipt is done then, it has no token. *)
StoreReceipt(t) ==
  /\ task[t].pc = "store"
  /\ task[t].kind \in {"confirm", "ingest"}
  /\ purchases' = purchases \cup {task[t].cred}
  /\ task' = [task EXCEPT ![t] =
       IF task[t].kind = "ingest" THEN Idle ELSE [@ EXCEPT !.pc = "token"]]
  /\ UNCHANGED <<active, rows, tokens>>

(* ingest_event, the read: see Entitlements. *)
ReadChain(t) ==
  /\ task[t].pc = "store"
  /\ task[t].kind = "claim"
  /\ Become(t, [task[t] EXCEPT !.pc = "insert",
                  !.nodes = G!Siblings(rows, task[t].cred)])

(* ingest_event, the validation and the insert. *)
InsertGrant(t) ==
  /\ task[t].pc = "insert"
  /\ LET S == task[t].nodes \cup {task[t].cred}
     IN  /\ G!Resolves(S)
         /\ G!ValidGrant(G!RootOf(S), task[t].view, task[t].auth)
  /\ rows' = rows \cup {task[t].cred}
  /\ task' = [task EXCEPT ![t].pc = "token"]
  /\ UNCHANGED <<active, purchases, tokens>>

(* DownloadTokensRepository::upsert under the coordinate asked for. *)
StoreToken(t) ==
  /\ task[t].pc = "token"
  /\ tokens' = tokens \cup
       {[buyer |-> task[t].buyer, coord |-> task[t].coord,
         server |-> task[t].server]}
  /\ task' = [task EXCEPT ![t] = Idle]
  /\ UNCHANGED <<active, purchases, rows>>

(* Any await of a command can fail, and a check that is not met ends it:   *)
(* nothing that was stored is taken back.  A crash is every task failing.  *)
Fail(t) ==
  /\ task[t].pc # "idle"
  /\ Become(t, Idle)

-----------------------------------------------------------------------------
Init ==
  /\ active = NoEvent
  /\ purchases = {}
  /\ rows = {}
  /\ tokens = {}
  /\ task = [t \in Tasks |-> Idle]

Next ==
  \/ \E b \in Buyers \cup {NoEvent} : SwitchAccount(b)
  \/ \E t \in Tasks :
       \/ \E c \in Coords, s \in Servers, p \in Payments :
            BeginConfirm(t, c, s, p)
       \/ \E r \in Receipts, a \in AuthViews \cup {NoEvent} :
            ConfirmAnswered(t, r, a)
       \/ \E c \in Coords, s \in Servers, v \in Campaigns :
            BeginClaim(t, c, s, v)
       \/ \E e \in Events, a \in AuthViews \cup {NoEvent} :
            ClaimAnswered(t, e, a)
       \/ \E r \in Receipts : BeginIngest(t, r)
       \/ Commit(t)
       \/ StoreReceipt(t)
       \/ ReadChain(t)
       \/ InsertGrant(t)
       \/ StoreToken(t)
       \/ Fail(t)

Spec == Init /\ [][Next]_vars

-----------------------------------------------------------------------------
(* OwnershipService::source_for: a grant first, then a receipt. *)
OwnershipSource(b, c) ==
  IF G!IsOwned(rows, b, c) THEN "entitlement_grant"
  ELSE IF OwnedByReceipt(purchases, b, c) THEN "purchase_receipt"
  ELSE "none"

Owned(b, c) == OwnershipSource(b, c) # "none"

-----------------------------------------------------------------------------
(***************************************************************************)
(* Properties                                                              *)
(***************************************************************************)

Busy ==
  [ pc: {"asked", "accepted", "store", "insert", "token"},
    kind: {"confirm", "claim", "ingest"}, buyer: Buyers, coord: Coords,
    server: Servers \cup {NoEvent}, payment: Payments \cup {NoEvent},
    view: Campaigns \cup {NoEvent}, auth: AuthViews \cup {NoEvent},
    cred: Receipts \cup Events \cup {NoEvent}, nodes: SUBSET Events ]

(* Every table row and every command in progress is well formed. *)
TypeOK ==
  /\ active \in Buyers \cup {NoEvent}
  /\ purchases \subseteq Receipts
  /\ rows \subseteq Events
  /\ tokens \subseteq Token
  /\ task \in [Tasks -> {Idle} \cup Busy]

(* Every stored receipt is a complete paid root whose signer was allowed   *)
(* to sign it, and every stored grant a root that was validated: no        *)
(* failure, switch or interleaving stores something unvalidated.           *)
CredentialsValidated ==
  /\ \A r \in purchases : \E a \in AuthViews \cup {NoEvent} :
       ValidRoot(r, PublisherOf[Rcpt[r].coord], a)
  /\ \A e \in rows : \E v \in Campaigns, a \in AuthViews \cup {NoEvent} :
       Ev[e].status = "granted" /\ G!ValidGrant(e, v, a)

(* The credentials the application may hold: a receipt or a grant root that *)
(* some lifecycle view justifies.                                          *)
ValidReceipts ==
  {r \in Receipts : \E a \in AuthViews \cup {NoEvent} :
     ValidRoot(r, PublisherOf[Rcpt[r].coord], a)}

ValidGrants ==
  {e \in Events :
     /\ Ev[e].status = "granted"
     /\ \E v \in Campaigns, a \in AuthViews \cup {NoEvent} : G!ValidGrant(e, v, a)}

(* Rows of the two tables, told apart. *)
Credentials(R, W) == ({"receipt"} \X R) \cup ({"grant"} \X W)

(* The download tokens a credential stands for: a receipt those for the    *)
(* games of its developer, a grant those for its own game.                 *)
TokensOf(c) ==
  {k \in Token :
     \/ /\ c[1] = "receipt"
        /\ Rcpt[c[2]].buyer = k.buyer
        /\ PublisherOf[Rcpt[c[2]].coord] = PublisherOf[k.coord]
     \/ /\ c[1] = "grant"
        /\ Ev[c[2]].recipient = k.buyer
        /\ Ev[c[2]].coord = k.coord}

Store == INSTANCE CredentialStore WITH
  Valid   <- Credentials(ValidReceipts, ValidGrants),
  Unlocks <- [c \in Credentials(ValidReceipts, ValidGrants) |-> TokensOf(c)],
  held    <- Credentials(purchases, rows)

(* However the commands interleave, fail and change accounts, the tables   *)
(* behave like a store that holds one validated credential after another   *)
(* and issues a token only for one it holds: no write does both, none is   *)
(* taken back, and nothing unvalidated is ever stored.                     *)
StoresCredentials == Store!Spec

(* A download token exists only next to a credential of the same buyer:    *)
(* the grant of that very game, or a receipt for a game of the same        *)
(* developer.  The credential is written first and never removed, so a     *)
(* failure between the two writes cannot leave a token alone.              *)
TokenFollowsCredential ==
  \A k \in tokens :
    \/ \E r \in purchases :
         /\ Rcpt[r].buyer = k.buyer
         /\ PublisherOf[Rcpt[r].coord] = PublisherOf[k.coord]
    \/ \E e \in rows : Ev[e].recipient = k.buyer /\ Ev[e].coord = k.coord

(* The application says a game is owned only when it holds a validated     *)
(* credential of that account for that game.                               *)
OwnershipIsEarned ==
  \A b \in Buyers, c \in Coords :
    Owned(b, c) =>
      \/ \E r \in purchases :
           /\ Rcpt[r].buyer = b /\ Rcpt[r].coord = c
           /\ \E a \in AuthViews \cup {NoEvent} :
                ValidRoot(r, PublisherOf[c], a)
      \/ \E e \in rows :
           /\ Ev[e].recipient = b /\ Ev[e].coord = c
           /\ \E v \in Campaigns, a \in AuthViews \cup {NoEvent} :
                G!ValidGrant(e, v, a)

(* A game that is owned stops being owned only when a second root arrives  *)
(* for the same order or the same grant id: another purchase, another      *)
(* claim, another account or a failed command never takes it away.         *)
OwnershipLostOnlyByConflict ==
  [][purchases' # purchases \/ rows' # rows =>
     \A b \in Buyers, c \in Coords :
       Owned(b, c) /\ ~Owned(b, c)' =>
         \/ \E n \in purchases' \ purchases, r \in purchases :
              /\ Rcpt[n].buyer = b /\ Rcpt[n].coord = c
              /\ Rcpt[r].buyer = b /\ Rcpt[r].coord = c
              /\ Rcpt[n].order = Rcpt[r].order
         \/ \E n \in rows' \ rows, e \in rows :
              G!SameGrant(n, b, c, Ev[e].grant) /\ G!SameGrant(e, b, c, Ev[e].grant)
     ]_vars
=============================================================================
