------------------------------ MODULE Checkout ------------------------------
(***************************************************************************)
(* The page of one game with a price (app, ui_v2/views/game_detail.rs):    *)
(* buy, pay, confirm, claim and install, beside the commands behind these  *)
(* buttons.  The page has one operation at a time (`operation') but its    *)
(* calls outlive what it shows: an account switch begun in the settings    *)
(* may finish while the page is open, the page may be left and opened      *)
(* again, and the ownership lookup of both is not an operation.            *)
(*                                                                         *)
(* Of the commands it keeps which account signs, what the server and the   *)
(* wallet answer and whether a credential is stored; how a credential is   *)
(* validated and stored is Acquisition, how a file is installed Install.   *)
(* A preimage stands for the invoice it belongs to.  The game is gated,    *)
(* compatible and has a price in sats and a payment address; what else the *)
(* page looks up before it offers a button (the listing, the device, the   *)
(* library) is taken to have been answered.  Whether the listing names an  *)
(* ADP server is asked only where the code asks: it is bought without.     *)
(***************************************************************************)
EXTENDS Naturals

CONSTANTS
  Accounts,     \* accounts of this device
  None,         \* no account, no invoice
  MaxInvoices,  \* bound: invoices requested
  MaxCalls,     \* bound: calls under way at a time
  Limits        \* bounds: what may happen in one behaviour

Amounts ==
  [visits: Nat, invoices: 0 .. MaxInvoices, switches: Nat, downloads: Nat, discoveries: Nat]

ASSUME CheckoutAssumption ==
  /\ None \notin Accounts /\ None \notin Nat
  /\ MaxInvoices \in Nat /\ MaxCalls \in Nat \ {0}
  /\ Limits \subseteq Amounts

(* Bounds: visits of the page, invoices requested, account switches,       *)
(* downloads, discoveries of campaigns.                                    *)
Limit(nVisits, nInvoices, nSwitches, nDownloads, nDiscoveries) ==
  [visits |-> nVisits, invoices |-> nInvoices, switches |-> nSwitches,
   downloads |-> nDownloads, discoveries |-> nDiscoveries]

Invoices == 1 .. MaxInvoices

Slots == 1 .. MaxCalls

VARIABLES
  active,    \* AuthState: the account the commands sign for
  target,    \* the account being switched to, if any
  shown,     \* auth.npub: the account of the page
  page,      \* the signals of the page
  calls,     \* commands under way
  holders,   \* accounts with a stored credential for this game
  used,      \* the server's replay table: who confirmed each invoice
  paid,      \* invoices that are paid
  left       \* what is left of the bounds

vars == <<active, target, shown, page, calls, holders, used, paid, left>>

device == <<active, target, holders, used, paid>>

Spend(n) ==
  /\ left[n] > 0
  /\ left' = [left EXCEPT ![n] = @ - 1]

(* A call by the page for account a: `as' is the account the command signs *)
(* for, `said' its answer.  A command whose page was left has no `who'.    *)
Call(k, a, x, p) ==
  [kind |-> k, at |-> "sent", who |-> a, as |-> None, inv |-> x, proof |-> p, said |-> "nothing"]

NoCall == Call("none", None, None, None)

Is(i, k) == calls[i].kind = k

(* The page waits for it. *)
Pending(i) == calls[i].who # None

Awaited(i, k) == Is(i, k) /\ Pending(i)

IsAcquisition(i) == Is(i, "confirm") \/ Is(i, "claim")

FirstFree(i) == Is(i, "none") /\ \A j \in 1 .. i - 1 : ~Is(j, "none")

Start(i, c) ==
  /\ FirstFree(i)
  /\ calls' = [calls EXCEPT ![i] = c]

End(i) == calls' = [calls EXCEPT ![i] = NoCall]

Answered(i, s) == [calls EXCEPT ![i] = [@ EXCEPT !.at = "done", !.said = s]]

(* Mutant: paying does not block the other buttons. *)
ReadyWhilePaying == page.op \in {"idle", "paying"}

(* operation_blocks_dispatch, negated. *)
Ready == page.op = "idle"

(* account_response_is_current. *)
IsCurrent(i) == shown = calls[i].who

(***************************************************************************)
(* The account                                                             *)
(***************************************************************************)

(* The settings, which are not this page, begin a switch; is_loading       *)
(* admits one at a time.                                                   *)
Switch(a) ==
  /\ ~page.open
  /\ target = None
  /\ a # shown
  /\ Spend("switches")
  /\ target' = a
  /\ UNCHANGED <<active, shown, page, calls, holders, used, paid>>

(* switch_profile sets the AuthState. *)
Switched ==
  /\ target \notin {None, active}
  /\ active' = target
  /\ UNCHANGED <<target, shown, page, calls, holders, used, paid, left>>

(* Mutant: every switch ends the operation. *)
FollowIdle(i) ==
  /\ target = active
  /\ target' = None /\ shown' = active
  /\ IF page.open
     THEN /\ page' = [page EXCEPT !.owned = FALSE, !.checking = TRUE,
                                  !.attempt = None, !.op = "idle"]
          /\ Start(i, Call("lookup", active, None, None))
     ELSE i = 1 /\ UNCHANGED <<page, calls>>
  /\ UNCHANGED <<active, holders, used, paid, left>>

(* The user interface learns of it.  The page lets go of a download of     *)
(* another account and looks ownership up again; the invoice, its preimage *)
(* and an unconfirmed claim stay.                                          *)
Follow(i) ==
  /\ target = active
  /\ target' = None /\ shown' = active
  /\ IF page.open
     THEN /\ page' = [page EXCEPT !.owned = FALSE, !.checking = TRUE, !.attempt = None,
                        !.op = IF page.attempt \notin {None, active} THEN "idle" ELSE @]
          /\ Start(i, Call("lookup", active, None, None))
     ELSE i = 1 /\ UNCHANGED <<page, calls>>
  /\ UNCHANGED <<active, holders, used, paid, left>>

Closed ==
  [open |-> FALSE, op |-> "idle", owned |-> FALSE, checking |-> FALSE, offer |-> "unknown",
   invoice |-> None, panel |-> FALSE, preimage |-> None, wallet |-> FALSE,
   claim |-> FALSE, attempt |-> None, installed |-> FALSE, server |-> FALSE]

(* The page opens; the game may be installed on this device, and its       *)
(* listing yields the URL of an ADP server or not (adp_server_url).        *)
Open(i) ==
  /\ ~page.open
  /\ Spend("visits")
  /\ \E x, y \in BOOLEAN :
       page' = [Closed EXCEPT !.open = TRUE, !.checking = TRUE, !.installed = x, !.server = y]
  /\ Start(i, Call("lookup", shown, None, None))
  /\ UNCHANGED <<shown, device>>

(* The page is left: its signals go, commands that store something run on. *)
Leave ==
  /\ page.open
  /\ page' = Closed
  /\ calls' = [i \in Slots |->
       IF IsAcquisition(i)
       THEN [calls[i] EXCEPT !.who = None] ELSE NoCall]
  /\ UNCHANGED <<shown, device, left>>

(* Their answer finds no page. *)
Forget(i) ==
  /\ IsAcquisition(i) /\ ~Pending(i)
  /\ calls[i].at = "done"
  /\ End(i)
  /\ UNCHANGED <<shown, page, device, left>>

(* get_listing_ownership: the tables are read for the account asked about. *)
Look(i) ==
  /\ Awaited(i, "lookup")
  /\ calls[i].at = "sent"
  /\ \E s \in {IF calls[i].who \in holders THEN "owned" ELSE "none", "error"} :
       calls' = Answered(i, s)
  /\ UNCHANGED <<shown, page, device, left>>

Looked(i) ==
  /\ Awaited(i, "lookup")
  /\ calls[i].at = "done"
  /\ page' = IF ~IsCurrent(i) THEN page
             ELSE [page EXCEPT !.checking = FALSE,
                     !.owned = IF calls[i].said = "error" THEN @ ELSE calls[i].said = "owned"]
  /\ End(i)
  /\ UNCHANGED <<shown, device, left>>

(***************************************************************************)
(* What the page offers                                                    *)
(***************************************************************************)

(* select_primary_action for a gated, priced, compatible game. *)
Primary ==
  IF ~page.open \/ ~Ready \/ page.checking THEN "wait"
  ELSE IF page.installed THEN "installed"
  ELSE IF page.owned THEN "install"
  ELSE IF page.offer = "unknown" THEN "wait"
  ELSE IF page.offer = "active" THEN "claim" ELSE "buy"

(* The invoice with the wallet and the preimage field. *)
PanelOpen == page.panel /\ ~page.owned

(* Campaign discovery starts, fails or finds an active campaign or none. *)
Discover(o) ==
  /\ page.open
  /\ page.offer # o
  /\ Spend("discoveries")
  /\ page' = [page EXCEPT !.offer = o]
  /\ UNCHANGED <<shown, calls, device>>

(***************************************************************************)
(* Buying                                                                  *)
(***************************************************************************)
Buy(i) ==
  /\ Primary = "buy"
  /\ left.invoices > 0
  /\ page' = [page EXCEPT !.op = "requesting", !.panel = FALSE]
  /\ Start(i, Call("invoice", shown, None, None))
  /\ UNCHANGED <<shown, device, left>>

(* A fresh invoice. *)
NewInvoice == MaxInvoices + 1 - left.invoices

(* request_lnurl_invoice: answered whatever the account is by then. *)
Invoiced(i) ==
  /\ Awaited(i, "invoice")
  /\ Spend("invoices")
  /\ \/ page' = [page EXCEPT !.invoice = NewInvoice, !.panel = TRUE, !.op = "idle"]
     \/ page' = [page EXCEPT !.op = "idle"]
  /\ End(i)
  /\ UNCHANGED <<shown, device>>

ConnectWallet(i) ==
  /\ PanelOpen /\ Ready
  /\ page' = [page EXCEPT !.op = "connecting"]
  /\ Start(i, Call("connect", shown, None, None))
  /\ UNCHANGED <<shown, device, left>>

Connected(i) ==
  /\ Awaited(i, "connect")
  /\ \E ok \in BOOLEAN : page' = [page EXCEPT !.op = "idle", !.wallet = page.wallet \/ ok]
  /\ End(i)
  /\ UNCHANGED <<shown, device, left>>

Pay(i) ==
  /\ PanelOpen /\ Ready /\ page.wallet
  /\ page' = [page EXCEPT !.op = "paying"]
  /\ Start(i, Call("pay", shown, page.invoice, None))
  /\ UNCHANGED <<shown, device, left>>

(* The wallet pays what it was asked to; the answer may come too late.  A  *)
(* buyer may pay the invoice on the page with any other wallet.            *)
Settle(x) ==
  /\ x \notin paid
  /\ \/ \E i \in Slots : Awaited(i, "pay") /\ calls[i].inv = x
     \/ PanelOpen /\ page.invoice = x
  /\ paid' = paid \cup {x}
  /\ UNCHANGED <<active, target, shown, page, calls, holders, used, left>>

(* confirm_with_preimage: it reads the account and the invoice of now.  It *)
(* returns early, and leaves the operation, when the listing yields no     *)
(* server; that there is neither account nor invoice cannot happen here.   *)
Confirmation(p) == Call("confirm", shown, page.invoice, p)

(* pay_nwc_invoice answers: an error (a time-out of 60 seconds among them) *)
(* or the preimage, which goes on to the confirmation unless the account   *)
(* is another one by now.  The early return of the confirmation leaves the *)
(* page paying, with the preimage in its field.                            *)
Paid(i) ==
  /\ Awaited(i, "pay")
  /\ \/ /\ page' = [page EXCEPT !.op = "idle"]
        /\ End(i)
     \/ /\ calls[i].inv \in paid
        /\ IsCurrent(i)
        /\ \/ /\ page.server
              /\ page' = [page EXCEPT !.op = "confirming", !.preimage = calls[i].inv]
              /\ calls' = [calls EXCEPT ![i] = Confirmation(calls[i].inv)]
           \/ /\ ~page.server
              /\ page' = [page EXCEPT !.preimage = calls[i].inv]
              /\ End(i)
  /\ UNCHANGED <<shown, device, left>>

(* The buyer pastes a preimage: of an invoice that was paid. *)
Paste(x) ==
  /\ PanelOpen
  /\ x \in paid
  /\ page.preimage # x
  /\ page' = [page EXCEPT !.preimage = x]
  /\ UNCHANGED <<shown, calls, device, left>>

(* Without a server the button only shows an error. *)
ConfirmManual(i) ==
  /\ PanelOpen /\ Ready
  /\ page.preimage # None
  /\ page.server
  /\ page' = [page EXCEPT !.op = "confirming"]
  /\ Start(i, Confirmation(page.preimage))
  /\ UNCHANGED <<shown, device, left>>

(***************************************************************************)
(* confirm_purchase and claim_entitlement                                  *)
(***************************************************************************)
(* The command takes the signer of the moment it runs. *)
TakeSigner(i) ==
  /\ IsAcquisition(i)
  /\ calls[i].at = "sent"
  /\ calls' = [calls EXCEPT ![i] = [@ EXCEPT !.at = "asked", !.as = active]]
  /\ UNCHANGED <<shown, page, device, left>>

(* The server takes a proof once: 402 for a preimage of another invoice,   *)
(* 409 for a proof that was used.  Its answer may be lost.                 *)
Serve(i) ==
  /\ Is(i, "confirm")
  /\ calls[i].at = "asked"
  /\ LET x == calls[i].inv
     IN  IF calls[i].proof # x
         THEN calls' = Answered(i, "402") /\ used' = used
         ELSE IF used[x] # None
         THEN calls' = Answered(i, "409") /\ used' = used
         ELSE /\ used' = [used EXCEPT ![x] = calls[i].as]
              /\ calls' \in {[calls EXCEPT ![i].at = "served"], Answered(i, "error")}
  /\ UNCHANGED <<active, target, shown, page, holders, paid, left>>

Grant(i) ==
  /\ Is(i, "claim")
  /\ calls[i].at = "asked"
  /\ calls' = [calls EXCEPT ![i].at = "served"]
  /\ UNCHANGED <<shown, page, device, left>>

(* The account is still the one that signed and the credential is stored;  *)
(* the token is stored after it, or not.  (The check and the write are two *)
(* steps of the code with nothing between them that these modules tell     *)
(* apart: see Acquisition for the two.)                                    *)
Store(i) ==
  /\ IsAcquisition(i)
  /\ calls[i].at = "served"
  /\ active = calls[i].as
  /\ holders' = holders \cup {calls[i].as}
  /\ calls' \in {Answered(i, "ok"), Answered(i, "error")}
  /\ UNCHANGED <<active, target, shown, page, used, paid, left>>

(* Any await before that fails. *)
CommandFails(i) ==
  /\ IsAcquisition(i)
  /\ calls[i].at # "done"
  /\ calls' = Answered(i, "error")
  /\ UNCHANGED <<shown, page, device, left>>

(* Mutant: the answer is shown whatever the account is. *)
ConfirmedAny(i) ==
  /\ Awaited(i, "confirm")
  /\ calls[i].at = "done"
  /\ page' = [page EXCEPT !.op = "idle", !.owned = @ \/ calls[i].said \in {"ok", "409"}]
  /\ End(i)
  /\ UNCHANGED <<shown, device, left>>

(* 409 is taken for "you own it already". *)
Confirmed(i) ==
  /\ Awaited(i, "confirm")
  /\ calls[i].at = "done"
  /\ page' = [page EXCEPT !.op = "idle",
                !.owned = @ \/ (IsCurrent(i) /\ calls[i].said \in {"ok", "409"})]
  /\ End(i)
  /\ UNCHANGED <<shown, device, left>>

(***************************************************************************)
(* Claiming                                                                *)
(***************************************************************************)
AskClaim ==
  /\ Primary = "claim"
  /\ ~page.claim
  /\ page' = [page EXCEPT !.claim = TRUE]
  /\ UNCHANGED <<shown, calls, device, left>>

CancelClaim ==
  /\ page.claim
  /\ page' = [page EXCEPT !.claim = FALSE]
  /\ UNCHANGED <<shown, calls, device, left>>

(* Without a server the claim stays asked for, with an error. *)
Claim(i) ==
  /\ page.claim /\ Ready
  /\ page.server
  /\ page' = [page EXCEPT !.op = "claiming", !.claim = FALSE]
  /\ Start(i, Call("claim", shown, None, None))
  /\ UNCHANGED <<shown, device, left>>

Claimed(i) ==
  /\ Awaited(i, "claim")
  /\ calls[i].at = "done"
  /\ page' = [page EXCEPT !.op = "idle",
                !.owned = @ \/ (IsCurrent(i) /\ calls[i].said = "ok")]
  /\ End(i)
  /\ UNCHANGED <<shown, device, left>>

(***************************************************************************)
(* Installing                                                              *)
(***************************************************************************)
Download(i) ==
  /\ Primary = "install"
  /\ Spend("downloads")
  /\ page' = [page EXCEPT !.op = "installing", !.attempt = shown]
  /\ Start(i, Call("install", shown, None, None))
  /\ UNCHANGED <<shown, device>>

(* An answer ends the attempt when its account is shown and an attempt is  *)
(* active: which attempt that is, it does not ask.                         *)
Downloaded(i) ==
  /\ Awaited(i, "install")
  /\ \E ok \in BOOLEAN :
       page' = LET p == [page EXCEPT !.installed = @ \/ ok]
               IN  IF IsCurrent(i) /\ page.attempt # None
                   THEN [p EXCEPT !.op = "idle", !.attempt = None]
                   ELSE p
  /\ End(i)
  /\ UNCHANGED <<shown, device, left>>

-----------------------------------------------------------------------------
Init ==
  /\ active \in Accounts
  /\ shown = active
  /\ target = None
  /\ page = Closed
  /\ calls = [i \in Slots |-> NoCall]
  /\ holders \in SUBSET Accounts
  /\ used = [x \in Invoices |-> None]
  /\ paid = {}
  /\ left \in Limits

Next ==
  \/ \E a \in Accounts : Switch(a)
  \/ Switched
  \/ Leave
  \/ \E o \in {"unknown", "none", "active"} : Discover(o)
  \/ \E x \in Invoices : Settle(x) \/ Paste(x)
  \/ AskClaim
  \/ CancelClaim
  \/ \E i \in Slots :
       \/ Open(i) \/ Forget(i)
       \/ Follow(i) \/ Look(i) \/ Looked(i)
       \/ Buy(i) \/ Invoiced(i)
       \/ ConnectWallet(i) \/ Connected(i)
       \/ Pay(i) \/ Paid(i)
       \/ ConfirmManual(i)
       \/ TakeSigner(i) \/ Serve(i) \/ Grant(i) \/ Store(i) \/ CommandFails(i)
       \/ Confirmed(i)
       \/ Claim(i) \/ Claimed(i)
       \/ Download(i) \/ Downloaded(i)

Spec == Init /\ [][Next]_vars

-----------------------------------------------------------------------------
(***************************************************************************)
(* Properties                                                              *)
(***************************************************************************)

Kinds == {"none", "lookup", "install", "invoice", "connect", "pay", "confirm", "claim"}

Ops == {"idle", "requesting", "connecting", "paying", "confirming", "claiming", "installing"}

Says == {"nothing", "ok", "402", "409", "error", "owned", "none"}

Pages ==
  [open: BOOLEAN, op: Ops, owned: BOOLEAN, checking: BOOLEAN,
   offer: {"unknown", "none", "active"}, invoice: Invoices \cup {None}, panel: BOOLEAN,
   preimage: Invoices \cup {None}, wallet: BOOLEAN, claim: BOOLEAN,
   attempt: Accounts \cup {None}, installed: BOOLEAN, server: BOOLEAN]

Calls ==
  [kind: Kinds, at: {"sent", "asked", "served", "done"}, who: Accounts \cup {None},
   as: Accounts \cup {None}, inv: Invoices \cup {None}, proof: Invoices \cup {None},
   said: Says]

(* Every signal of the page and every call is well formed. *)
TypeOK ==
  /\ active \in Accounts /\ shown \in Accounts
  /\ target \in Accounts \cup {None}
  /\ page \in Pages
  /\ calls \in [Slots -> Calls]
  /\ holders \subseteq Accounts
  /\ used \in [Invoices -> Accounts \cup {None}]
  /\ paid \subseteq Invoices
  /\ left \in Amounts

(* The calls the page waits for as its operation, and which one each is. *)
Operations ==
  {<<"invoice", "requesting">>, <<"connect", "connecting">>, <<"pay", "paying">>,
   <<"confirm", "confirming">>, <<"claim", "claiming">>}

Foreground(i) == Pending(i) /\ calls[i].kind \in {"invoice", "connect", "pay", "confirm", "claim"}

(* The wallet paid for a listing without an ADP server: no confirmation    *)
(* follows and nothing ends the payment on the page.                       *)
Stranded == page.op = "paying" /\ ~page.server /\ page.invoice \in paid

(* The page is busy only while a call is under way that will end it, so    *)
(* its buttons come back, except after a payment for a listing without an  *)
(* ADP server, where they do not before the page is left; and a payment, a *)
(* confirmation or a claim is never under way beside another one or behind *)
(* buttons that work: no switch and no late answer of a download releases  *)
(* it.                                                                     *)
OperationAwaited ==
  /\ \/ page.op \in {"idle", "installing"}
     \/ \E i \in Slots : Foreground(i)
     \/ Stranded
  /\ \A i \in Slots : Foreground(i) => <<calls[i].kind, page.op>> \in Operations
  /\ \A i, j \in Slots : Foreground(i) /\ Foreground(j) => i = j
  /\ page.op = "installing" =>
       /\ page.attempt = shown
       /\ \E i \in Slots : Awaited(i, "install") /\ calls[i].who = shown

(* The preimage the wallet returned is presented with the invoice that was *)
(* paid and by the account that paid, although the page reads both again   *)
(* after the payment.                                                      *)
PaidInvoiceConfirmed ==
  [][\A i \in Slots :
       Awaited(i, "pay") /\ calls'[i].kind = "confirm" =>
         calls'[i].inv = calls[i].inv /\ calls'[i].who = calls[i].who]_vars

(* The page says that permanent access is recorded for the active account  *)
(* only when it is: unless the server refused a proof as used, or the      *)
(* command signed for another account than the page had shown.             *)
OwnedIsRecorded ==
  [][~page.owned /\ page'.owned =>
       \/ shown \in holders
       \/ \E i \in Slots :
            /\ IsAcquisition(i) /\ calls'[i].kind = "none"
            /\ calls[i].said = "409" \/ calls[i].as # calls[i].who]_vars
=============================================================================
