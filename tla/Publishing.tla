----------------------------- MODULE Publishing -----------------------------
(***************************************************************************)
(* Publishing a Game page: the form of components/publish.rs and the       *)
(* command publish_adp_listing behind it, on several devices of one        *)
(* publisher.  A delegated publication signs a fulfillment authorization   *)
(* (a root) and a listing that names it; nothing is transactional, so the  *)
(* form learns from progress events which listing it is responsible for    *)
(* and a retry replaces that listing.                                      *)
(*                                                                         *)
(* Events are numbered in the order of their signatures, which stands for  *)
(* created_at; a relay keeps the newest listing of a page.                 *)
(***************************************************************************)
EXTENDS Naturals, FiniteSets

CONSTANTS
  Devices, Relays,
  Forms,       \* each is opened once
  DeviceOf,    \* the device a form is opened on
  Pages,       \* bound: d tags that can be minted
  Keys,        \* fulfillment keys of the distribution server
  None,
  MaxEvents,   \* bound: signed roots and listings
  MaxOps,      \* bound: attempts, account switches, exits, key rotations, lost answers
  MayLeave     \* whether a form can be left while it publishes

ASSUME PublishingAssumption ==
  /\ DeviceOf \in [Forms -> Devices]
  /\ None \notin Pages \cup Keys \cup Forms
  /\ MaxEvents \in Nat /\ MaxOps \in Nat
  /\ MayLeave \in BOOLEAN
  /\ IsFiniteSet(Relays)

VARIABLES
  form,     \* the forms, with the PublishedIdentity (event, page) of each
  task,     \* the publish_adp_listing call of each form
  log,      \* the signed events
  size,     \* how many
  relay,    \* newest listing of each page at each relay, 0 for none
  sent,     \* listings some relay has stored
  known,    \* roots some relay has stored
  rows,     \* adp_provisioning of each device: the root recorded for a page
  server,   \* the fulfillment key the distribution server has for a page
  minted,   \* generated page identifiers
  away,     \* devices on which another account is active
  unheard,  \* history: listings sent without their form learning of it
  ops       \* how many of the bounded operations have happened

events == <<log, size>>
net == <<relay, sent, known>>
world == <<server, minted, away, unheard, ops>>
vars == <<form, task, events, net, rows, world>>

Maybe(S) == S \cup {None}
Modes == {"plain", "delegate"}      \* plain: None or Direct

NoEvent == [kind |-> "none", by |-> None, page |-> None, key |-> None, auth |-> 0, over |-> 0]
Root(f, p, k) ==
  [kind |-> "root", by |-> f, page |-> p, key |-> k, auth |-> 0, over |-> 0]
Listing(f, p, a, o) ==
  [kind |-> "listing", by |-> f, page |-> p, key |-> None, auth |-> a, over |-> o]

NoTask == [at |-> "idle", mode |-> "plain", page |-> None,
           over |-> 0, carry |-> 0, root |-> 0, event |-> 0]
Unopened == [at |-> "unopened", event |-> 0, page |-> None, key |-> None, home |-> None,
             published |-> FALSE, outcome |-> "Idle", stale |-> FALSE, last |-> 0]

(* The key of the authorization a listing names. *)
KeyOf(l) == IF log[l].auth = 0 THEN None ELSE log[log[l].auth].key

(* select_replaceable_event over what the relays of V answer. *)
Newest(V, p, l) ==
  /\ \E r \in V : relay[r][p] = l
  /\ \A r \in V : relay[r][p] <= l

At(f, l) == task[f].at = l
Move(f, t) == task' = [task EXCEPT ![f] = t]
Put(f, r) == form' = [form EXCEPT ![f] = r]
Current(f) == DeviceOf[f] \notin away    \* ensure_publish_account_current
Counted == ops < MaxOps /\ ops' = ops + 1
Showing(d) == {f \in Forms : DeviceOf[f] = d /\ form[f].at \in {"open", "publishing"}}

-----------------------------------------------------------------------------
(* The form.                                                               *)

OpenNew(f) ==
  /\ form[f].at = "unopened" /\ Showing(DeviceOf[f]) = {}
  /\ Put(f, [form[f] EXCEPT !.at = "open"])
  /\ UNCHANGED <<task, events, net, rows, world>>

(* The listing comes from a cache: it need not be the newest. *)
OpenEdit(f, l) ==
  /\ form[f].at = "unopened" /\ Showing(DeviceOf[f]) = {}
  /\ Put(f, [form[f] EXCEPT !.at = "open", !.event = l, !.page = log[l].page,
                            !.key = KeyOf(l), !.home = log[l].page])
  /\ UNCHANGED <<task, events, net, rows, world>>

(* What is left of a form: the history the properties need. *)
Closed(f) == [Unopened EXCEPT !.at = "gone", !.key = form[f].key, !.home = form[f].home]

(* The navigation is not blocked while the form publishes; the call in the *)
(* backend goes on.                                                        *)
Leave(f) ==
  /\ form[f].at = "open" \/ (MayLeave /\ form[f].at = "publishing")
  /\ Put(f, Closed(f))
  /\ UNCHANGED <<task, events, net, rows, world>>

(* Mutant: the request takes the identity the form was opened with. *)
BeginAsOpened(f, mode) ==
  /\ form[f].at = "open" /\ Current(f) /\ Counted
  /\ Put(f, [form[f] EXCEPT !.at = "publishing", !.published = FALSE,
                            !.outcome = "Publishing", !.stale = FALSE, !.last = 0])
  /\ Move(f, [NoTask EXCEPT !.at = "check", !.mode = mode, !.page = form[f].home,
                            !.over = IF form[f].home = None THEN 0 ELSE form[f].event])
  /\ UNCHANGED <<events, net, rows, server, minted, away, unheard>>

(* on_submit: the request carries the identity as it is now.  (A form that *)
(* edits can only be submitted by its account.  A new form can by any, and *)
(* then publishes for that one: that is not followed here.)                *)
Begin(f, mode) ==
  /\ form[f].at = "open" /\ Current(f) /\ Counted
  /\ Put(f, [form[f] EXCEPT !.at = "publishing", !.published = FALSE,
                            !.outcome = "Publishing", !.stale = FALSE, !.last = 0])
  /\ Move(f, [NoTask EXCEPT !.at = "check", !.mode = mode,
                            !.page = form[f].page, !.over = form[f].event])
  /\ UNCHANGED <<events, net, rows, server, minted, away, unheard>>

(* The form forgets the account it started with as soon as it changes. *)
SwitchAccount(d) ==
  /\ IF d \in away THEN away' = away \ {d} /\ UNCHANGED ops
                    ELSE away' = away \cup {d} /\ Counted
  /\ form' = [f \in Forms |-> IF DeviceOf[f] = d /\ form[f].at = "publishing"
                              THEN [form[f] EXCEPT !.stale = TRUE] ELSE form[f]]
  /\ UNCHANGED <<task, events, net, rows, server, minted, unheard>>

-----------------------------------------------------------------------------
(* publish_adp_listing.                                                    *)

AfterCheck(t) == IF t.mode = "delegate" THEN "provision"
                 ELSE IF t.over = 0 THEN "sign" ELSE "recheck"

(* A first publication mints the identifier of its page. *)
Mint(f, p) ==
  /\ At(f, "check") /\ task[f].over = 0
  /\ p \notin minted
  /\ minted' = minted \cup {p}
  /\ Move(f, [task[f] EXCEPT !.at = AfterCheck(task[f]), !.page = p])
  /\ UNCHANGED <<form, events, net, rows, server, away, unheard, ops>>

(* An edit replaces exactly the listing it knows; the tags it does not own *)
(* are carried forward.                                                    *)
Check(f, V) ==
  /\ At(f, "check") /\ task[f].over # 0
  /\ Newest(V, task[f].page, task[f].over)
  /\ Move(f, [task[f] EXCEPT !.at = AfterCheck(task[f]), !.carry = log[task[f].over].auth])
  /\ UNCHANGED <<form, events, net, rows, world>>

Sign(e) ==
  /\ size < MaxEvents
  /\ size' = size + 1
  /\ log' = [log EXCEPT ![size + 1] = e]

(* Mutant: a repair takes whatever key the server has now. *)
ProvisionAnyKey(f) ==
  LET t == task[f]  k == server[t.page] IN
  /\ At(f, "provision")
  /\ Sign(Root(f, t.page, k))
  /\ Move(f, [t EXCEPT !.at = "store", !.root = size + 1])
  /\ UNCHANGED <<form, net, rows, world>>

(* resolve_provisioning, or repair_existing_authorization when the form    *)
(* edits a listing that already names a key: the server must still have    *)
(* that key and this device its row.                                       *)
Provision(f) ==
  LET t == task[f]  k == server[t.page]  r == rows[DeviceOf[f]][t.page] IN
  /\ At(f, "provision")
  /\ form[f].key # None => k = form[f].key /\ r # 0 /\ log[r].key = k
  /\ Sign(Root(f, t.page, k))
  /\ Move(f, [t EXCEPT !.at = "store", !.root = size + 1])
  /\ UNCHANGED <<form, net, rows, world>>

(* Mutant: a row that exists is left as it is. *)
StoreOnce(f) ==
  LET t == task[f]  d == DeviceOf[f] IN
  /\ At(f, "store") /\ Current(f)
  /\ rows' = IF rows[d][t.page] = 0 THEN [rows EXCEPT ![d][t.page] = t.root] ELSE rows
  /\ Move(f, [t EXCEPT !.at = "announce"])
  /\ UNCHANGED <<form, events, net, world>>

(* The row is written before its root is published. *)
Store(f) ==
  LET t == task[f] IN
  /\ At(f, "store") /\ Current(f)
  /\ rows' = [rows EXCEPT ![DeviceOf[f]][t.page] = t.root]
  /\ Move(f, [t EXCEPT !.at = "announce"])
  /\ UNCHANGED <<form, events, net, world>>

(* Mutant: the listing follows whether or not a relay took the root. *)
AnnounceUnchecked(f) ==
  LET t == task[f] IN
  /\ At(f, "announce")
  /\ known' \in {known, known \cup {t.root}}
  /\ Move(f, [t EXCEPT !.at = IF t.over = 0 THEN "sign" ELSE "recheck"])
  /\ UNCHANGED <<form, events, relay, sent, rows, world>>

(* publish_event(root) *)
Announce(f) ==
  LET t == task[f] IN
  /\ At(f, "announce")
  /\ known' = known \cup {t.root}
  /\ Move(f, [t EXCEPT !.at = IF t.over = 0 THEN "sign" ELSE "recheck"])
  /\ UNCHANGED <<form, events, relay, sent, rows, world>>

(* Without a single acknowledgement publish_event fails, even if a relay   *)
(* has stored the event.                                                   *)
AnnounceUnheard(f) ==
  /\ At(f, "announce") /\ Counted
  /\ known' = known \cup {task[f].root}
  /\ Move(f, [task[f] EXCEPT !.at = "failed"])
  /\ UNCHANGED <<form, events, relay, sent, rows, server, minted, away, unheard>>

Recheck(f, V) ==
  /\ At(f, "recheck")
  /\ Newest(V, task[f].page, task[f].over)
  /\ Move(f, [task[f] EXCEPT !.at = "sign"])
  /\ UNCHANGED <<form, events, net, rows, world>>

(* Mutant: the authorization tag is owned by the form, as the others are. *)
SignListingFromForm(f) ==
  LET t == task[f] IN
  /\ At(f, "sign") /\ Current(f)
  /\ Sign(Listing(f, t.page, t.root, t.over))
  /\ Move(f, [t EXCEPT !.at = "send", !.event = size + 1])
  /\ Put(f, [form[f] EXCEPT !.last = size + 1])
  /\ UNCHANGED <<net, rows, world>>

(* The new root replaces the authorization; without one the authorization  *)
(* of the replaced listing is preserved, whatever the mode.                *)
SignListing(f) ==
  LET t == task[f] IN
  /\ At(f, "sign") /\ Current(f)
  /\ Sign(Listing(f, t.page, IF t.root # 0 THEN t.root ELSE t.carry, t.over))
  /\ Move(f, [t EXCEPT !.at = "send", !.event = size + 1])
  /\ Put(f, [form[f] EXCEPT !.last = size + 1])
  /\ UNCHANGED <<net, rows, world>>

(* publish_event(listing): the relays of S store it.  The others have a    *)
(* newer listing, refuse it or cannot be reached.                          *)
Stored(e, p, S) ==
  /\ \A r \in S : relay[r][p] < e
  /\ relay' = [r \in Relays |-> IF r \in S THEN [relay[r] EXCEPT ![p] = e] ELSE relay[r]]
  /\ sent' = sent \cup {e}
  /\ UNCHANGED known

(* Every acknowledgement is lost: the call fails. *)
SendUnheard(f, S) ==
  LET t == task[f] IN
  /\ At(f, "send") /\ Counted
  /\ Stored(t.event, t.page, S)
  /\ Move(f, [t EXCEPT !.at = "failed"])
  /\ unheard' = unheard \cup {t.event}
  /\ UNCHANGED <<form, events, rows, server, minted, away>>

(* publish-progress is an event of the whole application: the forms that   *)
(* listen, each while it publishes and its account is active.              *)
Listening(d) == {g \in Forms : /\ DeviceOf[g] = d /\ d \notin away
                               /\ form[g].at = "publishing" /\ ~form[g].stale}

(* Mutant: the coordinate reaches the form with the result only. *)
SendSilent(f, S, H) ==
  LET t == task[f] IN
  /\ At(f, "send")
  /\ Stored(t.event, t.page, S)
  /\ Move(f, [t EXCEPT !.at = "confirm"])
  /\ Put(f, [form[f] EXCEPT !.published = f \in Listening(DeviceOf[f])])
  /\ unheard' = IF f \in Listening(DeviceOf[f]) THEN unheard ELSE unheard \cup {t.event}
  /\ UNCHANGED <<events, rows, server, minted, away, ops>>

(* publish-listing ok and listing-coordinate ok.  The form's own listener  *)
(* hears them, those of other forms on the device may.                     *)
Send(f, S, H) ==
  LET t == task[f]  L == Listening(DeviceOf[f]) IN
  /\ At(f, "send")
  /\ Stored(t.event, t.page, S)
  /\ Move(f, [t EXCEPT !.at = "confirm"])
  /\ H \subseteq L /\ (f \in L => f \in H)
  /\ form' = [g \in Forms |-> IF g \in H
                THEN [form[g] EXCEPT !.event = t.event, !.page = t.page, !.published = TRUE]
                ELSE form[g]]
  /\ unheard' = IF f \in L THEN unheard ELSE unheard \cup {t.event}
  /\ UNCHANGED <<events, rows, server, minted, away, ops>>

(* Two relays show a listing of the page; which one is not compared. *)
Confirm(f, V) ==
  /\ At(f, "confirm")
  /\ Cardinality({r \in V : relay[r][task[f].page] # 0}) >= 2
  /\ Move(f, [task[f] EXCEPT !.at = "upload"])
  /\ UNCHANGED <<form, events, net, rows, world>>

(* What an error, or an answer for an account that is no longer active,    *)
(* leaves on the form.                                                     *)
Unfinished(f) == [form[f] EXCEPT !.at = "open", !.stale = FALSE,
                    !.outcome = IF form[f].published THEN "Partial" ELSE "Failed"]

Answer(f, a) ==
  /\ Move(f, NoTask)
  /\ IF form[f].at = "publishing" THEN Put(f, a) ELSE UNCHANGED form
  /\ UNCHANGED <<events, net, rows, world>>

Finish(f) ==
  /\ At(f, "upload")
  /\ Answer(f, IF form[f].stale \/ ~Current(f) THEN Unfinished(f)
               ELSE [form[f] EXCEPT !.at = "open", !.outcome = "Complete", !.published = TRUE,
                                    !.event = task[f].event, !.page = task[f].page])

(* Mutant: an error is a failure, whatever was published before it. *)
FailAlways(f) ==
  /\ ~At(f, "idle")
  /\ Answer(f, [form[f] EXCEPT !.at = "open", !.outcome = "Failed"])

(* Every step may fail: a timeout, a refusal, a conflict, another account, *)
(* an upload.  What was done before stays done.                            *)
Fail(f) ==
  /\ ~At(f, "idle")
  /\ Answer(f, Unfinished(f))

-----------------------------------------------------------------------------
(* The surroundings.                                                       *)

Exit(d) ==
  /\ Counted
  /\ form' = [f \in Forms |-> IF f \in Showing(d) THEN Closed(f) ELSE form[f]]
  /\ task' = [f \in Forms |-> IF DeviceOf[f] = d THEN NoTask ELSE task[f]]
  /\ UNCHANGED <<events, net, rows, server, minted, away, unheard>>

(* The operator gives the page another key. *)
RotateKey(p, k) ==
  /\ server[p] # k /\ Counted
  /\ server' = [server EXCEPT ![p] = k]
  /\ UNCHANGED <<form, task, events, net, rows, minted, away, unheard>>

Init ==
  /\ form = [f \in Forms |-> Unopened]
  /\ task = [f \in Forms |-> NoTask]
  /\ log = [e \in 1..MaxEvents |-> NoEvent] /\ size = 0
  /\ relay = [r \in Relays |-> [p \in Pages |-> 0]]
  /\ sent = {} /\ known = {} /\ unheard = {} /\ minted = {} /\ away = {}
  /\ ops = 0
  /\ rows = [d \in Devices |-> [p \in Pages |-> 0]]
  /\ server \in [Pages -> Keys]

FormStep(f) ==
  \/ OpenNew(f)
  \/ \E l \in sent : OpenEdit(f, l)
  \/ Leave(f)
  \/ \E mode \in Modes : Begin(f, mode)

TaskStep(f) ==
  \/ \E p \in Pages : Mint(f, p)
  \/ \E V \in SUBSET Relays : Check(f, V) \/ Recheck(f, V) \/ Confirm(f, V)
  \/ Provision(f)
  \/ Store(f)
  \/ Announce(f) \/ AnnounceUnheard(f)
  \/ SignListing(f)
  \/ \E S \in (SUBSET Relays) \ {{}} : SendUnheard(f, S) \/ \E H \in SUBSET Forms : Send(f, S, H)
  \/ Finish(f)
  \/ Fail(f)

Next ==
  \/ \E f \in Forms : FormStep(f) \/ TaskStep(f)
  \/ \E d \in Devices : SwitchAccount(d) \/ Exit(d)
  \/ \E p \in Pages, k \in Keys : RotateKey(p, k)

Spec == Init /\ [][Next]_vars

-----------------------------------------------------------------------------
(* Properties.                                                             *)

Event0 == 0..MaxEvents
Signed(f) == {l \in 1..size : log[l].kind = "listing" /\ log[l].by = f}

EventType == [kind : {"none", "root", "listing"}, by : Maybe(Forms), page : Maybe(Pages),
              key : Maybe(Keys), auth : Event0, over : Event0]
TaskType == [at : {"idle", "check", "provision", "store", "announce", "recheck", "sign",
                   "send", "confirm", "upload", "failed"},
             mode : Modes, page : Maybe(Pages), over : Event0, carry : Event0,
             root : Event0, event : Event0]
FormType == [at : {"unopened", "open", "publishing", "gone"}, event : Event0,
             page : Maybe(Pages), key : Maybe(Keys), home : Maybe(Pages),
             published : BOOLEAN, stale : BOOLEAN, last : Event0,
             outcome : {"Idle", "Publishing", "Complete", "Partial", "Failed"}]

(* The types; a call that works on a page that exists, or is past its      *)
(* first step, has the page.                                               *)
TypeOK ==
  /\ form \in [Forms -> FormType] /\ task \in [Forms -> TaskType]
  /\ log \in [1..MaxEvents -> EventType] /\ size \in Event0
  /\ relay \in [Relays -> [Pages -> Event0]]
  /\ sent \subseteq 1..size /\ known \subseteq 1..size /\ unheard \subseteq 1..size
  /\ rows \in [Devices -> [Pages -> Event0]]
  /\ server \in [Pages -> Keys] /\ minted \subseteq Pages /\ away \subseteq Devices
  /\ ops \in 0..MaxOps
  /\ \A f \in Forms : task[f].over # 0 \/ task[f].at \notin {"idle", "check"}
                        => task[f].page \in Pages

(* A listing names an authorization only if it is one for its page that a  *)
(* relay has stored: whoever fetches the listing can find the root.        *)
ListingNamesPublished ==
  \A l \in 1..size : log[l].auth # 0 =>
    /\ log[l].auth \in known
    /\ log[log[l].auth].kind = "root" /\ log[log[l].auth].page = log[l].page

(* A form that was left while it published: its call goes on, on a device  *)
(* where another form may be open by now.                                  *)
Left(f) == MayLeave /\ form[f].at = "gone"
Beside(f, g) == g # f /\ DeviceOf[g] = DeviceOf[f]

(* Once a relay has a root, the device that signed it has a provisioning   *)
(* row for the page, of that root or a later one, whatever failed or       *)
(* exited since: it can reuse or repair what it has made public.  Only     *)
(* where a form was left while it published the row may be of an older     *)
(* root, and then of the other form.                                       *)
RowKnowsRoot ==
  \A e \in known :
    LET f == log[e].by
        r == rows[DeviceOf[f]][log[e].page]
    IN  r >= e \/ (r # 0 /\ Beside(f, log[r].by) /\ (Left(f) \/ Left(log[r].by)))

(* An edit keeps the authorization of the listing it replaces or puts a    *)
(* newer one, and a form that opened a delegated listing never changes its *)
(* fulfillment key: it keeps another key only with a listing it was told   *)
(* of by a form that was left on its device.                               *)
AuthorizationKept ==
  \A l \in 1..size : log[l].kind = "listing" /\ log[l].over # 0 =>
    LET f == log[l].by
        before == log[l].over
    IN  /\ log[l].auth >= log[before].auth
        /\ form[f].key # None =>
             \/ KeyOf(l) = form[f].key
             \/ log[l].auth = log[before].auth /\ \E g \in Forms : Beside(f, g) /\ Left(g)

(* Page p has a listing of a form that was left on the device of f.        *)
Elsewhere(f, p) ==
  \E n \in 1..size : /\ log[n].kind = "listing" /\ log[n].page = p
                     /\ Beside(f, log[n].by) /\ Left(log[n].by)

(* A form publishes one page: the one it was opened for or the one minted  *)
(* for it.  It puts a second page only when it never learned of the first, *)
(* or was told of a listing by a form that was left on its device.         *)
FormKeepsItsPage ==
  \A f \in Forms : \A l \in Signed(f) \cap sent :
    /\ log[l].over # 0 =>
         \/ log[l].page = form[f].home
         \/ \E m \in Signed(f) : m < l /\ log[m].over = 0 /\ log[m].page = log[l].page
         \/ Elsewhere(f, log[l].page)
    /\ \A m \in Signed(f) \cap sent :
         m < l /\ log[m].page # log[l].page => m \in unheard \/ Elsewhere(f, log[l].page)

(* The relays that have e, a listing of page p, or a later one.            *)
Holding(p, e) == {r \in Relays : relay[r][p] >= e}

(* What the form says of its last attempt, of the listing as the code can  *)
(* know it.  Failed: no listing of the attempt is on a relay, unless its   *)
(* form was never told of it; an authorization may be, which RowKnowsRoot  *)
(* is about.  Complete and Partial: the listing the form knows, or its     *)
(* successor, is on a relay.  Complete: two relays have a listing of the   *)
(* page, and of a first publication this one or a successor; two relays    *)
(* need not have an edit, as its confirmation counts any version.          *)
OutcomeTruthful ==
  \A f \in Forms : form[f].at = "open" =>
    LET e == form[f].event
        p == form[f].page
    IN  /\ form[f].outcome = "Failed" => form[f].last \notin sent \ unheard
        /\ form[f].outcome \in {"Complete", "Partial"} =>
             /\ e \in sent /\ log[e].page = p
             /\ Holding(p, e) # {}
        /\ form[f].outcome = "Complete" =>
             /\ Cardinality(Holding(p, 1)) >= 2
             /\ log[e].over = 0 => Cardinality(Holding(p, e)) >= 2
=============================================================================
