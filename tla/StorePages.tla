----------------------------- MODULE StorePages -----------------------------
(***************************************************************************)
(* Store pages.  A page and its game listings are separate replaceable     *)
(* events which must name each other: the page lists the games, and each   *)
(* listing carries a pointer to the page.  The editor publishes a page and *)
(* then replaces the listings one by one, without a transaction, and       *)
(* retries what is missing; a buyer is shown a page only if listing and    *)
(* page agree.  Every read merges what some relays answer with a local     *)
(* cache.                                                                  *)
(*                                                                         *)
(* Events are numbered in the order of their signatures, which stands for  *)
(* created_at.  Version 0 of a listing is its first publication, without   *)
(* a pointer, on every relay; version 0 of a page is no page.              *)
(***************************************************************************)
EXTENDS Naturals, FiniteSets

CONSTANTS
  Devices, Relays,
  Editors,     \* StorePageEditorView, each opened once
  DeviceOf,    \* the device an editor is opened on
  GameOf,      \* the listing it is opened for
  Viewers,     \* devices on which games are viewed
  Games,       \* listings
  Pages,       \* presentation identifiers
  None,
  Before,      \* the versions earlier editors have put on every relay
  MaxBefore,   \* how many
  MaxEvents,   \* bound: signed versions
  MaxOps       \* bound: retries, game edits, views, exits, lost answers

Subjects == Games \cup Pages

Maybe(S) == S \cup {None}
NoEvent == [of |-> None, ptr |-> None, links |-> {}, by |-> None]
EventType == [of : Maybe(Subjects), ptr : Maybe(Pages), links : SUBSET Games, by : Maybe(Editors)]

(* Earlier editors followed the protocol, too: page first, then pointers.  *)
ASSUME StorePagesAssumption ==
  /\ DeviceOf \in [Editors -> Devices] /\ GameOf \in [Editors -> Games]
  /\ Viewers \subseteq Devices
  /\ IsFiniteSet(Relays) /\ Games \cap Pages = {}
  /\ None \notin Nat \cup Games \cup Pages \cup Editors
  /\ MaxEvents \in Nat /\ MaxOps \in Nat
  /\ MaxBefore \in 0..MaxEvents /\ Before \in [1..MaxBefore -> EventType]
  /\ \A n \in 1..MaxBefore :
       /\ Before[n].of \in Subjects /\ Before[n].by = None
       /\ Before[n].ptr # None => \E q \in 1..(n - 1) :
            Before[q].of = Before[n].ptr /\ Before[n].of \in Before[q].links

VARIABLES
  edit,      \* the editors: draft, association rows, incomplete publication
  task,      \* the publish or retry command each editor waits for
  log,       \* the signed versions
  size,      \* how many
  relay,     \* newest version of each subject at each relay
  cache,     \* store_pages and store_page_listing_events of each device
  view,      \* the enrichment request each device waits for
  shown,     \* the versions a device shows for a game
  sent,      \* history: versions some relay has stored
  unheard,   \* history: versions sent without their editor learning of it
  forgot,    \* history: known replacements which a failed retry dropped
  ops        \* how many of the bounded operations have happened

events == <<log, size>>
buyers == <<view, shown>>
net == <<relay, sent>>
history == <<unheard, forgot>>
vars == <<edit, task, events, net, cache, buyers, history, ops>>

Ptr(n) == IF n = 0 THEN None ELSE log[n].ptr
Links(n) == IF n = 0 THEN {} ELSE log[n].links

(* PublishStorePageResponse. *)
NoResponse == [page |-> 0, confirmed |-> FALSE,
               out |-> [g \in Games |-> "none"], id |-> [g \in Games |-> 0]]
NoTask == [at |-> "idle", todo |-> {}, pub |-> [g \in Games |-> 0],
           game |-> None, version |-> 0, resp |-> NoResponse]
Unopened == [at |-> "unopened", page |-> None, loaded |-> 0, rows |-> {}, unlink |-> {},
             expect |-> [g \in Games |-> 0], resp |-> NoResponse,
             held |-> [g \in Games |-> None]]

(* View requests and what is shown. *)
NoView == [game |-> None, listing |-> 0, known |-> 0]
Nothing == [listing |-> 0, page |-> 0]

At(e, l) == task[e].at = l
Move(e, t) == task' = [task EXCEPT ![e] = t]
Put(e, r) == edit' = [edit EXCEPT ![e] = r]
Counted == ops < MaxOps /\ ops' = ops + 1
Dev(e) == DeviceOf[e]

(* is_replaceable_event_newer over the answers of the relays of V and the  *)
(* cached version: fetch_current_listing, fetch_current_store_page.        *)
Answers(d, s, V) == {relay[r][s] : r \in V} \cup {cache[d][s]}

Current(d, s, V) == CHOOSE n \in Answers(d, s, V) : \A m \in Answers(d, s, V) : m <= n

(* A page that is cached needs live evidence. *)
PageLive(d, p, V) == cache[d][p] # 0 => \E r \in V : relay[r][p] # 0

(* upsert_listing_event of what is fetched; upsert_valid.                  *)
Remember(d, S, V) ==
  cache' = [cache EXCEPT ![d] = [s \in Subjects |-> IF s \in S THEN Current(d, s, V) ELSE cache[d][s]]]
Newer(d, s, n) == [cache EXCEPT ![d][s] = IF n > cache[d][s] THEN n ELSE cache[d][s]]

Sign(x) ==
  /\ size < MaxEvents
  /\ size' = size + 1
  /\ log' = [log EXCEPT ![size + 1] = x]

(* send_event: the relays of S store the version.  The others have a newer *)
(* one, refuse it or cannot be reached.                                    *)
Stored(s, n, S) ==
  /\ \A r \in S : relay[r][s] < n
  /\ relay' = [r \in Relays |-> IF r \in S THEN [relay[r] EXCEPT ![s] = n] ELSE relay[r]]
  /\ sent' = sent \cup {n}

(* confirm_exact_event: two relays show this very version as the newest.   *)
Confirmed(s, n, V) == Cardinality({r \in V : relay[r][s] = n}) >= 2

-----------------------------------------------------------------------------
(* The editor.                                                             *)

(* load_publisher_store_page_editor with a page: the one the listing       *)
(* points to or one that is asked for.  The games of the page become rows. *)
OpenPage(e, p, V) ==
  LET d == Dev(e)  q == Current(d, p, V)  rows == Links(q) \cup {GameOf[e]} IN
  /\ edit[e].at = "unopened" /\ V # {}
  /\ PageLive(d, p, V) /\ q # 0
  /\ Put(e, [edit[e] EXCEPT !.at = "open", !.page = p, !.loaded = q, !.rows = rows,
                            !.expect = [g \in Games |-> IF g \in rows THEN Current(d, g, V) ELSE 0]])
  /\ Remember(d, rows, V)
  /\ UNCHANGED <<task, events, net, buyers, history, ops>>

(* A listing without a pointer starts a new page; so does the editor when  *)
(* the page cannot be loaded (seed_new_draft_association).                 *)
OpenNew(e, p, V) ==
  LET d == Dev(e)  g == GameOf[e] IN
  /\ edit[e].at = "unopened" /\ V # {}
  /\ Put(e, [edit[e] EXCEPT !.at = "open", !.page = p, !.rows = {g},
                            !.expect[g] = Current(d, g, V)])
  /\ Remember(d, {g}, V)
  /\ UNCHANGED <<task, events, net, buyers, history, ops>>

(* publish: each row is a link or an unlink, and the page lists the links. *)
Publish(e, U) ==
  /\ edit[e].at = "open"
  /\ U \subseteq edit[e].rows /\ U # edit[e].rows
  /\ Put(e, [edit[e] EXCEPT !.at = "publishing", !.unlink = U])
  /\ Move(e, [NoTask EXCEPT !.at = "check"])
  /\ UNCHANGED <<events, net, cache, buyers, history, ops>>

(* retryable_mutations of the incomplete response: what was published is   *)
(* only to be confirmed.                                                   *)
(* Mutant: what was published is taken to be done. *)
PendingFailed(r) == {g \in Games : r.out[g] = "failed"}

Pending(r) == {g \in Games : r.out[g] \in {"failed", "unconfirmed"}}

(* Mutant: the retry treats every row as not yet published. *)
PublishedNone(r) == [g \in Games |-> 0]

Published(r) == [g \in Games |-> IF r.out[g] = "unconfirmed" THEN r.id[g] ELSE 0]

Retry(e) ==
  LET r == edit[e].resp IN
  /\ edit[e].at = "partial" /\ Counted
  /\ Put(e, [edit[e] EXCEPT !.at = "retrying"])
  /\ Move(e, [NoTask EXCEPT !.at = "retrycheck", !.todo = Pending(r),
                            !.pub = Published(r),
                            !.resp.page = r.page])
  /\ UNCHANGED <<events, net, cache, buyers, history>>

-----------------------------------------------------------------------------
(* publish_store_page.                                                     *)

(* Mutant: the page keeps the games it was loaded with. *)
ListedAsLoaded(e) == Links(edit[e].loaded)

(* The games the new page lists: its link rows. *)
Listed(e) == edit[e].rows \ edit[e].unlink

(* Page and listings are the versions the editor has loaded; a game that   *)
(* leaves the page and points to it needs an unlink.                       *)
AsLoaded(e, V) ==
  LET x == edit[e]  d == Dev(e) IN
  /\ V # {} /\ PageLive(d, x.page, V)
  /\ Current(d, x.page, V) = x.loaded
  /\ \A g \in x.rows : Current(d, g, V) = x.expect[g]
  /\ \A g \in Links(x.loaded) \ Listed(e) :
       Ptr(Current(d, g, V)) = x.page => g \in x.unlink

(* preflight_publish and the second check, which is the same; the page is  *)
(* dated before the signer is asked.                                       *)
SignPage(e, V) ==
  LET x == edit[e] IN
  /\ At(e, "check")
  /\ AsLoaded(e, V)
  /\ Sign([of |-> x.page, ptr |-> None, links |-> Listed(e), by |-> e])
  /\ Move(e, [task[e] EXCEPT !.at = "send", !.todo = x.rows, !.resp.page = size + 1])
  /\ Remember(Dev(e), x.rows \cup Links(x.loaded), V)
  /\ UNCHANGED <<edit, net, buyers, history, ops>>

SendPage(e, S) ==
  /\ At(e, "send") /\ S # {}
  /\ Stored(edit[e].page, task[e].resp.page, S)
  /\ Move(e, [task[e] EXCEPT !.at = "confirm"])
  /\ UNCHANGED <<edit, events, cache, buyers, history, ops>>

(* No relay acknowledges although one has stored the event: an error. *)
SendPageUnheard(e, S) ==
  /\ At(e, "send") /\ S # {} /\ Counted
  /\ Stored(edit[e].page, task[e].resp.page, S)
  /\ unheard' = unheard \cup {task[e].resp.page}
  /\ Move(e, NoTask)
  /\ Put(e, [edit[e] EXCEPT !.at = "open"])
  /\ UNCHANGED <<events, cache, buyers, forgot>>

(* retry_store_page_pointer_sync: the page must still be the newest. *)
RetryCheck(e, V) ==
  LET p == edit[e].page  d == Dev(e) IN
  /\ At(e, "retrycheck")
  /\ PageLive(d, p, V) /\ Current(d, p, V) = task[e].resp.page
  /\ Move(e, [task[e] EXCEPT !.at = "confirm"])
  /\ UNCHANGED <<edit, events, net, cache, buyers, history, ops>>

(* Only a confirmed page is cached; a cache that cannot be written counts   *)
(* against completion as a missing confirmation does.                      *)
ConfirmPage(e, V) ==
  LET p == edit[e].page  n == task[e].resp.page  ok == Confirmed(p, n, V) IN
  /\ At(e, "confirm")
  /\ Move(e, [task[e] EXCEPT !.at = "next", !.resp.confirmed = ok])
  /\ cache' = IF ok THEN Newer(Dev(e), p, n) ELSE cache
  /\ UNCHANGED <<edit, events, net, buyers, history, ops>>

(* Every step before that may fail: another account, another version, a    *)
(* signer that refuses, no relay.  An error leaves no response; what the   *)
(* checks have fetched stays cached.                                       *)
Fail(e, V) ==
  /\ task[e].at \in {"check", "send", "retrycheck"}
  /\ Put(e, [edit[e] EXCEPT !.at = IF edit[e].at = "publishing" THEN "open" ELSE "partial"])
  /\ Move(e, NoTask)
  /\ IF At(e, "check") THEN Remember(Dev(e), edit[e].rows, V) ELSE cache' = cache
  /\ UNCHANGED <<events, net, buyers, history, ops>>

-----------------------------------------------------------------------------
(* publish_pointer_updates: the rows in turn, each on its own.             *)

Settled(e, g, out, n) ==
  [task[e] EXCEPT !.at = "next", !.todo = @ \ {g}, !.game = None, !.version = 0,
                  !.resp = [@ EXCEPT !.out[g] = out, !.id[g] = n]]

(* Does version n of a game agree with what the row asks for? *)
Agrees(e, g, n) == Ptr(n) = edit[e].page <=> g \notin edit[e].unlink

(* A replacement that is known is only to be confirmed, and so is a        *)
(* listing without the pointer that is to go.  Otherwise the listing must  *)
(* be the version the editor has loaded.                                   *)
FetchPointer(e, g, V) ==
  LET d == Dev(e)  n == Current(d, g, V)  t == task[e]
      known == t.pub[g] # 0
      asKnown == /\ PageLive(d, edit[e].page, V) /\ Current(d, edit[e].page, V) = t.resp.page
                 /\ n = t.pub[g] /\ Agrees(e, g, n)
      asLoaded == n = edit[e].expect[g] IN
  /\ At(e, "next") /\ g \in t.todo /\ V # {}
  /\ Remember(d, {g}, V)
  /\ \/ /\ (known /\ asKnown) \/ (~known /\ asLoaded /\ g \in edit[e].unlink /\ Agrees(e, g, n))
        /\ Move(e, [t EXCEPT !.at = "confirmptr", !.game = g, !.version = n])
     \/ /\ ~known /\ asLoaded /\ ~(g \in edit[e].unlink /\ Agrees(e, g, n))
        /\ Move(e, [t EXCEPT !.at = "sign", !.game = g, !.version = n])
     \/ /\ ~(known /\ asKnown) /\ ~(~known /\ asLoaded)
        /\ Move(e, Settled(e, g, "failed", 0))
  /\ UNCHANGED <<edit, events, net, buyers, history, ops>>

(* ensure_store_page_current, then build_listing_store_page_replacement: at *)
(* most one pointer remains.                                               *)
SignPointer(e, V) ==
  LET x == edit[e]  g == task[e].game  d == Dev(e) IN
  /\ At(e, "sign")
  /\ PageLive(d, x.page, V) /\ Current(d, x.page, V) = task[e].resp.page
  /\ Sign([of |-> g, ptr |-> IF g \in x.unlink THEN None ELSE x.page,
           links |-> {}, by |-> e])
  /\ Move(e, [task[e] EXCEPT !.at = "sendptr", !.version = size + 1])
  /\ UNCHANGED <<edit, net, cache, buyers, history, ops>>

SendPointer(e, S) ==
  /\ At(e, "sendptr") /\ S # {}
  /\ Stored(task[e].game, task[e].version, S)
  /\ Move(e, [task[e] EXCEPT !.at = "confirmptr"])
  /\ UNCHANGED <<edit, events, cache, buyers, history, ops>>

SendPointerUnheard(e, S) ==
  /\ At(e, "sendptr") /\ S # {} /\ Counted
  /\ Stored(task[e].game, task[e].version, S)
  /\ unheard' = unheard \cup {task[e].version}
  /\ Move(e, Settled(e, task[e].game, "failed", 0))
  /\ UNCHANGED <<edit, events, cache, buyers, forgot>>

ConfirmPointer(e, V) ==
  LET g == task[e].game  n == task[e].version IN
  /\ At(e, "confirmptr")
  /\ Move(e, Settled(e, g, IF Confirmed(g, n, V) THEN "confirmed" ELSE "unconfirmed", n))
  /\ UNCHANGED <<edit, events, net, cache, buyers, history, ops>>

(* Any step of an update may fail, and the next row follows. *)
FailPointer(e, g) ==
  /\ \/ At(e, "next") /\ g \in task[e].todo
     \/ task[e].at \in {"sign", "sendptr"} /\ g = task[e].game
  /\ Move(e, Settled(e, g, "failed", 0))
  /\ UNCHANGED <<edit, events, net, cache, buyers, history, ops>>

(* complete, retry_scope_complete: the rows of this call. *)
Complete(e) ==
  LET r == task[e].resp IN r.confirmed /\ \A g \in Games : r.out[g] \in {"none", "confirmed"}

(* The response.  An answer for an account that is no longer active is     *)
(* kept as incomplete (save_recovery).                                     *)
Answer(e, fresh) ==
  LET r == task[e].resp IN
  /\ At(e, "next") /\ task[e].todo = {}
  /\ Put(e, [edit[e] EXCEPT
       !.at = IF fresh /\ Complete(e) THEN "complete" ELSE "partial",
       !.resp = r,
       !.held = [g \in Games |-> IF r.out[g] = "confirmed" THEN r.id[g] ELSE edit[e].held[g]]])
  /\ forgot' = forgot \cup {task[e].pub[g] : g \in {h \in Games : r.out[h] = "failed"}}
  /\ Move(e, NoTask)
  /\ UNCHANGED <<events, net, cache, buyers, unheard, ops>>

-----------------------------------------------------------------------------
(* The surroundings and the buyers.                                        *)

(* The game form replaces the newest listing it sees and keeps the pointer *)
(* (module Publishing).                                                    *)
EditGame(g, V, S) ==
  /\ V # {} /\ S # {} /\ Counted
  /\ \E r \in V :
       /\ \A v \in V : relay[v][g] <= relay[r][g]
       /\ Sign([of |-> g, ptr |-> Ptr(relay[r][g]), links |-> {}, by |-> None])
  /\ Stored(g, size + 1, S)
  /\ UNCHANGED <<edit, task, cache, buyers, history>>

(* Recovery state is in memory only. *)
Exit(d) ==
  /\ Counted
  /\ edit' = [e \in Editors |-> IF Dev(e) = d /\ edit[e].at # "unopened"
                                THEN [Unopened EXCEPT !.at = "gone"] ELSE edit[e]]
  /\ task' = [e \in Editors |-> IF Dev(e) = d THEN NoTask ELSE task[e]]
  /\ view' = [view EXCEPT ![d] = NoView]
  /\ shown' = [shown EXCEPT ![d] = [g \in Games |-> Nothing]]
  /\ UNCHANGED <<events, net, cache, history>>

(* enrich, enrich_detail: the listing that is displayed must be the newest *)
(* that is known; the cached page counts if the two name each other.       *)
Reciprocal(g, n, q) == Ptr(n) # None /\ log[q].of = Ptr(n) /\ g \in Links(q)

StartView(d, g, n, V) ==
  /\ d \in Viewers /\ view[d].game = None /\ Counted
  /\ n \in {relay[r][g] : r \in V} \cup {cache[d][g]}
  /\ \A r \in V : relay[r][g] <= n
  /\ cache' = Newer(d, g, n)
  /\ shown' = IF shown[d][g].listing = n THEN shown
              ELSE [shown EXCEPT ![d][g] = [listing |-> n, page |-> 0]]
  /\ view' = IF Ptr(n) = None THEN view
             ELSE [view EXCEPT ![d] = [game |-> g, listing |-> n, known |-> cache[d][Ptr(n)]]]
  /\ UNCHANGED <<edit, task, events, net, history>>

(* Mutant: the cached page is for display only and does not compete. *)
OfferedNever(d) == {}

(* The page the view has read from the cache, if it is reciprocal. *)
Offered(d) ==
  LET v == view[d] IN
  IF v.known # 0 /\ Reciprocal(v.game, v.listing, v.known) THEN {v.known} ELSE {}

(* The newest of what relays answer and of the offered page is stored and  *)
(* is shown if it is reciprocal.  No candidate at all is "unavailable" or, *)
(* if every relay has answered, "not found".                               *)
EndView(d, V) ==
  LET v == view[d]  g == v.game  p == Ptr(v.listing)
      pages == {n \in {relay[r][p] : r \in V} : n # 0} \cup Offered(d) IN
  /\ g # None
  /\ IF pages = {}
     THEN /\ cache' = cache
          /\ shown' \in {shown, [shown EXCEPT ![d][g].page = 0]}
     ELSE \E q \in pages :
       /\ \A m \in pages : m <= q
       /\ cache' = Newer(d, p, q)
       /\ shown' = [shown EXCEPT ![d][g] =
            [listing |-> v.listing, page |-> IF Reciprocal(g, v.listing, q) THEN q ELSE 0]]
  /\ view' = [view EXCEPT ![d] = NoView]
  /\ UNCHANGED <<edit, task, events, net, history, ops>>

Newest(s) ==
  CHOOSE n \in 0..MaxBefore :
    /\ n # 0 => Before[n].of = s
    /\ \A m \in 1..MaxBefore : Before[m].of = s => m <= n

Init ==
  /\ edit = [e \in Editors |-> Unopened] /\ task = [e \in Editors |-> NoTask]
  /\ log = [n \in 1..MaxEvents |-> IF n <= MaxBefore THEN Before[n] ELSE NoEvent]
  /\ size = MaxBefore
  /\ relay = [r \in Relays |-> [s \in Subjects |-> Newest(s)]]
  /\ cache = [d \in Devices |-> [s \in Subjects |-> 0]]
  /\ view = [d \in Devices |-> NoView]
  /\ shown = [d \in Devices |-> [g \in Games |-> Nothing]]
  /\ sent = 1..MaxBefore /\ unheard = {} /\ forgot = {} /\ ops = 0

EditorStep(e) ==
  \/ \E p \in Pages, V \in SUBSET Relays : OpenPage(e, p, V) \/ OpenNew(e, p, V)
  \/ \E U \in SUBSET Games : Publish(e, U)
  \/ Retry(e)
  \/ \E fresh \in BOOLEAN : Answer(e, fresh)

TaskStep(e) ==
  \/ \E V \in SUBSET Relays : \/ Fail(e, V) \/ SignPage(e, V) \/ RetryCheck(e, V) \/ ConfirmPage(e, V)
                              \/ SignPointer(e, V) \/ ConfirmPointer(e, V)
                              \/ SendPage(e, V) \/ SendPageUnheard(e, V)
                              \/ SendPointer(e, V) \/ SendPointerUnheard(e, V)
                              \/ \E g \in Games : FetchPointer(e, g, V)
  \/ \E g \in Games : FailPointer(e, g)

Next ==
  \/ \E e \in Editors : EditorStep(e) \/ TaskStep(e)
  \/ \E g \in Games, V, S \in SUBSET Relays : EditGame(g, V, S)
  \/ \E d \in Devices : \/ Exit(d)
                        \/ \E V \in SUBSET Relays :
                             EndView(d, V) \/ \E g \in Games, n \in 0..MaxEvents : StartView(d, g, n, V)

Spec == Init /\ [][Next]_vars

-----------------------------------------------------------------------------
(* Properties.                                                             *)

Event0 == 0..MaxEvents
Outcomes == {"none", "failed", "unconfirmed", "confirmed"}
ResponseType == [page : Event0, confirmed : BOOLEAN,
                 out : [Games -> Outcomes], id : [Games -> Event0]]
EditType == [at : {"unopened", "open", "publishing", "retrying", "partial", "complete", "gone"},
             page : Maybe(Pages), loaded : Event0, rows : SUBSET Games, unlink : SUBSET Games,
             expect : [Games -> Event0], resp : ResponseType,
             held : [Games -> Maybe(Event0)]]
TaskType == [at : {"idle", "check", "send", "retrycheck", "confirm",
                   "next", "sign", "sendptr", "confirmptr"},
             todo : SUBSET Games, pub : [Games -> Event0],
             game : Maybe(Games), version : Event0, resp : ResponseType]

(* The types; what is known anywhere is a signed version. *)
TypeOK ==
  /\ edit \in [Editors -> EditType] /\ task \in [Editors -> TaskType]
  /\ log \in [1..MaxEvents -> EventType] /\ size \in Event0
  /\ relay \in [Relays -> [Subjects -> 0..size]]
  /\ cache \in [Devices -> [Subjects -> 0..size]]
  /\ view \in [Devices -> [game : Maybe(Games), listing : 0..size, known : 0..size]]
  /\ shown \in [Devices -> [Games -> [listing : 0..size, page : 0..size]]]
  /\ sent \subseteq 1..size /\ unheard \subseteq 1..size /\ forgot \subseteq 0..size
  /\ ops \in 0..MaxOps

(* At least two relays hold version n of s or a later one. *)
Spread(s, n) == Cardinality({r \in Relays : relay[r][s] >= n}) >= 2

(* A publication that is reported complete, after whatever retries, has    *)
(* put its page and, for every row, a version of the listing that agrees   *)
(* with the row on two relays: pointing to the page for a link, not for an *)
(* unlink.                                                                 *)
CompleteMeansLinked ==
  \A e \in Editors : edit[e].at = "complete" =>
    LET x == edit[e] IN
    /\ x.resp.page \in sent /\ Spread(x.page, x.resp.page)
    /\ Links(x.resp.page) = x.rows \ x.unlink
    /\ \A g \in x.rows :
         /\ x.held[g] # None /\ Spread(g, x.held[g])
         /\ Ptr(x.held[g]) = x.page <=> g \notin x.unlink

(* An editor puts one version of its page and one replacement of each      *)
(* listing, unless it never learned of the first or a retry that failed    *)
(* has forgotten it.                                                       *)
OneReplacement ==
  \A m, n \in sent :
    m < n /\ log[m].by = log[n].by /\ log[m].by # None /\ log[m].of = log[n].of
      => m \in unheard \cup forgot

(* A pointer is never ahead of its page: whoever sees it can find a        *)
(* version of the page, published before, that lists the game.             *)
PointerHasPage ==
  \A n \in 1..size : log[n].ptr # None =>
    \E q \in sent : q < n /\ log[q].of = log[n].ptr /\ log[n].of \in log[q].links

(* While a game's listing stays the same, an older answer neither replaces *)
(* the page it is shown with nor detaches it: only a newer version does.   *)
(* That fails if the cached version the view began with had already        *)
(* dropped the game, since then it does not compete.                       *)
ViewNeverGoesBack ==
  [][\A d \in Viewers, g \in Games :
       LET old == shown[d][g]  new == shown'[d][g] IN
       old.page # 0 /\ new.listing = old.listing /\ g \in Links(view[d].known) =>
         IF new.page # 0 THEN new.page >= old.page
                         ELSE cache'[d][Ptr(old.listing)] > old.page]_vars
=============================================================================
