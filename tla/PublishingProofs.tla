-------------------------- MODULE PublishingProofs --------------------------
(***************************************************************************)
(* Proofs about Publishing, for any devices, forms, relays and pages and   *)
(* any number of events and faults.                                        *)
(***************************************************************************)
EXTENDS Publishing, FiniteSetTheorems, TLAPS

USE PublishingAssumption

(* A root for page p that a relay has stored; a listing of p that is.      *)
RootOf(L, K, r, p) == r \in K /\ L[r].kind = "root" /\ L[r].page = p
ListingOf(L, S, l, p) == l \in S /\ L[l].kind = "listing" /\ L[l].page = p

(* A signed event: a listing replaces and names earlier ones only.         *)
EventFits(L, K, e) ==
  LET x == L[e] IN
  /\ x.by \in Forms /\ x.page \in Pages
  /\ x.kind = "root" => x.auth = 0 /\ x.over = 0
  /\ x.kind \in {"root", "listing"}
  /\ x.over < e /\ x.auth < e
  /\ x.auth # 0 => RootOf(L, K, x.auth, x.page)
  /\ x.over # 0 => x.auth >= L[x.over].auth

LogFits == \A e \in 1..size : EventFits(log, known, e)

(* The listing a form knows is one that is published.                      *)
FormFits == \A f \in Forms :
  form[f].event # 0 => ListingOf(log, sent, form[f].event, form[f].page)

(* What a call has settled by the step it is about to make.                *)
CallFits(t, f, L, n, K, S) ==
  /\ t.over # 0 => ListingOf(L, S, t.over, t.page)
  /\ t.at \in {"check", "provision"} => t.root = 0
  /\ t.at = "check" => t.carry = 0
  /\ t.carry # 0 => RootOf(L, K, t.carry, t.page)
  /\ t.at # "check" /\ t.over # 0 => t.carry = L[t.over].auth
  /\ t.root # 0 => /\ t.root \in 1..n /\ t.over < t.root
                   /\ L[t.root].kind = "root" /\ L[t.root].page = t.page /\ L[t.root].by = f
  /\ t.at \in {"store", "announce"} => t.root # 0
  /\ t.at \in {"recheck", "sign"} /\ t.root # 0 => t.root \in K
  /\ t.at = "send" => /\ t.event \in 1..n
                      /\ L[t.event].kind = "listing" /\ L[t.event].page = t.page /\ L[t.event].by = f
  /\ t.at \in {"confirm", "upload"} => ListingOf(L, S, t.event, t.page)

TaskFits == \A f \in Forms : CallFits(task[f], f, log, size, known, sent)

SentFits == \A l \in sent : log[l].kind = "listing"

(* The parts of TypeOK. *)
FormsTyped == form \in [Forms -> FormType]
TasksTyped == task \in [Forms -> TaskType]
EventsTyped == log \in [1..MaxEvents -> EventType] /\ size \in Event0
NetTyped ==
  /\ relay \in [Relays -> [Pages -> Event0]]
  /\ sent \subseteq 1..size /\ known \subseteq 1..size /\ unheard \subseteq 1..size
RestTyped ==
  /\ rows \in [Devices -> [Pages -> Event0]]
  /\ server \in [Pages -> Keys] /\ minted \subseteq Pages /\ away \subseteq Devices
  /\ ops \in 0..MaxOps
PagesSet == \A f \in Forms : task[f].over # 0 \/ task[f].at \notin {"idle", "check"}
                             => task[f].page \in Pages

Inv == TypeOK /\ LogFits /\ SentFits /\ FormFits /\ TaskFits

(* The parts make the whole. *)
LEMMA TypeParts ==
  TypeOK <=> FormsTyped /\ TasksTyped /\ EventsTyped /\ NetTyped /\ RestTyped /\ PagesSet
  BY DEF TypeOK, FormsTyped, TasksTyped, EventsTyped, NetTyped, RestTyped, PagesSet

-----------------------------------------------------------------------------
(* The initial state. *)
LEMMA InvInit == Init => Inv
  BY DEF Init, Inv, TypeOK, LogFits, SentFits, FormFits, TaskFits, CallFits, FormType, TaskType, EventType, Event0,
         Unopened, NoTask, NoEvent, Maybe, Modes

(* What Put, Move and Sign do. *)
LEMMA PutForm ==
  ASSUME FormsTyped, NEW f \in Forms, NEW r \in FormType, Put(f, r)
  PROVE  FormsTyped' /\ form'[f] = r /\ \A g \in Forms \ {f} : form'[g] = form[g]
  BY DEF FormsTyped, Put

(* Move writes one call. *)
LEMMA MoveTask ==
  ASSUME TasksTyped, NEW f \in Forms, NEW t \in TaskType, Move(f, t)
  PROVE  TasksTyped' /\ task'[f] = t /\ \A g \in Forms \ {f} : task'[g] = task[g]
  BY DEF TasksTyped, Move

(* Sign adds one event at the end of the log. *)
LEMMA SignEvent ==
  ASSUME EventsTyped, NEW e \in EventType, Sign(e)
  PROVE  /\ EventsTyped' /\ size' = size + 1 /\ size + 1 \in Event0
         /\ log'[size + 1] = e /\ \A x \in 1..size : log'[x] = log[x]
  BY DEF EventsTyped, Sign, Event0

(* Updates of the records, field by field. *)
LEMMA FormUpdates ==
  ASSUME NEW r \in FormType, NEW e \in Event0, NEW p \in Maybe(Pages), NEW k \in Maybe(Keys)
  PROVE  /\ [r EXCEPT !.at = "open"] \in FormType
         /\ [r EXCEPT !.at = "open", !.event = e, !.page = p, !.key = k, !.home = p] \in FormType
         /\ [r EXCEPT !.stale = TRUE] \in FormType
         /\ [r EXCEPT !.last = e] \in FormType
         /\ [r EXCEPT !.event = e, !.page = p, !.published = TRUE] \in FormType
         /\ [r EXCEPT !.at = "open", !.outcome = "Complete", !.published = TRUE,
                      !.event = e, !.page = p] \in FormType
  BY DEF FormType

(* The records a form is closed or reset to. *)
LEMMA FormResets ==
  ASSUME NEW r \in FormType
  PROVE  /\ [r EXCEPT !.at = "publishing", !.published = FALSE, !.outcome = "Publishing",
                      !.stale = FALSE, !.last = 0] \in FormType
         /\ [r EXCEPT !.at = "open", !.stale = FALSE,
                      !.outcome = IF r.published THEN "Partial" ELSE "Failed"] \in FormType
         /\ [Unopened EXCEPT !.at = "gone", !.key = r.key, !.home = r.home] \in FormType
<1> 0 \in Event0
  BY DEF Event0
<1>1. [r EXCEPT !.at = "publishing", !.published = FALSE, !.outcome = "Publishing",
                !.stale = FALSE, !.last = 0] \in FormType
  BY DEF FormType
<1>2. [r EXCEPT !.at = "open", !.stale = FALSE,
                !.outcome = IF r.published THEN "Partial" ELSE "Failed"] \in FormType
  <2> DEFINE o == IF r.published THEN "Partial" ELSE "Failed"
  <2>1. o \in {"Partial", "Failed"}
    OBVIOUS
  <2> HIDE DEF o
  <2>2. [r EXCEPT !.at = "open", !.stale = FALSE, !.outcome = o] \in FormType
    BY <2>1 DEF FormType
  <2>3. QED
    BY <2>2 DEF o
<1>3. [Unopened EXCEPT !.at = "gone", !.key = r.key, !.home = r.home] \in FormType
  BY DEF FormType, Unopened, Maybe
<1>4. QED
  BY <1>1, <1>2, <1>3

(* The fields of the records are what the steps of a call use. *)
LEMMA Fields ==
  ASSUME Inv, NEW f \in Forms
  PROVE  /\ form[f] \in FormType /\ task[f] \in TaskType
         /\ task[f].at \notin {"idle", "check"} => task[f].page \in Pages
         /\ Closed(f) \in FormType /\ Unfinished(f) \in FormType
<1>1. form[f] \in FormType /\ task[f] \in TaskType
  BY DEF Inv, TypeOK
<1>2. task[f].at \notin {"idle", "check"} => task[f].page \in Pages
  BY DEF Inv, TypeOK
<1>3. QED
  BY <1>1, <1>2, FormResets DEF Closed, Unfinished

(* The fields of a call have their types. *)
LEMMA TaskFields ==
  ASSUME Inv, NEW f \in Forms
  PROVE  /\ task[f].event \in Event0 /\ task[f].page \in Maybe(Pages)
         /\ task[f].root \in Event0 /\ task[f].over \in Event0 /\ task[f].carry \in Event0
         /\ task[f].mode \in Modes
         /\ form[f].event \in Event0 /\ form[f].page \in Maybe(Pages)
         /\ form[f].key \in Maybe(Keys)
  BY Fields DEF TaskType, FormType

(* The events a call signs. *)
LEMMA NewRoot ==
  ASSUME Inv, NEW f \in Forms, At(f, "provision")
  PROVE  Root(f, task[f].page, server[task[f].page]) \in EventType
<1>1. task[f].page \in Pages
  BY Fields DEF At
<1>2. server[task[f].page] \in Keys
  BY <1>1 DEF Inv, TypeOK
<1>3. ASSUME NEW p \in Pages, NEW k \in Keys
      PROVE  Root(f, p, k) \in EventType
  BY DEF Root, EventType, Event0, Maybe
<1>4. QED
  BY <1>1, <1>2, <1>3

Named(f) == IF task[f].root # 0 THEN task[f].root ELSE task[f].carry

(* The listing a call signs is an event. *)
LEMMA NewListing ==
  ASSUME Inv, NEW f \in Forms, At(f, "sign")
  PROVE  /\ Named(f) \in Event0 /\ task[f].page \in Pages
         /\ Listing(f, task[f].page, Named(f), task[f].over) \in EventType
<1>1. task[f].page \in Pages /\ Named(f) \in Event0 /\ task[f].over \in Event0
  BY Fields, TaskFields DEF At, Named
<1>2. QED
  BY <1>1 DEF Listing, EventType, Event0, Maybe

(* A listing a relay has stored is an entry of the log. *)
LEMMA SentEntry ==
  ASSUME Inv, NEW l \in sent
  PROVE  l \in Event0 /\ log[l].page \in Maybe(Pages) /\ KeyOf(l) \in Maybe(Keys)
<1>1. EventsTyped /\ sent \subseteq 1..size
  BY TypeParts DEF Inv, NetTyped
<1>2. l \in 1..MaxEvents /\ l \in 1..size
  BY <1>1 DEF EventsTyped, Event0
<1>3. \A e \in 1..MaxEvents : log[e] \in EventType
  BY <1>1 DEF EventsTyped
<1>4. log[l].page \in Maybe(Pages)
  BY <1>2, <1>3 DEF EventType
<1>5. KeyOf(l) \in Maybe(Keys)
  <2>1. CASE log[l].auth = 0
    BY <2>1 DEF KeyOf, Maybe
  <2>2. CASE log[l].auth # 0
    <3>1. log[l].auth \in known /\ log[l].auth \in 1..MaxEvents
      <4>1. EventFits(log, known, l)
        BY <1>2 DEF Inv, LogFits
      <4>2. RootOf(log, known, log[l].auth, log[l].page)
        BY <2>2, <4>1 DEF EventFits
      <4>3. known \subseteq 1..size /\ size \in Event0
        BY <1>1, TypeParts DEF Inv, NetTyped, EventsTyped
      <4>4. log[l].auth \in known
        BY <4>2 DEF RootOf
      <4>5. 1..size \subseteq 1..MaxEvents
        BY <4>3 DEF Event0
      <4>6. QED
        BY <4>3, <4>4, <4>5
    <3>2. QED
      BY <2>2, <3>1, <1>3 DEF KeyOf, EventType
  <2>3. QED
    BY <2>1, <2>2
<1>6. QED
  BY <1>2, <1>4, <1>5 DEF Event0

(* What the steps that write a form write there. *)
LEMMA FormsStep == Inv /\ [Next]_vars => FormsTyped'
<1> SUFFICES ASSUME Inv, [Next]_vars PROVE FormsTyped'
  OBVIOUS
<1>0. FormsTyped
  BY TypeParts DEF Inv
<1>1. ASSUME NEW f \in Forms, OpenNew(f)
      PROVE  FormsTyped'
  <2>1. [form[f] EXCEPT !.at = "open"] \in FormType
    BY Fields, FormUpdates, TaskFields
  <2>2. QED
    BY <1>0, <1>1, <2>1, PutForm DEF OpenNew
<1>2. ASSUME NEW f \in Forms, NEW l \in sent, OpenEdit(f, l)
      PROVE  FormsTyped'
  <2>1. /\ l \in Event0 /\ log[l].page \in Maybe(Pages) /\ KeyOf(l) \in Maybe(Keys)
    BY SentEntry
  <2>2. [form[f] EXCEPT !.at = "open", !.event = l, !.page = log[l].page,
                        !.key = KeyOf(l), !.home = log[l].page] \in FormType
    BY <2>1, Fields, FormUpdates
  <2>3. QED
    BY <1>0, <1>2, <2>2, PutForm DEF OpenEdit
<1>3. ASSUME NEW f \in Forms, Leave(f)
      PROVE  FormsTyped'
  BY <1>0, <1>3, Fields, PutForm DEF Leave
<1>4. ASSUME NEW f \in Forms, NEW mode \in Modes, Begin(f, mode)
      PROVE  FormsTyped'
  <2>1. [form[f] EXCEPT !.at = "publishing", !.published = FALSE,
                        !.outcome = "Publishing", !.stale = FALSE, !.last = 0] \in FormType
    BY Fields, FormResets
  <2>2. QED
    BY <1>0, <1>4, <2>1, PutForm DEF Begin
<1>5. ASSUME NEW d \in Devices, SwitchAccount(d)
      PROVE  FormsTyped'
    <2>1. \A f \in Forms : [form[f] EXCEPT !.stale = TRUE] \in FormType
    BY Fields, FormUpdates, TaskFields
  <2>2. QED
    BY <1>0, <1>5, <2>1 DEF SwitchAccount, FormsTyped
<1>6. ASSUME NEW d \in Devices, Exit(d)
      PROVE  FormsTyped'
  BY <1>0, <1>6, Fields DEF Exit, FormsTyped
<1>7. ASSUME NEW f \in Forms, SignListing(f)
      PROVE  FormsTyped'
  <2>1. size + 1 \in Event0
    BY <1>7 DEF SignListing, Sign, Inv, TypeOK, Event0
  <2>2. [form[f] EXCEPT !.last = size + 1] \in FormType
    BY <2>1, Fields, FormUpdates, TaskFields
  <2>3. QED
    BY <1>0, <1>7, <2>2, PutForm DEF SignListing
<1>8. ASSUME NEW f \in Forms, NEW S \in SUBSET Relays, NEW H \in SUBSET Forms, Send(f, S, H)
      PROVE  FormsTyped'
  <2>1. task[f].event \in Event0 /\ task[f].page \in Maybe(Pages)
    BY TaskFields
  <2>2. ASSUME NEW g \in Forms
        PROVE  [form[g] EXCEPT !.event = task[f].event, !.page = task[f].page,
                               !.published = TRUE] \in FormType
    BY <2>1, Fields, FormUpdates, TaskFields
  <2>3. QED
    BY <1>0, <1>8, <2>2 DEF Send, FormsTyped
<1>9. ASSUME NEW f \in Forms, Fail(f)
      PROVE  FormsTyped'
  BY <1>0, <1>9, Fields, PutForm DEF Fail, Answer, FormsTyped
<1>10. ASSUME NEW f \in Forms, Finish(f)
       PROVE  FormsTyped'
  <2>1. [form[f] EXCEPT !.at = "open", !.outcome = "Complete", !.published = TRUE,
                        !.event = task[f].event, !.page = task[f].page] \in FormType
    BY Fields, TaskFields, FormUpdates
  <2>2. QED
    BY <1>0, <1>10, <2>1, Fields, PutForm DEF Finish, Answer, FormsTyped
<1>11. CASE UNCHANGED form
  BY <1>0, <1>11 DEF FormsTyped
<1>12. QED
  BY <1>1, <1>2, <1>3, <1>4, <1>5, <1>6, <1>7, <1>8, <1>9, <1>10, <1>11
  DEF Next, FormStep, TaskStep, Mint, Check, Recheck, Confirm, Provision, Store, Announce,
      AnnounceUnheard, SendUnheard, RotateKey, vars

(* What the steps of a call write in its record. *)
LEMMA TaskUpdates ==
  ASSUME NEW t \in TaskType, NEW e \in Event0, NEW p \in Maybe(Pages), NEW mode \in Modes
  PROVE  /\ [NoTask EXCEPT !.at = "check", !.mode = mode, !.page = p, !.over = e] \in TaskType
         /\ AfterCheck(t) \in {"provision", "sign", "recheck"}
         /\ [t EXCEPT !.at = AfterCheck(t), !.page = p] \in TaskType
         /\ [t EXCEPT !.at = AfterCheck(t), !.carry = e] \in TaskType
         /\ [t EXCEPT !.at = "store", !.root = e] \in TaskType
         /\ [t EXCEPT !.at = "send", !.event = e] \in TaskType
         /\ \A l \in {"announce", "sign", "recheck", "failed", "confirm", "upload"} :
              [t EXCEPT !.at = l] \in TaskType
         /\ NoTask \in TaskType
<1> 0 \in Event0
  BY DEF Event0
<1>1. AfterCheck(t) \in {"provision", "sign", "recheck"}
  BY DEF AfterCheck
<1>2. NoTask \in TaskType
  BY DEF NoTask, TaskType, Modes, Maybe
<1>3. [NoTask EXCEPT !.at = "check", !.mode = mode, !.page = p, !.over = e] \in TaskType
  BY DEF NoTask, TaskType, Modes
<1>4. QED
  BY <1>1, <1>2, <1>3 DEF TaskType

(* Every step writes typed calls. *)
LEMMA TasksStep == Inv /\ [Next]_vars => TasksTyped'
<1> SUFFICES ASSUME Inv, [Next]_vars PROVE TasksTyped'
  OBVIOUS
<1>0. TasksTyped /\ size \in Event0
  BY TypeParts DEF Inv, EventsTyped
<1>1. ASSUME NEW f \in Forms, NEW mode \in Modes, Begin(f, mode)
      PROVE  TasksTyped'
  <2>1. [NoTask EXCEPT !.at = "check", !.mode = mode, !.page = form[f].page,
                       !.over = form[f].event] \in TaskType
    BY TaskFields, Fields, TaskUpdates
  <2>2. QED
    BY <1>0, <1>1, <2>1, MoveTask DEF Begin
<1>2. ASSUME NEW f \in Forms, NEW p \in Pages, Mint(f, p)
      PROVE  TasksTyped'
  <2>1. p \in Maybe(Pages)
    BY DEF Maybe
  <2>2. QED
    BY <1>0, <1>2, <2>1, Fields, TaskFields, TaskUpdates, MoveTask DEF Mint
<1>3. ASSUME NEW f \in Forms, NEW V \in SUBSET Relays, Check(f, V)
      PROVE  TasksTyped'
  <2>1. log[task[f].over].auth \in Event0
    BY <1>3, Fields, TaskFields DEF Inv, TypeOK, EventType, Event0, Check
  <2>2. QED
    BY <1>0, <1>3, <2>1, Fields, TaskFields, TaskUpdates, MoveTask DEF Check
<1>4. ASSUME NEW f \in Forms, Provision(f)
      PROVE  TasksTyped'
  <2>1. size + 1 \in Event0
    BY <1>0, <1>4 DEF Provision, Sign, Event0
  <2>2. QED
    BY <1>0, <1>4, <2>1, Fields, TaskFields, TaskUpdates, MoveTask DEF Provision
<1>5. ASSUME NEW f \in Forms, SignListing(f)
      PROVE  TasksTyped'
  <2>1. size + 1 \in Event0
    BY <1>0, <1>5 DEF SignListing, Sign, Event0
  <2>2. QED
    BY <1>0, <1>5, <2>1, Fields, TaskFields, TaskUpdates, MoveTask DEF SignListing
<1>6. ASSUME NEW f \in Forms, NEW l \in {"announce", "sign", "recheck", "failed", "confirm", "upload"},
             Move(f, [task[f] EXCEPT !.at = l])
      PROVE  TasksTyped'
  BY <1>0, <1>6, Fields, TaskFields, TaskUpdates, MoveTask
<1>7. ASSUME NEW f \in Forms, Move(f, NoTask)
      PROVE  TasksTyped'
  BY <1>0, <1>7, Fields, TaskFields, TaskUpdates, MoveTask
<1>8. ASSUME NEW d \in Devices, Exit(d)
      PROVE  TasksTyped'
  BY <1>0, <1>8, Fields, TaskFields, TaskUpdates DEF Exit, TasksTyped
<1>9. CASE UNCHANGED task
  BY <1>0, <1>9 DEF TasksTyped
<1>10. ASSUME NEW f \in Forms, TaskStep(f)
       PROVE  TasksTyped'
  BY <1>10, <1>2, <1>3, <1>4, <1>5, <1>6, <1>7
  DEF TaskStep, Recheck, Confirm, Store, Announce, AnnounceUnheard, SendUnheard, Send, Finish,
      Fail, Answer
<1>11. QED
  BY <1>1, <1>8, <1>9, <1>10
  DEF Next, FormStep, OpenNew, OpenEdit, Leave, SwitchAccount, RotateKey, vars

(* Signed events stay; at most one is added. *)
LEMMA EventsStep ==
  ASSUME Inv, [Next]_vars
  PROVE  /\ EventsTyped' /\ size' \in {size, size + 1}
         /\ \A x \in 1..size : log'[x] = log[x]
<1>0. EventsTyped
  BY TypeParts DEF Inv
<1>1. ASSUME NEW f \in Forms, Provision(f)
      PROVE  /\ EventsTyped' /\ size' \in {size, size + 1}
             /\ \A x \in 1..size : log'[x] = log[x]
  BY <1>0, <1>1, NewRoot, SignEvent DEF Provision
<1>2. ASSUME NEW f \in Forms, SignListing(f)
      PROVE  /\ EventsTyped' /\ size' \in {size, size + 1}
             /\ \A x \in 1..size : log'[x] = log[x]
  BY <1>0, <1>2, NewListing, SignEvent DEF SignListing, Named
<1>3. CASE UNCHANGED events
  BY <1>0, <1>3 DEF events, EventsTyped
<1>4. ASSUME NEW f \in Forms, FormStep(f) \/ TaskStep(f)
      PROVE  Provision(f) \/ SignListing(f) \/ UNCHANGED events
  BY <1>4
  DEF FormStep, TaskStep, OpenNew, OpenEdit, Leave, Begin, Mint, Check, Recheck, Confirm, Store,
      Announce, AnnounceUnheard, SendUnheard, Send, Finish, Fail, Answer
<1>5. QED
  BY <1>1, <1>2, <1>3, <1>4 DEF Next, SwitchAccount, Exit, RotateKey, vars

(* What the relays hold are signed events. *)
LEMMA StoredNet ==
  ASSUME NetTyped, NEW e \in 1..size, NEW p \in Pages, NEW S \in SUBSET Relays,
         EventsTyped, Stored(e, p, S)
  PROVE  /\ relay' \in [Relays -> [Pages -> Event0]]
         /\ \A r \in Relays, q \in Pages : relay'[r][q] >= relay[r][q]
         /\ sent' = sent \cup {e} /\ known' = known
<1>1. e \in Event0
  BY DEF EventsTyped, Event0
<1>2. relay' \in [Relays -> [Pages -> Event0]]
  BY <1>1 DEF NetTyped, Stored
<1>3. ASSUME NEW r \in Relays, NEW q \in Pages
      PROVE  relay'[r][q] >= relay[r][q]
  <2>1. relay[r] \in [Pages -> Event0] /\ relay[r][q] \in Nat
    BY DEF NetTyped, Event0
  <2>2. CASE r \in S
    BY <2>1, <2>2 DEF Stored
  <2>3. CASE r \notin S
    BY <2>1, <2>3 DEF Stored
  <2>4. QED
    BY <2>2, <2>3
<1>4. QED
  BY <1>2, <1>3 DEF Stored

(* Every step leaves typed relays. *)
LEMMA NetStep ==
  ASSUME Inv, [Next]_vars
  PROVE  /\ NetTyped' /\ sent \subseteq sent' /\ known \subseteq known'
         /\ unheard \subseteq unheard'
         /\ \A r \in Relays, q \in Pages : relay'[r][q] >= relay[r][q]
<1> DEFINE P == /\ NetTyped' /\ sent \subseteq sent' /\ known \subseteq known'
                /\ unheard \subseteq unheard'
                /\ \A r \in Relays, q \in Pages : relay'[r][q] >= relay[r][q]
<1>0. NetTyped /\ EventsTyped /\ size \in Nat /\ size' \in {size, size + 1}
  BY TypeParts, EventsStep DEF Inv, EventsTyped, Event0
<1>1. 1..size \subseteq 1..size'
  BY <1>0
<1>2. ASSUME UNCHANGED <<relay, sent, unheard>>,
             known' = known \/ \E e \in 1..size : known' = known \cup {e}
      PROVE  P
  <2>1. \A r \in Relays, q \in Pages : relay[r][q] \in Nat
    BY <1>0 DEF NetTyped, Event0
  <2>2. known \subseteq known' /\ known' \subseteq 1..size
    BY <1>0, <1>2 DEF NetTyped
  <2>3. NetTyped'
    BY <1>0, <1>1, <1>2, <2>2 DEF NetTyped
  <2>4. \A r \in Relays, q \in Pages : relay'[r][q] >= relay[r][q]
    BY <1>2, <2>1
  <2>5. QED
    BY <1>2, <2>2, <2>3, <2>4
<1>3. ASSUME NEW f \in Forms, Announce(f) \/ AnnounceUnheard(f)
      PROVE  P
  <2>1. task[f].root \in 1..size
    BY <1>3 DEF Announce, AnnounceUnheard, At, Inv, TaskFits, CallFits
  <2>2. QED
    BY <1>2, <1>3, <2>1 DEF Announce, AnnounceUnheard, world
<1>4. ASSUME NEW f \in Forms, NEW S \in SUBSET Relays, NEW H \in SUBSET Forms,
             SendUnheard(f, S) \/ Send(f, S, H)
      PROVE  P
  <2>1. task[f].event \in 1..size
    BY <1>4 DEF SendUnheard, Send, At, Inv, TaskFits, CallFits
  <2>2. task[f].page \in Pages
    BY <1>4, Fields DEF SendUnheard, Send, At
  <2>3. Stored(task[f].event, task[f].page, S)
    BY <1>4 DEF SendUnheard, Send
  <2>4. unheard' = unheard \/ unheard' = unheard \cup {task[f].event}
    BY <1>4 DEF SendUnheard, Send
  <2>5. QED
    BY <1>0, <1>1, <2>1, <2>2, <2>3, <2>4, StoredNet DEF NetTyped
<1>5. ASSUME NEW f \in Forms, FormStep(f) \/ TaskStep(f)
      PROVE  P
  <2>1. \/ Announce(f) \/ AnnounceUnheard(f)
        \/ \E S \in SUBSET Relays, H \in SUBSET Forms : SendUnheard(f, S) \/ Send(f, S, H)
        \/ UNCHANGED <<relay, sent, known, unheard>>
    BY <1>5
    DEF FormStep, TaskStep, OpenNew, OpenEdit, Leave, Begin, Mint, Check, Recheck, Confirm,
        Provision, Store, SignListing, Finish, Fail, Answer, net, world
  <2>2. QED
    BY <2>1, <1>2, <1>3, <1>4
<1>6. QED
  BY <1>2, <1>5 DEF Next, SwitchAccount, Exit, RotateKey, vars, net, world

(* The other variables keep their types. *)
LEMMA RestStep == Inv /\ [Next]_vars => RestTyped'
<1> SUFFICES ASSUME Inv, [Next]_vars PROVE RestTyped'
  OBVIOUS
<1>0. RestTyped
  BY TypeParts DEF Inv
<1>1. ASSUME NEW f \in Forms, Store(f)
      PROVE  RestTyped'
  <2>1. task[f].page \in Pages /\ task[f].root \in Event0 /\ DeviceOf[f] \in Devices
    BY <1>1, Fields, TaskFields DEF Store, At
  <2>2. QED
    BY <1>0, <1>1, <2>1 DEF Store, RestTyped, world
<1>2. ASSUME UNCHANGED rows, server' = server \/ \E p \in Pages, k \in Keys : RotateKey(p, k),
             minted' \subseteq Pages, away' \subseteq Devices, ops' = ops \/ Counted
      PROVE  RestTyped'
  BY <1>0, <1>2 DEF RestTyped, RotateKey, Counted
<1>3. ASSUME NEW f \in Forms, FormStep(f) \/ TaskStep(f)
      PROVE  \/ Store(f)
             \/ /\ UNCHANGED <<rows, server, away>> /\ minted' \subseteq Pages
                /\ ops' = ops \/ Counted
  BY <1>0, <1>3
  DEF FormStep, TaskStep, OpenNew, OpenEdit, Leave, Begin, Mint, Check, Recheck, Confirm,
      Provision, Announce, AnnounceUnheard, SignListing, SendUnheard, Send, Finish, Fail, Answer,
      world, RestTyped
<1>4. ASSUME NEW d \in Devices, SwitchAccount(d) \/ Exit(d)
      PROVE  /\ UNCHANGED <<rows, server, minted>> /\ away' \subseteq Devices
             /\ ops' = ops \/ Counted
  BY <1>0, <1>4 DEF SwitchAccount, Exit, RestTyped
<1>5. ASSUME NEW p \in Pages, NEW k \in Keys, RotateKey(p, k)
      PROVE  UNCHANGED <<rows, minted, away>> /\ Counted
  BY <1>5 DEF RotateKey
<1>6. QED
  BY <1>0, <1>1, <1>2, <1>3, <1>4, <1>5 DEF Next, vars, world, RestTyped

-----------------------------------------------------------------------------
(* A root or a listing that is published stays so. *)
LEMMA Stays ==
  ASSUME Inv, [Next]_vars, NEW e, NEW p
  PROVE  /\ RootOf(log, known, e, p) => RootOf(log', known', e, p)
         /\ ListingOf(log, sent, e, p) => ListingOf(log', sent', e, p)
         /\ e \in known \cup sent => log'[e] = log[e] /\ e \in 1..size
         /\ 1..size \subseteq 1..size'
<1>1. /\ sent \subseteq 1..size /\ known \subseteq 1..size /\ size \in Nat
      /\ size' \in {size, size + 1}
  BY EventsStep DEF Inv, TypeOK, Event0
<1>2. e \in known \cup sent => log'[e] = log[e] /\ e \in 1..size
  BY <1>1, EventsStep
<1>3. known \subseteq known' /\ sent \subseteq sent'
  BY NetStep
<1>4. 1..size \subseteq 1..size'
  BY <1>1
<1>5. QED
  BY <1>2, <1>3, <1>4 DEF RootOf, ListingOf

(* Every step keeps the log well-formed: a listing is signed only over a   *)
(* published listing and an authorization that is on a relay.              *)
LEMMA LogStep == Inv /\ [Next]_vars => LogFits'
<1> SUFFICES ASSUME Inv, [Next]_vars PROVE LogFits'
  OBVIOUS
<1>0. /\ EventsTyped /\ size \in Nat /\ \A x \in 1..size : log[x] \in EventType
  BY TypeParts DEF Inv, EventsTyped, Event0
<1>1. ASSUME NEW e \in 1..size
      PROVE  EventFits(log', known', e)
  <2>1. EventFits(log, known, e) /\ log'[e] = log[e] /\ log[e] \in EventType
    BY <1>0, EventsStep DEF Inv, LogFits
  <2>2. log[e].over # 0 => log[e].over \in 1..size /\ log'[log[e].over] = log[log[e].over]
    <3>1. log[e].over \in Nat /\ log[e].over < e
      BY <2>1 DEF EventFits, EventType, Event0
    <3>2. QED
      BY <1>0, <3>1, EventsStep
  <2>3. log[e].auth # 0 => RootOf(log', known', log[e].auth, log[e].page)
    BY <2>1, Stays DEF EventFits
  <2>4. QED
    BY <2>1, <2>2, <2>3 DEF EventFits
<1>2. ASSUME NEW f \in Forms, Provision(f)
      PROVE  EventFits(log', known', size + 1) /\ size' = size + 1
  <2>1. /\ log'[size + 1] = Root(f, task[f].page, server[task[f].page])
        /\ task[f].page \in Pages /\ size' = size + 1
    BY <1>0, <1>2, NewRoot, SignEvent, Fields DEF Provision, At
  <2>2. QED
    BY <1>0, <2>1 DEF EventFits, Root
<1>3. ASSUME NEW f \in Forms, SignListing(f)
      PROVE  EventFits(log', known', size + 1) /\ size' = size + 1
  <2> DEFINE t == task[f]
  <2>1. /\ log'[size + 1] = Listing(f, t.page, Named(f), t.over) /\ size' = size + 1
        /\ t.page \in Pages /\ Named(f) \in Event0 /\ t.at = "sign"
    BY <1>0, <1>3, NewListing, SignEvent DEF SignListing, Named, At
  <2>2. Named(f) # 0 => RootOf(log, known, Named(f), t.page)
    BY <2>1 DEF Inv, TaskFits, CallFits, Named, RootOf
  <2>3. Named(f) # 0 => Named(f) \in 1..size /\ RootOf(log', known', Named(f), t.page)
    BY <2>2, Stays DEF RootOf
  <2>4. t.over # 0 => /\ t.over \in 1..size /\ log'[t.over] = log[t.over]
                      /\ EventFits(log, known, t.over)
    BY <2>1, Stays DEF Inv, TaskFits, CallFits, ListingOf, LogFits
  <2>5. t.over # 0 => Named(f) >= log[t.over].auth
    <3>1. t.over \in Event0 /\ t.root \in Event0 /\ t.carry \in Event0
      BY TaskFields
    <3>2. ASSUME t.over # 0
          PROVE  log[t.over].auth < t.over /\ log[t.over].auth \in Nat
      BY <1>0, <2>4, <3>2 DEF EventFits, EventType, Event0
    <3>3. t.root # 0 => t.over < t.root
      BY DEF Inv, TaskFits, CallFits
    <3>4. t.over # 0 => t.carry = log[t.over].auth
      BY <2>1 DEF Inv, TaskFits, CallFits
    <3>5. QED
      BY <3>1, <3>2, <3>3, <3>4 DEF Named, Event0
  <2>6. t.over < size + 1 /\ Named(f) < size + 1
    BY <1>0, <2>3, <2>4
  <2> HIDE DEF t
  <2>7. QED
    BY <2>1, <2>3, <2>4, <2>5, <2>6 DEF EventFits, Listing, t
<1>4. ASSUME NEW f \in Forms, FormStep(f) \/ TaskStep(f)
      PROVE  Provision(f) \/ SignListing(f) \/ UNCHANGED events
  BY <1>4
  DEF FormStep, TaskStep, OpenNew, OpenEdit, Leave, Begin, Mint, Check, Recheck, Confirm, Store,
      Announce, AnnounceUnheard, SendUnheard, Send, Finish, Fail, Answer
<1>5. size' = size \/ (EventFits(log', known', size + 1) /\ size' = size + 1)
  BY <1>2, <1>3, <1>4 DEF Next, SwitchAccount, Exit, RotateKey, vars, events
<1>6. \A e \in 1..size' : e \in 1..size \/ (e = size + 1 /\ size' = size + 1)
  BY <1>0, <1>5
<1>7. QED
  BY <1>1, <1>5, <1>6 DEF LogFits

(* What a call has settled stays settled while the others work. *)
LEMMA CallStays ==
  ASSUME Inv, [Next]_vars, NEW f \in Forms
  PROVE  CallFits(task[f], f, log', size', known', sent')
<1> DEFINE t == task[f]
<1>0. /\ CallFits(t, f, log, size, known, sent) /\ t.over \in Event0 /\ t.root \in Event0
      /\ t.carry \in Event0 /\ t.event \in Event0
  BY TaskFields DEF Inv, TaskFits
<1>1. \A e \in 1..size : log'[e] = log[e] /\ e \in 1..size'
  BY EventsStep, Stays
<1>2. \A e, p : /\ ListingOf(log, sent, e, p) => ListingOf(log', sent', e, p)
                /\ RootOf(log, known, e, p) => RootOf(log', known', e, p)
                /\ e \in known \cup sent => log'[e] = log[e]
  BY Stays
<1>3. known \subseteq known'
  BY NetStep
<1> HIDE DEF t
<1>4. t.over # 0 => log'[t.over] = log[t.over]
  BY <1>0, <1>2 DEF CallFits, ListingOf
<1>5. QED
  BY <1>0, <1>1, <1>2, <1>3, <1>4 DEF CallFits, t

(* Every step of a call keeps what it has settled. *)
LEMMA TaskFitsStep == Inv /\ [Next]_vars => TaskFits'
<1> SUFFICES ASSUME Inv, [Next]_vars PROVE TaskFits'
  OBVIOUS
<1> DEFINE Ok(t, f) == CallFits(t, f, log', size', known', sent')
<1>0. /\ TasksTyped /\ EventsTyped /\ size \in Nat
      /\ \A f \in Forms : Ok(task[f], f) /\ task[f] \in TaskType
  BY TypeParts, CallStays, Fields DEF Inv, EventsTyped, Event0
<1> HIDE DEF Ok
<1>1. ASSUME NEW f \in Forms, NEW t \in TaskType, Move(f, t), Ok(t, f)
      PROVE  TaskFits'
  BY <1>0, <1>1, MoveTask DEF TaskFits, Ok
<1>2. ASSUME NEW f \in Forms
      PROVE  NoTask \in TaskType /\ Ok(NoTask, f)
  <2>1. NoTask \in TaskType
    BY DEF NoTask, TaskType, Event0, Modes, Maybe
  <2>2. Ok(NoTask, f)
    BY DEF Ok, CallFits, NoTask
  <2>3. QED
    BY <2>1, <2>2
<1>3. ASSUME NEW f \in Forms, NEW mode \in Modes, Begin(f, mode)
      PROVE  TaskFits'
  <2> DEFINE t == [NoTask EXCEPT !.at = "check", !.mode = mode, !.page = form[f].page,
                                 !.over = form[f].event]
  <2>1. t \in TaskType
    BY TaskFields, Fields, TaskUpdates
  <2>2. form[f].event # 0 => ListingOf(log', sent', form[f].event, form[f].page)
    BY Stays DEF Inv, FormFits
  <2>3. Ok(t, f)
    BY <2>2 DEF Ok, CallFits, NoTask
  <2>4. QED
    BY <1>1, <1>3, <2>1, <2>3 DEF Begin
<1>4. ASSUME NEW f \in Forms, NEW p \in Pages, Mint(f, p)
      PROVE  TaskFits'
  <2> DEFINE t == [task[f] EXCEPT !.at = AfterCheck(task[f]), !.page = p]
  <2>1. p \in Maybe(Pages)
    BY DEF Maybe
  <2>2. t \in TaskType /\ AfterCheck(task[f]) \in {"provision", "sign", "recheck"}
    BY <2>1, <1>0, TaskFields, TaskUpdates
  <2>3. Ok(t, f)
    BY <1>0, <1>4, <2>2 DEF Ok, CallFits, Mint, At, TaskType
  <2>4. QED
    BY <1>1, <1>4, <2>2, <2>3 DEF Mint
<1>5. ASSUME NEW f \in Forms, NEW V \in SUBSET Relays, Check(f, V)
      PROVE  TaskFits'
  <2> DEFINE o == task[f].over
             a == log[o].auth
             t == [task[f] EXCEPT !.at = AfterCheck(task[f]), !.carry = a]
  <2>1. /\ ListingOf(log, sent, o, task[f].page) /\ o \in 1..size /\ log'[o] = log[o]
        /\ o # 0 /\ task[f].root = 0
    BY <1>5, Stays DEF Inv, TaskFits, CallFits, Check, At, ListingOf
  <2>2. a \in Event0 /\ (a # 0 => RootOf(log', known', a, task[f].page))
    <3>1. log[o] \in EventType /\ EventFits(log, known, o)
      BY <1>0, <2>1 DEF Inv, LogFits, EventsTyped, Event0
    <3>2. a \in Event0 /\ (a # 0 => RootOf(log, known, a, task[f].page))
      BY <2>1, <3>1 DEF EventFits, EventType, ListingOf
    <3>3. QED
      BY <3>2, Stays
  <2>3. t \in TaskType /\ AfterCheck(task[f]) \in {"provision", "sign", "recheck"}
    <3>1. "plain" \in Modes /\ None \in Maybe(Pages)
      BY DEF Modes, Maybe
    <3>2. QED
      BY <3>1, <1>0, <2>2, TaskUpdates
  <2> HIDE DEF a, o
  <2>4. Ok(t, f)
    BY <1>0, <2>1, <2>2, <2>3 DEF Ok, CallFits, TaskType, a, o
  <2>5. QED
    BY <1>1, <1>5, <2>3, <2>4 DEF Check, a, o
<1>6. ASSUME NEW f \in Forms, Provision(f)
      PROVE  TaskFits'
  <2> DEFINE t == [task[f] EXCEPT !.at = "store", !.root = size + 1]
             r == Root(f, task[f].page, server[task[f].page])
  <2>1. /\ log'[size + 1] = r /\ size' = size + 1 /\ size + 1 \in Event0
    BY <1>0, <1>6, NewRoot, SignEvent DEF Provision
  <2>2. t \in TaskType
    BY <1>0, <2>1, TaskFields, TaskUpdates
  <2>3. task[f].over < size + 1
    <3>1. task[f].over # 0 => task[f].over \in 1..size
      BY Stays DEF Inv, TaskFits, CallFits, ListingOf
    <3>2. QED
      BY <1>0, <3>1
  <2>4. task[f].at = "provision"
    BY <1>6 DEF Provision, At
  <2>5. r.kind = "root" /\ r.page = task[f].page /\ r.by = f
    BY DEF Root
  <2> HIDE DEF r
  <2>6. size + 1 \in 1..size' /\ size + 1 # 0
    BY <1>0, <2>1
  <2>7. Ok(t, f)
    BY <1>0, <2>1, <2>3, <2>4, <2>5, <2>6 DEF Ok, CallFits, TaskType
  <2>8. QED
    BY <1>1, <1>6, <2>2, <2>7 DEF Provision
<1>7. ASSUME NEW f \in Forms, SignListing(f)
      PROVE  TaskFits'
  <2> DEFINE t == [task[f] EXCEPT !.at = "send", !.event = size + 1]
             r == Listing(f, task[f].page, Named(f), task[f].over)
  <2>1. /\ log'[size + 1] = r /\ size' = size + 1 /\ size + 1 \in Event0 /\ task[f].at = "sign"
    BY <1>0, <1>7, NewListing, SignEvent DEF SignListing, Named, At
  <2>2. t \in TaskType
    BY <1>0, <2>1, TaskFields, TaskUpdates
  <2>3. r.kind = "listing" /\ r.page = task[f].page /\ r.by = f
    BY DEF Listing
  <2> HIDE DEF r
  <2>4. size + 1 \in 1..size'
    BY <1>0, <2>1
  <2>5. Ok(t, f)
    BY <1>0, <2>1, <2>3, <2>4 DEF Ok, CallFits, TaskType
  <2>6. QED
    BY <1>1, <1>7, <2>2, <2>5 DEF SignListing
<1>8. ASSUME NEW f \in Forms, NEW V \in SUBSET Relays, Recheck(f, V) \/ Confirm(f, V)
      PROVE  TaskFits'
  <2>1. CASE Recheck(f, V)
    <3>1. [task[f] EXCEPT !.at = "sign"] \in TaskType
      BY <1>0, TaskFields, TaskUpdates
    <3>2. task[f].at = "recheck"
      BY <2>1 DEF Recheck, At
    <3>3. Ok([task[f] EXCEPT !.at = "sign"], f)
      BY <1>0, <3>2 DEF Ok, CallFits, TaskType
    <3>4. QED
      BY <1>1, <2>1, <3>1, <3>3 DEF Recheck
  <2>2. CASE Confirm(f, V)
    <3>1. [task[f] EXCEPT !.at = "upload"] \in TaskType
      BY <1>0, TaskFields, TaskUpdates
    <3>2. task[f].at = "confirm"
      BY <2>2 DEF Confirm, At
    <3>3. Ok([task[f] EXCEPT !.at = "upload"], f)
      BY <1>0, <3>2 DEF Ok, CallFits, TaskType
    <3>4. QED
      BY <1>1, <2>2, <3>1, <3>3 DEF Confirm
  <2>3. QED
    BY <1>8, <2>1, <2>2
<1>9. ASSUME NEW f \in Forms, Store(f) \/ AnnounceUnheard(f) \/ \E S \in SUBSET Relays : SendUnheard(f, S)
      PROVE  TaskFits'
  <2>1. CASE Store(f)
    <3>1. [task[f] EXCEPT !.at = "announce"] \in TaskType
      BY <1>0, TaskFields, TaskUpdates
    <3>2. task[f].at = "store"
      BY <2>1 DEF Store, At
    <3>3. Ok([task[f] EXCEPT !.at = "announce"], f)
      BY <1>0, <3>2 DEF Ok, CallFits, TaskType
    <3>4. QED
      BY <1>1, <2>1, <3>1, <3>3 DEF Store
  <2>2. CASE AnnounceUnheard(f) \/ \E S \in SUBSET Relays : SendUnheard(f, S)
    <3>1. [task[f] EXCEPT !.at = "failed"] \in TaskType
      BY <1>0, TaskFields, TaskUpdates
    <3>2. task[f].at \in {"announce", "send"}
      BY <2>2 DEF AnnounceUnheard, SendUnheard, At
    <3>3. Ok([task[f] EXCEPT !.at = "failed"], f)
      BY <1>0, <3>2 DEF Ok, CallFits, TaskType
    <3>4. Move(f, [task[f] EXCEPT !.at = "failed"])
      BY <2>2 DEF AnnounceUnheard, SendUnheard
    <3>5. QED
      BY <1>1, <3>1, <3>3, <3>4
  <2>3. QED
    BY <1>9, <2>1, <2>2
<1>10. ASSUME NEW f \in Forms, Announce(f)
       PROVE  TaskFits'
  <2>1. PICK l \in {"sign", "recheck"} : Move(f, [task[f] EXCEPT !.at = l])
    BY <1>10 DEF Announce
  <2>2. [task[f] EXCEPT !.at = l] \in TaskType
    BY <1>0, <2>1, TaskFields, TaskUpdates
  <2>3. task[f].at = "announce" /\ task[f].root \in known'
    BY <1>10 DEF Announce, At
  <2>4. Ok([task[f] EXCEPT !.at = l], f)
    BY <1>0, <2>3 DEF Ok, CallFits, TaskType
  <2>5. QED
    BY <1>1, <2>1, <2>2, <2>4
<1>11. ASSUME NEW f \in Forms, NEW S \in SUBSET Relays, NEW H \in SUBSET Forms, Send(f, S, H)
       PROVE  TaskFits'
  <2> DEFINE t == [task[f] EXCEPT !.at = "confirm"]
  <2>1. t \in TaskType
    BY <1>0, TaskFields, TaskUpdates
  <2>2. task[f].at = "send" /\ task[f].event \in sent'
    BY <1>11 DEF Send, At, Stored
  <2>3. Ok(t, f)
    BY <1>0, <2>2 DEF Ok, CallFits, TaskType, ListingOf
  <2>4. QED
    BY <1>1, <1>11, <2>1, <2>3 DEF Send
<1>12. ASSUME NEW f \in Forms, Finish(f) \/ Fail(f)
       PROVE  TaskFits'
  BY <1>1, <1>2, <1>12 DEF Finish, Fail, Answer
<1>13. ASSUME NEW d \in Devices, Exit(d)
       PROVE  TaskFits'
  BY <1>0, <1>2, <1>13 DEF Exit, TaskFits, Ok
<1>14. CASE UNCHANGED task
  BY <1>0, <1>14 DEF TaskFits, Ok
<1>15. ASSUME NEW f \in Forms, TaskStep(f)
       PROVE  TaskFits'
  BY <1>15, <1>4, <1>5, <1>6, <1>7, <1>8, <1>9, <1>10, <1>11, <1>12 DEF TaskStep
<1>16. QED
  BY <1>3, <1>13, <1>14, <1>15
  DEF Next, FormStep, OpenNew, OpenEdit, Leave, SwitchAccount, RotateKey, vars

(* Only listings are sent as listings. *)
LEMMA SentFitsStep == Inv /\ [Next]_vars => SentFits'
<1> SUFFICES ASSUME Inv, [Next]_vars PROVE SentFits'
  OBVIOUS
<1>1. \A l \in sent : log'[l] = log[l] /\ log[l].kind = "listing"
  BY Stays DEF Inv, SentFits
<1>2. ASSUME NEW f \in Forms, NEW S \in SUBSET Relays, NEW H \in SUBSET Forms,
             SendUnheard(f, S) \/ Send(f, S, H)
      PROVE  SentFits'
  <2>1. task[f].event \in 1..size /\ log[task[f].event].kind = "listing"
    BY <1>2 DEF SendUnheard, Send, At, Inv, TaskFits, CallFits
  <2>2. sent' = sent \cup {task[f].event} /\ log' = log
    BY <1>2 DEF SendUnheard, Send, Stored, events
  <2>3. QED
    BY <1>1, <2>1, <2>2 DEF SentFits
<1>3. CASE UNCHANGED sent
  BY <1>1, <1>3 DEF SentFits
<1>4. ASSUME NEW f \in Forms, FormStep(f) \/ TaskStep(f)
      PROVE  \/ \E S \in SUBSET Relays, H \in SUBSET Forms : SendUnheard(f, S) \/ Send(f, S, H)
             \/ UNCHANGED sent
  BY <1>4
  DEF FormStep, TaskStep, OpenNew, OpenEdit, Leave, Begin, Mint, Check, Recheck, Confirm, Provision,
      Store, Announce, AnnounceUnheard, SignListing, Finish, Fail, Answer, net
<1>5. QED
  BY <1>2, <1>3, <1>4 DEF Next, SwitchAccount, Exit, RotateKey, vars, net

(* What a form knows about is published. *)
LEMMA FormFitsStep == Inv /\ [Next]_vars => FormFits'
<1> SUFFICES ASSUME Inv, [Next]_vars PROVE FormFits'
  OBVIOUS
<1> DEFINE Ok(r) == r.event # 0 => ListingOf(log', sent', r.event, r.page)
<1>0. FormsTyped /\ \A f \in Forms : Ok(form[f]) /\ form[f] \in FormType
  BY TypeParts, Fields, Stays DEF Inv, FormFits
<1> HIDE DEF Ok
<1>1. ASSUME NEW f \in Forms, NEW r \in FormType, Put(f, r), Ok(r)
      PROVE  FormFits'
  BY <1>0, <1>1, PutForm DEF FormFits, Ok
<1>2. ASSUME NEW f \in Forms, OpenNew(f)
      PROVE  FormFits'
  <2>1. [form[f] EXCEPT !.at = "open"] \in FormType
    BY Fields, FormUpdates, TaskFields
  <2>2. Ok([form[f] EXCEPT !.at = "open"])
    BY <1>0 DEF Ok, FormType
  <2>3. QED
    BY <1>1, <1>2, <2>1, <2>2 DEF OpenNew
<1>3. ASSUME NEW f \in Forms, NEW l \in sent, OpenEdit(f, l)
      PROVE  FormFits'
  <2> DEFINE r == [form[f] EXCEPT !.at = "open", !.event = l, !.page = log[l].page,
                                  !.key = KeyOf(l), !.home = log[l].page]
  <2>1. /\ l \in Event0 /\ log[l].page \in Maybe(Pages) /\ KeyOf(l) \in Maybe(Keys)
    BY SentEntry
  <2>2. r \in FormType
    BY <2>1, Fields, FormUpdates
  <2>3. ListingOf(log', sent', l, log[l].page)
    BY Stays DEF Inv, SentFits, ListingOf
  <2>4. Ok(r)
    BY <1>0, <2>3 DEF Ok, FormType
  <2>5. QED
    BY <1>1, <1>3, <2>2, <2>4 DEF OpenEdit
<1>4. ASSUME NEW f \in Forms
      PROVE  /\ Closed(f) \in FormType /\ Ok(Closed(f))
             /\ Unfinished(f) \in FormType /\ Ok(Unfinished(f))
  <2>1. Closed(f).event = 0
    BY DEF Closed, Unopened
  <2>2. Unfinished(f).event = form[f].event /\ Unfinished(f).page = form[f].page
    BY <1>0 DEF Unfinished, FormType
  <2>3. QED
    BY <1>0, <2>1, <2>2, Fields DEF Ok
<1>5. ASSUME NEW f \in Forms, Leave(f)
      PROVE  FormFits'
  BY <1>1, <1>4, <1>5 DEF Leave
<1>6. ASSUME NEW f \in Forms, NEW mode \in Modes, Begin(f, mode)
      PROVE  FormFits'
  <2> DEFINE r == [form[f] EXCEPT !.at = "publishing", !.published = FALSE,
                                  !.outcome = "Publishing", !.stale = FALSE, !.last = 0]
  <2>1. r \in FormType
    BY Fields, FormResets
  <2>2. Ok(r)
    BY <1>0 DEF Ok, FormType
  <2>3. QED
    BY <1>1, <1>6, <2>1, <2>2 DEF Begin
<1>7. ASSUME NEW d \in Devices, SwitchAccount(d)
      PROVE  FormFits'
  <2>1. ASSUME NEW f \in Forms
        PROVE  form'[f].event = form[f].event /\ form'[f].page = form[f].page
    BY <1>0, <1>7, <2>1 DEF SwitchAccount, FormType
  <2>2. QED
    BY <1>0, <2>1 DEF FormFits, Ok
<1>8. ASSUME NEW d \in Devices, Exit(d)
      PROVE  FormFits'
  BY <1>0, <1>4, <1>8 DEF Exit, FormFits, Ok
<1>9. ASSUME NEW f \in Forms, SignListing(f)
      PROVE  FormFits'
  <2>1. size + 1 \in Event0
    BY <1>9 DEF SignListing, Sign, Inv, TypeOK, Event0
  <2>2. [form[f] EXCEPT !.last = size + 1] \in FormType
    BY <2>1, Fields, FormUpdates, TaskFields
  <2>3. Ok([form[f] EXCEPT !.last = size + 1])
    BY <1>0 DEF Ok, FormType
  <2>4. QED
    BY <1>1, <1>9, <2>2, <2>3 DEF SignListing
<1>10. ASSUME NEW f \in Forms, NEW S \in SUBSET Relays, NEW H \in SUBSET Forms, Send(f, S, H)
       PROVE  FormFits'
  <2> DEFINE e == task[f].event
             p == task[f].page
  <2>1. ListingOf(log', sent', e, p)
    <3>1. e \in 1..size /\ log[e].kind = "listing" /\ log[e].page = p
      BY <1>10 DEF Send, At, Inv, TaskFits, CallFits
    <3>2. e \in sent' /\ log' = log
      BY <1>10 DEF Send, Stored, events
    <3>3. QED
      BY <3>1, <3>2 DEF ListingOf
  <2> HIDE DEF e, p
  <2>2. ASSUME NEW g \in Forms
        PROVE  \/ form'[g] = form[g]
               \/ form'[g] = [form[g] EXCEPT !.event = e, !.page = p, !.published = TRUE]
    BY <1>10 DEF Send, e, p
  <2>3. ASSUME NEW g \in Forms
        PROVE  Ok(form'[g])
    BY <1>0, <2>1, <2>2 DEF Ok, FormType
  <2>4. QED
    BY <2>3 DEF Ok, FormFits
<1>11. ASSUME NEW f \in Forms, Fail(f)
       PROVE  FormFits'
  BY <1>0, <1>1, <1>4, <1>11 DEF Fail, Answer, FormFits, Ok
<1>12. ASSUME NEW f \in Forms, Finish(f)
       PROVE  FormFits'
  <2> DEFINE r == [form[f] EXCEPT !.at = "open", !.outcome = "Complete", !.published = TRUE,
                                  !.event = task[f].event, !.page = task[f].page]
  <2>1. r \in FormType
    BY Fields, TaskFields, FormUpdates
  <2>2. ListingOf(log', sent', task[f].event, task[f].page)
    BY <1>12, Stays DEF Finish, At, Inv, TaskFits, CallFits
  <2>3. Ok(r)
    BY <1>0, <2>2 DEF Ok, FormType
  <2>4. QED
    BY <1>0, <1>1, <1>4, <1>12, <2>1, <2>3 DEF Finish, Answer, FormFits, Ok
<1>13. CASE UNCHANGED form
  BY <1>0, <1>13 DEF FormFits, Ok
<1>14. QED
  BY <1>2, <1>3, <1>5, <1>6, <1>7, <1>8, <1>9, <1>10, <1>11, <1>12, <1>13
  DEF Next, FormStep, TaskStep, Mint, Check, Recheck, Confirm, Provision, Store, Announce,
      AnnounceUnheard, SendUnheard, RotateKey, vars

(* A call past its first step has its page. *)
LEMMA PagesStep == Inv /\ [Next]_vars => PagesSet'
<1> SUFFICES ASSUME Inv, [Next]_vars PROVE PagesSet'
  OBVIOUS
<1>1. LogFits' /\ TaskFits' /\ NetTyped' /\ EventsTyped'
  BY LogStep, TaskFitsStep, NetStep, EventsStep
<1>2. ASSUME NEW f \in Forms, task'[f].over # 0
      PROVE  task'[f].page \in Pages
  <2>1. ListingOf(log', sent', task'[f].over, task'[f].page)
    BY <1>1, <1>2 DEF TaskFits, CallFits
  <2>2. task'[f].over \in 1..size'
    BY <1>1, <2>1 DEF NetTyped, ListingOf
  <2>3. log'[task'[f].over].page \in Pages
    BY <1>1, <2>2 DEF LogFits, EventFits
  <2>4. QED
    BY <2>1, <2>3 DEF ListingOf
<1>3. ASSUME NEW f \in Forms, task'[f].over = 0, task'[f].at \notin {"idle", "check"}
      PROVE  task'[f].page \in Pages
  <2>1. TasksTyped /\ \A g \in Forms : task[g] \in TaskType
    BY TypeParts, Fields DEF Inv
  <2>2. CASE task'[f] = task[f]
    BY <1>3, <2>2 DEF Inv, TypeOK
  <2>3. CASE task'[f] # task[f]
    <3>1. CASE \E p \in Pages : Mint(f, p)
      BY <2>1, <3>1 DEF Mint, Move, TasksTyped, TaskType
    <3>2. ASSUME NEW V \in SUBSET Relays, Check(f, V)
          PROVE  FALSE
      BY <1>3, <2>1, <3>2 DEF Check, Move, At, TasksTyped, TaskType
    <3>3. ASSUME task'[f] = NoTask
          PROVE  FALSE
      BY <1>3, <3>3 DEF NoTask
    <3>4. ASSUME NEW mode \in Modes, Begin(f, mode)
          PROVE  FALSE
      <4>1. task'[f] = [NoTask EXCEPT !.at = "check", !.mode = mode, !.page = form[f].page,
                                      !.over = form[f].event]
        BY <2>1, <3>4 DEF Begin, Move, TasksTyped
      <4>2. task'[f].at = "check"
        BY <4>1 DEF NoTask
      <4>3. QED
        BY <1>3, <4>2
    <3>5. CASE task'[f].page = task[f].page /\ task[f].at \notin {"idle", "check"}
      BY <3>5, Fields
    <3>6. QED
      <4>1. ASSUME NEW g \in Forms, FormStep(g) \/ TaskStep(g)
            PROVE  g = f
        BY <2>1, <2>3, <4>1
        DEF FormStep, TaskStep, OpenNew, OpenEdit, Leave, Begin, Mint, Check, Recheck, Confirm,
            Provision, Store, Announce, AnnounceUnheard, SignListing, SendUnheard, Send, Finish,
            Fail, Answer, Move, TasksTyped
      <4>2. ASSUME NEW d \in Devices, SwitchAccount(d) \/ Exit(d)
            PROVE  task'[f] = NoTask
        BY <2>1, <2>3, <4>2 DEF SwitchAccount, Exit
      <4>3. ASSUME TaskStep(f)
            PROVE  \/ \E p \in Pages : Mint(f, p)
                   \/ \E V \in SUBSET Relays : Check(f, V)
                   \/ task'[f] = NoTask
                   \/ task'[f].page = task[f].page /\ task[f].at \notin {"idle", "check"}
        <5> DEFINE Same == task'[f].page = task[f].page /\ task[f].at \notin {"idle", "check"}
        <5>1. ASSUME Provision(f) PROVE Same
          <6>1. task'[f] = [task[f] EXCEPT !.at = "store", !.root = size + 1] /\ task[f].at = "provision"
            BY <2>1, <5>1 DEF Provision, Move, At, TasksTyped
          <6>2. QED
            BY <2>1, <6>1 DEF TaskType
        <5>2. ASSUME SignListing(f) PROVE Same
          <6>1. task'[f] = [task[f] EXCEPT !.at = "send", !.event = size + 1] /\ task[f].at = "sign"
            BY <2>1, <5>2 DEF SignListing, Move, At, TasksTyped
          <6>2. QED
            BY <2>1, <6>1 DEF TaskType
        <5>3. ASSUME \E l \in {"announce", "sign", "recheck", "failed", "confirm", "upload"} :
                       Move(f, [task[f] EXCEPT !.at = l]),
                     task[f].at \notin {"idle", "check"}
              PROVE  Same
          <6>1. PICK l \in {"announce", "sign", "recheck", "failed", "confirm", "upload"} :
                       task'[f] = [task[f] EXCEPT !.at = l]
            BY <2>1, <5>3 DEF Move, TasksTyped
          <6>2. QED
            BY <2>1, <5>3, <6>1 DEF TaskType
        <5>4. ASSUME Finish(f) \/ Fail(f) PROVE task'[f] = NoTask
          BY <2>1, <5>4 DEF Finish, Fail, Answer, Move, TasksTyped
        <5>5. ASSUME \/ \E V \in SUBSET Relays : Recheck(f, V) \/ Confirm(f, V)
                     \/ Store(f) \/ Announce(f) \/ AnnounceUnheard(f)
                     \/ \E S \in SUBSET Relays : SendUnheard(f, S) \/ \E H \in SUBSET Forms : Send(f, S, H)
              PROVE  Same
          <6>1. task[f].at \notin {"idle", "check"}
            BY <5>5 DEF Recheck, Confirm, Store, Announce, AnnounceUnheard, SendUnheard, Send, At
          <6>2. \E l \in {"announce", "sign", "recheck", "failed", "confirm", "upload"} :
                  Move(f, [task[f] EXCEPT !.at = l])
            BY <5>5 DEF Recheck, Confirm, Store, Announce, AnnounceUnheard, SendUnheard, Send
          <6>3. QED
            BY <5>3, <6>1, <6>2
        <5> HIDE DEF Same
        <5>6. TaskStep(f) => \/ \E p \in Pages : Mint(f, p)
                             \/ \E V \in SUBSET Relays : Check(f, V)
                             \/ task'[f] = NoTask \/ Same
          BY <5>1, <5>2, <5>4, <5>5 DEF TaskStep
        <5>7. QED
          BY <4>3, <5>6 DEF Same
      <4>4. ASSUME FormStep(f)
            PROVE  \E mode \in Modes : Begin(f, mode)
        BY <2>3, <4>4 DEF FormStep, OpenNew, OpenEdit, Leave
      <4>5. QED
        BY <2>3, <3>1, <3>2, <3>3, <3>5, <3>4, <4>1, <4>2, <4>3, <4>4 DEF Next, RotateKey, vars
  <2>4. QED
    BY <2>2, <2>3
<1>4. QED
  BY <1>2, <1>3 DEF PagesSet

-----------------------------------------------------------------------------
(* Every step preserves the invariant. *)
LEMMA InvStep == Inv /\ [Next]_vars => Inv'
<1> SUFFICES ASSUME Inv, [Next]_vars PROVE Inv'
  OBVIOUS
<1>1. /\ FormsTyped' /\ TasksTyped' /\ EventsTyped' /\ NetTyped' /\ RestTyped' /\ PagesSet'
  BY FormsStep, TasksStep, EventsStep, NetStep, RestStep, PagesStep
<1>2. TypeOK'
  BY <1>1 DEF TypeOK, FormsTyped, TasksTyped, EventsTyped, NetTyped, RestTyped, PagesSet
<1>3. QED
  BY <1>2, LogStep, SentFitsStep, FormFitsStep, TaskFitsStep DEF Inv

(* The invariant always holds. *)
LEMMA InvAlways == Spec => []Inv
  BY InvInit, InvStep, PTL DEF Spec

(* Every state of a publication is well typed, and a call past its first   *)
(* step has its page.                                                      *)
THEOREM PublishingTyped == Spec => []TypeOK
<1>1. Inv => TypeOK
  BY DEF Inv
<1>2. QED
  BY <1>1, InvAlways, PTL

(* Whatever fails, whoever publishes at the same time: a listing names     *)
(* only an authorization for its page that a relay has stored.             *)
THEOREM ListingsNamePublished == Spec => []ListingNamesPublished
<1>1. Inv => ListingNamesPublished
  BY DEF Inv, LogFits, EventFits, RootOf, ListingNamesPublished
<1>2. QED
  BY <1>1, InvAlways, PTL

-----------------------------------------------------------------------------
(* What the steps do, field by field.                                      *)
Others(f) == \A g \in Forms \ {f} : form'[g] = form[g]
OtherTasks(f) == \A g \in Forms \ {f} : task'[g] = task[g]
SameLog == log' = log /\ size' = size
SameNet == relay' = relay /\ sent' = sent /\ known' = known

(* A new form opens empty.                                               *)
LEMMA OpenNewDoes ==
  ASSUME Inv, NEW f \in Forms, OpenNew(f)
  PROVE  /\ form[f].at = "unopened" /\ Showing(DeviceOf[f]) = {} /\ Others(f)
         /\ form'[f] = [form[f] EXCEPT !.at = "open"]
         /\ form'[f].at = "open" /\ form'[f].event = form[f].event /\ form'[f].page = form[f].page
         /\ form'[f].key = form[f].key /\ form'[f].home = form[f].home
         /\ form'[f].outcome = form[f].outcome /\ form'[f].last = form[f].last
         /\ task' = task /\ SameLog /\ SameNet /\ rows' = rows /\ unheard' = unheard
<1>1. form[f] \in FormType /\ form \in [Forms -> FormType]
  BY DEF Inv, TypeOK
<1>2. QED
  BY <1>1 DEF OpenNew, Put, Others, SameLog, SameNet, events, net, world, FormType

(* A form opens on a listing that is published.                          *)
LEMMA OpenEditDoes ==
  ASSUME Inv, NEW f \in Forms, NEW l \in sent, OpenEdit(f, l)
  PROVE  /\ form[f].at = "unopened" /\ Showing(DeviceOf[f]) = {} /\ Others(f)
         /\ form'[f].at = "open" /\ form'[f].event = l /\ form'[f].page = log[l].page
         /\ form'[f].key = KeyOf(l) /\ form'[f].home = log[l].page
         /\ form'[f].outcome = form[f].outcome /\ form'[f].last = form[f].last
         /\ task' = task /\ SameLog /\ SameNet /\ rows' = rows /\ unheard' = unheard
<1>1. form[f] \in FormType /\ form \in [Forms -> FormType]
  BY DEF Inv, TypeOK
<1>2. QED
  BY <1>1 DEF OpenEdit, Put, Others, SameLog, SameNet, events, net, world, FormType

(* What is left of a closed form.                                        *)
LEMMA ClosedIs ==
  ASSUME NEW f \in Forms
  PROVE  /\ Closed(f).at = "gone" /\ Closed(f).event = 0 /\ Closed(f).key = form[f].key
         /\ Closed(f).home = form[f].home /\ Closed(f).last = 0
  BY DEF Closed, Unopened

(* A form is left.                                                       *)
LEMMA LeaveDoes ==
  ASSUME Inv, NEW f \in Forms, Leave(f)
  PROVE  /\ form[f].at = "open" \/ (MayLeave /\ form[f].at = "publishing")
         /\ form'[f] = Closed(f) /\ Others(f)
         /\ task' = task /\ SameLog /\ SameNet /\ rows' = rows /\ unheard' = unheard
<1>1. form[f] \in FormType /\ form \in [Forms -> FormType]
  BY DEF Inv, TypeOK
<1>2. QED
  BY <1>1 DEF Leave, Put, Others, SameLog, SameNet, events, net, world

(* A request starts a call with the listing the form shows.              *)
LEMMA BeginDoes ==
  ASSUME Inv, NEW f \in Forms, NEW mode \in Modes, Begin(f, mode)
  PROVE  /\ form[f].at = "open" /\ Others(f) /\ OtherTasks(f)
         /\ form'[f].at = "publishing" /\ form'[f].event = form[f].event /\ form'[f].page = form[f].page
         /\ form'[f].key = form[f].key /\ form'[f].home = form[f].home
         /\ ~form'[f].published /\ form'[f].last = 0
         /\ task'[f].at = "check" /\ task'[f].page = form[f].page /\ task'[f].over = form[f].event
         /\ task'[f].root = 0
         /\ SameLog /\ SameNet /\ rows' = rows /\ unheard' = unheard
<1>1. form[f] \in FormType /\ form \in [Forms -> FormType] /\ task \in [Forms -> TaskType]
  BY DEF Inv, TypeOK
<1>2. QED
  BY <1>1 DEF Begin, Put, Move, NoTask, Others, OtherTasks, SameLog, SameNet, events, net, FormType

(* Another account only makes the forms stale.                           *)
LEMMA SwitchDoes ==
  ASSUME Inv, NEW d \in Devices, SwitchAccount(d)
  PROVE  /\ \A f \in Forms :
              /\ form'[f].at = form[f].at /\ form'[f].event = form[f].event
              /\ form'[f].page = form[f].page /\ form'[f].key = form[f].key
              /\ form'[f].home = form[f].home /\ (form'[f].published <=> form[f].published)
              /\ form'[f].outcome = form[f].outcome /\ form'[f].last = form[f].last
              /\ form[f].at # "publishing" => form'[f] = form[f]
         /\ task' = task /\ SameLog /\ SameNet /\ rows' = rows /\ unheard' = unheard
<1>1. form \in [Forms -> FormType]
  BY DEF Inv, TypeOK
<1>2. ASSUME NEW f \in Forms
      PROVE  /\ form[f] \in FormType
             /\ form'[f] = form[f] \/ form'[f] = [form[f] EXCEPT !.stale = TRUE]
             /\ form[f].at # "publishing" => form'[f] = form[f]
  BY <1>1 DEF SwitchAccount
<1>3. QED
  BY <1>1, <1>2 DEF SwitchAccount, SameLog, SameNet, events, net, FormType

(* An exit closes the forms of the device and ends its calls.            *)
LEMMA ExitDoes ==
  ASSUME Inv, NEW d \in Devices, Exit(d)
  PROVE  /\ \A f \in Forms :
              /\ f \in Showing(d) => form'[f] = Closed(f)
              /\ f \notin Showing(d) => form'[f] = form[f]
              /\ DeviceOf[f] = d => task'[f] = NoTask
              /\ DeviceOf[f] # d => task'[f] = task[f]
         /\ SameLog /\ SameNet /\ rows' = rows /\ unheard' = unheard
  BY DEF Exit, SameLog, SameNet, events, net

(* Steps of a call that write nothing but the call.                        *)
LEMMA MoveDoes ==
  ASSUME Inv, NEW f \in Forms,
         NEW l \in {"announce", "sign", "recheck", "failed", "confirm", "upload"},
         Move(f, [task[f] EXCEPT !.at = l])
  PROVE  /\ task'[f].at = l /\ task'[f].page = task[f].page /\ task'[f].over = task[f].over
         /\ task'[f].root = task[f].root /\ task'[f].carry = task[f].carry
         /\ task'[f].event = task[f].event /\ OtherTasks(f)
<1>1. task[f] \in TaskType /\ task \in [Forms -> TaskType]
  BY DEF Inv, TypeOK
<1>2. QED
  BY <1>1 DEF Move, OtherTasks, TaskType

(* A first publication gets its page.                                    *)
LEMMA MintDoes ==
  ASSUME Inv, NEW f \in Forms, NEW p \in Pages, Mint(f, p)
  PROVE  /\ task[f].at = "check" /\ task[f].over = 0
         /\ task'[f].at \in {"provision", "sign", "recheck"}
         /\ task'[f].page = p /\ task'[f].over = 0 /\ task'[f].root = task[f].root
         /\ OtherTasks(f) /\ form' = form
         /\ SameLog /\ SameNet /\ rows' = rows /\ unheard' = unheard
<1>1. task[f] \in TaskType /\ task \in [Forms -> TaskType]
  BY DEF Inv, TypeOK
<1>2. QED
  BY <1>1 DEF Mint, At, AfterCheck, Move, OtherTasks, TaskType, SameLog, SameNet, events, net

(* An edit has found the listing it replaces.                            *)
LEMMA CheckDoes ==
  ASSUME Inv, NEW f \in Forms, NEW V \in SUBSET Relays, Check(f, V)
  PROVE  /\ task[f].at = "check" /\ task[f].over # 0
         /\ task'[f].at \in {"provision", "sign", "recheck"}
         /\ task'[f].page = task[f].page /\ task'[f].over = task[f].over
         /\ task'[f].root = task[f].root
         /\ OtherTasks(f) /\ form' = form
         /\ SameLog /\ SameNet /\ rows' = rows /\ unheard' = unheard
<1>1. task[f] \in TaskType /\ task \in [Forms -> TaskType]
  BY DEF Inv, TypeOK
<1>2. QED
  BY <1>1 DEF Check, At, AfterCheck, Move, OtherTasks, TaskType, SameLog, SameNet, events, net, world

(* A root is signed, with the key of the form.                           *)
LEMMA ProvisionDoes ==
  ASSUME Inv, NEW f \in Forms, Provision(f)
  PROVE  /\ task[f].at = "provision" /\ task'[f].at = "store"
         /\ task'[f].page = task[f].page /\ task'[f].over = task[f].over
         /\ task'[f].root = size + 1
         /\ size' = size + 1 /\ size + 1 \in Event0 /\ \A x \in 1..size : log'[x] = log[x]
         /\ log'[size + 1].kind = "root" /\ log'[size + 1].by = f
         /\ log'[size + 1].page = task[f].page
         /\ form[f].key # None => log'[size + 1].key = form[f].key
         /\ OtherTasks(f) /\ form' = form
         /\ SameNet /\ rows' = rows /\ unheard' = unheard
<1>1. task[f] \in TaskType /\ task \in [Forms -> TaskType] /\ EventsTyped
  BY TypeParts DEF Inv, TypeOK
<1>2. Root(f, task[f].page, server[task[f].page]) \in EventType
  BY NewRoot DEF Provision
<1>3. /\ size' = size + 1 /\ size + 1 \in Event0 /\ \A x \in 1..size : log'[x] = log[x]
      /\ log'[size + 1] = Root(f, task[f].page, server[task[f].page])
  BY <1>1, <1>2, SignEvent DEF Provision
<1>4. /\ log'[size + 1].kind = "root" /\ log'[size + 1].by = f
      /\ log'[size + 1].page = task[f].page
      /\ form[f].key # None => log'[size + 1].key = form[f].key
  BY <1>3 DEF Root, Provision
<1>5. QED
  BY <1>1, <1>3, <1>4 DEF Provision, At, Move, OtherTasks, TaskType, SameNet, net, world

(* A listing is signed.                                                  *)
LEMMA SignListingDoes ==
  ASSUME Inv, NEW f \in Forms, SignListing(f)
  PROVE  /\ task[f].at = "sign" /\ task'[f].at = "send"
         /\ task'[f].page = task[f].page /\ task'[f].over = task[f].over
         /\ task'[f].root = task[f].root /\ task'[f].event = size + 1
         /\ size' = size + 1 /\ size + 1 \in Event0 /\ \A x \in 1..size : log'[x] = log[x]
         /\ log'[size + 1].kind = "listing" /\ log'[size + 1].by = f
         /\ log'[size + 1].page = task[f].page /\ log'[size + 1].over = task[f].over
         /\ log'[size + 1].auth = Named(f)
         /\ form'[f].at = form[f].at /\ form'[f].event = form[f].event
         /\ form'[f].page = form[f].page /\ form'[f].key = form[f].key
         /\ form'[f].home = form[f].home /\ (form'[f].published <=> form[f].published)
         /\ form'[f].outcome = form[f].outcome /\ form'[f].last = size + 1
         /\ Others(f) /\ OtherTasks(f)
         /\ SameNet /\ rows' = rows /\ unheard' = unheard
<1>1. task[f] \in TaskType /\ task \in [Forms -> TaskType] /\ EventsTyped
  BY TypeParts DEF Inv, TypeOK
<1>2. form[f] \in FormType /\ form \in [Forms -> FormType]
  BY DEF Inv, TypeOK
<1>3. Listing(f, task[f].page, Named(f), task[f].over) \in EventType
  BY NewListing DEF SignListing
<1>4. /\ size' = size + 1 /\ size + 1 \in Event0 /\ \A x \in 1..size : log'[x] = log[x]
      /\ log'[size + 1] = Listing(f, task[f].page, Named(f), task[f].over)
  BY <1>1, <1>3, SignEvent DEF SignListing, Named
<1>5. /\ log'[size + 1].kind = "listing" /\ log'[size + 1].by = f
      /\ log'[size + 1].page = task[f].page /\ log'[size + 1].over = task[f].over
      /\ log'[size + 1].auth = Named(f)
  BY <1>4 DEF Listing
<1>6. /\ task[f].at = "sign" /\ task'[f].at = "send"
      /\ task'[f].page = task[f].page /\ task'[f].over = task[f].over
      /\ task'[f].root = task[f].root /\ task'[f].event = size + 1 /\ OtherTasks(f)
  BY <1>1 DEF SignListing, At, Move, OtherTasks, TaskType
<1>7. QED
  BY <1>2, <1>4, <1>5, <1>6 DEF SignListing, Put, Others, FormType, SameNet, net, world

(* The row is written.                                                   *)
LEMMA StoreDoes ==
  ASSUME Inv, NEW f \in Forms, Store(f)
  PROVE  /\ task[f].at = "store" /\ task'[f].at = "announce"
         /\ task'[f].page = task[f].page /\ task'[f].over = task[f].over
         /\ task'[f].root = task[f].root
         /\ rows' = [rows EXCEPT ![DeviceOf[f]][task[f].page] = task[f].root]
         /\ OtherTasks(f) /\ form' = form /\ SameLog /\ SameNet /\ unheard' = unheard
<1>1. Move(f, [task[f] EXCEPT !.at = "announce"])
  BY DEF Store
<1>2. QED
  BY <1>1, MoveDoes DEF Store, At, SameLog, SameNet, events, net, world

(* The root is at a relay.                                               *)
LEMMA AnnounceDoes ==
  ASSUME Inv, NEW f \in Forms, Announce(f) \/ AnnounceUnheard(f)
  PROVE  /\ task[f].at = "announce" /\ task'[f].at \in {"sign", "recheck", "failed"}
         /\ task'[f].page = task[f].page /\ task'[f].over = task[f].over
         /\ task'[f].root = task[f].root
         /\ known' = known \cup {task[f].root} /\ sent' = sent /\ relay' = relay
         /\ OtherTasks(f) /\ form' = form /\ SameLog /\ rows' = rows /\ unheard' = unheard
<1>1. PICK l \in {"sign", "recheck", "failed"} : Move(f, [task[f] EXCEPT !.at = l])
  BY DEF Announce, AnnounceUnheard
<1>2. /\ task'[f].at = l /\ task'[f].page = task[f].page /\ task'[f].over = task[f].over
      /\ task'[f].root = task[f].root /\ OtherTasks(f)
  BY <1>1, MoveDoes
<1>3. /\ task[f].at = "announce" /\ known' = known \cup {task[f].root}
      /\ sent' = sent /\ relay' = relay /\ form' = form /\ SameLog /\ rows' = rows
      /\ unheard' = unheard
  BY DEF Announce, AnnounceUnheard, At, SameLog, events, world
<1>4. QED
  BY <1>2, <1>3

(* The second look before the signature.                                 *)
LEMMA RecheckDoes ==
  ASSUME Inv, NEW f \in Forms, NEW V \in SUBSET Relays, Recheck(f, V)
  PROVE  /\ task[f].at = "recheck" /\ task'[f].at = "sign"
         /\ task'[f].page = task[f].page /\ task'[f].over = task[f].over
         /\ task'[f].root = task[f].root
         /\ OtherTasks(f) /\ form' = form
         /\ SameLog /\ SameNet /\ rows' = rows /\ unheard' = unheard
<1>1. Move(f, [task[f] EXCEPT !.at = "sign"])
  BY DEF Recheck
<1>2. QED
  BY <1>1, MoveDoes DEF Recheck, At, SameLog, SameNet, events, net, world

(* Two relays have shown the page.                                       *)
LEMMA ConfirmDoes ==
  ASSUME Inv, NEW f \in Forms, NEW V \in SUBSET Relays, Confirm(f, V)
  PROVE  /\ task[f].at = "confirm" /\ task'[f].at = "upload"
         /\ task'[f].page = task[f].page /\ task'[f].over = task[f].over
         /\ task'[f].root = task[f].root /\ task'[f].event = task[f].event
         /\ Cardinality({r \in V : relay[r][task[f].page] # 0}) >= 2
         /\ OtherTasks(f) /\ form' = form
         /\ SameLog /\ SameNet /\ rows' = rows /\ unheard' = unheard
<1>1. Move(f, [task[f] EXCEPT !.at = "upload"])
  BY DEF Confirm
<1>2. QED
  BY <1>1, MoveDoes DEF Confirm, At, SameLog, SameNet, events, net, world

(* A listing is stored and nobody hears of it.                           *)
LEMMA SendUnheardDoes ==
  ASSUME Inv, NEW f \in Forms, NEW S \in SUBSET Relays, SendUnheard(f, S)
  PROVE  /\ task[f].at = "send" /\ task'[f].at = "failed"
         /\ task'[f].page = task[f].page /\ task'[f].over = task[f].over
         /\ task'[f].root = task[f].root /\ task'[f].event = task[f].event
         /\ task[f].event \in 1..size /\ task[f].page \in Pages
         /\ sent' = sent \cup {task[f].event} /\ unheard' = unheard \cup {task[f].event}
         /\ Stored(task[f].event, task[f].page, S)
         /\ known' = known
         /\ OtherTasks(f) /\ form' = form /\ SameLog /\ rows' = rows
<1>1. Move(f, [task[f] EXCEPT !.at = "failed"]) /\ task[f].at = "send"
  BY DEF SendUnheard, At
<1>2. task[f].event \in 1..size /\ task[f].page \in Pages
  BY <1>1, Fields DEF Inv, TaskFits, CallFits
<1>3. QED
  BY <1>1, <1>2, MoveDoes DEF SendUnheard, Stored, SameLog, events

(* A send tells the forms of H.                                            *)
LEMMA SendForms ==
  ASSUME Inv, NEW f \in Forms, NEW S \in SUBSET Relays, NEW H \in SUBSET Forms, Send(f, S, H),
         NEW g \in Forms
  PROVE  /\ form'[g].at = form[g].at /\ form'[g].key = form[g].key
         /\ form'[g].home = form[g].home /\ form'[g].outcome = form[g].outcome
         /\ form'[g].last = form[g].last
         /\ g \notin H => form'[g] = form[g]
<1>1. form[g] \in FormType
  BY Fields
<1>2. form'[g] = IF g \in H THEN [form[g] EXCEPT !.event = task[f].event, !.page = task[f].page,
                                                  !.published = TRUE] ELSE form[g]
  BY DEF Send
<1>3. QED
  BY <1>1, <1>2 DEF FormType

(* The forms that hear of the listing show it.                           *)
LEMMA SendTells ==
  ASSUME Inv, NEW f \in Forms, NEW S \in SUBSET Relays, NEW H \in SUBSET Forms, Send(f, S, H),
         NEW g \in H
  PROVE  /\ form[g].at = "publishing" /\ DeviceOf[g] = DeviceOf[f]
         /\ form'[g].event = task[f].event /\ form'[g].page = task[f].page
         /\ form'[g].published
<1>1. g \in Forms
  OBVIOUS
<1>2. form[g] \in FormType
  BY <1>1, Fields
<1>3. form'[g] = [form[g] EXCEPT !.event = task[f].event, !.page = task[f].page,
                                  !.published = TRUE]
  BY <1>1 DEF Send
<1>4. form[g].at = "publishing" /\ DeviceOf[g] = DeviceOf[f]
  BY DEF Send, Listening
<1>5. QED
  BY <1>2, <1>3, <1>4 DEF FormType

(* A listing is stored.                                                  *)
LEMMA SendDoes ==
  ASSUME Inv, NEW f \in Forms, NEW S \in SUBSET Relays, NEW H \in SUBSET Forms, Send(f, S, H)
  PROVE  /\ task[f].at = "send" /\ task'[f].at = "confirm"
         /\ task'[f].page = task[f].page /\ task'[f].over = task[f].over
         /\ task'[f].root = task[f].root /\ task'[f].event = task[f].event
         /\ task[f].event \in 1..size /\ task[f].page \in Pages
         /\ log[task[f].event].kind = "listing" /\ log[task[f].event].page = task[f].page
         /\ log[task[f].event].by = f
         /\ sent' = sent \cup {task[f].event}
         /\ f \in H \/ unheard' = unheard \cup {task[f].event}
         /\ unheard' \in {unheard, unheard \cup {task[f].event}}
         /\ Stored(task[f].event, task[f].page, S)
         /\ known' = known /\ OtherTasks(f) /\ SameLog /\ rows' = rows
<1>1. Move(f, [task[f] EXCEPT !.at = "confirm"]) /\ task[f].at = "send"
  BY DEF Send, At
<1>2. /\ task[f].event \in 1..size /\ task[f].page \in Pages
      /\ log[task[f].event].kind = "listing" /\ log[task[f].event].page = task[f].page
      /\ log[task[f].event].by = f
  BY <1>1, Fields DEF Inv, TaskFits, CallFits
<1>3. /\ f \in H \/ unheard' = unheard \cup {task[f].event}
      /\ unheard' \in {unheard, unheard \cup {task[f].event}}
  BY DEF Send
<1>4. QED
  BY <1>1, <1>2, <1>3, MoveDoes DEF Send, Stored, SameLog, events

(* What an answer leaves: the call is over, and a form that still waits    *)
(* for it is open again.                                                   *)
LEMMA EndDoes ==
  ASSUME Inv, NEW f \in Forms, Finish(f) \/ Fail(f)
  PROVE  /\ task[f].at # "idle" /\ task'[f] = NoTask /\ OtherTasks(f) /\ Others(f)
         /\ form[f].at # "publishing" => form'[f] = form[f]
         /\ form[f].at = "publishing" =>
              /\ form'[f].at = "open" /\ form'[f].key = form[f].key
              /\ form'[f].home = form[f].home /\ form'[f].last = form[f].last
              /\ \/ /\ form'[f].event = form[f].event /\ form'[f].page = form[f].page
                    /\ form'[f].outcome = IF form[f].published THEN "Partial" ELSE "Failed"
                 \/ /\ task[f].at = "upload" /\ form'[f].outcome = "Complete"
                    /\ form'[f].event = task[f].event /\ form'[f].page = task[f].page
         /\ SameLog /\ SameNet /\ rows' = rows /\ unheard' = unheard
<1>1. form[f] \in FormType /\ form \in [Forms -> FormType] /\ task \in [Forms -> TaskType]
  BY DEF Inv, TypeOK
<1>2. /\ task[f].at # "idle" /\ task'[f] = NoTask /\ OtherTasks(f)
      /\ SameLog /\ SameNet /\ rows' = rows /\ unheard' = unheard
      /\ form[f].at # "publishing" => form' = form
  BY <1>1 DEF Finish, Fail, At, Answer, Move, OtherTasks, SameLog, SameNet, events, net, world
<1>3. /\ Unfinished(f).at = "open" /\ Unfinished(f).key = form[f].key
      /\ Unfinished(f).home = form[f].home /\ Unfinished(f).last = form[f].last
      /\ Unfinished(f).event = form[f].event /\ Unfinished(f).page = form[f].page
      /\ Unfinished(f).outcome = IF form[f].published THEN "Partial" ELSE "Failed"
  BY <1>1 DEF Unfinished, FormType
<1>4. CASE form[f].at = "publishing"
  <2> DEFINE c == [form[f] EXCEPT !.at = "open", !.outcome = "Complete", !.published = TRUE,
                                  !.event = task[f].event, !.page = task[f].page]
  <2>1. /\ c.at = "open" /\ c.key = form[f].key /\ c.home = form[f].home
        /\ c.last = form[f].last /\ c.outcome = "Complete"
        /\ c.event = task[f].event /\ c.page = task[f].page
    BY <1>1 DEF FormType
  <2> HIDE DEF c
  <2>2. Others(f) /\ (form'[f] = Unfinished(f) \/ (form'[f] = c /\ task[f].at = "upload"))
    BY <1>1, <1>4 DEF Finish, Fail, At, Answer, Put, Others, c
  <2>3. QED
    BY <1>2, <1>3, <1>4, <2>1, <2>2
<1>5. QED
  BY <1>2, <1>4 DEF Others

-----------------------------------------------------------------------------
(* Who may be at work: a form that is shown is the only one of its device, *)
(* a call belongs to a form that publishes or was left, and an unopened    *)
(* form has no past.  A call past its signature has signed its listing.    *)
Shown(f) == form[f].at \in {"open", "publishing"}

Working == \A f \in Forms :
  /\ form[f].at = "publishing" => task[f].at # "idle"
  /\ task[f].at # "idle" => form[f].at = "publishing" \/ Left(f)
  /\ form[f].at = "unopened" => form[f] = Unopened /\ \A e \in 1..size : log[e].by # f
  /\ Shown(f) => \A g \in Forms : Beside(f, g) => ~Shown(g)

SignedOwn(t, f, L, n) ==
  t.at \in {"send", "confirm", "upload"} =>
    /\ t.event \in 1..n /\ L[t.event].kind = "listing"
    /\ L[t.event].by = f /\ L[t.event].over = t.over

Owned == \A f \in Forms : SignedOwn(task[f], f, log, size)

(* What no step takes back.                                                *)
LEMMA Kept ==
  ASSUME Inv, [Next]_vars
  PROVE  /\ size \in Nat /\ size' \in {size, size + 1}
         /\ \A x \in 1..size : x \in 1..size' /\ log'[x] = log[x]
         /\ sent \subseteq 1..size /\ known \subseteq 1..size /\ unheard \subseteq 1..size
         /\ sent \subseteq sent' /\ known \subseteq known'
<1>1. /\ sent \subseteq 1..size /\ known \subseteq 1..size /\ size \in Nat
      /\ unheard \subseteq 1..size
      /\ size' \in {size, size + 1} /\ \A x \in 1..size : log'[x] = log[x]
  BY EventsStep DEF Inv, TypeOK, Event0
<1>2. QED
  BY <1>1, NetStep

(* Of two forms of a device, one at work and one shown, the first was left. *)
LEMMA OneShown ==
  ASSUME Working, NEW f \in Forms, NEW g \in Forms, Beside(f, g),
         form[f].at = "publishing" \/ task[f].at # "idle", Shown(g)
  PROVE  Left(f)
  BY DEF Working, Shown, Beside

(* A form that was opened stays so, with its key and its home.             *)
LEMMA FormKept ==
  ASSUME Inv, [Next]_vars, NEW f \in Forms, form[f].at # "unopened"
  PROVE  /\ form'[f].at # "unopened" /\ form'[f].key = form[f].key /\ form'[f].home = form[f].home
         /\ Left(f) => Left(f)'
<1> DEFINE Same == /\ form'[f].at # "unopened" /\ form'[f].key = form[f].key
                   /\ form'[f].home = form[f].home
                   /\ form[f].at = "gone" => form'[f].at = "gone"
<1>1. ASSUME NEW g \in Forms, OpenNew(g) PROVE Same
  BY <1>1, OpenNewDoes DEF Others
<1>2. ASSUME NEW g \in Forms, NEW l \in sent, OpenEdit(g, l) PROVE Same
  BY <1>2, OpenEditDoes DEF Others
<1>3. ASSUME NEW g \in Forms, Leave(g) PROVE Same
  BY <1>3, LeaveDoes, ClosedIs DEF Others
<1>4. ASSUME NEW g \in Forms, NEW mode \in Modes, Begin(g, mode) PROVE Same
  BY <1>4, BeginDoes DEF Others
<1>5. ASSUME NEW d \in Devices, SwitchAccount(d) PROVE Same
  BY <1>5, SwitchDoes
<1>6. ASSUME NEW d \in Devices, Exit(d) PROVE Same
  BY <1>6, ExitDoes, ClosedIs DEF Showing
<1>7. ASSUME NEW g \in Forms, SignListing(g) PROVE Same
  BY <1>7, SignListingDoes DEF Others
<1>8. ASSUME NEW g \in Forms, NEW S \in SUBSET Relays, NEW H \in SUBSET Forms, Send(g, S, H) PROVE Same
  BY <1>8, SendForms
<1>9. ASSUME NEW g \in Forms, Finish(g) \/ Fail(g) PROVE Same
  BY <1>9, EndDoes DEF Others
<1>10. ASSUME form' = form PROVE Same
  BY <1>10
<1> HIDE DEF Same
<1>11. Same
  BY <1>1, <1>2, <1>3, <1>4, <1>5, <1>6, <1>7, <1>8, <1>9, <1>10
  DEF Next, FormStep, TaskStep, Mint, Check, Recheck, Confirm, Provision, Store, Announce,
      AnnounceUnheard, SendUnheard, RotateKey, vars
<1>12. QED
  BY <1>11 DEF Same, Left

-----------------------------------------------------------------------------
(* At the start nobody works.                                            *)
LEMMA WorkingInit == Init => Working /\ Owned
  BY DEF Init, Working, Owned, SignedOwn, Left, Shown, Beside, Unopened, NoTask

(* A step of a call that leaves the forms alone.                           *)
LEMMA WorkingCall ==
  ASSUME Working, NEW f \in Forms, task[f].at # "idle", task'[f].at # "idle",
         OtherTasks(f),
         \A g \in Forms : /\ form'[g].at = form[g].at
                          /\ form[g].at = "unopened" => form'[g] = form[g],
         \A g \in Forms \ {f} : \A e \in 1..size' : log'[e].by = g => e \in 1..size /\ log[e].by = g
  PROVE  Working'
<1>1. form[f].at # "unopened"
  BY DEF Working, Left
<1>2. QED
  BY <1>1 DEF Working, Left, Shown, Beside, OtherTasks

(* Every step keeps one form at work per device, apart from those left.  *)
LEMMA WorkingStep == Inv /\ Working /\ [Next]_vars => Working'
<1> SUFFICES ASSUME Inv, Working, [Next]_vars PROVE Working'
  OBVIOUS
<1>1. ASSUME NEW f \in Forms, OpenNew(f) \/ \E l \in sent : OpenEdit(f, l) PROVE Working'
  <2>1. /\ form[f].at = "unopened" /\ Showing(DeviceOf[f]) = {} /\ Others(f)
        /\ form'[f].at = "open" /\ task' = task /\ SameLog
    BY <1>1, OpenNewDoes, OpenEditDoes
  <2>2. QED
    BY <2>1 DEF Working, Left, Shown, Showing, Beside, Others, SameLog
<1>2. ASSUME NEW f \in Forms, Leave(f) PROVE Working'
  BY <1>2, LeaveDoes, ClosedIs DEF Working, Left, Shown, Beside, Others, SameLog
<1>3. ASSUME NEW f \in Forms, NEW mode \in Modes, Begin(f, mode) PROVE Working'
  <2>1. /\ form[f].at = "open" /\ Others(f) /\ OtherTasks(f) /\ SameLog
        /\ form'[f].at = "publishing" /\ task'[f].at = "check"
    BY <1>3, BeginDoes
  <2>2. QED
    BY <2>1 DEF Working, Left, Shown, Beside, Others, OtherTasks, SameLog
<1>4. ASSUME NEW d \in Devices, SwitchAccount(d) PROVE Working'
  BY <1>4, SwitchDoes DEF Working, Left, Shown, Beside, SameLog
<1>5. ASSUME NEW d \in Devices, Exit(d) PROVE Working'
  <2>1. ASSUME NEW f \in Forms
        PROVE  /\ form'[f].at = "publishing" => form[f].at = "publishing" /\ task'[f] = task[f]
               /\ task'[f].at # "idle" => task'[f] = task[f] /\ form'[f] = form[f]
               /\ form'[f].at = "unopened" => form'[f] = form[f]
               /\ form'[f].at \in {"open", "publishing"} => form'[f] = form[f]
    BY <1>5, ExitDoes, ClosedIs DEF Showing, NoTask
  <2>2. SameLog
    BY <1>5, ExitDoes
  <2>3. QED
    BY <2>1, <2>2 DEF Working, Left, Shown, Beside, SameLog
<1>6. ASSUME NEW f \in Forms,
             \/ \E p \in Pages : Mint(f, p)
             \/ \E V \in SUBSET Relays : Check(f, V) \/ Recheck(f, V) \/ Confirm(f, V)
             \/ Store(f) \/ Announce(f) \/ AnnounceUnheard(f)
             \/ \E S \in SUBSET Relays : SendUnheard(f, S)
      PROVE  Working'
  <2>1. /\ task[f].at # "idle" /\ task'[f].at # "idle" /\ OtherTasks(f) /\ form' = form /\ SameLog
    BY <1>6, MintDoes, CheckDoes, RecheckDoes, ConfirmDoes, StoreDoes, AnnounceDoes, SendUnheardDoes
  <2>2. QED
    BY <2>1, WorkingCall DEF SameLog
<1>7. ASSUME NEW f \in Forms, Provision(f) \/ SignListing(f) PROVE Working'
  <2>1. /\ task[f].at # "idle" /\ task'[f].at # "idle" /\ OtherTasks(f)
        /\ form'[f].at = form[f].at /\ Others(f) /\ form[f].at # "unopened"
        /\ log'[size + 1].by = f /\ size' = size + 1
    BY <1>7, ProvisionDoes, SignListingDoes DEF Others, Working, Left
  <2>2. \A g \in Forms \ {f} : \A e \in 1..size' : log'[e].by = g => e \in 1..size /\ log[e].by = g
    BY <2>1, Kept
  <2>3. QED
    BY <2>1, <2>2, WorkingCall DEF Others
<1>8. ASSUME NEW f \in Forms, NEW S \in SUBSET Relays, NEW H \in SUBSET Forms, Send(f, S, H) PROVE Working'
  <2>1. /\ task[f].at # "idle" /\ task'[f].at # "idle" /\ OtherTasks(f) /\ SameLog
        /\ \A g \in Forms : /\ form'[g].at = form[g].at
                            /\ form[g].at = "unopened" => form'[g] = form[g]
    <3>1. \A g \in Forms : form'[g].at = form[g].at
      BY <1>8, SendForms
    <3>2. \A g \in H : form[g].at = "publishing"
      BY <1>8, SendTells
    <3>3. \A g \in Forms \ H : form'[g] = form[g]
      BY <1>8, SendForms
    <3>4. QED
      BY <1>8, <3>1, <3>2, <3>3, SendDoes
  <2>2. QED
    BY <2>1, WorkingCall DEF SameLog
<1>9. ASSUME NEW f \in Forms, Finish(f) \/ Fail(f) PROVE Working'
  <2>1. /\ task[f].at # "idle" /\ task'[f].at = "idle" /\ OtherTasks(f) /\ Others(f) /\ SameLog
        /\ form[f].at # "publishing" => form'[f] = form[f]
        /\ form[f].at = "publishing" => form'[f].at = "open"
    BY <1>9, EndDoes DEF NoTask
  <2>2. QED
    BY <2>1 DEF Working, Left, Shown, Beside, Others, OtherTasks, SameLog
<1>10. CASE UNCHANGED <<form, task, events>>
  BY <1>10 DEF Working, Left, Shown, Beside, events
<1>11. QED
  BY <1>1, <1>2, <1>3, <1>4, <1>5, <1>6, <1>7, <1>8, <1>9, <1>10
  DEF Next, FormStep, TaskStep, RotateKey, vars

(* A call changes by a step of its own, by a new request or by an exit.    *)
LEMMA TaskCases ==
  ASSUME Inv, [Next]_vars, NEW f \in Forms
  PROVE  \/ task'[f] = task[f] \/ task'[f] = NoTask
         \/ \E mode \in Modes : Begin(f, mode)
         \/ TaskStep(f)
<1>1. ASSUME NEW g \in Forms, FormStep(g), g # f
      PROVE  task'[f] = task[f]
  <2>1. ASSUME NEW mode \in Modes, Begin(g, mode) PROVE task'[f] = task[f]
    BY <1>1, <2>1, BeginDoes DEF OtherTasks
  <2>2. QED
    BY <1>1, <2>1 DEF FormStep, OpenNew, OpenEdit, Leave
<1>2. ASSUME NEW g \in Forms, TaskStep(g), g # f
      PROVE  task'[f] = task[f]
  <2>1. ASSUME NEW S \in SUBSET Relays, NEW H \in SUBSET Forms, Send(g, S, H) PROVE OtherTasks(g)
    BY <2>1, SendDoes
  <2>2. ASSUME NEW S \in SUBSET Relays, SendUnheard(g, S) PROVE OtherTasks(g)
    BY <2>2, SendUnheardDoes
  <2>3. ASSUME NEW V \in SUBSET Relays, Check(g, V) \/ Recheck(g, V) \/ Confirm(g, V) PROVE OtherTasks(g)
    BY <2>3, CheckDoes, RecheckDoes, ConfirmDoes
  <2>4. ASSUME NEW p \in Pages, Mint(g, p) PROVE OtherTasks(g)
    BY <2>4, MintDoes
  <2>5. ASSUME Provision(g) \/ Store(g) \/ SignListing(g) PROVE OtherTasks(g)
    BY <2>5, ProvisionDoes, StoreDoes, SignListingDoes
  <2>6. ASSUME Announce(g) \/ AnnounceUnheard(g) PROVE OtherTasks(g)
    BY <2>6, AnnounceDoes
  <2>7. ASSUME Finish(g) \/ Fail(g) PROVE OtherTasks(g)
    BY <2>7, EndDoes
  <2>8. OtherTasks(g)
    BY <1>2, <2>1, <2>2, <2>3, <2>4, <2>5, <2>6, <2>7 DEF TaskStep
  <2>9. QED
    BY <1>2, <2>8 DEF OtherTasks
<1>3. ASSUME NEW d \in Devices, SwitchAccount(d) \/ Exit(d)
      PROVE  task'[f] = task[f] \/ task'[f] = NoTask
  BY <1>3, SwitchDoes, ExitDoes
<1>4. FormStep(f) => task' = task \/ \E mode \in Modes : Begin(f, mode)
  BY DEF FormStep, OpenNew, OpenEdit, Leave
<1>5. QED
  BY <1>1, <1>2, <1>3, <1>4 DEF Next, RotateKey, vars

(* Every step keeps a call with a listing of its own.                    *)
LEMMA OwnedStep == Inv /\ Owned /\ [Next]_vars => Owned'
<1> SUFFICES ASSUME Inv, Owned, [Next]_vars, NEW f \in Forms
             PROVE  SignedOwn(task'[f], f, log', size')
  BY DEF Owned
<1>1. SignedOwn(task[f], f, log', size')
  BY Kept DEF Owned, SignedOwn
<1>2. ASSUME SignListing(f) PROVE SignedOwn(task'[f], f, log', size')
  BY <1>2, SignListingDoes, Kept DEF SignedOwn
<1>3. ASSUME task[f].at \in {"send", "confirm"}, task'[f].event = task[f].event,
             task'[f].over = task[f].over
      PROVE  SignedOwn(task'[f], f, log', size')
  BY <1>1, <1>3 DEF SignedOwn
<1>4. ASSUME NEW S \in SUBSET Relays, NEW H \in SUBSET Forms, Send(f, S, H)
      PROVE  SignedOwn(task'[f], f, log', size')
  BY <1>3, <1>4, SendDoes
<1>5. ASSUME NEW V \in SUBSET Relays, Confirm(f, V)
      PROVE  SignedOwn(task'[f], f, log', size')
  BY <1>3, <1>5, ConfirmDoes
<1>6. CASE task'[f].at \notin {"send", "confirm", "upload"}
  BY <1>6 DEF SignedOwn
<1>7. ASSUME NEW V \in SUBSET Relays, Check(f, V) \/ Recheck(f, V)
      PROVE  task'[f].at \notin {"send", "confirm", "upload"}
  BY <1>7, CheckDoes, RecheckDoes
<1>8. ASSUME \/ \E p \in Pages : Mint(f, p)
             \/ Store(f) \/ Provision(f) \/ Announce(f) \/ AnnounceUnheard(f)
             \/ \E S \in SUBSET Relays : SendUnheard(f, S)
      PROVE  task'[f].at \notin {"send", "confirm", "upload"}
  <2>1. ASSUME NEW S \in SUBSET Relays, SendUnheard(f, S) PROVE task'[f].at = "failed"
    BY <2>1, SendUnheardDoes
  <2>2. QED
    BY <1>8, <2>1, MintDoes, StoreDoes, ProvisionDoes, AnnounceDoes
<1>9. ASSUME Finish(f) \/ Fail(f) \/ task'[f] = NoTask \/ \E mode \in Modes : Begin(f, mode)
      PROVE  task'[f].at \notin {"send", "confirm", "upload"}
  <2>1. NoTask.at = "idle"
    BY DEF NoTask
  <2>2. Finish(f) \/ Fail(f) => task'[f] = NoTask
    BY EndDoes
  <2>3. ASSUME NEW mode \in Modes, Begin(f, mode) PROVE task'[f].at = "check"
    BY <2>3, BeginDoes
  <2>4. QED
    BY <1>9, <2>1, <2>2, <2>3
<1>10. QED
  BY <1>1, <1>2, <1>4, <1>5, <1>6, <1>7, <1>8, <1>9, TaskCases DEF TaskStep

-----------------------------------------------------------------------------
(* RowKnowsRoot.  A row beats a root when it is of that root or a later    *)
(* one, or where one of the two forms was left.  The root a call is about  *)
(* to store beats every root of its device and page: another call of the   *)
(* same device is the call of a form that was left.                        *)
Gone == {f \in Forms : Left(f)}
Beats(L, G, a, e) ==
  a >= e \/ (a # 0 /\ Beside(L[e].by, L[a].by) /\ (L[e].by \in G \/ L[a].by \in G))
IsRoot(L, e, d, p) == L[e].kind = "root" /\ DeviceOf[L[e].by] = d /\ L[e].page = p

RowsPlaced == \A d \in Devices, p \in Pages :
  rows[d][p] # 0 => rows[d][p] \in 1..size /\ IsRoot(log, rows[d][p], d, p)
KnownRooted == \A e \in known :
  log[e].kind = "root" /\ Beats(log, Gone, rows[DeviceOf[log[e].by]][log[e].page], e)
CallRows(t, f, L, n, R, G) ==
  /\ t.at = "store" => \A e \in 1..n :
       IsRoot(L, e, DeviceOf[f], t.page) => Beats(L, G, t.root, e)
  /\ t.at = "announce" => Beats(L, G, R[DeviceOf[f]][t.page], t.root)
CallsRows == \A f \in Forms : CallRows(task[f], f, log, size, rows, Gone)
RowsFit == RowsPlaced /\ KnownRooted /\ CallsRows

(* At the start no root is known and no row is there.                    *)
LEMMA RowsFitInit == Init => RowsFit
  BY DEF Init, RowsFit, RowsPlaced, KnownRooted, CallsRows, CallRows, NoTask

(* A form that was left stays so.                                        *)
LEMMA GoneKept == Inv /\ [Next]_vars => Gone \subseteq Gone'
  BY FormKept DEF Gone, Left

(* A row that beats a root goes on to.                                   *)
LEMMA BeatsKept ==
  ASSUME Inv, [Next]_vars, NEW a, a # 0 => a \in 1..size, NEW e \in 1..size,
         Beats(log, Gone, a, e)
  PROVE  Beats(log', Gone', a, e)
<1>1. a >= e \/ a # 0
  BY DEF Beats
<1>2. Gone \subseteq Gone' /\ log'[e] = log[e] /\ (a # 0 => log'[a] = log[a])
  BY GoneKept, Kept
<1>3. QED
  BY <1>2 DEF Beats

(* The rows and the calls, with their types.                               *)
LEMMA RootAt ==
  ASSUME Inv, NEW f \in Forms, task[f].at \in {"store", "announce"}
  PROVE  /\ task[f].root \in 1..size /\ task[f].page \in Pages /\ DeviceOf[f] \in Devices
         /\ IsRoot(log, task[f].root, DeviceOf[f], task[f].page) /\ log[task[f].root].by = f
<1>1. /\ task[f].root \in 1..size /\ log[task[f].root].kind = "root"
      /\ log[task[f].root].page = task[f].page /\ log[task[f].root].by = f
  BY DEF Inv, TaskFits, CallFits
<1>2. task[f].page \in Pages
  BY Fields
<1>3. DeviceOf[f] \in Devices
  BY PublishingAssumption
<1>4. QED
  BY <1>1, <1>2, <1>3 DEF IsRoot

(* The signer and the page of an event.                                  *)
LEMMA KnownAt ==
  ASSUME Inv, NEW e \in 1..size
  PROVE  log[e].by \in Forms /\ log[e].page \in Pages /\ DeviceOf[log[e].by] \in Devices
<1>1. log[e].by \in Forms /\ log[e].page \in Pages
  BY DEF Inv, LogFits, EventFits
<1>2. QED
  BY <1>1, PublishingAssumption

(* A call keeps its place as long as no root is signed.                    *)
LEMMA CallRowsKept ==
  ASSUME Inv, RowsFit, [Next]_vars, NEW f \in Forms, rows' = rows,
         \A e \in 1..size' : e \in 1..size \/ log'[e].kind # "root"
  PROVE  CallRows(task[f], f, log', size', rows', Gone')
<1>1. CallRows(task[f], f, log, size, rows, Gone)
  BY DEF RowsFit, CallsRows
<1>2. ASSUME task[f].at = "store", NEW e \in 1..size', IsRoot(log', e, DeviceOf[f], task[f].page)
      PROVE  Beats(log', Gone', task[f].root, e)
  <2>1. e \in 1..size /\ log'[e] = log[e]
    BY <1>2, Kept DEF IsRoot
  <2>2. Beats(log, Gone, task[f].root, e) /\ task[f].root \in 1..size
    BY <1>1, <1>2, <2>1, RootAt DEF CallRows, IsRoot
  <2>3. QED
    BY <2>1, <2>2, BeatsKept
<1>3. ASSUME task[f].at = "announce"
      PROVE  Beats(log', Gone', rows[DeviceOf[f]][task[f].page], task[f].root)
  <2>1. /\ Beats(log, Gone, rows[DeviceOf[f]][task[f].page], task[f].root)
        /\ task[f].root \in 1..size
    BY <1>1, <1>3, RootAt DEF CallRows
  <2>2. rows[DeviceOf[f]][task[f].page] # 0 => rows[DeviceOf[f]][task[f].page] \in 1..size
    BY <1>3, RootAt DEF RowsFit, RowsPlaced
  <2>3. QED
    BY <2>1, <2>2, BeatsKept
<1>4. QED
  BY <1>2, <1>3 DEF CallRows

(* Rows that stay name roots of their page.                              *)
LEMMA RowsPlacedKept ==
  ASSUME Inv, RowsFit, [Next]_vars, rows' = rows
  PROVE  RowsPlaced'
  BY Kept DEF RowsFit, RowsPlaced, IsRoot

(* A known root keeps a row that beats it as long as the rows stay.      *)
LEMMA KnownRootedKept ==
  ASSUME Inv, RowsFit, [Next]_vars, rows' = rows, NEW e \in known
  PROVE  /\ log'[e].kind = "root"
         /\ Beats(log', Gone', rows'[DeviceOf[log'[e].by]][log'[e].page], e)
<1>1. e \in 1..size /\ log'[e] = log[e]
  BY Kept
<1>2. log[e].kind = "root" /\ Beats(log, Gone, rows[DeviceOf[log[e].by]][log[e].page], e)
  BY DEF RowsFit, KnownRooted
<1>3. rows[DeviceOf[log[e].by]][log[e].page] # 0
        => rows[DeviceOf[log[e].by]][log[e].page] \in 1..size
  BY <1>1, KnownAt DEF RowsFit, RowsPlaced
<1>4. QED
  BY <1>1, <1>2, <1>3, BeatsKept

(* Steps that sign no root, write no row and store no root.              *)
LEMMA RowsQuiet ==
  ASSUME Inv, RowsFit, [Next]_vars, rows' = rows, known' = known,
         \A e \in 1..size' : e \in 1..size \/ log'[e].kind # "root",
         \A g \in Forms : task'[g] = task[g] \/ task'[g].at \notin {"store", "announce"}
  PROVE  RowsFit'
<1>1. KnownRooted'
  BY KnownRootedKept DEF KnownRooted
<1>2. CallsRows'
  BY CallRowsKept DEF CallsRows, CallRows
<1>3. QED
  BY <1>1, <1>2, RowsPlacedKept DEF RowsFit

(* Two calls of one device: one of their forms was left.                   *)
LEMMA TwoCalls ==
  ASSUME Working, NEW f \in Forms, NEW g \in Forms, Beside(f, g),
         task[f].at # "idle", task[g].at # "idle"
  PROVE  Left(f) \/ Left(g)
  BY DEF Working, Shown, Beside

(* Every step keeps the rows ahead of the roots.                         *)
LEMMA RowsFitStep == Inv /\ Working /\ RowsFit /\ [Next]_vars => RowsFit'
<1> SUFFICES ASSUME Inv, Working, RowsFit, [Next]_vars PROVE RowsFit'
  OBVIOUS
<1>1. ASSUME NEW f \in Forms, Provision(f) PROVE RowsFit'
  <2>1. /\ task[f].at = "provision" /\ task'[f].at = "store" /\ task'[f].root = size + 1
        /\ OtherTasks(f) /\ rows' = rows /\ known' = known
        /\ log'[size + 1].by = f /\ size' = size + 1
        /\ task'[f].page = task[f].page /\ log'[size + 1].page = task[f].page
    BY <1>1, ProvisionDoes DEF SameNet
  <2>2. \A e \in 1..size' : task'[f].root >= e
    BY <2>1, Kept
  <2>3. ASSUME NEW g \in Forms \ {f}, NEW e \in 1..size', task[g].at = "store",
               IsRoot(log', e, DeviceOf[g], task[g].page)
        PROVE  Beats(log', Gone', task[g].root, e)
    <3>1. task[g].root \in 1..size /\ log[task[g].root].by = g
      BY <2>3, RootAt
    <3>2. CASE e \in 1..size
      <4>1. Beats(log, Gone, task[g].root, e)
        BY <2>3, <3>2, Kept DEF RowsFit, CallsRows, CallRows, IsRoot
      <4>2. QED
        BY <3>1, <3>2, <4>1, BeatsKept
    <3>3. CASE e = size + 1
      <4>1. Beside(f, g)
        BY <2>1, <2>3, <3>3 DEF IsRoot, Beside
      <4>2. f \in Gone' \/ g \in Gone'
        BY <2>1, <2>3, <4>1, TwoCalls, GoneKept DEF Gone
      <4>3. log'[task[g].root].by = g /\ task[g].root # 0
        BY <3>1, Kept
      <4>4. QED
        BY <2>1, <3>3, <4>1, <4>2, <4>3 DEF Beats
    <3>4. QED
      BY <2>1, <3>2, <3>3, Kept
  <2>4. ASSUME NEW g \in Forms \ {f}, task[g].at = "announce"
        PROVE  Beats(log', Gone', rows[DeviceOf[g]][task[g].page], task[g].root)
    <3>1. /\ Beats(log, Gone, rows[DeviceOf[g]][task[g].page], task[g].root)
          /\ task[g].root \in 1..size
      BY <2>4, RootAt DEF RowsFit, CallsRows, CallRows
    <3>2. rows[DeviceOf[g]][task[g].page] # 0 => rows[DeviceOf[g]][task[g].page] \in 1..size
      BY <2>4, RootAt DEF RowsFit, RowsPlaced
    <3>3. QED
      BY <3>1, <3>2, BeatsKept
  <2>5. \A e \in 1..size' : Beats(log', Gone', task'[f].root, e)
    BY <2>2 DEF Beats
  <2>6. ASSUME NEW g \in Forms PROVE CallRows(task'[g], g, log', size', rows', Gone')
    <3>1. CASE g = f
      BY <2>1, <2>5, <3>1 DEF CallRows
    <3>2. CASE g # f
      BY <2>1, <2>3, <2>4, <3>2 DEF CallRows, OtherTasks
    <3>3. QED
      BY <3>1, <3>2
  <2>7. KnownRooted'
    BY <2>1, KnownRootedKept DEF KnownRooted
  <2>8. QED
    BY <2>1, <2>6, <2>7, RowsPlacedKept DEF RowsFit, CallsRows
<1>2. ASSUME NEW f \in Forms, Store(f) PROVE RowsFit'
  <2> DEFINE d == DeviceOf[f]  p == task[f].page  a == task[f].root
  <2>1. /\ task[f].at = "store" /\ task'[f].at = "announce" /\ task'[f].page = p /\ task'[f].root = a
        /\ rows' = [rows EXCEPT ![d][p] = a] /\ OtherTasks(f) /\ SameLog /\ known' = known
    BY <1>2, StoreDoes DEF SameNet
  <2>2. /\ a \in 1..size /\ p \in Pages /\ d \in Devices /\ IsRoot(log, a, d, p)
    BY <2>1, RootAt
  <2>3. rows \in [Devices -> [Pages -> Event0]]
    BY DEF Inv, TypeOK
  <2>4. \A c \in Devices, q \in Pages :
          rows'[c][q] = IF c = d /\ q = p THEN a ELSE rows[c][q]
    BY <2>1, <2>2, <2>3
  <2>5. \A e \in 1..size : IsRoot(log, e, d, p) => Beats(log', Gone', a, e)
    BY <2>1, <2>2, BeatsKept DEF RowsFit, CallsRows, CallRows
  <2> HIDE DEF d, p, a
  <2>6. RowsPlaced'
    BY <2>1, <2>2, <2>4 DEF RowsFit, RowsPlaced, SameLog, IsRoot
  <2>7. ASSUME NEW e \in known
        PROVE  /\ log[e].kind = "root"
               /\ Beats(log', Gone', rows'[DeviceOf[log[e].by]][log[e].page], e)
    <3>1. e \in 1..size /\ log[e].page \in Pages /\ DeviceOf[log[e].by] \in Devices
      BY Kept, KnownAt
    <3>2. log[e].kind = "root" /\ Beats(log, Gone, rows[DeviceOf[log[e].by]][log[e].page], e)
      BY DEF RowsFit, KnownRooted
    <3>3. CASE DeviceOf[log[e].by] = d /\ log[e].page = p
      BY <2>2, <2>4, <2>5, <3>1, <3>2, <3>3 DEF IsRoot
    <3>4. CASE ~(DeviceOf[log[e].by] = d /\ log[e].page = p)
      BY <2>4, <3>1, <3>2, <3>4, BeatsKept DEF RowsFit, RowsPlaced
    <3>5. QED
      BY <3>3, <3>4
  <2>8. ASSUME NEW g \in Forms, task'[g].at = "announce"
        PROVE  Beats(log', Gone', rows'[DeviceOf[g]][task'[g].page], task'[g].root)
    <3>1. CASE g = f
      BY <2>1, <2>2, <2>4, <2>5, <3>1 DEF d
    <3>2. CASE g # f
      <4>1. /\ task'[g] = task[g] /\ task[g].root \in 1..size /\ task[g].page \in Pages
            /\ DeviceOf[g] \in Devices /\ IsRoot(log, task[g].root, DeviceOf[g], task[g].page)
            /\ Beats(log, Gone, rows[DeviceOf[g]][task[g].page], task[g].root)
        BY <2>1, <2>8, <3>2, RootAt DEF OtherTasks, RowsFit, CallsRows, CallRows
      <4>2. CASE DeviceOf[g] = d /\ task[g].page = p
        BY <2>2, <2>4, <2>5, <4>1, <4>2
      <4>3. CASE ~(DeviceOf[g] = d /\ task[g].page = p)
        BY <2>4, <4>1, <4>3, BeatsKept DEF RowsFit, RowsPlaced
      <4>4. QED
        BY <4>2, <4>3
    <3>3. QED
      BY <3>1, <3>2
  <2>9. ASSUME NEW g \in Forms, task'[g].at = "store", NEW e \in 1..size',
               IsRoot(log', e, DeviceOf[g], task'[g].page)
        PROVE  Beats(log', Gone', task'[g].root, e)
    <3>1. task'[g] = task[g] /\ task[g].root \in 1..size /\ e \in 1..size
      BY <2>1, <2>9, RootAt DEF OtherTasks, SameLog
    <3>2. QED
      BY <2>1, <2>9, <3>1, BeatsKept DEF RowsFit, CallsRows, CallRows, SameLog
  <2>10. KnownRooted' /\ CallsRows'
    BY <2>1, <2>7, <2>8, <2>9 DEF KnownRooted, CallsRows, CallRows, SameLog
  <2>11. QED
    BY <2>6, <2>10 DEF RowsFit
<1>3. ASSUME NEW f \in Forms, Announce(f) \/ AnnounceUnheard(f) PROVE RowsFit'
  <2>1. /\ task[f].at = "announce" /\ task'[f].at \in {"sign", "recheck", "failed"}
        /\ known' = known \cup {task[f].root} /\ OtherTasks(f) /\ SameLog /\ rows' = rows
    BY <1>3, AnnounceDoes
  <2>2. CallsRows'
    BY <2>1, CallRowsKept DEF CallsRows, CallRows, OtherTasks, SameLog
  <2>3. /\ log'[task[f].root].kind = "root"
        /\ Beats(log', Gone', rows'[DeviceOf[log'[task[f].root].by]][log'[task[f].root].page],
                 task[f].root)
    BY <2>1, RootAt, CallRowsKept DEF CallRows, IsRoot, SameLog
  <2>4. KnownRooted'
    BY <2>1, <2>3, KnownRootedKept DEF KnownRooted
  <2>5. QED
    BY <2>1, <2>2, <2>4, RowsPlacedKept DEF RowsFit
<1>4. ASSUME NEW f \in Forms, SignListing(f) PROVE RowsFit'
  <2>1. /\ task'[f].at = "send" /\ OtherTasks(f) /\ rows' = rows /\ known' = known
        /\ log'[size + 1].kind = "listing" /\ size' = size + 1
    BY <1>4, SignListingDoes DEF SameNet
  <2>2. QED
    BY <2>1, RowsQuiet, Kept DEF OtherTasks
<1>5. ASSUME NEW f \in Forms, OtherTasks(f), task'[f].at \notin {"store", "announce"},
             SameLog, rows' = rows, known' = known
      PROVE  RowsFit'
  BY <1>5, RowsQuiet DEF OtherTasks, SameLog
<1>6. ASSUME NEW f \in Forms, NEW mode \in Modes, Begin(f, mode) PROVE RowsFit'
  BY <1>5, <1>6, BeginDoes DEF SameNet
<1>7. ASSUME NEW f \in Forms, NEW p \in Pages, Mint(f, p) PROVE RowsFit'
  BY <1>5, <1>7, MintDoes DEF SameNet
<1>8. ASSUME NEW f \in Forms, NEW V \in SUBSET Relays, Check(f, V) \/ Recheck(f, V) \/ Confirm(f, V)
      PROVE  RowsFit'
  <2>1. /\ OtherTasks(f) /\ task'[f].at \notin {"store", "announce"} /\ SameLog
        /\ rows' = rows /\ SameNet
    BY <1>8, CheckDoes, RecheckDoes, ConfirmDoes
  <2>2. QED
    BY <1>5, <2>1 DEF SameNet
<1>9. ASSUME NEW f \in Forms, NEW S \in SUBSET Relays, SendUnheard(f, S) PROVE RowsFit'
  BY <1>5, <1>9, SendUnheardDoes
<1>10. ASSUME NEW f \in Forms, NEW S \in SUBSET Relays, NEW H \in SUBSET Forms, Send(f, S, H)
       PROVE  RowsFit'
  BY <1>5, <1>10, SendDoes
<1>11. ASSUME NEW f \in Forms, Finish(f) \/ Fail(f) PROVE RowsFit'
  BY <1>5, <1>11, EndDoes DEF SameNet, NoTask
<1>12. ASSUME NEW d \in Devices, Exit(d) PROVE RowsFit'
  <2>1. \A g \in Forms : task'[g] = task[g] \/ task'[g].at = "idle"
    BY <1>12, ExitDoes DEF NoTask
  <2>2. SameLog /\ rows' = rows /\ known' = known
    BY <1>12, ExitDoes DEF SameNet
  <2>3. QED
    BY <2>1, <2>2, RowsQuiet DEF SameLog
<1>13. CASE UNCHANGED <<task, events, net, rows>>
  BY <1>13, RowsQuiet DEF events, net
<1>14. QED
  BY <1>1, <1>2, <1>3, <1>4, <1>6, <1>7, <1>8, <1>9, <1>10, <1>11, <1>12, <1>13
  DEF Next, FormStep, TaskStep, RotateKey, OpenNew, OpenEdit, Leave, SwitchAccount, vars

(* Once a relay has a root, the device that signed it has a row for its    *)
(* page, of that root or a later one, except where a form was left.        *)
THEOREM RowsKnowRoots == Spec => []RowKnowsRoot
<1>1. Init => Inv /\ Working /\ RowsFit
  BY InvInit, WorkingInit, RowsFitInit
<1>2. Inv /\ Working /\ RowsFit /\ [Next]_vars => (Inv /\ Working /\ RowsFit)'
  BY InvStep, WorkingStep, RowsFitStep
<1>3. RowsFit => RowKnowsRoot
  BY DEF RowsFit, KnownRooted, Beats, Gone, RowKnowsRoot
<1>4. QED
  BY <1>1, <1>2, <1>3, PTL DEF Spec

-----------------------------------------------------------------------------
(* What a step does to one form: where the listing and the page it shows   *)
(* come from.                                                              *)
Shows(f, e, p) == form'[f].event = e /\ form'[f].page = p

(* What a send changes on the forms.                                     *)
LEMMA SendShows ==
  ASSUME Inv, NEW g \in Forms, NEW S \in SUBSET Relays, NEW H \in SUBSET Forms, Send(g, S, H)
  PROVE  \A x \in Forms :
           \/ form'[x] = form[x]
           \/ /\ form[x].at = "publishing" /\ DeviceOf[g] = DeviceOf[x]
              /\ task[g].at = "send" /\ Shows(x, task[g].event, task[g].page)
<1>1. task[g].at = "send"
  BY SendDoes
<1>2. ASSUME NEW h \in H
      PROVE  /\ form[h].at = "publishing" /\ DeviceOf[h] = DeviceOf[g]
             /\ form'[h].event = task[g].event /\ form'[h].page = task[g].page
  BY SendTells
<1>3. \A x \in Forms \ H : form'[x] = form[x]
  BY SendForms
<1>4. QED
  BY <1>1, <1>2, <1>3 DEF Shows

(* A form that is shown shows what it did, or one of four new things.     *)
LEMMA FormCases ==
  ASSUME Inv, [Next]_vars, NEW f \in Forms, Shown(f)'
  PROVE  \/ OpenNew(f)
         \/ \E l \in sent : OpenEdit(f, l)
         \/ Shown(f) /\ Shows(f, form[f].event, form[f].page)
         \/ \E g \in Forms : /\ form[f].at = "publishing" /\ DeviceOf[g] = DeviceOf[f]
                             /\ task[g].at = "send" /\ Shows(f, task[g].event, task[g].page)
         \/ /\ form[f].at = "publishing" /\ task[f].at = "upload"
            /\ Shows(f, task[f].event, task[f].page)
<1> DEFINE Same == Shown(f) /\ Shows(f, form[f].event, form[f].page)
<1>1. ASSUME NEW g \in Forms, g # f, OpenNew(g) \/ \E l \in sent : OpenEdit(g, l)
      PROVE  Same
  BY <1>1, OpenNewDoes, OpenEditDoes DEF Others, Shown, Shows
<1>2. ASSUME NEW g \in Forms, Leave(g)
      PROVE  Same
  <2>1. form'[g].at = "gone" /\ Others(g)
    BY <1>2, LeaveDoes, ClosedIs
  <2>2. QED
    BY <2>1 DEF Others, Shown, Shows
<1>3. ASSUME NEW g \in Forms, NEW mode \in Modes, Begin(g, mode)
      PROVE  Same
  <2>1. /\ form[g].at = "open" /\ Others(g)
        /\ form'[g].event = form[g].event /\ form'[g].page = form[g].page
    BY <1>3, BeginDoes
  <2>2. QED
    BY <2>1 DEF Others, Shown, Shows
<1>4. ASSUME NEW d \in Devices, SwitchAccount(d)
      PROVE  Same
  <2>1. form'[f].at = form[f].at /\ form'[f].event = form[f].event /\ form'[f].page = form[f].page
    BY <1>4, SwitchDoes
  <2>2. QED
    BY <2>1 DEF Shown, Shows
<1>5. ASSUME NEW d \in Devices, Exit(d)
      PROVE  Same
  <2>1. f \in Showing(d) => form'[f].at = "gone"
    BY <1>5, ExitDoes, ClosedIs
  <2>2. f \notin Showing(d) => form'[f] = form[f]
    BY <1>5, ExitDoes
  <2>3. QED
    BY <2>1, <2>2 DEF Shown, Shows
<1>6. ASSUME NEW g \in Forms, SignListing(g)
      PROVE  Same
  <2>1. /\ form'[g].at = form[g].at /\ Others(g)
        /\ form'[g].event = form[g].event /\ form'[g].page = form[g].page
    BY <1>6, SignListingDoes
  <2>2. QED
    BY <2>1 DEF Others, Shown, Shows
<1>7. ASSUME NEW g \in Forms, NEW S \in SUBSET Relays, NEW H \in SUBSET Forms, Send(g, S, H)
      PROVE  \/ Same
             \/ /\ form[f].at = "publishing" /\ DeviceOf[g] = DeviceOf[f]
                /\ task[g].at = "send" /\ Shows(f, task[g].event, task[g].page)
  BY <1>7, SendShows DEF Shown, Shows
<1>8. ASSUME NEW g \in Forms, Finish(g) \/ Fail(g)
      PROVE  \/ Same
             \/ /\ form[f].at = "publishing" /\ task[f].at = "upload"
                /\ Shows(f, task[f].event, task[f].page)
  <2>1. CASE f # g
    <3>1. form'[f] = form[f]
      BY <1>8, <2>1, EndDoes DEF Others
    <3>2. QED
      BY <3>1 DEF Shown, Shows
  <2>2. CASE f = g /\ form[f].at # "publishing"
    <3>1. form'[f] = form[f]
      BY <1>8, <2>2, EndDoes
    <3>2. QED
      BY <3>1 DEF Shown, Shows
  <2>3. CASE f = g /\ form[f].at = "publishing"
    <3>1. \/ form'[f].event = form[f].event /\ form'[f].page = form[f].page
          \/ /\ task[f].at = "upload"
             /\ form'[f].event = task[f].event /\ form'[f].page = task[f].page
      BY <1>8, <2>3, EndDoes
    <3>2. QED
      BY <2>3, <3>1 DEF Shown, Shows
  <2>4. QED
    BY <2>1, <2>2, <2>3
<1>9. ASSUME form' = form PROVE Same
  BY <1>9 DEF Shown, Shows
<1> HIDE DEF Same
<1>10. \/ OpenNew(f) \/ (\E l \in sent : OpenEdit(f, l)) \/ Same
       \/ \E g \in Forms : /\ form[f].at = "publishing" /\ DeviceOf[g] = DeviceOf[f]
                           /\ task[g].at = "send" /\ Shows(f, task[g].event, task[g].page)
       \/ /\ form[f].at = "publishing" /\ task[f].at = "upload"
          /\ Shows(f, task[f].event, task[f].page)
  <2>1. ASSUME NEW g \in Forms, FormStep(g)
        PROVE  OpenNew(f) \/ (\E l \in sent : OpenEdit(f, l)) \/ Same
    BY <1>1, <1>2, <1>3, <2>1 DEF FormStep
  <2>2. ASSUME NEW g \in Forms, TaskStep(g)
        PROVE  \/ Same
               \/ /\ form[f].at = "publishing" /\ DeviceOf[g] = DeviceOf[f]
                  /\ task[g].at = "send" /\ Shows(f, task[g].event, task[g].page)
               \/ /\ form[f].at = "publishing" /\ task[f].at = "upload"
                  /\ Shows(f, task[f].event, task[f].page)
    BY <1>6, <1>7, <1>8, <1>9, <2>2
    DEF TaskStep, Mint, Check, Recheck, Confirm, Provision, Store, Announce, AnnounceUnheard, SendUnheard
  <2>3. QED
    BY <1>4, <1>5, <1>9, <2>1, <2>2 DEF Next, RotateKey, vars
<1>11. QED
  BY <1>10 DEF Same

(* What a step does to one call.                                           *)
LEMMA CallCases ==
  ASSUME Inv, [Next]_vars, NEW f \in Forms, task'[f].at # "idle"
  PROVE  \/ \E mode \in Modes : Begin(f, mode)
         \/ \E p \in Pages : Mint(f, p)
         \/ Provision(f)
         \/ /\ task[f].at # "idle" /\ task'[f].page = task[f].page
            /\ task'[f].over = task[f].over /\ task'[f].root = task[f].root
<1> DEFINE Same == /\ task[f].at # "idle" /\ task'[f].page = task[f].page
                   /\ task'[f].over = task[f].over /\ task'[f].root = task[f].root
<1>1. ASSUME NEW S \in SUBSET Relays, NEW H \in SUBSET Forms, Send(f, S, H) PROVE Same
  BY <1>1, SendDoes
<1>2. ASSUME NEW S \in SUBSET Relays, SendUnheard(f, S) PROVE Same
  BY <1>2, SendUnheardDoes
<1>3. ASSUME NEW V \in SUBSET Relays, Check(f, V) \/ Recheck(f, V) \/ Confirm(f, V) PROVE Same
  BY <1>3, CheckDoes, RecheckDoes, ConfirmDoes
<1>4. ASSUME Store(f) \/ SignListing(f) PROVE Same
  BY <1>4, StoreDoes, SignListingDoes
<1>5. ASSUME Announce(f) \/ AnnounceUnheard(f) PROVE Same
  BY <1>5, AnnounceDoes
<1>6. ASSUME task'[f] = task[f] PROVE Same
  BY <1>6
<1> HIDE DEF Same
<1>7. task'[f] # NoTask
  BY DEF NoTask
<1>8. ~(Finish(f) \/ Fail(f))
  BY <1>7, EndDoes
<1>9. TaskStep(f) => Same \/ Provision(f) \/ \E p \in Pages : Mint(f, p)
  BY <1>1, <1>2, <1>3, <1>4, <1>5, <1>8 DEF TaskStep
<1>10. QED
  BY <1>6, <1>7, <1>9, TaskCases DEF Same

-----------------------------------------------------------------------------
(* AuthorizationKept.  What a form shows, and what its call replaces, has  *)
(* the key the form was opened with, unless the form was told of a listing *)
(* of another form, which can only be one that was left.                   *)
ToldForms == {f \in Forms : \E g \in Forms : Beside(f, g) /\ Left(g)}
KeyIn(L, l) == IF L[l].auth = 0 THEN None ELSE L[L[l].auth].key
KeepsKey(L, T, l, k, f) == l # 0 /\ (KeyIn(L, l) = k \/ f \in T)

ListingKeys == \A l \in 1..size :
  log[l].kind = "listing" /\ form[log[l].by].key # None =>
    /\ log[l].over # 0
    /\ \/ KeyIn(log, l) = form[log[l].by].key
       \/ log[l].auth = log[log[l].over].auth /\ log[l].by \in ToldForms
FormKeys == \A f \in Forms :
  form[f].key # None /\ Shown(f) => KeepsKey(log, ToldForms, form[f].event, form[f].key, f)
CallKeys == \A f \in Forms :
  form[f].key # None /\ task[f].at # "idle" =>
    /\ KeepsKey(log, ToldForms, task[f].over, form[f].key, f)
    /\ task[f].root # 0 => log[task[f].root].key = form[f].key
KeysFit == ListingKeys /\ FormKeys /\ CallKeys

(* At the start no form has a key.                                       *)
LEMMA KeysFitInit == Init => KeysFit
  BY DEF Init, KeysFit, ListingKeys, FormKeys, CallKeys, Unopened, NoTask

(* A form that was told of a foreign listing stays so.                   *)
LEMMA ToldKept == Inv /\ [Next]_vars => ToldForms \subseteq ToldForms'
  BY FormKept DEF ToldForms, Left

(* The key of a signed listing stays.                                      *)
LEMMA KeyKept ==
  ASSUME Inv, [Next]_vars, NEW l \in 1..size
  PROVE  KeyIn(log', l) = KeyIn(log, l) /\ KeyIn(log, l) = KeyOf(l)
<1>1. log[l].auth # 0 => log[l].auth \in 1..size
  BY DEF Inv, LogFits, EventFits, RootOf, TypeOK
<1>2. QED
  BY <1>1, Kept DEF KeyIn, KeyOf

(* A listing with the key of the form keeps it.                          *)
LEMMA KeepsKept ==
  ASSUME Inv, [Next]_vars, NEW l \in 1..size, NEW k, NEW f, KeepsKey(log, ToldForms, l, k, f)
  PROVE  KeepsKey(log', ToldForms', l, k, f)
  BY KeyKept, ToldKept DEF KeepsKey

(* Whoever signed, and whoever works, was opened before.                   *)
LEMMA OpenedBefore ==
  ASSUME Inv, Working, NEW f \in Forms,
         task[f].at # "idle" \/ Shown(f) \/ \E l \in 1..size : log[l].by = f
  PROVE  form[f].at # "unopened"
  BY DEF Working, Left, Shown

(* The listing a form or a call knows is an entry of the log.              *)
LEMMA KnowsEntry ==
  ASSUME Inv, NEW f \in Forms
  PROVE  /\ form[f].event # 0 => form[f].event \in 1..size
         /\ task[f].over # 0 => task[f].over \in 1..size
         /\ task[f].root # 0 => task[f].root \in 1..size
<1>1. sent \subseteq 1..size
  BY DEF Inv, TypeOK
<1>2. QED
  BY <1>1 DEF Inv, FormFits, TaskFits, CallFits, ListingOf

(* A new listing is signed by a call.                                      *)
LEMMA NewListingBy ==
  ASSUME Inv, [Next]_vars, NEW l \in 1..size', l \notin 1..size, log'[l].kind = "listing"
  PROVE  l = size + 1 /\ \E f \in Forms : SignListing(f)
<1>1. l = size + 1 /\ size' = size + 1 /\ size' # size
  BY Kept
<1>2. ASSUME NEW f \in Forms, Provision(f) PROVE FALSE
  BY <1>1, <1>2, ProvisionDoes
<1>3. ASSUME NEW f \in Forms, FormStep(f) PROVE size' = size
  BY <1>3 DEF FormStep, OpenNew, OpenEdit, Leave, Begin, events
<1>4. ASSUME NEW f \in Forms, TaskStep(f) PROVE size' = size \/ SignListing(f)
  BY <1>2, <1>4 DEF TaskStep, Mint, Check, Recheck, Confirm, Store, Announce, AnnounceUnheard,
     SendUnheard, Send, Finish, Fail, Answer, events
<1>5. QED
  BY <1>1, <1>3, <1>4 DEF Next, SwitchAccount, Exit, RotateKey, events, vars

(* Every step signs listings with the key of their form.                 *)
LEMMA ListingKeysStep == Inv /\ Working /\ Owned /\ KeysFit /\ [Next]_vars => ListingKeys'
<1> SUFFICES ASSUME Inv, Working, Owned, KeysFit, [Next]_vars, NEW l \in 1..size',
                    log'[l].kind = "listing", form'[log'[l].by].key # None
             PROVE  /\ log'[l].over # 0
                    /\ \/ KeyIn(log', l) = form'[log'[l].by].key
                       \/ /\ log'[l].auth = log'[log'[l].over].auth
                          /\ log'[l].by \in ToldForms'
  BY DEF ListingKeys
<1>1. CASE l \in 1..size
  <2>1. log'[l] = log[l] /\ log[l].by \in Forms
    BY <1>1, Kept, KnownAt
  <2>2. form'[log[l].by].key = form[log[l].by].key
    BY <1>1, <2>1, OpenedBefore, FormKept
  <2>3. /\ log[l].over # 0
        /\ \/ KeyIn(log, l) = form[log[l].by].key
           \/ log[l].auth = log[log[l].over].auth /\ log[l].by \in ToldForms
    BY <1>1, <2>1, <2>2 DEF KeysFit, ListingKeys
  <2>4. log[l].over \in 1..size
    <3>1. log[l].over < l /\ log[l].over \in Nat /\ size \in Nat
      <4>1. EventFits(log, known, l) /\ size \in Nat /\ l \in 1..MaxEvents
        BY <1>1 DEF Inv, LogFits, TypeOK, Event0
      <4>2. log[l] \in EventType
        BY <4>1 DEF Inv, TypeOK
      <4>3. QED
        BY <4>1, <4>2 DEF EventFits, EventType, Event0
    <3>2. QED
      BY <1>1, <2>3, <3>1
  <2>5. QED
    BY <1>1, <2>1, <2>2, <2>3, <2>4, Kept, KeyKept, ToldKept
<1>2. CASE l = size + 1
  <2>1. PICK f \in Forms : SignListing(f)
    BY <1>2, NewListingBy, Kept
  <2>2. /\ task[f].at = "sign" /\ log'[l].by = f /\ log'[l].over = task[f].over
        /\ log'[l].auth = Named(f) /\ form'[f].key = form[f].key
    BY <1>2, <2>1, SignListingDoes
  <2>3. /\ KeepsKey(log, ToldForms, task[f].over, form[f].key, f)
        /\ task[f].root # 0 => log[task[f].root].key = form[f].key
    BY <2>2 DEF KeysFit, CallKeys
  <2>4. task[f].over # 0 /\ task[f].over \in 1..size
    BY <2>3, KnowsEntry DEF KeepsKey
  <2>5. CASE task[f].root # 0
    <3>1. log'[l].auth = task[f].root /\ log'[task[f].root] = log[task[f].root]
      BY <2>2, <2>5, KnowsEntry, Kept DEF Named
    <3>2. KeyIn(log', l) = form[f].key
      BY <2>3, <2>5, <3>1 DEF KeyIn
    <3>3. QED
      BY <2>2, <2>4, <3>2
  <2>6. CASE task[f].root = 0
    <3>1. log'[l].auth = log'[task[f].over].auth
      BY <2>2, <2>4, <2>6, Kept DEF Named, Inv, TaskFits, CallFits
    <3>2. log[task[f].over].auth # 0 => log[task[f].over].auth \in 1..size
      BY <2>4 DEF Inv, LogFits, EventFits, RootOf, TypeOK
    <3>3. KeyIn(log', l) = KeyIn(log, task[f].over)
      BY <2>4, <3>1, <3>2, Kept DEF KeyIn
    <3>4. QED
      BY <2>2, <2>3, <2>4, <3>1, <3>3, ToldKept DEF KeepsKey
  <2>7. QED
    BY <2>5, <2>6
<1>3. QED
  BY <1>1, <1>2, Kept

(* A listing of f itself, or one of a form that was left.                  *)
LEMMA KeyOfOwn ==
  ASSUME Inv, Working, Owned, KeysFit, NEW f \in Forms, NEW g \in Forms,
         task[g].at \in {"send", "upload"}, Shown(f), DeviceOf[g] = DeviceOf[f],
         form[f].key # None
  PROVE  KeepsKey(log, ToldForms, task[g].event, form[f].key, f) /\ task[g].event \in 1..size
<1>1. /\ task[g].event \in 1..size /\ log[task[g].event].kind = "listing"
      /\ log[task[g].event].by = g
  BY DEF Owned, SignedOwn
<1>2. CASE g = f
  BY <1>1, <1>2 DEF KeysFit, ListingKeys, KeepsKey
<1>3. CASE g # f
  <2>1. Left(g)
    BY <1>3, OneShown DEF Beside
  <2>2. f \in ToldForms
    BY <1>3, <2>1 DEF ToldForms, Beside
  <2>3. QED
    BY <1>1, <2>2 DEF KeepsKey
<1>4. QED
  BY <1>2, <1>3

(* Every step shows a form listings with its key.                        *)
LEMMA FormKeysStep == Inv /\ Working /\ Owned /\ KeysFit /\ [Next]_vars => FormKeys'
<1> SUFFICES ASSUME Inv, Working, Owned, KeysFit, [Next]_vars, NEW f \in Forms,
                    form'[f].key # None, Shown(f)'
             PROVE  KeepsKey(log', ToldForms', form'[f].event, form'[f].key, f)
  BY DEF FormKeys
<1>1. CASE OpenNew(f)
  <2>1. form'[f].key = form[f].key /\ form[f].at = "unopened"
    BY <1>1, OpenNewDoes
  <2>2. QED
    BY <2>1 DEF Working, Unopened
<1>2. ASSUME NEW l \in sent, OpenEdit(f, l)
      PROVE  KeepsKey(log', ToldForms', form'[f].event, form'[f].key, f)
  <2>1. form'[f].key = KeyOf(l) /\ form'[f].event = l /\ l \in 1..size
    BY <1>2, OpenEditDoes, Kept
  <2>2. QED
    BY <2>1, KeyKept DEF KeepsKey
<1>3. ASSUME Shown(f) PROVE form'[f].key = form[f].key
  BY <1>3, OpenedBefore, FormKept
<1>4. CASE Shown(f) /\ Shows(f, form[f].event, form[f].page)
  <2>1. form'[f].key = form[f].key /\ form'[f].event = form[f].event
    BY <1>3, <1>4 DEF Shows
  <2>2. KeepsKey(log, ToldForms, form[f].event, form[f].key, f)
    BY <1>4, <2>1 DEF KeysFit, FormKeys
  <2>3. form[f].event \in 1..size
    BY <2>2, KnowsEntry DEF KeepsKey
  <2>4. QED
    BY <2>1, <2>2, <2>3, KeepsKept
<1>5. ASSUME NEW g \in Forms, form[f].at = "publishing", DeviceOf[g] = DeviceOf[f],
             task[g].at \in {"send", "upload"}, Shows(f, task[g].event, task[g].page)
      PROVE  KeepsKey(log', ToldForms', form'[f].event, form'[f].key, f)
  <2>1. Shown(f) /\ form'[f].key = form[f].key /\ form'[f].event = task[g].event
    BY <1>3, <1>5 DEF Shown, Shows
  <2>2. QED
    BY <1>5, <2>1, KeyOfOwn, KeepsKept
<1>6. QED
  BY <1>1, <1>2, <1>4, <1>5, FormCases

(* Every step gives a call the key of its form.                          *)
LEMMA CallKeysStep == Inv /\ Working /\ Owned /\ KeysFit /\ [Next]_vars => CallKeys'
<1> SUFFICES ASSUME Inv, Working, Owned, KeysFit, [Next]_vars, NEW f \in Forms,
                    form'[f].key # None, task'[f].at # "idle"
             PROVE  /\ KeepsKey(log', ToldForms', task'[f].over, form'[f].key, f)
                    /\ task'[f].root # 0 => log'[task'[f].root].key = form'[f].key
  BY DEF CallKeys
<1>1. ASSUME NEW mode \in Modes, Begin(f, mode)
      PROVE  /\ KeepsKey(log', ToldForms', task'[f].over, form'[f].key, f) /\ task'[f].root = 0
  <2>1. /\ task'[f].over = form[f].event /\ task'[f].root = 0 /\ form[f].at = "open"
        /\ form'[f].key = form[f].key
    BY <1>1, BeginDoes
  <2>2. KeepsKey(log, ToldForms, form[f].event, form[f].key, f)
    BY <2>1 DEF KeysFit, FormKeys, Shown
  <2>3. form[f].event \in 1..size
    BY <2>2, KnowsEntry DEF KeepsKey
  <2>4. QED
    BY <2>1, <2>2, <2>3, KeepsKept
<1>2. ASSUME task[f].at # "idle"
      PROVE  /\ form'[f].key = form[f].key
             /\ KeepsKey(log', ToldForms', task[f].over, form[f].key, f)
             /\ task[f].over # 0
             /\ task[f].root # 0 => log'[task[f].root].key = form[f].key
  <2>1. form'[f].key = form[f].key
    BY <1>2, OpenedBefore, FormKept
  <2>2. /\ KeepsKey(log, ToldForms, task[f].over, form[f].key, f)
        /\ task[f].root # 0 => log[task[f].root].key = form[f].key
    BY <1>2, <2>1 DEF KeysFit, CallKeys
  <2>3. task[f].over \in 1..size
    BY <2>2, KnowsEntry DEF KeepsKey
  <2>4. QED
    BY <2>1, <2>2, <2>3, KeepsKept, KnowsEntry, Kept
<1>3. ASSUME NEW p \in Pages, Mint(f, p) PROVE FALSE
  <2>1. task[f].at = "check" /\ task[f].over = 0
    BY <1>3, MintDoes
  <2>2. QED
    BY <1>2, <2>1
<1>4. ASSUME Provision(f)
      PROVE  /\ KeepsKey(log', ToldForms', task'[f].over, form'[f].key, f)
             /\ log'[task'[f].root].key = form'[f].key
  <2>1. /\ task[f].at = "provision" /\ task'[f].over = task[f].over /\ task'[f].root = size + 1
        /\ form' = form /\ (form[f].key # None => log'[size + 1].key = form[f].key)
    BY <1>4, ProvisionDoes
  <2>2. QED
    BY <1>2, <2>1
<1>5. QED
  BY <1>1, <1>2, <1>3, <1>4, CallCases

(* An edit keeps the authorization or puts a newer one, and a form keeps   *)
(* the fulfillment key it was opened with, except where a form was left.   *)
THEOREM AuthorizationsKept == Spec => []AuthorizationKept
<1>1. Init => Inv /\ Working /\ Owned /\ KeysFit
  BY InvInit, WorkingInit, KeysFitInit
<1>2. Inv /\ Working /\ Owned /\ KeysFit /\ [Next]_vars => (Inv /\ Working /\ Owned /\ KeysFit)'
  BY InvStep, WorkingStep, OwnedStep, ListingKeysStep, FormKeysStep, CallKeysStep DEF KeysFit
<1>3. Inv /\ KeysFit => AuthorizationKept
  <2>1. ASSUME Inv, KeysFit, NEW l \in 1..size, log[l].kind = "listing", log[l].over # 0
        PROVE  /\ log[l].auth >= log[log[l].over].auth
               /\ form[log[l].by].key # None =>
                    \/ KeyOf(l) = form[log[l].by].key
                    \/ /\ log[l].auth = log[log[l].over].auth
                       /\ \E g \in Forms : Beside(log[l].by, g) /\ Left(g)
    BY <2>1 DEF Inv, LogFits, EventFits, KeysFit, ListingKeys, KeyIn, KeyOf, ToldForms
  <2>2. QED
    BY <2>1 DEF AuthorizationKept
<1>4. QED
  BY <1>1, <1>2, <1>3, PTL DEF Spec

-----------------------------------------------------------------------------
(* FormKeepsItsPage.  The page a form shows and the page its call works on *)
(* are pages of the form, and once the form has heard of a listing of its  *)
(* own it stays on the page of that listing.                               *)
OtherPages(f) == {p \in Pages : Elsewhere(f, p)}
PagesOf(f) == {p \in Pages : \/ p = form[f].home
                             \/ \E m \in Signed(f) : log[m].over = 0 /\ log[m].page = p
                             \/ p \in OtherPages(f)}
Heard(f) == Signed(f) \cap (sent \ unheard)

ShownPages == \A f \in Forms :
  Shown(f) /\ form[f].event # 0 => form[f].page \in PagesOf(f)
CallPages == \A f \in Forms :
  /\ task[f].at # "idle"
  /\ task[f].over # 0 \/ task[f].at \in {"confirm", "upload"}
  => task[f].page \in PagesOf(f)
LastSigned == \A f \in Forms :
  task[f].at = "send" => \A l \in Signed(f) : l <= task[f].event
HeardShown == \A f \in Forms : \A m \in Heard(f) :
  Shown(f) => /\ form[f].event # 0
              /\ log[m].page = form[f].page \/ form[f].page \in OtherPages(f)
HeardCall == \A f \in Forms : \A m \in Heard(f) :
  task[f].at # "idle" => /\ task[f].over # 0 \/ task[f].at \in {"confirm", "upload"}
                         /\ log[m].page = task[f].page \/ task[f].page \in OtherPages(f)
HeardLater == \A f \in Forms : \A m \in Heard(f), l \in Signed(f) :
  m < l => log[m].page = log[l].page \/ log[l].page \in OtherPages(f)
EditPages == \A f \in Forms : \A l \in Signed(f) :
  log[l].over # 0 =>
    \/ log[l].page = form[f].home
    \/ \E m \in Signed(f) : m < l /\ log[m].over = 0 /\ log[m].page = log[l].page
    \/ log[l].page \in OtherPages(f)
PagesFit ==
  ShownPages /\ CallPages /\ LastSigned /\ HeardShown /\ HeardCall /\ HeardLater /\ EditPages

PagesInv == Inv /\ Working /\ Owned /\ PagesFit

(* At the start no form shows a page.                                    *)
LEMMA PagesFitInit == Init => PagesFit
  BY DEF Init, PagesFit, ShownPages, CallPages, LastSigned, HeardShown, HeardCall, HeardLater, EditPages,
         Shown, Heard, Signed, Unopened, NoTask

-----------------------------------------------------------------------------
(* Where new listings and new hearings come from.                          *)
LEMMA SignedCases ==
  ASSUME Inv, [Next]_vars, NEW f \in Forms
  PROVE  /\ Signed(f) \subseteq Signed(f)'
         /\ \A l \in Signed(f) : l \in 1..size /\ log'[l] = log[l]
         /\ \A l \in Signed(f)' : l \in Signed(f) \/ (SignListing(f) /\ l = size + 1)
<1>1. Signed(f) \subseteq Signed(f)' /\ \A l \in Signed(f) : l \in 1..size /\ log'[l] = log[l]
  BY Kept DEF Signed
<1>2. ASSUME NEW l \in Signed(f)', l \notin Signed(f)
      PROVE  SignListing(f) /\ l = size + 1
  <2>1. l \in 1..size' /\ log'[l].kind = "listing" /\ log'[l].by = f
    BY DEF Signed
  <2>2. l \notin 1..size
    BY <1>2, <2>1, Kept DEF Signed
  <2>3. PICK g \in Forms : SignListing(g) /\ l = size + 1
    BY <2>1, <2>2, NewListingBy
  <2>4. g = f
    BY <2>1, <2>3, SignListingDoes
  <2>5. QED
    BY <2>3, <2>4
<1>3. QED
  BY <1>1, <1>2

(* A form hears of a listing of its own by the send of its call.         *)
LEMMA HeardCases ==
  ASSUME Inv, [Next]_vars, NEW f \in Forms, NEW m \in Heard(f)'
  PROVE  \/ m \in Heard(f)
         \/ /\ task[f].at = "send" /\ m = task[f].event /\ SameLog
            /\ task'[f].at = "confirm" /\ task'[f].page = task[f].page
            /\ log[m].page = task[f].page
            /\ form'[f].event = m /\ form'[f].page = task[f].page
<1>1. m \in Signed(f)' /\ m \in sent' /\ m \notin unheard'
  BY DEF Heard
<1>2. ASSUME NEW g \in Forms, NEW S \in SUBSET Relays, NEW H \in SUBSET Forms, Send(g, S, H), m \notin sent
      PROVE  /\ task[f].at = "send" /\ m = task[f].event /\ SameLog
             /\ task'[f].at = "confirm" /\ task'[f].page = task[f].page
             /\ log[m].page = task[f].page
             /\ form'[f].event = m /\ form'[f].page = task[f].page
  <2>1. /\ task[g].at = "send" /\ task'[g].at = "confirm" /\ task'[g].page = task[g].page /\ SameLog
        /\ log[task[g].event].by = g /\ log[task[g].event].page = task[g].page
        /\ sent' = sent \cup {task[g].event}
        /\ g \in H \/ unheard' = unheard \cup {task[g].event}
    BY <1>2, SendDoes
  <2>2. m = task[g].event
    BY <1>1, <1>2, <2>1
  <2>3. g = f
    BY <1>1, <2>1, <2>2 DEF Signed, SameLog
  <2>4. g \in H
    BY <1>1, <2>1, <2>2
  <2>5. form'[g].event = task[g].event /\ form'[g].page = task[g].page
    BY <1>2, <2>4, SendTells
  <2>6. QED
    BY <2>1, <2>2, <2>3, <2>5
<1>3. ASSUME NEW g \in Forms, NEW S \in SUBSET Relays, SendUnheard(g, S)
      PROVE  m \in sent /\ unheard \subseteq unheard'
  BY <1>1, <1>3, SendUnheardDoes
<1>4. ASSUME sent' = sent \/ m \in sent, unheard \subseteq unheard'
      PROVE  m \in Heard(f)
  <2>1. m \in sent /\ m \notin unheard /\ m \in 1..size
    BY <1>1, <1>4, Kept
  <2>2. m \in Signed(f)
    BY <1>1, <2>1, Kept DEF Signed
  <2>3. QED
    BY <2>1, <2>2 DEF Heard
<1>5. ASSUME NEW g \in Forms, NEW S \in SUBSET Relays, NEW H \in SUBSET Forms, Send(g, S, H)
      PROVE  unheard \subseteq unheard'
  BY <1>5 DEF Send
<1>6. ASSUME NEW g \in Forms, FormStep(g) PROVE sent' = sent /\ unheard' = unheard
  BY <1>6 DEF FormStep, OpenNew, OpenEdit, Leave, Begin, net, world
<1>7. ASSUME NEW g \in Forms, TaskStep(g)
      PROVE  \/ sent' = sent /\ unheard' = unheard
             \/ \E S \in SUBSET Relays : SendUnheard(g, S) \/ \E H \in SUBSET Forms : Send(g, S, H)
  BY <1>7 DEF TaskStep, Mint, Check, Recheck, Confirm, Provision, Store, Announce, AnnounceUnheard,
     SignListing, Finish, Fail, Answer, net, world
<1>8. CASE sent' = sent /\ unheard' = unheard
  BY <1>4, <1>8
<1>9. CASE m \in sent
  BY <1>3, <1>4, <1>5, <1>6, <1>7, <1>9 DEF Next, SwitchAccount, Exit, RotateKey, net, world, vars
<1>10. CASE m \notin sent
  BY <1>2, <1>3, <1>6, <1>7, <1>8, <1>10 DEF Next, SwitchAccount, Exit, RotateKey, net, world, vars
<1>11. QED
  BY <1>9, <1>10

(* What a step leaves of the pages.                                        *)
LEMMA OtherPagesKept ==
  ASSUME Inv, [Next]_vars, NEW f \in Forms
  PROVE  OtherPages(f) \subseteq OtherPages(f)'
<1>1. ASSUME NEW p \in Pages, Elsewhere(f, p)
      PROVE  Elsewhere(f, p)'
  <2>1. PICK n \in 1..size : /\ log[n].kind = "listing" /\ log[n].page = p
                             /\ Beside(f, log[n].by) /\ Left(log[n].by)
    BY <1>1 DEF Elsewhere
  <2>2. n \in 1..size' /\ log'[n] = log[n] /\ log[n].by \in Forms
    BY Kept, KnownAt
  <2>3. form[log[n].by].at # "unopened"
    BY <2>1 DEF Left
  <2>4. Left(log[n].by) => MayLeave /\ form'[log[n].by].at = "gone"
    BY <2>2, <2>3, FormKept DEF Left
  <2>5. QED
    BY <2>1, <2>2, <2>4 DEF Elsewhere, Beside, Left
<1>2. QED
  BY <1>1 DEF OtherPages

(* A page of a form stays one.                                           *)
LEMMA PagesKept ==
  ASSUME Inv, [Next]_vars, NEW f \in Forms, form[f].at # "unopened"
  PROVE  PagesOf(f) \subseteq PagesOf(f)'
  BY OtherPagesKept, SignedCases, FormKept DEF PagesOf

(* The page of a call that has signed.                                     *)
LEMMA PageOfCall ==
  ASSUME PagesInv, NEW f \in Forms, NEW g \in Forms, task[g].at \in {"send", "confirm", "upload"},
         g = f \/ (Shown(f) /\ DeviceOf[g] = DeviceOf[f])
  PROVE  /\ task[g].event # 0 /\ task[g].page \in PagesOf(f)
         /\ g # f => task[g].page \in OtherPages(f)
<1>1. /\ task[g].event \in 1..size /\ log[task[g].event].kind = "listing"
      /\ log[task[g].event].by = g /\ log[task[g].event].over = task[g].over
  BY DEF PagesInv, Owned, SignedOwn
<1>2. log[task[g].event].page = task[g].page /\ task[g].page \in Pages
  BY Fields DEF PagesInv, Inv, TaskFits, CallFits, ListingOf
<1>3. CASE g # f
  <2>1. Left(g)
    BY <1>3, OneShown DEF Beside, PagesInv
  <2>2. task[g].page \in OtherPages(f)
    BY <1>1, <1>2, <1>3, <2>1 DEF OtherPages, Elsewhere, Beside
  <2>3. QED
    BY <1>1, <2>2 DEF PagesOf, OtherPages
<1>4. CASE g = f /\ task[f].over = 0
  BY <1>1, <1>2, <1>4 DEF PagesOf, Signed
<1>5. CASE g = f /\ task[f].over # 0
  BY <1>1, <1>5 DEF PagesInv, PagesFit, CallPages
<1>6. QED
  BY <1>3, <1>4, <1>5

(* The moves around the sending of a listing.                              *)
LEMMA CallMoves ==
  ASSUME Inv, Working, [Next]_vars, NEW f \in Forms
  PROVE  /\ task'[f].at = "send" => task'[f] = task[f] \/ SignListing(f)
         /\ task'[f].at \in {"confirm", "upload"} => task[f].at \in {"send", "confirm", "upload"}
         /\ task[f].at \in {"confirm", "upload"} /\ task'[f].at # "idle"
              => task'[f].at \in {"confirm", "upload"}
<1> DEFINE Moved == /\ task[f].at \notin {"confirm", "upload"}
                    /\ task'[f].at \notin {"send", "confirm", "upload"}
           Late == /\ task[f].at \in {"send", "confirm", "upload"}
                   /\ task'[f].at \in {"confirm", "upload"}
<1>1. ASSUME NEW S \in SUBSET Relays, NEW H \in SUBSET Forms, Send(f, S, H) PROVE Late
  BY <1>1, SendDoes
<1>2. ASSUME NEW S \in SUBSET Relays, SendUnheard(f, S) PROVE Moved
  BY <1>2, SendUnheardDoes
<1>3. ASSUME NEW V \in SUBSET Relays, Check(f, V) \/ Recheck(f, V) PROVE Moved
  BY <1>3, CheckDoes, RecheckDoes
<1>4. ASSUME NEW V \in SUBSET Relays, Confirm(f, V) PROVE Late
  BY <1>4, ConfirmDoes
<1>5. ASSUME Store(f) \/ Provision(f) PROVE Moved
  BY <1>5, StoreDoes, ProvisionDoes
<1>6. ASSUME Announce(f) \/ AnnounceUnheard(f) PROVE Moved
  BY <1>6, AnnounceDoes
<1>7. ASSUME NEW p \in Pages, Mint(f, p) PROVE Moved
  BY <1>7, MintDoes
<1>8. SignListing(f) => task[f].at = "sign" /\ task'[f].at = "send"
  BY SignListingDoes
<1>9. ASSUME NEW mode \in Modes, Begin(f, mode) PROVE Moved
  <2>1. form[f].at = "open" /\ task'[f].at = "check"
    BY <1>9, BeginDoes
  <2>2. task[f].at = "idle"
    BY <2>1 DEF Working, Left
  <2>3. QED
    BY <2>1, <2>2
<1>10. Finish(f) \/ Fail(f) => task'[f] = NoTask
  BY EndDoes
<1> HIDE DEF Moved, Late
<1>11. TaskStep(f) => Moved \/ Late \/ SignListing(f) \/ task'[f] = NoTask
  BY <1>1, <1>2, <1>3, <1>4, <1>5, <1>6, <1>7, <1>10 DEF TaskStep
<1>12. QED
  BY <1>8, <1>9, <1>11, TaskCases DEF NoTask, Moved, Late

-----------------------------------------------------------------------------
(* A page with a foreign listing counts as a page of the form.           *)
LEMMA OwnPages == ASSUME NEW f \in Forms PROVE OtherPages(f) \subseteq PagesOf(f)
  BY DEF OtherPages, PagesOf

(* An unopened form has signed nothing.                                    *)
LEMMA SignerOpened ==
  ASSUME Working, NEW f \in Forms, NEW l \in Signed(f)
  PROVE  form[f].at # "unopened"
  BY DEF Working, Signed

(* Every step shows a form its pages only.                               *)
LEMMA ShownPagesStep == PagesInv /\ [Next]_vars => ShownPages'
<1> SUFFICES ASSUME PagesInv, [Next]_vars, NEW f \in Forms, Shown(f)', form'[f].event # 0
             PROVE  form'[f].page \in PagesOf(f)'
  BY DEF ShownPages
<1>0. Inv /\ Working
  BY DEF PagesInv
<1>1. CASE OpenNew(f)
  <2>1. form[f].at = "unopened" /\ form'[f].event = form[f].event
    BY <1>0, <1>1, OpenNewDoes
  <2>2. form[f].event = 0
    BY <1>0, <2>1 DEF Working, Unopened
  <2>3. QED
    BY <2>1, <2>2
<1>2. ASSUME NEW l \in sent, OpenEdit(f, l) PROVE form'[f].page \in PagesOf(f)'
  <2>1. form'[f].page = log[l].page /\ form'[f].home = log[l].page
    BY <1>0, <1>2, OpenEditDoes
  <2>2. log[l].page \in Pages
    BY <1>0, Kept, KnownAt
  <2>3. QED
    BY <2>1, <2>2 DEF PagesOf
<1>3. ASSUME Shown(f) PROVE PagesOf(f) \subseteq PagesOf(f)'
  BY <1>0, <1>3, PagesKept DEF Shown
<1>4. CASE Shown(f) /\ Shows(f, form[f].event, form[f].page)
  BY <1>3, <1>4 DEF Shows, PagesInv, PagesFit, ShownPages
<1>5. ASSUME NEW g \in Forms, form[f].at = "publishing", DeviceOf[g] = DeviceOf[f],
             task[g].at \in {"send", "upload"}, Shows(f, task[g].event, task[g].page)
      PROVE  form'[f].page \in PagesOf(f)'
  <2>1. Shown(f)
    BY <1>5 DEF Shown
  <2>2. task[g].page \in PagesOf(f)
    BY <1>5, <2>1, PageOfCall
  <2>3. QED
    BY <1>3, <1>5, <2>1, <2>2 DEF Shows
<1>6. QED
  BY <1>0, <1>1, <1>2, <1>4, <1>5, FormCases

(* Every call works on a page of its form.                               *)
LEMMA CallPagesStep == PagesInv /\ [Next]_vars => CallPages'
<1> SUFFICES ASSUME PagesInv, [Next]_vars, NEW f \in Forms, task'[f].at # "idle",
                    task'[f].over # 0 \/ task'[f].at \in {"confirm", "upload"}
             PROVE  task'[f].page \in PagesOf(f)'
  BY DEF CallPages
<1>0. Inv /\ Working
  BY DEF PagesInv
<1>1. form[f].at # "unopened" => PagesOf(f) \subseteq PagesOf(f)'
  BY <1>0, PagesKept
<1>2. ASSUME NEW mode \in Modes, Begin(f, mode) PROVE task'[f].page \in PagesOf(f)'
  <2>1. /\ task'[f].over = form[f].event /\ task'[f].page = form[f].page /\ form[f].at = "open"
        /\ task'[f].at = "check"
    BY <1>0, <1>2, BeginDoes
  <2>2. form[f].page \in PagesOf(f)
    BY <2>1 DEF PagesInv, PagesFit, ShownPages, Shown
  <2>3. QED
    BY <1>1, <2>1, <2>2
<1>3. ASSUME NEW p \in Pages, Mint(f, p) PROVE FALSE
  BY <1>0, <1>3, MintDoes
<1>4. ASSUME task[f].at # "idle", task'[f].page = task[f].page, task'[f].over = task[f].over
      PROVE  task'[f].page \in PagesOf(f)'
  <2>1. form[f].at # "unopened"
    BY <1>0, <1>4, OpenedBefore
  <2>2. CASE task[f].over # 0
    BY <1>1, <1>4, <2>1, <2>2 DEF PagesInv, PagesFit, CallPages
  <2>3. CASE task[f].over = 0
    <3>1. task[f].at \in {"send", "confirm", "upload"}
      BY <1>0, <1>4, <2>3, CallMoves
    <3>2. task[f].page \in PagesOf(f)
      BY <3>1, PageOfCall
    <3>3. QED
      BY <1>1, <1>4, <2>1, <3>2
  <2>4. QED
    BY <2>2, <2>3
<1>5. ASSUME Provision(f)
      PROVE  task[f].at # "idle" /\ task'[f].page = task[f].page /\ task'[f].over = task[f].over
  BY <1>0, <1>5, ProvisionDoes
<1>6. QED
  BY <1>0, <1>2, <1>3, <1>4, <1>5, CallCases

(* The listing a call is about to send is the last of its form.          *)
LEMMA LastSignedStep == PagesInv /\ [Next]_vars => LastSigned'
<1> SUFFICES ASSUME PagesInv, [Next]_vars, NEW f \in Forms, task'[f].at = "send", NEW l \in Signed(f)'
             PROVE  l <= task'[f].event
  BY DEF LastSigned
<1>0. Inv /\ Working
  BY DEF PagesInv
<1>1. CASE SignListing(f)
  <2>1. task'[f].event = size + 1
    BY <1>0, <1>1, SignListingDoes
  <2>2. QED
    BY <1>0, <2>1, Kept DEF Signed
<1>2. CASE ~SignListing(f)
  <2>1. task'[f] = task[f] /\ l \in Signed(f)
    BY <1>0, <1>2, CallMoves, SignedCases
  <2>2. QED
    BY <2>1 DEF PagesInv, PagesFit, LastSigned
<1>3. QED
  BY <1>1, <1>2

(* A form that has heard of its listing shows the page of it.            *)
LEMMA HeardShownStep == PagesInv /\ [Next]_vars => HeardShown'
<1> SUFFICES ASSUME PagesInv, [Next]_vars, NEW f \in Forms, NEW m \in Heard(f)', Shown(f)'
             PROVE  /\ form'[f].event # 0
                    /\ log'[m].page = form'[f].page \/ form'[f].page \in OtherPages(f)'
  BY DEF HeardShown
<1>0. Inv /\ Working
  BY DEF PagesInv
<1>1. CASE m \notin Heard(f)
  <2>1. /\ SameLog /\ log[m].page = task[f].page
        /\ form'[f].event = m /\ form'[f].page = task[f].page
    BY <1>0, <1>1, HeardCases
  <2>2. m # 0
    BY <1>0, <2>1, Kept DEF Heard, Signed
  <2>3. QED
    BY <2>1, <2>2 DEF SameLog
<1>2. CASE m \in Heard(f)
  <2>1. log'[m] = log[m] /\ form[f].at # "unopened" /\ OtherPages(f) \subseteq OtherPages(f)'
    BY <1>0, <1>2, SignedCases, SignerOpened, OtherPagesKept DEF Heard
  <2>2. ~OpenNew(f) /\ \A l \in sent : ~OpenEdit(f, l)
    BY <2>1 DEF OpenNew, OpenEdit
  <2>3. CASE Shown(f) /\ Shows(f, form[f].event, form[f].page)
    BY <1>2, <2>1, <2>3 DEF Shows, PagesInv, PagesFit, HeardShown
  <2>4. ASSUME NEW g \in Forms, form[f].at = "publishing", DeviceOf[g] = DeviceOf[f],
               task[g].at \in {"send", "upload"}, Shows(f, task[g].event, task[g].page)
        PROVE  /\ form'[f].event # 0
               /\ log'[m].page = form'[f].page \/ form'[f].page \in OtherPages(f)'
    <3>1. task[g].event # 0 /\ (g # f => task[g].page \in OtherPages(f))
      BY <2>4, PageOfCall DEF Shown
    <3>2. g = f => log[m].page = task[g].page \/ task[g].page \in OtherPages(f)
      BY <1>2, <2>4 DEF PagesInv, PagesFit, HeardCall
    <3>3. QED
      BY <2>1, <2>4, <3>1, <3>2 DEF Shows
  <2>5. QED
    BY <1>0, <2>2, <2>3, <2>4, FormCases
<1>3. QED
  BY <1>1, <1>2

(* The call of a form that has heard of its listing edits that page.     *)
LEMMA HeardCallStep == PagesInv /\ [Next]_vars => HeardCall'
<1> SUFFICES ASSUME PagesInv, [Next]_vars, NEW f \in Forms, NEW m \in Heard(f)', task'[f].at # "idle"
             PROVE  /\ task'[f].over # 0 \/ task'[f].at \in {"confirm", "upload"}
                    /\ log'[m].page = task'[f].page \/ task'[f].page \in OtherPages(f)'
  BY DEF HeardCall
<1>0. Inv /\ Working
  BY DEF PagesInv
<1>1. CASE m \notin Heard(f)
  <2>1. /\ SameLog /\ log[m].page = task[f].page
        /\ task'[f].at = "confirm" /\ task'[f].page = task[f].page
    BY <1>0, <1>1, HeardCases
  <2>2. QED
    BY <2>1 DEF SameLog
<1>2. CASE m \in Heard(f)
  <2>1. log'[m] = log[m] /\ OtherPages(f) \subseteq OtherPages(f)'
    BY <1>0, <1>2, SignedCases, OtherPagesKept DEF Heard
  <2>2. task[f].at # "idle" =>
          /\ task[f].over # 0 \/ task[f].at \in {"confirm", "upload"}
          /\ log[m].page = task[f].page \/ task[f].page \in OtherPages(f)
    BY <1>2 DEF PagesInv, PagesFit, HeardCall
  <2>3. ASSUME NEW mode \in Modes, Begin(f, mode)
        PROVE  /\ task'[f].over # 0
               /\ log[m].page = task'[f].page \/ task'[f].page \in OtherPages(f)
    <3>1. form[f].at = "open" /\ task'[f].over = form[f].event /\ task'[f].page = form[f].page
      BY <1>0, <2>3, BeginDoes
    <3>2. QED
      BY <1>2, <3>1 DEF PagesInv, PagesFit, HeardShown, Shown
  <2>4. ASSUME NEW p \in Pages, Mint(f, p) PROVE FALSE
    <3>1. task[f].at = "check" /\ task[f].over = 0
      BY <1>0, <2>4, MintDoes
    <3>2. QED
      BY <2>2, <3>1
  <2>5. ASSUME Provision(f)
        PROVE  task[f].at = "provision" /\ task'[f].page = task[f].page /\ task'[f].over = task[f].over
    BY <1>0, <2>5, ProvisionDoes
  <2>6. task[f].at \in {"confirm", "upload"} => task'[f].at \in {"confirm", "upload"}
    BY <1>0, CallMoves
  <2>7. QED
    BY <1>0, <2>1, <2>2, <2>3, <2>4, <2>5, <2>6, CallCases
<1>3. QED
  BY <1>1, <1>2

(* A new listing is on the page of the call that signs it.                 *)
LEMMA NewListingOn ==
  ASSUME PagesInv, [Next]_vars, NEW f \in Forms, NEW l \in Signed(f)', l \notin Signed(f)
  PROVE  /\ task[f].at = "sign" /\ l = size + 1
         /\ log'[l].page = task[f].page /\ log'[l].over = task[f].over
<1>1. SignListing(f) /\ l = size + 1 /\ Inv
  BY SignedCases DEF PagesInv
<1>2. QED
  BY <1>1, SignListingDoes

(* Later listings of the form are on the page it has heard of.           *)
LEMMA HeardLaterStep == PagesInv /\ [Next]_vars => HeardLater'
<1> SUFFICES ASSUME PagesInv, [Next]_vars, NEW f \in Forms, NEW m \in Heard(f)', NEW l \in Signed(f)', m < l
             PROVE  log'[m].page = log'[l].page \/ log'[l].page \in OtherPages(f)'
  BY DEF HeardLater
<1>0. Inv /\ OtherPages(f) \subseteq OtherPages(f)'
  BY OtherPagesKept DEF PagesInv
<1>1. CASE m \notin Heard(f)
  <2>1. task[f].at = "send" /\ m = task[f].event
    BY <1>0, <1>1, HeardCases
  <2>2. l \in Signed(f)
    BY <2>1, NewListingOn
  <2>3. l <= m /\ l \in Nat /\ m \in Nat
    BY <1>0, <2>1, <2>2, Fields, Kept DEF PagesInv, PagesFit, LastSigned, Signed, TaskType, Event0
  <2>4. QED
    BY <2>3
<1>2. CASE m \in Heard(f) /\ l \in Signed(f)
  <2>1. log'[m] = log[m] /\ log'[l] = log[l]
    BY <1>0, <1>2, SignedCases DEF Heard
  <2>2. log[m].page = log[l].page \/ log[l].page \in OtherPages(f)
    BY <1>2 DEF PagesInv, PagesFit, HeardLater
  <2>3. QED
    BY <1>0, <2>1, <2>2
<1>3. CASE m \in Heard(f) /\ l \notin Signed(f)
  <2>1. log'[m] = log[m] /\ task[f].at = "sign" /\ log'[l].page = task[f].page
    BY <1>0, <1>3, SignedCases, NewListingOn DEF Heard
  <2>2. log[m].page = task[f].page \/ task[f].page \in OtherPages(f)
    BY <1>3, <2>1 DEF PagesInv, PagesFit, HeardCall
  <2>3. QED
    BY <1>0, <2>1, <2>2
<1>4. QED
  BY <1>1, <1>2, <1>3

(* An edit is on the home of the form or a page it has put before.       *)
LEMMA EditPagesStep == PagesInv /\ [Next]_vars => EditPages'
<1> SUFFICES ASSUME PagesInv, [Next]_vars, NEW f \in Forms, NEW l \in Signed(f)', log'[l].over # 0
             PROVE  \/ log'[l].page = form'[f].home
                    \/ \E m \in Signed(f)' : m < l /\ log'[m].over = 0 /\ log'[m].page = log'[l].page
                    \/ log'[l].page \in OtherPages(f)'
  BY DEF EditPages
<1>0. /\ Inv /\ Working /\ OtherPages(f) \subseteq OtherPages(f)' /\ Signed(f) \subseteq Signed(f)'
      /\ \A m \in Signed(f) : m \in 1..size /\ log'[m] = log[m]
  BY OtherPagesKept, SignedCases DEF PagesInv
<1>1. CASE l \in Signed(f)
  <2>1. form'[f].home = form[f].home
    BY <1>0, <1>1, SignerOpened, FormKept
  <2>2. \/ log[l].page = form[f].home
        \/ \E m \in Signed(f) : m < l /\ log[m].over = 0 /\ log[m].page = log[l].page
        \/ log[l].page \in OtherPages(f)
    BY <1>0, <1>1 DEF PagesInv, PagesFit, EditPages
  <2>3. QED
    BY <1>0, <1>1, <2>1, <2>2
<1>2. CASE l \notin Signed(f)
  <2>1. /\ task[f].at = "sign" /\ l = size + 1
        /\ log'[l].page = task[f].page /\ log'[l].over = task[f].over
    BY <1>2, NewListingOn
  <2>2. form[f].at # "unopened"
    BY <1>0, <2>1, OpenedBefore
  <2>3. form'[f].home = form[f].home
    BY <1>0, <2>2, FormKept
  <2>4. task[f].page \in PagesOf(f)
    BY <2>1 DEF PagesInv, PagesFit, CallPages
  <2>5. \A m \in Signed(f) : m < l
    BY <1>0, <2>1, Kept
  <2>6. QED
    BY <1>0, <2>1, <2>3, <2>4, <2>5 DEF PagesOf
<1>3. QED
  BY <1>1, <1>2

(* A form publishes one page, the one it was opened for or the one minted  *)
(* for it, unless it never learned of the first or a form was left.        *)
THEOREM FormsKeepTheirPage == Spec => []FormKeepsItsPage
<1>1. Init => PagesInv
  BY InvInit, WorkingInit, PagesFitInit DEF PagesInv
<1>2. PagesInv /\ [Next]_vars => PagesInv'
  BY InvStep, WorkingStep, OwnedStep, ShownPagesStep, CallPagesStep, LastSignedStep, HeardShownStep,
     HeardCallStep, HeardLaterStep, EditPagesStep DEF PagesInv, PagesFit
<1>3. PagesInv => FormKeepsItsPage
  <2>1. ASSUME PagesInv, NEW f \in Forms, NEW l \in Signed(f), NEW m \in Signed(f) \cap sent, m < l,
               log[m].page # log[l].page
        PROVE  m \in unheard \/ Elsewhere(f, log[l].page)
    BY <2>1 DEF PagesInv, PagesFit, HeardLater, Heard, OtherPages
  <2>2. ASSUME PagesInv, NEW f \in Forms, NEW l \in Signed(f), log[l].over # 0
        PROVE  \/ log[l].page = form[f].home
               \/ \E m \in Signed(f) : m < l /\ log[m].over = 0 /\ log[m].page = log[l].page
               \/ Elsewhere(f, log[l].page)
    BY <2>2 DEF PagesInv, PagesFit, EditPages, OtherPages
  <2>3. QED
    BY <2>1, <2>2 DEF FormKeepsItsPage
<1>4. QED
  BY <1>1, <1>2, <1>3, PTL DEF Spec

-----------------------------------------------------------------------------
(* First publications.  A page is minted for one call, which signs the     *)
(* first listing of the page; every other listing of it edits one that     *)
(* was there before.  A relay with a listing of the page therefore has the *)
(* first one or a successor.                                               *)
Fresh(f) ==
  task[f].over = 0 /\ task[f].at \in {"provision", "store", "announce", "recheck", "sign"}
LogMinted == \A n \in 1..size : log[n].kind = "listing" => log[n].page \in minted
FreshMinted == \A f \in Forms : Fresh(f) => task[f].page \in minted
FreshUnlisted == \A f \in Forms : Fresh(f) =>
  \A n \in 1..size : log[n].kind = "listing" => log[n].page # task[f].page
FreshApart == \A f, g \in Forms : Fresh(f) /\ Fresh(g) /\ task[f].page = task[g].page => f = g
FirstBefore == \A l, n \in 1..size :
  /\ log[l].kind = "listing" /\ log[n].kind = "listing"
  /\ log[l].page = log[n].page /\ log[l].over = 0
  => l <= n
FirstsFit == LogMinted /\ FreshMinted /\ FreshUnlisted /\ FreshApart /\ FirstBefore

(* What relays have, and that what was sent is still there or replaced.    *)
RelaysFit == \A r \in Relays, p \in Pages :
  relay[r][p] # 0 => ListingOf(log, sent, relay[r][p], p)
SentReaches == \A l \in sent : Holding(log[l].page, l) # {}

HoldingInv == Inv /\ FirstsFit /\ RelaysFit /\ SentReaches

(* At the start nothing is signed and no call works.                       *)
LEMMA HoldingInit == Init => FirstsFit /\ RelaysFit /\ SentReaches
  BY DEF Init, FirstsFit, LogMinted, FreshMinted, FreshUnlisted, FreshApart, FirstBefore, Fresh, NoTask,
         RelaysFit, SentReaches

(* A call that has yet to sign the first listing of its page.              *)
LEMMA FreshCases ==
  ASSUME Inv, [Next]_vars, NEW f \in Forms, Fresh(f)'
  PROVE  \/ Fresh(f) /\ task'[f].page = task[f].page
         \/ \E p \in Pages : Mint(f, p)
<1> DEFINE Same == Fresh(f) /\ task'[f].page = task[f].page
<1>1. task'[f] = task[f] => Same
  BY DEF Fresh
<1>2. task'[f] # NoTask
  BY DEF Fresh, NoTask
<1>3. ASSUME NEW mode \in Modes, Begin(f, mode) PROVE FALSE
  BY <1>3, BeginDoes DEF Fresh
<1>4. ASSUME NEW S \in SUBSET Relays, NEW H \in SUBSET Forms, Send(f, S, H) PROVE FALSE
  BY <1>4, SendDoes DEF Fresh
<1>5. ASSUME NEW S \in SUBSET Relays, SendUnheard(f, S) PROVE FALSE
  BY <1>5, SendUnheardDoes DEF Fresh
<1>6. ASSUME NEW V \in SUBSET Relays, Check(f, V) PROVE FALSE
  BY <1>6, CheckDoes DEF Fresh
<1>7. ASSUME NEW V \in SUBSET Relays, Confirm(f, V) PROVE FALSE
  BY <1>7, ConfirmDoes DEF Fresh
<1>8. ASSUME NEW V \in SUBSET Relays, Recheck(f, V) PROVE Same
  BY <1>8, RecheckDoes DEF Fresh
<1>9. ~SignListing(f)
  BY SignListingDoes DEF Fresh
<1>10. Finish(f) \/ Fail(f) => FALSE
  BY <1>2, EndDoes
<1>11. Provision(f) => Same
  BY ProvisionDoes DEF Fresh
<1>12. Store(f) => Same
  BY StoreDoes DEF Fresh
<1>13. Announce(f) \/ AnnounceUnheard(f) => Same
  BY AnnounceDoes DEF Fresh
<1> HIDE DEF Same
<1>14. TaskStep(f) => Same \/ \E p \in Pages : Mint(f, p)
  BY <1>4, <1>5, <1>6, <1>7, <1>8, <1>9, <1>10, <1>11, <1>12, <1>13 DEF TaskStep
<1>15. QED
  BY <1>1, <1>2, <1>3, <1>14, TaskCases DEF Same

(* Where the listings of the log come from.                                *)
LEMMA ListingCases ==
  ASSUME Inv, [Next]_vars, NEW n \in 1..size', log'[n].kind = "listing"
  PROVE  \/ n \in 1..size /\ log'[n] = log[n]
         \/ n = size + 1 /\ \E g \in Forms : SignListing(g)
  BY NewListingBy, Kept

(* Identifiers are minted once and for good.                               *)
LEMMA MintedKept == Inv /\ [Next]_vars => minted \subseteq minted'
<1> SUFFICES ASSUME Inv, [Next]_vars PROVE minted \subseteq minted'
  OBVIOUS
<1>1. ASSUME NEW f \in Forms, FormStep(f) PROVE minted' = minted
  BY <1>1 DEF FormStep, OpenNew, OpenEdit, Leave, Begin, world
<1>2. ASSUME NEW f \in Forms, TaskStep(f)
      PROVE  minted' = minted \/ \E p \in Pages : minted' = minted \cup {p}
  <2>1. ASSUME NEW S \in SUBSET Relays, NEW H \in SUBSET Forms, SendUnheard(f, S) \/ Send(f, S, H)
        PROVE  minted' = minted
    BY <2>1 DEF SendUnheard, Send
  <2>2. ASSUME NEW p \in Pages, Mint(f, p) PROVE minted' = minted \cup {p}
    BY <2>2 DEF Mint
  <2>3. ASSUME NEW V \in SUBSET Relays, Check(f, V) \/ Recheck(f, V) \/ Confirm(f, V)
        PROVE  minted' = minted
    BY <2>3 DEF Check, Recheck, Confirm, world
  <2>4. Provision(f) \/ Store(f) \/ Announce(f) \/ AnnounceUnheard(f) \/ SignListing(f) => minted' = minted
    BY DEF Provision, Store, Announce, AnnounceUnheard, SignListing, world
  <2>5. Finish(f) \/ Fail(f) => minted' = minted
    BY DEF Finish, Fail, Answer, world
  <2>6. QED
    BY <1>2, <2>1, <2>2, <2>3, <2>4, <2>5 DEF TaskStep
<1>3. QED
  BY <1>1, <1>2 DEF Next, SwitchAccount, Exit, RotateKey, world, vars

(* What the signer of a listing knows of its page.                         *)
LEMMA SignerPage ==
  ASSUME Inv, FirstsFit, NEW g \in Forms, SignListing(g)
  PROVE  /\ task[g].over = 0 => Fresh(g)
         /\ task[g].over # 0 => /\ task[g].over \in 1..size
                                /\ log[task[g].over].kind = "listing"
                                /\ log[task[g].over].page = task[g].page
         /\ task[g].page \in minted
<1>1. task[g].at = "sign"
  BY SignListingDoes
<1>2. task[g].over = 0 => Fresh(g)
  BY <1>1 DEF Fresh
<1>3. task[g].over # 0 => /\ task[g].over \in 1..size
                          /\ log[task[g].over].kind = "listing"
                          /\ log[task[g].over].page = task[g].page
  BY DEF Inv, TypeOK, TaskFits, CallFits, ListingOf
<1>4. QED
  BY <1>2, <1>3 DEF FirstsFit, FreshMinted, LogMinted

(* Every step keeps first publications first.                              *)
LEMMA FirstsStep == Inv /\ FirstsFit /\ [Next]_vars => FirstsFit'
<1> SUFFICES ASSUME Inv, FirstsFit, [Next]_vars PROVE FirstsFit'
  OBVIOUS
<1>1. ASSUME NEW f \in Forms, NEW p \in Pages, Mint(f, p)
      PROVE  task'[f].page = p /\ p \notin minted /\ p \in minted' /\ OtherTasks(f)
  <2>1. p \notin minted /\ minted' = minted \cup {p}
    BY <1>1 DEF Mint
  <2>2. QED
    BY <1>1, <2>1, MintDoes
<1>2. ASSUME NEW g \in Forms, SignListing(g)
      PROVE  /\ log'[size + 1].page = task[g].page /\ log'[size + 1].over = task[g].over
             /\ task'[g].at = "send" /\ OtherTasks(g)
  BY <1>2, SignListingDoes
<1>3. LogMinted'
  <2>1. ASSUME NEW n \in 1..size', log'[n].kind = "listing" PROVE log'[n].page \in minted
    BY <1>2, <2>1, ListingCases, SignerPage DEF FirstsFit, LogMinted
  <2>2. QED
    BY <2>1, MintedKept DEF LogMinted
<1>4. FreshMinted'
  <2>1. ASSUME NEW f \in Forms, Fresh(f)' PROVE task'[f].page \in minted'
    BY <1>1, <2>1, FreshCases, MintedKept DEF FirstsFit, FreshMinted
  <2>2. QED
    BY <2>1 DEF FreshMinted
<1>5. FreshUnlisted'
  <2> SUFFICES ASSUME NEW f \in Forms, Fresh(f)', NEW n \in 1..size', log'[n].kind = "listing",
                      log'[n].page = task'[f].page
               PROVE  FALSE
    BY DEF FreshUnlisted
  <2>1. CASE n \in 1..size /\ log'[n] = log[n]
    <3>1. log[n].page \in minted
      BY <2>1 DEF FirstsFit, LogMinted
    <3>2. QED
      BY <1>1, <2>1, <3>1, FreshCases DEF FirstsFit, FreshUnlisted
  <2>2. CASE n = size + 1 /\ \E g \in Forms : SignListing(g)
    <3>1. PICK g \in Forms : SignListing(g)
      BY <2>2
    <3>2. f # g
      BY <1>2, <3>1 DEF Fresh
    <3>3. task'[f] = task[f] /\ task[f].page = task[g].page
      BY <1>2, <2>2, <3>1, <3>2 DEF OtherTasks
    <3>4. Fresh(f)
      BY <3>3 DEF Fresh
    <3>5. QED
      BY <3>1, <3>2, <3>3, <3>4, SignerPage DEF FirstsFit, FreshUnlisted, FreshApart
  <2>3. QED
    BY <2>1, <2>2, ListingCases
<1>6. FreshApart'
  <2> SUFFICES ASSUME NEW f \in Forms, NEW g \in Forms, Fresh(f)', Fresh(g)',
                      task'[f].page = task'[g].page, f # g
               PROVE  FALSE
    BY DEF FreshApart
  <2>1. ASSUME NEW a \in Forms, NEW b \in Forms, a # b, Fresh(b)', NEW p \in Pages, Mint(a, p)
        PROVE  task'[a].page # task'[b].page
    <3>1. task'[b] = task[b]
      BY <1>1, <2>1 DEF OtherTasks
    <3>2. Fresh(b)
      BY <2>1, <3>1 DEF Fresh
    <3>3. QED
      BY <1>1, <2>1, <3>1, <3>2 DEF FirstsFit, FreshMinted
  <2>2. QED
    BY <2>1, FreshCases DEF FirstsFit, FreshApart
<1>7. FirstBefore'
  <2> SUFFICES ASSUME NEW l \in 1..size', NEW n \in 1..size',
                      log'[l].kind = "listing", log'[n].kind = "listing",
                      log'[l].page = log'[n].page, log'[l].over = 0
               PROVE  l <= n
    BY DEF FirstBefore
  <2>1. size \in Nat /\ size' \in {size, size + 1}
    BY Kept
  <2>2. CASE n \in 1..size /\ log'[n] = log[n] /\ l \in 1..size /\ log'[l] = log[l]
    BY <2>2 DEF FirstsFit, FirstBefore
  <2>3. CASE n \in 1..size /\ log'[n] = log[n] /\ l = size + 1 /\ \E g \in Forms : SignListing(g)
    <3>1. PICK g \in Forms : SignListing(g)
      BY <2>3
    <3>2. QED
      BY <1>2, <2>3, <3>1, SignerPage DEF FirstsFit, FreshUnlisted
  <2>4. CASE n = size + 1
    BY <2>1, <2>4
  <2>5. QED
    BY <2>2, <2>3, <2>4, ListingCases
<1>8. QED
  BY <1>3, <1>4, <1>5, <1>6, <1>7 DEF FirstsFit

(* Relays change by what is sent to some of them.                          *)
LEMMA RelayCases ==
  ASSUME Inv, [Next]_vars
  PROVE  \/ relay' = relay /\ sent' = sent
         \/ \E f \in Forms, S \in SUBSET Relays :
              /\ S # {} /\ Stored(task[f].event, task[f].page, S)
              /\ task[f].event \in 1..size /\ task[f].page \in Pages
              /\ log[task[f].event].kind = "listing" /\ log[task[f].event].page = task[f].page
<1>1. ASSUME NEW f \in Forms, NEW S \in SUBSET Relays, NEW H \in SUBSET Forms,
             SendUnheard(f, S) \/ Send(f, S, H)
      PROVE  /\ Stored(task[f].event, task[f].page, S)
             /\ task[f].event \in 1..size /\ task[f].page \in Pages
             /\ log[task[f].event].kind = "listing" /\ log[task[f].event].page = task[f].page
  <2>1. task[f].at = "send"
    BY <1>1 DEF SendUnheard, Send, At
  <2>2. Stored(task[f].event, task[f].page, S)
    <3>1. CASE SendUnheard(f, S)
      BY <3>1 DEF SendUnheard
    <3>2. CASE Send(f, S, H)
      BY <3>2 DEF Send
    <3>3. QED
      BY <1>1, <3>1, <3>2
  <2>3. QED
    BY <2>1, <2>2, Fields DEF Inv, TaskFits, CallFits
<1>2. ASSUME NEW f \in Forms, FormStep(f) \/ TaskStep(f)
      PROVE  \/ relay' = relay /\ sent' = sent
             \/ \E S \in SUBSET Relays, H \in SUBSET Forms : S # {} /\ (SendUnheard(f, S) \/ Send(f, S, H))
  <2>1. FormStep(f) => relay' = relay /\ sent' = sent
    BY DEF FormStep, OpenNew, OpenEdit, Leave, Begin, net
  <2>2. ASSUME NEW V \in SUBSET Relays, Check(f, V) \/ Recheck(f, V) \/ Confirm(f, V)
        PROVE  relay' = relay /\ sent' = sent
    BY <2>2 DEF Check, Recheck, Confirm, net
  <2>3. ASSUME NEW p \in Pages, Mint(f, p) PROVE relay' = relay /\ sent' = sent
    BY <2>3 DEF Mint, net
  <2>4. \/ Provision(f) \/ Store(f) \/ Announce(f) \/ AnnounceUnheard(f) \/ SignListing(f)
        \/ Finish(f) \/ Fail(f)
        => relay' = relay /\ sent' = sent
    BY DEF Provision, Store, Announce, AnnounceUnheard, SignListing, Finish, Fail, Answer, net
  <2>5. ASSUME NEW S \in (SUBSET Relays) \ {{}},
               SendUnheard(f, S) \/ \E H \in SUBSET Forms : Send(f, S, H)
        PROVE  \E R \in SUBSET Relays, H \in SUBSET Forms :
                 R # {} /\ (SendUnheard(f, R) \/ Send(f, R, H))
    <3>1. S \in SUBSET Relays /\ S # {}
      OBVIOUS
    <3>2. {} \in SUBSET Forms
      OBVIOUS
    <3>3. QED
      BY <2>5, <3>1, <3>2
  <2>6. QED
    BY <1>2, <2>1, <2>2, <2>3, <2>4, <2>5 DEF TaskStep
<1>3. QED
  BY <1>1, <1>2 DEF Next, SwitchAccount, Exit, RotateKey, net, vars

(* Every step leaves relays with published listings, and none of them is   *)
(* lost but to a successor.                                                *)
LEMMA RelaysStep == HoldingInv /\ [Next]_vars => RelaysFit' /\ SentReaches'
<1> SUFFICES ASSUME HoldingInv, [Next]_vars PROVE RelaysFit' /\ SentReaches'
  OBVIOUS
<1>0. Inv /\ RelaysFit /\ SentReaches
  BY DEF HoldingInv
<1>1. /\ sent \subseteq 1..size /\ \A x \in 1..size : log'[x] = log[x]
      /\ sent \subseteq sent'
      /\ \A r \in Relays, q \in Pages : relay'[r][q] >= relay[r][q] /\ relay[r][q] \in Nat
                                        /\ relay'[r][q] \in Nat
  BY <1>0, Kept, NetStep DEF Inv, TypeOK, NetTyped, Event0
<1>2. ASSUME NEW r \in Relays, NEW p \in Pages, NEW e, ListingOf(log, sent, e, p)
      PROVE  ListingOf(log', sent', e, p)
  BY <1>1, <1>2 DEF ListingOf
<1>3. ASSUME NEW l \in sent PROVE \E r \in Relays : relay'[r][log'[l].page] >= l
  <2>1. PICK r \in Relays : relay[r][log[l].page] >= l
    BY <1>0 DEF SentReaches, Holding
  <2>2. log[l].page \in Pages /\ log'[l] = log[l] /\ l \in Nat
    BY <1>0, <1>1 DEF Inv, LogFits, EventFits
  <2>3. relay'[r][log'[l].page] >= l
    BY <1>1, <2>1, <2>2
  <2>4. QED
    BY <2>3
<1>4. CASE relay' = relay /\ sent' = sent
  BY <1>0, <1>2, <1>3, <1>4 DEF RelaysFit, SentReaches, Holding
<1>5. ASSUME NEW f \in Forms, NEW S \in SUBSET Relays, S # {},
             Stored(task[f].event, task[f].page, S),
             task[f].event \in 1..size, task[f].page \in Pages,
             log[task[f].event].kind = "listing", log[task[f].event].page = task[f].page
      PROVE  RelaysFit' /\ SentReaches'
  <2> DEFINE e == task[f].event  q == task[f].page
  <2>1. /\ e \in 1..size /\ q \in Pages /\ sent' = sent \cup {e}
        /\ ListingOf(log', sent', e, q)
    BY <1>1, <1>5 DEF Stored, ListingOf
  <2>2. ASSUME NEW r \in Relays, NEW p \in Pages
        PROVE  /\ relay'[r][p] = relay[r][p] \/ (relay'[r][p] = e /\ p = q)
               /\ r \in S => relay'[r][q] = e
    <3>1. relay \in [Relays -> [Pages -> Event0]]
      BY <1>0 DEF Inv, TypeOK
    <3>2. QED
      BY <1>5, <2>1, <3>1 DEF Stored
  <2>3. log'[e].page = q /\ e \in Nat
    BY <1>1, <1>5
  <2> HIDE DEF e, q
  <2>4. RelaysFit'
    BY <1>0, <1>2, <2>1, <2>2 DEF RelaysFit
  <2>5. PICK r \in Relays : r \in S
    BY <1>5
  <2>6. relay'[r][q] >= e
    BY <2>1, <2>2, <2>3, <2>5
  <2>7. \A l \in sent' : \E x \in Relays : relay'[x][log'[l].page] >= l
    BY <1>3, <2>1, <2>3, <2>6
  <2>8. QED
    BY <2>4, <2>7 DEF SentReaches, Holding
<1>6. QED
  BY <1>0, <1>4, <1>5, RelayCases

(* What is published stays on a relay, and a relay with a listing of a     *)
(* page has the first one or a successor.                                  *)
LEMMA HoldingAlways == Spec => []HoldingInv
<1>1. Init => HoldingInv
  BY InvInit, HoldingInit DEF HoldingInv
<1>2. HoldingInv /\ [Next]_vars => HoldingInv'
  BY InvStep, FirstsStep, RelaysStep DEF HoldingInv
<1>3. QED
  BY <1>1, <1>2, PTL DEF Spec

-----------------------------------------------------------------------------
(* OutcomeTruthful.  Until an attempt has told the form of a listing, what *)
(* it signed last is on no relay or went unheard.                          *)
TwoShow == {p \in Pages : Cardinality({r \in Relays : relay[r][p] # 0}) >= 2}

LastOwn == \A f \in Forms :
  form[f].last # 0 => form[f].last \in 1..size /\ log[form[f].last].by = f
AtWork == \A f \in Forms :
  /\ task[f].at = "send" /\ Shown(f) => form[f].last = task[f].event
  /\ task[f].at = "upload" => task[f].page \in TwoShow
Unfruitful(f) == form[f].last \notin sent \ unheard
Waiting == \A f \in Forms : form[f].at = "publishing" =>
  IF form[f].published THEN form[f].event # 0 ELSE Unfruitful(f)
Ended == \A f \in Forms : form[f].at = "open" =>
  /\ form[f].outcome = "Failed" => Unfruitful(f)
  /\ form[f].outcome \in {"Complete", "Partial"} => form[f].event # 0
  /\ form[f].outcome = "Complete" => form[f].page \in TwoShow
OutcomeFits == LastOwn /\ AtWork /\ Waiting /\ Ended

OutcomeInv == Inv /\ Working /\ Owned /\ OutcomeFits

(* At the start no form has an outcome.                                  *)
LEMMA OutcomeFitsInit == Init => OutcomeFits
  BY DEF Init, OutcomeFits, LastOwn, AtWork, Waiting, Ended, Unopened, NoTask

(* A page that two relays show stays shown by two relays.                  *)
LEMMA TwoKept == Inv /\ [Next]_vars => TwoShow \subseteq TwoShow'
<1> SUFFICES ASSUME Inv, [Next]_vars, NEW p \in Pages,
                    Cardinality({r \in Relays : relay[r][p] # 0}) >= 2
             PROVE  Cardinality({r \in Relays : relay'[r][p] # 0}) >= 2
  BY DEF TwoShow
<1> DEFINE A == {r \in Relays : relay[r][p] # 0}  B == {r \in Relays : relay'[r][p] # 0}
<1>1. ASSUME NEW r \in Relays, relay[r][p] # 0 PROVE relay'[r][p] # 0
  <2>1. relay[r][p] \in Nat /\ relay'[r][p] \in Nat /\ relay'[r][p] >= relay[r][p]
    BY NetStep DEF Inv, TypeOK, NetTyped, Event0
  <2>2. QED
    BY <1>1, <2>1
<1>2. A \subseteq B /\ IsFiniteSet(B)
  BY <1>1, FS_Subset
<1> HIDE DEF A, B
<1>3. Cardinality(A) <= Cardinality(B) /\ Cardinality(A) \in Nat /\ Cardinality(B) \in Nat
  BY <1>2, FS_Subset, FS_CardinalityType
<1>4. QED
  BY <1>3 DEF A, B

(* The steps that leave the outcome of every form as it was.               *)
LEMMA OutcomeQuiet ==
  ASSUME OutcomeInv, [Next]_vars, form' = form, sent' = sent, unheard' = unheard,
         \A f \in Forms : \/ task'[f].at = "send" => task'[f] = task[f]
                          \/ ~Shown(f),
         \A f \in Forms : task'[f].at = "upload" => task'[f] = task[f] \/ task'[f].page \in TwoShow
  PROVE  OutcomeFits'
<1>0. Inv /\ TwoShow \subseteq TwoShow' /\ \A x \in 1..size : x \in 1..size' /\ log'[x] = log[x]
  BY TwoKept, Kept DEF OutcomeInv
<1>1. LastOwn'
  BY <1>0 DEF OutcomeInv, OutcomeFits, LastOwn
<1>2. AtWork'
  BY <1>0 DEF OutcomeInv, OutcomeFits, AtWork, Shown
<1>3. Waiting' /\ Ended'
  BY <1>0 DEF OutcomeInv, OutcomeFits, Waiting, Ended, Unfruitful
<1>4. QED
  BY <1>1, <1>2, <1>3 DEF OutcomeFits

(* A step that writes one form that is not publishing then, and no call    *)
(* but its own.                                                            *)
LEMMA OutcomeFormStep ==
  ASSUME OutcomeInv, NEW f \in Forms, FormStep(f)
  PROVE  OutcomeFits'
<1>0. Inv /\ Working
  BY DEF OutcomeInv
<1>1. ASSUME Others(f), SameLog, SameNet, unheard' = unheard, OtherTasks(f),
             task'[f].at \notin {"send", "upload"} \/ (task' = task /\ ~Shown(f)'),
             form'[f].last \in {0, form[f].last},
             form'[f].at = "publishing" => ~form'[f].published /\ form'[f].last = 0,
             form'[f].at = "open" => form'[f].outcome = "Idle"
      PROVE  OutcomeFits'
  <2>1. TwoShow' = TwoShow
    BY <1>1 DEF TwoShow, SameNet
  <2>2. LastOwn'
    BY <1>1 DEF OutcomeInv, OutcomeFits, LastOwn, Others, SameLog
  <2>3. AtWork'
    BY <1>1, <2>1 DEF OutcomeInv, OutcomeFits, AtWork, Others, OtherTasks, Shown
  <2>4. 0 \notin sent
    BY <1>0, Kept DEF Inv, TypeOK
  <2>5. Waiting'
    BY <1>1, <2>4 DEF OutcomeInv, OutcomeFits, Waiting, Unfruitful, Others, SameNet
  <2>6. Ended'
    BY <1>1, <2>1 DEF OutcomeInv, OutcomeFits, Ended, Unfruitful, Others, SameNet
  <2>7. QED
    BY <2>2, <2>3, <2>5, <2>6 DEF OutcomeFits
<1>2. form[f].at = "unopened" => form[f].outcome = "Idle" /\ task[f].at = "idle"
  BY <1>0 DEF Working, Unopened, Left
<1>3. ASSUME OpenNew(f) \/ \E l \in sent : OpenEdit(f, l) PROVE OutcomeFits'
  <2>1. /\ form[f].at = "unopened" /\ Others(f) /\ task' = task /\ SameLog /\ SameNet
        /\ unheard' = unheard /\ form'[f].at = "open" /\ form'[f].outcome = form[f].outcome
        /\ form'[f].last = form[f].last
    BY <1>0, <1>3, OpenNewDoes, OpenEditDoes
  <2>2. QED
    BY <1>1, <1>2, <2>1 DEF OtherTasks
<1>4. ASSUME Leave(f) PROVE OutcomeFits'
  <2>1. /\ form'[f].at = "gone" /\ form'[f].last = 0 /\ Others(f) /\ task' = task /\ SameLog /\ SameNet
        /\ unheard' = unheard
    BY <1>0, <1>4, LeaveDoes, ClosedIs
  <2>2. QED
    BY <1>1, <2>1 DEF OtherTasks, Shown
<1>5. ASSUME NEW mode \in Modes, Begin(f, mode) PROVE OutcomeFits'
  <2>1. /\ form'[f].at = "publishing" /\ ~form'[f].published /\ form'[f].last = 0
        /\ task'[f].at = "check" /\ Others(f) /\ OtherTasks(f) /\ SameLog /\ SameNet
        /\ unheard' = unheard
    BY <1>0, <1>5, BeginDoes
  <2>2. QED
    BY <1>1, <2>1
<1>6. QED
  BY <1>3, <1>4, <1>5 DEF FormStep

(* Sending a listing.                                                      *)
LEMMA OutcomeSend ==
  ASSUME OutcomeInv, [Next]_vars, NEW f \in Forms, NEW S \in SUBSET Relays, NEW H \in SUBSET Forms,
         Send(f, S, H)
  PROVE  OutcomeFits'
<1>0. Inv /\ Working /\ TwoShow \subseteq TwoShow' /\ sent \subseteq 1..size
  BY TwoKept, Kept DEF OutcomeInv
<1>1. /\ task[f].at = "send" /\ task'[f].at = "confirm" /\ OtherTasks(f) /\ SameLog
      /\ task[f].event \in 1..size /\ log[task[f].event].by = f
      /\ sent' = sent \cup {task[f].event}
      /\ f \in H \/ unheard' = unheard \cup {task[f].event}
      /\ unheard' \in {unheard, unheard \cup {task[f].event}}
  BY <1>0, SendDoes
<1>2. \A g \in Forms : form'[g].at = form[g].at /\ form'[g].last = form[g].last
  BY <1>0, SendForms
<1>3. \A g \in Forms \ H : form'[g] = form[g]
  BY <1>0, SendForms
<1>4. ASSUME NEW g \in H
      PROVE  /\ form[g].at = "publishing" /\ form'[g].published
             /\ form'[g].event = task[f].event
  BY <1>0, SendTells
<1>5. \A g \in Forms \ H : Unfruitful(g) => form'[g].last \notin sent' \ unheard'
  <2>1. ASSUME NEW g \in Forms \ H, Unfruitful(g), form[g].last \in sent' \ unheard'
        PROVE  FALSE
    <3>1. form[g].last = task[f].event
      BY <1>1, <2>1 DEF Unfruitful
    <3>2. g = f
      BY <1>1, <3>1 DEF OutcomeInv, OutcomeFits, LastOwn
    <3>3. QED
      BY <1>1, <2>1, <3>1, <3>2
  <2>2. QED
    BY <1>3, <2>1
<1>6. LastOwn'
  BY <1>1, <1>2 DEF OutcomeInv, OutcomeFits, LastOwn, SameLog
<1>7. AtWork'
  BY <1>0, <1>1, <1>2 DEF OutcomeInv, OutcomeFits, AtWork, Shown, OtherTasks
<1>8. Waiting'
  <2>1. ASSUME NEW g \in Forms, form'[g].at = "publishing"
        PROVE  IF form'[g].published THEN form'[g].event # 0 ELSE form'[g].last \notin sent' \ unheard'
    <3>1. CASE g \in H
      BY <1>1, <1>4, <3>1
    <3>2. CASE g \notin H
      BY <1>2, <1>3, <1>5, <2>1, <3>2 DEF OutcomeInv, OutcomeFits, Waiting
    <3>3. QED
      BY <3>1, <3>2
  <2>2. QED
    BY <2>1 DEF Waiting, Unfruitful
<1>9. Ended'
  <2>1. \A g \in Forms : form'[g].at = "open" => g \notin H
    BY <1>2, <1>4
  <2>2. QED
    BY <1>0, <1>3, <1>5, <2>1 DEF OutcomeInv, OutcomeFits, Ended, Unfruitful
<1>10. QED
  BY <1>6, <1>7, <1>8, <1>9 DEF OutcomeFits

(* Every answer of a relay is lost.                                        *)
LEMMA OutcomeUnheard ==
  ASSUME OutcomeInv, [Next]_vars, NEW f \in Forms, NEW S \in SUBSET Relays, SendUnheard(f, S)
  PROVE  OutcomeFits'
<1>0. Inv /\ TwoShow \subseteq TwoShow'
  BY TwoKept DEF OutcomeInv
<1>1. /\ task'[f].at = "failed" /\ OtherTasks(f) /\ SameLog /\ form' = form
      /\ sent' = sent \cup {task[f].event} /\ unheard' = unheard \cup {task[f].event}
  BY <1>0, SendUnheardDoes
<1>2. \A g \in Forms : Unfruitful(g) => Unfruitful(g)'
  BY <1>1 DEF Unfruitful
<1>3. LastOwn' /\ AtWork'
  BY <1>0, <1>1 DEF OutcomeInv, OutcomeFits, LastOwn, AtWork, Shown, SameLog, OtherTasks
<1>4. Waiting' /\ Ended'
  BY <1>0, <1>1, <1>2 DEF OutcomeInv, OutcomeFits, Waiting, Ended
<1>5. QED
  BY <1>3, <1>4 DEF OutcomeFits

(* The signature.                                                          *)
LEMMA OutcomeSign ==
  ASSUME OutcomeInv, [Next]_vars, NEW f \in Forms, SignListing(f)
  PROVE  OutcomeFits'
<1>0. Inv /\ Working /\ TwoShow \subseteq TwoShow' /\ sent \subseteq 1..size
  BY TwoKept, Kept DEF OutcomeInv
<1>1. /\ task[f].at = "sign" /\ task'[f].at = "send" /\ task'[f].event = size + 1
      /\ size' = size + 1 /\ \A x \in 1..size : log'[x] = log[x]
      /\ log'[size + 1].by = f /\ OtherTasks(f) /\ Others(f)
      /\ sent' = sent /\ unheard' = unheard
      /\ form'[f].at = form[f].at /\ form'[f].event = form[f].event
      /\ (form'[f].published <=> form[f].published) /\ form'[f].last = size + 1
  BY <1>0, SignListingDoes DEF SameNet
<1>2. size + 1 \notin sent /\ size + 1 \in 1..size'
  BY <1>0, <1>1, Kept
<1>3. LastOwn'
  BY <1>0, <1>1, <1>2, Kept DEF OutcomeInv, OutcomeFits, LastOwn, Others
<1>4. AtWork'
  BY <1>0, <1>1 DEF OutcomeInv, OutcomeFits, AtWork, Others, OtherTasks, Shown
<1>5. Waiting'
  BY <1>1, <1>2 DEF OutcomeInv, OutcomeFits, Waiting, Unfruitful, Others
<1>6. form[f].at # "open"
  BY <1>0, <1>1 DEF Working, Left
<1>7. Ended'
  BY <1>0, <1>1, <1>6 DEF OutcomeInv, OutcomeFits, Ended, Unfruitful, Others
<1>8. QED
  BY <1>3, <1>4, <1>5, <1>7 DEF OutcomeFits

(* The answer.                                                             *)
LEMMA OutcomeEnd ==
  ASSUME OutcomeInv, [Next]_vars, NEW f \in Forms, Finish(f) \/ Fail(f)
  PROVE  OutcomeFits'
<1>0. Inv /\ Working
  BY DEF OutcomeInv
<1>1. /\ task'[f].at = "idle" /\ OtherTasks(f) /\ Others(f) /\ SameLog /\ SameNet
      /\ unheard' = unheard
      /\ form[f].at # "publishing" => form'[f] = form[f]
      /\ form[f].at = "publishing" => form'[f].at = "open" /\ form'[f].last = form[f].last
  BY <1>0, EndDoes DEF NoTask
<1>2. form[f].at = "publishing" =>
        \/ /\ form'[f].event = form[f].event /\ form'[f].page = form[f].page
           /\ form'[f].outcome = IF form[f].published THEN "Partial" ELSE "Failed"
        \/ /\ task[f].at = "upload" /\ form'[f].outcome = "Complete"
           /\ form'[f].event = task[f].event /\ form'[f].page = task[f].page
  BY <1>0, EndDoes
<1>3. task[f].at = "upload" => task[f].event # 0 /\ task[f].page \in TwoShow
  BY DEF OutcomeInv, Owned, SignedOwn, OutcomeFits, AtWork
<1>4. TwoShow' = TwoShow
  BY <1>1 DEF TwoShow, SameNet
<1>5. LastOwn' /\ AtWork' /\ Waiting'
  BY <1>1, <1>4 DEF OutcomeInv, OutcomeFits, LastOwn, AtWork, Waiting, Unfruitful, Shown, Others, OtherTasks,
     SameLog, SameNet
<1>6. ASSUME form[f].at = "publishing"
      PROVE  /\ form'[f].outcome = "Failed" => Unfruitful(f)
             /\ form'[f].outcome \in {"Complete", "Partial"} => form'[f].event # 0
             /\ form'[f].outcome = "Complete" => form'[f].page \in TwoShow
  BY <1>2, <1>3, <1>6 DEF OutcomeInv, OutcomeFits, Waiting
<1>7. Ended'
  BY <1>1, <1>4, <1>6 DEF OutcomeInv, OutcomeFits, Ended, Unfruitful, Others, SameNet
<1>8. QED
  BY <1>5, <1>7 DEF OutcomeFits

(* Every step keeps the outcomes true.                                   *)
LEMMA OutcomeFitsStep == OutcomeInv /\ [Next]_vars => OutcomeFits'
<1> SUFFICES ASSUME OutcomeInv, [Next]_vars PROVE OutcomeFits'
  OBVIOUS
<1>0. Inv /\ Working
  BY DEF OutcomeInv
<1>1. ASSUME NEW f \in Forms, OtherTasks(f), task'[f].at # "send",
             task'[f].at = "upload" => task'[f].page \in TwoShow,
             form' = form, sent' = sent, unheard' = unheard
      PROVE  OutcomeFits'
  BY <1>1, OutcomeQuiet DEF OtherTasks
<1>2. ASSUME NEW f \in Forms, NEW p \in Pages, Mint(f, p) PROVE OutcomeFits'
  BY <1>0, <1>1, <1>2, MintDoes DEF SameNet
<1>3. ASSUME NEW f \in Forms, NEW V \in SUBSET Relays, Check(f, V) \/ Recheck(f, V) PROVE OutcomeFits'
  <2>1. /\ OtherTasks(f) /\ task'[f].at \notin {"send", "upload"} /\ form' = form /\ SameNet
        /\ unheard' = unheard
    BY <1>0, <1>3, CheckDoes, RecheckDoes
  <2>2. QED
    BY <1>1, <2>1 DEF SameNet
<1>4. ASSUME NEW f \in Forms, NEW V \in SUBSET Relays, Confirm(f, V) PROVE OutcomeFits'
  <2>1. /\ OtherTasks(f) /\ task'[f].at = "upload" /\ form' = form /\ SameNet /\ unheard' = unheard
        /\ Cardinality({r \in V : relay[r][task[f].page] # 0}) >= 2
        /\ task'[f].page = task[f].page /\ task[f].at = "confirm"
    BY <1>0, <1>4, ConfirmDoes
  <2> DEFINE A == {r \in V : relay[r][task[f].page] # 0}  B == {r \in Relays : relay[r][task[f].page] # 0}
  <2>2. A \subseteq B /\ IsFiniteSet(B)
    BY FS_Subset
  <2>3. Cardinality(A) >= 2
    BY <2>1
  <2> HIDE DEF A, B
  <2>4. Cardinality(B) >= 2
    BY <2>2, <2>3, FS_Subset, FS_CardinalityType
  <2>5. task[f].page \in TwoShow
    BY <1>0, <2>1, <2>4, Fields DEF TwoShow, B
  <2>6. QED
    BY <1>1, <2>1, <2>5 DEF SameNet
<1>5. ASSUME NEW f \in Forms, Store(f) \/ Provision(f) PROVE OutcomeFits'
  <2>1. /\ OtherTasks(f) /\ task'[f].at \notin {"send", "upload"} /\ form' = form /\ SameNet
        /\ unheard' = unheard
    BY <1>0, <1>5, StoreDoes, ProvisionDoes
  <2>2. QED
    BY <1>1, <2>1 DEF SameNet
<1>6. ASSUME NEW f \in Forms, Announce(f) \/ AnnounceUnheard(f) PROVE OutcomeFits'
  BY <1>0, <1>1, <1>6, AnnounceDoes
<1>7. ASSUME NEW d \in Devices, SwitchAccount(d) PROVE OutcomeFits'
  <2>1. /\ task' = task /\ SameLog /\ SameNet /\ unheard' = unheard
        /\ \A f \in Forms : /\ form'[f].at = form[f].at /\ form'[f].event = form[f].event
                            /\ form'[f].page = form[f].page /\ (form'[f].published <=> form[f].published)
                            /\ form'[f].outcome = form[f].outcome /\ form'[f].last = form[f].last
    BY <1>0, <1>7, SwitchDoes
  <2>2. TwoShow' = TwoShow
    BY <2>1 DEF TwoShow, SameNet
  <2>3. LastOwn' /\ AtWork'
    BY <2>1, <2>2 DEF OutcomeInv, OutcomeFits, LastOwn, AtWork, Shown, SameLog
  <2>4. Waiting' /\ Ended'
    BY <2>1, <2>2 DEF OutcomeInv, OutcomeFits, Waiting, Ended, Unfruitful, SameNet
  <2>5. QED
    BY <2>3, <2>4 DEF OutcomeFits
<1>8. ASSUME NEW d \in Devices, Exit(d) PROVE OutcomeFits'
  <2>1. /\ SameLog /\ SameNet /\ unheard' = unheard
        /\ \A f \in Forms : /\ form'[f] = form[f] \/ (form'[f].at = "gone" /\ form'[f].last = 0)
                            /\ task'[f] = task[f] \/ task'[f].at = "idle"
    BY <1>0, <1>8, ExitDoes, ClosedIs DEF NoTask
  <2>2. TwoShow' = TwoShow
    BY <2>1 DEF TwoShow, SameNet
  <2>3. LastOwn' /\ AtWork'
    BY <2>1, <2>2 DEF OutcomeInv, OutcomeFits, LastOwn, AtWork, Shown, SameLog
  <2>4. Waiting' /\ Ended'
    BY <2>1, <2>2 DEF OutcomeInv, OutcomeFits, Waiting, Ended, Unfruitful, SameNet
  <2>5. QED
    BY <2>3, <2>4 DEF OutcomeFits
<1>9. CASE UNCHANGED <<form, task, sent, unheard>>
  BY <1>9, OutcomeQuiet
<1>10. ASSUME NEW f \in Forms, TaskStep(f) PROVE OutcomeFits'
  BY <1>2, <1>3, <1>4, <1>5, <1>6, <1>10, OutcomeSend, OutcomeUnheard, OutcomeSign, OutcomeEnd DEF TaskStep
<1>11. QED
  BY <1>7, <1>8, <1>9, <1>10, OutcomeFormStep DEF Next, RotateKey, net, world, vars

(* What the form says of its last attempt is so: Failed means no listing   *)
(* the form was told of is on a relay; Complete and Partial that the       *)
(* listing it knows or a successor is on one; Complete that two relays     *)
(* have a listing of the page, and of a first publication this one or a    *)
(* successor.                                                              *)
THEOREM OutcomesTruthful == Spec => []OutcomeTruthful
<1>1. Init => OutcomeInv
  BY InvInit, WorkingInit, OutcomeFitsInit DEF OutcomeInv
<1>2. OutcomeInv /\ [Next]_vars => OutcomeInv'
  BY InvStep, WorkingStep, OwnedStep, OutcomeFitsStep DEF OutcomeInv
<1>3. OutcomeInv /\ HoldingInv => OutcomeTruthful
  <2> SUFFICES ASSUME OutcomeInv, HoldingInv, NEW f \in Forms, form[f].at = "open"
               PROVE  LET e == form[f].event
                          p == form[f].page
                      IN  /\ form[f].outcome = "Failed" => form[f].last \notin sent \ unheard
                          /\ form[f].outcome \in {"Complete", "Partial"} =>
                               /\ e \in sent /\ log[e].page = p
                               /\ Holding(p, e) # {}
                          /\ form[f].outcome = "Complete" =>
                               /\ Cardinality(Holding(p, 1)) >= 2
                               /\ log[e].over = 0 => Cardinality(Holding(p, e)) >= 2
    BY DEF OutcomeTruthful
  <2> DEFINE e == form[f].event  p == form[f].page
             A == {r \in Relays : relay[r][p] # 0}
  <2>1. form[f].outcome = "Failed" => form[f].last \notin sent \ unheard
    BY DEF OutcomeInv, OutcomeFits, Ended, Unfruitful
  <2>2. form[f].outcome \in {"Complete", "Partial"} =>
          ListingOf(log, sent, e, p) /\ Holding(p, e) # {}
    BY DEF OutcomeInv, OutcomeFits, Ended, Inv, FormFits, ListingOf, HoldingInv, SentReaches
  <2>3. form[f].outcome = "Complete" => p \in Pages /\ Cardinality(A) >= 2
    BY DEF OutcomeInv, OutcomeFits, Ended, TwoShow
  <2>4. ASSUME p \in Pages PROVE A = Holding(p, 1)
    <3>1. \A r \in Relays : relay[r][p] \in Nat
      BY <2>4 DEF HoldingInv, Inv, TypeOK, Event0
    <3>2. QED
      BY <3>1 DEF Holding
  <2>5. ASSUME p \in Pages, ListingOf(log, sent, e, p), log[e].over = 0
        PROVE  A = Holding(p, e)
    <3>1. sent \subseteq 1..size /\ e \in 1..size
      BY <2>5 DEF HoldingInv, Inv, TypeOK, ListingOf
    <3>2. ASSUME NEW r \in Relays, relay[r][p] # 0 PROVE relay[r][p] >= e
      <4>1. ListingOf(log, sent, relay[r][p], p)
        BY <2>5, <3>2 DEF HoldingInv, RelaysFit
      <4>2. PICK n \in 1..size : n = relay[r][p]
        BY <3>1, <4>1 DEF ListingOf
      <4>3. e <= n
        BY <2>5, <3>1, <4>1, <4>2 DEF HoldingInv, FirstsFit, FirstBefore, ListingOf
      <4>4. QED
        BY <3>1, <4>2, <4>3
    <3>3. ASSUME NEW r \in Relays, relay[r][p] >= e PROVE relay[r][p] # 0
      BY <3>1, <3>3
    <3>4. QED
      BY <3>2, <3>3 DEF Holding
  <2> HIDE DEF A
  <2>6. QED
    BY <2>1, <2>2, <2>3, <2>4, <2>5 DEF ListingOf
<1>4. QED
  BY <1>1, <1>2, <1>3, HoldingAlways, PTL DEF Spec

=============================================================================
