------------------------- MODULE CampaignPublishing -------------------------
(***************************************************************************)
(* One publisher's sessions - windows, devices, or overlapping calls -     *)
(* editing the campaigns of one listing through the desktop commands       *)
(* publish_campaign and update_campaign_pointer (adp_commands.rs).  Each   *)
(* is a read-modify-write over relays: discover or fetch, sign, publish,   *)
(* with an await between any two of these and no lock held across them.    *)
(***************************************************************************)
EXTENDS Campaign

CONSTANTS
  Setups,         \* the circumstances a publisher may work in, see Setup
  MaxTime,        \* bound on the clock (seconds)
  MaxEvents       \* bound on the campaign events published

(* What the environment of a publisher decides: the sessions in use, the   *)
(* campaigns and windows asked for, whether requests carry                 *)
(* update_listing_pointer and how many listing events may follow (0: no    *)
(* request does), and whether a best-effort query may miss events.         *)
Setup(sessions, campaigns, terms, listings, partial) ==
  [ sessions |-> sessions, campaigns |-> campaigns, terms |-> terms,
    listings |-> listings, partial |-> partial ]

(* A publisher works with some sessions at a time. *)
ASSUME CampaignAssumption == \A s \in Setups : IsFiniteSet(s.sessions)

VARIABLES
  setup,      \* the circumstances, chosen once
  now,        \* the clock the sessions stamp events with
  relay,      \* campaign events some relay accepted
  listings,   \* kind-30402 events some relay accepted
  session     \* session[s]: where the command of session s stands

vars == <<setup, now, relay, listings, session>>

Idle == [pc |-> "idle"]

OfCampaign(S, c) == {e \in S : e.campaign = c}

Roots == CampaignRoots(relay)

(* fetch_events_best_effort: what the relays that answered returned. *)
Fetched(S) == IF setup.partial THEN SUBSET S ELSE {S}

(* A listing event: its id orders it among those of the same second. *)
Listing(id, at, pointers) == [id |-> id, at |-> at, pointers |-> pointers]

(* select_replaceable_event over the listing events: the latest created_at *)
(* wins, and the lower id wins within a second (is_replaceable_event_newer)*)
Newer(x, y) == x.at > y.at \/ (x.at = y.at /\ x.id < y.id)

Latest(S) == CHOOSE x \in S : \A y \in S \ {x} : Newer(x, y)

-----------------------------------------------------------------------------
(* Mutant: the request's predecessor is trusted. *)
PreparedAnyPredecessor(seen, cancel, c, pred, terms) ==
  LET chain == Resolve(OfCampaign(seen, c))
      event == IF cancel THEN CancelEvent(c, pred, now)
               ELSE ActiveEvent(c, pred, terms, now)
  IN  [ ok |-> (cancel => pred # NoPred) /\ terms.starts >= now,
        event |-> event,
        root  |-> IF chain = << >> THEN event ELSE chain[1] ]

(* publish_campaign up to the signature: discover the campaigns, refuse a  *)
(* reused id, build and sign at the current second, require the request's  *)
(* predecessor to be the discovered tip, and resolve the prospective       *)
(* chain.  The last check only needs a valid root: an inadmissible         *)
(* successor is outside the valid prefix and does not make it fail.        *)
PreparedCampaign(seen, cancel, c, pred, terms) ==
  LET chain == Resolve(OfCampaign(seen, c))
      event == IF cancel THEN CancelEvent(c, pred, now)
               ELSE ActiveEvent(c, pred, terms, now)
      prospective == {chain[i] : i \in DOMAIN chain} \cup {event}
  IN  [ ok |-> /\ cancel => pred # NoPred
               /\ ~cancel => terms.starts < terms.ends
               /\ IF chain = << >> THEN TRUE
                  ELSE pred = chain[Len(chain)]
               /\ Resolve(prospective) # << >>,
        event |-> event,
        root  |-> IF chain = << >> THEN event ELSE chain[1] ]

SignCampaign(s, cancel, c, pred, terms, pointer) ==
  /\ session[s].pc = "idle"
  /\ \E seen \in Fetched(relay) :
       LET prepared == PreparedCampaign(seen, cancel, c, pred, terms) IN
       /\ prepared.ok
       /\ session' = [session EXCEPT ![s] =
            [pc |-> "publish", event |-> prepared.event,
             root |-> prepared.root, cancel |-> cancel, pointer |-> pointer]]
  /\ UNCHANGED <<setup, now, relay, listings>>

(* What the command does once its event is on a relay. *)
AfterPublish(k) ==
  IF k.pointer
  THEN [pc |-> "pointer", root |-> k.root, remove |-> k.cancel]
  ELSE Idle

(* publish_event: at least one relay took the event. *)
PublishCampaign(s) ==
  /\ session[s].pc = "publish"
  /\ Cardinality(relay \cup {session[s].event}) <= MaxEvents
  /\ relay' = relay \cup {session[s].event}
  /\ session' = [session EXCEPT ![s] = AfterPublish(session[s])]
  /\ UNCHANGED <<setup, now, listings>>

(* update_campaign_pointer for a campaign the publisher's view lists. *)
RequestPointer(s, root, remove) ==
  /\ session[s].pc = "idle"
  /\ session' = [session EXCEPT ![s] =
       [pc |-> "pointer", root |-> root, remove |-> remove]]
  /\ UNCHANGED <<setup, now, relay, listings>>

(* The tags kept and added by a pointer edit. *)
EditedPointers(pointers, root, remove) ==
  IF remove THEN pointers \ {root} ELSE pointers \cup {root}

(* fetch_listing_event_by_coordinate, edit the campaign tags, sign. *)
SignListing(s) ==
  /\ session[s].pc = "pointer"
  /\ \E id \in 1..setup.listings :
       /\ \A l \in listings : l.id # id
       /\ \A o \in setup.sessions :
            session[o].pc = "listing" => session[o].listing.id # id
       /\ session' = [session EXCEPT ![s] =
            [pc |-> "listing", root |-> session[s].root,
             remove |-> session[s].remove,
             listing |-> Listing(id, now,
               EditedPointers(Latest(listings).pointers,
                              session[s].root, session[s].remove))]]
  /\ UNCHANGED <<setup, now, relay, listings>>

PublishListing(s) ==
  /\ session[s].pc = "listing"
  /\ listings' = listings \cup {session[s].listing}
  /\ session' = [session EXCEPT ![s] = Idle]
  /\ UNCHANGED <<setup, now, relay>>

(* Any awaited call fails - every relay refuses, the signer declines, the  *)
(* listing is not found - or the application is closed.                    *)
Abandon(s) ==
  /\ session[s].pc # "idle"
  /\ session' = [session EXCEPT ![s] = Idle]
  /\ UNCHANGED <<setup, now, relay, listings>>

Tick ==
  /\ now < MaxTime
  /\ now' = now + 1
  /\ UNCHANGED <<setup, relay, listings, session>>

-----------------------------------------------------------------------------
(* update_listing_pointer as a request may set it. *)
WithPointers == IF setup.listings > 0 THEN BOOLEAN ELSE {FALSE}

(* The publisher starts with a listing published at time 0. *)
Init ==
  /\ setup \in Setups
  /\ now = 1
  /\ relay = {}
  /\ listings = {Listing(1, 0, {})}
  /\ session = [s \in setup.sessions |-> Idle]

Next ==
  \/ \E s \in setup.sessions :
       \/ \E cancel \in BOOLEAN, pointer \in WithPointers, c \in setup.campaigns,
             terms \in setup.terms :
            \E pred \in OfCampaign(relay, c) \cup {NoPred} :
              SignCampaign(s, cancel, c, pred, terms, pointer)
       \/ PublishCampaign(s)
       \/ setup.listings > 0 /\ \E root \in Roots, remove \in BOOLEAN :
            RequestPointer(s, root, remove)
       \/ SignListing(s)
       \/ PublishListing(s)
       \/ Abandon(s)
  \/ Tick

Spec == Init /\ [][Next]_vars

-----------------------------------------------------------------------------
Chain(R, c) == Resolve(OfCampaign(R, c))

(* One session that sees everything published never leaves a campaign in   *)
(* the fail-closed state: no fork, no second root, whatever mix of valid   *)
(* and inadmissible edits it publishes and whichever calls fail.           *)
ChainResolves ==
  Cardinality(setup.sessions) = 1 /\ ~setup.partial =>
    \A e \in relay : Chain(relay, e.campaign) # << >>

(* Publishing an event stamped at time T never changes whether the         *)
(* campaign was claimable before T, as long as the chain still resolves:   *)
(* grants issued before an edit keep their basis.                          *)
PublishNeverRewritesEarlier ==
  [][\A e \in relay' \ relay, t \in 0..MaxTime :
       /\ t < e.at
       /\ Chain(relay, e.campaign) # << >>
       /\ Chain(relay', e.campaign) # << >>
       => ClaimableAt(Chain(relay', e.campaign), t)
            = ClaimableAt(Chain(relay, e.campaign), t)]_vars

(* A campaign that has forked, or has two roots, never resolves again: no  *)
(* publication through publish_campaign repairs it.                        *)
ForkIsFinal ==
  [][\A c \in setup.campaigns :
       OfCampaign(relay, c) # {} /\ Chain(relay, c) = << >>
         => Chain(relay', c) = << >>]_vars
=============================================================================
