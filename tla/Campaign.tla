------------------------------ MODULE Campaign ------------------------------
(***************************************************************************)
(* Claim-campaign lifecycles: core/src/campaign.rs.  A campaign is a chain *)
(* of signed kind-1031 events of one publisher about one coordinate; every *)
(* operator here is about the events of one publisher and coordinate,      *)
(* grouped by campaign id as campaign_discovery.rs groups them.            *)
(*                                                                         *)
(* An event is a record whose pred field is its predecessor event itself   *)
(* (or NoPred): an event id is a hash of its content, so identity is       *)
(* equality of content and no event can be its own ancestor.               *)
(***************************************************************************)
EXTENDS Naturals, Sequences, FiniteSets

CONSTANT NoPred

(* build_campaign_event_builder followed by signing at time at: an active  *)
(* event carries terms with starts < ends, a cancellation a predecessor.   *)
ActiveEvent(campaign, pred, terms, at) ==
  [ campaign |-> campaign, pred |-> pred,
    kind |-> IF pred = NoPred THEN "root" ELSE "replace",
    starts |-> terms.starts, ends |-> terms.ends, at |-> at ]

CancelEvent(campaign, pred, at) ==
  [ campaign |-> campaign, pred |-> pred, kind |-> "cancel",
    starts |-> 0, ends |-> 0, at |-> at ]

(* Mutant: rival roots are settled by created_at. *)
LatestRoots(S) ==
  LET roots == {e \in S : e.pred = NoPred /\ e.kind = "root"}
  IN  {e \in roots : \A o \in roots : o.at <= e.at}

CampaignRoots(S) == {e \in S : e.pred = NoPred /\ e.kind = "root"}

(* The terms in force at the end of a valid chain: those of its last event *)
(* that is not a cancellation (a cancellation ends a chain).               *)
Cancelled(chain) == chain[Len(chain)].kind = "cancel"

TermsOf(chain) ==
  IF Cancelled(chain) THEN chain[Len(chain) - 1] ELSE chain[Len(chain)]

(* The admission filter of the second loop of resolve_campaign_at. *)
Admissible(S, chain) ==
  LET tip == chain[Len(chain)] IN
  {e \in S :
     /\ e.pred = tip
     /\ e.campaign = chain[1].campaign
     /\ e.at > tip.at
     /\ ~Cancelled(chain)
     /\ \/ e.kind = "cancel"
        \/ /\ e.kind = "replace"
           /\ e.starts < e.ends
           /\ e.at < TermsOf(chain).starts}

(* The walk itself: the chain after n rounds, or << >> once it has forked. *)
ChainFrom(S, root) ==
  LET walk[n \in Nat] ==
        IF n = 0 THEN <<root>>
        ELSE LET chain == walk[n - 1]
                 next == IF chain = << >> THEN {} ELSE Admissible(S, chain)
             IN  IF next = {} THEN chain
                 ELSE IF Cardinality(next) > 1 THEN << >>
                 ELSE Append(chain, CHOOSE e \in next : TRUE)
  IN  walk[Cardinality(S)]

(* resolve_campaign_at(S, at): the valid chain, or << >> for a ChainError. *)
ResolveAt(S, at) ==
  LET nodes == {e \in S : e.at <= at}
      roots == CampaignRoots(nodes)
      root  == CHOOSE r \in roots : TRUE
  IN  IF Cardinality(roots) # 1 \/ root.starts >= root.ends
           \/ root.starts < root.at
      THEN << >>
      ELSE ChainFrom(nodes, root)

(* resolve_campaign: the same with at = u64::MAX. *)
Resolve(S) ==
  LET latest == CHOOSE t \in {e.at : e \in S} : \A e \in S : e.at <= t
  IN  IF S = {} THEN << >> ELSE ResolveAt(S, latest)

(* Mutant: the current terms are used for every second. *)
ClaimableNow(chain, at) ==
  /\ chain # << >>
  /\ ~Cancelled(chain)
  /\ TermsOf(chain).starts <= at
  /\ at < TermsOf(chain).ends

(* ResolvedCampaign::state_at resolves the events of the resolved chain    *)
(* again, up to at; is_claimable_at asks for an active state whose         *)
(* half-open window contains at.                                           *)
ClaimableAt(chain, at) ==
  LET past == ResolveAt({chain[i] : i \in DOMAIN chain}, at)
  IN  /\ past # << >>
      /\ ~Cancelled(past)
      /\ TermsOf(past).starts <= at
      /\ at < TermsOf(past).ends
=============================================================================
