-------------------------- MODULE StorePagesProofs --------------------------
(***************************************************************************)
(* Proofs about StorePages, for every number of relays, devices, editors,  *)
(* games and pages and every bound.                                        *)
(***************************************************************************)
EXTENDS StorePages, FiniteSetTheorems, WellFoundedInduction, TLAPS

(* The types, with every version below the number of signed ones. *)
ResponseUpTo(k) == [page : 0..k, confirmed : BOOLEAN, out : [Games -> Outcomes],
                    id : [Games -> 0..k]]
EditUpTo(k) ==
  [at : {"unopened", "open", "publishing", "retrying", "partial", "complete", "gone"},
   page : Maybe(Pages), loaded : 0..k, rows : SUBSET Games, unlink : SUBSET Games,
   expect : [Games -> 0..k], resp : ResponseUpTo(k), held : [Games -> Maybe(0..k)]]
TaskUpTo(k) ==
  [at : {"idle", "check", "send", "retrycheck", "confirm",
         "next", "sign", "sendptr", "confirmptr"},
   todo : SUBSET Games, pub : [Games -> 0..k],
   game : Maybe(Games), version : 0..k, resp : ResponseUpTo(k)]
ViewType(k) == [game : Maybe(Games), listing : 0..k, known : 0..k]
ShownType(k) == [listing : 0..k, page : 0..k]

EventsTyped == /\ size \in MaxBefore..MaxEvents /\ log \in [1..MaxEvents -> EventType]
               /\ ops \in 0..MaxOps
EditorsTyped == /\ edit \in [Editors -> EditUpTo(size)]
                /\ task \in [Editors -> TaskUpTo(size)]
NetTyped == /\ relay \in [Relays -> [Subjects -> 0..size]]
            /\ cache \in [Devices -> [Subjects -> 0..size]]
SeenTyped == /\ view \in [Devices -> ViewType(size)]
             /\ shown \in [Devices -> [Games -> ShownType(size)]]
HistoryTyped == sent \subseteq 1..size /\ unheard \subseteq 1..size /\ forgot \subseteq 0..size
Typed == EventsTyped /\ EditorsTyped /\ NetTyped /\ SeenTyped /\ HistoryTyped

(* What version n says, in log L. *)
PtrIn(L, n) == IF n = 0 THEN None ELSE L[n].ptr
LinksIn(L, n) == IF n = 0 THEN {} ELSE L[n].links
SpreadIn(R, s, n) == Cardinality({r \in Relays : R[r][s] >= n}) >= 2

(* The log: a pointer follows a page that has been published. *)
LogFits ==
  \A n \in 1..size :
    /\ log[n].of \in Subjects
    /\ log[n].ptr # None =>
         \E q \in sent : q < n /\ log[q].of = log[n].ptr /\ log[n].of \in log[q].links

(* Relays and caches hold versions under the subjects they are of. *)
StoreFits ==
  /\ \A r \in Relays, s \in Subjects : relay[r][s] # 0 => log[relay[r][s]].of = s
  /\ \A d \in Devices, s \in Subjects : cache[d][s] # 0 => log[cache[d][s]].of = s

(* Version n is the page of draft x. *)
PageFits(x, n, L) == n # 0 /\ L[n].of = x.page /\ L[n].links = x.rows \ x.unlink

(* Version n of game g agrees with what the rows of x ask for. *)
AgreesIn(x, g, n, L) == PtrIn(L, n) = x.page <=> g \notin x.unlink

(* An editor: what was published is listed right, what is held is spread. *)
EditorFits(x, L, S, R) ==
  /\ x.at \notin {"unopened", "gone"} => x.page \in Pages
  /\ x.at \in {"unopened", "open", "publishing", "gone"} => \A g \in Games : x.held[g] = None
  /\ x.at \in {"partial", "retrying", "complete"} =>
       PageFits(x, x.resp.page, L) /\ x.resp.page \in S
  /\ \A g \in Games : x.held[g] # None =>
       SpreadIn(R, g, x.held[g]) /\ AgreesIn(x, g, x.held[g], L)
  /\ x.at \in {"partial", "retrying"} =>
       \A g \in Games : /\ x.resp.out[g] # "none" => g \in x.rows
                        /\ g \in x.rows => \/ x.resp.out[g] \in {"failed", "unconfirmed"}
                                           \/ x.held[g] # None
  /\ x.at = "complete" =>
       SpreadIn(R, x.page, x.resp.page) /\ \A g \in x.rows : x.held[g] # None

(* A command t of editor x. *)
StageFits(t, x) ==
  /\ t.at = "idle" => t = NoTask
  /\ t.at # "idle" => x.at \in {"publishing", "retrying"}
  /\ t.at \in {"check", "send"} => x.at = "publishing"
  /\ t.at = "check" => t = [NoTask EXCEPT !.at = "check"]
  /\ t.at = "retrycheck" => x.at = "retrying"
  /\ t.at \in {"sign", "sendptr", "confirmptr"} => t.game \in t.todo
SentFits(t, x, L, S, R) ==
  /\ t.at \notin {"idle", "check"} => PageFits(x, t.resp.page, L)
  /\ t.at \notin {"idle", "check", "send"} => t.resp.page \in S
  /\ t.resp.confirmed => SpreadIn(R, x.page, t.resp.page)
  /\ t.at = "sendptr" => t.version # 0 /\ L[t.version].of = t.game
  /\ t.at \in {"sendptr", "confirmptr"} => AgreesIn(x, t.game, t.version, L)
RowsFit(t, x, L, R) ==
  /\ t.todo \subseteq x.rows
  /\ \A g \in Games :
       /\ t.resp.out[g] # "none" => g \in x.rows
       /\ t.resp.out[g] = "confirmed" =>
            SpreadIn(R, g, t.resp.id[g]) /\ AgreesIn(x, g, t.resp.id[g], L)
       /\ t.at \notin {"idle", "check"} /\ g \in x.rows =>
            g \in t.todo \/ t.resp.out[g] # "none" \/ x.held[g] # None
CallFits(t, x, L, S, R) == StageFits(t, x) /\ SentFits(t, x, L, S, R) /\ RowsFit(t, x, L, R)

EditorsFit == \A e \in Editors : /\ EditorFits(edit[e], log, sent, relay)
                                 /\ CallFits(task[e], edit[e], log, sent, relay)

(* A view w of a device that shows s and caches c. *)
ViewFits(w, s, c, L) ==
  /\ w.game # None =>
       /\ PtrIn(L, w.listing) # None
       /\ s[w.game].listing = w.listing /\ s[w.game].page <= w.known
       /\ w.known # 0 => L[w.known].of = PtrIn(L, w.listing)
  /\ \A g \in Games : s[g].page # 0 =>
       PtrIn(L, s[g].listing) # None /\ s[g].page <= c[PtrIn(L, s[g].listing)]
BuyersFit == \A d \in Devices : ViewFits(view[d], shown[d], cache[d], log)

Inv == Typed /\ LogFits /\ StoreFits /\ EditorsFit /\ BuyersFit

-----------------------------------------------------------------------------
(* Newest versions.                                                        *)

(* A bounded set of numbers has a greatest one. *)
LEMMA MaxExists ==
  ASSUME NEW n \in Nat, NEW S, S \subseteq 0..n, S # {}
  PROVE  \E x \in S : \A y \in S : y <= x
  <1> DEFINE T == {n - x : x \in S}
  <1>1. T \subseteq Nat
    <2>1. \A x \in S : n - x \in Nat
      OBVIOUS
    <2>2. QED
      BY <2>1
  <1>2. T # {}
    OBVIOUS
  <1>3. PICK m \in T : \A y \in T : ~(<<y, m>> \in OpToRel(<, Nat))
    BY <1>1, <1>2, NatLessThanWellFounded, WFMin
  <1>4. \A y \in T : ~(y < m)
    BY <1>1, <1>3 DEF OpToRel
  <1>5. PICK x \in S : m = n - x
    BY <1>3
  <1>6. \A y \in S : ~(n - y < n - x)
    BY <1>4, <1>5
  <1>7. QED
    BY <1>6

(* What Current returns: a version that is known, of the subject, and none *)
(* that is known is newer.                                                 *)
LEMMA CurrentFits ==
  ASSUME Typed, StoreFits, NEW d \in Devices, NEW s \in Subjects, NEW V \in SUBSET Relays
  PROVE  /\ Current(d, s, V) \in 0..size
         /\ Current(d, s, V) # 0 => log[Current(d, s, V)].of = s
         /\ cache[d][s] <= Current(d, s, V)
         /\ \A r \in V : relay[r][s] <= Current(d, s, V)
  <1>1. size \in Nat
    BY StorePagesAssumption DEF Typed, EventsTyped
  <1>2. Answers(d, s, V) \subseteq 0..size /\ Answers(d, s, V) # {}
    <2>1. cache[d][s] \in 0..size /\ \A r \in V : relay[r][s] \in 0..size
      BY DEF Typed, NetTyped
    <2>2. QED
      BY <2>1 DEF Answers
  <1>3. \E n \in Answers(d, s, V) : \A m \in Answers(d, s, V) : m <= n
    BY <1>1, <1>2, MaxExists
  <1>4. /\ Current(d, s, V) \in Answers(d, s, V)
        /\ \A m \in Answers(d, s, V) : m <= Current(d, s, V)
    BY <1>3 DEF Current
  <1>5. \A m \in Answers(d, s, V) : m # 0 => log[m].of = s
    BY DEF Answers, StoreFits
  <1>6. cache[d][s] \in Answers(d, s, V) /\ \A r \in V : relay[r][s] \in Answers(d, s, V)
    BY DEF Answers
  <1>7. QED
    BY <1>2, <1>4, <1>5, <1>6

(* The newest of the versions of earlier editors. *)
LEMMA NewestFits ==
  ASSUME NEW s \in Subjects
  PROVE  Newest(s) \in 0..MaxBefore /\ (Newest(s) # 0 => Before[Newest(s)].of = s)
  <1> DEFINE S == {0} \cup {n \in 1..MaxBefore : Before[n].of = s}
  <1>1. MaxBefore \in Nat
    BY StorePagesAssumption
  <1>2. S \subseteq 0..MaxBefore /\ S # {}
    BY <1>1
  <1>3. PICK x \in S : \A y \in S : y <= x
    BY <1>1, <1>2, MaxExists
  <1>4. /\ x \in 0..MaxBefore /\ (x # 0 => Before[x].of = s)
        /\ \A m \in 1..MaxBefore : Before[m].of = s => m <= x
    BY <1>2, <1>3
  <1>5. QED
    BY <1>4 DEF Newest

-----------------------------------------------------------------------------
(* What grows.                                                             *)

EventsGrow == size' \in size..MaxEvents /\ \A n \in 1..size : log'[n] = log[n]
NetGrow ==
  /\ relay' \in [Relays -> [Subjects -> 0..size']]
  /\ sent \subseteq sent' /\ sent' \subseteq 1..size'
  /\ \A r \in Relays, s \in Subjects :
       /\ relay[r][s] <= relay'[r][s]
       /\ relay'[r][s] # 0 => log'[relay'[r][s]].of = s
CacheGrow ==
  /\ cache' \in [Devices -> [Subjects -> 0..size']]
  /\ \A d \in Devices, s \in Subjects :
       /\ cache[d][s] <= cache'[d][s]
       /\ cache'[d][s] # 0 => log'[cache'[d][s]].of = s

(* The number of versions is a number. *)
LEMMA SizeNat == Typed => size \in Nat /\ MaxEvents \in Nat /\ size <= MaxEvents
  BY StorePagesAssumption DEF Typed, EventsTyped

(* Nothing is signed. *)
LEMMA EventsSame ==
  ASSUME Inv, UNCHANGED events, ops' \in 0..MaxOps, sent \subseteq sent'
  PROVE  EventsTyped' /\ EventsGrow /\ LogFits'
  <1>1. size' = size /\ log' = log
    BY DEF events
  <1>2. EventsTyped' /\ EventsGrow
    BY <1>1, SizeNat DEF Inv, Typed, EventsTyped, EventsGrow
  <1>3. LogFits'
    BY <1>1 DEF Inv, LogFits
  <1>4. QED
    BY <1>2, <1>3

(* Nothing is sent. *)
LEMMA NetSame ==
  ASSUME Inv, EventsGrow, UNCHANGED net
  PROVE  NetGrow
  <1>1. relay' = relay /\ sent' = sent
    BY DEF net
  <1>2. size \in Nat /\ size' \in Nat /\ size <= size'
    BY SizeNat DEF Inv, EventsGrow
  <1>3. \A r \in Relays, s \in Subjects : relay[r][s] \in 0..size
    BY DEF Inv, Typed, NetTyped
  <1>4. \A r \in Relays, s \in Subjects : relay[r][s] # 0 => log'[relay[r][s]] = log[relay[r][s]]
    BY <1>2, <1>3 DEF EventsGrow
  <1>5. relay' \in [Relays -> [Subjects -> 0..size']]
    BY <1>1, <1>2 DEF Inv, Typed, NetTyped
  <1>6. sent \subseteq sent' /\ sent' \subseteq 1..size'
    BY <1>1, <1>2 DEF Inv, Typed, HistoryTyped
  <1>7. QED
    BY <1>1, <1>2, <1>3, <1>4, <1>5, <1>6 DEF NetGrow, Inv, StoreFits

(* Nothing is cached. *)
LEMMA CacheSame ==
  ASSUME Inv, EventsGrow, cache' = cache
  PROVE  CacheGrow
  <1>1. size \in Nat /\ size' \in Nat /\ size <= size'
    BY SizeNat DEF Inv, EventsGrow
  <1>2. \A d \in Devices, s \in Subjects : cache[d][s] \in 0..size
    BY DEF Inv, Typed, NetTyped
  <1>3. \A d \in Devices, s \in Subjects : cache[d][s] # 0 => log'[cache[d][s]] = log[cache[d][s]]
    BY <1>1, <1>2 DEF EventsGrow
  <1>4. cache' \in [Devices -> [Subjects -> 0..size']]
    BY <1>1 DEF Inv, Typed, NetTyped
  <1>5. QED
    BY <1>1, <1>2, <1>3, <1>4 DEF CacheGrow, Inv, StoreFits

(* A cache that remembers what was fetched, *)
LEMMA RememberGrows ==
  ASSUME Inv, EventsGrow, NEW d \in Devices, NEW S, NEW V \in SUBSET Relays, Remember(d, S, V)
  PROVE  CacheGrow
  <1>1. size \in Nat /\ size' \in Nat /\ size <= size'
    BY SizeNat DEF Inv, EventsGrow
  <1>2. cache \in [Devices -> [Subjects -> 0..size]]
    BY DEF Inv, Typed, NetTyped
  <1>3. \A s \in Subjects : /\ Current(d, s, V) \in 0..size /\ cache[d][s] <= Current(d, s, V)
                            /\ Current(d, s, V) # 0 => log[Current(d, s, V)].of = s
    BY CurrentFits DEF Inv
  <1>4. \A c \in Devices, s \in Subjects :
          cache'[c][s] = IF c = d /\ s \in S THEN Current(d, s, V) ELSE cache[c][s]
    BY <1>2 DEF Remember
  <1>5. cache' \in [Devices -> [Subjects -> 0..size]]
    BY <1>2, <1>3 DEF Remember
  <1>6. \A n \in 1..size : log'[n] = log[n]
    BY DEF EventsGrow
  <1>7. \A c \in Devices, s \in Subjects :
          /\ cache[c][s] \in 0..size /\ cache'[c][s] \in 0..size
          /\ cache[c][s] <= cache'[c][s] /\ (cache'[c][s] # 0 => log[cache'[c][s]].of = s)
    BY <1>1, <1>2, <1>3, <1>4, <1>5 DEF Inv, StoreFits
  <1>8. \A c \in Devices, s \in Subjects : cache'[c][s] # 0 => log'[cache'[c][s]].of = s
    BY <1>1, <1>6, <1>7
  <1>9. cache' \in [Devices -> [Subjects -> 0..size']]
    BY <1>1, <1>5
  <1>10. QED
    BY <1>7, <1>8, <1>9 DEF CacheGrow

(* and one that takes a newer version. *)
LEMMA NewerGrows ==
  ASSUME Inv, UNCHANGED events, NEW d \in Devices, NEW s \in Subjects, NEW n \in 0..size,
         n # 0 => log[n].of = s, cache' = Newer(d, s, n)
  PROVE  CacheGrow /\ cache'[d][s] >= n
  <1>1. size \in Nat /\ size' = size /\ log' = log
    BY SizeNat DEF Inv, events
  <1>2. cache \in [Devices -> [Subjects -> 0..size]]
    BY DEF Inv, Typed, NetTyped
  <1>3. \A c \in Devices, u \in Subjects :
          cache'[c][u] = IF c = d /\ u = s /\ n > cache[d][s] THEN n ELSE cache[c][u]
    BY <1>2 DEF Newer
  <1>4. cache' \in [Devices -> [Subjects -> 0..size]]
    BY <1>2 DEF Newer
  <1>5. QED
    BY <1>1, <1>2, <1>3, <1>4 DEF CacheGrow, Inv, StoreFits

(* Relays store a version that is signed. *)
LEMMA StoredGrows ==
  ASSUME Inv, EventsGrow, NEW s \in Subjects, NEW n \in 1..size', NEW S \in SUBSET Relays,
         Stored(s, n, S), log'[n].of = s
  PROVE  NetGrow
  <1>1. size \in Nat /\ size' \in Nat /\ size <= size'
    BY SizeNat DEF Inv, EventsGrow
  <1>2. relay \in [Relays -> [Subjects -> 0..size]]
    BY DEF Inv, Typed, NetTyped
  <1>3. \A r \in Relays, u \in Subjects :
          relay'[r][u] = IF r \in S /\ u = s THEN n ELSE relay[r][u]
    BY <1>2 DEF Stored
  <1>4. \A r \in S : relay[r][s] < n
    BY DEF Stored
  <1>5. relay' \in [Relays -> [Subjects -> 0..size']]
    <2>1. \A r \in Relays : relay[r] \in [Subjects -> 0..size']
      BY <1>1, <1>2
    <2>2. \A r \in Relays : [relay[r] EXCEPT ![s] = n] \in [Subjects -> 0..size']
      BY <2>1
    <2>3. QED
      BY <2>1, <2>2 DEF Stored
  <1>6. \A r \in Relays, u \in Subjects : relay[r][u] \in 0..size
    BY <1>2
  <1>7. \A r \in Relays, u \in Subjects : relay[r][u] # 0 => log'[relay[r][u]].of = u
    BY <1>1, <1>6 DEF EventsGrow, Inv, StoreFits
  <1>8. \A r \in Relays, u \in Subjects :
          relay[r][u] <= relay'[r][u] /\ (relay'[r][u] # 0 => log'[relay'[r][u]].of = u)
    BY <1>1, <1>3, <1>4, <1>6, <1>7
  <1>9. sent \subseteq sent' /\ sent' \subseteq 1..size'
    BY <1>1 DEF Stored, Inv, Typed, HistoryTyped
  <1>10. QED
    BY <1>5, <1>8, <1>9 DEF NetGrow

(* A new version: what it points to must have been published. *)
LEMMA SignGrows ==
  ASSUME Inv, NEW x \in EventType, Sign(x), x.of \in Subjects, ops' \in 0..MaxOps,
         sent \subseteq sent',
         x.ptr # None => \E q \in sent : log[q].of = x.ptr /\ x.of \in log[q].links
  PROVE  /\ EventsTyped' /\ EventsGrow /\ LogFits'
         /\ size' = size + 1 /\ log'[size + 1] = x
  <1>1. size \in Nat /\ MaxEvents \in Nat /\ size < MaxEvents /\ size' = size + 1
    BY SizeNat DEF Inv, Sign
  <1>2. log \in [1..MaxEvents -> EventType] /\ log' = [log EXCEPT ![size + 1] = x]
    BY DEF Inv, Typed, EventsTyped, Sign
  <1>3. log'[size + 1] = x /\ \A n \in 1..size : log'[n] = log[n]
    BY <1>1, <1>2
  <1>4. size' \in MaxBefore..MaxEvents
    BY <1>1, StorePagesAssumption DEF Inv, Typed, EventsTyped
  <1>5. EventsTyped' /\ EventsGrow
    BY <1>1, <1>2, <1>3, <1>4 DEF EventsTyped, EventsGrow
  <1>6. sent \subseteq 1..size
    BY DEF Inv, Typed, HistoryTyped
  <1>7. LogFits'
    <2> SUFFICES ASSUME NEW n \in 1..size'
                 PROVE  /\ log'[n].of \in Subjects
                        /\ log'[n].ptr # None =>
                             \E q \in sent' : /\ q < n /\ log'[q].of = log'[n].ptr
                                              /\ log'[n].of \in log'[q].links
      BY DEF LogFits
    <2>1. CASE n = size + 1
      <3>1. \A q \in sent : q < n /\ log'[q] = log[q]
        BY <1>1, <1>3, <1>6, <2>1
      <3>2. QED
        BY <1>3, <2>1, <3>1
    <2>2. CASE n # size + 1
      <3>1. n \in 1..size /\ log'[n] = log[n]
        BY <1>1, <1>3, <2>2
      <3>2. \A q \in sent : log'[q] = log[q]
        BY <1>3, <1>6
      <3>3. QED
        BY <3>1, <3>2 DEF Inv, LogFits
    <2>3. QED
      BY <2>1, <2>2
  <1>8. QED
    BY <1>1, <1>3, <1>5, <1>7

-----------------------------------------------------------------------------
(* What is spread stays spread, and what is said of a version stays said.  *)

(* What a version says stays. *)
LEMMA SaysKept ==
  ASSUME Inv, EventsGrow, NEW n \in 0..size
  PROVE  PtrIn(log', n) = PtrIn(log, n) /\ LinksIn(log', n) = LinksIn(log, n)
  BY SizeNat DEF Inv, EventsGrow, PtrIn, LinksIn

(* Relays only replace a version with a newer one. *)
LEMMA SpreadKept ==
  ASSUME Inv, EventsGrow, NetGrow, NEW s \in Subjects, NEW n \in 0..size, SpreadIn(relay, s, n)
  PROVE  SpreadIn(relay', s, n)
  <1> DEFINE A == {r \in Relays : relay[r][s] >= n}
             B == {r \in Relays : relay'[r][s] >= n}
  <1>1. size \in Nat /\ size' \in Nat
    BY SizeNat DEF Inv, EventsGrow
  <1>2. \A r \in Relays : /\ relay[r][s] \in 0..size /\ relay'[r][s] \in 0..size'
                          /\ relay[r][s] <= relay'[r][s]
    BY DEF NetGrow, Inv, Typed, NetTyped
  <1>3. A \subseteq B
    BY <1>1, <1>2
  <1>4. IsFiniteSet(B) /\ IsFiniteSet(A)
    BY StorePagesAssumption, FS_Subset
  <1>5. Cardinality(A) <= Cardinality(B) /\ Cardinality(A) \in Nat /\ Cardinality(B) \in Nat
    BY <1>3, <1>4, FS_Subset, FS_CardinalityType
  <1>6. QED
    BY <1>5 DEF SpreadIn

(* Two relays that show a version suffice. *)
LEMMA ConfirmedSpreads ==
  ASSUME Inv, NEW s \in Subjects, NEW n \in 0..size, NEW V \in SUBSET Relays, Confirmed(s, n, V)
  PROVE  SpreadIn(relay, s, n)
  <1> DEFINE A == {r \in V : relay[r][s] = n}
             B == {r \in Relays : relay[r][s] >= n}
  <1>1. A \subseteq B
    BY SizeNat DEF Inv
  <1>2. IsFiniteSet(B) /\ IsFiniteSet(A)
    BY <1>1, StorePagesAssumption, FS_Subset
  <1>3. Cardinality(A) <= Cardinality(B) /\ Cardinality(A) \in Nat /\ Cardinality(B) \in Nat
    BY <1>1, <1>2, FS_Subset, FS_CardinalityType
  <1>4. QED
    BY <1>3 DEF SpreadIn, Confirmed

(* The types of more versions include those of fewer. *)
LEMMA TypesGrow ==
  ASSUME NEW j \in Nat, NEW k \in Nat, j <= k
  PROVE  EditUpTo(j) \subseteq EditUpTo(k) /\ TaskUpTo(j) \subseteq TaskUpTo(k)
  <1>1. 0..j \subseteq 0..k /\ Maybe(0..j) \subseteq Maybe(0..k)
    BY DEF Maybe
  <1>2. ResponseUpTo(j) \subseteq ResponseUpTo(k)
    BY <1>1 DEF ResponseUpTo
  <1>3. [Games -> 0..j] \subseteq [Games -> 0..k]
    BY <1>1
  <1>4. [Games -> Maybe(0..j)] \subseteq [Games -> Maybe(0..k)]
    BY <1>1
  <1>5. EditUpTo(j) \subseteq EditUpTo(k)
    BY <1>1, <1>2, <1>3, <1>4 DEF EditUpTo
  <1>6. TaskUpTo(j) \subseteq TaskUpTo(k)
    BY <1>1, <1>2, <1>3 DEF TaskUpTo
  <1>7. QED
    BY <1>5, <1>6

(* The fields of a response. *)
LEMMA ResponseFields ==
  ASSUME NEW k \in Nat, NEW r \in ResponseUpTo(k)
  PROVE  /\ r.page \in 0..k /\ r.confirmed \in BOOLEAN
         /\ \A g \in Games : r.out[g] \in Outcomes /\ r.id[g] \in 0..k
  BY DEF ResponseUpTo

(* The fields of an editor. *)
LEMMA EditFields ==
  ASSUME NEW k \in Nat, NEW x \in EditUpTo(k)
  PROVE  /\ x.page \in Maybe(Pages) /\ x.loaded \in 0..k
         /\ x.rows \subseteq Games /\ x.unlink \subseteq Games
         /\ x.resp \in ResponseUpTo(k) /\ \A g \in Games : x.held[g] \in Maybe(0..k)
  BY DEF EditUpTo

(* The fields of a command. *)
LEMMA TaskFields ==
  ASSUME NEW k \in Nat, NEW t \in TaskUpTo(k)
  PROVE  /\ t.todo \subseteq Games /\ t.game \in Maybe(Games) /\ t.version \in 0..k
         /\ t.resp \in ResponseUpTo(k) /\ \A g \in Games : t.pub[g] \in 0..k
  BY DEF TaskUpTo

(* An editor fits whatever is signed, sent or cached beside it. *)
LEMMA EditorKept ==
  ASSUME Inv, EventsGrow, NetGrow, NEW x \in EditUpTo(size), EditorFits(x, log, sent, relay)
  PROVE  EditorFits(x, log', sent', relay')
  <1>1. size \in Nat
    BY SizeNat DEF Inv
  <1>2. /\ x.page \in Maybe(Pages) /\ x.resp \in ResponseUpTo(size)
        /\ \A g \in Games : x.held[g] \in Maybe(0..size)
    BY <1>1, EditFields
  <1>3. x.resp.page \in 0..size
    BY <1>1, <1>2, ResponseFields
  <1>4. PageFits(x, x.resp.page, log) => PageFits(x, x.resp.page, log')
    BY <1>1, <1>3 DEF PageFits, EventsGrow
  <1>5. sent \subseteq sent'
    BY DEF NetGrow
  <1>6. \A g \in Games : x.held[g] # None =>
          SpreadIn(relay', g, x.held[g]) /\ AgreesIn(x, g, x.held[g], log')
    <2> SUFFICES ASSUME NEW g \in Games, x.held[g] # None
                 PROVE  SpreadIn(relay', g, x.held[g]) /\ AgreesIn(x, g, x.held[g], log')
      OBVIOUS
    <2>1. x.held[g] \in 0..size /\ g \in Subjects
      BY <1>2 DEF Maybe, Subjects
    <2>2. SpreadIn(relay, g, x.held[g]) /\ AgreesIn(x, g, x.held[g], log)
      BY DEF EditorFits
    <2>3. QED
      BY <2>1, <2>2, SpreadKept, SaysKept DEF AgreesIn
  <1>7. x.at = "complete" => SpreadIn(relay', x.page, x.resp.page)
    <2> SUFFICES ASSUME x.at = "complete" PROVE SpreadIn(relay', x.page, x.resp.page)
      OBVIOUS
    <2>1. x.page \in Subjects /\ SpreadIn(relay, x.page, x.resp.page)
      BY DEF EditorFits, Subjects
    <2>2. QED
      BY <1>3, <2>1, SpreadKept
  <1>8. QED
    BY <1>4, <1>5, <1>6, <1>7 DEF EditorFits

(* So does a command. *)
LEMMA CallKept ==
  ASSUME Inv, EventsGrow, NetGrow, NEW x \in EditUpTo(size), NEW t \in TaskUpTo(size),
         EditorFits(x, log, sent, relay), CallFits(t, x, log, sent, relay)
  PROVE  CallFits(t, x, log', sent', relay')
  <1>1. size \in Nat
    BY SizeNat DEF Inv
  <1>2. /\ t.game \in Maybe(Games) /\ t.version \in 0..size
        /\ t.resp \in ResponseUpTo(size)
    BY <1>1, TaskFields
  <1>3. t.resp.page \in 0..size /\ \A g \in Games : t.resp.id[g] \in 0..size
    BY <1>1, <1>2, ResponseFields
  <1>4. PageFits(x, t.resp.page, log) => PageFits(x, t.resp.page, log')
    BY <1>1, <1>3 DEF PageFits, EventsGrow
  <1>5. sent \subseteq sent'
    BY DEF NetGrow
  <1>6. \A g \in Games : t.resp.out[g] = "confirmed" =>
          SpreadIn(relay', g, t.resp.id[g]) /\ AgreesIn(x, g, t.resp.id[g], log')
    <2> SUFFICES ASSUME NEW g \in Games, t.resp.out[g] = "confirmed"
                 PROVE  SpreadIn(relay', g, t.resp.id[g]) /\ AgreesIn(x, g, t.resp.id[g], log')
      OBVIOUS
    <2>1. t.resp.id[g] \in 0..size /\ g \in Subjects
      BY <1>3 DEF Subjects
    <2>2. SpreadIn(relay, g, t.resp.id[g]) /\ AgreesIn(x, g, t.resp.id[g], log)
      BY DEF CallFits, RowsFit
    <2>3. QED
      BY <2>1, <2>2, SpreadKept, SaysKept DEF AgreesIn
  <1>7. t.resp.confirmed => SpreadIn(relay', x.page, t.resp.page)
    <2> SUFFICES ASSUME t.resp.confirmed PROVE SpreadIn(relay', x.page, t.resp.page)
      OBVIOUS
    <2>1. t # NoTask
      BY DEF NoTask, NoResponse
    <2>2. x.at \in {"publishing", "retrying"}
      BY <2>1 DEF CallFits, StageFits
    <2>3. x.page \in Subjects
      BY <2>2 DEF EditorFits, Subjects
    <2>4. SpreadIn(relay, x.page, t.resp.page)
      BY DEF CallFits, SentFits
    <2>5. QED
      BY <1>3, <2>3, <2>4, SpreadKept
  <1>8. t.version # 0 => log'[t.version] = log[t.version]
    BY <1>1, <1>2 DEF EventsGrow
  <1>9. AgreesIn(x, t.game, t.version, log) => AgreesIn(x, t.game, t.version, log')
    BY <1>2, SaysKept DEF AgreesIn
  <1>10. SentFits(t, x, log', sent', relay')
    BY <1>4, <1>5, <1>7, <1>8, <1>9 DEF CallFits, SentFits
  <1>11. RowsFit(t, x, log', relay')
    BY <1>6 DEF CallFits, RowsFit
  <1>12. QED
    BY <1>10, <1>11 DEF CallFits

(* One editor and its command change. *)
LEMMA OneEditor ==
  ASSUME Inv, EventsGrow, NetGrow, NEW e \in Editors,
         NEW x \in EditUpTo(size'), NEW t \in TaskUpTo(size'),
         edit' = [edit EXCEPT ![e] = x], task' = [task EXCEPT ![e] = t],
         EditorFits(x, log', sent', relay'), CallFits(t, x, log', sent', relay')
  PROVE  EditorsTyped' /\ EditorsFit'
  <1>1. size \in Nat /\ size' \in Nat /\ size <= size'
    BY SizeNat DEF Inv, EventsGrow
  <1>2. edit \in [Editors -> EditUpTo(size)] /\ task \in [Editors -> TaskUpTo(size)]
    BY DEF Inv, Typed, EditorsTyped
  <1>3. edit \in [Editors -> EditUpTo(size')] /\ task \in [Editors -> TaskUpTo(size')]
    BY <1>1, <1>2, TypesGrow
  <1>4. EditorsTyped'
    BY <1>3 DEF EditorsTyped
  <1>5. ASSUME NEW f \in Editors
        PROVE  /\ EditorFits(edit'[f], log', sent', relay')
               /\ CallFits(task'[f], edit'[f], log', sent', relay')
    <2>1. CASE f = e
      BY <1>2, <2>1
    <2>2. CASE f # e
      <3>1. edit'[f] = edit[f] /\ task'[f] = task[f]
        BY <1>2, <2>2
      <3>2. /\ edit[f] \in EditUpTo(size) /\ task[f] \in TaskUpTo(size)
            /\ EditorFits(edit[f], log, sent, relay)
            /\ CallFits(task[f], edit[f], log, sent, relay)
        BY <1>2 DEF Inv, EditorsFit
      <3>3. QED
        BY <3>1, <3>2, EditorKept, CallKept
    <2>3. QED
      BY <2>1, <2>2
  <1>6. QED
    BY <1>4, <1>5 DEF EditorsFit

(* No editor changes. *)
LEMMA NoEditor ==
  ASSUME Inv, EventsGrow, NetGrow, edit' = edit, task' = task
  PROVE  EditorsTyped' /\ EditorsFit'
  <1>1. size \in Nat /\ size' \in Nat /\ size <= size'
    BY SizeNat DEF Inv, EventsGrow
  <1>2. edit \in [Editors -> EditUpTo(size)] /\ task \in [Editors -> TaskUpTo(size)]
    BY DEF Inv, Typed, EditorsTyped
  <1>3. EditorsTyped'
    BY <1>1, <1>2, TypesGrow DEF EditorsTyped
  <1>4. ASSUME NEW f \in Editors
        PROVE  /\ EditorFits(edit'[f], log', sent', relay')
               /\ CallFits(task'[f], edit'[f], log', sent', relay')
    <2>1. /\ edit[f] \in EditUpTo(size) /\ task[f] \in TaskUpTo(size)
          /\ EditorFits(edit[f], log, sent, relay)
          /\ CallFits(task[f], edit[f], log, sent, relay)
      BY <1>2 DEF Inv, EditorsFit
    <2>2. QED
      BY <2>1, EditorKept, CallKept
  <1>5. QED
    BY <1>3, <1>4 DEF EditorsFit

(* What a version points to is a page, or nothing. *)
LEMMA PtrTyped ==
  ASSUME Inv, NEW n \in 0..size
  PROVE  PtrIn(log, n) \in Maybe(Pages) /\ PtrIn(log, n) = Ptr(n)
  <1>1. \A m \in 1..size : log[m].ptr \in Maybe(Pages)
    BY SizeNat DEF Inv, Typed, EventsTyped, EventType
  <1>2. QED
    BY <1>1, SizeNat DEF Inv, PtrIn, Ptr, Maybe

(* What a device shows and waits for fits whatever is cached beside it. *)
LEMMA ViewKept ==
  ASSUME Inv, EventsGrow, CacheGrow, NEW d \in Devices
  PROVE  ViewFits(view[d], shown[d], cache'[d], log')
  <1> DEFINE w == view[d]  s == shown[d]
  <1>1. size \in Nat /\ size' \in Nat /\ size <= size'
    BY SizeNat DEF Inv, EventsGrow
  <1>2. /\ w.listing \in 0..size /\ w.known \in 0..size
        /\ \A g \in Games : s[g].listing \in 0..size /\ s[g].page \in 0..size
    BY DEF Inv, Typed, SeenTyped, ViewType, ShownType
  <1>3. ViewFits(w, s, cache[d], log)
    BY DEF Inv, BuyersFit
  <1>4. /\ PtrIn(log', w.listing) = PtrIn(log, w.listing)
        /\ \A g \in Games : PtrIn(log', s[g].listing) = PtrIn(log, s[g].listing)
    BY <1>2, SaysKept
  <1>5. w.known # 0 => log'[w.known] = log[w.known]
    BY <1>1, <1>2 DEF EventsGrow
  <1>6. \A u \in Subjects : /\ cache[d][u] \in Nat /\ cache'[d][u] \in Nat
                            /\ cache[d][u] <= cache'[d][u]
    BY <1>1 DEF CacheGrow, Inv, Typed, NetTyped
  <1>7. ASSUME NEW g \in Games, s[g].page # 0
        PROVE  /\ PtrIn(log', s[g].listing) # None
               /\ s[g].page <= cache'[d][PtrIn(log', s[g].listing)]
    <2>1. /\ PtrIn(log, s[g].listing) # None
          /\ s[g].page <= cache[d][PtrIn(log, s[g].listing)]
      BY <1>3, <1>7 DEF ViewFits
    <2>2. PtrIn(log, s[g].listing) \in Subjects
      BY <1>2, <2>1, PtrTyped DEF Maybe, Subjects
    <2>3. s[g].page \in Nat
      BY <1>1, <1>2
    <2>4. QED
      BY <1>4, <1>6, <2>1, <2>2, <2>3
  <1>8. QED
    BY <1>3, <1>4, <1>5, <1>7 DEF ViewFits

(* No view begins or ends. *)
LEMMA BuyersSame ==
  ASSUME Inv, EventsGrow, CacheGrow, UNCHANGED buyers
  PROVE  (SeenTyped /\ BuyersFit)'
  <1>1. size \in Nat /\ size' \in Nat /\ size <= size'
    BY SizeNat DEF Inv, EventsGrow
  <1>2. view' = view /\ shown' = shown
    BY DEF buyers
  <1>3. view \in [Devices -> ViewType(size)] /\ shown \in [Devices -> [Games -> ShownType(size)]]
    BY DEF Inv, Typed, SeenTyped
  <1>4. ViewType(size) \subseteq ViewType(size') /\ ShownType(size) \subseteq ShownType(size')
    BY <1>1 DEF ViewType, ShownType
  <1>5. SeenTyped'
    BY <1>2, <1>3, <1>4 DEF SeenTyped
  <1>6. QED
    BY <1>2, <1>5, ViewKept DEF BuyersFit

(* A step that signs and sends nothing and no buyer takes. *)
LEMMA Quiet ==
  ASSUME Inv, UNCHANGED <<events, net, buyers>>, CacheGrow, ops' \in 0..MaxOps,
         unheard' \subseteq 1..size, forgot' \subseteq 0..size,
         EventsGrow /\ NetGrow => (EditorsTyped /\ EditorsFit)'
  PROVE  Inv'
  <1>1. EventsTyped' /\ EventsGrow /\ LogFits'
    BY EventsSame DEF net
  <1>2. NetGrow
    BY <1>1, NetSame
  <1>3. (SeenTyped /\ BuyersFit)'
    BY <1>1, BuyersSame
  <1>4. (EditorsTyped /\ EditorsFit)'
    BY <1>1, <1>2
  <1>5. size' = size
    BY DEF events
  <1>6. QED
    BY <1>1, <1>2, <1>3, <1>4, <1>5
    DEF Inv, Typed, NetTyped, StoreFits, HistoryTyped, NetGrow, CacheGrow

-----------------------------------------------------------------------------
(* The steps of an editor and its command, one lemma each.                 *)

(* An idle command, and one that begins. *)
LEMMA NoTaskFits ==
  ASSUME NEW k \in Nat, NEW x \in EditUpTo(k)
  PROVE  /\ NoTask \in TaskUpTo(k) /\ [NoTask EXCEPT !.at = "check"] \in TaskUpTo(k)
         /\ CallFits(NoTask, x, log, sent, relay)
         /\ x.at = "publishing" =>
              CallFits([NoTask EXCEPT !.at = "check"], x, log, sent, relay)
         /\ NoResponse \in ResponseUpTo(k)
  <1>1. 0 \in 0..k /\ "none" \in Outcomes
    BY DEF Outcomes
  <1>2. NoResponse \in ResponseUpTo(k)
    BY <1>1 DEF NoResponse, ResponseUpTo
  <1>3. NoTask \in TaskUpTo(k) /\ [NoTask EXCEPT !.at = "check"] \in TaskUpTo(k)
    BY <1>1, <1>2 DEF NoTask, TaskUpTo, Maybe
  <1>4. /\ StageFits(NoTask, x) /\ SentFits(NoTask, x, log, sent, relay)
        /\ RowsFit(NoTask, x, log, relay)
    BY DEF StageFits, SentFits, RowsFit, NoTask, NoResponse
  <1>5. x.at = "publishing" =>
          LET t == [NoTask EXCEPT !.at = "check"]
          IN  StageFits(t, x) /\ SentFits(t, x, log, sent, relay) /\ RowsFit(t, x, log, relay)
    BY DEF StageFits, SentFits, RowsFit, NoTask, NoResponse
  <1>6. QED
    BY <1>2, <1>3, <1>4, <1>5 DEF CallFits

(* What is known of an editor and its command. *)
LEMMA EditorState ==
  ASSUME Inv, NEW e \in Editors
  PROVE  /\ edit[e] \in EditUpTo(size) /\ task[e] \in TaskUpTo(size)
         /\ EditorFits(edit[e], log, sent, relay)
         /\ CallFits(task[e], edit[e], log, sent, relay)
         /\ Dev(e) \in Devices /\ GameOf[e] \in Games /\ size \in Nat
         /\ edit = [edit EXCEPT ![e] = edit[e]] /\ task = [task EXCEPT ![e] = task[e]]
  BY SizeNat, StorePagesAssumption DEF Inv, Typed, EditorsTyped, EditorsFit, Dev

(* A step in which nothing is signed or sent keeps the invariant if its    *)
(* editor and its command fit.                                             *)
LEMMA QuietEditor ==
  ASSUME Inv, UNCHANGED <<events, net, buyers>>, CacheGrow, ops' \in 0..MaxOps,
         unheard' \subseteq 1..size, forgot' \subseteq 0..size,
         NEW e \in Editors, NEW x \in EditUpTo(size), NEW t \in TaskUpTo(size),
         edit' = [edit EXCEPT ![e] = x], task' = [task EXCEPT ![e] = t],
         EditorFits(x, log, sent, relay), CallFits(t, x, log, sent, relay)
  PROVE  Inv'
  <1>1. size' = size /\ log' = log /\ sent' = sent /\ relay' = relay
    BY DEF events, net
  <1>2. EventsGrow /\ NetGrow => (EditorsTyped /\ EditorsFit)'
    BY <1>1, OneEditor
  <1>3. QED
    BY <1>2, Quiet

(* The bounded counters and the histories. *)
LEMMA CountsTyped ==
  ASSUME Inv
  PROVE  /\ ops \in 0..MaxOps /\ (Counted => ops' \in 0..MaxOps)
         /\ unheard \subseteq 1..size /\ forgot \subseteq 0..size
  <1>1. ops \in 0..MaxOps
    BY DEF Inv, Typed, EventsTyped
  <1>2. Counted => ops' \in 0..MaxOps
    BY <1>1, StorePagesAssumption DEF Counted
  <1>3. QED
    BY <1>1, <1>2 DEF Inv, Typed, HistoryTyped

(* Opening a page. *)
LEMMA OpenPageKeeps ==
  ASSUME Inv, NEW e \in Editors, NEW p \in Pages, NEW V \in SUBSET Relays, OpenPage(e, p, V)
  PROVE  Inv'
  <1> DEFINE d == Dev(e)
             q == Current(d, p, V)
             rows == Links(q) \cup {GameOf[e]}
             expect == [g \in Games |-> IF g \in rows THEN Current(d, g, V) ELSE 0]
             x == [edit[e] EXCEPT !.at = "open", !.page = p, !.loaded = q, !.rows = rows,
                                  !.expect = expect]
  <1>1. /\ edit[e].at = "unopened" /\ edit' = [edit EXCEPT ![e] = x] /\ Remember(d, rows, V)
        /\ UNCHANGED <<task, events, net, buyers, history, ops>>
    BY DEF OpenPage, Put
  <1>2. /\ edit[e] \in EditUpTo(size) /\ task[e] \in TaskUpTo(size) /\ d \in Devices
        /\ EditorFits(edit[e], log, sent, relay) /\ GameOf[e] \in Games /\ size \in Nat
        /\ CallFits(task[e], edit[e], log, sent, relay)
    BY EditorState
  <1>3. q \in 0..size /\ \A g \in Games : Current(d, g, V) \in 0..size
    BY <1>2, CurrentFits DEF Inv, Subjects
  <1>4. rows \subseteq Games
    <2>1. \A n \in 1..size : log[n].links \subseteq Games
      BY <1>2, SizeNat DEF Inv, Typed, EventsTyped, EventType
    <2>2. QED
      BY <1>2, <1>3, <2>1 DEF Links
  <1>5. expect \in [Games -> 0..size]
    BY <1>2, <1>3
  <1>6. /\ x \in EditUpTo(size) /\ x.at = "open" /\ x.page = p
        /\ x.held = edit[e].held
    BY <1>2, <1>3, <1>4, <1>5 DEF EditUpTo, Maybe
  <1>7. EditorFits(x, log, sent, relay)
    BY <1>1, <1>2, <1>6 DEF EditorFits
  <1>8. task[e] = NoTask
    BY <1>1, <1>2 DEF CallFits, StageFits
  <1>9. CallFits(NoTask, x, log, sent, relay)
    BY <1>2, <1>6, NoTaskFits
  <1>10. CacheGrow
    BY <1>1, <1>2, EventsSame, RememberGrows, CountsTyped DEF net
  <1>11. task' = [task EXCEPT ![e] = NoTask]
    BY <1>1, <1>8, EditorState
  <1>12. NoTask \in TaskUpTo(size)
    BY <1>2, <1>8
  <1>13. /\ UNCHANGED <<events, net, buyers>> /\ ops' \in 0..MaxOps
         /\ unheard' \subseteq 1..size /\ forgot' \subseteq 0..size
    BY <1>1, CountsTyped DEF history
  <1>14. QED
    BY <1>1, <1>6, <1>7, <1>9, <1>10, <1>11, <1>12, <1>13, QuietEditor

(* Opening a new draft. *)
LEMMA OpenNewKeeps ==
  ASSUME Inv, NEW e \in Editors, NEW p \in Pages, NEW V \in SUBSET Relays, OpenNew(e, p, V)
  PROVE  Inv'
  <1> DEFINE d == Dev(e)
             g == GameOf[e]
             x == [edit[e] EXCEPT !.at = "open", !.page = p, !.rows = {g},
                                  !.expect[g] = Current(d, g, V)]
  <1>1. /\ edit[e].at = "unopened" /\ edit' = [edit EXCEPT ![e] = x] /\ Remember(d, {g}, V)
        /\ UNCHANGED <<task, events, net, buyers, history, ops>>
    BY DEF OpenNew, Put
  <1>2. /\ edit[e] \in EditUpTo(size) /\ task[e] \in TaskUpTo(size) /\ d \in Devices
        /\ EditorFits(edit[e], log, sent, relay) /\ g \in Games /\ size \in Nat
        /\ CallFits(task[e], edit[e], log, sent, relay)
    BY EditorState
  <1>3. Current(d, g, V) \in 0..size
    BY <1>2, CurrentFits DEF Inv, Subjects
  <1>4. /\ x \in EditUpTo(size) /\ x.at = "open" /\ x.page = p
        /\ x.held = edit[e].held
    BY <1>2, <1>3 DEF EditUpTo, Maybe
  <1>5. EditorFits(x, log, sent, relay)
    BY <1>1, <1>2, <1>4 DEF EditorFits
  <1>6. task[e] = NoTask
    BY <1>1, <1>2 DEF CallFits, StageFits
  <1>7. CallFits(NoTask, x, log, sent, relay)
    BY <1>2, <1>4, NoTaskFits
  <1>8. CacheGrow
    BY <1>1, <1>2, EventsSame, RememberGrows, CountsTyped DEF net
  <1>9. task' = [task EXCEPT ![e] = NoTask]
    BY <1>1, <1>6, EditorState
  <1>10. NoTask \in TaskUpTo(size)
    BY <1>2, <1>6
  <1>11. /\ UNCHANGED <<events, net, buyers>> /\ ops' \in 0..MaxOps
         /\ unheard' \subseteq 1..size /\ forgot' \subseteq 0..size
    BY <1>1, CountsTyped DEF history
  <1>12. QED
    BY <1>1, <1>4, <1>5, <1>7, <1>8, <1>9, <1>10, <1>11, QuietEditor

(* The user publishes. *)
LEMMA PublishKeeps ==
  ASSUME Inv, NEW e \in Editors, NEW U \in SUBSET Games, Publish(e, U)
  PROVE  Inv'
  <1> DEFINE x == [edit[e] EXCEPT !.at = "publishing", !.unlink = U]
             t == [NoTask EXCEPT !.at = "check"]
  <1>1. /\ edit[e].at = "open" /\ edit' = [edit EXCEPT ![e] = x]
        /\ task' = [task EXCEPT ![e] = t]
        /\ UNCHANGED <<events, net, cache, buyers, history, ops>>
    BY DEF Publish, Put, Move
  <1>2. /\ edit[e] \in EditUpTo(size) /\ EditorFits(edit[e], log, sent, relay) /\ size \in Nat
    BY EditorState
  <1>3. /\ x \in EditUpTo(size) /\ x.at = "publishing" /\ x.page = edit[e].page
        /\ x.held = edit[e].held
    BY <1>2 DEF EditUpTo
  <1>4. EditorFits(x, log, sent, relay)
    BY <1>1, <1>2, <1>3 DEF EditorFits
  <1>5. t \in TaskUpTo(size) /\ CallFits(t, x, log, sent, relay)
    BY <1>2, <1>3, NoTaskFits
  <1>6. CacheGrow
    BY <1>1, EventsSame, CacheSame, CountsTyped DEF net
  <1>7. /\ UNCHANGED <<events, net, buyers>> /\ ops' \in 0..MaxOps
        /\ unheard' \subseteq 1..size /\ forgot' \subseteq 0..size
    BY <1>1, CountsTyped DEF history
  <1>8. QED
    BY <1>1, <1>3, <1>4, <1>5, <1>6, <1>7, QuietEditor

(* The user retries what is incomplete: what is not retried is held. *)
LEMMA RetryKeeps ==
  ASSUME Inv, NEW e \in Editors, Retry(e)
  PROVE  Inv'
  <1> DEFINE r == edit[e].resp
             x == [edit[e] EXCEPT !.at = "retrying"]
             t == [NoTask EXCEPT !.at = "retrycheck", !.todo = Pending(r),
                                 !.pub = Published(r), !.resp.page = r.page]
  <1>1. /\ edit[e].at = "partial" /\ Counted /\ edit' = [edit EXCEPT ![e] = x]
        /\ task' = [task EXCEPT ![e] = t]
        /\ UNCHANGED <<events, net, cache, buyers, history>>
    BY DEF Retry, Put, Move
  <1>2. /\ edit[e] \in EditUpTo(size) /\ EditorFits(edit[e], log, sent, relay) /\ size \in Nat
    BY EditorState
  <1>3. /\ x \in EditUpTo(size) /\ x.at = "retrying" /\ x.page = edit[e].page
        /\ x.held = edit[e].held /\ x.rows = edit[e].rows /\ x.unlink = edit[e].unlink
        /\ x.resp = r
    BY <1>2 DEF EditUpTo
  <1>4. EditorFits(x, log, sent, relay)
    BY <1>1, <1>2, <1>3 DEF EditorFits, PageFits, AgreesIn
  <1>5. r \in ResponseUpTo(size)
    BY <1>2, EditFields
  <1>6. /\ r.page \in 0..size /\ Pending(r) \subseteq Games
        /\ Published(r) \in [Games -> 0..size]
    BY <1>2, <1>5, ResponseFields DEF Pending, Published
  <1>7. /\ t.at = "retrycheck" /\ t.todo = Pending(r) /\ t.resp.page = r.page
        /\ t.resp.confirmed = FALSE /\ t.resp.out = [g \in Games |-> "none"]
    BY DEF NoTask, NoResponse
  <1>8. t \in TaskUpTo(size)
    <2>1. [NoResponse EXCEPT !.page = r.page] \in ResponseUpTo(size)
      BY <1>2, <1>6, NoTaskFits DEF ResponseUpTo
    <2>2. QED
      BY <1>2, <1>6, <2>1, NoTaskFits DEF TaskUpTo, NoTask
  <1>9. CallFits(t, x, log, sent, relay)
    <2>1. PageFits(x, r.page, log) /\ r.page \in sent
      BY <1>3, <1>4 DEF EditorFits
    <2>2. /\ Pending(r) \subseteq x.rows
          /\ \A g \in x.rows : g \in Pending(r) \/ x.held[g] # None
      <3>1. x.rows \subseteq Games
        BY <1>2, <1>3, EditFields
      <3>2. QED
        BY <1>3, <1>4, <3>1 DEF EditorFits, Pending
    <2>3. StageFits(t, x)
      BY <1>3, <1>7 DEF StageFits
    <2>4. SentFits(t, x, log, sent, relay)
      BY <1>7, <2>1 DEF SentFits
    <2>5. RowsFit(t, x, log, relay)
      BY <1>7, <2>2 DEF RowsFit
    <2>6. QED
      BY <2>3, <2>4, <2>5 DEF CallFits
  <1>10. /\ UNCHANGED <<events, net, buyers>> /\ ops' \in 0..MaxOps
         /\ unheard' \subseteq 1..size /\ forgot' \subseteq 0..size
    BY <1>1, CountsTyped DEF history
  <1>11. CacheGrow
    BY <1>1, <1>10, EventsSame, CacheSame DEF net
  <1>12. QED
    BY <1>1, <1>3, <1>4, <1>8, <1>9, <1>10, <1>11, QuietEditor

(* A retry checks that its page is still the newest. *)
LEMMA RetryCheckKeeps ==
  ASSUME Inv, NEW e \in Editors, NEW V \in SUBSET Relays, RetryCheck(e, V)
  PROVE  Inv'
  <1> DEFINE t == [task[e] EXCEPT !.at = "confirm"]
  <1>1. /\ task[e].at = "retrycheck" /\ task' = [task EXCEPT ![e] = t]
        /\ UNCHANGED <<edit, events, net, cache, buyers, history, ops>>
    BY DEF RetryCheck, At, Move
  <1>2. /\ edit[e] \in EditUpTo(size) /\ task[e] \in TaskUpTo(size) /\ size \in Nat
        /\ EditorFits(edit[e], log, sent, relay)
        /\ CallFits(task[e], edit[e], log, sent, relay)
        /\ edit' = [edit EXCEPT ![e] = edit[e]]
    BY <1>1, EditorState
  <1>3. /\ t \in TaskUpTo(size) /\ t.at = "confirm" /\ t.resp = task[e].resp
        /\ t.todo = task[e].todo
    BY <1>2 DEF TaskUpTo
  <1>4. CallFits(t, edit[e], log, sent, relay)
    BY <1>1, <1>2, <1>3 DEF CallFits, StageFits, SentFits, RowsFit
  <1>5. /\ UNCHANGED <<events, net, buyers>> /\ ops' \in 0..MaxOps
        /\ unheard' \subseteq 1..size /\ forgot' \subseteq 0..size
    BY <1>1, CountsTyped DEF history
  <1>6. CacheGrow
    BY <1>1, <1>5, EventsSame, CacheSame DEF net
  <1>7. QED
    BY <1>1, <1>2, <1>3, <1>4, <1>5, <1>6, QuietEditor

(* The page is confirmed by two relays, or not. *)
LEMMA ConfirmPageKeeps ==
  ASSUME Inv, NEW e \in Editors, NEW V \in SUBSET Relays, ConfirmPage(e, V)
  PROVE  Inv'
  <1> DEFINE p == edit[e].page
             n == task[e].resp.page
             ok == Confirmed(p, n, V)
             t == [task[e] EXCEPT !.at = "next", !.resp.confirmed = ok]
  <1>1. /\ task[e].at = "confirm" /\ task' = [task EXCEPT ![e] = t]
        /\ cache' = IF ok THEN Newer(Dev(e), p, n) ELSE cache
        /\ UNCHANGED <<edit, events, net, buyers, history, ops>>
    BY DEF ConfirmPage, At, Move
  <1>2. /\ edit[e] \in EditUpTo(size) /\ task[e] \in TaskUpTo(size) /\ size \in Nat
        /\ EditorFits(edit[e], log, sent, relay) /\ Dev(e) \in Devices
        /\ CallFits(task[e], edit[e], log, sent, relay)
        /\ edit' = [edit EXCEPT ![e] = edit[e]]
    BY <1>1, EditorState
  <1>3. task[e].resp \in ResponseUpTo(size) /\ n \in 0..size
    BY <1>2, TaskFields, ResponseFields
  <1>4. ok \in BOOLEAN
    BY DEF Confirmed
  <1>5. [task[e].resp EXCEPT !.confirmed = ok] \in ResponseUpTo(size)
    BY <1>3, <1>4 DEF ResponseUpTo
  <1>6. /\ t \in TaskUpTo(size) /\ t.at = "next" /\ t.todo = task[e].todo
        /\ t.resp = [task[e].resp EXCEPT !.confirmed = ok]
    BY <1>2, <1>5 DEF TaskUpTo
  <1>7. /\ t.resp.page = n /\ t.resp.out = task[e].resp.out /\ t.resp.id = task[e].resp.id
        /\ t.resp.confirmed = ok
    BY <1>3, <1>6 DEF ResponseUpTo
  <1>8. p \in Pages /\ p \in Subjects
    BY <1>1, <1>2 DEF CallFits, StageFits, EditorFits, Subjects
  <1>9. ok => SpreadIn(relay, p, n)
    BY <1>3, <1>8, ConfirmedSpreads
  <1>10. CallFits(t, edit[e], log, sent, relay)
    BY <1>1, <1>2, <1>6, <1>7, <1>9 DEF CallFits, StageFits, SentFits, RowsFit
  <1>11. log[n].of = p
    BY <1>1, <1>2 DEF CallFits, SentFits, PageFits
  <1>12. /\ UNCHANGED <<events, net, buyers>> /\ ops' \in 0..MaxOps
         /\ unheard' \subseteq 1..size /\ forgot' \subseteq 0..size
    BY <1>1, CountsTyped DEF history
  <1>13. CacheGrow
    <2>1. CASE ok
      BY <1>1, <1>2, <1>3, <1>8, <1>11, <1>12, <2>1, NewerGrows
    <2>2. CASE ~ok
      BY <1>1, <1>12, <2>2, EventsSame, CacheSame DEF net
    <2>3. QED
      BY <2>1, <2>2
  <1>14. QED
    BY <1>1, <1>2, <1>6, <1>10, <1>12, <1>13, QuietEditor

(* A publication that fails leaves the draft, a retry the old response. *)
LEMMA FailKeeps ==
  ASSUME Inv, NEW e \in Editors, NEW V \in SUBSET Relays, Fail(e, V)
  PROVE  Inv'
  <1> DEFINE x == [edit[e] EXCEPT !.at = IF edit[e].at = "publishing" THEN "open" ELSE "partial"]
  <1>1. /\ task[e].at \in {"check", "send", "retrycheck"}
        /\ edit' = [edit EXCEPT ![e] = x] /\ task' = [task EXCEPT ![e] = NoTask]
        /\ cache' = cache \/ Remember(Dev(e), edit[e].rows, V)
        /\ UNCHANGED <<events, net, buyers, history, ops>>
    BY DEF Fail, Put, Move
  <1>2. /\ edit[e] \in EditUpTo(size) /\ size \in Nat /\ Dev(e) \in Devices
        /\ EditorFits(edit[e], log, sent, relay)
        /\ CallFits(task[e], edit[e], log, sent, relay)
    BY EditorState
  <1>3. edit[e].at \in {"publishing", "retrying"}
    BY <1>1, <1>2 DEF CallFits, StageFits
  <1>4. /\ x \in EditUpTo(size) /\ x.page = edit[e].page
        /\ x.at = IF edit[e].at = "publishing" THEN "open" ELSE "partial"
        /\ x.held = edit[e].held /\ x.rows = edit[e].rows /\ x.unlink = edit[e].unlink
        /\ x.resp = edit[e].resp
    BY <1>2 DEF EditUpTo
  <1>5. EditorFits(x, log, sent, relay)
    <2>1. CASE edit[e].at = "publishing"
      BY <1>2, <1>4, <2>1 DEF EditorFits, AgreesIn
    <2>2. CASE edit[e].at = "retrying"
      BY <1>2, <1>4, <2>2 DEF EditorFits, AgreesIn, PageFits
    <2>3. QED
      BY <1>3, <2>1, <2>2
  <1>6. NoTask \in TaskUpTo(size) /\ CallFits(NoTask, x, log, sent, relay)
    BY <1>2, <1>4, NoTaskFits
  <1>7. /\ UNCHANGED <<events, net, buyers>> /\ ops' \in 0..MaxOps
        /\ unheard' \subseteq 1..size /\ forgot' \subseteq 0..size
    BY <1>1, CountsTyped DEF history
  <1>8. EventsGrow
    BY <1>7, EventsSame DEF net
  <1>9. CacheGrow
    BY <1>1, <1>2, <1>8, RememberGrows, CacheSame
  <1>10. QED
    BY <1>1, <1>4, <1>5, <1>6, <1>7, <1>9, QuietEditor

(* A row is settled. *)
LEMMA SettledFields ==
  ASSUME Inv, NEW e \in Editors, NEW g \in Games, NEW o \in Outcomes, NEW n \in 0..size
  PROVE  LET u == Settled(e, g, o, n) IN
         /\ u \in TaskUpTo(size) /\ u.at = "next" /\ u.todo = task[e].todo \ {g}
         /\ u.resp.page = task[e].resp.page /\ u.resp.confirmed = task[e].resp.confirmed
         /\ \A h \in Games : /\ u.resp.out[h] = IF h = g THEN o ELSE task[e].resp.out[h]
                             /\ u.resp.id[h] = IF h = g THEN n ELSE task[e].resp.id[h]
  <1> DEFINE t == task[e]
             r == [t.resp EXCEPT !.out[g] = o, !.id[g] = n]
             u == Settled(e, g, o, n)
  <1>1. t \in TaskUpTo(size) /\ size \in Nat
    BY EditorState
  <1>2. t.resp \in ResponseUpTo(size)
    BY <1>1, TaskFields
  <1>3. /\ r \in ResponseUpTo(size) /\ r.page = t.resp.page /\ r.confirmed = t.resp.confirmed
        /\ r.out = [t.resp.out EXCEPT ![g] = o] /\ r.id = [t.resp.id EXCEPT ![g] = n]
    BY <1>1, <1>2 DEF ResponseUpTo
  <1>4. \A h \in Games : /\ r.out[h] = IF h = g THEN o ELSE t.resp.out[h]
                         /\ r.id[h] = IF h = g THEN n ELSE t.resp.id[h]
    BY <1>2, <1>3 DEF ResponseUpTo
  <1>5. u.resp = r /\ u.at = "next" /\ u.todo = t.todo \ {g}
    BY <1>1 DEF Settled, TaskUpTo
  <1>6. u \in TaskUpTo(size)
    <2>1. t.todo \ {g} \in SUBSET Games /\ 0 \in 0..size /\ None \in Maybe(Games)
      BY <1>1 DEF TaskUpTo, Maybe
    <2> HIDE DEF r
    <2>2. u = [t EXCEPT !.at = "next", !.todo = t.todo \ {g}, !.game = None,
                        !.version = 0, !.resp = r]
      BY <1>1 DEF Settled, TaskUpTo, r
    <2>3. QED
      BY <1>1, <1>3, <2>1, <2>2 DEF TaskUpTo
  <1>7. QED
    BY <1>3, <1>4, <1>5, <1>6

(* A row that has failed or is not confirmed keeps its command right; one  *)
(* that is confirmed needs a version that is spread and agrees.            *)
LEMMA SettledFits ==
  ASSUME Inv, NEW e \in Editors, NEW g \in Games, NEW o \in Outcomes \ {"none"}, NEW n \in 0..size,
         task[e].at \in {"next", "sign", "sendptr", "confirmptr"}, g \in task[e].todo,
         o = "confirmed" => SpreadIn(relay, g, n) /\ AgreesIn(edit[e], g, n, log)
  PROVE  CallFits(Settled(e, g, o, n), edit[e], log, sent, relay)
  <1> DEFINE t == task[e]
             u == Settled(e, g, o, n)
             x == edit[e]
  <1>1. CallFits(t, x, log, sent, relay)
    BY EditorState
  <1>2. /\ u.at = "next" /\ u.todo = t.todo \ {g}
        /\ u.resp.page = t.resp.page /\ u.resp.confirmed = t.resp.confirmed
        /\ \A h \in Games : /\ u.resp.out[h] = IF h = g THEN o ELSE t.resp.out[h]
                            /\ u.resp.id[h] = IF h = g THEN n ELSE t.resp.id[h]
    BY SettledFields
  <1> HIDE DEF u
  <1>3. StageFits(u, x) /\ SentFits(u, x, log, sent, relay)
    BY <1>1, <1>2 DEF CallFits, StageFits, SentFits
  <1>4. RowsFit(u, x, log, relay)
    BY <1>1, <1>2 DEF CallFits, RowsFit
  <1>5. QED
    BY <1>3, <1>4 DEF CallFits, u

(* So a step that only settles a row keeps the invariant. *)
LEMMA SettleKeeps ==
  ASSUME Inv, NEW e \in Editors, NEW g \in Games, NEW o \in Outcomes \ {"none"}, NEW n \in 0..size,
         task[e].at \in {"next", "sign", "sendptr", "confirmptr"}, g \in task[e].todo,
         o = "confirmed" => SpreadIn(relay, g, n) /\ AgreesIn(edit[e], g, n, log),
         Move(e, Settled(e, g, o, n)), UNCHANGED <<edit, events, net, buyers, history, ops>>,
         CacheGrow
  PROVE  Inv'
  <1>1. CallFits(Settled(e, g, o, n), edit[e], log, sent, relay)
    BY SettledFits
  <1>2. Settled(e, g, o, n) \in TaskUpTo(size)
    BY SettledFields
  <1>3. /\ UNCHANGED <<events, net, buyers>> /\ ops' \in 0..MaxOps
        /\ unheard' \subseteq 1..size /\ forgot' \subseteq 0..size
    BY CountsTyped DEF history
  <1>4. edit[e] \in EditUpTo(size) /\ EditorFits(edit[e], log, sent, relay)
    BY EditorState
  <1>5. edit' = [edit EXCEPT ![e] = edit[e]]
    BY EditorState
  <1>6. task' = [task EXCEPT ![e] = Settled(e, g, o, n)]
    BY DEF Move
  <1>7. QED
    BY <1>1, <1>2, <1>3, <1>4, <1>5, <1>6, QuietEditor

(* The listing is fetched. *)
LEMMA FetchPointerKeeps ==
  ASSUME Inv, NEW e \in Editors, NEW g \in Games, NEW V \in SUBSET Relays, FetchPointer(e, g, V)
  PROVE  Inv'
  <1> DEFINE n == Current(Dev(e), g, V)
             t == task[e]
             y(l) == [t EXCEPT !.at = l, !.game = g, !.version = n]
  <1>1. /\ t.at = "next" /\ g \in t.todo /\ Remember(Dev(e), {g}, V)
        /\ UNCHANGED <<edit, events, net, buyers, history, ops>>
    BY DEF FetchPointer, At
  <1>2. \/ /\ Agrees(e, g, n) /\ Move(e, y("confirmptr"))
        \/ Move(e, y("sign"))
        \/ Move(e, Settled(e, g, "failed", 0))
    BY DEF FetchPointer
  <1>3. /\ edit[e] \in EditUpTo(size) /\ t \in TaskUpTo(size) /\ size \in Nat
        /\ EditorFits(edit[e], log, sent, relay) /\ Dev(e) \in Devices
        /\ CallFits(t, edit[e], log, sent, relay)
        /\ edit' = [edit EXCEPT ![e] = edit[e]]
    BY <1>1, EditorState
  <1>4. n \in 0..size
    BY <1>3, CurrentFits DEF Inv, Subjects
  <1>5. /\ UNCHANGED <<events, net, buyers>> /\ ops' \in 0..MaxOps
        /\ unheard' \subseteq 1..size /\ forgot' \subseteq 0..size
    BY <1>1, CountsTyped DEF history
  <1>6. CacheGrow
    BY <1>1, <1>3, <1>5, EventsSame, RememberGrows DEF net
  <1>7. \A l \in {"sign", "confirmptr"} :
          /\ y(l) \in TaskUpTo(size) /\ y(l).at = l /\ y(l).game = g /\ y(l).version = n
          /\ y(l).todo = t.todo /\ y(l).resp = t.resp
    BY <1>3, <1>4 DEF TaskUpTo, Maybe
  <1>8. CASE Agrees(e, g, n) /\ Move(e, y("confirmptr"))
    <2>1. AgreesIn(edit[e], g, n, log)
      BY <1>8 DEF Agrees, AgreesIn, Ptr, PtrIn
    <2>2. CallFits(y("confirmptr"), edit[e], log, sent, relay)
      BY <1>1, <1>3, <1>7, <2>1 DEF CallFits, StageFits, SentFits, RowsFit
    <2>3. QED
      BY <1>3, <1>5, <1>6, <1>7, <1>8, <2>2, QuietEditor DEF Move
  <1>9. CASE Move(e, y("sign"))
    <2>1. CallFits(y("sign"), edit[e], log, sent, relay)
      BY <1>1, <1>3, <1>7 DEF CallFits, StageFits, SentFits, RowsFit
    <2>2. QED
      BY <1>3, <1>5, <1>6, <1>7, <1>9, <2>1, QuietEditor DEF Move
  <1>10. CASE Move(e, Settled(e, g, "failed", 0))
    BY <1>1, <1>3, <1>6, <1>10, SettleKeeps DEF Outcomes
  <1>11. QED
    BY <1>2, <1>8, <1>9, <1>10

(* The listing is confirmed, or not. *)
LEMMA ConfirmPointerKeeps ==
  ASSUME Inv, NEW e \in Editors, NEW V \in SUBSET Relays, ConfirmPointer(e, V)
  PROVE  Inv'
  <1> DEFINE g == task[e].game
             n == task[e].version
             o == IF Confirmed(g, n, V) THEN "confirmed" ELSE "unconfirmed"
  <1>1. /\ task[e].at = "confirmptr" /\ Move(e, Settled(e, g, o, n))
        /\ UNCHANGED <<edit, events, net, cache, buyers, history, ops>>
    BY DEF ConfirmPointer, At
  <1>2. /\ task[e] \in TaskUpTo(size) /\ CallFits(task[e], edit[e], log, sent, relay)
        /\ size \in Nat
    BY EditorState
  <1>3. g \in task[e].todo /\ g \in Games /\ n \in 0..size
    BY <1>1, <1>2, TaskFields DEF CallFits, StageFits
  <1>4. AgreesIn(edit[e], g, n, log)
    BY <1>1, <1>2 DEF CallFits, SentFits
  <1>5. o = "confirmed" => SpreadIn(relay, g, n)
    BY <1>3, ConfirmedSpreads DEF Subjects
  <1>6. CacheGrow
    BY <1>1, EventsSame, CacheSame, CountsTyped DEF net
  <1>7. o \in Outcomes \ {"none"}
    BY DEF Outcomes
  <1>8. QED
    BY <1>1, <1>3, <1>4, <1>5, <1>6, <1>7, SettleKeeps

(* A row fails. *)
LEMMA FailPointerKeeps ==
  ASSUME Inv, NEW e \in Editors, NEW g \in Games, FailPointer(e, g)
  PROVE  Inv'
  <1>1. /\ \/ task[e].at = "next" /\ g \in task[e].todo
           \/ task[e].at \in {"sign", "sendptr"} /\ g = task[e].game
        /\ Move(e, Settled(e, g, "failed", 0))
        /\ UNCHANGED <<edit, events, net, cache, buyers, history, ops>>
    BY DEF FailPointer, At
  <1>2. CallFits(task[e], edit[e], log, sent, relay) /\ size \in Nat
    BY EditorState
  <1>3. g \in task[e].todo /\ task[e].at \in {"next", "sign", "sendptr", "confirmptr"}
    BY <1>1, <1>2 DEF CallFits, StageFits
  <1>4. CacheGrow
    BY <1>1, EventsSame, CacheSame, CountsTyped DEF net
  <1>5. 0 \in 0..size /\ "failed" \in Outcomes \ {"none"}
    BY <1>2 DEF Outcomes
  <1>6. QED
    BY <1>1, <1>3, <1>4, <1>5, SettleKeeps

(* The answer: a row that was not in this call is held from an earlier one. *)
LEMMA AnswerKeeps ==
  ASSUME Inv, NEW e \in Editors, NEW fresh \in BOOLEAN, Answer(e, fresh)
  PROVE  Inv'
  <1> DEFINE r == task[e].resp
             held == [g \in Games |-> IF r.out[g] = "confirmed" THEN r.id[g] ELSE edit[e].held[g]]
             at == IF fresh /\ Complete(e) THEN "complete" ELSE "partial"
             x == [edit[e] EXCEPT !.at = at, !.resp = r, !.held = held]
  <1>1. /\ task[e].at = "next" /\ task[e].todo = {} /\ edit' = [edit EXCEPT ![e] = x]
        /\ forgot' = forgot \cup {task[e].pub[g] : g \in {h \in Games : r.out[h] = "failed"}}
        /\ task' = [task EXCEPT ![e] = NoTask]
        /\ UNCHANGED <<events, net, cache, buyers, unheard, ops>>
    BY DEF Answer, At, Put, Move
  <1>2. /\ edit[e] \in EditUpTo(size) /\ task[e] \in TaskUpTo(size) /\ size \in Nat
        /\ EditorFits(edit[e], log, sent, relay)
        /\ CallFits(task[e], edit[e], log, sent, relay)
    BY EditorState
  <1>3. r \in ResponseUpTo(size) /\ \A g \in Games : task[e].pub[g] \in 0..size
    BY <1>2, TaskFields
  <1>4. \A g \in Games : r.out[g] \in Outcomes /\ r.id[g] \in 0..size
    BY <1>2, <1>3, ResponseFields
  <1>5. held \in [Games -> Maybe(0..size)]
    BY <1>2, <1>4, EditFields DEF Maybe
  <1>6. /\ x \in EditUpTo(size) /\ x.at = at /\ x.resp = r /\ x.held = held
        /\ x.page = edit[e].page /\ x.rows = edit[e].rows /\ x.unlink = edit[e].unlink
    BY <1>2, <1>3, <1>5 DEF EditUpTo
  <1>7. x.rows \subseteq Games
    BY <1>2, <1>6, EditFields
  <1>8. edit[e].at \in {"publishing", "retrying"}
    BY <1>1, <1>2 DEF CallFits, StageFits
  <1>9. x.page \in Pages /\ PageFits(x, r.page, log) /\ r.page \in sent
    BY <1>1, <1>2, <1>6, <1>8 DEF EditorFits, CallFits, SentFits, PageFits
  <1>10. \A g \in Games : x.held[g] # None =>
           SpreadIn(relay, g, x.held[g]) /\ AgreesIn(x, g, x.held[g], log)
    <2> SUFFICES ASSUME NEW g \in Games, x.held[g] # None
                 PROVE  SpreadIn(relay, g, x.held[g]) /\ AgreesIn(edit[e], g, x.held[g], log)
      BY <1>6 DEF AgreesIn
    <2>1. CASE r.out[g] = "confirmed"
      BY <1>2, <1>6, <2>1 DEF CallFits, RowsFit
    <2>2. CASE r.out[g] # "confirmed"
      BY <1>2, <1>6, <2>2 DEF EditorFits
    <2>3. QED
      BY <2>1, <2>2
  <1>11. \A g \in Games : r.out[g] = "confirmed" => x.held[g] # None
    BY <1>4, <1>6, StorePagesAssumption
  <1>12. \A g \in Games :
           /\ r.out[g] # "none" => g \in x.rows
           /\ g \in x.rows => r.out[g] # "none" \/ x.held[g] # None
    <2> SUFFICES ASSUME NEW g \in Games
                 PROVE  /\ r.out[g] # "none" => g \in x.rows
                        /\ g \in x.rows => r.out[g] # "none" \/ x.held[g] # None
      OBVIOUS
    <2>1. /\ r.out[g] # "none" => g \in edit[e].rows
          /\ g \in edit[e].rows => r.out[g] # "none" \/ edit[e].held[g] # None
      BY <1>1, <1>2 DEF CallFits, RowsFit
    <2>2. r.out[g] = "none" => x.held[g] = edit[e].held[g]
      BY <1>6
    <2>3. QED
      BY <1>6, <2>1, <2>2
  <1>13. \A g \in x.rows : r.out[g] \in {"failed", "unconfirmed"} \/ x.held[g] # None
    BY <1>4, <1>7, <1>11, <1>12 DEF Outcomes
  <1>14. x.at = "complete" => SpreadIn(relay, x.page, r.page) /\ \A g \in x.rows : x.held[g] # None
    <2> SUFFICES ASSUME x.at = "complete"
                 PROVE  SpreadIn(relay, x.page, r.page) /\ \A g \in x.rows : x.held[g] # None
      OBVIOUS
    <2>1. r.confirmed /\ \A g \in Games : r.out[g] \in {"none", "confirmed"}
      BY <1>6 DEF Complete
    <2>2. SpreadIn(relay, x.page, r.page)
      BY <1>2, <1>6, <2>1 DEF CallFits, SentFits
    <2>3. QED
      BY <1>7, <1>13, <2>1, <2>2
  <1>15. EditorFits(x, log, sent, relay)
    <2>1. x.at \in {"partial", "complete"} /\ x.resp = r
      BY <1>6
    <2> HIDE DEF x
    <2>2. QED
      BY <1>9, <1>10, <1>12, <1>13, <1>14, <2>1 DEF EditorFits
  <1>16. NoTask \in TaskUpTo(size) /\ CallFits(NoTask, x, log, sent, relay)
    BY <1>2, <1>6, NoTaskFits
  <1>17. /\ UNCHANGED <<events, net, buyers>> /\ ops' \in 0..MaxOps
         /\ unheard' \subseteq 1..size /\ forgot' \subseteq 0..size
    BY <1>1, <1>3, CountsTyped
  <1>18. CacheGrow
    BY <1>1, <1>17, EventsSame, CacheSame DEF net
  <1>19. QED
    BY <1>1, <1>6, <1>15, <1>16, <1>17, <1>18, QuietEditor

-----------------------------------------------------------------------------
(* Steps that sign or send.                                                *)

(* The parts of the invariant, put together. *)
LEMMA Assemble ==
  ASSUME Inv, EventsTyped', EventsGrow, LogFits', NetGrow, CacheGrow,
         unheard' \subseteq 1..size', forgot' \subseteq 0..size',
         (EditorsTyped /\ EditorsFit)', (SeenTyped /\ BuyersFit)'
  PROVE  Inv'
  BY DEF Inv, Typed, NetTyped, StoreFits, HistoryTyped, NetGrow, CacheGrow

(* The histories keep their types while versions are added. *)
LEMMA HistoryGrows ==
  ASSUME Inv, EventsGrow
  PROVE  unheard \subseteq 1..size' /\ forgot \subseteq 0..size'
  BY SizeNat, CountsTyped DEF Inv, EventsGrow

(* What is known of an editor after events and relays have grown. *)
LEMMA EditorNext ==
  ASSUME Inv, EventsGrow, NetGrow, NEW e \in Editors
  PROVE  /\ edit[e] \in EditUpTo(size') /\ task[e] \in TaskUpTo(size')
         /\ EditorFits(edit[e], log', sent', relay')
         /\ CallFits(task[e], edit[e], log', sent', relay')
         /\ size' \in Nat /\ size <= size'
  <1>1. size \in Nat /\ size' \in Nat /\ size <= size'
    BY SizeNat DEF Inv, EventsGrow
  <1>2. /\ edit[e] \in EditUpTo(size) /\ task[e] \in TaskUpTo(size)
        /\ EditorFits(edit[e], log, sent, relay)
        /\ CallFits(task[e], edit[e], log, sent, relay)
    BY EditorState
  <1>3. edit[e] \in EditUpTo(size') /\ task[e] \in TaskUpTo(size')
    BY <1>1, <1>2, TypesGrow
  <1>4. QED
    BY <1>1, <1>2, <1>3, EditorKept, CallKept

(* The page is signed. *)
LEMMA SignPageKeeps ==
  ASSUME Inv, NEW e \in Editors, NEW V \in SUBSET Relays, SignPage(e, V)
  PROVE  Inv'
  <1> DEFINE x == edit[e]
             y == [of |-> x.page, ptr |-> None, links |-> Listed(e), by |-> e]
             t == [task[e] EXCEPT !.at = "send", !.todo = x.rows, !.resp.page = size + 1]
  <1>1. /\ task[e].at = "check" /\ Sign(y) /\ task' = [task EXCEPT ![e] = t]
        /\ Remember(Dev(e), x.rows \cup Links(x.loaded), V)
        /\ UNCHANGED <<edit, net, buyers, history, ops>>
    BY DEF SignPage, At, Move
  <1>2. /\ x \in EditUpTo(size) /\ task[e] \in TaskUpTo(size) /\ size \in Nat
        /\ EditorFits(x, log, sent, relay) /\ CallFits(task[e], x, log, sent, relay)
        /\ Dev(e) \in Devices /\ edit' = [edit EXCEPT ![e] = x]
    BY <1>1, EditorState
  <1>3. x.at = "publishing" /\ task[e] = [NoTask EXCEPT !.at = "check"]
    BY <1>1, <1>2 DEF CallFits, StageFits
  <1>4. x.page \in Pages /\ x.rows \subseteq Games /\ Listed(e) = x.rows \ x.unlink
    BY <1>2, <1>3, EditFields DEF EditorFits, Listed
  <1>5. y \in EventType /\ y.of \in Subjects /\ y.ptr = None
    BY <1>4 DEF EventType, Maybe, Subjects
  <1>6. sent' = sent /\ UNCHANGED net /\ ops' \in 0..MaxOps
    BY <1>1, CountsTyped DEF net
  <1>7. /\ EventsTyped' /\ EventsGrow /\ LogFits'
        /\ size' = size + 1 /\ log'[size + 1] = y
    <2>1. Sign(y) /\ sent \subseteq sent'
      BY <1>1, <1>6
    <2> HIDE DEF y
    <2>2. QED
      BY <1>5, <1>6, <2>1, SignGrows
  <1>8. NetGrow
    BY <1>6, <1>7, NetSame
  <1>9. CacheGrow
    BY <1>1, <1>2, <1>7, RememberGrows
  <1>10. /\ x \in EditUpTo(size') /\ task[e] \in TaskUpTo(size')
         /\ EditorFits(x, log', sent', relay') /\ size' \in Nat
    BY <1>7, <1>8, EditorNext
  <1>11. /\ t.at = "send" /\ t.todo = x.rows /\ t.resp.page = size + 1
         /\ t.resp.confirmed = FALSE /\ t.resp.out = [g \in Games |-> "none"]
    BY <1>3 DEF NoTask, NoResponse
  <1>12. t \in TaskUpTo(size')
    <2>1. NoResponse \in ResponseUpTo(size') /\ size + 1 \in 0..size'
      BY <1>2, <1>7, <1>10, NoTaskFits
    <2>2. [NoResponse EXCEPT !.page = size + 1] \in ResponseUpTo(size')
      BY <2>1 DEF ResponseUpTo
    <2>3. t = [task[e] EXCEPT !.at = "send", !.todo = x.rows,
                              !.resp = [NoResponse EXCEPT !.page = size + 1]]
      BY <1>3 DEF NoTask
    <2>4. QED
      BY <1>4, <1>10, <2>2, <2>3 DEF TaskUpTo
  <1>13. PageFits(x, size + 1, log')
    BY <1>2, <1>4, <1>7 DEF PageFits
  <1>14. CallFits(t, x, log', sent', relay')
    BY <1>3, <1>11, <1>13 DEF CallFits, StageFits, SentFits, RowsFit
  <1>15. EditorsTyped' /\ EditorsFit'
    BY <1>1, <1>2, <1>7, <1>8, <1>10, <1>12, <1>14, OneEditor
  <1>16. (SeenTyped /\ BuyersFit)'
    BY <1>1, <1>7, <1>9, BuyersSame
  <1>17. unheard' \subseteq 1..size' /\ forgot' \subseteq 0..size'
    BY <1>1, <1>7, HistoryGrows DEF history
  <1>18. QED
    BY <1>7, <1>8, <1>9, <1>15, <1>16, <1>17, Assemble

(* A step that sends the version of a command, and signs nothing. *)
LEMMA SendGrows ==
  ASSUME Inv, NEW s \in Subjects, NEW n \in 1..size, NEW S \in SUBSET Relays, Stored(s, n, S),
         log[n].of = s, UNCHANGED events, ops' \in 0..MaxOps
  PROVE  EventsTyped' /\ EventsGrow /\ LogFits' /\ NetGrow /\ n \in sent' /\ size' = size
  <1>1. sent' = sent \cup {n} /\ size' = size /\ log' = log
    BY DEF Stored, events
  <1>2. EventsTyped' /\ EventsGrow /\ LogFits'
    BY <1>1, EventsSame
  <1>3. NetGrow
    BY <1>1, <1>2, StoredGrows
  <1>4. QED
    BY <1>1, <1>2, <1>3

(* The version of a page that is to be sent. *)
LEMMA PageToSend ==
  ASSUME Inv, NEW e \in Editors, task[e].at = "send"
  PROVE  /\ edit[e].page \in Subjects /\ task[e].resp.page \in 1..size
         /\ log[task[e].resp.page].of = edit[e].page
         /\ edit[e].at = "publishing"
  <1>1. /\ edit[e] \in EditUpTo(size) /\ task[e] \in TaskUpTo(size) /\ size \in Nat
        /\ EditorFits(edit[e], log, sent, relay)
        /\ CallFits(task[e], edit[e], log, sent, relay)
    BY EditorState
  <1>2. edit[e].at = "publishing" /\ PageFits(edit[e], task[e].resp.page, log)
    BY <1>1 DEF CallFits, StageFits, SentFits
  <1>3. task[e].resp.page \in 0..size
    BY <1>1, TaskFields, ResponseFields
  <1>4. QED
    BY <1>1, <1>2, <1>3 DEF EditorFits, PageFits, Subjects

(* The page is sent. *)
LEMMA SendPageKeeps ==
  ASSUME Inv, NEW e \in Editors, NEW S \in SUBSET Relays, SendPage(e, S)
  PROVE  Inv'
  <1> DEFINE t == [task[e] EXCEPT !.at = "confirm"]
  <1>1. /\ task[e].at = "send" /\ Stored(edit[e].page, task[e].resp.page, S)
        /\ task' = [task EXCEPT ![e] = t]
        /\ UNCHANGED <<edit, events, cache, buyers, history, ops>>
    BY DEF SendPage, At, Move
  <1>2. /\ EventsTyped' /\ EventsGrow /\ LogFits' /\ NetGrow
        /\ task[e].resp.page \in sent'
    BY <1>1, PageToSend, SendGrows, CountsTyped
  <1>3. /\ edit[e] \in EditUpTo(size') /\ task[e] \in TaskUpTo(size')
        /\ EditorFits(edit[e], log', sent', relay')
        /\ CallFits(task[e], edit[e], log', sent', relay')
        /\ edit' = [edit EXCEPT ![e] = edit[e]]
    BY <1>1, <1>2, EditorNext, EditorState
  <1>4. /\ t \in TaskUpTo(size') /\ t.at = "confirm" /\ t.resp = task[e].resp
        /\ t.todo = task[e].todo
    BY <1>3 DEF TaskUpTo
  <1>5. CallFits(t, edit[e], log', sent', relay')
    BY <1>1, <1>2, <1>3, <1>4 DEF CallFits, StageFits, SentFits, RowsFit
  <1>6. EditorsTyped' /\ EditorsFit'
    BY <1>1, <1>2, <1>3, <1>4, <1>5, OneEditor
  <1>7. CacheGrow
    BY <1>1, <1>2, CacheSame
  <1>8. (SeenTyped /\ BuyersFit)'
    BY <1>1, <1>2, <1>7, BuyersSame
  <1>9. unheard' \subseteq 1..size' /\ forgot' \subseteq 0..size'
    BY <1>1, <1>2, HistoryGrows DEF history
  <1>10. QED
    BY <1>2, <1>6, <1>7, <1>8, <1>9, Assemble

(* The page is sent and no relay acknowledges: the draft is open again. *)
LEMMA SendPageUnheardKeeps ==
  ASSUME Inv, NEW e \in Editors, NEW S \in SUBSET Relays, SendPageUnheard(e, S)
  PROVE  Inv'
  <1> DEFINE x == [edit[e] EXCEPT !.at = "open"]
  <1>1. /\ task[e].at = "send" /\ Counted /\ Stored(edit[e].page, task[e].resp.page, S)
        /\ unheard' = unheard \cup {task[e].resp.page}
        /\ edit' = [edit EXCEPT ![e] = x] /\ task' = [task EXCEPT ![e] = NoTask]
        /\ UNCHANGED <<events, cache, buyers, forgot>>
    BY DEF SendPageUnheard, At, Put, Move
  <1>2. edit[e].at = "publishing" /\ task[e].resp.page \in 1..size
    BY <1>1, PageToSend
  <1>3. EventsTyped' /\ EventsGrow /\ LogFits' /\ NetGrow /\ size' = size
    BY <1>1, PageToSend, SendGrows, CountsTyped
  <1>4. /\ edit[e] \in EditUpTo(size') /\ EditorFits(edit[e], log', sent', relay')
        /\ size' \in Nat
    BY <1>3, EditorNext
  <1>5. /\ x \in EditUpTo(size') /\ x.at = "open" /\ x.page = edit[e].page
        /\ x.held = edit[e].held
    BY <1>4 DEF EditUpTo
  <1>6. EditorFits(x, log', sent', relay')
    BY <1>2, <1>4, <1>5 DEF EditorFits
  <1>7. NoTask \in TaskUpTo(size') /\ CallFits(NoTask, x, log', sent', relay')
    <2>1. NoTask \in TaskUpTo(size')
      BY <1>4, <1>5, NoTaskFits
    <2>2. CallFits(NoTask, x, log', sent', relay')
      BY DEF CallFits, StageFits, SentFits, RowsFit, NoTask, NoResponse
    <2>3. QED
      BY <2>1, <2>2
  <1>8. EditorsTyped' /\ EditorsFit'
    BY <1>1, <1>3, <1>5, <1>6, <1>7, OneEditor
  <1>9. CacheGrow
    BY <1>1, <1>3, CacheSame
  <1>10. (SeenTyped /\ BuyersFit)'
    BY <1>1, <1>3, <1>9, BuyersSame
  <1>11. unheard' \subseteq 1..size' /\ forgot' \subseteq 0..size'
    BY <1>1, <1>2, <1>3, CountsTyped
  <1>12. QED
    BY <1>3, <1>8, <1>9, <1>10, <1>11, Assemble

(* The replacement of a listing is signed: its page has been published and *)
(* lists the game.                                                         *)
LEMMA SignPointerKeeps ==
  ASSUME Inv, NEW e \in Editors, NEW V \in SUBSET Relays, SignPointer(e, V)
  PROVE  Inv'
  <1> DEFINE x == edit[e]
             g == task[e].game
             y == [of |-> g, ptr |-> IF g \in x.unlink THEN None ELSE x.page,
                   links |-> {}, by |-> e]
             t == [task[e] EXCEPT !.at = "sendptr", !.version = size + 1]
  <1>1. /\ task[e].at = "sign" /\ Sign(y) /\ task' = [task EXCEPT ![e] = t]
        /\ UNCHANGED <<edit, net, cache, buyers, history, ops>>
    BY DEF SignPointer, At, Move
  <1>2. /\ x \in EditUpTo(size) /\ task[e] \in TaskUpTo(size) /\ size \in Nat
        /\ EditorFits(x, log, sent, relay) /\ CallFits(task[e], x, log, sent, relay)
        /\ edit' = [edit EXCEPT ![e] = x]
    BY <1>1, EditorState
  <1>3. /\ x.at \in {"publishing", "retrying"} /\ g \in task[e].todo
        /\ PageFits(x, task[e].resp.page, log) /\ task[e].resp.page \in sent
        /\ task[e].todo \subseteq x.rows
    BY <1>1, <1>2 DEF CallFits, StageFits, SentFits, RowsFit
  <1>4. x.page \in Pages /\ x.page # None /\ g \in Games /\ g \in x.rows
    BY <1>2, <1>3, TaskFields, StorePagesAssumption DEF EditorFits
  <1>5. y \in EventType /\ y.of \in Subjects
    BY <1>4 DEF EventType, Maybe, Subjects
  <1>6. y.ptr # None => \E q \in sent : log[q].of = y.ptr /\ y.of \in log[q].links
    BY <1>3, <1>4 DEF PageFits
  <1>7. sent' = sent /\ UNCHANGED net /\ ops' \in 0..MaxOps
    BY <1>1, CountsTyped DEF net
  <1>8. /\ EventsTyped' /\ EventsGrow /\ LogFits'
        /\ size' = size + 1 /\ log'[size + 1] = y
    <2>1. Sign(y) /\ sent \subseteq sent'
      BY <1>1, <1>7
    <2> HIDE DEF y
    <2>2. QED
      BY <1>5, <1>6, <1>7, <2>1, SignGrows
  <1>9. NetGrow
    BY <1>7, <1>8, NetSame
  <1>10. /\ x \in EditUpTo(size') /\ task[e] \in TaskUpTo(size') /\ size' \in Nat
         /\ EditorFits(x, log', sent', relay') /\ CallFits(task[e], x, log', sent', relay')
    BY <1>8, <1>9, EditorNext
  <1>11. /\ t \in TaskUpTo(size') /\ t.at = "sendptr" /\ t.version = size + 1
         /\ t.game = g /\ t.todo = task[e].todo /\ t.resp = task[e].resp
    <2>1. size + 1 \in 0..size'
      BY <1>2, <1>8
    <2>2. QED
      BY <1>10, <2>1 DEF TaskUpTo
  <1>12. AgreesIn(x, g, size + 1, log') /\ log'[size + 1].of = g
    BY <1>2, <1>4, <1>8 DEF AgreesIn, PtrIn
  <1>13. CallFits(t, x, log', sent', relay')
    <2>1. size + 1 # 0
      BY <1>2
    <2>2. QED
      BY <1>1, <1>10, <1>11, <1>12, <2>1 DEF CallFits, StageFits, SentFits, RowsFit
  <1>14. EditorsTyped' /\ EditorsFit'
    BY <1>1, <1>2, <1>8, <1>9, <1>10, <1>11, <1>13, OneEditor
  <1>15. CacheGrow
    BY <1>1, <1>8, CacheSame
  <1>16. (SeenTyped /\ BuyersFit)'
    BY <1>1, <1>8, <1>15, BuyersSame
  <1>17. unheard' \subseteq 1..size' /\ forgot' \subseteq 0..size'
    BY <1>1, <1>8, HistoryGrows DEF history
  <1>18. QED
    BY <1>8, <1>9, <1>14, <1>15, <1>16, <1>17, Assemble

(* The replacement that is to be sent. *)
LEMMA PointerToSend ==
  ASSUME Inv, NEW e \in Editors, task[e].at = "sendptr"
  PROVE  /\ task[e].game \in Subjects /\ task[e].game \in Games
         /\ task[e].game \in task[e].todo
         /\ task[e].version \in 1..size /\ log[task[e].version].of = task[e].game
  <1>1. /\ task[e] \in TaskUpTo(size) /\ size \in Nat
        /\ CallFits(task[e], edit[e], log, sent, relay)
    BY EditorState
  <1>2. /\ task[e].game \in task[e].todo
        /\ task[e].version # 0 /\ log[task[e].version].of = task[e].game
    BY <1>1 DEF CallFits, StageFits, SentFits
  <1>3. QED
    BY <1>1, <1>2, TaskFields DEF Subjects

(* The replacement is sent. *)
LEMMA SendPointerKeeps ==
  ASSUME Inv, NEW e \in Editors, NEW S \in SUBSET Relays, SendPointer(e, S)
  PROVE  Inv'
  <1> DEFINE t == [task[e] EXCEPT !.at = "confirmptr"]
  <1>1. /\ task[e].at = "sendptr" /\ Stored(task[e].game, task[e].version, S)
        /\ task' = [task EXCEPT ![e] = t]
        /\ UNCHANGED <<edit, events, cache, buyers, history, ops>>
    BY DEF SendPointer, At, Move
  <1>2. EventsTyped' /\ EventsGrow /\ LogFits' /\ NetGrow
    BY <1>1, PointerToSend, SendGrows, CountsTyped
  <1>3. /\ edit[e] \in EditUpTo(size') /\ task[e] \in TaskUpTo(size')
        /\ EditorFits(edit[e], log', sent', relay')
        /\ CallFits(task[e], edit[e], log', sent', relay')
        /\ edit' = [edit EXCEPT ![e] = edit[e]]
    BY <1>1, <1>2, EditorNext, EditorState
  <1>4. /\ t \in TaskUpTo(size') /\ t.at = "confirmptr" /\ t.resp = task[e].resp
        /\ t.todo = task[e].todo /\ t.game = task[e].game /\ t.version = task[e].version
    BY <1>3 DEF TaskUpTo
  <1>5. CallFits(t, edit[e], log', sent', relay')
    BY <1>1, <1>3, <1>4 DEF CallFits, StageFits, SentFits, RowsFit
  <1>6. EditorsTyped' /\ EditorsFit'
    BY <1>1, <1>2, <1>3, <1>4, <1>5, OneEditor
  <1>7. CacheGrow
    BY <1>1, <1>2, CacheSame
  <1>8. (SeenTyped /\ BuyersFit)'
    BY <1>1, <1>2, <1>7, BuyersSame
  <1>9. unheard' \subseteq 1..size' /\ forgot' \subseteq 0..size'
    BY <1>1, <1>2, HistoryGrows DEF history
  <1>10. QED
    BY <1>2, <1>6, <1>7, <1>8, <1>9, Assemble

(* The replacement is sent and no relay acknowledges: the row has failed. *)
LEMMA SendPointerUnheardKeeps ==
  ASSUME Inv, NEW e \in Editors, NEW S \in SUBSET Relays, SendPointerUnheard(e, S)
  PROVE  Inv'
  <1> DEFINE g == task[e].game
             t == Settled(e, g, "failed", 0)
  <1>1. /\ task[e].at = "sendptr" /\ Counted /\ Stored(g, task[e].version, S)
        /\ unheard' = unheard \cup {task[e].version} /\ task' = [task EXCEPT ![e] = t]
        /\ UNCHANGED <<edit, events, cache, buyers, forgot>>
    BY DEF SendPointerUnheard, At, Move
  <1>2. g \in Games /\ g \in task[e].todo /\ task[e].version \in 1..size
    BY <1>1, PointerToSend
  <1>3. EventsTyped' /\ EventsGrow /\ LogFits' /\ NetGrow /\ size' = size
    BY <1>1, PointerToSend, SendGrows, CountsTyped
  <1>4. /\ edit[e] \in EditUpTo(size) /\ EditorFits(edit[e], log, sent, relay)
        /\ EditorFits(edit[e], log', sent', relay') /\ size \in Nat
        /\ edit' = [edit EXCEPT ![e] = edit[e]]
    BY <1>1, <1>3, EditorNext, EditorState
  <1>5. "failed" \in Outcomes \ {"none"} /\ 0 \in 0..size
    BY <1>4 DEF Outcomes
  <1>6. t \in TaskUpTo(size)
    BY <1>2, <1>5, SettledFields
  <1>7. CallFits(t, edit[e], log, sent, relay)
    BY <1>1, <1>2, <1>5, SettledFits
  <1>8. CallFits(t, edit[e], log', sent', relay')
    <2> HIDE DEF t
    <2>1. QED
      BY <1>3, <1>4, <1>6, <1>7, CallKept
  <1>9. EditorsTyped' /\ EditorsFit'
    <2> HIDE DEF t
    <2>1. QED
      BY <1>1, <1>3, <1>4, <1>6, <1>8, OneEditor
  <1>10. CacheGrow
    BY <1>1, <1>3, CacheSame
  <1>11. (SeenTyped /\ BuyersFit)'
    BY <1>1, <1>3, <1>10, BuyersSame
  <1>12. unheard' \subseteq 1..size' /\ forgot' \subseteq 0..size'
    BY <1>1, <1>2, <1>3, CountsTyped
  <1>13. QED
    BY <1>3, <1>9, <1>10, <1>11, <1>12, Assemble

(* The game form replaces a listing and keeps what it points to. *)
LEMMA EditGameKeeps ==
  ASSUME Inv, NEW g \in Games, NEW V \in SUBSET Relays, NEW S \in SUBSET Relays, EditGame(g, V, S)
  PROVE  Inv'
  <1>1. PICK r \in V : Sign([of |-> g, ptr |-> Ptr(relay[r][g]), links |-> {}, by |-> None])
    BY DEF EditGame
  <1> DEFINE n == relay[r][g]
             y == [of |-> g, ptr |-> Ptr(n), links |-> {}, by |-> None]
  <1>2. /\ Counted /\ Stored(g, size + 1, S)
        /\ UNCHANGED <<edit, task, cache, buyers, history>>
    BY DEF EditGame
  <1>3. size \in Nat /\ g \in Subjects
    BY SizeNat DEF Inv, Subjects
  <1>4. n \in 0..size /\ (n # 0 => log[n].of = g)
    BY <1>3 DEF Inv, Typed, NetTyped, StoreFits
  <1>5. y \in EventType /\ y.of \in Subjects
    BY <1>3, <1>4, PtrTyped DEF EventType, Maybe
  <1>6. y.ptr # None => \E q \in sent : log[q].of = y.ptr /\ y.of \in log[q].links
    BY <1>3, <1>4 DEF Inv, LogFits, Ptr
  <1>7. sent \subseteq sent' /\ ops' \in 0..MaxOps
    BY <1>2, CountsTyped DEF Stored
  <1>8. /\ EventsTyped' /\ EventsGrow /\ LogFits'
        /\ size' = size + 1 /\ log'[size + 1] = y
    <2>1. Sign(y)
      BY <1>1
    <2> HIDE DEF y
    <2>2. QED
      BY <1>5, <1>6, <1>7, <2>1, SignGrows
  <1>9. NetGrow
    <2>1. size + 1 \in 1..size' /\ log'[size + 1].of = g
      BY <1>3, <1>8
    <2>2. QED
      BY <1>2, <1>3, <1>8, <2>1, StoredGrows
  <1>10. EditorsTyped' /\ EditorsFit'
    BY <1>2, <1>8, <1>9, NoEditor
  <1>11. CacheGrow
    BY <1>2, <1>8, CacheSame
  <1>12. (SeenTyped /\ BuyersFit)'
    BY <1>2, <1>8, <1>11, BuyersSame
  <1>13. unheard' \subseteq 1..size' /\ forgot' \subseteq 0..size'
    BY <1>2, <1>8, HistoryGrows DEF history
  <1>14. QED
    BY <1>8, <1>9, <1>10, <1>11, <1>12, <1>13, Assemble

-----------------------------------------------------------------------------
(* Exits and views.                                                        *)

(* A device exits: its editors and views are gone. *)
LEMMA ExitKeeps ==
  ASSUME Inv, NEW d \in Devices, Exit(d)
  PROVE  Inv'
  <1> DEFINE gone == [Unopened EXCEPT !.at = "gone"]
  <1>1. /\ Counted
        /\ edit' = [e \in Editors |-> IF Dev(e) = d /\ edit[e].at # "unopened"
                                      THEN gone ELSE edit[e]]
        /\ task' = [e \in Editors |-> IF Dev(e) = d THEN NoTask ELSE task[e]]
        /\ view' = [view EXCEPT ![d] = NoView]
        /\ shown' = [shown EXCEPT ![d] = [g \in Games |-> Nothing]]
        /\ UNCHANGED <<events, net, cache, history>>
    BY DEF Exit
  <1>2. EventsTyped' /\ EventsGrow /\ LogFits' /\ NetGrow
    BY <1>1, EventsSame, NetSame, CountsTyped DEF net
  <1>3. CacheGrow
    BY <1>1, <1>2, CacheSame
  <1>4. size \in Nat /\ size' = size /\ log' = log /\ sent' = sent /\ relay' = relay
    BY <1>1, SizeNat DEF Inv, events, net
  <1>5. /\ gone \in EditUpTo(size) /\ gone.at = "gone" /\ \A g \in Games : gone.held[g] = None
        /\ EditorFits(gone, log, sent, relay)
    <2>1. NoResponse \in ResponseUpTo(size)
      BY <1>4 DEF NoResponse, ResponseUpTo, Outcomes
    <2>2. gone \in EditUpTo(size)
      BY <1>4, <2>1 DEF Unopened, EditUpTo, Maybe
    <2>3. gone.at = "gone" /\ \A g \in Games : gone.held[g] = None
      BY DEF Unopened
    <2>4. EditorFits(gone, log, sent, relay)
      BY <2>3 DEF EditorFits
    <2>5. QED
      BY <2>2, <2>3, <2>4
  <1>6. ASSUME NEW e \in Editors
        PROVE  /\ edit'[e] \in EditUpTo(size) /\ task'[e] \in TaskUpTo(size)
               /\ EditorFits(edit'[e], log, sent, relay)
               /\ CallFits(task'[e], edit'[e], log, sent, relay)
    <2> HIDE DEF gone
    <2>1. /\ edit[e] \in EditUpTo(size) /\ task[e] \in TaskUpTo(size)
          /\ EditorFits(edit[e], log, sent, relay)
          /\ CallFits(task[e], edit[e], log, sent, relay)
      BY EditorState
    <2>2. /\ NoTask \in TaskUpTo(size) /\ CallFits(NoTask, gone, log, sent, relay)
          /\ CallFits(NoTask, edit[e], log, sent, relay)
      BY <1>4, <1>5, <2>1, NoTaskFits
    <2>3. CASE Dev(e) = d /\ edit[e].at # "unopened"
      BY <1>1, <1>5, <2>2, <2>3
    <2>4. CASE Dev(e) = d /\ edit[e].at = "unopened"
      BY <1>1, <2>1, <2>2, <2>4
    <2>5. CASE Dev(e) # d
      BY <1>1, <2>1, <2>5
    <2>6. QED
      BY <2>3, <2>4, <2>5
  <1>7. EditorsTyped' /\ EditorsFit'
    <2>1. edit' \in [Editors -> EditUpTo(size)] /\ task' \in [Editors -> TaskUpTo(size)]
      BY <1>1, <1>6
    <2>2. QED
      BY <1>4, <1>6, <2>1 DEF EditorsTyped, EditorsFit
  <1>8. (SeenTyped /\ BuyersFit)'
    <2>1. view \in [Devices -> ViewType(size)] /\ shown \in [Devices -> [Games -> ShownType(size)]]
      BY DEF Inv, Typed, SeenTyped
    <2>2. NoView \in ViewType(size) /\ Nothing \in ShownType(size)
      BY <1>4 DEF NoView, ViewType, Nothing, ShownType, Maybe
    <2>3. SeenTyped'
      BY <1>1, <1>4, <2>1, <2>2 DEF SeenTyped
    <2>4. ASSUME NEW c \in Devices
          PROVE  ViewFits(view'[c], shown'[c], cache'[c], log')
      <3>1. CASE c = d
        <4>1. view'[c] = NoView /\ shown'[c] = [g \in Games |-> Nothing]
          BY <1>1, <2>1, <3>1
        <4>2. QED
          BY <4>1 DEF ViewFits, NoView, Nothing
      <3>2. CASE c # d
        <4>1. view'[c] = view[c] /\ shown'[c] = shown[c]
          BY <1>1, <2>1, <3>2
        <4>2. QED
          BY <1>2, <1>3, <4>1, ViewKept
      <3>3. QED
        BY <3>1, <3>2
    <2>5. QED
      BY <2>3, <2>4 DEF BuyersFit
  <1>9. unheard' \subseteq 1..size' /\ forgot' \subseteq 0..size'
    BY <1>1, <1>2, HistoryGrows DEF history
  <1>10. QED
    BY <1>2, <1>3, <1>7, <1>8, <1>9, Assemble

(* One device's view and what it shows change. *)
LEMMA OneViewer ==
  ASSUME Inv, UNCHANGED <<edit, task, events, net, history>>, ops' \in 0..MaxOps, CacheGrow,
         NEW d \in Devices, NEW w \in ViewType(size), NEW s \in [Games -> ShownType(size)],
         view' = [view EXCEPT ![d] = w], shown' = [shown EXCEPT ![d] = s],
         ViewFits(w, s, cache'[d], log)
  PROVE  Inv'
  <1>1. EventsTyped' /\ EventsGrow /\ LogFits' /\ NetGrow
    BY EventsSame, NetSame DEF net
  <1>2. size' = size /\ log' = log
    BY DEF events
  <1>3. EditorsTyped' /\ EditorsFit'
    BY <1>1, NoEditor
  <1>4. view \in [Devices -> ViewType(size)] /\ shown \in [Devices -> [Games -> ShownType(size)]]
    BY DEF Inv, Typed, SeenTyped
  <1>5. SeenTyped'
    BY <1>2, <1>4 DEF SeenTyped
  <1>6. ASSUME NEW c \in Devices
        PROVE  ViewFits(view'[c], shown'[c], cache'[c], log')
    <2>1. CASE c = d
      BY <1>2, <1>4, <2>1
    <2>2. CASE c # d
      <3>1. view'[c] = view[c] /\ shown'[c] = shown[c]
        BY <1>4, <2>2
      <3>2. QED
        BY <1>1, <3>1, ViewKept
    <2>3. QED
      BY <2>1, <2>2
  <1>7. (SeenTyped /\ BuyersFit)'
    BY <1>5, <1>6 DEF BuyersFit
  <1>8. unheard' \subseteq 1..size' /\ forgot' \subseteq 0..size'
    BY <1>1, HistoryGrows DEF history
  <1>9. QED
    BY <1>1, <1>3, <1>7, <1>8, Assemble

(* What a device has, before it starts or ends a view. *)
LEMMA ViewState ==
  ASSUME Inv, NEW d \in Devices
  PROVE  /\ view[d] \in ViewType(size) /\ shown[d] \in [Games -> ShownType(size)]
         /\ view[d].listing \in 0..size /\ view[d].known \in 0..size
         /\ \A g \in Games : shown[d][g].listing \in 0..size /\ shown[d][g].page \in 0..size
         /\ ViewFits(view[d], shown[d], cache[d], log)
         /\ view = [view EXCEPT ![d] = view[d]] /\ shown = [shown EXCEPT ![d] = shown[d]]
         /\ cache[d] \in [Subjects -> 0..size] /\ size \in Nat
  <1>1. view \in [Devices -> ViewType(size)] /\ shown \in [Devices -> [Games -> ShownType(size)]]
    BY DEF Inv, Typed, SeenTyped
  <1>2. ViewFits(view[d], shown[d], cache[d], log)
    BY DEF Inv, BuyersFit
  <1>3. cache[d] \in [Subjects -> 0..size] /\ size \in Nat
    BY SizeNat DEF Inv, Typed, NetTyped
  <1>4. QED
    BY <1>1, <1>2, <1>3 DEF ViewType, ShownType

(* A view starts: the page it reads from the cache is no older than the    *)
(* one that is shown.                                                      *)
LEMMA StartViewKeeps ==
  ASSUME Inv, NEW d \in Devices, NEW g \in Games, NEW n \in 0..MaxEvents,
         NEW V \in SUBSET Relays, StartView(d, g, n, V)
  PROVE  Inv'
  <1> DEFINE old == shown[d]
             s == IF old[g].listing = n THEN old
                  ELSE [old EXCEPT ![g] = [listing |-> n, page |-> 0]]
             w == IF Ptr(n) = None THEN view[d]
                  ELSE [game |-> g, listing |-> n, known |-> cache[d][Ptr(n)]]
  <1>1. /\ view[d].game = None /\ Counted /\ cache' = Newer(d, g, n)
        /\ n \in {relay[r][g] : r \in V} \cup {cache[d][g]}
        /\ UNCHANGED <<edit, task, events, net, history>>
        /\ shown' = IF old[g].listing = n THEN shown
                    ELSE [shown EXCEPT ![d][g] = [listing |-> n, page |-> 0]]
        /\ view' = IF Ptr(n) = None THEN view
                   ELSE [view EXCEPT ![d] = [game |-> g, listing |-> n,
                                             known |-> cache[d][Ptr(n)]]]
    BY DEF StartView
  <1>2. /\ view[d] \in ViewType(size) /\ old \in [Games -> ShownType(size)]
        /\ ViewFits(view[d], old, cache[d], log)
        /\ view = [view EXCEPT ![d] = view[d]] /\ shown = [shown EXCEPT ![d] = old]
        /\ cache[d] \in [Subjects -> 0..size] /\ size \in Nat
    BY ViewState
  <1>3. n \in 0..size /\ (n # 0 => log[n].of = g) /\ g \in Subjects
    <2>1. g \in Subjects
      BY DEF Subjects
    <2>2. \A r \in Relays : relay[r][g] \in 0..size /\ (relay[r][g] # 0 => log[relay[r][g]].of = g)
      BY <2>1 DEF Inv, Typed, NetTyped, StoreFits
    <2>3. cache[d][g] \in 0..size /\ (cache[d][g] # 0 => log[cache[d][g]].of = g)
      BY <2>1 DEF Inv, Typed, NetTyped, StoreFits
    <2>4. QED
      BY <1>1, <2>1, <2>2, <2>3
  <1>4. CacheGrow
    BY <1>1, <1>3, NewerGrows
  <1>5. Ptr(n) \in Maybe(Pages) /\ Ptr(n) = PtrIn(log, n)
    BY <1>3, PtrTyped
  <1>6. Ptr(n) # None => /\ Ptr(n) \in Subjects /\ cache[d][Ptr(n)] \in 0..size
                         /\ cache[d][Ptr(n)] # 0 => log[cache[d][Ptr(n)]].of = Ptr(n)
    BY <1>2, <1>5 DEF Maybe, Subjects, Inv, StoreFits
  <1>7. w \in ViewType(size)
    BY <1>2, <1>3, <1>6 DEF ViewType, Maybe
  <1>8. s \in [Games -> ShownType(size)]
    BY <1>2, <1>3 DEF ShownType
  <1>9. view' = [view EXCEPT ![d] = w]
    BY <1>1, <1>2
  <1>10. shown' = [shown EXCEPT ![d] = s]
    BY <1>1, <1>2
  <1>11. ViewFits(view[d], old, cache'[d], log')
    BY <1>1, <1>4, ViewKept, EventsSame, CountsTyped DEF net
  <1>12. log' = log
    BY <1>1 DEF events
  <1>13. ViewFits(w, s, cache'[d], log)
    <2>1. \A h \in Games : s[h].page # 0 => s[h] = old[h]
      BY <1>2
    <2>2. \A h \in Games : s[h].page # 0 =>
            PtrIn(log, s[h].listing) # None /\ s[h].page <= cache'[d][PtrIn(log, s[h].listing)]
      BY <1>11, <1>12, <2>1 DEF ViewFits
    <2>3. s[g].listing = n
      BY <1>2
    <2>4. Ptr(n) # None => s[g].page <= cache[d][Ptr(n)]
      <3>1. CASE old[g].listing = n
        <4>1. old[g].page # 0 => old[g].page <= cache[d][Ptr(n)]
          BY <1>2, <1>5, <3>1 DEF ViewFits
        <4>2. QED
          BY <1>6, <3>1, <4>1
      <3>2. CASE old[g].listing # n
        BY <1>2, <1>6, <3>2
      <3>3. QED
        BY <3>1, <3>2
    <2>5. CASE Ptr(n) = None
      BY <1>1, <2>2, <2>5 DEF ViewFits
    <2>6. CASE Ptr(n) # None
      <3>1. w.game = g /\ w.listing = n /\ w.known = cache[d][Ptr(n)]
        BY <2>6
      <3> HIDE DEF w, s
      <3>2. QED
        BY <1>5, <1>6, <2>2, <2>3, <2>4, <2>6, <3>1 DEF ViewFits
    <2>7. QED
      BY <2>5, <2>6
  <1>14. ops' \in 0..MaxOps
    BY <1>1, CountsTyped
  <1>15. QED
    <2> HIDE DEF w, s
    <2>1. QED
      BY <1>1, <1>4, <1>7, <1>8, <1>9, <1>10, <1>13, <1>14, OneViewer

(* The candidates of a view that ends: versions of the page its listing    *)
(* points to.                                                              *)
Candidates(d, V) ==
  {n \in {relay[r][Ptr(view[d].listing)] : r \in V} : n # 0} \cup Offered(d)

LEMMA CandidatesFit ==
  ASSUME Inv, NEW d \in Devices, NEW V \in SUBSET Relays, view[d].game # None
  PROVE  /\ Ptr(view[d].listing) \in Pages /\ Ptr(view[d].listing) \in Subjects
         /\ Ptr(view[d].listing) = PtrIn(log, view[d].listing)
         /\ \A q \in Candidates(d, V) : q \in 1..size /\ log[q].of = Ptr(view[d].listing)
  <1> DEFINE p == Ptr(view[d].listing)
  <1>1. /\ view[d].listing \in 0..size /\ view[d].known \in 0..size /\ size \in Nat
        /\ ViewFits(view[d], shown[d], cache[d], log)
    BY ViewState
  <1>2. p = PtrIn(log, view[d].listing) /\ p \in Maybe(Pages)
    BY <1>1, PtrTyped
  <1>3. p \in Pages /\ p \in Subjects
    BY <1>1, <1>2 DEF ViewFits, Maybe, Subjects
  <1>4. \A r \in Relays : relay[r][p] \in 0..size /\ (relay[r][p] # 0 => log[relay[r][p]].of = p)
    BY <1>3 DEF Inv, Typed, NetTyped, StoreFits
  <1>5. \A q \in Offered(d) : q \in 1..size /\ log[q].of = p
    BY <1>1 DEF Offered, Reciprocal
  <1>6. QED
    BY <1>1, <1>2, <1>3, <1>4, <1>5 DEF Candidates

(* A view ends: what is shown then is cached, or older. *)
LEMMA EndViewKeeps ==
  ASSUME Inv, NEW d \in Devices, NEW V \in SUBSET Relays, EndView(d, V)
  PROVE  Inv'
  <1> DEFINE old == shown[d]
             g == view[d].game
             p == Ptr(view[d].listing)
  <1>1. /\ g # None /\ view' = [view EXCEPT ![d] = NoView]
        /\ UNCHANGED <<edit, task, events, net, history, ops>>
    BY DEF EndView
  <1>2. \/ /\ cache' = cache
           /\ shown' = shown \/ shown' = [shown EXCEPT ![d][g].page = 0]
        \/ \E q \in Candidates(d, V) :
             /\ cache' = Newer(d, p, q)
             /\ \/ shown' = [shown EXCEPT ![d][g] = [listing |-> view[d].listing, page |-> q]]
                \/ shown' = [shown EXCEPT ![d][g] = [listing |-> view[d].listing, page |-> 0]]
    BY DEF EndView, Candidates
  <1>3. /\ view[d] \in ViewType(size) /\ old \in [Games -> ShownType(size)]
        /\ view[d].listing \in 0..size
        /\ ViewFits(view[d], old, cache[d], log)
        /\ shown = [shown EXCEPT ![d] = old] /\ size \in Nat
    BY ViewState
  <1>4. g \in Games
    BY <1>1, <1>3 DEF ViewType, Maybe
  <1>5. p \in Subjects /\ p # None /\ p = PtrIn(log, view[d].listing)
    BY <1>1, <1>3, CandidatesFit DEF ViewFits
  <1>6. ops' \in 0..MaxOps
    BY <1>1, CountsTyped
  <1>7. NoView \in ViewType(size)
    BY <1>3 DEF NoView, ViewType, Maybe
  <1>8. EventsGrow /\ log' = log
    BY <1>1, <1>6, EventsSame DEF net, events
  <1>9. ASSUME NEW s \in [Games -> ShownType(size)], shown' = [shown EXCEPT ![d] = s], CacheGrow,
               \A h \in Games : s[h].page # 0 /\ s[h] # old[h] =>
                 /\ PtrIn(log, s[h].listing) # None
                 /\ s[h].page <= cache'[d][PtrIn(log, s[h].listing)]
        PROVE  Inv'
    <2>1. ViewFits(view[d], old, cache'[d], log)
      BY <1>8, <1>9, ViewKept
    <2>2. ViewFits(NoView, s, cache'[d], log)
      BY <1>9, <2>1 DEF ViewFits, NoView
    <2>3. QED
      BY <1>1, <1>6, <1>7, <1>9, <2>2, OneViewer
  <1>10. CASE cache' = cache /\ shown' = shown
    <2>1. CacheGrow
      BY <1>8, <1>10, CacheSame
    <2>2. QED
      BY <1>3, <1>9, <1>10, <2>1
  <1>11. CASE cache' = cache /\ shown' = [shown EXCEPT ![d][g].page = 0]
    <2> DEFINE s == [old EXCEPT ![g].page = 0]
    <2>1. CacheGrow
      BY <1>8, <1>11, CacheSame
    <2>2. /\ s \in [Games -> ShownType(size)]
          /\ \A h \in Games : s[h].page # 0 => s[h] = old[h]
      BY <1>3, <1>4 DEF ShownType
    <2>3. shown' = [shown EXCEPT ![d] = s]
      BY <1>3, <1>11
    <2> HIDE DEF s
    <2>4. QED
      BY <1>9, <2>1, <2>2, <2>3
  <1>12. CASE \E q \in Candidates(d, V) :
                /\ cache' = Newer(d, p, q)
                /\ \/ shown' = [shown EXCEPT ![d][g] = [listing |-> view[d].listing, page |-> q]]
                   \/ shown' = [shown EXCEPT ![d][g] = [listing |-> view[d].listing, page |-> 0]]
    <2>1. PICK q \in Candidates(d, V) :
                /\ cache' = Newer(d, p, q)
                /\ \/ shown' = [shown EXCEPT ![d][g] = [listing |-> view[d].listing, page |-> q]]
                   \/ shown' = [shown EXCEPT ![d][g] = [listing |-> view[d].listing, page |-> 0]]
      BY <1>12
    <2>2. q \in 1..size /\ log[q].of = p
      BY <1>1, CandidatesFit
    <2>3. CacheGrow /\ cache'[d][p] >= q
      <3>1. q \in 0..size
        BY <2>2
      <3>2. QED
        BY <1>1, <1>5, <2>1, <2>2, <3>1, NewerGrows
    <2>4. PICK k \in {0, q} :
            shown' = [shown EXCEPT ![d][g] = [listing |-> view[d].listing, page |-> k]]
      BY <2>1
    <2> DEFINE s == [old EXCEPT ![g] = [listing |-> view[d].listing, page |-> k]]
    <2>5. k \in 0..size /\ k <= cache'[d][p]
      <3>1. cache'[d][p] \in Nat
        BY <1>3, <1>5, <1>8, <2>3 DEF CacheGrow, EventsGrow
      <3>2. QED
        BY <1>3, <2>2, <2>3, <2>4, <3>1
    <2>6. s \in [Games -> ShownType(size)]
      BY <1>3, <1>4, <2>5 DEF ShownType
    <2>7. /\ s[g].listing = view[d].listing /\ s[g].page = k
          /\ \A h \in Games : h # g => s[h] = old[h]
      BY <1>3, <1>4
    <2>8. shown' = [shown EXCEPT ![d] = s]
      BY <1>3, <2>4
    <2> HIDE DEF s
    <2>9. \A h \in Games : s[h].page # 0 /\ s[h] # old[h] =>
            /\ PtrIn(log, s[h].listing) # None
            /\ s[h].page <= cache'[d][PtrIn(log, s[h].listing)]
      BY <1>5, <2>5, <2>7
    <2>10. QED
      BY <1>9, <2>3, <2>6, <2>8, <2>9
  <1>13. QED
    BY <1>2, <1>10, <1>11, <1>12

-----------------------------------------------------------------------------
(* The theorems.                                                           *)

(* The state of a repository with the versions of earlier editors.         *)
LEMMA InvInit == Init => Inv
  <1> SUFFICES ASSUME Init PROVE Inv
    OBVIOUS
  <1>1. /\ edit = [e \in Editors |-> Unopened] /\ task = [e \in Editors |-> NoTask]
        /\ log = [n \in 1..MaxEvents |-> IF n <= MaxBefore THEN Before[n] ELSE NoEvent]
        /\ size = MaxBefore
        /\ relay = [r \in Relays |-> [s \in Subjects |-> Newest(s)]]
        /\ cache = [d \in Devices |-> [s \in Subjects |-> 0]]
        /\ view = [d \in Devices |-> NoView]
        /\ shown = [d \in Devices |-> [g \in Games |-> Nothing]]
        /\ sent = 1..MaxBefore /\ unheard = {} /\ forgot = {} /\ ops = 0
    BY DEF Init
  <1>2. MaxBefore \in Nat /\ MaxEvents \in Nat /\ MaxOps \in Nat /\ MaxBefore <= MaxEvents
    BY StorePagesAssumption
  <1>3. \A n \in 1..MaxBefore : log[n] = Before[n]
    BY <1>1, <1>2
  <1>4. NoEvent \in EventType
    BY DEF NoEvent, EventType, Maybe
  <1>5. EventsTyped
    BY <1>1, <1>2, <1>4, StorePagesAssumption DEF EventsTyped
  <1>6. NoResponse \in ResponseUpTo(size)
    BY <1>1, <1>2 DEF NoResponse, ResponseUpTo, Outcomes
  <1>7. Unopened \in EditUpTo(size)
    BY <1>1, <1>2, <1>6 DEF Unopened, EditUpTo, Maybe
  <1>8. NoTask \in TaskUpTo(size)
    BY <1>1, <1>2, <1>6 DEF NoTask, TaskUpTo, Maybe
  <1>9. EditorsTyped
    BY <1>1, <1>7, <1>8 DEF EditorsTyped
  <1>10. NetTyped
    BY <1>1, <1>2, NewestFits DEF NetTyped
  <1>11. SeenTyped
    <2>1. NoView \in ViewType(size) /\ Nothing \in ShownType(size)
      BY <1>1, <1>2 DEF NoView, ViewType, Nothing, ShownType, Maybe
    <2>2. QED
      BY <1>1, <2>1 DEF SeenTyped
  <1>12. HistoryTyped
    BY <1>1 DEF HistoryTyped
  <1>13. LogFits
    <2>1. ASSUME NEW n \in 1..MaxBefore
          PROVE  /\ Before[n].of \in Subjects
                 /\ Before[n].ptr # None => \E q \in 1..(n - 1) :
                      Before[q].of = Before[n].ptr /\ Before[n].of \in Before[q].links
      BY StorePagesAssumption
    <2>2. \A n \in 1..MaxBefore : \A q \in 1..(n - 1) :
            q \in sent /\ q < n /\ log[q] = Before[q]
      BY <1>1, <1>2, <1>3
    <2>3. ASSUME NEW n \in 1..MaxBefore, Before[n].ptr # None
          PROVE  \E q \in sent : /\ q < n /\ log[q].of = Before[n].ptr
                                 /\ Before[n].of \in log[q].links
      <3>1. PICK q \in 1..(n - 1) :
              Before[q].of = Before[n].ptr /\ Before[n].of \in Before[q].links
        BY <2>1, <2>3
      <3>2. QED
        BY <2>2, <3>1
    <2>4. ASSUME NEW n \in 1..size
          PROVE  /\ log[n].of \in Subjects
                 /\ log[n].ptr # None =>
                      \E q \in sent : q < n /\ log[q].of = log[n].ptr /\ log[n].of \in log[q].links
      <3>1. n \in 1..MaxBefore /\ log[n] = Before[n]
        BY <1>1, <1>3
      <3>2. QED
        BY <2>1, <2>3, <3>1
    <2>5. QED
      BY <2>4 DEF LogFits
  <1>14. StoreFits
    BY <1>1, <1>2, <1>3, NewestFits DEF StoreFits
  <1>15. EditorsFit
    <2>1. EditorFits(Unopened, log, sent, relay)
      BY DEF EditorFits, Unopened
    <2>2. CallFits(NoTask, Unopened, log, sent, relay)
      BY DEF CallFits, StageFits, SentFits, RowsFit, NoTask, NoResponse
    <2>3. QED
      BY <1>1, <2>1, <2>2 DEF EditorsFit
  <1>16. BuyersFit
    BY <1>1 DEF BuyersFit, ViewFits, NoView, Nothing
  <1>17. QED
    BY <1>5, <1>9, <1>10, <1>11, <1>12, <1>13, <1>14, <1>15, <1>16 DEF Inv, Typed

(* A step of an editor, *)
LEMMA EditorStepKeeps ==
  ASSUME Inv, NEW e \in Editors, EditorStep(e)
  PROVE  Inv'
  BY OpenPageKeeps, OpenNewKeeps, PublishKeeps, RetryKeeps, AnswerKeeps DEF EditorStep

(* and one of its command. *)
LEMMA TaskStepKeeps ==
  ASSUME Inv, NEW e \in Editors, TaskStep(e)
  PROVE  Inv'
  <1>1. ASSUME NEW V \in SUBSET Relays,
               \/ Fail(e, V) \/ SignPage(e, V) \/ RetryCheck(e, V) \/ ConfirmPage(e, V)
               \/ SignPointer(e, V) \/ ConfirmPointer(e, V)
        PROVE  Inv'
    BY <1>1, FailKeeps, SignPageKeeps, RetryCheckKeeps, ConfirmPageKeeps, SignPointerKeeps,
       ConfirmPointerKeeps
  <1>2. ASSUME NEW V \in SUBSET Relays,
               \/ SendPage(e, V) \/ SendPageUnheard(e, V)
               \/ SendPointer(e, V) \/ SendPointerUnheard(e, V)
               \/ \E g \in Games : FetchPointer(e, g, V)
        PROVE  Inv'
    BY <1>2, SendPageKeeps, SendPageUnheardKeeps, SendPointerKeeps, SendPointerUnheardKeeps,
       FetchPointerKeeps
  <1>3. ASSUME NEW g \in Games, FailPointer(e, g)
        PROVE  Inv'
    BY <1>3, FailPointerKeeps
  <1>4. QED
    BY <1>1, <1>2, <1>3 DEF TaskStep

(* Steps that change nothing. *)
LEMMA StutterKeeps == Inv /\ UNCHANGED vars => Inv'
  <1> SUFFICES ASSUME Inv, UNCHANGED vars PROVE Inv'
    OBVIOUS
  <1>1. UNCHANGED <<edit, task, events, net, cache, buyers, history, ops>>
    BY DEF vars
  <1>2. EventsTyped' /\ EventsGrow /\ LogFits' /\ NetGrow
    BY <1>1, EventsSame, NetSame, CountsTyped DEF net
  <1>3. CacheGrow
    BY <1>1, <1>2, CacheSame
  <1>4. EditorsTyped' /\ EditorsFit'
    BY <1>1, <1>2, NoEditor
  <1>5. (SeenTyped /\ BuyersFit)'
    BY <1>1, <1>2, <1>3, BuyersSame
  <1>6. unheard' \subseteq 1..size' /\ forgot' \subseteq 0..size'
    BY <1>1, <1>2, HistoryGrows DEF history
  <1>7. QED
    BY <1>2, <1>3, <1>4, <1>5, <1>6, Assemble

(* The invariant is inductive. *)
LEMMA InvStep == Inv /\ [Next]_vars => Inv'
  <1> SUFFICES ASSUME Inv, [Next]_vars PROVE Inv'
    OBVIOUS
  <1>1. CASE \E e \in Editors : EditorStep(e) \/ TaskStep(e)
    BY <1>1, EditorStepKeeps, TaskStepKeeps
  <1>2. CASE \E g \in Games, V, S \in SUBSET Relays : EditGame(g, V, S)
    BY <1>2, EditGameKeeps
  <1>3. CASE \E d \in Devices : Exit(d)
    BY <1>3, ExitKeeps
  <1>4. CASE \E d \in Devices, V \in SUBSET Relays : EndView(d, V)
    BY <1>4, EndViewKeeps
  <1>5. CASE \E d \in Devices, V \in SUBSET Relays, g \in Games, n \in 0..MaxEvents :
               StartView(d, g, n, V)
    BY <1>5, StartViewKeeps
  <1>6. CASE UNCHANGED vars
    BY <1>6, StutterKeeps
  <1>7. QED
    BY <1>1, <1>2, <1>3, <1>4, <1>5, <1>6 DEF Next

(* Every behaviour of the module has it. *)
LEMMA InvAlways == Spec => []Inv
  BY InvInit, InvStep, PTL DEF Spec

(* The types of StorePages. *)
THEOREM TypesHold == Spec => []TypeOK
  <1>1. Inv => TypeOK
    <2> SUFFICES ASSUME Inv PROVE TypeOK
      OBVIOUS
    <2>1. size \in Nat /\ MaxEvents \in Nat /\ size <= MaxEvents
      BY SizeNat DEF Inv
    <2>2. EditUpTo(size) \subseteq EditUpTo(MaxEvents) /\ TaskUpTo(size) \subseteq TaskUpTo(MaxEvents)
      BY <2>1, TypesGrow
    <2>3. EditUpTo(MaxEvents) = EditType /\ TaskUpTo(MaxEvents) = TaskType
      BY DEF EditUpTo, EditType, TaskUpTo, TaskType, ResponseUpTo, ResponseType, Event0
    <2>4. edit \in [Editors -> EditType] /\ task \in [Editors -> TaskType]
      BY <2>2, <2>3 DEF Inv, Typed, EditorsTyped
    <2>5. log \in [1..MaxEvents -> EventType] /\ size \in Event0 /\ ops \in 0..MaxOps
      BY <2>1 DEF Inv, Typed, EventsTyped, Event0
    <2>6. QED
      BY <2>4, <2>5 DEF Inv, Typed, NetTyped, SeenTyped, HistoryTyped, ViewType, ShownType, TypeOK
  <1>2. QED
    BY <1>1, InvAlways, PTL

(* A pointer is never ahead of its page: it names a page of which an       *)
(* earlier version, one that some relay has stored, lists the game.        *)
THEOREM PointersHavePages == Spec => []PointerHasPage
  <1>1. Inv => PointerHasPage
    BY DEF Inv, LogFits, PointerHasPage
  <1>2. QED
    BY <1>1, InvAlways, PTL

(* What is reported complete, after whatever failures and retries, is on   *)
(* two relays: the page, and for every row a listing that agrees with it.  *)
THEOREM CompletionsLink == Spec => []CompleteMeansLinked
  <1>1. Inv => CompleteMeansLinked
    <2> SUFFICES ASSUME Inv, NEW e \in Editors, edit[e].at = "complete"
                 PROVE  LET x == edit[e] IN
                        /\ x.resp.page \in sent /\ Spread(x.page, x.resp.page)
                        /\ Links(x.resp.page) = x.rows \ x.unlink
                        /\ \A g \in x.rows :
                             /\ x.held[g] # None /\ Spread(g, x.held[g])
                             /\ Ptr(x.held[g]) = x.page <=> g \notin x.unlink
      BY DEF CompleteMeansLinked
    <2> DEFINE x == edit[e]
    <2>1. EditorFits(x, log, sent, relay) /\ x.rows \subseteq Games
      BY EditorState, EditFields
    <2>2. PageFits(x, x.resp.page, log) /\ x.resp.page \in sent
      BY <2>1 DEF EditorFits
    <2>3. SpreadIn(relay, x.page, x.resp.page) /\ \A g \in x.rows : x.held[g] # None
      BY <2>1 DEF EditorFits
    <2>4. \A g \in x.rows : SpreadIn(relay, g, x.held[g]) /\ AgreesIn(x, g, x.held[g], log)
      BY <2>1, <2>3 DEF EditorFits
    <2>5. Links(x.resp.page) = x.rows \ x.unlink
      BY <2>2 DEF PageFits, Links
    <2>6. \A s, n : Spread(s, n) <=> SpreadIn(relay, s, n)
      BY DEF Spread, SpreadIn
    <2>7. \A g \in x.rows : Ptr(x.held[g]) = x.page <=> g \notin x.unlink
      BY <2>4 DEF AgreesIn, PtrIn, Ptr
    <2>8. QED
      BY <2>2, <2>3, <2>4, <2>5, <2>6, <2>7
  <1>2. QED
    BY <1>1, InvAlways, PTL

(* A view that ends shows nothing older than what was shown: the page it   *)
(* has read from the cache is at least that new, and competes.             *)
LEMMA EndViewMonotone ==
  ASSUME Inv, NEW d \in Devices, NEW V \in SUBSET Relays, EndView(d, V), NEW g \in Games,
         shown[d][g].page # 0, shown'[d][g].listing = shown[d][g].listing,
         g \in Links(view[d].known)
  PROVE  IF shown'[d][g].page # 0 THEN shown'[d][g].page >= shown[d][g].page
         ELSE cache'[d][Ptr(shown[d][g].listing)] > shown[d][g].page
  <1> DEFINE old == shown[d]
             v == view[d]
             p == Ptr(v.listing)
  <1>1. /\ old \in [Games -> ShownType(size)] /\ size \in Nat
        /\ v.listing \in 0..size /\ v.known \in 0..size
        /\ old[g].listing \in 0..size /\ old[g].page \in 0..size
        /\ ViewFits(v, old, cache[d], log)
    BY ViewState
  <1>2. v.game # None
    BY DEF EndView
  <1>3. shown \in [Devices -> [Games -> ShownType(size)]]
    BY DEF Inv, Typed, SeenTyped
  <1>4. CASE g # v.game
    <2>1. \/ shown' = shown \/ shown' = [shown EXCEPT ![d][v.game].page = 0]
          \/ \E s : shown' = [shown EXCEPT ![d][v.game] = s]
      BY DEF EndView
    <2>2. shown'[d][g] = shown[d][g]
      BY <1>3, <1>4, <2>1
    <2>3. QED
      BY <1>1, <2>2
  <1>5. CASE g = v.game
    <2>1. /\ p = PtrIn(log, v.listing) /\ p \in Subjects
          /\ \A q \in Candidates(d, V) : q \in 1..size /\ log[q].of = p
      BY <1>2, CandidatesFit
    <2>2. /\ p # None /\ old[g].listing = v.listing /\ old[g].page <= v.known
          /\ v.known # 0 => log[v.known].of = p
      BY <1>1, <1>2, <1>5, <2>1 DEF ViewFits
    <2>3. v.known # 0 /\ Reciprocal(g, v.listing, v.known)
      BY <1>1, <2>2 DEF Reciprocal, Links
    <2>4. v.known \in Candidates(d, V)
      BY <1>5, <2>3 DEF Candidates, Offered
    <2>5. PICK q \in Candidates(d, V) :
            /\ \A m \in Candidates(d, V) : m <= q
            /\ cache' = Newer(d, p, q)
            /\ shown' = [shown EXCEPT ![d][g] =
                 [listing |-> v.listing, page |-> IF Reciprocal(g, v.listing, q) THEN q ELSE 0]]
      BY <1>5, <2>4 DEF EndView, Candidates
    <2>6. q \in 1..size /\ v.known <= q /\ log[q].of = p
      BY <2>1, <2>4, <2>5
    <2>7. shown'[d][g].page = IF Reciprocal(g, v.listing, q) THEN q ELSE 0
      BY <1>3, <2>5
    <2>8. CASE Reciprocal(g, v.listing, q)
      BY <1>1, <2>2, <2>6, <2>7, <2>8
    <2>9. CASE ~Reciprocal(g, v.listing, q)
      <3>1. q # v.known
        BY <2>3, <2>9
      <3>2. UNCHANGED events
        BY DEF EndView
      <3>3. CacheGrow /\ cache'[d][p] >= q /\ size' = size
        <4>1. q \in 0..size
          BY <2>6
        <4>2. QED
          BY <2>1, <2>5, <2>6, <3>2, <4>1, NewerGrows DEF events
      <3>4. cache'[d][p] \in Nat
        BY <1>1, <2>1, <3>3 DEF CacheGrow
      <3>5. cache'[d][p] > old[g].page
        BY <1>1, <2>2, <2>6, <3>1, <3>3, <3>4
      <3>6. shown'[d][g].page = 0
        BY <2>7, <2>9
      <3>7. QED
        BY <2>2, <3>5, <3>6
    <2>10. QED
      BY <2>8, <2>9
  <1>6. QED
    BY <1>4, <1>5

(* A view that starts keeps what is shown, or shows another listing. *)
LEMMA StartViewMonotone ==
  ASSUME Inv, NEW c \in Devices, NEW h \in Games, NEW n \in 0..MaxEvents,
         NEW V \in SUBSET Relays, StartView(c, h, n, V), NEW d \in Devices, NEW g \in Games,
         shown'[d][g].listing = shown[d][g].listing
  PROVE  shown'[d][g] = shown[d][g]
  <1>1. shown \in [Devices -> [Games -> ShownType(size)]]
    BY DEF Inv, Typed, SeenTyped
  <1>2. shown' = IF shown[c][h].listing = n THEN shown
                 ELSE [shown EXCEPT ![c][h] = [listing |-> n, page |-> 0]]
    BY DEF StartView
  <1>3. QED
    BY <1>1, <1>2

(* What a device shows is left alone by every step that is not its own. *)
LEMMA OthersShow ==
  ASSUME Inv, NEW d \in Devices, NEW g \in Games,
         \/ \E e \in Editors : EditorStep(e) \/ TaskStep(e)
         \/ \E h \in Games, V, S \in SUBSET Relays : EditGame(h, V, S)
         \/ \E c \in Devices : c # d /\ (Exit(c) \/ \E V \in SUBSET Relays : EndView(c, V))
         \/ UNCHANGED vars
  PROVE  shown'[d][g] = shown[d][g]
  <1>1. shown \in [Devices -> [Games -> ShownType(size)]]
    BY DEF Inv, Typed, SeenTyped
  <1>2. CASE \E e \in Editors : EditorStep(e)
    <2>1. \A e, p, V : OpenPage(e, p, V) \/ OpenNew(e, p, V) => shown' = shown
      BY Zenon DEF OpenPage, OpenNew, buyers
    <2>2. \A e, U : Publish(e, U) \/ Retry(e) \/ Answer(e, U) => shown' = shown
      BY Zenon DEF Publish, Retry, Answer, buyers
    <2>3. QED
      BY <1>2, <2>1, <2>2 DEF EditorStep
  <1>3. CASE \E e \in Editors : TaskStep(e)
    <2>1. \A e, V : SendPage(e, V) \/ SendPageUnheard(e, V) => shown' = shown
      BY Zenon DEF SendPage, SendPageUnheard, buyers
    <2>2. \A e, V : SendPointer(e, V) \/ SendPointerUnheard(e, V) => shown' = shown
      BY Zenon DEF SendPointer, SendPointerUnheard, buyers
    <2>3. \A e, V : Fail(e, V) \/ SignPage(e, V) \/ RetryCheck(e, V) => shown' = shown
      BY Zenon DEF Fail, SignPage, RetryCheck, buyers
    <2>4. \A e, V : ConfirmPage(e, V) \/ SignPointer(e, V) \/ ConfirmPointer(e, V)
                     => shown' = shown
      BY Zenon DEF ConfirmPage, SignPointer, ConfirmPointer, buyers
    <2>5. ASSUME NEW e, NEW h, NEW V, FetchPointer(e, h, V) \/ FailPointer(e, h)
          PROVE  shown' = shown
      <3>1. UNCHANGED buyers
        BY <2>5 DEF FetchPointer, FailPointer
      <3>2. QED
        BY <3>1 DEF buyers
    <2>6. QED
      BY <1>3, <2>1, <2>2, <2>3, <2>4, <2>5 DEF TaskStep
  <1>4. CASE \E h \in Games, V, S \in SUBSET Relays : EditGame(h, V, S)
    BY <1>4 DEF EditGame, buyers
  <1>5. CASE \E c \in Devices : c # d /\ Exit(c)
    BY <1>1, <1>5 DEF Exit
  <1>6. CASE \E c \in Devices : c # d /\ \E V \in SUBSET Relays : EndView(c, V)
    <2>1. PICK c \in Devices, V \in SUBSET Relays : c # d /\ EndView(c, V)
      BY <1>6
    <2>2. \/ shown' = shown \/ shown' = [shown EXCEPT ![c][view[c].game].page = 0]
          \/ \E s : shown' = [shown EXCEPT ![c][view[c].game] = s]
      BY <2>1 DEF EndView
    <2>3. QED
      BY <1>1, <2>1, <2>2
  <1>7. CASE UNCHANGED vars
    BY <1>7 DEF vars, buyers
  <1>8. QED
    BY <1>2, <1>3, <1>4, <1>5, <1>6, <1>7

(* An exit shows nothing, and nothing is a listing without a page. *)
LEMMA ExitMonotone ==
  ASSUME Inv, NEW d \in Devices, Exit(d), NEW g \in Games, shown[d][g].page # 0
  PROVE  shown'[d][g].listing # shown[d][g].listing
  <1>1. shown \in [Devices -> [Games -> ShownType(size)]]
    BY DEF Inv, Typed, SeenTyped
  <1>2. shown'[d][g] = Nothing
    BY <1>1 DEF Exit
  <1>3. PtrIn(log, shown[d][g].listing) # None
    BY ViewState DEF ViewFits
  <1>4. QED
    BY <1>2, <1>3 DEF PtrIn, Nothing

(* While a listing stays the same, what a device shows with it is only     *)
(* replaced or detached by a newer version of the page.                    *)
THEOREM ViewsNeverGoBack == Spec => ViewNeverGoesBack
  <1> DEFINE Keeps(d, g) ==
        LET old == shown[d][g]  new == shown'[d][g] IN
        old.page # 0 /\ new.listing = old.listing /\ g \in Links(view[d].known) =>
          IF new.page # 0 THEN new.page >= old.page
                          ELSE cache'[d][Ptr(old.listing)] > old.page
  <1>1. ASSUME Inv, [Next]_vars, NEW d \in Viewers, NEW g \in Games
        PROVE  Keeps(d, g)
    <2>1. d \in Devices
      BY StorePagesAssumption
    <2>2. CASE shown'[d][g] = shown[d][g]
      <3>1. shown[d][g].page \in Nat
        BY <1>1, <2>1, ViewState
      <3>2. QED
        BY <2>2, <3>1
    <2>3. CASE \/ \E e \in Editors : EditorStep(e) \/ TaskStep(e)
               \/ \E h \in Games, V, S \in SUBSET Relays : EditGame(h, V, S)
               \/ \E c \in Devices : c # d /\ (Exit(c) \/ \E V \in SUBSET Relays : EndView(c, V))
               \/ UNCHANGED vars
      BY <1>1, <2>1, <2>2, <2>3, OthersShow
    <2>4. CASE Exit(d)
      BY <1>1, <2>1, <2>4, ExitMonotone
    <2>5. CASE \E V \in SUBSET Relays : EndView(d, V)
      BY <1>1, <2>1, <2>5, EndViewMonotone
    <2>6. CASE \E c \in Devices, V \in SUBSET Relays, h \in Games, n \in 0..MaxEvents :
                 StartView(c, h, n, V)
      BY <1>1, <2>1, <2>2, <2>6, StartViewMonotone
    <2>7. QED
      BY <1>1, <2>3, <2>4, <2>5, <2>6 DEF Next
  <1>2. Inv /\ [Next]_vars => [\A d \in Viewers, g \in Games : Keeps(d, g)]_vars
    BY <1>1
  <1>3. QED
    BY <1>2, InvAlways, PTL DEF Spec, ViewNeverGoesBack

-----------------------------------------------------------------------------
(***************************************************************************)
(* An editor replaces nothing twice unless it has lost track of what it    *)
(* published.                                                              *)
(***************************************************************************)
(* What an editor has published and not lost track of.                     *)
Open == sent \ (unheard \cup forgot)

(* A command t of editor x works on rows that hold nothing yet, and what   *)
(* is known of a row is not replaced again.                                *)
StageOnce(x, t) ==
  /\ x.at \in {"unopened", "open", "publishing", "gone"} => x.resp = NoResponse
  /\ x.at = "publishing" => \A g \in Games : t.pub[g] = 0
  /\ x.at = "retrying" => t.pub = Published(x.resp)
  /\ t.at \in {"sign", "sendptr"} => t.pub[t.game] = 0
  /\ t.at = "confirmptr" => t.pub[t.game] \in {0, t.version}
RowsOnce(x, t) ==
  \A g \in Games :
    /\ t.at \in {"check", "send", "retrycheck", "confirm"} \/ g \in t.todo => t.resp.out[g] = "none"
    /\ g \in t.todo \/ t.resp.out[g] # "none" => x.held[g] = None
    /\ x.at \in {"partial", "retrying"} /\ x.resp.out[g] \in {"failed", "unconfirmed"}
         => x.held[g] = None
    /\ t.pub[g] # 0 => g \in t.todo \/ t.resp.out[g] # "none"
    /\ t.resp.out[g] \in {"unconfirmed", "confirmed"} => t.pub[g] \in {0, t.resp.id[g]}

(* The version that is to be sent is the last of its editor. *)
LastOf(e, n, L, k) == L[n].by = e /\ \A m \in 1..k : L[m].by = e => m <= n
OwnOnce(e, t, L, k) ==
  /\ t.at = "send" => LastOf(e, t.resp.page, L, k)
  /\ t.at = "sendptr" => LastOf(e, t.version, L, k)

(* Where editor x or its command t has a replacement m of game g. *)
Recorded(x, t, g, m) ==
  \/ t.pub[g] = m
  \/ t.at = "confirmptr" /\ t.game = g /\ t.version = m
  \/ t.resp.out[g] \in {"unconfirmed", "confirmed"} /\ t.resp.id[g] = m
  \/ x.resp.out[g] = "unconfirmed" /\ x.resp.id[g] = m
  \/ x.held[g] = m

(* After its page an editor signs no other, and its replacements are       *)
(* recorded.  O are the versions nobody has lost track of.                 *)
OpenOnce(e, x, t, L, O) ==
  \A m \in O : L[m].by = e =>
    /\ L[m].of \in Pages => \/ x.at \in {"partial", "complete", "retrying", "gone"}
                            \/ t.at \notin {"idle", "check", "send"}
    /\ L[m].of \in Games => x.at = "gone" \/ Recorded(x, t, L[m].of, m)

OnceFits(e, x, t, L, k, O) ==
  StageOnce(x, t) /\ RowsOnce(x, t) /\ OwnOnce(e, t, L, k) /\ OpenOnce(e, x, t, L, O)
OnceFit == \A e \in Editors : OnceFits(e, edit[e], task[e], log, size, Open)
Once == OnceFit /\ OneReplacement

-----------------------------------------------------------------------------
(* What the proofs about each step rest on.                                *)

(* The command that does nothing, and the one that begins. *)
LEMMA NoTaskIs ==
  /\ NoTask.at = "idle" /\ NoTask.todo = {} /\ \A g \in Games : NoTask.pub[g] = 0
  /\ \A g \in Games : NoTask.resp.out[g] = "none" /\ NoTask.resp.id[g] = 0
  /\ [NoTask EXCEPT !.at = "check"].at = "check" /\ [NoTask EXCEPT !.at = "check"].todo = {}
  /\ [NoTask EXCEPT !.at = "check"].pub = NoTask.pub
  /\ [NoTask EXCEPT !.at = "check"].resp = NoResponse
  /\ \A g \in Games : NoResponse.out[g] = "none" /\ NoResponse.id[g] = 0
  BY DEF NoTask, NoResponse

(* What is known of an editor. *)
LEMMA OnceState ==
  ASSUME Inv, Once, NEW e \in Editors
  PROVE  /\ edit[e] \in EditUpTo(size) /\ task[e] \in TaskUpTo(size) /\ size \in Nat
         /\ StageOnce(edit[e], task[e]) /\ RowsOnce(edit[e], task[e])
         /\ OwnOnce(e, task[e], log, size) /\ OpenOnce(e, edit[e], task[e], log, Open)
         /\ task[e].at = "idle" => task[e] = NoTask
         /\ task[e].at # "idle" => edit[e].at \in {"publishing", "retrying"}
         /\ e # None
  <1>1. OnceFits(e, edit[e], task[e], log, size, Open)
    BY DEF Once, OnceFit
  <1>2. StageFits(task[e], edit[e])
    BY EditorState DEF CallFits
  <1>3. QED
    BY <1>1, <1>2, EditorState, StorePagesAssumption DEF OnceFits, StageFits

(* The open versions are signed ones. *)
LEMMA OpenTyped == Inv => Open \subseteq 1..size
  BY DEF Inv, Typed, HistoryTyped, Open

(* An editor that takes no step: nothing new is its own. *)
LEMMA OnceKept ==
  ASSUME Inv, Once, EventsGrow, NEW f \in Editors,
         \A m \in Open' : m \in Open \/ log'[m].by # f,
         \A m \in (size + 1)..size' : log'[m].by # f
  PROVE  OnceFits(f, edit[f], task[f], log', size', Open')
  <1>1. size \in Nat /\ size' \in Nat /\ size <= size'
    BY SizeNat DEF Inv, EventsGrow
  <1>2. \A m \in 1..size : log'[m] = log[m]
    BY DEF EventsGrow
  <1>3. /\ StageOnce(edit[f], task[f]) /\ RowsOnce(edit[f], task[f])
        /\ OwnOnce(f, task[f], log, size) /\ OpenOnce(f, edit[f], task[f], log, Open)
        /\ task[f] \in TaskUpTo(size)
    BY OnceState
  <1>4. \A m \in 1..size' : m \in 1..size \/ log'[m].by # f
    BY <1>1
  <1>5. OwnOnce(f, task[f], log', size')
    <2>1. CASE task[f].at = "send"
      <3>1. task[f].resp.page \in 1..size
        BY <2>1, PageToSend
      <3>2. QED
        BY <1>2, <1>3, <1>4, <2>1, <3>1 DEF OwnOnce, LastOf
    <2>2. CASE task[f].at = "sendptr"
      <3>1. task[f].version \in 1..size
        BY <2>2, PointerToSend
      <3>2. QED
        BY <1>2, <1>3, <1>4, <2>2, <3>1 DEF OwnOnce, LastOf
    <2>3. CASE task[f].at \notin {"send", "sendptr"}
      BY <2>3 DEF OwnOnce
    <2>4. QED
      BY <2>1, <2>2, <2>3
  <1>6. OpenOnce(f, edit[f], task[f], log', Open')
    BY <1>2, <1>3, OpenTyped DEF OpenOnce
  <1>7. QED
    BY <1>3, <1>5, <1>6 DEF OnceFits

(* One editor and its command change, and only they sign and publish. *)
LEMMA OneOnce ==
  ASSUME Inv, Once, EventsGrow, NEW e \in Editors, NEW x, NEW t,
         edit' = [edit EXCEPT ![e] = x], task' = [task EXCEPT ![e] = t],
         \A m \in Open' : m \in Open \/ log'[m].by = e,
         \A m \in (size + 1)..size' : log'[m].by = e,
         OnceFits(e, x, t, log', size', Open')
  PROVE  OnceFit'
  <1>1. edit \in [Editors -> EditUpTo(size)] /\ task \in [Editors -> TaskUpTo(size)]
    BY DEF Inv, Typed, EditorsTyped
  <1>2. ASSUME NEW f \in Editors
        PROVE  OnceFits(f, edit'[f], task'[f], log', size', Open')
    <2>1. CASE f = e
      BY <1>1, <2>1
    <2>2. CASE f # e
      <3>1. edit'[f] = edit[f] /\ task'[f] = task[f]
        BY <1>1, <2>2
      <3>2. /\ \A m \in Open' : m \in Open \/ log'[m].by # f
            /\ \A m \in (size + 1)..size' : log'[m].by # f
        BY <2>2
      <3>3. QED
        BY <3>1, <3>2, OnceKept
    <2>3. QED
      BY <2>1, <2>2
  <1>3. QED
    BY <1>2 DEF OnceFit

(* Nothing new is published: what was replaced once still is. *)
LEMMA NoneReplaced ==
  ASSUME Inv, Once, EventsGrow, sent' = sent, unheard \subseteq unheard', forgot \subseteq forgot'
  PROVE  OneReplacement' /\ Open' \subseteq Open
  <1>1. \A m \in sent : log'[m] = log[m]
    BY DEF EventsGrow, Inv, Typed, HistoryTyped
  <1>2. OneReplacement
    BY DEF Once
  <1>3. OneReplacement'
    BY <1>1, <1>2 DEF OneReplacement
  <1>4. QED
    BY <1>3 DEF Open

(* Fewer open versions ask for less. *)
LEMMA OpenLess ==
  ASSUME NEW e, NEW x, NEW t, NEW L, NEW A, NEW B \in SUBSET A, OpenOnce(e, x, t, L, A)
  PROVE  OpenOnce(e, x, t, L, B)
  BY DEF OpenOnce

(* A step that signs and sends nothing. *)
LEMMA QuietOnce ==
  ASSUME Inv, Once, UNCHANGED <<events, net>>, unheard \subseteq unheard', forgot \subseteq forgot',
         NEW e \in Editors, NEW x, NEW t,
         edit' = [edit EXCEPT ![e] = x], task' = [task EXCEPT ![e] = t],
         StageOnce(x, t), RowsOnce(x, t), OwnOnce(e, t, log, size), OpenOnce(e, x, t, log, Open')
  PROVE  Once'
  <1>1. size' = size /\ log' = log /\ sent' = sent /\ size \in Nat /\ size <= MaxEvents
    BY SizeNat DEF events, net, Inv
  <1>2. EventsGrow
    BY <1>1, SizeNat DEF EventsGrow, Inv
  <1>3. OneReplacement' /\ Open' \subseteq Open
    BY <1>1, <1>2, NoneReplaced
  <1>4. OnceFits(e, x, t, log', size', Open')
    BY <1>1 DEF OnceFits
  <1>5. \A m \in (size + 1)..size' : log'[m].by = e
    BY <1>1
  <1>6. OnceFit'
    BY <1>2, <1>3, <1>4, <1>5, OneOnce
  <1>7. QED
    BY <1>3, <1>6 DEF Once

(* The same, where nobody loses track of anything. *)
LEMMA SameOnce ==
  ASSUME Inv, Once, UNCHANGED <<events, net, history>>, NEW e \in Editors, NEW x, NEW t,
         edit' = [edit EXCEPT ![e] = x], task' = [task EXCEPT ![e] = t],
         StageOnce(x, t), RowsOnce(x, t), OwnOnce(e, t, log, size), OpenOnce(e, x, t, log, Open)
  PROVE  Once'
  <1>1. unheard' = unheard /\ forgot' = forgot /\ Open' = Open
    BY DEF history, net, Open
  <1>2. OpenOnce(e, x, t, log, Open')
    BY <1>1
  <1>3. QED
    BY <1>1, <1>2, QuietOnce

-----------------------------------------------------------------------------
(* The editor.                                                             *)

(* An editor opens a page or a draft. *)
LEMMA OpenedOnce ==
  ASSUME Inv, Once, NEW e \in Editors, NEW x, edit[e].at = "unopened", x.at = "open",
         x.resp = edit[e].resp, x.held = edit[e].held, edit' = [edit EXCEPT ![e] = x],
         UNCHANGED <<task, events, net, history>>
  PROVE  Once'
  <1>1. /\ StageOnce(edit[e], task[e]) /\ RowsOnce(edit[e], task[e])
        /\ OpenOnce(e, edit[e], task[e], log, Open)
        /\ task[e].at = "idle"
    BY OnceState
  <1>2. task' = [task EXCEPT ![e] = task[e]]
    BY EditorState
  <1>3. StageOnce(x, task[e])
    BY <1>1 DEF StageOnce
  <1>4. RowsOnce(x, task[e])
    BY <1>1 DEF RowsOnce
  <1>5. OwnOnce(e, task[e], log, size)
    BY <1>1 DEF OwnOnce
  <1>6. OpenOnce(e, x, task[e], log, Open)
    BY <1>1 DEF OpenOnce, Recorded
  <1>7. QED
    BY <1>2, <1>3, <1>4, <1>5, <1>6, SameOnce

(* A command that begins. *)
LEMMA PublishOnce ==
  ASSUME Inv, Once, NEW e \in Editors, NEW U \in SUBSET Games, Publish(e, U)
  PROVE  Once'
  <1> DEFINE x == [edit[e] EXCEPT !.at = "publishing", !.unlink = U]
             t == [NoTask EXCEPT !.at = "check"]
  <1>1. /\ edit[e].at = "open" /\ edit' = [edit EXCEPT ![e] = x]
        /\ task' = [task EXCEPT ![e] = t] /\ UNCHANGED <<events, net, history>>
    BY DEF Publish, Put, Move
  <1>2. /\ edit[e] \in EditUpTo(size) /\ task[e] = NoTask
        /\ StageOnce(edit[e], NoTask) /\ RowsOnce(edit[e], NoTask)
        /\ OpenOnce(e, edit[e], NoTask, log, Open)
    BY <1>1, OnceState
  <1>3. x.at = "publishing" /\ x.resp = edit[e].resp /\ x.held = edit[e].held
    BY <1>2 DEF EditUpTo
  <1>4. /\ t.at = "check" /\ t.todo = {} /\ t.pub = NoTask.pub /\ t.resp = NoResponse
        /\ NoTask.resp = NoResponse
    BY DEF NoTask
  <1> HIDE DEF x, t
  <1>5. StageOnce(x, t)
    BY <1>1, <1>2, <1>3, <1>4, NoTaskIs DEF StageOnce
  <1>6. RowsOnce(x, t)
    <2>1. \A g \in Games : edit[e].held[g] = None
      BY <1>1, EditorState DEF EditorFits
    <2>2. QED
      BY <1>3, <1>4, <2>1, NoTaskIs DEF RowsOnce
  <1>7. OwnOnce(e, t, log, size)
    BY <1>4 DEF OwnOnce
  <1>8. OpenOnce(e, x, t, log, Open)
    BY <1>1, <1>2, <1>3, <1>4, NoTaskIs DEF OpenOnce, Recorded
  <1>9. QED
    BY <1>1, <1>5, <1>6, <1>7, <1>8, SameOnce

(* A retry: what is unconfirmed is known to it. *)
LEMMA RetryOnce ==
  ASSUME Inv, Once, NEW e \in Editors, Retry(e)
  PROVE  Once'
  <1> DEFINE r == edit[e].resp
             x == [edit[e] EXCEPT !.at = "retrying"]
             t == [NoTask EXCEPT !.at = "retrycheck", !.todo = Pending(r),
                                 !.pub = Published(r), !.resp.page = r.page]
  <1>1. /\ edit[e].at = "partial" /\ edit' = [edit EXCEPT ![e] = x]
        /\ task' = [task EXCEPT ![e] = t] /\ UNCHANGED <<events, net, history>>
    BY DEF Retry, Put, Move
  <1>2. /\ edit[e] \in EditUpTo(size) /\ task[e] = NoTask
        /\ StageOnce(edit[e], NoTask) /\ RowsOnce(edit[e], NoTask)
        /\ OpenOnce(e, edit[e], NoTask, log, Open)
    BY <1>1, OnceState
  <1>3. x.at = "retrying" /\ x.resp = r /\ x.held = edit[e].held
    BY <1>2 DEF EditUpTo
  <1>4. /\ t.at = "retrycheck" /\ t.todo = Pending(r) /\ t.pub = Published(r)
        /\ t.resp.out = [g \in Games |-> "none"]
    BY DEF NoTask, NoResponse
  <1> HIDE DEF x, t
  <1>5. StageOnce(x, t)
    BY <1>3, <1>4 DEF StageOnce
  <1>6. RowsOnce(x, t)
    BY <1>1, <1>2, <1>3, <1>4 DEF RowsOnce, Pending, Published
  <1>7. OwnOnce(e, t, log, size)
    BY <1>4 DEF OwnOnce
  <1>8. OpenOnce(e, x, t, log, Open)
    <2> SUFFICES ASSUME NEW m \in Open, log[m].by = e, log[m].of \in Games
                 PROVE  Recorded(x, t, log[m].of, m)
      BY <1>3 DEF OpenOnce
    <2>1. Recorded(edit[e], NoTask, log[m].of, m) /\ m # 0
      BY <1>1, <1>2, OpenTyped DEF OpenOnce
    <2>2. QED
      BY <1>3, <2>1, NoTaskIs DEF Recorded
  <1>9. QED
    BY <1>1, <1>5, <1>6, <1>7, <1>8, SameOnce

(* A command that has checked or confirmed its page. *)
LEMMA AdvanceOnce ==
  ASSUME Inv, Once, NEW e \in Editors, NEW t, UNCHANGED <<edit, events, net, history>>,
         task' = [task EXCEPT ![e] = t],
         \/ task[e].at = "retrycheck" /\ t.at = "confirm"
         \/ task[e].at = "confirm" /\ t.at = "next",
         t.todo = task[e].todo, t.pub = task[e].pub,
         t.resp.out = task[e].resp.out, t.resp.id = task[e].resp.id
  PROVE  Once'
  <1>1. /\ StageOnce(edit[e], task[e]) /\ RowsOnce(edit[e], task[e])
        /\ OpenOnce(e, edit[e], task[e], log, Open)
    BY OnceState
  <1>2. edit' = [edit EXCEPT ![e] = edit[e]]
    BY EditorState
  <1>3. StageOnce(edit[e], t)
    BY <1>1 DEF StageOnce
  <1>4. RowsOnce(edit[e], t)
    BY <1>1 DEF RowsOnce
  <1>5. OwnOnce(e, t, log, size)
    BY DEF OwnOnce
  <1>6. OpenOnce(e, edit[e], t, log, Open)
    BY <1>1 DEF OpenOnce, Recorded
  <1>7. QED
    BY <1>2, <1>3, <1>4, <1>5, <1>6, SameOnce

(* A retry checks that its page is still the newest. *)
LEMMA RetryCheckOnce ==
  ASSUME Inv, Once, NEW e \in Editors, NEW V \in SUBSET Relays, RetryCheck(e, V)
  PROVE  Once'
  <1> DEFINE t == [task[e] EXCEPT !.at = "confirm"]
  <1>1. /\ task[e].at = "retrycheck" /\ task' = [task EXCEPT ![e] = t]
        /\ UNCHANGED <<edit, events, net, history>>
    BY DEF RetryCheck, At, Move
  <1>2. task[e] \in TaskUpTo(size)
    BY OnceState
  <1>3. /\ t.at = "confirm" /\ t.todo = task[e].todo /\ t.pub = task[e].pub
        /\ t.resp = task[e].resp
    BY <1>2 DEF TaskUpTo
  <1> HIDE DEF t
  <1>4. QED
    BY <1>1, <1>3, AdvanceOnce

(* The page is confirmed, or not. *)
LEMMA ConfirmPageOnce ==
  ASSUME Inv, Once, NEW e \in Editors, NEW V \in SUBSET Relays, ConfirmPage(e, V)
  PROVE  Once'
  <1> DEFINE ok == Confirmed(edit[e].page, task[e].resp.page, V)
             t == [task[e] EXCEPT !.at = "next", !.resp.confirmed = ok]
  <1>1. /\ task[e].at = "confirm" /\ task' = [task EXCEPT ![e] = t]
        /\ UNCHANGED <<edit, events, net, history>>
    BY DEF ConfirmPage, At, Move
  <1>2. task[e] \in TaskUpTo(size) /\ task[e].resp \in ResponseUpTo(size)
    BY OnceState, TaskFields
  <1>3. /\ t.at = "next" /\ t.todo = task[e].todo /\ t.pub = task[e].pub
        /\ t.resp = [task[e].resp EXCEPT !.confirmed = ok]
    BY <1>2 DEF TaskUpTo
  <1>4. t.resp.out = task[e].resp.out /\ t.resp.id = task[e].resp.id
    BY <1>2, <1>3 DEF ResponseUpTo
  <1> HIDE DEF t
  <1>5. QED
    BY <1>1, <1>3, <1>4, AdvanceOnce

(* What a command that fails early knew, its editor knows. *)
LEMMA BackToEditor ==
  ASSUME Inv, Once, NEW e \in Editors, NEW x, task[e].at \in {"check", "send", "retrycheck"},
         \/ edit[e].at = "publishing" /\ x.at = "open" /\ task[e].at # "retrycheck"
         \/ edit[e].at = "retrying" /\ x.at = "partial",
         x.resp = edit[e].resp, x.held = edit[e].held
  PROVE  /\ StageOnce(x, NoTask) /\ RowsOnce(x, NoTask) /\ OwnOnce(e, NoTask, log, size)
         /\ OpenOnce(e, x, NoTask, log, Open)
  <1>1. /\ StageOnce(edit[e], task[e]) /\ RowsOnce(edit[e], task[e])
        /\ OpenOnce(e, edit[e], task[e], log, Open)
    BY OnceState
  <1>2. StageOnce(x, NoTask)
    BY <1>1, NoTaskIs DEF StageOnce
  <1>3. RowsOnce(x, NoTask)
    BY <1>1, NoTaskIs DEF RowsOnce
  <1>4. OwnOnce(e, NoTask, log, size)
    BY NoTaskIs DEF OwnOnce
  <1>5. OpenOnce(e, x, NoTask, log, Open)
    <2> SUFFICES ASSUME NEW m \in Open, log[m].by = e
                 PROVE  /\ log[m].of \in Pages => x.at = "partial"
                        /\ log[m].of \in Games => Recorded(x, NoTask, log[m].of, m)
      BY DEF OpenOnce
    <2>1. m # 0
      BY OpenTyped
    <2>2. log[m].of \in Pages => x.at = "partial"
      BY <1>1 DEF OpenOnce, StageOnce
    <2>3. ASSUME log[m].of \in Games PROVE Recorded(x, NoTask, log[m].of, m)
      <3>1. Recorded(edit[e], task[e], log[m].of, m)
        BY <1>1, <2>3 DEF OpenOnce
      <3>2. task[e].resp.out[log[m].of] = "none"
        BY <1>1, <2>3 DEF RowsOnce
      <3>3. task[e].pub[log[m].of] = m => edit[e].at = "retrying"
        BY <1>1, <2>1, <2>3 DEF StageOnce
      <3>4. task[e].pub[log[m].of] = m =>
              edit[e].resp.out[log[m].of] = "unconfirmed" /\ edit[e].resp.id[log[m].of] = m
        BY <1>1, <2>1, <2>3, <3>3 DEF StageOnce, Published
      <3>5. QED
        BY <3>1, <3>2, <3>4 DEF Recorded
    <2>4. QED
      BY <2>2, <2>3
  <1>6. QED
    BY <1>2, <1>3, <1>4, <1>5

(* A publication or a retry fails before its page is out or confirmed. *)
LEMMA FailOnce ==
  ASSUME Inv, Once, NEW e \in Editors, NEW V \in SUBSET Relays, Fail(e, V)
  PROVE  Once'
  <1> DEFINE x == [edit[e] EXCEPT !.at = IF edit[e].at = "publishing" THEN "open" ELSE "partial"]
  <1>1. /\ task[e].at \in {"check", "send", "retrycheck"}
        /\ edit' = [edit EXCEPT ![e] = x] /\ task' = [task EXCEPT ![e] = NoTask]
        /\ UNCHANGED <<events, net, history>>
    BY DEF Fail, Put, Move
  <1>2. edit[e] \in EditUpTo(size) /\ edit[e].at \in {"publishing", "retrying"}
    BY <1>1, OnceState
  <1>3. /\ x.at = IF edit[e].at = "publishing" THEN "open" ELSE "partial"
        /\ x.resp = edit[e].resp /\ x.held = edit[e].held
    BY <1>2 DEF EditUpTo
  <1>4. task[e].at = "retrycheck" => edit[e].at = "retrying"
    BY EditorState DEF CallFits, StageFits
  <1> HIDE DEF x
  <1>5. /\ StageOnce(x, NoTask) /\ RowsOnce(x, NoTask) /\ OwnOnce(e, NoTask, log, size)
        /\ OpenOnce(e, x, NoTask, log, Open)
    BY <1>1, <1>2, <1>3, <1>4, BackToEditor
  <1>6. QED
    BY <1>1, <1>5, SameOnce

-----------------------------------------------------------------------------
(* The rows.                                                               *)

(* The fields of a settled row that StorePagesProofs leaves out. *)
LEMMA SettledPub ==
  ASSUME Inv, NEW e \in Editors, NEW g, NEW o, NEW n
  PROVE  Settled(e, g, o, n).pub = task[e].pub
  <1>1. task[e] \in TaskUpTo(size)
    BY EditorState
  <1>2. QED
    BY <1>1 DEF Settled, TaskUpTo

(* A row that is settled: what was recorded of it still is, unless it was  *)
(* the version at hand and the row has failed.                             *)
LEMMA SettledOnce ==
  ASSUME Inv, Once, NEW e \in Editors, NEW g \in Games, NEW o \in Outcomes \ {"none"},
         NEW n \in 0..size, NEW O \in SUBSET Open,
         task[e].at \in {"next", "sign", "sendptr", "confirmptr"}, g \in task[e].todo,
         o = "failed" => task[e].at # "confirmptr",
         o # "failed" => task[e].at = "confirmptr" /\ task[e].game = g /\ task[e].version = n
  PROVE  LET t == Settled(e, g, o, n) IN
         /\ StageOnce(edit[e], t) /\ RowsOnce(edit[e], t) /\ OwnOnce(e, t, log, size)
         /\ OpenOnce(e, edit[e], t, log, O)
  <1> DEFINE t == Settled(e, g, o, n)
  <1>1. /\ StageOnce(edit[e], task[e]) /\ RowsOnce(edit[e], task[e])
        /\ OpenOnce(e, edit[e], task[e], log, Open) /\ task[e].at # "idle"
        /\ edit[e].at \in {"publishing", "retrying"}
    BY OnceState
  <1>2. /\ t.at = "next" /\ t.todo = task[e].todo \ {g} /\ t.pub = task[e].pub
        /\ \A h \in Games : /\ t.resp.out[h] = IF h = g THEN o ELSE task[e].resp.out[h]
                            /\ t.resp.id[h] = IF h = g THEN n ELSE task[e].resp.id[h]
    BY SettledFields, SettledPub
  <1> HIDE DEF t
  <1>3. StageOnce(edit[e], t)
    BY <1>1, <1>2 DEF StageOnce
  <1>4. RowsOnce(edit[e], t)
    <2> SUFFICES ASSUME NEW h \in Games
                 PROVE  /\ h \in t.todo => t.resp.out[h] = "none"
                        /\ h \in t.todo \/ t.resp.out[h] # "none" => edit[e].held[h] = None
                        /\ /\ edit[e].at \in {"partial", "retrying"}
                           /\ edit[e].resp.out[h] \in {"failed", "unconfirmed"}
                           => edit[e].held[h] = None
                        /\ t.pub[h] # 0 => h \in t.todo \/ t.resp.out[h] # "none"
                        /\ t.resp.out[h] \in {"unconfirmed", "confirmed"} =>
                             t.pub[h] \in {0, t.resp.id[h]}
      BY <1>2 DEF RowsOnce
    <2>1. CASE h = g
      <3>1. o # "failed" => task[e].pub[g] \in {0, n}
        BY <1>1 DEF StageOnce
      <3>2. QED
        BY <1>1, <1>2, <2>1, <3>1 DEF RowsOnce
    <2>2. CASE h # g
      BY <1>1, <1>2, <2>2 DEF RowsOnce
    <2>3. QED
      BY <2>1, <2>2
  <1>5. OwnOnce(e, t, log, size)
    BY <1>2 DEF OwnOnce
  <1>6. OpenOnce(e, edit[e], t, log, O)
    <2> SUFFICES ASSUME NEW m \in O, log[m].by = e, log[m].of \in Games
                 PROVE  Recorded(edit[e], t, log[m].of, m)
      BY <1>2 DEF OpenOnce
    <2>1. Recorded(edit[e], task[e], log[m].of, m)
      BY <1>1 DEF OpenOnce
    <2>2. CASE log[m].of = g
      <3>1. task[e].resp.out[g] = "none"
        BY <1>1 DEF RowsOnce
      <3>2. QED
        BY <1>2, <2>1, <2>2, <3>1 DEF Recorded, Outcomes
    <2>3. CASE log[m].of # g
      <3>1. ~(task[e].at = "confirmptr" /\ task[e].game = log[m].of)
        BY <2>3 DEF Outcomes
      <3>2. QED
        BY <1>2, <2>1, <2>3, <3>1 DEF Recorded
    <2>4. QED
      BY <2>2, <2>3
  <1>7. QED
    BY <1>3, <1>4, <1>5, <1>6 DEF t

(* A step that only settles a row. *)
LEMMA SettleOnce ==
  ASSUME Inv, Once, NEW e \in Editors, NEW g \in Games, NEW o \in Outcomes \ {"none"},
         NEW n \in 0..size,
         task[e].at \in {"next", "sign", "sendptr", "confirmptr"}, g \in task[e].todo,
         o = "failed" => task[e].at # "confirmptr",
         o # "failed" => task[e].at = "confirmptr" /\ task[e].game = g /\ task[e].version = n,
         Move(e, Settled(e, g, o, n)), UNCHANGED <<edit, events, net, history>>
  PROVE  Once'
  <1> DEFINE t == Settled(e, g, o, n)
  <1>1. /\ StageOnce(edit[e], t) /\ RowsOnce(edit[e], t) /\ OwnOnce(e, t, log, size)
        /\ OpenOnce(e, edit[e], t, log, Open)
    BY SettledOnce
  <1>2. edit' = [edit EXCEPT ![e] = edit[e]] /\ task' = [task EXCEPT ![e] = t]
    BY EditorState DEF Move
  <1> HIDE DEF t
  <1>3. QED
    BY <1>1, <1>2, SameOnce

(* A listing that was fetched is to be signed or to be confirmed. *)
LEMMA FetchedOnce ==
  ASSUME Inv, Once, NEW e \in Editors, NEW g, NEW n, NEW u,
         task[e].at = "next", g \in task[e].todo, UNCHANGED <<edit, events, net, history>>,
         task' = [task EXCEPT ![e] = u],
         u.at \in {"sign", "confirmptr"}, u.game = g, u.version = n,
         u.todo = task[e].todo, u.pub = task[e].pub, u.resp = task[e].resp,
         \/ task[e].pub[g] = 0
         \/ u.at = "confirmptr" /\ task[e].pub[g] = n
  PROVE  Once'
  <1>1. /\ StageOnce(edit[e], task[e]) /\ RowsOnce(edit[e], task[e])
        /\ OpenOnce(e, edit[e], task[e], log, Open)
    BY OnceState
  <1>2. edit' = [edit EXCEPT ![e] = edit[e]]
    BY EditorState
  <1>3. StageOnce(edit[e], u)
    BY <1>1 DEF StageOnce
  <1>4. RowsOnce(edit[e], u)
    BY <1>1 DEF RowsOnce
  <1>5. OwnOnce(e, u, log, size)
    BY DEF OwnOnce
  <1>6. OpenOnce(e, edit[e], u, log, Open)
    BY <1>1 DEF OpenOnce, Recorded
  <1>7. QED
    BY <1>2, <1>3, <1>4, <1>5, <1>6, SameOnce

(* A listing is fetched: what is known is confirmed, and only what is not  *)
(* known is signed.                                                        *)
LEMMA FetchPointerOnce ==
  ASSUME Inv, Once, NEW e \in Editors, NEW g \in Games, NEW V \in SUBSET Relays,
         FetchPointer(e, g, V)
  PROVE  Once'
  <1> DEFINE n == Current(Dev(e), g, V)
             c == [task[e] EXCEPT !.at = "confirmptr", !.game = g, !.version = n]
             s == [task[e] EXCEPT !.at = "sign", !.game = g, !.version = n]
  <1>1. /\ task[e].at = "next" /\ g \in task[e].todo
        /\ UNCHANGED <<edit, events, net, history>>
    BY DEF FetchPointer, At
  <1>2. \/ task[e].pub[g] \in {0, n} /\ task' = [task EXCEPT ![e] = c]
        \/ task[e].pub[g] = 0 /\ task' = [task EXCEPT ![e] = s]
        \/ Move(e, Settled(e, g, "failed", 0))
    BY DEF FetchPointer, Move
  <1>3. task[e] \in TaskUpTo(size) /\ size \in Nat
    BY OnceState
  <1>4. CASE Move(e, Settled(e, g, "failed", 0))
    BY <1>1, <1>3, <1>4, SettleOnce DEF Outcomes
  <1>5. /\ c.at = "confirmptr" /\ c.game = g /\ c.version = n
        /\ c.todo = task[e].todo /\ c.pub = task[e].pub /\ c.resp = task[e].resp
    BY <1>3 DEF TaskUpTo
  <1>6. /\ s.at = "sign" /\ s.game = g /\ s.version = n
        /\ s.todo = task[e].todo /\ s.pub = task[e].pub /\ s.resp = task[e].resp
    BY <1>3 DEF TaskUpTo
  <1> HIDE DEF c, s, n
  <1>7. CASE task[e].pub[g] \in {0, n} /\ task' = [task EXCEPT ![e] = c]
    <2>1. \/ task[e].pub[g] = 0
          \/ c.at = "confirmptr" /\ task[e].pub[g] = n
      BY <1>5, <1>7
    <2>2. c.at \in {"sign", "confirmptr"} /\ task' = [task EXCEPT ![e] = c]
      BY <1>5, <1>7
    <2>3. QED
      BY <1>1, <1>5, <2>1, <2>2, FetchedOnce
  <1>8. CASE task[e].pub[g] = 0 /\ task' = [task EXCEPT ![e] = s]
    <2>1. s.at \in {"sign", "confirmptr"} /\ task[e].pub[g] = 0
      BY <1>6, <1>8
    <2>2. QED
      BY <1>1, <1>6, <1>8, <2>1, FetchedOnce
  <1>9. QED
    BY <1>2, <1>4, <1>7, <1>8

(* The listing is confirmed, or not. *)
LEMMA ConfirmPointerOnce ==
  ASSUME Inv, Once, NEW e \in Editors, NEW V \in SUBSET Relays, ConfirmPointer(e, V)
  PROVE  Once'
  <1> DEFINE g == task[e].game
             n == task[e].version
             o == IF Confirmed(g, n, V) THEN "confirmed" ELSE "unconfirmed"
  <1>1. /\ task[e].at = "confirmptr" /\ Move(e, Settled(e, g, o, n))
        /\ UNCHANGED <<edit, events, net, history>>
    BY DEF ConfirmPointer, At
  <1>2. g \in task[e].todo
    BY <1>1, EditorState DEF CallFits, StageFits
  <1>3. g \in Games /\ n \in 0..size
    BY <1>2, EditorState, TaskFields
  <1>4. o \in Outcomes \ {"none"} /\ o # "failed"
    BY DEF Outcomes
  <1>5. QED
    BY <1>1, <1>2, <1>3, <1>4, SettleOnce

(* A row fails. *)
LEMMA FailPointerOnce ==
  ASSUME Inv, Once, NEW e \in Editors, NEW g \in Games, FailPointer(e, g)
  PROVE  Once'
  <1>1. /\ \/ task[e].at = "next" /\ g \in task[e].todo
           \/ task[e].at \in {"sign", "sendptr"} /\ g = task[e].game
        /\ Move(e, Settled(e, g, "failed", 0)) /\ UNCHANGED <<edit, events, net, history>>
    BY DEF FailPointer, At
  <1>2. g \in task[e].todo /\ size \in Nat
    BY <1>1, EditorState DEF CallFits, StageFits
  <1>3. 0 \in 0..size /\ "failed" \in Outcomes \ {"none"}
    BY <1>2 DEF Outcomes
  <1>4. QED
    BY <1>1, <1>2, <1>3, SettleOnce

(* The answer: what is unconfirmed stays in the response, what is          *)
(* confirmed is held, and what a failed retry knew is forgotten.           *)
LEMMA AnswerOnce ==
  ASSUME Inv, Once, NEW e \in Editors, NEW fresh \in BOOLEAN, Answer(e, fresh)
  PROVE  Once'
  <1> DEFINE r == task[e].resp
             held == [g \in Games |-> IF r.out[g] = "confirmed" THEN r.id[g] ELSE edit[e].held[g]]
             at == IF fresh /\ Complete(e) THEN "complete" ELSE "partial"
             x == [edit[e] EXCEPT !.at = at, !.resp = r, !.held = held]
             lost == {task[e].pub[g] : g \in {h \in Games : r.out[h] = "failed"}}
  <1>1. /\ task[e].at = "next" /\ task[e].todo = {} /\ edit' = [edit EXCEPT ![e] = x]
        /\ forgot' = forgot \cup lost
        /\ task' = [task EXCEPT ![e] = NoTask]
        /\ UNCHANGED <<events, net, unheard>>
    BY DEF Answer, At, Put, Move
  <1>2. /\ edit[e] \in EditUpTo(size) /\ size \in Nat /\ task[e] \in TaskUpTo(size)
        /\ StageOnce(edit[e], task[e]) /\ RowsOnce(edit[e], task[e])
        /\ OpenOnce(e, edit[e], task[e], log, Open)
        /\ edit[e].at \in {"publishing", "retrying"}
    BY <1>1, OnceState
  <1>3. x.at = at /\ x.resp = r /\ x.held = held
    BY <1>2 DEF EditUpTo
  <1>4. x.at \in {"partial", "complete"} /\ x.resp = r
        /\ \A g \in Games : x.held[g] = IF r.out[g] = "confirmed" THEN r.id[g] ELSE edit[e].held[g]
    BY <1>3
  <1>5. \A g \in Games : r.out[g] \in Outcomes
    BY <1>2, TaskFields, ResponseFields
  <1> HIDE DEF x
  <1>6. StageOnce(x, NoTask)
    BY <1>4, NoTaskIs DEF StageOnce
  <1>7. RowsOnce(x, NoTask)
    BY <1>2, <1>4, NoTaskIs DEF RowsOnce
  <1>8. OwnOnce(e, NoTask, log, size)
    BY NoTaskIs DEF OwnOnce
  <1>9. OpenOnce(e, x, NoTask, log, Open')
    <2> SUFFICES ASSUME NEW m \in Open', log[m].by = e, log[m].of \in Games
                 PROVE  Recorded(x, NoTask, log[m].of, m)
      BY <1>4 DEF OpenOnce
    <2> DEFINE g == log[m].of
    <2>1. m \in Open /\ m \notin lost
      BY <1>1 DEF Open, net
    <2>2. m # 0
      BY <2>1, OpenTyped
    <2>3. Recorded(edit[e], task[e], g, m)
      BY <1>2, <2>1 DEF OpenOnce
    <2> HIDE DEF g
    <2>4. g \in Games
      BY DEF g
    <2>5. r.out[g] = "failed" => task[e].pub[g] # m
      BY <2>1, <2>4
    <2>6. task[e].pub[g] # 0 => r.out[g] # "none"
      BY <1>1, <1>2, <2>4 DEF RowsOnce
    <2>7. task[e].pub[g] = m => r.out[g] \in {"unconfirmed", "confirmed"} /\ r.id[g] = m
      BY <1>2, <1>5, <2>2, <2>4, <2>5, <2>6 DEF RowsOnce, Outcomes
    <2>8. edit[e].resp.out[g] = "unconfirmed" /\ edit[e].resp.id[g] = m =>
            task[e].pub[g] = m
      <3>1. edit[e].resp.out[g] = "unconfirmed" => edit[e].at = "retrying"
        BY <1>2, <2>4, NoTaskIs DEF StageOnce
      <3>2. QED
        BY <1>2, <2>4, <3>1 DEF StageOnce, Published
    <2>9. edit[e].held[g] = m => r.out[g] = "none" /\ x.held[g] = m
      <3>1. m # None
        BY <2>1, OpenTyped, StorePagesAssumption, <1>2
      <3>2. QED
        BY <1>2, <1>4, <2>4, <3>1 DEF RowsOnce
    <2>10. \/ r.out[g] \in {"unconfirmed", "confirmed"} /\ r.id[g] = m
           \/ x.held[g] = m
      BY <1>1, <2>3, <2>7, <2>8, <2>9 DEF Recorded
    <2>11. QED
      BY <1>4, <2>4, <2>10 DEF Recorded, g
  <1>10. QED
    BY <1>1, <1>6, <1>7, <1>8, <1>9, QuietOnce

-----------------------------------------------------------------------------
(* What is signed and sent.                                                *)

(* A version that is signed is the last of its editor. *)
LEMMA SignedLast ==
  ASSUME Inv, NEW e \in Editors, NEW y, Sign(y), y.by = e, NEW k, k = size + 1
  PROVE  LastOf(e, k, log', size')
  <1>1. size \in Nat /\ size + 1 \in 1..MaxEvents /\ size' = size + 1
    BY SizeNat DEF Inv, Sign
  <1>2. log'[size + 1] = y
    BY <1>1 DEF Sign, Inv, Typed, EventsTyped
  <1>3. QED
    BY <1>1, <1>2 DEF LastOf

(* One editor signs, and nothing is sent. *)
LEMMA SignOnce ==
  ASSUME Inv, Once, NEW e \in Editors, NEW t, NEW y, Sign(y), y.by = e,
         UNCHANGED <<edit, net, history>>, task' = [task EXCEPT ![e] = t],
         StageOnce(edit[e], t), RowsOnce(edit[e], t), OwnOnce(e, t, log', size'),
         OpenOnce(e, edit[e], t, log, Open)
  PROVE  Once'
  <1>1. size \in Nat /\ size + 1 \in 1..MaxEvents /\ size' = size + 1
    BY SizeNat DEF Inv, Sign
  <1>2. log'[size + 1] = y /\ \A m \in 1..size : log'[m] = log[m]
    BY <1>1 DEF Sign, Inv, Typed, EventsTyped
  <1>3. EventsGrow
    BY <1>1, <1>2 DEF EventsGrow
  <1>4. sent' = sent /\ unheard' = unheard /\ forgot' = forgot /\ Open' = Open
    BY DEF net, history, Open
  <1>5. OneReplacement'
    BY <1>3, <1>4, NoneReplaced
  <1>6. OpenOnce(e, edit[e], t, log', Open')
    BY <1>2, <1>4, OpenTyped DEF OpenOnce
  <1>7. edit' = [edit EXCEPT ![e] = edit[e]]
    BY EditorState
  <1>8. \A m \in (size + 1)..size' : log'[m].by = e
    BY <1>1, <1>2
  <1>9. OnceFits(e, edit[e], t, log', size', Open')
    BY <1>6 DEF OnceFits
  <1>10. \A m \in Open' : m \in Open \/ log'[m].by = e
    BY <1>4
  <1>11. OnceFit'
    BY <1>3, <1>7, <1>8, <1>9, <1>10, OneOnce
  <1>12. QED
    BY <1>5, <1>11 DEF Once

(* The page is signed. *)
LEMMA SignPageOnce ==
  ASSUME Inv, Once, NEW e \in Editors, NEW V \in SUBSET Relays, SignPage(e, V)
  PROVE  Once'
  <1> DEFINE x == edit[e]
             y == [of |-> x.page, ptr |-> None, links |-> Listed(e), by |-> e]
             t == [task[e] EXCEPT !.at = "send", !.todo = x.rows, !.resp.page = size + 1]
  <1>1. /\ task[e].at = "check" /\ Sign(y) /\ task' = [task EXCEPT ![e] = t]
        /\ UNCHANGED <<edit, net, history>>
    BY DEF SignPage, At, Move
  <1>2. /\ task[e] \in TaskUpTo(size) /\ StageOnce(x, task[e]) /\ RowsOnce(x, task[e])
        /\ OpenOnce(e, x, task[e], log, Open)
    BY OnceState
  <1>3. x.at = "publishing" /\ task[e] = [NoTask EXCEPT !.at = "check"]
    BY <1>1, EditorState DEF CallFits, StageFits
  <1>4. /\ t.at = "send" /\ t.todo = x.rows /\ t.pub = task[e].pub
        /\ t.resp = [task[e].resp EXCEPT !.page = size + 1]
    BY <1>2 DEF TaskUpTo
  <1>5. t.resp.page = size + 1 /\ t.resp.out = task[e].resp.out /\ t.resp.id = task[e].resp.id
    BY <1>2, <1>4, TaskFields, OnceState DEF ResponseUpTo
  <1>6. \A g \in Games : x.held[g] = None
    BY <1>3, EditorState DEF EditorFits
  <1>7. y.by = e
    OBVIOUS
  <1> HIDE DEF t, y
  <1>8. StageOnce(x, t)
    BY <1>2, <1>3, <1>4 DEF StageOnce
  <1>9. RowsOnce(x, t)
    BY <1>1, <1>2, <1>3, <1>4, <1>5, <1>6 DEF RowsOnce, StageOnce
  <1>10. OwnOnce(e, t, log', size')
    BY <1>1, <1>4, <1>5, <1>7, SignedLast DEF OwnOnce
  <1>11. OpenOnce(e, x, t, log, Open)
    BY <1>1, <1>2, <1>4, <1>5 DEF OpenOnce, Recorded
  <1>12. QED
    BY <1>1, <1>7, <1>8, <1>9, <1>10, <1>11, SignOnce

(* A replacement is signed. *)
LEMMA SignPointerOnce ==
  ASSUME Inv, Once, NEW e \in Editors, NEW V \in SUBSET Relays, SignPointer(e, V)
  PROVE  Once'
  <1> DEFINE x == edit[e]
             g == task[e].game
             y == [of |-> g, ptr |-> IF g \in x.unlink THEN None ELSE x.page,
                   links |-> {}, by |-> e]
             t == [task[e] EXCEPT !.at = "sendptr", !.version = size + 1]
  <1>1. /\ task[e].at = "sign" /\ Sign(y) /\ task' = [task EXCEPT ![e] = t]
        /\ UNCHANGED <<edit, net, history>>
    BY DEF SignPointer, At, Move
  <1>2. /\ task[e] \in TaskUpTo(size) /\ StageOnce(x, task[e]) /\ RowsOnce(x, task[e])
        /\ OpenOnce(e, x, task[e], log, Open)
    BY OnceState
  <1>3. /\ t.at = "sendptr" /\ t.version = size + 1 /\ t.game = g
        /\ t.todo = task[e].todo /\ t.pub = task[e].pub /\ t.resp = task[e].resp
    BY <1>2 DEF TaskUpTo
  <1>4. y.by = e
    OBVIOUS
  <1> HIDE DEF t, y
  <1>5. StageOnce(x, t)
    BY <1>1, <1>2, <1>3 DEF StageOnce
  <1>6. RowsOnce(x, t)
    BY <1>1, <1>2, <1>3 DEF RowsOnce
  <1>7. OwnOnce(e, t, log', size')
    BY <1>1, <1>3, <1>4, SignedLast DEF OwnOnce
  <1>8. OpenOnce(e, x, t, log, Open)
    BY <1>1, <1>2, <1>3 DEF OpenOnce, Recorded
  <1>9. QED
    BY <1>1, <1>4, <1>5, <1>6, <1>7, <1>8, SignOnce

(* A replacement that is about to be sent is the only one that is open. *)
LEMMA NoneOpen ==
  ASSUME Inv, Once, NEW e \in Editors, NEW m \in Open, log[m].by = e
  PROVE  /\ task[e].at \in {"idle", "check", "send"} /\ edit[e].at = "publishing" =>
              log[m].of \notin Pages
         /\ task[e].at \in {"sign", "sendptr"} => log[m].of # task[e].game
  <1>1. /\ StageOnce(edit[e], task[e]) /\ RowsOnce(edit[e], task[e])
        /\ OpenOnce(e, edit[e], task[e], log, Open) /\ size \in Nat
        /\ task[e].at # "idle" => edit[e].at \in {"publishing", "retrying"}
    BY OnceState
  <1>2. task[e].at \in {"idle", "check", "send"} /\ edit[e].at = "publishing" =>
          log[m].of \notin Pages
    BY <1>1 DEF OpenOnce
  <1>3. ASSUME task[e].at \in {"sign", "sendptr"}, log[m].of = task[e].game
        PROVE  FALSE
    <2> DEFINE g == task[e].game
    <2>1. g \in task[e].todo /\ g \in Games
      BY <1>3, EditorState, TaskFields DEF CallFits, StageFits
    <2>2. m \in 1..size /\ m # 0 /\ m # None
      BY <1>1, OpenTyped, StorePagesAssumption
    <2>3. Recorded(edit[e], task[e], g, m)
      BY <1>1, <1>3, <2>1 DEF OpenOnce
    <2>4. task[e].pub[g] = 0 /\ task[e].resp.out[g] = "none" /\ edit[e].held[g] = None
      BY <1>1, <1>3, <2>1 DEF StageOnce, RowsOnce
    <2>5. edit[e].resp.out[g] = "unconfirmed" => edit[e].resp.id[g] = 0
      <3>1. CASE edit[e].at = "publishing"
        BY <1>1, <2>1, <3>1, NoTaskIs DEF StageOnce
      <3>2. CASE edit[e].at = "retrying"
        BY <1>1, <2>1, <2>4, <3>2 DEF StageOnce, Published
      <3>3. QED
        BY <1>1, <1>3, <3>1, <3>2
    <2>6. QED
      BY <1>3, <2>2, <2>3, <2>4, <2>5 DEF Recorded
  <1>4. QED
    BY <1>2, <1>3

(* A version n of an editor is sent: it is the last, and no other one of   *)
(* its subject is open.                                                    *)
LEMMA SentOnce ==
  ASSUME Inv, Once, UNCHANGED events, NEW n \in 1..size, sent' = sent \cup {n},
         unheard \subseteq unheard', forgot \subseteq forgot',
         log[n].by # None =>
           /\ LastOf(log[n].by, n, log, size)
           /\ \A m \in Open : log[m].by = log[n].by => log[m].of # log[n].of
  PROVE  OneReplacement'
  <1>1. log' = log /\ size \in Nat /\ sent \subseteq 1..size
    BY SizeNat DEF events, Inv, Typed, HistoryTyped
  <1>2. SUFFICES ASSUME NEW i \in sent', NEW j \in sent', i < j, log[i].by = log[j].by,
                        log[i].by # None, log[i].of = log[j].of
                 PROVE  i \in unheard' \cup forgot'
    BY <1>1 DEF OneReplacement
  <1>3. CASE i \in sent /\ j \in sent
    BY <1>2, <1>3 DEF Once, OneReplacement
  <1>4. CASE j = n /\ i \in sent
    <2>1. i \notin Open
      BY <1>2, <1>4
    <2>2. QED
      BY <1>4, <2>1 DEF Open
  <1>5. CASE i = n
    BY <1>1, <1>2, <1>5 DEF LastOf
  <1>6. QED
    BY <1>3, <1>4, <1>5

(* One editor sends. *)
LEMMA SendOnce ==
  ASSUME Inv, Once, NEW e \in Editors, NEW x, NEW t, NEW n \in 1..size, UNCHANGED events,
         sent' = sent \cup {n}, unheard \subseteq unheard', forgot \subseteq forgot',
         LastOf(e, n, log, size), \A m \in Open : log[m].by = e => log[m].of # log[n].of,
         edit' = [edit EXCEPT ![e] = x], task' = [task EXCEPT ![e] = t],
         StageOnce(x, t), RowsOnce(x, t), OwnOnce(e, t, log, size),
         OpenOnce(e, x, t, log, Open'), EventsGrow
  PROVE  Once'
  <1>1. log' = log /\ size' = size /\ size \in Nat
    BY SizeNat DEF events, Inv
  <1>2. log[n].by = e
    BY DEF LastOf
  <1>3. OneReplacement'
    BY <1>2, SentOnce
  <1>4. \A m \in Open' : m \in Open \/ log'[m].by = e
    BY <1>1, <1>2 DEF Open
  <1>5. \A m \in (size + 1)..size' : log'[m].by = e
    BY <1>1
  <1>6. OnceFits(e, x, t, log', size', Open')
    BY <1>1 DEF OnceFits
  <1>7. OnceFit'
    BY <1>4, <1>5, <1>6, OneOnce
  <1>8. QED
    BY <1>3, <1>7 DEF Once

(* The page is sent. *)
LEMMA SendPageOnce ==
  ASSUME Inv, Once, NEW e \in Editors, NEW S \in SUBSET Relays,
         SendPage(e, S) \/ SendPageUnheard(e, S)
  PROVE  Once'
  <1> DEFINE n == task[e].resp.page
             x == edit[e]
             opened == [x EXCEPT !.at = "open"]
             t == [task[e] EXCEPT !.at = "confirm"]
  <1>1. /\ task[e].at = "send" /\ Stored(x.page, n, S) /\ UNCHANGED events
        /\ \/ edit' = edit /\ task' = [task EXCEPT ![e] = t] /\ UNCHANGED history
           \/ /\ edit' = [edit EXCEPT ![e] = opened] /\ task' = [task EXCEPT ![e] = NoTask]
              /\ unheard' = unheard \cup {n} /\ forgot' = forgot
    BY DEF SendPage, SendPageUnheard, At, Move, Put
  <1>2. /\ x \in EditUpTo(size) /\ task[e] \in TaskUpTo(size)
        /\ StageOnce(x, task[e]) /\ RowsOnce(x, task[e])
        /\ OwnOnce(e, task[e], log, size) /\ OpenOnce(e, x, task[e], log, Open)
    BY OnceState
  <1>3. n \in 1..size /\ log[n].of = x.page /\ x.page \in Pages /\ x.at = "publishing"
    BY <1>1, PageToSend, EditorState DEF EditorFits
  <1>4. LastOf(e, n, log, size)
    BY <1>1, <1>2 DEF OwnOnce
  <1>5. \A m \in Open : log[m].by = e => log[m].of # log[n].of
    BY <1>1, <1>3, NoneOpen
  <1>6. sent' = sent \cup {n}
    BY <1>1 DEF Stored
  <1>7. EventsGrow /\ log' = log
    BY <1>1, SizeNat DEF events, EventsGrow, Inv
  <1>8. CASE edit' = edit /\ task' = [task EXCEPT ![e] = t] /\ UNCHANGED history
    <2>1. /\ t.at = "confirm" /\ t.todo = task[e].todo /\ t.pub = task[e].pub
          /\ t.resp = task[e].resp
      BY <1>2 DEF TaskUpTo
    <2> HIDE DEF t
    <2>2. StageOnce(x, t) /\ RowsOnce(x, t) /\ OwnOnce(e, t, log, size)
      BY <1>1, <1>2, <2>1 DEF StageOnce, RowsOnce, OwnOnce
    <2>3. Open' \subseteq Open \cup {n}
      BY <1>6, <1>8 DEF Open, history
    <2>4. OpenOnce(e, x, t, log, Open')
      <3>1. log[n].of \notin Games
        BY <1>3, StorePagesAssumption
      <3>2. QED
        BY <1>1, <1>2, <2>1, <2>3, <3>1 DEF OpenOnce, Recorded
    <2>5. edit' = [edit EXCEPT ![e] = x] /\ unheard \subseteq unheard' /\ forgot \subseteq forgot'
      BY <1>8, EditorState DEF history
    <2> HIDE DEF n, x
    <2>6. QED
      BY <1>1, <1>3, <1>4, <1>5, <1>6, <1>7, <1>8, <2>2, <2>4, <2>5, SendOnce
  <1>9. CASE /\ edit' = [edit EXCEPT ![e] = opened] /\ task' = [task EXCEPT ![e] = NoTask]
             /\ unheard' = unheard \cup {n} /\ forgot' = forgot
    <2>1. opened.at = "open" /\ opened.resp = x.resp /\ opened.held = x.held
      BY <1>2 DEF EditUpTo
    <2> HIDE DEF opened
    <2>2. /\ StageOnce(opened, NoTask) /\ RowsOnce(opened, NoTask)
          /\ OwnOnce(e, NoTask, log, size) /\ OpenOnce(e, opened, NoTask, log, Open)
      BY <1>1, <1>3, <2>1, BackToEditor
    <2>3. Open' \subseteq Open
      BY <1>6, <1>9 DEF Open
    <2>4. OpenOnce(e, opened, NoTask, log, Open')
      BY <2>2, <2>3, OpenLess
    <2>5. unheard \subseteq unheard' /\ forgot \subseteq forgot'
      BY <1>9
    <2> HIDE DEF n
    <2>6. QED
      BY <1>1, <1>3, <1>4, <1>5, <1>6, <1>7, <1>9, <2>2, <2>4, <2>5, SendOnce
  <1>10. QED
    BY <1>1, <1>8, <1>9

(* A replacement is sent. *)
LEMMA SendPointerOnce ==
  ASSUME Inv, Once, NEW e \in Editors, NEW S \in SUBSET Relays,
         SendPointer(e, S) \/ SendPointerUnheard(e, S)
  PROVE  Once'
  <1> DEFINE n == task[e].version
             g == task[e].game
             x == edit[e]
             t == [task[e] EXCEPT !.at = "confirmptr"]
             u == Settled(e, g, "failed", 0)
  <1>1. /\ task[e].at = "sendptr" /\ Stored(g, n, S) /\ UNCHANGED events /\ edit' = edit
        /\ \/ task' = [task EXCEPT ![e] = t] /\ UNCHANGED history
           \/ /\ task' = [task EXCEPT ![e] = u]
              /\ unheard' = unheard \cup {n} /\ forgot' = forgot
    BY DEF SendPointer, SendPointerUnheard, At, Move
  <1>2. /\ task[e] \in TaskUpTo(size) /\ size \in Nat
        /\ StageOnce(x, task[e]) /\ RowsOnce(x, task[e])
        /\ OwnOnce(e, task[e], log, size) /\ OpenOnce(e, x, task[e], log, Open)
    BY OnceState
  <1>3. n \in 1..size /\ log[n].of = g /\ g \in Games /\ g \in task[e].todo
    BY <1>1, PointerToSend
  <1>4. LastOf(e, n, log, size)
    BY <1>1, <1>2 DEF OwnOnce
  <1>5. \A m \in Open : log[m].by = e => log[m].of # log[n].of
    BY <1>1, <1>3, NoneOpen
  <1>6. sent' = sent \cup {n}
    BY <1>1 DEF Stored
  <1>7. EventsGrow /\ edit' = [edit EXCEPT ![e] = x]
    BY <1>1, SizeNat, EditorState DEF events, EventsGrow, Inv
  <1>8. CASE task' = [task EXCEPT ![e] = t] /\ UNCHANGED history
    <2>1. /\ t.at = "confirmptr" /\ t.todo = task[e].todo /\ t.pub = task[e].pub
          /\ t.resp = task[e].resp /\ t.game = g /\ t.version = n
      BY <1>2 DEF TaskUpTo
    <2> HIDE DEF t
    <2>2. StageOnce(x, t)
      BY <1>1, <1>2, <2>1 DEF StageOnce
    <2>3. RowsOnce(x, t) /\ OwnOnce(e, t, log, size)
      BY <1>1, <1>2, <2>1 DEF RowsOnce, OwnOnce
    <2>4. Open' \subseteq Open \cup {n}
      BY <1>6, <1>8 DEF Open, history
    <2>5. OpenOnce(e, x, t, log, Open')
      <3>1. log[n].of \notin Pages
        BY <1>3, StorePagesAssumption
      <3>2. QED
        BY <1>1, <1>2, <1>3, <2>1, <2>4, <3>1 DEF OpenOnce, Recorded
    <2>6. unheard \subseteq unheard' /\ forgot \subseteq forgot'
      BY <1>8 DEF history
    <2> HIDE DEF n, x
    <2>7. QED
      BY <1>1, <1>3, <1>4, <1>5, <1>6, <1>7, <1>8, <2>2, <2>3, <2>5, <2>6, SendOnce
  <1>9. CASE task' = [task EXCEPT ![e] = u] /\ unheard' = unheard \cup {n} /\ forgot' = forgot
    <2>1. Open' \subseteq Open
      BY <1>6, <1>9 DEF Open
    <2>2. /\ StageOnce(x, u) /\ RowsOnce(x, u) /\ OwnOnce(e, u, log, size)
          /\ OpenOnce(e, x, u, log, Open')
      <3>1. 0 \in 0..size /\ "failed" \in Outcomes \ {"none"}
        BY <1>2 DEF Outcomes
      <3>2. QED
        BY <1>1, <1>3, <2>1, <3>1, SettledOnce
    <2>3. unheard \subseteq unheard' /\ forgot \subseteq forgot'
      BY <1>9
    <2> HIDE DEF u, n, x
    <2>4. QED
      BY <1>1, <1>3, <1>4, <1>5, <1>6, <1>7, <1>9, <2>2, <2>3, SendOnce
  <1>10. QED
    BY <1>1, <1>8, <1>9

-----------------------------------------------------------------------------
(* Everybody else.                                                         *)

(* The game form publishes for no editor. *)
LEMMA EditGameOnce ==
  ASSUME Inv, Once, NEW g \in Games, NEW V \in SUBSET Relays, NEW S \in SUBSET Relays,
         EditGame(g, V, S)
  PROVE  Once'
  <1>1. PICK r \in V : Sign([of |-> g, ptr |-> Ptr(relay[r][g]), links |-> {}, by |-> None])
    BY DEF EditGame
  <1> DEFINE y == [of |-> g, ptr |-> Ptr(relay[r][g]), links |-> {}, by |-> None]
             n == size + 1
  <1>2. Sign(y) /\ Stored(g, n, S) /\ UNCHANGED <<edit, task, history>>
    BY <1>1 DEF EditGame
  <1>3. y.by = None
    OBVIOUS
  <1> HIDE DEF y
  <1>4. size \in Nat /\ n \in 1..MaxEvents /\ size' = n
    BY <1>2, SizeNat DEF Inv, Sign
  <1>5. log'[n] = y /\ \A m \in 1..size : log'[m] = log[m]
    BY <1>2, <1>4 DEF Sign, Inv, Typed, EventsTyped
  <1>6. EventsGrow
    BY <1>4, <1>5 DEF EventsGrow
  <1>7. sent' = sent \cup {n} /\ unheard' = unheard /\ forgot' = forgot
    BY <1>2 DEF Stored, history
  <1>8. log'[n].by = None
    BY <1>3, <1>5
  <1>9. OnceFit'
    <2>1. ASSUME NEW f \in Editors
          PROVE  OnceFits(f, edit[f], task[f], log', size', Open')
      <3>1. f # None
        BY OnceState
      <3>2. \A m \in Open' : m \in Open \/ log'[m].by # f
        BY <1>7, <1>8, <3>1 DEF Open
      <3>3. \A m \in (size + 1)..size' : log'[m].by # f
        BY <1>4, <1>8, <3>1
      <3>4. QED
        BY <1>6, <3>2, <3>3, OnceKept
    <2>2. QED
      BY <1>2, <2>1 DEF OnceFit
  <1>10. OneReplacement'
    <2>1. sent \subseteq 1..size /\ OneReplacement
      BY DEF Inv, Typed, HistoryTyped, Once
    <2>2. SUFFICES ASSUME NEW i \in sent', NEW j \in sent', i < j, log'[i].by = log'[j].by,
                          log'[i].by # None, log'[i].of = log'[j].of
                   PROVE  i \in unheard' \cup forgot'
      BY DEF OneReplacement
    <2>3. i \in sent /\ j \in sent
      BY <1>7, <1>8, <2>2
    <2>4. log'[i] = log[i] /\ log'[j] = log[j]
      BY <1>5, <2>1, <2>3
    <2>5. QED
      BY <1>7, <2>1, <2>2, <2>3, <2>4 DEF OneReplacement
  <1>11. QED
    BY <1>9, <1>10 DEF Once

(* An editor that has exited replaces nothing any more. *)
LEMMA ExitOnce ==
  ASSUME Inv, Once, NEW d \in Devices, Exit(d)
  PROVE  Once'
  <1> DEFINE gone == [Unopened EXCEPT !.at = "gone"]
  <1>1. /\ edit' = [e \in Editors |-> IF Dev(e) = d /\ edit[e].at # "unopened"
                                      THEN gone ELSE edit[e]]
        /\ task' = [e \in Editors |-> IF Dev(e) = d THEN NoTask ELSE task[e]]
        /\ UNCHANGED <<events, net, history>>
    BY DEF Exit
  <1>2. /\ log' = log /\ size' = size /\ sent' = sent
        /\ unheard' = unheard /\ forgot' = forgot /\ Open' = Open
    BY <1>1 DEF events, net, history, Open
  <1>3. EventsGrow
    BY <1>2, SizeNat DEF EventsGrow, Inv
  <1>4. OneReplacement'
    BY <1>2, <1>3, NoneReplaced
  <1>5. gone.at = "gone" /\ gone.resp = NoResponse /\ \A g \in Games : gone.held[g] = None
    BY DEF Unopened
  <1> HIDE DEF gone
  <1>6. ASSUME NEW e \in Editors
        PROVE  OnceFits(e, edit'[e], task'[e], log, size, Open)
    <2>1. OnceFits(e, edit[e], task[e], log, size, Open)
      BY DEF Once, OnceFit
    <2>2. CASE Dev(e) = d /\ edit[e].at # "unopened"
      <3>1. edit'[e] = gone /\ task'[e] = NoTask
        BY <1>1, <2>2
      <3>2. StageOnce(gone, NoTask)
        BY <1>5, NoTaskIs DEF StageOnce
      <3>3. RowsOnce(gone, NoTask)
        BY <1>5, NoTaskIs DEF RowsOnce
      <3>4. OwnOnce(e, NoTask, log, size) /\ OpenOnce(e, gone, NoTask, log, Open)
        BY <1>5, NoTaskIs DEF OwnOnce, OpenOnce
      <3>5. QED
        BY <3>1, <3>2, <3>3, <3>4 DEF OnceFits
    <2>3. CASE ~(Dev(e) = d /\ edit[e].at # "unopened")
      <3>1. edit'[e] = edit[e]
        BY <1>1, <2>3
      <3>2. task'[e] = task[e]
        BY <1>1, <2>3, OnceState
      <3>3. QED
        BY <2>1, <3>1, <3>2
    <2>4. QED
      BY <2>2, <2>3
  <1>7. OnceFit'
    BY <1>2, <1>6 DEF OnceFit
  <1>8. QED
    BY <1>4, <1>7 DEF Once

(* What buyers do is nothing to editors. *)
LEMMA OthersOnce ==
  ASSUME Inv, Once, UNCHANGED <<edit, task, events, net, history>>
  PROVE  Once'
  <1>1. /\ log' = log /\ size' = size /\ sent' = sent
        /\ unheard' = unheard /\ forgot' = forgot /\ Open' = Open
    BY DEF events, net, history, Open
  <1>2. OnceFit' /\ OneReplacement'
    BY <1>1 DEF Once, OnceFit, OneReplacement
  <1>3. QED
    BY <1>2 DEF Once

-----------------------------------------------------------------------------
(* The theorem.                                                            *)

(* At first no editor has published anything. *)
LEMMA OnceInit == Init => Once
  <1> SUFFICES ASSUME Init PROVE Once
    OBVIOUS
  <1>1. /\ edit = [e \in Editors |-> Unopened] /\ task = [e \in Editors |-> NoTask]
        /\ sent = 1..MaxBefore /\ unheard = {} /\ forgot = {}
        /\ log = [n \in 1..MaxEvents |-> IF n <= MaxBefore THEN Before[n] ELSE NoEvent]
    BY DEF Init
  <1>2. \A n \in 1..MaxBefore : log[n].by = None
    BY <1>1, StorePagesAssumption
  <1>3. OneReplacement
    BY <1>1, <1>2 DEF OneReplacement
  <1>4. ASSUME NEW e \in Editors
        PROVE  OnceFits(e, Unopened, NoTask, log, size, Open)
    <2>1. /\ Unopened.at = "unopened" /\ Unopened.resp = NoResponse
          /\ \A g \in Games : Unopened.held[g] = None
      BY DEF Unopened
    <2>2. e # None
      BY StorePagesAssumption
    <2>3. StageOnce(Unopened, NoTask) /\ RowsOnce(Unopened, NoTask)
      BY <2>1, NoTaskIs DEF StageOnce, RowsOnce
    <2>4. OwnOnce(e, NoTask, log, size) /\ OpenOnce(e, Unopened, NoTask, log, Open)
      BY <1>1, <1>2, <2>2, NoTaskIs DEF OwnOnce, OpenOnce, Open
    <2>5. QED
      BY <2>3, <2>4 DEF OnceFits
  <1>5. QED
    BY <1>1, <1>3, <1>4 DEF Once, OnceFit

(* The steps of an editor, *)
LEMMA EditorStepOnce ==
  ASSUME Inv, Once, NEW e \in Editors, EditorStep(e)
  PROVE  Once'
  <1>1. ASSUME NEW p \in Pages, NEW V \in SUBSET Relays, OpenPage(e, p, V)
        PROVE  Once'
    <2>1. PICK q, rows, expect :
            edit' = [edit EXCEPT ![e] = [edit[e] EXCEPT
              !.at = "open", !.page = p, !.loaded = q, !.rows = rows, !.expect = expect]]
      BY <1>1 DEF OpenPage, Put
    <2> DEFINE y == [edit[e] EXCEPT !.at = "open", !.page = p, !.loaded = q, !.rows = rows,
                                    !.expect = expect]
    <2>2. y.at = "open" /\ y.resp = edit[e].resp /\ y.held = edit[e].held
      BY OnceState DEF EditUpTo
    <2>3. edit[e].at = "unopened" /\ UNCHANGED <<task, events, net, history>>
      BY <1>1 DEF OpenPage
    <2>4. edit' = [edit EXCEPT ![e] = y]
      BY <2>1
    <2> HIDE DEF y
    <2>5. QED
      BY <2>2, <2>3, <2>4, OpenedOnce
  <1>2. ASSUME NEW p \in Pages, NEW V \in SUBSET Relays, OpenNew(e, p, V)
        PROVE  Once'
    <2> DEFINE y == [edit[e] EXCEPT !.at = "open", !.page = p, !.rows = {GameOf[e]},
                                    !.expect[GameOf[e]] = Current(Dev(e), GameOf[e], V)]
    <2>1. y.at = "open" /\ y.resp = edit[e].resp /\ y.held = edit[e].held
      BY OnceState DEF EditUpTo
    <2>2. /\ edit[e].at = "unopened" /\ UNCHANGED <<task, events, net, history>>
          /\ edit' = [edit EXCEPT ![e] = y]
      BY <1>2 DEF OpenNew, Put
    <2> HIDE DEF y
    <2>3. QED
      BY <2>1, <2>2, OpenedOnce
  <1>3. QED
    BY <1>1, <1>2, PublishOnce, RetryOnce, AnswerOnce DEF EditorStep

(* and of its command. *)
LEMMA TaskStepOnce ==
  ASSUME Inv, Once, NEW e \in Editors, TaskStep(e)
  PROVE  Once'
  <1>1. ASSUME NEW V \in SUBSET Relays,
               \/ Fail(e, V) \/ SignPage(e, V) \/ RetryCheck(e, V) \/ ConfirmPage(e, V)
               \/ SignPointer(e, V) \/ ConfirmPointer(e, V)
        PROVE  Once'
    BY <1>1, FailOnce, SignPageOnce, RetryCheckOnce, ConfirmPageOnce, SignPointerOnce,
       ConfirmPointerOnce
  <1>2. ASSUME NEW V \in SUBSET Relays,
               \/ SendPage(e, V) \/ SendPageUnheard(e, V)
               \/ SendPointer(e, V) \/ SendPointerUnheard(e, V)
               \/ \E g \in Games : FetchPointer(e, g, V)
        PROVE  Once'
    BY <1>2, SendPageOnce, SendPointerOnce, FetchPointerOnce
  <1>3. ASSUME NEW g \in Games, FailPointer(e, g)
        PROVE  Once'
    BY <1>3, FailPointerOnce
  <1>4. QED
    BY <1>1, <1>2, <1>3 DEF TaskStep

(* The invariant is inductive. *)
LEMMA OnceStep == Inv /\ Once /\ [Next]_vars => Once'
  <1> SUFFICES ASSUME Inv, Once, [Next]_vars PROVE Once'
    OBVIOUS
  <1>1. CASE \E e \in Editors : EditorStep(e) \/ TaskStep(e)
    BY <1>1, EditorStepOnce, TaskStepOnce
  <1>2. CASE \E g \in Games, V, S \in SUBSET Relays : EditGame(g, V, S)
    BY <1>2, EditGameOnce
  <1>3. CASE \E d \in Devices : Exit(d)
    BY <1>3, ExitOnce
  <1>4. CASE \E d \in Devices, V \in SUBSET Relays : EndView(d, V)
    BY <1>4, OthersOnce DEF EndView
  <1>5. CASE \E d \in Devices, V \in SUBSET Relays, g \in Games, n \in 0..MaxEvents :
               StartView(d, g, n, V)
    BY <1>5, OthersOnce DEF StartView
  <1>6. CASE UNCHANGED vars
    BY <1>6, OthersOnce DEF vars
  <1>7. QED
    BY <1>1, <1>2, <1>3, <1>4, <1>5, <1>6 DEF Next

(* Of two versions of one subject by one editor, the editor never learned  *)
(* of the first or a failed retry has forgotten it.                        *)
THEOREM NothingReplacedTwice == Spec => []OneReplacement
  <1>1. Once => OneReplacement
    BY DEF Once
  <1>2. QED
    BY <1>1, InvAlways, OnceInit, OnceStep, PTL DEF Spec
=============================================================================
