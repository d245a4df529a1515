------------------------- MODULE AcquisitionProofs --------------------------
(***************************************************************************)
(* Proofs about acquiring games, for any receipts, grants, servers, views  *)
(* and any number of concurrent commands.                                  *)
(***************************************************************************)
EXTENDS Acquisition, FiniteSetTheorems, TLAPS

(* What confirm_purchase checked of the receipt it is about to store. *)
ConfirmChecked(k) ==
  /\ k.cred \in Receipts
  /\ Rcpt[k.cred].buyer = k.buyer
  /\ PublisherOf[Rcpt[k.cred].coord] = PublisherOf[k.coord]
  /\ ValidRoot(k.cred, PublisherOf[Rcpt[k.cred].coord], k.auth)

(* What ingest_receipt checked. *)
IngestChecked(k) ==
  /\ k.cred \in Receipts
  /\ ValidRoot(k.cred, PublisherOf[Rcpt[k.cred].coord], k.auth)

(* What claim_entitlement checked of the grant it is about to store. *)
ClaimChecked(k) ==
  /\ k.cred \in Events
  /\ k.view \in Campaigns
  /\ Ev[k.cred].status = "granted"
  /\ Ev[k.cred].recipient = k.buyer
  /\ Ev[k.cred].coord = k.coord
  /\ G!ValidGrant(k.cred, k.view, k.auth)

(* What holds of a command, given the tables R and W. *)
TaskInv(k, R, W) ==
  /\ (k.pc = "asked" /\ k.kind = "claim") => k.view \in Campaigns
  /\ k.pc \in {"accepted", "store", "insert", "token"} =>
       /\ k.kind = "confirm" => ConfirmChecked(k)
       /\ k.kind = "ingest" => IngestChecked(k)
       /\ k.kind = "claim" => ClaimChecked(k)
  /\ k.pc = "insert" => k.kind = "claim"
  /\ k.pc = "token" =>
       /\ k.server \in Servers
       /\ \/ k.kind = "confirm" /\ k.cred \in R
          \/ k.kind = "claim" /\ k.cred \in W
  /\ (k.pc # "idle" /\ k.kind \in {"confirm", "claim"}) => k.server \in Servers

TasksChecked == \A t \in Tasks : TaskInv(task[t], purchases, rows)

(* TokenFollowsCredential is not inductive: a token is stored after its    *)
(* credential, so the invariant must remember what each command checked.   *)
IInv ==
  TypeOK /\ TasksChecked /\ CredentialsValidated /\ TokenFollowsCredential

-----------------------------------------------------------------------------
(* Only the active account and the tasks change: tables stay the same and  *)
(* every invariant about them survives.                                    *)
LEMMA TablesUnchanged ==
  ASSUME IInv, UNCHANGED <<purchases, rows, tokens>>
  PROVE  /\ CredentialsValidated'
         /\ TokenFollowsCredential'
<1>1. CredentialsValidated'
  BY DEF IInv, CredentialsValidated, ValidRoot, PaidRoot, MaySignReceipt,
         G!ValidGrant, G!MayIssue
<1>2. TokenFollowsCredential'
  BY DEF IInv, TokenFollowsCredential
<1>. QED  BY <1>1, <1>2

(* A command that moves on while the tables stay the same. *)
LEMMA BecomeKeeps ==
  ASSUME IInv, NEW t \in Tasks, NEW k \in {Idle} \cup Busy, Become(t, k),
         TaskInv(k, purchases, rows)
  PROVE  IInv'
<1>1. /\ task' = [task EXCEPT ![t] = k]
      /\ UNCHANGED <<active, purchases, rows, tokens>>
  BY DEF Become
<1>2. TypeOK'
  BY <1>1 DEF IInv, TypeOK
<1>3. TasksChecked'
  <2> SUFFICES ASSUME NEW u \in Tasks
               PROVE  TaskInv(task[u], purchases, rows)'
    BY DEF TasksChecked
  <2>1. CASE u = t
    <3>1. task'[u] = k
      BY <1>1, <2>1 DEF IInv, TypeOK
    <3>2. TaskInv(task'[u], purchases', rows')
      BY <1>1, <3>1
    <3>. QED  BY <3>2 DEF TaskInv, ConfirmChecked, IngestChecked, ClaimChecked
  <2>2. CASE u # t
    <3>1. task'[u] = task[u]
      BY <1>1, <2>2 DEF IInv, TypeOK
    <3>2. TaskInv(task[u], purchases, rows)
      BY DEF IInv, TasksChecked
    <3>. QED  BY <1>1, <3>1, <3>2
         DEF TaskInv, ConfirmChecked, IngestChecked, ClaimChecked
  <2>. QED  BY <2>1, <2>2
<1>. QED  BY <1>1, <1>2, <1>3, TablesUnchanged DEF IInv

(* A command in progress is a Busy record. *)
LEMMA BusyTask ==
  ASSUME IInv, NEW t \in Tasks, task[t].pc # "idle"
  PROVE  task[t] \in Busy /\ TaskInv(task[t], purchases, rows)
BY DEF IInv, TypeOK, TasksChecked, Idle

(* A resolved chain of a single event is a granted root. *)
LEMMA SingleGrant ==
  ASSUME NEW e, G!Resolves({e})
  PROVE  Ev[e].status = "granted"
BY DEF G!Resolves, G!Roots

LEMMA BeginConfirmKeeps ==
  ASSUME IInv, NEW t \in Tasks, NEW c \in Coords, NEW s \in Servers,
         NEW p \in Payments, BeginConfirm(t, c, s, p)
  PROVE  IInv'
<1> DEFINE k == [pc |-> "asked", kind |-> "confirm", buyer |-> active,
                 coord |-> c, server |-> s, payment |-> p, view |-> NoEvent,
                 auth |-> NoEvent, cred |-> NoEvent, nodes |-> {}]
<1>1. k \in Busy
  BY DEF BeginConfirm, Busy, IInv, TypeOK
<1>2. TaskInv(k, purchases, rows)
  BY DEF TaskInv
<1>. QED  BY <1>1, <1>2, BecomeKeeps DEF BeginConfirm

LEMMA BeginClaimKeeps ==
  ASSUME IInv, NEW t \in Tasks, NEW c \in Coords, NEW s \in Servers,
         NEW v \in Campaigns, BeginClaim(t, c, s, v)
  PROVE  IInv'
<1> DEFINE k == [pc |-> "asked", kind |-> "claim", buyer |-> active,
                 coord |-> c, server |-> s, payment |-> NoEvent, view |-> v,
                 auth |-> NoEvent, cred |-> NoEvent, nodes |-> {}]
<1>1. k \in Busy
  BY DEF BeginClaim, Busy, IInv, TypeOK
<1>2. TaskInv(k, purchases, rows)
  BY DEF TaskInv
<1>. QED  BY <1>1, <1>2, BecomeKeeps DEF BeginClaim

(* The receipt that is accepted is for a game of the developer whose       *)
(* listing was confirmed: by the key that signed it or by the developer of *)
(* its authorization.                                                      *)
LEMMA ConfirmAnsweredKeeps ==
  ASSUME IInv, NEW t \in Tasks, NEW r \in Receipts,
         NEW a \in AuthViews \cup {NoEvent}, ConfirmAnswered(t, r, a)
  PROVE  IInv'
<1> DEFINE k == [task[t] EXCEPT !.pc = "accepted", !.cred = r, !.auth = a]
           D == PublisherOf[Rcpt[r].coord]
<1>1. task[t] \in Busy /\ TaskInv(task[t], purchases, rows)
  BY BusyTask DEF ConfirmAnswered
<1>2. /\ k \in Busy
      /\ k.pc = "accepted" /\ k.kind = "confirm" /\ k.cred = r /\ k.auth = a
      /\ k.buyer = task[t].buyer /\ k.coord = task[t].coord
      /\ k.server = task[t].server
  BY <1>1 DEF ConfirmAnswered, Busy
<1>3. /\ Rcpt[r].buyer = task[t].buyer /\ ValidRoot(r, D, a)
      /\ ConfirmAuthorization(r, task[t].coord, a)
  BY DEF ConfirmAnswered, AcceptsConfirmed
<1>4. D = PublisherOf[task[t].coord]
  <2>1. CASE Rcpt[r].signer = PublisherOf[task[t].coord]
    BY <1>3, <2>1 DEF ConfirmAuthorization, ValidRoot
  <2>2. CASE Rcpt[r].signer # PublisherOf[task[t].coord]
    BY <1>3, <2>2 DEF ConfirmAuthorization, ValidRoot
  <2>. QED  BY <2>1, <2>2
<1>5. task[t].server \in Servers
  BY <1>1 DEF ConfirmAnswered, TaskInv
<1>6. TaskInv(k, purchases, rows)
  BY <1>2, <1>3, <1>4, <1>5 DEF TaskInv, ConfirmChecked
<1>. QED  BY <1>2, <1>6, BecomeKeeps DEF ConfirmAnswered

LEMMA ClaimAnsweredKeeps ==
  ASSUME IInv, NEW t \in Tasks, NEW e \in Events,
         NEW a \in AuthViews \cup {NoEvent}, ClaimAnswered(t, e, a)
  PROVE  IInv'
<1> DEFINE k == [task[t] EXCEPT !.pc = "accepted", !.cred = e, !.auth = a]
<1>1. task[t] \in Busy /\ TaskInv(task[t], purchases, rows)
  BY BusyTask DEF ClaimAnswered
<1>2. /\ k \in Busy
      /\ k.pc = "accepted" /\ k.kind = "claim" /\ k.cred = e /\ k.auth = a
      /\ k.buyer = task[t].buyer /\ k.coord = task[t].coord
      /\ k.server = task[t].server /\ k.view = task[t].view
  BY <1>1 DEF ClaimAnswered, Busy
<1>3. task[t].server \in Servers /\ task[t].view \in Campaigns
  BY <1>1 DEF ClaimAnswered, TaskInv
<1>4. Ev[e].status = "granted"
  BY SingleGrant DEF ClaimAnswered
<1>5. TaskInv(k, purchases, rows)
  BY <1>2, <1>3, <1>4 DEF TaskInv, ClaimChecked, ClaimAnswered
<1>. QED  BY <1>2, <1>5, BecomeKeeps DEF ClaimAnswered

LEMMA CommitKeeps ==
  ASSUME IInv, NEW t \in Tasks, Commit(t)
  PROVE  IInv'
<1> DEFINE k == [task[t] EXCEPT !.pc = "store"]
<1>1. task[t] \in Busy /\ TaskInv(task[t], purchases, rows)
  BY BusyTask DEF Commit
<1>2. /\ k \in Busy /\ k.pc = "store" /\ k.kind = task[t].kind
      /\ k.cred = task[t].cred /\ k.auth = task[t].auth
      /\ k.buyer = task[t].buyer /\ k.coord = task[t].coord
      /\ k.server = task[t].server /\ k.view = task[t].view
  BY <1>1 DEF Commit, Busy
<1>3. TaskInv(k, purchases, rows)
  BY <1>1, <1>2
     DEF Commit, TaskInv, ConfirmChecked, IngestChecked, ClaimChecked
<1>. QED  BY <1>2, <1>3, BecomeKeeps DEF Commit

LEMMA BeginIngestKeeps ==
  ASSUME IInv, NEW t \in Tasks, NEW r \in Receipts, BeginIngest(t, r)
  PROVE  IInv'
<1> DEFINE k == [pc |-> "store", kind |-> "ingest", buyer |-> active,
                 coord |-> Rcpt[r].coord, server |-> NoEvent,
                 payment |-> NoEvent, view |-> NoEvent, auth |-> NoEvent,
                 cred |-> r, nodes |-> {}]
<1>1. Rcpt[r].coord \in Coords
  BY ReceiptsAssumption DEF ReceiptContent
<1>2. k \in Busy
  BY <1>1 DEF BeginIngest, Busy, IInv, TypeOK
<1>3. TaskInv(k, purchases, rows)
  BY DEF TaskInv, IngestChecked, BeginIngest, AcceptsDirect
<1>. QED  BY <1>2, <1>3, BecomeKeeps DEF BeginIngest

LEMMA ReadChainKeeps ==
  ASSUME IInv, NEW t \in Tasks, ReadChain(t)
  PROVE  IInv'
<1> DEFINE n == G!Siblings(rows, task[t].cred)
           k == [task[t] EXCEPT !.pc = "insert", !.nodes = n]
<1>1. task[t] \in Busy /\ TaskInv(task[t], purchases, rows)
  BY BusyTask DEF ReadChain
<1>2. n \subseteq Events
  BY DEF IInv, TypeOK, G!Siblings, G!Stored
<1>3. /\ k \in Busy /\ k.pc = "insert" /\ k.kind = "claim"
      /\ k.cred = task[t].cred /\ k.auth = task[t].auth
      /\ k.buyer = task[t].buyer /\ k.coord = task[t].coord
      /\ k.server = task[t].server /\ k.view = task[t].view
  BY <1>1, <1>2 DEF ReadChain, Busy
<1>4. TaskInv(k, purchases, rows)
  BY <1>1, <1>3 DEF ReadChain, TaskInv, ClaimChecked
<1>. QED  BY <1>3, <1>4, BecomeKeeps DEF ReadChain

LEMMA FailKeeps ==
  ASSUME IInv, NEW t \in Tasks, Fail(t)
  PROVE  IInv'
<1>1. TaskInv(Idle, purchases, rows)
  BY DEF TaskInv, Idle
<1>. QED  BY <1>1, BecomeKeeps DEF Fail

(* Tables only grow, so what a command relies on stays true. *)
LEMMA TaskInvGrows ==
  ASSUME NEW k, NEW R, NEW W, NEW R2, NEW W2, R \subseteq R2, W \subseteq W2,
         TaskInv(k, R, W)
  PROVE  TaskInv(k, R2, W2)
BY DEF TaskInv

LEMMA StoreReceiptKeeps ==
  ASSUME IInv, NEW t \in Tasks, StoreReceipt(t)
  PROVE  IInv'
<1> DEFINE k == IF task[t].kind = "ingest" THEN Idle
                ELSE [task[t] EXCEPT !.pc = "token"]
           r == task[t].cred
<1>1. task[t] \in Busy /\ TaskInv(task[t], purchases, rows)
  BY BusyTask DEF StoreReceipt
<1>2. /\ purchases' = purchases \cup {r}
      /\ task' = [task EXCEPT ![t] = k]
      /\ UNCHANGED <<active, rows, tokens>>
  BY DEF StoreReceipt
<1>3. r \in Receipts /\ ValidRoot(r, PublisherOf[Rcpt[r].coord], task[t].auth)
  BY <1>1 DEF StoreReceipt, TaskInv, ConfirmChecked, IngestChecked
<1>4. k \in {Idle} \cup Busy /\ TaskInv(k, purchases', rows')
  <2>1. CASE task[t].kind = "ingest"
    BY <2>1 DEF TaskInv, Idle
  <2>2. CASE task[t].kind = "confirm"
    <3>1. /\ k \in Busy /\ k.pc = "token" /\ k.kind = "confirm"
          /\ k.cred = r /\ k.auth = task[t].auth
          /\ k.buyer = task[t].buyer /\ k.coord = task[t].coord
          /\ k.server = task[t].server
      BY <1>1, <2>2 DEF Busy
    <3>2. ConfirmChecked(task[t]) /\ task[t].server \in Servers
      BY <1>1, <2>2 DEF StoreReceipt, TaskInv
    <3>. QED  BY <1>2, <3>1, <3>2 DEF TaskInv, ConfirmChecked
  <2>. QED  BY <2>1, <2>2 DEF StoreReceipt
<1>5. TypeOK'
  BY <1>2, <1>3, <1>4 DEF IInv, TypeOK
<1>6. TasksChecked'
  <2> SUFFICES ASSUME NEW u \in Tasks
               PROVE  TaskInv(task'[u], purchases', rows')
    BY DEF TasksChecked, TaskInv, ConfirmChecked, IngestChecked, ClaimChecked
  <2>1. CASE u = t
    BY <1>2, <1>4, <2>1 DEF IInv, TypeOK
  <2>2. CASE u # t
    <3>1. task'[u] = task[u] /\ TaskInv(task[u], purchases, rows)
      BY <1>2, <2>2 DEF IInv, TypeOK, TasksChecked
    <3>. QED  BY <1>2, <3>1, TaskInvGrows
  <2>. QED  BY <2>1, <2>2
<1>7. CredentialsValidated'
  <2>1. task[t].auth \in AuthViews \cup {NoEvent}
    BY <1>1 DEF Busy
  <2>. QED  BY <1>2, <1>3, <2>1
       DEF IInv, CredentialsValidated, ValidRoot, PaidRoot, MaySignReceipt,
           G!ValidGrant, G!MayIssue
<1>8. TokenFollowsCredential'
  BY <1>2 DEF IInv, TokenFollowsCredential
<1>. QED  BY <1>5, <1>6, <1>7, <1>8 DEF IInv

LEMMA InsertGrantKeeps ==
  ASSUME IInv, NEW t \in Tasks, InsertGrant(t)
  PROVE  IInv'
<1> DEFINE k == [task[t] EXCEPT !.pc = "token"]
           e == task[t].cred
<1>1. task[t] \in Busy /\ TaskInv(task[t], purchases, rows)
  BY BusyTask DEF InsertGrant
<1>2. /\ rows' = rows \cup {e}
      /\ task' = [task EXCEPT ![t] = k]
      /\ UNCHANGED <<active, purchases, tokens>>
  BY DEF InsertGrant
<1>3. task[t].kind = "claim" /\ ClaimChecked(task[t])
      /\ task[t].server \in Servers
  BY <1>1 DEF InsertGrant, TaskInv
<1>4. /\ k \in Busy /\ k.pc = "token" /\ k.kind = "claim"
      /\ k.cred = e /\ k.auth = task[t].auth
      /\ k.buyer = task[t].buyer /\ k.coord = task[t].coord
      /\ k.server = task[t].server /\ k.view = task[t].view
  BY <1>1, <1>3 DEF Busy
<1>5. TaskInv(k, purchases', rows')
  BY <1>2, <1>3, <1>4 DEF TaskInv, ClaimChecked
<1>6. TypeOK'
  BY <1>2, <1>3, <1>4 DEF IInv, TypeOK, ClaimChecked
<1>7. TasksChecked'
  <2> SUFFICES ASSUME NEW u \in Tasks
               PROVE  TaskInv(task'[u], purchases', rows')
    BY DEF TasksChecked, TaskInv, ConfirmChecked, IngestChecked, ClaimChecked
  <2>1. CASE u = t
    BY <1>2, <1>5, <2>1 DEF IInv, TypeOK
  <2>2. CASE u # t
    <3>1. task'[u] = task[u] /\ TaskInv(task[u], purchases, rows)
      BY <1>2, <2>2 DEF IInv, TypeOK, TasksChecked
    <3>. QED  BY <1>2, <3>1, TaskInvGrows
  <2>. QED  BY <2>1, <2>2
<1>8. CredentialsValidated'
  <2>1. task[t].auth \in AuthViews \cup {NoEvent}
    BY <1>1 DEF Busy
  <2>. QED  BY <1>2, <1>3, <2>1
       DEF IInv, CredentialsValidated, ClaimChecked, ValidRoot, PaidRoot,
           MaySignReceipt, G!ValidGrant, G!MayIssue
<1>9. TokenFollowsCredential'
  BY <1>2 DEF IInv, TokenFollowsCredential
<1>. QED  BY <1>6, <1>7, <1>8, <1>9 DEF IInv

(* The token is stored when the credential already is: what the command    *)
(* checked of its credential makes TokenFollowsCredential true of the new  *)
(* row.                                                                    *)
LEMMA StoreTokenKeeps ==
  ASSUME IInv, NEW t \in Tasks, StoreToken(t)
  PROVE  IInv'
<1> DEFINE k == [buyer |-> task[t].buyer, coord |-> task[t].coord,
                 server |-> task[t].server]
<1>1. task[t] \in Busy /\ TaskInv(task[t], purchases, rows)
  BY BusyTask DEF StoreToken
<1>2. /\ tokens' = tokens \cup {k}
      /\ task' = [task EXCEPT ![t] = Idle]
      /\ UNCHANGED <<active, purchases, rows>>
  BY DEF StoreToken
<1>3. task[t].server \in Servers
  BY <1>1 DEF StoreToken, TaskInv
<1>4. k \in Token
  BY <1>1, <1>3 DEF Busy, Token
<1>5. TypeOK'
  BY <1>2, <1>4 DEF IInv, TypeOK
<1>6. TasksChecked'
  <2> SUFFICES ASSUME NEW u \in Tasks
               PROVE  TaskInv(task'[u], purchases', rows')
    BY DEF TasksChecked, TaskInv, ConfirmChecked, IngestChecked, ClaimChecked
  <2>1. CASE u = t
    BY <1>2, <2>1 DEF IInv, TypeOK, TaskInv, Idle
  <2>2. CASE u # t
    <3>1. task'[u] = task[u] /\ TaskInv(task[u], purchases, rows)
      BY <1>2, <2>2 DEF IInv, TypeOK, TasksChecked
    <3>. QED  BY <1>2, <3>1, TaskInvGrows
  <2>. QED  BY <2>1, <2>2
<1>7. CredentialsValidated'
  BY <1>2 DEF IInv, CredentialsValidated, ValidRoot, PaidRoot,
              MaySignReceipt, G!ValidGrant, G!MayIssue
<1>8. \/ \E r \in purchases :
           /\ Rcpt[r].buyer = k.buyer
           /\ PublisherOf[Rcpt[r].coord] = PublisherOf[k.coord]
      \/ \E e \in rows : Ev[e].recipient = k.buyer /\ Ev[e].coord = k.coord
  BY <1>1 DEF StoreToken, TaskInv, ConfirmChecked, ClaimChecked
<1>9. TokenFollowsCredential'
  BY <1>2, <1>8 DEF IInv, TokenFollowsCredential
<1>. QED  BY <1>5, <1>6, <1>7, <1>9 DEF IInv

LEMMA SwitchAccountKeeps ==
  ASSUME IInv, NEW b \in Buyers \cup {NoEvent}, SwitchAccount(b)
  PROVE  IInv'
<1>1. active' = b /\ UNCHANGED <<purchases, rows, tokens, task>>
  BY DEF SwitchAccount
<1>2. TypeOK'
  BY <1>1 DEF IInv, TypeOK
<1>3. TasksChecked'
  <2> SUFFICES ASSUME NEW u \in Tasks
               PROVE  TaskInv(task'[u], purchases', rows')
    BY DEF TasksChecked, TaskInv, ConfirmChecked, IngestChecked, ClaimChecked
  <2>. QED  BY <1>1 DEF IInv, TasksChecked
<1>. QED  BY <1>1, <1>2, <1>3, TablesUnchanged DEF IInv

LEMMA StutterKeeps ==
  ASSUME IInv, UNCHANGED vars
  PROVE  IInv'
<1>1. UNCHANGED <<active, purchases, rows, tokens, task>>
  BY DEF vars
<1>2. TypeOK'
  BY <1>1 DEF IInv, TypeOK
<1>3. TasksChecked'
  <2> SUFFICES ASSUME NEW u \in Tasks
               PROVE  TaskInv(task'[u], purchases', rows')
    BY DEF TasksChecked, TaskInv, ConfirmChecked, IngestChecked, ClaimChecked
  <2>. QED  BY <1>1 DEF IInv, TasksChecked
<1>. QED  BY <1>1, <1>2, <1>3, TablesUnchanged DEF IInv

LEMMA InductiveInit == Init => IInv
BY DEF Init, IInv, TypeOK, TasksChecked, TaskInv, Idle,
       CredentialsValidated, TokenFollowsCredential

LEMMA InductiveStep == IInv /\ [Next]_vars => IInv'
<1> SUFFICES ASSUME IInv, [Next]_vars PROVE IInv'
  OBVIOUS
<1>1. CASE \E b \in Buyers \cup {NoEvent} : SwitchAccount(b)
  BY <1>1, SwitchAccountKeeps
<1>2. ASSUME NEW t \in Tasks, NEW c \in Coords, NEW s \in Servers,
             NEW p \in Payments, BeginConfirm(t, c, s, p)
      PROVE  IInv'
  BY <1>2, BeginConfirmKeeps
<1>3. ASSUME NEW t \in Tasks, NEW r \in Receipts,
             NEW a \in AuthViews \cup {NoEvent}, ConfirmAnswered(t, r, a)
      PROVE  IInv'
  BY <1>3, ConfirmAnsweredKeeps
<1>4. ASSUME NEW t \in Tasks, NEW c \in Coords, NEW s \in Servers,
             NEW v \in Campaigns, BeginClaim(t, c, s, v)
      PROVE  IInv'
  BY <1>4, BeginClaimKeeps
<1>5. ASSUME NEW t \in Tasks, NEW e \in Events,
             NEW a \in AuthViews \cup {NoEvent}, ClaimAnswered(t, e, a)
      PROVE  IInv'
  BY <1>5, ClaimAnsweredKeeps
<1>6. ASSUME NEW t \in Tasks, NEW r \in Receipts, BeginIngest(t, r)
      PROVE  IInv'
  BY <1>6, BeginIngestKeeps
<1>7. ASSUME NEW t \in Tasks,
             Commit(t) \/ ReadChain(t) \/ Fail(t)
      PROVE  IInv'
  BY <1>7, CommitKeeps, ReadChainKeeps, FailKeeps
<1>8. ASSUME NEW t \in Tasks,
             StoreReceipt(t) \/ InsertGrant(t) \/ StoreToken(t)
      PROVE  IInv'
  BY <1>8, StoreReceiptKeeps, InsertGrantKeeps, StoreTokenKeeps
<1>9. CASE UNCHANGED vars
  BY <1>9, StutterKeeps
<1>. QED
  BY <1>1, <1>2, <1>3, <1>4, <1>5, <1>6, <1>7, <1>8, <1>9 DEF Next

-----------------------------------------------------------------------------
(* The inductive invariant holds in every reachable state. *)
THEOREM Invariance == Spec => []IInv
BY InductiveInit, InductiveStep, PTL DEF Spec

(* The tables and the commands in progress are always well formed. *)
THEOREM TypeCorrect == Spec => []TypeOK
<1>1. IInv => TypeOK
  BY DEF IInv
<1>. QED  BY <1>1, Invariance, PTL

(* Nothing unvalidated is ever stored (persist_purchase_confirmation,      *)
(* claim_entitlement, ingest_receipt).                                     *)
THEOREM OnlyValidated == Spec => []CredentialsValidated
<1>1. IInv => CredentialsValidated
  BY DEF IInv
<1>. QED  BY <1>1, Invariance, PTL

(* A download token never exists without the credential it came with,      *)
(* whatever fails and however commands interleave.                         *)
THEOREM TokensFollowCredentials == Spec => []TokenFollowsCredential
<1>1. IInv => TokenFollowsCredential
  BY DEF IInv
<1>. QED  BY <1>1, Invariance, PTL

-----------------------------------------------------------------------------
(***************************************************************************)
(* Refinement of CredentialStore                                           *)
(***************************************************************************)

(* Storing a valid receipt is a Hold step of the store. *)
LEMMA ReceiptHeld ==
  ASSUME NEW r \in ValidReceipts, purchases' = purchases \cup {r},
         UNCHANGED <<rows, tokens>>
  PROVE  Store!Hold
<1>1. <<"receipt", r>> \in Credentials(ValidReceipts, ValidGrants)
  BY DEF Credentials
<1>2. Credentials(purchases', rows')
        = Credentials(purchases, rows) \cup {<<"receipt", r>>}
  BY DEF Credentials
<1>. QED  BY <1>1, <1>2 DEF Store!Hold, Credentials, ValidReceipts, ValidGrants

LEMMA GrantHeld ==
  ASSUME NEW e \in ValidGrants, rows' = rows \cup {e},
         UNCHANGED <<purchases, tokens>>
  PROVE  Store!Hold
<1>1. <<"grant", e>> \in Credentials(ValidReceipts, ValidGrants)
  BY DEF Credentials
<1>2. Credentials(purchases', rows')
        = Credentials(purchases, rows) \cup {<<"grant", e>>}
  BY DEF Credentials
<1>. QED  BY <1>1, <1>2 DEF Store!Hold, Credentials, ValidReceipts, ValidGrants

(* What is held was valid: CredentialsValidated in the terms of the store. *)
LEMMA HeldIsValid ==
  ASSUME IInv
  PROVE  Credentials(purchases, rows) \subseteq Credentials(ValidReceipts, ValidGrants)
<1>1. purchases \subseteq ValidReceipts
  BY DEF IInv, TypeOK, CredentialsValidated, ValidReceipts
<1>2. rows \subseteq ValidGrants
  BY DEF IInv, TypeOK, CredentialsValidated, ValidGrants
<1>. QED  BY <1>1, <1>2 DEF Credentials

(* A token for a credential that is held is an Issue step of the store. *)
LEMMA TokenIssued ==
  ASSUME IInv, NEW c \in Credentials(purchases, rows), NEW k \in TokensOf(c),
         tokens' = tokens \cup {k}, UNCHANGED <<purchases, rows>>
  PROVE  Store!Issue
<1>1. c \in Credentials(ValidReceipts, ValidGrants)
  BY HeldIsValid
<1>2. [d \in Credentials(ValidReceipts, ValidGrants) |-> TokensOf(d)][c] = TokensOf(c)
  BY <1>1
<1>3. Credentials(purchases', rows') = Credentials(purchases, rows)
  OBVIOUS
<1>. QED  BY <1>2, <1>3 DEF Store!Issue

LEMMA StoreReceiptHolds ==
  ASSUME IInv, NEW t \in Tasks, StoreReceipt(t)
  PROVE  Store!Hold
<1>1. task[t] \in Busy /\ TaskInv(task[t], purchases, rows)
  BY BusyTask DEF StoreReceipt
<1>2. task[t].cred \in ValidReceipts
  BY <1>1 DEF StoreReceipt, TaskInv, ConfirmChecked, IngestChecked, Busy, ValidReceipts
<1>. QED  BY <1>2, ReceiptHeld DEF StoreReceipt

LEMMA InsertGrantHolds ==
  ASSUME IInv, NEW t \in Tasks, InsertGrant(t)
  PROVE  Store!Hold
<1>1. task[t] \in Busy /\ TaskInv(task[t], purchases, rows)
  BY BusyTask DEF InsertGrant
<1>2. ClaimChecked(task[t]) /\ task[t].auth \in AuthViews \cup {NoEvent}
  BY <1>1 DEF InsertGrant, TaskInv, Busy
<1>3. task[t].cred \in ValidGrants
  BY <1>2 DEF ClaimChecked, ValidGrants
<1>. QED  BY <1>3, GrantHeld DEF InsertGrant

(* Between the two writes of a command the first one is what the second    *)
(* rests on: the credential is still there when the token is stored.       *)
LEMMA StoreTokenIssues ==
  ASSUME IInv, NEW t \in Tasks, StoreToken(t)
  PROVE  Store!Issue
<1> DEFINE k == [buyer |-> task[t].buyer, coord |-> task[t].coord,
                 server |-> task[t].server]
<1>1. task[t] \in Busy /\ TaskInv(task[t], purchases, rows)
  BY BusyTask DEF StoreToken
<1>2. k \in Token
  BY <1>1 DEF StoreToken, TaskInv, Busy, Token
<1>3. tokens' = tokens \cup {k} /\ UNCHANGED <<purchases, rows>>
  BY DEF StoreToken
<1>4. CASE task[t].kind = "confirm" /\ task[t].cred \in purchases
  <2>1. ConfirmChecked(task[t])
    BY <1>1, <1>4 DEF StoreToken, TaskInv
  <2>2. k \in TokensOf(<<"receipt", task[t].cred>>)
    BY <1>2, <2>1 DEF ConfirmChecked, TokensOf
  <2>3. <<"receipt", task[t].cred>> \in Credentials(purchases, rows)
    BY <1>4 DEF Credentials
  <2>. QED  BY <1>3, <2>2, <2>3, TokenIssued
<1>5. CASE task[t].kind = "claim" /\ task[t].cred \in rows
  <2>1. ClaimChecked(task[t])
    BY <1>1, <1>5 DEF StoreToken, TaskInv
  <2>2. k \in TokensOf(<<"grant", task[t].cred>>)
    BY <1>2, <2>1 DEF ClaimChecked, TokensOf
  <2>3. <<"grant", task[t].cred>> \in Credentials(purchases, rows)
    BY <1>5 DEF Credentials
  <2>. QED  BY <1>3, <2>2, <2>3, TokenIssued
<1>. QED  BY <1>1, <1>4, <1>5 DEF StoreToken, TaskInv

(* Every other step of a command leaves the store alone. *)
LEMMA StoreStutters ==
  ASSUME NEW t \in Tasks,
         \/ \E c \in Coords, s \in Servers, p \in Payments : BeginConfirm(t, c, s, p)
         \/ \E r \in Receipts, a \in AuthViews \cup {NoEvent} : ConfirmAnswered(t, r, a)
         \/ \E c \in Coords, s \in Servers, v \in Campaigns : BeginClaim(t, c, s, v)
         \/ \E e \in Events, a \in AuthViews \cup {NoEvent} : ClaimAnswered(t, e, a)
         \/ \E r \in Receipts : BeginIngest(t, r)
         \/ Commit(t) \/ ReadChain(t) \/ Fail(t)
  PROVE  UNCHANGED <<purchases, rows, tokens>>
<1>1. \A k : Become(t, k) => UNCHANGED <<purchases, rows, tokens>>
  BY DEF Become
<1>. QED  BY <1>1, Zenon
     DEF BeginConfirm, ConfirmAnswered, BeginClaim, ClaimAnswered, BeginIngest, Commit,
         ReadChain, Fail

LEMMA StoreInit ==
  ASSUME Init
  PROVE  Store!Init
BY DEF Init, Store!Init, Credentials

LEMMA StoreStep ==
  ASSUME IInv, [Next]_vars
  PROVE  [Store!Next]_(Store!vars)
<1>1. ASSUME UNCHANGED <<purchases, rows, tokens>>
      PROVE  [Store!Next]_(Store!vars)
  BY <1>1 DEF Store!vars
<1>2. ASSUME NEW t \in Tasks,
             StoreReceipt(t) \/ InsertGrant(t) \/ StoreToken(t)
      PROVE  Store!Next
  BY <1>2, StoreReceiptHolds, InsertGrantHolds, StoreTokenIssues DEF Store!Next
<1>3. CASE UNCHANGED vars \/ \E b \in Buyers \cup {NoEvent} : SwitchAccount(b)
  BY <1>1, <1>3 DEF vars, SwitchAccount
<1>. QED  BY <1>1, <1>2, <1>3, StoreStutters DEF Next

(* The commands implement the store: whatever interleaves, fails or        *)
(* switches the account, every write is the holding of one validated       *)
(* credential or the issuing of one token of a credential already held.    *)
THEOREM ImplementsStore == Spec => StoresCredentials
<1>1. Spec => Store!Spec
  BY Invariance, StoreInit, StoreStep, PTL DEF Spec, Store!Spec
<1>. QED  BY <1>1 DEF StoresCredentials

-----------------------------------------------------------------------------
(* An order that grants ownership has a paid root among its rows. *)
LEMMA OwnedOrderHasRow ==
  ASSUME NEW S, GrantsOwnership(S)
  PROVE  S # {}
<1> DEFINE roots == {r \in S : PaidRoot(r)}
<1>1. Cardinality(roots) = 1
  BY DEF GrantsOwnership, PersistedTip
<1>2. Cardinality({}) = 0
  BY FS_EmptySet
<1>3. roots # {}
  BY <1>1, <1>2
<1>. QED  BY <1>3

(* A grant that resolves to granted has its root among its rows. *)
LEMMA OwnedGrantHasRow ==
  ASSUME NEW S, G!Status(S) = "granted"
  PROVE  S # {}
BY DEF G!Status, G!Resolves

(* OwnershipService never reports a game as owned without a validated      *)
(* credential of that account for that game.                               *)
THEOREM OwnershipEarned == Spec => []OwnershipIsEarned
<1>1. IInv => OwnershipIsEarned
  <2> SUFFICES ASSUME IInv, NEW b \in Buyers, NEW c \in Coords, Owned(b, c)
               PROVE
      \/ \E r \in purchases :
           /\ Rcpt[r].buyer = b /\ Rcpt[r].coord = c
           /\ \E a \in AuthViews \cup {NoEvent} :
                ValidRoot(r, PublisherOf[c], a)
      \/ \E e \in rows :
           /\ Ev[e].recipient = b /\ Ev[e].coord = c
           /\ \E v \in Campaigns, a \in AuthViews \cup {NoEvent} :
                G!ValidGrant(e, v, a)
    BY DEF OwnershipIsEarned
  <2>1. G!IsOwned(rows, b, c) \/ OwnedByReceipt(purchases, b, c)
    BY DEF Owned, OwnershipSource
  <2>2. CASE G!IsOwned(rows, b, c)
    <3>1. PICK g \in GrantIds :
            G!Status(G!Stored(rows, b, c, g)) = "granted"
      BY <2>2 DEF G!IsOwned, G!GrantStatus
    <3>2. PICK e \in G!Stored(rows, b, c, g) : TRUE
      BY <3>1, OwnedGrantHasRow
    <3>3. e \in rows /\ Ev[e].recipient = b /\ Ev[e].coord = c
      BY <3>2 DEF G!Stored, G!SameGrant
    <3>. QED  BY <3>3 DEF IInv, CredentialsValidated
  <2>3. CASE OwnedByReceipt(purchases, b, c)
    <3>1. PICK o \in Orders : GrantsOwnership(OrderRows(purchases, b, c, o))
      BY <2>3 DEF OwnedByReceipt
    <3>2. PICK r \in OrderRows(purchases, b, c, o) : TRUE
      BY <3>1, OwnedOrderHasRow
    <3>3. r \in purchases /\ Rcpt[r].buyer = b /\ Rcpt[r].coord = c
      BY <3>2 DEF OrderRows
    <3>. QED  BY <3>3 DEF IInv, CredentialsValidated
  <2>. QED  BY <2>1, <2>2, <2>3
<1>. QED  BY <1>1, Invariance, PTL

(* No command ever takes a row from a table. *)
LEMMA TablesGrow ==
  ASSUME [Next]_vars
  PROVE  purchases \subseteq purchases' /\ rows \subseteq rows'
<1>1. \A t \in Tasks : \A k : Become(t, k) => UNCHANGED <<purchases, rows>>
  BY DEF Become
<1>2. ASSUME NEW t \in Tasks,
             \/ \E c \in Coords, s \in Servers, p \in Payments : BeginConfirm(t, c, s, p)
             \/ \E r \in Receipts, a \in AuthViews \cup {NoEvent} : ConfirmAnswered(t, r, a)
             \/ \E c \in Coords, s \in Servers, v \in Campaigns : BeginClaim(t, c, s, v)
             \/ \E e \in Events, a \in AuthViews \cup {NoEvent} : ClaimAnswered(t, e, a)
             \/ \E r \in Receipts : BeginIngest(t, r)
             \/ Commit(t) \/ ReadChain(t) \/ Fail(t)
      PROVE  UNCHANGED <<purchases, rows>>
  BY <1>1, <1>2, Zenon
     DEF BeginConfirm, ConfirmAnswered, BeginClaim, ClaimAnswered, BeginIngest, Commit,
         ReadChain, Fail
<1>3. ASSUME NEW t \in Tasks, StoreReceipt(t) \/ InsertGrant(t) \/ StoreToken(t)
      PROVE  purchases \subseteq purchases' /\ rows \subseteq rows'
  BY <1>3 DEF StoreReceipt, InsertGrant, StoreToken
<1>4. CASE UNCHANGED vars \/ \E b \in Buyers \cup {NoEvent} : SwitchAccount(b)
  BY <1>4 DEF vars, SwitchAccount
<1>. QED  BY <1>2, <1>3, <1>4 DEF Next

(* An order stops granting ownership only by another receipt of it, a      *)
(* grant only by another event of it; nothing else that is stored by any   *)
(* command for any account takes a game away.                              *)
THEOREM OwnershipKept == Spec => OwnershipLostOnlyByConflict
<1> DEFINE Kept ==
      purchases' # purchases \/ rows' # rows =>
        \A b \in Buyers, c \in Coords :
          Owned(b, c) /\ ~Owned(b, c)' =>
            \/ \E n \in purchases' \ purchases, r \in purchases :
                 /\ Rcpt[n].buyer = b /\ Rcpt[n].coord = c
                 /\ Rcpt[r].buyer = b /\ Rcpt[r].coord = c
                 /\ Rcpt[n].order = Rcpt[r].order
            \/ \E n \in rows' \ rows, e \in rows :
                 G!SameGrant(n, b, c, Ev[e].grant) /\ G!SameGrant(e, b, c, Ev[e].grant)
<1>1. ASSUME [Next]_vars  PROVE  Kept
  <2> SUFFICES ASSUME NEW b \in Buyers, NEW c \in Coords, Owned(b, c), ~Owned(b, c)'
               PROVE
      \/ \E n \in purchases' \ purchases, r \in purchases :
           /\ Rcpt[n].buyer = b /\ Rcpt[n].coord = c
           /\ Rcpt[r].buyer = b /\ Rcpt[r].coord = c
           /\ Rcpt[n].order = Rcpt[r].order
      \/ \E n \in rows' \ rows, e \in rows :
           G!SameGrant(n, b, c, Ev[e].grant) /\ G!SameGrant(e, b, c, Ev[e].grant)
    OBVIOUS
  <2>1. /\ G!IsOwned(rows, b, c) \/ OwnedByReceipt(purchases, b, c)
        /\ ~G!IsOwned(rows', b, c) /\ ~OwnedByReceipt(purchases', b, c)
    BY DEF Owned, OwnershipSource
  <2>2. purchases \subseteq purchases' /\ rows \subseteq rows'
    BY <1>1, TablesGrow
  <2>3. CASE G!IsOwned(rows, b, c)
    <3>1. PICK g \in GrantIds : G!Status(G!Stored(rows, b, c, g)) = "granted"
      BY <2>3 DEF G!IsOwned, G!GrantStatus
    <3>2. G!Stored(rows', b, c, g) # G!Stored(rows, b, c, g)
      BY <2>1, <3>1 DEF G!IsOwned, G!GrantStatus
    <3>3. PICK n \in rows' \ rows : G!SameGrant(n, b, c, g)
      BY <2>2, <3>2 DEF G!Stored
    <3>4. PICK e \in rows : G!SameGrant(e, b, c, g)
      BY <3>1, OwnedGrantHasRow DEF G!Stored
    <3>5. Ev[e].grant = g
      BY <3>4 DEF G!SameGrant
    <3>. QED  BY <3>3, <3>4, <3>5
  <2>4. CASE OwnedByReceipt(purchases, b, c)
    <3>1. PICK o \in Orders : GrantsOwnership(OrderRows(purchases, b, c, o))
      BY <2>4 DEF OwnedByReceipt
    <3>2. OrderRows(purchases', b, c, o) # OrderRows(purchases, b, c, o)
      BY <2>1, <3>1 DEF OwnedByReceipt
    <3>3. PICK n \in purchases' \ purchases :
            Rcpt[n].buyer = b /\ Rcpt[n].coord = c /\ Rcpt[n].order = o
      BY <2>2, <3>2 DEF OrderRows
    <3>4. PICK r \in purchases :
            Rcpt[r].buyer = b /\ Rcpt[r].coord = c /\ Rcpt[r].order = o
      BY <3>1, OwnedOrderHasRow DEF OrderRows
    <3>. QED  BY <3>3, <3>4
  <2>. QED  BY <2>1, <2>3, <2>4
<1>2. Spec => [][Kept]_vars
  BY <1>1, PTL DEF Spec
<1>. QED  BY <1>2 DEF OwnershipLostOnlyByConflict
=============================================================================
