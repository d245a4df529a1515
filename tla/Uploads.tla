------------------------------ MODULE Uploads -------------------------------
(***************************************************************************)
(* Uploading a media file into the Store Page draft: the upload dialog     *)
(* (app, blossom_media_upload.rs), the commands it calls                   *)
(* (blossom_commands.rs) and the upload service (blossom_upload.rs).       *)
(*                                                                         *)
(* The service keeps picked files in a registry of selections, running     *)
(* uploads with their cancellation tokens in `active' and the commands     *)
(* behind them in `operations'; each map has a lock of its own.  Every     *)
(* await of a command is a place where the account, the file, another      *)
(* command or the dialog may move.  The dialog starts asynchronous jobs    *)
(* that outlive what it shows and are told apart by a session number, the  *)
(* context generation of the editor, the selection and the request.        *)
(*                                                                         *)
(* A content stands for its SHA-256; length and modification time of a     *)
(* file are one stamp.  Blossom servers, relays of signers and the file    *)
(* picker answer, fail or time out.                                        *)
(***************************************************************************)
EXTENDS Naturals, FiniteSets

CONSTANTS
  Accounts, Publisher,   \* the publisher of the Store Page is one of them
  Media, Fits,           \* file contents; those whose type fits the media role
  Nothing,               \* no account, content or draft item
  MaxSelections,         \* capacity of the registry (32 in the code)
  MaxPicks,              \* bound: files picked
  MaxRequests,           \* bound: uploads asked for
  MaxJobs,               \* bound: tasks of the dialog at a time
  Limits                 \* what may happen in one behaviour

ASSUME UploadsAssumption ==
  /\ Publisher \in Accounts /\ Nothing \notin Accounts \cup Media
  /\ Fits \subseteq Media /\ Fits # {}
  /\ MaxSelections \in Nat \ {0}
  /\ MaxPicks \in Nat /\ MaxRequests \in Nat /\ MaxJobs \in Nat
  /\ Limits \subseteq [ picks : 0 .. MaxPicks, requests : 0 .. MaxRequests,
                       jobs : 0 .. MaxJobs, opens : Nat, moves : Nat ]

(* Bounds: files picked, uploads asked for, tasks at a time, openings of   *)
(* the dialog, and switches, loads and writes together.                    *)
Limit(nPicks, nRequests, nJobs, nOpens, nMoves) ==
  [picks |-> nPicks, requests |-> nRequests, jobs |-> nJobs, opens |-> nOpens, moves |-> nMoves]

Picks == 1 .. MaxPicks
Requests == 1 .. MaxRequests
Jobs == 1 .. MaxJobs

VARIABLES
  auth,      \* the account of the AuthState
  shown,     \* auth.npub of the user interface, which follows
  context,   \* upload_context_generation of the editor
  draft,     \* the media item of the role in the draft
  file,      \* the file on disk
  registry,  \* stamp of each registered selection, 0 when it is not
  stored,    \* contents the server holds from the publisher
  up,        \* the upload task of each request
  job,       \* the pick and discard tasks of the dialog
  ui,        \* the dialog
  limit,     \* the bounds of this behaviour
  picks, opens, moves,  \* how much of them is used
  forged,    \* history: a write kept length and modification time
  gaveUp,    \* history: requests the user, a switch or a load abandoned
  crossed    \* history: a task of the past changed what the dialog shows

dialog == <<ui, gaveUp, crossed>>
service == <<registry, stored, up>>
env == <<limit, auth, shown, context, file, forged, moves>>
uploadVars == <<env, draft, service, job, dialog, picks, opens>>

NoSelection == [id |-> 0, seen |-> Nothing, preview |-> Nothing]
NoUpload == [at |-> "new", sel |-> NoSelection, session |-> 0, account |-> Nothing,
             gen |-> 0, stamp |-> 0, kind |-> Nothing, hash |-> Nothing, opened |-> Nothing,
             sent |-> Nothing, claim |-> Nothing, op |-> FALSE, active |-> FALSE,
             token |-> FALSE, why |-> "none"]
NoJob == [at |-> "free", upload |-> 0, sel |-> 0, ops |-> {}, pick |-> FALSE,
          full |-> FALSE, session |-> 0, account |-> Nothing, gen |-> 0,
          found |-> NoSelection, why |-> "none"]

(* ensure_account, verify_publisher: the account of the AuthState. *)
AccountOk == auth = Publisher

(* Mutant: only the length is compared. *)
UnchangedAlways(stamp) == stamp # 0

(* ensure_unchanged. *)
Unchanged(stamp) == file.stamp = stamp

Request(r, k) == up' = [up EXCEPT ![r] = k]
At(r, l) == up[r].at = l

-----------------------------------------------------------------------------
(* The upload command, in the order of its awaits.                         *)

(* run_upload up to the entry in `operations': a selection has one upload. *)
Start(r) ==
  /\ At(r, "start") /\ AccountOk
  /\ \A q \in Requests : up[q].op => up[q].sel.id # up[r].sel.id
  /\ Request(r, [up[r] EXCEPT !.at = "activate", !.op = TRUE])
  /\ UNCHANGED <<registry, stored>>

(* BlossomUploadService::upload: the token enters `active'. *)
Activate(r) ==
  /\ At(r, "activate")
  /\ Request(r, [up[r] EXCEPT !.at = "select", !.active = TRUE])
  /\ UNCHANGED <<registry, stored>>

(* selection() clones the entry; inspect_entry reads the type. *)
Select(r) ==
  /\ At(r, "select") /\ AccountOk
  /\ registry[up[r].sel.id] # 0
  /\ Unchanged(registry[up[r].sel.id])
  /\ Request(r, [up[r] EXCEPT !.at = "hash", !.stamp = registry[up[r].sel.id],
                              !.kind = file.content])
  /\ UNCHANGED <<registry, stored>>

(* hash_file and the account check that follows it. *)
HashFile(r) ==
  /\ At(r, "hash") /\ AccountOk
  /\ Unchanged(up[r].stamp)
  /\ Request(r, [up[r] EXCEPT !.at = "sign", !.hash = file.content])
  /\ UNCHANGED <<registry, stored>>

(* The destination is resolved, the active signer must be the publisher's  *)
(* and signs, verify_authorization accepts the event, the server may be    *)
(* asked first (preflight); then the account and the file are checked once *)
(* more and the file is opened.                                            *)
Sign(r) ==
  /\ At(r, "sign") /\ AccountOk
  /\ Unchanged(up[r].stamp)
  /\ Request(r, [up[r] EXCEPT !.at = "send", !.opened = file.content])
  /\ UNCHANGED <<registry, stored>>

(* PUT: the body is read from the open file, or from what has been written *)
(* into it.  The server stores the body; its descriptor names the hash of  *)
(* the body or repeats the one of the request.                             *)
Send(r) ==
  /\ At(r, "send")
  /\ \E body \in {up[r].opened, file.content} :
       /\ stored' = stored \cup {body}
       /\ \E claim \in {up[r].hash, body} :
            Request(r, [up[r] EXCEPT !.at = "finish", !.sent = body, !.claim = claim])
  /\ UNCHANGED registry

(* The guards of the command are dropped; the answer says what it did. *)
Ended(k, why) ==
  LET gone == [NoUpload EXCEPT !.at = "back", !.why = why, !.sel = k.sel,
                 !.session = k.session, !.account = k.account, !.gen = k.gen]
  IN  IF why = "ok" THEN [gone EXCEPT !.kind = k.kind, !.hash = k.hash] ELSE gone

(* Mutant: the server's word is enough. *)
VerifiedByServer(k) == k.claim = k.hash

(* The hash of the streamed body and the descriptor. *)
Verified(k) == k.sent = k.hash /\ k.claim = k.hash

Finish(r) ==
  /\ At(r, "finish") /\ AccountOk
  /\ Verified(up[r])
  /\ Unchanged(up[r].stamp)
  /\ registry' = [registry EXCEPT ![up[r].sel.id] = 0]
  /\ Request(r, Ended(up[r], "ok"))
  /\ UNCHANGED stored

(* A check fails, or a file, network, signer or settings operation does;   *)
(* the body of a failed PUT may have reached the server.                   *)
UploadFails(r) ==
  /\ up[r].at \in {"start", "select", "hash", "sign", "send", "finish"}
  /\ stored' \in IF At(r, "send") THEN {stored, stored \cup {up[r].opened}} ELSE {stored}
  /\ Request(r, Ended(up[r], "failed"))
  /\ UNCHANGED registry

(* The token ends any await that listens to it. *)
Cancelled(r) ==
  /\ up[r].token
  /\ up[r].at \in {"select", "hash", "sign", "send", "finish"}
  /\ stored' \in IF At(r, "send") THEN {stored, stored \cup {up[r].opened}} ELSE {stored}
  /\ Request(r, Ended(up[r], "cancelled"))
  /\ UNCHANGED registry

-----------------------------------------------------------------------------
(* The dialog.                                                             *)

(* Tasks are interchangeable: a new one takes the first free place. *)
Free(j) == j <= limit.jobs /\ job[j].at = "free" /\ \A i \in Jobs : i < j => job[i].at # "free"
Spawn(j, k) == job' = [job EXCEPT ![j] = k]

(* cancel_blossom_upload for an upload that has been heard of, then        *)
(* discard_blossom_media_selection for the selection.                      *)
Drop(upload, s) ==
  [NoJob EXCEPT !.at = IF upload # 0 THEN "cancel" ELSE IF s # 0 THEN "stop" ELSE "free",
                !.upload = upload, !.sel = s]

Pending(r) == r # 0 /\ up[r].at \notin {"new", "done"}

Abandoned == {r \in gaveUp \cup {ui.request} : Pending(r)}

(* A closed dialog: what opening sets anyway is left out. *)
Closed(session) ==
  [ open |-> FALSE, session |-> session, account |-> Nothing, gen |-> 0, state |-> "idle",
    sel |-> NoSelection, request |-> 0, upload |-> 0, alive |-> FALSE, listener |-> 0 ]

(* dialog_role is set: a new session, and the picker opens. *)
Open(j) ==
  /\ ~ui.open /\ Free(j) /\ opens < limit.opens
  /\ opens' = opens + 1
  /\ LET refused == shown = Nothing \/ draft # Nothing IN
     /\ ui' = [ui EXCEPT !.open = TRUE, !.session = @ + 1, !.account = shown, !.gen = context,
                         !.state = IF refused THEN "failed" ELSE "selecting",
                         !.request = 0, !.upload = 0, !.alive = TRUE, !.listener = 0]
     /\ Spawn(j, IF refused THEN NoJob
                 ELSE [NoJob EXCEPT !.at = "ask", !.pick = TRUE, !.full = TRUE,
                         !.session = ui.session + 1, !.account = shown, !.gen = context])
  /\ UNCHANGED <<env, draft, service, picks, gaveUp, crossed>>

(* choose_another: the current selection is discarded, then the picker. *)
ChooseAnother(j) ==
  /\ ui.open /\ Free(j)
  /\ IF ui.sel.id # 0 THEN ui.state # "uploading" ELSE ui.state # "selecting"
  /\ ui' = [ui EXCEPT !.state = "selecting"]
  /\ Spawn(j, [NoJob EXCEPT !.at = IF ui.sel.id # 0 THEN "stop" ELSE "ask",
                            !.sel = ui.sel.id, !.pick = TRUE,
                            !.session = ui.session, !.account = ui.account])
  /\ UNCHANGED <<env, draft, service, picks, opens, gaveUp, crossed>>

(* The Upload or Retry button. *)
Click(r) ==
  /\ ui.open /\ ui.state # "uploading" /\ ui.sel.id # 0
  /\ ui.sel.seen \in Fits /\ draft = Nothing /\ ui.account # Nothing
  /\ r <= limit.requests /\ At(r, "new") /\ \A q \in 1 .. r - 1 : ~At(q, "new")
  /\ ui' = [ui EXCEPT !.state = "uploading", !.request = r, !.upload = 0,
                      !.alive = TRUE, !.listener = 0]
  /\ Request(r, [NoUpload EXCEPT !.at = "listen", !.sel = ui.sel, !.session = ui.session,
                                 !.account = ui.account, !.gen = ui.gen])
  /\ UNCHANGED <<env, draft, registry, stored, job, picks, opens, gaveUp, crossed>>

Done == [NoUpload EXCEPT !.at = "done"]

(* The request the dialog shows. *)
Wanted(k) == ui.alive /\ ui.session = k.session /\ ui.open

(* listen_blossom_upload_progress answers: whoever is still wanted calls   *)
(* the command.                                                            *)
Listen(r) ==
  /\ At(r, "listen")
  /\ IF Wanted(up[r])
     THEN /\ ui' = [ui EXCEPT !.listener = r]
          /\ Request(r, [up[r] EXCEPT !.at = "start"])
     ELSE /\ UNCHANGED ui
          /\ Request(r, Done)
  /\ UNCHANGED <<env, draft, registry, stored, job, picks, opens, gaveUp, crossed>>

(* Mutant: the failure is only logged. *)
ListenFailsSilently(r) ==
  /\ At(r, "listen")
  /\ UNCHANGED ui
  /\ Request(r, Done)
  /\ UNCHANGED <<env, draft, registry, stored, job, picks, opens, gaveUp, crossed>>

ListenFails(r) ==
  /\ At(r, "listen")
  /\ ui' = [ui EXCEPT !.state = "failed"]
  /\ Request(r, Done)
  /\ UNCHANGED <<env, draft, registry, stored, job, picks, opens, gaveUp, crossed>>

Current(k) == shown = k.account /\ context = k.gen /\ ui.session = k.session

(* The first progress event of the request names the upload.  (A later one *)
(* that arrives after the command ended names nothing that can be stopped.)*)
Hear(r) ==
  /\ ui.listener = r /\ ui.upload = 0
  /\ up[r].op /\ up[r].active /\ ~At(r, "select")
  /\ Current(up[r])
  /\ ui' = [ui EXCEPT !.upload = r]
  /\ UNCHANGED <<env, draft, service, job, picks, opens, gaveUp, crossed>>

(* Mutant: the answer is matched by selection and request alone. *)
AcceptsRequest(r) ==
  ui.open /\ ui.sel.id = up[r].sel.id /\ ui.request = r

(* accepts_completion. *)
AcceptsCompletion(r) ==
  Current(up[r]) /\ ui.open /\ ui.sel.id = up[r].sel.id /\ ui.request = r

(* The command returned.  Whoever waits for it or not, the listener that   *)
(* is installed now goes.                                                  *)
Back(r) ==
  /\ At(r, "back")
  /\ Request(r, Done)
  /\ crossed' = (crossed \/ \E q \in Requests : At(q, "listen") /\ Wanted(up[q]))
  /\ LET now == [ui EXCEPT !.alive = FALSE, !.listener = 0]
         takes == /\ up[r].why = "ok" /\ draft = Nothing /\ up[r].kind \in Fits
     IN  IF ~AcceptsCompletion(r)
         THEN ui' = now /\ UNCHANGED draft
         ELSE IF takes
         THEN /\ draft' = [hash |-> up[r].hash, preview |-> up[r].sel.preview, of |-> r]
              /\ ui' = Closed(ui.session)
         ELSE /\ ui' = [now EXCEPT !.state =
                          IF up[r].why = "cancelled" THEN "cancelled" ELSE "failed"]
              /\ UNCHANGED draft
  /\ UNCHANGED <<env, registry, stored, job, picks, opens, gaveUp>>

(* Cancel upload, cancel and close after the question, or close when       *)
(* nothing is uploading.                                                   *)
CancelUpload(j, close) ==
  /\ ui.open /\ Free(j)
  /\ close \/ ui.state = "uploading"
  /\ Spawn(j, Drop(ui.upload, ui.sel.id))
  /\ ui' = IF close THEN Closed(ui.session + 1)
           ELSE [ui EXCEPT !.alive = FALSE, !.listener = 0, !.session = @ + 1,
                           !.sel = NoSelection, !.upload = 0, !.request = 0,
                           !.state = "cancelled"]
  /\ gaveUp' = Abandoned
  /\ UNCHANGED <<env, draft, service, picks, opens, crossed>>

(* The effect that watches the account and the context of the editor. *)
React(j) ==
  /\ ui.open /\ Free(j)
  /\ ui.account # shown \/ ui.gen # context
  /\ Spawn(j, Drop(ui.upload, ui.sel.id))
  /\ ui' = Closed(ui.session + 1)
  /\ UNCHANGED <<env, draft, service, picks, opens, gaveUp, crossed>>

-----------------------------------------------------------------------------
(* The jobs of the dialog.                                                 *)

(* What follows the discarding of a selection. *)
AfterDrop(k) == IF k.pick THEN [k EXCEPT !.at = "clear"] ELSE NoJob

(* cancel_blossom_upload. *)
CancelById(j) ==
  /\ job[j].at = "cancel"
  /\ up' = [up EXCEPT ![job[j].upload].token = @ \/ up[job[j].upload].active]
  /\ Spawn(j, IF job[j].sel # 0 THEN [job[j] EXCEPT !.at = "stop"] ELSE NoJob)
  /\ UNCHANGED <<env, draft, registry, stored, dialog, picks, opens>>

(* discard_blossom_media_selection: the operations of the selection are    *)
(* collected and those that are active by then cancelled,                  *)
StopUploads(j) ==
  /\ job[j].at = "stop"
  /\ LET ops == {r \in Requests : up[r].op /\ up[r].sel.id = job[j].sel} IN
     /\ up' = [r \in Requests |->
                 IF r \in ops THEN [up[r] EXCEPT !.token = @ \/ up[r].active] ELSE up[r]]
     /\ Spawn(j, [job[j] EXCEPT !.at = "remove", !.ops = ops])
  /\ UNCHANGED <<env, draft, registry, stored, dialog, picks, opens>>

(* their entries are removed,                                              *)
RemoveOperations(j) ==
  /\ job[j].at = "remove"
  /\ up' = [r \in Requests |-> IF r \in job[j].ops THEN [up[r] EXCEPT !.op = FALSE] ELSE up[r]]
  /\ Spawn(j, [job[j] EXCEPT !.at = "clean", !.ops = {}])
  /\ UNCHANGED <<env, draft, registry, stored, dialog, picks, opens>>

(* and cleanup_selection_for forgets the file.                             *)
CleanSelection(j) ==
  /\ job[j].at = "clean"
  /\ registry' = [registry EXCEPT ![job[j].sel] = 0]
  /\ Spawn(j, AfterDrop(job[j]))
  /\ UNCHANGED <<env, draft, stored, up, dialog, picks, opens>>

ClearSelection(j) ==
  /\ job[j].at = "clear"
  /\ ui' = [ui EXCEPT !.sel = NoSelection]
  /\ gaveUp' = Abandoned
  /\ crossed' = (crossed \/ ui.sel.id \notin {0, job[j].sel})
  /\ Spawn(j, [job[j] EXCEPT !.at = "ask", !.sel = 0])
  /\ UNCHANGED <<env, draft, service, picks, opens>>

Registered == {s \in Picks : registry[s] # 0}
(* register_file: expired selections are pruned, and the oldest of those   *)
(* left makes room for the new one.                                        *)
Oldest(S) == CHOOSE s \in S : \A t \in S : s <= t

Register(s, alive) ==
  LET kept == IF Cardinality(alive) >= MaxSelections THEN alive \ {Oldest(alive)} ELSE alive
  IN  [t \in Picks |-> IF t = s THEN file.stamp ELSE IF t \in kept THEN registry[t] ELSE 0]

(* The user picks the file; the account is checked before and after. *)
Pick(j) ==
  /\ job[j].at = "ask" /\ AccountOk /\ picks < limit.picks
  /\ picks' = picks + 1
  /\ \E alive \in SUBSET Registered : registry' = Register(picks + 1, alive)
  /\ Spawn(j, [job[j] EXCEPT !.at = "inspect", !.sel = picks + 1])
  /\ UNCHANGED <<env, draft, stored, up, dialog, opens>>

(* The user closes the picker, or the command fails. *)
NoPick(j) ==
  /\ job[j].at = "ask"
  /\ \E why \in {"none", "failed"} : Spawn(j, [job[j] EXCEPT !.at = "back", !.why = why])
  /\ UNCHANGED <<env, draft, service, dialog, picks, opens>>

(* inspect_selection. *)
Inspect(j) ==
  /\ job[j].at = "inspect" /\ AccountOk
  /\ registry[job[j].sel] # 0 /\ Unchanged(registry[job[j].sel])
  /\ Spawn(j, [job[j] EXCEPT !.at = "preview",
                 !.found = [id |-> job[j].sel, seen |-> file.content, preview |-> Nothing]])
  /\ UNCHANGED <<env, draft, service, dialog, picks, opens>>

(* The file is read once more for the preview. *)
Preview(j) ==
  /\ job[j].at = "preview"
  /\ Spawn(j, [job[j] EXCEPT !.at = "back", !.why = "ok", !.sel = 0,
                             !.found.preview = file.content])
  /\ UNCHANGED <<env, draft, service, dialog, picks, opens>>

(* Either fails: the selection is cleaned up. *)
InspectFails(j) ==
  /\ job[j].at \in {"inspect", "preview"}
  /\ registry' = [registry EXCEPT ![job[j].sel] = 0]
  /\ Spawn(j, [job[j] EXCEPT !.at = "back", !.why = "failed", !.sel = 0, !.found = NoSelection])
  /\ UNCHANGED <<env, draft, stored, up, dialog, picks, opens>>

(* The answer of the picker: a stale one discards what was picked. *)
Picked(j) ==
  /\ job[j].at = "back"
  /\ LET k == job[j]
         wanted == /\ shown = k.account /\ ui.session = k.session /\ ui.open
                   /\ k.full => context = k.gen
     IN  IF ~wanted
         THEN Spawn(j, Drop(0, k.found.id)) /\ UNCHANGED ui
         ELSE /\ Spawn(j, NoJob)
              /\ ui' = CASE k.why = "failed" -> [ui EXCEPT !.state = "failed"]
                         [] k.why = "none" -> [ui EXCEPT !.state = "idle", !.sel = NoSelection]
                         [] k.why = "ok" ->
                              [ui EXCEPT !.sel = k.found,
                                 !.state = IF k.full /\ k.found.seen \notin Fits
                                           THEN "failed" ELSE "ready"]
  /\ UNCHANGED <<env, draft, service, picks, opens, gaveUp, crossed>>

-----------------------------------------------------------------------------
(* The world around the dialog.                                            *)

Moves == moves < limit.moves /\ moves' = moves + 1

(* A switch or logout of the account in the desktop backend. *)
Switch ==
  /\ Moves
  /\ auth' \in (Accounts \cup {Nothing}) \ {auth}
  /\ UNCHANGED <<limit, shown, context, file, forged, draft, service, job, dialog, picks, opens>>

(* The user interface follows; the editor starts a new context when the    *)
(* account is not the publisher's.                                         *)
Follow ==
  /\ shown # auth
  /\ shown' = auth
  /\ context' = IF auth = Publisher THEN context ELSE context + 1
  /\ gaveUp' = Abandoned
  /\ UNCHANGED <<limit, auth, file, forged, moves, draft, service, job, ui, picks, opens, crossed>>

(* A Store Page is loaded, cloned or linked: another draft. *)
Load ==
  /\ Moves
  /\ context' = context + 1
  /\ draft' = Nothing
  /\ gaveUp' = Abandoned
  /\ UNCHANGED <<limit, auth, shown, file, forged, service, job, ui, picks, opens, crossed>>

(* Another program writes the file.  The stamp tells, unless length and    *)
(* modification time stay.                                                 *)
Write ==
  /\ Moves
  /\ \E c \in Media \ {file.content}, tells \in BOOLEAN :
       /\ file' = [content |-> c, stamp |-> IF tells THEN file.stamp + 1 ELSE file.stamp]
       /\ forged' = (forged \/ ~tells)
  /\ UNCHANGED <<limit, auth, shown, context, draft, service, job, dialog, picks, opens>>

-----------------------------------------------------------------------------
UploadsInit ==
  /\ limit \in Limits
  /\ auth = Publisher /\ shown = Publisher
  /\ context = 0 /\ draft = Nothing
  /\ file \in [content : Media, stamp : {1}]
  /\ registry = [s \in Picks |-> 0]
  /\ stored = {}
  /\ up = [r \in Requests |-> NoUpload]
  /\ job = [j \in Jobs |-> NoJob]
  /\ ui = Closed(0)
  /\ picks = 0 /\ opens = 0 /\ moves = 0
  /\ forged = FALSE /\ gaveUp = {} /\ crossed = FALSE

Serve(r) ==
  /\ \/ Start(r) \/ Activate(r) \/ Select(r) \/ HashFile(r) \/ Sign(r)
     \/ Send(r) \/ Finish(r) \/ UploadFails(r) \/ Cancelled(r)
  /\ UNCHANGED <<env, draft, job, dialog, picks, opens>>

Upload(r) == Serve(r) \/ Listen(r) \/ ListenFails(r) \/ Back(r)

JobStep(j) ==
  \/ CancelById(j) \/ StopUploads(j) \/ RemoveOperations(j) \/ CleanSelection(j)
  \/ ClearSelection(j) \/ Inspect(j) \/ Preview(j) \/ InspectFails(j) \/ Picked(j)

User ==
  \/ \E j \in Jobs :
       \/ Open(j) \/ ChooseAnother(j) \/ Pick(j) \/ NoPick(j)
       \/ \E close \in BOOLEAN : CancelUpload(j, close)
  \/ \E r \in Requests : Click(r)

World == Switch \/ Follow \/ Load \/ Write

UploadsNext ==
  \/ \E r \in Requests : Upload(r) \/ Hear(r)
  \/ \E j \in Jobs : JobStep(j) \/ React(j)
  \/ User
  \/ World

UploadsSpec == UploadsInit /\ [][UploadsNext]_uploadVars

-----------------------------------------------------------------------------
(* What the dialog puts into the draft is on the server, byte for byte,    *)
(* whatever is written to the file while it is read three times, and even  *)
(* if the server only repeats the hash it is sent.                         *)
DraftIsStored == draft # Nothing => draft.hash \in stored

(* As long as writes change its length or time, the file that is uploaded  *)
(* is the one whose preview was made when it was picked.                   *)
PreviewIsUploaded == draft # Nothing /\ ~forged => draft.hash = draft.preview

(* The draft gains the item of a request only while the publisher waits    *)
(* for it: not after a cancellation, a switch of the account, another      *)
(* choice of file or a load of the page, even one that is undone again.    *)
OnlyAwaitedEnters ==
  [][draft' # draft /\ draft' # Nothing => draft'.of \notin gaveUp]_uploadVars

(* The dialog says Uploading only while its request is under way, the     *)
(* picker is open or the dialog is about to close, except for what tasks   *)
(* of the past do to it: the answer to an earlier request switches off the *)
(* listener a newer one is just installing, which then never starts, and a *)
(* late discard clears a newer selection.                                  *)
UploadingIsPending ==
  ui.open /\ ui.state = "uploading" /\ ~crossed =>
    \/ Pending(ui.request)
    \/ \E j \in Jobs : job[j].pick
    \/ ui.account # shown \/ ui.gen # context
=============================================================================
