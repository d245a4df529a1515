------------------------------ MODULE Sessions ------------------------------
(***************************************************************************)
(* Who signs.  An account is local (a row of accounts.db with its key) or  *)
(* remote (a NIP-46 profile of the keyring).  Which account signs is kept  *)
(* in five places that no lock joins: the is_active flags of the rows, the *)
(* last-active keyring entry, AppSignerState, AuthState, and the npub the  *)
(* UI shows.                                                               *)
(* The commands of desktop/src/nip46_commands.rs update them one after the *)
(* other.                                                                  *)
(*                                                                         *)
(* The UI runs one account command at a time (is_loading) and drops the    *)
(* answer of an abandoned flow (flow_generation).  Beside it run the QR    *)
(* poll, which survives its flow in the backend, the restore task of the   *)
(* startup, the connect tasks of activated profiles, and a publication.    *)
(***************************************************************************)
EXTENDS Naturals

CONSTANTS
  Locals,    \* accounts whose nsec is (or will be) in accounts.db
  Remotes,   \* accounts behind a bunker
  None,
  MaxOps     \* bound: commands the user starts, and restarts

ASSUME SessionsAssumption ==
  /\ Locals \cap Remotes = {}
  /\ None \notin Locals \cup Remotes
  /\ MaxOps \in Nat

VARIABLES
  rows,      \* local accounts in accounts.db
  flagged,   \* those with is_active = 1
  keyring,   \* remote profiles saved in the keyring and its index
  last,      \* the last-active entry of the keyring: a remote profile
  session,   \* AppSignerState: client, active_profile_id, connection_state, pending_qr
  auth,      \* whose signer AuthState holds
  tasks,     \* background connect tasks that have not reported
  cmd,       \* the account command in progress
  poll,      \* the check_qr_connection call of the QR flow
  restore,   \* restore_session_on_startup
  pub,       \* a publication in progress
  shown,     \* AuthContext.npub, the account the UI works for
  late,      \* history: remotes activated in the background, not shown since
  seen,      \* history: who was active while pub checked the account again
  out,       \* history: "in", "leaving" while the user logs out, "out" since
  ops        \* operations started

kept == <<rows, flagged, keyring, last>>
ui == <<shown, late, out>>
side == <<poll, restore, pub>>
vars == <<kept, session, auth, tasks, cmd, side, ui, seen, ops>>

Accounts == Locals \cup Remotes
Maybe(S) == S \cup {None}

(* active_profile_id is the profile id or the bunker key: QR login and the *)
(* restore write the one, bunker login and switch_profile the other.       *)
NoId == [of |-> None, by |-> "none"]
IdOf(r, by) == [of |-> r, by |-> by]

Cleared == [session EXCEPT !.client = None, !.id = NoId, !.conn = "Disconnected"]

(* resolve_active_signer: the client of AppSignerState wins over AuthState. *)
Resolved(client, a) == IF client # None THEN client ELSE a
Signer == Resolved(session.client, auth)

Idle == [op |-> "none", who |-> None, at |-> "idle"]
At(l) == cmd.at = l
Go(l) == cmd' = [cmd EXCEPT !.at = l]
NoPoll == [at |-> "idle", who |-> None, fresh |-> FALSE]
NoPub == [at |-> "idle", expected |-> None, author |-> None, snap |-> None]

Quiet == cmd.at = "idle" /\ poll.at \in {"idle", "poll", "wait"} /\ restore.at = "done"
BackgroundDone == poll.at = "idle" /\ restore.at = "done"

(* The answer of a command reaches the UI: w is shown from now on; a is    *)
(* what AuthState holds then.                                              *)
Show(w, a) ==
  /\ shown' = w
  /\ late' = (IF BackgroundDone THEN late \cap {session.client, session.id.of, a} ELSE late) \ {w}

-----------------------------------------------------------------------------
(* begin_auth_flow: the answer of an earlier flow is stale from here on.   *)
(* Login forms appear only while no account is shown.                      *)
Offered(op, w) ==
  CASE op = "nsec"      -> w \in Locals /\ shown = None
    [] op = "bunker"    -> w \in Remotes /\ shown = None
    [] op = "switch"    -> w \in rows \cup keyring
    [] op = "delete"    -> w \in rows \cup keyring
    [] op = "logout"    -> w = shown /\ shown # None
    [] op = "reconnect" -> w = shown /\ shown # None

FirstStep(op, w) ==
  CASE op = "nsec"      -> "insert"
    [] op = "bunker"    -> "shake"
    [] op = "switch"    -> IF w \in rows THEN "deactivate" ELSE "load"
    [] op = "delete"    -> IF w \in rows THEN "erase" ELSE "match"
    [] op = "logout"    -> "leave"
    [] op = "reconnect" -> "lookup"

Begin(op, w) ==
  /\ At("idle") /\ ops < MaxOps
  /\ Offered(op, w)
  /\ cmd' = [op |-> op, who |-> w, at |-> FirstStep(op, w)]
  /\ poll' = [poll EXCEPT !.fresh = FALSE]
  /\ ops' = ops + 1
  /\ out' = CASE op \in {"nsec", "bunker", "switch"} -> "in"
              [] op = "logout" -> "leaving"
              [] OTHER -> out
  /\ UNCHANGED <<kept, session, auth, tasks, restore, pub, shown, late>>

(* A step of a command that can fail ends it with an error: nothing done   *)
(* so far is undone and the UI keeps the account it showed.  A login saves *)
(* the display name between "activate" and "forget".                       *)
MayFail == {"insert", "deactivate", "activate", "key", "shake", "save", "load",
            "erase", "match", "unlist", "clearFlags", "lookup"}

Fail ==
  /\ cmd.at \in MayFail \/ (cmd.op = "nsec" /\ At("forget"))
  /\ cmd' = Idle
  /\ UNCHANGED <<kept, session, auth, tasks, side, ui, ops>>

-----------------------------------------------------------------------------
(* Local accounts.                                                         *)

(* save_account: the INSERT carries is_active = 1; an npub is UNIQUE.      *)
Insert ==
  /\ At("insert") /\ cmd.who \notin rows
  /\ rows' = rows \cup {cmd.who}
  /\ flagged' = flagged \cup {cmd.who}
  /\ Go("deactivate")
  /\ UNCHANGED <<keyring, last, session, auth, tasks, side, ui, ops>>

(* set_active_account: two UPDATEs without a transaction. *)
Deactivate ==
  /\ At("deactivate")
  /\ flagged' = {}
  /\ Go("activate")
  /\ UNCHANGED <<rows, keyring, last, session, auth, tasks, side, ui, ops>>

Activate ==
  /\ At("activate")
  /\ flagged' = flagged \cup ({cmd.who} \cap rows)
  /\ Go("forget")
  /\ UNCHANGED <<rows, keyring, last, session, auth, tasks, side, ui, ops>>

(* clear_last_active_profile_id; a failure to delete it is only logged. *)
NoLast == last' \in {last, None}

(* In a local login, a switch to a local account or a remote deletion. *)
Forget ==
  /\ At("forget")
  /\ NoLast
  /\ Go(IF cmd.op = "delete" THEN "clearIf" ELSE "clear")
  /\ UNCHANGED <<rows, flagged, keyring, session, auth, tasks, side, ui, ops>>

(* Mutant: the session of the account before is left in place. *)
ClearNothing ==
  /\ At("clear")
  /\ Go("key")
  /\ UNCHANGED <<kept, session, auth, tasks, side, ui, ops>>

ClearSession ==
  /\ At("clear")
  /\ session' = Cleared
  /\ Go("key")
  /\ UNCHANGED <<kept, auth, tasks, side, ui, ops>>

(* activate_local_account: AuthState signs with the nsec of the account. *)
UseKey ==
  /\ At("key")
  /\ auth' = cmd.who
  /\ Show(cmd.who, cmd.who)
  /\ cmd' = Idle
  /\ UNCHANGED <<kept, session, tasks, side, out, ops>>

-----------------------------------------------------------------------------
(* Remote accounts.                                                        *)

(* init_signer_session: the user approved in the signer app. *)
Shake ==
  /\ At("shake")
  /\ Go("save")
  /\ UNCHANGED <<kept, session, auth, tasks, side, ui, ops>>

SaveProfile ==
  /\ At("save")
  /\ keyring' = keyring \cup {cmd.who}
  /\ Go("install")
  /\ UNCHANGED <<rows, flagged, last, session, auth, tasks, side, ui, ops>>

InstallClient ==
  /\ At("install")
  /\ session' = [session EXCEPT !.client = cmd.who, !.id = IdOf(cmd.who, "key"),
                                !.conn = "Connected"]
  /\ Go("adopt")
  /\ UNCHANGED <<kept, auth, tasks, side, ui, ops>>

(* activate_profile: load, drop the client in place, make a lazy one.      *)
LoadProfile ==
  /\ At("load") /\ cmd.who \in keyring
  /\ Go("drop")
  /\ UNCHANGED <<kept, session, auth, tasks, side, ui, ops>>

DropClient ==
  /\ At("drop")
  /\ session' = IF session.client = None THEN session
                ELSE [session EXCEPT !.client = None, !.id = NoId]
  /\ Go("lazy")
  /\ UNCHANGED <<kept, auth, tasks, side, ui, ops>>

(* Mutant: the profile is activated without its connect task. *)
InstallNoTask ==
  /\ At("lazy")
  /\ session' = [session EXCEPT !.client = cmd.who, !.id = IdOf(cmd.who, "key"),
                                !.conn = "Connecting"]
  /\ Go("remember")
  /\ UNCHANGED <<kept, auth, tasks, side, ui, ops>>

InstallLazy ==
  /\ At("lazy")
  /\ session' = [session EXCEPT !.client = cmd.who, !.id = IdOf(cmd.who, "key"),
                                !.conn = "Connecting"]
  /\ tasks' = tasks + 1
  /\ Go("remember")
  /\ UNCHANGED <<kept, auth, side, ui, ops>>

(* set_last_active_profile_id; a failure to write it is only logged.       *)
(* connect_bunker ends here, switch_profile goes on.                       *)
Remember ==
  /\ At("remember")
  /\ last' \in {last, cmd.who}
  /\ IF cmd.op = "bunker"
     THEN cmd' = Idle /\ Show(cmd.who, auth)
     ELSE Go("reread") /\ UNCHANGED <<shown, late>>
  /\ UNCHANGED <<rows, flagged, keyring, session, auth, tasks, side, out, ops>>

(* switch_profile reads the active client again. *)
Reread ==
  /\ At("reread")
  /\ cmd' = IF session.client = None THEN Idle
            ELSE [cmd EXCEPT !.who = session.client, !.at = "adopt"]
  /\ UNCHANGED <<kept, session, auth, tasks, side, ui, ops>>

(* activate_remote_account, of connect_bunker, switch_profile and          *)
(* load_active_account.                                                    *)
Adopt ==
  /\ At("adopt")
  /\ auth' = cmd.who
  /\ IF cmd.op = "bunker"
     THEN Go("remember") /\ UNCHANGED <<shown, late>>
     ELSE cmd' = Idle /\ Show(cmd.who, cmd.who)
  /\ UNCHANGED <<kept, session, tasks, side, out, ops>>

(* attempt_manual_reconnect: the profile is looked up by its id, so an     *)
(* active_profile_id that holds the bunker key is not found.               *)
Lookup ==
  /\ At("lookup")
  /\ session.id.by = "id" /\ session.id.of \in keyring
  /\ cmd' = [cmd EXCEPT !.who = session.id.of, !.at = "swap"]
  /\ UNCHANGED <<kept, session, auth, tasks, side, ui, ops>>

SwapClient ==
  /\ At("swap")
  /\ session' = [session EXCEPT !.client = cmd.who, !.conn = "Connected"]
  /\ cmd' = Idle
  /\ UNCHANGED <<kept, auth, tasks, side, ui, ops>>

-----------------------------------------------------------------------------
(* Deletion and logout.                                                    *)

(* After a deletion the UI lists the profiles and calls                    *)
(* load_active_account; if the listing fails it does neither.              *)
Loading == [op |-> "load", who |-> None, at |-> "look"]
GoLoad == cmd' \in {Loading, Idle}

Erase ==
  /\ At("erase")
  /\ rows' = rows \ {cmd.who}
  /\ flagged' = flagged \ {cmd.who}
  /\ Go("wipe")
  /\ UNCHANGED <<keyring, last, session, auth, tasks, side, ui, ops>>

(* The lock of AuthState is held until the session is cleared. *)
Wipe ==
  /\ At("wipe")
  /\ auth' = None
  /\ session' = Cleared
  /\ GoLoad
  /\ UNCHANGED <<kept, tasks, side, ui, ops>>

(* The profile being deleted is active: logout first. *)
Match ==
  /\ At("match")
  /\ cmd.who \in keyring
  /\ Go(IF session.id.of = cmd.who THEN "leave" ELSE "unlist")
  /\ UNCHANGED <<kept, session, auth, tasks, side, ui, ops>>

(* session::logout: the last-active entry is deleted under the lock. *)
Leave ==
  /\ At("leave")
  /\ session' = Cleared
  /\ NoLast
  /\ Go(IF cmd.op = "delete" THEN "unlist" ELSE "clearFlags")
  /\ UNCHANGED <<rows, flagged, keyring, auth, tasks, side, ui, ops>>

Unlist ==
  /\ At("unlist")
  /\ keyring' = keyring \ {cmd.who}
  /\ Go("forget")
  /\ UNCHANGED <<rows, flagged, last, session, auth, tasks, side, ui, ops>>

ClearIfActive ==
  /\ At("clearIf")
  /\ session' = IF session.id.of = cmd.who THEN Cleared ELSE session
  /\ GoLoad
  /\ UNCHANGED <<kept, auth, tasks, side, ui, ops>>

(* Mutant: a logout leaves the local account flagged. *)
ClearNoFlags ==
  /\ At("clearFlags")
  /\ Go("disconnect")
  /\ UNCHANGED <<kept, session, auth, tasks, side, ui, ops>>

(* clear_active_account *)
ClearFlags ==
  /\ At("clearFlags")
  /\ flagged' = {}
  /\ Go("disconnect")
  /\ UNCHANGED <<rows, keyring, last, session, auth, tasks, side, ui, ops>>

Disconnect ==
  /\ At("disconnect")
  /\ auth' = None
  /\ Show(None, None)
  /\ out' = IF out = "leaving" THEN "out" ELSE out
  /\ cmd' = Idle
  /\ UNCHANGED <<kept, session, tasks, side, ops>>

-----------------------------------------------------------------------------
(* load_active_account, of the startup and after a deletion: one look at   *)
(* AppSignerState, then the flagged row, if any.                           *)
Look ==
  /\ At("look")
  /\ cmd' = IF session.id # NoId /\ session.client # None
            THEN [cmd EXCEPT !.who = session.client, !.at = "adopt"]
            ELSE [cmd EXCEPT !.at = "row"]
  /\ UNCHANGED <<kept, session, auth, tasks, side, ui, ops>>

(* The row's key may not decrypt: the UI then shows no account. *)
LoadRow ==
  /\ At("row")
  /\ \/ \E l \in flagged : auth' = l /\ Show(l, l)
     \/ auth' = auth /\ Show(None, auth)
  /\ cmd' = Idle
  /\ UNCHANGED <<kept, session, tasks, side, out, ops>>

-----------------------------------------------------------------------------
(* The QR flow.                                                            *)

StartQr ==
  /\ At("idle") /\ shown = None /\ ops < MaxOps
  /\ poll.at = "idle"                      \* bound: one poll at a time
  /\ session' = [session EXCEPT !.qr = TRUE]
  /\ poll' = [at |-> "poll", who |-> None, fresh |-> TRUE]
  /\ ops' = ops + 1
  /\ UNCHANGED <<kept, auth, tasks, cmd, restore, pub, ui>>

(* cancel_flow only stops the loop in the UI. *)
CancelQr ==
  /\ At("idle") /\ shown = None /\ poll.fresh
  /\ poll' = [poll EXCEPT !.fresh = FALSE]
  /\ UNCHANGED <<kept, session, auth, tasks, cmd, restore, pub, ui, ops>>

(* The UI loop calls check_qr_connection again while its flow is current. *)
PollQr ==
  /\ poll.at = "poll"
  /\ poll' = IF poll.fresh THEN [poll EXCEPT !.at = "wait"] ELSE NoPoll
  /\ UNCHANGED <<kept, session, auth, tasks, cmd, restore, pub, ui, ops>>

(* 30 seconds without an answer: Ok(None).  Five minutes: expired.  The    *)
(* keyring may refuse the approved profile: the poll ends with an error.   *)
NotYet ==
  /\ poll.at = "wait"
  /\ \/ poll' = [poll EXCEPT !.at = "poll"] /\ UNCHANGED session
     \/ poll' = NoPoll /\ session' \in {session, [session EXCEPT !.qr = FALSE]}
  /\ UNCHANGED <<kept, auth, tasks, cmd, restore, pub, ui, ops>>

(* The user approved r on the phone: the profile is saved. *)
Approved(r) ==
  /\ poll.at = "wait"
  /\ keyring' = keyring \cup {r}
  /\ poll' = [poll EXCEPT !.at = "install", !.who = r]
  /\ UNCHANGED <<rows, flagged, last, session, auth, tasks, cmd, restore, pub, ui, ops>>

QrInstall ==
  /\ poll.at = "install"
  /\ session' = [client |-> poll.who, id |-> IdOf(poll.who, "id"),
                 conn |-> "Connected", qr |-> FALSE]
  /\ poll' = [poll EXCEPT !.at = "adopt"]
  /\ late' = late \cup {poll.who}
  /\ out' = "in"
  /\ UNCHANGED <<kept, auth, tasks, cmd, restore, pub, shown, ops>>

QrAdopt ==
  /\ poll.at = "adopt"
  /\ auth' = poll.who
  /\ poll' = [poll EXCEPT !.at = "remember"]
  /\ late' = late \cup {poll.who}
  /\ out' = "in"
  /\ UNCHANGED <<kept, session, tasks, cmd, restore, pub, shown, ops>>

(* A stale answer is dropped by the UI, not undone. *)
QrRemember ==
  /\ poll.at = "remember"
  /\ last' \in {last, poll.who}
  /\ IF poll.fresh
     THEN shown' = poll.who /\ late' = late \ {poll.who}
     ELSE UNCHANGED <<shown, late>>
  /\ out' = "in"
  /\ poll' = NoPoll
  /\ UNCHANGED <<rows, flagged, keyring, session, auth, tasks, cmd, restore, pub, ops>>

-----------------------------------------------------------------------------
(* restore_session_on_startup: the profile of the last-active entry, unless *)
(* it left the keyring.                                                    *)
RestoreRead ==
  /\ restore.at = "read"
  /\ restore' = IF last # None /\ last \in keyring
                THEN [at |-> "set", who |-> last] ELSE [at |-> "done", who |-> None]
  /\ IF last \in keyring THEN UNCHANGED last ELSE NoLast
  /\ UNCHANGED <<rows, flagged, keyring, session, auth, tasks, cmd, poll, pub, ui, ops>>

RestoreSet ==
  /\ restore.at = "set"
  /\ session' = [session EXCEPT !.client = restore.who, !.id = IdOf(restore.who, "id"),
                                !.conn = "Connecting"]
  /\ tasks' = tasks + 1
  /\ restore' = [at |-> "done", who |-> None]
  /\ late' = IF At("look") THEN late ELSE late \cup {restore.who}
  /\ out' = "in"
  /\ UNCHANGED <<kept, auth, cmd, poll, pub, shown, ops>>

(* get_public_key of a lazy signer answers at once and always, whichever   *)
(* profile is active by now.                                               *)
TaskReports ==
  /\ tasks > 0
  /\ tasks' = tasks - 1
  /\ session' = [session EXCEPT !.conn = "Connected"]
  /\ UNCHANGED <<kept, auth, cmd, side, ui, ops>>

-----------------------------------------------------------------------------
(* A publication.  The signer is resolved from two locks, AuthState first; *)
(* the UI passes the account it shows.                                     *)

PubSnapshot ==
  /\ pub.at = "idle" /\ shown # None
  /\ pub' = [at |-> "resolve", expected |-> shown, author |-> None, snap |-> auth]
  /\ UNCHANGED <<kept, session, auth, tasks, cmd, poll, restore, ui, ops>>

PubResolved == Resolved(session.client, pub.snap)

(* resolve_active_signer and verify_expected_publisher. *)
PubResolve ==
  /\ pub.at = "resolve"
  /\ pub' = IF PubResolved = pub.expected
            THEN [pub EXCEPT !.author = PubResolved, !.at = "prepared"]
            ELSE NoPub
  /\ UNCHANGED <<kept, session, auth, tasks, cmd, poll, restore, ui, ops>>

(* Mutant: the check uses the AuthState read before the preparation. *)
PubRecheckOld ==
  /\ pub.at = "prepared"
  /\ pub' = [pub EXCEPT !.at = "recheck"]
  /\ UNCHANGED <<kept, session, auth, tasks, cmd, poll, restore, ui, ops>>

(* ensure_publish_account_current, once the event is prepared. *)
PubRecheck ==
  /\ pub.at = "prepared"
  /\ pub' = [pub EXCEPT !.at = "recheck", !.snap = auth]
  /\ UNCHANGED <<kept, session, auth, tasks, cmd, poll, restore, ui, ops>>

PubEnsure ==
  /\ pub.at = "recheck"
  /\ pub' = IF PubResolved = pub.author THEN [pub EXCEPT !.at = "sign"] ELSE NoPub
  /\ UNCHANGED <<kept, session, auth, tasks, cmd, poll, restore, ui, ops>>

(* The signer resolved at the start signs, and the event is published. *)
PubSign ==
  /\ pub.at = "sign"
  /\ pub' = NoPub
  /\ UNCHANGED <<kept, session, auth, tasks, cmd, poll, restore, ui, ops>>

(* Relay answers or file operations of the preparation fail. *)
PubFail ==
  /\ pub.at = "prepared"
  /\ pub' = NoPub
  /\ UNCHANGED <<kept, session, auth, tasks, cmd, poll, restore, ui, ops>>

-----------------------------------------------------------------------------
(* The process ends and starts again; the UI loads the active account      *)
(* while the restore task runs.                                            *)
NoSession == [client |-> None, id |-> NoId, conn |-> "Disconnected", qr |-> FALSE]

Boot ==
  /\ session' = NoSession
  /\ auth' = None
  /\ tasks' = 0
  /\ cmd' = Loading
  /\ poll' = NoPoll
  /\ restore' = [at |-> "read", who |-> None]
  /\ pub' = NoPub
  /\ shown' = None
  /\ late' = {}

Restart ==
  /\ ops < MaxOps
  /\ ops' = ops + 1
  /\ Boot
  /\ UNCHANGED <<kept, out>>

Init ==
  /\ rows = {} /\ flagged = {} /\ keyring = {} /\ last = None
  /\ session = NoSession /\ auth = None /\ tasks = 0
  /\ cmd = Idle /\ poll = NoPoll
  /\ restore = [at |-> "done", who |-> None]
  /\ pub = NoPub
  /\ shown = None /\ late = {} /\ seen = {} /\ out = "out" /\ ops = 0

Local == Insert \/ Deactivate \/ Activate \/ Forget \/ ClearSession \/ UseKey
Remote == Shake \/ SaveProfile \/ InstallClient \/ LoadProfile \/ DropClient
          \/ InstallLazy \/ Remember \/ Reread \/ Adopt \/ Lookup \/ SwapClient
Removal == Erase \/ Wipe \/ Match \/ Leave \/ Unlist \/ ClearIfActive
           \/ ClearFlags \/ Disconnect
Qr == StartQr \/ CancelQr \/ PollQr \/ NotYet \/ (\E r \in Remotes : Approved(r))
      \/ QrInstall \/ QrAdopt \/ QrRemember
Publish == PubSnapshot \/ PubResolve \/ PubRecheck \/ PubEnsure \/ PubSign \/ PubFail

Ops == {"nsec", "bunker", "switch", "delete", "logout", "reconnect"}

Step ==
  \/ \E op \in Ops, w \in Accounts : Begin(op, w)
  \/ Local \/ Remote \/ Removal \/ Fail \/ Look \/ LoadRow
  \/ Qr \/ RestoreRead \/ RestoreSet \/ TaskReports \/ Publish \/ Restart

(* seen follows every step: who was active since pub began its check. *)
Next ==
  /\ Step
  /\ seen' = IF pub'.at \in {"recheck", "sign"}
             THEN (IF pub.at = pub'.at \/ pub'.at = "sign" THEN seen ELSE {}) \cup {Signer', auth'}
             ELSE {}

Spec == Init /\ [][Next]_vars

-----------------------------------------------------------------------------
Steps == {"idle", "insert", "deactivate", "activate", "forget", "clear", "key",
          "shake", "save", "install", "adopt", "remember", "load", "drop", "lazy",
          "reread", "lookup", "swap", "erase", "wipe", "match", "leave", "unlist",
          "clearIf", "clearFlags", "disconnect", "look", "row"}

(* Every variable has its type, and only a row of the table is flagged.    *)
TypeOK ==
  /\ rows \subseteq Locals /\ flagged \subseteq rows
  /\ keyring \subseteq Remotes /\ last \in Maybe(Remotes)
  /\ session \in [client : Maybe(Remotes), conn : {"Disconnected", "Connecting", "Connected"},
                  id : [of : Maybe(Remotes), by : {"none", "id", "key"}], qr : BOOLEAN]
  /\ auth \in Maybe(Accounts)
  /\ tasks \in Nat
  /\ cmd \in [op : Ops \cup {"none", "load"}, who : Maybe(Accounts), at : Steps]
  /\ poll \in [at : {"idle", "poll", "wait", "install", "adopt", "remember"},
               who : Maybe(Remotes), fresh : BOOLEAN]
  /\ restore \in [at : {"read", "set", "done"}, who : Maybe(Remotes)]
  /\ pub \in [at : {"idle", "resolve", "prepared", "recheck", "sign"},
              expected : Maybe(Accounts), author : Maybe(Accounts), snap : Maybe(Accounts)]
  /\ shown \in Maybe(Accounts) /\ late \subseteq Remotes
  /\ seen \subseteq Maybe(Accounts) /\ out \in {"in", "leaving", "out"}
  /\ ops \in 0..MaxOps

(* "Connecting" is shown only while some connect task has yet to report:   *)
(* the status never hangs, whatever commands ran in between                *)
(* (session.rs:86-116, 204-252).                                           *)
ConnectingIsPending == session.conn = "Connecting" => tasks > 0

(* Between commands, whoever would sign is the account the UI shows, or    *)
(* nobody, or a remote account that a stale QR answer or a late restore    *)
(* activated: no command, whichever of its steps failed, leaves the five   *)
(* places naming two accounts (nip46_commands.rs:82-237, 612-1049).        *)
SignsAsShown ==
  Quiet /\ shown # None => Signer \in {shown, None} \cup late

(* An event is signed only by the account the UI showed when it was asked  *)
(* for, and that account was active (the signer, or held by AuthState) at  *)
(* some moment after the event was prepared, although the two are read     *)
(* under two locks (adp_commands.rs:317-350, 1254-1267).                   *)
PublishedAsShown ==
  pub.at = "sign" => pub.author = pub.expected /\ pub.author \in seen

(* After a logout nobody signs and nothing is shown until the user chooses *)
(* an account or a background task activates one, restarts and deletions   *)
(* included (nip46_commands.rs:956-975, session.rs:427-454).               *)
LoggedOutStaysOut == out = "out" => Signer = None /\ shown = None
=============================================================================
