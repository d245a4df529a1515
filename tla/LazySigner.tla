----------------------------- MODULE LazySigner -----------------------------
(***************************************************************************)
(* The deferred NIP-46 signer of core/src/signers/lazy_nip46.rs.  A clone  *)
(* of it sits in every nostr-sdk client of a session, so sign_event runs   *)
(* in any number of tasks at once.  The first request performs the         *)
(* handshake with the bunker; the client it made is kept in `inner`        *)
(* and the progress in `state`, each behind a tokio RwLock of its own.     *)
(*                                                                         *)
(* A read guard never outlives the statement that takes it, so only the    *)
(* holders of write guards are state.  What the bunker answers, and        *)
(* whether it answers within 30 seconds, is a choice.                      *)
(***************************************************************************)
CONSTANTS
  Tasks,       \* concurrent sign_event requests
  Deadlined,   \* those whose caller drops them after a timeout (uploads do)
  Nobody

ASSUME SignerAssumption == Deadlined \subseteq Tasks /\ Nobody \notin Tasks

VARIABLES
  inner,    \* the connected client, named after the request that made it
  state,    \* LazyConnectionState
  innerW,   \* who holds the write guard of inner
  stateW,   \* who holds the write guard of state
  pc        \* pc[t]: where request t stands

signerVars == <<inner, state, innerW, stateW, pc>>

Goto(t, l) == pc' = [pc EXCEPT ![t] = l]

Call(t) ==
  /\ pc[t] = "idle"
  /\ Goto(t, "fast")
  /\ UNCHANGED <<inner, state, innerW, stateW>>

(* Check if already connected: inner.read().                               *)
FastPath(t) ==
  /\ pc[t] = "fast"
  /\ innerW = Nobody
  /\ Goto(t, IF inner # Nobody THEN "sign" ELSE "lock")
  /\ UNCHANGED <<inner, state, innerW, stateW>>

(* state.write() *)
LockState(t) ==
  /\ pc[t] = "lock"
  /\ stateW = Nobody
  /\ stateW' = t
  /\ Goto(t, "check")
  /\ UNCHANGED <<inner, state, innerW>>

(* inner.read() while the write guard of state is held.  The guard is gone *)
(* either way before the handshake.                                        *)
Recheck(t) ==
  /\ pc[t] = "check"
  /\ innerW = Nobody
  /\ stateW' = Nobody
  /\ IF inner # Nobody
     THEN Goto(t, "sign") /\ UNCHANGED state
     ELSE Goto(t, "shake") /\ state' = "Connecting"
  /\ UNCHANGED <<inner, innerW>>

(* connect_and_handshake: get_public_key succeeds, or it is refused or     *)
(* times out.                                                              *)
Shaken(t) ==
  /\ pc[t] = "shake"
  /\ \E l \in {"keep", "failed"} : Goto(t, l)
  /\ UNCHANGED <<inner, state, innerW, stateW>>

(* Mutant: the state is reported before the client is stored. *)
KeepLater(t) ==
  /\ pc[t] = "keep"
  /\ innerW = Nobody
  /\ innerW' = t
  /\ state' = "Connected"
  /\ Goto(t, "report")
  /\ UNCHANGED <<inner, stateW>>

(* *inner.write() = Some(signer); the guard is held to the end of the arm. *)
KeepClient(t) ==
  /\ pc[t] = "keep"
  /\ innerW = Nobody
  /\ innerW' = t
  /\ inner' = t
  /\ Goto(t, "report")
  /\ UNCHANGED <<state, stateW>>

(* *state.write() = Connected, with inner still write-locked. *)
ReportConnected(t) ==
  /\ pc[t] = "report"
  /\ stateW = Nobody
  /\ state' = "Connected"
  /\ innerW' = Nobody
  /\ Goto(t, "sign")
  /\ UNCHANGED <<inner, stateW>>

(* *state.write() = Failed; the request ends with the error. *)
ReportFailed(t) ==
  /\ pc[t] = "failed"
  /\ stateW = Nobody
  /\ state' = "Failed"
  /\ Goto(t, "idle")
  /\ UNCHANGED <<inner, innerW, stateW>>

(* The bunker signed, refused, or did not answer in time. *)
Signed(t) ==
  /\ pc[t] = "sign"
  /\ Goto(t, "idle")
  /\ UNCHANGED <<inner, state, innerW, stateW>>

Freed(holder, t) == IF holder = t THEN Nobody ELSE holder

(* Mutant: guards outlive the request. *)
DropLeaking(t) ==
  /\ t \in Deadlined
  /\ pc[t] # "idle"
  /\ Goto(t, "idle")
  /\ UNCHANGED <<inner, state, innerW, stateW>>

(* The caller's own timeout drops the request at whatever await it is;     *)
(* its guards are dropped with it.                                         *)
Drop(t) ==
  /\ t \in Deadlined
  /\ pc[t] # "idle"
  /\ innerW' = Freed(innerW, t)
  /\ stateW' = Freed(stateW, t)
  /\ Goto(t, "idle")
  /\ UNCHANGED <<inner, state>>

-----------------------------------------------------------------------------
SignerInit ==
  /\ inner = Nobody
  /\ state = "Disconnected"
  /\ innerW = Nobody
  /\ stateW = Nobody
  /\ pc = [t \in Tasks |-> "idle"]

Work(t) ==
  \/ FastPath(t) \/ LockState(t) \/ Recheck(t) \/ Shaken(t)
  \/ KeepClient(t) \/ ReportConnected(t) \/ ReportFailed(t) \/ Signed(t)

SignerNext == \E t \in Tasks : Call(t) \/ Work(t) \/ Drop(t)

(* tokio polls every request, its locks are fair queues, and a request to  *)
(* the bunker is answered or times out.  Deadlines expire.                 *)
Fairness ==
  /\ \A t \in Tasks : SF_signerVars(FastPath(t)) /\ SF_signerVars(LockState(t))
                        /\ SF_signerVars(Recheck(t)) /\ SF_signerVars(KeepClient(t))
                        /\ SF_signerVars(ReportConnected(t))
                        /\ SF_signerVars(ReportFailed(t))
                        /\ WF_signerVars(Shaken(t)) /\ WF_signerVars(Signed(t))
  /\ \A t \in Deadlined : WF_signerVars(Drop(t))

SignerSpec == SignerInit /\ [][SignerNext]_signerVars /\ Fairness

-----------------------------------------------------------------------------
(***************************************************************************)
(* Properties                                                              *)
(***************************************************************************)

States == {"Disconnected", "Connecting", "Connected", "Failed"}

Labels == {"idle", "fast", "lock", "check", "shake", "keep", "report",
           "failed", "sign"}

(* Every variable has its type, and a held guard belongs to a request that *)
(* is at the statement holding it.                                         *)
SignerTypeOK ==
  /\ inner \in Tasks \cup {Nobody}
  /\ state \in States
  /\ pc \in [Tasks -> Labels]
  /\ innerW \in {t \in Tasks : pc[t] = "report"} \cup {Nobody}
  /\ stateW \in {t \in Tasks : pc[t] = "check"} \cup {Nobody}

(* The signer says Connected only when there is a client to sign with, in  *)
(* whatever order overlapping handshakes succeed, fail or are dropped.     *)
ConnectedHasClient == state = "Connected" => inner # Nobody

(* A request asks the bunker for a signature only when a handshake of some *)
(* request has completed, and a client that was kept stays: a later failed *)
(* handshake of another request does not take it from under the first.     *)
SignsWithClient == \A t \in Tasks : pc[t] = "sign" => inner # Nobody

(* Every sign request ends, with a signature or with an error.             *)
RequestsEnd == \A t \in Tasks : pc[t] # "idle" ~> pc[t] = "idle"
=============================================================================
