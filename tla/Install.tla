------------------------------ MODULE Install -------------------------------
(***************************************************************************)
(* Installing one game: install_game (desktop/src/main.rs), the download   *)
(* to a temporary sibling (core/src/http_client.rs), the hash check, the   *)
(* quarantine of a corrupt artifact and the installed_games row            *)
(* (desktop/src/install.rs).                                               *)
(*                                                                         *)
(* All installs of a game share its directory: artifact.bin, its           *)
(* quarantine names .corrupt, .corrupt.1, ... and one row.  Nothing locks  *)
(* it, so installs are tasks that interleave at every file operation.  An  *)
(* opened file keeps its content when its name is replaced.  SHA-256 is    *)
(* taken as injective: the hash of a content is the content itself.        *)
(***************************************************************************)
EXTENDS Naturals, Sequences

CONSTANTS
  Contents,     \* complete files a server may send
  Expected,     \* file hashes a signed listing may carry
  ServerUrls,   \* server tags of the listing, in order
  MaxSlot,      \* last quarantine suffix tried (1024 in the code)
  MaxCrashes,   \* bound: process crashes considered
  Tasks,        \* concurrent installs
  Crews,        \* the sets of installs that run in one behaviour
  None          \* no file, no row, no server

ASSUME InstallAssumption ==
  /\ Expected \subseteq Contents
  /\ None \notin Contents
  /\ "partial" \notin Contents \cup {None}
  /\ MaxSlot \in Nat /\ MaxCrashes \in Nat
  /\ Len(ServerUrls) > 0
  /\ Crews \subseteq SUBSET Tasks

Slots == 0 .. MaxSlot   \* 0 is the name without a suffix

Servers == {ServerUrls[i] : i \in 1 .. Len(ServerUrls)}

VARIABLES
  dest,      \* artifact.bin
  quar,      \* quar[s]: the quarantine file s
  row,       \* the installed_games row
  orphans,   \* names left reserved by a crash or a failed clean-up
  crashes,   \* crashes so far
  task,      \* task[t]: where install t stands
  crew       \* the installs of this behaviour

vars == <<dest, quar, row, orphans, crashes, task, crew>>

files == <<dest, quar, row, orphans, crashes>>

Idle == [pc |-> "idle"]

Become(t, k) == task' = [task EXCEPT ![t] = k]

(* Server i is the one an install uses: the first of the listing for which *)
(* a valid token is cached or, when there is none and the game is owned or *)
(* openly accessible now, the first of the listing.                        *)
Uses(i, tokens, mayAccess) ==
  IF tokens = {}
  THEN mayAccess /\ i = 1
  ELSE ServerUrls[i] \in tokens /\ \A j \in 1 .. i - 1 : ServerUrls[j] \notin tokens

(* install_game up to the request, for a signed listing with file hash h.  *)
Begin(t, h, tokens, mayAccess, i) ==
  /\ task[t].pc = "idle" /\ t \in crew
  /\ Uses(i, tokens, mayAccess)
  /\ Become(t, [pc |-> "get", hash |-> h, server |-> ServerUrls[i],
                temp |-> None, got |-> None, slot |-> 0])
  /\ UNCHANGED <<files, crew>>

(***************************************************************************)
(* download_to_path                                                        *)
(***************************************************************************)

(* A successful status: the temporary sibling is created and streamed to. *)
StartBody(t) ==
  /\ task[t].pc = "get"
  /\ Become(t, [task[t] EXCEPT !.pc = "write", !.temp = "partial"])
  /\ UNCHANGED files

(* The last chunk arrived and was flushed. *)
FinishBody(t, x) ==
  /\ task[t].pc = "write"
  /\ task[t].temp = "partial"
  /\ Become(t, [task[t] EXCEPT !.temp = x])
  /\ UNCHANGED files

(* rename(temp, dest). *)
Rename(t) ==
  /\ task[t].pc = "write"
  /\ task[t].temp \in Contents
  /\ dest' = task[t].temp
  /\ Become(t, [task[t] EXCEPT !.pc = "hash", !.temp = None])
  /\ UNCHANGED <<quar, row, orphans, crashes>>

(***************************************************************************)
(* verify_and_record_downloaded_game                                       *)
(***************************************************************************)

(* Mutant: the hash is taken for granted. *)
HashAnything(t) ==
  /\ task[t].pc = "hash"
  /\ dest # None
  /\ Become(t, [task[t] EXCEPT !.pc = "record", !.got = dest])
  /\ UNCHANGED files

(* sha256_file: whatever artifact.bin names when it is opened. *)
Hash(t) ==
  /\ task[t].pc = "hash"
  /\ dest # None
  /\ Become(t, [task[t] EXCEPT !.got = dest,
                  !.pc = IF dest = task[t].hash THEN "record" ELSE "reserve"])
  /\ UNCHANGED files

(* InstalledGamesRepository::record, INSERT OR REPLACE. *)
Record(t) ==
  /\ task[t].pc = "record"
  /\ row' = [hash |-> task[t].hash, server |-> task[t].server]
  /\ Become(t, Idle)
  /\ UNCHANGED <<dest, quar, orphans, crashes>>

(* Mutant: the quarantine file is opened without create_new. *)
ReserveTruncating(t) ==
  /\ task[t].pc = "reserve"
  /\ quar' = [quar EXCEPT ![task[t].slot] = "partial"]
  /\ Become(t, [task[t] EXCEPT !.pc = "open"])
  /\ UNCHANGED <<dest, row, orphans, crashes>>

(* create_new on the next quarantine name. *)
Reserve(t) ==
  /\ task[t].pc = "reserve"
  /\ quar[task[t].slot] = None
  /\ quar' = [quar EXCEPT ![task[t].slot] = "partial"]
  /\ Become(t, [task[t] EXCEPT !.pc = "open"])
  /\ UNCHANGED <<dest, row, orphans, crashes>>

(* Mutant: the search starts again when every name is taken. *)
TryAgain(t) ==
  /\ task[t].pc = "reserve"
  /\ quar[task[t].slot] # None
  /\ Become(t, [task[t] EXCEPT !.slot = IF @ = MaxSlot THEN 0 ELSE @ + 1])
  /\ UNCHANGED files

(* AlreadyExists: try the next name, or give up after the last. *)
TryNext(t) ==
  /\ task[t].pc = "reserve"
  /\ quar[task[t].slot] # None
  /\ Become(t, IF task[t].slot = MaxSlot THEN Idle
               ELSE [task[t] EXCEPT !.slot = @ + 1])
  /\ UNCHANGED files

(* Mutant: the artifact is removed without the copy. *)
SkipCopy(t) ==
  /\ task[t].pc = "open"
  /\ dest # None
  /\ Become(t, [task[t] EXCEPT !.pc = "remove"])
  /\ UNCHANGED files

(* Open the corrupt artifact; got is now the content of that open file. *)
OpenSource(t) ==
  /\ task[t].pc = "open"
  /\ dest # None
  /\ Become(t, [task[t] EXCEPT !.pc = "copy", !.got = dest])
  /\ UNCHANGED files

(* Mutant: a failed copy leaves its reservation behind. *)
KeepReservation(t) ==
  /\ task[t].pc \in {"open", "copy"}
  /\ Become(t, Idle)
  /\ UNCHANGED files

(* Opening, copying, flushing or syncing fails: the reservation is removed *)
(* and the install ends with an error.  The removal may fail too, and its  *)
(* result is ignored.                                                      *)
ReleaseReservation(t) ==
  /\ task[t].pc \in {"open", "copy"}
  /\ \/ /\ quar' = [quar EXCEPT ![task[t].slot] = None]
        /\ orphans' = orphans
     \/ /\ orphans' = orphans \cup {task[t].slot}
        /\ quar' = quar
  /\ Become(t, Idle)
  /\ UNCHANGED <<dest, row, crashes>>

(* Copied, flushed and synced. *)
Copied(t) ==
  /\ task[t].pc = "copy"
  /\ quar' = [quar EXCEPT ![task[t].slot] = task[t].got]
  /\ Become(t, [task[t] EXCEPT !.pc = "remove"])
  /\ UNCHANGED <<dest, row, orphans, crashes>>

(* remove_file(artifact.bin): by name, whatever it names now. *)
Remove(t) ==
  /\ task[t].pc = "remove"
  /\ dest' = None
  /\ Become(t, Idle)
  /\ UNCHANGED <<quar, row, orphans, crashes>>

(* Every other failure ends the install without touching what is shared:   *)
(* the request or the body (the temporary file is removed), hashing, the   *)
(* row, removing the artifact.                                             *)
Fail(t) ==
  /\ task[t].pc \in {"get", "write", "hash", "record", "reserve", "remove"}
  /\ Become(t, Idle)
  /\ UNCHANGED files

(* The process dies: its tasks are gone, their reservations stay. *)
Crash ==
  /\ crashes < MaxCrashes
  /\ crashes' = crashes + 1
  /\ orphans' = orphans \cup
       {task[t].slot : t \in {u \in Tasks : task[u].pc \in {"open", "copy"}}}
  /\ task' = [t \in Tasks |-> Idle]
  /\ UNCHANGED <<dest, quar, row, crew>>

-----------------------------------------------------------------------------
Init ==
  /\ dest = None
  /\ quar = [s \in Slots |-> None]
  /\ row = None
  /\ orphans = {}
  /\ crashes = 0
  /\ task = [t \in Tasks |-> Idle]
  /\ crew \in Crews

Work(t) ==
  /\ \/ StartBody(t)
     \/ \E x \in Contents : FinishBody(t, x)
     \/ Rename(t)
     \/ Hash(t)
     \/ Record(t)
     \/ Reserve(t)
     \/ TryNext(t)
     \/ OpenSource(t)
     \/ ReleaseReservation(t)
     \/ Copied(t)
     \/ Remove(t)
     \/ Fail(t)
  /\ UNCHANGED crew

Next ==
  \/ \E t \in Tasks :
       \/ \E h \in Expected, tokens \in SUBSET Servers, may \in BOOLEAN,
             i \in 1 .. Len(ServerUrls) : Begin(t, h, tokens, may, i)
       \/ Work(t)
  \/ Crash

(* The runtime polls every install, a request times out after 30 minutes   *)
(* and file operations return.                                             *)
Fairness == \A t \in Tasks : WF_vars(Work(t))

Spec == Init /\ [][Next]_vars /\ Fairness

-----------------------------------------------------------------------------
(***************************************************************************)
(* Properties                                                              *)
(***************************************************************************)

Files == Contents \cup {None}

Running ==
  [ pc: {"get", "write", "hash", "record", "reserve", "open", "copy",
         "remove"},
    hash: Expected, server: Servers, temp: Files \cup {"partial"},
    got: Files, slot: Slots ]

Row == [hash: Expected, server: Servers]

(* Every file, the row and the installs in progress are well formed; in    *)
(* particular artifact.bin never names a partly written file.              *)
TypeOK ==
  /\ dest \in Files
  /\ quar \in [Slots -> Files \cup {"partial"}]
  /\ row \in Row \cup {None}
  /\ orphans \subseteq Slots
  /\ crashes \in 0 .. MaxCrashes
  /\ task \in [Tasks -> {Idle} \cup Running]
  /\ crew \in Crews

Holds(t, s) == task[t].pc \in {"open", "copy"} /\ task[t].slot = s

(* A quarantine name that is reserved and not filled belongs to exactly    *)
(* one running install, unless its owner crashed or failed to remove it.   *)
ReservationsHeld ==
  \A s \in Slots :
    quar[s] = "partial" =>
      \/ s \in orphans
      \/ \E t \in Tasks :
           Holds(t, s) /\ \A u \in Tasks : Holds(u, s) => u = t

(* A corrupt artifact that was quarantined is never overwritten and never  *)
(* removed by the application, whatever installs and crashes follow.       *)
QuarantineKept ==
  [][\A s \in Slots : quar[s] \in Contents => quar'[s] = quar[s]]_vars

(* No other install of the game runs in this behaviour.                    *)
Alone == \E t \in Tasks : crew = {t}

(* With no other install of the game, the row is written while             *)
(* artifact.bin is the file it describes, whatever fails or crashes.       *)
RecordedArtifactMatches ==
  [][Alone /\ row' # row => dest' = row'.hash]_vars

(* With no other install of the game, artifact.bin disappears only after   *)
(* its content was quarantined: a hash mismatch preserves the artifact.    *)
RemovedIsQuarantined ==
  [][Alone /\ dest # None /\ dest' = None => \E s \in Slots : quar[s] = dest]_vars

(* Whatever fails, an install that started ends; also when every           *)
(* quarantine name is taken.                                               *)
InstallEnds ==
  \A t \in Tasks : task[t].pc # "idle" ~> task[t].pc = "idle"
=============================================================================
