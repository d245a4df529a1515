----------------------------- MODULE FileProofs -----------------------------
(***************************************************************************)
(* Proofs about the two places where the program trusts a file that        *)
(* another actor may change at any moment.                                 *)
(*                                                                         *)
(* Installing a game (Install), for any number of concurrent installs,     *)
(* quarantine names, contents and crashes.                                 *)
(*                                                                         *)
(* Uploading a media file into the Store Page draft (Uploads), for any     *)
(* number of picks, requests and tasks of the dialog and any capacity of   *)
(* the registry: what enters the draft is on the server, is what the       *)
(* publisher was shown and is what the publisher still waits for.          *)
(***************************************************************************)
EXTENDS Install, Uploads, TLAPS

-----------------------------------------------------------------------------
(* Part 1.  Install.                                                       *)

(* A reservation is exclusive and its file is still empty or half copied:  *)
(* this is what makes ReservationsHeld and QuarantineKept inductive.       *)
Exclusive ==
  \A t \in Tasks, s \in Slots :
    Holds(t, s) =>
      /\ quar[s] = "partial"
      /\ \A u \in Tasks : Holds(u, s) => u = t

IInv == TypeOK /\ Exclusive /\ ReservationsHeld

LEMMA InitTypeOK == Init => TypeOK
BY InstallAssumption DEF Init, TypeOK, Files, Idle, Slots

(* Becoming a well-formed record keeps the tasks well formed. *)
LEMMA BecomeTyped ==
  ASSUME TypeOK, NEW t \in Tasks, NEW k \in {Idle} \cup Running, Become(t, k)
  PROVE  /\ task' \in [Tasks -> {Idle} \cup Running]
         /\ task'[t] = k
         /\ \A u \in Tasks : u # t => task'[u] = task[u]
BY DEF TypeOK, Become

LEMMA RunningTask ==
  ASSUME TypeOK, NEW t \in Tasks, task[t].pc # "idle"
  PROVE  task[t] \in Running
BY DEF TypeOK, Idle

(* A step that leaves the quarantine alone and neither gains nor loses a   *)
(* reservation.                                                            *)
LEMMA PrivateStep ==
  ASSUME IInv, NEW t \in Tasks, NEW k \in {Idle} \cup Running,
         Become(t, k), UNCHANGED <<quar, orphans, crashes, crew>>,
         dest' \in Files, row' \in Row \cup {None},
         \A s \in Slots :
           Holds(t, s) <=> (k.pc \in {"open", "copy"} /\ k.slot = s)
  PROVE  IInv'
<1>1. /\ task' \in [Tasks -> {Idle} \cup Running]
      /\ task'[t] = k
      /\ \A u \in Tasks : u # t => task'[u] = task[u]
  BY BecomeTyped DEF IInv
<1>2. TypeOK'
  BY <1>1 DEF IInv, TypeOK
<1>3. \A u \in Tasks, s \in Slots : Holds(u, s)' <=> Holds(u, s)
  BY <1>1 DEF Holds
<1>4. Exclusive'
  BY <1>3 DEF IInv, Exclusive
<1>5. ReservationsHeld'
  BY <1>3 DEF IInv, ReservationsHeld
<1>. QED  BY <1>2, <1>4, <1>5 DEF IInv

(* A step of an install that holds no reservation before or after it. *)
LEMMA FreeStep ==
  ASSUME IInv, NEW t \in Tasks, NEW k \in {Idle} \cup Running,
         task[t].pc \notin {"open", "copy"}, k.pc \notin {"open", "copy"},
         Become(t, k), UNCHANGED <<quar, orphans, crashes, crew>>,
         dest' \in Files, row' \in Row \cup {None}
  PROVE  IInv'
<1>1. \A s \in Slots :
        Holds(t, s) <=> (k.pc \in {"open", "copy"} /\ k.slot = s)
  BY DEF Holds
<1>. QED  BY <1>1, PrivateStep

LEMMA BeginKeeps ==
  ASSUME IInv, NEW t \in Tasks, NEW h \in Expected, NEW tokens, NEW may,
         NEW i \in 1 .. Len(ServerUrls), Begin(t, h, tokens, may, i)
  PROVE  IInv'
<1> DEFINE k == [pc |-> "get", hash |-> h, server |-> ServerUrls[i],
                 temp |-> None, got |-> None, slot |-> 0]
<1>1. k \in Running
  BY InstallAssumption DEF Running, Servers, Files, Slots
<1>2. /\ Become(t, k) /\ task[t].pc = "idle"
      /\ UNCHANGED <<dest, quar, row, orphans, crashes, crew>>
  BY DEF Begin, files
<1>. QED  BY <1>1, <1>2, FreeStep DEF IInv, TypeOK

LEMMA DownloadKeeps ==
  ASSUME IInv, UNCHANGED crew, NEW t \in Tasks,
         \/ StartBody(t)
         \/ \E x \in Contents : FinishBody(t, x)
         \/ Rename(t)
  PROVE  IInv'
<1>1. CASE StartBody(t)
  <2> DEFINE k == [task[t] EXCEPT !.pc = "write", !.temp = "partial"]
  <2>1. task[t] \in Running /\ k \in Running /\ k.pc = "write"
    BY <1>1, RunningTask DEF IInv, StartBody, Running
  <2>. QED  BY <1>1, <2>1, FreeStep DEF StartBody, files, IInv, TypeOK
<1>2. ASSUME NEW x \in Contents, FinishBody(t, x)
      PROVE  IInv'
  <2> DEFINE k == [task[t] EXCEPT !.temp = x]
  <2>1. task[t] \in Running /\ k \in Running /\ k.pc = "write"
    BY <1>2, RunningTask DEF IInv, FinishBody, Running, Files
  <2>. QED  BY <1>2, <2>1, FreeStep DEF FinishBody, files, IInv, TypeOK
<1>3. CASE Rename(t)
  <2> DEFINE k == [task[t] EXCEPT !.pc = "hash", !.temp = None]
  <2>1. task[t] \in Running /\ k \in Running /\ k.pc = "hash"
    BY <1>3, RunningTask DEF IInv, Rename, Running, Files
  <2>2. dest' \in Files
    BY <1>3 DEF Rename, Files
  <2>. QED  BY <1>3, <2>1, <2>2, FreeStep DEF Rename, IInv, TypeOK
<1>. QED  BY <1>1, <1>2, <1>3

LEMMA VerifyKeeps ==
  ASSUME IInv, UNCHANGED crew, NEW t \in Tasks,
         Hash(t) \/ Record(t) \/ TryNext(t) \/ Remove(t) \/ Fail(t)
  PROVE  IInv'
<1>1. CASE Hash(t)
  <2> DEFINE k == [task[t] EXCEPT !.got = dest,
                    !.pc = IF dest = task[t].hash THEN "record" ELSE "reserve"]
  <2>1. task[t] \in Running /\ k \in Running /\ k.pc \in {"record", "reserve"}
    BY <1>1, RunningTask DEF IInv, TypeOK, Hash, Running
  <2>. QED  BY <1>1, <2>1, FreeStep DEF Hash, files, IInv, TypeOK
<1>2. CASE Record(t)
  <2>1. task[t] \in Running
    BY <1>2, RunningTask DEF IInv, Record
  <2>2. row' \in Row
    BY <1>2, <2>1 DEF Record, Row, Running
  <2>. QED  BY <1>2, <2>2, FreeStep DEF Record, Idle, IInv, TypeOK
<1>3. CASE TryNext(t)
  <2> DEFINE k == IF task[t].slot = MaxSlot THEN Idle
                  ELSE [task[t] EXCEPT !.slot = @ + 1]
  <2>1. task[t] \in Running
    BY <1>3, RunningTask DEF IInv, TryNext
  <2>2. k \in {Idle} \cup Running /\ k.pc \in {"idle", "reserve"}
    BY <1>3, <2>1, InstallAssumption DEF TryNext, Running, Slots, Idle
  <2>. QED  BY <1>3, <2>2, FreeStep DEF TryNext, files, IInv, TypeOK
<1>4. CASE Remove(t)
  BY <1>4, FreeStep DEF Remove, Idle, Files, IInv, TypeOK
<1>5. CASE Fail(t)
  BY <1>5, FreeStep DEF Fail, Idle, files, IInv, TypeOK
<1>. QED  BY <1>1, <1>2, <1>3, <1>4, <1>5

LEMMA OpenSourceKeeps ==
  ASSUME IInv, UNCHANGED crew, NEW t \in Tasks, OpenSource(t)
  PROVE  IInv'
<1> DEFINE k == [task[t] EXCEPT !.pc = "copy", !.got = dest]
<1>1. task[t] \in Running
  BY RunningTask DEF IInv, OpenSource
<1>2. k \in Running /\ k.pc = "copy" /\ k.slot = task[t].slot
  BY <1>1 DEF IInv, TypeOK, OpenSource, Running
<1>3. \A s \in Slots :
        Holds(t, s) <=> (k.pc \in {"open", "copy"} /\ k.slot = s)
  BY <1>2 DEF Holds, OpenSource
<1>. QED  BY <1>2, <1>3, PrivateStep DEF OpenSource, files, IInv, TypeOK

(* create_new succeeds only on a free name, so no other install holds it. *)
LEMMA ReserveKeeps ==
  ASSUME IInv, UNCHANGED crew, NEW t \in Tasks, Reserve(t)
  PROVE  IInv'
<1> DEFINE k == [task[t] EXCEPT !.pc = "open"]
           n == task[t].slot
<1>1. task[t] \in Running
  BY RunningTask DEF IInv, Reserve
<1>2. k \in Running /\ k.pc = "open" /\ k.slot = n /\ n \in Slots
  BY <1>1 DEF Running
<1>3. /\ task' \in [Tasks -> {Idle} \cup Running]
      /\ task'[t] = k
      /\ \A u \in Tasks : u # t => task'[u] = task[u]
  BY <1>2, BecomeTyped DEF IInv, Reserve
<1>4. /\ quar[n] = None /\ quar' = [quar EXCEPT ![n] = "partial"]
      /\ UNCHANGED <<dest, row, orphans, crashes>>
  BY DEF Reserve
<1>5. TypeOK'
  BY <1>2, <1>3, <1>4 DEF IInv, TypeOK
<1>6. \A u \in Tasks : ~Holds(u, n)
  BY <1>2, <1>4, InstallAssumption DEF IInv, Exclusive
<1>7. \A u \in Tasks, s \in Slots :
        Holds(u, s)' <=> (IF s = n THEN u = t ELSE Holds(u, s))
  BY <1>2, <1>3, <1>6 DEF Holds, Reserve
<1>8. Exclusive'
  BY <1>2, <1>4, <1>7 DEF IInv, TypeOK, Exclusive
<1>9. ReservationsHeld'
  BY <1>2, <1>4, <1>7 DEF IInv, TypeOK, ReservationsHeld
<1>. QED  BY <1>5, <1>8, <1>9 DEF IInv

(* Giving a reservation up, by removing the file or failing to. *)
LEMMA ReleaseKeeps ==
  ASSUME IInv, UNCHANGED crew, NEW t \in Tasks, ReleaseReservation(t)
  PROVE  IInv'
<1> DEFINE n == task[t].slot
<1>1. task[t] \in Running /\ n \in Slots /\ Holds(t, n)
  BY RunningTask DEF IInv, ReleaseReservation, Running, Holds
<1>2. /\ task' \in [Tasks -> {Idle} \cup Running]
      /\ task'[t] = Idle
      /\ \A u \in Tasks : u # t => task'[u] = task[u]
  BY BecomeTyped DEF IInv, ReleaseReservation
<1>3. /\ UNCHANGED <<dest, row, crashes>>
      /\ \/ quar' = [quar EXCEPT ![n] = None] /\ orphans' = orphans
         \/ quar' = quar /\ orphans' = orphans \cup {n}
  BY DEF ReleaseReservation
<1>4. TypeOK'
  BY <1>1, <1>2, <1>3 DEF IInv, TypeOK, Files
<1>5. \A u \in Tasks : Holds(u, n) => u = t
  BY <1>1 DEF IInv, Exclusive
<1>6. \A u \in Tasks, s \in Slots :
        Holds(u, s)' <=> (s # n /\ Holds(u, s))
  BY <1>1, <1>2, <1>5 DEF Holds, Idle
<1>7. Exclusive'
  BY <1>1, <1>3, <1>6 DEF IInv, TypeOK, Exclusive
<1>8. ReservationsHeld'
  BY <1>1, <1>3, <1>6, InstallAssumption DEF IInv, TypeOK, ReservationsHeld
<1>. QED  BY <1>4, <1>7, <1>8 DEF IInv

(* The copy fills the reserved file, which stops being a reservation. *)
LEMMA CopiedKeeps ==
  ASSUME IInv, UNCHANGED crew, NEW t \in Tasks, Copied(t)
  PROVE  IInv'
<1> DEFINE k == [task[t] EXCEPT !.pc = "remove"]
           n == task[t].slot
<1>1. task[t] \in Running /\ n \in Slots /\ Holds(t, n)
  BY RunningTask DEF IInv, Copied, Running, Holds
<1>2. k \in Running /\ k.pc = "remove"
  BY <1>1 DEF Running
<1>3. /\ task' \in [Tasks -> {Idle} \cup Running]
      /\ task'[t] = k
      /\ \A u \in Tasks : u # t => task'[u] = task[u]
  BY <1>2, BecomeTyped DEF IInv, Copied
<1>4. /\ quar' = [quar EXCEPT ![n] = task[t].got]
      /\ UNCHANGED <<dest, row, orphans, crashes>>
      /\ task[t].got \in Files
  BY <1>1 DEF Copied, Running
<1>5. TypeOK'
  BY <1>1, <1>3, <1>4 DEF IInv, TypeOK
<1>6. \A u \in Tasks : Holds(u, n) => u = t
  BY <1>1 DEF IInv, Exclusive
<1>7. \A u \in Tasks, s \in Slots :
        Holds(u, s)' <=> (s # n /\ Holds(u, s))
  BY <1>1, <1>2, <1>3, <1>6 DEF Holds
<1>8. Exclusive'
  BY <1>1, <1>4, <1>7 DEF IInv, TypeOK, Exclusive
<1>9. ReservationsHeld'
  BY <1>1, <1>4, <1>7, InstallAssumption
     DEF IInv, TypeOK, ReservationsHeld, Files
<1>. QED  BY <1>5, <1>8, <1>9 DEF IInv

(* A crash ends every install; the names they had reserved are orphans. *)
LEMMA CrashKeeps ==
  ASSUME IInv, Crash
  PROVE  IInv'
<1>1. /\ task' = [t \in Tasks |-> Idle]
      /\ UNCHANGED <<dest, quar, row, crew>>
      /\ crashes < MaxCrashes /\ crashes' = crashes + 1
      /\ orphans' = orphans \cup
           {task[t].slot : t \in {u \in Tasks : task[u].pc \in {"open", "copy"}}}
  BY DEF Crash
<1>2. \A t \in Tasks : task[t].pc \in {"open", "copy"} => task[t].slot \in Slots
  BY RunningTask DEF IInv, Running
<1>3. TypeOK'
  BY <1>1, <1>2, InstallAssumption DEF IInv, TypeOK
<1>4. \A t \in Tasks, s \in Slots : ~Holds(t, s)'
  BY <1>1 DEF Holds, Idle
<1>5. Exclusive'
  BY <1>4 DEF Exclusive
<1>6. ReservationsHeld'
  BY <1>1 DEF IInv, ReservationsHeld, Holds
<1>. QED  BY <1>3, <1>5, <1>6 DEF IInv

LEMMA InductiveInit == Init => IInv
<1> SUFFICES ASSUME Init PROVE IInv
  OBVIOUS
<1>1. \A t \in Tasks, s \in Slots : ~Holds(t, s)
  BY DEF Init, Holds, Idle
<1>2. ReservationsHeld
  BY InstallAssumption DEF Init, ReservationsHeld
<1>. QED  BY <1>1, <1>2, InitTypeOK DEF IInv, Exclusive

LEMMA InductiveStep == IInv /\ [Next]_vars => IInv'
<1> SUFFICES ASSUME IInv, [Next]_vars PROVE IInv'
  OBVIOUS
<1>1. ASSUME NEW t \in Tasks, NEW h \in Expected,
             NEW tokens \in SUBSET Servers, NEW may \in BOOLEAN,
             NEW i \in 1 .. Len(ServerUrls), Begin(t, h, tokens, may, i)
      PROVE  IInv'
  BY <1>1, BeginKeeps
<1>2. ASSUME NEW t \in Tasks, Work(t)
      PROVE  IInv'
  BY <1>2, DownloadKeeps, VerifyKeeps, OpenSourceKeeps, ReserveKeeps,
     ReleaseKeeps, CopiedKeeps DEF Work
<1>3. CASE Crash
  BY <1>3, CrashKeeps
<1>4. CASE UNCHANGED vars
  BY <1>4 DEF vars, IInv, TypeOK, Exclusive, ReservationsHeld, Holds
<1>. QED  BY <1>1, <1>2, <1>3, <1>4 DEF Next

-----------------------------------------------------------------------------
(* The inductive invariant holds in every reachable state. *)
THEOREM Invariance == Spec => []IInv
BY InductiveInit, InductiveStep, PTL DEF Spec

(* Files, row and installs are well formed: artifact.bin is never partial  *)
(* (download_to_path renames a complete file over it).                     *)
THEOREM TypeCorrect == Spec => []TypeOK
<1>1. IInv => TypeOK
  BY DEF IInv
<1>. QED  BY <1>1, Invariance, PTL

(* A reserved quarantine name has exactly one owner, or was left behind by *)
(* a crash or a failed clean-up (copy_artifact_to_reserved_quarantine).    *)
THEOREM ReservationsAreHeld == Spec => []ReservationsHeld
<1>1. IInv => ReservationsHeld
  BY DEF IInv
<1>. QED  BY <1>1, Invariance, PTL

(* A quarantined artifact is never overwritten or removed, whatever other  *)
(* installs do (quarantine_corrupt_artifact).                              *)
THEOREM QuarantineIsKept == Spec => QuarantineKept
<1>1. IInv /\ [Next]_vars =>
        [\A s \in Slots : quar[s] \in Contents => quar'[s] = quar[s]]_vars
  <2> SUFFICES ASSUME IInv, Next, NEW s \in Slots, quar[s] \in Contents
               PROVE  quar'[s] = quar[s]
    OBVIOUS
  <2>1. quar[s] # None /\ quar[s] # "partial"
    BY InstallAssumption
  <2>2. \A t \in Tasks : ~Holds(t, s)
    BY <2>1 DEF IInv, Exclusive
  <2>3. ASSUME NEW t \in Tasks, Reserve(t)
        PROVE  quar'[s] = quar[s]
    <3>1. task[t].slot # s
      BY <2>1, <2>3 DEF Reserve
    <3>. QED  BY <2>3, <3>1 DEF IInv, TypeOK, Reserve
  <2>4. ASSUME NEW t \in Tasks, ReleaseReservation(t) \/ Copied(t)
        PROVE  quar'[s] = quar[s]
    <3>1. task[t].slot # s
      BY <2>2, <2>4 DEF Holds, ReleaseReservation, Copied
    <3>. QED  BY <2>4, <3>1 DEF IInv, TypeOK, ReleaseReservation, Copied
  <2>5. ASSUME NEW t \in Tasks, Work(t)
        PROVE  quar'[s] = quar[s]
    BY <2>3, <2>4, <2>5 DEF Work, StartBody, FinishBody, Rename, Hash, Record,
       TryNext, OpenSource, Remove, Fail, files
  <2>. QED  BY <2>5 DEF Next, Begin, Crash, files
<1>. QED  BY <1>1, Invariance, PTL DEF Spec, QuarantineKept

(* What an install knows of artifact.bin at the steps that rely on it, as  *)
(* long as no other install changes the file.                              *)
Knows(t) ==
  /\ task[t].pc = "record" => dest = task[t].hash
  /\ task[t].pc = "copy" => task[t].got = dest
  /\ task[t].pc = "remove" => quar[task[t].slot] = dest

SoloInv ==
  /\ \A t \in Tasks : task[t].pc # "idle" => t \in crew
  /\ Alone => \A t \in Tasks : Knows(t)

(* A step of an install that knows what it must afterwards.                *)
LEMMA SoloStep ==
  ASSUME IInv, SoloInv, NEW t \in Tasks, NEW k \in {Idle} \cup Running, Become(t, k),
         task[t].pc # "idle" \/ t \in crew, UNCHANGED crew,
         /\ k.pc = "record" => dest' = k.hash
         /\ k.pc = "copy" => k.got = dest'
         /\ k.pc = "remove" => quar'[k.slot] = dest'
  PROVE  SoloInv'
<1>1. /\ task'[t] = k
      /\ \A u \in Tasks : u # t => task'[u] = task[u]
  BY BecomeTyped DEF IInv
<1>2. t \in crew
  BY DEF SoloInv
<1>3. Alone => \A u \in Tasks : u # t => task[u].pc = "idle"
  BY <1>2 DEF SoloInv, Alone
<1>4. Alone' => \A u \in Tasks : Knows(u)'
  <2> SUFFICES ASSUME Alone, NEW u \in Tasks  PROVE  Knows(u)'
    BY DEF Alone
  <2>1. CASE u = t
    BY <1>1, <2>1 DEF Knows
  <2>2. CASE u # t
    BY <1>1, <1>3, <2>2 DEF Knows
  <2>. QED  BY <2>1, <2>2
<1>. QED  BY <1>1, <1>2, <1>4 DEF SoloInv

LEMMA SoloKept ==
  ASSUME IInv, SoloInv, [Next]_vars
  PROVE  SoloInv'
<1>1. ASSUME NEW t \in Tasks, NEW h \in Expected, NEW tokens, NEW may,
             NEW i \in 1 .. Len(ServerUrls), Begin(t, h, tokens, may, i)
      PROVE  SoloInv'
  <2> DEFINE k == [pc |-> "get", hash |-> h, server |-> ServerUrls[i],
                   temp |-> None, got |-> None, slot |-> 0]
  <2>1. k \in Running /\ k.pc = "get"
    BY InstallAssumption DEF Running, Servers, Files, Slots
  <2>. QED  BY <1>1, <2>1, SoloStep DEF Begin
<1>2. ASSUME NEW t \in Tasks, Work(t)  PROVE  SoloInv'
  <2>0. UNCHANGED crew
    BY <1>2 DEF Work
  <2>1. CASE task[t].pc # "idle" /\ Become(t, Idle)
    BY <2>0, <2>1, SoloStep DEF Idle
  <2>2. CASE StartBody(t) \/ \E x \in Contents : FinishBody(t, x)
    <3>1. PICK x \in Contents \cup {"partial"} :
            task[t].pc \in {"get", "write"} /\ Become(t, [task[t] EXCEPT !.pc = "write", !.temp = x])
      <4>1. CASE StartBody(t)
        BY <4>1 DEF StartBody
      <4>2. CASE \E x \in Contents : FinishBody(t, x)
        <5>1. PICK x \in Contents : FinishBody(t, x)
          BY <4>2
        <5>2. task[t] \in Running /\ task[t].pc = "write"
          BY <5>1, RunningTask DEF IInv, FinishBody
        <5>3. [task[t] EXCEPT !.pc = "write", !.temp = x] = [task[t] EXCEPT !.temp = x]
          BY <5>2 DEF Running
        <5>. QED  BY <5>1, <5>2, <5>3 DEF FinishBody
      <4>. QED  BY <2>2, <4>1, <4>2
    <3> DEFINE k == [task[t] EXCEPT !.pc = "write", !.temp = x]
    <3>2. task[t] \in Running /\ k \in Running /\ k.pc = "write"
      BY <3>1, RunningTask DEF IInv, Running, Files
    <3>. QED  BY <2>0, <3>1, <3>2, SoloStep
  <2>3. CASE Rename(t)
    <3> DEFINE k == [task[t] EXCEPT !.pc = "hash", !.temp = None]
    <3>1. task[t] \in Running /\ k \in Running /\ k.pc = "hash"
      BY <2>3, RunningTask DEF IInv, Rename, Running, Files
    <3>. QED  BY <2>0, <2>3, <3>1, SoloStep DEF Rename
  <2>4. CASE Hash(t)
    <3> DEFINE k == [task[t] EXCEPT !.got = dest,
                      !.pc = IF dest = task[t].hash THEN "record" ELSE "reserve"]
    <3>1. /\ task[t] \in Running /\ k \in Running /\ k.hash = task[t].hash
          /\ k.pc = IF dest = task[t].hash THEN "record" ELSE "reserve"
      BY <2>4, RunningTask DEF IInv, TypeOK, Hash, Running
    <3>2. Become(t, k) /\ UNCHANGED <<dest, quar>> /\ task[t].pc # "idle"
      BY <2>4 DEF Hash, files
    <3>3. k.pc = "record" => dest' = k.hash
      BY <3>1, <3>2
    <3>4. k.pc \in {"record", "reserve"}
      BY <3>1
    <3> HIDE DEF k
    <3>. QED  BY <2>0, <3>1, <3>2, <3>3, <3>4, SoloStep
  <2>5. CASE Reserve(t)
    <3> DEFINE k == [task[t] EXCEPT !.pc = "open"]
    <3>1. task[t] \in Running /\ k \in Running /\ k.pc = "open"
      BY <2>5, RunningTask DEF IInv, Reserve, Running
    <3>. QED  BY <2>0, <2>5, <3>1, SoloStep DEF Reserve
  <2>6. CASE TryNext(t) /\ task[t].slot # MaxSlot
    <3> DEFINE k == [task[t] EXCEPT !.slot = @ + 1]
    <3>1. task[t] \in Running
      BY <2>6, RunningTask DEF IInv, TryNext
    <3>2. k \in Running /\ k.pc = "reserve"
      BY <2>6, <3>1, InstallAssumption DEF TryNext, Running, Slots
    <3>. QED  BY <2>0, <2>6, <3>2, SoloStep DEF TryNext
  <2>7. CASE OpenSource(t)
    <3> DEFINE k == [task[t] EXCEPT !.pc = "copy", !.got = dest]
    <3>1. task[t] \in Running /\ k \in Running /\ k.pc = "copy" /\ k.got = dest
      BY <2>7, RunningTask DEF IInv, TypeOK, OpenSource, Running
    <3>. QED  BY <2>0, <2>7, <3>1, SoloStep DEF OpenSource, files
  <2>8. CASE Copied(t) /\ Alone
    <3> DEFINE k == [task[t] EXCEPT !.pc = "remove"]
    <3>1. /\ task[t] \in Running /\ k \in Running /\ k.pc = "remove"
          /\ k.slot = task[t].slot /\ k.slot \in Slots
      BY <2>8, RunningTask DEF IInv, Copied, Running
    <3>2. quar'[k.slot] = task[t].got /\ task[t].got = dest
      BY <2>8, <3>1 DEF Copied, IInv, TypeOK, SoloInv, Knows
    <3>. QED  BY <2>0, <2>8, <3>1, <3>2, SoloStep DEF Copied
  <2>9. CASE Copied(t) /\ ~Alone
    <3> DEFINE k == [task[t] EXCEPT !.pc = "remove"]
    <3>1. task[t] \in Running /\ k \in Running
      BY <2>9, RunningTask DEF IInv, Copied, Running
    <3>2. \A u \in Tasks : u # t => task'[u] = task[u]
      BY <2>9, <3>1, BecomeTyped DEF IInv, Copied
    <3>3. task[t].pc # "idle" /\ ~Alone'
      BY <2>0, <2>9 DEF Copied, Alone
    <3>. QED  BY <2>0, <3>2, <3>3 DEF SoloInv
  <2>. QED  BY <1>2, <2>1, <2>2, <2>3, <2>4, <2>5, <2>6, <2>7, <2>8, <2>9
            DEF Work, Record, TryNext, ReleaseReservation, Remove, Fail
<1>3. CASE Crash
  BY <1>3 DEF Crash, SoloInv, Knows, Idle
<1>4. CASE UNCHANGED vars
  BY <1>4 DEF vars, SoloInv, Knows, Alone
<1>. QED  BY <1>1, <1>2, <1>3, <1>4 DEF Next

LEMMA SoloInvariance == Spec => [](IInv /\ SoloInv)
<1>1. Init => SoloInv
  BY DEF Init, SoloInv, Knows, Idle
<1>. QED  BY <1>1, SoloKept, InductiveInit, InductiveStep, PTL DEF Spec

(* With no other install of the game, the row is written while             *)
(* artifact.bin is the file it describes                                   *)
(* (verify_and_record_downloaded_game).                                    *)
THEOREM RecordedAlwaysMatches == Spec => RecordedArtifactMatches
<1>1. SoloInv /\ [Next]_vars => [Alone /\ row' # row => dest' = row'.hash]_vars
  <2> SUFFICES ASSUME SoloInv, Next, Alone, row' # row  PROVE  dest' = row'.hash
    OBVIOUS
  <2>1. PICK t \in Tasks : Record(t)
    BY DEF Next, Begin, Work, Crash, StartBody, FinishBody, Rename, Hash, Reserve,
           TryNext, OpenSource, ReleaseReservation, Copied, Remove, Fail, files
  <2>2. dest = task[t].hash
    BY <2>1 DEF SoloInv, Knows, Record
  <2>. QED  BY <2>1, <2>2 DEF Record
<1>. QED  BY <1>1, SoloInvariance, PTL DEF Spec, RecordedArtifactMatches

(* With no other install of the game, artifact.bin is removed only after   *)
(* its content was quarantined (quarantine_corrupt_artifact).              *)
THEOREM RemovedAlwaysQuarantined == Spec => RemovedIsQuarantined
<1>1. IInv /\ SoloInv /\ [Next]_vars =>
        [Alone /\ dest # None /\ dest' = None => \E s \in Slots : quar[s] = dest]_vars
  <2> SUFFICES ASSUME IInv, SoloInv, Next, Alone, dest # None, dest' = None
               PROVE  \E s \in Slots : quar[s] = dest
    OBVIOUS
  <2>1. PICK t \in Tasks : Remove(t)
    BY InstallAssumption
       DEF Next, Begin, Work, Crash, StartBody, FinishBody, Rename, Hash, Reserve,
           TryNext, OpenSource, ReleaseReservation, Copied, Record, Fail, files
  <2>2. task[t].slot \in Slots
    BY <2>1, RunningTask DEF IInv, Remove, Running
  <2>3. quar[task[t].slot] = dest
    BY <2>1 DEF SoloInv, Knows, Remove
  <2>. QED  BY <2>2, <2>3
<1>. QED  BY <1>1, SoloInvariance, PTL DEF Spec, RemovedIsQuarantined

-----------------------------------------------------------------------------
(* Part 2.  Uploads.                                                        *)

-----------------------------------------------------------------------------
(* A picked file, an upload task, a job of the dialog and the dialog.      *)
PickOrNone == 0 .. MaxPicks
RequestOrNone == 0 .. MaxRequests
Someone == Accounts \cup {Nothing}
Content == Media \cup {Nothing}
Selection == [id : PickOrNone, seen : Content, preview : Content]

UploadRec ==
  [ at : {"new", "listen", "start", "activate", "select", "hash", "sign", "send",
          "finish", "back", "done"},
    sel : Selection, session : Nat, account : Someone, gen : Nat, stamp : Nat,
    kind : Content, hash : Content, opened : Content, sent : Content, claim : Content,
    op : BOOLEAN, active : BOOLEAN, token : BOOLEAN,
    why : {"none", "ok", "failed", "cancelled"} ]

JobRec ==
  [ at : {"free", "cancel", "stop", "remove", "clean", "clear", "ask", "inspect",
          "preview", "back"},
    upload : RequestOrNone, sel : PickOrNone, ops : SUBSET Requests, pick : BOOLEAN,
    full : BOOLEAN, session : Nat, account : Someone, gen : Nat, found : Selection,
    why : {"none", "ok", "failed"} ]

DialogRec ==
  [ open : BOOLEAN, session : Nat, account : Someone, gen : Nat,
    state : {"idle", "selecting", "ready", "uploading", "cancelled", "failed"},
    sel : Selection, request : RequestOrNone, upload : RequestOrNone, alive : BOOLEAN,
    listener : RequestOrNone ]

(* The service, the tasks and the dialog are well formed.                  *)
UploadsTypeOK ==
  /\ limit \in Limits
  /\ auth \in Someone /\ shown \in Someone
  /\ context \in Nat
  /\ file \in [content : Media, stamp : Nat \ {0}]
  /\ registry \in [Picks -> Nat]
  /\ up \in [Requests -> UploadRec]
  /\ job \in [Jobs -> JobRec]
  /\ ui \in DialogRec
  /\ picks \in PickOrNone
  /\ gaveUp \subseteq Requests

-----------------------------------------------------------------------------
(* A request that the dialog has made and that has not been answered to it.*)
UnderWay(k) == k.at \notin {"new", "done"}

(* What a request sent or delivered is on the server.                      *)
Delivered(k) ==
  /\ k.at = "finish" => k.sent \in stored
  /\ k.at = "back" /\ k.why = "ok" => k.hash \in stored

StoredInv == DraftIsStored /\ \A r \in Requests : Delivered(up[r])

-----------------------------------------------------------------------------
(* The selection a job has picked and not yet handed to the dialog.        *)
Held(k) ==
  IF k.at \in {"inspect", "preview"} THEN k.sel
  ELSE IF k.at = "back" /\ k.why = "ok" THEN k.found.id
  ELSE 0

(* A job that will clear the selection of the dialog.                      *)
Clearing(k) == k.pick /\ k.at \in {"stop", "remove", "clean", "clear"}

(* The context of a dialog or request is gone, or will be when the shown   *)
(* account leaves the publisher's.                                         *)
Outdated(k) == k.account # shown => k.gen < context \/ shown = Publisher

(* Selections of requests and of the dialog were picked, and contexts and  *)
(* sessions never come back.                                               *)
RequestFits(k) ==
  /\ k.sel.id \in 1 .. picks
  /\ k.session <= ui.session /\ k.gen <= context /\ Outdated(k)

DialogFits ==
  /\ ui.sel.id \in 0 .. picks
  /\ ~ui.open => ui.sel.id = 0 /\ ui.request = 0
  /\ ui.open => ui.gen <= context /\ Outdated(ui)

SameSession(r) ==
  Pending(r) =>
    up[r].session = ui.session /\ up[r].account = ui.account /\ up[r].gen = ui.gen

JobFits(k) ==
  /\ k.at \in {"free", "cancel"} => ~k.pick
  /\ k.at \in {"clear", "ask", "inspect", "preview", "back"} => k.pick
  /\ Held(k) <= picks
  /\ Clearing(k) => k.sel <= picks
  /\ k.at = "inspect" => k.sel # 0
  /\ k.at = "preview" => k.sel # 0 /\ k.found.id = k.sel
  /\ k.pick => k.session <= ui.session
  /\ k.pick /\ k.session = ui.session /\ ui.open =>
       k.account = ui.account /\ (k.full => k.gen = ui.gen)
  /\ Clearing(k) /\ k.sel = ui.sel.id /\ ui.sel.id # 0 => k.session = ui.session

(* What a job holds is known to nobody else.                               *)
HeldAlone(j) ==
  Held(job[j]) # 0 =>
    /\ Held(job[j]) # ui.sel.id
    /\ \A r \in Requests : UnderWay(up[r]) => up[r].sel.id # Held(job[j])
    /\ \A i \in Jobs : i # j => Held(job[i]) # Held(job[j])
    /\ \A i \in Jobs : Clearing(job[i]) => job[i].sel # Held(job[j])

FitsInv ==
  /\ DialogFits /\ SameSession(ui.request)
  /\ \A r \in Requests : UnderWay(up[r]) => RequestFits(up[r])
  /\ \A j \in Jobs : JobFits(job[j]) /\ HeldAlone(j)

-----------------------------------------------------------------------------
(* As long as a selection is registered and the file has its stamp, the    *)
(* file is the one shown.                                                  *)
Faithful(sel) ==
  registry[sel.id] # 0 /\ registry[sel.id] = file.stamp => sel.preview = file.content

(* The same for a request, which reads the stamp and then the file.        *)
RequestFaithful(k) ==
  /\ k.at \in {"listen", "start", "activate", "select"} => Faithful(k.sel)
  /\ k.at = "hash" /\ k.stamp = file.stamp => k.sel.preview = file.content
  /\ k.at \in {"sign", "send", "finish"} => k.hash = k.sel.preview
  /\ k.at = "back" /\ k.why = "ok" => k.hash = k.sel.preview

StampsPast ==
  /\ \A s \in Picks : registry[s] <= file.stamp
  /\ \A r \in Requests : up[r].stamp <= file.stamp

(* A job that hands a selection to the dialog.                             *)
Hands(k) == k.at = "back" /\ k.why = "ok"

PreviewInv ==
  /\ StampsPast
  /\ PreviewIsUploaded
  /\ ~forged =>
       /\ ui.sel.id # 0 => Faithful(ui.sel)
       /\ \A r \in Requests : UnderWay(up[r]) => RequestFaithful(up[r])
       /\ \A j \in Jobs : Hands(job[j]) /\ job[j].found.id # 0 => Faithful(job[j].found)

-----------------------------------------------------------------------------
(* A request that was given up is not accepted any more.                   *)
Dead(k) ==
  \/ k.session < ui.session
  \/ k.gen < context
  \/ shown = Publisher /\ k.account # Publisher
  \/ ui.sel.id # k.sel.id

GivenUpInv ==
  \A r \in gaveUp : up[r].at # "new" /\ (UnderWay(up[r]) => Dead(up[r]))

-----------------------------------------------------------------------------
(* Why the dialog may say Uploading: its request is under way for the      *)
(* selection it shows, a job of this session will replace the selection,   *)
(* or the dialog is about to close.                                        *)
Busy ==
  \/ Pending(ui.request) /\ up[ui.request].sel.id = ui.sel.id
  \/ \E j \in Jobs : /\ job[j].pick /\ ~Clearing(job[j])
                     /\ job[j].session = ui.session
  \/ ui.account # shown \/ ui.gen # context

BusyInv ==
  ui.open /\ ui.state = "uploading" /\ ~crossed =>
    /\ Busy
    /\ Pending(ui.request) /\ up[ui.request].at = "listen" => ui.alive

UploadsInv ==
  UploadsTypeOK /\ StoredInv /\ FitsInv /\ PreviewInv /\ GivenUpInv /\ BusyInv

-----------------------------------------------------------------------------
(* Typing.                                                                 *)

(* The bounds of one behaviour are within those of the model.              *)
LEMMA LimitBounds ==
  ASSUME UploadsTypeOK
  PROVE  /\ limit.picks \in PickOrNone /\ limit.requests \in RequestOrNone
         /\ limit.jobs \in 0 .. MaxJobs
         /\ MaxPicks \in Nat /\ MaxRequests \in Nat /\ MaxJobs \in Nat
BY UploadsAssumption DEF UploadsTypeOK, PickOrNone, RequestOrNone

(* The records the actions start from are well formed.                     *)
LEMMA EmptyRecords ==
  /\ NoSelection \in Selection /\ NoUpload \in UploadRec /\ NoJob \in JobRec
  /\ Done \in UploadRec
  /\ \A n \in Nat : Closed(n) \in DialogRec
<1>1. MaxPicks \in Nat /\ MaxRequests \in Nat
  BY UploadsAssumption
<1>2. NoSelection \in Selection
  BY <1>1 DEF NoSelection, Selection, PickOrNone, Content
<1>3. NoUpload \in UploadRec
  BY <1>2 DEF NoUpload, UploadRec, Content, Someone
<1>4. Done \in UploadRec
  BY <1>2 DEF NoUpload, UploadRec, Content, Someone, Done
<1>5. NoJob \in JobRec
  BY <1>1, <1>2 DEF NoJob, JobRec, PickOrNone, RequestOrNone, Someone
<1>6. \A n \in Nat : Closed(n) \in DialogRec
  BY <1>1, <1>2 DEF Closed, DialogRec, RequestOrNone, Someone
<1>. QED  BY <1>2, <1>3, <1>4, <1>5, <1>6

LEMMA UploadsInitTyped == UploadsInit => UploadsTypeOK
BY EmptyRecords, UploadsAssumption
   DEF UploadsInit, UploadsTypeOK, Someone, PickOrNone, Picks

(* A request goes on; what the dialog asked for stays in its record.       *)
Advance(r, k) ==
  /\ k \in UploadRec /\ UnderWay(up[r]) /\ UnderWay(k) /\ k.at # "listen"
  /\ k.sel = up[r].sel /\ k.session = up[r].session
  /\ k.account = up[r].account /\ k.gen = up[r].gen
  /\ up' = [up EXCEPT ![r] = k]

(* A step of the service for one request.                                  *)
ServiceStep(r, k) ==
  /\ Advance(r, k)
  /\ registry' \in [Picks -> Nat]
  /\ \A s \in Picks : registry'[s] \in {0, registry[s]}
  /\ stored \subseteq stored'
  /\ UNCHANGED <<env, draft, job, dialog, picks, opens>>

(* What an ended command answers.                                          *)
LEMMA EndedTyped ==
  ASSUME NEW k \in UploadRec, NEW why \in {"ok", "failed", "cancelled"}
  PROVE  /\ Ended(k, why) \in UploadRec
         /\ Ended(k, why).at = "back" /\ Ended(k, why).why = why
         /\ Ended(k, why).sel = k.sel /\ Ended(k, why).session = k.session
         /\ Ended(k, why).account = k.account /\ Ended(k, why).gen = k.gen
         /\ why = "ok" => Ended(k, why).hash = k.hash
         /\ Ended(k, why).stamp = 0
<1>1. CASE why = "ok"
  BY <1>1, EmptyRecords DEF Ended, NoUpload, UploadRec
<1>2. CASE why # "ok"
  BY <1>2, EmptyRecords DEF Ended, NoUpload, UploadRec
<1>. QED  BY <1>1, <1>2

(* Every step of the service is a ServiceStep.                             *)
LEMMA ServeSteps ==
  ASSUME UploadsTypeOK, FitsInv, NEW r \in Requests, Serve(r)
  PROVE  \E k \in UploadRec : ServiceStep(r, k)
<1> DEFINE u == up[r]
<1>0. /\ u \in UploadRec /\ registry \in [Picks -> Nat]
      /\ file.content \in Content
      /\ UNCHANGED <<env, draft, job, dialog, picks, opens>>
  BY DEF UploadsTypeOK, Content, Serve
<1>1. CASE Start(r)
  <2> DEFINE k == [u EXCEPT !.at = "activate", !.op = TRUE]
  <2>1. k \in UploadRec
    BY <1>0 DEF UploadRec
  <2>. QED  BY <1>0, <1>1, <2>1 DEF Start, Request, At, ServiceStep, Advance, UnderWay, UploadRec
<1>2. CASE Activate(r)
  <2> DEFINE k == [u EXCEPT !.at = "select", !.active = TRUE]
  <2>1. k \in UploadRec
    BY <1>0 DEF UploadRec
  <2>. QED  BY <1>0, <1>2, <2>1 DEF Activate, Request, At, ServiceStep, Advance, UnderWay, UploadRec
<1>3. CASE Select(r)
  <2> DEFINE k == [u EXCEPT !.at = "hash", !.stamp = registry[u.sel.id], !.kind = file.content]
  <2>1. u.sel.id \in Picks /\ registry[u.sel.id] \in Nat
    <3>1. u.sel.id \in 1 .. picks
      BY <1>3 DEF Select, At, FitsInv, UnderWay, RequestFits
    <3>2. picks \in PickOrNone /\ MaxPicks \in Nat
      BY LimitBounds DEF UploadsTypeOK
    <3>. QED  BY <1>0, <3>1, <3>2 DEF PickOrNone, Picks
  <2>2. k \in UploadRec
    BY <1>0, <2>1 DEF UploadRec
  <2>. QED  BY <1>0, <1>3, <2>2 DEF Select, Request, At, ServiceStep, Advance, UnderWay, UploadRec
<1>4. CASE HashFile(r)
  <2> DEFINE k == [u EXCEPT !.at = "sign", !.hash = file.content]
  <2>1. k \in UploadRec
    BY <1>0 DEF UploadRec
  <2>. QED  BY <1>0, <1>4, <2>1 DEF HashFile, Request, At, ServiceStep, Advance, UnderWay, UploadRec
<1>5. CASE Sign(r)
  <2> DEFINE k == [u EXCEPT !.at = "send", !.opened = file.content]
  <2>1. k \in UploadRec
    BY <1>0 DEF UploadRec
  <2>. QED  BY <1>0, <1>5, <2>1 DEF Sign, Request, At, ServiceStep, Advance, UnderWay, UploadRec
<1>6. CASE Send(r)
  <2>1. PICK body \in {u.opened, file.content} :
          /\ stored' = stored \cup {body}
          /\ \E claim \in {u.hash, body} :
               Request(r, [u EXCEPT !.at = "finish", !.sent = body, !.claim = claim])
    BY <1>6 DEF Send
  <2>2. PICK claim \in {u.hash, body} :
          Request(r, [u EXCEPT !.at = "finish", !.sent = body, !.claim = claim])
    BY <2>1
  <2> DEFINE k == [u EXCEPT !.at = "finish", !.sent = body, !.claim = claim]
  <2>3. k \in UploadRec
    BY <1>0 DEF UploadRec
  <2>. QED  BY <1>0, <1>6, <2>1, <2>2, <2>3
            DEF Send, Request, At, ServiceStep, Advance, UnderWay, UploadRec
<1>7. CASE Finish(r)
  <2>1. registry' \in [Picks -> Nat] /\ \A s \in Picks : registry'[s] \in {0, registry[s]}
    BY <1>0, <1>7 DEF Finish
  <2>2. Ended(u, "ok") \in UploadRec
    BY <1>0, EndedTyped
  <2>. QED  BY <1>0, <1>7, <2>1, <2>2, EndedTyped
            DEF Finish, Request, At, ServiceStep, Advance, UnderWay
<1>8. CASE UploadFails(r)
  BY <1>0, <1>8, EndedTyped DEF UploadFails, Request, At, ServiceStep, Advance, UnderWay
<1>9. CASE Cancelled(r)
  BY <1>0, <1>9, EndedTyped DEF Cancelled, Request, At, ServiceStep, Advance, UnderWay
<1>. QED  BY <1>1, <1>2, <1>3, <1>4, <1>5, <1>6, <1>7, <1>8, <1>9 DEF Serve

-----------------------------------------------------------------------------
(* Steps that leave the dialog and its requests where they are.            *)

(* A request stays what it is to the dialog.                               *)
Steady(k, l) ==
  /\ l.sel = k.sel /\ l.session = k.session /\ l.account = k.account /\ l.gen = k.gen
  /\ UnderWay(l) <=> UnderWay(k)
  /\ l.at = "listen" => k.at = "listen"
  /\ l.at = "new" => k.at = "new"

SteadyRequests == \A r \in Requests : Steady(up[r], up'[r])

(* So does the dialog.                                                     *)
SteadyDialog ==
  /\ ui'.open = ui.open /\ ui'.session = ui.session /\ ui'.account = ui.account
  /\ ui'.gen = ui.gen /\ ui'.state = ui.state /\ ui'.sel = ui.sel
  /\ ui'.request = ui.request /\ ui'.alive = ui.alive
  /\ UNCHANGED <<shown, context, gaveUp, crossed>>

LEMMA SteadyUnchanged ==
  ASSUME UNCHANGED up
  PROVE  SteadyRequests
BY DEF SteadyRequests, Steady

(* A request that goes on stays what it is to the dialog.                  *)
LEMMA AdvanceSteady ==
  ASSUME UploadsTypeOK, NEW r \in Requests, NEW k, Advance(r, k)
  PROVE  SteadyRequests /\ up' \in [Requests -> UploadRec]
<1>1. \A q \in Requests : up'[q] = IF q = r THEN k ELSE up[q]
  BY DEF UploadsTypeOK, Advance
<1>2. SteadyRequests
  BY <1>1 DEF Advance, SteadyRequests, Steady, UnderWay
<1>. QED  BY <1>2 DEF UploadsTypeOK, Advance

(* Such a step keeps what is known of the requests, of those given up,     *)
LEMMA RequestsStayFit ==
  ASSUME UploadsTypeOK, FitsInv, SteadyRequests, SteadyDialog, picks <= picks',
         picks' \in Nat
  PROVE  /\ \A r \in Requests : UnderWay(up[r])' => RequestFits(up[r])'
         /\ SameSession(ui.request)'
<1>1. ASSUME NEW r \in Requests, UnderWay(up[r])'  PROVE  RequestFits(up[r])'
  <2>1. UnderWay(up[r]) /\ RequestFits(up[r]) /\ Steady(up[r], up'[r])
    BY <1>1 DEF FitsInv, SteadyRequests, Steady
  <2>2. up[r].sel.id \in 1 .. picks /\ picks \in Nat
    BY <2>1 DEF RequestFits, UploadsTypeOK, PickOrNone
  <2>. QED  BY <2>1, <2>2 DEF RequestFits, Outdated, SteadyDialog, Steady
<1>2. SameSession(ui.request)'
  <2> SUFFICES ASSUME Pending(ui.request)'
               PROVE  /\ up'[ui.request].session = ui.session
                      /\ up'[ui.request].account = ui.account
                      /\ up'[ui.request].gen = ui.gen
    BY DEF SameSession, SteadyDialog
  <2>1. ui.request \in Requests /\ up'[ui.request].at \notin {"new", "done"}
    BY UploadsAssumption DEF UploadsTypeOK, DialogRec, RequestOrNone, Requests, Pending, SteadyDialog
  <2>2. Steady(up[ui.request], up'[ui.request]) /\ UnderWay(up'[ui.request])
    BY <2>1 DEF SteadyRequests, UnderWay
  <2>3. Pending(ui.request)
    BY <2>1, <2>2 DEF Steady, UnderWay, Pending, Requests
  <2>. QED  BY <2>2, <2>3 DEF FitsInv, SameSession, Steady
<1>. QED  BY <1>1, <1>2

LEMMA GivenUpStays ==
  ASSUME UploadsTypeOK, GivenUpInv, SteadyRequests, SteadyDialog
  PROVE  GivenUpInv'
BY DEF GivenUpInv, SteadyRequests, Steady, SteadyDialog, Dead, UploadsTypeOK

(* A job goes on.                                                          *)
JobAdvance(j, k) ==
  /\ k \in JobRec
  /\ job' = [job EXCEPT ![j] = k]
  /\ Held(k) \in {0, Held(job[j])} \/ (Held(k) = picks' /\ picks' = picks + 1)
  /\ Clearing(k) => Clearing(job[j]) /\ k.sel = job[j].sel
  /\ JobFits(k)'
  /\ job[j].pick /\ ~Clearing(job[j]) => k.pick /\ ~Clearing(k) /\ k.session = job[j].session

(* why the dialog says Uploading,                                          *)
LEMMA DialogStaysBusy ==
  ASSUME UploadsTypeOK, BusyInv, SteadyRequests, SteadyDialog,
         \A j \in Jobs : job[j].pick /\ ~Clearing(job[j]) =>
           job'[j].pick /\ ~Clearing(job[j])' /\ job'[j].session = job[j].session
  PROVE  BusyInv'
<1> SUFFICES ASSUME ui.open, ui.state = "uploading", ~crossed
             PROVE  Busy' /\ (Pending(ui.request)' /\ up'[ui'.request].at = "listen" => ui'.alive)
  BY DEF BusyInv, SteadyDialog
<1>1. Busy /\ (Pending(ui.request) /\ up[ui.request].at = "listen" => ui.alive)
  BY DEF BusyInv
<1>2. ui.request # 0 => ui.request \in Requests
  BY UploadsAssumption DEF UploadsTypeOK, DialogRec, RequestOrNone, Requests
<1>3. Pending(ui.request)' <=> Pending(ui.request)
  BY <1>2 DEF Pending, SteadyRequests, Steady, UnderWay, SteadyDialog
<1>4. ui.request # 0 => Steady(up[ui.request], up'[ui.request])
  BY <1>2 DEF SteadyRequests
<1>5. Busy'
  BY <1>1, <1>2, <1>3, <1>4 DEF Busy, SteadyDialog, Steady, Pending
<1>6. Pending(ui.request)' /\ up'[ui'.request].at = "listen" => ui'.alive
  BY <1>1, <1>3, <1>4 DEF SteadyDialog, Steady, Pending
<1>. QED  BY <1>5, <1>6

(* and of the jobs.                                                        *)
LEMMA FitsWithoutJobs ==
  ASSUME UploadsTypeOK, FitsInv, SteadyRequests, SteadyDialog, UNCHANGED <<job, picks>>
  PROVE  FitsInv'
<1>1. picks \in Nat
  BY UploadsAssumption DEF UploadsTypeOK, PickOrNone
<1>2. DialogFits'
  BY DEF FitsInv, DialogFits, Outdated, SteadyDialog
<1>3. \A j \in Jobs : JobFits(job[j])'
  BY DEF FitsInv, JobFits, SteadyDialog, Held, Clearing
<1>4. \A j \in Jobs : HeldAlone(j)'
  <2> SUFFICES ASSUME NEW j \in Jobs, Held(job[j]) # 0
               PROVE  /\ Held(job[j]) # ui.sel.id
                      /\ \A r \in Requests : UnderWay(up[r])' => up'[r].sel.id # Held(job[j])
                      /\ \A i \in Jobs : i # j => Held(job[i]) # Held(job[j])
                      /\ \A i \in Jobs : Clearing(job[i]) => job[i].sel # Held(job[j])
    BY DEF HeldAlone, SteadyDialog, Held, Clearing
  <2>. QED  BY DEF FitsInv, HeldAlone, SteadyRequests, Steady
<1>. QED  BY <1>1, <1>2, <1>3, <1>4, RequestsStayFit DEF FitsInv

LEMMA FitsWithJob ==
  ASSUME UploadsTypeOK, FitsInv, SteadyRequests, SteadyDialog, NEW j \in Jobs, NEW k,
         JobAdvance(j, k), picks' \in {picks, picks + 1}
  PROVE  FitsInv'
<1>1. picks \in Nat /\ picks <= picks' /\ picks' \in Nat
  BY UploadsAssumption DEF UploadsTypeOK, PickOrNone
<1>2. DialogFits'
  BY <1>1 DEF FitsInv, DialogFits, Outdated, SteadyDialog
<1>3. \A i \in Jobs : job'[i] = IF i = j THEN k ELSE job[i]
  BY DEF UploadsTypeOK, JobAdvance
<1>4. ASSUME NEW i \in Jobs  PROVE  JobFits(job[i])'
  <2>1. CASE i = j
    <3>1. job'[i] = k
      BY <1>3, <2>1
    <3>. QED  BY <3>1 DEF JobAdvance, JobFits, Held, Clearing
  <2>2. CASE i # j
    <3>1. job'[i] = job[i] /\ JobFits(job[i])
      BY <1>3, <2>2 DEF FitsInv
    <3>2. job[i].sel \in Nat /\ Held(job[i]) \in Nat
      BY UploadsAssumption DEF UploadsTypeOK, JobRec, PickOrNone, Held, Selection
    <3>. QED  BY <1>1, <3>1, <3>2 DEF JobFits, SteadyDialog, Held, Clearing
  <2>. QED  BY <2>1, <2>2
<1>5. ASSUME NEW i \in Jobs  PROVE  HeldAlone(i)'
  <2>0. \A n \in Jobs : Held(job[n])' = IF n = j THEN Held(k) ELSE Held(job[n])
    BY <1>3 DEF Held
  <2>1. \A n \in Jobs : Clearing(job[n])' => Clearing(job[n]) /\ job'[n].sel = job[n].sel
    BY <1>3 DEF Clearing, JobAdvance
  <2>2. \A r \in Requests : UnderWay(up[r])' => UnderWay(up[r]) /\ up'[r].sel = up[r].sel
                                              /\ up[r].sel.id <= picks
    BY <1>1 DEF SteadyRequests, Steady, FitsInv, RequestFits
  <2>3. \A n \in Jobs : Held(job[n]) \in Nat /\ Held(job[n]) <= picks
                        /\ job[n].sel \in Nat /\ (Clearing(job[n]) => job[n].sel <= picks)
    BY UploadsAssumption DEF UploadsTypeOK, JobRec, PickOrNone, Held, Selection, FitsInv, JobFits
  <2>4. ui.sel.id \in 0 .. picks
    BY DEF FitsInv, DialogFits
  <2>5. ui'.sel = ui.sel
    BY DEF SteadyDialog
  <2>6. CASE Held(k) \in {0, Held(job[j])}
    <3>1. \A n \in Jobs : Held(job[n])' \in {0, Held(job[n])}
      BY <2>0, <2>6
    <3>. QED  BY <2>1, <2>2, <2>5, <3>1 DEF HeldAlone, FitsInv
  <2>7. CASE Held(k) = picks' /\ picks' = picks + 1
    <3>3. \A n \in Jobs : Clearing(job[n])' => job'[n].sel # Held(k)
      <4> SUFFICES ASSUME NEW n \in Jobs, Clearing(job[n])'  PROVE  job'[n].sel # Held(k)
        OBVIOUS
      <4>1. Clearing(job[n]) /\ job'[n].sel = job[n].sel
        BY <2>1
      <4>. QED  BY <1>1, <2>3, <2>7, <4>1
    <3>4. ui.sel.id # Held(k)
      BY <1>1, <2>4, <2>7
    <3>5. CASE i = j
      <4>1. Held(job[i])' = Held(k)
        BY <2>0, <3>5
      <4>2. \A n \in Jobs : n # i => Held(job[n])' # Held(k)
        BY <1>1, <2>0, <2>3, <2>7, <3>5
      <4>3. \A r \in Requests : UnderWay(up[r])' => up'[r].sel.id # Held(k)
        <5> SUFFICES ASSUME NEW r \in Requests, UnderWay(up[r])'
                     PROVE  up'[r].sel.id # Held(k)
          OBVIOUS
        <5>1. up'[r].sel.id = up[r].sel.id /\ up[r].sel.id \in Nat /\ up[r].sel.id <= picks
          BY <2>2, UploadsAssumption DEF UploadsTypeOK, UploadRec, Selection, PickOrNone
        <5>. QED  BY <1>1, <2>7, <5>1
      <4>. QED  BY <2>5, <3>3, <3>4, <4>1, <4>2, <4>3 DEF HeldAlone
    <3>6. CASE i # j
      <4>1. Held(job[i])' = Held(job[i]) /\ HeldAlone(i)
        BY <2>0, <3>6 DEF FitsInv
      <4>2. Held(job[i]) # Held(k)
        BY <1>1, <2>3, <2>7
      <4>3. \A n \in Jobs : n # i => Held(job[n])' # Held(job[i]) \/ Held(job[i]) = 0
        BY <2>0, <4>1, <4>2 DEF HeldAlone
      <4>4. \A n \in Jobs : Clearing(job[n])' => job'[n].sel # Held(job[i]) \/ Held(job[i]) = 0
        BY <2>1, <4>1 DEF HeldAlone
      <4>. QED  BY <2>2, <2>5, <4>1, <4>3, <4>4 DEF HeldAlone
    <3>. QED  BY <3>5, <3>6
  <2>. QED  BY <2>6, <2>7 DEF JobAdvance
<1>. QED  BY <1>1, <1>2, <1>4, <1>5, RequestsStayFit DEF FitsInv

-----------------------------------------------------------------------------
(* What the dialog asked for and what it shows follow one course.          *)
CourseInv == UploadsTypeOK /\ FitsInv /\ GivenUpInv /\ BusyInv

(* The service never disturbs the course.                                  *)
LEMMA ServeKeepsCourse ==
  ASSUME CourseInv, NEW r \in Requests, Serve(r)
  PROVE  CourseInv'
<1>1. PICK k \in UploadRec : ServiceStep(r, k)
  BY ServeSteps DEF CourseInv
<1>2. SteadyRequests /\ up' \in [Requests -> UploadRec]
  BY <1>1, AdvanceSteady DEF CourseInv, ServiceStep
<1>3. UploadsTypeOK'
  BY <1>1, <1>2 DEF CourseInv, UploadsTypeOK, ServiceStep, env, dialog
<1>4. SteadyDialog /\ UNCHANGED <<job, picks>>
  BY <1>1 DEF ServiceStep, env, dialog, SteadyDialog
<1>5. \A j \in Jobs : job[j].pick /\ ~Clearing(job[j]) =>
        job'[j].pick /\ ~Clearing(job[j])' /\ job'[j].session = job[j].session
  BY <1>4 DEF Clearing
<1>. QED  BY <1>2, <1>3, <1>4, <1>5, FitsWithoutJobs, GivenUpStays, DialogStaysBusy DEF CourseInv

(* Steps of the user interface and of the world that no request or job of  *)
(* the dialog notices.                                                     *)
LEMMA QuietStepKeepsCourse ==
  ASSUME CourseInv, UploadsTypeOK', SteadyDialog, UNCHANGED <<up, job, picks>>
  PROVE  CourseInv'
<1>1. SteadyRequests
  BY SteadyUnchanged
<1>2. \A j \in Jobs : job[j].pick /\ ~Clearing(job[j]) =>
        job'[j].pick /\ ~Clearing(job[j])' /\ job'[j].session = job[j].session
  BY DEF Clearing
<1>. QED  BY <1>1, <1>2, FitsWithoutJobs, GivenUpStays, DialogStaysBusy DEF CourseInv

LEMMA HearKeepsCourse ==
  ASSUME CourseInv, NEW r \in Requests, Hear(r)
  PROVE  CourseInv'
<1>1. ui \in DialogRec /\ r \in RequestOrNone
  BY UploadsAssumption DEF CourseInv, UploadsTypeOK, Requests, RequestOrNone
<1>2. ui' \in DialogRec
  BY <1>1 DEF Hear, DialogRec
<1>3. UploadsTypeOK'
  BY <1>2 DEF CourseInv, UploadsTypeOK, Hear, env, service
<1>4. SteadyDialog /\ UNCHANGED <<up, job, picks>>
  BY <1>1 DEF Hear, env, service, SteadyDialog, DialogRec
<1>. QED  BY <1>3, <1>4, QuietStepKeepsCourse

(* A switch in the backend and a write to the file.                        *)
LEMMA SwitchOrWriteKeepsCourse ==
  ASSUME CourseInv, Switch \/ Write
  PROVE  CourseInv'
<1>1. CASE Switch
  <2>1. UploadsTypeOK'
    BY <1>1 DEF CourseInv, UploadsTypeOK, Switch, service, dialog, Someone
  <2>2. SteadyDialog /\ UNCHANGED <<up, job, picks>>
    BY <1>1 DEF Switch, service, dialog, SteadyDialog
  <2>. QED  BY <2>1, <2>2, QuietStepKeepsCourse
<1>2. CASE Write
  <2>1. file' \in [content : Media, stamp : Nat \ {0}]
    BY <1>2 DEF CourseInv, UploadsTypeOK, Write
  <2>2. UploadsTypeOK'
    BY <1>2, <2>1 DEF CourseInv, UploadsTypeOK, Write, service, dialog
  <2>3. SteadyDialog /\ UNCHANGED <<up, job, picks>>
    BY <1>2 DEF Write, service, dialog, SteadyDialog
  <2>. QED  BY <2>2, <2>3, QuietStepKeepsCourse
<1>. QED  BY <1>1, <1>2

(* A job goes on without the dialog.                                       *)
LEMMA JobStepKeepsCourse ==
  ASSUME CourseInv, NEW j \in Jobs, NEW k, JobAdvance(j, k), SteadyRequests, SteadyDialog,
         up' \in [Requests -> UploadRec], registry' \in [Picks -> Nat],
         picks' \in {picks, picks + 1}, picks' \in PickOrNone, UNCHANGED <<env, ui>>
  PROVE  CourseInv'
<1>1. job' \in [Jobs -> JobRec] /\ \A i \in Jobs : job'[i] = IF i = j THEN k ELSE job[i]
  BY DEF CourseInv, UploadsTypeOK, JobAdvance
<1>2. UploadsTypeOK'
  BY <1>1 DEF CourseInv, UploadsTypeOK, env, SteadyDialog
<1>3. \A i \in Jobs : job[i].pick /\ ~Clearing(job[i]) =>
        job'[i].pick /\ ~Clearing(job[i])' /\ job'[i].session = job[i].session
  BY <1>1 DEF Clearing, JobAdvance
<1>. QED  BY <1>2, <1>3, FitsWithJob, GivenUpStays, DialogStaysBusy DEF CourseInv

(* A job that discards goes on to discard, to clear or to end.             *)
LEMMA Discarding ==
  ASSUME CourseInv, NEW j \in Jobs, NEW k \in JobRec, Spawn(j, k),
         job[j].at \in {"cancel", "stop", "remove", "clean"},
         \/ k = NoJob /\ ~job[j].pick
         \/ /\ k.at \in {"stop", "remove", "clean", "clear"}
            /\ (k.pick <=> job[j].pick) /\ k.session = job[j].session
            /\ k.account = job[j].account /\ (k.full <=> job[j].full)
            /\ k.gen = job[j].gen /\ k.sel = job[j].sel
            /\ k.at = "clear" => k.pick,
         UNCHANGED <<context, picks, ui>>
  PROVE  JobAdvance(j, k)
<1>1. JobFits(job[j]) /\ picks \in Nat /\ (job[j].pick => Clearing(job[j]))
  BY UploadsAssumption DEF CourseInv, FitsInv, UploadsTypeOK, PickOrNone, JobFits, Clearing
<1>2. Held(k) = 0
  BY DEF Held, NoJob
<1>3. Clearing(k) => Clearing(job[j]) /\ k.sel = job[j].sel
  <2>1. ~NoJob.pick
    BY DEF NoJob
  <2>. QED  BY <1>1, <2>1 DEF Clearing
<1>4. JobFits(k)'
  <2>1. CASE k = NoJob
    BY <1>1, <2>1 DEF JobFits, Held, Clearing, NoJob
  <2>2. CASE k # NoJob
    BY <1>1, <1>2, <2>2 DEF JobFits, Held, Clearing
  <2>. QED  BY <2>1, <2>2
<1>. QED  BY <1>1, <1>2, <1>3, <1>4 DEF JobAdvance, Spawn

(* Tokens and entries of operations may change for any request.            *)
LEMMA TokenOrEntry ==
  ASSUME NEW k \in UploadRec
  PROVE  /\ [k EXCEPT !.op = FALSE] \in UploadRec
         /\ [k EXCEPT !.op = FALSE].at = k.at /\ [k EXCEPT !.op = FALSE].sel = k.sel
         /\ [k EXCEPT !.op = FALSE].session = k.session
         /\ [k EXCEPT !.op = FALSE].account = k.account
         /\ [k EXCEPT !.op = FALSE].gen = k.gen
         /\ [k EXCEPT !.op = FALSE].stamp = k.stamp
         /\ [k EXCEPT !.token = @ \/ k.active] \in UploadRec
         /\ [k EXCEPT !.token = @ \/ k.active].at = k.at
         /\ [k EXCEPT !.token = @ \/ k.active].sel = k.sel
         /\ [k EXCEPT !.token = @ \/ k.active].session = k.session
         /\ [k EXCEPT !.token = @ \/ k.active].account = k.account
         /\ [k EXCEPT !.token = @ \/ k.active].gen = k.gen
         /\ [k EXCEPT !.token = @ \/ k.active].stamp = k.stamp
<1>1. (k.token \/ k.active) \in BOOLEAN
  OBVIOUS
<1>. QED  BY <1>1 DEF UploadRec

(* cancel_blossom_upload and discard_blossom_media_selection.              *)
LEMMA DiscardingKeepsCourse ==
  ASSUME CourseInv, NEW j \in Jobs,
         CancelById(j) \/ StopUploads(j) \/ RemoveOperations(j) \/ CleanSelection(j)
  PROVE  CourseInv'
<1> DEFINE g == job[j]
<1>0. /\ up \in [Requests -> UploadRec] /\ g \in JobRec /\ registry \in [Picks -> Nat]
      /\ picks \in PickOrNone
      /\ NoJob \in JobRec
  BY EmptyRecords DEF CourseInv, UploadsTypeOK
<1>1. CASE CancelById(j)
  <2>0. PICK k : k = IF g.sel # 0 THEN [g EXCEPT !.at = "stop"] ELSE NoJob
    OBVIOUS
  <2>1. \A q \in Requests :
          up'[q] = IF q = g.upload
                   THEN [up[q] EXCEPT !.token = @ \/ up[q].active] ELSE up[q]
    BY <1>0, <1>1 DEF CancelById
  <2>2. \A q \in Requests : up'[q] \in UploadRec /\ Steady(up[q], up'[q])
    <3> SUFFICES ASSUME NEW q \in Requests  PROVE  up'[q] \in UploadRec /\ Steady(up[q], up'[q])
      OBVIOUS
    <3>1. up[q] \in UploadRec
      BY <1>0
    <3>2. up'[q] # up[q] => up'[q] = [up[q] EXCEPT !.token = @ \/ up[q].active]
      BY <2>1
    <3>3. CASE up'[q] = up[q]
      BY <3>1, <3>3 DEF Steady
    <3>4. CASE up'[q] = [up[q] EXCEPT !.token = @ \/ up[q].active]
      BY <3>1, <3>4, TokenOrEntry DEF Steady, UnderWay
    <3>. QED  BY <3>2, <3>3, <3>4
  <2>3. SteadyRequests /\ up' \in [Requests -> UploadRec]
    BY <1>0, <1>1, <2>2 DEF SteadyRequests, CancelById
  <2>4. k \in JobRec
    BY <2>0, <1>0 DEF JobRec
  <2>5. JobFits(g)
    BY DEF CourseInv, FitsInv
  <2>6. ~g.pick
    BY <1>1, <2>5 DEF CancelById, JobFits
  <2>7. \/ k = NoJob
        \/ k.at = "stop" /\ (k.pick <=> g.pick) /\ k.session = g.session
           /\ k.account = g.account /\ (k.full <=> g.full) /\ k.gen = g.gen /\ k.sel = g.sel
    BY <2>0, <1>0 DEF JobRec
  <2>8. Spawn(j, k) /\ g.at = "cancel" /\ UNCHANGED <<env, draft, registry, dialog, picks>>
    BY <2>0, <1>1 DEF CancelById
  <2>9. JobAdvance(j, k)
    BY <2>4, <2>6, <2>7, <2>8, Discarding DEF env, dialog
  <2>10. SteadyDialog
    BY <2>8 DEF SteadyDialog, env, dialog
  <2>. QED  BY <1>0, <2>3, <2>8, <2>9, <2>10, JobStepKeepsCourse DEF dialog
<1>2. CASE StopUploads(j)
  <2> DEFINE ops == {r \in Requests : up[r].op /\ up[r].sel.id = g.sel}
  <2>0. PICK k : k = [g EXCEPT !.at = "remove", !.ops = ops]
    OBVIOUS
  <2>1. \A q \in Requests :
          up'[q] = IF q \in ops
                   THEN [up[q] EXCEPT !.token = @ \/ up[q].active] ELSE up[q]
    BY <1>0, <1>2 DEF StopUploads
  <2>2. \A q \in Requests : up'[q] \in UploadRec /\ Steady(up[q], up'[q])
    <3> SUFFICES ASSUME NEW q \in Requests  PROVE  up'[q] \in UploadRec /\ Steady(up[q], up'[q])
      OBVIOUS
    <3>1. up[q] \in UploadRec
      BY <1>0
    <3>2. up'[q] # up[q] => up'[q] = [up[q] EXCEPT !.token = @ \/ up[q].active]
      BY <2>1
    <3>3. CASE up'[q] = up[q]
      BY <3>1, <3>3 DEF Steady
    <3>4. CASE up'[q] = [up[q] EXCEPT !.token = @ \/ up[q].active]
      BY <3>1, <3>4, TokenOrEntry DEF Steady, UnderWay
    <3>. QED  BY <3>2, <3>3, <3>4
  <2>3. SteadyRequests /\ up' \in [Requests -> UploadRec]
    BY <1>0, <1>2, <2>2 DEF SteadyRequests, StopUploads
  <2>4. k \in JobRec
    BY <2>0, <1>0 DEF JobRec
  <2>7. k.at = "remove" /\ (k.pick <=> g.pick) /\ k.session = g.session /\ k.account = g.account
        /\ (k.full <=> g.full) /\ k.gen = g.gen /\ k.sel = g.sel
    BY <2>0, <1>0 DEF JobRec
  <2>8. Spawn(j, k) /\ g.at = "stop" /\ UNCHANGED <<env, draft, registry, dialog, picks>>
    BY <2>0, <1>2 DEF StopUploads
  <2> HIDE DEF ops
  <2>9. JobAdvance(j, k)
    BY <2>4, <2>7, <2>8, Discarding DEF env, dialog
  <2>10. SteadyDialog
    BY <2>8 DEF SteadyDialog, env, dialog
  <2>. QED  BY <1>0, <2>3, <2>8, <2>9, <2>10, JobStepKeepsCourse DEF dialog
<1>3. CASE RemoveOperations(j)
  <2>0. PICK k : k = [g EXCEPT !.at = "clean", !.ops = {}]
    OBVIOUS
  <2>1. \A q \in Requests :
          up'[q] = IF q \in g.ops THEN [up[q] EXCEPT !.op = FALSE] ELSE up[q]
    BY <1>0, <1>3 DEF RemoveOperations
  <2>2. \A q \in Requests : up'[q] \in UploadRec /\ Steady(up[q], up'[q])
    <3> SUFFICES ASSUME NEW q \in Requests  PROVE  up'[q] \in UploadRec /\ Steady(up[q], up'[q])
      OBVIOUS
    <3>1. up[q] \in UploadRec
      BY <1>0
    <3>2. up'[q] # up[q] => up'[q] = [up[q] EXCEPT !.op = FALSE]
      BY <2>1
    <3>3. CASE up'[q] = up[q]
      BY <3>1, <3>3 DEF Steady
    <3>4. CASE up'[q] = [up[q] EXCEPT !.op = FALSE]
      BY <3>1, <3>4, TokenOrEntry DEF Steady, UnderWay
    <3>. QED  BY <3>2, <3>3, <3>4
  <2>3. SteadyRequests /\ up' \in [Requests -> UploadRec]
    BY <1>0, <1>3, <2>2 DEF SteadyRequests, RemoveOperations
  <2>4. k \in JobRec
    BY <2>0, <1>0 DEF JobRec
  <2>7. k.at = "clean" /\ (k.pick <=> g.pick) /\ k.session = g.session /\ k.account = g.account
        /\ (k.full <=> g.full) /\ k.gen = g.gen /\ k.sel = g.sel
    BY <2>0, <1>0 DEF JobRec
  <2>8. Spawn(j, k) /\ g.at = "remove" /\ UNCHANGED <<env, draft, registry, dialog, picks>>
    BY <2>0, <1>3 DEF RemoveOperations
  <2>9. JobAdvance(j, k)
    BY <2>4, <2>7, <2>8, Discarding DEF env, dialog
  <2>10. SteadyDialog
    BY <2>8 DEF SteadyDialog, env, dialog
  <2>. QED  BY <1>0, <2>3, <2>8, <2>9, <2>10, JobStepKeepsCourse DEF dialog
<1>4. CASE CleanSelection(j)
  <2>0. PICK k : k = AfterDrop(g)
    OBVIOUS
  <2>1. k \in JobRec
    BY <2>0, <1>0 DEF JobRec, AfterDrop
  <2>2. \/ k = NoJob /\ ~g.pick
        \/ k.at = "clear" /\ k.pick /\ (k.pick <=> g.pick) /\ k.session = g.session /\ k.account = g.account
           /\ (k.full <=> g.full) /\ k.gen = g.gen /\ k.sel = g.sel
    BY <2>0, <1>0 DEF JobRec, AfterDrop
  <2>3. registry' \in [Picks -> Nat]
    BY <1>0, <1>4 DEF CleanSelection
  <2>8. Spawn(j, k) /\ g.at = "clean" /\ UNCHANGED <<env, draft, up, dialog, picks>>
    BY <2>0, <1>4 DEF CleanSelection
  <2>9. JobAdvance(j, k)
    BY <2>1, <2>2, <2>8, Discarding DEF env, dialog
  <2>10. SteadyDialog /\ SteadyRequests
    BY <2>8, SteadyUnchanged DEF SteadyDialog, env, dialog
  <2>. QED  BY <1>0, <2>3, <2>8, <2>9, <2>10, JobStepKeepsCourse DEF dialog
<1>. QED  BY <1>1, <1>2, <1>3, <1>4

(* A job that picks a file goes on with it.                                *)
LEMMA PickingKeepsCourse ==
  ASSUME CourseInv, NEW j \in Jobs, Pick(j) \/ NoPick(j) \/ Inspect(j) \/ Preview(j) \/ InspectFails(j)
  PROVE  CourseInv'
<1> DEFINE g == job[j]
<1>0. /\ up \in [Requests -> UploadRec] /\ g \in JobRec /\ registry \in [Picks -> Nat]
      /\ picks \in PickOrNone /\ picks \in Nat /\ JobFits(g) /\ file \in [content : Media, stamp : Nat \ {0}]
      /\ MaxPicks \in Nat /\ NoSelection \in Selection /\ limit.picks \in PickOrNone
      /\ 0 \in PickOrNone
  BY EmptyRecords, LimitBounds DEF CourseInv, UploadsTypeOK, FitsInv, PickOrNone
<1>1. CASE Pick(j)
  <2>0. PICK k : k = [g EXCEPT !.at = "inspect", !.sel = picks + 1]
    OBVIOUS
  <2>1. PICK alive \in SUBSET Registered : registry' = Register(picks + 1, alive)
    BY <1>1 DEF Pick
  <2>2. registry' \in [Picks -> Nat]
    BY <1>0, <2>1 DEF Register
  <2>3. /\ Spawn(j, k) /\ g.at = "ask" /\ picks' = picks + 1 /\ picks < limit.picks
        /\ UNCHANGED <<env, draft, stored, up, dialog, opens>>
    BY <2>0, <1>1 DEF Pick
  <2>4. picks + 1 \in PickOrNone
    BY <1>0, <2>3 DEF PickOrNone
  <2>5. k \in JobRec
    BY <2>0, <1>0, <2>4 DEF JobRec
  <2>6. Held(k) = picks + 1 /\ ~Clearing(k) /\ k.session = g.session /\ (k.pick <=> g.pick)
        /\ k.at = "inspect" /\ k.sel = picks + 1 /\ k.account = g.account
        /\ (k.full <=> g.full) /\ k.gen = g.gen
    BY <2>0, <1>0 DEF Held, Clearing, JobRec
  <2>7. JobFits(k)'
    BY <1>0, <2>3, <2>6 DEF JobFits, Held, Clearing, env, dialog
  <2>8. JobAdvance(j, k)
    BY <1>0, <2>3, <2>5, <2>6, <2>7 DEF JobAdvance, JobFits, Spawn
  <2>9. SteadyDialog /\ SteadyRequests
    BY <2>3, SteadyUnchanged DEF SteadyDialog, env, dialog
  <2>. QED  BY <1>0, <2>2, <2>3, <2>4, <2>8, <2>9, JobStepKeepsCourse DEF dialog
<1>2. CASE NoPick(j)
  <2>1. PICK why \in {"none", "failed"} : Spawn(j, [g EXCEPT !.at = "back", !.why = why])
    BY <1>2 DEF NoPick
  <2>0. PICK k : k = [g EXCEPT !.at = "back", !.why = why]
    OBVIOUS
  <2>3. g.at = "ask" /\ UNCHANGED <<env, draft, service, dialog, picks>> /\ Spawn(j, k)
    BY <2>0, <1>2, <2>1 DEF NoPick
  <2>5. k \in JobRec
    BY <2>0, <1>0 DEF JobRec
  <2>6. Held(k) = 0 /\ ~Clearing(k) /\ k.session = g.session /\ (k.pick <=> g.pick)
        /\ k.at = "back" /\ k.sel = g.sel /\ k.account = g.account
        /\ (k.full <=> g.full) /\ k.gen = g.gen
    BY <2>0, <1>0 DEF Held, Clearing, JobRec
  <2>7. JobFits(k)'
    BY <1>0, <2>3, <2>6 DEF JobFits, Held, Clearing, env, dialog
  <2>8. JobAdvance(j, k)
    BY <1>0, <2>3, <2>5, <2>6, <2>7 DEF JobAdvance, JobFits, Spawn
  <2>9. SteadyDialog /\ SteadyRequests
    BY <2>3, SteadyUnchanged DEF SteadyDialog, env, dialog, service
  <2>. QED  BY <1>0, <2>3, <2>8, <2>9, JobStepKeepsCourse DEF dialog, service
<1>3. CASE Inspect(j)
  <2> DEFINE s == [id |-> g.sel, seen |-> file.content, preview |-> Nothing]
  <2>0. PICK k : k = [g EXCEPT !.at = "preview", !.found = s]
    OBVIOUS
  <2>3. g.at = "inspect" /\ UNCHANGED <<env, draft, service, dialog, picks>> /\ Spawn(j, k)
    BY <2>0, <1>3 DEF Inspect
  <2>4. s \in Selection
    BY <1>0 DEF Selection, JobRec, Content
  <2>5. k \in JobRec
    BY <2>0, <1>0, <2>4 DEF JobRec
  <2>6. Held(k) = g.sel /\ Held(g) = g.sel /\ ~Clearing(k) /\ k.session = g.session
        /\ (k.pick <=> g.pick) /\ k.at = "preview" /\ k.sel = g.sel /\ k.found.id = g.sel
        /\ k.account = g.account /\ (k.full <=> g.full) /\ k.gen = g.gen
    BY <2>0, <1>0, <2>3 DEF Held, Clearing, JobRec
  <2> HIDE DEF s
  <2>7. JobFits(k)'
    BY <1>0, <2>3, <2>6 DEF JobFits, Held, Clearing, env, dialog
  <2>8. JobAdvance(j, k)
    BY <1>0, <2>3, <2>5, <2>6, <2>7 DEF JobAdvance, JobFits, Spawn
  <2>9. SteadyDialog /\ SteadyRequests
    BY <2>3, SteadyUnchanged DEF SteadyDialog, env, dialog, service
  <2>. QED  BY <1>0, <2>3, <2>8, <2>9, JobStepKeepsCourse DEF dialog, service
<1>4. CASE Preview(j)
  <2>0. PICK k : k = [g EXCEPT !.at = "back", !.why = "ok", !.sel = 0, !.found.preview = file.content]
    OBVIOUS
  <2>3. g.at = "preview" /\ UNCHANGED <<env, draft, service, dialog, picks>> /\ Spawn(j, k)
    BY <2>0, <1>4 DEF Preview
  <2>4. [g.found EXCEPT !.preview = file.content] \in Selection
    BY <1>0 DEF JobRec, Selection, Content
  <2>5. k \in JobRec
    BY <2>0, <1>0, <2>4 DEF JobRec
  <2>6. Held(k) = g.sel /\ Held(g) = g.sel /\ ~Clearing(k) /\ k.session = g.session
        /\ (k.pick <=> g.pick) /\ k.at = "back" /\ k.sel = 0
        /\ k.account = g.account /\ (k.full <=> g.full) /\ k.gen = g.gen
    BY <2>0, <1>0, <2>3 DEF Held, Clearing, JobRec, Selection, JobFits
  <2>7. JobFits(k)'
    BY <1>0, <2>3, <2>6 DEF JobFits, Held, Clearing, env, dialog
  <2>8. JobAdvance(j, k)
    BY <1>0, <2>3, <2>5, <2>6, <2>7 DEF JobAdvance, JobFits, Spawn
  <2>9. SteadyDialog /\ SteadyRequests
    BY <2>3, SteadyUnchanged DEF SteadyDialog, env, dialog, service
  <2>. QED  BY <1>0, <2>3, <2>8, <2>9, JobStepKeepsCourse DEF dialog, service
<1>5. CASE InspectFails(j)
  <2>0. PICK k : k = [g EXCEPT !.at = "back", !.why = "failed", !.sel = 0, !.found = NoSelection]
    OBVIOUS
  <2>3. /\ g.at \in {"inspect", "preview"} /\ UNCHANGED <<env, draft, up, dialog, picks>>
        /\ Spawn(j, k) /\ registry' \in [Picks -> Nat]
    BY <2>0, <1>0, <1>5 DEF InspectFails
  <2>5. k \in JobRec
    BY <2>0, <1>0 DEF JobRec
  <2>6. Held(k) = 0 /\ ~Clearing(k) /\ k.session = g.session
        /\ (k.pick <=> g.pick) /\ k.at = "back" /\ k.sel = 0
        /\ k.account = g.account /\ (k.full <=> g.full) /\ k.gen = g.gen
    BY <2>0, <1>0, <2>3 DEF Held, Clearing, JobRec
  <2>7. JobFits(k)'
    BY <1>0, <2>3, <2>6 DEF JobFits, Held, Clearing, env, dialog
  <2>8. JobAdvance(j, k)
    BY <1>0, <2>3, <2>5, <2>6, <2>7 DEF JobAdvance, JobFits, Spawn
  <2>9. SteadyDialog /\ SteadyRequests
    BY <2>3, SteadyUnchanged DEF SteadyDialog, env, dialog, service
  <2>. QED  BY <1>0, <2>3, <2>8, <2>9, JobStepKeepsCourse DEF dialog, service
<1>. QED  BY <1>1, <1>2, <1>3, <1>4, <1>5

-----------------------------------------------------------------------------
(* Steps of the dialog.                                                    *)

(* A request goes on or ends, or the dialog has just made it.              *)
Continues(r) ==
  /\ up'[r].at = "new" => up[r].at = "new"
  /\ UnderWay(up'[r]) =>
       \/ /\ UnderWay(up[r])
          /\ up'[r].sel = up[r].sel /\ up'[r].session = up[r].session
          /\ up'[r].account = up[r].account /\ up'[r].gen = up[r].gen
       \/ /\ up[r].at = "new" /\ ui.open /\ ui.sel.id # 0
          /\ up'[r].sel = ui.sel /\ up'[r].session = ui.session
          /\ up'[r].account = ui.account /\ up'[r].gen = ui.gen

(* The context is left for good, unless the publisher comes back to it.    *)
ContextMove ==
  /\ context <= context'
  /\ shown' # shown => context < context' \/ shown' = Publisher

(* The dialog shows what it did, nothing, or what a job hands to it.       *)
SelectionMove ==
  \/ ui'.sel.id \in {0, ui.sel.id}
  \/ \E j \in Jobs : Held(job[j]) # 0 /\ ui'.sel.id = Held(job[j]) /\ Held(job[j])' = 0

(* The dialog stays in its session or a new one begins with nothing.       *)
DialogMove ==
  \/ ui.session < ui'.session /\ ui'.sel.id = 0
  \/ /\ ui'.session = ui.session /\ SelectionMove
     /\ ui'.open => ui.open /\ ui'.account = ui.account /\ ui'.gen = ui.gen

(* A job is as it was, has dropped what it held, or discards what is shown.*)
JobMove(j) ==
  \/ job'[j] = job[j]
  \/ /\ JobFits(job[j])' /\ Held(job[j])' \in {0, Held(job[j])}
     /\ Clearing(job[j])' => \/ Clearing(job[j]) /\ job'[j].sel = job[j].sel
                             \/ job'[j].sel = ui.sel.id

(* What is outdated stays so when the context or the shown account moves.  *)
LEMMA OutdatedStays ==
  ASSUME UploadsTypeOK, UploadsTypeOK', ContextMove, NEW k, k.gen \in Nat, k.gen <= context,
         Outdated(k)
  PROVE  /\ k.gen <= context'
         /\ k.account # shown' => k.gen < context' \/ shown' = Publisher
BY DEF UploadsTypeOK, ContextMove, Outdated

(* A move of the dialog keeps what fits,                                   *)
LEMMA DialogMoves ==
  ASSUME CourseInv, UploadsTypeOK', ContextMove, DialogMove, UNCHANGED picks,
         DialogFits', SameSession(ui.request)',
         \A r \in Requests : Continues(r), \A j \in Jobs : JobMove(j)
  PROVE  FitsInv'
<1>0. /\ UploadsTypeOK /\ FitsInv
      /\ ui.session \in Nat /\ ui'.session \in Nat /\ ui.session <= ui'.session
      /\ picks \in Nat /\ ui.sel.id \in Nat
  BY UploadsAssumption
     DEF CourseInv, UploadsTypeOK, DialogRec, DialogMove, PickOrNone, Selection
<1>1. ASSUME NEW r \in Requests, UnderWay(up[r])'  PROVE  RequestFits(up[r])'
  <2>1. Continues(r) /\ up[r].gen \in Nat /\ ui.gen \in Nat /\ up[r].session \in Nat
    BY <1>0 DEF UploadsTypeOK, UploadRec, DialogRec
  <2>2. CASE UnderWay(up[r])
    <3>1. /\ up'[r].sel = up[r].sel /\ up'[r].session = up[r].session
          /\ up'[r].account = up[r].account /\ up'[r].gen = up[r].gen
      BY <1>1, <2>1, <2>2 DEF Continues, UnderWay
    <3>2. RequestFits(up[r])
      BY <1>0, <2>2 DEF FitsInv
    <3>3. /\ up[r].gen <= context'
          /\ up[r].account # shown' => up[r].gen < context' \/ shown' = Publisher
      BY <1>0, <2>1, <3>2, OutdatedStays DEF RequestFits
    <3>. QED  BY <1>0, <2>1, <3>1, <3>2, <3>3 DEF RequestFits, Outdated
  <2>3. CASE ~UnderWay(up[r])
    <3>1. /\ ui.open /\ ui.sel.id # 0
          /\ up'[r].sel = ui.sel /\ up'[r].session = ui.session
          /\ up'[r].account = ui.account /\ up'[r].gen = ui.gen
      BY <1>1, <2>1, <2>3 DEF Continues, UnderWay
    <3>2. DialogFits
      BY <1>0 DEF FitsInv
    <3>3. /\ ui.gen <= context'
          /\ ui.account # shown' => ui.gen < context' \/ shown' = Publisher
      BY <1>0, <2>1, <3>1, <3>2, OutdatedStays DEF DialogFits
    <3>. QED  BY <1>0, <3>1, <3>2, <3>3 DEF DialogFits, RequestFits, Outdated
  <2>. QED  BY <2>2, <2>3
<1>2. \A j \in Jobs : Held(job[j])' \in {0, Held(job[j])}
  BY DEF JobMove, Held
<1>3. ASSUME NEW j \in Jobs  PROVE  JobFits(job[j])'
  <2>1. CASE job'[j] # job[j]
    BY <2>1 DEF JobMove
  <2>2. CASE job'[j] = job[j]
    <3>1. JobFits(job[j]) /\ job[j] \in JobRec /\ HeldAlone(j)
      BY <1>0 DEF FitsInv, UploadsTypeOK
    <3>2. job[j].session \in Nat /\ job[j].sel \in Nat
      BY <3>1, UploadsAssumption DEF JobRec, PickOrNone
    <3>3. Held(job[j])' = Held(job[j]) /\ (Clearing(job[j])' <=> Clearing(job[j]))
      BY <2>2 DEF Held, Clearing
    <3>4. job[j].pick => job[j].session <= ui'.session
      BY <1>0, <3>1, <3>2 DEF JobFits
    <3>5. job[j].pick /\ job[j].session = ui'.session /\ ui'.open =>
            job[j].account = ui'.account /\ (job[j].full => job[j].gen = ui'.gen)
      BY <1>0, <3>1, <3>2 DEF JobFits, DialogMove
    <3>6. Clearing(job[j]) /\ job[j].sel = ui'.sel.id /\ ui'.sel.id # 0
            => job[j].session = ui'.session
      <4> SUFFICES ASSUME Clearing(job[j]), job[j].sel = ui'.sel.id, ui'.sel.id # 0
                   PROVE  job[j].session = ui'.session
        OBVIOUS
      <4>1. ui'.session = ui.session /\ SelectionMove
        BY DEF DialogMove
      <4>2. \A i \in Jobs : Held(job[i]) # 0 => job[j].sel # Held(job[i])
        BY <1>0 DEF FitsInv, HeldAlone
      <4>3. ui'.sel.id = ui.sel.id
        BY <4>1, <4>2 DEF SelectionMove
      <4>. QED  BY <3>1, <4>1, <4>3 DEF JobFits
    <3>. QED  BY <2>2, <3>1, <3>3, <3>4, <3>5, <3>6 DEF JobFits
  <2>. QED  BY <2>1, <2>2
<1>4. ASSUME NEW j \in Jobs  PROVE  HeldAlone(j)'
  <2> SUFFICES ASSUME Held(job[j])' # 0
               PROVE  /\ Held(job[j])' # ui'.sel.id
                      /\ \A r \in Requests : UnderWay(up[r])' => up'[r].sel.id # Held(job[j])'
                      /\ \A i \in Jobs : i # j => Held(job[i])' # Held(job[j])'
                      /\ \A i \in Jobs : Clearing(job[i])' => job'[i].sel # Held(job[j])'
    BY DEF HeldAlone
  <2>1. Held(job[j])' = Held(job[j]) /\ Held(job[j]) # 0
    BY <1>2
  <2>2. HeldAlone(j) /\ Held(job[j]) # ui.sel.id
    BY <1>0, <2>1 DEF FitsInv, HeldAlone
  <2>3. \A i \in Jobs : i # j => Held(job[i]) # Held(job[j])
    BY <2>1, <2>2 DEF HeldAlone
  <2>4. Held(job[j]) # ui'.sel.id
    BY <2>1, <2>2, <2>3 DEF DialogMove, SelectionMove
  <2>5. ASSUME NEW r \in Requests, UnderWay(up[r])'  PROVE  up'[r].sel.id # Held(job[j])
    <3>1. UnderWay(up'[r]) /\ Continues(r)
      BY <2>5 DEF UnderWay
    <3>. QED  BY <2>1, <2>2, <3>1 DEF Continues, HeldAlone
  <2>6. \A i \in Jobs : i # j => Held(job[i])' # Held(job[j])
    BY <1>2, <2>1, <2>3
  <2>7. ASSUME NEW i \in Jobs, Clearing(job[i])'  PROVE  job'[i].sel # Held(job[j])
    <3>1. (Clearing(job[i]) /\ job'[i].sel = job[i].sel) \/ job'[i].sel = ui.sel.id
      BY <2>7 DEF JobMove, Clearing
    <3>. QED  BY <2>1, <2>2, <3>1 DEF HeldAlone
  <2>. QED  BY <2>1, <2>4, <2>5, <2>6, <2>7
<1>. QED  BY <1>1, <1>3, <1>4 DEF FitsInv

(* and leaves dead what was given up.                                      *)
LEMMA GivenUpMoves ==
  ASSUME CourseInv, UploadsTypeOK', ContextMove, DialogMove,
         \A r \in Requests : Continues(r),
         \A r \in gaveUp' : r \in gaveUp \/ (up[r].at # "new" /\ (UnderWay(up[r])' => Dead(up[r])'))
  PROVE  GivenUpInv'
<1> SUFFICES ASSUME NEW r \in gaveUp'
             PROVE  up'[r].at # "new" /\ (UnderWay(up[r])' => Dead(up[r])')
  BY DEF GivenUpInv
<1>0. /\ UploadsTypeOK /\ UploadsTypeOK' /\ r \in Requests /\ Continues(r)
      /\ up[r] \in UploadRec /\ FitsInv
  BY DEF CourseInv, UploadsTypeOK
<1>1. CASE r \notin gaveUp
  BY <1>0, <1>1 DEF Continues
<1>2. CASE r \in gaveUp
  <2>1. up[r].at # "new" /\ up'[r].at # "new" /\ (UnderWay(up[r]) => Dead(up[r]))
    BY <1>0, <1>2 DEF CourseInv, GivenUpInv, Continues
  <2> SUFFICES ASSUME UnderWay(up[r])'  PROVE  Dead(up[r])'
    BY <2>1
  <2>2. /\ UnderWay(up[r]) /\ up'[r].sel = up[r].sel /\ up'[r].session = up[r].session
        /\ up'[r].account = up[r].account /\ up'[r].gen = up[r].gen
    BY <1>0, <2>1 DEF Continues, UnderWay
  <2>3. RequestFits(up[r]) /\ Dead(up[r])
    BY <1>0, <2>1, <2>2 DEF FitsInv
  <2>4. /\ up[r].session \in Nat /\ up[r].gen \in Nat /\ context \in Nat /\ context' \in Nat
        /\ ui.session \in Nat /\ ui'.session \in Nat /\ picks \in Nat
    BY <1>0, UploadsAssumption DEF UploadsTypeOK, UploadRec, DialogRec, PickOrNone
  <2>5. CASE up[r].session < ui.session \/ up[r].gen < context
    BY <2>2, <2>4, <2>5 DEF Dead, DialogMove, ContextMove
  <2>6. CASE shown = Publisher /\ up[r].account # Publisher
    BY <2>2, <2>3, <2>4, <2>6 DEF Dead, ContextMove, RequestFits
  <2>7. CASE ui.sel.id # up[r].sel.id
    <3>1. \A j \in Jobs : Held(job[j]) # 0 => up[r].sel.id # Held(job[j])
      BY <1>0, <2>2 DEF FitsInv, HeldAlone
    <3>2. up[r].sel.id # 0
      BY <2>3, <2>4 DEF RequestFits
    <3>3. ui'.sel.id # up[r].sel.id
      BY <2>7, <3>1, <3>2 DEF DialogMove, SelectionMove
    <3>. QED  BY <2>2, <3>3 DEF Dead
  <2>. QED  BY <2>3, <2>5, <2>6, <2>7 DEF Dead
<1>. QED  BY <1>1, <1>2

(* Both together.                                                          *)
LEMMA MoveKeepsCourse ==
  ASSUME CourseInv, UploadsTypeOK', ContextMove, DialogMove, UNCHANGED picks,
         DialogFits', SameSession(ui.request)', BusyInv',
         \A r \in Requests : Continues(r), \A j \in Jobs : JobMove(j),
         \A r \in gaveUp' : r \in gaveUp \/ (up[r].at # "new" /\ (UnderWay(up[r])' => Dead(up[r])'))
  PROVE  CourseInv'
BY DialogMoves, GivenUpMoves DEF CourseInv

(* A closed dialog shows nothing.                                          *)
LEMMA ClosedIs ==
  ASSUME NEW n
  PROVE  /\ ~Closed(n).open /\ Closed(n).session = n /\ Closed(n).request = 0
         /\ Closed(n).sel.id = 0
BY DEF Closed, NoSelection

(* What is left alone moves in no way.                                     *)
LEMMA Still ==
  ASSUME CourseInv
  PROVE  /\ UNCHANGED <<shown, context>> => ContextMove
         /\ UNCHANGED up => \A r \in Requests : Continues(r)
         /\ UNCHANGED job => \A j \in Jobs : JobMove(j)
         /\ UNCHANGED ui => DialogMove
BY DEF CourseInv, UploadsTypeOK, ContextMove, Continues, JobMove, DialogMove, SelectionMove

(* Only the request of the dialog is newly given up.                       *)
LEMMA AbandonedIs ==
  ASSUME CourseInv, NEW r \in Abandoned
  PROVE  /\ r \in Requests
         /\ r \in gaveUp \/ (r = ui.request /\ Pending(r) /\ UnderWay(up[r]) /\ RequestFits(up[r]))
<1>1. r \in gaveUp \cup {ui.request} /\ Pending(r)
  BY DEF Abandoned
<1>2. r \in Requests
  BY <1>1, UploadsAssumption
     DEF CourseInv, UploadsTypeOK, DialogRec, RequestOrNone, Requests, Pending
<1>3. UnderWay(up[r]) /\ RequestFits(up[r])
  BY <1>1, <1>2 DEF Pending, UnderWay, CourseInv, FitsInv
<1>. QED  BY <1>1, <1>2, <1>3

(* A load of another page outdates every request.                          *)
LEMMA LoadKeepsCourse ==
  ASSUME CourseInv, Load
  PROVE  CourseInv'
<1>0. /\ UploadsTypeOK /\ FitsInv /\ BusyInv /\ context \in Nat /\ context' = context + 1
      /\ gaveUp' = Abandoned
      /\ UNCHANGED <<shown, up, job, ui, picks, crossed>>
  BY DEF CourseInv, UploadsTypeOK, Load, service
<1>1. UploadsTypeOK'
  BY <1>0, AbandonedIs DEF UploadsTypeOK, Load, service
<1>2. ContextMove
  BY <1>0 DEF ContextMove
<1>3. DialogFits' /\ SameSession(ui.request)'
  BY <1>0 DEF FitsInv, DialogFits, Outdated, SameSession, Pending, UploadsTypeOK, DialogRec
<1>4. \A r \in gaveUp' : r \in gaveUp \/ (up[r].at # "new" /\ (UnderWay(up[r])' => Dead(up[r])'))
  <2> SUFFICES ASSUME NEW r \in Abandoned, r \notin gaveUp
               PROVE  up[r].at # "new" /\ (UnderWay(up[r])' => Dead(up[r])')
    BY <1>0
  <2>1. UnderWay(up[r]) /\ RequestFits(up[r]) /\ up[r].gen \in Nat
    BY <1>0, AbandonedIs DEF UploadsTypeOK, UploadRec
  <2>. QED  BY <1>0, <2>1 DEF RequestFits, UnderWay, Dead
<1>5. BusyInv'
  <2> SUFFICES ASSUME ui.open, ui.state = "uploading", ~crossed
               PROVE  /\ Busy'
                      /\ Pending(ui.request) /\ up[ui.request].at = "listen" => ui.alive
    BY <1>0 DEF BusyInv, Pending
  <2>1. ui.gen <= context /\ ui.gen \in Nat
    BY <1>0 DEF FitsInv, DialogFits, UploadsTypeOK, DialogRec
  <2>2. Busy'
    BY <1>0, <2>1 DEF Busy
  <2>. QED  BY <1>0, <2>2 DEF BusyInv
<1>. QED  BY <1>0, <1>1, <1>2, <1>3, <1>4, <1>5, Still, MoveKeepsCourse

(* So does the account, unless it becomes the publisher.                   *)
LEMMA FollowKeepsCourse ==
  ASSUME CourseInv, Follow
  PROVE  CourseInv'
<1>0. /\ UploadsTypeOK /\ FitsInv /\ BusyInv /\ context \in Nat /\ context' \in {context, context + 1}
      /\ shown' # shown /\ (context' = context + 1 \/ shown' = Publisher)
      /\ gaveUp' = Abandoned
      /\ UNCHANGED <<up, job, ui, picks, crossed>>
  BY DEF CourseInv, UploadsTypeOK, Follow, service
<1>1. UploadsTypeOK'
  BY <1>0, AbandonedIs DEF UploadsTypeOK, Follow, service
<1>2. ContextMove
  BY <1>0 DEF ContextMove
<1>3. DialogFits' /\ SameSession(ui.request)'
  <2>1. ui.gen \in Nat
    BY <1>0 DEF UploadsTypeOK, DialogRec
  <2>2. ui.open => /\ ui.gen <= context'
                   /\ ui.account # shown' => ui.gen < context' \/ shown' = Publisher
    BY <1>0, <1>1, <1>2, <2>1, OutdatedStays DEF FitsInv, DialogFits
  <2>. QED  BY <1>0, <2>2 DEF FitsInv, DialogFits, Outdated, SameSession, Pending
<1>4. \A r \in gaveUp' : r \in gaveUp \/ (up[r].at # "new" /\ (UnderWay(up[r])' => Dead(up[r])'))
  <2> SUFFICES ASSUME NEW r \in Abandoned, r \notin gaveUp
               PROVE  up[r].at # "new" /\ (UnderWay(up[r])' => Dead(up[r])')
    BY <1>0
  <2>1. UnderWay(up[r]) /\ RequestFits(up[r]) /\ up[r].gen \in Nat
    BY <1>0, AbandonedIs DEF UploadsTypeOK, UploadRec
  <2>2. up[r].gen < context' \/ (shown' = Publisher /\ up[r].account # Publisher)
    BY <1>0, <2>1 DEF RequestFits, Outdated
  <2>. QED  BY <1>0, <2>1, <2>2 DEF UnderWay, Dead
<1>5. BusyInv'
  <2> SUFFICES ASSUME ui.open, ui.state = "uploading", ~crossed
               PROVE  /\ Busy'
                      /\ Pending(ui.request) /\ up[ui.request].at = "listen" => ui.alive
    BY <1>0 DEF BusyInv, Pending
  <2>1. ui.gen <= context /\ ui.gen \in Nat /\ Outdated(ui)
    BY <1>0 DEF FitsInv, DialogFits, UploadsTypeOK, DialogRec
  <2>2. ui.account # shown' \/ ui.gen # context'
    BY <1>0, <2>1 DEF Outdated
  <2>3. Busy'
    BY <1>0, <2>2 DEF Busy
  <2>. QED  BY <1>0, <2>3 DEF BusyInv
<1>. QED  BY <1>0, <1>1, <1>2, <1>3, <1>4, <1>5, Still, MoveKeepsCourse

(* A request that stops before the command is called, or is answered.      *)
LEMMA EndingTyped ==
  ASSUME CourseInv, NEW r \in Requests, Request(r, Done)
  PROVE  /\ up' \in [Requests -> UploadRec]
         /\ \A q \in Requests : up'[q] = IF q = r THEN Done ELSE up[q]
         /\ \A q \in Requests : Continues(q)
         /\ ~UnderWay(up'[r])
<1>1. up' \in [Requests -> UploadRec] /\ \A q \in Requests : up'[q] = IF q = r THEN Done ELSE up[q]
  BY EmptyRecords DEF CourseInv, UploadsTypeOK, Request
<1>2. Done.at = "done"
  BY DEF Done, NoUpload
<1>. QED  BY <1>1, <1>2 DEF Continues, UnderWay

(* The steps of a request in the dialog.                                   *)
LEMMA ListenKeepsCourse ==
  ASSUME CourseInv, NEW r \in Requests, Listen(r)
  PROVE  CourseInv'
<1>0. /\ UploadsTypeOK /\ FitsInv /\ BusyInv /\ ui \in DialogRec /\ up[r] \in UploadRec
      /\ up[r].at = "listen"
      /\ UNCHANGED <<limit, auth, shown, context, file, registry, job, picks, gaveUp, crossed>>
  BY DEF CourseInv, UploadsTypeOK, Listen, env, At
<1>1. CASE Wanted(up[r])
  <2>1. /\ ui' = [ui EXCEPT !.listener = r]
        /\ up' = [up EXCEPT ![r] = [up[r] EXCEPT !.at = "start"]]
    BY <1>1 DEF Listen, Request
  <2>2. ui' \in DialogRec
    <3>1. r \in RequestOrNone
      BY UploadsAssumption DEF Requests, RequestOrNone
    <3>. QED  BY <1>0, <2>1, <3>1 DEF DialogRec
  <2>3. SteadyDialog
    BY <1>0, <2>1 DEF SteadyDialog, DialogRec
  <2>4. PICK k : k = [up[r] EXCEPT !.at = "start"]
    OBVIOUS
  <2>5. Advance(r, k)
    BY <1>0, <2>1, <2>4 DEF Advance, UnderWay, UploadRec
  <2>6. SteadyRequests /\ up' \in [Requests -> UploadRec]
    BY <1>0, <2>5, AdvanceSteady
  <2>7. UploadsTypeOK'
    BY <1>0, <2>2, <2>6 DEF UploadsTypeOK
  <2>8. \A j \in Jobs : job[j].pick /\ ~Clearing(job[j]) =>
          job'[j].pick /\ ~Clearing(job[j])' /\ job'[j].session = job[j].session
    BY <1>0 DEF Clearing
  <2>. QED  BY <1>0, <2>3, <2>6, <2>7, <2>8, FitsWithoutJobs, GivenUpStays, DialogStaysBusy
            DEF CourseInv
<1>2. CASE ~Wanted(up[r])
  <2>1. UNCHANGED ui /\ Request(r, Done)
    BY <1>2 DEF Listen
  <2>2. /\ up' \in [Requests -> UploadRec]
        /\ \A q \in Requests : up'[q] = IF q = r THEN Done ELSE up[q]
        /\ \A q \in Requests : Continues(q)
        /\ ~UnderWay(up'[r])
    BY <2>1, EndingTyped
  <2>3. UploadsTypeOK'
    BY <1>0, <2>1, <2>2 DEF UploadsTypeOK
  <2>4. ui.request # 0 => ui.request \in Requests
    BY <1>0, UploadsAssumption DEF DialogRec, RequestOrNone, Requests
  <2>5. Pending(ui.request)' => Pending(ui.request) /\ ui.request # r
                                /\ up'[ui.request] = up[ui.request]
    BY <2>1, <2>2, <2>4 DEF Pending, UnderWay
  <2>6. DialogFits' /\ SameSession(ui.request)'
    BY <1>0, <2>1, <2>5 DEF FitsInv, DialogFits, Outdated, SameSession
  <2>7. BusyInv'
    <3> SUFFICES ASSUME ui.open, ui.state = "uploading", ~crossed
                 PROVE  /\ Busy'
                        /\ Pending(ui.request)' /\ up'[ui.request].at = "listen" => ui.alive
      BY <1>0, <2>1 DEF BusyInv
    <3>1. Busy /\ (Pending(ui.request) /\ up[ui.request].at = "listen" => ui.alive)
      BY <1>0 DEF BusyInv
    <3>2. CASE ui.request = r
      <4>1. Pending(ui.request) /\ up[ui.request].at = "listen"
        BY <1>0, <3>2, UploadsAssumption DEF Pending, Requests
      <4>2. Wanted(up[r])
        BY <1>0, <3>1, <3>2, <4>1 DEF Wanted, FitsInv, SameSession
      <4>. QED  BY <1>2, <4>2
    <3>3. CASE ui.request # r
      <4>1. Pending(ui.request) => Pending(ui.request)' /\ up'[ui.request] = up[ui.request]
        BY <2>1, <2>2, <2>4, <3>3 DEF Pending
      <4>2. Busy'
        BY <1>0, <2>1, <3>1, <4>1 DEF Busy, Clearing
      <4>. QED  BY <2>5, <3>1, <4>2
    <3>. QED  BY <3>2, <3>3
  <2>. QED  BY <1>0, <2>1, <2>2, <2>3, <2>6, <2>7, Still, MoveKeepsCourse
<1>. QED  BY <1>1, <1>2

LEMMA ListenFailsKeepsCourse ==
  ASSUME CourseInv, NEW r \in Requests, ListenFails(r)
  PROVE  CourseInv'
<1>0. /\ UploadsTypeOK /\ FitsInv /\ ui \in DialogRec
      /\ ui' = [ui EXCEPT !.state = "failed"] /\ Request(r, Done)
      /\ UNCHANGED <<limit, auth, shown, context, file, registry, job, picks, gaveUp, crossed>>
  BY DEF CourseInv, UploadsTypeOK, ListenFails, env
<1>1. /\ ui' \in DialogRec /\ ui'.state = "failed" /\ (ui'.open <=> ui.open)
      /\ ui'.session = ui.session /\ ui'.account = ui.account /\ ui'.gen = ui.gen
      /\ ui'.sel = ui.sel /\ ui'.request = ui.request
  BY <1>0 DEF DialogRec
<1>2. /\ up' \in [Requests -> UploadRec]
      /\ \A q \in Requests : up'[q] = IF q = r THEN Done ELSE up[q]
      /\ \A q \in Requests : Continues(q)
      /\ ~UnderWay(up'[r])
  BY <1>0, EndingTyped
<1>3. UploadsTypeOK'
  BY <1>0, <1>1, <1>2 DEF UploadsTypeOK
<1>4. ui.request # 0 => ui.request \in Requests
  BY <1>0, UploadsAssumption DEF DialogRec, RequestOrNone, Requests
<1>5. Pending(ui.request)' => Pending(ui.request) /\ up'[ui.request] = up[ui.request]
  BY <1>1, <1>2, <1>4 DEF Pending, UnderWay
<1>6. DialogFits' /\ SameSession(ui.request)'
  BY <1>0, <1>1, <1>5 DEF FitsInv, DialogFits, Outdated, SameSession
<1>7. DialogMove
  BY <1>1 DEF DialogMove, SelectionMove
<1>8. BusyInv'
  BY <1>1 DEF BusyInv
<1>. QED  BY <1>0, <1>2, <1>3, <1>6, <1>7, <1>8, Still, MoveKeepsCourse

(* A dialog that closes knows of no selection and no request.              *)
LEMMA ClosingFits ==
  ASSUME CourseInv, NEW n, ui' = Closed(n), n = ui.session \/ n = ui.session + 1, UNCHANGED picks
  PROVE  /\ DialogFits' /\ SameSession(ui.request)' /\ BusyInv' /\ DialogMove
         /\ ui' \in DialogRec
<1>1. n \in Nat /\ ui.session \in Nat /\ ui.session <= n
  BY DEF CourseInv, UploadsTypeOK, DialogRec
<1>2. ~ui'.open /\ ui'.session = n /\ ui'.request = 0 /\ ui'.sel.id = 0 /\ ui' \in DialogRec
  BY <1>1, ClosedIs, EmptyRecords
<1>3. 0 \in 0 .. picks'
  BY UploadsAssumption DEF CourseInv, UploadsTypeOK, PickOrNone
<1>. QED  BY <1>1, <1>2, <1>3 DEF DialogFits, SameSession, Pending, BusyInv, DialogMove, SelectionMove

LEMMA BackKeepsCourse ==
  ASSUME CourseInv, NEW r \in Requests, Back(r)
  PROVE  CourseInv'
<1>0. /\ UploadsTypeOK /\ FitsInv /\ BusyInv /\ ui \in DialogRec /\ up[r] \in UploadRec
      /\ up[r].at = "back" /\ Request(r, Done)
      /\ UNCHANGED <<limit, auth, shown, context, file, registry, job, picks, gaveUp>>
  BY DEF CourseInv, UploadsTypeOK, Back, env, At
<1>1. /\ up' \in [Requests -> UploadRec]
      /\ \A q \in Requests : up'[q] = IF q = r THEN Done ELSE up[q]
      /\ \A q \in Requests : Continues(q)
      /\ ~UnderWay(up'[r])
  BY <1>0, EndingTyped
<1>2. ui.request # 0 => ui.request \in Requests
  BY <1>0, UploadsAssumption DEF DialogRec, RequestOrNone, Requests
<1>3. CASE ui' = Closed(ui.session)
  <2>1. /\ DialogFits' /\ SameSession(ui.request)' /\ BusyInv' /\ DialogMove
        /\ ui' \in DialogRec
    BY <1>0, <1>3, ClosingFits
  <2>2. UploadsTypeOK'
    BY <1>0, <1>1, <2>1 DEF UploadsTypeOK
  <2>. QED  BY <1>0, <1>1, <2>1, <2>2, Still, MoveKeepsCourse
<1>4. ASSUME NEW s \in {ui.state, "cancelled", "failed"},
             ui' = [ui EXCEPT !.alive = FALSE, !.listener = 0, !.state = s],
             s \in {"cancelled", "failed"} \/ (s = ui.state /\ ~AcceptsCompletion(r))
      PROVE  CourseInv'
  <2>1. /\ ui' \in DialogRec /\ ui'.state = s /\ (ui'.open <=> ui.open)
        /\ ui'.session = ui.session /\ ui'.account = ui.account /\ ui'.gen = ui.gen
        /\ ui'.sel = ui.sel /\ ui'.request = ui.request
    <3>1. 0 \in RequestOrNone
      BY UploadsAssumption DEF RequestOrNone
    <3>. QED  BY <1>0, <1>4, <3>1 DEF DialogRec
  <2>2. UploadsTypeOK'
    BY <1>0, <1>1, <2>1 DEF UploadsTypeOK
  <2>3. Pending(ui.request)' => Pending(ui.request) /\ ui.request # r
                                /\ up'[ui.request] = up[ui.request]
    BY <1>1, <1>2, <2>1 DEF Pending, UnderWay
  <2>4. DialogFits' /\ SameSession(ui.request)'
    BY <1>0, <2>1, <2>3 DEF FitsInv, DialogFits, Outdated, SameSession
  <2>5. DialogMove
    BY <2>1 DEF DialogMove, SelectionMove
  <2>6. BusyInv'
    <3> SUFFICES ASSUME ui.open, ui.state = "uploading", ~crossed', s = ui.state
                 PROVE  /\ Busy'
                        /\ ~(Pending(ui.request)' /\ up'[ui.request].at = "listen")
      BY <1>4, <2>1 DEF BusyInv
    <3>1. ~crossed /\ ~\E q \in Requests : At(q, "listen") /\ Wanted(up[q])
      BY DEF Back
    <3>2. ~AcceptsCompletion(r)
      BY <1>4
    <3>3. Busy /\ (Pending(ui.request) /\ up[ui.request].at = "listen" => ui.alive)
      BY <1>0, <3>1 DEF BusyInv
    <3>4. CASE ui.request = r
      <4>1. Pending(r) /\ up[r].session = ui.session /\ up[r].account = ui.account
            /\ up[r].gen = ui.gen
        BY <1>0, <3>4, UploadsAssumption DEF Pending, Requests, FitsInv, SameSession
      <4>2. CASE up[r].sel.id = ui.sel.id
        <5>1. ui.account # shown \/ ui.gen # context
          BY <3>2, <3>4, <4>1, <4>2 DEF AcceptsCompletion, Current
        <5>2. Busy'
          BY <1>0, <2>1, <5>1 DEF Busy
        <5>. QED  BY <2>3, <3>4, <5>2
      <4>3. CASE up[r].sel.id # ui.sel.id
        <5>1. Busy'
          BY <1>0, <2>1, <3>3, <3>4, <4>3 DEF Busy, Clearing
        <5>. QED  BY <2>3, <3>4, <5>1
      <4>. QED  BY <4>2, <4>3
    <3>5. CASE ui.request # r
      <4>1. Pending(ui.request) => Pending(ui.request)' /\ up'[ui.request] = up[ui.request]
        BY <1>1, <1>2, <2>1, <3>5 DEF Pending
      <4>2. Busy'
        BY <1>0, <2>1, <3>3, <4>1 DEF Busy, Clearing
      <4>3. ~(Pending(ui.request) /\ up[ui.request].at = "listen")
        <5> SUFFICES ASSUME Pending(ui.request), up[ui.request].at = "listen"  PROVE FALSE
          OBVIOUS
        <5>1. ui.request \in Requests
          BY <1>2 DEF Pending
        <5>2. Wanted(up[ui.request])
          BY <1>0, <3>3 DEF Wanted, FitsInv, SameSession
        <5>. QED  BY <3>1, <5>1, <5>2 DEF At
      <4>. QED  BY <2>3, <4>2, <4>3
    <3>. QED  BY <3>4, <3>5
  <2>. QED  BY <1>0, <1>1, <2>2, <2>4, <2>5, <2>6, Still, MoveKeepsCourse
<1>5. CASE ~AcceptsCompletion(r)
  <2>1. ui' = [ui EXCEPT !.alive = FALSE, !.listener = 0]
    BY <1>5 DEF Back
  <2>2. ui' = [ui EXCEPT !.alive = FALSE, !.listener = 0, !.state = ui.state]
    BY <1>0, <2>1 DEF DialogRec
  <2>. QED  BY <1>4, <1>5, <2>2
<1>6. CASE AcceptsCompletion(r) /\ ui' # Closed(ui.session)
  <2>1. PICK s \in {"cancelled", "failed"} :
          ui' = [[ui EXCEPT !.alive = FALSE, !.listener = 0] EXCEPT !.state = s]
    BY <1>6 DEF Back
  <2>2. ui' = [ui EXCEPT !.alive = FALSE, !.listener = 0, !.state = s]
    BY <1>0, <2>1 DEF DialogRec
  <2>. QED  BY <1>4, <2>2
<1>. QED  BY <1>3, <1>5, <1>6

(* The dialog with a request just made.                                    *)
LEMMA ClickKeepsCourse ==
  ASSUME CourseInv, NEW r \in Requests, Click(r)
  PROVE  CourseInv'
<1>0. /\ UploadsTypeOK /\ FitsInv /\ ui \in DialogRec /\ up[r].at = "new"
      /\ ui.open /\ ui.sel.id # 0
      /\ UNCHANGED <<limit, auth, shown, context, file, registry, job, picks, gaveUp, crossed>>
      /\ r # 0 /\ r \in RequestOrNone /\ 0 \in RequestOrNone
  BY UploadsAssumption
     DEF CourseInv, UploadsTypeOK, Click, env, At, Requests, RequestOrNone
<1>1. ui' = [ui EXCEPT !.state = "uploading", !.request = r, !.upload = 0,
                       !.alive = TRUE, !.listener = 0]
  BY DEF Click
<1>2. /\ ui' \in DialogRec /\ ui'.open /\ ui'.session = ui.session /\ ui'.alive
      /\ ui'.account = ui.account /\ ui'.gen = ui.gen /\ ui'.sel = ui.sel /\ ui'.request = r
  BY <1>0, <1>1 DEF DialogRec
<1>3. PICK k : k = [NoUpload EXCEPT !.at = "listen", !.sel = ui.sel, !.session = ui.session,
                                    !.account = ui.account, !.gen = ui.gen]
  OBVIOUS
<1>4. /\ k \in UploadRec /\ k.at = "listen" /\ k.sel = ui.sel /\ k.session = ui.session
      /\ k.account = ui.account /\ k.gen = ui.gen
  <2>1. NoUpload \in UploadRec
    BY EmptyRecords
  <2>. QED  BY <1>0, <1>3, <2>1 DEF UploadRec, DialogRec
<1>5. /\ up' \in [Requests -> UploadRec]
      /\ \A q \in Requests : up'[q] = IF q = r THEN k ELSE up[q]
  BY <1>0, <1>3, <1>4 DEF Click, Request, UploadsTypeOK
<1>6. UploadsTypeOK'
  BY <1>0, <1>2, <1>5 DEF UploadsTypeOK
<1>7. \A q \in Requests : Continues(q)
  BY <1>0, <1>4, <1>5 DEF Continues, UnderWay
<1>8. DialogFits' /\ SameSession(ui.request)'
  BY <1>0, <1>2, <1>4, <1>5 DEF FitsInv, DialogFits, Outdated, SameSession, Pending
<1>9. DialogMove
  BY <1>0, <1>2 DEF DialogMove, SelectionMove
<1>10. BusyInv'
  <2>1. Busy'
    BY <1>0, <1>2, <1>4, <1>5 DEF Busy, Pending
  <2>. QED  BY <1>2, <2>1 DEF BusyInv
<1>. QED  BY <1>0, <1>6, <1>7, <1>8, <1>9, <1>10, Still, MoveKeepsCourse

(* A free place for a job.                                                 *)
LEMMA SpawnMoves ==
  ASSUME CourseInv, NEW j \in Jobs, NEW k \in JobRec, Spawn(j, k), JobFits(k)',
         Held(k) \in {0, Held(job[j])},
         Clearing(k) => (Clearing(job[j]) /\ k.sel = job[j].sel) \/ k.sel = ui.sel.id
  PROVE  /\ job' \in [Jobs -> JobRec] /\ \A i \in Jobs : JobMove(i)
         /\ \A i \in Jobs : job'[i] = IF i = j THEN k ELSE job[i]
<1>1. job' \in [Jobs -> JobRec] /\ \A i \in Jobs : job'[i] = IF i = j THEN k ELSE job[i]
  BY DEF CourseInv, UploadsTypeOK, Spawn
<1>2. JobMove(j)
  <2>1. job'[j] = k
    BY <1>1
  <2>. QED  BY <2>1 DEF JobMove, JobFits, Held, Clearing
<1>. QED  BY <1>1, <1>2 DEF JobMove

(* A job that only discards.                                               *)
LEMMA DropIs ==
  ASSUME CourseInv, NEW u \in RequestOrNone, NEW s \in PickOrNone
  PROVE  /\ Drop(u, s) \in JobRec /\ ~Drop(u, s).pick /\ Held(Drop(u, s)) = 0
         /\ ~Clearing(Drop(u, s)) /\ Drop(u, s).sel = s
         /\ Drop(u, s).at \in {"free", "cancel", "stop"}
<1>1. NoJob \in JobRec /\ ~NoJob.pick
  BY EmptyRecords DEF NoJob
<1>2. /\ Drop(u, s) \in JobRec /\ ~Drop(u, s).pick /\ Drop(u, s).sel = s
      /\ Drop(u, s).at \in {"free", "cancel", "stop"}
  <2>1. PICK a \in {"free", "cancel", "stop"} :
          Drop(u, s) = [NoJob EXCEPT !.at = a, !.upload = u, !.sel = s]
    BY DEF Drop
  <2>. QED  BY <1>1, <2>1 DEF JobRec
<1>. QED  BY <1>2 DEF Held, Clearing

(* A job that only discards fits whatever the dialog does.                 *)
LEMMA DropFits ==
  ASSUME CourseInv, NEW j \in Jobs, NEW u \in RequestOrNone, NEW s \in PickOrNone,
         Spawn(j, Drop(u, s)), UNCHANGED picks
  PROVE  /\ job' \in [Jobs -> JobRec] /\ \A i \in Jobs : JobMove(i)
         /\ \A i \in Jobs : job'[i] = IF i = j THEN Drop(u, s) ELSE job[i]
<1>1. picks \in Nat
  BY UploadsAssumption DEF CourseInv, UploadsTypeOK, PickOrNone
<1>2. PICK k : k = Drop(u, s)
  OBVIOUS
<1>3. /\ k \in JobRec /\ ~k.pick /\ Held(k) = 0 /\ ~Clearing(k) /\ k.sel = s
      /\ k.at \in {"free", "cancel", "stop"}
  BY <1>1, <1>2, DropIs
<1>4. JobFits(k)'
  BY <1>1, <1>3 DEF JobFits, Held, Clearing
<1>5. Spawn(j, k)
  BY <1>2
<1>. QED  BY <1>2, <1>3, <1>4, <1>5, SpawnMoves

(* The ways the dialog closes or cancels.                                  *)
LEMMA ReactKeepsCourse ==
  ASSUME CourseInv, NEW j \in Jobs, React(j)
  PROVE  CourseInv'
<1>0. /\ UploadsTypeOK /\ FitsInv /\ ui \in DialogRec
      /\ Spawn(j, Drop(ui.upload, ui.sel.id)) /\ ui' = Closed(ui.session + 1)
      /\ UNCHANGED <<limit, auth, shown, context, file, registry, up, picks, gaveUp, crossed>>
  BY DEF CourseInv, UploadsTypeOK, React, env, service
<1>1. ui.upload \in RequestOrNone /\ ui.sel.id \in PickOrNone /\ ui.session + 1 \in Nat
  BY <1>0 DEF DialogRec, Selection
<1>2. job' \in [Jobs -> JobRec] /\ \A i \in Jobs : JobMove(i)
  BY <1>0, <1>1, DropFits
<1>3. /\ DialogFits' /\ SameSession(ui.request)' /\ BusyInv' /\ DialogMove
      /\ ui' \in DialogRec
  BY <1>0, <1>1, ClosingFits
<1>4. UploadsTypeOK'
  BY <1>0, <1>2, <1>3 DEF UploadsTypeOK
<1>. QED  BY <1>0, <1>2, <1>3, <1>4, Still, MoveKeepsCourse

LEMMA CancelUploadKeepsCourse ==
  ASSUME CourseInv, NEW j \in Jobs, NEW close \in BOOLEAN, CancelUpload(j, close)
  PROVE  CourseInv'
<1>0. /\ UploadsTypeOK /\ FitsInv /\ ui \in DialogRec
      /\ Spawn(j, Drop(ui.upload, ui.sel.id)) /\ gaveUp' = Abandoned
      /\ UNCHANGED <<limit, auth, shown, context, file, registry, up, picks, crossed>>
  BY DEF CourseInv, UploadsTypeOK, CancelUpload, env, service
<1>1. /\ ui.upload \in RequestOrNone /\ ui.sel.id \in PickOrNone
      /\ ui.session \in Nat /\ ui.session + 1 \in Nat
  BY <1>0 DEF DialogRec, Selection
<1>2. job' \in [Jobs -> JobRec] /\ \A i \in Jobs : JobMove(i)
  BY <1>0, <1>1, DropFits
<1>3. /\ DialogFits' /\ SameSession(ui.request)' /\ BusyInv' /\ DialogMove
      /\ ui' \in DialogRec /\ ui'.session = ui.session + 1
  <2>1. CASE close
    <3>1. ui' = Closed(ui.session + 1)
      BY <2>1 DEF CancelUpload
    <3>. QED  BY <1>0, <1>1, <3>1, ClosingFits, ClosedIs
  <2>2. CASE ~close
    <3>1. ui' = [ui EXCEPT !.alive = FALSE, !.listener = 0, !.session = @ + 1,
                           !.sel = NoSelection, !.upload = 0, !.request = 0,
                           !.state = "cancelled"]
      BY <2>2 DEF CancelUpload
    <3>2. 0 \in RequestOrNone /\ NoSelection \in Selection /\ NoSelection.id = 0
      BY EmptyRecords, UploadsAssumption DEF RequestOrNone, NoSelection
    <3>3. /\ ui' \in DialogRec /\ ui'.session = ui.session + 1 /\ ui'.sel.id = 0
          /\ ui'.request = 0 /\ ui'.state = "cancelled" /\ (ui'.open <=> ui.open)
          /\ ui'.account = ui.account /\ ui'.gen = ui.gen
      BY <1>0, <1>1, <3>1, <3>2 DEF DialogRec
    <3>4. 0 \in 0 .. picks'
      BY <1>0, UploadsAssumption DEF UploadsTypeOK, PickOrNone
    <3>5. DialogFits'
      BY <1>0, <3>3, <3>4 DEF FitsInv, DialogFits, Outdated
    <3>. QED  BY <1>1, <3>3, <3>5 DEF SameSession, Pending, BusyInv, DialogMove
  <2>. QED  BY <2>1, <2>2
<1>4. UploadsTypeOK'
  BY <1>0, <1>2, <1>3, AbandonedIs DEF UploadsTypeOK
<1>5. \A r \in gaveUp' : r \in gaveUp \/ (up[r].at # "new" /\ (UnderWay(up[r])' => Dead(up[r])'))
  <2> SUFFICES ASSUME NEW r \in Abandoned, r \notin gaveUp
               PROVE  up[r].at # "new" /\ (UnderWay(up[r])' => Dead(up[r])')
    BY <1>0
  <2>1. UnderWay(up[r]) /\ RequestFits(up[r]) /\ up[r].session \in Nat
    BY <1>0, AbandonedIs DEF UploadsTypeOK, UploadRec
  <2>. QED  BY <1>0, <1>1, <1>3, <2>1 DEF RequestFits, UnderWay, Dead
<1>. QED  BY <1>0, <1>2, <1>3, <1>4, <1>5, Still, MoveKeepsCourse

(* The ways the picker opens.                                              *)
LEMMA OpenKeepsCourse ==
  ASSUME CourseInv, NEW j \in Jobs, Open(j)
  PROVE  CourseInv'
<1> DEFINE refused == shown = Nothing \/ draft # Nothing
<1>0. /\ UploadsTypeOK /\ FitsInv /\ ui \in DialogRec /\ ~ui.open
      /\ job[j].at = "free" /\ shown \in Someone /\ context \in Nat /\ ui.session \in Nat
      /\ ui.session + 1 \in Nat
      /\ 0 \in RequestOrNone /\ picks \in Nat /\ NoJob \in JobRec
      /\ UNCHANGED <<limit, auth, shown, context, file, registry, up, picks, gaveUp, crossed>>
  BY UploadsAssumption, EmptyRecords
     DEF CourseInv, UploadsTypeOK, Open, Free, env, service, DialogRec, RequestOrNone, PickOrNone
<1>1. PICK s \in {"failed", "selecting"} :
        ui' = [ui EXCEPT !.open = TRUE, !.session = @ + 1, !.account = shown, !.gen = context,
                         !.state = s,
                         !.request = 0, !.upload = 0, !.alive = TRUE, !.listener = 0]
  BY DEF Open
<1>2. /\ ui' \in DialogRec /\ ui'.open /\ ui'.session = ui.session + 1 /\ ui'.state = s
      /\ ui'.account = shown /\ ui'.gen = context /\ ui'.sel = ui.sel /\ ui'.request = 0
  BY <1>0, <1>1 DEF DialogRec
<1>3. ui'.sel.id = 0
  BY <1>0, <1>2 DEF FitsInv, DialogFits
<1>4. PICK k : k = IF refused THEN NoJob
                   ELSE [NoJob EXCEPT !.at = "ask", !.pick = TRUE, !.full = TRUE,
                           !.session = ui.session + 1, !.account = shown, !.gen = context]
  OBVIOUS
<1>5. Spawn(j, k)
  BY <1>4 DEF Open
<1>6. k \in JobRec /\ Held(k) = 0 /\ ~Clearing(k) /\ JobFits(k)'
  <2>1. CASE refused
    <3>1. k = NoJob
      BY <1>4, <2>1
    <3>2. ~k.pick /\ k.at = "free" /\ k.sel = 0
      BY <3>1 DEF NoJob
    <3>. QED  BY <1>0, <3>1, <3>2 DEF JobFits, Held, Clearing
  <2>2. CASE ~refused
    <3>1. k = [NoJob EXCEPT !.at = "ask", !.pick = TRUE, !.full = TRUE,
                           !.session = ui.session + 1, !.account = shown, !.gen = context]
      BY <1>4, <2>2
    <3>2. /\ k \in JobRec /\ k.pick /\ k.at = "ask" /\ k.sel = 0
          /\ k.session = ui.session + 1 /\ k.account = shown /\ k.gen = context
      <4>1. NoJob.sel = 0
        BY DEF NoJob
      <4>. QED  BY <1>0, <3>1, <4>1 DEF JobRec
    <3>. QED  BY <1>0, <1>2, <3>2 DEF JobFits, Held, Clearing
  <2>. QED  BY <2>1, <2>2
<1>7. job' \in [Jobs -> JobRec] /\ \A i \in Jobs : JobMove(i)
  BY <1>5, <1>6, SpawnMoves
<1>8. UploadsTypeOK'
  BY <1>0, <1>2, <1>7 DEF UploadsTypeOK
<1>9. DialogFits' /\ SameSession(ui.request)' /\ DialogMove /\ BusyInv'
  BY <1>0, <1>2, <1>3 DEF DialogFits, Outdated, SameSession, Pending, DialogMove, BusyInv
<1>. QED  BY <1>0, <1>7, <1>8, <1>9, Still, MoveKeepsCourse

LEMMA ChooseAnotherKeepsCourse ==
  ASSUME CourseInv, NEW j \in Jobs, ChooseAnother(j)
  PROVE  CourseInv'
<1>0. /\ UploadsTypeOK /\ FitsInv /\ ui \in DialogRec /\ ui.open
      /\ job[j].at = "free" /\ ui.session \in Nat
      /\ ui.sel.id \in 0 .. picks /\ picks \in Nat /\ ui.sel.id \in PickOrNone /\ NoJob \in JobRec
      /\ ui' = [ui EXCEPT !.state = "selecting"]
      /\ UNCHANGED <<limit, auth, shown, context, file, registry, up, picks, gaveUp, crossed>>
  BY UploadsAssumption, EmptyRecords
     DEF CourseInv, UploadsTypeOK, ChooseAnother, Free, env, service, DialogRec, PickOrNone,
         Selection, FitsInv, DialogFits
<1>2. /\ ui' \in DialogRec /\ ui'.open /\ ui'.session = ui.session /\ ui'.state = "selecting"
      /\ ui'.account = ui.account /\ ui'.gen = ui.gen /\ ui'.sel = ui.sel
      /\ ui'.request = ui.request
  BY <1>0 DEF DialogRec
<1>3. PICK a \in {"stop", "ask"} :
        /\ a = IF ui.sel.id # 0 THEN "stop" ELSE "ask"
        /\ Spawn(j, [NoJob EXCEPT !.at = a, !.sel = ui.sel.id, !.pick = TRUE,
                                  !.session = ui.session, !.account = ui.account])
  BY DEF ChooseAnother
<1>4. PICK k : k = [NoJob EXCEPT !.at = a, !.sel = ui.sel.id, !.pick = TRUE,
                                 !.session = ui.session, !.account = ui.account]
  OBVIOUS
<1>5. /\ k \in JobRec /\ k.pick /\ k.at = a /\ k.sel = ui.sel.id /\ ~k.full
      /\ k.session = ui.session /\ k.account = ui.account
  <2>1. ~NoJob.full /\ NoJob \in JobRec
    BY EmptyRecords DEF NoJob
  <2>. QED  BY <1>0, <1>4, <2>1 DEF JobRec, DialogRec
<1>6. Held(k) = 0 /\ JobFits(k)'
  BY <1>0, <1>2, <1>3, <1>5 DEF JobFits, Held, Clearing
<1>7. job' \in [Jobs -> JobRec] /\ \A i \in Jobs : JobMove(i)
  BY <1>3, <1>4, <1>5, <1>6, SpawnMoves
<1>8. UploadsTypeOK'
  BY <1>0, <1>2, <1>7 DEF UploadsTypeOK
<1>9. DialogFits' /\ SameSession(ui.request)' /\ DialogMove /\ BusyInv'
  BY <1>0, <1>2
     DEF FitsInv, DialogFits, Outdated, SameSession, Pending, DialogMove, SelectionMove, BusyInv
<1>. QED  BY <1>0, <1>7, <1>8, <1>9, Still, MoveKeepsCourse

(* A selection is cleared, or one that was picked is taken over.           *)
LEMMA ClearSelectionKeepsCourse ==
  ASSUME CourseInv, NEW j \in Jobs, ClearSelection(j)
  PROVE  CourseInv'
<1> DEFINE g == job[j]
<1>0. /\ UploadsTypeOK /\ FitsInv /\ BusyInv /\ ui \in DialogRec /\ g \in JobRec /\ JobFits(g)
      /\ g.at = "clear" /\ ui.session \in Nat /\ picks \in Nat /\ 0 \in PickOrNone
      /\ ui' = [ui EXCEPT !.sel = NoSelection] /\ gaveUp' = Abandoned
      /\ NoSelection \in Selection /\ NoSelection.id = 0
      /\ UNCHANGED <<limit, auth, shown, context, file, registry, up, picks>>
  BY UploadsAssumption, EmptyRecords
     DEF CourseInv, UploadsTypeOK, ClearSelection, env, service, DialogRec, PickOrNone,
         FitsInv, NoSelection
<1>1. /\ ui' \in DialogRec /\ (ui'.open <=> ui.open) /\ ui'.session = ui.session
      /\ ui'.account = ui.account /\ ui'.gen = ui.gen /\ ui'.sel.id = 0
      /\ ui'.request = ui.request /\ ui'.state = ui.state /\ (ui'.alive <=> ui.alive)
  BY <1>0 DEF DialogRec
<1>2. PICK k : k = [g EXCEPT !.at = "ask", !.sel = 0]
  OBVIOUS
<1>3. /\ k \in JobRec /\ (k.pick <=> g.pick) /\ k.at = "ask" /\ k.sel = 0
      /\ k.session = g.session /\ k.account = g.account /\ (k.full <=> g.full) /\ k.gen = g.gen
  BY <1>0, <1>2 DEF JobRec
<1>4. g.pick
  BY <1>0 DEF JobFits
<1>5. Held(k) = 0 /\ ~Clearing(k) /\ JobFits(k)' /\ Spawn(j, k)
  BY <1>0, <1>1, <1>2, <1>3, <1>4 DEF JobFits, Held, Clearing, ClearSelection
<1>6. /\ job' \in [Jobs -> JobRec] /\ \A i \in Jobs : JobMove(i)
      /\ \A i \in Jobs : job'[i] = IF i = j THEN k ELSE job[i]
  BY <1>3, <1>5, SpawnMoves
<1>7. UploadsTypeOK'
  BY <1>0, <1>1, <1>6, AbandonedIs DEF UploadsTypeOK
<1>8. DialogFits' /\ SameSession(ui.request)' /\ DialogMove
  BY <1>0, <1>1
     DEF FitsInv, DialogFits, Outdated, SameSession, Pending, DialogMove, SelectionMove
<1>9. \A r \in gaveUp' : r \in gaveUp \/ (up[r].at # "new" /\ (UnderWay(up[r])' => Dead(up[r])'))
  <2> SUFFICES ASSUME NEW r \in Abandoned, r \notin gaveUp
               PROVE  up[r].at # "new" /\ (UnderWay(up[r])' => Dead(up[r])')
    BY <1>0
  <2>1. UnderWay(up[r]) /\ RequestFits(up[r])
    BY <1>0, AbandonedIs
  <2>. QED  BY <1>0, <1>1, <2>1 DEF RequestFits, UnderWay, Dead
<1>10. BusyInv'
  <2> SUFFICES ASSUME ui.open, ui.state = "uploading", ~crossed'
               PROVE  /\ Busy'
                      /\ Pending(ui.request) /\ up[ui.request].at = "listen" => ui.alive
    BY <1>0, <1>1 DEF BusyInv, Pending
  <2>1. ~crossed /\ ui.sel.id \in {0, g.sel}
    BY DEF ClearSelection
  <2>2. Busy /\ (Pending(ui.request) /\ up[ui.request].at = "listen" => ui.alive)
    BY <1>0, <2>1 DEF BusyInv
  <2>3. CASE Pending(ui.request) /\ up[ui.request].sel.id = ui.sel.id
    <3>1. ui.request \in Requests
      BY <1>0, <2>3, UploadsAssumption DEF Pending, DialogRec, RequestOrNone, Requests
    <3>2. ui.sel.id # 0
      BY <1>0, <2>3, <3>1 DEF FitsInv, Pending, UnderWay, RequestFits
    <3>3. g.session = ui.session
      BY <1>0, <1>4, <2>1, <3>2 DEF JobFits, Clearing
    <3>4. job'[j].pick /\ ~Clearing(job[j])' /\ job'[j].session = ui'.session
      BY <1>1, <1>3, <1>4, <1>6, <3>3 DEF Clearing
    <3>. QED  BY <2>2, <3>4 DEF Busy
  <2>4. CASE \E i \in Jobs : job[i].pick /\ ~Clearing(job[i]) /\ job[i].session = ui.session
    <3>1. PICK i \in Jobs : job[i].pick /\ ~Clearing(job[i]) /\ job[i].session = ui.session
      BY <2>4
    <3>2. i # j
      BY <1>0, <3>1 DEF Clearing
    <3>3. job'[i].pick /\ ~Clearing(job[i])' /\ job'[i].session = ui'.session
      BY <1>1, <1>6, <3>1, <3>2 DEF Clearing
    <3>. QED  BY <2>2, <3>3 DEF Busy
  <2>5. CASE ui.account # shown \/ ui.gen # context
    BY <1>0, <1>1, <2>2, <2>5 DEF Busy
  <2>. QED  BY <2>2, <2>3, <2>4, <2>5 DEF Busy
<1>. QED  BY <1>0, <1>6, <1>7, <1>8, <1>9, <1>10, Still, MoveKeepsCourse

LEMMA PickedKeepsCourse ==
  ASSUME CourseInv, NEW j \in Jobs, Picked(j)
  PROVE  CourseInv'
<1> DEFINE g == job[j]
           wanted == /\ shown = g.account /\ ui.session = g.session /\ ui.open
                     /\ g.full => context = g.gen
<1>0. /\ UploadsTypeOK /\ FitsInv /\ BusyInv /\ ui \in DialogRec /\ g \in JobRec /\ JobFits(g)
      /\ g.at = "back" /\ g.pick /\ ~Clearing(g) /\ picks \in Nat /\ 0 \in RequestOrNone
      /\ UNCHANGED <<limit, auth, shown, context, file, registry, up, picks, gaveUp, crossed>>
  BY UploadsAssumption
     DEF CourseInv, UploadsTypeOK, Picked, env, service, PickOrNone, RequestOrNone, FitsInv,
         JobFits, Clearing
<1>1. CASE ~wanted
  <2>1. UNCHANGED ui /\ Spawn(j, Drop(0, g.found.id))
    BY <1>1 DEF Picked
  <2>2. g.found.id \in PickOrNone
    BY <1>0 DEF JobRec, Selection
  <2>3. /\ job' \in [Jobs -> JobRec] /\ \A i \in Jobs : JobMove(i)
        /\ \A i \in Jobs : job'[i] = IF i = j THEN Drop(0, g.found.id) ELSE job[i]
    BY <1>0, <2>1, <2>2, DropFits
  <2>4. UploadsTypeOK'
    BY <1>0, <2>1, <2>3 DEF UploadsTypeOK
  <2>5. DialogFits' /\ SameSession(ui.request)'
    BY <1>0, <2>1 DEF FitsInv, DialogFits, Outdated, SameSession, Pending
  <2>6. BusyInv'
    <3> SUFFICES ASSUME ui.open, ui.state = "uploading", ~crossed
                 PROVE  /\ Busy'
                        /\ Pending(ui.request) /\ up[ui.request].at = "listen" => ui.alive
      BY <1>0, <2>1 DEF BusyInv, Pending
    <3>1. Busy /\ (Pending(ui.request) /\ up[ui.request].at = "listen" => ui.alive)
      BY <1>0 DEF BusyInv
    <3>2. CASE \E i \in Jobs : job[i].pick /\ ~Clearing(job[i]) /\ job[i].session = ui.session
      <4>1. PICK i \in Jobs : job[i].pick /\ ~Clearing(job[i]) /\ job[i].session = ui.session
        BY <3>2
      <4>2. CASE i # j
        <5>1. job'[i].pick /\ ~Clearing(job[i])' /\ job'[i].session = ui'.session
          BY <2>1, <2>3, <4>1, <4>2 DEF Clearing
        <5>. QED  BY <3>1, <5>1 DEF Busy
      <4>3. CASE i = j
        <5>1. ui.account # shown \/ ui.gen # context
          BY <1>0, <1>1, <4>1, <4>3 DEF JobFits
        <5>. QED  BY <1>0, <2>1, <3>1, <5>1 DEF Busy
      <4>. QED  BY <4>2, <4>3
    <3>3. CASE Pending(ui.request) /\ up[ui.request].sel.id = ui.sel.id
      BY <1>0, <2>1, <3>1, <3>3 DEF Busy, Pending
    <3>4. CASE ui.account # shown \/ ui.gen # context
      BY <1>0, <2>1, <3>1, <3>4 DEF Busy
    <3>. QED  BY <3>1, <3>2, <3>3, <3>4 DEF Busy
  <2>. QED  BY <1>0, <2>1, <2>3, <2>4, <2>5, <2>6, Still, MoveKeepsCourse
<1>2. CASE wanted
  <2>1. Spawn(j, NoJob)
    BY <1>2 DEF Picked
  <2>2. \E s \in {"failed", "idle", "ready"}, f \in {ui.sel, NoSelection, g.found} :
          /\ ui' = [ui EXCEPT !.sel = f, !.state = s]
          /\ f = g.found => g.why = "ok" \/ f \in {ui.sel, NoSelection}
    <3>1. CASE g.why = "failed"
      <4>1. ui' = [ui EXCEPT !.state = "failed"]
        BY <1>2, <3>1 DEF Picked
      <4>2. ui' = [ui EXCEPT !.sel = ui.sel, !.state = "failed"]
        BY <1>0, <4>1 DEF DialogRec
      <4>. QED  BY <4>2
    <3>2. CASE g.why = "none"
      <4>1. ui' = [ui EXCEPT !.state = "idle", !.sel = NoSelection]
        BY <1>2, <3>2 DEF Picked
      <4>2. ui' = [ui EXCEPT !.sel = NoSelection, !.state = "idle"]
        BY <1>0, <4>1 DEF DialogRec
      <4>. QED  BY <4>2
    <3>3. CASE g.why = "ok"
      <4>1. PICK s \in {"failed", "ready"} : ui' = [ui EXCEPT !.sel = g.found, !.state = s]
        BY <1>2, <3>3 DEF Picked
      <4>. QED  BY <3>3, <4>1
    <3>. QED  BY <1>0, <3>1, <3>2, <3>3 DEF JobRec
  <2>3. PICK s \in {"failed", "idle", "ready"}, f \in {ui.sel, NoSelection, g.found} :
          /\ ui' = [ui EXCEPT !.sel = f, !.state = s]
          /\ f = g.found => g.why = "ok" \/ f \in {ui.sel, NoSelection}
    BY <2>2
  <2>4. f \in Selection
    BY <1>0, EmptyRecords DEF DialogRec, JobRec
  <2>5. /\ ui' \in DialogRec /\ (ui'.open <=> ui.open) /\ ui'.session = ui.session
        /\ ui'.account = ui.account /\ ui'.gen = ui.gen /\ ui'.sel = f
        /\ ui'.request = ui.request /\ ui'.state = s
    BY <1>0, <2>3, <2>4 DEF DialogRec
  <2>6. NoJob \in JobRec /\ ~NoJob.pick /\ NoJob.at = "free"
    BY EmptyRecords DEF NoJob
  <2>7. Held(NoJob) = 0 /\ ~Clearing(NoJob) /\ JobFits(NoJob)'
    BY <1>0, <2>6 DEF JobFits, Held, Clearing
  <2>8. /\ job' \in [Jobs -> JobRec] /\ \A i \in Jobs : JobMove(i)
        /\ \A i \in Jobs : job'[i] = IF i = j THEN NoJob ELSE job[i]
    BY <2>1, <2>6, <2>7, SpawnMoves
  <2>9. UploadsTypeOK'
    BY <1>0, <2>5, <2>8 DEF UploadsTypeOK
  <2>10. f.id \in {0, ui.sel.id} \/ (g.why = "ok" /\ f = g.found)
    BY <2>3 DEF NoSelection
  <2>11. f.id <= picks /\ f.id \in Nat
    <3>1. f.id \in Nat
      BY <2>4, UploadsAssumption DEF Selection, PickOrNone
    <3>2. CASE f.id \in {0, ui.sel.id}
      BY <1>0, <3>2 DEF FitsInv, DialogFits
    <3>3. CASE g.why = "ok" /\ f = g.found
      <4>1. Held(g) = f.id
        BY <1>0, <3>3 DEF Held
      <4>2. Held(g) <= picks
        BY <1>0 DEF JobFits
      <4>. QED  BY ONLY <3>1, <4>1, <4>2
    <3>. QED  BY <2>10, <3>1, <3>2, <3>3
  <2>12. DialogFits' /\ SameSession(ui.request)' /\ BusyInv'
    BY <1>0, <1>2, <2>5, <2>11
       DEF FitsInv, DialogFits, Outdated, SameSession, Pending, BusyInv
  <2>13. SelectionMove
    <3>1. CASE f.id \in {0, ui.sel.id}
      BY <2>5, <3>1 DEF SelectionMove
    <3>2. CASE g.why = "ok" /\ f = g.found /\ f.id # 0
      <4>1. Held(g) = f.id /\ Held(job[j])' = 0
        BY <1>0, <2>7, <2>8, <3>2 DEF Held
      <4>. QED  BY <2>5, <3>2, <4>1 DEF SelectionMove
    <3>. QED  BY <2>10, <3>1, <3>2
  <2>14. DialogMove
    BY <2>5, <2>13 DEF DialogMove
  <2>. QED  BY <1>0, <2>8, <2>9, <2>12, <2>14, Still, MoveKeepsCourse
<1>. QED  BY <1>1, <1>2

(* Every step keeps the course.                                            *)
LEMMA CourseKept ==
  ASSUME CourseInv, [UploadsNext]_uploadVars
  PROVE  CourseInv'
<1>1. ASSUME NEW r \in Requests, Upload(r) \/ Hear(r) \/ Click(r)  PROVE  CourseInv'
  BY <1>1, ServeKeepsCourse, ListenKeepsCourse, ListenFailsKeepsCourse, BackKeepsCourse,
     HearKeepsCourse, ClickKeepsCourse
     DEF Upload
<1>2. ASSUME NEW j \in Jobs, JobStep(j) \/ React(j)  PROVE  CourseInv'
  BY <1>2, DiscardingKeepsCourse, ClearSelectionKeepsCourse, PickingKeepsCourse,
     PickedKeepsCourse, ReactKeepsCourse
     DEF JobStep
<1>3. ASSUME NEW j \in Jobs, Open(j) \/ ChooseAnother(j) \/ Pick(j) \/ NoPick(j)
                             \/ \E close \in BOOLEAN : CancelUpload(j, close)
      PROVE  CourseInv'
  BY <1>3, OpenKeepsCourse, ChooseAnotherKeepsCourse, PickingKeepsCourse,
     CancelUploadKeepsCourse
<1>4. ASSUME World  PROVE  CourseInv'
  BY <1>4, SwitchOrWriteKeepsCourse, FollowKeepsCourse, LoadKeepsCourse DEF World
<1>5. CASE UNCHANGED uploadVars
  <2>1. UNCHANGED <<up, job, picks>> /\ SteadyDialog
    BY <1>5 DEF uploadVars, env, service, dialog, SteadyDialog
  <2>2. UploadsTypeOK'
    BY <1>5 DEF uploadVars, env, service, dialog, CourseInv, UploadsTypeOK
  <2>. QED  BY <2>1, <2>2, QuietStepKeepsCourse
<1>. QED  BY <1>1, <1>2, <1>3, <1>4, <1>5 DEF UploadsNext, User

(* It holds at the start.                                                  *)
LEMMA CourseAtFirst == UploadsInit => CourseInv
<1> SUFFICES ASSUME UploadsInit  PROVE  CourseInv
  OBVIOUS
<1>1. UploadsTypeOK
  BY UploadsInitTyped
<1>2. /\ ~ui.open /\ ui.session = 0 /\ ui.request = 0 /\ ui.sel.id = 0 /\ picks = 0
      /\ gaveUp = {}
  BY ClosedIs DEF UploadsInit
<1>3. \A r \in Requests : ~UnderWay(up[r])
  BY DEF UploadsInit, NoUpload, UnderWay
<1>4. \A j \in Jobs : job[j].at = "free" /\ ~job[j].pick
  BY DEF UploadsInit, NoJob
<1>5. FitsInv
  BY <1>2, <1>3, <1>4
     DEF FitsInv, DialogFits, SameSession, Pending, JobFits, HeldAlone, Held, Clearing
<1>. QED  BY <1>1, <1>2, <1>5 DEF CourseInv, GivenUpInv, BusyInv

-----------------------------------------------------------------------------
(* What a request delivered is on the server.                              *)

(* The service: what is sent is stored, what is delivered was sent.        *)
LEMMA ServeKeepsStored ==
  ASSUME CourseInv, StoredInv, NEW r \in Requests, Serve(r)
  PROVE  StoredInv'
<1> DEFINE u == up[r]
<1>0. /\ up \in [Requests -> UploadRec] /\ u \in UploadRec /\ UNCHANGED draft
      /\ stored \subseteq stored' /\ Delivered(u)
  <2>1. PICK k \in UploadRec : ServiceStep(r, k)
    BY ServeSteps DEF CourseInv
  <2>. QED  BY <2>1 DEF ServiceStep, CourseInv, UploadsTypeOK, StoredInv
<1>1. ASSUME NEW k, up' = [up EXCEPT ![r] = k],
             k.at = "finish" => k.sent \in stored',
             k.at = "back" /\ k.why = "ok" => k.hash \in stored'
      PROVE  StoredInv'
  <2>1. \A q \in Requests : up'[q] = IF q = r THEN k ELSE up[q]
    BY <1>0, <1>1
  <2>2. \A q \in Requests : Delivered(up[q])'
    BY <1>0, <1>1, <2>1 DEF StoredInv, Delivered
  <2>3. DraftIsStored'
    BY <1>0 DEF StoredInv, DraftIsStored
  <2>. QED  BY <2>2, <2>3 DEF StoredInv
<1>2. CASE Start(r) \/ Activate(r) \/ Select(r) \/ HashFile(r) \/ Sign(r)
  <2>1. CASE Start(r)
    <3>1. PICK k : k = [u EXCEPT !.at = "activate", !.op = TRUE]
      OBVIOUS
    <3>2. k.at \notin {"finish", "back"}
      BY <1>0, <3>1 DEF UploadRec
    <3>3. up' = [up EXCEPT ![r] = k]
      BY <2>1, <3>1 DEF Start, Request
    <3>. QED  BY <1>1, <3>2, <3>3
  <2>2. CASE Activate(r)
    <3>1. PICK k : k = [u EXCEPT !.at = "select", !.active = TRUE]
      OBVIOUS
    <3>2. k.at \notin {"finish", "back"}
      BY <1>0, <3>1 DEF UploadRec
    <3>3. up' = [up EXCEPT ![r] = k]
      BY <2>2, <3>1 DEF Activate, Request
    <3>. QED  BY <1>1, <3>2, <3>3
  <2>3. CASE Select(r)
    <3>1. PICK k : k = [u EXCEPT !.at = "hash", !.stamp = registry[u.sel.id], !.kind = file.content]
      OBVIOUS
    <3>2. k.at \notin {"finish", "back"}
      BY <1>0, <3>1 DEF UploadRec
    <3>3. up' = [up EXCEPT ![r] = k]
      BY <2>3, <3>1 DEF Select, Request
    <3>. QED  BY <1>1, <3>2, <3>3
  <2>4. CASE HashFile(r)
    <3>1. PICK k : k = [u EXCEPT !.at = "sign", !.hash = file.content]
      OBVIOUS
    <3>2. k.at \notin {"finish", "back"}
      BY <1>0, <3>1 DEF UploadRec
    <3>3. up' = [up EXCEPT ![r] = k]
      BY <2>4, <3>1 DEF HashFile, Request
    <3>. QED  BY <1>1, <3>2, <3>3
  <2>5. CASE Sign(r)
    <3>1. PICK k : k = [u EXCEPT !.at = "send", !.opened = file.content]
      OBVIOUS
    <3>2. k.at \notin {"finish", "back"}
      BY <1>0, <3>1 DEF UploadRec
    <3>3. up' = [up EXCEPT ![r] = k]
      BY <2>5, <3>1 DEF Sign, Request
    <3>. QED  BY <1>1, <3>2, <3>3
  <2>. QED  BY <1>2, <2>1, <2>2, <2>3, <2>4, <2>5
<1>3. CASE Send(r)
  <2>1. PICK body \in {u.opened, file.content} :
          /\ stored' = stored \cup {body}
          /\ \E claim \in {u.hash, body} :
               Request(r, [u EXCEPT !.at = "finish", !.sent = body, !.claim = claim])
    BY <1>3 DEF Send
  <2>2. PICK claim \in {u.hash, body} :
          Request(r, [u EXCEPT !.at = "finish", !.sent = body, !.claim = claim])
    BY <2>1
  <2>3. PICK k : k = [u EXCEPT !.at = "finish", !.sent = body, !.claim = claim]
    OBVIOUS
  <2>4. k.at = "finish" /\ k.sent = body
    BY <1>0, <2>3 DEF UploadRec
  <2>5. up' = [up EXCEPT ![r] = k]
    BY <2>2, <2>3 DEF Request
  <2>6. body \in stored'
    BY <2>1
  <2>. QED  BY <1>1, <2>4, <2>5, <2>6
<1>4. CASE Finish(r)
  <2>1. u.hash \in stored'
    BY <1>0, <1>4 DEF Finish, Verified, Delivered, At
  <2>2. PICK k : k = Ended(u, "ok")
    OBVIOUS
  <2>3. k.at = "back" /\ k.hash = u.hash
    BY <1>0, <2>2, EndedTyped
  <2>. QED  BY <1>1, <1>4, <2>1, <2>2, <2>3 DEF Finish, Request
<1>5. CASE UploadFails(r) \/ Cancelled(r)
  <2>1. PICK why \in {"failed", "cancelled"} : Request(r, Ended(u, why))
    BY <1>5 DEF UploadFails, Cancelled
  <2>2. PICK k : k = Ended(u, why)
    OBVIOUS
  <2>3. k.at = "back" /\ k.why # "ok"
    BY <1>0, <2>2, EndedTyped
  <2>. QED  BY <1>1, <2>1, <2>2, <2>3 DEF Request
<1>. QED  BY <1>2, <1>3, <1>4, <1>5 DEF Serve

(* Nobody else stores or delivers: a request as it was, or one that has    *)
(* nothing to deliver.                                                     *)
LEMMA StoredStays ==
  ASSUME StoredInv, UNCHANGED stored,
         \/ UNCHANGED draft
         \/ draft' = Nothing
         \/ draft'.hash \in stored,
         \A q \in Requests : \/ up'[q].at \notin {"finish", "back"}
                             \/ /\ up'[q].at = up[q].at /\ up'[q].why = up[q].why
                                /\ up'[q].sent = up[q].sent /\ up'[q].hash = up[q].hash
  PROVE  StoredInv'
<1>1. DraftIsStored'
  BY DEF StoredInv, DraftIsStored
<1>2. \A q \in Requests : Delivered(up[q])'
  BY DEF StoredInv, Delivered
<1>. QED  BY <1>1, <1>2 DEF StoredInv

-----------------------------------------------------------------------------
(* The steps outside the service.                                          *)
Elsewhere ==
  \/ \E r \in Requests : Listen(r) \/ ListenFails(r) \/ Back(r) \/ Hear(r)
  \/ \E j \in Jobs : JobStep(j) \/ React(j)
  \/ User \/ World
  \/ UNCHANGED uploadVars

(* A request rests where the service left it, ends, or is just asked for.  *)
Rests(k, l) ==
  \/ /\ l.at = k.at /\ l.sel = k.sel /\ l.why = k.why /\ l.sent = k.sent
     /\ l.hash = k.hash /\ l.stamp = k.stamp
  \/ l.at = "done" /\ l.stamp = 0
  \/ k.at = "listen" /\ l.at = "start" /\ l.sel = k.sel /\ l.stamp = k.stamp
  \/ l.at = "listen" /\ l.sel = ui.sel /\ ui.sel.id # 0 /\ l.stamp = 0

(* No step outside the service moves a request within it.                  *)
LEMMA RestsWhenUnchanged ==
  ASSUME UNCHANGED up
  PROVE  \A q \in Requests : Rests(up[q], up'[q])
BY DEF Rests

LEMMA DialogLetsRest ==
  ASSUME CourseInv, NEW r \in Requests,
         Listen(r) \/ ListenFails(r) \/ Back(r) \/ Hear(r) \/ Click(r)
  PROVE  \A q \in Requests : Rests(up[q], up'[q])
<1>0. /\ up \in [Requests -> UploadRec] /\ up[r] \in UploadRec
      /\ ui.sel \in Selection
  BY DEF CourseInv, UploadsTypeOK, DialogRec
<1>1. CASE Request(r, Done)
  <2>1. Done.at = "done" /\ Done.stamp = 0
    BY DEF Done, NoUpload
  <2>. QED  BY <1>0, <1>1, <2>1 DEF Request, Rests
<1>2. CASE Listen(r) /\ Wanted(up[r])
  <2>1. PICK k : k = [up[r] EXCEPT !.at = "start"]
    OBVIOUS
  <2>2. k.at = "start" /\ k.sel = up[r].sel /\ k.stamp = up[r].stamp
    BY <1>0, <2>1 DEF UploadRec
  <2>3. up' = [up EXCEPT ![r] = k] /\ up[r].at = "listen"
    BY <1>2, <2>1 DEF Listen, Request, At
  <2>. QED  BY <1>0, <2>2, <2>3 DEF Rests
<1>3. CASE Click(r)
  <2>1. PICK k : k = [NoUpload EXCEPT !.at = "listen", !.sel = ui.sel, !.session = ui.session,
                                      !.account = ui.account, !.gen = ui.gen]
    OBVIOUS
  <2>2. k.at = "listen" /\ k.sel = ui.sel /\ k.stamp = 0
    BY <2>1 DEF NoUpload
  <2>3. up' = [up EXCEPT ![r] = k] /\ ui.sel.id # 0
    BY <1>3, <2>1 DEF Click, Request
  <2>. QED  BY <1>0, <2>2, <2>3 DEF Rests
<1>4. CASE Hear(r)
  BY <1>4, RestsWhenUnchanged DEF Hear, service
<1>5. CASE Listen(r) /\ ~Wanted(up[r])
  BY <1>1, <1>5 DEF Listen
<1>. QED  BY <1>1, <1>2, <1>3, <1>4, <1>5 DEF ListenFails, Back

LEMMA JobsLetRest ==
  ASSUME CourseInv, NEW j \in Jobs, JobStep(j)
  PROVE  \A q \in Requests : Rests(up[q], up'[q])
<1>0. up \in [Requests -> UploadRec]
  BY DEF CourseInv, UploadsTypeOK
<1>1. CASE CancelById(j)
  <2>1. PICK r : r = job[j].upload
    OBVIOUS
  <2>2. PICK k : k = [up[r] EXCEPT !.token = @ \/ up[r].active]
    OBVIOUS
  <2>3. up' = [up EXCEPT ![r] = k]
    BY <1>1, <2>1, <2>2 DEF CancelById
  <2>4. ASSUME NEW q \in Requests  PROVE  Rests(up[q], up'[q])
    <3>1. CASE q # r
      BY <1>0, <2>3, <3>1 DEF Rests
    <3>2. CASE q = r
      <4>1. up[r] \in UploadRec /\ up'[q] = k
        BY <1>0, <2>3, <3>2
      <4>. QED  BY <2>2, <3>2, <4>1, TokenOrEntry DEF Rests, UploadRec
    <3>. QED  BY <3>1, <3>2
  <2>. QED  BY <2>4
<1>2. CASE StopUploads(j)
  <2> SUFFICES ASSUME NEW q \in Requests  PROVE  Rests(up[q], up'[q])
    OBVIOUS
  <2>1. up[q] \in UploadRec
    BY <1>0
  <2>2. up'[q] = up[q] \/ up'[q] = [up[q] EXCEPT !.token = @ \/ up[q].active]
    BY <1>2 DEF StopUploads
  <2>. QED  BY <2>1, <2>2 DEF Rests, UploadRec
<1>3. CASE RemoveOperations(j)
  <2> SUFFICES ASSUME NEW q \in Requests  PROVE  Rests(up[q], up'[q])
    OBVIOUS
  <2>1. up[q] \in UploadRec
    BY <1>0
  <2>2. up'[q] = up[q] \/ up'[q] = [up[q] EXCEPT !.op = FALSE]
    BY <1>3 DEF RemoveOperations
  <2>. QED  BY <2>1, <2>2 DEF Rests, UploadRec
<1>4. CASE ~(CancelById(j) \/ StopUploads(j) \/ RemoveOperations(j))
  <2>1. UNCHANGED up
    BY <1>4 DEF JobStep, CleanSelection, ClearSelection, Inspect, Preview, InspectFails,
                Picked, service
  <2>. QED  BY <2>1, RestsWhenUnchanged
<1>. QED  BY <1>1, <1>2, <1>3, <1>4

LEMMA ElsewhereRests ==
  ASSUME CourseInv, Elsewhere
  PROVE  \A q \in Requests : Rests(up[q], up'[q])
<1>1. ASSUME NEW j \in Jobs, React(j) \/ Open(j) \/ ChooseAnother(j) \/ Pick(j) \/ NoPick(j)
                             \/ \E close \in BOOLEAN : CancelUpload(j, close)
      PROVE  UNCHANGED up
  BY <1>1 DEF React, Open, ChooseAnother, Pick, NoPick, CancelUpload, service
<1>2. CASE World \/ UNCHANGED uploadVars
  <2>1. UNCHANGED up
    BY <1>2 DEF World, Switch, Follow, Load, Write, uploadVars, service
  <2>. QED  BY <2>1, RestsWhenUnchanged
<1>. QED  BY <1>1, <1>2, RestsWhenUnchanged, DialogLetsRest, JobsLetRest DEF Elsewhere, User

(* The draft changes when another page is loaded or a request the dialog   *)
(* awaits has delivered.                                                   *)
Enters(r) ==
  /\ up[r].at = "back" /\ up[r].why = "ok" /\ AcceptsCompletion(r)
  /\ draft' = [hash |-> up[r].hash, preview |-> up[r].sel.preview, of |-> r]

LEMMA DraftMoves ==
  ASSUME Elsewhere
  PROVE  /\ UNCHANGED stored
         /\ UNCHANGED draft \/ draft' = Nothing \/ \E r \in Requests : Enters(r)
<1>1. ASSUME NEW r \in Requests, Back(r)
      PROVE  UNCHANGED stored /\ (UNCHANGED draft \/ Enters(r))
  BY <1>1 DEF Back, Enters, At
<1>2. ASSUME NEW r \in Requests, Listen(r) \/ ListenFails(r) \/ Hear(r) \/ Click(r)
      PROVE  UNCHANGED <<stored, draft>>
  BY <1>2 DEF Listen, ListenFails, Hear, Click, service
<1>3. ASSUME NEW j \in Jobs, JobStep(j) \/ React(j)
      PROVE  UNCHANGED <<stored, draft>>
  BY <1>3 DEF JobStep, CancelById, StopUploads, RemoveOperations, CleanSelection,
              ClearSelection, Inspect, Preview, InspectFails, Picked, React, service
<1>4. ASSUME NEW j \in Jobs, Open(j) \/ ChooseAnother(j) \/ Pick(j) \/ NoPick(j)
                             \/ \E close \in BOOLEAN : CancelUpload(j, close)
      PROVE  UNCHANGED <<stored, draft>>
  BY <1>4 DEF Open, ChooseAnother, Pick, NoPick, CancelUpload, service
<1>5. CASE World \/ UNCHANGED uploadVars
  BY <1>5 DEF World, Switch, Follow, Load, Write, uploadVars, service
<1>. QED  BY <1>1, <1>2, <1>3, <1>4, <1>5 DEF Elsewhere, User

(* Every step keeps what was delivered on the server.                      *)
LEMMA StoredKept ==
  ASSUME CourseInv, StoredInv, [UploadsNext]_uploadVars
  PROVE  StoredInv'
<1>1. CASE \E r \in Requests : Serve(r)
  BY <1>1, ServeKeepsStored
<1>2. CASE Elsewhere
  <2>1. /\ UNCHANGED stored
        /\ UNCHANGED draft \/ draft' = Nothing \/ \E r \in Requests : Enters(r)
    BY <1>2, DraftMoves
  <2>2. \A q \in Requests : Rests(up[q], up'[q])
    BY <1>2, ElsewhereRests
  <2>3. ASSUME NEW r \in Requests, Enters(r)  PROVE  draft'.hash \in stored
    BY <2>3 DEF Enters, StoredInv, Delivered
  <2>. QED  BY <2>1, <2>2, <2>3, StoredStays DEF Rests
<1>. QED  BY <1>1, <1>2 DEF UploadsNext, Upload, Elsewhere

-----------------------------------------------------------------------------
(* What the dialog shows and what is uploaded.                             *)

(* The file stays, its stamp tells that it was written, or nothing does.   *)
FileMove ==
  /\ forged => forged'
  /\ \/ UNCHANGED file
     \/ file'.stamp = file.stamp + 1
     \/ file'.stamp = file.stamp /\ forged'

(* Selections are forgotten, and the next one enters with the present stamp.*)
RegistryMove ==
  /\ registry' \in [Picks -> Nat]
  /\ \A s \in Picks : \/ registry'[s] \in {0, registry[s]}
                      \/ s = picks + 1 /\ registry'[s] = file.stamp /\ UNCHANGED file

ShownMove ==
  \/ ui'.sel = ui.sel \/ ui'.sel.id = 0
  \/ \E j \in Jobs : Hands(job[j]) /\ ui'.sel = job[j].found

HandsMove ==
  \A j \in Jobs : Hands(job'[j]) =>
    \/ Hands(job[j]) /\ job'[j].found = job[j].found
    \/ job'[j].found.preview = file.content /\ UNCHANGED file

PreviewMove == FileMove /\ RegistryMove /\ ShownMove /\ HandsMove

(* What is left alone moves in no way.                                     *)
LEMMA PreviewQuiet ==
  ASSUME CourseInv
  PROVE  /\ UNCHANGED registry => RegistryMove
         /\ UNCHANGED ui => ShownMove
         /\ UNCHANGED job => HandsMove
         /\ UNCHANGED env => FileMove
BY DEF CourseInv, UploadsTypeOK, RegistryMove, ShownMove, HandsMove, FileMove, env

(* Every step outside the service is such a move.                          *)
LEMMA RequestsMovePreview ==
  ASSUME CourseInv, NEW r \in Requests,
         Listen(r) \/ ListenFails(r) \/ Back(r) \/ Hear(r) \/ Click(r)
  PROVE  PreviewMove
<1>1. UNCHANGED <<env, registry, job>>
  BY DEF Listen, ListenFails, Back, Hear, Click, service
<1>2. ui \in DialogRec
  BY DEF CourseInv, UploadsTypeOK
<1>3. ShownMove
  <2>1. CASE Listen(r) \/ ListenFails(r) \/ Hear(r) \/ Click(r)
    BY <1>2, <2>1 DEF Listen, ListenFails, Hear, Click, ShownMove, DialogRec
  <2>2. CASE Back(r)
    <3>1. PICK now : now = [ui EXCEPT !.alive = FALSE, !.listener = 0]
      OBVIOUS
    <3>2. now.sel = ui.sel /\ \A s : [now EXCEPT !.state = s].sel = ui.sel
      BY <1>2, <3>1 DEF DialogRec
    <3>3. ui' = now \/ ui' = Closed(ui.session)
          \/ \E s \in {"cancelled", "failed"} : ui' = [now EXCEPT !.state = s]
      BY <2>2, <3>1 DEF Back
    <3>. QED  BY <3>2, <3>3, ClosedIs DEF ShownMove
  <2>. QED  BY <2>1, <2>2
<1>. QED  BY <1>1, <1>3, PreviewQuiet DEF PreviewMove

LEMMA DialogMovesPreview ==
  ASSUME CourseInv, NEW j \in Jobs,
         React(j) \/ Open(j) \/ ChooseAnother(j) \/ \E close \in BOOLEAN : CancelUpload(j, close)
  PROVE  PreviewMove
<1>0. /\ UNCHANGED <<env, registry>> /\ ui \in DialogRec /\ job \in [Jobs -> JobRec]
  BY DEF CourseInv, UploadsTypeOK, React, Open, ChooseAnother, CancelUpload, service
<1>1. \E k : Spawn(j, k) /\ k.at # "back"
  <2>1. NoJob.at # "back" /\ \A u, s : Drop(u, s).at # "back"
    BY DEF NoJob, Drop
  <2>2. CASE React(j) \/ \E close \in BOOLEAN : CancelUpload(j, close)
    BY <2>1, <2>2 DEF React, CancelUpload
  <2>3. CASE Open(j)
    <3>1. PICK k : k = [NoJob EXCEPT !.at = "ask", !.pick = TRUE, !.full = TRUE,
                         !.session = ui.session + 1, !.account = shown, !.gen = context]
      OBVIOUS
    <3>2. k.at # "back"
      BY <3>1 DEF NoJob
    <3>3. Spawn(j, NoJob) \/ Spawn(j, k)
      BY <2>3, <3>1 DEF Open
    <3>. QED  BY <2>1, <3>2, <3>3
  <2>4. CASE ChooseAnother(j)
    <3>1. PICK k : k = [NoJob EXCEPT !.at = IF ui.sel.id # 0 THEN "stop" ELSE "ask",
                            !.sel = ui.sel.id, !.pick = TRUE,
                            !.session = ui.session, !.account = ui.account]
      OBVIOUS
    <3>2. k.at # "back"
      BY <3>1 DEF NoJob
    <3>3. Spawn(j, k)
      BY <2>4, <3>1 DEF ChooseAnother
    <3>. QED  BY <3>2, <3>3
  <2>. QED  BY <2>2, <2>3, <2>4
<1>2. PICK k : Spawn(j, k) /\ k.at # "back"
  BY <1>1
<1>3. HandsMove
  BY <1>0, <1>2 DEF Spawn, HandsMove, Hands
<1>4. ShownMove
  <2>1. CASE React(j) \/ CancelUpload(j, TRUE)
    BY <2>1, ClosedIs DEF React, CancelUpload, ShownMove
  <2>2. CASE Open(j) \/ ChooseAnother(j)
    BY <1>0, <2>2 DEF Open, ChooseAnother, ShownMove, DialogRec
  <2>3. CASE CancelUpload(j, FALSE)
    <3>1. ui'.sel = NoSelection
      BY <1>0, <2>3 DEF CancelUpload, DialogRec
    <3>. QED  BY <3>1 DEF ShownMove, NoSelection
  <2>. QED  BY <2>1, <2>2, <2>3
<1>. QED  BY <1>0, <1>3, <1>4, PreviewQuiet DEF PreviewMove

LEMMA JobsMovePreview ==
  ASSUME CourseInv, NEW j \in Jobs, JobStep(j) \/ Pick(j) \/ NoPick(j)
  PROVE  PreviewMove
<1> DEFINE g == job[j]
<1>0. /\ g \in JobRec /\ job \in [Jobs -> JobRec] /\ registry \in [Picks -> Nat] /\ ui \in DialogRec
      /\ file.stamp \in Nat /\ picks \in Nat
      /\ UNCHANGED env
  <2>1. UNCHANGED env
    BY DEF JobStep, CancelById, StopUploads, RemoveOperations, CleanSelection, ClearSelection,
           Inspect, Preview, InspectFails, Picked, Pick, NoPick
  <2>. QED  BY <2>1, UploadsAssumption DEF CourseInv, UploadsTypeOK, PickOrNone
<1>1. ASSUME NEW k, Spawn(j, k),
             ~Hands(k) \/ (Hands(g) /\ k.found = g.found) \/ k.found.preview = file.content
      PROVE  HandsMove
  BY <1>0, <1>1 DEF Spawn, HandsMove, Hands, env
<1>2. FileMove
  BY <1>0, PreviewQuiet
<1>3. NoJob.at # "back" /\ \A u, s : Drop(u, s).at # "back"
  BY DEF NoJob, Drop
<1>4. CASE CancelById(j) \/ StopUploads(j) \/ RemoveOperations(j)
  <2>1. \E k : Spawn(j, k) /\ k.at # "back"
    <3>1. PICK k : k = [g EXCEPT !.at = "stop"]
      OBVIOUS
    <3>2. PICK l : l \in {[g EXCEPT !.at = "remove", !.ops = ops] : ops \in SUBSET Requests}
      OBVIOUS
    <3>3. \A ops : [g EXCEPT !.at = "remove", !.ops = ops].at = "remove"
      BY <1>0 DEF JobRec
    <3>4. [g EXCEPT !.at = "clean", !.ops = {}].at = "clean" /\ k.at = "stop"
      BY <1>0, <3>1 DEF JobRec
    <3>5. CASE CancelById(j)
      BY <1>3, <3>1, <3>4, <3>5 DEF CancelById
    <3>6. CASE StopUploads(j)
      BY <3>3, <3>6 DEF StopUploads
    <3>7. CASE RemoveOperations(j)
      BY <3>4, <3>7 DEF RemoveOperations
    <3>. QED  BY <1>4, <3>5, <3>6, <3>7
  <2>2. HandsMove
    BY <1>1, <2>1 DEF Hands
  <2>3. UNCHANGED <<registry, ui>>
    BY <1>4 DEF CancelById, StopUploads, RemoveOperations, dialog
  <2>. QED  BY <1>2, <2>2, <2>3, PreviewQuiet DEF PreviewMove
<1>5. CASE CleanSelection(j) \/ ClearSelection(j)
  <2>1. \E k : Spawn(j, k) /\ k.at # "back"
    <3>1. [g EXCEPT !.at = "clear"].at = "clear" /\ [g EXCEPT !.at = "ask", !.sel = 0].at = "ask"
      BY <1>0 DEF JobRec
    <3>2. AfterDrop(g).at # "back"
      BY <1>3, <3>1 DEF AfterDrop
    <3>. QED  BY <1>5, <3>1, <3>2 DEF CleanSelection, ClearSelection
  <2>2. HandsMove
    BY <1>1, <2>1 DEF Hands
  <2>3. RegistryMove
    BY <1>0, <1>5, PreviewQuiet DEF CleanSelection, ClearSelection, RegistryMove, service
  <2>4. ShownMove
    <3>1. ui'.sel = ui.sel \/ ui'.sel = NoSelection
      BY <1>0, <1>5 DEF CleanSelection, ClearSelection, dialog, DialogRec
    <3>. QED  BY <3>1 DEF ShownMove, NoSelection
  <2>. QED  BY <1>2, <2>2, <2>3, <2>4 DEF PreviewMove
<1>6. CASE Pick(j)
  <2>1. PICK k : k = [g EXCEPT !.at = "inspect", !.sel = picks + 1]
    OBVIOUS
  <2>2. k.at = "inspect"
    BY <1>0, <2>1 DEF JobRec
  <2>3. Spawn(j, k) /\ UNCHANGED ui
    BY <1>6, <2>1 DEF Pick, dialog
  <2>4. RegistryMove
    <3>1. PICK alive \in SUBSET Registered : registry' = Register(picks + 1, alive)
      BY <1>6 DEF Pick
    <3>2. PICK kept : registry' = [t \in Picks |-> IF t = picks + 1 THEN file.stamp
                                                   ELSE IF t \in kept THEN registry[t] ELSE 0]
      BY <3>1 DEF Register
    <3>. QED  BY <1>0, <3>2 DEF RegistryMove, env
  <2>. QED  BY <1>1, <1>2, <2>2, <2>3, <2>4, PreviewQuiet DEF PreviewMove, Hands
<1>7. CASE NoPick(j)
  <2>1. PICK why \in {"none", "failed"} : Spawn(j, [g EXCEPT !.at = "back", !.why = why])
    BY <1>7 DEF NoPick
  <2>2. PICK k : k = [g EXCEPT !.at = "back", !.why = why]
    OBVIOUS
  <2>3. k.why # "ok"
    BY <1>0, <2>2 DEF JobRec
  <2>4. UNCHANGED <<registry, ui>>
    BY <1>7 DEF NoPick, service, dialog
  <2>. QED  BY <1>1, <1>2, <2>1, <2>2, <2>3, <2>4, PreviewQuiet DEF PreviewMove, Hands
<1>8. CASE Inspect(j)
  <2>1. PICK f : f = [id |-> g.sel, seen |-> file.content, preview |-> Nothing]
    OBVIOUS
  <2>2. PICK k : k = [g EXCEPT !.at = "preview", !.found = f]
    OBVIOUS
  <2>3. k.at = "preview"
    BY <1>0, <2>2 DEF JobRec
  <2>4. Spawn(j, k) /\ UNCHANGED <<registry, ui>>
    BY <1>8, <2>1, <2>2 DEF Inspect, service, dialog
  <2>. QED  BY <1>1, <1>2, <2>3, <2>4, PreviewQuiet DEF PreviewMove, Hands
<1>9. CASE Preview(j)
  <2>1. PICK k : k = [g EXCEPT !.at = "back", !.why = "ok", !.sel = 0,
                               !.found.preview = file.content]
    OBVIOUS
  <2>2. k.found.preview = file.content
    BY <1>0, <2>1 DEF JobRec, Selection
  <2>3. Spawn(j, k) /\ UNCHANGED <<registry, ui>>
    BY <1>9, <2>1 DEF Preview, service, dialog
  <2>. QED  BY <1>1, <1>2, <2>2, <2>3, PreviewQuiet DEF PreviewMove
<1>10. CASE InspectFails(j)
  <2>1. PICK k : k = [g EXCEPT !.at = "back", !.why = "failed", !.sel = 0, !.found = NoSelection]
    OBVIOUS
  <2>2. k.why = "failed"
    BY <1>0, <2>1 DEF JobRec
  <2>3. Spawn(j, k) /\ UNCHANGED ui
    BY <1>10, <2>1 DEF InspectFails, dialog
  <2>4. RegistryMove
    BY <1>0, <1>10 DEF InspectFails, RegistryMove
  <2>. QED  BY <1>1, <1>2, <2>2, <2>3, <2>4, PreviewQuiet DEF PreviewMove, Hands
<1>11. CASE Picked(j)
  <2>1. UNCHANGED registry /\ g.at = "back"
    BY <1>11 DEF Picked, service
  <2>2. \E k : Spawn(j, k) /\ k.at # "back"
    BY <1>3, <1>11 DEF Picked
  <2>3. HandsMove
    BY <1>1, <2>2 DEF Hands
  <2>4. ShownMove
    <3>1. g.why \in {"none", "ok", "failed"}
      BY <1>0 DEF JobRec
    <3>2. \/ UNCHANGED ui
          \/ ui' = [ui EXCEPT !.state = "failed"]
          \/ ui' = [ui EXCEPT !.state = "idle", !.sel = NoSelection]
          \/ g.why = "ok" /\ \E s \in {"failed", "ready"} :
               ui' = [ui EXCEPT !.sel = g.found, !.state = s]
      BY <1>11, <3>1 DEF Picked
    <3>3. ui'.sel = ui.sel \/ ui'.sel = NoSelection \/ (g.why = "ok" /\ ui'.sel = g.found)
      BY <1>0, <3>2 DEF DialogRec
    <3>. QED  BY <2>1, <3>3 DEF ShownMove, Hands, NoSelection
  <2>. QED  BY <1>2, <2>1, <2>3, <2>4, PreviewQuiet DEF PreviewMove
<1>. QED  BY <1>4, <1>5, <1>6, <1>7, <1>8, <1>9, <1>10, <1>11 DEF JobStep

LEMMA ElsewhereMovesPreview ==
  ASSUME CourseInv, Elsewhere
  PROVE  PreviewMove
<1>1. CASE World \/ UNCHANGED uploadVars
  <2>1. UNCHANGED <<registry, job, ui>>
    BY <1>1 DEF World, Switch, Follow, Load, Write, uploadVars, service, dialog
  <2>2. FileMove
    <3>1. CASE Write
      <4>1. PICK c \in Media, tells \in BOOLEAN :
              /\ file' = [content |-> c, stamp |-> IF tells THEN file.stamp + 1 ELSE file.stamp]
              /\ forged' = (forged \/ ~tells)
        BY <3>1 DEF Write
      <4>2. file'.stamp = file.stamp + 1 \/ (file'.stamp = file.stamp /\ ~tells)
        BY <4>1
      <4>3. (forged => forged') /\ (~tells => forged')
        BY <4>1
      <4>. QED  BY <4>2, <4>3 DEF FileMove
    <3>2. CASE ~Write
      BY <1>1, <3>2 DEF World, Switch, Follow, Load, FileMove, uploadVars, env
    <3>. QED  BY <3>1, <3>2
  <2>. QED  BY <2>1, <2>2, PreviewQuiet DEF PreviewMove
<1>. QED  BY <1>1, RequestsMovePreview, DialogMovesPreview, JobsMovePreview DEF Elsewhere, User

(* A write that leaves its stamp makes every registered stamp stale.       *)
LEMMA FaithfulStays ==
  ASSUME CourseInv, StampsPast, FileMove, RegistryMove, ~forged',
         NEW s, s.id \in 1 .. picks, Faithful(s)
  PROVE  Faithful(s)'
<1>1. registry \in [Picks -> Nat] /\ file.stamp \in Nat /\ s.id \in Picks /\ s.id # picks + 1
  <2>1. /\ registry \in [Picks -> Nat] /\ file.stamp \in Nat
        /\ picks \in 0 .. MaxPicks /\ MaxPicks \in Nat
    BY UploadsAssumption DEF CourseInv, UploadsTypeOK, PickOrNone
  <2>2. s.id \in 1 .. MaxPicks /\ s.id # picks + 1
    BY <2>1
  <2>. QED  BY <2>1, <2>2 DEF Picks
<1>2. registry[s.id] <= file.stamp /\ registry[s.id] \in Nat
  BY <1>1 DEF StampsPast
<1>3. registry'[s.id] \in {0, registry[s.id]}
  BY <1>1 DEF RegistryMove
<1>4. UNCHANGED file \/ file'.stamp = file.stamp + 1
  BY DEF FileMove
<1>. QED  BY <1>1, <1>2, <1>3, <1>4 DEF Faithful

(* No stamp is ever ahead of the file.                                     *)
LEMMA StampsStayPast ==
  ASSUME CourseInv, StampsPast, FileMove, RegistryMove,
         \A q \in Requests : up'[q].stamp \in {0, up[q].stamp, file.stamp}
  PROVE  StampsPast'
<1>1. /\ registry \in [Picks -> Nat] /\ file.stamp \in Nat
      /\ \A q \in Requests : up[q].stamp \in Nat
  BY DEF CourseInv, UploadsTypeOK, UploadRec
<1>2. file'.stamp = file.stamp \/ file'.stamp = file.stamp + 1
  BY DEF FileMove
<1>3. \A s \in Picks : registry'[s] \in {0, registry[s], file.stamp}
  BY DEF RegistryMove
<1>. QED  BY <1>1, <1>2, <1>3 DEF StampsPast

(* The service hashes the file it was shown, or the stamp has changed.     *)
LEMMA ServeKeepsPreview ==
  ASSUME CourseInv, PreviewInv, NEW r \in Requests, Serve(r)
  PROVE  PreviewInv'
<1> DEFINE u == up[r]
<1>0. /\ up \in [Requests -> UploadRec] /\ u \in UploadRec /\ registry \in [Picks -> Nat]
      /\ file.stamp \in Nat /\ picks \in Nat
      /\ UNCHANGED <<env, draft, job, ui, picks>>
      /\ registry' \in [Picks -> Nat] /\ \A s \in Picks : registry'[s] \in {0, registry[s]}
      /\ RequestFits(u)
  <2>1. PICK k \in UploadRec : ServiceStep(r, k)
    BY ServeSteps DEF CourseInv
  <2>2. UnderWay(u)
    BY <2>1 DEF ServiceStep, Advance
  <2>. QED  BY <2>1, <2>2, UploadsAssumption
            DEF ServiceStep, CourseInv, UploadsTypeOK, dialog, FitsInv, PickOrNone
<1>1. FileMove /\ RegistryMove /\ PreviewIsUploaded'
  BY <1>0 DEF FileMove, RegistryMove, env, PreviewInv, PreviewIsUploaded
<1>2. ASSUME NEW s, s.id \in 1 .. picks, ~forged', Faithful(s)  PROVE  Faithful(s)'
  BY <1>1, <1>2, FaithfulStays DEF PreviewInv
<1>3. ASSUME NEW k, up' = [up EXCEPT ![r] = k], k.stamp \in {0, u.stamp, file.stamp},
             ~forged => RequestFaithful(k)'
      PROVE  PreviewInv'
  <2>1. \A q \in Requests : up'[q] = IF q = r THEN k ELSE up[q]
    BY <1>0, <1>3
  <2>2. StampsPast'
    BY <1>0, <1>1, <1>3, <2>1, StampsStayPast DEF PreviewInv
  <2> SUFFICES ASSUME ~forged'
               PROVE  /\ ui'.sel.id # 0 => Faithful(ui.sel)'
                      /\ \A q \in Requests : UnderWay(up[q])' => RequestFaithful(up[q])'
                      /\ \A j \in Jobs : Hands(job'[j]) /\ job'[j].found.id # 0 => Faithful(job[j].found)'
    BY <1>1, <2>2 DEF PreviewInv, Hands
  <2>3. ~forged
    BY <1>0 DEF env
  <2>4. ASSUME ui.sel.id # 0  PROVE  Faithful(ui.sel)'
    <3>1. PICK s : s = ui.sel
      OBVIOUS
    <3>2. s.id \in 1 .. picks /\ Faithful(s)
      BY <2>3, <2>4, <3>1 DEF CourseInv, FitsInv, DialogFits, PreviewInv
    <3>. QED  BY <1>0, <1>2, <3>1, <3>2 DEF Faithful
  <2>5. ASSUME NEW q \in Requests, q # r, UnderWay(up[q])  PROVE  RequestFaithful(up[q])'
    <3>1. PICK l : l = up[q]
      OBVIOUS
    <3>2. RequestFaithful(l) /\ l.sel.id \in 1 .. picks
      BY <2>3, <2>5, <3>1 DEF PreviewInv, CourseInv, FitsInv, RequestFits
    <3>3. PICK s : s = l.sel
      OBVIOUS
    <3>4. Faithful(l.sel) => Faithful(l.sel)'
      BY <1>2, <3>2, <3>3 DEF Faithful
    <3>5. RequestFaithful(l)'
      BY <1>0, <3>2, <3>4 DEF RequestFaithful, env
    <3>6. up'[q] = l
      BY <2>1, <2>5, <3>1
    <3>. QED  BY <3>5, <3>6 DEF RequestFaithful
  <2>6. RequestFaithful(up[r])'
    BY <1>3, <2>1, <2>3 DEF RequestFaithful
  <2>7. ASSUME NEW j \in Jobs, Hands(job[j]), job[j].found.id # 0  PROVE  Faithful(job[j].found)'
    <3>1. PICK s : s = job[j].found
      OBVIOUS
    <3>2. job[j].found.id \in Nat /\ Held(job[j]) = job[j].found.id /\ Held(job[j]) <= picks
      BY <2>7, UploadsAssumption
         DEF CourseInv, FitsInv, JobFits, UploadsTypeOK, JobRec, Selection, PickOrNone, Held, Hands
    <3>3. s.id \in 1 .. picks /\ Faithful(s)
      BY <1>0, <2>3, <2>7, <3>1, <3>2 DEF PreviewInv, Hands
    <3>. QED  BY <1>0, <1>2, <3>1, <3>3 DEF Faithful
  <2>. QED  BY <1>0, <2>1, <2>4, <2>5, <2>6, <2>7
<1>4. \A k : Faithful(k.sel) /\ k.sel.id \in 1 .. picks /\ ~forged => Faithful(k.sel)'
  <2> SUFFICES ASSUME NEW k, Faithful(k.sel), k.sel.id \in 1 .. picks, ~forged
               PROVE  Faithful(k.sel)'
    OBVIOUS
  <2>1. PICK s : s = k.sel
    OBVIOUS
  <2>. QED  BY <1>0, <1>2, <2>1 DEF Faithful, env
<1>5. CASE Start(r) \/ Activate(r)
  <2>1. u.at \in {"start", "activate"} /\ UNCHANGED registry
    BY <1>5 DEF Start, Activate, At
  <2>2. \E k \in {[u EXCEPT !.at = "activate", !.op = TRUE],
                [u EXCEPT !.at = "select", !.active = TRUE]} : up' = [up EXCEPT ![r] = k]
    BY <1>5 DEF Start, Activate, Request
  <2>3. PICK k : /\ k \in {[u EXCEPT !.at = "activate", !.op = TRUE],
                           [u EXCEPT !.at = "select", !.active = TRUE]}
                 /\ up' = [up EXCEPT ![r] = k]
    BY <2>2
  <2>4. k.sel = u.sel /\ k.stamp = u.stamp /\ k.at \in {"activate", "select"}
    BY <1>0, <2>3 DEF UploadRec
  <2>5. ~forged => RequestFaithful(k)'
    <3>1. ~forged => Faithful(k.sel)
      BY <1>0, <2>1, <2>4 DEF PreviewInv, RequestFaithful, UnderWay, Faithful
    <3>2. ~forged => Faithful(k.sel)'
      BY <1>0, <1>4, <2>4, <3>1 DEF RequestFits
    <3>. QED  BY <2>4, <3>2 DEF RequestFaithful
  <2>. QED  BY <1>3, <2>3, <2>4, <2>5
<1>6. CASE Select(r)
  <2>1. /\ u.at = "select" /\ registry[u.sel.id] # 0 /\ registry[u.sel.id] = file.stamp
    BY <1>6 DEF Select, At, Unchanged
  <2>2. PICK k : k = [u EXCEPT !.at = "hash", !.stamp = registry[u.sel.id], !.kind = file.content]
    OBVIOUS
  <2>3. up' = [up EXCEPT ![r] = k]
    BY <1>6, <2>2 DEF Select, Request
  <2>4. k.at = "hash" /\ k.sel = u.sel /\ k.stamp = file.stamp
    BY <1>0, <2>1, <2>2 DEF UploadRec
  <2>5. ~forged => k.sel.preview = file.content
    BY <2>1, <2>4 DEF PreviewInv, RequestFaithful, UnderWay, Faithful
  <2>6. ~forged => RequestFaithful(k)'
    BY <1>0, <2>4, <2>5 DEF RequestFaithful, env
  <2>. QED  BY <1>3, <2>3, <2>4, <2>6
<1>7. CASE HashFile(r)
  <2>1. u.at = "hash" /\ u.stamp = file.stamp
    BY <1>7 DEF HashFile, At, Unchanged
  <2>2. PICK k : k = [u EXCEPT !.at = "sign", !.hash = file.content]
    OBVIOUS
  <2>3. up' = [up EXCEPT ![r] = k]
    BY <1>7, <2>2 DEF HashFile, Request
  <2>4. k.at = "sign" /\ k.sel = u.sel /\ k.stamp = u.stamp /\ k.hash = file.content
    BY <1>0, <2>2 DEF UploadRec
  <2>5. ~forged => k.sel.preview = file.content
    BY <2>1, <2>4 DEF PreviewInv, RequestFaithful, UnderWay
  <2>6. ~forged => RequestFaithful(k)'
    BY <2>4, <2>5 DEF RequestFaithful
  <2>. QED  BY <1>3, <2>3, <2>4, <2>6
<1>8. CASE Sign(r) \/ Send(r)
  <2>1. u.at \in {"sign", "send"}
    BY <1>8 DEF Sign, Send, At
  <2>2. \E k : /\ up' = [up EXCEPT ![r] = k]
              /\ k.at \in {"send", "finish"} /\ k.sel = u.sel /\ k.stamp = u.stamp /\ k.hash = u.hash
    <3>1. CASE Sign(r)
      <4>1. PICK k : k = [u EXCEPT !.at = "send", !.opened = file.content]
        OBVIOUS
      <4>2. k.at = "send" /\ k.sel = u.sel /\ k.stamp = u.stamp /\ k.hash = u.hash
        BY <1>0, <4>1 DEF UploadRec
      <4>3. up' = [up EXCEPT ![r] = k]
        BY <3>1, <4>1 DEF Sign, Request
      <4>. QED  BY <4>2, <4>3
    <3>2. CASE Send(r)
      <4>1. PICK body, claim :
              up' = [up EXCEPT ![r] = [u EXCEPT !.at = "finish", !.sent = body, !.claim = claim]]
        BY <3>2 DEF Send, Request
      <4>2. PICK k : k = [u EXCEPT !.at = "finish", !.sent = body, !.claim = claim]
        OBVIOUS
      <4>3. k.at = "finish" /\ k.sel = u.sel /\ k.stamp = u.stamp /\ k.hash = u.hash
        BY <1>0, <4>2 DEF UploadRec
      <4>. QED  BY <4>1, <4>2, <4>3
    <3>. QED  BY <1>8, <3>1, <3>2
  <2>3. PICK k : /\ up' = [up EXCEPT ![r] = k]
                 /\ k.at \in {"send", "finish"} /\ k.sel = u.sel /\ k.stamp = u.stamp /\ k.hash = u.hash
    BY <2>2
  <2>4. ~forged => k.hash = k.sel.preview
    BY <2>1, <2>3 DEF PreviewInv, RequestFaithful, UnderWay
  <2>5. ~forged => RequestFaithful(k)'
    BY <2>3, <2>4 DEF RequestFaithful
  <2>. QED  BY <1>3, <2>3, <2>5
<1>9. CASE Finish(r) \/ UploadFails(r) \/ Cancelled(r)
  <2>1. PICK why \in {"ok", "failed", "cancelled"} : Request(r, Ended(u, why)) /\ (why = "ok" => Finish(r))
    BY <1>9 DEF Finish, UploadFails, Cancelled
  <2>2. PICK k : k = Ended(u, why)
    OBVIOUS
  <2>3. /\ k.at = "back" /\ k.why = why /\ k.sel = u.sel /\ k.stamp = 0
        /\ why = "ok" => k.hash = u.hash
    BY <1>0, <2>2, EndedTyped
  <2>4. ~forged => RequestFaithful(k)'
    <3>1. why = "ok" => u.at = "finish"
      BY <2>1 DEF Finish, At
    <3>2. ~forged /\ why = "ok" => k.hash = k.sel.preview
      BY <2>3, <3>1 DEF PreviewInv, RequestFaithful, UnderWay
    <3>. QED  BY <2>3, <3>2 DEF RequestFaithful
  <2>5. up' = [up EXCEPT ![r] = k]
    BY <2>1, <2>2 DEF Request
  <2>. QED  BY <1>3, <2>3, <2>4, <2>5
<1>. QED  BY <1>5, <1>6, <1>7, <1>8, <1>9 DEF Serve

(* Elsewhere no request, selection or job loses its faith in the file.     *)
LEMMA ElsewhereKeepsPreview ==
  ASSUME CourseInv, CourseInv', PreviewInv, Elsewhere
  PROVE  PreviewInv'
<1>0. /\ PreviewMove /\ \A q \in Requests : Rests(up[q], up'[q])
      /\ picks \in Nat /\ file.stamp \in Nat
  BY ElsewhereMovesPreview, ElsewhereRests, UploadsAssumption
     DEF CourseInv, UploadsTypeOK, PickOrNone
<1>1. StampsPast'
  <2>1. \A q \in Requests : up'[q].stamp \in {0, up[q].stamp, file.stamp}
    BY <1>0 DEF Rests
  <2>. QED  BY <1>0, <2>1, StampsStayPast DEF PreviewInv, PreviewMove
<1>2. ~forged' => ~forged
  BY <1>0 DEF PreviewMove, FileMove
<1>3. PreviewIsUploaded'
  <2>1. ASSUME NEW r \in Requests, Enters(r), ~forged'
        PROVE  draft'.hash = draft'.preview
    BY <1>2, <2>1 DEF Enters, PreviewInv, RequestFaithful, UnderWay
  <2>. QED  BY <1>2, <2>1, DraftMoves DEF PreviewInv, PreviewIsUploaded
<1> SUFFICES ASSUME ~forged'
             PROVE  /\ ui'.sel.id # 0 => Faithful(ui.sel)'
                    /\ \A r \in Requests : UnderWay(up[r])' => RequestFaithful(up[r])'
                    /\ \A j \in Jobs : Hands(job'[j]) /\ job'[j].found.id # 0 =>
                         Faithful(job[j].found)'
  BY <1>1, <1>3 DEF PreviewInv, Hands
<1>4. ASSUME NEW s, s.id \in 1 .. picks, Faithful(s)  PROVE  Faithful(s)'
  BY <1>0, <1>4, FaithfulStays DEF PreviewInv, PreviewMove
<1>5. ui.sel.id # 0 => ui.sel.id \in 1 .. picks /\ Faithful(ui.sel)
  BY <1>0, <1>2 DEF CourseInv, FitsInv, DialogFits, PreviewInv
<1>6. \A j \in Jobs : Hands(job[j]) /\ job[j].found.id # 0 =>
        job[j].found.id \in 1 .. picks /\ Faithful(job[j].found)
  <2> SUFFICES ASSUME NEW j \in Jobs, Hands(job[j]), job[j].found.id # 0
               PROVE  job[j].found.id \in 1 .. picks /\ Faithful(job[j].found)
    OBVIOUS
  <2>1. job[j].found.id \in Nat /\ Held(job[j]) = job[j].found.id /\ Held(job[j]) <= picks
    BY UploadsAssumption
       DEF CourseInv, FitsInv, JobFits, UploadsTypeOK, JobRec, Selection, PickOrNone, Held, Hands
  <2>. QED  BY <1>0, <1>2, <2>1 DEF PreviewInv, Hands
<1>7. ui'.sel.id # 0 => Faithful(ui.sel)'
  <2> SUFFICES ASSUME ui'.sel.id # 0  PROVE  Faithful(ui.sel)'
    OBVIOUS
  <2>1. PICK s : s = ui'.sel
    OBVIOUS
  <2>2. s.id \in 1 .. picks /\ Faithful(s)
    BY <1>0, <1>5, <1>6, <2>1 DEF PreviewMove, ShownMove
  <2>. QED  BY <1>4, <2>1, <2>2 DEF Faithful
<1>8. ASSUME NEW r \in Requests, UnderWay(up[r])'  PROVE  RequestFaithful(up[r])'
  <2>1. PICK k, l : k = up[r] /\ l = up'[r]
    OBVIOUS
  <2>2. Rests(k, l) /\ (UnderWay(k) => RequestFaithful(k) /\ k.sel.id \in 1 .. picks /\ k.stamp <= file.stamp)
        /\ k.stamp \in Nat
    BY <1>0, <1>2, <2>1
       DEF CourseInv, UploadsTypeOK, UploadRec, FitsInv, RequestFits, PreviewInv, StampsPast
  <2>3. RequestFaithful(l)'
    <3>1. CASE l.at = "listen" /\ l.sel = ui.sel /\ ui.sel.id # 0
      <4>1. PICK s : s = ui.sel
        OBVIOUS
      <4>2. Faithful(s)'
        BY <1>4, <1>5, <3>1, <4>1
      <4>. QED  BY <3>1, <4>1, <4>2 DEF RequestFaithful
    <3>2. CASE l.at = "done"
      BY <3>2 DEF RequestFaithful
    <3>3. CASE /\ UnderWay(k) /\ l.sel = k.sel /\ l.stamp = k.stamp
               /\ \/ l.at = k.at /\ l.why = k.why /\ l.hash = k.hash
                  \/ k.at = "listen" /\ l.at = "start"
      <4>1. PICK s : s = k.sel
        OBVIOUS
      <4>2. Faithful(k.sel) => Faithful(k.sel)'
        BY <1>4, <2>2, <3>3, <4>1
      <4>3. k.stamp = file'.stamp => UNCHANGED file
        BY <1>0, <2>2, <3>3 DEF PreviewMove, FileMove
      <4>. QED  BY <2>2, <3>3, <4>2, <4>3 DEF RequestFaithful
    <3>4. l.at \notin {"new", "done"}
      BY <1>8, <2>1 DEF UnderWay
    <3>. QED  BY <2>2, <3>1, <3>2, <3>3, <3>4 DEF Rests, UnderWay
  <2>. QED  BY <2>1, <2>3 DEF RequestFaithful
<1>9. ASSUME NEW j \in Jobs, Hands(job'[j]), job'[j].found.id # 0
      PROVE  Faithful(job[j].found)'
  <2>1. CASE Hands(job[j]) /\ job'[j].found = job[j].found
    <3>1. PICK s : s = job[j].found
      OBVIOUS
    <3>2. Faithful(s)'
      BY <1>4, <1>6, <1>9, <2>1, <3>1
    <3>. QED  BY <2>1, <3>1, <3>2 DEF Faithful
  <2>2. CASE job'[j].found.preview = file.content /\ UNCHANGED file
    BY <2>2 DEF Faithful
  <2>. QED  BY <1>0, <1>9, <2>1, <2>2 DEF PreviewMove, HandsMove
<1>. QED  BY <1>7, <1>8, <1>9

(* The invariant is inductive.                                             *)
LEMMA UploadsInvKept ==
  ASSUME UploadsInv, [UploadsNext]_uploadVars
  PROVE  UploadsInv'
<1>1. CourseInv /\ CourseInv' /\ StoredInv'
  BY CourseKept, StoredKept DEF UploadsInv, CourseInv
<1>2. PreviewInv'
  <2>1. (\E r \in Requests : Serve(r)) \/ Elsewhere
    BY DEF UploadsNext, Upload, Elsewhere
  <2>. QED  BY <1>1, <2>1, ServeKeepsPreview, ElsewhereKeepsPreview DEF UploadsInv
<1>. QED  BY <1>1, <1>2 DEF UploadsInv, CourseInv

(* The inductive invariant holds in every reachable state.                 *)
THEOREM UploadsInvariance == UploadsSpec => []UploadsInv
<1>1. UploadsInit => UploadsInv
  <2> SUFFICES ASSUME UploadsInit  PROVE  UploadsInv
    OBVIOUS
  <2>1. CourseInv
    BY CourseAtFirst
  <2>2. /\ draft = Nothing /\ ~UnderWay(NoUpload) /\ ui.sel.id = 0
        /\ file.stamp = 1 /\ NoUpload.stamp = 0 /\ NoUpload.at = "new" /\ NoJob.at = "free"
        /\ registry = [s \in Picks |-> 0]
        /\ \A r \in Requests : up[r] = NoUpload
        /\ \A j \in Jobs : job[j] = NoJob
    BY ClosedIs DEF UploadsInit, NoUpload, NoJob, UnderWay
  <2>3. StoredInv
    BY <2>2 DEF StoredInv, DraftIsStored, Delivered
  <2>4. PreviewInv
    BY <2>2 DEF PreviewInv, StampsPast, PreviewIsUploaded, Hands
  <2>. QED  BY <2>1, <2>3, <2>4 DEF UploadsInv, CourseInv
<1>2. UploadsInv /\ [UploadsNext]_uploadVars => UploadsInv'
  BY UploadsInvKept
<1>. QED  BY <1>1, <1>2, PTL DEF UploadsSpec

(* What the dialog puts into the draft is on the server, byte for byte     *)
(* (the checks of BlossomUploadService::upload after the PUT).             *)
THEOREM DraftAlwaysStored == UploadsSpec => []DraftIsStored
<1>1. UploadsInv => DraftIsStored
  BY DEF UploadsInv, StoredInv
<1>. QED  BY <1>1, UploadsInvariance, PTL

(* Unless a write kept length and modification time, what is uploaded is   *)
(* what the publisher was shown (ensure_unchanged).                        *)
THEOREM PreviewAlwaysUploaded == UploadsSpec => []PreviewIsUploaded
<1>1. UploadsInv => PreviewIsUploaded
  BY DEF UploadsInv, PreviewInv
<1>. QED  BY <1>1, UploadsInvariance, PTL

(* The dialog never says Uploading for nothing, apart from what tasks of   *)
(* the past do to it (upload_selection, choose_another, handle_close).     *)
THEOREM UploadingAlwaysPending == UploadsSpec => []UploadingIsPending
<1>1. UploadsInv => UploadingIsPending
  BY DEF UploadsInv, BusyInv, Busy, UploadingIsPending
<1>. QED  BY <1>1, UploadsInvariance, PTL

(* A request that was given up never reaches the draft                     *)
(* (accepts_completion).                                                   *)
THEOREM OnlyAwaitedAlwaysEnters == UploadsSpec => OnlyAwaitedEnters
<1>1. UploadsInv /\ [UploadsNext]_uploadVars =>
        [draft' # draft /\ draft' # Nothing => draft'.of \notin gaveUp]_uploadVars
  <2> SUFFICES ASSUME UploadsInv, [UploadsNext]_uploadVars, draft' # draft, draft' # Nothing
               PROVE  draft'.of \notin gaveUp
    OBVIOUS
  <2>1. CourseInv /\ UploadsTypeOK
    BY DEF UploadsInv, CourseInv
  <2>2. PICK r \in Requests : Enters(r)
    <3>1. ~(\E r \in Requests : Serve(r))
      BY DEF Serve
    <3>2. Elsewhere
      BY <3>1 DEF UploadsNext, Upload, Elsewhere
    <3>. QED  BY <3>2, DraftMoves
  <2>3. ~Dead(up[r])
    <3>1. /\ shown = up[r].account /\ context = up[r].gen /\ ui.session = up[r].session
          /\ ui.sel.id = up[r].sel.id
      BY <2>2 DEF Enters, AcceptsCompletion, Current
    <3>2. context \in Nat /\ ui.session \in Nat
      BY <2>1 DEF UploadsTypeOK, DialogRec
    <3>. QED  BY <3>1, <3>2 DEF Dead
  <2>4. draft'.of = r /\ UnderWay(up[r])
    BY <2>2 DEF Enters, UnderWay
  <2>. QED  BY <2>3, <2>4 DEF UploadsInv, GivenUpInv
<1>. QED  BY <1>1, UploadsInvariance, PTL DEF UploadsSpec, OnlyAwaitedEnters
=============================================================================
