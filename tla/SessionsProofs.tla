-------------------------- MODULE SessionsProofs ---------------------------
(***************************************************************************)
(* Proofs about Sessions, for every set of local and remote accounts and   *)
(* every number of operations, and about LazySigner, the signer such a     *)
(* session defers, for any number of overlapping requests.                 *)
(***************************************************************************)
EXTENDS Sessions, LazySigner, TLAPS

(* Which account a step of a command can be about. *)
CmdFits ==
  \/ cmd = Idle
  \/ cmd.op = "load" /\ cmd.at \in {"look", "row"}
  \/ cmd.op = "load" /\ cmd.at = "adopt" /\ cmd.who \in Remotes
  \/ /\ cmd.op \in {"nsec", "switch"} /\ cmd.who \in Locals
     /\ cmd.at \in {"insert", "deactivate", "activate", "forget", "clear", "key"}
  \/ /\ cmd.op = "bunker" /\ cmd.who \in Remotes
     /\ cmd.at \in {"shake", "save", "install", "adopt", "remember"}
  \/ /\ cmd.op = "switch" /\ cmd.who \in Remotes
     /\ cmd.at \in {"load", "drop", "lazy", "remember", "reread", "adopt"}
  \/ cmd.op = "delete" /\ cmd.who \in Locals /\ cmd.at \in {"erase", "wipe"}
  \/ /\ cmd.op = "delete" /\ cmd.who \in Remotes
     /\ cmd.at \in {"match", "leave", "unlist", "forget", "clearIf"}
  \/ cmd.op = "logout" /\ cmd.at \in {"leave", "clearFlags", "disconnect"}
  \/ cmd.op = "reconnect" /\ cmd.at = "lookup"
  \/ cmd.op = "reconnect" /\ cmd.at = "swap" /\ cmd.who \in Remotes

(* The background actors have an account once they are about to write it. *)
BackgroundFits ==
  /\ poll.at \in {"install", "adopt", "remember"} => poll.who \in Remotes
  /\ restore.at = "set" => restore.who \in Remotes

IdType == [of : Maybe(Remotes), by : {"none", "id", "key"}]
ConnType == {"Disconnected", "Connecting", "Connected"}
SessionType == [client : Maybe(Remotes), conn : ConnType, id : IdType, qr : BOOLEAN]
CmdType == [op : Ops \cup {"none", "load"}, who : Maybe(Accounts), at : Steps]
PollType == [at : {"idle", "poll", "wait", "install", "adopt", "remember"},
             who : Maybe(Remotes), fresh : BOOLEAN]
RestoreType == [at : {"read", "set", "done"}, who : Maybe(Remotes)]
PubType == [at : {"idle", "resolve", "prepared", "recheck", "sign"},
            expected : Maybe(Accounts), author : Maybe(Accounts), snap : Maybe(Accounts)]

KeptTypes ==
  /\ rows \subseteq Locals /\ flagged \subseteq rows
  /\ keyring \subseteq Remotes /\ last \in Maybe(Remotes)

RestTypes ==
  /\ auth \in Maybe(Accounts) /\ tasks \in Nat
  /\ shown \in Maybe(Accounts) /\ late \subseteq Remotes
  /\ out \in {"in", "leaving", "out"} /\ ops \in 0..MaxOps

StateTyped ==
  /\ KeptTypes /\ RestTypes
  /\ session \in SessionType /\ cmd \in CmdType
  /\ poll \in PollType /\ restore \in RestoreType /\ pub \in PubType

Typed == StateTyped /\ CmdFits /\ BackgroundFits

(* The initial state is typed. *)
LEMMA TypedInit == Init => Typed
  BY SessionsAssumption
  DEF Init, Typed, StateTyped, KeptTypes, RestTypes, SessionType, IdType, ConnType, CmdType,
      PollType, RestoreType, PubType, CmdFits, BackgroundFits, NoSession, NoId, Idle, NoPoll,
      NoPub, Maybe, Accounts, Steps, Ops

(* Updates of the records, field by field. *)
LEMMA SessionUpdate ==
  ASSUME NEW s \in SessionType, NEW c \in Maybe(Remotes), NEW i \in IdType, NEW k \in ConnType
  PROVE  LET n == [s EXCEPT !.client = c, !.id = i, !.conn = k]
         IN  n \in SessionType /\ n.client = c /\ n.id = i /\ n.conn = k /\ n.qr = s.qr
  BY DEF SessionType

(* Two fields at once. *)
LEMMA SessionUpdate2 ==
  ASSUME NEW s \in SessionType, NEW c \in Maybe(Remotes), NEW k \in ConnType
  PROVE  LET n == [s EXCEPT !.client = c, !.conn = k]
         IN  n \in SessionType /\ n.client = c /\ n.id = s.id /\ n.conn = k /\ n.qr = s.qr
  BY DEF SessionType

(* The record of the publication. *)
LEMMA PubUpdate ==
  ASSUME NEW p \in PubType, NEW a \in Maybe(Accounts)
  PROVE  /\ [p EXCEPT !.author = a, !.at = "prepared"] \in PubType
         /\ [p EXCEPT !.at = "recheck", !.snap = a] \in PubType
         /\ [p EXCEPT !.at = "sign"] \in PubType
         /\ NoPub \in PubType
  BY DEF PubType, NoPub, Maybe

(* Who the session and the AuthState can name. *)
LEMMA SignerTyped ==
  ASSUME Typed
  PROVE  /\ session.client \in Maybe(Remotes) /\ session.id \in IdType
         /\ session.id.of \in Maybe(Remotes) /\ session.conn \in ConnType
         /\ Signer \in Maybe(Accounts) /\ PubResolved \in Maybe(Accounts)
  BY DEF Typed, StateTyped, RestTypes, SessionType, IdType, PubType, Signer, PubResolved,
         Resolved, Maybe, Accounts

(* The session keeps its type. *)
LEMMA SessionTyped == Typed /\ Step => session' \in SessionType
  <1> SUFFICES ASSUME Typed, Step PROVE session' \in SessionType
    OBVIOUS
  <1> USE SessionsAssumption
  <1>1. CASE ClearSession
    BY <1>1 DEF ClearSession, Cleared, Typed, CmdFits, BackgroundFits, StateTyped,
        SessionType, IdType, ConnType, At, Go, IdOf, NoId, NoSession, Maybe
  <1>2. CASE InstallClient
    <2>1. cmd.who \in Maybe(Remotes) /\ IdOf(cmd.who, "key") \in IdType
      BY <1>2 DEF InstallClient, At, Typed, CmdFits, Idle, IdOf, IdType, Maybe
    <2>2. {"Connecting", "Connected"} \subseteq ConnType
      BY DEF ConnType
    <2>3. QED
      BY <1>2, <2>1, <2>2, SessionUpdate DEF InstallClient, Typed, StateTyped
  <1>3. CASE DropClient
    BY <1>3 DEF DropClient, Typed, CmdFits, BackgroundFits, StateTyped, SessionType,
        IdType, ConnType, At, Go, IdOf, NoId, NoSession, Maybe
  <1>4. CASE InstallLazy
    <2>1. cmd.who \in Maybe(Remotes) /\ IdOf(cmd.who, "key") \in IdType
      BY <1>4 DEF InstallLazy, At, Typed, CmdFits, Idle, IdOf, IdType, Maybe
    <2>2. {"Connecting", "Connected"} \subseteq ConnType
      BY DEF ConnType
    <2>3. QED
      BY <1>4, <2>1, <2>2, SessionUpdate DEF InstallLazy, Typed, StateTyped
  <1>5. CASE SwapClient
    <2>1. cmd.who \in Maybe(Remotes) /\ "Connected" \in ConnType
      BY <1>5 DEF SwapClient, At, Typed, CmdFits, Idle, ConnType, Maybe
    <2>2. QED
      BY <1>5, <2>1, SessionUpdate2 DEF SwapClient, Typed, StateTyped
  <1>6. CASE Wipe
    BY <1>6 DEF Wipe, Cleared, GoLoad, Loading, Typed, CmdFits, BackgroundFits,
        StateTyped, SessionType, IdType, ConnType, At, Go, IdOf, NoId,
        NoSession, Maybe
  <1>7. CASE Leave
    BY <1>7 DEF Leave, NoLast, Cleared, Typed, CmdFits, BackgroundFits, StateTyped,
        SessionType, IdType, ConnType, At, Go, IdOf, NoId, NoSession, Maybe
  <1>8. CASE ClearIfActive
    BY <1>8 DEF ClearIfActive, Cleared, GoLoad, Loading, Typed, CmdFits,
        BackgroundFits, StateTyped, SessionType, IdType, ConnType, At, Go,
        IdOf, NoId, NoSession, Maybe
  <1>9. CASE StartQr
    BY <1>9 DEF StartQr, Typed, CmdFits, BackgroundFits, StateTyped, SessionType,
        IdType, ConnType, At, Go, IdOf, NoId, NoSession, Maybe
  <1>10. CASE NotYet
    BY <1>10 DEF NotYet, Typed, CmdFits, BackgroundFits, StateTyped, SessionType,
        IdType, ConnType, At, Go, IdOf, NoId, NoSession, Maybe
  <1>11. CASE QrInstall
    BY <1>11 DEF QrInstall, Typed, CmdFits, BackgroundFits, StateTyped, SessionType,
        IdType, ConnType, At, Go, IdOf, NoId, NoSession, Maybe
  <1>12. CASE RestoreSet
    BY <1>12 DEF RestoreSet, Typed, CmdFits, BackgroundFits, StateTyped, SessionType,
        IdType, ConnType, At, Go, IdOf, NoId, NoSession, Maybe
  <1>13. CASE TaskReports
    BY <1>13 DEF TaskReports, Typed, CmdFits, BackgroundFits, StateTyped, SessionType,
        IdType, ConnType, At, Go, IdOf, NoId, NoSession, Maybe
  <1>14. CASE Restart
    BY <1>14 DEF Restart, Boot, Loading, Typed, CmdFits, BackgroundFits, StateTyped,
        SessionType, IdType, ConnType, At, Go, IdOf, NoId, NoSession, Maybe
  <1>15. CASE Insert \/ Deactivate \/ Activate \/ Forget \/ UseKey \/ Shake \/
             SaveProfile \/ LoadProfile \/ Remember \/ Reread \/ Adopt \/
             Lookup \/ Erase \/ Match \/ Unlist \/ ClearFlags \/ Disconnect \/
             Fail \/ Look \/ LoadRow \/ CancelQr \/ PollQr \/
             (\E r \in Remotes : Approved(r)) \/ QrAdopt \/ QrRemember \/
             RestoreRead \/ PubSnapshot \/ PubResolve \/ PubRecheck \/
             PubEnsure \/ PubSign \/ PubFail \/
             (\E op \in Ops, w \in Accounts : Begin(op, w))
    BY <1>15 DEF Insert, Deactivate, Activate, Forget, NoLast, UseKey, Shake, SaveProfile,
        LoadProfile, Remember, Reread, Adopt, Lookup, Erase, Match, Unlist,
        ClearFlags, Disconnect, Fail, Look, LoadRow, CancelQr, PollQr,
        Approved, QrAdopt, QrRemember, RestoreRead, PubSnapshot, PubResolve,
        PubRecheck, PubEnsure, PubSign, PubFail, Begin, Typed, CmdFits,
        BackgroundFits, StateTyped, kept, side, ui
  <1>16. QED
    BY <1>1, <1>2, <1>3, <1>4, <1>5, <1>6, <1>7, <1>8, <1>9, <1>10, <1>11,
        <1>12, <1>13, <1>14, <1>15 DEF Step, Local, Remote, Removal, Qr, Publish

(* A command goes from one of its steps to another. *)
LEMMA CmdTyped == Typed /\ Step => cmd' \in CmdType /\ CmdFits'
  <1> SUFFICES ASSUME Typed, Step PROVE cmd' \in CmdType /\ CmdFits'
    OBVIOUS
  <1> USE SessionsAssumption
  <1>1. CASE Insert
    BY <1>1 DEF Insert, Typed, CmdFits, BackgroundFits, StateTyped, CmdType,
        SessionType, IdType, At, Go, Idle, Steps, Ops, Maybe, Accounts, NoId,
        IdOf
  <1>2. CASE Deactivate
    BY <1>2 DEF Deactivate, Typed, CmdFits, BackgroundFits, StateTyped, CmdType,
        SessionType, IdType, At, Go, Idle, Steps, Ops, Maybe, Accounts, NoId,
        IdOf
  <1>3. CASE Activate
    BY <1>3 DEF Activate, Typed, CmdFits, BackgroundFits, StateTyped, CmdType,
        SessionType, IdType, At, Go, Idle, Steps, Ops, Maybe, Accounts, NoId,
        IdOf
  <1>4. CASE Forget
    BY <1>4 DEF Forget, NoLast, Typed, CmdFits, BackgroundFits, StateTyped, CmdType,
        SessionType, IdType, At, Go, Idle, Steps, Ops, Maybe, Accounts, NoId,
        IdOf
  <1>5. CASE ClearSession
    BY <1>5 DEF ClearSession, Cleared, Typed, CmdFits, BackgroundFits, StateTyped,
        CmdType, SessionType, IdType, At, Go, Idle, Steps, Ops, Maybe,
        Accounts, NoId, IdOf
  <1>6. CASE UseKey
    BY <1>6 DEF UseKey, Show, Typed, CmdFits, BackgroundFits, StateTyped, CmdType,
        SessionType, IdType, At, Go, Idle, Steps, Ops, Maybe, Accounts, NoId,
        IdOf
  <1>7. CASE Shake
    BY <1>7 DEF Shake, Typed, CmdFits, BackgroundFits, StateTyped, CmdType,
        SessionType, IdType, At, Go, Idle, Steps, Ops, Maybe, Accounts, NoId,
        IdOf
  <1>8. CASE SaveProfile
    BY <1>8 DEF SaveProfile, Typed, CmdFits, BackgroundFits, StateTyped, CmdType,
        SessionType, IdType, At, Go, Idle, Steps, Ops, Maybe, Accounts, NoId,
        IdOf
  <1>9. CASE InstallClient
    BY <1>9 DEF InstallClient, Typed, CmdFits, BackgroundFits, StateTyped, CmdType,
        SessionType, IdType, At, Go, Idle, Steps, Ops, Maybe, Accounts, NoId,
        IdOf
  <1>10. CASE LoadProfile
    BY <1>10 DEF LoadProfile, Typed, CmdFits, BackgroundFits, StateTyped, CmdType,
        SessionType, IdType, At, Go, Idle, Steps, Ops, Maybe, Accounts, NoId,
        IdOf
  <1>11. CASE DropClient
    BY <1>11 DEF DropClient, Typed, CmdFits, BackgroundFits, StateTyped, CmdType,
        SessionType, IdType, At, Go, Idle, Steps, Ops, Maybe, Accounts, NoId,
        IdOf
  <1>12. CASE InstallLazy
    BY <1>12 DEF InstallLazy, Typed, CmdFits, BackgroundFits, StateTyped, CmdType,
        SessionType, IdType, At, Go, Idle, Steps, Ops, Maybe, Accounts, NoId,
        IdOf
  <1>13. CASE Remember
    BY <1>13 DEF Remember, Show, Typed, CmdFits, BackgroundFits, StateTyped, CmdType,
        SessionType, IdType, At, Go, Idle, Steps, Ops, Maybe, Accounts, NoId,
        IdOf
  <1>14. CASE Reread
    <2>1. session.client \in Maybe(Accounts) /\ "adopt" \in Steps
      BY SignerTyped DEF Maybe, Accounts, Steps
    <2>2. cmd \in CmdType /\ cmd.op = "switch"
      BY <1>14 DEF Reread, Typed, StateTyped, CmdFits, At, Idle
    <2>3. CASE cmd' = [cmd EXCEPT !.who = session.client, !.at = "adopt"]
      <3>1. cmd' \in CmdType /\ cmd'.op = cmd.op /\ cmd'.who = session.client /\ cmd'.at = "adopt"
        BY <2>1, <2>2, <2>3 DEF CmdType
      <3>2. session.client \in Remotes
        BY <1>14, <3>1, SignerTyped, <2>1 DEF Reread, Idle, Maybe, NoId, Typed, StateTyped, KeptTypes, Steps
      <3>3. QED
        BY <2>2, <3>1, <3>2 DEF CmdFits
    <2>4. QED
      BY <1>14, <2>2, <2>3 DEF Reread, CmdType, CmdFits, Idle, Maybe, Steps
  <1>15. CASE Adopt
    BY <1>15 DEF Adopt, Show, Typed, CmdFits, BackgroundFits, StateTyped, CmdType,
        SessionType, IdType, At, Go, Idle, Steps, Ops, Maybe, Accounts, NoId,
        IdOf
  <1>16. CASE Lookup
    <2>1. session.id.of \in Maybe(Accounts) /\ "swap" \in Steps
      BY SignerTyped DEF Maybe, Accounts, Steps
    <2>2. cmd \in CmdType /\ cmd.op = "reconnect"
      BY <1>16 DEF Lookup, Typed, StateTyped, CmdFits, At, Idle
    <2>3. CASE cmd' = [cmd EXCEPT !.who = session.id.of, !.at = "swap"]
      <3>1. cmd' \in CmdType /\ cmd'.op = cmd.op /\ cmd'.who = session.id.of /\ cmd'.at = "swap"
        BY <2>1, <2>2, <2>3 DEF CmdType
      <3>2. session.id.of \in Remotes
        BY <1>16, <3>1, SignerTyped, <2>1 DEF Lookup, Idle, Maybe, NoId, Typed, StateTyped, KeptTypes, Steps
      <3>3. QED
        BY <2>2, <3>1, <3>2 DEF CmdFits
    <2>4. QED
      BY <1>16, <2>2, <2>3 DEF Lookup, CmdType
  <1>17. CASE SwapClient
    BY <1>17 DEF SwapClient, Typed, CmdFits, BackgroundFits, StateTyped, CmdType,
        SessionType, IdType, At, Go, Idle, Steps, Ops, Maybe, Accounts, NoId,
        IdOf
  <1>18. CASE Erase
    BY <1>18 DEF Erase, Typed, CmdFits, BackgroundFits, StateTyped, CmdType,
        SessionType, IdType, At, Go, Idle, Steps, Ops, Maybe, Accounts, NoId,
        IdOf
  <1>19. CASE Wipe
    BY <1>19 DEF Wipe, Cleared, GoLoad, Loading, Typed, CmdFits, BackgroundFits,
        StateTyped, CmdType, SessionType, IdType, At, Go, Idle, Steps, Ops,
        Maybe, Accounts, NoId, IdOf
  <1>20. CASE Match
    BY <1>20 DEF Match, Typed, CmdFits, BackgroundFits, StateTyped, CmdType,
        SessionType, IdType, At, Go, Idle, Steps, Ops, Maybe, Accounts, NoId,
        IdOf
  <1>21. CASE Leave
    BY <1>21 DEF Leave, NoLast, Cleared, Typed, CmdFits, BackgroundFits, StateTyped, CmdType,
        SessionType, IdType, At, Go, Idle, Steps, Ops, Maybe, Accounts, NoId,
        IdOf
  <1>22. CASE Unlist
    BY <1>22 DEF Unlist, Typed, CmdFits, BackgroundFits, StateTyped, CmdType,
        SessionType, IdType, At, Go, Idle, Steps, Ops, Maybe, Accounts, NoId,
        IdOf
  <1>23. CASE ClearIfActive
    BY <1>23 DEF ClearIfActive, Cleared, GoLoad, Loading, Typed, CmdFits,
        BackgroundFits, StateTyped, CmdType, SessionType, IdType, At, Go,
        Idle, Steps, Ops, Maybe, Accounts, NoId, IdOf
  <1>24. CASE ClearFlags
    BY <1>24 DEF ClearFlags, Typed, CmdFits, BackgroundFits, StateTyped, CmdType,
        SessionType, IdType, At, Go, Idle, Steps, Ops, Maybe, Accounts, NoId,
        IdOf
  <1>25. CASE Disconnect
    BY <1>25 DEF Disconnect, Show, Typed, CmdFits, BackgroundFits, StateTyped, CmdType,
        SessionType, IdType, At, Go, Idle, Steps, Ops, Maybe, Accounts, NoId,
        IdOf
  <1>26. CASE Fail
    BY <1>26 DEF Fail, Typed, CmdFits, BackgroundFits, StateTyped, CmdType,
        SessionType, IdType, At, Go, Idle, Steps, Ops, Maybe, Accounts, NoId,
        IdOf
  <1>27. CASE Look
    <2>1. session.client \in Maybe(Accounts) /\ "adopt" \in Steps
      BY SignerTyped DEF Maybe, Accounts, Steps
    <2>2. cmd \in CmdType /\ cmd.op = "load"
      BY <1>27 DEF Look, Typed, StateTyped, CmdFits, At, Idle
    <2>3. CASE cmd' = [cmd EXCEPT !.who = session.client, !.at = "adopt"]
      <3>1. cmd' \in CmdType /\ cmd'.op = cmd.op /\ cmd'.who = session.client /\ cmd'.at = "adopt"
        BY <2>1, <2>2, <2>3 DEF CmdType
      <3>2. session.client \in Remotes
        BY <1>27, <3>1, SignerTyped, <2>1 DEF Look, Idle, Maybe, NoId, Typed, StateTyped, KeptTypes, Steps
      <3>3. QED
        BY <2>2, <3>1, <3>2 DEF CmdFits
    <2>4. QED
      BY <1>27, <2>2, <2>3 DEF Look, CmdType, CmdFits, Steps
  <1>28. CASE LoadRow
    BY <1>28 DEF LoadRow, Show, Typed, CmdFits, BackgroundFits, StateTyped, CmdType,
        SessionType, IdType, At, Go, Idle, Steps, Ops, Maybe, Accounts, NoId,
        IdOf
  <1>29. CASE Restart
    BY <1>29 DEF Restart, Boot, Loading, Typed, CmdFits, BackgroundFits, StateTyped,
        CmdType, SessionType, IdType, At, Go, Idle, Steps, Ops, Maybe,
        Accounts, NoId, IdOf
  <1>30. CASE \E op \in Ops, w \in Accounts : Begin(op, w)
    <2>1. PICK op \in Ops, w \in Accounts : Begin(op, w)
      BY <1>30
    <2>2. /\ cmd' = [op |-> op, who |-> w, at |-> FirstStep(op, w)]
          /\ Offered(op, w) /\ w \in Maybe(Accounts)
      BY <2>1 DEF Begin, Maybe
    <2>3. CASE op = "nsec"
      BY <2>2, <2>3 DEF FirstStep, Offered, Typed, StateTyped, KeptTypes, CmdType, CmdFits, Steps,
          Ops, Accounts, Maybe
    <2>4. CASE op = "bunker"
      BY <2>2, <2>4 DEF FirstStep, Offered, Typed, StateTyped, KeptTypes, CmdType, CmdFits, Steps,
          Ops, Accounts, Maybe
    <2>5. CASE op = "switch"
      BY <2>2, <2>5 DEF FirstStep, Offered, Typed, StateTyped, KeptTypes, CmdType, CmdFits, Steps,
          Ops, Accounts, Maybe
    <2>6. CASE op = "delete"
      BY <2>2, <2>6 DEF FirstStep, Offered, Typed, StateTyped, KeptTypes, CmdType, CmdFits, Steps,
          Ops, Accounts, Maybe
    <2>7. CASE op = "logout"
      BY <2>2, <2>7 DEF FirstStep, Offered, Typed, StateTyped, KeptTypes, CmdType, CmdFits, Steps,
          Ops, Accounts, Maybe
    <2>8. CASE op = "reconnect"
      BY <2>2, <2>8 DEF FirstStep, Offered, Typed, StateTyped, KeptTypes, CmdType, CmdFits, Steps,
          Ops, Accounts, Maybe
    <2>9. QED
      BY <2>3, <2>4, <2>5, <2>6, <2>7, <2>8 DEF Ops
  <1>31. CASE StartQr \/ CancelQr \/ PollQr \/ NotYet \/
             (\E r \in Remotes : Approved(r)) \/ QrInstall \/ QrAdopt \/
             QrRemember \/ RestoreRead \/ RestoreSet \/ TaskReports \/
             PubSnapshot \/ PubResolve \/ PubRecheck \/ PubEnsure \/
             PubSign \/ PubFail
    BY <1>31 DEF StartQr, CancelQr, PollQr, NotYet, Approved, QrInstall, QrAdopt,
        QrRemember, RestoreRead, NoLast, RestoreSet, TaskReports, PubSnapshot,
        PubResolve, PubRecheck, PubEnsure, PubSign, PubFail, Typed, CmdFits,
        BackgroundFits, StateTyped, kept, side, ui
  <1>32. QED
    BY <1>1, <1>2, <1>3, <1>4, <1>5, <1>6, <1>7, <1>8, <1>9, <1>10, <1>11,
        <1>12, <1>13, <1>14, <1>15, <1>16, <1>17, <1>18, <1>19, <1>20, <1>21,
        <1>22, <1>23, <1>24, <1>25, <1>26, <1>27, <1>28, <1>29, <1>30, <1>31 DEF Step, Local, Remote, Removal, Qr, Publish

(* The poll, the restore task and the publication keep their types. *)
LEMMA SideTyped == Typed /\ Step => poll' \in PollType /\ restore' \in RestoreType /\ pub' \in PubType /\ BackgroundFits'
  <1> SUFFICES ASSUME Typed, Step PROVE poll' \in PollType /\ restore' \in RestoreType /\ pub' \in PubType /\ BackgroundFits'
    OBVIOUS
  <1> USE SessionsAssumption
  <1>1. CASE StartQr
    BY <1>1 DEF StartQr, Typed, BackgroundFits, StateTyped, PollType, RestoreType,
        PubType, NoPoll, NoPub, Maybe, Accounts, side
  <1>2. CASE CancelQr
    BY <1>2 DEF CancelQr, Typed, BackgroundFits, StateTyped, PollType, RestoreType,
        PubType, NoPoll, NoPub, Maybe, Accounts, side
  <1>3. CASE PollQr
    BY <1>3 DEF PollQr, Typed, BackgroundFits, StateTyped, PollType, RestoreType,
        PubType, NoPoll, NoPub, Maybe, Accounts, side
  <1>4. CASE NotYet
    <2>1. poll' \in PollType /\ poll'.at \in {"poll", "idle"}
      <3>1. poll \in PollType
        BY DEF Typed, StateTyped
      <3>2. CASE poll' = [poll EXCEPT !.at = "poll"]
        BY <3>1, <3>2 DEF PollType
      <3>3. CASE poll' = NoPoll
        BY <3>3 DEF PollType, NoPoll, Maybe
      <3>4. QED
        BY <1>4, <3>2, <3>3 DEF NotYet
    <2>2. QED
      BY <1>4, <2>1 DEF NotYet, Typed, StateTyped, BackgroundFits
  <1>5. CASE \E r \in Remotes : Approved(r)
    BY <1>5 DEF Approved, Typed, BackgroundFits, StateTyped, PollType, RestoreType,
        PubType, NoPoll, NoPub, Maybe, Accounts, side
  <1>6. CASE QrInstall
    BY <1>6 DEF QrInstall, Typed, BackgroundFits, StateTyped, PollType, RestoreType,
        PubType, NoPoll, NoPub, Maybe, Accounts, side
  <1>7. CASE QrAdopt
    BY <1>7 DEF QrAdopt, Typed, BackgroundFits, StateTyped, PollType, RestoreType,
        PubType, NoPoll, NoPub, Maybe, Accounts, side
  <1>8. CASE QrRemember
    BY <1>8 DEF QrRemember, Typed, BackgroundFits, StateTyped, PollType, RestoreType,
        PubType, NoPoll, NoPub, Maybe, Accounts, side
  <1>9. CASE RestoreRead
    <2>1. restore' \in RestoreType /\ (restore'.at = "set" => restore'.who \in Remotes)
      BY <1>9 DEF RestoreRead, NoLast, RestoreType, Typed, StateTyped, KeptTypes, Maybe
    <2>2. QED
      BY <1>9, <2>1 DEF RestoreRead, NoLast, Typed, StateTyped, BackgroundFits
  <1>10. CASE RestoreSet
    BY <1>10 DEF RestoreSet, Typed, BackgroundFits, StateTyped, PollType, RestoreType,
        PubType, NoPoll, NoPub, Maybe, Accounts, side
  <1>11. CASE PubSnapshot
    <2>1. pub' \in PubType
      BY <1>11 DEF PubSnapshot, PubType, Typed, StateTyped, RestTypes, Maybe
    <2>2. QED
      BY <1>11, <2>1 DEF PubSnapshot, Typed, StateTyped, BackgroundFits
  <1>12. CASE PubResolve
    <2>1. pub' \in PubType
      BY <1>12, PubUpdate, SignerTyped DEF PubResolve, Typed, StateTyped, RestTypes
    <2>2. QED
      BY <1>12, <2>1 DEF PubResolve, Typed, StateTyped, BackgroundFits
  <1>13. CASE PubRecheck
    <2>1. pub' \in PubType
      BY <1>13, PubUpdate, SignerTyped DEF PubRecheck, Typed, StateTyped, RestTypes
    <2>2. QED
      BY <1>13, <2>1 DEF PubRecheck, Typed, StateTyped, BackgroundFits
  <1>14. CASE PubEnsure
    <2>1. pub' \in PubType
      BY <1>14, PubUpdate, SignerTyped DEF PubEnsure, Typed, StateTyped, RestTypes
    <2>2. QED
      BY <1>14, <2>1 DEF PubEnsure, Typed, StateTyped, BackgroundFits
  <1>15. CASE PubSign
    BY <1>15 DEF PubSign, Typed, BackgroundFits, StateTyped, PollType, RestoreType,
        PubType, NoPoll, NoPub, Maybe, Accounts, side
  <1>16. CASE PubFail
    BY <1>16 DEF PubFail, Typed, BackgroundFits, StateTyped, PollType, RestoreType,
        PubType, NoPoll, NoPub, Maybe, Accounts, side
  <1>17. CASE Restart
    BY <1>17 DEF Restart, Boot, Loading, Typed, BackgroundFits, StateTyped, PollType,
        RestoreType, PubType, NoPoll, NoPub, Maybe, Accounts, side
  <1>18. CASE \E op \in Ops, w \in Accounts : Begin(op, w)
    BY <1>18 DEF Begin, Offered, FirstStep, Typed, BackgroundFits, StateTyped,
        PollType, RestoreType, PubType, NoPoll, NoPub, Maybe, Accounts, side
  <1>19. CASE Insert \/ Deactivate \/ Activate \/ Forget \/ ClearSession \/
             UseKey \/ Shake \/ SaveProfile \/ InstallClient \/ LoadProfile \/
             DropClient \/ InstallLazy \/ Remember \/ Reread \/ Adopt \/
             Lookup \/ SwapClient \/ Erase \/ Wipe \/ Match \/ Leave \/
             Unlist \/ ClearIfActive \/ ClearFlags \/ Disconnect \/ Fail \/
             Look \/ LoadRow \/ TaskReports
    BY <1>19 DEF Insert, Deactivate, Activate, Forget, NoLast, ClearSession, UseKey, Shake,
        SaveProfile, InstallClient, LoadProfile, DropClient, InstallLazy,
        Remember, Reread, Adopt, Lookup, SwapClient, Erase, Wipe, Match,
        Leave, Unlist, ClearIfActive, ClearFlags, Disconnect, Fail, Look,
        LoadRow, TaskReports, Typed, CmdFits, BackgroundFits, StateTyped,
        kept, side, ui
  <1>20. QED
    BY <1>1, <1>2, <1>3, <1>4, <1>5, <1>6, <1>7, <1>8, <1>9, <1>10, <1>11,
        <1>12, <1>13, <1>14, <1>15, <1>16, <1>17, <1>18, <1>19 DEF Step, Local, Remote, Removal, Qr, Publish

(* What outlives the process keeps its type. *)
LEMMA KeptTyped == Typed /\ Step => KeptTypes'
  <1> SUFFICES ASSUME Typed, Step PROVE KeptTypes'
    OBVIOUS
  <1> USE SessionsAssumption
  <1>1. CASE Insert
    BY <1>1 DEF Insert, Typed, CmdFits, BackgroundFits, StateTyped, KeptTypes, At,
        Maybe, kept, Idle
  <1>2. CASE Deactivate
    BY <1>2 DEF Deactivate, Typed, CmdFits, BackgroundFits, StateTyped, KeptTypes, At,
        Maybe, kept, Idle
  <1>3. CASE Activate
    BY <1>3 DEF Activate, Typed, CmdFits, BackgroundFits, StateTyped, KeptTypes, At,
        Maybe, kept, Idle
  <1>4. CASE Forget
    BY <1>4 DEF Forget, NoLast, Typed, CmdFits, BackgroundFits, StateTyped, KeptTypes, At,
        Maybe, kept, Idle
  <1>5. CASE SaveProfile
    BY <1>5 DEF SaveProfile, Typed, CmdFits, BackgroundFits, StateTyped, KeptTypes,
        At, Maybe, kept, Idle
  <1>6. CASE Remember
    BY <1>6 DEF Remember, Show, Typed, CmdFits, BackgroundFits, StateTyped, KeptTypes,
        At, Maybe, kept, Idle
  <1>7. CASE Erase
    BY <1>7 DEF Erase, Typed, CmdFits, BackgroundFits, StateTyped, KeptTypes, At,
        Maybe, kept, Idle
  <1>8. CASE Leave
    BY <1>8 DEF Leave, NoLast, Cleared, Typed, CmdFits, BackgroundFits, StateTyped, KeptTypes,
        At, Maybe, kept, Idle
  <1>9. CASE Unlist
    BY <1>9 DEF Unlist, Typed, CmdFits, BackgroundFits, StateTyped, KeptTypes, At,
        Maybe, kept, Idle
  <1>10. CASE ClearFlags
    BY <1>10 DEF ClearFlags, Typed, CmdFits, BackgroundFits, StateTyped, KeptTypes, At,
        Maybe, kept, Idle
  <1>11. CASE \E r \in Remotes : Approved(r)
    BY <1>11 DEF Approved, Typed, CmdFits, BackgroundFits, StateTyped, KeptTypes, At,
        Maybe, kept, Idle
  <1>12. CASE QrRemember
    BY <1>12 DEF QrRemember, Typed, CmdFits, BackgroundFits, StateTyped, KeptTypes, At,
        Maybe, kept, Idle
  <1>13. CASE RestoreRead
    BY <1>13 DEF RestoreRead, NoLast, Typed, CmdFits, BackgroundFits, StateTyped, KeptTypes,
        At, Maybe, kept, Idle
  <1>14. CASE ClearSession \/ UseKey \/ Shake \/ InstallClient \/
             LoadProfile \/ DropClient \/ InstallLazy \/ Reread \/ Adopt \/
             Lookup \/ SwapClient \/ Wipe \/ Match \/ ClearIfActive \/
             Disconnect \/ Fail \/ Look \/ LoadRow \/ StartQr \/ CancelQr \/
             PollQr \/ NotYet \/ QrInstall \/ QrAdopt \/ RestoreSet \/
             TaskReports \/ PubSnapshot \/ PubResolve \/ PubRecheck \/
             PubEnsure \/ PubSign \/ PubFail \/ Restart \/
             (\E op \in Ops, w \in Accounts : Begin(op, w))
    BY <1>14 DEF ClearSession, UseKey, Shake, InstallClient, LoadProfile, DropClient,
        InstallLazy, Reread, Adopt, Lookup, SwapClient, Wipe, Match,
        ClearIfActive, Disconnect, Fail, Look, LoadRow, StartQr, CancelQr,
        PollQr, NotYet, QrInstall, QrAdopt, RestoreSet, TaskReports,
        PubSnapshot, PubResolve, PubRecheck, PubEnsure, PubSign, PubFail,
        Restart, Begin, Typed, CmdFits, BackgroundFits, StateTyped, KeptTypes,
        kept, side, ui
  <1>15. QED
    BY <1>1, <1>2, <1>3, <1>4, <1>5, <1>6, <1>7, <1>8, <1>9, <1>10, <1>11,
        <1>12, <1>13, <1>14 DEF Step, Local, Remote, Removal, Qr, Publish

(* So do the signer, the tasks, the UI and the histories. *)
LEMMA RestTyped == Typed /\ Step => RestTypes'
  <1> SUFFICES ASSUME Typed, Step PROVE RestTypes'
    OBVIOUS
  <1> USE SessionsAssumption
  <1>1. CASE UseKey
    BY <1>1 DEF UseKey, Show, Typed, CmdFits, BackgroundFits, StateTyped, RestTypes,
        SessionType, KeptTypes, At, Maybe, Accounts, ui, Idle
  <1>2. CASE InstallLazy
    BY <1>2 DEF InstallLazy, Typed, CmdFits, BackgroundFits, StateTyped, RestTypes,
        SessionType, KeptTypes, At, Maybe, Accounts, ui, Idle
  <1>3. CASE Remember
    BY <1>3 DEF Remember, Show, Typed, CmdFits, BackgroundFits, StateTyped, RestTypes,
        SessionType, KeptTypes, At, Maybe, Accounts, ui, Idle
  <1>4. CASE Adopt
    BY <1>4 DEF Adopt, Show, Typed, CmdFits, BackgroundFits, StateTyped, RestTypes,
        SessionType, KeptTypes, At, Maybe, Accounts, ui, Idle
  <1>5. CASE Wipe
    BY <1>5 DEF Wipe, Cleared, GoLoad, Loading, Typed, CmdFits, BackgroundFits,
        StateTyped, RestTypes, SessionType, KeptTypes, At, Maybe, Accounts,
        ui, Idle
  <1>6. CASE Disconnect
    BY <1>6 DEF Disconnect, Show, Typed, CmdFits, BackgroundFits, StateTyped,
        RestTypes, SessionType, KeptTypes, At, Maybe, Accounts, ui, Idle
  <1>7. CASE LoadRow
    BY <1>7 DEF LoadRow, Show, Typed, CmdFits, BackgroundFits, StateTyped, RestTypes,
        SessionType, KeptTypes, At, Maybe, Accounts, ui, Idle
  <1>8. CASE StartQr
    BY <1>8 DEF StartQr, Typed, CmdFits, BackgroundFits, StateTyped, RestTypes,
        SessionType, KeptTypes, At, Maybe, Accounts, ui, Idle
  <1>9. CASE QrInstall
    BY <1>9 DEF QrInstall, Typed, CmdFits, BackgroundFits, StateTyped, RestTypes,
        SessionType, KeptTypes, At, Maybe, Accounts, ui, Idle
  <1>10. CASE QrAdopt
    BY <1>10 DEF QrAdopt, Typed, CmdFits, BackgroundFits, StateTyped, RestTypes,
        SessionType, KeptTypes, At, Maybe, Accounts, ui, Idle
  <1>11. CASE QrRemember
    BY <1>11 DEF QrRemember, Typed, CmdFits, BackgroundFits, StateTyped, RestTypes,
        SessionType, KeptTypes, At, Maybe, Accounts, ui, Idle
  <1>12. CASE RestoreSet
    BY <1>12 DEF RestoreSet, Typed, CmdFits, BackgroundFits, StateTyped, RestTypes,
        SessionType, KeptTypes, At, Maybe, Accounts, ui, Idle
  <1>13. CASE TaskReports
    BY <1>13 DEF TaskReports, Typed, CmdFits, BackgroundFits, StateTyped, RestTypes,
        SessionType, KeptTypes, At, Maybe, Accounts, ui, Idle
  <1>14. CASE Restart
    BY <1>14 DEF Restart, Boot, Loading, Typed, CmdFits, BackgroundFits, StateTyped,
        RestTypes, SessionType, KeptTypes, At, Maybe, Accounts, ui, Idle
  <1>15. CASE \E op \in Ops, w \in Accounts : Begin(op, w)
    BY <1>15 DEF Begin, Offered, FirstStep, Typed, CmdFits, BackgroundFits, StateTyped,
        RestTypes, SessionType, KeptTypes, At, Maybe, Accounts, ui, Idle
  <1>16. CASE Insert \/ Deactivate \/ Activate \/ Forget \/ ClearSession \/
             Shake \/ SaveProfile \/ InstallClient \/ LoadProfile \/
             DropClient \/ Reread \/ Lookup \/ SwapClient \/ Erase \/ Match \/
             Leave \/ Unlist \/ ClearIfActive \/ ClearFlags \/ Fail \/ Look \/
             CancelQr \/ PollQr \/ NotYet \/
             (\E r \in Remotes : Approved(r)) \/ RestoreRead \/ PubSnapshot \/
             PubResolve \/ PubRecheck \/ PubEnsure \/ PubSign \/ PubFail
    BY <1>16 DEF Insert, Deactivate, Activate, Forget, NoLast, ClearSession, Shake,
        SaveProfile, InstallClient, LoadProfile, DropClient, Reread, Lookup,
        SwapClient, Erase, Match, Leave, Unlist, ClearIfActive, ClearFlags,
        Fail, Look, CancelQr, PollQr, NotYet, Approved, RestoreRead,
        PubSnapshot, PubResolve, PubRecheck, PubEnsure, PubSign, PubFail,
        Typed, CmdFits, BackgroundFits, StateTyped, RestTypes, kept, side, ui
  <1>17. QED
    BY <1>1, <1>2, <1>3, <1>4, <1>5, <1>6, <1>7, <1>8, <1>9, <1>10, <1>11,
        <1>12, <1>13, <1>14, <1>15, <1>16 DEF Step, Local, Remote, Removal, Qr, Publish

(* A step or a stutter keeps the types. *)
LEMMA TypedStep == Typed /\ [Next]_vars => Typed'
  <1>1. Typed /\ Step => Typed'
    BY SessionTyped, CmdTyped, SideTyped, KeptTyped, RestTyped DEF Typed, StateTyped
  <1>2. Typed /\ UNCHANGED vars => Typed'
    BY DEF Typed, StateTyped, KeptTypes, RestTypes, CmdFits, BackgroundFits, vars, kept, side, ui
  <1>3. QED
    BY <1>1, <1>2 DEF Next

(* What the steps that write the session leave in it. *)
LEMMA SessionWrites ==
  ASSUME Typed
  PROVE  /\ ClearSession \/ Wipe \/ Leave \/ Restart
              => /\ session'.client = None /\ session'.id.of = None
                 /\ session'.conn = "Disconnected"
         /\ InstallClient \/ InstallLazy
              => session'.client = cmd.who /\ session'.id.of = cmd.who
         /\ InstallClient => session'.conn = "Connected"
         /\ SwapClient => /\ session'.client = cmd.who /\ session'.id = session.id
                          /\ session'.conn = "Connected"
         /\ DropClient => /\ \/ session' = session
                             \/ session'.client = None /\ session'.id.of = None
                          /\ session'.conn = session.conn
         /\ QrInstall => /\ session'.client = poll.who /\ session'.id.of = poll.who
                         /\ session'.conn = "Connected"
         /\ RestoreSet => session'.client = restore.who /\ session'.id.of = restore.who
         /\ StartQr \/ NotYet => /\ session'.client = session.client /\ session'.id = session.id
                                 /\ session'.conn = session.conn
         /\ TaskReports => /\ session'.client = session.client /\ session'.id = session.id
                           /\ session'.conn = "Connected"
         /\ ClearIfActive => \/ session' = session
                             \/ /\ session'.client = None /\ session'.id.of = None
                                /\ session'.conn = "Disconnected"
  <1>1. session \in SessionType
    BY DEF Typed, StateTyped
  <1>2. ClearSession
          => session'.client = None /\ session'.id.of = None /\ session'.conn = "Disconnected"
    BY <1>1 DEF ClearSession, Cleared, NoId, SessionType
  <1>3. Wipe
          => session'.client = None /\ session'.id.of = None /\ session'.conn = "Disconnected"
    BY <1>1 DEF Wipe, Cleared, NoId, SessionType
  <1>4. Leave
          => session'.client = None /\ session'.id.of = None /\ session'.conn = "Disconnected"
    BY <1>1 DEF Leave, NoLast, Cleared, NoId, SessionType
  <1>5. Restart
          => session'.client = None /\ session'.id.of = None /\ session'.conn = "Disconnected"
    BY <1>1 DEF Restart, Boot, NoSession, NoId, SessionType
  <1>6. InstallClient
          => session'.client = cmd.who /\ session'.id.of = cmd.who
    BY <1>1 DEF InstallClient, IdOf, SessionType
  <1>7. InstallLazy
          => session'.client = cmd.who /\ session'.id.of = cmd.who
    BY <1>1 DEF InstallLazy, IdOf, SessionType
  <1>8. InstallClient
          => session'.conn = "Connected"
    BY <1>1 DEF InstallClient, IdOf, SessionType
  <1>9. SwapClient
          => session'.client = cmd.who /\ session'.id = session.id /\ session'.conn = "Connected"
    BY <1>1 DEF SwapClient, SessionType
  <1>10. DropClient
          => (session' = session \/ (session'.client = None /\ session'.id.of = None)) /\ session'.conn = session.conn
    BY <1>1 DEF DropClient, NoId, SessionType
  <1>11. QrInstall
          => session'.client = poll.who /\ session'.id.of = poll.who /\ session'.conn = "Connected"
    BY <1>1 DEF QrInstall, IdOf, SessionType
  <1>12. RestoreSet
          => session'.client = restore.who /\ session'.id.of = restore.who
    BY <1>1 DEF RestoreSet, IdOf, SessionType
  <1>13. StartQr \/ NotYet
          => session'.client = session.client /\ session'.id = session.id /\ session'.conn = session.conn
    BY <1>1 DEF StartQr, NotYet, SessionType
  <1>14. TaskReports
          => session'.client = session.client /\ session'.id = session.id /\ session'.conn = "Connected"
    BY <1>1 DEF TaskReports, SessionType
  <1>15. ClearIfActive
          => session' = session \/ (session'.client = None /\ session'.id.of = None /\ session'.conn = "Disconnected")
    BY <1>1 DEF ClearIfActive, Cleared, NoId, SessionType
  <1>16. QED
    BY <1>2, <1>3, <1>4, <1>5, <1>6, <1>7, <1>8, <1>9, <1>10, <1>11, <1>12,
        <1>13, <1>14, <1>15

(* TypeOK holds in every state. *)
THEOREM SessionsTyped == Spec => []TypeOK
  <1> DEFINE Inv == Typed /\ seen \subseteq Maybe(Accounts)
  <1>1. Init => Inv
    BY TypedInit DEF Init
  <1>2. Inv /\ [Next]_vars => Inv'
    <2> SUFFICES ASSUME Inv, [Next]_vars PROVE Inv'
      OBVIOUS
    <2>1. Typed'
      BY TypedStep
    <2>2. Signer' \in Maybe(Accounts) /\ auth' \in Maybe(Accounts)
      BY <2>1 DEF Typed, StateTyped, RestTypes, SessionType, Signer, Resolved, Maybe, Accounts
    <2>3. QED
      BY <2>1, <2>2 DEF Next, vars
  <1>3. Inv => TypeOK
    BY DEF Typed, StateTyped, KeptTypes, RestTypes, SessionType, IdType, ConnType, CmdType,
        PollType, RestoreType, PubType, TypeOK
  <1>4. QED
    BY <1>1, <1>2, <1>3, PTL DEF Spec

(* The typing invariant holds in every state. *)
LEMMA AlwaysTyped == Spec => []Typed
  BY TypedInit, TypedStep, PTL DEF Spec

(* "Connecting" never outlives the connect tasks: every step that writes   *)
(* it spawns one, and one that reports writes "Connected".                 *)
THEOREM ConnectingAlwaysPending == Spec => []ConnectingIsPending
  <1>1. Init => ConnectingIsPending
    BY DEF Init, NoSession, ConnectingIsPending
  <1>2. Typed /\ ConnectingIsPending /\ [Next]_vars => ConnectingIsPending'
    <2> SUFFICES ASSUME Typed, ConnectingIsPending, Step PROVE ConnectingIsPending'
      BY DEF Next, vars, ConnectingIsPending
    <2>1. tasks \in Nat
      BY DEF Typed, StateTyped, RestTypes
    <2>2. CASE InstallLazy \/ RestoreSet
      BY <2>1, <2>2 DEF InstallLazy, RestoreSet, ConnectingIsPending
    <2>3. CASE ClearSession \/ Wipe \/ Leave \/ Restart \/ InstallClient \/ SwapClient
               \/ QrInstall \/ TaskReports
      BY <2>3, SessionWrites DEF ConnectingIsPending
    <2>4. CASE DropClient \/ StartQr \/ NotYet \/ ClearIfActive
      BY <2>4, SessionWrites
      DEF DropClient, StartQr, NotYet, ClearIfActive, ConnectingIsPending
    <2>5. CASE Insert \/ Deactivate \/ Activate \/ Forget \/ UseKey \/
               Shake \/ SaveProfile \/ LoadProfile \/ Remember \/ Reread \/
               Adopt \/ Lookup \/ Erase \/ Match \/ Unlist \/ ClearFlags \/
               Disconnect \/ Fail \/ Look \/ LoadRow \/ CancelQr \/ PollQr \/
               (\E r \in Remotes : Approved(r)) \/ QrAdopt \/ QrRemember \/
               RestoreRead \/ PubSnapshot \/ PubResolve \/ PubRecheck \/
               PubEnsure \/ PubSign \/ PubFail \/
               (\E op \in Ops, w \in Accounts : Begin(op, w))
      BY <2>5 DEF Insert, Deactivate, Activate, Forget, NoLast, UseKey, Shake, SaveProfile,
          LoadProfile, Remember, Reread, Adopt, Lookup, Erase, Match, Unlist,
          ClearFlags, Disconnect, Fail, Look, LoadRow, CancelQr, PollQr,
          Approved, QrAdopt, QrRemember, RestoreRead, PubSnapshot, PubResolve,
          PubRecheck, PubEnsure, PubSign, PubFail, Begin, ConnectingIsPending,
          side, ui
    <2>6. QED
      BY <2>2, <2>3, <2>4, <2>5 DEF Step, Local, Remote, Removal, Qr, Publish
  <1>3. QED
    BY <1>1, <1>2, AlwaysTyped, PTL DEF Spec

(* What a publication knows about its author. *)
PubInv ==
  /\ pub.at \in {"prepared", "recheck", "sign"} => pub.author = pub.expected
  /\ pub.at \in {"recheck", "sign"} => {Signer, auth} \subseteq seen
  /\ pub.at = "recheck" => pub.snap \in seen
  /\ pub.at = "sign" => pub.author \in seen

(* The author of what is published is the account shown and was active     *)
(* after the preparation: either the client read last is the current       *)
(* signer, or the AuthState read before it was seen in between.            *)
THEOREM AlwaysPublishedAsShown == Spec => []PublishedAsShown
  <1>1. Init => PubInv
    BY DEF Init, NoPub, PubInv
  <1>2. Typed /\ PubInv /\ [Next]_vars => PubInv'
    <2> SUFFICES ASSUME Typed, PubInv, Next PROVE PubInv'
      BY DEF vars, PubInv, Signer, side
    <2>1. pub \in PubType
      BY DEF Typed, StateTyped
    <2>2. CASE pub' = NoPub
      BY <2>2 DEF NoPub, PubInv
    <2>3. CASE UNCHANGED pub
      BY <2>3 DEF Next, PubInv
    <2>4. CASE PubSnapshot
      BY <2>4 DEF PubSnapshot, PubInv
    <2>5. CASE PubResolve
      <3>1. CASE pub' = [pub EXCEPT !.author = PubResolved, !.at = "prepared"]
        <4>1. pub'.at = "prepared" /\ pub'.author = PubResolved /\ pub'.expected = pub.expected
          BY <2>1, <3>1 DEF PubType
        <4>2. PubResolved = pub.expected
          BY <2>5, <4>1 DEF PubResolve, NoPub
        <4>3. QED
          BY <4>1, <4>2 DEF PubInv
      <3>2. QED
        BY <2>2, <2>5, <3>1 DEF PubResolve
    <2>6. CASE PubRecheck
      <3>1. /\ pub'.at = "recheck" /\ pub'.snap = auth /\ pub.at = "prepared"
            /\ pub'.author = pub.author /\ pub'.expected = pub.expected
        BY <2>1, <2>6 DEF PubRecheck, PubType
      <3>2. {Signer', auth'} \subseteq seen' /\ auth' = auth
        BY <2>6, <3>1 DEF Next, PubRecheck
      <3>3. QED
        BY <3>1, <3>2 DEF PubInv
    <2>7. CASE PubEnsure
      <3>1. CASE pub' = [pub EXCEPT !.at = "sign"] /\ PubResolved = pub.author
        <4>1. /\ pub'.at = "sign" /\ pub.at = "recheck"
              /\ pub'.author = pub.author /\ pub'.expected = pub.expected
          BY <2>1, <2>7, <3>1 DEF PubEnsure, PubType
        <4>2. {Signer', auth'} \subseteq seen' /\ seen \subseteq seen'
          BY <4>1 DEF Next
        <4>3. pub.author \in seen
          BY <3>1, <4>1 DEF PubInv, PubResolved, Signer, Resolved
        <4>4. QED
          BY <4>1, <4>2, <4>3 DEF PubInv
      <3>2. QED
        BY <2>2, <2>7, <3>1 DEF PubEnsure
    <2>8. Step
      BY DEF Next
    <2>9. QED
      BY <2>2, <2>3, <2>4, <2>5, <2>6, <2>7, <2>8
      DEF Step, Local, Remote, Removal, Qr, Publish, side, Boot, Insert, Deactivate, Activate, Forget, NoLast, ClearSession, UseKey, Shake,
          SaveProfile, InstallClient, LoadProfile, DropClient, InstallLazy,
          Remember, Reread, Adopt, Lookup, SwapClient, Erase, Wipe, Match,
          Leave, Unlist, ClearIfActive, ClearFlags, Disconnect, Fail, Look,
          LoadRow, StartQr, CancelQr, PollQr, NotYet, Approved, QrInstall,
          QrAdopt, QrRemember, RestoreRead, RestoreSet, TaskReports, Restart,
          Begin, PubSign, PubFail
  <1>3. PubInv => PublishedAsShown
    BY DEF PubInv, PublishedAsShown
  <1>4. QED
    BY <1>1, <1>2, <1>3, AlwaysTyped, PTL DEF Spec

(* What a logout has achieved, and when. *)
OutInv ==
  /\ out = "out" => /\ session.client = None /\ auth = None /\ shown = None
                     /\ flagged = {}
                     /\ cmd.op \in {"none", "load", "delete"} /\ cmd.at # "adopt"
  /\ out = "leaving" /\ cmd.op = "logout" /\ cmd.at \in {"clearFlags", "disconnect"}
       => session.client = None
  /\ out = "leaving" /\ cmd.at = "disconnect" => flagged = {}

(* Every step keeps the invariant of the logout. *)
LEMMA OutStep == Typed /\ OutInv /\ Step => OutInv'
  <1> SUFFICES ASSUME Typed, OutInv, Step PROVE OutInv'
    OBVIOUS
  <1> USE SessionsAssumption
  <1>1. CASE Insert
    BY <1>1 DEF Insert, CmdType, kept, side, ui, OutInv, Typed, StateTyped, RestTypes,
        KeptTypes, CmdFits, At, Go, Idle
  <1>2. CASE Deactivate
    BY <1>2 DEF Deactivate, CmdType, kept, side, ui, OutInv, Typed, StateTyped,
        RestTypes, KeptTypes, CmdFits, At, Go, Idle
  <1>3. CASE Activate
    BY <1>3 DEF Activate, CmdType, kept, side, ui, OutInv, Typed, StateTyped,
        RestTypes, KeptTypes, CmdFits, At, Go, Idle
  <1>4. CASE Forget
    BY <1>4 DEF Forget, NoLast, CmdType, kept, side, ui, OutInv, Typed, StateTyped, RestTypes,
        KeptTypes, CmdFits, At, Go, Idle
  <1>5. CASE ClearSession
    BY SessionWrites, <1>5 DEF ClearSession, Cleared, CmdType, kept, side, ui, OutInv, Typed,
        StateTyped, RestTypes, KeptTypes, CmdFits, At, Go, Idle
  <1>6. CASE UseKey
    BY <1>6 DEF UseKey, Show, CmdType, kept, side, ui, OutInv, Typed, StateTyped,
        RestTypes, KeptTypes, CmdFits, At, Go, Idle
  <1>7. CASE Shake
    BY <1>7 DEF Shake, CmdType, kept, side, ui, OutInv, Typed, StateTyped, RestTypes,
        KeptTypes, CmdFits, At, Go, Idle
  <1>8. CASE SaveProfile
    BY <1>8 DEF SaveProfile, CmdType, kept, side, ui, OutInv, Typed, StateTyped,
        RestTypes, KeptTypes, CmdFits, At, Go, Idle
  <1>9. CASE InstallClient
    BY SessionWrites, <1>9 DEF InstallClient, CmdType, kept, side, ui, OutInv, Typed, StateTyped,
        RestTypes, KeptTypes, CmdFits, At, Go, Idle
  <1>10. CASE LoadProfile
    BY <1>10 DEF LoadProfile, CmdType, kept, side, ui, OutInv, Typed, StateTyped,
        RestTypes, KeptTypes, CmdFits, At, Go, Idle
  <1>11. CASE DropClient
    BY SessionWrites, <1>11 DEF DropClient, CmdType, kept, side, ui, OutInv, Typed, StateTyped,
        RestTypes, KeptTypes, CmdFits, At, Go, Idle
  <1>12. CASE InstallLazy
    BY SessionWrites, <1>12 DEF InstallLazy, CmdType, kept, side, ui, OutInv, Typed, StateTyped,
        RestTypes, KeptTypes, CmdFits, At, Go, Idle
  <1>13. CASE Remember
    BY <1>13 DEF Remember, Show, CmdType, kept, side, ui, OutInv, Typed, StateTyped,
        RestTypes, KeptTypes, CmdFits, At, Go, Idle
  <1>14. CASE Reread
    BY <1>14 DEF Reread, CmdType, kept, side, ui, OutInv, Typed, StateTyped, RestTypes,
        KeptTypes, CmdFits, At, Go, Idle
  <1>15. CASE Adopt
    BY <1>15 DEF Adopt, Show, CmdType, kept, side, ui, OutInv, Typed, StateTyped,
        RestTypes, KeptTypes, CmdFits, At, Go, Idle
  <1>16. CASE Lookup
    BY <1>16 DEF Lookup, CmdType, kept, side, ui, OutInv, Typed, StateTyped, RestTypes,
        KeptTypes, CmdFits, At, Go, Idle
  <1>17. CASE SwapClient
    BY SessionWrites, <1>17 DEF SwapClient, CmdType, kept, side, ui, OutInv, Typed, StateTyped,
        RestTypes, KeptTypes, CmdFits, At, Go, Idle
  <1>18. CASE Erase
    BY <1>18 DEF Erase, CmdType, kept, side, ui, OutInv, Typed, StateTyped, RestTypes,
        KeptTypes, CmdFits, At, Go, Idle
  <1>19. CASE Wipe
    BY SessionWrites, <1>19 DEF Wipe, Cleared, GoLoad, Loading, CmdType, kept, side, ui, OutInv,
        Typed, StateTyped, RestTypes, KeptTypes, CmdFits, At, Go, Idle
  <1>20. CASE Match
    BY <1>20 DEF Match, CmdType, kept, side, ui, OutInv, Typed, StateTyped, RestTypes,
        KeptTypes, CmdFits, At, Go, Idle
  <1>21. CASE Leave
    BY SessionWrites, <1>21 DEF Leave, NoLast, Cleared, CmdType, kept, side, ui, OutInv, Typed, StateTyped,
        RestTypes, KeptTypes, CmdFits, At, Go, Idle
  <1>22. CASE Unlist
    BY <1>22 DEF Unlist, CmdType, kept, side, ui, OutInv, Typed, StateTyped, RestTypes,
        KeptTypes, CmdFits, At, Go, Idle
  <1>23. CASE ClearIfActive
    BY SessionWrites, <1>23 DEF ClearIfActive, Cleared, GoLoad, Loading, CmdType, kept, side, ui,
        OutInv, Typed, StateTyped, RestTypes, KeptTypes, CmdFits, At, Go, Idle
  <1>24. CASE ClearFlags
    BY <1>24 DEF ClearFlags, CmdType, kept, side, ui, OutInv, Typed, StateTyped,
        RestTypes, KeptTypes, CmdFits, At, Go, Idle
  <1>25. CASE Disconnect
    BY <1>25 DEF Disconnect, Show, CmdType, kept, side, ui, OutInv, Typed, StateTyped,
        RestTypes, KeptTypes, CmdFits, At, Go, Idle
  <1>26. CASE Fail
    BY <1>26 DEF Fail, CmdType, kept, side, ui, OutInv, Typed, StateTyped, RestTypes,
        KeptTypes, CmdFits, At, Go, Idle
  <1>27. CASE Look
    BY <1>27 DEF Look, CmdType, kept, side, ui, OutInv, Typed, StateTyped, RestTypes,
        KeptTypes, CmdFits, At, Go, Idle
  <1>28. CASE LoadRow
    BY <1>28 DEF LoadRow, Show, CmdType, kept, side, ui, OutInv, Typed, StateTyped,
        RestTypes, KeptTypes, CmdFits, At, Go, Idle
  <1>29. CASE StartQr
    BY SessionWrites, <1>29 DEF StartQr, kept, side, ui, OutInv, Typed, StateTyped, RestTypes,
        KeptTypes, CmdFits, At, Go, Idle
  <1>30. CASE NotYet
    BY SessionWrites, <1>30 DEF NotYet, kept, side, ui, OutInv, Typed, StateTyped, RestTypes,
        KeptTypes, CmdFits, At, Go, Idle
  <1>31. CASE QrInstall
    BY SessionWrites, <1>31 DEF QrInstall, kept, side, ui, OutInv, Typed, StateTyped, RestTypes,
        KeptTypes, CmdFits, At, Go, Idle
  <1>32. CASE QrAdopt
    BY <1>32 DEF QrAdopt, kept, side, ui, OutInv, Typed, StateTyped, RestTypes,
        KeptTypes, CmdFits, At, Go, Idle
  <1>33. CASE QrRemember
    BY <1>33 DEF QrRemember, kept, side, ui, OutInv, Typed, StateTyped, RestTypes,
        KeptTypes, CmdFits, At, Go, Idle
  <1>34. CASE RestoreRead
    BY <1>34 DEF RestoreRead, NoLast, kept, side, ui, OutInv, Typed, StateTyped, RestTypes,
        KeptTypes, CmdFits, At, Go, Idle
  <1>35. CASE RestoreSet
    BY SessionWrites, <1>35 DEF RestoreSet, kept, side, ui, OutInv, Typed, StateTyped, RestTypes,
        KeptTypes, CmdFits, At, Go, Idle
  <1>36. CASE TaskReports
    BY SessionWrites, <1>36 DEF TaskReports, kept, side, ui, OutInv, Typed, StateTyped, RestTypes,
        KeptTypes, CmdFits, At, Go, Idle
  <1>37. CASE Restart
    BY SessionWrites, <1>37 DEF Restart, Boot, Loading, CmdType, kept, side, ui, OutInv, Typed,
        StateTyped, RestTypes, KeptTypes, CmdFits, At, Go, Idle
  <1>38. CASE \E op \in Ops, w \in Accounts : Begin(op, w)
    <2>1. PICK op \in Ops, w \in Accounts : Begin(op, w)
      BY <1>38
    <2>2. /\ cmd' = [op |-> op, who |-> w, at |-> FirstStep(op, w)]
          /\ Offered(op, w) /\ UNCHANGED <<flagged, last, session, auth, shown>>
          /\ out' = CASE op \in {"nsec", "bunker", "switch"} -> "in"
                      [] op = "logout" -> "leaving"
                      [] OTHER -> out
      BY <2>1 DEF Begin, kept
    <2>3. FirstStep(op, w) \notin {"clearFlags", "disconnect", "adopt"}
      BY DEF FirstStep, Ops
    <2>4. CASE op \in {"nsec", "bunker", "switch"}
      BY <2>2, <2>4 DEF OutInv
    <2>5. CASE op = "logout"
      BY <2>2, <2>3, <2>5 DEF OutInv
    <2>6. CASE op \in {"delete", "reconnect"}
      <3>1. out' = out /\ cmd'.op = op /\ cmd'.at = FirstStep(op, w)
        BY <2>2, <2>6
      <3>2. op = "reconnect" => shown # None
        BY <2>2 DEF Offered
      <3>3. QED
        BY <2>2, <2>3, <2>6, <3>1, <3>2 DEF OutInv
    <2>7. QED
      BY <2>4, <2>5, <2>6 DEF Ops
  <1>39. CASE CancelQr \/ PollQr \/ (\E r \in Remotes : Approved(r)) \/
          PubSnapshot \/ PubResolve \/ PubRecheck \/ PubEnsure \/ PubSign \/
          PubFail
    BY <1>39 DEF CancelQr, PollQr, Approved, PubSnapshot, PubResolve, PubRecheck,
        PubEnsure, PubSign, PubFail, kept, side, ui, OutInv, Typed,
        StateTyped, RestTypes, KeptTypes, CmdFits, At, Go, Idle, kept, side,
        ui
  <1>40. QED
    BY <1>1, <1>2, <1>3, <1>4, <1>5, <1>6, <1>7, <1>8, <1>9, <1>10, <1>11,
        <1>12, <1>13, <1>14, <1>15, <1>16, <1>17, <1>18, <1>19, <1>20, <1>21,
        <1>22, <1>23, <1>24, <1>25, <1>26, <1>27, <1>28, <1>29, <1>30, <1>31,
        <1>32, <1>33, <1>34, <1>35, <1>36, <1>37, <1>38, <1>39 DEF Step, Local, Remote, Removal, Qr, Publish

(* Who logged out stays out, across restarts, failures and deletions. *)
THEOREM LoggedOutAlwaysOut == Spec => []LoggedOutStaysOut
  <1>1. Init => OutInv
    BY DEF Init, NoSession, Idle, OutInv
  <1>2. Typed /\ OutInv /\ [Next]_vars => OutInv'
    BY OutStep DEF Next, vars, kept, side, ui, OutInv
  <1>3. OutInv => LoggedOutStaysOut
    BY DEF OutInv, LoggedOutStaysOut, Signer, Resolved
  <1>4. QED
    BY <1>1, <1>2, <1>3, AlwaysTyped, PTL DEF Spec

(* Who may hold the session: the account shown, nobody, or a remote        *)
(* account activated in the background.                                    *)
Base == {shown, None} \cup late

(* active_profile_id belongs to the client, or to a background activation. *)
IdFits == session.id.of = session.client \/ session.id.of \in late

(* What a background activation in the middle of a command leaves.         *)
TakenOver == session.client = session.id.of /\ session.client \in late

ClientFits ==
  /\ cmd.at \notin {"adopt", "remember", "reread", "look"} => session.client \in Base
  /\ cmd.at \in {"adopt", "remember", "reread"} => session.client = cmd.who \/ TakenOver
  /\ cmd.at = "look" => session.client \in Base \/ session.client = session.id.of
  /\ cmd.at \in {"key", "row", "clearFlags", "disconnect"}
       => session.client \in {None} \cup late
  /\ cmd.at = "swap" => /\ cmd.who \in Base
                        /\ session.id.of = cmd.who \/ session.id.of \in late

AuthFits ==
  /\ shown # None => auth \in Base
  /\ cmd.op = "bunker" => shown = None
  /\ cmd.op = "bunker" /\ cmd.at = "remember" => auth \in {cmd.who} \cup late

(* A flow of the UI that is still current excludes commands.               *)
PollFits ==
  /\ poll.fresh => cmd = Idle /\ shown = None
  /\ poll.fresh /\ poll.at \in {"adopt", "remember"} => session.client = poll.who \/ TakenOver
  /\ poll.fresh /\ poll.at = "remember" => auth = poll.who

SignsInv == IdFits /\ ClientFits /\ AuthFits /\ PollFits

(* Every step keeps the invariant of the signer. *)
LEMMA SignsStep == Typed /\ SignsInv /\ Step => SignsInv'
  <1> SUFFICES ASSUME Typed, SignsInv, Step PROVE SignsInv'
    OBVIOUS
  <1> USE SessionsAssumption
  <1>1. CASE Insert
    BY <1>1 DEF Insert, CmdType, SignsInv, IdFits, TakenOver, ClientFits, AuthFits,
        PollFits, Base, Typed, StateTyped, RestTypes, KeptTypes, CmdFits, At,
        Go, Idle, kept, side, ui
  <1>2. CASE Deactivate
    BY <1>2 DEF Deactivate, CmdType, SignsInv, IdFits, TakenOver, ClientFits,
        AuthFits, PollFits, Base, Typed, StateTyped, RestTypes, KeptTypes,
        CmdFits, At, Go, Idle, kept, side, ui
  <1>3. CASE Activate
    BY <1>3 DEF Activate, CmdType, SignsInv, IdFits, TakenOver, ClientFits, AuthFits,
        PollFits, Base, Typed, StateTyped, RestTypes, KeptTypes, CmdFits, At,
        Go, Idle, kept, side, ui
  <1>4. CASE Forget
    BY <1>4 DEF Forget, NoLast, CmdType, SignsInv, IdFits, TakenOver, ClientFits, AuthFits,
        PollFits, Base, Typed, StateTyped, RestTypes, KeptTypes, CmdFits, At,
        Go, Idle, kept, side, ui
  <1>5. CASE ClearSession
    BY SessionWrites, <1>5 DEF ClearSession, Cleared, CmdType, SignsInv, IdFits, TakenOver,
        ClientFits, AuthFits, PollFits, Base, Typed, StateTyped, RestTypes,
        KeptTypes, CmdFits, At, Go, Idle, kept, side, ui
  <1>6. CASE UseKey
    BY <1>6 DEF UseKey, Show, CmdType, BackgroundDone, SignsInv, IdFits, TakenOver,
        ClientFits, AuthFits, PollFits, Base, Typed, StateTyped, RestTypes,
        KeptTypes, CmdFits, At, Go, Idle, kept, side, ui
  <1>7. CASE Shake
    BY <1>7 DEF Shake, CmdType, SignsInv, IdFits, TakenOver, ClientFits, AuthFits,
        PollFits, Base, Typed, StateTyped, RestTypes, KeptTypes, CmdFits, At,
        Go, Idle, kept, side, ui
  <1>8. CASE SaveProfile
    BY <1>8 DEF SaveProfile, CmdType, SignsInv, IdFits, TakenOver, ClientFits,
        AuthFits, PollFits, Base, Typed, StateTyped, RestTypes, KeptTypes,
        CmdFits, At, Go, Idle, kept, side, ui
  <1>9. CASE InstallClient
    BY SessionWrites, <1>9 DEF InstallClient, CmdType, SignsInv, IdFits, TakenOver, ClientFits,
        AuthFits, PollFits, Base, Typed, StateTyped, RestTypes, KeptTypes,
        CmdFits, At, Go, Idle, kept, side, ui
  <1>10. CASE LoadProfile
    BY <1>10 DEF LoadProfile, CmdType, SignsInv, IdFits, TakenOver, ClientFits,
        AuthFits, PollFits, Base, Typed, StateTyped, RestTypes, KeptTypes,
        CmdFits, At, Go, Idle, kept, side, ui
  <1>11. CASE DropClient
    <2>1. cmd'.at = "lazy" /\ cmd'.op = "switch" /\ cmd.at = "drop" /\ cmd # Idle
      BY <1>11 DEF DropClient, At, Go, Idle, CmdFits, CmdType, Typed, StateTyped
    <2>2. \/ session' = session
          \/ session'.client = None /\ session'.id.of = None
      BY <1>11, SessionWrites
    <2>3. UNCHANGED <<auth, shown, late, poll>>
      BY <1>11 DEF DropClient, side, ui
    <2>4. QED
      BY <2>1, <2>2, <2>3 DEF SignsInv, IdFits, TakenOver, ClientFits, AuthFits, PollFits, Base
  <1>12. CASE InstallLazy
    BY SessionWrites, <1>12 DEF InstallLazy, CmdType, SignsInv, IdFits, TakenOver, ClientFits,
        AuthFits, PollFits, Base, Typed, StateTyped, RestTypes, KeptTypes,
        CmdFits, At, Go, Idle, kept, side, ui
  <1>13. CASE Remember
    BY <1>13 DEF Remember, Show, CmdType, BackgroundDone, SignsInv, IdFits, TakenOver,
        ClientFits, AuthFits, PollFits, Base, Typed, StateTyped, RestTypes,
        KeptTypes, CmdFits, At, Go, Idle, kept, side, ui
  <1>14. CASE Reread
    BY <1>14 DEF Reread, CmdType, SignsInv, IdFits, TakenOver, ClientFits, AuthFits,
        PollFits, Base, Typed, StateTyped, RestTypes, KeptTypes, CmdFits, At,
        Go, Idle, kept, side, ui
  <1>15. CASE Adopt
    BY <1>15 DEF Adopt, Show, CmdType, BackgroundDone, SignsInv, IdFits, TakenOver,
        ClientFits, AuthFits, PollFits, Base, Typed, StateTyped, RestTypes,
        KeptTypes, CmdFits, At, Go, Idle, kept, side, ui
  <1>16. CASE Lookup
    BY <1>16 DEF Lookup, CmdType, SignsInv, IdFits, TakenOver, ClientFits, AuthFits,
        PollFits, Base, Typed, StateTyped, RestTypes, KeptTypes, CmdFits, At,
        Go, Idle, kept, side, ui
  <1>17. CASE SwapClient
    BY SessionWrites, <1>17 DEF SwapClient, CmdType, SignsInv, IdFits, TakenOver, ClientFits,
        AuthFits, PollFits, Base, Typed, StateTyped, RestTypes, KeptTypes,
        CmdFits, At, Go, Idle, kept, side, ui
  <1>18. CASE Erase
    BY <1>18 DEF Erase, CmdType, SignsInv, IdFits, TakenOver, ClientFits, AuthFits,
        PollFits, Base, Typed, StateTyped, RestTypes, KeptTypes, CmdFits, At,
        Go, Idle, kept, side, ui
  <1>19. CASE Wipe
    BY SessionWrites, <1>19 DEF Wipe, Cleared, GoLoad, Loading, CmdType, SignsInv, IdFits, TakenOver,
        ClientFits, AuthFits, PollFits, Base, Typed, StateTyped, RestTypes,
        KeptTypes, CmdFits, At, Go, Idle, kept, side, ui
  <1>20. CASE Match
    BY <1>20 DEF Match, CmdType, SignsInv, IdFits, TakenOver, ClientFits, AuthFits,
        PollFits, Base, Typed, StateTyped, RestTypes, KeptTypes, CmdFits, At,
        Go, Idle, kept, side, ui
  <1>21. CASE Leave
    BY SessionWrites, <1>21 DEF Leave, NoLast, Cleared, CmdType, SignsInv, IdFits, TakenOver, ClientFits,
        AuthFits, PollFits, Base, Typed, StateTyped, RestTypes, KeptTypes,
        CmdFits, At, Go, Idle, kept, side, ui
  <1>22. CASE Unlist
    BY <1>22 DEF Unlist, CmdType, SignsInv, IdFits, TakenOver, ClientFits, AuthFits,
        PollFits, Base, Typed, StateTyped, RestTypes, KeptTypes, CmdFits, At,
        Go, Idle, kept, side, ui
  <1>23. CASE ClearIfActive
    <2>1. cmd' \in {Loading, Idle} /\ cmd # Idle /\ cmd.at = "clearIf"
      BY <1>23 DEF ClearIfActive, GoLoad, At, Idle
    <2>2. \/ session' = session
          \/ session'.client = None /\ session'.id.of = None
      BY <1>23, SessionWrites
    <2>3. UNCHANGED <<auth, shown, late, poll>>
      BY <1>23 DEF ClearIfActive, side, ui
    <2>4. CASE cmd' = Loading
      BY <2>1, <2>2, <2>3, <2>4 DEF Loading, SignsInv, IdFits, TakenOver, ClientFits, AuthFits, PollFits, Base
    <2>5. CASE cmd' = Idle
      BY <2>1, <2>2, <2>3, <2>5 DEF Idle, SignsInv, IdFits, TakenOver, ClientFits, AuthFits, PollFits, Base
    <2>6. QED
      BY <2>1, <2>4, <2>5
  <1>24. CASE ClearFlags
    BY <1>24 DEF ClearFlags, CmdType, SignsInv, IdFits, TakenOver, ClientFits,
        AuthFits, PollFits, Base, Typed, StateTyped, RestTypes, KeptTypes,
        CmdFits, At, Go, Idle, kept, side, ui
  <1>25. CASE Disconnect
    BY <1>25 DEF Disconnect, Show, CmdType, BackgroundDone, SignsInv, IdFits,
        TakenOver, ClientFits, AuthFits, PollFits, Base, Typed, StateTyped,
        RestTypes, KeptTypes, CmdFits, At, Go, Idle, kept, side, ui
  <1>26. CASE Fail
    BY <1>26 DEF Fail, MayFail, SignsInv, IdFits, TakenOver, ClientFits, AuthFits,
        PollFits, Base, Typed, StateTyped, RestTypes, KeptTypes, CmdFits, At,
        Go, Idle, kept, side, ui
  <1>27. CASE Look
    <2>1. /\ cmd.at = "look" /\ cmd.op = "load" /\ cmd # Idle
          /\ UNCHANGED <<session, auth, shown, late, poll>>
      BY <1>27 DEF Look, At, Idle, CmdFits, Typed, side, ui
    <2>2. CASE cmd'.at = "adopt" /\ cmd'.who = session.client /\ cmd'.op = "load"
      BY <2>1, <2>2 DEF SignsInv, IdFits, TakenOver, ClientFits, AuthFits, PollFits, Base
    <2>3. CASE cmd'.at = "row" /\ session.client = None /\ cmd'.op = "load"
      BY <2>1, <2>3 DEF SignsInv, IdFits, TakenOver, ClientFits, AuthFits, PollFits, Base
    <2>4. session.client # None => session.id # NoId
      BY SignerTyped DEF SignsInv, IdFits, TakenOver, ClientFits, AuthFits, PollFits, Base, NoId, Maybe, Typed, StateTyped, RestTypes
    <2>5. cmd \in CmdType
      BY DEF Typed, StateTyped
    <2>6. QED
      BY <1>27, <2>1, <2>2, <2>3, <2>4, <2>5 DEF Look, CmdType
  <1>28. CASE LoadRow
    BY <1>28 DEF LoadRow, Show, CmdType, BackgroundDone, SignsInv, IdFits, TakenOver,
        ClientFits, AuthFits, PollFits, Base, Typed, StateTyped, RestTypes,
        KeptTypes, CmdFits, At, Go, Idle, kept, side, ui
  <1>29. CASE StartQr
    BY SessionWrites, <1>29 DEF StartQr, PollType, NoPoll, SignsInv, IdFits, TakenOver, ClientFits,
        AuthFits, PollFits, Base, Typed, StateTyped, RestTypes, KeptTypes,
        CmdFits, At, Go, Idle, kept, side, ui
  <1>30. CASE CancelQr
    BY <1>30 DEF CancelQr, PollType, NoPoll, SignsInv, IdFits, TakenOver, ClientFits,
        AuthFits, PollFits, Base, Typed, StateTyped, RestTypes, KeptTypes,
        CmdFits, At, Go, Idle, kept, side, ui
  <1>31. CASE PollQr
    BY <1>31 DEF PollQr, PollType, NoPoll, SignsInv, IdFits, TakenOver, ClientFits,
        AuthFits, PollFits, Base, Typed, StateTyped, RestTypes, KeptTypes,
        CmdFits, At, Go, Idle, kept, side, ui
  <1>32. CASE NotYet
    BY SessionWrites, <1>32 DEF NotYet, PollType, NoPoll, SignsInv, IdFits, TakenOver, ClientFits,
        AuthFits, PollFits, Base, Typed, StateTyped, RestTypes, KeptTypes,
        CmdFits, At, Go, Idle, kept, side, ui
  <1>33. CASE \E r \in Remotes : Approved(r)
    BY <1>33 DEF Approved, PollType, NoPoll, SignsInv, IdFits, TakenOver, ClientFits,
        AuthFits, PollFits, Base, Typed, StateTyped, RestTypes, KeptTypes,
        CmdFits, At, Go, Idle, kept, side, ui
  <1>34. CASE QrInstall
    BY SessionWrites, <1>34 DEF QrInstall, PollType, NoPoll, BackgroundFits, SignsInv, IdFits,
        TakenOver, ClientFits, AuthFits, PollFits, Base, Typed, StateTyped,
        RestTypes, KeptTypes, CmdFits, At, Go, Idle, kept, side, ui
  <1>35. CASE QrAdopt
    BY <1>35 DEF QrAdopt, PollType, NoPoll, BackgroundFits, SignsInv, IdFits,
        TakenOver, ClientFits, AuthFits, PollFits, Base, Typed, StateTyped,
        RestTypes, KeptTypes, CmdFits, At, Go, Idle, kept, side, ui
  <1>36. CASE QrRemember
    BY <1>36 DEF QrRemember, PollType, NoPoll, BackgroundFits, SignsInv, IdFits,
        TakenOver, ClientFits, AuthFits, PollFits, Base, Typed, StateTyped,
        RestTypes, KeptTypes, CmdFits, At, Go, Idle, kept, side, ui
  <1>37. CASE RestoreSet
    BY SessionWrites, <1>37 DEF RestoreSet, BackgroundFits, SignsInv, IdFits, TakenOver, ClientFits,
        AuthFits, PollFits, Base, Typed, StateTyped, RestTypes, KeptTypes,
        CmdFits, At, Go, Idle, kept, side, ui
  <1>38. CASE TaskReports
    BY SessionWrites, <1>38 DEF TaskReports, SignsInv, IdFits, TakenOver, ClientFits, AuthFits,
        PollFits, Base, Typed, StateTyped, RestTypes, KeptTypes, CmdFits, At,
        Go, Idle, kept, side, ui
  <1>39. CASE Restart
    BY SessionWrites, <1>39 DEF Restart, Boot, Loading, CmdType, PollType, NoPoll, BackgroundFits,
        SignsInv, IdFits, TakenOver, ClientFits, AuthFits, PollFits, Base,
        Typed, StateTyped, RestTypes, KeptTypes, CmdFits, At, Go, Idle, kept,
        side, ui
  <1>40. CASE \E op \in Ops, w \in Accounts : Begin(op, w)
    <2>1. PICK op \in Ops, w \in Accounts : Begin(op, w)
      BY <1>40
    <2>2. /\ cmd' = [op |-> op, who |-> w, at |-> FirstStep(op, w)]
          /\ Offered(op, w) /\ cmd.at = "idle" /\ UNCHANGED <<session, auth, shown, late>>
      BY <2>1 DEF Begin, At
    <2>3. poll'.fresh = FALSE
      BY <2>1 DEF Begin, Typed, StateTyped, PollType
    <2>4. FirstStep(op, w) \in {"insert", "shake", "deactivate", "load", "erase", "match",
                               "leave", "lookup"}
      BY DEF FirstStep, Ops
    <2>5. op = "bunker" => shown = None
      BY <2>2 DEF Offered
    <2>6. QED
      BY <2>2, <2>3, <2>4, <2>5 DEF SignsInv, IdFits, TakenOver, ClientFits, AuthFits, PollFits, Base
  <1>41. CASE RestoreRead \/ PubSnapshot \/ PubResolve \/ PubRecheck \/
          PubEnsure \/ PubSign \/ PubFail
    BY <1>41 DEF RestoreRead, NoLast, PubSnapshot, PubResolve, PubRecheck, PubEnsure, PubSign,
        PubFail, SignsInv, IdFits, TakenOver, ClientFits, AuthFits, PollFits,
        Base, Typed, StateTyped, RestTypes, KeptTypes, CmdFits, At, Go, Idle,
        kept, side, ui, kept, side, ui
  <1>42. QED
    BY <1>1, <1>2, <1>3, <1>4, <1>5, <1>6, <1>7, <1>8, <1>9, <1>10, <1>11,
        <1>12, <1>13, <1>14, <1>15, <1>16, <1>17, <1>18, <1>19, <1>20, <1>21,
        <1>22, <1>23, <1>24, <1>25, <1>26, <1>27, <1>28, <1>29, <1>30, <1>31,
        <1>32, <1>33, <1>34, <1>35, <1>36, <1>37, <1>38, <1>39, <1>40, <1>41 DEF Step, Local, Remote, Removal, Qr, Publish

(* Between commands the signer is the account the UI shows, or nobody, or  *)
(* an account activated in the background: whichever step of a command     *)
(* failed, and in whichever order the background actors came.              *)
THEOREM AlwaysSignsAsShown == Spec => []SignsAsShown
  <1>1. Init => SignsInv
    BY DEF Init, NoSession, NoId, Idle, NoPoll, SignsInv, IdFits, ClientFits, AuthFits, PollFits,
        Base
  <1>2. Typed /\ SignsInv /\ [Next]_vars => SignsInv'
    BY SignsStep
    DEF Next, vars, kept, side, ui, SignsInv, IdFits, TakenOver, ClientFits, AuthFits, PollFits,
        Base
  <1>3. SignsInv => SignsAsShown
    BY DEF SignsInv, ClientFits, AuthFits, Base, SignsAsShown, Quiet, Signer, Resolved
  <1>4. QED
    BY <1>1, <1>2, <1>3, AlwaysTyped, PTL DEF Spec

-----------------------------------------------------------------------------
(* The deferred signer of a session, for any number of overlapping         *)
(* requests, whichever of them carry a deadline.                           *)

(* Besides the types: while there is no client nobody reported one, and    *)
(* nobody stands after the point where a client was kept.                  *)
NoClientYet ==
  inner = Nobody =>
    /\ state # "Connected"
    /\ \A t \in Tasks : pc[t] \notin {"report", "sign"}

SignerInv == SignerTypeOK /\ NoClientYet

LEMMA SignerInvInit == SignerInit => SignerInv
BY SignerAssumption DEF SignerInit, SignerInv, SignerTypeOK, NoClientYet, States, Labels

(* A request that goes to l while the guards it holds are released or kept *)
(* as l requires.                                                          *)
LEMMA SignerGoto ==
  ASSUME SignerTypeOK, NEW t \in Tasks, NEW l \in Labels, Goto(t, l)
  PROVE  /\ pc' \in [Tasks -> Labels]
         /\ pc'[t] = l
         /\ \A u \in Tasks : u # t => pc'[u] = pc[u]
BY DEF SignerTypeOK, Goto

LEMMA SignerInvStep == SignerInv /\ [SignerNext]_signerVars => SignerInv'
<1> SUFFICES ASSUME SignerInv, [SignerNext]_signerVars  PROVE  SignerInv'
  OBVIOUS
<1>1. CASE UNCHANGED signerVars
  BY <1>1 DEF signerVars, SignerInv, SignerTypeOK, NoClientYet
<1>2. ASSUME NEW t \in Tasks, Call(t)
      PROVE  SignerInv'
  BY <1>2, SignerGoto DEF Call, SignerInv, SignerTypeOK, NoClientYet, Labels
<1>3. ASSUME NEW t \in Tasks, FastPath(t)
      PROVE  SignerInv'
  <2>1. CASE inner # Nobody
    BY <1>3, <2>1, SignerGoto DEF FastPath, SignerInv, SignerTypeOK, NoClientYet, Labels
  <2>2. CASE inner = Nobody
    BY <1>3, <2>2, SignerGoto DEF FastPath, SignerInv, SignerTypeOK, NoClientYet, Labels
  <2>. QED  BY <2>1, <2>2
<1>4. ASSUME NEW t \in Tasks, LockState(t)
      PROVE  SignerInv'
  BY <1>4, SignerGoto DEF LockState, SignerInv, SignerTypeOK, NoClientYet, Labels
<1>5. ASSUME NEW t \in Tasks, Recheck(t)
      PROVE  SignerInv'
  <2>1. CASE inner # Nobody
    BY <1>5, <2>1, SignerGoto DEF Recheck, SignerInv, SignerTypeOK, NoClientYet, Labels
  <2>2. CASE inner = Nobody
    BY <1>5, <2>2, SignerGoto
       DEF Recheck, SignerInv, SignerTypeOK, NoClientYet, Labels, States
  <2>. QED  BY <2>1, <2>2
<1>6. ASSUME NEW t \in Tasks, Shaken(t)
      PROVE  SignerInv'
  BY <1>6, SignerGoto DEF Shaken, SignerInv, SignerTypeOK, NoClientYet, Labels
<1>7. ASSUME NEW t \in Tasks, KeepClient(t)
      PROVE  SignerInv'
  BY <1>7, SignerGoto, SignerAssumption
     DEF KeepClient, SignerInv, SignerTypeOK, NoClientYet, Labels
<1>8. ASSUME NEW t \in Tasks, ReportConnected(t)
      PROVE  SignerInv'
  BY <1>8, SignerGoto
     DEF ReportConnected, SignerInv, SignerTypeOK, NoClientYet, Labels, States
<1>9. ASSUME NEW t \in Tasks, ReportFailed(t)
      PROVE  SignerInv'
  BY <1>9, SignerGoto
     DEF ReportFailed, SignerInv, SignerTypeOK, NoClientYet, Labels, States
<1>10. ASSUME NEW t \in Tasks, Signed(t)
       PROVE  SignerInv'
  BY <1>10, SignerGoto DEF Signed, SignerInv, SignerTypeOK, NoClientYet, Labels
<1>11. ASSUME NEW t \in Tasks, Drop(t)
       PROVE  SignerInv'
  BY <1>11, SignerGoto DEF Drop, Freed, SignerInv, SignerTypeOK, NoClientYet, Labels
<1>. QED
  BY <1>1, <1>2, <1>3, <1>4, <1>5, <1>6, <1>7, <1>8, <1>9, <1>10, <1>11
     DEF SignerNext, Work

(* The inductive invariant of the deferred signer. *)
THEOREM SignerInvariance == SignerSpec => []SignerInv
BY SignerInvInit, SignerInvStep, PTL DEF SignerSpec

(* The signer's state is well typed, and a write guard is held only by a   *)
(* request that stands at the statement holding it.                        *)
THEOREM SignerTypeCorrect == SignerSpec => []SignerTypeOK
<1>1. SignerInv => SignerTypeOK
  BY DEF SignerInv
<1>. QED  BY SignerInvariance, <1>1, PTL

(* Connected is only ever reported with a client in place, whatever        *)
(* overlapping handshakes fail or are dropped.                             *)
THEOREM ConnectedIsTrue == SignerSpec => []ConnectedHasClient
<1>1. SignerInv => ConnectedHasClient
  BY DEF SignerInv, NoClientYet, ConnectedHasClient
<1>. QED  BY SignerInvariance, <1>1, PTL

(* Every signature is asked for over a completed handshake.                *)
THEOREM SigningHasClient == SignerSpec => []SignsWithClient
<1>1. SignerInv => SignsWithClient
  BY DEF SignerInv, NoClientYet, SignsWithClient
<1>. QED  BY SignerInvariance, <1>1, PTL
=============================================================================
