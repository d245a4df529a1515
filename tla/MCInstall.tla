----------------------------- MODULE MCInstall ------------------------------
(***************************************************************************)
(* Model values for Install: two versions of a game and a corrupt body,    *)
(* two servers, two quarantine names in place of 1,025.  Each behaviour    *)
(* has one install at a time, of any listing from any server, or two       *)
(* overlapping installs of the same listing from the first server.         *)
(***************************************************************************)
EXTENDS Install

MCContents == {"v1", "v2", "corrupt"}

MCServerUrls == <<"s1", "s2">>

MCCrews == {{CHOOSE t \in Tasks : TRUE}, Tasks}

(* Installs that overlap are of the first listing from the first server.   *)
Allowed(t) ==
  task'[t].pc # "idle" => Alone \/ (task'[t].hash = "v1" /\ task'[t].server = "s1")

MCNext == Next /\ \A t \in Tasks : Allowed(t)

MCSpec == Init /\ [][MCNext]_vars /\ Fairness
=============================================================================
