------------------------ MODULE MCCampaignPublishing ------------------------
(***************************************************************************)
(* Two circumstances for CampaignPublishing: one session whose relays all  *)
(* answer, with two campaigns and the pointers of the listing; and two     *)
(* sessions that edit one campaign on partial answers.                     *)
(***************************************************************************)
EXTENDS CampaignPublishing

Window(starts) == [starts |-> starts, ends |-> 4]

MCSetups ==
  { Setup({"s1"}, {"spring", "autumn"}, {Window(2)}, 3, FALSE),
    Setup({"s1", "s2"}, {"spring"}, {Window(2), Window(3)}, 0, TRUE) }
=============================================================================
