----------------------------- MODULE MCUploads ------------------------------
(* Each behaviour exercises one of these, so that the instance stays       *)
(* small: two files and two requests; closing and reopening while jobs     *)
(* run; two choices at once; a switch, a load or a write in between; two   *)
(* of them, a write that undoes another among them.                        *)
EXTENDS Uploads

MCLimits ==
  { Limit(2, 2, 1, 1, 0), Limit(1, 2, 2, 2, 0), Limit(2, 1, 2, 1, 0),
    Limit(1, 2, 1, 2, 1), Limit(1, 1, 2, 1, 1), Limit(1, 1, 1, 1, 2) }
=============================================================================
