------------------------------- MODULE Content -------------------------------
(***************************************************************************)
(* What an organization plans and shows: its campaigns and media files,    *)
(* which requests edit side by side.                                       *)
(***************************************************************************)
EXTENDS Campaigns, MediaFiles

(* Campaigns end after they start, unless two updates of one crossed; the  *)
(* media files can be shown, and so can the avatar, whoever else replaces  *)
(* it.                                                                     *)
ContentKept == DatesKept /\ FilesKept
==============================================================================
