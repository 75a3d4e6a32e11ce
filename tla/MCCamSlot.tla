----------------------------- MODULE MCCamSlot -----------------------------
(* Instances of CamSlot for TLC. *)
EXTENDS CamSlot

(* The CAM opens sessions on its first connection, one of them with a       *)
(* resource the host does not provide.                                      *)
MCCamOpens == <<Resources \cup {"HOST_CONTROL"}, {}>>
=============================================================================
