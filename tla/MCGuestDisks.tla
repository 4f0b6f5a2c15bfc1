---------------------------- MODULE MCGuestDisks ----------------------------
(* Two guests: the owner of the shared backing image, and one that shares. *)
EXTENDS GuestDisks

MCModes == {"image", "file", "restore", "ansible", "bake"}
=============================================================================
