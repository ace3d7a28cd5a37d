------------------------------ MODULE MCRelease ------------------------------
(* Instances of Release for TLC: a list that names one of its services twice. *)
EXTENDS Release

CONSTANTS web, api

Entries == 1..Length
TwiceWeb == <<web, api, web>>
=============================================================================
