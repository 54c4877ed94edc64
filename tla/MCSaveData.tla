----------------------------- MODULE MCSaveData -----------------------------
(***************************************************************************)
(* Two tabs of the site; a profile is blank or edited.                     *)
(***************************************************************************)
EXTENDS SaveData
=============================================================================
