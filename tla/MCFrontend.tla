----------------------------- MODULE MCFrontend -----------------------------
(* Two cores that register different callbacks: one all of them and options,  *)
(* one none of them.                                                          *)
EXTENDS Frontend, TLC

CONSTANTS c1, c2

MCKinds == {"frame_time", "audio"}
MCUses == (c1 :> MCKinds) @@ (c2 :> {})
=============================================================================
