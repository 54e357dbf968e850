--------------------------- MODULE MCSatIPSession ---------------------------
(***************************************************************************)
(* SatIPSession with two or three attempts.                                *)
(***************************************************************************)
EXTENDS SatIPSession
=============================================================================
