----------------------------- MODULE MCPidProbe -----------------------------
(***************************************************************************)
(* PidProbe on a mux with three programs, of which the channel is the      *)
(* second; its playlist entry lists the PMT and one stream.                *)
(***************************************************************************)
EXTENDS PidProbe, TLC

MCPrograms  == <<10, 20, 30>>
MCStreams   == 10 :> <<11>> @@ 20 :> <<23, 21, 22>> @@ 30 :> <<31>>
MCRequested == <<20, 21, 40>>
MCMisread   == {21, 99}
=============================================================================
