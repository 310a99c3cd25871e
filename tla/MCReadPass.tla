------------------------------ MODULE MCReadPass ------------------------------
(* ReadPass with one fatal and one stopping signal, two calls, three signals. *)
EXTENDS ReadPass
MCbadsigs == <<"INT", "TSTP">>
MCFatal == {"INT"}
=============================================================================
