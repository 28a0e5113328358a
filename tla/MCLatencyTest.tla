----------------------------- MODULE MCLatencyTest -----------------------------
(* LatencyTest with two series of one message each.                        *)
EXTENDS LatencyTest

MCPruebas == <<1, 1>>
===============================================================================
