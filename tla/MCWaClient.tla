---------------------------- MODULE MCWaClient ----------------------------
(* Two tool calls, two pairing flows and one Unpair that replaces the      *)
(* whatsmeow client; rawCh is small, so it does fill.                      *)
EXTENDS WaClient, TLC

(* The calls are interchangeable; the properties are safety properties.    *)
Sym == Permutations(Callers)
=============================================================================
