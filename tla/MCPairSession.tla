--------------------------- MODULE MCPairSession ---------------------------
(* Two tool calls polling one flow that rotates through two QR codes.      *)
EXTENDS PairSession
=============================================================================
