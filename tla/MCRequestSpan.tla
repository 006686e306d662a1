---------------------------- MODULE MCRequestSpan ----------------------------
(* The instances of MCGateway for RequestSpan.                             *)
EXTENDS MCGateway, RequestSpan
=============================================================================
