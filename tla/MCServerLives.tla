---------------------------- MODULE MCServerLives ---------------------------
(***************************************************************************)
(* Instances of ServerLives, with the values of MCCachingTransport.        *)
(***************************************************************************)
EXTENDS ServerLives, MCCachingTransport
=============================================================================
