------------------------------ MODULE MCMarket ------------------------------
(* Instances of Market for TLC.                                             *)
EXTENDS Market
=============================================================================
