----------------------------- MODULE MCSeeding -----------------------------
(* Instances of Seeding for TLC.                                            *)
EXTENDS Seeding
=============================================================================
