----------------------------- MODULE MCEndpoint -----------------------------
(* Instances of Endpoint and Sequence for TLC. *)
EXTENDS Endpoint

ThreeNames == <<"a", "b", "default">>

=============================================================================
