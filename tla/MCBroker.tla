------------------------------ MODULE MCBroker ------------------------------
(* Broker on a small instance: the two routing keys are interchangeable. *)
EXTENDS Broker, TLC
KeySymmetry == Permutations(Keys)
=============================================================================
