------------------------------ MODULE MCRxRing ------------------------------
(* Instances of RxRing for model checking; the bounds are in the cfg files. *)
EXTENDS RxRing
=============================================================================
