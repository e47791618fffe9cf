----------------------------- MODULE MCFilters -----------------------------
(* Instances of Filters for model checking; the bounds are in the cfg files. *)
EXTENDS Filters, TLC

\* Bound: the address lists are long, or VLAN ids are in use, not both at once.
Apart == wanted \cup synced = {} \/ vlan_data = Clear

\* Which multicast address is which makes no difference.
Alike == Permutations(Mc)
=============================================================================
