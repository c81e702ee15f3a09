--------------------------- MODULE MCScimPushQueue ---------------------------
(* The SCIM push queue for model checking: nothing but the specification; the *)
(* users, workers and ids are sets of model values that the .cfg files give.  *)
EXTENDS ScimPushQueue, TLC

Symmetry == Permutations(Users) \cup Permutations(Workers)
=============================================================================
