-------------------------- MODULE MCObjectLifecycle --------------------------
(* Small instances of ObjectLifecycle for TLC. *)
EXTENDS ObjectLifecycle, TLC

\* Neither ids nor cameras are told apart by anything but their names.
Symmetry == {i @@ c : i \in Permutations(Ids), c \in Permutations(Cameras)}

=============================================================================
