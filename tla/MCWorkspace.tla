------------------------------ MODULE MCWorkspace ------------------------------
(***************************************************************************)
(* Workspace for TLC: users, invitations, keys and calls are               *)
(* interchangeable.                                                        *)
(***************************************************************************)
EXTENDS Workspace, TLC

Symmetry == Permutations(User) \cup Permutations(Invite) \cup Permutations(Key)
              \cup Permutations(Call)
=============================================================================
