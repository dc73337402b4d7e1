------------------------------ MODULE MCUpgrade ------------------------------
(* Instances of Upgrade for TLC. *)
EXTENDS Upgrade

\* Every command asks for the newest version: the second tries again.
SameRelease == [c \in Commands |-> MaxVersion]
=============================================================================
