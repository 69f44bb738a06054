------------------------------- MODULE Largest -------------------------------
EXTENDS Naturals

(* The row order_by("-x").first() finds among rows with the values S of x. *)
Latest(S) == CHOOSE k \in S : \A j \in S : j <= k
=============================================================================
