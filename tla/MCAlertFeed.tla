---------------------------- MODULE MCAlertFeed ----------------------------
(* Instances of AlertFeed for TLC.                                         *)
EXTENDS AlertFeed, TLC

CONSTANTS a1, a2, a4, k1, k2, t1, t2, f1, f2

MCKeyOf == [a \in Alerts |-> IF a = a1 THEN k1 ELSE k2]

(* Two tenants, one dashboard each; a4 does not parse.                      *)
MCTenantOf == [a \in Alerts |-> IF a = a2 THEN t2 ELSE t1]
MCSubscribedTo == [f \in Feeds |-> IF f = f2 THEN t2 ELSE t1]

(* The replicas of the worker are alike.                                    *)
MCSymmetry == Permutations(Workers)
=============================================================================
