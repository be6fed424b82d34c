---------------------------- MODULE MCAlertWorker ----------------------------
(* Instances of AlertWorker for TLC.                                       *)
EXTENDS AlertWorker

CONSTANTS a1, a2, a3, a4, k1, k2, w1, w2

(* a1 and a2 are the same alert pushed twice; a4 does not parse.            *)
MCKeyOf == [a \in Alerts |-> IF a \in {a1, a2} THEN k1 ELSE k2]

MCSymmetry == Permutations(Workers)
=============================================================================
