----------------------------- MODULE AtLeastOnce -----------------------------
(***************************************************************************)
(* What a consumer of a log promises that keeps a checkpoint and commits    *)
(* after it has worked: of the records meant for it and appended after it   *)
(* subscribed, none lies behind its committed offset without its effect,    *)
(* none behind it is worked on again, and it skips what came before it      *)
(* subscribed.  A lost checkpoint makes it subscribe anew, at the end of    *)
(* the log, and what the log itself loses is not promised.  Both queries of *)
(* StreamPipeline are shown to implement this.                              *)
(***************************************************************************)
EXTENDS Naturals

CONSTANT Nowhere   \* the offset a consumer without a checkpoint has

VARIABLES
    end,       \* the offset of the last record of the log
    wanted,    \* the offsets of the records meant for the consumer
    from,      \* the end of the log when it subscribed
    upto,      \* the offset it has committed
    handled    \* the records whose effect has taken place, once or more

vars == <<end, wanted, from, upto, handled>>

Init ==
    /\ end = 0 /\ wanted = {}
    /\ from = Nowhere /\ upto = Nowhere /\ handled = {}

Arrive ==
    /\ end' = end + 1
    /\ wanted' \in {wanted, wanted \cup {end + 1}}
    /\ UNCHANGED <<from, upto, handled>>

Subscribe ==
    /\ from = Nowhere
    /\ from' = end /\ upto' = end
    /\ UNCHANGED <<end, wanted, handled>>

(* The effect of some records takes place, for the first time or again.     *)
Handle ==
    /\ from # Nowhere
    /\ \E some \in SUBSET {i \in wanted : upto < i} : handled' = handled \cup some
    /\ UNCHANGED <<end, wanted, from, upto>>

Commit ==
    /\ from # Nowhere
    /\ upto' \in upto .. end
    /\ {i \in wanted : upto < i /\ i <= upto'} \subseteq handled
    /\ UNCHANGED <<end, wanted, from, handled>>

Forget ==
    /\ from' = Nowhere /\ upto' = Nowhere
    /\ UNCHANGED <<end, wanted, handled>>

(* The log loses records, and with them what was promised of them.          *)
Expire ==
    /\ wanted' \subseteq wanted
    /\ handled' = handled \cap wanted'
    /\ UNCHANGED <<end, from, upto>>

Next == Arrive \/ Subscribe \/ Handle \/ Commit \/ Forget \/ Expire

Spec == Init /\ [][Next]_vars
=============================================================================
