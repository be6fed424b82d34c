---------------------------- MODULE AlertDelivery ----------------------------
(***************************************************************************)
(* What the alert queue and its consumers promise, seen from outside: an   *)
(* alert is put in a line, leaves the line in arrival order, is taken by    *)
(* one consumer at most once, and from then on gets one outcome that never  *)
(* changes.  AlertWorker is shown to implement this.                        *)
(***************************************************************************)
EXTENDS Naturals, Sequences

CONSTANTS
    Alerts,    \* the alerts producers may publish
    Outcomes,  \* the ways the handling of an alert can end
    Lost       \* the outcome of an alert that nobody recorded

VARIABLES
    line,      \* the alerts waiting to be taken, oldest first
    status     \* status[a]: "new", "waiting", "taken" or an outcome

vars == <<line, status>>

Statuses == {"new", "waiting", "taken"} \cup Outcomes

TypeOK ==
    /\ line \in Seq(Alerts)
    /\ status \in [Alerts -> Statuses]

Init ==
    /\ line = <<>>
    /\ status = [a \in Alerts |-> "new"]

Arrive(a) ==
    /\ status[a] = "new"
    /\ status' = [status EXCEPT ![a] = "waiting"]
    /\ line' = Append(line, a)

(* The oldest alert in line leaves it: a consumer takes it, or it is lost  *)
(* between the line and the consumer.                                      *)
Leave(to) ==
    /\ line # <<>>
    /\ line' = Tail(line)
    /\ status' = [status EXCEPT ![Head(line)] = to]

(* The handling of some taken alerts ends, of several at once only when    *)
(* the consumer that holds them stops.                                     *)
Settle ==
    /\ status' \in [Alerts -> Statuses]
    /\ \A a \in Alerts :
          status'[a] = status[a] \/ (status[a] = "taken" /\ status'[a] \in Outcomes)
    /\ UNCHANGED line

Next ==
    \/ \E a \in Alerts : Arrive(a)
    \/ Leave("taken")
    \/ Leave(Lost)
    \/ Settle

Spec == Init /\ [][Next]_vars

=============================================================================
