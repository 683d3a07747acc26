---------------------------- MODULE EventLedger -----------------------------
(***************************************************************************)
(* What the upload path promises about each captured event: it is held on  *)
(* the client until it meets one fate, and that fate is final.  It is      *)
(* acknowledged at most once, never after it was given up, and an event    *)
(* the egress policy withholds is never held at all.  How the events are   *)
(* held (in a capture loop, the queue or a batch) is left open.            *)
(***************************************************************************)
EXTENDS Integers

CONSTANT Events  \* events in the order they are captured

VARIABLE fate    \* what has become of each event

Fates == {"future", "held", "withheld", "acked", "gone"}

Init == fate = [e \in Events |-> "future"]

(* The next event is captured, to be uploaded or withheld. *)
Capture(e) ==
  /\ fate[e] = "future"
  /\ \A f \in Events : f < e => fate[f] # "future"
  /\ \E end \in {"held", "withheld"} : fate' = [fate EXCEPT ![e] = end]

(* Some of the held events meet their end. *)
Resolve(end) ==
  /\ fate' \in [Events -> Fates]
  /\ \A e \in Events : fate'[e] # fate[e] => fate[e] = "held" /\ fate'[e] = end

(* The server acknowledges a batch of held events. *)
Acknowledge == Resolve("acked")

(* Held events are dropped for capacity, or lost with the process. *)
GiveUp == Resolve("gone")

Next == Acknowledge \/ GiveUp \/ \E e \in Events : Capture(e)

Spec == Init /\ [][Next]_fate
=============================================================================
