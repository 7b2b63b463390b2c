---------------------------- MODULE MCSyncFeed ----------------------------
(* A small instance of SyncFeed for TLC. *)
EXTENDS SyncFeed, TLC

CONSTANTS i1, i2, w1, w2, p1, d1, s1, s2

Touched(i) == row[i] # "absent" \/ \E w \in Writer : tx[w].idea = i

Pushed == (\E w \in Pusher : tx[w].pc # "idle") \/ \E o \in log : o.site # NoOne
InFlight(d) == {s \in Slot : pull[d][s].pc # "idle"}

\* Captures are interchangeable: only states where i1 came first are explored.
\* The pulls of a device overlap as long as nobody has pushed.  No fairness asks
\* for the steps this cuts.
Focus ==
    /\ Touched(i2) => Touched(i1)
    /\ \A d \in Device : InFlight(d) \subseteq {s1} \/ ~Pushed

============================================================================
