------------------------- MODULE NormSegmentAllocation -------------------------
(***************************************************************************)
(* Abstract specification of what NormSegmentPool promises the blocks     *)
(* that borrow from it (spec 4.1, 6 and scenario 1): a free segment goes  *)
(* to exactly one borrower, a borrower gives back exactly what it holds,  *)
(* a request on an empty pool fails and counts one overrun per episode    *)
(* of exhaustion, and an episode ends with the next successful request.   *)
(* Which free segment a request gets is left open.                        *)
(***************************************************************************)
EXTENDS Naturals

CONSTANTS Segs, Borrowers, MaxOverruns

VARIABLES
  free,       \* the segments in the pool
  lent,       \* borrower -> the segments it holds
  episodes,   \* overrun episodes counted since the last Init
  exhausted   \* an episode is in progress

avars == <<free, lent, episodes, exhausted>>

Init ==
  /\ free \in {Segs, {}}       \* every allocation succeeded, or none kept
  /\ lent = [b \in Borrowers |-> {}]
  /\ episodes = 0
  /\ exhausted = FALSE

\* A request served with some free segment.
Lend(b, s) ==
  /\ s \in free
  /\ free' = free \ {s}
  /\ lent' = [lent EXCEPT ![b] = @ \cup {s}]
  /\ exhausted' = FALSE
  /\ UNCHANGED episodes

\* A request on an empty pool that starts an episode.
Refuse ==
  /\ free = {} /\ ~exhausted
  /\ episodes < MaxOverruns
  /\ episodes' = episodes + 1
  /\ exhausted' = TRUE
  /\ UNCHANGED <<free, lent>>

\* A borrower gives back everything it holds.
GiveBack(b) ==
  /\ lent[b] # {}
  /\ free' = free \cup lent[b]
  /\ lent' = [lent EXCEPT ![b] = {}]
  /\ UNCHANGED <<episodes, exhausted>>

\* Re-Init once every segment is back: a new set of segments, counters
\* restarted.
Renew(S) ==
  /\ \A b \in Borrowers : lent[b] = {}
  /\ free' = S
  /\ episodes' = 0
  /\ UNCHANGED <<lent, exhausted>>

Next ==
  \/ \E b \in Borrowers : GiveBack(b) \/ \E s \in Segs : Lend(b, s)
  \/ Refuse
  \/ \E S \in SUBSET Segs : Renew(S)

Spec == Init /\ [][Next]_avars
=============================================================================
