--------------------------- MODULE SlidingWindow ---------------------------
(***************************************************************************)
(* What stats/burst.go promises: a queue of the latest event times, from   *)
(* whose old end each new event drops what its window no longer covers.    *)
(***************************************************************************)
EXTENDS Clock, Sequences

CONSTANTS Window,           \* how far back an event counts
          MaxSamples        \* events remembered at most

VARIABLE kept               \* the remembered times, in order of arrival
vars == <<clock, kept>>

Stale(s, now) == s <= now - Window

\* The new event evicts the oldest when there is no room, and then the stale
\* ones at the old end; a stale one behind a fresh one stays.
Keep(now) ==
    LET grown == Append(kept, now)
        room  == IF Len(grown) > MaxSamples THEN Tail(grown) ELSE grown
    IN  \E n \in 0 .. Len(room) :
           /\ \A i \in 1 .. n : Stale(room[i], now)
           /\ n < Len(room) => ~Stale(room[n + 1], now)
           /\ kept' = SubSeq(room, n + 1, Len(room))

Init == clock = 0 /\ kept = << >>

Next == \/ Tick /\ UNCHANGED kept
        \/ \E now \in 0 .. clock : Keep(now) /\ UNCHANGED clock

Spec == Init /\ [][Next]_vars
=============================================================================
