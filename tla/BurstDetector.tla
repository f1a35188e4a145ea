--------------------------- MODULE BurstDetector ---------------------------
(***************************************************************************)
(* The burst detector of a series, stats/burst.go: a ring buffer of event  *)
(* times.  Add is one critical section, but its callers read the clock     *)
(* before they reach it, so times arrive out of order.                     *)
(***************************************************************************)
EXTENDS Clock, Sequences, FiniteSets

CONSTANTS Window, Threshold, MaxSamples

\* BurstConfig.withDefaults leaves nothing else.
ASSUME BurstAssumption == /\ Window \in Nat \ {0}
                          /\ Threshold \in Nat \ {0}
                          /\ MaxSamples \in Nat /\ MaxSamples >= Threshold

VARIABLES buf, head, size,  \* the ring: size times from head on
          severity,         \* of the last snapshot, beside its count, the size
          added             \* history: all the times, in order of arrival
burstVars == <<buf, head, size, severity, added>>

Cells == 0 .. MaxSamples - 1
At(first, i) == (first + i) % MaxSamples

BurstInit ==
    /\ buf = [c \in Cells |-> 0]
    /\ head = 0
    /\ size = 0
    /\ severity = "none"
    /\ added = << >>

-----------------------------------------------------------------------------

\* After the cutoff, one window before the new event.
Fresh(s, now) == s > now - Window

\* Mutant: a full ring overwrites its oldest time and keeps its head.
FixedHead == head

\* Mutant: the head moves on although there is room.
RestlessHead == At(head, 1)

HeadAfterWrite == IF size = MaxSamples THEN At(head, 1) ELSE head

\* Mutant: a full ring goes on counting.
GrowingSize == size + 1

SizeAfterWrite == IF size = MaxSamples THEN size ELSE size + 1

\* The number of stale times at the old end of the n times from first on.
Trim(ring, first, n, now) ==
    CHOOSE d \in 0 .. n :
       /\ \A i \in 0 .. d - 1 : ~Fresh(ring[At(first, i)], now)
       /\ d < n => Fresh(ring[At(first, d)], now)

\* Mutant: severities one event late.
LateSeverity(count) == IF count > 2 * Threshold THEN "high"
                       ELSE IF count > Threshold THEN "medium" ELSE "none"

SeverityOf(count) == IF count >= 2 * Threshold THEN "high"
                     ELSE IF count >= Threshold THEN "medium" ELSE "none"

Add(now) ==
    LET first == HeadAfterWrite
        n     == SizeAfterWrite
        ring  == [buf EXCEPT ![At(first, n - 1)] = now]
        stale == Trim(ring, first, n, now)
    IN  /\ buf' = ring
        /\ head' = At(first, stale)
        /\ size' = n - stale
        /\ severity' = SeverityOf(n - stale)
        /\ added' = Append(added, now)

-----------------------------------------------------------------------------
BurstTypeOK ==
    /\ buf \in [Cells -> 0 .. MaxTime]
    /\ head \in Cells
    /\ size \in 0 .. MaxSamples
    /\ severity \in {"none", "medium", "high"}
    /\ added \in Seq(0 .. MaxTime)

\* The ring, wherever its head is, is the queue of the sliding window.
Kept == [i \in 1 .. size |-> buf[At(head, i - 1)]]
Queue == INSTANCE SlidingWindow WITH kept <- Kept
RingIsQueue == Queue!Spec

Latest == added[Len(added)]
InWindow(I) == Cardinality({i \in I : added[i] > Latest - Window})
Last(n) == {i \in DOMAIN added : i > Len(added) - n}

InOrder == \A i, j \in DOMAIN added : i < j => added[i] <= added[j]

\* While the times arrive in order, the count is the number of events of the
\* window, up to the size of the ring, so a burst is rated by what happened.
InOrderCountIsExact ==
    added # << >> /\ InOrder =>
       LET events == InWindow(DOMAIN added)
           count  == IF events < MaxSamples THEN events ELSE MaxSamples
       IN  /\ size = count
           /\ severity = (IF count >= 2 * Threshold THEN "high"
                          ELSE IF count >= Threshold THEN "medium" ELSE "none")

\* Times that arrived late may leave stale ones in the count, but an event
\* with the newest time so far misses none of the latest MaxSamples events
\* that its window covers.
NewestTimeMissesNone ==
    added # << >> /\ (\A i \in DOMAIN added : added[i] <= Latest)
       => size >= InWindow(Last(MaxSamples))
=============================================================================
