----------------------------- MODULE TraffCount -----------------------------
(***************************************************************************)
(* The client's history of traffic volumes                                 *)
(* (binaries/geph5-client/src/traffcount.rs).  Every access holds the      *)
(* write lock, so a call is one step.  Time passes in fractions of a       *)
(* second, since durations are rounded down to seconds.                    *)
(***************************************************************************)
EXTENDS Naturals, Sequences

CONSTANTS
  TicksPerSecond,       \* resolution of the clock
  max_history_seconds,  \* of the counter
  MaxSeconds,           \* bound: seconds that pass
  MaxIncr               \* bound: bytes counted

VARIABLES
  now,           \* ticks since the counter was made
  window_start,  \* in ticks, too
  bins,
  bySecond,      \* history: bytes counted in each second of the clock
  called         \* history: when the last call came, in ticks

vars == <<now, window_start, bins, bySecond, called>>

Seconds == 0 .. MaxSeconds
Second(t) == t \div TicksPerSecond

\* TraffCount::with_history.
Init ==
  /\ now = 0 /\ window_start = 0 /\ bins = <<>>
  /\ bySecond = [s \in Seconds |-> 0] /\ called = 0

Tick ==
  /\ Second(now + 1) \in Seconds
  /\ now' = now + 1
  /\ UNCHANGED <<window_start, bins, bySecond, called>>

\* A new bin; the oldest goes when the history is full.
Push(b) ==
  Append(IF Len(b) >= max_history_seconds THEN Tail(b) ELSE b, 0)

Pushed[n \in Nat] == IF n = 0 THEN bins ELSE Push(Pushed[n - 1])

\* The window moves by whole seconds.
WindowMoves(elapsed) == window_start + elapsed * TicksPerSecond

\* The bins and window_start after ensure_bins_updated.
Updated ==
  LET elapsed == Second(now - window_start)
  IN  IF bins = <<>> THEN <<<<0>>, window_start>>
      ELSE IF elapsed = 0 THEN <<bins, window_start>>
      ELSE <<Pushed[elapsed], WindowMoves(elapsed)>>

Incr(bytes) ==
  /\ bySecond[Second(now)] + bytes <= MaxIncr
  /\ bins' = [Updated[1] EXCEPT ![Len(Updated[1])] = @ + bytes]
  /\ window_start' = Updated[2]
  /\ bySecond' = [bySecond EXCEPT ![Second(now)] = @ + bytes]
  /\ called' = now
  /\ UNCHANGED now

\* The bound on time is reached.
Over == Second(now + 1) \notin Seconds /\ UNCHANGED vars

Next == Tick \/ (\E bytes \in 0 .. 1 : Incr(bytes)) \/ Over

Spec == Init /\ [][Next]_vars

----------------------------------------------------------------------------

\* "Per-second bins for traffic measurements": the bins are the last seconds
\* of the clock up to the last call, and no traffic within max_history_seconds
\* of it is skipped, merged or lost, however calls and seconds interleave.
PerSecond ==
  LET last == Second(called)
      InBin(s) == IF last - s < Len(bins) THEN bins[Len(bins) - (last - s)] ELSE 0
  IN  \A s \in 0 .. last :
        last - s < max_history_seconds => InBin(s) = bySecond[s]
=============================================================================
