------------------------------ MODULE ExitProofs -----------------------------
(***************************************************************************)
(* Proofs about an exit: ExitStreams for every finite set of streams, every*)
(* limit and every set of destinations, and ExitIo for any copies, queries,*)
(* loads and times.                                                        *)
(***************************************************************************)
EXTENDS MCExit, FiniteSetTheorems, TLAPS

----------------------------------------------------------------------------
(* ExitStreams: the inductive invariant.                                   *)

LiveStates == {"counted", "protected", "waiting", "woken"}
Live == {s \in Streams : handle[s] \in LiveStates}
Pending == {s \in Streams : handle[s] \in {"counted", "protected", "woken"}}

Types ==
  /\ filter \in BOOLEAN
  /\ queue \in Seq(Streams \cup {"metadata"})
  /\ session \in {"start", "filter", "open"}
  /\ dest \in [Streams -> Dests \cup {"none"}]
  /\ told \in [Streams -> {"none", "start", "filter", "open"}]
  /\ task \in [Streams -> {"none", "resolve", "lookup", "resolved", "copying",
                           "failed", "killed", "done"}]
  /\ handle \in [Streams -> {"none", "new", "dead"} \cup LiveStates]
  /\ count \in Int

\* A stream is in the queue at most once, and its task is not there before it has
\* left the queue.
Queued ==
  /\ \A i, j \in 1 .. Len(queue) : queue[i] = queue[j] => i = j
  /\ \A i \in 1 .. Len(queue) :
       queue[i] # "metadata" => dest[queue[i]] # "none" /\ task[queue[i]] = "none"
  /\ \A s \in Streams : /\ task[s] = "none" <=> handle[s] = "none"
                        /\ dest[s] = "none" => task[s] = "none"

\* The metadata is first in the queue until the session knows it, and no task
\* starts before.
KnowsFilter ==
  /\ session = "start" => queue # <<>> /\ queue[1] = "metadata"
  /\ session # "start" => session = IF filter THEN "filter" ELSE "open"
  /\ \A s \in Streams : task[s] # "none" => told[s] = IF filter THEN "filter" ELSE "open"

\* TASK_COUNT counts the live handles, and of those that have tested the limit and
\* wait for the next notification there are never more than the limit.
CountsLive == count = Cardinality(Live)
FewWait == Cardinality(Waiting) <= task_limit

IInv == Types /\ Queued /\ KnowsFilter /\ CountsLive /\ FewWait /\ FilterHonoured

----------------------------------------------------------------------------
(* Counting.                                                               *)

\* Sets of streams are finite, and a subset is no larger.
LEMMA StreamSets ==
  ASSUME NEW A \in SUBSET Streams, NEW B \in SUBSET A
  PROVE  /\ IsFiniteSet(A) /\ IsFiniteSet(B)
         /\ Cardinality(A) \in Nat /\ Cardinality(B) \in Nat
         /\ Cardinality(B) <= Cardinality(A)
<1>1. IsFiniteSet(A)
  BY StreamsAssumption, FS_Subset
<1>2. IsFiniteSet(B) /\ Cardinality(B) <= Cardinality(A)
  BY <1>1, FS_Subset
<1> QED
  BY <1>1, <1>2, FS_CardinalityType

\* Whoever stops waiting leaves no more than waited before (notify_one, and a
\* future that is dropped).
LEMMA FewerWait ==
  ASSUME FewWait, Waiting' \subseteq Waiting
  PROVE  FewWait'
<1>1. Waiting \in SUBSET Streams
  BY DEF Waiting
<1>2. Cardinality(Waiting') <= Cardinality(Waiting)
      /\ Cardinality(Waiting) \in Nat /\ Cardinality(Waiting') \in Nat
  BY <1>1, StreamSets
<1> QED
  BY <1>2, LimitAssumption DEF FewWait

\* With the count right, few waiting handles mean that an excess is pending.
LEMMA ExcessFromInv == CountsLive /\ FewWait => ExcessPending
<1> SUFFICES ASSUME CountsLive, FewWait PROVE ExcessPending
  OBVIOUS
<1>1. /\ Live = Pending \cup Waiting /\ Pending \cap Waiting = {}
      /\ Pending \in SUBSET Live /\ Waiting \in SUBSET Live /\ Live \in SUBSET Streams
  BY DEF Live, LiveStates, Pending, Waiting
<1>2. /\ IsFiniteSet(Pending) /\ IsFiniteSet(Waiting)
      /\ Cardinality(Pending) \in Nat /\ Cardinality(Waiting) \in Nat
      /\ Cardinality(Live) \in Nat
  BY <1>1, StreamSets
<1>3. Cardinality(Live) = Cardinality(Pending) + Cardinality(Waiting) - Cardinality({})
  BY <1>1, <1>2, FS_Union
<1> QED
  BY <1>2, <1>3, FS_EmptySet, LimitAssumption DEF CountsLive, FewWait, ExcessPending, Pending

\* A handle that comes is one more.
LEMMA OneMore ==
  ASSUME NEW s \in Streams, s \notin Live, CountsLive, Live' = Live \cup {s}, count' = count + 1
  PROVE  CountsLive'
<1>1. Live \in SUBSET Streams
  BY DEF Live
<1>2. IsFiniteSet(Live) /\ Cardinality(Live) \in Nat
  BY <1>1, StreamSets
<1> QED
  BY <1>2, FS_AddElement DEF CountsLive

\* A handle that goes is one less.
LEMMA OneLess ==
  ASSUME NEW s \in Live, CountsLive, Live' = Live \ {s}, count' = count - 1
  PROVE  CountsLive'
<1>1. Live \in SUBSET Streams
  BY DEF Live
<1>2. IsFiniteSet(Live) /\ Cardinality(Live) \in Nat
  BY <1>1, StreamSets
<1> QED
  BY <1>2, FS_RemoveElement DEF CountsLive

----------------------------------------------------------------------------
(* One lemma per action.                                                   *)

\* A session starts with its metadata in the queue and nothing else.
LEMMA InitIInv == Init => IInv
<1> SUFFICES ASSUME Init PROVE IInv
  OBVIOUS
<1> USE DEF Init
<1>1. Types
  BY DEF Types, LiveStates
<1>2. Queued /\ KnowsFilter /\ FilterHonoured
  BY DEF Queued, KnowsFilter, FilterHonoured
<1>3. Live = {} /\ Waiting = {}
  BY DEF Live, LiveStates, Waiting
<1>4. CountsLive /\ FewWait
  BY <1>3, FS_EmptySet, LimitAssumption DEF CountsLive, FewWait
<1> QED
  BY <1>1, <1>2, <1>4 DEF IInv

\* Handles, tasks and what tasks were told do not change: nor does what is counted.
LEMMA SameHandles ==
  ASSUME IInv, UNCHANGED <<handle, count>>
  PROVE  CountsLive' /\ FewWait'
BY DEF IInv, CountsLive, FewWait, Live, Waiting

\* A stream that is opened was not in the queue.
LEMMA OpenIInv == ASSUME NEW s \in Streams PROVE IInv /\ Open(s) => IInv'
<1> SUFFICES ASSUME IInv, Open(s) PROVE IInv'
  OBVIOUS
<1> USE DEF IInv, Open, limits, Set
<1>1. PICK d \in Dests : dest' = [dest EXCEPT ![s] = d]
  BY Zenon
<1>2. Types'
  BY <1>1 DEF Types
<1>3. /\ Len(queue') = Len(queue) + 1 /\ queue'[Len(queue) + 1] = s
      /\ \A i \in 1 .. Len(queue) : queue'[i] = queue[i] /\ queue[i] # s
      /\ Len(queue) \in Nat
  BY StreamsAssumption DEF Types, Queued
<1>4. task[s] = "none"
  BY DEF Queued
<1>5. Queued' /\ FilterHonoured'
  BY <1>1, <1>3, <1>4, DestsAssumption DEF Types, Queued, FilterHonoured
<1>6. KnowsFilter'
  BY <1>3 DEF Types, KnowsFilter
<1> QED
  BY <1>2, <1>5, <1>6, SameHandles

\* What is left of the queue is the rest of it.
LEMMA TailQueued ==
  ASSUME Types, Queued, queue # <<>>, queue' = Tail(queue)
  PROVE  /\ queue' \in Seq(Streams \cup {"metadata"}) /\ Len(queue) \in Nat \ {0}
         /\ Len(queue') = Len(queue) - 1 /\ Head(queue) = queue[1]
         /\ \A i \in 1 .. Len(queue') : queue'[i] = queue[i + 1] /\ queue'[i] # queue[1]
BY DEF Types, Queued

\* The session knows the filter when the metadata has left the queue.
LEMMA AcceptMetadataIInv == IInv /\ AcceptMetadata => IInv'
<1> SUFFICES ASSUME IInv, AcceptMetadata PROVE IInv'
  OBVIOUS
<1> USE DEF IInv, AcceptMetadata, limits
<1>1. /\ queue' \in Seq(Streams \cup {"metadata"}) /\ Len(queue) \in Nat \ {0}
      /\ Len(queue') = Len(queue) - 1
      /\ \A i \in 1 .. Len(queue') : queue'[i] = queue[i + 1]
  BY TailQueued
<1>2. Types'
  BY <1>1 DEF Types
<1>3. Queued'
  BY <1>1 DEF Types, Queued
<1>4. KnowsFilter' /\ FilterHonoured'
  BY DEF KnowsFilter, FilterHonoured
<1> QED
  BY <1>2, <1>3, <1>4, SameHandles

\* A task starts with the session's filter, which is known: the stream at the head
\* of the queue is not the metadata.
LEMMA AcceptStreamIInv == ASSUME NEW s \in Streams PROVE IInv /\ AcceptStream(s) => IInv'
<1> SUFFICES ASSUME IInv, AcceptStream(s) PROVE IInv'
  OBVIOUS
<1> USE DEF IInv, AcceptStream, Set
<1>1. /\ queue' \in Seq(Streams \cup {"metadata"}) /\ Len(queue) \in Nat \ {0}
      /\ Len(queue') = Len(queue) - 1 /\ queue[1] = s
      /\ \A i \in 1 .. Len(queue') : queue'[i] = queue[i + 1] /\ queue'[i] # s
  BY TailQueued
<1>2. s # "metadata" /\ session # "start" /\ task[s] = "none" /\ handle[s] = "none"
      /\ dest[s] # "none"
  BY <1>1, StreamsAssumption DEF Queued, KnowsFilter
<1>3. Types'
  BY <1>1 DEF Types
<1>4. Queued'
  <2>1. \A i, j \in 1 .. Len(queue') : queue'[i] = queue'[j] => i = j
    BY <1>1 DEF Types, Queued
  <2>2. \A i \in 1 .. Len(queue') : queue'[i] # "metadata" =>
          dest'[queue'[i]] # "none" /\ task'[queue'[i]] = "none"
    BY <1>1 DEF Types, Queued
  <2>3. \A t \in Streams : /\ task'[t] = "none" <=> handle'[t] = "none"
                           /\ dest'[t] = "none" => task'[t] = "none"
    BY <1>2 DEF Types, Queued
  <2> QED
    BY <2>1, <2>2, <2>3 DEF Queued
<1>5. KnowsFilter'
  BY <1>2 DEF Types, KnowsFilter
<1>6. FilterHonoured'
  BY <1>2 DEF Types, FilterHonoured
<1>7. Live' = Live /\ Waiting' = Waiting
  BY <1>2 DEF Types, Live, LiveStates, Waiting
<1>8. CountsLive' /\ FewWait'
  BY <1>7 DEF CountsLive, FewWait
<1> QED
  BY <1>3, <1>4, <1>5, <1>6, <1>8

\* Steps of the limiter alone: a handle that exists goes on existing.
LEMMA LimiterStep ==
  ASSUME IInv, UNCHANGED <<filter, queue, session, dest, told, task>>, count' \in Int,
         handle' \in [Streams -> {"none", "new", "dead"} \cup LiveStates],
         \A t \in Streams : handle[t] = "none" <=> handle'[t] = "none"
  PROVE  Types' /\ Queued' /\ KnowsFilter' /\ FilterHonoured'
<1>1. Types' /\ KnowsFilter' /\ FilterHonoured'
  BY DEF IInv, Types, KnowsFilter, FilterHonoured
<1>2. Queued'
  BY DEF IInv, Queued
<1> QED
  BY <1>1, <1>2

\* fetch_add counts a handle that was not counted.
LEMMA FetchAddIInv == ASSUME NEW s \in Streams PROVE IInv /\ FetchAdd(s) => IInv'
<1> SUFFICES ASSUME IInv, FetchAdd(s) PROVE IInv'
  OBVIOUS
<1> USE DEF IInv, FetchAdd, Set
<1>1. Types' /\ Queued' /\ KnowsFilter' /\ FilterHonoured'
  BY LimiterStep DEF Types, LiveStates
<1>2. s \notin Live /\ Live' = Live \cup {s} /\ Waiting' \subseteq Waiting
  BY DEF Types, Live, LiveStates, Waiting
<1>3. CountsLive'
  BY <1>2, OneMore
<1>4. FewWait'
  BY <1>2, FewerWait
<1> QED
  BY <1>1, <1>3, <1>4

\* A notification moves one handle from waiting to woken, or none.
LEMMA WokenFacts ==
  ASSUME Types, NEW s \in Streams, handle[s] # "waiting",
         NEW v \in {"protected", "dead"}, Woken(Set(handle, s, v))
  PROVE  /\ handle' \in [Streams -> {"none", "new", "dead"} \cup LiveStates]
         /\ handle'[s] = v
         /\ \A t \in Streams : t # s =>
              \/ handle'[t] = handle[t]
              \/ handle[t] = "waiting" /\ handle'[t] = "woken"
<1>1. CASE Waiting = {}
  BY <1>1 DEF Types, Woken, Set, LiveStates
<1>2. CASE Waiting # {}
  <2>1. PICK w \in Waiting : handle' = Set(Set(handle, s, v), w, "woken")
    BY <1>2 DEF Woken
  <2>2. w \in Streams /\ handle[w] = "waiting" /\ w # s
    BY <2>1 DEF Waiting
  <2> QED
    BY <2>1, <2>2 DEF Types, Set, LiveStates
<1> QED
  BY <1>1, <1>2

\* notify_one: no handle comes or goes.
LEMMA NotifyIInv == ASSUME NEW s \in Streams PROVE IInv /\ Notify(s) => IInv'
<1> SUFFICES ASSUME IInv, Notify(s) PROVE IInv'
  OBVIOUS
<1> USE DEF IInv, Notify
<1>1. /\ handle' \in [Streams -> {"none", "new", "dead"} \cup LiveStates]
      /\ handle'[s] = "protected"
      /\ \A t \in Streams : t # s => \/ handle'[t] = handle[t]
                                     \/ handle[t] = "waiting" /\ handle'[t] = "woken"
  BY WokenFacts
<1>2. Types' /\ Queued' /\ KnowsFilter' /\ FilterHonoured'
  BY <1>1, LimiterStep DEF Types
<1>3. Live' = Live /\ Waiting' \subseteq Waiting
  BY <1>1 DEF Live, LiveStates, Waiting
<1>4. CountsLive'
  BY <1>3 DEF CountsLive
<1>5. FewWait'
  BY <1>3, FewerWait
<1> QED
  BY <1>2, <1>4, <1>5

\* A task that moves on or ends was running: it knows its filter.
LEMMA TaskStep ==
  ASSUME IInv, UNCHANGED <<filter, queue, session, dest, told>>, count' \in Int,
         NEW s \in Streams, task[s] # "none",
         NEW to \in {"lookup", "resolved", "copying", "failed", "killed", "done"},
         task' = [task EXCEPT ![s] = to],
         to \in {"lookup", "resolved", "copying"} => ~(filter /\ dest[s] = "listed"),
         handle' \in [Streams -> {"none", "new", "dead"} \cup LiveStates],
         \A t \in Streams : handle[t] = "none" <=> handle'[t] = "none"
  PROVE  Types' /\ Queued' /\ KnowsFilter' /\ FilterHonoured'
<1>1. Types'
  BY Zenon DEF IInv, Types
<1>2. task \in [Streams -> {"none", "resolve", "lookup", "resolved", "copying",
                            "failed", "killed", "done"}]
      /\ \A t \in Streams : task'[t] = "none" <=> task[t] = "none"
  BY DEF IInv, Types
<1>3. Queued'
  <2>1. \A i \in 1 .. Len(queue) : queue[i] # "metadata" => queue[i] \in Streams
    BY DEF IInv, Types
  <2> QED
    BY <1>2, <2>1 DEF IInv, Queued
<1>4. KnowsFilter'
  BY <1>2 DEF IInv, KnowsFilter
<1>5. FilterHonoured'
  BY <1>2 DEF IInv, FilterHonoured
<1> QED
  BY <1>1, <1>3, <1>4, <1>5

\* The handle of a task that is over its limit, or of one that ends, is not
\* counted any more.
LEMMA ExposedIInv == ASSUME NEW s \in Streams PROVE IInv /\ Exposed(s) => IInv'
<1> SUFFICES ASSUME IInv, Exposed(s) PROVE IInv'
  OBVIOUS
<1> USE DEF IInv, Exposed, Set
<1>1. CASE count > task_limit
  <2> USE <1>1 DEF Killed
  <2>1. task[s] # "none" /\ handle[s] \in {"protected", "woken"}
    BY DEF Queued
  <2>2. Types' /\ Queued' /\ KnowsFilter' /\ FilterHonoured'
    BY <2>1, TaskStep DEF Types, LiveStates
  <2>3. s \in Live /\ Live' = Live \ {s} /\ Waiting' \subseteq Waiting
    BY DEF Types, Live, LiveStates, Waiting
  <2>4. CountsLive'
    BY <2>3, OneLess
  <2>5. FewWait'
    BY <2>3, FewerWait
  <2> QED
    BY <2>2, <2>4, <2>5
<1>2. CASE ~(count > task_limit)
  <2> USE <1>2
  <2>1. Types' /\ Queued' /\ KnowsFilter' /\ FilterHonoured'
    BY LimiterStep DEF Types, LiveStates
  <2>2. Live' = Live /\ Waiting' \in SUBSET Live /\ Live \in SUBSET Streams
    BY DEF Types, Live, LiveStates, Waiting
  <2>3. CountsLive'
    BY <2>2 DEF CountsLive
  <2>4. Cardinality(Waiting') <= Cardinality(Live)
        /\ Cardinality(Waiting') \in Nat /\ Cardinality(Live) \in Nat
    BY <2>2, StreamSets
  <2>5. FewWait'
    BY <2>4, LimitAssumption DEF Types, CountsLive, FewWait
  <2> QED
    BY <2>1, <2>3, <2>5
<1> QED
  BY <1>1, <1>2

\* proxy_stream goes on: nothing is counted, and a name on the list does not get
\* past the filter.
LEMMA GoesIInv ==
  ASSUME IInv, UNCHANGED <<filter, queue, session, dest, told>>,
         NEW s \in Streams, task[s] # "none",
         NEW to \in {"lookup", "resolved", "copying"}, Goes(s, to),
         ~(filter /\ dest[s] = "listed")
  PROVE  IInv'
<1>1. Types' /\ Queued' /\ KnowsFilter' /\ FilterHonoured'
  BY Zenon, TaskStep DEF Goes, Set, limits, IInv, Types
<1>2. CountsLive' /\ FewWait'
  BY SameHandles DEF Goes, limits
<1> QED
  BY <1>1, <1>2 DEF IInv

\* proxy_stream ends: its handle is dropped with it, and a notification it had got
\* passes to another.
LEMMA EndsIInv ==
  ASSUME IInv, UNCHANGED <<filter, queue, session, dest, told>>,
         NEW s \in Streams, task[s] # "none", NEW to \in {"failed", "done"}, Ends(s, to)
  PROVE  IInv'
<1> USE DEF IInv
<1>1. handle[s] # "none"
  BY DEF Queued
<1>2. /\ handle' \in [Streams -> {"none", "new", "dead"} \cup LiveStates]
      /\ handle'[s] = "dead"
      /\ \A t \in Streams : t # s => \/ handle'[t] = handle[t]
                                     \/ handle[t] = "waiting" /\ handle'[t] = "woken"
  <2>1. CASE handle[s] = "woken" /\ Waiting # {}
    BY <2>1, WokenFacts DEF Ends, Drop
  <2>2. CASE ~(handle[s] = "woken" /\ Waiting # {})
    BY <2>2 DEF Ends, Drop, Set, Types
  <2> QED
    BY <2>1, <2>2
<1>3. count' = IF s \in Live THEN count - 1 ELSE count
  BY DEF Ends, Drop, Counted, Types, Live, LiveStates
<1>4. Types' /\ Queued' /\ KnowsFilter' /\ FilterHonoured'
  <2>1. count' \in Int
    BY <1>3 DEF Types
  <2>2. \A t \in Streams : handle[t] = "none" <=> handle'[t] = "none"
    BY <1>1, <1>2
  <2>3. task' = [task EXCEPT ![s] = to]
    BY DEF Ends, Set
  <2> QED
    BY Zenon, <1>2, <2>1, <2>2, <2>3, TaskStep
<1>5. Live' = Live \ {s} /\ Waiting' \subseteq Waiting
  BY <1>2 DEF Live, LiveStates, Waiting
<1>6. CountsLive'
  <2>1. CASE s \in Live
    BY <2>1, <1>3, <1>5, OneLess
  <2>2. CASE s \notin Live
    BY <2>2, <1>3, <1>5 DEF CountsLive
  <2> QED
    BY <2>1, <2>2
<1>7. FewWait'
  BY <1>5, FewerWait
<1> QED
  BY <1>4, <1>6, <1>7

\* dns_resolve: a name that goes on has passed check_host under the session's filter.
LEMMA ResolveIInv == ASSUME NEW s \in Streams PROVE IInv /\ Resolve(s) => IInv'
<1> SUFFICES ASSUME IInv, Resolve(s) PROVE IInv'
  OBVIOUS
<1>1. /\ task[s] # "none" /\ UNCHANGED <<filter, queue, session, dest, told>>
      /\ told[s] = IF filter THEN "filter" ELSE "open"
  BY DEF Resolve, IInv, KnowsFilter
<1>2. CASE dest[s] \in {"addr", "local"} /\ Goes(s, "resolved")
  BY <1>1, <1>2, GoesIInv
<1>3. CASE CheckHost(s) /\ Goes(s, "lookup")
  BY <1>1, <1>3, GoesIInv DEF CheckHost
<1>4. CASE Ends(s, "failed")
  BY <1>1, <1>4, EndsIInv
<1> QED
  BY <1>2, <1>3, <1>4 DEF Resolve

\* The cache answers for any session: a name on the list was stopped before.
LEMMA LookupIInv == ASSUME NEW s \in Streams PROVE IInv /\ Lookup(s) => IInv'
<1> SUFFICES ASSUME IInv, Lookup(s) PROVE IInv'
  OBVIOUS
<1>1. /\ task[s] # "none" /\ UNCHANGED <<filter, queue, session, dest, told>>
      /\ ~(filter /\ dest[s] = "listed")
  BY DEF Lookup, IInv, FilterHonoured
<1>2. CASE Goes(s, "resolved")
  BY <1>1, <1>2, GoesIInv
<1>3. CASE Ends(s, "failed")
  BY <1>1, <1>3, EndsIInv
<1> QED
  BY <1>2, <1>3 DEF Lookup

\* The connection is made or not.
LEMMA ConnectIInv == ASSUME NEW s \in Streams PROVE IInv /\ Connect(s) => IInv'
<1> SUFFICES ASSUME IInv, Connect(s) PROVE IInv'
  OBVIOUS
<1>1. /\ task[s] # "none" /\ UNCHANGED <<filter, queue, session, dest, told>>
      /\ ~(filter /\ dest[s] = "listed")
  BY DEF Connect, IInv, FilterHonoured
<1>2. CASE Goes(s, "copying")
  BY <1>1, <1>2, GoesIInv
<1>3. CASE Ends(s, "failed")
  BY <1>1, <1>3, EndsIInv
<1> QED
  BY <1>2, <1>3 DEF Connect, DialTcp, DialUdp

\* A copy that ends takes its handle with it.
LEMMA FinishIInv == ASSUME NEW s \in Streams PROVE IInv /\ Finish(s) => IInv'
BY EndsIInv DEF Finish

\* Other sessions only change the cache.
LEMMA OtherIInv == IInv /\ (OtherSession \/ UNCHANGED vars) => IInv'
<1> SUFFICES ASSUME IInv, OtherSession \/ UNCHANGED vars PROVE IInv'
  OBVIOUS
<1>1. UNCHANGED <<filter, queue, session, dest, told, task, handle, count>>
  BY DEF OtherSession, vars, limits
<1> QED
  BY <1>1 DEF IInv, Types, Queued, KnowsFilter, CountsLive, FewWait, FilterHonoured,
              Live, Waiting

----------------------------------------------------------------------------
\* Every step of the session, its tasks and the limiter keeps the invariant.
THEOREM Inductive == Spec => []IInv
<1>1. IInv /\ [Next]_vars => IInv'
  <2> SUFFICES ASSUME IInv, [Next]_vars PROVE IInv'
    OBVIOUS
  <2>1. CASE AcceptMetadata
    BY <2>1, AcceptMetadataIInv
  <2>2. CASE OtherSession \/ UNCHANGED vars
    BY <2>2, OtherIInv
  <2>3. ASSUME NEW s \in Streams, Open(s) \/ Step(s) \/ Finish(s) PROVE IInv'
    BY <2>3, OpenIInv, AcceptStreamIInv, FetchAddIInv, NotifyIInv, ExposedIInv,
       ResolveIInv, LookupIInv, ConnectIInv, FinishIInv DEF Step
  <2> QED
    BY <2>1, <2>2, <2>3 DEF Next
<1> QED
  BY <1>1, InitIInv, PTL DEF Spec

\* new_task_until_death, for any number of streams and any limit: the tasks above
\* the limit are matched by tasks that have still to test it.
THEOREM ExcessIsPending == Spec => []ExcessPending
<1>1. IInv => ExcessPending
  BY ExcessFromInv DEF IInv
<1> QED
  BY <1>1, Inductive, PTL

\* handle_client and dns_resolve, for any number of streams and destinations: under
\* the filter no stream gets past the check with a name on the list.
THEOREM FilterIsHonoured == Spec => []FilterHonoured
<1>1. IInv => FilterHonoured
  BY DEF IInv
<1> QED
  BY <1>1, Inductive, PTL

----------------------------------------------------------------------------
(* ExitIo.                                                                 *)

CopyStates == {"read", "wait", "write", "done", "panic"}
RateTypes ==
  /\ now \in Nat /\ tokens \in Nat /\ passed \in Nat
  /\ copy \in [Copies -> CopyStates] /\ chunk \in [Copies -> 0 .. READ]

\* The bytes that were charged for and are not yet written, when the copies are at cp and
\* have read ch: every byte of every copy that is about to write.
Charged(cp, ch) == {u \in Copies \X (1 .. READ) : cp[u[1]] = "write" /\ u[2] <= ch[u[1]]}

\* Whatever the limiter gained, it holds, or it was charged for a byte.
Spent == tokens + Cardinality(Charged(copy, chunk)) + passed <= BURST + RATE * now

\* Answers: the holder of the lock is between the two writes exactly when the stream ends
\* with its length.
Pieces == {"length", "body"} \X Queries
DnsTypes ==
  /\ query \in [Queries -> {"asked", "answered", "length", "body", "done"}]
  /\ lock \in Queries \cup {"no one"} /\ out \in Seq(Pieces)
Locked == \A q \in Queries : query[q] \in {"length", "body"} <=> lock = q
Half ==
  /\ \A q \in Queries : query[q] = "body" => Len(out) % 2 = 1 /\ out[Len(out)] = <<"length", q>>
  /\ (\A q \in Queries : query[q] # "body") => Len(out) % 2 = 0

RateInv == RateTypes /\ Spent
DnsInv == DnsTypes /\ Locked /\ Half /\ AnswersWhole
\* Bytes are counted: those of one chunk are as many as its size.
LEMMA ChunkBytes ==
  ASSUME NEW c, NEW n \in Nat
  PROVE  IsFiniteSet({c} \X (1 .. n)) /\ Cardinality({c} \X (1 .. n)) = n
<1>1. IsFiniteSet({c}) /\ Cardinality({c}) = 1
    BY Zenon, FS_Singleton
<1>2. IsFiniteSet(1 .. n) /\ Cardinality(1 .. n) = n
    BY FS_Interval
<1>3. /\ IsFiniteSet({c} \X (1 .. n))
      /\ Cardinality({c} \X (1 .. n)) = Cardinality({c}) * Cardinality(1 .. n)
    BY Zenon, <1>1, <1>2, FS_Product
<1>4. Cardinality({c}) * Cardinality(1 .. n) = n
    BY <1>1, <1>2
<1>5. QED BY <1>3, <1>4

\* What was charged and is not yet written is a finite set.
LEMMA ChargedFinite ==
  ASSUME NEW cp, NEW ch
  PROVE  IsFiniteSet(Charged(cp, ch)) /\ Cardinality(Charged(cp, ch)) \in Nat
<1>1. READ \in Int /\ 1 \in Int
    BY IoAssumption DEF Io!LimiterAssumption
<1>2. IsFiniteSet(1 .. READ)
    BY <1>1, FS_Interval
<1>3. IsFiniteSet(Copies \X (1 .. READ))
    BY Zenon, <1>2, IoAssumption, FS_Product
<1>4. Charged(cp, ch) \subseteq Copies \X (1 .. READ)
    BY DEF Charged
<1>5. QED BY <1>3, <1>4, FS_Subset, FS_CardinalityType

\* A copy that starts to write adds the bytes of its chunk, at most.
LEMMA ChargeMore ==
  ASSUME NEW cp, NEW cq, NEW ch, NEW c \in Copies, ch[c] \in 0 .. READ,
         \A d \in Copies : d # c => cq[d] = cp[d]
  PROVE  Cardinality(Charged(cq, ch)) <= Cardinality(Charged(cp, ch)) + ch[c]
<1> DEFINE S == Charged(cp, ch)
           T == {c} \X (1 .. ch[c])
<1>1. Charged(cq, ch) \subseteq S \cup T
    BY DEF Charged
<1>2. ch[c] \in Nat /\ READ \in Nat
    BY IoAssumption DEF Io!LimiterAssumption
<1>3. IsFiniteSet(T) /\ Cardinality(T) = ch[c]
    BY Zenon, <1>2, ChunkBytes
<1>4. IsFiniteSet(S) /\ Cardinality(S) \in Nat
    BY ChargedFinite
<1> HIDE DEF S, T
<1>5. IsFiniteSet(S \cap T)
    BY <1>3, FS_Subset
<1>6. Cardinality(S \cap T) \in Nat
    BY <1>5, FS_CardinalityType
<1>7. /\ IsFiniteSet(S \cup T)
      /\ Cardinality(S \cup T) = Cardinality(S) + Cardinality(T) - Cardinality(S \cap T)
    BY <1>3, <1>4, FS_Union
<1>8. Cardinality(Charged(cq, ch)) <= Cardinality(S \cup T)
    BY <1>1, <1>7, FS_Subset
<1>9. Cardinality(Charged(cq, ch)) \in Nat
    BY ChargedFinite
<1>10. Cardinality(Charged(cq, ch)) <= Cardinality(S) + ch[c]
    BY <1>2, <1>3, <1>4, <1>6, <1>7, <1>8, <1>9
<1>11. QED BY <1>10 DEF S

\* A copy that has written takes its chunk away.
LEMMA ChargeLess ==
  ASSUME NEW c \in Copies, chunk[c] \in 0 .. READ, copy[c] = "write", copy'[c] # "write",
         \A d \in Copies : d # c => copy'[d] = copy[d] /\ chunk'[d] = chunk[d]
  PROVE  Cardinality(Charged(copy', chunk')) + chunk[c] = Cardinality(Charged(copy, chunk))
<1> DEFINE S == Charged(copy, chunk)
           T == {c} \X (1 .. chunk[c])
<1>1. READ \in Nat /\ chunk[c] \in Nat
    BY IoAssumption DEF Io!LimiterAssumption
<1>2. Charged(copy', chunk') = S \ T /\ S \cap T = T
  <2>1. \A i \in 1 .. chunk[c] : i \in 1 .. READ /\ i <= chunk[c]
      BY <1>1
  <2>2. \A i \in 1 .. READ : i <= chunk[c] => i \in 1 .. chunk[c]
      BY <1>1
  <2>3. T \subseteq S
      BY <2>1 DEF Charged
  <2>4. \A u \in Copies \X (1 .. READ) : u \in Charged(copy', chunk') <=> u \in S /\ u \notin T
      BY <2>2 DEF Charged
  <2>5. Charged(copy', chunk') \subseteq Copies \X (1 .. READ) /\ S \subseteq Copies \X (1 .. READ)
      BY DEF Charged
  <2> HIDE DEF S, T
  <2>6. QED BY <2>3, <2>4, <2>5
<1>3. Cardinality(T) = chunk[c]
    BY Zenon, <1>1, ChunkBytes
<1>4. IsFiniteSet(S) /\ Cardinality(S) \in Nat
    BY ChargedFinite
<1> HIDE DEF S, T
<1>5. Cardinality(S \ T) = Cardinality(S) - Cardinality(S \cap T)
    BY Zenon, <1>4, FS_Difference
<1>6. Cardinality(Charged(copy', chunk')) = Cardinality(S) - chunk[c]
    BY Zenon, <1>2, <1>3, <1>5
<1>7. Cardinality(Charged(copy', chunk')) + chunk[c] = Cardinality(S)
    BY <1>1, <1>4, <1>6
<1>8. QED BY <1>7 DEF S

\* The invariant of the rate limiter holds in the initial states,
LEMMA RateInit == Io!Init => RateInv
<1> SUFFICES ASSUME Io!Init PROVE RateInv
    OBVIOUS
<1>1. READ \in Nat /\ BURST \in Nat /\ RATE \in Nat
    BY IoAssumption DEF Io!LimiterAssumption
<1>2. /\ now = 0 /\ tokens = BURST /\ passed = 0
      /\ copy = [c \in Copies |-> "read"] /\ chunk = [c \in Copies |-> 0]
    BY DEF Io!Init
<1>3. RateTypes
    BY <1>1, <1>2 DEF RateTypes, CopyStates
<1>4. Charged(copy, chunk) = {}
    BY <1>2 DEF Charged
<1>5. Cardinality(Charged(copy, chunk)) = 0
    BY <1>4, FS_EmptySet
<1>6. QED BY <1>1, <1>2, <1>3, <1>5 DEF RateInv, Spent

\* What RateLimiter::wait charges for is no less than what it lets through: the load's
\* multiplier is at least one, and the cap is above what one read gives.
LEMMA ChargeEnough ==
  ASSUME NEW n \in 0 .. READ, NEW load \in Loads
  PROVE  Io!Charge(n, load) \in Nat /\ Io!Charge(n, load) >= n
<1>1. READ \in Nat /\ CAP \in Nat /\ load \in Nat /\ READ <= CAP
    BY IoAssumption DEF Io!LimiterAssumption
<1> DEFINE m == Io!Most(load, 1)
<1>2. m \in Nat /\ m >= 1
    BY <1>1 DEF Io!Most
<1> HIDE DEF m
<1>3. PICK k \in Nat : m = k + 1
    BY <1>2
<1>4. n * m = n * k + n /\ n * k \in Nat
    BY <1>1, <1>3
<1>5. n * m \in Nat /\ n * m >= n
    BY <1>1, <1>4
<1>6. Io!Charge(n, load) = IF n * m < CAP THEN n * m ELSE CAP
    BY DEF Io!Charge, Io!Least, m
<1>7. QED BY <1>1, <1>5, <1>6

\* and every step of a copy or of the clock keeps it.
LEMMA RateStep == RateInv /\ [Io!Next]_(Io!vars) => RateInv'
<1> SUFFICES ASSUME RateInv, [Io!Next]_(Io!vars) PROVE RateInv'
    OBVIOUS
<1> DEFINE K == Cardinality(Charged(copy, chunk))
<1>0. /\ READ \in Nat /\ BURST \in Nat /\ RATE \in Nat
      /\ now \in Nat /\ tokens \in Nat /\ passed \in Nat
      /\ copy \in [Copies -> CopyStates] /\ chunk \in [Copies -> 0 .. READ]
      /\ K \in Nat /\ Cardinality(Charged(copy', chunk')) \in Nat
      /\ tokens + K + passed <= BURST + RATE * now
    BY IoAssumption, ChargedFinite DEF Io!LimiterAssumption, RateInv, RateTypes, Spent
<1>1. ASSUME UNCHANGED <<now, tokens, passed>>, copy' \in [Copies -> CopyStates],
             chunk' \in [Copies -> 0 .. READ], Cardinality(Charged(copy', chunk')) <= K
      PROVE  RateInv'
  <2>1. RateTypes'
      BY <1>0, <1>1 DEF RateTypes
  <2>2. tokens + Cardinality(Charged(copy', chunk')) + passed <= BURST + RATE * now
      BY <1>0, <1>1
  <2>3. QED BY <1>1, <2>1, <2>2 DEF RateInv, Spent
<1>2. CASE UNCHANGED <<now, tokens, passed, copy, chunk>>
    BY <1>0, <1>2 DEF RateInv, RateTypes, Spent
<1>3. CASE Io!Tick
  <2>1. UNCHANGED <<passed, copy, chunk>> /\ now' = now + 1 /\ tokens' = Io!Least(BURST, tokens + RATE)
      BY <1>3 DEF Io!Tick
  <2>2. tokens' \in Nat /\ tokens' <= tokens + RATE
      BY <1>0, <2>1 DEF Io!Least
  <2>3. RATE * now' = RATE * now + RATE /\ RATE * now \in Nat
      BY <1>0, <2>1
  <2>4. tokens' + K + passed <= BURST + RATE * now'
      BY <1>0, <2>2, <2>3
  <2>5. QED BY <1>0, <2>1, <2>2, <2>4 DEF RateInv, RateTypes, Spent
<1>4. ASSUME NEW c \in Copies, Io!Read(c) \/ Io!ReadPacket(c) PROVE RateInv'
  <2>1. copy[c] = "read" /\ UNCHANGED <<now, tokens, passed>>
      BY <1>4 DEF Io!Read, Io!ReadPacket
  <2>2. \/ Io!LoopEnds
        \/ \E n \in 0 .. READ : chunk' = [chunk EXCEPT ![c] = n] /\ copy' = [copy EXCEPT ![c] = "wait"]
      BY <1>0, <1>4 DEF Io!Read, Io!ReadPacket, Io!Set
  <2>3. CASE Io!LoopEnds
    <3>1. copy' = [d \in Copies |-> "done"] /\ chunk' = [d \in Copies |-> 0]
        BY <2>3 DEF Io!LoopEnds
    <3>2. copy' \in [Copies -> CopyStates] /\ chunk' \in [Copies -> 0 .. READ]
        BY <1>0, <3>1 DEF CopyStates
    <3>3. Charged(copy', chunk') = {}
        BY <3>1 DEF Charged
    <3>4. Cardinality(Charged(copy', chunk')) <= K
        BY <1>0, <3>3, FS_EmptySet
    <3>5. QED BY <1>1, <2>1, <3>2, <3>4
  <2>4. ASSUME NEW n \in 0 .. READ, chunk' = [chunk EXCEPT ![c] = n], copy' = [copy EXCEPT ![c] = "wait"]
        PROVE  RateInv'
    <3>1. copy' \in [Copies -> CopyStates] /\ chunk' \in [Copies -> 0 .. READ]
        BY <1>0, <2>4 DEF CopyStates
    <3>2. \A d \in Copies : /\ copy'[d] = "write" <=> copy[d] = "write"
                            /\ copy[d] = "write" => chunk'[d] = chunk[d]
        BY <1>0, <2>1, <2>4
    <3>3. Charged(copy', chunk') = Charged(copy, chunk)
        BY <3>2 DEF Charged
    <3>4. QED BY <1>0, <1>1, <2>1, <3>1, <3>3
  <2>5. QED BY <2>2, <2>3, <2>4
<1>5. ASSUME NEW c \in Copies, Io!Wait(c) PROVE RateInv'
  <2>1. copy[c] = "wait" /\ UNCHANGED <<now, passed, chunk>> /\ chunk[c] \in 0 .. READ
      BY <1>0, <1>5 DEF Io!Wait
  <2>2. PICK load \in Loads :
          LET n == Io!Charge(chunk[c], load) IN
          \/ copy' = [copy EXCEPT ![c] = "panic"] /\ tokens' = tokens
          \/ n <= tokens /\ tokens' = tokens - n /\ copy' = [copy EXCEPT ![c] = "write"]
      BY <1>5 DEF Io!Wait, Io!Set
  <2>3. CASE copy' = [copy EXCEPT ![c] = "panic"] /\ tokens' = tokens
    <3>1. copy' \in [Copies -> CopyStates]
        BY <1>0, <2>3 DEF CopyStates
    <3>2. \A d \in Copies : /\ copy'[d] = "write" <=> copy[d] = "write"
                            /\ copy[d] = "write" => chunk'[d] = chunk[d]
        BY <1>0, <2>1, <2>3
    <3>3. Charged(copy', chunk') = Charged(copy, chunk)
        BY <3>2 DEF Charged
    <3>4. QED BY <1>0, <1>1, <2>1, <2>3, <3>1, <3>3
  <2>4. ASSUME NEW n \in Nat, n >= chunk[c], n <= tokens, tokens' = tokens - n, copy' = [copy EXCEPT ![c] = "write"]
        PROVE  RateInv'
    <3>1. copy' \in [Copies -> CopyStates] /\ \A d \in Copies : d # c => copy'[d] = copy[d]
        BY <1>0, <2>4 DEF CopyStates
    <3>2. Cardinality(Charged(copy', chunk)) <= K + chunk[c]
        BY <2>1, <3>1, ChargeMore
    <3>3. Cardinality(Charged(copy', chunk)) \in Nat
        BY ChargedFinite
    <3>4. tokens' \in Nat /\ tokens' + Cardinality(Charged(copy', chunk)) + passed <= BURST + RATE * now
        BY <1>0, <2>1, <2>4, <3>2, <3>3
    <3>5. QED BY <1>0, <2>1, <3>1, <3>4 DEF RateInv, RateTypes, Spent
  <2>5. QED BY <2>1, <2>2, <2>3, <2>4, ChargeEnough
<1>6. ASSUME NEW c \in Copies, Io!Write(c) PROVE RateInv'
  <2>1. /\ copy[c] = "write" /\ UNCHANGED <<now, tokens>> /\ passed' = passed + chunk[c]
        /\ chunk' = [chunk EXCEPT ![c] = 0] /\ copy' = [copy EXCEPT ![c] = "read"]
      BY <1>6 DEF Io!Write, Io!Set
  <2>2. /\ copy' \in [Copies -> CopyStates] /\ chunk' \in [Copies -> 0 .. READ] /\ chunk[c] \in 0 .. READ
        /\ copy'[c] # "write" /\ \A d \in Copies : d # c => copy'[d] = copy[d] /\ chunk'[d] = chunk[d]
      BY <1>0, <2>1 DEF CopyStates
  <2>3. Cardinality(Charged(copy', chunk')) + chunk[c] = K
      BY Zenon, <2>1, <2>2, ChargeLess
  <2>4. passed' \in Nat /\ tokens + Cardinality(Charged(copy', chunk')) + passed' <= BURST + RATE * now
      BY <1>0, <2>1, <2>2, <2>3
  <2>5. QED BY <1>0, <2>1, <2>2, <2>4 DEF RateInv, RateTypes, Spent
<1>7. ASSUME NEW q \in Queries, Io!Respond(q) \/ Io!Lock(q) \/ Io!WriteLength(q) \/ Io!WriteBody(q)
      PROVE  UNCHANGED <<now, tokens, passed, copy, chunk>>
    BY <1>7 DEF Io!Respond, Io!Lock, Io!WriteLength, Io!WriteBody
<1>8. ASSUME UNCHANGED Io!vars PROVE UNCHANGED <<now, tokens, passed, copy, chunk>>
    BY <1>8 DEF Io!vars
<1>9. QED BY <1>2, <1>3, <1>4, <1>5, <1>6, <1>7, <1>8 DEF Io!Next

\* What the copies of a user let through stays within the burst and the rate, for any
\* number of copies, sizes of reads, loads and times (RateLimiter::wait, io_copy).
THEOREM RateIsKept == Io!Spec => []RateKept
<1>1. RateInv => RateKept
  <2> SUFFICES ASSUME RateInv PROVE RateKept
      OBVIOUS
  <2>1. /\ tokens \in Nat /\ passed \in Nat /\ Cardinality(Charged(copy, chunk)) \in Nat
        /\ tokens + Cardinality(Charged(copy, chunk)) + passed <= BURST + RATE * now
        /\ BURST \in Nat /\ RATE \in Nat /\ now \in Nat
      BY ChargedFinite, IoAssumption DEF RateInv, RateTypes, Spent, Io!LimiterAssumption
  <2>2. QED BY <2>1 DEF RateKept, Io!RateKept
<1>2. QED BY <1>1, RateInit, RateStep, PTL DEF Io!Spec

\* The empty output is a sequence of pieces of even length.
LEMMA EmptyOut == <<>> \in Seq(Pieces) /\ Len(<<>>) = 0 /\ 0 % 2 = 0
  OBVIOUS

\* What a sequence is after one more piece.
LEMMA OutAppend ==
  ASSUME NEW S, NEW s \in Seq(S), NEW e \in S
  PROVE  /\ Append(s, e) \in Seq(S) /\ Len(s) \in Nat /\ Len(Append(s, e)) = Len(s) + 1
         /\ Append(s, e)[Len(s) + 1] = e
         /\ \A i \in 1 .. Len(s) : Append(s, e)[i] = s[i]
  OBVIOUS

\* The invariant of the DNS answers holds in the initial states,
LEMMA DnsInit == Io!Init => DnsInv
<1> SUFFICES ASSUME Io!Init PROVE DnsInv
    OBVIOUS
<1>1. query = [q \in Queries |-> "asked"] /\ lock = "no one" /\ out = <<>> /\ "no one" \notin Queries
    BY IoAssumption DEF Io!Init, Io!NoOne
<1>2. DnsTypes
    BY Zenon, <1>1, EmptyOut DEF DnsTypes
<1>3. Locked
    BY <1>1 DEF Locked
<1>4. Half
    BY <1>1, EmptyOut DEF Half
<1>5. AnswersWhole
  <2>1. 1 .. Len(out) = {}
    <3>1. Len(out) = 0
        BY <1>1
    <3>2. QED BY <3>1
  <2>2. QED BY Zenon, <2>1 DEF AnswersWhole, Io!AnswersWhole
<1>6. QED BY <1>2, <1>3, <1>4, <1>5 DEF DnsInv

\* and every step of a query keeps it.
LEMMA DnsStep == DnsInv /\ [Io!Next]_(Io!vars) => DnsInv'
<1> SUFFICES ASSUME DnsInv, [Io!Next]_(Io!vars) PROVE DnsInv'
    OBVIOUS
<1> USE DEF DnsInv
<1>0. "no one" \notin Queries
    BY IoAssumption DEF Io!NoOne
<1>1. CASE UNCHANGED <<query, lock, out>>
    BY <1>1 DEF DnsTypes, Locked, Half, AnswersWhole, Io!AnswersWhole
<1>2. ASSUME NEW q \in Queries, Io!Respond(q) PROVE DnsInv'
  <2>1. PICK st \in {"answered", "done"} : query' = [query EXCEPT ![q] = st]
      BY <1>2 DEF Io!Respond, Io!Set
  <2>2. query[q] = "asked" /\ UNCHANGED <<lock, out>>
      BY <1>2 DEF Io!Respond
  <2>3. DnsTypes'
      BY <2>1, <2>2 DEF DnsTypes
  <2>4. \A r \in Queries : \/ query'[r] = query[r]
                           \/ query'[r] \notin {"length", "body"} /\ query[r] \notin {"length", "body"}
      BY <2>1, <2>2 DEF DnsTypes
  <2>5. Locked' /\ Half'
      BY <2>2, <2>4 DEF Locked, Half
  <2>6. QED BY <2>2, <2>3, <2>5 DEF AnswersWhole, Io!AnswersWhole
<1>3. ASSUME NEW q \in Queries, Io!Lock(q) PROVE DnsInv'
  <2>1. query[q] = "answered" /\ lock = "no one" /\ lock' = q /\ query' = [query EXCEPT ![q] = "length"] /\ out' = out
      BY <1>3 DEF Io!Lock, Io!Set, Io!NoOne
  <2>2. DnsTypes'
      BY <2>1 DEF DnsTypes
  <2>3. query'[q] = "length" /\ \A r \in Queries : r # q => query'[r] = query[r]
      BY <2>1 DEF DnsTypes
  <2>4. Locked' /\ Half'
      BY <1>0, <2>1, <2>3 DEF Locked, Half
  <2>5. QED BY <2>1, <2>2, <2>4 DEF AnswersWhole, Io!AnswersWhole
<1>4. ASSUME NEW q \in Queries, Io!WriteLength(q) PROVE DnsInv'
  <2>1. /\ query[q] = "length" /\ lock' = lock /\ query' = [query EXCEPT ![q] = "body"]
        /\ out' = Append(out, <<"length", q>>)
      BY <1>4 DEF Io!WriteLength, Io!Set
  <2>2. <<"length", q>> \in Pieces /\ out \in Seq(Pieces)
      BY DEF Pieces, DnsTypes
  <2>3. DnsTypes'
    <3>1. out' \in Seq(Pieces)
        BY <2>1, <2>2, OutAppend
    <3>2. QED BY Zenon, <2>1, <3>1 DEF DnsTypes
  <2>4. query'[q] = "body" /\ \A r \in Queries : r # q => query'[r] = query[r]
      BY <2>1 DEF DnsTypes
  <2>5. lock = q /\ \A r \in Queries : query[r] = "body" => FALSE
      BY <2>1 DEF Locked
  <2>6. /\ Len(out) \in Nat /\ Len(out) % 2 = 0 /\ Len(out') = Len(out) + 1
        /\ out'[Len(out) + 1] = <<"length", q>> /\ \A i \in 1 .. Len(out) : out'[i] = out[i]
    <3>1. Len(out) % 2 = 0
        BY <2>5 DEF Half
    <3> DEFINE e == <<"length", q>>
    <3>2. e \in Pieces /\ out' = Append(out, e)
        BY <2>1, <2>2
    <3> HIDE DEF e
    <3>3. /\ Len(out) \in Nat /\ Len(out') = Len(out) + 1
          /\ out'[Len(out) + 1] = e /\ \A i \in 1 .. Len(out) : out'[i] = out[i]
        BY <2>2, <3>2, OutAppend
    <3>4. QED BY <3>1, <3>3 DEF e
  <2>7. Len(out') % 2 = 1
      BY <2>6
  <2>8. Locked' /\ Half'
      BY <2>1, <2>4, <2>5, <2>6, <2>7 DEF Locked, Half
  <2>9. AnswersWhole'
    <3> SUFFICES ASSUME NEW n \in 1 .. Len(out')
                 PROVE  IF n % 2 = 1 THEN out'[n][1] = "length" ELSE out'[n] = <<"body", out'[n - 1][2]>>
        BY DEF AnswersWhole, Io!AnswersWhole
    <3>1. CASE n = Len(out) + 1
        BY <2>6, <2>7, <3>1
    <3>2. CASE n \in 1 .. Len(out)
      <4>1. n % 2 # 1 => n - 1 \in 1 .. Len(out)
          BY <2>6, <3>2
      <4>2. QED BY <2>6, <3>2, <4>1 DEF AnswersWhole, Io!AnswersWhole
    <3>3. QED BY <2>6, <3>1, <3>2
  <2>10. QED BY <2>3, <2>8, <2>9
<1>5. ASSUME NEW q \in Queries, Io!WriteBody(q) PROVE DnsInv'
  <2>1. /\ query[q] = "body" /\ lock' = "no one" /\ query' = [query EXCEPT ![q] = "done"]
        /\ out' = Append(out, <<"body", q>>)
      BY <1>5 DEF Io!WriteBody, Io!Set, Io!NoOne
  <2>2. <<"body", q>> \in Pieces /\ out \in Seq(Pieces)
      BY DEF Pieces, DnsTypes
  <2>3. DnsTypes'
    <3>1. out' \in Seq(Pieces)
        BY <2>1, <2>2, OutAppend
    <3>2. QED BY Zenon, <2>1, <3>1 DEF DnsTypes
  <2>4. query'[q] = "done" /\ \A r \in Queries : r # q => query'[r] = query[r]
      BY <2>1 DEF DnsTypes
  <2>5. \A r \in Queries : r # q => query[r] \notin {"length", "body"}
      BY <2>1 DEF Locked
  <2>6. /\ Len(out) \in Nat /\ Len(out) % 2 = 1 /\ Len(out') = Len(out) + 1 /\ out[Len(out)] = <<"length", q>>
        /\ out'[Len(out) + 1] = <<"body", q>> /\ \A i \in 1 .. Len(out) : out'[i] = out[i]
    <3>1. Len(out) % 2 = 1 /\ out[Len(out)] = <<"length", q>>
        BY <2>1 DEF Half
    <3> DEFINE e == <<"body", q>>
    <3>2. e \in Pieces /\ out' = Append(out, e)
        BY <2>1, <2>2
    <3> HIDE DEF e
    <3>3. /\ Len(out) \in Nat /\ Len(out') = Len(out) + 1
          /\ out'[Len(out) + 1] = e /\ \A i \in 1 .. Len(out) : out'[i] = out[i]
        BY <2>2, <3>2, OutAppend
    <3>4. QED BY <3>1, <3>3 DEF e
  <2>7. Len(out') % 2 = 0 /\ Len(out) \in 1 .. Len(out)
      BY <2>6
  <2>8. Locked' /\ Half'
      BY <1>0, <2>1, <2>4, <2>5, <2>7 DEF Locked, Half
  <2>9. AnswersWhole'
    <3> SUFFICES ASSUME NEW n \in 1 .. Len(out')
                 PROVE  IF n % 2 = 1 THEN out'[n][1] = "length" ELSE out'[n] = <<"body", out'[n - 1][2]>>
        BY DEF AnswersWhole, Io!AnswersWhole
    <3>1. CASE n = Len(out) + 1
      <4>1. n % 2 = 0 /\ n - 1 = Len(out)
          BY <2>6, <2>7, <3>1
      <4>2. out'[n] = <<"body", q>> /\ out'[n - 1] = <<"length", q>>
          BY <2>6, <2>7, <3>1, <4>1
      <4>3. QED BY <4>1, <4>2
    <3>2. CASE n \in 1 .. Len(out)
      <4>1. n % 2 # 1 => n - 1 \in 1 .. Len(out)
          BY <2>6, <3>2
      <4>2. QED BY <2>6, <3>2, <4>1 DEF AnswersWhole, Io!AnswersWhole
    <3>3. QED BY <2>6, <3>1, <3>2
  <2>10. QED BY <2>3, <2>8, <2>9
<1>6. ASSUME NEW c \in Copies, Io!Read(c) \/ Io!ReadPacket(c) \/ Io!Wait(c) \/ Io!Write(c)
      PROVE  UNCHANGED <<query, lock, out>>
    BY Zenon, <1>6 DEF Io!Read, Io!ReadPacket, Io!Wait, Io!Write, Io!dns
<1>7. ASSUME Io!Tick \/ UNCHANGED Io!vars PROVE UNCHANGED <<query, lock, out>>
    BY <1>7 DEF Io!Tick, Io!vars, Io!dns
<1>8. QED BY <1>1, <1>2, <1>3, <1>4, <1>5, <1>6, <1>7 DEF Io!Next

\* However many tasks answer DNS queries on one stream, length and body of an answer
\* are written next to each other (proxy_dns).
THEOREM AnswersAreWhole == Io!Spec => []AnswersWhole
<1>1. DnsInv => AnswersWhole
    BY DEF DnsInv
<1>2. QED BY <1>1, DnsInit, DnsStep, PTL DEF Io!Spec
=============================================================================
