------------------------------- MODULE Exits --------------------------------
(***************************************************************************)
(* How a client learns of exits.  Each exit registers with the broker      *)
(* again and again (geph5-exit/src/broker.rs), the broker keeps a row that *)
(* expires and a cached list (geph5-broker/src/rpc_impl.rs, database.rs),  *)
(* and the client picks an exit and caches the dialer it makes from it     *)
(* (geph5-client/src/get_dialer.rs).                                       *)
(*                                                                         *)
(* Time is discrete.  Rows, lists and dialers carry their age and the age  *)
(* of the registration they stem from.  The loops keep their periods, as   *)
(* timers do: a tick waits for a loop that is due.                         *)
(***************************************************************************)
EXTENDS Integers

CONSTANTS
  Exits,       \* the exits
  FreeExits,   \* those in a country for which is_plus_exit is false
  Slow,        \* those whose clock may be more than 30 s behind the broker's
  Wanted,      \* those that match the client's ExitConstraint
  Levels,      \* levels of the client's connect token: "Plus", "Free"
  ROW,         \* lifetime of a row, 10 s
  GC,          \* period of database_gc_loop, 1 to 2 s
  LIST,        \* lifetime of EXIT_CACHE, 10 s
  DIALER,      \* how long a dialer is recent, 10 s
  MaxFaults    \* bound: crashes, failed or late calls and clock jumps

ASSUME TimesAssumption == ROW \in Nat /\ GC \in Nat /\ LIST \in Nat /\ DIALER \in Nat

VARIABLES
  faults,      \* how many of them are to come
  up,          \* per exit: whether it runs
  behind,      \* the exits whose clock is that far behind
  loop,        \* per exit: where broker_loop stands in this tick
  accept,      \* per exit: ACCEPT_FREE
  row,         \* table exits_new: the age of each exit's row
  gc,          \* ticks since database_gc_loop began its round
  missed,      \* history: ticks lost to rounds that failed or were late
  list,        \* EXIT_CACHE: its age, and the age of each registration in it
  level,       \* the client's level
  pick,        \* what get_dialer_inner has picked so far
  dialer       \* the value in get_dialer's mutex; stale is history: a
               \* refresh failed or the clock was set back since

exit_vars == <<up, behind, loop, accept>>
broker_vars == <<row, gc, missed, list>>
client_vars == <<level, pick, dialer>>
vars == <<faults, exit_vars, broker_vars, client_vars>>

\* The age of what is not there.
Gone == -9
NoList == [age |-> Gone, reg |-> [e \in Exits |-> Gone]]
NoPick == [exit |-> "none", age |-> Gone, reg |-> Gone]
NoDialer == [exit |-> "none", age |-> Gone, reg |-> Gone, stale |-> FALSE]

Fault == faults > 0 /\ faults' = faults - 1
Fine == UNCHANGED faults

Init ==
  /\ faults = MaxFaults
  /\ behind \in SUBSET Slow
  /\ up = [e \in Exits |-> FALSE] /\ loop = [e \in Exits |-> "ask"]
  /\ accept = [e \in Exits |-> FALSE]
  /\ row = [e \in Exits |-> Gone] /\ gc = 0 /\ missed = 0 /\ list = NoList
  /\ level \in Levels /\ pick = NoPick /\ dialer = NoDialer

----------------------------------------------------------------------------
(* The broker.                                                             *)

\* What get_all_exits returns: the cached list, or the table as it is.
AllExits == IF list # NoList THEN list ELSE [age |-> 0, reg |-> row]

\* get_exits and get_free_exits.
Offered(l) == {e \in Exits : AllExits.reg[e] # Gone /\ (l = "Free" => e \in FreeExits)}

CacheList == list' = AllExits

\* The row is inserted, or replaced.
Upserted(e) == [row EXCEPT ![e] = 0]

\* insert_exit: a descriptor that has expired is refused.  The row of another is
\* new whatever its expiry says.
InsertExit(e) == row' = IF e \in behind THEN row ELSE Upserted(e)

DeleteLate ==
  /\ row' = [e \in Exits |-> IF row[e] > ROW + GC THEN Gone ELSE row[e]]
  /\ gc' = 0

\* One round of database_gc_loop.
DeleteExpired ==
  /\ row' = [e \in Exits |-> IF row[e] > ROW THEN Gone ELSE row[e]]
  /\ gc' = 0

Collect ==
  /\ gc > 0 /\ DeleteExpired
  /\ UNCHANGED <<faults, missed, exit_vars, list, client_vars>>

\* The delete fails: the loop ends, is spawned again and sleeps first.
CollectFails ==
  /\ gc > 0 /\ Fault
  /\ gc' = 0 /\ missed' = missed + gc
  /\ UNCHANGED <<row, exit_vars, list, client_vars>>

----------------------------------------------------------------------------
(* An exit.                                                                *)

\* The exit is started; broker_loop has found the address.
Boot(e) ==
  /\ ~up[e] /\ up' = [up EXCEPT ![e] = TRUE]
  /\ loop' = [loop EXCEPT ![e] = "ask"] /\ accept' = [accept EXCEPT ![e] = FALSE]
  /\ UNCHANGED <<faults, behind, broker_vars, client_vars>>

Crash(e) ==
  /\ Fault /\ up[e] /\ up' = [up EXCEPT ![e] = FALSE]
  /\ accept' = [accept EXCEPT ![e] = FALSE]
  /\ UNCHANGED <<behind, loop, broker_vars, client_vars>>

AskFreeOnce(e) ==
  /\ up[e] /\ loop[e] = "ask"
  /\ loop' = [loop EXCEPT ![e] = "insert"] /\ CacheList
  /\ accept' = [accept EXCEPT ![e] = @ /\ e \in Offered("Free")]
  /\ UNCHANGED <<faults, up, behind, row, gc, missed, client_vars>>

\* broker_loop learns from get_free_exits whether to accept Free clients (its
\* free_ratelimit is not 0), and sends its statistics.
AskFree(e) ==
  /\ up[e] /\ loop[e] = "ask"
  /\ loop' = [loop EXCEPT ![e] = "insert"] /\ CacheList
  /\ accept' = [accept EXCEPT ![e] = e \in Offered("Free")]
  /\ UNCHANGED <<faults, up, behind, row, gc, missed, client_vars>>

\* broker_loop uploads its descriptor.
Register(e) ==
  /\ up[e] /\ loop[e] = "insert"
  /\ loop' = [loop EXCEPT ![e] = "sleep"] /\ InsertExit(e)
  /\ UNCHANGED <<faults, up, behind, accept, gc, missed, list, client_vars>>

\* A call of broker_loop fails, and the rest of the round is skipped.
UploadFails(e) ==
  /\ Fault /\ up[e] /\ loop[e] \in {"ask", "insert"}
  /\ loop' = [loop EXCEPT ![e] = "sleep"]
  /\ UNCHANGED <<up, behind, accept, broker_vars, client_vars>>

----------------------------------------------------------------------------
(* The client.  get_dialer holds its mutex, so one call runs at a time.    *)

Recent == dialer.age \in 0 .. DIALER - 1

\* pick_exit_with_constraint: any exit that matches may have the least key.
Matching == Offered(level) \cap Wanted

\* The list is fetched for the level of the token, and an exit picked; the
\* client then asks for the routes to it.
PickExit ==
  /\ pick = NoPick
  /\ dialer # NoDialer => dialer.age >= DIALER
  /\ CacheList
  /\ \E e \in Matching :
       pick' = [exit |-> e, age |-> 0, reg |-> AllExits.reg[e]]
  /\ UNCHANGED <<faults, exit_vars, row, gc, missed, level, dialer>>

NewDialerOnce ==
  /\ pick # NoPick
  /\ dialer' = [exit |-> IF dialer # NoDialer THEN dialer.exit ELSE pick.exit,
                age |-> 0, reg |-> pick.reg, stale |-> FALSE]
  /\ pick' = NoPick
  /\ UNCHANGED <<faults, exit_vars, broker_vars, level>>

\* The routes are there; the new dialer is cached.
NewDialer ==
  /\ pick # NoPick
  /\ dialer' = [exit |-> pick.exit, age |-> 0, reg |-> pick.reg, stale |-> FALSE]
  /\ pick' = NoPick
  /\ UNCHANGED <<faults, exit_vars, broker_vars, level>>

\* No exit matches, a call fails or the five seconds are over: the old dialer
\* is returned, if there is one, and keeps its age.
KeepStale ==
  /\ \/ pick # NoPick /\ Fault
     \/ /\ pick = NoPick /\ (dialer # NoDialer => dialer.age >= DIALER)
        /\ IF Matching = {} THEN Fine ELSE Fault
  /\ dialer' = IF dialer = NoDialer THEN NoDialer ELSE [dialer EXCEPT !.stale = TRUE]
  /\ pick' = NoPick
  /\ UNCHANGED <<exit_vars, broker_vars, level>>

\* The client's clock is set back: elapsed() is an error until it has caught
\* up, and get_dialer returns that error.
ClockBack ==
  /\ Fault /\ dialer # NoDialer /\ pick = NoPick
  /\ dialer' = [dialer EXCEPT !.age = -1, !.stale = TRUE]
  /\ UNCHANGED <<exit_vars, broker_vars, level, pick>>

----------------------------------------------------------------------------
(* Time.                                                                   *)

Oldest == ROW + GC + LIST + DIALER + 2 + MaxFaults * (GC + 1)
Older(a) == IF a \in {Gone, Oldest} THEN a ELSE a + 1
OlderRow(r) == [e \in Exits |-> Older(r[e])]

\* A round of garbage collection is due once its sleep is over, and is late when
\* the delete hangs.
TickGc ==
  \/ gc < GC /\ gc' = gc + 1 /\ Fine /\ UNCHANGED missed
  \/ gc = GC /\ missed' = missed + 1 /\ Fault /\ UNCHANGED gc

Tick ==
  /\ TickGc /\ \A e \in Exits : up[e] => loop[e] = "sleep"
  /\ pick.age < 1
  /\ loop' = [e \in Exits |-> "ask"]
  /\ row' = OlderRow(row)
  /\ list' = IF list.age \in {Gone, LIST} THEN NoList
             ELSE [age |-> list.age + 1, reg |-> OlderRow(list.reg)]
  /\ dialer' = IF dialer = NoDialer THEN NoDialer
               ELSE [dialer EXCEPT !.age = IF @ > DIALER THEN @ ELSE @ + 1,
                                   !.reg = Older(@)]
  /\ pick' = IF pick = NoPick THEN NoPick ELSE [pick EXCEPT !.age = @ + 1, !.reg = Older(@)]
  /\ UNCHANGED <<up, behind, accept, level>>

Exit(e) == AskFree(e) \/ Register(e) \/ UploadFails(e)
GetDialer == PickExit \/ NewDialer \/ KeepStale

Next ==
  \/ Tick \/ Collect \/ CollectFails \/ GetDialer \/ ClockBack
  \/ \E e \in Exits : Boot(e) \/ Crash(e) \/ Exit(e)

\* Timers fire, and the sessions of the client ask for a dialer again and
\* again.  Nothing makes an exit start.
Fairness ==
  /\ WF_vars(Tick) /\ WF_vars(Collect) /\ WF_vars(GetDialer)
  /\ \A e \in Exits : WF_vars(AskFree(e) \/ Register(e))

Spec == Init /\ [][Next]_vars /\ Fairness

----------------------------------------------------------------------------

\* How old the registrations can be that the broker offers: the lifetimes of a
\* row, of a round of garbage collection and of the list, and what was lost to
\* rounds that failed or were late.
Age == ROW + GC + LIST + missed

\* The broker offers no exit whose last registration is older than that.  A dialer
\* the client takes for recent is older by its own lifetime and the time it took to
\* make it, unless a refresh failed or the clock was set back (database_gc_loop,
\* get_all_exits, get_dialer).
RecentlyAlive ==
  /\ \A e \in Offered("Plus") : AllExits.reg[e] <= Age
  /\ Recent /\ ~dialer.stale => dialer.reg <= Age + DIALER + 1

\* An exit in a free country that stays up ends up accepting Free clients for
\* good, although it learns this from a list that it must be on first; unless its
\* clock is behind, and the broker takes none of its descriptors.
FreeAccepted ==
  \A e \in FreeExits : <>[]up[e] => e \in behind \/ <>[]accept[e]

\* Once exits stay as they are and one that the client may use is up and takes part
\* in the directory, the client's dialer is for an exit that is up, whatever was cached.
DialerRecovers ==
  (\E e \in Wanted : e \notin behind /\ (level = "Free" => e \in FreeExits) /\ <>[]up[e])
    => <>[](dialer # NoDialer /\ up[dialer.exit])
=============================================================================
