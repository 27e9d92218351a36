-------------------------------- MODULE B2e --------------------------------
(***************************************************************************)
(* A bridge forwarding connections to an exit (geph5-bridge/src/           *)
(* listen_forward.rs) and the exit's end of the bridge-to-exit sessions    *)
(* (geph5-exit/src/listen.rs, listen/b2e_process.rs).  One forwarded port, *)
(* hence one piece of B2eMetadata: the bridge's pool holds one worker task *)
(* per multiplexed session, the exit one task per session and, in          *)
(* b2e_table, one process per metadata.                                    *)
(***************************************************************************)
EXTENDS Naturals, Sequences, FiniteSets

CONSTANTS Conns,      \* the client connections that will arrive
          Workers,    \* tasks of the pool (32 in the code)
          QUEUE,      \* capacity of the pool's request channel (100)
          MaxProcs,   \* bound: processes the exit creates for the metadata
          MaxFaults   \* bound: session deaths, bad metadata, ends of the listener's task

VARIABLES listener,   \* handle_one_listener: "accept", "asn" or "dead"
          conn,       \* per connection, where its task is
          count,      \* COUNT
          pool,       \* whether POOLS holds the pool
          queue,      \* the pool's request channel
          worker,     \* per worker: its place, its session, its request
          mux,        \* per session: "none", "up" or "dead"
          inbox,      \* per session: streams opened and not yet accepted
          task,       \* per session: the exit's task, its stream, its process
          table,      \* the process b2e_table holds, 0 when it has no entry
          proc,       \* per process: its place and its channel(1)
          served,     \* connections handed to handle_client
          conntest,   \* whether the metadata's protocol has a ConnTest layer
          deaths, lost, faults

bridge == <<listener, conn, count, pool, queue, worker, deaths, lost>>
exit == <<task, table, proc, served>>
vars == <<listener, conn, count, pool, queue, worker, mux, inbox, task, table,
          proc, served, conntest, deaths, lost, faults>>

Muxes == 1 .. (Cardinality(Workers) + MaxFaults)
Procs == 1 .. MaxProcs
NoConn == "none"
Fault == faults > 0 /\ faults' = faults - 1
Fine == UNCHANGED faults

Init ==
    /\ listener = "accept"
    /\ conn = [c \in Conns |-> "new"]
    /\ count = 0
    /\ pool = FALSE
    /\ queue = <<>>
    /\ worker = [w \in Workers |-> [at |-> "none", mux |-> 0, req |-> NoConn]]
    /\ mux = [m \in Muxes |-> "none"]
    /\ inbox = [m \in Muxes |-> <<>>]
    /\ task = [m \in Muxes |-> [at |-> "none", stream |-> NoConn, proc |-> 0]]
    /\ table = 0
    /\ proc = [p \in Procs |-> [at |-> "none", chan |-> <<>>]]
    /\ served = {}
    /\ conntest \in BOOLEAN
    /\ deaths = 0 /\ lost = 0 /\ faults = MaxFaults

----------------------------------------------------------------------------
(* The bridge: one forwarded port *)

\* listener.accept(), then COUNT is incremented before the lookup is awaited.
Accept(c) ==
    /\ listener = "accept" /\ conn[c] = "new"
    /\ conn' = [conn EXCEPT ![c] = "asn"]
    /\ count' = count + 1
    /\ listener' = "asn" /\ Fine
    /\ UNCHANGED <<pool, queue, worker, deaths, lost, mux, inbox, exit, conntest>>

\* ip_to_asn answers: the connection's task is spawned, with its scope guard.
LookupOk(c) ==
    /\ conn[c] = "asn" /\ listener = "asn"
    /\ conn' = [conn EXCEPT ![c] = "pool"]
    /\ listener' = "accept" /\ Fine
    /\ UNCHANGED <<count, pool, queue, worker, deaths, lost, mux, inbox, exit, conntest>>

\* ip_to_asn fails, or the MAPPING entry that owns the task is dropped: the
\* listener's task is over, and COUNT keeps what it added.
ListenerEnds ==
    /\ listener # "dead" /\ Fault
    /\ listener' = "dead"
    /\ conn' = [c \in Conns |-> IF conn[c] = "asn" THEN "leaked" ELSE conn[c]]
    /\ UNCHANGED <<count, pool, queue, worker, deaths, lost, mux, inbox, exit, conntest>>

\* The connection's task is over: the guard decrements COUNT.
Ends(c, how) ==
    /\ conn' = [conn EXCEPT ![c] = how]
    /\ count' = count - 1

\* dial_pooled finds the pool, or creates it with its tasks started.
FindPool(c) ==
    /\ conn[c] = "pool"
    /\ pool' = TRUE
    /\ worker' = IF pool THEN worker
                 ELSE [w \in Workers |-> [worker[w] EXCEPT !.at = "dial"]]
    /\ conn' = [conn EXCEPT ![c] = "enter"] /\ Fine
    /\ UNCHANGED <<listener, count, queue, deaths, lost, mux, inbox, exit, conntest>>

\* connect() gives up at once when live_count is zero, as it is in a new pool.
LiveCount == Cardinality({w \in Workers : worker[w].at \in {"recv", "open"}})
Enter(c) ==
    /\ conn[c] = "enter"
    /\ IF LiveCount = 0 THEN Ends(c, "failed")
       ELSE conn' = [conn EXCEPT ![c] = "connect"] /\ UNCHANGED count
    /\ Fine
    /\ UNCHANGED <<listener, pool, queue, worker, deaths, lost, mux, inbox, exit, conntest>>

\* connect() puts its request in the channel and waits for the answer.
Request(c) ==
    /\ conn[c] = "connect" /\ Len(queue) < QUEUE
    /\ queue' = Append(queue, c)
    /\ conn' = [conn EXCEPT ![c] = "wait"] /\ Fine
    /\ UNCHANGED <<listener, count, pool, worker, deaths, lost, mux, inbox, exit, conntest>>

\* The second that dial_pooled gives connect() is over.  A request already in
\* the channel, or in the hands of a worker, stays there.
TimedOut(c) ==
    /\ conn[c] \in {"connect", "wait"}
    /\ Ends(c, "failed") /\ Fine
    /\ UNCHANGED <<listener, pool, queue, worker, deaths, lost, mux, inbox, exit, conntest>>

\* io_copy_with_timeout: one direction ends, times out or fails.
Close(c) ==
    /\ conn[c] = "open"
    /\ Ends(c, "done") /\ Fine
    /\ UNCHANGED <<listener, pool, queue, worker, deaths, lost, mux, inbox, exit, conntest>>

----------------------------------------------------------------------------
(* The bridge: a worker of the pool *)

\* The dial succeeds: a session, its exit-side task and a live worker.
DialOk(w) ==
    /\ worker[w].at = "dial"
    /\ \E m \in Muxes :
        /\ mux[m] = "none" /\ \A n \in 1 .. (m - 1) : mux[n] # "none"
        /\ mux' = [mux EXCEPT ![m] = "up"]
        /\ worker' = [worker EXCEPT ![w] = [at |-> "recv", mux |-> m, req |-> NoConn]]
        /\ task' = [task EXCEPT ![m].at = "accept"]
    /\ Fine
    /\ UNCHANGED <<listener, conn, count, pool, queue, deaths, lost, inbox,
                   table, proc, served, conntest>>

\* The exit can stay unreachable for good.
DialFails(w) ==
    /\ worker[w].at = "dial" /\ Fine
    /\ worker' = [worker EXCEPT ![w].at = "sleep"]
    /\ UNCHANGED <<listener, conn, count, pool, queue, deaths, lost, mux, inbox,
                   exit, conntest>>

Wake(w) ==
    /\ worker[w].at = "sleep"
    /\ worker' = [worker EXCEPT ![w].at = "dial"] /\ Fine
    /\ UNCHANGED <<listener, conn, count, pool, queue, deaths, lost, mux, inbox,
                   exit, conntest>>

\* remote_once: the next request of the channel.
Take(w) ==
    /\ worker[w].at = "recv" /\ queue # <<>>
    /\ worker' = [worker EXCEPT ![w].at = "open", ![w].req = Head(queue)]
    /\ queue' = Tail(queue) /\ Fine
    /\ UNCHANGED <<listener, conn, count, pool, deaths, lost, mux, inbox, exit, conntest>>

\* mux.open() gives a stream; nobody takes it when the asker has timed out.
OpenOk(w) ==
    LET c == worker[w].req  m == worker[w].mux IN
    /\ worker[w].at = "open" /\ mux[m] = "up"
    /\ inbox' = [inbox EXCEPT ![m] = Append(@, c)]
    /\ conn' = IF conn[c] = "wait" THEN [conn EXCEPT ![c] = "open"] ELSE conn
    /\ worker' = [worker EXCEPT ![w].at = "recv", ![w].req = NoConn]
    /\ Fine
    /\ UNCHANGED <<listener, count, pool, queue, deaths, lost, mux, exit, conntest>>

\* mux.open() fails: the request dies with the worker's session, the worker
\* is no longer live and sleeps before it dials again.
Lose(w) ==
    LET c == worker[w].req IN
    /\ IF conn[c] = "wait" THEN Ends(c, "failed") ELSE UNCHANGED <<conn, count>>
    /\ lost' = lost + 1
OpenErrStays(w) ==
    /\ worker[w].at = "open" /\ mux[worker[w].mux] = "dead"
    /\ Lose(w)
    /\ worker' = [worker EXCEPT ![w].at = "recv", ![w].req = NoConn]
    /\ Fine
    /\ UNCHANGED <<listener, pool, queue, deaths, mux, inbox, exit, conntest>>
OpenErr(w) ==
    /\ worker[w].at = "open" /\ mux[worker[w].mux] = "dead"
    /\ Lose(w)
    /\ worker' = [worker EXCEPT ![w] = [at |-> "sleep", mux |-> 0, req |-> NoConn]]
    /\ Fine
    /\ UNCHANGED <<listener, pool, queue, deaths, mux, inbox, exit, conntest>>

\* A session dies; what it carried is gone.  The worker does not notice: it
\* waits for a request, not for its session.
MuxDies(m) ==
    /\ mux[m] = "up" /\ Fault
    /\ mux' = [mux EXCEPT ![m] = "dead"]
    /\ inbox' = [inbox EXCEPT ![m] = <<>>]
    /\ deaths' = deaths + 1
    /\ UNCHANGED <<listener, conn, count, pool, queue, worker, lost, exit, conntest>>

----------------------------------------------------------------------------
(* The exit *)

\* b2e_loop: the next stream of a session, and the table's process for its
\* metadata, created when the table has none.
NewProc(p) == proc[p].at = "none" /\ \A q \in 1 .. (p - 1) : proc[q].at # "none"
AcceptStream(m) ==
    /\ task[m].at = "accept" /\ inbox[m] # <<>>
    /\ inbox' = [inbox EXCEPT ![m] = Tail(@)]
    /\ \E p \in Procs :
        /\ IF table = 0 THEN NewProc(p) ELSE p = table
        /\ table' = p
        /\ proc' = [proc EXCEPT ![p].at = "run"]
        /\ task' = [task EXCEPT ![m] = [at |-> "send", stream |-> Head(inbox[m]), proc |-> p]]
    /\ Fine /\ UNCHANGED <<bridge, mux, served, conntest>>

\* A ? of the session's task: the task is over and drops b2e_mux, which closes
\* the session under the bridge's worker, with all that it carried.
Abandon(m) ==
    /\ task' = [task EXCEPT ![m] = [at |-> "ended", stream |-> NoConn, proc |-> 0]]
    /\ mux' = [mux EXCEPT ![m] = "dead"]
    /\ inbox' = [inbox EXCEPT ![m] = <<>>]
    /\ deaths' = IF mux[m] = "dead" THEN deaths ELSE deaths + 1
    /\ UNCHANGED <<listener, conn, count, pool, queue, worker, lost, table, proc,
                   served, conntest>>

\* The metadata of the next stream does not parse.
BadMetadata(m) ==
    /\ task[m].at = "accept" /\ inbox[m] # <<>> /\ Fault
    /\ Abandon(m)

\* send.send(lala): waits for room; fails when the receiver is gone.
SendStream(m) ==
    LET p == task[m].proc IN
    /\ task[m].at = "send"
    /\ \/ /\ proc[p].at = "run" /\ Len(proc[p].chan) < 1
          /\ proc' = [proc EXCEPT ![p].chan = Append(@, task[m].stream)]
          /\ task' = [task EXCEPT ![m] = [at |-> "accept", stream |-> NoConn, proc |-> 0]]
          /\ UNCHANGED <<bridge, mux, inbox, table, served, conntest>>
       \/ proc[p].at = "ended" /\ Abandon(m)
    /\ Fine

\* b2e_mux.accept() fails once the session is dead.
TaskEnds(m) ==
    /\ task[m].at = "accept" /\ mux[m] = "dead"
    /\ Abandon(m) /\ Fine

\* The table's entry has been idle for 1200 s: the table drops its sender.
Evict ==
    /\ table # 0 /\ \E p \in Procs : proc[p].at = "none"
    /\ table' = 0
    /\ Fine /\ UNCHANGED <<bridge, mux, inbox, task, proc, served, conntest>>

\* ReceiverListener.accept, the protocol's layers above it and b2e_inner,
\* which hands the stream to handle_client.
Serve(p) ==
    /\ proc[p].at = "run" /\ proc[p].chan # <<>>
    /\ served' = served \cup {Head(proc[p].chan)}
    /\ proc' = [proc EXCEPT ![p].chan = Tail(@)]
    /\ Fine /\ UNCHANGED <<bridge, mux, inbox, task, table, conntest>>

\* The senders of a process: the table's, and the clones that tasks hold.
Senders(p) == {m \in Muxes : task[m].at = "send" /\ task[m].proc = p}

\* The channel is empty and has no sender: accept fails.  b2e_inner ends with
\* it, except under a ConnTest layer, whose task retries every second.
ProcEndsEarly(p) ==
    /\ proc[p].at = "run" /\ proc[p].chan = <<>> /\ table # p
    /\ ~conntest
    /\ proc' = [proc EXCEPT ![p].at = "ended"]
    /\ Fine /\ UNCHANGED <<bridge, mux, inbox, task, table, served, conntest>>
ProcEnds(p) ==
    /\ proc[p].at = "run" /\ proc[p].chan = <<>> /\ table # p /\ Senders(p) = {}
    /\ ~conntest
    /\ proc' = [proc EXCEPT ![p].at = "ended"]
    /\ Fine /\ UNCHANGED <<bridge, mux, inbox, task, table, served, conntest>>

----------------------------------------------------------------------------
Connection(c) == LookupOk(c) \/ FindPool(c) \/ Enter(c) \/ Request(c) \/ TimedOut(c)
Worker(w) == DialOk(w) \/ Wake(w) \/ Take(w) \/ OpenOk(w) \/ OpenErr(w)
Session(m) == AcceptStream(m) \/ BadMetadata(m) \/ SendStream(m) \/ TaskEnds(m)
Process(p) == Serve(p) \/ ProcEnds(p)

Next ==
    \/ \E c \in Conns : Accept(c) \/ Connection(c) \/ Close(c)
    \/ ListenerEnds \/ Evict
    \/ \E w \in Workers : Worker(w) \/ DialFails(w)
    \/ \E m \in Muxes : MuxDies(m) \/ Session(m)
    \/ \E p \in Procs : Process(p)

Spec == Init /\ [][Next]_vars

----------------------------------------------------------------------------
\* A worker learns that its session is dead from the request it then loses,
\* and each dead session costs at most that one request (remote_once).
LossBounded == lost <= deaths

\* A session's task never finds the channel it sends to closed: whenever b2e_table
\* evicts an entry, the sender that the task holds keeps the process alive until the
\* stream is in, so that no eviction costs a live session (b2e_loop, ReceiverListener).
SessionSurvives == \A m \in Muxes : task[m].at = "send" => proc[task[m].proc].at = "run"
============================================================================
