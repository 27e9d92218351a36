---------------------------- MODULE ClientSession ---------------------------
(***************************************************************************)
(* The session instances of a client and the queue of connection requests  *)
(* that they share (binaries/geph5-client/src/client_inner.rs).            *)
(*                                                                         *)
(* open_conn puts a request with the sender of a oneshot channel into the  *)
(* queue and waits for the stream.  Every instance dials, authenticates,   *)
(* and serves requests over its mux until that dies; a task per request    *)
(* opens the stream, and puts the request back if the mux is dead.         *)
(***************************************************************************)
EXTENDS Naturals, Sequences

CONSTANTS
  Requests,    \* calls of open_conn, each made once
  Instances    \* the CONCURRENCY instances

VARIABLES
  caller,      \* per request: where open_conn stands
  queue,       \* CONN_REQ_CHAN
  tasks,       \* per instance: requests its nursery is opening
  inst,        \* per instance: where its loop stands
  alive        \* per instance: whether its mux is

vars == <<caller, queue, tasks, inst, alive>>

Set(f, x, v) == [f EXCEPT ![x] = v]

Init ==
  /\ caller = [r \in Requests |-> "idle"] /\ queue = <<>>
  /\ tasks = [i \in Instances |-> {}]
  /\ inst = [i \in Instances |-> "dialing"]
  /\ alive = [i \in Instances |-> FALSE]

----------------------------------------------------------------------------
(* open_conn.                                                              *)

OpenConn(r) ==
  /\ caller[r] = "idle"
  /\ caller' = Set(caller, r, "waiting")
  /\ queue' = Append(queue, r)
  /\ UNCHANGED <<tasks, inst, alive>>

\* The caller is dropped with its receiver; the request stays where it is.
Abandon(r) ==
  /\ caller[r] = "waiting"
  /\ caller' = Set(caller, r, "gone")
  /\ UNCHANGED <<queue, tasks, inst, alive>>

----------------------------------------------------------------------------
(* An instance.                                                            *)

\* The dialer, the dial and the authentication succeed within 30 seconds, and
\* a mux is made.
Dialed(i) ==
  /\ inst[i] = "dialing"
  /\ inst' = Set(inst, i, "registering") /\ alive' = Set(alive, i, TRUE)
  /\ UNCHANGED <<caller, queue, tasks>>

DialFails(i) ==
  /\ inst[i] = "dialing"
  /\ inst' = Set(inst, i, "sleeping")
  /\ UNCHANGED <<caller, queue, tasks, alive>>

Retry(i) ==
  /\ inst[i] = "sleeping"
  /\ inst' = Set(inst, i, "dialing")
  /\ UNCHANGED <<caller, queue, tasks, alive>>

\* The stream for the session metadata is opened, or its error ends the try.
Register(i) ==
  /\ inst[i] = "registering"
  /\ inst' = Set(inst, i, IF alive[i] THEN "serving" ELSE "sleeping")
  /\ UNCHANGED <<caller, queue, tasks, alive>>

\* The loop takes a request and spawns a task for it.  It may do so although
\* the mux has died, until wait_until_dead is polled.
Recv(i) ==
  /\ inst[i] = "serving" /\ queue # <<>>
  /\ tasks' = [tasks EXCEPT ![i] = @ \cup {Head(queue)}]
  /\ queue' = Tail(queue)
  /\ UNCHANGED <<caller, inst, alive>>

\* The stream is open; send_back fails if nobody waits.
Opened(i, r) ==
  /\ r \in tasks[i] /\ alive[i]
  /\ tasks' = [tasks EXCEPT ![i] = @ \ {r}]
  /\ caller' = IF caller[r] = "waiting" THEN Set(caller, r, "stream") ELSE caller
  /\ UNCHANGED <<queue, inst, alive>>

\* The mux is dead: the request goes back to the queue.
HotPotato(i, r) ==
  /\ r \in tasks[i] /\ ~alive[i]
  /\ tasks' = [tasks EXCEPT ![i] = @ \ {r}]
  /\ queue' = Append(queue, r)
  /\ UNCHANGED <<caller, inst, alive>>

MuxDies(i) ==
  /\ alive[i]
  /\ alive' = Set(alive, i, FALSE)
  /\ UNCHANGED <<caller, queue, tasks, inst>>

LoopRunsOn(i) == inst[i] = "serving" /\ ~alive[i] /\ UNCHANGED vars

\* wait_until_dead ends proxy_loop: the nursery is dropped with the tasks that
\* are left, and with them the senders of their requests.
LoopEnds(i) ==
  /\ inst[i] = "serving" /\ ~alive[i]
  /\ inst' = Set(inst, i, "sleeping")
  /\ tasks' = Set(tasks, i, {})
  /\ caller' = [r \in Requests |->
                  IF r \in tasks[i] /\ caller[r] = "waiting" THEN "error"
                  ELSE caller[r]]
  /\ UNCHANGED <<queue, alive>>

Steps(i) ==
  \/ Dialed(i) \/ DialFails(i) \/ Retry(i) \/ Register(i) \/ Recv(i)
  \/ (\E r \in Requests : Opened(i, r) \/ HotPotato(i, r))
  \/ MuxDies(i) \/ LoopEnds(i)

Next ==
  \/ \E r \in Requests : OpenConn(r) \/ Abandon(r)
  \/ \E i \in Instances : Steps(i)

\* Tasks are polled and timers fire; the receivers of the queue take turns
\* (async_channel wakes the one that waits longest); and some instance can in
\* the end connect and stay connected.
Fairness ==
  /\ \A i \in Instances :
       /\ WF_vars(Dialed(i) \/ DialFails(i)) /\ WF_vars(Retry(i))
       /\ WF_vars(Register(i)) /\ SF_vars(Recv(i)) /\ WF_vars(LoopEnds(i))
       /\ \A r \in Requests : WF_vars(Opened(i, r)) /\ WF_vars(HotPotato(i, r))
  /\ \E i \in Instances : <>[][~(MuxDies(i) \/ DialFails(i))]_vars

Spec == Init /\ [][Next]_vars
FairSpec == Spec /\ Fairness

----------------------------------------------------------------------------

\* open_conn returns: a request that meets dead muxes is handed on until it
\* is served or fails.
Answered == \A r \in Requests : caller[r] = "waiting" ~> caller[r] # "waiting"
=============================================================================
