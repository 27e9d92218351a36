---------------------------- MODULE ExitStreams ----------------------------
(***************************************************************************)
(* The streams of one session at an exit: the session's metadata and the   *)
(* streams after it in the order the multiplexer gives them                *)
(* (geph5-client/src/client_inner.rs proxy_loop, geph5-exit/src/listen.rs  *)
(* handle_client), what proxy_stream does up to the connection (proxy.rs,  *)
(* dns.rs, allow.rs) and the limit on the number of tasks (tasklimit.rs).  *)
(***************************************************************************)
EXTENDS Integers, Sequences, FiniteSets

CONSTANTS Streams,     \* streams the client opens
          task_limit,  \* configuration of the exit
          free_port_whitelist,  \* as well: ports for Free users
          is_free,     \* the level of the session is Free
          Dests        \* destinations asked for

\* The metadata travels in a stream of its own, before those counted here.
ASSUME StreamsAssumption == IsFiniteSet(Streams) /\ "metadata" \notin Streams
ASSUME DestsAssumption == Dests \subseteq {"addr", "local", "name", "listed"}
ASSUME LimitAssumption == task_limit \in Nat

VARIABLES filter,    \* whether the client asked for the filter
          queue,     \* streams opened and not yet accepted, in order
          session,   \* handle_client: "start", or the filter it was told of
          dest,      \* per stream: its destination
          told,      \* per stream: the filter it runs under
          task,      \* per stream: where proxy_stream stands
          handle,    \* per stream: where new_task_until_death stands
          count,     \* TASK_COUNT
          cached     \* names in the cache of dns_resolve

vars == <<filter, queue, session, dest, told, task, handle, count, cached>>
limits == <<handle, count>>

Set(f, s, v) == [f EXCEPT ![s] = v]

Init ==
  /\ filter \in BOOLEAN
  /\ queue = <<"metadata">> /\ session = "start"
  /\ dest = [s \in Streams |-> "none"]
  /\ told = [s \in Streams |-> "none"]
  /\ task = [s \in Streams |-> "none"]
  /\ handle = [s \in Streams |-> "none"]
  /\ count = 0 /\ cached = {}

\* proxy_loop opens streams once the one with the metadata is open.
Open(s) ==
  /\ dest[s] = "none"
  /\ \E d \in Dests : dest' = Set(dest, s, d)
  /\ queue' = Append(queue, s)
  /\ UNCHANGED <<filter, session, told, task, limits, cached>>

\* handle_client accepts: metadata that is JSON is the session's, anything else is
\* a stream, spawned with the metadata known by then.
AcceptMetadata ==
  /\ queue # <<>> /\ Head(queue) = "metadata"
  /\ queue' = Tail(queue)
  /\ session' = IF filter THEN "filter" ELSE "open"
  /\ UNCHANGED <<filter, dest, told, task, limits, cached>>
AcceptStream(s) ==
  /\ queue # <<>> /\ Head(queue) = s
  /\ queue' = Tail(queue)
  /\ told' = Set(told, s, session) /\ task' = Set(task, s, "resolve")
  /\ handle' = Set(handle, s, "new")
  /\ UNCHANGED <<filter, session, dest, count, cached>>

----------------------------------------------------------------------------
(* new_task_until_death.  TASK_KILLER is an async_event::Event: wait_until *)
(* tests, registers and tests again; a notification whose waiter goes away *)
(* passes to another.                                                      *)

\* The future is dropped: with its stream, or having failed with "too many tasks".
Waiting == {s \in Streams : handle[s] = "waiting"}
Woken(h) ==
  IF Waiting = {} THEN handle' = h ELSE \E w \in Waiting : handle' = Set(h, w, "woken")
Counted(s) == handle[s] \notin {"none", "new", "dead"}
Drop(s) ==
  /\ count' = IF Counted(s) THEN count - 1 ELSE count
  /\ LET h == Set(handle, s, "dead") IN
     IF handle[s] = "woken" /\ Waiting # {} THEN Woken(h) ELSE handle' = h

FetchAdd(s) ==
  /\ handle[s] = "new" /\ count' = count + 1
  /\ handle' = Set(handle, s, "counted")
  /\ UNCHANGED <<filter, queue, session, dest, told, task, cached>>

\* notify_one, then the protected period.
Notify(s) ==
  /\ handle[s] = "counted"
  /\ Woken(Set(handle, s, "protected"))
  /\ UNCHANGED <<filter, queue, session, dest, told, task, count, cached>>

Killed(s) ==
  /\ count' = count - 1 /\ handle' = Set(handle, s, "dead")
  /\ task' = Set(task, s, "killed")

\* The protected period is over, or a notification arrived: the predicate decides.
ExposedUntested(s) ==
  /\ handle[s] \in {"protected", "woken"}
  /\ IF handle[s] = "woken" /\ count > task_limit THEN Killed(s)
     ELSE handle' = Set(handle, s, "waiting") /\ UNCHANGED <<task, count>>
  /\ UNCHANGED <<filter, queue, session, dest, told, cached>>
ExposedIgnored(s) ==
  /\ handle[s] \in {"protected", "woken"}
  /\ IF count > task_limit THEN UNCHANGED <<handle, task, count>>
     ELSE handle' = Set(handle, s, "waiting") /\ UNCHANGED <<task, count>>
  /\ UNCHANGED <<filter, queue, session, dest, told, cached>>
Exposed(s) ==
  /\ handle[s] \in {"protected", "woken"}
  /\ IF count > task_limit THEN Killed(s)
     ELSE handle' = Set(handle, s, "waiting") /\ UNCHANGED <<task, count>>
  /\ UNCHANGED <<filter, queue, session, dest, told, cached>>

----------------------------------------------------------------------------
(* proxy_stream.                                                           *)

Ends(s, how) == task' = Set(task, s, how) /\ Drop(s)
Goes(s, on) == task' = Set(task, s, on) /\ UNCHANGED limits

\* check_host, against lists that were downloaded; a list that cannot be fetched or
\* parsed is an error as well.
CheckHost(s) == ~(told[s] = "filter" /\ dest[s] = "listed")

\* dns_resolve: an address is taken as it is; a name is checked against the filter
\* and then looked up.
ResolveCachedFirst(s) ==
  /\ task[s] = "resolve"
  /\ \/ dest[s] \in {"addr", "local"} /\ Goes(s, "resolved")
     \/ dest[s] \in {"name", "listed"} /\ (CheckHost(s) \/ dest[s] \in cached) /\ Goes(s, "lookup")
     \/ dest[s] \in {"name", "listed"} /\ Ends(s, "failed")
  /\ UNCHANGED <<filter, queue, session, dest, told, cached>>
Resolve(s) ==
  /\ task[s] = "resolve"
  /\ \/ dest[s] \in {"addr", "local"} /\ Goes(s, "resolved")
     \/ dest[s] \in {"name", "listed"} /\ CheckHost(s) /\ Goes(s, "lookup")
     \/ dest[s] \in {"name", "listed"} /\ Ends(s, "failed")
  /\ UNCHANGED <<filter, queue, session, dest, told, cached>>

\* In the cache that all sessions share; else upstream, where the answer for A
\* decides and the one for AAAA is not used.  No address at all is an error.
Lookup(s) ==
  /\ task[s] = "lookup"
  /\ \/ Goes(s, "resolved") /\ cached' = cached \cup {dest[s]}
     \/ dest[s] \notin cached /\ Ends(s, "failed") /\ UNCHANGED cached
  /\ UNCHANGED <<filter, queue, session, dest, told>>

\* Another session, without the filter, looks up the same names; entries expire.
OtherSession ==
  /\ cached' \in {{}, {"name", "listed"}} /\ cached' # cached
  /\ UNCHANGED <<filter, queue, session, dest, told, task, limits>>

\* proxy_allowed, which every address has to pass.
Ports == {53, 443, 1024}
ProxyAllowed(d, port) == (is_free => port \in free_port_whitelist) /\ d # "local"

\* EyeballDialer::connect tries the addresses half a second apart, and has five
\* seconds.
DialTcp(s) == Goes(s, "copying") \/ Ends(s, "failed")

\* Port 53 is served by proxy_dns, port 443 is refused, and so is a destination
\* without an IPv4 address; any other has a socket of its own.
DialUdp(s, port) == (port # 443 /\ Goes(s, "copying")) \/ Ends(s, "failed")

\* The protocol is in the stream's metadata; an unknown one fails.
Connect(s) ==
  /\ task[s] = "resolved"
  /\ \E port \in Ports : IF ProxyAllowed(dest[s], port) THEN DialTcp(s) \/ DialUdp(s, port)
                         ELSE Ends(s, "failed")
  /\ UNCHANGED <<filter, queue, session, dest, told, cached>>

\* The copies end.
Finish(s) ==
  /\ task[s] = "copying" /\ Ends(s, "done")
  /\ UNCHANGED <<filter, queue, session, dest, told, cached>>

----------------------------------------------------------------------------
Step(s) ==
  AcceptStream(s) \/ FetchAdd(s) \/ Notify(s) \/ Exposed(s) \/ Resolve(s) \/ Lookup(s)
  \/ Connect(s)

Next ==
  \/ AcceptMetadata \/ OtherSession
  \/ \E s \in Streams : Open(s) \/ Step(s) \/ Finish(s)

\* Tasks are scheduled and timers fire; a copy may go on for ever.
Fairness ==
  /\ WF_vars(AcceptMetadata)
  /\ \A s \in Streams : /\ WF_vars(AcceptStream(s)) /\ WF_vars(FetchAdd(s))
                        /\ WF_vars(Notify(s)) /\ WF_vars(Exposed(s))

Spec == Init /\ [][Next]_vars /\ Fairness

----------------------------------------------------------------------------
\* A session that asked for the filter never has a connection to a name on the
\* list: its metadata is known before its first stream runs, and a name some other
\* session had resolved is checked all the same (handle_client, dns_resolve).
FilterHonoured ==
  filter => \A s \in Streams : ~(dest[s] = "listed" /\ task[s] \in {"lookup", "resolved", "copying"})

\* Tasks over the limit are matched by tasks that are yet to test the limit: no
\* excess goes unnoticed, whatever arrives, ends or is woken meanwhile.
ExcessPending ==
  count > task_limit =>
    count - task_limit <= Cardinality({s \in Streams :
                                         handle[s] \in {"counted", "protected", "woken"}})

\* So the exit comes back to its limit, though every stream might live for ever.
BackToLimit == (count > task_limit) ~> (count <= task_limit)
=============================================================================
