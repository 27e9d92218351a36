------------------------------- MODULE Picomux ------------------------------
(***************************************************************************)
(* Two picomux ends over one transport (libraries/picomux/src/lib.rs):     *)
(* opening, accepting and closing streams, pings, and the death of a mux.  *)
(*                                                                         *)
(* Stream ids are random u32 that are not in the opener's table; the model *)
(* takes them to be distinct, so the id of a stream is its opener and the  *)
(* call of `open' that made it.  What travels inside a stream is in        *)
(* PicomuxStream and PicomuxFlow, the queue in front of the wire in        *)
(* PicomuxOutgoing: here a wire holds queued and written frames alike.     *)
(***************************************************************************)
EXTENDS Naturals, Sequences, FiniteSets

CONSTANTS
  Peers,       \* the two ends
  Calls,       \* names of the calls of open
  Opens,       \* bound: which end makes which call
  AcceptCap,   \* capacity of the queue of accepted streams
  SlowLink     \* whether a working link may be slower than the ping timeout

ASSUME MuxAssumption ==
  /\ \E a, b \in Peers : a # b /\ Peers = {a, b}
  /\ Opens \subseteq Peers \X Calls
  /\ AcceptCap \in Nat \ {0} /\ SlowLink \in BOOLEAN

VARIABLES
  link,        \* whether the transport still carries bytes
  mux,         \* per end: "up", or why picomux_inner ended
  wire,        \* per end: frames on their way from this end
  call,        \* per end and call: the state of open
  table,       \* per end: ids in the buffer table
  fins,        \* per end: ids with a FIN in their buffer
  accepted,    \* per end: the queue of accepted streams
  held,        \* per end: streams the application holds
  liveq,       \* per end: messages waiting in the liveness channel
  armed,       \* per end: whether the ping loop has a LivenessConfig
  pinger,      \* per end: where the ping loop stands
  pongs        \* per end: messages waiting in the pong channel

vars == <<link, mux, wire, call, table, fins, accepted, held, liveq, armed,
          pinger, pongs>>
streamVars == <<table, fins, accepted, held>>
pingVars == <<liveq, armed, pinger, pongs>>

Ids == Opens

Peer(p) == CHOOSE q \in Peers : q # p
Up(p) == mux[p] = "up"
Set(f, p, v) == [f EXCEPT ![p] = v]
Elems(s) == {s[i] : i \in 1 .. Len(s)}

Init ==
  /\ link = "up" /\ mux = [p \in Peers |-> "up"]
  /\ wire = [p \in Peers |-> <<>>]
  /\ call = [p \in Peers |-> [c \in Calls |-> "idle"]]
  /\ table = [p \in Peers |-> {}] /\ fins = [p \in Peers |-> {}]
  /\ accepted = [p \in Peers |-> <<>>] /\ held = [p \in Peers |-> {}]
  /\ liveq = [p \in Peers |-> 1] /\ armed = [p \in Peers |-> FALSE]
  /\ pinger = [p \in Peers |-> "idle"] /\ pongs = [p \in Peers |-> 0]

\* The wires after p enqueued a frame; a dead link swallows it.
Sent(p, f) ==
  IF link = "up" THEN [wire EXCEPT ![p] = Append(@, f)] ELSE wire

\* picomux_inner of p ends: its tasks and its table are dropped, and with the
\* writer task whatever part of its queue was not written.
Die(p, why) ==
  /\ mux' = Set(mux, p, why)
  /\ \E n \in 0 .. Len(wire[p]) : wire' = [wire EXCEPT ![p] = SubSeq(@, 1, n)]
  /\ table' = Set(table, p, {}) /\ fins' = Set(fins, p, {})
  /\ accepted' = Set(accepted, p, <<>>) /\ held' = Set(held, p, {})
  /\ liveq' = Set(liveq, p, 0) /\ armed' = Set(armed, p, FALSE)
  /\ pinger' = Set(pinger, p, "idle") /\ pongs' = Set(pongs, p, 0)

----------------------------------------------------------------------------
(* open                                                                    *)

\* The call first forces a ping, then sends its request.
OpenCall(p, c) ==
  /\ <<p, c>> \in Opens /\ call[p][c] = "idle"
  /\ call' = [call EXCEPT ![p][c] = "requesting"]
  /\ liveq' = IF Up(p) THEN [liveq EXCEPT ![p] = @ + 1] ELSE liveq
  /\ UNCHANGED <<link, mux, wire, armed, pinger, pongs, streamVars>>

\* The request channel has room for one.
OpenSend(p, c) ==
  /\ call[p][c] = "requesting" /\ Up(p)
  /\ \A d \in Calls : call[p][d] \notin {"queued", "abandoned"}
  /\ call' = [call EXCEPT ![p][c] = "queued"]
  /\ UNCHANGED <<link, mux, wire, streamVars, pingVars>>

\* The caller gives up; a request already in the channel stays there.
OpenCancel(p, c) ==
  /\ call[p][c] \in {"requesting", "queued"}
  /\ call' = [call EXCEPT ![p][c] = IF @ = "queued" /\ Up(p) THEN "abandoned"
                                    ELSE "cancelled"]
  /\ UNCHANGED <<link, mux, wire, streamVars, pingVars>>

\* open_req_loop: SYN, table entry, and the stream for the caller.  If the
\* caller is gone the stream is dropped at once.
OpenHandle(p, c) ==
  /\ call[p][c] \in {"queued", "abandoned"} /\ Up(p)
  /\ wire' = Sent(p, <<"SYN", <<p, c>>>>)
  /\ table' = [table EXCEPT ![p] = @ \cup {<<p, c>>}]
  /\ IF call[p][c] = "queued"
     THEN /\ call' = [call EXCEPT ![p][c] = "opened"]
          /\ held' = [held EXCEPT ![p] = @ \cup {<<p, c>>}]
     ELSE call' = [call EXCEPT ![p][c] = "cancelled"] /\ UNCHANGED held
  /\ UNCHANGED <<link, mux, fins, accepted, pingVars>>

\* open races its answer against wait_error.
OpenError(p, c) ==
  /\ call[p][c] \in {"requesting", "queued"} /\ ~Up(p)
  /\ call' = [call EXCEPT ![p][c] = "error"]
  /\ UNCHANGED <<link, mux, wire, streamVars, pingVars>>

----------------------------------------------------------------------------
(* Streams.                                                                *)

\* accept.
Accept(p) ==
  /\ accepted[p] # <<>> /\ Up(p)
  /\ held' = [held EXCEPT ![p] = @ \cup {Head(accepted[p])}]
  /\ accepted' = [accepted EXCEPT ![p] = Tail(@)]
  /\ UNCHANGED <<link, mux, wire, call, table, fins, pingVars>>

\* The application drops a stream.
CloseStream(p, id) ==
  /\ id \in held[p]
  /\ held' = [held EXCEPT ![p] = @ \ {id}]
  /\ UNCHANGED <<link, mux, wire, call, table, fins, accepted, pingVars>>

EndWithoutFin(p, id) ==
  /\ id \in table[p]
  /\ id \in fins[p] \/ id \notin held[p] \cup Elems(accepted[p])
  /\ table' = [table EXCEPT ![p] = @ \ {id}]
  /\ fins' = [fins EXCEPT ![p] = @ \ {id}]
  /\ UNCHANGED <<link, mux, wire, call, accepted, held, pingVars>>

\* The task of a stream ends when the stream was dropped or a FIN was
\* received: the table entry goes, and a FIN is sent.
EndStream(p, id) ==
  /\ id \in table[p]
  /\ id \in fins[p] \/ id \notin held[p] \cup Elems(accepted[p])
  /\ table' = [table EXCEPT ![p] = @ \ {id}]
  /\ fins' = [fins EXCEPT ![p] = @ \ {id}]
  /\ wire' = Sent(p, <<"FIN", id>>)
  /\ UNCHANGED <<link, mux, call, accepted, held, pingVars>>

----------------------------------------------------------------------------
(* The reader loop of p, for a frame f from q.                             *)

\* The wires after the reader took a frame from q and p enqueued g.
Replied(p, q, g) == [wire EXCEPT ![q] = Tail(@), ![p] = Append(@, g)]
Taken(q) == [wire EXCEPT ![q] = Tail(@)]

\* A stream that finds the accept queue full is dropped again, so that its
\* task answers with a FIN.
HandleSyn(p, q, id) ==
  IF id \in table[p]
  THEN Die(p, "duplicate SYN")
  ELSE /\ wire' = Taken(q)
       /\ table' = [table EXCEPT ![p] = @ \cup {id}]
       /\ accepted' = IF Len(accepted[p]) < AcceptCap
                      THEN [accepted EXCEPT ![p] = Append(@, id)]
                      ELSE accepted
       /\ UNCHANGED <<mux, fins, held, pingVars>>

HandleFin(p, q, id) ==
  /\ wire' = Taken(q)
  /\ fins' = IF id \in table[p] THEN [fins EXCEPT ![p] = @ \cup {id}] ELSE fins
  /\ UNCHANGED <<mux, table, accepted, held, pingVars>>

AnswerNever(p, q) ==
  /\ wire' = Taken(q)
  /\ UNCHANGED <<mux, streamVars, pingVars>>

HandlePing(p, q) ==
  /\ wire' = Replied(p, q, <<"PONG", <<>>>>)
  /\ UNCHANGED <<mux, streamVars, pingVars>>

HandlePong(p, q) ==
  /\ wire' = Taken(q)
  /\ pongs' = [pongs EXCEPT ![p] = @ + 1]
  /\ UNCHANGED <<mux, streamVars, liveq, armed, pinger>>

Handle(p) ==
  LET q == Peer(p)
      f == Head(wire[q])
  IN
  /\ Up(p) /\ wire[q] # <<>>
  /\ \/ f[1] = "SYN" /\ HandleSyn(p, q, f[2])
     \/ f[1] = "FIN" /\ HandleFin(p, q, f[2])
     \/ f[1] = "PING" /\ HandlePing(p, q)
     \/ f[1] = "PONG" /\ HandlePong(p, q)
  /\ UNCHANGED <<link, call>>

\* Reading fails: the other end is gone and closed the transport.
ReadEof(p) ==
  /\ Up(p) /\ ~Up(Peer(p)) /\ wire[Peer(p)] = <<>> /\ link = "up"
  /\ Die(p, "broken pipe")
  /\ UNCHANGED <<link, call>>

----------------------------------------------------------------------------
(* ping_loop                                                               *)

PingOnDemandOnly(p) ==
  /\ Up(p) /\ pinger[p] = "idle"
  /\ liveq[p] > 0
  /\ liveq' = [liveq EXCEPT ![p] = @ - 1]
  /\ armed' = Set(armed, p, TRUE)
  /\ pinger' = Set(pinger, p, "awaiting")
  /\ wire' = Sent(p, <<"PING", <<>>>>)
  /\ UNCHANGED <<link, mux, call, pongs, streamVars>>

\* A liveness message, or the interval of the last one, starts a ping.
SendPing(p) ==
  /\ Up(p) /\ pinger[p] = "idle"
  /\ \/ /\ liveq[p] > 0
        /\ liveq' = [liveq EXCEPT ![p] = @ - 1]
        /\ armed' = Set(armed, p, TRUE)
     \/ armed[p] /\ UNCHANGED <<liveq, armed>>
  /\ pinger' = Set(pinger, p, "awaiting")
  /\ wire' = Sent(p, <<"PING", <<>>>>)
  /\ UNCHANGED <<link, mux, call, pongs, streamVars>>

\* The PONG arrives in time.
TakePong(p) ==
  /\ Up(p) /\ pinger[p] = "awaiting" /\ pongs[p] > 0
  /\ pongs' = [pongs EXCEPT ![p] = @ - 1]
  /\ pinger' = Set(pinger, p, "idle")
  /\ UNCHANGED <<link, mux, wire, call, liveq, armed, streamVars>>

\* On a link that is fast enough, only a PONG that is not coming is late.
Overdue(p) ==
  \/ SlowLink
  \/ ~Up(Peer(p))
  \/ /\ <<"PING", <<>>>> \notin Elems(wire[p])
     /\ <<"PONG", <<>>>> \notin Elems(wire[Peer(p)])

PingTimeout(p) ==
  /\ Up(p) /\ pinger[p] = "awaiting" /\ pongs[p] = 0 /\ Overdue(p)
  /\ Die(p, "ping-pong timed out")
  /\ UNCHANGED <<link, call>>

----------------------------------------------------------------------------
(* The environment.                                                        *)

\* The transport stops carrying bytes and tells nobody.
LinkDies ==
  /\ link = "up"
  /\ link' = "dead"
  /\ wire' = [p \in Peers |-> <<>>]
  /\ UNCHANGED <<mux, call, streamVars, pingVars>>

\* The application drops the PicoMux.
DropMux(p) ==
  /\ Up(p)
  /\ Die(p, "dropped")
  /\ UNCHANGED <<link, call>>

Step(p) ==
  \/ \E c \in Calls : OpenSend(p, c) \/ OpenHandle(p, c) \/ OpenError(p, c)
  \/ \E id \in Ids : EndStream(p, id)
  \/ Handle(p) \/ ReadEof(p)
  \/ SendPing(p) \/ TakePong(p) \/ PingTimeout(p)

Environment(p) ==
  \/ \E c \in Calls : OpenCall(p, c) \/ OpenCancel(p, c)
  \/ Accept(p)
  \/ \E id \in Ids : CloseStream(p, id)
  \/ DropMux(p)

\* Both muxes are gone and no call of open is left.
Over ==
  /\ \A p \in Peers : ~Up(p)
  /\ \A p \in Peers, c \in Calls : call[p][c] \notin {"requesting", "queued"}
  /\ UNCHANGED vars

Next == (\E p \in Peers : Step(p) \/ Environment(p)) \/ LinkDies \/ Over

\* Tasks are polled and timers fire.  Nothing makes an application open,
\* accept or close anything.
Fairness ==
  \A p \in Peers :
    /\ \A c \in Calls : /\ WF_vars(OpenSend(p, c)) /\ WF_vars(OpenHandle(p, c))
                        /\ WF_vars(OpenError(p, c))
    /\ \A id \in Ids : WF_vars(EndStream(p, id))
    /\ WF_vars(Handle(p)) /\ WF_vars(ReadEof(p))
    /\ WF_vars(SendPing(p)) /\ WF_vars(TakePong(p)) /\ WF_vars(PingTimeout(p))

Spec == Init /\ [][Next]_vars
FairSpec == Spec /\ Fairness

----------------------------------------------------------------------------

Healthy == link = "up" /\ \A p \in Peers : mux[p] # "dropped"

\* On a link that works and is faster than the ping timeout no mux ever dies
\* by itself: every PING is answered, forced pings of open do not confuse the
\* periodic ones, and no SYN looks like a duplicate.
HealthyStaysUp == Healthy => \A p \in Peers : Up(p)

\* A stream in one table only is about to enter the other or to leave: its
\* SYN is on the way, or a FIN is.  So no entry is ever left behind, also not
\* for a SYN that met a full accept queue or an open that was abandoned.
NoOrphan ==
  \A p \in Peers, id \in Ids :
    LET q == Peer(p)
    IN link = "up" /\ Up(p) /\ Up(q) /\ id \in table[p] /\ id \notin table[q] =>
         \/ <<"SYN", id>> \in Elems(wire[p])
         \/ <<"FIN", id>> \in Elems(wire[q])
         \/ id \in fins[p]

\* When the link or one end is gone, both ends notice, although a dead link
\* reports no error.
SessionEnds ==
  (link = "dead" \/ \E p \in Peers : ~Up(p)) ~> (\A p \in Peers : ~Up(p))

\* A stream that exists at one end only is resolved.
HalfOpenResolved ==
  \A p \in Peers, id \in Ids :
    (id \in table[p] /\ id \notin table[Peer(p)]) ~>
      (id \in table[p] <=> id \in table[Peer(p)])
=============================================================================
