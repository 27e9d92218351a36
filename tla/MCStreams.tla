----------------------------- MODULE MCStreams -----------------------------
(***************************************************************************)
(* The parts of picomux below a stream, each on its own: the windows of    *)
(* one direction (PicomuxFlow), one stream with both its ends              *)
(* (PicomuxStream), the shared writer (PicomuxOutgoing) and a session over *)
(* a link that may be slow or die (Picomux).  A behaviour is one of one    *)
(* part: the others keep their initial state.                              *)
(***************************************************************************)
EXTENDS PicomuxFlow

CONSTANTS Ends, Window, PipeRoom, MaxBodies,     \* PicomuxStream
          Senders, Limit, MaxFrames, MaxControl, \* PicomuxOutgoing
          Peers, Calls, AcceptCap                \* Picomux

VARIABLES part,
          reader, writer, outpipe, inpipe, inc, outg, ended, stream_buffer,
          stream_permits, stream_wire, wrote, got,
          queue, loop, current, err, send_call, sent, control,
          link, mux, wire, call, table, fins, accepted, held, liveq, armed,
          pinger, pongs

Stream == INSTANCE PicomuxStream
  WITH buffer <- stream_buffer, permits <- stream_permits, wire <- stream_wire
Outgoing == INSTANCE PicomuxOutgoing WITH call <- send_call
Session == INSTANCE Picomux WITH Opens <- {CHOOSE p \in Peers : TRUE} \X Calls,
                                SlowLink <- TRUE

streamVars == <<reader, writer, outpipe, inpipe, inc, outg, ended, stream_buffer,
                stream_permits, stream_wire, wrote, got>>
outgoingVars == <<queue, loop, current, err, send_call, sent, control>>
sessionVars == <<link, mux, wire, call, table, fins, accepted, held, liveq, armed,
                 pinger, pongs>>
mcvars == <<part, vars, streamVars, outgoingVars, sessionVars>>

\* Windows small enough for every interleaving.
SmallTargets == {3, 5, 8}

\* The windows of the code, 10 and 1500, meet the last condition of
\* WindowAssumption, so the theorems apply to them.
ASSUME CodeWindows ==
  MinQuantum(MinQuantum(MinQuantum(1500) + 1)) <= 10

MCInit ==
  /\ part \in {"flow", "stream", "outgoing", "session"}
  /\ Init /\ Stream!Init /\ Outgoing!Init /\ Session!Init

MCNext ==
  /\ UNCHANGED part
  /\ \/ /\ part = "flow" /\ Next
        /\ UNCHANGED <<streamVars, outgoingVars, sessionVars>>
     \/ /\ part = "stream" /\ Stream!Next
        /\ UNCHANGED <<vars, outgoingVars, sessionVars>>
     \/ /\ part = "outgoing" /\ Outgoing!Next
        /\ UNCHANGED <<vars, streamVars, sessionVars>>
     \/ /\ part = "session" /\ Session!Next
        /\ UNCHANGED <<vars, streamVars, outgoingVars>>

\* The fairness of each part, while it runs.
F(A) == part = "flow" /\ A
S(A) == part = "stream" /\ A
O(A) == part = "outgoing" /\ A
P(A) == part = "session" /\ A

MCFairness ==
  /\ WF_vars(F(SendPsh)) /\ WF_vars(F(SendReturns)) /\ WF_vars(F(DeliverMore))
  /\ WF_vars(F(DeliverBackFin)) /\ WF_vars(F(DeliverPsh)) /\ WF_vars(F(DeliverFin))
  /\ WF_vars(F(ReceivePsh)) /\ WF_vars(F(ReceiveFin))
  /\ WF_vars(F(\E t \in TargetChoices : WriteDone(t)))
  /\ \A e \in Ends :
       /\ WF_streamVars(S(Stream!Incoming(e))) /\ WF_streamVars(S(Stream!Outgoing(e)))
       /\ WF_streamVars(S(Stream!Handle(e))) /\ WF_streamVars(S(Stream!AppRead(e)))
  /\ \A s \in Senders : WF_outgoingVars(O(Outgoing!Test(s)))
  /\ WF_outgoingVars(O(Outgoing!LoopStep)) /\ WF_outgoingVars(O(Outgoing!Reap))
  /\ \A p \in Peers :
       /\ \A c \in Calls :
            /\ WF_sessionVars(P(Session!OpenSend(p, c)))
            /\ WF_sessionVars(P(Session!OpenHandle(p, c)))
            /\ WF_sessionVars(P(Session!OpenError(p, c)))
       /\ \A id \in Session!Ids : WF_sessionVars(P(Session!EndStream(p, id)))
       /\ WF_sessionVars(P(Session!Handle(p))) /\ WF_sessionVars(P(Session!ReadEof(p)))
       /\ WF_sessionVars(P(Session!SendPing(p))) /\ WF_sessionVars(P(Session!TakePong(p)))
       /\ WF_sessionVars(P(Session!PingTimeout(p)))

MCSpec == MCInit /\ [][MCNext]_mcvars /\ MCFairness

----------------------------------------------------------------------------

\* Each direction of a stream is a byte stream (PicomuxStream).
StreamImplements == Stream!Implements

\* A stream whose one end is over ends at the other (PicomuxStream).
BothEnd == Stream!BothEnd

\* Every call of send ends (PicomuxOutgoing).
SendEnds == Outgoing!SendEnds

\* Both ends of a session notice its end (Picomux).
SessionEnds == Session!SessionEnds

\* A stream that only one end knows is resolved (Picomux).
HalfOpenResolved == Session!HalfOpenResolved
=============================================================================
