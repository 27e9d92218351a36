---------------------------- MODULE PicomuxStream ---------------------------
(***************************************************************************)
(* The life of one picomux stream between two applications                 *)
(* (libraries/picomux/src/lib.rs, create_stream and the reader loop).      *)
(*                                                                         *)
(* Each end has two pipes to its application (bipe), a task that races     *)
(* incoming_task against outgoing_task, an entry in its buffer table, and  *)
(* a FIFO of frames to the other end.  Both directions run at once and     *)
(* either of the two movers ending ends the stream: there is no half       *)
(* close.  The window is fixed here (INIT_WINDOW = MAX_WINDOW = Window);   *)
(* PicomuxFlow has the window that moves.                                  *)
(***************************************************************************)
EXTENDS Naturals, Sequences

CONSTANTS
  Ends,        \* the two ends of the stream
  Window,      \* credit of each direction
  PipeRoom,    \* bodies a bipe holds
  MaxBodies    \* bound: bodies each application writes

VARIABLES
  reader,      \* per end: whether the application still holds read_incoming
  writer,      \* per end: whether write_outgoing is still open
  outpipe,     \* per end: bodies written by the application, not yet read
  inpipe,      \* per end: bodies for the application
  inc,         \* per end: where incoming_task stands
  outg,        \* per end: where outgoing_task stands
  ended,       \* per end: why the stream task ended ("no" while it runs)
  buffer,      \* per end: frames in the buffer table entry
  permits,     \* per end: the send window
  wire,        \* per end: frames on their way from this end
  wrote,       \* per end: bodies the application wrote
  got          \* per end: bodies the application read

vars == <<reader, writer, outpipe, inpipe, inc, outg, ended, buffer, permits,
          wire, wrote, got>>
appVars == <<reader, writer, wrote, got>>
taskVars == <<inc, outg, ended, buffer, permits>>

Peer(e) == CHOOSE f \in Ends : f # e
Running(e) == ended[e] = "no"
Set(f, e, v) == [f EXCEPT ![e] = v]

Init ==
  /\ reader = [e \in Ends |-> TRUE] /\ writer = [e \in Ends |-> TRUE]
  /\ outpipe = [e \in Ends |-> 0] /\ inpipe = [e \in Ends |-> 0]
  /\ inc = [e \in Ends |-> "reading"] /\ outg = [e \in Ends |-> "recv"]
  /\ ended = [e \in Ends |-> "no"]
  /\ buffer = [e \in Ends |-> <<>>] /\ permits = [e \in Ends |-> Window]
  /\ wire = [e \in Ends |-> <<>>]
  /\ wrote = [e \in Ends |-> 0] /\ got = [e \in Ends |-> 0]

----------------------------------------------------------------------------
(* The application.                                                        *)

\* poll_write; it fails once the task has dropped its end of the pipe.
AppWrite(e) ==
  /\ writer[e] /\ Running(e)
  /\ outpipe[e] < PipeRoom /\ wrote[e] < MaxBodies
  /\ outpipe' = [outpipe EXCEPT ![e] = @ + 1]
  /\ wrote' = [wrote EXCEPT ![e] = @ + 1]
  /\ UNCHANGED <<reader, writer, inpipe, wire, got, taskVars>>

\* poll_read.
AppRead(e) ==
  /\ reader[e] /\ inpipe[e] > 0
  /\ inpipe' = [inpipe EXCEPT ![e] = @ - 1]
  /\ got' = [got EXCEPT ![e] = @ + 1]
  /\ UNCHANGED <<reader, writer, outpipe, wire, wrote, taskVars>>

\* poll_close closes the writing pipe only.
AppClose(e) ==
  /\ writer[e]
  /\ writer' = Set(writer, e, FALSE)
  /\ UNCHANGED <<reader, outpipe, inpipe, wire, wrote, got, taskVars>>

\* Dropping the Stream closes both pipes.
AppDrop(e) ==
  /\ reader[e]
  /\ reader' = Set(reader, e, FALSE) /\ writer' = Set(writer, e, FALSE)
  /\ inpipe' = Set(inpipe, e, 0)
  /\ UNCHANGED <<outpipe, wire, wrote, got, taskVars>>

----------------------------------------------------------------------------
(* The stream task.                                                        *)

EndWithoutFin(e, why) ==
  /\ ended' = Set(ended, e, why)
  /\ inc' = Set(inc, e, "gone") /\ outg' = Set(outg, e, "gone")
  /\ buffer' = Set(buffer, e, <<>>) /\ permits' = Set(permits, e, 0)
  /\ outpipe' = Set(outpipe, e, 0)
  /\ UNCHANGED wire

\* The race of the movers is over: both are dropped, with them the table
\* entry and the task's ends of the pipes, and a FIN is enqueued.
End(e, why) ==
  /\ ended' = Set(ended, e, why)
  /\ wire' = [wire EXCEPT ![e] = Append(@, "FIN")]
  /\ inc' = Set(inc, e, "gone") /\ outg' = Set(outg, e, "gone")
  /\ buffer' = Set(buffer, e, <<>>) /\ permits' = Set(permits, e, 0)
  /\ outpipe' = Set(outpipe, e, 0)

\* incoming_task reads a body.
TakeBody(e) ==
  /\ inc[e] = "reading" /\ outpipe[e] > 0
  /\ outpipe' = [outpipe EXCEPT ![e] = @ - 1]
  /\ inc' = Set(inc, e, "waiting")
  /\ UNCHANGED <<inpipe, outg, ended, buffer, permits, wire, appVars>>

EofBeforeData(e) ==
  /\ inc[e] = "reading" /\ ~writer[e]
  /\ End(e, "eof")
  /\ UNCHANGED <<inpipe, appVars>>

\* incoming_task finds the pipe closed and empty.
TakeEof(e) ==
  /\ inc[e] = "reading" /\ outpipe[e] = 0 /\ ~writer[e]
  /\ End(e, "eof")
  /\ UNCHANGED <<inpipe, appVars>>

\* incoming_task takes a permit and sends a PSH.
SendPsh(e) ==
  /\ inc[e] = "waiting" /\ permits[e] > 0
  /\ permits' = [permits EXCEPT ![e] = @ - 1]
  /\ wire' = [wire EXCEPT ![e] = Append(@, "PSH")]
  /\ inc' = Set(inc, e, "reading")
  /\ UNCHANGED <<outpipe, inpipe, outg, ended, buffer, appVars>>

\* outgoing_task takes a PSH from the buffer.
RecvPsh(e) ==
  /\ outg[e] = "recv" /\ buffer[e] # <<>> /\ Head(buffer[e]) = "PSH"
  /\ buffer' = [buffer EXCEPT ![e] = Tail(@)]
  /\ outg' = Set(outg, e, "writing")
  /\ UNCHANGED <<outpipe, inpipe, inc, ended, permits, wire, appVars>>

\* outgoing_task takes the FIN of the peer and bails.
RecvFin(e) ==
  /\ outg[e] = "recv" /\ buffer[e] # <<>> /\ Head(buffer[e]) = "FIN"
  /\ End(e, "fin")
  /\ UNCHANGED <<inpipe, appVars>>

\* outgoing_task writes the body to the application and returns the credit.
WriteIncoming(e) ==
  /\ outg[e] = "writing" /\ reader[e] /\ inpipe[e] < PipeRoom
  /\ inpipe' = [inpipe EXCEPT ![e] = @ + 1]
  /\ wire' = [wire EXCEPT ![e] = Append(@, "MORE")]
  /\ outg' = Set(outg, e, "recv")
  /\ UNCHANGED <<outpipe, inc, ended, buffer, permits, appVars>>

\* The write fails because the application dropped its end.
WriteFails(e) ==
  /\ outg[e] = "writing" /\ ~reader[e]
  /\ End(e, "dropped")
  /\ UNCHANGED <<inpipe, appVars>>

\* The reader loop of end e handles a frame: without a table entry it is
\* ignored.
Handle(e) ==
  LET f == Head(wire[Peer(e)])
  IN
  /\ wire[Peer(e)] # <<>>
  /\ wire' = [wire EXCEPT ![Peer(e)] = Tail(@)]
  /\ CASE ~Running(e) -> UNCHANGED <<buffer, permits>>
       [] Running(e) /\ f = "MORE" ->
            permits' = [permits EXCEPT ![e] = @ + 1] /\ UNCHANGED buffer
       [] Running(e) /\ f # "MORE" ->
            buffer' = [buffer EXCEPT ![e] = Append(@, f)] /\ UNCHANGED permits
  /\ UNCHANGED <<outpipe, inpipe, inc, outg, ended, appVars>>

AppStep(e) == AppWrite(e) \/ AppRead(e) \/ AppClose(e) \/ AppDrop(e)
Incoming(e) == TakeBody(e) \/ TakeEof(e) \/ SendPsh(e)
Outgoing(e) == RecvPsh(e) \/ RecvFin(e) \/ WriteIncoming(e) \/ WriteFails(e)

\* Both tasks ended and both wires are empty.
Over ==
  /\ \A e \in Ends : ~Running(e) /\ wire[e] = <<>>
  /\ UNCHANGED vars

Next ==
  \/ \E e \in Ends : AppStep(e) \/ Incoming(e) \/ Outgoing(e) \/ Handle(e)
  \/ Over

\* Stream tasks and reader loops are polled, the wires deliver, and an
\* application keeps reading as long as it holds the stream.  Nothing makes
\* an application write, close or drop.
Fairness ==
  \A e \in Ends : /\ WF_vars(Incoming(e)) /\ WF_vars(Outgoing(e))
                  /\ WF_vars(Handle(e)) /\ WF_vars(AppRead(e))

Spec == Init /\ [][Next]_vars
FairSpec == Spec /\ Fairness

----------------------------------------------------------------------------

\* One direction, as the abstract stream sees it; the ends are alike.  It is
\* cut when either task ends for another reason than that the writer closed.
Rd == CHOOSE e \in Ends : TRUE
Wr == Peer(Rd)
Direction ==
  INSTANCE ByteStream WITH
    sent <- wrote[Wr], rcvd <- got[Rd], closed <- ~writer[Wr],
    eof <- ~Running(Rd) /\ inpipe[Rd] = 0,
    cut <- ~reader[Rd] \/ ended[Rd] \in {"eof", "dropped"}
             \/ ended[Wr] \in {"fin", "dropped"}

\* A stream keeps the promise of ByteStream: nothing is read that was not
\* written, and a reader whose stream ends because the peer closed sees end of
\* file only after the last body, although one FIN ends both directions at
\* once (create_stream).
Implements == Direction!Spec

\* No stream stays half open: when one end is over, so is the other in the
\* end, although it may have bodies left to send or be waiting for a window.
BothEnd == (\E e \in Ends : ~Running(e)) ~> (\A e \in Ends : ~Running(e))
=============================================================================
