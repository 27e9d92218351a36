---------------------------- MODULE PicomuxFlow ----------------------------
(***************************************************************************)
(* Window flow control of one direction of one picomux stream              *)
(* (libraries/picomux/src/lib.rs, buffer_table.rs).                        *)
(*                                                                         *)
(* The sending side runs `incoming_task': it reads a body from the         *)
(* application, takes one permit of the stream's semaphore, and hands a    *)
(* PSH frame to the outgoing writer.  The receiving side's reader loop     *)
(* puts the frame into the stream's buffer, and `outgoing_task' moves it   *)
(* to the application, recomputes the window it wants the peer to have,    *)
(* and returns credit in MORE frames.                                      *)
(*                                                                         *)
(* PSH frames of a stream differ only in their bodies, so a FIFO of them   *)
(* is a number; a FIN is always the last frame of its direction.  MORE     *)
(* frames on the wire are kept as running totals: grants[i] is the credit  *)
(* the sender will have been given once the i-th of them has arrived.      *)
(***************************************************************************)
EXTENDS Integers, Sequences

CONSTANTS
  INIT_WINDOW,   \* permits of a fresh stream
  MAX_WINDOW,    \* largest window a receiver asks for
  TargetChoices, \* values the bandwidth estimate may clamp to
  MaxUnread,     \* bound: PSH frames sent and not yet consumed
  MaxMore        \* bound: MORE frames on their way at once

VARIABLES
  sender,        \* where incoming_task stands
  permits,       \* the semaphore of the sender's table entry
  net,           \* PSH frames queued for writing or on the wire
  fin,           \* where the FIN of this direction is
  receiver,      \* where outgoing_task stands
  buffer,        \* PSH frames in the receiver's stream buffer
  remote_window, \* the receiver's idea of the sender's window
  target,        \* target_remote_window
  grants,        \* MORE frames on the way back, as running totals
  backfin,       \* where the FIN of the opposite direction is
  lost           \* PSH or FIN frames a live stream's buffer refused

vars == <<sender, permits, net, fin, receiver, buffer, remote_window, target,
          grants, backfin, lost>>

Clamp(x, lo, hi) == IF x < lo THEN lo ELSE IF x > hi THEN hi ELSE x

\* The smallest increase worth a MORE frame, from the target of the previous
\* round of the loop.
MinQuantum(t) == Clamp(t \div 10, 1, 500)

ASSUME WindowAssumption ==
  /\ INIT_WINDOW \in Nat /\ MAX_WINDOW \in Nat
  /\ 3 <= INIT_WINDOW /\ INIT_WINDOW <= MAX_WINDOW /\ MAX_WINDOW < 65536
  /\ MinQuantum(MinQuantum(MinQuantum(MAX_WINDOW) + 1)) <= INIT_WINDOW

ASSUME TargetAssumption ==
  TargetChoices \subseteq INIT_WINDOW .. MAX_WINDOW

ASSUME BoundAssumption == MaxUnread \in Nat \ {0} /\ MaxMore \in Nat \ {0}

----------------------------------------------------------------------------

\* Credit carried by the MORE frames on the wire.
InFlight(g) == IF g = <<>> THEN 0 ELSE g[Len(g)]

BufferFullAtInit(len) == len > INIT_WINDOW

\* send_to refuses a frame when the stream's buffer is longer than this.
BufferFull(len) == len > MAX_WINDOW * 2

\* Frames the receiver has not yet counted off its remote_window.
Unconsumed == net + buffer + (IF receiver = "writing" THEN 1 ELSE 0)

\* The table has an entry for the stream as long as its task runs.
SenderOpen == sender # "closed"
ReceiverOpen == receiver # "closed"

Init ==
  /\ sender = "reading" /\ permits = INIT_WINDOW
  /\ net = 0 /\ fin = "none"
  /\ receiver = "recv" /\ buffer = 0
  /\ remote_window = INIT_WINDOW /\ target = MAX_WINDOW
  /\ grants = <<>> /\ backfin = "none"
  /\ lost = 0

\* incoming_task reads a body the application wrote.
ReadBody ==
  /\ sender = "reading"
  /\ sender' = "waiting"
  /\ UNCHANGED <<permits, net, fin, receiver, buffer, remote_window, target,
                 grants, backfin, lost>>

\* wait_send_window takes a permit for good, and the frame is enqueued.
SendPsh ==
  /\ sender = "waiting" /\ permits > 0 /\ Unconsumed < MaxUnread
  /\ permits' = permits - 1
  /\ net' = net + 1
  /\ sender' = "sending"
  /\ UNCHANGED <<fin, receiver, buffer, remote_window, target, grants,
                 backfin, lost>>

\* Outgoing::send returns.
SendReturns ==
  /\ sender = "sending"
  /\ sender' = "reading"
  /\ UNCHANGED <<permits, net, fin, receiver, buffer, remote_window, target,
                 grants, backfin, lost>>

\* The sender's stream task ends, whatever it was doing: its application
\* closed the stream, or its own outgoing_task failed.  The table entry goes
\* away with its semaphore, and a FIN is enqueued behind every PSH.
SenderStops ==
  /\ SenderOpen
  /\ sender' = "closed" /\ permits' = 0 /\ fin' = "net"
  /\ UNCHANGED <<net, receiver, buffer, remote_window, target,
                 grants, backfin, lost>>

\* The receiver's reader loop takes a PSH off the wire.
DeliverPsh ==
  /\ net > 0
  /\ net' = net - 1
  /\ IF ~ReceiverOpen THEN UNCHANGED <<buffer, lost>>
     ELSE IF BufferFull(buffer)
     THEN lost' = lost + 1 /\ UNCHANGED buffer
     ELSE buffer' = buffer + 1 /\ UNCHANGED lost
  /\ UNCHANGED <<sender, permits, fin, receiver, remote_window, target,
                 grants, backfin>>

\* The receiver's reader loop takes the FIN off the wire.
DeliverFin ==
  /\ fin = "net" /\ net = 0
  /\ IF ~ReceiverOpen THEN fin' = "gone" /\ UNCHANGED lost
     ELSE IF BufferFull(buffer)
     THEN fin' = "gone" /\ lost' = lost + 1
     ELSE fin' = "buffered" /\ UNCHANGED lost
  /\ UNCHANGED <<sender, permits, net, receiver, buffer, remote_window,
                 target, grants, backfin>>

\* outgoing_task takes a PSH from the buffer and starts writing it to the
\* application's pipe.
ReceivePsh ==
  /\ receiver = "recv" /\ buffer > 0
  /\ buffer' = buffer - 1
  /\ receiver' = "writing"
  /\ UNCHANGED <<sender, permits, net, fin, remote_window, target, grants,
                 backfin, lost>>

\* The receiver's stream task ends: its locals are dropped and its own FIN is
\* enqueued.
CloseReceiver ==
  /\ receiver' = "closed" /\ backfin' = "net"
  /\ remote_window' = 0 /\ target' = INIT_WINDOW

\* outgoing_task finds the FIN and bails.
ReceiveFin ==
  /\ receiver = "recv" /\ buffer = 0 /\ fin = "buffered"
  /\ fin' = "gone"
  /\ CloseReceiver
  /\ UNCHANGED <<sender, permits, net, buffer, grants, lost>>

WorthMoreUndivided(r, t) == r + Clamp(target, 1, 500) <= t

\* Whether raising the window from r to the new target t is worth a MORE, by
\* the quantum of the old target.
WorthMore(r, t) == r + MinQuantum(target) <= t

GrantForgotten(r, q) == r

\* The window after a MORE for q frames was enqueued.
Granted(r, q) == r + q

\* The application took the body.  The window shrinks by one, the estimate
\* gives a new target t, and if the missing credit is worth it a MORE frame
\* carries it (as a u16) to the sender.
WriteDone(t) ==
  LET r == remote_window - 1
      quantum == t - r
  IN
  /\ receiver = "writing" /\ Len(grants) < MaxMore
  /\ receiver' = "recv"
  /\ target' = t
  /\ IF WorthMore(r, t)
     THEN /\ grants' = Append(grants, InFlight(grants) + (quantum % 65536))
          /\ remote_window' = Granted(r, quantum)
     ELSE remote_window' = r /\ UNCHANGED grants
  /\ UNCHANGED <<sender, permits, net, fin, buffer, backfin, lost>>

\* The receiver's stream task ends for a reason of its own: the application
\* dropped its end or closed its writing side.
ReceiverStops ==
  /\ ReceiverOpen
  /\ CloseReceiver
  /\ buffer' = 0
  /\ fin' = IF fin = "buffered" THEN "gone" ELSE fin
  /\ UNCHANGED <<sender, permits, net, grants, lost>>

\* The sender's reader loop handles a MORE: the permits are released if the
\* stream is still in the table.
DeliverMore ==
  /\ grants # <<>>
  /\ permits' = IF SenderOpen THEN permits + grants[1] ELSE permits
  /\ grants' = [i \in 1 .. Len(grants) - 1 |-> grants[i + 1] - grants[1]]
  /\ UNCHANGED <<sender, net, fin, receiver, buffer, remote_window, target,
                 backfin, lost>>

\* The FIN of the receiver arrives behind its MORE frames and ends the
\* sender's stream task, if that still runs.
DeliverBackFin ==
  /\ backfin = "net" /\ grants = <<>>
  /\ backfin' = "gone"
  /\ IF SenderOpen THEN sender' = "closed" /\ permits' = 0 /\ fin' = "net"
                   ELSE UNCHANGED <<sender, permits, fin>>
  /\ UNCHANGED <<net, receiver, buffer, remote_window, target,
                 grants, lost>>

SenderNext == ReadBody \/ SendPsh \/ SendReturns \/ SenderStops
                \/ DeliverMore \/ DeliverBackFin

ReceiverNext == DeliverPsh \/ DeliverFin \/ ReceivePsh \/ ReceiveFin
                  \/ (\E t \in TargetChoices : WriteDone(t)) \/ ReceiverStops

\* Both tasks have ended and every frame was read.
Finished ==
  /\ ~SenderOpen /\ ~ReceiverOpen
  /\ net = 0 /\ grants = <<>> /\ fin = "gone" /\ backfin = "gone"
  /\ UNCHANGED vars

Next == SenderNext \/ ReceiverNext \/ Finished

\* Tasks are polled until they finish, the wire delivers, and the receiving
\* application keeps reading.  Nothing makes an application write or close.
Fairness ==
  /\ WF_vars(SendPsh) /\ WF_vars(SendReturns)
  /\ WF_vars(DeliverMore) /\ WF_vars(DeliverBackFin)
  /\ WF_vars(DeliverPsh) /\ WF_vars(DeliverFin)
  /\ WF_vars(ReceivePsh) /\ WF_vars(ReceiveFin)
  /\ WF_vars(\E t \in TargetChoices : WriteDone(t))

Spec == Init /\ [][Next]_vars
FairSpec == Spec /\ Fairness

----------------------------------------------------------------------------

\* Every variable keeps the type the code gives it.
TypeOK ==
  /\ sender \in {"reading", "waiting", "sending", "closed"}
  /\ permits \in Nat /\ net \in Nat /\ buffer \in Nat /\ lost \in Nat
  /\ fin \in {"none", "net", "buffered", "gone"}
  /\ receiver \in {"recv", "writing", "closed"}
  /\ remote_window \in Nat /\ target \in INIT_WINDOW .. MAX_WINDOW
  /\ grants \in Seq(Nat)
  /\ backfin \in {"none", "net", "gone"}

\* While both ends run, the receiver's remote_window is exactly the credit
\* that exists: the sender's permits, the frames it has not consumed, and the
\* MORE frames still travelling.  The two ends never exchange these numbers,
\* so an error here would never be corrected.
CreditConserved ==
  SenderOpen /\ ReceiverOpen =>
    remote_window = permits + Unconsumed + InFlight(grants)

\* The receiver never believes in an empty window between two rounds of its
\* loop, whatever the bandwidth estimate did.  With CreditConserved: there is
\* always a permit, a frame or a MORE left to move, so the stream cannot
\* stall for good although MORE is only sent when it is worth min_quantum.
WindowNeverEmpty == ReceiverOpen => remote_window >= 1

\* A sender that keeps to its window never meets the "individual buffer is
\* full" branch of send_to, which would silently lose a body or the FIN.
NothingDropped == lost = 0

\* The subtraction `remote_window -= 1' never wraps, and the window and every
\* MORE fit: the quantum cast to u16 loses nothing.
WindowBounded ==
  /\ receiver = "writing" => remote_window >= 1
  /\ remote_window <= MAX_WINDOW
  /\ InFlight(grants) <= MAX_WINDOW

\* A sender waiting for its window gets it, or its stream ends.
WindowOpens == sender = "waiting" ~> sender # "waiting"

\* When the sender ends, the receiver learns it: no stream stays half open.
CloseReachesReceiver == ~SenderOpen ~> ~ReceiverOpen
=============================================================================
