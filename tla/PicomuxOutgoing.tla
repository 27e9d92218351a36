--------------------------- MODULE PicomuxOutgoing --------------------------
(***************************************************************************)
(* The shared writer of a picomux (libraries/picomux/src/outgoing.rs).     *)
(*                                                                         *)
(* Every stream and every control message goes through one unbounded       *)
(* queue that a single task writes to the wire.  `send' waits on           *)
(* shrink_signal until the queue is short; `enqueue' never waits.  The     *)
(* wait is that of the async_event crate: a waiter tests its predicate,    *)
(* sleeps if it is not met, and tests it again each time it is notified.   *)
(***************************************************************************)
EXTENDS Naturals, Sequences, FiniteSets

CONSTANTS
  Senders,     \* stream tasks that call send
  Limit,       \* send waits until fewer than this many frames are queued
  MaxFrames,   \* bound: frames each sender sends
  MaxControl   \* bound: frames put in by enqueue alone

VARIABLES
  queue,       \* frames not yet popped
  loop,        \* where outgoing_loop stands
  current,     \* the frame it is writing
  err,         \* whether err_cell is set
  call,        \* per sender: the state of its call of send
  sent,        \* per sender: number of calls made
  control      \* number of control frames enqueued

vars == <<queue, loop, current, err, call, sent, control>>

NoFrame == <<"none", 0>>
Control == "control"

Init ==
  /\ queue = <<>> /\ loop = "waiting" /\ current = NoFrame /\ err = FALSE
  /\ call = [s \in Senders |-> "idle"]
  /\ sent = [s \in Senders |-> 0]
  /\ control = 0

Reaped == \E s \in Senders : call[s] = "cancelled"

\* enqueue from the reader loop, the ping loop or a closing stream.
Enqueue ==
  /\ control < MaxControl /\ ~Reaped
  /\ control' = control + 1
  /\ queue' = Append(queue, <<Control, control + 1>>)
  /\ UNCHANGED <<loop, current, err, call, sent>>

\* send: the frame is enqueued, then the caller evaluates the predicate.
SendBegin(s) ==
  /\ call[s] \in {"idle", "ok"} /\ sent[s] < MaxFrames
  /\ sent' = [sent EXCEPT ![s] = @ + 1]
  /\ queue' = Append(queue, <<s, sent[s] + 1>>)
  /\ call' = [call EXCEPT ![s] = "testing"]
  /\ UNCHANGED <<loop, current, err, control>>

\* One evaluation of the predicate of wait_until.
Test(s) ==
  /\ call[s] = "testing"
  /\ call' = [call EXCEPT ![s] = IF err THEN "err"
                                 ELSE IF Len(queue) < Limit THEN "ok"
                                 ELSE "asleep"]
  /\ UNCHANGED <<queue, loop, current, err, sent, control>>

\* shrink_signal.notify_all().
Notified == [s \in Senders |-> IF call[s] = "asleep" THEN "testing" ELSE call[s]]

\* outgoing_loop pops the next frame ...
Pop ==
  /\ loop = "waiting" /\ queue # <<>>
  /\ current' = Head(queue)
  /\ queue' = Tail(queue)
  /\ loop' = "popped"
  /\ UNCHANGED <<err, call, sent, control>>

NotifyNobody ==
  /\ loop = "popped"
  /\ loop' = "writing"
  /\ UNCHANGED <<queue, current, err, call, sent, control>>

\* ... tells the waiting senders that the queue shrank ...
NotifyShrunk ==
  /\ loop = "popped"
  /\ loop' = "writing"
  /\ call' = Notified
  /\ UNCHANGED <<queue, current, err, sent, control>>

\* ... and writes the frame.
Write ==
  /\ loop = "writing"
  /\ loop' = "waiting"
  /\ current' = NoFrame
  /\ UNCHANGED <<queue, err, call, sent, control>>

\* The write fails: leaving outgoing_loop runs the deferred notify_all.
WriteFails ==
  /\ loop = "writing"
  /\ loop' = "failed"
  /\ current' = NoFrame
  /\ call' = Notified
  /\ UNCHANGED <<queue, err, sent, control>>

\* Only then does the spawned task record the error, which notifies nobody.
SetErr ==
  /\ loop = "failed"
  /\ loop' = "dead"
  /\ err' = TRUE
  /\ UNCHANGED <<queue, current, call, sent, control>>

\* With no writer the next ping stays unanswered, the mux dies of the
\* timeout, and its reaper cancels every stream task.
Reap ==
  /\ loop = "dead" /\ ~Reaped
  /\ call' = [s \in Senders |-> "cancelled"]
  /\ UNCHANGED <<queue, loop, current, err, sent, control>>

\* Nothing left to send or to write.
Quiet ==
  /\ \/ Reaped
     \/ /\ queue = <<>> /\ loop = "waiting" /\ control = MaxControl
        /\ \A s \in Senders : call[s] \in {"idle", "ok"} /\ sent[s] = MaxFrames
  /\ UNCHANGED vars

LoopStep == Pop \/ NotifyShrunk \/ Write \/ WriteFails \/ SetErr

Next ==
  \/ Enqueue
  \/ \E s \in Senders : SendBegin(s) \/ Test(s)
  \/ LoopStep
  \/ Reap
  \/ Quiet

\* The executor polls woken tasks, the transport finishes or fails each
\* write, and the ping loop's timers fire.
Fairness ==
  /\ \A s \in Senders : WF_vars(Test(s))
  /\ WF_vars(LoopStep)
  /\ WF_vars(Reap)

Spec == Init /\ [][Next]_vars
FairSpec == Spec /\ Fairness

----------------------------------------------------------------------------

\* Every call of send ends: it returns, or its task is cancelled with the mux.
\* A sender that tests the predicate between the deferred notify_all and the
\* setting of err_cell sleeps on, and only the death of the mux ends it.
SendEnds ==
  \A s \in Senders : call[s] \in {"testing", "asleep"} ~>
                       call[s] \in {"ok", "err", "cancelled"}
=============================================================================
