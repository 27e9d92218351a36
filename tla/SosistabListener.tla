-------------------------- MODULE SosistabListener -------------------------
(***************************************************************************)
(* The sosistab3 handshake: dialers (libraries/sillad-sosistab3/src/       *)
(* dialer.rs), the listener with its deduplication of handshakes           *)
(* (listener.rs, dedup.rs) and what a handshake says (handshake.rs).       *)
(*                                                                         *)
(* A handshake is known by the connection it was made for, which stands    *)
(* for its hash.  Time is counted in units of which WAIT are the 30        *)
(* seconds of WAIT_INTERVAL.                                               *)
(***************************************************************************)
EXTENDS Integers, Sequences, FiniteSets

CONSTANTS MaxConns,  \* connections to the listener, numbered as they are made
          Skews,     \* how far a dialer's clock may be off
          WAIT,      \* WAIT_INTERVAL
          MaxTime    \* bound on the clock

VARIABLES now,       \* the clock
          hello,     \* per connection: the handshake it carries
          server,    \* per connection: where the listener's task stands
          accepted,  \* per connection: current_timestamp of that task
          bucket,    \* Dedup: handshake -> when it was inserted
          last_size, \* Dedup
          open,      \* whether listen_loop runs
          last       \* history: handshake -> when it was last let through

vars == <<now, hello, server, accepted, bucket, last_size, open, last>>
dedup == <<bucket, last_size, last>>

Conns == 1 .. MaxConns
EXPIRY == 2 * WAIT
NoHello == [of |-> 0, ts |-> 0, cookie |-> "none"]
NextConn(c) == open /\ c = Cardinality({d \in Conns : hello[d] # NoHello}) + 1

Init ==
  /\ now = 0
  /\ hello = [c \in Conns |-> NoHello]
  /\ server = [c \in Conns |-> "none"]
  /\ accepted = [c \in Conns |-> 0]
  /\ bucket = [h \in {} |-> 0] /\ last_size = 1
  /\ last = [c \in Conns |-> -1]
  /\ open = TRUE

Tick ==
  /\ open /\ now < MaxTime /\ now' = now + 1
  /\ UNCHANGED <<hello, server, accepted, dedup, open>>

----------------------------------------------------------------------------
(* A dialer.                                                               *)

\* dial() connects and sends its handshake, under the key its cookie gives for
\* the client's side, with its own clock's time.  (Under another cookie nobody
\* reads the time; only the first connection comes under one.)
Dial(c) ==
  /\ NextConn(c)
  /\ \E skew \in Skews, cookie \in {"ours", "other"} :
       /\ cookie = "ours" \/ c = 1
       /\ hello' = [hello EXCEPT ![c] = [
            of |-> c, ts |-> IF cookie = "ours" THEN now + skew ELSE 0, cookie |-> cookie]]
  /\ UNCHANGED <<now, server, accepted, dedup, open>>

\* A connection that carries a handshake the listener may have met before.  (One
\* made under another cookie is turned away each time.)
Repeat(c, d) ==
  /\ NextConn(c) /\ hello[d].of = d /\ hello[d].cookie = "ours"
  /\ hello' = [hello EXCEPT ![c] = hello[d]]
  /\ UNCHANGED <<now, server, accepted, dedup, open>>

----------------------------------------------------------------------------
(* The listener.                                                           *)

Moves(c, to) == server' = [server EXCEPT ![c] = to]
Checked(c) == accepted' = [accepted EXCEPT ![c] = 0]

\* accept(), and a task that notes the time before it reads anything.
Accept(c) ==
  /\ open /\ server[c] = "none" /\ hello[c] # NoHello
  /\ Moves(c, "reading")
  /\ accepted' = [accepted EXCEPT ![c] = now]
  /\ UNCHANGED <<now, hello, dedup, open>>

\* Dedup::insert: the bucket is cleaned up once it has doubled.
CleanupAll(b) == [h \in {} |-> 0]
Cleanup(b) == [h \in {k \in DOMAIN b : now - b[k] < EXPIRY} |-> b[h]]
Insert(h) ==
  LET b == [k \in DOMAIN bucket \cup {h} |-> IF k = h THEN now ELSE bucket[k]]
      full == Cardinality(DOMAIN b) > 2 * last_size
  IN /\ bucket' = IF full THEN Cleanup(b) ELSE b
     /\ last_size' = IF full THEN Cardinality(DOMAIN Cleanup(b)) ELSE last_size

\* Handshake and padding have been read, however long they took, and decrypt if
\* they were made for our cookie.  The timestamp is compared with the time of
\* accept, and the handshake looked up and inserted under one lock.
AbsDiff(a, b) == IF a < b THEN b - a ELSE a - b
Timely(c) == hello[c].cookie = "ours" /\ AbsDiff(hello[c].ts, accepted[c]) <= WAIT
Verify(c) ==
  /\ server[c] = "reading" /\ Checked(c)
  /\ IF Timely(c) /\ hello[c].of \notin DOMAIN bucket
     THEN /\ Moves(c, "sending") /\ Insert(hello[c].of)
          /\ last' = [last EXCEPT ![hello[c].of] = now]
     ELSE Moves(c, "err") /\ UNCHANGED dedup
  /\ UNCHANGED <<now, hello, open>>

\* The answer is written, and accept() takes the pipe from the channel of one.
SendPipe(c) ==
  /\ server[c] = "sending" /\ Moves(c, "up")
  /\ UNCHANGED <<now, hello, accepted, dedup, open>>

\* accept() fails under listen_loop, whose executor is dropped with every task that
\* is not done, and with the bucket.  (A connection that fails is one whose task takes
\* no more steps.)
ListenerEnds ==
  /\ open /\ open' = FALSE
  /\ server' = [c \in Conns |-> IF server[c] = "up" THEN "up" ELSE "err"]
  /\ bucket' = [h \in {} |-> 0] /\ last_size' = 1
  /\ accepted' = [c \in Conns |-> 0]
  /\ UNCHANGED <<now, hello, last>>

----------------------------------------------------------------------------
Next ==
  \/ Tick \/ ListenerEnds
  \/ \E c \in Conns : Dial(c) \/ Accept(c) \/ Verify(c) \/ SendPipe(c)
  \/ \E c, d \in Conns : Repeat(c, d)

Spec == Init /\ [][Next]_vars

----------------------------------------------------------------------------
\* A handshake is let through again only after the full expiry time since it was
\* last let through, however the connections that carry it interleave and
\* whenever the bucket happens to be cleaned up (Dedup::insert, listen_loop).
RepeatsApart ==
  [][\A h \in Conns :
       (last'[h] # last[h] /\ last[h] # -1) => last'[h] - last[h] >= EXPIRY]_vars
=============================================================================
