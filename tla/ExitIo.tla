------------------------------- MODULE ExitIo -------------------------------
(***************************************************************************)
(* What an exit does for the streams it proxies: the copies, which share   *)
(* their user's rate limiter (geph5-exit/src/ratelimit.rs, and the TCP and *)
(* UDP loops of proxy.rs), and the DNS answers that concurrent tasks write *)
(* to one stream (proxy_dns).                                              *)
(*                                                                         *)
(* Bytes are counted in units; a read gives at most READ of them.          *)
(***************************************************************************)
EXTENDS Integers, Sequences

CONSTANTS Copies,    \* the two directions of one stream
          Queries,   \* DNS queries on one stream
          READ,      \* the most one read gives
          CAP,       \* the most one wait is charged for (100000)
          BURST,     \* what the limiter lets through at once (102400)
          RATE,      \* what it gains in one unit of time
          Loads,     \* multipliers that the exit's load gives, before max(1.0)
          MaxTime    \* bound on the clock

\* What one read gives (8192 bytes, or a datagram of at most 65535) is below the cap.
LimiterAssumption ==
  /\ READ \in Nat /\ CAP \in Nat /\ BURST \in Nat /\ RATE \in Nat /\ Loads \subseteq Nat
  /\ READ <= CAP

VARIABLES udp,      \* whether the stream carries datagrams
          now,      \* the clock
          tokens,   \* what the limiter holds
          passed,   \* bytes written by all copies
          copy,     \* per copy: "read", "wait", "write", "done", "panic"
          chunk,    \* per copy: the bytes it read
          query,    \* per query: "asked", "answered", "length", "body", "done"
          lock,     \* who holds write_stream
          out       \* what was written to the stream

vars == <<udp, now, tokens, passed, copy, chunk, query, lock, out>>
dns == <<query, lock, out>>

NoOne == "no one"
Set(f, k, v) == [f EXCEPT ![k] = v]
Least(a, b) == IF a < b THEN a ELSE b
Most(a, b) == IF a < b THEN b ELSE a

Init ==
  /\ udp \in BOOLEAN /\ now = 0 /\ tokens = BURST /\ passed = 0
  /\ copy = [c \in Copies |-> "read"] /\ chunk = [c \in Copies |-> 0]
  /\ query = [q \in Queries |-> "asked"]
  /\ lock = NoOne /\ out = <<>>

Tick ==
  /\ now < MaxTime /\ now' = now + 1
  /\ tokens' = Least(BURST, tokens + RATE)
  /\ UNCHANGED <<udp, passed, copy, chunk, dns>>

\* Reading fails, finds the end of the stream or times out: the loop ends, and with
\* it the one the other way.
LoopEnds == copy' = [d \in Copies |-> "done"] /\ chunk' = [d \in Copies |-> 0]

\* io_copy reads some bytes of a TCP stream; up_loop and dn_loop a datagram, which
\* may be empty.
Read(c) ==
  /\ copy[c] = "read" /\ ~udp
  /\ \/ \E n \in 1 .. READ : chunk' = Set(chunk, c, n) /\ copy' = Set(copy, c, "wait")
     \/ LoopEnds
  /\ UNCHANGED <<udp, now, tokens, passed, dns>>
ReadPacket(c) ==
  /\ copy[c] = "read" /\ udp
  /\ \/ \E n \in 0 .. READ : chunk' = Set(chunk, c, n) /\ copy' = Set(copy, c, "wait")
     \/ LoopEnds
  /\ UNCHANGED <<udp, now, tokens, passed, dns>>

\* wait: the bytes times the load's multiplier, which is at least one, and capped so
\* that the limiter can ever hold as many.
ChargeUnscaled(bytes, load) == Least(bytes * load, CAP)
Charge(bytes, load) == Least(bytes * Most(load, 1), CAP)

\* No bytes pass at once.  check_n: more than the burst can never be let through, and
\* unwrap panics; otherwise the bytes pass, or the task sleeps and asks again.
Wait(c) ==
  /\ copy[c] = "wait"
  /\ \E load \in Loads :
       LET n == Charge(chunk[c], load) IN
       IF n > BURST THEN copy' = Set(copy, c, "panic") /\ UNCHANGED tokens
       ELSE /\ n <= tokens /\ tokens' = tokens - n
            /\ copy' = Set(copy, c, "write")
  /\ UNCHANGED <<udp, now, passed, chunk, dns>>

Write(c) ==
  /\ copy[c] = "write"
  /\ passed' = passed + chunk[c] /\ chunk' = Set(chunk, c, 0)
  /\ copy' = Set(copy, c, "read")
  /\ UNCHANGED <<udp, now, tokens, dns>>

----------------------------------------------------------------------------
(* proxy_dns: a task for each query.                                       *)

\* raw_dns_respond, which filters and asks upstream; a failure ends the task.
Respond(q) ==
  /\ query[q] = "asked"
  /\ query' = Set(query, q, "answered") \/ query' = Set(query, q, "done")
  /\ UNCHANGED <<udp, now, tokens, passed, copy, chunk, lock, out>>

Lock(q) ==
  /\ query[q] = "answered" /\ lock = NoOne
  /\ lock' = q /\ query' = Set(query, q, "length")
  /\ UNCHANGED <<udp, now, tokens, passed, copy, chunk, out>>

\* The length and the answer are two writes, each of which may wait.
WriteLengthUnlocking(q) ==
  /\ query[q] = "length"
  /\ out' = Append(out, <<"length", q>>) /\ query' = Set(query, q, "body")
  /\ lock' = NoOne
  /\ UNCHANGED <<udp, now, tokens, passed, copy, chunk>>
WriteLength(q) ==
  /\ query[q] = "length"
  /\ out' = Append(out, <<"length", q>>) /\ query' = Set(query, q, "body")
  /\ UNCHANGED <<udp, now, tokens, passed, copy, chunk, lock>>
WriteBody(q) ==
  /\ query[q] = "body"
  /\ out' = Append(out, <<"body", q>>) /\ query' = Set(query, q, "done")
  /\ lock' = NoOne
  /\ UNCHANGED <<udp, now, tokens, passed, copy, chunk>>

----------------------------------------------------------------------------
Next ==
  \/ Tick
  \/ \E c \in Copies : Read(c) \/ ReadPacket(c) \/ Wait(c) \/ Write(c)
  \/ \E q \in Queries : Respond(q) \/ Lock(q) \/ WriteLength(q) \/ WriteBody(q)

Spec == Init /\ [][Next]_vars

----------------------------------------------------------------------------
\* Over any time since the limiter was made, the copies of a user together let
\* through no more than the burst and what the rate allows, whatever the exit's
\* load makes of the charge (RateLimiter::wait).
RateKept == passed <= BURST + RATE * now

\* Answers reach the client as whole frames, length then body of the same query,
\* in whatever order the upstream answers come (proxy_dns).
AnswersWhole ==
  \A n \in 1 .. Len(out) :
    IF n % 2 = 1 THEN out[n][1] = "length"
    ELSE out[n] = <<"body", out[n - 1][2]>>
=============================================================================
