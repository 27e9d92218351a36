------------------------------- MODULE MCExit ------------------------------
(***************************************************************************)
(* An exit at work, each part on its own: the streams of one session       *)
(* (ExitStreams), and the copies and the DNS answers behind them (ExitIo). *)
(* A behaviour is one of one part: the other keeps its initial state.      *)
(***************************************************************************)
EXTENDS ExitStreams

CONSTANTS Copies, Queries, READ, CAP, BURST, RATE, Loads, MaxTime  \* ExitIo

VARIABLES part,
          udp, now, tokens, passed, copy, chunk, query, lock, out

Io == INSTANCE ExitIo

ASSUME IoAssumption ==
  IsFiniteSet(Copies) /\ Io!LimiterAssumption /\ Io!NoOne \notin Queries

ioVars == <<udp, now, tokens, passed, copy, chunk, query, lock, out>>
mcvars == <<part, vars, ioVars>>

MCInit ==
  /\ part \in {"streams", "io"}
  /\ Init /\ Io!Init
  /\ part = "streams" \/ ~filter
  /\ part = "io" \/ ~udp

MCNext ==
  /\ UNCHANGED part
  /\ \/ part = "streams" /\ Next /\ UNCHANGED ioVars
     \/ part = "io" /\ Io!Next /\ UNCHANGED vars

\* Only the streams have properties that need fairness.
MCSpec == MCInit /\ [][MCNext]_mcvars /\ (part = "streams" => Fairness)

----------------------------------------------------------------------------

\* What the copies let through stays within burst and rate (ExitIo, RateLimiter).
RateKept == Io!RateKept

\* DNS answers are framed whole (ExitIo, proxy_dns).
AnswersWhole == Io!AnswersWhole
=============================================================================
