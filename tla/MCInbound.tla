----------------------------- MODULE MCInbound -----------------------------
(***************************************************************************)
(* What comes in from outside, each kind on its own: payments, which the   *)
(* broker sees through its caches (Subscriptions), handshakes that reach a *)
(* sosistab3 listener (SosistabListener), and connections that a bridge    *)
(* passes on to an exit (B2e).  A behaviour is one of one part: the others *)
(* keep their initial state.                                               *)
(***************************************************************************)
EXTENDS Subscriptions

CONSTANTS MaxConns, Skews, WAIT, MaxTime,        \* SosistabListener
          Visitors, Workers, QUEUE, MaxProcs, MaxFaults  \* B2e

VARIABLES part,
          time, hello, server, accepted, bucket, last_size, open, last,
          listener, conn, count, pool, queue, worker, mux, inbox, task, table, proc,
          served, conntest, deaths, lost, faults

Listener == INSTANCE SosistabListener WITH now <- time
Bridge == INSTANCE B2e WITH Conns <- Visitors

ASSUME WaitAssumption == WAIT \in Nat
ASSUME BridgeAssumption == IsFiniteSet(Workers) /\ MaxFaults \in Nat

listenerVars == <<time, hello, server, accepted, bucket, last_size, open, last>>
bridgeVars == <<listener, conn, count, pool, queue, worker, mux, inbox, task, table, proc,
                served, conntest, deaths, lost, faults>>
mcvars == <<part, vars, listenerVars, bridgeVars>>

MCInit ==
  /\ part \in {"payments", "listener", "bridge"}
  /\ Init /\ Listener!Init /\ Bridge!Init
  /\ part = "bridge" \/ ~conntest

MCNext ==
  /\ UNCHANGED part
  /\ \/ part = "payments" /\ Next /\ UNCHANGED <<listenerVars, bridgeVars>>
     \/ part = "listener" /\ Listener!Next /\ UNCHANGED <<vars, bridgeVars>>
     \/ part = "bridge" /\ Bridge!Next /\ UNCHANGED <<vars, listenerVars>>

MCSpec == MCInit /\ [][MCNext]_mcvars

----------------------------------------------------------------------------

\* A handshake is let through again only after the expiry time
\* (SosistabListener, Dedup).
RepeatsApart == Listener!RepeatsApart

\* A dead session costs the bridge at most one request (B2e, remote_once).
LossBounded == Bridge!LossBounded

\* No eviction of b2e_table costs a live session (B2e, b2e_loop).
SessionSurvives == Bridge!SessionSurvives
=============================================================================
