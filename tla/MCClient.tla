------------------------------ MODULE MCClient -----------------------------
(***************************************************************************)
(* Three parts of the client, each on its own: the connections             *)
(* applications make, through the VPN or SOCKS5 (ClientFront), the         *)
(* instances that open them through their sessions (ClientSession), and    *)
(* the tokens these authenticate with (ConnToken).  A behaviour is one of  *)
(* one of the Parts: the others keep their initial state.                  *)
(***************************************************************************)
EXTENDS ClientFront

CONSTANTS Parts,                      \* "front", "session", "token"
          Requests, Instances,        \* ClientSession
          Waiters, Expiries, MaxEpoch \* ConnToken

VARIABLES part, caller, queue, tasks, inst, alive,
          epoch, seen, db, checked, refresh, ep, plus, cur, level, waiter, wants,
          heard, unsaid, lastPlus, signedUntil

Session == INSTANCE ClientSession
Token == INSTANCE ConnToken

ASSUME TokenAssumption == Token!EpochAssumption

sessionVars == <<caller, queue, tasks, inst, alive>>
tokenVars == <<epoch, seen, db, checked, refresh, ep, plus, cur, level, waiter, wants,
               heard, unsaid, lastPlus, signedUntil>>
mcvars == <<part, vars, sessionVars, tokenVars>>

MCInit ==
  /\ part \in Parts /\ Init /\ Session!Init /\ Token!Init
  /\ part # "token" => \A e \in DOMAIN db : db[e] = "none"

MCNext ==
  /\ UNCHANGED part
  /\ \/ part = "front" /\ Next /\ UNCHANGED <<sessionVars, tokenVars>>
     \/ part = "session" /\ Session!Next /\ UNCHANGED <<vars, tokenVars>>
     \/ part = "token" /\ Token!Next /\ UNCHANGED <<vars, sessionVars>>

\* The fairness of the part that runs, when that is not the tokens.
MCFairness ==
  \/ part = "front" /\ Fairness
  \/ part = "session" /\ Session!Fairness

MCSpec == MCInit /\ [][MCNext]_mcvars /\ MCFairness
MCTokenSpec == MCInit /\ [][MCNext]_mcvars /\ Token!Fairness

----------------------------------------------------------------------------

\* open_conn returns (ClientSession).
Answered == Session!Answered

\* Plus outlives the subscription by one epoch at most (ConnToken).
PlusOutlivesByOne == Token!PlusOutlivesByOne

\* An instance that waits for its token misses no wakeup (ConnToken).
WakeupKept == Token!WakeupKept

\* The client has a token for the epoch again and again (ConnToken).
TokenReturns == Token!TokenReturns

\* A subscription that stays is honoured (ConnToken).
PlusHonoured == Token!PlusHonoured
=============================================================================
