---------------------------- MODULE MCTransport ----------------------------
(***************************************************************************)
(* How bytes get from the client to an exit, each part on its own: the     *)
(* dial and the two hellos (Dialing), the two encrypting pipes             *)
(* (SosistabPipe, CryptPipe), and the messages that the client's HTTP      *)
(* proxy relays (HttpProxy).  A behaviour is one of one part: the others   *)
(* keep their initial state.                                               *)
(***************************************************************************)
EXTENDS Dialing

CONSTANTS MaxWrite, MaxBytes, CAP,                        \* both pipes
          MaxFrames, CHUNK, BIPE,                         \* CryptPipe
          Tokens, Plain, MaxValues, MaxTokens             \* HttpProxy

VARIABLES part,
          obfs, buf, given, to_write_buf, send_nonce, wclosed, wire, cut, raw_read_buf,
          recv_nonce, read_buf, rstate, out,
          c_given, c_wclosed, dropped, outgoing, sending, wnonce, c_wire, c_cut, rnonce,
          held, rtask, incoming, c_out,
          req, state, keep, sent, answer, dialed

Sosistab == INSTANCE SosistabPipe
Crypt == INSTANCE CryptPipe
  WITH given <- c_given, wclosed <- c_wclosed, wire <- c_wire, cut <- c_cut, out <- c_out
Proxy == INSTANCE HttpProxy

sosistabVars ==
  <<obfs, buf, given, to_write_buf, send_nonce, wclosed, wire, cut, raw_read_buf,
    recv_nonce, read_buf, rstate, out>>
cryptVars ==
  <<c_given, c_wclosed, dropped, outgoing, sending, wnonce, c_wire, c_cut, rnonce,
    held, rtask, incoming, c_out>>
proxyVars == <<req, state, keep, sent, answer, dialed>>
mcvars == <<part, vars, sosistabVars, cryptVars, proxyVars>>

\* The state of a Dialing that does not run.
AnyDial ==
  /\ world = <<>> /\ fut = Err /\ cred = NoCred /\ client = "failed" /\ exit = "none"
  /\ mode = [client |-> NoKeys, exit |-> NoKeys]

MCInit ==
  /\ part \in {"dial", "sosistab", "crypt", "proxy"}
  /\ IF part = "dial" THEN Init ELSE AnyDial
  /\ Sosistab!Init /\ Crypt!Init /\ Proxy!Init
  /\ part = "sosistab" \/ ~obfs

MCNext ==
  /\ UNCHANGED part
  /\ \/ part = "dial" /\ Next /\ UNCHANGED <<sosistabVars, cryptVars, proxyVars>>
     \/ part = "sosistab" /\ Sosistab!Next /\ UNCHANGED <<vars, cryptVars, proxyVars>>
     \/ part = "crypt" /\ Crypt!Next /\ UNCHANGED <<vars, sosistabVars, proxyVars>>
     \/ part = "proxy" /\ Proxy!Next /\ UNCHANGED <<vars, sosistabVars, cryptVars>>

MCSpec == MCInit /\ [][MCNext]_mcvars

----------------------------------------------------------------------------

\* A sosistab3 pipe is a ByteStream (SosistabPipe, State::decrypt).
SosistabImplements == Sosistab!Implements

\* An end-to-end encrypted pipe is a ByteStream (CryptPipe, ClientExitCryptPipe).
CryptImplements == Crypt!Implements

\* A request is relayed as its headers ask for (HttpProxy, server_dispatch).
RelayedAsMeant == Proxy!RelayedAsMeant
=============================================================================
