----------------------------- MODULE CryptPipe -----------------------------
(***************************************************************************)
(* One direction of the pipe that encrypts between client and exit when    *)
(* the transport has no shared secret (libraries/geph5-misc-rpc: exit.rs   *)
(* ClientExitCryptPipe, lib.rs).  A task at each end moves bytes between   *)
(* an in-memory pipe (bipe) and the transport, in frames of a length and a *)
(* ciphertext; nonces are counted at both ends and never sent.             *)
(***************************************************************************)
EXTENDS Naturals, Sequences

CONSTANTS MaxBytes,   \* bound: bytes written in all
          MaxFrames,  \* bound: frames sent; a closed pipe goes on sending empty ones
          CHUNK,      \* bytes of one frame (8192)
          BIPE,       \* capacity of a bipe (32768)
          CAP         \* lengths and ciphertexts the transport holds

VARIABLES given,      \* bytes written by the application
          wclosed,    \* it has closed write_outgoing
          dropped,    \* it has dropped the pipe
          outgoing,   \* the bipe to the write task
          sending,    \* what the write task has still to write
          wnonce, wire,
          cut,        \* the transport has failed
          rnonce,
          held,       \* plaintext the read task has still to hand on
          rtask,      \* whether the read task runs
          incoming,   \* the bipe to the application
          out         \* bytes the application has read

wvars == <<given, wclosed, dropped, outgoing, sending, wnonce>>
rvars == <<rnonce, held, rtask, incoming, out>>
vars == <<wvars, wire, cut, rvars>>

Init ==
  /\ given = 0 /\ wclosed = FALSE /\ dropped = FALSE /\ outgoing = <<>> /\ sending = <<>>
  /\ wnonce = 0 /\ wire = <<>> /\ cut = FALSE
  /\ rnonce = 0 /\ held = <<>> /\ rtask = TRUE /\ incoming = <<>> /\ out = <<>>

After(s, n) == SubSeq(s, n + 1, Len(s))

----------------------------------------------------------------------------
PollWrite ==
  /\ ~wclosed /\ ~dropped /\ given < MaxBytes /\ Len(outgoing) < BIPE
  /\ given' = given + 1 /\ outgoing' = Append(outgoing, given + 1)
  /\ UNCHANGED <<wclosed, dropped, sending, wnonce, wire, cut, rvars>>
PollClose ==
  /\ ~wclosed /\ ~dropped /\ wclosed' = TRUE
  /\ UNCHANGED <<given, dropped, outgoing, sending, wnonce, wire, cut, rvars>>

\* Dropping the pipe cancels the write task wherever it is, and ends the transport.
Dropped ==
  /\ ~dropped /\ dropped' = TRUE /\ sending' = <<>> /\ outgoing' = <<>>
  /\ UNCHANGED <<given, wclosed, wnonce, wire, cut, rvars>>

\* The write task reads some bytes, or none from a bipe that is closed, and encrypts
\* them; write_prepend_length then writes the length and the ciphertext.
Frame(nonce, body) == <<[nonce |-> nonce, len |-> Len(body), body |-> <<>>],
                        [nonce |-> nonce, len |-> Len(body), body |-> body]>>
WriteTask ==
  /\ ~dropped /\ sending = <<>> /\ wnonce < MaxFrames
  /\ \E n \in 0 .. CHUNK :
       /\ n <= Len(outgoing) /\ (n = 0 <=> outgoing = <<>>) /\ (n = 0 => wclosed)
       /\ sending' = Frame(wnonce, SubSeq(outgoing, 1, n))
       /\ outgoing' = After(outgoing, n)
  /\ wnonce' = wnonce + 1
  /\ UNCHANGED <<given, wclosed, dropped, wire, cut, rvars>>
WritePrependLength ==
  /\ sending # <<>> /\ ~cut /\ Len(wire) < CAP
  /\ wire' = Append(wire, Head(sending)) /\ sending' = Tail(sending)
  /\ UNCHANGED <<given, wclosed, dropped, outgoing, wnonce, cut, rvars>>

Cut == ~cut /\ cut' = TRUE /\ wire' = <<>> /\ UNCHANGED <<wvars, rvars>>

\* read_prepend_length takes a whole frame, or fails at the end of the transport.
ReadPrependLength(decrypted) ==
  \/ /\ Len(wire) >= 2 /\ wire' = After(wire, 2)
     /\ IF decrypted THEN held' = wire[2].body /\ rnonce' = rnonce + 1 /\ UNCHANGED rtask
        ELSE rtask' = FALSE /\ UNCHANGED <<held, rnonce>>
  \/ /\ Len(wire) < 2 /\ (dropped \/ cut)
     /\ rtask' = FALSE /\ UNCHANGED <<wire, held, rnonce>>

\* The read task decrypts with its own count of frames.
ReadTaskFromOne ==
  /\ rtask /\ held = <<>>
  /\ ReadPrependLength(Len(wire) >= 2 /\ wire[2].nonce = rnonce + 1)
  /\ UNCHANGED <<wvars, cut, incoming, out>>
ReadTask ==
  /\ rtask /\ held = <<>>
  /\ ReadPrependLength(Len(wire) >= 2 /\ wire[2].nonce = rnonce)
  /\ UNCHANGED <<wvars, cut, incoming, out>>
WriteIncoming ==
  /\ held # <<>> /\ Len(incoming) < BIPE
  /\ incoming' = Append(incoming, Head(held)) /\ held' = Tail(held)
  /\ UNCHANGED <<wvars, wire, cut, rnonce, rtask, out>>

PollRead ==
  /\ incoming # <<>>
  /\ out' = Append(out, Head(incoming)) /\ incoming' = Tail(incoming)
  /\ UNCHANGED <<wvars, wire, cut, rnonce, held, rtask>>

----------------------------------------------------------------------------
Next ==
  \/ PollWrite \/ PollClose \/ Dropped \/ WriteTask \/ WritePrependLength \/ Cut
  \/ ReadTask \/ WriteIncoming \/ PollRead

Spec == Init /\ [][Next]_vars

----------------------------------------------------------------------------
\* How many bytes were read, if they are the first that were given; any other
\* sequence is more than was sent.
Received == IF out = [i \in 1 .. Len(out) |-> i] THEN Len(out) ELSE given + 1

Direction ==
  INSTANCE ByteStream WITH
    sent <- given, rcvd <- Received, closed <- wclosed,
    eof <- ~rtask /\ incoming = <<>> /\ held = <<>>, cut <- cut \/ dropped

\* The pipe keeps the promise of ByteStream: the two counts of nonces never part,
\* though a closed pipe goes on sending empty frames, so that no frame is refused
\* and no end of file comes while the transport holds and the pipe is kept.
Implements == Direction!Spec
=============================================================================
