---------------------------- MODULE SosistabPipe ---------------------------
(***************************************************************************)
(* One direction of an established sosistab3 pipe                          *)
(* (libraries/sillad-sosistab3/src/lib.rs and state.rs): a writer that     *)
(* encrypts each buffer into a frame, perhaps with a padding frame behind  *)
(* it, a lower pipe that takes and gives any number of bytes at a time,    *)
(* and a reader that decrypts as many frames as it has in full.            *)
(*                                                                         *)
(* A frame is a header unit (the encrypted length and its tag, 20 bytes),  *)
(* a unit per byte of the body, and a unit for the body's tag.  Every unit *)
(* carries the nonce it was encrypted with; a unit decrypts if it is the   *)
(* nonce the reader expects there.                                         *)
(*                                                                         *)
(* A caller polls a write with one buffer until it is written, and flushes *)
(* after that, as write_all and the copies of this repository do: then     *)
(* poll_flush finds to_write_buf empty and only flushes the lower pipe.  A *)
(* flush in between could empty it, and the same buffer be sent again.     *)
(***************************************************************************)
EXTENDS Integers, Sequences

CONSTANTS MaxWrite,   \* bound: bytes of one buffer
          MaxBytes,   \* bound: bytes written in all
          CAP         \* units the lower pipe holds

VARIABLES obfs,       \* obfs_params.obfs_lengths
          buf,        \* bytes of the buffer that poll_write is called with
          given,      \* bytes of all buffers so far
          to_write_buf, send_nonce, wclosed,
          wire,       \* the lower pipe
          cut,        \* the lower pipe has failed
          raw_read_buf, recv_nonce, read_buf,
          rstate,     \* "open", "eof" (read_closed) or "err"
          out         \* bytes the reader has returned

wvars == <<obfs, buf, given, to_write_buf, send_nonce, wclosed>>
rvars == <<raw_read_buf, recv_nonce, read_buf, rstate, out>>
vars == <<wvars, wire, cut, rvars>>

Init ==
  /\ obfs \in BOOLEAN
  /\ buf = 0 /\ given = 0 /\ to_write_buf = <<>> /\ send_nonce = 0 /\ wclosed = FALSE
  /\ wire = <<>> /\ cut = FALSE
  /\ raw_read_buf = <<>> /\ recv_nonce = 0 /\ read_buf = <<>> /\ rstate = "open"
  /\ out = 0

----------------------------------------------------------------------------
(* The writer.                                                             *)

Unit(kind, nonce, val) == [kind |-> kind, nonce |-> nonce, val |-> val]

\* encrypt_inner: the length, negative in a padding frame, under one nonce and
\* the body under the next.
EncryptInner(nonce, bts, is_padding) ==
  <<Unit("length", nonce, IF is_padding THEN -Len(bts) ELSE Len(bts))>>
    \o [i \in 1 .. Len(bts) |-> Unit("body", nonce + 1, bts[i])]
    \o <<Unit("tag", nonce + 1, 0)>>

\* encrypt: the outputs a buffer can have.  A short buffer is padded when lengths
\* are obfuscated, with a frame of its own whose body may be empty.
Encrypt(nonce, bts) ==
  LET data == EncryptInner(nonce, bts, FALSE) IN
  {[bytes |-> data, nonces |-> 2]} \cup
  (IF obfs THEN {[bytes |-> data \o EncryptInner(nonce + 2, pad, TRUE), nonces |-> 4] :
                   pad \in {<<>>, <<0>>}}
   ELSE {})

\* poll_write with a new buffer: to_write_buf is empty, so it is encrypted.
PollWrite(n) ==
  /\ buf = 0 /\ ~wclosed /\ given + n <= MaxBytes
  /\ buf' = n /\ given' = given + n
  /\ \E e \in Encrypt(send_nonce, [i \in 1 .. n |-> given + i]) :
       to_write_buf' = e.bytes /\ send_nonce' = send_nonce + e.nonces
  /\ UNCHANGED <<obfs, wclosed, wire, cut, rvars>>

\* The lower pipe takes some of it, now or when the same poll is repeated; the
\* buffer counts as written once nothing is left.
LowerWrite ==
  /\ to_write_buf # <<>> /\ ~cut
  /\ \E n \in 1 .. Len(to_write_buf) :
       /\ Len(wire) + n <= CAP
       /\ wire' = wire \o SubSeq(to_write_buf, 1, n)
       /\ to_write_buf' = SubSeq(to_write_buf, n + 1, Len(to_write_buf))
       /\ buf' = IF n = Len(to_write_buf) THEN 0 ELSE buf
  /\ UNCHANGED <<obfs, given, send_nonce, wclosed, cut, rvars>>

\* poll_close passes straight to the lower pipe.
PollClose ==
  /\ buf = 0 /\ ~wclosed
  /\ wclosed' = TRUE
  /\ UNCHANGED <<obfs, buf, given, to_write_buf, send_nonce, wire, cut, rvars>>

\* The lower pipe is lost, with what it holds.
Cut ==
  /\ ~cut /\ cut' = TRUE /\ wire' = <<>>
  /\ UNCHANGED <<wvars, rvars>>

----------------------------------------------------------------------------
(* The reader.                                                             *)

\* The body of a frame is data if its length is positive, and padding if not.
BodyOrPadding(raw, len) ==
  [i \in 1 .. (IF len < 0 THEN -len ELSE len) |-> raw[i + 1].val]
Body(raw, len) == IF len > 0 THEN [i \in 1 .. len |-> raw[i + 1].val] ELSE <<>>

\* Both nonces of a frame are used up, whatever it holds.
NonceStep(len) == 2

\* decrypt: what it makes of the raw buffer.  It wants the header and more
\* before it looks, and the whole body and its tag before it goes on.
Decrypt(raw, nonce) ==
  LET len == Head(raw).val
      n == IF len < 0 THEN -len ELSE len
      fails == [res |-> "broken", used |-> 0, body |-> <<>>, step |-> 0]
      more == [fails EXCEPT !.res = "more"]
  IN IF Len(raw) < 2 THEN more
     ELSE IF Head(raw).kind # "length" \/ Head(raw).nonce # nonce THEN fails
     ELSE IF n + 1 > Len(raw) - 1 THEN more
     ELSE IF \E i \in 2 .. (n + 2) : raw[i].nonce # nonce + 1 THEN fails
     ELSE [res |-> "ok", used |-> n + 2, body |-> Body(raw, len), step |-> NonceStep(len)]

\* poll_read's inner loop: fragment after fragment, until one needs more data
\* or is broken.
RECURSIVE DecryptAll(_, _, _)
DecryptAll(raw, nonce, body) ==
  LET d == Decrypt(raw, nonce) IN
  IF d.res = "ok"
  THEN DecryptAll(SubSeq(raw, d.used + 1, Len(raw)), nonce + d.step, body \o d.body)
  ELSE [raw |-> raw, nonce |-> nonce, body |-> body, res |-> d.res]

\* poll_read finds read_buf empty and reads from below.  With nothing decrypted
\* it goes round again, so a padding frame alone returns nothing.
LowerRead ==
  /\ read_buf = <<>> /\ rstate = "open" /\ wire # <<>>
  /\ \E n \in 1 .. Len(wire) :
       LET d == DecryptAll(raw_read_buf \o SubSeq(wire, 1, n), recv_nonce, <<>>) IN
       /\ wire' = SubSeq(wire, n + 1, Len(wire))
       /\ raw_read_buf' = d.raw /\ recv_nonce' = d.nonce /\ read_buf' = d.body
       /\ rstate' = IF d.res = "broken" THEN "err" ELSE "open"
  /\ UNCHANGED <<wvars, cut, out>>

\* The lower pipe reports its end or, when it has failed, an error.
LowerEof ==
  /\ read_buf = <<>> /\ rstate = "open" /\ wire = <<>>
  /\ \/ wclosed /\ rstate' = "eof"
     \/ cut /\ rstate' \in {"eof", "err"}
  /\ UNCHANGED <<wvars, wire, cut, raw_read_buf, recv_nonce, read_buf, out>>

\* poll_read returns some of read_buf, without asking for the rest.
PollRead ==
  /\ read_buf # <<>>
  /\ \E n \in 1 .. Len(read_buf) :
       /\ out' = out + n
       /\ read_buf' = SubSeq(read_buf, n + 1, Len(read_buf))
  /\ UNCHANGED <<wvars, wire, cut, raw_read_buf, recv_nonce, rstate>>

----------------------------------------------------------------------------
Next ==
  \/ \E n \in 1 .. MaxWrite : PollWrite(n)
  \/ LowerWrite \/ PollClose \/ Cut \/ LowerRead \/ LowerEof \/ PollRead

Spec == Init /\ [][Next]_vars

----------------------------------------------------------------------------
\* What has been decrypted is the next bytes the writer gave; anything else counts
\* as more than was sent.
InOrder == read_buf = [i \in 1 .. Len(read_buf) |-> out + i]

Direction ==
  INSTANCE ByteStream WITH
    sent <- given, rcvd <- IF InOrder THEN out ELSE given + 1, closed <- wclosed,
    eof <- rstate # "open" /\ read_buf = <<>>, cut <- cut

\* The pipe keeps the promise of ByteStream: bytes come once and in order, however
\* the lower pipe splits the frames and wherever padding frames fall between them,
\* and as long as the lower pipe holds the reader meets neither an error nor the end
\* of file before it has read all that was written before the close (State::decrypt,
\* poll_read).
Implements == Direction!Spec
=============================================================================
