----------------------------- MODULE ByteStream ----------------------------
(***************************************************************************)
(* What a pipe of this code base promises for one direction, whatever its  *)
(* layer: the reader gets what was written, in order and once, and sees    *)
(* end of file only after the writer has closed and everything was read,   *)
(* unless the stream was cut.  PicomuxStream, SosistabPipe and CryptPipe   *)
(* implement it.  Bytes are counted: what has been read is the first rcvd  *)
(* of those sent.                                                          *)
(***************************************************************************)
EXTENDS Naturals

VARIABLES sent, rcvd, closed, eof, cut

vars == <<sent, rcvd, closed, eof, cut>>

Init == sent = 0 /\ rcvd = 0 /\ ~closed /\ ~eof /\ ~cut

Write ==
  /\ ~closed
  /\ sent' > sent
  /\ UNCHANGED <<rcvd, closed, eof, cut>>

\* What is read was written, and a read after the end reads nothing.
Read ==
  /\ ~eof
  /\ rcvd' > rcvd /\ rcvd' <= sent
  /\ (eof' => cut \/ (closed /\ rcvd' = sent))
  /\ UNCHANGED <<sent, closed, cut>>

Close == closed' = TRUE /\ UNCHANGED <<sent, rcvd, eof, cut>>

\* One end gives up, or the connection below is lost.
Abort ==
  /\ cut' = TRUE /\ (eof => eof') /\ (closed => closed')
  /\ UNCHANGED <<sent, rcvd>>

Eof ==
  /\ eof' = TRUE
  /\ cut \/ (closed /\ rcvd = sent)
  /\ UNCHANGED <<sent, rcvd, closed, cut>>

Next == Write \/ Read \/ Close \/ Abort \/ Eof

Spec == Init /\ [][Next]_vars
=============================================================================
