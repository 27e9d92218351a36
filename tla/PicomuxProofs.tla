----------------------------- MODULE PicomuxProofs --------------------------
(***************************************************************************)
(* Proofs about a Picomux session, for every set of calls, every capacity  *)
(* and any link.                                                           *)
(***************************************************************************)
EXTENDS Picomux, TLAPS

----------------------------------------------------------------------------
(* Picomux: while the link and both ends are up, where each stream is in   *)
(* its life, and where the answer to each ping is.                         *)

Syn(id) == <<"SYN", id>>
Fin(id) == <<"FIN", id>>
Ping == <<"PING", <<>>>>
Pong == <<"PONG", <<>>>>
Frames == {Syn(id) : id \in Ids} \cup {Fin(id) : id \in Ids} \cup {Ping, Pong}
CallStates == {"idle", "requesting", "queued", "abandoned", "opened", "cancelled", "error"}

MuxTypes ==
  /\ link \in {"up", "dead"} /\ DOMAIN mux = Peers
  /\ wire \in [Peers -> Seq(Frames)] /\ call \in [Peers -> [Calls -> CallStates]]
  /\ table \in [Peers -> SUBSET Ids] /\ fins \in [Peers -> SUBSET Ids]
  /\ pinger \in [Peers -> {"idle", "awaiting"}] /\ pongs \in [Peers -> Nat]
  /\ \A p \in Peers, c \in Calls : call[p][c] # "idle" => <<p, c>> \in Ids

\* A SYN is sent once, and before any FIN of its stream.
Ordered(w, id) ==
  \A i, j \in 1 .. Len(w) : w[i] = Syn(id) /\ w[j] \in {Syn(id), Fin(id)} => i <= j

Unsent == {"idle", "requesting", "queued", "abandoned"}

\* With o the end that opens stream id and r the other: what is on the wires w of o and v of
\* r, in their tables to and tr and in the buffers fo and fr, when the call is as it is.
Track(w, v, to, tr, fo, fr, st, id) ==
  /\ Syn(id) \notin Elems(v) /\ Ordered(w, id)
  /\ st \in Unsent => {Syn(id), Fin(id)} \cap Elems(w) = {} /\ id \notin to \cup tr
  /\ Syn(id) \in Elems(w) => id \notin tr /\ (id \in to \/ Fin(id) \in Elems(w))
  /\ Syn(id) \notin Elems(w) =>
       /\ id \in to /\ id \notin tr => Fin(id) \in Elems(v) \/ id \in fo
       /\ id \in tr /\ id \notin to => Fin(id) \in Elems(w) \/ id \in fr
Tracked(o, id) ==
  LET r == Peer(o) IN
  Track(wire[o], wire[r], table[o], table[r], fins[o], fins[r], call[o][id[2]], id)

Answered(p) ==
  pinger[p] = "awaiting" => \/ Ping \in Elems(wire[p]) \/ Pong \in Elems(wire[Peer(p)])
                            \/ pongs[p] > 0

BothUp == link = "up" /\ \A p \in Peers : Up(p)
MuxInv ==
  /\ MuxTypes
  /\ BothUp => /\ \A p \in Peers : Answered(p)
               /\ \A id \in Ids : Tracked(id[1], id)

\* Frames of different kinds, or of different streams, are different.
LEMMA FrameFacts ==
  /\ \A id, jd : /\ Syn(id) # Fin(jd) /\ Syn(id) # Ping /\ Syn(id) # Pong
                 /\ Fin(id) # Ping /\ Fin(id) # Pong
                 /\ Syn(id) = Syn(jd) => id = jd
                 /\ Fin(id) = Fin(jd) => id = jd
  /\ Ping # Pong
  BY DEF Syn, Fin, Ping, Pong

\* A frame is what its kind and its stream make it.
LEMMA FrameKinds ==
  ASSUME NEW f \in Frames
  PROVE  /\ f[1] = "SYN" => f[2] \in Ids /\ f = Syn(f[2])
         /\ f[1] = "FIN" => f[2] \in Ids /\ f = Fin(f[2])
         /\ f[1] = "PING" => f = Ping
         /\ f[1] = "PONG" => f = Pong
  BY DEF Frames, Syn, Fin, Ping, Pong

\* What the constructors make is a frame.
LEMMA FramesIn ==
  /\ \A id \in Ids : Syn(id) \in Frames /\ Fin(id) \in Frames
  /\ Ping \in Frames /\ Pong \in Frames
  BY DEF Frames

\* What is on a wire after a frame was put on it,
LEMMA ElemsAppend ==
  ASSUME NEW w \in Seq(Frames), NEW f \in Frames
  PROVE  Append(w, f) \in Seq(Frames) /\ Elems(Append(w, f)) = Elems(w) \cup {f}
<1>1. Append(w, f) \in Seq(Frames) /\ Len(Append(w, f)) = Len(w) + 1
    OBVIOUS
<1>2. /\ \A i \in 1 .. Len(w) : Append(w, f)[i] = w[i]
      /\ Append(w, f)[Len(w) + 1] = f
    OBVIOUS
<1>3. QED BY <1>1, <1>2 DEF Elems

\* and after one was taken off.
LEMMA ElemsTail ==
  ASSUME NEW w \in Seq(Frames), w # <<>>
  PROVE  /\ Tail(w) \in Seq(Frames) /\ Head(w) \in Frames
         /\ Elems(w) = {Head(w)} \cup Elems(Tail(w))
<1>1. /\ Tail(w) \in Seq(Frames) /\ Len(Tail(w)) = Len(w) - 1 /\ Len(w) \in Nat /\ Len(w) # 0
      /\ Head(w) = w[1] /\ Head(w) \in Frames
    OBVIOUS
<1>2. \A i \in 1 .. Len(w) - 1 : Tail(w)[i] = w[i + 1]
    OBVIOUS
<1>3. ASSUME NEW i \in 1 .. Len(w) PROVE w[i] \in {Head(w)} \cup Elems(Tail(w))
  <2>1. CASE i = 1
      BY <1>1, <2>1
  <2>2. CASE i # 1
    <3>1. i - 1 \in 1 .. Len(w) - 1 /\ (i - 1) + 1 = i
        BY <2>2
    <3>2. QED BY <1>1, <1>2, <3>1 DEF Elems
  <2>3. QED BY <2>1, <2>2
<1>4. ASSUME NEW i \in 1 .. Len(w) - 1 PROVE Tail(w)[i] \in Elems(w)
    BY <1>1, <1>2 DEF Elems
<1>5. Head(w) \in Elems(w)
    BY <1>1 DEF Elems
<1>6. Elems(Tail(w)) = {Tail(w)[i] : i \in 1 .. Len(w) - 1}
    BY <1>1 DEF Elems
<1>7. QED BY <1>1, <1>3, <1>4, <1>5, <1>6 DEF Elems

\* A frame put on the wire keeps SYN before FIN, unless it is a SYN too many.
LEMMA OrderedAppend ==
  ASSUME NEW w \in Seq(Frames), NEW f \in Frames, NEW id, Ordered(w, id),
         f = Syn(id) => Syn(id) \notin Elems(w) /\ Fin(id) \notin Elems(w)
  PROVE  Ordered(Append(w, f), id)
<1> DEFINE u == Append(w, f)
<1>1. /\ Len(u) = Len(w) + 1 /\ Len(w) \in Nat /\ u[Len(w) + 1] = f
      /\ \A i \in 1 .. Len(w) : u[i] = w[i]
    OBVIOUS
<1> HIDE DEF u
<1>2. ASSUME NEW i \in 1 .. Len(u), NEW j \in 1 .. Len(u), u[i] = Syn(id), u[j] \in {Syn(id), Fin(id)}
      PROVE  i <= j
  <2>1. CASE j = Len(w) + 1
      BY <1>1, <2>1
  <2>2. CASE j # Len(w) + 1 /\ i # Len(w) + 1
    <3>1. i \in 1 .. Len(w) /\ j \in 1 .. Len(w)
        BY <1>1, <2>2
    <3>2. QED BY <1>1, <1>2, <3>1 DEF Ordered
  <2>3. CASE j # Len(w) + 1 /\ i = Len(w) + 1
    <3>1. j \in 1 .. Len(w) /\ f = Syn(id)
        BY <1>1, <1>2, <2>3
    <3>2. w[j] \in Elems(w) /\ w[j] \in {Syn(id), Fin(id)}
        BY <1>1, <1>2, <3>1 DEF Elems
    <3>3. QED BY <3>1, <3>2
  <2>4. QED BY <2>1, <2>2, <2>3
<1>3. QED BY <1>2 DEF Ordered, u

\* So does taking the first frame off; and a SYN taken off was the only one.
LEMMA OrderedTail ==
  ASSUME NEW w \in Seq(Frames), NEW id, Ordered(w, id), w # <<>>
  PROVE  /\ Ordered(Tail(w), id)
         /\ Head(w) = Syn(id) => Syn(id) \notin Elems(Tail(w))
         /\ Head(w) = Fin(id) => Syn(id) \notin Elems(w)
<1> DEFINE u == Tail(w)
<1>1. /\ Len(u) = Len(w) - 1 /\ Len(w) \in Nat /\ Len(w) # 0 /\ Head(w) = w[1]
      /\ \A i \in 1 .. Len(w) - 1 : u[i] = w[i + 1]
    OBVIOUS
<1> HIDE DEF u
<1>2. ASSUME NEW i \in 1 .. Len(u), NEW j \in 1 .. Len(u), u[i] = Syn(id), u[j] \in {Syn(id), Fin(id)}
      PROVE  i <= j
  <2>1. i + 1 \in 1 .. Len(w) /\ j + 1 \in 1 .. Len(w) /\ u[i] = w[i + 1] /\ u[j] = w[j + 1]
      BY <1>1
  <2>2. i + 1 <= j + 1
      BY <1>2, <2>1 DEF Ordered
  <2>3. QED BY <2>2
<1>3. ASSUME Head(w) = Syn(id), NEW i \in 1 .. Len(u), u[i] = Syn(id) PROVE FALSE
  <2>1. i + 1 \in 1 .. Len(w) /\ w[i + 1] = Syn(id) /\ 1 \in 1 .. Len(w) /\ w[1] = Syn(id)
      BY <1>1, <1>3
  <2>2. i + 1 <= 1
      BY <2>1 DEF Ordered
  <2>3. QED BY <2>2
<1>4. ASSUME Head(w) = Fin(id), NEW i \in 1 .. Len(w), w[i] = Syn(id) PROVE FALSE
  <2>1. 1 \in 1 .. Len(w) /\ w[1] = Fin(id)
      BY <1>1, <1>4
  <2>2. i <= 1
      BY <1>4, <2>1 DEF Ordered
  <2>3. i = 1
      BY <2>2
  <2>4. QED BY <1>4, <2>1, <2>3, FrameFacts
<1>5. QED BY <1>2, <1>3, <1>4 DEF Ordered, Elems, u

----------------------------------------------------------------------------
(* What each event does to a stream.                                       *)

\* Putting a frame on a wire that is not of this stream, or is the FIN of the
\* other end, keeps track of the stream.
LEMMA TrackSend ==
  ASSUME NEW w \in Seq(Frames), NEW v \in Seq(Frames), NEW to, NEW tr, NEW fo, NEW fr, NEW st, NEW id,
         Track(w, v, to, tr, fo, fr, st, id), NEW f \in Frames
  PROVE  /\ f \notin {Syn(id), Fin(id)} => Track(Append(w, f), v, to, tr, fo, fr, st, id)
         /\ f # Syn(id) => Track(w, Append(v, f), to, tr, fo, fr, st, id)
  BY ElemsAppend, OrderedAppend DEF Track

\* So does taking a frame off that is not of this stream.
LEMMA TrackTake ==
  ASSUME NEW w \in Seq(Frames), NEW v \in Seq(Frames), NEW to, NEW tr, NEW fo, NEW fr, NEW st, NEW id,
         Track(w, v, to, tr, fo, fr, st, id)
  PROVE  /\ w # <<>> /\ Head(w) \notin {Syn(id), Fin(id)} => Track(Tail(w), v, to, tr, fo, fr, st, id)
         /\ v # <<>> /\ Head(v) # Fin(id) => Track(w, Tail(v), to, tr, fo, fr, st, id)
  BY ElemsTail, OrderedTail DEF Track

\* OpenHandle
LEMMA TrackOpen ==
  ASSUME NEW w \in Seq(Frames), NEW v \in Seq(Frames), NEW to, NEW tr, NEW fo, NEW fr, NEW st, NEW id \in Ids,
         Track(w, v, to, tr, fo, fr, st, id), st \in Unsent, NEW st2, st2 \notin Unsent
  PROVE  Track(Append(w, Syn(id)), v, to \cup {id}, tr, fo, fr, st2, id)
<1>1. Elems(Append(w, Syn(id))) = Elems(w) \cup {Syn(id)}
    BY ElemsAppend, FramesIn
<1>2. Ordered(Append(w, Syn(id)), id)
    BY OrderedAppend, FramesIn DEF Track
<1>3. QED BY <1>1, <1>2 DEF Track

\* EndStream of either end
LEMMA TrackEnd ==
  ASSUME NEW w \in Seq(Frames), NEW v \in Seq(Frames), NEW to, NEW tr, NEW fo, NEW fr, NEW st, NEW id \in Ids,
         Track(w, v, to, tr, fo, fr, st, id)
  PROVE  /\ id \in to => Track(Append(w, Fin(id)), v, to \ {id}, tr, fo \ {id}, fr, st, id)
         /\ id \in tr => Track(w, Append(v, Fin(id)), to, tr \ {id}, fo, fr \ {id}, st, id)
<1>1. /\ Elems(Append(w, Fin(id))) = Elems(w) \cup {Fin(id)}
      /\ Elems(Append(v, Fin(id))) = Elems(v) \cup {Fin(id)}
    BY ElemsAppend, FramesIn
<1>2. Ordered(Append(w, Fin(id)), id) /\ Fin(id) # Syn(id)
    BY OrderedAppend, FramesIn, FrameFacts DEF Track
<1>3. QED BY <1>1, <1>2 DEF Track

\* HandleSyn
LEMMA TrackSyn ==
  ASSUME NEW w \in Seq(Frames), NEW v \in Seq(Frames), NEW to, NEW tr, NEW fo, NEW fr, NEW st, NEW id \in Ids,
         Track(w, v, to, tr, fo, fr, st, id), w # <<>>, Head(w) = Syn(id)
  PROVE  Track(Tail(w), v, to, tr \cup {id}, fo, fr, st, id)
<1>1. Elems(w) = {Syn(id)} \cup Elems(Tail(w))
    BY ElemsTail
<1>2. Ordered(Tail(w), id) /\ Syn(id) \notin Elems(Tail(w)) /\ Fin(id) # Syn(id)
    BY OrderedTail, FrameFacts DEF Track
<1>3. QED BY <1>1, <1>2 DEF Track

\* HandleFin of either end
LEMMA TrackFin ==
  ASSUME NEW w \in Seq(Frames), NEW v \in Seq(Frames), NEW to, NEW tr, NEW fo, NEW fr, NEW st, NEW id \in Ids,
         Track(w, v, to, tr, fo, fr, st, id), NEW f2
  PROVE  /\ w # <<>> /\ Head(w) = Fin(id) /\ (id \in tr => id \in f2) =>
              Track(Tail(w), v, to, tr, fo, f2, st, id)
         /\ v # <<>> /\ Head(v) = Fin(id) /\ (id \in to => id \in f2) =>
              Track(w, Tail(v), to, tr, f2, fr, st, id)
<1>1. ASSUME w # <<>>, Head(w) = Fin(id), id \in tr => id \in f2
      PROVE  Track(Tail(w), v, to, tr, fo, f2, st, id)
  <2>1. Elems(w) = {Fin(id)} \cup Elems(Tail(w))
      BY <1>1, ElemsTail
  <2>2. Ordered(Tail(w), id) /\ Syn(id) \notin Elems(w)
      BY <1>1, OrderedTail DEF Track
  <2>3. QED BY <1>1, <2>1, <2>2 DEF Track
<1>2. ASSUME v # <<>>, Head(v) = Fin(id), id \in to => id \in f2
      PROVE  Track(w, Tail(v), to, tr, f2, fr, st, id)
  <2>1. Elems(v) = {Fin(id)} \cup Elems(Tail(v))
      BY <1>2, ElemsTail
  <2>2. QED BY <1>2, <2>1 DEF Track
<1>3. QED BY <1>1, <1>2

----------------------------------------------------------------------------
(* The steps of Picomux.                                                   *)

\* There are two ends, each the peer of the other.
LEMMA PeerFacts ==
  \A p \in Peers : /\ Peer(p) \in Peers /\ Peer(p) # p /\ Peer(Peer(p)) = p
                   /\ \A q \in Peers : q = p \/ q = Peer(p)
<1>1. PICK x \in Peers, y \in Peers : x # y /\ Peers = {x, y}
    BY MuxAssumption
<1>2. ASSUME NEW p \in Peers PROVE Peer(p) \in Peers /\ Peer(p) # p
  <2>1. \E q \in Peers : q # p
      BY <1>1
  <2>2. QED BY <2>1 DEF Peer
<1>3. QED BY <1>1, <1>2

\* An id names the end that opens the stream and its call.
LEMMA IdFacts == \A id \in Ids : id[1] \in Peers /\ id[2] \in Calls /\ id = <<id[1], id[2]>>
  BY MuxAssumption DEF Ids

\* An end dies: it was up, and is no more.
Dies == \E p \in Peers, why \in {"duplicate SYN", "broken pipe", "ping-pong timed out", "dropped"} :
          Up(p) /\ Die(p, why) /\ UNCHANGED <<link, call>>

\* The steps of a session, by what they do to the variables of the proof.
LEMMA MuxSteps ==
  ASSUME [Next]_vars
  PROVE  \/ UNCHANGED <<link, mux, wire, call, table, fins, pinger, pongs>>
         \/ \E p \in Peers, c \in Calls : \/ OpenCall(p, c) \/ OpenSend(p, c) \/ OpenCancel(p, c)
                                          \/ OpenError(p, c) \/ OpenHandle(p, c)
         \/ \E p \in Peers, id \in Ids : EndStream(p, id)
         \/ \E p \in Peers : SendPing(p) \/ TakePong(p) \/ Handle(p) \/ ReadEof(p) \/ PingTimeout(p) \/ DropMux(p)
         \/ LinkDies
<1>1. CASE UNCHANGED vars
    BY <1>1 DEF vars
<1>2. CASE Over
    BY <1>2 DEF Over, vars
<1>3. ASSUME NEW p \in Peers, Accept(p) PROVE UNCHANGED <<link, mux, wire, call, table, fins, pinger, pongs>>
    BY <1>3 DEF Accept, pingVars
<1>4. ASSUME NEW p \in Peers, NEW id \in Ids, CloseStream(p, id)
      PROVE  UNCHANGED <<link, mux, wire, call, table, fins, pinger, pongs>>
    BY <1>4 DEF CloseStream, pingVars
<1>5. QED
    BY <1>1, <1>2, <1>3, <1>4 DEF Next, Step, Environment

\* What the reader loop does with the first frame on wire q, when it does not end p.
Takes(p, q) ==
  /\ Up(p) /\ wire[q] # <<>> /\ UNCHANGED <<link, mux, call, pinger>>
  /\ \/ /\ Head(wire[q])[1] = "SYN" /\ Head(wire[q])[2] \notin table[p] /\ wire' = Taken(q)
        /\ table' = [table EXCEPT ![p] = @ \cup {Head(wire[q])[2]}] /\ UNCHANGED <<fins, pongs>>
     \/ /\ Head(wire[q])[1] = "FIN" /\ wire' = Taken(q) /\ UNCHANGED <<table, pongs>>
        /\ fins' = IF Head(wire[q])[2] \in table[p]
                   THEN [fins EXCEPT ![p] = @ \cup {Head(wire[q])[2]}] ELSE fins
     \/ /\ Head(wire[q])[1] = "PING" /\ wire' = Replied(p, q, Pong) /\ UNCHANGED <<table, fins, pongs>>
     \/ /\ Head(wire[q])[1] = "PONG" /\ wire' = Taken(q) /\ UNCHANGED <<table, fins>>
        /\ pongs' = [pongs EXCEPT ![p] = @ + 1]

\* The reader loop takes a frame, or dies of a second SYN or a broken pipe.
LEMMA HandleSteps ==
  ASSUME NEW p \in Peers, Handle(p)
  PROVE  \/ Takes(p, Peer(p))
         \/ /\ Dies /\ wire[Peer(p)] # <<>> /\ Head(wire[Peer(p)])[1] = "SYN"
            /\ Head(wire[Peer(p)])[2] \in table[p]
<1> DEFINE q == Peer(p)
           f == Head(wire[q])
<1>1. Up(p) /\ wire[q] # <<>> /\ UNCHANGED <<link, call>>
    BY DEF Handle
<1>2. CASE f[1] = "SYN" /\ HandleSyn(p, q, f[2])
  <2>1. CASE f[2] \in table[p]
      BY Zenon, <1>1, <1>2, <2>1 DEF HandleSyn, Dies
  <2>2. CASE f[2] \notin table[p]
      BY <1>1, <1>2, <2>2 DEF HandleSyn, Takes, pingVars
  <2>3. QED BY <2>1, <2>2
<1>3. CASE f[1] = "FIN" /\ HandleFin(p, q, f[2])
    BY <1>1, <1>3 DEF HandleFin, Takes, pingVars
<1>4. CASE f[1] = "PING" /\ HandlePing(p, q)
    BY <1>1, <1>4 DEF HandlePing, Takes, pingVars, streamVars, Pong
<1>5. CASE f[1] = "PONG" /\ HandlePong(p, q)
    BY <1>1, <1>5 DEF HandlePong, Takes, streamVars
<1>6. QED BY <1>2, <1>3, <1>4, <1>5 DEF Handle

\* The invariant holds in the initial states.
LEMMA MuxInit == Init => MuxInv
<1> SUFFICES ASSUME Init PROVE MuxInv
    OBVIOUS
<1>1. MuxTypes
  <2>1. <<>> \in Seq(Frames) /\ {} \in SUBSET Ids /\ 0 \in Nat
      OBVIOUS
  <2>2. QED BY <2>1 DEF Init, MuxTypes, CallStates
<1>2. \A p \in Peers : Elems(wire[p]) = {} /\ table[p] = {} /\ Len(wire[p]) = 0
    BY DEF Init, Elems
<1>3. \A p \in Peers : Answered(p)
    BY DEF Init, Answered
<1>4. ASSUME NEW id \in Ids PROVE Tracked(id[1], id)
  <2>1. id[1] \in Peers /\ Peer(id[1]) \in Peers
      BY IdFacts, PeerFacts
  <2>2. Ordered(wire[id[1]], id)
      BY <1>2, <2>1 DEF Ordered
  <2>3. QED BY <1>2, <2>1, <2>2 DEF Tracked, Track
<1>5. QED BY <1>1, <1>3, <1>4 DEF MuxInv

\* What is left of a wire when its end is cut off.
LEMMA Prefix ==
  ASSUME NEW w \in Seq(Frames), NEW n \in 0 .. Len(w)
  PROVE  SubSeq(w, 1, n) \in Seq(Frames)
<1>1. Len(w) \in Nat /\ \A i \in 1 .. n : w[i] \in Frames
    OBVIOUS
<1>2. n \in Nat
    BY <1>1
<1>3. SubSeq(w, 1, n) = [i \in 1 .. n |-> w[i]]
    BY <1>2
<1>4. QED BY <1>1, <1>2, <1>3

\* A death keeps the types,
LEMMA DieTypes ==
  ASSUME MuxTypes, Dies
  PROVE  MuxTypes'
<1>1. PICK p \in Peers, why \in {"duplicate SYN", "broken pipe", "ping-pong timed out", "dropped"} :
        Die(p, why) /\ UNCHANGED <<link, call>>
    BY Zenon DEF Dies
<1>2. wire' \in [Peers -> Seq(Frames)]
  <2>1. PICK n \in 0 .. Len(wire[p]) : wire' = [wire EXCEPT ![p] = SubSeq(@, 1, n)]
      BY Zenon, <1>1 DEF Die
  <2>2. wire[p] \in Seq(Frames)
      BY Zenon DEF MuxTypes
  <2>3. SubSeq(wire[p], 1, n) \in Seq(Frames)
      BY Zenon, <2>2, Prefix
  <2>4. QED BY Zenon, <2>1, <2>3 DEF MuxTypes
<1>3. DOMAIN mux' = Peers /\ link' \in {"up", "dead"} /\ call' \in [Peers -> [Calls -> CallStates]]
    BY Zenon, <1>1 DEF Die, Set, MuxTypes
<1>4. /\ table' \in [Peers -> SUBSET Ids] /\ fins' \in [Peers -> SUBSET Ids]
      /\ pinger' \in [Peers -> {"idle", "awaiting"}] /\ pongs' \in [Peers -> Nat]
    BY Zenon, <1>1 DEF Die, Set, MuxTypes
<1>5. QED BY Zenon, <1>1, <1>2, <1>3, <1>4 DEF MuxTypes

\* and so does sending a frame,
LEMMA SentTypes ==
  ASSUME MuxTypes, NEW p \in Peers, NEW f \in Frames, wire' = Sent(p, f)
  PROVE  wire' \in [Peers -> Seq(Frames)]
  BY ElemsAppend DEF MuxTypes, Sent

\* taking one,
LEMMA TakesTypes ==
  ASSUME MuxTypes, NEW p \in Peers, Takes(p, Peer(p))
  PROVE  MuxTypes'
<1> DEFINE q == Peer(p)
           f == Head(wire[q])
<1>1. q \in Peers /\ wire[q] \in Seq(Frames) /\ wire[q] # <<>>
    BY PeerFacts DEF MuxTypes, Takes
<1>2. f \in Frames /\ Tail(wire[q]) \in Seq(Frames)
    BY <1>1, ElemsTail
<1>3. Taken(q) \in [Peers -> Seq(Frames)] /\ Replied(p, q, Pong) \in [Peers -> Seq(Frames)]
  <2>1. Taken(q) \in [Peers -> Seq(Frames)]
      BY <1>1, <1>2 DEF Taken, MuxTypes
  <2>2. Append(wire[p], Pong) \in Seq(Frames)
      BY ElemsAppend, FramesIn DEF MuxTypes
  <2>3. Replied(p, q, Pong) = [Taken(q) EXCEPT ![p] = Append(wire[p], Pong)]
      BY PeerFacts DEF Replied, Taken, MuxTypes
  <2>4. QED BY <2>1, <2>2, <2>3
<1>4. UNCHANGED <<link, mux, call, pinger>> /\ (wire' = Taken(q) \/ wire' = Replied(p, q, Pong))
    BY DEF Takes
<1>0. f[1] \in {"SYN", "FIN"} => f[2] \in Ids
    BY <1>2, FrameKinds
<1> HIDE DEF f
<1>5. table' \in [Peers -> SUBSET Ids]
  <2>1. CASE f[1] = "SYN" /\ table' = [table EXCEPT ![p] = @ \cup {f[2]}]
      BY <1>0, <2>1 DEF MuxTypes
  <2>2. QED BY <2>1 DEF Takes, MuxTypes, f
<1>6. fins' \in [Peers -> SUBSET Ids]
  <2>1. CASE f[1] = "FIN" /\ fins' = [fins EXCEPT ![p] = @ \cup {f[2]}]
      BY <1>0, <2>1 DEF MuxTypes
  <2>2. QED BY <2>1 DEF Takes, MuxTypes, f
<1>7. pongs' \in [Peers -> Nat]
  <2>1. pongs' = pongs \/ pongs' = [pongs EXCEPT ![p] = @ + 1]
      BY DEF Takes
  <2>2. QED BY <2>1 DEF MuxTypes
<1>8. QED BY Zenon, <1>3, <1>4, <1>5, <1>6, <1>7 DEF MuxTypes

\* and every other step.
LEMMA MuxTypesStep ==
  ASSUME MuxTypes, [Next]_vars
  PROVE  MuxTypes'
<1>1. CASE UNCHANGED <<link, mux, wire, call, table, fins, pinger, pongs>>
    BY <1>1 DEF MuxTypes
<1>2. ASSUME NEW p \in Peers, NEW c \in Calls,
             OpenCall(p, c) \/ OpenSend(p, c) \/ OpenCancel(p, c) \/ OpenError(p, c)
      PROVE  MuxTypes'
  <2>1. UNCHANGED <<link, mux, wire, table, fins, pinger, pongs>>
      BY <1>2 DEF OpenCall, OpenSend, OpenCancel, OpenError, streamVars, pingVars
  <2>2. PICK st \in CallStates : call' = [call EXCEPT ![p][c] = st]
    <3>1. CASE OpenCall(p, c) \/ OpenSend(p, c) \/ OpenError(p, c)
        BY <3>1 DEF OpenCall, OpenSend, OpenError, CallStates
    <3>2. CASE OpenCancel(p, c)
        BY Zenon, <3>2 DEF OpenCancel, CallStates
    <3>3. QED BY <1>2, <3>1, <3>2
  <2>3. call' \in [Peers -> [Calls -> CallStates]]
      BY <2>2 DEF MuxTypes
  <2>4. <<p, c>> \in Ids
      BY <1>2 DEF OpenCall, OpenSend, OpenCancel, OpenError, MuxTypes, Ids
  <2>5. \A o \in Peers, d \in Calls : call'[o][d] # "idle" => <<o, d>> \in Ids
      BY Zenon, <2>2, <2>4 DEF MuxTypes
  <2>6. QED BY <2>1, <2>3, <2>5 DEF MuxTypes
<1>3. ASSUME NEW p \in Peers, NEW c \in Calls, OpenHandle(p, c) PROVE MuxTypes'
  <2>0. <<p, c>> \in Ids
      BY <1>3 DEF OpenHandle, MuxTypes
  <2>1. UNCHANGED <<link, mux, fins, pinger, pongs>>
      BY <1>3 DEF OpenHandle, pingVars
  <2>2. PICK st \in {"opened", "cancelled"} : call' = [call EXCEPT ![p][c] = st]
      BY <1>3 DEF OpenHandle
  <2>3. call' \in [Peers -> [Calls -> CallStates]]
      BY <2>2 DEF MuxTypes, CallStates
  <2>4. wire' \in [Peers -> Seq(Frames)]
      BY Zenon, <1>3, <2>0, SentTypes, FramesIn DEF OpenHandle, Syn
  <2>5. table' \in [Peers -> SUBSET Ids]
      BY <1>3, <2>0 DEF OpenHandle, MuxTypes
  <2>6. \A o \in Peers, d \in Calls : call'[o][d] # "idle" => <<o, d>> \in Ids
      BY Zenon, <2>0, <2>2 DEF MuxTypes
  <2>7. QED BY <2>1, <2>3, <2>4, <2>5, <2>6 DEF MuxTypes
<1>4. ASSUME NEW p \in Peers, NEW id \in Ids, EndStream(p, id) PROVE MuxTypes'
  <2>1. UNCHANGED <<link, mux, call, pinger, pongs>>
      BY <1>4 DEF EndStream, pingVars
  <2>2. wire' \in [Peers -> Seq(Frames)]
      BY Zenon, <1>4, SentTypes, FramesIn DEF EndStream, Fin
  <2>3. table' \in [Peers -> SUBSET Ids] /\ fins' \in [Peers -> SUBSET Ids]
      BY <1>4 DEF EndStream, MuxTypes
  <2>4. QED BY <2>1, <2>2, <2>3 DEF MuxTypes
<1>5. ASSUME NEW p \in Peers, SendPing(p) PROVE MuxTypes'
  <2>1. UNCHANGED <<link, mux, call, table, fins, pongs>>
      BY <1>5 DEF SendPing, streamVars
  <2>2. wire' \in [Peers -> Seq(Frames)]
      BY <1>5, SentTypes, FramesIn DEF SendPing, Ping
  <2>3. pinger' \in [Peers -> {"idle", "awaiting"}]
      BY <1>5 DEF SendPing, Set, MuxTypes
  <2>4. QED BY <2>1, <2>2, <2>3 DEF MuxTypes
<1>6. ASSUME NEW p \in Peers, TakePong(p) PROVE MuxTypes'
    BY <1>6 DEF TakePong, MuxTypes, streamVars, Set
<1>7. ASSUME NEW p \in Peers, Handle(p) PROVE MuxTypes'
    BY <1>7, HandleSteps, TakesTypes, DieTypes
<1>8. ASSUME NEW p \in Peers, ReadEof(p) \/ PingTimeout(p) \/ DropMux(p) PROVE MuxTypes'
    BY Zenon, <1>8, DieTypes DEF ReadEof, PingTimeout, DropMux, Dies
<1>9. CASE LinkDies
  <2>1. <<>> \in Seq(Frames)
      OBVIOUS
  <2>2. QED BY <1>9, <2>1 DEF LinkDies, MuxTypes, streamVars, pingVars
<1>10. QED BY MuxSteps, <1>1, <1>2, <1>3, <1>4, <1>5, <1>6, <1>7, <1>8, <1>9

\* A dead mux and a dead link stay dead.
LEMMA DeadStays ==
  ASSUME MuxTypes, [Next]_vars
  PROVE  /\ link' = "up" => link = "up"
         /\ \A p \in Peers : mux'[p] = mux[p] \/ (Up(p) /\ mux'[p] # "up")
<1>1. ASSUME Dies
      PROVE  link' = link /\ \A p \in Peers : mux'[p] = mux[p] \/ (Up(p) /\ mux'[p] # "up")
    BY ZenonT(30), <1>1 DEF Dies, Die, Set, MuxTypes
<1>2. ASSUME NEW p \in Peers, ReadEof(p) \/ PingTimeout(p) \/ DropMux(p) PROVE Dies
    BY Zenon, <1>2 DEF ReadEof, PingTimeout, DropMux, Dies
<1>3. ASSUME NEW p \in Peers, Handle(p) PROVE Dies \/ UNCHANGED <<link, mux>>
    BY <1>3, HandleSteps DEF Takes
<1>4. ASSUME NEW p \in Peers, NEW c \in Calls,
             OpenCall(p, c) \/ OpenSend(p, c) \/ OpenCancel(p, c) \/ OpenError(p, c) \/ OpenHandle(p, c)
      PROVE  UNCHANGED <<link, mux>>
    BY <1>4 DEF OpenCall, OpenSend, OpenCancel, OpenError, OpenHandle
<1>5. ASSUME NEW p \in Peers, NEW id \in Ids, EndStream(p, id) PROVE UNCHANGED <<link, mux>>
    BY <1>5 DEF EndStream
<1>6. ASSUME NEW p \in Peers, SendPing(p) \/ TakePong(p) PROVE UNCHANGED <<link, mux>>
    BY Zenon, <1>6 DEF SendPing, TakePong
<1>7. CASE LinkDies
    BY <1>7 DEF LinkDies
<1>8. QED BY MuxSteps, <1>1, <1>2, <1>3, <1>4, <1>5, <1>6, <1>7

\* After a death not both ends are up.
LEMMA DeathEnds ==
  ASSUME MuxTypes, BothUp', Dies
  PROVE  FALSE
  BY Zenon DEF BothUp, Up, Dies, Die, Set, MuxTypes

\* The steps that leave both ends up.
LEMMA UpSteps ==
  ASSUME MuxTypes, [Next]_vars, BothUp'
  PROVE  /\ BothUp
         /\ \/ UNCHANGED <<wire, call, table, fins, pinger, pongs>>
            \/ \E p \in Peers, c \in Calls : \/ OpenCall(p, c) \/ OpenSend(p, c) \/ OpenCancel(p, c)
                                             \/ OpenError(p, c) \/ OpenHandle(p, c)
            \/ \E p \in Peers, id \in Ids : EndStream(p, id)
            \/ \E p \in Peers : SendPing(p) \/ TakePong(p) \/ Takes(p, Peer(p))
<1>1. BothUp
    BY DeadStays DEF BothUp, Up
<1>2. ASSUME NEW p \in Peers, ReadEof(p) \/ PingTimeout(p) \/ DropMux(p) PROVE Dies
    BY Zenon, <1>2 DEF ReadEof, PingTimeout, DropMux, Dies
<1>3. ~LinkDies
    BY DEF LinkDies, BothUp
<1>4. QED BY <1>1, <1>2, <1>3, MuxSteps, HandleSteps, DeathEnds

\* What a frame that p sends does to the wires.
LEMMA SentUp ==
  ASSUME MuxTypes, BothUp, NEW p \in Peers, NEW f \in Frames, wire' = Sent(p, f)
  PROVE  /\ wire'[p] = Append(wire[p], f) /\ wire[p] \in Seq(Frames)
         /\ \A q \in Peers : q # p => wire'[q] = wire[q]
  BY DEF BothUp, Sent, MuxTypes

\* While both ends are up, a ping that is awaited, or its pong, is under way.
LEMMA AnsweredStep ==
  ASSUME MuxTypes, BothUp, [Next]_vars, BothUp', \A p \in Peers : Answered(p), NEW o \in Peers
  PROVE  Answered(o)'
<1> DEFINE r == Peer(o)
<1>0. r \in Peers /\ r # o /\ Peer(r) = o /\ \A q \in Peers : q = o \/ q = r
    BY PeerFacts
<1>t. wire[o] \in Seq(Frames) /\ wire[r] \in Seq(Frames) /\ pongs[o] \in Nat
    BY <1>0 DEF MuxTypes
<1>1. CASE UNCHANGED <<wire, pinger, pongs>>
    BY <1>1 DEF Answered
<1>2. ASSUME NEW p \in Peers, NEW f \in Frames, wire' = Sent(p, f), UNCHANGED <<pinger, pongs>>
      PROVE  Answered(o)'
  <2>1. \A q \in Peers : Elems(wire[q]) \subseteq Elems(wire'[q])
    <3> SUFFICES ASSUME NEW q \in Peers PROVE Elems(wire[q]) \subseteq Elems(wire'[q])
        OBVIOUS
    <3>1. CASE q = p
      <4>1. wire'[q] = Append(wire[q], f) /\ wire[q] \in Seq(Frames)
          BY <1>2, <3>1, SentUp
      <4>2. Elems(wire'[q]) = Elems(wire[q]) \cup {f}
          BY <4>1, ElemsAppend
      <4>3. QED BY <4>2
    <3>2. CASE q # p
      <4>1. wire'[q] = wire[q]
          BY <1>2, <3>2, SentUp
      <4>2. QED BY <4>1
    <3>3. QED BY <3>1, <3>2
  <2>2. QED BY <1>0, <1>2, <2>1 DEF Answered
<1>3. ASSUME NEW p \in Peers, SendPing(p) PROVE Answered(o)'
  <2>1. wire' = Sent(p, Ping) /\ pinger' = [pinger EXCEPT ![p] = "awaiting"] /\ pongs' = pongs
      BY <1>3 DEF SendPing, Set, Ping
  <2>2. /\ Elems(wire'[p]) = Elems(wire[p]) \cup {Ping}
        /\ \A q \in Peers : q # p => wire'[q] = wire[q]
      BY ZenonT(30), <2>1, SentUp, ElemsAppend, FramesIn
  <2>3. CASE p = o
      BY <2>2, <2>3 DEF Answered
  <2>4. CASE p # o
      BY <1>0, <2>1, <2>2, <2>4 DEF Answered, MuxTypes
  <2>5. QED BY <2>3, <2>4
<1>4. ASSUME NEW p \in Peers, TakePong(p) PROVE Answered(o)'
  <2>1. /\ wire' = wire /\ pongs' = [pongs EXCEPT ![p] = @ - 1] /\ pinger' = [pinger EXCEPT ![p] = "idle"]
      BY <1>4 DEF TakePong, Set
  <2>2. CASE p = o
      BY <2>1, <2>2 DEF Answered, MuxTypes
  <2>3. CASE p # o
      BY <2>1, <2>3 DEF Answered, MuxTypes
  <2>4. QED BY <2>2, <2>3
<1>5. ASSUME NEW p \in Peers, Takes(p, Peer(p)) PROVE Answered(o)'
  <2> DEFINE q == Peer(p)
             f == Head(wire[q])
  <2>1. q \in Peers /\ q # p /\ Peer(q) = p /\ wire[q] \in Seq(Frames) /\ wire[q] # <<>>
      BY <1>5, PeerFacts DEF MuxTypes, Takes
  <2>2. f \in Frames /\ Elems(wire[q]) = {f} \cup Elems(Tail(wire[q]))
      BY <2>1, ElemsTail
  <2>3. pinger' = pinger /\ (o = p \/ o = q)
      BY Zenon, <1>5, <2>1, PeerFacts DEF Takes
  <2> HIDE DEF q, f
  <2>4. CASE f[1] = "PING" /\ wire' = Replied(p, q, Pong) /\ pongs' = pongs
    <3>1. wire'[q] = Tail(wire[q]) /\ wire'[p] = Append(wire[p], Pong)
        BY <2>1, <2>4 DEF Replied, MuxTypes
    <3>2. Elems(wire'[p]) = Elems(wire[p]) \cup {Pong} /\ f = Ping
        BY <2>2, <2>4, <3>1, ElemsAppend, FramesIn, FrameKinds DEF MuxTypes
    <3>3. QED BY Zenon, <2>1, <2>2, <2>3, <2>4, <3>1, <3>2, FrameFacts DEF Answered, q
  <2>5. CASE f[1] = "PONG" /\ wire' = Taken(q) /\ pongs' = [pongs EXCEPT ![p] = @ + 1]
    <3>1. wire'[q] = Tail(wire[q]) /\ wire'[p] = wire[p] /\ f = Pong
        BY <2>1, <2>2, <2>5, FrameKinds DEF Taken, MuxTypes
    <3>2. pongs'[p] > 0 /\ pongs'[q] = pongs[q]
        BY <2>1, <2>5 DEF MuxTypes
    <3>3. QED BY <2>1, <2>2, <2>3, <3>1, <3>2, FrameFacts DEF Answered, q
  <2>6. CASE f[1] \in {"SYN", "FIN"} /\ wire' = Taken(q) /\ pongs' = pongs
    <3>1. wire'[q] = Tail(wire[q]) /\ wire'[p] = wire[p] /\ f # Pong /\ f # Ping
        BY ZenonT(30), <2>1, <2>2, <2>6, FrameKinds, FrameFacts DEF Taken, MuxTypes
    <3>2. QED BY <2>1, <2>2, <2>3, <2>6, <3>1 DEF Answered, q
  <2>7. QED BY <1>5, <2>4, <2>5, <2>6 DEF Takes, q, f
<1>6. ASSUME NEW p \in Peers, NEW c \in Calls, OpenHandle(p, c) PROVE Answered(o)'
  <2>1. <<p, c>> \in Ids
      BY <1>6 DEF OpenHandle, MuxTypes
  <2>2. wire' = Sent(p, Syn(<<p, c>>)) /\ UNCHANGED <<pinger, pongs>>
      BY <1>6 DEF OpenHandle, pingVars, Syn
  <2>3. QED BY <1>2, <2>1, <2>2, FramesIn
<1>7. ASSUME NEW p \in Peers, NEW id \in Ids, EndStream(p, id) PROVE Answered(o)'
  <2>1. wire' = Sent(p, Fin(id)) /\ UNCHANGED <<pinger, pongs>>
      BY <1>7 DEF EndStream, pingVars, Fin
  <2>2. QED BY <1>2, <2>1, FramesIn
<1>8. ASSUME NEW p \in Peers, NEW c \in Calls,
             OpenCall(p, c) \/ OpenSend(p, c) \/ OpenCancel(p, c) \/ OpenError(p, c)
      PROVE  UNCHANGED <<wire, pinger, pongs>>
    BY <1>8 DEF OpenCall, OpenSend, OpenCancel, OpenError, pingVars
<1>9. QED BY UpSteps, <1>1, <1>3, <1>4, <1>5, <1>6, <1>7, <1>8

\* Each stream is tracked while both ends are up.
LEMMA TrackedStep ==
  ASSUME MuxTypes, BothUp, [Next]_vars, BothUp', NEW id \in Ids, Tracked(id[1], id)
  PROVE  Tracked(id[1], id)'
<1> DEFINE o == id[1]
           r == Peer(o)
           c == id[2]
<1>0. o \in Peers /\ r \in Peers /\ r # o /\ Peer(r) = o /\ (\A q \in Peers : q = o \/ q = r) /\ c \in Calls
    BY IdFacts, PeerFacts
<1>t. wire[o] \in Seq(Frames) /\ wire[r] \in Seq(Frames)
    BY <1>0 DEF MuxTypes
<1>g. /\ Track(wire[o], wire[r], table[o], table[r], fins[o], fins[r], call[o][c], id)
      /\ Tracked(o, id)' <=> Track(wire'[o], wire'[r], table'[o], table'[r], fins'[o], fins'[r], call'[o][c], id)
    BY DEF Tracked
<1>i. id = <<o, c>>
    BY IdFacts
<1> HIDE DEF o, r, c
<1>1. CASE UNCHANGED <<wire, call, table, fins>>
    BY <1>1, <1>g DEF o
<1>2. ASSUME NEW p \in Peers, NEW d \in Calls,
             OpenCall(p, d) \/ OpenSend(p, d) \/ OpenCancel(p, d) \/ OpenError(p, d)
      PROVE  Tracked(o, id)'
  <2>1. UNCHANGED <<wire, table, fins>>
      BY <1>2 DEF OpenCall, OpenSend, OpenCancel, OpenError, streamVars
  <2>2. call'[o][c] \in Unsent => call[o][c] \in Unsent
    <3>1. PICK st \in CallStates : /\ call' = [call EXCEPT ![p][d] = st]
                                   /\ st \in Unsent => call[p][d] \in Unsent
      <4>1. CASE OpenCall(p, d)
          BY <4>1 DEF OpenCall, CallStates, Unsent
      <4>2. CASE OpenSend(p, d)
          BY <4>2 DEF OpenSend, CallStates, Unsent
      <4>3. CASE OpenCancel(p, d)
          BY Zenon, <4>3 DEF OpenCancel, CallStates, Unsent
      <4>4. CASE OpenError(p, d)
          BY <4>4 DEF OpenError, CallStates, Unsent
      <4>5. QED BY <1>2, <4>1, <4>2, <4>3, <4>4
    <3>2. QED BY <1>0, <3>1 DEF MuxTypes
  <2>3. Track(wire'[o], wire'[r], table'[o], table'[r], fins'[o], fins'[r], call'[o][c], id)
      BY Zenon, <1>g, <2>1, <2>2 DEF Track
  <2>4. QED BY <1>g, <2>3
<1>3. ASSUME NEW p \in Peers, SendPing(p) \/ TakePong(p) PROVE Tracked(o, id)'
  <2>1. UNCHANGED <<call, table, fins>>
      BY Zenon, <1>3 DEF SendPing, TakePong, streamVars
  <2>2. CASE wire' = wire
      BY <1>g, <2>1, <2>2
  <2>3. CASE wire' = Sent(p, Ping)
    <3>1. /\ wire'[p] = Append(wire[p], Ping) /\ \A q \in Peers : q # p => wire'[q] = wire[q]
        BY <2>3, SentUp, FramesIn
    <3>2. Ping \in Frames /\ Ping \notin {Syn(id), Fin(id)}
        BY FramesIn, FrameFacts
    <3>3. CASE p = o
      <4>1. Track(Append(wire[o], Ping), wire[r], table[o], table[r], fins[o], fins[r], call[o][c], id)
          BY <1>t, <1>g, <3>2, TrackSend
      <4>2. QED BY Zenon, <1>0, <1>g, <2>1, <3>1, <3>3, <4>1
    <3>4. CASE p = r
      <4>1. Track(wire[o], Append(wire[r], Ping), table[o], table[r], fins[o], fins[r], call[o][c], id)
          BY <1>t, <1>g, <3>2, TrackSend
      <4>2. QED BY Zenon, <1>0, <1>g, <2>1, <3>1, <3>4, <4>1
    <3>5. QED BY <1>0, <3>3, <3>4
  <2>4. QED BY Zenon, <1>3, <2>2, <2>3 DEF SendPing, TakePong, Ping
<1>4. ASSUME NEW p \in Peers, NEW d \in Calls, OpenHandle(p, d) PROVE Tracked(o, id)'
  <2> DEFINE jd == <<p, d>>
  <2>1. jd \in Ids /\ jd[1] = p /\ jd[2] = d
      BY <1>4 DEF OpenHandle, MuxTypes
  <2>2. /\ wire' = Sent(p, Syn(jd)) /\ table' = [table EXCEPT ![p] = @ \cup {jd}] /\ fins' = fins
        /\ \E st \in {"opened", "cancelled"} : call' = [call EXCEPT ![p][d] = st]
        /\ call[p][d] \in Unsent
      BY <1>4 DEF OpenHandle, Syn, Unsent
  <2>3. Syn(jd) \in Frames
      BY <2>1, FramesIn
  <2> HIDE DEF jd
  <2>4. /\ wire'[p] = Append(wire[p], Syn(jd)) /\ \A q \in Peers : q # p => wire'[q] = wire[q]
      BY <2>2, <2>3, SentUp
  <2>5. table'[p] = table[p] \cup {jd} /\ \A q \in Peers : q # p => table'[q] = table[q]
      BY <2>2 DEF MuxTypes
  <2>6. CASE id = jd
    <3>1. p = o /\ d = c
        BY <1>i, <2>1, <2>6 DEF o, c
    <3>2. call'[o][c] \notin Unsent
        BY <1>0, <2>2, <3>1 DEF MuxTypes, Unsent
    <3>3. Track(Append(wire[o], Syn(id)), wire[r], table[o] \cup {id}, table[r], fins[o], fins[r], call'[o][c], id)
        BY <1>t, <1>g, <2>2, <3>1, <3>2, TrackOpen
    <3>4. QED BY ZenonT(30), <1>0, <1>g, <2>2, <2>4, <2>5, <2>6, <3>1, <3>3
  <2>7. CASE id # jd
    <3>1. Syn(jd) \notin {Syn(id), Fin(id)}
        BY <2>7, FrameFacts
    <3>2. call'[o][c] \in Unsent => call[o][c] \in Unsent
        BY <1>0, <2>2 DEF MuxTypes, Unsent
    <3>3. (id \in table'[o] <=> id \in table[o]) /\ (id \in table'[r] <=> id \in table[r])
        BY <1>0, <2>5, <2>7
    <3>4. CASE p = o
      <4>1. Track(Append(wire[o], Syn(jd)), wire[r], table[o], table[r], fins[o], fins[r], call[o][c], id)
          BY <1>t, <1>g, <2>3, <3>1, TrackSend
      <4>2. Track(wire'[o], wire'[r], table[o], table[r], fins[o], fins[r], call[o][c], id)
          BY Zenon, <1>0, <2>4, <3>4, <4>1
      <4>3. Track(wire'[o], wire'[r], table'[o], table'[r], fins'[o], fins'[r], call'[o][c], id)
          BY Zenon, <2>2, <3>2, <3>3, <4>2 DEF Track
      <4>4. QED BY <1>g, <4>3
    <3>5. CASE p = r
      <4>1. Track(wire[o], Append(wire[r], Syn(jd)), table[o], table[r], fins[o], fins[r], call[o][c], id)
          BY <1>t, <1>g, <2>3, <3>1, TrackSend
      <4>2. Track(wire'[o], wire'[r], table[o], table[r], fins[o], fins[r], call[o][c], id)
          BY ZenonT(30), <1>0, <2>4, <3>5, <4>1
      <4>3. Track(wire'[o], wire'[r], table'[o], table'[r], fins'[o], fins'[r], call'[o][c], id)
          BY Zenon, <2>2, <3>2, <3>3, <4>2 DEF Track
      <4>4. QED BY <1>g, <4>3
    <3>6. QED BY <1>0, <3>4, <3>5
  <2>8. QED BY <2>6, <2>7
<1>5. ASSUME NEW p \in Peers, NEW jd \in Ids, EndStream(p, jd) PROVE Tracked(o, id)'
  <2>1. /\ wire' = Sent(p, Fin(jd)) /\ table' = [table EXCEPT ![p] = @ \ {jd}] /\ jd \in table[p]
        /\ fins' = [fins EXCEPT ![p] = @ \ {jd}] /\ call' = call /\ Fin(jd) \in Frames
      BY <1>5, FramesIn DEF EndStream, Fin
  <2>2. /\ wire'[p] = Append(wire[p], Fin(jd)) /\ \A q \in Peers : q # p => wire'[q] = wire[q]
      BY <2>1, SentUp
  <2>3. /\ table'[p] = table[p] \ {jd} /\ \A q \in Peers : q # p => table'[q] = table[q]
        /\ fins'[p] = fins[p] \ {jd} /\ \A q \in Peers : q # p => fins'[q] = fins[q]
      BY <2>1 DEF MuxTypes
  <2>4. CASE id = jd /\ p = o
    <3>1. Track(Append(wire[o], Fin(id)), wire[r], table[o] \ {id}, table[r], fins[o] \ {id}, fins[r], call[o][c], id)
        BY Zenon, <1>t, <1>g, <2>1, <2>4, TrackEnd
    <3>2. QED BY ZenonT(30), <1>0, <1>g, <2>1, <2>2, <2>3, <2>4, <3>1
  <2>5. CASE id = jd /\ p = r
    <3>1. Track(wire[o], Append(wire[r], Fin(id)), table[o], table[r] \ {id}, fins[o], fins[r] \ {id}, call[o][c], id)
        BY Zenon, <1>t, <1>g, <2>1, <2>5, TrackEnd
    <3>2. QED BY ZenonT(30), <1>0, <1>g, <2>1, <2>2, <2>3, <2>5, <3>1
  <2>6. CASE id # jd
    <3>1. Fin(jd) \notin {Syn(id), Fin(id)}
        BY <2>6, FrameFacts
    <3>2. /\ id \in table'[o] <=> id \in table[o]
          /\ id \in table'[r] <=> id \in table[r]
          /\ id \in fins[o] => id \in fins'[o]
          /\ id \in fins[r] => id \in fins'[r]
        BY <1>0, <2>3, <2>6
    <3>3. Track(wire'[o], wire'[r], table[o], table[r], fins[o], fins[r], call[o][c], id)
      <4>1. CASE p = o
        <5>1. Track(Append(wire[o], Fin(jd)), wire[r], table[o], table[r], fins[o], fins[r], call[o][c], id)
            BY <1>t, <1>g, <2>1, <3>1, TrackSend
        <5>2. QED BY ZenonT(30), <1>0, <2>2, <4>1, <5>1
      <4>2. CASE p = r
        <5>1. Track(wire[o], Append(wire[r], Fin(jd)), table[o], table[r], fins[o], fins[r], call[o][c], id)
            BY <1>t, <1>g, <2>1, <3>1, TrackSend
        <5>2. QED BY ZenonT(30), <1>0, <2>2, <4>2, <5>1
      <4>3. QED BY <1>0, <4>1, <4>2
    <3>4. Track(wire'[o], wire'[r], table'[o], table'[r], fins'[o], fins'[r], call'[o][c], id)
        BY Zenon, <2>1, <3>2, <3>3 DEF Track
    <3>5. QED BY <1>g, <3>4
  <2>7. QED BY <1>0, <2>4, <2>5, <2>6
<1>6. ASSUME NEW p \in Peers, Takes(p, Peer(p)) PROVE Tracked(o, id)'
  <2> DEFINE q == Peer(p)
             f == Head(wire[q])
             jd == f[2]
  <2>1. q \in Peers /\ q # p /\ Peer(q) = p /\ wire[q] \in Seq(Frames) /\ wire[q] # <<>> /\ call' = call
      BY ZenonT(30), <1>6, PeerFacts DEF MuxTypes, Takes
  <2>2. f \in Frames /\ f \in Elems(wire[q])
      BY <2>1, ElemsTail
  <2>3. (o = q /\ r = p) \/ (o = p /\ r = q)
      BY <1>0, <2>1
  <2> HIDE DEF q, f, jd
  <2>4. ASSUME f \notin {Syn(id), Fin(id)}
        PROVE  /\ wire' = Taken(q) =>
                    Track(wire'[o], wire'[r], table[o], table[r], fins[o], fins[r], call[o][c], id)
               /\ wire' = Replied(p, q, Pong) =>
                    Track(wire'[o], wire'[r], table[o], table[r], fins[o], fins[r], call[o][c], id)
    <3>1. CASE o = q
      <4>1. Track(Tail(wire[o]), wire[r], table[o], table[r], fins[o], fins[r], call[o][c], id)
          BY <1>t, <1>g, <2>1, <2>4, <3>1, TrackTake DEF f
      <4>2. Tail(wire[o]) \in Seq(Frames) /\ Pong \in Frames /\ Pong # Syn(id)
          BY <2>1, <3>1, ElemsTail, FramesIn, FrameFacts
      <4>3. Track(Tail(wire[o]), Append(wire[r], Pong), table[o], table[r], fins[o], fins[r], call[o][c], id)
          BY Zenon, <1>t, <4>1, <4>2, TrackSend
      <4>4. wire' = Taken(q) => wire'[o] = Tail(wire[o]) /\ wire'[r] = wire[r]
          BY <1>0, <3>1 DEF Taken, MuxTypes
      <4>5. wire' = Replied(p, q, Pong) => wire'[o] = Tail(wire[o]) /\ wire'[r] = Append(wire[r], Pong)
          BY <1>0, <2>1, <2>3, <3>1 DEF Replied, MuxTypes
      <4>6. QED BY Zenon, <4>1, <4>3, <4>4, <4>5
    <3>2. CASE r = q
      <4>1. Track(wire[o], Tail(wire[r]), table[o], table[r], fins[o], fins[r], call[o][c], id)
          BY Zenon, <1>t, <1>g, <2>1, <2>4, <3>2, TrackTake DEF f
      <4>2. Tail(wire[r]) \in Seq(Frames) /\ Pong \in Frames /\ Pong \notin {Syn(id), Fin(id)}
          BY <2>1, <3>2, ElemsTail, FramesIn, FrameFacts
      <4>3. Track(Append(wire[o], Pong), Tail(wire[r]), table[o], table[r], fins[o], fins[r], call[o][c], id)
          BY ZenonT(30), <1>t, <4>1, <4>2, TrackSend
      <4>4. wire' = Taken(q) => wire'[o] = wire[o] /\ wire'[r] = Tail(wire[r])
          BY <1>0, <3>2 DEF Taken, MuxTypes
      <4>5. wire' = Replied(p, q, Pong) => wire'[o] = Append(wire[o], Pong) /\ wire'[r] = Tail(wire[r])
          BY <1>0, <2>1, <2>3, <3>2 DEF Replied, MuxTypes
      <4>6. QED BY Zenon, <4>1, <4>3, <4>4, <4>5
    <3>3. QED BY <2>3, <3>1, <3>2
  <2>5. CASE f[1] = "PING" /\ wire' = Replied(p, q, Pong) /\ UNCHANGED <<table, fins>>
    <3>1. f \notin {Syn(id), Fin(id)}
        BY <2>2, <2>5, FrameKinds, FrameFacts
    <3>2. QED BY Zenon, <1>g, <2>1, <2>4, <2>5, <3>1
  <2>6. CASE f[1] = "PONG" /\ wire' = Taken(q) /\ UNCHANGED <<table, fins>>
    <3>1. f \notin {Syn(id), Fin(id)}
        BY <2>2, <2>6, FrameKinds, FrameFacts
    <3>2. QED BY ZenonT(30), <1>g, <2>1, <2>4, <2>6, <3>1
  <2>7. CASE /\ f[1] = "SYN" /\ wire' = Taken(q) /\ fins' = fins
             /\ table' = [table EXCEPT ![p] = @ \cup {jd}]
    <3>1. f = Syn(jd) /\ jd \in Ids
        BY <2>2, <2>7, FrameKinds DEF jd
    <3>2. table'[p] = table[p] \cup {jd} /\ table'[q] = table[q]
        BY <2>1, <2>7 DEF MuxTypes
    <3>3. CASE id = jd
      <4>1. o = q /\ r = p
          BY <1>g, <2>2, <2>3, <3>1, <3>3 DEF Track
      <4>2. Track(Tail(wire[o]), wire[r], table[o], table[r] \cup {id}, fins[o], fins[r], call[o][c], id)
          BY Zenon, <1>t, <1>g, <2>1, <3>1, <3>3, <4>1, TrackSyn DEF f
      <4>3. wire'[o] = Tail(wire[o]) /\ wire'[r] = wire[r]
          BY <1>0, <2>7, <4>1 DEF Taken, MuxTypes
      <4>4. QED BY ZenonT(30), <1>g, <2>1, <2>7, <3>2, <3>3, <4>1, <4>2, <4>3
    <3>4. CASE id # jd
      <4>1. f \notin {Syn(id), Fin(id)}
          BY <3>1, <3>4, FrameFacts
      <4>2. (id \in table'[o] <=> id \in table[o]) /\ (id \in table'[r] <=> id \in table[r])
          BY <2>3, <3>2, <3>4
      <4>3. Track(wire'[o], wire'[r], table[o], table[r], fins[o], fins[r], call[o][c], id)
          BY <2>4, <2>7, <4>1
      <4>4. Track(wire'[o], wire'[r], table'[o], table'[r], fins'[o], fins'[r], call'[o][c], id)
          BY Zenon, <2>1, <2>7, <4>2, <4>3 DEF Track
      <4>5. QED BY <1>g, <4>4
    <3>5. QED BY <3>3, <3>4
  <2>8. CASE /\ f[1] = "FIN" /\ wire' = Taken(q) /\ table' = table
             /\ fins' = IF jd \in table[p] THEN [fins EXCEPT ![p] = @ \cup {jd}] ELSE fins
    <3>1. f = Fin(jd) /\ jd \in Ids
        BY <2>2, <2>8, FrameKinds DEF jd
    <3>2. fins'[q] = fins[q] /\ fins[p] \subseteq fins'[p] /\ (jd \in table[p] => jd \in fins'[p])
        BY <2>1, <2>8 DEF MuxTypes
    <3>3. CASE id = jd /\ o = q /\ r = p
      <4>1. Track(Tail(wire[o]), wire[r], table[o], table[r], fins[o], fins'[r], call[o][c], id)
          BY Zenon, <1>t, <1>g, <2>1, <3>1, <3>2, <3>3, TrackFin DEF f
      <4>2. wire'[o] = Tail(wire[o]) /\ wire'[r] = wire[r]
          BY <1>0, <2>8, <3>3 DEF Taken, MuxTypes
      <4>3. QED BY ZenonT(30), <1>g, <2>1, <2>8, <3>2, <3>3, <4>1, <4>2
    <3>4. CASE id = jd /\ o = p /\ r = q
      <4>1. Track(wire[o], Tail(wire[r]), table[o], table[r], fins'[o], fins[r], call[o][c], id)
          BY Zenon, <1>t, <1>g, <2>1, <3>1, <3>2, <3>4, TrackFin DEF f
      <4>2. wire'[o] = wire[o] /\ wire'[r] = Tail(wire[r])
          BY <1>0, <2>8, <3>4 DEF Taken, MuxTypes
      <4>3. QED BY ZenonT(30), <1>g, <2>1, <2>8, <3>2, <3>4, <4>1, <4>2
    <3>5. CASE id # jd
      <4>1. f \notin {Syn(id), Fin(id)}
          BY <3>1, <3>5, FrameFacts
      <4>2. (id \in fins[o] => id \in fins'[o]) /\ (id \in fins[r] => id \in fins'[r])
          BY <2>3, <3>2
      <4>3. Track(wire'[o], wire'[r], table[o], table[r], fins[o], fins[r], call[o][c], id)
          BY Zenon, <2>4, <2>8, <4>1
      <4>4. Track(wire'[o], wire'[r], table'[o], table'[r], fins'[o], fins'[r], call'[o][c], id)
          BY Zenon, <2>1, <2>8, <4>2, <4>3 DEF Track
      <4>5. QED BY <1>g, <4>4
    <3>6. QED BY <2>3, <3>3, <3>4, <3>5
  <2>9. QED BY <1>6, <2>5, <2>6, <2>7, <2>8 DEF Takes, q, f, jd
<1>7. QED BY UpSteps, <1>1, <1>2, <1>3, <1>4, <1>5, <1>6 DEF o

\* Every step keeps the invariant.
LEMMA MuxStep == MuxInv /\ [Next]_vars => MuxInv'
<1> SUFFICES ASSUME MuxInv, [Next]_vars PROVE MuxInv'
    OBVIOUS
<1>1. MuxTypes'
    BY MuxTypesStep DEF MuxInv
<1>2. ASSUME BothUp'
      PROVE  (\A p \in Peers : Answered(p)') /\ (\A id \in Ids : Tracked(id[1], id)')
  <2>1. BothUp
      BY <1>2, UpSteps DEF MuxInv
  <2>2. QED BY <1>2, <2>1, AnsweredStep, TrackedStep DEF MuxInv
<1>3. QED BY <1>1, <1>2 DEF MuxInv

\* No entry is left behind in the table of one end, however opens, closes, full accept
\* queues and abandoned calls interleave, for any set of streams (picomux_inner).
THEOREM StreamsResolved == Spec => []NoOrphan
<1>1. MuxInv => NoOrphan
  <2> SUFFICES ASSUME MuxInv, NEW p \in Peers, NEW id \in Ids, link = "up", Up(p), Up(Peer(p)),
                      id \in table[p], id \notin table[Peer(p)]
               PROVE  \/ Syn(id) \in Elems(wire[p]) \/ Fin(id) \in Elems(wire[Peer(p)])
                      \/ id \in fins[p]
      BY DEF NoOrphan, Syn, Fin
  <2>1. BothUp
      BY PeerFacts DEF BothUp
  <2>2. Tracked(id[1], id) /\ id[1] \in Peers
      BY <2>1, IdFacts DEF MuxInv
  <2>3. CASE p = id[1]
      BY ZenonT(30), <2>2, <2>3 DEF Tracked, Track
  <2>4. CASE p = Peer(id[1])
    <3>1. Peer(p) = id[1]
        BY <2>2, <2>4, PeerFacts
    <3>2. QED BY <2>2, <2>4, <3>1 DEF Tracked, Track
  <2>5. QED BY <2>2, <2>3, <2>4, PeerFacts
<1>2. QED BY <1>1, MuxInit, MuxStep, PTL DEF Spec

\* On a link that answers in time, no step ends a healthy mux.
LEMMA HealthStep ==
  ASSUME ~SlowLink, MuxInv, HealthyStaysUp, [Next]_vars
  PROVE  HealthyStaysUp'
<1> SUFFICES ASSUME Healthy' PROVE \A p \in Peers : Up(p)'
    BY DEF HealthyStaysUp
<1>1. MuxTypes
    BY DEF MuxInv
<1>2. Healthy
    BY <1>1, DeadStays DEF Healthy, Up
<1>3. BothUp
    BY <1>2 DEF HealthyStaysUp, BothUp, Healthy
<1>4. ASSUME NEW p \in Peers, DropMux(p) PROVE FALSE
    BY <1>1, <1>4 DEF DropMux, Die, Set, Healthy, MuxTypes
<1>5. ASSUME NEW p \in Peers, ReadEof(p) PROVE FALSE
    BY ZenonT(30), <1>3, <1>5, PeerFacts DEF ReadEof, BothUp
<1>6. ASSUME NEW p \in Peers, PingTimeout(p) PROVE FALSE
  <2>1. Answered(p) /\ Up(Peer(p))
      BY <1>3, PeerFacts DEF MuxInv, BothUp
  <2>2. Ping \notin Elems(wire[p]) /\ Pong \notin Elems(wire[Peer(p)])
      BY <1>6, <2>1, Zenon DEF PingTimeout, Overdue, Ping, Pong
  <2>3. pinger[p] = "awaiting" /\ pongs[p] = 0
      BY <1>6, Zenon DEF PingTimeout
  <2>4. QED BY <2>1, <2>2, <2>3 DEF Answered
<1>7. ASSUME NEW p \in Peers, Handle(p) PROVE UNCHANGED mux
  <2> DEFINE q == Peer(p)
             f == Head(wire[q])
             id == f[2]
  <2>1. SUFFICES ASSUME wire[q] # <<>>, f[1] = "SYN", id \in table[p] PROVE FALSE
      BY <1>7, HandleSteps DEF Takes
  <2>2. q \in Peers /\ Peer(q) = p /\ wire[q] \in Seq(Frames)
      BY <1>1, PeerFacts DEF MuxTypes
  <2>3. f \in Frames /\ f \in Elems(wire[q])
      BY <2>1, <2>2, ElemsTail
  <2>4. f = Syn(id) /\ id \in Ids
      BY <2>1, <2>3, FrameKinds
  <2>5. Tracked(id[1], id) /\ id[1] \in Peers
      BY <1>3, <2>4, IdFacts DEF MuxInv
  <2> HIDE DEF f, id, q
  <2>6. id[1] = q /\ Peer(id[1]) = p
    <3>1. Syn(id) \notin Elems(wire[Peer(id[1])])
        BY <2>5 DEF Tracked, Track
    <3>2. q # Peer(id[1])
        BY <2>3, <2>4, <3>1
    <3>3. QED BY <2>2, <2>5, <3>2, PeerFacts
  <2>7. id \notin table[p]
      BY <2>3, <2>4, <2>5, <2>6 DEF Tracked, Track
  <2>8. QED BY <2>1, <2>7 DEF id, f, q
<1>8. ASSUME NEW p \in Peers, NEW c \in Calls,
             OpenCall(p, c) \/ OpenSend(p, c) \/ OpenCancel(p, c) \/ OpenError(p, c) \/ OpenHandle(p, c)
      PROVE  UNCHANGED mux
    BY <1>8 DEF OpenCall, OpenSend, OpenCancel, OpenError, OpenHandle
<1>9. ASSUME NEW p \in Peers, NEW id \in Ids, EndStream(p, id) PROVE UNCHANGED mux
    BY <1>9 DEF EndStream
<1>10. ASSUME NEW p \in Peers, SendPing(p) \/ TakePong(p) PROVE UNCHANGED mux
    BY Zenon, <1>10 DEF SendPing, TakePong
<1>11. UNCHANGED mux
    BY MuxSteps, <1>4, <1>5, <1>6, <1>7, <1>8, <1>9, <1>10 DEF LinkDies
<1>12. QED BY <1>3, <1>11 DEF BothUp, Up

\* On a link that is fast enough no mux dies by itself: no PONG stays away, however many
\* pings are forced, and no SYN is taken for a duplicate (ping_loop, picomux_inner).
THEOREM HealthyMuxesStayUp ==
  ASSUME ~SlowLink
  PROVE  Spec => []HealthyStaysUp
<1>1. Init => HealthyStaysUp
    BY DEF Init, HealthyStaysUp, Up
<1>2. MuxInv /\ HealthyStaysUp /\ [Next]_vars => HealthyStaysUp'
    BY HealthStep
<1>3. QED BY <1>1, <1>2, MuxInit, MuxStep, PTL DEF Spec
=============================================================================
