------------------------ MODULE PicomuxStreamProofs -------------------------
(***************************************************************************)
(* A picomux stream implements ByteStream, for every window, every room of *)
(* the pipes and every number of bodies.                                   *)
(***************************************************************************)
EXTENDS PicomuxStream, FiniteSetTheorems, TLAPS

----------------------------------------------------------------------------
(* Sequences of picomux frames: how many bodies are in one, whether a FIN  *)
(* is, and what sending and receiving a frame does to them.                *)

Frames == {"PSH", "FIN", "MORE"}

Psh(s) == {i \in 1 .. Len(s) : s[i] = "PSH"}
Bodies(s) == Cardinality(Psh(s))
HasFin(s) == \E i \in 1 .. Len(s) : s[i] = "FIN"
NothingAfterFin(s) == \A i, j \in 1 .. Len(s) : i < j /\ s[i] = "FIN" => s[j] # "PSH"

\* The number of bodies in a sequence is a number.
LEMMA BodiesType ==
  ASSUME NEW s \in Seq(Frames)
  PROVE  IsFiniteSet(Psh(s)) /\ Bodies(s) \in Nat
<1>1. IsFiniteSet(1 .. Len(s))
  BY FS_Interval
<1>2. IsFiniteSet(Psh(s))
  BY <1>1, FS_Subset DEF Psh
<1> QED
  BY <1>2, FS_CardinalityType DEF Bodies

\* Nothing is in an empty sequence.
LEMMA EmptyFrames == Bodies(<<>>) = 0 /\ ~HasFin(<<>>) /\ NothingAfterFin(<<>>)
<1>1. Psh(<<>>) = {}
  BY DEF Psh
<1> QED
  BY <1>1, FS_EmptySet DEF Bodies, HasFin, NothingAfterFin

\* A frame that is sent comes last.
LEMMA AppendFrame ==
  ASSUME NEW s \in Seq(Frames), NEW f \in Frames
  PROVE  /\ Append(s, f) \in Seq(Frames)
         /\ Bodies(Append(s, f)) = Bodies(s) + (IF f = "PSH" THEN 1 ELSE 0)
         /\ HasFin(Append(s, f)) <=> HasFin(s) \/ f = "FIN"
         /\ NothingAfterFin(s) /\ (HasFin(s) => f # "PSH") => NothingAfterFin(Append(s, f))
<1> DEFINE t == Append(s, f)
<1>1. /\ t \in Seq(Frames) /\ Len(s) \in Nat /\ Len(t) = Len(s) + 1 /\ t[Len(s) + 1] = f
      /\ \A i \in 1 .. Len(s) : t[i] = s[i]
  OBVIOUS
<1> HIDE DEF t
<1>2. Psh(t) = IF f = "PSH" THEN Psh(s) \cup {Len(s) + 1} ELSE Psh(s)
  BY <1>1 DEF Psh
<1>3. Len(s) + 1 \notin Psh(s)
  BY <1>1 DEF Psh
<1>4. Bodies(t) = Bodies(s) + (IF f = "PSH" THEN 1 ELSE 0)
  <2>1. IsFiniteSet(Psh(s)) /\ Bodies(s) \in Nat
    BY BodiesType
  <2>2. CASE f = "PSH"
    BY <1>2, <1>3, <2>1, <2>2, FS_AddElement, Zenon DEF Bodies
  <2>3. CASE f # "PSH"
    BY <1>2, <2>1, <2>3 DEF Bodies
  <2> QED
    BY <2>2, <2>3
<1>5. HasFin(t) <=> HasFin(s) \/ f = "FIN"
  BY <1>1 DEF HasFin
<1>6. ASSUME NothingAfterFin(s), HasFin(s) => f # "PSH" PROVE NothingAfterFin(t)
  BY <1>1, <1>6 DEF NothingAfterFin, HasFin
<1> QED
  BY <1>1, <1>4, <1>5, <1>6 DEF t

\* The frame that is received comes first.
LEMMA TailFrame ==
  ASSUME NEW s \in Seq(Frames), s # <<>>
  PROVE  /\ Tail(s) \in Seq(Frames) /\ Head(s) \in Frames
         /\ Bodies(s) = Bodies(Tail(s)) + (IF Head(s) = "PSH" THEN 1 ELSE 0)
         /\ HasFin(s) <=> HasFin(Tail(s)) \/ Head(s) = "FIN"
         /\ NothingAfterFin(s) =>
              NothingAfterFin(Tail(s)) /\ (Head(s) = "FIN" => Bodies(Tail(s)) = 0)
<1> DEFINE t == Tail(s)
<1>1. /\ t \in Seq(Frames) /\ Len(s) \in Nat \ {0} /\ Len(t) = Len(s) - 1
      /\ \A i \in 1 .. Len(t) : t[i] = s[i + 1]
      /\ Head(s) = s[1] /\ s[1] \in Frames
  OBVIOUS
<1> HIDE DEF t
<1>2. \A i \in 1 .. Len(s) : i = 1 \/ (i - 1 \in 1 .. Len(t) /\ s[i] = t[i - 1])
  BY <1>1
<1>3. Bodies(s) = Bodies(t) + (IF s[1] = "PSH" THEN 1 ELSE 0)
  <2> DEFINE g == [i \in Psh(t) |-> i + 1]
             later == Psh(s) \ {1}
  <2>1. IsFiniteSet(Psh(s)) /\ IsFiniteSet(Psh(t)) /\ Bodies(s) \in Nat /\ Bodies(t) \in Nat
    BY <1>1, BodiesType
  <2>2. \A i \in Psh(t) : i \in Nat /\ i + 1 \in later
    BY <1>1 DEF Psh
  <2>3. \A j \in later : j - 1 \in Psh(t) /\ g[j - 1] = j
    BY <1>1, <1>2 DEF Psh
  <2>4. g \in Bijection(Psh(t), later)
    <3>1. g \in [Psh(t) -> later]
      BY <2>2
    <3>2. \A i, j \in Psh(t) : g[i] = g[j] => i = j
      BY <2>2
    <3>3. \A j \in later : \E i \in Psh(t) : g[i] = j
      BY <2>3, Zenon
    <3> HIDE DEF g, later
    <3> QED
      BY <3>1, <3>2, <3>3 DEF Bijection, Injection, IsInjective, Surjection
  <2>5. Cardinality(later) = Bodies(t)
    BY <2>1, <2>4, FS_Bijection DEF ExistsBijection, Bodies
  <2>6. 1 \in Psh(s) <=> s[1] = "PSH"
    BY <1>1 DEF Psh
  <2>7. Cardinality(later) = IF 1 \in Psh(s) THEN Bodies(s) - 1 ELSE Bodies(s)
    BY <2>1, FS_RemoveElement, Zenon DEF Bodies
  <2> QED
    BY <2>1, <2>5, <2>6, <2>7
<1>4. HasFin(s) <=> HasFin(t) \/ s[1] = "FIN"
  BY <1>1, <1>2 DEF HasFin
<1>5. ASSUME NothingAfterFin(s) PROVE NothingAfterFin(t)
  BY <1>1, <1>5 DEF NothingAfterFin
<1>6. ASSUME NothingAfterFin(s), s[1] = "FIN" PROVE Bodies(t) = 0
  <2>1. Psh(t) = {}
    BY <1>1, <1>6 DEF NothingAfterFin, Psh
  <2> QED
    BY <2>1, FS_EmptySet DEF Bodies
<1> QED
  BY <1>1, <1>3, <1>4, <1>5, <1>6 DEF t

\* A stream has two ends.
TwoEnds == \E a, b : a # b /\ Ends = {a, b}

----------------------------------------------------------------------------
(* The inductive invariant: every body that was written is counted in      *)
(* exactly one place, and FIN overtakes none.                              *)

Types ==
  /\ TwoEnds
  /\ reader \in [Ends -> BOOLEAN] /\ writer \in [Ends -> BOOLEAN]
  /\ outpipe \in [Ends -> Nat] /\ inpipe \in [Ends -> Nat]
  /\ wrote \in [Ends -> Nat] /\ got \in [Ends -> Nat]
  /\ inc \in [Ends -> {"reading", "waiting", "gone"}]
  /\ outg \in [Ends -> {"recv", "writing", "gone"}]
  /\ ended \in [Ends -> {"no", "eof", "fin", "dropped"}]
  /\ buffer \in [Ends -> Seq(Frames)] /\ wire \in [Ends -> Seq(Frames)]

\* A task that ended has dropped what it held, and one that saw the end of its
\* application's data did so after the application closed.
Gone ==
  \A e \in Ends :
    /\ ended[e] # "no" => /\ inc[e] = "gone" /\ outg[e] = "gone"
                          /\ buffer[e] = <<>> /\ outpipe[e] = 0
    /\ ended[e] = "eof" => ~writer[e]

\* FIN is the last the reader gets: it is sent by a task that has ended, and
\* overtakes no body.
FinLast ==
  /\ NothingAfterFin(buffer[Rd]) /\ NothingAfterFin(wire[Wr])
  /\ HasFin(buffer[Rd]) \/ ended[Rd] = "fin" => ended[Wr] # "no" /\ Bodies(wire[Wr]) = 0
  /\ HasFin(wire[Wr]) => ended[Wr] # "no"

\* Bodies written and not yet in the reader's pipe: the one outgoing_task writes,
\* those in the buffer and on the wire, the one incoming_task holds, and the rest.
Written == IF outg[Rd] = "writing" THEN 1 ELSE 0
Taken == IF inc[Wr] = "waiting" THEN 1 ELSE 0
OnTheWay == Written + Bodies(buffer[Rd]) + Bodies(wire[Wr]) + Taken + outpipe[Wr]

IsCut ==
  ~reader[Rd] \/ ended[Rd] \in {"eof", "dropped"} \/ ended[Wr] \in {"fin", "dropped"}

\* No body is made up, and none is lost unless the stream is cut.
Accounted ==
  /\ got[Rd] + inpipe[Rd] + OnTheWay <= wrote[Wr]
  /\ ~IsCut => got[Rd] + inpipe[Rd] + OnTheWay = wrote[Wr]

IInv == Types /\ Gone /\ FinLast /\ Accounted

\* The reader and the writer of the direction are the two ends.
LEMMA RdWr ==
  ASSUME TwoEnds
  PROVE  /\ Rd \in Ends /\ Wr \in Ends /\ Rd # Wr /\ Ends = {Rd, Wr}
         /\ Peer(Rd) = Wr /\ Peer(Wr) = Rd
<1>1. PICK a, b : a # b /\ Ends = {a, b}
  BY DEF TwoEnds
<1>2. Rd \in Ends
  BY <1>1 DEF Rd
<1>3. \A e \in Ends : Peer(e) \in Ends /\ Peer(e) # e
  BY <1>1 DEF Peer
<1> QED
  BY <1>1, <1>2, <1>3 DEF Wr

\* What is counted are numbers.
LEMMA Numbers ==
  ASSUME Types
  PROVE  /\ got[Rd] \in Nat /\ inpipe[Rd] \in Nat /\ wrote[Wr] \in Nat
         /\ Written \in Nat /\ Taken \in Nat /\ outpipe[Wr] \in Nat
         /\ Bodies(buffer[Rd]) \in Nat /\ Bodies(wire[Wr]) \in Nat
<1>1. Rd \in Ends /\ Wr \in Ends
  BY RdWr DEF Types
<1>2. Bodies(buffer[Rd]) \in Nat /\ Bodies(wire[Wr]) \in Nat
  BY <1>1, BodiesType DEF Types
<1>3. Written \in Nat /\ Taken \in Nat
  BY DEF Written, Taken
<1> QED
  BY <1>1, <1>2, <1>3 DEF Types

\* A body that moves from one place to the next leaves the sum alone.
LEMMA MovedOn ==
  ASSUME NEW a \in Nat, NEW b \in Nat, NEW c \in Nat, NEW d \in Nat, NEW e \in Nat,
         NEW x \in Nat, NEW y \in Nat, x + y = b + c
  PROVE  a + x + y + d + e = a + b + c + d + e
OBVIOUS

\* So it does when incoming_task takes it.
LEMMA TakenOn ==
  ASSUME NEW a \in Nat, NEW b \in Nat, NEW c \in Nat, NEW d \in Nat, NEW e \in Nat,
         NEW x \in Nat, NEW y \in Nat, x + y = d + e
  PROVE  a + b + c + x + y = a + b + c + d + e
OBVIOUS

\* Adding one on either side, and adding nothing.
LEMMA Added == /\ \A m, n \in Nat : m + 1 \in Nat /\ (m + 1) + n = m + (n + 1)
               /\ \A n \in Nat : n + 0 = n
OBVIOUS

\* And a body that is lost on the wire makes it smaller.
LEMMA LostThere ==
  ASSUME NEW a \in Nat, NEW b \in Nat, NEW c \in Nat, NEW d \in Nat, NEW e \in Nat,
         NEW y \in Nat, y <= c
  PROVE  /\ a + b + y + d + e \in Nat /\ a + b + c + d + e \in Nat
         /\ a + b + y + d + e <= a + b + c + d + e
OBVIOUS

\* A body that is lost leaves a smaller sum.
LEMMA Fewer ==
  ASSUME NEW g \in Nat, NEW i \in Nat, NEW w \in Nat, NEW o \in Nat, NEW p \in Nat,
         p <= o, g + i + o <= w
  PROVE  g + i + p <= w
OBVIOUS

\* A stream starts empty.
LEMMA InitIInv == TwoEnds /\ Init => IInv
<1> SUFFICES ASSUME TwoEnds, Init PROVE IInv
  OBVIOUS
<1>1. Rd \in Ends /\ Wr \in Ends
  BY RdWr
<1>2. Types /\ Gone
  BY DEF Init, Types, Gone
<1>3. buffer[Rd] = <<>> /\ wire[Wr] = <<>> /\ ended[Rd] = "no"
  BY <1>1 DEF Init
<1>4. FinLast
  BY <1>3, EmptyFrames DEF FinLast
<1>5. Accounted
  BY <1>1, <1>3, EmptyFrames DEF Init, Accounted, OnTheWay, Written, Taken
<1> QED
  BY <1>2, <1>4, <1>5 DEF IInv

\* The application writes, reads, closes or drops.
LEMMA AppIInv == ASSUME NEW e \in Ends PROVE IInv /\ AppStep(e) => IInv'
<1> SUFFICES ASSUME IInv, AppStep(e) PROVE IInv'
  OBVIOUS
<1>1. Rd \in Ends /\ Wr \in Ends /\ Rd # Wr /\ (e = Rd \/ e = Wr)
  BY RdWr DEF IInv, Types
<1>2. UNCHANGED <<wire, inc, outg, ended, buffer>>
  BY Zenon DEF AppStep, AppWrite, AppRead, AppClose, AppDrop, taskVars
<1>3. FinLast'
  BY <1>2 DEF IInv, FinLast
<1>4. Types'
  <2>1. CASE AppWrite(e)
    BY <2>1, <1>2 DEF IInv, Types, AppWrite
  <2>2. CASE AppRead(e)
    BY <2>2, <1>2 DEF IInv, Types, AppRead
  <2>3. CASE AppClose(e)
    BY <2>3, <1>2 DEF IInv, Types, AppClose, Set
  <2>4. CASE AppDrop(e)
    BY <2>4, <1>2 DEF IInv, Types, AppDrop, Set
  <2> QED
    BY <2>1, <2>2, <2>3, <2>4 DEF AppStep
<1>5. Gone'
  <2>1. CASE AppWrite(e)
    BY <1>2, <2>1 DEF IInv, Types, Gone, Running, AppWrite
  <2>2. CASE AppRead(e)
    BY <1>2, <2>2 DEF IInv, Gone, AppRead
  <2>3. CASE AppClose(e)
    BY <1>2, <2>3 DEF IInv, Types, Gone, AppClose, Set
  <2>4. CASE AppDrop(e)
    BY <1>2, <2>4 DEF IInv, Types, Gone, AppDrop, Set
  <2> QED
    BY <2>1, <2>2, <2>3, <2>4 DEF AppStep
<1>6. /\ got[Rd] \in Nat /\ inpipe[Rd] \in Nat /\ wrote[Wr] \in Nat
      /\ Written \in Nat /\ Taken \in Nat /\ outpipe[Wr] \in Nat
      /\ Bodies(buffer[Rd]) \in Nat /\ Bodies(wire[Wr]) \in Nat
  BY Numbers DEF IInv
<1>7. Written' = Written /\ Taken' = Taken /\ Bodies(buffer[Rd])' = Bodies(buffer[Rd])
      /\ Bodies(wire[Wr])' = Bodies(wire[Wr])
  BY <1>2 DEF Written, Taken
<1>8. Accounted'
  <2>1. ASSUME got'[Rd] + inpipe'[Rd] = got[Rd] + inpipe[Rd], reader'[Rd] = reader[Rd],
               outpipe'[Wr] = outpipe[Wr], wrote'[Wr] = wrote[Wr]
        PROVE  Accounted'
    BY <2>1, <1>2, <1>6, <1>7 DEF IInv, Accounted, OnTheWay, IsCut
  <2>2. CASE AppWrite(e) /\ e = Wr
    <3>1. outpipe'[Wr] = outpipe[Wr] + 1 /\ wrote'[Wr] = wrote[Wr] + 1
          /\ UNCHANGED <<reader, inpipe, got>>
      BY <2>2, <1>1 DEF AppWrite, IInv, Types
    <3> QED
      BY <3>1, <1>2, <1>6, <1>7 DEF IInv, Accounted, OnTheWay, IsCut
  <2>3. CASE AppRead(e) /\ e = Rd
    <3>1. got'[Rd] = got[Rd] + 1 /\ inpipe'[Rd] = inpipe[Rd] - 1 /\ inpipe[Rd] > 0
          /\ UNCHANGED <<reader, outpipe, wrote>>
      BY <2>3, <1>1 DEF AppRead, IInv, Types
    <3> QED
      BY <3>1, <2>1, <1>6
  <2>4. CASE AppDrop(e) /\ e = Rd
    <3>1. inpipe'[Rd] = 0 /\ ~reader'[Rd] /\ UNCHANGED <<outpipe, got, wrote>>
      BY <2>4, <1>1 DEF AppDrop, IInv, Types, Set
    <3> QED
      BY <3>1, <1>6, <1>7 DEF IInv, Accounted, OnTheWay, IsCut
  <2>5. CASE \/ AppWrite(e) /\ e = Rd
             \/ AppRead(e) /\ e = Wr
             \/ AppClose(e)
             \/ AppDrop(e) /\ e = Wr
    <3>1. got'[Rd] = got[Rd] /\ inpipe'[Rd] = inpipe[Rd] /\ reader'[Rd] = reader[Rd]
          /\ outpipe'[Wr] = outpipe[Wr] /\ wrote'[Wr] = wrote[Wr]
      BY <2>5, <1>1, Zenon DEF AppWrite, AppRead, AppClose, AppDrop, IInv, Types, Set
    <3> QED
      BY <3>1, <2>1
  <2>6. e = Rd \/ e = Wr
    BY <1>1
  <2> QED
    BY <2>2, <2>3, <2>4, <2>5, <2>6, Zenon DEF AppStep
<1> QED
  BY <1>3, <1>4, <1>5, <1>8 DEF IInv

\* The task of an end is over.  Nothing is lost that the peer will miss when the
\* end of the application's data was its reason, or the peer's FIN at the reader.
LEMMA EndIInv ==
  ASSUME IInv, NEW e \in Ends, ended[e] = "no", NEW why \in {"eof", "fin", "dropped"},
         End(e, why), UNCHANGED <<inpipe, reader, writer, wrote, got>>,
         why = "eof" => ~writer[e] /\ outpipe[e] = 0 /\ inc[e] = "reading",
         why = "fin" => outg[e] = "recv" /\ buffer[e] # <<>> /\ Head(buffer[e]) = "FIN"
  PROVE  IInv'
<1>1. Rd \in Ends /\ Wr \in Ends /\ Rd # Wr /\ (e = Rd \/ e = Wr)
  BY RdWr DEF IInv, Types
<1>2. /\ \A d \in Ends : wire[d] \in Seq(Frames)
      /\ \A d \in Ends : Append(wire[d], "FIN") \in Seq(Frames)
  BY DEF IInv, Types, Frames
<1>3. Types'
  <2>1. wire' \in [Ends -> Seq(Frames)]
    BY <1>2 DEF IInv, Types, End
  <2>2. buffer' \in [Ends -> Seq(Frames)]
    BY DEF IInv, Types, End, Set
  <2> QED
    BY <2>1, <2>2 DEF IInv, Types, End, Set
<1>4. Gone'
  BY DEF IInv, Types, Gone, End, Set
<1>5. /\ got[Rd] \in Nat /\ inpipe[Rd] \in Nat /\ wrote[Wr] \in Nat
      /\ Written \in Nat /\ Taken \in Nat /\ outpipe[Wr] \in Nat
      /\ Bodies(buffer[Rd]) \in Nat /\ Bodies(wire[Wr]) \in Nat
  BY Numbers DEF IInv
<1>6. CASE e = Rd
  <2>1. /\ buffer'[Rd] = <<>> /\ wire'[Wr] = wire[Wr] /\ ended'[Rd] = why
        /\ ended'[Wr] = ended[Wr] /\ outg'[Rd] = "gone" /\ inc'[Wr] = inc[Wr]
        /\ outpipe'[Wr] = outpipe[Wr]
    BY <1>1, <1>6 DEF IInv, Types, End, Set
  <2>2. ASSUME why = "fin"
        PROVE  HasFin(buffer[Rd]) /\ Bodies(buffer[Rd]) = 0 /\ Written = 0
    <3>1. buffer[Rd] \in Seq(Frames) /\ buffer[Rd] # <<>> /\ Head(buffer[Rd]) = "FIN"
      BY <1>1, <1>6, <2>2 DEF IInv, Types
    <3>2. NothingAfterFin(buffer[Rd])
      BY DEF IInv, FinLast
    <3>3. /\ Bodies(buffer[Rd]) = Bodies(Tail(buffer[Rd])) + 0 /\ HasFin(buffer[Rd])
          /\ Bodies(Tail(buffer[Rd])) = 0
      BY <3>1, <3>2, TailFrame
    <3>4. Written = 0
      BY <1>6, <2>2 DEF Written
    <3> QED
      BY <3>3, <3>4
  <2>3. FinLast'
    BY <2>1, <2>2, EmptyFrames DEF IInv, FinLast
  <2>4. Written' = 0 /\ Taken' = Taken /\ Bodies(buffer'[Rd]) = 0
        /\ Bodies(wire'[Wr]) = Bodies(wire[Wr])
    BY <2>1, EmptyFrames DEF Written, Taken
  <2>5. OnTheWay' = Bodies(wire[Wr]) + Taken + outpipe[Wr]
    BY <2>1, <2>4, <1>5 DEF OnTheWay
  <2>6. ~IsCut' => ~IsCut /\ why = "fin"
    BY <1>6, <2>1 DEF IsCut
  <2>7. OnTheWay \in Nat /\ OnTheWay' \in Nat /\ OnTheWay' <= OnTheWay
        /\ (why = "fin" => OnTheWay' = OnTheWay)
    BY <2>2, <2>5, <1>5, SMTT(60) DEF OnTheWay
  <2>8. Accounted'
    <3>1. /\ got[Rd] + inpipe[Rd] + OnTheWay <= wrote[Wr]
          /\ ~IsCut => got[Rd] + inpipe[Rd] + OnTheWay = wrote[Wr]
      BY DEF IInv, Accounted
    <3>2. got[Rd] + inpipe[Rd] + OnTheWay' <= wrote[Wr]
      BY <1>5, <2>7, <3>1, Fewer
    <3>3. ~IsCut' => got[Rd] + inpipe[Rd] + OnTheWay' = wrote[Wr]
      BY <2>6, <2>7, <3>1
    <3> QED
      BY <3>2, <3>3 DEF Accounted
  <2> QED
    BY <1>3, <1>4, <2>3, <2>8 DEF IInv
<1>7. CASE e = Wr
  <2>1. /\ wire'[Wr] = Append(wire[Wr], "FIN") /\ buffer'[Rd] = buffer[Rd]
        /\ ended'[Wr] = why /\ ended'[Rd] = ended[Rd] /\ inc'[Wr] = "gone"
        /\ outg'[Rd] = outg[Rd] /\ outpipe'[Wr] = 0
    BY <1>1, <1>7 DEF IInv, Types, End, Set
  <2>2. /\ Bodies(Append(wire[Wr], "FIN")) = Bodies(wire[Wr]) + 0
        /\ NothingAfterFin(wire[Wr]) => NothingAfterFin(Append(wire[Wr], "FIN"))
    BY <1>1, <1>2, AppendFrame DEF Frames
  <2>3. FinLast'
    BY <1>7, <2>1, <2>2 DEF IInv, FinLast
  <2>4. Written' = Written /\ Taken' = 0 /\ Bodies(buffer'[Rd]) = Bodies(buffer[Rd])
        /\ Bodies(wire'[Wr]) = Bodies(wire[Wr])
    BY <2>1, <2>2, <1>5 DEF Written, Taken
  <2>5. OnTheWay' = Written + Bodies(buffer[Rd]) + Bodies(wire[Wr]) + 0 + 0
    BY <2>1, <2>4 DEF OnTheWay
  <2>6. ~IsCut' => ~IsCut /\ Taken = 0 /\ outpipe[Wr] = 0
    BY <1>7, <2>1 DEF IsCut, Taken
  <2>7. Accounted'
    <3>1. /\ got[Rd] + inpipe[Rd] + OnTheWay <= wrote[Wr]
          /\ ~IsCut => got[Rd] + inpipe[Rd] + OnTheWay = wrote[Wr]
      BY DEF IInv, Accounted
    <3>2. OnTheWay \in Nat /\ OnTheWay' \in Nat /\ OnTheWay' <= OnTheWay
      <4>1. OnTheWay' = Written + Bodies(buffer[Rd]) + Bodies(wire[Wr])
        BY <1>5, <2>5
      <4>2. OnTheWay = Written + Bodies(buffer[Rd]) + Bodies(wire[Wr]) + Taken + outpipe[Wr]
        BY DEF OnTheWay
      <4> QED
        BY <1>5, <4>1, <4>2, SMTT(60)
    <3>3. got[Rd] + inpipe[Rd] + OnTheWay' <= wrote[Wr]
      BY <1>5, <3>1, <3>2, Fewer, Zenon
    <3>4. ~IsCut' => OnTheWay' = OnTheWay
      BY <2>5, <2>6 DEF OnTheWay
    <3>5. ~IsCut' => got[Rd] + inpipe[Rd] + OnTheWay' = wrote[Wr]
      BY <2>6, <3>1, <3>4
    <3> QED
      BY <3>3, <3>5 DEF Accounted
  <2> QED
    BY <1>3, <1>4, <2>3, <2>7 DEF IInv
<1> QED
  BY <1>1, <1>6, <1>7

\* incoming_task takes a body, sees the end of the data, or sends a body.
LEMMA IncomingIInv == ASSUME NEW e \in Ends PROVE IInv /\ Incoming(e) => IInv'
<1> SUFFICES ASSUME IInv, Incoming(e) PROVE IInv'
  OBVIOUS
<1>1. Rd \in Ends /\ Wr \in Ends /\ Rd # Wr /\ (e = Rd \/ e = Wr)
  BY RdWr DEF IInv, Types
<1>2. /\ got[Rd] \in Nat /\ inpipe[Rd] \in Nat /\ wrote[Wr] \in Nat
      /\ Written \in Nat /\ Taken \in Nat /\ outpipe[Wr] \in Nat
      /\ Bodies(buffer[Rd]) \in Nat /\ Bodies(wire[Wr]) \in Nat
  BY Numbers DEF IInv
<1>3. ended[e] = "no" /\ inc[e] # "gone"
  BY DEF IInv, Types, Gone, Incoming, TakeBody, TakeEof, SendPsh
<1>4. CASE TakeEof(e)
  BY <1>3, <1>4, EndIInv DEF TakeEof, appVars
<1>5. CASE TakeBody(e)
  <2>1. /\ Types' /\ UNCHANGED <<reader, writer, inpipe, outg, ended, buffer, wire, wrote, got>>
    BY <1>5, SMTT(60) DEF IInv, Types, TakeBody, Set, appVars
  <2>2. Gone'
    BY <1>3, <1>5, <2>1 DEF IInv, Types, Gone, TakeBody, Set
  <2>3. FinLast'
    BY <2>1 DEF IInv, FinLast
  <2>4. Taken' + outpipe'[Wr] = Taken + outpipe[Wr]
        /\ Taken' \in Nat /\ outpipe'[Wr] \in Nat
    <3>1. CASE e = Rd
      <4>1. inc'[Wr] = inc[Wr] /\ outpipe'[Wr] = outpipe[Wr]
        BY <1>1, <1>5, <3>1 DEF IInv, Types, TakeBody, Set
      <4> QED
        BY <1>2, <4>1 DEF Taken
    <3>2. CASE e = Wr
      <4>1. inc[Wr] = "reading" /\ inc'[Wr] = "waiting" /\ outpipe[Wr] > 0
            /\ outpipe'[Wr] = outpipe[Wr] - 1
        BY <1>1, <1>5, <3>2 DEF IInv, Types, TakeBody, Set
      <4>2. Taken = 0 /\ Taken' = 1
        BY <4>1 DEF Taken
      <4> QED
        BY <1>2, <4>1, <4>2
    <3> QED
      BY <1>1, <3>1, <3>2
  <2>5. Written' = Written /\ Bodies(buffer[Rd])' = Bodies(buffer[Rd])
        /\ Bodies(wire[Wr])' = Bodies(wire[Wr]) /\ IsCut' = IsCut
    BY <2>1 DEF Written, IsCut
  <2>6. OnTheWay' = OnTheWay
    <3>1. OnTheWay' = Written + Bodies(buffer[Rd]) + Bodies(wire[Wr]) + Taken' + outpipe'[Wr]
      BY <2>5 DEF OnTheWay
    <3>2. OnTheWay' = Written + Bodies(buffer[Rd]) + Bodies(wire[Wr]) + Taken + outpipe[Wr]
      BY <1>2, <2>4, <3>1, TakenOn
    <3> QED
      BY <3>2 DEF OnTheWay
  <2> QED
    BY <2>1, <2>2, <2>3, <2>5, <2>6 DEF IInv, Accounted
<1>6. CASE SendPsh(e)
  <2>1. UNCHANGED <<reader, writer, inpipe, outg, ended, buffer, wrote, got, outpipe>>
    BY <1>6 DEF SendPsh, appVars
  <2>2. wire[e] \in Seq(Frames) /\ wire'[e] = Append(wire[e], "PSH")
        /\ wire'[e] \in Seq(Frames)
    BY <1>6, AppendFrame DEF IInv, Types, SendPsh, Frames
  <2>3. Types'
    BY <1>6, <2>1, <2>2 DEF IInv, Types, SendPsh, Set
  <2>4. Gone'
    BY <1>3, <1>6, <2>1 DEF IInv, Types, Gone, SendPsh, Set
  <2>5. CASE e = Rd
    <3>1. wire'[Wr] = wire[Wr] /\ inc'[Wr] = inc[Wr]
      BY <1>1, <1>6, <2>5 DEF IInv, Types, SendPsh, Set
    <3>2. FinLast'
      BY <2>1, <3>1 DEF IInv, FinLast
    <3>3. OnTheWay' = OnTheWay /\ IsCut' = IsCut
      BY <2>1, <3>1 DEF OnTheWay, Written, Taken, IsCut
    <3> QED
      BY <2>1, <2>3, <2>4, <3>2, <3>3 DEF IInv, Accounted
  <2>6. CASE e = Wr
    <3>1. Bodies(wire'[Wr]) = Bodies(wire[Wr]) + 1
      BY <2>2, <2>6, AppendFrame, Zenon DEF Frames
    <3>2. Taken = 1 /\ Taken' = 0
      BY <1>1, <1>6, <2>6 DEF IInv, Types, SendPsh, Set, Taken
    <3>3. ~HasFin(wire[Wr]) /\ ~HasFin(buffer[Rd]) /\ ended[Rd] # "fin"
      BY <1>3, <2>6 DEF IInv, FinLast
    <3>4. NothingAfterFin(wire'[Wr]) /\ ~HasFin(wire'[Wr])
      <4>1. "PSH" \in Frames /\ NothingAfterFin(wire[Wr]) /\ wire[Wr] \in Seq(Frames)
            /\ wire'[Wr] = Append(wire[Wr], "PSH")
        BY <2>2, <2>6 DEF IInv, FinLast, Frames
      <4> DEFINE t == Append(wire[Wr], "PSH")
      <4>2. /\ HasFin(t) <=> HasFin(wire[Wr]) \/ "PSH" = "FIN"
            /\ NothingAfterFin(wire[Wr]) /\ (HasFin(wire[Wr]) => "PSH" # "PSH")
                 => NothingAfterFin(t)
        BY <4>1, AppendFrame
      <4> QED
        BY <3>3, <4>1, <4>2
    <3>5. FinLast'
      BY <2>1, <3>3, <3>4 DEF IInv, FinLast
    <3>6. Written' = Written /\ IsCut' = IsCut
      BY <2>1 DEF Written, IsCut
    <3>7. OnTheWay' = OnTheWay
      BY <1>2, <2>1, <3>1, <3>2, <3>6 DEF OnTheWay
    <3> QED
      BY <2>1, <2>3, <2>4, <3>5, <3>6, <3>7 DEF IInv, Accounted
  <2> QED
    BY <1>1, <2>5, <2>6
<1> QED
  BY <1>4, <1>5, <1>6 DEF Incoming

\* outgoing_task takes a body or FIN, writes a body to the application, or fails.
LEMMA OutgoingIInv == ASSUME NEW e \in Ends PROVE IInv /\ Outgoing(e) => IInv'
<1> SUFFICES ASSUME IInv, Outgoing(e) PROVE IInv'
  OBVIOUS
<1>1. Rd \in Ends /\ Wr \in Ends /\ Rd # Wr /\ (e = Rd \/ e = Wr)
  BY RdWr DEF IInv, Types
<1>2. /\ got[Rd] \in Nat /\ inpipe[Rd] \in Nat /\ wrote[Wr] \in Nat
      /\ Written \in Nat /\ Taken \in Nat /\ outpipe[Wr] \in Nat
      /\ Bodies(buffer[Rd]) \in Nat /\ Bodies(wire[Wr]) \in Nat
  BY Numbers DEF IInv
<1>3. ended[e] = "no" /\ outg[e] # "gone"
  BY DEF IInv, Types, Gone, Outgoing, RecvPsh, RecvFin, WriteIncoming, WriteFails
<1>4. CASE RecvFin(e)
  BY <1>3, <1>4, EndIInv DEF RecvFin, appVars
<1>5. CASE WriteFails(e)
  BY <1>3, <1>5, EndIInv DEF WriteFails, appVars
<1>6. CASE RecvPsh(e)
  <2>1. UNCHANGED <<reader, writer, outpipe, inpipe, inc, ended, wire, wrote, got>>
    BY <1>6 DEF RecvPsh, appVars
  <2>2. buffer[e] \in Seq(Frames) /\ buffer[e] # <<>> /\ Head(buffer[e]) = "PSH"
        /\ buffer'[e] = Tail(buffer[e]) /\ Tail(buffer[e]) \in Seq(Frames)
    BY <1>6, TailFrame DEF IInv, Types, RecvPsh
  <2>3. Types'
    BY <1>6, <2>1, <2>2 DEF IInv, Types, RecvPsh, Set
  <2>4. Gone'
    BY <1>3, <1>6, <2>1, SMTT(60) DEF IInv, Types, Gone, RecvPsh, Set
  <2>5. CASE e = Wr
    <3>1. buffer'[Rd] = buffer[Rd] /\ outg'[Rd] = outg[Rd]
      BY <1>1, <1>6, <2>5 DEF IInv, Types, RecvPsh, Set
    <3>2. FinLast'
      BY <2>1, <3>1 DEF IInv, FinLast
    <3>3. OnTheWay' = OnTheWay /\ IsCut' = IsCut
      BY <2>1, <3>1 DEF OnTheWay, Written, Taken, IsCut
    <3> QED
      BY <2>1, <2>3, <2>4, <3>2, <3>3 DEF IInv, Accounted
  <2>6. CASE e = Rd
    <3>1. Bodies(buffer[Rd]) = Bodies(buffer'[Rd]) + 1 /\ Bodies(buffer'[Rd]) \in Nat
      BY <2>2, <2>6, TailFrame, BodiesType, Zenon
    <3>2. Written = 0 /\ Written' = 1
      BY <1>1, <1>6, <2>6 DEF IInv, Types, RecvPsh, Set, Written
    <3>3. (HasFin(buffer'[Rd]) => HasFin(buffer[Rd])) /\ NothingAfterFin(buffer'[Rd])
      <4>1. /\ HasFin(buffer[Rd]) <=> HasFin(Tail(buffer[Rd])) \/ Head(buffer[Rd]) = "FIN"
            /\ NothingAfterFin(buffer[Rd]) => NothingAfterFin(Tail(buffer[Rd]))
        BY <2>2, <2>6, TailFrame
      <4> QED
        BY <2>2, <2>6, <4>1 DEF IInv, FinLast
    <3>4. FinLast'
      BY <2>1, <3>3 DEF IInv, FinLast
    <3>5. Taken' = Taken /\ IsCut' = IsCut
      BY <2>1 DEF Taken, IsCut
    <3>6. OnTheWay' = OnTheWay
      BY <1>2, <2>1, <3>1, <3>2, <3>5 DEF OnTheWay
    <3> QED
      BY <2>1, <2>3, <2>4, <3>4, <3>5, <3>6 DEF IInv, Accounted
  <2> QED
    BY <1>1, <2>5, <2>6
<1>7. CASE WriteIncoming(e)
  <2>1. UNCHANGED <<reader, writer, outpipe, inc, ended, buffer, wrote, got>>
    BY <1>7 DEF WriteIncoming, appVars
  <2>2. wire[e] \in Seq(Frames) /\ wire'[e] = Append(wire[e], "MORE")
        /\ wire'[e] \in Seq(Frames)
    BY <1>7, AppendFrame DEF IInv, Types, WriteIncoming, Frames
  <2>3. Types'
    BY <1>7, <2>1, <2>2 DEF IInv, Types, WriteIncoming, Set
  <2>4. Gone'
    BY <1>3, <1>7, <2>1, SMTT(60) DEF IInv, Types, Gone, WriteIncoming, Set
  <2>5. CASE e = Wr
    <3>1. outg'[Rd] = outg[Rd] /\ inpipe'[Rd] = inpipe[Rd]
      BY <1>1, <1>7, <2>5 DEF IInv, Types, WriteIncoming, Set
    <3>2. /\ Bodies(wire'[Wr]) = Bodies(wire[Wr]) + 0
          /\ HasFin(wire'[Wr]) <=> HasFin(wire[Wr]) \/ "MORE" = "FIN"
          /\ NothingAfterFin(wire[Wr]) => NothingAfterFin(wire'[Wr])
      BY <2>2, <2>5, AppendFrame, Zenon DEF Frames
    <3>3. Bodies(wire'[Wr]) = Bodies(wire[Wr])
      BY <1>2, <3>2
    <3>4. FinLast'
      BY <2>1, <3>2, <3>3 DEF IInv, FinLast
    <3>5. OnTheWay' = OnTheWay /\ IsCut' = IsCut
      BY <2>1, <3>1, <3>3 DEF OnTheWay, Written, Taken, IsCut
    <3> QED
      BY <2>1, <2>3, <2>4, <3>1, <3>4, <3>5 DEF IInv, Accounted
  <2>6. CASE e = Rd
    <3>1. wire'[Wr] = wire[Wr] /\ inpipe'[Rd] = inpipe[Rd] + 1
          /\ outg[Rd] = "writing" /\ outg'[Rd] = "recv"
      BY <1>1, <1>7, <2>6 DEF IInv, Types, WriteIncoming, Set
    <3>2. FinLast'
      BY <2>1, <3>1 DEF IInv, FinLast
    <3>3. Written = 1 /\ Written' = 0 /\ Taken' = Taken /\ IsCut' = IsCut
      BY <2>1, <3>1 DEF Written, Taken, IsCut
    <3>4. OnTheWay \in Nat /\ OnTheWay' \in Nat /\ OnTheWay = OnTheWay' + 1
      BY <1>2, <2>1, <3>1, <3>3 DEF OnTheWay
    <3>5. got[Rd] + inpipe'[Rd] + OnTheWay' = got[Rd] + inpipe[Rd] + OnTheWay
      BY <1>2, <3>1, <3>4
    <3>6. Accounted'
      <4>1. /\ got[Rd] + inpipe[Rd] + OnTheWay <= wrote[Wr]
            /\ ~IsCut => got[Rd] + inpipe[Rd] + OnTheWay = wrote[Wr]
        BY DEF IInv, Accounted
      <4> QED
        BY <2>1, <3>3, <3>5, <4>1 DEF Accounted
    <3> QED
      BY <2>3, <2>4, <3>2, <3>6 DEF IInv
  <2> QED
    BY <1>1, <2>5, <2>6
<1> QED
  BY <1>4, <1>5, <1>6, <1>7 DEF Outgoing

\* The reader loop moves a frame from the wire to the buffer, or drops it when the
\* stream is over: then none of the bodies that are still owed.
LEMMA HandleIInv == ASSUME NEW e \in Ends PROVE IInv /\ Handle(e) => IInv'
<1> SUFFICES ASSUME IInv, Handle(e) PROVE IInv'
  OBVIOUS
<1>1. /\ Rd \in Ends /\ Wr \in Ends /\ Rd # Wr /\ (e = Rd \/ e = Wr)
      /\ Peer(Rd) = Wr /\ Peer(Wr) = Rd
  BY RdWr DEF IInv, Types
<1>2. /\ got[Rd] \in Nat /\ inpipe[Rd] \in Nat /\ wrote[Wr] \in Nat
      /\ Written \in Nat /\ Taken \in Nat /\ outpipe[Wr] \in Nat
      /\ Bodies(buffer[Rd]) \in Nat /\ Bodies(wire[Wr]) \in Nat
  BY Numbers DEF IInv
<1>3. UNCHANGED <<reader, writer, outpipe, inpipe, inc, outg, ended, wrote, got>>
  BY DEF Handle, appVars
<1>4. Peer(e) \in Ends
  BY <1>1
<1> DEFINE s == wire[Peer(e)]
<1>5. /\ s \in Seq(Frames) /\ s # <<>> /\ Tail(s) \in Seq(Frames) /\ Head(s) \in Frames
      /\ wire' = [wire EXCEPT ![Peer(e)] = Tail(s)]
  BY <1>4, TailFrame DEF Handle, IInv, Types
<1>6. \/ ended[e] = "no" /\ Head(s) # "MORE"
           /\ buffer' = [buffer EXCEPT ![e] = Append(buffer[e], Head(s))]
      \/ (ended[e] # "no" \/ Head(s) = "MORE") /\ buffer' = buffer
  BY Zenon DEF Handle, Running, IInv, Types
<1>7. buffer[e] \in Seq(Frames) /\ Append(buffer[e], Head(s)) \in Seq(Frames)
  BY <1>5, AppendFrame DEF IInv, Types
<1> HIDE DEF s
<1>8. Types'
  <2>1. wire' \in [Ends -> Seq(Frames)]
    BY <1>5, Zenon DEF IInv, Types
  <2>2. buffer' \in [Ends -> Seq(Frames)]
    BY <1>6, <1>7, Zenon DEF IInv, Types
  <2> QED
    BY <1>3, <2>1, <2>2, SMTT(60) DEF IInv, Types
<1>9. Gone'
  BY <1>3, <1>6 DEF IInv, Types, Gone
<1>10. Written' = Written /\ Taken' = Taken /\ IsCut' = IsCut
  BY <1>3 DEF Written, Taken, IsCut
<1>11. CASE e = Wr
  <2>1. wire'[Wr] = wire[Wr] /\ buffer'[Rd] = buffer[Rd]
    BY <1>1, <1>5, <1>6, <1>11, SMTT(60) DEF IInv, Types
  <2>2. FinLast'
    BY <1>3, <2>1 DEF IInv, FinLast
  <2>3. OnTheWay' = OnTheWay
    BY <1>3, <1>10, <2>1 DEF OnTheWay
  <2> QED
    BY <1>3, <1>8, <1>9, <1>10, <2>2, <2>3 DEF IInv, Accounted
<1>12. CASE e = Rd
  <2>1. s = wire[Wr] /\ wire'[Wr] = Tail(s)
    BY <1>1, <1>5, <1>12 DEF IInv, Types, s
  <2>2. /\ Bodies(s) = Bodies(Tail(s)) + (IF Head(s) = "PSH" THEN 1 ELSE 0)
        /\ Bodies(Tail(s)) \in Nat
        /\ HasFin(s) <=> HasFin(Tail(s)) \/ Head(s) = "FIN"
        /\ NothingAfterFin(s) =>
             NothingAfterFin(Tail(s)) /\ (Head(s) = "FIN" => Bodies(Tail(s)) = 0)
    BY <1>5, TailFrame, BodiesType, Zenon
  <2>3. NothingAfterFin(s) /\ (HasFin(s) => ended[Wr] # "no")
    BY <2>1 DEF IInv, FinLast
  <2>4. CASE buffer' = [buffer EXCEPT ![e] = Append(buffer[e], Head(s))] /\ Head(s) # "MORE"
    <3>1. buffer'[Rd] = Append(buffer[Rd], Head(s)) /\ buffer[Rd] \in Seq(Frames)
      BY <1>7, <1>12, <2>4 DEF IInv, Types
    <3>2. /\ Bodies(buffer'[Rd]) = Bodies(buffer[Rd]) + (IF Head(s) = "PSH" THEN 1 ELSE 0)
          /\ HasFin(buffer'[Rd]) <=> HasFin(buffer[Rd]) \/ Head(s) = "FIN"
          /\ NothingAfterFin(buffer[Rd]) /\ (HasFin(buffer[Rd]) => Head(s) # "PSH")
               => NothingAfterFin(buffer'[Rd])
      BY <1>5, <3>1, AppendFrame
    <3>3. HasFin(buffer[Rd]) => Bodies(s) = 0 /\ ended[Wr] # "no"
      BY <2>1 DEF IInv, FinLast
    <3>4. HasFin(buffer[Rd]) => Head(s) # "PSH" /\ Bodies(Tail(s)) = 0
      BY <2>2, <3>3
    <3>5. ended[Rd] = "fin" => ended[Wr] # "no" /\ Bodies(Tail(s)) = 0
      <4>1. ended[Rd] = "fin" => ended[Wr] # "no" /\ Bodies(s) = 0
        BY <2>1 DEF IInv, FinLast
      <4> QED
        BY <2>2, <4>1
    <3>6. FinLast'
      BY <1>3, <2>1, <2>2, <2>3, <3>2, <3>3, <3>4, <3>5 DEF IInv, FinLast
    <3>7. OnTheWay' = OnTheWay
      <4>1. CASE Head(s) = "PSH"
        <5>1. /\ Bodies(buffer'[Rd]) = Bodies(buffer[Rd]) + 1
              /\ Bodies(wire[Wr]) = Bodies(wire'[Wr]) + 1 /\ Bodies(wire'[Wr]) \in Nat
          BY <2>1, <2>2, <3>2, <4>1
        <5>2. /\ Bodies(buffer'[Rd]) \in Nat
              /\ Bodies(buffer'[Rd]) + Bodies(wire'[Wr]) = Bodies(buffer[Rd]) + Bodies(wire[Wr])
          BY <1>2, <5>1, Added
        <5> QED
          <6>1. OnTheWay' = Written + Bodies(buffer'[Rd]) + Bodies(wire'[Wr]) + Taken + outpipe[Wr]
            BY <1>3, <1>10 DEF OnTheWay
          <6>2. OnTheWay' = Written + Bodies(buffer[Rd]) + Bodies(wire[Wr]) + Taken + outpipe[Wr]
            BY <1>2, <5>1, <5>2, <6>1, MovedOn
          <6> QED
            BY <6>2 DEF OnTheWay
      <4>2. CASE Head(s) # "PSH"
        <5>1. /\ Bodies(buffer'[Rd]) = Bodies(buffer[Rd]) + 0
              /\ Bodies(wire[Wr]) = Bodies(wire'[Wr]) + 0 /\ Bodies(wire'[Wr]) \in Nat
          BY <2>1, <2>2, <3>2, <4>2
        <5>2. Bodies(buffer'[Rd]) = Bodies(buffer[Rd]) /\ Bodies(wire[Wr]) = Bodies(wire'[Wr])
          BY <1>2, <5>1, Added, Zenon
        <5> QED
          BY <1>3, <1>10, <5>2 DEF OnTheWay
      <4> QED
        BY <4>1, <4>2, SMTT(60)
    <3> QED
      BY <1>3, <1>8, <1>9, <1>10, <3>6, <3>7 DEF IInv, Accounted
  <2>5. CASE buffer' = buffer /\ (ended[e] # "no" \/ Head(s) = "MORE")
    <3>1. ended[Rd] = "fin" \/ HasFin(buffer[Rd]) => Bodies(Tail(s)) = 0 /\ ended[Wr] # "no"
      <4>1. ended[Rd] = "fin" \/ HasFin(buffer[Rd]) => ended[Wr] # "no" /\ Bodies(s) = 0
        BY <2>1 DEF IInv, FinLast
      <4> QED
        BY <2>2, <4>1
    <3>2. FinLast'
      BY <1>3, <2>1, <2>2, <2>3, <2>5, <3>1 DEF IInv, FinLast
    <3>3. Bodies(wire'[Wr]) \in Nat /\ Bodies(wire'[Wr]) <= Bodies(wire[Wr])
      BY <2>1, <2>2
    <3>4. ~IsCut => Bodies(wire'[Wr]) = Bodies(wire[Wr])
      <4>1. ~IsCut => ended[Rd] \in {"no", "fin"}
        BY <1>1 DEF IsCut, IInv, Types
      <4>2. ended[Rd] = "fin" => Bodies(s) = 0
        BY <2>1 DEF IInv, FinLast
      <4>3. Head(s) = "MORE" => Bodies(Tail(s)) = Bodies(s)
        BY <2>2
      <4>4. ended[Rd] = "fin" => Bodies(Tail(s)) = Bodies(s)
        BY <2>2, <4>2
      <4> QED
        BY <1>12, <2>1, <2>5, <4>1, <4>3, <4>4
    <3>5. /\ OnTheWay \in Nat /\ OnTheWay' \in Nat /\ OnTheWay' <= OnTheWay
          /\ ~IsCut => OnTheWay' = OnTheWay
      <4>1. /\ OnTheWay' = Written + Bodies(buffer[Rd]) + Bodies(wire'[Wr]) + Taken + outpipe[Wr]
            /\ OnTheWay = Written + Bodies(buffer[Rd]) + Bodies(wire[Wr]) + Taken + outpipe[Wr]
        BY <1>3, <1>10, <2>5 DEF OnTheWay
      <4>2. ~IsCut => OnTheWay' = OnTheWay
        BY <3>4, <4>1
      <4> QED
        BY <1>2, <3>3, <4>1, <4>2, LostThere
    <3>6. Accounted'
      <4>1. /\ got[Rd] + inpipe[Rd] + OnTheWay <= wrote[Wr]
            /\ ~IsCut => got[Rd] + inpipe[Rd] + OnTheWay = wrote[Wr]
        BY DEF IInv, Accounted
      <4>2. got[Rd] + inpipe[Rd] + OnTheWay' <= wrote[Wr]
        BY <1>2, <3>5, <4>1, Fewer
      <4>3. ~IsCut => got[Rd] + inpipe[Rd] + OnTheWay' = wrote[Wr]
        BY <3>5, <4>1
      <4> QED
        BY <1>3, <1>10, <4>2, <4>3 DEF Accounted
    <3> QED
      BY <1>8, <1>9, <3>2, <3>6 DEF IInv
  <2> QED
    BY <1>6, <2>4, <2>5
<1> QED
  BY <1>1, <1>11, <1>12

\* Every step keeps the invariant.
LEMMA Inductive == IInv /\ [Next]_vars => IInv'
<1> SUFFICES ASSUME IInv, [Next]_vars PROVE IInv'
  OBVIOUS
<1>1. ASSUME NEW e \in Ends, AppStep(e) \/ Incoming(e) \/ Outgoing(e) \/ Handle(e)
      PROVE  IInv'
  BY <1>1, AppIInv, IncomingIInv, OutgoingIInv, HandleIInv
<1>2. CASE UNCHANGED vars
  <2>1. /\ UNCHANGED <<reader, writer, outpipe, inpipe, inc, outg, ended, buffer>>
        /\ UNCHANGED <<wire, wrote, got>>
    BY <1>2 DEF vars
  <2>2. Types' /\ Gone' /\ FinLast'
    <3>1. Types'
      BY <2>1 DEF IInv, Types
    <3>2. Gone'
      BY <2>1 DEF IInv, Gone
    <3>3. FinLast'
      BY <2>1 DEF IInv, FinLast
    <3> QED
      BY <3>1, <3>2, <3>3
  <2>3. OnTheWay' = OnTheWay /\ IsCut' = IsCut
    BY <2>1 DEF OnTheWay, Written, Taken, IsCut
  <2> QED
    BY <2>1, <2>2, <2>3 DEF IInv, Accounted
<1> QED
  BY <1>1, <1>2 DEF Next, Over

----------------------------------------------------------------------------
(* Refinement.                                                             *)

Complete == ~writer[Wr] /\ got[Rd] + inpipe[Rd] = wrote[Wr]
CleanIsComplete == IInv /\ ended[Rd] # "no" /\ ~IsCut => Complete

\* At a clean end of file the writer has closed and all it wrote was delivered.
LEMMA CleanEnd == CleanIsComplete
<1> SUFFICES ASSUME IInv, ended[Rd] # "no", ~IsCut PROVE Complete
  BY DEF CleanIsComplete
<1>1. Rd \in Ends /\ Wr \in Ends
  BY RdWr DEF IInv, Types
<1>2. ended[Rd] = "fin"
  BY <1>1 DEF IInv, Types, IsCut
<1>3. ended[Wr] # "no" /\ Bodies(wire[Wr]) = 0
  BY <1>2 DEF IInv, FinLast
<1>4. ended[Wr] = "eof"
  BY <1>1, <1>3 DEF IInv, Types, IsCut
<1>5. /\ ~writer[Wr] /\ inc[Wr] = "gone" /\ outpipe[Wr] = 0
      /\ outg[Rd] = "gone" /\ buffer[Rd] = <<>>
  BY <1>1, <1>2, <1>4 DEF IInv, Gone
<1>6. OnTheWay = 0
  BY <1>3, <1>5, EmptyFrames DEF OnTheWay, Written, Taken
<1>7. got[Rd] \in Nat /\ inpipe[Rd] \in Nat /\ wrote[Wr] \in Nat
  BY Numbers DEF IInv
<1> QED
  BY <1>5, <1>6, <1>7 DEF IInv, Accounted, Complete

\* So it is after a step.
LEMMA CleanEndNext == CleanIsComplete'
BY CleanEnd, PTL

\* What the application of either end does is a step of the abstract stream.
LEMMA AppSimulates ==
  ASSUME IInv, NEW e \in Ends, AppStep(e)
  PROVE  [Direction!Next]_Direction!vars
<1>1. Rd \in Ends /\ Wr \in Ends /\ Rd # Wr /\ (e = Rd \/ e = Wr)
  BY RdWr DEF IInv, Types
<1>2. /\ got[Rd] \in Nat /\ inpipe[Rd] \in Nat /\ wrote[Wr] \in Nat /\ OnTheWay \in Nat
  BY Numbers DEF IInv, OnTheWay
<1>3. UNCHANGED ended
  BY Zenon DEF AppStep, AppWrite, AppRead, AppClose, AppDrop, taskVars
<1>4. CASE AppWrite(e)
  <2>1. UNCHANGED <<reader, writer, inpipe, got>>
    BY <1>4 DEF AppWrite
  <2>2. CASE e = Wr
    <3>1. writer[Wr] /\ wrote'[Wr] > wrote[Wr]
      BY <1>1, <1>2, <1>4, <2>2 DEF AppWrite, IInv, Types
    <3> QED
      BY <1>3, <2>1, <3>1 DEF Direction!Next, Direction!Write, Running
  <2>3. CASE e = Rd
    <3>1. wrote'[Wr] = wrote[Wr]
      BY <1>1, <1>4, <2>3 DEF AppWrite, IInv, Types
    <3> QED
      BY <1>3, <2>1, <3>1 DEF Direction!vars, Running
  <2> QED
    BY <1>1, <2>2, <2>3
<1>5. CASE AppRead(e)
  <2>1. UNCHANGED <<reader, writer, wrote>>
    BY <1>5 DEF AppRead
  <2>2. CASE e = Rd
    <3>1. inpipe[Rd] > 0 /\ inpipe'[Rd] = inpipe[Rd] - 1 /\ got'[Rd] = got[Rd] + 1
      BY <1>1, <1>5, <2>2 DEF AppRead, IInv, Types
    <3>2. got'[Rd] > got[Rd] /\ got'[Rd] <= wrote[Wr]
      BY <1>2, <3>1 DEF IInv, Accounted
    <3>3. ~Running(Rd) /\ inpipe'[Rd] = 0 /\ ~IsCut => ~writer[Wr] /\ got'[Rd] = wrote[Wr]
      BY <1>2, <3>1, CleanEnd DEF Running, CleanIsComplete, Complete
    <3>4. ~(inpipe[Rd] = 0)
      BY <1>2, <3>1
    <3> QED
      BY <1>3, <2>1, <3>2, <3>3, <3>4 DEF Direction!Next, Direction!Read, Running, IsCut
  <2>3. CASE e = Wr
    <3>1. inpipe'[Rd] = inpipe[Rd] /\ got'[Rd] = got[Rd]
      BY <1>1, <1>5, <2>3 DEF AppRead, IInv, Types
    <3> QED
      BY <1>3, <2>1, <3>1 DEF Direction!vars, Running
  <2> QED
    BY <1>1, <2>2, <2>3
<1>6. CASE AppClose(e)
  <2>1. UNCHANGED <<reader, inpipe, wrote, got>>
    BY <1>6 DEF AppClose
  <2>2. CASE e = Wr
    <3>1. writer'[Wr] = FALSE
      BY <1>1, <1>6, <2>2 DEF AppClose, Set, IInv, Types
    <3> QED
      BY <1>3, <2>1, <3>1 DEF Direction!Next, Direction!Close, Running
  <2>3. CASE e = Rd
    <3>1. writer'[Wr] = writer[Wr]
      BY <1>1, <1>6, <2>3, Zenon DEF AppClose, Set, IInv, Types
    <3> QED
      BY <1>3, <2>1, <3>1 DEF Direction!vars, Running
  <2> QED
    BY <1>1, <2>2, <2>3
<1>7. CASE AppDrop(e)
  <2>1. UNCHANGED <<wrote, got>>
    BY <1>7 DEF AppDrop
  <2>2. CASE e = Wr
    <3>1. writer'[Wr] = FALSE /\ reader'[Rd] = reader[Rd] /\ inpipe'[Rd] = inpipe[Rd]
      BY <1>1, <1>7, <2>2 DEF AppDrop, Set, IInv, Types
    <3> QED
      BY <1>3, <2>1, <3>1 DEF Direction!Next, Direction!Close, Running
  <2>3. CASE e = Rd
    <3>1. reader'[Rd] = FALSE /\ writer'[Wr] = writer[Wr] /\ inpipe'[Rd] = 0
      BY <1>1, <1>7, <2>3, Zenon DEF AppDrop, Set, IInv, Types
    <3> QED
      BY <1>3, <2>1, <3>1 DEF Direction!Next, Direction!Abort, Running
  <2> QED
    BY <1>1, <2>2, <2>3
<1> QED
  BY <1>4, <1>5, <1>6, <1>7 DEF AppStep

\* When a task ends the stream is cut, or the reader may have come to its end.
LEMMA EndSimulates ==
  ASSUME IInv, IInv', NEW e \in Ends, ended[e] = "no",
         NEW why \in {"eof", "fin", "dropped"},
         End(e, why), UNCHANGED <<inpipe, reader, writer, wrote, got>>
  PROVE  [Direction!Next]_Direction!vars
<1>1. Rd \in Ends /\ Wr \in Ends /\ Rd # Wr /\ (e = Rd \/ e = Wr)
  BY RdWr DEF IInv, Types
<1>2. ended'[e] = why /\ \A d \in Ends : d # e => ended'[d] = ended[d]
  <2>1. ended \in [Ends -> {"no", "eof", "fin", "dropped"}]
    BY DEF IInv, Types
  <2>2. ended' = [ended EXCEPT ![e] = why]
    BY DEF End, Set
  <2> QED
    BY <2>1, <2>2
<1>3. /\ UNCHANGED <<inpipe[Rd], reader[Rd], writer[Wr], wrote[Wr], got[Rd]>>
  OBVIOUS
<1>4. CASE e = Wr
  <2>1. ended'[Rd] = ended[Rd] /\ ended'[Wr] = why /\ ended[Wr] = "no"
    BY <1>1, <1>2, <1>4
  <2>2. CASE why = "eof"
    BY <1>3, <2>1, <2>2 DEF Direction!vars, Running
  <2>3. CASE why # "eof"
    BY <1>3, <2>1, <2>3 DEF Direction!Next, Direction!Abort, Running
  <2> QED
    BY <2>2, <2>3
<1>5. CASE e = Rd
  <2>1. ended'[Wr] = ended[Wr] /\ ended'[Rd] = why /\ ended[Rd] = "no"
    BY <1>1, <1>2, <1>5
  <2>2. CASE why # "fin"
    BY <1>3, <2>1, <2>2 DEF Direction!Next, Direction!Abort, Running
  <2>3. CASE why = "fin"
    <3>1. IsCut' = IsCut
      BY <1>3, <2>1, <2>3, SMTT(60) DEF IsCut
    <3>2. ~IsCut => ~writer[Wr] /\ got[Rd] + inpipe[Rd] = wrote[Wr]
      BY <1>3, <2>1, <2>3, <3>1, CleanEndNext DEF CleanIsComplete, Complete
    <3>3. got[Rd] \in Nat /\ inpipe[Rd] \in Nat /\ wrote[Wr] \in Nat
      BY Numbers, SMTT(60) DEF IInv
    <3>4. CASE inpipe[Rd] = 0
      <4>1. got[Rd] + 0 = got[Rd]
        BY <3>3
      <4>2. ~IsCut => ~writer[Wr] /\ got[Rd] = wrote[Wr]
        BY <3>2, <3>4, <4>1
      <4> QED
        BY <1>3, <2>1, <2>3, <3>1, <3>4, <4>2 DEF Direction!Next, Direction!Eof, Running, IsCut
    <3>5. CASE inpipe[Rd] # 0
      BY <1>3, <2>1, <2>3, <3>5, SMTT(60) DEF Direction!vars, Running
    <3> QED
      BY <3>4, <3>5
  <2> QED
    BY <2>2, <2>3
<1> QED
  BY <1>1, <1>4, <1>5

\* Every step of the stream is a step of the abstract one, or changes nothing there.
LEMMA Simulates == IInv /\ IInv' /\ [Next]_vars => [Direction!Next]_Direction!vars
<1> SUFFICES ASSUME IInv, IInv', [Next]_vars PROVE [Direction!Next]_Direction!vars
  OBVIOUS
<1>1. Rd \in Ends /\ Wr \in Ends /\ Rd # Wr
  BY RdWr DEF IInv, Types
<1>2. ASSUME NEW e \in Ends, AppStep(e) PROVE [Direction!Next]_Direction!vars
  BY <1>2, AppSimulates
<1>3. ASSUME NEW e \in Ends, TakeEof(e) \/ RecvFin(e) \/ WriteFails(e)
      PROVE  [Direction!Next]_Direction!vars
  <2>1. ended[e] = "no"
    BY <1>3, SMTT(60) DEF IInv, Types, Gone, TakeEof, RecvFin, WriteFails
  <2>2. UNCHANGED <<inpipe, reader, writer, wrote, got>>
    BY <1>3 DEF TakeEof, RecvFin, WriteFails, appVars
  <2>3. End(e, "eof") \/ End(e, "fin") \/ End(e, "dropped")
    BY <1>3 DEF TakeEof, RecvFin, WriteFails
  <2> QED
    BY <2>1, <2>2, <2>3, EndSimulates
<1>4. ASSUME NEW e \in Ends, TakeBody(e) \/ SendPsh(e) \/ RecvPsh(e) \/ Handle(e)
      PROVE  [Direction!Next]_Direction!vars
  <2>1. UNCHANGED <<inpipe, reader, writer, wrote, got, ended>>
    BY <1>4, Zenon DEF TakeBody, SendPsh, RecvPsh, Handle, appVars
  <2> QED
    BY <2>1 DEF Direction!vars, Running
<1>5. ASSUME NEW e \in Ends, WriteIncoming(e) PROVE [Direction!Next]_Direction!vars
  <2>1. UNCHANGED <<reader, writer, wrote, got, ended>>
    BY <1>5 DEF WriteIncoming, appVars
  <2>2. e = Rd => ended[Rd] = "no"
    BY <1>5 DEF IInv, Types, Gone, WriteIncoming
  <2>3. e # Rd => inpipe'[Rd] = inpipe[Rd]
    BY <1>1, <1>5 DEF IInv, Types, WriteIncoming
  <2> QED
    BY <2>1, <2>2, <2>3 DEF Direction!vars, Running
<1>6. CASE UNCHANGED vars
  BY <1>6 DEF vars, Direction!vars, Running
<1> QED
  BY <1>2, <1>3, <1>4, <1>5, <1>6 DEF Next, Over, Incoming, Outgoing

\* A picomux stream (create_stream and the reader loop) implements ByteStream,
\* whatever its windows, the room of its pipes and the number of bodies: nothing
\* is read that was not written, and a stream that was not cut ends, for the
\* reader, after the writer closed and after the last body.
THEOREM Refinement == TwoEnds /\ Spec => Implements
<1>1. TwoEnds /\ Init => IInv
  BY InitIInv
<1>2. IInv /\ [Next]_vars => IInv'
  BY Inductive
<1>3. TwoEnds /\ Init => Direction!Init
  <2> SUFFICES ASSUME TwoEnds, Init PROVE Direction!Init
    OBVIOUS
  <2>1. Rd \in Ends /\ Wr \in Ends
    BY RdWr
  <2> QED
    BY <2>1 DEF Init, Direction!Init, Running
<1>4. IInv /\ IInv' /\ [Next]_vars => [Direction!Next]_Direction!vars
  BY Simulates
<1> QED
  BY <1>1, <1>2, <1>3, <1>4, PTL DEF Spec, Implements, Direction!Spec
=============================================================================
