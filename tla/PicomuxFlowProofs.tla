------------------------- MODULE PicomuxFlowProofs -------------------------
(***************************************************************************)
(* Proofs about PicomuxFlow for every window size, every bound and every   *)
(* way the bandwidth estimate may move.                                    *)
(***************************************************************************)
EXTENDS PicomuxFlow, TLAPS

----------------------------------------------------------------------------
(* The operators the model is built from.                                  *)

\* min_quantum is a positive number of frames that grows with the target.
LEMMA MinQuantumType ==
  ASSUME NEW t \in Nat PROVE MinQuantum(t) \in Nat /\ MinQuantum(t) >= 1
BY DEF MinQuantum, Clamp

\* A larger target never has a smaller min_quantum.
LEMMA MinQuantumMonotone ==
  ASSUME NEW s \in Nat, NEW t \in Nat, s <= t
  PROVE  MinQuantum(s) <= MinQuantum(t)
<1>1. s \div 10 <= t \div 10
  OBVIOUS
<1>2. s \div 10 \in Nat /\ t \div 10 \in Nat
  OBVIOUS
<1> QED
  BY <1>1, <1>2 DEF MinQuantum, Clamp

\* What WindowAssumption says of the two windows alone.
LEMMA Windows ==
  /\ INIT_WINDOW \in Nat /\ MAX_WINDOW \in Nat
  /\ 3 <= INIT_WINDOW /\ INIT_WINDOW <= MAX_WINDOW /\ MAX_WINDOW < 65536
BY WindowAssumption

\* The credit on the wire is a natural number.
LEMMA InFlightType ==
  ASSUME NEW g \in Seq(Nat) PROVE InFlight(g) \in Nat
BY DEF InFlight

----------------------------------------------------------------------------
(* The inductive invariant.                                                *)

\* Running totals never decrease along the wire.
GrantsOrdered ==
  \A i, j \in 1 .. Len(grants) : i <= j => grants[i] <= grants[j]

\* Credit is never created: the sender's permits, the unconsumed frames and
\* the travelling MORE frames fit into the window of a running receiver.
CreditBounded ==
  ReceiverOpen => permits + Unconsumed + InFlight(grants) <= remote_window

\* The windows below which no MORE was worth sending bound the target, so a
\* window of one frame always triggers the next MORE.
WindowShape ==
  ReceiverOpen =>
    /\ remote_window >= 1
    /\ remote_window = 2 => target <= MinQuantum(MAX_WINDOW) + 1
    /\ remote_window = 1 => target <= MinQuantum(MinQuantum(MAX_WINDOW) + 1)

\* What the buffer of the receiver may hold.
BufferBounded ==
  /\ lost = 0
  /\ ~ReceiverOpen => buffer = 0

\* The inductive invariant.
IInv ==
  /\ TypeOK
  /\ GrantsOrdered
  /\ CreditBounded
  /\ CreditConserved
  /\ WindowShape
  /\ BufferBounded
  /\ remote_window <= MAX_WINDOW
  /\ InFlight(grants) <= MAX_WINDOW

\* A fresh stream, as create_stream makes it, satisfies the invariant.
LEMMA InitIInv == Init => IInv
<1> SUFFICES ASSUME Init PROVE IInv
  OBVIOUS
<1> USE WindowAssumption DEF Init
<1>1. TypeOK
  BY DEF TypeOK
<1>2. GrantsOrdered
  BY DEF GrantsOrdered
<1>3. CreditBounded /\ CreditConserved /\ InFlight(grants) <= MAX_WINDOW
  BY DEF CreditBounded, CreditConserved, Unconsumed, InFlight
<1>4. WindowShape /\ BufferBounded /\ remote_window <= MAX_WINDOW
  BY DEF WindowShape, BufferBounded, ReceiverOpen
<1> QED
  BY <1>1, <1>2, <1>3, <1>4 DEF IInv

\* Delivering the first MORE: the others keep their distance to it.
LEMMA DeliverMoreGrants ==
  ASSUME TypeOK, GrantsOrdered, DeliverMore
  PROVE  /\ grants' \in Seq(Nat)
         /\ GrantsOrdered'
         /\ InFlight(grants') = InFlight(grants) - grants[1]
         /\ grants[1] \in Nat
<1>1. /\ grants \in Seq(Nat) /\ grants # <<>>
      /\ Len(grants) \in Nat /\ Len(grants) >= 1
  BY DEF TypeOK, DeliverMore
<1>2. \A i \in 1 .. Len(grants) : grants[i] \in Nat /\ grants[1] <= grants[i]
  BY <1>1 DEF GrantsOrdered
<1>3. grants' = [i \in 1 .. Len(grants) - 1 |-> grants[i + 1] - grants[1]]
  BY DEF DeliverMore
<1>4. \A i \in 1 .. Len(grants) - 1 : grants[i + 1] - grants[1] \in Nat
  BY <1>1, <1>2
<1>5. grants' \in Seq(Nat) /\ Len(grants') = Len(grants) - 1
  BY <1>1, <1>3, <1>4
<1>6. GrantsOrdered'
  BY <1>1, <1>2, <1>3, <1>5 DEF GrantsOrdered
<1>7. InFlight(grants') = InFlight(grants) - grants[1]
  <2>1. CASE Len(grants) = 1
    BY <1>1, <1>2, <1>5, <2>1 DEF InFlight
  <2>2. CASE Len(grants) # 1
    <3>1. Len(grants) - 1 \in 1 .. Len(grants) - 1 /\ grants' # <<>>
      BY <1>1, <1>5, <2>2
    <3>2. grants'[Len(grants) - 1] = grants[Len(grants)] - grants[1]
      BY <1>1, <1>3, <3>1
    <3> QED
      BY <1>1, <1>5, <3>1, <3>2 DEF InFlight
  <2> QED
    BY <2>1, <2>2
<1> QED
  BY <1>1, <1>2, <1>5, <1>6, <1>7

\* Appending a MORE for q frames puts q more credit on the wire.
LEMMA AppendGrant ==
  ASSUME TypeOK, GrantsOrdered, NEW q \in Nat,
         grants' = Append(grants, InFlight(grants) + q)
  PROVE  /\ grants' \in Seq(Nat)
         /\ GrantsOrdered'
         /\ InFlight(grants') = InFlight(grants) + q
<1>1. grants \in Seq(Nat) /\ InFlight(grants) \in Nat
  BY InFlightType DEF TypeOK
<1>2. /\ grants' \in Seq(Nat) /\ Len(grants') = Len(grants) + 1
      /\ grants'[Len(grants) + 1] = InFlight(grants) + q
      /\ \A i \in 1 .. Len(grants) : grants'[i] = grants[i]
  BY <1>1
<1>3. InFlight(grants') = InFlight(grants) + q
  BY <1>1, <1>2 DEF InFlight
<1>4. \A i \in 1 .. Len(grants) : grants[i] \in Nat /\ grants[i] <= InFlight(grants)
  BY <1>1 DEF GrantsOrdered, InFlight
<1>5. GrantsOrdered'
  BY <1>1, <1>2, <1>4 DEF GrantsOrdered
<1> QED
  BY <1>2, <1>3, <1>5

----------------------------------------------------------------------------
(* Every step preserves the invariant.                                     *)

\* The heart of the no-stall argument: a receiver that consumed a frame and
\* found no MORE worth sending still has a non-empty window.
LEMMA WriteDoneShape ==
  ASSUME TypeOK, ReceiverOpen, WindowShape, remote_window <= MAX_WINDOW,
         NEW t \in INIT_WINDOW .. MAX_WINDOW,
         ~(remote_window - 1 + MinQuantum(target) <= t)
  PROVE  LET r == remote_window - 1
         IN  /\ r >= 1
             /\ r = 2 => t <= MinQuantum(MAX_WINDOW) + 1
             /\ r = 1 => t <= MinQuantum(MinQuantum(MAX_WINDOW) + 1)
<1> DEFINE M == MinQuantum(MAX_WINDOW)
           M1 == MinQuantum(M + 1)
<1>1. /\ remote_window \in Nat /\ target \in Nat /\ t \in Nat
      /\ INIT_WINDOW \in Nat /\ MAX_WINDOW \in Nat
      /\ target <= MAX_WINDOW /\ INIT_WINDOW <= t
  BY WindowAssumption DEF TypeOK
<1>2. /\ M \in Nat /\ M + 1 \in Nat /\ M1 \in Nat
      /\ MinQuantum(M1) \in Nat /\ MinQuantum(M1) <= INIT_WINDOW
      /\ MinQuantum(target) \in Nat
  BY <1>1, MinQuantumType, WindowAssumption
<1>3. remote_window = 3 => t <= M + 1
  <2>1. MinQuantum(target) <= M
    BY <1>1, MinQuantumMonotone
  <2> QED
    BY <1>1, <1>2, <2>1
<1>4. remote_window = 2 => t <= M1
  <2> SUFFICES ASSUME remote_window = 2 PROVE t <= M1
    OBVIOUS
  <2>1. target <= M + 1
    BY DEF WindowShape
  <2>2. MinQuantum(target) <= M1
    BY <1>1, <1>2, <2>1, MinQuantumMonotone
  <2> QED
    BY <1>1, <1>2, <2>2
<1>5. remote_window # 1
  <2> SUFFICES ASSUME remote_window = 1 PROVE FALSE
    OBVIOUS
  <2>1. target <= M1
    BY DEF WindowShape
  <2>2. MinQuantum(target) <= MinQuantum(M1)
    BY <1>1, <1>2, <2>1, MinQuantumMonotone
  <2> QED
    BY <1>1, <1>2, <2>2
<1>6. remote_window >= 1
  BY DEF WindowShape
<1> QED
  BY <1>1, <1>2, <1>3, <1>4, <1>5, <1>6

\* Every step of either end, of the wire or of the applications keeps the
\* invariant.
LEMMA NextIInv == IInv /\ [Next]_vars => IInv'
<1> SUFFICES ASSUME IInv, [Next]_vars PROVE IInv'
  OBVIOUS
<1>0. TypeOK /\ InFlight(grants) \in Nat /\ GrantsOrdered /\ BufferBounded
  BY InFlightType DEF IInv, TypeOK
<1>1. CASE ReadBody
  BY Windows, <1>0, <1>1 DEF ReadBody, IInv, TypeOK, GrantsOrdered, CreditBounded,
     CreditConserved, WindowShape, BufferBounded, Unconsumed, SenderOpen,
     ReceiverOpen
<1>2. CASE SendPsh
  BY Windows, <1>0, <1>2 DEF SendPsh, IInv, TypeOK, GrantsOrdered, CreditBounded,
     CreditConserved, WindowShape, BufferBounded, Unconsumed, SenderOpen,
     ReceiverOpen
<1>3. CASE SendReturns
  BY Windows, <1>0, <1>3 DEF SendReturns, IInv, TypeOK, GrantsOrdered, CreditBounded,
     CreditConserved, WindowShape, BufferBounded, Unconsumed, SenderOpen,
     ReceiverOpen
<1>4. CASE SenderStops
  BY Windows, <1>0, <1>4 DEF SenderStops, IInv, TypeOK, GrantsOrdered, CreditBounded,
     CreditConserved, WindowShape, BufferBounded, Unconsumed, SenderOpen,
     ReceiverOpen
<1>5. CASE DeliverMore
  <2>1. /\ grants' \in Seq(Nat) /\ GrantsOrdered' /\ grants[1] \in Nat
        /\ InFlight(grants') = InFlight(grants) - grants[1]
    BY Windows, <1>0, <1>5, DeliverMoreGrants
  <2>2. /\ UNCHANGED <<sender, net, fin, receiver, buffer, remote_window,
                         target, backfin, lost>>
        /\ permits' = IF SenderOpen THEN permits + grants[1] ELSE permits
    BY <1>5 DEF DeliverMore
  <2>3. /\ SenderOpen' <=> SenderOpen
        /\ ReceiverOpen' <=> ReceiverOpen
        /\ Unconsumed' = Unconsumed /\ Unconsumed \in Nat /\ permits \in Nat
        /\ WindowShape' /\ BufferBounded'
    BY Windows, <1>0, <2>2 DEF IInv, TypeOK, SenderOpen, ReceiverOpen, Unconsumed,
       WindowShape, BufferBounded
  <2>4. TypeOK'
    BY Windows, <1>0, <2>1, <2>2 DEF TypeOK
  <2>5. CreditBounded' /\ CreditConserved' /\ InFlight(grants') <= MAX_WINDOW
    <3>1. /\ remote_window \in Nat /\ remote_window' = remote_window
          /\ CreditBounded /\ CreditConserved /\ InFlight(grants) <= MAX_WINDOW
      BY <1>0, <2>2 DEF IInv, TypeOK
    <3>2. /\ InFlight(grants') = InFlight(grants) - grants[1]
          /\ grants[1] \in Nat /\ InFlight(grants) \in Nat
      BY <1>0, <2>1
    <3>3. /\ SenderOpen => permits' = permits + grants[1]
          /\ ~SenderOpen => permits' = permits
      BY <2>2
    <3>4. permits' + Unconsumed' + InFlight(grants')
            <= permits + Unconsumed + InFlight(grants)
      BY <2>3, <3>2, <3>3
    <3>5. SenderOpen => permits' + Unconsumed' + InFlight(grants')
                          = permits + Unconsumed + InFlight(grants)
      BY <2>3, <3>2, <3>3
    <3>6. CreditBounded'
      BY <2>3, <3>1, <3>2, <3>3, <3>4 DEF CreditBounded
    <3>7. CreditConserved'
      BY <2>3, <3>1, <3>5 DEF CreditConserved
    <3>8. InFlight(grants') <= MAX_WINDOW
      BY Windows, <3>1, <3>2
    <3> QED
      BY <3>6, <3>7, <3>8
  <2> QED
    BY <2>1, <2>2, <2>3, <2>4, <2>5 DEF IInv
<1>6. CASE DeliverBackFin
  BY Windows, <1>0, <1>6 DEF DeliverBackFin, IInv, TypeOK, GrantsOrdered,
     CreditBounded, CreditConserved, WindowShape, BufferBounded, Unconsumed,
     SenderOpen, ReceiverOpen
<1>7. CASE DeliverPsh
  <2>1. ReceiverOpen => ~BufferFull(buffer)
    BY Windows, <1>0 DEF IInv, TypeOK, CreditBounded, Unconsumed, BufferFull
  <2>2. /\ net > 0 /\ net' = net - 1 /\ lost' = lost
        /\ buffer' = IF ReceiverOpen THEN buffer + 1 ELSE buffer
        /\ UNCHANGED <<sender, permits, fin, receiver, remote_window, target,
                       grants, backfin>>
    BY <1>7, <2>1 DEF DeliverPsh
  <2>3. ReceiverOpen => Unconsumed' = Unconsumed
    BY <1>0, <2>2 DEF Unconsumed, TypeOK
  <2>4. CreditBounded' /\ CreditConserved'
    BY <2>2, <2>3 DEF IInv, CreditBounded, CreditConserved, SenderOpen,
       ReceiverOpen
  <2>5. TypeOK' /\ GrantsOrdered' /\ WindowShape' /\ BufferBounded'
    BY <1>0, <2>2 DEF IInv, TypeOK, GrantsOrdered, WindowShape,
       BufferBounded, ReceiverOpen
  <2> QED
    BY <2>2, <2>4, <2>5 DEF IInv
<1>8. CASE DeliverFin
  <2>1. ReceiverOpen => ~BufferFull(buffer)
    BY Windows, <1>0 DEF IInv, TypeOK, CreditBounded, Unconsumed, BufferFull
  <2> QED
    BY Windows, <1>0, <1>8, <2>1 DEF DeliverFin, IInv, TypeOK, GrantsOrdered,
       CreditBounded, CreditConserved, WindowShape, BufferBounded, Unconsumed,
       SenderOpen, ReceiverOpen
<1>9. CASE ReceivePsh
  BY Windows, <1>0, <1>9 DEF ReceivePsh, IInv, TypeOK, GrantsOrdered, CreditBounded,
     CreditConserved, WindowShape, BufferBounded, Unconsumed, SenderOpen,
     ReceiverOpen
<1>10. CASE ReceiveFin
  BY Windows, <1>0, <1>10 DEF ReceiveFin, CloseReceiver, IInv, TypeOK, GrantsOrdered,
     CreditBounded, CreditConserved, WindowShape, BufferBounded, Unconsumed,
     SenderOpen, ReceiverOpen
<1>11. CASE ReceiverStops
  BY Windows, <1>0, <1>11 DEF ReceiverStops, CloseReceiver, IInv, TypeOK,
     GrantsOrdered, CreditBounded, CreditConserved, WindowShape,
     BufferBounded, Unconsumed, SenderOpen, ReceiverOpen
<1>12. ASSUME NEW t \in TargetChoices, WriteDone(t) PROVE IInv'
  <2> DEFINE r == remote_window - 1
  <2>0. target \in Nat
    BY Windows, <1>0 DEF TypeOK
  <2>1. t \in INIT_WINDOW .. MAX_WINDOW
    BY TargetAssumption
  <2>2. /\ receiver = "writing" /\ receiver' = "recv" /\ target' = t
        /\ UNCHANGED <<sender, permits, net, fin, buffer, backfin, lost>>
    BY <1>12 DEF WriteDone, WorthMore
  <2>3. ReceiverOpen /\ ReceiverOpen' /\ r \in Nat /\ r < MAX_WINDOW
    BY Windows, <1>0, <2>2 DEF IInv, TypeOK, ReceiverOpen, WindowShape
  <2>4. Unconsumed' = Unconsumed - 1 /\ Unconsumed \in Nat /\ Unconsumed >= 1
    BY Windows, <1>0, <2>2 DEF Unconsumed, TypeOK
  <2>5. /\ permits + Unconsumed + InFlight(grants) <= remote_window
        /\ SenderOpen => remote_window = permits + Unconsumed + InFlight(grants)
    BY <2>3 DEF IInv, CreditBounded, CreditConserved
  <2>6. CASE r + MinQuantum(target) <= t
    <3> DEFINE q == t - r
    <3>1. MinQuantum(target) \in Nat /\ MinQuantum(target) >= 1
      BY <2>0, MinQuantumType
    <3>2. q \in Nat /\ q <= MAX_WINDOW /\ q % 65536 = q
      BY Windows, <2>1, <2>3, <2>6, <3>1
    <3>3. grants' = Append(grants, InFlight(grants) + q) /\ remote_window' = t
      BY <1>12, <2>1, <2>3, <2>6, <3>2 DEF WriteDone, WorthMore, Granted
    <3>4. /\ grants' \in Seq(Nat) /\ GrantsOrdered'
          /\ InFlight(grants') = InFlight(grants) + q
      BY Windows, <1>0, <3>2, <3>3, AppendGrant
    <3>5. WindowShape'
      BY Windows, <2>1, <3>3 DEF WindowShape
    <3>6. TypeOK' /\ BufferBounded'
      BY Windows, <1>0, <2>1, <2>2, <2>3, <3>3, <3>4 DEF TypeOK, BufferBounded
    <3>7. permits \in Nat /\ (SenderOpen' <=> SenderOpen)
      BY Windows, <1>0, <2>2 DEF TypeOK, SenderOpen
    <3>8. /\ InFlight(grants') = InFlight(grants) + t - remote_window + 1
          /\ InFlight(grants) \in Nat /\ remote_window \in Nat /\ t \in Nat
          /\ permits' = permits
      BY Windows, <1>0, <2>1, <2>2, <3>4 DEF TypeOK
    <3>9. /\ permits' + Unconsumed' + InFlight(grants') <= t
          /\ SenderOpen => t = permits' + Unconsumed' + InFlight(grants')
      BY <2>4, <2>5, <3>7, <3>8
    <3>10. CreditBounded' /\ CreditConserved'
      BY <3>3, <3>7, <3>9 DEF CreditBounded, CreditConserved
    <3>11. InFlight(grants') <= MAX_WINDOW
      <4>1. InFlight(grants') \in Nat
        BY <3>4, InFlightType
      <4> QED
        BY Windows, <2>1, <2>4, <3>7, <3>8, <3>9, <4>1
    <3> QED
      BY <2>1, <3>3, <3>4, <3>5, <3>6, <3>10, <3>11 DEF IInv
  <2>7. CASE ~(r + MinQuantum(target) <= t)
    <3>1. grants' = grants /\ remote_window' = r
      BY <1>12, <2>7 DEF WriteDone, WorthMore
    <3>2. WindowShape'
      BY Windows, <1>0, <2>1, <2>2, <2>3, <2>7, <3>1, WriteDoneShape
         DEF IInv, WindowShape
    <3>3. TypeOK' /\ GrantsOrdered' /\ BufferBounded'
      BY <1>0, <2>1, <2>2, <2>3, <3>1 DEF TypeOK, GrantsOrdered, BufferBounded
    <3>4. permits \in Nat /\ permits' = permits /\ (SenderOpen' <=> SenderOpen)
      BY <1>0, <2>2 DEF TypeOK, SenderOpen
    <3>5. remote_window \in Nat /\ InFlight(grants') = InFlight(grants)
      BY <1>0, <3>1 DEF TypeOK
    <3>6. /\ permits' + Unconsumed' + InFlight(grants') <= remote_window'
          /\ SenderOpen => remote_window'
                             = permits' + Unconsumed' + InFlight(grants')
      BY <1>0, <2>4, <2>5, <3>1, <3>4, <3>5
    <3>7. CreditBounded' /\ CreditConserved'
      BY <3>4, <3>6 DEF CreditBounded, CreditConserved
    <3> QED
      BY Windows, <2>3, <3>1, <3>2, <3>3, <3>5, <3>7 DEF IInv
  <2> QED
    BY <2>6, <2>7
<1>13. CASE UNCHANGED vars
  <2>1. UNCHANGED <<sender, permits, net, fin, receiver, buffer, target,
                    remote_window, grants, backfin, lost>>
    BY <1>13 DEF vars
  <2> QED
    BY <2>1 DEF IInv, TypeOK, GrantsOrdered, CreditBounded, CreditConserved,
       WindowShape, BufferBounded, Unconsumed, SenderOpen, ReceiverOpen
<1> QED
  BY <1>1, <1>2, <1>3, <1>4, <1>5, <1>6, <1>7, <1>8, <1>9, <1>10, <1>11,
     <1>12, <1>13 DEF Next, SenderNext, ReceiverNext, Finished

----------------------------------------------------------------------------
(* The theorems.                                                           *)

\* The strengthened invariant holds in every reachable state.
THEOREM Invariance == Spec => []IInv
BY InitIInv, NextIInv, PTL DEF Spec

\* Every variable keeps its type; in particular `remote_window -= 1' on a
\* usize never goes below zero.
THEOREM TypeCorrect == Spec => []TypeOK
<1>1. IInv => TypeOK
  BY DEF IInv
<1> QED
  BY <1>1, Invariance, PTL

\* The window a receiver keeps for its peer is exactly the credit the peer
\* holds, has spent on unconsumed frames or is about to get.
THEOREM CreditConservation == Spec => []CreditConserved
<1>1. IInv => CreditConserved
  BY DEF IInv
<1> QED
  BY <1>1, Invariance, PTL

\* The hysteresis of min_quantum never leaves a receiver with an empty
\* window, so a stream never runs out of credit on both ends.
THEOREM NoStall == Spec => []WindowNeverEmpty
<1>1. IInv => WindowNeverEmpty
  BY DEF IInv, WindowShape, WindowNeverEmpty
<1> QED
  BY <1>1, Invariance, PTL

\* A stream buffer never refuses a PSH or a FIN of a peer that keeps to its
\* window.
THEOREM NoDrop == Spec => []NothingDropped
<1>1. IInv => NothingDropped
  BY DEF IInv, BufferBounded, NothingDropped
<1> QED
  BY <1>1, Invariance, PTL

\* No window arithmetic leaves its range, neither the usize subtraction nor
\* the cast of the quantum to u16.
THEOREM Bounds == Spec => []WindowBounded
<1>1. IInv => WindowBounded
  BY DEF IInv, WindowShape, ReceiverOpen, WindowBounded
<1> QED
  BY <1>1, Invariance, PTL
=============================================================================
