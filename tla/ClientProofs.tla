---------------------------- MODULE ClientProofs ----------------------------
(***************************************************************************)
(* Proofs about ClientFront and ConnToken, for every set of connections,   *)
(* names, fake addresses and instances and any number of epochs.           *)
(***************************************************************************)
EXTENDS MCClient, TLAPS

----------------------------------------------------------------------------
(* ClientFront.                                                            *)

Packets == [of : Conns, kind : {"dns", "tcp", "udp"}]
Answers == [of : Conns, addr : FakeAddrs]
Items(q) == {q[i] : i \in 1 .. Len(q)}

FrontTypes ==
  /\ conn \in [Conns -> Running \cup {"new", "asking", "told", "connecting", "done", "cancelled"}]
  /\ name \in [Conns -> Names \cup {None}]
  /\ addr \in [Conns -> FakeAddrs \cup {None}]
  /\ asked \in [Conns -> Names \cup FakeAddrs \cup {None}]
  /\ capture \in Seq(Packets)
  /\ captured \in Seq(Packets)
  /\ inject \in Seq(Answers)
  /\ forward \in [Names -> FakeAddrs \cup {None}]
  /\ backward \in [FakeAddrs -> Names \cup {None}]
  /\ collided \subseteq FakeAddrs

\* The name of a connection is fixed by its first step, and until then it has
\* neither an address, nor a packet anywhere; what was asked for is final.
Begun ==
  /\ \A c \in Conns :
       /\ conn[c] = "new" => addr[c] = None
       /\ conn[c] # "new" => name[c] \in Names
       /\ asked[c] # None => conn[c] \in {"tunnel", "direct", "done", "cancelled"}
  /\ \A q \in {capture, captured, inject} : \A p \in Items(q) : conn[p.of] # "new"

\* The way back from an address leads to the name it was given for: from the
\* table, in an answer on its way, and at the application.
Back(back, coll, a, n) == a \notin coll => back[a] = n
WayBack ==
  /\ \A n \in Names : forward[n] # None => Back(backward, collided, forward[n], n)
  /\ \A p \in Items(inject) : Back(backward, collided, p.addr, name[p.of])
  /\ \A c \in Conns : addr[c] # None => Back(backward, collided, addr[c], name[c])

\* What was asked for is the name, and what goes to the network is local.
AskedRight ==
  \A c \in Conns : /\ asked[c] # None /\ addr[c] \notin collided => asked[c] = name[c]
                   /\ conn[c] = "direct" => asked[c] \in Local

FrontInv == FrontTypes /\ Begun /\ WayBack /\ AskedRight

\* The invariant of fake DNS holds in the initial states.
LEMMA FrontInit == Init => FrontInv
BY FrontAssumption
   DEF Init, FrontInv, FrontTypes, Begun, WayBack, AskedRight, Back, Items

\* What the operations on a queue leave in it.
LEMMA AppendItems ==
  ASSUME NEW S, NEW q \in Seq(S), NEW p \in S
  PROVE  Append(q, p) \in Seq(S) /\ Items(Append(q, p)) = Items(q) \cup {p}
BY DEF Items

\* What is in a queue after a push,
LEMMA PushItems ==
  ASSUME NEW S, NEW q \in Seq(S), NEW p \in S
  PROVE  Push(q, p) \in Seq(S) /\ Items(Push(q, p)) \subseteq Items(q) \cup {p}
BY AppendItems DEF Push

\* and after a pop.
LEMMA TailItems ==
  ASSUME NEW S, NEW q \in Seq(S), q # <<>>
  PROVE  /\ Tail(q) \in Seq(S) /\ Items(Tail(q)) \subseteq Items(q)
         /\ Head(q) \in Items(q) /\ Head(q) \in S
BY DEF Items

\* Packets and answers belong to connections.
LEMMA ItemOf ==
  /\ \A q \in Seq(Packets) : \A p \in Items(q) : p.of \in Conns
  /\ \A q \in Seq(Answers) : \A p \in Items(q) : p.of \in Conns /\ p.addr \in FakeAddrs
<1>1. ASSUME NEW S, NEW q \in Seq(S), NEW p \in Items(q) PROVE p \in S
  BY DEF Items
<1>2. \A p \in Packets : p.of \in Conns
  BY Zenon DEF Packets
<1>3. \A p \in Answers : p.of \in Conns /\ p.addr \in FakeAddrs
  BY Zenon DEF Answers
<1> QED
  BY Zenon, <1>1, <1>2, <1>3

\* An application asks, or connects.
LEMMA SendPacketKeeps == ASSUME NEW c \in Conns PROVE FrontInv /\ SendPacket(c) => FrontInv'
<1> SUFFICES ASSUME FrontInv, SendPacket(c) PROVE FrontInv'
  BY Zenon
<1> USE DEF FrontInv
<1>1. PICK kind \in {"dns", "tcp", "udp"} : capture' = Push(capture, [of |-> c, kind |-> kind])
  BY Zenon DEF SendPacket, SendVpnPacket
<1>2. /\ capture' \in Seq(Packets)
      /\ \A p \in Items(capture') : p \in Items(capture) \/ p.of = c
  <2> DEFINE new == [of |-> c, kind |-> kind]
  <2>1. new \in Packets /\ new.of = c
    BY Zenon DEF Packets
  <2>2. capture \in Seq(Packets) /\ capture' = Push(capture, new)
    BY Zenon, <1>1 DEF FrontTypes
  <2> HIDE DEF new
  <2> QED
    BY Zenon, <2>1, <2>2, PushItems
<1>3. /\ UNCHANGED <<addr, asked, inject, captured, forward, backward, collided>>
      /\ conn[c] \in {"new", "asking", "told", "connecting"}
      /\ \E s \in {"asking", "connecting"} : conn' = [conn EXCEPT ![c] = s]
  BY Zenon DEF SendPacket, fake, Set
<1>4. \/ name' = name /\ conn[c] # "new"
      \/ conn[c] = "new" /\ \E n \in Names : name' = [name EXCEPT ![c] = n]
  BY Zenon DEF SendPacket, Set
<1>5. FrontTypes'
  BY <1>2, <1>3, <1>4 DEF FrontTypes
<1>6. /\ \A d \in Conns : d # c => name'[d] = name[d] /\ conn'[d] = conn[d]
      /\ conn[c] # "new" => name'[c] = name[c]
      /\ conn'[c] \in {"asking", "connecting"} /\ name'[c] \in Names
      /\ asked[c] = None
  BY Zenon, <1>3, <1>4 DEF FrontTypes, Begun
<1>7. Begun'
  <2>1. \A p \in Items(capture') : conn'[p.of] # "new"
    BY <1>2, <1>3, <1>6, ItemOf DEF FrontTypes, Begun
  <2>2. ASSUME NEW q \in {captured, inject}, NEW p \in Items(q) PROVE conn'[p.of] # "new"
    BY <1>3, <1>6, ItemOf DEF FrontTypes, Begun
  <2> QED
    BY <1>3, <1>6, <2>1, <2>2 DEF FrontTypes, Begun, Items
<1>8. WayBack'
  <2>1. ASSUME NEW p \in Items(inject) PROVE name'[p.of] = name[p.of]
    BY <1>6, ItemOf DEF FrontTypes, Begun
  <2>2. ASSUME NEW d \in Conns, addr[d] # None PROVE name'[d] = name[d]
    BY Zenon, <2>2, <1>6 DEF FrontTypes, Begun
  <2> QED
    BY <1>3, <2>1, <2>2 DEF WayBack, Back, Items
<1>9. AskedRight'
  BY Zenon, <1>3, <1>6 DEF AskedRight
<1> QED
  BY Zenon, <1>5, <1>7, <1>8, <1>9

\* A step that leaves these variables alone keeps the invariant.
LEMMA FrontStutter ==
  FrontInv /\ UNCHANGED <<conn, name, addr, asked, capture, captured, inject, forward, backward, collided>>
    => FrontInv'
<1> SUFFICES ASSUME FrontInv,
                    UNCHANGED <<conn, name, addr, asked, capture, captured, inject, forward, backward, collided>>
             PROVE  FrontInv'
  BY Zenon
<1>1. FrontTypes'
  BY Zenon DEF FrontInv, FrontTypes
<1>2. Begun'
  BY Zenon DEF FrontInv, Begun, Items
<1>3. WayBack' /\ AskedRight'
  BY Zenon DEF FrontInv, WayBack, AskedRight, Items
<1> QED
  BY Zenon, <1>1, <1>2, <1>3 DEF FrontInv

\* Packets move between the queues.
LEMMA UpPopKeeps == FrontInv /\ UpPop => FrontInv'
<1> SUFFICES ASSUME FrontInv, UpPop, capture # <<>> PROVE FrontInv'
  BY Zenon, FrontStutter DEF UpPop, app, fake
<1> USE DEF FrontInv
<1>1. /\ capture' = Tail(capture) /\ captured' = Append(captured, Head(capture))
      /\ UNCHANGED <<conn, name, addr, asked, inject, forward, backward, collided>>
  BY Zenon DEF UpPop, app, fake
<1>2. /\ capture' \in Seq(Packets)
      /\ Items(capture') \subseteq Items(capture) /\ Head(capture) \in Items(capture)
      /\ captured' \in Seq(Packets)
      /\ Items(captured') = Items(captured) \cup {Head(capture)}
  <2>1. capture \in Seq(Packets) /\ captured \in Seq(Packets)
    BY Zenon DEF FrontTypes
  <2>2. /\ capture' \in Seq(Packets) /\ Items(capture') \subseteq Items(capture)
        /\ Head(capture) \in Items(capture) /\ Head(capture) \in Packets
    BY Zenon, <1>1, <2>1, TailItems
  <2> QED
    BY <1>1, <2>1, <2>2, AppendItems
<1>3. FrontTypes'
  BY Zenon, <1>1, <1>2 DEF FrontTypes
<1>4. Begun'
  <2>1. \A p \in Items(capture') : conn[p.of] # "new"
    BY Zenon, <1>2 DEF Begun
  <2>2. \A p \in Items(captured') : conn[p.of] # "new"
    BY Zenon, <1>2 DEF Begun
  <2> QED
    BY Zenon, <1>1, <2>1, <2>2 DEF Begun
<1>5. WayBack' /\ AskedRight'
  BY <1>1 DEF WayBack, AskedRight, Back, Items
<1> QED
  BY Zenon, <1>3, <1>4, <1>5

\* An answer reaches the application.
LEMMA ReadPacketKeeps == FrontInv /\ ReadPacket => FrontInv'
<1> SUFFICES ASSUME FrontInv, ReadPacket, inject # <<>> PROVE FrontInv'
  BY Zenon, FrontStutter DEF ReadPacket, RecvVpnPacket, fake
<1> USE DEF FrontInv
<1> DEFINE h == Head(inject)
<1>1. /\ inject' = Tail(inject)
      /\ UNCHANGED <<name, asked, capture, captured, forward, backward, collided>>
  BY Zenon DEF ReadPacket, RecvVpnPacket, fake
<1>2. /\ inject' \in Seq(Answers) /\ Items(inject') \subseteq Items(inject)
      /\ h \in Items(inject) /\ h.of \in Conns /\ h.addr \in FakeAddrs
  BY Zenon, <1>1, TailItems, ItemOf DEF FrontTypes
<1>3. \/ conn' = conn /\ addr' = addr
      \/ /\ conn[h.of] = "asking" /\ conn' = [conn EXCEPT ![h.of] = "told"]
         /\ addr' = [addr EXCEPT ![h.of] = h.addr]
  BY Zenon DEF ReadPacket, Set
<1> HIDE DEF h
<1>4. FrontTypes'
  BY Zenon, <1>1, <1>2, <1>3 DEF FrontTypes
<1>5. \A c \in Conns : \/ conn'[c] = conn[c] /\ addr'[c] = addr[c]
                       \/ /\ conn[c] = "asking" /\ conn'[c] = "told" /\ asked[c] = None
                          /\ addr'[c] = h.addr /\ c = h.of
  BY Zenon, <1>2, <1>3 DEF FrontTypes, Begun
<1>6. Begun'
  <2>1. ASSUME NEW q \in {capture, captured, inject}, NEW p \in Items(q) PROVE conn'[p.of] # "new"
    BY <1>5, ItemOf DEF FrontTypes, Begun
  <2> QED
    BY <1>1, <1>2, <1>5, <2>1 DEF Begun, Items
<1>7. WayBack'
  BY <1>1, <1>2, <1>5 DEF WayBack, Back
<1>8. AskedRight'
  BY Zenon, <1>1, <1>5 DEF AskedRight
<1> QED
  BY Zenon, <1>4, <1>6, <1>7, <1>8

\* A task is added to the pool, and the oldest may be dropped for it: no
\* connection becomes new, and only the task's own changes what it asks for.
LEMMA AddTaskConn ==
  ASSUME FrontTypes, NEW t, AddTask(t)
  PROVE  /\ conn' \in [Conns -> Running \cup {"new", "asking", "told", "connecting", "done", "cancelled"}]
         /\ \A c \in Conns : \/ conn'[c] = conn[c]
                             \/ c = t /\ conn'[c] = "opening"
                             \/ conn[c] \in Running /\ conn'[c] = "cancelled"
BY Zenon DEF AddTask, FrontTypes, Running

\* A question is answered: the address given leads back to the name unless it
\* was drawn before, and what led back still does.
LEMMA AllocateBack ==
  ASSUME FrontTypes, WayBack, NEW n \in Names, NEW a \in FakeAddrs, Allocate(n, a)
  PROVE  /\ forward' \in [Names -> FakeAddrs \cup {None}]
         /\ backward' \in [FakeAddrs -> Names \cup {None}]
         /\ collided' \subseteq FakeAddrs /\ collided \subseteq collided'
         /\ forward' = [forward EXCEPT ![n] = a]
         /\ Back(backward', collided', a, n)
         /\ \A b \in FakeAddrs, m \in Names : Back(backward, collided, b, m) => Back(backward', collided', b, m)
<1>1. CASE forward[n] # None
  BY Zenon, <1>1 DEF Allocate, fake, FrontTypes, WayBack, Back
<1>2. CASE forward[n] = None
  <2>1. /\ forward' = [forward EXCEPT ![n] = a] /\ backward' = [backward EXCEPT ![a] = n]
        /\ collided' = IF backward[a] = None THEN collided ELSE collided \cup {a}
    BY Zenon, <1>2 DEF Allocate, Set
  <2>2. /\ forward' \in [Names -> FakeAddrs \cup {None}]
        /\ backward' \in [FakeAddrs -> Names \cup {None}]
        /\ collided' \subseteq FakeAddrs /\ collided \subseteq collided'
    BY Zenon, <2>1 DEF FrontTypes
  <2>3. Back(backward', collided', a, n)
    BY Zenon, <2>1 DEF Back, FrontTypes
  <2>4. \A b \in FakeAddrs, m \in Names :
          Back(backward, collided, b, m) => Back(backward', collided', b, m)
    BY Zenon, <2>1, FrontAssumption DEF Back, FrontTypes
  <2> QED
    BY Zenon, <2>1, <2>2, <2>3, <2>4
<1> QED
  BY Zenon, <1>1, <1>2

\* An answer of fake DNS keeps the invariant: an address that is drawn again is
\* one that collided.
LEMMA AnswerDnsKeeps == FrontInv /\ AnswerDns => FrontInv'
<1> SUFFICES ASSUME FrontInv, AnswerDns PROVE FrontInv'
  BY Zenon
<1> USE DEF FrontInv
<1> DEFINE c == Head(captured).of
<1>1. /\ captured' = Tail(captured) /\ AddTask("dns") /\ captured # <<>>
      /\ UNCHANGED <<name, addr, asked, capture>>
  BY Zenon DEF AnswerDns
<1>2. /\ captured' \in Seq(Packets) /\ Items(captured') \subseteq Items(captured)
      /\ c \in Conns /\ conn[c] # "new" /\ name[c] \in Names
  <2>1. /\ captured' \in Seq(Packets) /\ Items(captured') \subseteq Items(captured)
        /\ Head(captured) \in Items(captured)
    BY Zenon, <1>1, TailItems DEF FrontTypes
  <2> QED
    BY Zenon, <2>1, ItemOf DEF FrontTypes, Begun
<1> HIDE DEF c
<1>3. PICK a \in FakeAddrs : Allocate(name[c], a) /\ inject' = Push(inject, [of |-> c, addr |-> a])
  BY Zenon DEF AnswerDns, DnLoop, c
<1>4. /\ inject' \in Seq(Answers)
      /\ \A p \in Items(inject') : p \in Items(inject) \/ (p.of = c /\ p.addr = a)
  <2> DEFINE new == [of |-> c, addr |-> a]
  <2>1. new \in Answers /\ new.of = c /\ new.addr = a
    BY Zenon, <1>2 DEF Answers
  <2>2. inject \in Seq(Answers) /\ inject' = Push(inject, new)
    BY Zenon, <1>3 DEF FrontTypes
  <2> HIDE DEF new
  <2> QED
    BY Zenon, <2>1, <2>2, PushItems
<1>5. /\ forward' \in [Names -> FakeAddrs \cup {None}]
      /\ backward' \in [FakeAddrs -> Names \cup {None}]
      /\ collided' \subseteq FakeAddrs /\ collided \subseteq collided'
      /\ forward' = [forward EXCEPT ![name[c]] = a]
      /\ Back(backward', collided', a, name[c])
      /\ \A b \in FakeAddrs, m \in Names : Back(backward, collided, b, m) => Back(backward', collided', b, m)
  BY Zenon, <1>2, <1>3, AllocateBack
<1>6. /\ conn' \in [Conns -> Running \cup {"new", "asking", "told", "connecting", "done", "cancelled"}]
      /\ \A d \in Conns : conn'[d] = conn[d] \/ (conn[d] \in Running /\ conn'[d] = "cancelled")
  BY Zenon, <1>1, AddTaskConn, FrontAssumption DEF FrontInv
<1>7. FrontTypes'
  BY Zenon, <1>1, <1>2, <1>4, <1>5, <1>6 DEF FrontTypes
<1>8. Begun'
  <2>1. ASSUME NEW d \in Conns, conn[d] # "new" PROVE conn'[d] # "new"
    BY Zenon, <2>1, <1>6
  <2>2. \A q \in {capture', captured', inject'} : \A p \in Items(q) : conn'[p.of] # "new"
    BY Zenon, <1>1, <1>2, <1>4, <2>1, ItemOf DEF FrontTypes, Begun
  <2> QED
    BY Zenon, <1>1, <1>6, <2>2 DEF Begun, Running
<1>9. WayBack'
  <2>1. ASSUME NEW n \in Names, forward'[n] # None PROVE Back(backward', collided', forward'[n], n)
    BY Zenon, <2>1, <1>2, <1>5 DEF FrontTypes, WayBack
  <2>2. ASSUME NEW p \in Items(inject') PROVE Back(backward', collided', p.addr, name[p.of])
    BY Zenon, <1>1, <1>4, <1>5, ItemOf DEF FrontTypes, WayBack, Begun
  <2>3. ASSUME NEW d \in Conns, addr[d] # None PROVE Back(backward', collided', addr[d], name[d])
    BY Zenon, <2>3, <1>1, <1>5 DEF FrontTypes, WayBack, Begun
  <2> QED
    BY Zenon, <1>1, <2>1, <2>2, <2>3 DEF WayBack
<1>10. AskedRight'
  BY Zenon, <1>1, <1>5, <1>6 DEF AskedRight
<1> QED
  BY Zenon, <1>7, <1>8, <1>9, <1>10

\* The IP stack accepts a connection, or SOCKS5 does.
LEMMA CapturedKeeps == ASSUME NEW kind PROVE FrontInv /\ Captured(kind) => FrontInv'
<1> SUFFICES ASSUME FrontInv, Captured(kind) PROVE FrontInv'
  BY Zenon
<1> USE DEF FrontInv
<1>1. /\ captured' = Tail(captured) /\ captured # <<>>
      /\ UNCHANGED <<name, addr, asked, capture, inject, forward, backward, collided>>
  BY Zenon DEF Captured, fake
<1>2. captured' \in Seq(Packets) /\ Items(captured') \subseteq Items(captured)
  BY Zenon, <1>1, TailItems DEF FrontTypes
<1>3. /\ conn' \in [Conns -> Running \cup {"new", "asking", "told", "connecting", "done", "cancelled"}]
      /\ \A d \in Conns : \/ conn'[d] = conn[d]
                          \/ conn[d] = "connecting" /\ conn'[d] = "opening"
                          \/ conn[d] \in Running /\ conn'[d] = "cancelled"
  <2>1. CASE AddTask(Head(captured).of) /\ conn[Head(captured).of] = "connecting"
    BY Zenon, <2>1, AddTaskConn
  <2>2. CASE UNCHANGED conn
    BY Zenon, <2>2 DEF FrontTypes
  <2> QED
    BY Zenon, <2>1, <2>2 DEF Captured
<1>4. FrontTypes'
  BY Zenon, <1>1, <1>2, <1>3 DEF FrontTypes
<1>5. Begun'
  <2>1. ASSUME NEW d \in Conns, conn[d] # "new" PROVE conn'[d] # "new"
    BY Zenon, <2>1, <1>3
  <2>2. \A q \in {capture', captured', inject'} : \A p \in Items(q) : conn'[p.of] # "new"
    BY <1>1, <1>2, <2>1, ItemOf DEF FrontTypes, Begun
  <2> QED
    BY Zenon, <1>1, <1>3, <2>2 DEF Begun, Running
<1>6. WayBack'
  BY Zenon, <1>1 DEF WayBack, Items
<1>7. AskedRight'
  BY Zenon, <1>1, <1>3 DEF AskedRight
<1> QED
  BY Zenon, <1>4, <1>5, <1>6, <1>7

\* So does a SOCKS5 request, which comes with a name and no address.
LEMMA AcceptSocksKeeps == ASSUME NEW c \in Conns PROVE FrontInv /\ AcceptSocks(c) => FrontInv'
<1> SUFFICES ASSUME FrontInv, AcceptSocks(c) PROVE FrontInv'
  BY Zenon
<1> USE DEF FrontInv
<1>1. PICK n \in Names : name' = [name EXCEPT ![c] = n]
  BY Zenon DEF AcceptSocks, Set
<1>2. /\ UNCHANGED <<addr, asked, capture, captured, inject, forward, backward, collided>>
      /\ conn[c] = "new" /\ AddTask(c)
  BY Zenon DEF AcceptSocks, vpn, fake
<1>3. /\ conn' \in [Conns -> Running \cup {"new", "asking", "told", "connecting", "done", "cancelled"}]
      /\ conn'[c] = "opening"
      /\ \A d \in Conns \ {c} : \/ conn'[d] = conn[d]
                                \/ conn[d] \in Running /\ conn'[d] = "cancelled"
  BY Zenon, <1>2, AddTaskConn DEF AddTask
<1>4. /\ \A d \in Conns \ {c} : name'[d] = name[d]
      /\ name'[c] = n /\ addr[c] = None /\ asked[c] = None
  BY Zenon, <1>1, <1>2 DEF FrontTypes, Begun
<1>5. FrontTypes'
  BY Zenon, <1>1, <1>2, <1>3 DEF FrontTypes
<1>6. \A q \in {capture, captured, inject} : \A p \in Items(q) : p.of \in Conns \ {c}
  BY Zenon, <1>2, ItemOf DEF FrontTypes, Begun
<1>7. Begun'
  <2>1. ASSUME NEW q \in {capture, captured, inject}, NEW p \in Items(q) PROVE conn'[p.of] # "new"
    <3>1. conn[p.of] # "new" /\ p.of \in Conns \ {c}
      BY Zenon, <1>6 DEF Begun
    <3> QED
      BY Zenon, <1>3, <3>1
  <2> QED
    BY Zenon, <1>2, <1>3, <1>4, <2>1 DEF Begun, Running
<1>8. WayBack'
  <2>1. \A p \in Items(inject) : Back(backward, collided, p.addr, name'[p.of])
    BY Zenon, <1>4, <1>6 DEF WayBack
  <2>2. \A d \in Conns : addr[d] # None => Back(backward, collided, addr[d], name'[d])
    BY Zenon, <1>4 DEF WayBack
  <2> QED
    BY Zenon, <1>2, <2>1, <2>2 DEF WayBack, Items
<1>9. AskedRight'
  BY Zenon, <1>2, <1>3, <1>4 DEF AskedRight
<1> QED
  BY Zenon, <1>5, <1>7, <1>8, <1>9

\* open_conn translates the address back, which it can unless it collided.
LEMMA OpenConnKeeps == ASSUME NEW c \in Conns PROVE FrontInv /\ OpenConn(c) => FrontInv'
<1> SUFFICES ASSUME FrontInv, OpenConn(c) PROVE FrontInv'
  BY Zenon
<1> USE DEF FrontInv
<1>1. /\ UNCHANGED <<name, addr, capture, captured, inject, forward, backward, collided>>
      /\ conn[c] = "opening"
      /\ asked' = [asked EXCEPT ![c] = Dest(c)]
      /\ conn' = [conn EXCEPT ![c] = IF Dest(c) \in Local THEN "direct" ELSE "tunnel"]
  BY Zenon DEF OpenConn, WhitelistHost, Set, vpn, fake
<1>2. /\ Dest(c) \in Names \cup FakeAddrs
      /\ addr[c] \notin collided => Dest(c) = name[c]
  <2>1. name[c] \in Names
    BY Zenon, <1>1 DEF Begun
  <2>2. CASE addr[c] = None
    BY Zenon, <2>1, <2>2 DEF Dest
  <2>3. CASE addr[c] # None
    <3>1. addr[c] \in FakeAddrs /\ (addr[c] \notin collided => backward[addr[c]] = name[c])
      BY Zenon, <2>3 DEF FrontTypes, WayBack, Back
    <3>2. backward[addr[c]] \in Names \cup {None}
      BY Zenon, <3>1 DEF FrontTypes
    <3> QED
      BY Zenon, <2>1, <2>3, <3>1, <3>2, FrontAssumption DEF Dest
  <2> QED
    BY Zenon, <2>2, <2>3
<1>3. FrontTypes'
  BY Zenon, <1>1, <1>2 DEF FrontTypes, Running
<1>4. \A d \in Conns : d # c => conn'[d] = conn[d] /\ asked'[d] = asked[d]
  BY Zenon, <1>1 DEF FrontTypes
<1>5. conn'[c] \in {"direct", "tunnel"} /\ asked'[c] = Dest(c) /\ (conn'[c] = "direct" => Dest(c) \in Local)
  BY Zenon, <1>1 DEF FrontTypes
<1>6. Begun'
  <2>1. \A q \in {capture', captured', inject'} : \A p \in Items(q) : conn'[p.of] # "new"
    BY <1>1, <1>4, <1>5, ItemOf DEF FrontTypes, Begun
  <2> QED
    BY <1>1, <1>4, <1>5, <2>1 DEF Begun
<1>7. WayBack'
  BY Zenon, <1>1 DEF WayBack, Items
<1>8. AskedRight'
  BY Zenon, <1>1, <1>2, <1>4, <1>5 DEF AskedRight
<1> QED
  BY Zenon, <1>3, <1>6, <1>7, <1>8

\* So does the end of a connection.
LEMMA FinishKeeps == ASSUME NEW c \in Conns PROVE FrontInv /\ Finish(c) => FrontInv'
<1> SUFFICES ASSUME FrontInv, Finish(c) PROVE FrontInv'
  BY Zenon
<1> USE DEF FrontInv
<1>1. /\ UNCHANGED <<name, addr, asked, capture, captured, inject, forward, backward, collided>>
      /\ conn[c] \in {"tunnel", "direct"} /\ conn' = [conn EXCEPT ![c] = "done"]
  BY Zenon DEF Finish, Set, vpn, fake
<1>2. FrontTypes'
  BY Zenon, <1>1 DEF FrontTypes
<1>3. \A d \in Conns : conn'[d] = IF d = c THEN "done" ELSE conn[d]
  BY Zenon, <1>1 DEF FrontTypes
<1>4. Begun'
  <2>1. \A q \in {capture', captured', inject'} : \A p \in Items(q) : conn'[p.of] # "new"
    BY <1>1, <1>3, ItemOf DEF FrontTypes, Begun
  <2> QED
    <3>1. ASSUME NEW d \in Conns
          PROVE  /\ conn'[d] = "new" => conn[d] = "new"
                 /\ conn'[d] # "new" => conn[d] # "new"
                 /\ conn[d] \in {"tunnel", "direct", "done", "cancelled"} =>
                      conn'[d] \in {"tunnel", "direct", "done", "cancelled"}
      BY <1>1, <1>3
    <3> QED
      BY Zenon, <1>1, <2>1, <3>1 DEF Begun
<1>5. WayBack'
  BY Zenon, <1>1 DEF WayBack, Items
<1>6. AskedRight'
  <2>1. ASSUME NEW d \in Conns, conn'[d] = "direct" PROVE conn[d] = "direct"
    BY Zenon, <2>1, <1>3
  <2> QED
    BY Zenon, <1>1, <2>1 DEF AskedRight
<1> QED
  BY Zenon, <1>2, <1>4, <1>5, <1>6

\* Every step keeps the invariant.
LEMMA FrontStep == FrontInv /\ [Next]_vars => FrontInv'
<1> SUFFICES ASSUME FrontInv, [Next]_vars PROVE FrontInv'
  BY Zenon
<1>1. CASE UpSent \/ FdFails \/ UNCHANGED vars
  BY Zenon, <1>1, FrontStutter DEF UpSent, FdFails, vars, app, vpn, fake
<1>2. CASE Stack
  BY Zenon, <1>2, AnswerDnsKeeps, CapturedKeeps DEF Stack, AcceptTcp, AcceptUdp
<1> QED
  BY Zenon, <1>1, <1>2, UpPopKeeps, ReadPacketKeeps, SendPacketKeeps, AcceptSocksKeeps, OpenConnKeeps, FinishKeeps
     DEF Next

\* A connection made to an address that fake DNS gave is asked for by the name
\* the application meant, unless the address was drawn for two names, and goes
\* straight to the network only if that name may: for any queues, any order
\* of packets, and tasks dropped anywhere (fake_dns_allocate, open_conn).
THEOREM FakeNamesKept == Spec => []NameKept
<1>1. FrontInv => NameKept
  BY Zenon DEF FrontInv, AskedRight, NameKept
<1> QED
  BY FrontInit, FrontStep, <1>1, PTL DEF Spec

----------------------------------------------------------------------------
(* ConnToken.                                                              *)

TokenTypes ==
  /\ epoch \in Nat \ {0} /\ lastPlus \in Nat /\ ep \in Nat /\ cur \in Nat
  /\ db \in [Token!Epochs -> {"Free", "Plus", "none"}] /\ level \in {"Free", "Plus"}

\* The history keeps up with what the broker sees, and the refresh does not
\* run ahead of time.
InTime ==
  /\ lastPlus <= epoch /\ (seen # 0 => lastPlus = epoch)
  /\ ep <= epoch /\ cur <= ep + 1

\* What is signed and not written yet is as good as what is written.
SignedInTime == refresh = "signed" /\ level = "Plus" => lastPlus + 1 >= cur

TokenInv == TokenTypes /\ InTime /\ SignedInTime /\ PlusOutlivesByOne

\* The invariant of the tokens holds in the initial states.
LEMMA TokenInit == Token!Init => TokenInv
<1> SUFFICES ASSUME Token!Init PROVE TokenInv
  BY Zenon
<1>1. TokenTypes
  BY TokenAssumption DEF Token!Init, TokenTypes, Token!Levels
<1>2. InTime /\ SignedInTime
  BY DEF Token!Init, InTime, SignedInTime
<1>3. ASSUME NEW e \in Token!Epochs, db[e] = "Plus" PROVE lastPlus + 1 >= e
  <2>1. e \in Nat /\ ~(e > 2)
    BY <1>3, TokenAssumption DEF Token!Init, Token!Epochs, Token!EpochAssumption
  <2>2. CASE e = 2
    BY <1>3, <2>2 DEF Token!Init
  <2>3. CASE e <= 1
    BY <2>1, <2>3, <1>1 DEF TokenTypes
  <2> QED
    BY <2>1, <2>2, <2>3
<1> QED
  BY Zenon, <1>1, <1>2, <1>3 DEF TokenInv, PlusOutlivesByOne, Token!PlusOutlivesByOne

\* An epoch that was near enough stays so as the history grows.
LEMMA StillEnough ==
  ASSUME NEW m \in Nat, NEW n \in Nat, NEW e \in Nat, m <= n, m + 1 >= e PROVE n + 1 >= e
OBVIOUS

\* Steps of the world: the history does not shrink.
LEMMA WorldKeeps == TokenInv /\ (Token!NewEpoch \/ Token!Reload) => TokenInv'
<1> SUFFICES ASSUME TokenInv, Token!NewEpoch \/ Token!Reload PROVE TokenInv'
  BY Zenon
<1> USE DEF TokenInv
<1>1. /\ UNCHANGED <<db, refresh, ep, cur, level>>
      /\ epoch' \in Nat \ {0} /\ lastPlus' \in Nat
      /\ epoch <= epoch' /\ lastPlus <= lastPlus' /\ lastPlus' <= epoch'
      /\ seen' # 0 => lastPlus' = epoch'
  BY DEF Token!NewEpoch, Token!Reload, Token!locals, TokenTypes, InTime
<1>2. epoch \in Nat /\ lastPlus \in Nat /\ ep \in Nat /\ cur \in Nat
  BY Zenon DEF TokenTypes
<1>3. TokenTypes'
  BY Zenon, <1>1 DEF TokenTypes
<1>4. InTime'
  BY <1>1, <1>2 DEF InTime
<1>5. ASSUME NEW e \in Nat, lastPlus + 1 >= e PROVE lastPlus' + 1 >= e
  <2>1. lastPlus \in Nat /\ lastPlus' \in Nat /\ lastPlus <= lastPlus'
    BY Zenon, <1>1, <1>2
  <2> QED
    BY Zenon, <1>5, <2>1, StillEnough
<1>6. SignedInTime'
  BY Zenon, <1>1, <1>2, <1>5 DEF SignedInTime
<1>7. ASSUME NEW e \in Token!Epochs, db[e] = "Plus" PROVE lastPlus' + 1 >= e
  <2>1. lastPlus + 1 >= e /\ e \in Nat
    BY <1>7, TokenAssumption
       DEF PlusOutlivesByOne, Token!PlusOutlivesByOne, Token!Epochs, Token!EpochAssumption
  <2> QED
    BY Zenon, <1>5, <2>1
<1> QED
  BY Zenon, <1>1, <1>3, <1>4, <1>6, <1>7 DEF PlusOutlivesByOne, Token!PlusOutlivesByOne

\* A step of the refresh that removes at most, and signs nothing.
Refreshes ==
  /\ UNCHANGED <<epoch, seen, lastPlus>>
  /\ db' = db \/ \E x : db' = [db EXCEPT ![x] = "none"]
  /\ ep' \in Nat /\ cur' \in Nat /\ ep' <= epoch /\ cur' <= ep' + 1
  /\ level' \in {"Free", "Plus"} /\ refresh' # "signed"

\* The steps of refresh_conn_token keep the invariant.
LEMMA RefreshKeeps == TokenInv /\ Refreshes => TokenInv'
<1> SUFFICES ASSUME TokenInv, Refreshes PROVE TokenInv'
  BY Zenon
<1> USE DEF TokenInv
<1>1. TokenTypes' /\ InTime'
  BY Zenon DEF TokenTypes, InTime, Refreshes
<1>2. SignedInTime'
  BY Zenon DEF SignedInTime, Refreshes
<1>3. \A e \in Token!Epochs : db'[e] = "Plus" => db[e] = "Plus"
  BY Zenon DEF TokenTypes, Refreshes
<1>4. PlusOutlivesByOne'
  BY Zenon, <1>3 DEF Refreshes, PlusOutlivesByOne, Token!PlusOutlivesByOne, Token!Epochs
<1> QED
  BY Zenon, <1>1, <1>2, <1>4

\* So do those of auth_loop around it.
LEMMA AuthLoopKeeps == TokenInv /\ (Token!AuthLoop \/ Token!Fail) => TokenInv'
<1> SUFFICES ASSUME TokenInv, Token!AuthLoop \/ Token!Fail PROVE TokenInv'
  BY Zenon
<1>1. /\ epoch \in Nat \ {0} /\ ep \in Nat /\ cur \in Nat /\ ep <= epoch /\ cur <= ep + 1
      /\ level \in {"Free", "Plus"}
  BY Zenon DEF TokenInv, TokenTypes, InTime
<1>2. CASE Token!AuthToken \/ Token!Info \/ Token!Check \/ Token!Begin
  <2>1. Refreshes
    BY <1>1, <1>2 DEF Refreshes, Token!AuthToken, Token!Begin, Token!Info, Token!Check,
                      Token!Goto, Token!account, Token!locals
  <2> QED
    BY Zenon, <2>1, RefreshKeeps
<1>3. CASE Token!Status \/ Token!Remove \/ Token!Removed
  <2>1. Refreshes
    BY <1>1, <1>3 DEF Refreshes, Token!Status, Token!Remove, Token!Removed, Token!Set,
                      Token!account, Token!locals
  <2> QED
    BY Zenon, <2>1, RefreshKeeps
<1>4. CASE Token!Read \/ Token!Written \/ Token!Fail
  <2>1. Refreshes
    BY <1>1, <1>4 DEF Refreshes, Token!Read, Token!Written, Token!Fail, Token!NextEpoch,
                      Token!LastAsked, Token!Rest, Token!account
  <2> QED
    BY Zenon, <2>1, RefreshKeeps
<1>5. CASE Token!Ask
  <2>1. /\ UNCHANGED <<epoch, seen, lastPlus, db, ep, cur>> /\ level' \in {level, "Free"}
        /\ \/ refresh' = "signed" /\ level' = level /\ (level = "Plus" => seen # 0)
           \/ refresh' # "signed"
    BY Zenon, <1>5 DEF Token!Ask, Token!Signs, Token!account
  <2>2. SignedInTime'
    BY <1>1, <2>1 DEF TokenInv, InTime, SignedInTime, TokenTypes
  <2> QED
    BY Zenon, <2>1, <2>2
       DEF TokenInv, TokenTypes, InTime, PlusOutlivesByOne, Token!PlusOutlivesByOne, Token!Epochs
<1>6. CASE Token!Write
  <2>1. /\ UNCHANGED <<epoch, seen, lastPlus, ep, cur>> /\ refresh = "signed" /\ refresh' = "written"
        /\ db' = [db EXCEPT ![cur] = level] /\ level' = level
    BY Zenon, <1>6 DEF Token!Write, Token!account, Token!locals, Token!Set
  <2>2. TokenTypes' /\ InTime' /\ SignedInTime'
    BY Zenon, <2>1 DEF TokenInv, TokenTypes, InTime, SignedInTime
  <2>3. \A e \in Token!Epochs : db'[e] = "Plus" => db[e] = "Plus" \/ (e = cur /\ level = "Plus")
    BY Zenon, <2>1 DEF TokenInv, TokenTypes
  <2>4. PlusOutlivesByOne'
    BY Zenon, <2>1, <2>3 DEF TokenInv, SignedInTime, PlusOutlivesByOne, Token!PlusOutlivesByOne, Token!Epochs
  <2> QED
    BY Zenon, <2>2, <2>4 DEF TokenInv
<1> QED
  BY Zenon, <1>2, <1>3, <1>4, <1>5, <1>6 DEF Token!AuthLoop

\* Every step keeps the invariant.
LEMMA TokenStep == TokenInv /\ [Token!Next]_(Token!vars) => TokenInv'
<1> SUFFICES ASSUME TokenInv, [Token!Next]_(Token!vars) PROVE TokenInv'
  BY Zenon
<1>1. ASSUME UNCHANGED <<epoch, seen, lastPlus, db, refresh, ep, cur, level>> PROVE TokenInv'
  BY Zenon, <1>1 DEF TokenInv, TokenTypes, InTime, SignedInTime, PlusOutlivesByOne,
              Token!PlusOutlivesByOne, Token!Epochs
<1>2. ASSUME NEW w \in Waiters, Token!Instance(w) PROVE TokenInv'
  BY Zenon, <1>1, <1>2 DEF Token!Instance, Token!Listen, Token!DbRead, Token!Sleep, Token!Wake, Token!Again,
                    Token!account, Token!locals
<1>3. CASE UNCHANGED Token!vars
  BY Zenon, <1>1, <1>3 DEF Token!vars, Token!account, Token!locals
<1> QED
  BY Zenon, <1>2, <1>3, WorldKeeps, AuthLoopKeeps DEF Token!Next

\* Whenever subscriptions come, go or move, and wherever refreshes fail, a Plus
\* token in the client's database is for an epoch in which, or in the one
\* before which, the broker saw the subscription (refresh_conn_token,
\* get_connect_token).
THEOREM PlusEndsInTime == Token!Spec => []PlusOutlivesByOne
<1>1. TokenInv => PlusOutlivesByOne
  BY Zenon DEF TokenInv
<1> QED
  BY TokenInit, TokenStep, <1>1, PTL DEF Token!Spec

\* An instance has found no token, and there is one now.
Overtaken(w) == waiter[w] \in {"absent", "asleep"} /\ db[wants[w]] # "none"
Reached(w) == heard[w] \/ refresh = "written" \/ unsaid

WaitTypes ==
  /\ epoch \in 1 .. MaxEpoch /\ wants \in [Waiters -> Token!Epochs]
  /\ waiter \in [Waiters -> {"idle", "listening", "absent", "asleep", "Free", "Plus"}]
  /\ heard \in [Waiters -> BOOLEAN]
WaitInv == WaitTypes /\ \A w \in Waiters : Overtaken(w) => Reached(w)

\* The invariant of the waiting instances holds in the initial states.
LEMMA WaitInit == Token!Init => WaitInv
<1> SUFFICES ASSUME Token!Init PROVE WaitInv
  BY Zenon
<1>1. 1 \in 1 .. MaxEpoch /\ 1 \in Token!Epochs
  BY TokenAssumption DEF Token!Epochs, Token!EpochAssumption
<1>2. WaitTypes
  BY Zenon, <1>1 DEF Token!Init, WaitTypes
<1>3. ASSUME NEW w \in Waiters PROVE ~Overtaken(w)
  BY Zenon DEF Token!Init, Overtaken
<1> QED
  BY Zenon, <1>2, <1>3 DEF WaitInv

\* A step that wakes nobody, writes nothing and cuts off no write.
Quiet ==
  /\ UNCHANGED <<waiter, wants, heard, unsaid>> /\ epoch' \in 1 .. MaxEpoch
  /\ refresh = "written" => refresh' = "written"
  /\ db' = db \/ \E x : db' = [db EXCEPT ![x] = "none"]

\* Such a step keeps the invariant.
LEMMA QuietKeeps == TokenInv /\ WaitInv /\ Quiet => WaitInv'
<1> SUFFICES ASSUME TokenInv, WaitInv, Quiet PROVE WaitInv'
  BY Zenon
<1>1. WaitTypes'
  BY Zenon DEF WaitInv, WaitTypes, Quiet, Token!Epochs
<1>2. ASSUME NEW w \in Waiters, Overtaken(w)' PROVE Reached(w)'
  <2>1. wants[w] \in Token!Epochs /\ db \in [Token!Epochs -> {"Free", "Plus", "none"}]
    BY Zenon DEF WaitInv, WaitTypes, TokenInv, TokenTypes
  <2>2. Overtaken(w)
    BY Zenon, <1>2, <2>1 DEF Overtaken, Quiet
  <2> QED
    BY Zenon, <2>2 DEF WaitInv, Reached, Quiet
<1> QED
  BY Zenon, <1>1, <1>2 DEF WaitInv

\* A notification reaches every instance that has a listener.
LEMMA NotifyKeeps ==
  WaitInv /\ Token!Notify /\ UNCHANGED <<epoch, db, waiter, wants>> => WaitInv'
<1> SUFFICES ASSUME WaitInv, Token!Notify, UNCHANGED <<epoch, db, waiter, wants>> PROVE WaitInv'
  BY Zenon
<1>1. heard' = [w \in Waiters |-> heard[w] \/ Token!Waiting(w)]
  BY Zenon DEF Token!Notify
<1>2. WaitTypes'
  BY Zenon, <1>1 DEF WaitInv, WaitTypes, Token!Epochs, Token!Waiting
<1>3. ASSUME NEW w \in Waiters, Overtaken(w)' PROVE Reached(w)'
  <2>1. Token!Waiting(w)
    BY Zenon, <1>3 DEF Overtaken, Token!Waiting
  <2> QED
    BY Zenon, <1>1, <2>1 DEF Reached
<1> QED
  BY Zenon, <1>2, <1>3 DEF WaitInv

\* The steps of one instance.
LEMMA InstanceKeeps ==
  ASSUME NEW w \in Waiters, TokenInv, WaitInv, Token!Instance(w) PROVE WaitInv'
<1>1. /\ UNCHANGED <<db, refresh, epoch, unsaid>>
      /\ \A v \in Waiters : v # w => waiter'[v] = waiter[v] /\ wants'[v] = wants[v] /\ heard'[v] = heard[v]
  BY Zenon DEF Token!Instance, Token!Listen, Token!DbRead, Token!Sleep, Token!Wake, Token!Again, Token!account,
         Token!Set, WaitInv, WaitTypes
<1>2. /\ wants[w] \in Token!Epochs /\ epoch \in Token!Epochs /\ 1 \in Token!Epochs
      /\ db \in [Token!Epochs -> {"Free", "Plus", "none"}]
  BY TokenAssumption DEF WaitInv, WaitTypes, TokenInv, TokenTypes, Token!Epochs, Token!EpochAssumption
<1>3. WaitTypes'
  <2> DEFINE At == {"idle", "listening", "absent", "asleep", "Free", "Plus"}
  <2>1. waiter \in [Waiters -> At] /\ wants \in [Waiters -> Token!Epochs] /\ heard \in [Waiters -> BOOLEAN]
    BY Zenon DEF WaitInv, WaitTypes
  <2>2. /\ waiter' = waiter \/ \E x \in At : waiter' = [waiter EXCEPT ![w] = x]
        /\ wants' = wants \/ \E e \in Token!Epochs : wants' = [wants EXCEPT ![w] = e]
        /\ heard' = heard \/ heard' = [heard EXCEPT ![w] = FALSE]
    <3>1. db[wants[w]] = "none" \/ db[wants[w]] \in {"Free", "Plus"}
      BY Zenon, <1>2
    <3>2. CASE Token!Listen(w) \/ Token!Again(w)
      BY Zenon, <1>2, <3>2 DEF Token!Listen, Token!Again, Token!Set
    <3>3. CASE Token!DbRead(w)
      BY Zenon, <3>1, <3>3 DEF Token!DbRead, Token!Set
    <3>4. CASE Token!Sleep(w) \/ Token!Wake(w)
      BY Zenon, <3>4 DEF Token!Sleep, Token!Wake, Token!Set
    <3> QED
      BY <3>2, <3>3, <3>4, Zenon DEF Token!Instance
  <2> HIDE DEF At
  <2>3. waiter' \in [Waiters -> At]
    BY Zenon, <2>1, <2>2
  <2>4. wants' \in [Waiters -> Token!Epochs]
    BY Zenon, <2>1, <2>2
  <2>5. heard' \in [Waiters -> BOOLEAN]
    BY Zenon, <2>1, <2>2
  <2>6. epoch' \in 1 .. MaxEpoch
    BY <1>1, Zenon DEF WaitInv, WaitTypes
  <2> QED
    BY <2>3, <2>4, <2>5, <2>6, Zenon DEF WaitTypes, At, Token!Epochs
<1>4. ASSUME NEW v \in Waiters, Overtaken(v)', v # w PROVE Reached(v)'
  BY Zenon, <1>1, <1>4 DEF WaitInv, Overtaken, Reached
<1>5. ASSUME Overtaken(w)' PROVE Reached(w)'
  <2>1. /\ waiter[w] = "absent" /\ waiter'[w] = "asleep" /\ UNCHANGED <<wants, heard>>
    <3>1. waiter'[w] \in {"absent", "asleep"} /\ db[wants'[w]] # "none"
      BY <1>1, <1>5, Zenon DEF Overtaken
    <3>2. waiter \in [Waiters -> {"idle", "listening", "absent", "asleep", "Free", "Plus"}]
      BY Zenon DEF WaitInv, WaitTypes
    <3>3. ASSUME Token!DbRead(w) PROVE FALSE
      BY Zenon, <1>2, <3>1, <3>2, <3>3 DEF Token!DbRead, Token!Set
    <3>4. ASSUME Token!Listen(w) \/ Token!Wake(w) \/ Token!Again(w) PROVE FALSE
      BY Zenon, <3>1, <3>2, <3>4 DEF Token!Listen, Token!Wake, Token!Again, Token!Set
    <3>5. Token!Sleep(w)
      BY <3>3, <3>4, Zenon DEF Token!Instance
    <3> QED
      BY Zenon, <3>2, <3>5 DEF Token!Sleep, Token!Set
  <2> QED
    BY Zenon, <1>1, <1>5, <2>1 DEF WaitInv, Overtaken, Reached
<1> QED
  BY Zenon, <1>3, <1>4, <1>5 DEF WaitInv

\* Every step keeps the invariant.
LEMMA WaitStep == TokenInv /\ WaitInv /\ [Token!Next]_(Token!vars) => WaitInv'
<1> SUFFICES ASSUME TokenInv, WaitInv, [Token!Next]_(Token!vars) PROVE WaitInv'
  BY Zenon
<1>1. epoch \in 1 .. MaxEpoch
  BY Zenon DEF WaitInv, WaitTypes
<1>2. CASE Token!NewEpoch
  <2>1. epoch' \in 1 .. MaxEpoch
    BY <1>1, <1>2, TokenAssumption DEF Token!NewEpoch, Token!EpochAssumption
  <2> QED
    BY Zenon, <1>2, <2>1, QuietKeeps DEF Token!NewEpoch, Token!waits, Quiet
<1>3. CASE Token!Reload \/ UNCHANGED Token!vars
  BY Zenon, <1>1, <1>3, QuietKeeps DEF Token!Reload, Token!waits, Token!vars, Token!account, Quiet
<1>4. CASE Token!AuthToken \/ Token!Begin \/ Token!Info \/ Token!Check
  BY Zenon, <1>1, <1>4, QuietKeeps
     DEF Token!AuthToken, Token!Begin, Token!Info, Token!Check, Token!Goto, Token!waits, Token!account, Quiet
<1>5. CASE Token!Remove \/ Token!Status
  BY Zenon, <1>1, <1>5, QuietKeeps DEF Token!Remove, Token!Status, Token!Set, Token!waits, Token!account, Quiet
<1>6. CASE Token!Read \/ Token!Ask
  BY Zenon, <1>1, <1>6, QuietKeeps DEF Token!Read, Token!Ask, Token!waits, Token!account, Quiet
<1>7. CASE Token!Removed \/ Token!Written
  BY Zenon, <1>7, NotifyKeeps DEF Token!Removed, Token!Written, Token!account
<1>8. CASE Token!Write
  BY Zenon, <1>8 DEF Token!Write, Token!account, Token!waits, WaitInv, WaitTypes, Reached, Token!Epochs
<1>9. CASE Token!Fail
  BY Zenon, <1>9 DEF Token!Fail, Token!account, WaitInv, WaitTypes, Overtaken, Reached, Token!Epochs
<1> QED
  BY Zenon, <1>2, <1>3, <1>4, <1>5, <1>6, <1>7, <1>8, <1>9, InstanceKeeps DEF Token!Next, Token!AuthLoop

\* However the reads of any number of instances fall between the steps of refreshes, an
\* instance that awaits its listener while its token is there has been notified or is
\* about to be, unless the write was cut off (db_read_or_wait, db_write).
THEOREM WakeupsKept == Token!Spec => []WakeupKept
<1>1. WaitInv => WakeupKept
  BY Zenon DEF WaitInv, WakeupKept, Token!WakeupKept, Overtaken, Reached
<1> QED
  BY TokenInit, TokenStep, WaitInit, WaitStep, <1>1, PTL DEF Token!Spec
=============================================================================
