--------------------------- MODULE DirectoryProofs --------------------------
(***************************************************************************)
(* Proofs about Exits and Routes, for every set of exits and bridges, all  *)
(* lifetimes and any number of faults.                                     *)
(***************************************************************************)
EXTENDS MCDirectory, TLAPS

----------------------------------------------------------------------------
(* Exits: the inductive invariant bounds the age of the registration that  *)
(* each copy stems from by the lifetimes it has been through and what was  *)
(* lost to rounds of garbage collection that failed or were late.          *)

BrokerTypes ==
  /\ row \in [Exits -> Int] /\ gc \in 0 .. GC /\ missed \in Nat
  /\ list \in [age : Int, reg : [Exits -> Int]]
ClientTypes ==
  /\ pick \in [exit : Exits \cup {"none"}, age : Int, reg : Int]
  /\ dialer \in [exit : Exits \cup {"none"}, age : Int, reg : Int, stale : BOOLEAN]

RowYoung == \A e \in Exits : row[e] # Gone => row[e] \in 0 .. ROW + gc + missed

ListYoung ==
  list # NoList =>
    /\ list.age \in 0 .. LIST
    /\ \A e \in Exits : list.reg[e] # Gone => list.reg[e] \in 0 .. ROW + GC + missed + list.age

PickYoung ==
  pick # NoPick => pick.age \in 0 .. 1 /\ pick.reg \in 0 .. Age + pick.age

DialerYoung ==
  /\ dialer # NoDialer => dialer.age >= -1
  /\ dialer.age = -1 => dialer.stale
  /\ ~dialer.stale /\ dialer.age \in 0 .. DIALER => dialer.reg \in 0 .. Age + 1 + dialer.age

BrokerInv == BrokerTypes /\ RowYoung /\ ListYoung
ClientInv == ClientTypes /\ PickYoung /\ DialerYoung
IInv == BrokerInv /\ ClientInv

----------------------------------------------------------------------------
(* Routes: a cached route is as old as the entry of its listener.          *)

RouteInv ==
  /\ route \in [Bridges -> [age : Int, ok : BOOLEAN]] /\ mapped \in [Bridges -> Int]
  /\ DOMAIN bridge_up = Bridges
  /\ \A b \in Bridges : route[b].ok => \/ bridge_up[b] = "down"
                                       \/ /\ mapped[b] = route[b].age
                                          /\ route[b].age \in 0 .. ROUTE

\* The invariant of the routes holds in the initial states,
LEMMA RouteInit == RouteCache!Init => RouteInv
  BY DEF RouteCache!Init, RouteInv, RouteCache!NoRoute, RouteCache!Gone

\* and every step keeps it.
LEMMA RouteStep == RouteInv /\ [RouteCache!Next]_(RouteCache!vars) => RouteInv'
<1> SUFFICES ASSUME RouteInv, [RouteCache!Next]_(RouteCache!vars) PROVE RouteInv'
    OBVIOUS
<1> USE DEF RouteInv
<1>1. CASE UNCHANGED <<route, mapped, bridge_up>>
    BY <1>1
<1>2. ASSUME NEW b \in Bridges, RouteCache!Boot(b) PROVE RouteInv'
    BY <1>2 DEF RouteCache!Boot, RouteCache!Set, RouteCache!broker_vars
<1>3. ASSUME NEW b \in Bridges, RouteCache!Crash(b) PROVE RouteInv'
  <2>1. /\ route' = route /\ bridge_up' = [bridge_up EXCEPT ![b] = "down"]
        /\ mapped' = [mapped EXCEPT ![b] = -9]
      BY <1>3 DEF RouteCache!Crash, RouteCache!Set, RouteCache!broker_vars, RouteCache!Gone
  <2>2. QED BY <2>1
<1>4. ASSUME NEW b \in Bridges, RouteCache!MakeRoute(b) PROVE RouteInv'
  <2>1. PICK ok \in BOOLEAN : /\ RouteCache!LeafRoute(b, ok)
                              /\ route' = [route EXCEPT ![b] = [age |-> 0, ok |-> ok]]
      BY <1>4 DEF RouteCache!MakeRoute, RouteCache!Set
  <2>2. bridge_up' = bridge_up
      BY <1>4 DEF RouteCache!MakeRoute
  <2>3. IF ok THEN mapped' = [mapped EXCEPT ![b] = 0] ELSE mapped' = mapped
      BY <2>1 DEF RouteCache!LeafRoute, RouteCache!TcpForward, RouteCache!Set
  <2>4. QED BY <2>1, <2>2, <2>3, RoutesAssumption DEF RouteCache!LifetimesAssumption
<1>5. CASE RouteCache!Tick
  <2>1. /\ bridge_up' = bridge_up
        /\ route' = [b \in Bridges |-> IF route[b].age \in {-9, ROUTE} THEN [age |-> -9, ok |-> FALSE]
                                       ELSE [route[b] EXCEPT !.age = @ + 1]]
        /\ mapped' = [b \in Bridges |-> IF mapped[b] \in 0 .. MAPPING - 1 THEN mapped[b] + 1 ELSE -9]
      BY <1>5 DEF RouteCache!Tick, RouteCache!NoRoute, RouteCache!Gone, RouteCache!OlderMapping
  <2>2. ASSUME NEW b \in Bridges
        PROVE  /\ route'[b] \in [age : Int, ok : BOOLEAN] /\ mapped'[b] \in Int
               /\ route'[b].ok => \/ bridge_up'[b] = "down"
                                  \/ /\ mapped'[b] = route'[b].age
                                     /\ route'[b].age \in 0 .. ROUTE
    <3>1. CASE route[b].age \in {-9, ROUTE}
        BY <2>1, <3>1
    <3>2. CASE route[b].age \notin {-9, ROUTE}
      <4>1. /\ route'[b].age = route[b].age + 1 /\ route'[b].ok = route[b].ok
            /\ route'[b] \in [age : Int, ok : BOOLEAN]
          BY <2>1, <3>2
      <4>2. mapped'[b] \in Int
          BY <2>1
      <4>3. ASSUME route[b].ok, bridge_up[b] # "down"
            PROVE  mapped'[b] = route[b].age + 1 /\ route[b].age + 1 \in 0 .. ROUTE
        <5>1. mapped[b] = route[b].age /\ route[b].age \in 0 .. ROUTE /\ route[b].age # ROUTE
            BY <3>2, <4>3
        <5> DEFINE a == route[b].age
        <5> HIDE DEF a
        <5>2. a \in 0 .. MAPPING - 1 /\ a + 1 \in 0 .. ROUTE
            BY <5>1, RoutesAssumption DEF a, RouteCache!LifetimesAssumption
        <5>3. mapped'[b] = IF mapped[b] \in 0 .. MAPPING - 1 THEN mapped[b] + 1 ELSE -9
            BY <2>1
        <5>4. QED BY <5>1, <5>2, <5>3 DEF a
      <4>4. QED BY <2>1, <4>1, <4>2, <4>3
    <3>3. QED BY <3>1, <3>2
  <2>3. QED BY <2>1, <2>2
<1>6. RouteCache!Next => \/ RouteCache!Tick \/ UNCHANGED <<route, mapped, bridge_up>>
                         \/ \E b \in Bridges : \/ RouteCache!Boot(b) \/ RouteCache!Crash(b)
                                               \/ RouteCache!MakeRoute(b)
    BY DEF RouteCache!Next, RouteCache!Broker, RouteCache!Upload, RouteCache!ListenerDies,
           RouteCache!Collect, RouteCache!QueryBridges, RouteCache!GetRoutes,
           RouteCache!bridge_vars, RouteCache!broker_vars
<1>7. QED
    BY <1>1, <1>2, <1>3, <1>4, <1>5, <1>6
    DEF RouteCache!vars, RouteCache!bridge_vars, RouteCache!broker_vars

\* A route in the broker's cache leads to a listener of its bridge, for any lifetimes of
\* which the listener's is not below the route's (bridge_to_leaf_route, tcp_forward).
THEOREM RoutesLead == RouteCache!Spec => []RouteHasListener
<1>1. RouteInv => RouteHasListener
    BY RoutesAssumption
    DEF RouteInv, RouteHasListener, RouteCache!RouteHasListener, RouteCache!Gone, RouteCache!LifetimesAssumption
<1>2. QED
    BY <1>1, RouteInit, RouteStep, PTL DEF RouteCache!Spec

----------------------------------------------------------------------------
(* Ages of registrations: the proofs for Exits.                            *)

Upto(a, n) == a # Gone => a \in 0 .. n

\* A bound on an age moves with a tick.
LEMMA OlderUpto ==
  ASSUME NEW a \in Int, NEW n \in Nat, Upto(a, n)
  PROVE  Older(a) \in Int /\ Upto(Older(a), n + 1) /\ (a # Gone => Older(a) # Gone)
  BY DEF Upto, Older, Gone

\* The list of all exits holds registrations no older than a row can get and a
\* list can be.
LEMMA ListAges ==
  ASSUME BrokerInv
  PROVE  /\ AllExits \in [age : Int, reg : [Exits -> Int]]
         /\ AllExits.age \in 0 .. LIST
         /\ \A e \in Exits : Upto(AllExits.reg[e], ROW + GC + missed + AllExits.age)
<1> USE DEF BrokerInv, BrokerTypes
<1>1. CASE list # NoList
    BY <1>1 DEF AllExits, ListYoung, Upto
<1>2. CASE list = NoList
  <2>1. AllExits = [age |-> 0, reg |-> row]
      BY <1>2 DEF AllExits
  <2>2. \A e \in Exits : Upto(row[e], ROW + GC + missed)
      BY TimesAssumption DEF RowYoung, Upto
  <2>3. QED BY <2>1, <2>2, TimesAssumption
<1>3. QED BY <1>1, <1>2

\* Every step of broker and exits keeps the bounds on ages.
LEMMA BrokerStep == BrokerInv /\ [Next]_vars => BrokerInv'
<1> SUFFICES ASSUME BrokerInv, [Next]_vars PROVE BrokerInv'
    OBVIOUS
<1> USE TimesAssumption DEF BrokerInv, BrokerTypes
<1>1. CASE UNCHANGED broker_vars
    BY <1>1 DEF broker_vars, RowYoung, ListYoung
<1>2. CASE CacheList /\ UNCHANGED <<row, gc, missed>>
  <2>1. list' = AllExits
      BY <1>2 DEF CacheList
  <2>2. ListYoung'
      BY <1>2, <2>1, ListAges DEF ListYoung, Upto, NoList
  <2>3. QED BY <1>2, <2>1, <2>2, ListAges DEF RowYoung
<1>3. ASSUME NEW e \in Exits, Register(e) PROVE BrokerInv'
  <2>1. UNCHANGED <<gc, missed, list>>
      BY <1>3 DEF Register
  <2>2. row' = row \/ row' = [row EXCEPT ![e] = 0]
      BY <1>3 DEF Register, InsertExit, Upserted
  <2>3. QED BY <2>1, <2>2 DEF RowYoung, ListYoung
<1>4. CASE Collect
    BY <1>4 DEF Collect, DeleteExpired, RowYoung, ListYoung, Gone
<1>5. CASE CollectFails
  <2>1. row' = row /\ list' = list /\ gc' = 0 /\ missed' = missed + gc
      BY <1>5 DEF CollectFails
  <2>2. ROW + gc' + missed' = ROW + gc + missed /\ missed' \in Nat
      BY <2>1
  <2>3. RowYoung'
      BY <2>1, <2>2 DEF RowYoung
  <2>4. ListYoung'
      BY <2>1 DEF ListYoung, NoList
  <2>5. QED BY <2>1, <2>2, <2>3, <2>4
<1>6. CASE Tick
  <2>1. /\ gc' \in 0 .. GC /\ missed' \in Nat /\ missed' >= missed
        /\ ROW + gc' + missed' = ROW + gc + missed + 1
      BY <1>6 DEF Tick, TickGc
  <2>2. row' = [e \in Exits |-> Older(row[e])]
      BY <1>6 DEF Tick, OlderRow
  <2>3. \A e \in Exits : Older(row[e]) \in Int /\ Upto(Older(row[e]), ROW + gc + missed + 1)
    <3> SUFFICES ASSUME NEW e \in Exits PROVE Older(row[e]) \in Int /\ Upto(Older(row[e]), ROW + gc + missed + 1)
        OBVIOUS
    <3>1. row[e] \in Int /\ Upto(row[e], ROW + gc + missed) /\ ROW + gc + missed \in Nat
        BY DEF RowYoung, Upto
    <3>2. QED BY <3>1, OlderUpto
  <2>4. row' \in [Exits -> Int] /\ RowYoung'
      BY <2>1, <2>2, <2>3 DEF RowYoung, Upto
  <2>5. list' \in [age : Int, reg : [Exits -> Int]] /\ ListYoung'
    <3>1. CASE list.age \in {Gone, LIST}
      <4>1. list' = NoList
          BY <1>6, <3>1 DEF Tick
      <4>2. QED BY <4>1 DEF NoList, ListYoung, Gone
    <3>2. CASE list.age \notin {Gone, LIST}
      <4>1. list' = [age |-> list.age + 1, reg |-> [e \in Exits |-> Older(list.reg[e])]]
          BY <1>6, <3>2 DEF Tick, OlderRow
      <4>2. list # NoList
          BY <3>2 DEF NoList
      <4>3. list.age \in 0 .. LIST /\ list.age + 1 \in 0 .. LIST /\ ROW + GC + missed + list.age \in Nat
          BY <3>2, <4>2 DEF ListYoung
      <4>4. ASSUME NEW e \in Exits
            PROVE  Older(list.reg[e]) \in Int /\ Upto(Older(list.reg[e]), ROW + GC + missed + list.age + 1)
        <5>1. list.reg[e] \in Int /\ Upto(list.reg[e], ROW + GC + missed + list.age)
            BY <4>2 DEF ListYoung, Upto
        <5>2. QED BY <4>3, <5>1, OlderUpto
      <4>5. QED BY <2>1, <4>1, <4>3, <4>4 DEF ListYoung, Upto
    <3>3. QED BY <3>1, <3>2
  <2>6. QED BY <2>1, <2>4, <2>5
<1>7. Next => \/ Tick \/ Collect \/ CollectFails \/ UNCHANGED broker_vars
              \/ CacheList /\ UNCHANGED <<row, gc, missed>>
              \/ \E e \in Exits : Register(e)
    BY DEF Next, GetDialer, Exit, PickExit, NewDialer, KeepStale, ClockBack, Boot, Crash, AskFree,
           UploadFails, broker_vars
<1>8. QED BY <1>1, <1>2, <1>3, <1>4, <1>5, <1>6, <1>7 DEF vars

\* Every step leaves the age that the broker's offers can have, or adds to it.
LEMMA AgeGrows ==
  ASSUME BrokerTypes, BrokerTypes', [Next]_vars
  PROVE  Age \in Nat /\ Age' \in Nat /\ Age' >= Age
<1>1. missed' >= missed
  <2>1. CASE Tick
      BY <2>1 DEF Tick, TickGc, BrokerTypes
  <2>2. CASE CollectFails
    <3>1. missed' = missed + gc
        BY <2>2, Zenon DEF CollectFails
    <3>2. missed \in Nat /\ gc \in 0 .. GC
        BY Zenon DEF BrokerTypes
    <3>3. QED BY ONLY <3>1, <3>2, TimesAssumption
  <2>3. Next => Tick \/ CollectFails \/ UNCHANGED missed
      BY DEF Next, GetDialer, Exit, PickExit, NewDialer, KeepStale, ClockBack, Boot, Crash, AskFree,
             Register, UploadFails, Collect, broker_vars
  <2>4. UNCHANGED vars => UNCHANGED missed
      BY DEF vars, broker_vars
  <2>5. QED BY <2>1, <2>2, <2>3, <2>4 DEF BrokerTypes
<1>2. missed \in Nat /\ missed' \in Nat
    BY Zenon DEF BrokerTypes
<1>3. \A m, n \in Nat : m >= n => /\ ROW + GC + LIST + n \in Nat
                                 /\ ROW + GC + LIST + m >= ROW + GC + LIST + n
    BY ONLY TimesAssumption
<1>4. Age = ROW + GC + LIST + missed /\ Age' = ROW + GC + LIST + missed'
    BY ONLY DEF Age
<1>5. missed >= missed /\ missed' >= missed'
    BY <1>2
<1>6. QED BY ONLY <1>1, <1>2, <1>3, <1>4, <1>5, Zenon

\* An exit picked from the list was registered recently.
LEMMA PickedAge ==
  ASSUME BrokerInv, NEW e \in Exits, AllExits.reg[e] # Gone
  PROVE  AllExits.reg[e] \in 0 .. Age
  BY ListAges, TimesAssumption DEF Upto, Age, BrokerInv, BrokerTypes

\* Every step keeps the bound on the age of what the client uses.
LEMMA ClientStep == BrokerInv /\ ClientInv /\ [Next]_vars => ClientInv'
<1> SUFFICES ASSUME BrokerInv, ClientInv, [Next]_vars PROVE ClientInv'
    OBVIOUS
<1> USE TimesAssumption DEF ClientInv, ClientTypes
<1>0. Age \in Nat /\ Age' \in Nat /\ Age' >= Age
    BY BrokerStep, AgeGrows DEF BrokerInv
<1>1. CASE UNCHANGED <<pick, dialer>>
    BY <1>0, <1>1 DEF PickYoung, DialerYoung, NoPick, NoDialer
<1>2. CASE PickExit
  <2>1. PICK e \in Matching : pick' = [exit |-> e, age |-> 0, reg |-> AllExits.reg[e]]
      BY <1>2 DEF PickExit
  <2>2. e \in Exits /\ AllExits.reg[e] \in 0 .. Age
      BY PickedAge DEF Matching, Offered
  <2>3. pick' \in [exit : Exits \cup {"none"}, age : Int, reg : Int] /\ PickYoung'
      BY <1>0, <2>1, <2>2 DEF PickYoung
  <2>4. QED BY <1>0, <1>2, <2>3 DEF PickExit, DialerYoung, NoDialer
<1>3. CASE NewDialer
  <2>1. pick' = NoPick
      BY <1>3 DEF NewDialer
  <2>2. dialer' = [exit |-> pick.exit, age |-> 0, reg |-> pick.reg, stale |-> FALSE]
      BY <1>3 DEF NewDialer
  <2>3. pick.reg \in 0 .. Age + 1
      BY <1>0, <1>3 DEF NewDialer, PickYoung
  <2>4. DialerYoung'
      BY <1>0, <2>2, <2>3 DEF DialerYoung
  <2>5. QED BY <2>1, <2>2, <2>4 DEF PickYoung, NoPick, Gone
<1>4. CASE KeepStale
  <2>1. pick' = NoPick
      BY <1>4 DEF KeepStale
  <2>2. dialer' = IF dialer = NoDialer THEN NoDialer ELSE [dialer EXCEPT !.stale = TRUE]
      BY <1>4 DEF KeepStale
  <2>3. dialer' \in [exit : Exits \cup {"none"}, age : Int, reg : Int, stale : BOOLEAN]
      BY <2>2
  <2>4. DialerYoung'
    <3>1. CASE dialer = NoDialer
        BY <1>0, <2>2, <3>1 DEF DialerYoung, NoDialer, Gone
    <3>2. CASE dialer # NoDialer
        BY <1>0, <2>2, <3>2 DEF DialerYoung
    <3>3. QED BY <3>1, <3>2
  <2>5. QED BY <2>1, <2>3, <2>4 DEF PickYoung, NoPick, Gone
<1>5. CASE ClockBack
  <2>1. pick' = pick /\ dialer' = [dialer EXCEPT !.age = -1, !.stale = TRUE]
      BY <1>5 DEF ClockBack
  <2>2. /\ dialer' \in [exit : Exits \cup {"none"}, age : Int, reg : Int, stale : BOOLEAN]
        /\ dialer'.age = -1 /\ dialer'.stale
    <3>1. \A a \in Int : /\ [dialer EXCEPT !.age = a, !.stale = TRUE]
                              \in [exit : Exits \cup {"none"}, age : Int, reg : Int, stale : BOOLEAN]
                         /\ [dialer EXCEPT !.age = a, !.stale = TRUE].age = a
                         /\ [dialer EXCEPT !.age = a, !.stale = TRUE].stale
        OBVIOUS
    <3>2. -1 \in Int
        OBVIOUS
    <3>3. QED BY <2>1, <3>1, <3>2, Zenon
  <2>3. QED BY <1>0, <2>1, <2>2 DEF DialerYoung, PickYoung, NoPick
<1>6. CASE Tick
  <2>1. pick' \in [exit : Exits \cup {"none"}, age : Int, reg : Int] /\ PickYoung'
    <3>1. CASE pick = NoPick
        BY <1>6, <3>1 DEF Tick, PickYoung
    <3>2. CASE pick # NoPick
      <4>1. pick' = [pick EXCEPT !.age = @ + 1, !.reg = Older(@)] /\ pick.age < 1
          BY <1>6, <3>2 DEF Tick
      <4>2. pick.age = 0 /\ pick.reg \in 0 .. Age
          BY <1>0, <3>2, <4>1 DEF PickYoung
      <4>3. Older(pick.reg) \in 0 .. Age + 1
          BY <1>0, <4>2, OlderUpto DEF Upto, Gone
      <4>4. pick'.age = 1 /\ pick'.reg = Older(pick.reg)
        <5> DEFINE reg == Older(pick.reg)
        <5> HIDE DEF reg
        <5>1. pick' = [pick EXCEPT !.age = pick.age + 1, !.reg = reg]
            BY <4>1, Zenon DEF reg
        <5>2. QED BY <4>2, <5>1 DEF reg
      <4>5. pick' \in [exit : Exits \cup {"none"}, age : Int, reg : Int]
        <5>1. \A a, g \in Int : [pick EXCEPT !.age = a, !.reg = g]
                                  \in [exit : Exits \cup {"none"}, age : Int, reg : Int]
            OBVIOUS
        <5>2. pick.age + 1 \in Int /\ Older(pick.reg) \in Int
            BY <4>2, <4>3
        <5>3. QED BY <4>1, <5>1, <5>2
      <4>6. QED BY <1>0, <4>3, <4>4, <4>5 DEF PickYoung
    <3>3. QED BY <3>1, <3>2
  <2>2. dialer' \in [exit : Exits \cup {"none"}, age : Int, reg : Int, stale : BOOLEAN] /\ DialerYoung'
    <3>1. CASE dialer = NoDialer
        BY <1>6, <3>1 DEF Tick, DialerYoung, NoDialer, Gone
    <3>2. CASE dialer # NoDialer
      <4> DEFINE age == IF dialer.age > DIALER THEN dialer.age ELSE dialer.age + 1
      <4>1. dialer' = [dialer EXCEPT !.age = age, !.reg = Older(dialer.reg)]
          BY <1>6, <3>2 DEF Tick
      <4>2. Older(dialer.reg) \in Int
          BY DEF Older, Gone
      <4>3. /\ dialer'.age = age /\ dialer'.reg = Older(dialer.reg) /\ dialer'.stale = dialer.stale
            /\ dialer' \in [exit : Exits \cup {"none"}, age : Int, reg : Int, stale : BOOLEAN]
        <5>1. age \in Int
            OBVIOUS
        <5> DEFINE reg == Older(dialer.reg)
        <5> HIDE DEF age, reg
        <5>2. QED BY <4>1, <4>2, <5>1 DEF reg
      <4>4. dialer.age \in Int /\ dialer.age >= -1 /\ age >= 0
          BY <3>2 DEF DialerYoung
      <4>5. ASSUME ~dialer.stale, age \in 0 .. DIALER
            PROVE  Older(dialer.reg) \in 0 .. Age + 1 + age
        <5>1. dialer.age \in 0 .. DIALER /\ age = dialer.age + 1
            BY <4>4, <4>5 DEF DialerYoung
        <5>2. dialer.reg \in 0 .. Age + 1 + dialer.age
            BY <4>5, <5>1 DEF DialerYoung
        <5> HIDE DEF age
        <5>3. Age + 1 + dialer.age \in Nat /\ dialer.reg \in Int
            BY <1>0, <5>1
        <5>4. Upto(dialer.reg, Age + 1 + dialer.age) /\ dialer.reg # Gone
            BY <5>2 DEF Upto, Gone
        <5>5. Older(dialer.reg) \in 0 .. Age + 1 + dialer.age + 1
          <6>1. /\ Upto(Older(dialer.reg), Age + 1 + dialer.age + 1)
                /\ Older(dialer.reg) # Gone
              BY <5>3, <5>4, OlderUpto, Zenon
          <6>2. QED BY ONLY <6>1 DEF Upto
        <5>6. QED BY <1>0, <5>1, <5>5
      <4> HIDE DEF age
      <4>6. QED BY <1>0, <4>3, <4>4, <4>5 DEF DialerYoung
    <3>3. QED BY <3>1, <3>2
  <2>3. QED BY <2>1, <2>2
<1>7. Next => \/ Tick \/ PickExit \/ NewDialer \/ KeepStale \/ ClockBack \/ UNCHANGED <<pick, dialer>>
    BY DEF Next, GetDialer, Exit, Collect, CollectFails, Boot, Crash, AskFree, Register, UploadFails, client_vars
<1>8. QED BY <1>1, <1>2, <1>3, <1>4, <1>5, <1>6, <1>7 DEF vars, client_vars

\* The bounds hold in the initial states.
LEMMA DirectoryInit == Init => IInv
  BY TimesAssumption
  DEF Init, IInv, BrokerInv, ClientInv, BrokerTypes, ClientTypes, RowYoung, ListYoung, PickYoung,
      DialerYoung, NoList, NoPick, NoDialer, Gone

\* Whatever was cached where, and for any lifetimes, the broker offers no exit, and the
\* client takes no dialer for recent, whose registration is older than the lifetimes of
\* the copies it went through and the rounds of garbage collection that failed or were
\* late (database_gc_loop, get_all_exits, get_dialer).
THEOREM ExitsAlive == Spec => []RecentlyAlive
<1>1. IInv => RecentlyAlive
  <2> SUFFICES ASSUME IInv PROVE RecentlyAlive
      OBVIOUS
  <2>0. Age \in Nat
    <3>1. missed \in Nat
        BY Zenon DEF IInv, BrokerInv, BrokerTypes
    <3>2. QED BY ONLY <3>1, TimesAssumption DEF Age
  <2>1. ASSUME NEW e \in Offered("Plus") PROVE AllExits.reg[e] <= Age
    <3>1. AllExits.reg[e] \in 0 .. Age
        BY PickedAge DEF IInv, Offered
    <3>2. QED BY <2>0, <3>1
  <2>2. Recent /\ ~dialer.stale => dialer.reg <= Age + DIALER + 1
      BY <2>0, TimesAssumption DEF IInv, ClientInv, ClientTypes, DialerYoung, Recent
  <2>3. QED BY <2>1, <2>2 DEF RecentlyAlive
<1>2. IInv /\ [Next]_vars => IInv'
    BY BrokerStep, ClientStep DEF IInv
<1>3. QED
    BY <1>1, <1>2, DirectoryInit, PTL DEF Spec
=============================================================================
