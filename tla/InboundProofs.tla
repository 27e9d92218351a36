---------------------------- MODULE InboundProofs ---------------------------
(***************************************************************************)
(* Proofs about Subscriptions, for every set of users and every number of  *)
(* calls, payments and slots; about SosistabListener, for any number of    *)
(* connections and any expiry time; and about B2e, for every finite set of *)
(* workers and any number of connections, processes and faults.            *)
(***************************************************************************)
EXTENDS MCInbound, Integers, Sequences, FiniteSetTheorems, TLAPS

----------------------------------------------------------------------------
(* The inductive invariant.                                                *)

\* Payments lie in the past, and the one who paid has a row or lapsed.
Recorded ==
  \A p \in payments : p.slot <= now /\ p.second <= second /\ p.user \in rows \cup lapsed

\* The second cached for a slot is not before any payment of earlier slots.
TsFresh ==
  \A e \in ts_cache : /\ e[1] <= now /\ e[2] <= second
                      /\ \A p \in payments : p.slot < e[1] => p.second <= e[2]

\* The table cached for a second has everybody who paid in earlier seconds.
SubsFresh ==
  \A e \in subs_cache : /\ e[1] <= second
                        /\ \A p \in payments : p.second < e[1] => p.user \in e[2] \cup lapsed

\* What a call found in the first cache is as fresh as the cache.
CallFresh ==
  \A u \in Users :
    /\ call[u].pc \in {"ts", "subs", "Free"} => call[u].key <= now
    /\ call[u].pc \in {"subs", "Free"} =>
         /\ call[u].ts <= second
         /\ \A p \in payments : p.slot < call[u].key => p.second <= call[u].ts

IInv == TypeOK /\ Recorded /\ TsFresh /\ SubsFresh /\ CallFresh /\ PaidSeen

\* The broker starts with empty caches.
LEMMA InitIInv == Init => IInv
BY DEF Init, IInv, TypeOK, Recorded, TsFresh, SubsFresh, CallFresh, PaidSeen, Idle

----------------------------------------------------------------------------
(* One lemma per action.                                                   *)

\* Time passes: what lies in the past still does.
LEMMA TickIInv == IInv /\ Tick => IInv'
<1> SUFFICES ASSUME IInv, Tick PROVE IInv'
  BY Zenon
<1> USE DEF IInv, Tick, tables
<1>1. TypeOK'
  BY DEF TypeOK
<1>2. now \in Nat /\ second \in Nat /\ now <= now' /\ second <= second'
      /\ now' \in Nat /\ second' \in Nat
  BY DEF TypeOK
<1>3. Recorded'
  BY <1>2 DEF TypeOK, Recorded
<1>4. TsFresh'
  BY <1>2 DEF TypeOK, TsFresh
<1>5. SubsFresh'
  BY <1>2 DEF TypeOK, SubsFresh
<1>6. CallFresh'
  BY <1>2 DEF TypeOK, CallFresh
<1>7. PaidSeen'
  BY Zenon DEF PaidSeen
<1> QED
  BY Zenon, <1>1, <1>3, <1>4, <1>5, <1>6, <1>7

\* A payment is in the current slot and second, which no cache and no call
\* claims to have seen the end of.
LEMMA PayIInv == ASSUME NEW v \in Users PROVE IInv /\ Pay(v) => IInv'
<1> SUFFICES ASSUME IInv, Pay(v) PROVE IInv'
  BY Zenon
<1> USE DEF IInv, Pay, clock
<1> DEFINE q == [user |-> v, slot |-> now, second |-> second]
<1>1. TypeOK'
  BY DEF TypeOK
<1>2. payments' = payments \cup {q} /\ q.slot = now /\ q.second = second /\ q.user = v
  BY Zenon
<1>3. now \in Nat /\ second \in Nat
  BY Zenon DEF TypeOK
<1> HIDE DEF q
<1>4. Recorded'
  BY <1>2, <1>3 DEF Recorded
<1>5. TsFresh'
  BY <1>2, <1>3 DEF TypeOK, TsFresh
<1>6. SubsFresh'
  BY <1>2, <1>3 DEF TypeOK, SubsFresh
<1>7. CallFresh'
  BY <1>2, <1>3 DEF TypeOK, CallFresh
<1>8. PaidSeen'
  <2> SUFFICES ASSUME NEW u \in Users, call[u].pc = "Free", u \notin lapsed,
                      NEW p \in payments', p.user = u, p.slot < call[u].key
               PROVE  p.second = call[u].ts
    BY Zenon DEF PaidSeen
  <2>1. call[u].key <= now /\ call[u].key \in Nat
    BY Zenon DEF CallFresh, TypeOK
  <2>2. p # q
    BY <1>2, <1>3, <2>1
  <2> QED
    BY Zenon, <1>2, <2>2 DEF PaidSeen
<1> QED
  BY Zenon, <1>1, <1>4, <1>5, <1>6, <1>7, <1>8

\* Whoever loses the row is remembered as lapsed.
LEMMA LapseIInv == ASSUME NEW v \in Users PROVE IInv /\ Lapse(v) => IInv'
<1> SUFFICES ASSUME IInv, Lapse(v) PROVE IInv'
  BY Zenon
<1> USE DEF IInv, Lapse, clock
<1>1. TypeOK'
  BY Zenon DEF TypeOK
<1>2. Recorded'
  BY Zenon DEF Recorded
<1>3. TsFresh' /\ CallFresh'
  BY Zenon DEF TsFresh, CallFresh
<1>4. SubsFresh'
  BY Zenon DEF SubsFresh
<1>5. PaidSeen'
  BY Zenon DEF PaidSeen
<1> QED
  BY Zenon, <1>1, <1>2, <1>3, <1>4, <1>5

\* A call begins with the current slot as its key.
LEMMA BeginIInv == ASSUME NEW v \in Users PROVE IInv /\ Begin(v) => IInv'
<1> SUFFICES ASSUME IInv, Begin(v) PROVE IInv'
  BY Zenon
<1> USE DEF IInv, Begin, clock, tables
<1>1. TypeOK'
  BY Zenon DEF TypeOK
<1>2. call'[v].pc = "ts" /\ call'[v].key = now /\ now \in Nat
      /\ \A u \in Users \ {v} : call'[u] = call[u]
  BY Zenon DEF TypeOK
<1>3. Recorded' /\ TsFresh' /\ SubsFresh'
  BY Zenon DEF Recorded, TsFresh, SubsFresh
<1>4. CallFresh'
  BY <1>2 DEF CallFresh
<1>5. PaidSeen'
  BY <1>2 DEF PaidSeen
<1> QED
  BY Zenon, <1>1, <1>3, <1>4, <1>5

\* A second that is read now is not before any payment; a cached one is as
\* fresh as its slot.
LEMMA ReadTsIInv == ASSUME NEW v \in Users PROVE IInv /\ ReadTs(v) => IInv'
<1> SUFFICES ASSUME IInv, ReadTs(v) PROVE IInv'
  BY Zenon
<1> USE DEF IInv, clock, tables
<1>1. PICK p0 \in payments :
        /\ LastTs(v, p0.second)
        /\ call' = [call EXCEPT ![v] = [pc |-> "subs", key |-> @.key, ts |-> p0.second]]
  BY Zenon DEF ReadTs
<1> DEFINE s == p0.second
<1>2. /\ UNCHANGED <<now, second, payments, rows, lapsed, subs_cache>>
      /\ call[v].pc = "ts"
  BY Zenon DEF ReadTs
<1>3. s \in Nat /\ s <= second /\ second \in Nat /\ now \in Nat
  BY Zenon DEF TypeOK, Recorded
<1>4. call[v].key \in Nat /\ call[v].key <= now
  BY Zenon, <1>2 DEF TypeOK, CallFresh
<1>5. \A p \in payments : p.slot \in Nat /\ p.second \in Nat
  BY Zenon DEF TypeOK
<1> HIDE DEF s
<1>6. \A p \in payments : p.slot < call[v].key => p.second <= s
  BY Zenon, <1>1, <1>4, <1>5 DEF LastTs, LastPayment, TsFresh, s
<1>7. /\ call'[v].pc = "subs" /\ call'[v].key = call[v].key /\ call'[v].ts = s
      /\ \A u \in Users \ {v} : call'[u] = call[u]
  BY Zenon, <1>1 DEF TypeOK, s
<1>8. ts_cache' = ts_cache \/ ts_cache' = ts_cache \cup {<<call[v].key, s>>}
  BY Zenon, <1>1 DEF LastTs, s
<1>9. TypeOK'
  <2>1. [pc |-> "subs", key |-> call[v].key, ts |-> s]
          \in [pc : {"subs", "Free"}, key : Nat, ts : Nat]
    BY Zenon, <1>3, <1>4
  <2>2. call' = [call EXCEPT ![v] = [pc |-> "subs", key |-> call[v].key, ts |-> s]]
    BY Zenon, <1>1 DEF s
  <2>3. <<call[v].key, s>> \in Nat \X Nat
    BY Zenon, <1>3, <1>4
  <2> QED
    BY Zenon, <1>2, <1>8, <2>1, <2>2, <2>3 DEF TypeOK
<1>10. Recorded' /\ SubsFresh'
  BY Zenon, <1>2 DEF Recorded, SubsFresh
<1>11. TsFresh'
  <2> DEFINE n == <<call[v].key, s>>
  <2>1. n[1] = call[v].key /\ n[2] = s
    BY Zenon
  <2> HIDE DEF n
  <2>2. ts_cache' \subseteq ts_cache \cup {n}
    BY Zenon, <1>8 DEF n
  <2> QED
    BY Zenon, <1>2, <1>3, <1>4, <1>6, <2>1, <2>2 DEF TsFresh
<1>12. CallFresh'
  BY Zenon, <1>2, <1>3, <1>4, <1>6, <1>7 DEF CallFresh
<1>13. PaidSeen'
  BY <1>2, <1>7 DEF PaidSeen
<1> QED
  BY Zenon, <1>9, <1>10, <1>11, <1>12, <1>13

\* A table that is read now has everybody who paid and did not lapse; a
\* cached one has everybody who paid in a second before its key.
LEMMA ReadSubsIInv == ASSUME NEW v \in Users PROVE IInv /\ ReadSubs(v) => IInv'
<1> SUFFICES ASSUME IInv, ReadSubs(v) PROVE IInv'
  BY Zenon
<1> USE DEF IInv, clock, tables
<1>1. PICK all \in {rows} \cup {e[2] : e \in subs_cache} :
        /\ IF \E e \in subs_cache : e[1] = call[v].ts
           THEN <<call[v].ts, all>> \in subs_cache /\ UNCHANGED subs_cache
           ELSE all = rows /\ subs_cache' = subs_cache \cup {<<call[v].ts, all>>}
        /\ call' = [call EXCEPT ![v] = IF v \in all THEN Idle
                                       ELSE [pc |-> "Free", key |-> @.key, ts |-> @.ts]]
  BY Zenon DEF ReadSubs
<1>2. /\ UNCHANGED <<now, second, payments, rows, lapsed, ts_cache>>
      /\ call[v].pc = "subs"
  BY Zenon DEF ReadSubs
<1>3. /\ call[v] \in [pc : {"subs", "Free"}, key : Nat, ts : Nat]
      /\ call[v].ts <= second /\ call[v].key <= now
      /\ second \in Nat /\ now \in Nat
  BY Zenon, <1>2 DEF TypeOK, CallFresh
<1> DEFINE n == <<call[v].ts, all>>
<1>4. n[1] = call[v].ts /\ n[2] = all /\ n \in Nat \X SUBSET Users
  BY Zenon, <1>1, <1>3 DEF TypeOK
<1> HIDE DEF n
<1>5. \A p \in payments : p.second < call[v].ts => p.user \in all \cup lapsed
  <2>1. CASE \E e \in subs_cache : e[1] = call[v].ts
    BY Zenon, <1>1, <1>4, <2>1 DEF SubsFresh, n
  <2>2. CASE ~ \E e \in subs_cache : e[1] = call[v].ts
    BY Zenon, <1>1, <2>2 DEF Recorded
  <2> QED
    BY Zenon, <2>1, <2>2
<1>6. subs_cache' \subseteq subs_cache \cup {n}
  BY Zenon, <1>1 DEF n
<1>7. \A u \in Users \ {v} : call'[u] = call[u]
  BY Zenon, <1>1 DEF TypeOK
<1>8. call'[v] = IF v \in all THEN Idle
                 ELSE [pc |-> "Free", key |-> call[v].key, ts |-> call[v].ts]
  BY Zenon, <1>1 DEF TypeOK
<1>9. v \in all => call'[v].pc = "idle"
  BY <1>8 DEF Idle
<1>10. v \notin all => call'[v].pc = "Free" /\ call'[v].key = call[v].key
                       /\ call'[v].ts = call[v].ts
  BY <1>3, <1>8
<1>11. TypeOK'
  <2>1. call'[v] \in [pc : {"idle"}] \cup [pc : {"subs", "Free"}, key : Nat, ts : Nat]
    BY <1>3, <1>8 DEF Idle
  <2>2. call' \in [Users -> [pc : {"idle"}] \cup [pc : {"ts"}, key : Nat]
                            \cup [pc : {"subs", "Free"}, key : Nat, ts : Nat]]
    BY Zenon, <1>1, <1>7, <2>1 DEF TypeOK
  <2> QED
    BY Zenon, <1>2, <1>4, <1>6, <2>2 DEF TypeOK
<1>12. Recorded' /\ TsFresh'
  BY Zenon, <1>2 DEF Recorded, TsFresh
<1>13. SubsFresh'
  BY Zenon, <1>2, <1>3, <1>4, <1>5, <1>6 DEF SubsFresh
<1>14. CallFresh'
  BY Zenon, <1>2, <1>7, <1>9, <1>10 DEF CallFresh
<1>15. PaidSeen'
  <2> SUFFICES ASSUME v \notin all, v \notin lapsed,
                      NEW p \in payments, p.user = v, p.slot < call[v].key
               PROVE  p.second = call[v].ts
    BY <1>2, <1>7, <1>9, <1>10 DEF PaidSeen
  <2>1. p.second \in Nat /\ call[v].ts \in Nat
    BY Zenon, <1>3 DEF TypeOK
  <2>2. p.second <= call[v].ts
    BY Zenon, <1>2 DEF CallFresh
  <2>3. ~(p.second < call[v].ts)
    BY Zenon, <1>5
  <2> QED
    BY <2>1, <2>2, <2>3
<1> QED
  BY Zenon, <1>11, <1>12, <1>13, <1>14, <1>15

\* Forgetting an answer or a cache entry breaks nothing.
LEMMA ForgetIInv == ASSUME NEW v \in Users PROVE IInv /\ (Return(v) \/ Evict) => IInv'
<1> USE DEF IInv, clock, tables
<1>1. ASSUME IInv, Return(v) PROVE IInv'
  <2>1. UNCHANGED <<now, second, payments, rows, lapsed, ts_cache, subs_cache>>
        /\ call' = [call EXCEPT ![v] = [pc |-> "idle"]]
    BY Zenon, <1>1 DEF Return, Idle
  <2>2. call'[v].pc = "idle" /\ \A u \in Users \ {v} : call'[u] = call[u]
    BY Zenon, <1>1, <2>1 DEF TypeOK
  <2>3. TypeOK'
    BY Zenon, <1>1, <2>1 DEF TypeOK
  <2>4. Recorded' /\ TsFresh' /\ SubsFresh'
    BY Zenon, <1>1, <2>1 DEF Recorded, TsFresh, SubsFresh
  <2>5. CallFresh' /\ PaidSeen'
    BY <1>1, <2>1, <2>2 DEF CallFresh, PaidSeen
  <2> QED
    BY Zenon, <2>3, <2>4, <2>5
<1>2. ASSUME IInv, Evict PROVE IInv'
  <2>1. /\ UNCHANGED <<now, second, payments, rows, lapsed, call>>
        /\ ts_cache' \subseteq ts_cache /\ subs_cache' \subseteq subs_cache
    BY Zenon, <1>2 DEF Evict
  <2>2. TypeOK'
    BY Zenon, <1>2, <2>1 DEF TypeOK
  <2>3. Recorded' /\ CallFresh' /\ PaidSeen'
    BY Zenon, <1>2, <2>1 DEF Recorded, CallFresh, PaidSeen
  <2>4. TsFresh' /\ SubsFresh'
    BY Zenon, <1>2, <2>1 DEF TsFresh, SubsFresh
  <2> QED
    BY Zenon, <2>2, <2>3, <2>4
<1> QED
  BY Zenon, <1>1, <1>2

\* Every step of the broker, of the payment service and of time keeps the
\* invariant.
LEMMA NextIInv == IInv /\ [Next]_vars => IInv'
<1> SUFFICES ASSUME IInv, [Next]_vars PROVE IInv'
  BY Zenon
<1>1. CASE Tick
  BY Zenon, <1>1, TickIInv
<1>2. CASE Evict
  <2>1. CASE Users = {}
    <3>1. /\ UNCHANGED <<now, second, payments, rows, lapsed, call>>
          /\ ts_cache' \subseteq ts_cache /\ subs_cache' \subseteq subs_cache
      BY Zenon, <1>2 DEF Evict, clock, tables
    <3> QED
      BY Zenon, <3>1, <2>1 DEF IInv, TypeOK, Recorded, TsFresh, SubsFresh, CallFresh, PaidSeen
  <2>2. CASE Users # {}
    BY Zenon, <1>2, <2>2, ForgetIInv
  <2> QED
    BY Zenon, <2>1, <2>2
<1>3. CASE \E u \in Users : \/ Pay(u) \/ Lapse(u)
                            \/ Begin(u) \/ ReadTs(u) \/ ReadSubs(u) \/ Return(u)
  BY Zenon, <1>3, PayIInv, LapseIInv, BeginIInv, ReadTsIInv, ReadSubsIInv, ForgetIInv
<1>4. CASE UNCHANGED vars
  BY Zenon, <1>4 DEF vars, clock, tables, IInv, TypeOK, Recorded, TsFresh, SubsFresh,
              CallFresh, PaidSeen
<1> QED
  BY Zenon, <1>1, <1>2, <1>3, <1>4 DEF Next

----------------------------------------------------------------------------

\* A user who paid before the call and did not lapse is called Free only when
\* the newest known payment fell into the second of their own, whatever the
\* caches of get_subscription_expiry held and whoever else was asking.
THEOREM PaidIsSeen == Spec => []PaidSeen
<1>1. IInv => PaidSeen
  BY Zenon DEF IInv
<1> QED
  BY <1>1, InitIInv, NextIInv, PTL DEF Spec

----------------------------------------------------------------------------
(* SosistabListener.                                                       *)

ListenerTypes ==
  /\ time \in Nat /\ last \in [Listener!Conns -> Int]
  /\ server \in [Listener!Conns -> {"none", "reading", "sending", "up", "err"}]
  /\ \E S : bucket \in [S -> Int]

\* What was let through within the expiry time is in the bucket, entered when
\* it was; when the listener has ended and lost its bucket nobody is read.
Remembered ==
  /\ open => \A h \in Listener!Conns : last[h] # -1 /\ time - last[h] < Listener!EXPIRY =>
                                         h \in DOMAIN bucket /\ bucket[h] = last[h]
  /\ ~open => \A c \in Listener!Conns : server[c] # "reading"

ListenerInv == ListenerTypes /\ Remembered

\* The invariant of the listener holds in the initial states.
LEMMA ListenerInit == Listener!Init => ListenerInv
<1> SUFFICES ASSUME Listener!Init PROVE ListenerInv
  BY Zenon
<1>1. bucket \in [{} -> Int]
  BY Zenon DEF Listener!Init
<1>2. ListenerTypes
  <2>1. last \in [Listener!Conns -> Int] /\ time \in Nat
    BY DEF Listener!Init
  <2>2. server \in [Listener!Conns -> {"none", "reading", "sending", "up", "err"}]
    BY Zenon DEF Listener!Init
  <2> QED
    BY Zenon, <1>1, <2>1, <2>2 DEF ListenerTypes
<1>3. Remembered
  BY Zenon DEF Listener!Init, Remembered
<1> QED
  BY Zenon, <1>2, <1>3 DEF ListenerInv

\* Inserting a handshake forgets none that is not expired.
LEMMA InsertRemembers ==
  ASSUME ListenerInv, NEW h, Listener!Insert(h)
  PROVE  /\ \E S : bucket' \in [S -> Int]
         /\ 0 < Listener!EXPIRY => h \in DOMAIN bucket' /\ bucket'[h] = time
         /\ \A k \in DOMAIN bucket \ {h} : time - bucket[k] < Listener!EXPIRY =>
              k \in DOMAIN bucket' /\ bucket'[k] = bucket[k]
<1> DEFINE b == [k \in DOMAIN bucket \cup {h} |-> IF k = h THEN time ELSE bucket[k]]
<1>1. bucket' = b \/ bucket' = Listener!Cleanup(b)
  BY Zenon DEF Listener!Insert
<1>2. /\ b \in [DOMAIN bucket \cup {h} -> Int] /\ b[h] = time /\ h \in DOMAIN b
      /\ \A k \in DOMAIN bucket \ {h} : k \in DOMAIN b /\ b[k] = bucket[k]
  BY DEF ListenerInv, ListenerTypes
<1> HIDE DEF b
<1>3. CASE bucket' = b
  BY Zenon, <1>2, <1>3
<1>4. CASE bucket' = Listener!Cleanup(b)
  <2> DEFINE S == {k \in DOMAIN b : time - b[k] < Listener!EXPIRY}
  <2>1. bucket' = [k \in S |-> b[k]]
    BY Zenon, <1>4 DEF Listener!Cleanup
  <2>2. bucket' \in [S -> Int]
    BY Zenon, <1>2, <2>1
  <2>3. time \in Nat /\ time - b[h] = 0
    BY <1>2 DEF ListenerInv, ListenerTypes
  <2> QED
    BY Zenon, <1>2, <2>1, <2>2, <2>3
<1> QED
  BY Zenon, <1>1, <1>3, <1>4

\* A handshake that is let through is remembered, and one let through again is
\* older than the expiry time.
LEMMA VerifyRemembers ==
  ASSUME NEW c \in Listener!Conns
  PROVE  ListenerInv /\ Listener!Verify(c) =>
           /\ ListenerInv'
           /\ \A h \in Listener!Conns : last'[h] # last[h] /\ last[h] # -1 =>
                last'[h] - last[h] >= Listener!EXPIRY
<1> SUFFICES ASSUME ListenerInv, Listener!Verify(c)
             PROVE  /\ ListenerInv'
                    /\ \A h \in Listener!Conns : last'[h] # last[h] /\ last[h] # -1 =>
                         last'[h] - last[h] >= Listener!EXPIRY
  BY Zenon
<1>1. time' = time /\ open' = open /\ time \in Nat /\ Listener!EXPIRY \in Nat
  BY WaitAssumption DEF Listener!Verify, ListenerInv, ListenerTypes, Listener!EXPIRY
<1>2. open
  BY Zenon DEF ListenerInv, Remembered, Listener!Verify
<1>3. server' \in [Listener!Conns -> {"none", "reading", "sending", "up", "err"}]
  BY Zenon DEF Listener!Verify, Listener!Moves, ListenerInv, ListenerTypes
<1>4. CASE UNCHANGED <<bucket, last>>
  BY Zenon, <1>1, <1>2, <1>3, <1>4 DEF ListenerInv, ListenerTypes, Remembered
<1>5. CASE /\ hello[c].of \notin DOMAIN bucket /\ Listener!Insert(hello[c].of)
           /\ last' = [last EXCEPT ![hello[c].of] = time]
  <2> DEFINE n == hello[c].of
  <2>1. /\ \E S : bucket' \in [S -> Int]
        /\ 0 < Listener!EXPIRY => n \in DOMAIN bucket' /\ bucket'[n] = time
        /\ \A k \in DOMAIN bucket \ {n} : time - bucket[k] < Listener!EXPIRY =>
             k \in DOMAIN bucket' /\ bucket'[k] = bucket[k]
    BY Zenon, <1>5, InsertRemembers
  <2> HIDE DEF n
  <2>2. /\ last' \in [Listener!Conns -> Int] /\ last \in [Listener!Conns -> Int]
        /\ \A h \in Listener!Conns : last'[h] = IF h = n THEN time ELSE last[h]
    <3>1. last' = [last EXCEPT ![n] = time] /\ last \in [Listener!Conns -> Int] /\ time \in Int
      BY <1>1, <1>5 DEF ListenerInv, ListenerTypes, n
    <3> QED
      BY Zenon, <3>1
  <2>3. ListenerTypes'
    BY Zenon, <1>1, <1>3, <2>1, <2>2 DEF ListenerTypes
  <2>4. ASSUME NEW h \in Listener!Conns, last'[h] # -1, time - last'[h] < Listener!EXPIRY
        PROVE  h \in DOMAIN bucket' /\ bucket'[h] = last'[h]
    <3>1. CASE h = n
      BY <1>1, <2>1, <2>2, <2>4, <3>1
    <3>2. CASE h # n
      <4>1. h \in DOMAIN bucket /\ bucket[h] = last[h] /\ last'[h] = last[h]
        BY Zenon, <1>2, <2>2, <2>4, <3>2 DEF ListenerInv, Remembered
      <4> QED
        BY Zenon, <2>1, <2>4, <3>2, <4>1
    <3> QED
      BY Zenon, <3>1, <3>2
  <2>5. ASSUME NEW h \in Listener!Conns, last'[h] # last[h], last[h] # -1
        PROVE  last'[h] - last[h] >= Listener!EXPIRY
    <3>1. h = n /\ last'[h] = time /\ last[h] \in Int
      BY Zenon, <2>2, <2>5
    <3>2. ~(time - last[h] < Listener!EXPIRY)
      BY Zenon, <1>2, <1>5, <2>5, <3>1 DEF ListenerInv, Remembered, n
    <3> QED
      BY <1>1, <3>1, <3>2
  <2> QED
    BY ZenonT(30), <1>1, <1>2, <2>3, <2>4, <2>5 DEF ListenerInv, Remembered
<1> QED
  BY Zenon, <1>4, <1>5 DEF Listener!Verify, Listener!dedup

\* Time passes, the listener ends, or connections move.
LEMMA QuietListener ==
  ASSUME ListenerInv,
         \/ Listener!Tick \/ Listener!ListenerEnds \/ UNCHANGED Listener!vars
         \/ \E c \in Listener!Conns : Listener!Dial(c) \/ Listener!Accept(c) \/ Listener!SendPipe(c)
         \/ \E c, d \in Listener!Conns : Listener!Repeat(c, d)
  PROVE  ListenerInv' /\ last' = last
<1>1. CASE Listener!Tick
  <2>1. time \in Nat /\ time' = time + 1 /\ UNCHANGED <<bucket, last, open, server>>
    BY Zenon, <1>1 DEF Listener!Tick, Listener!dedup, ListenerInv, ListenerTypes
  <2>2. Listener!EXPIRY \in Nat /\ last \in [Listener!Conns -> Int]
    BY WaitAssumption DEF Listener!EXPIRY, ListenerInv, ListenerTypes
  <2>3. ListenerTypes'
    BY <2>1 DEF ListenerInv, ListenerTypes
  <2>4. ASSUME NEW h \in Listener!Conns, time' - last[h] < Listener!EXPIRY
        PROVE  time - last[h] < Listener!EXPIRY
    <3>1. last[h] \in Int
      BY Zenon, <2>2
    <3> QED
      BY <2>1, <2>2, <2>4, <3>1
  <2> QED
    BY Zenon, <2>1, <2>3, <2>4 DEF ListenerInv, Remembered
<1>2. CASE Listener!ListenerEnds
  <2>1. /\ open' = FALSE /\ UNCHANGED <<time, last>> /\ bucket' \in [{} -> Int]
        /\ server' \in [Listener!Conns -> {"up", "err"}]
    BY Zenon, <1>2 DEF Listener!ListenerEnds
  <2> QED
    BY Zenon, <2>1 DEF ListenerInv, ListenerTypes, Remembered
<1>3. ASSUME UNCHANGED <<time, bucket, last, open>>,
             server' \in [Listener!Conns -> {"none", "reading", "sending", "up", "err"}],
             \A c \in Listener!Conns : server'[c] = "reading" => open \/ server[c] = "reading"
      PROVE  ListenerInv' /\ last' = last
  BY Zenon, <1>3 DEF ListenerInv, ListenerTypes, Remembered
<1>4. ASSUME NEW c \in Listener!Conns, Listener!Dial(c) PROVE ListenerInv' /\ last' = last
  BY Zenon, <1>3, <1>4 DEF Listener!Dial, Listener!dedup, ListenerInv, ListenerTypes
<1>5. ASSUME NEW c \in Listener!Conns, NEW d \in Listener!Conns, Listener!Repeat(c, d)
      PROVE  ListenerInv' /\ last' = last
  BY Zenon, <1>3, <1>5 DEF Listener!Repeat, Listener!dedup, ListenerInv, ListenerTypes
<1>6. ASSUME NEW c \in Listener!Conns, Listener!Accept(c) \/ Listener!SendPipe(c)
      PROVE  ListenerInv' /\ last' = last
  <2>1. /\ UNCHANGED <<time, bucket, last, open>>
        /\ \/ open /\ server' = [server EXCEPT ![c] = "reading"]
           \/ server' = [server EXCEPT ![c] = "up"]
    BY Zenon, <1>6 DEF Listener!Accept, Listener!SendPipe, Listener!Moves, Listener!dedup
  <2>2. server \in [Listener!Conns -> {"none", "reading", "sending", "up", "err"}]
    BY Zenon DEF ListenerInv, ListenerTypes
  <2> QED
    BY Zenon, <1>3, <2>1, <2>2
<1>7. CASE UNCHANGED Listener!vars
  BY Zenon, <1>3, <1>7 DEF Listener!vars, ListenerInv, ListenerTypes
<1> QED
  BY Zenon, <1>1, <1>2, <1>4, <1>5, <1>6, <1>7

\* A handshake is let through again only after the full expiry time, however
\* the connections that carry it interleave and whenever the bucket is cleaned
\* up, for any expiry time and any clocks (Dedup::insert, listen_loop).
THEOREM HandshakesApart == Listener!Spec => RepeatsApart
<1>1. ASSUME ListenerInv, [Listener!Next]_(Listener!vars)
      PROVE  /\ ListenerInv'
             /\ \A h \in Listener!Conns : last'[h] # last[h] /\ last[h] # -1 =>
                  last'[h] - last[h] >= Listener!EXPIRY
  BY Zenon, <1>1, QuietListener, VerifyRemembers DEF Listener!Next
<1> QED
  BY <1>1, ListenerInit, PTL DEF Listener!Spec, RepeatsApart, Listener!RepeatsApart

----------------------------------------------------------------------------
(* B2e.                                                                    *)

Muxes == Bridge!Muxes
Procs == Bridge!Procs
Requests == Visitors \cup {"none"}

WorkerPlaces == {"none", "dial", "sleep", "recv", "open"}
TaskPlaces == {"none", "accept", "send", "ended"}
ProcPlaces == {"none", "run", "ended"}
BridgeTypes ==
  /\ worker \in [Workers -> [at : WorkerPlaces, mux : Nat, req : Requests]]
  /\ mux \in [Muxes -> {"none", "up", "dead"}] /\ inbox \in [Muxes -> Seq(Requests)] /\ queue \in Seq(Requests)
  /\ task \in [Muxes -> [at : TaskPlaces, stream : Requests, proc : Nat]]
  /\ proc \in [Procs -> [at : ProcPlaces, chan : Seq(Requests)]]
  /\ deaths \in Nat /\ lost \in Nat

\* What a dead session costs: each worker that is live holds a session of its own, and
\* what was lost was lost with a dead session that no worker holds any more.
Holding == {"recv", "open"}
Holds(wk, m) == \E w \in Workers : wk[w].at \in Holding /\ wk[w].mux = m
Dead(mx) == {m \in Muxes : mx[m] = "dead"}
Released(wk, mx) == {m \in Dead(mx) : ~Holds(wk, m)}
Own ==
  \A w \in Workers : worker[w].at \in Holding =>
    /\ worker[w].mux \in Muxes /\ mux[worker[w].mux] # "none"
    /\ \A v \in Workers : worker[v].at \in Holding /\ worker[v].mux = worker[w].mux => v = w
DeathsCounted == deaths = Cardinality(Dead(mux)) /\ lost <= Cardinality(Released(worker, mux))

\* The exit's tasks: whoever holds a sender finds its process running.
SendersRun ==
  /\ table # 0 => table \in Procs /\ proc[table].at = "run"
  /\ \A m \in Muxes : task[m].at = "send" => task[m].proc \in Procs /\ proc[task[m].proc].at = "run"

PoolInv == Own /\ DeathsCounted
BridgeInv == BridgeTypes /\ PoolInv /\ SendersRun

\* There are finitely many sessions,
LEMMA MuxesFinite == Muxes \in SUBSET Nat /\ IsFiniteSet(Muxes)
<1>1. Bridge!Cardinality(Workers) = Cardinality(Workers)
    BY Zenon DEF Bridge!Cardinality, Cardinality
<1>2. Cardinality(Workers) \in Nat
    BY Zenon, BridgeAssumption, FS_CardinalityType
<1>3. Muxes = 1 .. Cardinality(Workers) + MaxFaults
    BY Zenon, <1>1 DEF Muxes, Bridge!Muxes
<1>4. Cardinality(Workers) + MaxFaults \in Int /\ 1 \in Int /\ Muxes \in SUBSET Nat
    BY <1>2, <1>3, BridgeAssumption
<1>5. QED BY Zenon, <1>3, <1>4, FS_Interval

\* and so finitely many that died.
LEMMA DeadFinite ==
  ASSUME NEW wk, NEW mx
  PROVE  /\ IsFiniteSet(Dead(mx)) /\ IsFiniteSet(Released(wk, mx))
         /\ Cardinality(Dead(mx)) \in Nat /\ Cardinality(Released(wk, mx)) \in Nat
         /\ Cardinality(Released(wk, mx)) <= Cardinality(Dead(mx))
<1>1. Dead(mx) \subseteq Muxes /\ Released(wk, mx) \subseteq Dead(mx)
    BY Zenon DEF Dead, Released
<1>2. QED BY Zenon, <1>1, MuxesFinite, FS_Subset, FS_CardinalityType

\* The invariant of bridge and exit holds in the initial states.
LEMMA BridgeInit == Bridge!Init => BridgeInv
<1> SUFFICES ASSUME Bridge!Init PROVE BridgeInv
    BY Zenon
<1>1. BridgeTypes
  <2>1. <<>> \in Seq(Requests) /\ "none" \in Requests /\ 0 \in Nat
      BY DEF Requests
  <2>2. /\ worker = [w \in Workers |-> [at |-> "none", mux |-> 0, req |-> "none"]]
        /\ task = [m \in Muxes |-> [at |-> "none", stream |-> "none", proc |-> 0]]
        /\ mux = [m \in Muxes |-> "none"] /\ inbox = [m \in Muxes |-> <<>>] /\ queue = <<>>
        /\ proc = [p \in Procs |-> [at |-> "none", chan |-> <<>>]] /\ deaths = 0 /\ lost = 0
      BY Zenon DEF Bridge!Init, Muxes, Procs, Bridge!NoConn
  <2>3. mux \in [Muxes -> {"none", "up", "dead"}]
      BY Zenon, <2>1, <2>2 DEF WorkerPlaces, TaskPlaces, ProcPlaces
  <2>4. inbox \in [Muxes -> Seq(Requests)]
      BY Zenon, <2>1, <2>2 DEF WorkerPlaces, TaskPlaces, ProcPlaces
  <2>5. worker \in [Workers -> [at : WorkerPlaces, mux : Nat, req : Requests]]
      BY Zenon, <2>1, <2>2 DEF WorkerPlaces, TaskPlaces, ProcPlaces
  <2>6. task \in [Muxes -> [at : TaskPlaces, stream : Requests, proc : Nat]]
      BY Zenon, <2>1, <2>2 DEF WorkerPlaces, TaskPlaces, ProcPlaces
  <2>7. proc \in [Procs -> [at : ProcPlaces, chan : Seq(Requests)]]
      BY Zenon, <2>1, <2>2 DEF WorkerPlaces, TaskPlaces, ProcPlaces
  <2>8. QED BY ZenonT(30), <2>1, <2>2, <2>3, <2>4, <2>5, <2>6, <2>7 DEF BridgeTypes
<1>2. Own /\ SendersRun
    BY Zenon DEF Bridge!Init, Own, SendersRun, Muxes, Holding
<1>3. Dead(mux) = {} /\ Released(worker, mux) = {}
    BY Zenon DEF Bridge!Init, Dead, Released, Muxes
<1>4. DeathsCounted
  <2>1. Cardinality({}) = 0
      BY Zenon, FS_EmptySet
  <2>2. deaths = 0 /\ lost = 0
      BY Zenon DEF Bridge!Init
  <2>3. QED BY <1>3, <2>1, <2>2 DEF DeathsCounted
<1>5. QED BY Zenon, <1>1, <1>2, <1>4 DEF BridgeInv, PoolInv

\* The steps of B2e by what they do to the state the invariant is about.
ExitSame == UNCHANGED <<inbox, task, table, proc>>
Same == UNCHANGED <<worker, mux, deaths, lost, queue>> /\ ExitSame

\* Where a worker takes no session, holders only become fewer.
Fewer(wk, nw) ==
  \A w \in Workers : nw[w].at \in Holding => wk[w].at \in Holding /\ nw[w].mux = wk[w].mux
PoolSame == UNCHANGED <<mux, deaths, lost>> /\ Fewer(worker, worker')

\* A stream goes into its process's channel; a session ends, with or without its task.
Sent(m) ==
  /\ task[m].at = "send"
  /\ proc' = [proc EXCEPT ![task[m].proc].chan = Append(@, task[m].stream)]
  /\ task' = [task EXCEPT ![m] = [at |-> "accept", stream |-> "none", proc |-> 0]]
  /\ UNCHANGED <<worker, mux, inbox, queue, deaths, lost, table>>
Ended(m) ==
  /\ mux' = [mux EXCEPT ![m] = "dead"] /\ inbox' = [inbox EXCEPT ![m] = <<>>]
  /\ deaths' = IF mux[m] = "dead" THEN deaths ELSE deaths + 1
  /\ \/ UNCHANGED task
     \/ task' = [task EXCEPT ![m] = [at |-> "ended", stream |-> "none", proc |-> 0]]
  /\ UNCHANGED <<worker, queue, lost, table, proc>>

\* The steps of a bridge and its exit, one by one.
LEMMA Steps ==
  ASSUME [Bridge!Next]_(Bridge!vars)
  PROVE  \/ Same
         \/ \E c \in Visitors : Bridge!FindPool(c) \/ Bridge!Request(c)
         \/ \E w \in Workers : \/ Bridge!DialOk(w) \/ Bridge!DialFails(w) \/ Bridge!Wake(w)
                               \/ Bridge!Take(w) \/ Bridge!OpenOk(w) \/ Bridge!OpenErr(w)
         \/ \E m \in Muxes : Bridge!AcceptStream(m) \/ Sent(m) \/ Ended(m)
         \/ Bridge!Evict
         \/ \E p \in Procs : Bridge!Serve(p) \/ Bridge!ProcEnds(p)
<1> USE DEF Same, ExitSame, Bridge!exit
<1>1. CASE UNCHANGED Bridge!vars
    BY Zenon, <1>1 DEF Bridge!vars
<1>2. ASSUME NEW c \in Visitors, Bridge!Accept(c) \/ Bridge!Connection(c) \/ Bridge!Close(c)
      PROVE  Same \/ Bridge!FindPool(c) \/ Bridge!Request(c)
  <2>1. Bridge!Accept(c) => Same
      BY Zenon DEF Bridge!Accept
  <2>2. Bridge!LookupOk(c) => Same
      BY Zenon DEF Bridge!LookupOk
  <2>3. Bridge!Enter(c) => Same
      BY Zenon DEF Bridge!Enter
  <2>4. Bridge!TimedOut(c) => Same
      BY Zenon DEF Bridge!TimedOut
  <2>5. Bridge!Close(c) => Same
      BY Zenon DEF Bridge!Close
  <2>6. QED BY Zenon, <1>2, <2>1, <2>2, <2>3, <2>4, <2>5 DEF Bridge!Connection
<1>3. Bridge!ListenerEnds => Same
    BY Zenon DEF Bridge!ListenerEnds
<1>4. ASSUME NEW m \in Muxes, Bridge!MuxDies(m) \/ Bridge!Session(m)
      PROVE  Bridge!AcceptStream(m) \/ Sent(m) \/ Ended(m)
  <2>1. Bridge!MuxDies(m) => Ended(m)
      BY Zenon DEF Bridge!MuxDies, Ended
  <2>2. Bridge!Abandon(m) => Ended(m)
      BY Zenon DEF Bridge!Abandon, Ended, Bridge!NoConn
  <2>3. Bridge!SendStream(m) => Sent(m) \/ Bridge!Abandon(m)
      BY Zenon DEF Bridge!SendStream, Sent, Bridge!NoConn, Bridge!bridge
  <2>4. QED BY Zenon, <1>4, <2>1, <2>2, <2>3 DEF Bridge!Session, Bridge!BadMetadata, Bridge!TaskEnds
<1>5. QED
    BY ZenonT(30), <1>1, <1>2, <1>3, <1>4 DEF Bridge!Next, Bridge!Worker, Bridge!Process, Muxes, Procs

\* Requests in a queue, after a push and after a pop.
LEMMA Queues ==
  ASSUME NEW q \in Seq(Requests)
  PROVE  /\ \A r \in Requests : Append(q, r) \in Seq(Requests)
         /\ q # <<>> => Head(q) \in Requests /\ Tail(q) \in Seq(Requests)
  OBVIOUS

\* Every step keeps the types.
LEMMA TypesStep ==
  ASSUME BridgeTypes, [Bridge!Next]_(Bridge!vars)
  PROVE  BridgeTypes'
<1> USE DEF BridgeTypes
<1>1. CASE Same
    BY ZenonT(30), <1>1 DEF Same, ExitSame
<1>2. ASSUME NEW c \in Visitors, Bridge!FindPool(c) PROVE BridgeTypes'
  <2>1. ExitSame /\ UNCHANGED <<mux, deaths, lost, queue>>
      BY Zenon, <1>2 DEF Bridge!FindPool, ExitSame, Bridge!exit
  <2>2. worker' \in [Workers -> [at : WorkerPlaces, mux : Nat, req : Requests]]
      BY ZenonT(30), <1>2 DEF Bridge!FindPool, WorkerPlaces
  <2>3. QED BY Zenon, <2>1, <2>2 DEF ExitSame
<1>3. ASSUME NEW c \in Visitors, Bridge!Request(c) PROVE BridgeTypes'
  <2>1. ExitSame /\ UNCHANGED <<worker, mux, deaths, lost>>
      BY Zenon, <1>3 DEF Bridge!Request, ExitSame, Bridge!exit
  <2>2. queue' \in Seq(Requests)
      BY Zenon, <1>3, Queues DEF Bridge!Request, Requests
  <2>3. QED BY Zenon, <2>1, <2>2 DEF ExitSame
<1>4. ASSUME NEW w \in Workers, Bridge!DialOk(w) PROVE BridgeTypes'
  <2>1. PICK m \in Muxes :
          /\ mux' = [mux EXCEPT ![m] = "up"]
          /\ worker' = [worker EXCEPT ![w] = [at |-> "recv", mux |-> m, req |-> "none"]]
          /\ task' = [task EXCEPT ![m].at = "accept"]
      BY Zenon, <1>4 DEF Bridge!DialOk, Muxes, Bridge!NoConn
  <2>2. m \in Nat
      BY Zenon, MuxesFinite
  <2>3. worker' \in [Workers -> [at : WorkerPlaces, mux : Nat, req : Requests]]
      BY Zenon, <2>1, <2>2 DEF WorkerPlaces, Requests
  <2>4. task' \in [Muxes -> [at : TaskPlaces, stream : Requests, proc : Nat]]
      BY ZenonT(30), <2>1 DEF TaskPlaces
  <2>5. UNCHANGED <<inbox, queue, proc, deaths, lost>>
      BY Zenon, <1>4 DEF Bridge!DialOk
  <2>6. QED BY Zenon, <2>1, <2>3, <2>4, <2>5
<1>5. ASSUME NEW w \in Workers,
             Bridge!DialFails(w) \/ Bridge!Wake(w) \/ Bridge!Take(w) \/ Bridge!OpenErr(w)
      PROVE  BridgeTypes'
  <2>1. ExitSame /\ UNCHANGED <<mux, deaths>>
      BY Zenon, <1>5 DEF Bridge!DialFails, Bridge!Wake, Bridge!Take, Bridge!OpenErr, ExitSame, Bridge!exit
  <2>2. lost' \in Nat
      BY <1>5 DEF Bridge!DialFails, Bridge!Wake, Bridge!Take, Bridge!OpenErr, Bridge!Lose
  <2>3. queue' \in Seq(Requests) /\ (queue # <<>> => Head(queue) \in Requests)
      BY Zenon, <1>5, Queues DEF Bridge!DialFails, Bridge!Wake, Bridge!Take, Bridge!OpenErr
  <2>4. worker' \in [Workers -> [at : WorkerPlaces, mux : Nat, req : Requests]]
    <3> USE DEF WorkerPlaces
    <3>1. CASE Bridge!DialFails(w)
        BY ZenonT(30), <3>1 DEF Bridge!DialFails
    <3>2. CASE Bridge!Wake(w)
        BY ZenonT(30), <3>2 DEF Bridge!Wake
    <3>3. CASE Bridge!Take(w)
      <4>1. \A r \in Requests : [worker EXCEPT ![w].at = "open", ![w].req = r]
              \in [Workers -> [at : WorkerPlaces, mux : Nat, req : Requests]]
          BY ZenonT(30)
      <4>2. queue # <<>> /\ worker' = [worker EXCEPT ![w].at = "open", ![w].req = Head(queue)]
          BY Zenon, <3>3 DEF Bridge!Take
      <4>3. QED BY Zenon, <2>3, <4>1, <4>2
    <3>4. CASE Bridge!OpenErr(w)
        BY Zenon, <3>4 DEF Bridge!OpenErr, Bridge!NoConn, Requests
    <3>5. QED BY Zenon, <1>5, <3>1, <3>2, <3>3, <3>4
  <2>5. QED BY ZenonT(30), <2>1, <2>2, <2>3, <2>4 DEF ExitSame
<1>6. ASSUME NEW w \in Workers, Bridge!OpenOk(w) PROVE BridgeTypes'
  <2>1. UNCHANGED <<mux, deaths, lost, queue, task, proc>>
      BY Zenon, <1>6 DEF Bridge!OpenOk, Bridge!exit
  <2>2. worker' \in [Workers -> [at : WorkerPlaces, mux : Nat, req : Requests]]
    <3>1. worker' = [worker EXCEPT ![w].at = "recv", ![w].req = "none"]
        BY Zenon, <1>6 DEF Bridge!OpenOk, Bridge!NoConn
    <3>2. "none" \in Requests /\ "recv" \in WorkerPlaces
        BY Zenon DEF Requests, WorkerPlaces
    <3>3. QED BY ZenonT(30), <3>1, <3>2
  <2>3. inbox' \in [Muxes -> Seq(Requests)]
      BY ZenonT(30), <1>6, Queues DEF Bridge!OpenOk
  <2>4. QED BY Zenon, <2>1, <2>2, <2>3
<1>7. ASSUME NEW m \in Muxes, Ended(m) PROVE BridgeTypes'
  <2>1. <<>> \in Seq(Requests) /\ "none" \in Requests /\ "ended" \in TaskPlaces /\ 0 \in Nat
      BY DEF Requests, TaskPlaces
  <2>2. deaths' \in Nat
      BY <1>7 DEF Ended
  <2>3. mux' \in [Muxes -> {"none", "up", "dead"}] /\ inbox' \in [Muxes -> Seq(Requests)]
      BY Zenon, <1>7, <2>1 DEF Ended
  <2>4. task' \in [Muxes -> [at : TaskPlaces, stream : Requests, proc : Nat]]
    <3>1. CASE UNCHANGED task
        BY Zenon, <3>1
    <3>2. CASE task' = [task EXCEPT ![m] = [at |-> "ended", stream |-> "none", proc |-> 0]]
        BY Zenon, <2>1, <3>2
    <3>3. QED BY Zenon, <1>7, <3>1, <3>2 DEF Ended
  <2>5. QED BY Zenon, <1>7, <2>2, <2>3, <2>4 DEF Ended
<1>8. ASSUME NEW m \in Muxes, Bridge!AcceptStream(m) PROVE BridgeTypes'
  <2>1. PICK p \in Procs :
          /\ proc' = [proc EXCEPT ![p].at = "run"]
          /\ task' = [task EXCEPT ![m] = [at |-> "send", stream |-> Head(inbox[m]), proc |-> p]]
      BY Zenon, <1>8 DEF Bridge!AcceptStream, Procs
  <2>2. inbox' = [inbox EXCEPT ![m] = Tail(@)] /\ inbox[m] # <<>>
      BY Zenon, <1>8 DEF Bridge!AcceptStream
  <2>3. inbox' \in [Muxes -> Seq(Requests)] /\ Head(inbox[m]) \in Requests
      BY Zenon, <2>2, Queues
  <2>4. task' \in [Muxes -> [at : TaskPlaces, stream : Requests, proc : Nat]]
      BY <2>1, <2>3 DEF TaskPlaces, Procs, Bridge!Procs
  <2>5. proc' \in [Procs -> [at : ProcPlaces, chan : Seq(Requests)]]
      BY ZenonT(30), <2>1 DEF ProcPlaces
  <2>6. UNCHANGED <<worker, mux, queue, deaths, lost>>
      BY Zenon, <1>8 DEF Bridge!AcceptStream, Bridge!bridge
  <2>7. QED BY ZenonT(30), <2>3, <2>4, <2>5, <2>6
<1>9. ASSUME NEW m \in Muxes, Sent(m) PROVE BridgeTypes'
  <2>1. "none" \in Requests /\ "accept" \in TaskPlaces /\ 0 \in Nat
      BY Zenon DEF Requests, TaskPlaces
  <2>2. task' \in [Muxes -> [at : TaskPlaces, stream : Requests, proc : Nat]]
      BY Zenon, <1>9, <2>1 DEF Sent
  <2>3. proc' \in [Procs -> [at : ProcPlaces, chan : Seq(Requests)]]
      BY ZenonT(30), <1>9, Queues DEF Sent
  <2>4. QED BY ZenonT(30), <1>9, <2>2, <2>3 DEF Sent
<1>10. CASE Bridge!Evict
    BY Zenon, <1>10 DEF Bridge!Evict, Bridge!bridge
<1>11. ASSUME NEW p \in Procs, Bridge!Serve(p) \/ Bridge!ProcEnds(p) PROVE BridgeTypes'
  <2>1. UNCHANGED <<worker, mux, inbox, queue, task, deaths, lost>>
      BY Zenon, <1>11 DEF Bridge!Serve, Bridge!ProcEnds, Bridge!bridge
  <2>2. proc' \in [Procs -> [at : ProcPlaces, chan : Seq(Requests)]]
    <3>1. CASE Bridge!Serve(p)
      <4>1. proc' = [proc EXCEPT ![p].chan = Tail(@)] /\ proc[p].chan # <<>>
          BY Zenon, <3>1 DEF Bridge!Serve
      <4>2. Tail(proc[p].chan) \in Seq(Requests)
          BY Zenon, <4>1, Queues
      <4>3. QED BY Zenon, <4>1, <4>2
    <3>2. CASE Bridge!ProcEnds(p)
        BY ZenonT(30), <3>2 DEF Bridge!ProcEnds, ProcPlaces
    <3>3. QED BY Zenon, <1>11, <3>1, <3>2
  <2>3. QED BY Zenon, <2>1, <2>2
<1>12. QED
    BY ZenonT(30), Steps, <1>1, <1>2, <1>3, <1>4, <1>5, <1>6, <1>7, <1>8, <1>9, <1>10, <1>11

\* When fewer workers hold a session, no fewer sessions are released.
LEMMA FewerHold ==
  ASSUME NEW wk, NEW nw, NEW mx, Fewer(wk, nw)
  PROVE  Cardinality(Released(wk, mx)) <= Cardinality(Released(nw, mx))
<1>1. Released(wk, mx) \subseteq Released(nw, mx)
    BY Zenon DEF Fewer, Released, Holds
<1>2. QED BY Zenon, <1>1, DeadFinite, FS_Subset

\* When fewer workers hold a session, each still has its own.
LEMMA OwnFewer ==
  ASSUME Own, UNCHANGED mux, Fewer(worker, worker')
  PROVE  Own'
  BY Zenon DEF Own, Fewer

\* Every step keeps the part of the invariant on the bridge's workers,
LEMMA PoolStep ==
  ASSUME BridgeTypes, PoolInv, [Bridge!Next]_(Bridge!vars)
  PROVE  PoolInv'
<1> USE DEF PoolInv
<1>1. CASE PoolSame
  <2>1. Own'
      BY Zenon, <1>1, OwnFewer DEF PoolSame
  <2>2. Cardinality(Released(worker, mux)) <= Cardinality(Released(worker', mux))
      BY Zenon, <1>1, FewerHold DEF PoolSame
  <2>3. DeathsCounted'
      BY <1>1, <2>2, DeadFinite DEF PoolSame, DeathsCounted, BridgeTypes
  <2>4. QED BY Zenon, <2>1, <2>3
<1>2. ASSUME NEW w \in Workers, Bridge!DialOk(w) PROVE PoolInv'
  <2>1. PICK m \in Muxes :
          /\ mux[m] = "none" /\ mux' = [mux EXCEPT ![m] = "up"]
          /\ worker' = [worker EXCEPT ![w] = [at |-> "recv", mux |-> m, req |-> "none"]]
      BY ZenonT(30), <1>2 DEF Bridge!DialOk, Muxes, Bridge!NoConn
  <2>2. UNCHANGED <<deaths, lost>> /\ worker[w].at = "dial"
      BY Zenon, <1>2 DEF Bridge!DialOk
  <2>3. Own'
    <3>1. \A v \in Workers : v # w => worker'[v] = worker[v]
        BY ZenonT(30), <2>1 DEF BridgeTypes
    <3>2. worker'[w].mux = m /\ mux'[m] = "up" /\ \A n \in Muxes : n # m => mux'[n] = mux[n]
        BY Zenon, <2>1 DEF BridgeTypes
    <3>3. \A v \in Workers : worker[v].at \in Holding => worker[v].mux # m
        BY Zenon, <2>1 DEF Own
    <3>4. ASSUME NEW x \in Workers, worker'[x].at \in Holding
          PROVE  /\ worker'[x].mux \in Muxes /\ mux'[worker'[x].mux] # "none"
                 /\ \A v \in Workers : worker'[v].at \in Holding /\ worker'[v].mux = worker'[x].mux
                                       => v = x
      <4>1. CASE x = w
          BY Zenon, <2>1, <3>1, <3>2, <3>3, <4>1
      <4>2. CASE x # w
        <5>1. worker'[x] = worker[x] /\ worker[x].at \in Holding
            BY Zenon, <3>1, <3>4, <4>2
        <5>2. /\ worker[x].mux \in Muxes /\ mux[worker[x].mux] # "none" /\ worker[x].mux # m
              /\ \A v \in Workers : worker[v].at \in Holding /\ worker[v].mux = worker[x].mux => v = x
            BY Zenon, <3>3, <5>1 DEF Own
        <5>3. \A v \in Workers : worker'[v].at \in Holding /\ worker'[v].mux = worker[x].mux => v = x
            BY Zenon, <3>1, <3>2, <5>2
        <5>4. QED BY Zenon, <3>2, <5>1, <5>2, <5>3
      <4>3. QED BY Zenon, <4>1, <4>2
    <3>5. QED BY ZenonT(30), <3>4 DEF Own
  <2>4. Dead(mux') = Dead(mux)
      BY Zenon, <2>1 DEF Dead, BridgeTypes
  <2>5. Released(worker', mux') = Released(worker, mux)
    <3>1. \A n \in Dead(mux) : n # m
        BY Zenon, <2>1 DEF Dead
    <3>2. \A n \in Dead(mux) : Holds(worker', n) <=> Holds(worker, n)
      <4> SUFFICES ASSUME NEW n \in Dead(mux) PROVE Holds(worker', n) <=> Holds(worker, n)
          BY Zenon
      <4>1. worker[w].at \notin Holding /\ worker'[w].mux # n
          BY Zenon, <2>1, <2>2, <3>1 DEF BridgeTypes, Holding
      <4>2. \A v \in Workers : v # w => worker'[v] = worker[v]
          BY Zenon, <2>1 DEF BridgeTypes
      <4>3. QED BY Zenon, <4>1, <4>2 DEF Holds
    <3>3. QED BY Zenon, <2>4, <3>2 DEF Released
  <2>6. QED BY Zenon, <2>2, <2>3, <2>4, <2>5 DEF DeathsCounted
<1>3. ASSUME NEW m \in Muxes, Ended(m) PROVE PoolInv'
  <2>1. /\ mux' = [mux EXCEPT ![m] = "dead"] /\ UNCHANGED <<worker, lost>>
        /\ deaths' = IF mux[m] = "dead" THEN deaths ELSE deaths + 1
      BY Zenon, <1>3 DEF Ended
  <2>2. Own'
      BY Zenon, <2>1 DEF Own, BridgeTypes
  <2>3. Dead(mux') = Dead(mux) \cup {m} /\ (m \in Dead(mux) <=> mux[m] = "dead")
      BY Zenon, <2>1 DEF Dead, BridgeTypes
  <2>4. Cardinality(Dead(mux')) = IF m \in Dead(mux) THEN Cardinality(Dead(mux))
                                  ELSE Cardinality(Dead(mux)) + 1
      BY Zenon, <2>3, DeadFinite, FS_AddElement
  <2>5. Released(worker, mux) \subseteq Released(worker, mux')
      BY Zenon, <2>3 DEF Released
  <2>6. Cardinality(Released(worker, mux)) <= Cardinality(Released(worker, mux'))
      BY Zenon, <2>5, DeadFinite, FS_Subset
  <2>7. DeathsCounted'
    <3>1. /\ lost \in Nat /\ Cardinality(Released(worker, mux)) \in Nat
          /\ Cardinality(Released(worker, mux')) \in Nat
        BY Zenon, DeadFinite DEF BridgeTypes
    <3>2. deaths' = Cardinality(Dead(mux'))
        BY Zenon, <2>1, <2>3, <2>4 DEF DeathsCounted
    <3>3. lost' <= Cardinality(Released(worker', mux'))
        BY <2>1, <2>6, <3>1 DEF DeathsCounted
    <3>4. QED BY Zenon, <3>2, <3>3 DEF DeathsCounted
  <2>8. QED BY Zenon, <2>2, <2>7
<1>4. ASSUME NEW w \in Workers, Bridge!OpenErr(w) PROVE PoolInv'
  <2> DEFINE m == worker[w].mux
  <2>1. /\ worker[w].at = "open" /\ mux[m] = "dead" /\ UNCHANGED <<mux, deaths>>
        /\ worker' = [worker EXCEPT ![w] = [at |-> "sleep", mux |-> 0, req |-> "none"]]
        /\ lost' = lost + 1
      BY Zenon, <1>4 DEF Bridge!OpenErr, Bridge!Lose, Bridge!NoConn
  <2>2. worker'[w].at \notin Holding /\ \A v \in Workers : v # w => worker'[v] = worker[v]
      BY ZenonT(30), <2>1 DEF BridgeTypes, Holding
  <2>3. Own'
      BY Zenon, <2>1, <2>2, OwnFewer DEF Fewer
  <2>4. m \in Muxes /\ worker[w].at \in Holding /\ m \in Dead(mux)
      BY Zenon, <2>1 DEF Own, Holding, Dead
  <2>5. Released(worker', mux) = Released(worker, mux) \cup {m}
    <3>1. ~Holds(worker', m)
        BY ZenonT(30), <2>2, <2>4 DEF Holds, Own
    <3>2. \A n : n # m => (Holds(worker', n) <=> Holds(worker, n))
        BY Zenon, <2>2 DEF Holds
    <3>3. QED BY Zenon, <2>4, <3>1, <3>2 DEF Released
  <2>6. m \notin Released(worker, mux)
      BY Zenon, <2>4 DEF Released, Holds
  <2>7. Cardinality(Released(worker', mux)) = Cardinality(Released(worker, mux)) + 1
      BY Zenon, <2>5, <2>6, DeadFinite, FS_AddElement
  <2>8. DeathsCounted'
    <3>1. lost \in Nat /\ Cardinality(Released(worker, mux)) \in Nat
        BY Zenon, DeadFinite DEF BridgeTypes
    <3>2. deaths' = Cardinality(Dead(mux'))
        BY Zenon, <2>1 DEF DeathsCounted
    <3>3. lost' <= Cardinality(Released(worker', mux'))
        BY <2>1, <2>7, <3>1 DEF DeathsCounted
    <3>4. QED BY Zenon, <3>2, <3>3 DEF DeathsCounted
  <2>9. QED BY Zenon, <2>3, <2>8
<1>5. ASSUME NEW c \in Visitors, Bridge!FindPool(c) PROVE PoolSame
    BY Zenon, <1>5 DEF Bridge!FindPool, PoolSame, Fewer, Holding, BridgeTypes
<1>6. ASSUME NEW w \in Workers,
             Bridge!DialFails(w) \/ Bridge!Wake(w) \/ Bridge!Take(w) \/ Bridge!OpenOk(w)
      PROVE  PoolSame
  <2>1. UNCHANGED <<mux, deaths, lost>>
      BY Zenon, <1>6 DEF Bridge!DialFails, Bridge!Wake, Bridge!Take, Bridge!OpenOk
  <2>2. \A v \in Workers : v # w => worker'[v] = worker[v]
      BY Zenon, <1>6 DEF Bridge!DialFails, Bridge!Wake, Bridge!Take, Bridge!OpenOk, BridgeTypes
  <2>3. worker'[w].at \in Holding => worker[w].at \in Holding /\ worker'[w].mux = worker[w].mux
      BY <1>6 DEF Bridge!DialFails, Bridge!Wake, Bridge!Take, Bridge!OpenOk, BridgeTypes, Holding
  <2>4. QED BY Zenon, <2>1, <2>2, <2>3 DEF PoolSame, Fewer
<1>7. UNCHANGED <<worker, mux, deaths, lost>> => PoolSame
    BY Zenon DEF PoolSame, Fewer
<1>8. \/ UNCHANGED <<worker, mux, deaths, lost>>
      \/ \E c \in Visitors : Bridge!FindPool(c)
      \/ \E w \in Workers : \/ Bridge!DialOk(w) \/ Bridge!DialFails(w) \/ Bridge!Wake(w)
                            \/ Bridge!Take(w) \/ Bridge!OpenOk(w) \/ Bridge!OpenErr(w)
      \/ \E m \in Muxes : Ended(m)
    BY ZenonT(30), Steps
    DEF Same, Sent, Bridge!Request, Bridge!AcceptStream, Bridge!Evict,
        Bridge!Serve, Bridge!ProcEnds, Bridge!bridge
<1>9. QED BY Zenon, <1>1, <1>2, <1>3, <1>4, <1>5, <1>6, <1>7, <1>8

\* Where no process ends, no task starts to send and the table takes no other process, the
\* senders find their processes as before.
LEMMA SendersStay ==
  ASSUME SendersRun,
         \A p \in Procs : proc[p].at = "run" => proc'[p].at = "run",
         table' \in {0, table},
         \A m \in Muxes : task'[m].at = "send" => task[m].at = "send" /\ task'[m].proc = task[m].proc
  PROVE  SendersRun'
  BY DEF SendersRun

\* and the part on the exit's tasks,
LEMMA ExitStep ==
  ASSUME BridgeTypes, SendersRun, [Bridge!Next]_(Bridge!vars)
  PROVE  SendersRun'
<1> USE DEF Muxes
<1>1. CASE UNCHANGED <<task, table, proc>>
    BY Zenon, <1>1 DEF SendersRun
<1>2. ASSUME NEW w \in Workers, Bridge!DialOk(w) PROVE SendersRun'
  <2>1. PICK n \in Muxes : task' = [task EXCEPT ![n].at = "accept"]
      BY ZenonT(30), <1>2 DEF Bridge!DialOk
  <2>2. UNCHANGED <<table, proc>>
      BY Zenon, <1>2 DEF Bridge!DialOk
  <2>3. \A m \in Muxes : m # n => task'[m] = task[m]
      BY Zenon, <2>1 DEF BridgeTypes
  <2>4. task'[n].at = "accept"
      BY Zenon, <2>1 DEF BridgeTypes
  <2>5. QED BY Zenon, <2>2, <2>3, <2>4, SendersStay
<1>3. ASSUME NEW n \in Muxes, Ended(n) PROVE SendersRun'
  <2>1. \A m \in Muxes : task'[m] = task[m] \/ task'[m].at = "ended"
      BY <1>3 DEF Ended, BridgeTypes
  <2>2. QED BY Zenon, <1>3, <2>1, SendersStay DEF Ended
<1>4. ASSUME NEW n \in Muxes, Bridge!AcceptStream(n) PROVE SendersRun'
  <2>1. PICK p \in Procs :
          /\ IF table = 0 THEN TRUE ELSE p = table
          /\ table' = p /\ proc' = [proc EXCEPT ![p].at = "run"]
          /\ task' = [task EXCEPT ![n] = [at |-> "send", stream |-> Head(inbox[n]), proc |-> p]]
      BY ZenonT(30), <1>4 DEF Bridge!AcceptStream, Procs
  <2>2. proc'[p].at = "run" /\ \A q \in Procs : q # p => proc'[q] = proc[q]
      BY Zenon, <2>1 DEF BridgeTypes
  <2>3. /\ task'[n].at = "send" /\ task'[n].proc = p
        /\ \A m \in Muxes : m # n => task'[m] = task[m]
      BY Zenon, <2>1 DEF BridgeTypes
  <2>4. QED BY <2>1, <2>2, <2>3 DEF SendersRun
<1>5. ASSUME NEW n \in Muxes, Sent(n) PROVE SendersRun'
  <2>1. \A q \in Procs : proc'[q].at = proc[q].at
      BY Zenon, <1>5 DEF Sent, BridgeTypes
  <2>2. task'[n].at = "accept" /\ \A m \in Muxes : m # n => task'[m] = task[m]
      BY Zenon, <1>5 DEF Sent, BridgeTypes
  <2>3. QED BY Zenon, <1>5, <2>1, <2>2, SendersStay DEF Sent
<1>7. CASE Bridge!Evict
    BY Zenon, <1>7, SendersStay DEF Bridge!Evict
<1>8. ASSUME NEW p \in Procs, Bridge!Serve(p) PROVE SendersRun'
  <2>1. proc' = [proc EXCEPT ![p].chan = Tail(@)] /\ UNCHANGED <<table, task>>
      BY Zenon, <1>8 DEF Bridge!Serve
  <2>2. \A q \in Procs : proc'[q].at = proc[q].at
      BY Zenon, <2>1 DEF BridgeTypes
  <2>3. QED BY Zenon, <2>1, <2>2, SendersStay
<1>9. ASSUME NEW p \in Procs, Bridge!ProcEnds(p) PROVE SendersRun'
  <2>1. /\ proc' = [proc EXCEPT ![p].at = "ended"] /\ UNCHANGED <<table, task>>
        /\ table # p /\ \A m \in Muxes : ~(task[m].at = "send" /\ task[m].proc = p)
      BY Zenon, <1>9 DEF Bridge!ProcEnds, Bridge!Senders
  <2>2. \A q \in Procs : q # p => proc'[q] = proc[q]
      BY Zenon, <2>1 DEF BridgeTypes
  <2>3. QED BY <2>1, <2>2 DEF SendersRun
<1>10. \/ UNCHANGED <<task, table, proc>>
       \/ \E w \in Workers : Bridge!DialOk(w)
       \/ \E m \in Muxes : Bridge!AcceptStream(m) \/ Sent(m) \/ Ended(m)
       \/ Bridge!Evict
       \/ \E p \in Procs : Bridge!Serve(p) \/ Bridge!ProcEnds(p)
    BY ZenonT(30), Steps
    DEF Same, ExitSame, Bridge!FindPool, Bridge!Request, Bridge!DialFails, Bridge!Wake, Bridge!Take,
        Bridge!OpenOk, Bridge!OpenErr, Bridge!exit
<1>11. QED BY Zenon, <1>1, <1>2, <1>3, <1>4, <1>5, <1>7, <1>8, <1>9, <1>10

\* and so all of it.
LEMMA BridgeStep == BridgeInv /\ [Bridge!Next]_(Bridge!vars) => BridgeInv'
  BY Zenon, TypesStep, PoolStep, ExitStep DEF BridgeInv

\* A dead session costs at most one request, for any number of workers and of deaths: only
\* the worker that holds the session can lose one with it, and it lets go of the session
\* (remote_once).
THEOREM DeathsCostOne == Bridge!Spec => []LossBounded
<1>1. BridgeInv => LossBounded
    BY DeadFinite DEF BridgeInv, BridgeTypes, PoolInv, DeathsCounted, LossBounded, Bridge!LossBounded
<1>2. QED
    BY <1>1, BridgeInit, BridgeStep, PTL DEF Bridge!Spec

\* No eviction of b2e_table costs a live session, for any number of sessions, processes
\* and evictions: no send of a session's task ever meets a process that has ended, since
\* a process ends only when neither the table nor a task holds a sender (b2e_loop,
\* ReceiverListener).
THEOREM TasksOutliveEviction == Bridge!Spec => []SessionSurvives
<1>1. BridgeInv => SessionSurvives
    BY Zenon DEF BridgeInv, SendersRun, SessionSurvives, Bridge!SessionSurvives, Muxes
<1>2. QED
    BY <1>1, BridgeInit, BridgeStep, PTL DEF Bridge!Spec
=============================================================================
