---------------------------- MODULE Subscriptions ---------------------------
(***************************************************************************)
(* What the broker says of a user's subscription                           *)
(* (binaries/geph5-broker/src/auth.rs: get_subscription_expiry,            *)
(* valid_auth_token, get_user_info).                                       *)
(*                                                                         *)
(* The whole subscriptions table is cached under the second of the last    *)
(* payment, and that second is cached under the current twentieth of a     *)
(* second, a `slot'.  Payments come from the payment service, which is     *)
(* external: it adds the payment event and the row in one transaction,     *)
(* and removes the row when the subscription lapses.                       *)
(***************************************************************************)
EXTENDS Naturals, FiniteSets

CONSTANTS
  Users,       \* the users, each with at most one call at a time
  MaxSlot,     \* bound: slots that pass
  MaxPayments  \* bound: payments that are made

VARIABLES
  now,         \* the clock in slots (milliseconds / 50)
  second,      \* the clock, rounded to seconds; of any number of slots each
  payments,    \* table payment_events
  rows,        \* table subscriptions: the users in it
  lapsed,      \* history: users whose row was removed at some time
  ts_cache,    \* LAST_PAYMENT_TIMESTAMP_CACHE: set of <<slot, second>>
  subs_cache,  \* ALL_SUBSCRIPTIONS_CACHE: set of <<second, users>>
  call         \* per user: where get_subscription_expiry stands

clock == <<now, second>>
tables == <<payments, rows, lapsed>>
vars == <<clock, tables, ts_cache, subs_cache, call>>

Idle == [pc |-> "idle"]

Init ==
  /\ now = 1 /\ second = 1
  /\ payments = {} /\ rows = {} /\ lapsed = {}
  /\ ts_cache = {} /\ subs_cache = {}
  /\ call = [c \in Users |-> Idle]

----------------------------------------------------------------------------
(* The world.                                                              *)

Tick ==
  /\ now < MaxSlot
  /\ now' = now + 1 /\ second' \in {second, second + 1}
  /\ UNCHANGED <<tables, ts_cache, subs_cache, call>>

\* The payment service: a payment event and a row.
Pay(u) ==
  /\ Cardinality(payments) < MaxPayments
  /\ payments' = payments \cup {[user |-> u, slot |-> now, second |-> second]}
  /\ rows' = rows \cup {u}
  /\ UNCHANGED <<clock, lapsed, ts_cache, subs_cache, call>>

\* The payment service: the subscription is over, which is no payment event.
Lapse(u) ==
  /\ u \in rows
  /\ rows' = rows \ {u} /\ lapsed' = lapsed \cup {u}
  /\ UNCHANGED <<clock, payments, ts_cache, subs_cache, call>>

----------------------------------------------------------------------------
(* get_subscription_expiry.                                                *)

\* The key of the first cache is computed.
Begin(u) ==
  /\ call[u] = Idle
  /\ call' = [call EXCEPT ![u] = [pc |-> "ts", key |-> now]]
  /\ UNCHANGED <<clock, tables, ts_cache, subs_cache>>

\* SELECT MAX(created_at) FROM payment_events.
LastPayment(s) == /\ \E p \in payments : p.second = s
                  /\ \A p \in payments : p.second <= s

\* The second of the last payment is the one cached for the slot, or is read
\* and cached.  Calls with the same key share one read.
LastTs(u, s) ==
  IF \E e \in ts_cache : e[1] = call[u].key
  THEN <<call[u].key, s>> \in ts_cache /\ UNCHANGED ts_cache
  ELSE LastPayment(s) /\ ts_cache' = ts_cache \cup {<<call[u].key, s>>}

ReadTs(u) ==
  /\ call[u].pc = "ts"
  /\ \E s \in {p.second : p \in payments} :
       /\ LastTs(u, s)
       /\ call' = [call EXCEPT ![u] = [pc |-> "subs", key |-> @.key, ts |-> s]]
  /\ UNCHANGED <<clock, tables, subs_cache>>

\* The same for the table of subscriptions; the answer is Plus if it has
\* the user, else Free, which is kept until the caller has used it.
ReadSubsOfAnySecond(u) ==
  /\ call[u].pc = "subs"
  /\ \E all \in {rows} \cup {e[2] : e \in subs_cache} :
       /\ subs_cache' = subs_cache \cup {<<call[u].ts, all>>}
       /\ call' = [call EXCEPT ![u] = IF u \in all THEN Idle
                                       ELSE [pc |-> "Free", key |-> @.key, ts |-> @.ts]]
  /\ UNCHANGED <<clock, tables, ts_cache>>

ReadSubs(u) ==
  /\ call[u].pc = "subs"
  /\ \E all \in {rows} \cup {e[2] : e \in subs_cache} :
       /\ IF \E e \in subs_cache : e[1] = call[u].ts
          THEN <<call[u].ts, all>> \in subs_cache /\ UNCHANGED subs_cache
          ELSE all = rows /\ subs_cache' = subs_cache \cup {<<call[u].ts, all>>}
       /\ call' = [call EXCEPT ![u] = IF u \in all THEN Idle
                                       ELSE [pc |-> "Free", key |-> @.key, ts |-> @.ts]]
  /\ UNCHANGED <<clock, tables, ts_cache>>

\* valid_auth_token and get_user_info return Free, or Postgres fails
\* and they return an error.
Return(u) ==
  /\ call[u] # Idle
  /\ call' = [call EXCEPT ![u] = Idle]
  /\ UNCHANGED <<clock, tables, ts_cache, subs_cache>>

\* Entries that nobody asked for during 60 seconds are evicted.
Evict ==
  /\ \/ \E e \in ts_cache : /\ e[1] < now
                            /\ ts_cache' = ts_cache \ {e} /\ UNCHANGED subs_cache
     \/ \E e \in subs_cache : subs_cache' = subs_cache \ {e} /\ UNCHANGED ts_cache
  /\ UNCHANGED <<clock, tables, call>>

Next ==
  \/ Tick \/ Evict
  \/ \E u \in Users : \/ Pay(u) \/ Lapse(u)
                       \/ Begin(u) \/ ReadTs(u) \/ ReadSubs(u) \/ Return(u)

Spec == Init /\ [][Next]_vars

----------------------------------------------------------------------------
(* What holds.                                                             *)

\* The types of the state.
TypeOK ==
  /\ now \in Nat /\ second \in Nat
  /\ payments \subseteq [user : Users, slot : Nat, second : Nat]
  /\ rows \subseteq Users /\ lapsed \subseteq Users
  /\ ts_cache \subseteq Nat \X Nat
  /\ subs_cache \subseteq Nat \X SUBSET Users
  /\ call \in [Users -> [pc : {"idle"}] \cup [pc : {"ts"}, key : Nat]
                        \cup [pc : {"subs", "Free"}, key : Nat, ts : Nat]]

\* A paid subscription is seen although two caches and two reads lie between
\* the payment and the answer: a user who paid before the call, and did not
\* lapse, is called Free only if the newest payment the broker knows of fell
\* into the same second as theirs.  (Then they may be called Free until the
\* next payment of anybody, or until nobody asked for a minute.)
PaidSeen ==
  \A u \in Users : call[u].pc = "Free" /\ u \notin lapsed =>
    \A p \in payments :
      p.user = u /\ p.slot < call[u].key => p.second = call[u].ts
=============================================================================
