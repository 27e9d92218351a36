----------------------------- MODULE ConnToken ------------------------------
(***************************************************************************)
(* How a client keeps connect tokens (binaries/geph5-client/src/auth.rs    *)
(* and database.rs) that the broker signs (geph5-broker/src/rpc_impl.rs    *)
(* and auth.rs).                                                           *)
(*                                                                         *)
(* auth_loop refreshes the tokens of the current and the next epoch in the *)
(* local database; the session instances wait there for the token of the   *)
(* epoch.  A token is represented by its level.  The subscriptions table   *)
(* is external: `seen' is the expiry epoch that the broker's cached copy   *)
(* of it gives for the user, 0 for no row.                                 *)
(***************************************************************************)
EXTENDS Naturals

CONSTANTS
  Waiters,     \* session instances of the client
  Expiries,    \* epochs in which a subscription may end
  MaxEpoch     \* bound: epochs that pass

\* What the constants are taken to be.
EpochAssumption ==
  /\ MaxEpoch \in Nat \ {0}
  /\ Expiries \subseteq 1 .. MaxEpoch + 1

VARIABLES
  epoch,       \* mizaru2::current_epoch()
  seen,        \* the broker's idea of the subscription
  db,          \* conn_token_{epoch} in the client's database
  checked,     \* ACCOUNT_STATUS_CHECKED
  refresh,     \* where auth_loop stands
  ep,          \* `epoch' of refresh_conn_token
  plus,        \* whether plus_expiry > 0
  cur,         \* the epoch of the for loop, or of the entry being removed
  level,       \* the level being asked for
  waiter,      \* per instance: where get_connect_token stands
  wants,       \* per instance: the epoch it waits for
  heard,       \* per instance: whether its event listener was notified
  unsaid,      \* history: a write was cut off before it notified anyone
  lastPlus,    \* history: the last epoch in which it saw one
  signedUntil  \* history: the subscription seen when the signature was made

account == <<epoch, seen, lastPlus>>
locals == <<ep, plus, cur, level>>
waits == <<waiter, wants, heard, unsaid>>
vars == <<account, db, checked, refresh, locals, waits, signedUntil>>

Epochs == 1 .. MaxEpoch + 1
Levels == {"Free", "Plus"}
Resting == {"auth", "due", "failed", "stopped"}
Waiting(w) == waiter[w] \in {"listening", "absent", "asleep"}
Set(f, w, v) == [f EXCEPT ![w] = v]

\* The database may hold tokens of an earlier run of the client.
Init ==
  /\ epoch = 1 /\ seen \in Expiries \cup {0}
  /\ db \in {f \in [Epochs -> Levels \cup {"none"}] :
               \A e \in Epochs : e > 2 => f[e] = "none"}
  /\ checked = FALSE /\ refresh = "auth"
  /\ ep = 1 /\ plus = FALSE /\ cur = 1 /\ level = "Plus"
  /\ waiter = [w \in Waiters |-> "idle"] /\ wants = [w \in Waiters |-> 1]
  /\ heard = [w \in Waiters |-> FALSE] /\ unsaid = FALSE
  /\ lastPlus = IF seen # 0 \/ db[2] = "Plus" THEN 1 ELSE 0
  /\ signedUntil = 0

----------------------------------------------------------------------------
(* The world.                                                              *)

\* A day passes.  Refreshes and waits are cut after 30 seconds, so one that
\* saw an epoch begin is over before the next begins.
NewEpoch ==
  /\ epoch < MaxEpoch
  /\ refresh \notin Resting => ep = epoch
  /\ \A w \in Waiters : Waiting(w) => wants[w] = epoch
  /\ epoch' = epoch + 1
  /\ lastPlus' = IF seen # 0 THEN epoch + 1 ELSE lastPlus
  /\ UNCHANGED <<seen, db, checked, refresh, locals, waits,
                 signedUntil>>

\* get_subscription_expiry reads the table anew: a row may have come, gone,
\* moved, or be there past its expiry.
Reload ==
  /\ \E x \in Expiries \cup {0} :
       /\ x # seen /\ seen' = x
       /\ lastPlus' = IF x # 0 THEN epoch ELSE lastPlus
  /\ UNCHANGED <<epoch, db, checked, refresh, locals, waits, signedUntil>>

----------------------------------------------------------------------------
(* auth_loop and refresh_conn_token.                                       *)

\* refresh_conn_token returns to auth_loop, which sleeps for 400 to 800
\* seconds ("due") or after an error for 10 ("failed").
Rest(pc) ==
  /\ refresh' = pc
  /\ ep' = 1 /\ plus' = FALSE /\ cur' = 1 /\ level' = "Plus"

Goto(pc) ==
  /\ refresh' = pc
  /\ UNCHANGED <<account, db, checked, waits, signedUntil>>

\* get_auth_token finds or obtains the auth token; its failure ends the loop,
\* and with it the client.
AuthToken ==
  /\ refresh = "auth"
  /\ Goto("due") \/ Goto("stopped")
  /\ UNCHANGED locals

\* The loop's timer fires.
Begin ==
  /\ refresh \in {"due", "failed"}
  /\ Goto("info")
  /\ ep' = epoch /\ UNCHANGED <<plus, cur, level>>

\* get_user_info answers.
Info ==
  /\ refresh = "info"
  /\ Goto("check")
  /\ plus' = (seen # 0) /\ UNCHANGED <<ep, cur, level>>

CheckNothing ==
  /\ refresh = "check"
  /\ Goto("status")
  /\ cur' = ep /\ UNCHANGED <<ep, plus, level>>

\* The stored token of what is now the epoch tells whether Plus is news.
Check ==
  /\ refresh = "check"
  /\ Goto(IF plus /\ db[epoch] # "Plus" THEN "removing" ELSE "status")
  /\ cur' = ep /\ UNCHANGED <<ep, plus, level>>

\* db_remove and db_write change the database, and notify afterwards.
Remove ==
  /\ refresh = "removing"
  /\ db' = Set(db, cur, "none")
  /\ refresh' = "removed"
  /\ UNCHANGED <<account, checked, locals, waits, signedUntil>>

\* What a notification would reach if the listener were made after the read.
NotifySleepers ==
  heard' = [w \in Waiters |-> heard[w] \/ waiter[w] = "asleep"] /\ unsaid' = FALSE

\* EVENT.notify(usize::MAX).
Notify == heard' = [w \in Waiters |-> heard[w] \/ Waiting(w)] /\ unsaid' = FALSE

Removed ==
  /\ refresh = "removed"
  /\ Notify
  /\ IF cur = ep THEN refresh' = "removing" /\ cur' = ep + 1
                 ELSE refresh' = "status" /\ UNCHANGED cur
  /\ UNCHANGED <<account, db, checked, ep, plus, level, waiter, wants,
                 signedUntil>>

\* ACCOUNT_STATUS_CHECKED is set and the loop over the epochs begins.
Status ==
  /\ refresh = "status"
  /\ checked' = TRUE
  /\ refresh' = "reading" /\ cur' = ep
  /\ UNCHANGED <<account, db, ep, plus, level, waits, signedUntil>>

\* The loop is over the epochs ep and ep + 1.
LastAsked == ep + 1

\* The loop goes on to the epoch after cur, or is over.
NextEpoch ==
  IF cur < LastAsked
  THEN refresh' = "reading" /\ cur' = cur + 1 /\ UNCHANGED <<ep, plus, level>>
  ELSE Rest("due")

\* A token that is already there is kept.
Read ==
  /\ refresh = "reading"
  /\ IF db[cur] # "none" THEN NextEpoch
     ELSE refresh' = "asking" /\ level' = "Plus" /\ UNCHANGED <<ep, plus, cur>>
  /\ UNCHANGED <<account, db, checked, waits, signedUntil>>

SignsAnything(l) == TRUE

\* get_connect_token of the broker signs Plus for whom it sees a row.
Signs(l) == ~(l = "Plus" /\ seen = 0)

AskPlusOnly ==
  /\ refresh = "asking"
  /\ IF Signs(level)
     THEN refresh' = "signed" /\ signedUntil' = seen /\ UNCHANGED locals
     ELSE Rest("due") /\ UNCHANGED signedUntil
  /\ UNCHANGED <<account, db, checked, waits>>

\* Plus is asked for first, and Free when the broker says WrongLevel.
Ask ==
  /\ refresh = "asking"
  /\ IF Signs(level)
     THEN refresh' = "signed" /\ signedUntil' = seen /\ UNCHANGED level
     ELSE level' = "Free" /\ UNCHANGED <<refresh, signedUntil>>
  /\ UNCHANGED <<account, db, checked, ep, plus, cur, waits>>

Write ==
  /\ refresh = "signed"
  /\ db' = Set(db, cur, level)
  /\ refresh' = "written" /\ signedUntil' = 0
  /\ UNCHANGED <<account, checked, locals, waits>>

Written ==
  /\ refresh = "written"
  /\ Notify
  /\ NextEpoch
  /\ UNCHANGED <<account, db, checked, waiter, wants, signedUntil>>

\* An error or the timeout ends the refresh at one of its awaits.  A
\* statement whose result was not awaited has had its effect all the same.
Fail ==
  /\ refresh \notin Resting \cup {"status"}
  /\ Rest("failed") /\ signedUntil' = 0
  /\ unsaid' = (unsaid \/ refresh = "written")
  /\ UNCHANGED <<account, db, checked, waiter, wants, heard>>

----------------------------------------------------------------------------
(* get_connect_token of an instance.                                       *)

\* The status was checked once; the epoch is read and a listener made.
Listen(w) ==
  /\ waiter[w] = "idle" /\ checked
  /\ waiter' = Set(waiter, w, "listening")
  /\ wants' = Set(wants, w, epoch) /\ heard' = Set(heard, w, FALSE)
  /\ UNCHANGED <<account, db, checked, refresh, locals, unsaid, signedUntil>>

\* db_read finds the token or finds none.
DbRead(w) ==
  /\ waiter[w] = "listening"
  /\ waiter' = Set(waiter, w, IF db[wants[w]] = "none" THEN "absent" ELSE db[wants[w]])
  /\ UNCHANGED <<account, db, checked, refresh, locals, wants, heard, unsaid, signedUntil>>

\* Then the instance awaits its listener.
Sleep(w) ==
  /\ waiter[w] = "absent"
  /\ waiter' = Set(waiter, w, "asleep")
  /\ UNCHANGED <<account, db, checked, refresh, locals, wants, heard, unsaid, signedUntil>>

\* The event fired: the loop starts over with a new listener.
Wake(w) ==
  /\ waiter[w] = "asleep" /\ heard[w]
  /\ waiter' = Set(waiter, w, "listening")
  /\ heard' = Set(heard, w, FALSE)
  /\ UNCHANGED <<account, db, checked, refresh, locals, wants, unsaid, signedUntil>>

\* The instance used its token and later reconnects, or its 30 seconds for
\* dialing and authentication are over.
Again(w) ==
  /\ waiter[w] # "idle"
  /\ waiter' = Set(waiter, w, "idle")
  /\ wants' = Set(wants, w, 1) /\ heard' = Set(heard, w, FALSE)
  /\ UNCHANGED <<account, db, checked, refresh, locals, unsaid, signedUntil>>

AuthLoop ==
  \/ AuthToken \/ Begin \/ Info \/ Check \/ Remove \/ Removed \/ Status
  \/ Read \/ Ask \/ Write \/ Written

Instance(w) == Listen(w) \/ DbRead(w) \/ Sleep(w) \/ Wake(w) \/ Again(w)

Next ==
  \/ NewEpoch \/ Reload \/ AuthLoop \/ Fail
  \/ \E w \in Waiters : Instance(w)

\* The loop is polled, and from some time on the broker answers in time.
Fairness == WF_vars(AuthLoop) /\ <>[][~Fail]_vars

Spec == Init /\ [][Next]_vars
FairSpec == Spec /\ Fairness

----------------------------------------------------------------------------

\* Plus outlives the subscription by one epoch at most: a Plus token for an
\* epoch was signed while the broker saw the subscription in that epoch or in
\* the one before, although the broker compares no epochs.
PlusOutlivesByOne ==
  \A e \in Epochs : db[e] = "Plus" => lastPlus + 1 >= e

\* No wakeup is lost: an instance that awaits its listener although the token it wants
\* is there has been notified or is about to be, whenever the write came between its
\* steps (db_read_or_wait, db_write).  A write cut off by the refresh's timeout before
\* it notifies is the exception: the instance then waits for its own timeout.
WakeupKept ==
  \A w \in Waiters :
    waiter[w] = "asleep" /\ db[wants[w]] # "none" =>
      heard[w] \/ refresh = "written" \/ unsaid

\* The comment in the broker's get_connect_token: "when the user is Plus now,
\* but won't be Plus then, we should return WrongLevel".
PlusThen ==
  refresh = "signed" /\ level = "Plus" => signedUntil >= cur

\* Whatever a refresh removed and however often it failed, the client has a
\* token for the epoch again and again.
TokenReturns == []<>(refresh = "stopped" \/ db[epoch] # "none")

\* A subscription that stays is honoured: the Free tokens of the time before
\* it are replaced.
PlusHonoured ==
  <>[](seen # 0) => <>[](refresh = "stopped" \/ db[epoch] = "Plus")
=============================================================================
