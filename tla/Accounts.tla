------------------------------- MODULE Accounts -----------------------------
(***************************************************************************)
(* How accounts come into being and spend their free voucher: the client's *)
(* registration task (geph5-client/src/control_prot.rs) calls the broker   *)
(* through several transports at once (broker/race.rs, priority_race.rs),  *)
(* and the broker burns the puzzle, makes the user and has the payment     *)
(* service make a gift card (geph5-broker/src/rpc_impl.rs, auth.rs,        *)
(* puzzle.rs, free_voucher.rs, payments.rs).                               *)
(*                                                                         *)
(* Postgres and the payment service are external: a transaction takes      *)
(* effect as a whole or not at all, and the keys of used_puzzles and       *)
(* auth_secret are unique.  A user is named by the registration it stems   *)
(* from.                                                                   *)
(***************************************************************************)
EXTENDS Naturals, FiniteSets

CONSTANTS
  New,         \* calls of start_registration
  Legacy,      \* users with a password who convert their account
  Redeemers,   \* bound: the users who redeem vouchers
  Transports,  \* choices of the client's broker source
  Modes,       \* kinds of broker source: "race", "priority"
  MaxFaults    \* bound: calls that get lost and failures of services

VARIABLES
  mode,        \* the kind of broker source of this client
  faults,      \* how many of them are to come
  client,      \* per registration: where its task stands
  slot,        \* per registration: its entry in REGISTRATIONS
  at,          \* per registration and transport: the copy of its request
  holder,      \* who holds the lock of RaceTransport
  selected,    \* RaceTransport::selected
  used,        \* table used_puzzles
  created,     \* per registration: number of secrets committed for it
  card,        \* per registration: its gift card at the payment service
  row,         \* per registration: whether free_vouchers shows the card
  redeem,      \* per registration: where redeem_voucher stands
  slips        \* history: registrations whose redemption was cut short or
               \* spent another card

env == <<mode, faults>>
calls == <<client, slot, at, holder, selected>>
tables == <<used, created, card, row>>
vars == <<env, calls, tables, redeem, slips>>

Regs == New \cup Legacy
Nobody == "nobody"

\* Where a copy that nobody waits for any more still runs in the broker.
Late == "late"
Copies == Transports \cup {Late}
Set(f, x, v) == [f EXCEPT ![x] = v]

\* A registration and a conversion are different calls, and Late no transport.
ASSUME AccountsAssumption == New \cap Legacy = {} /\ Late \notin Transports

Fault == faults > 0 /\ faults' = faults - 1
Fine == UNCHANGED faults

\* The states in which the broker's handler holds what it cannot give back.
Begun == {"inserted", "carded"}

Init ==
  /\ mode \in Modes /\ faults = MaxFaults
  /\ client = [r \in Regs |-> "idle"] /\ slot = [r \in Regs |-> "none"]
  /\ at = [r \in Regs |-> [c \in Copies |-> "none"]]
  /\ holder = Nobody /\ selected = Nobody
  /\ used = {} /\ created = [r \in Regs |-> 0]
  /\ card = [r \in Regs |-> "none"] /\ row = [r \in Regs |-> FALSE]
  /\ redeem = [r \in Regs |-> "idle"] /\ slips = {}

----------------------------------------------------------------------------
(* The client's side.                                                      *)

\* start_registration: get_puzzle goes through the transports and, as any
\* call, selects one; the slot is made and the task spawned.
Start(r) ==
  /\ r \in New /\ client[r] = "idle" /\ holder = Nobody
  /\ \/ /\ client' = Set(client, r, "ready") /\ slot' = Set(slot, r, "pending")
        /\ selected' \in IF mode = "race" /\ selected = Nobody THEN Transports
                         ELSE {selected}
        /\ Fine
     \/ /\ client' = Set(client, r, "refused") /\ selected' = Nobody
        /\ Fault /\ UNCHANGED slot
  /\ UNCHANGED <<mode, at, holder, tables, redeem, slips>>

\* The puzzle is solved, which leaves the slot without a secret, and the broker
\* called.  RaceTransport sends one copy by the selected transport or one by each,
\* and keeps its lock for the whole call; PriorityRaceTransport starts the
\* timers of its choices.
Call(r) ==
  /\ client[r] = IF r \in New THEN "ready" ELSE "idle"
  /\ holder = Nobody
  /\ client' = Set(client, r, "calling")
  /\ holder' = IF mode = "race" THEN r ELSE Nobody
  /\ at' = [at EXCEPT ![r] = [c \in Copies |->
              IF c = Late THEN @[Late]
              ELSE IF mode = "priority" THEN "unsent"
              ELSE IF selected \in {Nobody, c} THEN "wire" ELSE "none"]]
  /\ UNCHANGED <<env, slot, selected, tables, redeem, slips>>

\* The delay of a choice is over while no other has answered.
SendCopy(r, t) ==
  /\ client[r] = "calling" /\ at[r][t] = "unsent"
  /\ at' = [at EXCEPT ![r][t] = "wire"]
  /\ UNCHANGED <<env, client, slot, holder, selected, tables, redeem, slips>>

\* Nobody waits for the copies of r by ts any more.  Of those still in the
\* broker the one that got furthest goes on by itself; a copy behind another
\* has no effect.
Leave(r, ts, v) ==
  LET Left(s) == \E c \in ts \cup {Late} : at[r][c] = s
  IN  [c \in Copies |->
         IF c \in ts THEN v ELSE IF c # Late THEN at[r][c]
         ELSE IF Left("carded") THEN "carded" ELSE IF Left("inserted") THEN "inserted"
         ELSE IF Left("read") THEN "read" ELSE IF Left("wire") THEN "wire" ELSE "none"]

\* The call returned an error: the task restarts with the puzzle it has, the
\* caller of convert_legacy_account may call again.
Restart(r) == client' = Set(client, r, IF r \in New THEN "ready" ELSE "idle")

\* The first answer of the broker wins, also when it says that the broker
\* refuses: to the transports every answer is a success.
Answer(r, t) ==
  /\ client[r] = "calling" /\ at[r][t] \in {"ok", "refused"}
  /\ IF at[r][t] = "ok"
     THEN /\ client' = Set(client, r, "done")
          /\ slot' = Set(slot, r, IF r \in New THEN "secret" ELSE "none")
     ELSE Restart(r) /\ UNCHANGED slot
  /\ at' = Set(at, r, Leave(r, Transports, "none")) /\ holder' = Nobody
  /\ selected' = IF mode = "race" THEN t ELSE Nobody
  /\ UNCHANGED <<env, tables, redeem, slips>>

\* With no transport selected each copy of a race has ten seconds.  A selected
\* transport, and those of PriorityRaceTransport, have no timeout.
RacingUntimed == FALSE
Racing == mode = "race" /\ selected = Nobody

\* A transport reports an error, or in a race its ten seconds are over.  The
\* call fails with the last transport, and a selected one is forgotten.
GiveUp(r, t) ==
  /\ client[r] = "calling"
  /\ \/ at[r][t] = "lost" /\ Fine
     \/ Racing /\ at[r][t] \in {"wire", "read"} \cup Begun /\ Fault
  /\ IF \A c \in Transports \ {t} : at[r][c] \in {"failed", "none"}
     THEN /\ Restart(r) /\ at' = Set(at, r, Leave(r, Transports, "none"))
          /\ holder' = Nobody /\ selected' = Nobody
     ELSE /\ at' = Set(at, r, Leave(r, {t}, "failed"))
          /\ UNCHANGED <<client, holder, selected>>
  /\ UNCHANGED <<mode, slot, tables, redeem, slips>>

----------------------------------------------------------------------------
(* The broker's side.  A failure of Postgres or of the payment service     *)
(* makes the handler refuse.                                               *)

To(r, c, s) == at' = [at EXCEPT ![r][c] = s]

\* The answer of a late copy goes nowhere.
Reply(r, c, s) == To(r, c, IF c = Late THEN "none" ELSE s)

Still == UNCHANGED <<mode, client, slot, holder, selected, redeem, slips>>

VerifyKept(r, c) ==
  /\ r \in New /\ at[r][c] = "wire"
  /\ used' = used \cup {r} /\ To(r, c, "inserted") /\ Fine
  /\ Still /\ UNCHANGED <<created, card, row>>

\* register_user_secret: the solution is right, and the puzzle is inserted
\* into used_puzzles, which fails the second time; then register_secret opens
\* its transaction with a new user.
Verify(r, c) ==
  /\ r \in New /\ at[r][c] = "wire"
  /\ \/ r \notin used /\ used' = used \cup {r} /\ To(r, c, "inserted") /\ Fine
     \/ /\ Reply(r, c, "refused") /\ UNCHANGED used
        /\ IF r \in used THEN Fine ELSE Fault
  /\ Still /\ UNCHANGED <<created, card, row>>

\* upgrade_to_secret: the password is right, and register_secret looks for a
\* secret that the user already has.
Upgrade(r, c) ==
  /\ r \in Legacy /\ at[r][c] = "wire"
  /\ \/ Fine /\ IF created[r] > 0 THEN Reply(r, c, "ok") ELSE To(r, c, "read")
     \/ Fault /\ Reply(r, c, "refused")
  /\ Still /\ UNCHANGED tables

\* The insertion into auth_secret waits for a transaction that has the same
\* key, and fails when that commits.
InsertSecret(r, c) ==
  /\ at[r][c] = "read"
  /\ \A d \in Copies : at[r][d] \notin Begun
  /\ \/ Fine /\ IF created[r] > 0 THEN Reply(r, c, "refused")
                               ELSE To(r, c, "inserted")
     \/ Fault /\ Reply(r, c, "refused")
  /\ Still /\ UNCHANGED tables

\* create_giftcard.  The card is there even if its answer does not arrive.
CreateGiftcard(r, c) ==
  /\ at[r][c] = "inserted"
  /\ \/ Fine /\ card' = Set(card, r, "made") /\ To(r, c, "carded")
     \/ /\ Fault /\ Reply(r, c, "refused")
        /\ card' \in {card, Set(card, r, "made")}
  /\ Still /\ UNCHANGED <<used, created, row>>

CommitWithoutVoucher(r, c) ==
  /\ at[r][c] = "carded"
  /\ created' = [created EXCEPT ![r] = @ + 1] /\ Fine /\ Reply(r, c, "ok")
  /\ Still /\ UNCHANGED <<used, card, row>>

\* The voucher is inserted and everything committed; an error can come back
\* although it was.
Commit(r, c) ==
  /\ at[r][c] = "carded"
  /\ \/ /\ created' = [created EXCEPT ![r] = @ + 1] /\ row' = Set(row, r, TRUE)
        /\ (Fine /\ Reply(r, c, "ok")) \/ (Fault /\ Reply(r, c, "refused"))
     \/ Fault /\ Reply(r, c, "refused") /\ UNCHANGED <<created, row>>
  /\ Still /\ UNCHANGED <<used, card>>

\* A request or an answer is lost, or the handler dropped with its connection.
Lose(r, c) ==
  /\ Fault /\ at[r][c] \in {"wire", "read", "ok", "refused"} \cup Begun
  /\ Reply(r, c, "lost")
  /\ Still /\ UNCHANGED tables

----------------------------------------------------------------------------
(* redeem_voucher, for a user who has the secret.                          *)

RedeemBegin(r) ==
  /\ r \in Redeemers /\ client[r] = "done" /\ redeem[r] = "idle"
  /\ redeem' = Set(redeem, r, "spending")
  /\ UNCHANGED <<env, calls, tables, slips>>

\* spend_giftcard of the free voucher or of another code; the payment service
\* credits a card once.  An error can come back although it did.
SpendGiftcard(r) ==
  /\ redeem[r] = "spending"
  /\ \/ /\ row[r] /\ card[r] = "made" /\ card' = Set(card, r, "spent")
        /\ \/ Fine /\ redeem' = Set(redeem, r, "deleting") /\ UNCHANGED slips
           \/ /\ Fault /\ redeem' = Set(redeem, r, "idle")
              /\ slips' = slips \cup {r}
     \/ /\ redeem' = Set(redeem, r, "deleting") /\ slips' = slips \cup {r}
        /\ Fine /\ UNCHANGED card
     \/ Fine /\ redeem' = Set(redeem, r, "idle") /\ UNCHANGED <<card, slips>>
  /\ UNCHANGED <<mode, calls, used, created, row>>

\* delete_free_voucher deletes the voucher of the user, whichever card was
\* spent.
DeleteVoucher(r) ==
  /\ redeem[r] = "deleting"
  /\ redeem' = Set(redeem, r, "idle")
  /\ \/ Fine /\ row' = Set(row, r, FALSE) /\ UNCHANGED slips
     \/ Fault /\ slips' = slips \cup {r} /\ UNCHANGED row
  /\ UNCHANGED <<mode, calls, used, created, card>>

Client(r) ==
  \/ Call(r)
  \/ \E t \in Transports : SendCopy(r, t) \/ Answer(r, t) \/ GiveUp(r, t)

Broker(r, c) ==
  \/ Verify(r, c) \/ Upgrade(r, c) \/ InsertSecret(r, c)
  \/ CreateGiftcard(r, c) \/ Commit(r, c)

Redemption(r) == RedeemBegin(r) \/ SpendGiftcard(r) \/ DeleteVoucher(r)

Next ==
  \E r \in Regs :
    \/ Start(r) \/ Client(r) \/ Redemption(r)
    \/ \E c \in Copies : Broker(r, c) \/ Lose(r, c)

\* Tasks are polled, the broker handles what arrives, and in a race timeouts
\* fire.  Nothing makes another transport report that it lost a call.
Fairness ==
  \A r \in Regs :
    /\ SF_vars(Call(r))
    /\ \A t \in Transports :
         /\ WF_vars(SendCopy(r, t)) /\ WF_vars(Answer(r, t))
         /\ WF_vars(Racing /\ GiveUp(r, t))
    /\ \A c \in Copies : WF_vars(Broker(r, c))

Spec == Init /\ [][Next]_vars
FairSpec == Spec /\ Fairness

----------------------------------------------------------------------------

\* However copies of a request race, are repeated or go on after the client
\* gave up, a puzzle or a password yields one secret at most, and the client
\* shows a secret only when it is committed.
OneSecret ==
  \A r \in Regs : /\ created[r] <= 1
                  /\ client[r] = "done" => created[r] = 1
                  /\ slot[r] = "secret" => created[r] = 1

\* The puzzle is burnt and no copy that could bring the secret is waited for:
\* every later try of the task will be refused.
Stuck(r) ==
  /\ r \in used /\ client[r] \notin {"idle", "done"}
  /\ \A t \in Transports : at[r][t] \notin Begun \cup {"ok"}

\* A call without a timeout waits for an answer that was lost: the selected
\* transport's, or the last one of PriorityRaceTransport.
Silent(q) ==
  /\ client[q] = "calling" /\ (mode = "priority" \/ selected # Nobody)
  /\ \E t \in Transports : at[q][t] = "lost"
  /\ \A t \in Transports : at[q][t] \in {"lost", "failed", "none"}

\* So waits the registration, or whoever has the lock it needs.
Hung(r) == Silent(r) \/ (holder # Nobody /\ Silent(holder))

\* Gift cards are not lost silently.  A card without a user stems from a
\* transaction that is under way or cannot be repeated; the voucher a user is
\* shown is unspent, and one that was not spent is shown, unless a redemption
\* was cut short or spent another card.
CardsAccounted ==
  \A r \in Regs :
    /\ card[r] # "none" /\ created[r] = 0 =>
         r \in Legacy \/ Stuck(r) \/ \E c \in Copies : at[r][c] \in Begun
    /\ created[r] = 1 /\ redeem[r] = "idle" /\ r \notin slips =>
         (row[r] <=> card[r] = "made")

\* A registration ends with the secret unless its puzzle was burnt in vain, or a
\* call that has no timeout, its own or that of whoever holds the transports' lock,
\* lost its last answer: no other order of losses, timeouts and refusals stops it
\* (start_registration, RaceTransport, PriorityRaceTransport).
RegistrationEnds ==
  \A r \in New : client[r] = "ready" ~> client[r] = "done" \/ Stuck(r) \/ Hung(r)

\* The task logs "restarting registration" after an error, and loops until it
\* has the secret: started, it ends.
RegistrationRestarts == \A r \in New : client[r] = "ready" ~> client[r] = "done"
=============================================================================
