--------------------------- MODULE AccountsProofs ---------------------------
(***************************************************************************)
(* Proofs about Accounts for every set of registrations, conversions and   *)
(* transports, and every number of faults.                                 *)
(***************************************************************************)
EXTENDS Accounts, TLAPS

----------------------------------------------------------------------------
(* The inductive invariant.                                                *)

States == {"none", "unsent", "wire", "read", "inserted", "carded", "ok", "refused", "lost", "failed"}

Types ==
  /\ client \in [Regs -> {"idle", "ready", "refused", "calling", "done"}]
  /\ slot \in [Regs -> {"none", "pending", "secret"}]
  /\ at \in [Regs -> [Copies -> States]]
  /\ used \subseteq New /\ slips \subseteq Regs
  /\ created \in [Regs -> {0, 1}]
  /\ card \in [Regs -> {"none", "made", "spent"}]
  /\ row \in [Regs -> BOOLEAN]
  /\ redeem \in [Regs -> {"idle", "spending", "deleting"}]

\* Of the copies of a request one at most has begun what it cannot give back,
\* and only while there is no secret; a copy that says ok found one; only
\* conversions read before they insert; who does not call has no copies but
\* the late one.
CopiesRight(r) ==
  /\ \A c, d \in Copies : at[r][c] \in Begun /\ at[r][d] \in Begun => c = d
  /\ \A c \in Copies : /\ at[r][c] \in Begun => created[r] = 0
                       /\ at[r][c] = "ok" => created[r] = 1
                       /\ at[r][c] = "read" => r \in Legacy
                       /\ at[r][c] = "carded" => card[r] = "made"
                       /\ at[r][c] \in Begun => r \in Legacy \cup used
  /\ client[r] # "calling" => \A t \in Transports : at[r][t] = "none"

\* A puzzle that was not burnt has brought nothing, and it is not burnt
\* before the registration called.
PuzzleRight(r) ==
  r \in New => /\ r \notin used => created[r] = 0 /\ card[r] = "none"
               /\ client[r] = "idle" => r \notin used /\ \A c \in Copies : at[r][c] = "none"

\* The client is done, and the slot filled, only with the secret committed.
SecretRight(r) ==
  /\ client[r] = "done" \/ slot[r] = "secret" => created[r] = 1
  /\ redeem[r] # "idle" => client[r] = "done"

\* The voucher stands for an unspent card, between redemptions and before
\* the card is spent in one.
VoucherRight(r) ==
  /\ created[r] = 0 => ~row[r]
  /\ r \notin slips =>
       /\ redeem[r] = "deleting" => card[r] = "spent"
       /\ redeem[r] # "deleting" /\ created[r] = 1 => (row[r] <=> card[r] = "made")

RegInv(r) == CopiesRight(r) /\ PuzzleRight(r) /\ SecretRight(r) /\ VoucherRight(r)

IInv == Types /\ \A r \in Regs : RegInv(r)

\* Nothing has been called or made in the beginning.
LEMMA InitIInv == Init => IInv
<1> SUFFICES ASSUME Init PROVE IInv
  OBVIOUS
<1>1. Types
  BY DEF Init, Types, States
<1>2. ASSUME NEW r \in Regs PROVE RegInv(r)
  <2>1. CopiesRight(r)
    BY DEF Init, CopiesRight, Begun, Copies
  <2> QED
    BY <2>1 DEF Init, RegInv, PuzzleRight, SecretRight, VoucherRight
<1> QED
  BY <1>1, <1>2 DEF IInv

\* The invariant says what OneSecret and CardsAccounted say.
LEMMA IInvImplies == IInv => OneSecret /\ CardsAccounted
<1> SUFFICES ASSUME IInv PROVE OneSecret /\ CardsAccounted
  OBVIOUS
<1>1. OneSecret
  BY DEF IInv, Types, RegInv, SecretRight, OneSecret
<1>2. ASSUME NEW r \in Regs, card[r] # "none", created[r] = 0, r \notin Legacy,
             \A c \in Copies : at[r][c] \notin Begun
      PROVE  Stuck(r)
  <2>1. r \in used /\ client[r] \notin {"idle", "done"}
    BY <1>2 DEF IInv, RegInv, PuzzleRight, SecretRight, Regs
  <2>2. \A t \in Transports : at[r][t] \notin Begun \cup {"ok"}
    BY <1>2 DEF IInv, RegInv, CopiesRight, Copies
  <2> QED
    BY <2>1, <2>2 DEF Stuck
<1>3. ASSUME NEW r \in Regs, created[r] = 1, redeem[r] = "idle", r \notin slips
      PROVE  row[r] <=> card[r] = "made"
  BY <1>3 DEF IInv, RegInv, VoucherRight
<1>4. CardsAccounted
  BY <1>2, <1>3 DEF CardsAccounted
<1> QED
  BY <1>1, <1>4

----------------------------------------------------------------------------
(* A step concerns one registration.                                       *)

Same(q) ==
  /\ client'[q] = client[q] /\ slot'[q] = slot[q] /\ at'[q] = at[q]
  /\ created'[q] = created[q] /\ card'[q] = card[q] /\ row'[q] = row[q]
  /\ redeem'[q] = redeem[q]
  /\ (q \in used') = (q \in used) /\ (q \in slips') = (q \in slips)

\* A step that concerns one registration only has to be right for that one.
LEMMA OneReg ==
  ASSUME IInv, NEW r \in Regs, Types', \A q \in Regs \ {r} : Same(q), RegInv(r)'
  PROVE  IInv'
<1> SUFFICES ASSUME NEW q \in Regs \ {r} PROVE RegInv(q)'
  BY DEF IInv
<1>1. RegInv(q) /\ Same(q)
  BY DEF IInv
<1>2. CopiesRight(q)'
  BY <1>1 DEF RegInv, Same, CopiesRight
<1>3. PuzzleRight(q)'
  BY <1>1 DEF RegInv, Same, PuzzleRight
<1>4. SecretRight(q)' /\ VoucherRight(q)'
  BY <1>1 DEF RegInv, Same, SecretRight, VoucherRight
<1> QED
  BY <1>2, <1>3, <1>4 DEF RegInv

----------------------------------------------------------------------------
(* The client's steps.                                                     *)

\* The start of a registration keeps the invariant.
LEMMA StartIInv == ASSUME NEW r \in Regs PROVE IInv /\ Start(r) => IInv'
<1> SUFFICES ASSUME IInv, Start(r) PROVE IInv'
  OBVIOUS
<1>1. /\ UNCHANGED <<at, used, created, card, row, redeem, slips>>
      /\ client[r] = "idle" /\ \E v \in {"ready", "refused"} : client' = [client EXCEPT ![r] = v]
      /\ slot' = slot \/ slot' = [slot EXCEPT ![r] = "pending"]
  BY DEF Start, tables, Set
<1>2. Types'
  BY <1>1 DEF IInv, Types
<1>3. \A q \in Regs \ {r} : Same(q)
  BY <1>1 DEF IInv, Types, Same
<1>4. /\ client'[r] \in {"ready", "refused"} /\ slot'[r] \in {slot[r], "pending"}
      /\ RegInv(r)
  BY <1>1 DEF IInv, Types
<1>5. RegInv(r)'
  BY <1>1, <1>4 DEF RegInv, CopiesRight, PuzzleRight, SecretRight, VoucherRight
<1> QED
  BY <1>2, <1>3, <1>5, OneReg

\* So does the start of its call,
LEMMA CallIInv == ASSUME NEW r \in Regs PROVE IInv /\ Call(r) => IInv'
<1> SUFFICES ASSUME IInv, Call(r) PROVE IInv'
  OBVIOUS
<1>1. /\ UNCHANGED <<slot, used, created, card, row, redeem, slips>>
      /\ client[r] \in {"ready", "idle"} /\ client' = [client EXCEPT ![r] = "calling"]
      /\ r \in New => client[r] = "ready"
  BY DEF Call, tables, Set
<1>2. /\ at' \in [Regs -> [Copies -> States]]
      /\ \A q \in Regs \ {r} : at'[q] = at[q]
      /\ \A t \in Transports : at'[r][t] \in {"unsent", "wire", "none"}
      /\ at'[r][Late] = at[r][Late]
  <2> DEFINE new == [c \in Copies |->
                 IF c = Late THEN at[r][Late]
                 ELSE IF mode = "priority" THEN "unsent"
                 ELSE IF selected \in {Nobody, c} THEN "wire" ELSE "none"]
  <2>1. at' = [at EXCEPT ![r] = new]
    BY DEF Call, IInv, Types
  <2>2. /\ new \in [Copies -> States] /\ new[Late] = at[r][Late]
        /\ \A t \in Transports : new[t] \in {"unsent", "wire", "none"}
    BY AccountsAssumption DEF IInv, Types, States, Copies
  <2> QED
    BY <2>1, <2>2 DEF IInv, Types
<1>3. Types'
  BY <1>1, <1>2 DEF IInv, Types
<1>4. \A q \in Regs \ {r} : Same(q)
  BY <1>1, <1>2 DEF IInv, Types, Same
<1>5. client'[r] = "calling" /\ RegInv(r)
  BY <1>1 DEF IInv, Types
<1>6. CopiesRight(r)'
  BY <1>1, <1>2, <1>5 DEF RegInv, CopiesRight, Begun, Copies
<1>7. PuzzleRight(r)' /\ SecretRight(r)' /\ VoucherRight(r)'
  BY <1>1, <1>5 DEF RegInv, PuzzleRight, SecretRight, VoucherRight
<1> QED
  BY <1>3, <1>4, <1>6, <1>7, OneReg DEF RegInv

\* What is left of the copies of r when nobody waits for those by ts.
LEMMA LeaveRight ==
  ASSUME IInv, NEW r \in Regs, NEW ts \in SUBSET Transports, NEW v \in {"none", "failed"}
  PROVE  /\ Leave(r, ts, v) \in [Copies -> States]
         /\ \A c \in ts : Leave(r, ts, v)[c] = v
         /\ \A c \in Transports \ ts : Leave(r, ts, v)[c] = at[r][c]
         /\ Leave(r, ts, v)[Late] \in {"carded", "inserted", "read", "wire", "none"}
         /\ Leave(r, ts, v)[Late] # "none" =>
              \E c \in ts \cup {Late} : at[r][c] = Leave(r, ts, v)[Late]
<1> DEFINE Left(s) == \E c \in ts \cup {Late} : at[r][c] = s
           last == IF Left("carded") THEN "carded" ELSE IF Left("inserted") THEN "inserted"
                   ELSE IF Left("read") THEN "read" ELSE IF Left("wire") THEN "wire" ELSE "none"
<1>1. /\ last \in {"carded", "inserted", "read", "wire", "none"}
      /\ last # "none" => Left(last)
  OBVIOUS
<1>2. Leave(r, ts, v) = [c \in Copies |-> IF c \in ts THEN v ELSE IF c # Late THEN at[r][c] ELSE last]
  BY DEF Leave
<1> HIDE DEF last
<1>3. /\ Leave(r, ts, v)[Late] = last
      /\ \A c \in ts : Leave(r, ts, v)[c] = v
      /\ \A c \in Transports \ ts : Leave(r, ts, v)[c] = at[r][c]
  BY <1>2, AccountsAssumption DEF Copies
<1>4. Leave(r, ts, v) \in [Copies -> States]
  BY <1>1, <1>2 DEF IInv, Types, States
<1> QED
  BY <1>1, <1>3, <1>4

\* So the copies stay right.
LEMMA LeaveCopies ==
  ASSUME IInv, NEW r \in Regs, NEW ts \in SUBSET Transports, NEW v \in {"none", "failed"},
         at' = [at EXCEPT ![r] = Leave(r, ts, v)],
         UNCHANGED <<used, created, card>>,
         client'[r] = "calling" \/ (ts = Transports /\ v = "none")
  PROVE  /\ at' \in [Regs -> [Copies -> States]]
         /\ \A q \in Regs \ {r} : at'[q] = at[q]
         /\ CopiesRight(r)'
<1> DEFINE L == Leave(r, ts, v)
<1>1. /\ L \in [Copies -> States]
      /\ \A c \in ts : L[c] = v
      /\ \A c \in Transports \ ts : L[c] = at[r][c]
      /\ L[Late] \in {"carded", "inserted", "read", "wire", "none"}
      /\ L[Late] # "none" => \E c \in ts \cup {Late} : at[r][c] = L[Late]
  BY LeaveRight
<1> HIDE DEF L
<1>2. /\ at' \in [Regs -> [Copies -> States]] /\ at'[r] = L
      /\ \A q \in Regs \ {r} : at'[q] = at[q]
  BY <1>1 DEF IInv, Types, L
<1>3. CopiesRight(r)
  BY DEF IInv, RegInv
<1>4. ASSUME NEW c \in Copies, L[c] \notin {"none", "failed"}
      PROVE  \E d \in Copies : at[r][d] = L[c] /\ (c # Late => d = c) /\ (d # c => d \in ts)
  <2>1. CASE c = Late
    BY <2>1, <1>1, <1>4 DEF Copies
  <2>2. CASE c # Late
    BY <2>2, <1>1, <1>4 DEF Copies
  <2> QED
    BY <2>1, <2>2
<1>5. ASSUME NEW c \in Copies, NEW d \in Copies, L[c] \in Begun, L[d] \in Begun PROVE c = d
  <2>1. PICK a \in Copies : at[r][a] = L[c] /\ (c # Late => a = c) /\ (a # c => a \in ts)
    BY <1>4, <1>5 DEF Begun
  <2>2. PICK b \in Copies : at[r][b] = L[d] /\ (d # Late => b = d) /\ (b # d => b \in ts)
    BY <1>4, <1>5 DEF Begun
  <2>3. a = b
    BY <1>3, <1>5, <2>1, <2>2 DEF CopiesRight
  <2>4. c \notin ts /\ d \notin ts
    BY <1>1, <1>5 DEF Begun
  <2> QED
    BY <2>1, <2>2, <2>3, <2>4
<1>6. ASSUME NEW c \in Copies
      PROVE  /\ L[c] \in Begun => created[r] = 0
             /\ L[c] = "ok" => created[r] = 1
             /\ L[c] = "read" => r \in Legacy
             /\ L[c] = "carded" => card[r] = "made"
             /\ L[c] \in Begun => r \in Legacy \cup used
  BY <1>3, <1>4 DEF CopiesRight, Begun
<1>7. client'[r] # "calling" => \A t \in Transports : L[t] = "none"
  BY <1>1
<1> QED
  BY <1>2, <1>5, <1>6, <1>7 DEF CopiesRight

\* The client hears, or stops waiting.
LEMMA ClientHears ==
  ASSUME IInv, NEW r \in Regs, NEW ts \in SUBSET Transports, NEW v \in {"none", "failed"},
         at' = [at EXCEPT ![r] = Leave(r, ts, v)],
         UNCHANGED <<tables, redeem, slips>>, client[r] = "calling",
         \/ client' = client /\ slot' = slot
         \/ /\ ts = Transports /\ v = "none"
            /\ \E s \in {"ready", "idle"} :
                 client' = [client EXCEPT ![r] = s] /\ (s = "idle" => r \notin New)
            /\ slot' = slot
         \/ /\ ts = Transports /\ v = "none" /\ created[r] = 1
            /\ client' = [client EXCEPT ![r] = "done"]
            /\ \E s \in {"secret", "none"} : slot' = [slot EXCEPT ![r] = s]
  PROVE  IInv'
<1>1. UNCHANGED <<used, created, card, row, redeem, slips>> /\ RegInv(r)
  BY DEF tables, IInv
<1>2. /\ client \in [Regs -> {"idle", "ready", "refused", "calling", "done"}]
      /\ slot \in [Regs -> {"none", "pending", "secret"}]
      /\ slot[r] = "secret" => created[r] = 1
  BY <1>1 DEF IInv, Types, RegInv, SecretRight
<1>3. /\ client' \in [Regs -> {"idle", "ready", "refused", "calling", "done"}]
      /\ slot' \in [Regs -> {"none", "pending", "secret"}]
      /\ \A q \in Regs \ {r} : client'[q] = client[q] /\ slot'[q] = slot[q]
      /\ client'[r] = "calling" \/ (ts = Transports /\ v = "none")
      /\ client'[r] = "idle" => r \notin New
      /\ client'[r] = "done" \/ slot'[r] = "secret" => created[r] = 1
  <2>1. CASE client' = client /\ slot' = slot
    BY <2>1, <1>2
  <2>2. CASE /\ ts = Transports /\ v = "none" /\ slot' = slot
             /\ \E s \in {"ready", "idle"} :
                  client' = [client EXCEPT ![r] = s] /\ (s = "idle" => r \notin New)
    BY <2>2, <1>2
  <2>3. CASE /\ ts = Transports /\ v = "none" /\ created[r] = 1
             /\ client' = [client EXCEPT ![r] = "done"]
             /\ \E s \in {"secret", "none"} : slot' = [slot EXCEPT ![r] = s]
    BY <2>3, <1>2
  <2> QED
    BY <2>1, <2>2, <2>3
<1>4. /\ at' \in [Regs -> [Copies -> States]]
      /\ \A q \in Regs \ {r} : at'[q] = at[q]
      /\ CopiesRight(r)'
  BY <1>1, <1>3, LeaveCopies
<1>5. Types'
  BY <1>1, <1>3, <1>4 DEF IInv, Types
<1>6. \A q \in Regs \ {r} : Same(q)
  BY <1>1, <1>3, <1>4 DEF Same
<1>7. redeem[r] = "idle"
  BY <1>1 DEF RegInv, SecretRight
<1>8. PuzzleRight(r)' /\ SecretRight(r)' /\ VoucherRight(r)'
  BY <1>1, <1>3, <1>7 DEF RegInv, PuzzleRight, SecretRight, VoucherRight
<1> QED
  BY <1>4, <1>5, <1>6, <1>8, OneReg DEF RegInv

\* the answer of a transport,
LEMMA AnswerIInv ==
  ASSUME NEW r \in Regs, NEW t \in Transports PROVE IInv /\ Answer(r, t) => IInv'
<1> SUFFICES ASSUME IInv, Answer(r, t) PROVE IInv'
  OBVIOUS
<1>1. /\ at' = [at EXCEPT ![r] = Leave(r, Transports, "none")]
      /\ UNCHANGED <<tables, redeem, slips>> /\ client[r] = "calling"
  BY DEF Answer, Set
<1>2. CASE at[r][t] = "ok"
  <2>1. created[r] = 1
    BY <1>2 DEF IInv, RegInv, CopiesRight, Copies
  <2>2. /\ client' = [client EXCEPT ![r] = "done"]
        /\ \E s \in {"secret", "none"} : slot' = [slot EXCEPT ![r] = s]
    BY <1>2 DEF Answer, Set
  <2> QED
    BY <1>1, <2>1, <2>2, ClientHears
<1>3. CASE at[r][t] # "ok"
  <2>1. /\ \E s \in {"ready", "idle"} : client' = [client EXCEPT ![r] = s] /\ (s = "idle" => r \notin New)
        /\ slot' = slot
    BY <1>3 DEF Answer, Restart, Set
  <2> QED
    BY <1>1, <2>1, ClientHears
<1> QED
  BY <1>2, <1>3

\* and a transport that gives up.
LEMMA GiveUpIInv ==
  ASSUME NEW r \in Regs, NEW t \in Transports PROVE IInv /\ GiveUp(r, t) => IInv'
<1> SUFFICES ASSUME IInv, GiveUp(r, t) PROVE IInv'
  OBVIOUS
<1>1. UNCHANGED <<tables, redeem, slips>> /\ client[r] = "calling" /\ slot' = slot
  BY DEF GiveUp
<1>2. CASE Restart(r) /\ at' = Set(at, r, Leave(r, Transports, "none"))
  <2>1. /\ \E s \in {"ready", "idle"} : client' = [client EXCEPT ![r] = s] /\ (s = "idle" => r \notin New)
        /\ at' = [at EXCEPT ![r] = Leave(r, Transports, "none")]
    BY <1>2 DEF Restart, Set
  <2> QED
    BY <1>1, <2>1, ClientHears
<1>3. CASE at' = Set(at, r, Leave(r, {t}, "failed")) /\ UNCHANGED client
  <2>1. at' = [at EXCEPT ![r] = Leave(r, {t}, "failed")] /\ client' = client
    BY <1>3 DEF Set
  <2> QED
    BY <1>1, <2>1, ClientHears
<1> QED
  BY <1>2, <1>3 DEF GiveUp

----------------------------------------------------------------------------
(* The broker's steps.                                                     *)

\* A copy moves to s, and the tables with it, so that it and the others are
\* right.
Moves(r, c, s) ==
  /\ at[r][c] # "none" /\ at' = [at EXCEPT ![r][c] = s] /\ client' = client
  /\ used \subseteq used'
  /\ s \in Begun => /\ created'[r] = 0 /\ r \in Legacy \cup used'
                    /\ \A d \in Copies \ {c} : at[r][d] \notin Begun
  /\ s = "ok" => created'[r] = 1
  /\ s = "read" => r \in Legacy
  /\ s = "carded" => card'[r] = "made"
  /\ \A d \in Copies \ {c} : /\ at[r][d] \in Begun => created'[r] = 0
                             /\ at[r][d] = "ok" => created'[r] = 1
                             /\ at[r][d] = "carded" => card'[r] = "made"

\* A copy of a call that moves on leaves the other copies, and the other
\* registrations, as they were; and its registration has been started.
LEMMA MoveRight ==
  ASSUME IInv, NEW r \in Regs, NEW c \in Copies, NEW s \in States, Moves(r, c, s)
  PROVE  /\ at' \in [Regs -> [Copies -> States]]
         /\ \A q \in Regs \ {r} : at'[q] = at[q]
         /\ CopiesRight(r)'
         /\ ~(r \in New /\ client[r] = "idle")
<1>1. /\ at' \in [Regs -> [Copies -> States]]
      /\ \A q \in Regs \ {r} : at'[q] = at[q]
      /\ at'[r][c] = s /\ \A d \in Copies \ {c} : at'[r][d] = at[r][d]
  BY DEF IInv, Types, Moves
<1>2. CopiesRight(r) /\ PuzzleRight(r)
  BY DEF IInv, RegInv
<1>3. \A a, b \in Copies : at'[r][a] \in Begun /\ at'[r][b] \in Begun => a = b
  BY <1>1, <1>2 DEF CopiesRight, Moves
<1>4. \A d \in Copies : /\ at'[r][d] \in Begun => created'[r] = 0
                        /\ at'[r][d] = "ok" => created'[r] = 1
                        /\ at'[r][d] = "read" => r \in Legacy
                        /\ at'[r][d] = "carded" => card'[r] = "made"
                        /\ at'[r][d] \in Begun => r \in Legacy \cup used'
  BY <1>1, <1>2 DEF CopiesRight, Moves
<1>5. client[r] # "calling" => \A t \in Transports : at'[r][t] = "none"
  BY <1>1, <1>2 DEF CopiesRight, Copies, Moves
<1>6. ~(r \in New /\ client[r] = "idle")
  BY <1>2 DEF PuzzleRight, Moves
<1>7. client' = client
  BY DEF Moves
<1> QED
  BY <1>1, <1>3, <1>4, <1>5, <1>6, <1>7 DEF CopiesRight

\* A step that leaves the tables alone.
LEMMA QuietStep ==
  ASSUME IInv, NEW r \in Regs, NEW c \in Copies, NEW s \in States,
         at[r][c] # "none", at' = [at EXCEPT ![r][c] = s],
         UNCHANGED <<client, slot, redeem, slips, used, created, card, row>>,
         s \in Begun => /\ created[r] = 0 /\ r \in Legacy \cup used
                        /\ \A d \in Copies \ {c} : at[r][d] \notin Begun,
         s = "ok" => created[r] = 1,
         s = "read" => r \in Legacy,
         s # "carded"
  PROVE  IInv'
<1>1. RegInv(r)
  BY DEF IInv
<1>2. Moves(r, c, s)
  BY <1>1 DEF RegInv, CopiesRight, Moves
<1>3. /\ at' \in [Regs -> [Copies -> States]]
      /\ \A q \in Regs \ {r} : at'[q] = at[q]
      /\ CopiesRight(r)' /\ ~(r \in New /\ client[r] = "idle")
  BY <1>2, MoveRight
<1>4. Types'
  BY <1>3 DEF IInv, Types
<1>5. \A q \in Regs \ {r} : Same(q)
  BY <1>3 DEF Same
<1>6. PuzzleRight(r)' /\ SecretRight(r)' /\ VoucherRight(r)'
  BY <1>1, <1>3 DEF RegInv, PuzzleRight, SecretRight, VoucherRight
<1> QED
  BY <1>3, <1>4, <1>5, <1>6, OneReg DEF RegInv

\* Sending a copy of the call to the broker keeps the invariant.
LEMMA SendCopyIInv ==
  ASSUME NEW r \in Regs, NEW t \in Transports PROVE IInv /\ SendCopy(r, t) => IInv'
<1> SUFFICES ASSUME IInv, SendCopy(r, t) PROVE IInv'
  OBVIOUS
<1>1. /\ t \in Copies /\ "wire" \in States /\ "wire" \notin Begun /\ at[r][t] # "none"
      /\ at' = [at EXCEPT ![r][t] = "wire"]
      /\ UNCHANGED <<client, slot, redeem, slips, used, created, card, row>>
  BY DEF SendCopy, Copies, States, Begun, tables
<1> QED
  BY <1>1, QuietStep

\* A request or an answer is lost, or the broker refuses.
LEMMA RefuseIInv ==
  ASSUME IInv, NEW r \in Regs, NEW c \in Copies, at[r][c] # "none", NEW s \in {"refused", "lost"},
         Reply(r, c, s), UNCHANGED <<client, slot, redeem, slips, used, created, card, row>>
  PROVE  IInv'
<1>1. PICK v \in {"none", "refused", "lost"} : at' = [at EXCEPT ![r][c] = v]
  BY DEF Reply, To
<1>2. v \in States /\ v \notin Begun /\ v \notin {"ok", "read", "carded"}
  BY DEF States, Begun
<1> QED
  BY <1>1, <1>2, QuietStep

\* So does the loss of a copy.
LEMMA LoseIInv == ASSUME NEW r \in Regs, NEW c \in Copies PROVE IInv /\ Lose(r, c) => IInv'
BY RefuseIInv DEF Lose, Still, tables, Begun

\* The steps of a copy in upgrade keep the invariant.
LEMMA UpgradeIInv == ASSUME NEW r \in Regs, NEW c \in Copies PROVE IInv /\ Upgrade(r, c) => IInv'
<1> SUFFICES ASSUME IInv, Upgrade(r, c) PROVE IInv'
  OBVIOUS
<1>1. /\ r \in Legacy /\ at[r][c] # "none" /\ created[r] \in {0, 1}
      /\ UNCHANGED <<client, slot, redeem, slips, used, created, card, row>>
  BY DEF Upgrade, Still, tables, IInv, Types
<1>2. CASE Reply(r, c, "refused")
  BY <1>1, <1>2, RefuseIInv
<1>3. CASE created[r] > 0 /\ Reply(r, c, "ok")
  <2>1. PICK v \in {"none", "ok"} : at' = [at EXCEPT ![r][c] = v]
    BY <1>3 DEF Reply, To
  <2>2. v \in States /\ v \notin Begun /\ v \notin {"read", "carded"} /\ created[r] = 1
    BY <1>1, <1>3 DEF States, Begun
  <2> QED
    BY <1>1, <2>1, <2>2, QuietStep
<1>4. CASE To(r, c, "read")
  <2>1. "read" \in States /\ "read" \notin Begun /\ at' = [at EXCEPT ![r][c] = "read"]
    BY <1>4 DEF States, Begun, To
  <2> QED
    BY <1>1, <2>1, QuietStep
<1> QED
  BY <1>2, <1>3, <1>4 DEF Upgrade

\* The step that inserts a secret keeps the invariant: no other copy
\* has begun.
LEMMA InsertSecretIInv ==
  ASSUME NEW r \in Regs, NEW c \in Copies PROVE IInv /\ InsertSecret(r, c) => IInv'
<1> SUFFICES ASSUME IInv, InsertSecret(r, c) PROVE IInv'
  OBVIOUS
<1>1. /\ at[r][c] # "none" /\ created[r] \in {0, 1}
      /\ r \in Legacy /\ \A d \in Copies : at[r][d] \notin Begun
      /\ UNCHANGED <<client, slot, redeem, slips, used, created, card, row>>
  BY DEF InsertSecret, Still, tables, IInv, Types, RegInv, CopiesRight
<1>2. CASE Reply(r, c, "refused")
  BY <1>1, <1>2, RefuseIInv
<1>3. CASE ~(created[r] > 0) /\ To(r, c, "inserted")
  <2>1. "inserted" \in States /\ created[r] = 0 /\ at' = [at EXCEPT ![r][c] = "inserted"]
    BY <1>1, <1>3 DEF States, To
  <2> QED
    BY <1>1, <2>1, QuietStep
<1> QED
  BY <1>2, <1>3 DEF InsertSecret

\* The puzzle is burnt: it was not, so nothing has come of it.
LEMMA VerifyIInv == ASSUME NEW r \in Regs, NEW c \in Copies PROVE IInv /\ Verify(r, c) => IInv'
<1> SUFFICES ASSUME IInv, Verify(r, c) PROVE IInv'
  OBVIOUS
<1>1. /\ r \in New /\ at[r][c] # "none"
      /\ UNCHANGED <<client, slot, redeem, slips, created, card, row>> /\ RegInv(r)
  BY DEF Verify, Still, IInv
<1>2. CASE Reply(r, c, "refused") /\ UNCHANGED used
  BY <1>1, <1>2, RefuseIInv
<1>3. CASE r \notin used /\ used' = used \cup {r} /\ To(r, c, "inserted")
  <2>1. /\ at' = [at EXCEPT ![r][c] = "inserted"] /\ "inserted" \in States
        /\ used \subseteq used' /\ used' \subseteq New /\ r \in used'
    BY <1>1, <1>3 DEF To, States, IInv, Types
  <2>2. created[r] = 0 /\ \A d \in Copies : at[r][d] \notin Begun \cup {"ok", "carded"}
    BY <1>1, <1>3, AccountsAssumption DEF RegInv, PuzzleRight, CopiesRight, Begun
  <2>3. /\ at' \in [Regs -> [Copies -> States]]
        /\ \A q \in Regs \ {r} : at'[q] = at[q]
        /\ CopiesRight(r)' /\ ~(r \in New /\ client[r] = "idle")
    <3>1. Moves(r, c, "inserted")
      BY <1>1, <2>1, <2>2 DEF Moves
    <3> QED
      BY <2>1, <3>1, MoveRight
  <2>4. Types'
    BY <1>1, <2>1, <2>3 DEF IInv, Types
  <2>5. \A q \in Regs \ {r} : Same(q)
    BY <1>1, <1>3, <2>3 DEF Same
  <2>6. PuzzleRight(r)' /\ SecretRight(r)' /\ VoucherRight(r)'
    BY <1>1, <2>1, <2>3 DEF RegInv, PuzzleRight, SecretRight, VoucherRight
  <2> QED
    BY <2>3, <2>4, <2>5, <2>6, OneReg DEF RegInv
<1> QED
  BY <1>2, <1>3 DEF Verify

\* A card is made, for a user that is not committed yet.
LEMMA CreateGiftcardIInv ==
  ASSUME NEW r \in Regs, NEW c \in Copies PROVE IInv /\ CreateGiftcard(r, c) => IInv'
<1> SUFFICES ASSUME IInv, CreateGiftcard(r, c) PROVE IInv'
  OBVIOUS
<1>1. /\ at[r][c] = "inserted"
      /\ UNCHANGED <<client, slot, redeem, slips, used, created, row>> /\ RegInv(r)
  BY DEF CreateGiftcard, Still, IInv
<1>2. /\ created[r] = 0 /\ r \in Legacy \cup used
      /\ \A d \in Copies \ {c} : at[r][d] \notin Begun \cup {"ok", "carded"}
      /\ client[r] # "done" /\ redeem[r] = "idle" /\ ~row[r]
  BY <1>1 DEF RegInv, CopiesRight, Begun, SecretRight, VoucherRight
<1>3. card' = card \/ card' = [card EXCEPT ![r] = "made"]
  BY DEF CreateGiftcard, Set
<1>4. PICK s \in {"carded", "refused", "none"} :
        at' = [at EXCEPT ![r][c] = s] /\ (s = "carded" => card' = [card EXCEPT ![r] = "made"])
  BY DEF CreateGiftcard, To, Reply, Set
<1>5. /\ card' \in [Regs -> {"none", "made", "spent"}]
      /\ \A q \in Regs \ {r} : card'[q] = card[q]
      /\ s = "carded" => card'[r] = "made"
      /\ s \in States
  BY <1>3, <1>4 DEF IInv, Types, States
<1>6. /\ at' \in [Regs -> [Copies -> States]]
      /\ \A q \in Regs \ {r} : at'[q] = at[q]
      /\ CopiesRight(r)' /\ ~(r \in New /\ client[r] = "idle")
  <2>1. Moves(r, c, s)
    BY <1>1, <1>2, <1>4, <1>5 DEF Moves
  <2> QED
    BY <1>5, <2>1, MoveRight
<1>7. Types'
  BY <1>1, <1>5, <1>6 DEF IInv, Types
<1>8. \A q \in Regs \ {r} : Same(q)
  BY <1>1, <1>5, <1>6 DEF Same
<1>9. PuzzleRight(r)' /\ SecretRight(r)' /\ VoucherRight(r)'
  <2>1. r \in New => r \in used
    BY <1>2, AccountsAssumption
  <2>2. PuzzleRight(r)'
    BY <1>1, <1>6, <2>1 DEF PuzzleRight
  <2>3. SecretRight(r)'
    BY <1>1 DEF RegInv, SecretRight
  <2>4. created'[r] = 0 /\ redeem'[r] = "idle" /\ ~row'[r]
    BY <1>1, <1>2
  <2>5. VoucherRight(r)'
    BY <2>4 DEF VoucherRight
  <2> QED
    BY <2>2, <2>3, <2>5
<1> QED
  BY <1>6, <1>7, <1>8, <1>9, OneReg DEF RegInv

\* The user is committed with the voucher, or nothing is.
LEMMA CommitIInv == ASSUME NEW r \in Regs, NEW c \in Copies PROVE IInv /\ Commit(r, c) => IInv'
<1> SUFFICES ASSUME IInv, Commit(r, c) PROVE IInv'
  OBVIOUS
<1>1. /\ at[r][c] = "carded" /\ UNCHANGED <<client, slot, redeem, slips, used, card>> /\ RegInv(r)
  BY DEF Commit, Still, IInv
<1>2. /\ created[r] = 0 /\ r \in Legacy \cup used /\ card[r] = "made"
      /\ \A d \in Copies \ {c} : at[r][d] \notin Begun \cup {"carded"}
      /\ client[r] # "done" /\ redeem[r] = "idle"
  BY <1>1 DEF RegInv, CopiesRight, Begun, SecretRight
<1>3. CASE Reply(r, c, "refused") /\ UNCHANGED <<created, row>>
  BY <1>1, <1>3, RefuseIInv
<1>4. CASE /\ created' = [created EXCEPT ![r] = @ + 1] /\ row' = Set(row, r, TRUE)
           /\ Reply(r, c, "ok") \/ Reply(r, c, "refused")
  <2>1. PICK s \in {"ok", "refused", "none"} : at' = [at EXCEPT ![r][c] = s]
    BY <1>4 DEF To, Reply
  <2>2. /\ created' \in [Regs -> {0, 1}] /\ created'[r] = 1
        /\ \A q \in Regs \ {r} : created'[q] = created[q]
    BY <1>2, <1>4 DEF IInv, Types
  <2>3. /\ row' \in [Regs -> BOOLEAN] /\ row'[r] = TRUE
        /\ \A q \in Regs \ {r} : row'[q] = row[q]
    BY <1>4 DEF IInv, Types, Set
  <2>4. s \in States /\ s \notin Begun /\ s \notin {"read", "carded"}
    BY DEF States, Begun
  <2>5. /\ at' \in [Regs -> [Copies -> States]]
        /\ \A q \in Regs \ {r} : at'[q] = at[q]
        /\ CopiesRight(r)' /\ ~(r \in New /\ client[r] = "idle")
    <3>1. Moves(r, c, s)
      BY <1>1, <1>2, <2>1, <2>2, <2>4 DEF Moves
    <3> QED
      BY <2>4, <3>1, MoveRight
  <2>6. Types'
    BY <1>1, <2>2, <2>3, <2>5 DEF IInv, Types
  <2>7. \A q \in Regs \ {r} : Same(q)
    BY <1>1, <2>2, <2>3, <2>5 DEF Same
  <2>8. PuzzleRight(r)' /\ SecretRight(r)' /\ VoucherRight(r)'
    <3>1. r \in New => r \in used
      BY <1>2, AccountsAssumption
    <3>2. PuzzleRight(r)'
      BY <1>1, <2>5, <3>1 DEF PuzzleRight
    <3>3. SecretRight(r)'
      BY <1>1, <1>2, <2>2 DEF SecretRight
    <3>4. VoucherRight(r)'
      BY <1>1, <1>2, <2>2, <2>3 DEF VoucherRight
    <3> QED
      BY <3>2, <3>3, <3>4
  <2> QED
    BY <2>5, <2>6, <2>7, <2>8, OneReg DEF RegInv
<1> QED
  BY <1>3, <1>4 DEF Commit

----------------------------------------------------------------------------
(* redeem_voucher.                                                         *)

\* The steps of a redemption keep the invariant.
LEMMA RedemptionIInv == ASSUME NEW r \in Regs PROVE IInv /\ Redemption(r) => IInv'
<1> SUFFICES ASSUME IInv, Redemption(r) PROVE IInv'
  OBVIOUS
<1>1. UNCHANGED <<client, slot, at, used, created>> /\ RegInv(r)
  BY DEF Redemption, RedeemBegin, SpendGiftcard, DeleteVoucher, calls, tables, IInv
<1>2. /\ card' = card \/ (row[r] /\ card[r] = "made" /\ card' = [card EXCEPT ![r] = "spent"])
      /\ row' = row \/ row' = [row EXCEPT ![r] = FALSE]
      /\ slips' = slips \/ slips' = slips \cup {r}
      /\ \E v \in {"idle", "spending", "deleting"} : redeem' = [redeem EXCEPT ![r] = v]
      /\ client[r] = "done"
  BY <1>1 DEF Redemption, RedeemBegin, SpendGiftcard, DeleteVoucher, tables, Set, RegInv, SecretRight
<1>3. /\ card' \in [Regs -> {"none", "made", "spent"}] /\ row' \in [Regs -> BOOLEAN]
      /\ slips' \subseteq Regs /\ redeem' \in [Regs -> {"idle", "spending", "deleting"}]
  <2>1. card' \in [Regs -> {"none", "made", "spent"}]
    BY <1>2 DEF IInv, Types
  <2>2. row' \in [Regs -> BOOLEAN]
    BY <1>2 DEF IInv, Types
  <2>3. slips' \subseteq Regs
    BY <1>2 DEF IInv, Types
  <2>4. redeem' \in [Regs -> {"idle", "spending", "deleting"}]
    BY <1>2 DEF IInv, Types
  <2> QED
    BY <2>1, <2>2, <2>3, <2>4
<1>4. Types'
  BY <1>1, <1>3 DEF IInv, Types
<1>5. \A q \in Regs \ {r} : Same(q)
  BY <1>1, <1>2 DEF IInv, Types, Same
<1>6. created[r] = 1 /\ (r \in New => r \in used)
  BY <1>1, <1>2 DEF RegInv, SecretRight, PuzzleRight
<1>7. CopiesRight(r)'
  <2>1. \A c \in Copies : at[r][c] \notin Begun /\ at[r][c] # "carded"
    BY <1>1, <1>6 DEF RegInv, CopiesRight, Begun
  <2> QED
    BY <1>1, <2>1 DEF RegInv, CopiesRight
<1>8. PuzzleRight(r)' /\ SecretRight(r)'
  BY <1>1, <1>2, <1>6 DEF RegInv, PuzzleRight, SecretRight
<1>9. VoucherRight(r)'
  <2>1. CASE RedeemBegin(r)
    BY <1>1, <1>6, <2>1 DEF RedeemBegin, tables, Set, RegInv, VoucherRight, IInv, Types
  <2>2. CASE SpendGiftcard(r)
    BY <1>1, <1>6, <2>2 DEF SpendGiftcard, Set, RegInv, VoucherRight, IInv, Types
  <2>3. CASE DeleteVoucher(r)
    BY <1>1, <1>6, <2>3 DEF DeleteVoucher, Set, RegInv, VoucherRight, IInv, Types
  <2> QED
    BY <2>1, <2>2, <2>3 DEF Redemption
<1> QED
  BY <1>4, <1>5, <1>7, <1>8, <1>9, OneReg DEF RegInv

----------------------------------------------------------------------------

\* Every step keeps the invariant.
LEMMA NextIInv == IInv /\ [Next]_vars => IInv'
<1> SUFFICES ASSUME IInv, [Next]_vars PROVE IInv'
  OBVIOUS
<1>1. CASE UNCHANGED vars
  <2>1. Types'
    BY <1>1 DEF vars, calls, tables, IInv, Types
  <2>2. ASSUME NEW r \in Regs PROVE RegInv(r)'
    <3>1. CopiesRight(r)' /\ PuzzleRight(r)'
      BY <1>1 DEF vars, calls, tables, IInv, RegInv, CopiesRight, PuzzleRight
    <3>2. SecretRight(r)' /\ VoucherRight(r)'
      BY <1>1 DEF vars, calls, tables, IInv, RegInv, SecretRight, VoucherRight
    <3> QED
      BY <3>1, <3>2 DEF RegInv
  <2> QED
    BY <2>1, <2>2 DEF IInv
<1>2. ASSUME NEW r \in Regs, Client(r) PROVE IInv'
  BY <1>2, CallIInv, SendCopyIInv, AnswerIInv, GiveUpIInv DEF Client
<1>3. ASSUME NEW r \in Regs, NEW c \in Copies, Broker(r, c) PROVE IInv'
  BY <1>3, VerifyIInv, UpgradeIInv, InsertSecretIInv, CreateGiftcardIInv, CommitIInv DEF Broker
<1> QED
  BY <1>1, <1>2, <1>3, StartIInv, RedemptionIInv, LoseIInv DEF Next

\* The invariant holds in every behaviour of the registration.
LEMMA Inductive == Spec => []IInv
BY InitIInv, NextIInv, PTL DEF Spec

\* However copies of a request race over the transports, are lost, repeated or
\* go on after the client gave up, a puzzle or a password yields one secret at
\* most, and the client shows a secret only when it is committed
\* (register_user_secret, upgrade_to_secret, RaceTransport).
THEOREM SecretOnce == Spec => []OneSecret
BY Inductive, IInvImplies, PTL

\* A gift card without a user stems from a transaction that is under way or
\* cannot be repeated, and the voucher a user is shown stands for an unspent
\* card unless a redemption was cut short or spent another card
\* (register_secret, redeem_voucher).
THEOREM CardsKept == Spec => []CardsAccounted
BY Inductive, IInvImplies, PTL
=============================================================================
