# Verification of geph5

TLA+ models of geph5, checked with TLC on small instances and, where a property
matters most, proved with TLAPS for every value of the constants. Every
definition is translated from the Rust source; `PROJECT.json` maps each to its
lines, and lists the hazards of the code with the properties that cover them.

## The system

A geph5 **client** asks the **broker** for tokens and routes, dials an **exit**
through a **bridge**, and proxies connections over it.

| layer | where | what it does |
|---|---|---|
| sillad | `libraries/sillad*` | pipes, dialers and listeners: TCP, TLS, sosistab3 obfuscation, conntest |
| picomux | `libraries/picomux` | multiplexes streams, with flow control and pings, over one pipe |
| misc-rpc, mizaru2, broker-protocol | `libraries/` | client-exit negotiation, blind signatures, RPC types |
| broker | `binaries/geph5-broker` | accounts, tokens, vouchers, exits, bridges, routes, on Postgres and caches |
| bridge | `binaries/geph5-bridge` | forwards TCP ports to exits through pooled muxes |
| exit | `binaries/geph5-exit` | authenticates clients, limits and proxies their streams |
| client | `binaries/geph5-client` | sessions, local token database, broker transports, proxies, VPN |
| GUI, prototest | `binaries/geph5-client-gui`, `geph5-prototest` | user interface, manual test tool |

A connection of an application takes this way, and the modules follow it:
it enters the client (ClientFront, HttpProxy) and becomes a request to the
session instances (ClientSession). An instance has a connect token (ConnToken)
and a dialer for an exit (Exits, Routes); it dials and says hello (Dialing) and
has an encrypted pipe (SosistabListener, SosistabPipe, CryptPipe), mostly through
a bridge (B2e). On the pipe runs a picomux session (Picomux) with its streams
(PicomuxFlow, PicomuxOutgoing, PicomuxStream). The exit serves each stream
(ExitStreams, ExitIo). The account behind the token is the broker's (Accounts,
Subscriptions).

## Modules

**Multiplexing.**

*PicomuxFlow*: one direction of one stream. `permits` is the sender's semaphore,
`net` the PSH frames on the wire, `buffer` the receiver's channel,
`remote_window` and `target` the locals of `outgoing_task`, `grants` the running
totals of MORE frames under way. Totals rather than amounts make conservation of
credit a plain sum. The bandwidth estimate (`bdp.rs`) is a choice from
`TargetChoices`, so the results cover any estimate, NaN after a division by a
zero interval included: the cast turns NaN into 0 and the code clamps it.

*PicomuxOutgoing*: the queue that all streams write frames to. `send` enqueues
and then waits until fewer than `Limit` frames are queued or the writer failed.
The order in the failure path is the code's: waiters are notified when
`outgoing_loop` returns, and only then is `err` set.

*PicomuxStream*: both directions of one stream, with the applications at both
ends, the two movers that race, the FIN that a dropped stream sends, and the
reader loop. The window is fixed at `Window`; PicomuxFlow covers its growth.

*ByteStream*: what one direction of any pipe promises. PicomuxStream,
SosistabPipe and CryptPipe each define a refinement mapping `Direction` to it.

*Picomux*: a session of two muxes: `open` with its forced ping, `accept` with a
bounded queue, the reader loop, pings and pongs, streams ending, the drop of a
mux and the silent death of the link. Ids are distinct; the code picks them at
random and retries on a collision it knows of.

**From client to exit.**

*Dialing*: a dial in progress is the tree of its pending futures, and `Steps`
gives the forms it may take next. `world` holds the routes of the broker and what
each address does with a connection: it may work, refuse, hang, fall silent, be
rejected after the test, or break at any step (`flaky`). The stack of listeners at
the exit and the two hellos follow, with the choice between a shared secret and key
exchange. The 30 seconds around an attempt may be over at any moment, also when the
exit has read the hello or is about to answer it. SessionAgreed says nothing of such
an attempt: it may leave a session behind at the exit.

*SosistabListener*: dialers, tasks of `listen_loop`, the memory of handshakes with
its clean-up when it has doubled, and a clock. *SosistabPipe*: one direction of an
established pipe, in units of a header, a body byte and a tag, each with the nonce
it was encrypted under; the lower pipe takes and gives any number of units. It is
taken for granted that a write is polled until it completes and flushed
afterwards, as the callers do: a flush in the middle of a write would send the
buffered part twice. *CryptPipe*: the two tasks of `ClientExitCryptPipe` and their
bipes. An application that only closes leaves the write task sending empty frames,
as in the code; `MaxFrames` bounds it.

*B2e*: a forwarded port of a bridge, its pool of workers with one session each,
and the exit's tasks, table and processes for these sessions. A task that fails, for
metadata that does not parse or for a dead session, drops its mux, and the session is
dead for the bridge as well (`Abandon`).

*ExitStreams*: metadata and streams in the order of the multiplexer, the limit on
tasks step by step (count, notify, wait for protection, test), resolution with
the filter and the cache that all sessions share, and the ports a Free user may
connect to. *ExitIo*: the rate limiter
under the copies of one user, and concurrent DNS answers on one stream.

**The client.**

*ClientFront*: packets through the two VPN queues and their shared event, fake DNS
with its random addresses, SOCKS5, and `open_conn`, which passes through, asks
directly or tunnels. *HttpProxy*: one request; header values are sequences of
tokens, and an authority has a host, a port and perhaps user info. In two cases
the code does not do what a reader of the request might expect, and RelayedAsMeant
leaves them out by name: a `close` that is listed with other words is not seen
(`CloseAlone`), and the user info of a Host header without a port becomes part of
the name that is dialed (`WithUser`). *ClientSession*: the instances of
`client_inner` and the queue of requests that they share and pass on ("hot
potato") when a mux dies. That dropping the nursery drops the tasks in it is taken
from how the code uses the macro. *TraffCount*: the traffic history, with a clock
finer than its seconds.

*ConnToken*: the client's connect tokens, with the broker's side of them.
`auth_loop` refreshes the tokens of this and the next epoch step by step, each
await a step of its own, while instances wait in `db_read_or_wait`. A database
statement and the notification after it are two steps, and a timeout may fall
between them (`unsaid`). So are the read of a waiting instance and its sleep.
`seen` is what the broker's cached copy of the subscriptions table says; the table
is external, so a reload may find anything.

**The broker.**

*Accounts*: the registration task, its call raced over transports (plain or with
a preferred one), each copy of the call as it runs at the broker, the
transaction with the gift card inside it, and the redemption in two steps.
*Subscriptions*: `get_subscription_expiry` between a payment and its answer, with
its two caches. *Exits* and *Routes*: registration loops, rows that expire,
garbage collection, caches, and who uses them; all with ages in ticks. A round of
garbage collection may fail or be late, and `missed` counts the time lost to that;
a failed one ends the loop, which is respawned and sleeps before it tries again. An
exit whose clock is too far behind (`behind`) has its descriptors refused.

**MC modules** give the models their instances.

| module | parts |
|---|---|
| MCPicomux | Picomux, with two calls from one end |
| MCStreams | PicomuxFlow, PicomuxStream, PicomuxOutgoing, and Picomux with one call |
| MCInbound | Subscriptions, SosistabListener, B2e |
| MCClient | ClientFront, ClientSession, ConnToken (the constant `Parts` says which) |
| MCDirectory | Exits, Routes |
| MCExit | ExitStreams, ExitIo |
| MCTransport | Dialing, HttpProxy, SosistabPipe, CryptPipe |

All but the first put several independent models into one TLC run. Each has a
variable `part`, chosen in the initial state; only that part takes steps, under
its own fairness, and the others keep an initial state. A property of one part
is checked on the behaviours of that part, and is trivially true of the others.
This is no composition of the parts. Interaction is modelled inside modules:
client and broker in ConnToken and Accounts, exit, broker and client in Exits,
bridge and broker in Routes, bridge and exit in B2e, broker, client and exit in
Dialing. The specifications that the theorems are about are those of the parts
themselves (`Spec`, `Io!Spec`, `Bridge!Spec` and so on), not of the sum.

**Proof modules**: PicomuxFlowProofs, PicomuxStreamProofs and PicomuxProofs
(multiplexing); InboundProofs, ExitProofs, ClientProofs and DirectoryProofs, each
about the parts of the MC module of that name; AccountsProofs.

## Runs

| run | module | shows |
|---|---|---|
| streams | MCStreams | window 3 to 8: credit is conserved, the window never empties, a waiting sender is served, a close arrives; a stream implements ByteStream and ends at both ends; every `send` ends; on a link that may die, sessions end and streams known to one end only are resolved |
| sessions | MCPicomux | on a link that answers in time no mux dies and no stream is orphaned |
| inbound | MCInbound | a payment is seen behind two caches; a handshake is let through again only after the expiry; a dead bridge session costs one request at most, and an eviction from the exit's table costs no session |
| token | MCClient | Plus outlives the subscription by one epoch at most; no waiting instance misses the write of its token; after failures there is a token again, and a lasting subscription replaces Free tokens |
| client | MCClient | fake DNS keeps names apart unless their addresses collide; no packet waits for ever; a request is answered, whatever muxes die |
| accounts | Accounts | one secret per puzzle or password, gift cards are accounted for, a registration ends except in named situations |
| directory | MCDirectory | how old the registration behind an offered exit or a dialer can be; exits, dialers and routes recover after the last fault; a cached route has its listener |
| exit | MCExit | the filter holds for every stream, in spite of the shared cache of names; a task count over the limit is always matched by tasks that will test it, and falls back; the rate limiter holds over several copies; DNS answers stay whole |
| transport | MCTransport | each step of a dial keeps to the outcomes its tree promises, compared with a recursive reference, and loses none that is certain; client and exit agree on keys, and an attempt that fails in time had a reason to; both encrypting pipes implement ByteStream; an HTTP request is relayed as its headers meant |
| registration, token_comment, traffic_doc | Accounts, ConnToken, TraffCount | expected violations, see Findings |

**Bounds.** `MaxUnread` and `MaxMore` cap frames in the network; they equal
MAX_WINDOW, which credit bounds both by, so they cut nothing. The code's own
windows, 10 and 1500, are left to the proofs, whose assumption TLC evaluates for
them (`CodeWindows`); so are quanta above 1, which need a window of 20 or more.
Two senders and `Limit` 2 make the writer's queue exceed its limit. Two bodies
against a window of 1 make a sender wait. Two calls against an accept queue of 1
make it overflow. Two workers, a queue of one and two processes let a worker lose
its session while a request waits, and let b2e_table evict a process that a task
still holds. Two epochs let one turn during a refresh; `Expiries` is one late
epoch where only the existence of a row matters, and all epochs in token_comment.
Epochs turn at most once during a refresh or a wait, because both are cut after 30
seconds and an epoch is a day. Three instances are the code's CONCURRENCY. Three
payments of two users suffice for one payment between two others in the same
second. Four connections to a listener let one handshake come again before and
after the clean-up. Two names and two fake addresses collide. Three streams
against a limit of one leave two to end. Two transports race, and three faults let
both copies of a call get lost and a service fail besides. Of two exits one is in
a free country and one may have a slow clock; slow clocks and Free clients are not
combined. One fault there fails a refresh, fails or delays a round of garbage
collection, sets a clock back or stops an exit. Lifetimes of rows, lists, caches
and mappings are shortened to a few ticks each. In the code a listener's idle time
(3600 s) exceeds the life of a cached route (600 s), which RouteHasListener rests
on; the instance keeps that order (4 and 3). For exits the code has 10 s for row,
list and dialer and 1 to 2 s for a round of garbage collection; RecentlyAlive adds
them up, whatever they are, and what was lost to failed rounds. A call of an exit
or a client is taken to end within a tick. In transport a lower pipe of 3 units is
shorter than two frames, so frames are split at every place. Six seconds against a
history of three make bins fall out.

**Deadlock** is checked where a system goes on for ever (streams, token,
directory). The others stop when their bounded inputs are used up.

**Fairness** is weak fairness of the tasks that smolscale schedules: movers,
reader loops, writer, ping timer, the loops of the VPN. Applications owe nothing,
except that one that reads goes on reading in streams. `Reap`, the ping timeout
that drops a dead mux with its senders, is fair because the timer always fires
once liveness is set. Token liveness assumes that refreshes fail only finitely
often; a failed refresh rests in a state of its own (the 10 s sleep of
`auth_loop`), so the assumption excludes no refresh that completes. ClientSession
assumes that some instance in the end connects and stays connected, and strong
fairness of taking from the queue, whose receivers are woken in turn. In Accounts
each copy of a call goes on at the broker. Only a race with no transport selected
has a timeout in the code, ten seconds for each copy, and only there is giving up
fair (`Racing`). A selected transport, and those of a preferred race, may wait for a
lost answer for ever, with the lock in hand or without one; RegistrationEnds excepts
that (`Hung`). The retry of a registration is strongly fair because the lock of the
racing transport is handed over in turn. In Exits and
Routes timers fire and clients ask again; nothing makes a machine start, and
faults are finite. ExitStreams assumes nothing of copies and connections: streams
may live for ever and the count still comes back; the streams are finitely many,
so the count is not pushed up again and again.

## Proofs

All theorems hold for arbitrary constants under the named assumptions, which TLC
evaluates for the constants of the runs.

**PicomuxFlow** satisfies TypeOK, CreditConserved, WindowNeverEmpty,
NothingDropped and WindowBounded for all windows 3 <= INIT_WINDOW <= MAX_WINDOW <
65536 that meet the last condition of `WindowAssumption`, any targets between them
and any bounds. That condition says that applying MinQuantum three times to
MAX_WINDOW, with one added in between, leaves no more than INIT_WINDOW; the
code's 10 and 1500 meet it. Two parts of the inductive invariant are needed
beyond the properties. `CreditBounded` is the half of CreditConserved that
survives the end of the sender: a running receiver never has more frames and
credit in flight than its window, so consuming one cannot wrap the subtraction.
`WindowShape` keeps the window from emptying. A MORE is withheld only when it is
worth less than the quantum of the previous target, so a window that has shrunk
to 2, then to 1, bounds the target of that moment ever more tightly; at 1 the
next quantum is at most INIT_WINDOW, hence at most any target, and a MORE must
follow. The argument uses that MinQuantum grows with the target
(`MinQuantumMonotone`). `GrantsOrdered` makes the running totals behave when the
first MORE arrives.

**PicomuxStream implements ByteStream** (`Refinement`, assuming `TwoEnds`), for
any window, pipe and number of bodies. The invariant says where bodies are:
`Accounted` puts each written body in exactly one of the writer's pipe, its
mover, the wire, the buffer, the other mover, the reader's pipe and what was
read; it is an equality unless the stream is cut. `FinLast` says that FIN is the
last frame and is sent by a task that has ended, so that nothing can be behind
it, and `Gone` that an ended task holds nothing. Together, at an uncut end of the
reader nothing is left on the way and the writer has closed (`CleanEnd`), which
is what the end-of-file step of ByteStream asks for. Then each action maps to a
step of ByteStream or a stutter.

**Picomux** satisfies NoOrphan (`StreamsResolved`), for any calls and any capacity
of the accept queue (`MuxAssumption`), and HealthyStaysUp (`HealthyMuxesStayUp`),
assuming as that property does that the link answers in time (`~SlowLink`).
`Answered` says that an end which awaits a pong has the ping or the pong on a
wire, or a pong to take. `Tracked` follows each stream over both wires, tables
and buffers: its SYN is put on the wire once and ahead of any FIN (`Ordered`),
the receiver has no entry while it is there, and an entry at one end only has a
FIN coming. The first keeps the timer from firing, the second excludes a duplicate
SYN; both are about sessions with both ends up, and `DeadStays` says that no other
session becomes one.

**Subscriptions** satisfies PaidSeen for any users, number of payments and
length of seconds. The invariant follows freshness along the caches: the second
cached for a slot is no earlier than a payment of an earlier slot (`TsFresh`),
the table cached for a second has everyone who paid in earlier ones
(`SubsFresh`), and a call under way knows as much as what it read (`CallFresh`).

**SosistabListener** satisfies the action property RepeatsApart for any number of
connections, skews and any expiry time (`WaitAssumption`). `Remembered` says that
the memory has the last time of every handshake that was let through within the
expiry time, also after a clean-up, which removes only older ones.

**B2e** satisfies LossBounded and SessionSurvives for any finite set of workers,
any connections, processes and number of faults (`BridgeAssumption`). LossBounded
bounds lost requests by deaths and is not inductive: a second request could be
lost to the same death. `DeathsCounted` bounds them by the dead sessions that no
worker holds any more, and `Own` says that a session has one worker at most, so
that a loss always releases a session; a session that the exit's task abandons is one
of the dead. SessionSurvives rests on `SendersRun`: a process in the table or behind
a task's sender is running, so that the table's eviction alone ends none.

**ExitStreams** satisfies FilterHonoured and ExcessPending for any finite set of
streams (`StreamsAssumption`), any limit (`LimitAssumption`) and any destinations
of the four kinds (`DestsAssumption`). `CountsLive` says that TASK_COUNT is the
number of handles not yet dropped, and `FewWait` that no more than the limit of
them have passed the test since the last notification; the rest are pending. For
the filter, `KnowsFilter` says that the metadata is at the head of the queue
until the session knows it and that no stream's task starts earlier, and
`Queued` that a stream is queued once and has no task before it is taken out.

**ExitIo** satisfies RateKept and AnswersWhole for any finite set of copies, any
queries, rate, burst, loads and time, if no read gives more than the most one wait
is charged for (`IoAssumption`; in the code a read gives 8192 or 65535 bytes at
most, and a charge is cut at 100000). `Spent` adds to what was written the tokens
left and the bytes charged for and not yet written; the latter are counted as a
set of pairs of copy and position, so that no sum over the copies is needed. For
the answers, `Locked` says who holds the lock and `Half` that the stream ends with
a length exactly while its holder has still to write the body.

**ClientFront** satisfies NameKept for any connections, names, addresses, queue
and pool sizes (`FrontAssumption`: no name is the marker for none, and no
connection that for a DNS task). `WayBack` says that every address given to
anyone, in the forward table, in an answer under way or at an application, leads
back to the name or has collided; `Begun` that a connection whose packets are
under way has a name. **ConnToken** satisfies PlusOutlivesByOne for any number of
epochs, expiries and waiters. `InTime` says that the refresh works at most one
epoch ahead and that the history of Plus keeps up with the broker's view;
`SignedInTime` extends the bound to a token that is signed and not yet written. It
also satisfies WakeupKept (`WakeupsKept`). The step that could lose a wakeup is
the read before the sleep, so `WaitInv` says the same of an instance that has
found its token absent and does not sleep yet: if the token is there now, the
instance was notified, or will be, or a write was cut off. The listener exists
from before the read, so a notification reaches the instance in either state.

**Accounts** satisfies OneSecret and CardsAccounted for any registrations and
transports (`AccountsAssumption`: no registration is both new and a conversion,
and the late copy of a call is on no transport). The invariant is a conjunction
over registrations, and `OneReg` reduces each step to the one it concerns. Its
parts: of the copies of a call one at most has begun what it cannot give back, and
only while there is no secret (`CopiesRight`); a puzzle that is not burnt has
brought nothing (`PuzzleRight`); client and slot show a committed secret only
(`SecretRight`); and a voucher stands for an unspent card, but for the two steps
of a redemption (`VoucherRight`).

**Exits** satisfies RecentlyAlive for all lifetimes and clocks (`TimesAssumption`:
they are natural numbers). Each copy of a registration has a bound on its age that
adds the age of the copy: row, list, choice and dialer (`RowYoung`, `ListYoung`,
`PickYoung`, `DialerYoung`). A row outlives its expiry by the time since the last
round began and by what failed and late rounds lost, which only grows (`AgeGrows`).
**Routes** satisfies RouteHasListener for all lifetimes with a
route's not above a listener's (`RoutesAssumption`); a cached route and its
listener's entry have the same age, since one call makes both (`RouteInv`).

**Model-checked only.** All liveness, which is out of the prover's reach, as is
ENABLED. RelayedAsMeant: what HttpProxy relays is computed by recursion over
header lists, and that it is what was meant for every list needs induction over
data. DialKeepsItsPromise and SessionAgreed: the trees of Dialing and their
reference are RECURSIVE operators, and the prover takes no module that has them.
SosistabImplements and CryptImplements: the refinements are safety properties
like that of PicomuxStream and are not proved yet. The invariants above were
checked with TLC on the instances of the runs before they were proved. ByteStream
promises safety only: that bytes arrive in the end is WindowOpens,
CloseReachesReceiver and BothEnd.

## Findings

A registration solves one puzzle and repeats its call until it succeeds. The
client's transports may send the call twice. The copy that comes second finds the
puzzle burnt, and if its error is taken as the result, every later round is
refused, although the log says "restarting registration" (`control_prot.rs:201`):
run registration. RegistrationEnds says, for the instance of its run, what else can
keep a registration from ending: a call that has no timeout and whose last answer was
lost, its own or that of whoever holds the lock.

The broker's `get_connect_token` says "when the user is Plus now, but won't be
Plus then, we should return WrongLevel" (`rpc_impl.rs:183`). It looks at neither
the epoch asked for nor the expiry: run token_comment. What does hold is
PlusOutlivesByOne.

`TraffCount` makes its first bin without moving `window_start`. If the first call
comes late, the second pushes a bin for every second since the counter was made,
so the bins are not "per-second" (`traffcount.rs:11`): run traffic_doc.

Two smaller disagreements are visible in the models and have no run of their own.
`Outgoing::send` is documented as "returning once it's fully written"
(`outgoing.rs:32`); it returns as soon as fewer than ten frames are queued, its
own among them. The test `test_traffic_cleanup` expects one bin after a silence
longer than the history (`traffcount.rs:139`); the code keeps the full number.
The Rust code itself was not executed.

## Not modelled, and why

- The GUI draws its state again every frame, and prototest is a manual tool.
- The broker's HTTP server, news and statistics, and the libraries for framing
  and metrics, are I/O around other libraries without protocol state.
- Cryptography (blind signatures, Merkle proofs, ciphers, key derivation) is taken
  to work: a unit decrypts under its own nonce, a signature is its content.
- The platform files of VPN mode configure interfaces and routes by commands.
- The exit's watchdog ends the process, and schedlag only measures; address and
  ASN arithmetic of the exit and the byte layout of picomux frames are data.
  A length cast to u16 in a SYN (`picomux/src/lib.rs:345`) would matter for
  metadata of 64 KiB, which no caller has.
- `poll_flush` of sosistab3 returns Pending after a partial write without a
  waker. SosistabPipe lets a poll come at any time, so it says nothing of when
  the flush goes on; that is up to executors that are not modelled.
- The connection status that three instances overwrite: nothing says what it
  should be, so there is nothing to check.
- Durations within Dialing, and real time in general: timeouts may fire whenever
  the code waits, and clocks are counted in coarse ticks.
