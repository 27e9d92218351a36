------------------------------ MODULE Dialing ------------------------------
(***************************************************************************)
(* How a client gets from a route to an authenticated pipe: the broker's   *)
(* routes (geph5-broker/src/routes.rs), the dialers the client builds from *)
(* them (geph5-client/src/get_dialer.rs, libraries/sillad, conntest,       *)
(* native-tls), the stack of listeners an exit builds for the same         *)
(* protocol (geph5-exit/src/listen/b2e_process.rs) and the hellos of       *)
(* client_auth and handle_client.                                          *)
(*                                                                         *)
(* A dial in progress is a tree of the futures that are pending; Steps     *)
(* gives its possible next forms.  Durations are abstracted: a delay may   *)
(* end, and a timeout fire, at any time.                                   *)
(***************************************************************************)
EXTENDS Naturals, Sequences, FiniteSets

CONSTANTS NumBridges,  \* bridges the broker offers
          Pools,       \* their pools: "waw", "rbxa" or any other
          Places       \* what a connection to an address may meet, of "works",
                       \* "refuses", "hangs", "silent" (connects, then nothing),
                       \* "flaky" (connects, and may break at any later step) and
                       \* "rejected" (closed by c2e_loop once it is tested)

VARIABLES world,   \* what this attempt meets, chosen at the start
          fut,     \* the dial
          cred,    \* the token that client_auth got, and what the exit takes
          client,  \* client_auth: "dial", "sent", "up", "failed", "timeout"
          exit,    \* handle_client: "none", "auth", "up", "failed"
          mode     \* per side: the keys used, or that the secret is shared

vars == <<world, fut, cred, client, exit, mode>>

----------------------------------------------------------------------------
(* Protocols, the routes made of them and the listeners made of them.      *)

None == [t |-> "none"]
Layer(kind, lower) == [t |-> kind, lower |-> lower]

\* bridge_to_leaf_route: the protocols asked of a bridge, by its pool, in the
\* order in which they are to be tried.
Protocols(pool) ==
  CASE pool = "waw"  -> <<Layer("conntest", Layer("sosistab", Layer("tls", None)))>>
    [] pool = "rbxa" -> <<Layer("conntest", None)>>
    [] OTHER         -> <<Layer("conntest", Layer("sosistab", None)), None>>

Tcp(addr) == [t |-> "tcp", addr |-> addr]
Fallback(a, b) == [t |-> "fallback", a |-> a, b |-> b]

RECURSIVE Descriptor(_, _), Stack(_)
\* protocol_to_descriptor
Descriptor(p, addr) ==
  IF p.t = "none" THEN Tcp(addr) ELSE Layer(p.t, Descriptor(p.lower, addr))

\* create_listener: the layers of an accepted pipe, outermost last.
Stack(p) == IF p.t = "none" THEN <<>> ELSE Append(Stack(p.lower), p.t)

\* The address a bridge opened for its n-th protocol.
Bridges == 1 .. NumBridges
Addr(b, n) == <<b, n>>
Direct == <<0, 1>>
Addrs == {Direct} \cup {Addr(b, n) : b \in Bridges, n \in 1 .. 2}

LeafRoute(b, pool) ==
  LET ps == Protocols(pool)
      r(n) == Descriptor(ps[n], Addr(b, n))
  IN Layer("delay", IF Len(ps) = 1 THEN r(1) ELSE Fallback(r(1), r(2)))

\* What listens behind an address: the exit's own port, or the b2e process for
\* the protocol that came with the bridge's stream.
ListenerOf(addr) ==
  IF addr = Direct THEN <<"conntest">>
  ELSE Stack(Protocols(world.pool[addr[1]])[addr[2]])

----------------------------------------------------------------------------
(* Dialers.                                                                *)

Ok(addr, layers) == [f |-> "ok", addr |-> addr, layers |-> layers]
Err == [f |-> "err"]
Dropped == [f |-> "dropped"]
Done(f) == f.f \in {"ok", "err"}

RECURSIVE Dialer(_)
\* route_to_dialer, dialed: nothing has happened yet.
Dialer(r) ==
  CASE r.t = "tcp"      -> [f |-> "tcp", addr |-> r.addr]
    [] r.t = "fallback" -> [f |-> "fallback", a |-> Dialer(r.a), b |-> Dialer(r.b)]
    [] OTHER            -> [f |-> r.t, of |-> Dialer(r.lower)]

\* Routes reduced to nested races, or FailingDialer if there are none.
Race(fs) ==
  LET RECURSIVE To(_)
      To(n) == IF n = 1 THEN fs[1] ELSE [f |-> "race", a |-> To(n - 1), b |-> fs[n]]
  IN IF fs = <<>> THEN Err ELSE To(Len(fs))

\* get_dialer_inner: the direct dialer and the bridges, by bridge_mode.
RawDialer(bridge_mode, routes) ==
  LET direct == [f |-> "conntest", of |-> [f |-> "tcp", addr |-> Direct]]
      bridges == Race([n \in 1 .. Len(routes) |-> Dialer(routes[n])])
  IN CASE bridge_mode = "Auto"         -> Race(<<direct, [f |-> "delay", of |-> bridges]>>)
       [] bridge_mode = "ForceBridges" -> bridges
       [] bridge_mode = "ForceDirect"  -> direct

\* TcpDialer: what connecting to an address comes to.
TcpSteps(addr) ==
  CASE world.place[addr] = "refuses"              -> {Err}
    [] world.place[addr] = "hangs"                -> {}
    [] OTHER                                      -> {Ok(addr, <<>>)}

\* The listener at the other end has the same layer where ours comes next.
Accepts(kind, pipe) ==
  LET theirs == ListenerOf(pipe.addr)
      n == Len(pipe.layers) + 1
  IN n <= Len(theirs) /\ theirs[n] = kind

\* A layer's handshake over a pipe that is there, or the test of it: answered by the
\* other end, or by nobody; it fails when the connection breaks or the answer is wrong.
HandshakeSteps(kind, pipe) ==
  LET place == world.place[pipe.addr]
      done == Ok(pipe.addr, Append(pipe.layers, kind))
  IN IF place = "silent" THEN {}
     ELSE IF ~Accepts(kind, pipe) THEN {Err}
     ELSE IF place = "flaky" THEN {done, Err} ELSE {done}

RECURSIVE Steps(_)
Within(f) == {[f EXCEPT !.of = g] : g \in Steps(f.of)}

\* race_ok: the first that succeeds, else the other's result.
RaceStepsFirst(f) ==
  IF Done(f.a) THEN {f.a} ELSE IF Done(f.b) THEN {f.b}
  ELSE {[f EXCEPT !.a = g] : g \in Steps(f.a)} \cup {[f EXCEPT !.b = g] : g \in Steps(f.b)}
RaceSteps(f) ==
  CASE f.a.f = "ok"  -> {f.a}
    [] f.b.f = "ok"  -> {f.b}
    [] f.a.f = "err" -> {f.b}
    [] f.b.f = "err" -> {f.a}
    [] OTHER -> {[f EXCEPT !.a = g] : g \in Steps(f.a)}
                  \cup {[f EXCEPT !.b = g] : g \in Steps(f.b)}

\* FallbackDialer: the second is dialed when the first has failed.
FallbackSteps(f) ==
  CASE f.a.f = "ok"  -> {f.a}
    [] f.a.f = "err" -> {f.b}
    [] OTHER         -> {[f EXCEPT !.a = g] : g \in Steps(f.a)}

\* SosistabDialer, ConnTestDialer, TlsDialer: dial below, then the handshake.
LayerSteps(f) ==
  IF f.of.f = "ok" THEN HandshakeSteps(f.f, f.of)
  ELSE IF f.of.f = "err" THEN {Err} ELSE Within(f)

Steps(f) ==
  CASE Done(f)          -> {}
    [] f.f = "tcp"      -> TcpSteps(f.addr)
    [] f.f = "race"     -> RaceSteps(f)
    [] f.f = "fallback" -> FallbackSteps(f)
    [] f.f = "delay"    -> {f.of}
    [] OTHER            -> LayerSteps(f)

----------------------------------------------------------------------------
(* The two hellos.                                                         *)

\* shared_secret of a pipe with these layers: a sosistab pipe has one, a tested
\* pipe is the pipe that was tested, TCP and TLS pipes have none.
SharedSecret(layers) ==
  \E n \in DOMAIN layers :
    /\ layers[n] = "sosistab"
    /\ \A m \in n + 1 .. Len(layers) : layers[m] = "conntest"

NoCred == "none"
NoKeys == [read |-> "none", write |-> "none"]
Shared == [read |-> "shared", write |-> "shared"]

Moves(now) == client' = now
Picked == fut.addr

\* A token of our level and epoch, one whose level or epoch the exit refuses, and
\* an exit without a broker, which asks for none.
Credentials ==
  {[broker |-> TRUE, level |-> "Free", epochs |-> 2, free |-> TRUE],
   [broker |-> TRUE, level |-> "Free", epochs |-> 0, free |-> FALSE],
   [broker |-> TRUE, level |-> "Plus", epochs |-> 3, free |-> FALSE],
   [broker |-> FALSE, level |-> "Plus", epochs |-> 3, free |-> FALSE]}

\* Only c2e_loop rejects; an address no protocol was asked for has no one behind.
PlacesOf(pool) ==
  {place \in [Addrs -> Places] :
     \A b \in Bridges, n \in 1 .. 2 :
       /\ place[Addr(b, n)] # "rejected"
       /\ n > Len(Protocols(pool[b])) => place[Addr(b, n)] = "refuses"}

Init ==
  /\ \E pool \in [Bridges -> Pools], bridge_mode \in {"Auto", "ForceBridges", "ForceDirect"} :
       /\ \E place \in PlacesOf(pool) : world = [pool |-> pool, place |-> place]
       /\ fut = RawDialer(bridge_mode, [b \in Bridges |-> LeafRoute(b, pool[b])])
  /\ cred = NoCred /\ client = "dial" /\ exit = "none"
  /\ mode = [client |-> NoKeys, exit |-> NoKeys]

DialStep ==
  /\ client = "dial" /\ fut' \in Steps(fut)
  /\ UNCHANGED <<world, cred, client, exit, mode>>

\* The dial ended: with an error, or with a pipe on which client_auth sends its
\* token and hello.
DialEnds ==
  /\ client = "dial" /\ Done(fut)
  /\ IF fut = Err THEN Moves("failed") /\ UNCHANGED <<cred, mode>>
     ELSE /\ Moves("sent") /\ cred' \in Credentials
          /\ mode' = [mode EXCEPT !.client =
               IF SharedSecret(fut.layers) THEN Shared
               ELSE [read |-> "e2c", write |-> "c2e"]]
  /\ UNCHANGED <<world, fut, exit>>

\* handle_client reads the hello of a connection its listeners let through, which
\* may have been given up meanwhile.
HelloFits == mode.client = Shared => SharedSecret(ListenerOf(Picked))
HelloSent == fut.f = "ok" /\ client \in {"sent", "timeout"}
Place == world.place[Picked]
HelloLost ==
  /\ Place # "silent" /\ ~(Place = "works" /\ HelloFits /\ client = "sent")
  /\ exit' = "failed" /\ UNCHANGED mode
ReadHelloSameKeys ==
  /\ HelloSent /\ exit = "none"
  /\ \/ /\ Place \in {"works", "flaky"} /\ HelloFits
        /\ exit' = "auth" /\ mode' = [mode EXCEPT !.exit = mode.client]
     \/ HelloLost
  /\ UNCHANGED <<world, fut, cred, client>>
ReadHello ==
  /\ HelloSent /\ exit = "none"
  /\ \/ /\ Place \in {"works", "flaky"} /\ HelloFits
        /\ exit' = "auth"
        /\ mode' = [mode EXCEPT !.exit =
             IF mode.client = Shared THEN Shared ELSE [read |-> "c2e", write |-> "e2c"]]
     \/ HelloLost
  /\ UNCHANGED <<world, fut, cred, client>>

\* verify_user, for an exit that is on a broker's list: the level is taken here,
\* and the token is of an epoch near enough.
Admitted ==
  cred.broker => (cred.level = "Free" => cred.free) /\ cred.epochs <= 2
VerifyUser ==
  /\ exit = "auth" /\ exit' = IF Admitted THEN "up" ELSE "failed"
  /\ UNCHANGED <<world, fut, cred, client, mode>>

\* The exit's hello, or the end of the connection.
ExitHello ==
  /\ client = "sent"
  /\ \/ exit \in {"up", "failed"} /\ Moves(exit)
     \/ Place = "flaky" /\ Moves("failed")
  /\ UNCHANGED <<world, fut, cred, exit, mode>>

\* The 30 seconds around dial and authentication are over: a dial is dropped, and so
\* is a pipe whose hello the exit may have read or answered.
TimedOut ==
  /\ client \in {"dial", "sent"} /\ Moves("timeout")
  /\ fut' = IF client = "dial" THEN Dropped ELSE fut
  /\ UNCHANGED <<world, cred, exit, mode>>

Next == DialStep \/ DialEnds \/ ReadHello \/ VerifyUser \/ ExitHello \/ TimedOut

Spec == Init /\ [][Next]_vars /\ WF_vars(Next)

----------------------------------------------------------------------------
\* What dialing comes to, defined on the tree as a whole: an address, "err" or
\* "hang".  This is the reference for Steps.
Lost == {<<"err">>, <<"hang">>}
First(x, y) ==
  IF {x, y} \ Lost # {} THEN {x, y} \ Lost
  ELSE IF <<"hang">> \in {x, y} THEN {<<"hang">>} ELSE {<<"err">>}
RECURSIVE Outcomes(_, _)
Outcomes(f, tested) ==
  LET arrived(addr) == IF ~tested THEN {addr}
                       ELSE IF world.place[addr] = "silent" THEN {<<"hang">>}
                       ELSE IF world.place[addr] = "flaky" THEN {addr, <<"err">>} ELSE {addr}
      a == Outcomes(f.a, tested)
      b == Outcomes(f.b, tested)
  IN CASE f.f = "err" -> {<<"err">>}
       [] f.f = "ok"  -> arrived(f.addr)
       [] f.f = "tcp" -> CASE world.place[f.addr] = "refuses" -> {<<"err">>}
                           [] world.place[f.addr] = "hangs"   -> {<<"hang">>}
                           [] OTHER                           -> arrived(f.addr)
       [] f.f = "race" -> UNION {First(x, y) : x \in a, y \in b}
       [] f.f = "fallback" -> (a \ {<<"err">>}) \cup (IF <<"err">> \in a THEN b ELSE {})
       [] f.f = "delay" -> Outcomes(f.of, tested)
       [] OTHER -> Outcomes(f.of, TRUE)

\* A dial ends in one of the outcomes its route promises: no step of a race, a
\* fallback or a layer loses a branch that would have answered, and a dial that
\* stands still is one that only a timeout ends (race_ok, FallbackDialer,
\* route_to_dialer against create_listener).
DialKeepsItsPromise ==
  [][/\ client' = "dial" /\ fut' # fut =>
          /\ Outcomes(fut', FALSE) # {}
          /\ Outcomes(fut', FALSE) \subseteq Outcomes(fut, FALSE)
     /\ client = "dial" /\ ~Done(fut) /\ Steps(fut) = {} =>
          Outcomes(fut, FALSE) = {<<"hang">>}]_vars

\* An attempt that fails in time had a reason to: no dial arrived, or the place where
\* it did does not work, or takes no such token.  One that succeeds is a session at
\* both ends, and each end reads with the key the other writes with: the two choose
\* the same way to authenticate on every stack of layers (client_auth, handle_client).
\* An attempt that ran out of time may leave a session behind at the exit.
SessionAgreed ==
  /\ client = "failed" => fut = Err \/ Place # "works" \/ ~Admitted
  /\ client = "up" =>
       /\ exit = "up" /\ Admitted
       /\ mode.client.read = mode.exit.write /\ mode.client.write = mode.exit.read
=============================================================================
