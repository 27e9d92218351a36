---------------------------- MODULE ClientFront ----------------------------
(***************************************************************************)
(* How applications' connections enter the client: packets through the     *)
(* queues of VPN mode and the user-space IP stack (geph5-client/src/vpn.rs,*)
(* client.rs), names through fake DNS (spoof_dns.rs), SOCKS5 (socks5.rs),  *)
(* and open_conn, which decides where each goes (client_inner.rs).  Tasks  *)
(* are kept in the pool of taskpool.rs.                                    *)
(***************************************************************************)
EXTENDS Integers, Sequences, FiniteSets

CONSTANTS Conns,       \* connections applications make
          Names,       \* names they ask for
          Local,       \* those names that whitelist_host passes through
          FakeAddrs,   \* addresses fake DNS draws from
          QUEUE,       \* capacity of VPN_CAPTURE and VPN_INJECT
          task_limit   \* configuration

VARIABLES fd,         \* whether the handler of the VPN's file descriptor runs
          conn,       \* per connection: how far it is
          name,       \* per connection: what the application wants
          addr,       \* per connection: the address it was told
          asked,      \* per connection: what the tunnel, or the network, is asked for
          capture,    \* VPN_CAPTURE
          inject,     \* VPN_INJECT
          shuffle,    \* up_loop: "ready", "waiting" on VPN_EVENT or "sending"
          reader,     \* recv_vpn_packet: "ready" or "waiting"
          captured,   \* packets with the IP stack
          forward,    \* FAKE_DNS_FORWARD
          backward,   \* FAKE_DNS_BACKWARD
          collided,   \* history: addresses drawn for two names
          pool        \* TASK_POOL

app == <<conn, name, addr, asked>>
vpn == <<fd, capture, inject, shuffle, reader, captured>>
fake == <<forward, backward, collided>>
vars == <<app, vpn, fake, pool>>

None == "none"

\* No name and no address stands for None, and no connection for a DNS task.
ASSUME FrontAssumption == None \notin Names \cup FakeAddrs /\ "dns" \notin Conns

Set(f, k, v) == [f EXCEPT ![k] = v]
Running == {"opening", "tunnel", "direct"}

Init ==
  /\ fd = TRUE /\ conn = [c \in Conns |-> "new"] /\ name = [c \in Conns |-> None]
  /\ addr = [c \in Conns |-> None] /\ asked = [c \in Conns |-> None]
  /\ capture = <<>> /\ inject = <<>> /\ captured = <<>>
  /\ shuffle = "ready" /\ reader = "ready"
  /\ forward = [n \in Names |-> None] /\ backward = [a \in FakeAddrs |-> None]
  /\ collided = {} /\ pool = <<>>

----------------------------------------------------------------------------
(* Packets.  Both queues share VPN_EVENT and drop what they cannot hold.   *)

Push(q, p) == IF Len(q) < QUEUE THEN Append(q, p) ELSE q
NotifyOne ==
  IF reader = "waiting" THEN reader' = "ready" /\ UNCHANGED shuffle
  ELSE shuffle' = (IF shuffle = "waiting" THEN "ready" ELSE shuffle) /\ UNCHANGED reader
NotifyAll ==
  /\ shuffle' = IF shuffle = "waiting" THEN "ready" ELSE shuffle
  /\ reader' = IF reader = "waiting" THEN "ready" ELSE reader

\* send_vpn_packet
SendVpnPacket(p) == capture' = Push(capture, p) /\ NotifyAll

\* read_task: an application asks for a name, again while it has no answer, and then
\* connects to the address it was told, by TCP or UDP.  It is slow to ask again: not
\* before its last packet was dropped or dealt with.
Pending(c) == \E q \in {capture, captured} : \E i \in DOMAIN q : q[i].of = c
SendPacket(c) ==
  /\ fd
  /\ \/ \E n \in Names : conn[c] = "new" /\ name' = Set(name, c, n)
     \/ conn[c] \in {"asking", "told", "connecting"} /\ UNCHANGED name
  /\ ~Pending(c)
  /\ LET open == conn[c] \in {"told", "connecting"} IN
     /\ conn' = Set(conn, c, IF open THEN "connecting" ELSE "asking")
     /\ \E kind \in IF open THEN {"tcp", "udp"} ELSE {"dns"} :
          SendVpnPacket([of |-> c, kind |-> kind])
  /\ UNCHANGED <<fd, addr, asked, inject, captured, fake, pool>>

\* Reading or writing the descriptor fails: the handler ends, for good.
FdFails ==
  /\ fd /\ fd' = FALSE
  /\ UNCHANGED <<app, capture, inject, shuffle, reader, captured, fake, pool>>

\* up_loop waits until it can pop a packet, and sends it to the IP stack.
UpPop ==
  /\ shuffle = "ready"
  /\ IF capture = <<>> THEN shuffle' = "waiting" /\ UNCHANGED capture
     ELSE shuffle' = "sending" /\ capture' = Tail(capture)
  /\ captured' = IF capture = <<>> THEN captured ELSE Append(captured, Head(capture))
  /\ UNCHANGED <<fd, app, inject, reader, fake, pool>>
UpSent ==
  /\ shuffle = "sending" /\ Len(captured) <= QUEUE
  /\ shuffle' = "ready"
  /\ UNCHANGED <<fd, app, capture, inject, reader, captured, fake, pool>>

\* recv_vpn_packet
RecvVpnPacket ==
  IF inject = <<>> THEN reader' = "waiting" /\ UNCHANGED inject
  ELSE inject' = Tail(inject) /\ UNCHANGED reader

\* write_task: the answer reaches the application.
ReadPacket ==
  /\ fd /\ reader = "ready" /\ RecvVpnPacket
  /\ IF inject # <<>> /\ conn[Head(inject).of] = "asking"
     THEN LET c == Head(inject).of IN
          conn' = Set(conn, c, "told") /\ addr' = Set(addr, c, Head(inject).addr)
     ELSE UNCHANGED <<conn, addr>>
  /\ UNCHANGED <<fd, name, asked, capture, shuffle, captured, fake, pool>>

----------------------------------------------------------------------------
(* What the IP stack accepts.                                              *)

\* fake_dns_allocate: a name keeps its address; a new one is drawn at random, and
\* entered backward before the forward entry is released.
AllocateEvicting(n, a) ==
  /\ forward[n] # None => a = forward[n]
  /\ forward' = Set(forward, n, a)
  /\ backward' = [b \in FakeAddrs |-> IF b = a THEN n ELSE None]
  /\ collided' = IF backward[a] \in {None, n} THEN collided ELSE collided \cup {a}
Allocate(n, a) ==
  IF forward[n] # None THEN a = forward[n] /\ UNCHANGED fake
  ELSE /\ forward' = Set(forward, n, a) /\ backward' = Set(backward, a, n)
       /\ collided' = IF backward[a] = None THEN collided ELSE collided \cup {a}

\* add_task: the oldest task is dropped, finished or not, if the pool is full.
AddTask(t) ==
  LET dropped == IF Len(pool) >= task_limit /\ pool # <<>> THEN {Head(pool)} ELSE {} IN
  /\ pool' = Append(IF dropped = {} THEN pool ELSE Tail(pool), t)
  /\ conn' = [c \in Conns |-> IF c = t THEN "opening"
                              ELSE IF c \in dropped /\ conn[c] \in Running THEN "cancelled"
                              ELSE conn[c]]

\* dn_loop
DnLoop(p) == inject' = Push(inject, p) /\ NotifyAll

\* A question on port 53: its task answers by fake_dns_respond.
AnswerDns ==
  /\ captured # <<>> /\ Head(captured).kind = "dns"
  /\ LET c == Head(captured).of IN
     \E a \in FakeAddrs : Allocate(name[c], a) /\ DnLoop([of |-> c, addr |-> a])
  /\ captured' = Tail(captured) /\ AddTask("dns")
  /\ UNCHANGED <<fd, name, addr, asked, capture>>

\* A connection, or the first datagram to an address, opened once however often its
\* packet came.
Captured(kind) ==
  /\ captured # <<>> /\ Head(captured).kind = kind
  /\ captured' = Tail(captured)
  /\ IF conn[Head(captured).of] = "connecting" THEN AddTask(Head(captured).of)
     ELSE UNCHANGED <<conn, pool>>
  /\ UNCHANGED <<fd, name, addr, asked, capture, inject, shuffle, reader, fake>>
AcceptTcp == Captured("tcp")
AcceptUdp == Captured("udp")

\* socks5_loop: a request by name.
AcceptSocks(c) ==
  /\ conn[c] = "new" /\ AddTask(c)
  /\ \E n \in Names : name' = Set(name, c, n)
  /\ UNCHANGED <<addr, asked, vpn, fake>>

----------------------------------------------------------------------------
\* open_conn: an address that is fake is translated back; what the whitelist knows
\* goes to the network, anything else into CONN_REQ_CHAN.
Dest(c) ==
  IF addr[c] = None THEN name[c]
  ELSE IF backward[addr[c]] # None THEN backward[addr[c]] ELSE addr[c]
WhitelistHost(d) == d \in Local
OpenConn(c) ==
  /\ conn[c] = "opening"
  /\ asked' = Set(asked, c, Dest(c))
  /\ conn' = Set(conn, c, IF WhitelistHost(Dest(c)) THEN "direct" ELSE "tunnel")
  /\ UNCHANGED <<name, addr, vpn, fake, pool>>

\* The copies of a connection end; its task stays in the pool.
Finish(c) ==
  /\ conn[c] \in {"tunnel", "direct"} /\ conn' = Set(conn, c, "done")
  /\ UNCHANGED <<name, addr, asked, vpn, fake, pool>>

----------------------------------------------------------------------------
Stack == AnswerDns \/ AcceptTcp \/ AcceptUdp

Next ==
  \/ UpPop \/ UpSent \/ ReadPacket \/ Stack \/ FdFails
  \/ \E c \in Conns : SendPacket(c) \/ AcceptSocks(c) \/ OpenConn(c) \/ Finish(c)

\* The tasks of the VPN run whenever they can.
Fairness == WF_vars(UpPop) /\ WF_vars(UpSent) /\ WF_vars(ReadPacket) /\ WF_vars(Stack)

Spec == Init /\ [][Next]_vars /\ Fairness

----------------------------------------------------------------------------
\* A connection made to an address fake DNS gave for a name is asked for by that
\* name, unless the address was also drawn for another (fake_dns_allocate,
\* fake_dns_backtranslate, open_conn): and is passed through only if the name is.
NameKept ==
  \A c \in Conns :
    (asked[c] # None /\ addr[c] \notin collided) =>
      /\ asked[c] = name[c]
      /\ conn[c] = "direct" => name[c] \in Local

\* Every packet an application sends is taken from the queue, and every answer
\* leaves while the handler runs: those who wait on the shared event miss no packet
\* meant for them (send_vpn_packet, dn_loop).
PacketsMove ==
  /\ \A c \in Conns : (\E i \in DOMAIN capture : capture[i].of = c)
                        ~> (\A i \in DOMAIN capture : capture[i].of # c)
  /\ (inject # <<>>) ~> (inject = <<>> \/ ~fd)
=============================================================================
