----------------------------- MODULE HttpProxy -----------------------------
(***************************************************************************)
(* The client's HTTP proxy (geph5-client/src/http_proxy): one request from *)
(* its headers to the answer.  Header values are sequences of the tokens   *)
(* between their commas; host names and bodies are left out.               *)
(***************************************************************************)
EXTENDS Naturals, Sequences, FiniteSets

CONSTANTS Tokens,     \* tokens of Connection headers: "close", "keep-alive", names
          Plain,      \* names of other headers a message may have
          MaxValues,  \* how many Connection headers a message has at most
          MaxTokens   \* how many tokens a value has at most

HOP_BY_HOP_HEADERS ==
  {"Keep-Alive", "Transfer-Encoding", "TE", "Connection", "Trailer", "Upgrade",
   "Proxy-Authorization", "Proxy-Authenticate", "Proxy-Connection"}
Versions == {"HTTP_10", "HTTP_11"}

VARIABLES req,      \* the request: version, method, scheme, uri, host, headers
          state,    \* "idle", "new", "relay", "answered", "tunnel", "closed"
          keep,     \* conn_keep_alive
          sent,     \* the headers relayed to the server
          answer,   \* what the application gets: its headers, or a status
          dialed    \* the address open_conn was given

vars == <<req, state, keep, sent, answer, dialed>>

Seqs(S, n) == UNION {[1 .. k -> S] : k \in 0 .. n}
Values == Seqs(Tokens, MaxTokens) \ {<<>>}
\* Connection and Proxy-Connection values, and which other headers are there.
Messages(values, proxies) ==
  [connection : Seqs(Values, values), proxy : Seqs(Values, proxies), plain : {{}, Plain}]
NoMessage == [connection |-> <<>>, proxy |-> <<>>, plain |-> {}]

\* The host and port of a URI or of a Host header, and whether it has user info;
\* port 0 if it gives none.  In an address, user says that it is part of the name.
Authorities == [host : {"name", "v6", "bad6"}, port : {0, 8080}, user : BOOLEAN]
Bare(host) == [host |-> host, port |-> 0, user |-> FALSE]
NoAuthority == Bare("none")
Invalid == Bare("invalid")
Simple == Bare("name")
NoAddr == Bare("none")

NoRequest == [version |-> "none", method |-> "none", scheme |-> "none", uri |-> NoAuthority,
              host |-> NoAuthority, headers |-> NoMessage]

Init ==
  /\ req = NoRequest /\ state = "idle" /\ keep = FALSE
  /\ sent = NoMessage /\ answer = NoMessage /\ dialed = NoAddr

\* A connection is accepted and hyper reads a request from it.  (Headers and
\* addresses are varied one at a time.)
Receive ==
  /\ state = "idle" /\ state' = "new"
  /\ \E version \in Versions, method \in {"CONNECT", "GET"},
        scheme \in {"none", "http", "https", "other"},
        uri \in Authorities \cup {NoAuthority},
        host \in Authorities \cup {NoAuthority, Invalid}, headers \in Messages(MaxValues, 1) :
       /\ uri # NoAuthority => host = NoAuthority
       /\ uri = NoAuthority => scheme = "none"
       /\ (method = "CONNECT" \/ uri # Simple) => headers = NoMessage
       /\ req' = [version |-> version, method |-> method, scheme |-> scheme, uri |-> uri,
                  host |-> host, headers |-> headers]
  /\ UNCHANGED <<keep, sent, answer, dialed>>

----------------------------------------------------------------------------
(* Headers.                                                                *)

Has(value, t) == \E i \in DOMAIN value : value[i] = t

\* One header of check_keep_alive.
Heed(now, value) ==
  IF value = <<"close">> THEN FALSE ELSE IF Has(value, "keep-alive") THEN TRUE ELSE now
HeedAll(now, values) ==
  LET f[n \in 0 .. Len(values)] == IF n = 0 THEN now ELSE Heed(f[n - 1], values[n])
  IN f[Len(values)]

\* check_keep_alive: what Connection says replaces what Proxy-Connection said.
CheckKeepAlive(version, h, check_proxy) ==
  LET start == version = "HTTP_11" IN
  HeedAll(IF check_proxy THEN HeedAll(start, h.proxy) ELSE start, h.connection)

\* clear_hop_headers: what these headers name, but for "keep-alive" and a lone
\* "close", goes; and so do they.
Named(values) ==
  UNION {{values[i][j] : j \in DOMAIN values[i]} \ {"keep-alive"} :
           i \in {k \in DOMAIN values : values[k] # <<"close">>}}
ClearHopHeadersFirst(h) ==
  LET first(vs) == IF vs = <<>> THEN {} ELSE Named(<<vs[1]>>) IN
  [connection |-> <<>>, proxy |-> <<>>,
   plain |-> h.plain \ (first(h.connection) \cup first(h.proxy) \cup HOP_BY_HOP_HEADERS)]
ClearHopHeaders(h) ==
  [connection |-> <<>>, proxy |-> <<>>,
   plain |-> h.plain \ (Named(h.connection) \cup Named(h.proxy) \cup HOP_BY_HOP_HEADERS)]

\* set_conn_keep_alive: only what differs from the version's default is said.
SetConnKeepAlive(version, h, keep_alive) ==
  CASE version = "HTTP_10" /\ keep_alive  -> [h EXCEPT !.connection = <<<<"keep-alive">>>>]
    [] version = "HTTP_11" /\ ~keep_alive -> [h EXCEPT !.connection = <<<<"close">>>>]
    [] OTHER                              -> h

----------------------------------------------------------------------------
(* server_dispatch.                                                        *)

DefaultPort(scheme) ==
  CASE scheme \in {"none", "http"} -> 80 [] scheme = "https" -> 443 [] OTHER -> 0
PortOf(scheme, a) == IF a.port # 0 THEN a.port ELSE DefaultPort(scheme)

\* host_addr: with a port anything will do; without one the scheme must have a
\* default, and the whole authority is the host: an address if it is in brackets.
HostAddr(scheme, a) ==
  IF \/ a.host \in {"none", "invalid"} \/ PortOf(scheme, a) = 0
     \/ a.port = 0 /\ a.host = "bad6" /\ ~a.user
  THEN NoAddr
  ELSE [host |-> a.host, port |-> PortOf(scheme, a), user |-> a.user /\ a.port = 0]

\* authority_addr, which is given the Host header, ignores the user info.
AuthorityAddr(scheme, a) ==
  IF a.host \in {"none", "invalid", "bad6"} \/ PortOf(scheme, a) = 0 THEN NoAddr
  ELSE [host |-> a.host, port |-> PortOf(scheme, a), user |-> FALSE]

\* The host comes from the URI, or, if the URI has none, from the Host header.
HostOf(r) ==
  IF r.uri # NoAuthority THEN HostAddr(r.scheme, r.uri) ELSE AuthorityAddr(r.scheme, r.host)

\* The URI that is relayed: completed from the Host header, with http as default.
Relayed(r) ==
  IF r.uri # NoAuthority THEN [scheme |-> r.scheme, authority |-> r.uri]
  ELSE [scheme |-> IF r.scheme = "none" THEN "http" ELSE r.scheme, authority |-> r.host]

\* Connector::call takes the address from the URI of the request.
ConnectorCall(u) == HostAddr(u.scheme, u.authority)

BadRequest ==
  /\ state = "new" /\ HostOf(req) = NoAddr
  /\ state' = "closed" /\ answer' = [NoMessage EXCEPT !.plain = {"400"}]
  /\ UNCHANGED <<req, keep, sent, dialed>>

\* CONNECT is answered at once; the tunnel follows when the upgrade and open_conn
\* succeed, until one direction ends.
Connect ==
  /\ state = "new" /\ HostOf(req) # NoAddr /\ req.method = "CONNECT"
  /\ state' = "tunnel" /\ answer' = [NoMessage EXCEPT !.plain = {"200"}]
  /\ dialed' = HostOf(req)
  /\ UNCHANGED <<req, keep, sent>>
TunnelEnds ==
  /\ state = "tunnel" /\ state' = "closed"
  /\ UNCHANGED <<req, keep, sent, answer, dialed>>

\* Anything else: the headers are made ready and the body collected, which may
\* fail; then the request is relayed.
Relay ==
  /\ state = "new" /\ HostOf(req) # NoAddr /\ req.method # "CONNECT"
  /\ keep' = CheckKeepAlive(req.version, req.headers, TRUE)
  /\ sent' = SetConnKeepAlive(req.version, ClearHopHeaders(req.headers), keep')
  /\ \/ /\ state' = "relay" /\ UNCHANGED answer
        /\ dialed' = ConnectorCall(Relayed(req))
     \/ /\ state' = "closed" /\ UNCHANGED dialed
        /\ answer' = [NoMessage EXCEPT !.plain = {"400"}]
  /\ UNCHANGED req

\* The server's answer, through a connection of open_conn; or none.
Answer ==
  /\ state = "relay" /\ state' = "answered"
  /\ \/ \E v \in Versions, h \in Messages(1, 0) :
          LET k == keep /\ CheckKeepAlive(v, h, FALSE) IN
          answer' = SetConnKeepAlive(v, ClearHopHeaders(h), k)
     \/ answer' = [NoMessage EXCEPT !.plain = {"500"}]
  /\ UNCHANGED <<req, keep, sent, dialed>>

Next == Receive \/ BadRequest \/ Connect \/ TunnelEnds \/ Relay \/ Answer
Spec == Init /\ [][Next]_vars

----------------------------------------------------------------------------
\* What the application meant: the last Connection header that says close or
\* keep-alive, else the last such Proxy-Connection header, else the version's default.
Decisive(values) == {i \in DOMAIN values : Has(values[i], "close") \/ Has(values[i], "keep-alive")}
Last(S) == CHOOSE i \in S : \A j \in S : j <= i
Word(values) == ~Has(values[Last(Decisive(values))], "close")
Meant(r) ==
  IF Decisive(r.headers.connection) # {} THEN Word(r.headers.connection)
  ELSE IF Decisive(r.headers.proxy) # {} THEN Word(r.headers.proxy)
  ELSE r.version = "HTTP_11"

\* No header of the request lists close among other words; there the code does not
\* see it.
CloseAlone(r) ==
  \A values \in {r.headers.connection, r.headers.proxy} : \A i \in DOMAIN values :
    Has(values[i], "close") => values[i] = <<"close">>

\* The user info of a Host header without a port is ignored when the request is
\* accepted, and part of the name that is dialed.
WithUser(r) == r.uri = NoAuthority /\ r.host.user /\ r.host.port = 0

\* A relayed request goes to the address it was accepted for, but for user info.  It
\* says of its connection what the application meant by a close of its own or by
\* keep-alive, whichever headers said so and in whatever order, and the answer does
\* not promise more.  No header that belongs to one hop goes with it: neither the
\* known ones nor those a Connection or Proxy-Connection header of the request names
\* (server_dispatch, check_keep_alive, clear_hop_headers, Connector::call).
RelayedAsMeant ==
  state \in {"relay", "answered"} =>
    /\ dialed = [HostOf(req) EXCEPT !.user = @ \/ WithUser(req)]
    /\ CloseAlone(req) =>
         /\ Meant(req) = (IF sent.connection = <<>> THEN req.version = "HTTP_11"
                          ELSE sent.connection = <<<<"keep-alive">>>>)
         /\ answer.connection = <<<<"keep-alive">>>> => Meant(req)
    /\ sent.plain \cap (HOP_BY_HOP_HEADERS \cup Named(req.headers.connection)
                          \cup Named(req.headers.proxy)) = {}
    /\ sent.proxy = <<>> /\ answer.plain \cap HOP_BY_HOP_HEADERS = {}
=============================================================================
