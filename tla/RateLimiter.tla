---------------------------- MODULE RateLimiter ----------------------------
(***************************************************************************)
(* The middleware of agent_ctl/server/app.py: authentication and the two   *)
(* tables of sliding windows, one for admitted requests and one for failed *)
(* authentications.                                                        *)
(*                                                                         *)
(* The middleware runs in the event loop and awaits nothing before it has  *)
(* decided, so one request is one step.  A table is an OrderedDict from    *)
(* the rate-limit key to a deque of times: the order of its keys, least    *)
(* recently seen first, and per key the ages of its entries, oldest first. *)
(* An age saturates just past the window, where it is dropped at the next  *)
(* look; nothing else depends on it.                                       *)
(***************************************************************************)
EXTENDS Integers, Sequences, FiniteSets, SequencesExt

CONSTANTS Clients,        \* addresses of clients
          Trusted,        \* addresses in trusted_proxy_cidrs
          TrustProxy,     \* trust_proxy_headers
          Ways,           \* per client: the proxies its requests pass, in order
          Earlier,        \* hops a header may hold before the first of them
          Asks,           \* per client: the paths it asks for and its bearer tokens
          ApiToken, MetricsToken,   \* None if not set
          None,
          Limit,          \* rate_limit_per_minute
          Window,         \* 60 s, in ticks
          MaxClients      \* max_clients

ASSUME LimiterAssumption ==
  /\ Limit \in Nat \ {0}
  /\ Window \in Nat
  /\ MaxClients \in Nat \ {0}
  /\ Clients \cap Trusted = {}
  /\ Ways \in [Clients -> SUBSET Seq(Trusted)]
  /\ Earlier \subseteq Seq(Clients)
  /\ DOMAIN Asks = Clients

VARIABLES order,     \* per table: its keys, least recently seen first
          bucket,    \* per table and key: ages of its entries, oldest first
          admitted,  \* history, per table and client: ages of those let through
          seen,      \* history, per table and client: age of the last request
          refused    \* history: the client refused by the step before, or None

limiterVars == <<order, bucket, admitted, seen, refused>>

Tables == {"request", "auth_failure"}
Keys == {"peer", "xff"} \X (Clients \cup Trusted)
Ages == 0..(Window + 1)

Requests == UNION {[client  : {c},
                    via     : Ways[c],
                    earlier : Earlier,
                    ask     : Asks[c]] : c \in Clients}

LimiterTypeOK ==
  /\ order \in [Tables -> Seq(Keys)]
  /\ \A t \in Tables : IsInjective(order[t]) /\ Len(order[t]) <= MaxClients
  /\ bucket \in [Tables -> [Keys -> Seq(Ages)]]
  /\ \A t \in Tables : \A k \in Keys :
       bucket[t][k] # <<>> <=> k \in ToSet(order[t])
  /\ admitted \in [Tables -> [Clients -> Seq(Ages)]]
  /\ seen \in [Tables -> [Clients -> Ages]]
  /\ refused \in Clients \cup {None}

LimiterInit ==
  /\ order = [t \in Tables |-> <<>>]
  /\ bucket = [t \in Tables |-> [k \in Keys |-> <<>>]]
  /\ admitted = [t \in Tables |-> [c \in Clients |-> <<>>]]
  /\ seen = [t \in Tables |-> [c \in Clients |-> Window + 1]]
  /\ refused = None
----------------------------------------------------------------------------
(* Where the request comes from and what X-Forwarded-For says: each proxy  *)
(* appends the address it was called from.                                 *)
Peer(r) == IF r.via = <<>> THEN r.client ELSE Last(r.via)
Hops(r) == IF r.via = <<>> THEN r.earlier
           ELSE r.earlier \o <<r.client>> \o Front(r.via)

(* Faulty: the first hop of the header is taken for the client. *)
KeyOfFirstHop(r) ==
  IF TrustProxy /\ Peer(r) \in Trusted THEN <<"xff", Hops(r)[1]>>
  ELSE <<"peer", Peer(r)>>

(* The last hop that is not a trusted proxy, if the header can be trusted. *)
RateLimitKey(r) ==
  LET hops == Hops(r)
      untrusted == {i \in DOMAIN hops : hops[i] \notin Trusted} IN
  IF TrustProxy /\ Peer(r) \in Trusted /\ untrusted # {}
  THEN <<"xff", hops[CHOOSE i \in untrusted : \A j \in untrusted : j <= i]>>
  ELSE <<"peer", Peer(r)>>

AuthError(r) ==
  LET token == IF r.ask.path = "/metrics" /\ MetricsToken # None
               THEN MetricsToken ELSE ApiToken IN
  r.ask.path # "/healthz" /\ token # None /\ r.ask.bearer # token

(* Entries older than the window leave the deque, which is sorted by age.  *)
Fresh(ages) ==
  LET live == {i \in DOMAIN ages : ages[i] <= Window} IN
  IF live = {} THEN <<>> ELSE SubSeq(ages, Min(live), Len(ages))

(* The key becomes the most recently seen of the table. *)
Touched(o, k) == Append(RemoveFirst(o, k), k)

(* Faulty: evicts down to one client more than allowed. *)
KeptOneMore(o) == IF Len(o) > MaxClients + 1 THEN Tail(o) ELSE o

(* The least recently seen are evicted down to the limit; a request adds   *)
(* one key at most.                                                        *)
Kept(o) == IF Len(o) > MaxClients THEN Tail(o) ELSE o

(* _rate_limited: the request of a client with a full window changes only  *)
(* the order; any other is entered, and clients evicted for it.            *)
Limited(t, k) == Len(Fresh(bucket[t][k])) >= Limit

Enter(t, k) ==
  LET fresh == Fresh(bucket[t][k])
      kept  == IF Limited(t, k) THEN Touched(order[t], k)
               ELSE Kept(Touched(order[t], k)) IN
  /\ order' = [order EXCEPT ![t] = kept]
  /\ bucket' = [bucket EXCEPT ![t] = [j \in Keys |->
                  IF ~Contains(kept, j) THEN <<>>
                  ELSE IF j # k THEN @[j]
                  ELSE IF Limited(t, k) THEN fresh ELSE Append(fresh, 0)]]

Remember(t, c, limited) ==
  /\ seen' = [seen EXCEPT ![t][c] = 0]
  /\ admitted' = IF limited THEN admitted
                 ELSE [admitted EXCEPT ![t][c] =
                         LET a == Append(@, 0) IN
                         IF Len(a) > Limit + 1 THEN Tail(a) ELSE a]
----------------------------------------------------------------------------
(* 401, or 429 after too many of them. *)
Unauthorized(r) ==
  /\ AuthError(r)
  /\ LET k == RateLimitKey(r) IN
     /\ Enter("auth_failure", k)
     /\ Remember("auth_failure", r.client, Limited("auth_failure", k))
  /\ refused' = None

(* Liveness probes and authorised scrapes are never limited. *)
Unlimited(r) ==
  /\ ~AuthError(r) /\ r.ask.path \in {"/healthz", "/metrics"}
  /\ refused' = None
  /\ UNCHANGED <<order, bucket, admitted, seen>>

(* A request goes on to its handler, or is answered 429. *)
Limit429(r) ==
  /\ ~AuthError(r) /\ r.ask.path \notin {"/healthz", "/metrics"}
  /\ LET k == RateLimitKey(r) IN
     /\ Enter("request", k)
     /\ Remember("request", r.client, Limited("request", k))
     /\ refused' = IF Limited("request", k) THEN r.client ELSE None

(* 400 or 413 by the Content-Length of any request, before all the rest. *)
BadLength ==
  /\ refused' = None
  /\ UNCHANGED <<order, bucket, admitted, seen>>

Older(a) == IF a > Window THEN a ELSE a + 1

TickWindow ==
  /\ bucket' = [t \in Tables |-> [k \in Keys |->
                  [i \in DOMAIN bucket[t][k] |-> Older(bucket[t][k][i])]]]
  /\ admitted' = [t \in Tables |-> [c \in Clients |->
                    Fresh([i \in DOMAIN admitted[t][c] |->
                             Older(admitted[t][c][i])])]]
  /\ seen' = [t \in Tables |-> [c \in Clients |-> Older(seen[t][c])]]
  /\ refused' = None
  /\ UNCHANGED order

LimiterNext ==
  \/ TickWindow \/ BadLength
  \/ \E r \in Requests : Unauthorized(r) \/ Unlimited(r) \/ Limit429(r)

LimiterSpec == LimiterInit /\ [][LimiterNext]_limiterVars
----------------------------------------------------------------------------
(* No client is let through more than Limit times in any window -- or     *)
(* fails to authenticate more often without being told 429 -- whatever its *)
(* proxies and its headers, unless so many others were seen in that window *)
(* that its own was evicted.                                               *)
OverLimitOnlyIfEvicted ==
  \A t \in Tables : \A c \in Clients :
    Len(admitted[t][c]) > Limit =>
      Cardinality({d \in Clients \ {c} : seen[t][d] <= Window}) >= MaxClients

(* A request is refused only to a client that had its full share of this   *)
(* window: not for the requests of others behind the same proxy, not for   *)
(* its own scrapes or probes, and not for failed authentications.          *)
RefusedOnlyAtLimit ==
  refused # None => Len(admitted["request"][refused]) >= Limit

(* The limit holds for every client and for nobody else's requests.        *)
LimitHolds == OverLimitOnlyIfEvicted /\ RefusedOnlyAtLimit
============================================================================
