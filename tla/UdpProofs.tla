----------------------------- MODULE UdpProofs -----------------------------
(***************************************************************************)
(* The theorems about the DHCP client and the TFTP server.                 *)
(*                                                                         *)
(* The routes of the DHCP client are those of the lease it holds, and the  *)
(* end of a lease is noticed, for any number of servers and messages, any  *)
(* delays and any lease time.                                              *)
(*                                                                         *)
(* The TFTP server moves the blocks of a file in their order, each once,   *)
(* for any number of clients, blocks and datagrams and whatever the        *)
(* network does to the datagrams.                                          *)
(***************************************************************************)
EXTENDS Dhcp, Tftp, SequenceTheorems, TLAPS

States == {"STOPPED", "DISCOVER", "REQUEST", "RENEW", "REBIND"}

(* The routes of an address that is leased.                                *)
Leased(a) == route_add(route_add({}, a, LL, a), a, a, UNSPEC)

LEMMA MinOfTwo ==
  ASSUME NEW a \in Int, NEW b \in Int
  PROVE  Min({a, b}) \in Int /\ Min({a, b}) <= a
<1>1. \E x \in {a, b} : \A y \in {a, b} : x <= y
  <2>1. CASE a <= b
    BY <2>1
  <2>2. CASE b <= a
    BY <2>2
  <2> QED  BY <2>1, <2>2
<1>2. Min({a, b}) \in {a, b} /\ \A y \in {a, b} : Min({a, b}) <= y
  BY <1>1 DEF Min
<1>3. PICK m : m = Min({a, b})
  OBVIOUS
<1>4. m \in {a, b} /\ m <= a
  BY <1>2, <1>3
<1> QED  BY <1>3, <1>4

LEMMA NotBeforeNat ==
  ASSUME NEW n \in Int
  PROVE  NotBefore(n) \in Nat /\ n <= NotBefore(n)
BY DEF NotBefore

LEMMA NotBeforeMonotonic ==
  ASSUME NEW m \in Int, NEW n \in Int, m <= n
  PROVE  NotBefore(m) <= NotBefore(n)
BY DEF NotBefore

(* A state is due no later than the end of the lease.                      *)
LEMMA StateDueProperties ==
  ASSUME NEW c \in ClientSet, NEW state
  PROVE  /\ StateDue(c, state) \in Nat
         /\ StateDue(c, state) <= NotBefore(c.lease)
<1>1. c.lease \in Int /\ LEASE \in Nat
  BY DhcpAssumption DEF ClientSet
<1>2. PICK half : half = c.lease - LEASE + LEASE \div 2
  OBVIOUS
<1>3. PICK most : most = c.lease - LEASE + (LEASE * 7) \div 8
  OBVIOUS
<1>4. half \in Int /\ most \in Int
  BY <1>1, <1>2, <1>3
<1>5. /\ Min({c.lease, half}) \in Int /\ Min({c.lease, half}) <= c.lease
      /\ Min({c.lease, most}) \in Int /\ Min({c.lease, most}) <= c.lease
  BY <1>1, <1>4, MinOfTwo
<1>6. CASE state = "RENEW"
  <2>1. StateDue(c, state) = NotBefore(Min({c.lease, half}))
    BY <1>2, <1>6 DEF StateDue
  <2> QED  BY <1>1, <1>5, <2>1, NotBeforeNat, NotBeforeMonotonic
<1>7. CASE state = "REBIND"
  <2>1. StateDue(c, state) = NotBefore(Min({c.lease, most}))
    BY <1>3, <1>7 DEF StateDue
  <2> QED  BY <1>1, <1>5, <2>1, NotBeforeNat, NotBeforeMonotonic
<1>8. CASE state \notin {"RENEW", "REBIND"}
  <2>1. StateDue(c, state) = 0
    BY <1>8 DEF StateDue
  <2> QED  BY <1>1, <2>1 DEF NotBefore
<1> QED  BY <1>6, <1>7, <1>8

(* What dhcp_change_state leaves of the client.                            *)
LEMMA ChangedProperties ==
  ASSUME NEW c \in ClientSet, NEW state \in States
  PROVE  /\ Changed(c, state) \in ClientSet
         /\ Changed(c, state).state = state
         /\ Changed(c, state).current_timeout = DHCP_BASE_TIMEOUT \div 2
         /\ state = "DISCOVER" => ~ Changed(c, state).address_assigned
         /\ state # "DISCOVER" =>
              /\ Changed(c, state).left <= NotBefore(c.lease)
              /\ Changed(c, state).lease = c.lease
              /\ Changed(c, state).server_ip = c.server_ip
              /\ Changed(c, state).client_ip = c.client_ip
              /\ Changed(c, state).gateway_ip = c.gateway_ip
              /\ Changed(c, state).address_assigned = c.address_assigned
<1>1. PICK left \in Nat : left = StateDue(c, state) /\ left <= NotBefore(c.lease)
  BY StateDueProperties
<1>2. PICK half \in Nat : half = DHCP_BASE_TIMEOUT \div 2
  BY DhcpAssumption
<1>3. PICK d : d = [c EXCEPT !.state = state, !.retry = 0, !.left = left,
                             !.current_timeout = half]
  OBVIOUS
<1>4. /\ d \in ClientSet /\ d.state = state /\ d.current_timeout = half
      /\ d.left = left /\ d.lease = c.lease /\ d.server_ip = c.server_ip
      /\ d.client_ip = c.client_ip /\ d.gateway_ip = c.gateway_ip
      /\ d.address_assigned = c.address_assigned
  BY <1>3 DEF ClientSet, States
<1>5. CASE state = "DISCOVER"
  <2>1. PICK e : e = [d EXCEPT !.address_assigned = FALSE, !.client_ip = UNSPEC,
                               !.server_ip = UNSPEC, !.gateway_ip = UNSPEC, !.lease = 0]
    OBVIOUS
  <2>2. PICK f : f = [d EXCEPT !.client_ip = UNSPEC, !.server_ip = UNSPEC,
                               !.gateway_ip = UNSPEC, !.lease = 0]
    OBVIOUS
  <2>3. /\ f \in ClientSet /\ f.state = state /\ f.current_timeout = half
    <3>1. UNSPEC \in Addresses /\ 0 \in Int
      BY DEF Addresses
    <3> QED  BY <1>4, <2>2, <3>1 DEF ClientSet
  <2>4. e = [f EXCEPT !.address_assigned = FALSE]
    BY <1>4, <2>1, <2>2, <2>3 DEF ClientSet
  <2>5. /\ e \in ClientSet /\ e.state = state /\ e.current_timeout = half
    BY <2>3, <2>4 DEF ClientSet
  <2>6. ~ e.address_assigned
    BY <2>3, <2>4 DEF ClientSet
  <2>7. Changed(c, state) = e
    BY <1>1, <1>2, <1>3, <1>5, <2>1 DEF Changed
  <2> QED  BY <1>2, <1>5, <2>5, <2>6, <2>7
<1>6. CASE state # "DISCOVER"
  <2>1. Changed(c, state) = d
    BY <1>1, <1>2, <1>3, <1>6 DEF Changed
  <2> QED  BY <1>1, <1>2, <1>4, <1>6, <2>1
<1> QED  BY <1>5, <1>6

(* The routes of a lease are all taken away.                               *)
LEMMA RoutesRemoved ==
  ASSUME NEW c \in ClientSet, NEW rs,
         \/ rs = {}
         \/ /\ c.client_ip \in Servers /\ c.gateway_ip = c.client_ip
            /\ rs = Leased(c.client_ip)
  PROVE  RemoveRoutes(c, rs) = {}
<1>1. CASE rs = {}
  BY <1>1 DEF RemoveRoutes, route_remove
<1>2. CASE /\ c.client_ip \in Servers /\ c.gateway_ip = c.client_ip
           /\ rs = Leased(c.client_ip)
  <2>1. PICK a : a = c.client_ip
    OBVIOUS
  <2>2. a # UNSPEC /\ LL # UNSPEC
    BY <1>2, <2>1, DhcpAssumption
  <2>3. RemoveRoutes(c, rs) = route_remove(route_remove(rs, LL, a), a, UNSPEC)
    BY <1>2, <2>1, <2>2 DEF RemoveRoutes
  <2>4. rs = {[iface |-> a, gateway |-> LL, destination |-> a],
              [iface |-> a, gateway |-> a, destination |-> UNSPEC]}
    BY <1>2, <2>1 DEF Leased, route_add
  <2>5. \A r \in rs : \/ r.gateway = LL /\ r.destination = a
                      \/ r.gateway = a
    BY <2>4
  <2> QED  BY <2>3, <2>5 DEF route_remove
<1> QED  BY <1>1, <1>2

(* The replies grow older with a new transaction.                          *)
LEMMA Aged ==
  ASSUME NEW net, net \subseteq MessageSet
  PROVE  /\ {[m EXCEPT !.age = @ + 1] : m \in {n \in net : n.age < MaxAge}} \subseteq MessageSet
         /\ \A m \in {[m EXCEPT !.age = @ + 1] : m \in {n \in net : n.age < MaxAge}} : m.age # 0
<1>1. ASSUME NEW m \in MessageSet
      PROVE  [m EXCEPT !.age = @ + 1] \in MessageSet /\ [m EXCEPT !.age = @ + 1].age # 0
  <2>1. PICK age \in Nat : age = m.age + 1 /\ age # 0
    BY DEF MessageSet
  <2>2. [m EXCEPT !.age = age] \in MessageSet /\ [m EXCEPT !.age = age].age = age
    BY DEF MessageSet
  <2> QED  BY <2>1, <2>2
<1> QED  BY <1>1

(* The client discovers, and has no routes.                                *)
LEMMA DiscoverInvariant ==
  ASSUME NEW c \in ClientSet, NEW rs, NEW net, net \subseteq MessageSet,
         dhcp_change_state(c, "DISCOVER", rs, net),
         IF c.address_assigned THEN RemoveRoutes(c, rs) = {} ELSE rs = {}
  PROVE  DhcpInvariant'
<1>1. PICK d : d = dhcp'
  OBVIOUS
<1>2. /\ d \in ClientSet /\ d.state = "DISCOVER" /\ ~ d.address_assigned
      /\ d.current_timeout = DHCP_BASE_TIMEOUT \div 2
  BY <1>1, ChangedProperties DEF dhcp_change_state, States
<1>3. routes' = {}
  BY DEF dhcp_change_state
<1>4. dhcp_net' \subseteq MessageSet /\ \A m \in dhcp_net' : m.age # 0
  BY Aged DEF dhcp_change_state
<1>5. TimeoutBounded'
  BY <1>1, <1>2, BackoffAssumption DEF TimeoutBounded, BackoffTimes
<1>6. OneServer' /\ RoutesLeased' /\ LeaseWatched'
  BY <1>1, <1>2, <1>3 DEF OneServer, RoutesLeased, LeaseWatched, Holding
<1> QED  BY <1>1, <1>2, <1>4, <1>5, <1>6 DEF DhcpInvariant

(* The client holds what its server acknowledged.                          *)
LEMMA HoldInvariant ==
  ASSUME NEW c \in ClientSet, NEW state \in {"RENEW", "REBIND"}, NEW net,
         net \subseteq MessageSet,
         c.server_ip \in Servers, c.client_ip = c.server_ip, c.gateway_ip = c.server_ip,
         c.address_assigned, c.client_ip \in granted,
         dhcp_change_state(c, state, Leased(c.client_ip), net)
  PROVE  DhcpInvariant'
<1>1. PICK d : d = dhcp'
  OBVIOUS
<1>2. /\ d \in ClientSet /\ d.state = state /\ d.address_assigned
      /\ d.current_timeout = DHCP_BASE_TIMEOUT \div 2
      /\ d.left <= NotBefore(d.lease) /\ d.server_ip = c.server_ip
      /\ d.client_ip = c.server_ip /\ d.gateway_ip = c.server_ip
  <2>1. d = Changed(c, state) /\ state \in States /\ state # "DISCOVER"
    BY <1>1 DEF dhcp_change_state, States
  <2> QED  BY <2>1, ChangedProperties
<1>3. routes' = Leased(c.client_ip) /\ granted' = granted
  BY DEF dhcp_change_state
<1>4. dhcp_net' \subseteq MessageSet /\ \A m \in dhcp_net' : m.age # 0
  BY Aged DEF dhcp_change_state
<1>5. TimeoutBounded'
  BY <1>1, <1>2, BackoffAssumption DEF TimeoutBounded, BackoffTimes
<1>6. OneServer' /\ RoutesLeased'
  BY <1>1, <1>2, <1>3 DEF OneServer, RoutesLeased, Holding, Leased
<1>7. d.left <= NotBefore(d.lease + DHCP_MAX_TIMEOUT)
  <2>1. /\ d.lease \in Int /\ d.left \in Nat /\ d.lease + DHCP_MAX_TIMEOUT \in Int
        /\ d.lease <= d.lease + DHCP_MAX_TIMEOUT
    BY <1>2, DhcpAssumption DEF ClientSet
  <2> QED  BY <1>2, <2>1, NotBeforeNat, NotBeforeMonotonic
<1>8. LeaseWatched'
  BY <1>1, <1>7 DEF LeaseWatched
<1> QED  BY <1>1, <1>2, <1>4, <1>5, <1>6, <1>8 DEF DhcpInvariant

(* The routes of a client in any state.                                    *)
LEMMA RoutesOf ==
  ASSUME DhcpInvariant
  PROVE  /\ Holding => /\ routes = Leased(dhcp.client_ip) /\ dhcp.client_ip \in Servers
                       /\ dhcp.gateway_ip = dhcp.client_ip /\ dhcp.address_assigned
         /\ ~ Holding => routes = {}
BY DEF DhcpInvariant, RoutesLeased, OneServer, Holding, Leased

(* From any state the client can discover anew.                            *)
LEMMA RestartInvariant ==
  ASSUME DhcpInvariant, NEW c \in ClientSet, NEW net, net \subseteq MessageSet,
         c.client_ip = dhcp.client_ip, c.gateway_ip = dhcp.gateway_ip,
         c.address_assigned = dhcp.address_assigned,
         dhcp_change_state(c, "DISCOVER", routes, net)
  PROVE  DhcpInvariant'
<1>1. IF c.address_assigned THEN RemoveRoutes(c, routes) = {} ELSE routes = {}
  BY RoutesOf, RoutesRemoved
<1> QED  BY <1>1, DiscoverInvariant

----------------------------------------------------------------------------
(* The actions.                                                            *)

(* What Send leaves: the client with its timers set again, and replies     *)
(* that are current.                                                       *)
LEMMA AnswersCurrent ==
  ASSUME NEW types, NEW servers, NEW answer, answer = Replies(types, servers),
         types \subseteq {"OFFER", "ACK", "NACK"}, servers \subseteq Servers,
         dhcp_net \subseteq MessageSet, Answers(answer)
  PROVE  /\ dhcp_net' \subseteq MessageSet /\ granted \subseteq granted'
         /\ \A m \in dhcp_net' \ dhcp_net :
              m.type \in types /\ m.server \in servers /\ (m.type = "ACK" => m.server \in granted')
<1>1. PICK ms \in SUBSET answer :
        /\ dhcp_net' = dhcp_net \cup ms
        /\ granted' = granted \cup {m.server : m \in {n \in ms : n.type = "ACK"}}
  BY DEF Answers
<1>2. \A m \in ms : m \in MessageSet /\ m.type \in types /\ m.server \in servers
  <2>1. ASSUME NEW m \in ms
        PROVE  m \in MessageSet /\ m.type \in types /\ m.server \in servers
    <3>1. m \in [type : types, server : servers, age : {0}]
      BY DEF Replies
    <3>2. m \in [type : {"OFFER", "ACK", "NACK"}, server : Servers, age : {0}]
      BY <3>1
    <3>3. m \in MessageSet
      BY <3>2 DEF MessageSet
    <3> QED  BY <3>1, <3>3
  <2> QED  BY <2>1
<1> QED  BY <1>1, <1>2

LEMMA BackoffBounded ==
  ASSUME NEW c \in ClientSet, NEW times \in SUBSET (0 .. DHCP_MAX_TIMEOUT),
         BackoffTimes(times), c.current_timeout \in times
  PROVE  Backoff(c) \in times /\ Backoff(c) \in Nat /\ Backoff(c) <= DHCP_MAX_TIMEOUT
<1>1. Backoff(c) \in times
  BY DEF Backoff, BackoffTimes
<1>2. PICK n \in 0 .. DHCP_MAX_TIMEOUT : n = Backoff(c)
  BY <1>1
<1>3. n \in Nat /\ n <= DHCP_MAX_TIMEOUT
  BY <1>2, DhcpAssumption
<1> QED  BY <1>1, <1>2, <1>3

(* The client sends, in any state but STOPPED, while its lease is valid.   *)
LEMMA SendInvariant ==
  ASSUME DhcpInvariant, dhcp.state # "STOPPED", ~ LeaseExpired(dhcp),
         NEW c, c = [dhcp EXCEPT !.current_timeout = Backoff(dhcp), !.left = Backoff(dhcp)],
         Send(c)
  PROVE  DhcpInvariant'
<1>1. PICK times \in SUBSET (0 .. DHCP_MAX_TIMEOUT) :
        BackoffTimes(times) /\ dhcp.current_timeout \in times
  BY DEF DhcpInvariant, TimeoutBounded
<1>2. PICK n \in times : n = Backoff(dhcp) /\ n \in Nat /\ n <= DHCP_MAX_TIMEOUT
  BY <1>1, BackoffBounded DEF DhcpInvariant
<1>3. PICK d : /\ d = dhcp'
               /\ d = c \/ d = [c EXCEPT !.retry = @ + 1]
  BY DEF Send
<1>4. /\ d \in ClientSet /\ d.current_timeout = n /\ d.left = n
      /\ d.state = dhcp.state /\ d.lease = dhcp.lease
      /\ d.server_ip = dhcp.server_ip /\ d.client_ip = dhcp.client_ip
      /\ d.gateway_ip = dhcp.gateway_ip /\ d.address_assigned = dhcp.address_assigned
  <2>1. /\ c \in ClientSet /\ c.current_timeout = n /\ c.left = n
        /\ c.state = dhcp.state /\ c.lease = dhcp.lease
        /\ c.server_ip = dhcp.server_ip /\ c.client_ip = dhcp.client_ip
        /\ c.gateway_ip = dhcp.gateway_ip /\ c.address_assigned = dhcp.address_assigned
    BY <1>2 DEF DhcpInvariant, ClientSet
  <2>2. CASE d = c
    BY <2>1, <2>2
  <2>3. CASE d = [c EXCEPT !.retry = @ + 1]
    <3>1. PICK r \in Nat : r = c.retry + 1
      <4>1. c.retry \in Nat
        BY <2>1 DEF ClientSet
      <4> QED  BY <4>1
    <3>2. d = [c EXCEPT !.retry = r]
      BY <2>3, <3>1
    <3> QED  BY <2>1, <3>2 DEF ClientSet
  <2> QED  BY <1>3, <2>2, <2>3
<1>5. routes' = routes
  BY DEF Send
<1>6. /\ dhcp_net' \subseteq MessageSet /\ granted \subseteq granted'
      /\ \A m \in dhcp_net' \ dhcp_net :
           IF dhcp.state = "DISCOVER" THEN m.type = "OFFER"
           ELSE /\ m.type # "OFFER" /\ m.server = dhcp.server_ip
                /\ m.type = "ACK" => m.server \in granted'
  <2>1. dhcp_net \subseteq MessageSet
    BY DEF DhcpInvariant
  <2>2. c.state = dhcp.state /\ c.server_ip = dhcp.server_ip
    BY DEF DhcpInvariant, ClientSet
  <2>3. CASE c.state = "DISCOVER" /\ Answers(Replies({"OFFER"}, Servers))
    BY <2>1, <2>2, <2>3, AnswersCurrent
  <2>4. CASE c.state # "DISCOVER" /\ \E t \in {"ACK", "NACK"} : Answers(Replies({t}, {c.server_ip}))
    <3>1. PICK t \in {"ACK", "NACK"} : Answers(Replies({t}, {c.server_ip}))
      BY <2>4
    <3>2. c.server_ip \in Servers
      BY <2>2, <2>4 DEF DhcpInvariant, OneServer, Holding, ClientSet
    <3>3. {t} \subseteq {"OFFER", "ACK", "NACK"} /\ {c.server_ip} \subseteq Servers
      BY <3>2
    <3>4. /\ dhcp_net' \subseteq MessageSet /\ granted \subseteq granted'
          /\ \A m \in dhcp_net' \ dhcp_net :
               m.type \in {t} /\ m.server \in {c.server_ip}
               /\ (m.type = "ACK" => m.server \in granted')
      BY <2>1, <3>1, <3>3, AnswersCurrent
    <3> QED  BY <2>2, <2>4, <3>4
  <2>5. CASE UNCHANGED <<dhcp_net, granted>>
    BY <2>1, <2>5
  <2> QED  BY <2>3, <2>4, <2>5 DEF Send
<1>7. OneServer'
  BY <1>3, <1>4, <1>6 DEF DhcpInvariant, OneServer, Holding
<1>8. TimeoutBounded'
  BY <1>1, <1>2, <1>3, <1>4 DEF TimeoutBounded, BackoffTimes
<1>9. \A m \in dhcp_net' : m.age = 0 => Current(m)'
  <2>1. ASSUME NEW m \in dhcp_net', m.age = 0
        PROVE  Current(m)'
    <3>1. CASE m \in dhcp_net
      BY <1>3, <1>4, <1>6, <2>1, <3>1 DEF DhcpInvariant, Current, Holding
    <3>2. CASE m \notin dhcp_net
      BY <1>3, <1>4, <1>6, <2>1, <3>2 DEF Current, Holding
    <3> QED  BY <3>1, <3>2
  <2> QED  BY <2>1
<1>10. RoutesLeased'
  BY <1>3, <1>4, <1>5, <1>6, RoutesOf DEF DhcpInvariant, RoutesLeased, OneServer, Holding, Leased
<1>11. LeaseWatched'
  <2>1. CASE Holding
    <3>1. dhcp.lease \in Int /\ dhcp.lease >= 0 /\ DHCP_MAX_TIMEOUT \in Nat
      BY <2>1, DhcpAssumption DEF LeaseExpired, Holding, DhcpInvariant, ClientSet
    <3>2. d.left <= NotBefore(d.lease + DHCP_MAX_TIMEOUT)
      BY <1>2, <1>4, <3>1 DEF NotBefore
    <3> QED  BY <1>3, <3>2 DEF LeaseWatched
  <2>2. CASE ~ Holding
    BY <1>5, <2>2, RoutesOf DEF LeaseWatched
  <2> QED  BY <2>1, <2>2
<1> QED  BY <1>3, <1>4, <1>6, <1>7, <1>8, <1>9, <1>10, <1>11 DEF DhcpInvariant

(* Replies are lost, or a reply leaves the client as it is.                *)
LEMMA RepliesGone ==
  ASSUME DhcpInvariant, dhcp_net' \subseteq dhcp_net, UNCHANGED <<dhcp, routes, granted>>
  PROVE  DhcpInvariant'
BY DEF DhcpInvariant, OneServer, TimeoutBounded, BackoffTimes, Current, Holding, RoutesLeased,
       LeaseWatched

LEMMA EventInvariant ==
  ASSUME DhcpInvariant, dhcp_event
  PROVE  DhcpInvariant'
<1>1. PICK c : c = [dhcp EXCEPT !.current_timeout = Backoff(dhcp), !.left = Backoff(dhcp)]
  OBVIOUS
<1>2. PICK times \in SUBSET (0 .. DHCP_MAX_TIMEOUT) :
        BackoffTimes(times) /\ dhcp.current_timeout \in times
  BY DEF DhcpInvariant, TimeoutBounded, dhcp_event
<1>3. PICK n \in Nat : n = Backoff(dhcp)
  BY <1>2, BackoffBounded DEF DhcpInvariant
<1>4. /\ c \in ClientSet /\ c.lease = dhcp.lease /\ c.state = dhcp.state
      /\ c.server_ip = dhcp.server_ip /\ c.client_ip = dhcp.client_ip
      /\ c.gateway_ip = dhcp.gateway_ip /\ c.address_assigned = dhcp.address_assigned
  BY <1>1, <1>3 DEF DhcpInvariant, ClientSet
<1>5. dhcp \in ClientSet /\ dhcp_net \subseteq MessageSet /\ dhcp.state # "STOPPED"
  BY DEF DhcpInvariant, dhcp_event
<1>6. CASE dhcp_change_state(dhcp, "DISCOVER", routes, dhcp_net)
  BY <1>5, <1>6, RestartInvariant
<1>7. CASE ~ LeaseExpired(dhcp) /\ Send(c)
  BY <1>1, <1>5, <1>7, SendInvariant
<1>8. CASE dhcp_change_state(c, "DISCOVER", routes, dhcp_net)
  BY <1>4, <1>5, <1>8, RestartInvariant
<1>9. CASE c.state = "RENEW" /\ dhcp_change_state(c, "REBIND", routes, dhcp_net)
  <2>1. /\ Holding /\ c.server_ip \in Servers /\ c.client_ip = c.server_ip
        /\ c.gateway_ip = c.server_ip /\ c.address_assigned /\ c.client_ip \in granted
    BY <1>4, <1>9 DEF DhcpInvariant, OneServer, Holding
  <2>2. routes = Leased(c.client_ip)
    BY <1>4, <2>1, RoutesOf
  <2> QED  BY <1>4, <1>5, <1>9, <2>1, <2>2, HoldInvariant
<1> QED  BY <1>1, <1>6, <1>7, <1>8, <1>9 DEF dhcp_event

(* An acknowledgement comes from the server that the client asks.          *)
LEMMA AcknowledgedInvariant ==
  ASSUME DhcpInvariant, NEW m \in dhcp_net, m.age = 0, m.type = "ACK",
         dhcp.state \in {"REQUEST", "RENEW", "REBIND"},
         NEW net, net \subseteq dhcp_net,
         NEW c, c = [dhcp EXCEPT !.gateway_ip = m.server], Acknowledged(c, net)
  PROVE  DhcpInvariant'
<1>1. PICK d : d = [c EXCEPT !.lease = LEASE, !.address_assigned = TRUE]
  OBVIOUS
<1>2. /\ dhcp \in ClientSet /\ dhcp_net \subseteq MessageSet /\ m.server \in Servers
      /\ LEASE \in Int
  BY DhcpAssumption DEF DhcpInvariant, MessageSet
<1>3. /\ m.server = dhcp.server_ip /\ m.server \in granted
      /\ dhcp.client_ip = dhcp.server_ip
  BY DEF DhcpInvariant, Current, OneServer, Holding
<1>4. /\ c \in ClientSet /\ c.server_ip = m.server /\ c.client_ip = m.server
      /\ c.gateway_ip = m.server /\ c.address_assigned = dhcp.address_assigned
  BY <1>2, <1>3 DEF ClientSet, Addresses
<1>5. /\ d \in ClientSet /\ d.server_ip = m.server /\ d.client_ip = m.server
      /\ d.gateway_ip = m.server
  BY <1>1, <1>2, <1>4 DEF ClientSet
<1>6. d.address_assigned
  BY <1>1, <1>4 DEF ClientSet
<1>7. PICK rs : rs = IF c.address_assigned THEN routes
                     ELSE route_add(ipv4_set_device_address(routes, c.client_ip),
                                    c.client_ip, c.gateway_ip, UNSPEC)
  OBVIOUS
<1>8. rs = Leased(d.client_ip)
  <2>1. CASE Holding
    BY <1>3, <1>4, <1>5, <1>7, <2>1, RoutesOf
  <2>2. CASE ~ Holding
    <3>1. ~ c.address_assigned /\ routes = {}
      BY <1>4, <2>2, RoutesOf DEF DhcpInvariant, OneServer, Holding
    <3>2. m.server # UNSPEC
      BY <1>2, DhcpAssumption
    <3> QED  BY <1>4, <1>5, <1>7, <3>1, <3>2 DEF Leased, ipv4_set_device_address
  <2> QED  BY <2>1, <2>2
<1>9. dhcp_change_state(d, "RENEW", rs, net)
  BY <1>1, <1>7 DEF Acknowledged
<1> QED  BY <1>2, <1>3, <1>5, <1>6, <1>8, <1>9, HoldInvariant

(* An offer is taken by a client that discovers.                           *)
LEMMA OfferInvariant ==
  ASSUME DhcpInvariant, NEW m \in dhcp_net, dhcp.state = "DISCOVER",
         NEW net, net \subseteq dhcp_net,
         NEW c, c = [dhcp EXCEPT !.gateway_ip = m.server, !.client_ip = m.server,
                                 !.server_ip = m.server],
         dhcp_change_state(c, "REQUEST", routes, net)
  PROVE  DhcpInvariant'
<1>1. /\ dhcp \in ClientSet /\ dhcp_net \subseteq MessageSet /\ m.server \in Servers
      /\ ~ dhcp.address_assigned /\ routes = {}
  BY RoutesOf DEF DhcpInvariant, MessageSet, OneServer, Holding
<1>2. /\ c \in ClientSet /\ c.server_ip = m.server /\ c.client_ip = m.server
      /\ c.address_assigned = dhcp.address_assigned
  BY <1>1 DEF ClientSet, Addresses
<1>3. PICK d : d = dhcp'
  OBVIOUS
<1>4. /\ d \in ClientSet /\ d.state = "REQUEST"
      /\ d.current_timeout = DHCP_BASE_TIMEOUT \div 2
      /\ d.server_ip = m.server /\ d.client_ip = m.server
      /\ d.address_assigned = c.address_assigned
  BY <1>2, <1>3, ChangedProperties DEF dhcp_change_state, States
<1>5. routes' = {} /\ dhcp_net' \subseteq dhcp_net /\ granted' = granted
  BY <1>1 DEF dhcp_change_state
<1>6. TimeoutBounded'
  BY <1>3, <1>4, BackoffAssumption DEF TimeoutBounded, BackoffTimes
<1>7. OneServer' /\ RoutesLeased' /\ LeaseWatched'
  <2>1. ~ dhcp'.address_assigned
    BY <1>1, <1>2, <1>3, <1>4
  <2> QED  BY <1>1, <1>3, <1>4, <1>5, <2>1 DEF OneServer, RoutesLeased, LeaseWatched, Holding
<1>8. \A n \in dhcp_net' : n.age = 0 => Current(n)'
  BY <1>3, <1>4, <1>5 DEF DhcpInvariant, Current, Holding
<1> QED  BY <1>1, <1>3, <1>4, <1>5, <1>6, <1>7, <1>8 DEF DhcpInvariant

(* A reply that is left aside may name another gateway.                    *)
LEMMA AsideInvariant ==
  ASSUME DhcpInvariant, NEW m \in dhcp_net, ~ Holding,
         dhcp' = dhcp \/ dhcp' = [dhcp EXCEPT !.gateway_ip = m.server],
         dhcp_net' \subseteq dhcp_net, UNCHANGED <<routes, granted>>
  PROVE  DhcpInvariant'
<1>1. dhcp \in ClientSet /\ dhcp_net \subseteq MessageSet /\ m.server \in Servers /\ routes = {}
  BY RoutesOf DEF DhcpInvariant, MessageSet
<1>2. PICK d : d = dhcp'
  OBVIOUS
<1>3. /\ d \in ClientSet /\ d.state = dhcp.state /\ d.current_timeout = dhcp.current_timeout
      /\ d.server_ip = dhcp.server_ip /\ d.client_ip = dhcp.client_ip
      /\ d.address_assigned = dhcp.address_assigned
  BY <1>1, <1>2 DEF ClientSet, Addresses
<1>4. TimeoutBounded'
  BY <1>2, <1>3 DEF DhcpInvariant, TimeoutBounded, BackoffTimes
<1>5. OneServer' /\ RoutesLeased' /\ LeaseWatched'
  BY <1>1, <1>2, <1>3 DEF DhcpInvariant, OneServer, RoutesLeased, LeaseWatched, Holding
<1>6. \A n \in dhcp_net' : n.age = 0 => Current(n)'
  BY <1>2, <1>3 DEF DhcpInvariant, Current, Holding
<1> QED  BY <1>1, <1>2, <1>3, <1>4, <1>5, <1>6 DEF DhcpInvariant

LEMMA ProcessInvariant ==
  ASSUME DhcpInvariant, NEW m \in dhcp_net, NEW copy \in BOOLEAN,
         net_dhcp_client_process(m, copy)
  PROVE  DhcpInvariant'
<1> DEFINE bound == dhcp.state \in {"REQUEST", "RENEW", "REBIND"}
<1>1. PICK net : net = IF copy THEN dhcp_net ELSE dhcp_net \ {m}
  OBVIOUS
<1>2. PICK c : c = IF m.type = "NACK" THEN dhcp ELSE [dhcp EXCEPT !.gateway_ip = m.server]
  OBVIOUS
<1>3. net \subseteq dhcp_net /\ dhcp_net \subseteq MessageSet /\ dhcp \in ClientSet
  BY <1>1 DEF DhcpInvariant
<1>4. CASE m.age # 0 /\ dhcp_net' = net /\ UNCHANGED <<dhcp, routes, granted>>
  BY <1>3, <1>4, RepliesGone
<1>5. CASE /\ dhcp.state = "DISCOVER" /\ m.type = "OFFER"
           /\ dhcp_change_state([c EXCEPT !.client_ip = m.server, !.server_ip = m.server],
                                "REQUEST", routes, net)
  <2>1. PICK d : d = [dhcp EXCEPT !.gateway_ip = m.server, !.client_ip = m.server,
                                  !.server_ip = m.server]
    OBVIOUS
  <2>2. d = [c EXCEPT !.client_ip = m.server, !.server_ip = m.server]
    BY <1>2, <1>3, <1>5, <2>1 DEF ClientSet
  <2> QED  BY <1>3, <1>5, <2>1, <2>2, OfferInvariant
<1>6. CASE m.age = 0 /\ bound /\ m.type = "ACK" /\ Acknowledged(c, net)
  BY <1>2, <1>3, <1>6, AcknowledgedInvariant
<1>7. CASE m.type = "NACK" /\ dhcp_change_state(c, "DISCOVER", routes, net)
  <2>1. c = dhcp
    BY <1>2, <1>7
  <2>2. net \subseteq MessageSet
    BY <1>3
  <2> QED  BY <1>3, <1>7, <2>1, <2>2, RestartInvariant
<1>8. CASE /\ m.age = 0
           /\ \/ dhcp.state = "STOPPED" \/ (bound /\ m.type = "OFFER")
              \/ dhcp.state = "DISCOVER" /\ m.type # "OFFER"
           /\ dhcp' = c /\ dhcp_net' = net /\ UNCHANGED <<routes, granted>>
  <2>1. ~ Holding
    BY <1>8 DEF DhcpInvariant, Current, Holding
  <2> QED  BY <1>2, <1>3, <1>8, <2>1, AsideInvariant
<1> QED  BY <1>1, <1>2, <1>4, <1>5, <1>6, <1>7, <1>8 DEF net_dhcp_client_process

LEMMA LinkDownInvariant ==
  ASSUME DhcpInvariant, net_device_link_down
  PROVE  DhcpInvariant'
<1>1. PICK d : d = dhcp' /\ d = [dhcp EXCEPT !.state = "STOPPED"]
  BY DEF net_device_link_down
<1>2. d \in ClientSet /\ d.state = "STOPPED"
  BY <1>1 DEF DhcpInvariant, ClientSet
<1>3. routes' = {}
  <2>1. ipv4_set_device_address(RemoveRoutes(dhcp, routes), UNSPEC) = {}
    BY DEF ipv4_set_device_address, route_remove
  <2> QED  BY <2>1 DEF net_device_link_down
<1>4. dhcp_net' = dhcp_net
  BY DEF net_device_link_down
<1> QED  BY <1>1, <1>2, <1>3, <1>4
         DEF DhcpInvariant, OneServer, TimeoutBounded, RoutesLeased, LeaseWatched, Holding, Current

LEMMA TickInvariant ==
  ASSUME DhcpInvariant, DhcpTick
  PROVE  DhcpInvariant'
<1>1. PICK left \in Nat : left = NotBefore(dhcp.left - 1)
  BY NotBeforeNat DEF DhcpInvariant, ClientSet
<1>2. PICK lease \in Int :
        lease = IF dhcp.lease > -DHCP_MAX_TIMEOUT - 1 THEN dhcp.lease - 1 ELSE dhcp.lease
  BY DEF DhcpInvariant, ClientSet
<1>3. PICK d : d = dhcp' /\ d = [dhcp EXCEPT !.left = left, !.lease = lease]
  BY <1>1, <1>2 DEF DhcpTick
<1>4. /\ d \in ClientSet /\ d.left = left /\ d.lease = lease /\ d.state = dhcp.state
      /\ d.current_timeout = dhcp.current_timeout /\ d.server_ip = dhcp.server_ip
      /\ d.client_ip = dhcp.client_ip /\ d.gateway_ip = dhcp.gateway_ip
      /\ d.address_assigned = dhcp.address_assigned
  BY <1>3 DEF DhcpInvariant, ClientSet
<1>5. UNCHANGED <<routes, dhcp_net, granted>>
  BY DEF DhcpTick
<1>6. LeaseWatched'
  <2>1. CASE routes = {}
    BY <1>5, <2>1 DEF LeaseWatched
  <2>2. CASE routes # {}
    <3>1. /\ dhcp.left <= NotBefore(dhcp.lease + DHCP_MAX_TIMEOUT)
          /\ dhcp.left \in Nat /\ dhcp.lease \in Int /\ DHCP_MAX_TIMEOUT \in Nat
      BY <2>2, DhcpAssumption DEF DhcpInvariant, LeaseWatched, ClientSet
    <3>2. left <= NotBefore(lease + DHCP_MAX_TIMEOUT)
      BY <1>1, <1>2, <3>1 DEF NotBefore
    <3> QED  BY <1>3, <1>4, <3>2 DEF LeaseWatched
  <2> QED  BY <2>1, <2>2
<1>7. TimeoutBounded'
  BY <1>3, <1>4 DEF DhcpInvariant, TimeoutBounded, BackoffTimes
<1>8. OneServer' /\ RoutesLeased' /\ \A m \in dhcp_net' : m.age = 0 => Current(m)'
  BY <1>3, <1>4, <1>5 DEF DhcpInvariant, OneServer, RoutesLeased, Current, Holding
<1> QED  BY <1>3, <1>4, <1>5, <1>6, <1>7, <1>8 DEF DhcpInvariant

(* DhcpInvariant holds initially and every step keeps it.                  *)
LEMMA DhcpInitInvariant == DhcpInit => DhcpInvariant
<1> SUFFICES ASSUME DhcpInit PROVE DhcpInvariant
  OBVIOUS
<1>1. dhcp \in ClientSet /\ dhcp.state = "STOPPED"
  BY DEF DhcpInit, ClientSet, Addresses
<1>2. dhcp_net = {} /\ routes = {}
  BY DEF DhcpInit
<1> QED  BY <1>1, <1>2
         DEF DhcpInvariant, OneServer, TimeoutBounded, RoutesLeased, LeaseWatched, Holding

LEMMA DhcpNextInvariant == DhcpInvariant /\ [DhcpNext]_dhcpVars => DhcpInvariant'
<1> SUFFICES ASSUME DhcpInvariant, [DhcpNext]_dhcpVars PROVE DhcpInvariant'
  OBVIOUS
<1>1. CASE dhcp_event
  BY <1>1, EventInvariant
<1>2. CASE net_device_link_up
  <2>1. dhcp \in ClientSet /\ dhcp_net \subseteq MessageSet
    BY DEF DhcpInvariant
  <2> QED  BY <1>2, <2>1, RestartInvariant DEF net_device_link_up
<1>3. CASE net_device_link_down
  BY <1>3, LinkDownInvariant
<1>4. CASE DhcpTick
  BY <1>4, TickInvariant
<1>5. ASSUME NEW m \in dhcp_net, DhcpLost(m)
      PROVE  DhcpInvariant'
  BY <1>5, RepliesGone DEF DhcpLost
<1>6. ASSUME NEW m \in dhcp_net, NEW copy \in BOOLEAN, net_dhcp_client_process(m, copy)
      PROVE  DhcpInvariant'
  BY <1>6, ProcessInvariant
<1>7. CASE UNCHANGED dhcpVars
  BY <1>7, RepliesGone DEF dhcpVars
<1> QED  BY <1>1, <1>2, <1>3, <1>4, <1>5, <1>6, <1>7 DEF DhcpNext

LEMMA DhcpInvariantHolds == DhcpSpec => []DhcpInvariant
BY DhcpInitInvariant, DhcpNextInvariant, PTL DEF DhcpSpec

(* The routes of a device are those of its lease, and nothing else, over   *)
(* any loss, delay and repetition of the replies (dhcp_change_state,       *)
(* net_dhcp_client_process).                                               *)
THEOREM RoutesOfLease == DhcpSpec => []RoutesLeased
<1>1. DhcpInvariant => RoutesLeased
  BY DEF DhcpInvariant
<1> QED  BY <1>1, DhcpInvariantHolds, PTL

(* The timer of a client that holds an address is due no later than the    *)
(* longest retry timeout after the lease ended (dhcp_event).               *)
THEOREM LeaseEndNoticed == DhcpSpec => []LeaseWatched
<1>1. DhcpInvariant => LeaseWatched
  BY DEF DhcpInvariant
<1> QED  BY <1>1, DhcpInvariantHolds, PTL

-----------------------------------------------------------------------------
(* The TFTP server.                                                        *)

(* The first n blocks of the file that is read, and of the one c writes.   *)
FirstBlocks(n) == [i \in 1 .. n |-> i]
FirstOf(c, n) == [i \in 1 .. n |-> <<c, i>>]

LEMMA ReadNext ==
  ASSUME NEW n \in Nat
  PROVE  FirstBlocks(n) \in Seq(Nat) /\ FirstBlocks(n) \o <<n + 1>> = FirstBlocks(n + 1)
<1>1. PICK f : f = FirstBlocks(n)
  OBVIOUS
<1>2. f \in Seq(Nat) /\ Len(f) = n /\ \A i \in 1 .. n : f[i] = i
  BY <1>1 DEF FirstBlocks
<1>3. PICK x \in Nat : x = n + 1
  OBVIOUS
<1>4. PICK s : s = Append(f, x)
  OBVIOUS
<1>5. /\ s \in Seq(Nat) /\ Len(s) = n + 1
      /\ \A i \in 1 .. n : s[i] = f[i]
      /\ s[n + 1] = x
  BY <1>2, <1>4, AppendProperties
<1>6. s = [i \in 1 .. n + 1 |-> i]
  BY <1>2, <1>3, <1>5
<1>7. s = f \o <<x>>
  BY <1>2, <1>4, AppendIsConcat
<1> QED  BY <1>1, <1>2, <1>3, <1>6, <1>7 DEF FirstBlocks

LEMMA WriteNext ==
  ASSUME NEW n \in Nat, NEW c \in Writers
  PROVE  FirstOf(c, n) \in Seq(Writers \X Nat)
         /\ FirstOf(c, n) \o <<<<c, n + 1>>>> = FirstOf(c, n + 1)
<1>1. PICK f : f = FirstOf(c, n)
  OBVIOUS
<1>2. f \in Seq(Writers \X Nat) /\ Len(f) = n /\ \A i \in 1 .. n : f[i] = <<c, i>>
  BY <1>1 DEF FirstOf
<1>3. PICK x \in Writers \X Nat : x = <<c, n + 1>>
  <2>1. <<c, n + 1>> \in Writers \X Nat
    OBVIOUS
  <2> QED  BY <2>1
<1>4. PICK s : s = Append(f, x)
  OBVIOUS
<1>5. /\ s \in Seq(Writers \X Nat) /\ Len(s) = n + 1
      /\ \A i \in 1 .. n : s[i] = f[i]
      /\ s[n + 1] = x
  BY <1>2, <1>4, AppendProperties
<1>6. s = [i \in 1 .. n + 1 |-> <<c, i>>]
  BY <1>2, <1>3, <1>5
<1>7. s = f \o <<x>>
  BY <1>2, <1>4, AppendIsConcat
<1> QED  BY <1>1, <1>2, <1>3, <1>6, <1>7 DEF FirstOf

LEMMA NoBlocks == \A c : FirstOf(c, 0) = <<>> /\ FirstBlocks(0) = <<>>
BY DEF FirstOf, FirstBlocks

(* TransferExact in these words.                                           *)
LEMMA ExactBlocks ==
  TransferExact <=>
    /\ \A r \in Readers : client[r].data = FirstBlocks(client[r].block)
    /\ server.fd = "WRITE_REQ" =>
         written[server.client] = FirstOf(server.client, server.block_num)
    /\ server.fd # Closed => server.timer
BY DEF TransferExact, FirstBlocks, FirstOf

----------------------------------------------------------------------------
(* The session and the file that is written, apart from the datagrams.     *)
ServerPart ==
  /\ server \in ServerSet /\ SessionOK
  /\ written \in [Writers -> Seq(Writers \X Nat)]
  /\ server.fd = "WRITE_REQ" =>
       written[server.client] = FirstOf(server.client, server.block_num)
  /\ server.fd # Closed => server.timer

ClientPart ==
  /\ client \in [Clients -> PeerSet]
  /\ \A r \in Readers : client[r].data = FirstBlocks(client[r].block)

RequestPart == \A m \in requests : RequestOK(m)
AnswerPart  == \A a \in answers : AnswerOK(a)

LEMMA Parts ==
  TftpInvariant <=> ServerPart /\ ClientPart /\ RequestPart /\ AnswerPart
BY ExactBlocks DEF TftpInvariant, ServerPart, ClientPart, RequestPart, AnswerPart

LEMMA PartsPrimed ==
  ServerPart' /\ ClientPart' /\ RequestPart' /\ AnswerPart' => TftpInvariant'
BY DEF TftpInvariant, ServerPart, ClientPart, RequestPart, AnswerPart, TransferExact,
       FirstBlocks, FirstOf

(* A datagram that is sent, or not, is one that may be sent.               *)
LEMMA SentAnswer ==
  ASSUME AnswerPart, NEW d, AnswerOK(d), Answer(d)
  PROVE  AnswerPart'
BY DEF AnswerPart, Answer, Sent

LEMMA SentRequest ==
  ASSUME RequestPart, NEW d, RequestOK(d), requests' \in Sent(requests, d)
  PROVE  RequestPart'
BY DEF RequestPart, Sent

(* A control datagram has no data.                                         *)
LEMMA ControlAnswer ==
  ASSUME NEW c \in Clients, NEW op, NEW n \in Nat,
         op = "ERR" \/ (op = "ACK" /\ c \in Writers)
  PROVE  AnswerOK(Control(c, op, n))
<1>1. PICK d : d = Control(c, op, n)
  OBVIOUS
<1>2. d.client = c /\ d.op = op /\ d.block = n
  BY <1>1 DEF Control, Datagram
<1> QED  BY <1>1, <1>2, TftpAssumption DEF AnswerOK

(* The session that is over.                                               *)
LEMMA NoSessionPart ==
  ASSUME ServerPart, server' = NoSession, UNCHANGED written
  PROVE  ServerPart'
<1>1. PICK s : s = server'
  OBVIOUS
<1>2. s \in ServerSet /\ s.fd = Closed
  BY <1>1 DEF NoSession, ServerSet
<1> QED  BY <1>1, <1>2, TftpAssumption DEF ServerPart, SessionOK

LEMMA RefusePart ==
  ASSUME ServerPart, AnswerPart, NEW c \in Clients, Refuse(c), UNCHANGED written
  PROVE  ServerPart' /\ AnswerPart'
<1>1. AnswerPart'
  <2>1. AnswerOK(Control(c, "ERR", 0))
    BY ControlAnswer
  <2> QED  BY <2>1, SentAnswer DEF Refuse
<1>2. ServerPart'
  <2>1. CASE server' = NoSession
    BY <2>1, NoSessionPart
  <2>2. CASE server' = server
    BY <2>2 DEF ServerPart, SessionOK
  <2> QED  BY <2>1, <2>2 DEF Refuse
<1> QED  BY <1>1, <1>2

(* The block numbers of a file do not wrap.                                *)
LEMMA NextBlock ==
  ASSUME NEW n \in Nat, n < FileBlocks
  PROVE  (n + 1) % BlockRange = n + 1
<1>1. /\ n + 1 \in Nat /\ BlockRange \in Nat /\ 0 < BlockRange /\ n + 1 < BlockRange
  BY TftpAssumption
<1> QED  BY <1>1

(* The next block of a file that has one.                                  *)
LEMMA SendBlockPart ==
  ASSUME AnswerPart, NEW s \in ServerSet, NEW c \in Readers, s.fd = "READ_REQ",
         s.client = c, s.block_num = s.position, s.position < FileBlocks,
         SendBlock(s, c), written \in [Writers -> Seq(Writers \X Nat)], UNCHANGED written
  PROVE  ServerPart' /\ AnswerPart'
<1>1. PICK i \in Nat : i = s.position + 1 /\ i <= FileBlocks
  BY TftpAssumption DEF ServerSet
<1>2. (s.block_num + 1) % BlockRange = i
  <2>1. s.position \in Nat
    BY DEF ServerSet
  <2> QED  BY <1>1, <2>1, NextBlock
<1>3. PICK last \in BOOLEAN :
        /\ server' = [s EXCEPT !.block_num = i, !.position = i, !.last_block = last,
                               !.timer = TRUE]
        /\ i = FileBlocks => last
        /\ Answer(Datagram(c, "DATA", i, <<i>>, last)) \/ NoAnswer
  BY <1>1, <1>2 DEF SendBlock
<1>4. AnswerPart'
  <2>1. PICK d : d = Datagram(c, "DATA", i, <<i>>, last)
    OBVIOUS
  <2>2. d.client = c /\ d.op = "DATA" /\ d.block = i /\ d.data = <<i>>
    BY <2>1 DEF Datagram
  <2>3. AnswerOK(d)
    BY <2>2 DEF AnswerOK, Clients
  <2> QED  BY <1>3, <2>1, <2>3, SentAnswer DEF NoAnswer, AnswerPart
<1>5. PICK t : t = [s EXCEPT !.block_num = i, !.position = i, !.last_block = last,
                             !.timer = TRUE]
  OBVIOUS
<1>6. /\ t.fd = "READ_REQ" /\ t.client = c
      /\ t.block_num = i /\ t.position = i
  BY <1>5 DEF ServerSet
<1>7. t \in ServerSet
  BY <1>5 DEF ServerSet
<1>8. t.timer /\ (last => t.last_block)
  BY <1>5 DEF ServerSet
<1>9. ServerPart'
  BY <1>1, <1>3, <1>5, <1>6, <1>7, <1>8 DEF ServerPart, SessionOK
<1> QED  BY <1>4, <1>9

----------------------------------------------------------------------------
(* The server.                                                             *)

LEMMA OpenPart ==
  ASSUME ServerPart, AnswerPart, NEW m, RequestOK(m), OpenRequest(m)
  PROVE  ServerPart' /\ AnswerPart'
<1>1. PICK c \in Clients : c = m.client
  BY DEF RequestOK
<1>2. PICK s : s = [fd |-> m.op, client |-> c, block_num |-> 0, last_block |-> FALSE,
                    timer |-> TRUE, position |-> 0]
  OBVIOUS
<1>3. /\ s \in ServerSet /\ s.fd = m.op /\ s.client = c /\ s.block_num = 0
      /\ s.position = 0
  BY <1>2 DEF OpenRequest, ServerSet
<1>4. CASE m.op = "READ_REQ" /\ SendBlock(s, c) /\ UNCHANGED written
  <2>1. c \in Readers
    BY <1>1, <1>4, TftpAssumption DEF RequestOK, Clients
  <2>2. written \in [Writers -> Seq(Writers \X Nat)] /\ 0 < FileBlocks
    BY TftpAssumption DEF ServerPart
  <2> QED  BY <1>3, <1>4, <2>1, <2>2, SendBlockPart
<1>5. CASE /\ m.op = "WRITE_REQ" /\ server' = s
           /\ written' = [written EXCEPT ![c] = <<>>]
           /\ Answer(Control(c, "ACK", 0))
  <2>1. c \in Writers
    BY <1>1, <1>5 DEF RequestOK, Clients
  <2>2. s.timer
    BY <1>2
  <2>3. written' \in [Writers -> Seq(Writers \X Nat)] /\ written'[c] = FirstOf(c, 0)
    BY <1>5, <2>1, NoBlocks DEF ServerPart
  <2>4. AnswerPart'
    BY <1>5, <2>1, ControlAnswer, SentAnswer
  <2>5. ServerPart'
    BY <1>3, <1>5, <2>1, <2>2, <2>3 DEF ServerPart, SessionOK
  <2> QED  BY <2>4, <2>5
<1>6. CASE Refuse(c) /\ UNCHANGED written
  BY <1>6, RefusePart
<1> QED  BY <1>1, <1>2, <1>4, <1>5, <1>6 DEF OpenRequest

LEMMA DataPart ==
  ASSUME ServerPart, AnswerPart, NEW m, RequestOK(m), DataRequest(m)
  PROVE  ServerPart' /\ AnswerPart'
<1>1. PICK c \in Writers : c = m.client /\ c \in Clients
  BY DEF RequestOK, DataRequest, Clients
<1>2. PICK n \in Nat : n = m.block /\ m.data = <<<<c, n>>>>
  BY <1>1 DEF RequestOK, DataRequest
<1>3. CASE /\ Serving(c) /\ m.block <= server.block_num + 1
           /\ written' = IF Anticipated(m.block) THEN [written EXCEPT ![c] = @ \o m.data]
                         ELSE written
           /\ server' = IF m.short THEN NoSession
                        ELSE [server EXCEPT !.block_num = IF Anticipated(m.block) THEN m.block
                                                          ELSE @, !.timer = TRUE]
           /\ Answer(Control(c, "ACK", IF Anticipated(m.block) THEN m.block
                                       ELSE server.block_num))
  <2>1. PICK b \in Nat : b = IF Anticipated(m.block) THEN m.block ELSE server.block_num
    BY <1>2 DEF ServerPart, ServerSet
  <2>2. AnswerPart'
    BY <1>1, <1>3, <2>1, ControlAnswer, SentAnswer
  <2>3. server.fd = "WRITE_REQ" /\ server.client = c /\ server \in ServerSet
    BY <1>1, <1>3, TftpAssumption DEF ServerPart, SessionOK, Serving, ServerSet
  <2>4. written[c] = FirstOf(c, server.block_num) /\ server.block_num \in Nat
    BY <2>3 DEF ServerPart, ServerSet
  <2>5. /\ written' \in [Writers -> Seq(Writers \X Nat)]
        /\ written'[c] = FirstOf(c, b)
    <3>1. CASE Anticipated(m.block)
      <4>1. b = server.block_num + 1 /\ b = n
        BY <1>2, <2>1, <3>1 DEF Anticipated
      <4>2. written[c] \o m.data = FirstOf(c, b)
        BY <1>2, <2>4, <4>1, WriteNext
      <4>3. FirstOf(c, b) \in Seq(Writers \X Nat)
        BY <2>1, WriteNext
      <4>4. written' = [written EXCEPT ![c] = FirstOf(c, b)]
        BY <1>3, <3>1, <4>2
      <4> QED  BY <4>3, <4>4 DEF ServerPart
    <3>2. CASE ~ Anticipated(m.block)
      BY <1>3, <2>1, <2>4, <3>2 DEF ServerPart
    <3> QED  BY <3>1, <3>2
  <2>6. PICK s : s = [server EXCEPT !.block_num = b, !.timer = TRUE]
    OBVIOUS
  <2>7. s \in ServerSet /\ s.fd = "WRITE_REQ" /\ s.client = c /\ s.block_num = b
    BY <2>3, <2>6 DEF ServerSet
  <2>8. s.timer
    BY <2>3, <2>6 DEF ServerSet
  <2>9. ServerPart'
    <3>1. CASE server' = NoSession
      <4>1. PICK t : t = NoSession
        OBVIOUS
      <4>2. t \in ServerSet /\ t.fd = Closed
        BY <4>1 DEF NoSession, ServerSet
      <4> QED  BY <2>5, <3>1, <4>1, <4>2, TftpAssumption DEF ServerPart, SessionOK
    <3>2. CASE server' = s
      BY <1>1, <2>5, <2>7, <2>8, <3>2 DEF ServerPart, SessionOK
    <3> QED  BY <1>3, <2>1, <2>6, <3>1, <3>2
  <2> QED  BY <2>2, <2>9
<1>4. CASE Refuse(c) /\ UNCHANGED written
  BY <1>1, <1>4, RefusePart
<1>5. PICK b : b = IF Anticipated(m.block) THEN m.block ELSE server.block_num
  OBVIOUS
<1>6. PICK s : s = [server EXCEPT !.block_num = b, !.timer = TRUE]
  OBVIOUS
<1>7. s.block_num = b
  BY <1>6 DEF ServerPart, ServerSet
<1>8. \/ /\ Serving(c) /\ m.block <= server.block_num + 1
         /\ written' = IF Anticipated(m.block) THEN [written EXCEPT ![c] = @ \o m.data]
                       ELSE written
         /\ server' = IF m.short THEN NoSession ELSE s
         /\ Answer(Control(c, "ACK", s.block_num))
      \/ Refuse(c) /\ UNCHANGED written
  BY <1>1, <1>5, <1>6 DEF DataRequest
<1> QED  BY <1>3, <1>4, <1>5, <1>6, <1>7, <1>8

LEMMA AckPart ==
  ASSUME ServerPart, AnswerPart, NEW m, RequestOK(m), AckRequest(m)
  PROVE  ServerPart' /\ AnswerPart'
<1>1. PICK c \in Readers : c = m.client /\ c \in Clients
  BY DEF RequestOK, AckRequest, Clients
<1>2. CASE server' = NoSession /\ NoAnswer
  BY <1>2, NoSessionPart DEF AckRequest, NoAnswer, AnswerPart
<1>3. CASE Serving(c) /\ ~ server.last_block /\ SendBlock(server, c)
  <2>1. /\ server \in ServerSet /\ server.fd = "READ_REQ" /\ server.client = c
        /\ written \in [Writers -> Seq(Writers \X Nat)]
    BY <1>1, <1>3, TftpAssumption DEF ServerPart, SessionOK, Serving, ServerSet
  <2>2. server.block_num = server.position /\ server.position < FileBlocks
    BY <1>3, <2>1, TftpAssumption DEF ServerPart, SessionOK, ServerSet
  <2> QED  BY <1>3, <2>1, <2>2, SendBlockPart DEF AckRequest
<1>4. CASE Refuse(c)
  BY <1>1, <1>4, RefusePart DEF AckRequest
<1> QED  BY <1>1, <1>2, <1>3, <1>4 DEF AckRequest

LEMMA ErrorPart ==
  ASSUME ServerPart, AnswerPart, NEW m, ErrorRequest(m)
  PROVE  ServerPart' /\ AnswerPart'
<1>1. AnswerPart' /\ UNCHANGED written
  BY DEF ErrorRequest, NoAnswer, AnswerPart
<1>2. CASE server' = NoSession
  BY <1>1, <1>2, NoSessionPart
<1>3. CASE server' = server
  BY <1>1, <1>3 DEF ServerPart, SessionOK
<1> QED  BY <1>1, <1>2, <1>3 DEF ErrorRequest

LEMMA ServerInvariant ==
  ASSUME TftpInvariant, tftp_server_process
  PROVE  TftpInvariant'
<1>1. PICK m \in requests :
        /\ OpenRequest(m) \/ DataRequest(m) \/ AckRequest(m) \/ ErrorRequest(m)
        /\ requests' \in Taken(requests, m)
        /\ UNCHANGED client
  BY DEF tftp_server_process
<1>2. RequestOK(m) /\ ServerPart /\ ClientPart /\ RequestPart /\ AnswerPart
  BY Parts DEF RequestPart
<1>3. ServerPart' /\ AnswerPart'
  BY <1>1, <1>2, OpenPart, DataPart, AckPart, ErrorPart
<1>4. RequestPart' /\ ClientPart'
  BY <1>1, <1>2 DEF RequestPart, ClientPart, Taken
<1> QED  BY <1>3, <1>4, PartsPrimed

LEMMA TimeoutInvariant ==
  ASSUME TftpInvariant, ServerTimeout
  PROVE  TftpInvariant'
<1>1. ServerPart /\ ClientPart /\ RequestPart /\ AnswerPart
  BY Parts
<1>2. ServerPart'
  BY <1>1, NoSessionPart DEF ServerTimeout
<1>3. ClientPart' /\ RequestPart' /\ AnswerPart'
  BY <1>1 DEF ServerTimeout, ClientPart, RequestPart, AnswerPart
<1> QED  BY <1>2, <1>3, PartsPrimed

----------------------------------------------------------------------------
(* The clients.                                                            *)

(* What does not touch the server leaves the session and the file alone.   *)
LEMMA ServerAlone ==
  ServerPart /\ UNCHANGED <<server, written>> => ServerPart'
BY DEF ServerPart, SessionOK

LEMMA LastRequestOK ==
  ASSUME ClientPart, NEW c \in Clients
  PROVE  RequestOK(LastRequest(c))
<1>1. PICK n \in Nat : n = client[c].block
  BY DEF ClientPart, PeerSet
<1>2. PICK d : d = LastRequest(c)
  OBVIOUS
<1>3. CASE d = Control(c, IF c \in Readers THEN "READ_REQ" ELSE "WRITE_REQ", 0)
  <2>1. d.client = c /\ d.op = (IF c \in Readers THEN "READ_REQ" ELSE "WRITE_REQ") /\ d.block = 0
    BY <1>3 DEF Control, Datagram
  <2> QED  BY <1>2, <2>1 DEF RequestOK
<1>4. CASE c \in Readers /\ d = Control(c, "ACK", n)
  <2>1. d.client = c /\ d.op = "ACK" /\ d.block = n
    BY <1>4 DEF Control, Datagram
  <2> QED  BY <1>2, <1>4, <2>1 DEF RequestOK
<1>5. CASE c \notin Readers /\ d = Datagram(c, "DATA", n, <<<<c, n>>>>, n = FileBlocks)
  <2>1. d.client = c /\ d.op = "DATA" /\ d.block = n /\ d.data = <<<<c, n>>>>
    BY <1>5 DEF Datagram
  <2> QED  BY <1>2, <1>5, <2>1 DEF RequestOK
<1> QED  BY <1>1, <1>2, <1>3, <1>4, <1>5 DEF LastRequest

LEMMA ClientSendsInvariant ==
  ASSUME TftpInvariant, NEW c \in Clients, ClientSends(c)
  PROVE  TftpInvariant'
<1>1. ServerPart /\ ClientPart /\ RequestPart /\ AnswerPart
  BY Parts
<1>2. RequestPart'
  BY <1>1, LastRequestOK, SentRequest DEF ClientSends
<1>3. ServerPart' /\ ClientPart' /\ AnswerPart'
  BY <1>1, ServerAlone DEF ClientSends, ClientPart, AnswerPart
<1> QED  BY <1>2, <1>3, PartsPrimed

LEMMA ClientStopsInvariant ==
  ASSUME TftpInvariant, NEW c \in Clients, ClientStops(c)
  PROVE  TftpInvariant'
<1>1. ServerPart /\ ClientPart /\ RequestPart /\ AnswerPart
  BY Parts
<1>2. RequestOK(Control(c, "ERR", 0))
  <2>1. PICK d : d = Control(c, "ERR", 0)
    OBVIOUS
  <2>2. d.client = c /\ d.op = "ERR" /\ d.block = 0
    BY <2>1 DEF Control, Datagram
  <2> QED  BY <2>1, <2>2 DEF RequestOK
<1>3. RequestPart'
  BY <1>1, <1>2, SentRequest DEF ClientStops
<1>4. ClientPart'
  <2>1. PICK k : k = [client[c] EXCEPT !.at = "stopped"]
    OBVIOUS
  <2>2. k \in PeerSet /\ k.block = client[c].block /\ k.data = client[c].data
    BY <1>1, <2>1 DEF ClientPart, PeerSet
  <2>3. client' = [client EXCEPT ![c] = k]
    BY <2>1 DEF ClientStops
  <2> QED  BY <1>1, <2>2, <2>3 DEF ClientPart, Clients
<1>5. ServerPart' /\ AnswerPart'
  BY <1>1, ServerAlone DEF ClientStops, AnswerPart
<1> QED  BY <1>3, <1>4, <1>5, PartsPrimed

(* What a client takes from an answer.                                     *)
LEMMA ClientReceivesInvariant ==
  ASSUME TftpInvariant, ClientReceives
  PROVE  TftpInvariant'
<1>1. ServerPart /\ ClientPart /\ RequestPart /\ AnswerPart
  BY Parts
<1>2. PICK a \in answers :
        /\ answers' \in Taken(answers, a)
        /\ client' = [client EXCEPT ![a.client] =
             CASE client[a.client].at = "stopped" -> client[a.client]
               [] client[a.client].at # "stopped" /\ a.op = "ERR" ->
                    [client[a.client] EXCEPT !.at = "stopped"]
               [] client[a.client].at # "stopped" /\ a.op = "DATA"
                  /\ a.block = client[a.client].block + 1 ->
                    [client[a.client] EXCEPT !.at = "transfer", !.block = a.block,
                                             !.data = @ \o a.data]
               [] client[a.client].at # "stopped" /\ a.op = "ACK"
                  /\ a.block = client[a.client].block ->
                    IF client[a.client].block = FileBlocks
                    THEN [client[a.client] EXCEPT !.at = "stopped"]
                    ELSE [client[a.client] EXCEPT !.at = "transfer", !.block = @ + 1]
               [] OTHER -> client[a.client]]
        /\ UNCHANGED <<server, written, requests>>
  BY DEF ClientReceives
<1>3. AnswerOK(a)
  BY <1>1 DEF AnswerPart
<1>4. PICK c \in Clients : c = a.client
  BY <1>3 DEF AnswerOK
<1>5. PICK k \in PeerSet : k = client[c]
  BY <1>1 DEF ClientPart
<1>6. PICK n \in Nat : n = k.block
  BY DEF PeerSet
<1>7. PICK j : /\ client' = [client EXCEPT ![c] = j]
               /\ \/ j = k
                  \/ j = [k EXCEPT !.at = "stopped"]
                  \/ /\ a.op = "DATA" /\ a.block = n + 1
                     /\ j = [k EXCEPT !.at = "transfer", !.block = n + 1, !.data = @ \o a.data]
                  \/ a.op = "ACK" /\ j = [k EXCEPT !.at = "transfer", !.block = n + 1]
  BY <1>2, <1>4, <1>5, <1>6
<1>8. j \in PeerSet /\ (c \in Readers => j.data = FirstBlocks(j.block))
  <2>1. c \in Readers => k.data = FirstBlocks(n)
    BY <1>1, <1>5, <1>6 DEF ClientPart
  <2>2. CASE j = k
    BY <1>6, <2>1, <2>2
  <2>3. CASE j = [k EXCEPT !.at = "stopped"]
    BY <1>6, <2>1, <2>3 DEF PeerSet
  <2>4. CASE /\ a.op = "DATA" /\ a.block = n + 1
             /\ j = [k EXCEPT !.at = "transfer", !.block = n + 1, !.data = @ \o a.data]
    <3>1. c \in Readers /\ a.data = <<n + 1>>
      BY <1>3, <1>4, <2>4 DEF AnswerOK
    <3>2. k.data \o a.data = FirstBlocks(n + 1)
      BY <2>1, <3>1, ReadNext
    <3>3. PICK m \in Nat : m = n + 1
      OBVIOUS
    <3>4. FirstBlocks(m) \in Seq(Nat)
      BY ReadNext
    <3>5. PICK d \in Seq(Nat) : d = FirstBlocks(m) /\ d = k.data \o a.data
      BY <3>2, <3>3, <3>4
    <3>6. j = [k EXCEPT !.at = "transfer", !.block = m, !.data = d]
      BY <2>4, <3>3, <3>5
    <3>7. j \in PeerSet /\ j.data = d /\ j.block = m
      BY <3>6 DEF PeerSet
    <3> QED  BY <3>5, <3>7
  <2>5. CASE a.op = "ACK" /\ j = [k EXCEPT !.at = "transfer", !.block = n + 1]
    <3>1. c \notin Readers
      BY <1>3, <1>4, <2>5 DEF AnswerOK
    <3>2. PICK m \in Nat : m = n + 1
      OBVIOUS
    <3>3. j = [k EXCEPT !.at = "transfer", !.block = m]
      BY <2>5, <3>2
    <3>4. j \in PeerSet
      BY <3>3 DEF PeerSet
    <3> QED  BY <3>1, <3>4
  <2> QED  BY <1>7, <2>2, <2>3, <2>4, <2>5
<1>9. ClientPart'
  BY <1>1, <1>7, <1>8 DEF ClientPart, Clients
<1>10. ServerPart' /\ RequestPart' /\ AnswerPart'
  BY <1>1, <1>2, ServerAlone DEF RequestPart, AnswerPart, Taken
<1> QED  BY <1>9, <1>10, PartsPrimed

----------------------------------------------------------------------------
(* TftpInvariant holds initially and every step keeps it.                  *)
LEMMA TftpInitInvariant == TftpInit => TftpInvariant
<1> SUFFICES ASSUME TftpInit PROVE TftpInvariant
  OBVIOUS
<1>1. PICK s : s = server
  OBVIOUS
<1>2. s \in ServerSet /\ s.fd = Closed
  BY <1>1 DEF TftpInit, NoSession, ServerSet
<1>3. written \in [Writers -> Seq(Writers \X Nat)]
  BY DEF TftpInit
<1>4. ServerPart
  BY <1>1, <1>2, <1>3, TftpAssumption DEF ServerPart, SessionOK
<1>5. ClientPart
  <2>1. PICK k : k = [at |-> "ask", block |-> 0, data |-> <<>>]
    OBVIOUS
  <2>2. k \in PeerSet /\ k.block = 0 /\ k.data = FirstBlocks(0)
    BY <2>1, NoBlocks DEF PeerSet
  <2>3. client = [c \in Clients |-> k]
    BY <2>1 DEF TftpInit
  <2> QED  BY <2>2, <2>3 DEF ClientPart, Clients
<1>6. RequestPart /\ AnswerPart
  BY DEF TftpInit, RequestPart, AnswerPart
<1> QED  BY <1>4, <1>5, <1>6, Parts

LEMMA TftpNextInvariant == TftpInvariant /\ [TftpNext]_tftpVars => TftpInvariant'
<1> SUFFICES ASSUME TftpInvariant, [TftpNext]_tftpVars PROVE TftpInvariant'
  OBVIOUS
<1>1. CASE tftp_server_process
  BY <1>1, ServerInvariant
<1>2. CASE ServerTimeout
  BY <1>2, TimeoutInvariant
<1>3. ASSUME NEW c \in Clients, ClientSends(c) \/ ClientStops(c)
      PROVE  TftpInvariant'
  BY <1>3, ClientSendsInvariant, ClientStopsInvariant
<1>4. CASE ClientReceives
  BY <1>4, ClientReceivesInvariant
<1>5. CASE UNCHANGED tftpVars
  <2>1. ServerPart /\ ClientPart /\ RequestPart /\ AnswerPart
    BY Parts
  <2>2. ServerPart' /\ ClientPart' /\ RequestPart' /\ AnswerPart'
    BY <1>5, <2>1, ServerAlone DEF tftpVars, ClientPart, RequestPart, AnswerPart
  <2> QED  BY <2>2, PartsPrimed
<1> QED  BY <1>1, <1>2, <1>3, <1>4, <1>5 DEF TftpNext

(* The server moves the blocks of a file in their order, each once, and    *)
(* its timer runs while a file is open, whatever the network does to the   *)
(* datagrams (tftp_server_process).                                        *)
THEOREM TransfersAreExact == TftpSpec => []TransferExact
<1>1. TftpInvariant => TransferExact
  BY DEF TftpInvariant
<1> QED  BY <1>1, TftpInitInvariant, TftpNextInvariant, PTL DEF TftpSpec
=============================================================================
