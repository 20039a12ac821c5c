-------------------------------- MODULE Dhcp --------------------------------
(***************************************************************************)
(* The DHCP client of a device (net_dhcp_client.c) with the routes it adds *)
(* and removes (net_route.c, net_ipv4.c, net_device.c).  The network       *)
(* loses, reorders, duplicates and delays the replies of the servers, over *)
(* any number of transactions.  Each handler is run to its end by the      *)
(* network task.                                                           *)
(*                                                                         *)
(* Every server leases one address and names one gateway; both are written *)
(* as the server.  Times are kept as the ticks that are left, and the xid  *)
(* of a message as the number of transactions it is behind.                *)
(***************************************************************************)
EXTENDS Integers, FiniteSets, FiniteSetsExt

CONSTANTS
  Servers,
  UNSPEC,             \* IPV4_ADDR_UNSPEC
  LL,                 \* IPV4_GATWAY_LL
  LEASE,              \* lease time that the servers grant
  DHCP_BASE_TIMEOUT, DHCP_MAX_TIMEOUT, DHCP_MAX_RETRY,
  MaxMessages,        \* replies on their way
  MaxAge              \* transactions that a reply is delayed for

ASSUME DhcpAssumption ==
  /\ UNSPEC \notin Servers /\ LL \notin Servers /\ UNSPEC # LL
  /\ {LEASE, DHCP_BASE_TIMEOUT, DHCP_MAX_TIMEOUT, DHCP_MAX_RETRY} \subseteq Nat \ {0}
  /\ MaxMessages \in Nat /\ MaxAge \in Nat

(* Half of the base timeout, doubled often enough, is the longest timeout: *)
(* the timeouts that the client doubles do not pass it.  2 s and 64 s in   *)
(* net_dhcp_client.cmake.                                                  *)
BackoffTimes(times) ==
  /\ times \subseteq 0 .. DHCP_MAX_TIMEOUT /\ DHCP_BASE_TIMEOUT \div 2 \in times
  /\ \A t \in times : t < DHCP_MAX_TIMEOUT => 2 * t \in times

ASSUME BackoffAssumption == \E times \in SUBSET (0 .. DHCP_MAX_TIMEOUT) : BackoffTimes(times)

VARIABLES
  dhcp,         \* dhcp_client of the device: its state, suspend.timeout and lease
  routes,       \* routes of the device
  dhcp_net,     \* replies on their way
  granted       \* servers that acknowledged their address since the last discovery

dhcpVars == <<dhcp, routes, dhcp_net, granted>>

DhcpInit ==
  /\ dhcp = [state |-> "STOPPED", retry |-> 0, current_timeout |-> 0, left |-> 0,
             lease |-> 0, server_ip |-> UNSPEC, client_ip |-> UNSPEC, gateway_ip |-> UNSPEC,
             address_assigned |-> FALSE]
  /\ routes = {} /\ dhcp_net = {} /\ granted = {}

----------------------------------------------------------------------------
route_add(rs, iface, gateway, destination) ==
  rs \cup {[iface |-> iface, gateway |-> gateway, destination |-> destination]}

(* An unspecified gateway or destination matches every route.              *)
route_remove(rs, gateway, destination) ==
  {r \in rs : ~(gateway \in {UNSPEC, r.gateway} /\ destination \in {UNSPEC, r.destination})}

(* ipv4_set_device_address.                                                *)
ipv4_set_device_address(rs, address) ==
  IF address # UNSPEC THEN route_add(rs, address, LL, address)
  ELSE route_remove(rs, UNSPEC, UNSPEC)

(* The routes of the lease, as the client takes them away.                 *)
RemoveRoutes(c, rs) ==
  LET onlink == IF c.client_ip # UNSPEC THEN route_remove(rs, LL, c.client_ip) ELSE rs
  IN IF c.gateway_ip # UNSPEC THEN route_remove(onlink, c.gateway_ip, UNSPEC) ELSE onlink

----------------------------------------------------------------------------
NotBefore(n) == IF n > 0 THEN n ELSE 0

(* When the state is due, counted from now: half of the lease, seven       *)
(* eighths of it, or at once, and no later than the end of the lease.      *)
StateDue(c, state) ==
  CASE state = "RENEW"  -> NotBefore(Min({c.lease, c.lease - LEASE + LEASE \div 2}))
    [] state = "REBIND" -> NotBefore(Min({c.lease, c.lease - LEASE + (LEASE * 7) \div 8}))
    [] OTHER -> 0

(* The client record after dhcp_change_state.                              *)
Changed(c, state) ==
  LET d == [c EXCEPT !.state = state, !.retry = 0, !.left = StateDue(c, state),
                     !.current_timeout = DHCP_BASE_TIMEOUT \div 2]
  IN IF state = "DISCOVER"
     THEN [d EXCEPT !.address_assigned = FALSE, !.client_ip = UNSPEC, !.server_ip = UNSPEC,
                    !.gateway_ip = UNSPEC, !.lease = 0]
     ELSE d

(* Mutant: only the on-link route is removed.                              *)
ChangeKeepsGateway(c, state, rs, net) ==
  /\ dhcp' = Changed(c, state)
  /\ routes' = IF state = "DISCOVER" /\ c.address_assigned
               THEN RemoveRoutes([c EXCEPT !.gateway_ip = UNSPEC], rs) ELSE rs
  /\ dhcp_net' = IF state = "REQUEST" THEN net
                 ELSE {[m EXCEPT !.age = @ + 1] : m \in {n \in net : n.age < MaxAge}}
  /\ granted' = IF state = "DISCOVER" THEN {} ELSE granted

(* dhcp_change_state.  Every state but REQUEST starts a transaction.       *)
dhcp_change_state(c, state, rs, net) ==
  /\ dhcp' = Changed(c, state)
  /\ routes' = IF state = "DISCOVER" /\ c.address_assigned THEN RemoveRoutes(c, rs) ELSE rs
  /\ dhcp_net' = IF state = "REQUEST" THEN net
                 ELSE {[m EXCEPT !.age = @ + 1] : m \in {n \in net : n.age < MaxAge}}
  /\ granted' = IF state = "DISCOVER" THEN {} ELSE granted

----------------------------------------------------------------------------
(* The servers answer what net_dhcp_client_build made, or nothing comes    *)
(* back: a discovery is answered by offers, a request by the server that   *)
(* it names.                                                               *)
Replies(types, servers) == [type : types, server : servers, age : {0}]

Answers(answer) ==
  \E ms \in SUBSET answer :
    /\ Cardinality(dhcp_net \cup ms) <= MaxMessages
    /\ dhcp_net' = dhcp_net \cup ms
    /\ granted' = granted \cup {m.server : m \in {n \in ms : n.type = "ACK"}}

(* The client sends a message and waits for twice as long as before; it    *)
(* counts the requests that could be built.                                *)
Send(c) ==
  /\ UNCHANGED routes
  /\ \/ c.state = "DISCOVER" /\ dhcp' = c /\ Answers(Replies({"OFFER"}, Servers))
     \/ /\ c.state # "DISCOVER"
        /\ dhcp' = [c EXCEPT !.retry = @ + 1]
        /\ \E t \in {"ACK", "NACK"} : Answers(Replies({t}, {c.server_ip}))
     \/ c.state # "DISCOVER" /\ dhcp' = c /\ UNCHANGED <<dhcp_net, granted>>

Backoff(c) == IF c.current_timeout < DHCP_MAX_TIMEOUT THEN 2 * c.current_timeout
              ELSE c.current_timeout

(* Mutant: the lease is taken to have no end.                              *)
NeverExpires(c) == FALSE

(* The lease of the client is no longer valid.                             *)
LeaseExpired(c) == c.state \in {"RENEW", "REBIND"} /\ c.lease < 0

(* dhcp_event: the timer is due.  Without a buffer nothing happens, and    *)
(* the timer stays due.                                                    *)
dhcp_event ==
  LET c == [dhcp EXCEPT !.current_timeout = Backoff(dhcp), !.left = Backoff(dhcp)]
      spent == c.retry >= DHCP_MAX_RETRY
  IN /\ dhcp.state # "STOPPED" /\ dhcp.left = 0
     /\ \/ LeaseExpired(dhcp) /\ dhcp_change_state(dhcp, "DISCOVER", routes, dhcp_net)
        \/ /\ ~LeaseExpired(dhcp) /\ (c.state = "DISCOVER" \/ ~spent)
           /\ Send(c)
        \/ /\ ~LeaseExpired(dhcp) /\ spent /\ c.state \in {"REQUEST", "REBIND"}
           /\ dhcp_change_state(c, "DISCOVER", routes, dhcp_net)
        \/ /\ ~LeaseExpired(dhcp) /\ spent /\ c.state = "RENEW"
           /\ dhcp_change_state(c, "REBIND", routes, dhcp_net)

(* An acknowledged address is put to use.                                  *)
Acknowledged(c, net) ==
  LET leased == [c EXCEPT !.lease = LEASE, !.address_assigned = TRUE]
      added  == route_add(ipv4_set_device_address(routes, c.client_ip),
                          c.client_ip, c.gateway_ip, UNSPEC)
  IN dhcp_change_state(leased, "RENEW", IF c.address_assigned THEN routes ELSE added, net)

(* net_dhcp_client_process for a reply; a copy of it may stay behind.      *)
(* Offers and acknowledgements name a gateway, which is taken from them in *)
(* every state.                                                            *)
net_dhcp_client_process(m, copy) ==
  LET net == IF copy THEN dhcp_net ELSE dhcp_net \ {m}
      c   == IF m.type = "NACK" THEN dhcp ELSE [dhcp EXCEPT !.gateway_ip = m.server]
      bound == dhcp.state \in {"REQUEST", "RENEW", "REBIND"}
  IN \/ /\ m.age # 0
        /\ dhcp_net' = net /\ UNCHANGED <<dhcp, routes, granted>>
     \/ /\ m.age = 0 /\ dhcp.state = "DISCOVER" /\ m.type = "OFFER"
        /\ dhcp_change_state([c EXCEPT !.client_ip = m.server, !.server_ip = m.server],
                             "REQUEST", routes, net)
     \/ m.age = 0 /\ bound /\ m.type = "ACK" /\ Acknowledged(c, net)
     \/ m.age = 0 /\ bound /\ m.type = "NACK" /\ dhcp_change_state(c, "DISCOVER", routes, net)
     \/ /\ m.age = 0
        /\ dhcp.state = "STOPPED" \/ (bound /\ m.type = "OFFER")
              \/ (dhcp.state = "DISCOVER" /\ m.type # "OFFER")
        /\ dhcp' = c /\ dhcp_net' = net /\ UNCHANGED <<routes, granted>>

(* A reply is lost.                                                        *)
DhcpLost(m) == dhcp_net' = dhcp_net \ {m} /\ UNCHANGED <<dhcp, routes, granted>>

(* net_device_link_up calls net_dhcp_client_start.                         *)
net_device_link_up ==
  dhcp.state = "STOPPED" /\ dhcp_change_state(dhcp, "DISCOVER", routes, dhcp_net)

(* net_device_link_down calls net_dhcp_client_stop, and then clears the    *)
(* addresses of the device.                                                *)
net_device_link_down ==
  /\ dhcp.state # "STOPPED"
  /\ dhcp' = [dhcp EXCEPT !.state = "STOPPED"]
  /\ routes' = ipv4_set_device_address(RemoveRoutes(dhcp, routes), UNSPEC)
  /\ UNCHANGED <<dhcp_net, granted>>

(* A tick passes.  How long ago a lease ended is counted up to             *)
(* DHCP_MAX_TIMEOUT and one tick.                                          *)
DhcpTick ==
  /\ dhcp' = [dhcp EXCEPT !.left = NotBefore(@ - 1),
                          !.lease = IF @ > -DHCP_MAX_TIMEOUT - 1 THEN @ - 1 ELSE @]
  /\ UNCHANGED <<routes, dhcp_net, granted>>

DhcpNext ==
  \/ dhcp_event \/ net_device_link_up \/ net_device_link_down \/ DhcpTick
  \/ \E m \in dhcp_net : DhcpLost(m) \/ \E copy \in BOOLEAN : net_dhcp_client_process(m, copy)

DhcpSpec == DhcpInit /\ [][DhcpNext]_dhcpVars

----------------------------------------------------------------------------
(* The routes of the device are those of the address that the client       *)
(* holds, all of them, and they are gone when it has none: no reply that   *)
(* comes late, twice or from another server, no link that goes down and no *)
(* lease that ends leaves a route behind or puts an address to use that    *)
(* its server has not acknowledged since the discovery.                    *)
(*                                                                         *)
(* This rests on every server naming one gateway, here its own address, in *)
(* all its replies, as the model has it.  The code takes the gateway of    *)
(* any reply (net_dhcp_client.c:456), adds its route when the address is   *)
(* assigned (579) and removes the route of the gateway it has by then      *)
(* (114): an ACK that names another, or one that renews and names another, *)
(* makes a wrong default route or leaves the old one.                      *)
RoutesLeased ==
  routes = IF dhcp.state \in {"RENEW", "REBIND"} /\ dhcp.client_ip \in granted
           THEN route_add(route_add({}, dhcp.client_ip, LL, dhcp.client_ip),
                          dhcp.client_ip, dhcp.client_ip, UNSPEC)
           ELSE {}

(* A lease that ended is noticed: while the client holds an address, its   *)
(* timer is due within the longest retry timeout of the end of the lease.  *)
LeaseWatched ==
  routes # {} => dhcp.left <= NotBefore(dhcp.lease + DHCP_MAX_TIMEOUT)

----------------------------------------------------------------------------
(* The inductive invariant behind RoutesLeased and LeaseWatched.           *)

Addresses == Servers \cup {UNSPEC}
ClientSet == [state : {"STOPPED", "DISCOVER", "REQUEST", "RENEW", "REBIND"}, retry : Nat,
              current_timeout : Nat, left : Nat, lease : Int, server_ip : Addresses,
              client_ip : Addresses, gateway_ip : Addresses, address_assigned : BOOLEAN]
MessageSet == [type : {"OFFER", "ACK", "NACK"}, server : Servers, age : Nat]

Holding == dhcp.state \in {"RENEW", "REBIND"}

(* The client asks one server, and holds what this server acknowledged,    *)
(* with the gateway it was told.                                           *)
OneServer ==
  /\ Holding \/ dhcp.state = "REQUEST" =>
       dhcp.server_ip \in Servers /\ dhcp.client_ip = dhcp.server_ip
  /\ Holding => /\ dhcp.gateway_ip = dhcp.client_ip /\ dhcp.address_assigned
                /\ dhcp.client_ip \in granted
  /\ dhcp.state \in {"DISCOVER", "REQUEST"} => ~ dhcp.address_assigned

(* What a reply to the transaction that goes on can be.                    *)
Current(m) ==
  /\ dhcp.state = "DISCOVER" => m.type = "OFFER"
  /\ dhcp.state = "REQUEST" => m.type = "OFFER" \/ m.server = dhcp.server_ip
  /\ Holding => m.type # "OFFER" /\ m.server = dhcp.server_ip
  /\ dhcp.state = "REQUEST" /\ m.type = "ACK" => m.server \in granted

(* The timeout that is doubled next does not pass the longest one.         *)
TimeoutBounded ==
  dhcp.state # "STOPPED" => \E times \in SUBSET (0 .. DHCP_MAX_TIMEOUT) :
                              BackoffTimes(times) /\ dhcp.current_timeout \in times

DhcpInvariant ==
  /\ dhcp \in ClientSet /\ dhcp_net \subseteq MessageSet
  /\ OneServer /\ TimeoutBounded
  /\ \A m \in dhcp_net : m.age = 0 => Current(m)
  /\ RoutesLeased /\ LeaseWatched
============================================================================
