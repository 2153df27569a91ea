------------------------------- MODULE MCNet -------------------------------
(* The parts of the network code do not call each other in the kernel as it *)
(* is, so each behaviour runs one of them.                                  *)
EXTENDS Udp, Tcp, Routes, Fragments, Net

VARIABLE part

others == <<udpVars, tcpVars, routeVars, fragVars, netVars>>

\* Addresses of three bits: a default route, two networks, a host, the first
\* network once more with another metric.
MCRouteKinds ==
    {[network |-> {},     netmask |-> {},        metric |-> 2],
     [network |-> {1},    netmask |-> {1},       metric |-> 1],
     [network |-> {1},    netmask |-> {1},       metric |-> 2],
     [network |-> {},     netmask |-> {1},       metric |-> 1],
     [network |-> {1, 3}, netmask |-> {1, 2, 3}, metric |-> 1]}
MCDests == SUBSET {1, 2, 3}

MCInit ==
    /\ part \in {"udp", "tcp", "routes", "fragments", "net"}
    /\ UdpInit /\ TcpInit /\ RouteInit /\ FragInit /\ NetInit

MCNext ==
    /\ UNCHANGED part
    /\ \/ /\ part = "udp" /\ UdpNext
          /\ UNCHANGED <<tcpVars, routeVars, fragVars, netVars>>
       \/ /\ part = "tcp" /\ TcpNext
          /\ UNCHANGED <<udpVars, routeVars, fragVars, netVars>>
       \/ /\ part = "routes" /\ RouteNext
          /\ UNCHANGED <<udpVars, tcpVars, fragVars, netVars>>
       \/ /\ part = "fragments" /\ FragNext
          /\ UNCHANGED <<udpVars, tcpVars, routeVars, netVars>>
       \/ /\ part = "net" /\ NetNext
          /\ UNCHANGED <<udpVars, tcpVars, routeVars, fragVars>>

MCSpec == MCInit /\ [][MCNext]_<<others, part>>
=============================================================================
