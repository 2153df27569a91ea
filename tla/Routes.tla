------------------------------- MODULE Routes ------------------------------
(***************************************************************************)
(* The routing table of net/ipv4.c: a list kept in the order of the        *)
(* metric, and the search for the route to a destination.  An address is   *)
(* the set of its one bits.                                                *)
(***************************************************************************)
EXTENDS Integers, SequencesExt

CONSTANTS
    RouteKinds,   \* the routes that are added: network, netmask, metric
    Dests,        \* the addresses that are looked up
    NoRoute,
    MaxAdds       \* bound: calls of ipv4_add_route

\* An entry of the list; added, the number of the call, is history.
RouteEntry(r, n) ==
    [network |-> r.network, netmask |-> r.netmask, metric |-> r.metric, added |-> n]

Entries == {RouteEntry(r, n) : r \in RouteKinds, n \in 1 .. MaxAdds}

ASSUME RouteAssumption ==
    /\ MaxAdds \in Nat
    /\ \A r \in RouteKinds : r.metric \in Nat
    /\ NoRoute \notin Entries

VARIABLES
    ipv4_routes,
    route_adds    \* history: the calls of ipv4_add_route so far

routeVars == <<ipv4_routes, route_adds>>

RouteInit == ipv4_routes = <<>> /\ route_adds = 0

\* Mutant: a route goes before those of its own metric.
PlaceBefore(m) ==
    Min({i \in DOMAIN ipv4_routes : ipv4_routes[i].metric >= m}
            \cup {Len(ipv4_routes) + 1})

\* Where a route of metric m is inserted: before the first of a higher metric.
Place(m) ==
    Min({i \in DOMAIN ipv4_routes : ipv4_routes[i].metric > m}
            \cup {Len(ipv4_routes) + 1})

ipv4_add_route(r) ==
    /\ route_adds < MaxAdds
    /\ route_adds' = route_adds + 1
    /\ ipv4_routes' =
            InsertAt(ipv4_routes, Place(r.metric), RouteEntry(r, route_adds'))

\* The first route with this network and netmask goes.
ipv4_remove_route(network, netmask) ==
    LET same == {i \in DOMAIN ipv4_routes : /\ ipv4_routes[i].network = network
                                            /\ ipv4_routes[i].netmask = netmask}
    IN  /\ same # {}
        /\ ipv4_routes' = RemoveAt(ipv4_routes, Min(same))
        /\ UNCHANGED route_adds

ipv4_flush_routes ==
    ipv4_routes # <<>> /\ ipv4_routes' = <<>> /\ UNCHANGED route_adds

Matches(dest, r) == dest \cap r.netmask = r.network

\* The loop over the list; best[n] is best_route after n routes.
ipv4_find_route(dest) ==
    LET best[n \in 0 .. Len(ipv4_routes)] ==
            IF n = 0 THEN NoRoute
            ELSE IF /\ Matches(dest, ipv4_routes[n])
                    /\ \/ best[n - 1] = NoRoute
                       \/ ipv4_routes[n].metric < best[n - 1].metric
                   THEN ipv4_routes[n]
                   ELSE best[n - 1]
    IN  best[Len(ipv4_routes)]

RouteNext ==
    \/ ipv4_flush_routes
    \/ \E r \in RouteKinds :
          ipv4_add_route(r) \/ ipv4_remove_route(r.network, r.netmask)

RouteSpec == RouteInit /\ [][RouteNext]_routeVars

-----------------------------------------------------------------------------
(* Properties.                                                             *)

\* Whatever was added and removed, a look-up finds a route if one matches: of
\* those with the lowest metric, the one that has been there longest.  The
\* search relies on the order in which ipv4_add_route keeps the list.
FindsBestRoute ==
    \A dest \in Dests :
        LET fit  == {r \in ToSet(ipv4_routes) : Matches(dest, r)}
            best == ipv4_find_route(dest)
        IN  IF fit = {} THEN best = NoRoute
            ELSE /\ best \in fit
                 /\ \A r \in fit : \/ best.metric < r.metric
                                   \/ /\ best.metric = r.metric
                                      /\ best.added <= r.added
=============================================================================
