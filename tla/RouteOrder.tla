----------------------------- MODULE RouteOrder -----------------------------
(***************************************************************************)
(* What a route table promises: the routes, in the order in which their    *)
(* urls were first registered, one per url.  A url that is registered      *)
(* again keeps its place; one that is removed leaves the others where they *)
(* are.                                                                    *)
(***************************************************************************)
EXTENDS Integers, Sequences, SequencesExt

CONSTANTS Urls, Handlers

VARIABLE routes

Route == [url : Urls, handle : Handlers]

PositionsOf(u) == {i \in DOMAIN routes : routes[i].url = u}

Init == routes = <<>>

Register(u, h) ==
    routes' = IF PositionsOf(u) = {}
              THEN Append(routes, [url |-> u, handle |-> h])
              ELSE [i \in DOMAIN routes |->
                      IF i \in PositionsOf(u) THEN [url |-> u, handle |-> h] ELSE routes[i]]

Unregister(u) == \E i \in PositionsOf(u) : routes' = RemoveAt(routes, i)

Next == \E u \in Urls : Unregister(u) \/ \E h \in Handlers : Register(u, h)

Spec == Init /\ [][Next]_routes
=============================================================================
