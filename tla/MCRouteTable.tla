---------------------------- MODULE MCRouteTable ----------------------------
(* A small instance of RouteTable. *)
EXTENDS RouteTable, TLC

CONSTANTS w1, w2, page, pattern, other, h1, h2

\* Both goroutines register and remove the page, with handlers of their own.
MCRoutesOf ==
    (w1 :> [url : {page}, handle : {h2}]) @@
    (w2 :> [url : {page, pattern, other}, handle : {h1}])

\* The page that requests ask for is a url of its own, and one pattern matches it.
MCMatches == (page :> {page}) @@ (pattern :> {page}) @@ (other :> {})
=============================================================================
