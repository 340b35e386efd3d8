------------------------------ MODULE MCSites ------------------------------
(* Small instances of Sites. *)
EXTENDS Sites, TLC

CONSTANTS h1, wild, A, B, d1, d2

Site(id, hosts, on, dir, cache_, plugin_) ==
    [id |-> id, hosts |-> hosts, on |-> on, dir |-> dir, cache |-> cache_,
     plugin |-> plugin_]

\* A request for h1 falls back on the wildcard.
MCCandidates == (h1 :> <<h1, wild>>) @@ (wild :> <<wild>>)

\* A is listed twice, moved, switched off, or gives its domain to B, which also may
\* come in an update that fails.
MCConfigs == {
    <<Site(A, {h1}, TRUE, d1, TRUE, TRUE), Site(A, {}, TRUE, d2, TRUE, TRUE)>>,
    <<Site(A, {h1}, TRUE, d2, TRUE, FALSE), Site(B, {wild}, TRUE, d1, FALSE, TRUE)>>,
    <<Site(A, {h1}, FALSE, d1, TRUE, TRUE), Site(B, {h1}, TRUE, d2, FALSE, FALSE)>>,
    <<Site(B, {h1, wild}, TRUE, d1, TRUE, TRUE), Site(NoIdent, {}, TRUE, d1, TRUE, TRUE)>>}

Symmetry == Permutations(Requests) \cup Permutations(SiteObjs) \cup Permutations(Exts)
            \cup Permutations(Handlers)
=============================================================================
