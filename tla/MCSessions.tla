----------------------------- MODULE MCSessions -----------------------------
(* Small instances of Sessions. *)
EXTENDS Sessions, TLC

\* Workers are interchangeable; a fresh object is chosen, so objects are not.
Symmetry == Permutations(Workers)

-----------------------------------------------------------------------------
(* The views.  What an entry or a session holds tells states apart only     *)
(* while something refers to it: it is overwritten before it is used again. *)

Held(o) == <<token[o], stored[o], freed[o], efs[o], ran[o], spawned[o], freeing[o]>>

View == <<ss,
          [m \in Entries |->
              IF InUse(m) THEN <<session[m], unavailable[m], old[m]>> ELSE <<>>],
          [o \in Objs |-> IF Reachable(o) THEN Held(o) ELSE <<>>],
          workVars>>

\* The invariants do not compare the names of entries and sessions either: an
\* entry is known by who refers to it, a session by that and by what it holds.
Flags(m) == IF m = NoEntry THEN <<>> ELSE <<unavailable[m], old[m]>>
Of(m) == IF m = NoEntry THEN NoObj ELSE session[m]

Known(o) == <<{i \in Ids : Of(ss[i]) = o}, {w \in Workers : Of(cur[w]) = o},
              {w \in Workers : sess[w] = o}, Held(o)>>

Nameless ==
    LET used == {o \in Objs : Reachable(o)} IN
    <<[i \in Ids |-> Flags(ss[i])],
      [w \in Workers |->
          IF cur[w] = NoEntry THEN <<>>
          ELSE <<Flags(cur[w]), {i \in Ids : ss[i] = cur[w]},
                 {v \in Workers : cur[v] = cur[w]}>>],
      [k \in {Known(o) : o \in used} |-> Cardinality({o \in used : Known(o) = k})],
      pc, op, id, tok, todo, expID>>
=============================================================================
