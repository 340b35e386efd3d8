--------------------------- MODULE SharedTemplate ---------------------------
(***************************************************************************)
(* What the reference counts of serverHandlerDynamic.go are for, without   *)
(* counts, locks or files.  A parsed template is private to the request    *)
(* that parsed it, then open to everyone, then retired: nobody new gets    *)
(* it, and the moment the last user leaves it is closed.                   *)
(***************************************************************************)
CONSTANTS Requests, Tmpls

VARIABLES
    state,    \* [Tmpls -> {"closed", "private", "open", "retired"}]
    users     \* [Tmpls -> SUBSET Requests]

vars == <<state, users>>

Init == /\ state = [t \in Tmpls |-> "closed"]
        /\ users = [t \in Tmpls |-> {}]

Make(t) == /\ state[t] = "closed"
           /\ state' = [state EXCEPT ![t] = "private"]
           /\ UNCHANGED users

Discard(t) == /\ state[t] = "private"
              /\ state' = [state EXCEPT ![t] = "closed"]
              /\ UNCHANGED users

\* What becomes of an open template that is withdrawn.
Withdrawn(t) == IF users[t] = {} THEN "closed" ELSE "retired"

\* The request that made t opens it and is its first user.
Open(t, r) == /\ state[t] = "private"
              /\ state' = [state EXCEPT ![t] = "open"]
              /\ users' = [users EXCEPT ![t] = {r}]

\* The same, when t takes the place of an open template.
Replace(old, t, r) ==
    /\ state[t] = "private" /\ state[old] = "open"
    /\ state' = [state EXCEPT ![t] = "open", ![old] = Withdrawn(old)]
    /\ users' = [users EXCEPT ![t] = {r}]

Use(t, r) == /\ state[t] = "open"
             /\ users' = [users EXCEPT ![t] = @ \cup {r}]
             /\ UNCHANGED state

Leave(t, r) ==
    /\ r \in users[t]
    /\ users' = [users EXCEPT ![t] = @ \ {r}]
    /\ state' = IF state[t] = "retired" /\ users[t] = {r}
                THEN [state EXCEPT ![t] = "closed"] ELSE state

Retire(t) == /\ state[t] = "open"
             /\ state' = [state EXCEPT ![t] = Withdrawn(t)]
             /\ UNCHANGED users

Next == \E t \in Tmpls :
            \/ Make(t) \/ Discard(t) \/ Retire(t)
            \/ \E r \in Requests : Open(t, r) \/ Use(t, r) \/ Leave(t, r)
            \/ \E old \in Tmpls, r \in Requests : Replace(old, t, r)

Spec == Init /\ [][Next]_vars
=============================================================================
