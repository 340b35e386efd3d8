------------------------------ MODULE Matching ------------------------------
(***************************************************************************)
(* What a request is matched against, as functions: domains with           *)
(* wildcards (func.go), placeholders in routes (route.go), and the forward *)
(* rules of a site (rewrite.go, Group.serveHTTP).                          *)
(*                                                                         *)
(* A text in which something is searched is a sequence of characters; a    *)
(* path that is only compared is a value.                                  *)
(***************************************************************************)
EXTENDS Integers, Sequences, SequencesExt, Functions, FiniteSets, TLC

First(set) == CHOOSE n \in set : \A m \in set : n <= m

-----------------------------------------------------------------------------
(* Domains.                                                                  *)

Star == "*"

\* Mutant: from the widest domain on.
derogatoryDomainWidestFirst(host) ==
    Reverse([i \in 1 .. Len(host.labels) + 1 |->
               [host EXCEPT !.labels = [j \in DOMAIN @ |-> IF j < i THEN Star ELSE @[j]]]])

\* The domains tried for a host [labels, port]: itself, then with one more of
\* its labels replaced by a star each time, from the left; the port stays.
derogatoryDomain(host) ==
    <<host>> \o [i \in DOMAIN host.labels |->
                   [host EXCEPT !.labels = [j \in DOMAIN @ |->
                                              IF j <= i THEN Star ELSE @[j]]]]

\* The first of them that a table has; NoDomain if none is there.
NoDomain == [labels |-> <<>>, port |-> ""]
firstDomain(table, host) ==
    LET domains == derogatoryDomain(host)
        found == {i \in DOMAIN domains : domains[i] \in table}
    IN IF found = {} THEN NoDomain ELSE domains[First(found)]

-----------------------------------------------------------------------------
(* Placeholders of a route: "b{id}c" is <<"b", "{", "id", "}", "c">>.         *)

part(isPlaceholder, value) == [isPlaceholder |-> isPlaceholder, value |-> value]

\* What has been read of a segment: its parts, the text of the one under way.
scanChar(st, char) ==
    LET flushed == IF st.buffer = <<>> THEN st.parts
                   ELSE Append(st.parts, part(FALSE, st.buffer))
    IN CASE ~st.ok -> st
         [] st.ok /\ char = "{" ->
              [ok |-> ~st.inside, inside |-> TRUE, parts |-> flushed, buffer |-> <<>>]
         [] st.ok /\ char = "}" ->
              [ok |-> st.inside /\ st.buffer # <<>>, inside |-> FALSE,
               parts |-> Append(st.parts, part(TRUE, st.buffer)), buffer |-> <<>>]
         [] OTHER -> [st EXCEPT !.buffer = Append(@, char)]

\* What has been read of it at its end.
scanned(seg) ==
    LET after[i \in 0 .. Len(seg)] ==
            IF i = 0
            THEN [ok |-> TRUE, inside |-> FALSE, parts |-> <<>>, buffer |-> <<>>]
            ELSE scanChar(after[i - 1], seg[i])
    IN after[Len(seg)]

\* The parts of a segment and whether it is well formed.
parsePlaceholderSegment(seg) ==
    LET st == scanned(seg)
        parts == IF st.buffer = <<>> THEN st.parts
                 ELSE Append(st.parts, part(FALSE, st.buffer))
        twins == \E i \in 1 .. Len(parts) - 1 :
                     parts[i].isPlaceholder /\ parts[i + 1].isPlaceholder
    IN [ok |-> st.ok /\ ~st.inside /\ ~twins, parts |-> parts]

\* strings.Index from position i on: the positions of text where lit begins.
Occurrences(lit, text, i) ==
    {n \in i .. Len(text) - Len(lit) + 1 : SubSeq(text, n, n + Len(lit) - 1) = lit}

\* maps.Copy: what result holds when params have been put into it.
Copied(result, params) ==
    [name \in DOMAIN result \cup DOMAIN params |->
        IF name \in DOMAIN params THEN params[name] ELSE result[name]]

\* One part of a segment read from text at st.at: a literal must stand there, a
\* placeholder takes what comes before the first occurrence of the next literal.
takePart(parts, text, st, i) ==
    LET lit == parts[i].value
        ends == IF i = Len(parts) THEN {Len(text) + 1}
                ELSE Occurrences(parts[i + 1].value, text, st.at)
    IN IF ~st.ok THEN st
       ELSE IF ~parts[i].isPlaceholder
       THEN IF st.at \in Occurrences(lit, text, st.at)
            THEN [st EXCEPT !.at = @ + Len(lit)] ELSE [st EXCEPT !.ok = FALSE]
       ELSE IF ends = {} THEN [st EXCEPT !.ok = FALSE]
       ELSE [st EXCEPT !.at = First(ends),
                       !.params = Copied(@, [name \in {lit} |->
                                                SubSeq(text, st.at, First(ends) - 1)])]

\* What has been taken from text when the parts have been gone through.
taken(parts, text) ==
    LET after[i \in 0 .. Len(parts)] ==
            IF i = 0 THEN [ok |-> TRUE, at |-> 1, params |-> <<>>]
            ELSE takePart(parts, text, after[i - 1], i)
    IN after[Len(parts)]

\* Mutant: a prefix of the text is enough.
extractParamsPrefix(parts, text) ==
    LET st == taken(parts, text) IN [ok |-> st.ok, params |-> st.params]

extractParams(parts, text) ==
    LET st == taken(parts, text)
    IN [ok |-> st.ok /\ st.at = Len(text) + 1, params |-> st.params]

\* A path against a route, segment by segment; a segment without braces is
\* compared.  A name used twice keeps its last value.
parsePathParams(user, route) ==
    LET literal(i) == \A c \in {"{", "}"} : ~Contains(route[i], c)
        seg(i) == extractParams(parsePlaceholderSegment(route[i]).parts, user[i])
        match(i) == IF literal(i) THEN route[i] = user[i]
                    ELSE parsePlaceholderSegment(route[i]).ok /\ seg(i).ok
        result[i \in 0 .. Len(route)] ==
            IF i = 0 THEN <<>>
            ELSE IF literal(i) THEN result[i - 1]
            ELSE Copied(result[i - 1], seg(i).params)
    IN IF Len(user) # Len(route) \/ \E i \in DOMAIN route : ~match(i)
       THEN [ok |-> FALSE, params |-> <<>>]
       ELSE [ok |-> TRUE, params |-> result[Len(route)]]

-----------------------------------------------------------------------------
(* Forward rules.  A pattern is literal or a regular expression that matches *)
(* some paths; it may fail to compile.                                       *)

Compiles(rule) == \A p \in rule.exclude \cup rule.path : p.form # "invalid"

Matches(patterns, form, upath) ==
    \E p \in patterns : p.form = form /\ upath \in p.paths

\* The path after one rule, and whether the rule applied.
Rewrite(rule, upath) ==
    IF \/ Matches(rule.exclude, "literal", upath)
       \/ Matches(rule.exclude, "regex", upath)
       \/ ~Matches(rule.path, "literal", upath) /\ ~Matches(rule.path, "regex", upath)
    THEN [path |-> upath, rewried |-> FALSE]
    ELSE [path |-> rule.rePath[upath], rewried |-> TRUE]

\* Mutant: the list never ends early.
forwardOnwards(st, rule) ==
    LET new == Rewrite(rule, st.path) IN
    IF ~rule.status \/ ~Compiles(rule) \/ ~new.rewried THEN st
    ELSE [path |-> new.path, over |-> st.over \/ rule.end \/ rule.redirectCode # 0,
          redirect |-> IF rule.redirectCode # 0 THEN rule.redirectCode ELSE st.redirect]

\* One rule of the list after those before it have made st.
forward(st, rule) ==
    LET new == Rewrite(rule, st.path) IN
    IF st.over \/ ~rule.status \/ ~Compiles(rule) \/ ~new.rewried THEN st
    ELSE IF rule.redirectCode # 0
    THEN [path |-> new.path, redirect |-> rule.redirectCode, over |-> TRUE]
    ELSE [st EXCEPT !.path = new.path, !.over = rule.end]

\* The path after the whole list.
forwardList(list, upath) ==
    LET after[i \in 0 .. Len(list)] ==
            IF i = 0 THEN [path |-> upath, redirect |-> 0, over |-> FALSE]
            ELSE forward(after[i - 1], list[i])
    IN after[Len(list)]
=============================================================================
