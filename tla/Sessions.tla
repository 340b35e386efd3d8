------------------------------ MODULE Sessions ------------------------------
(***************************************************************************)
(* The sessions of a site: Sessions.go (the map of ids, expiry, the        *)
(* operations requests and the site pool call concurrently), Session.go    *)
(* and ExitCall of defer.go (the calls a session runs when it is freed).   *)
(*                                                                         *)
(* vmap.Map is a concurrent map: one of its calls is one step, and Range   *)
(* visits the ids in any order, reading each as it comes to it.  The       *)
(* fields recent and unavailable of a manageSession are plain variables    *)
(* that goroutines share, as is the id of a Session: every read and every  *)
(* write is a step of its own.  A Session that is set again gets another   *)
(* manageSession, so the two are different objects.                        *)
(***************************************************************************)
EXTENDS Integers, FiniteSets, Sequences, SequencesExt

CONSTANTS
    Workers,      \* goroutines that call the exported operations
    Ids,          \* session ids
    Objs,         \* Session objects
    Entries,      \* manageSession objects; of both, the ones that nothing
                  \* refers to any more are used again
    MaxDefers,    \* Defer calls per session (bound)
    MaxSets,      \* a session set so often is not set again by the user (bound)
    Expired,      \* T.Expired # 0
    Used,         \* the operations the instance calls (bound; Ops in the code)
    NoObj, NoEntry, NoId

Ops == {"Get", "New", "Session", "Set", "Del", "Check", "Instant"}

ASSUME UsedAssumption == Used \subseteq Ops
ASSUME BoundAssumption == MaxDefers \in Nat /\ MaxSets \in Nat /\ Expired \in BOOLEAN
ASSUME FiniteAssumption == IsFiniteSet(Workers)
ASSUME NullAssumption == NoObj \notin Objs /\ NoEntry \notin Entries /\ NoId \notin Ids

VARIABLES
    ss,           \* T.ss: the entry stored under an id
    session,      \* ms.s
    unavailable,  \* ms.unavailable
    old,          \* ms.recent lies further back than T.Expired
    token,        \* Session.id
    freed,        \* Session.freed
    efs,          \* ExitCall.efs: the numbers of the calls to run
    ran,          \* the calls run, in order
    stored,       \* history: how often the session was put on the map
    spawned,      \* goroutines started by "go s.Free()" that have yet to begin
    freeing,      \* and those between freed.Store and the swap of efs
    pc, op,       \* where a worker stands, and in which operation
    id, cur,      \* its id, and the entry it read
    sess,         \* the session that it sets, or that it was given
    tok,          \* SetSession: the token it read of the stored session
    todo, expID   \* Range: ids to visit; CheckDeadAll: the expired ids found

entryVars == <<session, unavailable, old>>
exitVars == <<freed, efs, ran>>
sessVars == <<token, stored, exitVars>>
goVars == <<spawned, freeing>>
workVars == <<pc, op, id, cur, sess, tok, todo, expID>>
vars == <<ss, entryVars, sessVars, goVars, workVars>>

PCs == {"idle", "get", "seen", "trigger", "expire", "drop", "touch", "write", "set",
        "old", "token", "compare", "retire", "stamp", "put", "unmap", "free", "range",
        "mark", "held", "append"}

MapTypeOK ==
    /\ ss \in [Ids -> Entries \cup {NoEntry}]
    /\ session \in [Entries -> Objs \cup {NoObj}]
    /\ unavailable \in [Entries -> BOOLEAN]
    /\ old \in [Entries -> BOOLEAN]
    /\ token \in [Objs -> Ids \cup {NoId}]
    /\ stored \in [Objs -> Nat]
    /\ freed \in [Objs -> BOOLEAN]
    /\ spawned \in [Objs -> Nat]
    /\ freeing \in [Objs -> Nat]

WorkTypeOK ==
    /\ pc \in [Workers -> PCs]
    /\ op \in [Workers -> Ops]
    /\ id \in [Workers -> Ids \cup {NoId}]
    /\ cur \in [Workers -> Entries \cup {NoEntry}]
    /\ sess \in [Workers -> Objs \cup {NoObj}]
    /\ tok \in [Workers -> Ids \cup {NoId}]
    /\ todo \in [Workers -> SUBSET Ids]
    /\ expID \in [Workers -> SUBSET Ids]

TypeOK ==
    /\ MapTypeOK
    /\ WorkTypeOK
    /\ efs \in [Objs -> Seq(1 .. MaxDefers)]
    /\ ran \in [Objs -> Seq(1 .. MaxDefers)]

Init ==
    /\ ss = [i \in Ids |-> NoEntry]
    /\ session = [m \in Entries |-> NoObj]
    /\ unavailable = [m \in Entries |-> FALSE]
    /\ old = [m \in Entries |-> FALSE]
    /\ token = [o \in Objs |-> NoId]
    /\ stored = [o \in Objs |-> 0]
    /\ freed = [o \in Objs |-> TRUE]
    /\ efs = [o \in Objs |-> <<>>]
    /\ ran = [o \in Objs |-> <<>>]
    /\ spawned = [o \in Objs |-> 0]
    /\ freeing = [o \in Objs |-> 0]
    /\ pc = [w \in Workers |-> "idle"]
    /\ op = [w \in Workers |-> "Get"]
    /\ id = [w \in Workers |-> NoId]
    /\ cur = [w \in Workers |-> NoEntry]
    /\ sess = [w \in Workers |-> NoObj]
    /\ tok = [w \in Workers |-> NoId]
    /\ todo = [w \in Workers |-> {}]
    /\ expID = [w \in Workers |-> {}]

-----------------------------------------------------------------------------
\* The map or a worker refers to the entry; and to the session one of those
\* entries, a worker, or a go s.Free().
InUse(m) == \/ \E i \in Ids : ss[i] = m
            \/ \E w \in Workers : cur[w] = m

Reachable(o) == \/ \E m \in Entries : InUse(m) /\ session[m] = o
                \/ \E w \in Workers : sess[w] = o
                \/ spawned[o] + freeing[o] > 0

GoTo(w, where) == pc' = [pc EXCEPT ![w] = where]

goFree(o) == spawned' = [spawned EXCEPT ![o] = @ + 1]

\* The worker's operation is over; the locals go.
Return(w) ==
    /\ pc' = [pc EXCEPT ![w] = "idle"]
    /\ op' = [op EXCEPT ![w] = "Get"]
    /\ id' = [id EXCEPT ![w] = NoId]
    /\ cur' = [cur EXCEPT ![w] = NoEntry]
    /\ sess' = [sess EXCEPT ![w] = NoObj]
    /\ tok' = [tok EXCEPT ![w] = NoId]
    /\ todo' = [todo EXCEPT ![w] = {}]
    /\ expID' = [expID EXCEPT ![w] = {}]

\* Or it hands session o to the request, which may use it for a while.
Hold(w, o) ==
    /\ pc' = [pc EXCEPT ![w] = "held"]
    /\ op' = [op EXCEPT ![w] = "Get"]
    /\ id' = [id EXCEPT ![w] = NoId]
    /\ cur' = [cur EXCEPT ![w] = NoEntry]
    /\ sess' = [sess EXCEPT ![w] = o]
    /\ tok' = [tok EXCEPT ![w] = NoId]
    /\ UNCHANGED <<todo, expID>>

\* The entry it read is not needed any more.
Forget(w) == cur' = [cur EXCEPT ![w] = NoEntry]

\* Time passes: T.Expired after the last use, a session is old.
Elapse(m) ==
    /\ Expired
    /\ ~old[m]
    /\ \E i \in Ids : ss[i] = m
    /\ old' = [old EXCEPT ![m] = TRUE]
    /\ UNCHANGED <<ss, session, unavailable, sessVars, goVars, workVars>>

-----------------------------------------------------------------------------
(* GetSession, also as the first half of NewSession and of Session.         *)

Call(w) ==
    /\ pc[w] = "idle"
    /\ \E o \in {"Get", "New", "Session"}, i \in Ids :
         /\ o \in Used
         /\ op' = [op EXCEPT ![w] = o]
         /\ id' = [id EXCEPT ![w] = i]
    /\ GoTo(w, "get")
    /\ UNCHANGED <<ss, entryVars, sessVars, goVars, cur, sess, tok, todo, expID>>

\* Session(rw, req) of a request without the cookie: no id to look up.
CallNoCookie(w) ==
    /\ pc[w] = "idle"
    /\ "Session" \in Used
    /\ op' = [op EXCEPT ![w] = "Session"]
    /\ GoTo(w, "write")
    /\ UNCHANGED <<ss, entryVars, sessVars, goVars, id, cur, sess, tok, todo, expID>>

\* GetSession answers that there is none: NewSession calls SetSession with this
\* id, Session goes on to writeToClient, GetSession's own caller is done.
Miss(w) ==
    \/ /\ op[w] = "Get"
       /\ Return(w)
    \/ /\ op[w] = "New"
       /\ GoTo(w, "set")
       /\ op' = [op EXCEPT ![w] = "Set"]
       /\ Forget(w)
       /\ UNCHANGED <<id, sess, tok, todo, expID>>
    \/ /\ op[w] = "Session"
       /\ GoTo(w, "write")
       /\ id' = [id EXCEPT ![w] = NoId]
       /\ Forget(w)
       /\ UNCHANGED <<op, sess, tok, todo, expID>>

GetHas(w) ==
    /\ pc[w] = "get"
    /\ \/ /\ ss[id[w]] = NoEntry
          /\ Miss(w)
       \/ /\ ss[id[w]] # NoEntry
          /\ GoTo(w, "seen")
          /\ cur' = [cur EXCEPT ![w] = ss[id[w]]]
          /\ UNCHANGED <<op, id, sess, tok, todo, expID>>
    /\ UNCHANGED <<ss, entryVars, sessVars, goVars>>

CheckAvailable(w) ==
    /\ pc[w] = "seen"
    /\ \/ unavailable[cur[w]] /\ Miss(w)
       \/ /\ ~unavailable[cur[w]]
          /\ GoTo(w, "trigger")
          /\ UNCHANGED <<op, id, cur, sess, tok, todo, expID>>
    /\ UNCHANGED <<ss, entryVars, sessVars, goVars>>

\* triggerDeadSession reads both fields ...
triggerDeadSession(w) ==
    /\ pc[w] = "trigger"
    /\ GoTo(w, IF unavailable[cur[w]] THEN "drop"
               ELSE IF Expired /\ old[cur[w]] THEN "expire"
               ELSE "touch")
    /\ UNCHANGED <<ss, entryVars, sessVars, goVars, op, id, cur, sess, tok, todo, expID>>

\* ... and acts on what it read.
ExpireSession(w) ==
    /\ pc[w] = "expire"
    /\ unavailable' = [unavailable EXCEPT ![cur[w]] = TRUE]
    /\ goFree(session[cur[w]])
    /\ GoTo(w, "drop")
    /\ Forget(w)
    /\ UNCHANGED <<ss, session, old, sessVars, freeing, op, id, sess, tok, todo, expID>>

\* T.ss.Del(id), whatever is stored there by now.
DropId(w) ==
    /\ pc[w] = "drop"
    /\ ss' = [ss EXCEPT ![id[w]] = NoEntry]
    /\ Miss(w)
    /\ UNCHANGED <<entryVars, sessVars, goVars>>

TouchSession(w) ==
    /\ pc[w] = "touch"
    /\ old' = [old EXCEPT ![cur[w]] = FALSE]
    /\ Hold(w, session[cur[w]])
    /\ UNCHANGED <<ss, session, unavailable, sessVars, goVars>>

-----------------------------------------------------------------------------
(* writeToClient.                                                           *)

\* The response may bear the cookie of a session already, of any id.
ReadSetCookie(w) ==
    /\ pc[w] = "write"
    /\ \E i \in Ids : id' = [id EXCEPT ![w] = i]
    /\ GoTo(w, "get")
    /\ UNCHANGED <<ss, entryVars, sessVars, goVars, op, cur, sess, tok, todo, expID>>

\* generateRandSessionID: an id that T.ss.Has does not know.
generateRandSessionID(w) ==
    /\ pc[w] = "write"
    /\ \E i \in Ids : ss[i] = NoEntry /\ id' = [id EXCEPT ![w] = i]
    /\ op' = [op EXCEPT ![w] = "Set"]
    /\ GoTo(w, "set")
    /\ UNCHANGED <<ss, entryVars, sessVars, goVars, cur, sess, tok, todo, expID>>

\* Every id is taken: the loop sleeps and draws again ("-temp" widens the ids).
DrawAgain(w) ==
    /\ pc[w] = "write"
    /\ \A i \in Ids : ss[i] # NoEntry
    /\ UNCHANGED vars

-----------------------------------------------------------------------------
(* SetSession(id, s): of a new session by NewSession and writeToClient, of   *)
(* any session that it has by the user.                                     *)

\* new(Session)
Allocate(w, o) ==
    /\ ~Reachable(o)
    /\ sess' = [sess EXCEPT ![w] = o]
    /\ token' = [token EXCEPT ![o] = NoId]
    /\ stored' = [stored EXCEPT ![o] = 0]
    /\ freed' = [freed EXCEPT ![o] = FALSE]
    /\ efs' = [efs EXCEPT ![o] = <<>>]
    /\ ran' = [ran EXCEPT ![o] = <<>>]

\* The user makes a session of its own ...
CallNew(w) ==
    /\ pc[w] = "idle"
    /\ "Set" \in Used
    /\ \E o \in Objs : ~Reachable(o)
    /\ Allocate(w, CHOOSE o \in Objs : ~Reachable(o))
    /\ GoTo(w, "held")
    /\ UNCHANGED <<ss, entryVars, goVars, op, id, cur, tok, todo, expID>>

\* ... and sets it, or one that it was given, under any id.
CallSet(w) ==
    /\ pc[w] = "held"
    /\ "Set" \in Used
    /\ stored[sess[w]] < MaxSets
    /\ op' = [op EXCEPT ![w] = "Set"]
    /\ \E i \in Ids : id' = [id EXCEPT ![w] = i]
    /\ GoTo(w, "set")
    /\ UNCHANGED <<ss, entryVars, sessVars, goVars, cur, sess, tok, todo, expID>>

\* GetHas
SetSession(w) ==
    /\ pc[w] = "set"
    /\ \/ /\ sess[w] = NoObj
          /\ \E o \in Objs : ~Reachable(o)
          /\ Allocate(w, CHOOSE o \in Objs : ~Reachable(o))
       \/ /\ sess[w] # NoObj
          /\ UNCHANGED <<sess, sessVars>>
    /\ cur' = [cur EXCEPT ![w] = ss[id[w]]]
    /\ GoTo(w, IF ss[id[w]] = NoEntry THEN "stamp" ELSE "old")
    /\ UNCHANGED <<ss, entryVars, goVars, op, id, tok, todo, expID>>

CheckOld(w) ==
    /\ pc[w] = "old"
    /\ \/ /\ unavailable[cur[w]]
          /\ GoTo(w, "stamp")
          /\ Forget(w)
       \/ /\ ~unavailable[cur[w]]
          /\ GoTo(w, "token")
          /\ UNCHANGED cur
    /\ UNCHANGED <<ss, entryVars, sessVars, goVars, op, id, sess, tok, todo, expID>>

\* ms.s.Token()
ReadToken(w) ==
    /\ pc[w] = "token"
    /\ tok' = [tok EXCEPT ![w] = token[session[cur[w]]]]
    /\ GoTo(w, "compare")
    /\ UNCHANGED <<ss, entryVars, sessVars, goVars, op, id, cur, sess, todo, expID>>

\* A session with the token of the stored one is given back, and not stored.
CompareToken(w) ==
    /\ pc[w] = "compare"
    /\ \/ /\ tok[w] = token[sess[w]]
          /\ Hold(w, sess[w])
       \/ /\ tok[w] # token[sess[w]]
          /\ GoTo(w, "retire")
          /\ tok' = [tok EXCEPT ![w] = NoId]
          /\ UNCHANGED <<op, id, cur, sess, todo, expID>>
    /\ UNCHANGED <<ss, entryVars, sessVars, goVars>>

\* Mutant: the session replaced stays available while it is freed.
RetireOldAvailable(w) ==
    /\ pc[w] = "retire"
    /\ goFree(session[cur[w]])
    /\ GoTo(w, "stamp")
    /\ Forget(w)
    /\ UNCHANGED <<ss, entryVars, sessVars, freeing, op, id, sess, tok, todo, expID>>

RetireOld(w) ==
    /\ pc[w] = "retire"
    /\ unavailable' = [unavailable EXCEPT ![cur[w]] = TRUE]
    /\ goFree(session[cur[w]])
    /\ GoTo(w, "stamp")
    /\ Forget(w)
    /\ UNCHANGED <<ss, session, old, sessVars, freeing, op, id, sess, tok, todo, expID>>

\* t.id = id
StampToken(w) ==
    /\ pc[w] = "stamp"
    /\ token' = [token EXCEPT ![sess[w]] = id[w]]
    /\ GoTo(w, "put")
    /\ UNCHANGED <<ss, entryVars, stored, exitVars, goVars, op, id, cur, sess, tok, todo,
                   expID>>

\* A new entry for the session is stored, and the caller has the session.
PutSession(w) ==
    /\ pc[w] = "put"
    /\ \E m \in Entries : ~InUse(m)
    /\ LET m == CHOOSE m \in Entries : ~InUse(m) IN
         /\ ss' = [ss EXCEPT ![id[w]] = m]
         /\ session' = [session EXCEPT ![m] = sess[w]]
         /\ unavailable' = [unavailable EXCEPT ![m] = FALSE]
         /\ old' = [old EXCEPT ![m] = FALSE]
    /\ stored' = [stored EXCEPT ![sess[w]] = @ + 1]
    /\ Hold(w, sess[w])
    /\ UNCHANGED <<token, exitVars, goVars>>

-----------------------------------------------------------------------------
(* DelSession.                                                              *)

DelSession(w) ==
    /\ pc[w] = "idle"
    /\ "Del" \in Used
    /\ \E i \in Ids :
         /\ ss[i] # NoEntry
         /\ id' = [id EXCEPT ![w] = i]
         /\ cur' = [cur EXCEPT ![w] = ss[i]]
    /\ op' = [op EXCEPT ![w] = "Del"]
    /\ GoTo(w, "unmap")
    /\ UNCHANGED <<ss, entryVars, sessVars, goVars, sess, tok, todo, expID>>

\* Mutant: DelSession frees without deleting.
UnmapNothing(w) ==
    /\ pc[w] = "unmap"
    /\ GoTo(w, "free")
    /\ UNCHANGED <<ss, entryVars, sessVars, goVars, op, id, cur, sess, tok, todo, expID>>

UnmapId(w) ==
    /\ pc[w] = "unmap"
    /\ ss' = [ss EXCEPT ![id[w]] = NoEntry]
    /\ GoTo(w, "free")
    /\ UNCHANGED <<entryVars, sessVars, goVars, op, id, cur, sess, tok, todo, expID>>

FreeDeleted(w) ==
    /\ pc[w] = "free"
    /\ goFree(session[cur[w]])
    /\ Return(w)
    /\ UNCHANGED <<ss, entryVars, sessVars, freeing>>

-----------------------------------------------------------------------------
(* CheckDeadAll and InstantDeadAll: Range, then Dels or Reset.              *)

StartRange(w) ==
    /\ pc[w] = "idle"
    /\ \E o \in Used \cap {"Check", "Instant"} :
         /\ o = "Check" => Expired
         /\ op' = [op EXCEPT ![w] = o]
    /\ todo' = [todo EXCEPT ![w] = Ids]
    /\ GoTo(w, "range")
    /\ UNCHANGED <<ss, entryVars, sessVars, goVars, id, cur, sess, tok, expID>>

\* What the callback decides from its reads: InstantDeadAll takes every
\* available session, CheckDeadAll the old ones.
Takes(w, i) ==
    /\ ss[i] # NoEntry
    /\ ~unavailable[ss[i]]
    /\ op[w] = "Check" => old[ss[i]]

VisitId(w) ==
    /\ pc[w] = "range"
    /\ \E i \in todo[w] :
         /\ todo' = [todo EXCEPT ![w] = @ \ {i}]
         /\ IF Takes(w, i)
            THEN /\ cur' = [cur EXCEPT ![w] = ss[i]]
                 /\ id' = [id EXCEPT ![w] = i]
                 /\ GoTo(w, "mark")
            ELSE UNCHANGED <<cur, id, pc>>
    /\ UNCHANGED <<ss, entryVars, sessVars, goVars, op, sess, tok, expID>>

\* Mutant: the session is appended instead of its id.
MarkDeadValue(w) ==
    /\ pc[w] = "mark"
    /\ unavailable' = [unavailable EXCEPT ![cur[w]] = TRUE]
    /\ goFree(session[cur[w]])
    /\ expID' = [expID EXCEPT ![w] = @ \cup {cur[w]}]
    /\ id' = [id EXCEPT ![w] = NoId]
    /\ Forget(w)
    /\ GoTo(w, "range")
    /\ UNCHANGED <<ss, session, old, sessVars, freeing, op, sess, tok, todo>>

MarkDead(w) ==
    /\ pc[w] = "mark"
    /\ unavailable' = [unavailable EXCEPT ![cur[w]] = TRUE]
    /\ goFree(session[cur[w]])
    /\ expID' = IF op[w] = "Check" THEN [expID EXCEPT ![w] = @ \cup {id[w]}] ELSE expID
    /\ id' = [id EXCEPT ![w] = NoId]
    /\ Forget(w)
    /\ GoTo(w, "range")
    /\ UNCHANGED <<ss, session, old, sessVars, freeing, op, sess, tok, todo>>

\* Mutant: the expired ids are returned, not deleted.
WipeNothing(w) ==
    /\ pc[w] = "range"
    /\ todo[w] = {}
    /\ Return(w)
    /\ UNCHANGED <<ss, entryVars, sessVars, goVars>>

\* T.ss.Dels(expID), or T.ss.Reset().
WipeIds(w) ==
    /\ pc[w] = "range"
    /\ todo[w] = {}
    /\ LET gone == IF op[w] = "Instant" THEN Ids ELSE expID[w]
       IN  ss' = [i \in Ids |-> IF i \in gone THEN NoEntry ELSE ss[i]]
    /\ Return(w)
    /\ UNCHANGED <<entryVars, sessVars, goVars>>

-----------------------------------------------------------------------------
(* A request that has a session may Defer calls on it.                      *)

Leave(w) ==
    /\ pc[w] = "held"
    /\ Return(w)
    /\ UNCHANGED <<ss, entryVars, sessVars, goVars>>

\* Calls accepted so far, the one about to be appended included.
Accepted(o) == Len(efs[o]) + Len(ran[o])
                 + Cardinality({w \in Workers : pc[w] = "append" /\ sess[w] = o})

\* Session.Defer: freed is read; a freed session refuses, and nothing changes.
Defer(w) ==
    /\ pc[w] = "held"
    /\ ~freed[sess[w]]
    /\ Accepted(sess[w]) < MaxDefers
    /\ GoTo(w, "append")
    /\ UNCHANGED <<ss, entryVars, sessVars, goVars, op, id, cur, sess, tok, todo, expID>>

\* ExitCall.Defer, under its own mutex.
AppendCall(w) ==
    LET o == sess[w] IN
    /\ pc[w] = "append"
    /\ efs' = [efs EXCEPT ![o] = Append(@, Len(@) + Len(ran[o]) + 1)]
    /\ GoTo(w, "held")
    /\ UNCHANGED <<ss, entryVars, token, stored, freed, ran, goVars, op, id, cur, sess, tok, todo, expID>>

-----------------------------------------------------------------------------
(* go s.Free()                                                              *)

\* Mutant: the session is marked freed, its calls are left alone.
FreeMarksOnly(o) ==
    /\ spawned[o] > 0
    /\ spawned' = [spawned EXCEPT ![o] = @ - 1]
    /\ freed' = [freed EXCEPT ![o] = TRUE]
    /\ UNCHANGED <<ss, entryVars, token, stored, efs, ran, freeing, workVars>>

Free(o) ==
    /\ spawned[o] > 0
    /\ spawned' = [spawned EXCEPT ![o] = @ - 1]
    /\ freeing' = [freeing EXCEPT ![o] = @ + 1]
    /\ freed' = [freed EXCEPT ![o] = TRUE]
    /\ UNCHANGED <<ss, entryVars, token, stored, efs, ran, workVars>>

\* Mutant: the calls are run where they lie.
ExitCallFreeKeeps(o) ==
    /\ freeing[o] > 0
    /\ freeing' = [freeing EXCEPT ![o] = @ - 1]
    /\ ran' = [ran EXCEPT ![o] = @ \o Reverse(efs[o])]
    /\ UNCHANGED <<ss, entryVars, token, stored, efs, freed, spawned, workVars>>

\* ExitCall.Free: take the calls, run them last first.
ExitCallFree(o) ==
    /\ freeing[o] > 0
    /\ freeing' = [freeing EXCEPT ![o] = @ - 1]
    /\ ran' = [ran EXCEPT ![o] = @ \o Reverse(efs[o])]
    /\ efs' = [efs EXCEPT ![o] = <<>>]
    /\ UNCHANGED <<ss, entryVars, token, stored, freed, spawned, workVars>>

-----------------------------------------------------------------------------
\* What a worker does once it has begun an operation.
Step(w) ==
    \/ GetHas(w) \/ CheckAvailable(w) \/ triggerDeadSession(w)
    \/ ExpireSession(w) \/ DropId(w) \/ TouchSession(w)
    \/ ReadSetCookie(w) \/ generateRandSessionID(w) \/ DrawAgain(w)
    \/ SetSession(w) \/ CheckOld(w) \/ ReadToken(w) \/ CompareToken(w)
    \/ RetireOld(w) \/ StampToken(w) \/ PutSession(w)
    \/ UnmapId(w) \/ FreeDeleted(w)
    \/ VisitId(w) \/ MarkDead(w) \/ WipeIds(w)
    \/ Leave(w) \/ AppendCall(w)

Start(w) ==
    \/ Call(w) \/ CallNoCookie(w) \/ CallNew(w) \/ CallSet(w)
    \/ DelSession(w) \/ StartRange(w) \/ Defer(w)

Next ==
    \/ \E w \in Workers : Start(w) \/ Step(w)
    \/ \E m \in Entries : Elapse(m)
    \/ \E o \in Objs : Free(o) \/ ExitCallFree(o)

Spec == Init /\ [][Next]_vars

\* Every goroutine runs; nothing obliges a request to come.
Fairness ==
    /\ \A w \in Workers : WF_vars(Step(w))
    /\ \A o \in Objs : WF_vars(Free(o)) /\ WF_vars(ExitCallFree(o))

FairSpec == Spec /\ Fairness

-----------------------------------------------------------------------------
(* What the sessions promise. *)

\* The session that a GetSession can find and would return: it is on the map and
\* available.
Found(o) == \E i \in Ids : /\ ss[i] # NoEntry /\ ~unavailable[ss[i]]
                           /\ session[ss[i]] = o

\* A session that a GetSession can find and would return is not being freed: every
\* operation makes a session unavailable, or takes it off the map, before it
\* starts Free, however many of them work on one id.  SetSession asks for a new
\* session; one that is put on the map a second time, maybe after its Free, is not
\* meant.
FoundSessionIsLive ==
    \A o \in Objs : Found(o) /\ stored[o] < 2 =>
        ~freed[o] /\ spawned[o] + freeing[o] = 0

\* A call accepted by Defer is run at most once, although several operations
\* that race on one session each start a Free of it, and although it may be set
\* again after that.
CallsRunOnce ==
    \A o \in Objs :
        /\ IsInjective(ran[o])
        /\ \A k \in DOMAIN ran[o], l \in DOMAIN efs[o] : ran[o][k] # efs[o][l]

\* No call of a session runs while the session, put on the map once as above, can
\* still be got from it.
NoCallBeforeTheEnd ==
    \A o \in Objs : Found(o) /\ stored[o] < 2 => ran[o] = <<>>

\* An unavailable session is taken off the map: nothing else removes it, since
\* GetSession and CheckDeadAll pass it by.
DeadLeavesTheMap ==
    \A i \in Ids, m \in Entries :
        (ss[i] = m /\ unavailable[m]) ~> (ss[i] # m)

\* Once a Free of a session is under way, the calls it had accepted are run.
FreeRunsCalls ==
    \A o \in Objs : (spawned[o] > 0 /\ efs[o] # <<>>) ~> (efs[o] = <<>>)

\* "Is called after the user's session time has expired": a call that Defer
\* accepted waits in a session that can still be got, or one that a Free is about
\* to run; it is left behind neither by a Defer that raced with Free nor in a
\* session that was taken off the map without a Free.
DeferredCallsRun ==
    \A o \in Objs : stored[o] # 0 /\ efs[o] # <<>> =>
        IF freed[o] THEN spawned[o] + freeing[o] > 0 ELSE Reachable(o)
=============================================================================
