---------------------------- MODULE Subscriptions ----------------------------
(***************************************************************************)
(* aci_sim/rest_aci/auth.py and subscriptions.py with the routes of app.py *)
(* that use them: session tokens, query subscriptions and the websocket    *)
(* that pushes changes to a client.  All three tables are process-wide     *)
(* dictionaries; every function of the two modules runs without awaiting,  *)
(* and the only coroutine that lives across awaits is the websocket        *)
(* handler, which is split here at its awaits (accept, queue.get,          *)
(* send_json, receive).                                                    *)
(*                                                                         *)
(* Deadlines are kept as remaining lifetimes that Tick counts down; an     *)
(* entry whose lifetime is 0 is expired but stays in its dictionary until  *)
(* a call prunes it, as in the code.                                       *)
(***************************************************************************)
EXTENDS Integers, Sequences, FiniteSets

CONSTANTS
  Token,          \* session tokens; a login returns one never issued before
  Handler,        \* invocations of the websocket route
  CertToken,      \* tokens sent along with certificate cookies
  Change,         \* MO changes, each [cls, dn, status]
  Scope,          \* subscription scopes, each [kind, value]
  SessionLife,    \* SESSION_LIFETIME_SECONDS, in ticks
  SubLife,        \* SUBSCRIPTION_LIFETIME_SECONDS, in ticks
  MaxSid,         \* bound on the subscriptions a behaviour creates
  MaxPush,        \* bound on the changes a behaviour notifies
  None            \* absent from a dictionary

ASSUME LifeAssumption ==
  /\ SessionLife \in Nat \ {0} /\ SubLife \in Nat \ {0}
  /\ MaxSid \in Nat /\ MaxPush \in Nat

ASSUME CertAssumption == CertToken \subseteq Token

Sid == 1..MaxSid

Subscription == [token : Token, scope : Scope, ttl : 0..SubLife]

(* A push: the ids it is addressed to, the change, and its notify call. *)
Event == [sids : SUBSET Sid, change : Change, n : 1..MaxPush]

Phase == {"new", "accepting", "open", "closing", "done"}

ASSUME NoneAssumption ==
  None \notin Token \cup Handler \cup Subscription \cup Event \cup (0..SessionLife)

VARIABLES
  sessions,   \* _sessions: token -> remaining lifetime, or None
  issued,     \* the tokens logins have returned
  subs,       \* _subscriptions: id -> Subscription, or None
  nextSid,    \* _id_counter
  conns,      \* _connections: token -> the handler whose queue it holds, or None
  phase,      \* where each websocket handler is
  sock,       \* the token each handler was opened with
  queue,      \* the asyncio.Queue of each handler
  hand,       \* the event _pump_events has taken and not yet sent
  got,        \* what the client at the other end has received
  owner,      \* (history) the token each subscription id was created for
  pushes      \* (history) the number of notify calls

vars == <<sessions, issued, subs, nextSid, conns, phase, sock, queue, hand, got,
          owner, pushes>>

authVars == <<sessions, issued>>
regVars  == <<subs, nextSid, owner>>
wsVars   == <<conns, phase, sock, queue, hand, got>>

-----------------------------------------------------------------------------
(* auth.py *)

(* _prune_expired of auth.py *)
PrunedSessions == [t \in Token |-> IF sessions[t] = 0 THEN None ELSE sessions[t]]

(* _lookup_session *)
Live(t) == PrunedSessions[t] # None

(* require_session: a live token, or certificate cookies beside it. *)
Authorized(t) == t \in issued /\ (Live(t) \/ t \in CertToken)

aaaLogin(t) ==
  /\ t \notin issued
  /\ sessions' = [PrunedSessions EXCEPT ![t] = SessionLife]
  /\ issued' = issued \cup {t}
  /\ UNCHANGED <<regVars, wsVars, pushes>>

(* Fault for aaaRefresh: renews a token without looking it up. *)
aaaRefreshUnchecked(t) ==
  /\ t \in issued
  /\ sessions' = [PrunedSessions EXCEPT ![t] = SessionLife]
  /\ UNCHANGED <<issued, regVars, wsVars, pushes>>

(* aaaRefresh answers 403 and renews nothing unless the token is live. *)
aaaRefresh(t) ==
  /\ Live(t)
  /\ sessions' = [PrunedSessions EXCEPT ![t] = SessionLife]
  /\ UNCHANGED <<issued, regVars, wsVars, pushes>>

(* aaaLogout drops the session only: not the subscriptions, not the socket. *)
aaaLogout(t) ==
  /\ t \in issued
  /\ sessions' = [PrunedSessions EXCEPT ![t] = None]
  /\ UNCHANGED <<issued, regVars, wsVars, pushes>>

-----------------------------------------------------------------------------
(* subscriptions.py *)

(* Fault for Expired: off by one at the deadline. *)
ExpiredLate(s) == subs[s] # None /\ subs[s].ttl < 0

Expired(s) == subs[s] # None /\ subs[s].ttl <= 0

(* Fault for PrunedSubs: nothing is pruned. *)
Unpruned == subs

(* _prune_expired of subscriptions.py *)
PrunedSubs == [s \in Sid |-> IF Expired(s) THEN None ELSE subs[s]]

(* subscribe, from any of the three query routes with ?subscription=yes *)
subscribe(t, sc) ==
  /\ Authorized(t)
  /\ nextSid <= MaxSid
  /\ subs' = [PrunedSubs EXCEPT ![nextSid] = [token |-> t, scope |-> sc, ttl |-> SubLife]]
  /\ nextSid' = nextSid + 1
  /\ owner' = [owner EXCEPT ![nextSid] = t]
  /\ sessions' = PrunedSessions
  /\ UNCHANGED <<issued, wsVars, pushes>>

(* subscriptionRefresh: any live session may renew any id; an unknown or   *)
(* expired id is pruned, not revived, and the answer is 200 all the same.  *)
refresh(t, s) ==
  /\ Authorized(t)
  /\ subs' = IF PrunedSubs[s] = None THEN PrunedSubs
             ELSE [PrunedSubs EXCEPT ![s].ttl = SubLife]
  /\ sessions' = PrunedSessions
  /\ UNCHANGED <<issued, nextSid, owner, wsVars, pushes>>

(* _dn_matches; a DN is the sequence of its RNs *)
DnMatches(scopeDn, dn) ==
  Len(scopeDn) <= Len(dn) /\ SubSeq(dn, 1, Len(scopeDn)) = scopeDn

Matches(sc, c) ==
  \/ sc.kind = "class" /\ sc.value = c.cls
  \/ sc.kind = "dn" /\ DnMatches(sc.value, c.dn)

(* Fault for Matched: the subscriptions of every token. *)
MatchedAnyToken(t, c) ==
  {s \in Sid : PrunedSubs[s] # None /\ Matches(PrunedSubs[s].scope, c)}

(* The ids that notify collects for token t. *)
Matched(t, c) ==
  {s \in Sid : /\ PrunedSubs[s] # None
               /\ PrunedSubs[s].token = t
               /\ Matches(PrunedSubs[s].scope, c)}

(* notify, called by a POST or DELETE right after its store commit: one    *)
(* event per token with matching subscriptions, into the queue of the      *)
(* token's connection; a token without one is skipped.  The route checks    *)
(* the session before it awaits the request body, so the caller's token    *)
(* need not be live any more when this runs.                               *)
notify(c) ==
  /\ issued # {}
  /\ pushes < MaxPush
  /\ pushes' = pushes + 1
  /\ queue' = [h \in Handler |->
                 IF \E u \in Token : conns[u] = h /\ Matched(u, c) # {}
                 THEN Append(queue[h],
                             [sids |-> UNION {Matched(u, c) : u \in {v \in Token : conns[v] = h}},
                              change |-> c, n |-> pushes + 1])
                 ELSE queue[h]]
  /\ subs' = PrunedSubs
  /\ UNCHANGED <<authVars, nextSid, owner, conns, phase, sock, hand, got>>

-----------------------------------------------------------------------------
(* app.py subscription_socket *)

(* Up to `await websocket.accept()`: a dead token is refused. *)
wsOpen(h, t) ==
  /\ phase[h] = "new" /\ t \in issued
  /\ phase' = [phase EXCEPT ![h] = IF Live(t) THEN "accepting" ELSE "done"]
  /\ sock' = [sock EXCEPT ![h] = t]
  /\ sessions' = PrunedSessions
  /\ UNCHANGED <<issued, regVars, conns, queue, hand, got, pushes>>

(* Fault for wsRegister: the new connection inherits the replaced queue. *)
wsRegisterInheriting(h) ==
  /\ phase[h] = "accepting"
  /\ phase' = [phase EXCEPT ![h] = "open"]
  /\ conns' = [conns EXCEPT ![sock[h]] = h]
  /\ queue' = [queue EXCEPT ![h] = IF conns[sock[h]] = None THEN <<>> ELSE queue[conns[sock[h]]]]
  /\ UNCHANGED <<authVars, regVars, sock, hand, got, pushes>>

(* After the accept: register_connection with a new queue, replacing the   *)
(* entry another handler of the same token may hold.                       *)
wsRegister(h) ==
  /\ phase[h] = "accepting"
  /\ phase' = [phase EXCEPT ![h] = "open"]
  /\ conns' = [conns EXCEPT ![sock[h]] = h]
  /\ queue' = [queue EXCEPT ![h] = <<>>]
  /\ UNCHANGED <<authVars, regVars, sock, hand, got, pushes>>

(* The client went away before the accept: no registration, no cleanup. *)
wsAbort(h) ==
  /\ phase[h] = "accepting"
  /\ phase' = [phase EXCEPT ![h] = "done"]
  /\ UNCHANGED <<authVars, regVars, conns, sock, queue, hand, got, pushes>>

(* Fault for pumpGet: a replaced connection stops pumping. *)
pumpGetCurrent(h) ==
  /\ phase[h] \in {"open", "closing"} /\ hand[h] = None /\ queue[h] # <<>>
  /\ conns[sock[h]] = h
  /\ hand' = [hand EXCEPT ![h] = Head(queue[h])]
  /\ queue' = [queue EXCEPT ![h] = Tail(queue[h])]
  /\ UNCHANGED <<authVars, regVars, conns, phase, sock, got, pushes>>

(* _pump_events: `await queue.get()` returns. *)
pumpGet(h) ==
  /\ phase[h] \in {"open", "closing"} /\ hand[h] = None /\ queue[h] # <<>>
  /\ hand' = [hand EXCEPT ![h] = Head(queue[h])]
  /\ queue' = [queue EXCEPT ![h] = Tail(queue[h])]
  /\ UNCHANGED <<authVars, regVars, conns, phase, sock, got, pushes>>

(* _pump_events: `await websocket.send_json(event)` returns; the event is  *)
(* lost if the client is gone.                                             *)
pumpSend(h) ==
  /\ phase[h] \in {"open", "closing"} /\ hand[h] # None
  /\ got' = IF phase[h] = "open" THEN [got EXCEPT ![h] = Append(@, hand[h])] ELSE got
  /\ hand' = [hand EXCEPT ![h] = None]
  /\ UNCHANGED <<authVars, regVars, conns, phase, sock, queue, pushes>>

(* The client closes; nothing on the server has run yet. *)
clientClose(h) ==
  /\ phase[h] = "open"
  /\ phase' = [phase EXCEPT ![h] = "closing"]
  /\ UNCHANGED <<authVars, regVars, conns, sock, queue, hand, got, pushes>>

(* Fault for wsTeardown: the connection entry stays behind. *)
wsTeardownLeaking(h) ==
  /\ phase[h] = "closing"
  /\ phase' = [phase EXCEPT ![h] = "done"]
  /\ subs' = [s \in Sid |->
                IF PrunedSubs[s] # None /\ PrunedSubs[s].token = sock[h]
                THEN None ELSE PrunedSubs[s]]
  /\ queue' = [queue EXCEPT ![h] = <<>>]
  /\ hand' = [hand EXCEPT ![h] = None]
  /\ UNCHANGED <<authVars, nextSid, owner, conns, sock, got, pushes>>

(* The `finally` block: both tasks are cancelled and drop_connection runs, *)
(* which looks at the token and not at the handler.                        *)
wsTeardown(h) ==
  /\ phase[h] = "closing"
  /\ phase' = [phase EXCEPT ![h] = "done"]
  /\ conns' = [conns EXCEPT ![sock[h]] = None]
  /\ subs' = [s \in Sid |->
                IF PrunedSubs[s] # None /\ PrunedSubs[s].token = sock[h]
                THEN None ELSE PrunedSubs[s]]
  /\ queue' = [queue EXCEPT ![h] = <<>>]
  /\ hand' = [hand EXCEPT ![h] = None]
  /\ UNCHANGED <<authVars, nextSid, owner, sock, got, pushes>>

-----------------------------------------------------------------------------
(* Fault for Left: the lifetime runs past zero. *)
LeftUnbounded(n) == n - 1

Left(n) == IF n > 0 THEN n - 1 ELSE 0

Tick ==
  /\ sessions' = [t \in Token |-> IF sessions[t] = None THEN None ELSE Left(sessions[t])]
  /\ subs' = [s \in Sid |-> IF subs[s] = None THEN None
                            ELSE [subs[s] EXCEPT !.ttl = Left(@)]]
  /\ UNCHANGED <<issued, nextSid, owner, wsVars, pushes>>

Init ==
  /\ sessions = [t \in Token |-> None] /\ issued = {}
  /\ subs = [s \in Sid |-> None] /\ nextSid = 1 /\ owner = [s \in Sid |-> None]
  /\ conns = [t \in Token |-> None]
  /\ phase = [h \in Handler |-> "new"] /\ sock = [h \in Handler |-> None]
  /\ queue = [h \in Handler |-> <<>>] /\ hand = [h \in Handler |-> None]
  /\ got = [h \in Handler |-> <<>>]
  /\ pushes = 0

Next ==
  \/ Tick
  \/ \E t \in Token : aaaLogin(t) \/ aaaRefresh(t) \/ aaaLogout(t)
  \/ \E t \in Token, sc \in Scope : subscribe(t, sc)
  \/ \E t \in Token, s \in Sid : refresh(t, s)
  \/ \E c \in Change : notify(c)
  \/ \E h \in Handler, t \in Token : wsOpen(h, t)
  \/ \E h \in Handler : wsRegister(h) \/ wsAbort(h) \/ pumpGet(h) \/ pumpSend(h)
                        \/ clientClose(h) \/ wsTeardown(h)

Spec == Init /\ [][Next]_vars

(* The event loop resumes every coroutine whose await is over; a client    *)
(* that neither reads nor closes would hold send_json, and is ruled out.   *)
Fairness ==
  \A h \in Handler : /\ WF_vars(pumpGet(h)) /\ WF_vars(pumpSend(h))
                     /\ WF_vars(wsTeardown(h))

FairSpec == Spec /\ Fairness

-----------------------------------------------------------------------------
(* Properties *)

TypeOK ==
  /\ sessions \in [Token -> (0..SessionLife) \cup {None}]
  /\ issued \subseteq Token
  /\ subs \in [Sid -> Subscription \cup {None}]
  /\ nextSid \in 1..MaxSid+1
  /\ owner \in [Sid -> Token \cup {None}]
  /\ conns \in [Token -> Handler \cup {None}]
  /\ phase \in [Handler -> Phase]
  /\ sock \in [Handler -> Token \cup {None}]
  /\ queue \in [Handler -> Seq(Event)]
  /\ hand \in [Handler -> Event \cup {None}]
  /\ got \in [Handler -> Seq(Event)]
  /\ pushes \in 0..MaxPush

(* What handler h has been given: received, being sent, or queued. *)
Given(h) == {got[h][i] : i \in 1..Len(got[h])} \cup ({hand[h]} \ {None})
              \cup {queue[h][i] : i \in 1..Len(queue[h])}

(* The same, oldest first. *)
Stream(h) == got[h] \o (IF hand[h] = None THEN <<>> ELSE <<hand[h]>>) \o queue[h]

(* An entry of _connections always leads to a handler of that token that   *)
(* has not finished: no push goes into the queue of a socket that is gone, *)
(* whatever reconnects and late teardowns happened before.                 *)
RegisteredAlive ==
  \A t \in Token : conns[t] # None =>
    sock[conns[t]] = t /\ phase[conns[t]] \in {"open", "closing"}

(* A client is only ever told about subscriptions of its own token, also   *)
(* after ids expired, were dropped, or its socket was replaced.            *)
EventsForOwner ==
  \A h \in Handler : \A e \in Given(h) : \A s \in e.sids :
    owner[s] # None /\ owner[s] = sock[h]

(* Changes reach a socket in the order the writes committed, and no change *)
(* is given twice to one token, not even across a reconnect.               *)
InCommitOrder ==
  /\ \A h \in Handler : \A i, j \in 1..Len(Stream(h)) :
       i < j => Stream(h)[i].n < Stream(h)[j].n
  /\ \A h, k \in Handler : h # k /\ sock[h] = sock[k] /\ sock[h] # None =>
       \A i \in 1..Len(Stream(h)) : \A j \in 1..Len(Stream(k)) :
         Stream(h)[i].n # Stream(k)[j].n

(* A subscription that expired or was dropped is never live again: neither *)
(* a late subscriptionRefresh nor a reused id revives it.                  *)
ExpiredStaysExpired ==
  [][\A s \in Sid :
       s < nextSid /\ (subs[s] = None \/ Expired(s)) =>
         subs'[s] = None \/ subs'[s].ttl = 0]_vars

(* A token whose session timed out or was logged out is never accepted     *)
(* again: aaaRefresh comes too late.                                       *)
LogoutIsFinal ==
  [][\A t \in Token :
       t \in issued /\ ~ Live(t) => sessions'[t] = None \/ sessions'[t] = 0]_vars

(* A push goes to every registered socket whose token has a live matching  *)
(* subscription, naming exactly the live ones that match, and one token    *)
(* without a socket does not keep the others from theirs.                  *)
PushComplete ==
  [][pushes' # pushes =>
       \E c \in Change : \A t \in Token :
         LET live == {s \in Sid : /\ subs[s] # None /\ subs[s].ttl > 0
                                  /\ subs[s].token = t /\ Matches(subs[s].scope, c)}
         IN  conns[t] # None =>
               LET q == queue[conns[t]]  qq == queue'[conns[t]]
               IN  IF live = {} THEN qq = q
                   ELSE /\ Len(qq) = Len(q) + 1
                        /\ qq[Len(qq)].sids = live /\ qq[Len(qq)].change = c]_vars

(* subscriptions.py:151 says a reconnect replaces the prior queue: the     *)
(* token's entry then stays with the new socket for as long as it is open. *)
ReconnectKept ==
  [][\A t \in Token :
       conns[t] # None /\ phase[conns[t]] = "open" /\ phase'[conns[t]] = "open"
         => conns'[t] # None]_vars

(* An event in the queue of a socket is received, unless the client        *)
(* closes; also when another socket of the token has taken its place.      *)
PushesArrive ==
  \A h \in Handler : queue[h] # <<>> ~> (queue[h] = <<>> /\ hand[h] = None)

=============================================================================
