----------------------------- MODULE Site_proofs -----------------------------
(***************************************************************************)
(* What is proved of the two state machines of an APIC site that share     *)
(* nothing but the process they run in: its sessions and subscriptions     *)
(* (Subscriptions), and its control plane (SiteControl).                   *)
(***************************************************************************)
EXTENDS Subscriptions, SiteControl, FiniteSetTheorems, SequenceTheorems, WellFoundedInduction, TLAPS

-----------------------------------------------------------------------------
(* Sessions and subscriptions, for every set of tokens and handlers and    *)
(* every bound: whose events a socket gets, in which order, and which      *)
(* subscriptions a commit names.                                           *)

LEMMA PrunedSessionsType ==
  ASSUME TypeOK
  PROVE  PrunedSessions \in [Token -> (0..SessionLife) \cup {None}]
BY LifeAssumption DEF TypeOK, PrunedSessions

LEMMA PrunedSubsType ==
  ASSUME TypeOK
  PROVE  /\ PrunedSubs \in [Sid -> Subscription \cup {None}]
         /\ \A s \in Sid : PrunedSubs[s] = None \/ PrunedSubs[s] = subs[s]
         /\ \A s \in Sid : PrunedSubs[s] # None => subs[s] # None
BY DEF TypeOK, PrunedSubs

(* A push is an event of the right shape. *)
LEMMA EventType ==
  ASSUME TypeOK, NEW c \in Change, NEW S \in SUBSET Token, pushes < MaxPush
  PROVE  [sids |-> UNION {Matched(u, c) : u \in S}, change |-> c, n |-> pushes + 1] \in Event
<1>1. \A u : Matched(u, c) \subseteq Sid
  BY DEF Matched
<1>2. UNION {Matched(u, c) : u \in S} \in SUBSET Sid
  BY <1>1
<1>3. pushes + 1 \in 1..MaxPush
  BY LifeAssumption DEF TypeOK
<1>4. QED
  BY <1>2, <1>3 DEF Event

LEMMA TypeStep ==
  ASSUME TypeOK, [Next]_vars
  PROVE  TypeOK'
<1>. USE LifeAssumption
<1>1. ASSUME NEW t \in Token, aaaLogin(t) PROVE TypeOK'
  BY <1>1, PrunedSessionsType DEF TypeOK, aaaLogin, regVars, wsVars
<1>2. ASSUME NEW t \in Token, aaaRefresh(t) PROVE TypeOK'
  BY <1>2, PrunedSessionsType DEF TypeOK, aaaRefresh, regVars, wsVars
<1>3. ASSUME NEW t \in Token, aaaLogout(t) PROVE TypeOK'
  BY <1>3, PrunedSessionsType DEF TypeOK, aaaLogout, regVars, wsVars
<1>4. ASSUME NEW t \in Token, NEW sc \in Scope, subscribe(t, sc) PROVE TypeOK'
  <2>1. nextSid \in Sid /\ nextSid' \in 1..MaxSid+1
    BY <1>4 DEF TypeOK, subscribe, Sid
  <2>2. [token |-> t, scope |-> sc, ttl |-> SubLife] \in Subscription
    BY DEF Subscription
  <2>3. subs' \in [Sid -> Subscription \cup {None}]
    BY <1>4, <2>1, <2>2, PrunedSubsType DEF subscribe
  <2>4. QED
    BY <1>4, <2>1, <2>3, PrunedSessionsType DEF TypeOK, subscribe, wsVars
<1>5. ASSUME NEW t \in Token, NEW s \in Sid, refresh(t, s) PROVE TypeOK'
  <2>1. subs' \in [Sid -> Subscription \cup {None}]
    <3>1. CASE PrunedSubs[s] = None
      BY <1>5, <3>1, PrunedSubsType DEF refresh
    <3>2. CASE PrunedSubs[s] # None
      <4>1. PrunedSubs[s] \in Subscription
        BY <3>2, PrunedSubsType
      <4>2. [PrunedSubs[s] EXCEPT !.ttl = SubLife] \in Subscription
        BY <4>1 DEF Subscription
      <4>3. QED
        BY <1>5, <3>2, <4>2, PrunedSubsType DEF refresh
    <3>3. QED
      BY <3>1, <3>2
  <2>2. QED
    BY <1>5, <2>1, PrunedSessionsType DEF TypeOK, refresh, wsVars
<1>6. ASSUME NEW c \in Change, notify(c) PROVE TypeOK'
  <2>1. \A h \in Handler : queue'[h] \in Seq(Event)
    <3>1. TAKE h \in Handler
    <3>. DEFINE e == [sids |-> UNION {Matched(u, c) : u \in {v \in Token : conns[v] = h}},
                      change |-> c, n |-> pushes + 1]
    <3>2. e \in Event
      BY <1>6, EventType DEF notify
    <3>3. queue[h] \in Seq(Event)
      BY DEF TypeOK
    <3>4. queue'[h] = Append(queue[h], e) \/ queue'[h] = queue[h]
      BY <1>6 DEF notify
    <3>. HIDE DEF e
    <3>5. QED
      BY <3>2, <3>3, <3>4
  <2>2. queue' = [h \in Handler |-> queue'[h]]
    BY <1>6 DEF notify
  <2>3. queue' \in [Handler -> Seq(Event)]
    BY <2>1, <2>2
  <2>4. pushes' \in 0..MaxPush
    BY <1>6 DEF notify, TypeOK
  <2>5. QED
    BY <1>6, <2>3, <2>4, PrunedSubsType DEF TypeOK, notify, authVars
<1>7. ASSUME NEW h \in Handler, NEW t \in Token, wsOpen(h, t) PROVE TypeOK'
  BY <1>7, PrunedSessionsType DEF TypeOK, wsOpen, regVars, Phase
<1>8. ASSUME NEW h \in Handler, wsRegister(h) PROVE TypeOK'
  <2>1. queue' \in [Handler -> Seq(Event)]
    <3>1. <<>> \in Seq(Event)
      OBVIOUS
    <3>2. QED
      BY <1>8, <3>1 DEF TypeOK, wsRegister
  <2>2. QED
    BY <1>8, <2>1 DEF TypeOK, wsRegister, authVars, regVars, Phase
<1>9. ASSUME NEW h \in Handler, wsAbort(h) PROVE TypeOK'
  BY <1>9 DEF TypeOK, wsAbort, authVars, regVars, Phase
<1>10. ASSUME NEW h \in Handler, pumpGet(h) PROVE TypeOK'
  <2>1. queue[h] \in Seq(Event) /\ queue[h] # <<>>
    BY <1>10 DEF TypeOK, pumpGet
  <2>2. Head(queue[h]) \in Event /\ Tail(queue[h]) \in Seq(Event)
    BY <2>1
  <2>3. QED
    BY <1>10, <2>2 DEF TypeOK, pumpGet, authVars, regVars
<1>11. ASSUME NEW h \in Handler, pumpSend(h) PROVE TypeOK'
  <2>1. hand[h] \in Event /\ got[h] \in Seq(Event)
    BY <1>11 DEF TypeOK, pumpSend
  <2>2. Append(got[h], hand[h]) \in Seq(Event)
    BY <2>1
  <2>3. got' \in [Handler -> Seq(Event)]
    BY <1>11, <2>2 DEF TypeOK, pumpSend
  <2>4. QED
    BY <1>11, <2>3 DEF TypeOK, pumpSend, authVars, regVars
<1>12. ASSUME NEW h \in Handler, clientClose(h) PROVE TypeOK'
  BY <1>12 DEF TypeOK, clientClose, authVars, regVars, Phase
<1>13. ASSUME NEW h \in Handler, wsTeardown(h) PROVE TypeOK'
  <2>1. subs' \in [Sid -> Subscription \cup {None}]
    BY <1>13, PrunedSubsType DEF wsTeardown
  <2>2. queue' \in [Handler -> Seq(Event)]
    <3>1. <<>> \in Seq(Event)
      OBVIOUS
    <3>2. QED
      BY <1>13, <3>1 DEF TypeOK, wsTeardown
  <2>3. QED
    BY <1>13, <2>1, <2>2 DEF TypeOK, wsTeardown, authVars, Phase
<1>14. CASE Tick
  <2>1. \A n \in 0..SessionLife : Left(n) \in 0..SessionLife
    BY DEF Left
  <2>2. \A n \in 0..SubLife : Left(n) \in 0..SubLife
    BY DEF Left
  <2>3. sessions' \in [Token -> (0..SessionLife) \cup {None}]
    BY <1>14, <2>1 DEF TypeOK, Tick
  <2>4. ASSUME NEW s \in Sid PROVE subs'[s] \in Subscription \cup {None}
    <3>1. CASE subs[s] = None
      BY <1>14, <3>1 DEF Tick
    <3>2. CASE subs[s] # None
      <4>1. subs[s] \in Subscription
        BY <3>2 DEF TypeOK
      <4>2. [subs[s] EXCEPT !.ttl = Left(@)] \in Subscription
        BY <2>2, <4>1 DEF Subscription
      <4>3. QED
        BY <1>14, <3>2, <4>2 DEF Tick
    <3>3. QED
      BY <3>1, <3>2
  <2>5. subs' \in [Sid -> Subscription \cup {None}]
    BY <1>14, <2>4 DEF Tick
  <2>6. QED
    BY <1>14, <2>3, <2>5 DEF TypeOK, Tick, wsVars
<1>15. CASE UNCHANGED vars
  BY <1>15 DEF TypeOK, vars
<1>16. QED
  BY <1>1, <1>2, <1>3, <1>4, <1>5, <1>6, <1>7, <1>8, <1>9, <1>10, <1>11, <1>12,
     <1>13, <1>14, <1>15 DEF Next

(* Every table of the session and subscription modules keeps its shape:    *)
(* in particular no remaining lifetime leaves its range.                   *)
THEOREM TypeCorrect == Spec => []TypeOK
<1>1. Init => TypeOK
  <2>1. <<>> \in Seq(Event)
    OBVIOUS
  <2>2. QED
    BY <2>1, LifeAssumption DEF Init, TypeOK, Phase
<1>2. TypeOK /\ [Next]_vars => TypeOK'
  BY TypeStep
<1>3. QED
  BY <1>1, <1>2, PTL DEF Spec

-----------------------------------------------------------------------------
(* A handler past its lookup knows its token. *)
SockKnown ==
  \A h \in Handler : phase[h] # "new" => sock[h] \in Token

(* The registered handler of a token is one of its own, and not finished.  *)
RegInv == RegisteredAlive /\ SockKnown

LEMMA RegStep ==
  ASSUME TypeOK, RegInv, [Next]_vars
  PROVE  RegInv'
<1>. USE NoneAssumption DEF RegInv
<1>1. ASSUME NEW h \in Handler, NEW t \in Token, wsOpen(h, t) PROVE RegInv'
  BY <1>1 DEF TypeOK, wsOpen, RegisteredAlive, SockKnown
<1>2. ASSUME NEW h \in Handler, wsRegister(h) PROVE RegInv'
  <2>1. sock[h] \in Token /\ conns' = [conns EXCEPT ![sock[h]] = h] /\ sock' = sock
        /\ phase' = [phase EXCEPT ![h] = "open"]
    BY <1>2 DEF wsRegister, SockKnown
  <2>2. QED
    BY <2>1 DEF TypeOK, RegisteredAlive, SockKnown
<1>3. ASSUME NEW h \in Handler, wsAbort(h) PROVE RegInv'
  BY <1>3 DEF TypeOK, wsAbort, RegisteredAlive, SockKnown
<1>4. ASSUME NEW h \in Handler, clientClose(h) PROVE RegInv'
  BY <1>4 DEF TypeOK, clientClose, RegisteredAlive, SockKnown
<1>5. ASSUME NEW h \in Handler, wsTeardown(h) PROVE RegInv'
  <2>1. sock[h] \in Token /\ conns' = [conns EXCEPT ![sock[h]] = None] /\ sock' = sock
        /\ phase' = [phase EXCEPT ![h] = "done"]
    BY <1>5 DEF wsTeardown, SockKnown
  <2>2. QED
    BY <2>1 DEF TypeOK, RegisteredAlive, SockKnown
<1>6. CASE UNCHANGED <<conns, phase, sock>>
  BY <1>6 DEF RegisteredAlive, SockKnown
<1>7. QED
  BY <1>1, <1>2, <1>3, <1>4, <1>5, <1>6
     DEF Next, vars, wsVars, aaaLogin, aaaRefresh, aaaLogout, subscribe, refresh, notify,
         pumpGet, pumpSend, Tick

(* No entry of the connection table ever leads to a handler that finished, *)
(* for any number of sockets per token opening, closing and being replaced.*)
THEOREM RegistrationCorrect == Spec => []RegisteredAlive
<1>1. Init => RegInv
  BY DEF Init, RegInv, RegisteredAlive, SockKnown
<1>2. TypeOK /\ RegInv /\ [Next]_vars => RegInv'
  BY RegStep
<1>3. RegInv => RegisteredAlive
  BY DEF RegInv
<1>4. QED
  BY <1>1, <1>2, <1>3, TypeCorrect, PTL DEF Spec

-----------------------------------------------------------------------------
(* A handler that has not opened yet holds no events. *)
NewIsEmpty ==
  \A h \in Handler : phase[h] = "new" => queue[h] = <<>> /\ hand[h] = None /\ got[h] = <<>>

(* The history variable agrees with the table, and ids above the counter   *)
(* have no owner yet.                                                      *)
OwnerKnown ==
  \A s \in Sid : /\ subs[s] # None => owner[s] = subs[s].token
                 /\ owner[s] # None => s < nextSid

OwnInv == RegInv /\ NewIsEmpty /\ OwnerKnown /\ EventsForOwner

LEMMA GivenType ==
  ASSUME TypeOK, NEW h \in Handler
  PROVE  Given(h) \subseteq Event
<1>1. got[h] \in Seq(Event) /\ queue[h] \in Seq(Event) /\ hand[h] \in Event \cup {None}
  BY DEF TypeOK
<1>2. QED
  BY <1>1 DEF Given

(* The pump moves events on and makes none. *)
LEMMA GetGiven ==
  ASSUME TypeOK, NEW h \in Handler, pumpGet(h)
  PROVE  \A k \in Handler : (Given(k))' \subseteq Given(k)
<1>1. /\ queue[h] \in Seq(Event) /\ queue[h] # <<>> /\ got' = got
      /\ hand' = [hand EXCEPT ![h] = Head(queue[h])]
      /\ queue' = [queue EXCEPT ![h] = Tail(queue[h])]
  BY DEF TypeOK, pumpGet
<1>2. (Given(h))' \subseteq Given(h)
  <2>1. \A i \in 1..Len(Tail(queue[h])) : /\ i + 1 \in 1..Len(queue[h])
                                         /\ Tail(queue[h])[i] = queue[h][i + 1]
    BY <1>1
  <2>2. 1 \in 1..Len(queue[h]) /\ Head(queue[h]) = queue[h][1]
    BY <1>1
  <2>3. queue'[h] = Tail(queue[h]) /\ hand'[h] = Head(queue[h]) /\ got'[h] = got[h]
    BY <1>1 DEF TypeOK
  <2>4. QED
    BY <2>1, <2>2, <2>3 DEF Given
<1>3. \A k \in Handler \ {h} : (Given(k))' = Given(k)
  BY <1>1 DEF TypeOK, Given
<1>4. QED
  BY <1>2, <1>3

LEMMA SendGiven ==
  ASSUME TypeOK, NEW h \in Handler, pumpSend(h)
  PROVE  \A k \in Handler : (Given(k))' \subseteq Given(k)
<1>1. /\ got[h] \in Seq(Event) /\ hand[h] \in Event /\ hand[h] # None /\ queue' = queue
      /\ hand' = [hand EXCEPT ![h] = None]
      /\ got' = got \/ got' = [got EXCEPT ![h] = Append(@, hand[h])]
  BY DEF TypeOK, pumpSend
<1>2. (Given(h))' \subseteq Given(h)
  <2>1. \A i \in 1..Len(got'[h]) : got'[h][i] = hand[h]
                                   \/ \E j \in 1..Len(got[h]) : got'[h][i] = got[h][j]
    <3>1. got'[h] = got[h] \/ got'[h] = Append(got[h], hand[h])
      BY <1>1 DEF TypeOK
    <3>2. QED
      BY <1>1, <3>1
  <2>2. queue'[h] = queue[h] /\ hand'[h] = None
    BY <1>1 DEF TypeOK
  <2>3. QED
    BY <1>1, <2>1, <2>2 DEF Given
<1>3. ASSUME NEW k \in Handler \ {h} PROVE (Given(k))' = Given(k)
  <2>1. got'[k] = got[k] /\ hand'[k] = hand[k] /\ queue'[k] = queue[k]
    BY <1>1 DEF TypeOK
  <2>2. QED
    BY <2>1 DEF Given
<1>4. QED
  BY <1>2, <1>3

(* A step that gives no handler a new event keeps EventsForOwner. *)
LEMMA OwnKept ==
  ASSUME TypeOK, EventsForOwner,
         \A h \in Handler : /\ (Given(h))' \subseteq Given(h)
                            /\ sock'[h] = sock[h] \/ (Given(h))' = {},
         \A s \in Sid : owner[s] # None => owner'[s] = owner[s]
  PROVE  EventsForOwner'
<1>1. SUFFICES ASSUME NEW h \in Handler, NEW e \in (Given(h))', NEW s \in e.sids
               PROVE  owner'[s] # None /\ owner'[s] = sock'[h]
  BY DEF EventsForOwner
<1>2. e \in Given(h) /\ sock'[h] = sock[h]
  OBVIOUS
<1>3. s \in Sid
  BY <1>2, GivenType DEF Event
<1>4. owner[s] # None /\ owner[s] = sock[h]
  BY <1>2 DEF EventsForOwner
<1>5. QED
  BY <1>2, <1>3, <1>4

(* The same for the steps that do not touch the queues at all. *)
LEMMA OwnUntouched ==
  ASSUME TypeOK, EventsForOwner, NewIsEmpty, UNCHANGED <<queue, hand, got>>,
         \A h \in Handler : sock'[h] = sock[h] \/ phase[h] = "new",
         \A s \in Sid : owner[s] # None => owner'[s] = owner[s]
  PROVE  EventsForOwner'
<1>1. \A h \in Handler : (Given(h))' = Given(h)
  BY DEF Given
<1>2. \A h \in Handler : phase[h] = "new" => Given(h) = {}
  BY DEF NewIsEmpty, Given
<1>3. QED
  BY <1>1, <1>2, OwnKept

(* notify adds one event to a queue, and its ids belong to the token whose *)
(* entry led to the handler.                                               *)
LEMMA OwnNotify ==
  ASSUME TypeOK, OwnInv, NEW c \in Change, notify(c)
  PROVE  EventsForOwner'
<1>1. SUFFICES ASSUME NEW h \in Handler, NEW e \in (Given(h))', NEW s \in e.sids
               PROVE  owner[s] # None /\ owner[s] = sock[h]
  BY DEF EventsForOwner, notify
<1>. DEFINE S == {v \in Token : conns[v] = h}
            new == [sids |-> UNION {Matched(u, c) : u \in S}, change |-> c, n |-> pushes + 1]
<1>2. new \in Event
  BY EventType DEF notify
<1>3. queue'[h] = Append(queue[h], new) \/ queue'[h] = queue[h]
  BY DEF notify
<1>4. hand' = hand /\ got' = got
  BY DEF notify
<1>5. queue[h] \in Seq(Event)
  BY DEF TypeOK
<1>. HIDE DEF new
<1>6. e \in Given(h) \/ e = new
  <2>1. CASE queue'[h] = queue[h]
    BY <1>4, <2>1 DEF Given
  <2>2. CASE queue'[h] = Append(queue[h], new)
    <3>1. \A i \in 1..Len(queue'[h]) : queue'[h][i] = new
                \/ \E j \in 1..Len(queue[h]) : queue'[h][i] = queue[h][j]
      BY <1>2, <1>5, <2>2
    <3>2. QED
      BY <1>4, <3>1 DEF Given
  <2>3. QED
    BY <1>3, <2>1, <2>2
<1>7. CASE e \in Given(h)
  BY <1>7 DEF OwnInv, EventsForOwner
<1>8. CASE e = new
  <2>1. PICK u \in S : s \in Matched(u, c)
    BY <1>8 DEF new
  <2>2. s \in Sid /\ PrunedSubs[s] # None /\ PrunedSubs[s].token = u
    BY <2>1 DEF Matched
  <2>3. subs[s] # None /\ subs[s].token = u
    BY <2>2, PrunedSubsType
  <2>4. owner[s] = u
    BY <2>2, <2>3 DEF OwnInv, OwnerKnown
  <2>5. conns[u] = h /\ u \in Token /\ h # None
    BY <2>1, NoneAssumption
  <2>6. sock[h] = u
    BY <2>5 DEF OwnInv, RegInv, RegisteredAlive
  <2>7. QED
    BY <2>4, <2>5, <2>6, NoneAssumption
<1>9. QED
  BY <1>6, <1>7, <1>8

LEMMA OwnStep ==
  ASSUME TypeOK, OwnInv, [Next]_vars
  PROVE  OwnInv'
<1>. USE NoneAssumption
<1>1. RegInv'
  BY RegStep DEF OwnInv
<1>2. NewIsEmpty /\ OwnerKnown /\ EventsForOwner /\ RegisteredAlive
  BY DEF OwnInv, RegInv
<1>3. SUFFICES NewIsEmpty' /\ OwnerKnown' /\ EventsForOwner'
  BY <1>1 DEF OwnInv
<1>4. ASSUME NEW t \in Token, NEW sc \in Scope, subscribe(t, sc)
      PROVE  NewIsEmpty' /\ OwnerKnown' /\ EventsForOwner'
  <2>1. nextSid \in Sid /\ nextSid' = nextSid + 1 /\ owner' = [owner EXCEPT ![nextSid] = t]
        /\ subs' = [PrunedSubs EXCEPT ![nextSid] = [token |-> t, scope |-> sc, ttl |-> SubLife]]
    BY <1>4, LifeAssumption DEF TypeOK, subscribe, Sid
  <2>2. owner[nextSid] = None
    BY <1>2, <2>1 DEF OwnerKnown, Sid
  <2>3. EventsForOwner'
    BY <1>2, <1>4, <2>1, <2>2, OwnUntouched DEF TypeOK, subscribe, wsVars
  <2>4. OwnerKnown'
    <3>1. SUFFICES ASSUME NEW s \in Sid
                   PROVE  /\ subs'[s] # None => owner'[s] = subs'[s].token
                          /\ owner'[s] # None => s < nextSid'
      BY DEF OwnerKnown
    <3>2. CASE s = nextSid
      <4>1. subs'[s] = [token |-> t, scope |-> sc, ttl |-> SubLife]
        BY <2>1, <3>2, PrunedSubsType
      <4>2. owner'[s] = t
        BY <2>1, <3>2 DEF TypeOK
      <4>3. s < nextSid'
        BY <2>1, <3>2 DEF Sid
      <4>4. QED
        BY <4>1, <4>2, <4>3
    <3>3. CASE s # nextSid
      BY <1>2, <2>1, <3>3, PrunedSubsType DEF TypeOK, OwnerKnown, Sid
    <3>4. QED
      BY <3>2, <3>3
  <2>5. NewIsEmpty'
    BY <1>2, <1>4 DEF NewIsEmpty, subscribe, wsVars
  <2>6. QED
    BY <2>3, <2>4, <2>5
<1>5. ASSUME NEW t \in Token, NEW s \in Sid, refresh(t, s)
      PROVE  NewIsEmpty' /\ OwnerKnown' /\ EventsForOwner'
  <2>1. EventsForOwner'
    BY <1>2, <1>5, OwnUntouched DEF refresh, wsVars
  <2>2. \A r \in Sid : subs'[r] # None => subs[r] # None /\ subs'[r].token = subs[r].token
    <3>1. CASE PrunedSubs[s] = None
      BY <1>5, <3>1, PrunedSubsType DEF refresh
    <3>2. CASE PrunedSubs[s] # None
      <4>1. PrunedSubs[s] \in Subscription /\ PrunedSubs[s] = subs[s]
        BY <3>2, PrunedSubsType
      <4>2. [PrunedSubs[s] EXCEPT !.ttl = SubLife].token = PrunedSubs[s].token
        BY <4>1 DEF Subscription
      <4>3. subs' = [PrunedSubs EXCEPT ![s] = [PrunedSubs[s] EXCEPT !.ttl = SubLife]]
        BY <1>5, <3>2 DEF refresh
      <4>4. QED
        BY <3>2, <4>1, <4>2, <4>3, PrunedSubsType
    <3>3. QED
      BY <3>1, <3>2
  <2>3. OwnerKnown'
    BY <1>2, <1>5, <2>2 DEF OwnerKnown, refresh
  <2>4. NewIsEmpty'
    BY <1>2, <1>5 DEF NewIsEmpty, refresh, wsVars
  <2>5. QED
    BY <2>1, <2>3, <2>4
<1>6. ASSUME NEW c \in Change, notify(c)
      PROVE  NewIsEmpty' /\ OwnerKnown' /\ EventsForOwner'
  <2>1. EventsForOwner'
    BY <1>6, OwnNotify
  <2>2. OwnerKnown'
    BY <1>2, <1>6, PrunedSubsType DEF OwnerKnown, notify
  <2>3. NewIsEmpty'
    <3>1. \A h \in Handler : phase[h] = "new" => queue'[h] = queue[h]
      BY <1>2, <1>6 DEF notify, RegisteredAlive
    <3>2. QED
      BY <1>2, <1>6, <3>1 DEF NewIsEmpty, notify
  <2>4. QED
    BY <2>1, <2>2, <2>3
<1>7. ASSUME NEW h \in Handler, NEW t \in Token, wsOpen(h, t)
      PROVE  NewIsEmpty' /\ OwnerKnown' /\ EventsForOwner'
  <2>1. EventsForOwner'
    BY <1>2, <1>7, OwnUntouched DEF TypeOK, wsOpen, regVars
  <2>2. QED
    BY <1>2, <1>7, <2>1 DEF TypeOK, wsOpen, regVars, NewIsEmpty, OwnerKnown
<1>8. ASSUME NEW h \in Handler, wsRegister(h) \/ wsTeardown(h)
      PROVE  NewIsEmpty' /\ OwnerKnown' /\ EventsForOwner'
  <2>1. /\ sock' = sock /\ owner' = owner /\ nextSid' = nextSid /\ got' = got
        /\ queue' = [queue EXCEPT ![h] = <<>>]
        /\ hand' = hand \/ hand' = [hand EXCEPT ![h] = None]
        /\ phase' = [phase EXCEPT ![h] = "open"] \/ phase' = [phase EXCEPT ![h] = "done"]
    BY <1>8 DEF wsRegister, wsTeardown, regVars, authVars
  <2>2. \A s \in Sid : subs'[s] # None => subs'[s] = subs[s]
    BY <1>8, PrunedSubsType DEF wsRegister, wsTeardown, regVars
  <2>3. \A k \in Handler : (Given(k))' \subseteq Given(k)
    BY <2>1 DEF TypeOK, Given
  <2>4. EventsForOwner'
    BY <1>2, <2>1, <2>3, OwnKept
  <2>5. OwnerKnown'
    BY <1>2, <2>1, <2>2 DEF OwnerKnown
  <2>6. NewIsEmpty'
    BY <1>2, <2>1 DEF TypeOK, NewIsEmpty
  <2>7. QED
    BY <2>4, <2>5, <2>6
<1>9. ASSUME NEW h \in Handler, wsAbort(h) \/ clientClose(h)
      PROVE  NewIsEmpty' /\ OwnerKnown' /\ EventsForOwner'
  <2>1. UNCHANGED <<queue, hand, got, sock, regVars>>
    BY <1>9 DEF wsAbort, clientClose
  <2>2. EventsForOwner'
    BY <1>2, <2>1, OwnUntouched DEF regVars
  <2>3. NewIsEmpty'
    BY <1>2, <1>9, <2>1 DEF TypeOK, wsAbort, clientClose, NewIsEmpty
  <2>4. QED
    BY <1>2, <2>1, <2>2, <2>3 DEF OwnerKnown, regVars
<1>10. ASSUME NEW h \in Handler, pumpGet(h)
       PROVE  NewIsEmpty' /\ OwnerKnown' /\ EventsForOwner'
  <2>1. UNCHANGED <<sock, phase, got, regVars>> /\ phase[h] # "new"
        /\ \A k \in Handler \ {h} : queue'[k] = queue[k] /\ hand'[k] = hand[k]
    BY <1>10 DEF TypeOK, pumpGet
  <2>2. EventsForOwner'
    BY <1>2, <1>10, <2>1, GetGiven, OwnKept DEF regVars
  <2>3. NewIsEmpty'
    BY <1>2, <2>1 DEF NewIsEmpty
  <2>4. QED
    BY <1>2, <2>1, <2>2, <2>3 DEF OwnerKnown, regVars
<1>11. ASSUME NEW h \in Handler, pumpSend(h)
       PROVE  NewIsEmpty' /\ OwnerKnown' /\ EventsForOwner'
  <2>1. UNCHANGED <<sock, phase, queue, regVars>> /\ phase[h] # "new"
        /\ \A k \in Handler \ {h} : got'[k] = got[k] /\ hand'[k] = hand[k]
    BY <1>11 DEF TypeOK, pumpSend
  <2>2. EventsForOwner'
    BY <1>2, <1>11, <2>1, SendGiven, OwnKept DEF regVars
  <2>3. NewIsEmpty'
    BY <1>2, <2>1 DEF NewIsEmpty
  <2>4. QED
    BY <1>2, <2>1, <2>2, <2>3 DEF OwnerKnown, regVars
<1>12. CASE Tick
  <2>1. EventsForOwner'
    BY <1>2, <1>12, OwnUntouched DEF Tick, wsVars
  <2>2. \A s \in Sid : subs'[s] # None => subs[s] # None /\ subs'[s].token = subs[s].token
    <3>1. SUFFICES ASSUME NEW s \in Sid, subs'[s] # None
                   PROVE  subs[s] # None /\ subs'[s].token = subs[s].token
      OBVIOUS
    <3>2. subs[s] # None /\ subs'[s] = [subs[s] EXCEPT !.ttl = Left(@)]
      BY <1>12, <3>1 DEF Tick
    <3>3. subs[s] \in Subscription
      BY <3>2 DEF TypeOK
    <3>4. QED
      BY <3>2, <3>3 DEF Subscription
  <2>3. QED
    BY <1>2, <1>12, <2>1, <2>2 DEF Tick, wsVars, OwnerKnown, NewIsEmpty
<1>13. CASE UNCHANGED <<regVars, wsVars>>
  <2>1. EventsForOwner'
    BY <1>2, <1>13, OwnUntouched DEF regVars, wsVars
  <2>2. QED
    BY <1>2, <1>13, <2>1 DEF regVars, wsVars, OwnerKnown, NewIsEmpty
<1>14. QED
  BY <1>4, <1>5, <1>6, <1>7, <1>8, <1>9, <1>10, <1>11, <1>12, <1>13
     DEF Next, vars, regVars, wsVars, aaaLogin, aaaRefresh, aaaLogout

(* No client is ever told about a subscription of another token, however   *)
(* many sessions, sockets, expiries and reconnects there were.             *)
THEOREM OwnershipCorrect == Spec => []EventsForOwner
<1>1. Init => OwnInv
  BY DEF Init, OwnInv, RegInv, RegisteredAlive, SockKnown, NewIsEmpty, OwnerKnown,
         EventsForOwner, Given
<1>2. TypeOK /\ OwnInv /\ [Next]_vars => OwnInv'
  BY OwnStep
<1>3. OwnInv => EventsForOwner
  BY DEF OwnInv
<1>4. QED
  BY <1>1, <1>2, <1>3, TypeCorrect, PTL DEF Spec

-----------------------------------------------------------------------------
LEMMA ExpiredStep ==
  ASSUME TypeOK, Next, NEW s \in Sid, s < nextSid, subs[s] = None \/ Expired(s)
  PROVE  subs'[s] = None \/ subs'[s].ttl = 0
<1>1. PrunedSubs[s] = None
  BY DEF PrunedSubs
<1>2. PrunedSubs \in [Sid -> Subscription \cup {None}]
  BY PrunedSubsType
<1>3. ASSUME NEW t \in Token, NEW sc \in Scope, subscribe(t, sc)
      PROVE  subs'[s] = None
  <2>1. nextSid # s
    BY DEF TypeOK, Sid
  <2>2. QED
    BY <1>1, <1>2, <1>3, <2>1 DEF subscribe
<1>4. ASSUME NEW t \in Token, NEW r \in Sid, refresh(t, r)
      PROVE  subs'[s] = None
  BY <1>1, <1>2, <1>4 DEF refresh
<1>5. ASSUME NEW c \in Change, notify(c) PROVE subs'[s] = None
  BY <1>1, <1>5 DEF notify
<1>6. ASSUME NEW h \in Handler, wsTeardown(h) PROVE subs'[s] = None
  BY <1>1, <1>6 DEF wsTeardown
<1>7. CASE subs' = subs \/ Tick
  <2>1. CASE subs[s] = None
    BY <1>7, <2>1 DEF Tick
  <2>2. CASE subs[s] # None
    <3>1. subs[s] \in Subscription /\ subs[s].ttl = 0
      BY <2>2, LifeAssumption DEF TypeOK, Expired, Subscription
    <3>2. [subs[s] EXCEPT !.ttl = Left(@)].ttl = 0
      BY <3>1 DEF Subscription, Left
    <3>3. subs'[s] = subs[s] \/ subs'[s] = [subs[s] EXCEPT !.ttl = Left(@)]
      BY <1>7, <2>2 DEF Tick
    <3>4. QED
      BY <3>1, <3>2, <3>3
  <2>3. QED
    BY <2>1, <2>2
<1>8. QED
  BY <1>3, <1>4, <1>5, <1>6, <1>7
     DEF Next, regVars, aaaLogin, aaaRefresh, aaaLogout, wsOpen, wsRegister, wsAbort,
         pumpGet, pumpSend, clientClose

(* No call revives a subscription whose lifetime ran out or that was       *)
(* dropped, and no id is ever given out twice.                             *)
THEOREM ExpiryCorrect == Spec => ExpiredStaysExpired
<1>. DEFINE A == \A s \in Sid : s < nextSid /\ (subs[s] = None \/ Expired(s)) =>
                                 subs'[s] = None \/ subs'[s].ttl = 0
<1>1. TypeOK /\ [Next]_vars => [A]_vars
  BY ExpiredStep
<1>2. QED
  BY <1>1, TypeCorrect, PTL DEF Spec, ExpiredStaysExpired

(* A token whose session ended is never accepted again, whatever it sends. *)
THEOREM LogoutCorrect == Spec => LogoutIsFinal
<1>. DEFINE A == \A t \in Token : t \in issued /\ ~ Live(t) =>
                                   sessions'[t] = None \/ sessions'[t] = 0
<1>1. TypeOK /\ [Next]_vars => [A]_vars
  <2>1. SUFFICES ASSUME TypeOK, Next, NEW t \in Token, t \in issued, ~ Live(t)
                 PROVE  sessions'[t] = None \/ sessions'[t] = 0
    OBVIOUS
  <2>2. PrunedSessions[t] = None /\ (sessions[t] = None \/ sessions[t] = 0)
    BY <2>1 DEF Live, PrunedSessions
  <2>3. PrunedSessions \in [Token -> (0..SessionLife) \cup {None}]
    BY <2>1, PrunedSessionsType
  <2>4. ASSUME NEW u \in Token, aaaLogin(u) \/ aaaRefresh(u)
        PROVE  sessions'[t] = None
    BY <2>1, <2>2, <2>3, <2>4 DEF aaaLogin, aaaRefresh, Live
  <2>5. ASSUME NEW u \in Token, aaaLogout(u) PROVE sessions'[t] = None
    BY <2>2, <2>3, <2>5 DEF aaaLogout
  <2>6. CASE sessions' = PrunedSessions \/ sessions' = sessions
    BY <2>2, <2>6
  <2>7. CASE Tick
    BY <2>2, <2>7 DEF Tick, Left
  <2>8. QED
    BY <2>1, <2>4, <2>5, <2>6, <2>7
       DEF Next, authVars, subscribe, refresh, notify, wsOpen, wsRegister, wsAbort,
           pumpGet, pumpSend, clientClose, wsTeardown
<1>2. QED
  BY <1>1, TypeCorrect, PTL DEF Spec, LogoutIsFinal

-----------------------------------------------------------------------------
(* The order of the events at a handler, by the three places they are in:  *)
(* received, in hand, queued.                                              *)
Sorted(s) == \A i, j \in 1..Len(s) : i < j => s[i].n < s[j].n

Earlier(s, r) == \A i \in 1..Len(s) : \A j \in 1..Len(r) : s[i].n < r[j].n

InHand(h) == IF hand[h] = None THEN <<>> ELSE <<hand[h]>>

PlacesSorted(h) ==
  /\ Sorted(got[h]) /\ Sorted(queue[h])
  /\ Earlier(got[h], InHand(h)) /\ Earlier(got[h], queue[h]) /\ Earlier(InHand(h), queue[h])

(* No event is newer than the last push, and two handlers of one token     *)
(* have none in common.                                                    *)
OrdInv ==
  /\ \A h \in Handler : PlacesSorted(h) /\ \A e \in Given(h) : e.n <= pushes
  /\ \A h, k \in Handler : h # k /\ sock[h] = sock[k] /\ sock[h] # None =>
       \A e \in Given(h) : \A f \in Given(k) : e.n # f.n

(* Two sorted sequences of which the first comes earlier are one.          *)
LEMMA SortedConcat ==
  ASSUME NEW a \in Seq(Event), NEW b \in Seq(Event), Sorted(a), Sorted(b), Earlier(a, b)
  PROVE  Sorted(a \o b)
<1>1. /\ Len(a) \in Nat /\ Len(b) \in Nat /\ Len(a \o b) = Len(a) + Len(b)
      /\ \A i \in 1..Len(a \o b) : (a \o b)[i] = IF i <= Len(a) THEN a[i] ELSE b[i - Len(a)]
  OBVIOUS
<1>2. SUFFICES ASSUME NEW i \in 1..Len(a) + Len(b), NEW j \in 1..Len(a) + Len(b), i < j
               PROVE  (a \o b)[i].n < (a \o b)[j].n
  BY <1>1 DEF Sorted
<1>3. CASE j <= Len(a)
  <2>1. i \in 1..Len(a) /\ j \in 1..Len(a)
    BY <1>1, <1>2, <1>3
  <2>2. a[i].n < a[j].n
    BY <1>2, <2>1 DEF Sorted
  <2>3. (a \o b)[i] = a[i] /\ (a \o b)[j] = a[j]
    BY <1>1, <2>1
  <2>4. QED
    BY <2>2, <2>3
<1>4. CASE i <= Len(a) /\ Len(a) < j
  <2>1. i \in 1..Len(a) /\ j - Len(a) \in 1..Len(b)
    BY <1>1, <1>2, <1>4
  <2>2. a[i].n < b[j - Len(a)].n
    BY <2>1 DEF Earlier
  <2>3. (a \o b)[i] = a[i] /\ (a \o b)[j] = b[j - Len(a)]
    BY <1>1, <1>2, <1>4
  <2>4. QED
    BY <2>2, <2>3
<1>5. CASE Len(a) < i
  <2>1. i - Len(a) \in 1..Len(b) /\ j - Len(a) \in 1..Len(b) /\ i - Len(a) < j - Len(a)
    BY <1>1, <1>2, <1>5
  <2>2. b[i - Len(a)].n < b[j - Len(a)].n
    BY <2>1 DEF Sorted
  <2>3. (a \o b)[i] = b[i - Len(a)] /\ (a \o b)[j] = b[j - Len(a)]
    BY <1>1, <1>2, <1>5
  <2>4. QED
    BY <2>2, <2>3
<1>6. j <= Len(a) \/ (i <= Len(a) /\ Len(a) < j) \/ Len(a) < i
  BY <1>1, <1>2
<1>7. QED
  BY <1>3, <1>4, <1>5, <1>6

LEMMA EarlierConcat ==
  ASSUME NEW a \in Seq(Event), NEW b \in Seq(Event), NEW c \in Seq(Event),
         Earlier(a, c), Earlier(b, c)
  PROVE  Earlier(a \o b, c)
<1>1. /\ Len(a) \in Nat /\ Len(b) \in Nat /\ Len(a \o b) = Len(a) + Len(b)
      /\ \A i \in 1..Len(a \o b) : (a \o b)[i] = IF i <= Len(a) THEN a[i] ELSE b[i - Len(a)]
  OBVIOUS
<1>2. SUFFICES ASSUME NEW i \in 1..Len(a) + Len(b), NEW j \in 1..Len(c)
               PROVE  (a \o b)[i].n < c[j].n
  BY <1>1 DEF Earlier
<1>3. CASE i <= Len(a)
  BY <1>1, <1>2, <1>3 DEF Earlier
<1>4. CASE Len(a) < i
  <2>1. i - Len(a) \in 1..Len(b) /\ (a \o b)[i] = b[i - Len(a)]
    BY <1>1, <1>2, <1>4
  <2>2. QED
    BY <2>1 DEF Earlier
<1>5. QED
  BY <1>1, <1>2, <1>3, <1>4

LEMMA StreamSorted ==
  ASSUME TypeOK, NEW h \in Handler, PlacesSorted(h)
  PROVE  Sorted(Stream(h))
<1>1. /\ got[h] \in Seq(Event) /\ queue[h] \in Seq(Event) /\ InHand(h) \in Seq(Event)
      /\ Sorted(InHand(h))
  BY DEF TypeOK, InHand, Sorted
<1>2. Sorted(got[h] \o InHand(h)) /\ got[h] \o InHand(h) \in Seq(Event)
  BY <1>1, SortedConcat DEF PlacesSorted
<1>3. Earlier(got[h] \o InHand(h), queue[h])
  BY <1>1, EarlierConcat DEF PlacesSorted
<1>4. Sorted((got[h] \o InHand(h)) \o queue[h])
  BY <1>1, <1>2, <1>3, SortedConcat DEF PlacesSorted
<1>5. (got[h] \o InHand(h)) \o queue[h] = Stream(h)
  BY <1>1 DEF Stream, InHand
<1>6. QED
  BY <1>4, <1>5

LEMMA ConcatWithin ==
  ASSUME NEW S, NEW a \in Seq(S), NEW b \in Seq(S), NEW T,
         \A i \in 1..Len(a) : a[i] \in T, \A i \in 1..Len(b) : b[i] \in T
  PROVE  /\ a \o b \in Seq(S)
         /\ \A i \in 1..Len(a \o b) : (a \o b)[i] \in T
<1>1. /\ Len(a) \in Nat /\ Len(b) \in Nat /\ Len(a \o b) = Len(a) + Len(b)
      /\ \A i \in 1..Len(a) : (a \o b)[i] = a[i]
      /\ \A i \in (Len(a) + 1)..(Len(a) + Len(b)) : (a \o b)[i] = b[i - Len(a)]
  OBVIOUS
<1>2. ASSUME NEW i \in 1..Len(a \o b)
      PROVE  (a \o b)[i] \in T
  <2>1. CASE i <= Len(a)
    <3>1. i \in 1..Len(a)
      BY <1>1, <2>1
    <3>2. QED
      BY <1>1, <3>1
  <2>2. CASE i > Len(a)
    <3>1. i \in (Len(a) + 1)..(Len(a) + Len(b)) /\ i - Len(a) \in 1..Len(b)
      BY <1>1, <2>2
    <3>2. QED
      BY <1>1, <3>1
  <2>3. QED
    BY <1>1, <2>1, <2>2
<1>3. QED
  BY <1>2

LEMMA StreamGiven ==
  ASSUME TypeOK, NEW h \in Handler
  PROVE  \A i \in 1..Len(Stream(h)) : Stream(h)[i] \in Given(h)
<1>. DEFINE g == got[h]
            m == InHand(h)
            q == queue[h]
<1>1. g \in Seq(Event) /\ q \in Seq(Event) /\ m \in Seq(Event)
  BY DEF TypeOK, InHand
<1>2. /\ \A i \in 1..Len(g) : g[i] \in Given(h)
      /\ \A i \in 1..Len(m) : m[i] \in Given(h)
      /\ \A i \in 1..Len(q) : q[i] \in Given(h)
  BY <1>1 DEF Given, InHand
<1>3. Stream(h) = g \o m \o q
  BY DEF Stream, InHand
<1>. HIDE DEF g, m, q
<1>4. m \o q \in Seq(Event) /\ \A i \in 1..Len(m \o q) : (m \o q)[i] \in Given(h)
  BY <1>1, <1>2, ConcatWithin
<1>5. \A i \in 1..Len(g \o (m \o q)) : (g \o (m \o q))[i] \in Given(h)
  BY <1>1, <1>2, <1>4, ConcatWithin
<1>6. (g \o m) \o q = g \o (m \o q)
  BY <1>1
<1>7. QED
  BY <1>3, <1>5, <1>6

(* A step that takes events away or moves them on, and notifies nobody.    *)
LEMMA OrdKept ==
  ASSUME TypeOK, OrdInv, pushes' = pushes,
         \A h \in Handler : /\ (PlacesSorted(h))'
                            /\ (Given(h))' \subseteq Given(h)
                            /\ sock'[h] = sock[h] \/ (Given(h))' = {}
  PROVE  OrdInv'
<1>1. \A h \in Handler : \A e \in (Given(h))' : e.n <= pushes'
  BY DEF OrdInv
<1>2. ASSUME NEW h \in Handler, NEW k \in Handler, h # k, sock'[h] = sock'[k], sock'[h] # None,
             NEW e \in (Given(h))', NEW f \in (Given(k))'
      PROVE  e.n # f.n
  <2>1. sock'[h] = sock[h] /\ sock'[k] = sock[k] /\ e \in Given(h) /\ f \in Given(k)
    OBVIOUS
  <2>2. QED
    BY <1>2, <2>1 DEF OrdInv
<1>3. QED
  BY <1>1, <1>2 DEF OrdInv

LEMMA OrdGet ==
  ASSUME TypeOK, OrdInv, NEW h \in Handler, pumpGet(h)
  PROVE  OrdInv'
<1>. DEFINE q == queue[h]
<1>1. /\ q \in Seq(Event) /\ q # <<>> /\ hand[h] = None /\ got' = got
      /\ hand' = [hand EXCEPT ![h] = Head(q)] /\ queue' = [queue EXCEPT ![h] = Tail(q)]
      /\ sock' = sock /\ pushes' = pushes
  BY DEF TypeOK, pumpGet
<1>2. ASSUME NEW k \in Handler \ {h} PROVE (PlacesSorted(k))'
  <2>1. got'[k] = got[k] /\ queue'[k] = queue[k] /\ (InHand(k))' = InHand(k)
    BY <1>1 DEF TypeOK, InHand
  <2>2. QED
    BY <2>1 DEF OrdInv, PlacesSorted
<1>3. (PlacesSorted(h))'
  <2>1. got'[h] = got[h] /\ queue'[h] = Tail(q) /\ (InHand(h))' = <<Head(q)>>
    <3>1. Head(q) # None
      BY <1>1, NoneAssumption
    <3>2. QED
      BY <1>1, <3>1 DEF TypeOK, InHand
  <2>2. Sorted(got[h]) /\ Sorted(q) /\ Earlier(got[h], q)
    BY DEF OrdInv, PlacesSorted
  <2>3. /\ \A i \in 1..Len(Tail(q)) : i + 1 \in 1..Len(q) /\ Tail(q)[i] = q[i + 1]
        /\ 1 \in 1..Len(q) /\ Head(q) = q[1] /\ Len(Tail(q)) \in Nat
    BY <1>1
  <2>4. Sorted(Tail(q)) /\ Earlier(got[h], Tail(q))
    BY <2>2, <2>3 DEF Sorted, Earlier
  <2>5. Earlier(got[h], <<Head(q)>>) /\ Earlier(<<Head(q)>>, Tail(q))
    <3>1. \A i \in 1..Len(Tail(q)) : q[1].n < Tail(q)[i].n
      BY <2>2, <2>3 DEF Sorted
    <3>2. \A i \in 1..Len(got[h]) : got[h][i].n < q[1].n
      BY <2>2, <2>3 DEF Earlier
    <3>3. QED
      BY <2>3, <3>1, <3>2 DEF Earlier
  <2>6. QED
    BY <2>1, <2>2, <2>4, <2>5 DEF PlacesSorted
<1>4. QED
  BY <1>1, <1>2, <1>3, GetGiven, OrdKept

LEMMA OrdSend ==
  ASSUME TypeOK, OrdInv, NEW h \in Handler, pumpSend(h)
  PROVE  OrdInv'
<1>. DEFINE e == hand[h]
            g == got[h]
<1>1. /\ g \in Seq(Event) /\ e # None /\ e \in Event /\ queue' = queue
      /\ hand' = [hand EXCEPT ![h] = None]
      /\ got' = got \/ got' = [got EXCEPT ![h] = Append(g, e)]
      /\ sock' = sock /\ pushes' = pushes
  BY DEF TypeOK, pumpSend
<1>2. ASSUME NEW k \in Handler \ {h} PROVE (PlacesSorted(k))'
  <2>1. got'[k] = got[k] /\ queue'[k] = queue[k] /\ (InHand(k))' = InHand(k)
    BY <1>1 DEF TypeOK, InHand
  <2>2. QED
    BY <2>1 DEF OrdInv, PlacesSorted
<1>3. (PlacesSorted(h))'
  <2>1. queue'[h] = queue[h] /\ (InHand(h))' = <<>> /\ InHand(h) = <<e>>
        /\ got'[h] \in {g, Append(g, e)}
    BY <1>1 DEF TypeOK, InHand
  <2>2. Sorted(g) /\ Sorted(queue[h]) /\ Earlier(g, <<e>>) /\ Earlier(g, queue[h])
        /\ Earlier(<<e>>, queue[h])
    BY <2>1 DEF OrdInv, PlacesSorted
  <2>3. \A i \in 1..Len(g) : g[i].n < e.n
    BY <2>2 DEF Earlier
  <2>4. \A j \in 1..Len(queue[h]) : e.n < queue[h][j].n
    BY <2>2 DEF Earlier
  <2>5. Sorted(Append(g, e)) /\ Earlier(Append(g, e), queue[h])
    <3>1. /\ \A i \in 1..Len(g) + 1 : Append(g, e)[i] = IF i = Len(g) + 1 THEN e ELSE g[i]
          /\ Len(Append(g, e)) = Len(g) + 1 /\ Len(g) \in Nat
      BY <1>1
    <3>2. \A i \in 1..Len(g) + 1 : i \in 1..Len(g) \/ i = Len(g) + 1
      BY <3>1
    <3>3. QED
      BY <2>2, <2>3, <2>4, <3>1, <3>2 DEF Sorted, Earlier
  <2>6. Earlier(g, <<>>) /\ Earlier(Append(g, e), <<>>) /\ Earlier(<<>>, queue[h])
    BY DEF Earlier
  <2>7. QED
    BY <2>1, <2>2, <2>5, <2>6 DEF PlacesSorted
<1>4. QED
  BY <1>1, <1>2, <1>3, SendGiven, OrdKept

(* A new connection starts empty, and a torn down one is emptied.          *)
LEMMA OrdClear ==
  ASSUME TypeOK, OrdInv, NEW h \in Handler, wsRegister(h) \/ wsTeardown(h)
  PROVE  OrdInv'
<1>1. /\ sock' = sock /\ got' = got /\ pushes' = pushes
      /\ queue' = [queue EXCEPT ![h] = <<>>]
      /\ hand' = hand \/ hand' = [hand EXCEPT ![h] = None]
  BY DEF wsRegister, wsTeardown
<1>2. \A k \in Handler : (Given(k))' \subseteq Given(k)
  BY <1>1 DEF TypeOK, Given
<1>3. \A k \in Handler : /\ got'[k] = got[k] /\ queue'[k] \in {queue[k], <<>>}
                         /\ (InHand(k))' \in {InHand(k), <<>>}
  BY <1>1 DEF TypeOK, InHand
<1>4. ASSUME NEW k \in Handler PROVE (PlacesSorted(k))'
  <2>1. PlacesSorted(k)
    BY DEF OrdInv
  <2>2. Sorted(<<>>) /\ \A s : Earlier(s, <<>>) /\ Earlier(<<>>, s)
    BY DEF Sorted, Earlier
  <2>3. QED
    BY <1>3, <2>1, <2>2 DEF PlacesSorted
<1>5. QED
  BY <1>1, <1>2, <1>4, OrdKept

(* What notify appends at a handler is newer than all that is there, and   *)
(* goes to one handler of a token.                                         *)
LEMMA OrdNotify ==
  ASSUME TypeOK, RegisteredAlive, OrdInv, NEW c \in Change, notify(c)
  PROVE  OrdInv'
<1>. DEFINE told(h) == \E u \in Token : conns[u] = h /\ Matched(u, c) # {}
            new(h)  == [sids |-> UNION {Matched(u, c) : u \in {v \in Token : conns[v] = h}},
                        change |-> c, n |-> pushes + 1]
<1>1. /\ sock' = sock /\ got' = got /\ hand' = hand /\ pushes' = pushes + 1
      /\ \A h \in Handler : queue'[h] = IF told(h) THEN Append(queue[h], new(h)) ELSE queue[h]
  BY DEF notify
<1>2. \A h \in Handler : new(h) \in Event /\ new(h).n = pushes + 1
  BY EventType DEF notify
<1>3. \A h \in Handler : told(h) => \E u \in Token : conns[u] = h /\ sock[h] = u
  BY NoneAssumption DEF RegisteredAlive
<1>. HIDE DEF new, told
<1>4. pushes \in Nat /\ pushes' = pushes + 1
  BY <1>1, LifeAssumption DEF TypeOK
<1>5. ASSUME NEW h \in Handler
      PROVE  /\ (PlacesSorted(h))'
             /\ \A e \in (Given(h))' : e \in Given(h) \/ (told(h) /\ e = new(h))
  <2>. DEFINE q == queue[h]
              e == new(h)
  <2>1. q \in Seq(Event) /\ got'[h] = got[h] /\ hand'[h] = hand[h] /\ (InHand(h))' = InHand(h)
    BY <1>1 DEF TypeOK, InHand
  <2>2. PlacesSorted(h) /\ \A f \in Given(h) : f.n < e.n
    <3>1. Given(h) \subseteq Event
      BY GivenType
    <3>2. \A f \in Given(h) : f.n \in Nat /\ f.n <= pushes
      BY <3>1, LifeAssumption DEF OrdInv, Event
    <3>3. QED
      BY <1>2, <1>4, <3>2 DEF OrdInv
  <2>3. CASE ~ told(h)
    BY <1>1, <2>1, <2>2, <2>3 DEF PlacesSorted, Given
  <2>4. CASE told(h)
    <3>1. queue'[h] = Append(q, e)
      BY <1>1, <2>4
    <3>. HIDE DEF e
    <3>2. /\ \A i \in 1..Len(q) + 1 : Append(q, e)[i] = IF i = Len(q) + 1 THEN e ELSE q[i]
          /\ Len(Append(q, e)) = Len(q) + 1 /\ Len(q) \in Nat
      BY <2>1
    <3>3. \A i \in 1..Len(q) + 1 : i \in 1..Len(q) \/ i = Len(q) + 1
      BY <3>2
    <3>4. \A i \in 1..Len(q) : q[i].n < e.n
      BY <2>2 DEF Given
    <3>5. \A i \in 1..Len(got[h]) : got[h][i].n < e.n
      BY <2>2 DEF Given
    <3>6. \A i \in 1..Len(InHand(h)) : InHand(h)[i].n < e.n
      BY <2>2 DEF Given, InHand
    <3>7. Sorted(Append(q, e))
      BY <2>2, <3>2, <3>3, <3>4 DEF PlacesSorted, Sorted
    <3>8. Earlier(got[h], Append(q, e)) /\ Earlier(InHand(h), Append(q, e))
      BY <2>2, <3>2, <3>3, <3>5, <3>6 DEF PlacesSorted, Earlier
    <3>9. (PlacesSorted(h))'
      BY <2>1, <2>2, <3>1, <3>7, <3>8 DEF PlacesSorted
    <3>10. \A f \in (Given(h))' : f \in Given(h) \/ f = e
      BY <2>1, <3>1, <3>2, <3>3 DEF Given
    <3>11. QED
      BY <2>4, <3>9, <3>10 DEF e
  <2>5. QED
    BY <2>3, <2>4
<1>6. ASSUME NEW h \in Handler, NEW e \in (Given(h))' PROVE e.n <= pushes'
  <2>1. CASE e \in Given(h)
    <3>1. e.n \in Nat /\ e.n <= pushes
      BY <2>1, GivenType, LifeAssumption DEF OrdInv, Event
    <3>2. QED
      BY <1>4, <3>1
  <2>2. QED
    BY <1>2, <1>4, <1>5, <1>6, <2>1
<1>7. ASSUME NEW h \in Handler, NEW k \in Handler, h # k, sock'[h] = sock'[k], sock'[h] # None,
             NEW e \in (Given(h))', NEW f \in (Given(k))'
      PROVE  e.n # f.n
  <2>1. ~ (told(h) /\ told(k))
    BY <1>1, <1>3, <1>7
  <2>2. \A j \in Handler : \A g \in Given(j) : g.n \in Nat /\ g.n <= pushes
    BY GivenType, LifeAssumption DEF OrdInv, Event
  <2>3. CASE e \in Given(h) /\ f \in Given(k)
    BY <1>1, <1>7, <2>3 DEF OrdInv
  <2>4. CASE told(h) /\ e = new(h)
    BY <1>2, <1>4, <1>5, <1>7, <2>1, <2>2, <2>4
  <2>5. CASE told(k) /\ f = new(k)
    BY <1>2, <1>4, <1>5, <1>7, <2>1, <2>2, <2>5
  <2>6. QED
    BY <1>5, <1>7, <2>3, <2>4, <2>5
<1>8. QED
  BY <1>5, <1>6, <1>7 DEF OrdInv

LEMMA OrdStep ==
  ASSUME TypeOK, OwnInv, OrdInv, [Next]_vars
  PROVE  OrdInv'
<1>1. ASSUME UNCHANGED <<queue, hand, got, sock, pushes>> PROVE OrdInv'
  BY <1>1 DEF OrdInv, PlacesSorted, InHand, Given
<1>2. ASSUME NEW h \in Handler, NEW t \in Token, wsOpen(h, t) PROVE OrdInv'
  <2>1. UNCHANGED <<queue, hand, got, pushes>> /\ \A k \in Handler : k # h => sock'[k] = sock[k]
    BY <1>2 DEF TypeOK, wsOpen
  <2>2. \A k \in Handler : (PlacesSorted(k))' /\ (Given(k))' = Given(k)
    BY <2>1 DEF OrdInv, PlacesSorted, InHand, Given
  <2>3. Given(h) = {}
    BY <1>2 DEF OwnInv, NewIsEmpty, wsOpen, Given
  <2>4. QED
    BY <2>1, <2>2, <2>3, OrdKept
<1>3. ASSUME NEW c \in Change, notify(c) PROVE OrdInv'
  BY <1>3, OrdNotify DEF OwnInv, RegInv
<1>4. ASSUME NEW h \in Handler, wsRegister(h) \/ wsTeardown(h) PROVE OrdInv'
  BY <1>4, OrdClear
<1>5. ASSUME NEW h \in Handler, pumpGet(h) PROVE OrdInv'
  BY <1>5, OrdGet
<1>6. ASSUME NEW h \in Handler, pumpSend(h) PROVE OrdInv'
  BY <1>6, OrdSend
<1>7. QED
  BY <1>1, <1>2, <1>3, <1>4, <1>5, <1>6
     DEF Next, vars, wsVars, Tick, aaaLogin, aaaRefresh, aaaLogout, subscribe, refresh, wsAbort,
         clientClose

(* Every socket gets its events in the order of the writes, and no token   *)
(* gets one twice, whatever reconnects and teardowns come between.         *)
THEOREM OrderCorrect == Spec => []InCommitOrder
<1>1. Init => OwnInv /\ OrdInv
  BY DEF Init, OwnInv, RegInv, RegisteredAlive, SockKnown, NewIsEmpty, OwnerKnown,
         EventsForOwner, Given, OrdInv, PlacesSorted, Sorted, Earlier, InHand
<1>2. TypeOK /\ OwnInv /\ OrdInv /\ [Next]_vars => OwnInv' /\ OrdInv'
  BY OwnStep, OrdStep
<1>3. TypeOK /\ OrdInv => InCommitOrder
  <2>1. SUFFICES ASSUME TypeOK, OrdInv PROVE InCommitOrder
    OBVIOUS
  <2>2. ASSUME NEW h \in Handler, NEW i \in 1..Len(Stream(h)), NEW j \in 1..Len(Stream(h)), i < j
        PROVE  Stream(h)[i].n < Stream(h)[j].n
    BY <2>1, <2>2, StreamSorted DEF OrdInv, Sorted
  <2>3. ASSUME NEW h \in Handler, NEW k \in Handler, h # k, sock[h] = sock[k], sock[h] # None,
               NEW i \in 1..Len(Stream(h)), NEW j \in 1..Len(Stream(k))
        PROVE  Stream(h)[i].n # Stream(k)[j].n
    BY <2>1, <2>3, StreamGiven DEF OrdInv
  <2>4. QED
    BY <2>2, <2>3 DEF InCommitOrder
<1>4. QED
  BY <1>1, <1>2, <1>3, TypeCorrect, PTL DEF Spec

-----------------------------------------------------------------------------
LEMMA PushStep ==
  ASSUME TypeOK, RegisteredAlive, NEW c \in Change, notify(c), NEW t \in Token, conns[t] # None
  PROVE  LET live == {s \in Sid : /\ subs[s] # None /\ subs[s].ttl > 0
                                  /\ subs[s].token = t /\ Matches(subs[s].scope, c)}
             q == queue[conns[t]]  qq == queue'[conns[t]]
         IN  IF live = {} THEN qq = q
             ELSE /\ Len(qq) = Len(q) + 1
                  /\ qq[Len(qq)].sids = live /\ qq[Len(qq)].change = c
<1>. DEFINE live == {s \in Sid : /\ subs[s] # None /\ subs[s].ttl > 0
                                 /\ subs[s].token = t /\ Matches(subs[s].scope, c)}
            h == conns[t]
            S == {v \in Token : conns[v] = h}
            new == [sids |-> UNION {Matched(u, c) : u \in S}, change |-> c, n |-> pushes + 1]
<1>1. h \in Handler
  BY DEF TypeOK
<1>2. S = {t}
  BY DEF RegisteredAlive
<1>3. Matched(t, c) = live
  <2>1. \A s \in Sid : subs[s] # None => subs[s].ttl \in Nat
    BY LifeAssumption DEF TypeOK, Subscription
  <2>2. \A s \in Sid : PrunedSubs[s] = IF subs[s] # None /\ subs[s].ttl <= 0 THEN None ELSE subs[s]
    BY DEF PrunedSubs, Expired
  <2>3. \A s \in Sid : PrunedSubs[s] # None <=> (subs[s] # None /\ subs[s].ttl > 0)
    BY <2>1, <2>2
  <2>4. \A s \in Sid : PrunedSubs[s] # None => PrunedSubs[s] = subs[s]
    BY <2>2
  <2>5. QED
    BY <2>3, <2>4 DEF Matched
<1>4. new.sids = live /\ new.change = c
  BY <1>2, <1>3
<1>5. queue'[h] = IF live = {} THEN queue[h] ELSE Append(queue[h], new)
  <2>1. (\E u \in Token : conns[u] = h /\ Matched(u, c) # {}) <=> live # {}
    BY <1>2, <1>3
  <2>2. QED
    BY <1>1, <2>1 DEF notify
<1>6. queue[h] \in Seq(Event)
  BY <1>1 DEF TypeOK
<1>. HIDE DEF live, new, h
<1>7. live # {} => /\ Len(queue'[h]) = Len(queue[h]) + 1
                   /\ queue'[h][Len(queue'[h])] = new
  BY <1>5, <1>6
<1>8. QED
  BY <1>4, <1>5, <1>7 DEF live, h

(* A push reaches the socket of every token that has a live matching       *)
(* subscription, and names all of those and no other.                      *)
THEOREM PushCorrect == Spec => PushComplete
<1>. DEFINE A == pushes' # pushes =>
       \E c \in Change : \A t \in Token :
         LET live == {s \in Sid : /\ subs[s] # None /\ subs[s].ttl > 0
                                  /\ subs[s].token = t /\ Matches(subs[s].scope, c)}
         IN  conns[t] # None =>
               LET q == queue[conns[t]]  qq == queue'[conns[t]]
               IN  IF live = {} THEN qq = q
                   ELSE /\ Len(qq) = Len(q) + 1
                        /\ qq[Len(qq)].sids = live /\ qq[Len(qq)].change = c
<1>1. TypeOK /\ RegisteredAlive /\ [Next]_vars => [A]_vars
  <2>1. SUFFICES ASSUME TypeOK, RegisteredAlive, Next, pushes' # pushes PROVE A
    OBVIOUS
  <2>2. PICK c \in Change : notify(c)
    BY <2>1 DEF Next, Tick, aaaLogin, aaaRefresh, aaaLogout, subscribe, refresh, wsOpen, wsRegister,
                wsAbort, pumpGet, pumpSend, clientClose, wsTeardown
  <2>3. QED
    BY <2>1, <2>2, PushStep
<1>2. QED
  BY <1>1, TypeCorrect, RegistrationCorrect, PTL DEF Spec, PushComplete

-----------------------------------------------------------------------------
(* The control plane: what a running site was built from, for every        *)
(* topology, code version, set of switches and number of changes.          *)

(* The highest member of a non-empty set of ids.                           *)
LEMMA HighestId ==
  ASSUME NEW S \in SUBSET (1..MaxId), S # {}
  PROVE  \E n \in S : \A m \in S : m <= n
<1>. DEFINE R == OpToRel(<, Nat)
            D == {MaxId - n : n \in S}
<1>1. MaxId \in Nat
  BY BoundAssumption
<1>2. D \in SUBSET Nat /\ D # {}
  <2>1. \A n \in S : n \in Nat /\ n <= MaxId
    BY <1>1
  <2>2. PICK n \in S : TRUE
    OBVIOUS
  <2>3. MaxId - n \in D
    BY <2>2
  <2>4. QED
    BY <1>1, <2>1, <2>3
<1>3. IsWellFoundedOn(R, Nat)
  BY NatLessThanWellFounded
<1>4. \A x, y \in Nat : <<y, x>> \in R <=> y < x
  BY DEF OpToRel
<1>. HIDE DEF R, D
<1>5. PICK x \in D : \A y \in D : ~ (<<y, x>> \in R)
  BY <1>2, <1>3, WFMin
<1>6. \A y \in D : ~ (y < x)
  BY <1>2, <1>4, <1>5
<1>7. PICK n \in S : x = MaxId - n
  BY DEF D
<1>8. \A m \in S : MaxId - m \in D
  BY DEF D
<1>9. \A m \in S : m <= n
  BY <1>1, <1>6, <1>7, <1>8
<1>10. QED
  BY <1>9

(* The id that add-leaf hands out is above every id that is present.       *)
LEMMA NextIdAbove ==
  ASSUME NEW st \in Store, st.nodes # {}
  PROVE  /\ NextId(st) \in Nat \ {0}
         /\ \A m \in st.nodes : m < NextId(st)
<1>1. st.nodes \in SUBSET (1..MaxId)
  BY DEF Store
<1>2. \E n \in st.nodes : \A m \in st.nodes : m <= n
  BY <1>1, HighestId
<1>. DEFINE top == CHOOSE n \in st.nodes : \A m \in st.nodes : m <= n
<1>3. top \in st.nodes /\ \A m \in st.nodes : m <= top
  BY <1>2
<1>4. NextId(st) = 1 + top
  BY DEF NextId
<1>. HIDE DEF top
<1>5. QED
  BY <1>1, <1>3, <1>4, BoundAssumption

(* The lists of a topology hold ids.                                       *)
LEMMA TopoTypes ==
  ASSUME NEW t \in Topo
  PROVE  /\ Len(t.spines) \in Nat /\ Len(t.leaves) \in Nat /\ Len(Downlinks(t)) \in Nat
         /\ \A i \in 1..Len(t.spines) : t.spines[i] \in 1..MaxId
         /\ \A i \in 1..Len(t.leaves) : t.leaves[i] \in 1..MaxId
         /\ \A i \in 1..Len(Downlinks(t)) : Downlinks(t)[i] \in 1..MaxId
         /\ ToSet(t.spines \o Downlinks(t)) \subseteq 1..MaxId
<1>. DEFINE Id == (Controllers + 1)..MaxId
<1>1. t.spines \in Seq(Id) /\ t.leaves \in Seq(Id) /\ t.borders \in Seq(Id)
  BY TopoAssumption
<1>2. Id \subseteq 1..MaxId
  BY BoundAssumption
<1>. HIDE DEF Id
<1>3. Downlinks(t) \in Seq(Id)
  BY <1>1, ConcatProperties DEF Downlinks
<1>4. t.spines \o Downlinks(t) \in Seq(Id)
  BY <1>1, <1>3, ConcatProperties
<1>5. ToSet(t.spines \o Downlinks(t)) \subseteq Id
  BY <1>4 DEF ToSet
<1>6. \A S, i : S \in Seq(Id) /\ i \in 1..Len(S) => S[i] \in Id
  OBVIOUS
<1>7. \A S : S \in Seq(Id) => Len(S) \in Nat
  OBVIOUS
<1>8. QED
  BY <1>1, <1>2, <1>3, <1>5, <1>6, <1>7

(* A store is the record of its fields.                                    *)
LEMMA StoreFields ==
  ASSUME NEW st \in Store
  PROVE  /\ st = [nodes |-> st.nodes, links |-> st.links, sees |-> st.sees,
                  ver |-> st.ver, topo |-> st.topo, excused |-> st.excused]
         /\ st.nodes \in SUBSET (1..MaxId) /\ st.links \in SUBSET Link /\ st.sees \in SUBSET Link
         /\ st.ver \in 0..MaxVersion /\ st.topo \in Topo /\ st.excused \in BOOLEAN
BY DEF Store

(* The parts of the inductive invariant: every store that the site can be  *)
(* put back to is well-typed, keeps its first APIC, sees only what is      *)
(* linked and has its uplinks, not just the store that is running.         *)
Sound(st) == st \in Store /\ SeesOnlyLinks(st) /\ Meshed(st) /\ 1 \in st.nodes

AllSound ==
  /\ Sound(store) /\ Sound(baseline)
  /\ \A nm \in Name : /\ snapshots[nm] # Absent => Sound(snapshots[nm])
                      /\ saved[nm] # Absent => Sound(saved[nm].data)

IInv == ControlTypeOK /\ BaselineIsBoot /\ AllSound

(* Uplinks in what a builder produces: that a switch is no spine leaves a  *)
(* place among the leaves and borders, and its cable there.                *)
LEMMA BootMeshed ==
  ASSUME NEW v, NEW t \in Topo
  PROVE  Meshed(Boot(v, t))
<1>. DEFINE st == Boot(v, t)
<1>1. SUFFICES ASSUME NEW n \in st.nodes, n > Controllers, n \notin ToSet(t.spines),
                      NEW s \in 1..MaxId, NEW spine \in 1..MaxId, InPlace(s, spine)
               PROVE  UpAt(st, n, s, spine)
  BY DEF Meshed
<1>2. s \in 1..Len(t.spines) /\ t.spines[s] = spine
  BY <1>1, TopoTypes, BoundAssumption DEF InPlace
<1>3. n \in ToSet(t.spines \o Downlinks(t))
  BY <1>1, BoundAssumption DEF Boot
<1>4. PICK i \in 1..Len(Downlinks(t)) : n = Downlinks(t)[i]
  <2>. DEFINE D == Downlinks(t)
              S == t.spines
              Id == (Controllers + 1)..MaxId
  <2>1. S \in Seq(Id) /\ D \in Seq(Id)
    BY TopoAssumption, ConcatProperties DEF Downlinks
  <2>. HIDE DEF D, S, Id
  <2>2. /\ Len(S \o D) = Len(S) + Len(D) /\ Len(S) \in Nat /\ Len(D) \in Nat
        /\ \A j \in 1..Len(S) : (S \o D)[j] = S[j]
        /\ \A j \in Len(S) + 1..Len(S) + Len(D) : (S \o D)[j] = D[j - Len(S)]
    BY <2>1
  <2>3. PICK j \in 1..Len(S \o D) : n = (S \o D)[j]
    <3>1. S \o D \in Seq(Id)
      BY <2>1, ConcatProperties
    <3>2. QED
      BY <1>3, <3>1 DEF ToSet, D, S
  <2>4. j \notin 1..Len(S)
    BY <1>1, <2>1, <2>2, <2>3 DEF ToSet, S
  <2>5. j \in Len(S) + 1..Len(S) + Len(D) /\ j - Len(S) \in 1..Len(D)
    BY <2>2, <2>3, <2>4
  <2>6. n = D[j - Len(S)]
    BY <2>2, <2>3, <2>5
  <2>7. QED
    BY <2>5, <2>6 DEF D
<1>. DEFINE k == <<t.spines[s], i, Downlinks(t)[i], UPLINK_START + s - 1>>
<1>5. k \in Cabling(t)
  BY <1>2, <1>4 DEF Cabling
<1>6. /\ k[1] = spine /\ k[2] = i /\ k[3] = n /\ k[4] = UPLINK_START + s - 1
  BY <1>2, <1>4
<1>. HIDE DEF k
<1>7. k \in st.links /\ <<k[3], k[4], k[1], k[2]>> \in st.sees
  BY <1>5 DEF Boot
<1>8. QED
  BY <1>6, <1>7 DEF UpAt

(* What a builder produces is sound.                                       *)
LEMMA BootSound ==
  ASSUME NEW v \in 0..MaxVersion, NEW t \in Topo
  PROVE  Sound(Boot(v, t)) /\ Boot(v, t).ver = v /\ Boot(v, t).topo = t
<1>1. Cabling(t) \subseteq Link
  BY TopoTypes DEF Cabling, Link, UPLINK_START
<1>2. ControllerLinks(t) \subseteq Link
  <2>1. SUFFICES ASSUME NEW c \in 1..Controllers,
                        NEW l \in 1..(IF Len(t.leaves) < 2 THEN Len(t.leaves) ELSE 2)
                 PROVE  <<c, l, t.leaves[l], c>> \in Link
    BY DEF ControllerLinks
  <2>2. l \in Nat /\ l \in 1..Len(t.leaves)
    BY TopoTypes
  <2>3. QED
    BY <2>1, <2>2, TopoTypes, BoundAssumption DEF Link
<1>3. \A k \in Link : /\ k = <<k[1], k[2], k[3], k[4]>>
                      /\ k[1] \in 1..MaxId /\ k[2] \in Nat /\ k[3] \in 1..MaxId /\ k[4] \in Nat
  BY DEF Link
<1>4. Boot(v, t).sees \subseteq Link
  BY <1>1, <1>2, <1>3 DEF Boot, Link
<1>5. SeesOnlyLinks(Boot(v, t))
  <2>1. SUFFICES ASSUME NEW x \in Boot(v, t).sees
                 PROVE  x \in Boot(v, t).links \/ <<x[3], x[4], x[1], x[2]>> \in Boot(v, t).links
    BY DEF SeesOnlyLinks
  <2>2. CASE x \in Cabling(t)
    BY <2>2 DEF Boot
  <2>3. CASE \E k \in Cabling(t) \cup ControllerLinks(t) : x = <<k[3], k[4], k[1], k[2]>>
    <3>1. PICK k \in Cabling(t) \cup ControllerLinks(t) : x = <<k[3], k[4], k[1], k[2]>>
      BY <2>3
    <3>2. <<x[3], x[4], x[1], x[2]>> = k
      BY <1>1, <1>2, <1>3, <3>1
    <3>3. QED
      BY <3>1, <3>2 DEF Boot
  <2>4. QED
    BY <2>1, <2>2, <2>3 DEF Boot
<1>6. Boot(v, t).nodes \in SUBSET (1..MaxId) /\ 1 \in Boot(v, t).nodes
  BY TopoTypes, BoundAssumption DEF Boot
<1>7. QED
  BY <1>1, <1>2, <1>4, <1>5, <1>6, BootMeshed DEF Boot, Store, Sound

(* A registration links the switch anew; whatever sees the switch or a     *)
(* spine on another port, or sees from another switch, stays.              *)
LEMMA RegisterMeshed ==
  ASSUME NEW st, Meshed(st), NEW t \in Topo, NEW n
  PROVE  Meshed(Register(st, t, n))
<1>. DEFINE new == Register(st, t, n)
            own == {<<n, k[4], k[1], k[2]>> : k \in Cables(t, n)}
<1>1. SUFFICES ASSUME NEW m \in new.nodes, m > Controllers, \A u \in Topo : m \notin ToSet(u.spines),
                      NEW s \in 1..MaxId, NEW spine \in 1..MaxId, InPlace(s, spine)
               PROVE  UpAt(new, m, s, spine)
  BY DEF Meshed
<1>2. s \in 1..Len(t.spines) /\ t.spines[s] = spine
  BY <1>1, TopoTypes, BoundAssumption DEF InPlace
<1>3. /\ new.nodes = st.nodes \cup {n} /\ new.links = st.links \cup Cables(t, n)
      /\ new.sees = Seen(st.sees, Cables(t, n) \cup own)
  BY DEF Register
<1>. HIDE DEF new
<1>4. CASE m = n
  <2>. DEFINE k == <<t.spines[s], Len(Downlinks(t)) + 1, n, UPLINK_START + s - 1>>
  <2>1. k \in Cables(t, n)
    BY <1>2 DEF Cables
  <2>2. k[1] = spine /\ k[3] = n /\ k[4] = UPLINK_START + s - 1
    BY <1>2
  <2>. HIDE DEF k
  <2>3. <<k[3], k[4], k[1], k[2]>> \in own
    BY <2>1, <2>2
  <2>4. k \in new.links /\ <<k[3], k[4], k[1], k[2]>> \in new.sees
    BY <1>3, <2>1, <2>3 DEF Seen
  <2>5. QED
    BY <1>4, <2>2, <2>4 DEF UpAt
<1>5. CASE m # n
  <2>1. UpAt(st, m, s, spine)
    BY <1>1, <1>3, <1>5 DEF Meshed
  <2>2. PICK k \in st.links : /\ k[1] = spine /\ k[3] = m /\ k[4] = UPLINK_START + s - 1
                              /\ <<k[3], k[4], k[1], k[2]>> \in st.sees
    BY <2>1 DEF UpAt
  <2>3. \A y \in Cables(t, n) : y[1] # m
    <3>1. \A i \in 1..Len(t.spines) : t.spines[i] # m
      <4>1. DOMAIN t.spines = 1..Len(t.spines)
        BY TopoAssumption
      <4>2. QED
        BY <1>1, <4>1 DEF ToSet
    <3>2. QED
      BY <3>1 DEF Cables
  <2>4. \A y \in own : y[1] # m
    BY <1>5
  <2>. HIDE DEF own
  <2>5. PICK x : x = <<k[3], k[4], k[1], k[2]>>
    OBVIOUS
  <2>6. x \in st.sees /\ x[1] = m
    BY <2>2, <2>5
  <2>7. \A y \in Cables(t, n) \cup own : <<x[1], x[2]>> # <<y[1], y[2]>>
    BY <2>3, <2>4, <2>6
  <2>8. x \in new.sees
    BY <1>3, <2>6, <2>7 DEF Seen
  <2>9. QED
    BY <1>3, <2>2, <2>5, <2>8 DEF UpAt
<1>6. QED
  BY <1>4, <1>5

(* A registration keeps a store sound, and what built it.                  *)
LEMMA RegisterSound ==
  ASSUME NEW st, Sound(st), NEW t \in Topo, NEW n \in 1..MaxId
  PROVE  /\ Sound(Register(st, t, n))
         /\ Register(st, t, n).ver = st.ver
         /\ Register(st, t, n).nodes = st.nodes \cup {n}
<1>. DEFINE new == Register(st, t, n)
            own == {<<n, k[4], k[1], k[2]>> : k \in Cables(t, n)}
<1>1. Cables(t, n) \subseteq Link
  BY TopoTypes DEF Cables, Link, UPLINK_START
<1>2. \A k \in Cables(t, n) : k = <<k[1], k[2], n, k[4]>>
  BY DEF Cables
<1>3. own \subseteq Link
  BY <1>1 DEF Link
<1>4. /\ st = [nodes |-> st.nodes, links |-> st.links, sees |-> st.sees,
               ver |-> st.ver, topo |-> st.topo, excused |-> st.excused]
      /\ st.nodes \in SUBSET (1..MaxId) /\ st.links \in SUBSET Link /\ st.sees \in SUBSET Link
      /\ st.ver \in 0..MaxVersion /\ st.topo \in Topo /\ st.excused \in BOOLEAN
  BY StoreFields DEF Sound
<1>5. new = [nodes |-> st.nodes \cup {n},
             links |-> st.links \cup Cables(t, n),
             sees  |-> Seen(st.sees, Cables(t, n) \cup own),
             ver   |-> st.ver,
             topo  |-> st.topo,
             excused |-> st.excused]
  BY DEF Register
<1>6. Seen(st.sees, Cables(t, n) \cup own) \subseteq st.sees \cup Cables(t, n) \cup own
  BY DEF Seen
<1>. HIDE DEF new, own
<1>7. new \in Store
  BY <1>1, <1>3, <1>4, <1>5, <1>6 DEF Store
<1>8. SeesOnlyLinks(new)
  <2>1. SUFFICES ASSUME NEW x \in new.sees
                 PROVE  x \in new.links \/ <<x[3], x[4], x[1], x[2]>> \in new.links
    BY DEF SeesOnlyLinks
  <2>2. CASE x \in st.sees
    BY <1>5, <2>2 DEF Sound, SeesOnlyLinks
  <2>3. CASE x \in Cables(t, n)
    BY <1>5, <2>3
  <2>4. CASE x \in own
    <3>1. PICK k \in Cables(t, n) : x = <<n, k[4], k[1], k[2]>>
      BY <2>4 DEF own
    <3>2. <<x[3], x[4], x[1], x[2]>> = k
      BY <1>2, <3>1
    <3>3. QED
      BY <1>5, <3>1, <3>2
  <2>5. QED
    BY <1>5, <1>6, <2>1, <2>2, <2>3, <2>4
<1>9. Meshed(new)
  BY RegisterMeshed DEF Sound, new
<1>10. 1 \in st.nodes
  BY DEF Sound
<1>11. Sound(new) /\ new.ver = st.ver /\ new.nodes = st.nodes \cup {n}
  BY <1>5, <1>7, <1>8, <1>9, <1>10 DEF Sound
<1>12. QED
  BY <1>11 DEF new

(* So does a removal of a switch.                                          *)
LEMMA UnregisterSound ==
  ASSUME NEW st, Sound(st), NEW n \in Switch
  PROVE  Sound(Unregister(st, n)) /\ Unregister(st, n).ver = st.ver
<1>1. /\ st = [nodes |-> st.nodes, links |-> st.links, sees |-> st.sees,
               ver |-> st.ver, topo |-> st.topo, excused |-> st.excused]
      /\ st \in Store
  BY StoreFields DEF Sound
<1>2. Unregister(st, n) = [nodes |-> st.nodes \ {n}, links |-> st.links,
                           sees |-> {x \in st.sees : x[1] # n},
                           ver |-> st.ver, topo |-> st.topo, excused |-> st.excused]
  BY DEF Unregister
<1>3. n # 1
  BY BoundAssumption
<1>4. Meshed(Unregister(st, n))
  <2>1. SUFFICES ASSUME NEW m \in st.nodes \ {n}, NEW s, NEW spine, UpAt(st, m, s, spine)
                 PROVE  UpAt(Unregister(st, n), m, s, spine)
    BY <1>2 DEF Sound, Meshed
  <2>2. PICK k \in st.links : /\ k[1] = spine /\ k[3] = m /\ k[4] = UPLINK_START + s - 1
                              /\ <<k[3], k[4], k[1], k[2]>> \in st.sees
    BY <2>1 DEF UpAt
  <2>3. <<k[3], k[4], k[1], k[2]>>[1] # n
    BY <2>2
  <2>4. QED
    BY <1>2, <2>2, <2>3 DEF UpAt
<1>5. QED
  BY <1>1, <1>2, <1>3, <1>4 DEF Sound, Store, SeesOnlyLinks

LEMMA InitIInv == ControlInit => IInv
<1>. SUFFICES ASSUME ControlInit PROVE IInv
  OBVIOUS
<1>1. /\ site \in Topo \ Unbuildable /\ file \in Topo /\ running \in 0..MaxVersion /\ 0 \in 0..MaxVersion
      /\ running \in 1..code /\ code \in 1..MaxVersion /\ version \in {running, Unknown}
  BY BoundAssumption DEF ControlInit
<1>2. Sound(store) /\ baseline = store /\ store = Boot(running, site) /\ store.topo = site
  BY <1>1, BootSound DEF ControlInit
<1>3. \A t \in Topo : Sound(Boot(0, t))
  BY <1>1, BootSound
<1>4. \A t \in Topo : LegacySave(t) \in Saved /\ LegacySave(t).data = Boot(0, t)
  BY <1>1, <1>3 DEF LegacySave, Saved, Sound
<1>5. /\ snapshots \in [Name -> Store \cup {Absent}]
      /\ \A nm \in Name : snapshots[nm] = Absent
  BY DEF ControlInit
<1>6. /\ saved \in [Name -> Saved \cup {Absent}]
      /\ \A nm \in Name : saved[nm] # Absent => Sound(saved[nm].data)
  <2>1. saved \in [Name -> {Absent} \cup {LegacySave(t) : t \in Topo \ Unbuildable}]
    BY DEF ControlInit
  <2>2. QED
    BY <1>3, <1>4, <2>1
<1>7. changes \in 0..MaxChange
  BY BoundAssumption DEF ControlInit
<1>8. ControlTypeOK
  BY <1>1, <1>2, <1>5, <1>6, <1>7 DEF ControlTypeOK, Sound
<1>9. BaselineIsBoot
  BY <1>1, <1>2 DEF BaselineIsBoot
<1>10. QED
  BY <1>2, <1>5, <1>6, <1>8, <1>9 DEF IInv, AllSound

(* What a load brings back, and what history adds to it.                   *)
LEMMA ExcusedSound ==
  ASSUME NEW st, Sound(st), NEW e \in BOOLEAN
  PROVE  /\ Sound([st EXCEPT !.excused = @ \/ e])
         /\ [st EXCEPT !.excused = @ \/ e].ver = st.ver
         /\ [st EXCEPT !.excused = @ \/ e].excused = (st.excused \/ e)
<1>. DEFINE new == [st EXCEPT !.excused = @ \/ e]
<1>1. st = [nodes |-> st.nodes, links |-> st.links, sees |-> st.sees,
            ver |-> st.ver, topo |-> st.topo, excused |-> st.excused]
  BY StoreFields DEF Sound
<1>2. (st.excused \/ e) \in BOOLEAN
  OBVIOUS
<1>3. new = [nodes |-> st.nodes, links |-> st.links, sees |-> st.sees,
             ver |-> st.ver, topo |-> st.topo, excused |-> st.excused \/ e]
  BY <1>1
<1>. HIDE DEF new
<1>4. /\ new.nodes = st.nodes /\ new.links = st.links /\ new.sees = st.sees /\ new.ver = st.ver
      /\ new.excused = (st.excused \/ e)
  BY <1>3
<1>5. new \in Store
  BY <1>2, <1>3, StoreFields DEF Sound, Store
<1>6. SeesOnlyLinks(new) /\ Meshed(new)
  BY <1>4 DEF Sound, SeesOnlyLinks, Meshed, UpAt
<1>7. Sound(new)
  BY <1>4, <1>5, <1>6 DEF Sound
<1>8. QED
  BY <1>4, <1>7 DEF new

LEMMA NextIInv == IInv /\ [ControlNext]_controlVars => IInv'
<1>. SUFFICES ASSUME IInv, [ControlNext]_controlVars PROVE IInv'
  OBVIOUS
<1>1. /\ file \in Topo \cup {NoFile} /\ site \in Topo
      /\ code \in 1..MaxVersion /\ running \in 1..code /\ running \in 0..MaxVersion
      /\ code \in 0..MaxVersion /\ version \in {running, Unknown} /\ version \in (0..MaxVersion) \cup {Unknown}
      /\ Sound(store) /\ Sound(baseline)
      /\ baseline.topo \in Topo \ Unbuildable
      /\ site \notin Unbuildable => baseline.topo = site
      /\ baseline = Boot(running, baseline.topo)
      /\ store \in Store /\ baseline \in Store
      /\ snapshots \in [Name -> Store \cup {Absent}] /\ saved \in [Name -> Saved \cup {Absent}]
      /\ \A nm \in Name : /\ snapshots[nm] # Absent => Sound(snapshots[nm])
                          /\ saved[nm] # Absent => Sound(saved[nm].data)
      /\ changes \in 0..MaxChange
  BY BoundAssumption DEF IInv, ControlTypeOK, BaselineIsBoot, AllSound
<1>. USE DEF IInv, ControlTypeOK, BaselineIsBoot, AllSound
<1>2. CASE reset
  BY <1>1, <1>2 DEF reset
<1>3. ASSUME NEW nm \in Name, snapshot(nm) PROVE IInv'
  BY <1>1, <1>3 DEF snapshot
<1>4. ASSUME NEW nm \in Name, restore(nm) PROVE IInv'
  BY <1>1, <1>4 DEF restore, Sound
<1>5. CASE reload
  <2>1. file \in Topo \ Unbuildable
    BY <1>5 DEF reload
  <2>2. Sound(Boot(running, file)) /\ Boot(running, file).topo = file
    BY <1>1, <2>1, BootSound
  <2>3. QED
    BY <1>1, <1>5, <2>1, <2>2 DEF reload, Sound
<1>6. CASE reloadRaised
  <2>1. site' \in Unbuildable /\ site' \in Topo
    BY <1>6, TopoAssumption DEF reloadRaised
  <2>2. QED
    BY <1>1, <1>6, <2>1 DEF reloadRaised
<1>7. ASSUME NEW nm \in Name, save(nm) PROVE IInv'
  <2>1. Wrap(store) \in Saved /\ Wrap(store).data = store
    BY <1>1 DEF Wrap, Saved, Fingerprint
  <2>2. QED
    BY <1>1, <1>7, <2>1 DEF save
<1>8. ASSUME NEW nm \in Name, NEW force \in BOOLEAN, load(nm, force) PROVE IInv'
  <2>. DEFINE e == force \/ Unverifiable(saved[nm])
  <2>1. e \in BOOLEAN
    BY DEF Unverifiable
  <2>2. store' = [saved[nm].data EXCEPT !.excused = @ \/ e]
    BY <1>8 DEF load
  <2>. HIDE DEF e
  <2>3. Sound(saved[nm].data)
    BY <1>1, <1>8 DEF load
  <2>4. Sound(store')
    BY <2>1, <2>2, <2>3, ExcusedSound
  <2>5. QED
    BY <1>1, <1>8, <2>4 DEF load, Sound
<1>9. ASSUME NEW n \in Switch, register(n) PROVE IInv'
  <2>1. Sound(Register(store, site, n))
    BY <1>1, RegisterSound, BoundAssumption
  <2>2. changes' \in 0..MaxChange
    BY <1>1, <1>9, BoundAssumption DEF register
  <2>3. QED
    BY <1>1, <1>9, <2>1, <2>2 DEF register, Sound
<1>10. CASE addLeaf
  <2>1. NextId(store) \in 1..MaxId
    BY <1>1, <1>10, NextIdAbove, BoundAssumption DEF addLeaf, Sound
  <2>2. Sound(Register(store, site, NextId(store)))
    BY <1>1, <2>1, RegisterSound
  <2>3. changes' \in 0..MaxChange
    BY <1>1, <1>10, BoundAssumption DEF addLeaf
  <2>4. QED
    BY <1>1, <1>10, <2>2, <2>3 DEF addLeaf, Sound
<1>11. ASSUME NEW n \in Switch, removeLeaf(n) PROVE IInv'
  <2>1. Sound(Unregister(store, n))
    BY <1>1, UnregisterSound
  <2>2. changes' \in 0..MaxChange
    BY <1>1, <1>11, BoundAssumption DEF removeLeaf
  <2>3. QED
    BY <1>1, <1>11, <2>1, <2>2 DEF removeLeaf, Sound
<1>12. ASSUME NEW t \in Topo \cup {NoFile}, editTopology(t) PROVE IInv'
  BY <1>1, <1>12 DEF editTopology
<1>13. CASE upgrade
  BY <1>1, <1>13, BoundAssumption DEF upgrade
<1>14. CASE restart
  <2>1. file \in Topo \ Unbuildable
    BY <1>14 DEF restart
  <2>2. Sound(Boot(code, file)) /\ Boot(code, file).topo = file
    BY <1>1, <2>1, BootSound
  <2>3. running' \in 1..code' /\ version' \in {running', Unknown}
    BY <1>1, <1>14, BoundAssumption DEF restart
  <2>4. QED
    BY <1>1, <1>14, <2>1, <2>2, <2>3 DEF restart, Sound
<1>15. CASE UNCHANGED controlVars
  BY <1>1, <1>15 DEF controlVars
<1>16. QED
  BY <1>2, <1>3, <1>4, <1>5, <1>6, <1>7, <1>8, <1>9, <1>10, <1>11, <1>12, <1>13, <1>14, <1>15 DEF ControlNext

(* Every variable keeps its type, whatever topologies, switches and ids.   *)
THEOREM ControlTypeCorrect == ControlSpec => []ControlTypeOK
<1>1. IInv => ControlTypeOK
  BY DEF IInv
<1>2. QED
  BY <1>1, InitIInv, NextIInv, PTL DEF ControlSpec

(* reset always brings back a fabric this code built from one topology,    *)
(* that of the site unless a reload failed since.                          *)
THEOREM BaselineCorrect == ControlSpec => []BaselineIsBoot
<1>1. IInv => BaselineIsBoot
  BY DEF IInv
<1>2. QED
  BY <1>1, InitIInv, NextIInv, PTL DEF ControlSpec

(* What a node sees is linked, after any history of the site.              *)
THEOREM SeenCorrect == ControlSpec => []SeenIsLinked
<1>1. IInv => SeenIsLinked
  BY DEF IInv, AllSound, Sound, SeenIsLinked
<1>2. QED
  BY <1>1, InitIInv, NextIInv, PTL DEF ControlSpec

(* Every switch that is present has its uplinks, and sees its spines on    *)
(* them, after any history of the site.                                    *)
THEOREM MeshCorrect == ControlSpec => []FullMesh
<1>1. IInv => FullMesh
  BY DEF IInv, AllSound, Sound, FullMesh
<1>2. QED
  BY <1>1, InitIInv, NextIInv, PTL DEF ControlSpec

(* Nothing that runs or can be restored was built by another version of    *)
(* the code unless a load excused it.                                      *)
THEOREM BuildCorrect == ControlSpec => []NoForeignBuild
<1>1. ControlInit => NoForeignBuild
  <2>1. SUFFICES ASSUME ControlInit PROVE NoForeignBuild
    OBVIOUS
  <2>2. store.ver = running /\ \A t \in Topo : LegacySave(t).ver = LegacySave(t).data.ver
    BY <2>1 DEF ControlInit, Boot, LegacySave
  <2>3. \A nm \in Name : saved[nm] \in {Absent} \cup {LegacySave(t) : t \in Topo \ Unbuildable}
    BY <2>1 DEF ControlInit
  <2>4. \A nm \in Name : snapshots[nm] = Absent
    BY <2>1 DEF ControlInit
  <2>5. QED
    BY <2>2, <2>3, <2>4 DEF NoForeignBuild
<1>2. IInv /\ NoForeignBuild /\ [ControlNext]_controlVars => NoForeignBuild'
  <2>. SUFFICES ASSUME IInv, NoForeignBuild, [ControlNext]_controlVars PROVE NoForeignBuild'
    OBVIOUS
  <2>1. /\ snapshots \in [Name -> Store \cup {Absent}] /\ saved \in [Name -> Saved \cup {Absent}]
        /\ baseline.ver = running /\ version \in {running, Unknown}
    BY DEF IInv, ControlTypeOK, BaselineIsBoot, Boot
  <2>2. /\ ~ store.excused => store.ver = running
        /\ \A nm \in Name : /\ snapshots[nm] # Absent /\ ~ snapshots[nm].excused => snapshots[nm].ver = running
                            /\ saved[nm] # Absent /\ saved[nm].ver # Unknown /\ ~ saved[nm].data.excused
                                 => saved[nm].ver = saved[nm].data.ver
    BY DEF NoForeignBuild
  <2>. USE DEF NoForeignBuild
  <2>3. ASSUME NEW nm \in Name, snapshot(nm) \/ restore(nm) PROVE NoForeignBuild'
    BY <2>1, <2>2, <2>3 DEF snapshot, restore
  <2>4. ASSUME NEW nm \in Name, save(nm) PROVE NoForeignBuild'
    BY <2>1, <2>2, <2>4 DEF save, Wrap
  <2>5. ASSUME NEW nm \in Name, NEW force \in BOOLEAN, load(nm, force) PROVE NoForeignBuild'
    <3>. DEFINE e == force \/ Unverifiable(saved[nm])
    <3>1. store' = [saved[nm].data EXCEPT !.excused = @ \/ e]
      BY <2>5 DEF load
    <3>2. e \in BOOLEAN
      BY DEF Unverifiable
    <3>3. ~ e => saved[nm].ver = version /\ version # Unknown /\ saved[nm].ver # Unknown
      BY <2>5 DEF load, Compatible, Unverifiable
    <3>. HIDE DEF e
    <3>4. saved[nm] # Absent /\ Sound(saved[nm].data)
      BY <2>5 DEF load, IInv, AllSound
    <3>5. store'.ver = saved[nm].data.ver /\ store'.excused = (saved[nm].data.excused \/ e)
      BY <3>1, <3>2, <3>4, ExcusedSound
    <3>6. ~ store'.excused => store'.ver = running
      BY <2>1, <2>2, <3>3, <3>4, <3>5
    <3>7. running' = running /\ snapshots' = snapshots /\ saved' = saved
      BY <2>5 DEF load
    <3>8. QED
      BY <2>2, <3>6, <3>7
  <2>6. CASE reset \/ reload \/ reloadRaised \/ restart
    BY <2>1, <2>2, <2>6 DEF reset, reload, reloadRaised, restart, Boot, IInv, BaselineIsBoot
  <2>7. CASE addLeaf \/ \E n \in Switch : register(n) \/ removeLeaf(n)
    <3>1. /\ \A n : Register(store, site, n).ver = store.ver /\ Register(store, site, n).excused = store.excused
          /\ \A n : Unregister(store, n).ver = store.ver /\ Unregister(store, n).excused = store.excused
      BY DEF Register, Unregister
    <3>2. /\ store'.ver = store.ver /\ store'.excused = store.excused
          /\ running' = running /\ snapshots' = snapshots /\ saved' = saved
      BY <2>7, <3>1 DEF addLeaf, register, removeLeaf
    <3>3. QED
      BY <2>2, <3>2
  <2>8. CASE upgrade \/ (\E t \in Topo \cup {NoFile} : editTopology(t)) \/ UNCHANGED controlVars
    BY <2>1, <2>2, <2>8 DEF upgrade, editTopology, controlVars
  <2>9. QED
    BY <2>3, <2>4, <2>5, <2>6, <2>7, <2>8 DEF ControlNext
<1>3. QED
  BY <1>1, <1>2, InitIInv, NextIInv, PTL DEF ControlSpec

(* The id that add-leaf gives out by itself is no present node's.          *)
THEOREM AutoIdCorrect == ControlSpec => AutoIdFresh
<1>. DEFINE A == addLeaf => Cardinality(store'.nodes) = Cardinality(store.nodes) + 1
<1>1. IInv /\ [ControlNext]_controlVars => [A]_controlVars
  <2>1. SUFFICES ASSUME IInv, addLeaf
                 PROVE  Cardinality(store'.nodes) = Cardinality(store.nodes) + 1
    OBVIOUS
  <2>2. Sound(store) /\ store \in Store /\ 1 \in store.nodes
    BY <2>1 DEF IInv, AllSound, Sound
  <2>3. store.nodes \in SUBSET (1..MaxId)
    BY <2>2 DEF Store
  <2>4. IsFiniteSet(store.nodes)
    <3>1. IsFiniteSet(1..MaxId)
      BY BoundAssumption, FS_Interval
    <3>2. QED
      BY <2>3, <3>1, FS_Subset
  <2>5. NextId(store) \notin store.nodes
    BY <2>2, <2>3, NextIdAbove
  <2>6. store'.nodes = store.nodes \cup {NextId(store)}
    BY <2>1 DEF addLeaf, Register
  <2>7. QED
    BY <2>4, <2>5, <2>6, FS_AddElement
<1>2. QED
  BY <1>1, InitIInv, NextIInv, PTL DEF ControlSpec, AutoIdFresh

=============================================================================
