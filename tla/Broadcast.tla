------------------------------ MODULE Broadcast ------------------------------
(***************************************************************************)
(* How a change reaches the clients: a service writes the database and     *)
(* then publishes on Redis (market.service.ts, bet.service.ts,             *)
(* cashout.service.ts), the subscriber of websocket.gateway.ts gets the    *)
(* message and emits it to a room or to everyone.                          *)
(*                                                                         *)
(* One event with one market, and one bet of Owner.  What can change is a  *)
(* topic; a client shows what it last loaded or received of each.  A       *)
(* client loads a topic when it begins to hear of it.                      *)
(*                                                                         *)
(* GInit, GNext, GSpec, GInv and callAt are what other modules call Init,  *)
(* Next, Spec, IInv and pc: ClientProofs extends Broadcast and Booking.    *)
(***************************************************************************)
EXTENDS Integers, Sequences, FiniteSets

CONSTANTS
    Updates,   \* calls of the services
    Sockets,   \* connections to the gateway
    Owner,     \* the user the bet belongs to
    Scores,    \* scores
    Anonymous, \* a connection without a token
    Nothing    \* no connection, nothing shown

\* A score is not the word for a bet that is open or refunded.
ASSUME ScoresAssumption == Scores \cap {"open", "refunded"} = {}

VARIABLES
    db,        \* the value of each topic in the database
    callAt,    \* where each call is
    task,      \* the message each call will publish
    wire,      \* published messages on their way to the gateway
    who,       \* the user of each connection (client.data.userId)
    rooms,     \* the rooms each connection has joined
    tracked,   \* the keys of userSockets; the sets they map to stay empty
    view,      \* what each client shows
    beaten,    \* history: calls in flight whose topic another call wrote since
    stale,     \* history: topics whose last write the clients will not hear of
    reopened   \* history: the market was resumed, or a cancellation failed halfway

history == <<beaten, stale, reopened>>
gVars == <<db, callAt, task, wire, who, rooms, tracked, view, history>>

Values == [score  |-> Scores,
           market |-> {"OPEN", "SUSPENDED", "SETTLED"},
           status |-> {"UPCOMING", "CANCELLED"},
           result |-> {"open", "settled", "cashed", "refunded"}]

Topics == DOMAIN Values

Contents == UNION {Values[t] : t \in Topics}

\* Messages: the value tells the channels of a topic apart; no bet is opened again,
\* and none says that a stake was refunded.
News == {m \in UNION {[topic : {t}, value : Values[t]] : t \in Topics} :
            m.value \notin {"open", "refunded"}}

Rooms == {"event", "market", "live"}

GInit ==
    /\ db \in [score : Scores, market : {"OPEN"}, status : {"UPCOMING"}, result : {"open"}]
    /\ callAt = [u \in Updates |-> "idle"]
    /\ task = [u \in Updates |-> Nothing]
    /\ wire = <<>>
    /\ who = [s \in Sockets |-> Nothing]
    /\ rooms = [s \in Sockets |-> {}]
    /\ tracked = {}
    /\ view = [s \in Sockets |-> [t \in Topics |-> Nothing]]
    /\ beaten = {} /\ stale = {} /\ reopened = FALSE

Open(s) == who[s] # Nothing

InFlight(t) == {u \in Updates : callAt[u] \in {"suspend", "publish"} /\ task[u].topic = t}

\* History: a topic is written, by u or by nobody who will publish it.
Overtake(t, u) == beaten' = beaten \cup (InFlight(t) \ {u})

gateway == <<who, rooms, tracked, view>>

-------------------------------------------------------------------------------
\* The services.

\* A statement or transaction gives topic t the value v; its call publishes it next.
Write(u, t, v) ==
    /\ callAt[u] = IF t = "result" THEN "closing" ELSE "idle"
    /\ db' = [db EXCEPT ![t] = v]
    /\ task' = [task EXCEPT ![u] = [topic |-> t, value |-> v]]
    /\ callAt' = [callAt EXCEPT ![u] = IF v = "CANCELLED" THEN "suspend" ELSE "publish"]
    /\ Overtake(t, u)
    /\ reopened' = (reopened \/ v = "OPEN")
    /\ UNCHANGED <<wire, gateway, stale>>

UpdateScore(u) == \E v \in Scores : Write(u, "score", v)

UpdateEventStatus(u) == \E v \in Values.status : Write(u, "status", v)

SuspendMarket(u) == Write(u, "market", "SUSPENDED")

ResumeMarket(u) == Write(u, "market", "OPEN")

\* A market that is settled or suspended already is settled again.
SettleMarket(u) == Write(u, "market", "SETTLED")

\* settleBet, a cashout and cancelBet find the bet ACCEPTED; their transactions, later,
\* write it by id.
FindBet(u) ==
    /\ callAt[u] = "idle" /\ db.result = "open"
    /\ callAt' = [callAt EXCEPT ![u] = "closing"]
    /\ UNCHANGED <<db, task, wire, gateway, history>>

\* settleBet's transaction, WON or LOST.
SettleBet(u) == Write(u, "result", "settled")

\* The transaction of a cashout of the whole bet.
CloseBet(u) == Write(u, "result", "cashed")

\* The transactions of cancelBet and _voidBet, which publish nothing.
RefundBet(u) ==
    /\ callAt[u] = "closing"
    /\ db' = [db EXCEPT !.result = "refunded"]
    /\ callAt' = [callAt EXCEPT ![u] = "done"]
    /\ Overtake("result", u)
    /\ stale' = stale \cup {"result"}
    /\ UNCHANGED <<task, wire, gateway, reopened>>

\* A closing is refused, or fails, and writes nothing.
LeaveBet(u) ==
    /\ callAt[u] = "closing"
    /\ callAt' = [callAt EXCEPT ![u] = "failed"]
    /\ UNCHANGED <<db, task, wire, gateway, history>>

\* updateEventStatus suspends the open markets of a cancelled event, and publishes
\* nothing about them.
SuspendMarkets(u) ==
    /\ callAt[u] = "suspend"
    /\ IF db.market = "OPEN"
       THEN /\ db' = [db EXCEPT !.market = "SUSPENDED"]
            /\ Overtake("market", u)
            /\ stale' = stale \cup {"market"}
       ELSE UNCHANGED <<db, beaten, stale>>
    /\ callAt' = [callAt EXCEPT ![u] = "publish"]
    /\ reopened' = FALSE
    /\ UNCHANGED <<task, wire, gateway>>

Ends(u, l) ==
    /\ callAt' = [callAt EXCEPT ![u] = l]
    /\ task' = [task EXCEPT ![u] = Nothing]
    /\ beaten' = beaten \ {u}

\* redis.publish
Publish(u) ==
    /\ callAt[u] = "publish"
    /\ wire' = Append(wire, task[u])
    /\ Ends(u, "done")
    /\ stale' = IF u \in beaten THEN stale \cup {task[u].topic} ELSE stale \ {task[u].topic}
    /\ UNCHANGED <<db, gateway, reopened>>

\* A statement or the publication fails, or the process dies, after the first write.
Fail(u) ==
    /\ callAt[u] \in {"suspend", "publish"}
    /\ Ends(u, "failed")
    /\ stale' = IF u \in beaten THEN stale ELSE stale \cup {task[u].topic}
    /\ reopened' = (reopened \/ callAt[u] = "suspend")
    /\ UNCHANGED <<db, wire, gateway>>

-------------------------------------------------------------------------------
\* _handleRedisMessage

\* The connections a topic is emitted to by room; event:status goes to everyone.
Hears(s, t) ==
    /\ Open(s)
    /\ CASE t = "score"  -> rooms[s] \cap {"event", "live"} # {}
         [] t = "market" -> "market" \in rooms[s]
         [] t = "result" -> who[s] = Owner
         [] t = "status" -> TRUE

\* market:resumed has no case of its own and goes to everyone.
Receives(s, m) == Hears(s, m.topic) \/ (Open(s) /\ m.value = "OPEN")

\* Faulty Handle: a score reaches the room of the event only.
HandleEventRoom ==
    /\ wire # <<>>
    /\ view' = [s \in Sockets |->
                   IF Receives(s, Head(wire)) /\ (Head(wire).topic = "score" => "event" \in rooms[s])
                   THEN [view[s] EXCEPT ![Head(wire).topic] = Head(wire).value]
                   ELSE view[s]]
    /\ wire' = Tail(wire)
    /\ UNCHANGED <<db, callAt, task, who, rooms, tracked, history>>

Handle ==
    /\ wire # <<>>
    /\ view' = [s \in Sockets |->
                   IF Receives(s, Head(wire))
                   THEN [view[s] EXCEPT ![Head(wire).topic] = Head(wire).value]
                   ELSE view[s]]
    /\ wire' = Tail(wire)
    /\ UNCHANGED <<db, callAt, task, who, rooms, tracked, history>>

\* The subscriber's connection is down when the message comes: pub/sub keeps none.
Lose ==
    /\ wire # <<>>
    /\ wire' = Tail(wire)
    /\ stale' = IF \A i \in 2 .. Len(wire) : wire[i].topic # Head(wire).topic
                THEN stale \cup {Head(wire).topic} ELSE stale
    /\ UNCHANGED <<db, callAt, task, gateway, beaten, reopened>>

-------------------------------------------------------------------------------
\* Connections.

\* What s shows after its user or rooms changed: what it begins to hear of is
\* loaded, what it no longer hears of is forgotten.
Reload(s) ==
    view' = [view EXCEPT ![s] = [t \in Topics |->
                IF ~Hears(s, t)' THEN Nothing ELSE IF Hears(s, t) THEN view[s][t] ELSE db[t]]]

services == <<db, callAt, task, wire, beaten, stale, reopened>>

\* Faulty Connect: a connection without a token is entered too.
ConnectAnyone(s, w) ==
    /\ ~Open(s)
    /\ who' = [who EXCEPT ![s] = w]
    /\ tracked' = tracked \cup {w}
    /\ UNCHANGED rooms
    /\ Reload(s)
    /\ UNCHANGED services

\* handleConnection with a valid token, or without one; a connection with an
\* invalid token is closed and leaves nothing.
Connect(s, w) ==
    /\ ~Open(s)
    /\ who' = [who EXCEPT ![s] = w]
    /\ tracked' = tracked \cup ({w} \ {Anonymous})
    /\ UNCHANGED rooms
    /\ Reload(s)
    /\ UNCHANGED services

\* handleDisconnect: the user's set is empty whatever else is connected.
Disconnect(s) ==
    /\ Open(s)
    /\ who' = [who EXCEPT ![s] = Nothing]
    /\ rooms' = [rooms EXCEPT ![s] = {}]
    /\ tracked' = tracked \ {who[s]}
    /\ Reload(s)
    /\ UNCHANGED services

\* subscribe:event, subscribe:market, subscribe:live
Subscribe(s, r) ==
    /\ Open(s) /\ r \notin rooms[s]
    /\ rooms' = [rooms EXCEPT ![s] = @ \cup {r}]
    /\ UNCHANGED <<who, tracked>>
    /\ Reload(s)
    /\ UNCHANGED services

\* unsubscribe:event, the only room that can be left.
Unsubscribe(s) ==
    /\ "event" \in rooms[s]
    /\ rooms' = [rooms EXCEPT ![s] = @ \ {"event"}]
    /\ UNCHANGED <<who, tracked>>
    /\ Reload(s)
    /\ UNCHANGED services

GNext ==
    \/ \E u \in Updates :
          \/ UpdateScore(u) \/ UpdateEventStatus(u)
          \/ SuspendMarket(u) \/ ResumeMarket(u) \/ SettleMarket(u)
          \/ FindBet(u) \/ SettleBet(u) \/ CloseBet(u) \/ RefundBet(u) \/ LeaveBet(u)
          \/ SuspendMarkets(u) \/ Publish(u) \/ Fail(u)
    \/ Handle \/ Lose
    \/ \E s \in Sockets :
          \/ \E w \in {Owner, Anonymous} : Connect(s, w)
          \/ \E r \in Rooms : Subscribe(s, r)
          \/ Disconnect(s) \/ Unsubscribe(s)

GSpec == GInit /\ [][GNext]_gVars

-------------------------------------------------------------------------------
\* Properties.

\* Topics have their values, messages their form, and only users are tracked.
GTypeOK ==
    /\ db \in [Topics -> Contents] /\ \A t \in Topics : db[t] \in Values[t]
    /\ callAt \in [Updates -> {"idle", "closing", "suspend", "publish", "done", "failed"}]
    /\ task \in [Updates -> News \cup {Nothing}]
    /\ wire \in Seq(News)
    /\ who \in [Sockets -> {Owner, Anonymous, Nothing}]
    /\ rooms \in [Sockets -> SUBSET Rooms]
    /\ tracked \subseteq {Owner}
    /\ view \in [Sockets -> [Topics -> Contents \cup {Nothing}]]
    /\ \A s \in Sockets : \A t \in Topics : view[s][t] \in Values[t] \cup {Nothing}
    /\ beaten \subseteq Updates /\ stale \subseteq Topics
    /\ reopened \in BOOLEAN

\* Nothing of the topic is on its way, and its last write was published last and
\* not lost.
Announced(t) ==
    /\ InFlight(t) = {} /\ t \notin stale
    /\ \A i \in 1 .. Len(wire) : wire[i].topic # t

\* The market of a cancelled event is not open for bets unless an operator resumed
\* it or the cancellation stopped between its two statements.
CancelledCloses ==
    db.status = "CANCELLED" /\ (\A u \in Updates : callAt[u] # "suspend") /\ ~reopened
        => db.market # "OPEN"

\* A client that hears of a topic shows what the database has, through any order
\* of joins, leaves and reconnections, unless two updates published in another
\* order than they wrote, the last message was lost or never published, the market
\* was suspended with its event, or the bet was cancelled or voided: neither is
\* published.  The result of a bet is shown to nobody but its owner, and the market
\* follows its event.
InStep ==
    /\ \A s \in Sockets :
          /\ \A t \in Topics : Announced(t) /\ Hears(s, t) => view[s][t] = db[t]
          /\ view[s].result # Nothing => who[s] = Owner
    /\ CancelledCloses

\* A call carries the message it will publish; only the update of an event's
\* status suspends, and only calls in flight have been overtaken.
CallsOK ==
    /\ \A u \in Updates : callAt[u] \in {"suspend", "publish"} => task[u] \in News
    /\ \A u \in Updates : callAt[u] = "suspend" => task[u].topic # "market"
    /\ \A u \in beaten : callAt[u] \in {"suspend", "publish"}

\* The calls that will publish what the database has of the topic.
Bearers(t) == InFlight(t) \ beaten

\* A call that was not overtaken carries what the database has; there is one at most.
BearersOK ==
    \A t \in Topics :
        /\ \A u \in Bearers(t) : task[u].value = db[t]
        /\ \A u, v \in Bearers(t) : u = v

\* The last message of the topic on the wire says what the database has.
Coming(t) ==
    \E i \in 1 .. Len(wire) :
        /\ wire[i].topic = t /\ wire[i].value = db[t]
        /\ \A j \in i + 1 .. Len(wire) : wire[j].topic # t

\* The topic is shown as it is in the database wherever it is heard, and nothing
\* of it is on the wire.
Arrived(t) ==
    /\ \A i \in 1 .. Len(wire) : wire[i].topic # t
    /\ \A s \in Sockets : Hears(s, t) => view[s][t] = db[t]

\* What nobody carries and was not lost or overtaken is on its way or has arrived.
WireOK ==
    \A t \in Topics : t \notin stale /\ Bearers(t) = {} => Coming(t) \/ Arrived(t)

\* The inductive invariant: the types, and where the last write of a topic is
\* between the database and the clients.
GInv == GTypeOK /\ CallsOK /\ BearersOK /\ WireOK /\ InStep
================================================================================
