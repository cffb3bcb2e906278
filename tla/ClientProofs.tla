----------------------------- MODULE ClientProofs -----------------------------
(***************************************************************************)
(* Proofs about what clients see.  First Broadcast, for any updates,       *)
(* connections and scores: what clients show agrees with the database.     *)
(* Then Booking, for any loads, odds, lifetime and end of the clock: a     *)
(* code loads exactly while it lives.                                      *)
(***************************************************************************)
EXTENDS Broadcast, Booking, SequenceTheorems, TLAPS

-------------------------------------------------------------------------------
\* The data.

LEMMA TopicsAre == Topics = {"score", "market", "status", "result"}
BY DEF Topics, Values

LEMMA ValuesAre ==
    /\ Values["score"] = Scores
    /\ Values["market"] = {"OPEN", "SUSPENDED", "SETTLED"}
    /\ Values["status"] = {"UPCOMING", "CANCELLED"}
    /\ Values["result"] = {"open", "settled", "cashed", "refunded"}
BY DEF Values

\* A message has a topic and one of its values.
LEMMA NewsIs ==
    ASSUME NEW m
    PROVE  m \in News <=> \E t \in Topics : \E v \in Values[t] :
                              v \notin {"open", "refunded"} /\ m = [topic |-> t, value |-> v]
BY DEF News

LEMMA NewsTyped ==
    ASSUME NEW m \in News
    PROVE  m.topic \in Topics /\ m.value \in Values[m.topic]
BY NewsIs

LEMMA ContentsHave == \A t \in Topics : Values[t] \subseteq Contents
BY DEF Contents

\* What a connection hears depends on its user and rooms only.
LEMMA HearsSame ==
    ASSUME UNCHANGED <<who, rooms>>, NEW s, NEW t
    PROVE  Hears(s, t)' = Hears(s, t)
BY DEF Hears, Open

-------------------------------------------------------------------------------
\* Initially.

LEMMA Start == GInit => GInv
<1> SUFFICES ASSUME GInit PROVE GInv
  OBVIOUS
<1> USE DEF GInit
<1>1. db \in [Topics -> Contents] /\ \A t \in Topics : db[t] \in Values[t]
  <2>1. \A t \in Topics : db[t] \in Values[t]
    BY TopicsAre, ValuesAre
  <2>2. DOMAIN db = Topics /\ db = [t \in DOMAIN db |-> db[t]]
    BY TopicsAre
  <2> QED BY <2>1, <2>2, ContentsHave
<1>2. GTypeOK
  BY <1>1, EmptySeq DEF GTypeOK
<1>3. CallsOK
  BY DEF CallsOK
<1>4. \A t \in Topics : InFlight(t) = {}
  BY DEF InFlight
<1>5. BearersOK
  BY <1>4 DEF BearersOK, Bearers
<1>6. \A s \in Sockets, t \in Topics : ~Hears(s, t)
  BY DEF Hears, Open
<1>7. WireOK
  BY <1>6 DEF WireOK, Arrived
<1>8. InStep
  BY <1>6, TopicsAre DEF InStep, CancelledCloses
<1> QED BY <1>2, <1>3, <1>5, <1>7, <1>8 DEF GInv

-------------------------------------------------------------------------------
\* The services.

\* A service that touches no connection leaves what they hear and show.
LEMMA GatewayKept ==
    ASSUME GInv, UNCHANGED gateway
    PROVE  /\ \A s \in Sockets, t \in Topics : Hears(s, t)' = Hears(s, t)
           /\ \A s \in Sockets : view'[s].result # Nothing => who'[s] = Owner
           /\ view' = view
BY HearsSame DEF gateway, GInv, InStep

\* Where the wire is left alone and db keeps the topic, its last write is where it was.
LEMMA PlaceKept ==
    ASSUME GInv, UNCHANGED <<gateway, wire>>, NEW t \in Topics, db'[t] = db[t]
    PROVE  Coming(t)' = Coming(t) /\ Arrived(t)' = Arrived(t)
BY GatewayKept DEF Coming, Arrived

\* Clients are in step because what was announced has arrived.
LEMMA ViewsInStep ==
    ASSUME WireOK', NEW s \in Sockets, NEW t \in Topics, Announced(t)', Hears(s, t)'
    PROVE  (view[s][t] = db[t])'
<1>1. t \notin stale' /\ Bearers(t)' = {}
  BY DEF Announced, Bearers
<1>2. ~Coming(t)'
  BY DEF Announced, Coming
<1> QED BY <1>1, <1>2 DEF WireOK, Arrived

\* The first statement of a service.
LEMMA WriteStep ==
    ASSUME GInv, NEW u \in Updates, NEW t \in Topics, NEW v \in Values[t],
           Write(u, t, v), v \notin {"open", "refunded"}, v = "CANCELLED" => t # "market"
    PROVE  GInv'
<1> DEFINE m == [topic |-> t, value |-> v]
<1>1. /\ callAt[u] \in {"idle", "closing"} /\ UNCHANGED <<wire, gateway, stale>>
      /\ db' = [db EXCEPT ![t] = v] /\ task' = [task EXCEPT ![u] = m]
      /\ callAt' = [callAt EXCEPT ![u] = IF v = "CANCELLED" THEN "suspend" ELSE "publish"]
      /\ beaten' = beaten \cup (InFlight(t) \ {u})
      /\ reopened' = (reopened \/ v = "OPEN")
  BY DEF Write, Overtake
<1>2. m \in News /\ v \in Contents
  BY NewsIs, ContentsHave
<1>3. db' \in [Topics -> Contents] /\ \A x \in Topics : db'[x] \in Values[x]
  BY <1>1, <1>2 DEF GInv, GTypeOK
<1>4. reopened' \in BOOLEAN
  BY <1>1 DEF GInv, GTypeOK
<1>5. GTypeOK'
  <2>1. InFlight(t) \subseteq Updates
    BY DEF InFlight
  <2> QED BY <1>1, <1>2, <1>3, <1>4, <2>1 DEF GInv, GTypeOK, gateway
<1>6. /\ u \notin beaten' /\ u \notin beaten
      /\ InFlight(t)' = InFlight(t) \cup {u}
      /\ \A x \in Topics \ {t} : InFlight(x)' = InFlight(x)
  BY <1>1 DEF GInv, GTypeOK, CallsOK, InFlight
<1>7. CallsOK'
  BY <1>1, <1>2 DEF GInv, GTypeOK, CallsOK, InFlight
<1>8. /\ Bearers(t)' = {u}
      /\ \A x \in Topics \ {t} : Bearers(x)' = Bearers(x)
  <2>1. \A x \in Topics \ {t} : InFlight(x) \cap InFlight(t) = {}
    BY DEF InFlight
  <2> QED BY <1>1, <1>6, <2>1 DEF Bearers
<1>9. BearersOK'
  <2>1. ASSUME NEW x \in Topics \ {t}, NEW w \in Bearers(x) PROVE task'[w].value = db'[x]
    <3>1. w # u
      BY <1>6, <1>8, <2>1 DEF Bearers, InFlight, GInv, CallsOK
    <3> QED BY <1>1, <2>1, <3>1 DEF GInv, GTypeOK, BearersOK
  <2>2. task'[u].value = db'[t]
    BY <1>1 DEF GInv, GTypeOK
  <2> QED BY <1>8, <2>1, <2>2 DEF GInv, BearersOK
<1>10. WireOK'
  <2>1. \A x \in Topics \ {t} : Coming(x)' = Coming(x) /\ Arrived(x)' = Arrived(x)
    BY <1>1, PlaceKept DEF GInv, GTypeOK
  <2> QED BY <1>1, <1>8, <2>1 DEF GInv, WireOK
<1>11. CancelledCloses'
  <2>1. CASE v = "OPEN"
    BY <1>1, <2>1 DEF CancelledCloses
  <2>2. CASE v = "CANCELLED"
    BY <1>1, <2>2 DEF CancelledCloses, GInv, GTypeOK
  <2>3. CASE v \notin {"OPEN", "CANCELLED"}
    <3>1. db'["status"] = "CANCELLED" => db["status"] = "CANCELLED"
      BY <1>1, <2>3 DEF GInv, GTypeOK
    <3>2. db'["market"] = "OPEN" => db["market"] = "OPEN"
      BY <1>1, <2>3 DEF GInv, GTypeOK
    <3>3. \A w \in Updates : callAt'[w] # "suspend" => callAt[w] # "suspend"
      BY <1>1 DEF GInv, GTypeOK
    <3> QED BY <1>1, <3>1, <3>2, <3>3, <2>3 DEF GInv, InStep, CancelledCloses
  <2> QED BY <2>1, <2>2, <2>3
<1>12. InStep'
  <2>1. \A s \in Sockets, x \in Topics : Announced(x)' /\ Hears(s, x)' => (view[s][x] = db[x])'
    BY <1>10, ViewsInStep
  <2> QED BY <1>1, <1>11, <2>1, GatewayKept DEF InStep
<1> QED BY <1>5, <1>7, <1>9, <1>10, <1>12 DEF GInv

\* The statement that suspends the open market of a cancelled event.
LEMMA SuspendStep ==
    ASSUME GInv, NEW u \in Updates, SuspendMarkets(u)
    PROVE  GInv'
<1>1. /\ callAt[u] = "suspend" /\ callAt' = [callAt EXCEPT ![u] = "publish"]
      /\ reopened' = FALSE /\ UNCHANGED <<task, wire, gateway>>
  BY DEF SuspendMarkets
<1>2. \/ /\ db["market"] = "OPEN" /\ db' = [db EXCEPT !["market"] = "SUSPENDED"]
         /\ beaten' = beaten \cup (InFlight("market") \ {u})
         /\ stale' = stale \cup {"market"}
      \/ db["market"] # "OPEN" /\ UNCHANGED <<db, beaten, stale>>
  BY DEF SuspendMarkets, Overtake
<1>3. db' \in [Topics -> Contents] /\ \A x \in Topics : db'[x] \in Values[x]
  BY <1>2, TopicsAre, ValuesAre, ContentsHave DEF GInv, GTypeOK
<1>4. GTypeOK'
  <2>1. InFlight("market") \subseteq Updates
    BY DEF InFlight
  <2> QED BY <1>1, <1>2, <1>3, <2>1, TopicsAre DEF GInv, GTypeOK, gateway
<1>5. /\ task[u] \in News /\ task[u].topic # "market"
      /\ \A x \in Topics : InFlight(x)' = InFlight(x)
  BY <1>1 DEF GInv, GTypeOK, CallsOK, InFlight
<1>6. CallsOK'
  BY <1>1, <1>2 DEF GInv, GTypeOK, CallsOK, InFlight
<1>7. /\ \A x \in Topics \ {"market"} : Bearers(x)' = Bearers(x)
      /\ db["market"] = "OPEN" => Bearers("market")' = {}
      /\ db["market"] # "OPEN" => Bearers("market")' = Bearers("market")
  <2>1. \A x \in Topics \ {"market"} : InFlight(x) \cap InFlight("market") = {}
    BY DEF InFlight
  <2>2. u \notin InFlight("market")
    BY <1>5 DEF InFlight
  <2> QED BY <1>2, <1>5, <2>1, <2>2, TopicsAre DEF Bearers
<1>8. \A x \in Topics : x # "market" \/ db["market"] # "OPEN" =>
         db'[x] = db[x] /\ (x \in stale' <=> x \in stale)
  BY <1>2 DEF GInv, GTypeOK
<1>9. BearersOK'
  BY <1>1, <1>7, <1>8 DEF GInv, BearersOK
<1>10. WireOK'
  <2>1. \A x \in Topics : x # "market" \/ db["market"] # "OPEN" =>
           Coming(x)' = Coming(x) /\ Arrived(x)' = Arrived(x)
    BY <1>1, <1>8, PlaceKept
  <2>2. db["market"] = "OPEN" => "market" \in stale'
    BY <1>2
  <2> QED BY <1>7, <1>8, <2>1, <2>2 DEF GInv, WireOK
<1>11. CancelledCloses'
  <2>1. db'["market"] # "OPEN"
    BY <1>2, TopicsAre DEF GInv, GTypeOK
  <2> QED BY <2>1 DEF CancelledCloses
<1>12. InStep'
  <2>1. \A s \in Sockets, x \in Topics : Announced(x)' /\ Hears(s, x)' => (view[s][x] = db[x])'
    BY <1>10, ViewsInStep
  <2> QED BY <1>1, <1>11, <2>1, GatewayKept DEF InStep
<1> QED BY <1>4, <1>6, <1>9, <1>10, <1>12 DEF GInv

\* The transaction that refunds the stake of the bet.
LEMMA RefundStep ==
    ASSUME GInv, NEW u \in Updates, RefundBet(u)
    PROVE  GInv'
<1>1. /\ callAt[u] = "closing" /\ callAt' = [callAt EXCEPT ![u] = "done"]
      /\ db' = [db EXCEPT !["result"] = "refunded"]
      /\ beaten' = beaten \cup (InFlight("result") \ {u})
      /\ stale' = stale \cup {"result"}
      /\ UNCHANGED <<task, wire, gateway, reopened>>
  BY DEF RefundBet, Overtake
<1>2. db' \in [Topics -> Contents] /\ \A x \in Topics : db'[x] \in Values[x]
  BY <1>1, TopicsAre, ValuesAre, ContentsHave DEF GInv, GTypeOK
<1>3. GTypeOK'
  <2>1. InFlight("result") \subseteq Updates
    BY DEF InFlight
  <2> QED BY <1>1, <1>2, <2>1, TopicsAre DEF GInv, GTypeOK, gateway
<1>4. \A x \in Topics : InFlight(x)' = InFlight(x)
  BY <1>1 DEF GInv, GTypeOK, InFlight
<1>5. CallsOK'
  BY <1>1 DEF GInv, GTypeOK, CallsOK, InFlight
<1>6. /\ \A x \in Topics \ {"result"} : Bearers(x)' = Bearers(x)
      /\ Bearers("result")' = {}
  <2>1. \A x \in Topics \ {"result"} : InFlight(x) \cap InFlight("result") = {}
    BY DEF InFlight
  <2>2. u \notin InFlight("result")
    BY <1>1 DEF InFlight
  <2> QED BY <1>1, <1>4, <2>1, <2>2, TopicsAre DEF Bearers
<1>7. \A x \in Topics : x # "result" => db'[x] = db[x] /\ (x \in stale' <=> x \in stale)
  BY <1>1 DEF GInv, GTypeOK
<1>8. BearersOK'
  BY <1>1, <1>6, <1>7 DEF GInv, BearersOK
<1>9. WireOK'
  <2>1. \A x \in Topics : x # "result" => Coming(x)' = Coming(x) /\ Arrived(x)' = Arrived(x)
    BY <1>1, <1>7, PlaceKept
  <2> QED BY <1>1, <1>6, <1>7, <2>1 DEF GInv, WireOK
<1>10. CancelledCloses'
  <2>1. \A w \in Updates : callAt'[w] # "suspend" => callAt[w] # "suspend"
    BY <1>1 DEF GInv, GTypeOK
  <2> QED BY <1>1, <1>7, <2>1, TopicsAre DEF GInv, InStep, CancelledCloses
<1>11. InStep'
  <2>1. \A s \in Sockets, x \in Topics : Announced(x)' /\ Hears(s, x)' => (view[s][x] = db[x])'
    BY <1>9, ViewsInStep
  <2> QED BY <1>1, <1>10, <2>1, GatewayKept DEF InStep
<1> QED BY <1>3, <1>5, <1>8, <1>9, <1>11 DEF GInv

\* A call that finds the bet open, or leaves it so, touches nothing else.
LEMMA ClosingStep ==
    ASSUME GInv, NEW u \in Updates, FindBet(u) \/ LeaveBet(u)
    PROVE  GInv'
<1>1. /\ callAt[u] \in {"idle", "closing"}
      /\ callAt' = [callAt EXCEPT ![u] = "closing"] \/ callAt' = [callAt EXCEPT ![u] = "failed"]
      /\ UNCHANGED <<db, task, wire, gateway, beaten, stale, reopened>>
  BY DEF FindBet, LeaveBet, history
<1>2. GTypeOK' /\ CallsOK'
  BY <1>1 DEF GInv, GTypeOK, CallsOK, gateway
<1>3. \A x \in Topics : Bearers(x)' = Bearers(x)
  <2>1. \A x \in Topics : InFlight(x)' = InFlight(x)
    BY <1>1 DEF GInv, GTypeOK, InFlight
  <2> QED BY <1>1, <2>1 DEF Bearers
<1>4. BearersOK'
  BY <1>1, <1>3 DEF GInv, BearersOK
<1>5. WireOK'
  BY <1>1, <1>3, PlaceKept DEF GInv, WireOK
<1>6. CancelledCloses'
  <2>1. \A w \in Updates : callAt'[w] # "suspend" => callAt[w] # "suspend"
    BY <1>1 DEF GInv, GTypeOK
  <2> QED BY <1>1, <2>1 DEF GInv, InStep, CancelledCloses
<1>7. InStep'
  <2>1. \A s \in Sockets, x \in Topics : Announced(x)' /\ Hears(s, x)' => (view[s][x] = db[x])'
    BY <1>5, ViewsInStep
  <2> QED BY <1>1, <1>6, <2>1, GatewayKept DEF InStep
<1> QED BY <1>2, <1>4, <1>5, <1>7 DEF GInv

\* What the end of a call leaves: the calls in flight but itself.
LEMMA EndKept ==
    ASSUME GInv, NEW u \in Updates, callAt[u] \in {"suspend", "publish"},
           NEW l \in {"done", "failed"}, Ends(u, l), UNCHANGED <<db, gateway>>
    PROVE  /\ task[u] \in News
           /\ \A t \in Topics : InFlight(t)' = InFlight(t) \ {u}
           /\ \A t \in Topics : Bearers(t)' = Bearers(t) \ {u}
           /\ CallsOK' /\ BearersOK'
           /\ u \in InFlight(task[u].topic)
           /\ \A t \in Topics : t # task[u].topic => u \notin InFlight(t)
<1>1. /\ callAt' = [callAt EXCEPT ![u] = l] /\ task' = [task EXCEPT ![u] = Nothing]
      /\ beaten' = beaten \ {u}
  BY DEF Ends
<1>2. task[u] \in News /\ u \in InFlight(task[u].topic)
  BY DEF GInv, CallsOK, InFlight
<1>3. \A t \in Topics : t # task[u].topic => u \notin InFlight(t)
  BY DEF InFlight
<1>4. \A t \in Topics : InFlight(t)' = InFlight(t) \ {u}
  BY <1>1 DEF GInv, GTypeOK, InFlight
<1>5. \A t \in Topics : Bearers(t)' = Bearers(t) \ {u}
  BY <1>1, <1>4 DEF Bearers
<1>6. CallsOK'
  BY <1>1 DEF GInv, GTypeOK, CallsOK
<1>7. BearersOK'
  <2>1. ASSUME NEW t \in Topics, NEW w \in Bearers(t)' PROVE task'[w].value = db'[t]
    <3>1. w \in Bearers(t) /\ w # u /\ w \in Updates
      BY <1>5, <2>1 DEF Bearers, InFlight
    <3> QED BY <1>1, <3>1 DEF GInv, GTypeOK, BearersOK
  <2> QED BY <1>5, <2>1 DEF GInv, BearersOK
<1> QED BY <1>2, <1>3, <1>4, <1>5, <1>6, <1>7

\* The market of a cancelled event, where no call is suspending it any more.
LEMMA ClosesKept ==
    ASSUME GInv, NEW u \in Updates, UNCHANGED db,
           \A w \in Updates : w # u => callAt'[w] = callAt[w],
           callAt[u] = "suspend" => reopened', reopened => reopened'
    PROVE  CancelledCloses'
BY DEF GInv, InStep, CancelledCloses

LEMMA FailStep ==
    ASSUME GInv, NEW u \in Updates, Fail(u)
    PROVE  GInv'
<1> DEFINE k == task[u].topic
<1>1. /\ callAt[u] \in {"suspend", "publish"} /\ Ends(u, "failed")
      /\ stale' = IF u \in beaten THEN stale ELSE stale \cup {k}
      /\ reopened' = (reopened \/ callAt[u] = "suspend")
      /\ UNCHANGED <<db, wire, gateway>>
  BY DEF Fail
<1>2. /\ task[u] \in News /\ k \in Topics
      /\ \A t \in Topics : Bearers(t)' = Bearers(t) \ {u}
      /\ CallsOK' /\ BearersOK'
      /\ u \in InFlight(k) /\ \A t \in Topics : t # k => u \notin InFlight(t)
  BY <1>1, EndKept, NewsTyped
<1>3. reopened' \in BOOLEAN
  BY <1>1 DEF GInv, GTypeOK
<1> HIDE DEF k
<1>4. GTypeOK'
  BY <1>1, <1>2, <1>3 DEF GInv, GTypeOK, Ends, gateway
<1>5. WireOK'
  <2> SUFFICES ASSUME NEW t \in Topics, t \notin stale', Bearers(t)' = {}
               PROVE  Coming(t)' \/ Arrived(t)'
    BY DEF WireOK
  <2>1. t \notin stale /\ u \notin Bearers(t)
    BY <1>1, <1>2 DEF Bearers
  <2>2. Bearers(t) = {}
    BY <1>2, <2>1
  <2> QED BY <1>1, <2>1, <2>2, PlaceKept DEF GInv, WireOK
<1>6. CancelledCloses'
  BY <1>1, <1>3, ClosesKept DEF Ends, GInv, GTypeOK
<1>7. InStep'
  <2>1. \A s \in Sockets, x \in Topics : Announced(x)' /\ Hears(s, x)' => (view[s][x] = db[x])'
    BY <1>5, ViewsInStep
  <2> QED BY <1>1, <1>6, <2>1, GatewayKept DEF InStep
<1> QED BY <1>2, <1>4, <1>5, <1>7 DEF GInv

LEMMA PublishStep ==
    ASSUME GInv, NEW u \in Updates, Publish(u)
    PROVE  GInv'
<1> DEFINE m == task[u]
           k == m.topic
<1>1. /\ callAt[u] = "publish" /\ Ends(u, "done") /\ wire' = Append(wire, m)
      /\ stale' = IF u \in beaten THEN stale \cup {k} ELSE stale \ {k}
      /\ UNCHANGED <<db, gateway, reopened>>
  BY DEF Publish
<1>2. /\ m \in News /\ k \in Topics
      /\ \A t \in Topics : Bearers(t)' = Bearers(t) \ {u}
      /\ CallsOK' /\ BearersOK'
      /\ u \in InFlight(k) /\ \A t \in Topics : t # k => u \notin InFlight(t)
  BY <1>1, EndKept, NewsTyped
<1>3. /\ wire \in Seq(News) /\ wire' \in Seq(News)
      /\ Len(wire) \in Nat /\ Len(wire') = Len(wire) + 1
      /\ \A i \in 1 .. Len(wire) : wire'[i] = wire[i]
      /\ wire'[Len(wire) + 1] = m
  BY <1>1, <1>2 DEF GInv, GTypeOK
<1>4. u \notin beaten => m.value = db[k]
  BY <1>2 DEF GInv, BearersOK, Bearers
<1> HIDE DEF m, k
<1>5. GTypeOK'
  BY <1>1, <1>2, <1>3 DEF GInv, GTypeOK, Ends, gateway
<1>6. WireOK'
  <2> SUFFICES ASSUME NEW t \in Topics, t \notin stale', Bearers(t)' = {}
               PROVE  Coming(t)' \/ Arrived(t)'
    BY DEF WireOK
  <2>1. CASE t = k
    <3>1. u \notin beaten
      BY <1>1, <2>1
    <3>2. wire'[Len(wire) + 1].topic = t /\ wire'[Len(wire) + 1].value = db'[t]
      BY <1>1, <1>3, <1>4, <2>1, <3>1 DEF k
    <3> QED BY <1>3, <3>2 DEF Coming
  <2>2. CASE t # k
    <3>1. t \notin stale /\ Bearers(t) = {}
      BY <1>1, <1>2, <2>2 DEF Bearers
    <3>2. m.topic # t
      BY <2>2 DEF k
    <3>3. CASE Coming(t)
      <4>1. PICK i \in 1 .. Len(wire) :
               /\ wire[i].topic = t /\ wire[i].value = db[t]
               /\ \A j \in i + 1 .. Len(wire) : wire[j].topic # t
        BY <3>3 DEF Coming
      <4>2. wire'[i].topic = t /\ wire'[i].value = db'[t] /\ i \in 1 .. Len(wire')
        BY <1>1, <1>3, <4>1
      <4>3. \A j \in i + 1 .. Len(wire') : wire'[j].topic # t
        BY <1>3, <3>2, <4>1
      <4> QED BY <4>2, <4>3 DEF Coming
    <3>4. CASE Arrived(t)
      <4>1. \A i \in 1 .. Len(wire') : wire'[i].topic # t
        BY <1>3, <3>2, <3>4 DEF Arrived
      <4> QED BY <1>1, <3>4, <4>1, GatewayKept DEF Arrived
    <3> QED BY <3>1, <3>3, <3>4 DEF GInv, WireOK
  <2> QED BY <2>1, <2>2
<1>7. CancelledCloses'
  BY <1>1, ClosesKept DEF Ends, GInv, GTypeOK
<1>8. InStep'
  <2>1. \A s \in Sockets, x \in Topics : Announced(x)' /\ Hears(s, x)' => (view[s][x] = db[x])'
    BY <1>6, ViewsInStep
  <2> QED BY <1>1, <1>7, <2>1, GatewayKept DEF InStep
<1> QED BY <1>2, <1>5, <1>6, <1>8 DEF GInv

-------------------------------------------------------------------------------
\* The gateway.

\* Taking the first message off the wire.
LEMMA Taken ==
    ASSUME GTypeOK, wire # <<>>, wire' = Tail(wire)
    PROVE  /\ Len(wire) \in Nat \ {0} /\ wire[1] = Head(wire)
           /\ Head(wire) \in News /\ wire' \in Seq(News)
           /\ Len(wire') = Len(wire) - 1
           /\ \A i \in 1 .. Len(wire') : wire'[i] = wire[i + 1]
BY DEF GTypeOK

\* What is on its way stays on its way, or was the message that was taken.
LEMMA ComingKept ==
    ASSUME GTypeOK, wire # <<>>, wire' = Tail(wire), UNCHANGED db,
           NEW t \in Topics, Coming(t)
    PROVE  \/ Coming(t)'
           \/ /\ Head(wire).topic = t /\ Head(wire).value = db[t]
              /\ \A i \in 1 .. Len(wire') : wire'[i].topic # t
              /\ \A i \in 2 .. Len(wire) : wire[i].topic # t
<1>1. PICK i \in 1 .. Len(wire) :
         /\ wire[i].topic = t /\ wire[i].value = db[t]
         /\ \A j \in i + 1 .. Len(wire) : wire[j].topic # t
  BY DEF Coming
<1>2. CASE i = 1
  BY <1>1, <1>2, Taken
<1>3. CASE i # 1
  <2>1. i - 1 \in 1 .. Len(wire') /\ wire'[i - 1] = wire[i]
    BY <1>3, Taken
  <2>2. \A j \in (i - 1) + 1 .. Len(wire') : wire'[j].topic # t
    BY <1>1, <2>1, Taken
  <2> QED BY <1>1, <2>1, <2>2 DEF Coming
<1> QED BY <1>2, <1>3

LEMMA HandleStep ==
    ASSUME GInv, Handle
    PROVE  GInv'
<1> DEFINE m == Head(wire)
<1>1. /\ wire # <<>> /\ wire' = Tail(wire)
      /\ view' = [s \in Sockets |->
                     IF Receives(s, m) THEN [view[s] EXCEPT ![m.topic] = m.value] ELSE view[s]]
      /\ UNCHANGED <<db, callAt, task, who, rooms, tracked, history>>
  BY DEF Handle
<1>2. GTypeOK
  BY DEF GInv
<1>3. m \in News /\ m.topic \in Topics /\ m.value \in Values[m.topic] /\ m.value \in Contents
  BY <1>1, <1>2, Taken, NewsTyped, ContentsHave
<1>4. /\ \A s \in Sockets, t \in Topics : t # m.topic => view'[s][t] = view[s][t]
      /\ \A s \in Sockets : Receives(s, m) => view'[s][m.topic] = m.value
      /\ \A s \in Sockets : ~Receives(s, m) => view'[s] = view[s]
      /\ view' \in [Sockets -> [Topics -> Contents \cup {Nothing}]]
  BY <1>1, <1>2, <1>3 DEF GTypeOK
<1> HIDE DEF m
<1>5. \A s \in Sockets : \A t \in Topics : view'[s][t] \in Values[t] \cup {Nothing}
  BY <1>2, <1>3, <1>4 DEF GTypeOK
<1>6. GTypeOK'
  BY <1>1, <1>2, <1>4, <1>5, Taken DEF GTypeOK, history
<1>7. CallsOK' /\ BearersOK' /\ \A t \in Topics : Bearers(t)' = Bearers(t)
  <2>1. \A t \in Topics : InFlight(t)' = InFlight(t)
    BY <1>1 DEF InFlight
  <2>2. \A t \in Topics : Bearers(t)' = Bearers(t)
    BY <1>1, <2>1 DEF Bearers, history
  <2> QED BY <1>1, <2>2 DEF GInv, CallsOK, BearersOK, history
<1>8. \A s \in Sockets, t \in Topics : Hears(s, t)' = Hears(s, t)
  BY <1>1, HearsSame
<1>9. WireOK'
  <2> SUFFICES ASSUME NEW t \in Topics, t \notin stale', Bearers(t)' = {}
               PROVE  Coming(t)' \/ Arrived(t)'
    BY DEF WireOK
  <2>1. Coming(t) \/ Arrived(t)
    BY <1>1, <1>7 DEF GInv, WireOK, history
  <2>2. CASE Coming(t)
    <3>1. CASE Coming(t)'
      BY <3>1
    <3>2. CASE /\ m.topic = t /\ m.value = db[t]
               /\ \A i \in 1 .. Len(wire') : wire'[i].topic # t
      <4>1. \A s \in Sockets : Hears(s, t) => view'[s][t] = db'[t]
        BY <1>1, <1>4, <3>2 DEF Receives
      <4> QED BY <1>8, <3>2, <4>1 DEF Arrived
    <3> QED BY <1>1, <1>2, <2>2, <3>1, <3>2, ComingKept DEF m
  <2>3. CASE Arrived(t)
    <3>1. m.topic # t /\ \A i \in 1 .. Len(wire') : wire'[i].topic # t
      BY <1>1, <1>2, <2>3, Taken DEF Arrived, m
    <3> QED BY <1>1, <1>4, <1>8, <2>3, <3>1 DEF Arrived
  <2> QED BY <2>1, <2>2, <2>3
<1>10. CancelledCloses'
  BY <1>1 DEF GInv, InStep, CancelledCloses, history
<1>11. \A s \in Sockets : view'[s].result # Nothing => who'[s] = Owner
  <2> SUFFICES ASSUME NEW s \in Sockets, view'[s]["result"] # Nothing
               PROVE  who'[s] = Owner
    OBVIOUS
  <2>1. CASE view'[s]["result"] = view[s]["result"]
    BY <1>1, <2>1 DEF GInv, InStep
  <2>2. CASE m.topic = "result" /\ Receives(s, m)
    BY <1>1, <1>3, <2>2, ValuesAre DEF Receives, Hears
  <2> QED BY <1>4, <2>1, <2>2, TopicsAre
<1>12. InStep'
  <2>1. \A s \in Sockets, x \in Topics : Announced(x)' /\ Hears(s, x)' => (view[s][x] = db[x])'
    BY <1>9, ViewsInStep
  <2> QED BY <1>10, <1>11, <2>1 DEF InStep
<1> QED BY <1>6, <1>7, <1>9, <1>12 DEF GInv

LEMMA LoseStep ==
    ASSUME GInv, Lose
    PROVE  GInv'
<1> DEFINE k == Head(wire).topic
<1>1. /\ wire # <<>> /\ wire' = Tail(wire)
      /\ stale' = IF \A i \in 2 .. Len(wire) : wire[i].topic # k THEN stale \cup {k} ELSE stale
      /\ UNCHANGED <<db, callAt, task, gateway, beaten, reopened>>
  BY DEF Lose
<1>2. GTypeOK
  BY DEF GInv
<1>3. k \in Topics
  BY <1>1, <1>2, Taken, NewsTyped
<1>4. GTypeOK'
  BY <1>1, <1>2, <1>3, Taken DEF GTypeOK, gateway
<1>5. CallsOK' /\ BearersOK' /\ \A t \in Topics : Bearers(t)' = Bearers(t)
  <2>1. \A t \in Topics : InFlight(t)' = InFlight(t)
    BY <1>1 DEF InFlight
  <2>2. \A t \in Topics : Bearers(t)' = Bearers(t)
    BY <1>1, <2>1 DEF Bearers
  <2> QED BY <1>1, <2>2 DEF GInv, CallsOK, BearersOK
<1>6. WireOK'
  <2> SUFFICES ASSUME NEW t \in Topics, t \notin stale', Bearers(t)' = {}
               PROVE  Coming(t)' \/ Arrived(t)'
    BY DEF WireOK
  <2>1. t \notin stale /\ Bearers(t) = {}
    BY <1>1, <1>5
  <2>2. CASE Coming(t)
    BY <1>1, <1>2, <2>2, ComingKept
  <2>3. CASE Arrived(t)
    <3>1. \A i \in 1 .. Len(wire') : wire'[i].topic # t
      BY <1>1, <1>2, <2>3, Taken DEF Arrived
    <3> QED BY <1>1, <2>3, <3>1, GatewayKept DEF Arrived
  <2> QED BY <2>1, <2>2, <2>3 DEF GInv, WireOK
<1>7. CancelledCloses'
  BY <1>1 DEF GInv, InStep, CancelledCloses
<1>8. InStep'
  <2>1. \A s \in Sockets, x \in Topics : Announced(x)' /\ Hears(s, x)' => (view[s][x] = db[x])'
    BY <1>6, ViewsInStep
  <2> QED BY <1>1, <1>7, <2>1, GatewayKept DEF InStep
<1> QED BY <1>4, <1>5, <1>6, <1>8 DEF GInv

-------------------------------------------------------------------------------
\* Connections.

\* The user and rooms of one connection change, and it reloads.
Moves(s) ==
    /\ \A r \in Sockets \ {s} : who'[r] = who[r] /\ rooms'[r] = rooms[r]
    /\ who' \in [Sockets -> {Owner, Anonymous, Nothing}] /\ rooms' \in [Sockets -> SUBSET Rooms]
    /\ tracked' \subseteq {Owner}
    /\ Reload(s) /\ UNCHANGED services

LEMMA MoveStep ==
    ASSUME GInv, NEW s \in Sockets, Moves(s)
    PROVE  GInv'
<1>1. GTypeOK
  BY DEF GInv
<1>2. /\ \A r \in Sockets \ {s} : view'[r] = view[r]
      /\ view'[s] = [t \in Topics |->
             IF ~Hears(s, t)' THEN Nothing ELSE IF Hears(s, t) THEN view[s][t] ELSE db[t]]
  BY <1>1 DEF Moves, Reload, GTypeOK
<1>3. \A t \in Topics : view'[s][t] =
         IF ~Hears(s, t)' THEN Nothing ELSE IF Hears(s, t) THEN view[s][t] ELSE db[t]
  BY <1>2
<1>4. \A t \in Topics : view'[s][t] \in Values[t] \cup {Nothing} /\ view'[s][t] \in Contents \cup {Nothing}
  BY <1>1, <1>3 DEF GTypeOK
<1>5. view' \in [Sockets -> [Topics -> Contents \cup {Nothing}]]
  BY <1>1, <1>2, <1>4 DEF GTypeOK, Moves, Reload
<1>6. \A r \in Sockets : \A t \in Topics : view'[r][t] \in Values[t] \cup {Nothing}
  BY <1>1, <1>2, <1>4 DEF GTypeOK
<1>7. UNCHANGED <<db, callAt, task, wire, beaten, stale, reopened>>
  BY DEF Moves, services
<1>8. GTypeOK'
  BY <1>1, <1>5, <1>6, <1>7 DEF GTypeOK, Moves
<1>9. CallsOK' /\ BearersOK' /\ \A t \in Topics : Bearers(t)' = Bearers(t)
  <2>1. \A t \in Topics : InFlight(t)' = InFlight(t)
    BY <1>7 DEF InFlight
  <2>2. \A t \in Topics : Bearers(t)' = Bearers(t)
    BY <1>7, <2>1 DEF Bearers
  <2> QED BY <1>7, <2>2 DEF GInv, CallsOK, BearersOK
<1>10. \A r \in Sockets \ {s}, t \in Topics : Hears(r, t)' = Hears(r, t)
  BY DEF Moves, Hears, Open
<1>11. WireOK'
  <2> SUFFICES ASSUME NEW t \in Topics, t \notin stale', Bearers(t)' = {}
               PROVE  Coming(t)' \/ Arrived(t)'
    BY DEF WireOK
  <2>1. Coming(t) \/ Arrived(t)
    BY <1>7, <1>9 DEF GInv, WireOK
  <2>2. CASE Coming(t)
    BY <1>7, <2>2 DEF Coming
  <2>3. CASE Arrived(t)
    <3>1. \A r \in Sockets : Hears(r, t)' => view'[r][t] = db'[t]
      BY <1>2, <1>3, <1>7, <1>10, <2>3 DEF Arrived
    <3> QED BY <1>7, <2>3, <3>1 DEF Arrived
  <2> QED BY <2>1, <2>2, <2>3
<1>12. CancelledCloses'
  BY <1>7 DEF GInv, InStep, CancelledCloses
<1>13. \A r \in Sockets : view'[r].result # Nothing => who'[r] = Owner
  <2>1. view'[s]["result"] # Nothing => who'[s] = Owner
    BY <1>3, TopicsAre DEF Hears
  <2>2. \A r \in Sockets \ {s} : view'[r]["result"] # Nothing => who'[r] = Owner
    BY <1>2 DEF Moves, GInv, InStep
  <2> QED BY <2>1, <2>2
<1>14. InStep'
  <2>1. \A r \in Sockets, x \in Topics : Announced(x)' /\ Hears(r, x)' => (view[r][x] = db[x])'
    BY <1>11, ViewsInStep
  <2> QED BY <1>12, <1>13, <2>1 DEF InStep
<1> QED BY <1>8, <1>9, <1>11, <1>14 DEF GInv

\* Each of them changes one connection.
LEMMA Moving ==
    ASSUME GInv, NEW s \in Sockets,
           \/ \E w \in {Owner, Anonymous} : Connect(s, w)
           \/ \E r \in Rooms : Subscribe(s, r)
           \/ Disconnect(s) \/ Unsubscribe(s)
    PROVE  Moves(s)
<1>1. GTypeOK
  BY DEF GInv
<1>2. CASE \E w \in {Owner, Anonymous} : Connect(s, w)
  BY <1>1, <1>2 DEF Connect, Moves, GTypeOK
<1>3. CASE \E r \in Rooms : Subscribe(s, r)
  BY <1>1, <1>3 DEF Subscribe, Moves, GTypeOK
<1>4. CASE Disconnect(s)
  BY <1>1, <1>4 DEF Disconnect, Moves, GTypeOK
<1>5. CASE Unsubscribe(s)
  BY <1>1, <1>5 DEF Unsubscribe, Moves, GTypeOK
<1> QED BY <1>2, <1>3, <1>4, <1>5

-------------------------------------------------------------------------------
\* What follows for every run.

LEMMA Step == GInv /\ [GNext]_gVars => GInv'
<1> SUFFICES ASSUME GInv, [GNext]_gVars PROVE GInv'
  OBVIOUS
<1>1. ASSUME NEW u \in Updates, UpdateScore(u) PROVE GInv'
  <2>1. PICK v \in Scores : Write(u, "score", v)
    BY <1>1 DEF UpdateScore
  <2> QED BY <2>1, WriteStep, TopicsAre, ValuesAre, ScoresAssumption
<1>2. ASSUME NEW u \in Updates, UpdateEventStatus(u) PROVE GInv'
  <2>1. PICK v \in Values["status"] : Write(u, "status", v)
    BY <1>2 DEF UpdateEventStatus
  <2> QED BY <2>1, WriteStep, TopicsAre, ValuesAre
<1>3. ASSUME NEW u \in Updates, SuspendMarket(u) \/ ResumeMarket(u) \/ SettleMarket(u) PROVE GInv'
  <2>1. PICK v \in Values["market"] : Write(u, "market", v)
    BY <1>3, ValuesAre DEF SuspendMarket, ResumeMarket, SettleMarket
  <2> QED BY <2>1, WriteStep, TopicsAre, ValuesAre
<1>4. ASSUME NEW u \in Updates, SettleBet(u) \/ CloseBet(u) PROVE GInv'
  <2>1. PICK v \in {"settled", "cashed"} : Write(u, "result", v)
    BY <1>4 DEF SettleBet, CloseBet
  <2> QED BY <2>1, WriteStep, TopicsAre, ValuesAre
<1>5. CASE UNCHANGED gVars
  <2>1. \A t \in Topics : Bearers(t)' = Bearers(t)
    BY <1>5 DEF Bearers, InFlight, gVars, history
  <2>2. \A t \in Topics : Coming(t)' = Coming(t) /\ Arrived(t)' = Arrived(t)
    BY <1>5, HearsSame DEF Coming, Arrived, gVars
  <2>3. GTypeOK' /\ CallsOK' /\ BearersOK' /\ WireOK'
    BY <1>5, <2>1, <2>2 DEF GInv, GTypeOK, CallsOK, BearersOK, WireOK, gVars, history
  <2>4. CancelledCloses'
    BY <1>5 DEF GInv, InStep, CancelledCloses, gVars, history
  <2>5. \A s \in Sockets, x \in Topics : Announced(x)' /\ Hears(s, x)' => (view[s][x] = db[x])'
    BY <2>3, ViewsInStep
  <2> QED BY <1>5, <2>3, <2>4, <2>5 DEF GInv, InStep, gVars
<1> QED BY <1>1, <1>2, <1>3, <1>4, <1>5, RefundStep, ClosingStep, SuspendStep, PublishStep, FailStep, HandleStep,
           LoseStep, Moving, MoveStep DEF GNext

\* The inductive invariant holds in every state: where the last write of each topic
\* is between the database and the clients.
THEOREM GatewayInvariance == GSpec => []GInv
BY Start, Step, PTL DEF GSpec

\* Topics, messages, connections and what they show keep their types.
THEOREM GatewayTypeCorrect == GSpec => []GTypeOK
<1>1. GInv => GTypeOK
  BY DEF GInv
<1> QED BY <1>1, GatewayInvariance, PTL

\* A client shows what the database has of all it hears of, unless the last write
\* was overtaken, lost or not published (a refund never is); a result is shown to its owner only.
THEOREM ClientsInStep == GSpec => []InStep
<1>1. GInv => InStep
  BY DEF GInv
<1> QED BY <1>1, GatewayInvariance, PTL

-------------------------------------------------------------------------------
\* Booking: its steps and invariant are Next and IInv.

USE DEF Goto, Loading, NoLocals, NoPast, world, loads

Steps == Loading \cup {"idle", "done"}

Locals == [booked : Odds \cup {None}, current : Odds \cup {None}, available : BOOLEAN,
           refused : {"no", "not found", "expired", "error"}]

Pasts == [odds : SUBSET Odds, known : BOOLEAN, at : Nat \cup {None}]

\* CodeLife for one load, with v in its local variables and h in its past.
Lived(v, h) ==
    /\ h.known /\ v.refused \in {"not found", "expired"} => h.at > row.expiresAt
    /\ v.booked # None /\ h.at > row.expiresAt => slow
    /\ v.current # None => v.current \in h.odds

\* The invariant of one load: the types, what it carries, and CodeLife.
LEMMA Load1 ==
    ASSUME IInv, NEW l \in Loads
    PROVE  /\ pc[l] \in Steps /\ local[l] \in Locals /\ past[l] \in Pasts
           /\ Carried(pc[l], local[l], past[l]) /\ Lived(local[l], past[l])
           /\ pc = [pc EXCEPT ![l] = pc[l]]
           /\ local = [local EXCEPT ![l] = local[l]]
           /\ past = [past EXCEPT ![l] = past[l]]
BY DEF IInv, TypeOK, LoadsOK, CodeLife, Lived, Steps, Locals, Pasts

\* A load that has not found or missed the booking has nothing.
LEMMA Fresh ==
    ASSUME IInv, NEW l \in Loads, pc[l] \in {"idle", "cache", "db"}
    PROVE  /\ local[l] \in Locals /\ local[l].booked = None
           /\ local[l].refused = "no" /\ local[l].current = None
<1>1. local[l] = NoLocals
  BY Load1 DEF Carried
<1> QED BY <1>1, Load1

\* A step of a load writes only its own variables, so the invariant survives when
\* what the load has after the step is typed, carried there, and within its life.
LEMMA LoadMoved ==
    ASSUME IInv, NEW l \in Loads, NEW at \in Steps, NEW v \in Locals, NEW h \in Pasts,
           pc' = [pc EXCEPT ![l] = at], local' = [local EXCEPT ![l] = v],
           past' = [past EXCEPT ![l] = h],
           Carried(at, v, h), Lived(v, h),
           UNCHANGED <<now, odds, open, row, cache, maker, slow>>
    PROVE  IInv'
<1>1. TypeOK /\ LoadsOK /\ CodeLife
  BY DEF IInv
<1>2. /\ pc' \in [Loads -> Steps] /\ local' \in [Loads -> Locals] /\ past' \in [Loads -> Pasts]
      /\ pc'[l] = at /\ local'[l] = v /\ past'[l] = h
      /\ \A m \in Loads \ {l} : pc'[m] = pc[m] /\ local'[m] = local[m] /\ past'[m] = past[m]
  BY <1>1 DEF TypeOK, Steps, Locals, Pasts
<1>3. TypeOK'
  BY <1>1, <1>2 DEF TypeOK, Steps, Locals, Pasts
<1>4. ASSUME NEW m \in Loads
      PROVE  Carried(pc[m], local[m], past[m])' /\ Lived(local[m], past[m])'
  <2>1. /\ Carried(pc'[m], local'[m], past'[m])
        /\ Lived(local'[m], past'[m])
    BY <1>2, Load1
  <2> QED BY <2>1 DEF Carried, Lived
<1>5. LoadsOK'
  BY <1>4 DEF LoadsOK
<1>6. CodeLife'
  BY <1>4 DEF CodeLife, Lived
<1>7. MadeInOrder' /\ EntryLives'
  BY DEF IInv, MadeInOrder, EntryLives
<1> QED BY <1>3, <1>5, <1>6, <1>7 DEF IInv

\* A time at which something is due is a time, and comes after now.
LEMMA Due == TypeOK => now \in Nat /\ now + Life \in Nat /\ now < now + Life
<1>1. TypeOK => now \in 0 .. EndTime
  BY DEF TypeOK
<1> QED BY <1>1, TimeAssumption

\* Nothing made, nothing loaded.
LEMMA InitIInv == Init => IInv
<1> SUFFICES ASSUME Init PROVE IInv
  OBVIOUS
<1> USE NoneAssumption, TimeAssumption DEF Init
<1>0. NoLocals \in Locals /\ NoPast \in Pasts
  BY DEF Locals, Pasts
<1>1. TypeOK
  <2>1. pc \in [Loads -> Steps] /\ local \in [Loads -> Locals] /\ past \in [Loads -> Pasts]
    BY <1>0 DEF Steps
  <2>2. now \in 0 .. EndTime
    OBVIOUS
  <2>3. maker \in [at : {"idle", "row", "cache", "done", "failed"},
                  booked : Odds \cup {None}, expiresAt : Nat \cup {None}]
    OBVIOUS
  <2> QED BY <2>1, <2>2, <2>3 DEF TypeOK, Steps, Locals, Pasts
<1>2. MadeInOrder /\ EntryLives /\ LoadsOK /\ CodeLife
  BY DEF MadeInOrder, EntryLives, LoadsOK, Carried, CodeLife
<1> QED BY <1>1, <1>2 DEF IInv

-------------------------------------------------------------------------------
\* The steps of the creation.

\* A step that leaves the loads alone keeps what they carry, when the code they know
\* stays made, the row stays, and the odds they began with are still in their past.
LEMMA LoadsStay ==
    ASSUME IInv, UNCHANGED <<pc, local, past, odds>>,
           maker.at = "done" => maker'.at = "done",
           row # None => row' # None
    PROVE  LoadsOK'
BY DEF IInv, LoadsOK, Carried

\* They keep their lives when the row's expiresAt stays and slow is not unset.
LEMMA LivesStay ==
    ASSUME IInv, UNCHANGED <<local, past>>,
           row # None => row' # None /\ row'.expiresAt = row.expiresAt,
           slow => slow'
    PROVE  CodeLife'
<1>1. ASSUME NEW l \in Loads PROVE Lived(local[l], past[l])'
  <2>1. /\ Lived(local[l], past[l]) /\ Carried(pc[l], local[l], past[l])
        /\ past[l].known => row # None
    BY Load1 DEF IInv, MadeInOrder, Carried
  <2> QED BY <2>1 DEF Lived, Carried
<1> QED BY <1>1 DEF CodeLife, Lived

\* The selections are read and expiresAt computed, or they are not open.
LEMMA ComputeIInv == ASSUME IInv, Compute PROVE IInv'
<1>1. /\ maker.at = "idle" /\ maker'.at \in {"row", "failed"}
      /\ UNCHANGED <<now, odds, open, row, cache, slow, pc, local, past>>
  BY DEF Compute, IInv, TypeOK
<1>2. now + Life \in Nat /\ odds \in Odds
  BY Due DEF IInv, TypeOK
<1>3. TypeOK' /\ MadeInOrder'
  <2>1. CASE open
    <3>1. maker' = [at |-> "row", booked |-> odds, expiresAt |-> now + Life]
      BY <2>1 DEF Compute
    <3> QED BY <1>1, <1>2, <3>1 DEF IInv, TypeOK, MadeInOrder
  <2>2. CASE ~open
    <3>1. maker' = [maker EXCEPT !.at = "failed"]
      BY <2>2 DEF Compute
    <3> QED BY <1>1, <3>1 DEF IInv, TypeOK, MadeInOrder
  <2> QED BY <2>1, <2>2
<1>4. EntryLives'
  BY <1>1 DEF IInv, EntryLives
<1> QED BY <1>1, <1>3, <1>4, LoadsStay, LivesStay DEF IInv

\* The row appears; no load has the booking yet, and none knows the code.
LEMMA CreateRowIInv == ASSUME IInv, CreateRow PROVE IInv'
<1>1. /\ maker.at = "row" /\ maker'.at = "cache" /\ row = None /\ cache = None /\ ~slow
      /\ maker.booked \in Odds /\ maker.expiresAt \in Nat
      /\ maker'.booked = maker.booked /\ maker'.expiresAt = maker.expiresAt
      /\ row' = [booked |-> maker.booked, expiresAt |-> maker.expiresAt, expired |-> FALSE]
      /\ UNCHANGED <<now, odds, open, cache, slow, pc, local, past>>
  BY DEF CreateRow, IInv, TypeOK, MadeInOrder
<1>2. row' \in Rows /\ row' # None
  <2>1. row' \in Rows
    BY <1>1 DEF Rows
  <2> QED BY <2>1, NoneAssumption
<1>3. TypeOK'
  BY <1>1, <1>2 DEF CreateRow, IInv, TypeOK
<1>4. MadeInOrder'
  BY <1>1, <1>2 DEF MadeInOrder
<1>5. EntryLives'
  BY <1>1 DEF EntryLives
<1>6. LoadsOK'
  BY <1>1, LoadsStay
<1> QED BY <1>1, <1>3, <1>4, <1>5, <1>6, LivesStay DEF IInv

\* The entry starts to live now; if that is not when expiresAt was computed, it is
\* remembered as slow.
LEMMA CacheBookingIInv == ASSUME IInv, CacheBooking PROVE IInv'
<1>1. /\ maker.at = "cache" /\ maker'.at = "done" /\ row # None /\ ~slow
      /\ row.expiresAt = maker.expiresAt
      /\ maker.booked \in Odds /\ maker.expiresAt \in Nat
      /\ maker'.booked = maker.booked /\ maker'.expiresAt = maker.expiresAt
      /\ cache' = [booked |-> maker.booked, gone |-> now + Life]
      /\ slow' = (now + Life # maker.expiresAt)
      /\ UNCHANGED <<now, odds, open, row, pc, local, past>>
  BY DEF CacheBooking, IInv, TypeOK, MadeInOrder
<1>2. cache' \in Entries /\ cache'.gone = now + Life /\ now \in Nat /\ now < now + Life
  <2>1. now \in Nat /\ now + Life \in Nat /\ now < now + Life
    BY Due DEF IInv
  <2> QED BY <1>1, <2>1 DEF Entries
<1>3. TypeOK'
  BY <1>1, <1>2 DEF CacheBooking, IInv, TypeOK
<1>4. MadeInOrder'
  BY <1>1, <1>2 DEF MadeInOrder, IInv
<1>5. EntryLives'
  BY <1>1, <1>2 DEF EntryLives
<1> QED BY <1>1, <1>3, <1>4, <1>5, LoadsStay, LivesStay DEF IInv

\* Nothing more is written.
LEMMA CreateFailsIInv == ASSUME IInv, CreateFails PROVE IInv'
<1>1. /\ maker.at \in {"row", "cache"} /\ maker'.at = "failed"
      /\ maker'.expiresAt = maker.expiresAt
      /\ UNCHANGED <<now, odds, open, row, cache, slow, pc, local, past>>
  BY DEF CreateFails, IInv, TypeOK
<1>2. TypeOK'
  BY DEF CreateFails, IInv, TypeOK
<1>3. MadeInOrder'
  BY <1>1 DEF IInv, MadeInOrder
<1>4. EntryLives'
  BY <1>1 DEF IInv, EntryLives
<1> QED BY <1>1, <1>2, <1>3, <1>4, LoadsStay, LivesStay DEF IInv

-------------------------------------------------------------------------------
\* The steps of a load.

\* A load begins with the odds there are; who has the code from its creation asks
\* after it was cached.
LEMMA LoadIInv == ASSUME IInv, NEW l \in Loads, Load(l) PROVE IInv'
<1> DEFINE h == [NoPast EXCEPT !.odds = {odds}, !.known = maker.at = "done"]
<1>1. /\ h \in Pasts /\ h.known = (maker.at = "done") /\ odds \in h.odds
  BY DEF Pasts, IInv, TypeOK
<1>2. /\ pc[l] = "idle" /\ local[l] = NoLocals
      /\ pc' = [pc EXCEPT ![l] = "cache"] /\ "cache" \in Steps
      /\ past' = [past EXCEPT ![l] = h]
      /\ local' = [local EXCEPT ![l] = local[l]] /\ local[l] \in Locals
      /\ UNCHANGED <<now, odds, open, row, cache, maker, slow>>
  BY Load1 DEF Load, Steps, Carried
<1> HIDE DEF h
<1>3. /\ local[l].booked = None /\ local[l].refused = "no" /\ local[l].current = None
  BY <1>2
<1>4. Carried("cache", local[l], h)
  BY <1>1, <1>2, <1>3 DEF Carried
<1>5. Lived(local[l], h)
  BY <1>3 DEF Lived
<1> QED BY <1>1, <1>2, <1>4, <1>5, LoadMoved

\* The booking is found at a time that is past expiresAt only after a slow caching.
LEMMA GotIInv ==
    ASSUME IInv, NEW l \in Loads, NEW booked \in Odds, pc[l] \in {"cache", "db"},
           Got(l, booked), row # None, now > row.expiresAt => slow,
           UNCHANGED <<now, odds, open, row, cache, maker, slow>>
    PROVE  IInv'
<1> DEFINE v == [local[l] EXCEPT !.booked = booked]
           h == [past[l] EXCEPT !.at = now]
<1>0. /\ local[l] \in Locals
      /\ local[l].booked = None /\ local[l].refused = "no" /\ local[l].current = None
  BY Fresh
<1>1. /\ v \in Locals /\ v.booked = booked /\ v.refused = "no" /\ v.current = None
  BY <1>0 DEF Locals
<1>2. /\ h \in Pasts /\ h.at = now /\ h.known = past[l].known /\ h.odds = past[l].odds
  BY Load1, Due DEF Pasts, IInv
<1>3. /\ pc' = [pc EXCEPT ![l] = "enrich"] /\ "enrich" \in Steps
      /\ past' = [past EXCEPT ![l] = h]
      /\ local' = [local EXCEPT ![l] = v]
  BY DEF Got, Steps
<1> HIDE DEF v, h
<1>4. Carried("enrich", v, h) /\ Lived(v, h)
  BY <1>1, <1>2, Load1 DEF Carried, Lived
<1> QED BY <1>1, <1>2, <1>3, <1>4, LoadMoved

\* A refusal of a code that was answered comes after expiresAt.
LEMMA RefuseIInv ==
    ASSUME IInv, NEW l \in Loads, NEW why \in {"not found", "expired"}, pc[l] = "db",
           Refuse(l, why), past[l].known => now > row.expiresAt,
           UNCHANGED <<now, odds, open, row, cache, maker, slow>>
    PROVE  IInv'
<1> DEFINE v == [local[l] EXCEPT !.refused = why]
           h == [past[l] EXCEPT !.at = now]
<1>0. /\ local[l] \in Locals
      /\ local[l].booked = None /\ local[l].refused = "no" /\ local[l].current = None
  BY Fresh
<1>1. /\ v \in Locals /\ v.booked = None /\ v.refused = why /\ v.current = None
  <2>1. why \in {"no", "not found", "expired", "error"}
    OBVIOUS
  <2> QED BY <1>0, <2>1 DEF Locals
<1>2. /\ h \in Pasts /\ h.at = now /\ h.known = past[l].known /\ h.odds = past[l].odds
  BY Load1, Due DEF Pasts, IInv
<1>3. /\ pc' = [pc EXCEPT ![l] = "done"] /\ "done" \in Steps
      /\ past' = [past EXCEPT ![l] = h]
      /\ local' = [local EXCEPT ![l] = v]
  BY DEF Refuse, Steps
<1> HIDE DEF v, h
<1>4. Carried("done", v, h) /\ Lived(v, h)
  BY <1>1, <1>2, Load1 DEF Carried, Lived
<1> QED BY <1>1, <1>2, <1>3, <1>4, LoadMoved

\* An entry that is still there is not due, and due at expiresAt unless it was slow.
LEMMA LoadCachedIInv == ASSUME IInv, NEW l \in Loads, LoadCached(l) PROVE IInv'
<1>1. pc[l] = "cache" /\ UNCHANGED <<now, odds, open, row, cache, maker, slow>>
  BY DEF LoadCached
<1>2. CASE cache # None
  <2>1. cache.booked \in Odds /\ now < cache.gone /\ (slow \/ cache.gone = row.expiresAt)
        /\ row # None
    BY <1>2 DEF IInv, TypeOK, EntryLives, MadeInOrder, Entries
  <2>2. cache.gone \in Nat /\ now \in Nat
    BY <1>2, Due DEF IInv, TypeOK, Entries
  <2>3. now > row.expiresAt => slow
    BY <2>1, <2>2
  <2>4. Got(l, cache.booked)
    BY <1>2 DEF LoadCached
  <2> QED BY <1>1, <2>1, <2>3, <2>4, GotIInv
<1>3. CASE cache = None
  <2>1. pc' = [pc EXCEPT ![l] = "db"] /\ "db" \in Steps /\ UNCHANGED <<local, past>>
    BY <1>3 DEF LoadCached, Steps
  <2>2. Carried("db", local[l], past[l])
    BY <1>1, Load1 DEF Carried
  <2> QED BY <1>1, <2>1, <2>2, Load1, LoadMoved
<1> QED BY <1>2, <1>3

\* A row is there once its code was answered, and marked only after expiresAt.
LEMMA LoadStoredIInv == ASSUME IInv, NEW l \in Loads, LoadStored(l) PROVE IInv'
<1>1. pc[l] = "db" /\ UNCHANGED <<now, odds, open, row, cache, maker, slow>>
  BY DEF LoadStored
<1>2. CASE row = None
  <2>1. ~past[l].known
    BY <1>2, Load1 DEF Carried, IInv, MadeInOrder
  <2>2. Refuse(l, "not found")
    BY <1>2 DEF LoadStored
  <2> QED BY <1>1, <2>1, <2>2, RefuseIInv
<1>3. CASE row # None
  <2>1. row \in Rows /\ row.expiresAt \in Nat /\ row.booked \in Odds /\ now \in Nat
    BY <1>3, Due DEF IInv, TypeOK, Rows
  <2>2. CASE row.expired \/ row.expiresAt < now
    <3>1. now > row.expiresAt
      BY <1>3, <2>1, <2>2 DEF IInv, MadeInOrder
    <3>2. Refuse(l, "expired")
      <4>1. ~(~row.expired /\ row.expiresAt >= now)
        BY <2>1, <2>2
      <4> HIDE DEF Goto
      <4> QED BY <1>3, <4>1 DEF LoadStored
    <3> QED BY <1>1, <3>1, <3>2, RefuseIInv
  <2>3. CASE ~row.expired /\ row.expiresAt >= now
    <3>1. Got(l, row.booked)
      <4>1. ~(row.expired \/ row.expiresAt < now)
        BY <2>1, <2>3
      <4> QED BY <1>3, <4>1 DEF LoadStored
    <3>2. ~(now > row.expiresAt)
      BY <2>1, <2>3
    <3> QED BY <1>1, <1>3, <2>1, <3>1, <3>2, GotIInv
  <2> QED BY <2>1, <2>2, <2>3
<1> QED BY <1>2, <1>3

\* The answer shows the odds there are, which the load has seen.
LEMMA EnrichIInv == ASSUME IInv, NEW l \in Loads, Enrich(l) PROVE IInv'
<1> DEFINE v == [local[l] EXCEPT !.current = odds, !.available = open]
<1>1. /\ v \in Locals /\ v.booked = local[l].booked /\ v.refused = local[l].refused
      /\ v.current = odds
  BY Load1 DEF Locals, IInv, TypeOK
<1>2. /\ pc[l] = "enrich" /\ pc' = [pc EXCEPT ![l] = "done"] /\ "done" \in Steps
      /\ local' = [local EXCEPT ![l] = v]
      /\ UNCHANGED <<now, odds, open, row, cache, maker, slow, past>>
  BY DEF Enrich, Steps
<1> HIDE DEF v
<1>3. Carried("done", v, past[l]) /\ Lived(v, past[l])
  BY <1>1, <1>2, Load1 DEF Carried, Lived
<1> QED BY <1>1, <1>2, <1>3, Load1, LoadMoved

\* An error tells nobody anything about the code.
LEMMA LoadFailsIInv == ASSUME IInv, NEW l \in Loads, LoadFails(l) PROVE IInv'
<1> DEFINE v == [local[l] EXCEPT !.refused = "error"]
<1>1. /\ v \in Locals /\ v.booked = local[l].booked /\ v.refused = "error"
      /\ v.current = local[l].current
  BY Load1 DEF Locals
<1>2. /\ pc' = [pc EXCEPT ![l] = "done"] /\ "done" \in Steps
      /\ local' = [local EXCEPT ![l] = v]
      /\ UNCHANGED <<now, odds, open, row, cache, maker, slow, past>>
  BY DEF LoadFails, Steps
<1> HIDE DEF v
<1>3. Carried("done", v, past[l]) /\ Lived(v, past[l])
  BY <1>1, Load1 DEF Carried, Lived
<1> QED BY <1>1, <1>2, <1>3, Load1, LoadMoved

-------------------------------------------------------------------------------
\* The job, the operators and time.

\* The job marks a row that has expired.
LEMMA ExpireOldIInv == ASSUME IInv, ExpireOld PROVE IInv'
<1>1. /\ row \in Rows /\ row # None /\ row.expiresAt < now
      /\ row' = [row EXCEPT !.expired = TRUE]
      /\ UNCHANGED <<now, odds, open, cache, maker, slow, pc, local, past>>
  BY DEF ExpireOld, IInv, TypeOK
<1>2. row' \in Rows /\ row'.expiresAt = row.expiresAt /\ row'.expired
  BY <1>1 DEF Rows
<1>3. row' # None
  BY <1>2, NoneAssumption
<1>4. TypeOK'
  BY <1>1, <1>2 DEF IInv, TypeOK
<1>5. MadeInOrder' /\ EntryLives'
  BY <1>1, <1>2, <1>3 DEF IInv, MadeInOrder, EntryLives
<1> QED BY <1>1, <1>2, <1>3, <1>4, <1>5, LoadsStay, LivesStay DEF IInv

\* New odds are added to the past of every load in progress.
LEMMA UpdateOddsIInv == ASSUME IInv, UpdateOdds PROVE IInv'
<1>1. /\ odds' \in Odds /\ UNCHANGED <<now, open, row, cache, maker, slow, pc, local>>
  BY DEF UpdateOdds
<1>2. ASSUME NEW l \in Loads
      PROVE  /\ past'[l] \in Pasts
             /\ Carried(pc[l], local[l], past[l])' /\ Lived(local[l], past[l])'
  <2>1. CASE pc[l] \in Loading
    <3>1. past'[l] = [past[l] EXCEPT !.odds = past[l].odds \cup {odds'}]
      BY <2>1 DEF UpdateOdds
    <3>2. /\ past'[l] \in Pasts
          /\ past'[l].known = past[l].known /\ past'[l].at = past[l].at
          /\ past'[l].odds = past[l].odds \cup {odds'}
      BY <1>1, <3>1, Load1 DEF Pasts
    <3> QED BY <1>1, <2>1, <3>2, Load1 DEF Carried, Lived
  <2>2. CASE pc[l] \notin Loading
    <3>1. past'[l] = past[l]
      BY <2>2 DEF UpdateOdds
    <3> QED BY <1>1, <2>2, <3>1, Load1 DEF Carried, Lived
  <2> QED BY <2>1, <2>2
<1>3. past' \in [Loads -> Pasts]
  BY <1>2 DEF UpdateOdds
<1>4. TypeOK'
  BY <1>1, <1>3 DEF IInv, TypeOK, Pasts
<1>5. LoadsOK' /\ CodeLife'
  BY <1>2 DEF LoadsOK, CodeLife, Lived
<1>6. MadeInOrder' /\ EntryLives'
  BY <1>1 DEF IInv, MadeInOrder, EntryLives
<1> QED BY <1>4, <1>5, <1>6 DEF IInv

\* The market and its selection close and open.
LEMMA ToggleMarketIInv == ASSUME IInv, ToggleMarket PROVE IInv'
<1>1. open' \in BOOLEAN /\ UNCHANGED <<now, odds, row, cache, maker, slow, pc, local, past>>
  BY DEF ToggleMarket
<1>2. TypeOK' /\ MadeInOrder' /\ EntryLives'
  BY <1>1 DEF IInv, TypeOK, MadeInOrder, EntryLives
<1> QED BY <1>1, <1>2, LoadsStay, LivesStay DEF IInv

\* Time passes and an entry that is due goes.
LEMMA TickIInv == ASSUME IInv, Tick PROVE IInv'
<1>1. /\ now < EndTime /\ now' = now + 1
      /\ cache' = IF cache # None /\ cache.gone <= now' THEN None ELSE cache
      /\ UNCHANGED <<odds, open, row, maker, slow, pc, local, past>>
  BY DEF Tick
<1>2. now' \in 0 .. EndTime /\ now \in Nat /\ now' > now
  <2>1. now \in 0 .. EndTime
    BY DEF IInv, TypeOK
  <2> QED BY <1>1, <2>1, TimeAssumption
<1>3. TypeOK'
  BY <1>1, <1>2 DEF IInv, TypeOK
<1>4. row # None => row.expiresAt \in Nat
  BY DEF IInv, TypeOK, Rows
<1>5. MadeInOrder'
  BY <1>1, <1>2, <1>4 DEF IInv, MadeInOrder
<1>6. cache # None => cache.gone \in Nat
  BY DEF IInv, TypeOK, Entries
<1>7. EntryLives'
  BY <1>1, <1>2, <1>6 DEF IInv, EntryLives
<1> QED BY <1>1, <1>3, <1>5, <1>7, LoadsStay, LivesStay DEF IInv

\* The entry is lost.
LEMMA EvictIInv == ASSUME IInv, Evict PROVE IInv'
<1>1. cache' = None /\ UNCHANGED <<now, odds, open, row, maker, slow, pc, local, past>>
  BY DEF Evict
<1>2. TypeOK' /\ MadeInOrder' /\ EntryLives'
  BY <1>1 DEF IInv, TypeOK, MadeInOrder, EntryLives
<1> QED BY <1>1, <1>2, LoadsStay, LivesStay DEF IInv

-------------------------------------------------------------------------------

\* Every step keeps the invariant.
LEMMA NextIInv == ASSUME IInv, [Next]_vars PROVE IInv'
<1>1. CASE UNCHANGED vars
  BY <1>1 DEF vars, IInv, TypeOK, MadeInOrder, EntryLives, LoadsOK, Carried, CodeLife
<1>2. CASE Compute \/ CreateRow \/ CacheBooking \/ CreateFails
  BY <1>2, ComputeIInv, CreateRowIInv, CacheBookingIInv, CreateFailsIInv
<1>3. CASE \E l \in Loads : Load(l) \/ LoadStep(l)
  BY <1>3, LoadIInv, LoadCachedIInv, LoadStoredIInv, EnrichIInv, LoadFailsIInv DEF LoadStep
<1>4. CASE ExpireOld \/ UpdateOdds \/ ToggleMarket \/ Tick \/ Evict
  BY <1>4, ExpireOldIInv, UpdateOddsIInv, ToggleMarketIInv, TickIInv, EvictIInv
<1> QED BY <1>1, <1>2, <1>3, <1>4 DEF Next

\* The inductive invariant holds in every state: the order in which the row and the
\* entry are made and go, and what every load has read of them.
THEOREM Invariance == Spec => []IInv
BY InitIInv, NextIInv, PTL DEF Spec

\* The clock, the row, the entry and the loads keep their types.
THEOREM TypeCorrect == Spec => []TypeOK
<1>1. IInv => TypeOK
  BY DEF IInv
<1> QED BY <1>1, Invariance, PTL

\* An answered code is not refused while it lives and is not served afterwards,
\* unless its caching was slow; the odds shown are odds of the load's time.
THEOREM LoadsWhileItLives == Spec => []CodeLife
<1>1. IInv => CodeLife
  BY DEF IInv
<1> QED BY <1>1, Invariance, PTL

===============================================================================
