------------------------------ MODULE OddsCache ------------------------------
(***************************************************************************)
(* odds.service.ts for one selection: the odds in the database, their copy *)
(* in Redis (odds:cache:<id>, TTL 30 s), the odds lock (odds:lock:<id>,    *)
(* TTL 30 s), the operators who update the odds and the placements that    *)
(* lock and validate them (steps 3 and 6 of placeBet), one step per await. *)
(***************************************************************************)
EXTENDS Integers, Sequences, FiniteSets

CONSTANTS
    Placements,   \* placeBet calls with this selection
    Updates,      \* updateOdds calls
    Odds,         \* decimal odds, as integers (the column is Decimal(10,4))
    Policies,     \* oddsChangePolicy
    Tolerance,    \* ODDS_CHANGE_TOLERANCE, in percent
    None          \* no cache entry, no lock, no value

ASSUME ToleranceAssumption == Tolerance \in Nat
ASSUME OddsAssumption == Odds \subseteq Nat \ {0} /\ None \notin Odds \cup Placements

VARIABLES
    odds,     \* Selection.odds
    cache,    \* odds:cache:<id>
    lock,     \* odds:lock:<id>: the placement whose token is stored
    pc,       \* where each call is
    local,    \* the local variables of each call in progress
    changes,  \* the OddsHistory rows of the selection, in the order of their commits
    stale,    \* history: the cache was filled with odds already replaced
    met       \* history: pairs of updates that were in flight together

updateVars == <<changes, met>>
vars == <<odds, cache, lock, pc, local, stale, updateVars>>

Calls == Placements \cup Updates

Working == {"lock", "get", "db", "fill", "judge", "hold", "release", "write", "invalidate"}

\* shown: sel.odds as fetched, oldOdds of an update; policy; reads: the
\* getCurrentOdds finished; got: the odds last read, or the odds to write; price:
\* lockedOdds, what an accepted placement gets.  History: since, the changes there
\* were when shown was read; misled, whether got came from an entry that disagreed with
\* the database, and that was explained.
NoLocals == [shown |-> None, policy |-> None, reads |-> 0, got |-> None, price |-> None,
             since |-> 0, misled |-> FALSE]

Init ==
    /\ odds \in Odds
    /\ cache = None
    /\ lock = None
    /\ pc = [c \in Calls |-> "idle"]
    /\ local = [c \in Calls |-> NoLocals]
    /\ changes = <<>>
    /\ stale = FALSE
    /\ met = {}

Goto(c, l) == pc' = [pc EXCEPT ![c] = l]

\* The call, or its try block, ends and its local variables with it.
Leave(c, l) ==
    /\ Goto(c, l)
    /\ local' = [local EXCEPT ![c] = NoLocals]

\* The entry may disagree with the database: a reader filled it with odds that had been
\* replaced since it read them, or an update has not deleted it yet, or died before.
Explained == stale \/ \E q \in Updates : pc[q] \in {"invalidate", "half"}

-------------------------------------------------------------------------------
\* A placement.

\* selection.findMany: the odds the later ones are compared with.
Fetch(p) ==
    /\ pc[p] = "idle"
    /\ \E y \in Policies :
          local' = [local EXCEPT ![p] = [@ EXCEPT !.shown = odds, !.policy = y,
                                                  !.since = Len(changes)]]
    /\ Goto(p, "lock")
    /\ UNCHANGED <<odds, cache, lock, stale, updateVars>>

\* lockOdds: a taken lock is logged and ignored.
LockOdds(p) ==
    /\ pc[p] = "lock"
    /\ lock' = IF lock = None THEN p ELSE lock
    /\ Goto(p, "get")
    /\ UNCHANGED <<odds, cache, local, stale, updateVars>>

\* Faulty Answer: a third reading.
AnswerThrice(p, x, m) ==
    LET v == [local[p] EXCEPT !.reads = @ + 1]
    IN  IF local[p].reads < 2
        THEN /\ local' = [local EXCEPT ![p] = [v EXCEPT !.got = None]]
             /\ Goto(p, "get")
        ELSE /\ local' = [local EXCEPT ![p] = [v EXCEPT !.got = x, !.misled = m]]
             /\ Goto(p, "judge")

\* lockOdds and validateOddsAtPlacement each call getCurrentOdds; the placement does not
\* use the first answer, and judges the second.
Answer(p, x, m) ==
    LET v == [local[p] EXCEPT !.reads = @ + 1]
    IN  IF local[p].reads = 0
        THEN /\ local' = [local EXCEPT ![p] = [v EXCEPT !.got = None]]
             /\ Goto(p, "get")
        ELSE /\ local' = [local EXCEPT ![p] = [v EXCEPT !.got = x, !.misled = m]]
             /\ Goto(p, "judge")

\* getCurrentOdds: redis.get
GetCached(p) ==
    /\ pc[p] = "get"
    /\ IF cache # None
       THEN Answer(p, cache, cache # odds /\ Explained)
       ELSE Goto(p, "db") /\ UNCHANGED local
    /\ UNCHANGED <<odds, cache, lock, stale, updateVars>>

\* getCurrentOdds: selection.findUnique
GetStored(p) ==
    /\ pc[p] = "db"
    /\ local' = [local EXCEPT ![p] = [@ EXCEPT !.got = odds]]
    /\ Goto(p, "fill")
    /\ UNCHANGED <<odds, cache, lock, stale, updateVars>>

\* getCurrentOdds: redis.set with the TTL.
Fill(p) ==
    /\ pc[p] = "fill"
    /\ cache' = local[p].got
    /\ stale' = (local[p].got # odds)
    /\ Answer(p, local[p].got, FALSE)
    /\ UNCHANGED <<odds, lock, updateVars>>

\* The relative change: a boundary value is within.
Within(was, now) == (was - now) * 100 <= Tolerance * was

\* Only worse odds are refused: always under REJECT and ACCEPT_BETTER, beyond the
\* tolerance under ACCEPT_ANY.
Acceptable(was, now, y) ==
    now < was => y = "ACCEPT_ANY" /\ Within(was, now)

Judge(p) ==
    LET v == local[p]
    IN  /\ pc[p] = "judge"
        /\ IF Acceptable(v.shown, v.got, v.policy)
           THEN /\ local' = [local EXCEPT ![p] =
                     [v EXCEPT !.price = v.got, !.got = None, !.policy = None]]
                /\ Goto(p, "hold")
           ELSE Leave(p, "release")
        /\ UNCHANGED <<odds, cache, lock, stale, updateVars>>

\* Risk check, reservation and bet, all at this price; or an error.
Hold(p) ==
    /\ pc[p] = "hold"
    /\ Leave(p, "release")
    /\ UNCHANGED <<odds, cache, lock, stale, updateVars>>

ReleaseOddsLock(p) ==
    /\ pc[p] = "release"
    /\ lock' = IF lock = p THEN None ELSE lock
    /\ Goto(p, "done")
    /\ UNCHANGED <<odds, cache, local, stale, updateVars>>

-------------------------------------------------------------------------------
\* updateOdds

Updating == {q \in Updates : pc[q] \in {"write", "invalidate"}}

Begin(q, old) ==
    /\ pc[q] = "idle"
    /\ \E x \in Odds : local' = [local EXCEPT ![q] = [@ EXCEPT !.got = x, !.shown = old]]
    /\ Goto(q, "write")
    /\ met' = met \cup {{q, r} : r \in Updating}
    /\ UNCHANGED <<odds, cache, lock, stale, changes>>

\* Faulty UpdateOdds: oldOdds is what getCurrentOdds returns.
UpdateCached(q) == Begin(q, IF cache # None THEN cache ELSE odds)

\* selection.findUnique; its odds are oldOdds.
UpdateOdds(q) == Begin(q, odds)

\* The transaction: the selection and its history row.  The odds lock is not
\* consulted.
Write(q) ==
    /\ pc[q] = "write"
    /\ odds' = local[q].got
    /\ changes' = Append(changes, [old |-> local[q].shown, new |-> local[q].got, by |-> q])
    /\ Goto(q, "invalidate")
    /\ UNCHANGED <<cache, lock, local, stale, met>>

\* Faulty Invalidate: the entry is left to its TTL.
InvalidateNothing(q) ==
    /\ pc[q] = "invalidate"
    /\ Leave(q, "done")
    /\ UNCHANGED <<odds, cache, lock, stale, updateVars>>

\* Faulty Invalidate: the entry is refreshed with the odds this update wrote.
InvalidateRefresh(q) ==
    /\ pc[q] = "invalidate"
    /\ cache' = local[q].got
    /\ stale' = FALSE
    /\ Leave(q, "done")
    /\ UNCHANGED <<odds, lock, updateVars>>

\* redis.del
Invalidate(q) ==
    /\ pc[q] = "invalidate"
    /\ cache' = None
    /\ stale' = FALSE
    /\ Leave(q, "done")
    /\ UNCHANGED <<odds, lock, updateVars>>

-------------------------------------------------------------------------------
\* Failures and time.

\* The process dies, or Redis or the database does not answer.
Crash(c) ==
    /\ pc[c] \in Working
    /\ Leave(c, IF pc[c] = "invalidate" THEN "half" ELSE "done")
    /\ UNCHANGED <<odds, cache, lock, stale, updateVars>>

ExpireCache ==
    /\ cache # None
    /\ cache' = None
    /\ stale' = FALSE
    /\ UNCHANGED <<odds, lock, pc, local, updateVars>>

ExpireLock ==
    /\ lock # None
    /\ lock' = None
    /\ UNCHANGED <<odds, cache, pc, local, stale, updateVars>>

Advance(c) ==
    IF c \in Updates
    THEN Write(c) \/ Invalidate(c)
    ELSE \/ LockOdds(c) \/ GetCached(c) \/ GetStored(c) \/ Fill(c)
         \/ Judge(c) \/ Hold(c) \/ ReleaseOddsLock(c)

Next ==
    \/ \E p \in Placements : Fetch(p)
    \/ \E q \in Updates : UpdateOdds(q)
    \/ \E c \in Calls : Advance(c) \/ Crash(c)
    \/ ExpireCache \/ ExpireLock

Spec == Init /\ [][Next]_vars

-------------------------------------------------------------------------------
\* Properties.

TypeOK ==
    /\ odds \in Odds
    /\ cache \in Odds \cup {None}
    /\ lock \in Placements \cup {None}
    /\ pc \in [Calls -> Working \cup {"idle", "done", "half"}]
    /\ local \in [Calls -> [shown : Odds \cup {None}, policy : Policies \cup {None},
                            reads : 0 .. 2, got : Odds \cup {None},
                            price : Odds \cup {None}, since : Nat, misled : BOOLEAN]]
    /\ changes \in Seq([old : Odds, new : Odds, by : Updates])
    /\ stale \in BOOLEAN
    /\ met \subseteq SUBSET Updates

\* What a call at a step has in its local variables.
Carried(at, v) ==
    /\ at \in {"idle", "lock"} => v.reads = 0
    /\ at \in {"get", "db", "fill"} => v.reads \in 0 .. 1
    /\ at \in {"fill", "judge", "write"} => v.got \in Odds
    /\ at \in {"lock", "get", "db", "fill", "judge", "write"} => v.shown \in Odds
    /\ at # "hold" => v.price = None

LocalsOK == \A c \in Calls : Carried(pc[c], local[c])

\* Updates that are in flight know of each other.
OverlapsMet == \A q, r \in Updating : q # r => {q, r} \in met

\* The odds an update will record as old are the current ones, or were replaced by
\* the last change, whose update it met.
ShownCurrent ==
    \A q \in Updates :
        pc[q] = "write" =>
            \/ local[q].shown = odds
            \/ changes # <<>> /\ {changes[Len(changes)].by, q} \in met

\* The cache disagrees with the database only while an update has not invalidated
\* it yet (or died before it did), or when a reader filled it with odds that had
\* been replaced since it read them.
StaleExplained ==
    cache \notin {None, odds} => Explained

\* The odds that a placement with the locals v fetched, or that were written since.
Lived(v, x) ==
    \/ x = v.shown
    \/ \E i \in v.since + 1 .. Len(changes) : changes[i].new = x

\* A placement is priced at odds the selection had at some moment between its fetch and
\* its price, never at older ones, although both of its readings may come from an entry
\* that others filled and updates race to delete, and the odds lock stops nobody; the
\* exception is an entry that disagreed with the database when it was read, as explained.
PriceLived ==
    \A p \in Placements :
        local[p].price # None => local[p].misled \/ Lived(local[p], local[p].price)

\* What a placement reads from the database is of its time, and so is what it judges.
ReadingsOK ==
    \A p \in Placements :
        LET v == local[p]
        IN  /\ v.since \in 0 .. Len(changes)
            /\ pc[p] \in {"lock", "get", "db", "fill", "judge"} => Lived(v, odds)
            /\ pc[p] = "fill" => Lived(v, v.got)
            /\ pc[p] = "judge" => v.misled \/ Lived(v, v.got)

\* The history of the odds is a chain that ends at the odds there are: each change
\* starts from what the one before it left, unless the two overlapped, whatever
\* the cache says and whichever updates die.
ChangesChain ==
    /\ \A i \in 1 .. Len(changes) - 1 :
          \/ changes[i + 1].old = changes[i].new
          \/ {changes[i].by, changes[i + 1].by} \in met
    /\ changes # <<>> => changes[Len(changes)].new = odds

\* The inductive invariant: the types, what the local variables hold, what explains a
\* stale entry and a broken chain, and of what time each reading is.
IInv ==
    /\ TypeOK /\ LocalsOK
    /\ StaleExplained
    /\ OverlapsMet /\ ShownCurrent /\ ChangesChain
    /\ ReadingsOK /\ PriceLived
===============================================================================
