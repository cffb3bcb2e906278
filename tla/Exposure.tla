------------------------------- MODULE Exposure -------------------------------
(***************************************************************************)
(* The exposure a bet adds: the user's counter in Redis (risk.service.ts)  *)
(* and Market.currentExposure, from the placement that counts them to the  *)
(* operations that release them.                                           *)
(*                                                                         *)
(* The counter is kept by separate Redis commands: trackUserExposure is    *)
(* EXISTS, maybe SETEX 0, INCRBY; releaseUserExposure is GET, SET, and the *)
(* SET drops the TTL of the key.  Between its transaction and the release  *)
(* a settlement adds the bet to the user's risk profile, which it reads    *)
(* and writes in two statements.  Of the operations on the bet only what   *)
(* the counters depend on is kept: the status and potentialWin they read,  *)
(* and the transaction that writes them (BetLifecycle has the rest).       *)
(*                                                                         *)
(* EInit, ENext, ESpec, EInv and requestAt are what other modules call     *)
(* Init, Next, Spec, IInv and pc: RedisProofs extends Exposure and         *)
(* OddsCache.                                                              *)
(***************************************************************************)
EXTENDS Integers, FiniteSets

CONSTANTS
    Requests,   \* settle, cancel and cashout calls
    Win,        \* potentialWin of the bet as placed
    PartWins,   \* potentialWin after a partial cashout
    NoKey       \* no such key

ASSUME WinAssumption == Win \in Nat \ {0} /\ PartWins \subseteq Nat
ASSUME NoneAssumption == NoKey \notin [value : Nat, ttl : BOOLEAN]

VARIABLES
    bet,       \* the Bet row: status and potentialWin
    counter,   \* exposure:user:<user>: value, and whether it has a TTL
    exposure,  \* Market.currentExposure
    profile,   \* RiskProfile.totalBets of the user
    tail,      \* where placeBet is, after its transaction
    requestAt, \* where each request is
    view,      \* what each request has read
    saved,     \* history: the requests that wrote the profile
    raced,     \* history: two of them had read it before either wrote
    early,     \* history: a release began before the bet was counted
    expired    \* history: the counter's TTL ran out

profileVars == <<profile, saved, raced>>
eVars == <<bet, counter, exposure, profileVars, tail, requestAt, view, early, expired>>

Running == {"settling", "cancelling", "closing", "cutting", "profile", "save", "get", "set"}

\* potentialWin, the counter and the profile's bets, as read.
NoView == [win |-> 0, count |-> 0, bets |-> 0]

EInit ==
    /\ bet = [status |-> "ACCEPTED", win |-> Win]
    /\ counter = NoKey
    /\ exposure = 0
    /\ profile = 0
    /\ saved = {}
    /\ raced = FALSE
    /\ tail = "exists"
    /\ requestAt = [p \in Requests |-> "idle"]
    /\ view = [p \in Requests |-> NoView]
    /\ early = FALSE
    /\ expired = FALSE

Key(v, ttl) == [value |-> v, ttl |-> ttl]

-------------------------------------------------------------------------------
\* placeBet, step 11: trackUserExposure and updateMarketExposure.

\* EXISTS; the market's increment, issued at the same time, is one statement.
TrackExists ==
    /\ tail = "exists"
    /\ tail' = IF counter = NoKey THEN "zero" ELSE "incr"
    /\ exposure' = exposure + Win
    /\ UNCHANGED <<profileVars, bet, counter, requestAt, view, early, expired>>

TrackZero ==
    /\ tail = "zero"
    /\ counter' = Key(0, TRUE)
    /\ tail' = "incr"
    /\ UNCHANGED <<profileVars, bet, exposure, requestAt, view, early, expired>>

\* INCRBY keeps the TTL of the key; a key it has to create gets none.
TrackIncr ==
    /\ tail = "incr"
    /\ counter' = IF counter = NoKey THEN Key(Win, FALSE)
                  ELSE [counter EXCEPT !.value = @ + Win]
    /\ tail' = "counted"
    /\ UNCHANGED <<profileVars, bet, exposure, requestAt, view, early, expired>>

\* A failed command or a crash: placeBet answers with an error, the bet stays.
TrackFails ==
    /\ tail # "counted" /\ tail # "failed"
    /\ tail' = "failed"
    /\ UNCHANGED <<profileVars, bet, counter, exposure, requestAt, view, early, expired>>

-------------------------------------------------------------------------------
\* Operations on the bet.

StepTo(p, l) == requestAt' = [requestAt EXCEPT ![p] = l]

\* settleBet, cancelBet, cashout ("closing"), partialCashout ("cutting"): each
\* reads an ACCEPTED bet.
Read(p) ==
    /\ requestAt[p] = "idle" /\ bet.status = "ACCEPTED"
    /\ \E op \in {"settling", "cancelling", "closing", "cutting"} : StepTo(p, op)
    /\ view' = [view EXCEPT ![p].win = bet.win]
    /\ UNCHANGED <<profileVars, bet, counter, exposure, tail, early, expired>>

\* Faulty CommitSettle: the release is forgotten.
CommitKeepsExposure(p) ==
    /\ requestAt[p] = "settling"
    /\ bet' = [bet EXCEPT !.status = "SETTLED"]
    /\ StepTo(p, "done")
    /\ UNCHANGED <<profileVars, counter, exposure, tail, view, early, expired>>

\* The transaction of settleBet; the profile and the release come after it.
CommitSettle(p) ==
    /\ requestAt[p] = "settling"
    /\ bet' = [bet EXCEPT !.status = "SETTLED"]
    /\ StepTo(p, "profile")
    /\ UNCHANGED <<profileVars, counter, exposure, tail, view, early, expired>>

\* settleBet found every leg void: _voidBet's transaction, which nothing follows.
CommitVoid(p) ==
    /\ requestAt[p] = "settling"
    /\ bet' = [bet EXCEPT !.status = "VOID"]
    /\ StepTo(p, "done")
    /\ UNCHANGED <<profileVars, counter, exposure, tail, view, early, expired>>

\* The transaction of cancelBet; the release comes after it.
CommitCancel(p) ==
    /\ requestAt[p] = "cancelling"
    /\ bet' = [bet EXCEPT !.status = "CANCELLED"]
    /\ StepTo(p, "get")
    /\ UNCHANGED <<profileVars, counter, exposure, tail, view, early, expired>>

\* updateRiskProfile: riskProfile.findUnique; assessBet created the profile before
\* the bet was placed.
ReadProfile(p) ==
    /\ requestAt[p] = "profile"
    /\ view' = [view EXCEPT ![p].bets = profile]
    /\ raced' = (raced \/ \E q \in Requests \ {p} : requestAt[q] = "save")
    /\ StepTo(p, "save")
    /\ UNCHANGED <<bet, counter, exposure, profile, saved, tail, early, expired>>

\* Faulty SaveProfile: the totals are written back without this bet.
SaveProfileAsRead(p) ==
    /\ requestAt[p] = "save"
    /\ profile' = view[p].bets
    /\ saved' = saved \cup {p}
    /\ StepTo(p, "get")
    /\ UNCHANGED <<bet, counter, exposure, raced, tail, view, early, expired>>

\* updateRiskProfile: riskProfile.update with totals computed from what was read
\* (the other totals move like totalBets).
SaveProfile(p) ==
    /\ requestAt[p] = "save"
    /\ profile' = view[p].bets + 1
    /\ saved' = saved \cup {p}
    /\ StepTo(p, "get")
    /\ UNCHANGED <<bet, counter, exposure, raced, tail, view, early, expired>>

\* cashout releases nothing.
CommitCashout(p) ==
    /\ requestAt[p] = "closing"
    /\ bet' = [bet EXCEPT !.status = "CASHED_OUT"]
    /\ StepTo(p, "done")
    /\ UNCHANGED <<profileVars, counter, exposure, tail, view, early, expired>>

\* partialCashout rewrites potentialWin and releases nothing.
CommitPartial(p) ==
    /\ requestAt[p] = "cutting"
    /\ \E w \in PartWins : bet' = [bet EXCEPT !.win = w]
    /\ StepTo(p, "done")
    /\ UNCHANGED <<profileVars, counter, exposure, tail, view, early, expired>>

\* releaseUserExposure: GET; a missing key (or an empty value) releases nothing.
ReleaseGet(p) ==
    /\ requestAt[p] = "get"
    /\ early' = (early \/ tail # "counted")
    /\ IF counter = NoKey
       THEN StepTo(p, "done") /\ UNCHANGED view
       ELSE StepTo(p, "set") /\ view' = [view EXCEPT ![p].count = counter.value]
    /\ UNCHANGED <<profileVars, bet, counter, exposure, tail, expired>>

\* Faulty ReleaseSet: no maximum with zero.
ReleaseBelowZero(p) ==
    /\ requestAt[p] = "set"
    /\ counter' = Key(view[p].count - view[p].win, FALSE)
    /\ StepTo(p, "done")
    /\ UNCHANGED <<profileVars, bet, exposure, tail, view, early, expired>>

\* releaseUserExposure: SET max(0, read - potentialWin), without a TTL.
ReleaseSet(p) ==
    LET rest == view[p].count - view[p].win
    IN  /\ requestAt[p] = "set"
        /\ counter' = Key(IF rest > 0 THEN rest ELSE 0, FALSE)
        /\ StepTo(p, "done")
        /\ UNCHANGED <<profileVars, bet, exposure, tail, view, early, expired>>

\* A failed transaction or command, or a crash.
Fail(p) ==
    /\ requestAt[p] \in Running
    /\ StepTo(p, "failed")
    /\ UNCHANGED <<profileVars, bet, counter, exposure, tail, view, early, expired>>

\* 24 hours pass since the placement that created the key, which has long ended.
Expire ==
    /\ tail \in {"counted", "failed"}
    /\ counter # NoKey /\ counter.ttl
    /\ counter' = NoKey
    /\ expired' = TRUE
    /\ UNCHANGED <<profileVars, bet, exposure, tail, requestAt, view, early>>

Commit(p) ==
    \/ CommitSettle(p) \/ CommitVoid(p) \/ CommitCancel(p)
    \/ CommitCashout(p) \/ CommitPartial(p)

AfterCommit(p) == ReadProfile(p) \/ SaveProfile(p) \/ ReleaseGet(p) \/ ReleaseSet(p)

ENext ==
    \/ TrackExists \/ TrackZero \/ TrackIncr \/ TrackFails
    \/ \E p \in Requests :
          Read(p) \/ Commit(p) \/ AfterCommit(p) \/ Fail(p)
    \/ Expire

ESpec == EInit /\ [][ENext]_eVars

-------------------------------------------------------------------------------
\* Properties.

ETypeOK ==
    /\ bet \in [status : {"ACCEPTED", "SETTLED", "VOID", "CANCELLED", "CASHED_OUT"},
                win : {Win} \cup PartWins]
    /\ counter \in [value : Nat, ttl : BOOLEAN] \cup {NoKey}
    /\ exposure \in {0, Win}
    /\ profile \in Nat
    /\ saved \subseteq Requests
    /\ raced \in BOOLEAN
    /\ tail \in {"exists", "zero", "incr", "counted", "failed"}
    /\ requestAt \in [Requests -> Running \cup {"idle", "done", "failed"}]
    /\ view \in [Requests -> [win : Nat, count : Nat, bets : Nat]]
    /\ early \in BOOLEAN
    /\ expired \in BOOLEAN

Counted == IF counter = NoKey THEN 0 ELSE counter.value

\* An open bet that was counted stays counted, for its user and its market, until
\* it is closed or the key's 24 hours are over: the limit checks of the next
\* placement see it, whatever operations on it are under way or failed.
OpenBetCounted ==
    bet.status = "ACCEPTED" /\ tail = "counted" =>
        exposure = Win /\ (Counted = Win \/ expired)

\* A release that saw the bet counted leaves nothing of it when all that read the
\* bet read it as placed.
ReleaseComplete ==
    /\ bet.status \in {"SETTLED", "CANCELLED"} /\ tail = "counted" /\ ~early
    /\ \A p \in Requests : requestAt[p] = "idle" \/ (requestAt[p] = "done" /\ view[p].win = Win)
    => Counted = 0

\* The counter follows the bet: it counts the bet while it is open, never counts
\* more than it, and ends with it; releasing twice, or after the key expired, does
\* no harm.
CounterFollowsBet == Counted <= Win /\ OpenBetCounted /\ ReleaseComplete

\* The profile counts every settlement that wrote it, unless two of them read it
\* before either wrote: a lost count is explained by that race alone, not by what
\* failed or was released in between.
ProfileCounts ==
    /\ profile <= Cardinality(saved)
    /\ raced \/ profile = Cardinality(saved)

\* Requests whose transaction has closed the bet and that still have to release it.
Releasing == {"profile", "save", "get", "set"}

\* Nobody releases an open bet; placeBet counts the bet once, on a key that no
\* release has created; a release that is about to write has read at most the bet.
TrackOK ==
    /\ bet.status = "ACCEPTED" => \A p \in Requests : requestAt[p] \notin Releasing
    /\ tail \in {"exists", "zero"} => counter = NoKey
    /\ tail = "incr" => Counted = 0
    /\ tail = "exists" => exposure = 0
    /\ tail \in {"zero", "incr", "counted"} => exposure = Win
    /\ \A p \in Requests : requestAt[p] = "set" =>
          /\ view[p].count <= Win
          /\ tail \in {"incr", "counted", "failed"}
          /\ tail = "incr" => view[p].count = 0
          /\ ~early => tail = "counted"

\* While a closed bet is counted, a request still has to release it or has failed.
ReleaseOK ==
    /\ bet.status \in {"SETTLED", "CANCELLED"} /\ ~early
    /\ \A p \in Requests : requestAt[p] # "idle" => view[p].win = Win
    => \/ tail = "counted" /\ Counted = 0
       \/ \E p \in Requests : requestAt[p] \in Releasing \cup {"failed"}

\* A request writes the profile once, from at most what is counted by then.
ProfileOK ==
    /\ IsFiniteSet(saved)
    /\ \A p \in Requests : p \in saved => requestAt[p] \in {"get", "set", "done", "failed"}
    /\ \A p \in Requests : requestAt[p] = "save" =>
          /\ view[p].bets <= Cardinality(saved)
          /\ raced \/ (view[p].bets = profile /\ \A q \in Requests \ {p} : requestAt[q] # "save")

\* The inductive invariant: the types, and where the counter and the profile are
\* between the commands that write them.
EInv == ETypeOK /\ TrackOK /\ ReleaseOK /\ ProfileOK /\ CounterFollowsBet /\ ProfileCounts
===============================================================================
