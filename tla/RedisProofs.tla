----------------------------- MODULE RedisProofs ------------------------------
(***************************************************************************)
(* Proofs about what Redis keeps beside the database.  First Exposure, for *)
(* every set of requests and every potentialWin: the counter follows the   *)
(* bet, and the profile counts the settlements that wrote it.  Then        *)
(* OddsCache, for any placements, updates, odds, policies and tolerance:   *)
(* where stale cache entries come from, that the odds policy holds, and    *)
(* that the history of the odds is a chain.                                *)
(***************************************************************************)
EXTENDS Exposure, OddsCache, FiniteSetTheorems, SequenceTheorems, TLAPS

-------------------------------------------------------------------------------
\* Exposure: its steps and invariant are ENext and EInv.

\* The values of the counter and of the bounds are numbers.
LEMMA Numbers ==
    ASSUME EInv
    PROVE  /\ Win \in Nat /\ Win > 0 /\ Counted \in Nat /\ Counted <= Win
           /\ profile \in Nat /\ Cardinality(saved) \in Nat /\ IsFiniteSet(saved)
           /\ \A p \in Requests : /\ view[p].win \in Nat /\ view[p].count \in Nat
                                  /\ view[p].bets \in Nat
<1>1. Win \in Nat /\ Win > 0 /\ profile \in Nat /\ Counted <= Win /\ IsFiniteSet(saved)
  BY WinAssumption DEF EInv, ETypeOK, CounterFollowsBet, ProfileOK
<1>2. Counted \in Nat
  BY DEF EInv, ETypeOK, Counted
<1>3. \A p \in Requests : view[p].win \in Nat /\ view[p].count \in Nat /\ view[p].bets \in Nat
  BY DEF EInv, ETypeOK
<1>4. Cardinality(saved) \in Nat
  BY <1>1, FS_CardinalityType
<1> QED BY <1>1, <1>2, <1>3, <1>4

\* A key that is stored counts its value.
LEMMA KeyCounts ==
    ASSUME NEW v \in Nat, NEW ttl \in BOOLEAN
    PROVE  /\ Key(v, ttl) \in [value : Nat, ttl : BOOLEAN]
           /\ Key(v, ttl) # NoKey /\ Key(v, ttl).value = v
BY NoneAssumption DEF Key

\* No key, no profile row written, nothing read.
LEMMA InitEInv == EInit => EInv
<1> SUFFICES ASSUME EInit PROVE EInv
  OBVIOUS
<1>1. IsFiniteSet(saved) /\ Cardinality(saved) = 0
  BY FS_EmptySet DEF EInit
<1>2. Counted = 0 /\ Win \in Nat /\ Win > 0
  BY WinAssumption DEF EInit, Counted
<1>3. ETypeOK
  BY WinAssumption DEF EInit, ETypeOK, NoView, Running
<1>4. TrackOK /\ ReleaseOK
  BY DEF EInit, TrackOK, ReleaseOK, Releasing
<1>5. ProfileOK /\ ProfileCounts
  BY <1>1 DEF EInit, ProfileOK, ProfileCounts
<1>6. CounterFollowsBet
  BY <1>2 DEF EInit, CounterFollowsBet, OpenBetCounted, ReleaseComplete
<1> QED BY <1>3, <1>4, <1>5, <1>6 DEF EInv

\* The step's effect on the profile: none, for the requests it moves on.
ProfileKept(p, l) ==
    /\ requestAt' = [requestAt EXCEPT ![p] = l] /\ UNCHANGED <<profile, saved, raced>>
    /\ l # "save" /\ (p \in saved => l \in {"get", "set", "done", "failed"})
    /\ \A q \in Requests : view'[q].bets = view[q].bets

LEMMA ProfileStays ==
    ASSUME EInv, NEW p \in Requests, NEW l, ProfileKept(p, l)
    PROVE  ProfileOK' /\ ProfileCounts'
<1> USE DEF ProfileKept
<1>1. \A q \in Requests : requestAt'[q] = IF q = p THEN l ELSE requestAt[q]
  BY DEF EInv, ETypeOK
<1>2. \A q \in Requests : requestAt'[q] = "save" => requestAt[q] = "save"
  BY <1>1
<1> QED BY <1>1, <1>2 DEF EInv, ProfileOK, ProfileCounts

-------------------------------------------------------------------------------
\* placeBet counts the bet.

LEMMA TrackEInv ==
    ASSUME EInv, TrackExists \/ TrackZero \/ TrackIncr \/ TrackFails
    PROVE  EInv'
<1>1. UNCHANGED <<profile, saved, raced, bet, requestAt, view, early, expired>>
  BY DEF TrackExists, TrackZero, TrackIncr, TrackFails, profileVars
<1>2. ProfileOK' /\ ProfileCounts'
  BY <1>1 DEF EInv, ProfileOK, ProfileCounts
<1>3. /\ Win \in Nat /\ Win > 0 /\ Counted \in Nat /\ Counted <= Win
      /\ \A p \in Requests : view[p].count \in Nat
  BY Numbers
<1>4. CASE TrackExists
  <2>1. /\ tail = "exists" /\ counter = NoKey /\ exposure = 0 /\ Counted = 0
        /\ tail' = "zero" /\ exposure' = Win /\ UNCHANGED counter
    BY <1>3, <1>4 DEF TrackExists, EInv, TrackOK, Counted
  <2>2. ETypeOK'
    BY <1>1, <2>1 DEF EInv, ETypeOK
  <2>3. TrackOK'
    BY <1>1, <2>1 DEF EInv, TrackOK, Counted
  <2>4. ReleaseOK' /\ CounterFollowsBet'
    BY <1>1, <2>1 DEF EInv, ReleaseOK, CounterFollowsBet, OpenBetCounted, ReleaseComplete, Counted
  <2> QED BY <1>2, <2>2, <2>3, <2>4 DEF EInv
<1>5. CASE TrackZero
  <2>1. /\ tail = "zero" /\ exposure = Win
        /\ tail' = "incr" /\ counter' = Key(0, TRUE) /\ UNCHANGED exposure
    BY <1>5 DEF TrackZero, EInv, TrackOK
  <2>2. Counted' = 0 /\ counter' \in [value : Nat, ttl : BOOLEAN]
    BY <2>1, KeyCounts DEF Counted
  <2>3. ETypeOK'
    BY <1>1, <2>1, <2>2 DEF EInv, ETypeOK
  <2>4. TrackOK'
    BY <1>1, <2>1, <2>2 DEF EInv, TrackOK
  <2>5. ReleaseOK' /\ CounterFollowsBet'
    BY <1>1, <1>3, <2>1, <2>2
       DEF EInv, ReleaseOK, CounterFollowsBet, OpenBetCounted, ReleaseComplete
  <2> QED BY <1>2, <2>3, <2>4, <2>5 DEF EInv
<1>6. CASE TrackIncr
  <2>1. /\ tail = "incr" /\ exposure = Win /\ Counted = 0
        /\ tail' = "counted" /\ UNCHANGED exposure
        /\ counter' = IF counter = NoKey THEN Key(Win, FALSE)
                      ELSE [counter EXCEPT !.value = @ + Win]
    BY <1>6 DEF TrackIncr, EInv, TrackOK
  <2>2. Counted' = Win /\ counter' \in [value : Nat, ttl : BOOLEAN]
    <3>1. CASE counter = NoKey
      BY <1>3, <2>1, <3>1, KeyCounts DEF Counted
    <3>2. CASE counter # NoKey
      <4>1. counter \in [value : Nat, ttl : BOOLEAN] /\ counter.value = 0
        BY <2>1, <3>2 DEF Counted, EInv, ETypeOK
      <4>2. counter' = [counter EXCEPT !.value = Win]
        BY <1>3, <2>1, <3>2, <4>1
      <4>3. counter' \in [value : Nat, ttl : BOOLEAN] /\ counter'.value = Win
        BY <1>3, <4>1, <4>2
      <4>4. counter' # NoKey
        BY <4>3, NoneAssumption
      <4> QED BY <4>3, <4>4 DEF Counted
    <3> QED BY <3>1, <3>2
  <2>3. ETypeOK'
    BY <1>1, <2>1, <2>2 DEF EInv, ETypeOK
  <2>4. TrackOK'
    BY <1>1, <1>3, <2>1, <2>2 DEF EInv, TrackOK
  <2>5. ReleaseOK'
    BY <1>1, <2>1 DEF EInv, ReleaseOK
  <2>6. CounterFollowsBet'
    <3>1. OpenBetCounted' /\ Counted' <= Win
      BY <1>3, <2>1, <2>2 DEF OpenBetCounted
    <3>2. ReleaseComplete'
      <4> SUFFICES ASSUME bet.status \in {"SETTLED", "CANCELLED"}, ~early,
                          \A p \in Requests : requestAt[p] = "idle" \/ (requestAt[p] = "done" /\ view[p].win = Win)
                   PROVE  FALSE
        BY <1>1 DEF ReleaseComplete
      <4>1. ~ \E p \in Requests : requestAt[p] \in Releasing \cup {"failed"}
        BY DEF Releasing
      <4> QED BY <2>1, <4>1 DEF EInv, ReleaseOK
    <3> QED BY <3>1, <3>2 DEF CounterFollowsBet
  <2> QED BY <1>2, <2>3, <2>4, <2>5, <2>6 DEF EInv
<1>7. CASE TrackFails
  <2>1. tail \notin {"counted", "failed"} /\ tail' = "failed" /\ UNCHANGED <<counter, exposure>>
    BY <1>7 DEF TrackFails
  <2>2. ETypeOK'
    BY <1>1, <2>1 DEF EInv, ETypeOK
  <2>3. TrackOK'
    BY <1>1, <2>1 DEF EInv, TrackOK
  <2>4. ReleaseOK' /\ CounterFollowsBet'
    BY <1>1, <2>1 DEF EInv, ReleaseOK, CounterFollowsBet, OpenBetCounted, ReleaseComplete, Counted
  <2> QED BY <1>2, <2>2, <2>3, <2>4 DEF EInv
<1> QED BY <1>4, <1>5, <1>6, <1>7

\* The key's 24 hours are over.
LEMMA ExpireEInv ==
    ASSUME EInv, Expire
    PROVE  EInv'
<1>1. /\ UNCHANGED <<profile, saved, raced, bet, exposure, tail, requestAt, view, early>>
      /\ counter' = NoKey /\ expired' = TRUE /\ tail \in {"counted", "failed"}
  BY DEF Expire, profileVars
<1>2. Counted' = 0 /\ Win \in Nat
  BY <1>1, WinAssumption DEF Counted
<1>3. ETypeOK'
  BY <1>1 DEF EInv, ETypeOK
<1>4. TrackOK'
  BY <1>1 DEF EInv, TrackOK
<1>5. ReleaseOK'
  BY <1>1, <1>2 DEF EInv, ReleaseOK
<1>6. ProfileOK' /\ ProfileCounts'
  BY <1>1 DEF EInv, ProfileOK, ProfileCounts
<1>7. CounterFollowsBet'
  BY <1>1, <1>2 DEF EInv, CounterFollowsBet, OpenBetCounted, ReleaseComplete
<1> QED BY <1>3, <1>4, <1>5, <1>6, <1>7 DEF EInv

-------------------------------------------------------------------------------
\* The operations on the bet.

\* p goes on to l without touching the counter, and goes on to release if it closes
\* the bet for the profile.
Step(p, l) ==
    /\ requestAt[p] # l /\ requestAt' = [requestAt EXCEPT ![p] = l]
    /\ l \in {"settling", "cancelling", "closing", "cutting", "profile", "save", "get", "done",
              "failed"}
    /\ requestAt[p] \in Releasing \cup {"failed"} => l \in Releasing \cup {"failed"}
    /\ bet' \in [status : {"ACCEPTED", "SETTLED", "VOID", "CANCELLED", "CASHED_OUT"},
                 win : {Win} \cup PartWins]
    /\ bet'.status = "ACCEPTED" => bet.status = "ACCEPTED" /\ l \notin Releasing
    /\ bet'.status \in {"SETTLED", "CANCELLED"} => bet'.status = bet.status \/ l \in Releasing
    /\ view' \in [Requests -> [win : Nat, count : Nat, bets : Nat]]
    /\ \A q \in Requests : /\ view'[q].count = view[q].count
                           /\ requestAt[q] # "idle" => view'[q].win = view[q].win
    /\ UNCHANGED <<counter, exposure, tail, early, expired>>

LEMMA StepCounts ==
    ASSUME EInv, NEW p \in Requests, NEW l, Step(p, l)
    PROVE  TrackOK' /\ ReleaseOK' /\ CounterFollowsBet'
<1> USE DEF Step
<1>1. \A q \in Requests : requestAt'[q] = IF q = p THEN l ELSE requestAt[q]
  BY DEF EInv, ETypeOK
<1>2. Counted' = Counted
  BY DEF Counted
<1>3. TrackOK'
  <2>1. bet'.status = "ACCEPTED" => \A q \in Requests : requestAt'[q] \notin Releasing
    BY <1>1 DEF EInv, TrackOK
  <2>2. \A q \in Requests : requestAt'[q] = "set" => requestAt[q] = "set"
    BY <1>1
  <2> QED BY <1>2, <2>1, <2>2 DEF EInv, TrackOK
<1>4. ReleaseOK'
  <2> SUFFICES ASSUME bet'.status \in {"SETTLED", "CANCELLED"}, ~early,
                      \A q \in Requests : requestAt'[q] # "idle" => view'[q].win = Win
               PROVE  \/ tail = "counted" /\ Counted = 0
                      \/ \E q \in Requests : requestAt'[q] \in Releasing \cup {"failed"}
    BY <1>2 DEF ReleaseOK
  <2>1. CASE l \in Releasing
    BY <1>1, <2>1
  <2>2. CASE bet'.status = bet.status
    <3>1. \A q \in Requests : requestAt[q] # "idle" => view[q].win = Win
      BY <1>1
    <3>2. \/ tail = "counted" /\ Counted = 0
          \/ \E q \in Requests : requestAt[q] \in Releasing \cup {"failed"}
      BY <2>2, <3>1 DEF EInv, ReleaseOK
    <3> QED BY <1>1, <3>2
  <2> QED BY <2>1, <2>2
<1>5. CounterFollowsBet'
  <2>1. Counted' <= Win /\ OpenBetCounted'
    BY <1>2 DEF EInv, CounterFollowsBet, OpenBetCounted
  <2>2. ReleaseComplete'
    <3> SUFFICES ASSUME bet'.status \in {"SETTLED", "CANCELLED"}, tail = "counted", ~early,
                        \A q \in Requests :
                           requestAt'[q] = "idle" \/ (requestAt'[q] = "done" /\ view'[q].win = Win)
                 PROVE  Counted = 0
      BY <1>2 DEF ReleaseComplete
    <3>1. ~ \E q \in Requests : requestAt'[q] \in Releasing \cup {"failed"}
      BY DEF Releasing
    <3> QED BY <1>2, <1>4, <3>1 DEF ReleaseOK
  <2> QED BY <2>1, <2>2 DEF CounterFollowsBet
<1> QED BY <1>3, <1>4, <1>5

\* What a request has read is typed, and so is what it reads now.
LEMMA Views ==
    ASSUME EInv, NEW p \in Requests
    PROVE  /\ view[p] \in [win : Nat, count : Nat, bets : Nat]
           /\ \A n \in Nat :
                 /\ [view EXCEPT ![p].win = n] \in [Requests -> [win : Nat, count : Nat, bets : Nat]]
                 /\ [view EXCEPT ![p].count = n] \in [Requests -> [win : Nat, count : Nat, bets : Nat]]
                 /\ [view EXCEPT ![p].bets = n] \in [Requests -> [win : Nat, count : Nat, bets : Nat]]
           /\ view \in [Requests -> [win : Nat, count : Nat, bets : Nat]]
BY DEF EInv, ETypeOK

\* Reads, transactions and failures: the profile is not touched.
LEMMA CommitEInv ==
    ASSUME EInv, NEW p \in Requests, Read(p) \/ Commit(p) \/ Fail(p)
    PROVE  EInv'
<1>1. /\ UNCHANGED <<counter, exposure, profile, saved, raced, tail, early, expired>>
      /\ view \in [Requests -> [win : Nat, count : Nat, bets : Nat]]
      /\ bet \in [status : {"ACCEPTED", "SETTLED", "VOID", "CANCELLED", "CASHED_OUT"},
                  win : {Win} \cup PartWins]
      /\ \A q \in Requests : requestAt[q] \in Running \cup {"idle", "done", "failed"}
      /\ requestAt \in [Requests -> Running \cup {"idle", "done", "failed"}]
  BY DEF Read, Commit, CommitSettle, CommitVoid, CommitCancel, CommitCashout, CommitPartial,
         Fail, profileVars, EInv, ETypeOK
<1>2. ASSUME NEW l, Step(p, l), ProfileKept(p, l)
      PROVE  EInv'
  <2>1. TrackOK' /\ ReleaseOK' /\ CounterFollowsBet' /\ ProfileOK' /\ ProfileCounts'
    BY <1>2, StepCounts, ProfileStays
  <2>2. requestAt' \in [Requests -> Running \cup {"idle", "done", "failed"}]
    BY <1>1, <1>2 DEF Step, Running
  <2>3. ETypeOK'
    BY <1>1, <1>2, <2>2 DEF EInv, ETypeOK, Step
  <2> QED BY <2>1, <2>3 DEF EInv
<1>3. CASE Read(p)
  <2>1. PICK l \in {"settling", "cancelling", "closing", "cutting"} : requestAt' = [requestAt EXCEPT ![p] = l]
    BY <1>3 DEF Read, StepTo
  <2>2. /\ requestAt[p] = "idle" /\ bet.status = "ACCEPTED" /\ UNCHANGED bet
        /\ view' = [view EXCEPT ![p].win = bet.win]
    BY <1>3 DEF Read
  <2>3. p \notin saved /\ bet.win \in Nat
    BY <1>1, <2>2, WinAssumption DEF EInv, ProfileOK
  <2>4. view' \in [Requests -> [win : Nat, count : Nat, bets : Nat]]
    BY <2>2, <2>3, Views
  <2>5. \A q \in Requests : /\ view'[q].count = view[q].count /\ view'[q].bets = view[q].bets
                            /\ q # p => view'[q].win = view[q].win
    BY <1>1, <2>2
  <2>6. Step(p, l)
    BY <1>1, <2>1, <2>2, <2>4, <2>5 DEF Step, Releasing
  <2>7. ProfileKept(p, l)
    BY <1>1, <2>1, <2>3, <2>5 DEF ProfileKept
  <2> QED BY <1>2, <2>6, <2>7
<1>4. CASE CommitSettle(p)
  <2>1. /\ requestAt[p] = "settling" /\ requestAt' = [requestAt EXCEPT ![p] = "profile"]
        /\ bet' = [bet EXCEPT !.status = "SETTLED"] /\ UNCHANGED view
    BY <1>4 DEF CommitSettle, StepTo
  <2>2. Step(p, "profile")
    BY <1>1, <2>1 DEF Step, Releasing
  <2>3. ProfileKept(p, "profile")
    BY <1>1, <2>1 DEF ProfileKept, EInv, ProfileOK
  <2> QED BY <1>2, <2>2, <2>3
<1>5. CASE CommitCancel(p)
  <2>1. /\ requestAt[p] = "cancelling" /\ requestAt' = [requestAt EXCEPT ![p] = "get"]
        /\ bet' = [bet EXCEPT !.status = "CANCELLED"] /\ UNCHANGED view
    BY <1>5 DEF CommitCancel, StepTo
  <2>2. Step(p, "get")
    BY <1>1, <2>1 DEF Step, Releasing
  <2>3. ProfileKept(p, "get")
    BY <1>1, <2>1 DEF ProfileKept
  <2> QED BY <1>2, <2>2, <2>3
<1>6. CASE CommitCashout(p)
  <2>1. /\ requestAt[p] = "closing" /\ requestAt' = [requestAt EXCEPT ![p] = "done"]
        /\ bet' = [bet EXCEPT !.status = "CASHED_OUT"] /\ UNCHANGED view
    BY <1>6 DEF CommitCashout, StepTo
  <2>2. Step(p, "done")
    BY <1>1, <2>1 DEF Step, Releasing
  <2>3. ProfileKept(p, "done")
    BY <1>1, <2>1 DEF ProfileKept
  <2> QED BY <1>2, <2>2, <2>3
<1>7. CASE CommitPartial(p)
  <2>1. /\ requestAt[p] = "cutting" /\ requestAt' = [requestAt EXCEPT ![p] = "done"] /\ UNCHANGED view
        /\ \E w \in PartWins : bet' = [bet EXCEPT !.win = w]
    BY <1>7 DEF CommitPartial, StepTo
  <2>2. Step(p, "done")
    BY <1>1, <2>1 DEF Step, Releasing
  <2>3. ProfileKept(p, "done")
    BY <1>1, <2>1 DEF ProfileKept
  <2> QED BY <1>2, <2>2, <2>3
<1>8. CASE Fail(p)
  <2>1. /\ requestAt[p] \in Running /\ requestAt' = [requestAt EXCEPT ![p] = "failed"] /\ UNCHANGED <<bet, view>>
    BY <1>8 DEF Fail, StepTo
  <2>2. Step(p, "failed")
    BY <1>1, <2>1 DEF Step, Releasing, Running
  <2>3. ProfileKept(p, "failed")
    BY <1>1, <2>1 DEF ProfileKept
  <2> QED BY <1>2, <2>2, <2>3
<1>9. CASE CommitVoid(p)
  <2>1. /\ requestAt[p] = "settling" /\ requestAt' = [requestAt EXCEPT ![p] = "done"]
        /\ bet' = [bet EXCEPT !.status = "VOID"] /\ UNCHANGED view
    BY <1>9 DEF CommitVoid, StepTo
  <2>2. Step(p, "done")
    BY <1>1, <2>1 DEF Step, Releasing
  <2>3. ProfileKept(p, "done")
    BY <1>1, <2>1 DEF ProfileKept
  <2> QED BY <1>2, <2>2, <2>3
<1> QED BY <1>3, <1>4, <1>5, <1>6, <1>7, <1>8, <1>9 DEF Commit

\* The profile is read and written back.
LEMMA ProfileEInv ==
    ASSUME EInv, NEW p \in Requests, ReadProfile(p) \/ SaveProfile(p)
    PROVE  EInv'
<1>1. /\ UNCHANGED <<bet, counter, exposure, tail, early, expired>>
      /\ view \in [Requests -> [win : Nat, count : Nat, bets : Nat]]
      /\ bet \in [status : {"ACCEPTED", "SETTLED", "VOID", "CANCELLED", "CASHED_OUT"},
                  win : {Win} \cup PartWins]
      /\ requestAt \in [Requests -> Running \cup {"idle", "done", "failed"}]
      /\ IsFiniteSet(saved) /\ profile \in Nat /\ Cardinality(saved) \in Nat
      /\ raced \in BOOLEAN /\ saved \subseteq Requests
  BY Numbers DEF ReadProfile, SaveProfile, EInv, ETypeOK
<1>2. bet.status # "ACCEPTED"
  BY DEF ReadProfile, SaveProfile, EInv, TrackOK, Releasing
<1>3. CASE ReadProfile(p)
  <2>1. /\ requestAt[p] = "profile" /\ requestAt' = [requestAt EXCEPT ![p] = "save"]
        /\ view' = [view EXCEPT ![p].bets = profile]
        /\ raced' = (raced \/ \E q \in Requests \ {p} : requestAt[q] = "save")
        /\ UNCHANGED <<profile, saved>>
    BY <1>3 DEF ReadProfile, StepTo
  <2>2. view' \in [Requests -> [win : Nat, count : Nat, bets : Nat]]
    BY <1>1, <2>1, Views
  <2>3. \A q \in Requests : /\ view'[q].count = view[q].count /\ view'[q].win = view[q].win
                            /\ view'[q].bets = IF q = p THEN profile ELSE view[q].bets
                            /\ requestAt'[q] = IF q = p THEN "save" ELSE requestAt[q]
    BY <1>1, <2>1
  <2>4. Step(p, "save")
    BY <1>1, <1>2, <2>1, <2>2, <2>3 DEF Step, Releasing
  <2>5. TrackOK' /\ ReleaseOK' /\ CounterFollowsBet'
    BY <2>4, StepCounts
  <2>6. ETypeOK'
    <3>1. requestAt' \in [Requests -> Running \cup {"idle", "done", "failed"}]
      BY <1>1, <2>1 DEF Running
    <3>2. raced' \in BOOLEAN
      BY <2>1
    <3> QED BY <1>1, <2>1, <2>2, <3>1, <3>2 DEF EInv, ETypeOK
  <2>7. ProfileOK'
    <3>1. p \notin saved
      BY <2>1 DEF EInv, ProfileOK
    <3>2. ASSUME NEW q \in Requests, requestAt'[q] = "save"
          PROVE  /\ view'[q].bets <= Cardinality(saved)
                 /\ raced' \/ (view'[q].bets = profile /\ \A r \in Requests \ {q} : requestAt'[r] # "save")
      <4>1. CASE q = p
        <5>1. view'[q].bets = profile /\ profile <= Cardinality(saved)
          BY <2>3, <4>1 DEF EInv, ProfileCounts
        <5>2. raced' \/ \A r \in Requests \ {q} : requestAt'[r] # "save"
          BY <2>1, <2>3, <4>1
        <5> QED BY <5>1, <5>2
      <4>2. CASE q # p
        <5>1. requestAt[q] = "save" /\ view'[q].bets = view[q].bets
          BY <2>3, <3>2, <4>2
        <5>2. raced'
          BY <2>1, <4>2, <5>1
        <5> QED BY <5>1, <5>2 DEF EInv, ProfileOK
      <4> QED BY <4>1, <4>2
    <3> QED BY <1>1, <2>1, <2>3, <3>1, <3>2 DEF EInv, ProfileOK
  <2>8. ProfileCounts'
    BY <2>1 DEF EInv, ProfileCounts
  <2> QED BY <2>5, <2>6, <2>7, <2>8 DEF EInv
<1>4. CASE SaveProfile(p)
  <2>1. /\ requestAt[p] = "save" /\ requestAt' = [requestAt EXCEPT ![p] = "get"]
        /\ profile' = view[p].bets + 1 /\ saved' = saved \cup {p}
        /\ UNCHANGED <<raced, view>>
    BY <1>4 DEF SaveProfile, StepTo
  <2>2. \A q \in Requests : requestAt'[q] = IF q = p THEN "get" ELSE requestAt[q]
    BY <1>1, <2>1
  <2>3. Step(p, "get")
    BY <1>1, <1>2, <2>1 DEF Step, Releasing
  <2>4. TrackOK' /\ ReleaseOK' /\ CounterFollowsBet'
    BY <2>3, StepCounts
  <2>5. view[p].bets \in Nat
    BY Numbers
  <2>6. ETypeOK'
    <3>1. requestAt' \in [Requests -> Running \cup {"idle", "done", "failed"}]
      BY <1>1, <2>1 DEF Running
    <3>2. profile' \in Nat /\ saved' \subseteq Requests
      BY <1>1, <2>1, <2>5
    <3> QED BY <1>1, <2>1, <3>1, <3>2 DEF EInv, ETypeOK
  <2>7. p \notin saved
    BY <2>1 DEF EInv, ProfileOK
  <2>8. IsFiniteSet(saved') /\ Cardinality(saved') = Cardinality(saved) + 1
    BY <1>1, <2>1, <2>7, FS_AddElement
  <2>9. view[p].bets <= Cardinality(saved) /\ (raced \/ view[p].bets = profile)
    BY <2>1 DEF EInv, ProfileOK
  <2>10. ProfileCounts'
    <3>1. profile' <= Cardinality(saved')
      BY <1>1, <2>1, <2>5, <2>8, <2>9
    <3>2. raced \/ profile' = Cardinality(saved')
      BY <1>1, <2>1, <2>8, <2>9 DEF EInv, ProfileCounts
    <3> QED BY <2>1, <3>1, <3>2 DEF ProfileCounts
  <2>11. ProfileOK'
    <3>1. ASSUME NEW q \in Requests, requestAt'[q] = "save"
          PROVE  /\ view[q].bets <= Cardinality(saved')
                 /\ raced
      <4>1. q # p /\ requestAt[q] = "save"
        BY <2>2, <3>1
      <4>2. raced
        BY <2>1, <4>1 DEF EInv, ProfileOK
      <4>3. view[q].bets <= Cardinality(saved) /\ view[q].bets \in Nat
        BY <4>1, Numbers DEF EInv, ProfileOK
      <4> QED BY <1>1, <2>8, <4>2, <4>3
    <3>2. \A q \in Requests : q \in saved' => requestAt'[q] \in {"get", "set", "done", "failed"}
      BY <2>1, <2>2 DEF EInv, ProfileOK
    <3> QED BY <2>1, <2>8, <3>1, <3>2 DEF ProfileOK
  <2> QED BY <2>4, <2>6, <2>10, <2>11 DEF EInv
<1> QED BY <1>3, <1>4

\* The release reads the counter.
LEMMA ReleaseGetEInv ==
    ASSUME EInv, NEW p \in Requests, ReleaseGet(p)
    PROVE  EInv'
<1>1. /\ requestAt[p] = "get" /\ early' = (early \/ tail # "counted")
      /\ UNCHANGED <<bet, counter, exposure, profile, saved, raced, tail, expired>>
      /\ requestAt \in [Requests -> Running \cup {"idle", "done", "failed"}]
      /\ view \in [Requests -> [win : Nat, count : Nat, bets : Nat]]
      /\ early' \in BOOLEAN
  BY DEF ReleaseGet, profileVars, EInv, ETypeOK
<1>2. bet.status # "ACCEPTED"
  BY <1>1 DEF EInv, TrackOK, Releasing
<1>3. Counted' = Counted /\ Counted \in Nat /\ Counted <= Win
  BY <1>1, Numbers DEF Counted
<1>4. PICK l \in {"done", "set"} :
         /\ requestAt' = [requestAt EXCEPT ![p] = l]
         /\ l = "done" => counter = NoKey /\ UNCHANGED view
         /\ l = "set" => counter # NoKey /\ view' = [view EXCEPT ![p].count = counter.value]
  BY DEF ReleaseGet, StepTo
<1>5. \A q \in Requests : requestAt'[q] = IF q = p THEN l ELSE requestAt[q]
  BY <1>1, <1>4
<1>6. l = "done" => Counted = 0
  BY <1>4 DEF Counted
<1>7. l = "set" => counter.value = Counted /\ tail \in {"incr", "counted", "failed"}
  BY <1>4 DEF Counted, EInv, ETypeOK, TrackOK
<1>8. /\ view' \in [Requests -> [win : Nat, count : Nat, bets : Nat]]
      /\ \A q \in Requests :
            /\ view'[q].win = view[q].win /\ view'[q].bets = view[q].bets
            /\ view'[q].count = IF q = p /\ l = "set" THEN Counted ELSE view[q].count
  <2>1. CASE l = "done"
    BY <1>1, <1>4, <2>1
  <2>2. CASE l = "set"
    <3>1. view' = [view EXCEPT ![p].count = Counted]
      BY <1>4, <1>7, <2>2
    <3> QED BY <1>1, <1>3, <2>2, <3>1, Views
  <2> QED BY <2>1, <2>2
<1>9. ETypeOK'
  <2>1. requestAt' \in [Requests -> Running \cup {"idle", "done", "failed"}]
    BY <1>1, <1>4 DEF Running
  <2> QED BY <1>1, <1>8, <2>1 DEF EInv, ETypeOK
<1>10. ProfileOK' /\ ProfileCounts'
  <2>1. ProfileKept(p, l)
    BY <1>1, <1>4, <1>8 DEF ProfileKept
  <2> QED BY <2>1, ProfileStays
<1>11. TrackOK'
  <2>1. ASSUME NEW q \in Requests, requestAt'[q] = "set"
        PROVE  /\ view'[q].count <= Win
               /\ tail \in {"incr", "counted", "failed"}
               /\ tail = "incr" => view'[q].count = 0
               /\ ~early' => tail = "counted"
    <3>1. CASE q = p
      <4>1. l = "set" /\ view'[q].count = Counted
        BY <1>5, <1>8, <2>1, <3>1
      <4> QED BY <1>1, <1>3, <1>7, <4>1 DEF EInv, TrackOK
    <3>2. CASE q # p
      BY <1>1, <1>5, <1>8, <2>1, <3>2 DEF EInv, TrackOK
    <3> QED BY <3>1, <3>2
  <2> QED BY <1>1, <1>2, <1>3, <2>1 DEF EInv, TrackOK
<1>12. ReleaseOK'
  <2> SUFFICES ASSUME bet.status \in {"SETTLED", "CANCELLED"}, ~early',
                      \A q \in Requests : requestAt'[q] # "idle" => view'[q].win = Win
               PROVE  \/ tail = "counted" /\ Counted = 0
                      \/ \E q \in Requests : requestAt'[q] \in Releasing \cup {"failed"}
    BY <1>1, <1>3 DEF ReleaseOK
  <2>1. CASE l = "set"
    BY <1>5, <2>1 DEF Releasing
  <2>2. CASE l = "done"
    BY <1>1, <1>6, <2>2
  <2> QED BY <2>1, <2>2
<1>13. CounterFollowsBet'
  <2>1. OpenBetCounted'
    BY <1>1, <1>2 DEF OpenBetCounted
  <2>2. ReleaseComplete'
    <3> SUFFICES ASSUME bet.status \in {"SETTLED", "CANCELLED"}, tail = "counted", ~early',
                        \A q \in Requests :
                           requestAt'[q] = "idle" \/ (requestAt'[q] = "done" /\ view'[q].win = Win)
                 PROVE  Counted = 0
      BY <1>1, <1>3 DEF ReleaseComplete
    <3>1. l = "done"
      BY <1>5
    <3> QED BY <1>6, <3>1
  <2> QED BY <1>3, <2>1, <2>2 DEF CounterFollowsBet
<1> QED BY <1>9, <1>10, <1>11, <1>12, <1>13 DEF EInv

\* The release writes back what it read less the bet.
LEMMA ReleaseSetEInv ==
    ASSUME EInv, NEW p \in Requests, ReleaseSet(p)
    PROVE  EInv'
<1> DEFINE v == IF view[p].count - view[p].win > 0 THEN view[p].count - view[p].win ELSE 0
<1>1. /\ requestAt[p] = "set" /\ requestAt' = [requestAt EXCEPT ![p] = "done"] /\ counter' = Key(v, FALSE)
      /\ UNCHANGED <<bet, exposure, profile, saved, raced, tail, view, early, expired>>
      /\ requestAt \in [Requests -> Running \cup {"idle", "done", "failed"}]
  BY DEF ReleaseSet, StepTo, profileVars, EInv, ETypeOK
<1>2. /\ bet.status # "ACCEPTED" /\ view[p].count <= Win
      /\ tail \in {"incr", "counted", "failed"} /\ (tail = "incr" => view[p].count = 0)
      /\ ~early => tail = "counted"
  BY <1>1 DEF EInv, TrackOK, Releasing
<1>3. /\ view[p].count \in Nat /\ view[p].win \in Nat /\ Win \in Nat
  BY Numbers
<1>4. /\ v \in Nat /\ v <= Win /\ (tail = "incr" => v = 0)
      /\ view[p].win = Win => v = 0
  BY <1>2, <1>3
<1> HIDE DEF v
<1>5. Counted' = v /\ counter' \in [value : Nat, ttl : BOOLEAN]
  BY <1>1, <1>4, KeyCounts DEF Counted
<1>6. \A q \in Requests : requestAt'[q] = IF q = p THEN "done" ELSE requestAt[q]
  BY <1>1
<1>7. ETypeOK'
  <2>1. requestAt' \in [Requests -> Running \cup {"idle", "done", "failed"}]
    BY <1>1
  <2> QED BY <1>1, <1>5, <2>1 DEF EInv, ETypeOK
<1>8. ProfileOK' /\ ProfileCounts'
  <2>1. ProfileKept(p, "done")
    BY <1>1 DEF ProfileKept
  <2> QED BY <2>1, ProfileStays
<1>9. TrackOK'
  <2>1. \A q \in Requests : requestAt'[q] = "set" => requestAt[q] = "set"
    BY <1>6
  <2> QED BY <1>1, <1>2, <1>4, <1>5, <2>1 DEF EInv, TrackOK
<1>10. ReleaseOK'
  <2> SUFFICES ASSUME ~early, \A q \in Requests : requestAt'[q] # "idle" => view[q].win = Win
               PROVE  tail = "counted" /\ v = 0
    BY <1>1, <1>5 DEF ReleaseOK
  <2> QED BY <1>2, <1>4, <1>6
<1>11. CounterFollowsBet'
  <2>1. OpenBetCounted'
    BY <1>1, <1>2 DEF OpenBetCounted
  <2>2. ReleaseComplete'
    <3> SUFFICES ASSUME \A q \in Requests :
                           requestAt'[q] = "idle" \/ (requestAt'[q] = "done" /\ view[q].win = Win)
                 PROVE  v = 0
      BY <1>1, <1>5 DEF ReleaseComplete
    <3> QED BY <1>4, <1>6
  <2> QED BY <1>4, <1>5, <2>1, <2>2 DEF CounterFollowsBet
<1> QED BY <1>7, <1>8, <1>9, <1>10, <1>11 DEF EInv

\* Every step keeps the inductive invariant.
LEMMA NextEInv ==
    ASSUME EInv, [ENext]_eVars
    PROVE  EInv'
<1>1. CASE TrackExists \/ TrackZero \/ TrackIncr \/ TrackFails
  BY <1>1, TrackEInv
<1>2. ASSUME NEW p \in Requests, Read(p) \/ Commit(p) \/ AfterCommit(p) \/ Fail(p)
      PROVE  EInv'
  <2>1. CASE Read(p) \/ Commit(p) \/ Fail(p)
    BY <2>1, CommitEInv
  <2>2. CASE ReadProfile(p) \/ SaveProfile(p)
    BY <2>2, ProfileEInv
  <2>3. CASE ReleaseGet(p) \/ ReleaseSet(p)
    BY <2>3, ReleaseGetEInv, ReleaseSetEInv
  <2> QED BY <1>2, <2>1, <2>2, <2>3 DEF AfterCommit
<1>3. CASE Expire
  BY <1>3, ExpireEInv
<1>4. CASE UNCHANGED eVars
  <2> USE <1>4 DEF eVars, profileVars
  <2>1. ETypeOK' /\ TrackOK' /\ ReleaseOK'
    BY DEF EInv, ETypeOK, TrackOK, ReleaseOK, Counted
  <2>2. ProfileOK' /\ ProfileCounts'
    BY DEF EInv, ProfileOK, ProfileCounts
  <2>3. CounterFollowsBet'
    BY DEF EInv, CounterFollowsBet, OpenBetCounted, ReleaseComplete, Counted
  <2> QED BY <2>1, <2>2, <2>3 DEF EInv
<1> QED BY <1>1, <1>2, <1>3, <1>4 DEF ENext

-------------------------------------------------------------------------------
\* What follows for every run.

\* The inductive invariant holds throughout.
THEOREM ExposureInvariance == ESpec => []EInv
<1>1. EInv /\ [ENext]_eVars => EInv'
  BY NextEInv
<1> QED BY InitEInv, <1>1, PTL DEF ESpec

\* The bet, the counters and what the requests have read keep their types.
THEOREM ExposureTypeCorrect == ESpec => []ETypeOK
<1>1. EInv => ETypeOK
  BY DEF EInv
<1> QED BY <1>1, ExposureInvariance, PTL

\* The user's counter counts the open bet, never more than it, and nothing of it
\* after a complete release.
THEOREM CounterRight == ESpec => []CounterFollowsBet
<1>1. EInv => CounterFollowsBet
  BY DEF EInv
<1> QED BY <1>1, ExposureInvariance, PTL

\* The profile counts every settlement that wrote it, unless two of them raced.
THEOREM ProfileRight == ESpec => []ProfileCounts
<1>1. EInv => ProfileCounts
  BY DEF EInv
<1> QED BY <1>1, ExposureInvariance, PTL

-------------------------------------------------------------------------------
\* OddsCache: its steps and invariant are Next and IInv.

USE DEF Calls, Updating, Goto, Leave, NoLocals, Explained, updateVars

Labels == Working \cup {"idle", "done", "half"}

Fields ==
    [shown : Odds \cup {None}, policy : Policies \cup {None}, reads : 0 .. 2,
     got : Odds \cup {None}, price : Odds \cup {None}, since : Nat, misled : BOOLEAN]

\* The invariant but for the time of the readings, which is proved from it.
Core ==
    /\ TypeOK /\ LocalsOK /\ StaleExplained
    /\ OverlapsMet /\ ShownCurrent /\ ChangesChain

Changes == [old : Odds, new : Odds, by : Updates]

\* Only an update in its transaction adds to the rows; it adds one at the end.
LEMMA Appended ==
    ASSUME NEW s \in Seq(Changes), NEW x \in Changes
    PROVE  /\ Append(s, x) \in Seq(Changes)
           /\ Append(s, x) # <<>>
           /\ Len(Append(s, x)) = Len(s) + 1
           /\ Append(s, x)[Len(s) + 1] = x
           /\ \A i \in 1 .. Len(s) : Append(s, x)[i] = s[i]
           /\ s # <<>> <=> Len(s) > 0
BY AppendProperties, EmptySeq, LenProperties

\* A step of one call keeps the types and what the calls carry, when what the call
\* has after the step is typed and is what it must carry there.
LEMMA Moved ==
    ASSUME TypeOK, LocalsOK, NEW c \in Calls, NEW at \in Labels, NEW v \in Fields,
           pc' = [pc EXCEPT ![c] = at], local' = [local EXCEPT ![c] = v],
           Carried(at, v)
    PROVE  /\ pc' \in [Calls -> Labels]
           /\ local' \in [Calls -> Fields]
           /\ LocalsOK'
           /\ pc'[c] = at /\ local'[c] = v
           /\ \A d \in Calls \ {c} : pc'[d] = pc[d] /\ local'[d] = local[d]
<1>1. pc \in [Calls -> Labels] /\ local \in [Calls -> Fields]
  BY DEF TypeOK, Labels, Fields
<1>2. /\ pc'[c] = at /\ local'[c] = v
      /\ \A d \in Calls \ {c} : pc'[d] = pc[d] /\ local'[d] = local[d]
      /\ pc' \in [Calls -> Labels] /\ local' \in [Calls -> Fields]
  BY <1>1
<1>3. ASSUME NEW d \in Calls PROVE Carried(pc'[d], local'[d])
  BY <1>2 DEF LocalsOK
<1> QED BY <1>2, <1>3 DEF LocalsOK

\* A call that ends carries nothing, and nothing is right anywhere but in the
\* steps that compare or write.
LEMMA Nothing ==
    ASSUME NEW at \in {"idle", "release", "done", "half"}
    PROVE  NoLocals \in Fields /\ Carried(at, NoLocals)
BY DEF Fields, Carried

\* The odds, no cache entry, no lock, no call, no history.
LEMMA InitCore == Init => Core
<1> SUFFICES ASSUME Init PROVE Core
  OBVIOUS
<1> USE OddsAssumption DEF Init
<1>1. pc \in [Calls -> Labels] /\ local \in [Calls -> Fields] /\ LocalsOK
  BY Nothing DEF LocalsOK, Labels
<1>2. changes \in Seq(Changes)
  BY EmptySeq
<1>3. TypeOK
  BY <1>1, <1>2 DEF TypeOK, Labels, Fields, Changes
<1>4. StaleExplained /\ OverlapsMet /\ ShownCurrent
  BY DEF StaleExplained, OverlapsMet, ShownCurrent
<1>5. ChangesChain
  BY EmptySeq DEF ChangesChain
<1> QED BY <1>1, <1>3, <1>4, <1>5 DEF Core

-------------------------------------------------------------------------------
\* The steps of a placement.

\* A step of a call that is no update's transaction or invalidation leaves alone the
\* odds, the rows and the updates: at stake are the types, what the call carries,
\* and an entry that it stores.
LEMMA Elsewhere ==
    ASSUME Core, NEW c \in Calls, NEW at \in Labels, NEW v \in Fields,
           pc' = [pc EXCEPT ![c] = at], local' = [local EXCEPT ![c] = v],
           Carried(at, v), lock' \in Placements \cup {None},
           cache' \in Odds \cup {None}, stale' \in BOOLEAN,
           UNCHANGED <<cache, stale>> \/ (cache' # odds => stale'),
           UNCHANGED <<odds, changes, met>>,
           pc[c] \notin {"write", "invalidate", "half"}, at \notin {"write", "invalidate", "half"}
    PROVE  Core'
<1>1. TypeOK /\ LocalsOK
  BY DEF Core
<1>2. /\ pc' \in [Calls -> Labels] /\ local' \in [Calls -> Fields] /\ LocalsOK'
      /\ pc'[c] = at /\ local'[c] = v
      /\ \A d \in Calls \ {c} : pc'[d] = pc[d] /\ local'[d] = local[d]
  BY <1>1, Moved
<1>3. TypeOK'
  BY <1>1, <1>2 DEF TypeOK, Labels, Fields
<1>4. \A q \in Calls : /\ pc'[q] \in {"write", "invalidate", "half"} <=>
                          pc[q] \in {"write", "invalidate", "half"}
                       /\ pc[q] \in {"write", "invalidate", "half"} =>
                          pc'[q] = pc[q] /\ local'[q] = local[q]
  BY <1>2
<1>5. Updating' = Updating
  BY <1>4
<1>6. StaleExplained'
  BY <1>4 DEF Core, StaleExplained
<1>7. OverlapsMet' /\ ShownCurrent' /\ ChangesChain'
  BY <1>4, <1>5 DEF Core, OverlapsMet, ShownCurrent, ChangesChain
<1> QED BY <1>2, <1>3, <1>6, <1>7 DEF Core

\* A step that only reads: the entry stays too.
LEMMA ReadOnly ==
    ASSUME Core, NEW c \in Calls, NEW at \in Labels, NEW v \in Fields,
           pc' = [pc EXCEPT ![c] = at], local' = [local EXCEPT ![c] = v],
           Carried(at, v), lock' \in Placements \cup {None},
           UNCHANGED <<odds, cache, stale, changes, met>>,
           pc[c] \notin {"write", "invalidate", "half"}, at \notin {"write", "invalidate", "half"}
    PROVE  Core'
<1>1. cache' \in Odds \cup {None} /\ stale' \in BOOLEAN
  BY DEF Core, TypeOK
<1> QED BY <1>1, Elsewhere

\* What a call carries is typed.
LEMMA Carries ==
    ASSUME Core, NEW c \in Calls
    PROVE  /\ local[c] \in Fields /\ pc[c] \in Labels
           /\ Carried(pc[c], local[c])
           /\ local = [local EXCEPT ![c] = local[c]]
           /\ odds \in Odds /\ cache \in Odds \cup {None} /\ lock \in Placements \cup {None}
BY DEF Core, TypeOK, LocalsOK, Fields, Labels

\* A fetch starts with the odds of the database and no reading.
LEMMA FetchCore == ASSUME Core, NEW p \in Placements, Fetch(p) PROVE Core'
<1>1. PICK y \in Policies :
          local' = [local EXCEPT ![p] = [local[p] EXCEPT !.shown = odds, !.policy = y,
                                                         !.since = Len(changes)]]
  BY Carries DEF Fetch, Fields
<1>. DEFINE v == [local[p] EXCEPT !.shown = odds, !.policy = y, !.since = Len(changes)]
<1>2. v \in Fields /\ Carried("lock", v)
  <2>1. Len(changes) \in Nat
    BY LenProperties DEF Core, TypeOK
  <2> QED BY <2>1, Carries DEF Fetch, Fields, Carried
<1>3. /\ "lock" \in Labels /\ lock' \in Placements \cup {None}
      /\ pc[p] = "idle" /\ pc' = [pc EXCEPT ![p] = "lock"]
      /\ UNCHANGED <<odds, cache, stale, changes, met>>
  BY Carries DEF Fetch, Labels, Working
<1> HIDE DEF v
<1>4. local' = [local EXCEPT ![p] = v]
  BY <1>1 DEF v
<1> QED BY <1>2, <1>3, <1>4, ReadOnly

\* The lock is taken or not; the placement goes on either way.
LEMMA LockOddsCore == ASSUME Core, NEW p \in Placements, LockOdds(p) PROVE Core'
<1>1. local' = [local EXCEPT ![p] = local[p]] /\ local[p] \in Fields
  BY Carries DEF LockOdds
<1>2. Carried("get", local[p])
  BY Carries DEF LockOdds, Carried
<1>3. /\ "get" \in Labels /\ lock' \in Placements \cup {None}
      /\ pc[p] = "lock" /\ pc' = [pc EXCEPT ![p] = "get"]
      /\ UNCHANGED <<odds, cache, stale, changes, met>>
  BY Carries DEF LockOdds, Labels, Working
<1> QED BY <1>1, <1>2, <1>3, ReadOnly

\* The first reading is followed by another one, the second by the judgement.
LEMMA Answered ==
    ASSUME Core, NEW p \in Placements, NEW x \in Odds, NEW m \in BOOLEAN,
           pc[p] \in {"get", "fill"}, Answer(p, x, m)
    PROVE  \E at \in {"get", "judge"}, v \in Fields :
               /\ pc' = [pc EXCEPT ![p] = at] /\ local' = [local EXCEPT ![p] = v]
               /\ Carried(at, v)
               /\ v.shown = local[p].shown /\ v.since = local[p].since
               /\ at = "judge" => v.got = x /\ v.misled = m
<1>1. /\ local[p] \in Fields /\ local[p].shown \in Odds
      /\ local[p].price = None /\ local[p].reads \in 0 .. 1
  BY Carries DEF Carried
<1> DEFINE w == [local[p] EXCEPT !.reads = @ + 1]
<1>4. /\ w \in Fields /\ w.reads = local[p].reads + 1 /\ w.price = None
      /\ w.shown = local[p].shown /\ w.since = local[p].since
  <2>1. local[p].reads + 1 \in 0 .. 2
    BY <1>1
  <2> QED BY <1>1, <2>1 DEF Fields
<1>2. CASE local[p].reads = 0
  <2> DEFINE v == [w EXCEPT !.got = None]
  <2>1. /\ v \in Fields /\ v.reads = 1 /\ v.price = None
        /\ v.shown = local[p].shown /\ v.since = local[p].since
    <3> HIDE DEF w
    <3> QED BY <1>2, <1>4 DEF Fields
  <2>2. pc' = [pc EXCEPT ![p] = "get"] /\ local' = [local EXCEPT ![p] = v]
    BY <1>2 DEF Answer
  <2> HIDE DEF v
  <2>3. Carried("get", v)
    BY <1>1, <2>1 DEF Carried
  <2> QED BY <2>1, <2>2, <2>3
<1>3. CASE local[p].reads # 0
  <2> DEFINE v == [w EXCEPT !.got = x, !.misled = m]
  <2>1. /\ v \in Fields /\ v.price = None /\ v.got = x /\ v.misled = m
        /\ v.shown = local[p].shown /\ v.since = local[p].since
    <3> HIDE DEF w
    <3> QED BY <1>4 DEF Fields
  <2>2. pc' = [pc EXCEPT ![p] = "judge"] /\ local' = [local EXCEPT ![p] = v]
    BY <1>3 DEF Answer
  <2> HIDE DEF v
  <2>3. Carried("judge", v)
    BY <1>1, <2>1 DEF Carried
  <2> QED BY <2>1, <2>2, <2>3
<1> QED BY <1>2, <1>3

\* The entry answers, or the database is asked.
LEMMA GetCachedCore == ASSUME Core, NEW p \in Placements, GetCached(p) PROVE Core'
<1>1. /\ pc[p] = "get" /\ lock' \in Placements \cup {None}
      /\ UNCHANGED <<odds, cache, stale, changes, met>>
      /\ {"get", "judge", "db"} \subseteq Labels
  BY Carries DEF GetCached, Labels, Working
<1>2. CASE cache # None
  <2>1. Answer(p, cache, cache # odds /\ Explained) /\ cache \in Odds
    BY <1>2, Carries DEF GetCached
  <2>3. PICK m \in BOOLEAN : m = (cache # odds /\ Explained)
    OBVIOUS
  <2>2. PICK at \in {"get", "judge"}, v \in Fields :
               /\ pc' = [pc EXCEPT ![p] = at] /\ local' = [local EXCEPT ![p] = v]
               /\ Carried(at, v)
    <3>1. Answer(p, cache, m)
      BY <2>1, <2>3
    <3> QED BY <1>1, <2>1, <3>1, Answered
  <2> QED BY <1>1, <2>2, ReadOnly
<1>3. CASE cache = None
  <2>1. pc' = [pc EXCEPT ![p] = "db"] /\ local' = [local EXCEPT ![p] = local[p]]
    BY <1>3, Carries DEF GetCached
  <2>2. local[p] \in Fields /\ Carried("db", local[p])
    BY <1>1, Carries DEF Carried
  <2> QED BY <1>1, <2>1, <2>2, ReadOnly
<1> QED BY <1>2, <1>3

\* The odds of the database are read.
LEMMA GetStoredCore == ASSUME Core, NEW p \in Placements, GetStored(p) PROVE Core'
<1> DEFINE v == [local[p] EXCEPT !.got = odds]
<1>1. v \in Fields /\ Carried("fill", v)
  BY Carries DEF GetStored, Fields, Carried
<1>2. /\ "fill" \in Labels /\ lock' \in Placements \cup {None}
      /\ pc[p] = "db" /\ pc' = [pc EXCEPT ![p] = "fill"]
      /\ local' = [local EXCEPT ![p] = v]
      /\ UNCHANGED <<odds, cache, stale, changes, met>>
  BY Carries DEF GetStored, Labels, Working
<1> HIDE DEF v
<1> QED BY <1>1, <1>2, ReadOnly

\* Only what Acceptable lets through gets a price.
LEMMA JudgeCore == ASSUME Core, NEW p \in Placements, Judge(p) PROVE Core'
<1>1. /\ pc[p] = "judge" /\ lock' \in Placements \cup {None}
      /\ UNCHANGED <<odds, cache, stale, changes, met>>
      /\ {"hold", "release"} \subseteq Labels
  BY Carries DEF Judge, Labels, Working
<1>2. CASE Acceptable(local[p].shown, local[p].got, local[p].policy)
  <2> DEFINE v == [local[p] EXCEPT !.price = local[p].got, !.got = None, !.policy = None]
  <2>1. v \in Fields /\ Carried("hold", v)
    BY <1>1, <1>2, Carries DEF Fields, Carried
  <2>2. pc' = [pc EXCEPT ![p] = "hold"] /\ local' = [local EXCEPT ![p] = v]
    BY <1>2 DEF Judge
  <2> HIDE DEF v
  <2> QED BY <1>1, <2>1, <2>2, ReadOnly
<1>3. CASE ~Acceptable(local[p].shown, local[p].got, local[p].policy)
  <2>1. pc' = [pc EXCEPT ![p] = "release"] /\ local' = [local EXCEPT ![p] = NoLocals]
    BY <1>3 DEF Judge
  <2> QED BY <1>1, <2>1, Nothing, ReadOnly
<1> QED BY <1>2, <1>3

\* The bet is placed at the price, or not.
LEMMA HoldCore == ASSUME Core, NEW p \in Placements, Hold(p) PROVE Core'
<1>1. /\ "release" \in Labels /\ lock' \in Placements \cup {None}
      /\ pc[p] = "hold" /\ pc' = [pc EXCEPT ![p] = "release"]
      /\ local' = [local EXCEPT ![p] = NoLocals]
      /\ UNCHANGED <<odds, cache, stale, changes, met>>
  BY Carries DEF Hold, Labels, Working
<1> QED BY <1>1, Nothing, ReadOnly

\* The lock is deleted if it is still the placement's.
LEMMA ReleaseCore == ASSUME Core, NEW p \in Placements, ReleaseOddsLock(p) PROVE Core'
<1>1. /\ "done" \in Labels /\ lock' \in Placements \cup {None}
      /\ pc[p] = "release" /\ pc' = [pc EXCEPT ![p] = "done"]
      /\ local' = [local EXCEPT ![p] = local[p]] /\ local[p] \in Fields
      /\ UNCHANGED <<odds, cache, stale, changes, met>>
  BY Carries DEF ReleaseOddsLock, Labels
<1>2. Carried("done", local[p])
  BY <1>1, Carries DEF Carried
<1> QED BY <1>1, <1>2, ReadOnly

\* The entry becomes what was read, marked when that has been replaced since.
LEMMA FillCore == ASSUME Core, NEW p \in Placements, Fill(p) PROVE Core'
<1>1. local[p].got \in Odds /\ pc[p] = "fill"
  BY Carries DEF Fill, Carried
<1>2. /\ cache' \in Odds \cup {None} /\ stale' \in BOOLEAN /\ (cache' # odds => stale')
      /\ UNCHANGED <<odds, changes, met>> /\ lock' \in Placements \cup {None}
      /\ {"get", "judge"} \subseteq Labels
  BY <1>1, Carries DEF Fill, Labels, Working
<1>3. PICK at \in {"get", "judge"}, v \in Fields :
             /\ pc' = [pc EXCEPT ![p] = at] /\ local' = [local EXCEPT ![p] = v]
             /\ Carried(at, v)
  <2>1. PICK m \in BOOLEAN : m = FALSE
    OBVIOUS
  <2>2. Answer(p, local[p].got, m)
    BY <2>1 DEF Fill
  <2> QED BY <1>1, <2>2, Answered
<1> QED BY <1>1, <1>2, <1>3, Elsewhere

-------------------------------------------------------------------------------
\* The steps of an update, and failures.

\* An update that starts has read the odds there are, and meets those in flight.
LEMMA UpdateOddsCore == ASSUME Core, NEW q \in Updates, UpdateOdds(q) PROVE Core'
<1>1. PICK x \in Odds :
          local' = [local EXCEPT ![q] = [local[q] EXCEPT !.got = x, !.shown = odds]]
  BY DEF UpdateOdds, Begin
<1> DEFINE v == [local[q] EXCEPT !.got = x, !.shown = odds]
<1>2. v \in Fields /\ Carried("write", v) /\ v.shown = odds
  BY Carries DEF UpdateOdds, Begin, Fields, Carried
<1>3. /\ "write" \in Labels /\ pc[q] = "idle" /\ pc' = [pc EXCEPT ![q] = "write"]
      /\ met' = met \cup {{q, r} : r \in Updating}
      /\ UNCHANGED <<odds, cache, lock, stale, changes>>
  BY DEF UpdateOdds, Begin, Labels, Working
<1> HIDE DEF v
<1>4. local' = [local EXCEPT ![q] = v]
  BY <1>1 DEF v
<1>5. TypeOK /\ LocalsOK
  BY DEF Core
<1>6. /\ pc' \in [Calls -> Labels] /\ local' \in [Calls -> Fields] /\ LocalsOK'
      /\ pc'[q] = "write" /\ local'[q] = v
      /\ \A d \in Calls \ {q} : pc'[d] = pc[d] /\ local'[d] = local[d]
  BY <1>2, <1>3, <1>4, <1>5, Moved
<1>7. TypeOK'
  <2>1. met' \subseteq SUBSET Updates
    BY <1>3, <1>5 DEF TypeOK
  <2> QED BY <1>3, <1>5, <1>6, <2>1 DEF TypeOK, Labels, Fields
<1>8. Updating' = Updating \cup {q} /\ q \notin Updating
  BY <1>3, <1>6
<1>9. OverlapsMet'
  BY <1>3, <1>8 DEF Core, OverlapsMet
<1>10. ShownCurrent' /\ ChangesChain'
  BY <1>2, <1>3, <1>6 DEF Core, ShownCurrent, ChangesChain
<1>11. StaleExplained'
  BY <1>3, <1>6 DEF Core, StaleExplained
<1> QED BY <1>6, <1>7, <1>9, <1>10, <1>11 DEF Core

\* The row an update adds starts from the current odds, or from those its
\* predecessor replaced while both were in flight; any other update in its
\* transaction has met this one.
LEMMA WriteCore == ASSUME Core, NEW q \in Updates, Write(q) PROVE Core'
<1> DEFINE x == [old |-> local[q].shown, new |-> local[q].got, by |-> q]
           n == Len(changes)
<1>1. /\ pc[q] = "write" /\ pc' = [pc EXCEPT ![q] = "invalidate"]
      /\ local' = [local EXCEPT ![q] = local[q]] /\ "invalidate" \in Labels
      /\ odds' = local[q].got /\ changes' = Append(changes, x)
      /\ UNCHANGED <<cache, lock, stale, met>>
  BY Carries DEF Write, Labels, Working
<1>2. /\ local[q] \in Fields /\ local[q].got \in Odds /\ local[q].shown \in Odds
      /\ Carried("invalidate", local[q])
  BY <1>1, Carries DEF Carried
<1>3. TypeOK /\ LocalsOK
  BY DEF Core
<1>4. /\ pc' \in [Calls -> Labels] /\ local' \in [Calls -> Fields] /\ LocalsOK'
      /\ pc'[q] = "invalidate"
      /\ \A d \in Calls \ {q} : pc'[d] = pc[d] /\ local'[d] = local[d]
  BY <1>1, <1>2, <1>3, Moved
<1>5. x \in Changes /\ changes \in Seq(Changes)
  BY <1>2, <1>3 DEF TypeOK, Changes
<1>6. /\ changes' \in Seq(Changes) /\ changes' # <<>>
      /\ n \in Nat /\ Len(changes') = n + 1 /\ changes'[n + 1] = x
      /\ \A i \in 1 .. n : changes'[i] = changes[i]
      /\ changes # <<>> <=> n > 0
  BY <1>1, <1>5, Appended, LenProperties
<1>7. TypeOK'
  BY <1>1, <1>2, <1>3, <1>4, <1>6 DEF TypeOK, Labels, Fields, Changes
<1>8. Updating' = Updating /\ q \in Updating
  BY <1>1, <1>4
<1>9. OverlapsMet'
  BY <1>1, <1>8 DEF Core, OverlapsMet
<1>10. ASSUME NEW r \in Updates, pc'[r] = "write"
       PROVE  {changes'[Len(changes')].by, r} \in met'
  <2>1. r # q /\ r \in Updating
    BY <1>4, <1>10
  <2>2. {q, r} \in met
    BY <1>8, <2>1 DEF Core, OverlapsMet
  <2> HIDE DEF x
  <2>3. changes'[Len(changes')].by = q
    BY <1>6 DEF x
  <2> QED BY <1>1, <2>2, <2>3
<1>11. ShownCurrent'
  BY <1>6, <1>10 DEF ShownCurrent
<1>12. StaleExplained'
  BY <1>4 DEF StaleExplained
<1>13. ASSUME NEW i \in 1 .. Len(changes') - 1
       PROVE  \/ changes'[i + 1].old = changes'[i].new
              \/ {changes'[i].by, changes'[i + 1].by} \in met'
  <2>1. CASE i < n
    <3>1. /\ i \in 1 .. n - 1 /\ changes'[i] = changes[i] /\ changes'[i + 1] = changes[i + 1]
      BY <1>6, <2>1
    <3> QED BY <1>1, <3>1 DEF Core, ChangesChain
  <2>2. CASE i = n
    <3>1. /\ changes # <<>> /\ changes'[i] = changes[n] /\ changes'[i + 1] = x
      BY <1>6, <2>2
    <3>2. changes[n].new = odds
      BY <3>1 DEF Core, ChangesChain
    <3>3. local[q].shown = odds \/ {changes[n].by, q} \in met
      BY <1>1 DEF Core, ShownCurrent
    <3>4. x.old = local[q].shown /\ x.by = q
      OBVIOUS
    <3> HIDE DEF x
    <3> QED BY <1>1, <3>1, <3>2, <3>3, <3>4
  <2> QED BY <1>6, <2>1, <2>2
<1>14. ChangesChain'
  <2>1. changes'[Len(changes')].new = odds'
    BY <1>1, <1>6
  <2> QED BY <1>13, <2>1 DEF ChangesChain
<1> QED BY <1>4, <1>7, <1>9, <1>11, <1>12, <1>14 DEF Core

\* The entry is deleted.
LEMMA InvalidateCore == ASSUME Core, NEW q \in Updates, Invalidate(q) PROVE Core'
<1>1. /\ "done" \in Labels /\ pc[q] = "invalidate" /\ pc' = [pc EXCEPT ![q] = "done"]
      /\ local' = [local EXCEPT ![q] = NoLocals]
      /\ cache' = None /\ stale' = FALSE
      /\ UNCHANGED <<odds, lock, changes, met>>
  BY DEF Invalidate, Labels
<1>2. TypeOK /\ LocalsOK
  BY DEF Core
<1>3. /\ pc' \in [Calls -> Labels] /\ local' \in [Calls -> Fields] /\ LocalsOK'
      /\ pc'[q] = "done"
      /\ \A d \in Calls \ {q} : pc'[d] = pc[d] /\ local'[d] = local[d]
  BY <1>1, <1>2, Moved, Nothing
<1>4. TypeOK'
  BY <1>1, <1>2, <1>3 DEF TypeOK, Labels, Fields
<1>5. Updating' \subseteq Updating
  BY <1>3
<1>6. OverlapsMet' /\ ShownCurrent' /\ ChangesChain'
  BY <1>1, <1>3, <1>5 DEF Core, OverlapsMet, ShownCurrent, ChangesChain
<1>7. StaleExplained'
  BY <1>1 DEF StaleExplained
<1> QED BY <1>3, <1>4, <1>6, <1>7 DEF Core

\* A call dies where it is: an update that had written leaves the entry it would
\* have deleted, and is remembered as half done.
LEMMA CrashCore == ASSUME Core, NEW c \in Calls, Crash(c) PROVE Core'
<1> DEFINE at == IF pc[c] = "invalidate" THEN "half" ELSE "done"
<1>1. /\ at \in {"half", "done"} /\ at \in Labels /\ pc' = [pc EXCEPT ![c] = at]
      /\ at = "half" <=> pc[c] = "invalidate"
      /\ local' = [local EXCEPT ![c] = NoLocals] /\ pc[c] \in Working
      /\ UNCHANGED <<odds, cache, lock, stale, changes, met>>
  BY DEF Crash, Labels
<1> HIDE DEF at
<1>2. TypeOK /\ LocalsOK
  BY DEF Core
<1>3. /\ pc' \in [Calls -> Labels] /\ local' \in [Calls -> Fields] /\ LocalsOK'
      /\ pc'[c] = at
      /\ \A d \in Calls \ {c} : pc'[d] = pc[d] /\ local'[d] = local[d]
  BY <1>1, <1>2, Moved, Nothing
<1>4. TypeOK'
  BY <1>1, <1>2, <1>3 DEF TypeOK, Labels, Fields
<1>5. Updating' \subseteq Updating
  BY <1>1, <1>3
<1>6. OverlapsMet' /\ ShownCurrent' /\ ChangesChain'
  BY <1>1, <1>3, <1>5 DEF Core, OverlapsMet, ShownCurrent, ChangesChain
<1>7. \A q \in Updates : pc[q] \in {"invalidate", "half"} => pc'[q] \in {"invalidate", "half"}
  BY <1>1, <1>3 DEF Working
<1>8. StaleExplained'
  BY <1>1, <1>7 DEF Core, StaleExplained
<1> QED BY <1>3, <1>4, <1>6, <1>8 DEF Core

\* A time to live runs out.
LEMMA ExpireCore == ASSUME Core, ExpireCache \/ ExpireLock PROVE Core'
<1>1. UNCHANGED <<odds, pc, local, changes, met>>
  BY DEF ExpireCache, ExpireLock
<1>2. \/ UNCHANGED <<cache, stale>>
      \/ cache' = None /\ stale' = FALSE
  BY DEF ExpireCache, ExpireLock
<1>3. lock' \in {lock, None}
  BY DEF ExpireCache, ExpireLock
<1>4. TypeOK'
  BY <1>1, <1>2, <1>3 DEF Core, TypeOK
<1> QED
  BY <1>1, <1>2, <1>4
     DEF Core, LocalsOK, StaleExplained, OverlapsMet, ShownCurrent, ChangesChain

-------------------------------------------------------------------------------

\* Every step keeps the invariant.
LEMMA NextCore == ASSUME Core, [Next]_vars PROVE Core'
<1>1. CASE UNCHANGED vars
  BY <1>1 DEF vars, Core, TypeOK, LocalsOK, StaleExplained, OverlapsMet, ShownCurrent,
              ChangesChain
<1>2. CASE \E p \in Placements : Fetch(p)
  BY <1>2, FetchCore
<1>3. CASE \E q \in Updates : UpdateOdds(q)
  BY <1>3, UpdateOddsCore
<1>4. CASE \E c \in Calls : Advance(c)
  <2>1. PICK c \in Calls : Advance(c)
    BY <1>4
  <2>2. CASE c \in Updates
    BY <2>1, <2>2, WriteCore, InvalidateCore DEF Advance
  <2>3. CASE c \notin Updates
    BY <2>1, <2>3, LockOddsCore, GetCachedCore, GetStoredCore, FillCore, JudgeCore,
       HoldCore, ReleaseCore DEF Advance
  <2> QED BY <2>2, <2>3
<1>5. CASE \E c \in Calls : Crash(c)
  BY <1>5, CrashCore
<1>6. CASE ExpireCache \/ ExpireLock
  BY <1>6, ExpireCore
<1> QED BY <1>1, <1>2, <1>3, <1>4, <1>5, <1>6 DEF Next

-------------------------------------------------------------------------------
\* The time of the readings.

\* What a placement with the locals v has read at a step is of its time.
Timely(at, v) ==
    /\ v.since \in 0 .. Len(changes)
    /\ at \in {"lock", "get", "db", "fill", "judge"} => Lived(v, odds)
    /\ at = "fill" => Lived(v, v.got)
    /\ at = "judge" => v.misled \/ Lived(v, v.got)
    /\ v.price # None => v.misled \/ Lived(v, v.price)

LEMMA AllTimely ==
    ASSUME IInv, NEW c \in Calls
    PROVE  /\ Core /\ (c \in Placements => Timely(pc[c], local[c]))
           /\ Len(changes) \in Nat /\ 0 \in 0 .. Len(changes)
           /\ local[c] \in Fields /\ Carried(pc[c], local[c])
<1>1. Core
  BY DEF IInv, Core
<1>2. Len(changes) \in Nat
  BY LenProperties DEF IInv, TypeOK
<1>3. local[c] \in Fields /\ Carried(pc[c], local[c])
  BY <1>1, Carries
<1> QED BY <1>1, <1>2, <1>3 DEF IInv, ReadingsOK, PriceLived, Timely

\* A step of one call that changes no odds: at stake is what that call has read.
LEMMA TimelyStep ==
    ASSUME IInv, UNCHANGED <<odds, changes>>, NEW c \in Calls, NEW at, NEW v,
           pc' = [pc EXCEPT ![c] = at], local' = [local EXCEPT ![c] = v],
           c \in Placements => Timely(at, v)
    PROVE  ReadingsOK' /\ PriceLived'
<1>1. ASSUME NEW p \in Placements
      PROVE  Timely(pc'[p], local'[p])
  <2>1. CASE p = c
    <3>1. pc'[p] = at /\ local'[p] = v
      BY <2>1 DEF IInv, TypeOK
    <3> QED BY <2>1, <3>1
  <2>2. CASE p # c
    <3>1. pc'[p] = pc[p] /\ local'[p] = local[p]
      BY <2>2 DEF IInv, TypeOK
    <3> QED BY <3>1, AllTimely
  <2> QED BY <2>1, <2>2
<1>2. ASSUME NEW u, NEW x PROVE Lived(u, x)' <=> Lived(u, x)
  BY DEF Lived
<1> QED BY <1>1, <1>2 DEF Timely, ReadingsOK, PriceLived, Lived

\* The steps of a placement: it fetches, reads, judges what it read, and ends.
LEMMA PlacementTimely ==
    ASSUME IInv, NEW p \in Placements,
           \/ Fetch(p) \/ LockOdds(p) \/ GetCached(p) \/ GetStored(p) \/ Fill(p)
           \/ Judge(p) \/ Hold(p) \/ ReleaseOddsLock(p)
    PROVE  ReadingsOK' /\ PriceLived'
<1>1. /\ p \in Calls /\ Core /\ Timely(pc[p], local[p])
      /\ Len(changes) \in Nat /\ 0 \in 0 .. Len(changes)
      /\ local[p] \in Fields /\ Carried(pc[p], local[p])
  BY AllTimely
<1>2. UNCHANGED <<odds, changes>> /\ local = [local EXCEPT ![p] = local[p]]
  BY Carries, <1>1
     DEF Fetch, LockOdds, GetCached, GetStored, Fill, Judge, Hold, ReleaseOddsLock
<1>3. CASE Fetch(p)
  <2>1. PICK y \in Policies :
            local' = [local EXCEPT ![p] = [local[p] EXCEPT !.shown = odds, !.policy = y,
                                                           !.since = Len(changes)]]
    BY <1>3 DEF Fetch
  <2> DEFINE v == [local[p] EXCEPT !.shown = odds, !.policy = y, !.since = Len(changes)]
  <2>2. v.shown = odds /\ v.since = Len(changes) /\ v.price = None
    BY <1>1, <1>3 DEF Fetch, Fields, Carried
  <2>3. local' = [local EXCEPT ![p] = v] /\ pc' = [pc EXCEPT ![p] = "lock"]
    BY <1>3, <2>1 DEF Fetch
  <2> HIDE DEF v
  <2>4. Timely("lock", v)
    BY <1>1, <2>2 DEF Timely, Lived
  <2> QED BY <1>1, <1>2, <2>3, <2>4, TimelyStep
<1>4. CASE LockOdds(p)
  <2>1. /\ pc' = [pc EXCEPT ![p] = "get"] /\ local' = [local EXCEPT ![p] = local[p]]
        /\ Timely("get", local[p])
    BY <1>1, <1>2, <1>4 DEF LockOdds, Timely
  <2> QED BY <1>1, <1>2, <2>1, TimelyStep
<1>5. ASSUME NEW x \in Odds, NEW m \in BOOLEAN, pc[p] \in {"get", "fill"}, Answer(p, x, m),
             m \/ Lived(local[p], x)
      PROVE  ReadingsOK' /\ PriceLived'
  <2>1. PICK at \in {"get", "judge"}, v \in Fields :
               /\ pc' = [pc EXCEPT ![p] = at] /\ local' = [local EXCEPT ![p] = v]
               /\ Carried(at, v)
               /\ v.shown = local[p].shown /\ v.since = local[p].since
               /\ at = "judge" => v.got = x /\ v.misled = m
    BY <1>1, <1>5, Answered
  <2>2. \A y : Lived(v, y) <=> Lived(local[p], y)
    BY <2>1 DEF Lived
  <2>3. Timely(at, v)
    BY <1>1, <1>5, <2>1, <2>2 DEF Timely, Carried
  <2> QED BY <1>1, <1>2, <2>1, <2>3, TimelyStep
<1>6. CASE GetCached(p) /\ cache # None
  <2>1. /\ Answer(p, cache, cache # odds /\ Explained) /\ pc[p] = "get"
        /\ cache \in Odds /\ (cache # odds /\ Explained) \in BOOLEAN
    BY <1>1, <1>6, Carries DEF GetCached
  <2>2. (cache # odds /\ Explained) \/ Lived(local[p], cache)
    <3>1. cache # odds => Explained
      BY <1>6, OddsAssumption DEF IInv, TypeOK, StaleExplained
    <3>2. Lived(local[p], odds)
      BY <1>1, <2>1 DEF Timely
    <3> QED BY <3>1, <3>2
  <2> QED BY <1>5, <2>1, <2>2
<1>7. CASE GetCached(p) /\ cache = None
  <2>1. /\ pc' = [pc EXCEPT ![p] = "db"] /\ local' = [local EXCEPT ![p] = local[p]]
        /\ Timely("db", local[p])
    BY <1>1, <1>2, <1>7 DEF GetCached, Timely
  <2> QED BY <1>1, <1>2, <2>1, TimelyStep
<1>8. CASE GetStored(p)
  <2> DEFINE v == [local[p] EXCEPT !.got = odds]
  <2>1. pc[p] = "db" /\ pc' = [pc EXCEPT ![p] = "fill"] /\ local' = [local EXCEPT ![p] = v]
    BY <1>8 DEF GetStored
  <2>2. /\ v.shown = local[p].shown /\ v.since = local[p].since /\ v.got = odds
        /\ v.price = local[p].price /\ v.misled = local[p].misled
    BY <1>1 DEF Fields
  <2> HIDE DEF v
  <2>3. \A y : Lived(v, y) <=> Lived(local[p], y)
    BY <2>2 DEF Lived
  <2>4. Timely("fill", v)
    BY <1>1, <2>1, <2>2, <2>3 DEF Timely
  <2> QED BY <1>1, <1>2, <2>1, <2>4, TimelyStep
<1>9. CASE Fill(p)
  <2>1. Answer(p, local[p].got, FALSE) /\ pc[p] = "fill" /\ local[p].got \in Odds
    BY <1>1, <1>9 DEF Fill, Carried
  <2>2. Lived(local[p], local[p].got)
    BY <1>1, <2>1 DEF Timely
  <2> QED BY <1>5, <2>1, <2>2
<1>10. CASE Judge(p) /\ Acceptable(local[p].shown, local[p].got, local[p].policy)
  <2> DEFINE v == [local[p] EXCEPT !.price = local[p].got, !.got = None, !.policy = None]
  <2>1. pc[p] = "judge" /\ pc' = [pc EXCEPT ![p] = "hold"] /\ local' = [local EXCEPT ![p] = v]
    BY <1>10 DEF Judge
  <2>2. /\ v.shown = local[p].shown /\ v.since = local[p].since /\ v.price = local[p].got
        /\ v.misled = local[p].misled
    BY <1>1 DEF Fields
  <2> HIDE DEF v
  <2>3. \A y : Lived(v, y) <=> Lived(local[p], y)
    BY <2>2 DEF Lived
  <2>4. Timely("hold", v)
    BY <1>1, <2>1, <2>2, <2>3 DEF Timely
  <2> QED BY <1>1, <1>2, <2>1, <2>4, TimelyStep
<1>11. ASSUME pc' = [pc EXCEPT ![p] = "release"], local' = [local EXCEPT ![p] = NoLocals]
       PROVE  ReadingsOK' /\ PriceLived'
  <2>1. Timely("release", NoLocals)
    BY <1>1 DEF Timely
  <2> QED BY <1>1, <1>2, <1>11, <2>1, TimelyStep
<1>12. CASE Judge(p) /\ ~Acceptable(local[p].shown, local[p].got, local[p].policy)
  BY <1>11, <1>12 DEF Judge
<1>13. CASE Hold(p)
  BY <1>11, <1>13 DEF Hold
<1>14. CASE ReleaseOddsLock(p)
  <2>1. /\ pc' = [pc EXCEPT ![p] = "done"] /\ local' = [local EXCEPT ![p] = local[p]]
        /\ Timely("done", local[p])
    BY <1>1, <1>2, <1>14 DEF ReleaseOddsLock, Timely
  <2> QED BY <1>1, <1>2, <2>1, TimelyStep
<1> QED BY <1>3, <1>4, <1>6, <1>7, <1>8, <1>9, <1>10, <1>12, <1>13, <1>14

\* New odds are of the time of every placement in flight, and no earlier ones cease to be.
LEMMA WriteTimely ==
    ASSUME IInv, Core', NEW q \in Updates, Write(q)
    PROVE  ReadingsOK' /\ PriceLived'
<1> DEFINE x == [old |-> local[q].shown, new |-> local[q].got, by |-> q]
           n == Len(changes)
<1>1. /\ pc' = [pc EXCEPT ![q] = "invalidate"] /\ local' = local
      /\ odds' = local[q].got /\ changes' = Append(changes, x) /\ x.new = odds'
  BY DEF Write
<1>2. x \in Changes /\ changes \in Seq(Changes)
  <2>1. Core /\ pc[q] = "write"
    BY DEF IInv, Core, Write
  <2>2. local[q].got \in Odds /\ local[q].shown \in Odds
    BY <2>1, Carries DEF Carried
  <2> QED BY <2>2 DEF IInv, TypeOK, Changes
<1> HIDE DEF x
<1>3. /\ n \in Nat /\ Len(changes') = n + 1 /\ changes'[n + 1] = x
      /\ \A i \in 1 .. n : changes'[i] = changes[i]
  BY <1>1, <1>2, Appended, LenProperties
<1>4. ASSUME NEW p \in Placements
      PROVE  Timely(pc[p], local[p])'
  <2> DEFINE v == local[p]
  <2>1. Timely(pc[p], v) /\ v.since \in 0 .. n
    BY AllTimely DEF Timely
  <2>2. local'[p] = v /\ (pc'[p] = pc[p] \/ pc'[p] = "invalidate")
    BY <1>1 DEF IInv, TypeOK
  <2> HIDE DEF v
  <2>3. v.since \in 0 .. Len(changes')
    BY <1>3, <2>1
  <2>4. ASSUME NEW y, Lived(v, y)
        PROVE  y = v.shown \/ \E i \in v.since + 1 .. Len(changes') : changes'[i].new = y
    <3>1. CASE y = v.shown
      BY <3>1
    <3>2. ASSUME NEW i \in v.since + 1 .. n, changes[i].new = y
          PROVE  i \in v.since + 1 .. Len(changes') /\ changes'[i].new = y
      BY <1>3, <2>1, <3>2
    <3> QED BY <2>4, <3>1, <3>2 DEF Lived
  <2>5. \E i \in v.since + 1 .. Len(changes') : changes'[i].new = odds'
    <3>1. n + 1 \in v.since + 1 .. Len(changes')
      BY <1>3, <2>1
    <3> QED BY <1>1, <1>3, <3>1
  <2> QED BY <2>1, <2>2, <2>3, <2>4, <2>5 DEF Timely, Lived
<1> QED BY <1>4 DEF Timely, ReadingsOK, PriceLived

LEMMA NextIInv == ASSUME IInv, [Next]_vars PROVE IInv'
<1>1. Core'
  <2>1. Core
    BY DEF IInv, Core
  <2> QED BY <2>1, NextCore
<1>2. ReadingsOK' /\ PriceLived'
  <2>1. CASE UNCHANGED vars
    BY <2>1 DEF vars, IInv, ReadingsOK, PriceLived, Lived
  <2>2. CASE ExpireCache \/ ExpireLock
    BY <2>2 DEF ExpireCache, ExpireLock, IInv, ReadingsOK, PriceLived, Lived
  <2>3. ASSUME NEW q \in Updates, UpdateOdds(q)
        PROVE  ReadingsOK' /\ PriceLived'
    <3>1. PICK x \in Odds :
              local' = [local EXCEPT ![q] = [local[q] EXCEPT !.got = x, !.shown = odds]]
      BY <2>3 DEF UpdateOdds, Begin
    <3> DEFINE v == [local[q] EXCEPT !.got = x, !.shown = odds]
    <3>2. /\ pc[q] = "idle" /\ pc' = [pc EXCEPT ![q] = "write"]
          /\ local' = [local EXCEPT ![q] = v] /\ UNCHANGED <<odds, changes>>
      BY <2>3, <3>1 DEF UpdateOdds, Begin
    <3>3. v.since = local[q].since /\ v.price = None
      BY <3>2, AllTimely DEF Fields, Carried
    <3> HIDE DEF v
    <3>4. q \in Placements => Timely("write", v)
      BY <3>3, AllTimely DEF Timely
    <3> QED BY <3>2, <3>4, TimelyStep
  <2>4. ASSUME NEW c \in Calls, NEW at \in {"done", "half", "release"}, pc' = [pc EXCEPT ![c] = at],
               local' = [local EXCEPT ![c] = NoLocals], UNCHANGED <<odds, changes>>
        PROVE  ReadingsOK' /\ PriceLived'
    <3>1. c \in Placements => Timely(at, NoLocals)
      BY AllTimely DEF Timely
    <3> QED BY <2>4, <3>1, TimelyStep
  <2>5. CASE \E c \in Calls : Crash(c)
    BY <2>4, <2>5 DEF Crash
  <2>6. CASE \E q \in Updates : Invalidate(q)
    BY <2>4, <2>6 DEF Invalidate
  <2>7. CASE \E p \in Placements : Fetch(p)
    BY <2>7, PlacementTimely
  <2>8. CASE \E c \in Calls : Advance(c)
    <3>1. PICK c \in Calls : Advance(c)
      BY <2>8
    <3>2. CASE c \in Updates
      BY <1>1, <2>6, <3>1, <3>2, WriteTimely DEF Advance
    <3>3. CASE c \notin Updates
      BY <3>1, <3>3, PlacementTimely DEF Advance
    <3> QED BY <3>2, <3>3
  <2> QED BY <2>1, <2>2, <2>3, <2>5, <2>7, <2>8 DEF Next
<1> QED BY <1>1, <1>2 DEF IInv, Core

LEMMA InitIInv == Init => IInv
<1>1. ASSUME Init PROVE ReadingsOK /\ PriceLived
  <2>1. \A p \in Placements : pc[p] = "idle" /\ local[p] = NoLocals
    BY <1>1 DEF Init
  <2>2. Len(changes) = 0
    BY <1>1, LenProperties, EmptySeq DEF Init
  <2> QED BY <2>1, <2>2 DEF ReadingsOK, PriceLived
<1> QED BY <1>1, InitCore DEF IInv, Core

\* The inductive invariant holds in every state: what the placements and updates
\* carry between their awaits, what explains a stale entry, and what links the
\* rows of the history.
THEOREM Invariance == Spec => []IInv
BY InitIInv, NextIInv, PTL DEF Spec

\* The odds, the entry, the lock, the calls and the history keep their types.
THEOREM TypeCorrect == Spec => []TypeOK
<1>1. IInv => TypeOK
  BY DEF IInv
<1> QED BY <1>1, Invariance, PTL

\* The entry differs from the database only until an update invalidates it, after
\* one died before it did, or when a slow reader stored what it had read.
THEOREM StaleOnlyWhenExplained == Spec => []StaleExplained
<1>1. IInv => StaleExplained
  BY DEF IInv
<1> QED BY <1>1, Invariance, PTL

\* The price of a placement was the selection's odds at some moment since it fetched them,
\* unless the entry it was read from disagreed with the database, and that was explained.
THEOREM PricesLived == Spec => []PriceLived
<1>1. IInv => PriceLived
  BY DEF IInv
<1> QED BY <1>1, Invariance, PTL

\* Each change of the odds starts from what the one before it left, unless the two
\* were in flight together, and the last leaves the odds there are.
THEOREM HistoryChains == Spec => []ChangesChain
<1>1. IInv => ChangesChain
  BY DEF IInv
<1> QED BY <1>1, Invariance, PTL

===============================================================================
