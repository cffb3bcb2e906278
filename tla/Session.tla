------------------------------- MODULE Session -------------------------------
(***************************************************************************)
(* auth.service.ts for one account: login with its lock-out, refreshTokens *)
(* and logout as concurrent calls, one step per await, over the User row,  *)
(* the UserSession rows and the session keys in Redis.                     *)
(*                                                                         *)
(* A token is named by the second it was signed in: the payload holds the  *)
(* user and iat, in seconds, so two tokens of a user signed in the same    *)
(* second are the same string.  bcrypt compares a refresh token by its     *)
(* first 72 bytes, which all refresh tokens of a user share: what matters  *)
(* of User.refreshToken is only whether it is null.                        *)
(*                                                                         *)
(* SInit, SNext, SSpec, SInv and callAt are what other modules call Init,  *)
(* Next, Spec, IInv and pc: UserProofs extends Session and BetBook.        *)
(***************************************************************************)
EXTENDS Integers, FiniteSets

CONSTANTS
    Calls,        \* calls of login, refreshTokens and logout
    MaxAttempts,  \* MAX_LOGIN_ATTEMPTS
    LastSecond    \* the clock stops there (a bound of the model)

ASSUME BoundAssumption == MaxAttempts \in Nat \ {0} /\ LastSecond \in Nat

VARIABLES
    user,      \* the User row: loginAttempts, lockedUntil in the future, refreshToken set
    standing,  \* the User row: isActive, selfExcludedUntil in the future
    rows,      \* the UserSession row of each token
    cached,    \* the tokens with a session key in Redis
    now,       \* the second of the clock
    issued,    \* the access tokens clients hold
    callAt,    \* where each call is
    local,     \* the local variables of each call
    misses,    \* history: the wrong passwords since the last right one
    crossed,   \* history: a login wrote between another's read and its write
    since,     \* history: the calls that were in flight when the account was last locked
    outs,      \* history: per call, the logouts that took the refresh token during it
    ending     \* history: the logouts whose token had an active row when they began

sVars ==
    <<user, standing, rows, cached, now, issued, callAt, local, misses, crossed, since, outs, ending>>

Seconds == 0 .. LastSecond

LoginSteps == {"compare", "count", "reset", "save", "row", "cache"}

Underway == LoginSteps \cup {"rsave", "out"}

Statements == {"user", "row", "cache"}

\* attempts as read, the token signed, the statements of a logout under way, and
\* whether one of them failed.
NoLocals == [attempts |-> 0, iat |-> 0, todo |-> {}, broken |-> FALSE]

\* register: the account is there; its last step saved a refresh token and gave
\* both tokens out, with no session for them, or it did not come to that.
SInit ==
    /\ \E signedUp \in BOOLEAN :
          user = [attempts |-> 0, locked |-> FALSE, refresh |-> signedUp]
    /\ standing = [active |-> TRUE, excluded |-> FALSE]
    /\ rows = [t \in Seconds |-> "none"]
    /\ cached = {}
    /\ now = 0
    /\ issued = IF user.refresh THEN {0} ELSE {}
    /\ callAt = [c \in Calls |-> "idle"]
    /\ local = [c \in Calls |-> NoLocals]
    /\ misses = {}
    /\ crossed = FALSE
    /\ since = {}
    /\ outs = [c \in Calls |-> {}]
    /\ ending = {}

StepTo(c, l) == callAt' = [callAt EXCEPT ![c] = l]

Admitted == standing.active /\ ~standing.excluded

\* JwtStrategy.validate: a valid access token does for an active user.
SignedIn == standing.active

tables == <<user, rows, cached>>
history == <<misses, crossed, since, outs, ending>>

\* History: c writes the attempts.
Cross(c) == crossed' = (crossed \/ \E d \in Calls \ {c} : callAt[d] \in {"compare", "count"})

-------------------------------------------------------------------------------
\* login

\* Faulty FindUser: the lock is not looked at.
FindUnlocked(c) ==
    /\ callAt[c] = "idle"
    /\ StepTo(c, IF Admitted THEN "compare" ELSE "failed")
    /\ local' = [local EXCEPT ![c] = [@ EXCEPT !.attempts = user.attempts]]
    /\ UNCHANGED <<tables, standing, now, issued, history>>

\* user.findFirst and the checks of lockedUntil, isActive, selfExcludedUntil.
FindUser(c) ==
    /\ callAt[c] = "idle"
    /\ StepTo(c, IF ~user.locked /\ Admitted THEN "compare" ELSE "failed")
    /\ local' = [local EXCEPT ![c] = [@ EXCEPT !.attempts = user.attempts]]
    /\ UNCHANGED <<tables, standing, now, issued, history>>

\* bcrypt.compare of the password.
Compare(c) ==
    /\ callAt[c] = "compare"
    /\ \/ StepTo(c, "reset") \/ StepTo(c, "count")
    /\ UNCHANGED <<tables, standing, now, issued, local, history>>

\* Faulty CountAttempt: it counts down.
CountDown(c) ==
    /\ callAt[c] = "count"
    /\ user' = [user EXCEPT !.attempts = local[c].attempts - 1]
    /\ misses' = misses \cup {c} /\ Cross(c)
    /\ StepTo(c, "failed")
    /\ UNCHANGED <<rows, cached, standing, now, issued, local, since, outs, ending>>

\* A failed attempt: written from what was read; lockedUntil only at the limit.
CountAttempt(c) ==
    LET n == local[c].attempts + 1
    IN  /\ callAt[c] = "count"
        /\ user' = [user EXCEPT !.attempts = n, !.locked = @ \/ n >= MaxAttempts]
        /\ since' = IF user'.locked /\ ~user.locked
                    THEN {d \in Calls : callAt[d] \in Underway} ELSE since
        /\ misses' = misses \cup {c} /\ Cross(c)
        /\ StepTo(c, "failed")
        /\ UNCHANGED <<rows, cached, standing, now, issued, local, outs, ending>>

\* Faulty ResetAttempts: only the lock is removed.
ResetLock(c) ==
    /\ callAt[c] = "reset"
    /\ user' = [user EXCEPT !.locked = FALSE]
    /\ local' = [local EXCEPT ![c] = [@ EXCEPT !.iat = now]]
    /\ misses' = {} /\ Cross(c)
    /\ StepTo(c, "save")
    /\ UNCHANGED <<rows, cached, standing, now, issued, since, outs, ending>>

\* The reset of the attempts; then both tokens are signed.
ResetAttempts(c) ==
    /\ callAt[c] = "reset"
    /\ user' = [user EXCEPT !.attempts = 0, !.locked = FALSE]
    /\ local' = [local EXCEPT ![c] = [@ EXCEPT !.iat = now]]
    /\ misses' = {} /\ Cross(c)
    /\ StepTo(c, "save")
    /\ UNCHANGED <<rows, cached, standing, now, issued, since, outs, ending>>

\* saveRefreshToken
SaveRefreshToken(c) ==
    /\ callAt[c] \in {"save", "rsave"}
    /\ user' = [user EXCEPT !.refresh = TRUE]
    /\ IF callAt[c] = "save"
       THEN StepTo(c, "row") /\ UNCHANGED issued
       ELSE StepTo(c, "done") /\ issued' = issued \cup {local[c].iat}
    /\ UNCHANGED <<rows, cached, standing, now, local, history>>

\* Faulty CreateSession: an upsert, which makes an ended session active again.
UpsertSession(c) ==
    /\ callAt[c] = "row"
    /\ rows' = [rows EXCEPT ![local[c].iat] = "active"]
    /\ StepTo(c, "cache")
    /\ UNCHANGED <<user, cached, standing, now, issued, local, history>>

\* userSession.create: token is unique.
CreateSession(c) ==
    /\ callAt[c] = "row"
    /\ IF rows[local[c].iat] = "none"
       THEN rows' = [rows EXCEPT ![local[c].iat] = "active"] /\ StepTo(c, "cache")
       ELSE StepTo(c, "clash") /\ UNCHANGED rows
    /\ UNCHANGED <<user, cached, standing, now, issued, local, history>>

\* redis.set of the session; the tokens are returned.
CacheSession(c) ==
    /\ callAt[c] = "cache"
    /\ cached' = cached \cup {local[c].iat}
    /\ issued' = issued \cup {local[c].iat}
    /\ StepTo(c, "done")
    /\ UNCHANGED <<user, rows, standing, now, local, history>>

-------------------------------------------------------------------------------
\* refreshTokens

\* Faulty Refresh: the null check is dropped.
RefreshAnyway(c) ==
    /\ callAt[c] = "idle" /\ issued # {}
    /\ StepTo(c, "rsave")
    /\ local' = [local EXCEPT ![c] = [@ EXCEPT !.iat = now]]
    /\ UNCHANGED <<tables, standing, now, issued, history>>

\* jwt.verify, user.findUnique, bcrypt.compare; then both tokens are signed.
Refresh(c) ==
    /\ callAt[c] = "idle" /\ issued # {}
    /\ StepTo(c, IF user.refresh THEN "rsave" ELSE "failed")
    /\ local' = [local EXCEPT ![c] = [@ EXCEPT !.iat = now]]
    /\ UNCHANGED <<tables, standing, now, issued, history>>

-------------------------------------------------------------------------------
\* logout

\* The guard lets an active user with a valid access token t through; the three
\* statements are issued together.
Logout(c, t) ==
    /\ callAt[c] = "idle" /\ t \in issued /\ SignedIn
    /\ local' = [local EXCEPT ![c] = [@ EXCEPT !.iat = t, !.todo = Statements]]
    /\ StepTo(c, "out")
    /\ ending' = ending \cup {d \in {c} : rows[t] = "active"}
    /\ UNCHANGED <<tables, standing, now, issued, misses, crossed, since, outs>>

\* The statement is over; the answer comes when all are (or one has failed, which
\* does not stop the others).
Settled(c, s, fails) ==
    LET left == local[c].todo \ {s}
        broken == fails \/ local[c].broken
    IN  /\ callAt[c] = "out" /\ s \in local[c].todo
        /\ local' = [local EXCEPT ![c] = [@ EXCEPT !.todo = left, !.broken = broken]]
        /\ StepTo(c, IF left # {} THEN "out" ELSE IF broken THEN "failed" ELSE "out-done")
        /\ UNCHANGED <<standing, now, issued, misses, crossed, since, ending>>

ClearRefresh(c) ==
    /\ Settled(c, "user", FALSE)
    /\ user' = [user EXCEPT !.refresh = FALSE]
    /\ outs' = [d \in Calls |-> IF callAt[d] \in Underway THEN outs[d] \cup {c} ELSE outs[d]]
    /\ UNCHANGED <<rows, cached>>

\* userSession.updateMany: no row, no effect.
EndSession(c) ==
    /\ Settled(c, "row", FALSE)
    /\ rows' = [rows EXCEPT ![local[c].iat] = IF @ = "active" THEN "ended" ELSE @]
    /\ UNCHANGED <<user, cached, outs>>

DropSession(c) ==
    /\ Settled(c, "cache", FALSE)
    /\ cached' = cached \ {local[c].iat}
    /\ UNCHANGED <<user, rows, outs>>

StatementFails(c) ==
    /\ \E s \in Statements : Settled(c, s, TRUE)
    /\ UNCHANGED <<tables, outs>>

-------------------------------------------------------------------------------
\* Failures and the environment.

\* A statement fails, or the process dies, during a login or a refresh.
Fail(c) ==
    /\ callAt[c] \in LoginSteps \cup {"rsave"}
    /\ StepTo(c, "failed")
    /\ UNCHANGED <<tables, standing, now, issued, local, history>>

\* lockedUntil passes; the attempts stay.
UnlockByTime ==
    /\ user.locked
    /\ user' = [user EXCEPT !.locked = FALSE]
    /\ UNCHANGED <<rows, cached, standing, now, issued, callAt, local, history>>

\* toggleActive of an administrator.
ToggleActive ==
    /\ standing' = [standing EXCEPT !.active = ~@]
    /\ UNCHANGED <<tables, now, issued, callAt, local, history>>

\* selfExclude, or the end of the exclusion.
SelfExclude ==
    /\ standing' = [standing EXCEPT !.excluded = ~@]
    /\ UNCHANGED <<tables, now, issued, callAt, local, history>>

Tick ==
    /\ now < LastSecond /\ now' = now + 1
    /\ UNCHANGED <<tables, standing, issued, callAt, local, history>>

\* The 900 s of a session key are over.
ExpireSession(t) ==
    /\ t \in cached
    /\ cached' = cached \ {t}
    /\ UNCHANGED <<user, rows, standing, now, issued, callAt, local, history>>

Advance(c) ==
    \/ Compare(c) \/ CountAttempt(c) \/ ResetAttempts(c) \/ SaveRefreshToken(c)
    \/ CreateSession(c) \/ CacheSession(c)
    \/ ClearRefresh(c) \/ EndSession(c) \/ DropSession(c) \/ StatementFails(c)
    \/ Fail(c)

SNext ==
    \/ \E c \in Calls :
          \/ FindUser(c) \/ Refresh(c) \/ (\E t \in Seconds : Logout(c, t))
          \/ Advance(c)
    \/ UnlockByTime \/ ToggleActive \/ SelfExclude \/ Tick
    \/ \E t \in Seconds : ExpireSession(t)

SSpec == SInit /\ [][SNext]_sVars

-------------------------------------------------------------------------------
\* Properties.

\* The account, its sessions and the calls keep their types; a token is signed in
\* a second that has come.
STypeOK ==
    /\ user \in [attempts : Nat, locked : BOOLEAN, refresh : BOOLEAN]
    /\ standing \in [active : BOOLEAN, excluded : BOOLEAN]
    /\ rows \in [Seconds -> {"none", "active", "ended"}]
    /\ cached \subseteq Seconds
    /\ now \in Seconds
    /\ issued \subseteq 0 .. now
    /\ callAt \in [Calls -> Underway \cup {"idle", "done", "out-done", "failed", "clash"}]
    /\ local \in [Calls -> [attempts : Nat, iat : 0 .. now, todo : SUBSET Statements,
                            broken : BOOLEAN]]
    /\ misses \subseteq Calls
    /\ crossed \in BOOLEAN
    /\ since \subseteq Calls
    /\ outs \in [Calls -> SUBSET Calls]
    /\ ending \subseteq Calls

\* A locked account opens by time, or by a login with the right password that had
\* passed the check before the account was locked.
LockHolds ==
    [][user.locked /\ ~user'.locked =>
          \/ UnlockByTime
          \/ \E c \in since : callAt[c] = "reset"]_sVars

\* After a logout has taken the refresh token away, it comes back only through a
\* login, or through a refresh that was in flight when it was taken.
SignedOutStays ==
    [][~user.refresh /\ user'.refresh =>
          \E c \in Calls : \/ callAt[c] = "save"
                           \/ callAt[c] = "rsave" /\ outs[c] # {}]_sVars

\* A session that had its row when its logout began is over once the logout is
\* answered, for good: no login of the same second, whose token is the same
\* string, makes it active again.
SessionEnded ==
    \A c \in ending : callAt[c] = "out-done" => rows[local[c].iat] = "ended"

\* Unless two logins crossed, loginAttempts is the number of wrong passwords since
\* the last right one, through lock-outs, failures and whatever else goes on.
AttemptsCounted == crossed \/ user.attempts = Cardinality(misses)
\* What call c has at a step: the attempts it read are those of the account until
\* another login writes; it passed the check of the lock before the lock, and the
\* check of the refresh token before the logout; a wrong password is its last; a
\* logout that has ended its row has not left it active.
Carried(c, at, v) ==
    /\ at \in {"compare", "count"} => crossed \/ v.attempts = user.attempts
    /\ at \in {"compare", "count", "reset"} => ~user.locked \/ c \in since
    /\ at = "rsave" => user.refresh \/ outs[c] # {}
    /\ c \in misses => at = "failed"
    /\ c \in ending => at \in {"out", "out-done", "failed"}
    /\ c \in ending /\ at \in {"out", "out-done"} =>
          /\ rows[v.iat] # "none"
          /\ "row" \in v.todo \/ v.broken \/ rows[v.iat] = "ended"
    /\ at = "out-done" => v.todo = {} /\ ~v.broken

CallsOK == \A c \in Calls : Carried(c, callAt[c], local[c])

\* The inductive invariant: the types, what the calls carry between their awaits,
\* and the counted wrong passwords, of which there are finitely many.
SInv == STypeOK /\ CallsOK /\ IsFiniteSet(misses) /\ AttemptsCounted

===============================================================================
