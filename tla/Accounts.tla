-------------------------------- MODULE Accounts --------------------------------
(***************************************************************************)
(* One account: registration, the links mailed to its owner, logins with   *)
(* their lockout, the rotation of sessions, and password resets            *)
(* (services/user_service.py, email_verification.py, password_reset.py,    *)
(* auth/tokens.py, routers/auth.py).                                       *)
(*                                                                         *)
(* A request is one transaction at READ COMMITTED.  It reads the user when *)
(* it starts, each DELETE sees the rows committed when the statement       *)
(* starts, and a row another transaction has locked is waited for.  Mails  *)
(* are queued in Redis, outside of the transaction.  A password is named   *)
(* by the reset link it was set with, the first one by NoToken.            *)
(***************************************************************************)
EXTENDS Naturals, FiniteSets

CONSTANTS
    Reqs,        \* slots for requests under way
    MaxTokens,   \* bound on the links mailed, numbered from 1
    MaxFailed    \* _MAX_FAILED_ATTEMPTS

Token   == 1..MaxTokens
NoToken == 0

ASSUME BoundAssumption     == MaxTokens \in Nat
ASSUME MaxFailedAssumption == MaxFailed \in Nat /\ MaxFailed >= 2
--------------------------------------------------------------------------------
VARIABLES
    user,      \* the row of users; lock: locked_until is NULL ("no"), in the
               \* future ("on") or past ("over")
    row,       \* row[t]: the row of email_verifications or password_resets
    kind,      \* kind[t]: which of the two; "none" before t is mailed
    sessions,  \* rows of refresh_tokens: the password of the login they descend
               \* from, and whether the row was stored while a reset was made or
               \* when that password was no longer the user's; rows that agree in
               \* both are one here, spent ones in their grace period included
    req,       \* req[r]: the transaction in slot r
    uses,      \* uses[t]: history, how often t verified or reset something
    mixed,     \* history: links whose request overlapped with another one's
    tries,     \* history: wrong passwords since the last success or lock
    alone      \* history: no two logins overlapped since then

linkVars  == <<row, kind, uses, mixed>>
loginVars == <<tries, alone>>
vars == <<user, row, kind, sessions, req, uses, mixed, tries, alone>>

Kind == {"verify", "reset"}

\* kind: of the link asked for or used; deletes: DELETEs still to come; creates:
\* the user is new; rows: what a DELETE that waits has seen; held: rows this
\* transaction deletes; token: the new link; valid: the row was not past its
\* expiry; gone: the sessions a reset deletes; parent: the session a rotation
\* marks as spent; failed, lock: of the user as read; password: the one it was
\* checked against; good: it is the right one; alone: no other request of its sort
\* meanwhile.
Free == [pc |-> "idle", op |-> "mail", kind |-> "verify", deletes |-> 0,
         creates |-> FALSE, rows |-> {}, held |-> {}, token |-> NoToken,
         valid |-> FALSE, gone |-> {}, parent |-> {}, failed |-> 0, lock |-> "no",
         password |-> NoToken, good |-> FALSE, alone |-> FALSE]

Init ==
    /\ user = [exists |-> FALSE, verified |-> FALSE, password |-> NoToken,
               failed |-> 0, lock |-> "no"]
    /\ row = [t \in Token |-> "none"]
    /\ kind = [t \in Token |-> "none"]
    /\ sessions = {}
    /\ req = [r \in Reqs |-> Free]
    /\ uses = [t \in Token |-> 0]
    /\ mixed = {}
    /\ tries = 0 /\ alone = TRUE

issued == Cardinality({t \in Token : kind[t] # "none"})

At(r, pc, op) == req[r].pc = pc /\ req[r].op = op

Others(r, op) == {s \in Reqs \ {r} : req[s].pc # "idle" /\ req[s].op = op}

\* A slot starts a request; whoever does the same sort of thing is not alone.
Begin(r, me) ==
    /\ req[r].pc = "idle"
    /\ req' = [s \in Reqs |->
                 IF s = r THEN [me EXCEPT !.alone = (Others(r, me.op) = {})]
                 ELSE IF s \in Others(r, me.op) THEN [req[s] EXCEPT !.alone = FALSE]
                 ELSE req[s]]

Finish(r) == req' = [req EXCEPT ![r] = Free]

HeldByOthers(r) == UNION {req[s].held : s \in Reqs \ {r}}
--------------------------------------------------------------------------------
(* Plausible mistakes, each in the place of the definition named in its    *)
(* comment; no specification of this module uses them.                     *)

\* For Seen: a request deletes only the rows that are past their expiry.
SeenExpired(k) == {t \in Token : kind[t] = k /\ row[t] = "expired"}

\* For Lockable: SELECT without FOR UPDATE.
LockableAlways(r, t) == row[t] # "none"

\* For Rollback: the deletion of the old rows is committed although no new link
\* was mailed.
RollbackHalf(r) ==
    /\ row' = [t \in Token |-> IF t \in req[r].held THEN "none" ELSE row[t]]
    /\ UNCHANGED <<user, kind, sessions, uses, mixed>>

\* For Failures: the lock comes one wrong password late.
FailuresLate(count) == IF count > MaxFailed THEN 0 ELSE count

\* For SignedOut: a reset leaves the sessions alone.
SignedOutNone == {}

\* For AfterSuccess: a login that succeeds keeps the count.
AfterSuccessCounting(me) == [user EXCEPT !.lock = IF me.lock # "no" THEN "no" ELSE @]
--------------------------------------------------------------------------------
(* Links: /auth/register, /auth/resend-verification, /auth/forgot-password. *)

Ask(r, k, deletes, creates) ==
    /\ Begin(r, [Free EXCEPT !.pc = "ask", !.kind = k, !.deletes = deletes,
                             !.creates = creates])
    /\ UNCHANGED <<user, sessions, linkVars, loginVars>>

\* A new address.
Register(r) == ~user.exists /\ Ask(r, "verify", 1, TRUE)

\* An address that is not verified yet, registered or asked for again: the old
\* link is deleted twice, by the caller and by generate_and_store_...
Resend(r) == user.exists /\ ~user.verified /\ Ask(r, "verify", 2, FALSE)

\* The owner of an address that is not verified gets a verification link instead.
Forgot(r) ==
    /\ user.exists
    /\ Ask(r, IF user.verified THEN "reset" ELSE "verify", 1, FALSE)

Creating(s) == req[s].creates /\ req[s].pc \in {"delete", "commit"}

\* The rows a DELETE works on, those committed when it starts.
Seen(k) == {t \in Token : kind[t] = k /\ row[t] # "none"}

\* A DELETE starts.  Before the first one a new user is inserted, which waits for
\* whoever inserts the same address and fails if that commits.
StartDelete(r) ==
    /\ At(r, "ask", "mail")
    /\ req[r].creates => /\ \A s \in Reqs \ {r} : ~Creating(s)
                         /\ ~user.exists
    /\ req' = [req EXCEPT ![r].pc = "delete", ![r].rows = Seen(req[r].kind)]
    /\ UNCHANGED <<user, sessions, linkVars, loginVars>>

\* A DELETE ends: rows that were locked are free, rows deleted meanwhile are
\* skipped.
EndDelete(r) ==
    /\ At(r, "delete", "mail")
    /\ req[r].rows \cap HeldByOthers(r) = {}
    /\ LET me   == req[r]
           held == me.held \cup {t \in me.rows : row[t] # "none"} IN
       \/ /\ me.deletes > 1
          /\ req' = [req EXCEPT ![r].pc = "ask", ![r].deletes = @ - 1,
                                ![r].rows = {}, ![r].held = held]
          /\ UNCHANGED kind
       \* The last one; then the row of the new link is inserted and the mail
       \* with the link is queued, before the commit.
       \/ /\ me.deletes = 1 /\ issued < MaxTokens
          /\ req' = [req EXCEPT ![r].pc = "commit", ![r].deletes = 0,
                                ![r].rows = {}, ![r].held = held,
                                ![r].token = issued + 1]
          /\ kind' = [kind EXCEPT ![issued + 1] = me.kind]
    /\ UNCHANGED <<user, row, sessions, uses, mixed, loginVars>>

CommitLink(r) ==
    /\ At(r, "commit", "mail")
    /\ LET me == req[r] IN
       /\ row' = [t \in Token |-> IF t = me.token THEN "live"
                                  ELSE IF t \in me.held THEN "none" ELSE row[t]]
       /\ user' = IF me.creates THEN [user EXCEPT !.exists = TRUE] ELSE user
       /\ mixed' = IF me.alone THEN mixed ELSE mixed \cup {me.token}
    /\ Finish(r)
    /\ UNCHANGED <<kind, sessions, uses, loginVars>>

\* Nothing of a transaction remains that does not commit: the queue or the
\* database is down, the process dies, another request inserted the user.
Rollback(r) == UNCHANGED <<user, row, kind, sessions, uses, mixed>>

Fail(r) ==
    /\ req[r].pc # "idle"
    /\ Rollback(r)
    /\ Finish(r)
    /\ UNCHANGED loginVars
--------------------------------------------------------------------------------
(* The owner follows a link that was mailed, twice perhaps, or early.      *)

\* SELECT ... FOR UPDATE waits until nobody else holds the row.
Lockable(r, t) == row[t] # "none" /\ t \notin HeldByOthers(r)

\* verify_token; a row past its expiry is deleted all the same, and get_db
\* commits that, since the handler turns the ValueError into a redirect.
Verify(r, t) ==
    /\ kind[t] = "verify" /\ Lockable(r, t)
    /\ Begin(r, [Free EXCEPT !.pc = "commit", !.op = "verify", !.held = {t},
                             !.valid = (row[t] = "live")])
    /\ UNCHANGED <<user, sessions, linkVars, loginVars>>

CommitVerify(r) ==
    /\ At(r, "commit", "verify")
    /\ LET me == req[r] IN
       /\ row' = [t \in Token |-> IF t \in me.held THEN "none" ELSE row[t]]
       /\ user' = [user EXCEPT !.verified = @ \/ me.valid]
       /\ uses' = [t \in Token |-> IF me.valid /\ t \in me.held THEN uses[t] + 1
                                                                ELSE uses[t]]
    /\ Finish(r)
    /\ UNCHANGED <<kind, sessions, mixed, loginVars>>

\* The refresh tokens that DELETE ... WHERE user_id sees.
SignedOut == sessions

\* consume_reset_token; a row past its expiry makes it raise, and so stays.
Reset(r, t) ==
    /\ kind[t] = "reset" /\ Lockable(r, t) /\ row[t] = "live"
    /\ Begin(r, [Free EXCEPT !.pc = "commit", !.op = "reset", !.held = {t},
                             !.gone = SignedOut])
    /\ UNCHANGED <<user, sessions, linkVars, loginVars>>

\* The DELETE waits for rotations that had marked one of its rows.  The counter
\* and the lock of the account stay as they are.
CommitReset(r) ==
    /\ At(r, "commit", "reset")
    /\ \A s \in Reqs : At(s, "commit", "rotate") => req[s].parent \cap req[r].gone = {}
    /\ LET me == req[r] IN
       /\ row' = [t \in Token |-> IF t \in me.held THEN "none" ELSE row[t]]
       /\ user' = [user EXCEPT !.password = CHOOSE t \in me.held : TRUE]
       /\ sessions' = sessions \ me.gone
       /\ uses' = [t \in Token |-> IF t \in me.held THEN uses[t] + 1 ELSE uses[t]]
    /\ Finish(r)
    /\ UNCHANGED <<kind, mixed, loginVars>>
--------------------------------------------------------------------------------
(* Logins.                                                                 *)

\* login() reads the user once and decides on that: unknown, unverified and
\* locked are refused without a trace; the password is right or not.
Login(r, good) ==
    /\ user.exists /\ user.verified /\ user.lock # "on"
    /\ Begin(r, [Free EXCEPT !.pc = "commit", !.op = "login", !.good = good,
                             !.failed = user.failed, !.lock = user.lock,
                             !.password = user.password])
    /\ alone' = (alone /\ Others(r, "login") = {})
    /\ tries' = IF alone' THEN tries ELSE 0
    /\ UNCHANGED <<user, sessions, linkVars>>

\* What a wrong password writes, computed from the count as read.
Failures(count) == IF count >= MaxFailed THEN 0 ELSE count

\* What a right one writes: the ORM sends only columns that differ from the row
\* as read.
AfterSuccess(me) ==
    [user EXCEPT !.failed = IF me.failed # 0 THEN 0 ELSE @,
                 !.lock   = IF me.lock # "no" THEN "no" ELSE @]

\* The history of an account starts anew with a success or a lock.
Recount(me, restarts) ==
    /\ alone' = (alone \/ (restarts /\ me.alone))
    /\ tries' = IF restarts \/ ~alone THEN 0 ELSE tries + 1

WrongPassword(r) ==
    /\ At(r, "commit", "login") /\ ~req[r].good
    /\ LET me    == req[r]
           count == me.failed + 1
           locks == count >= MaxFailed IN
       /\ user' = [user EXCEPT !.failed = Failures(count),
                               !.lock   = IF locks THEN "on" ELSE @]
       /\ Recount(me, locks)
    /\ Finish(r)
    /\ UNCHANGED <<sessions, linkVars>>

Resetting == \E s \in Reqs : At(s, "commit", "reset")

\* A refresh token is stored, whatever became of the password meanwhile.  The
\* DELETE of a reset under way does not see it.  No password comes twice: one that
\* is not the user's any more was reset since.
Store(r) ==
    LET new == [password |-> req[r].password,
                late     |-> Resetting \/ req[r].password # user.password] IN
    /\ sessions' = sessions \cup {new}
    /\ req' = [s \in Reqs |-> IF s = r THEN Free
                              ELSE [req[s] EXCEPT !.gone = @ \ {new}]]

RightPassword(r) ==
    /\ At(r, "commit", "login") /\ req[r].good
    /\ user' = AfterSuccess(req[r])
    /\ Recount(req[r], TRUE)
    /\ Store(r)
    /\ UNCHANGED linkVars
--------------------------------------------------------------------------------
(* Sessions: rotation in /auth/refresh and /auth/me, logout.               *)

\* The row of the token is read: one that is used for the first time is to be marked
\* as spent, a spent one still works within its grace period.
Rotate(r, s, spent) ==
    /\ s \in sessions
    /\ Begin(r, [Free EXCEPT !.pc = IF spent THEN "commit" ELSE "ask",
                             !.op = "rotate", !.password = s.password,
                             !.parent = IF spent THEN {} ELSE {s}])
    /\ UNCHANGED <<user, sessions, linkVars, loginVars>>

\* The UPDATE of the row waits for a reset that has deleted it, and raises when no
\* row is left (then only Fail remains).
MarkSpent(r) ==
    /\ At(r, "ask", "rotate")
    /\ req[r].parent \subseteq sessions
    /\ \A s \in Reqs : At(s, "commit", "reset") => req[r].parent \cap req[s].gone = {}
    /\ req' = [req EXCEPT ![r].pc = "commit"]
    /\ UNCHANGED <<user, sessions, linkVars, loginVars>>

CommitRotate(r) ==
    /\ At(r, "commit", "rotate")
    /\ Store(r)
    /\ UNCHANGED <<user, linkVars, loginVars>>

\* Logout, revoke-all, a row past its expiry or its grace period.
SessionEnds(s) ==
    /\ s \in sessions
    /\ sessions' = sessions \ {s}
    /\ UNCHANGED <<user, req, linkVars, loginVars>>
--------------------------------------------------------------------------------
(* Time.                                                                   *)

LinkExpires(t) ==
    /\ row[t] = "live"
    /\ row' = [row EXCEPT ![t] = "expired"]
    /\ UNCHANGED <<user, kind, sessions, req, uses, mixed, loginVars>>

LockEnds ==
    /\ user.lock = "on"
    /\ user' = [user EXCEPT !.lock = "over"]
    /\ UNCHANGED <<sessions, req, linkVars, loginVars>>
--------------------------------------------------------------------------------
Next ==
    \/ \E r \in Reqs :
          \/ Register(r) \/ Resend(r) \/ Forgot(r)
          \/ StartDelete(r) \/ EndDelete(r) \/ CommitLink(r) \/ Fail(r)
          \/ CommitVerify(r) \/ CommitReset(r)
          \/ WrongPassword(r) \/ RightPassword(r)
    \/ \E r \in Reqs, t \in Token : Verify(r, t) \/ Reset(r, t)
    \/ \E r \in Reqs, good \in BOOLEAN : Login(r, good)
    \/ \E r \in Reqs, s \in sessions, spent \in BOOLEAN : Rotate(r, s, spent)
    \/ \E r \in Reqs : MarkSpent(r) \/ CommitRotate(r)
    \/ \E s \in sessions : SessionEnds(s)
    \/ \E t \in Token : LinkExpires(t)
    \/ LockEnds

Spec == Init /\ [][Next]_vars
--------------------------------------------------------------------------------
(* Properties.                                                             *)

Lock    == {"no", "on", "over"}
Session == [password : 0..MaxTokens, late : BOOLEAN]
Request ==
    [pc : {"idle", "ask", "delete", "commit"},
     op : {"mail", "verify", "reset", "login", "rotate"},
     kind : Kind, deletes : 0..2, creates : BOOLEAN, rows : SUBSET Token,
     held : SUBSET Token, token : 0..MaxTokens, valid : BOOLEAN,
     gone : SUBSET Session, parent : SUBSET Session, failed : 0..(MaxFailed - 1), lock : Lock,
     password : 0..MaxTokens, good : BOOLEAN, alone : BOOLEAN]

\* Every variable has its type; the count of failures never stays at the number
\* that locks the account (user_service.py:162-166).
TypeOK ==
    /\ user \in [exists : BOOLEAN, verified : BOOLEAN, password : 0..MaxTokens,
                 failed : 0..(MaxFailed - 1), lock : Lock]
    /\ row \in [Token -> {"none", "live", "expired"}]
    /\ kind \in [Token -> Kind \cup {"none"}]
    /\ sessions \in SUBSET Session
    /\ req \in [Reqs -> Request]
    /\ uses \in [Token -> Nat]
    /\ mixed \in SUBSET Token
    /\ tries \in Nat /\ alone \in BOOLEAN

\* A link works once, however often and at the same time it is followed
\* (email_verification.py:87-114, password_reset.py:74-104).
LinksWorkOnce == \A t \in Token : uses[t] <= 1

\* An account has one link of a kind, a newer one replaces it, unless the
\* requests for the two overlapped: then each may have missed the other's row
\* (email_verification.py:43, password_reset.py:42, user_service.py:75).
NewestLinkOnly ==
    \A s, t \in Token : s < t /\ kind[s] = kind[t] /\ row[s] # "none" /\ row[t] # "none"
                          => {s, t} \subseteq mixed

\* A link that could be followed goes on to work until it was used or a newer one
\* of its kind was mailed and works: no request that fails takes it away
\* (routers/auth.py:141-160, email_verification.py:65-117, password_reset.py:42-64).
LinkGone(t) ==
    \/ uses'[t] = uses[t] + 1
    \/ \E s \in Token : s > t /\ kind[s] = kind[t] /\ row'[s] = "live"
LinksKeptUntilReplaced ==
    [][\A t \in Token : row[t] = "live" /\ row'[t] = "none" => LinkGone(t)]_vars

\* As long as no two logins overlap, exactly the wrong passwords since the last
\* success or lock are counted (user_service.py:149-179).
FailuresCounted == alone => user.failed = tries

\* After a password reset every session belongs to the new password, except for
\* those stored by a login or a rotation that had read before the reset committed
\* and ended after its DELETE, and those rotated from these
\* (password_reset.py:101-106, user_service.py:158-185, auth/tokens.py:235-278).
ResetSignsOut == \A s \in sessions : s.password = user.password \/ s.late
================================================================================
