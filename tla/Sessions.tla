-------------------------------- MODULE Sessions --------------------------------
(***************************************************************************)
(* Refresh tokens: their rows in Postgres (auth/tokens.py), the requests   *)
(* of /auth that use them (routers/auth.py), the one cookie of a browser   *)
(* and the tabs that share it (AuthContext.tsx, api.ts).                   *)
(*                                                                         *)
(* A request carries the cookie of the moment it is sent and changes the   *)
(* cookie when its reply arrives; between the two the server handles it in *)
(* one or two steps, the second of which relies on what the first one      *)
(* read.  Requests and replies overtake each other and may get lost.       *)
(***************************************************************************)
EXTENDS Naturals, FiniteSets

CONSTANTS
    Tabs,        \* tabs of one browser
    NoTab,       \* whose request a free slot holds
    Reqs,        \* slots for requests under way
    MaxTokens,   \* bound on the refresh tokens issued, numbered from 1
    MaxLost,     \* bound on the messages that get lost
    MaxExpired,  \* bound on the rows that are past their expiry at a time
    MaxRevokes   \* bound on the DELETE /auth/sessions, sent one at a time

Token   == 1..MaxTokens
NoToken == 0

ASSUME NoTabAssumption == NoTab \notin Tabs
ASSUME BoundsAssumption == 
    MaxTokens \in Nat /\ MaxLost \in Nat /\ MaxExpired \in Nat /\ MaxRevokes \in Nat
--------------------------------------------------------------------------------
VARIABLES
    row,      \* row[t]: "fresh"; "grace": revoked_at at most 60 s ago; "spent":
              \* longer ago; "expired"; "none": not yet issued or deleted
    issued,   \* how many tokens were issued
    jar,      \* the refresh_token cookie of the browser
    auth,     \* auth[tab]: no access token in memory ("out"), one that is valid
              \* ("in") or one past its exp ("expired")
    req,      \* req[r]: the request in slot r
    lost,     \* history: how many messages got lost
    era,      \* history: how many times all sessions were revoked
    born,     \* born[t]: history, the era of the login t descends from
    overlap,  \* history: tokens that descend from a request under way while all
              \* sessions were being revoked
    excused   \* history: since the last undisturbed login somebody logged out or
              \* revoked, a token expired, a message got lost, or a grace period
              \* ended under a request that was on its way

histVars == <<lost, era, born, overlap>>
vars == <<row, issued, jar, auth, req, lost, era, born, overlap, excused>>

Op == {"login", "refresh", "retry", "logout", "revoke"}
RequestPC == {"idle", "sent", "rotate", "delete", "reply"}

\* cookie: the token presented; gives: the token in Set-Cookie; clears: the
\* reply deletes the cookie; first: the row had no revoked_at; rows: what a
\* DELETE sees; mixed: a revocation is or was going on meanwhile.
Free == [pc |-> "idle", op |-> "login", tab |-> NoTab,
         cookie |-> NoToken, gives |-> NoToken, clears |-> FALSE,
         first |-> FALSE, rows |-> {}, mixed |-> FALSE]

Init ==
    /\ row = [t \in Token |-> "none"]
    /\ issued = 0
    /\ jar = NoToken
    /\ auth = [tab \in Tabs |-> "out"]
    /\ req = [r \in Reqs |-> Free]
    /\ lost = 0 /\ era = 0 /\ born = [t \in Token |-> 0] /\ overlap = {}
    /\ excused = FALSE

Usable(t) == row[t] \in {"fresh", "grace"}
UsableTokens == {t \in Token : Usable(t)}

Revoking == \E r \in Reqs : req[r].pc = "delete"

At(r, pc, ops) == req[r].pc = pc /\ req[r].op \in ops

\* /auth/refresh, asked for by a timer, a restore or a retry; /auth/me without a
\* valid access token does the same as a restore.
Rotating == {"refresh", "retry"}

\* The handler returns.
Reply(r, gives, clears) ==
    req' = [req EXCEPT ![r] = [Free EXCEPT
              !.pc = "reply", !.op = req[r].op, !.tab = req[r].tab,
              !.gives = gives, !.clears = clears]]
--------------------------------------------------------------------------------
(* Plausible mistakes, each in the place of the definition named in its    *)
(* comment; no specification of this module uses them.                     *)

\* For Accepted: the end of the grace period is not looked at.
AcceptedWhenever(t) == row[t] \in {"fresh", "grace", "spent"}

\* For AfterUse: the row is deleted, as the docstring of the function says.
AfterUseDeleted(t) == {"none"}

\* For RowsSeen: tokens that are already marked revoked are left out.
RowsSeenFresh == {t \in Token : row[t] = "fresh"}

\* For Insert: the cookie is set although the row was never committed.
InsertUnstored(rows, from, mixed) ==
    /\ issued < MaxTokens
    /\ row' = rows
    /\ UNCHANGED <<issued, born, overlap>>
--------------------------------------------------------------------------------
(* The browser.                                                            *)

Send(r, tab, op) ==
    /\ req[r].pc = "idle"
    /\ req' = [req EXCEPT ![r] = [Free EXCEPT !.pc = "sent", !.op = op, !.tab = tab,
                                              !.cookie = jar]]

\* restoreSession, the timer of scheduleRefresh, and /auth/me.
SendRefresh(r, tab) ==
    /\ Send(r, tab, "refresh")
    /\ UNCHANGED <<row, issued, jar, auth, histVars, excused>>

\* apiFetch on TOKEN_EXPIRED.
SendOnExpired(r, tab) ==
    /\ auth[tab] = "expired"
    /\ Send(r, tab, "retry")
    /\ UNCHANGED <<row, issued, jar, auth, histVars, excused>>

\* logout() forgets the session first and does not wait for the server.
SendLogout(r, tab) ==
    /\ auth[tab] # "out"
    /\ auth' = [auth EXCEPT ![tab] = "out"]
    /\ Send(r, tab, "logout")
    /\ excused' = TRUE
    /\ UNCHANGED <<row, issued, jar, histVars>>

\* What a tab makes of the outcome.  A timer or a restore that fails forgets the
\* session.  refreshToken() throws a plain Error, which the check for an ApiError
\* with status 401 in apiFetch lets pass: the tab keeps its expired token.
Outcome(me, ok) ==
    IF ok /\ me.op \in {"login"} \cup Rotating THEN "in"
    ELSE IF me.op = "refresh" THEN "out"
    ELSE auth[me.tab]

Receive(r) ==
    /\ req[r].pc = "reply"
    /\ LET me == req[r] IN
       /\ jar' = IF me.gives # NoToken THEN me.gives
                 ELSE IF me.clears THEN NoToken ELSE jar
       /\ auth' = [auth EXCEPT ![me.tab] = Outcome(me, me.gives # NoToken)]
       /\ excused' = (excused /\ ~(/\ me.op = "login" /\ row[me.gives] = "fresh"
                                   /\ \A s \in Reqs \ {r} : req[s].pc = "idle"))
    /\ req' = [req EXCEPT ![r] = Free]
    /\ UNCHANGED <<row, issued, histVars>>

\* The request, the reply or the server's process is lost; what was committed
\* stays.
Lose(r) ==
    /\ req[r].pc # "idle"
    /\ lost < MaxLost
    /\ lost' = lost + 1
    /\ auth' = [auth EXCEPT ![req[r].tab] = Outcome(req[r], FALSE)]
    /\ req' = [req EXCEPT ![r] = Free]
    /\ excused' = TRUE
    /\ UNCHANGED <<row, issued, jar, era, born, overlap>>

AccessExpires(tab) ==
    /\ auth[tab] = "in"
    /\ auth' = [auth EXCEPT ![tab] = "expired"]
    /\ UNCHANGED <<row, issued, jar, req, histVars, excused>>
--------------------------------------------------------------------------------
(* The server.                                                             *)

\* store_refresh_token: the new row beside what else the transaction did, one
\* commit.  A token of a rotation descends from the one it replaces.
Insert(rows, from, mixed) ==
    /\ issued < MaxTokens
    /\ LET new == issued + 1 IN
       /\ issued' = new
       /\ row' = [rows EXCEPT ![new] = "fresh"]
       /\ born' = [born EXCEPT ![new] = IF from = NoToken THEN era ELSE born[from]]
       /\ overlap' = IF mixed \/ Revoking \/ from \in overlap
                     THEN overlap \cup {new} ELSE overlap

\* POST /auth/login takes no notice of the cookie; its way to the server is left
\* out.
Login(r, tab) ==
    /\ req[r].pc = "idle"
    /\ auth[tab] = "out"
    /\ Insert(row, NoToken, FALSE)
    /\ req' = [req EXCEPT ![r] = [Free EXCEPT !.pc = "reply", !.op = "login", !.tab = tab,
                                              !.gives = issued + 1]]
    /\ UNCHANGED <<jar, auth, lost, era, excused>>

\* First use, or a second one within the grace period.
Accepted(t) == row[t] \in {"fresh", "grace"}

\* The SELECT of validate_and_rotate_refresh_token and its verdict.  A row past
\* its expiry or its grace is deleted on the way; 401 (204 from /auth/me) clears
\* the cookie.  Without a cookie there is nothing to clear.
Lookup(r) ==
    /\ At(r, "sent", Rotating)
    /\ LET t == req[r].cookie IN
       \/ /\ t = NoToken
          /\ Reply(r, NoToken, FALSE)
          /\ UNCHANGED row
       \/ /\ t # NoToken /\ ~Accepted(t)
          /\ row' = [row EXCEPT ![t] = "none"]
          /\ Reply(r, NoToken, TRUE)
       \/ /\ t # NoToken /\ Accepted(t)
          /\ req' = [req EXCEPT ![r].pc = "rotate", ![r].first = (row[t] = "fresh"),
                                ![r].mixed = Revoking]
          /\ UNCHANGED row
    /\ UNCHANGED <<issued, jar, auth, histVars, excused>>

\* What UPDATE ... SET revoked_at makes of a row that others may have used, or
\* that expired, since it was looked up: revoked_at is the time of that look, which
\* may be later than the one it overwrites.
AfterUse(t) ==
    CASE row[t] \in {"fresh", "grace"} -> {"grace"}
      [] row[t] = "spent"              -> {"spent", "grace"}
      [] OTHER                         -> {row[t]}

\* The first use sets revoked_at, which fails (StaleDataError, 500, cookie
\* untouched) when the row was deleted meanwhile; a repeated use leaves the old
\* row alone and does not notice.
Rotate(r) ==
    /\ At(r, "rotate", Rotating)
    /\ LET me == req[r]
           t  == me.cookie IN
       \/ /\ me.first /\ row[t] = "none"
          /\ Reply(r, NoToken, FALSE)
          /\ UNCHANGED <<row, issued, born, overlap>>
       \/ /\ me.first /\ row[t] # "none"
          /\ \E used \in AfterUse(t) : Insert([row EXCEPT ![t] = used], t, me.mixed)
          /\ Reply(r, issued + 1, FALSE)
       \/ /\ ~me.first
          /\ Insert(row, t, me.mixed)
          /\ Reply(r, issued + 1, FALSE)
    /\ UNCHANGED <<jar, auth, lost, era, excused>>

DeleteRow(t) == [s \in Token |-> IF s = t THEN "none" ELSE row[s]]

\* revoke_refresh_token deletes the one row of the cookie presented; the handler
\* clears the cookie in any case.
Logout(r) ==
    /\ At(r, "sent", {"logout"})
    /\ row' = DeleteRow(req[r].cookie)
    /\ Reply(r, NoToken, TRUE)
    /\ UNCHANGED <<issued, jar, auth, histVars, excused>>

\* revoke_all_refresh_tokens: the DELETE works on the rows that were committed
\* when it began; rotations may commit before it does.
RowsSeen == {t \in Token : row[t] # "none"}

\* DELETE /auth/sessions asks for a valid access token, not for the cookie.
RevokeBegin(r, tab) ==
    /\ req[r].pc = "idle"
    /\ auth[tab] = "in"
    /\ era < MaxRevokes /\ ~Revoking
    /\ req' = [req EXCEPT ![r] = [Free EXCEPT !.pc = "delete", !.op = "revoke",
                                              !.tab = tab, !.rows = RowsSeen]]
    /\ excused' = TRUE
    /\ UNCHANGED <<row, issued, jar, auth, histVars>>

RevokeCommit(r) ==
    /\ At(r, "delete", {"revoke"})
    /\ row' = [t \in Token |-> IF t \in req[r].rows THEN "none" ELSE row[t]]
    /\ req' = [s \in Reqs |->
                 IF s = r THEN [req[r] EXCEPT !.pc = "reply", !.clears = TRUE, !.rows = {}]
                 ELSE [req[s] EXCEPT !.mixed = (@ \/ req[s].pc = "rotate")]]
    /\ era' = era + 1
    /\ UNCHANGED <<issued, jar, auth, lost, born, overlap, excused>>
--------------------------------------------------------------------------------
(* Time.                                                                   *)

UnderWay(t) ==
    jar = t \/ \E r \in Reqs : req[r].pc \in {"sent", "rotate"} /\ req[r].cookie = t

GraceEnds(t) ==
    /\ row[t] = "grace"
    /\ row' = [row EXCEPT ![t] = "spent"]
    /\ excused' = (excused \/ UnderWay(t))
    /\ UNCHANGED <<issued, jar, auth, req, histVars>>

Expires(t) ==
    /\ row[t] \in {"fresh", "grace", "spent"}
    /\ Cardinality({s \in Token : row[s] = "expired"}) < MaxExpired
    /\ row' = [row EXCEPT ![t] = "expired"]
    /\ excused' = TRUE
    /\ UNCHANGED <<issued, jar, auth, req, histVars>>
--------------------------------------------------------------------------------
Next ==
    \/ \E r \in Reqs, tab \in Tabs :
          \/ SendRefresh(r, tab) \/ SendOnExpired(r, tab) \/ SendLogout(r, tab)
          \/ Login(r, tab) \/ RevokeBegin(r, tab)
    \/ \E r \in Reqs :
          \/ Receive(r) \/ Lose(r)
          \/ Lookup(r) \/ Rotate(r) \/ Logout(r) \/ RevokeCommit(r)
    \/ \E tab \in Tabs : AccessExpires(tab)
    \/ \E t \in Token : GraceEnds(t) \/ Expires(t)

Spec == Init /\ [][Next]_vars
--------------------------------------------------------------------------------
(* Properties.                                                             *)

Request == [pc : RequestPC, op : Op, tab : Tabs \cup {NoTab}, cookie : 0..MaxTokens,
            gives : 0..MaxTokens, clears : BOOLEAN, first : BOOLEAN,
            rows : SUBSET Token, mixed : BOOLEAN]

\* Every variable has its type; the browser only ever holds tokens the server
\* issued (auth/tokens.py:186-214, routers/auth.py:57-67).
TypeOK ==
    /\ row \in [Token -> {"none", "fresh", "grace", "spent", "expired"}]
    /\ issued \in 0..MaxTokens
    /\ jar \in 0..issued
    /\ auth \in [Tabs -> {"out", "in", "expired"}]
    /\ req \in [Reqs -> Request]
    /\ lost \in 0..MaxLost /\ era \in 0..MaxRevokes
    /\ born \in [Token -> 0..MaxRevokes]
    /\ overlap \in SUBSET Token
    /\ excused \in BOOLEAN

\* Tabs that refresh at once never sign each other out: as long as nobody logs
\* out or revokes, nothing expires or gets lost, and no request takes longer than
\* the grace period, then with all replies in, the cookie holds a token that was
\* not used yet, whatever the order the replies came in
\* (auth/tokens.py:258-279, routers/auth.py:57-81, AuthContext.tsx:66-99).
CookieStaysFresh ==
    ~excused /\ (\A r \in Reqs : req[r].pc = "idle") =>
        IF jar = NoToken THEN \A tab \in Tabs : auth[tab] = "out"
                         ELSE row[jar] = "fresh"

\* When DELETE /auth/sessions has returned, no token of an earlier login is
\* usable, used ones in their grace period included; only a request that was
\* under way at that time leaves one, or a descendant of it
\* (auth/tokens.py:301-318, routers/auth.py:560-588).
RevokeAllReachesAll ==
    \A t \in UsableTokens : born[t] = era \/ t \in overlap

\* The rows, requests and clocks implement the life of a token: a new one only
\* for a login or for a request that presented a usable one, and a dead one stays
\* dead (auth/tokens.py:186-318).
Life == INSTANCE SessionTokens WITH
            Slots <- Reqs,
            alive <- UsableTokens,
            granted <- [r \in Reqs |-> IF req[r].pc = "rotate" THEN req[r].cookie
                                                               ELSE NoToken]
TokenLife == Life!Spec
================================================================================
