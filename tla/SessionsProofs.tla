----------------------------- MODULE SessionsProofs -----------------------------
(***************************************************************************)
(* Proofs about Sessions for any number of tabs, requests and tokens, and  *)
(* any number of messages that get lost.                                   *)
(***************************************************************************)
EXTENDS Sessions, TLAPS

USE DEF NoToken

--------------------------------------------------------------------------------
(* The inductive invariants.                                               *)

\* Requests carry and replies bring only what was issued; who is about to rotate
\* presented a token, and the reply to a login brings one; one revocation of all
\* sessions at a time.
RequestsInv ==
    /\ \A r \in Reqs : req[r].cookie <= issued /\ req[r].gives <= issued
    /\ \A r \in Reqs : req[r].pc = "rotate" => req[r].cookie # NoToken
    /\ \A r \in Reqs : req[r].pc = "reply" /\ req[r].op = "login" => req[r].gives # NoToken
    /\ \A r \in Reqs : req[r].pc = "delete" => era < MaxRevokes
    /\ \A r, s \in Reqs : req[r].pc = "delete" /\ req[s].pc = "delete" => r = s

\* A row that is still there, whatever its age, descends from a login since the
\* last revocation of all or from what overlapped one; so does what a request that
\* overlapped none is about to rotate; and what a revocation under way has not seen
\* overlaps it.
Recent(t) == born[t] = era \/ t \in overlap

RevokeInv ==
    /\ \A t \in Token : row[t] # "none" => Recent(t)
    /\ \A r \in Reqs : req[r].pc = "rotate" /\ ~req[r].mixed => Recent(req[r].cookie)
    /\ \A r \in Reqs : req[r].pc = "delete" =>
          \A t \in Token : row[t] # "none" => t \in req[r].rows \/ t \in overlap

\* As long as nothing excuses it: nothing under way will clear the cookie, every
\* token presented is in use or in its grace period, and a token that is on its way
\* to the browser has not been used, for nobody else has it.
OnlyRefreshes ==
    \A r \in Reqs : req[r].pc # "idle" =>
       /\ req[r].pc \in {"sent", "rotate", "reply"} /\ ~req[r].clears
       /\ req[r].op \in {"login"} \cup Rotating

PresentedIsUsable ==
    \A r \in Reqs : req[r].pc \in {"sent", "rotate"} /\ req[r].cookie # NoToken =>
       Usable(req[r].cookie)

Brings(r, t) == req[r].pc = "reply" /\ req[r].gives = t

BroughtIsFresh ==
    \A r \in Reqs : \A t \in Token : Brings(r, t) =>
       /\ row[t] = "fresh" /\ jar # t
       /\ \A s \in Reqs : /\ req[s].pc \in {"sent", "rotate"} => req[s].cookie # t
                          /\ Brings(s, t) => s = r

JarIsFresh ==
    /\ jar = NoToken => \A tab \in Tabs : auth[tab] = "out"
    /\ jar # NoToken => /\ Usable(jar)
                        /\ \/ row[jar] = "fresh"
                           \/ \E r \in Reqs : \E t \in Token : Brings(r, t)

CookieInv == ~excused => /\ OnlyRefreshes /\ PresentedIsUsable
                         /\ BroughtIsFresh /\ JarIsFresh
--------------------------------------------------------------------------------
(* What a step makes of the requests.                                      *)

\* A slot that is free holds no request.
LEMMA FreeRequest ==
  /\ Free \in Request
  /\ Free.pc = "idle" /\ Free.op = "login" /\ Free.tab = NoTab /\ Free.cookie = NoToken
  /\ Free.gives = NoToken /\ Free.rows = {} /\ ~Free.clears /\ ~Free.first /\ ~Free.mixed
BY BoundsAssumption DEF Free, Request, RequestPC, Op, NoToken

\* A handler that returns leaves its reply in the slot and touches no other.
LEMMA Replied ==
  ASSUME TypeOK, NEW r \in Reqs, NEW gives \in 0..MaxTokens, NEW clears \in BOOLEAN,
         Reply(r, gives, clears)
  PROVE  /\ req' \in [Reqs -> Request]
         /\ \A s \in Reqs : s # r => req'[s] = req[s]
         /\ req'[r].pc = "reply" /\ req'[r].op = req[r].op /\ req'[r].tab = req[r].tab
         /\ req'[r].cookie = NoToken /\ req'[r].gives = gives /\ req'[r].rows = {}
         /\ req'[r].clears = clears /\ ~req'[r].first /\ ~req'[r].mixed
<1> DEFINE me == [Free EXCEPT !.pc = "reply", !.op = req[r].op, !.tab = req[r].tab,
                              !.gives = gives, !.clears = clears]
<1>1. req[r].op \in Op /\ req[r].tab \in Tabs \cup {NoTab}
  BY DEF TypeOK, Request
<1>2. /\ me.pc = "reply" /\ me.op = req[r].op /\ me.tab = req[r].tab
      /\ me.cookie = NoToken /\ me.gives = gives /\ me.rows = {}
  BY <1>1, FreeRequest DEF Request
<1>3. me.clears = clears
  BY <1>1, FreeRequest DEF Request
<1>4. me.first = Free.first /\ me.mixed = Free.mixed
  BY <1>1, FreeRequest DEF Request
<1>5. me \in Request
  BY <1>1, FreeRequest DEF Request, RequestPC
<1>6. req' = [req EXCEPT ![r] = me] /\ req \in [Reqs -> Request]
  BY DEF Reply, TypeOK
<1> HIDE DEF me
<1> QED
  BY <1>2, <1>3, <1>4, <1>5, <1>6, FreeRequest

\* A slot whose request is over holds none.
LEMMA Forgotten ==
  ASSUME TypeOK, NEW r \in Reqs, req' = [req EXCEPT ![r] = Free]
  PROVE  /\ req' \in [Reqs -> Request]
         /\ \A s \in Reqs : s # r => req'[s] = req[s]
         /\ req'[r] = Free
BY FreeRequest DEF TypeOK

\* A request that is sent carries the cookie of the moment.
LEMMA Sent ==
  ASSUME TypeOK, NEW r \in Reqs, NEW tab \in Tabs, NEW op \in Op, Send(r, tab, op)
  PROVE  /\ req' \in [Reqs -> Request]
         /\ \A s \in Reqs : s # r => req'[s] = req[s]
         /\ req'[r].pc = "sent" /\ req'[r].op = op /\ req'[r].tab = tab
         /\ req'[r].cookie = jar /\ req'[r].gives = NoToken /\ ~req'[r].clears
<1> DEFINE me == [Free EXCEPT !.pc = "sent", !.op = op, !.tab = tab, !.cookie = jar]
<1>1. jar \in 0..MaxTokens
  BY BoundsAssumption DEF TypeOK
<1>2. /\ me.pc = "sent" /\ me.op = op /\ me.tab = tab /\ me.cookie = jar
      /\ me.gives = NoToken
  BY <1>1, FreeRequest DEF Request
<1>3. me.clears = Free.clears
  BY <1>1, FreeRequest DEF Request
<1>4. me \in Request
  BY <1>1, FreeRequest DEF Request, RequestPC
<1>5. req' = [req EXCEPT ![r] = me] /\ req \in [Reqs -> Request]
  BY DEF Send, TypeOK
<1> HIDE DEF me
<1> QED
  BY <1>2, <1>3, <1>4, <1>5, FreeRequest

\* The reply to a login brings the token just issued.
LEMMA LoggedIn ==
  ASSUME TypeOK, NEW r \in Reqs, NEW tab \in Tabs, Login(r, tab)
  PROVE  /\ req' \in [Reqs -> Request] /\ req[r].pc = "idle"
         /\ \A s \in Reqs : s # r => req'[s] = req[s]
         /\ req'[r].pc = "reply" /\ req'[r].op = "login" /\ req'[r].tab = tab
         /\ req'[r].cookie = NoToken /\ req'[r].gives = issued + 1 /\ ~req'[r].clears
<1> DEFINE me == [Free EXCEPT !.pc = "reply", !.op = "login", !.tab = tab,
                              !.gives = issued + 1]
<1>1. issued + 1 \in 0..MaxTokens
  BY BoundsAssumption DEF TypeOK, Login, Insert
<1>2. /\ me.pc = "reply" /\ me.op = "login" /\ me.tab = tab /\ me.cookie = NoToken
      /\ me.gives = issued + 1
  BY <1>1, FreeRequest DEF Request
<1>3. me.clears = Free.clears
  BY <1>1, FreeRequest DEF Request
<1>4. me \in Request
  BY <1>1, FreeRequest DEF Request, RequestPC, Op
<1>5. req' = [req EXCEPT ![r] = me] /\ req \in [Reqs -> Request]
  BY DEF Login, TypeOK
<1>6. req[r].pc = "idle"
  BY DEF Login
<1> HIDE DEF me
<1> QED
  BY <1>2, <1>3, <1>4, <1>5, <1>6, FreeRequest

\* A rotation that is granted goes on with the token it presented.
LEMMA LookedUp ==
  ASSUME TypeOK, NEW r \in Reqs,
         req' = [req EXCEPT ![r].pc = "rotate",
                            ![r].first = (row[req[r].cookie] = "fresh"),
                            ![r].mixed = Revoking]
  PROVE  /\ req' \in [Reqs -> Request]
         /\ \A s \in Reqs : s # r => req'[s] = req[s]
         /\ req'[r].pc = "rotate" /\ req'[r].op = req[r].op /\ req'[r].tab = req[r].tab
         /\ req'[r].cookie = req[r].cookie /\ req'[r].gives = req[r].gives
         /\ req'[r].clears = req[r].clears
         /\ req'[r].first = (row[req[r].cookie] = "fresh")
         /\ req'[r].mixed = Revoking
<1> DEFINE first == row[req[r].cookie] = "fresh"
           mixed == Revoking
           me == [req[r] EXCEPT !.pc = "rotate", !.first = first, !.mixed = mixed]
<1>1. req[r] \in Request /\ req \in [Reqs -> Request]
  BY DEF TypeOK
<1>2. req' = [req EXCEPT ![r] = me]
  OBVIOUS
<1>3. first \in BOOLEAN /\ mixed \in BOOLEAN
  BY Zenon DEF Revoking
<1> HIDE DEF first, mixed
<1>4. /\ me.pc = "rotate" /\ me.op = req[r].op /\ me.tab = req[r].tab
      /\ me.cookie = req[r].cookie /\ me.gives = req[r].gives
  BY <1>1 DEF Request
<1>5. me.clears = req[r].clears /\ me.first = first /\ me.mixed = mixed
  BY <1>1 DEF Request
<1>6. me \in Request
  BY <1>1, <1>3 DEF Request, RequestPC
<1> HIDE DEF me
<1>7. req' \in [Reqs -> Request] /\ req'[r] = me /\ \A s \in Reqs : s # r => req'[s] = req[s]
  <2>1. /\ [req EXCEPT ![r] = me] \in [Reqs -> Request] /\ [req EXCEPT ![r] = me][r] = me
        /\ \A s \in Reqs : s # r => [req EXCEPT ![r] = me][s] = req[s]
    <3> HIDE <1>2
    <3> QED
      BY <1>1, <1>6
  <2> QED
    BY <1>2, <2>1, Zenon
<1> QED
  BY <1>4, <1>5, <1>7 DEF first, mixed

\* A revocation of all sessions has seen the rows of the moment it began.
LEMMA RevocationBegun ==
  ASSUME TypeOK, NEW r \in Reqs, NEW tab \in Tabs, RevokeBegin(r, tab)
  PROVE  /\ req' \in [Reqs -> Request] /\ req[r].pc = "idle"
         /\ \A s \in Reqs : s # r => req'[s] = req[s]
         /\ req'[r].pc = "delete" /\ req'[r].op = "revoke" /\ req'[r].tab = tab
         /\ req'[r].cookie = NoToken /\ req'[r].gives = NoToken /\ req'[r].rows = RowsSeen
<1> DEFINE me == [Free EXCEPT !.pc = "delete", !.op = "revoke", !.tab = tab,
                              !.rows = RowsSeen]
<1>1. RowsSeen \in SUBSET Token
  BY DEF RowsSeen
<1>2. /\ me.pc = "delete" /\ me.op = "revoke" /\ me.tab = tab /\ me.cookie = NoToken
      /\ me.gives = NoToken /\ me.rows = RowsSeen
  BY <1>1, FreeRequest DEF Request
<1>3. me \in Request
  BY <1>1, FreeRequest DEF Request, RequestPC, Op
<1>4. req' = [req EXCEPT ![r] = me] /\ req \in [Reqs -> Request] /\ req[r].pc = "idle"
  BY DEF RevokeBegin, TypeOK
<1> HIDE DEF me
<1> QED
  BY <1>2, <1>3, <1>4

\* When it commits, the rotations under way have overlapped it.
LEMMA RevocationCommitted ==
  ASSUME TypeOK, NEW r \in Reqs, RevokeCommit(r)
  PROVE  /\ req' \in [Reqs -> Request]
         /\ \A s \in Reqs : /\ req'[s].cookie = req[s].cookie /\ req'[s].gives = req[s].gives
                            /\ req'[s].op = req[s].op /\ req'[s].tab = req[s].tab
         /\ \A s \in Reqs : s # r => /\ req'[s].pc = req[s].pc
                                     /\ req'[s].rows = req[s].rows
         /\ \A s \in Reqs : s # r /\ req[s].pc = "rotate" => req'[s].mixed
         /\ req[r].pc = "delete" /\ req[r].op = "revoke" /\ req'[r].pc = "reply"
<1>1. req \in [Reqs -> Request] /\ req[r].pc = "delete" /\ req[r].op = "revoke"
  BY DEF TypeOK, RevokeCommit, At
<1> DEFINE mine == [req[r] EXCEPT !.pc = "reply", !.clears = TRUE, !.rows = {}]
           mixed(s) == req[s].mixed \/ req[s].pc = "rotate"
           theirs(s) == [req[s] EXCEPT !.mixed = mixed(s)]
<1>2. req' = [s \in Reqs |-> IF s = r THEN mine ELSE theirs(s)]
  BY DEF RevokeCommit
<1>3. /\ mine \in Request /\ mine.pc = "reply" /\ mine.cookie = req[r].cookie
      /\ mine.gives = req[r].gives /\ mine.op = req[r].op /\ mine.tab = req[r].tab
  BY <1>1 DEF Request, RequestPC
<1>4. ASSUME NEW s \in Reqs
      PROVE  /\ theirs(s) \in Request /\ theirs(s).mixed = mixed(s)
             /\ theirs(s).pc = req[s].pc /\ theirs(s).rows = req[s].rows
             /\ theirs(s).cookie = req[s].cookie /\ theirs(s).gives = req[s].gives
             /\ theirs(s).op = req[s].op /\ theirs(s).tab = req[s].tab
  <2>1. mixed(s) \in BOOLEAN /\ req[s] \in Request
    BY <1>1, Zenon
  <2> HIDE DEF mixed
  <2> QED
    BY <2>1 DEF Request
<1>5. \A s \in Reqs : req[s].pc = "rotate" => mixed(s)
  OBVIOUS
<1> HIDE DEF mine, mixed, theirs
<1> QED
  BY <1>1, <1>2, <1>3, <1>4, <1>5
\* A token that is issued is fresh; it descends from the one it replaces, and so do
\* its overlaps.
LEMMA Inserted ==
  ASSUME TypeOK, NEW rows \in [Token -> {"none", "fresh", "grace", "spent", "expired"}],
         NEW from \in 0..MaxTokens, NEW mixed \in BOOLEAN, Insert(rows, from, mixed)
  PROVE  /\ issued' = issued + 1 /\ issued' \in 0..MaxTokens /\ issued' \in Token
         /\ row' \in [Token -> {"none", "fresh", "grace", "spent", "expired"}]
         /\ row'[issued'] = "fresh"
         /\ \A t \in Token : t # issued' => row'[t] = rows[t] /\ born'[t] = born[t]
         /\ born' \in [Token -> 0..MaxRevokes]
         /\ born'[issued'] = IF from = NoToken THEN era ELSE born[from]
         /\ overlap' \subseteq Token /\ overlap \subseteq overlap'
         /\ mixed \/ Revoking \/ from \in overlap => issued' \in overlap'
<1>1. /\ issued' = issued + 1 /\ issued' \in 0..MaxTokens /\ issued' \in Token
      /\ row' = [rows EXCEPT ![issued'] = "fresh"]
      /\ born' = [born EXCEPT ![issued'] = IF from = NoToken THEN era ELSE born[from]]
  BY BoundsAssumption DEF Insert, TypeOK, Token
<1>2. /\ row' \in [Token -> {"none", "fresh", "grace", "spent", "expired"}]
      /\ row'[issued'] = "fresh"
      /\ \A t \in Token : t # issued' => row'[t] = rows[t] /\ born'[t] = born[t]
      /\ born'[issued'] = IF from = NoToken THEN era ELSE born[from]
  BY <1>1 DEF TypeOK
<1>3. born' \in [Token -> 0..MaxRevokes]
  <2>1. (IF from = NoToken THEN era ELSE born[from]) \in 0..MaxRevokes
    BY BoundsAssumption DEF TypeOK, Token
  <2> QED
    BY <1>1, <2>1 DEF TypeOK
<1>4. CASE mixed \/ Revoking \/ from \in overlap
  <2>1. overlap' = overlap \cup {issued'}
    BY <1>1, <1>4 DEF Insert
  <2> QED
    BY <1>1, <1>2, <1>3, <2>1 DEF TypeOK
<1>5. CASE ~(mixed \/ Revoking \/ from \in overlap)
  <2>1. overlap' = overlap
    BY <1>5 DEF Insert
  <2> QED
    BY <1>1, <1>2, <1>3, <1>5, <2>1 DEF TypeOK
<1> QED
  BY <1>4, <1>5

\* What a tab makes of an outcome is a state of a tab.
LEMMA OutcomeType ==
  ASSUME TypeOK, NEW tab \in Tabs \cup {NoTab}, NEW outcome,
         auth' = [auth EXCEPT ![tab] = outcome],
         outcome \in {"out", "in", "expired"} \/ outcome = auth[tab]
  PROVE  auth' \in [Tabs -> {"out", "in", "expired"}]
BY NoTabAssumption DEF TypeOK
--------------------------------------------------------------------------------
(* Types.                                                                  *)

\* Every step keeps the types and what requests carry.
LEMMA NextTypes ==
  ASSUME TypeOK, RequestsInv, Next
  PROVE  TypeOK' /\ RequestsInv'
<1>0. /\ jar \in 0..MaxTokens /\ jar \in 0..issued /\ issued \in 0..MaxTokens
      /\ \A r \in Reqs : req[r] \in Request /\ req[r].cookie \in 0..MaxTokens
                        /\ req[r].gives \in 0..MaxTokens
      /\ NoToken \in 0..MaxTokens /\ TRUE \in BOOLEAN /\ FALSE \in BOOLEAN
  BY BoundsAssumption DEF TypeOK, Request
<1>1. ASSUME NEW r \in Reqs, NEW tab \in Tabs, NEW op \in {"refresh", "retry", "logout"},
             Send(r, tab, op), UNCHANGED <<row, issued, jar, histVars>>,
             auth' \in [Tabs -> {"out", "in", "expired"}], excused' \in BOOLEAN
      PROVE  TypeOK' /\ RequestsInv'
  <2>1. /\ req' \in [Reqs -> Request]
        /\ \A s \in Reqs : s # r => req'[s] = req[s]
        /\ req'[r].pc = "sent" /\ req'[r].cookie = jar /\ req'[r].gives = NoToken
    BY <1>1, Sent DEF Op
  <2>2. TypeOK'
    BY <1>1, <2>1 DEF TypeOK, histVars
  <2>3. RequestsInv'
    BY <1>0, <1>1, <2>1 DEF RequestsInv, histVars
  <2> QED
    BY <2>2, <2>3
<1>2. ASSUME NEW r \in Reqs, NEW tab \in Tabs,
             SendRefresh(r, tab) \/ SendOnExpired(r, tab) \/ SendLogout(r, tab)
      PROVE  TypeOK' /\ RequestsInv'
  <2>1. CASE SendRefresh(r, tab)
    <3>1. auth' \in [Tabs -> {"out", "in", "expired"}] /\ excused' \in BOOLEAN
      BY <2>1 DEF SendRefresh, TypeOK
    <3> QED
      BY <1>1, <2>1, <3>1 DEF SendRefresh
  <2>2. CASE SendOnExpired(r, tab)
    <3>1. auth' \in [Tabs -> {"out", "in", "expired"}] /\ excused' \in BOOLEAN
      BY <2>2 DEF SendOnExpired, TypeOK
    <3> QED
      BY <1>1, <2>2, <3>1 DEF SendOnExpired
  <2>3. CASE SendLogout(r, tab)
    <3>1. auth' \in [Tabs -> {"out", "in", "expired"}] /\ excused' \in BOOLEAN
      BY <2>3 DEF SendLogout, TypeOK
    <3> QED
      BY <1>1, <2>3, <3>1 DEF SendLogout
  <2> QED
    BY <1>2, <2>1, <2>2, <2>3
<1>3. ASSUME NEW r \in Reqs, NEW tab \in Tabs, Login(r, tab)
      PROVE  TypeOK' /\ RequestsInv'
  <2>1. /\ req' \in [Reqs -> Request]
        /\ \A s \in Reqs : s # r => req'[s] = req[s]
        /\ req'[r].pc = "reply" /\ req'[r].cookie = NoToken /\ req'[r].gives = issued + 1
    BY <1>3, LoggedIn
  <2>2. /\ issued' = issued + 1 /\ issued' \in 0..MaxTokens
        /\ row' \in [Token -> {"none", "fresh", "grace", "spent", "expired"}]
        /\ born' \in [Token -> 0..MaxRevokes] /\ overlap' \subseteq Token
    <3>1. /\ Insert(row, NoToken, FALSE)
          /\ row \in [Token -> {"none", "fresh", "grace", "spent", "expired"}]
      BY <1>3 DEF Login, TypeOK
    <3> QED
      BY <3>1, <1>0, Inserted
  <2>3. UNCHANGED <<jar, auth, lost, era, excused>>
    BY <1>3 DEF Login
  <2>4. TypeOK'
    BY <1>0, <2>1, <2>2, <2>3 DEF TypeOK
  <2>5. RequestsInv'
    BY <1>0, <2>1, <2>2, <2>3 DEF RequestsInv
  <2> QED
    BY <2>4, <2>5
<1>4. ASSUME NEW r \in Reqs, NEW tab \in Tabs, RevokeBegin(r, tab)
      PROVE  TypeOK' /\ RequestsInv'
  <2>1. /\ req' \in [Reqs -> Request]
        /\ \A s \in Reqs : s # r => req'[s] = req[s]
        /\ req'[r].pc = "delete" /\ req'[r].cookie = NoToken /\ req'[r].gives = NoToken
    BY <1>4, RevocationBegun
  <2>2. UNCHANGED <<row, issued, jar, auth, histVars>> /\ excused' = TRUE
        /\ era < MaxRevokes /\ ~Revoking
    BY <1>4 DEF RevokeBegin
  <2>3. TypeOK'
    <3>1. excused' \in BOOLEAN
      BY <2>2, Zenon
    <3> QED
      BY <2>1, <2>2, <3>1 DEF TypeOK, histVars
  <2>4. RequestsInv'
    BY <1>0, <2>1, <2>2 DEF RequestsInv, histVars, Revoking
  <2> QED
    BY <2>3, <2>4
<1>5. ASSUME NEW r \in Reqs, Receive(r)
      PROVE  TypeOK' /\ RequestsInv'
  <2>1. req' \in [Reqs -> Request] /\ req'[r] = Free
        /\ \A s \in Reqs : s # r => req'[s] = req[s]
    BY <1>5, Forgotten DEF Receive
  <2>2. auth' \in [Tabs -> {"out", "in", "expired"}]
    BY <1>0, <1>5, OutcomeType DEF Receive, Outcome, Request
  <2>3. jar' \in 0..issued'
    BY <1>0, <1>5 DEF Receive, RequestsInv
  <2>4. excused' \in BOOLEAN
    BY <1>5, Zenon DEF Receive
  <2>5. UNCHANGED <<row, issued, lost, era, born, overlap>>
    BY <1>5 DEF Receive, histVars
  <2>6. TypeOK'
    BY <2>1, <2>2, <2>3, <2>4, <2>5 DEF TypeOK
  <2>7. RequestsInv'
    BY <1>0, <2>1, <2>5, FreeRequest DEF RequestsInv
  <2> QED
    BY <2>6, <2>7
<1>6. ASSUME NEW r \in Reqs, Lose(r)
      PROVE  TypeOK' /\ RequestsInv'
  <2>1. req' \in [Reqs -> Request] /\ req'[r] = Free
        /\ \A s \in Reqs : s # r => req'[s] = req[s]
    BY <1>6, Forgotten DEF Lose
  <2>2. auth' \in [Tabs -> {"out", "in", "expired"}]
    BY <1>0, <1>6, OutcomeType DEF Lose, Outcome, Request
  <2>3. lost' \in 0..MaxLost
    BY <1>6, BoundsAssumption DEF Lose, TypeOK
  <2>4. excused' \in BOOLEAN
    BY <1>6, Zenon DEF Lose
  <2>5. UNCHANGED <<row, issued, jar, era, born, overlap>>
    BY <1>6 DEF Lose
  <2>6. TypeOK'
    BY <2>1, <2>2, <2>3, <2>4, <2>5 DEF TypeOK
  <2>7. RequestsInv'
    BY <1>0, <2>1, <2>5, FreeRequest DEF RequestsInv
  <2> QED
    BY <2>6, <2>7
<1>7. ASSUME NEW r \in Reqs, Lookup(r)
      PROVE  TypeOK' /\ RequestsInv'
  <2> DEFINE t == req[r].cookie
  <2>1. UNCHANGED <<issued, jar, auth, lost, era, born, overlap, excused>>
    BY <1>7 DEF Lookup, histVars
  <2>2. req[r].op \in Rotating /\ req[r].pc = "sent"
    BY <1>7 DEF Lookup, At
  <2>3. ASSUME NEW clears \in BOOLEAN, Reply(r, NoToken, clears),
               row' \in [Token -> {"none", "fresh", "grace", "spent", "expired"}]
        PROVE  TypeOK' /\ RequestsInv'
    <3>1. /\ req' \in [Reqs -> Request]
          /\ \A s \in Reqs : s # r => req'[s] = req[s]
          /\ req'[r].pc = "reply" /\ req'[r].op = req[r].op
          /\ req'[r].cookie = NoToken /\ req'[r].gives = NoToken
      BY <1>0, <2>3, Replied
    <3>2. TypeOK'
      BY <2>1, <2>3, <3>1 DEF TypeOK
    <3>3. RequestsInv'
      BY <1>0, <2>1, <2>2, <3>1 DEF RequestsInv, Rotating
    <3> QED
      BY <3>2, <3>3
  <2>4. CASE t = NoToken /\ Reply(r, NoToken, FALSE) /\ UNCHANGED row
    BY <2>3, <2>4 DEF TypeOK
  <2>5. CASE /\ t # NoToken /\ row' = [row EXCEPT ![t] = "none"]
             /\ Reply(r, NoToken, TRUE)
    BY <2>3, <2>5 DEF TypeOK
  <2>6. CASE /\ t # NoToken
             /\ req' = [req EXCEPT ![r].pc = "rotate", ![r].first = (row[t] = "fresh"),
                                   ![r].mixed = Revoking]
             /\ UNCHANGED row
    <3>1. /\ req' \in [Reqs -> Request]
          /\ \A s \in Reqs : s # r => req'[s] = req[s]
          /\ req'[r].pc = "rotate" /\ req'[r].cookie = t /\ req'[r].gives = req[r].gives
      BY <2>6, LookedUp
    <3>2. TypeOK'
      BY <2>1, <2>6, <3>1 DEF TypeOK
    <3>3. RequestsInv'
      <4>1. t # NoToken /\ issued' = issued /\ era' = era
        BY <2>1, <2>6
      <4>2. \A s \in Reqs : req'[s].cookie = req[s].cookie /\ req'[s].gives = req[s].gives
        BY <3>1, Zenon
      <4>3. \A s \in Reqs : req'[s].pc # "rotate" => s # r /\ req'[s] = req[s]
        BY <3>1, Zenon
      <4>4. \A s \in Reqs : req'[s].pc = "rotate" => req'[s].cookie # NoToken
        BY <1>0, <3>1, <4>1, Zenon DEF RequestsInv
      <4> QED
        BY <1>0, <4>1, <4>2, <4>3, <4>4 DEF RequestsInv
    <3> QED
      BY <3>2, <3>3
  <2> QED
    BY <1>7, <2>4, <2>5, <2>6 DEF Lookup
<1>8. ASSUME NEW r \in Reqs, Rotate(r)
      PROVE  TypeOK' /\ RequestsInv'
  <2> DEFINE t == req[r].cookie
  <2>1. UNCHANGED <<jar, auth, lost, era, excused>>
    BY <1>8 DEF Rotate
  <2>2. req[r].op \in Rotating /\ req[r].pc = "rotate" /\ t \in Token
        /\ req[r].mixed \in BOOLEAN
    BY <1>0, <1>8, BoundsAssumption DEF Rotate, At, RequestsInv, Token, Request
  <2>3. ASSUME Reply(r, NoToken, FALSE), UNCHANGED <<row, issued, born, overlap>>
        PROVE  TypeOK' /\ RequestsInv'
    <3>1. /\ req' \in [Reqs -> Request]
          /\ \A s \in Reqs : s # r => req'[s] = req[s]
          /\ req'[r].pc = "reply" /\ req'[r].op = req[r].op
          /\ req'[r].cookie = NoToken /\ req'[r].gives = NoToken
      BY <1>0, <2>3, Replied
    <3>2. TypeOK'
      BY <2>1, <2>3, <3>1 DEF TypeOK
    <3>3. RequestsInv'
      BY <1>0, <2>1, <2>2, <2>3, <3>1 DEF RequestsInv, Rotating
    <3> QED
      BY <3>2, <3>3
  <2>4. ASSUME NEW rows \in [Token -> {"none", "fresh", "grace", "spent", "expired"}],
               Insert(rows, t, req[r].mixed), Reply(r, issued + 1, FALSE)
        PROVE  TypeOK' /\ RequestsInv'
    <3>1. /\ issued' = issued + 1 /\ issued' \in 0..MaxTokens
          /\ row' \in [Token -> {"none", "fresh", "grace", "spent", "expired"}]
          /\ born' \in [Token -> 0..MaxRevokes] /\ overlap' \subseteq Token
      BY <1>0, <2>2, <2>4, Inserted
    <3>2. /\ req' \in [Reqs -> Request]
          /\ \A s \in Reqs : s # r => req'[s] = req[s]
          /\ req'[r].pc = "reply" /\ req'[r].op = req[r].op
          /\ req'[r].cookie = NoToken /\ req'[r].gives = issued + 1
      BY <2>4, <3>1, Replied
    <3>3. TypeOK'
      BY <1>0, <2>1, <3>1, <3>2 DEF TypeOK
    <3>4. RequestsInv'
      BY <1>0, <2>1, <2>2, <3>1, <3>2 DEF RequestsInv, Rotating
    <3> QED
      BY <3>3, <3>4
  <2>5. \A used \in AfterUse(t) : used \in {"none", "fresh", "grace", "spent", "expired"}
    BY <2>2 DEF AfterUse, TypeOK
  <2>6. ASSUME NEW used \in AfterUse(t),
               Insert([row EXCEPT ![t] = used], t, req[r].mixed), Reply(r, issued + 1, FALSE)
        PROVE  TypeOK' /\ RequestsInv'
    <3>1. [row EXCEPT ![t] = used] \in [Token -> {"none", "fresh", "grace", "spent", "expired"}]
      BY <2>5 DEF TypeOK
    <3> QED
      BY <2>4, <2>6, <3>1
  <2>7. ASSUME Insert(row, t, req[r].mixed), Reply(r, issued + 1, FALSE)
        PROVE  TypeOK' /\ RequestsInv'
    BY <2>4, <2>7 DEF TypeOK
  <2> QED
    BY <1>8, <2>3, <2>6, <2>7 DEF Rotate
<1>9. ASSUME NEW r \in Reqs, Logout(r)
      PROVE  TypeOK' /\ RequestsInv'
  <2>1. UNCHANGED <<issued, jar, auth, lost, era, born, overlap, excused>>
    BY <1>9 DEF Logout, histVars
  <2>2. /\ req' \in [Reqs -> Request]
        /\ \A s \in Reqs : s # r => req'[s] = req[s]
        /\ req'[r].pc = "reply" /\ req'[r].op = "logout"
        /\ req'[r].cookie = NoToken /\ req'[r].gives = NoToken
    BY <1>0, <1>9, Replied DEF Logout, At
  <2>3. row' \in [Token -> {"none", "fresh", "grace", "spent", "expired"}]
    BY <1>9 DEF Logout, DeleteRow, TypeOK
  <2>4. TypeOK'
    BY <2>1, <2>2, <2>3 DEF TypeOK
  <2>5. RequestsInv'
    BY <1>0, <2>1, <2>2 DEF RequestsInv
  <2> QED
    BY <2>4, <2>5
<1>10. ASSUME NEW r \in Reqs, RevokeCommit(r)
       PROVE  TypeOK' /\ RequestsInv'
  <2>1. /\ req' \in [Reqs -> Request]
        /\ \A s \in Reqs : req'[s].cookie = req[s].cookie /\ req'[s].gives = req[s].gives
                            /\ req'[s].op = req[s].op
        /\ \A s \in Reqs : s # r => req'[s].pc = req[s].pc
        /\ req[r].pc = "delete" /\ req[r].op = "revoke" /\ req'[r].pc = "reply"
    BY <1>10, RevocationCommitted
  <2>2. UNCHANGED <<issued, jar, auth, lost, born, overlap, excused>> /\ era' = era + 1
    BY <1>10 DEF RevokeCommit
  <2>3. era < MaxRevokes
    BY <2>1 DEF RequestsInv
  <2>4. era' \in 0..MaxRevokes
    BY <2>2, <2>3, BoundsAssumption DEF TypeOK
  <2>5. row' \in [Token -> {"none", "fresh", "grace", "spent", "expired"}]
    BY <1>10 DEF RevokeCommit, TypeOK
  <2>6. TypeOK'
    BY <2>1, <2>2, <2>4, <2>5 DEF TypeOK
  <2>7. RequestsInv'
    BY <1>0, <2>1, <2>2 DEF RequestsInv
  <2> QED
    BY <2>6, <2>7
<1>11. ASSUME NEW tab \in Tabs, AccessExpires(tab)
       PROVE  TypeOK' /\ RequestsInv'
  <2>1. auth' \in [Tabs -> {"out", "in", "expired"}]
    BY <1>11 DEF AccessExpires, TypeOK
  <2>2. UNCHANGED <<row, issued, jar, req, lost, era, born, overlap, excused>>
    BY <1>11 DEF AccessExpires, histVars
  <2> QED
    BY <2>1, <2>2 DEF TypeOK, RequestsInv
<1>12. ASSUME NEW t \in Token, GraceEnds(t) \/ Expires(t)
       PROVE  TypeOK' /\ RequestsInv'
  <2>1. row' \in [Token -> {"none", "fresh", "grace", "spent", "expired"}]
    BY <1>12 DEF GraceEnds, Expires, TypeOK
  <2>2. UNCHANGED <<issued, jar, auth, req, lost, era, born, overlap>>
    BY <1>12 DEF GraceEnds, Expires, histVars
  <2>3. excused' \in BOOLEAN
    BY <1>12, Zenon DEF GraceEnds, Expires
  <2> QED
    BY <2>1, <2>2, <2>3 DEF TypeOK, RequestsInv
<1> QED
  BY <1>2, <1>3, <1>4, <1>5, <1>6, <1>7, <1>8, <1>9, <1>10, <1>11, <1>12 DEF Next

\* The types and what requests carry hold from the start.
LEMMA TypesInductive == Spec => [](TypeOK /\ RequestsInv)
<1>1. Init => TypeOK /\ RequestsInv
  <2> SUFFICES ASSUME Init PROVE TypeOK /\ RequestsInv
    OBVIOUS
  <2>1. req \in [Reqs -> Request] /\ \A r \in Reqs : req[r] = Free
    BY FreeRequest DEF Init
  <2>2. excused \in BOOLEAN
    BY Zenon DEF Init
  <2>3. TypeOK
    BY <2>1, <2>2, BoundsAssumption DEF Init, TypeOK
  <2>4. RequestsInv
    BY <2>1, FreeRequest DEF Init, RequestsInv
  <2> QED
    BY <2>3, <2>4
<1>2. TypeOK /\ RequestsInv /\ [Next]_vars => TypeOK' /\ RequestsInv'
  <2>1. TypeOK /\ UNCHANGED vars => TypeOK'
    BY DEF TypeOK, vars
  <2>2. RequestsInv /\ UNCHANGED vars => RequestsInv'
    BY DEF RequestsInv, vars
  <2> QED
    BY <2>1, <2>2, NextTypes
<1> QED
  BY <1>1, <1>2, PTL DEF Spec

\* Every variable has its type; the browser only ever holds tokens the server issued
\* (auth/tokens.py:186-214, routers/auth.py:57-67).
THEOREM SessionsTypeCorrect == Spec => []TypeOK
BY TypesInductive, PTL
--------------------------------------------------------------------------------
(* Revocation of all sessions.                                             *)

\* Steps that add no row and grant no rotation, and revoke nothing.
LEMMA RevokeUntouched ==
  ASSUME TypeOK, RevokeInv, UNCHANGED <<era, born, overlap>>,
         \A t \in Token : row'[t] # "none" => row[t] # "none",
         \A r \in Reqs : req'[r].pc = "rotate" => req'[r] = req[r],
         \A r \in Reqs : req'[r].pc = "delete" => req'[r] = req[r]
  PROVE  RevokeInv'
<1>1. \A r \in Reqs : req'[r].pc = "rotate" /\ ~req'[r].mixed =>
                       req[r].pc = "rotate" /\ ~req[r].mixed /\ req'[r].cookie = req[r].cookie
  OBVIOUS
<1>2. \A r \in Reqs : req'[r].pc = "delete" =>
                       req[r].pc = "delete" /\ req'[r].rows = req[r].rows
  OBVIOUS
<1> QED
  BY <1>1, <1>2 DEF RevokeInv, Recent

\* A token that is issued is recent, or overlaps.
LEMMA IssueIsRecent ==
  ASSUME TypeOK, RequestsInv, RevokeInv, UNCHANGED era,
         NEW rows \in [Token -> {"none", "fresh", "grace", "spent", "expired"}],
         NEW from \in 0..MaxTokens, NEW mixed \in BOOLEAN, Insert(rows, from, mixed),
         \A t \in Token : rows[t] # "none" => row[t] # "none",
         from = NoToken \/ mixed \/ Recent(from),
         NEW r \in Reqs, req'[r].pc = "reply",
         \A s \in Reqs : s # r => req'[s] = req[s]
  PROVE  RevokeInv'
<1> DEFINE Later(t) == born'[t] = era' \/ t \in overlap'
<1>1. /\ issued' = issued + 1 /\ issued' \in Token
      /\ \A t \in Token : t # issued' => row'[t] = rows[t] /\ born'[t] = born[t]
      /\ born'[issued'] = IF from = NoToken THEN era ELSE born[from]
      /\ overlap \subseteq overlap'
      /\ mixed \/ Revoking \/ from \in overlap => issued' \in overlap'
  BY Inserted
<1>2. Later(issued')
  BY <1>1 DEF Recent
<1>3. \A t \in Token : t # issued' /\ Recent(t) => Later(t)
  BY <1>1 DEF Recent
<1>4. \A t \in Token : row'[t] # "none" => Later(t)
  BY <1>1, <1>2, <1>3 DEF RevokeInv
<1>5. ASSUME NEW s \in Reqs, req'[s].pc = "rotate", ~req'[s].mixed PROVE Later(req'[s].cookie)
  <2>1. /\ req[s].pc = "rotate" /\ ~req[s].mixed /\ req'[s].cookie = req[s].cookie
        /\ req[s].cookie \in Token /\ req[s].cookie # issued'
    <3>1. s # r /\ req'[s] = req[s] /\ req[s].cookie <= issued /\ req[s].cookie # NoToken
          /\ req[s].cookie \in 0..MaxTokens /\ issued \in Nat
      BY <1>5, BoundsAssumption DEF RequestsInv, TypeOK, Request
    <3> QED
      BY <1>1, <1>5, <3>1, BoundsAssumption DEF Token
  <2> QED
    BY <1>3, <2>1 DEF RevokeInv
<1>6. ASSUME NEW s \in Reqs, req'[s].pc = "delete", NEW t \in Token, row'[t] # "none"
      PROVE  t \in req'[s].rows \/ t \in overlap'
  <2>1. s # r /\ req'[s] = req[s] /\ req[s].pc = "delete"
    BY <1>6
  <2>2. CASE t = issued'
    BY <1>1, <2>1, <2>2 DEF Revoking
  <2>3. CASE t # issued'
    BY <1>1, <1>6, <2>1, <2>3 DEF RevokeInv
  <2> QED
    BY <2>2, <2>3
<1> QED
  BY <1>4, <1>5, <1>6 DEF RevokeInv, Recent

\* Every step keeps it.
LEMMA NextKeepsRecent ==
  ASSUME TypeOK, RequestsInv, RevokeInv, Next
  PROVE  RevokeInv'
<1>0. /\ \A r \in Reqs : req[r] \in Request /\ req[r].cookie \in 0..MaxTokens
      /\ NoToken \in 0..MaxTokens /\ TRUE \in BOOLEAN /\ FALSE \in BOOLEAN
      /\ row \in [Token -> {"none", "fresh", "grace", "spent", "expired"}]
  BY BoundsAssumption DEF TypeOK, Request
<1>1. ASSUME NEW r \in Reqs, NEW tab \in Tabs,
             SendRefresh(r, tab) \/ SendOnExpired(r, tab) \/ SendLogout(r, tab)
      PROVE  RevokeInv'
  <2>1. /\ UNCHANGED <<row, era, born, overlap>>
        /\ \E op \in {"refresh", "retry", "logout"} : Send(r, tab, op)
    BY <1>1 DEF SendRefresh, SendOnExpired, SendLogout, histVars
  <2>2. req'[r].pc = "sent" /\ \A s \in Reqs : s # r => req'[s] = req[s]
    BY <2>1, Sent DEF Op
  <2> QED
    BY <2>1, <2>2, RevokeUntouched
<1>2. ASSUME NEW r \in Reqs, NEW tab \in Tabs, Login(r, tab)
      PROVE  RevokeInv'
  <2>1. req'[r].pc = "reply" /\ \A s \in Reqs : s # r => req'[s] = req[s]
    BY <1>2, LoggedIn
  <2>2. Insert(row, NoToken, FALSE) /\ UNCHANGED era
    BY <1>2 DEF Login
  <2> QED
    BY <1>0, <2>1, <2>2, IssueIsRecent
<1>3. ASSUME NEW r \in Reqs, NEW tab \in Tabs, RevokeBegin(r, tab)
      PROVE  RevokeInv'
  <2>1. /\ \A s \in Reqs : s # r => req'[s] = req[s]
        /\ req'[r].pc = "delete" /\ req'[r].rows = RowsSeen
    BY <1>3, RevocationBegun
  <2>2. UNCHANGED <<row, era, born, overlap>>
    BY <1>3 DEF RevokeBegin, histVars
  <2> QED
    BY <2>1, <2>2 DEF RevokeInv, RowsSeen, Recent
<1>4. ASSUME NEW r \in Reqs, Receive(r) \/ Lose(r)
      PROVE  RevokeInv'
  <2>1. req'[r] = Free /\ \A s \in Reqs : s # r => req'[s] = req[s]
    BY <1>4, Forgotten DEF Receive, Lose
  <2>2. UNCHANGED <<row, era, born, overlap>>
    BY <1>4 DEF Receive, Lose, histVars
  <2> QED
    BY <2>1, <2>2, FreeRequest, RevokeUntouched
<1>5. ASSUME NEW r \in Reqs, Lookup(r)
      PROVE  RevokeInv'
  <2> DEFINE t == req[r].cookie
  <2>1. UNCHANGED <<era, born, overlap>>
    BY <1>5 DEF Lookup, histVars
  <2>2. ASSUME NEW clears \in BOOLEAN, Reply(r, NoToken, clears),
               \A s \in Token : row'[s] # "none" => row[s] # "none"
        PROVE  RevokeInv'
    <3>1. req'[r].pc = "reply" /\ \A s \in Reqs : s # r => req'[s] = req[s]
      BY <1>0, <2>2, Replied
    <3> QED
      BY <2>1, <2>2, <3>1, RevokeUntouched
  <2>3. CASE t = NoToken /\ Reply(r, NoToken, FALSE) /\ UNCHANGED row
    BY <2>2, <2>3, <1>0
  <2>4. CASE /\ t # NoToken /\ row' = [row EXCEPT ![t] = "none"]
             /\ Reply(r, NoToken, TRUE)
    BY <2>2, <2>4, <1>0
  <2>5. CASE /\ t # NoToken /\ Accepted(t)
             /\ req' = [req EXCEPT ![r].pc = "rotate", ![r].first = (row[t] = "fresh"),
                                   ![r].mixed = Revoking]
             /\ UNCHANGED row
    <3>1. /\ \A s \in Reqs : s # r => req'[s] = req[s]
          /\ req'[r].pc = "rotate" /\ req'[r].cookie = t
      BY <2>5, LookedUp
    <3>2. t \in Token /\ row[t] # "none"
      BY <1>0, <2>5, BoundsAssumption DEF Accepted, Token
    <3>3. Recent(t)
      BY <3>2 DEF RevokeInv
    <3>4. UNCHANGED <<row, era, born, overlap>>
      BY <2>1, <2>5
    <3> HIDE DEF t
    <3>5. ASSUME NEW s \in Reqs, req'[s].pc = "rotate", ~req'[s].mixed
          PROVE  Recent(req'[s].cookie)
      BY <3>1, <3>3, <3>5 DEF RevokeInv
    <3>6. ASSUME NEW s \in Reqs, req'[s].pc = "delete"
          PROVE  req'[s] = req[s]
      BY <3>1, <3>6
    <3> QED
      BY <3>4, <3>5, <3>6 DEF RevokeInv, Recent
  <2> QED
    BY <1>5, <2>3, <2>4, <2>5 DEF Lookup
<1>6. ASSUME NEW r \in Reqs, Rotate(r)
      PROVE  RevokeInv'
  <2> DEFINE t == req[r].cookie
  <2>1. UNCHANGED era /\ req[r].pc = "rotate" /\ req[r].mixed \in BOOLEAN
    BY <1>0, <1>6 DEF Rotate, At, Request
  <2>2. t \in Token /\ (req[r].mixed \/ Recent(t))
    BY <1>0, <2>1, BoundsAssumption DEF RevokeInv, RequestsInv, Token
  <2>3. CASE Reply(r, NoToken, FALSE) /\ UNCHANGED <<row, issued, born, overlap>>
    <3>1. req'[r].pc = "reply" /\ \A s \in Reqs : s # r => req'[s] = req[s]
      BY <1>0, <2>3, Replied
    <3> QED
      BY <2>1, <2>3, <3>1, RevokeUntouched
  <2>4. ASSUME NEW rows \in [Token -> {"none", "fresh", "grace", "spent", "expired"}],
               Insert(rows, t, req[r].mixed), Reply(r, issued + 1, FALSE),
               \A s \in Token : rows[s] # "none" => row[s] # "none"
        PROVE  RevokeInv'
    <3>1. issued + 1 \in 0..MaxTokens
      BY <1>0, <2>1, <2>2, <2>4, Inserted
    <3>2. req'[r].pc = "reply" /\ \A s \in Reqs : s # r => req'[s] = req[s]
      BY <1>0, <2>4, <3>1, Replied
    <3> QED
      BY <1>0, <2>1, <2>2, <2>4, <3>2, IssueIsRecent
  <2>5. ASSUME NEW used \in AfterUse(t), row[t] # "none",
               Insert([row EXCEPT ![t] = used], t, req[r].mixed), Reply(r, issued + 1, FALSE)
        PROVE  RevokeInv'
    <3>1. [row EXCEPT ![t] = used] \in [Token -> {"none", "fresh", "grace", "spent", "expired"}]
      BY <1>0, <2>2 DEF AfterUse
    <3>2. \A s \in Token : [row EXCEPT ![t] = used][s] # "none" => row[s] # "none"
      BY <1>0, <2>2, <2>5
    <3> QED
      BY <2>4, <2>5, <3>1, <3>2
  <2>6. ASSUME Insert(row, t, req[r].mixed), Reply(r, issued + 1, FALSE)
        PROVE  RevokeInv'
    BY <1>0, <2>4, <2>6
  <2> QED
    BY <1>6, <2>3, <2>5, <2>6 DEF Rotate
<1>7. ASSUME NEW r \in Reqs, Logout(r)
      PROVE  RevokeInv'
  <2>1. req'[r].pc = "reply" /\ \A s \in Reqs : s # r => req'[s] = req[s]
    BY <1>0, <1>7, Replied DEF Logout
  <2>2. /\ UNCHANGED <<era, born, overlap>>
        /\ \A t \in Token : row'[t] # "none" => row[t] # "none"
    BY <1>7 DEF Logout, DeleteRow, histVars
  <2> QED
    BY <2>1, <2>2, RevokeUntouched
<1>8. ASSUME NEW r \in Reqs, RevokeCommit(r)
      PROVE  RevokeInv'
  <2>1. /\ \A s \in Reqs : s # r => req'[s].pc = req[s].pc /\ req'[s].rows = req[s].rows
        /\ \A s \in Reqs : s # r /\ req[s].pc = "rotate" => req'[s].mixed
        /\ req[r].pc = "delete" /\ req'[r].pc = "reply"
    BY <1>8, RevocationCommitted
  <2>2. /\ UNCHANGED <<born, overlap>>
        /\ \A t \in Token : row'[t] # "none" => row[t] # "none" /\ t \notin req[r].rows
    BY <1>8 DEF RevokeCommit
  <2>3. \A t \in Token : row'[t] # "none" => t \in overlap'
    BY <2>1, <2>2 DEF RevokeInv
  <2> QED
    BY <2>1, <2>3 DEF RevokeInv, Recent
<1>9. ASSUME NEW tab \in Tabs, AccessExpires(tab)
      PROVE  RevokeInv'
  BY <1>9, RevokeUntouched DEF AccessExpires, histVars
<1>10. ASSUME NEW t \in Token, GraceEnds(t) \/ Expires(t)
       PROVE  RevokeInv'
  <2>1. UNCHANGED <<req, era, born, overlap>>
    BY <1>10 DEF GraceEnds, Expires, histVars
  <2>2. \A s \in Token : row'[s] # "none" => row[s] # "none"
    BY <1>0, <1>10 DEF GraceEnds, Expires
  <2> QED
    BY <2>1, <2>2, RevokeUntouched
<1> QED
  BY <1>1, <1>2, <1>3, <1>4, <1>5, <1>6, <1>7, <1>8, <1>9, <1>10 DEF Next

\* When all sessions have been revoked, no token of an earlier login is usable; only
\* a request under way at that time leaves one
\* (auth/tokens.py:301-318, routers/auth.py:560-588).
THEOREM RevocationReachesAll == Spec => []RevokeAllReachesAll
<1>1. Init => RevokeInv
  BY FreeRequest DEF Init, RevokeInv
<1>2. TypeOK /\ RequestsInv /\ RevokeInv /\ [Next]_vars => RevokeInv'
  <2>1. RevokeInv /\ UNCHANGED vars => RevokeInv'
    BY DEF RevokeInv, Recent, vars
  <2> QED
    BY <2>1, NextKeepsRecent
<1>3. RevokeInv => RevokeAllReachesAll
  BY DEF RevokeInv, Recent, RevokeAllReachesAll, UsableTokens, Usable
<1> QED
  BY <1>1, <1>2, <1>3, TypesInductive, PTL DEF Spec
--------------------------------------------------------------------------------
(* The one cookie of the tabs.                                             *)

Undisturbed == OnlyRefreshes /\ PresentedIsUsable /\ BroughtIsFresh /\ JarIsFresh

\* A request that is sent presents the token of the cookie, which nobody is about
\* to bring.
LEMMA SendKeepsCookie ==
  ASSUME TypeOK, RequestsInv, Undisturbed, NEW r \in Reqs, NEW tab \in Tabs,
         SendRefresh(r, tab) \/ SendOnExpired(r, tab)
  PROVE  Undisturbed'
<1>1. /\ UNCHANGED <<row, jar, auth>> /\ req[r].pc = "idle"
      /\ \E op \in Rotating : Send(r, tab, op)
  BY DEF SendRefresh, SendOnExpired, Send, Rotating
<1>2. /\ \A s \in Reqs : s # r => req'[s] = req[s]
      /\ req'[r].pc = "sent" /\ req'[r].op \in Rotating
      /\ req'[r].cookie = jar /\ req'[r].gives = NoToken /\ ~req'[r].clears
  BY <1>1, Sent DEF Rotating, Op
<1>3. \A s \in Reqs, t \in Token : Brings(s, t)' <=> Brings(s, t)
  BY <1>1, <1>2 DEF Brings
<1>4. OnlyRefreshes'
  BY <1>2 DEF Undisturbed, OnlyRefreshes
<1>5. PresentedIsUsable'
  BY <1>1, <1>2 DEF Undisturbed, PresentedIsUsable, JarIsFresh, Usable
<1>6. BroughtIsFresh'
  BY <1>1, <1>2, <1>3 DEF Undisturbed, BroughtIsFresh
<1>7. JarIsFresh'
  BY <1>1, <1>3 DEF Undisturbed, JarIsFresh, Usable
<1> QED
  BY <1>4, <1>5, <1>6, <1>7 DEF Undisturbed

\* A reply with a token that was just issued brings what nobody has; the token that
\* was used for it, if any, is in its grace period.
LEMMA IssueKeepsCookie ==
  ASSUME TypeOK, RequestsInv, Undisturbed, NEW r \in Reqs, NEW used \in 0..MaxTokens,
         UNCHANGED <<jar, auth>>, issued' = issued + 1, issued' \in Token,
         row'[issued'] = "fresh",
         \A t \in Token : t # issued' =>
            row'[t] = row[t] \/ (t = used /\ Usable(t) /\ row'[t] = "grace"),
         used = NoToken \/ \A s \in Reqs : ~Brings(s, used),
         \A s \in Reqs : s # r => req'[s] = req[s],
         req[r].pc # "reply",
         req'[r].pc = "reply", req'[r].op \in {"login"} \cup Rotating,
         req'[r].gives = issued + 1, ~req'[r].clears
  PROVE  Undisturbed'
<1>1. /\ jar \in 0..MaxTokens /\ jar <= issued /\ issued \in 0..MaxTokens
      /\ \A s \in Reqs : /\ req[s].cookie \in 0..MaxTokens /\ req[s].cookie <= issued
                         /\ req[s].gives \in 0..MaxTokens /\ req[s].gives <= issued
  BY BoundsAssumption DEF TypeOK, RequestsInv, Request
<1>2. jar # issued' /\ \A s \in Reqs : req[s].cookie # issued' /\ req[s].gives # issued'
  BY <1>1, BoundsAssumption
<1>3. \A s \in Reqs, t \in Token :
         Brings(s, t)' <=> Brings(s, t) \/ (s = r /\ t = issued')
  BY <1>2 DEF Brings
<1>4. \A t \in Token : Usable(t) => row'[t] \in {"fresh", "grace"}
  BY DEF Usable
<1>5. OnlyRefreshes'
  BY DEF Undisturbed, OnlyRefreshes
<1>6. PresentedIsUsable'
  BY <1>1, <1>4 DEF Undisturbed, PresentedIsUsable, Usable, Token
<1>7. BroughtIsFresh'
  <2> SUFFICES ASSUME NEW s \in Reqs, NEW t \in Token, Brings(s, t)'
               PROVE  /\ row'[t] = "fresh" /\ jar' # t
                      /\ \A q \in Reqs : /\ req'[q].pc \in {"sent", "rotate"} => req'[q].cookie # t
                                         /\ Brings(q, t)' => q = s
    BY DEF BroughtIsFresh
  <2>1. CASE t = issued'
    <3>1. s = r /\ \A q \in Reqs : Brings(q, t)' => q = r
      BY <1>2, <1>3, <2>1 DEF Brings
    <3>2. \A q \in Reqs : req'[q].pc \in {"sent", "rotate"} => req'[q].cookie # t
      BY <1>2, <2>1
    <3> QED
      BY <1>2, <2>1, <3>1, <3>2
  <2>2. CASE t # issued'
    <3>1. Brings(s, t) /\ t # used
      BY <1>3, <2>2, BoundsAssumption DEF Token
    <3>2. row'[t] = "fresh" /\ jar' # t
      BY <2>2, <3>1 DEF Undisturbed, BroughtIsFresh
    <3>3. \A q \in Reqs : req'[q].pc \in {"sent", "rotate"} => req'[q].cookie # t
      BY <3>1 DEF Undisturbed, BroughtIsFresh
    <3>4. \A q \in Reqs : Brings(q, t)' => q = s
      BY <1>3, <2>2, <3>1 DEF Undisturbed, BroughtIsFresh
    <3> QED
      BY <3>2, <3>3, <3>4
  <2> QED
    BY <2>1, <2>2
<1>8. JarIsFresh'
  <2>1. jar # NoToken => jar \in Token /\ row'[jar] \in {"fresh", "grace"}
    BY <1>1, <1>4 DEF Undisturbed, JarIsFresh, Token
  <2>2. \E s \in Reqs : \E t \in Token : Brings(s, t)'
    BY <1>3
  <2> QED
    BY <2>1, <2>2 DEF Undisturbed, JarIsFresh, Usable
<1> QED
  BY <1>5, <1>6, <1>7, <1>8 DEF Undisturbed

\* A reply that arrives changes the cookie to a token nobody has used, or leaves it.
LEMMA ReceiveKeepsCookie ==
  ASSUME TypeOK, RequestsInv, Undisturbed, NEW r \in Reqs, Receive(r)
  PROVE  Undisturbed'
<1> DEFINE me == req[r]
<1>1. /\ req'[r] = Free /\ \A s \in Reqs : s # r => req'[s] = req[s]
      /\ UNCHANGED row /\ me.pc = "reply"
  BY Forgotten DEF Receive
<1>2. /\ me \in Request /\ me.gives \in 0..MaxTokens /\ ~me.clears
  BY <1>1 DEF TypeOK, Request, Undisturbed, OnlyRefreshes
<1>3. jar' = IF me.gives # NoToken THEN me.gives ELSE jar
  BY <1>2 DEF Receive
<1>4. \A s \in Reqs, t \in Token : Brings(s, t)' <=> Brings(s, t) /\ s # r
  BY <1>1, FreeRequest DEF Brings
<1>5. OnlyRefreshes' /\ PresentedIsUsable'
  BY <1>1, FreeRequest DEF Undisturbed, OnlyRefreshes, PresentedIsUsable, Usable
<1>6. CASE me.gives # NoToken
  <2>1. me.gives \in Token /\ Brings(r, me.gives) /\ jar' = me.gives
    BY <1>1, <1>2, <1>3, <1>6, BoundsAssumption DEF Token, Brings
  <2>2. row[me.gives] = "fresh" /\ \A s \in Reqs : Brings(s, me.gives) => s = r
    BY <2>1 DEF Undisturbed, BroughtIsFresh
  <2>3. \A s \in Reqs, t \in Token : Brings(s, t)' => jar' # t
    BY <1>4, <2>1, <2>2
  <2>4. BroughtIsFresh'
    BY <1>1, <1>4, <2>3, FreeRequest DEF Undisturbed, BroughtIsFresh
  <2>5. JarIsFresh'
    BY <1>1, <1>6, <2>1, <2>2 DEF JarIsFresh, Usable
  <2> QED
    BY <1>5, <2>4, <2>5 DEF Undisturbed
<1>7. CASE me.gives = NoToken
  <2>1. jar' = jar
    BY <1>3, <1>7
  <2>2. BroughtIsFresh'
    BY <1>1, <1>4, <2>1, FreeRequest DEF Undisturbed, BroughtIsFresh
  <2>3. \A s \in Reqs, t \in Token : Brings(s, t)' <=> Brings(s, t)
    BY <1>1, <1>4, <1>7, BoundsAssumption DEF Brings, Token
  <2>4. jar = NoToken => \A tab \in Tabs : auth'[tab] = "out"
    <3>1. Outcome(me, FALSE) \in {"out", auth[me.tab]}
      BY DEF Outcome
    <3>2. auth' = [auth EXCEPT ![me.tab] = Outcome(me, FALSE)]
      BY <1>7 DEF Receive
    <3> HIDE DEF me
    <3> QED
      BY <3>1, <3>2 DEF Undisturbed, JarIsFresh, TypeOK
  <2>5. JarIsFresh'
    BY <1>1, <2>1, <2>3, <2>4 DEF Undisturbed, JarIsFresh, Usable
  <2> QED
    BY <1>5, <2>2, <2>5 DEF Undisturbed
<1> QED
  BY <1>6, <1>7

\* After a login with nothing else under way, nothing is disturbed.
LEMMA LoginUndisturbs ==
  ASSUME TypeOK, RequestsInv, NEW r \in Reqs, Receive(r), req[r].op = "login",
         row[req[r].gives] = "fresh", \A s \in Reqs \ {r} : req[s].pc = "idle"
  PROVE  Undisturbed'
<1>1. /\ UNCHANGED row /\ req[r].pc = "reply" /\ \A s \in Reqs : req'[s].pc = "idle"
  BY Forgotten, FreeRequest DEF Receive
<1>2. req[r].gives # NoToken /\ jar' = req[r].gives
  BY <1>1 DEF Receive, RequestsInv
<1> QED
  BY <1>1, <1>2 DEF Undisturbed, OnlyRefreshes, PresentedIsUsable, BroughtIsFresh, Brings,
     JarIsFresh, Usable

\* The look at the token presented: it is usable, if there is one.
LEMMA LookupKeepsCookie ==
  ASSUME TypeOK, RequestsInv, Undisturbed, NEW r \in Reqs, Lookup(r)
  PROVE  Undisturbed'
<1> DEFINE t == req[r].cookie
<1>0. /\ req[r].pc = "sent" /\ req[r].op \in Rotating /\ UNCHANGED <<jar, auth>>
      /\ req[r] \in Request /\ t \in 0..MaxTokens /\ ~req[r].clears
      /\ NoToken \in 0..MaxTokens /\ FALSE \in BOOLEAN
  BY BoundsAssumption DEF Lookup, At, TypeOK, Request, Undisturbed, OnlyRefreshes
<1>1. t # NoToken => Accepted(t)
  BY <1>0 DEF Undisturbed, PresentedIsUsable, Usable, Accepted
<1>2. UNCHANGED row /\ \A s \in Reqs : s # r => req'[s] = req[s]
  <2>1. CASE t = NoToken
    BY <1>0, <2>1, Replied DEF Lookup
  <2>2. CASE t # NoToken
    BY <1>1, <2>2, LookedUp DEF Lookup
  <2> QED
    BY <2>1, <2>2
<1>3. /\ req'[r].op \in Rotating /\ ~req'[r].clears
      /\ \/ req'[r].pc = "reply" /\ req'[r].gives = NoToken
         \/ req'[r].pc = "rotate" /\ req'[r].cookie = t
  <2>1. CASE t = NoToken
    <3>1. Reply(r, NoToken, FALSE)
      BY <2>1 DEF Lookup
    <3>2. /\ req'[r].pc = "reply" /\ req'[r].op = req[r].op /\ req'[r].gives = NoToken
          /\ req'[r].clears = FALSE
      BY <1>0, <3>1, Replied
    <3> QED
      BY <1>0, <3>2
  <2>2. CASE t # NoToken
    <3>1. req' = [req EXCEPT ![r].pc = "rotate", ![r].first = (row[t] = "fresh"),
                            ![r].mixed = Revoking]
      BY <1>1, <2>2 DEF Lookup
    <3>2. /\ req'[r].pc = "rotate" /\ req'[r].op = req[r].op /\ req'[r].cookie = t
          /\ req'[r].clears = req[r].clears
      BY <3>1, LookedUp
    <3> QED
      BY <1>0, <3>2
  <2> QED
    BY <2>1, <2>2
<1> HIDE DEF t
<1>4. \A s \in Reqs, u \in Token : Brings(s, u)' <=> Brings(s, u)
  BY <1>0, <1>2, <1>3, BoundsAssumption DEF Brings, Token
<1>5. \A s \in Reqs : req'[s].pc \in {"sent", "rotate"} =>
         req[s].pc \in {"sent", "rotate"} /\ req'[s].cookie = req[s].cookie
  BY <1>0, <1>2, <1>3 DEF t
<1>6. OnlyRefreshes'
  BY <1>0, <1>2, <1>3 DEF Undisturbed, OnlyRefreshes
<1>7. PresentedIsUsable'
  BY <1>2, <1>5 DEF Undisturbed, PresentedIsUsable, Usable
<1>8. BroughtIsFresh'
  BY <1>0, <1>2, <1>4, <1>5 DEF Undisturbed, BroughtIsFresh
<1>9. JarIsFresh'
  BY <1>0, <1>2, <1>4 DEF Undisturbed, JarIsFresh, Usable
<1> QED
  BY <1>6, <1>7, <1>8, <1>9 DEF Undisturbed

\* The rotation finds the row it had read, and replaces it or leaves it.
LEMMA RotateKeepsCookie ==
  ASSUME TypeOK, RequestsInv, Undisturbed, NEW r \in Reqs, Rotate(r)
  PROVE  Undisturbed'
<1> DEFINE t == req[r].cookie
<1>0. /\ req[r].pc = "rotate" /\ req[r].op \in Rotating /\ UNCHANGED <<jar, auth>>
      /\ req[r] \in Request /\ t \in 0..MaxTokens /\ t \in Token
      /\ req[r].mixed \in BOOLEAN /\ FALSE \in BOOLEAN /\ t # NoToken
  BY BoundsAssumption DEF Rotate, At, TypeOK, Request, RequestsInv, Token
<1>1. Usable(t) /\ row[t] \in {"fresh", "grace"}
  BY <1>0 DEF Undisturbed, PresentedIsUsable, Usable
<1>2. \A s \in Reqs : ~Brings(s, t)
  BY <1>0 DEF Undisturbed, BroughtIsFresh
<1>3. Reply(r, issued + 1, FALSE)
  BY <1>1 DEF Rotate
<1>4. PICK rows \in [Token -> {"none", "fresh", "grace", "spent", "expired"}] :
         /\ Insert(rows, t, req[r].mixed)
         /\ \A u \in Token : rows[u] = row[u] \/ (u = t /\ rows[u] = "grace")
  <2>1. CASE req[r].first
    <3>1. AfterUse(t) = {"grace"}
      BY <1>1 DEF AfterUse
    <3>2. Insert([row EXCEPT ![t] = "grace"], t, req[r].mixed)
      BY <1>1, <2>1, <3>1 DEF Rotate
    <3>3. /\ [row EXCEPT ![t] = "grace"]
               \in [Token -> {"none", "fresh", "grace", "spent", "expired"}]
          /\ \A u \in Token : LET after == [row EXCEPT ![t] = "grace"][u] IN
                               after = row[u] \/ (u = t /\ after = "grace")
      BY <1>0 DEF TypeOK
    <3> QED
      BY <3>2, <3>3
  <2>2. CASE ~req[r].first
    BY <1>1, <2>2 DEF Rotate, TypeOK
  <2> QED
    BY <2>1, <2>2
<1>5. /\ issued' = issued + 1 /\ issued' \in 0..MaxTokens /\ issued' \in Token
      /\ row'[issued'] = "fresh"
      /\ \A u \in Token : u # issued' => row'[u] = rows[u]
  BY <1>0, <1>4, Inserted
<1>6. /\ \A s \in Reqs : s # r => req'[s] = req[s]
      /\ req'[r].pc = "reply" /\ req'[r].op = req[r].op
      /\ req'[r].gives = issued + 1 /\ req'[r].clears = FALSE
  BY <1>0, <1>3, <1>5, Replied, ZenonT(30)
<1> HIDE DEF t
<1>7. \A u \in Token : u # issued' =>
         row'[u] = row[u] \/ (u = t /\ Usable(u) /\ row'[u] = "grace")
  BY <1>1, <1>4, <1>5
<1> QED
  BY <1>0, <1>2, <1>5, <1>6, <1>7, IssueKeepsCookie

\* Every step keeps it, until something excuses it.
LEMMA NextKeepsCookie ==
  ASSUME TypeOK, RequestsInv, CookieInv, Next
  PROVE  CookieInv'
<1> SUFFICES ASSUME ~excused' PROVE Undisturbed'
  BY DEF CookieInv, Undisturbed
<1>1. ASSUME NEW r \in Reqs, Receive(r) PROVE Undisturbed'
  <2>1. CASE excused
    <3>1. req[r].op = "login" /\ row[req[r].gives] = "fresh"
          /\ \A s \in Reqs \ {r} : req[s].pc = "idle"
      BY <1>1, <2>1, Zenon DEF Receive
    <3> QED
      BY <1>1, <3>1, LoginUndisturbs
  <2>2. CASE ~excused
    BY <1>1, <2>2, ReceiveKeepsCookie DEF CookieInv, Undisturbed
  <2> QED
    BY <2>1, <2>2
<1>2. ASSUME NEW r \in Reqs, NEW tab \in Tabs, SendRefresh(r, tab) \/ SendOnExpired(r, tab)
      PROVE  Undisturbed'
  <2>1. ~excused
    BY <1>2 DEF SendRefresh, SendOnExpired
  <2> QED
    BY <1>2, <2>1, SendKeepsCookie DEF CookieInv, Undisturbed
<1>3. ASSUME NEW r \in Reqs, NEW tab \in Tabs, Login(r, tab) PROVE Undisturbed'
  <2>1. ~excused /\ UNCHANGED <<jar, auth>> /\ Insert(row, NoToken, FALSE)
    BY <1>3 DEF Login
  <2>2. Undisturbed
    BY <2>1 DEF CookieInv, Undisturbed
  <2>3. /\ NoToken \in 0..MaxTokens /\ FALSE \in BOOLEAN
        /\ row \in [Token -> {"none", "fresh", "grace", "spent", "expired"}]
    BY BoundsAssumption DEF TypeOK
  <2>4. /\ issued' = issued + 1 /\ issued' \in Token /\ row'[issued'] = "fresh"
        /\ \A u \in Token : u # issued' => row'[u] = row[u]
    BY <2>1, <2>3, Inserted
  <2>5. /\ req[r].pc = "idle" /\ \A s \in Reqs : s # r => req'[s] = req[s]
        /\ req'[r].pc = "reply" /\ req'[r].op = "login" /\ req'[r].gives = issued + 1
        /\ ~req'[r].clears
    BY <1>3, LoggedIn
  <2> QED
    BY <2>1, <2>2, <2>3, <2>4, <2>5, IssueKeepsCookie
<1>4. ASSUME NEW r \in Reqs, Lookup(r) PROVE Undisturbed'
  <2>1. ~excused
    BY <1>4 DEF Lookup
  <2> QED
    BY <1>4, <2>1, LookupKeepsCookie DEF CookieInv, Undisturbed
<1>5. ASSUME NEW r \in Reqs, Rotate(r) PROVE Undisturbed'
  <2>1. ~excused
    BY <1>5 DEF Rotate
  <2> QED
    BY <1>5, <2>1, RotateKeepsCookie DEF CookieInv, Undisturbed
<1>6. ASSUME NEW r \in Reqs, Logout(r) \/ RevokeCommit(r) PROVE FALSE
  <2>1. req[r].pc # "idle" /\ req[r].op \in {"logout", "revoke"}
    BY <1>6 DEF Logout, RevokeCommit, At
  <2>2. ~excused
    BY <1>6, Zenon DEF Logout, RevokeCommit
  <2> QED
    BY <2>1, <2>2 DEF CookieInv, OnlyRefreshes, Rotating
<1>7. ASSUME NEW tab \in Tabs, AccessExpires(tab) PROVE Undisturbed'
  <2>1. /\ ~excused /\ UNCHANGED <<row, jar, req>> /\ auth[tab] = "in"
    BY <1>7 DEF AccessExpires
  <2>2. Undisturbed
    BY <2>1 DEF CookieInv, Undisturbed
  <2>3. jar # NoToken
    BY <2>1, <2>2 DEF Undisturbed, JarIsFresh
  <2>4. OnlyRefreshes' /\ PresentedIsUsable'
    BY <2>1, <2>2 DEF Undisturbed, OnlyRefreshes, PresentedIsUsable, Usable
  <2>5. BroughtIsFresh'
    BY <2>1, <2>2 DEF Undisturbed, BroughtIsFresh, Brings
  <2>6. JarIsFresh'
    BY <2>1, <2>2, <2>3 DEF Undisturbed, JarIsFresh, Brings, Usable
  <2> QED
    BY <2>4, <2>5, <2>6 DEF Undisturbed
<1>8. ASSUME NEW t \in Token, GraceEnds(t) PROVE Undisturbed'
  <2>1. /\ ~excused /\ ~UnderWay(t) /\ row[t] = "grace" /\ UNCHANGED <<jar, req, auth>>
        /\ \A u \in Token : u # t => row'[u] = row[u]
    BY <1>8 DEF GraceEnds, TypeOK
  <2>2. Undisturbed
    BY <2>1 DEF CookieInv, Undisturbed
  <2>3. OnlyRefreshes'
    BY <2>1, <2>2 DEF Undisturbed, OnlyRefreshes
  <2>4. PresentedIsUsable'
    <3>1. \A r \in Reqs : req[r].cookie \in 0..MaxTokens
      BY DEF TypeOK, Request
    <3> QED
      BY <2>1, <2>2, <3>1, BoundsAssumption
      DEF Undisturbed, PresentedIsUsable, Usable, UnderWay, Token
  <2>5. BroughtIsFresh'
    BY <2>1, <2>2 DEF Undisturbed, BroughtIsFresh, Brings
  <2>6. JarIsFresh'
    <3>1. jar \in 0..MaxTokens /\ jar # t
      BY <2>1, BoundsAssumption DEF TypeOK, UnderWay
    <3> QED
      BY <2>1, <2>2, <3>1, BoundsAssumption DEF Undisturbed, JarIsFresh, Usable, Brings, Token
  <2> QED
    BY <2>3, <2>4, <2>5, <2>6 DEF Undisturbed
<1>9. ASSUME NEW r \in Reqs, NEW tab \in Tabs, SendLogout(r, tab) \/ RevokeBegin(r, tab)
      PROVE  FALSE
  BY <1>9 DEF SendLogout, RevokeBegin
<1>10. ASSUME NEW r \in Reqs, Lose(r) PROVE FALSE
  BY <1>10 DEF Lose
<1>11. ASSUME NEW t \in Token, Expires(t) PROVE FALSE
  BY <1>11 DEF Expires
<1> QED
  BY <1>1, <1>2, <1>3, <1>4, <1>5, <1>6, <1>7, <1>8, <1>9, <1>10, <1>11 DEF Next

\* As long as nothing excuses it, with all replies in the cookie holds a token that
\* was not used yet, whatever the order the replies came in
\* (auth/tokens.py:258-279, routers/auth.py:57-81, AuthContext.tsx:66-99).
THEOREM TabsKeepOneFreshCookie == Spec => []CookieStaysFresh
<1>1. Init => CookieInv
  BY FreeRequest DEF Init, CookieInv, OnlyRefreshes, PresentedIsUsable, BroughtIsFresh,
     Brings, JarIsFresh
<1>2. TypeOK /\ RequestsInv /\ CookieInv /\ [Next]_vars => CookieInv'
  <2>1. CookieInv /\ UNCHANGED vars => CookieInv'
    BY DEF CookieInv, OnlyRefreshes, PresentedIsUsable, BroughtIsFresh, Brings, JarIsFresh,
       Usable, vars
  <2> QED
    BY <2>1, NextKeepsCookie
<1>3. CookieInv => CookieStaysFresh
  BY DEF CookieInv, JarIsFresh, Brings, CookieStaysFresh
<1> QED
  BY <1>1, <1>2, <1>3, TypesInductive, PTL DEF Spec
--------------------------------------------------------------------------------
(* The refinement of the life of a token.                                  *)

\* The exchange a slot was granted, as Life sees it.
Granted == [r \in Reqs |-> IF req[r].pc = "rotate" THEN req[r].cookie ELSE NoToken]

\* A step that issues nothing, grants nothing and ends no exchange lets tokens die.
LEMMA StepDies ==
  ASSUME UNCHANGED <<issued, Granted>>, UsableTokens' \subseteq UsableTokens
  PROVE  Life!Next
<1> DEFINE dead == UsableTokens \ UsableTokens'
<1>1. dead \in SUBSET UsableTokens /\ UsableTokens' = UsableTokens \ dead
  OBVIOUS
<1>2. Life!Die(dead)
  BY <1>1 DEF Life!Die, Granted
<1> QED
  BY <1>1, <1>2 DEF Life!Next

\* Requests that neither begin nor end an exchange.
LEMMA SameGrants ==
  ASSUME \A r \in Reqs : /\ req'[r].pc = "rotate" <=> req[r].pc = "rotate"
                         /\ req[r].pc = "rotate" => req'[r].cookie = req[r].cookie
  PROVE  Granted' = Granted
BY DEF Granted

\* A request that ends its exchange without a new token gives it up.
LEMMA StepGivesUp ==
  ASSUME NEW r \in Reqs, req[r].pc = "rotate", req[r].cookie # NoToken,
         req'[r].pc # "rotate", \A s \in Reqs : s # r => req'[s] = req[s],
         UNCHANGED <<issued, row>>
  PROVE  Life!Next
<1>1. Granted[r] # NoToken
  BY DEF Granted
<1>2. Granted' = [Granted EXCEPT ![r] = NoToken]
  BY DEF Granted
<1>3. UsableTokens' = UsableTokens
  BY DEF UsableTokens, Usable
<1>4. Life!GiveUp(r)
  BY <1>1, <1>2, <1>3 DEF Life!GiveUp, Life!NoToken, Granted
<1> QED
  BY <1>4 DEF Life!Next

\* Every step of the rows and requests is a step of the life of a token, or none.
LEMMA StepsRefine ==
  ASSUME TypeOK, RequestsInv, Next
  PROVE  Life!Next
<1>0. /\ \A r \in Reqs : req[r] \in Request /\ req[r].cookie \in 0..MaxTokens
      /\ NoToken \in 0..MaxTokens /\ TRUE \in BOOLEAN /\ FALSE \in BOOLEAN
      /\ row \in [Token -> {"none", "fresh", "grace", "spent", "expired"}]
  BY BoundsAssumption DEF TypeOK, Request
<1>1. ASSUME NEW r \in Reqs, \A s \in Reqs : s # r => req'[s] = req[s],
             req[r].pc # "rotate", req'[r].pc # "rotate", UNCHANGED issued,
             \A t \in Token : row'[t] \in {"fresh", "grace"} => row[t] \in {"fresh", "grace"}
      PROVE  Life!Next
  <2>1. Granted' = Granted
    BY <1>1, SameGrants
  <2>2. UsableTokens' \subseteq UsableTokens
    BY <1>1 DEF UsableTokens, Usable
  <2> QED
    BY <1>1, <2>1, <2>2, StepDies
<1>2. ASSUME NEW r \in Reqs, NEW tab \in Tabs,
             SendRefresh(r, tab) \/ SendOnExpired(r, tab) \/ SendLogout(r, tab)
      PROVE  Life!Next
  <2>1. /\ UNCHANGED <<row, issued>> /\ req[r].pc = "idle"
        /\ \E op \in {"refresh", "retry", "logout"} : Send(r, tab, op)
    BY <1>2 DEF SendRefresh, SendOnExpired, SendLogout, Send
  <2>2. req'[r].pc = "sent" /\ \A s \in Reqs : s # r => req'[s] = req[s]
    BY <2>1, Sent DEF Op
  <2> QED
    BY <1>1, <2>1, <2>2
<1>3. ASSUME NEW r \in Reqs, NEW tab \in Tabs, Login(r, tab) PROVE Life!Next
  <2>1. /\ req[r].pc = "idle" /\ req'[r].pc = "reply"
        /\ \A s \in Reqs : s # r => req'[s] = req[s]
    BY <1>3, LoggedIn
  <2>2. Granted' = Granted
    BY <2>1, SameGrants
  <2>3. /\ issued < MaxTokens /\ issued' = issued + 1 /\ issued' \in Token
        /\ row'[issued'] = "fresh" /\ \A t \in Token : t # issued' => row'[t] = row[t]
    <3>1. Insert(row, NoToken, FALSE)
      BY <1>3 DEF Login
    <3>2. issued < MaxTokens
      BY <3>1 DEF Insert
    <3> QED
      BY <1>0, <3>1, <3>2, Inserted
  <2>4. UsableTokens' = UsableTokens \cup {issued + 1} \cup {}
    BY <2>3 DEF UsableTokens, Usable
  <2>5. Life!Login
    BY <2>2, <2>3, <2>4 DEF Life!Login, Life!Issue, Granted
  <2> QED
    BY <2>5 DEF Life!Next
<1>4. ASSUME NEW r \in Reqs, NEW tab \in Tabs, RevokeBegin(r, tab) PROVE Life!Next
  <2>1. /\ req[r].pc = "idle" /\ req'[r].pc = "delete"
        /\ \A s \in Reqs : s # r => req'[s] = req[s]
    BY <1>4, RevocationBegun
  <2>2. UNCHANGED <<row, issued>>
    BY <1>4 DEF RevokeBegin
  <2> QED
    BY <1>1, <2>1, <2>2
<1>5. ASSUME NEW r \in Reqs, Receive(r) PROVE Life!Next
  <2>1. /\ req[r].pc = "reply" /\ req'[r] = Free /\ UNCHANGED <<row, issued>>
        /\ \A s \in Reqs : s # r => req'[s] = req[s]
    BY <1>5, Forgotten DEF Receive
  <2> QED
    BY <1>1, <2>1, FreeRequest
<1>6. ASSUME NEW r \in Reqs, Lose(r) PROVE Life!Next
  <2>1. /\ req'[r] = Free /\ UNCHANGED <<row, issued>>
        /\ \A s \in Reqs : s # r => req'[s] = req[s]
    BY <1>6, Forgotten DEF Lose
  <2>2. CASE req[r].pc = "rotate"
    BY <2>1, <2>2, FreeRequest, StepGivesUp DEF RequestsInv
  <2>3. CASE req[r].pc # "rotate"
    BY <1>1, <2>1, <2>3, FreeRequest
  <2> QED
    BY <2>2, <2>3
<1>7. ASSUME NEW r \in Reqs, Lookup(r) PROVE Life!Next
  <2> DEFINE t == req[r].cookie
  <2>1. req[r].pc = "sent" /\ UNCHANGED issued
    BY <1>7 DEF Lookup, At
  <2>2. ASSUME NEW clears \in BOOLEAN, Reply(r, NoToken, clears),
               \A s \in Token : row'[s] \in {"fresh", "grace"} => row[s] \in {"fresh", "grace"}
        PROVE  Life!Next
    <3>1. req'[r].pc = "reply" /\ \A s \in Reqs : s # r => req'[s] = req[s]
      BY <1>0, <2>2, Replied
    <3> QED
      BY <1>1, <2>1, <2>2, <3>1
  <2>3. CASE t = NoToken /\ Reply(r, NoToken, FALSE) /\ UNCHANGED row
    BY <1>0, <2>2, <2>3
  <2>4. CASE /\ t # NoToken /\ row' = [row EXCEPT ![t] = "none"]
             /\ Reply(r, NoToken, TRUE)
    BY <1>0, <2>2, <2>4
  <2>5. CASE /\ t # NoToken /\ Accepted(t)
             /\ req' = [req EXCEPT ![r].pc = "rotate", ![r].first = (row[t] = "fresh"),
                                   ![r].mixed = Revoking]
             /\ UNCHANGED row
    <3>1. /\ \A s \in Reqs : s # r => req'[s] = req[s]
          /\ req'[r].pc = "rotate" /\ req'[r].cookie = t
      BY <2>5, LookedUp
    <3>2. t \in UsableTokens
      BY <1>0, <2>5, BoundsAssumption DEF Accepted, UsableTokens, Usable, Token
    <3>3. UNCHANGED <<issued, UsableTokens>>
      BY <2>1, <2>5 DEF UsableTokens, Usable
    <3>4. PICK u \in UsableTokens : u = t
      BY <3>2
    <3> HIDE DEF t
    <3>5. Granted[r] = NoToken /\ Granted' = [Granted EXCEPT ![r] = u]
      BY <2>1, <3>1, <3>4 DEF Granted
    <3>6. Life!Grant(r, u)
      BY <3>3, <3>5 DEF Life!Grant, Life!NoToken, Granted
    <3> QED
      BY <3>6 DEF Life!Next
  <2> QED
    BY <1>7, <2>3, <2>4, <2>5 DEF Lookup
<1>8. ASSUME NEW r \in Reqs, Rotate(r) PROVE Life!Next
  <2> DEFINE t == req[r].cookie
  <2>1. /\ req[r].pc = "rotate" /\ t # NoToken /\ t \in Token /\ t \in 0..MaxTokens
        /\ req[r].mixed \in BOOLEAN
    BY <1>0, <1>8, BoundsAssumption DEF Rotate, At, RequestsInv, Request, Token
  <2>2. CASE Reply(r, NoToken, FALSE) /\ UNCHANGED <<row, issued, born, overlap>>
    <3>1. req'[r].pc = "reply" /\ \A s \in Reqs : s # r => req'[s] = req[s]
      BY <1>0, <2>2, Replied
    <3> QED
      BY <2>1, <2>2, <3>1, StepGivesUp
  <2>3. ASSUME NEW rows \in [Token -> {"none", "fresh", "grace", "spent", "expired"}],
               Insert(rows, t, req[r].mixed), Reply(r, issued + 1, FALSE),
               \A s \in Token : s # t => rows[s] = row[s],
               row[t] \in {"fresh", "grace"} => rows[t] \in {"fresh", "grace"}
        PROVE  Life!Next
    <3>1. /\ issued' = issued + 1 /\ issued' \in 0..MaxTokens /\ issued' \in Token
          /\ row'[issued'] = "fresh" /\ \A s \in Token : s # issued' => row'[s] = rows[s]
      BY <1>0, <2>1, <2>3, Inserted
    <3>2. issued < MaxTokens
      BY <2>3 DEF Insert
    <3>3. req'[r].pc = "reply" /\ \A s \in Reqs : s # r => req'[s] = req[s]
      BY <1>0, <2>3, <3>1, Replied
    <3>4. Granted[r] = t /\ Granted' = [Granted EXCEPT ![r] = NoToken]
      BY <2>1, <3>3 DEF Granted
    <3> HIDE DEF t
    <3> DEFINE others == IF t \in UsableTokens' THEN {t} ELSE {}
    <3>5. UsableTokens' = UsableTokens \cup {issued + 1} \cup others
      BY <2>1, <2>3, <3>1, ZenonT(30) DEF UsableTokens, Usable
    <3>6. others \in SUBSET {Granted[r]}
      BY <3>4
    <3> HIDE DEF others
    <3>7. Life!Issue(others)
      BY <3>1, <3>2, <3>5 DEF Life!Issue
    <3>8. Life!Exchange(r)
      BY <2>1, <3>4, <3>6, <3>7 DEF Life!Exchange, Life!NoToken, Granted
    <3> QED
      BY <3>8 DEF Life!Next
  <2>4. ASSUME NEW used \in AfterUse(t),
               Insert([row EXCEPT ![t] = used], t, req[r].mixed), Reply(r, issued + 1, FALSE)
        PROVE  Life!Next
    <3>1. /\ used \in {"none", "fresh", "grace", "spent", "expired"}
          /\ row[t] \in {"fresh", "grace"} => used = "grace"
      BY <1>0, <2>1 DEF AfterUse
    <3> DEFINE rows == [row EXCEPT ![t] = used]
    <3>2. rows \in [Token -> {"none", "fresh", "grace", "spent", "expired"}]
      BY <1>0, <3>1
    <3>3. (\A s \in Token : s # t => rows[s] = row[s]) /\ rows[t] = used
      BY <1>0, <2>1
    <3>4. Insert(rows, t, req[r].mixed) /\ Reply(r, issued + 1, FALSE)
      BY <2>4
    <3>5. row[t] \in {"fresh", "grace"} => rows[t] \in {"fresh", "grace"}
      BY <3>1, <3>3
    <3> HIDE DEF rows, t
    <3> QED
      BY <2>3, <3>2, <3>3, <3>4, <3>5
  <2>5. ASSUME Insert(row, t, req[r].mixed), Reply(r, issued + 1, FALSE)
        PROVE  Life!Next
    BY <1>0, <2>3, <2>5
  <2> QED
    BY <1>8, <2>2, <2>4, <2>5 DEF Rotate
<1>9. ASSUME NEW r \in Reqs, Logout(r) PROVE Life!Next
  <2>1. req'[r].pc = "reply" /\ \A s \in Reqs : s # r => req'[s] = req[s]
    BY <1>0, <1>9, Replied DEF Logout
  <2>2. /\ UNCHANGED issued /\ req[r].pc = "sent"
        /\ \A t \in Token : row'[t] \in {"fresh", "grace"} => row[t] \in {"fresh", "grace"}
    BY <1>9 DEF Logout, DeleteRow, At
  <2> QED
    BY <1>1, <2>1, <2>2
<1>10. ASSUME NEW r \in Reqs, RevokeCommit(r) PROVE Life!Next
  <2>1. /\ \A s \in Reqs : req'[s].cookie = req[s].cookie
        /\ \A s \in Reqs : s # r => req'[s].pc = req[s].pc
        /\ req[r].pc = "delete" /\ req'[r].pc = "reply"
    BY <1>10, RevocationCommitted
  <2>2. Granted' = Granted
    BY <2>1, SameGrants
  <2>3. UsableTokens' \subseteq UsableTokens /\ UNCHANGED issued
    BY <1>10 DEF RevokeCommit, UsableTokens, Usable
  <2> QED
    BY <2>2, <2>3, StepDies
<1>11. ASSUME NEW tab \in Tabs, AccessExpires(tab) PROVE Life!Next
  <2>1. UNCHANGED <<row, issued, req>>
    BY <1>11 DEF AccessExpires
  <2> QED
    BY <2>1, StepDies DEF Granted, UsableTokens, Usable
<1>12. ASSUME NEW t \in Token, GraceEnds(t) \/ Expires(t) PROVE Life!Next
  <2>1. /\ UNCHANGED <<issued, req>>
        /\ \A s \in Token : row'[s] \in {"fresh", "grace"} => row[s] \in {"fresh", "grace"}
    BY <1>0, <1>12 DEF GraceEnds, Expires
  <2> QED
    BY <2>1, StepDies DEF Granted, UsableTokens, Usable
<1> QED
  BY <1>2, <1>3, <1>4, <1>5, <1>6, <1>7, <1>8, <1>9, <1>10, <1>11, <1>12 DEF Next

\* The rows, requests and clocks implement the life of a token: a new one only for a
\* login or for a request that presented a usable one, and a dead one stays dead
\* (auth/tokens.py:186-318).
THEOREM SessionsRefineTokenLife == Spec => TokenLife
<1>1. Init => Life!Init
  <2> SUFFICES ASSUME Init PROVE Life!Init
    OBVIOUS
  <2>1. issued = 0 /\ UsableTokens = {}
    BY DEF Init, UsableTokens, Usable
  <2>2. Granted = [r \in Reqs |-> NoToken]
    BY FreeRequest DEF Init, Granted
  <2> QED
    BY <2>1, <2>2 DEF Life!Init, Life!NoToken, Granted
<1>2. TypeOK /\ RequestsInv /\ [Next]_vars => [Life!Next]_(Life!vars)
  <2>1. UNCHANGED vars => UNCHANGED Life!vars
    BY DEF vars, Life!vars, UsableTokens, Usable
  <2> QED
    BY <2>1, StepsRefine
<1> QED
  BY <1>1, <1>2, TypesInductive, PTL DEF Spec, TokenLife, Life!Spec
================================================================================
