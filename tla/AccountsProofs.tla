------------------------------ MODULE AccountsProofs ------------------------------
(***************************************************************************)
(* Proofs about Accounts for any number of requests under way, of links    *)
(* and of wrong passwords that lock an account.                            *)
(***************************************************************************)
EXTENDS Accounts, FiniteSetTheorems, TLAPS

Busy(r, op) == req[r].pc # "idle" /\ req[r].op = op
--------------------------------------------------------------------------------
(* What the properties rest on.                                            *)

\* A free slot holds nothing; a link that is mailed has a number; a verification and
\* a reset work on one link.
ShapesInv ==
    \A r \in Reqs :
        /\ req[r].pc = "idle" => req[r].held = {}
        /\ At(r, "commit", "mail") => req[r].token \in Token
        /\ Busy(r, "verify") => \E t \in Token : req[r].held = {t}
        /\ Busy(r, "reset") => req[r].pc = "commit" /\ \E t \in Token : req[r].held = {t}

\* A request that is alone overlaps with no other one of its sort.
AloneInv ==
    \A r, s \in Reqs :
        r # s /\ req[r].pc # "idle" /\ req[r].alone => ~Busy(s, req[r].op)

\* A row is held by one transaction, and it is there; what a request for a link
\* deletes is of its kind.
HoldsInv ==
    /\ \A r \in Reqs : Busy(r, "mail") =>
          \A t \in req[r].held \cup req[r].rows : kind[t] = req[r].kind /\ kind[t] # "none"
    /\ \A r \in Reqs : \A t \in req[r].held : row[t] # "none"
    /\ \A r, s \in Reqs : r # s => req[r].held \cap req[s].held = {}

\* Links are numbered in the order in which they are mailed; one whose row is
\* there was not used.
NumberedInv ==
    /\ \E n \in 0..MaxTokens : \A t \in Token : kind[t] # "none" <=> t <= n
    /\ \A t \in Token : kind[t] = "none" => row[t] = "none" /\ uses[t] = 0
    /\ \A t \in Token : row[t] # "none" => uses[t] = 0

\* A link that is mailed and whose row is not committed yet is new, belongs to
\* one request and is newer than the links that request deletes.
MailedInv ==
    /\ \A r \in Reqs : At(r, "commit", "mail") =>
          /\ kind[req[r].token] = req[r].kind
          /\ row[req[r].token] = "none" /\ uses[req[r].token] = 0
          /\ \A t \in req[r].held : t < req[r].token
    /\ \A r, s \in Reqs : r # s /\ At(r, "commit", "mail") /\ At(s, "commit", "mail")
          => req[r].token # req[s].token

\* A verification knows of a link that is live that it is valid.
ValidInv ==
    \A r \in Reqs : Busy(r, "verify") =>
        \A t \in req[r].held : row[t] = "live" => req[r].valid

LinksInv == HoldsInv /\ NumberedInv /\ MailedInv /\ ValidInv /\ LinksWorkOnce

\* What the DELETEs of a request have missed was committed by a request that
\* overlapped with it.
MissedInv ==
    \A r \in Reqs : \A t \in Token :
        /\ Busy(r, "mail") /\ req[r].pc \in {"delete", "commit"}
        /\ kind[t] = req[r].kind /\ row[t] # "none" /\ t \notin req[r].held
        /\ req[r].pc = "delete" => t \notin req[r].rows
        => t \in mixed /\ ~req[r].alone

\* A login that is alone knows the count, and while the account counts, so does
\* every login.
CountInv ==
    /\ \A r \in Reqs : Busy(r, "login") /\ req[r].alone => req[r].failed = user.failed
    /\ alone => \A r \in Reqs : Busy(r, "login") => req[r].alone

\* The sessions a reset under way does not delete are marked as stored meanwhile.
ResetsInv ==
    \A r \in Reqs : Busy(r, "reset") => \A s \in sessions \ req[r].gone : s.late
--------------------------------------------------------------------------------
(* Types, and what it means for a request to begin.                        *)

\* a and b are the same request but for whether it is alone and the sessions it
\* deletes; but for whether it is alone.
Alike(a, b) ==
    /\ a.pc = b.pc /\ a.op = b.op /\ a.kind = b.kind /\ a.deletes = b.deletes
    /\ a.creates = b.creates /\ a.rows = b.rows /\ a.held = b.held /\ a.token = b.token
    /\ a.valid = b.valid /\ a.parent = b.parent /\ a.failed = b.failed /\ a.lock = b.lock
    /\ a.password = b.password /\ a.good = b.good
Same(a, b) == Alike(a, b) /\ a.gone = b.gone

\* r ends its request; the others stay what they are, but for the sessions that
\* resets delete.
Ends(r) ==
    /\ req' \in [Reqs -> Request]
    /\ req'[r].pc = "idle" /\ req'[r].held = {}
    /\ \A s \in Reqs \ {r} : Alike(req'[s], req[s]) /\ req'[s].alone = req[s].alone

\* r begins a request; the others stay what they are, only that those of its sort
\* are not alone any more.
Begins(r) ==
    /\ req[r].pc = "idle" /\ req'[r].pc # "idle"
    /\ req'[r].alone => Others(r, req'[r].op) = {}
    /\ \A s \in Reqs \ {r} :
          /\ Same(req'[s], req[s])
          /\ req'[s].alone => req[s].alone
          /\ req'[s].alone /\ req[s].pc # "idle" => req[s].op # req'[r].op
          /\ req[s].alone /\ req[s].op # req'[r].op => req'[s].alone

\* The slot of a request that ended is well formed.
LEMMA FreeRequest == Free \in Request
<1>1. 0 \in 0..2 /\ 0 \in 0..MaxTokens /\ 0 \in 0..(MaxFailed - 1)
  BY BoundAssumption, MaxFailedAssumption
<1>2. {} \in SUBSET Token /\ {} \in SUBSET Session /\ FALSE \in BOOLEAN
  OBVIOUS
<1> QED
  BY <1>1, <1>2 DEF Free, Request, NoToken, Kind, Lock

\* Whatever well-formed request a slot begins, the slots stay well formed and the
\* other requests go on as they were (Begin).
LEMMA BeginIsClean ==
  ASSUME TypeOK, NEW r \in Reqs, NEW me \in Request, me.pc # "idle", Begin(r, me)
  PROVE  /\ req' \in [Reqs -> Request] /\ Begins(r) /\ Same(req'[r], me)
         /\ req'[r].alone = (Others(r, me.op) = {})
<1> DEFINE now(s) == IF s = r THEN [me EXCEPT !.alone = (Others(r, me.op) = {})]
                     ELSE IF s \in Others(r, me.op) THEN [req[s] EXCEPT !.alone = FALSE]
                     ELSE req[s]
<1>1. req' = [s \in Reqs |-> now(s)] /\ req[r].pc = "idle"
  BY DEF Begin
<1>2. now(r) = [me EXCEPT !.alone = (Others(r, me.op) = {})]
  OBVIOUS
<1>a. (Others(r, me.op) = {}) \in BOOLEAN
  OBVIOUS
<1>3. now(r) \in Request /\ Same(now(r), me) /\ now(r).alone = (Others(r, me.op) = {})
  <2> DEFINE lone == (Others(r, me.op) = {})
  <2>1. lone \in BOOLEAN /\ now(r) = [me EXCEPT !.alone = lone]
    BY <1>2
  <2> HIDE DEF lone, now
  <2>2. now(r) \in Request /\ Same(now(r), me) /\ now(r).alone = lone
    BY <2>1 DEF Request, Same, Alike
  <2> QED
    BY <2>2 DEF lone
<1>4. ASSUME NEW s \in Reqs \ {r}
      PROVE  /\ now(s) \in Request /\ Same(now(s), req[s])
             /\ now(s).alone => req[s].alone
             /\ s \in Others(r, me.op) => ~now(s).alone
             /\ req[s].alone /\ s \notin Others(r, me.op) => now(s).alone
  <2>1. req[s] \in Request
    BY DEF TypeOK
  <2>2. CASE s \in Others(r, me.op)
    <3>1. now(s) = [req[s] EXCEPT !.alone = FALSE]
      BY <2>2
    <3> HIDE DEF now
    <3> QED
      BY <2>1, <2>2, <3>1 DEF Request, Same, Alike
  <2>3. CASE s \notin Others(r, me.op)
    <3>1. now(s) = req[s]
      BY <2>3
    <3> HIDE DEF now
    <3> QED
      BY <2>1, <2>3, <3>1 DEF Same, Alike
  <2> QED
    BY <2>2, <2>3
<1> HIDE DEF now
<1>5. \A s \in Reqs : req'[s] = now(s)
  BY <1>1
<1>6. req' \in [Reqs -> Request]
  BY <1>1, <1>3, <1>4
<1>7. Same(req'[r], me) /\ req'[r].alone = (Others(r, me.op) = {})
  BY <1>3, <1>5
<1>8. req'[r].op = me.op /\ req'[r].pc = me.pc
  BY <1>7 DEF Same, Alike
<1>9. ASSUME NEW s \in Reqs \ {r}
      PROVE  /\ Same(req'[s], req[s])
             /\ req'[s].alone => req[s].alone
             /\ req'[s].alone /\ req[s].pc # "idle" => req[s].op # req'[r].op
             /\ req[s].alone /\ req[s].op # req'[r].op => req'[s].alone
  BY <1>4, <1>5, <1>8 DEF Others
<1> QED
  BY <1>1, <1>6, <1>7, <1>8, <1>9 DEF Begins

\* A request for a link has deleted and mailed nothing yet when it begins.
LEMMA AskIsClean ==
  ASSUME TypeOK, NEW r \in Reqs, NEW k \in Kind, NEW deletes \in 0..2,
         NEW creates \in BOOLEAN, Ask(r, k, deletes, creates)
  PROVE  /\ req' \in [Reqs -> Request] /\ Begins(r)
         /\ req'[r].pc = "ask" /\ req'[r].op = "mail"
         /\ req'[r].rows = {} /\ req'[r].held = {}
         /\ UNCHANGED <<user, sessions, linkVars, loginVars>>
<1> DEFINE me == [Free EXCEPT !.pc = "ask", !.kind = k, !.deletes = deletes,
                              !.creates = creates]
<1>1. me \in Request /\ me.pc = "ask" /\ me.op = "mail" /\ me.rows = {} /\ me.held = {}
  <2>1. Free.op = "mail" /\ Free.rows = {} /\ Free.held = {}
    BY DEF Free
  <2> QED
    BY <2>1, FreeRequest DEF Request
<1>2. Begin(r, me) /\ UNCHANGED <<user, sessions, linkVars, loginVars>>
  BY DEF Ask
<1> HIDE DEF me
<1>3. req' \in [Reqs -> Request] /\ Begins(r) /\ Same(req'[r], me)
  BY <1>1, <1>2, BeginIsClean
<1> QED
  BY <1>1, <1>2, <1>3 DEF Same, Alike

\* Registration, /auth/resend-verification and /auth/forgot-password begin such a
\* request.
LEMMA AskBegins ==
  ASSUME TypeOK, NEW r \in Reqs, Register(r) \/ Resend(r) \/ Forgot(r)
  PROVE  /\ req' \in [Reqs -> Request] /\ Begins(r)
         /\ req'[r].pc = "ask" /\ req'[r].op = "mail"
         /\ req'[r].rows = {} /\ req'[r].held = {}
         /\ UNCHANGED <<user, sessions, linkVars, loginVars>>
<1>1. "verify" \in Kind /\ "reset" \in Kind /\ 1 \in 0..2 /\ 2 \in 0..2
  BY DEF Kind
<1>2. TRUE \in BOOLEAN /\ FALSE \in BOOLEAN
  OBVIOUS
<1>3. CASE Register(r)
  <2>1. Ask(r, "verify", 1, TRUE)
    BY <1>3 DEF Register
  <2> QED
    BY <1>1, <1>2, <2>1, AskIsClean
<1>4. CASE Resend(r)
  <2>1. Ask(r, "verify", 2, FALSE)
    BY <1>4 DEF Resend
  <2> QED
    BY <1>1, <1>2, <2>1, AskIsClean
<1>5. CASE Forgot(r)
  <2> DEFINE k == IF user.verified THEN "reset" ELSE "verify"
  <2>1. Ask(r, k, 1, FALSE)
    BY <1>5 DEF Forgot
  <2>2. k \in Kind
    BY <1>1
  <2> HIDE DEF k
  <2> QED
    BY <1>1, <1>2, <2>1, <2>2, AskIsClean
<1> QED
  BY <1>3, <1>4, <1>5

\* The link of a verification is locked by it, and it knows whether it is valid.
LEMMA VerifyBegins ==
  ASSUME TypeOK, NEW r \in Reqs, NEW t \in Token, Verify(r, t)
  PROVE  /\ req' \in [Reqs -> Request] /\ Begins(r)
         /\ req'[r].pc = "commit" /\ req'[r].op = "verify"
         /\ req'[r].held = {t}
         /\ row[t] = "live" => req'[r].valid
         /\ kind[t] = "verify" /\ Lockable(r, t)
         /\ UNCHANGED <<user, sessions, linkVars, loginVars>>
<1> DEFINE live == (row[t] = "live")
           me == [Free EXCEPT !.pc = "commit", !.op = "verify", !.held = {t}, !.valid = live]
<1>1. live \in BOOLEAN
  OBVIOUS
<1>2. me \in Request /\ me.pc = "commit" /\ me.op = "verify" /\ me.held = {t} /\ me.valid = live
  <2> HIDE DEF live
  <2> QED
    BY <1>1, FreeRequest DEF Request
<1>3. /\ Begin(r, me) /\ UNCHANGED <<user, sessions, linkVars, loginVars>>
      /\ kind[t] = "verify" /\ Lockable(r, t)
  BY DEF Verify
<1> HIDE DEF me
<1>4. req' \in [Reqs -> Request] /\ Begins(r) /\ Same(req'[r], me)
  BY <1>2, <1>3, BeginIsClean
<1> QED
  BY <1>2, <1>3, <1>4 DEF Same, Alike

\* A reset locks the link it was given, which is live, and deletes the sessions that
\* are there.
LEMMA ResetBegins ==
  ASSUME TypeOK, NEW r \in Reqs, NEW t \in Token, Reset(r, t)
  PROVE  /\ req' \in [Reqs -> Request] /\ Begins(r)
         /\ req'[r].pc = "commit" /\ req'[r].op = "reset"
         /\ req'[r].held = {t} /\ req'[r].gone = sessions
         /\ kind[t] = "reset" /\ Lockable(r, t)
         /\ UNCHANGED <<user, sessions, linkVars, loginVars>>
<1> DEFINE me == [Free EXCEPT !.pc = "commit", !.op = "reset", !.held = {t}, !.gone = sessions]
<1>1. sessions \in SUBSET Session
  BY DEF TypeOK
<1>2. /\ me \in Request /\ me.pc = "commit" /\ me.op = "reset" /\ me.held = {t}
      /\ me.gone = sessions
  BY <1>1, FreeRequest DEF Request
<1>3. /\ Begin(r, me) /\ UNCHANGED <<user, sessions, linkVars, loginVars>>
      /\ kind[t] = "reset" /\ Lockable(r, t)
  BY DEF Reset, SignedOut
<1> HIDE DEF me
<1>4. req' \in [Reqs -> Request] /\ Begins(r) /\ Same(req'[r], me)
  BY <1>2, <1>3, BeginIsClean
<1> QED
  BY <1>2, <1>3, <1>4 DEF Same, Alike

\* A login knows the count of failures and the lock as it read them.
LEMMA LoginBegins ==
  ASSUME TypeOK, NEW r \in Reqs, NEW good \in BOOLEAN, Login(r, good)
  PROVE  /\ req' \in [Reqs -> Request] /\ Begins(r)
         /\ req'[r].pc = "commit" /\ req'[r].op = "login"
         /\ req'[r].held = {} /\ req'[r].rows = {} /\ req'[r].failed = user.failed
         /\ alone' => alone /\ Others(r, "login") = {} /\ req'[r].alone
         /\ alone' \in BOOLEAN /\ tries' = IF alone' THEN tries ELSE 0
         /\ UNCHANGED <<user, sessions, linkVars>>
<1> DEFINE me == [Free EXCEPT !.pc = "commit", !.op = "login", !.good = good,
                              !.failed = user.failed, !.lock = user.lock,
                              !.password = user.password]
<1>1. user.failed \in 0..(MaxFailed - 1) /\ user.lock \in Lock /\ user.password \in 0..MaxTokens
  BY DEF TypeOK
<1>a. Free.held = {} /\ Free.rows = {}
  BY DEF Free
<1>2. /\ me \in Request /\ me.pc = "commit" /\ me.op = "login" /\ me.held = {} /\ me.rows = {}
      /\ me.failed = user.failed
  BY <1>1, <1>a, FreeRequest DEF Request
<1>3. /\ Begin(r, me) /\ UNCHANGED <<user, sessions, linkVars>>
      /\ alone' = (alone /\ Others(r, "login") = {})
      /\ tries' = IF alone' THEN tries ELSE 0
  BY DEF Login
<1> HIDE DEF me
<1>4. /\ req' \in [Reqs -> Request] /\ Begins(r) /\ Same(req'[r], me)
      /\ req'[r].alone = (Others(r, me.op) = {})
  BY <1>2, <1>3, BeginIsClean
<1>5. alone' => alone /\ Others(r, "login") = {}
  BY <1>3
<1> QED
  BY <1>2, <1>3, <1>4, <1>5 DEF Same, Alike

\* A rotation knows the session it rotates.
LEMMA RotateBegins ==
  ASSUME TypeOK, NEW r \in Reqs, NEW s \in sessions, NEW spent \in BOOLEAN,
         Rotate(r, s, spent)
  PROVE  /\ req' \in [Reqs -> Request] /\ Begins(r)
         /\ req'[r].op = "rotate" /\ req'[r].held = {}
         /\ UNCHANGED <<user, sessions, linkVars, loginVars>>
<1> DEFINE pc == IF spent THEN "commit" ELSE "ask"
           parent == IF spent THEN {} ELSE {s}
           me == [Free EXCEPT !.pc = pc, !.op = "rotate", !.password = s.password,
                              !.parent = parent]
<1>1. pc \in {"ask", "commit"} /\ parent \in SUBSET Session /\ s.password \in 0..MaxTokens
  BY DEF TypeOK, Session
<1>2. Free.held = {}
  BY DEF Free
<1>3. Begin(r, me) /\ UNCHANGED <<user, sessions, linkVars, loginVars>>
  BY DEF Rotate
<1> HIDE DEF pc, parent
<1>4. me \in Request /\ me.pc # "idle" /\ me.op = "rotate" /\ me.held = {}
  BY <1>1, <1>2, FreeRequest DEF Request
<1> HIDE DEF me
<1>5. req' \in [Reqs -> Request] /\ Begins(r) /\ Same(req'[r], me)
  BY <1>3, <1>4, BeginIsClean
<1> QED
  BY <1>3, <1>4, <1>5 DEF Same, Alike

\* The links mailed are counted, and the next one still has a number.
LEMMA IssuedType == issued \in Nat /\ (issued < MaxTokens => issued + 1 \in Token)
<1> DEFINE mailed == {t \in Token : kind[t] # "none"}
<1>1. IsFiniteSet(Token)
  BY FS_Interval, BoundAssumption DEF Token
<1>2. Cardinality(mailed) \in Nat
  BY <1>1, FS_Subset, FS_CardinalityType
<1>3. issued \in Nat
  BY <1>2 DEF issued
<1> QED
  BY <1>3, BoundAssumption DEF Token

\* Links numbered from 1 to n are n links.
LEMMA IssuedCount ==
  ASSUME NEW n \in 0..MaxTokens, \A t \in Token : kind[t] # "none" <=> t <= n
  PROVE  issued = n
<1>1. {t \in Token : kind[t] # "none"} = 1..n
  BY BoundAssumption DEF Token
<1>2. Cardinality(1..n) = n
  BY FS_Interval
<1> QED
  BY <1>1, <1>2 DEF issued

\* A DELETE starts with the rows it sees.
LEMMA StartDeleteReq ==
  ASSUME TypeOK, NEW r \in Reqs, StartDelete(r)
  PROVE  /\ req' \in [Reqs -> Request]
         /\ \A s \in Reqs \ {r} : req'[s] = req[s]
         /\ req[r].pc = "ask" /\ req[r].op = "mail"
         /\ req'[r].pc = "delete" /\ req'[r].op = "mail" /\ req'[r].kind = req[r].kind
         /\ req'[r].rows = Seen(req[r].kind) /\ req'[r].held = req[r].held
         /\ req'[r].alone = req[r].alone
<1> DEFINE rows == Seen(req[r].kind)
<1>1. req' = [req EXCEPT ![r] = [req[r] EXCEPT !.pc = "delete", !.rows = rows]]
  BY DEF StartDelete, TypeOK
<1>2. req[r] \in Request /\ req[r].pc = "ask" /\ req[r].op = "mail"
  BY DEF StartDelete, At, TypeOK
<1>3. rows \in SUBSET Token
  BY DEF Seen
<1> HIDE DEF rows
<1>4. [req[r] EXCEPT !.pc = "delete", !.rows = rows] \in Request
  BY <1>2, <1>3 DEF Request
<1>5. req' \in [Reqs -> Request] /\ \A s \in Reqs \ {r} : req'[s] = req[s]
  BY <1>1, <1>4 DEF TypeOK
<1>6. req'[r] = [req[r] EXCEPT !.pc = "delete", !.rows = rows]
  BY <1>1 DEF TypeOK
<1> QED
  BY <1>2, <1>5, <1>6 DEF Request, rows

\* A DELETE that ends holds the rows that were still there; after the last one a
\* link of the request's kind with the next number is mailed.
LEMMA EndDeleteReq ==
  ASSUME TypeOK, NEW r \in Reqs, EndDelete(r)
  PROVE  /\ req' \in [Reqs -> Request]
         /\ \A s \in Reqs \ {r} : req'[s] = req[s]
         /\ req[r].pc = "delete" /\ req[r].op = "mail"
         /\ req'[r].op = "mail" /\ req'[r].kind = req[r].kind /\ req'[r].rows = {}
         /\ req'[r].held = req[r].held \cup {t \in req[r].rows : row[t] # "none"}
         /\ req'[r].alone = req[r].alone
         /\ \/ req'[r].pc = "ask" /\ kind' = kind
            \/ /\ req'[r].pc = "commit" /\ req'[r].token = issued + 1
               /\ issued + 1 \in Token
               /\ kind' = [kind EXCEPT ![issued + 1] = req[r].kind]
<1> DEFINE held == req[r].held \cup {t \in req[r].rows : row[t] # "none"}
           again == [req[r] EXCEPT !.pc = "ask", !.deletes = req[r].deletes - 1,
                                   !.rows = {}, !.held = held]
           mails == [req[r] EXCEPT !.pc = "commit", !.deletes = 0, !.rows = {},
                                   !.held = held, !.token = issued + 1]
<1>1. /\ req[r] \in Request /\ req[r].pc = "delete" /\ req[r].op = "mail"
      /\ req[r].deletes \in 0..2
  BY DEF EndDelete, At, TypeOK, Request
<1>2. held \in SUBSET Token
  BY <1>1 DEF Request
<1>3. \/ /\ req[r].deletes > 1 /\ req' = [req EXCEPT ![r] = again] /\ kind' = kind
      \/ /\ issued < MaxTokens /\ req' = [req EXCEPT ![r] = mails]
         /\ kind' = [kind EXCEPT ![issued + 1] = req[r].kind]
  BY DEF EndDelete, TypeOK
<1> HIDE DEF held
<1>4. req[r].deletes > 1 => req[r].deletes - 1 \in 0..2
  BY <1>1
<1>5. 0 \in 0..2 /\ (issued < MaxTokens => issued + 1 \in Token /\ issued + 1 \in 0..MaxTokens)
  BY IssuedType, BoundAssumption
<1>6. CASE req[r].deletes > 1 /\ req' = [req EXCEPT ![r] = again] /\ kind' = kind
  <2>1. again \in Request
    BY <1>1, <1>2, <1>4, <1>6 DEF Request
  <2>2. /\ again.pc = "ask" /\ again.op = "mail" /\ again.kind = req[r].kind
        /\ again.rows = {} /\ again.held = held /\ again.alone = req[r].alone
    BY <1>1 DEF Request
  <2> HIDE DEF again
  <2> QED
    BY <1>1, <1>6, <2>1, <2>2 DEF TypeOK, held
<1>7. CASE issued < MaxTokens /\ req' = [req EXCEPT ![r] = mails]
           /\ kind' = [kind EXCEPT ![issued + 1] = req[r].kind]
  <2>1. mails \in Request
    BY <1>1, <1>2, <1>5, <1>7 DEF Request
  <2>2. /\ mails.pc = "commit" /\ mails.op = "mail" /\ mails.kind = req[r].kind
        /\ mails.rows = {} /\ mails.held = held /\ mails.alone = req[r].alone
        /\ mails.token = issued + 1
    BY <1>1 DEF Request
  <2> HIDE DEF mails
  <2> QED
    BY <1>1, <1>5, <1>7, <2>1, <2>2 DEF TypeOK, held
<1> QED
  BY <1>3, <1>6, <1>7

\* A transaction that ends leaves its slot free and the others alone.
LEMMA FinishReq ==
  ASSUME TypeOK, NEW r \in Reqs, Finish(r)
  PROVE  /\ req' \in [Reqs -> Request]
         /\ \A s \in Reqs \ {r} : req'[s] = req[s]
         /\ req'[r].pc = "idle" /\ req'[r].held = {}
         /\ Ends(r)
<1>1. req' = [req EXCEPT ![r] = Free] /\ req \in [Reqs -> Request]
  BY DEF Finish, TypeOK
<1>2. Free.pc = "idle" /\ Free.held = {}
  BY DEF Free
<1>3. /\ req' \in [Reqs -> Request] /\ req'[r].pc = "idle" /\ req'[r].held = {}
      /\ \A s \in Reqs \ {r} : req'[s] = req[s]
  BY <1>1, <1>2, FreeRequest
<1> QED
  BY <1>3 DEF Ends, Alike

\* A login or a rotation that stores a refresh token ends; a reset under way does not
\* delete what it stored.
LEMMA StoreReq ==
  ASSUME TypeOK, NEW r \in Reqs, Store(r)
  PROVE  /\ Ends(r)
         /\ \E new \in Session :
               /\ sessions' = sessions \cup {new}
               /\ new.password = req[r].password
               /\ Resetting \/ req[r].password # user.password => new.late
               /\ \A s \in Reqs \ {r} : req'[s].gone = req[s].gone \ {new}
<1> DEFINE late == Resetting \/ req[r].password # user.password
           new == [password |-> req[r].password, late |-> late]
           now(s) == [req[s] EXCEPT !.gone = req[s].gone \ {new}]
<1>1. /\ sessions' = sessions \cup {new}
      /\ req' = [s \in Reqs |-> IF s = r THEN Free ELSE now(s)]
  BY DEF Store
<1>2. late \in BOOLEAN
  OBVIOUS
<1>3. new.password = req[r].password /\ new.late = late
  OBVIOUS
<1>4. new \in Session
  <2> HIDE DEF late
  <2> QED
    BY <1>2 DEF TypeOK, Request, Session
<1>5. late = (Resetting \/ req[r].password # user.password)
  OBVIOUS
<1> HIDE DEF new, late
<1>6. ASSUME NEW s \in Reqs
      PROVE  /\ now(s) \in Request /\ Alike(now(s), req[s])
             /\ now(s).alone = req[s].alone /\ now(s).gone = req[s].gone \ {new}
  <2>1. req[s] \in Request
    BY DEF TypeOK
  <2> QED
    BY <2>1 DEF Request, Alike
<1> HIDE DEF now
<1>7. Free.pc = "idle" /\ Free.held = {}
  BY DEF Free
<1>8. Ends(r)
  BY <1>1, <1>6, <1>7, FreeRequest DEF Ends
<1> QED
  BY <1>1, <1>3, <1>4, <1>5, <1>6, <1>8

\* Whatever ends a request.
LEMMA EndsReq ==
  ASSUME TypeOK, NEW r \in Reqs,
         \/ CommitLink(r) \/ Fail(r) \/ CommitVerify(r) \/ CommitReset(r)
         \/ WrongPassword(r) \/ RightPassword(r) \/ CommitRotate(r)
  PROVE  Ends(r)
BY FinishReq, StoreReq
   DEF CommitLink, Fail, CommitVerify, CommitReset, WrongPassword, RightPassword, CommitRotate

\* A rotation that marks its row as spent only goes on.
LEMMA MarkSpentReq ==
  ASSUME TypeOK, NEW r \in Reqs, MarkSpent(r)
  PROVE  /\ req' \in [Reqs -> Request]
         /\ \A s \in Reqs \ {r} : req'[s] = req[s]
         /\ req[r].pc = "ask" /\ req[r].op = "rotate"
         /\ req'[r].pc = "commit" /\ req'[r].op = "rotate"
         /\ req'[r].held = req[r].held /\ req'[r].alone = req[r].alone
         /\ UNCHANGED <<user, sessions, linkVars, loginVars>>
<1>1. /\ req' = [req EXCEPT ![r] = [req[r] EXCEPT !.pc = "commit"]]
      /\ req[r].pc = "ask" /\ req[r].op = "rotate" /\ req[r] \in Request
      /\ UNCHANGED <<user, sessions, linkVars, loginVars>>
  BY DEF MarkSpent, At, TypeOK
<1>2. [req[r] EXCEPT !.pc = "commit"] \in Request
  BY <1>1 DEF Request
<1>3. req' \in [Reqs -> Request] /\ \A s \in Reqs \ {r} : req'[s] = req[s]
  BY <1>1, <1>2 DEF TypeOK
<1>4. req'[r] = [req[r] EXCEPT !.pc = "commit"]
  BY <1>1 DEF TypeOK
<1> QED
  BY <1>1, <1>3, <1>4 DEF Request

\* Every operation on links and resets keeps the types.
LEMMA LinkType ==
  ASSUME TypeOK, ShapesInv, NEW r \in Reqs,
         StartDelete(r) \/ EndDelete(r) \/ CommitLink(r) \/ Fail(r) \/ CommitVerify(r)
           \/ CommitReset(r)
  PROVE  TypeOK'
<1> USE DEF linkVars, loginVars
<1>1. CASE StartDelete(r)
  <2>1. req' \in [Reqs -> Request]
    BY <1>1, StartDeleteReq
  <2> QED
    BY <1>1, <2>1 DEF StartDelete, TypeOK
<1>2. CASE EndDelete(r)
  <2>1. req' \in [Reqs -> Request] /\ req[r].kind \in Kind
    BY <1>2, EndDeleteReq DEF TypeOK, Request
  <2>2. kind' \in [Token -> Kind \cup {"none"}]
    BY <1>2, <2>1, EndDeleteReq DEF TypeOK
  <2> QED
    BY <1>2, <2>1, <2>2 DEF EndDelete, TypeOK
<1>3. CASE CommitLink(r)
  <2>1. req' \in [Reqs -> Request]
    BY <1>3, FinishReq DEF CommitLink
  <2>2. row' \in [Token -> {"none", "live", "expired"}]
    BY <1>3 DEF CommitLink, TypeOK
  <2>3. user' = user \/ user' = [user EXCEPT !.exists = TRUE]
    BY <1>3 DEF CommitLink
  <2>4. mixed' \in SUBSET Token
    BY <1>3 DEF CommitLink, TypeOK, ShapesInv
  <2> QED
    BY <1>3, <2>1, <2>2, <2>3, <2>4 DEF CommitLink, TypeOK
<1>4. CASE Fail(r)
  <2>1. req' \in [Reqs -> Request]
    BY <1>4, FinishReq DEF Fail
  <2> QED
    BY <1>4, <2>1 DEF Fail, Rollback, TypeOK
<1>5. CASE CommitVerify(r)
  <2>1. req' \in [Reqs -> Request]
    BY <1>5, FinishReq DEF CommitVerify
  <2>2. (user.verified \/ req[r].valid) \in BOOLEAN
    OBVIOUS
  <2>3. user' = [user EXCEPT !.verified = (user.verified \/ req[r].valid)]
    BY <1>5 DEF CommitVerify
  <2>4. row' \in [Token -> {"none", "live", "expired"}] /\ uses' \in [Token -> Nat]
    BY <1>5 DEF CommitVerify, TypeOK
  <2> DEFINE verified == (user.verified \/ req[r].valid)
  <2> HIDE DEF verified
  <2>5. verified \in BOOLEAN /\ user' = [user EXCEPT !.verified = verified]
    BY <2>2, <2>3 DEF verified
  <2>6. user' \in [exists : BOOLEAN, verified : BOOLEAN, password : 0..MaxTokens,
                   failed : 0..(MaxFailed - 1), lock : Lock]
    BY <2>5 DEF TypeOK
  <2> QED
    BY <1>5, <2>1, <2>4, <2>6 DEF CommitVerify, TypeOK
<1>6. CASE CommitReset(r)
  <2>1. req' \in [Reqs -> Request]
    BY <1>6, FinishReq DEF CommitReset
  <2>2. PICK t \in Token : req[r].held = {t}
    BY <1>6 DEF CommitReset, At, Busy, ShapesInv
  <2>3. t \in 0..MaxTokens
    BY BoundAssumption DEF Token
  <2>4. (CHOOSE x \in req[r].held : TRUE) = t
    BY <2>2
  <2>5. user' = [user EXCEPT !.password = t]
    BY <1>6, <2>4 DEF CommitReset
  <2>6. row' \in [Token -> {"none", "live", "expired"}] /\ uses' \in [Token -> Nat]
    BY <1>6 DEF CommitReset, TypeOK
  <2>7. sessions' \in SUBSET Session
    BY <1>6 DEF CommitReset, TypeOK
  <2> QED
    BY <1>6, <2>1, <2>3, <2>5, <2>6, <2>7 DEF CommitReset, TypeOK
<1> QED
  BY <1>1, <1>2, <1>3, <1>4, <1>5, <1>6

\* The history of the account keeps its types.
LEMMA RecountType ==
  ASSUME TypeOK, NEW me \in Request, NEW restarts \in BOOLEAN, Recount(me, restarts)
  PROVE  tries' \in Nat /\ alone' \in BOOLEAN
<1>1. tries' \in Nat
  BY DEF Recount, TypeOK
<1>2. (alone \/ (restarts /\ me.alone)) \in BOOLEAN
  OBVIOUS
<1>3. alone' = (alone \/ (restarts /\ me.alone))
  BY DEF Recount
<1> QED
  BY <1>1, <1>2, <1>3

\* The count of failures never stays at the number that locks the account.
LEMMA FailuresType ==
  ASSUME NEW count \in 1..MaxFailed
  PROVE  Failures(count) \in 0..(MaxFailed - 1)
BY MaxFailedAssumption DEF Failures

\* A login that ends keeps the types.
LEMMA LoginType ==
  ASSUME TypeOK, NEW r \in Reqs, WrongPassword(r) \/ RightPassword(r)
  PROVE  TypeOK'
<1> USE DEF linkVars
<1> DEFINE me == req[r]
<1>1. me \in Request /\ me.failed \in 0..(MaxFailed - 1) /\ me.password \in 0..MaxTokens
  BY DEF TypeOK, Request
<1>2. req' \in [Reqs -> Request]
  BY EndsReq DEF Ends
<1>3. CASE WrongPassword(r)
  <2> DEFINE locks == me.failed + 1 >= MaxFailed
             failed == Failures(me.failed + 1)
  <2>1. locks \in BOOLEAN
    OBVIOUS
  <2>2. me.failed + 1 \in 1..MaxFailed
    BY <1>1, MaxFailedAssumption
  <2>3. failed \in 0..(MaxFailed - 1)
    BY <2>2, FailuresType
  <2>4. /\ user' = [user EXCEPT !.failed = failed, !.lock = IF locks THEN "on" ELSE @]
        /\ Recount(me, locks) /\ UNCHANGED <<sessions, linkVars>>
    BY <1>3 DEF WrongPassword
  <2> HIDE DEF locks, failed, me
  <2>5. tries' \in Nat /\ alone' \in BOOLEAN
    BY <1>1, <2>1, <2>4, RecountType
  <2>6. user' \in [exists : BOOLEAN, verified : BOOLEAN, password : 0..MaxTokens,
                   failed : 0..(MaxFailed - 1), lock : Lock]
    BY <2>3, <2>4 DEF TypeOK, Lock
  <2> QED
    BY <1>2, <2>4, <2>5, <2>6 DEF TypeOK
<1>4. CASE RightPassword(r)
  <2>2. user' = AfterSuccess(me) /\ Recount(me, TRUE) /\ Store(r) /\ UNCHANGED linkVars
    BY <1>4 DEF RightPassword
  <2>3. TRUE \in BOOLEAN /\ 0 \in 0..(MaxFailed - 1)
    BY MaxFailedAssumption
  <2> HIDE DEF me
  <2>4. tries' \in Nat /\ alone' \in BOOLEAN
    BY <1>1, <2>2, <2>3, RecountType
  <2>5. sessions' \in SUBSET Session
    BY <2>2, StoreReq DEF TypeOK
  <2>6. user' \in [exists : BOOLEAN, verified : BOOLEAN, password : 0..MaxTokens,
                   failed : 0..(MaxFailed - 1), lock : Lock]
    BY <2>2, <2>3 DEF TypeOK, AfterSuccess, Lock
  <2> QED
    BY <1>2, <2>2, <2>4, <2>5, <2>6 DEF TypeOK
<1> QED
  BY <1>3, <1>4

\* Beginning a request, time and the ends of transactions keep the types.
LEMMA NextType == TypeOK /\ ShapesInv /\ [Next]_vars => TypeOK'
<1> SUFFICES ASSUME TypeOK, ShapesInv, [Next]_vars PROVE TypeOK'
  OBVIOUS
<1>1. ASSUME NEW r \in Reqs, Register(r) \/ Resend(r) \/ Forgot(r) PROVE TypeOK'
  BY <1>1, AskBegins DEF TypeOK, linkVars, loginVars
<1>2. ASSUME NEW r \in Reqs, NEW t \in Token, Verify(r, t) PROVE TypeOK'
  BY <1>2, VerifyBegins DEF TypeOK, linkVars, loginVars
<1>3. ASSUME NEW r \in Reqs, NEW t \in Token, Reset(r, t) PROVE TypeOK'
  BY <1>3, ResetBegins DEF TypeOK, linkVars, loginVars
<1>4. ASSUME NEW r \in Reqs, NEW good \in BOOLEAN, Login(r, good) PROVE TypeOK'
  <2>1. tries' \in Nat /\ alone' \in BOOLEAN
    BY <1>4, LoginBegins DEF TypeOK
  <2> QED
    BY <1>4, <2>1, LoginBegins DEF TypeOK, linkVars
<1>5. ASSUME NEW t \in Token, LinkExpires(t) PROVE TypeOK'
  BY <1>5 DEF LinkExpires, TypeOK, loginVars
<1>6. CASE LockEnds
  BY <1>6 DEF LockEnds, TypeOK, Lock, linkVars, loginVars
<1>7. CASE UNCHANGED vars
  BY <1>7 DEF vars, TypeOK
<1>8. ASSUME NEW r \in Reqs, NEW s \in sessions, NEW spent \in BOOLEAN, Rotate(r, s, spent)
      PROVE  TypeOK'
  BY <1>8, RotateBegins DEF TypeOK, linkVars, loginVars
<1>9. ASSUME NEW r \in Reqs, MarkSpent(r) PROVE TypeOK'
  BY <1>9, MarkSpentReq DEF TypeOK, linkVars, loginVars
<1>10. ASSUME NEW r \in Reqs, CommitRotate(r) PROVE TypeOK'
  <2>1. Ends(r) /\ sessions' \in SUBSET Session /\ UNCHANGED <<user, linkVars, loginVars>>
    BY <1>10, StoreReq DEF CommitRotate, TypeOK
  <2> QED
    BY <2>1 DEF Ends, TypeOK, linkVars, loginVars
<1>11. ASSUME NEW s \in sessions, SessionEnds(s) PROVE TypeOK'
  BY <1>11 DEF SessionEnds, TypeOK, linkVars, loginVars
<1> QED
  BY <1>1, <1>2, <1>3, <1>4, <1>5, <1>6, <1>7, <1>8, <1>9, <1>10, <1>11, LinkType, LoginType
  DEF Next

--------------------------------------------------------------------------------
(* Shapes of requests.                                                     *)

\* A request that begins is of its shape.
LEMMA BeginsShapes ==
  ASSUME TypeOK, ShapesInv, NEW r \in Reqs, Begins(r),
         \/ req'[r].op = "mail" /\ req'[r].pc = "ask"
         \/ /\ req'[r].op \in {"verify", "reset"} /\ req'[r].pc = "commit"
            /\ \E t \in Token : req'[r].held = {t}
         \/ req'[r].op \in {"login", "rotate"}
  PROVE  ShapesInv'
<1>1. ASSUME NEW s \in Reqs \ {r}
      PROVE  req'[s].pc = req[s].pc /\ req'[s].op = req[s].op /\ req'[s].held = req[s].held
             /\ req'[s].token = req[s].token
  BY DEF Begins, Same, Alike
<1>2. req'[r].pc # "idle"
  BY DEF Begins
<1> QED
  BY <1>1, <1>2 DEF ShapesInv, Busy, At

\* A transaction that goes on or ends keeps the shapes.
LEMMA GoesOnShapes ==
  ASSUME TypeOK, ShapesInv, NEW r \in Reqs,
         StartDelete(r) \/ EndDelete(r) \/ MarkSpent(r) \/ Ends(r)
  PROVE  ShapesInv'
<1>1. CASE StartDelete(r)
  BY <1>1, StartDeleteReq DEF ShapesInv, Busy, At
<1>2. CASE EndDelete(r)
  BY <1>2, EndDeleteReq DEF ShapesInv, Busy, At
<1>3. CASE MarkSpent(r)
  BY <1>3, MarkSpentReq DEF ShapesInv, Busy, At
<1>4. CASE Ends(r)
  BY <1>4 DEF Ends, Alike, ShapesInv, Busy, At
<1> QED
  BY <1>1, <1>2, <1>3, <1>4

\* Every step keeps the shapes.
LEMMA NextShapes == TypeOK /\ ShapesInv /\ [Next]_vars => ShapesInv'
<1> SUFFICES ASSUME TypeOK, ShapesInv, [Next]_vars PROVE ShapesInv'
  OBVIOUS
<1>1. ASSUME NEW r \in Reqs, Register(r) \/ Resend(r) \/ Forgot(r) PROVE ShapesInv'
  BY <1>1, AskBegins, BeginsShapes
<1>2. ASSUME NEW r \in Reqs, NEW t \in Token, Verify(r, t) PROVE ShapesInv'
  BY <1>2, VerifyBegins, BeginsShapes
<1>3. ASSUME NEW r \in Reqs, NEW t \in Token, Reset(r, t) PROVE ShapesInv'
  BY <1>3, ResetBegins, BeginsShapes
<1>4. ASSUME NEW r \in Reqs, NEW good \in BOOLEAN, Login(r, good) PROVE ShapesInv'
  BY <1>4, LoginBegins, BeginsShapes
<1>5. ASSUME NEW r \in Reqs, NEW s \in sessions, NEW spent \in BOOLEAN, Rotate(r, s, spent)
      PROVE  ShapesInv'
  BY <1>5, RotateBegins, BeginsShapes
<1>6. ASSUME NEW r \in Reqs,
             \/ StartDelete(r) \/ EndDelete(r) \/ MarkSpent(r) \/ CommitLink(r) \/ Fail(r)
             \/ CommitVerify(r) \/ CommitReset(r) \/ WrongPassword(r) \/ RightPassword(r)
             \/ CommitRotate(r)
      PROVE  ShapesInv'
  BY <1>6, GoesOnShapes, EndsReq
<1>7. CASE \/ (\E t \in Token : LinkExpires(t)) \/ LockEnds \/ UNCHANGED vars
           \/ \E s \in sessions : SessionEnds(s)
  <2>1. req' = req
    BY <1>7 DEF LinkExpires, LockEnds, SessionEnds, vars
  <2> QED
    BY <2>1 DEF ShapesInv, Busy, At
<1> QED
  BY <1>1, <1>2, <1>3, <1>4, <1>5, <1>6, <1>7 DEF Next

\* The types and shapes hold in every reachable state.
LEMMA TypesAndShapes == Spec => [](TypeOK /\ ShapesInv)
<1>1. Init => TypeOK
  <2> SUFFICES ASSUME Init PROVE TypeOK
    OBVIOUS
  <2>1. 0 \in 0..(MaxFailed - 1) /\ 0 \in 0..MaxTokens /\ 0 \in Nat
    BY BoundAssumption, MaxFailedAssumption
  <2>2. req \in [Reqs -> Request]
    BY FreeRequest DEF Init
  <2>3. TRUE \in BOOLEAN /\ FALSE \in BOOLEAN
    OBVIOUS
  <2>4. user \in [exists : BOOLEAN, verified : BOOLEAN, password : 0..MaxTokens,
                  failed : 0..(MaxFailed - 1), lock : Lock]
    BY <2>1, <2>3 DEF Init, NoToken, Lock
  <2> QED
    BY <2>1, <2>2, <2>3, <2>4 DEF Init, TypeOK, NoToken
<1>2. Init => ShapesInv
  BY DEF Init, ShapesInv, Busy, At, Free
<1> QED
  BY <1>1, <1>2, NextType, NextShapes, PTL DEF Spec

\* Every variable keeps its type; the count of failures never stays at the number
\* that locks the account (services/user_service.py:162-166).
THEOREM AccountsTypeCorrect == Spec => []TypeOK
BY TypesAndShapes, PTL
--------------------------------------------------------------------------------
(* Requests that overlap.                                                  *)

\* A request that begins is alone only if no other one of its sort is under way, and
\* makes those not alone.
LEMMA BeginsAlone ==
  ASSUME TypeOK, AloneInv, NEW r \in Reqs, Begins(r)
  PROVE  AloneInv'
<1> SUFFICES ASSUME NEW p \in Reqs, NEW s \in Reqs, p # s, req'[p].pc # "idle",
                    req'[p].alone, req'[s].pc # "idle", req'[s].op = req'[p].op
             PROVE  FALSE
  BY DEF AloneInv, Busy
<1>1. CASE p = r
  <2>1. req[s].pc # "idle" /\ req[s].op = req'[r].op
    BY <1>1 DEF Begins, Same, Alike
  <2>2. s \in Others(r, req'[r].op)
    BY <1>1, <2>1 DEF Others
  <2> QED
    BY <1>1, <2>2 DEF Begins
<1>2. CASE p # r
  <2>1. req[p].pc # "idle" /\ req[p].op = req'[p].op /\ req[p].alone
    BY <1>2 DEF Begins, Same, Alike
  <2>2. CASE s = r
    BY <1>2, <2>1, <2>2 DEF Begins
  <2>3. CASE s # r
    <3>1. req[s].pc # "idle" /\ req[s].op = req'[s].op
      BY <2>3 DEF Begins, Same, Alike
    <3> QED
      BY <2>1, <3>1 DEF AloneInv, Busy
  <2> QED
    BY <2>2, <2>3
<1> QED
  BY <1>1, <1>2

\* Every step keeps those alone who are.
LEMMA NextAlone == TypeOK /\ AloneInv /\ [Next]_vars => AloneInv'
<1> SUFFICES ASSUME TypeOK, AloneInv, [Next]_vars PROVE AloneInv'
  OBVIOUS
<1>1. ASSUME NEW r \in Reqs, Register(r) \/ Resend(r) \/ Forgot(r) PROVE AloneInv'
  BY <1>1, AskBegins, BeginsAlone
<1>2. ASSUME NEW r \in Reqs, NEW t \in Token, Verify(r, t) PROVE AloneInv'
  BY <1>2, VerifyBegins, BeginsAlone
<1>3. ASSUME NEW r \in Reqs, NEW t \in Token, Reset(r, t) PROVE AloneInv'
  BY <1>3, ResetBegins, BeginsAlone
<1>4. ASSUME NEW r \in Reqs, NEW good \in BOOLEAN, Login(r, good) PROVE AloneInv'
  BY <1>4, LoginBegins, BeginsAlone
<1>5. ASSUME NEW r \in Reqs, StartDelete(r) PROVE AloneInv'
  BY <1>5, StartDeleteReq DEF AloneInv, Busy
<1>6. ASSUME NEW r \in Reqs, EndDelete(r) PROVE AloneInv'
  BY <1>6, EndDeleteReq DEF AloneInv, Busy
<1>7. ASSUME NEW r \in Reqs, Ends(r) PROVE AloneInv'
  BY <1>7 DEF Ends, Alike, AloneInv, Busy
<1>8. ASSUME NEW r \in Reqs, MarkSpent(r) PROVE AloneInv'
  BY <1>8, MarkSpentReq DEF AloneInv, Busy
<1>9. CASE \/ (\E t \in Token : LinkExpires(t)) \/ LockEnds \/ UNCHANGED vars
           \/ \E s \in sessions : SessionEnds(s)
  <2>1. req' = req
    BY <1>9 DEF LinkExpires, LockEnds, SessionEnds, vars
  <2> QED
    BY <2>1 DEF AloneInv, Busy
<1>10. ASSUME NEW r \in Reqs, NEW s \in sessions, NEW spent \in BOOLEAN, Rotate(r, s, spent)
       PROVE  AloneInv'
  BY <1>10, RotateBegins, BeginsAlone
<1> QED
  BY <1>1, <1>2, <1>3, <1>4, <1>5, <1>6, <1>7, <1>8, <1>9, <1>10, EndsReq DEF Next

--------------------------------------------------------------------------------
(* Links.                                                                  *)

\* The next link to be mailed has not been, and is newer than all that have.
LEMMA NextLinkIsNew ==
  ASSUME TypeOK, NumberedInv, issued + 1 \in Token
  PROVE  /\ kind[issued + 1] = "none" /\ row[issued + 1] = "none" /\ uses[issued + 1] = 0
         /\ \A t \in Token : kind[t] # "none" => t < issued + 1
         /\ issued \in 0..MaxTokens
         /\ \A t \in Token : kind[t] # "none" <=> t <= issued
<1>1. PICK n \in 0..MaxTokens : \A t \in Token : kind[t] # "none" <=> t <= n
  BY DEF NumberedInv
<1>2. issued = n
  BY <1>1, IssuedCount
<1>3. kind[issued + 1] = "none"
  BY <1>1, <1>2
<1>4. \A t \in Token : kind[t] # "none" => t < issued + 1
  BY <1>1, <1>2, BoundAssumption DEF Token
<1> QED
  BY <1>1, <1>2, <1>3, <1>4 DEF NumberedInv

\* A request that begins holds nothing but a link nobody else holds.
LEMMA BeginsLinks ==
  ASSUME TypeOK, LinksInv, ShapesInv, NEW r \in Reqs, Begins(r), UNCHANGED linkVars,
         \/ req'[r].op = "mail" /\ req'[r].pc = "ask" /\ req'[r].rows = {} /\ req'[r].held = {}
         \/ /\ req'[r].op \in {"verify", "reset"}
            /\ \E t \in Token : /\ req'[r].held = {t} /\ Lockable(r, t)
                                /\ req'[r].op = "verify" /\ row[t] = "live" => req'[r].valid
         \/ req'[r].op \in {"login", "rotate"} /\ req'[r].held = {}
  PROVE  LinksInv'
<1> USE DEF linkVars
<1>1. ASSUME NEW s \in Reqs \ {r} PROVE Same(req'[s], req[s])
  BY DEF Begins
<1>2. HoldsInv'
  <2>1. ASSUME NEW s \in Reqs, req'[s].op = "mail", req'[s].pc # "idle"
        PROVE  \A t \in req'[s].held \cup req'[s].rows :
                  kind[t] = req'[s].kind /\ kind[t] # "none"
    BY <2>1, <1>1 DEF LinksInv, HoldsInv, Busy, Same, Alike
  <2>2. ASSUME NEW s \in Reqs, NEW t \in req'[s].held PROVE row[t] # "none"
    BY <1>1, <2>2 DEF LinksInv, HoldsInv, Same, Alike, Lockable
  <2>3. \A s \in Reqs \ {r} : req'[s].held = req[s].held
    BY <1>1 DEF Same, Alike
  <2>4. \A s \in Reqs \ {r} : req'[r].held \cap req[s].held = {}
    BY DEF Lockable, HeldByOthers
  <2>5. ASSUME NEW p \in Reqs, NEW s \in Reqs, p # s
        PROVE  req'[p].held \cap req'[s].held = {}
    BY <2>3, <2>4, <2>5 DEF LinksInv, HoldsInv
  <2> QED
    BY <2>1, <2>2, <2>5 DEF HoldsInv, Busy
<1>3. NumberedInv'
  BY DEF LinksInv, NumberedInv
<1>4. ~At(r, "commit", "mail")'
  BY DEF At
<1>5. MailedInv'
  BY <1>1, <1>4 DEF LinksInv, MailedInv, At, Same, Alike
<1>6. ValidInv'
  BY <1>1 DEF LinksInv, ValidInv, Busy, Same, Alike
<1>7. LinksWorkOnce'
  BY DEF LinksInv, LinksWorkOnce
<1> QED
  BY <1>2, <1>3, <1>5, <1>6, <1>7 DEF LinksInv

\* A DELETE that starts has seen rows of the request's kind.
LEMMA StartDeleteLinks ==
  ASSUME TypeOK, LinksInv, NEW r \in Reqs, StartDelete(r)
  PROVE  LinksInv'
<1>1. UNCHANGED linkVars
  BY DEF StartDelete
<1>2. req[r].kind \in Kind
  BY DEF TypeOK, Request
<1>3. \A t \in req'[r].rows : kind[t] = req[r].kind /\ kind[t] # "none"
  BY <1>2, StartDeleteReq DEF Seen, Kind
<1>4. HoldsInv'
  BY <1>1, <1>3, StartDeleteReq DEF LinksInv, HoldsInv, Busy, linkVars
<1>5. NumberedInv' /\ LinksWorkOnce'
  BY <1>1 DEF LinksInv, NumberedInv, LinksWorkOnce, linkVars
<1>6. MailedInv' /\ ValidInv'
  BY <1>1, StartDeleteReq DEF LinksInv, MailedInv, ValidInv, Busy, At, linkVars
<1> QED
  BY <1>4, <1>5, <1>6 DEF LinksInv

\* A DELETE that ends holds rows nobody else holds, and mails a new link.
LEMMA EndDeleteLinks ==
  ASSUME TypeOK, TypeOK', LinksInv, NEW r \in Reqs, EndDelete(r)
  PROVE  LinksInv'
<1>1. row' = row /\ uses' = uses /\ req[r].rows \cap HeldByOthers(r) = {}
  BY DEF EndDelete
<1>2. ASSUME NEW s \in Reqs PROVE req[s].held \subseteq Token /\ req[s].rows \subseteq Token
  BY DEF TypeOK, Request
<1>3. ASSUME NEW t \in Token, kind[t] # "none" PROVE kind'[t] = kind[t]
  BY <1>3, EndDeleteReq, NextLinkIsNew DEF LinksInv, TypeOK
<1>4. \A t \in req'[r].held : row[t] # "none" /\ kind[t] = req[r].kind /\ kind[t] # "none"
  BY EndDeleteReq DEF LinksInv, HoldsInv, Busy
<1>5. req'[r].held \subseteq Token
  BY <1>2, EndDeleteReq
<1>6. HoldsInv'
  <2>1. ASSUME NEW s \in Reqs, req'[s].op = "mail", req'[s].pc # "idle",
               NEW t \in req'[s].held \cup req'[s].rows
        PROVE  kind'[t] = req'[s].kind /\ kind'[t] # "none"
    <3>1. CASE s = r
      BY <2>1, <3>1, <1>3, <1>4, <1>5, EndDeleteReq
    <3>2. CASE s # r
      BY <2>1, <3>2, <1>2, <1>3, EndDeleteReq DEF LinksInv, HoldsInv, Busy
    <3> QED
      BY <3>1, <3>2
  <2>2. ASSUME NEW s \in Reqs, NEW t \in req'[s].held PROVE row'[t] # "none"
    BY <2>2, <1>1, <1>4, EndDeleteReq DEF LinksInv, HoldsInv
  <2>3. \A s \in Reqs \ {r} : req'[r].held \cap req[s].held = {}
    BY <1>1, EndDeleteReq DEF HeldByOthers, LinksInv, HoldsInv
  <2>4. ASSUME NEW p \in Reqs, NEW s \in Reqs, p # s
        PROVE  req'[p].held \cap req'[s].held = {}
    BY <2>3, <2>4, EndDeleteReq DEF LinksInv, HoldsInv
  <2> QED
    BY <2>1, <2>2, <2>4 DEF HoldsInv, Busy
<1>7. CASE req'[r].pc = "ask" /\ kind' = kind
  <2>1. NumberedInv' /\ LinksWorkOnce'
    BY <1>1, <1>7 DEF LinksInv, NumberedInv, LinksWorkOnce
  <2>2. MailedInv' /\ ValidInv'
    BY <1>1, <1>7, EndDeleteReq DEF LinksInv, MailedInv, ValidInv, Busy, At
  <2> QED
    BY <1>6, <2>1, <2>2 DEF LinksInv
<1>8. CASE /\ req'[r].pc = "commit" /\ req'[r].token = issued + 1
           /\ issued + 1 \in Token
           /\ kind' = [kind EXCEPT ![issued + 1] = req[r].kind]
  <2>1. req[r].kind \in Kind /\ req[r].kind # "none"
    BY DEF TypeOK, Request, Kind
  <2>2. /\ kind[issued + 1] = "none" /\ row[issued + 1] = "none" /\ uses[issued + 1] = 0
        /\ \A t \in Token : kind[t] # "none" => t < issued + 1
        /\ issued \in 0..MaxTokens
        /\ \A t \in Token : kind[t] # "none" <=> t <= issued
    BY <1>8, NextLinkIsNew DEF LinksInv
  <2>3. NumberedInv'
    <3>1. issued + 1 \in 0..MaxTokens
      BY <1>8 DEF Token
    <3>2. \A t \in Token : kind'[t] # "none" <=> t <= issued + 1
      BY <1>8, <2>1, <2>2 DEF TypeOK, Token
    <3>3. \A t \in Token : kind'[t] = "none" => kind[t] = "none"
      BY <1>8, <2>1 DEF TypeOK
    <3> QED
      BY <1>1, <3>1, <3>2, <3>3 DEF LinksInv, NumberedInv
  <2>4. ASSUME NEW s \in Reqs \ {r}, req[s].pc = "commit", req[s].op = "mail"
        PROVE  req[s].token # issued + 1
    BY <2>2, <2>4 DEF LinksInv, MailedInv, At, TypeOK, Request, Kind
  <2>5. MailedInv'
    <3>1. /\ kind'[req'[r].token] = req'[r].kind
          /\ row'[req'[r].token] = "none" /\ uses'[req'[r].token] = 0
          /\ \A t \in req'[r].held : t < req'[r].token
      BY <1>1, <1>4, <1>5, <1>8, <2>2, EndDeleteReq DEF TypeOK
    <3>2. ASSUME NEW s \in Reqs \ {r}, req[s].pc = "commit", req[s].op = "mail"
          PROVE  /\ kind'[req[s].token] = req[s].kind
                 /\ row'[req[s].token] = "none" /\ uses'[req[s].token] = 0
                 /\ \A t \in req[s].held : t < req[s].token
      BY <1>1, <1>8, <2>4, <3>2 DEF LinksInv, MailedInv, At, TypeOK
    <3>3. \A s \in Reqs \ {r} : req'[s] = req[s]
      BY EndDeleteReq
    <3> QED
      BY <1>8, <2>4, <3>1, <3>2, <3>3 DEF LinksInv, MailedInv, At
  <2>6. ValidInv' /\ LinksWorkOnce'
    BY <1>1, EndDeleteReq DEF LinksInv, ValidInv, LinksWorkOnce, Busy
  <2> QED
    BY <1>6, <2>3, <2>5, <2>6 DEF LinksInv
<1> QED
  BY <1>7, <1>8, EndDeleteReq

\* A link that is committed was new, and the rows it replaces were held by its
\* request alone.
LEMMA CommitLinkLinks ==
  ASSUME TypeOK, ShapesInv, LinksInv, NEW r \in Reqs, CommitLink(r)
  PROVE  LinksInv'
<1> DEFINE new == req[r].token
           held == req[r].held
<1>1. /\ At(r, "commit", "mail") /\ kind' = kind /\ uses' = uses /\ Finish(r)
      /\ row' = [t \in Token |-> IF t = new THEN "live"
                                 ELSE IF t \in held THEN "none" ELSE row[t]]
  BY DEF CommitLink
<1>2. /\ new \in Token /\ kind[new] # "none" /\ row[new] = "none" /\ uses[new] = 0
      /\ \A t \in held : row[t] # "none"
  BY <1>1 DEF ShapesInv, LinksInv, MailedInv, HoldsInv, TypeOK, Request, Kind
<1>3. ASSUME NEW s \in Reqs \ {r}
      PROVE  /\ req'[s] = req[s]
             /\ req[s].held \cap held = {} /\ req[s].held \subseteq Token
             /\ \A t \in req[s].held : t # new /\ row'[t] = row[t] /\ row[t] # "none"
             /\ At(s, "commit", "mail") => /\ req[s].token \in Token
                                           /\ req[s].token # new
                                           /\ row'[req[s].token] = "none"
  <2>1. req'[s] = req[s]
    BY <1>1, FinishReq
  <2>2. req[s].held \cap held = {} /\ req[s].held \subseteq Token
    BY DEF LinksInv, HoldsInv, TypeOK, Request
  <2>3. \A t \in req[s].held : t # new /\ row'[t] = row[t] /\ row[t] # "none"
    BY <1>1, <1>2, <2>2 DEF LinksInv, HoldsInv
  <2>4. At(s, "commit", "mail") => req[s].token \in Token /\ req[s].token # new
                                     /\ row[req[s].token] = "none"
    BY <1>1 DEF LinksInv, MailedInv, ShapesInv
  <2> QED
    BY <1>1, <2>1, <2>2, <2>3, <2>4
<1>4. req'[r].pc = "idle" /\ req'[r].held = {}
  BY <1>1, FinishReq
<1> HIDE DEF new, held
<1>5. HoldsInv'
  BY <1>1, <1>3, <1>4 DEF LinksInv, HoldsInv, Busy
<1>6. NumberedInv' /\ LinksWorkOnce'
  BY <1>1, <1>2 DEF LinksInv, NumberedInv, LinksWorkOnce
<1>7. MailedInv'
  BY <1>1, <1>3, <1>4 DEF LinksInv, MailedInv, At
<1>8. ValidInv'
  BY <1>3, <1>4 DEF LinksInv, ValidInv, Busy
<1> QED
  BY <1>5, <1>6, <1>7, <1>8 DEF LinksInv

\* A link that is followed had not been used, and nobody else holds it.
LEMMA UseLinks ==
  ASSUME TypeOK, ShapesInv, LinksInv, NEW r \in Reqs, CommitVerify(r) \/ CommitReset(r)
  PROVE  LinksInv'
<1> DEFINE held == req[r].held
<1>1. /\ kind' = kind /\ Finish(r)
      /\ row' = [t \in Token |-> IF t \in held THEN "none" ELSE row[t]]
      /\ \A t \in Token : uses'[t] \in {uses[t], IF t \in held THEN uses[t] + 1 ELSE uses[t]}
  BY DEF CommitVerify, CommitReset
<1>2. \A t \in held : t \in Token /\ row[t] # "none" /\ uses[t] = 0
  BY DEF LinksInv, HoldsInv, NumberedInv, TypeOK, Request
<1>3. ASSUME NEW s \in Reqs \ {r}
      PROVE  /\ req'[s] = req[s]
             /\ req[s].held \cap held = {} /\ req[s].held \subseteq Token
             /\ \A t \in req[s].held : row'[t] = row[t]
             /\ At(s, "commit", "mail") => /\ req[s].token \in Token
                                           /\ req[s].token \notin held
  <2>1. req'[s] = req[s]
    BY <1>1, FinishReq
  <2>2. req[s].held \cap held = {} /\ req[s].held \subseteq Token
    BY DEF LinksInv, HoldsInv, TypeOK, Request
  <2>3. \A t \in req[s].held : row'[t] = row[t]
    BY <1>1, <2>2
  <2>4. At(s, "commit", "mail") => req[s].token \in Token /\ row[req[s].token] = "none"
    BY DEF LinksInv, MailedInv, ShapesInv
  <2> QED
    BY <1>2, <2>1, <2>2, <2>3, <2>4
<1>4. req'[r].pc = "idle" /\ req'[r].held = {}
  BY <1>1, FinishReq
<1>a. \A t \in Token : uses[t] \in Nat
  BY DEF TypeOK
<1> HIDE DEF held
<1>5. HoldsInv'
  BY <1>1, <1>3, <1>4 DEF LinksInv, HoldsInv, Busy
<1>6. NumberedInv'
  BY <1>1, <1>2 DEF LinksInv, NumberedInv
<1>7. LinksWorkOnce'
  BY <1>1, <1>2, <1>a DEF LinksInv, LinksWorkOnce
<1>8. MailedInv'
  BY <1>1, <1>3, <1>4 DEF LinksInv, MailedInv, At
<1>9. ValidInv'
  BY <1>3, <1>4 DEF LinksInv, ValidInv, Busy
<1> QED
  BY <1>5, <1>6, <1>7, <1>8, <1>9 DEF LinksInv

\* A transaction that ends without a trace on links keeps them.
LEMMA FinishLinks ==
  ASSUME TypeOK, LinksInv, NEW r \in Reqs, Ends(r), UNCHANGED <<row, kind, uses>>
  PROVE  LinksInv'
<1>1. HoldsInv' /\ NumberedInv' /\ LinksWorkOnce'
  BY DEF Ends, Alike, LinksInv, HoldsInv, NumberedInv, LinksWorkOnce, Busy
<1>2. MailedInv' /\ ValidInv'
  BY DEF Ends, Alike, LinksInv, MailedInv, ValidInv, Busy, At
<1> QED
  BY <1>1, <1>2 DEF LinksInv

\* So does time.
LEMMA ExpiresLinks ==
  ASSUME TypeOK, LinksInv, NEW t \in Token, LinkExpires(t)
  PROVE  LinksInv'
<1>1. /\ row[t] = "live" /\ row' = [row EXCEPT ![t] = "expired"]
      /\ UNCHANGED <<kind, uses, req>>
  BY DEF LinkExpires
<1>2. \A s \in Token : /\ row'[s] = "none" <=> row[s] = "none"
                       /\ row'[s] = "live" => row[s] = "live"
  BY <1>1 DEF TypeOK
<1>3. \A r \in Reqs : req[r].held \subseteq Token
  BY DEF TypeOK, Request
<1>4. HoldsInv' /\ NumberedInv' /\ LinksWorkOnce'
  BY <1>1, <1>2, <1>3 DEF LinksInv, HoldsInv, NumberedInv, LinksWorkOnce, Busy
<1>5. MailedInv'
  BY <1>1 DEF LinksInv, MailedInv, At, TypeOK
<1>6. ValidInv'
  BY <1>1, <1>2, <1>3 DEF LinksInv, ValidInv, Busy
<1> QED
  BY <1>4, <1>5, <1>6 DEF LinksInv

\* Every step keeps what is known of links.
LEMMA NextLinks == TypeOK /\ TypeOK' /\ ShapesInv /\ LinksInv /\ [Next]_vars => LinksInv'
<1> SUFFICES ASSUME TypeOK, TypeOK', ShapesInv, LinksInv, [Next]_vars PROVE LinksInv'
  OBVIOUS
<1>1. ASSUME NEW r \in Reqs, Register(r) \/ Resend(r) \/ Forgot(r) PROVE LinksInv'
  BY <1>1, AskBegins, BeginsLinks
<1>2. ASSUME NEW r \in Reqs, NEW t \in Token, Verify(r, t) PROVE LinksInv'
  BY <1>2, VerifyBegins, BeginsLinks
<1>3. ASSUME NEW r \in Reqs, NEW t \in Token, Reset(r, t) PROVE LinksInv'
  BY <1>3, ResetBegins, BeginsLinks
<1>4. ASSUME NEW r \in Reqs, NEW good \in BOOLEAN, Login(r, good) PROVE LinksInv'
  BY <1>4, LoginBegins, BeginsLinks
<1>5. ASSUME NEW r \in Reqs,
             Fail(r) \/ WrongPassword(r) \/ RightPassword(r) \/ CommitRotate(r)
      PROVE  LinksInv'
  BY <1>5, EndsReq, FinishLinks
     DEF Fail, Rollback, WrongPassword, RightPassword, CommitRotate, linkVars
<1>6. CASE LockEnds \/ UNCHANGED vars \/ \E s \in sessions : SessionEnds(s)
  <2>1. UNCHANGED <<row, kind, uses, req>>
    BY <1>6 DEF LockEnds, SessionEnds, vars, linkVars
  <2> QED
    BY <2>1 DEF LinksInv, HoldsInv, NumberedInv, MailedInv, ValidInv, LinksWorkOnce, Busy, At
<1>7. ASSUME NEW r \in Reqs, NEW s \in sessions, NEW spent \in BOOLEAN, Rotate(r, s, spent)
      PROVE  LinksInv'
  BY <1>7, RotateBegins, BeginsLinks
<1>8. ASSUME NEW r \in Reqs, MarkSpent(r) PROVE LinksInv'
  <2>1. HoldsInv' /\ NumberedInv' /\ LinksWorkOnce'
    BY <1>8, MarkSpentReq DEF LinksInv, HoldsInv, NumberedInv, LinksWorkOnce, Busy, linkVars
  <2>2. MailedInv' /\ ValidInv'
    BY <1>8, MarkSpentReq DEF LinksInv, MailedInv, ValidInv, Busy, At, linkVars
  <2> QED
    BY <2>1, <2>2 DEF LinksInv
<1> QED
  BY <1>1, <1>2, <1>3, <1>4, <1>5, <1>6, <1>7, <1>8, StartDeleteLinks, EndDeleteLinks,
     CommitLinkLinks, UseLinks, ExpiresLinks DEF Next

\* What is known of links holds in every reachable state.
LEMMA LinksKnown == Spec => []LinksInv
<1>1. Init => LinksInv
  <2> SUFFICES ASSUME Init PROVE LinksInv
    OBVIOUS
  <2>1. \A r \in Reqs : req[r].pc = "idle" /\ req[r].held = {}
    BY DEF Init, Free
  <2>2. NumberedInv
    <3>1. 0 \in 0..MaxTokens /\ \A t \in Token : kind[t] # "none" <=> t <= 0
      BY BoundAssumption DEF Init, Token
    <3> QED
      BY <3>1 DEF Init, NumberedInv
  <2> QED
    BY <2>1, <2>2 DEF Init, LinksInv, HoldsInv, MailedInv, ValidInv, LinksWorkOnce, Busy, At
<1> QED
  BY <1>1, NextLinks, TypesAndShapes, PTL DEF Spec

\* A link works once, however often and at the same time it is followed
\* (services/email_verification.py:87-114, services/password_reset.py:74-104).
THEOREM LinksAreUsedOnce == Spec => []LinksWorkOnce
<1>1. LinksInv => LinksWorkOnce
  BY DEF LinksInv
<1> QED
  BY <1>1, LinksKnown, PTL
--------------------------------------------------------------------------------
(* Links that replace links.                                               *)

\* A link that could be followed is gone only when it was used, or for a newer one
\* of its kind that works: no request that fails takes it away (routers/auth.py:
\* 141-160, services/email_verification.py:65-117, services/password_reset.py:42-64).
THEOREM LinksStayUntilReplaced == Spec => LinksKeptUntilReplaced
<1> DEFINE Kept == \A t \in Token : row[t] = "live" /\ row'[t] = "none" => LinkGone(t)
<1>1. TypeOK /\ ShapesInv /\ LinksInv /\ [Next]_vars => Kept
  <2> SUFFICES ASSUME TypeOK, ShapesInv, LinksInv, [Next]_vars, NEW t \in Token,
                      row[t] = "live", row'[t] = "none"
               PROVE  LinkGone(t)
    OBVIOUS
  <2>1. ASSUME NEW r \in Reqs, CommitLink(r) PROVE LinkGone(t)
    <3>1. /\ At(r, "commit", "mail") /\ row'[req[r].token] = "live" /\ t \in req[r].held
          /\ req[r].token \in Token
      BY <2>1 DEF CommitLink, ShapesInv
    <3>2. kind[t] = req[r].kind /\ kind[req[r].token] = req[r].kind /\ t < req[r].token
      BY <3>1 DEF LinksInv, HoldsInv, MailedInv, At, Busy
    <3> QED
      BY <3>1, <3>2 DEF LinkGone, Token
  <2>2. ASSUME NEW r \in Reqs, CommitVerify(r) PROVE LinkGone(t)
    <3>1. t \in req[r].held
      BY <2>2 DEF CommitVerify
    <3>2. req[r].valid
      BY <2>2, <3>1 DEF CommitVerify, At, Busy, LinksInv, ValidInv
    <3> QED
      BY <2>2, <3>1, <3>2 DEF CommitVerify, LinkGone
  <2>3. ASSUME NEW r \in Reqs, CommitReset(r) PROVE LinkGone(t)
    BY <2>3 DEF CommitReset, LinkGone
  <2>4. ASSUME NEW r \in Reqs, Register(r) \/ Resend(r) \/ Forgot(r) PROVE row' = row
    BY <2>4, AskBegins DEF linkVars
  <2>5. ASSUME NEW r \in Reqs, NEW s \in Token, Verify(r, s) \/ Reset(r, s) PROVE row' = row
    BY <2>5 DEF Verify, Reset, linkVars
  <2>6. ASSUME NEW r \in Reqs,
               \/ StartDelete(r) \/ EndDelete(r) \/ Fail(r) \/ WrongPassword(r)
               \/ RightPassword(r) \/ MarkSpent(r) \/ CommitRotate(r)
        PROVE  row' = row
    BY <2>6 DEF StartDelete, EndDelete, Fail, Rollback, WrongPassword, RightPassword,
       MarkSpent, CommitRotate, linkVars
  <2>7. /\ \A r \in Reqs, good \in BOOLEAN : Login(r, good) => row' = row
        /\ \A r \in Reqs, s \in sessions, spent \in BOOLEAN :
              Rotate(r, s, spent) => row' = row
    BY DEF Login, Rotate, linkVars
  <2>8. ASSUME NEW s \in Token, LinkExpires(s) PROVE FALSE
    BY <2>8 DEF LinkExpires, TypeOK
  <2>9. CASE LockEnds \/ UNCHANGED vars \/ \E s \in sessions : SessionEnds(s)
    BY <2>9 DEF LockEnds, SessionEnds, vars, linkVars
  <2>10. row' # row
    OBVIOUS
  <2> QED
    BY <2>1, <2>2, <2>3, <2>4, <2>5, <2>6, <2>7, <2>8, <2>9, <2>10 DEF Next
<1> QED
  BY <1>1, TypesAndShapes, LinksKnown, PTL DEF Spec, LinksKeptUntilReplaced

ReplacedInv == MissedInv /\ NewestLinkOnly

\* A request that begins has missed nothing yet, and leaves those under way with
\* what they have missed.
LEMMA BeginsReplaced ==
  ASSUME TypeOK, ReplacedInv, NEW r \in Reqs, Begins(r), UNCHANGED linkVars,
         req'[r].op = "mail" => req'[r].pc = "ask"
  PROVE  ReplacedInv'
<1>1. MissedInv'
  <2> SUFFICES ASSUME NEW s \in Reqs, NEW t \in Token,
                      req'[s].op = "mail", req'[s].pc \in {"delete", "commit"},
                      kind[t] = req'[s].kind, row[t] # "none", t \notin req'[s].held,
                      req'[s].pc = "delete" => t \notin req'[s].rows
               PROVE  t \in mixed /\ ~req'[s].alone
    BY DEF MissedInv, Busy, linkVars
  <2>1. s # r
    OBVIOUS
  <2>2. Same(req'[s], req[s]) /\ (req'[s].alone => req[s].alone)
    BY <2>1 DEF Begins
  <2> QED
    BY <2>2 DEF Same, Alike, ReplacedInv, MissedInv, Busy
<1>2. NewestLinkOnly'
  BY DEF ReplacedInv, NewestLinkOnly, linkVars
<1> QED
  BY <1>1, <1>2 DEF ReplacedInv

\* A DELETE misses no row that is there when it starts.
LEMMA DeleteReplaced ==
  ASSUME TypeOK, LinksInv, ReplacedInv, NEW r \in Reqs, StartDelete(r) \/ EndDelete(r)
  PROVE  ReplacedInv'
<1>1. CASE StartDelete(r)
  <2>1. UNCHANGED linkVars
    BY <1>1 DEF StartDelete
  <2>2. MissedInv'
    BY <1>1, <2>1, StartDeleteReq DEF ReplacedInv, MissedInv, Busy, Seen, linkVars
  <2> QED
    BY <2>1, <2>2 DEF ReplacedInv, NewestLinkOnly, linkVars
<1>2. CASE EndDelete(r)
  <2>1. row' = row /\ mixed' = mixed
    BY <1>2 DEF EndDelete
  <2>2. ASSUME NEW t \in Token, row[t] # "none" PROVE kind'[t] = kind[t]
    BY <1>2, <2>2, EndDeleteReq, NextLinkIsNew DEF LinksInv, TypeOK
  <2>3. MissedInv'
    <3> SUFFICES ASSUME NEW s \in Reqs, NEW t \in Token,
                        req'[s].op = "mail", req'[s].pc \in {"delete", "commit"},
                        kind[t] = req'[s].kind, row[t] # "none", t \notin req'[s].held,
                        req'[s].pc = "delete" => t \notin req'[s].rows
                 PROVE  t \in mixed /\ ~req'[s].alone
      BY <2>1, <2>2 DEF MissedInv, Busy
    <3>1. CASE s = r
      BY <1>2, <3>1, EndDeleteReq DEF ReplacedInv, MissedInv, Busy
    <3>2. CASE s # r
      BY <1>2, <3>2, EndDeleteReq DEF ReplacedInv, MissedInv, Busy
    <3> QED
      BY <3>1, <3>2
  <2> QED
    BY <2>1, <2>2, <2>3 DEF ReplacedInv, NewestLinkOnly
<1> QED
  BY <1>1, <1>2

\* A link that is committed without its request being alone is mixed, and so is what
\* that request has missed; one that was alone has missed nothing.
LEMMA CommitReplaced ==
  ASSUME TypeOK, ShapesInv, AloneInv, LinksInv, ReplacedInv, NEW r \in Reqs, CommitLink(r)
  PROVE  ReplacedInv'
<1> DEFINE new == req[r].token
           held == req[r].held
<1>1. /\ At(r, "commit", "mail") /\ kind' = kind /\ Finish(r) /\ new \in Token
      /\ row' = [t \in Token |-> IF t = new THEN "live"
                                 ELSE IF t \in held THEN "none" ELSE row[t]]
      /\ mixed' = IF req[r].alone THEN mixed ELSE mixed \cup {new}
  BY DEF CommitLink, ShapesInv
<1>2. mixed \subseteq mixed' /\ (~req[r].alone => new \in mixed')
  BY <1>1
<1>3. ASSUME NEW t \in Token, t # new, row'[t] # "none" PROVE row[t] # "none" /\ t \notin held
  BY <1>1, <1>3
<1>4. MissedInv'
  <2> SUFFICES ASSUME NEW s \in Reqs, NEW t \in Token,
                      req'[s].op = "mail", req'[s].pc \in {"delete", "commit"},
                      kind[t] = req'[s].kind, row'[t] # "none", t \notin req'[s].held,
                      req'[s].pc = "delete" => t \notin req'[s].rows
               PROVE  t \in mixed' /\ ~req'[s].alone
    BY <1>1 DEF MissedInv, Busy
  <2>1. s # r /\ req'[s] = req[s]
    BY <1>1, FinishReq
  <2>2. CASE t = new
    BY <1>1, <1>2, <2>1, <2>2 DEF AloneInv, Busy, At
  <2>3. CASE t # new
    BY <1>2, <1>3, <2>1, <2>3 DEF ReplacedInv, MissedInv, Busy
  <2> QED
    BY <2>2, <2>3
<1>5. kind[new] = req[r].kind
  BY <1>1 DEF LinksInv, MailedInv
<1>6. ASSUME NEW t \in Token, t # new, row'[t] # "none", kind[t] = kind[new]
      PROVE  t \in mixed' /\ new \in mixed'
  BY <1>1, <1>2, <1>3, <1>5, <1>6 DEF ReplacedInv, MissedInv, Busy, At
<1> HIDE DEF new, held
<1>7. NewestLinkOnly'
  <2> SUFFICES ASSUME NEW s \in Token, NEW t \in Token, s < t, kind[s] = kind[t],
                      row'[s] # "none", row'[t] # "none"
               PROVE  {s, t} \subseteq mixed'
    BY <1>1 DEF NewestLinkOnly
  <2>1. s # t
    BY DEF Token
  <2>2. CASE s = new \/ t = new
    BY <1>6, <2>1, <2>2
  <2>3. CASE s # new /\ t # new
    BY <1>2, <1>3, <2>3 DEF ReplacedInv, NewestLinkOnly
  <2> QED
    BY <2>2, <2>3
<1> QED
  BY <1>4, <1>7 DEF ReplacedInv

\* A transaction that ends without a new row, and time, add nothing to miss.
LEMMA FewerReplaced ==
  ASSUME TypeOK, ReplacedInv, kind' = kind, mixed' = mixed,
         \A t \in Token : row'[t] # "none" => row[t] # "none",
         \/ req' = req
         \/ \E r \in Reqs : Ends(r)
  PROVE  ReplacedInv'
<1>1. ASSUME NEW s \in Reqs, req'[s].pc # "idle"
      PROVE  Alike(req'[s], req[s]) /\ req'[s].alone = req[s].alone
  BY <1>1 DEF Ends, Alike
<1>2. MissedInv'
  BY <1>1 DEF Alike, ReplacedInv, MissedInv, Busy
<1> QED
  BY <1>2 DEF ReplacedInv, NewestLinkOnly

\* Every step keeps what is known of links that replace others.
LEMMA NextReplaced ==
  TypeOK /\ ShapesInv /\ AloneInv /\ LinksInv /\ ReplacedInv /\ [Next]_vars => ReplacedInv'
<1> SUFFICES ASSUME TypeOK, ShapesInv, AloneInv, LinksInv, ReplacedInv, [Next]_vars
             PROVE  ReplacedInv'
  OBVIOUS
<1>1. ASSUME NEW r \in Reqs, Register(r) \/ Resend(r) \/ Forgot(r) PROVE ReplacedInv'
  BY <1>1, AskBegins, BeginsReplaced
<1>2. ASSUME NEW r \in Reqs, NEW t \in Token, Verify(r, t) PROVE ReplacedInv'
  BY <1>2, VerifyBegins, BeginsReplaced
<1>3. ASSUME NEW r \in Reqs, NEW t \in Token, Reset(r, t) PROVE ReplacedInv'
  BY <1>3, ResetBegins, BeginsReplaced
<1>4. ASSUME NEW r \in Reqs, NEW good \in BOOLEAN, Login(r, good) PROVE ReplacedInv'
  BY <1>4, LoginBegins, BeginsReplaced
<1>5. ASSUME NEW r \in Reqs, CommitVerify(r) \/ CommitReset(r) PROVE ReplacedInv'
  BY <1>5, EndsReq, FewerReplaced DEF CommitVerify, CommitReset
<1>6. ASSUME NEW r \in Reqs,
             Fail(r) \/ WrongPassword(r) \/ RightPassword(r) \/ CommitRotate(r)
      PROVE  ReplacedInv'
  BY <1>6, EndsReq, FewerReplaced
     DEF Fail, Rollback, WrongPassword, RightPassword, CommitRotate, linkVars
<1>7. ASSUME NEW t \in Token, LinkExpires(t) PROVE ReplacedInv'
  <2>1. \A s \in Token : row'[s] # "none" => row[s] # "none"
    BY <1>7 DEF LinkExpires, TypeOK
  <2> QED
    BY <1>7, <2>1, FewerReplaced DEF LinkExpires
<1>8. CASE LockEnds \/ UNCHANGED vars \/ \E s \in sessions : SessionEnds(s)
  BY <1>8, FewerReplaced DEF LockEnds, SessionEnds, vars, linkVars
<1>9. ASSUME NEW r \in Reqs, NEW s \in sessions, NEW spent \in BOOLEAN, Rotate(r, s, spent)
      PROVE  ReplacedInv'
  BY <1>9, RotateBegins, BeginsReplaced
<1>10. ASSUME NEW r \in Reqs, MarkSpent(r) PROVE ReplacedInv'
  <2>1. MissedInv'
    BY <1>10, MarkSpentReq DEF ReplacedInv, MissedInv, Busy, linkVars
  <2> QED
    BY <1>10, <2>1, MarkSpentReq DEF ReplacedInv, NewestLinkOnly, linkVars
<1> QED
  BY <1>1, <1>2, <1>3, <1>4, <1>5, <1>6, <1>7, <1>8, <1>9, <1>10, DeleteReplaced,
     CommitReplaced DEF Next

\* Who is alone is alone in every reachable state.
LEMMA AloneKnown == Spec => []AloneInv
<1>1. Init => AloneInv
  BY DEF Init, AloneInv, Busy, Free
<1> QED
  BY <1>1, NextAlone, TypesAndShapes, PTL DEF Spec

\* An account has one link of a kind, a newer one replaces it, unless the requests
\* for the two overlapped (services/email_verification.py:43,
\* services/password_reset.py:42, services/user_service.py:75).
THEOREM OneLinkOfAKind == Spec => []NewestLinkOnly
<1>1. Init => ReplacedInv
  BY DEF Init, ReplacedInv, MissedInv, NewestLinkOnly, Busy, Free
<1>2. ReplacedInv => NewestLinkOnly
  BY DEF ReplacedInv
<1> QED
  BY <1>1, <1>2, NextReplaced, TypesAndShapes, AloneKnown, LinksKnown, PTL DEF Spec
--------------------------------------------------------------------------------
(* Logins and resets.                                                      *)

LoginsInv == CountInv /\ FailuresCounted

\* A request that is no login and leaves the count alone keeps what logins know.
LEMMA OthersLogins ==
  ASSUME TypeOK, LoginsInv, user'.failed = user.failed, UNCHANGED loginVars,
         \A s \in Reqs :
            req'[s].pc # "idle" /\ req'[s].op = "login"
              => /\ req[s].pc # "idle" /\ req[s].op = "login"
                 /\ req'[s].failed = req[s].failed
                 /\ req'[s].alone <=> req[s].alone
  PROVE  LoginsInv'
BY DEF LoginsInv, CountInv, FailuresCounted, Busy, loginVars

\* A login that begins alone keeps the count going; one that does not suspends it.
LEMMA LoginLogins ==
  ASSUME TypeOK, LoginsInv, NEW r \in Reqs, NEW good \in BOOLEAN, Login(r, good)
  PROVE  LoginsInv'
<1>1. /\ Begins(r) /\ req'[r].pc = "commit" /\ req'[r].op = "login"
      /\ req'[r].failed = user.failed /\ user' = user
      /\ alone' => alone /\ Others(r, "login") = {} /\ req'[r].alone
      /\ tries' = IF alone' THEN tries ELSE 0
  BY LoginBegins
<1>2. ASSUME NEW s \in Reqs, s # r, req'[s].pc # "idle", req'[s].op = "login"
      PROVE  /\ req[s].pc # "idle" /\ req[s].op = "login" /\ req'[s].failed = req[s].failed
             /\ req'[s].alone => req[s].alone
             /\ s \in Others(r, "login")
  BY <1>1, <1>2 DEF Begins, Same, Alike, Others
<1>3. CountInv'
  BY <1>1, <1>2 DEF LoginsInv, CountInv, Busy
<1>4. FailuresCounted'
  BY <1>1 DEF LoginsInv, FailuresCounted
<1> QED
  BY <1>3, <1>4 DEF LoginsInv

\* A login that ends was the only one if the account counts on, and then it knew the
\* count.
LEMMA EndedLogins ==
  ASSUME TypeOK, AloneInv, LoginsInv, NEW r \in Reqs, WrongPassword(r) \/ RightPassword(r)
  PROVE  LoginsInv'
<1>1. /\ req[r].pc = "commit" /\ req[r].op = "login" /\ Ends(r)
      /\ req[r].failed \in 0..(MaxFailed - 1) /\ user.failed \in 0..(MaxFailed - 1)
  BY EndsReq DEF WrongPassword, RightPassword, At, TypeOK, Request
<1>2. /\ req[r].alone => req[r].failed = user.failed
      /\ alone => req[r].alone /\ user.failed = tries
  BY <1>1 DEF LoginsInv, CountInv, FailuresCounted, Busy
<1>3. \A s \in Reqs \ {r} : req[r].alone => ~Busy(s, "login")
  BY <1>1 DEF AloneInv
<1>4. \A s \in Reqs \ {r} : Busy(s, "login") => ~req[s].alone
  BY <1>1 DEF AloneInv, Busy
<1>5. /\ \A s \in Reqs \ {r} : Alike(req'[s], req[s]) /\ req'[s].alone = req[s].alone
      /\ req'[r].pc = "idle"
  BY <1>1 DEF Ends
<1>6. alone' => req[r].alone
  BY <1>2 DEF WrongPassword, RightPassword, Recount
<1>7. CountInv'
  <2>1. ASSUME NEW s \in Reqs, Busy(s, "login")'
        PROVE  s # r /\ Busy(s, "login") /\ req'[s].alone = req[s].alone
    BY <2>1, <1>5 DEF Busy, Alike
  <2> QED
    BY <2>1, <1>3, <1>4, <1>6 DEF CountInv
<1>8. FailuresCounted'
  <2>1. CASE WrongPassword(r)
    <3> DEFINE locks == req[r].failed + 1 >= MaxFailed
    <3>1. /\ user'.failed = Failures(req[r].failed + 1)
          /\ alone' = (alone \/ (locks /\ req[r].alone))
          /\ tries' = IF locks \/ ~alone THEN 0 ELSE tries + 1
      BY <2>1 DEF WrongPassword, Recount, TypeOK
    <3>2. Failures(req[r].failed + 1) = IF locks THEN 0 ELSE req[r].failed + 1
      BY DEF Failures
    <3> HIDE DEF locks
    <3>3. CASE locks
      BY <3>1, <3>2, <3>3 DEF FailuresCounted
    <3>4. CASE ~locks
      <4>1. alone' => alone
        BY <3>1, <3>4
      <4> QED
        BY <1>2, <3>1, <3>2, <3>4, <4>1 DEF FailuresCounted
    <3> QED
      BY <3>3, <3>4
  <2>2. CASE RightPassword(r)
    <3>1. /\ user'.failed = IF req[r].failed # 0 THEN 0 ELSE user.failed
          /\ alone' = (alone \/ (TRUE /\ req[r].alone))
          /\ tries' = 0
      BY <2>2 DEF RightPassword, Recount, AfterSuccess, TypeOK
    <3>2. alone' => req[r].failed = user.failed
      BY <1>2, <1>6
    <3> QED
      BY <3>1, <3>2 DEF FailuresCounted
  <2> QED
    BY <2>1, <2>2
<1> QED
  BY <1>7, <1>8 DEF LoginsInv

\* Every step keeps what logins know.
LEMMA NextLogins == TypeOK /\ AloneInv /\ LoginsInv /\ [Next]_vars => LoginsInv'
<1> SUFFICES ASSUME TypeOK, AloneInv, LoginsInv, [Next]_vars PROVE LoginsInv'
  OBVIOUS
<1> DEFINE Keeps == \A s \in Reqs :
             req'[s].pc # "idle" /\ req'[s].op = "login"
               => /\ req[s].pc # "idle" /\ req[s].op = "login"
                  /\ req'[s].failed = req[s].failed
                  /\ req'[s].alone <=> req[s].alone
<1>1. ASSUME NEW r \in Reqs, Begins(r), req'[r].op # "login" PROVE Keeps
  <2> SUFFICES ASSUME NEW s \in Reqs, req'[s].pc # "idle", req'[s].op = "login"
               PROVE  /\ req[s].pc # "idle" /\ req[s].op = "login"
                      /\ req'[s].failed = req[s].failed
                      /\ req'[s].alone <=> req[s].alone
    OBVIOUS
  <2>1. s # r
    BY <1>1
  <2> QED
    BY <1>1, <2>1 DEF Begins, Same, Alike
<1>2. ASSUME NEW r \in Reqs, StartDelete(r) \/ EndDelete(r) \/ MarkSpent(r) \/ Ends(r)
      PROVE  Keeps
  BY <1>2, StartDeleteReq, EndDeleteReq, MarkSpentReq DEF Ends, Alike
<1> HIDE DEF Keeps
<1>3. Keeps /\ user'.failed = user.failed /\ UNCHANGED loginVars => LoginsInv'
  BY OthersLogins DEF Keeps
<1>4. ASSUME NEW r \in Reqs, Register(r) \/ Resend(r) \/ Forgot(r) PROVE LoginsInv'
  BY <1>1, <1>3, <1>4, AskBegins
<1>5. ASSUME NEW r \in Reqs, NEW t \in Token, Verify(r, t) PROVE LoginsInv'
  BY <1>1, <1>3, <1>5, VerifyBegins
<1>6. ASSUME NEW r \in Reqs, NEW t \in Token, Reset(r, t) PROVE LoginsInv'
  BY <1>1, <1>3, <1>6, ResetBegins
<1>7. ASSUME NEW r \in Reqs, StartDelete(r) \/ EndDelete(r) \/ MarkSpent(r) PROVE LoginsInv'
  BY <1>2, <1>3, <1>7 DEF StartDelete, EndDelete, MarkSpent
<1>8. ASSUME NEW r \in Reqs,
             CommitLink(r) \/ CommitVerify(r) \/ CommitReset(r) \/ Fail(r) \/ CommitRotate(r)
      PROVE  LoginsInv'
  <2>1. user'.failed = user.failed /\ UNCHANGED loginVars
    BY <1>8 DEF CommitLink, CommitVerify, CommitReset, Fail, CommitRotate, Rollback, TypeOK
  <2> QED
    BY <1>2, <1>3, <1>8, <2>1, EndsReq
<1>9. CASE \/ (\E t \in Token : LinkExpires(t)) \/ LockEnds \/ UNCHANGED vars
           \/ \E s \in sessions : SessionEnds(s)
  <2>1. user'.failed = user.failed /\ UNCHANGED loginVars /\ req' = req
    BY <1>9 DEF LinkExpires, LockEnds, SessionEnds, vars, loginVars, TypeOK
  <2>2. Keeps
    BY <2>1 DEF Keeps
  <2> QED
    BY <1>3, <2>1, <2>2
<1>10. ASSUME NEW r \in Reqs, NEW s \in sessions, NEW spent \in BOOLEAN, Rotate(r, s, spent)
       PROVE  LoginsInv'
  BY <1>1, <1>3, <1>10, RotateBegins
<1> QED
  BY <1>4, <1>5, <1>6, <1>7, <1>8, <1>9, <1>10, LoginLogins, EndedLogins DEF Next

\* As long as no two logins overlap, exactly the wrong passwords since the last
\* success or lock are counted (services/user_service.py:149-179).
THEOREM WrongPasswordsAreCounted == Spec => []FailuresCounted
<1>1. Init => LoginsInv
  BY DEF Init, LoginsInv, CountInv, FailuresCounted, Busy, Free
<1>2. LoginsInv => FailuresCounted
  BY DEF LoginsInv
<1> QED
  BY <1>1, <1>2, NextLogins, TypesAndShapes, AloneKnown, PTL DEF Spec

SignedOutInv == ResetsInv /\ ResetSignsOut

\* A request that begins or goes on, and leaves the password alone and stores no
\* session, leaves the sessions a reset under way spares those stored meanwhile.
LEMMA OthersSignOut ==
  ASSUME TypeOK, SignedOutInv, sessions' \subseteq sessions, user'.password = user.password,
         \A s \in Reqs :
            req'[s].pc # "idle" /\ req'[s].op = "reset"
              => \/ req'[s].gone = sessions
                 \/ /\ req[s].pc # "idle" /\ req[s].op = "reset"
                    /\ req'[s].gone = req[s].gone
  PROVE  SignedOutInv'
<1>1. ResetsInv'
  BY DEF SignedOutInv, ResetsInv, Busy
<1>2. ResetSignsOut'
  BY DEF SignedOutInv, ResetSignsOut
<1> QED
  BY <1>1, <1>2 DEF SignedOutInv

\* The session of a login or a rotation that ends is marked when a reset is under way
\* or was made since the row it read was written.
LEMMA StoreSignOut ==
  ASSUME TypeOK, ShapesInv, SignedOutInv, NEW r \in Reqs, Store(r),
         user'.password = user.password
  PROVE  SignedOutInv'
<1>1. PICK new \in Session :
         /\ sessions' = sessions \cup {new}
         /\ new.password = req[r].password
         /\ Resetting \/ req[r].password # user.password => new.late
         /\ \A s \in Reqs \ {r} : req'[s].gone = req[s].gone \ {new}
  BY StoreReq
<1>2. ResetSignsOut'
  BY <1>1 DEF SignedOutInv, ResetSignsOut
<1>3. ASSUME NEW s \in Reqs, Busy(s, "reset")'
      PROVE  s # r /\ Busy(s, "reset") /\ new.late
  <2>1. s # r /\ Busy(s, "reset")
    BY <1>3, StoreReq DEF Ends, Alike, Busy
  <2>2. At(s, "commit", "reset")
    BY <2>1 DEF ShapesInv, Busy, At
  <2> QED
    BY <1>1, <2>1, <2>2 DEF Resetting
<1>4. ASSUME NEW s \in Reqs, Busy(s, "reset")', NEW x \in sessions', x \notin req'[s].gone
      PROVE  x.late
  <2>1. CASE x = new
    BY <1>3, <1>4, <2>1
  <2>2. CASE x # new
    BY <1>1, <1>3, <1>4, <2>2 DEF SignedOutInv, ResetsInv
  <2> QED
    BY <2>1, <2>2
<1>5. ResetsInv'
  BY <1>4 DEF ResetsInv
<1> QED
  BY <1>2, <1>5 DEF SignedOutInv

\* A reset leaves only sessions stored while it was under way; those stay marked for
\* the resets still under way.
LEMMA ResetSignOut ==
  ASSUME TypeOK, SignedOutInv, NEW r \in Reqs, CommitReset(r)
  PROVE  SignedOutInv'
<1>1. /\ sessions' = sessions \ req[r].gone /\ Finish(r) /\ Busy(r, "reset")
  BY DEF CommitReset, At, Busy
<1>2. \A s \in sessions' : s.late
  BY <1>1 DEF SignedOutInv, ResetsInv
<1> QED
  BY <1>2 DEF SignedOutInv, ResetsInv, ResetSignsOut

\* Every step keeps what is known of sessions and resets.
LEMMA NextSignOut ==
  TypeOK /\ ShapesInv /\ SignedOutInv /\ [Next]_vars => SignedOutInv'
<1> SUFFICES ASSUME TypeOK, ShapesInv, SignedOutInv, [Next]_vars PROVE SignedOutInv'
  OBVIOUS
<1> DEFINE Keeps == \A s \in Reqs :
             req'[s].pc # "idle" /\ req'[s].op = "reset"
               => \/ req'[s].gone = sessions
                  \/ /\ req[s].pc # "idle" /\ req[s].op = "reset"
                     /\ req'[s].gone = req[s].gone
<1>1. ASSUME NEW r \in Reqs, Begins(r), req'[r].op = "reset" => req'[r].gone = sessions
      PROVE  Keeps
  <2> SUFFICES ASSUME NEW s \in Reqs, req'[s].pc # "idle", req'[s].op = "reset"
               PROVE  \/ req'[s].gone = sessions
                      \/ /\ req[s].pc # "idle" /\ req[s].op = "reset"
                         /\ req'[s].gone = req[s].gone
    OBVIOUS
  <2>1. CASE s = r
    BY <1>1, <2>1
  <2>2. CASE s # r
    BY <1>1, <2>2 DEF Begins, Same, Alike
  <2> QED
    BY <2>1, <2>2
<1>2. ASSUME NEW r \in Reqs, StartDelete(r) \/ EndDelete(r) \/ MarkSpent(r) \/ Finish(r)
      PROVE  Keeps
  BY <1>2, StartDeleteReq, EndDeleteReq, MarkSpentReq, FinishReq
<1> HIDE DEF Keeps
<1>3. Keeps /\ sessions' \subseteq sessions /\ user'.password = user.password => SignedOutInv'
  BY OthersSignOut DEF Keeps
<1>4. ASSUME NEW r \in Reqs, Register(r) \/ Resend(r) \/ Forgot(r) PROVE SignedOutInv'
  BY <1>1, <1>3, <1>4, AskBegins
<1>5. ASSUME NEW r \in Reqs, NEW t \in Token, Verify(r, t) PROVE SignedOutInv'
  BY <1>1, <1>3, <1>5, VerifyBegins
<1>6. ASSUME NEW r \in Reqs, NEW t \in Token, Reset(r, t) PROVE SignedOutInv'
  BY <1>1, <1>3, <1>6, ResetBegins
<1>7. ASSUME NEW r \in Reqs, NEW good \in BOOLEAN, Login(r, good) PROVE SignedOutInv'
  BY <1>1, <1>3, <1>7, LoginBegins
<1>8. ASSUME NEW r \in Reqs, StartDelete(r) \/ EndDelete(r) \/ MarkSpent(r)
      PROVE  SignedOutInv'
  BY <1>2, <1>3, <1>8 DEF StartDelete, EndDelete, MarkSpent
<1>9. ASSUME NEW r \in Reqs, CommitLink(r) \/ CommitVerify(r) \/ Fail(r) \/ WrongPassword(r)
      PROVE  SignedOutInv'
  <2>1. sessions' = sessions /\ user'.password = user.password /\ Finish(r)
    BY <1>9 DEF CommitLink, CommitVerify, Fail, Rollback, WrongPassword, TypeOK
  <2> QED
    BY <1>2, <1>3, <2>1
<1>10. CASE \/ (\E t \in Token : LinkExpires(t)) \/ LockEnds \/ UNCHANGED vars
            \/ \E s \in sessions : SessionEnds(s)
  <2>1. sessions' \subseteq sessions /\ user'.password = user.password /\ req' = req
    BY <1>10 DEF LinkExpires, LockEnds, SessionEnds, vars, TypeOK
  <2>2. Keeps
    BY <2>1 DEF Keeps
  <2> QED
    BY <1>3, <2>1, <2>2
<1>11. ASSUME NEW r \in Reqs, NEW s \in sessions, NEW spent \in BOOLEAN, Rotate(r, s, spent)
       PROVE  SignedOutInv'
  BY <1>1, <1>3, <1>11, RotateBegins
<1>12. ASSUME NEW r \in Reqs, RightPassword(r) \/ CommitRotate(r) PROVE SignedOutInv'
  <2>1. Store(r) /\ user'.password = user.password
    BY <1>12 DEF RightPassword, CommitRotate, AfterSuccess, TypeOK
  <2> QED
    BY <2>1, StoreSignOut
<1> QED
  BY <1>4, <1>5, <1>6, <1>7, <1>8, <1>9, <1>10, <1>11, <1>12, ResetSignOut DEF Next

\* After a password reset every session belongs to the new password, except for those
\* stored by a login or a rotation that had read before the reset committed and ended
\* after its DELETE, and those rotated from these
\* (services/password_reset.py:101-106, services/user_service.py:158-185,
\* auth/tokens.py:235-278).
THEOREM ResetsSignOut == Spec => []ResetSignsOut
<1>1. Init => SignedOutInv
  BY DEF Init, SignedOutInv, ResetsInv, ResetSignsOut, Busy, Free
<1>2. SignedOutInv => ResetSignsOut
  BY DEF SignedOutInv
<1> QED
  BY <1>1, <1>2, NextSignOut, TypesAndShapes, PTL DEF Spec
================================================================================
