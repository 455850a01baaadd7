----------------------------- MODULE SessionTokens -----------------------------
(***************************************************************************)
(* What refresh tokens promise, without requests, rows, cookies or clocks. *)
(* A token comes into the world by a login, or in exchange for a token     *)
(* that was alive when the exchange was granted; it dies once, for         *)
(* whatever reason, and only an exchange granted before keeps it alive.    *)
(***************************************************************************)
EXTENDS Naturals

CONSTANTS
    Slots,      \* exchanges that may be under way at once
    MaxTokens   \* bound on the tokens issued, which are numbered from 1

NoToken == 0   \* an empty slot
--------------------------------------------------------------------------------
VARIABLES
    issued,   \* how many tokens were issued
    alive,    \* the tokens that can be exchanged
    granted   \* granted[s]: the token slot s is about to exchange

vars == <<issued, alive, granted>>

Init ==
    /\ issued = 0
    /\ alive = {}
    /\ granted = [s \in Slots |-> NoToken]

Issue(others) ==
    /\ issued < MaxTokens
    /\ issued' = issued + 1
    /\ alive' = alive \cup {issued + 1} \cup others

Login == Issue({}) /\ UNCHANGED granted

Grant(s, t) ==
    /\ granted[s] = NoToken
    /\ t \in alive
    /\ granted' = [granted EXCEPT ![s] = t]
    /\ UNCHANGED <<issued, alive>>

\* The exchange may leave the token it uses alive for a while, as it was when the
\* exchange was granted.
Exchange(s) ==
    /\ granted[s] # NoToken
    /\ \E others \in SUBSET {granted[s]} : Issue(others)
    /\ granted' = [granted EXCEPT ![s] = NoToken]

GiveUp(s) ==
    /\ granted[s] # NoToken
    /\ granted' = [granted EXCEPT ![s] = NoToken]
    /\ UNCHANGED <<issued, alive>>

\* Used and past its grace period, expired, logged out or revoked.
Die(dead) ==
    /\ alive' = alive \ dead
    /\ UNCHANGED <<issued, granted>>

Next ==
    \/ Login
    \/ \E s \in Slots : \/ \E t \in alive : Grant(s, t)
                        \/ Exchange(s) \/ GiveUp(s)
    \/ \E dead \in SUBSET alive : Die(dead)

Spec == Init /\ [][Next]_vars
================================================================================
