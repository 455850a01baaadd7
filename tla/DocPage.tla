--------------------------------- MODULE DocPage ---------------------------------
(***************************************************************************)
(* The documents page: the list it loads when it is opened, and the        *)
(* polling of a document that is not settled (documents/page.tsx,          *)
(* documents.api.ts).  It sees the status of the document through requests *)
(* that take their time and may fail.                                      *)
(***************************************************************************)
EXTENDS Naturals, DocLifecycle

CONSTANT
    HardTimeout  \* POLL_HARD_TIMEOUT_MS, in rounds of polling

ASSUME HardTimeoutAssumption == HardTimeout \in Nat
--------------------------------------------------------------------------------
VARIABLES
    page,      \* the page is open
    list,      \* GET /documents: "none", "asked", or the answer on its way
    card,      \* the status the page shows for the document; "none": no card
    poll,      \* pollDocumentStatus: "off", "round" (before a request), "asked",
               \* "sleep", or the answer on its way
    elapsed,   \* rounds since it started
    aborted,   \* its signal
    notice,    \* pollingErrors: "taking longer than expected"
    deleting   \* DELETE /documents/{id}: "none", "asked", or the answer on its way

pageVars == <<page, list, card, poll, elapsed, aborted, notice, deleting>>

\* The answers: the document, 404 (or a list without it), or an error.
Answer == DocumentStatus \cup {"missing", "error"}
Asks(s) == {"error", IF Exists THEN s ELSE "missing"}

Closed == /\ page' = FALSE /\ list' = "none" /\ card' = "none"
          /\ poll' = "off" /\ elapsed' = 0 /\ aborted' = FALSE
          /\ notice' = FALSE /\ deleting' = "none"

PageInit == /\ page = FALSE /\ list = "none" /\ card = "none"
            /\ poll = "off" /\ elapsed = 0 /\ aborted = FALSE
            /\ notice = FALSE /\ deleting = "none"
--------------------------------------------------------------------------------
(* Plausible mistakes, each in the place of the definition named in its    *)
(* comment; no specification of this module uses them.                     *)

\* For GivesUp: the loop ends without a word.
GivesUpSilently == poll' = "off" /\ UNCHANGED <<list, card, elapsed, notice>>

\* For Wake: an answer starts the time anew.
WakeAnew == /\ poll = "sleep" /\ poll' = "round" /\ elapsed' = 0
            /\ UNCHANGED <<page, list, card, aborted, notice, deleting, status>>

\* For Shown: an error is shown as if it were the document.
ShownUnchecked(s) == IF card = "none" \/ s = "missing" THEN "none" ELSE s
--------------------------------------------------------------------------------
OpenPage ==
    /\ ~page
    /\ page' = TRUE /\ list' = "asked"
    /\ UNCHANGED <<card, poll, elapsed, aborted, notice, deleting, status>>

\* Unmounting aborts the polling; what is still under way is not shown any more.
ClosePage == page /\ Closed /\ UNCHANGED status

ListAnswered ==
    /\ list = "asked"
    /\ list' \in Asks(status)
    /\ UNCHANGED <<page, card, poll, elapsed, aborted, notice, deleting, status>>

\* setDocuments, and the effect on documents, which starts the polling of what is
\* not settled, once for as long as the page is open.
ShowList ==
    /\ list \in Answer
    /\ list' = "none"
    /\ card' = IF list \in DocumentStatus THEN list ELSE "none"
    /\ poll' = IF list \in Unsettled THEN "round" ELSE "off"
    /\ UNCHANGED <<page, elapsed, aborted, notice, deleting, status>>

GivesUp == poll' = "off" /\ notice' = TRUE /\ UNCHANGED <<list, card, elapsed>>

\* The top of the loop.
PollRound ==
    /\ poll = "round"
    /\ IF aborted \/ elapsed >= HardTimeout THEN GivesUp
       ELSE poll' = "asked" /\ UNCHANGED <<list, card, elapsed, notice>>
    /\ UNCHANGED <<page, aborted, deleting, status>>

PollAnswered ==
    /\ poll = "asked"
    /\ poll' \in Asks(status)
    /\ UNCHANGED <<page, list, card, elapsed, aborted, notice, deleting, status>>

\* The card after an answer: onUpdate changes one that is still there, and an error
\* changes nothing.
Shown(s) == IF card = "none" \/ s = "missing" THEN "none"
            ELSE IF s = "error" THEN card ELSE s

\* READY, FAILED and 404 end the loop, other errors are swallowed.
ShowStatus ==
    /\ poll \in Answer
    /\ card' = Shown(poll)
    /\ poll' = IF poll \in {"READY", "FAILED", "missing"} THEN "off" ELSE "sleep"
    /\ UNCHANGED <<page, list, elapsed, aborted, notice, deleting, status>>

\* A round takes as long as its requests and the interval.
Wake ==
    /\ poll = "sleep"
    /\ poll' = "round"
    /\ elapsed' \in (elapsed + 1)..HardTimeout \cup {HardTimeout}
    /\ UNCHANGED <<page, list, card, aborted, notice, deleting, status>>

ClickDelete ==
    /\ card # "none" /\ deleting = "none"
    /\ deleting' = "asked"
    /\ UNCHANGED <<page, list, card, poll, elapsed, aborted, notice, status>>

\* The server deletes the document, finds none, or fails.
DeleteAnswered ==
    /\ deleting = "asked"
    /\ \/ Delete /\ deleting' \in {"ok", "error"}
       \/ ~Exists /\ deleting' = "missing" /\ UNCHANGED status
       \/ deleting' = "error" /\ UNCHANGED status
    /\ UNCHANGED <<page, list, card, poll, elapsed, aborted, notice>>

\* The card goes with the document.  Polling is aborted, but not after a 404: a
\* pause ends at once, a request goes on to the next round.
ShowDeleted ==
    /\ deleting \in {"ok", "missing", "error"}
    /\ deleting' = "none"
    /\ card' = IF deleting = "error" THEN card ELSE "none"
    /\ IF deleting = "ok" /\ poll # "off"
       THEN IF poll = "sleep" THEN poll' = "off" /\ UNCHANGED aborted
            ELSE aborted' = TRUE /\ UNCHANGED poll
       ELSE UNCHANGED <<poll, aborted>>
    /\ UNCHANGED <<page, list, elapsed, notice, status>>

Polling == PollRound \/ PollAnswered \/ ShowStatus \/ Wake

PageNext ==
    \/ OpenPage \/ ClosePage \/ ListAnswered \/ ShowList
    \/ Polling
    \/ ClickDelete \/ DeleteAnswered \/ ShowDeleted

PageTypeOK ==
    /\ page \in BOOLEAN
    /\ list \in {"none", "asked"} \cup Answer
    /\ card \in {"none"} \cup DocumentStatus
    /\ poll \in {"off", "round", "asked", "sleep"} \cup Answer
    /\ elapsed \in 0..HardTimeout
    /\ aborted \in BOOLEAN /\ notice \in BOOLEAN
    /\ deleting \in {"none", "asked", "ok", "missing", "error"}

\* A card that shows a spinner is being polled, or tells the user that it is not
\* any more: the polling never ends silently, whatever was answered, lost or
\* deleted meanwhile (documents/page.tsx:255-296, 302-348, documents.api.ts:386-420).
SpinnersEnd == card \in Unsettled /\ poll = "off" => notice

\* Polling ends, also when every answer is an error or the status never changes
\* (documents.api.ts:391-419).
PollingEnds == (poll # "off") ~> (poll = "off")
================================================================================
