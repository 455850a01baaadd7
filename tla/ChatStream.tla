------------------------------- MODULE ChatStream -------------------------------
(***************************************************************************)
(* One chat: questions and their streamed answers (routers/query.py), the  *)
(* changes to a chat (services/chats.py) and the tab that shows it         *)
(* (ChatContext.tsx, query.api.ts).                                        *)
(*                                                                         *)
(* An ask is two transactions: the first one stores the question, the      *)
(* second one, after the stream has ended, its answer.  created_at is      *)
(* now(), the start of the transaction, and not its commit.  The tab shows *)
(* what it has sent and received under temporary ids, until a reload after *)
(* the stream has ended brings the rows.  A request of the tab may fail, or *)
(* be done and its reply lost: the tab cannot tell, and shows what it did. *)
(***************************************************************************)
EXTENDS Naturals

CONSTANTS
    MaxAsks      \* bound on the questions asked, numbered from 1

ASSUME BoundAssumption == MaxAsks \in Nat

Ask     == 1..MaxAsks
NoAsk   == 0
Message == Ask \X {"question", "answer"}
--------------------------------------------------------------------------------
VARIABLES
    chat,      \* is there a row of chats
    title,     \* "new" (New Chat), "asked" (from a question) or "named" by the user;
               \* "none" without a chat
    stored,    \* the rows of messages
    created,   \* created[m]: their created_at
    clock,     \* the last created_at
    ask,       \* ask[a]: the request and its stream on the server
    cut,       \* a truncation between its SELECT and its DELETE: what it deletes
               \* from; 0: none
    deleting,  \* the tab waits to hear that the chat is deleted: "open" or "closed",
               \* as the chat was in the tab when the user asked for it; "none"
    open,      \* the chat is the active one of the tab
    shown,     \* the rows it shows
    temp,      \* the asks it shows under temporary ids
    tab,       \* tab[a]: the tab's end of the stream; "done": closed after [DONE]
    streaming, \* isStreaming
    abortable, \* the ask that abortController belongs to
    load,      \* load[l]: the reload after ask l is done; NoAsk: opening the chat
    beside,    \* history: asks that began or read while another one was under way
    orphaned,  \* history: asks whose stream was going on during a truncation
    unread,    \* history: rows stored since the last reload read them
    stale      \* history: "maybe": rows were deleted during a reload, there were two
               \* reloads at once, or a reply was lost; "mending": the same, but now a
               \* reload is under way with nothing of the kind; "no"

rowVars    == <<chat, title, stored, created, clock>>
changeVars == <<cut, deleting>>
viewVars   == <<open, shown, temp, tab, streaming, abortable, load>>
histVars   == <<beside, orphaned, unread, stale>>
vars == <<chat, title, stored, created, clock, ask, cut, deleting, open, shown, temp,
          tab, streaming, abortable, load, beside, orphaned, unread, stale>>

\* pc: "sent" by the tab, then the first transaction: "begun", and "read" the chat
\* and its messages; then the "stream", and "save".  unnamed: the title was "New
\* Chat"; seen: the history for the prompt; content: a token arrived; last: the
\* terminal event that was sent.
NotAsked == [pc |-> "none", unnamed |-> FALSE, seen |-> {}, content |-> FALSE,
             last |-> "none"]
NoLoad   == [pc |-> "none", rows |-> {}]

Loads == Ask \cup {NoAsk}

Init ==
    /\ chat = TRUE /\ title = "new"
    /\ stored = {} /\ created = [m \in Message |-> 0] /\ clock = 0
    /\ ask = [a \in Ask |-> NotAsked]
    /\ cut = 0 /\ deleting = "none"
    /\ open = TRUE /\ shown = {} /\ temp = {}
    /\ tab = [a \in Ask |-> "none"]
    /\ streaming = FALSE /\ abortable = NoAsk
    /\ load = [l \in Loads |-> NoLoad]
    /\ beside = {} /\ orphaned = {} /\ unread = {} /\ stale = "no"

At(a, pc) == ask[a].pc = pc

UnderWay == {a \in Ask : ask[a].pc \in {"begun", "read", "stream", "save"}}
Loading  == \E l \in Loads : load[l].pc # "none"

Ended == [NotAsked EXCEPT !.pc = "ended"]

\* Rows are deleted; a reload under way may have read them.
Deletes(rows) ==
    /\ stored' = stored \ rows
    /\ stale' = IF Loading THEN "maybe" ELSE stale

\* GET /chats/{id} is sent.
Reloads(l) ==
    /\ load' = [load EXCEPT ![l].pc = "sent"]
    /\ stale' = IF Loading THEN "maybe" ELSE IF stale = "maybe" THEN "mending" ELSE stale

\* An event that is sent to a tab that has closed its end is lost.
Tell(a, event) == IF tab[a] = "open" THEN event ELSE "none"
--------------------------------------------------------------------------------
(* Plausible mistakes, each in the place of the definition named in its    *)
(* comment; no specification of this module uses them.                     *)

\* For AnswerTime: the answer is part of the first transaction.
AnswerTimeOfAsk(a) == created[<<a, "question">>]

\* For From: the message alone, not what came after it.
FromOnly(t) == {m \in stored : created[m] = t}

\* For Reloaded: the reload adds what it read to what is shown already.
ReloadedOnTop(rows) == open' = TRUE /\ shown' = shown \cup rows /\ UNCHANGED temp

\* For TimesOut: the timeout is for the first token alone.
TimesOutAtFirst(a) == At(a, "stream") /\ ~ask[a].content

\* For AfterStream: an ask that got no token is still to be saved.
AfterStreamAlways(a, last) == [ask EXCEPT ![a].pc = "save", ![a].last = last,
                                          ![a].seen = {}]
--------------------------------------------------------------------------------
(* The server: POST /query/ask.                                            *)

\* The first transaction starts with the query for the user; from now on the
\* question has its created_at.
AskBegin(a) ==
    /\ At(a, "sent")
    /\ ask' = [ask EXCEPT ![a].pc = "begun"]
    /\ clock' = clock + 1
    /\ created' = [created EXCEPT ![<<a, "question">>] = clock + 1]
    /\ beside' = IF UnderWay = {} THEN beside ELSE beside \cup UnderWay \cup {a}
    /\ UNCHANGED <<chat, title, stored, changeVars, viewVars, orphaned, unread, stale>>

\* The ask is refused, or fails, before anything is stored: no chat, no document
\* that is READY, daily limits, retrieval.  The tab gets an HTTP error.
Refused(a) ==
    /\ ask' = [ask EXCEPT ![a] = [Ended EXCEPT !.last = Tell(a, "error")]]
    /\ UNCHANGED <<rowVars, changeVars, viewVars, histVars>>

\* validate_chat_for_query and what follows up to the prompt.
AskRead(a) ==
    /\ At(a, "begun")
    /\ \/ Refused(a)
       \/ /\ chat
          /\ ask' = [ask EXCEPT ![a].pc = "read", ![a].unnamed = (title = "new"),
                                ![a].seen = stored]
          /\ UNCHANGED <<rowVars, changeVars, viewVars, histVars>>

\* The question is stored, and the title, if it was not named when it was read.
\* Without its chat the INSERT fails on the foreign key.
AskCommit(a) ==
    /\ At(a, "read")
    /\ \/ ~chat /\ Refused(a)
       \/ /\ chat
          /\ stored' = stored \cup {<<a, "question">>}
          /\ title' = IF ask[a].unnamed THEN "asked" ELSE title
          /\ ask' = [ask EXCEPT ![a].pc = "stream", ![a].unnamed = FALSE]
          /\ unread' = unread \cup {<<a, "question">>}
          /\ UNCHANGED <<chat, created, clock, changeVars, viewVars, beside, orphaned, stale>>

StreamToken(a) ==
    /\ At(a, "stream") /\ ~ask[a].content
    /\ ask' = [ask EXCEPT ![a].content = TRUE]
    /\ UNCHANGED <<rowVars, changeVars, viewVars, histVars>>

\* finally: an answer without any content is not saved.
AfterStream(a, last) ==
    IF ask[a].content
    THEN [ask EXCEPT ![a].pc = "save", ![a].last = last]
    ELSE [ask EXCEPT ![a] = [Ended EXCEPT !.last = last, !.seen = ask[a].seen]]

\* The model has finished; [DONE] is sent before the answer is saved.  Errors of
\* the accounting after the last token send [DONE] all the same.
StreamDone(a) ==
    /\ At(a, "stream")
    /\ ask' = AfterStream(a, Tell(a, "done"))
    /\ UNCHANGED <<rowVars, changeVars, viewVars, histVars>>

\* No token for STREAM_CHUNK_TIMEOUT seconds, or any other error.
TimesOut(a) == At(a, "stream")

StreamFails(a) ==
    /\ TimesOut(a)
    /\ ask' = AfterStream(a, Tell(a, "error"))
    /\ UNCHANGED <<rowVars, changeVars, viewVars, histVars>>

\* The tab is gone: the generator is closed, or cancelled in the middle of a call,
\* and then the saving is cancelled, too.
StreamCancelled(a) ==
    /\ At(a, "stream") /\ tab[a] = "closed"
    /\ \/ ask' = AfterStream(a, "none")
       \/ ask' = [ask EXCEPT ![a] = [Ended EXCEPT !.seen = ask[a].seen]]
    /\ UNCHANGED <<rowVars, changeVars, viewVars, histVars>>

\* When the second transaction starts.
AnswerTime(a) == clock + 1

\* Without its chat the INSERT fails on the foreign key; nobody is told.
SaveAnswer(a) ==
    /\ At(a, "save")
    /\ ask' = [ask EXCEPT ![a] = [Ended EXCEPT !.last = ask[a].last, !.seen = ask[a].seen]]
    /\ LET m == <<a, "answer">> IN
       IF chat THEN /\ clock' = clock + 1
                    /\ created' = [created EXCEPT ![m] = AnswerTime(a)]
                    /\ stored' = stored \cup {m}
                    /\ unread' = unread \cup {m}
       ELSE UNCHANGED <<clock, created, stored, unread>>
    /\ UNCHANGED <<chat, title, changeVars, viewVars, beside, orphaned, stale>>
--------------------------------------------------------------------------------
(* The server: changes to the chat.                                        *)

Rename ==
    /\ chat /\ title # "named"
    /\ title' = "named"
    /\ UNCHANGED <<chat, stored, created, clock, ask, changeVars, viewVars, histVars>>

\* deleteChat, from the list of chats; the messages go with the chat.  Since the user
\* asked for it the chat may have been opened or left.  A request that fails before
\* it commits changes nothing.
DeleteChat ==
    /\ chat
    /\ chat' = FALSE /\ title' = "none" /\ unread' = {}
    /\ Deletes(stored)
    /\ deleting' \in {"open", "closed"}
    /\ UNCHANGED <<created, clock, ask, cut, viewVars, beside, orphaned>>

\* The tab shows no chat if it showed this one when the deletion was asked for.
DeleteAnswered ==
    /\ deleting # "none"
    /\ deleting' = "none"
    /\ IF deleting = "open" THEN open' = FALSE /\ shown' = {} /\ temp' = {}
                            ELSE UNCHANGED <<open, shown, temp>>
    /\ stale' = IF open /\ deleting = "closed" THEN "maybe" ELSE stale
    /\ UNCHANGED <<rowVars, ask, cut, tab, streaming, abortable, load, beside, orphaned,
                   unread>>

\* The reply is lost: the catch leaves the view.
DeleteLost ==
    /\ deleting # "none"
    /\ deleting' = "none"
    /\ stale' = "maybe"
    /\ UNCHANGED <<rowVars, ask, cut, viewVars, beside, orphaned, unread>>

\* retryMessage: DELETE /chats/{id}/messages/{id} of a question that is shown with
\* its id looks up its created_at.  The dialog that asks for confirmation does not
\* mind a stream.
Retry(a) ==
    /\ open /\ cut = 0
    /\ \E b \in Ask : ask[b].pc = "none"
    /\ <<a, "question">> \in shown \cap stored
    /\ cut' = created[<<a, "question">>]
    /\ UNCHANGED <<rowVars, ask, deleting, viewVars, histVars>>

\* The rows from there on, by created_at.
From(t) == {m \in stored : created[m] >= t}

\* The truncation commits; an answer that is streamed loses its question.
CommitTruncation ==
    /\ cut # 0
    /\ orphaned' = orphaned \cup {b \in Ask : ask[b].pc \in {"stream", "save"}}
    /\ cut' = 0
--------------------------------------------------------------------------------
(* The tab.                                                                *)

\* sendMessage: the question and an empty answer are shown, and streamAnswer runs.
Sends(a) ==
    /\ ask[a].pc = "none"
    /\ \A b \in Ask : b < a => ask[b].pc # "none"
    /\ ask' = [ask EXCEPT ![a].pc = "sent"]
    /\ tab' = [tab EXCEPT ![a] = "open"]
    /\ streaming' = TRUE /\ abortable' = a

Send(a) ==
    /\ open /\ ~streaming
    /\ cut # 0 => a < MaxAsks
    /\ Sends(a)
    /\ temp' = temp \cup {a}
    /\ UNCHANGED <<rowVars, changeVars, open, shown, load, histVars>>

\* The truncation is answered: the tab drops what it has shown from there on, if it
\* still shows the question, and sends the question again to the same chat, even
\* if it is not the active one any more.
Truncated(a) ==
    /\ CommitTruncation /\ Deletes(From(cut))
    /\ Sends(a)
    /\ LET here == \E m \in shown : created[m] = cut IN
       /\ shown' = IF here THEN {m \in shown : created[m] < cut} ELSE shown
       /\ temp' = IF open THEN (IF here THEN {} ELSE temp) \cup {a} ELSE temp
    /\ UNCHANGED <<chat, title, created, clock, deleting, open, load, beside, unread>>

\* The reply of a truncation is lost: the catch leaves the view and sends nothing.
TruncationLost ==
    /\ CommitTruncation /\ stored' = stored \ From(cut)
    /\ stale' = "maybe"
    /\ UNCHANGED <<chat, title, created, clock, ask, deleting, viewVars, beside, unread>>

\* It fails and nothing is deleted.
TruncationFails ==
    /\ cut # 0
    /\ cut' = 0
    /\ UNCHANGED <<rowVars, ask, deleting, viewVars, histVars>>

\* The tab closes its end; what is shown stays.  A request that has not reached the
\* server does not any more when the connection breaks.
Closes(a, how, here) ==
    /\ tab[a] = "open"
    /\ tab' = [tab EXCEPT ![a] = how]
    /\ ask' = [ask EXCEPT ![a].last = "none", ![a].pc = IF here THEN @ ELSE "ended"]
    /\ streaming' = FALSE /\ abortable' = NoAsk

Abort ==
    /\ abortable # NoAsk
    /\ Closes(abortable, "closed", TRUE)
    /\ UNCHANGED <<rowVars, changeVars, open, shown, temp, load, histVars>>

ConnectionBreaks(a) ==
    /\ Closes(a, "closed", ~At(a, "sent"))
    /\ UNCHANGED <<rowVars, changeVars, open, shown, temp, load, histVars>>

ReceiveError(a) ==
    /\ ask[a].last = "error"
    /\ Closes(a, "closed", TRUE)
    /\ UNCHANGED <<rowVars, changeVars, open, shown, temp, load, histVars>>

\* "done": the chat is loaded again, whatever the tab shows by now.
ReceiveDone(a) ==
    /\ ask[a].last = "done"
    /\ Closes(a, "done", TRUE)
    /\ Reloads(a)
    /\ UNCHANGED <<rowVars, changeVars, open, shown, temp, beside, orphaned, unread>>

\* The user leaves for another chat or none.
Leave ==
    /\ open
    /\ open' = FALSE /\ shown' = {} /\ temp' = {}
    /\ UNCHANGED <<rowVars, ask, changeVars, tab, streaming, abortable, load, histVars>>

\* The user comes back.
Open ==
    /\ ~open /\ load[NoAsk].pc = "none"
    /\ Reloads(NoAsk)
    /\ UNCHANGED <<rowVars, ask, changeVars, open, shown, temp, tab, streaming, abortable,
                   beside, orphaned, unread>>

LoadRead(l) ==
    /\ chat /\ load[l].pc = "sent"
    /\ load' = [load EXCEPT ![l] = [pc |-> "read", rows |-> stored]]
    /\ unread' = {}
    /\ UNCHANGED <<rowVars, ask, changeVars, open, shown, temp, tab, streaming, abortable,
                   beside, orphaned, stale>>

\* setActiveChat(chat): it replaces all that was shown.
Reloaded(rows) == open' = TRUE /\ shown' = rows /\ temp' = {}

LoadDone(l) ==
    /\ load[l].pc = "read"
    /\ Reloaded(load[l].rows)
    /\ load' = [load EXCEPT ![l] = NoLoad]
    /\ stale' = IF stale = "mending" THEN "no" ELSE stale
    /\ UNCHANGED <<rowVars, ask, changeVars, tab, streaming, abortable, beside, orphaned,
                   unread>>

\* The chat is gone, the request fails or its reply is lost: the catch leaves what is
\* shown.
LoadFails(l) ==
    /\ load[l].pc # "none"
    /\ load' = [load EXCEPT ![l] = NoLoad]
    /\ stale' = "maybe"
    /\ UNCHANGED <<rowVars, ask, changeVars, open, shown, temp, tab, streaming, abortable,
                   beside, orphaned, unread>>
--------------------------------------------------------------------------------
\* What the server and the network do for an ask once it was sent.
Serve(a) ==
    \/ AskBegin(a) \/ AskRead(a) \/ AskCommit(a)
    \/ StreamFails(a) \/ SaveAnswer(a)
Hear(a) == ReceiveError(a) \/ ReceiveDone(a)

Next ==
    \/ \E a \in Ask :
          \/ Serve(a) \/ StreamToken(a) \/ StreamDone(a) \/ StreamCancelled(a)
          \/ Send(a) \/ Retry(a) \/ Truncated(a) \/ Hear(a) \/ ConnectionBreaks(a)
    \/ Rename \/ DeleteChat \/ DeleteAnswered \/ DeleteLost
    \/ TruncationLost \/ TruncationFails \/ Abort \/ Leave \/ Open
    \/ \E l \in Loads : LoadRead(l) \/ LoadDone(l) \/ LoadFails(l)

Spec == Init /\ [][Next]_vars

FairSpec == Spec /\ \A a \in Ask : WF_vars(Serve(a)) /\ WF_vars(Hear(a))
--------------------------------------------------------------------------------
(* Properties.                                                             *)

AskPC == {"none", "sent", "begun", "read", "stream", "save", "ended"}

\* Every variable has its type; an ask that is to be saved has something to save
\* (routers/query.py:301-318).
TypeOK ==
    /\ chat \in BOOLEAN /\ title \in {"new", "asked", "named", "none"}
    /\ stored \in SUBSET Message
    /\ created \in [Message -> Nat] /\ clock \in Nat
    /\ ask \in [Ask -> [pc : AskPC, unnamed : BOOLEAN, seen : SUBSET Message,
                        content : BOOLEAN, last : {"none", "done", "error"}]]
    /\ \A a \in Ask : At(a, "save") => ask[a].content
    /\ cut \in Nat /\ deleting \in {"none", "open", "closed"}
    /\ open \in BOOLEAN /\ shown \in SUBSET Message /\ temp \in SUBSET Ask
    /\ tab \in [Ask -> {"none", "open", "closed", "done"}]
    /\ streaming \in BOOLEAN /\ abortable \in Loads
    /\ load \in [Loads -> [pc : {"none", "sent", "read"}, rows : SUBSET Message]]
    /\ beside \in SUBSET Ask /\ orphaned \in SUBSET Ask
    /\ unread \in SUBSET Message /\ stale \in {"no", "maybe", "mending"}

\* Sorted by created_at, a chat reads as it was held: an answer comes after its
\* question, and a question after all that its prompt had for a history, unless it
\* was asked while another one was being answered; nothing is left of a chat that
\* was deleted (models/message.py:50-52, routers/query.py:77-107, 301-318).
ReadsAsHeld ==
    /\ ~chat => stored = {}
    /\ \A a \in Ask :
          /\ {<<a, "question">>, <<a, "answer">>} \subseteq stored
                => created[<<a, "question">>] < created[<<a, "answer">>]
          /\ a \notin beside => \A m \in ask[a].seen :
                created[m] < created[<<a, "question">>]

\* No answer is stored without its question, unless a truncation took the question
\* away while the answer was streamed (services/chats.py:143-154,
\* routers/query.py:301-318).
AnswersHaveQuestions ==
    \A a \in Ask : <<a, "answer">> \in stored /\ a \notin orphaned
                      => <<a, "question">> \in stored

\* When nothing is under way, a tab shows what is stored, but for what was stored
\* since the last reload, which may be the very answer that it was for: the server
\* saves it after [DONE].  Temporary ids are left over only of asks that were not
\* done.  Excepted is a tab that had two reloads at once, or one while rows were
\* deleted, that has lost the reply of a reload, a truncation or a deletion, or that
\* opened the chat while it was being deleted, up to a reload with none of that
\* (ChatContext.tsx:65-74, 90-101, 141-147, 188-199, 210-242).
Settled == /\ stale = "no" /\ cut = 0 /\ deleting = "none" /\ ~Loading
           /\ \A a \in Ask : ask[a].pc \in {"none", "ended"} /\ tab[a] # "open"
ShowsWhatIsStored ==
    open /\ Settled =>
        /\ shown \subseteq stored
        /\ stored \ shown \subseteq unread
        /\ \A a \in Ask : tab[a] = "done" => a \notin temp /\ <<a, "question">> \notin unread

\* Every ask ends, whatever the model does, and the tab is ready for another one: once
\* something is asked, a time comes when no ask is under way, as there are only
\* MaxAsks of them (routers/query.py:149-158, ChatContext.tsx:188-207).
AsksEnd ==
    streaming \/ (\E a \in Ask : At(a, "sent"))
        ~> ~streaming /\ \A a \in Ask : ask[a].pc \in {"none", "ended"}
================================================================================
