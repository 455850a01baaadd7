---------------------------- MODULE ChatStreamProofs ----------------------------
(***************************************************************************)
(* Proofs about ChatStream for any number of questions.                    *)
(***************************************************************************)
EXTENDS ChatStream, TLAPS

Question(a) == <<a, "question">>
Answer(a)   == <<a, "answer">>
--------------------------------------------------------------------------------
(* What the properties rest on.                                            *)

\* The rows of S have been stored: a question by the first transaction of its ask,
\* an answer by the second one, which is the last thing an ask does.
Written(S) ==
    \A a \in Ask :
        /\ Question(a) \in S => ask[a].pc \in {"stream", "save", "ended"}
        /\ Answer(a) \in S => ask[a].pc = "ended"

WrittenInv ==
    /\ Written(stored)
    /\ \A a \in Ask : Written(ask[a].seen)
    /\ \A a \in Ask : ask[a].pc \in {"none", "sent", "begun"} => ask[a].seen = {}

\* No row is younger than the clock.
ClockInv == \A m \in Message : created[m] <= clock

\* Asks under way at the same time are beside each other.
BesideInv == \A a, b \in UnderWay : a # b => a \in beside

\* All that is stored when an ask reads is older than its question, unless another
\* ask is, or was, under way with it.
HistoryInv ==
    \A a \in Ask \ beside : At(a, "begun") => \A m \in stored : created[m] < created[Question(a)]

TimesInv == WrittenInv /\ ClockInv /\ BesideInv /\ HistoryInv /\ ReadsAsHeld

\* The question of an ask that streams is there, unless a truncation took it.
QuestionsInv ==
    \A a \in Ask \ orphaned :
        chat /\ ask[a].pc \in {"stream", "save"} => Question(a) \in stored

\* A tab that does not show the chat shows none of its rows; it was told that an
\* answer is done only when the stream had ended.
TabInv ==
    /\ ~open => shown = {} /\ temp = {}
    /\ \A a \in Ask : ask[a].last = "done" \/ tab[a] = "done" => ask[a].pc \in {"save", "ended"}

\* What the tab shows, and what its reloads have read, was stored once.
SeenInv == Written(shown) /\ \A l \in Loads : Written(load[l].rows)

\* The question a truncation deletes from is one of S.
CutIn(S) == cut # 0 => \E m \in S : created[m] = cut

\* It is there as long as the chat is.
CutInv == chat => CutIn(stored)

\* A reload that nothing interferes with is the only one.  What it has read is there,
\* and what it has not read but is there was not shown and was stored since; it has
\* the questions of the asks that were done.
ReloadInv ==
    stale # "maybe" =>
        /\ \A k, l \in Loads : k # l => load[k].pc = "none" \/ load[l].pc = "none"
        /\ \A l \in Loads : load[l].pc = "read" =>
              /\ chat /\ load[l].rows \subseteq stored /\ CutIn(load[l].rows)
              /\ stored \ load[l].rows \subseteq unread
              /\ shown \cap stored \subseteq load[l].rows
              /\ \A a \in Ask : tab[a] = "done" => Question(a) \notin unread

\* A view that is not stale: a chat that is gone is shown no longer than until the tab
\* hears of it; what is shown is there, and what is missing was stored since; the
\* temporary ids of an ask that was done are gone with the reload after it.
FreshInv ==
    stale = "no" =>
        /\ ~chat /\ open => deleting # "none"
        /\ chat => shown \subseteq stored
        /\ chat /\ open => CutIn(shown) /\ (~Loading => stored \ shown \subseteq unread)
        /\ \A a \in Ask : tab[a] = "done" /\ load[a].pc = "none"
              => a \notin temp /\ Question(a) \notin unread

ViewInv == TabInv /\ CutInv /\ ReloadInv /\ FreshInv
--------------------------------------------------------------------------------
(* What the steps of an ask do to it.                                      *)

AskRecord == [pc : AskPC, unnamed : BOOLEAN, seen : SUBSET Message, content : BOOLEAN,
              last : {"none", "done", "error"}]

\* Ask a, which was at from, goes on with a well-formed record; no other ask does.
Goes(a, from) ==
    /\ ask[a].pc = from
    /\ ask' \in [Ask -> AskRecord] /\ \A b \in Ask \ {a} : ask'[b] = ask[b]
    /\ ask'[a].pc = "save" => ask'[a].content

\* An ask that ended has a well-formed record.
LEMMA EndedRecord ==
  Ended \in AskRecord /\ Ended.pc = "ended" /\ Ended.seen = {} /\ Ended.last = "none"
BY DEF Ended, NotAsked, AskRecord, AskPC

\* What is said to a tab is an event.
LEMMA TellType ==
  ASSUME NEW a \in Ask, NEW event \in {"done", "error"}
  PROVE  Tell(a, event) \in {"none", event}
BY DEF Tell

\* The first transaction begins.
LEMMA BeginAsk ==
  ASSUME TypeOK, NEW a \in Ask, AskBegin(a)
  PROVE  /\ Goes(a, "sent") /\ ask'[a].pc = "begun" /\ ask'[a].seen = ask[a].seen
         /\ ask'[a].last = ask[a].last
<1>1. ask[a] \in AskRecord /\ ask \in [Ask -> AskRecord]
  BY DEF TypeOK, AskRecord
<1>2. ask[a].pc = "sent" /\ ask' = [ask EXCEPT ![a].pc = "begun"]
  BY DEF AskBegin, At
<1> QED
  BY <1>1, <1>2 DEF Goes, AskRecord, AskPC

\* A request that is refused has stored nothing and its tab is told.
LEMMA RefusedAsk ==
  ASSUME TypeOK, NEW a \in Ask, Refused(a)
  PROVE  /\ Goes(a, ask[a].pc) /\ ask'[a].pc = "ended" /\ ask'[a].seen = {}
         /\ ask'[a].last \in {"none", "error"}
<1> DEFINE last == Tell(a, "error")
<1>1. ask \in [Ask -> AskRecord]
  BY DEF TypeOK, AskRecord
<1>2. ask' = [ask EXCEPT ![a] = [Ended EXCEPT !.last = last]]
  BY DEF Refused
<1>3. last \in {"none", "error"}
  BY TellType
<1> HIDE DEF last
<1> DEFINE new == [Ended EXCEPT !.last = last]
<1>4. new \in AskRecord /\ new.pc = "ended" /\ new.seen = {} /\ new.last = last
  BY <1>3, EndedRecord DEF AskRecord
<1>5. ask' = [ask EXCEPT ![a] = new]
  BY <1>2
<1> HIDE DEF new
<1> QED
  BY <1>1, <1>3, <1>4, <1>5 DEF Goes

\* The first transaction reads, or the request is refused.
LEMMA ReadAsk ==
  ASSUME TypeOK, NEW a \in Ask, AskRead(a), ~Refused(a)
  PROVE  /\ Goes(a, "begun") /\ ask'[a].pc = "read" /\ ask'[a].seen = stored
         /\ ask'[a].last = ask[a].last
<1> DEFINE new == (title = "new")
<1>1. ask[a] \in AskRecord /\ ask \in [Ask -> AskRecord] /\ stored \in SUBSET Message
  BY DEF TypeOK, AskRecord
<1>2. /\ ask[a].pc = "begun"
      /\ ask' = [ask EXCEPT ![a].pc = "read", ![a].unnamed = new, ![a].seen = stored]
  BY DEF AskRead, At
<1>3. new \in BOOLEAN
  OBVIOUS
<1> HIDE DEF new
<1> QED
  BY <1>1, <1>2, <1>3 DEF Goes, AskRecord, AskPC

\* The first transaction commits, or the request is refused for want of its chat.
LEMMA CommitAsk ==
  ASSUME TypeOK, NEW a \in Ask, AskCommit(a), chat
  PROVE  /\ Goes(a, "read") /\ ask'[a].pc = "stream" /\ ask'[a].seen = ask[a].seen
         /\ ask'[a].last = ask[a].last
<1>1. ask[a] \in AskRecord /\ ask \in [Ask -> AskRecord]
  BY DEF TypeOK, AskRecord
<1>2. ask[a].pc = "read" /\ ask' = [ask EXCEPT ![a].pc = "stream", ![a].unnamed = FALSE]
  BY DEF AskCommit, At
<1> QED
  BY <1>1, <1>2 DEF Goes, AskRecord, AskPC

\* After the stream an ask is to be saved, or it ends; it keeps what it has seen.
LEMMA AfterStreamAsk ==
  ASSUME TypeOK, NEW a \in Ask, At(a, "stream"), NEW last \in {"none", "done", "error"},
         \/ ask' = AfterStream(a, last)
         \/ ask' = [ask EXCEPT ![a] = [Ended EXCEPT !.last = last, !.seen = ask[a].seen]]
         \/ last = "none" /\ ask' = [ask EXCEPT ![a] = [Ended EXCEPT !.seen = ask[a].seen]]
  PROVE  /\ Goes(a, "stream") /\ ask'[a].pc \in {"save", "ended"}
         /\ ask'[a].seen = ask[a].seen /\ ask'[a].last = last
<1>1. ask[a] \in AskRecord /\ ask \in [Ask -> AskRecord] /\ ask[a].seen \in SUBSET Message
  BY DEF TypeOK, AskRecord
<1>2. CASE ask[a].content /\ ask' = [ask EXCEPT ![a].pc = "save", ![a].last = last]
  BY <1>1, <1>2 DEF Goes, AskRecord, AskPC, At
<1>3. CASE ask' = [ask EXCEPT ![a] = [Ended EXCEPT !.last = last, !.seen = ask[a].seen]]
  <2> DEFINE new == [Ended EXCEPT !.last = last, !.seen = ask[a].seen]
  <2>1. new \in AskRecord /\ new.pc = "ended" /\ new.seen = ask[a].seen /\ new.last = last
    BY <1>1, EndedRecord DEF AskRecord
  <2>2. ask' = [ask EXCEPT ![a] = new]
    BY <1>3
  <2> HIDE DEF new
  <2> QED
    BY <1>1, <2>1, <2>2 DEF Goes, At
<1>4. CASE last = "none" /\ ask' = [ask EXCEPT ![a] = [Ended EXCEPT !.seen = ask[a].seen]]
  <2> DEFINE new == [Ended EXCEPT !.seen = ask[a].seen]
  <2>1. new \in AskRecord /\ new.pc = "ended" /\ new.seen = ask[a].seen /\ new.last = last
    BY <1>1, <1>4, EndedRecord DEF AskRecord
  <2>2. ask' = [ask EXCEPT ![a] = new]
    BY <1>4
  <2> HIDE DEF new
  <2> QED
    BY <1>1, <2>1, <2>2 DEF Goes, At
<1> QED
  BY <1>2, <1>3, <1>4 DEF AfterStream

\* The stream ends: the tab may be told, and only that it is done if it was.
LEMMA StreamAsk ==
  ASSUME TypeOK, NEW a \in Ask, StreamDone(a) \/ StreamFails(a) \/ StreamCancelled(a)
  PROVE  /\ Goes(a, "stream") /\ ask'[a].pc \in {"save", "ended"}
         /\ ask'[a].seen = ask[a].seen
<1>1. At(a, "stream")
  BY DEF StreamDone, StreamFails, StreamCancelled, TimesOut
<1>2. CASE StreamDone(a)
  BY <1>1, <1>2, TellType, AfterStreamAsk DEF StreamDone
<1>3. CASE StreamFails(a)
  BY <1>1, <1>3, TellType, AfterStreamAsk DEF StreamFails
<1>4. CASE StreamCancelled(a)
  BY <1>1, <1>4, AfterStreamAsk DEF StreamCancelled
<1> QED
  BY <1>2, <1>3, <1>4

\* A token arrives.
LEMMA TokenAsk ==
  ASSUME TypeOK, NEW a \in Ask, StreamToken(a)
  PROVE  /\ Goes(a, "stream") /\ ask'[a].pc = "stream" /\ ask'[a].seen = ask[a].seen
         /\ ask'[a].last = ask[a].last
<1>1. ask[a] \in AskRecord /\ ask \in [Ask -> AskRecord]
  BY DEF TypeOK, AskRecord
<1>2. ask[a].pc = "stream" /\ ask' = [ask EXCEPT ![a].content = TRUE]
  BY DEF StreamToken, At
<1> QED
  BY <1>1, <1>2 DEF Goes, AskRecord

\* The second transaction is the last thing an ask does.
LEMMA SaveAsk ==
  ASSUME TypeOK, NEW a \in Ask, SaveAnswer(a)
  PROVE  /\ Goes(a, "save") /\ ask'[a].pc = "ended" /\ ask'[a].seen = ask[a].seen
         /\ ask'[a].last = ask[a].last
<1> DEFINE new == [Ended EXCEPT !.last = ask[a].last, !.seen = ask[a].seen]
<1>1. /\ ask \in [Ask -> AskRecord] /\ ask[a].seen \in SUBSET Message
      /\ ask[a].last \in {"none", "done", "error"}
  BY DEF TypeOK, AskRecord
<1>2. ask[a].pc = "save" /\ ask' = [ask EXCEPT ![a] = new]
  BY DEF SaveAnswer, At
<1>3. /\ new \in AskRecord /\ new.pc = "ended" /\ new.seen = ask[a].seen
      /\ new.last = ask[a].last
  BY <1>1, EndedRecord DEF AskRecord
<1> HIDE DEF new
<1> QED
  BY <1>1, <1>2, <1>3 DEF Goes

\* It stores the answer, if there still is a chat.
LEMMA SaveRows ==
  ASSUME NEW a \in Ask, SaveAnswer(a), chat
  PROVE  /\ clock' = clock + 1
         /\ created' = [created EXCEPT ![Answer(a)] = clock + 1]
         /\ stored' = stored \cup {Answer(a)}
         /\ unread' = unread \cup {Answer(a)}
BY DEF SaveAnswer, Answer, AnswerTime

\* An ask is sent.
LEMMA SendsAsk ==
  ASSUME TypeOK, NEW a \in Ask, Sends(a)
  PROVE  /\ Goes(a, "none") /\ ask'[a].pc = "sent" /\ ask'[a].seen = ask[a].seen
         /\ ask'[a].last = ask[a].last
<1>1. ask[a] \in AskRecord /\ ask \in [Ask -> AskRecord]
  BY DEF TypeOK, AskRecord
<1>2. ask[a].pc = "none" /\ ask' = [ask EXCEPT ![a].pc = "sent"]
  BY DEF Sends
<1> QED
  BY <1>1, <1>2 DEF Goes, AskRecord, AskPC

\* The tab closes its end; a request that had not arrived never will.
LEMMA ClosesAsk ==
  ASSUME TypeOK, NEW a \in Ask, NEW how, NEW here \in BOOLEAN, Closes(a, how, here)
  PROVE  /\ Goes(a, ask[a].pc) /\ ask'[a].pc = IF here THEN ask[a].pc ELSE "ended"
         /\ ask'[a].seen = ask[a].seen /\ ask'[a].last = "none"
<1>1. ask[a] \in AskRecord /\ ask \in [Ask -> AskRecord] /\ (ask[a].pc = "save" => ask[a].content)
  BY DEF TypeOK, AskRecord, At
<1>2. ask' = [ask EXCEPT ![a].last = "none", ![a].pc = IF here THEN ask[a].pc ELSE "ended"]
  BY <1>1 DEF Closes
<1> QED
  BY <1>1, <1>2 DEF Goes, AskRecord, AskPC
--------------------------------------------------------------------------------
(* Types.                                                                  *)

\* The record of an ask that goes on is well formed, and one that is to be saved has
\* something to save.
LEMMA GoesType ==
  ASSUME TypeOK, NEW a \in Ask, NEW from, Goes(a, from)
  PROVE  ask' \in [Ask -> AskRecord] /\ \A b \in Ask : ask'[b].pc = "save" => ask'[b].content
BY DEF Goes, TypeOK, At

\* The server's steps keep the types.
LEMMA ServerType ==
  ASSUME TypeOK, NEW a \in Ask,
         \/ AskBegin(a) \/ AskRead(a) \/ AskCommit(a) \/ StreamToken(a) \/ StreamDone(a)
         \/ StreamFails(a) \/ StreamCancelled(a) \/ SaveAnswer(a)
  PROVE  TypeOK'
<1> USE DEF viewVars, histVars, rowVars, changeVars
<1>1. Question(a) \in Message /\ Answer(a) \in Message
  BY DEF Question, Answer, Message
<1> DEFINE AskOK == /\ ask' \in [Ask -> AskRecord]
                    /\ \A b \in Ask : ask'[b].pc = "save" => ask'[b].content
<1>2. CASE AskBegin(a)
  <2>1. AskOK
    BY <1>2, BeginAsk, GoesType
  <2>2. created' \in [Message -> Nat] /\ clock' \in Nat /\ beside' \in SUBSET Ask
    BY <1>1, <1>2 DEF AskBegin, TypeOK, UnderWay, Question
  <2> HIDE DEF AskOK
  <2> QED
    BY <1>2, <2>1, <2>2 DEF AskBegin, TypeOK, AskRecord, At, AskOK
<1>3. CASE Refused(a)
  <2>1. AskOK
    BY <1>3, RefusedAsk, GoesType
  <2> QED
    BY <1>3, <2>1 DEF Refused, TypeOK, AskRecord, At
<1>4. CASE AskRead(a) /\ ~Refused(a)
  <2>1. AskOK
    BY <1>4, ReadAsk, GoesType
  <2> QED
    BY <1>4, <2>1 DEF AskRead, TypeOK, AskRecord, At
<1>5. CASE AskCommit(a) /\ chat
  <2>1. AskOK
    BY <1>5, CommitAsk, GoesType
  <2>2. stored' \in SUBSET Message /\ unread' \in SUBSET Message
    BY <1>1, <1>5 DEF AskCommit, TypeOK, Question
  <2> HIDE DEF AskOK
  <2> QED
    BY <1>5, <2>1, <2>2 DEF AskCommit, TypeOK, AskRecord, At, AskOK
<1>6. CASE StreamToken(a)
  <2>1. AskOK
    BY <1>6, TokenAsk, GoesType
  <2> QED
    BY <1>6, <2>1 DEF StreamToken, TypeOK, AskRecord, At
<1>7. CASE StreamDone(a) \/ StreamFails(a) \/ StreamCancelled(a)
  <2>1. AskOK
    BY <1>7, StreamAsk, GoesType
  <2> QED
    BY <1>7, <2>1 DEF StreamDone, StreamFails, StreamCancelled, TypeOK, AskRecord, At
<1>8. CASE SaveAnswer(a)
  <2>1. AskOK
    BY <1>8, SaveAsk, GoesType
  <2>2. /\ created' \in [Message -> Nat] /\ clock' \in Nat
        /\ stored' \in SUBSET Message /\ unread' \in SUBSET Message
    <3>1. CASE chat
      <4>1. /\ clock' = clock + 1 /\ created' = [created EXCEPT ![Answer(a)] = clock + 1]
            /\ stored' = stored \cup {Answer(a)} /\ unread' = unread \cup {Answer(a)}
        BY <1>8, <3>1, SaveRows
      <4>2. /\ created \in [Message -> Nat] /\ clock \in Nat
            /\ stored \in SUBSET Message /\ unread \in SUBSET Message
        BY DEF TypeOK
      <4> QED
        BY <1>1, <4>1, <4>2
    <3>2. CASE ~chat
      BY <1>8, <3>2 DEF SaveAnswer, TypeOK
    <3> QED
      BY <3>1, <3>2
  <2> HIDE DEF AskOK
  <2> QED
    BY <1>8, <2>1, <2>2 DEF SaveAnswer, TypeOK, AskRecord, At, AskOK
<1> QED
  BY <1>2, <1>3, <1>4, <1>5, <1>6, <1>7, <1>8 DEF AskRead, AskCommit

\* The steps of the tab keep the types.
LEMMA TabType ==
  ASSUME TypeOK,
         \/ \E a \in Ask : \/ Send(a) \/ Retry(a) \/ Truncated(a) \/ Hear(a)
                           \/ ConnectionBreaks(a)
         \/ Abort
  PROVE  TypeOK'
<1> USE DEF viewVars, histVars, rowVars, changeVars
<1> DEFINE AskOK == /\ ask' \in [Ask -> AskRecord]
                    /\ \A b \in Ask : ask'[b].pc = "save" => ask'[b].content
<1>1. ASSUME NEW a \in Ask, Sends(a)
      PROVE  /\ AskOK /\ tab' \in [Ask -> {"none", "open", "closed", "done"}]
             /\ streaming' \in BOOLEAN /\ abortable' \in Loads
  BY <1>1, SendsAsk, GoesType DEF Sends, TypeOK, Loads
<1>2. ASSUME NEW a \in Ask, NEW how \in {"closed", "done"}, NEW here \in BOOLEAN,
             Closes(a, how, here)
      PROVE  /\ AskOK /\ tab' \in [Ask -> {"none", "open", "closed", "done"}]
             /\ streaming' \in BOOLEAN /\ abortable' \in Loads
  BY <1>2, ClosesAsk, GoesType DEF Closes, TypeOK, Loads
<1> HIDE DEF AskOK
<1>3. ASSUME NEW a \in Ask, Send(a) PROVE TypeOK'
  <2>1. temp' \in SUBSET Ask
    BY <1>3 DEF Send, TypeOK
  <2> QED
    BY <1>1, <1>3, <2>1 DEF Send, TypeOK, AskOK, AskRecord, At
<1>4. ASSUME NEW a \in Ask, Retry(a) PROVE TypeOK'
  <2>1. cut' \in Nat
    BY <1>4 DEF Retry, TypeOK, Message
  <2> QED
    BY <1>4, <2>1 DEF Retry, TypeOK, At
<1>5. ASSUME NEW a \in Ask, Truncated(a) PROVE TypeOK'
  <2>1. /\ stored' \in SUBSET Message /\ orphaned' \in SUBSET Ask
        /\ shown' \in SUBSET Message /\ temp' \in SUBSET Ask
    BY <1>5 DEF Truncated, CommitTruncation, Deletes, TypeOK
  <2>2. stale' \in {"no", "maybe", "mending"}
    BY <1>5 DEF Truncated, Deletes, TypeOK
  <2>3. /\ AskOK /\ tab' \in [Ask -> {"none", "open", "closed", "done"}]
        /\ streaming' \in BOOLEAN /\ abortable' \in Loads
    BY <1>1, <1>5 DEF Truncated
  <2>4. /\ cut' = 0
        /\ UNCHANGED <<chat, title, created, clock, deleting, open, load, beside, unread>>
    BY <1>5 DEF Truncated, CommitTruncation
  <2> QED
    BY <2>1, <2>2, <2>3, <2>4 DEF TypeOK, AskOK, AskRecord, At
<1>6. ASSUME NEW a \in Ask, ReceiveError(a) \/ ConnectionBreaks(a) PROVE TypeOK'
  <2>1. PICK here \in BOOLEAN : Closes(a, "closed", here)
    BY <1>6 DEF ReceiveError, ConnectionBreaks
  <2>2. /\ AskOK /\ tab' \in [Ask -> {"none", "open", "closed", "done"}]
        /\ streaming' \in BOOLEAN /\ abortable' \in Loads
    BY <1>2, <2>1
  <2>3. UNCHANGED <<rowVars, changeVars, open, shown, temp, load, histVars>>
    BY <1>6 DEF ReceiveError, ConnectionBreaks
  <2> QED
    BY <2>2, <2>3 DEF TypeOK, AskOK, AskRecord, At
<1>7. ASSUME NEW a \in Ask, ReceiveDone(a) PROVE TypeOK'
  <2>1. load' \in [Loads -> [pc : {"none", "sent", "read"}, rows : SUBSET Message]]
    BY <1>7, ZenonT(30) DEF ReceiveDone, Reloads, TypeOK
  <2>2. stale' \in {"no", "maybe", "mending"}
    BY <1>7 DEF ReceiveDone, Reloads, TypeOK
  <2> QED
    BY <1>2, <1>7, <2>1, <2>2 DEF ReceiveDone, TypeOK, AskOK, AskRecord, At
<1>8. CASE Abort
  <2>1. abortable \in Ask
    BY <1>8 DEF Abort, TypeOK, Loads
  <2> QED
    BY <1>2, <1>8, <2>1 DEF Abort, TypeOK, AskOK, AskRecord, At
<1> QED
  BY <1>3, <1>4, <1>5, <1>6, <1>7, <1>8 DEF Hear

\* So do the changes to the chat, and its loads.
LEMMA ChatType ==
  ASSUME TypeOK,
         \/ Rename \/ DeleteChat \/ DeleteAnswered \/ DeleteLost
         \/ TruncationLost \/ TruncationFails \/ Leave \/ Open
         \/ \E l \in Loads : LoadRead(l) \/ LoadDone(l) \/ LoadFails(l)
  PROVE  TypeOK'
<1> USE DEF viewVars, histVars, rowVars, changeVars, At
<1> DEFINE LoadOK == load' \in [Loads -> [pc : {"none", "sent", "read"}, rows : SUBSET Message]]
<1>1. CASE Rename \/ TruncationFails \/ Leave
  <2>1. CASE Rename
    BY <2>1 DEF Rename, TypeOK
  <2>2. CASE TruncationFails
    BY <2>2 DEF TruncationFails, TypeOK
  <2>3. CASE Leave
    BY <2>3 DEF Leave, TypeOK
  <2> QED
    BY <1>1, <2>1, <2>2, <2>3
<1>2. CASE DeleteChat
  <2>1. stored' \in SUBSET Message /\ stale' \in {"no", "maybe", "mending"}
    BY <1>2 DEF DeleteChat, Deletes, TypeOK
  <2> QED
    BY <1>2, <2>1 DEF DeleteChat, TypeOK
<1>3. CASE DeleteAnswered \/ DeleteLost
  BY <1>3 DEF DeleteAnswered, DeleteLost, TypeOK
<1>4. CASE TruncationLost
  <2>1. stored' \in SUBSET Message /\ orphaned' \in SUBSET Ask /\ cut' = 0
    BY <1>4 DEF TruncationLost, CommitTruncation, TypeOK
  <2> QED
    BY <1>4, <2>1 DEF TruncationLost, TypeOK
<1>5. CASE Open
  <2>1. LoadOK
    BY <1>5, ZenonT(30) DEF Open, Reloads, TypeOK
  <2>2. stale' \in {"no", "maybe", "mending"}
    BY <1>5 DEF Open, Reloads, TypeOK
  <2> QED
    BY <1>5, <2>1, <2>2 DEF Open, TypeOK
<1>6. ASSUME NEW l \in Loads, LoadRead(l) PROVE TypeOK'
  <2>1. LoadOK
    BY <1>6 DEF LoadRead, TypeOK
  <2> QED
    BY <1>6, <2>1 DEF LoadRead, TypeOK
<1>7. ASSUME NEW l \in Loads, LoadDone(l) PROVE TypeOK'
  <2>1. LoadOK /\ shown' \in SUBSET Message
    BY <1>7 DEF LoadDone, TypeOK, NoLoad, Reloaded
  <2> QED
    BY <1>7, <2>1 DEF LoadDone, TypeOK, Reloaded
<1>8. ASSUME NEW l \in Loads, LoadFails(l) PROVE TypeOK'
  <2>1. LoadOK
    BY <1>8 DEF LoadFails, TypeOK, NoLoad
  <2> QED
    BY <1>8, <2>1 DEF LoadFails, TypeOK
<1> QED
  BY <1>1, <1>2, <1>3, <1>4, <1>5, <1>6, <1>7, <1>8

\* Every variable keeps its type; an ask that is to be saved has something to save
\* (routers/query.py:301-318).
THEOREM ChatTypeCorrect == Spec => []TypeOK
<1>1. ASSUME Init PROVE TypeOK
  <2>1. /\ NotAsked \in AskRecord /\ NotAsked.pc = "none"
        /\ NoLoad \in [pc : {"none", "sent", "read"}, rows : SUBSET Message]
        /\ NoAsk \in Loads /\ 0 \in Nat /\ TRUE \in BOOLEAN /\ FALSE \in BOOLEAN
    BY DEF NotAsked, NoLoad, NoAsk, Loads, AskRecord, AskPC
  <2>2. ask \in [Ask -> AskRecord] /\ \A a \in Ask : ~At(a, "save")
    BY <1>1, <2>1 DEF Init, At
  <2>3. /\ created \in [Message -> Nat] /\ tab \in [Ask -> {"none", "open", "closed", "done"}]
        /\ load \in [Loads -> [pc : {"none", "sent", "read"}, rows : SUBSET Message]]
    BY <1>1, <2>1 DEF Init
  <2> QED
    BY <1>1, <2>1, <2>2, <2>3 DEF Init, TypeOK, AskRecord
<1>2. TypeOK /\ [Next]_vars => TypeOK'
  <2> SUFFICES ASSUME TypeOK, [Next]_vars PROVE TypeOK'
    OBVIOUS
  <2>1. CASE UNCHANGED vars
    BY <2>1 DEF vars, TypeOK, At
  <2> QED
    BY <2>1, ServerType, TabType, ChatType DEF Next, Serve
<1> QED
  BY <1>1, <1>2, PTL DEF Spec
--------------------------------------------------------------------------------
(* Times: a chat reads as it was held.                                     *)

\* An ask goes on, but not to a state in which more is known of its rows.
Later(pc, next) ==
    \/ next \in {pc, "ended"}
    \/ pc = "none" /\ next = "sent"
    \/ pc = "stream" /\ next = "save"

\* A step that stores nothing, and gives no row and no ask a time.
Quiet ==
    /\ stored' \subseteq stored /\ (~chat' => ~chat \/ stored' = {})
    /\ UNCHANGED <<created, clock, beside>>
    /\ \A b \in Ask : ask'[b].seen \in {ask[b].seen, {}} /\ Later(ask[b].pc, ask'[b].pc)

\* A step that leaves the rows and the chat as they are.
Still == UNCHANGED <<chat, stored, created, orphaned>>

\* The steps of the server that store nothing are quiet, and leave the chat alone.
LEMMA QuietServer ==
  ASSUME TypeOK, NEW a \in Ask,
         \/ Refused(a) \/ StreamToken(a) \/ StreamDone(a) \/ StreamFails(a)
         \/ StreamCancelled(a) \/ (SaveAnswer(a) /\ ~chat)
  PROVE  Quiet /\ Still
<1> USE DEF rowVars, viewVars, histVars, changeVars
<1>1. CASE Refused(a)
  BY <1>1, RefusedAsk DEF Refused, Goes, Quiet, Still, Later
<1>2. CASE StreamToken(a)
  BY <1>2, TokenAsk DEF StreamToken, Goes, Quiet, Still, Later
<1>3. CASE StreamDone(a) \/ StreamFails(a) \/ StreamCancelled(a)
  <2>1. /\ Goes(a, "stream") /\ ask'[a].pc \in {"save", "ended"}
        /\ ask'[a].seen = ask[a].seen
    BY <1>3, StreamAsk
  <2>2. UNCHANGED <<rowVars, beside, orphaned>>
    BY <1>3 DEF StreamDone, StreamFails, StreamCancelled
  <2> QED
    BY <2>1, <2>2 DEF Goes, Quiet, Still, Later
<1>4. CASE SaveAnswer(a) /\ ~chat
  <2>1. UNCHANGED <<rowVars, beside, orphaned>>
    BY <1>4 DEF SaveAnswer
  <2> QED
    BY <1>4, <2>1, SaveAsk DEF Goes, Quiet, Still, Later
<1> QED
  BY <1>1, <1>2, <1>3, <1>4

\* So are the steps of the tab, but for what it changes in the chat.
LEMMA QuietTab ==
  ASSUME TypeOK,
         \/ \E a \in Ask : Send(a) \/ Retry(a) \/ Hear(a) \/ ConnectionBreaks(a)
         \/ Abort \/ Leave \/ Open \/ DeleteAnswered \/ DeleteLost \/ TruncationFails
         \/ \E l \in Loads : LoadRead(l) \/ LoadDone(l) \/ LoadFails(l)
  PROVE  Quiet /\ Still
<1> USE DEF rowVars, viewVars, histVars, changeVars
<1>1. ASSUME NEW a \in Ask, Send(a) PROVE Quiet /\ Still
  BY <1>1, SendsAsk DEF Send, Goes, Quiet, Still, Later
<1>2. ASSUME NEW a \in Ask, Retry(a) PROVE Quiet /\ Still
  BY <1>2 DEF Retry, Quiet, Still, Later
<1>3. ASSUME NEW a \in Ask, NEW how, NEW here \in BOOLEAN, Closes(a, how, here),
             UNCHANGED <<rowVars, beside, orphaned>>
      PROVE  Quiet /\ Still
  BY <1>3, ClosesAsk DEF Goes, Quiet, Still, Later
<1>4. ASSUME NEW a \in Ask, Hear(a) \/ ConnectionBreaks(a) PROVE Quiet /\ Still
  <2>1. PICK how \in {"closed", "done"}, here \in BOOLEAN : Closes(a, how, here)
    BY <1>4 DEF Hear, ReceiveError, ReceiveDone, ConnectionBreaks
  <2>2. UNCHANGED <<rowVars, beside, orphaned>>
    BY <1>4 DEF Hear, ReceiveError, ReceiveDone, ConnectionBreaks
  <2> QED
    BY <1>3, <2>1, <2>2
<1>5. CASE Abort
  <2>1. abortable \in Ask
    BY <1>5 DEF Abort, TypeOK, Loads
  <2> QED
    BY <1>3, <1>5, <2>1 DEF Abort
<1>6. CASE Leave \/ Open \/ DeleteAnswered \/ DeleteLost \/ TruncationFails
  BY <1>6 DEF Leave, Open, DeleteAnswered, DeleteLost, TruncationFails, Quiet, Still, Later
<1>7. ASSUME NEW l \in Loads, LoadRead(l) \/ LoadDone(l) \/ LoadFails(l)
      PROVE  Quiet /\ Still
  BY <1>7 DEF LoadRead, LoadDone, LoadFails, Quiet, Still, Later
<1> QED
  BY <1>1, <1>2, <1>4, <1>5, <1>6, <1>7

\* A truncation only takes rows away, and so does the end of the chat.
LEMMA QuietChange ==
  ASSUME TypeOK, Rename \/ DeleteChat \/ TruncationLost \/ \E a \in Ask : Truncated(a)
  PROVE  Quiet
<1> USE DEF rowVars, viewVars, histVars, changeVars
<1>1. CASE Rename \/ DeleteChat \/ TruncationLost
  BY <1>1 DEF Rename, DeleteChat, Deletes, TruncationLost, CommitTruncation, Quiet, Later
<1>2. ASSUME NEW a \in Ask, Truncated(a) PROVE Quiet
  <2>1. /\ Goes(a, "none") /\ ask'[a].pc = "sent" /\ ask'[a].seen = ask[a].seen
    BY <1>2, SendsAsk DEF Truncated
  <2>2. stored' \subseteq stored /\ UNCHANGED <<chat, created, clock, beside>>
    BY <1>2 DEF Truncated, Deletes
  <2> QED
    BY <2>1, <2>2 DEF Goes, Quiet, Later
<1> QED
  BY <1>1, <1>2

\* Quiet steps leave the chat readable.
LEMMA QuietKeepsTimes ==
  ASSUME TypeOK, TimesInv, Quiet
  PROVE  TimesInv'
<1> USE DEF TimesInv
<1>1. \A S, T \in SUBSET Message :
         S \subseteq T /\ Written(T) =>
           \A b \in Ask :
             /\ Question(b) \in S => ask'[b].pc \in {"stream", "save", "ended"}
             /\ Answer(b) \in S => ask'[b].pc = "ended"
  BY DEF Quiet, Written, Later
<1>2. WrittenInv'
  <2>1. Written(stored)'
    BY <1>1 DEF WrittenInv, Quiet, TypeOK, Written
  <2>2. ASSUME NEW b \in Ask PROVE Written(ask[b].seen)'
    <3>1. ask[b].seen \in SUBSET Message /\ ask'[b].seen \subseteq ask[b].seen
      BY DEF Quiet, TypeOK
    <3> QED
      BY <1>1, <3>1 DEF WrittenInv, Written
  <2>3. \A b \in Ask : ask'[b].pc \in {"none", "sent", "begun"} => ask'[b].seen = {}
    BY DEF WrittenInv, Quiet, Later
  <2> QED
    BY <2>1, <2>2, <2>3 DEF WrittenInv
<1>3. ClockInv'
  BY DEF ClockInv, Quiet
<1>4. BesideInv'
  BY DEF BesideInv, UnderWay, Quiet, Later
<1>5. HistoryInv'
  BY DEF HistoryInv, At, Quiet, Later
<1>6. ReadsAsHeld'
  BY DEF ReadsAsHeld, Quiet
<1> QED
  BY <1>2, <1>3, <1>4, <1>5, <1>6

\* What step of the two transactions an ask can take.
Proceeds(pc, next) ==
    <<pc, next>> \in {<<"sent", "begun">>, <<"begun", "read">>, <<"read", "stream">>,
                     <<"save", "ended">>}

\* What has been written stays written when an ask proceeds; its own rows are not
\* among it yet.
LEMMA WrittenKept ==
  ASSUME NEW a \in Ask, NEW from, Goes(a, from), Proceeds(from, ask'[a].pc), NEW S, Written(S)
  PROVE  /\ \A b \in Ask : /\ Question(b) \in S => ask'[b].pc \in {"stream", "save", "ended"}
                           /\ Answer(b) \in S => ask'[b].pc = "ended"
         /\ from # "save" => Question(a) \notin S
         /\ Answer(a) \notin S
BY DEF Goes, Written, Proceeds

\* Rows of different asks differ, and questions are no answers.
LEMMA RowsDiffer ==
  ASSUME NEW a \in Ask, NEW b \in Ask
  PROVE  /\ Question(a) \in Message /\ Answer(a) \in Message
         /\ a # b => Question(a) # Question(b) /\ Answer(a) # Answer(b)
         /\ Question(a) # Answer(b)
BY DEF Question, Answer, Message

\* When nothing is stored, an ask that proceeds keeps all that is known to be written.
LEMMA ProceedsWritten ==
  ASSUME TypeOK, WrittenInv, NEW a \in Ask, NEW from, Goes(a, from),
         Proceeds(from, ask'[a].pc), ask'[a].seen \in {ask[a].seen, stored},
         from = "sent" => ask'[a].seen = ask[a].seen,
         NEW m, stored' = stored \cup {m},
         \/ m \in stored
         \/ m = Question(a) /\ from = "read"
         \/ m = Answer(a) /\ from = "save"
  PROVE  WrittenInv'
<1>a. Written(stored) /\ \A b \in Ask : Written(ask[b].seen)
  BY DEF WrittenInv
<1>1. Written(stored)'
  <2>1. /\ \A b \in Ask : /\ Question(b) \in stored
                             => ask'[b].pc \in {"stream", "save", "ended"}
                          /\ Answer(b) \in stored => ask'[b].pc = "ended"
    BY <1>a, WrittenKept
  <2>2. CASE m \in stored
    BY <2>1, <2>2 DEF Written
  <2>3. CASE m = Question(a) /\ from = "read"
    <3>1. ask'[a].pc = "stream"
      BY <2>3 DEF Proceeds
    <3> QED
      BY <2>1, <2>3, <3>1, RowsDiffer DEF Written
  <2>4. CASE m = Answer(a) /\ from = "save"
    <3>1. ask'[a].pc = "ended"
      BY <2>4 DEF Proceeds
    <3> QED
      BY <2>1, <2>4, <3>1, RowsDiffer DEF Written
  <2> QED
    BY <2>2, <2>3, <2>4
<1>2. ASSUME NEW b \in Ask PROVE Written(ask[b].seen)'
  <2>1. ask'[b].seen \in {ask[b].seen, stored}
    BY DEF Goes
  <2>2. Written(ask'[b].seen)
    BY <1>a, <2>1
  <2>3. \A c \in Ask : /\ Question(c) \in ask'[b].seen
                          => ask'[c].pc \in {"stream", "save", "ended"}
                       /\ Answer(c) \in ask'[b].seen => ask'[c].pc = "ended"
    BY <2>1, <2>2, WrittenKept
  <2> QED
    BY <2>3 DEF Written
<1>3. \A b \in Ask : ask'[b].pc \in {"none", "sent", "begun"} => ask'[b].seen = {}
  BY DEF WrittenInv, Goes, Proceeds
<1> QED
  BY <1>1, <1>2, <1>3 DEF WrittenInv

\* When an ask begins, all that is there is older than its question.
LEMMA BeginKeepsTimes ==
  ASSUME TypeOK, TimesInv, NEW a \in Ask, AskBegin(a)
  PROVE  TimesInv'
<1> USE DEF TimesInv
<1>1. /\ Goes(a, "sent") /\ ask'[a].pc = "begun" /\ ask'[a].seen = ask[a].seen
      /\ ask[a].seen = {}
  BY BeginAsk DEF WrittenInv, Goes
<1>2. /\ clock' = clock + 1 /\ chat' = chat /\ stored' = stored
      /\ created' = [created EXCEPT ![Question(a)] = clock + 1]
      /\ beside' = IF UnderWay = {} THEN beside ELSE beside \cup UnderWay \cup {a}
  BY DEF AskBegin, rowVars, Question
<1>3. /\ created \in [Message -> Nat] /\ clock \in Nat /\ stored \in SUBSET Message
      /\ \A b \in Ask : ask[b].seen \in SUBSET Message
  BY DEF TypeOK
<1>4. UnderWay' = UnderWay \cup {a}
  BY <1>1 DEF UnderWay, Goes
<1>5. /\ created'[Question(a)] = clock + 1
      /\ \A m \in Message : m # Question(a) => created'[m] = created[m]
  BY <1>2, <1>3, RowsDiffer
<1>6. /\ Question(a) \notin stored
      /\ \A b \in Ask : Question(a) \notin ask[b].seen
  BY <1>1 DEF WrittenInv, Written, Goes
<1>7. WrittenInv'
  <2>1. CASE stored = {}
    BY <1>1, <1>2, <2>1, WrittenKept DEF WrittenInv, Written, Goes, Proceeds
  <2>2. ASSUME NEW m \in stored PROVE WrittenInv'
    <3>1. stored' = stored \cup {m}
      BY <1>2
    <3> QED
      BY <1>1, <3>1, ProceedsWritten DEF Proceeds
  <2> QED
    BY <2>1, <2>2
<1>8. ClockInv'
  BY <1>2, <1>3, <1>5 DEF ClockInv
<1>9. BesideInv'
  BY <1>2, <1>4 DEF BesideInv
<1>10. HistoryInv'
  <2> SUFFICES ASSUME NEW b \in Ask \ beside', ask'[b].pc = "begun", NEW m \in stored
               PROVE  created'[m] < created'[Question(b)]
    BY <1>2 DEF HistoryInv, At
  <2>1. b = a
    BY <1>1, <1>2 DEF UnderWay, Goes
  <2> QED
    BY <1>3, <1>5, <1>6, <2>1 DEF ClockInv
<1>11. ReadsAsHeld'
  <2>1. ~chat' => stored' = {}
    BY <1>2 DEF ReadsAsHeld
  <2>2. ASSUME NEW b \in Ask, Question(b) \in stored', Answer(b) \in stored'
        PROVE  created'[Question(b)] < created'[Answer(b)]
    <3>1. b # a
      BY <1>2, <1>6, <2>2
    <3>2. created[Question(b)] < created[Answer(b)]
      BY <1>2, <2>2 DEF ReadsAsHeld, Question, Answer
    <3> QED
      BY <1>5, <3>1, <3>2, RowsDiffer
  <2>3. ASSUME NEW b \in Ask \ beside', NEW m \in ask'[b].seen
        PROVE  created'[m] < created'[Question(b)]
    <3>1. b # a /\ m \in ask[b].seen
      BY <1>1, <2>3 DEF Goes
    <3>2. created[m] < created[Question(b)]
      BY <1>2, <3>1 DEF ReadsAsHeld, Question
    <3> QED
      BY <1>3, <1>5, <1>6, <3>1, <3>2, RowsDiffer
  <2> QED
    BY <2>1, <2>2, <2>3 DEF ReadsAsHeld, Question, Answer
<1> QED
  BY <1>7, <1>8, <1>9, <1>10, <1>11

\* What an ask reads is older than its question, unless another one was beside it.
LEMMA ReadKeepsTimes ==
  ASSUME TypeOK, TimesInv, NEW a \in Ask, AskRead(a), ~Refused(a)
  PROVE  TimesInv'
<1> USE DEF TimesInv
<1>1. /\ Goes(a, "begun") /\ ask'[a].pc = "read" /\ ask'[a].seen = stored /\ At(a, "begun")
  BY ReadAsk DEF AskRead
<1>2. UNCHANGED <<chat, stored, created, clock, beside>>
  BY DEF AskRead, rowVars, histVars
<1>3. WrittenInv'
  <2>1. CASE stored = {}
    BY <1>1, <1>2, <2>1, WrittenKept DEF WrittenInv, Written, Goes, Proceeds
  <2>2. ASSUME NEW m \in stored PROVE WrittenInv'
    <3>1. stored' = stored \cup {m}
      BY <1>2
    <3> QED
      BY <1>1, <3>1, ProceedsWritten DEF Proceeds
  <2> QED
    BY <2>1, <2>2
<1>4. ClockInv'
  BY <1>2 DEF ClockInv
<1>5. BesideInv'
  <2>1. UnderWay' = UnderWay
    BY <1>1 DEF UnderWay, Goes
  <2> QED
    BY <1>2, <2>1 DEF BesideInv
<1>6. HistoryInv'
  BY <1>1, <1>2 DEF HistoryInv, At, Goes
<1>7. ReadsAsHeld'
  <2>1. ASSUME NEW b \in Ask \ beside', NEW m \in ask'[b].seen
        PROVE  created'[m] < created'[Question(b)]
    BY <1>1, <1>2, <2>1 DEF ReadsAsHeld, HistoryInv, Goes, Question
  <2> QED
    BY <1>2, <2>1 DEF ReadsAsHeld, Question
<1> QED
  BY <1>3, <1>4, <1>5, <1>6, <1>7

\* A row that an ask stores is no part of any other's history, unless they are beside
\* each other; an answer is younger than its question.
LEMMA StoreKeepsTimes ==
  ASSUME TypeOK, TimesInv, NEW a \in Ask,
         (AskCommit(a) \/ SaveAnswer(a)) /\ chat
  PROVE  TimesInv'
<1> USE DEF TimesInv
<1>1. CASE AskCommit(a)
  <2>1. /\ Goes(a, "read") /\ ask'[a].pc = "stream" /\ ask'[a].seen = ask[a].seen
    BY <1>1, CommitAsk
  <2>2. /\ stored' = stored \cup {Question(a)} /\ UNCHANGED <<chat, created, clock, beside>>
    BY <1>1 DEF AskCommit, Question
  <2>3. WrittenInv'
    BY <2>1, <2>2, ProceedsWritten DEF Proceeds
  <2>4. ClockInv'
    BY <2>2 DEF ClockInv
  <2>5. UnderWay' = UnderWay /\ a \in UnderWay
    BY <2>1 DEF UnderWay, Goes
  <2>6. BesideInv'
    BY <2>2, <2>5 DEF BesideInv
  <2>7. HistoryInv'
    BY <2>1, <2>2, <2>5 DEF HistoryInv, BesideInv, UnderWay, At, Goes
  <2>8. ReadsAsHeld'
    <3>1. Answer(a) \notin stored
      BY <2>1 DEF WrittenInv, Written, Goes
    <3>2. ASSUME NEW b \in Ask, Question(b) \in stored', Answer(b) \in stored'
          PROVE  created[Question(b)] < created[Answer(b)]
      <4>1. Answer(b) \in stored /\ b # a
        BY <2>2, <3>1, <3>2, RowsDiffer
      <4>2. Question(b) \in stored
        BY <2>2, <3>2, <4>1, RowsDiffer
      <4> QED
        BY <4>1, <4>2 DEF ReadsAsHeld, Question, Answer
    <3>3. \A b \in Ask : ask'[b].seen = ask[b].seen
      BY <2>1 DEF Goes
    <3> QED
      BY <1>1, <2>2, <3>2, <3>3 DEF ReadsAsHeld, Question, Answer
  <2> QED
    BY <2>3, <2>4, <2>6, <2>7, <2>8
<1>2. CASE SaveAnswer(a)
  <2>1. /\ Goes(a, "save") /\ ask'[a].pc = "ended" /\ ask'[a].seen = ask[a].seen
    BY <1>2, SaveAsk
  <2>2. /\ clock' = clock + 1 /\ UNCHANGED <<chat, beside>>
        /\ created' = [created EXCEPT ![Answer(a)] = clock + 1]
        /\ stored' = stored \cup {Answer(a)}
    BY <1>2, SaveRows DEF SaveAnswer
  <2>3. WrittenInv'
    BY <2>1, <2>2, ProceedsWritten DEF Proceeds
  <2>4. /\ created \in [Message -> Nat] /\ clock \in Nat /\ stored \in SUBSET Message
        /\ \A b \in Ask : ask[b].seen \in SUBSET Message
    BY DEF TypeOK
  <2>5. /\ created'[Answer(a)] = clock + 1
        /\ \A m \in Message : m # Answer(a) => created'[m] = created[m]
    BY <2>2, <2>4, RowsDiffer
  <2>6. ClockInv'
    BY <2>2, <2>4, <2>5 DEF ClockInv
  <2>7. UnderWay' \subseteq UnderWay /\ a \in UnderWay
    BY <2>1 DEF UnderWay, Goes
  <2>8. BesideInv'
    BY <2>2, <2>7 DEF BesideInv
  <2>9. HistoryInv'
    BY <2>1, <2>2, <2>7 DEF HistoryInv, BesideInv, UnderWay, At, Goes
  <2>10. ReadsAsHeld'
    <3>1. \A b \in Ask : Answer(a) \notin ask[b].seen
      BY <2>1 DEF WrittenInv, Written, Goes
    <3>2. ASSUME NEW b \in Ask, Question(b) \in stored', Answer(b) \in stored'
          PROVE  created'[Question(b)] < created'[Answer(b)]
      <4>1. created'[Question(b)] = created[Question(b)] /\ Question(b) \in stored
        BY <2>2, <2>5, <3>2, RowsDiffer
      <4>2. CASE b = a
        BY <2>4, <2>5, <4>1, <4>2, RowsDiffer DEF ClockInv
      <4>3. CASE b # a
        <5>1. created'[Answer(b)] = created[Answer(b)] /\ Answer(b) \in stored
          BY <2>2, <2>5, <3>2, <4>3, RowsDiffer
        <5> QED
          BY <4>1, <5>1 DEF ReadsAsHeld, Question, Answer
      <4> QED
        BY <4>2, <4>3
    <3>3. ASSUME NEW b \in Ask \ beside', NEW m \in ask'[b].seen
          PROVE  created'[m] < created'[Question(b)]
      <4>1. m \in ask[b].seen
        BY <2>1, <3>3 DEF Goes
      <4>2. created[m] < created[Question(b)]
        BY <2>2, <4>1 DEF ReadsAsHeld, Question
      <4> QED
        BY <2>4, <2>5, <3>1, <4>1, <4>2, RowsDiffer
    <3> QED
      BY <2>2, <3>2, <3>3 DEF ReadsAsHeld, Question, Answer
  <2> QED
    BY <2>3, <2>6, <2>8, <2>9, <2>10
<1> QED
  BY <1>1, <1>2

\* What the order of a chat rests on holds throughout.
LEMMA TimesHold == Spec => []TimesInv
<1>1. ASSUME Init PROVE TimesInv
  <2>1. /\ stored = {} /\ clock = 0 /\ chat = TRUE
        /\ \A a \in Ask : ask[a].pc = "none" /\ ask[a].seen = {}
        /\ \A m \in Message : created[m] = 0
    BY <1>1 DEF Init, NotAsked
  <2> QED
    BY <2>1 DEF TimesInv, WrittenInv, Written, ClockInv, BesideInv, UnderWay, HistoryInv, At,
                ReadsAsHeld
<1>2. TypeOK /\ TimesInv /\ [Next]_vars => TimesInv'
  <2> SUFFICES ASSUME TypeOK, TimesInv, [Next]_vars PROVE TimesInv'
    OBVIOUS
  <2>1. CASE UNCHANGED vars
    BY <2>1, QuietKeepsTimes DEF vars, Quiet, Later
  <2>2. ASSUME NEW a \in Ask, Serve(a) PROVE TimesInv'
    BY <2>2, QuietServer, QuietKeepsTimes, BeginKeepsTimes, ReadKeepsTimes, StoreKeepsTimes
       DEF Serve, AskRead, AskCommit
  <2>3. ASSUME NEW a \in Ask, StreamToken(a) \/ StreamDone(a) \/ StreamCancelled(a)
        PROVE  TimesInv'
    BY <2>3, QuietServer, QuietKeepsTimes
  <2>4. CASE \/ \E a \in Ask : Send(a) \/ Retry(a) \/ Hear(a) \/ ConnectionBreaks(a)
             \/ Abort \/ Leave \/ Open \/ DeleteAnswered \/ DeleteLost \/ TruncationFails
             \/ \E l \in Loads : LoadRead(l) \/ LoadDone(l) \/ LoadFails(l)
    BY <2>4, QuietTab, QuietKeepsTimes
  <2>5. CASE Rename \/ DeleteChat \/ TruncationLost \/ \E a \in Ask : Truncated(a)
    BY <2>5, QuietChange, QuietKeepsTimes
  <2> QED
    BY <2>1, <2>2, <2>3, <2>4, <2>5 DEF Next
<1> QED
  BY <1>1, <1>2, ChatTypeCorrect, PTL DEF Spec

\* Sorted by created_at, a chat reads as it was held: an answer comes after its
\* question, and a question after all that its prompt had for a history, unless it was
\* asked while another one was being answered (models/message.py:50-52,
\* routers/query.py:77-107, 301-318).
THEOREM ChatsReadAsHeld == Spec => []ReadsAsHeld
<1>1. TimesInv => ReadsAsHeld
  BY DEF TimesInv
<1> QED
  BY <1>1, TimesHold, PTL
--------------------------------------------------------------------------------
(* Answers have questions.                                                 *)

\* A step that leaves the rows alone keeps what is known of the questions.
LEMMA StillKeepsQuestions ==
  ASSUME QuestionsInv, AnswersHaveQuestions, UNCHANGED <<chat, stored, orphaned>>,
         \A b \in Ask : ask'[b].pc \in {"stream", "save"} => ask[b].pc \in {"stream", "save"}
  PROVE  QuestionsInv' /\ AnswersHaveQuestions'
BY DEF QuestionsInv, AnswersHaveQuestions

\* The two transactions store a question before its answer.
LEMMA StoreKeepsQuestions ==
  ASSUME TypeOK, QuestionsInv, AnswersHaveQuestions, TimesInv, NEW a \in Ask,
         (AskCommit(a) \/ SaveAnswer(a)) /\ chat
  PROVE  QuestionsInv' /\ AnswersHaveQuestions'
<1>1. CASE AskCommit(a)
  <2>1. Goes(a, "read") /\ ask'[a].pc = "stream"
    BY <1>1, CommitAsk
  <2>2. stored' = stored \cup {Question(a)} /\ UNCHANGED <<chat, orphaned>>
    BY <1>1 DEF AskCommit, Question
  <2>3. QuestionsInv'
    BY <2>1, <2>2 DEF QuestionsInv, Goes
  <2>4. \A b \in Ask : Question(a) # Answer(b)
    BY RowsDiffer
  <2> QED
    BY <2>2, <2>3, <2>4 DEF AnswersHaveQuestions, Answer, Question
<1>2. CASE SaveAnswer(a)
  <2>1. Goes(a, "save") /\ ask'[a].pc = "ended"
    BY <1>2, SaveAsk
  <2>2. stored' = stored \cup {Answer(a)} /\ UNCHANGED <<chat, orphaned>>
    BY <1>2, SaveRows DEF SaveAnswer
  <2>3. QuestionsInv'
    BY <2>1, <2>2 DEF QuestionsInv, Goes
  <2>4. a \notin orphaned => Question(a) \in stored
    BY <2>1 DEF QuestionsInv, Goes
  <2>5. \A b \in Ask : b # a => Answer(b) # Answer(a)
    BY RowsDiffer
  <2> QED
    BY <2>2, <2>3, <2>4, <2>5 DEF AnswersHaveQuestions, Answer, Question
<1> QED
  BY <1>1, <1>2

\* A truncation that takes a question takes its answer, which is younger, or the ask
\* has yet to save it, and counts as orphaned.
LEMMA TruncationKeepsQuestions ==
  ASSUME TypeOK, QuestionsInv, AnswersHaveQuestions, TimesInv, CommitTruncation,
         stored' = stored \ From(cut), chat' = chat,
         \A b \in Ask : ask'[b].pc \in {"stream", "save"} => ask'[b].pc = ask[b].pc
  PROVE  QuestionsInv' /\ AnswersHaveQuestions'
<1>1. /\ stored' = {m \in stored : ~(created[m] >= cut)} /\ chat' = chat
      /\ orphaned' = orphaned \cup {b \in Ask : ask[b].pc \in {"stream", "save"}}
  BY DEF CommitTruncation, From
<1>2. QuestionsInv'
  BY <1>1 DEF QuestionsInv
<1>3. ASSUME NEW b \in Ask \ orphaned', Answer(b) \in stored'
      PROVE  Question(b) \in stored'
  <2>1. Answer(b) \in stored /\ ~(created[Answer(b)] >= cut) /\ b \notin orphaned
    BY <1>1, <1>3
  <2>2. Question(b) \in stored
    BY <2>1 DEF AnswersHaveQuestions, Question, Answer
  <2>3. created[Question(b)] < created[Answer(b)]
    BY <2>1, <2>2 DEF TimesInv, ReadsAsHeld, Question, Answer
  <2>4. created[Question(b)] \in Nat /\ created[Answer(b)] \in Nat /\ cut \in Nat
    BY RowsDiffer DEF TypeOK
  <2> QED
    BY <1>1, <2>1, <2>2, <2>3, <2>4
<1> QED
  BY <1>2, <1>3 DEF AnswersHaveQuestions, Question, Answer

\* No answer is stored without its question, unless a truncation took the question away
\* while the answer was streamed (services/chats.py:143-154, routers/query.py:301-318).
THEOREM AnswersFollowQuestions == Spec => []AnswersHaveQuestions
<1> DEFINE Inv == QuestionsInv /\ AnswersHaveQuestions
<1>1. ASSUME Init PROVE Inv
  <2>1. stored = {} /\ \A a \in Ask : ask[a].pc = "none"
    BY <1>1 DEF Init, NotAsked
  <2> QED
    BY <2>1 DEF QuestionsInv, AnswersHaveQuestions
<1>2. TypeOK /\ TimesInv /\ Inv /\ [Next]_vars => Inv'
  <2> SUFFICES ASSUME TypeOK, TimesInv, Inv, [Next]_vars PROVE Inv'
    OBVIOUS
  <2>1. ASSUME Quiet, Still PROVE Inv'
    BY <2>1, StillKeepsQuestions DEF Quiet, Still, Later
  <2>2. CASE UNCHANGED vars
    BY <2>1, <2>2 DEF vars, Quiet, Still, Later
  <2>3. ASSUME NEW a \in Ask, AskBegin(a) PROVE Inv'
    <3>1. Goes(a, "sent") /\ ask'[a].pc = "begun" /\ UNCHANGED <<chat, stored, orphaned>>
      BY <2>3, BeginAsk DEF AskBegin
    <3> QED
      BY <3>1, StillKeepsQuestions DEF Goes
  <2>4. ASSUME NEW a \in Ask, AskRead(a), ~Refused(a) PROVE Inv'
    <3>1. Goes(a, "begun") /\ ask'[a].pc = "read" /\ UNCHANGED <<chat, stored, orphaned>>
      BY <2>4, ReadAsk DEF AskRead, rowVars, histVars
    <3> QED
      BY <3>1, StillKeepsQuestions DEF Goes
  <2>5. ASSUME NEW a \in Ask, Serve(a) PROVE Inv'
    BY <2>1, <2>3, <2>4, <2>5, QuietServer, StoreKeepsQuestions DEF Serve, AskRead, AskCommit
  <2>6. ASSUME NEW a \in Ask, StreamToken(a) \/ StreamDone(a) \/ StreamCancelled(a)
        PROVE  Inv'
    BY <2>1, <2>6, QuietServer
  <2>7. CASE \/ \E a \in Ask : Send(a) \/ Retry(a) \/ Hear(a) \/ ConnectionBreaks(a)
             \/ Abort \/ Leave \/ Open \/ DeleteAnswered \/ DeleteLost \/ TruncationFails
             \/ \E l \in Loads : LoadRead(l) \/ LoadDone(l) \/ LoadFails(l)
    BY <2>1, <2>7, QuietTab
  <2>8. CASE Rename
    BY <2>8, StillKeepsQuestions DEF Rename, histVars
  <2>9. CASE DeleteChat
    BY <2>9 DEF DeleteChat, Deletes, QuestionsInv, AnswersHaveQuestions
  <2>10. ASSUME NEW a \in Ask, Truncated(a) PROVE Inv'
    <3>1. Goes(a, "none") /\ ask'[a].pc = "sent"
      BY <2>10, SendsAsk DEF Truncated
    <3>2. CommitTruncation /\ stored' = stored \ From(cut) /\ chat' = chat
      BY <2>10 DEF Truncated, Deletes
    <3> QED
      BY <3>1, <3>2, TruncationKeepsQuestions DEF Goes
  <2>11. CASE TruncationLost
    BY <2>11, TruncationKeepsQuestions DEF TruncationLost
  <2> QED
    BY <2>2, <2>5, <2>6, <2>7, <2>8, <2>9, <2>10, <2>11 DEF Next
<1> QED
  BY <1>1, <1>2, ChatTypeCorrect, TimesHold, PTL DEF Spec
--------------------------------------------------------------------------------
(* The steps an ask takes.                                                 *)

\* What one step of the server makes of ask a: it goes on, and when it has nothing
\* more to send, a tab that still listens has been told.
Served(a) ==
    /\ UNCHANGED <<tab, streaming, abortable>>
    /\ \A b \in Ask \ {a} : ask'[b] = ask[b]
    /\ \/ /\ ask'[a].last = ask[a].last
          /\ \/ <<ask[a].pc, ask'[a].pc>> \in {<<"sent", "begun">>, <<"begun", "read">>,
                                              <<"read", "stream">>, <<"save", "ended">>}
             \/ /\ ask[a].pc = "stream" /\ ask'[a].pc = "stream"
                /\ ~ask[a].content /\ ask'[a].content
       \/ /\ tab[a] = "open" => ask'[a].last # "none"
          /\ \/ ask[a].pc \in {"begun", "read"} /\ ask'[a].pc = "ended"
             \/ ask[a].pc = "stream" /\ ask'[a].pc \in {"save", "ended"}

\* The server's steps are such steps.
LEMMA ServerServes ==
  ASSUME TypeOK, NEW a \in Ask,
         \/ AskBegin(a) \/ AskRead(a) \/ AskCommit(a) \/ StreamToken(a) \/ StreamDone(a)
         \/ StreamFails(a) \/ StreamCancelled(a) \/ SaveAnswer(a)
  PROVE  Served(a)
<1>1. UNCHANGED <<tab, streaming, abortable>>
  BY DEF AskBegin, AskRead, AskCommit, StreamToken, StreamDone, StreamFails, StreamCancelled,
     SaveAnswer, Refused, viewVars
<1>2. ASSUME Refused(a), ask[a].pc \in {"begun", "read"} PROVE Served(a)
  <2> DEFINE last == Tell(a, "error")
  <2>1. ask' = [ask EXCEPT ![a] = [Ended EXCEPT !.last = last]]
    BY <1>2 DEF Refused
  <2>2. tab[a] = "open" => last # "none"
    BY DEF Tell
  <2> HIDE DEF last
  <2> DEFINE new == [Ended EXCEPT !.last = last]
  <2>3. new.pc = "ended" /\ new.last = last
    BY DEF Ended, NotAsked
  <2>4. ask' = [ask EXCEPT ![a] = new]
    BY <2>1
  <2> HIDE DEF new
  <2>5. ask'[a] = new /\ \A b \in Ask \ {a} : ask'[b] = ask[b]
    BY <2>4 DEF TypeOK
  <2> QED
    BY <1>1, <1>2, <2>2, <2>3, <2>5 DEF Served
<1>3. CASE AskBegin(a)
  BY <1>1, <1>3, BeginAsk DEF Goes, Served
<1>4. CASE AskRead(a)
  BY <1>1, <1>2, <1>4, ReadAsk DEF AskRead, At, Goes, Served
<1>5. CASE AskCommit(a)
  <2>1. CASE chat
    BY <1>1, <1>5, <2>1, CommitAsk DEF Goes, Served
  <2>2. CASE ~chat
    BY <1>2, <1>5, <2>2 DEF AskCommit, At
  <2> QED
    BY <2>1, <2>2
<1>6. CASE StreamToken(a)
  <2>1. ~ask[a].content /\ ask'[a].content
    BY <1>6 DEF StreamToken, TypeOK
  <2> QED
    BY <1>1, <1>6, <2>1, TokenAsk DEF Goes, Served
<1>7. CASE StreamDone(a) \/ StreamFails(a) \/ StreamCancelled(a)
  <2>1. tab[a] = "open" => ask'[a].last # "none"
    <3>1. ASSUME NEW event \in {"done", "error"}, ask' = AfterStream(a, Tell(a, event)),
                 At(a, "stream"), tab[a] = "open"
          PROVE  ask'[a].last = event
      <4>1. Tell(a, event) = event
        BY <3>1 DEF Tell
      <4>2. ask' = AfterStream(a, event) /\ event \in {"none", "done", "error"}
        BY <3>1, <4>1
      <4> QED
        BY <3>1, <4>2, AfterStreamAsk
    <3> QED
      BY <1>7, <3>1 DEF StreamDone, StreamFails, StreamCancelled, TimesOut
  <2> QED
    BY <1>1, <1>7, <2>1, StreamAsk DEF Goes, Served
<1>8. CASE SaveAnswer(a)
  BY <1>1, <1>8, SaveAsk DEF Goes, Served
<1> QED
  BY <1>3, <1>4, <1>5, <1>6, <1>7, <1>8

\* A step serves an ask, sends one, closes the tab's end of one, or has nothing to do
\* with them.
LEMMA AskSteps ==
  ASSUME TypeOK, [Next]_vars
  PROVE  \/ \E a \in Ask : Served(a)
         \/ \E a \in Ask : Sends(a)
         \/ \E a \in Ask, how \in {"closed", "done"}, here \in BOOLEAN :
               Closes(a, how, here) /\ (here \/ At(a, "sent"))
         \/ UNCHANGED <<ask, tab, streaming, abortable>>
<1>1. ASSUME NEW a \in Ask, \/ AskBegin(a) \/ AskRead(a) \/ AskCommit(a) \/ StreamToken(a)
                            \/ StreamDone(a) \/ StreamFails(a) \/ StreamCancelled(a)
                            \/ SaveAnswer(a)
      PROVE  Served(a)
  BY <1>1, ServerServes
<1>2. ASSUME NEW a \in Ask, Send(a) \/ Truncated(a) PROVE Sends(a)
  BY <1>2 DEF Send, Truncated
<1>3. ASSUME NEW a \in Ask, Hear(a) \/ ConnectionBreaks(a)
      PROVE  \E how \in {"closed", "done"}, here \in BOOLEAN :
                Closes(a, how, here) /\ (here \/ At(a, "sent"))
  BY <1>3 DEF Hear, ReceiveError, ReceiveDone, ConnectionBreaks
<1>4. CASE Abort
  <2>1. abortable \in Ask /\ Closes(abortable, "closed", TRUE)
    BY <1>4 DEF Abort, TypeOK, Loads
  <2> QED
    BY <2>1
<1>5. CASE \/ \E a \in Ask : Retry(a)
           \/ Rename \/ DeleteChat \/ DeleteAnswered \/ DeleteLost
           \/ TruncationLost \/ TruncationFails \/ Leave \/ Open \/ UNCHANGED vars
           \/ \E l \in Loads : LoadRead(l) \/ LoadDone(l) \/ LoadFails(l)
  BY <1>5 DEF Retry, Rename, DeleteChat, DeleteAnswered, DeleteLost, TruncationLost,
              TruncationFails, Leave, Open, LoadRead, LoadDone, LoadFails, viewVars, vars
<1> QED
  BY <1>1, <1>2, <1>3, <1>4, <1>5 DEF Next, Serve
--------------------------------------------------------------------------------
(* What the tab shows.                                                     *)

\* The rows of S are still known to be written after a step.
StaysWritten(S) ==
    \A b \in Ask : /\ Question(b) \in S => ask'[b].pc \in {"stream", "save", "ended"}
                   /\ Answer(b) \in S => ask'[b].pc = "ended"

\* What was written stays written.
LEMMA WrittenStays ==
  ASSUME TypeOK, [Next]_vars, NEW S, Written(S)
  PROVE  StaysWritten(S)
<1>1. ASSUME NEW a \in Ask, Served(a) PROVE StaysWritten(S)
  BY <1>1 DEF Served, Written, StaysWritten
<1>2. ASSUME NEW a \in Ask, Sends(a) PROVE StaysWritten(S)
  BY <1>2, SendsAsk DEF Goes, Written, StaysWritten
<1>3. ASSUME NEW a \in Ask, NEW how, NEW here \in BOOLEAN, Closes(a, how, here)
      PROVE  StaysWritten(S)
  BY <1>3, ClosesAsk DEF Goes, Written, StaysWritten
<1>4. CASE UNCHANGED <<ask, tab, streaming, abortable>>
  BY <1>4 DEF Written, StaysWritten
<1> QED
  BY <1>1, <1>2, <1>3, <1>4, AskSteps

\* A step shows no row that was not shown or read by a reload, and a reload reads what
\* is stored.
LEMMA NextSeen ==
  ASSUME TypeOK, [Next]_vars
  PROVE  /\ shown' \subseteq shown \/ \E l \in Loads : shown' = load[l].rows
         /\ \A l \in Loads : load'[l].rows \in {load[l].rows, stored, {}}
<1> USE DEF viewVars
<1>1. load \in [Loads -> [pc : {"none", "sent", "read"}, rows : SUBSET Message]]
      /\ NoLoad.rows = {} /\ Ask \subseteq Loads /\ NoAsk \in Loads
  BY DEF TypeOK, NoLoad, Loads
<1>2. ASSUME NEW a \in Ask, \/ Serve(a) \/ StreamToken(a) \/ StreamDone(a) \/ StreamCancelled(a)
                            \/ Send(a) \/ Retry(a) \/ ReceiveError(a) \/ ConnectionBreaks(a)
      PROVE  UNCHANGED <<shown, load>>
  BY <1>2 DEF Serve, AskBegin, AskRead, AskCommit, Refused, StreamFails, SaveAnswer, StreamToken,
              StreamDone, StreamCancelled, Send, Retry, ReceiveError, ConnectionBreaks
<1>3. ASSUME NEW a \in Ask, Truncated(a) PROVE shown' \subseteq shown /\ load' = load
  BY <1>3 DEF Truncated
<1>4. ASSUME NEW a \in Ask, ReceiveDone(a)
      PROVE  shown' = shown /\ \A l \in Loads : load'[l].rows = load[l].rows
  BY <1>1, <1>4 DEF ReceiveDone, Reloads
<1>5. CASE \/ Rename \/ DeleteChat \/ DeleteAnswered \/ DeleteLost \/ TruncationLost
           \/ TruncationFails \/ Abort \/ Leave \/ UNCHANGED vars
  <2>1. load' = load /\ shown' \in {shown, {}}
    BY <1>5 DEF Rename, DeleteChat, DeleteAnswered, DeleteLost, TruncationLost, TruncationFails,
                Abort, Leave, vars
  <2> QED
    BY <2>1
<1>6. CASE Open
  BY <1>1, <1>6 DEF Open, Reloads
<1>7. ASSUME NEW l \in Loads, LoadRead(l)
      PROVE  shown' = shown /\ \A k \in Loads : load'[k].rows \in {load[k].rows, stored}
  BY <1>1, <1>7 DEF LoadRead
<1>8. ASSUME NEW l \in Loads, LoadDone(l) \/ LoadFails(l)
      PROVE  /\ shown' \in {shown, load[l].rows}
             /\ \A k \in Loads : load'[k].rows \in {load[k].rows, {}}
  BY <1>1, <1>8 DEF LoadDone, LoadFails, Reloaded
<1> QED
  BY <1>2, <1>3, <1>4, <1>5, <1>6, <1>7, <1>8 DEF Next, Hear

\* What is shown, or was read to be shown, was stored once.
LEMMA SeenHolds == Spec => []SeenInv
<1>1. ASSUME Init PROVE SeenInv
  <2>1. shown = {} /\ \A l \in Loads : load[l].rows = {}
    BY <1>1 DEF Init, NoLoad
  <2> QED
    BY <2>1 DEF SeenInv, Written
<1>2. TypeOK /\ TimesInv /\ SeenInv /\ [Next]_vars => SeenInv'
  <2> SUFFICES ASSUME TypeOK, TimesInv, SeenInv, [Next]_vars PROVE SeenInv'
    OBVIOUS
  <2>1. StaysWritten(stored)
    BY WrittenStays DEF TimesInv, WrittenInv
  <2>2. StaysWritten(shown)
    BY WrittenStays DEF SeenInv
  <2>3. \A l \in Loads : StaysWritten(load[l].rows)
    BY WrittenStays DEF SeenInv
  <2>4. StaysWritten({})
    BY DEF StaysWritten
  <2>5. StaysWritten(shown')
    BY <2>2, <2>3, NextSeen DEF StaysWritten
  <2>6. \A l \in Loads : StaysWritten(load'[l].rows)
    BY <2>1, <2>3, <2>4, NextSeen
  <2> QED
    BY <2>5, <2>6 DEF SeenInv, Written, StaysWritten
<1> QED
  BY <1>1, <1>2, ChatTypeCorrect, TimesHold, PTL DEF Spec

\* What the server does for an ask: it may store a row that nobody has seen and of which
\* no reload knows, and says that the stream is done only when it has ended.
Answers ==
    /\ UNCHANGED <<chat, cut, deleting, open, shown, temp, tab, load, stale>>
    /\ \E S \in SUBSET Message :
          /\ stored' = stored \cup S /\ unread' = unread \cup S
          /\ S \cap shown = {}
          /\ \A b \in Ask : tab[b] = "done" => Question(b) \notin S
    /\ \A m \in stored : created'[m] = created[m]
    /\ \A b \in Ask : ask'[b].last = "done" \/ tab[b] = "done" => ask'[b].pc \in {"save", "ended"}

\* Nothing of that disturbs what the tab shows.
LEMMA AnswersKeepView ==
  ASSUME ViewInv, Answers
  PROVE  ViewInv'
<1> USE DEF ViewInv
<1>1. PICK S \in SUBSET Message :
           /\ stored' = stored \cup S /\ unread' = unread \cup S
           /\ S \cap shown = {}
           /\ \A b \in Ask : tab[b] = "done" => Question(b) \notin S
  BY DEF Answers
<1>2. /\ UNCHANGED <<chat, cut, deleting, open, shown, temp, tab, load, stale>>
      /\ \A m \in stored : created'[m] = created[m]
      /\ Loading' = Loading
  BY DEF Answers, Loading
<1>3. TabInv'
  BY DEF TabInv, Answers
<1>4. CutInv'
  BY <1>1, <1>2 DEF CutInv, CutIn
<1>5. ReloadInv'
  <2> SUFFICES ASSUME stale # "maybe" PROVE ReloadInv'
    BY <1>2 DEF ReloadInv
  <2>1. ASSUME NEW l \in Loads, load[l].pc = "read"
        PROVE  /\ chat /\ load[l].rows \subseteq stored' /\ CutIn(load[l].rows)'
               /\ stored' \ load[l].rows \subseteq unread'
               /\ shown \cap stored' \subseteq load[l].rows
               /\ \A a \in Ask : tab[a] = "done" => Question(a) \notin unread'
    <3>1. /\ chat /\ load[l].rows \subseteq stored /\ CutIn(load[l].rows)
          /\ stored \ load[l].rows \subseteq unread
          /\ shown \cap stored \subseteq load[l].rows
          /\ \A a \in Ask : tab[a] = "done" => Question(a) \notin unread
      BY <2>1 DEF ReloadInv
    <3>2. CutIn(load[l].rows)'
      BY <1>2, <3>1 DEF CutIn
    <3> QED
      BY <1>1, <3>1, <3>2
  <2> QED
    BY <1>2, <2>1 DEF ReloadInv
<1>6. FreshInv'
  <2> SUFFICES ASSUME stale = "no" PROVE FreshInv'
    BY <1>2 DEF FreshInv
  <2>1. chat /\ open => CutIn(shown)'
    BY <1>2 DEF FreshInv, CutIn
  <2> QED
    BY <1>1, <1>2, <2>1 DEF FreshInv
<1> QED
  BY <1>3, <1>4, <1>5, <1>6

\* The server's steps are of that kind.
LEMMA ServerAnswers ==
  ASSUME TypeOK, TimesInv, SeenInv, TabInv, NEW a \in Ask,
         \/ Serve(a) \/ StreamToken(a) \/ StreamDone(a) \/ StreamCancelled(a)
  PROVE  Answers
<1> USE DEF rowVars, viewVars, histVars, changeVars
<1>a. \A b \in Ask : ask[b].last = "done" \/ tab[b] = "done" => ask[b].pc \in {"save", "ended"}
  BY DEF TabInv
<1>b. \A b \in Ask : /\ Question(b) \in stored => ask[b].pc \in {"stream", "save", "ended"}
                     /\ Answer(b) \in stored => ask[b].pc = "ended"
                     /\ Question(b) \in shown => ask[b].pc \in {"stream", "save", "ended"}
                     /\ Answer(b) \in shown => ask[b].pc = "ended"
  BY DEF TimesInv, WrittenInv, SeenInv, Written
<1>c. created \in [Message -> Nat] /\ stored \in SUBSET Message
  BY DEF TypeOK
<1> DEFINE Same  == UNCHANGED <<chat, cut, deleting, open, shown, temp, tab, load, stale>>
           Truth == \A b \in Ask : ask'[b].last = "done" \/ tab[b] = "done"
                                   => ask'[b].pc \in {"save", "ended"}
<1>d. ASSUME NEW from, Goes(a, from),
             \/ ask'[a].pc \in {"save", "ended"}
             \/ ask'[a].last = ask[a].last /\ from \notin {"save", "ended"}
      PROVE  Truth
  BY <1>a, <1>d DEF Goes
<1>e. ASSUME Same, UNCHANGED <<stored, unread>>, \A m \in stored : created'[m] = created[m], Truth
      PROVE  Answers
  <2>1. stored' = stored \cup {} /\ unread' = unread \cup {} /\ {} \in SUBSET Message
    BY <1>e
  <2> HIDE DEF Truth
  <2>2. {} \cap shown = {} /\ \A b \in Ask : tab[b] = "done" => Question(b) \notin {}
    OBVIOUS
  <2> QED
    BY <1>e, <2>1, <2>2 DEF Answers, Truth
<1>f. ASSUME Same, Truth, \A m \in stored : created'[m] = created[m], NEW m \in Message \ shown,
             stored' = stored \cup {m}, unread' = unread \cup {m},
             \A b \in Ask : tab[b] = "done" => Question(b) # m
      PROVE  Answers
  <2>1. /\ {m} \in SUBSET Message /\ {m} \cap shown = {}
        /\ \A b \in Ask : tab[b] = "done" => Question(b) \notin {m}
    BY <1>f
  <2> QED
    BY <1>f, <2>1 DEF Answers
<1>1. CASE AskBegin(a)
  <2>1. Goes(a, "sent") /\ ask'[a].pc = "begun" /\ ask'[a].last = ask[a].last
    BY <1>1, BeginAsk
  <2>2. /\ Same /\ UNCHANGED <<stored, unread>>
        /\ created' = [created EXCEPT ![Question(a)] = clock + 1]
    BY <1>1 DEF AskBegin, Question
  <2>3. Question(a) \notin stored
    BY <1>b, <2>1 DEF Goes
  <2>4. \A m \in stored : created'[m] = created[m]
    BY <1>c, <2>2, <2>3
  <2> QED
    BY <1>d, <1>e, <2>1, <2>2, <2>4
<1>2. CASE Refused(a)
  <2>1. Goes(a, ask[a].pc) /\ ask'[a].pc = "ended"
    BY <1>2, RefusedAsk
  <2>2. Same /\ UNCHANGED <<stored, created, unread>>
    BY <1>2 DEF Refused
  <2> QED
    BY <1>d, <1>e, <2>1, <2>2
<1>3. CASE AskRead(a) /\ ~Refused(a)
  <2>1. Goes(a, "begun") /\ ask'[a].pc = "read" /\ ask'[a].last = ask[a].last
    BY <1>3, ReadAsk
  <2>2. Same /\ UNCHANGED <<stored, created, unread>>
    BY <1>3 DEF AskRead
  <2> QED
    BY <1>d, <1>e, <2>1, <2>2
<1>4. CASE AskCommit(a) /\ chat
  <2>1. Goes(a, "read") /\ ask'[a].pc = "stream" /\ ask'[a].last = ask[a].last
    BY <1>4, CommitAsk
  <2>2. /\ Same /\ created' = created
        /\ stored' = stored \cup {Question(a)} /\ unread' = unread \cup {Question(a)}
    BY <1>4 DEF AskCommit, Question
  <2>3. \A b \in Ask : tab[b] = "done" => Question(b) # Question(a)
    BY <1>a, <2>1, RowsDiffer DEF Goes
  <2>4. Truth
    BY <1>d, <2>1
  <2>5. Question(a) \in Message \ shown
    BY <1>b, <2>1, RowsDiffer DEF Goes
  <2> HIDE DEF Truth
  <2> QED
    BY <1>f, <2>2, <2>3, <2>4, <2>5
<1>5. CASE SaveAnswer(a) /\ chat
  <2>1. Goes(a, "save") /\ ask'[a].pc = "ended"
    BY <1>5, SaveAsk
  <2>2. Same
    BY <1>5 DEF SaveAnswer
  <2>3. /\ created' = [created EXCEPT ![Answer(a)] = clock + 1]
        /\ stored' = stored \cup {Answer(a)} /\ unread' = unread \cup {Answer(a)}
    BY <1>5, SaveRows
  <2>4. \A m \in stored : created'[m] = created[m]
    BY <1>b, <1>c, <2>1, <2>3 DEF Goes
  <2>5. Truth
    BY <1>d, <2>1
  <2>6. Answer(a) \in Message \ shown /\ \A b \in Ask : Question(b) # Answer(a)
    BY <1>b, <2>1, RowsDiffer DEF Goes
  <2> HIDE DEF Truth
  <2> QED
    BY <1>f, <2>2, <2>3, <2>4, <2>5, <2>6
<1>6. CASE SaveAnswer(a) /\ ~chat
  <2>1. Goes(a, "save") /\ ask'[a].pc = "ended"
    BY <1>6, SaveAsk
  <2>2. Same /\ UNCHANGED <<stored, created, unread>>
    BY <1>6 DEF SaveAnswer
  <2> QED
    BY <1>d, <1>e, <2>1, <2>2
<1>7. CASE StreamToken(a)
  <2>1. Goes(a, "stream") /\ ask'[a].pc = "stream" /\ ask'[a].last = ask[a].last
    BY <1>7, TokenAsk
  <2>2. Same /\ UNCHANGED <<stored, created, unread>>
    BY <1>7 DEF StreamToken
  <2> QED
    BY <1>d, <1>e, <2>1, <2>2
<1>8. CASE StreamDone(a) \/ StreamFails(a) \/ StreamCancelled(a)
  <2>1. Goes(a, "stream") /\ ask'[a].pc \in {"save", "ended"}
    BY <1>8, StreamAsk
  <2>2. Same /\ UNCHANGED <<stored, created, unread>>
    BY <1>8 DEF StreamDone, StreamFails, StreamCancelled
  <2> QED
    BY <1>d, <1>e, <2>1, <2>2
<1> QED
  BY <1>1, <1>2, <1>3, <1>4, <1>5, <1>6, <1>7, <1>8 DEF Serve, AskRead, AskCommit

\* A reload that begins alone, and perhaps after an answer, is the first one to know
\* of what was stored since the last one.
LEMMA ReloadKeepsView ==
  ASSUME TypeOK, ViewInv, NEW l \in Loads, Reloads(l), TabInv', CutInv',
         UNCHANGED <<chat, stored, created, cut, deleting, open, shown, temp, unread>>,
         \A b \in Ask : tab'[b] = "done" => b = l \/ tab[b] = "done"
  PROVE  ViewInv'
<1>1. /\ load'[l].pc = "sent" /\ \A k \in Loads \ {l} : load'[k] = load[k]
      /\ Ask \subseteq Loads
  BY DEF Reloads, TypeOK, Loads
<1>2. /\ stale' # "maybe" => ~Loading
      /\ stale' = "no" => stale = "no"
  BY DEF Reloads
<1>3. Loading'
  BY <1>1 DEF Loading
<1>4. ReloadInv'
  BY <1>1, <1>2 DEF ReloadInv, Loading
<1>5. FreshInv'
  <2> SUFFICES ASSUME stale' = "no" PROVE FreshInv'
    BY DEF FreshInv
  <2>1. \A b \in Ask : tab'[b] = "done" /\ load'[b].pc = "none"
           => tab[b] = "done" /\ load[b].pc = "none"
    BY <1>1
  <2> QED
    BY <1>2, <1>3, <2>1 DEF ViewInv, FreshInv, CutIn
<1> QED
  BY <1>4, <1>5 DEF ViewInv

\* A question that is sent is shown under a temporary id.
LEMMA SendKeepsView ==
  ASSUME TypeOK, ViewInv, NEW a \in Ask, Send(a)
  PROVE  ViewInv'
<1> USE DEF ViewInv
<1>1. Goes(a, "none") /\ ask'[a].last = ask[a].last /\ tab' = [tab EXCEPT ![a] = "open"]
  BY SendsAsk DEF Send, Sends
<1>2. /\ UNCHANGED <<chat, stored, created, cut, deleting, open, shown, load, unread, stale>>
      /\ open /\ temp' = temp \cup {a}
  BY DEF Send, rowVars, changeVars, histVars
<1>3. tab \in [Ask -> {"none", "open", "closed", "done"}]
  BY DEF TypeOK
<1>4. TabInv' /\ CutInv'
  BY <1>1, <1>2, <1>3 DEF TabInv, CutInv, CutIn, Goes
<1>5. \A b \in Ask : tab'[b] = "done" => b # a /\ tab[b] = "done"
  BY <1>1, <1>3
<1>6. ReloadInv'
  BY <1>2, <1>5 DEF ReloadInv, CutIn
<1>7. FreshInv'
  BY <1>2, <1>5 DEF FreshInv, CutIn, Loading
<1> QED
  BY <1>4, <1>6, <1>7

\* A retry notes the created_at of a question that is shown, and so was read by the
\* reload under way.
LEMMA RetryKeepsView ==
  ASSUME ViewInv, NEW a \in Ask, Retry(a)
  PROVE  ViewInv'
<1> USE DEF ViewInv
<1>1. /\ UNCHANGED <<chat, stored, created, ask, deleting, open, shown, temp, tab, load, unread,
                     stale>>
      /\ open /\ Question(a) \in shown /\ Question(a) \in stored /\ cut' = created[Question(a)]
  BY DEF Retry, rowVars, viewVars, histVars, Question
<1>2. \A S : Question(a) \in S => \E m \in S : created'[m] = cut'
  BY <1>1
<1>3. TabInv' /\ CutInv'
  BY <1>1, <1>2 DEF TabInv, CutInv, CutIn
<1>4. ReloadInv'
  BY <1>1, <1>2 DEF ReloadInv, CutIn
<1>5. FreshInv'
  BY <1>1, <1>2 DEF FreshInv, CutIn, Loading
<1> QED
  BY <1>3, <1>4, <1>5

\* A truncation takes the same rows from the chat and, as it shows the question, from
\* the tab.
LEMMA TruncationKeepsView ==
  ASSUME TypeOK, ViewInv, NEW a \in Ask, Truncated(a)
  PROVE  ViewInv'
<1> USE DEF ViewInv
<1> DEFINE here == \E m \in shown : created[m] = cut
<1>1. Goes(a, "none") /\ ask'[a].last = ask[a].last /\ tab' = [tab EXCEPT ![a] = "open"]
  BY SendsAsk DEF Truncated, Sends
<1>2. /\ UNCHANGED <<chat, created, deleting, open, load, unread>> /\ cut # 0 /\ cut' = 0
      /\ stored' = {m \in stored : ~(created[m] >= cut)}
      /\ shown' = IF here THEN {m \in shown : created[m] < cut} ELSE shown
      /\ temp' = IF open THEN (IF here THEN {} ELSE temp) \cup {a} ELSE temp
      /\ (stale' # "maybe" => stale' = stale /\ ~Loading)
  BY DEF Truncated, CommitTruncation, Deletes, From
<1>3. /\ tab \in [Ask -> {"none", "open", "closed", "done"}] /\ cut \in Nat
      /\ created \in [Message -> Nat] /\ stored \in SUBSET Message
      /\ shown \in SUBSET Message
  BY DEF TypeOK
<1>4. \A b \in Ask : tab'[b] = "done" => b # a /\ tab[b] = "done"
  BY <1>1, <1>3
<1>5. TabInv' /\ CutInv'
  BY <1>1, <1>2, <1>3 DEF TabInv, CutInv, CutIn, Goes
<1>6. ReloadInv'
  BY <1>2 DEF ReloadInv, Loading
<1>7. FreshInv'
  <2> SUFFICES ASSUME stale' = "no" PROVE FreshInv'
    BY DEF FreshInv
  <2>1. /\ ~chat /\ open => deleting # "none"
        /\ chat => shown \subseteq stored
        /\ chat /\ open => here /\ stored \ shown \subseteq unread
        /\ ~open => shown = {}
        /\ \A b \in Ask : tab[b] = "done" /\ load[b].pc = "none"
              => b \notin temp /\ Question(b) \notin unread
    BY <1>2 DEF FreshInv, TabInv, CutIn
  <2>2. chat => shown' \subseteq stored'
    <3>1. CASE open
      BY <1>2, <1>3, <2>1, <3>1
    <3>2. CASE ~open
      BY <1>2, <2>1, <3>2
    <3> QED
      BY <3>1, <3>2
  <2>3. chat /\ open => stored' \ shown' \subseteq unread
    BY <1>2, <1>3, <2>1
  <2>4. \A b \in Ask : tab'[b] = "done" /\ load[b].pc = "none"
              => b \notin temp' /\ Question(b) \notin unread
    BY <1>2, <1>4, <2>1
  <2> QED
    BY <1>2, <2>1, <2>2, <2>3, <2>4 DEF FreshInv, CutIn
<1> QED
  BY <1>5, <1>6, <1>7

\* The tab closes its end of a stream; after [DONE] it asks for the rows.
LEMMA ClosingKeepsView ==
  ASSUME TypeOK, ViewInv, \/ Abort \/ \E a \in Ask : Hear(a) \/ ConnectionBreaks(a)
  PROVE  ViewInv'
<1> USE DEF ViewInv, rowVars, histVars, changeVars
<1>1. tab \in [Ask -> {"none", "open", "closed", "done"}]
  BY DEF TypeOK
<1>2. ASSUME NEW a \in Ask, NEW here \in BOOLEAN, Closes(a, "closed", here),
             UNCHANGED <<rowVars, changeVars, open, shown, temp, load, histVars>>
      PROVE  ViewInv'
  <2>1. /\ Goes(a, ask[a].pc) /\ ask'[a].last = "none"
        /\ tab' = [tab EXCEPT ![a] = "closed"]
    BY <1>2, ClosesAsk DEF Closes
  <2>2. \A b \in Ask : tab'[b] = "done" => b # a /\ tab[b] = "done"
    BY <1>1, <2>1
  <2>3. TabInv' /\ CutInv'
    BY <1>1, <1>2, <2>1 DEF TabInv, CutInv, CutIn, Goes
  <2>4. ReloadInv'
    BY <1>2, <2>2 DEF ReloadInv, CutIn
  <2>5. FreshInv'
    BY <1>2, <2>2 DEF FreshInv, CutIn, Loading
  <2> QED
    BY <2>3, <2>4, <2>5
<1>3. ASSUME NEW a \in Ask, ReceiveDone(a) PROVE ViewInv'
  <2>1. /\ Goes(a, ask[a].pc) /\ ask'[a].last = "none" /\ ask'[a].pc = ask[a].pc
        /\ ask[a].last = "done" /\ tab' = [tab EXCEPT ![a] = "done"]
    BY <1>3, ClosesAsk DEF ReceiveDone, Closes
  <2>2. /\ UNCHANGED <<chat, stored, created, cut, deleting, open, shown, temp, unread>>
        /\ Reloads(a) /\ a \in Loads
    BY <1>3 DEF ReceiveDone, Loads
  <2>3. TabInv' /\ CutInv'
    BY <1>1, <2>1, <2>2 DEF TabInv, CutInv, CutIn, Goes
  <2>4. \A b \in Ask : tab'[b] = "done" => b = a \/ tab[b] = "done"
    BY <1>1, <2>1
  <2> QED
    BY <2>2, <2>3, <2>4, ReloadKeepsView
<1>4. ASSUME NEW a \in Ask, ReceiveError(a) \/ ConnectionBreaks(a) PROVE ViewInv'
  <2>1. PICK here \in BOOLEAN : Closes(a, "closed", here)
    BY <1>4 DEF ReceiveError, ConnectionBreaks
  <2> QED
    BY <1>2, <1>4, <2>1 DEF ReceiveError, ConnectionBreaks
<1>5. CASE Abort
  <2>1. abortable \in Ask
    BY <1>5 DEF Abort, TypeOK, Loads
  <2> QED
    BY <1>2, <1>5, <2>1 DEF Abort
<1> QED
  BY <1>3, <1>4, <1>5 DEF Hear

\* What the user does to the chat, and to what is shown; what becomes of a deletion and
\* a truncation.
LEMMA UserKeepsView ==
  ASSUME TypeOK, ViewInv,
         \/ Rename \/ DeleteChat \/ DeleteAnswered \/ DeleteLost
         \/ TruncationLost \/ TruncationFails \/ Leave \/ Open
  PROVE  ViewInv'
<1> USE DEF ViewInv, rowVars, viewVars, histVars, changeVars
<1>1. CASE Rename
  BY <1>1 DEF Rename, TabInv, CutInv, CutIn, ReloadInv, FreshInv, Loading
<1>2. CASE DeleteChat
  <2>1. /\ UNCHANGED <<created, ask, cut, open, shown, temp, tab, load>>
        /\ ~chat' /\ unread' = {} /\ deleting' # "none"
        /\ (stale' # "maybe" => stale' = stale /\ ~Loading)
    BY <1>2 DEF DeleteChat, Deletes
  <2>2. TabInv' /\ CutInv'
    BY <2>1 DEF TabInv, CutInv
  <2>3. ReloadInv'
    BY <2>1 DEF ReloadInv, Loading
  <2>4. FreshInv'
    BY <2>1 DEF FreshInv
  <2> QED
    BY <2>2, <2>3, <2>4
<1>3. CASE DeleteAnswered
  <2>1. /\ UNCHANGED <<chat, stored, created, ask, cut, tab, load, unread>>
        /\ \/ open' = FALSE /\ shown' = {} /\ temp' = {} /\ stale' = stale
           \/ /\ UNCHANGED <<open, shown, temp>>
              /\ stale' = "maybe" \/ (stale' = stale /\ ~open)
        /\ Loading' = Loading
    BY <1>3 DEF DeleteAnswered, TypeOK, Loading
  <2>2. TabInv' /\ CutInv'
    BY <2>1 DEF TabInv, CutInv, CutIn
  <2>3. ReloadInv'
    BY <2>1 DEF ReloadInv, CutIn
  <2>4. FreshInv'
    BY <2>1 DEF FreshInv, CutIn
  <2> QED
    BY <2>2, <2>3, <2>4
<1>4. CASE DeleteLost
  BY <1>4 DEF DeleteLost, TabInv, CutInv, CutIn, ReloadInv, FreshInv
<1>5. CASE TruncationLost
  BY <1>5 DEF TruncationLost, CommitTruncation, TabInv, CutInv, CutIn, ReloadInv, FreshInv
<1>6. CASE TruncationFails
  <2>1. /\ UNCHANGED <<chat, stored, created, ask, deleting, open, shown, temp, tab, load, unread,
                       stale>>
        /\ cut' = 0 /\ Loading' = Loading
    BY <1>6 DEF TruncationFails, Loading
  <2>2. \A S : cut' # 0 => \E m \in S : created'[m] = cut'
    BY <2>1
  <2>3. TabInv' /\ CutInv' /\ ReloadInv'
    BY <2>1, <2>2 DEF TabInv, CutInv, ReloadInv, CutIn
  <2>4. FreshInv'
    BY <2>1, <2>2 DEF FreshInv, CutIn
  <2> QED
    BY <2>3, <2>4
<1>7. CASE Leave
  <2>1. /\ UNCHANGED <<chat, stored, created, ask, cut, deleting, tab, load, unread, stale>>
        /\ open' = FALSE /\ shown' = {} /\ temp' = {}
    BY <1>7 DEF Leave
  <2>2. TabInv' /\ CutInv' /\ ReloadInv'
    BY <2>1 DEF TabInv, CutInv, CutIn, ReloadInv
  <2>3. FreshInv'
    BY <2>1 DEF FreshInv
  <2> QED
    BY <2>2, <2>3
<1>8. CASE Open
  <2>1. /\ UNCHANGED <<chat, stored, created, ask, cut, deleting, open, shown, temp, tab, unread>>
        /\ Reloads(NoAsk) /\ NoAsk \in Loads
    BY <1>8 DEF Open, Loads
  <2>2. TabInv' /\ CutInv'
    BY <2>1 DEF TabInv, CutInv, CutIn
  <2>3. \A b \in Ask : tab'[b] = "done" => b = NoAsk \/ tab[b] = "done"
    BY <2>1
  <2> QED
    BY <2>1, <2>2, <2>3, ReloadKeepsView
<1> QED
  BY <1>1, <1>2, <1>3, <1>4, <1>5, <1>6, <1>7, <1>8

\* A reload reads all that is stored, and then replaces all that is shown with it, or it
\* fails.
LEMMA LoadKeepsView ==
  ASSUME TypeOK, ViewInv, NEW l \in Loads, LoadRead(l) \/ LoadDone(l) \/ LoadFails(l)
  PROVE  ViewInv'
<1> USE DEF ViewInv, rowVars, changeVars
<1>1. /\ load \in [Loads -> [pc : {"none", "sent", "read"}, rows : SUBSET Message]]
      /\ Ask \subseteq Loads /\ NoLoad.pc = "none"
  BY DEF TypeOK, Loads, NoLoad
<1>2. CASE LoadRead(l)
  <2>1. /\ UNCHANGED <<chat, stored, created, ask, cut, deleting, open, shown, temp, tab, stale>>
        /\ chat /\ load[l].pc = "sent" /\ unread' = {}
    BY <1>2 DEF LoadRead
  <2>2. /\ load'[l].pc = "read" /\ load'[l].rows = stored
        /\ \A k \in Loads \ {l} : load'[k] = load[k]
    BY <1>1, <1>2 DEF LoadRead
  <2>3. TabInv' /\ CutInv'
    BY <2>1 DEF TabInv, CutInv, CutIn
  <2>4. ReloadInv'
    <3> SUFFICES ASSUME stale # "maybe" PROVE ReloadInv'
      BY <2>1 DEF ReloadInv
    <3>1. \A k \in Loads : k # l => load[k].pc = "none"
      BY <2>1 DEF ReloadInv
    <3>2. CutIn(stored)'
      BY <2>1, <2>3 DEF CutInv
    <3> QED
      BY <2>1, <2>2, <3>1, <3>2 DEF ReloadInv, CutIn
  <2>5. FreshInv'
    <3>1. Loading'
      BY <2>2 DEF Loading
    <3>2. \A a \in Ask : load'[a].pc = "none" => load[a].pc = "none"
      BY <1>1, <2>2
    <3> QED
      BY <2>1, <3>1, <3>2 DEF FreshInv, CutIn
  <2> QED
    BY <2>3, <2>4, <2>5
<1>3. CASE LoadDone(l)
  <2>1. /\ UNCHANGED <<chat, stored, created, ask, cut, deleting, tab, unread>>
        /\ load[l].pc = "read" /\ open' = TRUE /\ shown' = load[l].rows /\ temp' = {}
        /\ (stale' # "maybe" => stale # "maybe")
    BY <1>3 DEF LoadDone, Reloaded
  <2>2. /\ load'[l].pc = "none"
        /\ \A k \in Loads \ {l} : load'[k] = load[k]
    BY <1>1, <1>3 DEF LoadDone
  <2>3. TabInv' /\ CutInv'
    BY <2>1 DEF TabInv, CutInv, CutIn
  <2>4. ASSUME stale' # "maybe"
        PROVE  /\ \A k \in Loads : k # l => load[k].pc = "none"
               /\ chat /\ load[l].rows \subseteq stored /\ CutIn(load[l].rows)
               /\ stored \ load[l].rows \subseteq unread
               /\ \A a \in Ask : tab[a] = "done" => Question(a) \notin unread
    BY <2>1, <2>4 DEF ReloadInv
  <2>5. ReloadInv'
    BY <2>2, <2>4 DEF ReloadInv
  <2>6. FreshInv'
    <3> SUFFICES ASSUME stale' = "no" PROVE FreshInv'
      BY DEF FreshInv
    <3>1. CutIn(shown)'
      BY <2>1, <2>4 DEF CutIn
    <3> QED
      BY <2>1, <2>4, <3>1 DEF FreshInv
  <2> QED
    BY <2>3, <2>5, <2>6
<1>4. CASE LoadFails(l)
  BY <1>4 DEF LoadFails, TabInv, CutInv, CutIn, ReloadInv, FreshInv
<1> QED
  BY <1>2, <1>3, <1>4

\* When nothing is under way, a tab shows what is stored, but for what was stored since
\* the last reload, which may be the very answer that it was for; temporary ids are left
\* over only of asks that were not done.  Excepted is a tab that had two reloads at once,
\* or one while rows were deleted, that has lost the reply of a reload, a truncation or a
\* deletion, or that opened the chat while it was being deleted, up to a reload with none
\* of that (ChatContext.tsx:65-74, 90-101, 141-147, 188-199, 210-242).
THEOREM TabShowsWhatIsStored == Spec => []ShowsWhatIsStored
<1>1. ASSUME Init PROVE ViewInv
  <2>1. /\ chat = TRUE /\ stored = {} /\ shown = {} /\ cut = 0
        /\ \A a \in Ask : tab[a] = "none" /\ ask[a].last = "none"
        /\ \A l \in Loads : load[l].pc = "none"
        /\ open = TRUE
    BY <1>1 DEF Init, NotAsked, NoLoad
  <2> QED
    BY <2>1 DEF ViewInv, TabInv, CutInv, CutIn, ReloadInv, FreshInv
<1>2. TypeOK /\ TimesInv /\ SeenInv /\ ViewInv /\ [Next]_vars => ViewInv'
  <2> SUFFICES ASSUME TypeOK, TimesInv, SeenInv, ViewInv, [Next]_vars PROVE ViewInv'
    OBVIOUS
  <2>1. CASE UNCHANGED vars
    BY <2>1 DEF vars, ViewInv, TabInv, CutInv, CutIn, ReloadInv, FreshInv, Loading
  <2>2. ASSUME NEW a \in Ask,
               Serve(a) \/ StreamToken(a) \/ StreamDone(a) \/ StreamCancelled(a)
        PROVE  ViewInv'
    BY <2>2, ServerAnswers, AnswersKeepView DEF ViewInv
  <2>3. ASSUME NEW a \in Ask, Send(a) \/ Retry(a) \/ Truncated(a)
        PROVE  ViewInv'
    BY <2>3, SendKeepsView, RetryKeepsView, TruncationKeepsView
  <2>4. CASE Abort \/ \E a \in Ask : Hear(a) \/ ConnectionBreaks(a)
    BY <2>4, ClosingKeepsView
  <2>5. CASE \/ Rename \/ DeleteChat \/ DeleteAnswered \/ DeleteLost
             \/ TruncationLost \/ TruncationFails \/ Leave \/ Open
    BY <2>5, UserKeepsView
  <2>6. ASSUME NEW l \in Loads, LoadRead(l) \/ LoadDone(l) \/ LoadFails(l)
        PROVE  ViewInv'
    BY <2>6, LoadKeepsView
  <2> QED
    BY <2>1, <2>2, <2>3, <2>4, <2>5, <2>6 DEF Next
<1>3. TypeOK /\ ViewInv => ShowsWhatIsStored
  <2> SUFFICES ASSUME TypeOK, ViewInv, open, Settled PROVE ShowsWhatIsStored
    BY DEF ShowsWhatIsStored
  <2>1. stale = "no" /\ ~Loading /\ chat
    BY DEF Settled, ViewInv, FreshInv
  <2>2. \A a \in Ask : load[a].pc = "none"
    BY <2>1 DEF Loading, Loads
  <2>3. shown \subseteq stored /\ stored \ shown \subseteq unread
    BY <2>1 DEF ViewInv, FreshInv
  <2>4. \A a \in Ask : tab[a] = "done" => a \notin temp /\ Question(a) \notin unread
    BY <2>1, <2>2 DEF ViewInv, FreshInv
  <2> QED
    BY <2>3, <2>4 DEF ShowsWhatIsStored, Question
<1> QED
  BY <1>1, <1>2, <1>3, ChatTypeCorrect, TimesHold, SeenHolds, PTL DEF Spec
--------------------------------------------------------------------------------
(* How an ask comes to its end.                                            *)

\* What an ask has before it on the server.
StepsOfAsk(me) ==
    CASE me.pc = "none"   -> 7
      [] me.pc = "sent"   -> 6
      [] me.pc = "begun"  -> 5
      [] me.pc = "read"   -> 4
      [] me.pc = "stream" -> IF me.content THEN 2 ELSE 3
      [] me.pc = "save"   -> 1
      [] me.pc = "ended"  -> 0

AsksAdvance ==
    \A a \in Ask : <<ask[a].pc, ask[a].content>> # <<ask'[a].pc, ask'[a].content>>
                      => StepsOfAsk(ask'[a]) < StepsOfAsk(ask[a])

\* An ask only goes on, in seven steps at most, whatever becomes of its chat, its tab and
\* the model: it is never taken up again, and an ask that ended stays ended
\* (routers/query.py:77-107, 149-166, 301-318, ChatContext.tsx:188-207).
THEOREM AsksOnlyAdvance == Spec => [][AsksAdvance]_vars
<1>1. TypeOK /\ TypeOK' /\ [Next]_vars => [AsksAdvance]_vars
  <2> SUFFICES ASSUME TypeOK, TypeOK', [Next]_vars, NEW a \in Ask,
                      <<ask[a].pc, ask[a].content>> # <<ask'[a].pc, ask'[a].content>>
               PROVE  StepsOfAsk(ask'[a]) < StepsOfAsk(ask[a])
    BY DEF AsksAdvance
  <2>1. ask[a] \in AskRecord /\ ask'[a] \in AskRecord
    BY DEF TypeOK, AskRecord
  <2>2. CASE \E b \in Ask : Served(b)
    <3>1. PICK b \in Ask : Served(b)
      BY <2>2
    <3>2. a = b
      BY <3>1 DEF Served
    <3> QED
      BY <2>1, <3>1, <3>2 DEF Served, StepsOfAsk, AskRecord
  <2>3. CASE \E b \in Ask : Sends(b)
    <3>1. PICK b \in Ask : Sends(b)
      BY <2>3
    <3>2. Goes(b, "none") /\ ask'[b].pc = "sent"
      BY <3>1, SendsAsk
    <3>3. a = b
      BY <3>2 DEF Goes
    <3> QED
      BY <3>2, <3>3 DEF Goes, StepsOfAsk
  <2>4. CASE \E b \in Ask, how \in {"closed", "done"}, here \in BOOLEAN :
                Closes(b, how, here) /\ (here \/ At(b, "sent"))
    <3>1. PICK b \in Ask, how \in {"closed", "done"}, here \in BOOLEAN :
                Closes(b, how, here) /\ (here \/ At(b, "sent"))
      BY <2>4
    <3>2. Goes(b, ask[b].pc) /\ ask'[b].pc = IF here THEN ask[b].pc ELSE "ended"
      BY <3>1, ClosesAsk
    <3>3. a = b
      BY <3>2 DEF Goes
    <3>4. ask'[b].content = ask[b].content
      BY <3>1 DEF Closes, TypeOK
    <3> QED
      BY <3>1, <3>2, <3>3, <3>4 DEF At, StepsOfAsk
  <2> QED
    BY <2>2, <2>3, <2>4, AskSteps
<1> QED
  BY <1>1, ChatTypeCorrect, PTL DEF Spec

\* As long as the tab's end of a stream is open, the server has still to send something
\* on it or has sent the event that ends it; and a tab that shows an answer coming has
\* such an end, which it can also close.
TabsAreServed ==
    /\ \A a \in Ask : tab[a] = "open" => \/ ask[a].pc \in {"sent", "begun", "read", "stream"}
                                         \/ ask[a].last # "none"
    /\ streaming => abortable \in Ask /\ tab[abortable] = "open"

\* No tab waits for an answer that nobody will send: a request that is refused, a stream
\* that fails, times out or ends, with or without a token, tells the tab so, and the
\* spinner belongs to an ask that is still served
\* (routers/query.py:149-166, 266-318, ChatContext.tsx:103-147, 188-207).
THEOREM NoTabWaitsForNothing == Spec => []TabsAreServed
<1>1. Init => TabsAreServed
  BY DEF Init, TabsAreServed
<1>2. TypeOK /\ TabsAreServed /\ [Next]_vars => TabsAreServed'
  <2> SUFFICES ASSUME TypeOK, TabsAreServed, [Next]_vars
               PROVE  TabsAreServed'
    OBVIOUS
  <2> USE DEF TabsAreServed
  <2>1. tab \in [Ask -> {"none", "open", "closed", "done"}]
    BY DEF TypeOK
  <2>2. CASE \E a \in Ask : Served(a)
    BY <2>2 DEF Served
  <2>3. ASSUME NEW a \in Ask, Sends(a) PROVE TabsAreServed'
    <3>1. /\ ask'[a].pc = "sent" /\ \A b \in Ask \ {a} : ask'[b] = ask[b]
      BY <2>3, SendsAsk DEF Goes
    <3>2. /\ tab' = [tab EXCEPT ![a] = "open"] /\ abortable' = a
      BY <2>3 DEF Sends
    <3> QED
      BY <2>1, <3>1, <3>2
  <2>4. ASSUME NEW a \in Ask, NEW how \in {"closed", "done"}, NEW here \in BOOLEAN,
               Closes(a, how, here)
        PROVE  TabsAreServed'
    <3>1. \A b \in Ask \ {a} : ask'[b] = ask[b]
      BY <2>4, ClosesAsk DEF Goes
    <3>2. tab' = [tab EXCEPT ![a] = how] /\ streaming' = FALSE
      BY <2>4 DEF Closes
    <3> QED
      BY <2>1, <3>1, <3>2
  <2>5. CASE UNCHANGED <<ask, tab, streaming, abortable>>
    BY <2>5
  <2> QED
    BY <2>2, <2>3, <2>4, <2>5, AskSteps
<1> QED
  BY <1>1, <1>2, ChatTypeCorrect, PTL DEF Spec
================================================================================
