------------------------------ MODULE PromptContext ------------------------------
(***************************************************************************)
(* What a question takes along to the model (services/retrieval.py,        *)
(* services/prompt.py, routers/query.py): of the chunks that chunk_text    *)
(* made, those nearest to the question, packed whole into a token budget,  *)
(* and of the chat its most recent messages, packed into another.          *)
(*                                                                         *)
(* The chat is about the document of Chunking and about another one, no    *)
(* longer than a chunk.  The distances are any that the search could find: *)
(* a ranking of some of the chunks, of which the first few are near.       *)
(***************************************************************************)
EXTENDS Chunking, SequencesExt

CONSTANTS
    TopK,           \* settings.RETRIEVAL_TOP_K: 5
    ContextBudget,  \* settings.CONTEXT_TOKEN_BUDGET: 3000
    HistoryBudget,  \* settings.HISTORY_TOKEN_BUDGET: 1500
    ThisLabel,      \* tokens of "[filename | document_id]" for the one document
    OtherLabel,     \* and for the other
    MaxMessages     \* bound on the messages of the chat

ASSUME LimitsAssumption ==
    /\ TopK \in Nat /\ ContextBudget \in Nat /\ HistoryBudget \in Nat
    /\ MaxMessages \in Nat
\* One chunk always fits: 512 tokens and a label, no longer than a key of S3, in 3000.
ASSUME LabelAssumption ==
    \A label \in {ThisLabel, OtherLabel} :
        label \in Nat /\ Size + label <= ContextBudget
--------------------------------------------------------------------------------
(* Retrieval.                                                              *)

\* The rows of chunks of the two documents; the other one has up to a chunk.
Rows(other) ==
    {[doc |-> "this", index |-> i, tokens |-> chunks[i].count + ThisLabel] :
        i \in DOMAIN chunks}
    \cup IF other = 0 THEN {}
         ELSE {[doc |-> "other", index |-> 1, tokens |-> other + OtherLabel]}

\* ORDER BY distance LIMIT k, of an approximate index and of documents that may be
\* deleted meanwhile: at most k different rows.
Found(other) == {rows \in BoundedSeq(Rows(other), TopK) : IsInjective(rows)}

\* Of rows by distance, the near ones, or all if none is near.
Relevant(rows, near) == IF near = 0 THEN rows ELSE SubSeq(rows, 1, near)
--------------------------------------------------------------------------------
(* A plausible mistake in the place of the definition named in its         *)
(* comment; no specification of this module uses it.                       *)

\* For ContextBlock: the first chunk that does not fit ends the loop.
ContextBlockPrefix(rows) ==
    LET block[n \in 0..Len(rows)] ==
          IF n = 0 THEN [included |-> <<>>, used |-> 0, full |-> FALSE]
          ELSE IF block[n - 1].full \/ block[n - 1].used + rows[n].tokens > ContextBudget
               THEN [block[n - 1] EXCEPT !.full = TRUE]
               ELSE [included |-> Append(block[n - 1].included, rows[n]),
                     used     |-> block[n - 1].used + rows[n].tokens, full |-> FALSE]
    IN block[Len(rows)].included
--------------------------------------------------------------------------------
(* The prompt.  A loop is a function of the number of its turns.           *)

\* One turn of the loop of build_context_block: a chunk that does not fit any more
\* is skipped.
Include(block, row) ==
    IF block.used + row.tokens > ContextBudget THEN block
    ELSE [included |-> Append(block.included, row), used |-> block.used + row.tokens]

ContextBlock(rows) ==
    LET block[n \in 0..Len(rows)] ==
          IF n = 0 THEN [included |-> <<>>, used |-> 0]
          ELSE Include(block[n - 1], rows[n])
    IN block[Len(rows)].included

\* One turn of the loop of build_history_block, of the messages' token counts: the
\* first message that does not fit ends it; if that is the newest, its end is kept.
Recall(block, tokens) ==
    CASE block.full -> block
      [] ~block.full /\ block.used + tokens <= HistoryBudget ->
           [block EXCEPT !.selected = <<tokens>> \o @, !.used = @ + tokens]
      [] OTHER ->
           [block EXCEPT !.full = TRUE, !.selected =
              IF @ = <<>> /\ HistoryBudget > 0 THEN <<HistoryBudget>> ELSE @]

\* From the newest message back.
HistoryBlock(messages) ==
    LET block[n \in 0..Len(messages)] ==
          IF n = 0 THEN [selected |-> <<>>, used |-> 0, full |-> FALSE]
          ELSE Recall(block[n - 1], messages[Len(messages) - n + 1])
    IN block[Len(messages)].selected

\* ask: what makes an answer count as a fallback.
IsFallback(rows, near) ==
    ContextBlock(Relevant(rows, near)) = <<>> \/ (rows # <<>> /\ near = 0)
--------------------------------------------------------------------------------
(* Properties.                                                             *)

Total(counts) ==
    LET sum[n \in 0..Len(counts)] == IF n = 0 THEN 0 ELSE sum[n - 1] + counts[n]
    IN sum[Len(counts)]

Tokens(rows, S) == Total([i \in DOMAIN rows |-> IF i \in S THEN rows[i].tokens ELSE 0])

\* S rather than T: the best of the rows that are in one of the two is in S.
Preferred(S, T) == \A i \in T \ S : \E j \in S \ T : j < i

\* The context is the best that fits: no selection within the budget has a chunk
\* that ranks higher than all the chunks it gives up for it.
BestContext(rows) ==
    LET block == ContextBlock(rows)
        kept  == {i \in DOMAIN rows : Contains(block, rows[i])}
    IN /\ Tokens(rows, kept) <= ContextBudget
       /\ \A S \in SUBSET DOMAIN rows :
             Tokens(rows, S) <= ContextBudget => Preferred(kept, S)

\* The history is the longest end of the chat that fits, and never empty in a chat
\* that has messages.
LongestHistory(messages) ==
    LET size    == Len(messages)
        Latest(n) == SubSeq(messages, size - n + 1, size)
        Fits(n) == Total(Latest(n)) <= HistoryBudget
        most    == CHOOSE n \in 0..size : Fits(n) /\ \A m \in (n + 1)..size : ~Fits(m)
    IN HistoryBlock(messages) =
         IF most = 0 /\ size > 0 /\ HistoryBudget > 0 THEN <<HistoryBudget>> ELSE Latest(most)

\* Whatever text was chunked in whatever blocks, and however its chunks rank: the
\* context is the best that fits, the history the longest, and the answer counts as
\* a fallback exactly when nothing near was found, never because the best chunk
\* exceeds the budget
\* (services/prompt.py:76-150, services/retrieval.py:272-279, routers/query.py:87-93).
PromptFillsBudgets ==
    pc = "done" =>
        /\ \A other \in 0..Size : \A rows \in Found(other) : \A near \in 0..Len(rows) :
              /\ BestContext(Relevant(rows, near))
              /\ IsFallback(rows, near) <=> near = 0
        /\ \A messages \in BoundedSeq(1..(HistoryBudget + 1), MaxMessages) :
              LongestHistory(messages)
================================================================================
