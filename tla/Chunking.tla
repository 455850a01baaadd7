-------------------------------- MODULE Chunking --------------------------------
(***************************************************************************)
(* services/chunking.py: the token stream of a document, which arrives in  *)
(* blocks (a page, a megabyte of text), is cut into chunks of Size tokens  *)
(* of which the last Overlap are repeated at the start of the next chunk.  *)
(*                                                                         *)
(* A token is its position in the stream, so the buffer, always a suffix   *)
(* of what was read, is the interval from + 1 .. read, and a chunk is an   *)
(* interval given by what precedes it and its token_count.                 *)
(***************************************************************************)
EXTENDS Naturals, Sequences

CONSTANTS
    Size,       \* CHUNK_SIZE
    Overlap,    \* CHUNK_OVERLAP
    MaxTokens   \* bound on the tokens of a document

ASSUME SizeAssumption == Size \in Nat
ASSUME OverlapAssumption == Overlap \in Nat /\ Overlap < Size
ASSUME MaxTokensAssumption == MaxTokens \in Nat

Step == Size - Overlap

VARIABLES
    read,    \* how many tokens were encoded so far
    from,    \* how many of them are no longer in buffer_tokens
    chunks,  \* the list under construction
    pc       \* "block": between two blocks; "cut": in the while loop; "done"

vars == <<read, from, chunks, pc>>

buffered == read - from

Chunk(start, count) == [start |-> start, count |-> count]

Init == read = 0 /\ from = 0 /\ chunks = <<>> /\ pc = "block"
--------------------------------------------------------------------------------
(* Plausible mistakes, each in the place of the definition named in its    *)
(* comment; no specification of this module uses them.                     *)

\* For Cut: the buffer is advanced by the chunk, not by the step.
CutNoOverlap ==
    /\ pc = "cut"
    /\ IF buffered >= Size
       THEN /\ chunks' = Append(chunks, Chunk(from, Size))
            /\ from' = from + Size
            /\ UNCHANGED pc
       ELSE pc' = "block" /\ UNCHANGED <<from, chunks>>
    /\ UNCHANGED read

\* For Cut: the loop runs while anything is buffered.
CutToTheEnd ==
    /\ pc = "cut"
    /\ IF buffered > 0
       THEN /\ chunks' = Append(chunks, Chunk(from, IF buffered < Size THEN buffered ELSE Size))
            /\ from' = from + Step
            /\ UNCHANGED pc
       ELSE pc' = "block" /\ UNCHANGED <<from, chunks>>
    /\ UNCHANGED read

\* For Finish: the trailing chunk is emitted whenever tokens are buffered.
FinishAlways ==
    /\ pc = "block"
    /\ chunks' = IF buffered > 0 THEN Append(chunks, Chunk(from, buffered)) ELSE chunks
    /\ pc' = "done"
    /\ UNCHANGED <<read, from>>

\* For Finish: a short text is taken for overlap.
FinishShort ==
    /\ pc = "block"
    /\ chunks' = IF buffered > Overlap THEN Append(chunks, Chunk(from, buffered)) ELSE chunks
    /\ pc' = "done"
    /\ UNCHANGED <<read, from>>
--------------------------------------------------------------------------------
\* The next block that is not blank is encoded onto the buffer.
TakeBlock ==
    /\ pc = "block"
    /\ \E n \in 1..(MaxTokens - read) : read' = read + n
    /\ pc' = "cut"
    /\ UNCHANGED <<from, chunks>>

\* One turn of the while loop, or its end.
Cut ==
    /\ pc = "cut"
    /\ IF buffered >= Size
       THEN /\ chunks' = Append(chunks, Chunk(from, Size))
            /\ from' = from + Step
            /\ UNCHANGED pc
       ELSE pc' = "block" /\ UNCHANGED <<from, chunks>>
    /\ UNCHANGED read

\* After the last block: what is left in the buffer, unless it is only the
\* overlap of the chunk before.
Finish ==
    /\ pc = "block"
    /\ chunks' = IF buffered > 0 /\ (chunks = <<>> \/ buffered > Overlap)
                 THEN Append(chunks, Chunk(from, buffered))
                 ELSE chunks
    /\ pc' = "done"
    /\ UNCHANGED <<read, from>>

Next == TakeBlock \/ Cut \/ Finish

Spec == Init /\ [][Next]_vars
--------------------------------------------------------------------------------
\* Every variable has its type (services/chunking.py:29-31).
TypeOK ==
    /\ read \in 0..MaxTokens
    /\ from \in 0..read
    /\ chunks \in Seq([start : Nat, count : Nat])
    /\ pc \in {"block", "cut", "done"}

InSomeChunk(t) ==
    \E i \in 1..Len(chunks) :
        chunks[i].start < t /\ t <= chunks[i].start + chunks[i].count

\* What the chunks are worth once the list is returned: every token is in a
\* chunk, none is lost between two blocks or at the end
\* (services/chunking.py:33-60).
NothingLost ==
    pc = "done" =>
        \A t \in 1..read : InSomeChunk(t)

\* Where the chunks begin depends on the text alone, not on how extraction split
\* it into blocks: chunk i starts i - 1 steps into the text, and every chunk but
\* the last has Size tokens, so neighbours share exactly Overlap tokens
\* (services/chunking.py:6-8, 40-49).
ChunkGrid ==
    \A i \in 1..Len(chunks) :
        /\ chunks[i].start = (i - 1) * Step
        /\ i < Len(chunks) => chunks[i].count = Size
        /\ chunks[i].count \in 1..Size

\* The last chunk brings tokens the one before it did not have: no chunk is
\* nothing but overlap (services/chunking.py:51-60).
LastChunkIsNew ==
    \A i \in 2..Len(chunks) :
        chunks[i].start + chunks[i].count > chunks[i - 1].start + chunks[i - 1].count
--------------------------------------------------------------------------------
(* The inductive invariant behind the three properties.                    *)

\* Every chunk but a trailing one is full and lies on the grid, and the buffer
\* begins where the next one will.
FullChunks ==
    pc # "done" =>
        /\ from = Len(chunks) * Step
        /\ \A i \in 1..Len(chunks) : chunks[i] = Chunk((i - 1) * Step, Size)

\* Once there is a chunk the buffer holds at least its overlap, and between two
\* blocks less than a chunk.
BufferInv ==
    /\ pc # "done" /\ chunks # <<>> => buffered >= Overlap
    /\ pc = "block" => buffered < Size

\* What is no longer only in the buffer is in a chunk.
Covered == chunks # <<>> /\ pc # "done" => \A t \in 1..(from + Overlap) : InSomeChunk(t)

CInv ==
    /\ TypeOK
    /\ FullChunks
    /\ BufferInv
    /\ Covered
    /\ NothingLost
    /\ ChunkGrid
    /\ LastChunkIsNew
================================================================================
