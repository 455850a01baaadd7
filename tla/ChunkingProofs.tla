----------------------------- MODULE ChunkingProofs -----------------------------
(***************************************************************************)
(* Proofs about Chunking for every chunk size, every smaller overlap and   *)
(* texts of any length.                                                    *)
(***************************************************************************)
EXTENDS Chunking, TLAPS

\* CHUNK_STEP is positive, so each turn of the while loop shortens the buffer.
LEMMA StepPositive == Step \in Nat /\ Step > 0 /\ Step + Overlap = Size
BY SizeAssumption, OverlapAssumption DEF Step

\* The grid: each step of the buffer is one more multiple of Step.
LEMMA NextOnGrid ==
  ASSUME NEW n \in Nat
  PROVE  n * Step \in Nat /\ (n + 1) * Step = n * Step + Step
<1> DEFINE s == Step
<1>1. s \in Nat
  BY StepPositive
<1> HIDE DEF s
<1>2. n * s \in Nat /\ (n + 1) * s = n * s + s
  BY <1>1
<1> QED
  BY <1>2 DEF s

\* What chunks.append leaves in the list: a new last chunk, the others as they were.
LEMMA AppendFacts ==
  ASSUME NEW S, NEW s \in Seq(S), NEW e \in S
  PROVE  /\ Append(s, e) \in Seq(S)
         /\ Len(Append(s, e)) = Len(s) + 1
         /\ \A i \in 1..Len(s) : Append(s, e)[i] = s[i]
         /\ Append(s, e)[Len(s) + 1] = e
OBVIOUS

\* A token that is in a chunk stays in one when the list only grows.
LEMMA StaysInSomeChunk ==
  ASSUME NEW t,
         InSomeChunk(t),
         \A i \in 1..Len(chunks) : i \in 1..Len(chunks') /\ chunks'[i] = chunks[i]
  PROVE  InSomeChunk(t)'
<1>1. PICK i \in 1..Len(chunks) :
        chunks[i].start < t /\ t <= chunks[i].start + chunks[i].count
  BY DEF InSomeChunk
<1>2. i \in 1..Len(chunks') /\ chunks'[i] = chunks[i]
  OBVIOUS
<1> QED
  BY <1>1, <1>2, Zenon DEF InSomeChunk

\* chunk_text begins with an empty buffer and an empty list, where the invariant holds.
LEMMA CInit == Init => CInv
BY StepPositive, SizeAssumption, OverlapAssumption, MaxTokensAssumption
   DEF Init, CInv, TypeOK, FullChunks, BufferInv, Covered, NothingLost, ChunkGrid,
       LastChunkIsNew, buffered

\* Encoding one more block onto the buffer keeps the invariant, also in the middle
\* of a chunk.
LEMMA TakeBlockInv == CInv /\ TakeBlock => CInv'
<1> SUFFICES ASSUME CInv, TakeBlock PROVE CInv'
  OBVIOUS
<1> USE DEF CInv, TakeBlock
<1>1. PICK n \in 1..(MaxTokens - read) : read' = read + n
  OBVIOUS
<1>2. TypeOK'
  BY <1>1, MaxTokensAssumption DEF TypeOK
<1>3. FullChunks' /\ ChunkGrid' /\ LastChunkIsNew' /\ NothingLost'
  BY DEF FullChunks, ChunkGrid, LastChunkIsNew, NothingLost
<1>4. BufferInv'
  BY <1>1, MaxTokensAssumption, OverlapAssumption DEF TypeOK, BufferInv, buffered
<1>5. Covered'
  BY DEF Covered, InSomeChunk
<1> QED
  BY <1>2, <1>3, <1>4, <1>5

\* A turn of the while loop keeps the invariant: the chunk it appends is the next
\* one of the grid, and the buffer keeps the overlap.
LEMMA CutInv == CInv /\ Cut => CInv'
<1> SUFFICES ASSUME CInv, Cut PROVE CInv'
  OBVIOUS
<1> USE DEF CInv, TypeOK, Cut, buffered
<1>1. CASE buffered < Size
  <2>1. pc' = "block" /\ UNCHANGED <<read, from, chunks>>
    BY <1>1, SizeAssumption
  <2>2. TypeOK' /\ FullChunks' /\ ChunkGrid' /\ LastChunkIsNew' /\ NothingLost'
    BY <2>1 DEF FullChunks, ChunkGrid, LastChunkIsNew, NothingLost
  <2>3. BufferInv'
    BY <1>1, <2>1 DEF BufferInv
  <2>4. Covered'
    BY <2>1 DEF Covered, InSomeChunk
  <2> QED
    BY <2>2, <2>3, <2>4
<1>2. CASE buffered >= Size
  <2> DEFINE n == Len(chunks)
  <2>1. /\ n \in Nat
        /\ chunks' = Append(chunks, Chunk(from, Size))
        /\ from' = from + Step
        /\ read' = read /\ pc = "cut" /\ pc' = "cut"
    BY <1>2
  <2>2. Chunk(from, Size) \in [start : Nat, count : Nat]
    BY SizeAssumption DEF Chunk
  <2>3. /\ chunks' \in Seq([start : Nat, count : Nat])
        /\ Len(chunks') = n + 1
        /\ \A i \in 1..n : chunks'[i] = chunks[i]
        /\ chunks'[n + 1] = Chunk(from, Size)
    BY <2>1, <2>2, AppendFacts
  <2>4. TypeOK'
    BY <1>2, <2>1, <2>3, StepPositive, OverlapAssumption
  <2>5. FullChunks'
    <3>1. from = n * Step /\ from' = (n + 1) * Step
      BY <2>1, NextOnGrid DEF FullChunks
    <3>2. \A i \in 1..(n + 1) : chunks'[i] = Chunk((i - 1) * Step, Size)
      <4> TAKE i \in 1..(n + 1)
      <4>1. CASE i \in 1..n
        BY <2>1, <2>3, <4>1 DEF FullChunks
      <4>2. CASE i = n + 1
        <5>1. i - 1 = n
          BY <2>1, <4>2
        <5>2. (i - 1) * Step = from
          BY <3>1, <5>1
        <5> QED
          BY <2>3, <4>2, <5>2
      <4>3. i \in 1..n \/ i = n + 1
        BY <2>1
      <4> QED
        BY <4>1, <4>2, <4>3
    <3> QED
      BY <2>3, <3>1, <3>2 DEF FullChunks
  <2>6. BufferInv'
    BY <1>2, <2>1, <2>4, StepPositive, OverlapAssumption DEF BufferInv
  <2>7. Covered'
    <3> SUFFICES ASSUME NEW t \in 1..(from' + Overlap) PROVE InSomeChunk(t)'
      BY <2>1 DEF Covered
    <3>1. CASE t <= from
      <4>1. chunks # <<>>
        <5> SUFFICES ASSUME chunks = <<>> PROVE FALSE
          OBVIOUS
        <5>1. n = 0 /\ from = 0 * Step
          BY <2>1 DEF FullChunks
        <5>2. from = 0
          BY <5>1, StepPositive
        <5> QED
          BY <3>1, <5>2
      <4>2. InSomeChunk(t)
        BY <2>1, <3>1, <4>1, OverlapAssumption DEF Covered
      <4>3. \A i \in 1..n : i \in 1..Len(chunks') /\ chunks'[i] = chunks[i]
        BY <2>1, <2>3
      <4> QED
        BY <4>2, <4>3, StaysInSomeChunk, Zenon
    <3>2. CASE t > from
      <4>1. chunks'[n + 1].start < t /\ t <= chunks'[n + 1].start + chunks'[n + 1].count
        BY <2>1, <2>3, <3>2, StepPositive, SizeAssumption, OverlapAssumption DEF Chunk
      <4> QED
        BY <2>1, <2>3, <4>1 DEF InSomeChunk
    <3> QED
      BY <2>4, <3>1, <3>2
  <2>8. NothingLost'
    BY <2>1 DEF NothingLost
  <2>9. ChunkGrid'
    <3> SUFFICES ASSUME NEW i \in 1..Len(chunks')
                 PROVE  /\ chunks'[i].start = (i - 1) * Step
                        /\ i < Len(chunks') => chunks'[i].count = Size
                        /\ chunks'[i].count \in 1..Size
      BY DEF ChunkGrid
    <3>1. chunks'[i] = Chunk((i - 1) * Step, Size)
      BY <2>1, <2>5 DEF FullChunks
    <3> QED
      BY <3>1, SizeAssumption, OverlapAssumption DEF Chunk
  <2>10. LastChunkIsNew'
    <3> SUFFICES ASSUME NEW i \in 2..Len(chunks')
                 PROVE  chunks'[i].start + chunks'[i].count
                          > chunks'[i - 1].start + chunks'[i - 1].count
      BY DEF LastChunkIsNew
    <3>1. i - 2 \in Nat /\ i - 1 = (i - 2) + 1
      BY <2>1, <2>3
    <3>2. (i - 1) * Step = (i - 2) * Step + Step /\ (i - 2) * Step \in Nat
      BY <3>1, NextOnGrid
    <3>3. /\ chunks'[i] = Chunk((i - 1) * Step, Size)
          /\ chunks'[i - 1] = Chunk((i - 2) * Step, Size)
      <4>1. i \in 1..Len(chunks') /\ i - 1 \in 1..Len(chunks') /\ (i - 1) - 1 = i - 2
        BY <2>1, <2>3
      <4> QED
        BY <2>1, <2>5, <4>1 DEF FullChunks
    <3> QED
      BY <3>2, <3>3, StepPositive, SizeAssumption DEF Chunk
  <2> QED
    BY <2>4, <2>5, <2>6, <2>7, <2>8, <2>9, <2>10
<1> QED
  BY <1>1, <1>2, SizeAssumption

\* The trailing chunk keeps the invariant: it is emitted exactly when the buffer
\* holds tokens no chunk has.
LEMMA FinishInv == CInv /\ Finish => CInv'
<1> SUFFICES ASSUME CInv, Finish PROVE CInv'
  OBVIOUS
<1> USE DEF CInv, TypeOK, buffered
<1> DEFINE n == Len(chunks)
<1>1. /\ n \in Nat /\ from \in Nat /\ read \in Nat /\ from <= read
      /\ pc = "block" /\ pc' = "done" /\ read' = read /\ from' = from
  BY MaxTokensAssumption DEF Finish
<1>a. from = n * Step
  BY <1>1 DEF FullChunks
<1>b. \A i \in 1..n : chunks[i] = Chunk((i - 1) * Step, Size)
  BY <1>1 DEF FullChunks
<1>c. /\ buffered \in Nat /\ buffered < Size
      /\ chunks # <<>> => buffered >= Overlap
  BY <1>1, SizeAssumption DEF BufferInv
<1>d. chunks = <<>> => from = 0
  <2> SUFFICES ASSUME chunks = <<>> PROVE from = 0
    OBVIOUS
  <2>1. from = 0 * Step
    BY <1>a
  <2> QED
    BY <2>1, StepPositive
<1>2. FullChunks' /\ BufferInv' /\ Covered'
  BY <1>1 DEF FullChunks, BufferInv, Covered
<1>3. CASE buffered > 0 /\ (chunks = <<>> \/ buffered > Overlap)
  <2>1. /\ chunks' = Append(chunks, Chunk(from, buffered))
        /\ Chunk(from, buffered) \in [start : Nat, count : Nat]
    BY <1>1, <1>3 DEF Chunk, Finish
  <2>2. /\ chunks' \in Seq([start : Nat, count : Nat])
        /\ Len(chunks') = n + 1
        /\ \A i \in 1..n : chunks'[i] = chunks[i]
        /\ chunks'[n + 1] = Chunk(from, buffered)
    <3> DEFINE last == Chunk(from, buffered)
    <3>1. last \in [start : Nat, count : Nat] /\ chunks' = Append(chunks, last)
      BY <2>1
    <3>2. chunks \in Seq([start : Nat, count : Nat])
      OBVIOUS
    <3> HIDE DEF last
    <3>3. /\ chunks' \in Seq([start : Nat, count : Nat])
          /\ Len(chunks') = n + 1
          /\ \A i \in 1..n : chunks'[i] = chunks[i]
          /\ chunks'[n + 1] = last
      BY <3>1, <3>2, AppendFacts
    <3> QED
      BY <3>3 DEF last
  <2>3. NothingLost'
    <3> SUFFICES ASSUME NEW t \in 1..read PROVE InSomeChunk(t)'
      BY <1>1 DEF NothingLost
    <3>1. CASE t <= from
      <4>1. chunks # <<>>
        BY <1>d, <3>1
      <4>2. InSomeChunk(t)
        BY <1>1, <3>1, <4>1, OverlapAssumption DEF Covered
      <4>3. \A i \in 1..n : i \in 1..Len(chunks') /\ chunks'[i] = chunks[i]
        BY <1>1, <2>2
      <4> QED
        BY <4>2, <4>3, StaysInSomeChunk, Zenon
    <3>2. CASE t > from
      <4>1. chunks'[n + 1].start < t /\ t <= chunks'[n + 1].start + chunks'[n + 1].count
        BY <1>1, <1>c, <2>2, <3>2 DEF Chunk
      <4>2. n + 1 \in 1..Len(chunks')
        BY <1>1, <2>2
      <4> SUFFICES \E i \in 1..Len(chunks') :
                     chunks'[i].start < t /\ t <= chunks'[i].start + chunks'[i].count
        BY Zenon DEF InSomeChunk
      <4> WITNESS n + 1 \in 1..Len(chunks')
      <4> QED
        BY <4>1
    <3> QED
      BY <1>1, <3>1, <3>2
  <2>4. ChunkGrid'
    <3> SUFFICES ASSUME NEW i \in 1..(n + 1)
                 PROVE  /\ chunks'[i].start = (i - 1) * Step
                        /\ i < n + 1 => chunks'[i].count = Size
                        /\ chunks'[i].count \in 1..Size
      BY <2>2 DEF ChunkGrid
    <3>1. CASE i \in 1..n
      <4>1. chunks'[i] = Chunk((i - 1) * Step, Size) /\ Size \in 1..Size
        BY <1>1, <1>b, <2>1, <2>2, <3>1, SizeAssumption, OverlapAssumption
      <4> QED
        BY <4>1 DEF Chunk
    <3>2. CASE i = n + 1
      <4>1. i - 1 = n
        BY <1>1, <3>2
      <4>2. (i - 1) * Step = from
        BY <1>a, <4>1
      <4> QED
        BY <1>1, <1>3, <1>c, <2>2, <3>2, <4>2, SizeAssumption DEF Chunk
    <3> QED
      BY <1>1, <3>1, <3>2
  <2>5. LastChunkIsNew'
    <3> SUFFICES ASSUME NEW i \in 2..(n + 1)
                 PROVE  chunks'[i].start + chunks'[i].count
                          > chunks'[i - 1].start + chunks'[i - 1].count
      BY <2>2 DEF LastChunkIsNew
    <3>1. CASE i \in 2..n
      <4>1. i \in 1..n /\ i - 1 \in 1..n
        BY <1>1, <3>1
      <4>2. chunks'[i] = chunks[i] /\ chunks'[i - 1] = chunks[i - 1]
        BY <2>2, <4>1
      <4>3. chunks[i].start + chunks[i].count > chunks[i - 1].start + chunks[i - 1].count
        BY <3>1 DEF LastChunkIsNew
      <4> QED
        BY <4>2, <4>3
    <3>2. CASE i = n + 1
      <4>1. n - 1 \in Nat /\ n = (n - 1) + 1 /\ i - 1 = n /\ n \in 1..n
        BY <1>1, <3>2
      <4>2. from = (n - 1) * Step + Step /\ (n - 1) * Step \in Nat
        BY <1>a, <4>1, NextOnGrid
      <4>3. chunks'[n] = Chunk((n - 1) * Step, Size)
        BY <1>b, <2>2, <4>1
      <4>4. chunks # <<>> /\ buffered > Overlap
        BY <1>1, <1>3, <4>1
      <4>5. from + buffered > (n - 1) * Step + Size
        BY <1>1, <1>c, <4>2, <4>4, StepPositive, SizeAssumption, OverlapAssumption
      <4>6. chunks'[i].start + chunks'[i].count = from + buffered
        BY <2>2, <3>2 DEF Chunk
      <4>7. chunks'[i - 1].start + chunks'[i - 1].count = (n - 1) * Step + Size
        BY <4>1, <4>3 DEF Chunk
      <4> QED
        BY <4>5, <4>6, <4>7
    <3>3. i \in 2..n \/ i = n + 1
      BY <1>1
    <3> QED
      BY <3>1, <3>2, <3>3
  <2> QED
    BY <1>1, <1>2, <2>2, <2>3, <2>4, <2>5
<1>4. CASE ~(buffered > 0 /\ (chunks = <<>> \/ buffered > Overlap))
  <2>1. chunks' = chunks
    BY <1>4 DEF Finish
  <2>2. chunks = <<>> => read = 0
    BY <1>1, <1>4, <1>c, <1>d
  <2>3. chunks # <<>> => read = from + Overlap
    <3> SUFFICES ASSUME chunks # <<>> PROVE read = from + Overlap
      OBVIOUS
    <3>1. buffered >= Overlap /\ ~(buffered > Overlap /\ buffered > 0)
      BY <1>4, <1>c
    <3>2. from \in Nat /\ read \in Nat
      BY <1>1
    <3> QED
      BY <3>1, <3>2, OverlapAssumption
  <2>4. NothingLost'
    <3> SUFFICES ASSUME NEW t \in 1..read PROVE InSomeChunk(t)'
      BY <1>1 DEF NothingLost
    <3>1. chunks # <<>> /\ t \in 1..(from + Overlap)
      BY <1>1, <2>2, <2>3
    <3>2. InSomeChunk(t)
      BY <1>1, <3>1 DEF Covered
    <3> QED
      BY <2>1, <3>2 DEF InSomeChunk
  <2>5. ChunkGrid' /\ LastChunkIsNew'
    BY <2>1 DEF ChunkGrid, LastChunkIsNew
  <2> QED
    BY <1>1, <1>2, <2>1, <2>4, <2>5
<1> QED
  BY <1>3, <1>4

\* The inductive invariant holds at every step of chunk_text.
THEOREM ChunkingInvariant == Spec => []CInv
<1>1. CInv /\ [Next]_vars => CInv'
  <2> SUFFICES ASSUME CInv, [Next]_vars PROVE CInv'
    OBVIOUS
  <2>1. CASE UNCHANGED vars
    BY <2>1 DEF vars, CInv, TypeOK, FullChunks, BufferInv, Covered, NothingLost, ChunkGrid,
       LastChunkIsNew, InSomeChunk, buffered
  <2> QED
    BY <2>1, TakeBlockInv, CutInv, FinishInv DEF Next
<1> QED
  BY <1>1, CInit, PTL DEF Spec

\* Every variable of chunk_text has its type; the buffer never starts beyond
\* what was read (services/chunking.py:29-31).
THEOREM ChunkingTypeCorrect == Spec => []TypeOK
<1>1. CInv => TypeOK
  BY DEF CInv
<1> QED
  BY ChunkingInvariant, <1>1, PTL

\* chunk_text loses no token, for any chunk size, overlap and split of the text
\* into blocks (services/chunking.py:33-60).
THEOREM NoTokenLost == Spec => []NothingLost
<1>1. CInv => NothingLost
  BY DEF CInv
<1> QED
  BY ChunkingInvariant, <1>1, PTL

\* Chunk boundaries do not depend on the blocks the text arrives in
\* (services/chunking.py:40-49).
THEOREM ChunksOnGrid == Spec => []ChunkGrid
<1>1. CInv => ChunkGrid
  BY DEF CInv
<1> QED
  BY ChunkingInvariant, <1>1, PTL

\* No chunk repeats only what its predecessor holds
\* (services/chunking.py:51-60).
THEOREM NoChunkIsOverlapOnly == Spec => []LastChunkIsNew
<1>1. CInv => LastChunkIsNew
  BY DEF CInv
<1> QED
  BY ChunkingInvariant, <1>1, PTL
================================================================================
