---------------------------- MODULE SampleChunks ----------------------------
(***************************************************************************)
(* How the versions of a series share their samples (Samples and Series,   *)
(* src/src/domain.rs): a version is a queue of references to chunks of a   *)
(* fixed size, whose first may have samples in front that are gone.  A     *)
(* clone copies the references; a chunk that somebody else refers to is    *)
(* copied before it is written.                                            *)
(***************************************************************************)
EXTENDS Naturals, FiniteSets, SequencesExt, Filters

CONSTANTS
  Holders,    \* who may hold a version: the collector, snapshots, the display
  ChunkSize,  \* 32 in the code
  MaxKept,    \* samples a series keeps, 600 in the code
  MaxTaken, \* bounds: when samples are taken, and versions that are dropped,
  MaxEdits    \* selected from or revalued

ASSUME ChunksAssumption ==
  ChunkSize \in Nat \ {0} /\ MaxKept \in Nat \ {0} /\ MaxTaken \in Nat
  /\ MaxEdits \in Nat

VARIABLES
  heap,      \* the chunks there are, by reference
  version,   \* per holder: the chunks of its version, and samples gone in front
  taken,     \* the time
  edits

chunksVars == <<heap, version, taken, edits>>

SampleTimes == 0..MaxTaken
Readings == {"measured", "revalued"}
NoSamples == [chunks |-> <<>>, offset |-> 0, len |-> 0]

ChunksInit ==
  /\ heap = <<>> /\ version = [h \in Holders |-> NoSamples]
  /\ taken = 0 /\ edits = 0

-----------------------------------------------------------------------------
(* Reading a version *)

\* iter
Iterated(v) ==
  LET all == FlattenSeq([i \in DOMAIN v.chunks |-> heap[v.chunks[i]]])
  IN  SubSeq(all, v.offset + 1, Len(all))

\* get: chunks are full but for the last.
At(v, i) ==
  LET k == i - 1 + v.offset
  IN  heap[v.chunks[(k \div ChunkSize) + 1]][(k % ChunkSize) + 1]

LastOf(v) == Last(heap[Last(v.chunks)])

\* What the versions are to those who read them.
Histories == INSTANCE SampleHistory
  WITH Times <- SampleTimes, history <- [h \in Holders |-> Iterated(version[h])]

-----------------------------------------------------------------------------
(* Writing one *)

Referred(versions) == UNION {ToSet(versions[h].chunks) : h \in Holders}

\* References nobody has, of which there are n at least; what nobody refers to
\* any more is freed.
FreeRefs(n) ==
  LET all == 1..Cardinality(DOMAIN heap) + n
  IN  Filtered([r \in all |-> r], all \ DOMAIN heap)

NewRef == FreeRefs(1)[1]

Set(h, v, chunks) ==
  LET all == [version EXCEPT ![h] = v]
  IN  /\ version' = all
      /\ heap' = [r \in Referred(all) |-> IF r \in DOMAIN chunks THEN chunks[r] ELSE heap[r]]

IsShared(h, r) == \E g \in Holders \ {h} : r \in ToSet(version[g].chunks)

\* Mutant: the unfinished chunk is written where it is.
GrownInPlace(h, sample) ==
  LET v == version[h]
      tail == Last(v.chunks)
  IN  IF v.chunks = <<>> \/ Len(heap[tail]) = ChunkSize
      THEN [chunks |-> Append(v.chunks, NewRef), at |-> NewRef, chunk |-> <<sample>>]
      ELSE [chunks |-> v.chunks, at |-> tail, chunk |-> Append(heap[tail], sample)]

\* push: a new chunk after a full one, and a copy of an unfinished one that
\* somebody else refers to.
Grown(h, sample) ==
  LET v == version[h]
      tail == Last(v.chunks)
  IN  IF v.chunks = <<>> \/ Len(heap[tail]) = ChunkSize
      THEN [chunks |-> Append(v.chunks, NewRef), at |-> NewRef, chunk |-> <<sample>>]
      ELSE LET r == IF IsShared(h, tail) THEN NewRef ELSE tail
           IN  [chunks |-> Append(Front(v.chunks), r), at |-> r,
                chunk |-> Append(heap[tail], sample)]

\* Mutant: the samples gone of a chunk that went are counted on.
PoppedKeepingOffset(v, firstLen) ==
  IF v.offset + 1 = firstLen
  THEN [chunks |-> Tail(v.chunks), offset |-> v.offset + 1, len |-> v.len - 1]
  ELSE [chunks |-> v.chunks, offset |-> v.offset + 1, len |-> v.len - 1]

\* pop_front: a first chunk all of whose samples are gone goes with them.
Popped(v, firstLen) ==
  IF v.offset + 1 = firstLen
  THEN [chunks |-> Tail(v.chunks), offset |-> 0, len |-> v.len - 1]
  ELSE [chunks |-> v.chunks, offset |-> v.offset + 1, len |-> v.len - 1]

\* Series::push: one sample of a time, and as many as a series keeps.
Record(h) ==
  LET v == version[h]
      grown == Grown(h, [at |-> taken, value |-> "measured"])
      longer == [chunks |-> grown.chunks, offset |-> v.offset, len |-> v.len + 1]
      firstLen == IF Len(grown.chunks) = 1 THEN Len(grown.chunk)
                  ELSE Len(heap[Head(grown.chunks)])
  IN  /\ v.chunks # <<>> => LastOf(v).at # taken
      /\ Set(h, IF longer.len > MaxKept THEN Popped(longer, firstLen) ELSE longer,
             [r \in {grown.at} |-> grown.chunk])
      /\ UNCHANGED <<taken, edits>>

PassTime == taken < MaxTaken /\ taken' = taken + 1 /\ UNCHANGED <<heap, version, edits>>

\* A snapshot is taken, or takes the place of another.
Clone(from, to) ==
  /\ from # to
  /\ Set(to, version[from], <<>>)
  /\ UNCHANGED <<taken, edits>>

Edit == edits < MaxEdits /\ edits' = edits + 1 /\ UNCHANGED taken

DropVersion(h) == Set(h, NoSamples, <<>>) /\ Edit

\* A version made anew from a sequence of samples, in chunks of its own.
Collected(samples) ==
  LET n == (Len(samples) + ChunkSize - 1) \div ChunkSize
      refs == SubSeq(FreeRefs(n), 1, n)
  IN  [version |-> [chunks |-> refs, offset |-> 0, len |-> Len(samples)],
       chunks |-> [r \in ToSet(refs) |->
         LET i == CHOOSE i \in DOMAIN refs : refs[i] = r
         IN  SubSeq(samples, (i - 1) * ChunkSize + 1,
                    IF i * ChunkSize < Len(samples) THEN i * ChunkSize ELSE Len(samples))]]

\* retain
RetainUpTo(h, last) ==
  LET made == Collected(Filtered(Iterated(version[h]), Histories!UpTo(last)))
  IN  Set(h, made.version, made.chunks) /\ Edit

\* Arc::make_mut of every chunk: the references the version has afterwards.
OwnChunks(h) ==
  LET old == version[h].chunks
  IN  [i \in DOMAIN old |-> IF IsShared(h, old[i]) THEN FreeRefs(Len(old))[i] ELSE old[i]]

\* iter_mut: the samples that are not gone get another value.
Rewrite(h) ==
  LET v == version[h]
      refs == OwnChunks(h)
      valued(i, k, s) == IF i > 1 \/ k > v.offset THEN [s EXCEPT !.value = "revalued"] ELSE s
  IN  /\ Set(h, [v EXCEPT !.chunks = refs],
             [r \in ToSet(refs) |->
               LET i == CHOOSE i \in DOMAIN refs : refs[i] = r
                   chunk == heap[v.chunks[i]]
               IN  [k \in DOMAIN chunk |-> valued(i, k, chunk[k])]])
      /\ Edit

ChunksNext ==
  \/ PassTime
  \/ \E h \in Holders :
       \/ Record(h) \/ DropVersion(h) \/ Rewrite(h)
       \/ \E to \in Holders : Clone(h, to)
       \/ \E last \in SampleTimes : RetainUpTo(h, last)

ChunksSpec == ChunksInit /\ [][ChunksNext]_chunksVars

-----------------------------------------------------------------------------
\* Access by index, which takes all chunks but the last for full, and the
\* iterator agree on every sample, whatever went in front, was cloned and grew.
IndexIsIteration(v) ==
  /\ v.len = Len(Iterated(v))
  /\ \A i \in 1..v.len : At(v, i) = Iterated(v)[i]

\* Versions that share chunks are values, however they are read: recording,
\* trimming, selecting and revaluing one never shows in a snapshot that was
\* cloned from it, nor the other way round.
VersionsAreValues ==
  /\ Histories!HistorySpec
  /\ [](\A h \in Holders : IndexIsIteration(version[h]))

=============================================================================
