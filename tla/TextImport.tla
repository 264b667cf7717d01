----------------------------- MODULE TextImport -----------------------------
(***************************************************************************)
(* ImportText (writer_text.go): a text is cut into chunks of bounded size   *)
(* that may overlap, and these replace the source's chunks in the index in  *)
(* several batches, each of which may fail.                                 *)
(*                                                                         *)
(* A text is the sequence of its bytes; of a byte only counts what it means *)
(* for cutting: "c" a letter, "s" a space, "n" a line feed, "r" a carriage  *)
(* return, "w" the first of a letter of four bytes, "t" a later one.        *)
(***************************************************************************)
EXTENDS Integers, Sequences, FiniteSets, FiniteSetsExt, SequencesExt

CONSTANTS Texts,      \* what readers deliver: sequences of bytes
          ChunkSizes, \* values of MaxChunkBytes
          Overlaps,   \* values of OverlapBytes
          BatchSizes  \* values of BatchSize

ASSUME TextImportAssumption ==
  /\ Texts \subseteq Seq({"c", "s", "n", "r", "w", "t"}) /\ ChunkSizes \subseteq Nat \ (0 .. 3)
  /\ Overlaps \subseteq Nat /\ BatchSizes \subseteq Nat \ {0}

VARIABLES
  input,     \* the bytes the reader delivers
  options,   \* [max, overlap, batch]
  cutter,    \* textChunkReader's [start, end]
  chunks,    \* ghost: the chunks cut so far
  pending,   \* ordinals in the batch that is being filled
  result,    \* [deleted, chunks, end]: TextImportResult
  indexed,   \* the source's chunks in the index: ordinals, and -1 for the old ones
  importing  \* "cutting", "eof", "done", "failed"

textVars == <<input, options, cutter, chunks, pending, result, indexed, importing>>

-----------------------------------------------------------------------------
(* Cutting *)

UTFMax == 4
Smaller(a, b) == IF a < b THEN a ELSE b
Larger(a, b) == IF a > b THEN a ELSE b

RuneStart(b) == b # "t"
Width(b) == IF b = "w" THEN 4 ELSE 1

\* utf8.Valid: every first byte has its later ones and they have no others.
ValidText(bytes) ==
  \A i \in 1 .. Len(bytes) :
    /\ bytes[i] = "w" => /\ i + 3 <= Len(bytes)
                         /\ \A j \in 1 .. 3 : bytes[i + j] = "t"
    /\ bytes[i] = "t" => \E j \in 1 .. 3 : i - j >= 1 /\ bytes[i - j] = "w"

\* preferredTextBoundary: behind the last paragraph, line or space that ends at minimum
\* or later, or else at the end.
PreferredTextBoundary(buffer, minimum) ==
  LET Ends(Sort(_)) == {i \in 1 .. Len(buffer) : i >= minimum /\ Sort(i)}
      Paragraph(i) == /\ buffer[i] = "n"
                      /\ \/ i > 1 /\ buffer[i - 1] = "n"
                         \/ i > 2 /\ buffer[i - 1] = "r" /\ buffer[i - 2] = "n"
      Line(i)  == buffer[i] \in {"n", "r"}
      Space(i) == buffer[i] \in {"n", "r", "s"}
  IN  IF Ends(Paragraph) # {} THEN Max(Ends(Paragraph))
      ELSE IF Ends(Line) # {} THEN Max(Ends(Line))
      ELSE IF Ends(Space) # {} THEN Max(Ends(Space))
      ELSE Len(buffer)

Buffer == SubSeq(input, cutter.start + 1,
                 Smaller(cutter.start + options.max + UTFMax, Len(input)))

\* Where a rune starts at or before n bytes into the buffer.
RuneBefore(n) == Max({0} \cup {i \in 1 .. n : RuneStart(Buffer[i + 1])})

AtEOF == Len(Buffer) = 0 \/ cutter.start + Len(Buffer) <= cutter.end

Longest == IF Len(Buffer) > options.max THEN RuneBefore(options.max) ELSE Len(Buffer)

Cuttable == Longest > 0 /\ ValidText(SubSeq(Buffer, 1, Longest))

\* Mutant: the boundary may lie in what the last chunk has.
AnyBoundary == IF Len(Buffer) <= options.max THEN Len(Buffer)
               ELSE PreferredTextBoundary(SubSeq(Buffer, 1, Longest), Longest \div 2)

Cut == IF Len(Buffer) <= options.max THEN Len(Buffer)
       ELSE PreferredTextBoundary(SubSeq(Buffer, 1, Longest),
                                  Larger(Longest \div 2, cutter.end - cutter.start + 1))

\* How far the reader goes on: the overlap is rounded down to a rune, and leaves room
\* for the next one.
Overlapping(cut) ==
  IF cut = Len(Buffer) THEN cut
  ELSE LET overlap == Smaller(Smaller(options.overlap, cut - 1),
                              options.max - Width(Buffer[cut + 1]))
           from    == cut - overlap
       IN  Min({cut} \cup {i \in from .. cut - 1 : RuneStart(Buffer[i + 1])})

-----------------------------------------------------------------------------

TextInit ==
  /\ input \in Texts
  /\ options \in {o \in [max : ChunkSizes, overlap : Overlaps, batch : BatchSizes] :
                    o.overlap < o.max}
  /\ cutter = [start |-> 0, end |-> 0] /\ chunks = <<>> /\ pending = {}
  /\ result = [deleted |-> FALSE, chunks |-> 0, end |-> 0]
  /\ indexed = {-1} /\ importing = "cutting"

\* A batch may fail and have been applied all the same.
Outcomes == {"ok", "lost", "applied"}

\* Mutant: what was attempted counts.
Attempted(outcome) == TRUE

Counts(outcome) == outcome = "ok"

\* flush.
Flush(outcome, next) ==
  /\ indexed' = IF outcome = "lost" THEN indexed ELSE indexed \cup pending
  /\ result' = IF Counts(outcome) /\ pending # {}
                 THEN [result EXCEPT !.chunks = Max(pending) + 1,
                                     !.end = chunks[Max(pending) + 1].end]
                 ELSE result
  /\ pending' = {}
  /\ importing' = IF outcome = "ok" THEN next ELSE "failed"
  /\ UNCHANGED <<input, options, cutter, chunks>>

\* The old chunks go in a batch of their own, once the first chunk is good.
DeleteOld(outcome) ==
  /\ ~result.deleted /\ importing = "cutting"
  /\ AtEOF \/ Cuttable
  /\ indexed' = IF outcome = "lost" THEN indexed ELSE indexed \ {-1}
  /\ result' = [result EXCEPT !.deleted = (outcome = "ok")]
  /\ importing' = IF outcome = "ok" THEN "cutting" ELSE "failed"
  /\ UNCHANGED <<input, options, cutter, chunks, pending>>

\* The next chunk, which joins the batch...
NextChunk ==
  /\ result.deleted /\ importing = "cutting" /\ ~AtEOF /\ Cuttable
  /\ Cardinality(pending) < options.batch
  /\ chunks' = Append(chunks, [start |-> cutter.start, end |-> cutter.start + Cut])
  /\ pending' = pending \cup {Len(chunks)}
  /\ cutter' = [start |-> cutter.start + Overlapping(Cut), end |-> cutter.start + Cut]
  /\ UNCHANGED <<input, options, result, indexed, importing>>

\* ...which goes when it is full, or before when its bytes would be too many.
FlushBatch(outcome) ==
  /\ importing = "cutting" /\ pending # {}
  /\ Cardinality(pending) = options.batch \/ (~AtEOF /\ Cuttable)
  /\ Flush(outcome, "cutting")

\* A chunk that is not text, or over the limits for a document, ends the import.
BadChunk ==
  /\ importing = "cutting" /\ ~AtEOF /\ Cardinality(pending) < options.batch
  /\ importing' = "failed"
  /\ UNCHANGED <<input, options, cutter, chunks, pending, result, indexed>>

LastFlush(outcome) ==
  /\ result.deleted /\ importing = "cutting" /\ AtEOF
  /\ Cardinality(pending) < options.batch
  /\ Flush(IF pending = {} THEN "ok" ELSE outcome, "done")

TextNext ==
  \/ NextChunk \/ BadChunk
  \/ \E outcome \in Outcomes : DeleteOld(outcome) \/ FlushBatch(outcome) \/ LastFlush(outcome)

TextSpec == TextInit /\ [][TextNext]_textVars

-----------------------------------------------------------------------------
(* Properties *)

\* Chunks are valid text of at most MaxChunkBytes; each starts before or where the last
\* one ended, repeats no more than OverlapBytes of it and ends behind it (TextChunkOptions'
\* comments); and when the reader is at the end no byte has been left out.  In a text that
\* is not valid a chunk may lie within the last one: the next call finds the error.
ChunksCoverText ==
  LET Bytes(c) == SubSeq(input, c.start + 1, c.end)
  IN  /\ \A k \in DOMAIN chunks :
           /\ chunks[k].end - chunks[k].start \in 1 .. options.max
           /\ ValidText(Bytes(chunks[k]))
           /\ k > 1 => /\ chunks[k - 1].start < chunks[k].start
                       /\ chunks[k].start <= chunks[k - 1].end
                       /\ chunks[k - 1].end - chunks[k].start <= options.overlap
                       /\ ValidText(input) => chunks[k - 1].end < chunks[k].end
      /\ chunks # <<>> => chunks[1].start = 0
      /\ importing = "done" =>
           /\ ValidText(input)
           /\ input # <<>> => chunks # <<>> /\ Last(chunks).end = Len(input)

\* TextImportResult is true at every moment, so also when an import ends in the middle:
\* SourceDeleted says that no old chunk is left, the committed chunks are in the index and
\* cover the bytes up to CommittedEndByte, and no new chunk is there before the old ones
\* are gone.  An import without an error has indexed every chunk.
ResultIsTrue ==
  /\ result.deleted \/ indexed \ {-1} # {} => -1 \notin indexed
  /\ 0 .. result.chunks - 1 \subseteq indexed
  /\ result.end = IF result.chunks = 0 THEN 0 ELSE chunks[result.chunks].end
  /\ importing = "done" => indexed = 0 .. Len(chunks) - 1 /\ result.chunks = Len(chunks)

\* An import cuts the text as the options say and tells what of it is in the index.
ImportIsFaithful == ChunksCoverText /\ ResultIsTrue
=============================================================================
