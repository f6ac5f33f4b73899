--------------------------- MODULE KnowledgeBase ---------------------------
(***************************************************************************)
(* One business's documents (services/kb.py, api/routes/kb.py): an upload  *)
(* is cut into pieces, embedded and stored, documents are deleted, and     *)
(* questions are answered from what a similarity search finds              *)
(* (agents/kb_agent.py).                                                   *)
(*                                                                         *)
(* A text is a sequence of paragraphs, given by their lengths; its         *)
(* characters are numbered from 1, the two of the blank line between       *)
(* paragraphs included.  Joining what is left of a piece, a blank line and *)
(* the next paragraph restores the text, so a piece is an interval of it.  *)
(* The loop of chunk_text is one step per paragraph.                       *)
(***************************************************************************)
EXTENDS Integers, Sequences, FiniteSets

CONSTANTS Size, Overlap, \* characters in a piece, and carried to the next
          Limit,         \* hits a search returns
          Threshold,     \* the confidence an answer needs
          Scores,        \* similarities a stored vector may have
          Texts,         \* the texts that may be uploaded
          Documents,     \* ids of documents
          Providers      \* embedding services that may be up

\* chunk_text is only called with CHUNK_CHARS and CHUNK_OVERLAP, 900 and 150.
ASSUME SizeAssumption == Size \in Nat /\ Overlap \in Nat /\ 0 < Overlap /\ Overlap < Size
ASSUME ScoresAssumption == Threshold \in Nat /\ Scores \subseteq Nat /\ Limit \in Nat
ASSUME TextsAssumption == Texts \subseteq Seq(Nat \ {0}) /\ <<>> \notin Texts

VARIABLES
    upload,   \* the upload in progress
    stored,   \* the committed documents
    question, \* the question being answered
    up        \* the embedding service that answers now, if any

vars == <<upload, stored, question, up>>

Blank == 2                      \* the blank line between two paragraphs
NoPiece == [from |-> 1, to |-> 0]
Length(p) == IF p.to < p.from THEN 0 ELSE p.to - p.from + 1
Larger(a, b) == IF a < b THEN b ELSE a
Smaller(a, b) == IF a < b THEN a ELSE b

None == "none"                  \* no vector was returned for the piece
Zero == "zero"                  \* the stand-in vector
Idle == [stage |-> "idle"]

\* The paragraph of length n after the character at `done`; 0 is the start.
Paragraph(done, n) ==
    LET from == IF done = 0 THEN 1 ELSE done + Blank + 1
    IN [from |-> from, to |-> from + n - 1]

Init ==
    /\ upload = Idle /\ stored = [d \in {} |-> Idle] /\ question = Idle
    /\ up \in Providers \cup {None}

-----------------------------------------------------------------------------
\* Cutting a text.

\* POST /kb/upload: an empty file or one without text is refused, and not here.
Upload(d, text) ==
    /\ upload = Idle /\ d \notin DOMAIN stored
    /\ upload' = [stage |-> "cutting", id |-> d, text |-> text, done |-> 0, left |-> text,
                  pieces |-> <<>>, current |-> NoPiece, loose |-> {}]
    /\ UNCHANGED <<stored, question, up>>

Fits(p) == Length(upload.current) + Length(p) + Blank <= Size

\* Mutant of Carried: the tail is one character short.
CarriedShort(current, p) ==
    [from |-> Larger(current.from, current.to - Overlap + 2), to |-> p.to]

\* What the next piece begins with: the tail of the one before.
Carried(current, p) ==
    [from |-> Larger(current.from, current.to - Overlap + 1), to |-> p.to]

\* A long paragraph in windows of Size, each Overlap into the one before.
HardSplit(p) ==
    LET step == Size - Overlap
    IN [k \in 1..((Length(p) + step - 1) \div step) |->
          [from |-> p.from + (k - 1) * step,
           to |-> Smaller(p.from + (k - 1) * step + Size - 1, p.to)]]

\* The next paragraph p, of which the rest is `left`.
Packs(p, left, pieces, current, loose) ==
    upload' = [upload EXCEPT !.done = p.to, !.left = left, !.pieces = pieces,
                             !.current = current, !.loose = loose]

Pack ==
    /\ upload.stage = "cutting" /\ upload.left # <<>>
    /\ LET p == Paragraph(upload.done, Head(upload.left))
           rest == Tail(upload.left)
           now == upload.current
       IN \/ /\ Fits(p)
             /\ Packs(p, rest, upload.pieces,
                      IF now = NoPiece THEN p ELSE [now EXCEPT !.to = p.to], upload.loose)
          \/ /\ ~Fits(p) /\ now # NoPiece
             /\ Packs(p, rest, Append(upload.pieces, now), Carried(now, p), upload.loose)
          \/ /\ ~Fits(p) /\ now = NoPiece
             \* nothing is carried past the end of a split paragraph
             /\ Packs(p, rest, upload.pieces \o HardSplit(p), NoPiece,
                      upload.loose \cup {p.to})
    /\ UNCHANGED <<stored, question, up>>

PackLast ==
    /\ upload.stage = "cutting" /\ upload.left = <<>>
    /\ upload' = [stage |-> "embedding", id |-> upload.id, text |-> upload.text,
                  done |-> upload.done, loose |-> upload.loose,
                  pieces |-> IF upload.current = NoPiece THEN upload.pieces
                             ELSE Append(upload.pieces, upload.current)]
    /\ UNCHANGED <<stored, question, up>>

-----------------------------------------------------------------------------
\* Storing it.

\* The vectors for the pieces: the service's, which may be too few, or the
\* stand-in's when no service is up; the user is told of the latter only.
Vectors ==
    LET n == Len(upload.pieces)
    IN IF up = None THEN {[i \in 1..n |-> Zero]}
       ELSE {[i \in 1..n |-> IF i <= got THEN up ELSE None] : got \in 0..n}

Store ==
    /\ upload.stage = "embedding"
    /\ \E vectors \in Vectors :
        stored' = [d \in DOMAIN stored \cup {upload.id} |->
            IF d = upload.id
            THEN [text |-> upload.text, end |-> upload.done, loose |-> upload.loose,
                  pieces |-> upload.pieces, vectors |-> vectors, warned |-> up = None]
            ELSE stored[d]]
    /\ upload' = Idle
    /\ UNCHANGED <<question, up>>

\* A failure while embedding or storing: nothing is kept.
UploadFails ==
    /\ upload.stage = "embedding" /\ upload' = Idle
    /\ UNCHANGED <<stored, question, up>>

\* DELETE /kb/documents: the pieces and the document go in one transaction.
Delete(d) ==
    /\ d \in DOMAIN stored
    /\ stored' = [e \in DOMAIN stored \ {d} |-> stored[e]]
    /\ UNCHANGED <<upload, question, up>>

\* The embedding services go down, come back, or take over from one another.
ServiceChanges ==
    /\ up' \in (Providers \cup {None}) \ {up}
    /\ UNCHANGED <<upload, stored, question>>

-----------------------------------------------------------------------------
\* Answering a question, up to the vector, the rows, the text.

\* The question is embedded.  The stand-in ends the search; a service that
\* returns no vector leaves the question with a zero vector that does not.
Ask ==
    /\ question = Idle
    /\ question' \in IF up = None THEN {[stage |-> "answered", by |-> {}]}
                     ELSE {[stage |-> "asked", vector |-> v] : v \in {up, Zero}}
    /\ UNCHANGED <<upload, stored, up>>

\* Stored pieces with a vector.  Scores are free, so that the first pieces of
\* a document, as many as a search returns, stand for all of them.
Candidates ==
    UNION {{[document |-> d, index |-> i, vector |-> stored[d].vectors[i]] :
                i \in {j \in 1..Smaller(Limit, Len(stored[d].pieces)) :
                    stored[d].vectors[j] # None}}
            : d \in DOMAIN stored}

\* Mutant of Similarities: an undefined distance reads as none at all.
SimilaritiesOfNothing(vector) ==
    IF Zero \in {vector, question.vector} THEN {Threshold} ELSE Scores

\* What a stored vector may score: the distance to or from a zero vector is
\* undefined, which the database sorts last and the code reads as 0.
Similarities(vector) == IF Zero \in {vector, question.vector} THEN {0} ELSE Scores

\* The closest candidates, at most Limit of them.
Found ==
    {hits \in SUBSET Candidates :
        /\ Cardinality(hits) = Smaller(Limit, Cardinality(Candidates))
        /\ question.vector # Zero /\ (\E h \in hits : h.vector = Zero) =>
                \A c \in Candidates \ hits : c.vector = Zero}

\* The search reads the rows, and the answer is decided by the best score:
\* below the threshold the model is not asked.
Search ==
    /\ question.stage = "asked"
    /\ \E hits \in Found : \E score \in [hits -> Scores \cup {0}] :
        /\ \A h \in hits : score[h] \in Similarities(h.vector)
        /\ LET usable == {h \in hits : 10 * score[h] >= 8 * Threshold}
           IN question' =
                IF \E h \in hits : score[h] >= Threshold
                THEN [stage |-> "asking",
                      by |-> {stored[h.document].warned : h \in usable}]
                ELSE [stage |-> "answered", by |-> {}]
    /\ UNCHANGED <<upload, stored, up>>

\* The model answers from the usable pieces, or abstains.  What is kept of
\* them is whether their upload came with a warning.
Answer ==
    /\ question.stage = "asking"
    /\ question' \in {[question EXCEPT !.stage = "answered"],
                      [stage |-> "answered", by |-> {}]}
    /\ UNCHANGED <<upload, stored, up>>

Spoken ==
    /\ question.stage = "answered" /\ question' = Idle
    /\ UNCHANGED <<upload, stored, up>>

Next ==
    \/ \E d \in Documents, t \in Texts : Upload(d, t)
    \/ Pack \/ PackLast \/ Store \/ UploadFails
    \/ \E d \in Documents : Delete(d)
    \/ Ask \/ Search \/ Answer \/ Spoken \/ ServiceChanges

Spec == Init /\ [][Next]_vars

-----------------------------------------------------------------------------
Pieces(d) == {stored[d].pieces[i] : i \in DOMAIN stored[d].pieces}

Holds(p, a, b) == p.from <= a /\ b <= p.to

\* kb.py:55, "an answer that straddles a boundary is still retrievable from
\* one chunk": any run of the text that exceeds the overlap by at most one
\* character is in one piece, so nothing of it is lost, except across the end
\* of a paragraph that had to be split, after which nothing is carried.
StraddleKept ==
    \A d \in DOMAIN stored : \A a, b \in 1..stored[d].end :
        \/ b < a \/ b - a > Overlap
        \/ \E e \in stored[d].loose : a <= e + Blank /\ e < b
        \/ \E p \in Pieces(d) : Holds(p, a, b)

\* tests/test_kb.py:12, "Overlap can push a chunk slightly past the target; it
\* must stay bounded": by the overlap and the blank line.
PiecesBounded ==
    \A d \in DOMAIN stored : \A p \in Pieces(d) :
        Length(p) <= Size + Overlap + Blank

\* README.md:120-121, of the zero vector: "It can never clear the confidence
\* threshold, so the agent escalates instead of answering from a garbage
\* retrieval": no document stored while no service was up, with the warning
\* that it cannot be found, ever supports an answer, alone or beside others.
\* The settings also admit a threshold of 0, which the score of such a
\* document does clear.
StandInNeverSpeaks ==
    question.stage \in {"asking", "answered"} => TRUE \notin question.by
=============================================================================
