--------------------------- MODULE CuttingProofs ---------------------------
(***************************************************************************)
(* Proofs about the two components that cut: KnowledgeBase, which cuts a   *)
(* text into overlapping pieces, and Endpointer, which cuts the caller's   *)
(* audio into utterances.  They hold for any sizes and thresholds and so   *)
(* for the deployed ones (900 and 150 characters; 35, 10 and 1500 frames), *)
(* which are out of a model checker's reach.                               *)
(***************************************************************************)
EXTENDS KnowledgeBase, Endpointer, Functions, FiniteSetTheorems, TLAPS

(* The inductive invariant of KnowledgeBase.                               *)

Piece == [from : Nat \ {0}, to : Nat]

\* A run of at most one character more than the overlap is in one of the
\* pieces S, or crosses the end of a paragraph that was split.
Covers(S, loose, end) ==
    \A a, b \in 1..end :
        \/ b < a \/ b - a > Overlap
        \/ \E e \in loose : a <= e + Blank /\ e < b
        \/ \E p \in S : Holds(p, a, b)

\* The piece at hand reaches back far enough for every short run that ends
\* after it: to the start, to the end of a split paragraph, or by the overlap.
Reaches(current, loose) ==
    \/ current.from = 1
    \/ \E e \in loose : current.from = e + Blank + 1
    \/ current.from + Overlap <= current.to + 1

\* The piece at hand ends where the text read so far does; there is none only
\* at the start and after a split paragraph.
AtHand(u) ==
    IF u.current = NoPiece
    THEN u.done = 0 \/ u.done \in u.loose
    ELSE /\ u.current.from <= u.current.to /\ u.current.to = u.done
         /\ Reaches(u.current, u.loose)

Cutting == [stage : {"cutting"}, id : Documents, text : Texts, done : Nat,
            left : Seq(Nat \ {0}), pieces : Seq(Piece), current : Piece,
            loose : SUBSET Nat]
Embedding == [stage : {"embedding"}, id : Documents, text : Texts, done : Nat,
              loose : SUBSET Nat, pieces : Seq(Piece)]

\* While a text is cut, the pieces and the one at hand cover what was read.
CutSoFar(u) ==
    /\ \A e \in u.loose : e <= u.done
    /\ AtHand(u)
    /\ Covers(Range(u.pieces) \cup {u.current}, u.loose, u.done)

UploadCovered ==
    \/ upload = Idle
    \/ upload \in Cutting /\ CutSoFar(upload)
    \/ upload \in Embedding /\ Covers(Range(upload.pieces), upload.loose, upload.done)

\* What is stored is covered, and a document that came with the warning has
\* the stand-in for each of its vectors.
Kept(s) ==
    /\ s.pieces \in Seq(Piece) /\ s.warned \in BOOLEAN
    /\ Covers(Range(s.pieces), s.loose, s.end)
    /\ s.warned => \A i \in 1..Len(s.pieces) : s.vectors[i] = Zero

\* With a threshold above 0 no answer rests on a piece whose upload came with
\* the warning.
Warnings == IF Threshold = 0 THEN BOOLEAN ELSE {FALSE}
Questions == {Idle} \cup [stage : {"asked"}, vector : Providers \cup {Zero}]
                \cup [stage : {"asking", "answered"}, by : SUBSET Warnings]

KBInv ==
    /\ UploadCovered
    /\ \A d \in DOMAIN stored : Kept(stored[d])
    /\ question \in Questions
    /\ up \in Providers \cup {None}

-----------------------------------------------------------------------------
(* Lemmas about the pieces.                                                *)

\* Division rounds down.
LEMMA Division ==
  ASSUME NEW x \in Nat, NEW d \in Nat \ {0}
  PROVE  x \div d \in Nat /\ d * (x \div d) <= x /\ x < d * (x \div d) + d
  OBVIOUS

\* It does not decrease when the dividend grows.
LEMMA DivisionGrows ==
  ASSUME NEW x \in Nat, NEW y \in Nat, x <= y, NEW d \in Nat \ {0}
  PROVE  x \div d <= y \div d
<1> DEFINE q == x \div d
           r == y \div d
<1>1. q \in Nat /\ r \in Nat /\ d * q <= x /\ y < d * r + d
  BY Division
<1> HIDE DEF q, r
<1>2. CASE q >= r + 1
  <2>1. PICK k \in Nat : q = r + 1 + k
    BY <1>1, <1>2
  <2>2. d * q = d * r + d + d * k /\ d * k >= 0 /\ d * r \in Nat
    BY <1>1, <2>1
  <2> QED
    BY <1>1, <2>2
<1>3. CASE ~(q >= r + 1)
  BY <1>1, <1>3 DEF q, r
<1> QED
  BY <1>2, <1>3

\* Pieces that keep what was covered, and hold every short run that ends in
\* what was read since, cover the whole.
LEMMA CoversOn ==
  ASSUME NEW S \in SUBSET Piece, NEW R \in SUBSET Piece, NEW loose, NEW more,
         NEW done \in Nat, NEW end \in Nat, loose \subseteq more,
         Covers(S, loose, done),
         \A p \in S : \E r \in R : r.from = p.from /\ p.to <= r.to,
         \A a, b \in 1..end :
            done < b /\ a <= b /\ b - a <= Overlap =>
                \/ \E e \in more : a <= e + Blank /\ e < b
                \/ \E r \in R : Holds(r, a, b)
  PROVE  Covers(R, more, end)
<1> SUFFICES ASSUME NEW a \in 1..end, NEW b \in 1..end, a <= b, b - a <= Overlap
             PROVE  \/ \E e \in more : a <= e + Blank /\ e < b
                    \/ \E r \in R : Holds(r, a, b)
  BY SizeAssumption DEF Covers
<1>1. ASSUME NEW p \in S, Holds(p, a, b) PROVE \E r \in R : Holds(r, a, b)
  <2>1. PICK r \in R : r.from = p.from /\ p.to <= r.to
    OBVIOUS
  <2>2. p.to \in Nat /\ r.to \in Nat
    BY DEF Piece
  <2>3. Holds(r, a, b)
    BY <1>1, <2>1, <2>2 DEF Holds
  <2> QED
    BY <2>3
<1>2. CASE b <= done
  <2>1. a \in 1..done /\ b \in 1..done
    BY <1>2
  <2>2. \/ \E e \in loose : a <= e + Blank /\ e < b
        \/ \E p \in S : Holds(p, a, b)
    BY <2>1, SizeAssumption DEF Covers
  <2> QED
    BY <1>1, <2>2
<1>3. CASE done < b
  BY <1>3
<1> QED
  BY <1>2, <1>3

\* No piece is a piece with nothing in it.
LEMMA NoPieceHoldsNothing ==
  ASSUME NEW S, NEW loose, NEW end \in Nat, Covers(S \cup {NoPiece}, loose, end)
  PROVE  Covers(S, loose, end)
<1> SUFFICES ASSUME NEW a \in 1..end, NEW b \in 1..end
             PROVE  \/ b < a \/ b - a > Overlap
                    \/ \E e \in loose : a <= e + Blank /\ e < b
                    \/ \E p \in S : Holds(p, a, b)
  BY DEF Covers
<1>1. ~Holds(NoPiece, a, b)
  BY DEF Holds, NoPiece
<1> QED
  BY <1>1 DEF Covers

\* The windows of a split paragraph hold every short run of it.
LEMMA SplitCovers ==
  ASSUME NEW p \in Piece, p.from <= p.to,
         NEW a \in p.from..p.to, NEW b \in p.from..p.to, a <= b, b - a <= Overlap
  PROVE  \E w \in Range(HardSplit(p)) : Holds(w, a, b)
<1> DEFINE step == Size - Overlap
           L == Length(p)
           n == (L + step - 1) \div step
           k == (a - p.from + step) \div step
           w == [from |-> p.from + (k - 1) * step,
                 to |-> Smaller(p.from + (k - 1) * step + Size - 1, p.to)]
<1>1. step \in Nat \ {0} /\ p.from \in Nat \ {0} /\ p.to \in Nat
  BY SizeAssumption DEF Piece
<1>2. L = p.to - p.from + 1 /\ L \in Nat
  BY <1>1 DEF Length
<1>3. a - p.from + step \in Nat /\ L + step - 1 \in Nat /\ a - p.from + step <= L + step - 1
  BY <1>1, <1>2
<1>4. /\ k \in Nat /\ n \in Nat
      /\ step * k <= a - p.from + step /\ a - p.from + step < step * k + step
  BY <1>1, <1>3, Division
<1>5. k <= n
  BY <1>1, <1>3, DivisionGrows
<1> HIDE DEF k, n, L
<1>6. k >= 1
  <2>1. CASE k = 0
    <3>1. step * k = 0
      BY <1>1, <2>1
    <3> QED
      BY <1>1, <1>4, <3>1
  <2> QED
    BY <1>4, <2>1
<1>7. (k - 1) * step = step * k - step
  BY <1>1, <1>4
<1>8. k \in 1..n /\ HardSplit(p)[k] = w
  BY <1>4, <1>5, <1>6 DEF HardSplit, n, L
<1>9. w \in Range(HardSplit(p))
  BY <1>8 DEF Range, HardSplit, n, L
<1>10. Holds(w, a, b)
  <2>1. p.from + (k - 1) * step <= a
    BY <1>1, <1>4, <1>7
  <2>2. b <= p.from + (k - 1) * step + Size - 1
    BY <1>1, <1>4, <1>7, SizeAssumption
  <2> QED
    BY <2>1, <2>2 DEF Holds, Smaller
<1> QED
  BY <1>9, <1>10

\* The windows are pieces.
LEMMA SplitTyped ==
  ASSUME NEW p \in Piece, p.from <= p.to
  PROVE  HardSplit(p) \in Seq(Piece)
<1> DEFINE step == Size - Overlap
           n == (Length(p) + step - 1) \div step
           w(k) == [from |-> p.from + (k - 1) * step,
                    to |-> Smaller(p.from + (k - 1) * step + Size - 1, p.to)]
<1>1. step \in Nat \ {0} /\ p.from \in Nat \ {0} /\ p.to \in Nat
  BY SizeAssumption DEF Piece
<1>2. n \in Nat
  <2>1. Length(p) + step - 1 \in Nat
    BY <1>1 DEF Length
  <2> QED
    BY <1>1, <2>1, Division
<1> HIDE DEF n
<1>3. ASSUME NEW k \in 1..n PROVE w(k) \in Piece
  <2>1. (k - 1) * step \in Nat
    BY <1>1, <1>2
  <2> QED
    BY <1>1, <2>1, SizeAssumption DEF Piece, Smaller
<1>4. HardSplit(p) = [k \in 1..n |-> w(k)]
  BY DEF HardSplit, n
<1> QED
  BY <1>2, <1>3, <1>4

\* The elements of a longer sequence.
LEMMA RangeTyped ==
  ASSUME NEW s \in Seq(Piece)
  PROVE  Range(s) \in SUBSET Piece
  BY DEF Range

LEMMA RangeAppend ==
  ASSUME NEW s \in Seq(Piece), NEW p \in Piece
  PROVE  /\ Append(s, p) \in Seq(Piece)
         /\ Range(Append(s, p)) = Range(s) \cup {p}
<1>1. /\ Append(s, p) \in Seq(Piece) /\ DOMAIN Append(s, p) = 1..(Len(s) + 1)
      /\ DOMAIN s = 1..Len(s) /\ Len(s) \in Nat
      /\ \A i \in 1..Len(s) : Append(s, p)[i] = s[i]
      /\ Append(s, p)[Len(s) + 1] = p
  OBVIOUS
<1>2. \A i \in 1..(Len(s) + 1) : i \in 1..Len(s) \/ i = Len(s) + 1
  BY <1>1
<1>3. 1..Len(s) \subseteq 1..(Len(s) + 1) /\ Len(s) + 1 \in 1..(Len(s) + 1)
  BY <1>1
<1> QED
  BY <1>1, <1>2, <1>3, Zenon DEF Range

LEMMA RangeConcat ==
  ASSUME NEW s \in Seq(Piece), NEW r \in Seq(Piece)
  PROVE  /\ s \o r \in Seq(Piece)
         /\ Range(s \o r) = Range(s) \cup Range(r)
<1>1. s \o r \in Seq(Piece)
  OBVIOUS
<1>2. ASSUME NEW i \in DOMAIN s PROVE s[i] \in Range(s \o r)
  BY <1>2 DEF Range
<1>3. ASSUME NEW i \in DOMAIN r PROVE r[i] \in Range(s \o r)
  <2>1. Len(s) + i \in DOMAIN (s \o r) /\ (s \o r)[Len(s) + i] = r[i]
    BY <1>3
  <2> QED
    BY <2>1 DEF Range
<1>4. ASSUME NEW i \in DOMAIN (s \o r) PROVE (s \o r)[i] \in Range(s) \cup Range(r)
  <2>1. CASE i <= Len(s)
    BY <2>1 DEF Range
  <2>2. CASE i > Len(s)
    <3>1. i - Len(s) \in DOMAIN r /\ (s \o r)[i] = r[i - Len(s)]
      BY <2>2
    <3> QED
      BY <3>1 DEF Range
  <2> QED
    BY <2>1, <2>2
<1> QED
  BY <1>1, <1>2, <1>3, <1>4 DEF Range

-----------------------------------------------------------------------------
(* One paragraph more.                                                     *)

\* Where a paragraph lies.
LEMMA ParagraphAfter ==
  ASSUME NEW done \in Nat, NEW n \in Nat \ {0}
  PROVE  /\ Paragraph(done, n) \in Piece
         /\ Paragraph(done, n).from <= Paragraph(done, n).to
         /\ done < Paragraph(done, n).to
         /\ Paragraph(done, n).from = IF done = 0 THEN 1 ELSE done + Blank + 1
  BY DEF Paragraph, Piece, Blank

\* A short run that ends after the text read so far starts in the piece at
\* hand, or before the end of a split paragraph that it crosses.
LEMMA StartsAtHand ==
  ASSUME NEW u \in Cutting, CutSoFar(u), u.current # NoPiece,
         NEW a \in Nat \ {0}, NEW b \in Nat, u.done < b, b - a <= Overlap
  PROVE  \/ u.current.from <= a
         \/ \E e \in u.loose : a <= e + Blank /\ e < b
<1>1. /\ u.current.from \in Nat \ {0} /\ u.current.to \in Nat /\ u.done \in Nat
      /\ u.loose \subseteq Nat
  BY DEF Cutting, Piece
<1>2. /\ u.current.to = u.done /\ Reaches(u.current, u.loose)
      /\ \A e \in u.loose : e <= u.done
  BY DEF CutSoFar, AtHand
<1>3. CASE u.current.from = 1
  BY <1>3
<1>4. ASSUME NEW e \in u.loose, u.current.from = e + Blank + 1, ~(u.current.from <= a)
      PROVE  a <= e + Blank /\ e < b
  <2>1. e \in Nat /\ e <= u.done
    BY <1>1, <1>2
  <2> QED
    BY <1>1, <1>4, <2>1 DEF Blank
<1>5. CASE u.current.from + Overlap <= u.current.to + 1
  BY <1>1, <1>2, <1>5, SizeAssumption
<1> QED
  BY <1>2, <1>3, <1>4, <1>5 DEF Reaches

\* With no piece at hand, it starts in the new paragraph, or crosses the end of
\* the split one before it.
LEMMA StartsInParagraph ==
  ASSUME NEW u \in Cutting, CutSoFar(u), u.current = NoPiece, NEW n \in Nat \ {0},
         NEW a \in Nat \ {0}, NEW b \in Nat, u.done < b
  PROVE  \/ Paragraph(u.done, n).from <= a
         \/ \E e \in u.loose : a <= e + Blank /\ e < b
<1>1. u.done \in Nat /\ (u.done = 0 \/ u.done \in u.loose)
  BY DEF Cutting, CutSoFar, AtHand
<1>2. CASE u.done = 0
  BY <1>2, ParagraphAfter
<1>3. CASE u.done # 0 /\ u.done \in u.loose
  <2>1. Paragraph(u.done, n).from = u.done + 3
    BY <1>1, <1>3, ParagraphAfter DEF Blank
  <2>2. a <= u.done + Blank \/ Paragraph(u.done, n).from <= a
    BY <1>1, <2>1 DEF Blank
  <2> QED
    BY <1>3, <2>2
<1> QED
  BY <1>1, <1>2, <1>3

\* What Packs assigns.
LEMMA PacksTyped ==
  ASSUME upload \in Cutting, NEW p \in Piece, NEW left \in Seq(Nat \ {0}),
         NEW pieces \in Seq(Piece), NEW current \in Piece, NEW loose \in SUBSET Nat,
         Packs(p, left, pieces, current, loose)
  PROVE  /\ upload' \in Cutting /\ upload'.done = p.to /\ upload'.pieces = pieces
         /\ upload'.current = current /\ upload'.loose = loose
<1>1. p.to \in Nat
  BY DEF Piece
<1> QED
  BY <1>1 DEF Packs, Cutting

\* The piece at hand grows, or the next one is begun with its tail.
LEMMA PackOn ==
  ASSUME upload \in Cutting, CutSoFar(upload), NEW n \in Nat \ {0},
         NEW left \in Seq(Nat \ {0}), NEW pieces \in Seq(Piece), NEW c \in Piece,
         Packs(Paragraph(upload.done, n), left, pieces, c, upload.loose),
         c.to = Paragraph(upload.done, n).to,
         \/ /\ upload.current = NoPiece /\ c.from = Paragraph(upload.done, n).from
            /\ pieces = upload.pieces
         \/ /\ upload.current # NoPiece /\ c.from = upload.current.from
            /\ pieces \in {upload.pieces, Append(upload.pieces, upload.current)}
         \/ /\ upload.current # NoPiece /\ c.from = upload.done - Overlap + 1
            /\ pieces = Append(upload.pieces, upload.current)
  PROVE  upload' \in Cutting /\ CutSoFar(upload')
<1> DEFINE u == upload
           p == Paragraph(u.done, n)
           S == Range(u.pieces) \cup {u.current}
           R == Range(pieces) \cup {c}
<1>1. /\ u.done \in Nat /\ u.pieces \in Seq(Piece) /\ u.current \in Piece
      /\ u.loose \in SUBSET Nat
  BY DEF Cutting
<1>2. /\ p \in Piece /\ p.from <= p.to /\ u.done < p.to
      /\ p.from = IF u.done = 0 THEN 1 ELSE u.done + Blank + 1
  BY <1>1, ParagraphAfter
<1>3. /\ upload' \in Cutting /\ upload'.done = p.to /\ upload'.pieces = pieces
      /\ upload'.current = c /\ upload'.loose = u.loose
  BY <1>1, <1>2, PacksTyped
<1>4. /\ \A e \in u.loose : e <= u.done
      /\ Covers(S, u.loose, u.done) /\ AtHand(u)
  BY DEF CutSoFar
<1>5. c.from \in Nat \ {0} /\ c.to \in Nat /\ p.to \in Nat /\ p.from \in Nat
  BY <1>2 DEF Piece
<1>6. \A e \in u.loose : e <= p.to
  BY <1>1, <1>2, <1>4, <1>5
<1>7. u.current # NoPiece => /\ u.current.to = u.done /\ u.current.from <= u.current.to
                             /\ u.current.from \in Nat
  BY <1>1, <1>4 DEF AtHand, Piece
<1>8. c.from <= c.to /\ c # NoPiece
  <2>1. c.from <= c.to
    BY <1>1, <1>2, <1>5, <1>7, SizeAssumption
  <2> QED
    BY <2>1 DEF NoPiece
<1>9. Reaches(c, u.loose)
  <2>1. CASE u.current = NoPiece
    BY <1>2, <1>4, <2>1 DEF AtHand, Reaches
  <2>2. CASE u.current # NoPiece /\ c.from = u.current.from
    <3>1. Reaches(u.current, u.loose)
      BY <1>4, <2>2 DEF AtHand
    <3> QED
      BY <1>1, <1>2, <1>5, <1>7, <2>2, <3>1, SizeAssumption DEF Reaches
  <2>3. CASE c.from = u.done - Overlap + 1
    BY <1>1, <1>2, <1>5, <2>3, SizeAssumption DEF Reaches
  <2> QED
    BY <2>1, <2>2, <2>3
<1>10. AtHand(upload')
  BY <1>3, <1>8, <1>9 DEF AtHand
<1>11. Covers(R, u.loose, p.to)
  <2>1. S \in SUBSET Piece /\ R \in SUBSET Piece
    BY <1>1 DEF Range
  <2>2. ASSUME NEW a \in 1..p.to, NEW b \in 1..p.to, u.done < b, a <= b, b - a <= Overlap
        PROVE  \/ \E e \in u.loose : a <= e + Blank /\ e < b
               \/ \E r \in R : Holds(r, a, b)
    <3>1. a \in Nat \ {0} /\ b \in Nat
      OBVIOUS
    <3>2. c.from <= a \/ \E e \in u.loose : a <= e + Blank /\ e < b
      <4>1. CASE u.current = NoPiece
        BY <2>2, <3>1, <4>1, StartsInParagraph
      <4>2. CASE u.current # NoPiece /\ c.from = u.current.from
        BY <2>2, <3>1, <4>2, StartsAtHand
      <4>3. CASE c.from = u.done - Overlap + 1
        BY <1>1, <2>2, <3>1, <4>3, SizeAssumption
      <4> QED
        BY <4>1, <4>2, <4>3
    <3>3. c.from <= a => Holds(c, a, b)
      BY <2>2 DEF Holds
    <3> QED
      BY <3>2, <3>3
  <2>3. CASE u.current = NoPiece
    <3>1. Covers(Range(u.pieces), u.loose, u.done)
      BY <1>1, <1>4, <2>3, NoPieceHoldsNothing
    <3>2. \A q \in Range(u.pieces) : \E r \in R : r.from = q.from /\ q.to <= r.to
      BY <2>1, <2>3 DEF Piece
    <3>3. Range(u.pieces) \in SUBSET Piece
      BY <1>1 DEF Range
    <3> QED
      BY <1>1, <1>5, <2>1, <2>2, <3>1, <3>2, <3>3, CoversOn
  <2>4. CASE u.current # NoPiece
    <3>1. \/ pieces = u.pieces /\ c.from = u.current.from
          \/ pieces = Append(u.pieces, u.current)
      BY <2>4
    <3>2. Range(Append(u.pieces, u.current)) = Range(u.pieces) \cup {u.current}
      BY <1>1, RangeAppend
    <3>3. Range(u.pieces) \subseteq R
      BY <3>1, <3>2
    <3>4. u.current \in R \/ (c.from = u.current.from /\ u.current.to <= c.to)
      <4>1. u.current.to <= c.to
        BY <1>1, <1>2, <1>5, <1>7, <2>4
      <4> QED
        BY <3>1, <3>2, <4>1
    <3>5. ASSUME NEW q \in S PROVE \E r \in R : r.from = q.from /\ q.to <= r.to
      <4>1. q.to <= q.to
        BY <2>1 DEF Piece
      <4>2. CASE q \in R
        BY <4>1, <4>2
      <4>3. CASE q = u.current /\ q \notin R
        BY <3>4, <4>3
      <4> QED
        BY <3>3, <4>2, <4>3
    <3> HIDE DEF S, R, p
    <3> QED
      BY <1>1, <1>4, <1>5, <2>1, <2>2, <3>5, CoversOn
  <2> QED
    BY <2>3, <2>4
<1> QED
  BY <1>3, <1>6, <1>10, <1>11 DEF CutSoFar

\* A paragraph is split: its windows cover it, and no piece is at hand.
LEMMA PackSplit ==
  ASSUME upload \in Cutting, CutSoFar(upload), upload.current = NoPiece,
         NEW n \in Nat \ {0}, NEW left \in Seq(Nat \ {0}),
         Packs(Paragraph(upload.done, n), left,
               upload.pieces \o HardSplit(Paragraph(upload.done, n)), NoPiece,
               upload.loose \cup {Paragraph(upload.done, n).to})
  PROVE  upload' \in Cutting /\ CutSoFar(upload')
<1> DEFINE u == upload
           p == Paragraph(u.done, n)
           more == u.loose \cup {p.to}
           S == Range(u.pieces)
           R == Range(u.pieces \o HardSplit(p)) \cup {NoPiece}
<1>1. /\ u.done \in Nat /\ u.pieces \in Seq(Piece) /\ u.loose \in SUBSET Nat
      /\ NoPiece \in Piece
  BY DEF Cutting, NoPiece, Piece
<1>2. /\ p \in Piece /\ p.from <= p.to /\ u.done < p.to /\ p.to \in Nat /\ p.from \in Nat \ {0}
  BY <1>1, ParagraphAfter DEF Piece
<1>3. /\ u.pieces \o HardSplit(p) \in Seq(Piece)
      /\ Range(u.pieces \o HardSplit(p)) = S \cup Range(HardSplit(p))
  BY <1>1, <1>2, SplitTyped, RangeConcat
<1>4. more \in SUBSET Nat
  BY <1>1, <1>2
<1>5. /\ upload' \in Cutting /\ upload'.done = p.to
      /\ upload'.pieces = u.pieces \o HardSplit(p)
      /\ upload'.current = NoPiece /\ upload'.loose = more
  <2> DEFINE pieces == u.pieces \o HardSplit(p)
  <2>1. Packs(p, left, pieces, NoPiece, more) /\ pieces \in Seq(Piece)
    BY <1>3
  <2> HIDE DEF p, more, pieces
  <2>2. /\ upload' \in Cutting /\ upload'.done = p.to /\ upload'.pieces = pieces
        /\ upload'.current = NoPiece /\ upload'.loose = more
    BY <1>1, <1>2, <1>4, <2>1, PacksTyped
  <2> QED
    BY <2>2 DEF pieces
<1>6. \A e \in more : e <= p.to
  BY <1>1, <1>2 DEF CutSoFar
<1>7. AtHand(upload')
  BY <1>5 DEF AtHand
<1>8. S \in SUBSET Piece /\ R \in SUBSET Piece
  BY <1>1, <1>3, RangeTyped
<1>9. Covers(S, u.loose, u.done)
  BY <1>1, NoPieceHoldsNothing DEF CutSoFar
<1>10. ASSUME NEW a \in 1..p.to, NEW b \in 1..p.to, u.done < b, a <= b, b - a <= Overlap
       PROVE  \/ \E e \in more : a <= e + Blank /\ e < b
              \/ \E r \in R : Holds(r, a, b)
  <2>1. a \in Nat \ {0} /\ b \in Nat
    OBVIOUS
  <2>2. p.from <= a \/ \E e \in u.loose : a <= e + Blank /\ e < b
    BY <1>10, <2>1, StartsInParagraph
  <2>3. CASE p.from <= a
    <3>1. a \in p.from..p.to /\ b \in p.from..p.to
      BY <1>2, <1>10, <2>3
    <3> QED
      BY <1>2, <1>3, <1>10, <3>1, SplitCovers
  <2> QED
    BY <2>2, <2>3
<1>11. \A q \in S : \E r \in R : r.from = q.from /\ q.to <= r.to
  <2>1. \A q \in S : q.to <= q.to
    BY <1>8 DEF Piece
  <2>2. S \subseteq R
    BY <1>3
  <2> HIDE DEF S, R
  <2> QED
    BY <2>1, <2>2
<1>12. u.loose \subseteq more
  OBVIOUS
<1> HIDE DEF p, S, R, more
<1>13. Covers(R, more, p.to)
  BY <1>1, <1>2, <1>8, <1>9, <1>10, <1>11, <1>12, CoversOn
<1> QED
  BY <1>5, <1>6, <1>7, <1>13 DEF CutSoFar, R

-----------------------------------------------------------------------------
(* Every step of the knowledge base.                                       *)

\* The next paragraph is added, begins a piece, or is split.
LEMMA PackInv ==
  ASSUME UploadCovered, Pack
  PROVE  UploadCovered'
<1> DEFINE n == Head(upload.left)
           p == Paragraph(upload.done, n)
           now == upload.current
<1>1. upload \in Cutting /\ CutSoFar(upload)
  BY DEF Pack, UploadCovered, Idle, Embedding
<1>2. /\ upload.done \in Nat /\ n \in Nat \ {0} /\ Tail(upload.left) \in Seq(Nat \ {0})
      /\ upload.pieces \in Seq(Piece) /\ now \in Piece /\ upload.loose \in SUBSET Nat
  BY <1>1 DEF Pack, Cutting
<1>3. p \in Piece /\ p.from <= p.to /\ p.to \in Nat /\ upload.done < p.to
  BY <1>2, ParagraphAfter DEF Piece
<1>4. Append(upload.pieces, now) \in Seq(Piece)
  BY <1>2
<1>5. now # NoPiece => /\ now.to = upload.done /\ now.from \in Nat \ {0}
                       /\ now.from <= now.to
  BY <1>1, <1>2 DEF CutSoFar, AtHand, Piece
<1>6. CASE /\ now = NoPiece
           /\ Packs(p, Tail(upload.left), upload.pieces, p, upload.loose)
  BY <1>1, <1>2, <1>3, <1>6, PackOn DEF UploadCovered
<1>7. CASE /\ now # NoPiece
           /\ Packs(p, Tail(upload.left), upload.pieces, [now EXCEPT !.to = p.to],
                    upload.loose)
  <2> DEFINE c == [now EXCEPT !.to = p.to]
  <2>1. c \in Piece /\ c.from = now.from /\ c.to = p.to
    BY <1>2, <1>3 DEF Piece
  <2> HIDE DEF c
  <2> QED
    BY <1>1, <1>2, <1>7, <2>1, PackOn DEF UploadCovered, c
<1>8. CASE /\ now # NoPiece
           /\ Packs(p, Tail(upload.left), Append(upload.pieces, now), Carried(now, p),
                    upload.loose)
  <2> DEFINE c == Carried(now, p)
  <2>1. c.from \in {now.from, upload.done - Overlap + 1} /\ c.to = p.to
    BY <1>5, <1>8 DEF Carried, Larger
  <2>2. c \in Piece
    BY <1>2, <1>3, <1>5, <1>8, SizeAssumption DEF Carried, Larger, Piece
  <2> HIDE DEF c
  <2> QED
    BY <1>1, <1>2, <1>4, <1>8, <2>1, <2>2, PackOn DEF UploadCovered, c
<1>9. CASE /\ now = NoPiece
           /\ Packs(p, Tail(upload.left), upload.pieces \o HardSplit(p), NoPiece,
                    upload.loose \cup {p.to})
  BY <1>1, <1>2, <1>9, PackSplit DEF UploadCovered
<1> QED
  BY <1>6, <1>7, <1>8, <1>9 DEF Pack

\* The piece at hand becomes the last one.
LEMMA PackLastInv ==
  ASSUME UploadCovered, PackLast
  PROVE  UploadCovered'
<1> DEFINE pieces == IF upload.current = NoPiece THEN upload.pieces
                     ELSE Append(upload.pieces, upload.current)
<1>1. upload \in Cutting /\ CutSoFar(upload)
  BY DEF PackLast, UploadCovered, Idle, Embedding
<1>2. /\ upload.done \in Nat /\ upload.pieces \in Seq(Piece) /\ upload.current \in Piece
      /\ upload.loose \in SUBSET Nat /\ upload.id \in Documents /\ upload.text \in Texts
  BY <1>1 DEF Cutting
<1>3. pieces \in Seq(Piece)
  BY <1>2
<1>4. Covers(Range(pieces), upload.loose, upload.done)
  <2>1. CASE upload.current = NoPiece
    BY <1>1, <1>2, <2>1, NoPieceHoldsNothing DEF CutSoFar
  <2>2. CASE upload.current # NoPiece
    <3>1. Range(pieces) = Range(upload.pieces) \cup {upload.current}
      BY <1>2, <2>2, RangeAppend
    <3> QED
      BY <1>1, <3>1 DEF CutSoFar
  <2> QED
    BY <2>1, <2>2
<1>5. upload' = [stage |-> "embedding", id |-> upload.id, text |-> upload.text,
                 done |-> upload.done, loose |-> upload.loose, pieces |-> pieces]
  BY DEF PackLast
<1> HIDE DEF pieces
<1>6. /\ upload' \in Embedding /\ upload'.pieces = pieces
      /\ upload'.loose = upload.loose /\ upload'.done = upload.done
  BY <1>2, <1>3, <1>5 DEF Embedding
<1> QED
  BY <1>4, <1>6 DEF UploadCovered

\* An upload starts with nothing read.
LEMMA UploadInv ==
  ASSUME NEW d \in Documents, NEW t \in Texts, Upload(d, t)
  PROVE  UploadCovered'
<1>1. t \in Seq(Nat \ {0}) /\ <<>> \in Seq(Piece) /\ NoPiece \in Piece
  BY TextsAssumption DEF NoPiece, Piece
<1>2. /\ upload' \in Cutting /\ upload'.done = 0 /\ upload'.loose = {}
      /\ upload'.current = NoPiece
  BY <1>1 DEF Upload, Cutting
<1>3. Covers(Range(upload'.pieces) \cup {upload'.current}, upload'.loose, 0)
  BY DEF Covers
<1> QED
  BY <1>2, <1>3 DEF UploadCovered, CutSoFar, AtHand

\* What is stored is what was cut, with the service's vectors or, under the
\* warning, the stand-in's.
LEMMA StoreInv ==
  ASSUME UploadCovered, \A d \in DOMAIN stored : Kept(stored[d]), Store
  PROVE  UploadCovered' /\ \A d \in DOMAIN stored' : Kept(stored'[d])
<1>1. upload \in Embedding /\ Covers(Range(upload.pieces), upload.loose, upload.done)
  BY DEF Store, UploadCovered, Idle, Cutting
<1>2. PICK vectors \in Vectors :
        stored' = [d \in DOMAIN stored \cup {upload.id} |->
            IF d = upload.id
            THEN [text |-> upload.text, end |-> upload.done, loose |-> upload.loose,
                  pieces |-> upload.pieces, vectors |-> vectors, warned |-> up = None]
            ELSE stored[d]]
  BY DEF Store
<1> DEFINE new == [text |-> upload.text, end |-> upload.done, loose |-> upload.loose,
                   pieces |-> upload.pieces, vectors |-> vectors, warned |-> up = None]
<1>3. upload.pieces \in Seq(Piece)
  BY <1>1 DEF Embedding
<1>4. up = None => \A i \in 1..Len(upload.pieces) : vectors[i] = Zero
  BY <1>2 DEF Vectors
<1>5. Kept(new)
  BY <1>1, <1>3, <1>4 DEF Kept
<1>6. UploadCovered'
  BY DEF Store, UploadCovered
<1> QED
  BY <1>2, <1>5, <1>6

\* A stored piece that came with the warning scores nothing, so it is not
\* among those an answer may use, unless nothing is all it takes.
LEMMA SearchInv ==
  ASSUME \A d \in DOMAIN stored : Kept(stored[d]), Search
  PROVE  question' \in Questions
<1>1. PICK hits \in Found : \E score \in [hits -> Scores \cup {0}] :
        /\ \A h \in hits : score[h] \in Similarities(h.vector)
        /\ LET usable == {h \in hits : 10 * score[h] >= 8 * Threshold}
           IN question' =
                IF \E h \in hits : score[h] >= Threshold
                THEN [stage |-> "asking",
                      by |-> {stored[h.document].warned : h \in usable}]
                ELSE [stage |-> "answered", by |-> {}]
  BY DEF Search
<1>2. PICK score \in [hits -> Scores \cup {0}] :
        /\ \A h \in hits : score[h] \in Similarities(h.vector)
        /\ LET usable == {h \in hits : 10 * score[h] >= 8 * Threshold}
           IN question' =
                IF \E h \in hits : score[h] >= Threshold
                THEN [stage |-> "asking",
                      by |-> {stored[h.document].warned : h \in usable}]
                ELSE [stage |-> "answered", by |-> {}]
  BY <1>1
<1> DEFINE usable == {h \in hits : 10 * score[h] >= 8 * Threshold}
<1>3. ASSUME NEW h \in usable
      PROVE  /\ stored[h.document].warned \in BOOLEAN
             /\ Threshold # 0 => stored[h.document].warned = FALSE
  <2>1. h \in Candidates
    BY <1>1 DEF Found
  <2>2. PICK d \in DOMAIN stored :
          \E i \in 1..Smaller(Limit, Len(stored[d].pieces)) :
             h = [document |-> d, index |-> i, vector |-> stored[d].vectors[i]]
    BY <2>1 DEF Candidates
  <2>3. PICK i \in 1..Smaller(Limit, Len(stored[d].pieces)) :
             h = [document |-> d, index |-> i, vector |-> stored[d].vectors[i]]
    BY <2>2
  <2>4. Kept(stored[d]) /\ h.document = d /\ h.vector = stored[d].vectors[i]
    BY <2>3
  <2>5. i \in 1..Len(stored[d].pieces)
    <3>1. Len(stored[d].pieces) \in Nat
      BY <2>4 DEF Kept
    <3> QED
      BY <2>3, <3>1, ScoresAssumption DEF Smaller
  <2>6. ASSUME stored[d].warned, Threshold # 0 PROVE FALSE
    <3>1. h.vector = Zero
      BY <2>4, <2>5, <2>6 DEF Kept
    <3>2. score[h] = 0
      BY <1>2, <3>1 DEF Similarities
    <3> QED
      BY <2>6, <3>2, ScoresAssumption
  <2> QED
    BY <2>4, <2>6 DEF Kept
<1>4. {stored[h.document].warned : h \in usable} \in SUBSET Warnings
  BY <1>3 DEF Warnings
<1> QED
  BY <1>2, <1>4 DEF Questions

\* A question that is being answered rests on nothing stored with a warning.
LEMMA AnsweringQuestion ==
  ASSUME question \in Questions, question.stage \in {"asking", "answered"}
  PROVE  question \in [stage : {"asking", "answered"}, by : SUBSET Warnings]
<1>1. CASE question = Idle
  <2>1. question.stage = "idle"
    BY <1>1 DEF Idle
  <2> QED
    BY <2>1
<1>2. CASE question \in [stage : {"asked"}, vector : Providers \cup {Zero}]
  <2>1. question.stage = "asked"
    BY <1>2
  <2> QED
    BY <2>1
<1> QED
  BY <1>1, <1>2 DEF Questions

\* The initial state: nothing is uploaded, stored or asked.
LEMMA KBInit == Init => KBInv
  BY DEF Init, KBInv, UploadCovered, Questions

\* No step of an upload, a deletion or a question breaks the invariant.
LEMMA KBStep == KBInv /\ [Next]_vars => KBInv'
<1> SUFFICES ASSUME KBInv, [Next]_vars PROVE KBInv'
  OBVIOUS
<1> USE DEF KBInv
<1>1. CASE UNCHANGED vars
  BY <1>1 DEF vars, UploadCovered
<1>2. ASSUME NEW d \in Documents, NEW t \in Texts, Upload(d, t) PROVE KBInv'
  BY <1>2, UploadInv DEF Upload
<1>3. CASE Pack
  BY <1>3, PackInv DEF Pack
<1>4. CASE PackLast
  BY <1>4, PackLastInv DEF PackLast
<1>5. CASE Store
  BY <1>5, StoreInv DEF Store
<1>6. CASE UploadFails
  BY <1>6 DEF UploadFails, UploadCovered
<1>7. ASSUME NEW d \in Documents, Delete(d) PROVE KBInv'
  <2>1. stored' = [e \in DOMAIN stored \ {d} |-> stored[e]]
    BY <1>7 DEF Delete
  <2>2. \A e \in DOMAIN stored' : stored'[e] = stored[e] /\ e \in DOMAIN stored
    BY <2>1
  <2> QED
    BY <1>7, <2>2 DEF Delete, UploadCovered
<1>8. CASE Ask
  <2>1. question' \in Questions
    <3>1. CASE up = None
      <4>1. question' = [stage |-> "answered", by |-> {}]
        BY <1>8, <3>1 DEF Ask
      <4> QED
        BY <4>1 DEF Questions
    <3>2. CASE up # None
      <4>1. PICK v \in {up, Zero} : question' = [stage |-> "asked", vector |-> v]
        BY <1>8, <3>2 DEF Ask
      <4>2. v \in Providers \cup {Zero}
        BY <3>2
      <4> QED
        BY <4>1, <4>2 DEF Questions
    <3> QED
      BY <3>1, <3>2
  <2> QED
    BY <1>8, <2>1 DEF Ask, UploadCovered
<1>9. CASE Search
  BY <1>9, SearchInv DEF Search, UploadCovered
<1>10. CASE Answer
  <2>1. question \in [stage : {"asking", "answered"}, by : SUBSET Warnings]
    BY <1>10, AnsweringQuestion DEF Answer
  <2>2. [question EXCEPT !.stage = "answered"]
           \in [stage : {"asking", "answered"}, by : SUBSET Warnings]
    BY <2>1
  <2>3. [stage |-> "answered", by |-> {}]
           \in [stage : {"asking", "answered"}, by : SUBSET Warnings]
    OBVIOUS
  <2>4. question' \in Questions
    BY <1>10, <2>2, <2>3 DEF Answer, Questions
  <2> QED
    BY <1>10, <2>4 DEF Answer, UploadCovered
<1>11. CASE Spoken
  BY <1>11 DEF Spoken, UploadCovered, Questions
<1>12. CASE ServiceChanges
  BY <1>12 DEF ServiceChanges, UploadCovered
<1> QED
  BY <1>1, <1>2, <1>3, <1>4, <1>5, <1>6, <1>7, <1>8, <1>9, <1>10, <1>11, <1>12 DEF Next

LEMMA KBAlways == Spec => []KBInv
  BY KBInit, KBStep, PTL DEF Spec

\* However long the paragraphs of a text are, any run of it within the overlap
\* is in one stored piece, unless it crosses the end of a paragraph that had to
\* be split (chunk_text, index_document).
THEOREM StraddlingKept == Spec => []StraddleKept
<1>1. KBInv => StraddleKept
  <2> SUFFICES ASSUME KBInv, NEW d \in DOMAIN stored PROVE
        \A a, b \in 1..stored[d].end :
            \/ b < a \/ b - a > Overlap
            \/ \E e \in stored[d].loose : a <= e + Blank /\ e < b
            \/ \E p \in Pieces(d) : Holds(p, a, b)
    BY DEF StraddleKept
  <2>1. Covers(Range(stored[d].pieces), stored[d].loose, stored[d].end)
    BY DEF KBInv, Kept
  <2>2. Pieces(d) = Range(stored[d].pieces)
    BY DEF Pieces, Range
  <2> QED
    BY <2>1, <2>2 DEF Covers
<1> QED
  BY <1>1, KBAlways, PTL

\* Whatever the scores and the threshold above 0, and whichever service is up
\* when the question is asked, no document stored under the stand-in vectors
\* supports an answer (search, answer).
THEOREM StandInSilent ==
  ASSUME Threshold # 0
  PROVE  Spec => []StandInNeverSpeaks
<1>1. KBInv => StandInNeverSpeaks
  <2> SUFFICES ASSUME KBInv, question.stage \in {"asking", "answered"}
               PROVE  TRUE \notin question.by
    BY DEF StandInNeverSpeaks
  <2>1. question \in [stage : {"asking", "answered"}, by : SUBSET Warnings]
    BY AnsweringQuestion DEF KBInv
  <2>2. question.by \subseteq {FALSE}
    BY <2>1 DEF Warnings
  <2> QED
    BY <2>2
<1> QED
  BY <1>1, KBAlways, PTL

-----------------------------------------------------------------------------
(* The bound on a piece, which needs paragraphs that fit in one.           *)

Bound == Size + Overlap + Blank

\* All that was cut so far is within the bound, and every paragraph to come
\* fits in a piece.
Short ==
    /\ upload \in Cutting =>
         /\ upload.left \in Seq(1..Size)
         /\ Length(upload.current) <= Bound
         /\ \A p \in Range(upload.pieces) : Length(p) <= Bound
    /\ upload \in Embedding => \A p \in Range(upload.pieces) : Length(p) <= Bound

\* A window of a split paragraph is no longer than a piece.
LEMMA WindowsShort ==
  ASSUME NEW p \in Piece, p.from <= p.to, NEW w \in Range(HardSplit(p))
  PROVE  Length(w) <= Bound
<1> DEFINE step == Size - Overlap
           n == (Length(p) + step - 1) \div step
<1>1. PICK k \in 1..n : w = HardSplit(p)[k]
  BY DEF Range, HardSplit
<1>2. step \in Nat \ {0} /\ Length(p) + step - 1 \in Nat /\ p.from \in Nat /\ p.to \in Nat
  BY SizeAssumption DEF Piece, Length
<1>3. n \in Nat
  BY <1>2, Division
<1>4. w = [from |-> p.from + (k - 1) * step,
           to |-> Smaller(p.from + (k - 1) * step + Size - 1, p.to)]
  BY <1>1 DEF HardSplit
<1> HIDE DEF n
<1>5. (k - 1) * step \in Nat
  BY <1>2, <1>3
<1> QED
  BY <1>2, <1>4, <1>5, SizeAssumption DEF Length, Smaller, Bound, Blank

\* What the loop takes off a list of paragraphs.
LEMMA FirstAndRest ==
  ASSUME NEW S, NEW s \in Seq(S), s # <<>>
  PROVE  Head(s) \in S /\ Tail(s) \in Seq(S)
OBVIOUS

\* The piece at hand, the tail it leaves and the windows stay within it.
LEMMA ShortPack ==
  ASSUME UploadCovered, Short, Pack
  PROVE  Short'
<1> DEFINE n == Head(upload.left)
           p == Paragraph(upload.done, n)
           now == upload.current
           rest == Tail(upload.left)
<1>1. upload \in Cutting /\ CutSoFar(upload)
  BY DEF Pack, UploadCovered, Idle, Embedding
<1>2. /\ upload.left \in Seq(1..Size) /\ Length(now) <= Bound
      /\ \A q \in Range(upload.pieces) : Length(q) <= Bound
  BY <1>1 DEF Short
<1>3. /\ upload.done \in Nat /\ n \in 1..Size /\ rest \in Seq(1..Size)
      /\ upload.pieces \in Seq(Piece) /\ now \in Piece /\ upload.loose \in SUBSET Nat
  <2>1. upload.left # <<>>
    BY DEF Pack
  <2>2. n \in 1..Size /\ rest \in Seq(1..Size)
    <3>1. upload.left \in Seq(1..Size)
      BY <1>2
    <3> QED
      BY <2>1, <3>1, FirstAndRest
  <2>3. /\ upload.done \in Nat /\ upload.pieces \in Seq(Piece) /\ now \in Piece
        /\ upload.loose \in SUBSET Nat
    BY <1>1 DEF Cutting
  <2> QED
    BY <2>2, <2>3
<1>4. rest \in Seq(Nat \ {0}) /\ n \in Nat \ {0}
  BY <1>1 DEF Pack, Cutting
<1>5. /\ p \in Piece /\ p.from <= p.to /\ p.from \in Nat \ {0} /\ p.to \in Nat
      /\ Length(p) = n /\ (upload.done # 0 => p.to = upload.done + Blank + n)
  <2>1. n \in Nat \ {0} /\ upload.done \in Nat
    BY <1>3, <1>4
  <2> HIDE DEF n
  <2>2. /\ p.from = IF upload.done = 0 THEN 1 ELSE upload.done + 3
        /\ p.to = p.from + n - 1 /\ p = [from |-> p.from, to |-> p.to]
    BY <2>1 DEF Paragraph, Blank
  <2>3. p.from \in Nat \ {0} /\ p.to \in Nat /\ p.from <= p.to
    <3> HIDE DEF p, n
    <3> QED
      BY <2>1, <2>2
  <2>4. p \in Piece
    <3> HIDE DEF p, n
    <3> QED
      BY <2>2, <2>3 DEF Piece
  <2> HIDE DEF p, n
  <2> QED
    BY <2>1, <2>2, <2>3, <2>4 DEF Blank, Length
<1>6. Append(upload.pieces, now) \in Seq(Piece)
  BY <1>3
<1>7. now # NoPiece => /\ now.to = upload.done /\ now.from \in Nat \ {0}
                       /\ now.from <= now.to
  BY <1>1, <1>3 DEF CutSoFar, AtHand, Piece
<1>8. ASSUME NEW c \in Piece, NEW pieces \in Seq(Piece), NEW loose \in SUBSET Nat,
             Packs(p, rest, pieces, c, loose),
             Length(c) <= Bound, \A q \in Range(pieces) : Length(q) <= Bound
      PROVE  Short'
  <2> HIDE DEF p, rest
  <2>1. /\ upload' \in Cutting /\ upload'.pieces = pieces /\ upload'.current = c
    BY <1>1, <1>4, <1>5, <1>8, PacksTyped
  <2>2. upload'.left = rest
    BY <1>1, <1>8 DEF Packs, Cutting
  <2>3. upload' \notin Embedding
    BY <2>1 DEF Cutting, Embedding
  <2> QED
    BY <1>3, <1>8, <2>1, <2>2, <2>3 DEF Short
<1>9. CASE /\ now = NoPiece
           /\ Packs(p, rest, upload.pieces, p, upload.loose)
  <2>1. Length(p) <= Bound
    BY <1>3, <1>5, SizeAssumption DEF Bound, Blank
  <2> QED
    BY <1>2, <1>3, <1>5, <1>8, <1>9, <2>1
<1>10. CASE /\ now # NoPiece /\ Fits(p)
            /\ Packs(p, rest, upload.pieces, [now EXCEPT !.to = p.to], upload.loose)
  <2> DEFINE c == [now EXCEPT !.to = p.to]
  <2>1. c \in Piece /\ c.from = now.from /\ c.to = p.to
    BY <1>3, <1>5 DEF Piece
  <2>2. Length(c) <= Bound
    <3>1. Length(now) + n + Blank <= Size
      BY <1>5, <1>10 DEF Fits
    <3>2. Length(now) = upload.done - now.from + 1
      <4>1. now.to = upload.done /\ now.from \in Nat \ {0} /\ now.from <= now.to
        BY <1>7, <1>10
      <4>2. upload.done \in Nat
        BY <1>3
      <4> HIDE DEF now
      <4> QED
        BY <4>1, <4>2 DEF Length
    <3>3. p.to = upload.done + Blank + n
      BY <1>5, <1>7, <1>10
    <3>4. /\ c.from = now.from /\ c.to = p.to /\ upload.done \in Nat
          /\ n \in Nat /\ now.from \in Nat
      BY <1>3, <1>4, <1>7, <1>10, <2>1
    <3> HIDE DEF c, p, n, now
    <3>5. Length(c) <= Size
      BY <3>1, <3>2, <3>3, <3>4, SizeAssumption DEF Length, Blank
    <3>6. Length(c) \in Int
      BY <3>3, <3>4 DEF Length, Blank
    <3> QED
      BY <3>5, <3>6, SizeAssumption DEF Bound, Blank
  <2> HIDE DEF c
  <2> QED
    BY <1>2, <1>3, <1>8, <1>10, <2>1, <2>2 DEF c
<1>11. CASE /\ now # NoPiece
            /\ Packs(p, rest, Append(upload.pieces, now), Carried(now, p), upload.loose)
  <2> DEFINE c == Carried(now, p)
  <2>1. /\ c.to = p.to /\ c.from \in Nat \ {0} /\ c.from >= upload.done - Overlap + 1
        /\ c \in Piece
    BY <1>3, <1>5, <1>7, <1>11, SizeAssumption DEF Carried, Larger, Piece
  <2>2. Length(c) <= Bound
    <3>1. p.to = upload.done + Blank + n
      BY <1>5, <1>7, <1>11
    <3> HIDE DEF c, p, n, now
    <3> QED
      BY <1>3, <2>1, <3>1, SizeAssumption DEF Length, Bound, Blank
  <2>3. \A q \in Range(Append(upload.pieces, now)) : Length(q) <= Bound
    BY <1>2, <1>3, RangeAppend
  <2> HIDE DEF c
  <2> QED
    BY <1>3, <1>6, <1>8, <1>11, <2>1, <2>2, <2>3 DEF c
<1>12. CASE /\ now = NoPiece
            /\ Packs(p, rest, upload.pieces \o HardSplit(p), NoPiece,
                     upload.loose \cup {p.to})
  <2> DEFINE pieces == upload.pieces \o HardSplit(p)
             loose == upload.loose \cup {p.to}
  <2>1. NoPiece \in Piece /\ Length(NoPiece) <= Bound
    BY SizeAssumption DEF NoPiece, Piece, Length, Bound, Blank
  <2>2. pieces \in Seq(Piece) /\ Range(pieces) = Range(upload.pieces) \cup Range(HardSplit(p))
    BY <1>3, <1>5, SplitTyped, RangeConcat
  <2>3. \A q \in Range(pieces) : Length(q) <= Bound
    BY <1>2, <1>5, <2>2, WindowsShort
  <2>4. loose \in SUBSET Nat
    BY <1>3, <1>5
  <2>5. Packs(p, rest, pieces, NoPiece, loose)
    BY <1>12
  <2> HIDE DEF pieces, loose, p, rest
  <2> QED
    BY <1>8, <2>1, <2>2, <2>3, <2>4, <2>5
<1> QED
  BY <1>9, <1>10, <1>11, <1>12 DEF Pack

\* The invariant of the bound: what is cut and what is stored.
AllShort == Short /\ PiecesBounded

LEMMA ShortStep ==
  ASSUME Texts \subseteq Seq(1..Size), KBInv, AllShort, [Next]_vars
  PROVE  AllShort'
<1> USE DEF AllShort
<1>1. CASE upload' = upload /\ stored' = stored
  BY <1>1 DEF Short, PiecesBounded, Pieces
<1>2. CASE upload' = Idle /\ stored' = stored
  BY <1>2 DEF Short, PiecesBounded, Pieces, Idle, Cutting, Embedding
<1>3. ASSUME NEW d \in Documents, NEW t \in Texts, Upload(d, t) PROVE AllShort'
  <2>1. /\ upload'.left = t /\ upload'.pieces = <<>> /\ upload'.current = NoPiece
        /\ upload'.stage = "cutting" /\ stored' = stored
    BY <1>3 DEF Upload
  <2>2. t \in Seq(1..Size)
    OBVIOUS
  <2>3. Length(NoPiece) <= Bound /\ Range(<<>>) = {}
    BY SizeAssumption DEF NoPiece, Length, Bound, Blank, Range
  <2>4. upload' \notin Embedding
    BY <2>1 DEF Embedding
  <2> QED
    BY <2>1, <2>2, <2>3, <2>4 DEF Short, PiecesBounded, Pieces
<1>4. CASE Pack
  BY <1>4, ShortPack DEF KBInv, Pack, PiecesBounded, Pieces
<1>5. CASE PackLast
  <2>1. upload \in Cutting
    BY <1>5 DEF PackLast, KBInv, UploadCovered, Idle, Embedding
  <2>2. upload.pieces \in Seq(Piece) /\ upload.current \in Piece
    BY <2>1 DEF Cutting
  <2>3. /\ upload'.stage = "embedding" /\ stored' = stored
        /\ upload'.pieces \in {upload.pieces, Append(upload.pieces, upload.current)}
    BY <1>5 DEF PackLast
  <2>4. \A p \in Range(upload'.pieces) : Length(p) <= Bound
    <3>1. \A p \in Range(upload.pieces) : Length(p) <= Bound
      BY <2>1 DEF Short
    <3>2. Length(upload.current) <= Bound
      BY <2>1 DEF Short
    <3>3. CASE upload'.pieces = upload.pieces
      BY <3>1, <3>3
    <3>4. CASE upload'.pieces = Append(upload.pieces, upload.current)
      <4>1. Range(upload'.pieces) = Range(upload.pieces) \cup {upload.current}
        BY <2>2, <3>4, RangeAppend
      <4> QED
        BY <3>1, <3>2, <4>1
    <3> QED
      BY <2>3, <3>3, <3>4
  <2>5. upload' \notin Cutting
    BY <2>3 DEF Cutting
  <2> QED
    BY <2>3, <2>4, <2>5 DEF Short, PiecesBounded, Pieces
<1>6. CASE Store
  <2>1. upload \in Embedding
    BY <1>6 DEF Store, KBInv, UploadCovered, Idle, Cutting
  <2>2. upload' \notin Cutting /\ upload' \notin Embedding
    BY <1>6 DEF Store, Idle, Cutting, Embedding
  <2>3. \A d \in DOMAIN stored' :
           \/ stored'[d].pieces = upload.pieces
           \/ d \in DOMAIN stored /\ stored'[d] = stored[d]
    BY <1>6 DEF Store
  <2>4. \A p \in Range(upload.pieces) : Length(p) <= Bound
    BY <2>1 DEF Short
  <2> QED
    BY <2>2, <2>3, <2>4 DEF Short, PiecesBounded, Pieces, Range, Bound
<1>7. ASSUME NEW d \in Documents, Delete(d) PROVE AllShort'
  <2>1. upload' = upload /\ \A e \in DOMAIN stored' : e \in DOMAIN stored /\ stored'[e] = stored[e]
    BY <1>7 DEF Delete
  <2> QED
    BY <2>1 DEF Short, PiecesBounded, Pieces
<1>8. CASE UNCHANGED vars \/ UploadFails \/ Ask \/ Search \/ Answer \/ Spoken \/ ServiceChanges
  BY <1>1, <1>2, <1>8 DEF vars, UploadFails, Ask, Search, Answer, Spoken, ServiceChanges
<1> QED
  BY <1>3, <1>4, <1>5, <1>6, <1>7, <1>8 DEF Next

\* Of texts whose paragraphs each fit in a piece, as those of the test are, no
\* stored piece is longer than a piece, the tail carried and a blank line
\* (chunk_text).
THEOREM ShortParagraphsShortPieces ==
  ASSUME Texts \subseteq Seq(1..Size)
  PROVE  Spec => []PiecesBounded
<1>1. Init => AllShort
  BY DEF Init, AllShort, Short, PiecesBounded, Idle, Cutting, Embedding
<1>2. KBInv /\ AllShort /\ [Next]_vars => AllShort'
  BY ShortStep
<1>3. AllShort => PiecesBounded
  BY DEF AllShort
<1> QED
  BY <1>1, <1>2, <1>3, KBAlways, PTL DEF Spec

-----------------------------------------------------------------------------
(* Utterances.                                                             *)

\* An utterance has finitely many frames of speech.
LEMMA SpeechFinite ==
  ASSUME NEW u \in Seq(BOOLEAN)
  PROVE  IsFiniteSet(SpeechIn(u))
<1>1. IsFiniteSet(1..Len(u))
  BY FS_Interval
<1>2. SpeechIn(u) \in SUBSET (1..Len(u))
  BY DEF SpeechIn
<1> QED
  BY <1>1, <1>2, FS_Subset

\* A frame of speech adds one to the count, a quiet one nothing.
LEMMA SpeechAppended ==
  ASSUME NEW u \in Seq(BOOLEAN), NEW b \in BOOLEAN
  PROVE  Cardinality(SpeechIn(Append(u, b)))
            = IF b THEN Cardinality(SpeechIn(u)) + 1 ELSE Cardinality(SpeechIn(u))
<1> DEFINE n == Len(u) + 1
<1>1. CASE b
  <2>1. SpeechIn(Append(u, b)) = SpeechIn(u) \cup {n}
    BY <1>1 DEF SpeechIn
  <2>2. n \notin SpeechIn(u)
    BY DEF SpeechIn
  <2> QED
    BY <1>1, <2>1, <2>2, SpeechFinite, FS_AddElement
<1>2. CASE ~b
  <2>1. SpeechIn(Append(u, b)) = SpeechIn(u)
    BY <1>2 DEF SpeechIn
  <2> QED
    BY <1>2, <2>1
<1> QED
  BY <1>1, <1>2

\* A frame of speech leaves no quiet at the end.
LEMMA SpeechEndsQuiet ==
  ASSUME NEW u \in Seq(BOOLEAN)
  PROVE  EndsQuiet(Append(u, TRUE), 0)
  BY DEF EndsQuiet

\* A quiet frame lengthens the quiet at the end by one.
LEMMA QuietAppended ==
  ASSUME NEW u \in Seq(BOOLEAN), NEW n \in Nat, EndsQuiet(u, n)
  PROVE  EndsQuiet(Append(u, FALSE), n + 1)
<1> DEFINE w == Append(u, FALSE)
<1>1. Len(w) = Len(u) + 1 /\ \A i \in 1..Len(u) : w[i] = u[i]
  OBVIOUS
<1>2. Len(w) - (n + 1) = Len(u) - n /\ Len(u) - n \in 1..Len(u)
  BY <1>1 DEF EndsQuiet
<1>3. ~w[Len(w)]
  BY <1>1
<1> QED
  BY <1>1, <1>2, <1>3 DEF EndsQuiet

-----------------------------------------------------------------------------
(* The inductive invariant.                                                *)

\* The empty utterance.
LEMMA Empty == <<>> \in Seq(BOOLEAN) /\ Cardinality(SpeechIn(<<>>)) = 0
<1>1. <<>> \in Seq(BOOLEAN)
  OBVIOUS
<1>2. SpeechIn(<<>>) = {}
  BY DEF SpeechIn
<1> QED
  BY <1>1, <1>2, FS_EmptySet

\* With nothing buffered, nothing sent and nobody speaking, it holds.
LEMMA SilentAtFirst == EInit => IInv
<1> SUFFICES ASSUME EInit PROVE IInv
  OBVIOUS
<1>1. 0 \in 0..(BargeIn - 1)
  BY Thresholds
<1>2. TypeOK
  BY <1>1, Empty DEF EInit, TypeOK
<1>3. CountersTrue
  BY Empty DEF EInit, CountersTrue
<1> QED
  BY <1>2, <1>3, Thresholds
     DEF EInit, IInv, NotYetComplete, NothingHeldWhileSpeaking, UtteranceWhole

\* Dropping the buffer makes the counters true of it, whatever they were.
LEMMA ResetCounters ==
  ASSUME Reset
  PROVE  /\ CountersTrue' /\ NotYetComplete' /\ NothingHeldWhileSpeaking'
         /\ buffer' \in Seq(BOOLEAN) /\ speech_frames' \in Nat
         /\ silence_frames' \in Nat /\ triggered' \in BOOLEAN
<1>1. buffer' \in Seq(BOOLEAN)
  BY Empty DEF Reset
<1>2. CountersTrue'
  BY Empty DEF Reset, CountersTrue
<1>3. NotYetComplete' /\ NothingHeldWhileSpeaking'
  BY Thresholds DEF Reset, NotYetComplete, NothingHeldWhileSpeaking
<1> QED
  BY <1>1, <1>2, <1>3 DEF Reset

\* One frame more, while the assistant is silent.
LEMMA ListenInv ==
  ASSUME IInv, NEW isSpeech \in BOOLEAN, Listen(isSpeech)
  PROVE  IInv'
<1> DEFINE started == triggered \/ isSpeech
           audio == IF started THEN Append(buffer, isSpeech) ELSE buffer
           spoken == IF isSpeech THEN speech_frames + 1 ELSE speech_frames
           quiet == Quiet(isSpeech)
<1> USE DEF IInv, TypeOK
<1>1. /\ audio \in Seq(BOOLEAN) /\ spoken \in Nat /\ quiet \in Nat
      /\ started \in BOOLEAN
  <2>1. audio \in Seq(BOOLEAN)
    <3>1. Append(buffer, isSpeech) \in Seq(BOOLEAN)
      OBVIOUS
    <3> QED
      BY <3>1, Zenon
  <2>2. spoken \in Nat /\ quiet \in Nat
    BY DEF Quiet
  <2> QED
    BY <2>1, <2>2
<1>2. /\ started <=> audio # <<>>
      /\ Len(audio) <= MaxFrames
  BY Thresholds DEF CountersTrue, NotYetComplete
<1>3. spoken = Cardinality(SpeechIn(audio))
  BY SpeechAppended DEF CountersTrue
<1>4. ~started => quiet = 0
  BY DEF CountersTrue, Quiet
<1>5. started => audio[1] /\ EndsQuiet(audio, quiet)
  <2>1. CASE isSpeech
    <3>1. audio = Append(buffer, TRUE) /\ quiet = 0
      BY <2>1 DEF Quiet
    <3>2. audio[1]
      BY <3>1 DEF CountersTrue
    <3> QED
      BY <3>1, <3>2, SpeechEndsQuiet
  <2>2. CASE ~isSpeech /\ triggered
    <3>1. audio = Append(buffer, FALSE) /\ quiet = silence_frames + 1
      BY <2>2 DEF Quiet
    <3>2. buffer # <<>> /\ buffer[1] /\ EndsQuiet(buffer, silence_frames)
      BY <2>2 DEF CountersTrue
    <3>3. audio[1]
      BY <3>1, <3>2
    <3> QED
      BY <3>1, <3>2, <3>3, QuietAppended
  <2> QED
    BY <2>1, <2>2
<1>6. spoken >= MinSpeech => quiet <= SilenceFrames
  BY Thresholds DEF Quiet, NotYetComplete
<1>7. /\ speaking' = FALSE /\ barge_frames' = barge_frames
  BY DEF Listen
<1>8. CASE Complete(Len(audio), spoken, quiet)
  <2>1. sent' = audio /\ Reset
    BY <1>8 DEF Listen, Push
  <2>2. started
    <3>1. ~started => Len(audio) = 0 /\ quiet = 0
      BY <1>2, <1>4
    <3> QED
      BY <1>8, <3>1, Thresholds DEF Complete
  <2>3. UtteranceWhole'
    <3>1. CASE Len(audio) >= MaxFrames
      BY <1>1, <1>2, <1>5, <2>1, <2>2, <3>1, Thresholds DEF UtteranceWhole
    <3>2. CASE spoken >= MinSpeech /\ quiet >= SilenceFrames
      <4>1. quiet = SilenceFrames
        BY <1>1, <1>6, <3>2, Thresholds
      <4> QED
        BY <1>2, <1>3, <1>5, <2>1, <2>2, <3>2, <4>1 DEF UtteranceWhole
    <3> QED
      BY <1>8, <3>1, <3>2 DEF Complete
  <2>4. sent' \in Seq(BOOLEAN)
    BY <1>1, <2>1
  <2> QED
    BY <1>7, <2>1, <2>3, <2>4, ResetCounters
<1>9. CASE ~Complete(Len(audio), spoken, quiet)
  <2>1. /\ buffer' = audio /\ speech_frames' = spoken /\ silence_frames' = quiet
        /\ triggered' = started /\ sent' = sent
    BY <1>9 DEF Listen, Push
  <2>2. TypeOK'
    BY <1>1, <1>7, <2>1
  <2>3. CountersTrue'
    BY <1>2, <1>3, <1>4, <1>5, <2>1 DEF CountersTrue
  <2>4. NotYetComplete'
    <3>1. Len(audio) < MaxFrames /\ (spoken >= MinSpeech => quiet < SilenceFrames)
      BY <1>1, <1>9, Thresholds DEF Complete
    <3> QED
      BY <2>1, <3>1 DEF NotYetComplete
  <2>5. UtteranceWhole'
    BY <2>1 DEF UtteranceWhole
  <2> QED
    BY <1>7, <2>2, <2>3, <2>4, <2>5 DEF NothingHeldWhileSpeaking
<1> QED
  BY <1>8, <1>9

\* The invariant is inductive.
LEMMA FramesInv == IInv /\ [ENext]_evars => IInv'
<1> SUFFICES ASSUME IInv, [ENext]_evars PROVE IInv'
  OBVIOUS
<1> USE DEF IInv
<1>1. ASSUME NEW isSpeech \in BOOLEAN, Listen(isSpeech) PROVE IInv'
  BY <1>1, ListenInv
<1>2. ASSUME NEW isSpeech \in BOOLEAN, TalkOver(isSpeech) PROVE IInv'
  <2>1. speaking' \in BOOLEAN /\ barge_frames' \in 0..(BargeIn - 1)
    BY <1>2, Thresholds DEF TalkOver, TypeOK
  <2>2. UNCHANGED <<buffer, counters, sent>>
    BY <1>2 DEF TalkOver
  <2>3. speaking
    BY <1>2 DEF TalkOver
  <2> QED
    BY <2>1, <2>2, <2>3 DEF counters, TypeOK, CountersTrue, NotYetComplete,
                            NothingHeldWhileSpeaking, UtteranceWhole
<1>3. CASE PlaybackStarts
  <2>1. TypeOK'
    BY <1>3, Thresholds, ResetCounters DEF PlaybackStarts, TypeOK
  <2>2. UtteranceWhole'
    BY <1>3 DEF PlaybackStarts, UtteranceWhole
  <2> QED
    BY <1>3, <2>1, <2>2, ResetCounters DEF PlaybackStarts
<1>4. CASE PlaybackEnds
  <2>1. speaking' = FALSE /\ barge_frames' \in 0..(BargeIn - 1)
    BY <1>4, Thresholds DEF PlaybackEnds
  <2>2. UNCHANGED <<buffer, counters, sent>>
    BY <1>4 DEF PlaybackEnds
  <2> QED
    BY <2>1, <2>2 DEF counters, TypeOK, CountersTrue, NotYetComplete,
                      NothingHeldWhileSpeaking, UtteranceWhole
<1>5. CASE UNCHANGED evars
  BY <1>5 DEF evars, counters, TypeOK, CountersTrue, NotYetComplete,
              NothingHeldWhileSpeaking, UtteranceWhole
<1> QED
  BY <1>1, <1>2, <1>3, <1>4, <1>5 DEF ENext, Frame

\* The counters always say what is in the buffer.
THEOREM EndpointerInductive == ESpec => []IInv
  BY SilentAtFirst, FramesInv, PTL DEF ESpec

-----------------------------------------------------------------------------
(* The properties.                                                         *)

\* Whatever the thresholds, no utterance is cut short by a pause, and none
\* is longer than the cap.
THEOREM UtterancesAreWhole == ESpec => []UtteranceWhole
<1>1. IInv => UtteranceWhole
  BY DEF IInv
<1> QED
  BY <1>1, EndpointerInductive, PTL

\* However the caller rambles, the buffer stays below the cap (push).
THEOREM BufferCapped == ESpec => []BufferBounded
<1>1. IInv => BufferBounded
  BY DEF IInv, NotYetComplete, BufferBounded
<1> QED
  BY <1>1, EndpointerInductive, PTL

\* Nothing is in the buffer while the assistant speaks (_stream, on_media).
THEOREM EmptyWhileSpeaking == ESpec => []NothingHeldWhileSpeaking
<1>1. IInv => NothingHeldWhileSpeaking
  BY DEF IInv
<1> QED
  BY <1>1, EndpointerInductive, PTL
=============================================================================
