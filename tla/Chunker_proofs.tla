---------------------------- MODULE Chunker_proofs ----------------------------
(***************************************************************************)
(* Proofs about Chunker, for texts, windows and overlaps of every size.    *)
(***************************************************************************)
EXTENDS Chunker, TLAPS

\* What the loop works on; ChunkTypeOK without what it builds.
Input == text \in Seq(Char) /\ window \in Nat /\ overlap \in Nat

-----------------------------------------------------------------------------
(* Where a window ends and where the next one begins. *)

\* A window is not empty, and the overlap is at most half of it.
LEMMA WidthAndOverlap ==
  ASSUME Input
  PROVE  /\ Width \in Nat /\ Width >= 1
         /\ Overlap \in Nat /\ 2 * Overlap <= Width
         /\ Size \in Nat
  BY DEF Input, Width, Overlap, Size

\* A window ends behind its beginning, inside the text, and either where its
\* size says or at its last blank.
LEMMA WindowEnd ==
  ASSUME Input, NEW s \in Nat, s < Size
  PROVE  /\ End(s) \in Nat /\ s < End(s) /\ End(s) <= HardEnd(s)
         /\ HardEnd(s) \in Nat /\ HardEnd(s) <= Size /\ HardEnd(s) <= s + Width
         /\ End(s) = HardEnd(s) \/ (LastBlank(s, End(s)) /\ HardEnd(s) = s + Width)
<1>1. Width \in Nat /\ Width >= 1 /\ Size \in Nat
  BY WidthAndOverlap
<1>2. /\ HardEnd(s) \in Nat /\ s < HardEnd(s) /\ HardEnd(s) <= Size
      /\ HardEnd(s) <= s + Width
      /\ HardEnd(s) < Size => HardEnd(s) = s + Width
  BY <1>1 DEF HardEnd
<1>3. CASE HardEnd(s) < Size /\ \E e \in s .. Size : LastBlank(s, e)
  <2>1. End(s) \in s .. Size /\ LastBlank(s, End(s))
    BY <1>3 DEF End
  <2>2. QED
    BY <2>1, <1>1, <1>2, <1>3 DEF LastBlank
<1>4. CASE ~(HardEnd(s) < Size /\ \E e \in s .. Size : LastBlank(s, e))
  BY <1>4, <1>2 DEF End
<1>5. QED
  BY <1>3, <1>4

\* The next window begins behind this one's beginning and leaves no gap.
LEMMA NextWindow ==
  ASSUME Input, NEW s \in Nat, s < Size
  PROVE  /\ Following(s) \in Nat
         /\ s < Following(s) /\ Following(s) <= End(s)
         /\ End(s) - Overlap <= Following(s)
  BY WidthAndOverlap, WindowEnd DEF Following

-----------------------------------------------------------------------------
(* Type correctness. *)

\* The loop ends when a window reaches the end of the text, not later.
InText == ~over => start < Size

ChunkInv == ChunkTypeOK /\ InText

\* A chunk is never longer than the window it was cut from.
LEMMA ContentType ==
  ASSUME Input, NEW s \in Nat, s < Size,
         NEW f \in s .. Size, NEW e \in s .. Size, Trims(s, f, e)
  PROVE  /\ e - f \in 1 .. Width
         /\ Content(f, e) \in [1 .. e - f -> Char]
<1>0. e \in Nat /\ f \in Nat
  BY WidthAndOverlap
<1>1. e <= s + Width /\ e <= Size /\ f < e
  BY <1>0, WidthAndOverlap, WindowEnd DEF Trims
<1>2. e - f \in 1 .. Width
  BY <1>1, WidthAndOverlap
<1>3. ASSUME NEW i \in 1 .. e - f
      PROVE  At(f + i - 1) \in Char
  BY <1>1, WidthAndOverlap DEF Input, At, Size
<1>4. QED
  BY <1>2, <1>3 DEF Content

LEMMA ChunkInvInit == ChunkInit => ChunkInv
<1> SUFFICES ASSUME ChunkInit
             PROVE  ChunkInv
  OBVIOUS
<1>1. over \in BOOLEAN /\ (~over => 0 < Len(text))
  <2>1. over \in BOOLEAN /\ (~over => Len(text) # 0)
    BY Zenon DEF ChunkInit
  <2>2. text \in Seq(Char)
    BY DEF ChunkInit
  <2>3. QED
    BY <2>1, <2>2
<1>2. <<>> \in Seq(UNION {[1 .. n -> Char] : n \in 1 .. Width})
  OBVIOUS
<1>3. QED
  BY <1>1, <1>2 DEF ChunkInit, ChunkInv, ChunkTypeOK, InText, Size

LEMMA ChunkInvStep == ChunkInv /\ [ChunkNext]_chunking => ChunkInv'
<1> SUFFICES ASSUME ChunkInv, [ChunkNext]_chunking
             PROVE  ChunkInv'
  OBVIOUS
<1>1. CASE UNCHANGED chunking
  BY <1>1 DEF ChunkInv, ChunkTypeOK, InText, chunking, Size, Width
<1>2. ASSUME ~over, Advance
      PROVE  (Input /\ start \in Nat /\ over \in BOOLEAN /\ InText)' /\ Width' = Width
  <2>1. Input /\ start \in Nat /\ start < Size
    BY <1>2 DEF ChunkInv, ChunkTypeOK, InText, Input
  <2>2. Following(start) \in Nat /\ Following(start) <= End(start)
    BY <2>1, NextWindow
  <2>3. End(start) \in Nat /\ Size \in Nat
    BY <2>1, WindowEnd, WidthAndOverlap
  <2>4. QED
    BY <1>2, <2>1, <2>2, <2>3 DEF Advance, Input, InText, Size, Width
<1>3. CASE Window
  <2>1. Input /\ start \in Nat /\ start < Size /\ ~over /\ Advance
    BY <1>3 DEF ChunkInv, ChunkTypeOK, InText, Input, Window
  <2>2. PICK f \in start .. Size, e \in start .. Size :
          Trims(start, f, e) /\ Push(Content(f, e))
    BY <1>3 DEF Window
  <2> DEFINE Piece == UNION {[1 .. n -> Char] : n \in 1 .. Width}
  <2>3. Content(f, e) \in Piece
    BY <2>1, <2>2, ContentType
  <2>4. chunks \in Seq(Piece)
    BY DEF ChunkInv, ChunkTypeOK
  <2>5. chunks' \in Seq(Piece)
    <3> HIDE DEF Piece
    <3> QED BY <2>2, <2>3, <2>4 DEF Push
  <2>6. QED
    BY <2>1, <2>5, <1>2 DEF ChunkInv, ChunkTypeOK, Input
<1>4. CASE BlankWindow
  <2>1. ~over /\ Advance /\ UNCHANGED chunks
    BY <1>4 DEF BlankWindow
  <2>2. QED
    BY <2>1, <1>2 DEF ChunkInv, ChunkTypeOK, Input
<1>5. QED
  BY <1>1, <1>3, <1>4 DEF ChunkNext

\* The chunker's variables keep their types: windows begin inside the text
\* and no chunk is empty or longer than max_chars (chunk.rs:8-10).
THEOREM ChunkTypeCorrect == ChunkSpec => []ChunkTypeOK
<1>1. ChunkInv => ChunkTypeOK
  BY DEF ChunkInv
<1>2. QED
  BY <1>1, ChunkInvInit, ChunkInvStep, PTL DEF ChunkSpec

-----------------------------------------------------------------------------
(* Nothing is lost. *)

CoverInv == ChunkInv /\ ChunksCover

\* What was found in the chunks before a push is found in them after it.
LEMMA PushKeeps ==
  ASSUME ChunkTypeOK, NEW c, Push(c), text' = text,
         NEW k \in 1 .. Len(chunks), NEW f \in Nat, NEW p \in Nat, Occurs(k, f, p)
  PROVE  k \in 1 .. Len(chunks') /\ Occurs(k, f, p)'
<1> DEFINE Piece == UNION {[1 .. n -> Char] : n \in 1 .. Width}
<1>1. chunks \in Seq(Piece)
  BY DEF ChunkTypeOK
<1> HIDE DEF Piece
<1>2. CASE chunks' = chunks
  BY <1>2 DEF Occurs, Size, At
<1>3. CASE chunks' = Append(chunks, c)
  <2>1. k \in 1 .. Len(chunks') /\ chunks'[k] = chunks[k]
    BY <1>1, <1>3
  <2>2. QED
    BY <2>1 DEF Occurs, Size, At
<1>4. QED
  BY <1>2, <1>3 DEF Push

\* After a push, whether or not it was dropped, the window's content from its
\* first to its last character that is no blank is in the last chunk.
LEMMA PushCovers ==
  ASSUME ChunkTypeOK, start < Size,
         NEW f \in start .. Size, NEW e \in start .. Size, Trims(start, f, e),
         Push(Content(f, e)), text' = text, NEW p \in f .. e - 1
  PROVE  Len(chunks') \in 1 .. Len(chunks') /\ Occurs(Len(chunks), f, p)'
<1>0. Input /\ start \in Nat /\ Size \in Nat /\ f \in Nat /\ e \in Nat
  BY WidthAndOverlap DEF ChunkTypeOK, Input
<1> DEFINE Piece == UNION {[1 .. n -> Char] : n \in 1 .. Width}
           c == Content(f, e)
<1>1. c \in Seq(Char) /\ Len(c) = e - f /\ \A i \in 1 .. Len(c) : c[i] = At(f + i - 1)
  <2>1. e - f \in Nat /\ c \in [1 .. e - f -> Char]
    BY <1>0, ContentType
  <2>2. \A i \in 1 .. e - f : c[i] = At(f + i - 1)
    BY DEF Content
  <2>3. QED
    <3> HIDE DEF c
    <3> QED BY <2>1, <2>2
<1>2. chunks \in Seq(Piece)
  BY DEF ChunkTypeOK
<1>3. Len(chunks') \in 1 .. Len(chunks') /\ chunks'[Len(chunks')] = c
  <2> HIDE DEF Piece, c
  <2>1. Push(c)
    BY DEF c
  <2>2. CASE chunks # <<>> /\ chunks[Len(chunks)] = c
    <3>1. chunks' = chunks
      BY <2>1, <2>2 DEF Push
    <3>2. QED
      BY <1>2, <2>2, <3>1
  <2>3. CASE ~(chunks # <<>> /\ chunks[Len(chunks)] = c)
    <3>1. chunks' = Append(chunks, c)
      BY <2>1, <2>3 DEF Push
    <3>2. QED
      BY <1>2, <3>1
  <2>4. QED
    BY <2>2, <2>3
<1>4. QED
  <2> HIDE DEF Piece, c
  <2> QED BY <1>0, <1>1, <1>3 DEF Occurs, Size, At

LEMMA CoverInit == ChunkInit => CoverInv
<1> SUFFICES ASSUME ChunkInit
             PROVE  ChunksCover
  BY ChunkInvInit DEF CoverInv
<1>1. text \in Seq(Char) /\ start = 0 /\ (over => Len(text) = 0)
  BY Zenon DEF ChunkInit
<1>2. Passed = 0
  BY <1>1 DEF Passed, Size
<1>3. QED
  BY <1>2 DEF ChunksCover

LEMMA CoverStep == CoverInv /\ [ChunkNext]_chunking => CoverInv'
<1> SUFFICES ASSUME CoverInv, [ChunkNext]_chunking
             PROVE  ChunksCover'
  BY ChunkInvStep DEF CoverInv
<1>0. ChunkTypeOK /\ Input /\ InText
  BY DEF CoverInv, ChunkInv, ChunkTypeOK, Input
<1>1. CASE UNCHANGED chunking
  <2>1. text' = text /\ chunks' = chunks /\ Passed' = Passed /\ ChunksCover
    BY <1>1 DEF CoverInv, Passed, Size, chunking
  <2>2. \A k, f, p : Occurs(k, f, p)' = Occurs(k, f, p)
    BY <2>1, Zenon DEF Occurs, Size, At
  <2>3. QED
    BY <2>1, <2>2 DEF ChunksCover, At
<1>2. ASSUME ~over, Advance
      PROVE  /\ start \in Nat /\ start < Size /\ Size \in Nat /\ End(start) \in Nat
             /\ text' = text /\ Size' = Size /\ Passed = start
             /\ Passed' \in Nat /\ Passed' <= End(start)
  <2>1. start \in Nat /\ start < Size /\ Size \in Nat /\ Passed = start
    BY <1>0, <1>2, WidthAndOverlap DEF ChunkTypeOK, InText, Passed
  <2>2. /\ Following(start) \in Nat /\ Following(start) <= End(start)
        /\ End(start) \in Nat /\ End(start) <= Size
    BY <1>0, <2>1, NextWindow, WindowEnd
  <2>3. text' = text /\ Size' = Size
    BY <1>2 DEF Advance, Size
  <2>4. (Passed' = Size /\ End(start) = Size) \/ Passed' = Following(start)
    <3>1. CASE End(start) >= Size
      <4>1. over'
        BY <3>1, <1>2, Zenon DEF Advance
      <4>2. QED
        BY <4>1, <3>1, <2>1, <2>2, <2>3 DEF Passed
    <3>2. CASE ~(End(start) >= Size)
      BY <3>2, <2>3, <1>2 DEF Advance, Passed
    <3>3. QED
      BY <3>1, <3>2
  <2>5. QED
    BY <2>1, <2>2, <2>3, <2>4
<1>3. CASE Window
  <2>1. ~over /\ Advance
    BY <1>3 DEF Window
  <2>2. PICK f \in start .. Size, e \in start .. Size :
          Trims(start, f, e) /\ Push(Content(f, e))
    BY <1>3 DEF Window
  <2>3. SUFFICES ASSUME NEW p \in 0 .. Passed' - 1, At(p) \notin Blank
                 PROVE  \E k \in 1 .. Len(chunks'), g \in 0 .. p : Occurs(k, g, p)'
    BY <2>1, <1>2 DEF ChunksCover, At
  <2>4. CASE p < start
    <3>1. PICK k \in 1 .. Len(chunks), g \in 0 .. p : Occurs(k, g, p)
      BY <2>1, <2>3, <2>4, <1>2 DEF CoverInv, ChunksCover
    <3>2. k \in 1 .. Len(chunks') /\ Occurs(k, g, p)'
      BY <3>1, <2>1, <2>2, <1>0, <1>2, PushKeeps
    <3>3. QED
      BY <3>1, <3>2
  <2>5. CASE p >= start
    <3>1. p \in f .. e - 1
      BY <2>1, <2>2, <2>3, <2>5, <1>2 DEF Trims
    <3>2. Len(chunks') \in 1 .. Len(chunks') /\ Occurs(Len(chunks), f, p)'
      BY <3>1, <2>1, <2>2, <1>0, <1>2, PushCovers
    <3>3. f \in 0 .. p
      BY <3>1, <2>1, <1>2
    <3>4. QED
      BY <3>2, <3>3
  <2>6. QED
    BY <2>4, <2>5, <2>1, <1>2
<1>4. CASE BlankWindow
  <2>1. ~over /\ Advance /\ AllBlank(start) /\ UNCHANGED chunks
    BY <1>4 DEF BlankWindow
  <2>2. SUFFICES ASSUME NEW p \in 0 .. Passed' - 1, At(p) \notin Blank
                 PROVE  \E k \in 1 .. Len(chunks'), g \in 0 .. p : Occurs(k, g, p)'
    BY <2>1, <1>2 DEF ChunksCover, At
  <2>3. p \in 0 .. Passed - 1
    BY <2>1, <2>2, <1>2 DEF AllBlank
  <2>4. PICK k \in 1 .. Len(chunks), g \in 0 .. p : Occurs(k, g, p)
    BY <2>2, <2>3 DEF CoverInv, ChunksCover
  <2>5. Occurs(k, g, p)'
    BY <2>1, <2>4, <1>2 DEF Occurs, At
  <2>6. QED
    BY <2>1, <2>4, <2>5
<1>5. QED
  BY <1>1, <1>3, <1>4 DEF ChunkNext

\* No part of a document is lost to search by the way it is cut: all of it that
\* is not blank is in some chunk (chunk.rs:3-5).
THEOREM ChunksCoverText == ChunkSpec => []ChunksCover
<1>1. CoverInv => ChunksCover
  BY DEF CoverInv
<1>2. QED
  BY <1>1, CoverInit, CoverStep, PTL DEF ChunkSpec

-----------------------------------------------------------------------------
(* The number of chunks. *)

\* The next window begins further on, at most the overlap before the end of
\* this one; behind the end of the text there is nothing left to move.
LEMMA BehindEnd ==
  ASSUME Input, NEW s \in Nat
  PROVE  /\ After(s) \in Nat
         /\ s < Size => s < After(s) /\ After(s) <= Size
         /\ s >= Size => After(s) >= Size
         /\ s < Size => After(s) >= Size \/ After(s) = Following(s)
         /\ s < Size => After(s) >= End(s) - Overlap
<1>1. CASE s < Size
  BY <1>1, WidthAndOverlap, WindowEnd, NextWindow DEF After
<1>2. CASE s >= Size
  <2>1. Size \in Nat /\ Width \in Nat
    BY WidthAndOverlap
  <2>2. HardEnd(s) = Size
    BY <1>2, <2>1 DEF HardEnd
  <2>3. End(s) = Size
    BY <2>1, <2>2 DEF End
  <2>4. QED
    BY <1>2, <2>1, <2>3 DEF After
<1>3. QED
  BY <1>1, <1>2, WidthAndOverlap

\* When the window from s was cut at a blank, a later one that begins no later
\* than that blank and is not cut there too reaches as far as the window from s
\* would have without the cut.
LEMMA PastTheCut ==
  ASSUME Input, NEW s \in Nat, s < Size,
         LastBlank(s, End(s)), HardEnd(s) = s + Width,
         NEW t \in Nat, s <= t, t <= End(s), End(t) # End(s)
  PROVE  End(t) >= s + Width
<1> DEFINE e == End(s)
<1>1. /\ e \in Nat /\ e < s + Width /\ s + Width <= Size /\ At(e) \in Blank
      /\ \A i \in e + 1 .. s + Width - 1 : At(i) \notin Blank
  BY WindowEnd, WidthAndOverlap DEF LastBlank
<1>2. t < Size /\ Size \in Nat /\ Width \in Nat
  BY <1>1, WidthAndOverlap
<1>3. /\ End(t) \in Nat /\ End(t) <= HardEnd(t) /\ HardEnd(t) \in Nat /\ t < End(t)
      /\ End(t) = HardEnd(t) \/ LastBlank(t, End(t))
  BY <1>2, WindowEnd
<1>4. HardEnd(t) >= s + Width
  BY <1>1, <1>2 DEF HardEnd
<1>5. CASE End(t) = HardEnd(t)
  BY <1>4, <1>5
<1>6. CASE LastBlank(t, End(t))
  <2>1. /\ At(End(t)) \in Blank
        /\ \A i \in End(t) + 1 .. HardEnd(t) - 1 : At(i) \notin Blank
    BY <1>6 DEF LastBlank
  <2>2. End(t) >= e
    BY <2>1, <1>1, <1>2, <1>3, <1>4
  <2>3. End(t) > e
    BY <2>2, <1>1, <1>3
  <2>4. QED
    BY <2>1, <2>3, <1>1, <1>2, <1>3
<1>7. QED
  BY <1>3, <1>5, <1>6

\* Three windows from any point of the text move by a window less the overlap.
LEMMA ThreeWindows ==
  ASSUME Input, NEW s \in Nat, s < Size
  PROVE  LET third == After(After(After(s))) IN
         third >= Size \/ third >= s + Width - Overlap
<1> DEFINE first == After(s)
           second == After(first)
           third == After(second)
           Far(n) == n >= Size \/ n >= s + Width - Overlap
<1>1. /\ Width \in Nat /\ Width >= 1 /\ Overlap \in Nat /\ 2 * Overlap <= Width
      /\ Size \in Nat
  BY WidthAndOverlap
<1>2. first \in Nat /\ second \in Nat /\ third \in Nat
  BY BehindEnd
<1>3. ASSUME NEW n \in Nat, Far(n)
      PROVE  Far(After(n))
  BY <1>1, <1>3, BehindEnd
<1>4. CASE End(s) = HardEnd(s)
  <2>1. End(s) \in Nat /\ (End(s) = s + Width \/ End(s) >= Size)
    BY <1>1, <1>4, WindowEnd DEF HardEnd
  <2>2. Far(first)
    BY <2>1, <1>1, BehindEnd DEF After
  <2>3. QED
    BY <2>2, <1>2, <1>3
<1>5. CASE LastBlank(s, End(s)) /\ HardEnd(s) = s + Width
  <2>1. End(s) \in Nat /\ s < End(s) /\ End(s) < Size /\ s + Width <= Size
    BY <1>1, <1>5, WindowEnd DEF LastBlank
  \* A window that ends elsewhere than at the cut goes far.
  <2>2. ASSUME NEW t \in Nat, s <= t, t <= End(s), End(t) # End(s)
        PROVE  Far(After(t))
    <3>1. End(t) >= s + Width
      BY <2>2, <1>5, PastTheCut
    <3>2. t < Size /\ End(t) \in Nat
      BY <2>1, <2>2, <1>1, WindowEnd
    <3>3. QED
      BY <3>1, <3>2, <1>1, BehindEnd
  \* One that begins at the cut is of that kind.
  <2>3. Far(After(End(s)))
    <3>1. End(End(s)) # End(s)
      BY <2>1, WindowEnd
    <3>2. QED
      BY <2>1, <2>2, <3>1
  <2>4. first = Following(s)
    BY <2>1, <1>1 DEF After
  <2>5. CASE End(s) - Overlap > s
    <3>1. first = End(s) - Overlap
      BY <2>4, <2>5 DEF Following
    <3>2. CASE End(first) # End(s)
      <4>1. Far(second)
        BY <3>1, <3>2, <2>1, <2>2, <2>5, <1>1, <1>2
      <4>2. QED
        BY <4>1, <1>2, <1>3
    <3>3. CASE End(first) = End(s)
      <4>1. second = End(s)
        BY <3>1, <3>3, <2>1, <1>1 DEF After, Following
      <4>2. QED
        BY <4>1, <2>3
    <3>4. QED
      BY <3>2, <3>3
  <2>6. CASE ~(End(s) - Overlap > s)
    <3>1. first = End(s)
      BY <2>4, <2>6 DEF Following
    <3>2. QED
      BY <3>1, <2>3, <1>2, <1>3
  <2>7. QED
    BY <2>5, <2>6
<1>6. QED
  BY <1>4, <1>5, WindowEnd

\* The number of chunks of a document is bounded by its length: three windows
\* in a row move by half of max_chars, though one need not (chunk.rs:12-13).
THEOREM ThreeWindowsMove == ChunkSpec => []ThreeWindowsAdvance
<1>1. ChunkInv => ThreeWindowsAdvance
  <2> SUFFICES ASSUME ChunkInv, ~over
               PROVE  LET third == After(After(After(start))) IN
                      third >= Size \/ 2 * (third - start) >= Width
    BY DEF ThreeWindowsAdvance
  <2>1. Input /\ start \in Nat /\ start < Size
    BY DEF ChunkInv, ChunkTypeOK, InText, Input
  <2> DEFINE third == After(After(After(start)))
  <2>2. third \in Nat /\ (third >= Size \/ third >= start + Width - Overlap)
    BY <2>1, ThreeWindows, BehindEnd
  <2>3. QED
    BY <2>1, <2>2, WidthAndOverlap
<1>2. QED
  BY <1>1, ChunkInvInit, ChunkInvStep, PTL DEF ChunkSpec
=============================================================================
