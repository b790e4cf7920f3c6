------------------------------- MODULE Chunker -------------------------------
(***************************************************************************)
(* chunk_text, which splits a document into overlapping windows before its *)
(* chunks are embedded and stored: one step per turn of its loop.          *)
(*                                                                         *)
(* The characters of the text are numbered from 0, as in the code.  A      *)
(* chunk is its content, a function on 1 .. length.                        *)
(***************************************************************************)
EXTENDS Integers, Sequences

CONSTANTS
  Char,    \* characters
  Blank    \* those for which char::is_whitespace holds

ASSUME CharAssumption == Blank \subseteq Char

VARIABLES
  text,     \* the document
  window,   \* max_chars, as the caller passes it
  overlap,  \* overlap, as the caller passes it
  start,    \* where the next window begins
  chunks,   \* what has been pushed so far
  over      \* the loop has ended

chunking == <<text, window, overlap, start, chunks, over>>

Size == Len(text)
At(i) == text[i + 1]

ChunkInit ==
  /\ text \in Seq(Char) /\ window \in Nat /\ overlap \in Nat
  /\ start = 0
  /\ chunks = <<>>
  /\ over = (Len(text) = 0)

\* max_chars of 0 is treated as 1.
Width == IF window < 1 THEN 1 ELSE window

\* Faulty variant: an overlap of any size.
OverlapUnclamped == overlap

\* No more than half a window is repeated.
Overlap == IF overlap > Width \div 2 THEN Width \div 2 ELSE overlap

HardEnd(s) == IF s + Width > Size THEN Size ELSE s + Width

\* e is the last blank of the window from s, and not its first character.
LastBlank(s, e) ==
  /\ e > s /\ e < HardEnd(s) /\ At(e) \in Blank
  /\ \A i \in e + 1 .. HardEnd(s) - 1 : At(i) \notin Blank

\* Where the window from s ends: at that blank, if there is one and the text
\* goes on after the window.
End(s) ==
  IF HardEnd(s) < Size /\ \E e \in s .. Size : LastBlank(s, e)
  THEN CHOOSE e \in s .. Size : LastBlank(s, e)
  ELSE HardEnd(s)

\* Faulty variant: a fixed stride, wherever the window was cut.
FollowingFixed(s) == s + Width - Overlap

\* Where the window after that one begins.
Following(s) ==
  IF End(s) - Overlap > s THEN End(s) - Overlap ELSE End(s)

\* Content of the characters f .. e - 1.
Content(f, e) == [i \in 1 .. e - f |-> At(f + i - 1)]

\* f .. e - 1 is what trim leaves of the window from s.
Trims(s, f, e) ==
  /\ s <= f /\ f < e /\ e <= End(s)
  /\ At(f) \notin Blank /\ At(e - 1) \notin Blank
  /\ \A i \in (s .. f - 1) \cup (e .. End(s) - 1) : At(i) \in Blank

AllBlank(s) == \A i \in s .. End(s) - 1 : At(i) \in Blank

\* A chunk equal to the previous one is not pushed again.
Push(c) ==
  chunks' = IF chunks # <<>> /\ chunks[Len(chunks)] = c THEN chunks
            ELSE Append(chunks, c)

Advance ==
  /\ UNCHANGED <<text, window, overlap>>
  /\ over' = (End(start) >= Size)
  /\ start' = IF End(start) >= Size THEN start ELSE Following(start)

\* One turn of the loop over a window with something in it.
Window ==
  /\ ~over
  /\ \E f, e \in start .. Size : Trims(start, f, e) /\ Push(Content(f, e))
  /\ Advance

\* One turn over a blank window, which yields no chunk.
BlankWindow ==
  /\ ~over
  /\ AllBlank(start)
  /\ UNCHANGED chunks
  /\ Advance

ChunkNext == Window \/ BlankWindow

ChunkSpec == ChunkInit /\ [][ChunkNext]_chunking

-----------------------------------------------------------------------------
(* Properties. *)

ChunkTypeOK ==
  /\ text \in Seq(Char) /\ window \in Nat /\ overlap \in Nat
  /\ start \in Nat
  /\ chunks \in Seq(UNION {[1 .. n -> Char] : n \in 1 .. Width})
  /\ over \in BOOLEAN

\* Where the next window will begin, or the end of the text.
Passed == IF over THEN Size ELSE start

\* The content of chunk k is in the text at f, and character p is in it.
Occurs(k, f, p) ==
  LET c == chunks[k] IN
  /\ f <= p /\ p < f + Len(c) /\ f + Len(c) <= Size
  /\ \A i \in 1 .. Len(c) : c[i] = At(f + i - 1)

\* Nothing of a document is lost: every character the loop has passed, unless
\* it is blank, is inside an occurrence of some chunk, whatever the breaks,
\* the overlap and the dropped repetitions.
ChunksCover ==
  \A p \in 0 .. Passed - 1 :
    At(p) \in Blank \/ \E k \in 1 .. Len(chunks), f \in 0 .. p : Occurs(k, f, p)

\* The number of chunks stays in proportion to the text.  One window may move
\* by a single character (chunk.rs:12 says half a window), and two by little
\* more, but three in a row move by half a window or reach the end.
After(s) == IF End(s) >= Size THEN Size ELSE Following(s)

ThreeWindowsAdvance ==
  ~over =>
    LET third == After(After(After(start))) IN
    third >= Size \/ 2 * (third - start) >= Width
=============================================================================
