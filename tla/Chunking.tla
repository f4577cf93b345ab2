------------------------------ MODULE Chunking ------------------------------
(***************************************************************************)
(* chunk_pages of chunking_service.py: the text of a document, page by     *)
(* page, is cut into windows that overlap.                                 *)
(*                                                                         *)
(* A page is the set of positions of its characters that are not white     *)
(* space.  One step is one iteration of the inner loop, or a blank page.   *)
(***************************************************************************)
EXTENDS Naturals, Sequences, FiniteSets

CONSTANTS
    Documents,  \* documents, as sequences of pages
    Settings    \* values of chunk_size and chunk_overlap

\* A page has a first and a last character, or is blank.  The overlap is
\* smaller than the chunk, as it is in the defaults the only caller uses: with
\* any other the window would not move.
ASSUME ChunkingAssumption ==
    /\ Documents \subseteq Seq(SUBSET (Nat \ {0}))
    /\ \A pages \in Documents : \A p \in DOMAIN pages :
          pages[p] # {} => \E a, b \in pages[p] : \A i \in pages[p] :
                               a <= i /\ i <= b
    /\ Settings \subseteq [size : Nat \ {0}, overlap : Nat]
    /\ \A s \in Settings : s.overlap < s.size

VARIABLES
    pages, setting,  \* the arguments
    page,            \* the page at hand
    start,           \* position before the window
    chunks           \* what will be returned

vars == <<pages, setting, page, start, chunks>>

First(text) == CHOOSE i \in text : \A j \in text : i <= j
Last(text) == CHOOSE i \in text : \A j \in text : j <= i

\* strip takes what is before the first character.
StartOf(text) == IF text = {} THEN 0 ELSE First(text) - 1

More == page <= Len(pages)

StartAt(p) == IF p \in DOMAIN pages THEN StartOf(pages[p]) ELSE 0

Init ==
    /\ pages \in Documents
    /\ setting \in Settings
    /\ page = 1
    /\ start = StartAt(1)
    /\ chunks = <<>>

TurnPage ==
    /\ page' = page + 1
    /\ start' = StartAt(page + 1)

SkipBlank ==
    /\ More /\ pages[page] = {}
    /\ TurnPage
    /\ UNCHANGED <<pages, setting, chunks>>

End ==
    LET last == Last(pages[page])
    IN IF start + setting.size < last THEN start + setting.size ELSE last

\* The characters of a window; interior white space goes with them.
Piece(text, from, to) == {i \in text : from < i /\ i <= to}

Collect(piece) ==
    chunks' = IF piece = {} THEN chunks
              ELSE Append(chunks, [page |-> page, text |-> piece])

\* Seeded fault: the next window begins one character too late.
CutPastEnd ==
    /\ More /\ pages[page] # {}
    /\ Collect(Piece(pages[page], start, End))
    /\ IF End = Last(pages[page]) THEN TurnPage
       ELSE start' = End + 1 - setting.overlap /\ UNCHANGED page
    /\ UNCHANGED <<pages, setting>>

\* Seeded fault: the overlap is taken from the window's start.
CutByHalves ==
    /\ More /\ pages[page] # {}
    /\ Collect(Piece(pages[page], start, End))
    /\ IF End = Last(pages[page]) THEN TurnPage
       ELSE /\ start' = IF setting.overlap = 0 THEN End
                        ELSE start + setting.overlap
            /\ UNCHANGED page
    /\ UNCHANGED <<pages, setting>>

\* Seeded fault: the loop runs until the window begins past the end.
CutToTheEnd ==
    /\ More /\ pages[page] # {}
    /\ Collect(Piece(pages[page], start, End))
    /\ IF End - setting.overlap >= Last(pages[page]) THEN TurnPage
       ELSE start' = End - setting.overlap /\ UNCHANGED page
    /\ UNCHANGED <<pages, setting>>

Cut ==
    /\ More /\ pages[page] # {}
    /\ Collect(Piece(pages[page], start, End))
    /\ IF End = Last(pages[page]) THEN TurnPage
       ELSE start' = End - setting.overlap /\ UNCHANGED page
    /\ UNCHANGED <<pages, setting>>

\* The chunks are returned.
Return == ~More /\ UNCHANGED vars

Next == SkipBlank \/ Cut \/ Return

Spec == Init /\ [][Next]_vars

----------------------------------------------------------------------------
(* Properties.                                                             *)

TypeOK ==
    /\ pages \in Documents
    /\ setting \in Settings
    /\ page \in 1 .. Len(pages) + 1
    /\ start \in Nat
    /\ chunks \in Seq([page : 1 .. Len(pages), text : SUBSET Nat])

\* No character of a page that has been cut is missing from its chunks.
NothingIsLost ==
    \A p \in 1 .. page - 1 : \A i \in pages[p] :
        \E k \in DOMAIN chunks : chunks[k].page = p /\ i \in chunks[k].text

\* The window at the given number of strides, and whether the page reaches it.
Stride == setting.size - setting.overlap
WindowText(text, n) ==
    LET from == StartOf(text) + n * Stride
    IN Piece(text, from, from + setting.size)
Reached(text, n) ==
    n = 0 \/ StartOf(text) + (n - 1) * Stride + setting.size < Last(text)

\* The windows of the document that are not blank, by page and number.
TextWindows ==
    {w \in UNION {{p} \X (0 .. Last(pages[p])) :
                     p \in {q \in DOMAIN pages : pages[q] # {}}} :
        /\ Reached(pages[w[1]], w[2])
        /\ WindowText(pages[w[1]], w[2]) # {}}

\* In document order, how many of them there are up to this one.
UpTo(v, w) == v[1] < w[1] \/ (v[1] = w[1] /\ v[2] <= w[2])
Place(w) == Cardinality({v \in TextWindows : UpTo(v, w)})

ChunkOf(w) == [page |-> w[1], text |-> WindowText(pages[w[1]], w[2])]

\* What is returned are the windows of the chosen size, each a stride after the
\* one before, that are not blank, in document order: none is repeated, skipped
\* or cut short but at the end of a page.
ChunksAreWindows ==
    ~More => /\ Len(chunks) = Cardinality(TextWindows)
             /\ \A w \in TextWindows : chunks[Place(w)] = ChunkOf(w)

\* The loop cannot run on: every iteration moves the window forward, on its page
\* and not beyond the last character, or turns the page.
EveryStepAdvances ==
    [][\/ page' = page + 1
       \/ /\ page' = page
          /\ start < start' /\ start' < Last(pages[page])]_vars
=============================================================================
