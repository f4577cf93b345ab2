--------------------------- MODULE ChunkingProofs ---------------------------
(***************************************************************************)
(* Proofs about the cutting of documents, for any documents and settings   *)
(* of the assumption.                                                      *)
(***************************************************************************)
EXTENDS Chunking, FiniteSetTheorems, TLAPS

\* A page at hand that is not blank has a first and a last character.
LEMMA Ends ==
    ASSUME pages \in Documents, NEW p \in DOMAIN pages, pages[p] # {}
    PROVE  /\ pages[p] \subseteq Nat \ {0}
           /\ First(pages[p]) \in pages[p]
           /\ Last(pages[p]) \in pages[p]
           /\ \A i \in pages[p] : First(pages[p]) <= i /\ i <= Last(pages[p])
<1> DEFINE text == pages[p]
<1>1. text \subseteq Nat \ {0}
  BY ChunkingAssumption
<1>2. PICK a \in text, b \in text : \A i \in text : a <= i /\ i <= b
  BY ChunkingAssumption
<1>3. /\ First(text) \in text
      /\ \A i \in text : First(text) <= i
  BY <1>2 DEF First
<1>4. /\ Last(text) \in text
      /\ \A i \in text : i <= Last(text)
  BY <1>2 DEF Last
<1> QED
  BY <1>1, <1>3, <1>4

\* A window begins before the last character of its page.
Ahead == More /\ pages[page] # {} => start < Last(pages[page])

ChunkInv == TypeOK /\ Ahead

\* Where a page begins.
LEMMA Beginning ==
    ASSUME pages \in Documents, NEW p \in Nat
    PROVE  /\ StartAt(p) \in Nat
           /\ p \in DOMAIN pages /\ pages[p] # {} =>
                  /\ \A i \in pages[p] : StartAt(p) < i
                  /\ StartAt(p) < Last(pages[p])
<1>1. CASE p \in DOMAIN pages /\ pages[p] # {}
  BY <1>1, Ends DEF StartAt, StartOf
<1>2. CASE ~(p \in DOMAIN pages /\ pages[p] # {})
  BY <1>2 DEF StartAt, StartOf
<1> QED
  BY <1>1, <1>2

\* What an iteration of the inner loop does: the window ends on the page, and
\* either with it, or so that the next begins further on.
LEMMA CutBounds ==
    ASSUME ChunkInv, More, pages[page] # {}
    PROVE  /\ page \in DOMAIN pages
           /\ Last(pages[page]) \in Nat
           /\ End \in Nat /\ start < End /\ End <= Last(pages[page])
           /\ End # Last(pages[page]) =>
                  /\ End - setting.overlap \in Nat
                  /\ start < End - setting.overlap
                  /\ End - setting.overlap <= End
                  /\ End < Last(pages[page])
<1>1. /\ setting.size \in Nat \ {0} /\ setting.overlap \in Nat
      /\ setting.overlap < setting.size
  BY ChunkingAssumption DEF ChunkInv, TypeOK
<1>2. page \in DOMAIN pages
  BY ChunkingAssumption DEF ChunkInv, TypeOK, More
<1>3. Last(pages[page]) \in Nat
  BY <1>2, Ends DEF ChunkInv, TypeOK
<1>4. start \in Nat /\ start < Last(pages[page])
  BY DEF ChunkInv, TypeOK, Ahead
<1> QED
  BY <1>1, <1>2, <1>3, <1>4 DEF End

\* Turning the page keeps the invariant's share of page and window.
LEMMA TurnKeeps ==
    ASSUME ChunkInv, More, TurnPage, UNCHANGED pages
    PROVE  /\ page' \in 1 .. Len(pages') + 1
           /\ start' \in Nat
           /\ Ahead'
<1>1. Len(pages) \in Nat /\ DOMAIN pages = 1 .. Len(pages)
  BY ChunkingAssumption DEF ChunkInv, TypeOK
<1>2. page \in Nat /\ page' = page + 1 /\ page' \in Nat
  BY <1>1 DEF TurnPage, ChunkInv, TypeOK
<1>3. page' \in 1 .. Len(pages') + 1
  BY <1>1, <1>2 DEF More, ChunkInv, TypeOK
<1>4. start' = StartAt(page')
  BY <1>2 DEF TurnPage, StartAt
<1>5. start' \in Nat
  BY <1>2, <1>4, Beginning DEF ChunkInv, TypeOK
<1>6. Ahead'
  <2> SUFFICES ASSUME More', pages'[page'] # {}
               PROVE  start' < Last(pages'[page'])
    BY DEF Ahead
  <2>1. page' \in DOMAIN pages
    BY <1>1, <1>2, <1>3 DEF More
  <2> QED
    BY <1>2, <1>4, <2>1, Beginning DEF ChunkInv, TypeOK
<1> QED
  BY <1>3, <1>5, <1>6

LEMMA ChunkInvInductive == ChunkInv /\ [Next]_vars => ChunkInv'
<1> SUFFICES ASSUME ChunkInv, [Next]_vars PROVE ChunkInv'
  OBVIOUS
<1>1. CASE SkipBlank
  BY <1>1, TurnKeeps DEF SkipBlank, ChunkInv, TypeOK
<1>2. CASE Cut
  <2> DEFINE piece == Piece(pages[page], start, End)
  <2>1. /\ More /\ pages[page] # {} /\ UNCHANGED <<pages, setting>>
        /\ Collect(piece)
        /\ End = Last(pages[page]) => TurnPage
        /\ End # Last(pages[page]) =>
               start' = End - setting.overlap /\ page' = page
    BY <1>2 DEF Cut
  <2>2. /\ page \in 1 .. Len(pages) /\ piece \subseteq Nat
    BY <2>1, CutBounds, Ends, ChunkingAssumption
       DEF Piece, ChunkInv, TypeOK
  <2>3. chunks' \in Seq([page : 1 .. Len(pages'), text : SUBSET Nat])
    <3> DEFINE Chunk == [page : 1 .. Len(pages), text : SUBSET Nat]
    <3>1. chunks \in Seq(Chunk) /\ [page |-> page, text |-> piece] \in Chunk
      BY <2>2 DEF ChunkInv, TypeOK
    <3> HIDE DEF Chunk, piece
    <3>2. chunks' \in Seq(Chunk)
      BY <2>1, <3>1 DEF Collect
    <3> QED
      BY <2>1, <3>2 DEF Chunk
  <2>4. CASE End = Last(pages[page])
    BY <2>1, <2>3, <2>4, TurnKeeps DEF ChunkInv, TypeOK
  <2>5. CASE End # Last(pages[page])
    BY <2>1, <2>3, <2>5, CutBounds DEF ChunkInv, TypeOK, Ahead
  <2> QED
    BY <2>4, <2>5
<1>3. CASE UNCHANGED vars
  BY <1>3 DEF vars, ChunkInv, TypeOK, Ahead, More
<1> QED
  BY <1>1, <1>2, <1>3 DEF Next, Return

LEMMA ChunkInvInit == Init => ChunkInv
<1> SUFFICES ASSUME Init PROVE ChunkInv
  OBVIOUS
<1>1. pages \in Documents /\ Len(pages) \in Nat /\ DOMAIN pages = 1 .. Len(pages)
  BY ChunkingAssumption DEF Init
<1>2. start \in Nat
  BY <1>1, Beginning DEF Init
<1>3. TypeOK
  BY <1>1, <1>2 DEF Init, TypeOK
<1>4. Ahead
  BY <1>1, Beginning DEF Init, Ahead, More
<1> QED
  BY <1>3, <1>4 DEF ChunkInv

\* The arguments stay what they are, the window on its page or past the last
\* one, and what is collected are pieces of pages.
THEOREM TypeCorrect == Spec => []TypeOK
<1>1. ChunkInv => TypeOK
  BY DEF ChunkInv
<1> QED
  BY <1>1, ChunkInvInit, ChunkInvInductive, PTL DEF Spec

----------------------------------------------------------------------------
\* The inner loop comes to its end for every text, chunk size and smaller
\* overlap: the window moves on with every iteration and stays on the page.
THEOREM LoopAdvances == Spec => EveryStepAdvances
<1> DEFINE Advance == \/ page' = page + 1
                      \/ /\ page' = page
                         /\ start < start' /\ start' < Last(pages[page])
<1>1. ChunkInv /\ [Next]_vars => [Advance]_vars
  <2> SUFFICES ASSUME ChunkInv, [Next]_vars PROVE [Advance]_vars
    OBVIOUS
  <2>1. CASE SkipBlank
    BY <2>1 DEF SkipBlank, TurnPage
  <2>2. CASE Cut
    <3>1. /\ More /\ pages[page] # {}
          /\ End = Last(pages[page]) => page' = page + 1
          /\ End # Last(pages[page]) =>
                 start' = End - setting.overlap /\ page' = page
      BY <2>2 DEF Cut, TurnPage
    <3>2. \/ page' = page + 1
          \/ page' = page /\ start < start' /\ start' < Last(pages[page])
      <4>1. setting.overlap \in Nat
        BY ChunkingAssumption DEF ChunkInv, TypeOK
      <4> QED
        BY <3>1, <4>1, CutBounds
    <3> QED
      BY <3>2
  <2>3. CASE UNCHANGED vars
    BY <2>3
  <2> QED
    BY <2>1, <2>2, <2>3 DEF Next, Return
<1> QED
  BY <1>1, ChunkInvInit, ChunkInvInductive, PTL DEF Spec, EveryStepAdvances

----------------------------------------------------------------------------
\* A character of a page is in one of these chunks.
Kept(list, p, i) == \E k \in DOMAIN list : list[k].page = p /\ i \in list[k].text

\* Of the page at hand, what lies before the window has been kept.
BehindIsKept ==
    More => \A i \in pages[page] : i <= start => Kept(chunks, page, i)

LossInv == ChunkInv /\ NothingIsLost /\ BehindIsKept

\* Collecting a piece keeps what was kept, and the piece.
LEMMA CollectKeeps ==
    ASSUME ChunkInv, NEW piece, Collect(piece)
    PROVE  /\ \A p, i : Kept(chunks, p, i) => Kept(chunks', p, i)
           /\ \A i \in piece : Kept(chunks', page, i)
<1> DEFINE new == [page |-> page, text |-> piece]
<1>1. CASE piece = {}
  BY <1>1 DEF Collect, Kept
<1>2. CASE piece # {}
  <2>1. chunks' = Append(chunks, new)
    BY <1>2 DEF Collect
  <2>2. /\ DOMAIN chunks' = 1 .. Len(chunks) + 1 /\ Len(chunks) \in Nat
        /\ DOMAIN chunks = 1 .. Len(chunks)
        /\ \A k \in DOMAIN chunks : chunks'[k] = chunks[k]
        /\ chunks'[Len(chunks) + 1] = new
    BY <2>1 DEF ChunkInv, TypeOK
  <2>3. \A p, i : Kept(chunks, p, i) => Kept(chunks', p, i)
    BY <2>2 DEF Kept
  <2>4. \A i \in piece : Kept(chunks', page, i)
    BY <2>2 DEF Kept
  <2> QED
    BY <2>3, <2>4
<1> QED
  BY <1>1, <1>2

\* When the page is turned and all of it is kept, nothing is lost, and nothing
\* of the new page lies behind the window.
LEMMA TurnLosesNothing ==
    ASSUME LossInv, More, TurnPage, UNCHANGED pages,
           \A p, i : Kept(chunks, p, i) => Kept(chunks', p, i),
           \A i \in pages[page] : Kept(chunks', page, i)
    PROVE  NothingIsLost' /\ BehindIsKept'
<1>1. Len(pages) \in Nat /\ DOMAIN pages = 1 .. Len(pages)
  BY ChunkingAssumption DEF LossInv, ChunkInv, TypeOK
<1>2. page \in Nat /\ page' = page + 1 /\ start' = StartAt(page')
  BY <1>1 DEF TurnPage, StartAt, LossInv, ChunkInv, TypeOK
<1>3. NothingIsLost'
  <2> SUFFICES ASSUME NEW p \in 1 .. page' - 1, NEW i \in pages[p]
               PROVE  Kept(chunks', p, i)
    BY DEF NothingIsLost, Kept
  <2>1. p \in 1 .. page - 1 \/ p = page
    BY <1>2
  <2>2. CASE p \in 1 .. page - 1
    BY <2>2 DEF LossInv, NothingIsLost, Kept
  <2> QED
    BY <2>1, <2>2
<1>4. BehindIsKept'
  <2> SUFFICES ASSUME More', NEW i \in pages'[page'], i <= start'
               PROVE  FALSE
    BY DEF BehindIsKept
  <2>1. page' \in Nat /\ page' \in DOMAIN pages /\ pages \in Documents
    BY <1>1, <1>2 DEF More, LossInv, ChunkInv, TypeOK
  <2>2. pages[page'] \subseteq Nat \ {0}
    BY <2>1, Ends
  <2>3. StartAt(page') < i /\ StartAt(page') \in Nat
    BY <2>1, Beginning
  <2> QED
    BY <1>2, <2>2, <2>3
<1> QED
  BY <1>3, <1>4

LEMMA LossInvInductive == LossInv /\ [Next]_vars => LossInv'
<1> SUFFICES ASSUME LossInv, [Next]_vars PROVE NothingIsLost' /\ BehindIsKept'
  BY ChunkInvInductive DEF LossInv
<1>1. CASE SkipBlank
  <2>1. \A p, i : Kept(chunks, p, i) => Kept(chunks', p, i)
    BY <1>1 DEF SkipBlank, Kept
  <2> QED
    BY <1>1, <2>1, TurnLosesNothing DEF SkipBlank
<1>2. CASE Cut
  <2> DEFINE piece == Piece(pages[page], start, End)
  <2>1. /\ More /\ pages[page] # {} /\ UNCHANGED <<pages, setting>>
        /\ Collect(piece)
        /\ End = Last(pages[page]) => TurnPage
        /\ End # Last(pages[page]) =>
               start' = End - setting.overlap /\ page' = page
    BY <1>2 DEF Cut
  <2>2. /\ \A p, i : Kept(chunks, p, i) => Kept(chunks', p, i)
        /\ \A i \in piece : Kept(chunks', page, i)
    BY <2>1, CollectKeeps DEF LossInv
  <2>3. \A i \in pages[page] : i <= End => Kept(chunks', page, i)
    <3> SUFFICES ASSUME NEW i \in pages[page], i <= End PROVE Kept(chunks', page, i)
      OBVIOUS
    <3>1. i \in Nat /\ start \in Nat
      BY <2>1, CutBounds, Ends DEF LossInv, ChunkInv, TypeOK
    <3>2. CASE i <= start
      BY <2>1, <2>2, <3>2 DEF LossInv, BehindIsKept
    <3>3. CASE start < i
      BY <2>2, <3>3 DEF Piece
    <3> QED
      BY <3>1, <3>2, <3>3
  <2>4. CASE End = Last(pages[page])
    <3>1. \A i \in pages[page] : i <= End
      BY <2>1, <2>4, CutBounds, Ends DEF LossInv, ChunkInv, TypeOK
    <3> QED
      BY <2>1, <2>2, <2>3, <2>4, <3>1, TurnLosesNothing
  <2>5. CASE End # Last(pages[page])
    <3>1. /\ page' = page /\ pages' = pages
          /\ start' \in Nat /\ End \in Nat /\ start' <= End
      BY <2>1, <2>5, CutBounds DEF LossInv
    <3>2. pages[page] \subseteq Nat
      BY <2>1, CutBounds, Ends DEF LossInv, ChunkInv, TypeOK
    <3>3. NothingIsLost'
      BY <2>2, <3>1 DEF LossInv, NothingIsLost, Kept
    <3>4. BehindIsKept'
      <4> SUFFICES ASSUME NEW i \in pages[page], i <= start'
                   PROVE  Kept(chunks', page', i)
        BY <3>1 DEF BehindIsKept
      <4>1. i <= End
        BY <3>1, <3>2
      <4> QED
        BY <2>3, <3>1, <4>1
    <3> QED
      BY <3>3, <3>4
  <2> QED
    BY <2>4, <2>5
<1>3. CASE UNCHANGED vars
  BY <1>3 DEF vars, LossInv, NothingIsLost, BehindIsKept, Kept, More
<1> QED
  BY <1>1, <1>2, <1>3 DEF Next, Return

LEMMA LossInvInit == Init => LossInv
<1> SUFFICES ASSUME Init PROVE NothingIsLost /\ BehindIsKept
  BY ChunkInvInit DEF LossInv
<1>1. NothingIsLost
  BY DEF Init, NothingIsLost
<1>2. BehindIsKept
  <2> SUFFICES ASSUME More, NEW i \in pages[1], i <= start PROVE FALSE
    BY DEF Init, BehindIsKept
  <2>1. pages \in Documents /\ 1 \in DOMAIN pages
    BY ChunkingAssumption DEF Init, More
  <2>2. StartAt(1) < i /\ StartAt(1) \in Nat /\ i \in Nat
    BY <2>1, Beginning, Ends
  <2> QED
    BY <2>2 DEF Init
<1> QED
  BY <1>1, <1>2

\* Every character of every page that has been cut is in one of its chunks,
\* however long the page and whatever the size and the overlap.
THEOREM NothingGetsLost == Spec => []NothingIsLost
<1>1. LossInv => NothingIsLost
  BY DEF LossInv
<1> QED
  BY <1>1, LossInvInit, LossInvInductive, PTL DEF Spec

----------------------------------------------------------------------------
(* Which windows are returned.                                             *)

\* What has been cut: the windows of the pages before the one at hand, and of
\* its own those that begin before the next.
Done ==
    {w \in TextWindows :
        \/ w[1] < page
        \/ w[1] = page /\ StartOf(pages[page]) + w[2] * Stride < start}

\* The next window is a whole number of strides from the start of the page.
Standing ==
    More /\ pages[page] # {} =>
        \E n \in Nat : /\ start = StartOf(pages[page]) + n * Stride
                       /\ Reached(pages[page], n)

Returned ==
    /\ IsFiniteSet(Done)
    /\ Len(chunks) = Cardinality(Done)
    /\ \A w \in Done : chunks[Place(w)] = ChunkOf(w)

WindowInv == ChunkInv /\ Standing /\ Returned

LEMMA Strides ==
    ASSUME NEW s \in Nat \ {0}
    PROVE  /\ \A n \in Nat : n * s \in Nat /\ n <= n * s
           /\ \A n \in Nat : (n + 1) * s = n * s + s
           /\ \A m, n \in Nat : m <= n => m * s <= n * s
           /\ \A m, n \in Nat : m < n => m * s + s <= n * s
<1>1. ASSUME NEW m \in Nat, NEW k \in Nat
      PROVE  (m + k) * s = m * s + k * s /\ k * s \in Nat /\ k <= k * s
  <2>1. (m + k) * s = m * s + k * s /\ k * s \in Nat
    OBVIOUS
  <2>2. PICK t \in Nat : s = t + 1
    BY s - 1 \in Nat
  <2>3. k * s = k * t + k /\ k * t \in Nat
    BY <2>2
  <2> QED
    BY <2>1, <2>3
<1>2. \A n \in Nat : n * s \in Nat /\ n <= n * s
  BY <1>1
<1>3. \A n \in Nat : (n + 1) * s = n * s + s
  BY <1>1
<1>4. ASSUME NEW m \in Nat, NEW n \in Nat, m <= n
      PROVE  m * s <= n * s
  <2>1. n - m \in Nat /\ n = m + (n - m)
    BY <1>4
  <2>2. n * s = m * s + (n - m) * s /\ (n - m) * s \in Nat
    BY <1>1, <2>1
  <2> QED
    BY <1>2, <2>2
<1>5. ASSUME NEW m \in Nat, NEW n \in Nat, m < n
      PROVE  m * s + s <= n * s
  <2>1. m + 1 <= n /\ m + 1 \in Nat
    BY <1>5
  <2> QED
    BY <1>3, <1>4, <2>1
<1> QED
  BY <1>2, <1>3, <1>4, <1>5

LEMMA Setting ==
    ASSUME ChunkInv
    PROVE  /\ setting.size \in Nat \ {0} /\ setting.overlap \in Nat
           /\ Stride \in Nat \ {0} /\ setting.size = Stride + setting.overlap
           /\ pages \in Documents /\ DOMAIN pages = 1 .. Len(pages)
           /\ Len(pages) \in Nat /\ page \in 1 .. Len(pages) + 1
  BY ChunkingAssumption DEF ChunkInv, TypeOK, Stride

\* A page that is not blank begins before its end.
LEMMA Page ==
    ASSUME ChunkInv, NEW p \in DOMAIN pages, pages[p] # {}
    PROVE  /\ StartOf(pages[p]) \in Nat /\ Last(pages[p]) \in Nat
           /\ StartAt(p) = StartOf(pages[p])
           /\ StartOf(pages[p]) < Last(pages[p])
           /\ \A i \in pages[p] : i \in Nat /\ i <= Last(pages[p])
  BY Setting, Ends, Beginning DEF StartAt, StartOf

\* No window that a page reaches has a number beyond its last character.
LEMMA Windows ==
    ASSUME ChunkInv, NEW w
    PROVE  w \in TextWindows <=>
               \E p \in DOMAIN pages : \E n \in Nat :
                   /\ w = <<p, n>> /\ pages[p] # {}
                   /\ Reached(pages[p], n) /\ WindowText(pages[p], n) # {}
<1>1. ASSUME NEW p \in DOMAIN pages, NEW n \in Nat, pages[p] # {},
             Reached(pages[p], n)
      PROVE  n \in 0 .. Last(pages[p])
  <2>1. CASE n = 0
    BY <1>1, <2>1, Page
  <2>2. CASE n # 0
    <3> DEFINE far == (n - 1) * Stride
    <3>1. n - 1 \in Nat /\ Stride \in Nat \ {0}
      BY <2>2, Setting
    <3>2. n - 1 <= far /\ far \in Nat
      BY <3>1, Strides
    <3>3. StartOf(pages[p]) + far + setting.size < Last(pages[p])
      BY <1>1, <2>2 DEF Reached
    <3>4. /\ StartOf(pages[p]) \in Nat /\ Last(pages[p]) \in Nat
          /\ setting.size \in Nat
      BY <1>1, Page, Setting
    <3> HIDE DEF far
    <3> QED
      BY <3>2, <3>3, <3>4
  <2> QED
    BY <2>1, <2>2
<1>2. ASSUME NEW p \in DOMAIN pages, NEW n \in Nat
      PROVE  <<p, n>>[1] = p /\ <<p, n>>[2] = n
  OBVIOUS
<1>3. ASSUME w \in TextWindows
      PROVE  \E p \in DOMAIN pages : \E n \in Nat :
                 /\ w = <<p, n>> /\ pages[p] # {}
                 /\ Reached(pages[p], n) /\ WindowText(pages[p], n) # {}
  <2>1. PICK p \in DOMAIN pages :
            pages[p] # {} /\ w \in {p} \X (0 .. Last(pages[p]))
    BY <1>3 DEF TextWindows
  <2>2. PICK n \in Nat : w = <<p, n>>
    BY <2>1
  <2> QED
    BY <1>3, <2>1, <2>2 DEF TextWindows
<1>4. ASSUME NEW p \in DOMAIN pages, NEW n \in Nat, w = <<p, n>>,
             pages[p] # {}, Reached(pages[p], n), WindowText(pages[p], n) # {}
      PROVE  w \in TextWindows
  <2>1. w \in {p} \X (0 .. Last(pages[p]))
    BY <1>1, <1>4
  <2> QED
    BY <1>2, <1>4, <2>1 DEF TextWindows
<1> QED
  BY <1>3, <1>4

\* What has been cut comes before what has not.
LEMMA DoneFirst ==
    ASSUME ChunkInv, NEW u \in Done, NEW v \in TextWindows, UpTo(v, u)
    PROVE  v \in Done
<1>1. PICK p \in DOMAIN pages, n \in Nat : u = <<p, n>>
  BY Windows DEF Done
<1>2. PICK q \in DOMAIN pages, m \in Nat : v = <<q, m>> /\ pages[q] # {}
  BY Windows
<1>3. p \in Nat /\ q \in Nat /\ page \in Nat
  BY <1>1, <1>2, Setting
<1>4. q < p \/ (q = p /\ m <= n)
  BY <1>1, <1>2 DEF UpTo
<1>5. \/ p < page
      \/ p = page /\ StartOf(pages[page]) + n * Stride < start
  BY <1>1 DEF Done
<1>6. CASE q < page
  BY <1>2, <1>6 DEF Done
<1>7. CASE q = page /\ p = page
  <2>1. m * Stride <= n * Stride /\ m * Stride \in Nat /\ n * Stride \in Nat
    BY <1>3, <1>4, <1>7, Setting, Strides
  <2>2. StartOf(pages[page]) \in Nat /\ start \in Nat
    BY <1>2, <1>7, Page DEF ChunkInv, TypeOK
  <2>3. StartOf(pages[page]) + m * Stride < start
    <3> HIDE DEF Stride
    <3> QED
      BY <1>3, <1>5, <1>7, <2>1, <2>2
  <2> QED
    BY <1>2, <1>7, <2>3 DEF Done
<1> QED
  BY <1>3, <1>4, <1>5, <1>6, <1>7

\* The chunk of a window that was cut has the window's place in the list.
LEMMA PlaceInList ==
    ASSUME ChunkInv, Returned, NEW w \in Done
    PROVE  Place(w) \in DOMAIN chunks
<1> DEFINE before == {v \in TextWindows : UpTo(v, w)}
<1>1. before \subseteq Done
  BY DoneFirst
<1>2. w \in before
  BY Windows, Setting DEF Done, UpTo
<1>3. /\ IsFiniteSet(before) /\ Cardinality(before) \in Nat
      /\ Cardinality(before) <= Cardinality(Done)
      /\ Cardinality(before) # 0
  BY <1>1, <1>2, FS_Subset, FS_EmptySet, FS_CardinalityType DEF Returned
<1>4. Len(chunks) \in Nat /\ DOMAIN chunks = 1 .. Len(chunks)
  BY DEF ChunkInv, TypeOK
<1> QED
  BY <1>3, <1>4 DEF Returned, Place

\* A window that is not blank is appended when it is the next in order.
LEMMA Appended ==
    ASSUME ChunkInv, Returned, UNCHANGED <<pages, setting>>,
           NEW w \in TextWindows, w \notin Done, Done' = Done \cup {w},
           \A v \in TextWindows : UpTo(v, w) <=> v \in Done \cup {w},
           chunks' = Append(chunks, ChunkOf(w))
    PROVE  Returned'
<1>1. TextWindows' = TextWindows
  BY DEF TextWindows, Reached, WindowText, StartOf, Stride
<1>2. \A v : Place(v)' = Place(v) /\ ChunkOf(v)' = ChunkOf(v)
  BY <1>1 DEF Place, UpTo, ChunkOf, WindowText, StartOf, Stride
<1>3. /\ IsFiniteSet(Done \cup {w})
      /\ Cardinality(Done \cup {w}) = Cardinality(Done) + 1
  BY FS_AddElement DEF Returned
<1>4. {v \in TextWindows : UpTo(v, w)} = Done \cup {w}
  BY DEF Done
<1>5. Place(w) = Len(chunks) + 1
  BY <1>3, <1>4 DEF Place, Returned
<1>6. /\ Len(chunks) \in Nat /\ DOMAIN chunks = 1 .. Len(chunks)
      /\ Len(chunks') = Len(chunks) + 1
      /\ \A k \in DOMAIN chunks : chunks'[k] = chunks[k]
      /\ chunks'[Len(chunks) + 1] = ChunkOf(w)
  BY DEF ChunkInv, TypeOK
<1>7. \A u \in Done : chunks'[Place(u)] = ChunkOf(u)
  BY <1>6, PlaceInList DEF Returned
<1>8. \A u \in Done \cup {w} : chunks'[Place(u)] = ChunkOf(u)
  BY <1>5, <1>6, <1>7
<1>9. Len(chunks') = Cardinality(Done \cup {w})
  BY <1>3, <1>6 DEF Returned
<1> QED
  BY <1>2, <1>3, <1>8, <1>9 DEF Returned

\* When the page is turned every window of it has been cut, and none of the
\* next.
LEMMA DoneAfterTurn ==
    ASSUME ChunkInv, More, TurnPage, UNCHANGED <<pages, setting>>
    PROVE  Done' = {w \in TextWindows : w[1] <= page}
<1>1. /\ TextWindows' = TextWindows /\ page' = page + 1 /\ page \in Nat
      /\ start' = StartAt(page')
  BY Setting DEF TurnPage, StartAt, TextWindows, Reached, WindowText, StartOf,
                 Stride
<1>2. ASSUME NEW w \in TextWindows
      PROVE  (\/ w[1] < page'
              \/ w[1] = page' /\ StartOf(pages[page']) + w[2] * Stride < start')
             <=> w[1] <= page
  <2>1. PICK p \in DOMAIN pages, n \in Nat : w = <<p, n>> /\ pages[p] # {}
    BY Windows
  <2>2. p \in Nat
    BY <2>1, Setting
  <2>3. CASE p = page'
    <3>1. start' = StartOf(pages[p]) /\ StartOf(pages[p]) \in Nat
      BY <1>1, <2>1, <2>3, Page
    <3>2. n * Stride \in Nat
      BY Strides, Setting
    <3> HIDE DEF Stride
    <3> QED
      BY <1>1, <2>1, <2>2, <2>3, <3>1, <3>2
  <2> QED
    BY <1>1, <2>1, <2>2, <2>3
<1>3. Done' = {w \in TextWindows :
                  \/ w[1] < page'
                  \/ w[1] = page' /\ StartOf(pages[page']) + w[2] * Stride < start'}
  BY <1>1 DEF Done, StartOf, Stride
<1> QED
  BY <1>2, <1>3

\* One more window is cut: the windows of the page up to it are done.
LEMMA DoneAfterCut ==
    ASSUME WindowInv, Cut, NEW n \in Nat,
           start = StartOf(pages[page]) + n * Stride,
           Reached(pages[page], n)
    PROVE  /\ \A m \in Nat : Reached(pages[page], m) =>
                 (<<page, m>> \in Done' <=> m <= n /\ <<page, m>> \in TextWindows)
           /\ \A w \in TextWindows : w[1] # page => (w \in Done' <=> w \in Done)
           /\ \A m \in Nat : <<page, m>> \in TextWindows =>
                 (<<page, m>> \in Done <=> m < n)
           /\ TextWindows' = TextWindows
           /\ End # Last(pages[page]) =>
                 /\ start' = StartOf(pages[page]) + (n + 1) * Stride
                 /\ Reached(pages[page], n + 1)
           /\ Piece(pages[page], start, End) = WindowText(pages[page], n)
<1> DEFINE text == pages[page]
           base == StartOf(text)
<1>0. ChunkInv
  BY DEF WindowInv
<1>1. /\ More /\ text # {} /\ UNCHANGED <<pages, setting>>
      /\ End = Last(text) => TurnPage
      /\ End # Last(text) => start' = End - setting.overlap /\ page' = page
  BY DEF Cut
<1>2. /\ page \in DOMAIN pages /\ page \in Nat
      /\ base \in Nat /\ Last(text) \in Nat /\ start \in Nat
      /\ \A i \in text : i \in Nat /\ i <= Last(text)
  <2>1. page \in DOMAIN pages
    BY <1>0, <1>1, CutBounds
  <2>2. page \in Nat /\ start \in Nat
    BY <1>0, Setting DEF ChunkInv, TypeOK
  <2> QED
    BY <1>0, <1>1, <2>1, <2>2, Page
<1>3. /\ setting.size \in Nat /\ setting.overlap \in Nat
      /\ Stride \in Nat \ {0} /\ setting.size = Stride + setting.overlap
  BY <1>0, Setting
<1>4. /\ n * Stride \in Nat /\ (n + 1) * Stride = n * Stride + Stride
      /\ \A m \in Nat : /\ m * Stride \in Nat
                        /\ m <= n => m * Stride <= n * Stride
                        /\ m < n => m * Stride + Stride <= n * Stride
                        /\ n <= m => n * Stride <= m * Stride
                        /\ n < m => n * Stride + Stride <= m * Stride
  BY <1>3, Strides
<1>5. TextWindows' = TextWindows
  BY <1>1 DEF TextWindows, Reached, WindowText, StartOf, Stride
<1>6. Piece(text, start, End) = WindowText(text, n)
  BY <1>2, <1>3 DEF Piece, WindowText, End
<1>7. \A m \in Nat : <<page, m>> \in TextWindows =>
          (<<page, m>> \in Done <=> m < n)
  <2> SUFFICES ASSUME NEW m \in Nat, <<page, m>> \in TextWindows
               PROVE  <<page, m>> \in Done <=> m < n
    OBVIOUS
  <2>1. <<page, m>> \in Done <=> base + m * Stride < base + n * Stride
    BY <1>2 DEF Done
  <2> DEFINE there == m * Stride
             here == n * Stride
  <2>2. /\ there \in Nat /\ here \in Nat
        /\ m < n => there + Stride <= here
        /\ n <= m => here <= there
    BY <1>4
  <2>3. <<page, m>> \in Done <=> base + there < base + here
    BY <2>1
  <2> HIDE DEF there, here, Stride
  <2> QED
    BY <1>2, <1>3, <2>2, <2>3
<1>8. CASE End = Last(text)
  <2>1. Done' = {w \in TextWindows : w[1] <= page}
    BY <1>0, <1>1, <1>8, DoneAfterTurn
  <2>2. ASSUME NEW m \in Nat, Reached(text, m) PROVE m <= n
    <3>1. Last(text) <= start + setting.size
      BY <1>2, <1>3, <1>8 DEF End
    <3>2. ASSUME n < m PROVE FALSE
      <4> DEFINE far == (m - 1) * Stride
                 here == n * Stride
      <4>1. m - 1 \in Nat /\ n <= m - 1 /\ m # 0
        BY <3>2
      <4>2. base + far + setting.size < Last(text)
        BY <2>2, <4>1 DEF Reached
      <4>3. here <= far /\ here \in Nat /\ far \in Nat /\ start = base + here
        BY <1>4, <4>1
      <4> HIDE DEF far, here
      <4> QED
        BY <1>2, <1>3, <3>1, <4>2, <4>3
    <3> QED
      BY <3>2
  <2>3. \A m \in Nat : Reached(text, m) =>
            (<<page, m>> \in Done' <=> m <= n /\ <<page, m>> \in TextWindows)
    BY <1>2, <2>1, <2>2
  <2>4. \A w \in TextWindows : w[1] # page => (w \in Done' <=> w \in Done)
    <3> SUFFICES ASSUME NEW w \in TextWindows, w[1] # page
                 PROVE  w \in Done' <=> w \in Done
      OBVIOUS
    <3>1. w[1] \in Nat
      BY <1>0, Windows, Setting
    <3> QED
      BY <1>2, <2>1, <3>1 DEF Done
  <2> QED
    BY <1>5, <1>6, <1>7, <1>8, <2>3, <2>4
<1>9. CASE End # Last(text)
  <2>1. /\ End = start + setting.size /\ start + setting.size < Last(text)
        /\ start' = start + Stride /\ page' = page
    BY <1>1, <1>2, <1>3, <1>9 DEF End
  <2>2. start' = base + (n + 1) * Stride
    <3> DEFINE here == n * Stride
               next == (n + 1) * Stride
    <3>1. next = here + Stride /\ here \in Nat /\ start = base + here
      BY <1>4
    <3>2. start' = base + next
      <4> HIDE DEF here, next, Stride
      <4> QED
        BY <1>2, <1>3, <2>1, <3>1
    <3> QED
      BY <3>2
  <2>3. Reached(text, n + 1)
    BY <2>1 DEF Reached
  <2>4. Done' = {w \in TextWindows :
                    \/ w[1] < page
                    \/ w[1] = page /\ base + w[2] * Stride < start'}
    BY <1>1, <1>5, <2>1 DEF Done, StartOf, Stride
  <2>5. ASSUME NEW m \in Nat, <<page, m>> \in TextWindows
        PROVE  <<page, m>> \in Done' <=> m <= n
    <3> DEFINE there == m * Stride
               here == n * Stride
    <3>1. <<page, m>> \in Done' <=> base + there < start'
      BY <1>2, <2>4, <2>5
    <3>2. /\ there \in Nat /\ here \in Nat /\ start = base + here
          /\ m <= n => there <= here
          /\ n < m => here + Stride <= there
      BY <1>4
    <3> HIDE DEF there, here, Stride
    <3> QED
      BY <1>2, <1>3, <2>1, <3>1, <3>2
  <2>6. \A w \in TextWindows : w[1] # page => (w \in Done' <=> w \in Done)
    BY <2>4 DEF Done
  <2>7. \A m \in Nat : <<page, m>> \in Done' => <<page, m>> \in TextWindows
    BY <2>4
  <2> QED
    BY <1>5, <1>6, <1>7, <2>2, <2>3, <2>5, <2>6, <2>7
<1> QED
  BY <1>8, <1>9

LEMMA TurnStands ==
    ASSUME ChunkInv, ChunkInv', More, TurnPage, UNCHANGED <<pages, setting>>
    PROVE  Standing'
<1>1. page' = page + 1 /\ page' \in Nat /\ start' = StartAt(page')
  BY Setting DEF TurnPage, StartAt
<1>2. ASSUME More', pages[page'] # {}
      PROVE  /\ start' = StartOf(pages[page']) + 0 * Stride
             /\ Reached(pages[page'], 0)
  <2>1. page' \in DOMAIN pages
    BY <1>1, <1>2, Setting DEF More
  <2>2. /\ start' = StartOf(pages[page']) /\ StartOf(pages[page']) \in Nat
        /\ Stride \in Nat
    BY <1>1, <1>2, <2>1, Page, Setting
  <2> HIDE DEF Stride
  <2> QED
    BY <2>2 DEF Reached
<1> QED
  BY <1>2 DEF Standing, StartOf, Stride, Reached

LEMMA WindowInvInductive == WindowInv /\ [Next]_vars => WindowInv'
<1> SUFFICES ASSUME WindowInv, [Next]_vars PROVE Standing' /\ Returned'
  BY ChunkInvInductive DEF WindowInv
<1>0. ChunkInv /\ Standing /\ Returned /\ ChunkInv'
  BY ChunkInvInductive DEF WindowInv
<1>1. CASE SkipBlank
  <2>1. /\ More /\ pages[page] = {} /\ TurnPage
        /\ UNCHANGED <<pages, setting, chunks>>
    BY <1>1 DEF SkipBlank
  <2>2. Done' = {w \in TextWindows : w[1] <= page}
    BY <1>0, <2>1, DoneAfterTurn
  <2>3. Done' = Done
    <3>1. ASSUME NEW w \in TextWindows PROVE w[1] \in Nat /\ w[1] # page
      BY <1>0, <2>1, Windows, Setting
    <3> QED
      BY <1>0, <2>2, <3>1, Setting DEF Done
  <2>4. \A w : Place(w)' = Place(w) /\ ChunkOf(w)' = ChunkOf(w)
    BY <2>1 DEF Place, UpTo, TextWindows, Reached, ChunkOf, WindowText, StartOf,
                Stride
  <2> QED
    BY <1>0, <2>1, <2>3, <2>4, TurnStands DEF Returned
<1>2. CASE Cut
  <2> DEFINE text == pages[page]
             piece == Piece(text, start, End)
  <2>1. /\ More /\ text # {} /\ UNCHANGED <<pages, setting>> /\ Collect(piece)
        /\ End = Last(text) => TurnPage
        /\ End # Last(text) => page' = page
        /\ page \in DOMAIN pages
    BY <1>0, <1>2, CutBounds DEF Cut
  <2>2. PICK n \in Nat : /\ start = StartOf(text) + n * Stride
                         /\ Reached(text, n)
    BY <1>0, <2>1 DEF Standing
  <2>3. /\ \A m \in Nat : Reached(text, m) =>
              (<<page, m>> \in Done' <=> m <= n /\ <<page, m>> \in TextWindows)
        /\ \A w \in TextWindows : w[1] # page => (w \in Done' <=> w \in Done)
        /\ \A m \in Nat : <<page, m>> \in TextWindows =>
              (<<page, m>> \in Done <=> m < n)
        /\ TextWindows' = TextWindows
        /\ End # Last(text) => /\ start' = StartOf(text) + (n + 1) * Stride
                               /\ Reached(text, n + 1)
        /\ piece = WindowText(text, n)
    BY <1>2, <2>2, DoneAfterCut
  <2>4. Standing'
    <3>1. CASE End = Last(text)
      BY <1>0, <2>1, <3>1, TurnStands
    <3>2. CASE End # Last(text)
      <4>1. /\ page' = page /\ pages' = pages /\ setting' = setting
            /\ n + 1 \in Nat
            /\ start' = StartOf(text) + (n + 1) * Stride
            /\ Reached(text, n + 1)
        BY <2>1, <2>3, <3>2
      <4> QED
        BY <4>1 DEF Standing, StartOf, Stride, Reached
    <3> QED
      BY <3>1, <3>2
  <2>5. Returned'
    <3> DEFINE w == <<page, n>>
    <3>1. w[1] = page /\ w[2] = n
      OBVIOUS
    <3>2. ASSUME NEW v \in TextWindows
          PROVE  /\ v[1] \in Nat /\ v[2] \in Nat /\ v = <<v[1], v[2]>>
                 /\ v[1] = page => Reached(text, v[2])
      BY <1>0, Windows, Setting
    <3>3. w \in TextWindows <=> piece # {}
      BY <1>0, <2>1, <2>2, <2>3, Windows
    <3>4. \A v \in TextWindows : v \in Done' <=> v \in Done \cup {w}
      BY <2>3, <3>1, <3>2
    <3>5. Done' \subseteq TextWindows /\ Done \subseteq TextWindows
      BY <2>3 DEF Done
    <3>6. CASE piece = {}
      <4>1. Done' = Done /\ chunks' = chunks
        BY <2>1, <3>3, <3>4, <3>5, <3>6 DEF Collect
      <4>2. \A v : Place(v)' = Place(v) /\ ChunkOf(v)' = ChunkOf(v)
        BY <2>1, <2>3 DEF Place, UpTo, ChunkOf, WindowText, StartOf, Stride
      <4> QED
        BY <1>0, <4>1, <4>2 DEF Returned
    <3>7. CASE piece # {}
      <4>1. w \in TextWindows /\ w \notin Done /\ Done' = Done \cup {w}
        BY <2>2, <2>3, <3>3, <3>4, <3>5, <3>7
      <4>2. chunks' = Append(chunks, ChunkOf(w))
        BY <2>1, <2>3, <3>1, <3>7 DEF Collect, ChunkOf
      <4>3. \A v \in TextWindows : UpTo(v, w) <=> v \in Done \cup {w}
        <5> SUFFICES ASSUME NEW v \in TextWindows
                     PROVE  UpTo(v, w) <=> v \in Done \cup {w}
          OBVIOUS
        <5>1. CASE v[1] = page
          BY <2>2, <2>3, <3>1, <3>2, <5>1 DEF UpTo
        <5>2. CASE v[1] # page
          BY <3>1, <3>2, <5>2 DEF UpTo, Done
        <5> QED
          BY <5>1, <5>2
      <4> HIDE DEF w
      <4> QED
        BY <1>0, <2>1, <4>1, <4>2, <4>3, Appended
    <3> QED
      BY <3>6, <3>7
  <2> QED
    BY <2>4, <2>5
<1>3. CASE UNCHANGED vars
  <2>1. Standing'
    BY <1>0, <1>3 DEF vars, Standing, More, StartOf, Stride, Reached
  <2>2. Done' = Done /\ chunks' = chunks
    BY <1>3 DEF vars, Done, TextWindows, Reached, WindowText, StartOf, Stride
  <2>3. \A w : Place(w)' = Place(w) /\ ChunkOf(w)' = ChunkOf(w)
    BY <1>3 DEF vars, Place, UpTo, TextWindows, Reached, ChunkOf, WindowText,
                StartOf, Stride
  <2> QED
    BY <1>0, <2>1, <2>2, <2>3 DEF Returned
<1> QED
  BY <1>1, <1>2, <1>3 DEF Next, Return

LEMMA WindowInvInit == Init => WindowInv
<1> SUFFICES ASSUME Init PROVE WindowInv
  OBVIOUS
<1>1. ChunkInv
  BY ChunkInvInit
<1>2. page = 1 /\ start = StartAt(1) /\ chunks = <<>>
  BY DEF Init
<1>3. Standing
  <2> SUFFICES ASSUME More, pages[1] # {}
               PROVE  /\ start = StartOf(pages[1]) + 0 * Stride
                      /\ Reached(pages[1], 0)
    BY <1>2 DEF Standing
  <2>1. 1 \in DOMAIN pages
    BY <1>1, <1>2, Setting DEF More
  <2>2. start \in Nat /\ start = StartOf(pages[1]) /\ Stride \in Nat
    BY <1>1, <1>2, <2>1, Page, Setting
  <2> HIDE DEF Stride
  <2> QED
    BY <2>2 DEF Reached
<1>4. Done = {}
  <2> SUFFICES ASSUME NEW w \in Done PROVE FALSE
    OBVIOUS
  <2>1. PICK p \in DOMAIN pages, n \in Nat : w = <<p, n>> /\ pages[p] # {}
    BY <1>1, Windows DEF Done
  <2>2. p \in 1 .. Len(pages) /\ n * Stride \in Nat /\ Len(pages) \in Nat
    BY <1>1, <2>1, Setting, Strides
  <2>3. p = 1 /\ StartOf(pages[1]) + n * Stride < start
    BY <1>2, <2>1, <2>2 DEF Done
  <2>4. start = StartOf(pages[1]) /\ start \in Nat
    BY <1>1, <1>2, <2>1, <2>3, Page
  <2> HIDE DEF Stride
  <2> QED
    BY <2>2, <2>3, <2>4
<1>5. Returned
  BY <1>2, <1>4, FS_EmptySet DEF Returned
<1> QED
  BY <1>1, <1>3, <1>5 DEF WindowInv

\* What is returned are the windows of the document that are not blank, each
\* once, whole and in order, for any document, chunk size and smaller overlap.
THEOREM ChunksAreTheWindows == Spec => []ChunksAreWindows
<1>1. WindowInv => ChunksAreWindows
  <2> SUFFICES ASSUME WindowInv, ~More PROVE Done = TextWindows
    BY DEF WindowInv, Returned, ChunksAreWindows
  <2>1. ASSUME NEW w \in TextWindows PROVE w[1] < page
    BY Windows, Setting DEF WindowInv, More
  <2> QED
    BY <2>1 DEF Done
<1> QED
  BY <1>1, WindowInvInit, WindowInvInductive, PTL DEF Spec
=============================================================================
