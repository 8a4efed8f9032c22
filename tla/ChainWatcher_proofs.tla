-------------------------- MODULE ChainWatcher_proofs --------------------------
(***************************************************************************)
(* Proofs about ChainWatcher for every value of its bounds: any history,   *)
(* any number of retries and of interrupted passes.  And about            *)
(* PublisherAccount, the instance Accounts of PublisherProperties, which   *)
(* has such a feed for each of the foundation's accounts.                  *)
(***************************************************************************)
EXTENDS ChainWatcher, PublisherProperties, SequenceTheorems, TLAPS

\* What a step may do to the feed and to the stored cursor.
Refines == [Feed!Next]_(Feed!vars)

Forward == cursor' # cursor => cursor'.tx > cursor.tx

\* What the log holds.
LEMMA LogTyped ==
    ASSUME IInv
    PROVE  /\ Len(log) \in Nat
           /\ \A i \in 1 .. Len(log) : log[i] \in Transactions /\ log[i].ledger \in Nat
<1>1. log \in Seq(Transactions) /\ Len(log) \in Nat
  BY DEF IInv, TypeOK
<1>2. \A i \in 1 .. Len(log) : log[i] \in Transactions
  BY <1>1
<1>3. \A t \in Transactions : t.ledger \in Nat
  BY DEF Transactions
<1> QED
  BY <1>1, <1>2, <1>3

LEMMA InitIInv == Init => IInv /\ Feed!Init
<1> SUFFICES ASSUME Init PROVE IInv /\ Feed!Init
  OBVIOUS
<1> USE DEF Init, NoCursor, Earliest
<1>1. TypeOK
  BY DEF TypeOK
<1>2. LogOK /\ CursorOK /\ PollOK /\ TodoOK /\ NothingSkipped
  BY DEF LogOK, CursorOK, PollOK, TodoOK, NothingSkipped
<1>3. {i \in 1 .. Len(log) : Lost(i)} = {}
  BY DEF Lost
<1> QED
  BY <1>1, <1>2, <1>3 DEF IInv, Feed!Init

\* A step of poll() or the end of a pass leaves the feed alone.
LEMMA QuietFrame ==
    ASSUME IInv, UNCHANGED <<nodeVars, cursor, handled>>
    PROVE  /\ LogOK' /\ CursorOK' /\ NothingSkipped'
           /\ \A i \in 1 .. Len(log) : Lost(i)' <=> Lost(i)
           /\ Refines
           /\ Forward
<1> USE DEF nodeVars
<1>1. \A i \in 1 .. Len(log) : Lost(i)' <=> Lost(i)
  BY DEF Lost
<1>2. LogOK' /\ CursorOK'
  BY DEF IInv, LogOK, CursorOK
<1>3. NothingSkipped'
  BY <1>1 DEF IInv, NothingSkipped
<1>4. {i \in 1 .. Len(log) : Lost(i)}' = {i \in 1 .. Len(log) : Lost(i)}
  BY DEF Lost
<1>5. UNCHANGED Feed!vars
  BY <1>4 DEF Feed!vars
<1> QED
  BY <1>1, <1>2, <1>3, <1>5 DEF Refines, Forward

-----------------------------------------------------------------------------
(* poll().                                                                 *)

\* A bound below which only pruned transactions are outstanding starts a request.
LEMMA StartPagesOK ==
    ASSUME IInv, NEW from \in Nat \cup {Earliest}, StartPages(from),
           UNCHANGED <<nodeVars, cursor, handled, todo, faults>>,
           retries' \in Nat, pc \notin {"walk", "advance"},
           cursor.ledger <= from, from <= latest,
           \A i \in cursor.tx + 1 .. Len(log) : log[i].ledger < from => Lost(i)
    PROVE  IInv' /\ Refines /\ Forward
<1> USE DEF StartPages, nodeVars
<1>1. /\ LogOK' /\ CursorOK' /\ NothingSkipped' /\ Refines /\ Forward
      /\ \A i \in 1 .. Len(log) : Lost(i)' <=> Lost(i)
  BY QuietFrame
<1>2. TypeOK'
  BY DEF IInv, TypeOK, Earliest
<1>3. cursor.tx \in Nat /\ Len(log) \in Nat
  BY DEF IInv, TypeOK
<1>4. RequestOK'
  BY <1>1, <1>3 DEF RequestOK
<1>5. PagesOK'
  BY <1>3 DEF PagesOK
<1>6. PollOK'
  BY <1>4, <1>5 DEF PollOK
<1>7. TodoOK'
  BY DEF IInv, TodoOK
<1> QED
  BY <1>1, <1>2, <1>6, <1>7 DEF IInv

LEMMA BeginPollStep ==
    ASSUME IInv, BeginPoll PROVE IInv' /\ Refines /\ Forward
<1>1. cursor.ledger \in Nat \cup {Earliest} /\ retries \in Nat
  BY DEF IInv, TypeOK
<1>2. cursor.ledger <= cursor.ledger /\ cursor.ledger <= latest
  <2>1. latest \in Nat
    BY DEF IInv, TypeOK
  <2>2. CASE cursor = NoCursor
    BY <2>1, <2>2 DEF NoCursor, Earliest
  <2>3. CASE cursor # NoCursor
    <3>1. cursor.tx \in 1 .. Len(log) /\ cursor.ledger = log[cursor.tx].ledger
      BY <2>3 DEF IInv, CursorOK
    <3>2. cursor.ledger <= latest
      BY <3>1 DEF IInv, LogOK
    <3> QED
      BY <1>1, <3>2 DEF Earliest
  <2> QED
    BY <2>2, <2>3
<1>3. \A i \in cursor.tx + 1 .. Len(log) : log[i].ledger < cursor.ledger => Lost(i)
  <2>1. CASE cursor = NoCursor
    <3>1. \A i \in cursor.tx + 1 .. Len(log) : log[i].ledger \in Nat
      BY <2>1, LogTyped DEF NoCursor
    <3> QED
      BY <2>1, <3>1 DEF NoCursor, Earliest
  <2>2. CASE cursor # NoCursor
    <3>1. /\ cursor.tx \in 1 .. Len(log)
          /\ cursor.ledger = log[cursor.tx].ledger
      BY <2>2 DEF IInv, CursorOK
    <3> SUFFICES ASSUME NEW i \in cursor.tx + 1 .. Len(log)
                 PROVE  ~ (log[i].ledger < cursor.ledger)
      OBVIOUS
    <3>2. i \in 1 .. Len(log) /\ cursor.tx <= i
      BY <3>1, LogTyped
    <3>3. log[cursor.tx].ledger <= log[i].ledger
      BY <3>1, <3>2 DEF IInv, LogOK
    <3>4. log[cursor.tx].ledger \in Nat /\ log[i].ledger \in Nat
      BY <3>1, <3>2, LogTyped
    <3> QED
      BY <3>1, <3>3, <3>4
  <2> QED
    BY <2>1, <2>2
<1> QED
  BY <1>1, <1>2, <1>3, StartPagesOK DEF BeginPoll

LEMMA ClampFloorStep ==
    ASSUME IInv, ClampFloor PROVE IInv' /\ Refines /\ Forward
<1>1. /\ RequestOK /\ min \in Nat /\ floor \in Nat /\ min < floor
      /\ retries \in Nat /\ cursor.ledger \in Nat \cup {Earliest}
  BY DEF IInv, TypeOK, PollOK, ClampFloor, Pruned
<1>2. Larger(floor, min + 1) = floor
  BY <1>1 DEF Larger
<1>3. cursor.ledger <= floor /\ floor <= latest
  BY <1>1 DEF RequestOK, Earliest, IInv, LogOK
<1>4. \A i \in cursor.tx + 1 .. Len(log) : log[i].ledger < floor => Lost(i)
  BY LogTyped DEF Lost, IInv, TypeOK
<1> QED
  BY <1>1, <1>2, <1>3, <1>4, StartPagesOK DEF ClampFloor

\* A step that keeps the request and what outlives the pass.
LEMMA PollFrame ==
    ASSUME IInv, UNCHANGED <<nodeVars, cursor, min, todo, handled, faults>>,
           pc \in {"page", "clamp", "filter"}
    PROVE  /\ LogOK' /\ CursorOK' /\ NothingSkipped' /\ Refines /\ Forward
           /\ RequestOK' /\ min' <= latest'
           /\ pc' \in {"page", "clamp", "filter"} => TodoOK'
           /\ \A i \in 1 .. Len(log) : Lost(i)' <=> Lost(i)
<1>1. /\ LogOK' /\ CursorOK' /\ NothingSkipped' /\ Refines /\ Forward
      /\ \A i \in 1 .. Len(log) : Lost(i)' <=> Lost(i)
  BY QuietFrame
<1>2. RequestOK /\ cursor.tx \in Nat /\ Len(log) \in Nat
  BY DEF IInv, PollOK, TypeOK
<1>3. RequestOK'
  BY <1>1, <1>2 DEF RequestOK, nodeVars
<1>4. pc' \in {"page", "clamp", "filter"} => TodoOK'
  BY <1>1, <1>2 DEF IInv, TodoOK, nodeVars
<1>5. min' <= latest'
  BY DEF IInv, PollOK, nodeVars
<1> QED
  BY <1>1, <1>3, <1>4, <1>5

\* With nothing below the floor asked for, a page has all that is asked for.
LEMMA PageIsComplete ==
    ASSUME IInv, pc = "page", ~ Pruned,
           NEW i \in marker .. Len(log), log[i].ledger >= min, i \notin Available
    PROVE  min = Earliest /\ Lost(i)
<1>1. /\ min \in Nat \cup {Earliest} /\ floor \in Nat /\ Len(log) \in Nat
      /\ marker \in 1 .. Len(log) + 1
  BY DEF IInv, TypeOK, PollOK, PagesOK
<1>2. log[i].ledger \in Nat
  BY <1>1, LogTyped
<1>3. log[i].ledger < floor
  BY <1>1, <1>2 DEF Available
<1> QED
  BY <1>1, <1>2, <1>3 DEF Pruned, Lost, Earliest

LEMMA FetchPageStep ==
    ASSUME IInv, FetchPage PROVE IInv' /\ Refines /\ Forward
<1>1. PICK last \in Available :
         /\ \E i \in Available : i > last
         /\ entries' = entries \cup {i \in Available : i <= last}
         /\ marker' = After(last)
  BY DEF FetchPage
<1>2. /\ PagesOK /\ Len(log) \in Nat /\ marker \in 1 .. Len(log) + 1
      /\ entries \subseteq 1 .. marker - 1
      /\ min \in Nat \cup {Earliest}
  BY DEF FetchPage, IInv, PollOK, PagesOK, TypeOK
<1>3. last \in marker .. Len(log) /\ marker' = last + 1
  BY <1>1 DEF Available, After
<1>4. /\ LogOK' /\ CursorOK' /\ NothingSkipped' /\ Refines /\ Forward
      /\ RequestOK' /\ min' <= latest' /\ TodoOK'
      /\ \A i \in 1 .. Len(log) : Lost(i)' <=> Lost(i)
  BY PollFrame DEF FetchPage
<1>5. entries' \subseteq 1 .. marker' - 1
  <2>1. \A i \in Available : i <= last => i \in 1 .. marker' - 1
    BY <1>2, <1>3 DEF Available
  <2>2. \A i \in entries : i \in 1 .. marker' - 1
    BY <1>2, <1>3
  <2> QED
    BY <1>1, <2>1, <2>2
<1>6. \A i \in entries' : log[i].ledger >= min
  BY <1>1, <1>2 DEF PagesOK, Available
<1>7. \A i \in 1 .. marker' - 1 : log[i].ledger >= min =>
         i \in entries' \/ (min = Earliest /\ Lost(i))
  <2> SUFFICES ASSUME NEW i \in 1 .. marker' - 1, log[i].ledger >= min, i \notin entries'
               PROVE  min = Earliest /\ Lost(i)
    OBVIOUS
  <2>1. CASE i < marker
    <3>1. i \in 1 .. marker - 1
      BY <1>2, <1>3, <2>1
    <3> QED
      BY <1>1, <1>2, <3>1 DEF PagesOK
  <2>2. CASE i >= marker
    <3>1. i \in marker .. Len(log) /\ i <= last
      BY <1>2, <1>3, <2>2
    <3>2. i \notin Available
      BY <1>1, <3>1
    <3> QED
      BY <3>1, <3>2, PageIsComplete DEF FetchPage
  <2> QED
    BY <1>2, <1>3, <2>1, <2>2
<1>8. PagesOK'
  <2>1. marker' \in 1 .. Len(log) + 1
    BY <1>2, <1>3
  <2>2. /\ log' = log /\ min' = min
        /\ \A i \in 1 .. marker' - 1 : i \in 1 .. Len(log)
    BY <2>1, <1>2 DEF FetchPage, nodeVars
  <2> QED
    BY <1>4, <1>5, <1>6, <1>7, <2>1, <2>2 DEF PagesOK
<1>9. TypeOK'
  <2>1. entries' \subseteq Nat /\ marker' \in Nat
    BY <1>2, <1>3, <1>5
  <2> QED
    BY <2>1 DEF IInv, TypeOK, FetchPage, nodeVars
<1>10. PollOK'
  BY <1>4, <1>8 DEF PollOK, FetchPage
<1> QED
  BY <1>4, <1>9, <1>10 DEF IInv

LEMMA FetchLastPageStep ==
    ASSUME IInv, FetchLastPage PROVE IInv' /\ Refines /\ Forward
<1>1. /\ PagesOK /\ Len(log) \in Nat /\ marker \in 1 .. Len(log) + 1
      /\ entries \subseteq 1 .. marker - 1
      /\ min \in Nat \cup {Earliest}
      /\ entries' = entries \cup Available /\ marker' = Len(log) + 1
  BY DEF FetchLastPage, IInv, PollOK, PagesOK, TypeOK
<1>2. /\ LogOK' /\ CursorOK' /\ NothingSkipped' /\ Refines /\ Forward
      /\ RequestOK' /\ min' <= latest' /\ TodoOK'
      /\ \A i \in 1 .. Len(log) : Lost(i)' <=> Lost(i)
  BY PollFrame DEF FetchLastPage
<1>3. entries' \subseteq 1 .. Len(log)
  <2>1. \A i \in Available : i \in 1 .. Len(log)
    BY <1>1 DEF Available
  <2>2. \A i \in entries : i \in 1 .. Len(log)
    BY <1>1
  <2> QED
    BY <1>1, <2>1, <2>2
<1>4. \A i \in entries' : log[i].ledger >= min
  BY <1>1 DEF PagesOK, Available
<1>5. \A i \in 1 .. Len(log) : log[i].ledger >= min =>
         i \in entries' \/ (min = Earliest /\ Lost(i))
  <2> SUFFICES ASSUME NEW i \in 1 .. Len(log), log[i].ledger >= min, i \notin entries'
               PROVE  min = Earliest /\ Lost(i)
    OBVIOUS
  <2>1. CASE i < marker
    <3>1. i \in 1 .. marker - 1
      BY <1>1, <2>1
    <3> QED
      BY <1>1, <3>1 DEF PagesOK
  <2>2. CASE i >= marker
    <3>1. i \in marker .. Len(log)
      BY <1>1, <2>2
    <3> QED
      BY <1>1, <3>1, PageIsComplete DEF FetchLastPage
  <2> QED
    BY <1>1, <2>1, <2>2
<1>6. PagesOK'
  <2>1. log' = log /\ min' = min /\ 1 .. marker' - 1 = 1 .. Len(log)
    BY <1>1 DEF FetchLastPage, nodeVars
  <2> QED
    BY <1>1, <1>2, <1>3, <1>4, <1>5, <2>1 DEF PagesOK
<1>7. TypeOK'
  <2>1. entries' \subseteq Nat /\ marker' \in Nat
    BY <1>1, <1>3
  <2> QED
    BY <2>1 DEF IInv, TypeOK, FetchLastPage, nodeVars
<1>8. cursor'.tx < marker'
  BY <1>1 DEF IInv, CursorOK, NoCursor, FetchLastPage
<1>9. PollOK'
  BY <1>2, <1>6, <1>8 DEF PollOK, FetchLastPage
<1> QED
  BY <1>2, <1>7, <1>9 DEF IInv

LEMMA PrunedErrorStep ==
    ASSUME IInv, PrunedError PROVE IInv' /\ Refines /\ Forward
<1>1. /\ LogOK' /\ CursorOK' /\ NothingSkipped' /\ Refines /\ Forward
      /\ RequestOK' /\ min' <= latest' /\ TodoOK'
  BY PollFrame DEF PrunedError
<1>2. Pruned'
  BY DEF PrunedError, Pruned, nodeVars
<1>3. TypeOK'
  BY DEF IInv, TypeOK, PrunedError, nodeVars
<1>4. PollOK'
  BY <1>1, <1>2 DEF PollOK, PrunedError
<1> QED
  BY <1>1, <1>3, <1>4 DEF IInv

-----------------------------------------------------------------------------
(* The end of a pass, and the cut at the cursor.                           *)

LEMMA EndPassStep ==
    ASSUME IInv, EndPass, UNCHANGED <<nodeVars, cursor, handled>>, faults' \in Nat
    PROVE  IInv' /\ Refines /\ Forward
<1> USE DEF EndPass, EndPoll
<1>1. LogOK' /\ CursorOK' /\ NothingSkipped' /\ Refines /\ Forward
  BY QuietFrame
<1>2. TypeOK'
  BY DEF IInv, TypeOK, nodeVars, Earliest
<1>3. PollOK'
  BY DEF PollOK
<1>4. TodoOK'
  BY DEF TodoOK
<1> QED
  BY <1>1, <1>2, <1>3, <1>4 DEF IInv

\* Of the transactions up to the marker, those after the cursor are kept: they
\* are all that is still retained.
LEMMA AfterCursorIsNext ==
    ASSUME IInv, pc = "filter"
    PROVE  /\ AfterCursor \subseteq {i \in cursor.tx + 1 .. Len(log) : log[i].trusted}
           /\ \A i \in cursor.tx + 1 .. Len(log) : \A j \in AfterCursor :
                 i < j /\ log[i].trusted => i \in AfterCursor \/ Lost(i)
<1>1. /\ RequestOK /\ PagesOK /\ Len(log) \in Nat /\ cursor.tx \in Nat
      /\ cursor.ledger \in Nat \cup {Earliest} /\ min \in Nat \cup {Earliest}
      /\ marker \in 1 .. Len(log) + 1
      /\ entries \subseteq 1 .. marker - 1
  BY DEF IInv, TypeOK, PollOK, PagesOK
<1>2. \A i \in 1 .. Len(log) : log[i].ledger \in Nat
  BY LogTyped
<1>3. \A i \in entries : i \in 1 .. Len(log) /\ i < marker
  BY <1>1
<1>4. \A i \in 1 .. Len(log) : log[i].ledger > cursor.ledger => i > cursor.tx
  <2> SUFFICES ASSUME NEW i \in 1 .. Len(log), log[i].ledger > cursor.ledger
               PROVE  i > cursor.tx
    OBVIOUS
  <2>1. CASE cursor = NoCursor
    BY <2>1 DEF NoCursor
  <2>2. CASE cursor # NoCursor
    <3>1. cursor.tx \in 1 .. Len(log) /\ cursor.ledger = log[cursor.tx].ledger
      BY <2>2 DEF IInv, CursorOK
    <3>2. i <= cursor.tx => log[i].ledger <= log[cursor.tx].ledger
      BY <3>1 DEF IInv, LogOK
    <3> QED
      BY <3>1, <3>2, <1>2
  <2> QED
    BY <2>1, <2>2
<1>5. \A i \in cursor.tx + 1 .. Len(log) : log[i].ledger >= cursor.ledger
  <2> SUFFICES ASSUME NEW i \in cursor.tx + 1 .. Len(log)
               PROVE  log[i].ledger >= cursor.ledger
    OBVIOUS
  <2>1. i \in 1 .. Len(log) /\ cursor.tx <= i
    BY <1>1
  <2>2. CASE cursor = NoCursor
    BY <2>1, <2>2, <1>2 DEF NoCursor, Earliest
  <2>3. CASE cursor # NoCursor
    <3>1. cursor.tx \in 1 .. Len(log) /\ cursor.ledger = log[cursor.tx].ledger
      BY <2>3 DEF IInv, CursorOK
    <3>2. log[cursor.tx].ledger <= log[i].ledger
      BY <2>1, <3>1 DEF IInv, LogOK
    <3> QED
      BY <2>1, <3>1, <3>2, <1>2
  <2> QED
    BY <2>2, <2>3
<1>6. AfterCursor \subseteq {i \in cursor.tx + 1 .. Len(log) : log[i].trusted}
  <2> SUFFICES ASSUME NEW i \in AfterCursor
               PROVE  i \in cursor.tx + 1 .. Len(log) /\ log[i].trusted
    OBVIOUS
  <2>1. i \in entries /\ log[i].trusted
    BY DEF AfterCursor, Trusted
  <2>2. i > cursor.tx
    BY <1>3, <1>4, <2>1 DEF AfterCursor
  <2> QED
    BY <1>1, <1>3, <2>1, <2>2
<1>7. ASSUME NEW i \in cursor.tx + 1 .. Len(log), NEW j \in AfterCursor,
             i < j, log[i].trusted
      PROVE  i \in AfterCursor \/ Lost(i)
  <2>1. /\ j < marker /\ j \in Int /\ i \in 1 .. Len(log) /\ i > cursor.tx
    BY <1>1, <1>3 DEF AfterCursor, Trusted
  <2>2. i \in 1 .. marker - 1
    BY <1>1, <1>7, <2>1
  <2>3. CASE log[i].ledger < min
    BY <1>1, <2>3 DEF RequestOK
  <2>4. CASE log[i].ledger >= min
    <3>1. i \in entries \/ Lost(i)
      BY <1>1, <2>2, <2>4 DEF PagesOK
    <3>2. log[i].ledger > cursor.ledger \/ log[i].ledger = cursor.ledger
      BY <1>1, <1>2, <1>5, <2>1 DEF Earliest
    <3> QED
      BY <1>7, <2>1, <3>1, <3>2 DEF AfterCursor, Boundary, Trusted
  <2> QED
    BY <1>1, <1>2, <2>1, <2>3, <2>4 DEF Earliest
<1> QED
  BY <1>6, <1>7

LEMMA FilterPolledStep ==
    ASSUME IInv, FilterPolled PROVE IInv' /\ Refines /\ Forward
<1>1. CASE CursorMissing
  BY <1>1, EndPassStep DEF FilterPolled, IInv, TypeOK
<1>2. CASE ~ CursorMissing
  <2> USE DEF EndPoll
  <2>1. /\ pc = "filter" /\ pc' = "walk" /\ todo' = AfterCursor /\ EndPoll
        /\ UNCHANGED <<nodeVars, cursor, handled, faults>>
    BY <1>2 DEF FilterPolled
  <2>2. /\ LogOK' /\ CursorOK' /\ NothingSkipped' /\ Refines /\ Forward
        /\ \A i \in 1 .. Len(log) : Lost(i)' <=> Lost(i)
    BY <2>1, QuietFrame
  <2>3. cursor.tx \in Nat /\ Len(log) \in Nat
    BY DEF IInv, TypeOK
  <2>4. TodoOK'
    BY <2>1, <2>2, <2>3, AfterCursorIsNext DEF TodoOK, nodeVars
  <2>5. todo' \subseteq Nat
    BY <2>1, <2>3, AfterCursorIsNext
  <2>6. TypeOK'
    BY <2>1, <2>5 DEF IInv, TypeOK, nodeVars, Earliest
  <2>7. PollOK'
    BY <2>1 DEF PollOK
  <2> QED
    BY <2>2, <2>4, <2>6, <2>7 DEF IInv
<1> QED
  BY <1>1, <1>2

-----------------------------------------------------------------------------
(* The walk.                                                               *)

\* The first of the walk's transactions is the one the feed has due.
LEMMA FirstIsDue ==
    ASSUME IInv, NEW i \in todo, First(i)
    PROVE  /\ i \in cursor.tx + 1 .. Len(log) /\ i \in 1 .. Len(log)
           /\ cursor.tx \in Nat /\ i > cursor.tx
           /\ Feed!Due(i)
<1>1. i \in cursor.tx + 1 .. Len(log) /\ log[i].trusted
  BY DEF IInv, TodoOK
<1>2. cursor.tx \in Nat /\ Len(log) \in Nat
  BY DEF IInv, TypeOK
<1>3. \A j \in cursor.tx + 1 .. i - 1 : log[j].trusted => Lost(j) /\ j \in 1 .. Len(log)
  <2> SUFFICES ASSUME NEW j \in cursor.tx + 1 .. i - 1, log[j].trusted
               PROVE  Lost(j) /\ j \in 1 .. Len(log)
    OBVIOUS
  <2>1. j \in cursor.tx + 1 .. Len(log) /\ j < i
    BY <1>1, <1>2
  <2>2. j \notin todo
    BY <2>1, <1>1, <1>2 DEF First
  <2>3. Lost(j)
    BY <2>1, <2>2 DEF IInv, TodoOK
  <2> QED
    BY <1>2, <2>1, <2>3
<1> QED
  BY <1>1, <1>2, <1>3 DEF Feed!Due

LEMMA HandleTransactionStep ==
    ASSUME IInv, NEW i \in todo, HandleTransaction(i)
    PROVE  IInv' /\ Refines /\ Forward
<1> USE DEF HandleTransaction, nodeVars, pollVars
<1>1. /\ i \in 1 .. Len(log) /\ Feed!Due(i)
  BY FirstIsDue
<1>2. TypeOK'
  BY <1>1 DEF IInv, TypeOK
<1>3. LogOK' /\ CursorOK'
  BY DEF IInv, LogOK, CursorOK
<1>4. \A j : Lost(j)' <=> Lost(j)
  BY DEF Lost
<1>5. NothingSkipped'
  BY <1>4 DEF IInv, NothingSkipped
<1>6. PollOK'
  BY DEF PollOK
<1>7. TodoOK'
  <2>1. First(i)' /\ i \in todo' /\ i \in handled'
    BY DEF First
  <2>2. pc' = "advance" /\ todo' = todo /\ log' = log /\ cursor' = cursor
    OBVIOUS
  <2>3. /\ todo' \subseteq {k \in cursor'.tx + 1 .. Len(log') : log'[k].trusted}
        /\ \A k \in cursor'.tx + 1 .. Len(log') : \A j \in todo' :
              k < j /\ log'[k].trusted => k \in todo' \/ Lost(k)'
    BY <1>4, <2>2 DEF IInv, TodoOK
  <2> QED
    BY <2>1, <2>2, <2>3 DEF TodoOK
<1>8. {k \in 1 .. Len(log) : Lost(k)}' = {k \in 1 .. Len(log) : Lost(k)}
  BY <1>4
<1>9. Feed!Deliver(i)
  BY <1>1, <1>8 DEF Feed!Deliver
<1> QED
  BY <1>1, <1>2, <1>3, <1>5, <1>6, <1>7, <1>9 DEF IInv, Refines, Forward, Feed!Next

LEMMA AdvanceCursorStep ==
    ASSUME IInv, NEW i \in todo, AdvanceCursor(i)
    PROVE  IInv' /\ Refines /\ Forward
<1> USE DEF AdvanceCursor, nodeVars, pollVars
<1>1. /\ i \in cursor.tx + 1 .. Len(log) /\ i \in 1 .. Len(log)
      /\ cursor.tx \in Nat /\ i > cursor.tx /\ Feed!Due(i)
      /\ log[i] \in Transactions /\ log[i].trusted
      /\ log[i].ledger \in Nat /\ Len(log) \in Nat
  <2>1. First(i)
    OBVIOUS
  <2>2. /\ i \in cursor.tx + 1 .. Len(log) /\ i \in 1 .. Len(log)
        /\ cursor.tx \in Nat /\ i > cursor.tx /\ Feed!Due(i)
    BY <2>1, FirstIsDue
  <2>3. log[i].trusted
    BY DEF IInv, TodoOK
  <2> QED
    BY <2>2, <2>3, LogTyped
<1>2. i \in handled
  <2>1. PICK k \in todo : First(k) /\ k \in handled
    BY DEF IInv, TodoOK
  <2>2. k = i
    BY <2>1 DEF First, IInv, TypeOK
  <2> QED
    BY <2>1, <2>2
<1>3. cursor' = [ledger |-> log[i].ledger, tx |-> i] /\ cursor'.tx = i
  OBVIOUS
<1>4. TypeOK'
  BY <1>1 DEF IInv, TypeOK
<1>5. LogOK' /\ CursorOK'
  BY <1>1, <1>3 DEF IInv, LogOK, CursorOK
<1>6. \A j : Lost(j)' <=> Lost(j)
  BY DEF Lost
<1>7. NothingSkipped'
  <2> SUFFICES ASSUME NEW j \in 1 .. Len(log), log[j].trusted, j <= i
               PROVE  j \in handled \/ Lost(j)
    BY <1>3, <1>6 DEF NothingSkipped
  <2>1. CASE j <= cursor.tx
    BY <2>1 DEF IInv, NothingSkipped
  <2>2. CASE j = i
    BY <1>2, <2>2
  <2>3. CASE j > cursor.tx /\ j < i
    <3>1. j \in cursor.tx + 1 .. i - 1
      BY <1>1, <2>3
    <3> QED
      BY <1>1, <3>1 DEF Feed!Due
  <2> QED
    BY <1>1, <2>1, <2>2, <2>3
<1>8. PollOK'
  BY DEF PollOK
<1>9. TodoOK'
  <2>1. \A k \in todo : k \in cursor.tx + 1 .. Len(log) /\ log[k].trusted
    BY DEF IInv, TodoOK
  <2>2. \A k \in todo \ {i} : k \in i + 1 .. Len(log)
    BY <1>1, <2>1 DEF First
  <2>3. \A k \in i + 1 .. Len(log) : k \in cursor.tx + 1 .. Len(log) /\ k # i
    BY <1>1
  <2> QED
    BY <1>3, <1>6, <2>1, <2>2, <2>3 DEF IInv, TodoOK
<1>10. {k \in 1 .. Len(log) : Lost(k)}' = {k \in 1 .. Len(log) : Lost(k)}
  BY <1>6
<1>11. Feed!Consume(i)
  BY <1>1, <1>2, <1>3, <1>10 DEF Feed!Consume
<1> QED
  BY <1>1, <1>3, <1>4, <1>5, <1>7, <1>8, <1>9, <1>11 DEF IInv, Refines, Forward, Feed!Next

-----------------------------------------------------------------------------
(* The node.                                                               *)

LEMMA CloseLedgerStep ==
    ASSUME IInv, CloseLedger PROVE IInv' /\ Refines /\ Forward
<1>1. PICK n \in 0 .. MaxPerLedger : \E own \in [1 .. n -> BOOLEAN] :
         log' = log \o [k \in 1 .. n |-> [ledger |-> latest + 1, trusted |-> own[k]]]
  BY DEF CloseLedger
<1>0. PICK own \in [1 .. n -> BOOLEAN] :
         log' = log \o [k \in 1 .. n |-> [ledger |-> latest + 1, trusted |-> own[k]]]
  BY <1>1
<1> DEFINE new == [k \in 1 .. n |-> [ledger |-> latest + 1, trusted |-> own[k]]]
<1>2. latest \in Nat /\ floor \in Nat /\ log \in Seq(Transactions) /\ n \in Nat
  BY WatcherAssumption DEF IInv, TypeOK
<1>3. new \in Seq(Transactions) /\ Len(new) = n
  BY <1>2 DEF Transactions
<1>4. /\ log' \in Seq(Transactions) /\ Len(log') = Len(log) + n
      /\ \A i \in 1 .. Len(log) + n :
            log'[i] = IF i <= Len(log) THEN log[i] ELSE new[i - Len(log)]
  BY <1>0, <1>2, <1>3, ConcatProperties
<1>5. Len(log) \in Nat /\ Len(log) <= Len(log')
  BY <1>2, <1>4
<1>6. \A i \in 1 .. Len(log) : i \in 1 .. Len(log') /\ log'[i] = log[i]
  <2> SUFFICES ASSUME NEW i \in 1 .. Len(log)
               PROVE  i \in 1 .. Len(log') /\ log'[i] = log[i]
    OBVIOUS
  <2>1. i \in 1 .. Len(log) + n /\ i <= Len(log)
    BY <1>2, <1>5
  <2> HIDE DEF new
  <2> QED
    BY <1>4, <2>1
<1>7. \A i \in 1 .. Len(log') : i > Len(log) => log'[i].ledger = latest + 1
  <2> SUFFICES ASSUME NEW i \in 1 .. Len(log'), i > Len(log)
               PROVE  log'[i].ledger = latest + 1
    OBVIOUS
  <2>1. i - Len(log) \in 1 .. n /\ i \in 1 .. Len(log) + n /\ ~ (i <= Len(log))
    BY <1>2, <1>4, <1>5
  <2>2. new[i - Len(log)].ledger = latest + 1
    BY <2>1
  <2> HIDE DEF new
  <2> QED
    BY <1>4, <2>1, <2>2
<1> HIDE DEF new
<1>8. latest' = latest + 1 /\ floor' = floor /\ floor <= latest
  BY DEF CloseLedger, IInv, LogOK
<1>9. \A i \in 1 .. Len(log') : Lost(i)' <=> i <= Len(log) /\ Lost(i)
  BY <1>2, <1>5, <1>6, <1>7, <1>8 DEF Lost
<1>10. TypeOK'
  BY <1>2, <1>4, <1>8 DEF IInv, TypeOK, CloseLedger, pollVars
<1>11. LogOK'
  <2>1. \A i \in 1 .. Len(log') : log'[i].ledger \in Nat
    <3>1. \A i \in 1 .. Len(log') : log'[i] \in Transactions
      BY <1>4
    <3> QED
      BY <3>1 DEF Transactions
  <2>2. \A i \in 1 .. Len(log') : log'[i].ledger <= latest + 1
    BY <1>2, <1>6, <1>7, <2>1, <1>5 DEF IInv, LogOK
  <2>3. ASSUME NEW i \in 1 .. Len(log'), NEW j \in 1 .. Len(log'), i <= j
        PROVE  log'[i].ledger <= log'[j].ledger
    <3>1. CASE j > Len(log)
      BY <1>7, <2>2, <3>1
    <3>2. CASE j <= Len(log)
      <4>1. i \in 1 .. Len(log) /\ j \in 1 .. Len(log)
        BY <1>5, <2>3, <3>2
      <4> QED
        BY <1>6, <2>3, <4>1 DEF IInv, LogOK
    <3> QED
      BY <1>5, <3>1, <3>2
  <2> QED
    BY <1>2, <1>8, <2>2, <2>3 DEF LogOK
<1>12. cursor' = cursor /\ cursor.tx \in Nat /\ cursor.tx <= Len(log)
  BY <1>5 DEF IInv, TypeOK, CloseLedger, CursorOK, NoCursor
<1>13. CursorOK'
  BY <1>6, <1>12 DEF IInv, CursorOK
<1>14. NothingSkipped'
  BY <1>5, <1>6, <1>9, <1>12 DEF IInv, NothingSkipped, CloseLedger
<1>15. PollOK'
  <2> USE DEF CloseLedger, pollVars
  <2>1. ASSUME RequestOK, cursor.ledger \in Nat \cup {Earliest},
               min \in Nat \cup {Earliest}, pc \in {"page", "clamp", "filter"}
        PROVE  RequestOK'
    <3>1. \A i \in cursor.tx + 1 .. Len(log') : log'[i].ledger < min => Lost(i)'
      <4> SUFFICES ASSUME NEW i \in cursor.tx + 1 .. Len(log'), log'[i].ledger < min
                   PROVE  Lost(i)'
        OBVIOUS
      <4>1. CASE i <= Len(log)
        <5>1. i \in cursor.tx + 1 .. Len(log) /\ i \in 1 .. Len(log')
          BY <1>5, <1>12, <4>1
        <5> QED
          BY <1>6, <1>9, <1>12, <2>1, <4>1, <5>1 DEF RequestOK
      <4>2. CASE i > Len(log)
        <5>1. log'[i].ledger = latest + 1 /\ min > latest + 1
          BY <1>2, <1>5, <1>7, <1>12, <2>1, <4>2 DEF Earliest
        <5>2. min <= latest
          BY <2>1 DEF IInv, PollOK
        <5> QED
          BY <1>2, <2>1, <5>1, <5>2 DEF Earliest
      <4> QED
        BY <1>5, <1>12, <4>1, <4>2
    <3> QED
      BY <1>12, <2>1, <3>1 DEF RequestOK
  <2>2. pc \in {"page", "filter"} => PagesOK'
    BY <1>5, <1>6, <1>9 DEF IInv, PollOK, PagesOK
  <2>3. cursor.ledger \in Nat \cup {Earliest} /\ min \in Nat \cup {Earliest}
    BY DEF IInv, TypeOK
  <2>4. pc \in {"page", "clamp", "filter"} => min' <= latest'
    BY <1>2, <1>8, <2>3 DEF IInv, PollOK, Earliest
  <2> QED
    BY <1>8, <1>12, <2>1, <2>2, <2>3, <2>4 DEF IInv, PollOK, Pruned
<1>16. TodoOK'
  BY <1>5, <1>6, <1>9, <1>12 DEF IInv, TodoOK, CloseLedger, First
<1>17. {i \in 1 .. Len(log) : Lost(i)}' = {i \in 1 .. Len(log) : Lost(i)}
  BY <1>5, <1>6, <1>9
<1>18. Feed!Publish
  BY <1>5, <1>6, <1>12, <1>17 DEF Feed!Publish, CloseLedger
<1> QED
  BY <1>10, <1>11, <1>12, <1>13, <1>14, <1>15, <1>16, <1>18
     DEF IInv, Refines, Forward, Feed!Next

LEMMA PruneLedgerStep ==
    ASSUME IInv, PruneLedger PROVE IInv' /\ Refines /\ Forward
<1> USE DEF PruneLedger, pollVars
<1>1. floor \in Nat /\ latest \in Nat /\ floor' = floor + 1 /\ floor' <= latest
  BY DEF IInv, TypeOK
<1>2. \A i \in 1 .. Len(log) : Lost(i) => Lost(i)'
  BY <1>1, LogTyped DEF Lost
<1>3. TypeOK'
  BY <1>1 DEF IInv, TypeOK
<1>4. LogOK' /\ CursorOK'
  BY <1>1 DEF IInv, LogOK, CursorOK
<1>5. NothingSkipped'
  BY <1>2 DEF IInv, NothingSkipped
<1>6. cursor.tx \in Nat /\ Len(log) \in Nat
  BY DEF IInv, TypeOK
<1>7. PollOK'
  <2>1. RequestOK => RequestOK'
    BY <1>2, <1>6 DEF RequestOK
  <2>2. PagesOK => PagesOK'
    BY <1>2, <1>6 DEF PagesOK
  <2>3. Pruned => Pruned'
    BY <1>1 DEF Pruned, IInv, TypeOK, Earliest
  <2> QED
    BY <1>1, <2>1, <2>2, <2>3 DEF IInv, PollOK
<1>8. TodoOK'
  BY <1>2, <1>6 DEF IInv, TodoOK, First
<1>9. {i \in 1 .. Len(log) : Lost(i)} \subseteq {i \in 1 .. Len(log) : Lost(i)}'
  BY <1>2
<1>10. Feed!Prune
  BY <1>9 DEF Feed!Prune
<1> QED
  BY <1>3, <1>4, <1>5, <1>7, <1>8, <1>10 DEF IInv, Refines, Forward, Feed!Next

-----------------------------------------------------------------------------
(* Every step.                                                             *)

LEMMA IInvStep ==
    ASSUME IInv, [Next]_vars PROVE IInv' /\ Refines /\ Forward
<1>1. CASE BeginPoll
  BY <1>1, BeginPollStep
<1>2. CASE FetchPage
  BY <1>2, FetchPageStep
<1>3. CASE FetchLastPage
  BY <1>3, FetchLastPageStep
<1>4. CASE PrunedError
  BY <1>4, PrunedErrorStep
<1>5. CASE GiveUp
  BY <1>5, EndPassStep DEF GiveUp, IInv, TypeOK
<1>6. CASE ClampFloor
  BY <1>6, ClampFloorStep
<1>7. CASE FilterPolled
  BY <1>7, FilterPolledStep
<1>8. CASE \E i \in todo : HandleTransaction(i) \/ AdvanceCursor(i)
  BY <1>8, HandleTransactionStep, AdvanceCursorStep
<1>9. CASE EndWalk
  BY <1>9, EndPassStep DEF EndWalk, IInv, TypeOK
<1>10. CASE Interrupt
  BY <1>10, EndPassStep DEF Interrupt, IInv, TypeOK
<1>11. CASE CloseLedger
  BY <1>11, CloseLedgerStep
<1>12. CASE PruneLedger
  BY <1>12, PruneLedgerStep
<1>13. CASE UNCHANGED vars
  <2>1. LogOK' /\ CursorOK' /\ NothingSkipped' /\ Refines /\ Forward
    BY <1>13, QuietFrame DEF vars
  <2>2. TypeOK' /\ PollOK' /\ TodoOK'
    BY <1>13 DEF vars, nodeVars, pollVars, IInv, TypeOK, PollOK, TodoOK, RequestOK,
                 PagesOK, Pruned, Lost, First
  <2> QED
    BY <2>1, <2>2 DEF IInv
<1> QED
  BY <1>1, <1>2, <1>3, <1>4, <1>5, <1>6, <1>7, <1>8, <1>9, <1>10, <1>11, <1>12, <1>13
     DEF Next, Walk

\* The inductive invariant holds of every behaviour of the watcher.
THEOREM WatcherInvariance == Spec => []IInv
<1>1. IInv /\ [Next]_vars => IInv'
  BY IInvStep
<1> QED
  BY InitIInv, <1>1, PTL DEF Spec

\* At-least-once delivery: what the cursor has passed was handled or is pruned.
THEOREM DeliveryIsAtLeastOnce == Spec => []NothingSkipped
<1>1. IInv => NothingSkipped
  BY DEF IInv
<1> QED
  BY <1>1, WatcherInvariance, PTL

\* With a node that only prunes from below, the loud failure for a missing cursor
\* transaction never happens.
THEOREM CursorFound == Spec => []CursorIsFound
<1>1. IInv => CursorIsFound
  <2> SUFFICES ASSUME IInv, pc = "filter", NEW i \in Boundary
               PROVE  cursor.tx \in Boundary
    BY DEF CursorIsFound, CursorMissing
  <2>1. /\ RequestOK /\ PagesOK /\ cursor.tx < marker
        /\ cursor.ledger \in Nat \cup {Earliest} /\ min \in Nat \cup {Earliest}
        /\ marker \in 1 .. Len(log) + 1 /\ Len(log) \in Nat /\ cursor.tx \in Nat
    <3>1. RequestOK /\ PagesOK /\ cursor.tx < marker
      BY DEF IInv, PollOK
    <3> QED
      BY <3>1 DEF IInv, TypeOK, PagesOK
  <2>2. i \in entries /\ log[i].ledger = cursor.ledger /\ log[i].ledger >= min
    BY <2>1 DEF Boundary, Trusted, PagesOK
  <2>3. i \in 1 .. Len(log) /\ log[i].ledger \in Nat
    <3>1. i \in 1 .. marker - 1
      BY <2>1, <2>2 DEF PagesOK
    <3> QED
      BY <2>1, <3>1, LogTyped
  <2>4. min = cursor.ledger /\ min \in Nat
    BY <2>1, <2>2, <2>3 DEF RequestOK, Earliest
  <2>5. cursor # NoCursor
    BY <2>4 DEF NoCursor, Earliest
  <2>6. /\ cursor.tx \in 1 .. marker - 1 /\ log[cursor.tx].ledger = cursor.ledger
        /\ log[cursor.tx].trusted
    BY <2>1, <2>5 DEF IInv, CursorOK
  <2>7. cursor.tx \in entries
    BY <2>1, <2>4, <2>6 DEF PagesOK, Earliest
  <2> QED
    BY <2>6, <2>7 DEF Boundary, Trusted
<1> QED
  BY <1>1, WatcherInvariance, PTL

\* The stored cursor never moves back.
THEOREM CursorNeverMovesBack == Spec => CursorMovesForward
<1>1. IInv /\ [Next]_vars => [Forward]_vars
  BY IInvStep
<1>2. [Forward]_vars => [cursor' # cursor => cursor'.tx > cursor.tx]_vars
  BY DEF Forward
<1> QED
  BY <1>1, <1>2, WatcherInvariance, PTL DEF Spec, CursorMovesForward

\* The walk implements the feed the commit phase relies on.
THEOREM FeedRefinement == Spec => ImplementsFeed
<1>1. IInv /\ [Next]_vars => [Feed!Next]_(Feed!vars)
  BY IInvStep DEF Refines
<1> QED
  BY <1>1, InitIInv, WatcherInvariance, PTL DEF Spec, ImplementsFeed

-----------------------------------------------------------------------------
(* The accounts.  ChainWatcher is one account; PublisherAccount is all the *)
(* accounts the foundation moves between, each with its cursor.            *)

\* A pass and a cursor, to the provers.
LEMMA PassTyped ==
    ASSUME Accounts!TypeOK
    PROVE  /\ pass.to \in Account /\ pass.upto \in Nat /\ pass.round \in Round
           /\ \A a \in Account :
                 /\ announced[a] \in Seq(Round) /\ Len(announced[a]) \in Nat
                 /\ \A i \in 1 .. Len(announced[a]) : announced[a][i] \in Round
                 /\ cursors[a] \in Nat
<1>1. pass \in Accounts!Passes
  BY DEF Accounts!TypeOK
<1>2. \A a \in Account : announced[a] \in Seq(Round)
  BY DEF Accounts!TypeOK
<1> QED BY <1>1, <1>2 DEF Accounts!TypeOK, Accounts!Passes

\* A pass that only goes on to another place.
LEMMA PassGoes ==
    ASSUME Accounts!TypeOK, NEW p \in Accounts!PCs, Accounts!Goto(p)
    PROVE  /\ pass' \in Accounts!Passes
           /\ pass'.pc = p /\ pass'.to = pass.to /\ pass'.upto = pass.upto
           /\ pass'.round = pass.round
  BY DEF Accounts!TypeOK, Accounts!Passes, Accounts!Goto

\* What a new announcement leaves as it was.
LEMMA AnnounceAppends ==
    ASSUME Accounts!TypeOK, NEW r \in Round, Accounts!Announce(r)
    PROVE  /\ announced' \in [Account -> Seq(Round)] /\ publisher \in Account
           /\ announced'[publisher] = Append(announced[publisher], r)
           /\ Len(announced'[publisher]) = Len(announced[publisher]) + 1
           /\ announced'[publisher][Len(announced[publisher]) + 1] = r
           /\ \A a \in Account \ {publisher} : announced'[a] = announced[a]
           /\ \A a \in Account :
                 /\ Len(announced'[a]) \in Nat /\ Len(announced[a]) <= Len(announced'[a])
                 /\ \A i \in 1 .. Len(announced[a]) : announced'[a][i] = announced[a][i]
           /\ UNCHANGED <<pass, cursors, windows, skipped>>
<1>1. announced \in [Account -> Seq(Round)] /\ publisher \in Account
  BY DEF Accounts!TypeOK
<1>2. announced' = [announced EXCEPT ![publisher] = Append(@, r)]
  BY DEF Accounts!Announce
<1>3. Append(announced[publisher], r) \in Seq(Round)
  BY <1>1
<1>4. announced' \in [Account -> Seq(Round)]
  BY <1>1, <1>2, <1>3
<1>5. announced'[publisher] = Append(announced[publisher], r)
  BY <1>1, <1>2
<1>6. \A a \in Account \ {publisher} : announced'[a] = announced[a]
  BY <1>1, <1>2
<1>7. /\ Len(announced'[publisher]) = Len(announced[publisher]) + 1
      /\ announced'[publisher][Len(announced[publisher]) + 1] = r
      /\ \A i \in 1 .. Len(announced[publisher]) : announced'[publisher][i] = announced[publisher][i]
  BY <1>1, <1>5
<1>8. \A a \in Account : Len(announced[a]) \in Nat
  BY <1>1
<1> QED BY <1>1, <1>4, <1>5, <1>6, <1>7, <1>8 DEF Accounts!Announce, Accounts!store


\* What a step does to the memos: it sends one, or changes what has become of
\* those sent, which stay out of sight or to be found, or lets a pass that waits
\* for the last one abandon it.
SendsOne ==
    /\ Len(memos') = Len(memos) + 1
    /\ \A i \in 1 .. Len(memos) : memos'[i] = memos[i]
    /\ memos'[Len(memos')].to = pass.to /\ memos'[Len(memos')].round = pass.round

SameSends ==
    /\ Len(memos') = Len(memos)
    /\ \A i \in 1 .. Len(memos) :
          memos'[i].to = memos[i].to /\ memos'[i].round = memos[i].round

KeepsOutOfSight ==
    \A i \in 1 .. Len(memos) :
        /\ Excused(memos[i]) => Excused(memos'[i])
        /\ memos[i].state = "visible" => memos'[i].state = "visible" \/ Excused(memos'[i])

LEMMA MemosTyped ==
    ASSUME Accounts!TypeOK
    PROVE  /\ memos \in Seq(Accounts!Memos) /\ Len(memos) \in Nat
           /\ \A i \in 1 .. Len(memos) : memos[i] \in Accounts!Memos
<1>1. memos \in Seq(Accounts!Memos) /\ Len(memos) \in Nat
  BY DEF Accounts!TypeOK
<1> QED BY <1>1

LEMMA BroadcastSends ==
    ASSUME Accounts!TypeOK, Accounts!Broadcast
    PROVE  memos' \in Seq(Accounts!Memos) /\ SendsOne
<1>1. [to |-> pass.to, round |-> pass.round, state |-> "flying", abandoned |-> FALSE]
         \in Accounts!Memos
  BY PassTyped DEF Accounts!Memos
<1> QED BY <1>1, MemosTyped DEF Accounts!Broadcast, SendsOne

LEMMA KillSpares ==
    ASSUME Accounts!TypeOK, Accounts!Kill
    PROVE  /\ memos' \in Seq(Accounts!Memos) /\ SameSends /\ KeepsOutOfSight
           /\ pass.pc = "sent" /\ memos # << >> =>
                 memos'[Len(memos)].state = "visible" \/ Excused(memos'[Len(memos)])
<1> USE DEF SameSends, KeepsOutOfSight, Excused
<1> DEFINE last == Len(memos)
<1>1. CASE pass.pc = "sent" /\ memos # << >>
  <2>1. last \in 1 .. Len(memos)
    BY <1>1, MemosTyped
  <2>2. memos[last] \in Accounts!Memos
    BY <2>1, MemosTyped
  <2> HIDE DEF last
  <2>3. CASE memos[last].state = "flying"
    <3>1. memos' = [memos EXCEPT ![last] = [memos[last] EXCEPT !.abandoned = TRUE]]
      BY <1>1, <2>3 DEF Accounts!Kill, Accounts!At, Accounts!Awaited, last
    <3>2. [memos[last] EXCEPT !.abandoned = TRUE] \in Accounts!Memos
      BY <2>2 DEF Accounts!Memos
    <3>3. memos' \in Seq(Accounts!Memos) /\ Len(memos') = Len(memos)
      BY <2>1, <3>1, <3>2, MemosTyped
    <3>4. memos'[last] = [memos[last] EXCEPT !.abandoned = TRUE]
      <4>1. \A m, v : m \in Seq(Accounts!Memos) /\ last \in 1 .. Len(m) => [m EXCEPT ![last] = v][last] = v
        OBVIOUS
      <4> QED BY <2>1, <3>1, <4>1, MemosTyped
    <3>5. \A i \in 1 .. Len(memos) : i # last => memos'[i] = memos[i]
      BY <3>1, MemosTyped
    <3>6. /\ memos'[last].to = memos[last].to /\ memos'[last].round = memos[last].round
          /\ Excused(memos'[last])
      BY <2>2, <3>4 DEF Accounts!Memos
    <3> QED BY <2>1, <2>3, <3>3, <3>5, <3>6 DEF last
  <2>4. CASE memos[last].state # "flying"
    <3>1. memos' = memos
      BY <2>4 DEF Accounts!Kill, Accounts!Awaited, last
    <3> QED BY <2>2, <2>4, <3>1, MemosTyped DEF Accounts!Memos, last
  <2> QED BY <2>3, <2>4
<1>2. CASE pass.pc # "sent" \/ memos = << >>
  <2>1. memos' = memos
    BY <1>2, MemosTyped DEF Accounts!Kill, Accounts!At
  <2> QED BY <1>2, <2>1, MemosTyped
<1> QED BY <1>1, <1>2

LEMMA LandSpares ==
    ASSUME Accounts!TypeOK, NEW i \in 1 .. Len(memos), Accounts!Land(i) \/ Accounts!Drop(i)
    PROVE  memos' \in Seq(Accounts!Memos) /\ SameSends /\ KeepsOutOfSight
<1> USE DEF SameSends, KeepsOutOfSight, Excused, Accounts!Memos
<1>1. PICK state \in {"visible", "dropped"} :
         memos[i].state = "flying" /\ memos' = [memos EXCEPT ![i] = [memos[i] EXCEPT !.state = state]]
  BY DEF Accounts!Land, Accounts!Drop
<1>2. memos[i] \in Accounts!Memos
  BY MemosTyped
<1>3. [memos[i] EXCEPT !.state = state] \in Accounts!Memos
  BY <1>2
<1>4. memos' \in Seq(Accounts!Memos) /\ Len(memos') = Len(memos)
  BY <1>1, <1>3, MemosTyped
<1>5. memos'[i] = [memos[i] EXCEPT !.state = state]
  BY <1>1, MemosTyped
<1>6. \A j \in 1 .. Len(memos) : j # i => memos'[j] = memos[j]
  BY <1>1, MemosTyped
<1>7. /\ memos'[i].to = memos[i].to /\ memos'[i].round = memos[i].round
      /\ Excused(memos[i]) => Excused(memos'[i])
  BY <1>1, <1>2, <1>5
<1> QED BY <1>1, <1>4, <1>6, <1>7

LEMMA BurySpares ==
    ASSUME Accounts!TypeOK, NEW a \in Account, Accounts!Bury(a)
    PROVE  memos' \in Seq(Accounts!Memos) /\ SameSends /\ KeepsOutOfSight
<1> DEFINE Buried(i) == IF memos[i].to = a /\ memos[i].state = "visible"
                        THEN [memos[i] EXCEPT !.state = "buried"] ELSE memos[i]
<1>1. \A i \in 1 .. Len(memos) :
         /\ Buried(i) \in Accounts!Memos
         /\ Buried(i).to = memos[i].to /\ Buried(i).round = memos[i].round
         /\ Excused(memos[i]) => Excused(Buried(i))
         /\ memos[i].state = "visible" => Buried(i).state = "visible" \/ Excused(Buried(i))
  BY MemosTyped DEF Excused, Accounts!Memos
<1>2. memos' = [i \in 1 .. Len(memos) |-> Buried(i)]
  BY DEF Accounts!Bury
<1> HIDE DEF Buried
<1>3. memos' \in Seq(Accounts!Memos) /\ Len(memos') = Len(memos)
  BY <1>1, <1>2, MemosTyped
<1>4. \A i \in 1 .. Len(memos) : memos'[i] = Buried(i)
  BY <1>2
<1> QED BY <1>1, <1>3, <1>4 DEF SameSends, KeepsOutOfSight

LEMMA AccountsTypeStep ==
    ASSUME Accounts!TypeOK, ReadIsThere, Accounts!Next
    PROVE  Accounts!TypeOK'
<1> USE DEF Accounts!TypeOK, Accounts!foundation, Accounts!store
<1>0. pass \in Accounts!Passes
  OBVIOUS
<1>1. ASSUME NEW r \in Round, Accounts!List(r) PROVE Accounts!TypeOK'
  BY <1>1 DEF Accounts!List
<1>2. ASSUME NEW r \in Round, Accounts!Announce(r) PROVE Accounts!TypeOK'
  <2>1. announced' \in [Account -> Seq(Round)]
    BY <1>2, AnnounceAppends
  <2> QED BY <1>2, <2>1 DEF Accounts!Announce
<1>3. ASSUME NEW a \in Account, Accounts!Rotate(a) PROVE Accounts!TypeOK'
  BY <1>3 DEF Accounts!Rotate
<1>4. ASSUME NEW answer \in Accounts!Answers, Accounts!Discover(answer) PROVE Accounts!TypeOK'
  <2>1. Accounts!Resolved(answer) \in Account
    <3>1. answer \in {"address", "unreachable", "none"}
      BY DEF Accounts!Answers
    <3>2. Accounts!Resolved(answer) \in Account \cup {NoAccount}
      BY <3>1 DEF Accounts!Resolved
    <3> QED BY <1>4, <3>2 DEF Accounts!Discover
  <2>2. pass' \in Accounts!Passes
    BY <1>0, <1>4, <2>1 DEF Accounts!Discover, Accounts!Passes, Accounts!PCs
  <2>3. cached' \in Account \cup {NoAccount}
    BY <1>4 DEF Accounts!Discover
  <2> QED BY <1>4, <2>2, <2>3 DEF Accounts!Discover
<1>5. ASSUME NEW reachable \in BOOLEAN, Accounts!Walk(reachable) PROVE Accounts!TypeOK'
  <2>1. announced[pass.to][cursors[pass.to] + 1] \in Round
    BY <1>5, PassTyped DEF Accounts!Walk, ReadIsThere, Accounts!At
  <2>2. pass' \in Accounts!Passes
    BY <1>5, PassGoes DEF Accounts!Walk, Accounts!PCs
  <2> QED BY <1>5, <2>1, <2>2 DEF Accounts!Walk
<1>6. CASE Accounts!Poll
  <2>1. pass' \in Accounts!Passes
    BY <1>0, <1>6, PassTyped DEF Accounts!Poll, Accounts!Passes, Accounts!PCs
  <2> QED BY <1>6, <2>1 DEF Accounts!Poll
<1>7. CASE Accounts!Walked
  BY <1>7, PassGoes DEF Accounts!Walked, Accounts!PCs
<1>8. CASE Accounts!Advance
  <2>1. cursors' \in [Account -> Nat]
    BY <1>8, PassTyped DEF Accounts!Advance, Accounts!Advanced
  <2> QED BY <1>8, <2>1, PassGoes DEF Accounts!Advance, Accounts!PCs
<1>9. CASE Accounts!Record
  BY <1>9, PassTyped, PassGoes DEF Accounts!Record, Accounts!PCs
<1>10. CASE Accounts!End
  BY <1>10, PassGoes DEF Accounts!End, Accounts!PCs
<1>11. ASSUME NEW r \in Round, Accounts!Commit(r) PROVE Accounts!TypeOK'
  <2>1. pass' \in Accounts!Passes
    BY <1>0, <1>11 DEF Accounts!Commit, Accounts!Passes, Accounts!PCs
  <2> QED BY <1>11, <2>1 DEF Accounts!Commit
<1>12. CASE Accounts!Broadcast
  BY <1>12, BroadcastSends, PassGoes DEF Accounts!Broadcast, Accounts!PCs
<1>13. CASE Accounts!SubmissionFailed
  BY <1>13, PassGoes DEF Accounts!SubmissionFailed, Accounts!PCs
<1>14. CASE Accounts!Kill
  <2>1. memos' \in Seq(Accounts!Memos)
    BY <1>14, KillSpares
  <2> QED BY <1>14, <2>1, PassGoes DEF Accounts!Kill, Accounts!Mishap, Accounts!PCs
<1>15. ASSUME NEW i \in 1 .. Len(memos), Accounts!Land(i) \/ Accounts!Drop(i)
       PROVE  Accounts!TypeOK'
  <2>1. memos' \in Seq(Accounts!Memos)
    BY <1>15, LandSpares
  <2> QED BY <1>15, <2>1 DEF Accounts!Land, Accounts!Drop, Accounts!Mishap, Accounts!Outside
<1>16. ASSUME NEW a \in Account, Accounts!Bury(a) PROVE Accounts!TypeOK'
  <2>1. memos' \in Seq(Accounts!Memos)
    BY <1>16, BurySpares
  <2> QED BY <1>16, <2>1 DEF Accounts!Bury, Accounts!Outside
<1> QED BY <1>1, <1>2, <1>3, <1>4, <1>5, <1>6, <1>7, <1>8, <1>9, <1>10, <1>11, <1>12, <1>13, <1>14,
           <1>15, <1>16
        DEF Accounts!Next, Accounts!Step

\* The steps that touch no feed and no place in one.
Aside ==
    /\ UNCHANGED <<announced, cursors, windows, skipped>>
    /\ \/ pass' = pass
       \/ pass'.pc \notin {"walk", "advance"}

LEMMA MostStepAside ==
    ASSUME Accounts!TypeOK, Accounts!Next,
           \A r \in Round : ~Accounts!Announce(r),
           \A reachable \in BOOLEAN : ~Accounts!Walk(reachable),
           ~Accounts!Poll, ~Accounts!Advance
    PROVE  Aside
<1> USE DEF Accounts!foundation, Accounts!store, Aside
<1>0. pass \in Accounts!Passes
  BY DEF Accounts!TypeOK
<1>1. ASSUME NEW r \in Round, Accounts!List(r) PROVE Aside
  BY <1>1 DEF Accounts!List
<1>2. ASSUME NEW a \in Account, Accounts!Rotate(a) PROVE Aside
  BY <1>2 DEF Accounts!Rotate
<1>3. ASSUME NEW answer \in Accounts!Answers, Accounts!Discover(answer) PROVE Aside
  BY <1>0, <1>3 DEF Accounts!Discover, Accounts!Passes
<1>4. CASE Accounts!Walked
  BY <1>4, PassGoes DEF Accounts!Walked, Accounts!PCs
<1>5. CASE Accounts!Record
  BY <1>5, PassGoes DEF Accounts!Record, Accounts!PCs
<1>6. CASE Accounts!End
  BY <1>6, PassGoes DEF Accounts!End, Accounts!PCs
<1>7. ASSUME NEW r \in Round, Accounts!Commit(r) PROVE Aside
  BY <1>0, <1>7 DEF Accounts!Commit, Accounts!Passes
<1>8. CASE Accounts!Kill \/ Accounts!Broadcast \/ Accounts!SubmissionFailed
  BY <1>8, PassGoes DEF Accounts!Kill, Accounts!Broadcast, Accounts!SubmissionFailed, Accounts!PCs
<1>9. ASSUME NEW i \in 1 .. Len(memos), Accounts!Land(i) \/ Accounts!Drop(i) PROVE Aside
  BY <1>9 DEF Accounts!Land, Accounts!Drop, Accounts!Outside
<1>10. ASSUME NEW a \in Account, Accounts!Bury(a) PROVE Aside
  BY <1>10 DEF Accounts!Bury, Accounts!Outside
<1> QED BY <1>1, <1>2, <1>3, <1>4, <1>5, <1>6, <1>7, <1>8, <1>9, <1>10
        DEF Accounts!Next, Accounts!Step

\* Only the walk, its start and the cursor write matter to what has been passed.
LEMMA PassedStep ==
    ASSUME Accounts!TypeOK, PassedIsRecorded, ReadIsThere, Accounts!Next
    PROVE  PassedIsRecorded' /\ ReadIsThere'
<1> USE PassTyped DEF PassedIsRecorded, ReadIsThere
<1>1. CASE Aside
  BY <1>1 DEF Aside
<1>2. ASSUME NEW r \in Round, Accounts!Announce(r)
      PROVE  PassedIsRecorded' /\ ReadIsThere'
  <2>1. /\ \A a \in Account :
              /\ Len(announced'[a]) \in Nat /\ Len(announced[a]) <= Len(announced'[a])
              /\ \A i \in 1 .. Len(announced[a]) : announced'[a][i] = announced[a][i]
        /\ UNCHANGED <<pass, cursors, windows, skipped>>
    BY <1>2, AnnounceAppends
  <2>2. PassedIsRecorded'
    <3> SUFFICES ASSUME NEW a \in Account
                 PROVE  /\ cursors[a] <= Len(announced'[a])
                        /\ \A i \in 1 .. cursors[a] : announced'[a][i] \in windows \cup skipped
      BY <2>1
    <3>1. cursors[a] \in Nat /\ Len(announced[a]) \in Nat /\ cursors[a] <= Len(announced[a])
      OBVIOUS
    <3>2. \A i \in 1 .. cursors[a] :
             i \in 1 .. Len(announced[a]) /\ announced[a][i] \in windows \cup skipped
      BY <3>1
    <3> QED BY <2>1, <3>1, <3>2
  <2>3. pass.pc \in {"walk", "advance"} => pass.upto <= Len(announced'[pass.to])
    BY <2>1
  <2>4. pass.pc = "advance" => announced'[pass.to][cursors[pass.to] + 1] = announced[pass.to][cursors[pass.to] + 1]
    <3>1. pass.pc = "advance" => cursors[pass.to] + 1 \in 1 .. Len(announced[pass.to])
      OBVIOUS
    <3> QED BY <2>1, <3>1
  <2>5. ReadIsThere'
    BY <2>1, <2>3, <2>4
  <2> QED BY <2>2, <2>5
<1>3. ASSUME NEW reachable \in BOOLEAN, Accounts!Walk(reachable)
      PROVE  PassedIsRecorded' /\ ReadIsThere'
  <2>1. /\ windows \subseteq windows' /\ skipped \subseteq skipped'
        /\ UNCHANGED <<announced, cursors>>
    BY <1>3 DEF Accounts!Walk, Accounts!foundation
  <2>2. /\ pass.pc = "walk" /\ cursors[pass.to] + 1 <= pass.upto
        /\ pass'.upto = pass.upto /\ pass'.to = pass.to
        /\ \/ pass'.pc = "commit"
           \/ /\ pass'.pc = "advance"
              /\ announced[pass.to][cursors[pass.to] + 1] \in windows' \cup skipped'
    BY <1>3, PassGoes DEF Accounts!Walk, Accounts!At, Accounts!PCs
  <2>3. PassedIsRecorded'
    BY <2>1
  <2>4. ReadIsThere'
    BY <2>1, <2>2
  <2> QED BY <2>3, <2>4
<1>4. CASE Accounts!Poll
  <2>1. /\ UNCHANGED <<announced, cursors, windows, skipped>>
        /\ pass'.pc = "walk" /\ pass'.to = pass.to /\ pass'.upto = Len(announced[pass.to])
    <3>1. pass \in Accounts!Passes
      BY DEF Accounts!TypeOK
    <3> QED BY <1>4, <3>1 DEF Accounts!Poll, Accounts!Passes, Accounts!foundation, Accounts!store
  <2> QED BY <2>1
<1>5. CASE Accounts!Advance
  <2>1. /\ pass.pc = "advance" /\ UNCHANGED <<announced, windows, skipped>>
        /\ pass'.pc = "walk" /\ pass'.to = pass.to /\ pass'.upto = pass.upto
        /\ cursors' = [cursors EXCEPT ![pass.to] = @ + 1]
    BY <1>5, PassGoes DEF Accounts!Advance, Accounts!Advanced, Accounts!At, Accounts!PCs,
                          Accounts!foundation
  <2>2. /\ cursors'[pass.to] = cursors[pass.to] + 1
        /\ \A a \in Account \ {pass.to} : cursors'[a] = cursors[a]
    BY <2>1 DEF Accounts!TypeOK
  <2>3. PassedIsRecorded'
    <3> SUFFICES ASSUME NEW a \in Account
                 PROVE  /\ cursors'[a] <= Len(announced[a])
                        /\ \A i \in 1 .. cursors'[a] : announced[a][i] \in windows \cup skipped
      BY <2>1
    <3>1. CASE a = pass.to
      BY <2>1, <2>2, <3>1
    <3>2. CASE a # pass.to
      BY <2>2, <3>2
    <3> QED BY <3>1, <3>2
  <2>4. ReadIsThere'
    BY <2>1, <2>2
  <2> QED BY <2>3, <2>4
<1> QED BY <1>1, <1>2, <1>3, <1>4, <1>5, MostStepAside

\* A step that leaves the memos alone leaves the pass outside of a submission, or
\* where it was.
LEMMA MemosStep ==
    ASSUME Accounts!TypeOK, Accounts!Next
    PROVE  \/ Accounts!Broadcast \/ Accounts!Record \/ Accounts!SubmissionFailed \/ Accounts!Kill
           \/ \E r \in Round : Accounts!Commit(r)
           \/ \E i \in 1 .. Len(memos) : Accounts!Land(i) \/ Accounts!Drop(i)
           \/ \E a \in Account : Accounts!Bury(a)
           \/ /\ UNCHANGED <<memos, committed>>
              /\ pass' = pass \/ (pass.pc # "sent" /\ pass'.pc \notin {"signed", "sent"})
<1> DEFINE Quiet == /\ UNCHANGED <<memos, committed>>
                    /\ pass' = pass \/ (pass.pc # "sent" /\ pass'.pc \notin {"signed", "sent"})
<1> USE DEF Accounts!foundation, Accounts!store, Accounts!At
<1>0. pass \in Accounts!Passes
  BY DEF Accounts!TypeOK
<1>1. CASE Accounts!Poll
  BY <1>0, <1>1 DEF Accounts!Poll, Accounts!Passes
<1>2. CASE Accounts!Walked \/ Accounts!Advance \/ Accounts!End
  BY <1>2, PassGoes DEF Accounts!Walked, Accounts!Advance, Accounts!End, Accounts!PCs
<1>3. ASSUME NEW r \in Round, Accounts!List(r) \/ Accounts!Announce(r) PROVE Quiet
  BY <1>3 DEF Accounts!List, Accounts!Announce
<1>4. ASSUME NEW a \in Account, Accounts!Rotate(a) PROVE Quiet
  BY <1>4 DEF Accounts!Rotate
<1>5. ASSUME NEW answer \in Accounts!Answers, Accounts!Discover(answer) PROVE Quiet
  BY <1>0, <1>5 DEF Accounts!Discover, Accounts!Passes
<1>6. ASSUME NEW reachable \in BOOLEAN, Accounts!Walk(reachable) PROVE Quiet
  BY <1>6, PassGoes DEF Accounts!Walk, Accounts!PCs
<1> QED BY <1>1, <1>2, <1>3, <1>4, <1>5, <1>6 DEF Accounts!Next, Accounts!Step

\* A submission excuses, records or waits for what it sent before it sends again.
LEMMA ResendStep ==
    ASSUME Accounts!TypeOK, ResentOnlyIfUnseen, SentIsAccounted, Accounts!Next
    PROVE  ResentOnlyIfUnseen' /\ SentIsAccounted'
<1> DEFINE Goal == ResentOnlyIfUnseen' /\ SentIsAccounted'
<1>0. pass \in Accounts!Passes /\ Len(memos) \in Nat
  BY MemosTyped DEF Accounts!TypeOK
\* What has become of the memos may change while the pass stays, or dies.
<1>1. ASSUME SameSends, KeepsOutOfSight, committed' = committed,
             \/ pass' = pass
             \/ /\ pass'.pc = "idle"
                /\ pass.pc = "sent" /\ memos # << >> =>
                      memos'[Len(memos)].state = "visible" \/ Excused(memos'[Len(memos)])
      PROVE  Goal
  <2> USE DEF SameSends, KeepsOutOfSight
  <2>1. ResentOnlyIfUnseen'
    BY <1>0, <1>1 DEF ResentOnlyIfUnseen
  <2>2. CASE pass' = pass
    <3>1. memos # << >> => Len(memos) \in 1 .. Len(memos) /\ Len(memos') = Len(memos)
      BY <1>0, <1>1 DEF Accounts!TypeOK
    <3>2. Len(memos') # 0 => memos' # << >>
      OBVIOUS
    <3> QED BY <1>0, <1>1, <2>1, <2>2, <3>1, <3>2 DEF SentIsAccounted
  <2>3. CASE pass'.pc = "idle" /\ pass' # pass
    <3>1. ASSUME NEW i \in 1 .. Len(memos), pass.pc = "sent", i = Len(memos)
          PROVE  memos'[i].state = "visible" \/ Excused(memos'[i])
      <4>1. memos # << >>
        BY <3>1 DEF SentIsAccounted
      <4> QED BY <1>1, <2>3, <3>1, <4>1
    <3>2. \A i \in 1 .. Len(memos') : \/ memos'[i].round \in committed'
                                      \/ Excused(memos'[i])
                                      \/ memos'[i].state = "visible"
      BY <1>0, <1>1, <3>1 DEF SentIsAccounted
    <3> QED BY <2>1, <2>3, <3>2 DEF SentIsAccounted
  <2> QED BY <1>1, <2>2, <2>3
<1>2. CASE Accounts!Broadcast
  <2>1. SendsOne /\ pass.pc = "signed" /\ committed' = committed
    BY <1>2, BroadcastSends DEF Accounts!Broadcast, Accounts!At, Accounts!store
  <2>2. pass'.pc = "sent" /\ pass'.to = pass.to /\ pass'.round = pass.round
    BY <1>2, PassGoes DEF Accounts!Broadcast, Accounts!PCs
  <2>3. ResentOnlyIfUnseen'
    <3> SUFFICES ASSUME NEW i \in 1 .. Len(memos'), NEW j \in 1 .. Len(memos'), i < j,
                        memos'[i].to = memos'[j].to, memos'[i].round = memos'[j].round
                 PROVE  Excused(memos'[i])
      BY DEF ResentOnlyIfUnseen
    <3>1. i \in 1 .. Len(memos) /\ memos'[i] = memos[i]
      BY <1>0, <2>1 DEF SendsOne
    <3>2. CASE j = Len(memos')
      BY <2>1, <3>1, <3>2 DEF SendsOne, SentIsAccounted
    <3>3. CASE j # Len(memos')
      <4>1. j \in 1 .. Len(memos) /\ memos'[j] = memos[j]
        BY <1>0, <2>1, <3>3 DEF SendsOne
      <4> QED BY <3>1, <4>1 DEF ResentOnlyIfUnseen
    <3> QED BY <3>2, <3>3
  <2>4. SentIsAccounted'
    <3>1. memos' # << >> /\ memos'[Len(memos')].round = pass'.round
      BY <1>0, <2>1, <2>2 DEF SendsOne
    <3>2. \A i \in 1 .. Len(memos') : i = Len(memos') \/ (i \in 1 .. Len(memos) /\ memos'[i] = memos[i])
      BY <1>0, <2>1 DEF SendsOne
    <3> QED BY <2>1, <2>2, <3>1, <3>2 DEF SentIsAccounted
  <2> QED BY <2>3, <2>4
<1>3. ASSUME memos' = memos, committed \subseteq committed', pass'.pc \notin {"signed", "sent"},
             pass.pc = "sent" /\ memos # << >> => \/ memos[Len(memos)].round \in committed'
                                               \/ Excused(memos[Len(memos)])
      PROVE  Goal
  <2>1. pass.pc = "sent" => \/ memos[Len(memos)].round \in committed'
                            \/ Excused(memos[Len(memos)])
    BY <1>3 DEF SentIsAccounted
  <2>2. \A i \in 1 .. Len(memos) : \/ memos[i].round \in committed'
                                   \/ Excused(memos[i]) \/ memos[i].state = "visible"
    BY <1>3, <2>1 DEF SentIsAccounted
  <2>3. SentIsAccounted'
    BY <1>3, <2>2 DEF SentIsAccounted
  <2>4. ResentOnlyIfUnseen'
    BY <1>3 DEF ResentOnlyIfUnseen
  <2> QED BY <2>3, <2>4
<1>4. CASE Accounts!Record
  <2>1. /\ memos' = memos /\ committed' = committed \cup {pass.round} /\ pass.pc = "sent"
        /\ pass'.pc = "commit"
    BY <1>4, PassGoes DEF Accounts!Record, Accounts!At, Accounts!PCs
  <2> QED BY <1>3, <2>1 DEF SentIsAccounted
<1>5. CASE Accounts!SubmissionFailed
  <2>1. /\ memos' = memos /\ committed' = committed /\ Excused(memos[Len(memos)])
        /\ pass'.pc = "idle"
    BY <1>5, PassGoes DEF Accounts!SubmissionFailed, Accounts!Awaited, Accounts!PCs,
                          Accounts!store, Excused
  <2> QED BY <1>3, <2>1
<1>6. CASE Accounts!Kill
  <2>1. /\ SameSends /\ KeepsOutOfSight /\ committed' = committed /\ pass'.pc = "idle"
        /\ pass.pc = "sent" /\ memos # << >> =>
              memos'[Len(memos)].state = "visible" \/ Excused(memos'[Len(memos)])
    BY <1>6, KillSpares, PassGoes DEF Accounts!Kill, Accounts!PCs, Accounts!store
  <2> QED BY <1>1, <2>1
<1>7. ASSUME NEW r \in Round, Accounts!Commit(r) PROVE Goal
  <2>1. CASE Accounts!Found(r)
    <3>1. /\ memos' = memos /\ committed \subseteq committed' /\ pass' = pass /\ pass.pc = "commit"
      BY <1>7, <2>1 DEF Accounts!Commit, Accounts!At
    <3> QED BY <1>3, <3>1
  <2>2. CASE ~Accounts!Found(r)
    <3>1. /\ memos' = memos /\ committed' = committed /\ pass.pc = "commit" /\ r \notin committed
          /\ pass' = [pass EXCEPT !.pc = "signed", !.round = r]
      BY <1>7, <2>2 DEF Accounts!Commit, Accounts!At
    <3>2. pass'.pc = "signed" /\ pass'.to = pass.to /\ pass'.round = r
      BY <1>0, <3>1 DEF Accounts!Passes
    <3>3. \A i \in 1 .. Len(memos) :
             memos[i].to = pass.to /\ memos[i].round = r => Excused(memos[i])
      BY <2>2, <3>1 DEF Accounts!Found, SentIsAccounted
    <3>4. SentIsAccounted'
      BY <3>1, <3>2, <3>3 DEF SentIsAccounted
    <3>5. ResentOnlyIfUnseen'
      BY <3>1 DEF ResentOnlyIfUnseen
    <3> QED BY <3>4, <3>5
  <2> QED BY <2>1, <2>2
<1>8. ASSUME NEW i \in 1 .. Len(memos), Accounts!Land(i) \/ Accounts!Drop(i) PROVE Goal
  <2>1. committed' = committed /\ pass' = pass
    BY <1>8 DEF Accounts!Land, Accounts!Drop, Accounts!Outside, Accounts!store
  <2> QED BY <1>1, <1>8, <2>1, LandSpares
<1>9. ASSUME NEW a \in Account, Accounts!Bury(a) PROVE Goal
  <2>1. committed' = committed /\ pass' = pass
    BY <1>9 DEF Accounts!Bury, Accounts!Outside, Accounts!store
  <2> QED BY <1>1, <1>9, <2>1, BurySpares
<1>10. ASSUME UNCHANGED <<memos, committed>>,
              pass' = pass \/ (pass.pc # "sent" /\ pass'.pc \notin {"signed", "sent"})
       PROVE  Goal
  BY <1>10 DEF SentIsAccounted, ResentOnlyIfUnseen
<1> QED BY <1>2, <1>4, <1>5, <1>6, <1>7, <1>8, <1>9, <1>10, MemosStep

\* What the pass was told can only come from the fetch or the override.
LEMMA ToldStep ==
    ASSUME Accounts!TypeOK, ToldIsCurrent, Accounts!Next
    PROVE  ToldIsCurrent'
<1> USE DEF Accounts!foundation, Accounts!store, ToldIsCurrent
<1>0. pass \in Accounts!Passes
  BY DEF Accounts!TypeOK
<1>1. ASSUME NEW r \in Round, Accounts!List(r) \/ Accounts!Announce(r)
      PROVE  ToldIsCurrent'
  BY <1>1 DEF Accounts!List, Accounts!Announce
<1>2. ASSUME NEW a \in Account, Accounts!Rotate(a) PROVE ToldIsCurrent'
  BY <1>2 DEF Accounts!Rotate
<1>3. ASSUME NEW answer \in Accounts!Answers, Accounts!Discover(answer)
      PROVE  ToldIsCurrent'
  <2>1. pass'.to = Accounts!Resolved(answer)
    <3>1. pass' = [pass EXCEPT !.pc = "poll", !.to = Accounts!Resolved(answer)]
      BY <1>3 DEF Accounts!Discover
    <3> QED BY <1>0, <3>1 DEF Accounts!Passes
  <2>2. CASE override # NoAccount
    <3>1. Accounts!Resolved(answer) = override
      BY <2>2 DEF Accounts!Resolved
    <3>2. override' = override
      BY <1>3 DEF Accounts!Discover
    <3> QED BY <2>1, <3>1, <3>2
  <2>3. CASE override = NoAccount /\ answer = "address"
    BY <1>3, <2>1, <2>3 DEF Accounts!Discover, Accounts!Resolved
  <2>4. CASE override = NoAccount /\ answer # "address"
    <3>1. answer \in {"address", "unreachable", "none"}
      BY DEF Accounts!Answers
    <3>2. answer = "unreachable"
      BY <1>3, <2>4, <3>1 DEF Accounts!Discover, Accounts!Resolved
    <3> QED BY <1>3, <3>2 DEF Accounts!Discover
  <2> QED BY <2>2, <2>3, <2>4
<1>4. ASSUME NEW reachable \in BOOLEAN, Accounts!Walk(reachable)
      PROVE  ToldIsCurrent'
  BY <1>4, PassGoes DEF Accounts!Walk, Accounts!At, Accounts!PCs
<1>5. CASE Accounts!Poll
  BY <1>0, <1>5 DEF Accounts!Poll, Accounts!At, Accounts!Passes
<1>6. CASE Accounts!Walked \/ Accounts!Record \/ Accounts!End \/ Accounts!Advance
  BY <1>6, PassGoes DEF Accounts!Walked, Accounts!Record, Accounts!End, Accounts!Advance,
                        Accounts!At, Accounts!PCs
<1>7. ASSUME NEW r \in Round, Accounts!Commit(r) PROVE ToldIsCurrent'
  BY <1>0, <1>7 DEF Accounts!Commit, Accounts!At, Accounts!Passes
<1>8. CASE Accounts!Kill \/ Accounts!Broadcast \/ Accounts!SubmissionFailed
  BY <1>8, PassGoes DEF Accounts!Kill, Accounts!Broadcast, Accounts!SubmissionFailed,
                        Accounts!At, Accounts!PCs
<1>9. ASSUME NEW i \in 1 .. Len(memos), Accounts!Land(i) \/ Accounts!Drop(i) PROVE ToldIsCurrent'
  BY <1>9 DEF Accounts!Land, Accounts!Drop, Accounts!Outside
<1>10. ASSUME NEW a \in Account, Accounts!Bury(a) PROVE ToldIsCurrent'
  BY <1>10 DEF Accounts!Bury, Accounts!Outside
<1> QED BY <1>1, <1>2, <1>3, <1>4, <1>5, <1>6, <1>7, <1>8, <1>9, <1>10
        DEF Accounts!Next, Accounts!Step

\* A round that was not posted gets the one new place.
LEMMA AnnouncedOnceStep ==
    ASSUME Accounts!TypeOK, AnnouncedOnce, Accounts!Next
    PROVE  AnnouncedOnce'
<1>1. CASE announced' = announced
  BY <1>1 DEF AnnouncedOnce
<1>2. ASSUME NEW r \in Round, Accounts!Announce(r) PROVE AnnouncedOnce'
  <2>1. /\ publisher \in Account
        /\ Len(announced'[publisher]) = Len(announced[publisher]) + 1
        /\ announced'[publisher][Len(announced[publisher]) + 1] = r
        /\ \A a \in Account \ {publisher} : announced'[a] = announced[a]
        /\ \A i \in 1 .. Len(announced[publisher]) :
              announced'[publisher][i] = announced[publisher][i]
    BY <1>2, AnnounceAppends
  <2>2. \A a \in Account : Len(announced[a]) \in Nat
    BY PassTyped
  <2> DEFINE New(a, i) == a = publisher /\ i = Len(announced[publisher]) + 1
  <2>3. \A a \in Account : \A i \in 1 .. Len(announced'[a]) :
           /\ New(a, i) => announced'[a][i] = r
           /\ ~New(a, i) => /\ i \in 1 .. Len(announced[a])
                            /\ announced'[a][i] = announced[a][i] /\ announced[a][i] # r
    <3>1. \A a \in Account : \A i \in 1 .. Len(announced[a]) : announced[a][i] # r
      BY <1>2 DEF Accounts!Announce, Accounts!Posted
    <3> SUFFICES ASSUME NEW a \in Account, NEW i \in 1 .. Len(announced'[a]), ~New(a, i)
                 PROVE  i \in 1 .. Len(announced[a]) /\ announced'[a][i] = announced[a][i]
      BY <2>1, <3>1
    <3>2. CASE a = publisher
      BY <2>1, <2>2, <3>2
    <3>3. CASE a # publisher
      BY <2>1, <3>3
    <3> QED BY <3>2, <3>3
  <2> SUFFICES ASSUME NEW a \in Account, NEW b \in Account,
                      NEW i \in 1 .. Len(announced'[a]), NEW j \in 1 .. Len(announced'[b]),
                      announced'[a][i] = announced'[b][j]
               PROVE  a = b /\ i = j
    BY DEF AnnouncedOnce
  <2>4. CASE New(a, i) /\ New(b, j)
    BY <2>4
  <2>5. CASE ~New(a, i) /\ ~New(b, j)
    BY <2>3, <2>5 DEF AnnouncedOnce
  <2>6. New(a, i) <=> New(b, j)
    BY <2>3
  <2> QED BY <2>4, <2>5, <2>6
<1>3. announced' = announced \/ \E r \in Round : Accounts!Announce(r)
  BY DEF Accounts!Next, Accounts!Step, Accounts!List, Accounts!Rotate, Accounts!Discover,
         Accounts!Walk, Accounts!Poll, Accounts!Walked, Accounts!Advance, Accounts!Record,
         Accounts!End, Accounts!Commit, Accounts!Broadcast, Accounts!SubmissionFailed,
         Accounts!Kill, Accounts!Land, Accounts!Drop, Accounts!Bury, Accounts!Outside,
         Accounts!foundation
<1> QED BY <1>1, <1>2, <1>3

LEMMA HandledStep ==
    ASSUME Accounts!TypeOK, ReadIsThere, HandledIsPosted, Accounts!Next
    PROVE  HandledIsPosted'
<1> USE DEF HandledIsPosted, Accounts!Posted
<1>1. CASE UNCHANGED <<announced, windows, skipped>>
  BY <1>1
<1>2. ASSUME NEW r \in Round, Accounts!Announce(r) PROVE HandledIsPosted'
  <2>1. /\ \A a \in Account :
              /\ Len(announced'[a]) \in Nat /\ Len(announced[a]) \in Nat
              /\ Len(announced[a]) <= Len(announced'[a])
              /\ \A i \in 1 .. Len(announced[a]) : announced'[a][i] = announced[a][i]
        /\ UNCHANGED <<windows, skipped>>
    BY <1>2, AnnounceAppends, PassTyped
  <2> SUFFICES ASSUME NEW q \in windows \cup skipped
               PROVE  \E a \in Account : \E i \in 1 .. Len(announced'[a]) : announced'[a][i] = q
    BY <2>1
  <2>2. PICK a \in Account : \E i \in 1 .. Len(announced[a]) : announced[a][i] = q
    OBVIOUS
  <2>3. PICK i \in 1 .. Len(announced[a]) : announced[a][i] = q
    BY <2>2
  <2>4. i \in 1 .. Len(announced'[a]) /\ announced'[a][i] = q
    BY <2>1, <2>3
  <2> QED BY <2>4
<1>3. ASSUME NEW reachable \in BOOLEAN, Accounts!Walk(reachable) PROVE HandledIsPosted'
  <2> DEFINE at == cursors[pass.to] + 1
  <2>1. pass.to \in Account /\ at \in 1 .. Len(announced[pass.to])
    BY <1>3, PassTyped DEF Accounts!Walk, Accounts!At, ReadIsThere
  <2>2. /\ \A q \in windows' \cup skipped' : q \in windows \cup skipped \/ q = announced[pass.to][at]
        /\ announced' = announced
    BY <1>3 DEF Accounts!Walk, Accounts!foundation
  <2> QED BY <2>1, <2>2
<1>4. CASE Accounts!Poll \/ Accounts!Advance
  BY <1>1, <1>4 DEF Accounts!Poll, Accounts!Advance, Accounts!foundation, Accounts!store
<1>5. CASE Aside
  BY <1>1, <1>5 DEF Aside
<1> QED BY <1>2, <1>3, <1>4, <1>5, MostStepAside

-----------------------------------------------------------------------------
(* Theorems about the accounts.                                            *)

\* The inductive invariant, for any accounts, rounds, moves and kills.
THEOREM AccountsInvariance == AccountsSpec => []AccountsIInv
<1>1. Accounts!Init => AccountsIInv
  <2> SUFFICES ASSUME Accounts!Init PROVE AccountsIInv
    OBVIOUS
  <2>1. (CHOOSE r \in Round : TRUE) \in Round
    BY PublisherAssumption
  <2>2. Accounts!TypeOK
    <3>1. announced \in [Account -> Seq(Round)] /\ memos \in Seq(Accounts!Memos)
      BY DEF Accounts!Init
    <3>2. pass \in Accounts!Passes
      BY <2>1 DEF Accounts!Init, Accounts!Passes, Accounts!PCs
    <3> QED BY <3>1, <3>2 DEF Accounts!Init, Accounts!TypeOK
  <2>3. \A a \in Account : announced[a] = << >> /\ cursors[a] = 0
    BY DEF Accounts!Init
  <2> QED BY <2>2, <2>3 DEF Accounts!Init, AccountsIInv, AccountsInv, PassedIsRecorded,
        ResentOnlyIfUnseen, SentIsAccounted, ReadIsThere, ToldIsCurrent,
        AnnouncedOnce, HandledIsPosted
<1>2. AccountsIInv /\ [Accounts!Next]_(Accounts!vars) => AccountsIInv'
  <2>1. ASSUME AccountsIInv, Accounts!Next PROVE AccountsIInv'
    <3> USE <2>1 DEF AccountsIInv, AccountsInv
    <3> QED BY AccountsTypeStep, PassedStep, ResendStep, ToldStep, AnnouncedOnceStep,
               HandledStep
  <2>2. ASSUME AccountsIInv, UNCHANGED Accounts!vars PROVE AccountsIInv'
    <3> USE <2>2 DEF Accounts!vars, Accounts!foundation, Accounts!store, AccountsIInv, AccountsInv
    <3>1. Accounts!TypeOK'
      BY DEF Accounts!TypeOK
    <3>2. PassedIsRecorded' /\ ResentOnlyIfUnseen' /\ SentIsAccounted' /\ AnnouncedOnce'
      BY DEF PassedIsRecorded, ResentOnlyIfUnseen, SentIsAccounted, AnnouncedOnce
    <3>3. ReadIsThere' /\ ToldIsCurrent' /\ HandledIsPosted'
      BY DEF ReadIsThere, ToldIsCurrent, HandledIsPosted, Accounts!Posted
    <3> QED BY <3>1, <3>2, <3>3
  <2> QED BY <2>1, <2>2
<1> QED BY <1>1, <1>2, PTL DEF AccountsSpec, Accounts!Spec

\* Whatever was killed and wherever the foundation moved, what a cursor has passed
\* was recorded or refused.
THEOREM PassedAreRecorded == AccountsSpec => []AccountsInv
<1>1. AccountsIInv => AccountsInv
  BY DEF AccountsIInv
<1> QED BY <1>1, AccountsInvariance, PTL

\* The scan before a commit sends a round again to an account only when what was
\* sent was abandoned on its way, dropped or buried: for any number of these.
THEOREM ResendsAreUnseen == AccountsSpec => []ResentOnlyIfUnseen
<1>1. AccountsIInv => ResentOnlyIfUnseen
  BY DEF AccountsIInv
<1> QED BY <1>1, AccountsInvariance, PTL

\* A pass that was told the account does not write to a retired one.
THEOREM MemosGoToPublisher == AccountsSpec => SendsToPublisher
<1> DEFINE Sends == Len(memos') > Len(memos) => ~answered \/ memos'[Len(memos')].to \in current
                                                          \/ memos'[Len(memos')].to = override
<1>1. ASSUME AccountsIInv, [Accounts!Next]_(Accounts!vars) PROVE [Sends]_(Accounts!vars)
  <2>1. CASE Accounts!Next
    <3> SUFFICES ASSUME Len(memos') > Len(memos), answered
                 PROVE  memos'[Len(memos')].to \in current \cup {override}
      OBVIOUS
    <3>1. Accounts!TypeOK /\ ToldIsCurrent
      BY <1>1 DEF AccountsIInv, AccountsInv
    <3>2. Len(memos) \in Nat /\ (Len(memos') = Len(memos) => FALSE)
      BY <3>1, MemosTyped
    <3>3. Accounts!Record \/ Accounts!SubmissionFailed \/ (\E r \in Round : Accounts!Commit(r))
             => memos' = memos
      BY DEF Accounts!Record, Accounts!SubmissionFailed, Accounts!Commit
    <3>4. ~SameSends /\ memos' # memos
      BY <3>2 DEF SameSends
    <3>5. /\ Accounts!Kill => SameSends
          /\ \A i \in 1 .. Len(memos) : Accounts!Land(i) \/ Accounts!Drop(i) => SameSends
          /\ \A a \in Account : Accounts!Bury(a) => SameSends
      BY <3>1, KillSpares, LandSpares, BurySpares
    <3>6. Accounts!Broadcast
      BY <2>1, <3>1, <3>3, <3>4, <3>5, MemosStep
    <3>7. SendsOne /\ pass.pc = "signed"
      BY <3>1, <3>6, BroadcastSends DEF Accounts!Broadcast, Accounts!At
    <3> QED BY <3>1, <3>7 DEF SendsOne, ToldIsCurrent
  <2> QED BY <1>1, <2>1
<1> QED BY <1>1, AccountsInvariance, PTL DEF AccountsSpec, Accounts!Spec, SendsToPublisher

-----------------------------------------------------------------------------

\* The log of an account, to the provers.
LEMMA AccountLogIs ==
    ASSUME NEW a \in Account, Accounts!TypeOK
    PROVE  /\ AccountLog(a) \in Seq([ledger : Nat, trusted : BOOLEAN])
           /\ Len(AccountLog(a)) = Len(announced[a])
           /\ \A i \in 1 .. Len(announced[a]) :
                 AccountLog(a)[i] = [ledger |-> i, trusted |-> TRUE]
<1>1. Len(announced[a]) \in Nat
  BY PassTyped
<1> QED BY <1>1 DEF AccountLog

\* A step aside is none of the feed.
LEMMA FeedAside ==
    ASSUME NEW a \in Account, UNCHANGED <<announced, cursors, windows, skipped>>
    PROVE  UNCHANGED AccountFeed(a)!vars
  BY DEF AccountFeed!vars, AccountLog, AccountHandled

\* The announcement after the cursor is due.
LEMMA NextIsDue ==
    ASSUME NEW a \in Account, Accounts!TypeOK, cursors[a] + 1 \in 1 .. Len(announced[a])
    PROVE  AccountFeed(a)!Due(cursors[a] + 1)
<1> DEFINE at == cursors[a] + 1
<1>1. cursors[a] \in Nat /\ at \in Nat
  BY PassTyped
<1>2. AccountLog(a)[at].trusted
  <2>1. AccountLog(a)[at] = [ledger |-> at, trusted |-> TRUE]
    BY AccountLogIs
  <2> QED BY <2>1
<1>3. at \in cursors[a] + 1 .. Len(AccountLog(a))
  BY <1>1, AccountLogIs
<1>4. cursors[a] + 1 .. at - 1 = {}
  BY <1>1
<1> QED BY <1>2, <1>3, <1>4 DEF AccountFeed!Due

\* An announcement is published on its account and on no other.
LEMMA FeedPublishes ==
    ASSUME AccountsIInv, NEW r \in Round, Accounts!Announce(r), NEW a \in Account
    PROVE  [AccountFeed(a)!Next]_(AccountFeed(a)!vars)
<1> USE DEF AccountsIInv, AccountsInv
<1>1. /\ announced' \in [Account -> Seq(Round)]
      /\ Len(announced'[publisher]) = Len(announced[publisher]) + 1
      /\ announced'[publisher][Len(announced[publisher]) + 1] = r
      /\ \A b \in Account \ {publisher} : announced'[b] = announced[b]
      /\ \A b \in Account :
            /\ Len(announced'[b]) \in Nat /\ Len(announced[b]) <= Len(announced'[b])
            /\ \A i \in 1 .. Len(announced[b]) : announced'[b][i] = announced[b][i]
      /\ UNCHANGED <<pass, cursors, windows, skipped>>
  BY AnnounceAppends
<1>2. Len(announced[a]) \in Nat
  BY PassTyped
<1>3. AccountHandled(a)' = AccountHandled(a)
  <2>1. CASE a = publisher
    <3>1. r \notin windows \cup skipped
      BY DEF Accounts!Announce, HandledIsPosted
    <3>2. \A i \in 1 .. Len(announced'[a]) :
             i \in 1 .. Len(announced[a]) \/ announced'[a][i] \notin windows \cup skipped
      BY <1>1, <1>2, <2>1, <3>1
    <3>3. 1 .. Len(announced[a]) \subseteq 1 .. Len(announced'[a])
      BY <1>1, <1>2
    <3> QED BY <1>1, <3>2, <3>3 DEF AccountHandled
  <2>2. CASE a # publisher
    BY <1>1, <2>2 DEF AccountHandled
  <2> QED BY <2>1, <2>2
<1>4. /\ Len(AccountLog(a)) = Len(announced[a])
      /\ Len(AccountLog(a)') = Len(announced'[a])
      /\ \A i \in 1 .. Len(announced[a]) : AccountLog(a)'[i] = AccountLog(a)[i]
  <2>1. 1 .. Len(announced[a]) \subseteq 1 .. Len(announced'[a])
    BY <1>1, <1>2
  <2> QED BY <1>1, <1>2, <2>1 DEF AccountLog
<1>5. AccountFeed(a)!Publish
  BY <1>1, <1>2, <1>3, <1>4 DEF AccountFeed!Publish
<1> QED BY <1>5 DEF AccountFeed!Next

\* The walk handles an announcement of its own account.
LEMMA FeedDelivers ==
    ASSUME AccountsIInv, NEW reachable \in BOOLEAN, Accounts!Walk(reachable), NEW a \in Account
    PROVE  [AccountFeed(a)!Next]_(AccountFeed(a)!vars)
<1> USE DEF AccountsIInv, AccountsInv
<1> DEFINE at == cursors[pass.to] + 1
           r == announced[pass.to][at]
<1>1. pass.to \in Account /\ at \in 1 .. Len(announced[pass.to]) /\ cursors[pass.to] \in Nat
  BY PassTyped DEF Accounts!Walk, Accounts!At, ReadIsThere
<1>2. /\ windows' \cup skipped' = windows \cup skipped \/ windows' \cup skipped' = windows \cup skipped \cup {r}
      /\ UNCHANGED <<announced, cursors>>
  BY DEF Accounts!Walk, Accounts!foundation
<1>3. CASE windows' \cup skipped' = windows \cup skipped
  BY <1>2, <1>3 DEF AccountFeed!vars, AccountLog, AccountHandled
<1>4. CASE windows' \cup skipped' = windows \cup skipped \cup {r}
  <2>1. CASE a # pass.to
    <3>1. \A i \in 1 .. Len(announced[a]) : announced[a][i] # r
      BY <1>1, <2>1 DEF AnnouncedOnce
    <3>2. AccountHandled(a)' = AccountHandled(a)
      BY <1>2, <1>4, <3>1 DEF AccountHandled
    <3> QED BY <1>2, <3>2 DEF AccountFeed!vars, AccountLog
  <2>2. CASE a = pass.to
    <3>1. \A i \in 1 .. Len(announced[a]) : announced[a][i] = r <=> i = at
      BY <1>1, <2>2 DEF AnnouncedOnce
    <3>2. AccountHandled(a)' = AccountHandled(a) \cup {at}
      BY <1>1, <1>2, <1>4, <2>2, <3>1 DEF AccountHandled
    <3>3. AccountFeed(a)!Due(at)
      BY <1>1, <2>2, NextIsDue
    <3>4. AccountFeed(a)!Deliver(at)
      BY <1>2, <3>2, <3>3 DEF AccountFeed!Deliver, AccountLog
    <3>5. at \in 1 .. Len(AccountLog(a))
      BY <1>1, <2>2, AccountLogIs
    <3> QED BY <3>4, <3>5 DEF AccountFeed!Next
  <2> QED BY <2>1, <2>2
<1> QED BY <1>2, <1>3, <1>4

\* The cursor passes what is handled.
LEMMA FeedConsumes ==
    ASSUME AccountsIInv, Accounts!Advance, NEW a \in Account
    PROVE  [AccountFeed(a)!Next]_(AccountFeed(a)!vars)
<1> USE DEF AccountsIInv, AccountsInv
<1> DEFINE at == cursors[pass.to] + 1
<1>1. /\ pass.to \in Account /\ at \in 1 .. Len(announced[pass.to]) /\ cursors[pass.to] \in Nat
      /\ announced[pass.to][at] \in windows \cup skipped
  BY PassTyped DEF Accounts!Advance, Accounts!At, ReadIsThere
<1>2. /\ UNCHANGED <<announced, windows, skipped>>
      /\ cursors'[pass.to] = at
      /\ \A b \in Account \ {pass.to} : cursors'[b] = cursors[b]
  BY <1>1 DEF Accounts!Advance, Accounts!Advanced, Accounts!foundation, Accounts!TypeOK
<1>3. /\ AccountLog(a)' = AccountLog(a)
      /\ AccountHandled(a)' = AccountHandled(a)
  BY <1>2 DEF AccountLog, AccountHandled
<1>4. CASE a # pass.to
  BY <1>2, <1>3, <1>4 DEF AccountFeed!vars
<1>5. CASE a = pass.to
  <2>1. AccountFeed(a)!Due(at)
    BY <1>1, <1>5, NextIsDue
  <2>2. at \in AccountHandled(a)
    BY <1>1, <1>5 DEF AccountHandled
  <2>3. AccountFeed(a)!Consume(at)
    BY <1>2, <1>3, <1>5, <2>1, <2>2 DEF AccountFeed!Consume
  <2>4. at \in 1 .. Len(AccountLog(a))
    BY <1>1, <1>5, AccountLogIs
  <2> QED BY <2>3, <2>4 DEF AccountFeed!Next
<1> QED BY <1>4, <1>5

\* Each account is a feed: in order, at least once, and none is passed over.
THEOREM AccountsRefinement == AccountsSpec => ImplementsFeeds
<1> DEFINE Steps == \A a \in Account : [AccountFeed(a)!Next]_(AccountFeed(a)!vars)
           Starts == \A a \in Account : AccountFeed(a)!Init
<1>1. Accounts!Init => Starts
  <2> SUFFICES ASSUME Accounts!Init, NEW a \in Account PROVE AccountFeed(a)!Init
    OBVIOUS
  <2>1. announced[a] = << >> /\ cursors[a] = 0
    BY DEF Accounts!Init
  <2> QED BY <2>1 DEF AccountFeed!Init, AccountLog, AccountHandled
<1>2. ASSUME AccountsIInv, [Accounts!Next]_(Accounts!vars) PROVE [Steps]_(Accounts!vars)
  <2> SUFFICES ASSUME Accounts!Next, NEW a \in Account
               PROVE  [AccountFeed(a)!Next]_(AccountFeed(a)!vars)
    BY <1>2
  <2>1. CASE Aside
    BY <2>1, FeedAside DEF Aside
  <2>2. CASE Accounts!Poll
    BY <2>2, FeedAside DEF Accounts!Poll, Accounts!foundation, Accounts!store
  <2>3. CASE Accounts!Advance
    BY <1>2, <2>3, FeedConsumes
  <2>4. ASSUME NEW r \in Round, Accounts!Announce(r)
        PROVE  [AccountFeed(a)!Next]_(AccountFeed(a)!vars)
    BY <1>2, <2>4, FeedPublishes
  <2>5. ASSUME NEW reachable \in BOOLEAN, Accounts!Walk(reachable)
        PROVE  [AccountFeed(a)!Next]_(AccountFeed(a)!vars)
    BY <1>2, <2>5, FeedDelivers
  <2>6. Accounts!TypeOK
    BY <1>2 DEF AccountsIInv, AccountsInv
  <2> QED BY <2>1, <2>2, <2>3, <2>4, <2>5, <2>6, MostStepAside
<1> QED BY <1>1, <1>2, AccountsInvariance, PTL DEF AccountsSpec, Accounts!Spec, ImplementsFeeds
==============================================================================
