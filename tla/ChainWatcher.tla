----------------------------- MODULE ChainWatcher -----------------------------
(***************************************************************************)
(* PftlAccountWatcher (chain.py) and the walk that consumes it             *)
(* (participate.py): the publisher's account_tx history is read page by    *)
(* page from the ledger of the stored cursor, filtered for the publisher's *)
(* own transactions, cut at the cursor and handled one by one, each        *)
(* followed by a cursor write.  The node closes and prunes ledgers all the *)
(* while, and the pass may end at any point.  One pass walks at a time: it *)
(* holds the sidecar lock.                                                 *)
(*                                                                         *)
(* A transaction is its index in the account's history; the code compares  *)
(* transaction hashes only for equality.                                   *)
(***************************************************************************)
EXTENDS Integers, Sequences

CONSTANTS
    MaxPrunedRetries,  \* MAX_PRUNED_LEDGER_RETRIES
    MaxLedger,         \* bound: ledgers closed in a run
    MaxPerLedger,      \* bound: transactions of the account in one ledger
    MaxFaults          \* bound: passes that end early in a run

ASSUME WatcherAssumption == /\ MaxPrunedRetries \in Nat
                            /\ MaxLedger \in Nat
                            /\ MaxPerLedger \in Nat
                            /\ MaxFaults \in Nat

VARIABLES
    log,        \* validated transactions of the account, in order
    latest,     \* latest validated ledger
    floor,      \* earliest ledger the node still retains
    cursor,     \* the stored cursor
    pc,         \* the pass: idle, or its place in poll() and the walk
    min,        \* ledger_index_min of the request
    marker,     \* the next page's first transaction, one past those fetched
    entries,    \* transactions fetched so far
    retries,    \* pruned-ledger errors of this poll
    todo,       \* polled transactions not yet passed
    handled,    \* transactions ever handled: a history, no code reads it
    faults

nodeVars == <<log, latest, floor>>
pollVars == <<min, marker, entries, retries>>
vars == <<nodeVars, cursor, pc, pollVars, todo, handled, faults>>

\* VALIDATED_LEDGER_INDEX: the whole retained history.
Earliest == -1

\* No cursor row: a first poll asks for the whole history and drops nothing.
NoCursor == [ledger |-> Earliest, tx |-> 0]

Transactions == [ledger : Nat, trusted : BOOLEAN]

TypeOK == /\ log \in Seq(Transactions)
          /\ latest \in Nat
          /\ floor \in Nat
          /\ cursor \in [ledger : Nat \cup {Earliest}, tx : Nat]
          /\ pc \in {"idle", "page", "clamp", "filter", "walk", "advance"}
          /\ min \in Nat \cup {Earliest}
          /\ marker \in Nat
          /\ entries \subseteq Nat
          /\ retries \in Nat
          /\ todo \subseteq Nat
          /\ handled \subseteq Nat
          /\ faults \in Nat

Init == /\ log = <<>>
        /\ latest = 0
        /\ floor = 0
        /\ cursor = NoCursor
        /\ pc = "idle"
        /\ min = Earliest
        /\ marker = 1
        /\ entries = {}
        /\ retries = 0
        /\ todo = {}
        /\ handled = {}
        /\ faults = 0

-----------------------------------------------------------------------------
(* poll().                                                                 *)

\* The locals of poll() and of the walk are gone.
EndPoll == min' = Earliest /\ marker' = 1 /\ entries' = {} /\ retries' = 0

EndPass == EndPoll /\ pc' = "idle" /\ todo' = {}

\* A request from the first page on.
StartPages(from) == /\ pc' = "page"
                    /\ min' = from
                    /\ marker' = 1
                    /\ entries' = {}

BeginPoll == /\ pc = "idle"
             /\ StartPages(cursor.ledger)
             /\ UNCHANGED <<nodeVars, cursor, retries, todo, handled, faults>>

\* lgrIdxMalformed: the lower bound is below the retained history.
Pruned == min # Earliest /\ min < floor

\* What the node still has for the request, from the marker on.
Available == {i \in marker .. Len(log) : log[i].ledger >= min /\ log[i].ledger >= floor}

\* Mutant: the marker counts the page's last transaction as the next one's.
AfterSkipping(last) == last + 2

After(last) == last + 1

\* A page that is not the last; the limit is the node's to lower.
FetchPage == /\ pc = "page" /\ ~ Pruned
             /\ \E last \in Available :
                   /\ \E i \in Available : i > last
                   /\ entries' = entries \cup {i \in Available : i <= last}
                   /\ marker' = After(last)
             /\ UNCHANGED <<nodeVars, cursor, pc, min, retries, todo, handled, faults>>

\* The page without a marker.
FetchLastPage == /\ pc = "page" /\ ~ Pruned
                 /\ entries' = entries \cup Available
                 /\ marker' = Len(log) + 1
                 /\ pc' = "filter"
                 /\ UNCHANGED <<nodeVars, cursor, min, retries, todo, handled, faults>>

\* The pages fetched so far are dropped, and a bounded number of retries starts
\* at the floor the node reports.
PrunedError == /\ pc = "page" /\ Pruned
               /\ retries < MaxPrunedRetries
               /\ pc' = "clamp"
               /\ retries' = retries + 1
               /\ UNCHANGED <<nodeVars, cursor, min, marker, entries, todo, handled, faults>>

GiveUp == /\ pc = "page" /\ Pruned
          /\ retries = MaxPrunedRetries
          /\ EndPass
          /\ UNCHANGED <<nodeVars, cursor, handled, faults>>

Larger(a, b) == IF a >= b THEN a ELSE b

ClampFloor == /\ pc = "clamp"
              /\ StartPages(Larger(floor, min + 1))
              /\ UNCHANGED <<nodeVars, cursor, retries, todo, handled, faults>>

Trusted == {i \in entries : log[i].trusted}

\* Transactions of the cursor's ledger that the poll returned.
Boundary == {i \in Trusted : log[i].ledger = cursor.ledger}

\* The cursor's ledger came back without the cursor's transaction.
CursorMissing == Boundary # {} /\ cursor.tx \notin Boundary

\* Mutant: nothing of the boundary ledger.
AfterCursorLedger == {i \in Trusted : log[i].ledger > cursor.ledger}

\* Later ledgers, and in the cursor's own what follows its transaction.
AfterCursor == {i \in Trusted : \/ log[i].ledger > cursor.ledger
                                \/ i \in Boundary /\ i > cursor.tx}

\* The code raises if the cursor is missing, and the pass ends.
FilterPolled == /\ pc = "filter"
                /\ IF CursorMissing
                   THEN EndPass
                   ELSE EndPoll /\ pc' = "walk" /\ todo' = AfterCursor
                /\ UNCHANGED <<nodeVars, cursor, handled, faults>>

-----------------------------------------------------------------------------
(* The walk.                                                               *)

First(i) == i \in todo /\ \A j \in todo : i <= j

\* Windows recorded, announcement rejected, or no announcement at all.
HandleTransaction(i) == /\ pc = "walk" /\ First(i)
                        /\ handled' = handled \cup {i}
                        /\ pc' = "advance"
                        /\ UNCHANGED <<nodeVars, cursor, pollVars, todo, faults>>

AdvanceCursor(i) == /\ pc = "advance" /\ First(i)
                    /\ cursor' = [ledger |-> log[i].ledger, tx |-> i]
                    /\ todo' = todo \ {i}
                    /\ pc' = "walk"
                    /\ UNCHANGED <<nodeVars, pollVars, handled, faults>>

EndWalk == /\ pc = "walk" /\ todo = {}
           /\ EndPass
           /\ UNCHANGED <<nodeVars, cursor, handled, faults>>

\* The foundation is unreachable, an RPC fails, a page is malformed, or the pass
\* is killed: the cursor stays.
Interrupt == /\ pc # "idle"
             /\ faults < MaxFaults
             /\ faults' = faults + 1
             /\ EndPass
             /\ UNCHANGED <<nodeVars, cursor, handled>>

Walk == \/ BeginPoll
        \/ FetchPage
        \/ FetchLastPage
        \/ PrunedError
        \/ GiveUp
        \/ ClampFloor
        \/ FilterPolled
        \/ \E i \in todo : HandleTransaction(i) \/ AdvanceCursor(i)
        \/ EndWalk

-----------------------------------------------------------------------------
(* The node.                                                               *)

\* A ledger is validated with n transactions of the account, some its own.
CloseLedger == /\ latest < MaxLedger
               /\ latest' = latest + 1
               /\ \E n \in 0 .. MaxPerLedger : \E own \in [1 .. n -> BOOLEAN] :
                     log' = log \o [k \in 1 .. n |-> [ledger  |-> latest + 1,
                                                      trusted |-> own[k]]]
               /\ UNCHANGED <<floor, cursor, pc, pollVars, todo, handled, faults>>

PruneLedger == /\ floor < latest
               /\ floor' = floor + 1
               /\ UNCHANGED <<log, latest, cursor, pc, pollVars, todo, handled, faults>>

Next == Walk \/ Interrupt \/ CloseLedger \/ PruneLedger

Spec == Init /\ [][Next]_vars

\* Passes follow one another, and each goes on unless it is interrupted.
FairSpec == Spec /\ WF_vars(Walk)

-----------------------------------------------------------------------------
(* Properties.                                                             *)

\* The node has pruned transaction i.
Lost(i) == i <= Len(log) /\ log[i].ledger < floor

\* At-least-once delivery: a transaction of the publisher that the cursor has
\* passed was handled, unless the node had pruned its ledger.
NothingSkipped ==
    \A i \in 1 .. Len(log) : log[i].trusted /\ i <= cursor.tx =>
        i \in handled \/ Lost(i)

\* The cursor's transaction is found whenever its ledger is returned: with a node
\* that prunes from below only, the loud failure of _after_cursor never happens,
\* however pages, prunings and retries interleave.
CursorIsFound == pc = "filter" => ~ CursorMissing

\* The cursor never moves back, also when a crashed walk is repeated.
CursorMovesForward == [][cursor' # cursor => cursor'.tx > cursor.tx]_vars

\* Every transaction of the publisher is handled in the end, or pruned first.
EachHandledOrPruned ==
    \A i \in 1 .. MaxLedger * MaxPerLedger :
        (i <= Len(log) /\ log[i].trusted) ~> (i \in handled \/ Lost(i))

Feed == INSTANCE AnnouncementFeed
        WITH lost <- {i \in 1 .. Len(log) : Lost(i)},
             position <- cursor.tx

\* The walk consumes an AnnouncementFeed: in order, at least once, no gaps.
ImplementsFeed == Feed!Init /\ [][Feed!Next]_(Feed!vars)

-----------------------------------------------------------------------------
(* The inductive invariant.                                                *)

LogOK == /\ floor <= latest
         /\ \A i \in 1 .. Len(log) : log[i].ledger <= latest
         /\ \A i, j \in 1 .. Len(log) : i <= j => log[i].ledger <= log[j].ledger

CursorOK == \/ cursor = NoCursor
            \/ /\ cursor.tx \in 1 .. Len(log)
               /\ cursor.ledger = log[cursor.tx].ledger
               /\ log[cursor.tx].trusted

\* Below the request's lower bound only pruned transactions are outstanding.
RequestOK == /\ cursor.ledger <= min
             /\ \A i \in cursor.tx + 1 .. Len(log) : log[i].ledger < min => Lost(i)

\* What the request asks for has been fetched up to the marker; a transaction
\* pruned before it was fetched can only miss from an unbounded request.
PagesOK == /\ marker \in 1 .. Len(log) + 1
           /\ entries \subseteq 1 .. marker - 1
           /\ \A i \in entries : log[i].ledger >= min
           /\ \A i \in 1 .. marker - 1 : log[i].ledger >= min =>
                 i \in entries \/ (min = Earliest /\ Lost(i))

PollOK == /\ pc \in {"page", "clamp", "filter"} => RequestOK /\ min <= latest
          /\ pc \in {"page", "filter"} => PagesOK
          /\ pc = "clamp" => Pruned
          /\ pc = "filter" => cursor.tx < marker

\* The walk's transactions are the next ones: none between the cursor and them
\* is left out unless it was pruned.
TodoOK == /\ todo \subseteq {i \in cursor.tx + 1 .. Len(log) : log[i].trusted}
          /\ pc \notin {"walk", "advance"} => todo = {}
          /\ \A i \in cursor.tx + 1 .. Len(log) : \A j \in todo :
                i < j /\ log[i].trusted => i \in todo \/ Lost(i)
          /\ pc = "advance" => \E i \in todo : First(i) /\ i \in handled

IInv == /\ TypeOK
        /\ LogOK
        /\ CursorOK
        /\ PollOK
        /\ TodoOK
        /\ NothingSkipped
=============================================================================
