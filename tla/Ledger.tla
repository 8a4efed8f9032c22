-------------------------------- MODULE Ledger --------------------------------
(***************************************************************************)
(* The PFTL chain as the sidecar uses it (chain.py): transactions of the   *)
(* operator's relay wallet to the foundation publisher's account, the      *)
(* close time of the latest validated ledger, and the account_tx scan.     *)
(* A transaction is broadcast into the pool, from where it lands in a      *)
(* validated ledger or expires; the client that sent it may be gone by     *)
(* then.                                                                   *)
(***************************************************************************)
EXTENDS RoundStore

CONSTANT MaxTime      \* bound: the last close time of a run

ASSUME TimeAssumption == MaxTime \in Nat

VARIABLES
    now,        \* close time of the latest validated ledger
    sent,       \* every transaction ever broadcast: a history, no code reads it
    pool,       \* own transactions broadcast and still in flight
    ledger,     \* own transactions validated, with their close time
    buried,     \* ids of validated ones beyond the scan's 200 newest entries
    nextTx      \* the next transaction id; 0 is no transaction

chainVars == <<now, sent, pool, ledger, buried, nextTx>>

\* A commit's body is the commitment hash, a reveal's body the outputs and the
\* salt that open it; sent_at is a history field, no code reads it.
Transactions == [kind : {"commit", "reveal"}, round : Rounds,
                 body : Commitments, id : Nat \ {0}, sent_at : Nat]

Entries == [tx : Transactions, at : Nat]

LedgerTypeOK == /\ now \in Nat
                /\ sent \subseteq Transactions
                /\ pool \subseteq Transactions
                /\ ledger \subseteq Entries
                /\ buried \subseteq Nat
                /\ nextTx \in Nat \ {0}

LedgerInit == /\ now = 0
              /\ sent = {}
              /\ pool = {}
              /\ ledger = {}
              /\ buried = {}
              /\ nextTx = 1

MemoTx(kind, round, body) ==
    [kind |-> kind, round |-> round, body |-> body, id |-> nextTx, sent_at |-> now]

\* submit_memo up to the broadcast.
submit_memo(tx) == /\ sent' = sent \cup {tx}
                   /\ pool' = pool \cup {tx}
                   /\ nextTx' = nextTx + 1
                   /\ UNCHANGED <<now, ledger, buried>>

\* Mutant: submit instead of submit_and_wait.
LandedOnSubmit(tx) == tx \in sent

Landed(tx) == \E e \in ledger : e.tx = tx

\* find_authored_memo: the entries of this round within the scan limit; the
\* validator, network and input hash it matches on are the round's own.
Authored(kind, round) ==
    {e \in ledger : /\ e.tx.kind = kind
                    /\ e.tx.round = round
                    /\ e.tx.id \notin buried}

MostRecent(entries) == {e \in entries : \A f \in entries : f.at <= e.at}

-----------------------------------------------------------------------------
(* The network.                                                            *)

\* A later ledger is validated.
Tick == /\ now < MaxTime
        /\ now' = now + 1
        /\ UNCHANGED <<sent, pool, ledger, buried, nextTx>>

\* A transaction in flight is validated, whether or not its sender still waits.
Land(tx) == /\ pool' = pool \ {tx}
            /\ ledger' = ledger \cup {[tx |-> tx, at |-> now]}
            /\ UNCHANGED <<now, sent, buried, nextTx>>

\* A transaction in flight misses its last ledger sequence or is rejected.
Expire(tx) == /\ pool' = pool \ {tx}
              /\ UNCHANGED <<now, sent, ledger, buried, nextTx>>

\* More recent traffic of the publisher's account pushes an entry, and with it
\* every older one, beyond the scan limit.
Bury(e) == /\ e.tx.id \notin buried
           /\ buried' = buried \cup {f.tx.id : f \in {g \in ledger : g.at <= e.at}}
           /\ UNCHANGED <<now, sent, pool, ledger, nextTx>>
=============================================================================
