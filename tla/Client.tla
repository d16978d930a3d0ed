-------------------------------- MODULE Client --------------------------------
(***************************************************************************)
(* The TypeScript client and the scripts that trade with it, against the   *)
(* part of the program that they race for: one owner's open orders         *)
(* accounts and the OpenOrdersIndexer that lists them.                     *)
(*                                                                         *)
(* An attempt is one execution of a script: it looks for an account of its *)
(* market, creates one if it finds none, and places an order.  Every read  *)
(* is a call of its own and may fail, which the client takes for "there is *)
(* nothing".  A transaction that was sent lands at any moment while its    *)
(* blockhash is valid, or never; its instructions succeed together or not  *)
(* at all.  A script may stop anywhere, and is then executed again: that   *)
(* is another attempt.                                                     *)
(***************************************************************************)
EXTENDS Integers, Sequences, FiniteSets, SequencesExt

CONSTANTS
  Attempts, Markets,
  NoMarket,    \* of an account that does not exist
  MarketOf,    \* the market an attempt trades in
  Validity,    \* for how many blocks a blockhash is valid
  MaxAccounts, \* how many accounts an indexer lists (256 in the program)
  MaxCounter   \* bound of the model: accounts created since the indexer was

ASSUME ClientAssumption ==
  /\ MarketOf \in [Attempts -> Markets] /\ NoMarket \notin Markets
  /\ Validity \in Nat /\ MaxCounter \in Nat \ {0} /\ MaxAccounts \in Nat \ {0}

VARIABLES
  indexer, \* [exists, created_counter, addresses]
  account, \* by index: the market and the attempts whose orders it holds
  pc, todo, found, \* of an attempt: where it is, the accounts to read, those of its market
  tx,      \* of an attempt: the transaction it prepares or has sent last
  left     \* of an attempt: for how many more blocks its transaction can land

scriptVars == <<pc, todo, found>>
chainVars == <<indexer, account>>
vars == <<indexer, account, pc, todo, found, tx, left>>

\* An account's address is derived from its owner and its index.
Index == 1..MaxCounter
NoAccount == [market |-> NoMarket, orders |-> {}]
NoIndexer == [exists |-> FALSE, created_counter |-> 0, addresses |-> <<>>]
NewIndexer == [NoIndexer EXCEPT !.exists = TRUE]
NoTx == [kind |-> "none", withIndexer |-> FALSE, index |-> 1, status |-> "unsent"]

Init ==
  /\ indexer = NoIndexer
  /\ account = [i \in Index |-> NoAccount]
  /\ pc = [a \in Attempts |-> "start"]
  /\ todo = [a \in Attempts |-> <<>>]
  /\ found = [a \in Attempts |-> <<>>]
  /\ tx = [a \in Attempts |-> NoTx]
  /\ left = [a \in Attempts |-> -1]

Exists(i) == account[i].market # NoMarket

-----------------------------------------------------------------------------
(* The script, up to the transaction.                                      *)

FindAllOpenOrders(a) ==
  /\ pc[a] = "start"
  /\ \E addresses \in {indexer.addresses, <<>>} : todo' = [todo EXCEPT ![a] = addresses]
  /\ pc' = [pc EXCEPT ![a] = "reading"]
  /\ UNCHANGED <<found, tx, left, chainVars>>

\* findOpenOrdersForMarket reads the accounts one after the other.
ReadOpenOrders(a) ==
  /\ pc[a] = "reading" /\ todo[a] # <<>>
  /\ \E markets \in {{account[Head(todo[a])].market}, {}} :
       found' = [found EXCEPT ![a] = IF MarketOf[a] \in markets
                                     THEN Append(@, Head(todo[a])) ELSE @]
  /\ todo' = [todo EXCEPT ![a] = Tail(@)]
  /\ UNCHANGED <<pc, tx, left, chainVars>>

AllRead(a) == pc[a] = "reading" /\ todo[a] = <<>>
Prepare(a, kind, withIndexer, i) ==
  /\ pc' = [pc EXCEPT ![a] = "prepared"]
  /\ tx' = [tx EXCEPT ![a] = [kind |-> kind, withIndexer |-> withIndexer, index |-> i,
                              status |-> "unsent"]]
PlaceIn(a, i) == Prepare(a, "order", FALSE, i)

UseFound(a) ==
  /\ AllRead(a) /\ found[a] # <<>>
  /\ PlaceIn(a, Head(found[a]))
  /\ UNCHANGED <<todo, found, left, chainVars>>

IndexFromZero(a) == Len(indexer.addresses) \* mutant: accounts counted from 0
NextIndex(a) == Len(indexer.addresses) + 1 \* mutant: the next one that looks free
AccountIndex(a) == 1 \* the index that every script passes to createOpenOrders
\* createOpenOrders: one transaction, with the indexer if that seems to be missing.
CreateOpenOrders(a) ==
  /\ AllRead(a) /\ found[a] = <<>>
  /\ \E withIndexer \in {~indexer.exists, TRUE} :
       Prepare(a, "create", withIndexer, AccountIndex(a))
  /\ UNCHANGED <<todo, found, left, chainVars>>

-----------------------------------------------------------------------------
(* sendTransaction.                                                        *)

GetLatestBlockhash(a) ==
  /\ pc[a] = "prepared"
  /\ pc' = [pc EXCEPT ![a] = "signing"]
  /\ left' = [left EXCEPT ![a] = Validity]
  /\ UNCHANGED <<todo, found, tx, chainVars>>

Sent(a) == tx' = [tx EXCEPT ![a].status = "pending"]
SendRawTransaction(a) ==
  /\ pc[a] = "signing"
  /\ pc' = [pc EXCEPT ![a] = "sent"]
  /\ Sent(a)
  /\ UNCHANGED <<todo, found, left, chainVars>>

ConfirmUntilLast(a) == left[a] <= 0 \* mutant: gives up in the last block in which it can land
ConfirmForEver(a) == FALSE \* mutant: asks for the status alone
\* confirmTransaction ends with a status it is told, or when the block height has
\* passed lastValidBlockHeight, whichever it learns first: a transaction that landed
\* may be reported as expired.
BlockHeightExceeded(a) == left[a] < 0

Report(a, report) ==
  /\ pc' = [pc EXCEPT ![a] = report]
  /\ UNCHANGED tx
ConfirmTransaction(a) ==
  /\ pc[a] = "sent"
  /\ \/ tx[a].status = "ok" /\ tx[a].kind = "create" /\ PlaceIn(a, tx[a].index)
     \/ tx[a].status = "ok" /\ tx[a].kind = "order" /\ Report(a, "done")
     \/ tx[a].status = "err" /\ Report(a, "rejected")
     \/ BlockHeightExceeded(a) /\ Report(a, "expired")
  /\ UNCHANGED <<todo, found, left, chainVars>>

\* The script stops, or an error that says nothing of the transaction stops it:
\* sendRawTransaction may fail and the transaction be under way.
Lost(a) ==
  /\ pc[a] \notin {"done", "rejected", "expired", "lost"}
  /\ pc' = [pc EXCEPT ![a] = "lost"]
  /\ UNCHANGED tx \/ (pc[a] = "signing" /\ Sent(a))
  /\ UNCHANGED <<todo, found, left, chainVars>>

-----------------------------------------------------------------------------
(* The chain: create_open_orders_indexer, create_open_orders_account and   *)
(* place_order as they come in transactions.                               *)

NewBlock ==
  /\ \E a \in Attempts : left[a] >= 0
  /\ left' = [a \in Attempts |-> IF left[a] >= 0 THEN left[a] - 1 ELSE -1]
  /\ UNCHANGED <<scriptVars, tx, chainVars>>

\* The account's address must be the one derived from the next index.
MayCreate(from, i) ==
  /\ from.exists /\ Len(from.addresses) < MaxAccounts
  /\ i = from.created_counter + 1 /\ ~Exists(i)
CreateAccount(from, i, m) ==
  /\ indexer' = [from EXCEPT !.created_counter = i, !.addresses = Append(@, i)]
  /\ account' = [account EXCEPT ![i].market = m]

Land(a, result) ==
  /\ tx[a].status = "pending" /\ left[a] >= 0
  /\ tx' = [tx EXCEPT ![a].status = result]
  /\ UNCHANGED <<scriptVars, left>>

LandCreate(a) ==
  LET from == IF tx[a].withIndexer THEN NewIndexer ELSE indexer
      fits == ~(tx[a].withIndexer /\ indexer.exists) /\ MayCreate(from, tx[a].index)
  IN  /\ tx[a].kind = "create"
      /\ \/ fits /\ Land(a, "ok") /\ CreateAccount(from, tx[a].index, MarketOf[a])
         \/ ~fits /\ Land(a, "err") /\ UNCHANGED chainVars

AccountExists(a) == Exists(tx[a].index) \* mutant: no has_one = market
AccountMatches(a) == account[tx[a].index].market = MarketOf[a]
LandOrder(a) ==
  /\ tx[a].kind = "order"
  /\ \/ /\ AccountMatches(a)
        /\ Land(a, "ok")
        /\ account' = [account EXCEPT ![tx[a].index].orders = @ \cup {a}]
     \/ ~AccountMatches(a) /\ Land(a, "err") /\ UNCHANGED account
  /\ UNCHANGED indexer

-----------------------------------------------------------------------------
(* What the owner does besides, with any other tool.                       *)

ByOwner == UNCHANGED <<scriptVars, tx, left>>

CreateOpenOrdersIndexer ==
  /\ ~indexer.exists
  /\ indexer' = NewIndexer
  /\ UNCHANGED account /\ ByOwner

\* An account for a market in which there is none.
OwnerCreates(m) ==
  /\ indexer.created_counter < MaxCounter
  /\ \A i \in Index : account[i].market # m
  /\ MayCreate(indexer, indexer.created_counter + 1)
  /\ CreateAccount(indexer, indexer.created_counter + 1, m)
  /\ ByOwner

CancelOrders(i) ==
  /\ account[i].orders # {}
  /\ account' = [account EXCEPT ![i].orders = {}]
  /\ UNCHANGED indexer /\ ByOwner

RemoveLast(k) == \* mutant: the last one goes
  SubSeq(indexer.addresses, 1, Len(indexer.addresses) - 1)
RemoveAddress(k) == RemoveAt(indexer.addresses, k)
CloseOpenOrdersAccount(i) ==
  /\ Exists(i) /\ account[i].orders = {}
  /\ account' = [account EXCEPT ![i] = NoAccount]
  /\ \E k \in DOMAIN indexer.addresses :
       /\ indexer.addresses[k] = i
       /\ indexer' = [indexer EXCEPT !.addresses = RemoveAddress(k)]
  /\ ByOwner

CloseOpenOrdersIndexer ==
  /\ indexer.exists /\ indexer.addresses = <<>>
  /\ indexer' = NoIndexer
  /\ UNCHANGED account /\ ByOwner

-----------------------------------------------------------------------------
Script(a) ==
  \/ FindAllOpenOrders(a) \/ ReadOpenOrders(a) \/ UseFound(a) \/ CreateOpenOrders(a)
  \/ GetLatestBlockhash(a) \/ SendRawTransaction(a) \/ ConfirmTransaction(a)

Next ==
  \/ \E a \in Attempts : Script(a) \/ Lost(a) \/ LandCreate(a) \/ LandOrder(a)
  \/ NewBlock
  \/ \E m \in Markets : OwnerCreates(m)
  \/ \E i \in Index : CancelOrders(i) \/ CloseOpenOrdersAccount(i)
  \/ CreateOpenOrdersIndexer \/ CloseOpenOrdersIndexer

\* A script goes on until it ends, and blocks are produced; no transaction needs
\* to land.
Fairness == WF_vars(NewBlock) /\ \A a \in Attempts : WF_vars(Script(a))
Spec == Init /\ [][Next]_vars /\ Fairness

-----------------------------------------------------------------------------
(* Properties.                                                             *)

Pc == {"start", "reading", "prepared", "signing", "sent", "done", "rejected", "expired", "lost"}
Reported == {"done", "rejected", "expired"}
Ended == Reported \cup {"lost"}

(* The values of the state.                                                *)
TypeOK ==
  /\ indexer \in [exists : BOOLEAN, created_counter : 0..MaxCounter, addresses : Seq(Index)]
  /\ account \in [Index -> [market : Markets \cup {NoMarket}, orders : SUBSET Attempts]]
  /\ pc \in [Attempts -> Pc]
  /\ todo \in [Attempts -> Seq(Index)] /\ found \in [Attempts -> Seq(Index)]
  /\ tx \in [Attempts -> [kind : {"none", "create", "order"}, withIndexer : BOOLEAN,
                          index : Index, status : {"unsent", "pending", "ok", "err"}]]
  /\ left \in [Attempts -> -1..Validity]

(* The indexer lists each account that exists once and no other, so that   *)
(* no account is out of reach of findAllOpenOrders, even after accounts and *)
(* the indexer itself were closed and created again at the same addresses. *)
IndexerExact ==
  /\ Len(indexer.addresses) = Cardinality({i \in Index : Exists(i)})
  /\ \A i \in Index :
       Exists(i) => \E k \in DOMAIN indexer.addresses : indexer.addresses[k] = i

(* Scripts that run at the same time, or read too early, or whose reads    *)
(* fail, never give their owner two accounts in one market.                *)
OneAccountPerMarket ==
  \A i, j \in Index : Exists(i) /\ account[i].market = account[j].market => i = j

(* An order is only ever placed through an account of the market it is     *)
(* meant for, also when the account was closed and another one created at  *)
(* its address while the transaction was under way.                        *)
OrdersInTheirMarket ==
  \A i \in Index, a \in Attempts : a \in account[i].orders => account[i].market = MarketOf[a]

(* A script's report is final: after it the transaction does not land any   *)
(* more, so that whoever looks the chain up once after the report knows     *)
(* whether the order is placed, and one reported as rejected never is.  (A   *)
(* report of expiry does not say that the order is not placed already.)     *)
ReportIsFinal ==
  [][\A a \in Attempts : pc[a] \in Reported =>
       /\ tx'[a] = tx[a]
       /\ \A i \in Index : a \in account'[i].orders =>
            a \in account[i].orders /\ pc[a] # "rejected"]_vars

(* Every script ends with a report, whatever becomes of its transactions.  *)
EveryScriptEnds == \A a \in Attempts : pc[a] = "start" ~> pc[a] \in Ended
=============================================================================
