----------------------------- MODULE ClientProofs -----------------------------
(***************************************************************************)
(* What holds of the scripts and the accounts they use for any number of   *)
(* attempts, markets and accounts and any validity of a blockhash.         *)
(***************************************************************************)
EXTENDS Client, FiniteSetTheorems, TLAPS

-----------------------------------------------------------------------------
(* Orders reach accounts of their own market.  An account that does not    *)
(* exist holds no orders, so that one created in its place starts empty.   *)
OrdersInv ==
  /\ account \in [Index -> [market : Markets \cup {NoMarket}, orders : SUBSET Attempts]]
  /\ \A i \in Index : ~Exists(i) => account[i].orders = {}
  /\ OrdersInTheirMarket

LEMMA OrdersInit == Init => OrdersInv
BY DEF Init, OrdersInv, NoAccount, OrdersInTheirMarket

\* An account is created where there is none.
LEMMA OrdersCreate ==
  ASSUME OrdersInv, NEW from, NEW i, NEW m \in Markets, MayCreate(from, i), CreateAccount(from, i, m)
  PROVE  OrdersInv'
<1>1. CASE i \in Index
  <2>1. account[i].orders = {}
    BY <1>1 DEF OrdersInv, MayCreate
  <2>2. account' = [account EXCEPT ![i].market = m]
    BY DEF CreateAccount
  <2>3. account' \in [Index -> [market : Markets \cup {NoMarket}, orders : SUBSET Attempts]]
    BY <1>1, <2>2 DEF OrdersInv
  <2>4. \A j \in Index : account'[j].orders = account[j].orders
                         /\ (j # i => account'[j].market = account[j].market)
    BY <1>1, <2>2 DEF OrdersInv
  <2>5. account'[i].market = m
    BY <1>1, <2>2 DEF OrdersInv
  <2> QED
    BY <2>1, <2>3, <2>4, <2>5, ClientAssumption DEF OrdersInv, OrdersInTheirMarket, Exists
<1>2. CASE i \notin Index
  BY <1>2 DEF OrdersInv, OrdersInTheirMarket, Exists, CreateAccount
<1> QED
  BY <1>1, <1>2

LEMMA OrdersNext == OrdersInv /\ [Next]_vars => OrdersInv'
<1> SUFFICES ASSUME OrdersInv, [Next]_vars PROVE OrdersInv'
  OBVIOUS
<1>1. CASE UNCHANGED account
  BY <1>1 DEF OrdersInv, OrdersInTheirMarket, Exists
<1>2. ASSUME NEW a \in Attempts, Script(a) \/ Lost(a) PROVE UNCHANGED account
  BY <1>2 DEF Script, Lost, FindAllOpenOrders, ReadOpenOrders, UseFound, CreateOpenOrders,
              GetLatestBlockhash, SendRawTransaction, ConfirmTransaction, chainVars
<1>3. ASSUME NEW a \in Attempts, LandCreate(a) PROVE OrdersInv'
  <2>1. MarketOf[a] \in Markets
    BY ClientAssumption
  <2> QED
    BY <1>1, <1>3, <2>1, OrdersCreate DEF LandCreate, chainVars
<1>4. ASSUME NEW a \in Attempts, LandOrder(a) PROVE OrdersInv'
  <2>1. CASE UNCHANGED account
    BY <1>1, <2>1
  <2>2. CASE AccountMatches(a) /\ account' = [account EXCEPT ![tx[a].index].orders = @ \cup {a}]
    <3>1. CASE tx[a].index \in Index
      <4>1. account' \in [Index -> [market : Markets \cup {NoMarket}, orders : SUBSET Attempts]]
        BY <2>2, <3>1 DEF OrdersInv
      <4>2. \A j \in Index : account'[j].market = account[j].market
        BY <2>2, <3>1 DEF OrdersInv
      <4>3. \A j \in Index : account'[j].orders
                             = IF j = tx[a].index THEN account[j].orders \cup {a} ELSE account[j].orders
        BY <2>2, <3>1 DEF OrdersInv
      <4>4. account[tx[a].index].market = MarketOf[a] /\ MarketOf[a] # NoMarket
        BY <2>2, ClientAssumption DEF AccountMatches
      <4>5. \A j \in Index : account'[j].market = NoMarket => account'[j].orders = {}
        BY <4>2, <4>3, <4>4 DEF OrdersInv, Exists
      <4>6. \A j \in Index, b \in Attempts :
              b \in account'[j].orders => account'[j].market = MarketOf[b]
        <5> TAKE j \in Index, b \in Attempts
        <5>1. HAVE b \in account'[j].orders
        <5>2. CASE b \in account[j].orders
          BY <4>2, <5>2 DEF OrdersInv, OrdersInTheirMarket
        <5>3. CASE j = tx[a].index /\ b = a
          BY <4>2, <4>4, <5>3
        <5>4. b \in account[j].orders \/ (j = tx[a].index /\ b = a)
          BY <4>3, <5>1
        <5> QED
          BY <5>2, <5>3, <5>4
      <4> QED
        BY <4>1, <4>5, <4>6 DEF OrdersInv, OrdersInTheirMarket, Exists
    <3>2. CASE tx[a].index \notin Index
      BY <1>1, <2>2, <3>2 DEF OrdersInv
    <3> QED
      BY <3>1, <3>2
  <2> QED
    BY <1>4, <2>1, <2>2 DEF LandOrder
<1>5. ASSUME NEW m \in Markets, OwnerCreates(m) PROVE OrdersInv'
  BY <1>5, OrdersCreate DEF OwnerCreates
<1>6. ASSUME NEW i \in Index, CancelOrders(i) PROVE OrdersInv'
  BY <1>6 DEF CancelOrders, OrdersInv, OrdersInTheirMarket, Exists
<1>7. ASSUME NEW i \in Index, CloseOpenOrdersAccount(i) PROVE OrdersInv'
  BY <1>7, ClientAssumption
  DEF CloseOpenOrdersAccount, OrdersInv, OrdersInTheirMarket, Exists, NoAccount
<1>8. ASSUME NewBlock \/ CreateOpenOrdersIndexer \/ CloseOpenOrdersIndexer \/ UNCHANGED vars
      PROVE  UNCHANGED account
  BY <1>8 DEF NewBlock, CreateOpenOrdersIndexer, CloseOpenOrdersIndexer, vars, chainVars
<1> QED
  BY <1>1, <1>2, <1>3, <1>4, <1>5, <1>6, <1>7, <1>8 DEF Next

(* Whatever is closed and created while an order is under way, the order   *)
(* lands in an account of its market or nowhere.                           *)
THEOREM OrdersMarket == Spec => []OrdersInTheirMarket
<1>1. OrdersInv => OrdersInTheirMarket
  BY DEF OrdersInv
<1> QED
  BY <1>1, OrdersInit, OrdersNext, PTL DEF Spec

-----------------------------------------------------------------------------
(* The values of the state.  What is appended to or taken from a sequence  *)
(* is an index, and an index that an account is created at is one that a   *)
(* transaction named or the owner's counter reached.                       *)

\* What a list is after one of its places is removed.
LEMMA RemoveAtPlace ==
  ASSUME NEW S, NEW s \in Seq(S), NEW k \in DOMAIN s
  PROVE  /\ RemoveAt(s, k) \in Seq(S)
         /\ Len(RemoveAt(s, k)) = Len(s) - 1
         /\ \A n \in 1..(Len(s) - 1) : RemoveAt(s, k)[n] = IF n < k THEN s[n] ELSE s[n + 1]
<1> DEFINE before == SubSeq(s, 1, k - 1)
           after == SubSeq(s, k + 1, Len(s))
<1>1. k \in 1..Len(s) /\ Len(s) \in Nat
  OBVIOUS
<1>2. before \in Seq(S) /\ Len(before) = k - 1 /\ \A n \in 1..(k - 1) : before[n] = s[n]
  BY <1>1
<1>3. after \in Seq(S) /\ Len(after) = Len(s) - k
      /\ \A n \in 1..(Len(s) - k) : after[n] = s[n + k]
  BY <1>1
<1>4. RemoveAt(s, k) = before \o after
  BY DEF RemoveAt
<1> HIDE DEF before, after
<1>5. RemoveAt(s, k) \in Seq(S) /\ Len(RemoveAt(s, k)) = Len(s) - 1
  BY <1>1, <1>2, <1>3, <1>4
<1>6. \A n \in 1..(Len(s) - 1) :
        RemoveAt(s, k)[n] = IF n < k THEN before[n] ELSE after[n - (k - 1)]
  BY <1>1, <1>2, <1>3, <1>4, SMTT(30)
<1>7. ASSUME NEW n \in 1..(Len(s) - 1), n >= k PROVE after[n - (k - 1)] = s[n + 1]
  <2>1. n - (k - 1) \in 1..(Len(s) - k) /\ (n - (k - 1)) + k = n + 1
    BY <1>1, <1>7
  <2>2. after[n - (k - 1)] = s[(n - (k - 1)) + k]
    BY <1>3, <2>1
  <2> QED
    BY <2>1, <2>2
<1>8. ASSUME NEW n \in 1..(Len(s) - 1), n < k PROVE before[n] = s[n]
  BY <1>1, <1>2, <1>8
<1>9. \A n \in 1..(Len(s) - 1) : n < k \/ n >= k
  BY <1>1
<1> QED
  BY <1>5, <1>6, <1>7, <1>8, <1>9

LEMMA TypeInit == Init => TypeOK
BY ClientAssumption
DEF Init, TypeOK, NoIndexer, NoAccount, NoTx, Index, Pc

\* The part of the state that scripts change.
ScriptType ==
  /\ pc \in [Attempts -> Pc]
  /\ todo \in [Attempts -> Seq(Index)] /\ found \in [Attempts -> Seq(Index)]
  /\ tx \in [Attempts -> [kind : {"none", "create", "order"}, withIndexer : BOOLEAN,
                          index : Index, status : {"unsent", "pending", "ok", "err"}]]
  /\ left \in [Attempts -> -1..Validity]
ChainType ==
  /\ indexer \in [exists : BOOLEAN, created_counter : 0..MaxCounter, addresses : Seq(Index)]
  /\ account \in [Index -> [market : Markets \cup {NoMarket}, orders : SUBSET Attempts]]

LEMMA TypeParts == TypeOK <=> ScriptType /\ ChainType
BY DEF TypeOK, ScriptType, ChainType

LEMMA TypePrepare ==
  ASSUME ScriptType, NEW a \in Attempts, NEW kind \in {"create", "order"},
         NEW withIndexer \in BOOLEAN, NEW i \in Index, Prepare(a, kind, withIndexer, i),
         UNCHANGED <<todo, found, left>>
  PROVE  ScriptType'
BY DEF ScriptType, Pc, Prepare

\* A step of a script, or its end.
LEMMA TypeScript ==
  ASSUME TypeOK, NEW a \in Attempts, Script(a) \/ Lost(a)
  PROVE  ScriptType'
<1> USE TypeParts DEF ScriptType, Pc
<1>1. CASE FindAllOpenOrders(a)
  <2>1. PICK addresses \in {indexer.addresses, <<>>} : todo' = [todo EXCEPT ![a] = addresses]
    BY <1>1 DEF FindAllOpenOrders
  <2>2. indexer.addresses \in Seq(Index) /\ <<>> \in Seq(Index)
    BY DEF ChainType
  <2>3. addresses \in Seq(Index)
    BY <2>2
  <2> QED
    BY <1>1, <2>1, <2>3 DEF FindAllOpenOrders
<1>2. CASE ReadOpenOrders(a)
  <2>1. todo[a] \in Seq(Index) /\ todo[a] # <<>> /\ found[a] \in Seq(Index)
    BY <1>2 DEF ReadOpenOrders
  <2>2. Head(todo[a]) \in Index /\ Tail(todo[a]) \in Seq(Index)
    BY <2>1
  <2>3. Append(found[a], Head(todo[a])) \in Seq(Index)
    BY <2>1, <2>2
  <2> QED
    BY <1>2, <2>2, <2>3 DEF ReadOpenOrders
<1>3. CASE UseFound(a)
  <2>1. Head(found[a]) \in Index
    BY <1>3 DEF UseFound
  <2>2. ScriptType
    OBVIOUS
  <2> HIDE DEF ScriptType, Pc
  <2> QED
    BY <1>3, <2>1, <2>2, TypePrepare DEF UseFound, PlaceIn
<1>4. CASE CreateOpenOrders(a)
  <2>1. AccountIndex(a) \in Index /\ indexer.exists \in BOOLEAN
    BY ClientAssumption DEF AccountIndex, Index, ChainType
  <2>2. ScriptType
    OBVIOUS
  <2> HIDE DEF ScriptType, Pc
  <2> QED
    BY <1>4, <2>1, <2>2, TypePrepare DEF CreateOpenOrders
<1>5. CASE GetLatestBlockhash(a)
  BY <1>5, ClientAssumption DEF GetLatestBlockhash
<1>6. CASE SendRawTransaction(a)
  BY <1>6 DEF SendRawTransaction, Sent
<1>7. CASE ConfirmTransaction(a)
  <2>1. ASSUME PlaceIn(a, tx[a].index) PROVE ScriptType'
    <3>1. ScriptType /\ tx[a].index \in Index
      OBVIOUS
    <3>2. UNCHANGED <<todo, found, left>>
      BY <1>7 DEF ConfirmTransaction
    <3> HIDE DEF ScriptType, Pc
    <3> QED
      BY <2>1, <3>1, <3>2, TypePrepare DEF PlaceIn
  <2>2. ASSUME NEW report \in {"done", "rejected", "expired"}, Report(a, report)
        PROVE  ScriptType'
    BY <1>7, <2>2 DEF ConfirmTransaction, Report
  <2> HIDE DEF ScriptType, Pc
  <2> QED
    BY <1>7, <2>1, <2>2 DEF ConfirmTransaction
<1>8. CASE Lost(a)
  <2>1. pc' = [pc EXCEPT ![a] = "lost"] /\ UNCHANGED <<todo, found, left>>
    BY <1>8 DEF Lost
  <2>2. CASE UNCHANGED tx
    BY <2>1, <2>2
  <2>3. CASE Sent(a)
    BY <2>1, <2>3 DEF Sent
  <2> QED
    BY <1>8, <2>2, <2>3 DEF Lost
<1> QED
  BY <1>1, <1>2, <1>3, <1>4, <1>5, <1>6, <1>7, <1>8 DEF Script

LEMMA TypeLand ==
  ASSUME ScriptType, NEW a \in Attempts, NEW result \in {"ok", "err"}, Land(a, result)
  PROVE  ScriptType'
BY DEF ScriptType, Land, scriptVars

LEMMA TypeNewIndexer ==
  NewIndexer \in [exists : BOOLEAN, created_counter : 0..MaxCounter, addresses : Seq(Index)]
  /\ NoIndexer \in [exists : BOOLEAN, created_counter : 0..MaxCounter, addresses : Seq(Index)]
<1>1. <<>> \in Seq(Index) /\ 0 \in 0..MaxCounter
  BY ClientAssumption
<1> QED
  BY <1>1 DEF NewIndexer, NoIndexer

LEMMA TypeCreate ==
  ASSUME ChainType, NEW from, from \in {indexer, NewIndexer}, NEW i \in Index,
         NEW m \in Markets, CreateAccount(from, i, m)
  PROVE  ChainType'
<1>1. from \in [exists : BOOLEAN, created_counter : 0..MaxCounter, addresses : Seq(Index)]
  BY TypeNewIndexer DEF ChainType
<1>2. i \in 0..MaxCounter /\ Append(from.addresses, i) \in Seq(Index)
  BY <1>1, ClientAssumption DEF Index
<1> QED
  BY <1>1, <1>2 DEF ChainType, CreateAccount

LEMMA TypeNext == TypeOK /\ [Next]_vars => TypeOK'
<1> SUFFICES ASSUME TypeOK, [Next]_vars PROVE TypeOK'
  OBVIOUS
<1> ScriptType /\ ChainType
  BY TypeParts
<1>0. ScriptType' /\ ChainType' => TypeOK'
  BY DEF TypeOK, ScriptType, ChainType
<1>a. UNCHANGED chainVars => ChainType'
  BY DEF chainVars, ChainType
<1>b. UNCHANGED <<scriptVars, tx, left>> => ScriptType'
  BY DEF scriptVars, ScriptType
<1>1. ASSUME NEW a \in Attempts, Script(a) \/ Lost(a) PROVE TypeOK'
  <2>1. UNCHANGED chainVars
    BY <1>1 DEF Script, Lost, FindAllOpenOrders, ReadOpenOrders, UseFound, CreateOpenOrders,
                GetLatestBlockhash, SendRawTransaction, ConfirmTransaction, chainVars
  <2> QED
    BY <1>0, <1>1, <1>a, <2>1, TypeScript
<1>2. ASSUME NEW a \in Attempts, LandCreate(a) PROVE TypeOK'
  <2>1. tx[a].index \in Index /\ MarketOf[a] \in Markets
    BY ClientAssumption DEF ScriptType
  <2>2. ScriptType'
    BY <1>2, TypeLand DEF LandCreate
  <2>3. ChainType'
    BY <1>2, <1>a, <2>1, TypeCreate DEF LandCreate
  <2> QED
    BY <1>0, <2>2, <2>3
<1>3. ASSUME NEW a \in Attempts, LandOrder(a) PROVE TypeOK'
  <2>1. ScriptType'
    BY <1>3, TypeLand DEF LandOrder
  <2>2. ChainType'
    <3>1. tx[a].index \in Index
      BY DEF ScriptType
    <3> QED
      BY <1>3, <1>a, <3>1 DEF LandOrder, ChainType, chainVars
  <2> QED
    BY <1>0, <2>1, <2>2
<1>4. CASE NewBlock
  <2>1. ScriptType'
    BY <1>4, ClientAssumption DEF NewBlock, ScriptType, scriptVars
  <2>2. ChainType'
    BY <1>4, <1>a DEF NewBlock
  <2> QED
    BY <1>0, <2>1, <2>2
<1>5. ASSUME NEW m \in Markets, OwnerCreates(m) PROVE TypeOK'
  <2>1. indexer.created_counter + 1 \in Index
    BY <1>5, ClientAssumption DEF OwnerCreates, Index, ChainType
  <2> QED
    BY <1>0, <1>5, <1>b, <2>1, TypeCreate DEF OwnerCreates, ByOwner
<1>6. ASSUME NEW i \in Index, CancelOrders(i) PROVE TypeOK'
  BY <1>0, <1>6, <1>b DEF CancelOrders, ByOwner, ChainType
<1>7. ASSUME NEW i \in Index, CloseOpenOrdersAccount(i) PROVE TypeOK'
  <2>1. PICK k \in DOMAIN indexer.addresses :
          indexer' = [indexer EXCEPT !.addresses = RemoveAddress(k)]
    BY <1>7 DEF CloseOpenOrdersAccount
  <2>2. RemoveAddress(k) \in Seq(Index)
    BY RemoveAtPlace DEF RemoveAddress, ChainType
  <2>3. ChainType'
    BY <1>7, <2>1, <2>2 DEF CloseOpenOrdersAccount, ChainType, NoAccount
  <2> QED
    BY <1>0, <1>7, <1>b, <2>3 DEF CloseOpenOrdersAccount, ByOwner
<1>8. CASE CreateOpenOrdersIndexer \/ CloseOpenOrdersIndexer
  BY <1>0, <1>8, <1>b, TypeNewIndexer
  DEF CreateOpenOrdersIndexer, CloseOpenOrdersIndexer, ByOwner, ChainType
<1>9. CASE UNCHANGED vars
  BY <1>9 DEF vars, TypeOK
<1> QED
  BY <1>1, <1>2, <1>3, <1>4, <1>5, <1>6, <1>7, <1>8, <1>9 DEF Next

(* Counters, indexes and transactions keep their ranges, whatever is       *)
(* closed, created again, lost or retried.                                 *)
THEOREM ClientTypes == Spec => []TypeOK
BY TypeInit, TypeNext, PTL DEF Spec

-----------------------------------------------------------------------------
(* The indexer is exact.  Two accounts never share a place in the list,    *)
(* the accounts that exist are those listed, and an indexer that does not  *)
(* exist lists none.  That an owner has one account in a market needs what *)
(* the scripts rely on, the counter: an account that exists has an index   *)
(* the counter has passed, so that while the first index is still to be    *)
(* used, as every script assumes, there is no account at all.              *)
Listed ==
  /\ \A j, k \in DOMAIN indexer.addresses :
       indexer.addresses[j] = indexer.addresses[k] => j = k
  /\ \A i \in Index :
       Exists(i) <=> \E k \in DOMAIN indexer.addresses : indexer.addresses[k] = i
  /\ ~indexer.exists => indexer = NoIndexer
Counted ==
  /\ \A i \in Index : Exists(i) => i <= indexer.created_counter
  /\ \A a \in Attempts : tx[a].kind = "create" => tx[a].index = 1
ListInv == TypeOK /\ Listed /\ Counted /\ OneAccountPerMarket

LEMMA ListInit == Init => ListInv
<1> SUFFICES ASSUME Init PROVE ListInv
  OBVIOUS
<1>1. \A i \in Index : ~Exists(i)
  BY DEF Init, Exists, NoAccount
<1>2. DOMAIN indexer.addresses = {}
  BY DEF Init, NoIndexer
<1>3. Listed
  BY <1>1, <1>2 DEF Listed, Init
<1>4. Counted /\ OneAccountPerMarket
  BY <1>1 DEF Counted, OneAccountPerMarket, Init, NoTx
<1> QED
  BY <1>3, <1>4, TypeInit DEF ListInv

\* An account is appended to the list at the index that comes next, in a market
\* in which there is none.
LEMMA ListCreate ==
  ASSUME ListInv, TypeOK', NEW from, from = indexer \/ (~indexer.exists /\ from = NewIndexer),
         NEW i \in Index, NEW m \in Markets, MayCreate(from, i), CreateAccount(from, i, m),
         i = 1 \/ \A j \in Index : account[j].market # m,
         \A a \in Attempts : tx'[a].kind = "create" => tx'[a].index = 1
  PROVE  ListInv'
<1> DEFINE s == indexer.addresses
           t == indexer'.addresses
<1>1. /\ from.addresses = s /\ from.created_counter = indexer.created_counter
      /\ s \in Seq(Index) /\ indexer.created_counter \in Nat
  BY DEF ListInv, TypeOK, Listed, NewIndexer, NoIndexer
<1>2. indexer'.exists /\ indexer'.created_counter = i /\ i = indexer.created_counter + 1
  BY <1>1, TypeNewIndexer DEF MayCreate, CreateAccount, ListInv, TypeOK
<1>3. t = Append(s, i)
  BY <1>1, TypeNewIndexer DEF CreateAccount, ListInv, TypeOK
<1>4. /\ DOMAIN s = 1..Len(s) /\ Len(s) \in Nat /\ DOMAIN t = 1..(Len(s) + 1)
      /\ t[Len(s) + 1] = i /\ \A k \in 1..Len(s) : t[k] = s[k]
  BY <1>1, <1>3
<1> HIDE DEF s, t
<1>5. \A k \in 1..Len(s) : s[k] # i
  BY <1>4 DEF s, ListInv, Listed, MayCreate
<1>6. /\ account[i].market = NoMarket /\ m # NoMarket
      /\ \A j \in Index : account'[j].market = IF j = i THEN m ELSE account[j].market
  BY ClientAssumption DEF MayCreate, Exists, CreateAccount, ListInv, TypeOK
<1>7. \A j \in Index : Exists(j)' <=> j = i \/ Exists(j)
  BY <1>6 DEF Exists
<1>8. Listed'
  <2>1. \A j, k \in 1..(Len(s) + 1) : t[j] = t[k] => j = k
    <3>1. \A j, k \in 1..Len(s) : s[j] = s[k] => j = k
      BY <1>4 DEF s, ListInv, Listed
    <3>2. \A k \in 1..(Len(s) + 1) : k \in 1..Len(s) \/ k = Len(s) + 1
      BY <1>4
    <3> QED
      BY <1>4, <1>5, <3>1, <3>2
  <2>2. \A j \in Index : Exists(j)' <=> \E k \in 1..(Len(s) + 1) : t[k] = j
    <3> TAKE j \in Index
    <3>1. Exists(j) <=> \E k \in 1..Len(s) : s[k] = j
      BY <1>4 DEF s, ListInv, Listed
    <3>2. (\E k \in 1..(Len(s) + 1) : t[k] = j) <=> j = i \/ \E k \in 1..Len(s) : s[k] = j
      <4>1. 1..(Len(s) + 1) = 1..Len(s) \cup {Len(s) + 1}
        BY <1>4
      <4> QED
        BY <1>4, <4>1
    <3> QED
      BY <1>7, <3>1, <3>2
  <2> QED
    BY <1>2, <1>4, <2>1, <2>2 DEF Listed, t
<1>9. Counted'
  <2>1. \A j \in Index : Exists(j) => j <= i
    BY <1>1, <1>2, ClientAssumption DEF ListInv, Counted, Index
  <2> QED
    BY <1>2, <1>7, <2>1, ClientAssumption DEF Counted, Index
<1>10. OneAccountPerMarket'
  <2>1. CASE \A j \in Index : account[j].market # m
    BY <1>6, <1>7, <2>1 DEF OneAccountPerMarket, ListInv, Exists
  <2>2. CASE i = 1
    <3>1. \A j \in Index : ~Exists(j)
      BY <1>1, <1>2, <2>2, ClientAssumption DEF ListInv, Counted, Index
    <3> QED
      BY <1>6, <1>7, <3>1 DEF OneAccountPerMarket, Exists
  <2> QED
    BY <2>1, <2>2
<1> QED
  BY <1>8, <1>9, <1>10 DEF ListInv

\* What scripts do with transactions: all that create an account name the first index.
LEMMA ListScript ==
  ASSUME ListInv, TypeOK', UNCHANGED chainVars,
         \A a \in Attempts : tx'[a].kind = "create" => tx'[a].index = 1
  PROVE  ListInv'
<1> USE DEF ListInv
<1>1. \A i \in Index : Exists(i)' <=> Exists(i)
  BY DEF chainVars, Exists
<1>2. Listed'
  BY <1>1 DEF Listed, chainVars
<1>3. Counted'
  BY <1>1 DEF Counted, chainVars
<1>4. OneAccountPerMarket'
  BY <1>1 DEF OneAccountPerMarket, chainVars
<1> QED
  BY <1>2, <1>3, <1>4

LEMMA CreateAtOne ==
  ASSUME ListInv, NEW b \in Attempts, Script(b) \/ Lost(b)
  PROVE  \A a \in Attempts : tx'[a].kind = "create" => tx'[a].index = 1
<1>1. \A a \in Attempts : tx[a].kind = "create" => tx[a].index = 1
  BY DEF ListInv, Counted
<1>2. tx \in [Attempts -> [kind : {"none", "create", "order"}, withIndexer : BOOLEAN,
                          index : Index, status : {"unsent", "pending", "ok", "err"}]]
  BY DEF ListInv, TypeOK
<1>3. CASE UNCHANGED tx
  BY <1>1, <1>3
<1>4. CASE Sent(b)
  BY <1>1, <1>2, <1>4 DEF Sent
<1>5. ASSUME NEW i, PlaceIn(b, i) PROVE \A a \in Attempts : tx'[a].kind = "create" => tx'[a].index = 1
  BY <1>1, <1>2, <1>5 DEF PlaceIn, Prepare
<1>6. ASSUME NEW w, Prepare(b, "create", w, AccountIndex(b))
      PROVE  \A a \in Attempts : tx'[a].kind = "create" => tx'[a].index = 1
  BY <1>1, <1>2, <1>6 DEF Prepare, AccountIndex
<1>7. \/ UNCHANGED tx \/ Sent(b) \/ (\E i : PlaceIn(b, i))
      \/ \E w : Prepare(b, "create", w, AccountIndex(b))
  BY DEF Script, Lost, FindAllOpenOrders, ReadOpenOrders, UseFound, CreateOpenOrders,
         GetLatestBlockhash, SendRawTransaction, ConfirmTransaction, Report
<1> QED
  BY <1>3, <1>4, <1>5, <1>6, <1>7

\* A transaction that lands, or a block, changes no transaction's kind or index.
LEMMA LandKeepsIndex ==
  ASSUME ListInv, NEW b \in Attempts, NEW result, Land(b, result)
  PROVE  \A a \in Attempts : tx'[a].kind = "create" => tx'[a].index = 1
BY DEF ListInv, Counted, TypeOK, Land

\* The account's place in the list goes with it.
LEMMA ListClose ==
  ASSUME ListInv, TypeOK', NEW i \in Index, CloseOpenOrdersAccount(i)
  PROVE  ListInv'
<1> DEFINE s == indexer.addresses
           t == indexer'.addresses
<1>0. PICK k \in DOMAIN s : s[k] = i /\ indexer' = [indexer EXCEPT !.addresses = RemoveAt(s, k)]
  BY DEF CloseOpenOrdersAccount, RemoveAddress
<1>1. s \in Seq(Index) /\ DOMAIN s = 1..Len(s) /\ Len(s) \in Nat
  BY DEF ListInv, TypeOK
<1>2. /\ t = RemoveAt(s, k)
      /\ indexer'.created_counter = indexer.created_counter /\ indexer'.exists = indexer.exists
  BY <1>0 DEF ListInv, TypeOK
<1>3. /\ DOMAIN t = 1..(Len(s) - 1)
      /\ \A n \in 1..(Len(s) - 1) : t[n] = IF n < k THEN s[n] ELSE s[n + 1]
  <2>1. /\ t \in Seq(Index) /\ Len(t) = Len(s) - 1
        /\ \A n \in 1..(Len(s) - 1) : t[n] = IF n < k THEN s[n] ELSE s[n + 1]
    BY <1>1, <1>2, RemoveAtPlace
  <2> QED
    BY <2>1
<1>4. \A j, n \in 1..Len(s) : s[j] = s[n] => j = n
  BY <1>1 DEF ListInv, Listed
<1>5. indexer.exists
  BY <1>1 DEF ListInv, Listed, NoIndexer
<1>6. \A j \in Index : account'[j].market = IF j = i THEN NoMarket ELSE account[j].market
  BY DEF CloseOpenOrdersAccount, ListInv, TypeOK, NoAccount
<1>7. \A j \in Index : Exists(j)' <=> j # i /\ Exists(j)
  BY <1>6 DEF Exists
<1>8. \A j \in Index : Exists(j) <=> \E n \in 1..Len(s) : s[n] = j
  BY <1>1 DEF ListInv, Listed
<1>k. k \in 1..Len(s) /\ s[k] = i
  BY <1>0, <1>1
<1>u. UNCHANGED tx
  BY DEF CloseOpenOrdersAccount, ByOwner
<1> HIDE DEF s, t
<1>9. Listed'
  <2>1. \A j, n \in 1..(Len(s) - 1) : t[j] = t[n] => j = n
    BY <1>1, <1>3, <1>4, <1>k
  <2>2. \A j \in Index : Exists(j)' <=> \E n \in 1..(Len(s) - 1) : t[n] = j
    <3> TAKE j \in Index
    <3>1. ASSUME NEW n \in 1..(Len(s) - 1), t[n] = j PROVE Exists(j)'
      <4>1. PICK p \in 1..Len(s) : t[n] = s[p] /\ p # k
        BY <1>1, <1>3, <1>k, <3>1
      <4> QED
        BY <1>4, <1>7, <1>8, <1>k, <3>1, <4>1
    <3>2. ASSUME Exists(j)' PROVE \E n \in 1..(Len(s) - 1) : t[n] = j
      <4>1. PICK p \in 1..Len(s) : s[p] = j /\ p # k
        BY <1>7, <1>8, <1>k, <3>2
      <4>2. CASE p < k
        <5>1. p \in 1..(Len(s) - 1) /\ t[p] = j
          BY <1>1, <1>3, <1>k, <4>1, <4>2
        <5> QED
          BY <5>1
      <4>3. CASE p > k
        <5>1. p - 1 \in 1..(Len(s) - 1) /\ ~(p - 1 < k) /\ (p - 1) + 1 = p
          BY <1>1, <1>k, <4>3
        <5>2. t[p - 1] = s[(p - 1) + 1]
          BY <1>3, <5>1
        <5> QED
          BY <4>1, <5>1, <5>2
      <4>4. p < k \/ p > k
        BY <1>1, <1>k, <4>1
      <4> QED
        BY <4>2, <4>3, <4>4
    <3> QED
      BY <3>1, <3>2
  <2> QED
    BY <1>2, <1>3, <1>5, <2>1, <2>2 DEF Listed, t
<1>10. Counted'
  BY <1>2, <1>7, <1>u DEF ListInv, Counted
<1>11. OneAccountPerMarket'
  BY <1>6, <1>7 DEF ListInv, OneAccountPerMarket, Exists
<1> QED
  BY <1>9, <1>10, <1>11 DEF ListInv

LEMMA ListNext == ListInv /\ [Next]_vars => ListInv'
<1> SUFFICES ASSUME ListInv, [Next]_vars PROVE ListInv'
  OBVIOUS
<1> TypeOK'
  BY TypeNext DEF ListInv
<1>a. \A a \in Attempts : tx[a].kind = "create" => tx[a].index = 1
  BY DEF ListInv, Counted
<1>1. ASSUME NEW a \in Attempts, Script(a) \/ Lost(a) PROVE ListInv'
  <2>1. UNCHANGED chainVars
    BY <1>1 DEF Script, Lost, FindAllOpenOrders, ReadOpenOrders, UseFound, CreateOpenOrders,
                GetLatestBlockhash, SendRawTransaction, ConfirmTransaction, chainVars
  <2> QED
    BY <1>1, <2>1, CreateAtOne, ListScript
<1>2. ASSUME NEW a \in Attempts, LandCreate(a) PROVE ListInv'
  <2>1. \A b \in Attempts : tx'[b].kind = "create" => tx'[b].index = 1
    BY <1>2, LandKeepsIndex DEF LandCreate
  <2>2. CASE UNCHANGED chainVars
    BY <2>1, <2>2, ListScript
  <2>3. CASE ~UNCHANGED chainVars
    <3> DEFINE from == IF tx[a].withIndexer THEN NewIndexer ELSE indexer
    <3>1. /\ ~(tx[a].withIndexer /\ indexer.exists)
          /\ MayCreate(from, tx[a].index) /\ CreateAccount(from, tx[a].index, MarketOf[a])
          /\ tx[a].kind = "create"
      BY <1>2, <2>3 DEF LandCreate
    <3>2. from = indexer \/ (~indexer.exists /\ from = NewIndexer)
      BY <3>1
    <3>3. tx[a].index = 1 /\ tx[a].index \in Index /\ MarketOf[a] \in Markets
      BY <3>1, ClientAssumption DEF ListInv, Counted, TypeOK
    <3> HIDE DEF from
    <3> QED
      BY <2>1, <3>1, <3>2, <3>3, ListCreate
  <2> QED
    BY <2>2, <2>3
<1>3. ASSUME NEW a \in Attempts, LandOrder(a) PROVE ListInv'
  <2>1. \A b \in Attempts : tx'[b].kind = "create" => tx'[b].index = 1
    BY <1>3, LandKeepsIndex DEF LandOrder
  <2>2. UNCHANGED indexer /\ \A j \in Index : account'[j].market = account[j].market
    <3>1. CASE UNCHANGED account
      BY <1>3, <3>1 DEF LandOrder
    <3>2. CASE account' = [account EXCEPT ![tx[a].index].orders = @ \cup {a}]
      <4>1. tx[a].index \in Index /\ account \in [Index -> [market : Markets \cup {NoMarket},
                                                          orders : SUBSET Attempts]]
        BY DEF ListInv, TypeOK
      <4> QED
        BY <1>3, <3>2, <4>1 DEF LandOrder
    <3> QED
      BY <1>3, <3>1, <3>2 DEF LandOrder
  <2>3. \A j \in Index : Exists(j)' <=> Exists(j)
    BY <2>2 DEF Exists
  <2>4. Listed'
    BY <2>2, <2>3 DEF ListInv, Listed
  <2>5. Counted' /\ OneAccountPerMarket'
    BY <2>1, <2>2, <2>3 DEF ListInv, Counted, OneAccountPerMarket
  <2> QED
    BY <2>4, <2>5 DEF ListInv
<1>4. CASE NewBlock
  BY <1>4, <1>a, ListScript DEF NewBlock, chainVars
<1>5. ASSUME NEW m \in Markets, OwnerCreates(m) PROVE ListInv'
  <2>1. indexer.created_counter + 1 \in Index
    BY <1>5, ClientAssumption DEF OwnerCreates, Index, ListInv, TypeOK
  <2>2. \A a \in Attempts : tx'[a].kind = "create" => tx'[a].index = 1
    BY <1>5, <1>a DEF OwnerCreates, ByOwner
  <2> QED
    BY <1>5, <2>1, <2>2, ListCreate DEF OwnerCreates
<1>6. ASSUME NEW i \in Index, CancelOrders(i) PROVE ListInv'
  <2>1. UNCHANGED <<indexer, tx>> /\ \A j \in Index : account'[j].market = account[j].market
    BY <1>6 DEF CancelOrders, ByOwner, ListInv, TypeOK
  <2>2. \A j \in Index : Exists(j)' <=> Exists(j)
    BY <2>1 DEF Exists
  <2>3. Listed'
    BY <2>1, <2>2 DEF ListInv, Listed
  <2>4. Counted' /\ OneAccountPerMarket'
    BY <2>1, <2>2 DEF ListInv, Counted, OneAccountPerMarket
  <2> QED
    BY <2>3, <2>4 DEF ListInv
<1>7. ASSUME NEW i \in Index, CloseOpenOrdersAccount(i) PROVE ListInv'
  BY <1>7, ListClose
<1>8. CASE CreateOpenOrdersIndexer \/ CloseOpenOrdersIndexer
  <2>1. /\ UNCHANGED <<account, tx>> /\ indexer'.addresses = <<>> /\ indexer.addresses = <<>>
        /\ indexer' = NoIndexer \/ indexer'.exists
    BY <1>8 DEF CreateOpenOrdersIndexer, CloseOpenOrdersIndexer, ByOwner, ListInv, Listed,
                NewIndexer, NoIndexer
  <2>2. \A i \in Index : ~Exists(i) /\ ~Exists(i)'
    <3>1. \A i \in Index : ~Exists(i)
      BY <2>1 DEF ListInv, Listed
    <3> QED
      BY <2>1, <3>1 DEF Exists
  <2>3. Listed'
    BY <2>1, <2>2 DEF Listed, NoIndexer
  <2>4. Counted' /\ OneAccountPerMarket'
    BY <1>a, <2>1, <2>2 DEF Counted, OneAccountPerMarket
  <2> QED
    BY <2>3, <2>4 DEF ListInv
<1>9. CASE UNCHANGED vars
  BY <1>9, <1>a, ListScript DEF vars, chainVars
<1> QED
  BY <1>1, <1>2, <1>3, <1>4, <1>5, <1>6, <1>7, <1>8, <1>9 DEF Next

\* The list is a bijection onto the accounts that exist.
LEMMA ListedIsExact == TypeOK /\ Listed => IndexerExact
<1> SUFFICES ASSUME TypeOK, Listed PROVE IndexerExact
  OBVIOUS
<1> DEFINE s == indexer.addresses
           E == {i \in Index : Exists(i)}
<1>1. s \in Seq(Index) /\ DOMAIN s = 1..Len(s) /\ Len(s) \in Nat
  BY DEF TypeOK
<1>2. s \in Bijection(1..Len(s), E)
  <2>1. \A k \in 1..Len(s) : s[k] \in E
    BY <1>1 DEF Listed
  <2>2. s \in [1..Len(s) -> E]
    BY <1>1, <2>1
  <2>3. \A j, k \in 1..Len(s) : s[j] = s[k] => j = k
    BY <1>1 DEF Listed
  <2>4. \A i \in E : \E k \in 1..Len(s) : s[k] = i
    BY <1>1 DEF Listed
  <2> HIDE DEF s, E
  <2> QED
    BY <1>1, <2>2, <2>3, <2>4 DEF Bijection, Injection, Surjection, IsInjective
<1>3. Cardinality(E) = Len(s)
  <2> HIDE DEF s, E
  <2> QED
    BY <1>1, <1>2, FS_CountingElements DEF ExistsBijection
<1> QED
  BY <1>3 DEF IndexerExact, Listed

(* The list the scripts search is exact: every account that exists is in   *)
(* it once, however many were created, closed and created again.           *)
THEOREM IndexerListsAll == Spec => []IndexerExact
<1>1. ListInv => IndexerExact
  BY ListedIsExact DEF ListInv
<1> QED
  BY <1>1, ListInit, ListNext, PTL DEF Spec

(* Any number of scripts that race for an account leave the owner with one *)
(* in each market at most.                                                 *)
THEOREM OneAccount == Spec => []OneAccountPerMarket
<1>1. ListInv => OneAccountPerMarket
  BY DEF ListInv
<1> QED
  BY <1>1, ListInit, ListNext, PTL DEF Spec
-----------------------------------------------------------------------------
(* A report is final.  ReportIsFinal does not follow from the step alone:   *)
(* what was reported must leave nothing under way.  A transaction that was *)
(* rejected has landed, in vain; one that expired has landed or has no      *)
(* block left to land in, and its attempt never asks for a blockhash again. *)
(* A rejected attempt holds no order because an order that was placed has   *)
(* its transaction's status to show for it, which no later step takes back. *)
Fate ==
  \A a \in Attempts :
    /\ pc[a] \in {"start", "reading"} => tx[a].kind = "none"
    /\ pc[a] \in {"prepared", "signing"} => tx[a].status = "unsent"
    /\ pc[a] = "done" => tx[a].status = "ok"
    /\ pc[a] = "rejected" => tx[a].status = "err"
    /\ pc[a] = "expired" => left[a] < 0
Placed ==
  \A a \in Attempts, i \in Index :
    a \in account[i].orders => tx[a].kind = "order" /\ tx[a].status = "ok"
FateInv == TypeOK /\ Fate /\ Placed

LEMMA FateInit == Init => FateInv
BY TypeInit DEF Init, FateInv, Fate, Placed, NoTx, NoAccount

\* A new transaction is prepared by an attempt that has placed no order.
LEMMA FatePrepare ==
  ASSUME ScriptType, Fate, NEW a \in Attempts, tx[a].kind # "order", NEW kind, NEW withIndexer, NEW i,
         Prepare(a, kind, withIndexer, i), UNCHANGED left
  PROVE  Fate' /\ \A b \in Attempts : tx[b].kind = "order" => tx'[b] = tx[b]
BY DEF ScriptType, Fate, Pc, Prepare

\* A step of a script, or its end: a transaction that has landed as an order is
\* left as it is.
LEMMA FateScript ==
  ASSUME TypeOK, Fate, NEW a \in Attempts, Script(a) \/ Lost(a)
  PROVE  /\ Fate'
         /\ \A b \in Attempts : tx[b].kind = "order" /\ tx[b].status = "ok" => tx'[b] = tx[b]
<1> ScriptType
  BY TypeParts
<1>1. CASE FindAllOpenOrders(a)
  BY <1>1 DEF FindAllOpenOrders, ScriptType, Fate, Pc
<1>2. CASE ReadOpenOrders(a)
  BY <1>2 DEF ReadOpenOrders, ScriptType, Fate, Pc
<1>3. CASE UseFound(a)
  BY <1>3, FatePrepare DEF UseFound, PlaceIn, AllRead, Fate
<1>4. CASE CreateOpenOrders(a)
  BY <1>4, FatePrepare DEF CreateOpenOrders, AllRead, Fate
<1>5. CASE GetLatestBlockhash(a)
  BY <1>5 DEF GetLatestBlockhash, ScriptType, Fate, Pc
<1>6. CASE SendRawTransaction(a)
  BY <1>6 DEF SendRawTransaction, Sent, ScriptType, Fate, Pc
<1>7. CASE ConfirmTransaction(a)
  <2>1. ASSUME tx[a].kind = "create", PlaceIn(a, tx[a].index) PROVE Fate'
        /\ \A b \in Attempts : tx[b].kind = "order" => tx'[b] = tx[b]
    BY <1>7, <2>1, FatePrepare DEF PlaceIn, ConfirmTransaction
  <2>2. ASSUME NEW report, Report(a, report),
               \/ report = "done" /\ tx[a].status = "ok"
               \/ report = "rejected" /\ tx[a].status = "err"
               \/ report = "expired" /\ left[a] < 0
        PROVE  Fate' /\ tx' = tx
    BY <1>7, <2>2 DEF ConfirmTransaction, Report, ScriptType, Fate, Pc
  <2> QED
    BY <1>7, <2>1, <2>2 DEF ConfirmTransaction, BlockHeightExceeded
<1>8. CASE Lost(a)
  BY <1>8 DEF Lost, Sent, ScriptType, Fate, Pc
<1> QED
  BY <1>1, <1>2, <1>3, <1>4, <1>5, <1>6, <1>7, <1>8 DEF Script

\* Only a transaction that is pending and has a block left lands: no attempt has
\* reported on it.
LEMMA FateLand ==
  ASSUME ScriptType, Fate, NEW a \in Attempts, NEW result \in {"ok", "err"}, Land(a, result)
  PROVE  /\ Fate' /\ pc[a] \notin Reported
         /\ \A b \in Attempts : b # a => tx'[b] = tx[b]
         /\ tx'[a].kind = tx[a].kind /\ tx'[a].status = result /\ tx[a].status = "pending"
<1>1. pc[a] \notin Reported
  BY DEF ScriptType, Fate, Land, Reported
<1> QED
  BY <1>1 DEF ScriptType, Fate, Land, scriptVars, Reported

\* The accounts hold no orders but those they held.
NoneAdded == \A i \in Index, b \in Attempts : b \in account'[i].orders => b \in account[i].orders

LEMMA CreateAddsNone ==
  ASSUME ChainType, NEW from, NEW i, NEW m, CreateAccount(from, i, m)
  PROVE  NoneAdded
BY DEF ChainType, CreateAccount, NoneAdded

\* A step that lands no order leaves the reports as they are.
LEMMA ReportStep ==
  ASSUME TypeOK, Placed, NoneAdded,
         \A b \in Attempts : tx[b].kind = "order" /\ tx[b].status = "ok" => tx'[b] = tx[b]
  PROVE  Placed'
BY DEF NoneAdded, Placed

ReportKept ==
  \A a \in Attempts : pc[a] \in Reported =>
    /\ tx'[a] = tx[a]
    /\ \A i \in Index : a \in account'[i].orders => a \in account[i].orders /\ pc[a] # "rejected"

LEMMA FateNext == FateInv /\ [Next]_vars => FateInv' /\ ReportKept
<1> SUFFICES ASSUME FateInv, [Next]_vars PROVE FateInv' /\ ReportKept
  OBVIOUS
<1> TypeOK /\ Fate /\ Placed /\ TypeOK' /\ ScriptType /\ ChainType
  BY TypeNext, TypeParts DEF FateInv
<1>r. ASSUME NoneAdded, \A b \in Attempts : pc[b] \in Reported => tx'[b] = tx[b] PROVE ReportKept
  BY <1>r DEF NoneAdded, ReportKept, Placed, Fate
<1>1. ASSUME NEW a \in Attempts, Script(a) \/ Lost(a) PROVE FateInv' /\ ReportKept
  <2>1. NoneAdded
    BY <1>1 DEF Script, Lost, FindAllOpenOrders, ReadOpenOrders, UseFound, CreateOpenOrders,
                GetLatestBlockhash, SendRawTransaction, ConfirmTransaction, chainVars, NoneAdded
  <2>2. \A b \in Attempts : pc[b] \in Reported => tx'[b] = tx[b]
    BY <1>1 DEF Script, Lost, FindAllOpenOrders, ReadOpenOrders, UseFound, CreateOpenOrders, PlaceIn,
                Prepare, AllRead, Sent, Report, GetLatestBlockhash, SendRawTransaction,
                ConfirmTransaction, ScriptType, Reported
  <2> QED
    BY <1>1, <1>r, <2>1, <2>2, FateScript, ReportStep DEF FateInv
<1>2. ASSUME NEW a \in Attempts, LandCreate(a) PROVE FateInv' /\ ReportKept
  <2>1. PICK result \in {"ok", "err"} : Land(a, result)
    BY <1>2 DEF LandCreate
  <2>2. NoneAdded
    BY <1>2, CreateAddsNone DEF LandCreate, chainVars, NoneAdded
  <2>3. /\ Fate' /\ pc[a] \notin Reported /\ tx[a].status = "pending"
        /\ \A b \in Attempts : b # a => tx'[b] = tx[b]
    BY <2>1, FateLand
  <2> QED
    BY <1>r, <2>2, <2>3, ReportStep DEF FateInv
<1>3. ASSUME NEW a \in Attempts, LandOrder(a) PROVE FateInv' /\ ReportKept
  <2>1. CASE Land(a, "err") /\ UNCHANGED account
    <3>1. /\ Fate' /\ pc[a] \notin Reported /\ tx[a].status = "pending"
          /\ \A b \in Attempts : b # a => tx'[b] = tx[b]
      BY <2>1, FateLand
    <3>2. NoneAdded
      BY <2>1 DEF NoneAdded
    <3> QED
      BY <1>r, <3>1, <3>2, ReportStep DEF FateInv
  <2>2. CASE Land(a, "ok") /\ account' = [account EXCEPT ![tx[a].index].orders = @ \cup {a}]
    <3>1. /\ Fate' /\ pc[a] \notin Reported /\ tx[a].status = "pending"
          /\ \A b \in Attempts : b # a => tx'[b] = tx[b]
          /\ tx'[a].kind = "order" /\ tx'[a].status = "ok"
      BY <1>3, <2>2, FateLand DEF LandOrder
    <3>2. \A i \in Index, b \in Attempts : b # a /\ b \in account'[i].orders => b \in account[i].orders
      BY <2>2 DEF ChainType
    <3>3. Placed'
      BY <3>1, <3>2 DEF Placed
    <3>4. ReportKept
      BY <3>1, <3>2 DEF ReportKept, Placed, Fate
    <3> QED
      BY <3>1, <3>3, <3>4 DEF FateInv
  <2> QED
    BY <1>3, <2>1, <2>2 DEF LandOrder
<1>4. CASE NewBlock
  <2>1. UNCHANGED <<pc, tx, account>> /\ \A a \in Attempts : left[a] < 0 => left'[a] < 0
    BY <1>4, ClientAssumption DEF NewBlock, scriptVars, chainVars, ScriptType
  <2>2. Fate' /\ Placed' /\ NoneAdded
    BY <2>1 DEF Fate, Placed, NoneAdded
  <2> QED
    BY <1>r, <2>1, <2>2 DEF FateInv
<1>5. ASSUME UNCHANGED <<pc, tx, left>>, NoneAdded PROVE FateInv' /\ ReportKept
  <2>1. Fate'
    BY <1>5 DEF Fate
  <2> QED
    BY <1>5, <1>r, <2>1, ReportStep DEF FateInv
<1>6. ASSUME NEW m \in Markets, OwnerCreates(m) PROVE UNCHANGED <<pc, tx, left>> /\ NoneAdded
  BY <1>6, CreateAddsNone DEF OwnerCreates, ByOwner, scriptVars
<1>7. ASSUME NEW i \in Index, CancelOrders(i) \/ CloseOpenOrdersAccount(i)
      PROVE  UNCHANGED <<pc, tx, left>> /\ NoneAdded
  BY <1>7 DEF CancelOrders, CloseOpenOrdersAccount, ByOwner, scriptVars, NoneAdded, ChainType, NoAccount
<1>8. ASSUME CreateOpenOrdersIndexer \/ CloseOpenOrdersIndexer \/ UNCHANGED vars
      PROVE  UNCHANGED <<pc, tx, left>> /\ NoneAdded
  BY <1>8 DEF CreateOpenOrdersIndexer, CloseOpenOrdersIndexer, ByOwner, scriptVars, vars, NoneAdded
<1> QED
  BY <1>1, <1>2, <1>3, <1>4, <1>5, <1>6, <1>7, <1>8 DEF Next

(* Once a script has reported, its transaction does not land any more, and  *)
(* a transaction it reported as rejected has placed no order and never will. *)
THEOREM ReportsAreFinal == Spec => ReportIsFinal
<1>1. FateInv /\ [Next]_vars => [\A a \in Attempts : pc[a] \in Reported =>
       /\ tx'[a] = tx[a]
       /\ \A i \in Index : a \in account'[i].orders =>
            a \in account[i].orders /\ pc[a] # "rejected"]_vars
  BY FateNext DEF ReportKept
<1> QED
  BY <1>1, FateInit, FateNext, PTL DEF Spec, ReportIsFinal

=============================================================================
