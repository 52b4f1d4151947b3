----------------------------- MODULE YhteydetProofs ----------------------------
(***************************************************************************)
(* For any transactions, queries inside them and connections: no more      *)
(* connections are in use than there are, and transactions can wait for    *)
(* each other only when as many of them ask for a second as there are.     *)
(***************************************************************************)
EXTENDS Yhteydet, FiniteSetTheorems, TLAPS

Typed ==
    /\ stage \in [Transactions -> Stages]
    /\ inner \in [Transactions -> Nat]
    /\ retries \in [Transactions -> Nat]
    /\ waited \in SUBSET Transactions /\ reads \in SUBSET Transactions
    /\ queue \in Seq(Items) /\ Len(queue) <= QueueSize

(* What waits is in the queue, or has what it waits for. *)
Queued(t) ==
    /\ stage[t] = "queued" => Transaction(t) \in Waiting
    /\ stage[t] = "reading" => Query(t) \in Waiting \/ t \in reads

(* Only a transaction with queries inside it makes them. *)
Asks(t) ==
    /\ inner[t] <= Inner[t]
    /\ stage[t] = "reading" => inner[t] > 0

IInv == Typed /\ InUse <= Connections /\ \A t \in Transactions : Queued(t) /\ Asks(t)

-----------------------------------------------------------------------------
(* Connections and the queue *)

LEMMA ItemsDiffer ==
    ASSUME NEW t \in Transactions, NEW u \in Transactions
    PROVE  /\ Transaction(t) \in Items /\ Query(t) \in Items
           /\ Transaction(t) # Query(u)
           /\ Transaction(t).of = t /\ Transaction(t).kind = "transaction"
           /\ Query(t).of = t /\ Query(t).kind = "query"
           /\ Transaction(t) = Transaction(u) => t = u
           /\ Query(t) = Query(u) => t = u
<1>1. Transaction(t).of = t /\ Transaction(t).kind = "transaction" /\ Transaction(u).of = u
  BY DEF Transaction
<1>2. Query(t).of = t /\ Query(t).kind = "query" /\ Query(u).of = u /\ Query(u).kind = "query"
  BY DEF Query
<1>3. Transaction(t) \in Items /\ Query(t) \in Items
  BY DEF Items
<1>4. Transaction(t) # Query(u)
  BY <1>1, <1>2
<1> QED BY <1>1, <1>2, <1>3, <1>4

LEMMA Joining ==
    ASSUME Typed, NEW x \in Items, queue' = Append(queue, x), Len(queue) < QueueSize
    PROVE  queue' \in Seq(Items) /\ Len(queue') <= QueueSize /\ Waiting' = Waiting \cup {x}
<1>1. queue \in Seq(Items) /\ Len(queue) \in Nat /\ QueueSize \in Nat
  BY PoolAssumption DEF Typed
<1>2. queue' \in Seq(Items) /\ Len(queue') = Len(queue) + 1
  BY <1>1
<1>3. \A i \in 1 .. Len(queue) : queue'[i] = queue[i]
  BY <1>1
<1>4. queue'[Len(queue) + 1] = x
  BY <1>1
<1>5. Waiting \cup {x} \subseteq Waiting'
  BY <1>1, <1>2, <1>3, <1>4 DEF Waiting
<1>6. Waiting' \subseteq Waiting \cup {x}
  <2> SUFFICES ASSUME NEW i \in 1 .. Len(queue')
               PROVE  queue'[i] \in Waiting \cup {x}
    BY DEF Waiting
  <2>1. i \in 1 .. Len(queue) \/ i = Len(queue) + 1
    BY <1>1, <1>2
  <2> QED BY <2>1, <1>3, <1>4 DEF Waiting
<1> QED BY <1>1, <1>2, <1>5, <1>6

LEMMA Leaving ==
    ASSUME Typed, queue # <<>>, queue' = Tail(queue)
    PROVE  /\ queue' \in Seq(Items) /\ Len(queue') <= QueueSize /\ Head(queue) \in Items
           /\ \A x \in Waiting : x # Head(queue) => x \in Waiting'
<1>1. queue \in Seq(Items) /\ Len(queue) \in Nat /\ Len(queue) > 0 /\ QueueSize \in Nat
  BY PoolAssumption DEF Typed
<1>2. queue' \in Seq(Items) /\ Len(queue') = Len(queue) - 1 /\ Head(queue) = queue[1]
      /\ Head(queue) \in Items
  BY <1>1
<1>3. \A i \in 1 .. Len(queue') : queue'[i] = queue[i + 1]
  BY <1>1
<1>4. ASSUME NEW x \in Waiting, x # Head(queue)
      PROVE  x \in Waiting'
  <2>1. PICK i \in 1 .. Len(queue) : x = queue[i]
    BY DEF Waiting
  <2>2. i - 1 \in 1 .. Len(queue') /\ queue'[i - 1] = x
    BY <1>1, <1>2, <1>3, <1>4, <2>1
  <2> QED BY <2>2 DEF Waiting
<1> QED BY <1>1, <1>2, <1>4 DEF Typed

LEMMA Counts ==
    ASSUME Typed
    PROVE  /\ IsFiniteSet(Holding) /\ IsFiniteSet(reads)
           /\ Cardinality(Holding) \in Nat /\ Cardinality(reads) \in Nat
<1>1. Holding \subseteq Transactions /\ reads \subseteq Transactions
  BY DEF Typed, Holding
<1> QED BY <1>1, PoolAssumption, FS_Subset, FS_CardinalityType

(* What takes no connection keeps within them. *)
LEMMA NoMoreUsed ==
    ASSUME Typed, InUse <= Connections, Holding' \subseteq Holding, reads' \subseteq reads
    PROVE  InUse' <= Connections
<1>1. /\ Cardinality(Holding') \in Nat /\ Cardinality(Holding') <= Cardinality(Holding)
      /\ Cardinality(reads') \in Nat /\ Cardinality(reads') <= Cardinality(reads)
  BY Counts, FS_Subset, FS_CardinalityType
<1> QED BY <1>1, Counts, PoolAssumption DEF InUse

LEMMA TakenFromFree ==
    ASSUME Typed, InUse < Connections, NEW t \in Transactions,
           \/ Holding' \subseteq Holding \cup {t} /\ reads' \subseteq reads
           \/ Holding' \subseteq Holding /\ reads' \subseteq reads \cup {t}
    PROVE  InUse' <= Connections
<1>a. /\ IsFiniteSet(Holding) /\ Cardinality(Holding) \in Nat
      /\ IsFiniteSet(reads) /\ Cardinality(reads) \in Nat
  BY Counts
<1>b. ASSUME NEW S, IsFiniteSet(S), Cardinality(S) \in Nat
      PROVE  /\ IsFiniteSet(S \cup {t})
             /\ Cardinality(S \cup {t}) \in Nat
             /\ Cardinality(S \cup {t}) <= Cardinality(S) + 1
  <2>1. CASE t \in S
    <3>1. IsFiniteSet(S \cup {t}) /\ Cardinality(S \cup {t}) = Cardinality(S)
      BY <1>b, <2>1, FS_AddElement
    <3> QED BY <1>b, <3>1
  <2>2. CASE t \notin S
    <3>1. IsFiniteSet(S \cup {t}) /\ Cardinality(S \cup {t}) = Cardinality(S) + 1
      BY <1>b, <2>2, FS_AddElement
    <3> QED BY <1>b, <3>1
  <2> QED BY <2>1, <2>2
<1>1. /\ IsFiniteSet(Holding \cup {t}) /\ IsFiniteSet(reads \cup {t})
      /\ Cardinality(Holding \cup {t}) \in Nat /\ Cardinality(reads \cup {t}) \in Nat
      /\ Cardinality(Holding \cup {t}) <= Cardinality(Holding) + 1
      /\ Cardinality(reads \cup {t}) <= Cardinality(reads) + 1
  BY <1>a, <1>b
<1>2. CASE Holding' \subseteq Holding \cup {t} /\ reads' \subseteq reads
  <2>1. /\ Cardinality(Holding') \in Nat /\ Cardinality(Holding') <= Cardinality(Holding \cup {t})
        /\ Cardinality(reads') \in Nat /\ Cardinality(reads') <= Cardinality(reads)
    BY <1>1, <1>2, Counts, FS_Subset, FS_CardinalityType
  <2> QED BY <1>1, <2>1, Counts, PoolAssumption DEF InUse
<1>3. CASE Holding' \subseteq Holding /\ reads' \subseteq reads \cup {t}
  <2>1. /\ Cardinality(Holding') \in Nat /\ Cardinality(Holding') <= Cardinality(Holding)
        /\ Cardinality(reads') \in Nat /\ Cardinality(reads') <= Cardinality(reads \cup {t})
    BY <1>1, <1>3, Counts, FS_Subset, FS_CardinalityType
  <2> QED BY <1>1, <2>1, Counts, PoolAssumption DEF InUse
<1> QED BY <1>2, <1>3

-----------------------------------------------------------------------------
(* The steps *)

LEMMA Initially ==
    ASSUME Init
    PROVE  IInv
<1>1. Typed
  BY PoolAssumption DEF Init, Typed, Stages
<1>2. Holding = {} /\ reads = {}
  BY DEF Init, Holding
<1>3. InUse <= Connections
  BY <1>2, FS_EmptySet, PoolAssumption DEF InUse
<1>4. \A t \in Transactions : Queued(t) /\ Asks(t)
  BY PoolAssumption DEF Init, Queued, Asks
<1> QED BY <1>1, <1>3, <1>4 DEF IInv

LEMMA EnqueueKeeps ==
    ASSUME IInv, NEW t \in Transactions, stage[t] \in {"new", "running"}, Enqueue(t),
           UNCHANGED <<inner, reads>>, retries' \in [Transactions -> Nat]
    PROVE  IInv'
<1>1. CASE Len(queue) < QueueSize
  <2>1. /\ queue' = Append(queue, Transaction(t)) /\ stage' = [stage EXCEPT ![t] = "queued"]
        /\ waited' = waited \cup {t}
    BY <1>1 DEF Enqueue
  <2>2. queue' \in Seq(Items) /\ Len(queue') <= QueueSize /\ Waiting' = Waiting \cup {Transaction(t)}
    BY <1>1, <2>1, Joining, ItemsDiffer DEF IInv
  <2>3. Typed'
    BY <2>1, <2>2 DEF IInv, Typed, Stages
  <2>4. Holding' \subseteq Holding
    BY <2>1 DEF IInv, Typed, Holding
  <2>5. \A u \in Transactions : Queued(u)' /\ Asks(u)'
    BY <2>1, <2>2 DEF IInv, Typed, Queued, Asks
  <2> QED BY <2>3, <2>4, <2>5, NoMoreUsed DEF IInv
<1>2. CASE ~(Len(queue) < QueueSize)
  <2>1. stage' = [stage EXCEPT ![t] = "ended"] /\ waited' = waited \ {t} /\ queue' = queue
    BY <1>2 DEF Enqueue, End
  <2>2. Typed'
    BY <2>1 DEF IInv, Typed, Stages
  <2>3. Holding' \subseteq Holding
    BY <2>1 DEF IInv, Typed, Holding
  <2>4. \A u \in Transactions : Queued(u)' /\ Asks(u)'
    BY <2>1 DEF IInv, Typed, Queued, Asks, Waiting
  <2> QED BY <2>2, <2>3, <2>4, NoMoreUsed DEF IInv
<1> QED BY <1>1, <1>2

(* A transaction that ends leaves its connection and nothing in the queue. *)
LEMMA EndKeeps ==
    ASSUME IInv, NEW t \in Transactions, End(t), UNCHANGED <<inner, retries, queue, reads>>
    PROVE  IInv'
<1>1. Typed'
  BY DEF IInv, Typed, End, Stages
<1>2. Holding' \subseteq Holding
  BY DEF IInv, Typed, Holding, End
<1>3. \A u \in Transactions : Queued(u)' /\ Asks(u)'
  BY DEF IInv, Typed, Queued, Asks, Waiting, End
<1> QED BY <1>1, <1>2, <1>3, NoMoreUsed DEF IInv

LEMMA TakeConnectionKeeps ==
    ASSUME IInv, TakeConnection
    PROVE  IInv'
<1> DEFINE t == Head(queue).of
<1>1. /\ queue' \in Seq(Items) /\ Len(queue') <= QueueSize /\ Head(queue) \in Items
      /\ \A x \in Waiting : x # Head(queue) => x \in Waiting'
      /\ queue # <<>> /\ InUse < Connections /\ UNCHANGED <<retries, waited>>
  BY Leaving DEF TakeConnection, IInv
<1>2. t \in Transactions /\ Head(queue) = IF Head(queue).kind = "query" THEN Query(t) ELSE Transaction(t)
  <2>1. PICK u \in Transactions : Head(queue) = Transaction(u) \/ Head(queue) = Query(u)
    BY <1>1 DEF Items
  <2> QED BY <2>1, ItemsDiffer
<1>3. CASE Head(queue).kind = "query"
  <2>1. reads' = reads \cup {t} /\ stage' = stage /\ inner' = inner
    BY <1>3 DEF TakeConnection
  <2>2. Typed'
    BY <1>1, <1>2, <2>1 DEF IInv, Typed
  <2>3. Holding' \subseteq Holding
    BY <2>1 DEF Holding
  <2>4. ASSUME NEW u \in Transactions
        PROVE  Queued(u)' /\ Asks(u)'
    <3>1. Transaction(u) # Head(queue) /\ (Query(u) = Head(queue) => u = t)
      BY <1>2, <1>3, ItemsDiffer
    <3> QED BY <1>1, <2>1, <3>1 DEF IInv, Queued, Asks
  <2> QED BY <1>1, <1>2, <2>1, <2>2, <2>3, <2>4, TakenFromFree DEF IInv
<1>4. CASE Head(queue).kind # "query"
  <2>1. /\ stage' = [stage EXCEPT ![t] = "running"] /\ inner' = [inner EXCEPT ![t] = Inner[t]]
        /\ reads' = reads
    BY <1>4 DEF TakeConnection
  <2>2. Typed'
    BY <1>1, <1>2, <2>1, PoolAssumption DEF IInv, Typed, Stages
  <2>3. Holding' \subseteq Holding \cup {t}
    BY <1>2, <2>1 DEF IInv, Typed, Holding
  <2>4. ASSUME NEW u \in Transactions
        PROVE  Queued(u)' /\ Asks(u)'
    <3>1. Query(u) # Head(queue) /\ (Transaction(u) = Head(queue) => u = t)
      BY <1>2, <1>4, ItemsDiffer
    <3>2. Inner[u] \in Nat
      BY PoolAssumption
    <3> QED BY <1>1, <2>1, <3>1, <3>2 DEF IInv, Typed, Queued, Asks
  <2> QED BY <1>1, <1>2, <2>1, <2>2, <2>3, <2>4, TakenFromFree DEF IInv
<1> QED BY <1>3, <1>4

LEMMA AskInnerKeeps ==
    ASSUME IInv, NEW t \in Transactions, AskInner(t)
    PROVE  IInv'
<1>1. CASE Len(queue) < QueueSize
  <2>1. /\ queue' = Append(queue, Query(t)) /\ stage' = [stage EXCEPT ![t] = "reading"]
        /\ stage[t] = "running" /\ inner[t] > 0 /\ UNCHANGED <<inner, retries, waited, reads>>
    BY <1>1 DEF AskInner
  <2>2. queue' \in Seq(Items) /\ Len(queue') <= QueueSize /\ Waiting' = Waiting \cup {Query(t)}
    BY <1>1, <2>1, Joining, ItemsDiffer DEF IInv
  <2>3. Typed'
    BY <2>1, <2>2 DEF IInv, Typed, Stages
  <2>4. Holding' \subseteq Holding
    BY <2>1 DEF IInv, Typed, Holding
  <2>5. \A u \in Transactions : Queued(u)' /\ Asks(u)'
    BY <2>1, <2>2 DEF IInv, Typed, Queued, Asks
  <2> QED BY <2>1, <2>3, <2>4, <2>5, NoMoreUsed DEF IInv
<1>2. CASE ~(Len(queue) < QueueSize)
  BY <1>2, EndKeeps DEF AskInner
<1> QED BY <1>1, <1>2

LEMMA InnerDoneKeeps ==
    ASSUME IInv, NEW t \in Transactions, InnerDone(t)
    PROVE  IInv'
<1>1. reads' = reads \ {t} /\ UNCHANGED <<retries, waited, queue>>
  BY DEF InnerDone
<1>2. CASE stage[t] = "reading"
  <2>1. stage' = [stage EXCEPT ![t] = "running"] /\ inner' = [inner EXCEPT ![t] = @ - 1]
        /\ inner[t] \in Nat /\ inner[t] > 0 /\ inner[t] <= Inner[t] /\ Inner[t] \in Nat
    BY <1>2, PoolAssumption DEF InnerDone, IInv, Typed, Asks
  <2>2. Typed'
    BY <1>1, <2>1 DEF IInv, Typed, Stages
  <2>3. Holding' \subseteq Holding
    BY <1>2, <2>1 DEF IInv, Typed, Holding
  <2>4. \A u \in Transactions : Queued(u)' /\ Asks(u)'
    BY <1>1, <2>1 DEF IInv, Typed, Queued, Asks, Waiting
  <2> QED BY <1>1, <2>2, <2>3, <2>4, NoMoreUsed DEF IInv
<1>3. CASE stage[t] # "reading"
  <2>1. stage' = stage /\ inner' = inner
    BY <1>3 DEF InnerDone
  <2>2. Typed' /\ Holding' \subseteq Holding
    BY <1>1, <2>1 DEF IInv, Typed, Holding
  <2>3. \A u \in Transactions : Queued(u)' /\ Asks(u)'
    BY <1>1, <1>3, <2>1 DEF IInv, Queued, Asks, Waiting
  <2> QED BY <1>1, <2>2, <2>3, NoMoreUsed DEF IInv
<1> QED BY <1>2, <1>3

LEMMA Inductive ==
    ASSUME IInv, [Next]_vars
    PROVE  IInv'
<1>1. ASSUME UNCHANGED <<stage, inner, retries, queue, reads>>, waited' \subseteq waited
      PROVE  IInv'
  <2>1. Typed' /\ Holding' \subseteq Holding /\ reads' \subseteq reads
    BY <1>1 DEF IInv, Typed, Holding
  <2>2. \A u \in Transactions : Queued(u)' /\ Asks(u)'
    BY <1>1 DEF IInv, Queued, Asks, Waiting
  <2> QED BY <2>1, <2>2, NoMoreUsed DEF IInv
<1>2. CASE UNCHANGED vars
  BY <1>1, <1>2 DEF vars
<1>3. CASE TakeConnection
  BY <1>3, TakeConnectionKeeps
<1>4. ASSUME NEW t \in Transactions, Submit(t)
      PROVE  IInv'
  <2>1. retries' \in [Transactions -> Nat]
    BY <1>4 DEF Submit, IInv, Typed
  <2> QED BY <1>4, <2>1, EnqueueKeeps DEF Submit
<1>5. ASSUME NEW t \in Transactions, AskInner(t)
      PROVE  IInv'
  BY <1>5, AskInnerKeeps
<1>6. ASSUME NEW t \in Transactions, InnerDone(t)
      PROVE  IInv'
  BY <1>6, InnerDoneKeeps
<1>7. ASSUME NEW t \in Transactions, InnerTimeout(t) \/ Finish(t)
      PROVE  IInv'
  BY <1>7, EndKeeps DEF InnerTimeout, Finish
<1>8. ASSUME NEW t \in Transactions, NotSerializable(t)
      PROVE  IInv'
  <2>1. CASE t \in waited /\ retries[t] > 0
    <3>1. retries' = [retries EXCEPT ![t] = @ - 1] /\ retries \in [Transactions -> Nat]
      BY <1>8, <2>1 DEF NotSerializable, IInv, Typed
    <3>2. retries' \in [Transactions -> Nat]
      BY <2>1, <3>1
    <3> QED BY <1>8, <2>1, <3>2, EnqueueKeeps DEF NotSerializable
  <2>2. CASE ~(t \in waited /\ retries[t] > 0)
    BY <1>8, <2>2, EndKeeps DEF NotSerializable
  <2> QED BY <2>1, <2>2
<1>9. ASSUME NEW t \in Transactions, CallerTimeout(t)
      PROVE  IInv'
  BY <1>1, <1>9 DEF CallerTimeout
<1> QED BY <1>2, <1>3, <1>4, <1>5, <1>6, <1>7, <1>8, <1>9 DEF Next

LEMMA Invariance == Spec => []IInv
<1>1. Init => IInv
  BY Initially
<1>2. IInv /\ [Next]_vars => IInv'
  BY Inductive
<1> QED BY <1>1, <1>2, PTL DEF Spec

-----------------------------------------------------------------------------
(* What follows *)

(* Every reachable state has its type, and no more connections are in use  *)
(* than the pool has, queries inside transactions and left behind included. *)
THEOREM TypeCorrect == Spec => []TypeOK
<1>1. IInv => TypeOK
  BY DEF IInv, Typed, TypeOK
<1> QED BY <1>1, Invariance, PTL

(* With fewer transactions that ask for a second connection than there are *)
(* connections, nobody's Await has to run out for the others to go on.     *)
THEOREM NoDeadlockBelowLimit == Spec => []StuckOnlyWhenNested
<1>1. ASSUME IInv, UnderWay # {}, Cardinality(Nesting) < Connections, ~CanGoOn
      PROVE  FALSE
  <2>1. reads = {} /\ \A t \in Transactions : stage[t] # "running"
    BY <1>1 DEF CanGoOn
  <2>2. Holding = Nesting
    <3>1. ASSUME NEW t \in Holding
          PROVE  Inner[t] > 0
      BY <1>1, <2>1, PoolAssumption DEF IInv, Typed, Asks, Holding
    <3> QED BY <3>1 DEF Nesting
  <2>3. InUse < Connections
    BY <1>1, <2>1, <2>2, FS_EmptySet, Counts DEF InUse, IInv
  <2>4. queue = <<>>
    BY <1>1, <2>3 DEF CanGoOn
  <2>5. Waiting = {}
    BY <2>4 DEF Waiting
  <2>6. PICK t \in Transactions : stage[t] \in {"queued", "reading"}
    BY <1>1, <2>1 DEF UnderWay
  <2> QED BY <1>1, <2>1, <2>5, <2>6 DEF IInv, Queued
<1>2. IInv => StuckOnlyWhenNested
  BY <1>1 DEF StuckOnlyWhenNested
<1> QED BY <1>2, Invariance, PTL
=============================================================================
