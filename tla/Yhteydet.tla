------------------------------- MODULE Yhteydet --------------------------------
(***************************************************************************)
(* KoutaDatabase's connections.  Slick starts a query or a transaction     *)
(* only while fewer than maxConnections are in use, in the order they were *)
(* asked for, and lets what has a connection go on.  A transaction that    *)
(* updates tarjoajat or valintakokeet asks, between its own statements,    *)
(* for a query outside itself, runBlocking in runBlocking, which needs a   *)
(* second connection while the transaction keeps the first.                *)
(*                                                                         *)
(* A caller waits 26 seconds for a transaction, which goes on without it;  *)
(* a transaction waits ten minutes for the query it has asked for.  What   *)
(* is read and written is left out, as is the scheduler's pool of its own. *)
(***************************************************************************)
EXTENDS Naturals, Sequences, FiniteSets

CONSTANTS
    Transactions,       \* calls of runBlockingTransactionally
    Inner,              \* how many queries outside itself each transaction makes
    Connections,        \* maxConnections, as many as the executor has threads
    QueueSize,          \* what the executor's queue holds
    Retries             \* of a transaction that could not be serialized

ASSUME PoolAssumption ==
    /\ IsFiniteSet(Transactions)
    /\ Inner \in [Transactions -> Nat]
    /\ Connections \in Nat \ {0} /\ QueueSize \in Nat \ {0} /\ Retries \in Nat

VARIABLES
    stage,              \* where each transaction is
    inner,              \* queries it has yet to make
    retries,            \* times it may be run again
    waited,             \* the callers still waiting
    queue,              \* what waits for a connection
    reads               \* transactions a query of which has a connection

vars == <<stage, inner, retries, waited, queue, reads>>

Transaction(t) == [kind |-> "transaction", of |-> t]
Query(t) == [kind |-> "query", of |-> t]

Stages == {"new", "queued", "running", "reading", "ended"}
Holding == {t \in Transactions : stage[t] \in {"running", "reading"}}
InUse == Cardinality(Holding) + Cardinality(reads)
Waiting == {queue[i] : i \in 1 .. Len(queue)}

Init ==
    /\ stage = [t \in Transactions |-> "new"]
    /\ inner = [t \in Transactions |-> 0]
    /\ retries = [t \in Transactions |-> Retries]
    /\ waited = {}
    /\ queue = <<>>
    /\ reads = {}

(* Its connection is free, and its caller knows. *)
End(t) == stage' = [stage EXCEPT ![t] = "ended"] /\ waited' = waited \ {t}

(* The executor takes what it is given or, being full, refuses. *)
Enqueue(t) ==
    IF Len(queue) < QueueSize
    THEN /\ queue' = Append(queue, Transaction(t))
         /\ stage' = [stage EXCEPT ![t] = "queued"]
         /\ waited' = waited \cup {t}
    ELSE End(t) /\ UNCHANGED queue

Submit(t) ==
    /\ stage[t] = "new"
    /\ Enqueue(t)
    /\ UNCHANGED <<inner, retries, reads>>

TakeConnection_Uncounted ==                                      \* faulty
    /\ queue # <<>> /\ Cardinality(Holding) < Connections
    /\ queue' = Tail(queue)
    /\ LET t == Head(queue).of IN
       IF Head(queue).kind = "query"
       THEN reads' = reads \cup {t} /\ UNCHANGED <<stage, inner>>
       ELSE /\ stage' = [stage EXCEPT ![t] = "running"]
            /\ inner' = [inner EXCEPT ![t] = Inner[t]]
            /\ UNCHANGED reads
    /\ UNCHANGED <<retries, waited>>

(* Also when nobody waits for it any more. *)
TakeConnection ==
    /\ queue # <<>> /\ InUse < Connections
    /\ queue' = Tail(queue)
    /\ LET t == Head(queue).of IN
       IF Head(queue).kind = "query"
       THEN reads' = reads \cup {t} /\ UNCHANGED <<stage, inner>>
       ELSE /\ stage' = [stage EXCEPT ![t] = "running"]
            /\ inner' = [inner EXCEPT ![t] = Inner[t]]
            /\ UNCHANGED reads
    /\ UNCHANGED <<retries, waited>>

AskInner_RefusedWaits(t) ==                                      \* faulty
    /\ stage[t] = "running" /\ inner[t] > 0
    /\ IF Len(queue) < QueueSize THEN queue' = Append(queue, Query(t)) ELSE UNCHANGED queue
    /\ stage' = [stage EXCEPT ![t] = "reading"]
    /\ UNCHANGED <<inner, retries, waited, reads>>

(* runBlocking inside the transaction. *)
AskInner(t) ==
    /\ stage[t] = "running" /\ inner[t] > 0
    /\ IF Len(queue) < QueueSize
       THEN /\ queue' = Append(queue, Query(t))
            /\ stage' = [stage EXCEPT ![t] = "reading"]
            /\ UNCHANGED waited
       ELSE End(t) /\ UNCHANGED queue
    /\ UNCHANGED <<inner, retries, reads>>

InnerDone_Kept(t) ==                                             \* faulty
    /\ t \in reads /\ stage[t] = "reading"
    /\ reads' = reads \ {t}
    /\ stage' = [stage EXCEPT ![t] = "running"]
    /\ inner' = [inner EXCEPT ![t] = @ - 1]
    /\ UNCHANGED <<retries, waited, queue>>

(* The query is done; its transaction may have given up on it. *)
InnerDone(t) ==
    /\ t \in reads
    /\ reads' = reads \ {t}
    /\ IF stage[t] = "reading"
       THEN /\ stage' = [stage EXCEPT ![t] = "running"]
            /\ inner' = [inner EXCEPT ![t] = @ - 1]
       ELSE UNCHANGED <<stage, inner>>
    /\ UNCHANGED <<retries, waited, queue>>

InnerTimeout_OnlyQuery(t) ==                                     \* faulty
    /\ stage[t] = "reading" /\ t \notin waited /\ t \in reads
    /\ End(t)
    /\ UNCHANGED <<inner, retries, queue, reads>>

(* Await in the transaction ends after ten minutes, long after the caller's: *)
(* it rolls back, and what it asked for is left behind.                      *)
InnerTimeout(t) ==
    /\ stage[t] = "reading" /\ t \notin waited
    /\ End(t)
    /\ UNCHANGED <<inner, retries, queue, reads>>

Finish(t) ==
    /\ stage[t] = "running" /\ inner[t] = 0
    /\ End(t)
    /\ UNCHANGED <<inner, retries, queue, reads>>

(* 40001: the caller, if it waits, runs the transaction again. *)
NotSerializable(t) ==
    /\ stage[t] = "running"
    /\ IF t \in waited /\ retries[t] > 0
       THEN Enqueue(t) /\ retries' = [retries EXCEPT ![t] = @ - 1]
       ELSE End(t) /\ UNCHANGED <<retries, queue>>
    /\ UNCHANGED <<inner, reads>>

(* The caller's Await ends; the transaction goes on. *)
CallerTimeout(t) ==
    /\ t \in waited
    /\ waited' = waited \ {t}
    /\ UNCHANGED <<stage, inner, retries, queue, reads>>

Next == \/ TakeConnection
        \/ \E t \in Transactions :
             \/ Submit(t) \/ AskInner(t) \/ InnerDone(t) \/ InnerTimeout(t)
             \/ Finish(t) \/ NotSerializable(t) \/ CallerTimeout(t)

(* Threads are scheduled, statements return, and Await ends. *)
Fairness ==
    /\ WF_vars(TakeConnection)
    /\ \A t \in Transactions :
         /\ WF_vars(AskInner(t) \/ Finish(t)) /\ WF_vars(InnerDone(t))
         /\ WF_vars(InnerTimeout(t)) /\ WF_vars(CallerTimeout(t))

Spec == Init /\ [][Next]_vars /\ Fairness

-----------------------------------------------------------------------------
(* Properties                                                              *)

Items == {Transaction(t) : t \in Transactions} \cup {Query(t) : t \in Transactions}

(* Types; and no more connections are in use than there are. *)
TypeOK ==
    /\ stage \in [Transactions -> Stages]
    /\ inner \in [Transactions -> Nat]
    /\ retries \in [Transactions -> Nat]
    /\ waited \in SUBSET Transactions /\ reads \in SUBSET Transactions
    /\ queue \in Seq(Items) /\ Len(queue) <= QueueSize
    /\ InUse <= Connections

UnderWay == {t \in Transactions : stage[t] \in {"queued", "running", "reading"}}
Nesting == {t \in Holding : Inner[t] > 0}

(* Something can happen without anyone's Await running out. *)
CanGoOn ==
    \/ queue # <<>> /\ InUse < Connections
    \/ reads # {}
    \/ \E t \in Transactions : stage[t] = "running"

(* Transactions that hold a connection and ask for another wait for each   *)
(* other for ever only if there are as many of them as connections.        *)
StuckOnlyWhenNested ==
    UnderWay # {} /\ Cardinality(Nesting) < Connections => CanGoOn

(* However they wait for each other, every transaction ends, and with it   *)
(* the use of its connection.                                              *)
EveryTransactionEnds == \A t \in Transactions :
    stage[t] = "queued" ~> stage[t] = "ended"

(* Queries nobody waits for any more do not keep their connections, nor    *)
(* stay in the queue.                                                      *)
LeftoversGo == \A t \in Transactions :
    stage[t] = "ended" /\ (t \in reads \/ Query(t) \in Waiting)
      ~> t \notin reads /\ Query(t) \notin Waiting
=============================================================================
