-------------------------- MODULE EntitySaveProofs ---------------------------
(***************************************************************************)
(* Theorems about the save path, for any number of people, pictures,       *)
(* retries, pauses and crashes.                                            *)
(***************************************************************************)
EXTENDS EntitySave, TLAPS

USE DEF Waiting, Gone, BeforeSend, InTx, AfterTx, Answered, Stages

-----------------------------------------------------------------------------
(* The inductive invariant, in parts                                       *)

(* A request that may still begin a transaction has a retry left. *)
AttemptsLeft == \A r \in Requests :
    /\ pc[r] \in BeforeSend \cup {"tilaSent", "sent"} => attempt[r] = 0
    /\ pc[r] = "validated" => attempt[r] <= Retries

(* The clock has passed the end of the transaction that wrote the row. *)
ClockPastCommit == version > 0 => lastModified + MinTx <= now

(* What a running transaction sees, and when it began. *)
SnapshotInv == \A r \in Requests : pc[r] \in InTx =>
    /\ snapshot[r] <= version
    /\ snapshot[r] = version =>
         /\ snapshotModified[r] = lastModified
         /\ version > 0 => lastModified + MinTx <= stamp[r]
    /\ pc[r] # "begun" /\ r # Creator => snapshotModified[r] <= token[r]
    /\ pc[r] \in {"begun", "checked", "copied"} => ~changed[r]

(* A locked row is the one of the holder's snapshot, and has one holder. *)
LockInv == \A r \in Requests : Locking(r) =>
    /\ snapshot[r] = version
    /\ \A q \in Requests : Locking(q) => q = r

(* An edit's header dates the version it was made from: within the rounding *)
(* of the header while that version is current, too early once it is not.   *)
TokenInv == \A r \in Edits : pc[r] # "idle" =>
    /\ 0 < seenRow[r] /\ seenRow[r] <= version
    /\ seenRow[r] = version => token[r] <= lastModified + 1000
    /\ seenRow[r] < version => token[r] < lastModified
    /\ pc[r] # "rowRead" => seenRow[r] <= seenChildren[r] /\ seenChildren[r] <= version

(* While nobody else has changed the entity an edit's header covers it. *)
HonestInv == \A r \in Edits : pc[r] # "idle" =>
    /\ seenRow[r] <= version
    /\ seenRow[r] = version => lastModified <= token[r]
    /\ pc[r] \in InTx =>
         /\ seenRow[r] <= snapshot[r]
         /\ seenRow[r] = snapshot[r] => snapshotModified[r] <= token[r]
    /\ pc[r] = "conflict" => seenRow[r] < snapshot[r]

WroteLate == \A r \in Requests : wrote[r] # 0 => pc[r] \in AfterTx \cup Answered

(* Only after the put has committed is there anything to read or edit. *)
PutFirst == /\ version > 0 => pc[Creator] \in AfterTx \cup Answered
            /\ \A r \in Edits \cup TilaChanges : pc[r] # "idle" => version > 0
            /\ \A r \in Edits : pc[r] = "idle" => seenRow[r] = 0

Serializable == ClockPastCommit /\ SnapshotInv /\ LockInv
EditInv == TokenInv /\ WroteLate /\ NoLostUpdate

(* Pictures named by the row, by a body or by a transaction past its copy. *)
ImageInv == /\ teemakuva \in stored \cup {NoImage}
            /\ \A r \in Requests :
                 /\ seenImage[r] \in stored \cup {NoImage}
                 /\ r \in WithImage /\ pc[r] \in {"copied", "written", "audited"}
                      => r \in stored

(* An upload leaves temp/ only after its save has been committed. *)
UploadInv == /\ UploadKeptUntilSaved
             /\ pc[Creator] # "rowRead"
             /\ \A r \in WithImage :
                  /\ pc[r] \in {"written", "audited"} => changed[r]
                  /\ pc[r] = "committed" => wrote[r] # 0

(* Each transaction begun leaves at most one audit entry. *)
AuditInv == /\ CommitsAudited
            /\ \A r \in Requests :
                 /\ pc[r] \in {"begun", "checked", "copied", "written"} => audits[r] < attempt[r]
                 /\ pc[r] \in {"begun", "checked", "copied"} => ~changed[r]
                 /\ pc[r] = "audited" /\ changed[r] => audits[r] > 0

IndexInv == /\ IndexLagExplained
            /\ indexed <= version
            /\ \A r \in Requests : wrote[r] # 0 /\ pc[r] \in AfterTx => changed[r]

-----------------------------------------------------------------------------
(* Type correctness                                                        *)

(* The header is at most a millisecond late, and unless local time repeats  *)
(* itself it is not early.                                                  *)
LEMMA HeaderTimeBounds ==
    ASSUME NEW t \in Nat
    PROVE  /\ HeaderTime(t) \in Nat
           /\ HeaderTime(t) <= t + 1000
           /\ FoldLength = 0 => t < HeaderTime(t)
<1>1. ViaLocalTime(t) \in Nat /\ ViaLocalTime(t) <= t /\ (FoldLength = 0 => ViaLocalTime(t) = t)
  BY BoundsAssumption DEF ViaLocalTime
<1> QED
  BY <1>1 DEF HeaderTime

LEMMA TypeInit == Init => TypeOK /\ AttemptsLeft
BY RequestsAssumption, BoundsAssumption DEF Init, TypeOK, AttemptsLeft, Requests

LEMMA TypeStep == TypeOK /\ AttemptsLeft /\ [Next]_vars => (TypeOK /\ AttemptsLeft)'
<1> SUFFICES ASSUME TypeOK, AttemptsLeft, [Next]_vars
             PROVE  TypeOK' /\ AttemptsLeft'
  OBVIOUS
<1> USE RequestsAssumption, BoundsAssumption
    DEF TypeOK, AttemptsLeft, dbVars, bodyVars, txVars, imageVars, indexVars, Goto
<1>1. ASSUME NEW r \in Requests, GetRow(r) PROVE TypeOK' /\ AttemptsLeft'
  BY <1>1, HeaderTimeBounds DEF GetRow
<1>2. ASSUME NEW r \in Requests, GetChildren(r) PROVE TypeOK' /\ AttemptsLeft'
  BY <1>2 DEF GetChildren
<1>3. ASSUME NEW r \in Requests, UploadImage(r) PROVE TypeOK' /\ AttemptsLeft'
  BY <1>3 DEF UploadImage
<1>4. ASSUME NEW r \in Requests, Send(r) PROVE TypeOK' /\ AttemptsLeft'
  BY <1>4 DEF Send, Composing
<1>5. ASSUME NEW r \in Requests, SendTilaChange(r) PROVE TypeOK' /\ AttemptsLeft'
  BY <1>5 DEF SendTilaChange
<1>6. ASSUME NEW r \in Requests, Validate(r) PROVE TypeOK' /\ AttemptsLeft'
  BY <1>6 DEF Validate
<1>7. ASSUME NEW r \in Requests, Begin(r) PROVE TypeOK' /\ AttemptsLeft'
  BY <1>7 DEF Begin
<1>8. ASSUME NEW r \in Requests, CheckNotModified(r) PROVE TypeOK' /\ AttemptsLeft'
  BY <1>8 DEF CheckNotModified, Refused
<1>9. ASSUME NEW r \in Requests, CopyImage(r) PROVE TypeOK' /\ AttemptsLeft'
  BY <1>9 DEF CopyImage
<1>10. ASSUME NEW r \in Requests, CopyFails(r) PROVE TypeOK' /\ AttemptsLeft'
  BY <1>10 DEF CopyFails
<1>11. ASSUME NEW r \in Requests, Write(r) PROVE TypeOK' /\ AttemptsLeft'
  BY <1>11 DEF Write
<1>12. ASSUME NEW r \in Requests, WriteNothing(r) PROVE TypeOK' /\ AttemptsLeft'
  BY <1>12 DEF WriteNothing
<1>13. ASSUME NEW r \in Requests, Audit(r) PROVE TypeOK' /\ AttemptsLeft'
  BY <1>13 DEF Audit
<1>14. ASSUME NEW r \in Requests, Commit(r) PROVE TypeOK' /\ AttemptsLeft'
  BY <1>14 DEF Commit, Refused, ImageAfter
<1>15. ASSUME NEW r \in Requests, SerializationFailure(r) PROVE TypeOK' /\ AttemptsLeft'
  BY <1>15 DEF SerializationFailure
<1>16. ASSUME NEW r \in Requests, AwaitTimeout(r) PROVE TypeOK' /\ AttemptsLeft'
  BY <1>16 DEF AwaitTimeout
<1>17. ASSUME NEW r \in Requests, DeleteTemp(r) PROVE TypeOK' /\ AttemptsLeft'
  BY <1>17 DEF DeleteTemp
<1>18. ASSUME NEW r \in Requests, QuickIndex(r) PROVE TypeOK' /\ AttemptsLeft'
  BY <1>18 DEF QuickIndex
<1>19. ASSUME NEW r \in Requests, Index(r) PROVE TypeOK' /\ AttemptsLeft'
  BY <1>19 DEF Index
<1>20. ASSUME NEW r \in Requests, Deliver(r) PROVE TypeOK' /\ AttemptsLeft'
  BY <1>20 DEF Deliver
<1>21. CASE Crash
  BY <1>21 DEF Crash
<1>22. CASE Tick
  BY <1>22 DEF Tick
<1>23. CASE UNCHANGED vars
  BY <1>23 DEF vars
<1> QED
  BY <1>1, <1>2, <1>3, <1>4, <1>5, <1>6, <1>7, <1>8, <1>9, <1>10, <1>11, <1>12, <1>13,
     <1>14, <1>15, <1>16, <1>17, <1>18, <1>19, <1>20, <1>21, <1>22, <1>23 DEF Next

(* The state keeps its types; in particular no request ever begins more     *)
(* transactions than the first attempt and its retries.                     *)
THEOREM TypeCorrect == Spec => []TypeOK
<1>1. Spec => [](TypeOK /\ AttemptsLeft)
  BY TypeInit, TypeStep, PTL DEF Spec
<1> QED
  BY <1>1, PTL
-----------------------------------------------------------------------------
(* The row lock and the clock                                              *)

LEMMA LockingInit == Init => Serializable
BY RequestsAssumption, BoundsAssumption
   DEF Init, Serializable, ClockPastCommit, SnapshotInv, LockInv, Locking, Requests

(* First-updater-wins: a transaction that holds the row has its current     *)
(* version in its snapshot and began after that version was committed.      *)
LEMMA LockingStep == TypeOK /\ Serializable /\ [Next]_vars => Serializable'
<1> SUFFICES ASSUME TypeOK, Serializable, [Next]_vars PROVE Serializable'
  OBVIOUS
<1> USE RequestsAssumption, BoundsAssumption
    DEF TypeOK, Serializable, ClockPastCommit, SnapshotInv, LockInv, Locking,
        dbVars, bodyVars, txVars, imageVars, indexVars, Goto
<1>1. ASSUME NEW r \in Requests, GetRow(r) PROVE Serializable'
  BY <1>1 DEF GetRow
<1>2. ASSUME NEW r \in Requests, GetChildren(r) PROVE Serializable'
  BY <1>2 DEF GetChildren
<1>3. ASSUME NEW r \in Requests, UploadImage(r) PROVE Serializable'
  BY <1>3 DEF UploadImage
<1>4. ASSUME NEW r \in Requests, Send(r) PROVE Serializable'
  BY <1>4 DEF Send, Composing
<1>5. ASSUME NEW r \in Requests, SendTilaChange(r) PROVE Serializable'
  BY <1>5 DEF SendTilaChange
<1>6. ASSUME NEW r \in Requests, Validate(r) PROVE Serializable'
  BY <1>6 DEF Validate
<1>7. ASSUME NEW r \in Requests, Begin(r) PROVE Serializable'
  BY <1>7 DEF Begin
<1>8. ASSUME NEW r \in Requests, CheckNotModified(r) PROVE Serializable'
  BY <1>8 DEF CheckNotModified, Refused
<1>9. ASSUME NEW r \in Requests, CopyImage(r) PROVE Serializable'
  BY <1>9 DEF CopyImage
<1>10. ASSUME NEW r \in Requests, CopyFails(r) PROVE Serializable'
  BY <1>10 DEF CopyFails
<1>11. ASSUME NEW r \in Requests, Write(r) PROVE Serializable'
  BY <1>11 DEF Write
<1>12. ASSUME NEW r \in Requests, WriteNothing(r) PROVE Serializable'
  BY <1>12 DEF WriteNothing
<1>13. ASSUME NEW r \in Requests, Audit(r) PROVE Serializable'
  BY <1>13 DEF Audit
<1>14. ASSUME NEW r \in Requests, Commit(r) PROVE Serializable'
  BY <1>14 DEF Commit, Refused, ImageAfter
<1>15. ASSUME NEW r \in Requests, SerializationFailure(r) PROVE Serializable'
  BY <1>15 DEF SerializationFailure
<1>16. ASSUME NEW r \in Requests, AwaitTimeout(r) PROVE Serializable'
  BY <1>16 DEF AwaitTimeout
<1>17. ASSUME NEW r \in Requests, DeleteTemp(r) PROVE Serializable'
  BY <1>17 DEF DeleteTemp
<1>18. ASSUME NEW r \in Requests, QuickIndex(r) PROVE Serializable'
  BY <1>18 DEF QuickIndex
<1>19. ASSUME NEW r \in Requests, Index(r) PROVE Serializable'
  BY <1>19 DEF Index
<1>20. ASSUME NEW r \in Requests, Deliver(r) PROVE Serializable'
  BY <1>20 DEF Deliver
<1>21. CASE Crash
  BY <1>21 DEF Crash, OnServer
<1>22. CASE Tick
  BY <1>22 DEF Tick
<1>23. CASE UNCHANGED vars
  BY <1>23 DEF vars
<1> QED
  BY <1>1, <1>2, <1>3, <1>4, <1>5, <1>6, <1>7, <1>8, <1>9, <1>10, <1>11, <1>12, <1>13,
     <1>14, <1>15, <1>16, <1>17, <1>18, <1>19, <1>20, <1>21, <1>22, <1>23 DEF Next

(* last_modified, though it is the now() of a transaction's beginning,      *)
(* grows with every committed change if transactions take any time at all.  *)
THEOREM LastModifiedIsMonotonic ==
    ASSUME MinTx > 0
    PROVE  Spec => LastModifiedGrows
<1> DEFINE Grows == version' # version /\ version > 0 => lastModified' > lastModified
<1>1. ASSUME TypeOK, Serializable, [Next]_vars
      PROVE  Grows
  <2> USE <1>1, BoundsAssumption DEF TypeOK, dbVars
  <2>1. ASSUME NEW r \in Requests, Commit(r) PROVE Grows
    BY <2>1, SMT DEF Commit, Serializable, SnapshotInv, LockInv, Locking
  <2>2. CASE ~(\E r \in Requests : Commit(r))
    BY <2>2 DEF Next, vars, GetRow, GetChildren, UploadImage, Send, SendTilaChange, Validate,
       Begin, CheckNotModified, CopyImage, CopyFails, Write, WriteNothing, Audit,
       SerializationFailure, AwaitTimeout, DeleteTemp, QuickIndex, Index, Deliver, Crash, Tick
  <2> QED
    BY <2>1, <2>2
<1>2. Spec => [](TypeOK /\ AttemptsLeft /\ Serializable)
  BY TypeInit, TypeStep, LockingInit, LockingStep, PTL DEF Spec
<1> QED
  BY <1>1, <1>2, PTL DEF Spec, LastModifiedGrows

-----------------------------------------------------------------------------
(* The optimistic lock                                                     *)

LEMMA EditInit == Init => EditInv
BY RequestsAssumption DEF Init, EditInv, TokenInv, WroteLate, NoLostUpdate, Requests

(* A header is rounded up by at most a millisecond, so it stays below the   *)
(* last_modified of every later version if transactions take longer.        *)
LEMMA EditStep ==
    ASSUME MinTx > 1000
    PROVE  TypeOK /\ Serializable /\ EditInv /\ [Next]_vars => EditInv'
<1> SUFFICES ASSUME TypeOK, Serializable, EditInv, [Next]_vars PROVE EditInv'
  OBVIOUS
<1>0. MinTx \in Nat
  BY BoundsAssumption
<1> USE <1>0, RequestsAssumption
    DEF Requests, TypeOK, EditInv, TokenInv, WroteLate, NoLostUpdate,
        dbVars, bodyVars, txVars, imageVars, indexVars, Goto
<1>1. ASSUME NEW r \in Requests, GetRow(r) PROVE EditInv'
  <2>1. /\ HeaderTime(lastModified) \in Nat
        /\ HeaderTime(lastModified) <= lastModified + 1000
        /\ FoldLength = 0 => lastModified < HeaderTime(lastModified)
    BY HeaderTimeBounds
  <2> QED
    BY <1>1, <2>1 DEF GetRow
<1>2. ASSUME NEW r \in Requests, GetChildren(r) PROVE EditInv'
  BY <1>2 DEF GetChildren
<1>3. ASSUME NEW r \in Requests, UploadImage(r) PROVE EditInv'
  BY <1>3 DEF UploadImage
<1>4. ASSUME NEW r \in Requests, Send(r) PROVE EditInv'
  BY <1>4 DEF Send, Composing
<1>5. ASSUME NEW r \in Requests, SendTilaChange(r) PROVE EditInv'
  BY <1>5 DEF SendTilaChange
<1>6. ASSUME NEW r \in Requests, Validate(r) PROVE EditInv'
  BY <1>6 DEF Validate
<1>7. ASSUME NEW r \in Requests, Begin(r) PROVE EditInv'
  BY <1>7 DEF Begin
<1>8. ASSUME NEW r \in Requests, CheckNotModified(r) PROVE EditInv'
  BY <1>8 DEF CheckNotModified, Refused
<1>9. ASSUME NEW r \in Requests, CopyImage(r) PROVE EditInv'
  BY <1>9 DEF CopyImage
<1>10. ASSUME NEW r \in Requests, CopyFails(r) PROVE EditInv'
  BY <1>10 DEF CopyFails
<1>11. ASSUME NEW r \in Requests, Write(r) PROVE EditInv'
  BY <1>11 DEF Write
<1>12. ASSUME NEW r \in Requests, WriteNothing(r) PROVE EditInv'
  BY <1>12 DEF WriteNothing
<1>13. ASSUME NEW r \in Requests, Audit(r) PROVE EditInv'
  BY <1>13 DEF Audit
<1>14. ASSUME NEW r \in Requests, Commit(r) PROVE EditInv'
  BY <1>14 DEF Commit, Refused, ImageAfter, Serializable, SnapshotInv, LockInv, Locking
<1>15. ASSUME NEW r \in Requests, SerializationFailure(r) PROVE EditInv'
  BY <1>15 DEF SerializationFailure
<1>16. ASSUME NEW r \in Requests, AwaitTimeout(r) PROVE EditInv'
  BY <1>16 DEF AwaitTimeout
<1>17. ASSUME NEW r \in Requests, DeleteTemp(r) PROVE EditInv'
  BY <1>17 DEF DeleteTemp
<1>18. ASSUME NEW r \in Requests, QuickIndex(r) PROVE EditInv'
  BY <1>18 DEF QuickIndex
<1>19. ASSUME NEW r \in Requests, Index(r) PROVE EditInv'
  BY <1>19 DEF Index
<1>20. ASSUME NEW r \in Requests, Deliver(r) PROVE EditInv'
  BY <1>20 DEF Deliver
<1>21. CASE Crash
  BY <1>21 DEF Crash, OnServer
<1>22. CASE Tick
  BY <1>22 DEF Tick
<1>23. CASE UNCHANGED vars
  BY <1>23 DEF vars
<1> HIDE DEF Requests, TypeOK, EditInv, TokenInv, WroteLate, NoLostUpdate,
             dbVars, bodyVars, txVars, imageVars, indexVars, Goto
<1> QED
  BY <1>1, <1>2, <1>3, <1>4, <1>5, <1>6, <1>7, <1>8, <1>9, <1>10, <1>11, <1>12, <1>13,
     <1>14, <1>15, <1>16, <1>17, <1>18, <1>19, <1>20, <1>21, <1>22, <1>23 DEF Next

(* The optimistic lock works for any number of editors, retries, timeouts   *)
(* and crashes, if a transaction that changes the row takes more than the   *)
(* millisecond of the header's rounding.                                    *)
THEOREM OptimisticLock ==
    ASSUME MinTx > 1000
    PROVE  Spec => []NoLostUpdate
<1>1. Spec => [](TypeOK /\ AttemptsLeft /\ Serializable /\ EditInv)
  BY TypeInit, TypeStep, LockingInit, LockingStep, EditInit, EditStep, PTL DEF Spec
<1>2. EditInv => NoLostUpdate
  BY DEF EditInv
<1> QED
  BY <1>1, <1>2, PTL

LEMMA HonestInit == Init => HonestInv
BY DEF Init, HonestInv, Requests

(* The header of an unchanged entity stays at or above its last_modified.   *)
LEMMA HonestStep ==
    ASSUME FoldLength = 0
    PROVE  TypeOK /\ HonestInv /\ [Next]_vars => HonestInv'
<1> SUFFICES ASSUME TypeOK, HonestInv, [Next]_vars PROVE HonestInv'
  OBVIOUS
<1>0. MinTx \in Nat
  BY BoundsAssumption
<1> USE <1>0, RequestsAssumption
    DEF Requests, TypeOK, HonestInv,
        dbVars, bodyVars, txVars, imageVars, indexVars, Goto
<1>1. ASSUME NEW r \in Requests, GetRow(r) PROVE HonestInv'
  <2>1. /\ HeaderTime(lastModified) \in Nat
        /\ HeaderTime(lastModified) <= lastModified + 1000
        /\ FoldLength = 0 => lastModified < HeaderTime(lastModified)
    BY HeaderTimeBounds
  <2> QED
    BY <1>1, <2>1 DEF GetRow
<1>2. ASSUME NEW r \in Requests, GetChildren(r) PROVE HonestInv'
  BY <1>2 DEF GetChildren
<1>3. ASSUME NEW r \in Requests, UploadImage(r) PROVE HonestInv'
  BY <1>3 DEF UploadImage
<1>4. ASSUME NEW r \in Requests, Send(r) PROVE HonestInv'
  BY <1>4 DEF Send, Composing
<1>5. ASSUME NEW r \in Requests, SendTilaChange(r) PROVE HonestInv'
  BY <1>5 DEF SendTilaChange
<1>6. ASSUME NEW r \in Requests, Validate(r) PROVE HonestInv'
  BY <1>6 DEF Validate
<1>7. ASSUME NEW r \in Requests, Begin(r) PROVE HonestInv'
  BY <1>7 DEF Begin
<1>8. ASSUME NEW r \in Requests, CheckNotModified(r) PROVE HonestInv'
  BY <1>8 DEF CheckNotModified, Refused
<1>9. ASSUME NEW r \in Requests, CopyImage(r) PROVE HonestInv'
  BY <1>9 DEF CopyImage
<1>10. ASSUME NEW r \in Requests, CopyFails(r) PROVE HonestInv'
  BY <1>10 DEF CopyFails
<1>11. ASSUME NEW r \in Requests, Write(r) PROVE HonestInv'
  BY <1>11 DEF Write
<1>12. ASSUME NEW r \in Requests, WriteNothing(r) PROVE HonestInv'
  BY <1>12 DEF WriteNothing
<1>13. ASSUME NEW r \in Requests, Audit(r) PROVE HonestInv'
  BY <1>13 DEF Audit
<1>14. ASSUME NEW r \in Requests, Commit(r) PROVE HonestInv'
  BY <1>14 DEF Commit, Refused, ImageAfter
<1>15. ASSUME NEW r \in Requests, SerializationFailure(r) PROVE HonestInv'
  BY <1>15 DEF SerializationFailure
<1>16. ASSUME NEW r \in Requests, AwaitTimeout(r) PROVE HonestInv'
  BY <1>16 DEF AwaitTimeout
<1>17. ASSUME NEW r \in Requests, DeleteTemp(r) PROVE HonestInv'
  BY <1>17 DEF DeleteTemp
<1>18. ASSUME NEW r \in Requests, QuickIndex(r) PROVE HonestInv'
  BY <1>18 DEF QuickIndex
<1>19. ASSUME NEW r \in Requests, Index(r) PROVE HonestInv'
  BY <1>19 DEF Index
<1>20. ASSUME NEW r \in Requests, Deliver(r) PROVE HonestInv'
  BY <1>20 DEF Deliver
<1>21. CASE Crash
  BY <1>21 DEF Crash, OnServer
<1>22. CASE Tick
  BY <1>22 DEF Tick
<1>23. CASE UNCHANGED vars
  BY <1>23 DEF vars
<1> QED
  BY <1>1, <1>2, <1>3, <1>4, <1>5, <1>6, <1>7, <1>8, <1>9, <1>10, <1>11, <1>12, <1>13,
     <1>14, <1>15, <1>16, <1>17, <1>18, <1>19, <1>20, <1>21, <1>22, <1>23 DEF Next

(* Nobody is refused because of "another user" who is not there, whatever   *)
(* is retried or timed out, except in the hour local time repeats.          *)
THEOREM ConflictsAreReal ==
    ASSUME FoldLength = 0
    PROVE  Spec => []NoFalseConflict
<1>1. Spec => [](TypeOK /\ AttemptsLeft /\ HonestInv)
  BY TypeInit, TypeStep, HonestInit, HonestStep, PTL DEF Spec
<1>2. HonestInv => NoFalseConflict
  BY DEF HonestInv, NoFalseConflict
<1> QED
  BY <1>1, <1>2, PTL

-----------------------------------------------------------------------------
(* Pictures                                                                *)

LEMMA ImageInit == Init => ImageInv
BY RequestsAssumption DEF Init, ImageInv, Requests

LEMMA ImageStep == TypeOK /\ ImageInv /\ [Next]_vars => ImageInv'
<1> SUFFICES ASSUME TypeOK, ImageInv, [Next]_vars PROVE ImageInv'
  OBVIOUS
<1> USE RequestsAssumption DEF TypeOK, ImageInv, dbVars, bodyVars, txVars, imageVars, indexVars, Goto
<1>1. ASSUME NEW r \in Requests, GetRow(r) PROVE ImageInv'
  BY <1>1 DEF GetRow
<1>2. ASSUME NEW r \in Requests, GetChildren(r) PROVE ImageInv'
  BY <1>2 DEF GetChildren
<1>3. ASSUME NEW r \in Requests, UploadImage(r) PROVE ImageInv'
  BY <1>3 DEF UploadImage
<1>4. ASSUME NEW r \in Requests, Send(r) PROVE ImageInv'
  BY <1>4 DEF Send, Composing
<1>5. ASSUME NEW r \in Requests, SendTilaChange(r) PROVE ImageInv'
  BY <1>5 DEF SendTilaChange
<1>6. ASSUME NEW r \in Requests, Validate(r) PROVE ImageInv'
  BY <1>6 DEF Validate
<1>7. ASSUME NEW r \in Requests, Begin(r) PROVE ImageInv'
  BY <1>7 DEF Begin
<1>8. ASSUME NEW r \in Requests, CheckNotModified(r) PROVE ImageInv'
  BY <1>8 DEF CheckNotModified, Refused
<1>9. ASSUME NEW r \in Requests, CopyImage(r) PROVE ImageInv'
  BY <1>9 DEF CopyImage
<1>10. ASSUME NEW r \in Requests, CopyFails(r) PROVE ImageInv'
  BY <1>10 DEF CopyFails
<1>11. ASSUME NEW r \in Requests, Write(r) PROVE ImageInv'
  BY <1>11 DEF Write
<1>12. ASSUME NEW r \in Requests, WriteNothing(r) PROVE ImageInv'
  BY <1>12 DEF WriteNothing
<1>13. ASSUME NEW r \in Requests, Audit(r) PROVE ImageInv'
  BY <1>13 DEF Audit
<1>14. ASSUME NEW r \in Requests, Commit(r) PROVE ImageInv'
  BY <1>14 DEF Commit, Refused, ImageAfter
<1>15. ASSUME NEW r \in Requests, SerializationFailure(r) PROVE ImageInv'
  BY <1>15 DEF SerializationFailure
<1>16. ASSUME NEW r \in Requests, AwaitTimeout(r) PROVE ImageInv'
  BY <1>16 DEF AwaitTimeout
<1>17. ASSUME NEW r \in Requests, DeleteTemp(r) PROVE ImageInv'
  BY <1>17 DEF DeleteTemp
<1>18. ASSUME NEW r \in Requests, QuickIndex(r) PROVE ImageInv'
  BY <1>18 DEF QuickIndex
<1>19. ASSUME NEW r \in Requests, Index(r) PROVE ImageInv'
  BY <1>19 DEF Index
<1>20. ASSUME NEW r \in Requests, Deliver(r) PROVE ImageInv'
  BY <1>20 DEF Deliver
<1>21. CASE Crash
  BY <1>21 DEF Crash, OnServer
<1>22. CASE Tick
  BY <1>22 DEF Tick
<1>23. CASE UNCHANGED vars
  BY <1>23 DEF vars
<1> QED
  BY <1>1, <1>2, <1>3, <1>4, <1>5, <1>6, <1>7, <1>8, <1>9, <1>10, <1>11, <1>12, <1>13,
     <1>14, <1>15, <1>16, <1>17, <1>18, <1>19, <1>20, <1>21, <1>22, <1>23 DEF Next

(* The committed row never names a picture that is not at its permanent     *)
(* key: the copy precedes the write in every transaction and stays when the *)
(* transaction is rolled back.                                              *)
THEOREM ImagesStored == Spec => []ImageStored
<1>1. Spec => [](TypeOK /\ AttemptsLeft /\ ImageInv)
  BY TypeInit, TypeStep, ImageInit, ImageStep, PTL DEF Spec
<1>2. ImageInv => ImageStored
  BY DEF ImageInv, ImageStored
<1> QED
  BY <1>1, <1>2, PTL

LEMMA UploadInit == Init => UploadInv /\ WroteLate
BY RequestsAssumption DEF Init, UploadInv, UploadKeptUntilSaved, WroteLate, Requests

LEMMA UploadStep ==
    TypeOK /\ UploadInv /\ WroteLate /\ [Next]_vars => UploadInv' /\ WroteLate'
<1> SUFFICES ASSUME TypeOK, UploadInv, WroteLate, [Next]_vars PROVE UploadInv' /\ WroteLate'
  OBVIOUS
<1> USE RequestsAssumption
    DEF Requests, TypeOK, UploadInv, UploadKeptUntilSaved, WroteLate,
        dbVars, bodyVars, txVars, imageVars, indexVars, Goto
<1>1. ASSUME NEW r \in Requests, GetRow(r) PROVE UploadInv' /\ WroteLate'
  BY <1>1 DEF GetRow
<1>2. ASSUME NEW r \in Requests, GetChildren(r) PROVE UploadInv' /\ WroteLate'
  BY <1>2 DEF GetChildren
<1>3. ASSUME NEW r \in Requests, UploadImage(r) PROVE UploadInv' /\ WroteLate'
  BY <1>3 DEF UploadImage
<1>4. ASSUME NEW r \in Requests, Send(r) PROVE UploadInv' /\ WroteLate'
  BY <1>4 DEF Send, Composing
<1>5. ASSUME NEW r \in Requests, SendTilaChange(r) PROVE UploadInv' /\ WroteLate'
  BY <1>5 DEF SendTilaChange
<1>6. ASSUME NEW r \in Requests, Validate(r) PROVE UploadInv' /\ WroteLate'
  BY <1>6 DEF Validate
<1>7. ASSUME NEW r \in Requests, Begin(r) PROVE UploadInv' /\ WroteLate'
  BY <1>7 DEF Begin
<1>8. ASSUME NEW r \in Requests, CheckNotModified(r) PROVE UploadInv' /\ WroteLate'
  BY <1>8 DEF CheckNotModified, Refused
<1>9. ASSUME NEW r \in Requests, CopyImage(r) PROVE UploadInv' /\ WroteLate'
  BY <1>9 DEF CopyImage
<1>10. ASSUME NEW r \in Requests, CopyFails(r) PROVE UploadInv' /\ WroteLate'
  BY <1>10 DEF CopyFails
<1>11. ASSUME NEW r \in Requests, Write(r) PROVE UploadInv' /\ WroteLate'
  BY <1>11 DEF Write
<1>12. ASSUME NEW r \in Requests, WriteNothing(r) PROVE UploadInv' /\ WroteLate'
  BY <1>12 DEF WriteNothing
<1>13. ASSUME NEW r \in Requests, Audit(r) PROVE UploadInv' /\ WroteLate'
  BY <1>13 DEF Audit
<1>14. ASSUME NEW r \in Requests, Commit(r) PROVE UploadInv' /\ WroteLate'
  BY <1>14 DEF Commit, Refused, ImageAfter
<1>15. ASSUME NEW r \in Requests, SerializationFailure(r) PROVE UploadInv' /\ WroteLate'
  BY <1>15 DEF SerializationFailure
<1>16. ASSUME NEW r \in Requests, AwaitTimeout(r) PROVE UploadInv' /\ WroteLate'
  BY <1>16 DEF AwaitTimeout
<1>17. ASSUME NEW r \in Requests, DeleteTemp(r) PROVE UploadInv' /\ WroteLate'
  BY <1>17 DEF DeleteTemp
<1>18. ASSUME NEW r \in Requests, QuickIndex(r) PROVE UploadInv' /\ WroteLate'
  BY <1>18 DEF QuickIndex
<1>19. ASSUME NEW r \in Requests, Index(r) PROVE UploadInv' /\ WroteLate'
  BY <1>19 DEF Index
<1>20. ASSUME NEW r \in Requests, Deliver(r) PROVE UploadInv' /\ WroteLate'
  BY <1>20 DEF Deliver
<1>21. CASE Crash
  BY <1>21 DEF Crash, OnServer
<1>22. CASE Tick
  BY <1>22 DEF Tick
<1>23. CASE UNCHANGED vars
  BY <1>23 DEF vars
<1> QED
  BY <1>1, <1>2, <1>3, <1>4, <1>5, <1>6, <1>7, <1>8, <1>9, <1>10, <1>11, <1>12, <1>13,
     <1>14, <1>15, <1>16, <1>17, <1>18, <1>19, <1>20, <1>21, <1>22, <1>23 DEF Next

(* An upload stays under temp/ until the save that names it is committed,   *)
(* so every retry finds it.                                                 *)
THEOREM UploadsKept == Spec => []UploadKeptUntilSaved
<1>1. Spec => [](TypeOK /\ AttemptsLeft /\ UploadInv /\ WroteLate)
  BY TypeInit, TypeStep, UploadInit, UploadStep, PTL DEF Spec
<1>2. UploadInv => UploadKeptUntilSaved
  BY DEF UploadInv
<1> QED
  BY <1>1, <1>2, PTL

-----------------------------------------------------------------------------
(* The audit log and the index                                             *)

LEMMA AuditInit == Init => AuditInv
BY RequestsAssumption DEF Init, AuditInv, CommitsAudited, Requests

LEMMA AuditStep ==
    TypeOK /\ AuditInv /\ [Next]_vars => AuditInv'
<1> SUFFICES ASSUME TypeOK, AuditInv, [Next]_vars PROVE AuditInv'
  OBVIOUS
<1> USE RequestsAssumption, BoundsAssumption
    DEF Requests, TypeOK, AuditInv, CommitsAudited, dbVars, bodyVars, txVars, imageVars, indexVars, Goto
<1>1. ASSUME NEW r \in Requests, GetRow(r) PROVE AuditInv'
  BY <1>1 DEF GetRow
<1>2. ASSUME NEW r \in Requests, GetChildren(r) PROVE AuditInv'
  BY <1>2 DEF GetChildren
<1>3. ASSUME NEW r \in Requests, UploadImage(r) PROVE AuditInv'
  BY <1>3 DEF UploadImage
<1>4. ASSUME NEW r \in Requests, Send(r) PROVE AuditInv'
  BY <1>4 DEF Send, Composing
<1>5. ASSUME NEW r \in Requests, SendTilaChange(r) PROVE AuditInv'
  BY <1>5 DEF SendTilaChange
<1>6. ASSUME NEW r \in Requests, Validate(r) PROVE AuditInv'
  BY <1>6 DEF Validate
<1>7. ASSUME NEW r \in Requests, Begin(r) PROVE AuditInv'
  BY <1>7 DEF Begin
<1>8. ASSUME NEW r \in Requests, CheckNotModified(r) PROVE AuditInv'
  BY <1>8 DEF CheckNotModified, Refused
<1>9. ASSUME NEW r \in Requests, CopyImage(r) PROVE AuditInv'
  BY <1>9 DEF CopyImage
<1>10. ASSUME NEW r \in Requests, CopyFails(r) PROVE AuditInv'
  BY <1>10 DEF CopyFails
<1>11. ASSUME NEW r \in Requests, Write(r) PROVE AuditInv'
  BY <1>11 DEF Write
<1>12. ASSUME NEW r \in Requests, WriteNothing(r) PROVE AuditInv'
  BY <1>12 DEF WriteNothing
<1>13. ASSUME NEW r \in Requests, Audit(r) PROVE AuditInv'
  BY <1>13 DEF Audit
<1>14. ASSUME NEW r \in Requests, Commit(r) PROVE AuditInv'
  BY <1>14 DEF Commit, Refused, ImageAfter
<1>15. ASSUME NEW r \in Requests, SerializationFailure(r) PROVE AuditInv'
  BY <1>15 DEF SerializationFailure
<1>16. ASSUME NEW r \in Requests, AwaitTimeout(r) PROVE AuditInv'
  BY <1>16 DEF AwaitTimeout
<1>17. ASSUME NEW r \in Requests, DeleteTemp(r) PROVE AuditInv'
  BY <1>17 DEF DeleteTemp
<1>18. ASSUME NEW r \in Requests, QuickIndex(r) PROVE AuditInv'
  BY <1>18 DEF QuickIndex
<1>19. ASSUME NEW r \in Requests, Index(r) PROVE AuditInv'
  BY <1>19 DEF Index
<1>20. ASSUME NEW r \in Requests, Deliver(r) PROVE AuditInv'
  BY <1>20 DEF Deliver
<1>21. CASE Crash
  BY <1>21 DEF Crash, OnServer
<1>22. CASE Tick
  BY <1>22 DEF Tick
<1>23. CASE UNCHANGED vars
  BY <1>23 DEF vars
<1> QED
  BY <1>1, <1>2, <1>3, <1>4, <1>5, <1>6, <1>7, <1>8, <1>9, <1>10, <1>11, <1>12, <1>13,
     <1>14, <1>15, <1>16, <1>17, <1>18, <1>19, <1>20, <1>21, <1>22, <1>23 DEF Next

(* Every committed change is in the audit log, and no request is there more *)
(* often than it began a transaction.                                       *)
THEOREM ChangesAudited == Spec => []CommitsAudited
<1>1. Spec => [](TypeOK /\ AttemptsLeft /\ AuditInv)
  BY TypeInit, TypeStep, AuditInit, AuditStep, PTL DEF Spec
<1>2. AuditInv => CommitsAudited
  BY DEF AuditInv
<1> QED
  BY <1>1, <1>2, PTL

LEMMA IndexInit == Init => IndexInv
BY RequestsAssumption DEF Init, IndexInv, IndexLagExplained, Requests

LEMMA IndexStep ==
    TypeOK /\ WroteLate /\ IndexInv /\ [Next]_vars => IndexInv'
<1> SUFFICES ASSUME TypeOK, WroteLate, IndexInv, [Next]_vars PROVE IndexInv'
  OBVIOUS
<1> USE RequestsAssumption, BoundsAssumption
    DEF TypeOK, WroteLate, IndexInv, IndexLagExplained, dbVars, bodyVars, txVars, imageVars, indexVars, Goto
<1>1. ASSUME NEW r \in Requests, GetRow(r) PROVE IndexInv'
  BY <1>1 DEF GetRow
<1>2. ASSUME NEW r \in Requests, GetChildren(r) PROVE IndexInv'
  BY <1>2 DEF GetChildren
<1>3. ASSUME NEW r \in Requests, UploadImage(r) PROVE IndexInv'
  BY <1>3 DEF UploadImage
<1>4. ASSUME NEW r \in Requests, Send(r) PROVE IndexInv'
  BY <1>4 DEF Send, Composing
<1>5. ASSUME NEW r \in Requests, SendTilaChange(r) PROVE IndexInv'
  BY <1>5 DEF SendTilaChange
<1>6. ASSUME NEW r \in Requests, Validate(r) PROVE IndexInv'
  BY <1>6 DEF Validate
<1>7. ASSUME NEW r \in Requests, Begin(r) PROVE IndexInv'
  BY <1>7 DEF Begin
<1>8. ASSUME NEW r \in Requests, CheckNotModified(r) PROVE IndexInv'
  BY <1>8 DEF CheckNotModified, Refused
<1>9. ASSUME NEW r \in Requests, CopyImage(r) PROVE IndexInv'
  BY <1>9 DEF CopyImage
<1>10. ASSUME NEW r \in Requests, CopyFails(r) PROVE IndexInv'
  BY <1>10 DEF CopyFails
<1>11. ASSUME NEW r \in Requests, Write(r) PROVE IndexInv'
  BY <1>11 DEF Write
<1>12. ASSUME NEW r \in Requests, WriteNothing(r) PROVE IndexInv'
  BY <1>12 DEF WriteNothing
<1>13. ASSUME NEW r \in Requests, Audit(r) PROVE IndexInv'
  BY <1>13 DEF Audit
<1>14. ASSUME NEW r \in Requests, Commit(r) PROVE IndexInv'
  BY <1>14 DEF Commit, Refused, ImageAfter
<1>15. ASSUME NEW r \in Requests, SerializationFailure(r) PROVE IndexInv'
  BY <1>15 DEF SerializationFailure
<1>16. ASSUME NEW r \in Requests, AwaitTimeout(r) PROVE IndexInv'
  BY <1>16 DEF AwaitTimeout
<1>17. ASSUME NEW r \in Requests, DeleteTemp(r) PROVE IndexInv'
  BY <1>17 DEF DeleteTemp
<1>18. ASSUME NEW r \in Requests, QuickIndex(r) PROVE IndexInv'
  BY <1>18 DEF QuickIndex
<1>19. ASSUME NEW r \in Requests, Index(r) PROVE IndexInv'
  BY <1>19 DEF Index
<1>20. ASSUME NEW r \in Requests, Deliver(r) PROVE IndexInv'
  BY <1>20 DEF Deliver
<1>21. CASE Crash
  BY <1>21 DEF Crash, OnServer
<1>22. CASE Tick
  BY <1>22 DEF Tick
<1>23. CASE UNCHANGED vars
  BY <1>23 DEF vars
<1> QED
  BY <1>1, <1>2, <1>3, <1>4, <1>5, <1>6, <1>7, <1>8, <1>9, <1>10, <1>11, <1>12, <1>13,
     <1>14, <1>15, <1>16, <1>17, <1>18, <1>19, <1>20, <1>21, <1>22, <1>23 DEF Next

(* An index that is behind has a message on its way or a last committer     *)
(* that was cut short, has given up waiting or has warned its user.         *)
THEOREM IndexLagIsExplained == Spec => []IndexLagExplained
<1>1. Spec => [](TypeOK /\ AttemptsLeft /\ UploadInv /\ WroteLate /\ IndexInv)
  BY TypeInit, TypeStep, UploadInit, UploadStep, IndexInit, IndexStep, PTL DEF Spec
<1>2. IndexInv => IndexLagExplained
  BY DEF IndexInv
<1> QED
  BY <1>1, <1>2, PTL

-----------------------------------------------------------------------------
(* Refinement                                                              *)

LEMMA PutFirstInit == Init => PutFirst
BY RequestsAssumption DEF Init, PutFirst, Requests

LEMMA PutFirstStep ==
    TypeOK /\ PutFirst /\ [Next]_vars => PutFirst'
<1> SUFFICES ASSUME TypeOK, PutFirst, [Next]_vars PROVE PutFirst'
  OBVIOUS
<1> USE RequestsAssumption
    DEF Requests, TypeOK, PutFirst, dbVars, bodyVars, txVars, imageVars, indexVars, Goto
<1>1. ASSUME NEW r \in Requests, GetRow(r) PROVE PutFirst'
  BY <1>1 DEF GetRow
<1>2. ASSUME NEW r \in Requests, GetChildren(r) PROVE PutFirst'
  BY <1>2 DEF GetChildren
<1>3. ASSUME NEW r \in Requests, UploadImage(r) PROVE PutFirst'
  BY <1>3 DEF UploadImage
<1>4. ASSUME NEW r \in Requests, Send(r) PROVE PutFirst'
  BY <1>4 DEF Send, Composing
<1>5. ASSUME NEW r \in Requests, SendTilaChange(r) PROVE PutFirst'
  BY <1>5 DEF SendTilaChange
<1>6. ASSUME NEW r \in Requests, Validate(r) PROVE PutFirst'
  BY <1>6 DEF Validate
<1>7. ASSUME NEW r \in Requests, Begin(r) PROVE PutFirst'
  BY <1>7 DEF Begin
<1>8. ASSUME NEW r \in Requests, CheckNotModified(r) PROVE PutFirst'
  BY <1>8 DEF CheckNotModified, Refused
<1>9. ASSUME NEW r \in Requests, CopyImage(r) PROVE PutFirst'
  BY <1>9 DEF CopyImage
<1>10. ASSUME NEW r \in Requests, CopyFails(r) PROVE PutFirst'
  BY <1>10 DEF CopyFails
<1>11. ASSUME NEW r \in Requests, Write(r) PROVE PutFirst'
  BY <1>11 DEF Write
<1>12. ASSUME NEW r \in Requests, WriteNothing(r) PROVE PutFirst'
  BY <1>12 DEF WriteNothing
<1>13. ASSUME NEW r \in Requests, Audit(r) PROVE PutFirst'
  BY <1>13 DEF Audit
<1>14. ASSUME NEW r \in Requests, Commit(r) PROVE PutFirst'
  BY <1>14 DEF Commit, Refused
<1>15. ASSUME NEW r \in Requests, SerializationFailure(r) PROVE PutFirst'
  BY <1>15 DEF SerializationFailure
<1>16. ASSUME NEW r \in Requests, AwaitTimeout(r) PROVE PutFirst'
  BY <1>16 DEF AwaitTimeout
<1>17. ASSUME NEW r \in Requests, DeleteTemp(r) PROVE PutFirst'
  BY <1>17 DEF DeleteTemp
<1>18. ASSUME NEW r \in Requests, QuickIndex(r) PROVE PutFirst'
  BY <1>18 DEF QuickIndex
<1>19. ASSUME NEW r \in Requests, Index(r) PROVE PutFirst'
  BY <1>19 DEF Index
<1>20. ASSUME NEW r \in Requests, Deliver(r) PROVE PutFirst'
  BY <1>20 DEF Deliver
<1>21. CASE Crash
  BY <1>21 DEF Crash, OnServer
<1>22. CASE Tick
  BY <1>22 DEF Tick
<1>23. CASE UNCHANGED vars
  BY <1>23 DEF vars
<1> QED
  BY <1>1, <1>2, <1>3, <1>4, <1>5, <1>6, <1>7, <1>8, <1>9, <1>10, <1>11, <1>12, <1>13,
     <1>14, <1>15, <1>16, <1>17, <1>18, <1>19, <1>20, <1>21, <1>22, <1>23 DEF Next

(* The one step that stores a version is, without bulk tila changes, the    *)
(* register's Create or one of its accepted saves.                          *)
LEMMA CommitRefines ==
    ASSUME MinTx > 1000, TilaChanges = {},
           TypeOK, Serializable, EditInv, PutFirst,
           NEW r \in Requests, Commit(r)
    PROVE  [Promise!Next]_Promise!vars
<1>0. MinTx \in Nat
  BY BoundsAssumption
<1> USE <1>0, RequestsAssumption DEF Requests, TypeOK, dbVars, bodyVars
<1>1. CASE ~changed[r]
  BY <1>1 DEF Commit, Promise!vars
<1>2. CASE changed[r] /\ r = Creator
  <2>1. version = 0
    BY <1>2 DEF Commit, PutFirst
  <2>2. Promise!Create
    BY <1>2, <2>1 DEF Commit, Promise!Create
  <2> QED
    BY <2>2 DEF Promise!Next
<1>3. CASE changed[r] /\ r \in Edits
  <2>1. seenRow[r] = version /\ version > 0
    BY <1>3 DEF Commit, Serializable, SnapshotInv, LockInv, Locking, EditInv, TokenInv
  <2>2. Promise!Save(r)
    BY <1>3, <2>1 DEF Commit, Promise!Save, Promise!Stops
  <2> QED
    BY <1>3, <2>2 DEF Promise!Next
<1> QED
  BY <1>1, <1>2, <1>3

(* Without bulk tila changes the whole save path, with its rounded headers, *)
(* retries, timeouts and crashes, is the compare-and-set register that      *)
(* SavedEntity promises.                                                    *)
THEOREM Refinement ==
    ASSUME MinTx > 1000, TilaChanges = {}
    PROVE  Spec => KeepsPromise
<1>1. Init => Promise!Init
  BY DEF Init, Promise!Init, Requests
<1>2. ASSUME TypeOK, Serializable, EditInv, PutFirst, [Next]_vars
      PROVE  [Promise!Next]_Promise!vars
  <2> USE <1>2 DEF bodyVars, dbVars
  <2>1. ASSUME NEW r \in Requests, GetRow(r) PROVE [Promise!Next]_Promise!vars
    <3>1. r \in Edits /\ seenRow[r] = 0 /\ version > 0
      BY <2>1 DEF GetRow, PutFirst
    <3>2. /\ seenRow' = [seenRow EXCEPT ![r] = version] /\ UNCHANGED version
          /\ seenRow \in [Requests -> Nat]
      BY <2>1 DEF GetRow, TypeOK
    <3>3. [e \in Edits |-> seenRow'[e]] = [[e \in Edits |-> seenRow[e]] EXCEPT ![r] = version]
      <4>1. \A e \in Edits : seenRow'[e] = IF e = r THEN version ELSE seenRow[e]
        BY <3>2 DEF Requests
      <4> QED
        BY <3>1, <4>1, ZenonT(60)
    <3>4. Promise!Read(r)
      BY <3>1, <3>2, <3>3 DEF Promise!Read
    <3> QED
      BY <3>1, <3>4 DEF Promise!Next
  <2>2. ASSUME NEW r \in Requests, Commit(r) PROVE [Promise!Next]_Promise!vars
    BY <2>2, CommitRefines
  <2>3. CASE ~(\E r \in Requests : GetRow(r) \/ Commit(r))
    <3>1. UNCHANGED <<version, seenRow>>
      BY <2>3 DEF Next, vars, GetChildren, UploadImage, Send, SendTilaChange, Validate,
         Begin, CheckNotModified, CopyImage, CopyFails, Write, WriteNothing, Audit,
         SerializationFailure, AwaitTimeout, DeleteTemp, QuickIndex, Index, Deliver, Crash, Tick
    <3> QED
      BY <3>1 DEF Promise!vars
  <2> QED
    BY <2>1, <2>2, <2>3
<1>3. Spec => [](TypeOK /\ AttemptsLeft /\ Serializable /\ EditInv /\ PutFirst)
  BY TypeInit, TypeStep, LockingInit, LockingStep, EditInit, EditStep,
     PutFirstInit, PutFirstStep, PTL DEF Spec
<1> QED
  BY <1>1, <1>2, <1>3, PTL DEF Spec, KeepsPromise, Promise!Spec

-----------------------------------------------------------------------------
(* What the people saving are told                                         *)

(* "Updated" means that a version was committed, any other answer that none *)
(* was; but an error may hide a commit once the caller's Await has ended.   *)
AnswersTell == \A r \in Requests :
    /\ pc[r] = "updated" => wrote[r] # 0
    /\ pc[r] \in {"unchanged", "conflict", "rejected"} => wrote[r] = 0
    /\ pc[r] = "failed" /\ wrote[r] # 0 => caller[r] = Gone

(* After its transaction a request knows whether it wrote. *)
Outcome == \A r \in Requests : pc[r] \in AfterTx => (changed[r] <=> wrote[r] # 0)

Authors(v) == {r \in Requests : wrote[r] = v}

(* No retry commits a change twice, and no version comes from nowhere. *)
OneAuthorEach == \A v \in 1..version : \E r \in Requests : Authors(v) = {r}

NothingAhead == \A r \in Requests : wrote[r] <= version

LEMMA AnswerStep ==
    TypeOK /\ WroteLate /\ Outcome /\ AnswersTell /\ [Next]_vars => AnswersTell' /\ Outcome'
<1> SUFFICES ASSUME TypeOK, WroteLate, Outcome, AnswersTell, [Next]_vars
             PROVE  AnswersTell' /\ Outcome'
  OBVIOUS
<1> USE RequestsAssumption
    DEF TypeOK, WroteLate, Outcome, AnswersTell,
        dbVars, bodyVars, txVars, imageVars, indexVars, Goto
<1>1. ASSUME NEW r \in Requests, GetRow(r) PROVE AnswersTell' /\ Outcome'
  BY <1>1 DEF GetRow
<1>2. ASSUME NEW r \in Requests, GetChildren(r) PROVE AnswersTell' /\ Outcome'
  BY <1>2 DEF GetChildren
<1>3. ASSUME NEW r \in Requests, UploadImage(r) PROVE AnswersTell' /\ Outcome'
  BY <1>3 DEF UploadImage
<1>4. ASSUME NEW r \in Requests, Send(r) PROVE AnswersTell' /\ Outcome'
  BY <1>4 DEF Send, Composing
<1>5. ASSUME NEW r \in Requests, SendTilaChange(r) PROVE AnswersTell' /\ Outcome'
  BY <1>5 DEF SendTilaChange
<1>6. ASSUME NEW r \in Requests, Validate(r) PROVE AnswersTell' /\ Outcome'
  BY <1>6 DEF Validate
<1>7. ASSUME NEW r \in Requests, Begin(r) PROVE AnswersTell' /\ Outcome'
  BY <1>7 DEF Begin
<1>8. ASSUME NEW r \in Requests, CheckNotModified(r) PROVE AnswersTell' /\ Outcome'
  BY <1>8 DEF CheckNotModified, Refused
<1>9. ASSUME NEW r \in Requests, CopyImage(r) PROVE AnswersTell' /\ Outcome'
  BY <1>9 DEF CopyImage
<1>10. ASSUME NEW r \in Requests, CopyFails(r) PROVE AnswersTell' /\ Outcome'
  BY <1>10 DEF CopyFails
<1>11. ASSUME NEW r \in Requests, Write(r) PROVE AnswersTell' /\ Outcome'
  BY <1>11 DEF Write
<1>12. ASSUME NEW r \in Requests, WriteNothing(r) PROVE AnswersTell' /\ Outcome'
  BY <1>12 DEF WriteNothing
<1>13. ASSUME NEW r \in Requests, Audit(r) PROVE AnswersTell' /\ Outcome'
  BY <1>13 DEF Audit
<1>14. ASSUME NEW r \in Requests, Commit(r) PROVE AnswersTell' /\ Outcome'
  BY <1>14 DEF Commit, Refused
<1>15. ASSUME NEW r \in Requests, SerializationFailure(r) PROVE AnswersTell' /\ Outcome'
  BY <1>15 DEF SerializationFailure
<1>16. ASSUME NEW r \in Requests, AwaitTimeout(r) PROVE AnswersTell' /\ Outcome'
  BY <1>16 DEF AwaitTimeout
<1>17. ASSUME NEW r \in Requests, DeleteTemp(r) PROVE AnswersTell' /\ Outcome'
  BY <1>17 DEF DeleteTemp
<1>18. ASSUME NEW r \in Requests, QuickIndex(r) PROVE AnswersTell' /\ Outcome'
  BY <1>18 DEF QuickIndex
<1>19. ASSUME NEW r \in Requests, Index(r) PROVE AnswersTell' /\ Outcome'
  BY <1>19 DEF Index
<1>20. ASSUME NEW r \in Requests, Deliver(r) PROVE AnswersTell' /\ Outcome'
  BY <1>20 DEF Deliver
<1>21. CASE Crash
  BY <1>21 DEF Crash, OnServer
<1>22. CASE Tick
  BY <1>22 DEF Tick
<1>23. CASE UNCHANGED vars
  BY <1>23 DEF vars
<1> QED
  BY <1>1, <1>2, <1>3, <1>4, <1>5, <1>6, <1>7, <1>8, <1>9, <1>10, <1>11, <1>12, <1>13,
     <1>14, <1>15, <1>16, <1>17, <1>18, <1>19, <1>20, <1>21, <1>22, <1>23 DEF Next

(* Only a commit writes, and none writes for a request a second time. *)
LEMMA AuthorStep ==
    TypeOK /\ WroteLate /\ NothingAhead /\ OneAuthorEach /\ [Next]_vars
      => (NothingAhead /\ OneAuthorEach)'
<1> SUFFICES ASSUME TypeOK, WroteLate, NothingAhead, OneAuthorEach, [Next]_vars
             PROVE  NothingAhead' /\ OneAuthorEach'
  OBVIOUS
<1>1. CASE UNCHANGED <<wrote, version>>
  BY <1>1 DEF NothingAhead, OneAuthorEach, Authors
<1>2. ASSUME NEW r \in Requests, Commit(r), changed[r] PROVE NothingAhead' /\ OneAuthorEach'
  <2>1. /\ version \in Nat /\ version' = version + 1 /\ wrote \in [Requests -> Nat]
        /\ wrote' = [wrote EXCEPT ![r] = version + 1] /\ wrote[r] = 0
    BY <1>2 DEF Commit, TypeOK, WroteLate
  <2>2. NothingAhead'
    BY <2>1 DEF NothingAhead
  <2>3. ASSUME NEW v \in 1..version' PROVE \E q \in Requests : Authors(v)' = {q}
    <3>1. CASE v = version + 1
      <4>1. Authors(v)' = {r}
        BY <2>1, <3>1 DEF Authors, NothingAhead
      <4> QED BY <4>1
    <3>2. CASE v # version + 1
      <4>1. v \in 1..version /\ Authors(v)' = Authors(v)
        BY <2>1, <3>2 DEF Authors
      <4> QED BY <4>1 DEF OneAuthorEach
    <3> QED BY <3>1, <3>2
  <2> QED BY <2>2, <2>3 DEF OneAuthorEach
<1>3. ASSUME ~\E r \in Requests : Commit(r) /\ changed[r] PROVE UNCHANGED <<wrote, version>>
  BY <1>3 DEF Next, vars, dbVars, GetRow, GetChildren, UploadImage, Send, SendTilaChange,
     Validate, Begin, CheckNotModified, CopyImage, CopyFails, Write, WriteNothing, Audit,
     Commit, SerializationFailure, AwaitTimeout, DeleteTemp, QuickIndex, Index, Deliver,
     Crash, Tick
<1> QED
  BY <1>1, <1>2, <1>3

LEMMA AnswerInvariance ==
    Spec => [](TypeOK /\ UploadInv /\ WroteLate /\ Outcome /\ AnswersTell
                /\ NothingAhead /\ OneAuthorEach)
<1>1. Init => Outcome /\ AnswersTell /\ NothingAhead /\ OneAuthorEach
  BY DEF Init, Outcome, AnswersTell, NothingAhead, OneAuthorEach
<1> QED
  BY <1>1, TypeInit, TypeStep, UploadInit, UploadStep, AnswerStep, AuthorStep, PTL DEF Spec

(* What the servlet answers is what happened to the entity, however often    *)
(* the transaction was rolled back and run again (KoutaDatabase retries).    *)
THEOREM AnswersAreTrue == Spec => []AnswersTell
BY AnswerInvariance, PTL

(* Every version of the entity is the work of one request, and each request *)
(* has at most one: a retried transaction never stores a change twice.      *)
THEOREM VersionsHaveAuthors == Spec => []OneAuthorEach
BY AnswerInvariance, PTL

(* Messages handled late and in any order, a quick indexing that answered   *)
(* with an error among them, never take the index back (sqsQueue.scala).    *)
THEOREM IndexOnlyAdvances == Spec => [][indexed' >= indexed]_vars
<1>1. TypeOK /\ IndexInv /\ [Next]_vars => [indexed' >= indexed]_vars
  BY DEF TypeOK, IndexInv, Next, vars, indexVars, GetRow, GetChildren, UploadImage, Send,
     SendTilaChange, Validate, Begin, CheckNotModified, CopyImage, CopyFails, Write,
     WriteNothing, Audit, Commit, SerializationFailure, AwaitTimeout, DeleteTemp, QuickIndex,
     Index, Deliver, Crash, Tick
<1>2. Spec => [](TypeOK /\ AttemptsLeft /\ UploadInv /\ WroteLate /\ IndexInv)
  BY TypeInit, TypeStep, UploadInit, UploadStep, IndexInit, IndexStep, PTL DEF Spec
<1> QED
  BY <1>1, <1>2, PTL DEF Spec
=============================================================================
